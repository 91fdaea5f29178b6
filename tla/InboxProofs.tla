----------------------------- MODULE InboxProofs -----------------------------
(* Theorems about Inbox: preferences that are settled are honoured, what is *)
(* stored is not replayed, only what was listed is marked as viewed,        *)
(* retention leaves the newest of every list, and a client that pages to    *)
(* the end has seen it, but for what was taken from the replay buffer under *)
(* it; for any number of calls, readers and requests that set the           *)
(* preference.                                                              *)
EXTENDS Inbox, FiniteSetTheorems, TLAPS

Stages == {"idle", "save", "hand", "answered", "failed"}
Steps == {"new", "next", "mark", "query", "remove", "end"}
Ids == 1..lastId
Row == [app : Apps \union {"none"}, viewed : BOOLEAN]

----------------------------------------------------------------------------
(* Types.                                                                  *)
(* A row that a request is to write has an id that was handed out.         *)
Rows ==
    /\ DOMAIN prefs \subseteq 1..lastPref
    /\ \A w \in Writers : wpc[w] # "idle" => wrow[w] \in 1..lastPref

LEMMA KindsTyped ==
    ASSUME kind \in [Messages -> Kinds], NEW m \in Messages
    PROVE  /\ kind[m].batch \in BOOLEAN /\ kind[m].save \in BOOLEAN
           /\ kind[m].silent \in BOOLEAN /\ kind[m].app \in Apps
  BY DEF Kinds, Singles, Batches

LEMMA InitTyped == Init => TypeOK
<1> SUFFICES ASSUME Init PROVE TypeOK
  OBVIOUS
<1>1. PrefTypeOK
  BY PreferenceConstants DEF Init, PrefInit, PrefTypeOK, Levels
<1>2. /\ kind \in [Messages -> Kinds]
      /\ stage \in [Messages -> Stages]
      /\ level \in [Messages -> Levels]
      /\ asked \in [Messages -> Levels \union {"unknown"}]
  BY DEF Init, Stages, Levels
<1>3. /\ lastId \in 0..MaxIds /\ id \in [Messages -> 0..lastId]
      /\ DOMAIN rows \subseteq Ids /\ inserted \subseteq Ids
      /\ jobs = {} /\ replay = {} /\ handed = {} /\ covered = {}
  BY InboxConstants DEF Init, Ids
<1>4. rows \in [DOMAIN rows -> Row]
  <2>1. rows \in [1..lastId -> [app : Apps \union {"none"}, viewed : {FALSE}]]
    BY DEF Init
  <2> QED
    BY <2>1 DEF Row
<1>5. /\ client \in [Readers -> Clients]
      /\ reading \in [Readers -> Steps]
      /\ offset \in [Readers -> Nat]
      /\ page \in [Readers -> SUBSET Ids] /\ seen \in [Readers -> SUBSET Ids]
      /\ before \in [Readers -> SUBSET Ids]
      /\ cut \in [Readers -> BOOLEAN] /\ gone \in [Readers -> SUBSET Ids]
      /\ faults \in 0..MaxFaults
  BY InboxConstants DEF Init, Steps
<1> QED
  BY <1>1, <1>2, <1>3, <1>4, <1>5 DEF TypeOK, Stages, Steps, Ids, Row

LEMMA WriteTyped ==
    ASSUME PrefTypeOK, Rows, NEW w \in Writers, Write(w)
    PROVE  PrefTypeOK' /\ Rows'
<1> USE DEF PrefTypeOK, Rows, Levels, Finish, Begin
<1>0. MaxPrefs \in Nat
  BY PreferenceConstants
<1>1. CASE LookUpToSet(w)
  <2>1. PICK l \in Levels, s \in {"update", "insert"}, i \in 1..MaxPrefs :
            /\ Begin(w, s, l, i) /\ prefs' = prefs
            /\ lastPref' \in 0..MaxPrefs /\ lastPref' >= lastPref /\ i <= lastPref'
    BY <1>0, <1>1 DEF LookUpToSet, Oldest
  <2> QED
    BY <1>0, <2>1
<1>2. CASE LookUpToDelete(w)
  BY <1>0, <1>2 DEF LookUpToDelete, Oldest
<1>3. ASSUME NEW certain, Finish(w, certain)
      PROVE  /\ lastPref' \in 0..MaxPrefs
             /\ wpc' \in [Writers -> {"idle", "update", "insert", "delete"}]
             /\ wlevel' \in [Writers -> Levels]
             /\ wrow' \in [Writers -> 0..MaxPrefs]
             /\ lone' \in [Writers -> BOOLEAN]
             /\ settled' \in Levels \union {"unknown"}
             /\ lastPref' = lastPref
             /\ \A v \in Writers : wpc'[v] # "idle" => wrow'[v] \in 1..lastPref
  BY <1>0, <1>3
<1>4. CASE UpdatePreference(w)
  BY <1>3, <1>4 DEF UpdatePreference
<1>5. CASE InsertPreference(w)
  <2>1. wrow[w] \in 1..lastPref /\ wlevel[w] \in Levels
    BY <1>5 DEF InsertPreference
  <2>2. /\ DOMAIN prefs' = DOMAIN prefs \union {wrow[w]}
        /\ \A i \in DOMAIN prefs' : prefs'[i] \in Levels
        /\ prefs' = [i \in DOMAIN prefs' |-> prefs'[i]]
    BY <1>5, <2>1 DEF InsertPreference
  <2>3. DOMAIN prefs' \subseteq 1..lastPref /\ prefs' \in [DOMAIN prefs' -> Levels]
    BY <2>1, <2>2
  <2> QED
    BY <1>0, <1>3, <1>5, <2>3 DEF InsertPreference
<1>6. CASE SoftDeletePreference(w)
  BY <1>3, <1>6 DEF SoftDeletePreference
<1>7. CASE WriterFails(w)
  BY <1>3, <1>7 DEF WriterFails
<1> QED
  BY <1>1, <1>2, <1>4, <1>5, <1>6, <1>7 DEF Write

(* The types in three parts: what calls, readers and retention work on.    *)
CallTypes ==
    /\ kind \in [Messages -> Kinds] /\ stage \in [Messages -> Stages]
    /\ level \in [Messages -> Levels] /\ asked \in [Messages -> Levels \union {"unknown"}]
    /\ lastId \in 0..MaxIds /\ id \in [Messages -> 0..lastId]
    /\ faults \in 0..MaxFaults

StoreTypes ==
    /\ jobs \subseteq [id : Ids, save : BOOLEAN]
    /\ DOMAIN rows \subseteq Ids /\ rows \in [DOMAIN rows -> Row]
    /\ replay \subseteq Ids /\ inserted \subseteq Ids /\ handed \subseteq Ids
    /\ covered \subseteq Ids

ReadTypes ==
    /\ client \in [Readers -> Clients] /\ reading \in [Readers -> Steps]
    /\ offset \in [Readers -> Nat]
    /\ page \in [Readers -> SUBSET Ids] /\ seen \in [Readers -> SUBSET Ids]
    /\ before \in [Readers -> SUBSET Ids]
    /\ cut \in [Readers -> BOOLEAN] /\ gone \in [Readers -> SUBSET Ids]

LEMMA TypeParts ==
    /\ TypeOK <=> PrefTypeOK /\ CallTypes /\ StoreTypes /\ ReadTypes
    /\ TypeOK' <=> PrefTypeOK' /\ CallTypes' /\ StoreTypes' /\ ReadTypes'
<1>1. TypeOK <=> PrefTypeOK /\ CallTypes /\ StoreTypes /\ ReadTypes
  BY Zenon DEF TypeOK, CallTypes, StoreTypes, ReadTypes, Stages, Steps, Ids, Row
<1>2. TypeOK' <=> PrefTypeOK' /\ CallTypes' /\ StoreTypes' /\ ReadTypes'
  BY Zenon DEF TypeOK, CallTypes, StoreTypes, ReadTypes, Stages, Steps, Ids, Row
<1> QED
  BY <1>1, <1>2

(* A call that asked has an id of its own.                                 *)
OwnIds ==
    /\ \A m \in Messages : stage[m] # "idle" => id[m] \in Ids
    /\ \A m, n \in Messages : stage[m] # "idle" /\ stage[n] # "idle" /\ id[m] = id[n] => m = n

LEMMA AskTyped ==
    ASSUME TypeOK, NEW m \in Messages, Ask(m)
    PROVE  TypeOK'
<1> USE TypeParts
<1>1. PrefTypeOK'
  BY DEF Ask, TypeOK, prefVars, writing, PrefTypeOK
<1>2. lastId \in Nat /\ lastId' = lastId + 1 /\ lastId' \in 0..MaxIds /\ Ids \subseteq Ids'
  BY InboxConstants DEF Ask, TypeOK, Ids
<1>3. CallTypes'
  <2>1. \A l \in LevelFound \union LevelsFoundByMany : l \in Levels
    BY DEF TypeOK, PrefTypeOK, LevelFound, LevelsFoundByMany, Levels, Oldest
  <2>2. PICK l \in Levels, s \in Stages :
            level' = [level EXCEPT ![m] = l] /\ stage' = [stage EXCEPT ![m] = s]
    BY <2>1 DEF Ask, Stages
  <2>3. settled \in Levels \union {"unknown"}
    BY DEF TypeOK, PrefTypeOK
  <2>4. id' \in [Messages -> 0..lastId']
    BY <1>2 DEF Ask, CallTypes
  <2>5. asked' \in [Messages -> Levels \union {"unknown"}]
    BY <2>3 DEF Ask, CallTypes
  <2> QED
    BY <1>2, <2>2, <2>4, <2>5 DEF Ask, CallTypes
<1>4. StoreTypes'
  BY <1>2 DEF Ask, StoreTypes
<1>5. ReadTypes'
  BY <1>2 DEF Ask, ReadTypes, reads, since
<1> QED
  BY <1>1, <1>3, <1>4, <1>5

LEMMA CallTyped ==
    ASSUME TypeOK, OwnIds, NEW m \in Messages,
           SaveNotification(m) \/ SaveFails(m) \/ HandOn(m) \/ HandOnFails(m)
    PROVE  TypeOK'
<1> USE TypeParts
<1>1. PrefTypeOK' /\ ReadTypes' /\ Ids' = Ids
  BY DEF SaveNotification, SaveFails, HandOn, HandOnFails, TypeOK, prefVars, writing,
         PrefTypeOK, ReadTypes, reads, since, Ids
<1>2. CallTypes'
  <2>1. \E s \in Stages : stage' = [stage EXCEPT ![m] = s]
    BY DEF SaveNotification, SaveFails, HandOn, HandOnFails, Stages
  <2>2. UNCHANGED <<kind, level, id, lastId, asked>> /\ (faults' = faults \/ Fault)
    BY DEF SaveNotification, SaveFails, HandOn, HandOnFails
  <2>3. faults' \in 0..MaxFaults
    BY <2>2, InboxConstants DEF Fault, CallTypes
  <2> QED
    BY <2>1, <2>2, <2>3 DEF CallTypes
<1>3. id[m] \in Ids /\ kind[m].app \in Apps /\ kind[m].save \in BOOLEAN
  BY KindsTyped DEF OwnIds, SaveNotification, SaveFails, HandOn, HandOnFails, CallTypes
<1>4. ASSUME Insert(m)
      PROVE  rows' \in [DOMAIN rows' -> Row] /\ DOMAIN rows' \subseteq Ids /\ inserted' \subseteq Ids
  <2>1. [app |-> kind[m].app, viewed |-> FALSE] \in Row
    BY <1>3 DEF Row
  <2>2. DOMAIN rows' = DOMAIN rows \union {id[m]}
    BY <1>4 DEF Insert
  <2>3. \A i \in DOMAIN rows' : rows'[i] \in Row
    BY <1>4, <2>1, <2>2 DEF Insert, StoreTypes
  <2> QED
    BY <1>3, <1>4, <2>2, <2>3 DEF Insert, StoreTypes
<1>5. CASE SaveNotification(m) \/ SaveFails(m)
  BY <1>1, <1>2, <1>4, <1>5 DEF SaveNotification, SaveFails, StoreTypes
<1>6. CASE HandOn(m)
  <2>1. [id |-> id[m], save |-> kind[m].save] \in [id : Ids, save : BOOLEAN]
    BY <1>3
  <2>2. replay' \subseteq Ids /\ handed' \subseteq Ids /\ jobs' \subseteq [id : Ids, save : BOOLEAN]
    BY <1>3, <1>6, <2>1 DEF HandOn, Keeps, StoreTypes
  <2> QED
    BY <1>1, <1>2, <1>6, <2>2 DEF HandOn, StoreTypes
<1>7. CASE HandOnFails(m)
  BY <1>1, <1>2, <1>3, <1>7 DEF HandOnFails, Keeps, StoreTypes
<1> QED
  BY <1>5, <1>6, <1>7

LEMMA DeliverTyped ==
    ASSUME TypeOK, Deliver PROVE TypeOK'
<1> USE TypeParts
<1>1. PrefTypeOK' /\ CallTypes' /\ ReadTypes' /\ Ids' = Ids
  BY DEF Deliver, TypeOK, prefVars, writing, PrefTypeOK, CallTypes, ReadTypes, reads, since, Ids
<1>2. replay' \subseteq Ids /\ jobs' \subseteq jobs
  BY DEF Deliver, Keeps, StoreTypes
<1> QED
  BY <1>1, <1>2 DEF Deliver, StoreTypes

LEMMA ViewedTyped ==
    ASSUME TypeOK, NEW ids, Viewed(ids)
    PROVE  DOMAIN rows' = DOMAIN rows /\ rows' \in [DOMAIN rows -> Row]
  BY TypeParts DEF Viewed, StoreTypes, Row

LEMMA AnswerTyped ==
    ASSUME TypeOK, NEW r \in Readers, Answer(r)
    PROVE  /\ seen' \in [Readers -> SUBSET Ids] /\ page' \in [Readers -> SUBSET Ids]
           /\ offset' \in [Readers -> Nat] /\ reading' \in [Readers -> Steps]
<1>1. Take \in Nat
  BY InboxConstants
<1> QED
  BY <1>1, TypeParts DEF Answer, ReadTypes, Steps

LEMMA ReadTyped ==
    ASSUME TypeOK, NEW r \in Readers, Read(r) PROVE TypeOK'
<1> USE TypeParts
<1>1. PrefTypeOK' /\ UNCHANGED sends /\ Ids' = Ids
  BY DEF Read, Start, ListNotifications, MarkPage, MarkFails, ReadReplay,
         ListNotificationsForSop, RemoveListed, TypeOK, prefVars, writing, PrefTypeOK, sends, Ids
<1>2. CallTypes'
  <2>1. faults' = faults \/ Fault
    BY DEF Read, Start, ListNotifications, MarkPage, MarkFails, ReadReplay,
           ListNotificationsForSop, RemoveListed
  <2>2. faults' \in 0..MaxFaults
    BY <2>1, InboxConstants DEF Fault, CallTypes
  <2> QED
    BY <1>1, <2>2 DEF CallTypes, sends
<1>3. \A app \in Apps : VisibleOf(app) \subseteq DOMAIN rows
  BY DEF VisibleOf
<1>4. client[r].app \in Apps /\ DOMAIN rows \subseteq Ids /\ replay \subseteq Ids
  BY DEF ReadTypes, Clients, StoreTypes
<1>5. CASE Start(r)
  <2>1. Everything(r) \subseteq Ids
    BY <1>3, <1>4 DEF Everything
  <2> QED
    BY <1>1, <1>2, <1>5, <2>1 DEF Start, StoreTypes, ReadTypes, Steps, since, sends
<1>6. CASE ListNotifications(r)
  <2>1. Slice(VisibleOf(client[r].app), offset[r], Take) \subseteq Ids
    BY <1>3, <1>4 DEF Slice
  <2> QED
    BY <1>1, <1>2, <1>6, <2>1 DEF ListNotifications, StoreTypes, ReadTypes, Steps, since, sends
<1>7. CASE MarkPage(r)
  BY <1>1, <1>2, <1>7, ViewedTyped, AnswerTyped DEF MarkPage, StoreTypes, ReadTypes, since, sends
<1>8. CASE MarkFails(r)
  BY <1>1, <1>2, <1>8, ViewedTyped DEF MarkFails, StoreTypes, ReadTypes, Steps, since, sends
<1>9. CASE ReadReplay(r)
  BY <1>1, <1>2, <1>4, <1>9 DEF ReadReplay, StoreTypes, ReadTypes, Steps, since, sends
<1>10. CASE ListNotificationsForSop(r)
  <2>1. MergedPage(r) \subseteq Ids
    BY <1>3, <1>4 DEF MergedPage, Slice, ReadTypes
  <2> QED
    BY <1>1, <1>2, <1>10, <2>1
       DEF ListNotificationsForSop, StoreTypes, ReadTypes, Steps, since, sends
<1>11. CASE RemoveListed(r)
  <2>1. replay' \subseteq replay
    BY <1>11 DEF RemoveListed
  <2>2. gone' \in [Readers -> SUBSET Ids]
    BY <1>4, <1>11, <2>1 DEF RemoveListed, ReadTypes
  <2> QED
    BY <1>1, <1>2, <1>4, <1>11, <2>1, <2>2, AnswerTyped
       DEF RemoveListed, StoreTypes, ReadTypes, sends
<1> QED
  BY <1>5, <1>6, <1>7, <1>8, <1>9, <1>10, <1>11 DEF Read

LEMMA OthersTyped ==
    ASSUME TypeOK, DeleteExcessNotifications \/ \E app \in Apps : MarkAllNotificationsViewed(app)
    PROVE  TypeOK'
<1> USE TypeParts
<1>1. PrefTypeOK' /\ CallTypes' /\ Ids' = Ids
  BY DEF DeleteExcessNotifications, MarkAllNotificationsViewed, TypeOK, prefVars, writing,
         PrefTypeOK, CallTypes, sends, Ids
<1>2. CASE DeleteExcessNotifications
  <2>1. cut' \in [Readers -> BOOLEAN]
    BY <1>2 DEF DeleteExcessNotifications, InTheMiddle, ReadTypes
  <2>2. DOMAIN rows' \subseteq DOMAIN rows /\ rows' \in [DOMAIN rows' -> Row]
    BY <1>2 DEF DeleteExcessNotifications, StoreTypes
  <2> QED
    BY <1>1, <1>2, <2>1, <2>2 DEF DeleteExcessNotifications, ReadTypes, StoreTypes, reads, sends
<1>3. ASSUME NEW app \in Apps, MarkAllNotificationsViewed(app) PROVE TypeOK'
  <2>1. VisibleOf(app) \subseteq Ids
    BY DEF VisibleOf, StoreTypes
  <2> QED
    BY <1>1, <1>3, <2>1, ViewedTyped
       DEF MarkAllNotificationsViewed, ReadTypes, StoreTypes, reads, since, sends
<1> QED
  BY <1>2, <1>3

LEMMA OwnIdsKept ==
    ASSUME TypeOK, OwnIds, [Next]_vars PROVE OwnIds'
<1> USE DEF OwnIds
<1>1. ASSUME NEW m \in Messages, Ask(m) PROVE OwnIds'
  <2>1. /\ id' = [id EXCEPT ![m] = lastId + 1] /\ lastId' = lastId + 1 /\ lastId \in Nat
    BY <1>1, InboxConstants DEF Ask, TypeOK
  <2>2. \E s \in Stages : stage' = [stage EXCEPT ![m] = s]
    BY <1>1 DEF Ask, Stages
  <2> QED
    BY <2>1, <2>2 DEF TypeOK, Ids
<1>2. ASSUME NEW m \in Messages,
             SaveNotification(m) \/ SaveFails(m) \/ HandOn(m) \/ HandOnFails(m)
      PROVE  OwnIds'
  <2>1. /\ id' = id /\ lastId' = lastId /\ stage[m] # "idle"
        /\ \E s \in Stages : stage' = [stage EXCEPT ![m] = s]
    BY <1>2 DEF SaveNotification, SaveFails, HandOn, HandOnFails, Stages
  <2> QED
    BY <2>1 DEF TypeOK, Ids
<1>3. CASE UNCHANGED sends
  BY <1>3 DEF sends, Ids
<1>4. ASSUME Deliver PROVE OwnIds'
  BY <1>4 DEF Deliver, Ids
<1>5. ASSUME NEW r \in Readers, Read(r) PROVE UNCHANGED sends
  BY <1>5 DEF Read, Start, ListNotifications, MarkPage, MarkFails, ReadReplay,
         ListNotificationsForSop, RemoveListed
<1> QED
  BY <1>1, <1>2, <1>3, <1>4, <1>5
     DEF Next, Call, vars, inbox, DeleteExcessNotifications, MarkAllNotificationsViewed

Typed == TypeOK /\ Rows /\ OwnIds

LEMMA InitAllTyped == Init => Typed
<1> SUFFICES ASSUME Init PROVE Typed
  OBVIOUS
<1>1. Rows /\ OwnIds
  BY DEF Init, PrefInit, Rows, OwnIds
<1> QED
  BY <1>1, InitTyped DEF Typed

LEMMA NextTyped == Typed /\ [Next]_vars => Typed'
<1> SUFFICES ASSUME Typed, [Next]_vars PROVE Typed'
  OBVIOUS
<1> USE DEF Typed
<1>1. OwnIds'
  BY OwnIdsKept
<1>2. ASSUME NEW w \in Writers, Write(w), UNCHANGED inbox PROVE TypeOK' /\ Rows'
  <2>1. PrefTypeOK' /\ Rows'
    BY <1>2, TypeParts, WriteTyped
  <2>2. CallTypes' /\ StoreTypes' /\ ReadTypes'
    BY <1>2, TypeParts DEF inbox, sends, reads, since, CallTypes, StoreTypes, ReadTypes, Ids
  <2> QED
    BY <2>1, <2>2, TypeParts
<1>3. CASE UNCHANGED prefVars
  <2>1. Rows'
    BY <1>3 DEF prefVars, writing, Rows
  <2>2. CASE UNCHANGED inbox
    <3>1. PrefTypeOK'
      BY <1>3, TypeParts DEF prefVars, writing, PrefTypeOK
    <3>2. CallTypes' /\ StoreTypes' /\ ReadTypes'
      BY <2>2, TypeParts DEF inbox, sends, reads, since, CallTypes, StoreTypes, ReadTypes, Ids
    <3> QED
      BY <1>1, <2>1, <3>1, <3>2, TypeParts
  <2>3. ASSUME NEW m \in Messages, Call(m) PROVE TypeOK'
    BY <2>3, AskTyped, CallTyped DEF Call
  <2>4. CASE UNCHANGED inbox \/ Deliver \/ (\E r \in Readers : Read(r))
             \/ DeleteExcessNotifications \/ \E app \in Apps : MarkAllNotificationsViewed(app)
    BY <1>1, <2>1, <2>2, <2>4, DeliverTyped, ReadTyped, OthersTyped
  <2> QED
    BY <1>1, <2>1, <2>3, <2>4 DEF Next, vars
<1>4. ASSUME ~(UNCHANGED prefVars), Next
      PROVE  \E w \in Writers : Write(w) /\ UNCHANGED inbox
  BY <1>4 DEF Next, Call, Ask, SaveNotification, SaveFails, HandOn, HandOnFails, Deliver, Read,
         Start, ListNotifications, MarkPage, MarkFails, ReadReplay, ListNotificationsForSop,
         RemoveListed, MarkAllNotificationsViewed, DeleteExcessNotifications
<1> QED
  BY <1>1, <1>2, <1>3, <1>4 DEF vars

(* Every variable holds a value of its type.                               *)
THEOREM InboxTyped == Spec => []TypeOK
<1>1. Spec => []Typed
  BY InitAllTyped, NextTyped, PTL DEF Spec
<1> QED
  BY <1>1, PTL DEF Typed

----------------------------------------------------------------------------
(* The preference.                                                         *)

(* A request that is alone found the row it is to write, or none, and that *)
(* has not changed; while requests overlap, nothing is settled.            *)
Alone ==
    /\ (\E w \in Writers : wpc[w] # "idle") => settled = "unknown"
    /\ \A w \in Writers : lone[w] => wpc[w] # "idle" /\ \A v \in Writers : wpc[v] # "idle" => v = w
    /\ \A w \in Writers : lone[w] /\ wpc[w] = "update" => wrow[w] \in Oldest
    /\ \A w \in Writers : lone[w] /\ wpc[w] = "insert" => DOMAIN prefs = {}
    /\ \A w \in Writers : wpc[w] = "delete" => wlevel[w] = "Normal"

(* What is settled is what a lookup finds.                                 *)
Shown ==
    settled # "unknown" =>
        /\ DOMAIN prefs = {} => settled = "Normal"
        /\ \A i \in Oldest : prefs[i] = settled

LEMMA OldestIsOne == ASSUME Rows, NEW i \in Oldest, NEW j \in Oldest,
                            lastPref \in Nat PROVE i = j
  BY DEF Oldest, Rows

LEMMA BeginKeeps ==
    ASSUME PrefTypeOK, Rows, Alone, NEW w \in Writers, NEW s \in {"update", "insert", "delete"},
           NEW l \in Levels, NEW i, Begin(w, s, l, i), prefs' = prefs,
           s = "update" => i \in Oldest, s = "insert" => DOMAIN prefs = {},
           s = "delete" => l = "Normal"
    PROVE  Alone' /\ Shown'
<1>1. /\ settled' = "unknown" /\ wpc'[w] = s /\ wlevel'[w] = l /\ wrow'[w] = i
      /\ \A v \in Writers \ {w} :
             wpc'[v] = wpc[v] /\ wlevel'[v] = wlevel[v] /\ wrow'[v] = wrow[v] /\ ~lone'[v]
      /\ lone'[w] <=> Writing = {}
  BY DEF Begin, PrefTypeOK
<1>2. Oldest' = Oldest
  BY DEF Oldest
<1>3. Shown'
  BY <1>1 DEF Shown
<1>4. lone'[w] => \A v \in Writers \ {w} : wpc[v] = "idle"
  BY <1>1 DEF Writing
<1> QED
  BY <1>1, <1>2, <1>3, <1>4 DEF Alone

LEMMA FinishKeeps ==
    ASSUME PrefTypeOK, Rows, Alone, Shown, NEW w \in Writers, wpc[w] # "idle",
           NEW certain \in BOOLEAN, Finish(w, certain),
           lone[w] /\ certain =>
               /\ DOMAIN prefs' = {} => wlevel[w] = "Normal"
               /\ \A i \in Oldest' : prefs'[i] = wlevel[w]
    PROVE  Alone' /\ Shown'
<1>1. /\ wpc'[w] = "idle" /\ ~lone'[w]
      /\ \A v \in Writers \ {w} :
             wpc'[v] = wpc[v] /\ wlevel'[v] = wlevel[v] /\ wrow'[v] = wrow[v] /\ lone'[v] = lone[v]
      /\ settled' = IF lone[w] /\ certain THEN wlevel[w] ELSE "unknown"
  BY DEF Finish, PrefTypeOK, Alone
<1>2. \A v \in Writers \ {w} : ~lone[v]
  BY DEF Alone
<1>3. lone[w] => \A v \in Writers : wpc'[v] = "idle"
  BY <1>1 DEF Alone
<1>4. Shown'
  BY <1>1 DEF Shown
<1> QED
  BY <1>1, <1>2, <1>3, <1>4 DEF Alone

LEMMA WriteKeeps ==
    ASSUME PrefTypeOK, Rows, Alone, Shown, NEW w \in Writers, Write(w)
    PROVE  Alone' /\ Shown'
<1>0. lastPref \in Nat
  BY PreferenceConstants DEF PrefTypeOK
<1>1. CASE LookUpToSet(w)
  BY <1>1, BeginKeeps DEF LookUpToSet
<1>2. CASE LookUpToDelete(w)
  BY <1>2, BeginKeeps DEF LookUpToDelete, Levels
<1>3. CASE UpdatePreference(w)
  <2>1. Oldest' = Oldest
    BY <1>3 DEF UpdatePreference, Oldest
  <2>2. ASSUME lone[w], NEW i \in Oldest' PROVE prefs'[i] = wlevel[w]
    <3>1. i = wrow[w] /\ i \in DOMAIN prefs
      BY <1>0, <1>3, <2>1, <2>2, OldestIsOne DEF Alone, UpdatePreference, Oldest
    <3> QED
      BY <1>3, <3>1 DEF UpdatePreference
  <2>3. lone[w] => DOMAIN prefs' # {}
    BY <1>3, <2>1 DEF Alone, UpdatePreference, Oldest
  <2> QED
    BY <1>3, <2>2, <2>3, FinishKeeps DEF UpdatePreference
<1>4. CASE InsertPreference(w)
  <2>1. lone[w] => DOMAIN prefs' = {wrow[w]} /\ prefs'[wrow[w]] = wlevel[w]
    BY <1>4 DEF InsertPreference, Alone
  <2>2. lone[w] => \A i \in Oldest' : prefs'[i] = wlevel[w]
    BY <2>1 DEF Oldest
  <2> QED
    BY <1>4, <2>1, <2>2, FinishKeeps DEF InsertPreference
<1>5. CASE SoftDeletePreference(w)
  <2>1. wlevel[w] = "Normal"
    BY <1>5 DEF SoftDeletePreference, Alone
  <2>2. DOMAIN prefs' = {} => Oldest' = {}
    BY DEF Oldest
  <2> QED
    BY <1>5, <2>1, <2>2, FinishKeeps DEF SoftDeletePreference
<1>6. CASE WriterFails(w)
  BY <1>6, FinishKeeps DEF WriterFails
<1> QED
  BY <1>1, <1>2, <1>3, <1>4, <1>5, <1>6 DEF Write

LEMMA SettledIsFound ==
    ASSUME PrefTypeOK, Rows, Shown, settled # "unknown"
    PROVE  /\ LevelFound \subseteq {settled}
           /\ Cardinality(DOMAIN prefs) <= 1 => LevelsFoundByMany \subseteq {settled}
<1>0. lastPref \in Nat
  BY PreferenceConstants DEF PrefTypeOK
<1>1. LevelFound \subseteq {settled}
  BY DEF LevelFound, Shown
<1>2. ASSUME Cardinality(DOMAIN prefs) <= 1, DOMAIN prefs # {}
      PROVE  LevelsFoundByMany \subseteq {settled}
  <2>1. IsFiniteSet(DOMAIN prefs)
    <3>1. IsFiniteSet(1..lastPref)
      BY <1>0, FS_Interval
    <3> QED
      BY <3>1, FS_Subset DEF Rows
  <2>2. Cardinality(DOMAIN prefs) = 1
    BY <1>2, <2>1, FS_EmptySet, FS_CardinalityType
  <2>3. PICK i : DOMAIN prefs = {i}
    BY <2>1, <2>2, FS_Singleton
  <2>4. i \in Oldest
    BY <1>0, <2>3 DEF Oldest, Rows
  <2> QED
    BY <2>3, <2>4, <1>2 DEF LevelsFoundByMany, Shown
<1>3. DOMAIN prefs = {} => LevelsFoundByMany \subseteq {settled}
  BY DEF LevelsFoundByMany, Shown
<1> QED
  BY <1>1, <1>2, <1>3

----------------------------------------------------------------------------
(* Calls, jobs and what they leave.                                        *)

(* Where each call stands, what it found and what it has done.             *)
Progress ==
    \A m \in Messages :
        /\ asked[m] # "unknown" => level[m] = asked[m]
        /\ level[m] = "Reject" => stage[m] = "answered" /\ id[m] \notin inserted \union handed
        /\ level[m] = "Silent" => id[m] \notin handed
        /\ level[m] = "Normal" /\ stage[m] = "answered" => id[m] \in handed \/ kind[m].silent
        /\ stage[m] = "idle" => level[m] = "Normal" /\ id[m] = 0

(* An id is stored by its own call only, and before it is handed on.       *)
Stored ==
    /\ \A m \in Messages :
           /\ stage[m] = "save" =>
                  /\ kind[m].save /\ id[m] \notin replay
                  /\ \A j \in jobs : j.id # id[m]
           /\ stage[m] = "hand" => (kind[m].save <=> id[m] \in inserted)
    /\ \A j \in jobs : j.save <=> j.id \in inserted

CallInv == Progress /\ Stored /\ StoredOrReplayed

LEMMA AskKeeps ==
    ASSUME Typed, Shown, CallInv, NEW m \in Messages, Ask(m)
    PROVE  CallInv'
<1> DEFINE i == lastId + 1
<1>1. lastId \in Nat /\ i \notin Ids
  BY InboxConstants DEF Typed, TypeOK, Ids
<1>2. /\ UNCHANGED <<kind, jobs, rows, replay, inserted, handed>>
      /\ i \notin inserted /\ i \notin handed /\ i \notin replay
      /\ \A j \in jobs : j.id # i
  BY <1>1, TypeParts DEF Typed, Ask, StoreTypes
<1>3. PICK l \in Levels :
          /\ l \in IF kind[m].batch THEN LevelsFoundByMany ELSE LevelFound
          /\ level' = [level EXCEPT ![m] = l]
          /\ stage' = [stage EXCEPT ![m] = IF l = "Reject" THEN "answered"
                                           ELSE IF kind[m].save THEN "save" ELSE "hand"]
  <2>1. LevelFound \subseteq Levels /\ LevelsFoundByMany \subseteq Levels
    BY DEF Typed, TypeOK, PrefTypeOK, LevelFound, LevelsFoundByMany, Levels, Oldest
  <2>2. \E l \in IF kind[m].batch THEN LevelsFoundByMany ELSE LevelFound :
            /\ level' = [level EXCEPT ![m] = l]
            /\ stage' = [stage EXCEPT ![m] = IF l = "Reject" THEN "answered"
                                             ELSE IF kind[m].save THEN "save" ELSE "hand"]
    BY DEF Ask
  <2> QED
    BY <2>1, <2>2
<1>4. /\ id' = [id EXCEPT ![m] = i]
      /\ asked'[m] = IF kind[m].batch /\ Cardinality(DOMAIN prefs) > 1 THEN "unknown" ELSE settled
      /\ \A n \in Messages \ {m} : asked'[n] = asked[n]
  BY DEF Ask, Typed, TypeOK
<1>5. asked'[m] # "unknown" => asked'[m] = l
  <2>1. CASE ~kind[m].batch
    BY <1>3, <1>4, <2>1, SettledIsFound DEF Typed, TypeOK
  <2>2. CASE kind[m].batch /\ Cardinality(DOMAIN prefs) <= 1
    BY <1>3, <1>4, <2>2, SettledIsFound DEF Typed, TypeOK
  <2>3. CASE kind[m].batch /\ ~(Cardinality(DOMAIN prefs) <= 1)
    <3>1. IsFiniteSet(DOMAIN prefs)
      <4>1. IsFiniteSet(1..MaxPrefs)
        BY PreferenceConstants, FS_Interval
      <4> QED
        BY <4>1, FS_Subset DEF Typed, TypeOK, PrefTypeOK
    <3>2. Cardinality(DOMAIN prefs) \in Nat
      BY <3>1, FS_CardinalityType
    <3> QED
      BY <1>4, <2>3, <3>2
  <2> QED
    BY <2>1, <2>2, <2>3
<1>6. /\ level'[m] = l /\ id'[m] = i
      /\ stage'[m] = IF l = "Reject" THEN "answered" ELSE IF kind[m].save THEN "save" ELSE "hand"
      /\ \A n \in Messages \ {m} :
             level'[n] = level[n] /\ stage'[n] = stage[n] /\ id'[n] = id[n]
  BY <1>3, <1>4 DEF Typed, TypeOK
<1> HIDE DEF i
<1>7. Progress'
  <2>1. ASSUME NEW n \in Messages \ {m}
        PROVE  /\ asked'[n] # "unknown" => level'[n] = asked'[n]
               /\ level'[n] = "Reject" => stage'[n] = "answered" /\ id'[n] \notin inserted' \union handed'
               /\ level'[n] = "Silent" => id'[n] \notin handed'
               /\ level'[n] = "Normal" /\ stage'[n] = "answered" => id'[n] \in handed' \/ kind'[n].silent
               /\ stage'[n] = "idle" => level'[n] = "Normal" /\ id'[n] = 0
    BY <1>2, <1>4, <1>6 DEF CallInv, Progress
  <2>2. /\ asked'[m] # "unknown" => level'[m] = asked'[m]
        /\ level'[m] = "Reject" => stage'[m] = "answered" /\ id'[m] \notin inserted' \union handed'
        /\ level'[m] = "Silent" => id'[m] \notin handed'
        /\ ~(level'[m] = "Normal" /\ stage'[m] = "answered")
        /\ stage'[m] # "idle"
    BY <1>2, <1>5, <1>6
  <2> QED
    BY <2>1, <2>2 DEF Progress
<1>8. Stored'
  <2>1. /\ stage'[m] = "save" => kind[m].save
        /\ stage'[m] = "hand" => ~kind[m].save
    BY <1>6
  <2> QED
    BY <1>2, <1>6, <2>1 DEF CallInv, Stored
<1>9. StoredOrReplayed'
  <2>1. ~(stage'[m] = "answered" /\ level'[m] # "Reject")
    BY <1>6
  <2> QED
    BY <1>2, <1>6, <2>1 DEF CallInv, StoredOrReplayed
<1> QED
  BY <1>7, <1>8, <1>9 DEF CallInv

(* A statement of a call: what it stores is its own.                       *)
LEMMA SaveKeeps ==
    ASSUME Typed, CallInv, NEW m \in Messages, SaveNotification(m) \/ SaveFails(m)
    PROVE  CallInv'
<1>1. /\ UNCHANGED <<kind, level, id, jobs, asked, replay, handed>>
      /\ stage[m] = "save" /\ id[m] \in Ids
      /\ inserted' = inserted \/ inserted' = inserted \union {id[m]}
  BY DEF Typed, OwnIds, SaveNotification, SaveFails, Insert
<1>2. PICK s \in {"hand", "failed"} :
          /\ stage' = [stage EXCEPT ![m] = s]
          /\ s = "hand" => inserted' = inserted \union {id[m]}
  BY DEF SaveNotification, SaveFails, Insert
<1>3. stage'[m] = s /\ \A n \in Messages \ {m} : stage'[n] = stage[n]
  BY <1>2 DEF Typed, TypeOK
<1>4. \A n \in Messages \ {m} : id[n] # id[m]
  BY <1>1 DEF Typed, OwnIds, CallInv, Progress, Ids
<1>5. level[m] # "Reject" /\ kind[m].save
  BY <1>1 DEF CallInv, Progress, Stored
<1>6. Progress'
  BY <1>1, <1>3, <1>4, <1>5 DEF CallInv, Progress
<1>7. Stored'
  BY <1>1, <1>2, <1>3, <1>4, <1>5 DEF CallInv, Stored
<1>8. StoredOrReplayed'
  BY <1>1, <1>2, <1>3, <1>4, <1>5 DEF CallInv, Stored, StoredOrReplayed
<1> QED
  BY <1>6, <1>7, <1>8 DEF CallInv

LEMMA HandOnKeeps ==
    ASSUME Typed, CallInv, NEW m \in Messages, HandOn(m) \/ HandOnFails(m)
    PROVE  CallInv'
<1>1. /\ UNCHANGED <<kind, level, id, asked, inserted>>
      /\ stage[m] = "hand" /\ id[m] \in Ids
      /\ kind[m].save <=> id[m] \in inserted
  BY DEF Typed, OwnIds, HandOn, HandOnFails, CallInv, Stored
<1>2. PICK s \in {"answered", "failed"} :
          /\ stage' = [stage EXCEPT ![m] = s]
          /\ s = "answered" /\ ToDeliver(m) => handed' = handed \union {id[m]}
          /\ s = "failed" \/ ~ToDeliver(m) => handed' = handed
  BY DEF HandOn, HandOnFails
<1>3. stage'[m] = s /\ \A n \in Messages \ {m} : stage'[n] = stage[n]
  BY <1>2 DEF Typed, TypeOK
<1>4. \A n \in Messages \ {m} : id[n] # id[m]
  BY <1>1 DEF Typed, OwnIds, CallInv, Progress, Ids
<1>5. level[m] # "Reject"
  BY <1>1 DEF CallInv, Progress
<1>6. Progress'
  BY <1>1, <1>2, <1>3, <1>4, <1>5 DEF CallInv, Progress, ToDeliver
<1>7. \/ jobs' = jobs
      \/ jobs' = jobs \union {[id |-> id[m], save |-> kind[m].save]}
  BY DEF HandOn, HandOnFails
<1>8. replay' = replay \/ (~kind[m].save /\ replay' = replay \union {id[m]})
  BY DEF HandOn, HandOnFails, Keeps
<1>9. \A j \in jobs' : j \in jobs \/ (j.id = id[m] /\ j.save = kind[m].save)
  BY <1>7
<1>10. Stored'
  BY <1>1, <1>3, <1>4, <1>8, <1>9 DEF CallInv, Stored
<1>11. StoredOrReplayed'
  BY <1>1, <1>3, <1>4, <1>8, <1>9 DEF CallInv, StoredOrReplayed
<1> QED
  BY <1>6, <1>10, <1>11 DEF CallInv

LEMMA DeliverKeeps == ASSUME Typed, CallInv, Deliver PROVE CallInv'
<1>1. /\ UNCHANGED <<kind, stage, level, id, asked, inserted, handed>> /\ jobs' \subseteq jobs
      /\ \E j \in jobs : replay' = replay \/ (~j.save /\ replay' = replay \union {j.id})
  BY DEF Deliver, Keeps
<1>2. PICK j \in jobs : replay' = replay \/ (~j.save /\ replay' = replay \union {j.id})
  BY <1>1
<1>3. ~j.save => j.id \notin inserted /\ \A m \in Messages : stage[m] = "save" => j.id # id[m]
  BY DEF CallInv, Stored
<1>4. Progress'
  BY <1>1 DEF CallInv, Progress
<1>5. Stored'
  BY <1>1, <1>2, <1>3 DEF CallInv, Stored
<1>6. StoredOrReplayed'
  BY <1>1, <1>2, <1>3 DEF CallInv, StoredOrReplayed
<1> QED
  BY <1>4, <1>5, <1>6 DEF CallInv

LEMMA RestKeeps ==
    ASSUME CallInv, UNCHANGED <<sends, inserted, handed>>, replay' \subseteq replay
    PROVE  CallInv'
<1>1. UNCHANGED <<kind, stage, level, id, jobs, asked>>
  BY DEF sends
<1> QED
  BY <1>1 DEF CallInv, Progress, Stored, StoredOrReplayed

Inv == Typed /\ Alone /\ Shown /\ CallInv

LEMMA InitInv == Init => Inv
<1> SUFFICES ASSUME Init PROVE Inv
  OBVIOUS
<1>1. Alone /\ Shown
  BY DEF Init, PrefInit, Alone, Shown, Oldest
<1>2. Progress /\ Stored /\ StoredOrReplayed
  BY DEF Init, Progress, Stored, StoredOrReplayed
<1> QED
  BY <1>1, <1>2, InitAllTyped DEF Inv, CallInv

LEMMA NextInv == Inv /\ [Next]_vars => Inv'
<1> SUFFICES ASSUME Inv, [Next]_vars PROVE Inv'
  OBVIOUS
<1> USE DEF Inv
<1>1. Typed'
  BY NextTyped
<1>2. ASSUME NEW w \in Writers, Write(w), UNCHANGED inbox PROVE Alone' /\ Shown' /\ CallInv'
  <2>1. Alone' /\ Shown'
    BY <1>2, WriteKeeps DEF Typed, TypeOK
  <2> QED
    BY <1>2, <2>1, RestKeeps DEF inbox
<1>3. UNCHANGED prefVars => Alone' /\ Shown'
  BY DEF prefVars, writing, Alone, Shown, Oldest
<1>4. ASSUME NEW m \in Messages, Call(m) PROVE UNCHANGED prefVars /\ CallInv'
  BY <1>4, AskKeeps, SaveKeeps, HandOnKeeps
     DEF Call, Ask, SaveNotification, SaveFails, HandOn, HandOnFails
<1>5. Deliver => UNCHANGED prefVars /\ CallInv'
  BY DeliverKeeps DEF Deliver
<1>6. ASSUME NEW r \in Readers, Read(r) PROVE UNCHANGED prefVars /\ CallInv'
  <2>1. UNCHANGED <<prefVars, sends, inserted, handed>> /\ replay' \subseteq replay
    BY <1>6 DEF Read, Start, ListNotifications, MarkPage, MarkFails, ReadReplay,
           ListNotificationsForSop, RemoveListed
  <2> QED
    BY <2>1, RestKeeps
<1>7. ASSUME DeleteExcessNotifications \/ \E app \in Apps : MarkAllNotificationsViewed(app)
      PROVE  UNCHANGED prefVars /\ CallInv'
  BY <1>7, RestKeeps DEF DeleteExcessNotifications, MarkAllNotificationsViewed
<1>8. UNCHANGED vars => UNCHANGED prefVars /\ CallInv'
  BY RestKeeps DEF vars, inbox
<1> QED
  BY <1>1, <1>2, <1>3, <1>4, <1>5, <1>6, <1>7, <1>8 DEF Next

LEMMA Invariant == Spec => []Inv
  BY InitInv, NextInv, PTL DEF Spec

(* A preference that no overlapping request leaves in doubt is honoured: a  *)
(* rejected notification is neither stored nor handed on, a silent one is   *)
(* not handed on, a normal one is.                                         *)
THEOREM PreferencesAreHonoured == Spec => []PreferenceHonoured
<1>1. Inv => PreferenceHonoured
  BY DEF Inv, CallInv, Progress, PreferenceHonoured
<1> QED
  BY <1>1, Invariant, PTL

(* A notification that was to be stored is, before it is delivered, and     *)
(* none is both stored and kept for replay.                                *)
THEOREM StoredNotReplayed == Spec => []StoredOrReplayed
  BY Invariant, PTL DEF Inv, CallInv

----------------------------------------------------------------------------
(* Marking as viewed.                                                      *)

(* A page that waits to be marked was covered when it was selected.        *)
Covers ==
    /\ ViewedWasListed
    /\ \A r \in Readers : reading[r] = "mark" /\ ~client[r].unmark => page[r] \subseteq covered

LEMMA InitCovers == Init => Covers
<1> SUFFICES ASSUME Init PROVE Covers
  OBVIOUS
<1>1. ASSUME NEW i \in DOMAIN rows PROVE rows[i].viewed = FALSE
  BY DEF Init
<1> QED
  BY <1>1 DEF Init, Covers, ViewedWasListed

LEMMA ViewedKept ==
    ASSUME ViewedWasListed, NEW ids, Viewed(ids), covered \subseteq covered', ids \subseteq covered'
    PROVE  ViewedWasListed'
<1>1. ASSUME NEW i \in DOMAIN rows', rows'[i].viewed, i \notin ids PROVE i \in covered'
  <2>1. rows'[i] = rows[i] /\ i \in DOMAIN rows
    BY <1>1 DEF Viewed
  <2> QED
    BY <1>1, <2>1 DEF ViewedWasListed
<1> QED
  BY <1>1 DEF ViewedWasListed

LEMMA NextCovers == Typed /\ Covers /\ [Next]_vars => Covers'
<1> SUFFICES ASSUME Typed, Covers, [Next]_vars PROVE Covers'
  OBVIOUS
<1> USE DEF Covers
<1>1. ASSUME UNCHANGED <<client, reading, page, covered>>,
             \A i \in DOMAIN rows' : (i \in DOMAIN rows /\ rows'[i] = rows[i]) \/ ~rows'[i].viewed
      PROVE  Covers'
  BY <1>1 DEF ViewedWasListed
<1>2. ASSUME UNCHANGED inbox PROVE Covers'
  BY <1>1, <1>2 DEF inbox, reads
<1>3. ASSUME NEW m \in Messages, Call(m) PROVE Covers'
  <2>1. UNCHANGED <<client, reading, page, covered>>
    BY <1>3 DEF Call, Ask, SaveNotification, SaveFails, HandOn, HandOnFails, reads
  <2>2. rows' = rows \/ Insert(m)
    BY <1>3 DEF Call, Ask, SaveNotification, SaveFails, HandOn, HandOnFails
  <2>3. ASSUME Insert(m), NEW i \in DOMAIN rows'
        PROVE  (i \in DOMAIN rows /\ rows'[i] = rows[i]) \/ ~rows'[i].viewed
    BY <2>3 DEF Insert
  <2> QED
    BY <1>1, <2>1, <2>2, <2>3
<1>4. CASE Deliver
  BY <1>1, <1>4 DEF Deliver, reads
<1>5. ASSUME NEW r \in Readers, Start(r) \/ ReadReplay(r) \/ ListNotificationsForSop(r)
      PROVE  Covers'
  <2>1. /\ UNCHANGED <<rows, client, covered>>
        /\ reading'[r] # "mark"
        /\ \A q \in Readers \ {r} : reading'[q] = reading[q] /\ page'[q] = page[q]
    BY <1>5 DEF Start, ReadReplay, ListNotificationsForSop, Typed, TypeOK
  <2> QED
    BY <2>1 DEF ViewedWasListed
<1>6. ASSUME NEW r \in Readers, ListNotifications(r) PROVE Covers'
  <2>1. /\ UNCHANGED <<rows, client>> /\ covered \subseteq covered'
        /\ ~client[r].unmark => page'[r] \subseteq covered'
        /\ \A q \in Readers \ {r} : reading'[q] = reading[q] /\ page'[q] = page[q]
    BY <1>6 DEF ListNotifications, Typed, TypeOK
  <2> QED
    BY <2>1 DEF ViewedWasListed
<1>7. ASSUME NEW r \in Readers, MarkPage(r) \/ MarkFails(r) PROVE Covers'
  <2>1. /\ UNCHANGED <<client, covered>> /\ reading[r] = "mark"
        /\ \A q \in Readers : reading'[q] = "mark" => q # r /\ reading[q] = "mark"
        /\ \A q \in Readers \ {r} : page'[q] = page[q]
    BY <1>7 DEF MarkPage, MarkFails, Answer, Typed, TypeOK
  <2>2. rows' = rows \/ Viewed(IF client[r].unmark THEN {} ELSE page[r])
    BY <1>7 DEF MarkPage, MarkFails
  <2>3. ViewedWasListed'
    <3>1. CASE rows' = rows
      BY <2>1, <3>1 DEF ViewedWasListed
    <3>2. CASE Viewed(IF client[r].unmark THEN {} ELSE page[r])
      BY <2>1, <3>2, ViewedKept
    <3> QED
      BY <2>2, <3>1, <3>2
  <2> QED
    BY <2>1, <2>3
<1>8. ASSUME NEW r \in Readers, RemoveListed(r) PROVE Covers'
  <2>1. /\ UNCHANGED <<rows, client, covered>>
        /\ \A q \in Readers : reading'[q] = "mark" => q # r /\ reading[q] = "mark"
        /\ \A q \in Readers \ {r} : page'[q] = page[q]
    BY <1>8 DEF RemoveListed, Answer, Typed, TypeOK
  <2> QED
    BY <2>1 DEF ViewedWasListed
<1>9. ASSUME NEW app \in Apps, MarkAllNotificationsViewed(app) PROVE Covers'
  <2>1. ViewedWasListed'
    BY <1>9, ViewedKept DEF MarkAllNotificationsViewed
  <2>2. UNCHANGED <<client, reading, page>> /\ covered \subseteq covered'
    BY <1>9 DEF MarkAllNotificationsViewed, reads
  <2> QED
    BY <2>1, <2>2
<1>10. CASE DeleteExcessNotifications
  BY <1>1, <1>10 DEF DeleteExcessNotifications, reads
<1> QED
  BY <1>2, <1>3, <1>4, <1>5, <1>6, <1>7, <1>8, <1>9, <1>10 DEF Next, Read, vars

(* Nothing is viewed that no client was given, or that came after all was   *)
(* marked.                                                                 *)
THEOREM OnlyListedIsViewed == Spec => []ViewedWasListed
<1>1. Spec => [](Typed /\ Covers)
  BY InitAllTyped, InitCovers, NextTyped, NextCovers, PTL DEF Spec
<1> QED
  BY <1>1, PTL DEF Covers

----------------------------------------------------------------------------
(* Retention.                                                              *)
LEMMA MoreAreNewer ==
    ASSUME NEW S, IsFiniteSet(S), NEW T \in SUBSET S, NEW i, i \in Int, S \subseteq Int
    PROVE  NewerIn(T, i) <= NewerIn(S, i) /\ NewerIn(T, i) \in Nat /\ NewerIn(S, i) \in Nat
<1> DEFINE s == {j \in S : j > i}
           t == {j \in T : j > i}
<1>1. IsFiniteSet(s) /\ t \in SUBSET s
  BY FS_Subset
<1>2. Cardinality(t) <= Cardinality(s) /\ Cardinality(t) \in Nat /\ Cardinality(s) \in Nat
  BY <1>1, FS_Subset, FS_CardinalityType
<1> QED
  BY <1>2 DEF NewerIn

LEMMA RowsStay ==
    ASSUME [Next]_vars, ~(DOMAIN rows \subseteq DOMAIN rows')
    PROVE  DeleteExcessNotifications
<1> SUFFICES ASSUME ~DeleteExcessNotifications
             PROVE  DOMAIN rows \subseteq DOMAIN rows'
  OBVIOUS
<1>1. CASE UNCHANGED rows
  BY <1>1
<1>2. ASSUME NEW m \in Messages, Insert(m) PROVE DOMAIN rows \subseteq DOMAIN rows'
  BY <1>2 DEF Insert
<1>3. ASSUME NEW ids, Viewed(ids) PROVE DOMAIN rows \subseteq DOMAIN rows'
  BY <1>3 DEF Viewed
<1>4. ASSUME NEW m \in Messages, Call(m) PROVE DOMAIN rows \subseteq DOMAIN rows'
  <2>1. UNCHANGED rows \/ Insert(m)
    BY <1>4 DEF Call, Ask, SaveNotification, SaveFails, HandOn, HandOnFails
  <2> QED
    BY <1>1, <1>2, <2>1
<1>5. ASSUME NEW r \in Readers, Read(r) PROVE DOMAIN rows \subseteq DOMAIN rows'
  <2>1. CASE MarkPage(r)
    BY <1>3, <2>1 DEF MarkPage
  <2>2. CASE MarkFails(r)
    BY <1>1, <1>3, <2>2 DEF MarkFails
  <2>3. CASE ~MarkPage(r) /\ ~MarkFails(r)
    BY <1>1, <1>5, <2>3
       DEF Read, Start, ListNotifications, ReadReplay, ListNotificationsForSop, RemoveListed
  <2> QED
    BY <2>1, <2>2, <2>3
<1>6. CASE \E w \in Writers : Write(w) /\ UNCHANGED inbox
  BY <1>1, <1>6 DEF inbox
<1>7. CASE Deliver
  BY <1>1, <1>7 DEF Deliver
<1>8. CASE \E app \in Apps : MarkAllNotificationsViewed(app)
  BY <1>3, <1>8 DEF MarkAllNotificationsViewed
<1>9. CASE UNCHANGED vars
  BY <1>1, <1>9 DEF vars, inbox
<1> QED
  BY <1>4, <1>5, <1>6, <1>7, <1>8, <1>9 DEF Next

LEMMA RetentionStep ==
    ASSUME Typed, [Next]_vars, NEW i \in DOMAIN rows \ DOMAIN rows', NEW app \in Apps,
           i \in VisibleOf(app)
    PROVE  NewerIn(VisibleOf(app), i) >= Keep
<1>1. DeleteExcessNotifications
  BY RowsStay
<1> DEFINE T == {j \in DOMAIN rows : rows[j].app = rows[i].app}
<1>2. i \in Excess
  BY <1>1 DEF DeleteExcessNotifications
<1>3. NewerIn(T, i) >= Keep
  BY <1>2 DEF Excess
<1>4. T \subseteq VisibleOf(app)
  BY DEF VisibleOf
<1>5. VisibleOf(app) \subseteq Ids /\ lastId \in Nat
  BY InboxConstants, TypeParts DEF VisibleOf, Typed, StoreTypes, CallTypes
<1>6. IsFiniteSet(VisibleOf(app)) /\ VisibleOf(app) \subseteq Int /\ i \in Int
  <2>1. IsFiniteSet(Ids)
    BY <1>5, FS_Interval DEF Ids
  <2> QED
    BY <1>5, <2>1, FS_Subset DEF Ids
<1> HIDE DEF T
<1>7. NewerIn(T, i) <= NewerIn(VisibleOf(app), i) /\ NewerIn(T, i) \in Nat
      /\ NewerIn(VisibleOf(app), i) \in Nat
  BY <1>4, <1>6, MoreAreNewer
<1> QED
  BY <1>3, <1>7, InboxConstants

(* Retention leaves the Keep newest of every list, also of the list that    *)
(* has rows with and without an app.                                       *)
THEOREM NewestAreKept == Spec => RetentionKeepsNewest
<1>1. Typed /\ [Next]_vars =>
          \A i \in DOMAIN rows \ DOMAIN rows', app \in Apps :
              i \in VisibleOf(app) => NewerIn(VisibleOf(app), i) >= Keep
  BY RetentionStep
<1>2. Spec => []Typed
  BY InitAllTyped, NextTyped, PTL DEF Spec
<1> QED
  BY <1>1, <1>2, PTL DEF Spec, RetentionKeepsNewest

----------------------------------------------------------------------------
(* Positions in a list of ids, the newest first.                           *)

(* What of B is on the list L, before position o, and not in S.            *)
Unseen(B, L, o, S) == {i \in (B \intersect L) \ S : NewerIn(L, i) < o}

NewerThan(S, i) == {j \in S : j > i}

Smallest(F, X) == \A Y \in F : ~(Y \subseteq X /\ Y # X)

LEMMA SmallestExists ==
    ASSUME NEW S, IsFiniteSet(S), NEW F, F \subseteq SUBSET S, F # {}
    PROVE  \E X \in F : Smallest(F, X)
<1>1. IsWellFoundedOn(StrictSubsetOrdering(S), SUBSET S)
  BY FS_StrictSubsetOrderingWellFounded, FS_FiniteSubsetsOfFinite
<1>2. PICK X \in F : \A Y \in F : ~(<<Y, X>> \in StrictSubsetOrdering(S))
  BY <1>1, WFMin
<1>3. ASSUME NEW Y \in F, Y \subseteq X, Y # X PROVE FALSE
  <2>1. <<Y, X>> \in (SUBSET S) \X (SUBSET S)
    OBVIOUS
  <2>2. <<Y, X>> \in StrictSubsetOrdering(S)
    BY <1>3, <2>1 DEF StrictSubsetOrdering
  <2> QED
    BY <1>2, <2>2
<1> QED
  BY <1>3 DEF Smallest

(* Every finite set of numbers has a least and a greatest element: the      *)
(* sets of those below, or above, one of them are ordered by inclusion.     *)
LEMMA Extremes ==
    ASSUME NEW S, IsFiniteSet(S), S \subseteq Int, S # {}
    PROVE  (\E i \in S : \A j \in S : i <= j) /\ (\E i \in S : \A j \in S : j <= i)
<1>1. \E i \in S : \A j \in S : i <= j
  <2> DEFINE Below(i) == {k \in S : k < i}
             F == {Below(i) : i \in S}
  <2>1. F \subseteq SUBSET S /\ F # {}
    OBVIOUS
  <2>2. PICK i \in S : \A Y \in F : ~(Y \subseteq Below(i) /\ Y # Below(i))
    <3>1. PICK X \in F : Smallest(F, X)
      <4> HIDE DEF F
      <4> QED
        BY <2>1, SmallestExists
    <3>2. PICK i \in S : X = Below(i)
      OBVIOUS
    <3> QED
      BY <3>1, <3>2 DEF Smallest
  <2>3. ASSUME NEW j \in S, j < i PROVE FALSE
    <3>1. j \in Below(i) /\ j \notin Below(j)
      BY <2>3
    <3>2. \A k \in S : k < j => k < i
      BY <2>3
    <3>3. Below(j) \subseteq Below(i)
      BY <3>2
    <3>4. Below(j) \in F
      OBVIOUS
    <3> QED
      BY <2>2, <3>1, <3>3, <3>4
  <2>4. \A j \in S : i <= j
    BY <2>3
  <2> QED
    BY <2>4
<1>2. \E i \in S : \A j \in S : j <= i
  <2> DEFINE F == {NewerThan(S, i) : i \in S}
  <2>1. F \subseteq SUBSET S /\ F # {}
    BY DEF NewerThan
  <2>2. PICK i \in S : \A Y \in F : ~(Y \subseteq NewerThan(S, i) /\ Y # NewerThan(S, i))
    <3>1. PICK X \in F : Smallest(F, X)
      <4> HIDE DEF F
      <4> QED
        BY <2>1, SmallestExists
    <3>2. PICK i \in S : X = NewerThan(S, i)
      OBVIOUS
    <3> QED
      BY <3>1, <3>2 DEF Smallest
  <2>3. ASSUME NEW j \in S, j > i PROVE FALSE
    <3>1. j \in NewerThan(S, i) /\ j \notin NewerThan(S, j)
      BY <2>3 DEF NewerThan
    <3>2. \A k \in S : k > j => k > i
      BY <2>3
    <3>3. NewerThan(S, j) \subseteq NewerThan(S, i)
      BY <3>2 DEF NewerThan
    <3>4. NewerThan(S, j) \in F
      OBVIOUS
    <3> QED
      BY <2>2, <3>1, <3>3, <3>4
  <2>4. \A j \in S : j <= i
    BY <2>3
  <2> QED
    BY <2>4
<1> QED
  BY <1>1, <1>2

LEMMA Sized ==
    ASSUME NEW S, IsFiniteSet(S)
    PROVE  /\ Cardinality(S) \in Nat
           /\ \A T : T \subseteq S => IsFiniteSet(T) /\ Cardinality(T) \in Nat
                                      /\ Cardinality(T) <= Cardinality(S)
BY FS_CardinalityType, FS_Subset

LEMMA NewerSized ==
    ASSUME NEW S, IsFiniteSet(S), NEW i
    PROVE  /\ IsFiniteSet(NewerThan(S, i)) /\ NewerIn(S, i) \in Nat
           /\ NewerIn(S, i) = Cardinality(NewerThan(S, i))
<1>1. NewerThan(S, i) \subseteq S
  BY DEF NewerThan
<1>2. IsFiniteSet(NewerThan(S, i)) /\ Cardinality(NewerThan(S, i)) \in Nat
  BY <1>1, Sized
<1> QED
  BY <1>2 DEF NewerIn, NewerThan

(* The positions of a list have no gap: one that reaches beyond a position  *)
(* has something at it.                                                    *)
LEMMA NoGap ==
    ASSUME NEW S, IsFiniteSet(S), S \subseteq Int, NEW o \in Nat,
           NEW i \in S, NewerIn(S, i) >= o
    PROVE  \E j \in S : NewerIn(S, j) = o
<1> DEFINE T == {j \in S : NewerIn(S, j) >= o}
<1>1. T \subseteq S /\ IsFiniteSet(T) /\ T \subseteq Int /\ T # {}
  BY Sized
<1>2. PICK x \in T : \A j \in T : j <= x
  <2> HIDE DEF T
  <2> QED
    BY <1>1, Extremes
<1> DEFINE N == NewerThan(S, x)
<1>3. /\ x \in S /\ NewerIn(S, x) >= o /\ NewerIn(S, x) \in Nat
      /\ IsFiniteSet(N) /\ NewerIn(S, x) = Cardinality(N)
      /\ N \subseteq Int
  BY NewerSized DEF NewerThan
<1>4. ASSUME NewerIn(S, x) # o PROVE FALSE
  <2>1. N # {}
    BY <1>3, <1>4, FS_EmptySet
  <2>2. PICK y \in N : \A k \in N : y <= k
    <3> HIDE DEF N
    <3> QED
      BY <1>3, <2>1, Extremes
  <2>3. y \in S /\ y > x
    BY DEF NewerThan
  <2>4. NewerThan(S, y) = N \ {y}
    <3>1. x \in Int /\ y \in Int
      BY <1>3, <2>3
    <3>2. \A k \in S : k > y => k > x /\ k # y
      BY <2>3, <3>1
    <3>3. \A k \in S : k > x /\ k # y => k > y
      <4>1. SUFFICES ASSUME NEW k \in S, k > x, k # y PROVE k > y
        OBVIOUS
      <4>2. k \in N
        BY <4>1 DEF NewerThan
      <4> QED
        BY <2>2, <3>1, <4>1, <4>2
    <3> QED
      BY <3>2, <3>3 DEF NewerThan
  <2>5. Cardinality(N \ {y}) = Cardinality(N) - 1
    BY <1>3, FS_RemoveElement
  <2>6. NewerIn(S, y) = NewerIn(S, x) - 1
    BY <1>3, <2>4, <2>5, NewerSized
  <2>7. y \in T
    BY <1>3, <1>4, <2>3, <2>6
  <2> QED
    BY <1>2, <1>3, <2>3, <2>7
<1> QED
  BY <1>3, <1>4

LEMMA UnionSized ==
    ASSUME NEW S, NEW T, IsFiniteSet(S), IsFiniteSet(T)
    PROVE  /\ IsFiniteSet(S \union T)
           /\ Cardinality(S \union T) <= Cardinality(S) + Cardinality(T)
           /\ S \intersect T = {} => Cardinality(S \union T) = Cardinality(S) + Cardinality(T)
<1>1. /\ IsFiniteSet(S \union T)
      /\ Cardinality(S \union T) = Cardinality(S) + Cardinality(T) - Cardinality(S \intersect T)
  BY FS_Union
<1>2. Cardinality(S \intersect T) \in Nat /\ Cardinality(S) \in Nat /\ Cardinality(T) \in Nat
  BY Sized
<1>3. S \intersect T = {} => Cardinality(S \intersect T) = 0
  BY FS_EmptySet
<1> QED
  BY <1>1, <1>2, <1>3

(* When a list loses items, those left move up, and as many of them as it   *)
(* lost may come to stand before a position they stood behind; what is new  *)
(* on the list only moves others down.                                     *)
LEMMA FewMoveUp ==
    ASSUME NEW B, NEW L, NEW E, NEW S, NEW o \in Nat,
           IsFiniteSet(L), IsFiniteSet(E), L \subseteq Int, E \subseteq Int,
           B \intersect E \subseteq L
    PROVE  Cardinality(Unseen(B, E, o, S)) <= Cardinality(Unseen(B, L, o, S)) + Cardinality(L \ E)
<1> DEFINE W == Unseen(B, E, o, S) \ Unseen(B, L, o, S)
<1>1. /\ W \subseteq L /\ W \subseteq E /\ W \subseteq Int /\ IsFiniteSet(W)
      /\ \A i \in W : NewerIn(E, i) < o /\ NewerIn(L, i) >= o
  <2>1. W \subseteq L /\ W \subseteq E /\ W \subseteq Int
    BY DEF Unseen
  <2>2. \A i \in W : NewerIn(E, i) < o /\ ~(NewerIn(L, i) < o) /\ NewerIn(L, i) \in Nat
    BY NewerSized DEF Unseen
  <2> QED
    BY <2>1, <2>2, Sized
<1>2. /\ IsFiniteSet(L \ E) /\ Cardinality(L \ E) \in Nat
      /\ IsFiniteSet(Unseen(B, E, o, S)) /\ IsFiniteSet(Unseen(B, L, o, S))
      /\ Cardinality(Unseen(B, E, o, S)) \in Nat /\ Cardinality(Unseen(B, L, o, S)) \in Nat
  <2>1. L \ E \subseteq L /\ Unseen(B, E, o, S) \subseteq E /\ Unseen(B, L, o, S) \subseteq L
    BY DEF Unseen
  <2> QED
    BY <2>1, Sized
<1>3. Unseen(B, E, o, S) \subseteq Unseen(B, L, o, S) \union W
  OBVIOUS
<1> HIDE DEF W
<1>4. ASSUME W # {} PROVE Cardinality(W) <= Cardinality(L \ E)
  <2>1. PICK first \in W : \A j \in W : first <= j
    BY <1>1, <1>4, Extremes
  <2>2. PICK last \in W : \A j \in W : j <= last
    BY <1>1, <1>4, Extremes
  <2> DEFINE A == NewerThan(L, last)
             C == NewerThan(E, first)
             R == W \ {first}
  <2>3. /\ IsFiniteSet(A) /\ Cardinality(A) >= o /\ IsFiniteSet(C) /\ Cardinality(C) < o
        /\ Cardinality(A) \in Nat /\ Cardinality(C) \in Nat
    BY <1>1, NewerSized
  <2>4. /\ first <= last /\ first \in Int /\ last \in Int
        /\ \A k \in Int : k > last => k > first
    BY <1>1, <2>1, <2>2
  <2>5. R \subseteq C
    <3>1. \A k \in W : k # first => k \in E /\ k > first
      BY <1>1, <2>1
    <3> QED
      BY <3>1 DEF NewerThan
  <2>6. A \intersect E \subseteq C
    BY <2>4 DEF NewerThan
  <2>7. R \intersect (A \intersect E) = {}
    <3>1. \A k \in W : ~(k > last)
      BY <1>1, <2>2
    <3> QED
      BY <3>1 DEF NewerThan
  <2>8. A \ E \subseteq L \ E /\ A \subseteq (A \intersect E) \union (A \ E)
    BY DEF NewerThan
  <2> HIDE DEF A, C
  <2>9. /\ IsFiniteSet(R) /\ Cardinality(R) = Cardinality(W) - 1 /\ Cardinality(W) \in Nat
    BY <1>1, FS_RemoveElement, Sized
  <2> HIDE DEF R
  <2>10. /\ IsFiniteSet(A \intersect E) /\ Cardinality(A \intersect E) \in Nat
         /\ IsFiniteSet(A \ E) /\ Cardinality(A \ E) \in Nat
         /\ Cardinality(A \ E) <= Cardinality(L \ E)
    <3>1. A \intersect E \subseteq A /\ A \ E \subseteq A
      OBVIOUS
    <3> QED
      BY <1>2, <2>3, <2>8, <3>1, Sized
  <2>11. Cardinality(R) + Cardinality(A \intersect E) <= Cardinality(C)
    <3>1. R \union (A \intersect E) \subseteq C
      BY <2>5, <2>6
    <3>2. Cardinality(R \union (A \intersect E)) = Cardinality(R) + Cardinality(A \intersect E)
      BY <2>7, <2>9, <2>10, UnionSized
    <3> QED
      BY <2>3, <3>1, <3>2, Sized
  <2>12. Cardinality(A) <= Cardinality(A \intersect E) + Cardinality(A \ E)
    <3>1. /\ IsFiniteSet((A \intersect E) \union (A \ E))
          /\ Cardinality((A \intersect E) \union (A \ E))
                <= Cardinality(A \intersect E) + Cardinality(A \ E)
      BY <2>10, UnionSized
    <3>2. /\ Cardinality(A) <= Cardinality((A \intersect E) \union (A \ E))
          /\ Cardinality((A \intersect E) \union (A \ E)) \in Nat
      BY <2>8, <3>1, Sized
    <3> QED
      BY <2>3, <2>10, <3>1, <3>2
  <2> QED
    BY <1>2, <2>3, <2>9, <2>10, <2>11, <2>12
<1>5. Cardinality(W) <= Cardinality(L \ E) /\ Cardinality(W) \in Nat
  BY <1>1, <1>2, <1>4, FS_EmptySet, Sized
<1>6. /\ IsFiniteSet(Unseen(B, L, o, S) \union W)
      /\ Cardinality(Unseen(B, L, o, S) \union W) <= Cardinality(Unseen(B, L, o, S)) + Cardinality(W)
  BY <1>1, <1>2, UnionSized
<1>7. Cardinality(Unseen(B, E, o, S)) <= Cardinality(Unseen(B, L, o, S) \union W)
      /\ Cardinality(Unseen(B, L, o, S) \union W) \in Nat
  BY <1>3, <1>6, Sized
<1> QED
  BY <1>2, <1>5, <1>6, <1>7

(* A page leaves nothing unseen that stood before its end, except what did  *)
(* before its beginning; an empty one is at the end of the list.            *)
LEMMA PageCovers ==
    ASSUME NEW L, IsFiniteSet(L), L \subseteq Int, NEW o \in Nat, NEW p,
           Slice(L, o, Take) \subseteq p, NEW B, NEW S
    PROVE  /\ Unseen(B, L, o + Take, S \union p) \subseteq Unseen(B, L, o, S)
           /\ p = {} => \A i \in L : NewerIn(L, i) < o + Take
<1>1. Take \in Nat /\ Take > 0
  BY InboxConstants
<1>2. \A i \in L : NewerIn(L, i) \in Nat
  BY NewerSized
<1>3. ASSUME NEW i \in L, NewerIn(L, i) < o + Take, i \notin p PROVE NewerIn(L, i) < o
  <2>1. SUFFICES ASSUME NewerIn(L, i) >= o PROVE FALSE
    BY <1>2
  <2>2. NewerIn(L, i) \in o..(o + Take - 1)
    BY <1>1, <1>2, <1>3, <2>1
  <2> QED
    BY <1>3, <2>2 DEF Slice
<1>4. ASSUME p = {}, NEW i \in L PROVE NewerIn(L, i) < o + Take
  <2>1. SUFFICES ASSUME NewerIn(L, i) >= o PROVE FALSE
    BY <1>1, <1>2
  <2>2. PICK j \in L : NewerIn(L, j) = o
    BY <2>1, NoGap
  <2>3. o \in o..(o + Take - 1)
    BY <1>1
  <2> QED
    BY <1>4, <2>2, <2>3 DEF Slice
<1> QED
  BY <1>3, <1>4 DEF Unseen

(* Merging the replay buffer with as many of the stored notifications as    *)
(* could be needed leaves nothing out of the page.                         *)
LEMMA MergeTakesEnough ==
    ASSUME NEW V, IsFiniteSet(V), V \subseteq Int, NEW P, IsFiniteSet(P), P \subseteq Int,
           NEW o \in Nat, NEW c \in Nat, c >= o + Take
    PROVE  Slice(P \union V, o, Take) \subseteq Slice(P \union Slice(V, 0, c), o, Take)
<1> DEFINE L == P \union V
           K == P \union Slice(V, 0, c)
<1>1. Take \in Nat /\ IsFiniteSet(L) /\ L \subseteq Int
  BY InboxConstants, UnionSized
<1>2. ASSUME NEW i \in L, NewerIn(L, i) \in o..(o + Take - 1)
      PROVE  i \in K /\ NewerIn(K, i) = NewerIn(L, i)
  <2>1. ASSUME NEW j \in V, j >= i PROVE j \in Slice(V, 0, c)
    <3>1. NewerThan(V, j) \subseteq NewerThan(L, i)
      <4>1. j \in Int /\ i \in Int
        BY <1>1
      <4>2. \A k \in V : k > j => k > i
        BY <2>1, <4>1
      <4> QED
        BY <4>2 DEF NewerThan
    <3>2. NewerIn(V, j) <= NewerIn(L, i) /\ NewerIn(V, j) \in Nat /\ NewerIn(L, i) \in Nat
      <4> HIDE DEF L
      <4>1. /\ NewerIn(V, j) \in Nat /\ NewerIn(V, j) = Cardinality(NewerThan(V, j))
            /\ NewerIn(L, i) \in Nat /\ NewerIn(L, i) = Cardinality(NewerThan(L, i))
            /\ IsFiniteSet(NewerThan(L, i))
        BY <1>1, NewerSized
      <4>2. Cardinality(NewerThan(V, j)) <= Cardinality(NewerThan(L, i))
        BY <3>1, <4>1, Sized
      <4> QED
        BY <4>1, <4>2
    <3>3. NewerIn(V, j) \in 0..(0 + c - 1)
      BY <1>1, <1>2, <3>2
    <3> QED
      BY <3>3 DEF Slice
  <2>2. i \in K
    BY <1>1, <1>2, <2>1
  <2>3. NewerThan(K, i) = NewerThan(L, i)
    <3>1. \A j \in V : j > i => j \in Slice(V, 0, c)
      BY <1>1, <2>1
    <3>2. Slice(V, 0, c) \subseteq V
      BY DEF Slice
    <3> QED
      BY <3>1, <3>2 DEF NewerThan
  <2> QED
    BY <2>2, <2>3 DEF NewerIn, NewerThan
<1> QED
  BY <1>2 DEF Slice


----------------------------------------------------------------------------
(* What is on its way to a list has not been on one.                       *)

Known(i) ==
    \/ i \in DOMAIN rows \/ i \in replay
    \/ \E r \in Readers : i \in before[r] \/ i \in gone[r]

Unborn ==
    /\ \A m \in Messages :
           stage[m] = "save" \/ (stage[m] = "hand" /\ ~kind[m].save) => ~Known(id[m])
    /\ \A j \in jobs : ~j.save => ~Known(j.id)
    /\ \A m \in Messages, j \in jobs : stage[m] \in {"save", "hand"} => j.id # id[m]
    /\ \A j, k \in jobs : j.id = k.id => j = k
    /\ \A r \in Readers : gone[r] \intersect replay = {}

LEMMA KnownTyped ==
    ASSUME TypeOK, NEW i, Known(i) PROVE i \in Ids
<1>1. StoreTypes /\ ReadTypes
  BY TypeParts
<1>2. \A r \in Readers : before[r] \subseteq Ids /\ gone[r] \subseteq Ids
  BY <1>1 DEF ReadTypes
<1> QED
  BY <1>1, <1>2 DEF Known, StoreTypes

LEMMA InitUnborn == Init => Unborn
  BY DEF Init, Unborn, Known

LEMMA AskUnborn ==
    ASSUME Typed, Unborn, NEW m \in Messages, Ask(m) PROVE Unborn'
<1> DEFINE i == lastId + 1
<1>1. i \notin Ids
  BY InboxConstants DEF Typed, TypeOK, Ids
<1>2. ~Known(i) /\ \A j \in jobs : j.id # i
  BY <1>1, KnownTyped, TypeParts DEF Typed, StoreTypes
<1>3. /\ UNCHANGED <<kind, jobs, rows, replay, before, gone>>
      /\ id'[m] = i /\ \A n \in Messages \ {m} : id'[n] = id[n] /\ stage'[n] = stage[n]
  BY DEF Ask, reads, since, Typed, TypeOK
<1> HIDE DEF i
<1>4. \A k : Known(k)' <=> Known(k)
  BY <1>3 DEF Known
<1> QED
  BY <1>2, <1>3, <1>4 DEF Unborn

(* A notification comes to a list: no other call and no job has its id.    *)
LEMMA BornOnce ==
    ASSUME Unborn, NEW i, UNCHANGED kind, jobs' \subseteq jobs,
           \A k : Known(k)' => Known(k) \/ k = i,
           \A m \in Messages :
               stage'[m] \in {"save", "hand"} =>
                   id'[m] = id[m] /\ (stage'[m] = stage[m]
                                        \/ (stage'[m] = "hand" /\ stage[m] = "save" /\ kind[m].save)),
           \A m \in Messages :
               stage'[m] = "save" \/ (stage'[m] = "hand" /\ ~kind[m].save) => id[m] # i,
           \A j \in jobs' : ~j.save => j.id # i,
           \A r \in Readers : gone'[r] \intersect replay' = {}
    PROVE  Unborn'
<1>1. \A m \in Messages :
          stage'[m] = "save" \/ (stage'[m] = "hand" /\ ~kind'[m].save) => ~Known(id[m])'
  BY DEF Unborn
<1>2. \A j \in jobs' : ~j.save => ~Known(j.id)'
  BY DEF Unborn
<1>3. \A m \in Messages, j \in jobs' : stage'[m] \in {"save", "hand"} => j.id # id'[m]
  BY DEF Unborn
<1>4. \A j, k \in jobs' : j.id = k.id => j = k
  BY DEF Unborn
<1> QED
  BY <1>1, <1>2, <1>3, <1>4 DEF Unborn

LEMMA SaveUnborn ==
    ASSUME Typed, CallInv, Unborn, NEW m \in Messages, SaveNotification(m) \/ SaveFails(m)
    PROVE  Unborn'
<1>1. /\ UNCHANGED <<kind, id, jobs, replay, before, gone>> /\ stage[m] = "save"
      /\ DOMAIN rows' \subseteq DOMAIN rows \union {id[m]}
  BY DEF SaveNotification, SaveFails, Insert, reads, since
<1>2. /\ stage'[m] \in {"hand", "failed"}
      /\ \A n \in Messages \ {m} : stage'[n] = stage[n]
  BY DEF SaveNotification, SaveFails, Typed, TypeOK
<1>3. kind[m].save /\ \A n \in Messages \ {m} : stage[n] \in {"save", "hand"} => id[n] # id[m]
  BY <1>1 DEF CallInv, Stored, Typed, OwnIds
<1>4. \A k : Known(k)' => Known(k) \/ k = id[m]
  BY <1>1 DEF Known
<1>5. \A n \in Messages :
          stage'[n] \in {"save", "hand"} =>
              id'[n] = id[n] /\ (stage'[n] = stage[n]
                                   \/ (stage'[n] = "hand" /\ stage[n] = "save" /\ kind[n].save))
  BY <1>1, <1>2, <1>3
<1>6. \A n \in Messages :
          stage'[n] = "save" \/ (stage'[n] = "hand" /\ ~kind[n].save) => id[n] # id[m]
  BY <1>2, <1>3
<1>7. /\ \A j \in jobs' : j.id # id[m]
      /\ \A r \in Readers : gone'[r] \intersect replay' = {}
  BY <1>1 DEF Unborn
<1> QED
  BY <1>1, <1>4, <1>5, <1>6, <1>7, BornOnce

LEMMA HandOnUnborn ==
    ASSUME Typed, CallInv, Unborn, NEW m \in Messages, HandOn(m) \/ HandOnFails(m)
    PROVE  Unborn'
<1> DEFINE q == {[id |-> id[m], save |-> kind[m].save]}
<1>1. /\ UNCHANGED <<kind, id, rows, before, gone>> /\ stage[m] = "hand"
      /\ \/ replay' = replay /\ jobs' \subseteq jobs \union q
         \/ ~kind[m].save /\ replay' = replay \union {id[m]} /\ jobs' = jobs
  BY DEF HandOn, HandOnFails, Keeps, reads, since
<1>2. /\ stage'[m] \in {"answered", "failed"}
      /\ \A n \in Messages \ {m} : stage'[n] = stage[n]
  BY DEF HandOn, HandOnFails, Typed, TypeOK
<1>3. /\ \A n \in Messages \ {m} : stage[n] \in {"save", "hand"} => id[n] # id[m]
      /\ ~kind[m].save => ~Known(id[m])
      /\ \A j \in jobs : j.id # id[m]
  BY <1>1 DEF Typed, OwnIds, Unborn
<1>4. \A n \in Messages :
          stage'[n] \in {"save", "hand"} => n # m /\ id'[n] = id[n] /\ stage'[n] = stage[n]
  BY <1>1, <1>2
<1>5. \A r \in Readers : gone'[r] \intersect replay' = {}
  BY <1>1, <1>3 DEF Unborn, Known
<1>6. CASE replay' = replay /\ jobs' \subseteq jobs \union q
  <2>1. \A k : Known(k)' => Known(k)
    BY <1>1, <1>6 DEF Known
  <2>2. \A j \in q : /\ ~j.save => ~Known(j.id)
                     /\ \A n \in Messages : stage'[n] \in {"save", "hand"} => j.id # id[n]
                     /\ \A k \in jobs : j.id # k.id
                     /\ \A k \in q : j = k
    BY <1>3, <1>4
  <2> HIDE DEF q
  <2>3. \A n \in Messages :
            stage'[n] = "save" \/ (stage'[n] = "hand" /\ ~kind'[n].save) => ~Known(id[n])'
    BY <1>1, <1>4, <2>1 DEF Unborn
  <2>4. \A j \in jobs' : ~j.save => ~Known(j.id)'
    BY <1>6, <2>1, <2>2 DEF Unborn
  <2>5. \A n \in Messages, j \in jobs' : stage'[n] \in {"save", "hand"} => j.id # id'[n]
    BY <1>1, <1>4, <1>6, <2>2 DEF Unborn
  <2>6. \A j, k \in jobs' : j.id = k.id => j = k
    BY <1>6, <2>2 DEF Unborn
  <2> QED
    BY <1>1, <1>5, <2>3, <2>4, <2>5, <2>6 DEF Unborn
<1>7. CASE ~kind[m].save /\ replay' = replay \union {id[m]} /\ jobs' = jobs
  <2>1. \A k : Known(k)' => Known(k) \/ k = id[m]
    BY <1>1, <1>7 DEF Known
  <2>2. \A n \in Messages :
            stage'[n] = "save" \/ (stage'[n] = "hand" /\ ~kind[n].save) => id[n] # id[m]
    BY <1>3, <1>4
  <2>3. \A n \in Messages :
            stage'[n] \in {"save", "hand"} =>
                id'[n] = id[n] /\ (stage'[n] = stage[n]
                                     \/ (stage'[n] = "hand" /\ stage[n] = "save" /\ kind[n].save))
    BY <1>4
  <2> QED
    BY <1>1, <1>3, <1>5, <1>7, <2>1, <2>2, <2>3, BornOnce
<1> QED
  BY <1>1, <1>6, <1>7

LEMMA DeliverUnborn ==
    ASSUME Typed, Unborn, Deliver PROVE Unborn'
<1>1. UNCHANGED <<kind, id, stage, rows, before, gone>>
  BY DEF Deliver, reads, since
<1>2. PICK j \in jobs :
          /\ jobs' = jobs \ {j}
          /\ replay' = replay \/ (~j.save /\ replay' = replay \union {j.id})
  BY DEF Deliver, Keeps
<1>3. CASE replay' = replay
  BY <1>1, <1>2, <1>3 DEF Unborn, Known
<1>4. CASE ~j.save /\ replay' = replay \union {j.id}
  <2>1. \A k : Known(k)' => Known(k) \/ k = j.id
    BY <1>1, <1>4 DEF Known
  <2>2. \A n \in Messages :
            stage'[n] = "save" \/ (stage'[n] = "hand" /\ ~kind[n].save) => id[n] # j.id
    BY <1>1 DEF Unborn
  <2>3. \A k \in jobs' : k.id # j.id
    BY <1>2 DEF Unborn
  <2>4. \A r \in Readers : gone'[r] \intersect replay' = {}
    BY <1>1, <1>4 DEF Unborn, Known
  <2> QED
    BY <1>1, <1>2, <2>1, <2>2, <2>3, <2>4, BornOnce
<1> QED
  BY <1>2, <1>3, <1>4

LEMMA RestUnborn ==
    ASSUME Unborn, UNCHANGED sends, \A k : Known(k)' => Known(k),
           \A r \in Readers : gone'[r] \intersect replay' = {}
    PROVE  Unborn'
<1>1. UNCHANGED <<kind, id, stage, jobs>>
  BY DEF sends
<1> QED
  BY <1>1 DEF Unborn

(* What readers do, and retention, brings nothing to a list.               *)
LEMMA ReadUnborn ==
    ASSUME Typed, Unborn, NEW r \in Readers, Read(r) PROVE Unborn'
<1>1. UNCHANGED sends /\ replay' \subseteq replay /\ DOMAIN rows' = DOMAIN rows
  <2>1. UNCHANGED sends /\ replay' \subseteq replay
    BY DEF Read, Start, ListNotifications, MarkPage, MarkFails, ReadReplay,
           ListNotificationsForSop, RemoveListed
  <2>2. rows' = rows \/ \E ids : Viewed(ids)
    BY DEF Read, Start, ListNotifications, MarkPage, MarkFails, ReadReplay,
           ListNotificationsForSop, RemoveListed
  <2> QED
    BY <2>1, <2>2 DEF Viewed
<1>2. CASE Start(r)
  <2>1. UNCHANGED <<rows, replay, gone>> /\ before' = [before EXCEPT ![r] = Everything(r)]
    BY <1>2 DEF Start, since
  <2>2. \A k \in Everything(r) : Known(k)
    BY DEF Everything, VisibleOf, Known
  <2>3. \A q \in Readers : before'[q] \subseteq before[q] \union Everything(r)
    BY <2>1 DEF Typed, TypeOK
  <2>4. \A k : Known(k)' => Known(k)
    BY <2>1, <2>2, <2>3 DEF Known
  <2> QED
    BY <1>1, <2>1, <2>4, RestUnborn DEF Unborn
<1>3. CASE RemoveListed(r)
  <2>1. /\ UNCHANGED <<rows, before>>
        /\ \A q \in Readers : gone'[q] \subseteq gone[q] \union (replay \ replay')
    BY <1>3 DEF RemoveListed
  <2>2. \A k : Known(k)' => Known(k)
    BY <1>1, <2>1 DEF Known
  <2>3. \A q \in Readers : gone'[q] \intersect replay' = {}
    BY <1>1, <2>1 DEF Unborn
  <2> QED
    BY <1>1, <2>2, <2>3, RestUnborn
<1>4. CASE \/ ListNotifications(r) \/ MarkPage(r) \/ MarkFails(r)
           \/ ReadReplay(r) \/ ListNotificationsForSop(r)
  <2>1. UNCHANGED <<before, gone, replay>>
    BY <1>4 DEF ListNotifications, MarkPage, MarkFails, ReadReplay,
                ListNotificationsForSop, since
  <2>2. \A k : Known(k)' => Known(k)
    BY <1>1, <2>1 DEF Known
  <2> QED
    BY <1>1, <2>1, <2>2, RestUnborn DEF Unborn
<1> QED
  BY <1>2, <1>3, <1>4 DEF Read

LEMMA OthersUnborn ==
    ASSUME Unborn,
           \/ UNCHANGED inbox \/ DeleteExcessNotifications
           \/ \E app \in Apps : MarkAllNotificationsViewed(app)
    PROVE  Unborn'
<1>1. UNCHANGED <<sends, replay, before, gone>> /\ DOMAIN rows' \subseteq DOMAIN rows
  BY DEF inbox, reads, since, DeleteExcessNotifications, MarkAllNotificationsViewed, Viewed
<1>2. \A k : Known(k)' => Known(k)
  BY <1>1 DEF Known
<1> QED
  BY <1>1, <1>2, RestUnborn DEF Unborn

LEMMA NextUnborn == Typed /\ CallInv /\ Unborn /\ [Next]_vars => Unborn'
<1> SUFFICES ASSUME Typed, CallInv, Unborn, [Next]_vars PROVE Unborn'
  OBVIOUS
<1>1. ASSUME NEW m \in Messages, Call(m) PROVE Unborn'
  BY <1>1, AskUnborn, SaveUnborn, HandOnUnborn DEF Call
<1>2. UNCHANGED vars => UNCHANGED inbox
  BY DEF vars
<1> QED
  BY <1>1, <1>2, DeliverUnborn, ReadUnborn, OthersUnborn DEF Next

----------------------------------------------------------------------------
(* The pages.                                                              *)
AllIds == 1..MaxIds

Within(L, o) == \A i \in L : NewerIn(L, i) < o

(* A client that began with the list B, now E, and was shown S: had its     *)
(* last answers been taken from L, it would have missed no more before the  *)
(* position o than has left the list, counting what is still on L as missed *)
(* already.                                                                *)
Short(B, L, E, o, S, G) ==
    /\ B \intersect E \subseteq L
    /\ Cardinality(Unseen(B, L, o, S)) + Cardinality(L \ E) <= Cardinality(G)

(* The same of a page that is made and not given yet.                      *)
Answerable(B, E, o, S, p, G) ==
    \E L \in SUBSET AllIds :
        Short(B, L, E, o + Take, S \union p, G) /\ (p = {} => Within(L, o + Take))

InStep(r) ==
    /\ reading[r] = "new" => offset[r] = 0
    /\ reading[r] = "mark" => ~client[r].sop
    /\ reading[r] \in {"query", "remove"} => client[r].sop
    /\ ~cut[r] =>
        /\ reading[r] \in {"next", "mark"} =>
               Short(before[r], Everything(r), Everything(r), offset[r], seen[r], gone[r])
        /\ reading[r] = "query" =>
               Short(before[r], VisibleOf(client[r].app) \union page[r], Everything(r),
                     offset[r], seen[r], gone[r])
        /\ reading[r] \in {"mark", "remove"} =>
               Answerable(before[r], Everything(r), offset[r], seen[r], page[r], gone[r])
        /\ reading[r] = "end" => Cardinality(Missed(r)) <= Cardinality(gone[r])

PagesInv == Unborn /\ \A r \in Readers : InStep(r)

LEMMA IdsAreFinite ==
    ASSUME NEW S, S \subseteq AllIds
    PROVE  IsFiniteSet(S) /\ S \subseteq Int /\ Cardinality(S) \in Nat
<1>1. IsFiniteSet(AllIds)
  BY InboxConstants, FS_Interval DEF AllIds
<1>2. IsFiniteSet(S) /\ Cardinality(S) \in Nat
  BY <1>1, Sized
<1> QED
  BY <1>2 DEF AllIds

LEMMA UnseenSized ==
    ASSUME NEW B, NEW L, L \subseteq AllIds, NEW o, NEW S
    PROVE  IsFiniteSet(Unseen(B, L, o, S)) /\ Cardinality(Unseen(B, L, o, S)) \in Nat
<1>1. Unseen(B, L, o, S) \subseteq AllIds
  BY DEF Unseen
<1> QED
  BY <1>1, IdsAreFinite

(* What leaves the list is counted once.                                   *)
LEMMA ShortDrift ==
    ASSUME NEW B, NEW L, L \subseteq AllIds, NEW E, E \subseteq AllIds,
           NEW F, F \subseteq AllIds, NEW o, NEW S,
           NEW G, G \subseteq AllIds, NEW H, H \subseteq AllIds,
           Short(B, L, E, o, S, G), B \intersect F \subseteq E, G \subseteq H,
           E \ F \subseteq H \ G
    PROVE  Short(B, L, F, o, S, H)
<1>1. /\ IsFiniteSet(L \ E) /\ IsFiniteSet(E \ F) /\ IsFiniteSet(L \ F)
      /\ IsFiniteSet(G) /\ IsFiniteSet(H) /\ IsFiniteSet((L \ E) \union (E \ F))
      /\ Cardinality(L \ E) \in Nat /\ Cardinality(E \ F) \in Nat /\ Cardinality(L \ F) \in Nat
      /\ Cardinality(G) \in Nat /\ Cardinality(H) \in Nat
      /\ Cardinality((L \ E) \union (E \ F)) \in Nat
  <2>1. L \ E \subseteq AllIds /\ E \ F \subseteq AllIds /\ L \ F \subseteq AllIds
        /\ (L \ E) \union (E \ F) \subseteq AllIds
    OBVIOUS
  <2> QED
    BY <2>1, IdsAreFinite
<1>2. Cardinality(L \ F) <= Cardinality(L \ E) + Cardinality(E \ F)
  <2>1. L \ F \subseteq (L \ E) \union (E \ F)
    OBVIOUS
  <2>2. Cardinality(L \ F) <= Cardinality((L \ E) \union (E \ F))
    BY <1>1, <2>1, Sized
  <2>3. Cardinality((L \ E) \union (E \ F)) <= Cardinality(L \ E) + Cardinality(E \ F)
    BY <1>1, UnionSized
  <2> QED
    BY <1>1, <2>2, <2>3
<1>3. Cardinality(G) + Cardinality(E \ F) <= Cardinality(H)
  <2>1. G \union (E \ F) \subseteq H /\ G \intersect (E \ F) = {}
    OBVIOUS
  <2>2. Cardinality(G \union (E \ F)) <= Cardinality(H)
    BY <1>1, <2>1, Sized
  <2>3. Cardinality(G \union (E \ F)) = Cardinality(G) + Cardinality(E \ F)
    BY <1>1, <2>1, UnionSized
  <2> QED
    BY <2>2, <2>3
<1>4. Cardinality(Unseen(B, L, o, S)) \in Nat
  BY UnseenSized
<1>5. B \intersect F \subseteq L
  BY DEF Short
<1>6. Cardinality(Unseen(B, L, o, S)) + Cardinality(L \ E) <= Cardinality(G)
  BY DEF Short
<1>7. Cardinality(Unseen(B, L, o, S)) + Cardinality(L \ F) <= Cardinality(H)
  BY <1>1, <1>2, <1>3, <1>4, <1>6
<1> QED
  BY <1>5, <1>7 DEF Short

(* The next answer is taken from the list as it is now.                    *)
LEMMA ShortShift ==
    ASSUME NEW B, NEW L, L \subseteq AllIds, NEW E, E \subseteq AllIds,
           NEW o \in Nat, NEW S, NEW G, Short(B, L, E, o, S, G), G \subseteq AllIds
    PROVE  Short(B, E, E, o, S, G)
<1>1. /\ IsFiniteSet(L) /\ IsFiniteSet(E) /\ L \subseteq Int /\ E \subseteq Int
      /\ Cardinality(G) \in Nat
  BY IdsAreFinite
<1>2. B \intersect E \subseteq L
      /\ Cardinality(Unseen(B, L, o, S)) + Cardinality(L \ E) <= Cardinality(G)
  BY DEF Short
<1>3. Cardinality(Unseen(B, E, o, S)) <= Cardinality(Unseen(B, L, o, S)) + Cardinality(L \ E)
  BY <1>1, <1>2, FewMoveUp
<1>4. Cardinality(E \ E) = 0
  <2>1. E \ E = {}
    OBVIOUS
  <2> QED
    BY <2>1, FS_EmptySet
<1>5. /\ Cardinality(Unseen(B, E, o, S)) \in Nat /\ Cardinality(Unseen(B, L, o, S)) \in Nat
      /\ Cardinality(L \ E) \in Nat
  <2>1. L \ E \subseteq AllIds
    OBVIOUS
  <2> QED
    BY <2>1, UnseenSized, IdsAreFinite
<1>6. Cardinality(Unseen(B, E, o, S)) + Cardinality(E \ E) <= Cardinality(G)
  BY <1>1, <1>2, <1>3, <1>4, <1>5
<1> QED
  BY <1>6 DEF Short

(* What comes to the list moves others down only.                          *)
LEMMA ShortGrown ==
    ASSUME NEW B, NEW L, L \subseteq AllIds, NEW M, M \subseteq AllIds, L \subseteq M,
           NEW E, E \subseteq AllIds, M \ L \subseteq E, (M \ L) \intersect B = {},
           NEW o \in Nat, NEW S, NEW G, G \subseteq AllIds, Short(B, L, E, o, S, G)
    PROVE  Short(B, M, E, o, S, G)
<1>1. Unseen(B, M, o, S) \subseteq Unseen(B, L, o, S)
  <2>1. ASSUME NEW i \in L, NewerIn(M, i) < o PROVE NewerIn(L, i) < o
    <3>1. NewerThan(L, i) \subseteq NewerThan(M, i)
      BY DEF NewerThan
    <3>2. /\ NewerIn(M, i) = Cardinality(NewerThan(M, i)) /\ IsFiniteSet(NewerThan(M, i))
          /\ NewerIn(L, i) = Cardinality(NewerThan(L, i))
          /\ NewerIn(M, i) \in Nat /\ NewerIn(L, i) \in Nat
      BY IdsAreFinite, NewerSized
    <3>3. Cardinality(NewerThan(L, i)) <= Cardinality(NewerThan(M, i))
      BY <3>1, <3>2, Sized
    <3> QED
      BY <2>1, <3>2, <3>3
  <2> QED
    BY <2>1 DEF Unseen
<1>2. Cardinality(Unseen(B, M, o, S)) <= Cardinality(Unseen(B, L, o, S))
      /\ Cardinality(Unseen(B, M, o, S)) \in Nat /\ Cardinality(Unseen(B, L, o, S)) \in Nat
  BY <1>1, UnseenSized, Sized
<1>3. Cardinality(M \ E) = Cardinality(L \ E)
  <2>1. M \ E = L \ E
    OBVIOUS
  <2> QED
    BY <2>1
<1>4. /\ B \intersect E \subseteq L
      /\ Cardinality(Unseen(B, L, o, S)) + Cardinality(L \ E) <= Cardinality(G)
  BY DEF Short
<1>5. Cardinality(L \ E) \in Nat
  <2>1. L \ E \subseteq AllIds
    OBVIOUS
  <2> QED
    BY <2>1, IdsAreFinite
<1>6. Cardinality(G) \in Nat
  BY IdsAreFinite
<1>7. Cardinality(Unseen(B, M, o, S)) + Cardinality(M \ E) <= Cardinality(G)
  BY <1>2, <1>3, <1>4, <1>5, <1>6
<1> QED
  BY <1>4, <1>7 DEF Short

(* A page is given from where the client was.                              *)
LEMMA ShortPage ==
    ASSUME NEW B, NEW L, L \subseteq AllIds, NEW E, E \subseteq AllIds,
           NEW o \in Nat, NEW S, NEW G, G \subseteq AllIds, Short(B, L, E, o, S, G),
           NEW p, Slice(L, o, Take) \subseteq p
    PROVE  Answerable(B, E, o, S, p, G)
<1>1. /\ Unseen(B, L, o + Take, S \union p) \subseteq Unseen(B, L, o, S)
      /\ p = {} => Within(L, o + Take)
  <2>1. IsFiniteSet(L) /\ L \subseteq Int
    BY IdsAreFinite
  <2> QED
    BY <2>1, PageCovers DEF Within
<1>2. /\ Cardinality(Unseen(B, L, o + Take, S \union p)) <= Cardinality(Unseen(B, L, o, S))
      /\ Cardinality(Unseen(B, L, o + Take, S \union p)) \in Nat
      /\ Cardinality(Unseen(B, L, o, S)) \in Nat
  BY <1>1, UnseenSized, Sized
<1>3. Cardinality(L \ E) \in Nat /\ Cardinality(G) \in Nat
  <2>1. L \ E \subseteq AllIds
    OBVIOUS
  <2> QED
    BY <2>1, IdsAreFinite
<1>4. /\ B \intersect E \subseteq L
      /\ Cardinality(Unseen(B, L, o, S)) + Cardinality(L \ E) <= Cardinality(G)
  BY DEF Short
<1>5. Cardinality(Unseen(B, L, o + Take, S \union p)) + Cardinality(L \ E) <= Cardinality(G)
  BY <1>2, <1>3, <1>4
<1>6. Short(B, L, E, o + Take, S \union p, G)
  BY <1>4, <1>5 DEF Short
<1> QED
  BY <1>1, <1>6 DEF Answerable

LEMMA NothingShort ==
    ASSUME NEW B, NEW E, E \subseteq AllIds, NEW S, NEW G, G \subseteq AllIds
    PROVE  Short(B, E, E, 0, S, G)
<1>1. Unseen(B, E, 0, S) = {}
  <2>1. \A i : NewerIn(E, i) \in Nat
    BY IdsAreFinite, NewerSized
  <2> QED
    BY <2>1 DEF Unseen
<1>2. Cardinality(Unseen(B, E, 0, S)) = 0 /\ Cardinality(E \ E) = 0
  <2>1. E \ E = {}
    OBVIOUS
  <2> QED
    BY <1>1, <2>1, FS_EmptySet
<1>3. Cardinality(G) \in Nat
  BY IdsAreFinite
<1>4. Cardinality(Unseen(B, E, 0, S)) + Cardinality(E \ E) <= Cardinality(G)
  BY <1>2, <1>3
<1> QED
  BY <1>4 DEF Short

(* At the end of the list nothing is behind the position.                  *)
LEMMA ShortEnd ==
    ASSUME NEW B, NEW L, L \subseteq AllIds, NEW E, E \subseteq AllIds,
           NEW o, NEW S, NEW G, G \subseteq AllIds, Short(B, L, E, o, S, G), Within(L, o)
    PROVE  Cardinality((B \intersect E) \ S) <= Cardinality(G)
<1>1. (B \intersect E) \ S \subseteq Unseen(B, L, o, S)
  BY DEF Short, Within, Unseen
<1>2. /\ Cardinality((B \intersect E) \ S) <= Cardinality(Unseen(B, L, o, S))
      /\ Cardinality(Unseen(B, L, o, S)) \in Nat
      /\ Cardinality((B \intersect E) \ S) \in Nat
  BY <1>1, UnseenSized, Sized
<1>3. Cardinality(L \ E) \in Nat /\ Cardinality(G) \in Nat
  <2>1. L \ E \subseteq AllIds
    OBVIOUS
  <2> QED
    BY <2>1, IdsAreFinite
<1>4. Cardinality(Unseen(B, L, o, S)) + Cardinality(L \ E) <= Cardinality(G)
  BY DEF Short
<1> QED
  BY <1>2, <1>3, <1>4

LEMMA AnswerableDrift ==
    ASSUME NEW B, NEW E, E \subseteq AllIds, NEW F, F \subseteq AllIds, NEW o, NEW S, NEW p,
           NEW G, G \subseteq AllIds, NEW H, H \subseteq AllIds,
           Answerable(B, E, o, S, p, G), B \intersect F \subseteq E, G \subseteq H,
           E \ F \subseteq H \ G
    PROVE  Answerable(B, F, o, S, p, H)
<1>1. PICK L \in SUBSET AllIds :
          Short(B, L, E, o + Take, S \union p, G) /\ (p = {} => Within(L, o + Take))
  BY DEF Answerable
<1>2. Short(B, L, F, o + Take, S \union p, H)
  BY <1>1, ShortDrift
<1> QED
  BY <1>1, <1>2 DEF Answerable

(* The client has its answer: it goes on, or it was the end.               *)
LEMMA Answered ==
    ASSUME NEW B, NEW E, E \subseteq AllIds, NEW o \in Nat, NEW S, NEW p,
           NEW G, G \subseteq AllIds, Answerable(B, E, o, S, p, G)
    PROVE  /\ Short(B, E, E, o + Take, S \union p, G)
           /\ p = {} => Cardinality((B \intersect E) \ (S \union p)) <= Cardinality(G)
<1>1. PICK L \in SUBSET AllIds :
          Short(B, L, E, o + Take, S \union p, G) /\ (p = {} => Within(L, o + Take))
  BY DEF Answerable
<1>2. o + Take \in Nat
  BY InboxConstants
<1> QED
  BY <1>1, <1>2, ShortShift, ShortEnd

Bounded(r) ==
    /\ before[r] \subseteq AllIds /\ gone[r] \subseteq AllIds
    /\ page[r] \subseteq AllIds /\ seen[r] \subseteq AllIds
    /\ Everything(r) \subseteq AllIds /\ VisibleOf(client[r].app) \subseteq AllIds
    /\ offset[r] \in Nat /\ client[r] \in Clients /\ cut[r] \in BOOLEAN
    /\ reading[r] \in Steps

LEMMA ReadersBounded ==
    ASSUME TypeOK, TypeOK', NEW r \in Readers
    PROVE  Bounded(r) /\ Bounded(r)'
<1>1. Bounded(r)
  <2>1. StoreTypes /\ ReadTypes /\ Ids \subseteq AllIds
    BY TypeParts, InboxConstants DEF TypeOK, Ids, AllIds
  <2>2. Everything(r) \subseteq Ids /\ VisibleOf(client[r].app) \subseteq Ids
    BY <2>1 DEF Everything, VisibleOf, StoreTypes
  <2> QED
    BY <2>1, <2>2 DEF Bounded, ReadTypes
<1>2. Bounded(r)'
  <2>1. StoreTypes' /\ ReadTypes' /\ Ids' \subseteq AllIds
    BY TypeParts, InboxConstants DEF TypeOK, Ids, AllIds
  <2>2. Everything(r)' \subseteq Ids' /\ VisibleOf(client[r].app)' \subseteq Ids'
    BY <2>1 DEF Everything, VisibleOf, StoreTypes
  <2> QED
    BY <2>1, <2>2 DEF Bounded, ReadTypes
<1> QED
  BY <1>1, <1>2

(* A step of somebody else, as a client sees it.                           *)
Drifted(r) ==
    /\ client' = client /\ reading'[r] = reading[r] /\ offset'[r] = offset[r]
    /\ page'[r] = page[r] /\ seen'[r] = seen[r] /\ before'[r] = before[r]
    /\ ~cut'[r] /\ reading[r] # "new" =>
        /\ ~cut[r] /\ gone[r] \subseteq gone'[r]
        /\ before[r] \intersect Everything(r)' \subseteq Everything(r)
        /\ reading[r] # "end" =>
            /\ Everything(r) \ Everything(r)' \subseteq gone'[r] \ gone[r]
            /\ VisibleOf(client[r].app) \subseteq VisibleOf(client[r].app)'
            /\ before[r] \intersect VisibleOf(client[r].app)' \subseteq VisibleOf(client[r].app)

LEMMA DriftKeeps ==
    ASSUME TypeOK, TypeOK', NEW r \in Readers, InStep(r), Drifted(r)
    PROVE  InStep(r)'
<1> DEFINE B == before[r]  E == Everything(r)  F == Everything(r)'
           V == VisibleOf(client[r].app)  W == VisibleOf(client[r].app)'
           o == offset[r]  S == seen[r]  P == page[r]  G == gone[r]  H == gone'[r]
<1>1. /\ B \subseteq AllIds /\ E \subseteq AllIds /\ F \subseteq AllIds /\ V \subseteq AllIds
      /\ W \subseteq AllIds /\ o \in Nat /\ S \subseteq AllIds /\ P \subseteq AllIds
      /\ G \subseteq AllIds /\ H \subseteq AllIds
  BY ReadersBounded DEF Bounded
<1>2. /\ client' = client /\ reading'[r] = reading[r] /\ offset'[r] = o
      /\ page'[r] = P /\ seen'[r] = S /\ before'[r] = B
  BY DEF Drifted
<1>3. ASSUME ~cut'[r], reading[r] # "new"
      PROVE  ~cut[r] /\ G \subseteq H /\ B \intersect F \subseteq E
  BY <1>3 DEF Drifted
<1>4. ASSUME ~cut'[r], reading[r] \notin {"new", "end"}
      PROVE  E \ F \subseteq H \ G /\ V \subseteq W /\ B \intersect W \subseteq V
  BY <1>4 DEF Drifted
<1>5. W \subseteq F
  BY DEF Everything
<1>6. /\ reading'[r] = "new" => offset'[r] = 0
      /\ reading'[r] = "mark" => ~client'[r].sop
      /\ reading'[r] \in {"query", "remove"} => client'[r].sop
  BY <1>2 DEF InStep
<1>7. Missed(r)' = (B \intersect F) \ S /\ Missed(r) = (B \intersect E) \ S
  BY <1>2 DEF Missed
<1>8. /\ ~cut[r] /\ reading[r] \in {"next", "mark"} => Short(B, E, E, o, S, G)
      /\ ~cut[r] /\ reading[r] = "query" => Short(B, V \union P, E, o, S, G)
      /\ ~cut[r] /\ reading[r] \in {"mark", "remove"} => Answerable(B, E, o, S, P, G)
      /\ ~cut[r] /\ reading[r] = "end" => Cardinality(Missed(r)) <= Cardinality(G)
  BY DEF InStep
<1> HIDE DEF B, E, F, V, W, o, S, P, G, H
<1>9. ASSUME ~cut'[r], reading[r] \in {"next", "mark"} PROVE Short(B, F, F, o, S, H)
  <2>1. Short(B, E, F, o, S, H)
    BY <1>1, <1>3, <1>4, <1>8, <1>9, ShortDrift
  <2> QED
    BY <1>1, <2>1, ShortShift
<1>10. ASSUME ~cut'[r], reading[r] = "query" PROVE Short(B, W \union P, F, o, S, H)
  <2>1. Short(B, V \union P, F, o, S, H)
    <3>1. V \union P \subseteq AllIds
      BY <1>1
    <3> QED
      BY <1>1, <1>3, <1>4, <1>8, <1>10, <3>1, ShortDrift
  <2>2. /\ (W \union P) \ (V \union P) \subseteq F
        /\ ((W \union P) \ (V \union P)) \intersect B = {}
        /\ V \union P \subseteq W \union P
        /\ V \union P \subseteq AllIds /\ W \union P \subseteq AllIds
    BY <1>1, <1>4, <1>5, <1>10
  <2> QED
    BY <1>1, <2>1, <2>2, ShortGrown
<1>11. ASSUME ~cut'[r], reading[r] \in {"mark", "remove"} PROVE Answerable(B, F, o, S, P, H)
  BY <1>1, <1>3, <1>4, <1>8, <1>11, AnswerableDrift
<1>12. ASSUME ~cut'[r], reading[r] = "end" PROVE Cardinality(Missed(r)') <= Cardinality(H)
  <2>1. Missed(r)' \subseteq Missed(r) /\ Missed(r) \subseteq AllIds /\ H \subseteq AllIds
    BY <1>1, <1>3, <1>7, <1>12
  <2>2. /\ Cardinality(Missed(r)') \in Nat /\ Cardinality(Missed(r)) \in Nat
        /\ Cardinality(G) \in Nat /\ Cardinality(H) \in Nat
        /\ Cardinality(Missed(r)') <= Cardinality(Missed(r)) /\ Cardinality(G) <= Cardinality(H)
    BY <1>1, <1>3, <1>12, <2>1, IdsAreFinite, Sized
  <2> QED
    BY <1>3, <1>8, <1>12, <2>2
<1> QED
  BY <1>2, <1>6, <1>9, <1>10, <1>11, <1>12 DEF InStep, B, F, W, o, S, P, H

(* The list only gets what was on none.                                    *)
LEMMA GrownDrifts ==
    ASSUME NEW r \in Readers, UNCHANGED <<reads, since>>,
           \A app : VisibleOf(app) \subseteq VisibleOf(app)',
           \A app : \A i \in VisibleOf(app)' \ VisibleOf(app) : ~Known(i),
           replay \subseteq replay', \A i \in replay' \ replay : ~Known(i)
    PROVE  Drifted(r)
<1>1. UNCHANGED <<client, reading, offset, page, seen, before, cut, gone>>
  BY DEF reads, since
<1>2. PICK app : app = client[r].app
  OBVIOUS
<1>3. \A i : ~Known(i) => i \notin before[r]
  BY DEF Known
<1>4. Everything(r) = VisibleOf(app) \union IF client[r].sop THEN replay ELSE {}
  BY <1>2 DEF Everything
<1>5. Everything(r)' = VisibleOf(app)' \union IF client[r].sop THEN replay' ELSE {}
  BY <1>1, <1>2 DEF Everything
<1>6. Everything(r) \subseteq Everything(r)'
  BY <1>4, <1>5
<1>7. before[r] \intersect VisibleOf(app)' \subseteq VisibleOf(app)
  BY <1>3
<1>8. before[r] \intersect Everything(r)' \subseteq Everything(r)
  BY <1>3, <1>4, <1>5, <1>7
<1> QED
  BY <1>1, <1>2, <1>6, <1>7, <1>8 DEF Drifted

LEMMA SameRowsSeen ==
    ASSUME rows' = rows, NEW app PROVE VisibleOf(app)' = VisibleOf(app)
  BY DEF VisibleOf

LEMMA ViewedSeen ==
    ASSUME TypeOK, NEW ids, Viewed(ids), NEW app
    PROVE  VisibleOf(app)' = VisibleOf(app)
<1>1. DOMAIN rows' = DOMAIN rows
  BY DEF Viewed
<1>2. ASSUME NEW i \in DOMAIN rows PROVE rows'[i].app = rows[i].app
  <2>1. rows[i] \in Row
    BY TypeParts DEF StoreTypes
  <2> QED
    BY <2>1 DEF Viewed, Row
<1> QED
  BY <1>1, <1>2 DEF VisibleOf

LEMMA InsertSeen ==
    ASSUME NEW m \in Messages, Insert(m), ~Known(id[m]), NEW app
    PROVE  /\ VisibleOf(app) \subseteq VisibleOf(app)'
           /\ \A i \in VisibleOf(app)' \ VisibleOf(app) : i = id[m]
<1>1. id[m] \notin DOMAIN rows
  BY DEF Known
<1>2. /\ DOMAIN rows' = DOMAIN rows \union {id[m]}
      /\ \A i \in DOMAIN rows : rows'[i] = rows[i]
  BY <1>1 DEF Insert
<1> QED
  BY <1>2 DEF VisibleOf

LEMMA CallDrifts ==
    ASSUME Unborn, NEW m \in Messages, Call(m), NEW r \in Readers
    PROVE  Drifted(r)
<1>1. UNCHANGED <<reads, since>>
  BY DEF Call, Ask, SaveNotification, SaveFails, HandOn, HandOnFails
<1>2. CASE Ask(m)
  <2>1. rows' = rows /\ replay' = replay
    BY <1>2 DEF Ask
  <2> QED
    BY <1>1, <2>1, GrownDrifts, SameRowsSeen
<1>3. CASE SaveNotification(m) \/ SaveFails(m)
  <2>1. replay' = replay /\ (rows' = rows \/ Insert(m)) /\ ~Known(id[m])
    BY <1>3 DEF SaveNotification, SaveFails, Unborn
  <2> QED
    BY <1>1, <2>1, GrownDrifts, SameRowsSeen, InsertSeen
<1>4. CASE HandOn(m) \/ HandOnFails(m)
  <2>1. rows' = rows
    BY <1>4 DEF HandOn, HandOnFails
  <2>2. replay' = replay \/ (~kind[m].save /\ replay' = replay \union {id[m]})
    BY <1>4 DEF HandOn, HandOnFails, Keeps
  <2>3. ~kind[m].save => ~Known(id[m])
    BY <1>4 DEF HandOn, HandOnFails, Unborn
  <2> QED
    BY <1>1, <2>1, <2>2, <2>3, GrownDrifts, SameRowsSeen
<1> QED
  BY <1>2, <1>3, <1>4 DEF Call

LEMMA DeliverDrifts ==
    ASSUME Unborn, Deliver, NEW r \in Readers PROVE Drifted(r)
<1>1. UNCHANGED <<reads, since>> /\ rows' = rows
  BY DEF Deliver
<1>2. PICK j \in jobs : replay' = replay \/ (~j.save /\ replay' = replay \union {j.id})
  BY DEF Deliver, Keeps
<1>3. ~j.save => ~Known(j.id)
  BY DEF Unborn
<1> QED
  BY <1>1, <1>2, <1>3, GrownDrifts, SameRowsSeen

LEMMA MarkAllDrifts ==
    ASSUME TypeOK, NEW app \in Apps, NEW r \in Readers,
           MarkAllNotificationsViewed(app) \/ UNCHANGED inbox
    PROVE  Drifted(r)
<1>1. UNCHANGED <<reads, since, replay>> /\ (rows' = rows \/ Viewed(VisibleOf(app)))
  BY DEF MarkAllNotificationsViewed, inbox
<1>2. \A a : VisibleOf(a)' = VisibleOf(a)
  BY <1>1, SameRowsSeen, ViewedSeen
<1> QED
  BY <1>1, <1>2, GrownDrifts

LEMMA RetentionDrifts ==
    ASSUME TypeOK, DeleteExcessNotifications, NEW r \in Readers PROVE Drifted(r)
<1>1. /\ UNCHANGED <<client, reading, offset, page, seen, before, gone, replay>>
      /\ cut'[r] = (cut[r] \/ InTheMiddle(r))
  BY DEF DeleteExcessNotifications, reads
<1>2. VisibleOf(client[r].app)' \subseteq VisibleOf(client[r].app)
  <2>1. DOMAIN rows' \subseteq DOMAIN rows /\ \A i \in DOMAIN rows' : rows'[i] = rows[i]
    BY DEF DeleteExcessNotifications
  <2> QED
    BY <1>1, <2>1 DEF VisibleOf
<1>3. Everything(r)' \subseteq Everything(r)
  BY <1>1, <1>2 DEF Everything
<1> QED
  BY <1>1, <1>3 DEF Drifted, InTheMiddle

(* What a reader does leaves every list as it was, but for what it takes    *)
(* out of the replay buffer, which is noted for those in the middle.       *)
LEMMA ReadSeen ==
    ASSUME TypeOK, Unborn, NEW q \in Readers, Read(q), NEW r \in Readers
    PROVE  /\ client' = client /\ cut'[r] = cut[r]
           /\ VisibleOf(client[r].app)' = VisibleOf(client[r].app)
           /\ Everything(r)' \subseteq Everything(r) /\ gone[r] \subseteq gone'[r]
           /\ InTheMiddle(r) => Everything(r) \ Everything(r)' \subseteq gone'[r] \ gone[r]
           /\ ~RemoveListed(q) => Everything(r)' = Everything(r) /\ gone' = gone
<1>1. client' = client /\ cut' = cut
  BY DEF Read, Start, ListNotifications, MarkPage, MarkFails, ReadReplay,
         ListNotificationsForSop, RemoveListed, since
<1>2. rows' = rows \/ \E ids : Viewed(ids)
  BY DEF Read, Start, ListNotifications, MarkPage, MarkFails, ReadReplay,
         ListNotificationsForSop, RemoveListed
<1>3. \A app : VisibleOf(app)' = VisibleOf(app)
  BY <1>2, SameRowsSeen, ViewedSeen
<1>4. PICK app : app = client[r].app
  OBVIOUS
<1>5. /\ VisibleOf(client[r].app)' = VisibleOf(client[r].app)
      /\ Everything(r) = VisibleOf(app) \union IF client[r].sop THEN replay ELSE {}
      /\ Everything(r)' = VisibleOf(app) \union IF client[r].sop THEN replay' ELSE {}
  BY <1>1, <1>3, <1>4 DEF Everything
<1>6. CASE RemoveListed(q)
  <2>1. /\ replay' \subseteq replay
        /\ gone'[r] = gone[r] \union IF InTheMiddle(r) THEN replay \ replay' ELSE {}
    BY <1>6 DEF RemoveListed
  <2>2. gone[r] \intersect replay = {}
    BY DEF Unborn
  <2>3. Everything(r)' \subseteq Everything(r) /\ Everything(r) \ Everything(r)' \subseteq replay \ replay'
    BY <1>5, <2>1
  <2> QED
    BY <1>1, <1>5, <1>6, <2>1, <2>2, <2>3
<1>7. CASE ~RemoveListed(q)
  <2>1. replay' = replay /\ gone' = gone
    BY <1>7 DEF Read, Start, ListNotifications, MarkPage, MarkFails, ReadReplay,
                ListNotificationsForSop, since
  <2>2. Everything(r)' = Everything(r)
    BY <1>5, <2>1
  <2> QED
    BY <1>1, <1>5, <2>1, <2>2
<1> QED
  BY <1>6, <1>7

LEMMA ReadDrifts ==
    ASSUME TypeOK, Unborn, NEW q \in Readers, Read(q), NEW r \in Readers \ {q}
    PROVE  Drifted(r)
<1>1. /\ reading'[r] = reading[r] /\ offset'[r] = offset[r]
      /\ page'[r] = page[r] /\ seen'[r] = seen[r] /\ before'[r] = before[r]
  <2>1. /\ reading \in [Readers -> Steps] /\ offset \in [Readers -> Nat]
        /\ page \in [Readers -> SUBSET Ids] /\ seen \in [Readers -> SUBSET Ids]
        /\ before \in [Readers -> SUBSET Ids]
    BY TypeParts DEF ReadTypes
  <2>2. CASE Start(q) \/ ListNotifications(q) \/ MarkFails(q) \/ ReadReplay(q)
             \/ ListNotificationsForSop(q)
    BY <2>1, <2>2 DEF Start, ListNotifications, MarkFails, ReadReplay, ListNotificationsForSop
  <2>3. CASE MarkPage(q) \/ RemoveListed(q)
    BY <2>1, <2>3 DEF MarkPage, RemoveListed, Answer
  <2> QED
    BY <2>2, <2>3 DEF Read
<1> QED
  BY <1>1, ReadSeen DEF Drifted, InTheMiddle

LEMMA StartInStep ==
    ASSUME TypeOK, TypeOK', Unborn, NEW r \in Readers, InStep(r), Start(r) PROVE InStep(r)'
<1>1. /\ reading'[r] = "next" /\ before'[r] = Everything(r) /\ offset'[r] = 0
      /\ seen'[r] = seen[r]
  BY TypeParts DEF Start, ReadTypes, InStep
<1>2. Everything(r)' = Everything(r)
  BY ReadSeen DEF Read, Start, RemoveListed
<1>3. Everything(r) \subseteq AllIds /\ gone'[r] \subseteq AllIds
  BY ReadersBounded DEF Bounded
<1>4. Short(before'[r], Everything(r)', Everything(r)', offset'[r], seen'[r], gone'[r])
  BY <1>1, <1>2, <1>3, NothingShort
<1> QED
  BY <1>1, <1>4 DEF InStep

LEMMA ListInStep ==
    ASSUME TypeOK, TypeOK', Unborn, NEW r \in Readers, InStep(r), ListNotifications(r)
    PROVE  InStep(r)'
<1> DEFINE E == Everything(r)
           p == Slice(E, offset[r], Take)
<1>1. reading[r] = "next" /\ ~client[r].sop /\ client' = client
  BY DEF ListNotifications
<1>2. E = VisibleOf(client[r].app)
  BY <1>1 DEF Everything
<1>3. /\ reading'[r] = "mark" /\ page'[r] = p
      /\ before'[r] = before[r] /\ offset'[r] = offset[r] /\ seen'[r] = seen[r]
  BY <1>2, TypeParts DEF ListNotifications, ReadTypes
<1>4. Everything(r)' = E /\ gone' = gone /\ cut'[r] = cut[r]
  BY <1>1, ReadSeen DEF Read, RemoveListed
<1>5. E \subseteq AllIds /\ gone[r] \subseteq AllIds /\ offset[r] \in Nat
  BY ReadersBounded DEF Bounded
<1>6. ~cut[r] => Short(before[r], E, E, offset[r], seen[r], gone[r])
  BY <1>1 DEF InStep
<1> HIDE DEF E
<1>7. ~cut[r] => Answerable(before[r], E, offset[r], seen[r], p, gone[r])
  BY <1>5, <1>6, ShortPage
<1> QED
  BY <1>1, <1>3, <1>4, <1>6, <1>7 DEF InStep

LEMMA MarkFailsInStep ==
    ASSUME TypeOK, TypeOK', Unborn, NEW r \in Readers, InStep(r), MarkFails(r)
    PROVE  InStep(r)'
<1>1. /\ reading[r] = "mark" /\ reading'[r] = "next"
      /\ before'[r] = before[r] /\ offset'[r] = offset[r] /\ seen'[r] = seen[r]
  BY TypeParts DEF MarkFails, ReadTypes
<1>2. Everything(r)' = Everything(r) /\ gone' = gone /\ cut'[r] = cut[r]
  BY <1>1, ReadSeen DEF Read, RemoveListed
<1>3. ~cut[r] => Short(before[r], Everything(r), Everything(r), offset[r], seen[r], gone[r])
  BY <1>1 DEF InStep
<1> QED
  BY <1>1, <1>2, <1>3 DEF InStep

LEMMA ReplayInStep ==
    ASSUME TypeOK, TypeOK', Unborn, NEW r \in Readers, InStep(r), ReadReplay(r)
    PROVE  InStep(r)'
<1>1. /\ reading[r] = "next" /\ client[r].sop /\ reading'[r] = "query" /\ page'[r] = replay
      /\ before'[r] = before[r] /\ offset'[r] = offset[r] /\ seen'[r] = seen[r]
  BY TypeParts DEF ReadReplay, ReadTypes
<1>2. /\ Everything(r)' = Everything(r) /\ gone' = gone /\ cut'[r] = cut[r]
      /\ client' = client
      /\ VisibleOf(client[r].app)' = VisibleOf(client[r].app)
  BY <1>1, ReadSeen DEF Read, RemoveListed
<1>3. Everything(r) = VisibleOf(client[r].app) \union replay
  BY <1>1 DEF Everything
<1>4. ~cut[r] => Short(before[r], Everything(r), Everything(r), offset[r], seen[r], gone[r])
  BY <1>1 DEF InStep
<1> QED
  BY <1>1, <1>2, <1>3, <1>4 DEF InStep

LEMMA MergeInStep ==
    ASSUME TypeOK, TypeOK', Unborn, NEW r \in Readers, InStep(r), ListNotificationsForSop(r)
    PROVE  InStep(r)'
<1> DEFINE V == VisibleOf(client[r].app)  P == page[r]  o == offset[r]
           c == o + Take + Cardinality(P)
           p == Slice(P \union Slice(V, 0, c), o, Take)
<1>1. /\ reading[r] = "query" /\ client[r].sop /\ client' = client
      /\ reading'[r] = "remove" /\ page'[r] = p
      /\ before'[r] = before[r] /\ offset'[r] = o /\ seen'[r] = seen[r]
  <2>1. client[r].sop
    BY DEF ListNotificationsForSop, InStep
  <2> QED
    BY <2>1, TypeParts DEF ListNotificationsForSop, MergedPage, ReadTypes
<1>2. Everything(r)' = Everything(r) /\ gone' = gone /\ cut'[r] = cut[r]
  BY <1>1, ReadSeen DEF Read, RemoveListed
<1>3. /\ V \subseteq AllIds /\ P \subseteq AllIds /\ V \union P \subseteq AllIds /\ o \in Nat
      /\ Everything(r) \subseteq AllIds /\ gone[r] \subseteq AllIds
  BY ReadersBounded DEF Bounded
<1>4. ~cut[r] => Short(before[r], V \union P, Everything(r), o, seen[r], gone[r])
  BY <1>1 DEF InStep
<1>5. c \in Nat /\ c >= o + Take
  <2>1. Cardinality(P) \in Nat /\ Take \in Nat
    BY <1>3, IdsAreFinite, InboxConstants
  <2> HIDE DEF P, o
  <2> QED
    BY <1>3, <2>1
<1> HIDE DEF V, P, o, c
<1>6. Slice(V \union P, o, Take) \subseteq p
  <2>1. V \union P = P \union V
    OBVIOUS
  <2>2. IsFiniteSet(V) /\ V \subseteq Int /\ IsFiniteSet(P) /\ P \subseteq Int
    BY <1>3, IdsAreFinite
  <2> QED
    BY <1>3, <1>5, <2>1, <2>2, MergeTakesEnough
<1>7. ~cut[r] => Answerable(before[r], Everything(r), o, seen[r], p, gone[r])
  BY <1>3, <1>4, <1>6, ShortPage
<1> QED
  BY <1>1, <1>2, <1>7 DEF InStep

LEMMA AnswerInStep ==
    ASSUME TypeOK, TypeOK', Unborn, NEW r \in Readers, InStep(r), MarkPage(r) \/ RemoveListed(r)
    PROVE  InStep(r)'
<1> DEFINE B == before[r]  E == Everything(r)  F == Everything(r)'  G == gone[r]  H == gone'[r]
           o == offset[r]  S == seen[r]  p == page[r]
<1>1. /\ reading[r] \in {"mark", "remove"} /\ before'[r] = B
      /\ reading'[r] = (IF p = {} THEN "end" ELSE "next")
      /\ offset'[r] = o + Take /\ seen'[r] = S \union p
  BY TypeParts DEF MarkPage, RemoveListed, Answer, ReadTypes
<1>2. /\ cut'[r] = cut[r] /\ F \subseteq E /\ G \subseteq H /\ E \ F \subseteq H \ G
  <2>1. InTheMiddle(r)
    BY <1>1 DEF InTheMiddle
  <2> QED
    BY <2>1, ReadSeen DEF Read
<1>3. /\ B \subseteq AllIds /\ E \subseteq AllIds /\ F \subseteq AllIds /\ G \subseteq AllIds
      /\ H \subseteq AllIds /\ o \in Nat
  BY ReadersBounded DEF Bounded
<1>4. ~cut[r] => Answerable(B, E, o, S, p, G)
  BY <1>1 DEF InStep
<1>5. Missed(r)' = (B \intersect F) \ (S \union p)
  BY <1>1 DEF Missed
<1> HIDE DEF B, E, F, G, H, o, S, p
<1>6. ASSUME ~cut[r]
      PROVE  /\ Short(B, F, F, o + Take, S \union p, H)
             /\ p = {} => Cardinality((B \intersect F) \ (S \union p)) <= Cardinality(H)
  <2>1. Answerable(B, F, o, S, p, H)
    BY <1>2, <1>3, <1>4, <1>6, AnswerableDrift
  <2> QED
    BY <1>3, <2>1, Answered
<1> QED
  BY <1>1, <1>2, <1>5, <1>6 DEF InStep, F, H, B

LEMMA InitPages == Init => PagesInv
<1> SUFFICES ASSUME Init PROVE PagesInv
  OBVIOUS
<1>1. \A r \in Readers : reading[r] = "new" /\ offset[r] = 0
  BY DEF Init
<1> QED
  BY <1>1, InitUnborn DEF PagesInv, InStep

LEMMA NextPages == Typed /\ CallInv /\ PagesInv /\ [Next]_vars => PagesInv'
<1> SUFFICES ASSUME Typed, CallInv, PagesInv, [Next]_vars PROVE PagesInv'
  OBVIOUS
<1>1. Unborn' /\ Unborn /\ TypeOK /\ TypeOK'
  BY NextUnborn, NextTyped DEF PagesInv, Typed
<1>2. SUFFICES ASSUME NEW r \in Readers PROVE InStep(r)'
  BY <1>1 DEF PagesInv
<1>3. InStep(r)
  BY DEF PagesInv
<1>4. ASSUME Read(r) PROVE InStep(r)'
  BY <1>1, <1>3, <1>4, StartInStep, ListInStep, MarkFailsInStep, ReplayInStep, MergeInStep,
     AnswerInStep DEF Read
<1>5. ASSUME ~Read(r) PROVE Drifted(r)
  <2>1. CASE \E q \in Readers : Read(q)
    BY <1>1, <1>5, <2>1, ReadDrifts
  <2>2. CASE UNCHANGED inbox \/ \E app \in Apps : MarkAllNotificationsViewed(app)
    BY <1>1, <2>2, MarkAllDrifts DEF Apps
  <2> QED
    BY <1>1, <2>1, <2>2, CallDrifts, DeliverDrifts, RetentionDrifts DEF Next, vars
<1> QED
  BY <1>1, <1>3, <1>4, <1>5, DriftKeeps

(* A client that read the list to its end was shown every notification that *)
(* was there when it began and still is, but for as many as were taken out  *)
(* of the replay buffer under it, unless retention deleted rows: for lists, *)
(* pages and numbers of clients of any size.                               *)
THEOREM PagesAreCovered == Spec => []PagesCover
<1>1. Spec => []PagesInv
  <2>1. Spec => [](Typed /\ CallInv)
    BY Invariant, PTL DEF Inv
  <2> QED
    BY <2>1, InitPages, NextPages, PTL DEF Spec
<1>2. PagesInv => PagesCover
  BY DEF PagesInv, InStep, PagesCover
<1> QED
  BY <1>1, <1>2, PTL
=============================================================================

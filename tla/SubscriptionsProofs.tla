------------------------ MODULE SubscriptionsProofs ------------------------
(* What holds of the subscription rows for any slots, tokens, numbers of   *)
(* overlapping registrations and pushes, failures and crashes, proved with *)
(* TLAPS.                                                                  *)
EXTENDS Subscriptions, FiniteSetTheorems, TLAPS

----------------------------------------------------------------------------
(* The structure the properties rest on.                                   *)

\* A registration in flight has a slot and a token, and past the search an id
\* that was handed out.
Busy ==
    \A r \in Requests :
        /\ pc[r] = "idle" <=> slot[r] = None
        /\ pc[r] # "idle" => slot[r] \in Slots /\ token[r] \in Tokens
        /\ pc[r] \in {"update", "insert"} => target[r] \in 1..lastId

\* Every id in use was handed out.
Known ==
    /\ DOMAIN rows \subseteq 1..lastId
    /\ buffer \cup working \subseteq 1..lastId
    /\ \A p \in Pushes : push[p].id \in 0..lastId

\* The id of a row about to be inserted is in use nowhere else.
Fresh ==
    \A r \in Requests : pc[r] = "insert" =>
        /\ target[r] \notin DOMAIN rows \cup buffer \cup working
        /\ \A p \in Pushes : push[p].id # target[r]
        /\ \A q \in Requests : pc[q] \in {"update", "insert"} /\ q # r => target[q] # target[r]

\* A row found for a slot stays of that slot until it is deleted.
Found ==
    \A r \in Requests :
        pc[r] = "update" /\ target[r] \in DOMAIN rows => rows[target[r]].slot = slot[r]

Structure == TypeOK /\ Busy /\ Known /\ Fresh /\ Found

LEMMA StructureInit == Init => Structure
<1> SUFFICES ASSUME Init PROVE Structure
  OBVIOUS
<1>1. TypeOK
  BY SubscriptionConstants DEF Init, TypeOK, PushType, NoPush, Ids
<1>2. Busy /\ Known /\ Fresh /\ Found
  BY SubscriptionConstants DEF Init, Busy, Known, Fresh, Found, NoPush
<1> QED
  BY <1>1, <1>2 DEF Structure

----------------------------------------------------------------------------
LEMMA StructureRegister ==
    ASSUME Structure, NEW r \in Requests, NEW s \in Slots, NEW t \in Tokens, Register(r, s, t)
    PROVE  Structure'
<1>1. TypeOK'
  BY DEF Structure, TypeOK, Register, queue, history, Registering
<1>2. Busy' /\ Known' /\ Fresh' /\ Found'
  BY SubscriptionConstants
     DEF Structure, TypeOK, Busy, Known, Fresh, Found, Register, queue, history
<1> QED
  BY <1>1, <1>2 DEF Structure

LEMMA StructureDeactivate ==
    ASSUME Structure, NEW r \in Requests, DeactivateSubscriptions(r)
    PROVE  Structure'
<1>1. DOMAIN rows' = DOMAIN rows /\ \A i \in DOMAIN rows : rows'[i].slot = rows[i].slot
  BY DEF Structure, TypeOK, RowType, DeactivateSubscriptions
<1>2. rows' \in [DOMAIN rows -> RowType]
  <2>1. \A i \in DOMAIN rows :
          rows[i] \in RowType /\ [rows[i] EXCEPT !.active = FALSE] \in RowType
    BY DEF Structure, TypeOK, RowType
  <2> QED
    BY <2>1 DEF DeactivateSubscriptions
<1>3. TypeOK'
  BY <1>1, <1>2 DEF Structure, TypeOK, DeactivateSubscriptions, queue, history
<1>4. Busy' /\ Known' /\ Fresh' /\ Found'
  BY <1>1 DEF Structure, TypeOK, Busy, Known, Fresh, Found, DeactivateSubscriptions, queue, history
<1> QED
  BY <1>3, <1>4 DEF Structure

LEMMA StructureFind ==
    ASSUME Structure, NEW r \in Requests, GetExistingSubscription(r)
    PROVE  Structure'
<1>1. CASE pc' = [pc EXCEPT ![r] = "update"]
  <2>1. PICK i \in RowsOf(slot[r]) : target' = [target EXCEPT ![r] = i] /\ lastId' = lastId
    BY <1>1 DEF GetExistingSubscription, Structure, TypeOK
  <2>2. i \in DOMAIN rows /\ rows[i].slot = slot[r] /\ i \in 1..lastId /\ i \in 1..MaxRows
    BY <2>1 DEF RowsOf, Structure, Known, TypeOK, Ids
  <2>3. TypeOK'
    BY <1>1, <2>1, <2>2 DEF Structure, TypeOK, GetExistingSubscription, queue, history
  <2>4. Busy' /\ Known' /\ Found'
    BY <1>1, <2>1, <2>2
       DEF Structure, TypeOK, Busy, Known, Found, GetExistingSubscription, queue, history
  <2>5. Fresh'
    BY <1>1, <2>1, <2>2 DEF Structure, TypeOK, Fresh, GetExistingSubscription, queue, history
  <2> QED
    BY <2>3, <2>4, <2>5 DEF Structure
<1>2. CASE pc' = [pc EXCEPT ![r] = "insert"]
  <2>1. /\ lastId' = lastId + 1 /\ lastId' \in 0..MaxRows /\ lastId \in 0..MaxRows
        /\ target' = [target EXCEPT ![r] = lastId + 1]
    BY <1>2, SubscriptionConstants DEF GetExistingSubscription, Structure, TypeOK
  <2>2. TypeOK'
    BY <1>2, <2>1, SubscriptionConstants
       DEF Structure, TypeOK, GetExistingSubscription, queue, history
  <2>3. Busy' /\ Known' /\ Found'
    BY <1>2, <2>1, SubscriptionConstants
       DEF Structure, TypeOK, Busy, Known, Found, GetExistingSubscription, queue, history
  <2>4. Fresh'
    BY <1>2, <2>1, SubscriptionConstants
       DEF Structure, TypeOK, Busy, Known, Fresh, GetExistingSubscription, queue, history
  <2> QED
    BY <2>2, <2>3, <2>4 DEF Structure
<1> QED
  BY <1>1, <1>2 DEF GetExistingSubscription

LEMMA RowTyped ==
    ASSUME Structure, NEW r \in Requests, pc[r] # "idle"
    PROVE  Row(r) \in RowType /\ Row(r).slot = slot[r] /\ Row(r).token = token[r] /\ Row(r).active
BY DEF Structure, Busy, Row, RowType

LEMMA ReleaseTyped ==
    ASSUME Structure, NEW ended \in SUBSET Requests, Release(ended), lastId' = lastId
    PROVE  /\ pc' \in [Requests -> {"idle", "deactivate", "find", "update", "insert"}]
           /\ slot' \in [Requests -> Slots \cup {None}]
           /\ token' \in [Requests -> Tokens \cup {None}]
           /\ target' \in [Requests -> 0..MaxRows]
           /\ alone' \in [Requests -> BOOLEAN]
           /\ Busy'
           /\ \A r \in Requests : pc'[r] # "idle" =>
                 pc'[r] = pc[r] /\ slot'[r] = slot[r] /\ token'[r] = token[r] /\ target'[r] = target[r]
           /\ \A r \in ended : pc'[r] = "idle"
BY SubscriptionConstants DEF Structure, TypeOK, Busy, Release

LEMMA StoreTyped ==
    ASSUME Structure, NEW r \in Requests, pc[r] # "idle", target[r] \in Ids, Store(r)
    PROVE  /\ promised' \in [Slots -> SUBSET Tokens]
           /\ broken' \in SUBSET Slots
           /\ held' \in [Ids -> SUBSET Tokens]
           /\ reported' \in SUBSET Ids
<1>1. slot[r] \in Slots /\ token[r] \in Tokens
  BY DEF Structure, Busy
<1>2. promised' \in [Slots -> SUBSET Tokens]
  BY <1>1 DEF Structure, TypeOK, Store
<1>3. held' \in [Ids -> SUBSET Tokens]
  BY <1>1 DEF Structure, TypeOK, Store
<1> QED
  BY <1>2, <1>3 DEF Structure, TypeOK, Store

LEMMA StructureUpdate ==
    ASSUME Structure, NEW r \in Requests, UpdateSubscription(r)
    PROVE  Structure'
<1>1. pc[r] = "update" /\ Release({r}) /\ lastId' = lastId
  BY DEF UpdateSubscription
<1>2. CASE target[r] \in DOMAIN rows
  <2>1. rows' = [rows EXCEPT ![target[r]] = Row(r)] /\ Store(r)
    BY <1>2 DEF UpdateSubscription
  <2>2. target[r] \in Ids /\ rows[target[r]].slot = slot[r]
    BY <1>1, <1>2 DEF Structure, TypeOK, Found
  <2>3. DOMAIN rows' = DOMAIN rows /\ \A i \in DOMAIN rows : rows'[i].slot = rows[i].slot
    BY <1>1, <2>1, <2>2, RowTyped
  <2>4. rows' \in [DOMAIN rows -> RowType]
    BY <1>1, <2>1, RowTyped DEF Structure, TypeOK
  <2>5. TypeOK'
    BY <1>1, <2>1, <2>2, <2>3, <2>4, ReleaseTyped, StoreTyped
       DEF Structure, TypeOK, UpdateSubscription, queue
  <2>6. Known' /\ Fresh' /\ Found'
    BY <1>1, <2>3, ReleaseTyped
       DEF Structure, Known, Fresh, Found, UpdateSubscription, queue
  <2> QED
    BY <1>1, <2>5, <2>6, ReleaseTyped DEF Structure
<1>3. CASE target[r] \notin DOMAIN rows
  <2>1. rows' = rows /\ UNCHANGED history
    BY <1>3 DEF UpdateSubscription
  <2>2. TypeOK'
    BY <1>1, <2>1, ReleaseTyped DEF Structure, TypeOK, UpdateSubscription, queue, history
  <2>3. Known' /\ Fresh' /\ Found'
    BY <1>1, <2>1, ReleaseTyped DEF Structure, Known, Fresh, Found, UpdateSubscription, queue
  <2> QED
    BY <1>1, <2>2, <2>3, ReleaseTyped DEF Structure
<1> QED
  BY <1>2, <1>3

LEMMA StructureInsert ==
    ASSUME Structure, NEW r \in Requests, InsertSubscription(r)
    PROVE  Structure'
<1>1. pc[r] = "insert" /\ Release({r}) /\ lastId' = lastId /\ Store(r)
  BY DEF InsertSubscription
<1>2. target[r] \in 1..lastId /\ lastId \in 0..MaxRows
  BY <1>1 DEF Structure, Busy, TypeOK
<1>3. target[r] \in Ids
  BY <1>2, SubscriptionConstants DEF Ids
<1>4. rows' = [i \in DOMAIN rows \cup {target[r]} |-> IF i = target[r] THEN Row(r) ELSE rows[i]]
  BY DEF InsertSubscription
<1>5. DOMAIN rows' = DOMAIN rows \cup {target[r]}
  BY <1>4
<1>6. rows' \in [DOMAIN rows' -> RowType]
  BY <1>1, <1>4, RowTyped DEF Structure, TypeOK
<1>7. \A i \in DOMAIN rows \ {target[r]} : rows'[i] = rows[i]
  BY <1>4
<1>8. TypeOK'
  BY <1>1, <1>3, <1>5, <1>6, ReleaseTyped, StoreTyped
     DEF Structure, TypeOK, InsertSubscription, queue
<1>9. Known'
  BY <1>1, <1>2, <1>5 DEF Structure, Known, InsertSubscription, queue
<1>10. \A q \in Requests : q # r /\ pc[q] \in {"update", "insert"} => target[q] # target[r]
  BY <1>1 DEF Structure, Fresh
<1>11. Fresh'
  BY <1>1, <1>5, <1>10, ReleaseTyped DEF Structure, Fresh, InsertSubscription, queue
<1>12. Found'
  BY <1>1, <1>5, <1>7, <1>10, ReleaseTyped DEF Structure, Found
<1> QED
  BY <1>1, <1>8, <1>9, <1>11, <1>12, ReleaseTyped DEF Structure

LEMMA Deleted ==
    ASSUME Structure, NEW ids \in SUBSET Ids, Delete(ids)
    PROVE  /\ DOMAIN rows' = DOMAIN rows \ ids
           /\ \A i \in DOMAIN rows' : rows'[i] = rows[i]
           /\ rows' \in [DOMAIN rows' -> RowType]
           /\ broken' \in SUBSET Slots
           /\ held' \in [Ids -> SUBSET Tokens]
           /\ reported' \in SUBSET Ids
           /\ promised' \in [Slots -> SUBSET Tokens]
<1>1. /\ DOMAIN rows' = DOMAIN rows \ ids
      /\ \A i \in DOMAIN rows' : rows'[i] = rows[i]
      /\ rows' \in [DOMAIN rows' -> RowType]
  BY DEF Structure, TypeOK, Delete
<1>2. \A i \in DOMAIN rows : rows[i].slot \in Slots
  BY DEF Structure, TypeOK, RowType
<1>3. broken' \in SUBSET Slots
  BY <1>2 DEF Structure, TypeOK, Delete
<1>4. /\ held' \in [Ids -> SUBSET Tokens]
      /\ reported' \in SUBSET Ids
      /\ promised' \in [Slots -> SUBSET Tokens]
  BY DEF Structure, TypeOK, Delete
<1> QED
  BY <1>1, <1>3, <1>4

LEMMA Unsubscribed ==
    ASSUME Structure, Unsubscribe
    PROVE  \E ids \in SUBSET Ids : ids # {} /\ ids \subseteq DOMAIN rows /\ Delete(ids)
<1>1. PICK ids \in {UNION {RowsOf(s) : s \in d} : d \in Devices} \cup {{i} : i \in DOMAIN rows} :
        ids # {} /\ Delete(ids)
  BY DEF Unsubscribe
<1>2. ids \subseteq DOMAIN rows
  BY <1>1 DEF RowsOf
<1> QED
  BY <1>1, <1>2 DEF Structure, TypeOK

LEMMA StructureUnsubscribe ==
    ASSUME Structure, Unsubscribe
    PROVE  Structure'
<1>1. PICK ids \in SUBSET Ids : Delete(ids)
  BY Unsubscribed
<1>2. TypeOK'
  BY <1>1, Deleted DEF Structure, TypeOK, Unsubscribe, registration, queue
<1>3. Busy' /\ Known' /\ Fresh' /\ Found'
  BY <1>1, Deleted
     DEF Structure, TypeOK, Busy, Known, Fresh, Found, Unsubscribe, registration, queue
<1> QED
  BY <1>2, <1>3 DEF Structure

LEMMA StructurePush ==
    ASSUME Structure, NEW p \in Pushes,
           ListActivatedSubscriptions(p) \/ SendPushNotification(p)
    PROVE  Structure'
<1>1. CASE ListActivatedSubscriptions(p)
  <2>1. PICK i \in DOMAIN rows : push' = [push EXCEPT ![p] = [id |-> i, token |-> rows[i].token]]
    BY <1>1 DEF ListActivatedSubscriptions
  <2>2. i \in Ids /\ i \in 1..lastId /\ rows[i].token \in Tokens
    BY <2>1 DEF Structure, TypeOK, Known, RowType
  <2>3. TypeOK'
    BY <1>1, <2>1, <2>2
       DEF Structure, TypeOK, PushType, ListActivatedSubscriptions, registration, queue, history
  <2>4. Busy' /\ Known' /\ Fresh' /\ Found'
    BY <1>1, <2>1, <2>2
       DEF Structure, TypeOK, Busy, Known, Fresh, Found,
           ListActivatedSubscriptions, registration, queue, history
  <2> QED
    BY <2>3, <2>4 DEF Structure
<1>2. CASE SendPushNotification(p)
  <2>1. push' = [push EXCEPT ![p] = NoPush]
    BY <1>2 DEF SendPushNotification
  <2>2. push[p].id \in Ids /\ push[p].id \in 1..lastId
    BY <1>2, SubscriptionConstants
       DEF SendPushNotification, Structure, TypeOK, PushType, Known, NoPush, Ids
  <2>3. buffer' \subseteq buffer \cup {push[p].id} /\ reported' \subseteq reported \cup {push[p].id}
    BY <1>2 DEF SendPushNotification
  <2>4. TypeOK'
    BY <1>2, <2>1, <2>2, <2>3 DEF Structure, TypeOK, PushType, SendPushNotification, registration
  <2>5. Known'
    BY <1>2, <2>1, <2>2, <2>3, SubscriptionConstants
       DEF Structure, TypeOK, Known, NoPush, SendPushNotification, registration
  <2>6. Fresh'
    BY <1>2, <2>1, <2>2, <2>3, SubscriptionConstants
       DEF Structure, TypeOK, Busy, Fresh, NoPush, SendPushNotification, registration
  <2>7. Busy' /\ Found'
    BY <1>2 DEF Structure, Busy, Found, SendPushNotification, registration
  <2> QED
    BY <2>4, <2>5, <2>6, <2>7 DEF Structure
<1> QED
  BY <1>1, <1>2

LEMMA StructureFlush ==
    ASSUME Structure, Drain \/ DeleteSubscriptionsByIds \/ DeleteFails
    PROVE  Structure'
<1>1. working \in SUBSET Ids
  BY DEF Structure, TypeOK
<1>2. CASE Drain
  <2>1. TypeOK'
    BY <1>2 DEF Structure, TypeOK, Drain, registration, history
  <2>2. Busy' /\ Known' /\ Fresh' /\ Found'
    BY <1>2 DEF Structure, Busy, Known, Fresh, Found, Drain, registration
  <2> QED
    BY <2>1, <2>2 DEF Structure
<1>3. CASE DeleteSubscriptionsByIds
  <2>1. TypeOK'
    BY <1>1, <1>3, Deleted DEF Structure, TypeOK, DeleteSubscriptionsByIds, registration
  <2>2. Busy' /\ Known' /\ Fresh' /\ Found'
    BY <1>1, <1>3, Deleted
       DEF Structure, Busy, Known, Fresh, Found, DeleteSubscriptionsByIds, registration
  <2> QED
    BY <2>1, <2>2 DEF Structure
<1>4. CASE DeleteFails
  <2>1. faults' \in 0..MaxFaults
    BY <1>4, SubscriptionConstants DEF Structure, TypeOK, DeleteFails
  <2>2. /\ DOMAIN rows' \subseteq DOMAIN rows
        /\ \A i \in DOMAIN rows' : rows'[i] = rows[i]
        /\ rows' \in [DOMAIN rows' -> RowType]
        /\ broken' \in SUBSET Slots
        /\ held' \in [Ids -> SUBSET Tokens]
        /\ reported' \in SUBSET Ids
        /\ promised' \in [Slots -> SUBSET Tokens]
    <3>1. CASE Delete(working)
      BY <1>1, <3>1, Deleted
    <3>2. CASE rows' = rows /\ UNCHANGED history
      BY <3>2 DEF history, Structure, TypeOK
    <3> QED
      BY <1>4, <3>1, <3>2 DEF DeleteFails
  <2>3. TypeOK'
    BY <1>4, <2>1, <2>2 DEF Structure, TypeOK, DeleteFails, registration
  <2>4. Busy' /\ Known' /\ Fresh' /\ Found'
    BY <1>4, <2>2 DEF Structure, Busy, Known, Fresh, Found, DeleteFails, registration
  <2> QED
    BY <2>3, <2>4 DEF Structure
<1> QED
  BY <1>2, <1>3, <1>4

LEMMA StructureFault ==
    ASSUME Structure, Crash \/ \E r \in Requests : Abort(r)
    PROVE  Structure'
<1>1. CASE Crash
  <2>1. Release(Requests) /\ lastId' = lastId /\ rows' = rows /\ push' = [p \in Pushes |-> NoPush]
    BY <1>1 DEF Crash
  <2>2. faults' \in 0..MaxFaults
    BY <1>1, SubscriptionConstants DEF Structure, TypeOK, Crash
  <2>3. TypeOK'
    BY <1>1, <2>1, <2>2, ReleaseTyped DEF Structure, TypeOK, PushType, Crash
  <2>4. Known' /\ Fresh' /\ Found'
    BY <1>1, <2>1, ReleaseTyped, SubscriptionConstants
       DEF Structure, TypeOK, Known, Fresh, Found, NoPush, Crash
  <2> QED
    BY <2>1, <2>3, <2>4, ReleaseTyped DEF Structure
<1>2. ASSUME NEW r \in Requests, Abort(r) PROVE Structure'
  <2>1. Release({r}) /\ lastId' = lastId /\ rows' = rows /\ push' = push
    BY <1>2 DEF Abort
  <2>2. faults' \in 0..MaxFaults
    BY <1>2, SubscriptionConstants DEF Structure, TypeOK, Abort
  <2>3. broken' \in SUBSET Slots
    BY <1>2 DEF Structure, TypeOK, Busy, Abort
  <2>4. TypeOK'
    BY <1>2, <2>1, <2>2, <2>3, ReleaseTyped DEF Structure, TypeOK, Abort, queue
  <2>5. Known' /\ Fresh' /\ Found'
    BY <1>2, <2>1, ReleaseTyped DEF Structure, Known, Fresh, Found, Abort, queue
  <2> QED
    BY <2>1, <2>4, <2>5, ReleaseTyped DEF Structure
<1> QED
  BY <1>1, <1>2

LEMMA StructureNext == Structure /\ [Next]_vars => Structure'
<1> SUFFICES ASSUME Structure, [Next]_vars PROVE Structure'
  OBVIOUS
<1>1. CASE UNCHANGED vars
  BY <1>1 DEF vars, registration, queue, history, Structure, TypeOK, Busy, Known, Fresh, Found
<1>2. ASSUME NEW t \in Tokens, Revoke(t) PROVE Structure'
  <2>1. TypeOK'
    BY <1>2 DEF Structure, TypeOK, Revoke, registration, queue, history
  <2> QED
    BY <1>2, <2>1 DEF Structure, Busy, Known, Fresh, Found, Revoke, registration, queue
<1> QED
  BY <1>1, <1>2, StructureRegister, StructureDeactivate, StructureFind, StructureUpdate,
     StructureInsert, StructureUnsubscribe, StructurePush, StructureFlush, StructureFault DEF Next

LEMMA StructureHolds == Spec => []Structure
BY StructureInit, StructureNext, PTL DEF Spec

\* Every variable keeps its type: no row without a token, no id that was not
\* handed out.
THEOREM SubscriptionsTyped == Spec => []TypeOK
BY StructureHolds, PTL DEF Structure

----------------------------------------------------------------------------
(* The removal buffer forgets nothing.                                     *)

LEMMA ForgottenNext == NothingForgotten /\ [Next]_vars => NothingForgotten'
<1> SUFFICES ASSUME NothingForgotten, [Next]_vars PROVE NothingForgotten'
  OBVIOUS
<1> USE DEF NothingForgotten
<1>1. CASE UNCHANGED vars
  BY <1>1 DEF vars, queue, history
<1>2. ASSUME NEW r \in Requests,
             \/ \E s \in Slots, t \in Tokens : Register(r, s, t)
             \/ DeactivateSubscriptions(r)
             \/ GetExistingSubscription(r)
             \/ UpdateSubscription(r)
             \/ InsertSubscription(r)
             \/ Abort(r)
      PROVE  NothingForgotten'
  BY <1>2 DEF Register, DeactivateSubscriptions, GetExistingSubscription, UpdateSubscription,
              InsertSubscription, Abort, Store, queue, history
<1>3. ASSUME NEW p \in Pushes, ListActivatedSubscriptions(p) \/ SendPushNotification(p)
      PROVE  NothingForgotten'
  BY <1>3 DEF ListActivatedSubscriptions, SendPushNotification, queue, history
<1>4. ASSUME NEW t \in Tokens, Revoke(t) PROVE NothingForgotten'
  BY <1>4 DEF Revoke, queue, history
<1>5. CASE Unsubscribe
  BY <1>5 DEF Unsubscribe, Delete, queue
<1>6. CASE Drain
  BY <1>6 DEF Drain, history
<1>7. CASE DeleteSubscriptionsByIds
  BY <1>7 DEF DeleteSubscriptionsByIds, Delete
<1>8. CASE DeleteFails
  BY <1>8 DEF DeleteFails, Delete, history
<1>9. CASE Crash
  BY <1>9 DEF Crash
<1> QED
  BY <1>1, <1>2, <1>3, <1>4, <1>5, <1>6, <1>7, <1>8, <1>9 DEF Next

\* A row whose token was reported invalid is deleted or still queued,
\* whatever reports, failing statements and other calls do meanwhile.
THEOREM NothingIsForgotten == Spec => []NothingForgotten
<1>1. Init => NothingForgotten
  BY DEF Init, NothingForgotten
<1> QED
  BY <1>1, ForgottenNext, PTL DEF Spec

----------------------------------------------------------------------------
(* Rows do not pile up.                                                    *)

RowBound(s) == Cardinality(RowsOf(s)) + Cardinality(Inserting(s)) <= Cardinality(Requests)

LEMMA FiniteSlot ==
    ASSUME TypeOK, NEW s \in Slots
    PROVE  /\ IsFiniteSet(RowsOf(s)) /\ Cardinality(RowsOf(s)) \in Nat
           /\ IsFiniteSet(Inserting(s)) /\ Cardinality(Inserting(s)) \in Nat
           /\ Cardinality(Inserting(s)) <= Cardinality(Requests)
           /\ Cardinality(Requests) \in Nat
<1>1. IsFiniteSet(Ids)
  BY FS_Interval, SubscriptionConstants DEF Ids
<1>2. RowsOf(s) \subseteq Ids
  BY DEF RowsOf, TypeOK
<1>3. Inserting(s) \subseteq Requests
  BY DEF Inserting, Registering
<1>4. IsFiniteSet(RowsOf(s))
  BY <1>1, <1>2, FS_Subset
<1>5. IsFiniteSet(Inserting(s)) /\ Cardinality(Inserting(s)) <= Cardinality(Requests)
  BY <1>3, FS_Subset, SubscriptionConstants
<1> QED
  BY <1>4, <1>5, FS_CardinalityType, SubscriptionConstants

LEMMA AddOne ==
    ASSUME NEW S, IsFiniteSet(S), NEW x
    PROVE  /\ IsFiniteSet(S \cup {x})
           /\ Cardinality(S \cup {x}) \in Nat
           /\ Cardinality(S \cup {x}) <= Cardinality(S) + 1
<1>1. IsFiniteSet(S \cup {x}) /\ Cardinality(S) \in Nat
  BY FS_AddElement, FS_CardinalityType
<1>2. CASE x \in S
  <2>1. S \cup {x} = S
    BY <1>2
  <2> QED
    BY <1>1, <2>1
<1>3. CASE x \notin S
  BY <1>1, <1>3, FS_AddElement
<1> QED
  BY <1>2, <1>3

\* The bound survives whatever adds no row and no insertion to the slot.
LEMMA BoundShrinks ==
    ASSUME TypeOK, TypeOK', NEW s \in Slots, RowBound(s),
           RowsOf(s)' \subseteq RowsOf(s), Inserting(s)' \subseteq Inserting(s)
    PROVE  RowBound(s)'
<1>1. /\ Cardinality(RowsOf(s)') <= Cardinality(RowsOf(s)) /\ Cardinality(RowsOf(s)') \in Nat
      /\ Cardinality(Inserting(s)') <= Cardinality(Inserting(s))
      /\ Cardinality(Inserting(s)') \in Nat
  BY FiniteSlot, FS_Subset, FS_CardinalityType
<1> QED
  BY <1>1, FiniteSlot DEF RowBound

\* A registration that finds no row is the only way to a new one.
LEMMA BoundOnFind ==
    ASSUME Structure, Structure', NEW s \in Slots, RowBound(s),
           NEW r \in Requests, GetExistingSubscription(r)
    PROVE  RowBound(s)'
<1>1. TypeOK /\ TypeOK' /\ rows' = rows /\ slot' = slot
  BY DEF Structure, GetExistingSubscription
<1>2. RowsOf(s)' = RowsOf(s)
  BY <1>1 DEF RowsOf
<1>3. CASE pc' = [pc EXCEPT ![r] = "insert"] /\ slot[r] = s
  <2>1. RowsOf(s) = {}
    <3>1. pc'[r] # "update"
      BY <1>1, <1>3 DEF TypeOK
    <3> QED
      BY <1>1, <1>3, <3>1 DEF GetExistingSubscription, TypeOK
  <2>2. Cardinality(RowsOf(s)') = 0
    BY <1>2, <2>1, FS_EmptySet
  <2>3. /\ Cardinality(Inserting(s)') <= Cardinality(Requests)
        /\ Cardinality(Inserting(s)') \in Nat /\ Cardinality(Requests) \in Nat
    <3>1. Inserting(s)' \subseteq Requests
      BY DEF Inserting, Registering
    <3> QED
      BY <3>1, FS_Subset, FS_CardinalityType, SubscriptionConstants
  <2> QED
    BY <2>2, <2>3 DEF RowBound
<1>4. CASE ~(pc' = [pc EXCEPT ![r] = "insert"] /\ slot[r] = s)
  <2>1. Inserting(s)' \subseteq Inserting(s)
    BY <1>1, <1>4 DEF Inserting, Registering, GetExistingSubscription, TypeOK
  <2> QED
    BY <1>1, <1>2, <1>4, <2>1, BoundShrinks
<1> QED
  BY <1>3, <1>4

\* The row an insertion adds was counted while the insertion was pending.
LEMMA BoundOnInsert ==
    ASSUME Structure, Structure', NEW s \in Slots, RowBound(s),
           NEW r \in Requests, InsertSubscription(r)
    PROVE  RowBound(s)'
<1>1. TypeOK /\ TypeOK' /\ pc[r] = "insert" /\ slot[r] \in Slots
  BY DEF Structure, Busy, InsertSubscription
<1>2. RowsOf(s)' \subseteq RowsOf(s) \cup {target[r]}
  BY DEF RowsOf, InsertSubscription
<1>3. slot[r] # s => RowsOf(s)' \subseteq RowsOf(s)
  BY DEF RowsOf, InsertSubscription, Row
<1>4. Inserting(s)' \subseteq Inserting(s) \ {r}
  BY DEF Inserting, Registering, InsertSubscription, Release, Structure, Busy
<1>5. CASE slot[r] = s
  <2>1. r \in Inserting(s)
    BY <1>1, <1>5 DEF Inserting, Registering
  <2>2. Cardinality(Inserting(s) \ {r}) = Cardinality(Inserting(s)) - 1
        /\ IsFiniteSet(Inserting(s) \ {r})
    BY <1>1, <2>1, FiniteSlot, FS_RemoveElement
  <2>3. /\ Cardinality(Inserting(s)') <= Cardinality(Inserting(s)) - 1
        /\ Cardinality(Inserting(s)') \in Nat
    BY <1>4, <2>2, FS_Subset, FS_CardinalityType
  <2>4. /\ Cardinality(RowsOf(s) \cup {target[r]}) <= Cardinality(RowsOf(s)) + 1
        /\ Cardinality(RowsOf(s) \cup {target[r]}) \in Nat
        /\ IsFiniteSet(RowsOf(s) \cup {target[r]})
    BY <1>1, FiniteSlot, AddOne
  <2>5. /\ Cardinality(RowsOf(s)') <= Cardinality(RowsOf(s)) + 1
        /\ Cardinality(RowsOf(s)') \in Nat
    BY <1>1, <1>2, <2>4, FiniteSlot, FS_Subset, FS_CardinalityType
  <2> QED
    BY <1>1, <2>3, <2>5, FiniteSlot DEF RowBound
<1>6. CASE slot[r] # s
  BY <1>1, <1>3, <1>4, <1>6, BoundShrinks
<1> QED
  BY <1>5, <1>6

LEMMA BoundedNext == Structure /\ Structure' /\ BoundedRows /\ [Next]_vars => BoundedRows'
<1> SUFFICES ASSUME Structure, Structure', [Next]_vars,
                    NEW s \in Slots, RowBound(s)
             PROVE  RowBound(s)'
  BY DEF BoundedRows, RowBound
<1>1. TypeOK /\ TypeOK'
  BY DEF Structure
<1>2. ASSUME UNCHANGED <<pc, slot>>,
             DOMAIN rows' \subseteq DOMAIN rows,
             \A i \in DOMAIN rows' : rows'[i].slot = rows[i].slot
      PROVE  RowBound(s)'
  <2>1. RowsOf(s)' \subseteq RowsOf(s) /\ Inserting(s)' \subseteq Inserting(s)
    BY <1>2 DEF RowsOf, Inserting, Registering
  <2> QED
    BY <1>1, <2>1, BoundShrinks
<1>3. ASSUME NEW r \in Requests, NEW z \in Slots, NEW t \in Tokens, Register(r, z, t)
      PROVE  RowBound(s)'
  <2>1. RowsOf(s)' \subseteq RowsOf(s)
    BY <1>3 DEF RowsOf, Register
  <2>2. Inserting(s)' \subseteq Inserting(s)
    BY <1>1, <1>3 DEF Inserting, Registering, Register, TypeOK
  <2> QED
    BY <1>1, <2>1, <2>2, BoundShrinks
<1>4. ASSUME NEW r \in Requests, DeactivateSubscriptions(r)
      PROVE  RowBound(s)'
  <2>1. RowsOf(s)' \subseteq RowsOf(s)
    BY <1>1, <1>4 DEF RowsOf, DeactivateSubscriptions, TypeOK, RowType
  <2>2. Inserting(s)' \subseteq Inserting(s)
    BY <1>1, <1>4 DEF Inserting, Registering, DeactivateSubscriptions, TypeOK
  <2> QED
    BY <1>1, <2>1, <2>2, BoundShrinks
<1>5. ASSUME NEW ended \in SUBSET Requests, Release(ended),
             DOMAIN rows' \subseteq DOMAIN rows,
             \A i \in DOMAIN rows' : rows'[i].slot = rows[i].slot
      PROVE  RowBound(s)'
  <2>1. RowsOf(s)' \subseteq RowsOf(s)
    BY <1>5 DEF RowsOf
  <2>2. Inserting(s)' \subseteq Inserting(s)
    BY <1>5 DEF Inserting, Registering, Release
  <2> QED
    BY <1>1, <2>1, <2>2, BoundShrinks
<1>6. ASSUME NEW r \in Requests, UpdateSubscription(r)
      PROVE  RowBound(s)'
  <2>1. Release({r}) /\ pc[r] = "update"
    BY <1>6 DEF UpdateSubscription
  <2>2. CASE target[r] \in DOMAIN rows
    <3>1. rows' = [rows EXCEPT ![target[r]] = Row(r)] /\ rows[target[r]].slot = slot[r]
      BY <1>6, <2>1, <2>2 DEF UpdateSubscription, Structure, Found
    <3> QED
      BY <1>5, <2>1, <3>1, RowTyped
  <2>3. CASE target[r] \notin DOMAIN rows
    BY <1>5, <1>6, <2>1, <2>3 DEF UpdateSubscription
  <2> QED
    BY <2>2, <2>3
<1>7. ASSUME NEW ids \in SUBSET Ids, Delete(ids), UNCHANGED <<pc, slot>>
      PROVE  RowBound(s)'
  BY <1>2, <1>7, Deleted
<1>8. CASE DeleteFails
  <2>1. working \in SUBSET Ids
    BY <1>1 DEF TypeOK
  <2> QED
    BY <1>2, <1>7, <1>8, <2>1 DEF DeleteFails, registration
<1>9. CASE DeleteSubscriptionsByIds
  <2>1. working \in SUBSET Ids
    BY <1>1 DEF TypeOK
  <2> QED
    BY <1>7, <1>9, <2>1 DEF DeleteSubscriptionsByIds, registration
<1>10. CASE Unsubscribe
  BY <1>7, <1>10, Unsubscribed DEF Unsubscribe, registration
<1>11. CASE Crash \/ \E r \in Requests : Abort(r)
  BY <1>5, <1>11 DEF Crash, Abort
<1>12. CASE \/ \E p \in Pushes : ListActivatedSubscriptions(p) \/ SendPushNotification(p)
            \/ \E t \in Tokens : Revoke(t)
            \/ Drain
            \/ UNCHANGED vars
  BY <1>2, <1>12
     DEF ListActivatedSubscriptions, SendPushNotification, Revoke, Drain, vars, registration
<1> QED
  BY <1>3, <1>4, <1>6, <1>8, <1>9, <1>10, <1>11, <1>12, BoundOnFind, BoundOnInsert DEF Next

\* A slot never has more rows than registrations can overlap: one row when
\* they do not, however often it is registered, removed, cut short.
THEOREM RowsAreBounded == Spec => []BoundedRows
<1>1. Init => BoundedRows
  <2> SUFFICES ASSUME Init, NEW s \in Slots PROVE RowBound(s)
    BY DEF BoundedRows, RowBound
  <2>1. RowsOf(s) = {} /\ Inserting(s) = {}
    <3>1. DOMAIN rows = {} /\ \A r \in Requests : pc[r] # "insert"
      BY DEF Init
    <3> QED
      BY <3>1 DEF RowsOf, Inserting, Registering
  <2>2. Cardinality(RowsOf(s)) = 0 /\ Cardinality(Inserting(s)) = 0
    BY <2>1, FS_EmptySet
  <2>3. Cardinality(Requests) \in Nat
    BY FS_CardinalityType, SubscriptionConstants
  <2> QED
    BY <2>2, <2>3 DEF RowBound
<1> QED
  BY <1>1, BoundedNext, StructureHolds, PTL DEF Spec

----------------------------------------------------------------------------
(* The tokens a slot is reached under.                                     *)

\* A registration that met no other has the slot to itself, and once it
\* deactivated the slot's rows none is active until it stores its own.
Solitary ==
    \A r \in Requests : alone[r] =>
        /\ slot[r] # None
        /\ \A q \in Requests : slot[q] = slot[r] => q = r
        /\ pc[r] \in {"find", "update", "insert"} => Active(slot[r]) = {}

Latest == Solitary /\ LatestTokenOnly

\* What neither registers nor stores a token, nor activates a row.
LEMMA LatestKept ==
    ASSUME Structure, Latest, UNCHANGED <<pc, slot, alone, promised>>,
           DOMAIN rows' \subseteq DOMAIN rows,
           \A i \in DOMAIN rows' : rows'[i] = rows[i]
    PROVE  Latest'
BY DEF Latest, Solitary, LatestTokenOnly, Active, RowsOf

LEMMA LatestRegister ==
    ASSUME Structure, Latest, NEW r \in Requests, NEW s \in Slots, NEW t \in Tokens,
           Register(r, s, t)
    PROVE  Latest'
<1>1. \A q \in Slots : Active(q)' = Active(q)
  BY DEF Register, Active, RowsOf
<1>2. LatestTokenOnly'
  BY <1>1 DEF Latest, LatestTokenOnly, Register, history
<1>3. Solitary'
  BY SubscriptionConstants
     DEF Structure, TypeOK, Busy, Latest, Solitary, Register, Registering, Active, RowsOf
<1> QED
  BY <1>2, <1>3 DEF Latest

LEMMA LatestDeactivate ==
    ASSUME Structure, Latest, NEW r \in Requests, DeactivateSubscriptions(r)
    PROVE  Latest'
<1>1. /\ DOMAIN rows' = DOMAIN rows
      /\ \A i \in DOMAIN rows : rows'[i].slot = rows[i].slot /\ rows'[i].token = rows[i].token
      /\ \A i \in DOMAIN rows :
            rows'[i].active => rows[i].active /\ rows[i].slot # slot[r]
  BY DEF Structure, TypeOK, RowType, DeactivateSubscriptions
<1>2. LatestTokenOnly'
  BY <1>1 DEF Latest, LatestTokenOnly, DeactivateSubscriptions, Active, RowsOf, history
<1>3. Solitary'
  BY <1>1 DEF Structure, TypeOK, Latest, Solitary, DeactivateSubscriptions, Active, RowsOf
<1> QED
  BY <1>2, <1>3 DEF Latest

\* A registration ends and touches no row.
LEMMA LatestRelease ==
    ASSUME Structure, Latest, NEW ended \in SUBSET Requests, Release(ended),
           rows' = rows, promised' = promised
    PROVE  Latest'
<1>1. \A r \in Requests : alone'[r] =>
         r \notin ended /\ alone[r] /\ pc'[r] = pc[r] /\ slot'[r] = slot[r]
  BY DEF Release
<1>2. \A q \in Requests : slot'[q] = slot[q] \/ slot'[q] = None
  BY DEF Release
<1>3. \A r \in Requests : alone'[r] => slot'[r] # None
  BY <1>1 DEF Latest, Solitary
<1>4. Solitary'
  BY <1>1, <1>2, <1>3 DEF Latest, Solitary, Active, RowsOf
<1> QED
  BY <1>4 DEF Latest, LatestTokenOnly, Active, RowsOf

\* A registration ends by storing its token.
LEMMA LatestStore ==
    ASSUME Structure, Latest, NEW r \in Requests, pc[r] \in {"update", "insert"},
           Release({r}), Store(r),
           target[r] \in DOMAIN rows', rows'[target[r]] = Row(r),
           \A i \in DOMAIN rows' \ {target[r]} : i \in DOMAIN rows /\ rows'[i] = rows[i]
    PROVE  Latest'
<1>1. slot[r] \in Slots /\ token[r] \in Tokens /\ Row(r).slot = slot[r] /\ Row(r).token = token[r]
  BY RowTyped DEF Structure, Busy
<1>2. \A s \in Slots : \A i \in Active(s)' :
        (i = target[r] /\ s = slot[r]) \/ (i # target[r] /\ i \in Active(s))
  BY <1>1 DEF Active, RowsOf
<1>3. ASSUME NEW s \in Slots, NEW i \in Active(s)'
      PROVE  rows'[i].token \in promised'[s]
  <2>1. /\ promised' \in [Slots -> SUBSET Tokens] /\ promised \in [Slots -> SUBSET Tokens]
        /\ promised' = [promised EXCEPT ![slot[r]] =
                          {token[r]} \cup IF alone[r] THEN {} ELSE promised[slot[r]]]
    BY <1>1 DEF Store, Structure, TypeOK
  <2>2. CASE i = target[r]
    <3>1. s = slot[r] /\ rows'[i].token = token[r]
      BY <1>1, <1>2, <1>3, <2>2
    <3> QED
      BY <2>1, <3>1
  <2>3. CASE i # target[r]
    <3>1. i \in Active(s) /\ rows'[i] = rows[i] /\ rows[i].token \in promised[s]
      BY <1>2, <1>3, <2>3 DEF Latest, LatestTokenOnly, Active, RowsOf
    <3>2. s = slot[r] => ~alone[r]
      BY <3>1 DEF Latest, Solitary
    <3> QED
      BY <1>1, <2>1, <3>1, <3>2
  <2> QED
    BY <2>2, <2>3
<1>4. \A q \in Requests : alone'[q] =>
         q # r /\ alone[q] /\ pc'[q] = pc[q] /\ slot'[q] = slot[q]
  BY DEF Release
<1>5. \A q \in Requests : slot'[q] = slot[q] \/ slot'[q] = None
  BY DEF Release
<1>6. \A q \in Requests : alone'[q] => slot'[q] # None /\ slot'[q] # slot[r]
  BY <1>4 DEF Latest, Solitary
<1>7. \A q \in Requests : alone'[q] => slot'[q] \in Slots
  BY <1>4, <1>6 DEF Structure, TypeOK
<1>8. Solitary'
  BY <1>2, <1>4, <1>5, <1>6, <1>7 DEF Latest, Solitary
<1> QED
  BY <1>3, <1>8 DEF Latest, LatestTokenOnly

LEMMA LatestNext == Structure /\ Latest /\ [Next]_vars => Latest'
<1> SUFFICES ASSUME Structure, Latest, [Next]_vars PROVE Latest'
  OBVIOUS
<1>1. ASSUME NEW r \in Requests, GetExistingSubscription(r) PROVE Latest'
  BY <1>1 DEF Structure, TypeOK, Latest, Solitary, LatestTokenOnly, Active, RowsOf,
              GetExistingSubscription, history
<1>2. ASSUME NEW r \in Requests, UpdateSubscription(r) PROVE Latest'
  <2>1. CASE target[r] \in DOMAIN rows
    BY <1>2, <2>1, LatestStore DEF UpdateSubscription
  <2>2. CASE target[r] \notin DOMAIN rows
    BY <1>2, <2>2, LatestRelease DEF UpdateSubscription, history
  <2> QED
    BY <2>1, <2>2
<1>3. ASSUME NEW r \in Requests, InsertSubscription(r) PROVE Latest'
  BY <1>3, LatestStore DEF InsertSubscription
<1>4. ASSUME NEW ids \in SUBSET Ids, Delete(ids), UNCHANGED registration PROVE Latest'
  <2>1. UNCHANGED promised
    BY <1>4 DEF Delete
  <2> QED
    BY <1>4, <2>1, Deleted, LatestKept DEF registration
<1>5. CASE Unsubscribe
  BY <1>4, <1>5, Unsubscribed DEF Unsubscribe
<1>6. CASE DeleteSubscriptionsByIds \/ DeleteFails
  <2>1. working \in SUBSET Ids
    BY DEF Structure, TypeOK
  <2>2. CASE Delete(working)
    BY <1>4, <1>6, <2>1, <2>2 DEF DeleteSubscriptionsByIds, DeleteFails
  <2>3. CASE rows' = rows /\ UNCHANGED history
    BY <1>6, <2>3, LatestKept DEF DeleteSubscriptionsByIds, DeleteFails, registration, history
  <2> QED
    BY <1>6, <2>2, <2>3 DEF DeleteSubscriptionsByIds, DeleteFails
<1>7. CASE Crash \/ \E r \in Requests : Abort(r)
  BY <1>7, LatestRelease DEF Crash, Abort
<1>8. CASE \/ \E p \in Pushes : ListActivatedSubscriptions(p) \/ SendPushNotification(p)
           \/ \E t \in Tokens : Revoke(t)
           \/ Drain
           \/ UNCHANGED vars
  BY <1>8, LatestKept
     DEF ListActivatedSubscriptions, SendPushNotification, Revoke, Drain, vars, registration, history
<1> QED
  BY <1>1, <1>2, <1>3, <1>5, <1>6, <1>7, <1>8, LatestRegister, LatestDeactivate DEF Next

\* The active rows of a slot hold tokens of its latest registrations only; a
\* registration that met no other leaves exactly its own.
THEOREM LatestTokenWins == Spec => []LatestTokenOnly
<1>1. Init => Latest
  BY DEF Init, Latest, Solitary, LatestTokenOnly, Active, RowsOf
<1>2. Latest => LatestTokenOnly
  BY DEF Latest
<1> QED
  BY <1>1, <1>2, LatestNext, StructureHolds, PTL DEF Spec

----------------------------------------------------------------------------
(* A registered slot stays reachable.                                      *)

\* Registrations that have deactivated the slot and will activate a row of it.
Restoring(s) ==
    {r \in Requests :
        /\ slot[r] = s
        /\ pc[r] \in {"find", "insert"} \/ (pc[r] = "update" /\ target[r] \in DOMAIN rows)}

Safe(s) == promised[s] # {} /\ s \notin broken => Active(s) # {} \/ Restoring(s) # {}

\* No row changes and no registration moves, or rows of broken slots vanish.
LEMMA SafeKept ==
    ASSUME Structure, NEW s \in Slots, Safe(s),
           UNCHANGED <<pc, slot, target, promised>>, broken \subseteq broken',
           DOMAIN rows' \subseteq DOMAIN rows,
           \A i \in DOMAIN rows' : rows'[i] = rows[i],
           \A i \in DOMAIN rows \ DOMAIN rows' : rows[i].slot \in broken'
    PROVE  Safe(s)'
<1> SUFFICES ASSUME promised'[s] # {}, s \notin broken'
             PROVE  Active(s)' # {} \/ Restoring(s)' # {}
  BY DEF Safe
<1>1. \A i \in RowsOf(s) : i \in DOMAIN rows'
  BY DEF RowsOf
<1>2. CASE Active(s) # {}
  BY <1>1, <1>2 DEF Active, RowsOf
<1>3. CASE Restoring(s) # {}
  <2>1. PICK r \in Restoring(s) : TRUE
    BY <1>3
  <2>2. pc[r] = "update" => target[r] \in DOMAIN rows'
    BY <1>1, <2>1 DEF Restoring, RowsOf, Structure, Found
  <2>3. r \in Restoring(s)'
    BY <2>1, <2>2 DEF Restoring
  <2> QED
    BY <2>3
<1> QED
  BY <1>2, <1>3 DEF Safe

\* Registrations end without a write, which leaves their slots broken unless
\* their row was gone.
LEMMA SafeRelease ==
    ASSUME Structure, NEW s \in Slots, Safe(s), NEW ended \in SUBSET Requests, Release(ended),
           rows' = rows, promised' = promised, broken \subseteq broken',
           \A r \in ended \cap Restoring(s) : s \in broken'
    PROVE  Safe(s)'
<1> SUFFICES ASSUME promised'[s] # {}, s \notin broken'
             PROVE  Active(s)' # {} \/ Restoring(s)' # {}
  BY DEF Safe
<1>1. CASE Active(s) # {}
  BY <1>1 DEF Active, RowsOf
<1>2. CASE Restoring(s) # {}
  <2>1. PICK r \in Restoring(s) : TRUE
    BY <1>2
  <2>2. r \in Restoring(s)'
    BY <2>1 DEF Restoring, Release
  <2> QED
    BY <2>2
<1> QED
  BY <1>1, <1>2 DEF Safe

LEMMA SafeStore ==
    ASSUME Structure, NEW s \in Slots, Safe(s),
           NEW r \in Requests, pc[r] \in {"update", "insert"}, Release({r}), Store(r),
           target[r] \in DOMAIN rows', rows'[target[r]] = Row(r),
           \/ target[r] \notin DOMAIN rows
           \/ target[r] \in DOMAIN rows /\ rows[target[r]].slot = slot[r],
           DOMAIN rows \subseteq DOMAIN rows',
           \A i \in DOMAIN rows \ {target[r]} : rows'[i] = rows[i]
    PROVE  Safe(s)'
<1>1. slot[r] \in Slots /\ Row(r).slot = slot[r] /\ Row(r).active
  BY RowTyped DEF Structure, Busy
<1>2. CASE s = slot[r]
  <2>1. target[r] \in Active(s)'
    BY <1>1, <1>2 DEF Active, RowsOf
  <2> QED
    BY <2>1 DEF Safe
<1>3. CASE s # slot[r]
  <2>1. promised'[s] = promised[s] /\ (s \notin broken' => s \notin broken)
    BY <1>1, <1>3 DEF Store, Structure, TypeOK
  <2>2. Active(s) \subseteq Active(s)'
    BY <1>1, <1>3 DEF Active, RowsOf
  <2>3. Restoring(s) \subseteq Restoring(s)'
    BY <1>3 DEF Restoring, Release
  <2> QED
    BY <2>1, <2>2, <2>3 DEF Safe
<1> QED
  BY <1>2, <1>3

LEMMA SafeRegistration ==
    ASSUME Structure, NEW s \in Slots, Safe(s), NEW r \in Requests,
           \/ \E z \in Slots, t \in Tokens : Register(r, z, t)
           \/ DeactivateSubscriptions(r)
           \/ GetExistingSubscription(r)
           \/ UpdateSubscription(r)
           \/ InsertSubscription(r)
           \/ Abort(r)
    PROVE  Safe(s)'
<1>1. ASSUME NEW z \in Slots, NEW t \in Tokens, Register(r, z, t) PROVE Safe(s)'
  <2>1. Active(s)' = Active(s) /\ UNCHANGED <<promised, broken>>
    BY <1>1 DEF Register, Active, RowsOf, history
  <2>2. Restoring(s) \subseteq Restoring(s)'
    BY <1>1 DEF Register, Restoring, Structure, TypeOK
  <2> QED
    BY <2>1, <2>2 DEF Safe
<1>2. CASE DeactivateSubscriptions(r)
  <2>1. /\ DOMAIN rows' = DOMAIN rows
        /\ \A i \in DOMAIN rows : rows[i].slot # slot[r] => rows'[i] = rows[i]
        /\ UNCHANGED <<slot, target, promised, broken>>
    BY <1>2 DEF DeactivateSubscriptions, history
  <2>2. CASE slot[r] = s
    <3>1. r \in Restoring(s)'
      BY <1>2, <2>1, <2>2 DEF Restoring, DeactivateSubscriptions, Structure, TypeOK
    <3> QED
      BY <3>1 DEF Safe
  <2>3. CASE slot[r] # s
    <3>1. Active(s) \subseteq Active(s)'
      BY <2>1, <2>3 DEF Active, RowsOf
    <3>2. Restoring(s) \subseteq Restoring(s)'
      BY <1>2, <2>1 DEF Restoring, DeactivateSubscriptions, Structure, TypeOK
    <3> QED
      BY <2>1, <3>1, <3>2 DEF Safe
  <2> QED
    BY <2>2, <2>3
<1>3. CASE GetExistingSubscription(r)
  <2>1. Active(s)' = Active(s) /\ UNCHANGED <<rows, slot, promised, broken>>
    BY <1>3 DEF GetExistingSubscription, Active, RowsOf, history
  <2>2. Restoring(s) \subseteq Restoring(s)'
    BY <1>3, <2>1 DEF GetExistingSubscription, Restoring, RowsOf, Structure, TypeOK
  <2> QED
    BY <2>1, <2>2 DEF Safe
<1>4. CASE UpdateSubscription(r)
  <2>1. CASE target[r] \in DOMAIN rows
    BY <1>4, <2>1, SafeStore DEF UpdateSubscription, Structure, Found
  <2>2. CASE target[r] \notin DOMAIN rows
    <3>1. r \notin Restoring(s)
      BY <1>4, <2>2 DEF UpdateSubscription, Restoring
    <3> QED
      BY <1>4, <2>2, <3>1, SafeRelease DEF UpdateSubscription, history
  <2> QED
    BY <2>1, <2>2
<1>5. CASE InsertSubscription(r)
  <2>1. pc[r] = "insert" /\ target[r] \notin DOMAIN rows
    BY <1>5 DEF InsertSubscription, Structure, Fresh
  <2> QED
    BY <1>5, <2>1, SafeStore DEF InsertSubscription
<1>6. CASE Abort(r)
  <2>1. r \in Restoring(s) => s \in broken'
    BY <1>6 DEF Restoring, Abort
  <2> QED
    BY <1>6, <2>1, SafeRelease DEF Abort
<1> QED
  BY <1>1, <1>2, <1>3, <1>4, <1>5, <1>6

LEMMA SafeRemoval ==
    ASSUME Structure, NEW s \in Slots, Safe(s),
           \/ \E p \in Pushes : ListActivatedSubscriptions(p) \/ SendPushNotification(p)
           \/ \E t \in Tokens : Revoke(t)
           \/ Unsubscribe
           \/ Drain \/ DeleteSubscriptionsByIds \/ DeleteFails
           \/ Crash
           \/ UNCHANGED vars
    PROVE  Safe(s)'
<1>1. ASSUME NEW ids \in SUBSET Ids, Delete(ids), UNCHANGED registration PROVE Safe(s)'
  <2>1. \A i \in DOMAIN rows \ DOMAIN rows' : rows[i].slot \in broken'
    BY <1>1 DEF Delete
  <2>2. broken \subseteq broken' /\ UNCHANGED promised
    BY <1>1 DEF Delete
  <2>3. DOMAIN rows' \subseteq DOMAIN rows
    BY <1>1, Deleted
  <2> QED
    BY <1>1, <2>1, <2>2, <2>3, Deleted, SafeKept DEF registration
<1>2. CASE Unsubscribe
  BY <1>1, <1>2, Unsubscribed DEF Unsubscribe
<1>3. CASE DeleteSubscriptionsByIds \/ DeleteFails
  <2>1. working \in SUBSET Ids
    BY DEF Structure, TypeOK
  <2>2. CASE Delete(working)
    BY <1>1, <1>3, <2>1, <2>2 DEF DeleteSubscriptionsByIds, DeleteFails
  <2>3. CASE rows' = rows /\ UNCHANGED history
    BY <1>3, <2>3, SafeKept DEF DeleteSubscriptionsByIds, DeleteFails, registration, history
  <2> QED
    BY <1>3, <2>2, <2>3 DEF DeleteSubscriptionsByIds, DeleteFails
<1>4. CASE Crash
  <2>1. \A r \in Restoring(s) : s \in broken'
    BY <1>4 DEF Crash, Restoring, Registering
  <2>2. /\ Release(Requests) /\ rows' = rows /\ promised' = promised
        /\ broken \subseteq broken'
    BY <1>4 DEF Crash
  <2> QED
    BY <2>1, <2>2, SafeRelease
<1>5. CASE \/ \E p \in Pushes : ListActivatedSubscriptions(p) \/ SendPushNotification(p)
           \/ \E t \in Tokens : Revoke(t)
           \/ Drain
           \/ UNCHANGED vars
  BY <1>5, SafeKept
     DEF ListActivatedSubscriptions, SendPushNotification, Revoke, Drain, vars, registration, history
<1> QED
  BY <1>2, <1>3, <1>4, <1>5

\* Overlapping registrations of a slot never leave it without an active row:
\* only a removal or a registration cut short does.
THEOREM SlotsStayReachable == Spec => []StaysReachable
<1> DEFINE AllSafe == \A s \in Slots : Safe(s)
<1>1. Init => AllSafe
  BY DEF Init, Safe
<1>2. Structure /\ AllSafe /\ [Next]_vars => AllSafe'
  BY SafeRegistration, SafeRemoval DEF Next
<1>3. AllSafe => StaysReachable
  BY DEF Safe, StaysReachable, Restoring, Registering
<1> QED
  BY <1>1, <1>2, <1>3, StructureHolds, PTL DEF Spec

----------------------------------------------------------------------------
(* Only rows that held a revoked token are queued.                         *)

\* What a row holds now, and what a push was listed with, the row has held.
Remembered ==
    /\ \A i \in DOMAIN rows : rows[i].token \in held[i]
    /\ \A p \in Pushes : push[p].id \in DOMAIN rows => push[p].token \in held[push[p].id]

Justified == Remembered /\ RemovalJustified

LEMMA JustifiedStore ==
    ASSUME Structure, Justified, NEW r \in Requests, pc[r] \in {"update", "insert"}, Store(r),
           target[r] \in DOMAIN rows', rows'[target[r]] = Row(r),
           \A i \in DOMAIN rows' \ {target[r]} : i \in DOMAIN rows /\ rows'[i] = rows[i],
           \/ target[r] \in DOMAIN rows
           \/ /\ target[r] \notin buffer \cup working
              /\ \A p \in Pushes : push[p].id # target[r],
           UNCHANGED <<push, queue, revoked>>
    PROVE  Justified'
<1>1. target[r] \in Ids /\ Row(r).token = token[r]
  <2>1. target[r] \in 1..lastId /\ lastId \in 0..MaxRows
    BY DEF Structure, Busy, TypeOK
  <2> QED
    BY <2>1, SubscriptionConstants, RowTyped DEF Ids
<1>2. /\ \A i \in Ids : held[i] \subseteq held'[i]
      /\ token[r] \in held'[target[r]]
  BY <1>1 DEF Store, Structure, TypeOK
<1>3. DOMAIN rows \subseteq Ids
  BY DEF Structure, TypeOK
<1>4. DOMAIN rows' \subseteq DOMAIN rows \cup {target[r]}
  OBVIOUS
<1>5. Remembered'
  BY <1>1, <1>2, <1>3, <1>4 DEF Justified, Remembered
<1>6. RemovalJustified'
  BY <1>2, <1>3, <1>4 DEF Justified, RemovalJustified, queue
<1> QED
  BY <1>5, <1>6 DEF Justified

LEMMA JustifiedDelete ==
    ASSUME Structure, Justified, NEW ids \in SUBSET Ids, Delete(ids),
           push' = push, revoked' = revoked, buffer' \cup working' \subseteq buffer \cup working
    PROVE  Justified'
<1>1. /\ DOMAIN rows' \subseteq DOMAIN rows /\ DOMAIN rows \subseteq Ids
      /\ \A i \in DOMAIN rows' : i \notin ids /\ rows'[i] = rows[i] /\ held'[i] = held[i]
  BY Deleted DEF Delete, Structure, TypeOK
<1> QED
  BY <1>1 DEF Justified, Remembered, RemovalJustified

LEMMA JustifiedKept ==
    ASSUME Structure, Justified, UNCHANGED <<push, revoked, held>>,
           DOMAIN rows' = DOMAIN rows, \A i \in DOMAIN rows : rows'[i].token = rows[i].token,
           buffer' \cup working' \subseteq buffer \cup working
    PROVE  Justified'
BY DEF Justified, Remembered, RemovalJustified

LEMMA JustifiedNext == Structure /\ Justified /\ [Next]_vars => Justified'
<1> SUFFICES ASSUME Structure, Justified, [Next]_vars PROVE Justified'
  OBVIOUS
<1>1. ASSUME NEW r \in Requests, UpdateSubscription(r) PROVE Justified'
  <2>1. CASE target[r] \in DOMAIN rows
    BY <1>1, <2>1, JustifiedStore DEF UpdateSubscription, Structure, TypeOK
  <2>2. CASE target[r] \notin DOMAIN rows
    BY <1>1, <2>2, JustifiedKept DEF UpdateSubscription, queue, history
  <2> QED
    BY <2>1, <2>2
<1>2. ASSUME NEW r \in Requests, InsertSubscription(r) PROVE Justified'
  <2>1. /\ target[r] \notin buffer \cup working
        /\ \A p \in Pushes : push[p].id # target[r]
    BY <1>2 DEF InsertSubscription, Structure, Fresh
  <2> QED
    BY <1>2, <2>1, JustifiedStore DEF InsertSubscription
<1>3. ASSUME NEW r \in Requests,
             \/ \E s \in Slots, t \in Tokens : Register(r, s, t)
             \/ GetExistingSubscription(r)
             \/ Abort(r)
      PROVE  Justified'
  BY <1>3, JustifiedKept DEF Register, GetExistingSubscription, Abort, queue, history
<1>4. ASSUME NEW r \in Requests, DeactivateSubscriptions(r) PROVE Justified'
  <2>1. DOMAIN rows' = DOMAIN rows /\ \A i \in DOMAIN rows : rows'[i].token = rows[i].token
    BY <1>4 DEF DeactivateSubscriptions, Structure, TypeOK, RowType
  <2> QED
    BY <1>4, <2>1, JustifiedKept DEF DeactivateSubscriptions, queue, history
<1>5. ASSUME NEW p \in Pushes, ListActivatedSubscriptions(p) PROVE Justified'
  <2>1. PICK i \in DOMAIN rows : push' = [push EXCEPT ![p] = [id |-> i, token |-> rows[i].token]]
    BY <1>5 DEF ListActivatedSubscriptions
  <2> QED
    BY <1>5, <2>1 DEF ListActivatedSubscriptions, Structure, TypeOK,
                      Justified, Remembered, RemovalJustified, queue, history
<1>6. ASSUME NEW p \in Pushes, SendPushNotification(p) PROVE Justified'
  <2>1. 0 \notin DOMAIN rows
    BY DEF Structure, TypeOK, Ids
  <2>2. Remembered'
    BY <1>6, <2>1 DEF SendPushNotification, Structure, TypeOK, NoPush, Justified, Remembered
  <2>3. RemovalJustified'
    BY <1>6 DEF SendPushNotification, Justified, Remembered, RemovalJustified
  <2> QED
    BY <2>2, <2>3 DEF Justified
<1>7. ASSUME NEW t \in Tokens, Revoke(t) PROVE Justified'
  BY <1>7 DEF Revoke, Justified, Remembered, RemovalJustified, queue, history
<1>8. CASE Unsubscribe
  BY <1>8, Unsubscribed, JustifiedDelete DEF Unsubscribe, queue
<1>9. CASE Drain
  BY <1>9, JustifiedKept DEF Drain, history
<1>10. CASE DeleteSubscriptionsByIds \/ DeleteFails
  <2>1. working \in SUBSET Ids
    BY DEF Structure, TypeOK
  <2>2. /\ push' = push /\ revoked' = revoked
        /\ buffer' \cup working' \subseteq buffer \cup working
    BY <1>10 DEF DeleteSubscriptionsByIds, DeleteFails
  <2>3. CASE Delete(working)
    BY <2>1, <2>2, <2>3, JustifiedDelete
  <2>4. CASE rows' = rows /\ UNCHANGED history
    BY <2>2, <2>4, JustifiedKept DEF history
  <2> QED
    BY <1>10, <2>3, <2>4 DEF DeleteSubscriptionsByIds, DeleteFails
<1>11. CASE Crash
  <2>1. 0 \notin DOMAIN rows
    BY DEF Structure, TypeOK, Ids
  <2> QED
    BY <1>11, <2>1 DEF Crash, NoPush, Justified, Remembered, RemovalJustified
<1>12. CASE UNCHANGED vars
  BY <1>12, JustifiedKept DEF vars, queue, history
<1> QED
  BY <1>1, <1>2, <1>3, <1>4, <1>5, <1>6, <1>7, <1>8, <1>9, <1>10, <1>11, <1>12 DEF Next

\* The flush can only reach rows that held a revoked token: a row whose
\* tokens were all good is never queued.
THEOREM RemovalsAreJustified == Spec => []RemovalJustified
<1>1. Init => Justified
  BY DEF Init, Justified, Remembered, RemovalJustified
<1>2. Justified => RemovalJustified
  BY DEF Justified
<1> QED
  BY <1>1, <1>2, JustifiedNext, StructureHolds, PTL DEF Spec

=============================================================================

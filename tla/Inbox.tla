-------------------------------- MODULE Inbox --------------------------------
(* The notifications of one account: the calls that send one               *)
(* (SendNotification and, for one of its accounts, SendNotificationBatch of *)
(* internal/push/push.go), which ask for the preference, store the         *)
(* notification and hand it on for delivery; the clients that read the list *)
(* page by page, over HTTP (notificationctl) or with a SOP token (sop.go);  *)
(* marking as viewed; and the nightly retention                            *)
(* (internal/store/notifications.go).  A step is one statement, or one call *)
(* of the queue or of the replay buffer.  Delivery itself is in Delivery.   *)
EXTENDS Preferences

CONSTANTS
    Messages,      \* what callers send; a call that failed is sent again
    Readers,       \* clients that page through the list
    Take,          \* the length of a page, 8 by default
    Keep,          \* the rows retention keeps, 100 in the code
    MaxOld,        \* bound: rows from before
    MaxIds,        \* bound: notifications created
    MaxFaults      \* bound: statements and calls that fail

ASSUME InboxConstants ==
    /\ Take \in Nat \ {0} /\ Keep \in Nat \ {0}
    /\ MaxOld \in 0..MaxIds /\ MaxIds \in Nat /\ MaxFaults \in Nat

VARIABLES
    kind,        \* of each message: a batch, to be stored, silent, its app
    stage,       \* where its call stands
    level,       \* the preference it found
    id,          \* the id of its notification, in the order of created_at
    lastId,
    jobs,        \* the notifications queued for delivery
    rows,        \* the stored notifications: app and whether viewed
    replay,      \* the replay buffer; Delivery has its cap
    client,      \* what each reader asks for: over SOP, of which app, unmark
    reading,     \* where its request stands
    offset,      \* the offset it asks for next
    page,        \* the page, or the replay buffer, its request was given
    seen,        \* what it was shown
    faults,
    asked,       \* the settled preference when each message's call asked
    inserted,    \* the ids ever stored
    handed,      \* the ids ever handed on for delivery
    before,      \* what the list held when each reader began
    cut,         \* whether retention deleted rows since
    gone,        \* what left the replay buffer since
    covered      \* the ids marked all, or on a page that marks

sends == <<kind, stage, level, id, lastId, jobs, asked>>
reads == <<client, reading, offset, page, seen, before>>
since == <<cut, gone>>
inbox == <<sends, rows, replay, reads, faults, inserted, handed, since, covered>>
vars == <<prefVars, inbox>>

(* The configured apps; a call without an app is for the default one, and  *)
(* one for another app is refused.                                         *)
Apps == {"default", "other"}

(* A notification for one account, by a gRPC call, and one for many, by the *)
(* HTTP request of an administrator, which cannot be silent.               *)
Singles == [batch : {FALSE}, save : BOOLEAN, silent : BOOLEAN, app : Apps]
Batches == [batch : {TRUE}, save : BOOLEAN, silent : {FALSE}, app : Apps]
Kinds == Singles \union Batches

Clients == [sop : BOOLEAN, app : Apps, unmark : BOOLEAN]

(* applyAppFilter: rows without an app belong to the default one.          *)
VisibleOf(app) ==
    {i \in DOMAIN rows : rows[i].app = app \/ (app = "default" /\ rows[i].app = "none")}

NewerIn(s, i) == Cardinality({j \in s : j > i})

(* ORDER BY created_at DESC OFFSET first LIMIT count                       *)
Slice(s, first, count) == {i \in s : NewerIn(s, i) \in first..(first + count - 1)}

Init ==
    /\ PrefInit
    /\ kind \in [Messages -> Kinds]
    /\ stage = [m \in Messages |-> "idle"]
    /\ level = [m \in Messages |-> "Normal"]
    /\ id = [m \in Messages |-> 0]
    /\ jobs = {} /\ replay = {}
    /\ lastId \in 0..MaxOld
    /\ rows \in [1..lastId -> [app : Apps \union {"none"}, viewed : {FALSE}]]
    /\ client \in [Readers -> Clients]
    /\ reading = [r \in Readers |-> "new"]
    /\ offset = [r \in Readers |-> 0]
    /\ page = [r \in Readers |-> {}] /\ seen = [r \in Readers |-> {}]
    /\ faults = 0
    /\ asked = [m \in Messages |-> "unknown"]
    /\ inserted = 1..lastId /\ handed = {}
    /\ before = [r \in Readers |-> {}]
    /\ cut = [r \in Readers |-> FALSE] /\ gone = [r \in Readers |-> {}]
    /\ covered = {}

----------------------------------------------------------------------------
(* Sending.                                                                *)

Fault == faults < MaxFaults /\ faults' = faults + 1

(* The preference decides; the notification gets its id and created_at.  A *)
(* batch looks its preferences up together, and its rows have ids of their *)
(* own, created with the one of the notification.                          *)
Ask(m) ==
    /\ stage[m] \in {"idle", "failed"} /\ lastId < MaxIds
    /\ \E l \in IF kind[m].batch THEN LevelsFoundByMany ELSE LevelFound :
        /\ level' = [level EXCEPT ![m] = l]
        /\ stage' = [stage EXCEPT ![m] = IF l = "Reject" THEN "answered"
                                         ELSE IF kind[m].save THEN "save" ELSE "hand"]
    /\ asked' = [asked EXCEPT ![m] =
           IF kind[m].batch /\ Cardinality(DOMAIN prefs) > 1 THEN "unknown" ELSE settled]
    /\ id' = [id EXCEPT ![m] = lastId + 1]
    /\ lastId' = lastId + 1
    /\ UNCHANGED <<prefVars, kind, jobs, rows, replay, reads, faults, inserted, handed,
                   since, covered>>

Insert(m) ==
    /\ rows' = [i \in DOMAIN rows \union {id[m]} |->
           IF i = id[m] THEN [app |-> kind[m].app, viewed |-> FALSE] ELSE rows[i]]
    /\ inserted' = inserted \union {id[m]}

SaveNotification(m) ==
    /\ stage[m] = "save"
    /\ Insert(m)
    /\ stage' = [stage EXCEPT ![m] = "hand"]
    /\ UNCHANGED <<prefVars, kind, level, id, lastId, jobs, asked, replay, reads, faults,
                   handed, since, covered>>

\* Faulty: the notification is delivered all the same.
SaveFailsUnnoticed(m) ==
    /\ stage[m] = "save" /\ Fault
    /\ stage' = [stage EXCEPT ![m] = "hand"]
    /\ UNCHANGED <<prefVars, kind, level, id, lastId, jobs, asked, rows, replay, reads,
                   inserted, handed, since, covered>>

(* The insert fails, or takes effect and its answer is lost; the caller is *)
(* told and may send again.                                                *)
SaveFails(m) ==
    /\ stage[m] = "save" /\ Fault
    /\ Insert(m) \/ UNCHANGED <<rows, inserted>>
    /\ stage' = [stage EXCEPT ![m] = "failed"]
    /\ UNCHANGED <<prefVars, kind, level, id, lastId, jobs, asked, replay, reads, handed,
                   since, covered>>

ToDeliver(m) == level[m] = "Normal" /\ ~kind[m].silent

(* DeliverPushNotification, or the part of a batch for this account: what  *)
(* is not stored is kept for the account's SOP devices, if it has any and   *)
(* the replay buffer can be written.                                       *)
Keeps(i, save) == replay' = replay \/ (~save /\ replay' = replay \union {i})

(* A single notification is enqueued, a batch delivers in the call.        *)
HandOn(m) ==
    /\ stage[m] = "hand"
    /\ stage' = [stage EXCEPT ![m] = "answered"]
    /\ IF ToDeliver(m)
       THEN /\ handed' = handed \union {id[m]}
            /\ IF kind[m].batch
               THEN Keeps(id[m], kind[m].save) /\ jobs' = jobs
               ELSE jobs' = jobs \union {[id |-> id[m], save |-> kind[m].save]} /\ replay' = replay
       ELSE UNCHANGED <<handed, jobs, replay>>
    /\ UNCHANGED <<prefVars, kind, level, id, lastId, asked, rows, reads, faults, inserted,
                   since, covered>>

(* The queue refuses the job, or a batch fails before or after it is kept. *)
HandOnFails(m) ==
    /\ stage[m] = "hand" /\ ToDeliver(m) /\ Fault
    /\ stage' = [stage EXCEPT ![m] = "failed"]
    /\ \/ replay' = replay
       \/ kind[m].batch /\ Keeps(id[m], kind[m].save)
    /\ UNCHANGED <<prefVars, kind, level, id, lastId, jobs, asked, rows, reads, inserted,
                   handed, since, covered>>

Deliver ==
    /\ \E j \in jobs :
        /\ jobs' = jobs \ {j}
        /\ Keeps(j.id, j.save)
    /\ UNCHANGED <<prefVars, kind, stage, level, id, lastId, asked, rows, reads, faults,
                   inserted, handed, since, covered>>

Call(m) ==
    Ask(m) \/ SaveNotification(m) \/ SaveFails(m) \/ HandOn(m) \/ HandOnFails(m)

----------------------------------------------------------------------------
(* Reading the list, page after page until one is empty.                   *)

Everything(r) ==
    VisibleOf(client[r].app) \union IF client[r].sop THEN replay ELSE {}

InTheMiddle(r) == reading[r] \notin {"new", "end"}

Start(r) ==
    /\ reading[r] = "new"
    /\ reading' = [reading EXCEPT ![r] = "next"]
    /\ before' = [before EXCEPT ![r] = Everything(r)]
    /\ UNCHANGED <<prefVars, sends, rows, replay, client, offset, page, seen, faults,
                   inserted, handed, since, covered>>

ListNotifications(r) ==
    LET p == Slice(VisibleOf(client[r].app), offset[r], Take) IN
    /\ reading[r] = "next" /\ ~client[r].sop
    /\ page' = [page EXCEPT ![r] = p]
    /\ covered' = covered \union IF client[r].unmark THEN {} ELSE p
    /\ reading' = [reading EXCEPT ![r] = "mark"]
    /\ UNCHANGED <<prefVars, sends, rows, replay, client, offset, seen, before, faults,
                   inserted, handed, since>>

(* The client is given its page and asks for the next one.                 *)
Answer(r) ==
    /\ seen' = [seen EXCEPT ![r] = @ \union page[r]]
    /\ offset' = [offset EXCEPT ![r] = @ + Take]
    /\ page' = [page EXCEPT ![r] = {}]
    /\ reading' = [reading EXCEPT ![r] = IF page[r] = {} THEN "end" ELSE "next"]

Viewed(ids) ==
    rows' = [i \in DOMAIN rows |-> IF i \in ids THEN [rows[i] EXCEPT !.viewed = TRUE] ELSE rows[i]]

\* Faulty: everything unread is marked, not the page.
MarkEverything(r) ==
    /\ reading[r] = "mark"
    /\ Viewed(IF client[r].unmark THEN {} ELSE VisibleOf(client[r].app))
    /\ Answer(r)
    /\ UNCHANGED <<prefVars, sends, replay, client, before, faults, inserted, handed, since,
                   covered>>

(* MarkNotificationsViewed, unless the client wants them left unread; the  *)
(* response was made before.                                               *)
MarkPage(r) ==
    /\ reading[r] = "mark"
    /\ Viewed(IF client[r].unmark THEN {} ELSE page[r])
    /\ Answer(r)
    /\ UNCHANGED <<prefVars, sends, replay, client, before, faults, inserted, handed, since,
                   covered>>

(* The client is told of an error and asks for the page again.             *)
MarkFails(r) ==
    /\ reading[r] = "mark" /\ ~client[r].unmark /\ Fault
    /\ Viewed(page[r]) \/ rows' = rows
    /\ page' = [page EXCEPT ![r] = {}]
    /\ reading' = [reading EXCEPT ![r] = "next"]
    /\ UNCHANGED <<prefVars, sends, replay, client, offset, seen, before, inserted, handed,
                   since, covered>>

(* markAllRead                                                             *)
MarkAllNotificationsViewed(app) ==
    /\ Viewed(VisibleOf(app))
    /\ covered' = covered \union VisibleOf(app)
    /\ UNCHANGED <<prefVars, sends, replay, reads, faults, inserted, handed, since>>

(* ListSopNotifications reads the replay buffer ...                        *)
ReadReplay(r) ==
    /\ reading[r] = "next" /\ client[r].sop
    /\ page' = [page EXCEPT ![r] = replay]
    /\ reading' = [reading EXCEPT ![r] = "query"]
    /\ UNCHANGED <<prefVars, sends, rows, replay, client, offset, seen, before, faults,
                   inserted, handed, since, covered>>

\* Faulty: the offset is taken off after the merge only.
MergedPageOfNewest(r) ==
    LET stored == Slice(VisibleOf(client[r].app), 0, Take + Cardinality(page[r]))
    IN Slice(page[r] \union stored, offset[r], Take)

(* ... and merges it with as many stored notifications as could be needed. *)
MergedPage(r) ==
    LET stored == Slice(VisibleOf(client[r].app), 0,
                        offset[r] + Take + Cardinality(page[r]))
    IN Slice(page[r] \union stored, offset[r], Take)

ListNotificationsForSop(r) ==
    /\ reading[r] = "query"
    /\ page' = [page EXCEPT ![r] = MergedPage(r)]
    /\ reading' = [reading EXCEPT ![r] = "remove"]
    /\ UNCHANGED <<prefVars, sends, rows, replay, client, offset, seen, before, faults,
                   inserted, handed, since, covered>>

(* listBySopToken removes the page from the replay buffer; a failure to    *)
(* does not matter to it.                                                  *)
RemoveListed(r) ==
    /\ reading[r] = "remove"
    /\ \/ replay' = replay \ page[r] /\ faults' = faults
       \/ replay' = replay /\ Fault
    /\ gone' = [q \in Readers |-> gone[q] \union
           IF InTheMiddle(q) THEN replay \ replay' ELSE {}]
    /\ Answer(r)
    /\ UNCHANGED <<prefVars, sends, rows, client, before, inserted, handed, cut, covered>>

Read(r) ==
    \/ Start(r) \/ ListNotifications(r) \/ MarkPage(r) \/ MarkFails(r)
    \/ ReadReplay(r) \/ ListNotificationsForSop(r) \/ RemoveListed(r)

----------------------------------------------------------------------------
(* Retention.                                                              *)

\* Faulty: the apps of an account are not told apart.
ExcessOfAccount == {i \in DOMAIN rows : NewerIn(DOMAIN rows, i) >= Keep}

(* The rows that are not among the newest of their account and stored app. *)
Excess ==
    {i \in DOMAIN rows : NewerIn({j \in DOMAIN rows : rows[j].app = rows[i].app}, i) >= Keep}

DeleteExcessNotifications ==
    /\ Excess # {}
    /\ rows' = [i \in DOMAIN rows \ Excess |-> rows[i]]
    /\ cut' = [r \in Readers |-> cut[r] \/ InTheMiddle(r)]
    /\ UNCHANGED <<prefVars, sends, replay, reads, faults, inserted, handed, gone, covered>>

----------------------------------------------------------------------------
Next ==
    \/ \E w \in Writers : Write(w) /\ UNCHANGED inbox
    \/ \E m \in Messages : Call(m)
    \/ Deliver
    \/ \E r \in Readers : Read(r)
    \/ \E app \in Apps : MarkAllNotificationsViewed(app)
    \/ DeleteExcessNotifications

Spec == Init /\ [][Next]_vars

----------------------------------------------------------------------------
TypeOK ==
    /\ PrefTypeOK
    /\ kind \in [Messages -> Kinds]
    /\ stage \in [Messages -> {"idle", "save", "hand", "answered", "failed"}]
    /\ level \in [Messages -> Levels]
    /\ lastId \in 0..MaxIds /\ id \in [Messages -> 0..lastId]
    /\ jobs \subseteq [id : 1..lastId, save : BOOLEAN]
    /\ DOMAIN rows \subseteq 1..lastId
    /\ rows \in [DOMAIN rows -> [app : Apps \union {"none"}, viewed : BOOLEAN]]
    /\ replay \subseteq 1..lastId
    /\ client \in [Readers -> Clients]
    /\ reading \in [Readers -> {"new", "next", "mark", "query", "remove", "end"}]
    /\ offset \in [Readers -> Nat]
    /\ page \in [Readers -> SUBSET (1..lastId)] /\ seen \in [Readers -> SUBSET (1..lastId)]
    /\ faults \in 0..MaxFaults
    /\ asked \in [Messages -> Levels \union {"unknown"}]
    /\ inserted \subseteq 1..lastId /\ handed \subseteq 1..lastId
    /\ before \in [Readers -> SUBSET (1..lastId)]
    /\ cut \in [Readers -> BOOLEAN] /\ gone \in [Readers -> SUBSET (1..lastId)]
    /\ covered \subseteq 1..lastId

(* A call that asks after a preference was settled - set or deleted by a    *)
(* request that met no other - does what it says: rejected, the             *)
(* notification is neither stored nor handed on; silent, not handed on;     *)
(* normal, handed on once the call is answered.  A batch is not certain to  *)
(* when overlapping requests had left two rows (push.go 336-371, 480-520,   *)
(* preferences.go 23-47).                                                   *)
PreferenceHonoured ==
    \A m \in Messages :
        /\ asked[m] = "Reject" => id[m] \notin inserted \union handed
        /\ asked[m] = "Silent" => id[m] \notin handed
        /\ asked[m] = "Normal" /\ stage[m] = "answered" =>
               id[m] \in handed \/ kind[m].silent

(* A call that is answered well, and was not rejected, has stored what it   *)
(* was to store, and so has one whose notification is on its way: delivery  *)
(* leaves those out of the replay buffer, which then never has what is      *)
(* stored - the total of a SOP list counts nothing twice (push.go 358-371,  *)
(* 387-391).                                                                *)
StoredOrReplayed ==
    /\ \A m \in Messages :
           stage[m] = "answered" /\ level[m] # "Reject" /\ kind[m].save => id[m] \in inserted
    /\ \A j \in jobs : j.save => j.id \in inserted
    /\ replay \intersect inserted = {}

(* A client that read the list to its end was shown every notification      *)
(* that was there when it began and still is, whatever was sent and marked  *)
(* meanwhile, unless retention deleted rows under it.  Reading a SOP list    *)
(* takes notifications out of it, which moves the others past the offset: a *)
(* client may miss as many as left it meanwhile, and no more (handlers.go   *)
(* 49-87, sop.go 29-79, sopctl.go 125-142, notifications.go 27-47).         *)
Missed(r) == (before[r] \intersect Everything(r)) \ seen[r]

PagesCover ==
    \A r \in Readers :
        reading[r] = "end" /\ ~cut[r] => Cardinality(Missed(r)) <= Cardinality(gone[r])

(* Only what was on a page that marks, or there when all was marked, is     *)
(* viewed: a notification that arrives between the selection of the page    *)
(* and the update is not (handlers.go 74-83, notifications.go 81-91).       *)
ViewedWasListed == \A i \in DOMAIN rows : rows[i].viewed => i \in covered

(* Retention deletes only what has at least Keep newer rows in the list it  *)
(* is shown in, also where the list of the default app includes rows        *)
(* without one (notifications.go 110-116, store.go 35-43).                  *)
RetentionKeepsNewest ==
    [][\A i \in DOMAIN rows \ DOMAIN rows', app \in Apps :
           i \in VisibleOf(app) => NewerIn(VisibleOf(app), i) >= Keep]_vars

=============================================================================

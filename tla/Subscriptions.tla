---------------------------- MODULE Subscriptions ---------------------------
(* The rows of push_subscriptions: the registrations that write them       *)
(* (SubscribeDevice of internal/push/push.go), the deliveries that report  *)
(* their tokens invalid, the removal buffer of internal/push/flush.go with *)
(* its five-minute flush, and the calls that unsubscribe.  Every database  *)
(* statement is a step of its own; no transaction and no unique key ties   *)
(* the statements of one registration together.                            *)
EXTENDS Integers, FiniteSets

CONSTANTS
    Slots,       \* (account, device id, provider) triples
    Devices,     \* for each device id, its slots
    Tokens,      \* device tokens
    None,        \* no slot, no token
    Requests,    \* registrations that may be in flight at once
    Pushes,      \* pushes that may be in flight at once
    MaxRows,     \* bound: rows inserted
    MaxFaults    \* bound: statements that fail, and crashes

ASSUME SubscriptionConstants ==
    /\ Devices \subseteq SUBSET Slots
    /\ None \notin Slots \cup Tokens
    /\ IsFiniteSet(Requests)
    /\ MaxRows \in Nat
    /\ MaxFaults \in Nat

VARIABLES
    rows,        \* the rows by id; ids are numbered in the order of created_at
    lastId,      \* the last id handed out
    pc,          \* where each registration stands
    slot,        \* the slot it registers
    token,       \* the token it registers
    target,      \* the row it found, or is about to insert
    push,        \* the row and the token each push in flight was listed with
    buffer,      \* the ids queued for removal
    working,     \* the ids a flush has drained
    revoked,     \* the tokens the push provider no longer knows
    faults,      \* failures so far
    alone,       \* whether no other registration of its slot ran meanwhile
    promised,    \* the tokens the latest registrations of each slot stored
    broken,      \* the slots a failure or a removal may have left without one
    held,        \* the tokens each row ever held, until it is deleted
    reported     \* the ids queued since the last crash, until the row is deleted

registration == <<pc, slot, token, target, alone>>
queue == <<buffer, working>>
history == <<promised, broken, held, reported>>
vars == <<rows, lastId, registration, push, queue, revoked, faults, history>>

Ids == 1..MaxRows
NoPush == [id |-> 0, token |-> None]

RowsOf(s) == {i \in DOMAIN rows : rows[i].slot = s}
Active(s) == {i \in RowsOf(s) : rows[i].active}
Registering(s) == {r \in Requests : slot[r] = s}

Init ==
    /\ rows = [i \in {} |-> None]
    /\ lastId = 0
    /\ pc = [r \in Requests |-> "idle"]
    /\ slot = [r \in Requests |-> None]
    /\ token = [r \in Requests |-> None]
    /\ target = [r \in Requests |-> 0]
    /\ alone = [r \in Requests |-> FALSE]
    /\ push = [p \in Pushes |-> NoPush]
    /\ buffer = {} /\ working = {} /\ reported = {}
    /\ revoked = {}
    /\ faults = 0
    /\ promised = [s \in Slots |-> {}]
    /\ broken = {}
    /\ held = [i \in Ids |-> {}]

----------------------------------------------------------------------------
(* A registration: the subscribe and SOP handlers call SubscribeDevice.    *)

\* A request that is answered with the device's active SOP subscription, or
\* refused for its token or app id, changes nothing and is left out.
Register(r, s, t) ==
    /\ pc[r] = "idle"
    /\ pc' = [pc EXCEPT ![r] = "deactivate"]
    /\ slot' = [slot EXCEPT ![r] = s]
    /\ token' = [token EXCEPT ![r] = t]
    /\ alone' = [q \in Requests |-> IF q = r THEN Registering(s) = {}
                                    ELSE alone[q] /\ slot[q] # s]
    /\ UNCHANGED <<rows, lastId, target, push, queue, revoked, faults, history>>

\* Faulty: only the row that will be reused is deactivated.
DeactivateOldest(r) ==
    /\ pc[r] = "deactivate"
    /\ rows' = [i \in DOMAIN rows |->
                  IF rows[i].slot = slot[r] /\ (\A j \in RowsOf(slot[r]) : i <= j)
                  THEN [rows[i] EXCEPT !.active = FALSE] ELSE rows[i]]
    /\ pc' = [pc EXCEPT ![r] = "find"]
    /\ UNCHANGED <<lastId, slot, token, target, alone, push, queue, revoked, faults, history>>

DeactivateSubscriptions(r) ==
    /\ pc[r] = "deactivate"
    /\ rows' = [i \in DOMAIN rows |->
                  IF rows[i].slot = slot[r] THEN [rows[i] EXCEPT !.active = FALSE] ELSE rows[i]]
    /\ pc' = [pc EXCEPT ![r] = "find"]
    /\ UNCHANGED <<lastId, slot, token, target, alone, push, queue, revoked, faults, history>>

\* Faulty: a row in use is not looked for.
FindNothing(r) ==
    /\ pc[r] = "find" /\ lastId < MaxRows
    /\ lastId' = lastId + 1
    /\ target' = [target EXCEPT ![r] = lastId + 1]
    /\ pc' = [pc EXCEPT ![r] = "insert"]
    /\ UNCHANGED <<rows, slot, token, alone, push, queue, revoked, faults, history>>

\* The oldest row of the slot, active or not; without one, a new id and its
\* created_at are chosen here and written later.
GetExistingSubscription(r) ==
    /\ pc[r] = "find"
    /\ \/ /\ \E i \in RowsOf(slot[r]) :
                /\ \A j \in RowsOf(slot[r]) : i <= j
                /\ target' = [target EXCEPT ![r] = i]
          /\ pc' = [pc EXCEPT ![r] = "update"]
          /\ lastId' = lastId
       \/ /\ RowsOf(slot[r]) = {} /\ lastId < MaxRows
          /\ lastId' = lastId + 1
          /\ target' = [target EXCEPT ![r] = lastId + 1]
          /\ pc' = [pc EXCEPT ![r] = "insert"]
    /\ UNCHANGED <<rows, slot, token, alone, push, queue, revoked, faults, history>>

\* The registration is over: nothing of it stays in memory.
Release(ended) ==
    /\ pc' = [r \in Requests |-> IF r \in ended THEN "idle" ELSE pc[r]]
    /\ slot' = [r \in Requests |-> IF r \in ended THEN None ELSE slot[r]]
    /\ token' = [r \in Requests |-> IF r \in ended THEN None ELSE token[r]]
    /\ target' = [r \in Requests |-> IF r \in ended THEN 0 ELSE target[r]]
    /\ alone' = [r \in Requests |-> r \notin ended /\ alone[r]]

Row(r) == [slot |-> slot[r], token |-> token[r], active |-> TRUE]

\* The row now holds the token, which the client is told.
Store(r) ==
    /\ promised' = [promised EXCEPT ![slot[r]] = {token[r]} \cup IF alone[r] THEN {} ELSE @]
    /\ broken' = broken \ {slot[r]}
    /\ held' = [held EXCEPT ![target[r]] = @ \cup {token[r]}]
    /\ reported' = reported

\* Faulty: the row is updated but stays inactive.
UpdateTokenOnly(r) ==
    /\ pc[r] = "update"
    /\ target[r] \in DOMAIN rows
    /\ rows' = [rows EXCEPT ![target[r]].token = token[r]]
    /\ Store(r)
    /\ Release({r})
    /\ UNCHANGED <<lastId, push, queue, revoked, faults>>

\* The row is written by id.  When it was deleted meanwhile nothing is
\* written, and SubscribeDevice succeeds all the same.
UpdateSubscription(r) ==
    /\ pc[r] = "update"
    /\ IF target[r] \in DOMAIN rows
       THEN rows' = [rows EXCEPT ![target[r]] = Row(r)] /\ Store(r)
       ELSE rows' = rows /\ UNCHANGED history
    /\ Release({r})
    /\ UNCHANGED <<lastId, push, queue, revoked, faults>>

\* What follows the insert counts the rows to write an audit log entry.
InsertSubscription(r) ==
    /\ pc[r] = "insert"
    /\ rows' = [i \in DOMAIN rows \cup {target[r]} |-> IF i = target[r] THEN Row(r) ELSE rows[i]]
    /\ Store(r)
    /\ Release({r})
    /\ UNCHANGED <<lastId, push, queue, revoked, faults>>

----------------------------------------------------------------------------
(* Removal.                                                                *)

\* The rows are deleted, not marked; a slot that loses one may lose its last.
Delete(ids) ==
    /\ rows' = [i \in DOMAIN rows \ ids |-> rows[i]]
    /\ broken' = broken \cup {rows[i].slot : i \in ids \cap DOMAIN rows}
    /\ held' = [i \in Ids |-> IF i \in ids THEN {} ELSE held[i]]
    /\ reported' = reported \ ids
    /\ promised' = promised

\* UnsubscribeDevice, for every account that registered the device id, or
\* DeleteSubscriptionById for one row of the account.
Unsubscribe ==
    /\ \E ids \in {UNION {RowsOf(s) : s \in d} : d \in Devices} \cup {{i} : i \in DOMAIN rows} :
          ids # {} /\ Delete(ids)
    /\ UNCHANGED <<lastId, registration, push, queue, revoked, faults>>

\* The application is uninstalled, or the provider replaces its token.
Revoke(t) ==
    /\ t \notin revoked
    /\ revoked' = revoked \cup {t}
    /\ UNCHANGED <<rows, lastId, registration, push, queue, faults, history>>

\* A delivery lists the active rows and starts a push to one of them.
ListActivatedSubscriptions(p) ==
    /\ push[p] = NoPush
    /\ \E i \in DOMAIN rows :
          /\ rows[i].active
          /\ push' = [push EXCEPT ![p] = [id |-> i, token |-> rows[i].token]]
    /\ UNCHANGED <<rows, lastId, registration, queue, revoked, faults, history>>

\* Faulty: any failed push removes the subscription.
SendAndRemove(p) ==
    /\ push[p] # NoPush
    /\ \/ /\ buffer' = buffer \cup {push[p].id}
          /\ reported' = reported \cup {push[p].id}
       \/ buffer' = buffer /\ reported' = reported
    /\ push' = [push EXCEPT ![p] = NoPush]
    /\ UNCHANGED <<rows, lastId, registration, working, revoked, faults, promised, broken, held>>

\* SendPushNotification: the provider answers that it does not know the token
\* - 404, 410 or one of the invalid-token errors - or anything else.
SendPushNotification(p) ==
    /\ push[p] # NoPush
    /\ \/ /\ push[p].token \in revoked
          /\ buffer' = buffer \cup {push[p].id}
          /\ reported' = reported \cup {push[p].id}
       \/ buffer' = buffer /\ reported' = reported
    /\ push' = [push EXCEPT ![p] = NoPush]
    /\ UNCHANGED <<rows, lastId, registration, working, revoked, faults, promised, broken, held>>

\* Flush takes the buffer and releases its mutex for the database call; the
\* scheduler runs one flush at a time.
Drain ==
    /\ working = {} /\ buffer # {}
    /\ working' = buffer
    /\ buffer' = {}
    /\ UNCHANGED <<rows, lastId, registration, push, revoked, faults, history>>

DeleteSubscriptionsByIds ==
    /\ working # {}
    /\ Delete(working)
    /\ working' = {}
    /\ UNCHANGED <<lastId, registration, push, buffer, revoked, faults>>

\* Faulty: what could not be deleted is dropped.
DeleteFailsAndDrops ==
    /\ working # {} /\ faults < MaxFaults
    /\ faults' = faults + 1
    /\ working' = {}
    /\ UNCHANGED <<rows, lastId, registration, push, buffer, revoked, history>>

\* The statement fails, or took effect although its answer was lost: either
\* way the drained ids go back to the buffer.
DeleteFails ==
    /\ working # {} /\ faults < MaxFaults
    /\ faults' = faults + 1
    /\ buffer' = buffer \cup working
    /\ working' = {}
    /\ \/ Delete(working)
       \/ rows' = rows /\ UNCHANGED history
    /\ UNCHANGED <<lastId, registration, push, revoked>>

\* A statement of a registration fails, or its request is cancelled.
Abort(r) ==
    /\ pc[r] # "idle" /\ faults < MaxFaults
    /\ faults' = faults + 1
    /\ broken' = broken \cup {slot[r]}
    /\ Release({r})
    /\ UNCHANGED <<rows, lastId, push, queue, revoked, promised, held, reported>>

\* The process restarts: the buffer and everything in flight are gone.
Crash ==
    /\ faults < MaxFaults
    /\ faults' = faults + 1
    /\ broken' = broken \cup {s \in Slots : Registering(s) # {}}
    /\ Release(Requests)
    /\ push' = [p \in Pushes |-> NoPush]
    /\ buffer' = {} /\ working' = {} /\ reported' = {}
    /\ UNCHANGED <<rows, lastId, revoked, promised, held>>

----------------------------------------------------------------------------
Next ==
    \/ \E r \in Requests :
          \/ \E s \in Slots, t \in Tokens : Register(r, s, t)
          \/ DeactivateSubscriptions(r)
          \/ GetExistingSubscription(r)
          \/ UpdateSubscription(r)
          \/ InsertSubscription(r)
          \/ Abort(r)
    \/ \E p \in Pushes : ListActivatedSubscriptions(p) \/ SendPushNotification(p)
    \/ \E t \in Tokens : Revoke(t)
    \/ Unsubscribe
    \/ Drain \/ DeleteSubscriptionsByIds \/ DeleteFails
    \/ Crash

Spec == Init /\ [][Next]_vars

----------------------------------------------------------------------------
RowType == [slot : Slots, token : Tokens, active : BOOLEAN]
PushType == [id : Ids, token : Tokens] \cup {NoPush}

\* Every variable holds a value of its type.
TypeOK ==
    /\ DOMAIN rows \subseteq Ids /\ rows \in [DOMAIN rows -> RowType]
    /\ lastId \in 0..MaxRows
    /\ pc \in [Requests -> {"idle", "deactivate", "find", "update", "insert"}]
    /\ slot \in [Requests -> Slots \cup {None}]
    /\ token \in [Requests -> Tokens \cup {None}]
    /\ target \in [Requests -> 0..MaxRows]
    /\ alone \in [Requests -> BOOLEAN]
    /\ push \in [Pushes -> PushType]
    /\ buffer \in SUBSET Ids /\ working \in SUBSET Ids /\ reported \in SUBSET Ids
    /\ revoked \in SUBSET Tokens
    /\ faults \in 0..MaxFaults
    /\ promised \in [Slots -> SUBSET Tokens]
    /\ broken \in SUBSET Slots
    /\ held \in [Ids -> SUBSET Tokens]

Inserting(s) == {r \in Registering(s) : pc[r] = "insert"}

\* A slot has one row, or as many as registrations of it overlapped: rows do
\* not pile up over repeated registrations, removals, failures and crashes.
BoundedRows ==
    \A s \in Slots : Cardinality(RowsOf(s)) + Cardinality(Inserting(s)) <= Cardinality(Requests)

\* The tokens a slot is reached under are those of its latest registrations:
\* after one that met no other, no row with an earlier token is active, also
\* when overlapping ones had left several rows.
LatestTokenOnly ==
    \A s \in Slots : \A i \in Active(s) : rows[i].token \in promised[s]

\* Once registered, a slot keeps an active row, unless a row of it is removed
\* or a registration of it fails half-way: overlapping registrations never
\* deactivate each other's row and leave none.
StaysReachable ==
    \A s \in Slots :
        promised[s] # {} /\ s \notin broken /\ Registering(s) = {} => Active(s) # {}

\* Only rows that held a revoked token are queued for removal: the flush
\* spares every row whose tokens were all good, whatever it was delayed by.
RemovalJustified ==
    \A i \in (buffer \cup working) \cap DOMAIN rows : held[i] \cap revoked # {}

\* A row reported since the last crash is deleted, or still queued for it:
\* neither a failing statement nor a report that comes while the flush is at
\* work makes the buffer forget it.
NothingForgotten == reported \subseteq buffer \cup working

\* Invalid tokens are deleted by the flush - and tokens that are not invalid
\* are not.
OnlyInvalidRemoved ==
    [][working' # working => \A i \in DOMAIN rows \ DOMAIN rows' : rows[i].token \in revoked]_vars

=============================================================================

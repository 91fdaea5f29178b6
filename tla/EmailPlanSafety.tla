-------------------------- MODULE EmailPlanSafety --------------------------
(* Why the plan row stays consistent, a Completed plan is drained, and the *)
(* emails one recipient gets and the attempts recorded for a day are       *)
(* bounded, although requests race and fail; and why, when requests do not *)
(* overlap, Completed and Paused last, limits and intervals are kept and   *)
(* the records add up: the inductive invariants, proved with TLAPS.        *)
EXTENDS EmailPlanProofs, SequenceTheorems, WellFoundedInduction

Advancing == {"count", "capacity", "list", "loop", "send", "update"}

(* Where each request stands tells what its copy of the plan may hold: an  *)
(* advance works on a plan it found Scheduled or Paused.                   *)
Lifecycle ==
    /\ plan.status = "Absent" => \A p \in Requests : pc[p] = "idle"
    /\ \A p \in Requests :
          /\ pc[p] \in {"idle", "load"} => copy[p] = AbsentRow
          /\ pc[p] \in Advancing => copy[p].status \in {"Scheduled", "Paused"}
          /\ pc[p] = "save" => copy[p].status \in Statuses

(* Every copy is as consistent as the row: an update that writes all the   *)
(* status columns at once cannot tear it.                                  *)
RowsConsistent == Consistent(plan) /\ \A p \in Requests : Consistent(copy[p])

(* Recipients only ever leave the Pending status, so a list read earlier   *)
(* holds all of those still Pending, and an empty rest of it means none.   *)
Drained ==
    /\ plan.status = "Completed" => PendingRecipients = {}
    /\ \A p \in Requests :
          /\ copy[p].status = "Completed" => PendingRecipients = {}
          /\ pc[p] \in {"loop", "send", "update"} => PendingRecipients \subseteq todo[p]

RowInv == TypeOK /\ Lifecycle /\ RowsConsistent /\ Drained

----------------------------------------------------------------------------
LEMMA RowsKeptConsistent ==
    ASSUME NEW row \in RowType, Consistent(row), NEW t \in Int
    PROVE  /\ row.status # "Absent" => Consistent(CompletedRow(row))
           /\ row.status \in {"Scheduled", "Paused"} => Consistent(PausedRow(row))
           /\ row.status \in {"Scheduled", "Paused"} => Consistent(ResumedRow(row, t))
           /\ row.status \in {"Scheduled", "Paused"} /\ NextDay(t) \in Int =>
                 Consistent(CappedRow(row, t))
BY PlanConstants
   DEF Consistent, RowType, Statuses, CompletedRow, PausedRow, ResumedRow, CappedRow

LEMMA AdvancedRowConsistent ==
    ASSUME TypeOK, NEW p \in Requests, NEW count \in Nat,
           Consistent(copy[p]), copy[p].status \in {"Scheduled", "Paused"}
    PROVE  /\ Consistent(AdvancedRow(p, count))
           /\ AdvancedRow(p, count).status \in Statuses
           /\ AdvancedRow(p, count).status = "Completed" => todo[p] = {}
<1>1. copy[p] \in RowType /\ started[p] \in 0..Horizon /\ params.interval \in Int
  BY DEF TypeOK
<1>2. NextDay(started[p]) \in Int /\ started[p] + params.interval \in Int
  BY <1>1, DayOfClock, PlanConstants
<1>3. NextDay(started[p]) # NoTime /\ started[p] + params.interval # NoTime
  BY <1>2, PlanConstants
<1> QED
  BY <1>1, <1>3 DEF AdvancedRow, CompletedRow, Consistent, RowType, Statuses

LEMMA RowInit == Init => RowInv
<1> SUFFICES ASSUME Init PROVE RowInv
  OBVIOUS
<1>1. TypeOK
  BY InitTyped
<1>2. Lifecycle
  BY DEF Init, Lifecycle, AbsentRow, Advancing
<1>3. RowsConsistent /\ Drained
  BY DEF Init, RowsConsistent, Consistent, Drained, AbsentRow
<1> QED
  BY <1>1, <1>2, <1>3 DEF RowInv

(* Steps that only move one request's pc and leave the rest of what RowInv *)
(* speaks of alone.                                                        *)
LEMMA RowCreate == RowInv /\ CreatePlan => RowInv'
<1> SUFFICES ASSUME RowInv, CreatePlan PROVE RowInv'
  OBVIOUS
<1>1. TypeOK'
  BY CreateTyped DEF RowInv
<1>2. /\ \A p \in Requests : pc[p] = "idle" /\ copy[p] = AbsentRow
      /\ UNCHANGED <<pc, copy, todo>>
  BY DEF RowInv, Lifecycle, CreatePlan, locals
<1>3. plan' \in RowType /\ plan'.status = "Scheduled" /\ plan'.next \in Int
      /\ plan'.paused = FALSE /\ plan'.completed = FALSE
  <2>1. PICK t \in StartChoices \cup {now} :
           plan' = [status |-> "Scheduled", advanced |-> 0, next |-> t,
                    paused |-> FALSE, completed |-> FALSE]
    BY DEF CreatePlan
  <2>2. t \in Int
    BY <2>1, PlanConstants DEF RowInv, TypeOK
  <2> QED
    BY <2>1, <2>2, <1>1 DEF TypeOK
<1>4. Consistent(plan)' /\ Consistent(AbsentRow)
  BY <1>3, PlanConstants DEF Consistent, AbsentRow
<1>5. Lifecycle' /\ RowsConsistent' /\ Drained'
  BY <1>2, <1>3, <1>4 DEF Lifecycle, RowsConsistent, Drained, Consistent, AbsentRow, Advancing
<1> QED
  BY <1>1, <1>5 DEF RowInv

LEMMA RowLoading ==
    ASSUME RowInv, NEW p \in Requests,
           ListDuePlans(p) \/ LoadPlan(p) \/ LoadForPause(p) \/ LoadForResume(p)
    PROVE  RowInv'
<1> USE DEF RowInv
<1>1. TypeOK'
  BY LoadingTyped
<1>2. pc \in [Requests -> Labels] /\ copy \in [Requests -> RowType] /\ plan \in RowType
      /\ now \in Int
  BY PlanConstants DEF TypeOK
<1>3. UNCHANGED <<plan, recipient, todo>>
  BY DEF ListDuePlans, LoadPlan, LoadForPause, LoadForResume, store
<1>4. PendingRecipients' = PendingRecipients
  BY <1>3 DEF PendingRecipients
<1>5. CASE ListDuePlans(p)
  BY <1>1, <1>2, <1>3, <1>4, <1>5
     DEF ListDuePlans, HasSlot, IsDue, Goto, Lifecycle, RowsConsistent, Drained, Advancing
<1>6. CASE LoadPlan(p)
  <2>1. plan.status \in {"Scheduled", "Paused"}
    BY <1>2, <1>6 DEF LoadPlan, MayAdvance, RowType, Statuses
  <2>2. copy' = [copy EXCEPT ![p] = plan] /\ pc' = [pc EXCEPT ![p] = "count"]
    BY <1>6 DEF LoadPlan, Goto
  <2> QED
    BY <1>1, <1>2, <1>3, <1>4, <2>1, <2>2
       DEF Lifecycle, RowsConsistent, Drained, Advancing
<1>7. CASE LoadForPause(p) \/ LoadForResume(p)
  <2>1. plan.status \in {"Scheduled", "Paused"}
    BY <1>2, <1>7 DEF LoadForPause, LoadForResume, RowType, Statuses
  <2>2. PICK row \in {PausedRow(plan), ResumedRow(plan, now)} :
           copy' = [copy EXCEPT ![p] = row] /\ pc' = [pc EXCEPT ![p] = "save"]
    BY <1>7 DEF LoadForPause, LoadForResume, Goto
  <2>3. Consistent(row) /\ row.status \in {"Scheduled", "Paused"}
    <3>1. Consistent(plan)
      BY DEF RowsConsistent
    <3>2. Consistent(PausedRow(plan)) /\ Consistent(ResumedRow(plan, now))
      BY <1>2, <2>1, <3>1, RowsKeptConsistent
    <3>3. /\ PausedRow(plan).status = "Paused"
          /\ ResumedRow(plan, now).status = "Scheduled"
      BY <1>2 DEF PausedRow, ResumedRow, RowType
    <3> QED
      BY <2>2, <3>2, <3>3
  <2> QED
    BY <1>1, <1>2, <1>3, <1>4, <2>1, <2>2, <2>3
       DEF Lifecycle, RowsConsistent, Drained, Advancing, Statuses
<1> QED
  BY <1>5, <1>6, <1>7

LEMMA RowReleasing ==
    ASSUME RowInv, NEW p \in Requests,
           RejectAdvance(p) \/ UpdateEmailPlanStatus(p) \/ Abort(p)
    PROVE  RowInv'
<1> USE DEF RowInv
<1>1. TypeOK'
  BY ReleasingTyped
<1>2. pc \in [Requests -> Labels] /\ copy \in [Requests -> RowType]
      /\ todo \in [Requests -> SUBSET Accounts]
  BY DEF TypeOK
<1>3. /\ recipient' = recipient
      /\ pc' = [pc EXCEPT ![p] = "idle"]
      /\ copy' = [copy EXCEPT ![p] = AbsentRow]
      /\ todo' = [todo EXCEPT ![p] = {}]
  BY DEF RejectAdvance, UpdateEmailPlanStatus, Abort, Release, store
<1>4. \/ plan' = plan /\ pc[p] # "idle"
      \/ plan' = copy[p] /\ pc[p] = "save"
  BY DEF RejectAdvance, UpdateEmailPlanStatus, Abort, store
<1>5. PendingRecipients' = PendingRecipients
  BY <1>3 DEF PendingRecipients
<1>6. Consistent(AbsentRow)
  BY DEF Consistent, AbsentRow
<1>7. Lifecycle'
  BY <1>2, <1>3, <1>4 DEF Lifecycle, Advancing, Statuses
<1>8. RowsConsistent'
  BY <1>2, <1>3, <1>4, <1>6 DEF RowsConsistent
<1>9. Drained'
  BY <1>2, <1>3, <1>4, <1>5 DEF Drained, AbsentRow
<1> QED
  BY <1>1, <1>7, <1>8, <1>9

(* An advance of p that changes its copy of the plan and its place only.   *)
LEMMA RowMove ==
    ASSUME RowInv, TypeOK', NEW p \in Requests, NEW label \in {"capacity", "list", "save"},
           pc[p] \in Advancing, pc' = [pc EXCEPT ![p] = label],
           NEW row \in RowType, copy' = [copy EXCEPT ![p] = row], Consistent(row),
           label # "save" => row.status \in {"Scheduled", "Paused"},
           row.status \in Statuses,
           row.status = "Completed" => PendingRecipients = {},
           UNCHANGED <<plan, recipient, todo>>
    PROVE  RowInv'
<1>1. pc \in [Requests -> Labels] /\ copy \in [Requests -> RowType]
  BY DEF RowInv, TypeOK
<1>2. PendingRecipients' = PendingRecipients
  BY DEF PendingRecipients
<1>3. Lifecycle'
  BY <1>1 DEF RowInv, Lifecycle, Advancing
<1>4. RowsConsistent'
  BY <1>1 DEF RowInv, RowsConsistent
<1>5. Drained'
  BY <1>1, <1>2 DEF RowInv, Drained
<1> QED
  BY <1>3, <1>4, <1>5 DEF RowInv

LEMMA RowCounting ==
    ASSUME RowInv, NEW p \in Requests, CountPendingRecipients(p) \/ CheckDailyCapacity(p)
    PROVE  RowInv'
<1>1. TypeOK'
  BY CountingTyped DEF RowInv
<1>2. /\ copy[p] \in RowType /\ Consistent(copy[p])
      /\ copy = [copy EXCEPT ![p] = copy[p]]
      /\ started[p] \in Int /\ NextDay(started[p]) \in Int
  BY PlanConstants, DayOfClock DEF RowInv, TypeOK, RowsConsistent
<1>3. pc[p] \in Advancing /\ UNCHANGED <<plan, recipient, todo>>
  BY DEF CountPendingRecipients, CheckDailyCapacity, Advancing, store
<1>4. copy[p].status \in {"Scheduled", "Paused"}
  BY <1>3 DEF RowInv, Lifecycle
<1>5. PICK row \in {copy[p], CompletedRow(copy[p]), CappedRow(copy[p], started[p])},
           label \in {"capacity", "list", "save"} :
         /\ pc' = [pc EXCEPT ![p] = label]
         /\ copy' = [copy EXCEPT ![p] = row]
         /\ row = copy[p] \/ label = "save"
         /\ row = CompletedRow(copy[p]) => PendingRecipients = {}
  <2>1. CASE CountPendingRecipients(p)
    <3>1. \/ /\ PendingRecipients = {}
             /\ copy' = [copy EXCEPT ![p] = CompletedRow(copy[p])]
             /\ pc' = [pc EXCEPT ![p] = "save"]
          \/ /\ copy' = copy
             /\ pc' = [pc EXCEPT ![p] = "capacity"]
      BY <2>1 DEF CountPendingRecipients, Goto
    <3>2. copy[p] # CompletedRow(copy[p])
      BY <1>2, <1>4 DEF CompletedRow, RowType
    <3> QED
      BY <1>2, <3>1, <3>2
  <2>2. CASE CheckDailyCapacity(p)
    <3>1. \/ /\ copy' = [copy EXCEPT ![p] = CappedRow(copy[p], started[p])]
             /\ pc' = [pc EXCEPT ![p] = "save"]
          \/ /\ copy' = copy
             /\ pc' = [pc EXCEPT ![p] = "list"]
      BY <2>2 DEF CheckDailyCapacity, Goto
    <3>2. /\ copy[p] # CompletedRow(copy[p])
          /\ CappedRow(copy[p], started[p]) # CompletedRow(copy[p])
      BY <1>2, <1>4 DEF CompletedRow, CappedRow, RowType
    <3> QED
      BY <1>2, <3>1, <3>2
  <2> QED
    BY <2>1, <2>2
<1>6. row \in RowType /\ Consistent(row)
  BY <1>2, <1>4, RowsTyped, RowsKeptConsistent
<1>7. /\ row.status \in Statuses
      /\ row # CompletedRow(copy[p]) => row.status \in {"Scheduled", "Paused"}
  BY <1>2, <1>4, <1>5 DEF CompletedRow, CappedRow, RowType, Statuses
<1>8. /\ label # "save" => row.status \in {"Scheduled", "Paused"}
      /\ row.status = "Completed" => PendingRecipients = {}
  BY <1>4, <1>5, <1>7
<1> QED
  BY <1>1, <1>3, <1>5, <1>6, <1>7, <1>8, RowMove

LEMMA RowListing ==
    ASSUME RowInv, NEW p \in Requests, ListPendingRecipients(p)
    PROVE  RowInv'
<1>1. TypeOK'
  BY CountingTyped DEF RowInv
<1>2. pc \in [Requests -> Labels] /\ todo \in [Requests -> SUBSET Accounts]
  BY DEF RowInv, TypeOK
<1>3. /\ pc[p] = "list" /\ pc' = [pc EXCEPT ![p] = "loop"]
      /\ todo' = [todo EXCEPT ![p] = PendingRecipients]
      /\ UNCHANGED <<plan, recipient, copy>>
      /\ PendingRecipients' = PendingRecipients
  BY DEF ListPendingRecipients, PendingRecipients, Goto, store
<1>4. Lifecycle'
  BY <1>2, <1>3 DEF RowInv, Lifecycle, Advancing
<1>5. RowsConsistent' /\ Drained'
  BY <1>2, <1>3 DEF RowInv, RowsConsistent, Drained
<1> QED
  BY <1>1, <1>4, <1>5 DEF RowInv

LEMMA RowRecipients ==
    ASSUME RowInv, NEW p \in Requests,
           ResolveContact(p) \/ SendEmail(p) \/ UpdateRecipient(p)
    PROVE  RowInv'
<1>1. TypeOK'
  BY RecipientStepsTyped DEF RowInv
<1>2. /\ pc \in [Requests -> Labels] /\ todo \in [Requests -> SUBSET Accounts]
      /\ recipient \in [Accounts -> Final \cup {"None", "Pending"}]
      /\ mark[p] \in Final
  BY DEF RowInv, TypeOK
<1>3. /\ pc[p] \in {"loop", "send", "update"}
      /\ UNCHANGED <<plan, copy>>
      /\ \E label \in {"loop", "send", "update"} : pc' = [pc EXCEPT ![p] = label]
  BY DEF ResolveContact, SendEmail, UpdateRecipient, Goto, store
<1>4. /\ PendingRecipients' \subseteq PendingRecipients
      /\ PendingRecipients \subseteq todo[p] => PendingRecipients' \subseteq todo'[p]
      /\ \A q \in Requests \ {p} : todo'[q] = todo[q]
  <2>1. CASE ResolveContact(p) \/ SendEmail(p)
    BY <2>1 DEF ResolveContact, SendEmail, PendingRecipients, store
  <2>2. CASE UpdateRecipient(p)
    <3>1. /\ recipient' = [recipient EXCEPT ![cur[p]] = mark[p]]
          /\ todo' = [todo EXCEPT ![p] = @ \ {cur[p]}]
      BY <2>2 DEF UpdateRecipient
    <3>2. mark[p] # "Pending"
      BY <1>2 DEF Final
    <3>3. PendingRecipients' = PendingRecipients \ {cur[p]}
      BY <1>2, <3>1, <3>2 DEF PendingRecipients
    <3> QED
      BY <1>2, <3>1, <3>3
  <2> QED
    BY <2>1, <2>2
<1>5. Lifecycle'
  BY <1>2, <1>3 DEF RowInv, Lifecycle, Advancing
<1>6. RowsConsistent'
  BY <1>3 DEF RowInv, RowsConsistent
<1>7. Drained'
  BY <1>2, <1>3, <1>4 DEF RowInv, Drained
<1> QED
  BY <1>1, <1>5, <1>6, <1>7 DEF RowInv

LEMMA RowFinishing ==
    ASSUME RowInv, NEW p \in Requests, FinishIdleAdvance(p) \/ InsertAdvance(p)
    PROVE  RowInv'
<1>1. TypeOK'
  BY FinishingTyped DEF RowInv
<1>2. /\ pc[p] = "loop" /\ pc' = [pc EXCEPT ![p] = "save"]
      /\ UNCHANGED <<plan, recipient, todo>>
  BY DEF FinishIdleAdvance, InsertAdvance, Goto, store
<1>3. /\ copy[p].advanced \in Nat /\ Consistent(copy[p])
      /\ copy[p].status \in {"Scheduled", "Paused"}
      /\ PendingRecipients \subseteq todo[p]
  BY <1>2 DEF RowInv, TypeOK, RowType, RowsConsistent, Lifecycle, Advancing, Drained
<1>4. PICK count \in Nat : copy' = [copy EXCEPT ![p] = AdvancedRow(p, count)]
  BY <1>3 DEF FinishIdleAdvance, InsertAdvance
<1>5. AdvancedRow(p, count) \in RowType
  BY AdvancedRowTyped DEF RowInv
<1>6. /\ Consistent(AdvancedRow(p, count))
      /\ AdvancedRow(p, count).status \in Statuses
      /\ AdvancedRow(p, count).status = "Completed" => todo[p] = {}
  BY <1>3, AdvancedRowConsistent DEF RowInv
<1>7. AdvancedRow(p, count).status = "Completed" => PendingRecipients = {}
  BY <1>3, <1>6
<1>8. pc[p] \in Advancing
  BY <1>2 DEF Advancing
<1> QED
  BY <1>1, <1>2, <1>4, <1>5, <1>6, <1>7, <1>8, RowMove

LEMMA RowNext == RowInv /\ [Next]_vars => RowInv'
<1> SUFFICES ASSUME RowInv, [Next]_vars PROVE RowInv'
  OBVIOUS
<1>1. CASE UNCHANGED vars
  <2>1. TypeOK'
    BY NextTyped DEF RowInv
  <2>2. UNCHANGED <<plan, recipient, pc, copy, todo>>
    BY <1>1 DEF vars, store, locals
  <2> QED
    BY <2>1, <2>2 DEF RowInv, Lifecycle, RowsConsistent, Drained, PendingRecipients
<1>2. CASE CreatePlan
  BY <1>2, RowCreate
<1>3. CASE Tick
  <2>1. TypeOK'
    BY <1>3, TickTyped DEF RowInv
  <2>2. UNCHANGED <<plan, recipient, pc, copy, todo>>
    BY <1>3 DEF Tick, store, locals
  <2> QED
    BY <2>1, <2>2 DEF RowInv, Lifecycle, RowsConsistent, Drained, PendingRecipients
<1>4. CASE \E p \in Requests : ListDuePlans(p) \/ LoadForPause(p) \/ LoadForResume(p)
                                \/ Progress(p) \/ Abort(p)
  BY <1>4, RowLoading, RowReleasing, RowCounting, RowListing, RowRecipients, RowFinishing
     DEF Progress
<1> QED
  BY <1>1, <1>2, <1>3, <1>4 DEF Next

\* However advances, pauses and resumes of the plan interleave, fail and
\* overwrite each other's columns, the row they leave agrees with itself: a
\* Scheduled plan always has a next interval to be picked up at.
THEOREM RowStaysConsistent == Spec => []RowConsistent
<1>1. RowInv => RowConsistent
  BY DEF RowInv, RowsConsistent, RowConsistent
<1> QED
  BY <1>1, RowInit, RowNext, PTL DEF Spec

\* A plan is never marked Completed while a recipient is still Pending, for
\* any number of racing advances, each deciding from its own earlier list.
THEOREM CompletedPlansAreDrained == Spec => []CompletedMeansDrained
<1>1. RowInv => CompletedMeansDrained
  BY DEF RowInv, Drained, CompletedMeansDrained
<1> QED
  BY <1>1, RowInit, RowNext, PTL DEF Spec

----------------------------------------------------------------------------
(* The emails one recipient can get.  Each email is owed to a request that *)
(* still has the recipient to update, or to one that was cut short; once   *)
(* the recipient is no longer Pending no further request lists it, and the *)
(* requests that hold it in their list are the only ones left to email it. *)

Sending(a) == {p \in Requests : pc[p] = "update" /\ cur[p] = a /\ mark[p] # "Skipped"}
Holding(a) == {p \in Requests : a \in todo[p]} \ Sending(a)

Bounded(a) ==
    /\ recipient[a] = "Pending" => emailed[a] <= Cardinality(Sending(a)) + faults
    /\ recipient[a] # "Pending" =>
          emailed[a] + Cardinality(Holding(a)) <= MaxOverlap + faults

Slots ==
    /\ Cardinality(Running) <= MaxOverlap
    /\ \A p \in Requests :
          /\ todo[p] # {} => pc[p] # "idle"
          /\ pc[p] \in {"send", "update"} => cur[p] \in todo[p]

EmailInv ==
    /\ Slots
    /\ \A a \in Accounts : Bounded(a)
    /\ plan.status = "Absent" => \A a \in Accounts : emailed[a] = 0

(* p is the only request that takes a step.                                *)
OnlyMoves(p) ==
    \A q \in Requests \ {p} :
        pc'[q] = pc[q] /\ todo'[q] = todo[q] /\ cur'[q] = cur[q] /\ mark'[q] = mark[q]

----------------------------------------------------------------------------
LEMMA RequestSetsFinite ==
    ASSUME NEW R, R \subseteq Requests
    PROVE  IsFiniteSet(R) /\ Cardinality(R) \in Nat
<1>1. IsFiniteSet(Requests)
  BY PlanConstants DEF Requests
<1>2. IsFiniteSet(R)
  BY <1>1, FS_Subset
<1> QED
  BY <1>2, FS_CardinalityType

LEMMA HolderSetsFinite ==
    ASSUME NEW a
    PROVE  /\ IsFiniteSet(Sending(a)) /\ Cardinality(Sending(a)) \in Nat
           /\ IsFiniteSet(Holding(a)) /\ Cardinality(Holding(a)) \in Nat
<1>1. Sending(a) \subseteq Requests /\ Holding(a) \subseteq Requests
  BY DEF Sending, Holding
<1> QED
  BY <1>1, RequestSetsFinite

(* The requests that may still email a recipient, or have just done so, are *)
(* in flight.                                                              *)
LEMMA HoldersInFlight ==
    ASSUME Slots, NEW a
    PROVE  Cardinality(Sending(a)) + Cardinality(Holding(a)) <= MaxOverlap
<1>1. Sending(a) \cup Holding(a) \subseteq Running
  BY DEF Slots, Sending, Holding, Running
<1>2. Sending(a) \cap Holding(a) = {}
  BY DEF Holding
<1>3. Running \subseteq Requests
  BY DEF Running
<1>4. /\ IsFiniteSet(Running) /\ Cardinality(Running) \in Nat
      /\ IsFiniteSet(Sending(a)) /\ Cardinality(Sending(a)) \in Nat
      /\ IsFiniteSet(Holding(a)) /\ Cardinality(Holding(a)) \in Nat
  BY <1>3, RequestSetsFinite, HolderSetsFinite
<1>5. Cardinality(Sending(a) \cup Holding(a)) <= Cardinality(Running)
  BY <1>1, <1>4, FS_Subset
<1>6. Cardinality(Sending(a) \cup Holding(a)) =
         Cardinality(Sending(a)) + Cardinality(Holding(a))
  <2>1. Cardinality(Sending(a) \cup Holding(a)) =
           Cardinality(Sending(a)) + Cardinality(Holding(a))
              - Cardinality(Sending(a) \cap Holding(a))
    BY <1>4, FS_Union
  <2>2. Cardinality(Sending(a) \cap Holding(a)) = 0
    BY <1>2, FS_EmptySet
  <2>3. Cardinality(Sending(a)) \in Nat /\ Cardinality(Holding(a)) \in Nat
    BY <1>4
  <2> QED
    BY <2>1, <2>2, <2>3
<1>7. Cardinality(Running) <= MaxOverlap
  BY DEF Slots
<1> QED
  BY <1>4, <1>5, <1>6, <1>7, PlanConstants

LEMMA OthersKept ==
    ASSUME NEW p \in Requests, OnlyMoves(p), NEW a
    PROVE  /\ Sending(a)' \ {p} = Sending(a) \ {p}
           /\ Holding(a)' \ {p} = Holding(a) \ {p}
BY DEF OnlyMoves, Sending, Holding

(* A step of p in which it neither becomes nor stops being one that has    *)
(* just emailed the recipient, and lists it only if it is Pending.         *)
LEMMA QuietStep ==
    ASSUME TypeOK, Slots, NEW p \in Requests, OnlyMoves(p), NEW a \in Accounts, Bounded(a),
           p \notin Sending(a), p \notin Sending(a)',
           p \in Holding(a)' => p \in Holding(a) \/ recipient[a] = "Pending",
           UNCHANGED <<recipient, emailed, faults>>
    PROVE  Bounded(a)'
<1>1. Sending(a)' = Sending(a)
  BY OthersKept
<1>2. recipient[a] # "Pending" => Holding(a)' \subseteq Holding(a)
  BY OthersKept
<1>3. recipient[a] # "Pending" => Cardinality(Holding(a)') <= Cardinality(Holding(a))
  BY <1>2, HolderSetsFinite, FS_Subset
<1>4. /\ emailed[a] \in Nat /\ faults \in Nat /\ MaxOverlap \in Nat
      /\ Cardinality(Holding(a)) \in Nat
  BY HolderSetsFinite, PlanConstants DEF TypeOK
<1>5. Cardinality(Holding(a)') \in Nat
  <2>1. Holding(a)' \subseteq Requests
    BY DEF Holding, Requests
  <2> QED
    BY <2>1, RequestSetsFinite
<1>6. Cardinality(Sending(a))' = Cardinality(Sending(a))
  BY <1>1
<1> QED
  BY <1>3, <1>4, <1>5, <1>6 DEF Bounded

LEMMA SlotsKept ==
    ASSUME TypeOK, TypeOK', Slots, NEW p \in Requests, OnlyMoves(p),
           pc[p] = "idle" => Cardinality(Running) < MaxOverlap,
           todo'[p] # {} => pc'[p] # "idle",
           pc'[p] \in {"send", "update"} => cur'[p] \in todo'[p]
    PROVE  Slots'
<1>1. /\ IsFiniteSet(Running) /\ Cardinality(Running) \in Nat
      /\ IsFiniteSet(Running') /\ Cardinality(Running') \in Nat
  <2>1. Running \subseteq Requests /\ Running' \subseteq Requests
    BY DEF Running, Requests
  <2> QED
    BY <2>1, RequestSetsFinite
<1>2. Cardinality(Running') <= MaxOverlap
  <2>1. CASE pc[p] = "idle"
    <3>1. p \notin Running /\ Running' \subseteq Running \cup {p}
      BY <2>1 DEF Running, OnlyMoves, Requests
    <3>2. /\ IsFiniteSet(Running \cup {p})
          /\ Cardinality(Running \cup {p}) = Cardinality(Running) + 1
      BY <1>1, <3>1, FS_AddElement
    <3>3. Cardinality(Running') <= Cardinality(Running \cup {p})
      BY <3>1, <3>2, FS_Subset
    <3>4. Cardinality(Running) < MaxOverlap
      BY <2>1
    <3> QED
      BY <1>1, <3>2, <3>3, <3>4, PlanConstants
  <2>2. CASE pc[p] # "idle"
    <3>1. Running' \subseteq Running
      BY <2>2 DEF Running, OnlyMoves, Requests
    <3>2. Cardinality(Running') <= Cardinality(Running)
      BY <1>1, <3>1, FS_Subset
    <3>3. Cardinality(Running) <= MaxOverlap
      BY DEF Slots
    <3> QED
      BY <1>1, <3>2, <3>3, PlanConstants
  <2> QED
    BY <2>1, <2>2
<1>3. \A q \in Requests : /\ todo'[q] # {} => pc'[q] # "idle"
                          /\ pc'[q] \in {"send", "update"} => cur'[q] \in todo'[q]
  BY DEF Slots, OnlyMoves
<1>4. Cardinality(Running)' <= MaxOverlap
  BY <1>2
<1> QED
  BY <1>3, <1>4 DEF Slots, Requests

RequestStep(p) ==
    ListDuePlans(p) \/ LoadForPause(p) \/ LoadForResume(p) \/ Progress(p) \/ Abort(p)

(* What every step of a request does to the variables the bound is about.  *)
LEMMA RequestFrame ==
    ASSUME TypeOK, Slots, NEW p \in Requests, RequestStep(p)
    PROVE  /\ OnlyMoves(p)
           /\ pc[p] = "idle" => Cardinality(Running) < MaxOverlap
           /\ todo'[p] # {} => pc'[p] # "idle"
           /\ pc'[p] \in {"send", "update"} => cur'[p] \in todo'[p]
<1> USE DEF OnlyMoves, Goto
<1>1. /\ pc \in [Requests -> Labels] /\ todo \in [Requests -> SUBSET Accounts]
      /\ cur \in [Requests -> Nat] /\ mark \in [Requests -> Final]
      /\ todo[p] # {} => pc[p] # "idle"
      /\ pc[p] \in {"send", "update"} => cur[p] \in todo[p]
  BY DEF TypeOK, Slots
<1>2. CASE ListDuePlans(p)
  BY <1>1, <1>2 DEF ListDuePlans, HasSlot
<1>3. CASE LoadPlan(p)
  BY <1>1, <1>3 DEF LoadPlan, HasSlot
<1>4. CASE LoadForPause(p) \/ LoadForResume(p)
  BY <1>1, <1>4 DEF LoadForPause, LoadForResume, HasSlot
<1>5. CASE RejectAdvance(p) \/ UpdateEmailPlanStatus(p) \/ Abort(p)
  <2>1. Release(p) /\ pc[p] # "idle"
    BY <1>5 DEF RejectAdvance, UpdateEmailPlanStatus, Abort
  <2> QED
    BY <1>1, <2>1 DEF Release
<1>6. CASE CountPendingRecipients(p) \/ CheckDailyCapacity(p)
  <2>1. PICK label \in {"capacity", "list", "save"} : pc' = [pc EXCEPT ![p] = label]
    BY <1>6 DEF CountPendingRecipients, CheckDailyCapacity
  <2>2. pc[p] # "idle" /\ UNCHANGED <<todo, cur, mark>>
    BY <1>6 DEF CountPendingRecipients, CheckDailyCapacity
  <2> QED
    BY <1>1, <2>1, <2>2
<1>7. CASE ListPendingRecipients(p)
  BY <1>1, <1>7 DEF ListPendingRecipients
<1>8. CASE ResolveContact(p)
  <2>1. PICK a \in todo[p] : cur' = [cur EXCEPT ![p] = a]
    BY <1>8 DEF ResolveContact
  <2>2. PICK label \in {"send", "update"} : pc' = [pc EXCEPT ![p] = label]
    BY <1>8 DEF ResolveContact
  <2>3. /\ mark' = mark \/ mark' = [mark EXCEPT ![p] = "Skipped"]
        /\ pc[p] # "idle" /\ todo' = todo
    BY <1>8 DEF ResolveContact
  <2> QED
    BY <1>1, <2>1, <2>2, <2>3
<1>9. CASE SendEmail(p)
  <2>1. /\ pc' = [pc EXCEPT ![p] = "update"] /\ pc[p] = "send"
        /\ UNCHANGED <<todo, cur>>
        /\ \E reported : mark' = [mark EXCEPT ![p] = reported]
    BY <1>9 DEF SendEmail
  <2> QED
    BY <1>1, <2>1
<1>10. CASE UpdateRecipient(p)
  BY <1>1, <1>10 DEF UpdateRecipient
<1>11. CASE FinishIdleAdvance(p) \/ InsertAdvance(p)
  BY <1>1, <1>11 DEF FinishIdleAdvance, InsertAdvance
<1> QED
  BY <1>2, <1>3, <1>4, <1>5, <1>6, <1>7, <1>8, <1>9, <1>10, <1>11
     DEF RequestStep, Progress

(* Every step but an email, an update and an interruption is quiet.        *)
LEMMA QuietFrame ==
    ASSUME TypeOK, NEW p \in Requests, RequestStep(p),
           ~SendEmail(p), ~UpdateRecipient(p), ~Abort(p)
    PROVE  /\ pc[p] # "update"
           /\ pc'[p] = "update" => mark'[p] = "Skipped"
           /\ todo'[p] \subseteq todo[p] \cup PendingRecipients
           /\ UNCHANGED <<recipient, emailed, faults>>
<1> USE DEF Goto
<1>1. /\ pc \in [Requests -> Labels] /\ todo \in [Requests -> SUBSET Accounts]
      /\ mark \in [Requests -> Final]
  BY DEF TypeOK
<1>2. CASE ListDuePlans(p) \/ LoadForPause(p) \/ LoadForResume(p)
  BY <1>1, <1>2 DEF ListDuePlans, LoadForPause, LoadForResume, HasSlot, store, history
<1>3. CASE LoadPlan(p)
  BY <1>1, <1>3 DEF LoadPlan, HasSlot, store, history
<1>4. CASE RejectAdvance(p) \/ UpdateEmailPlanStatus(p)
  <2>1. Release(p) /\ pc[p] \in {"load", "save"} /\ UNCHANGED <<recipient, emailed, faults>>
    BY <1>4 DEF RejectAdvance, UpdateEmailPlanStatus, store, history
  <2> QED
    BY <1>1, <2>1 DEF Release
<1>5. CASE CountPendingRecipients(p) \/ CheckDailyCapacity(p)
  <2>1. PICK label \in {"capacity", "list", "save"} : pc' = [pc EXCEPT ![p] = label]
    BY <1>5 DEF CountPendingRecipients, CheckDailyCapacity
  <2>2. /\ pc[p] \in {"count", "capacity"}
        /\ UNCHANGED <<todo, recipient, emailed, faults>>
    BY <1>5 DEF CountPendingRecipients, CheckDailyCapacity, store, history
  <2> QED
    BY <1>1, <2>1, <2>2
<1>6. CASE ListPendingRecipients(p)
  BY <1>1, <1>6 DEF ListPendingRecipients, store, history
<1>7. CASE ResolveContact(p)
  <2>1. \/ pc' = [pc EXCEPT ![p] = "send"]
        \/ /\ mark' = [mark EXCEPT ![p] = "Skipped"]
           /\ pc' = [pc EXCEPT ![p] = "update"]
    BY <1>7 DEF ResolveContact
  <2>2. pc[p] = "loop" /\ UNCHANGED <<todo, recipient, emailed, faults>>
    BY <1>7 DEF ResolveContact, store, history
  <2> QED
    BY <1>1, <2>1, <2>2
<1>8. CASE FinishIdleAdvance(p) \/ InsertAdvance(p)
  BY <1>1, <1>8 DEF FinishIdleAdvance, InsertAdvance, store, history
<1> QED
  BY <1>2, <1>3, <1>4, <1>5, <1>6, <1>7, <1>8 DEF RequestStep, Progress

LEMMA QuietKeepsBounds ==
    ASSUME TypeOK, Slots, NEW p \in Requests, RequestStep(p),
           ~SendEmail(p), ~UpdateRecipient(p), ~Abort(p),
           NEW a \in Accounts, Bounded(a)
    PROVE  Bounded(a)'
<1>1. OnlyMoves(p)
  BY RequestFrame
<1>2. /\ pc[p] # "update"
      /\ pc'[p] = "update" => mark'[p] = "Skipped"
      /\ todo'[p] \subseteq todo[p] \cup PendingRecipients
      /\ UNCHANGED <<recipient, emailed, faults>>
  BY QuietFrame
<1>3. p \notin Sending(a) /\ p \notin Sending(a)'
  BY <1>2 DEF Sending
<1>4. p \in Holding(a)' => p \in Holding(a) \/ recipient[a] = "Pending"
  BY <1>2, <1>3 DEF Holding, PendingRecipients
<1> QED
  BY <1>1, <1>2, <1>3, <1>4, QuietStep

\* The request that emails a recipient now has it to update.
LEMMA SendKeepsBounds ==
    ASSUME TypeOK, Slots, NEW p \in Requests, SendEmail(p), NEW a \in Accounts, Bounded(a)
    PROVE  Bounded(a)'
<1>1. OnlyMoves(p)
  BY RequestFrame DEF RequestStep, Progress
<1>2. PICK c \in Conversations :
         /\ emailed' = [emailed EXCEPT ![cur[p]] = @ + c.accepted]
         /\ mark' = [mark EXCEPT ![p] = c.reported]
  BY DEF SendEmail
<1>3. c.accepted \in {0, 1} /\ c.reported \in {"Sent", "Failed"}
  BY <1>2 DEF Conversations
<1>4. /\ pc[p] = "send" /\ pc' = [pc EXCEPT ![p] = "update"]
      /\ cur[p] \in todo[p]
      /\ UNCHANGED <<recipient, faults, todo, cur>>
      /\ pc \in [Requests -> Labels] /\ mark \in [Requests -> Final]
      /\ emailed \in [Accounts -> Nat]
  BY DEF SendEmail, Goto, TypeOK, Slots, store
<1>5. CASE cur[p] # a
  <2>1. p \notin Sending(a) /\ p \notin Sending(a)'
    BY <1>4, <1>5 DEF Sending
  <2>2. Sending(a)' = Sending(a)
    BY <1>1, <2>1, OthersKept
  <2>3. Holding(a)' = Holding(a)
    BY <1>4, <2>2 DEF Holding
  <2>4. emailed'[a] = emailed[a]
    BY <1>2, <1>4, <1>5
  <2>5. /\ Cardinality(Sending(a))' = Cardinality(Sending(a))
        /\ Cardinality(Holding(a))' = Cardinality(Holding(a))
    BY <2>2, <2>3
  <2> QED
    BY <1>4, <2>4, <2>5 DEF Bounded
<1>6. CASE cur[p] = a
  <2>1. p \notin Sending(a) /\ p \in Sending(a)' /\ p \in Holding(a) /\ p \notin Holding(a)'
    BY <1>2, <1>3, <1>4, <1>6 DEF Sending, Holding
  <2>2. Sending(a)' = Sending(a) \cup {p} /\ Holding(a)' = Holding(a) \ {p}
    BY <1>1, <2>1, OthersKept
  <2>3. /\ IsFiniteSet(Sending(a)) /\ Cardinality(Sending(a)) \in Nat
        /\ IsFiniteSet(Holding(a)) /\ Cardinality(Holding(a)) \in Nat
    BY HolderSetsFinite
  <2>4. Cardinality(Sending(a) \cup {p}) = Cardinality(Sending(a)) + 1
    BY <2>1, <2>3, FS_AddElement
  <2>5. Cardinality(Holding(a) \ {p}) = Cardinality(Holding(a)) - 1
    BY <2>1, <2>3, FS_RemoveElement
  <2>6. /\ Cardinality(Sending(a))' = Cardinality(Sending(a)) + 1
        /\ Cardinality(Holding(a))' = Cardinality(Holding(a)) - 1
    BY <2>2, <2>4, <2>5
  <2>7. emailed'[a] = emailed[a] + c.accepted /\ emailed[a] \in Nat /\ faults \in Nat
    BY <1>2, <1>4, <1>6 DEF TypeOK
  <2>8. emailed'[a] <= emailed[a] + 1 /\ emailed'[a] \in Nat
    BY <1>3, <2>7
  <2>9. recipient'[a] = recipient[a] /\ faults' = faults
    BY <1>4
  <2> QED
    BY <2>3, <2>6, <2>7, <2>8, <2>9, PlanConstants DEF Bounded
<1> QED
  BY <1>5, <1>6

\* The request that updates a recipient holds it no longer.
LEMMA UpdateKeepsBounds ==
    ASSUME TypeOK, Slots, NEW p \in Requests, UpdateRecipient(p),
           NEW a \in Accounts, Bounded(a)
    PROVE  Bounded(a)'
<1>1. OnlyMoves(p)
  BY RequestFrame DEF RequestStep, Progress
<1>2. /\ pc[p] = "update" /\ pc' = [pc EXCEPT ![p] = "loop"]
      /\ recipient' = [recipient EXCEPT ![cur[p]] = mark[p]]
      /\ todo' = [todo EXCEPT ![p] = @ \ {cur[p]}]
      /\ UNCHANGED <<emailed, faults, cur, mark>>
      /\ pc \in [Requests -> Labels] /\ mark \in [Requests -> Final]
      /\ todo \in [Requests -> SUBSET Accounts]
      /\ recipient \in [Accounts -> Final \cup {"None", "Pending"}]
  BY DEF UpdateRecipient, Goto, TypeOK, history
<1>3. /\ IsFiniteSet(Sending(a)) /\ Cardinality(Sending(a)) \in Nat
      /\ IsFiniteSet(Holding(a)) /\ Cardinality(Holding(a)) \in Nat
  BY HolderSetsFinite
<1>4. emailed[a] \in Nat /\ faults \in Nat /\ MaxOverlap \in Nat
  BY PlanConstants DEF TypeOK
<1>5. CASE cur[p] # a
  <2>1. p \notin Sending(a) /\ p \notin Sending(a)'
    BY <1>2, <1>5 DEF Sending
  <2>2. Sending(a)' = Sending(a)
    BY <1>1, <2>1, OthersKept
  <2>3. p \in Holding(a)' <=> p \in Holding(a)
    BY <1>2, <1>5, <2>1 DEF Holding
  <2>4. Holding(a)' = Holding(a)
    BY <1>1, <2>3, OthersKept
  <2>5. recipient'[a] = recipient[a]
    BY <1>2, <1>5
  <2>6. /\ Cardinality(Sending(a))' = Cardinality(Sending(a))
        /\ Cardinality(Holding(a))' = Cardinality(Holding(a))
    BY <2>2, <2>4
  <2> QED
    BY <1>2, <2>5, <2>6 DEF Bounded
<1>6. CASE cur[p] = a
  <2>1. recipient'[a] # "Pending" /\ emailed'[a] = emailed[a] /\ faults' = faults
    BY <1>2, <1>6 DEF Final
  <2>2. p \notin Holding(a)' /\ p \notin Sending(a)'
    BY <1>2, <1>6 DEF Holding, Sending
  <2>3. Holding(a)' \subseteq Holding(a)
    BY <1>1, <2>2, OthersKept
  <2>4. Cardinality(Holding(a)') <= Cardinality(Holding(a)) /\ Cardinality(Holding(a)') \in Nat
    BY <1>3, <2>3, FS_Subset, FS_CardinalityType
  <2>5. emailed[a] + Cardinality(Holding(a)) <= MaxOverlap + faults
    <3>1. Cardinality(Sending(a)) + Cardinality(Holding(a)) <= MaxOverlap
      BY HoldersInFlight
    <3>2. CASE recipient[a] = "Pending"
      BY <1>3, <1>4, <3>1, <3>2 DEF Bounded
    <3>3. CASE recipient[a] # "Pending"
      BY <3>3 DEF Bounded
    <3> QED
      BY <3>2, <3>3
  <2>6. Cardinality(Holding(a))' <= Cardinality(Holding(a)) /\ Cardinality(Holding(a))' \in Nat
    BY <2>4
  <2>7. emailed'[a] + Cardinality(Holding(a))' <= MaxOverlap + faults'
    BY <1>3, <1>4, <2>1, <2>5, <2>6
  <2> QED
    BY <2>1, <2>7 DEF Bounded
<1> QED
  BY <1>5, <1>6

\* A request cut short is counted as a fault, and lets go of its recipients.
LEMMA AbortKeepsBounds ==
    ASSUME TypeOK, Slots, NEW p \in Requests, Abort(p), NEW a \in Accounts, Bounded(a)
    PROVE  Bounded(a)'
<1>1. OnlyMoves(p)
  BY RequestFrame DEF RequestStep
<1>2. /\ pc' = [pc EXCEPT ![p] = "idle"] /\ todo' = [todo EXCEPT ![p] = {}]
      /\ faults' = faults + 1
      /\ UNCHANGED <<recipient, emailed>>
      /\ pc \in [Requests -> Labels] /\ todo \in [Requests -> SUBSET Accounts]
  BY DEF Abort, Release, TypeOK, store
<1>3. /\ IsFiniteSet(Sending(a)) /\ Cardinality(Sending(a)) \in Nat
      /\ IsFiniteSet(Holding(a)) /\ Cardinality(Holding(a)) \in Nat
  BY HolderSetsFinite
<1>4. emailed[a] \in Nat /\ faults \in Nat /\ MaxOverlap \in Nat
  BY PlanConstants DEF TypeOK
<1>5. p \notin Sending(a)' /\ p \notin Holding(a)'
  BY <1>2 DEF Sending, Holding
<1>6. Sending(a)' = Sending(a) \ {p} /\ Holding(a)' = Holding(a) \ {p}
  BY <1>1, <1>5, OthersKept
<1>7. /\ Cardinality(Sending(a) \ {p}) \in {Cardinality(Sending(a)), Cardinality(Sending(a)) - 1}
      /\ Cardinality(Holding(a) \ {p}) \in {Cardinality(Holding(a)), Cardinality(Holding(a)) - 1}
  BY <1>3, FS_RemoveElement
<1>8. /\ Cardinality(Sending(a))' \in {Cardinality(Sending(a)), Cardinality(Sending(a)) - 1}
      /\ Cardinality(Holding(a))' \in {Cardinality(Holding(a)), Cardinality(Holding(a)) - 1}
  BY <1>6, <1>7
<1> QED
  BY <1>2, <1>3, <1>4, <1>8 DEF Bounded

----------------------------------------------------------------------------
LEMMA EmailInit == Init => EmailInv
<1> SUFFICES ASSUME Init PROVE EmailInv
  OBVIOUS
<1>1. Slots
  <2>1. Running = {}
    BY DEF Init, Running
  <2>2. Cardinality(Running) = 0
    BY <2>1, FS_EmptySet
  <2> QED
    BY <2>2, PlanConstants DEF Init, Slots
<1>2. ASSUME NEW a \in Accounts PROVE Bounded(a) /\ emailed[a] = 0
  <2>1. Holding(a) = {} /\ recipient[a] = "None" /\ emailed[a] = 0 /\ faults = 0
    BY DEF Init, Holding
  <2>2. Cardinality(Holding(a)) = 0
    BY <2>1, FS_EmptySet
  <2> QED
    BY <2>1, <2>2, PlanConstants DEF Bounded
<1> QED
  BY <1>1, <1>2 DEF EmailInv

LEMMA EmailRequest ==
    ASSUME RowInv, EmailInv, NEW p \in Requests, RequestStep(p)
    PROVE  EmailInv'
<1>1. TypeOK /\ Slots
  BY DEF RowInv, EmailInv
<1>2. TypeOK'
  BY <1>1, NextTyped DEF RequestStep, Next
<1>3. Slots'
  BY <1>1, <1>2, RequestFrame, SlotsKept
<1>4. ASSUME NEW a \in Accounts PROVE Bounded(a)'
  <2>1. Bounded(a)
    BY DEF EmailInv
  <2> QED
    BY <1>1, <2>1, QuietKeepsBounds, SendKeepsBounds, UpdateKeepsBounds, AbortKeepsBounds
<1>5. plan.status # "Absent" /\ plan'.status # "Absent"
  <2>1. plan.status # "Absent"
    <3>1. SUFFICES ASSUME plan.status = "Absent" PROVE FALSE
      OBVIOUS
    <3>2. pc[p] = "idle"
      BY <3>1 DEF RowInv, Lifecycle
    <3> QED
      BY <3>1, <3>2 DEF RequestStep, Progress, ListDuePlans, IsDue, LoadForPause, LoadForResume,
         LoadPlan, MayAdvance, RejectAdvance, CountPendingRecipients, CheckDailyCapacity,
         ListPendingRecipients, ResolveContact, SendEmail, UpdateRecipient,
         FinishIdleAdvance, InsertAdvance, UpdateEmailPlanStatus, Abort
  <2>2. plan' = plan \/ (pc[p] = "save" /\ plan' = copy[p])
    BY DEF RequestStep, Progress, ListDuePlans, LoadForPause, LoadForResume,
         LoadPlan, RejectAdvance, CountPendingRecipients, CheckDailyCapacity,
         ListPendingRecipients, ResolveContact, SendEmail, UpdateRecipient,
         FinishIdleAdvance, InsertAdvance, UpdateEmailPlanStatus, Abort, store
  <2>3. pc[p] = "save" => copy[p].status # "Absent"
    BY DEF RowInv, Lifecycle, Statuses
  <2> QED
    BY <2>1, <2>2, <2>3
<1> QED
  BY <1>3, <1>4, <1>5 DEF EmailInv

LEMMA EmailCreate ==
    ASSUME RowInv, EmailInv, CreatePlan
    PROVE  EmailInv'
<1>1. /\ plan.status = "Absent" /\ plan'.status = "Scheduled"
      /\ UNCHANGED <<pc, todo, cur, mark, faults, emailed>>
  BY DEF CreatePlan, locals, history
<1>2. \A p \in Requests : pc[p] = "idle"
  BY <1>1 DEF RowInv, Lifecycle
<1>3. Running' = Running /\ Cardinality(Running)' = Cardinality(Running)
  BY <1>1 DEF Running, Requests
<1>4. Slots'
  BY <1>1, <1>3 DEF EmailInv, Slots, Requests
<1>5. ASSUME NEW a \in Accounts PROVE Bounded(a)'
  <2>1. emailed'[a] = 0 /\ faults' = faults /\ faults \in Nat
    BY <1>1, PlanConstants DEF EmailInv, RowInv, TypeOK
  <2>2. Holding(a)' = {} /\ Sending(a)' = {}
    BY <1>1, <1>2 DEF Holding, Sending, EmailInv, Slots, Requests
  <2>3. Cardinality(Holding(a))' = 0 /\ Cardinality(Sending(a))' = 0
    BY <2>2, FS_EmptySet
  <2> QED
    BY <2>1, <2>3, PlanConstants DEF Bounded
<1> QED
  BY <1>1, <1>4, <1>5 DEF EmailInv

LEMMA EmailNext == RowInv /\ EmailInv /\ [Next]_vars => EmailInv'
<1> SUFFICES ASSUME RowInv, EmailInv, [Next]_vars PROVE EmailInv'
  OBVIOUS
<1>1. CASE Tick \/ UNCHANGED vars
  <2>1. UNCHANGED <<plan, recipient, pc, todo, cur, mark, faults, emailed>>
    BY <1>1 DEF Tick, vars, store, locals, history
  <2>2. \A a : Sending(a)' = Sending(a) /\ Holding(a)' = Holding(a)
    BY <2>1 DEF Sending, Holding, Requests
  <2>3. Running' = Running
    BY <2>1 DEF Running, Requests
  <2>4. /\ Cardinality(Running)' = Cardinality(Running)
        /\ \A a : /\ Cardinality(Sending(a))' = Cardinality(Sending(a))
                  /\ Cardinality(Holding(a))' = Cardinality(Holding(a))
    BY <2>2, <2>3
  <2>5. Slots'
    BY <2>1, <2>4 DEF EmailInv, Slots, Requests
  <2>6. \A a \in Accounts : Bounded(a)'
    BY <2>1, <2>4 DEF EmailInv, Bounded
  <2> QED
    BY <2>1, <2>5, <2>6 DEF EmailInv
<1>2. CASE CreatePlan
  BY <1>2, EmailCreate
<1>3. CASE \E p \in Requests : RequestStep(p)
  BY <1>3, EmailRequest
<1> QED
  BY <1>1, <1>2, <1>3 DEF Next, RequestStep

\* No recipient gets more emails than there were requests in flight at once
\* and requests cut short, for every schedule of advances, pauses, resumes,
\* SMTP outcomes and failures.
THEOREM DuplicatesAreBounded == Spec => []BoundedDuplicates
<1>1. ASSUME RowInv, EmailInv, NEW a \in Accounts PROVE emailed[a] <= MaxOverlap + faults
  <2>1. Bounded(a) /\ Slots /\ TypeOK
    BY <1>1 DEF RowInv, EmailInv
  <2>2. /\ Cardinality(Sending(a)) + Cardinality(Holding(a)) <= MaxOverlap
        /\ Cardinality(Sending(a)) \in Nat /\ Cardinality(Holding(a)) \in Nat
    BY <2>1, HoldersInFlight, HolderSetsFinite
  <2>3. emailed[a] \in Nat /\ faults \in Nat /\ MaxOverlap \in Nat
    BY <2>1, PlanConstants DEF TypeOK
  <2> QED
    BY <2>1, <2>2, <2>3 DEF Bounded
<1>2. RowInv /\ EmailInv => BoundedDuplicates
  BY <1>1 DEF BoundedDuplicates
<1> QED
  BY <1>2, RowInit, RowNext, EmailInit, EmailNext, PTL DEF Spec

----------------------------------------------------------------------------
(* One request at a time.  Then nobody writes the row between the load and *)
(* the update of a request, so its copy still tells what the row says.     *)

Undisturbed ==
    \A p \in Requests :
        /\ pc[p] \in Advancing => copy[p].status = plan.status
        /\ pc[p] = "save" =>
              /\ plan.status \in {"Scheduled", "Paused"}
              /\ plan.status = "Paused" /\ copy[p].status = "Scheduled" => p \in Toggles

AloneInv == MaxOverlap = 1 => Undisturbed

LEMMA OneInFlight ==
    ASSUME MaxOverlap = 1, Slots, TypeOK, NEW p \in Requests,
           pc[p] = "idle" => Cardinality(Running) < MaxOverlap,
           NEW q \in Requests, q # p
    PROVE  pc[q] = "idle"
<1> SUFFICES ASSUME pc[q] # "idle" PROVE FALSE
  OBVIOUS
<1>1. Running \subseteq Requests /\ q \in Running
  BY DEF Running
<1>2. IsFiniteSet(Running) /\ Cardinality(Running) \in Nat /\ Cardinality(Running) <= 1
  BY <1>1, RequestSetsFinite DEF Slots
<1>3. IsFiniteSet({q}) /\ Cardinality({q}) = 1
  BY FS_Singleton
<1>4. Cardinality({q}) <= Cardinality(Running)
  BY <1>1, <1>2, FS_Subset
<1>5. pc[p] # "idle"
  BY <1>2, <1>3, <1>4
<1>6. {q} \cup {p} \subseteq Running
  BY <1>1, <1>5 DEF Running
<1>7. IsFiniteSet({q} \cup {p}) /\ Cardinality({q} \cup {p}) = 2
  <2>1. p \notin {q}
    OBVIOUS
  <2>2. /\ IsFiniteSet({q} \cup {p})
        /\ Cardinality({q} \cup {p}) = Cardinality({q}) + 1
    BY <1>3, <2>1, FS_AddElement, Zenon
  <2> QED
    BY <1>3, <2>2
<1>8. Cardinality({q} \cup {p}) <= Cardinality(Running)
  BY <1>2, <1>6, <1>7, FS_Subset
<1> QED
  BY <1>2, <1>7, <1>8

(* What the step of a request makes of its place, its copy and the row.    *)
LEMMA CopyFollowsRow ==
    ASSUME MaxOverlap = 1, RowInv, Undisturbed, NEW p \in Requests, RequestStep(p)
    PROVE  \/ pc'[p] = "idle"
           \/ /\ plan' = plan
              /\ pc'[p] \in Advancing => copy'[p].status = plan.status
              /\ pc'[p] = "save" =>
                    /\ plan.status \in {"Scheduled", "Paused"}
                    /\ plan.status = "Paused" /\ copy'[p].status = "Scheduled" => p \in Toggles
<1> USE DEF Goto
<1>1. /\ pc \in [Requests -> Labels] /\ copy \in [Requests -> RowType]
      /\ plan \in RowType
      /\ pc[p] \in Advancing => /\ copy[p].status = plan.status
                                /\ copy[p].status \in {"Scheduled", "Paused"}
  BY DEF RowInv, TypeOK, Lifecycle, Undisturbed
<1>2. CASE ListDuePlans(p)
  BY <1>1, <1>2 DEF ListDuePlans, Advancing, store
<1>3. CASE LoadPlan(p)
  BY <1>1, <1>3 DEF LoadPlan, Advancing, store
<1>4. CASE LoadForPause(p) \/ LoadForResume(p)
  <2>1. p \in Toggles /\ plan' = plan /\ pc' = [pc EXCEPT ![p] = "save"]
        /\ plan.status \notin {"Absent", "Completed"}
    BY <1>4 DEF LoadForPause, LoadForResume, store
  <2> QED
    BY <1>1, <2>1 DEF RowType, Statuses, Advancing
<1>5. CASE RejectAdvance(p) \/ UpdateEmailPlanStatus(p) \/ Abort(p)
  <2>1. pc' = [pc EXCEPT ![p] = "idle"]
    BY <1>5 DEF RejectAdvance, UpdateEmailPlanStatus, Abort, Release
  <2> QED
    BY <1>1, <2>1
<1>6. CASE CountPendingRecipients(p) \/ CheckDailyCapacity(p)
  <2>1. pc[p] \in Advancing /\ plan' = plan
    BY <1>6 DEF CountPendingRecipients, CheckDailyCapacity, Advancing, store
  <2>2. \/ copy' = copy /\ pc' \in {[pc EXCEPT ![p] = label] : label \in {"capacity", "list"}}
        \/ /\ pc' = [pc EXCEPT ![p] = "save"]
           /\ \/ copy' = [copy EXCEPT ![p] = CompletedRow(copy[p])]
              \/ copy' = [copy EXCEPT ![p] = CappedRow(copy[p], started[p])]
    BY <1>6 DEF CountPendingRecipients, CheckDailyCapacity
  <2>3. /\ CompletedRow(copy[p]).status = "Completed"
        /\ CappedRow(copy[p], started[p]).status = copy[p].status
    BY <1>1 DEF CompletedRow, CappedRow, RowType
  <2>4. CASE copy' = copy /\ pc' \in {[pc EXCEPT ![p] = label] : label \in {"capacity", "list"}}
    BY <1>1, <2>1, <2>4 DEF Advancing
  <2>5. CASE pc' = [pc EXCEPT ![p] = "save"] /\ copy' = [copy EXCEPT ![p] = CompletedRow(copy[p])]
    BY <1>1, <2>1, <2>3, <2>5 DEF Advancing
  <2>6. CASE /\ pc' = [pc EXCEPT ![p] = "save"]
             /\ copy' = [copy EXCEPT ![p] = CappedRow(copy[p], started[p])]
    BY <1>1, <2>1, <2>3, <2>6 DEF Advancing
  <2> QED
    BY <2>2, <2>4, <2>5, <2>6
<1>7. CASE ListPendingRecipients(p) \/ ResolveContact(p) \/ SendEmail(p) \/ UpdateRecipient(p)
  <2>1. pc[p] \in Advancing /\ UNCHANGED <<plan, copy>>
    BY <1>7 DEF ListPendingRecipients, ResolveContact, SendEmail, UpdateRecipient,
         Advancing, store
  <2>2. PICK label \in {"loop", "send", "update"} : pc' = [pc EXCEPT ![p] = label]
    BY <1>7 DEF ListPendingRecipients, ResolveContact, SendEmail, UpdateRecipient
  <2> QED
    BY <1>1, <2>1, <2>2 DEF Advancing
<1>8. CASE FinishIdleAdvance(p) \/ InsertAdvance(p)
  <2>1. /\ pc[p] \in Advancing /\ plan' = plan
        /\ pc' = [pc EXCEPT ![p] = "save"]
        /\ \E count : copy' = [copy EXCEPT ![p] = AdvancedRow(p, count)]
    BY <1>8 DEF FinishIdleAdvance, InsertAdvance, Advancing, store
  <2>2. \A count : /\ AdvancedRow(p, count).status \in {"Scheduled", "Paused", "Completed"}
                   /\ copy[p].status = "Paused" => AdvancedRow(p, count).status # "Scheduled"
    BY <1>1, <2>1 DEF AdvancedRow, CompletedRow, RowType
  <2> QED
    BY <1>1, <2>1, <2>2 DEF Advancing
<1> QED
  BY <1>2, <1>3, <1>4, <1>5, <1>6, <1>7, <1>8 DEF RequestStep, Progress

LEMMA AloneNext == RowInv /\ EmailInv /\ AloneInv /\ [Next]_vars => AloneInv'
<1> SUFFICES ASSUME RowInv, EmailInv, AloneInv, [Next]_vars, MaxOverlap = 1
             PROVE  Undisturbed'
  BY DEF AloneInv
<1>1. Undisturbed
  BY DEF AloneInv
<1>2. CASE Tick \/ UNCHANGED vars
  <2>1. UNCHANGED <<plan, pc, copy>>
    BY <1>2 DEF Tick, vars, store, locals
  <2> QED
    BY <1>1, <2>1 DEF Undisturbed
<1>3. CASE CreatePlan
  <2>1. \A p \in Requests : pc'[p] = "idle"
    BY <1>3 DEF CreatePlan, RowInv, Lifecycle, locals
  <2> QED
    BY <2>1 DEF Undisturbed, Advancing
<1>4. ASSUME NEW p \in Requests, RequestStep(p) PROVE Undisturbed'
  <2>1. TypeOK /\ Slots
    BY DEF RowInv, EmailInv
  <2>2. OnlyMoves(p) /\ (pc[p] = "idle" => Cardinality(Running) < MaxOverlap)
    BY <1>4, <2>1, RequestFrame
  <2>3. \A q \in Requests \ {p} : pc[q] = "idle"
    BY <2>1, <2>2, OneInFlight
  <2>4. \A q \in Requests \ {p} : pc'[q] = "idle"
    BY <2>2, <2>3 DEF OnlyMoves
  <2>5. \/ pc'[p] = "idle"
        \/ /\ plan' = plan
           /\ pc'[p] \in Advancing => copy'[p].status = plan.status
           /\ pc'[p] = "save" =>
                 /\ plan.status \in {"Scheduled", "Paused"}
                 /\ plan.status = "Paused" /\ copy'[p].status = "Scheduled" => p \in Toggles
    BY <1>1, <1>4, CopyFollowsRow
  <2> QED
    BY <2>4, <2>5 DEF Undisturbed, Advancing
<1> QED
  BY <1>2, <1>3, <1>4 DEF Next, RequestStep

(* The row changes when a plan is created and when a request saves it.     *)
LEMMA RowIsSaved ==
    ASSUME [Next]_vars
    PROVE  \/ plan' = plan
           \/ plan.status = "Absent"
           \/ \E p \in Requests : pc[p] = "save" /\ plan' = copy[p]
<1>1. CASE CreatePlan \/ Tick \/ UNCHANGED vars
  BY <1>1 DEF CreatePlan, Tick, vars, store
<1>2. ASSUME NEW p \in Requests, RequestStep(p)
      PROVE  plan' = plan \/ (pc[p] = "save" /\ plan' = copy[p])
  BY <1>2 DEF RequestStep, Progress, ListDuePlans, LoadForPause, LoadForResume,
       LoadPlan, RejectAdvance, CountPendingRecipients, CheckDailyCapacity,
       ListPendingRecipients, ResolveContact, SendEmail, UpdateRecipient,
       FinishIdleAdvance, InsertAdvance, UpdateEmailPlanStatus, Abort, store
<1> QED
  BY <1>1, <1>2 DEF Next, RequestStep

LEMMA AloneInit == Init => AloneInv
BY DEF Init, AloneInv, Undisturbed, Advancing

\* "Completed plans cannot be paused", resumed or advanced: with one request
\* at a time a Completed plan keeps its status, through errors and crashes.
THEOREM CompletedStays == MaxOverlap = 1 => (Spec => CompletedIsFinal)
<1> SUFFICES ASSUME MaxOverlap = 1 PROVE Spec => CompletedIsFinal
  OBVIOUS
<1>1. AloneInv /\ [Next]_vars => [plan.status = "Completed" => plan'.status = "Completed"]_vars
  <2> SUFFICES ASSUME AloneInv, [Next]_vars, plan.status = "Completed"
               PROVE  plan'.status = "Completed"
    OBVIOUS
  <2>1. \A p \in Requests : pc[p] # "save"
    BY DEF AloneInv, Undisturbed
  <2> QED
    BY <2>1, RowIsSaved
<1> QED
  BY <1>1, RowInit, RowNext, EmailInit, EmailNext, AloneInit, AloneNext, PTL
     DEF Spec, CompletedIsFinal

\* With one request at a time only a resume makes a Paused plan Scheduled: a
\* manual advance of it, also one cut short, leaves it Paused or completes it.
THEOREM PausesHold == MaxOverlap = 1 => (Spec => PauseHolds)
<1> SUFFICES ASSUME MaxOverlap = 1 PROVE Spec => PauseHolds
  OBVIOUS
<1>1. RowInv /\ AloneInv /\ [Next]_vars =>
         [plan.status = "Paused" /\ plan'.status = "Scheduled" =>
             \E p \in Toggles : pc[p] = "save" /\ ~copy[p].paused]_vars
  <2> SUFFICES ASSUME RowInv, AloneInv, [Next]_vars,
                      plan.status = "Paused", plan'.status = "Scheduled"
               PROVE  \E p \in Toggles : pc[p] = "save" /\ ~copy[p].paused
    OBVIOUS
  <2>1. PICK p \in Requests : pc[p] = "save" /\ plan' = copy[p]
    BY RowIsSaved
  <2>2. p \in Toggles
    BY <2>1 DEF AloneInv, Undisturbed
  <2>3. ~copy[p].paused
    BY <2>1 DEF RowInv, RowsConsistent, Consistent
  <2> QED
    BY <2>1, <2>2, <2>3
<1> QED
  BY <1>1, RowInit, RowNext, EmailInit, EmailNext, AloneInit, AloneNext, PTL
     DEF Spec, PauseHolds

----------------------------------------------------------------------------
(* The recorded attempts of one day.  An advance that has read the sum of  *)
(* its day and not yet added to it may still add as much as it may send.   *)
(* Of the advances of a day in that position, one accounts for itself with *)
(* what the sum was when it read it, the others with one interval each.    *)

Limited == params.perDay # NoLimit /\ params.perInterval >= 0
Allowance == params.perDay + (MaxOverlap - 1) * params.perInterval

Emailing == {"list", "loop", "send", "update"}
Counting(d) == {p \in Requests : pc[p] \in Emailing /\ Day(started[p]) = d}

Fits(d, p) ==
    attemptedOn[d] + SendCapacity(left[p])
        + (Cardinality(Counting(d)) - 1) * params.perInterval <= Allowance

Capped(d) ==
    /\ Counting(d) = {} => attemptedOn[d] <= Allowance
    /\ Counting(d) # {} => \E p \in Counting(d) : Fits(d, p)

(* What a request has attempted is within what it may send.                *)
TallyFits(p) ==
    /\ pc[p] \notin {"loop", "send", "update", "save"} => tally[p] = Zero
    /\ pc[p] \in Emailing =>
          /\ left[p] \in (Nat \ {0}) \cup {NoLimit}
          /\ params.perDay # NoLimit => left[p] # NoLimit
          /\ params.perInterval >= 0 => Attempted(p) <= SendCapacity(left[p])
    /\ pc[p] = "send" => Attempted(p) < SendCapacity(left[p])

CapInv ==
    /\ ValidLimits(params.perInterval, params.perDay)
    /\ plan.status = "Absent" => \A d \in Days : attemptedOn[d] = 0
    /\ \A p \in Requests : TallyFits(p)
    /\ Limited => \A d \in Days : Capped(d)

(* p is the only request whose advance takes a step.                       *)
OnlyAdvances(p) ==
    \A q \in Requests \ {p} :
        /\ pc'[q] = pc[q] /\ started'[q] = started[q] /\ left'[q] = left[q]
        /\ tally'[q] = tally[q] /\ copy'[q] = copy[q]

----------------------------------------------------------------------------
LEMMA Products ==
    ASSUME NEW n \in Nat, NEW a \in Int, NEW b \in Int
    PROVE  /\ a * n \in Int /\ b * n \in Int
           /\ (a - 1) * n = a * n - n
           /\ a <= b => a * n <= b * n
<1>1. a * n \in Int /\ b * n \in Int
  OBVIOUS
<1>2. (a - 1) * n = a * n - n
  OBVIOUS
<1>3. ASSUME a <= b PROVE a * n <= b * n
  <2> DEFINE k == b - a
  <2>1. k \in Nat /\ b = a + k
    BY <1>3
  <2> HIDE DEF k
  <2>2. k * n \in Nat
    BY <2>1
  <2>3. b * n = a * n + k * n
    BY <2>1
  <2> QED
    BY <1>1, <2>2, <2>3
<1> QED
  BY <1>1, <1>2, <1>3

LEMMA CapacityBounds ==
    ASSUME TypeOK, NEW remaining \in Int \cup {NoLimit}
    PROVE  /\ SendCapacity(remaining) \in Int
           /\ SendCapacity(remaining) <= params.perInterval
           /\ remaining # NoLimit => SendCapacity(remaining) <= remaining
           /\ params.perInterval >= 0 /\ remaining \in Nat \cup {NoLimit} =>
                 SendCapacity(remaining) \in Nat
<1>1. params.perInterval \in Int
  BY DEF TypeOK
<1> QED
  BY <1>1, PlanConstants DEF SendCapacity

LEMMA OthersAdvanceNot ==
    ASSUME TypeOK, NEW p \in Requests, RequestStep(p)
    PROVE  OnlyAdvances(p)
<1> USE DEF OnlyAdvances, Goto
<1>1. CASE ListDuePlans(p) \/ LoadPlan(p) \/ LoadForPause(p) \/ LoadForResume(p)
  BY <1>1 DEF TypeOK, ListDuePlans, LoadPlan, LoadForPause, LoadForResume
<1>2. CASE RejectAdvance(p) \/ UpdateEmailPlanStatus(p) \/ Abort(p)
  <2>1. Release(p)
    BY <1>2 DEF RejectAdvance, UpdateEmailPlanStatus, Abort
  <2> QED
    BY <2>1 DEF Release, TypeOK
<1>3. CASE CountPendingRecipients(p)
  BY <1>3 DEF TypeOK, CountPendingRecipients
<1>4. CASE CheckDailyCapacity(p)
  <2>1. \E label : pc' = [pc EXCEPT ![p] = label]
    BY <1>4 DEF CheckDailyCapacity
  <2>2. copy' = copy \/ \E row : copy' = [copy EXCEPT ![p] = row]
    BY <1>4 DEF CheckDailyCapacity
  <2>3. left' = left \/ \E n : left' = [left EXCEPT ![p] = n]
    BY <1>4 DEF CheckDailyCapacity
  <2>4. started' = started /\ tally' = tally
    BY <1>4 DEF CheckDailyCapacity
  <2> QED
    BY <2>1, <2>2, <2>3, <2>4 DEF TypeOK
<1>5. CASE ListPendingRecipients(p) \/ UpdateRecipient(p)
  BY <1>5 DEF TypeOK, ListPendingRecipients, UpdateRecipient
<1>6. CASE ResolveContact(p) \/ SendEmail(p)
  <2>1. \E label : pc' = [pc EXCEPT ![p] = label]
    BY <1>6 DEF ResolveContact, SendEmail
  <2>2. \/ tally' = tally
        \/ tally' = [tally EXCEPT ![p].skipped = @ + 1]
        \/ tally' = [tally EXCEPT ![p].sent = @ + 1]
        \/ tally' = [tally EXCEPT ![p].failed = @ + 1]
    BY <1>6 DEF ResolveContact, SendEmail
  <2>3. UNCHANGED <<started, left, copy>>
    BY <1>6 DEF ResolveContact, SendEmail
  <2> QED
    BY <2>1, <2>2, <2>3 DEF TypeOK
<1>7. CASE FinishIdleAdvance(p) \/ InsertAdvance(p)
  <2>1. /\ pc' = [pc EXCEPT ![p] = "save"]
        /\ \E row : copy' = [copy EXCEPT ![p] = row]
        /\ UNCHANGED <<started, left, tally>>
    BY <1>7 DEF FinishIdleAdvance, InsertAdvance
  <2> QED
    BY <2>1 DEF TypeOK
<1> QED
  BY <1>1, <1>2, <1>3, <1>4, <1>5, <1>6, <1>7 DEF RequestStep, Progress

(* No step of a request changes the limits or creates the plan.            *)
LEMMA LimitsStay ==
    ASSUME RowInv, NEW p \in Requests, RequestStep(p)
    PROVE  params' = params /\ plan.status # "Absent" /\ plan'.status # "Absent"
<1>1. params' = params
  BY DEF RequestStep, Progress, ListDuePlans, LoadForPause, LoadForResume,
       LoadPlan, RejectAdvance, CountPendingRecipients, CheckDailyCapacity,
       ListPendingRecipients, ResolveContact, SendEmail, UpdateRecipient,
       FinishIdleAdvance, InsertAdvance, UpdateEmailPlanStatus, Abort, store
<1>2. plan.status # "Absent"
  <2>1. SUFFICES ASSUME plan.status = "Absent" PROVE FALSE
    OBVIOUS
  <2>2. pc[p] = "idle"
    BY <2>1 DEF RowInv, Lifecycle
  <2> QED
    BY <2>1, <2>2 DEF RequestStep, Progress, ListDuePlans, IsDue, LoadForPause, LoadForResume,
       LoadPlan, MayAdvance, RejectAdvance, CountPendingRecipients, CheckDailyCapacity,
       ListPendingRecipients, ResolveContact, SendEmail, UpdateRecipient,
       FinishIdleAdvance, InsertAdvance, UpdateEmailPlanStatus, Abort
<1>3. plan' = plan \/ (pc[p] = "save" /\ plan' = copy[p])
  BY DEF RequestStep, Progress, ListDuePlans, LoadForPause, LoadForResume,
       LoadPlan, RejectAdvance, CountPendingRecipients, CheckDailyCapacity,
       ListPendingRecipients, ResolveContact, SendEmail, UpdateRecipient,
       FinishIdleAdvance, InsertAdvance, UpdateEmailPlanStatus, Abort, store
<1>4. pc[p] = "save" => copy[p].status # "Absent"
  BY DEF RowInv, Lifecycle, Statuses
<1> QED
  BY <1>1, <1>2, <1>3, <1>4

(* A request attempts no more than what the daily capacity it found and    *)
(* one interval leave it.                                                  *)
LEMMA TallyStep ==
    ASSUME TypeOK, TypeOK', ValidLimits(params.perInterval, params.perDay),
           NEW p \in Requests, RequestStep(p), TallyFits(p), params' = params
    PROVE  TallyFits(p)'
<1> USE DEF Goto
<1>1. /\ pc \in [Requests -> Labels] /\ tally \in [Requests -> TallyType]
      /\ left \in [Requests -> Int \cup {NoLimit}]
      /\ tally[p].sent \in Nat /\ tally[p].failed \in Nat /\ Attempted(p) \in Nat
      /\ params.perInterval \in Int /\ params.perDay \in Int \cup {NoLimit}
  BY CountsTyped DEF TypeOK, TallyType
<1>2. \A remaining : SendCapacity(remaining)' = SendCapacity(remaining)
  BY DEF SendCapacity
<1>3. SendCapacity(left[p]) \in Int
  BY <1>1, CapacityBounds
<1>4. ASSUME NEW label \in {"loop", "update", "save"},
             pc' = [pc EXCEPT ![p] = label], label # "save" => pc[p] \in Emailing,
             left' = left, Attempted(p)' = Attempted(p)
      PROVE  TallyFits(p)'
  BY <1>1, <1>2, <1>4 DEF TallyFits, Emailing
<1>5. CASE ListDuePlans(p) \/ LoadPlan(p)
  <2>1. pc'[p] \in {"load", "count"} /\ tally' = tally /\ pc[p] \in {"idle", "load"}
    BY <1>1, <1>5 DEF ListDuePlans, LoadPlan, HasSlot
  <2> QED
    BY <2>1 DEF TallyFits, Emailing
<1>6. CASE LoadForPause(p) \/ LoadForResume(p)
  <2>1. pc'[p] = "save" /\ tally' = tally
    BY <1>1, <1>6 DEF LoadForPause, LoadForResume
  <2> QED
    BY <2>1 DEF TallyFits, Emailing
<1>7. CASE RejectAdvance(p) \/ UpdateEmailPlanStatus(p) \/ Abort(p)
  <2>1. Release(p)
    BY <1>7 DEF RejectAdvance, UpdateEmailPlanStatus, Abort
  <2>2. pc'[p] = "idle" /\ tally'[p] = Zero
    BY <1>1, <2>1 DEF Release
  <2> QED
    BY <2>2 DEF TallyFits, Emailing
<1>8. CASE CountPendingRecipients(p)
  <2>1. pc'[p] \in {"capacity", "save"} /\ tally' = tally /\ pc[p] = "count"
    BY <1>1, <1>8 DEF CountPendingRecipients
  <2> QED
    BY <2>1 DEF TallyFits, Emailing
<1>9. CASE CheckDailyCapacity(p)
  <2>1. pc[p] = "capacity" /\ tally' = tally /\ tally[p] = Zero
    BY <1>9 DEF CheckDailyCapacity, TallyFits, Emailing
  <2>2. CASE pc'[p] = "save"
    BY <2>1, <2>2 DEF TallyFits, Emailing
  <2>3. CASE pc'[p] # "save"
    <3> DEFINE remaining == RemainingDailyCapacity(started[p])
    <3>1. remaining # 0 /\ pc'[p] = "list" /\ left' = [left EXCEPT ![p] = remaining]
      BY <1>1, <1>9, <2>3 DEF CheckDailyCapacity
    <3>2. /\ remaining \in Nat \cup {NoLimit}
          /\ params.perDay # NoLimit => remaining # NoLimit
      <4>1. started[p] \in 0..Horizon
        BY DEF TypeOK
      <4>2. attemptedOn[Day(started[p])] \in Nat
        BY <4>1, DayOfClock DEF TypeOK
      <4> QED
        BY <1>1, <4>2, PlanConstants DEF RemainingDailyCapacity
    <3> HIDE DEF remaining
    <3>3. left'[p] = remaining
      BY <1>1, <3>1
    <3>4. Attempted(p)' = 0
      BY <2>1 DEF Attempted, Zero
    <3>5. params.perInterval >= 0 => SendCapacity(remaining) \in Nat
      BY <3>2, CapacityBounds
    <3> QED
      BY <1>2, <2>1, <3>1, <3>2, <3>3, <3>4, <3>5 DEF TallyFits, Emailing
  <2> QED
    BY <2>2, <2>3
<1>10. CASE ListPendingRecipients(p)
  <2>1. /\ pc[p] = "list" /\ pc' = [pc EXCEPT ![p] = "loop"] /\ UNCHANGED <<left, tally>>
    BY <1>10 DEF ListPendingRecipients
  <2>2. Attempted(p)' = Attempted(p)
    BY <2>1 DEF Attempted
  <2> QED
    BY <1>4, <2>1, <2>2 DEF Emailing
<1>11. CASE ResolveContact(p)
  <2>1. /\ pc[p] = "loop" /\ left' = left
        /\ ~(Attempted(p) >= SendCapacity(left[p]))
    BY <1>11 DEF ResolveContact, LoopDone
  <2>2. \/ pc' = [pc EXCEPT ![p] = "send"] /\ tally' = tally
        \/ /\ pc' = [pc EXCEPT ![p] = "update"]
           /\ tally' = [tally EXCEPT ![p].skipped = @ + 1]
    BY <1>11 DEF ResolveContact
  <2>3. CASE pc' = [pc EXCEPT ![p] = "send"] /\ tally' = tally
    <3>1. Attempted(p)' = Attempted(p) /\ pc'[p] = "send"
      BY <1>1, <2>3 DEF Attempted
    <3>2. SendCapacity(left[p])' = SendCapacity(left[p]) /\ left'[p] = left[p]
      BY <1>2, <2>1
    <3> QED
      BY <1>1, <1>3, <2>1, <3>1, <3>2 DEF TallyFits, Emailing
  <2>4. CASE /\ pc' = [pc EXCEPT ![p] = "update"]
             /\ tally' = [tally EXCEPT ![p].skipped = @ + 1]
    <3>1. tally'[p].sent = tally[p].sent /\ tally'[p].failed = tally[p].failed
      BY <1>1, <2>4 DEF TallyType
    <3>2. Attempted(p)' = Attempted(p)
      BY <3>1 DEF Attempted
    <3> QED
      BY <1>4, <2>1, <2>4, <3>2 DEF Emailing
  <2> QED
    BY <2>2, <2>3, <2>4
<1>12. CASE SendEmail(p)
  <2>1. /\ pc[p] = "send" /\ pc' = [pc EXCEPT ![p] = "update"] /\ left' = left
        /\ \/ tally' = [tally EXCEPT ![p].sent = @ + 1]
           \/ tally' = [tally EXCEPT ![p].failed = @ + 1]
    BY <1>12 DEF SendEmail
  <2>2. Attempted(p)' = Attempted(p) + 1
    BY <1>1, <2>1 DEF Attempted, TallyType
  <2>3. SendCapacity(left[p])' = SendCapacity(left[p]) /\ left'[p] = left[p] /\ pc'[p] = "update"
    BY <1>1, <1>2, <2>1
  <2>4. Attempted(p) < SendCapacity(left[p])
    BY <2>1 DEF TallyFits
  <2> QED
    BY <1>1, <1>3, <2>1, <2>2, <2>3, <2>4 DEF TallyFits, Emailing
<1>13. CASE UpdateRecipient(p)
  <2>1. /\ pc[p] = "update" /\ pc' = [pc EXCEPT ![p] = "loop"] /\ UNCHANGED <<left, tally>>
    BY <1>13 DEF UpdateRecipient
  <2>2. Attempted(p)' = Attempted(p)
    BY <2>1 DEF Attempted
  <2> QED
    BY <1>4, <2>1, <2>2 DEF Emailing
<1>14. CASE FinishIdleAdvance(p) \/ InsertAdvance(p)
  <2>1. pc' = [pc EXCEPT ![p] = "save"] /\ UNCHANGED <<left, tally>>
    BY <1>14 DEF FinishIdleAdvance, InsertAdvance
  <2>2. Attempted(p)' = Attempted(p)
    BY <2>1 DEF Attempted
  <2> QED
    BY <1>4, <2>1, <2>2
<1> QED
  BY <1>5, <1>6, <1>7, <1>8, <1>9, <1>10, <1>11, <1>12, <1>13, <1>14
     DEF RequestStep, Progress

LEMMA CountingSetsFinite ==
    ASSUME NEW d
    PROVE  IsFiniteSet(Counting(d)) /\ Cardinality(Counting(d)) \in Nat
<1>1. Counting(d) \subseteq Requests
  BY DEF Counting
<1> QED
  BY <1>1, RequestSetsFinite

LEMMA OthersCount ==
    ASSUME NEW p \in Requests, OnlyAdvances(p), NEW d
    PROVE  /\ Counting(d)' \ {p} = Counting(d) \ {p}
           /\ \A q \in Counting(d) \ {p} : left'[q] = left[q]
BY DEF OnlyAdvances, Counting

(* The advance of p goes on, or has nothing to do with the day.            *)
LEMMA CapUndisturbed ==
    ASSUME TypeOK, NEW p \in Requests, OnlyAdvances(p), NEW d \in Days, Capped(d),
           p \in Counting(d)' <=> p \in Counting(d),
           p \in Counting(d) => left'[p] = left[p],
           attemptedOn'[d] = attemptedOn[d], params' = params
    PROVE  Capped(d)'
<1>1. Counting(d)' = Counting(d)
  BY OthersCount
<1>2. \A q \in Counting(d) : left'[q] = left[q]
  BY OthersCount
<1>3. \A q \in Counting(d) : SendCapacity(left[q])' = SendCapacity(left[q])
  BY <1>2 DEF SendCapacity
<1>4. Allowance' = Allowance
  BY DEF Allowance
<1>5. Cardinality(Counting(d))' = Cardinality(Counting(d))
  BY <1>1
<1>6. \A q \in Counting(d) : Fits(d, q)' <=> Fits(d, q)
  BY <1>3, <1>4, <1>5 DEF Fits
<1> QED
  BY <1>1, <1>4, <1>6 DEF Capped

(* An advance that reads the sum takes no more than what is left of the    *)
(* day, whatever the others may still add.                                 *)
LEMMA CapEntered ==
    ASSUME TypeOK, TypeOK', Slots', Limited, NEW p \in Requests, OnlyAdvances(p), NEW d \in Days,
           p \in Counting(d)', left'[p] = params.perDay - attemptedOn[d],
           attemptedOn'[d] = attemptedOn[d], params' = params
    PROVE  Capped(d)'
<1> DEFINE c == Cardinality(Counting(d)')
           n == params.perInterval
<1>1. /\ params.perDay \in Int /\ n \in Nat /\ attemptedOn[d] \in Nat
      /\ left'[p] \in Int \cup {NoLimit} /\ left'[p] # NoLimit
  BY PlanConstants DEF Limited, TypeOK
<1>2. c \in Nat /\ c <= MaxOverlap
  <2>1. Counting(d)' \subseteq Running' /\ Running' \subseteq Requests
    BY DEF Counting, Running, Emailing, Requests
  <2>2. IsFiniteSet(Running') /\ IsFiniteSet(Counting(d)') /\ Cardinality(Running') \in Nat
        /\ c \in Nat
    BY <2>1, RequestSetsFinite
  <2>3. c <= Cardinality(Running')
    BY <2>1, <2>2, FS_Subset
  <2>4. Cardinality(Running') <= MaxOverlap
    BY DEF Slots
  <2> QED
    BY <2>2, <2>3, <2>4, PlanConstants
<1>3. SendCapacity(left[p])' <= left'[p] /\ SendCapacity(left[p])' \in Int
  BY <1>1, PlanConstants DEF SendCapacity
<1> HIDE DEF c, n
<1>4. (c - 1) * n <= (MaxOverlap - 1) * n /\ (c - 1) * n \in Int /\ (MaxOverlap - 1) * n \in Int
  BY <1>1, <1>2, Products, PlanConstants
<1>5. attemptedOn[d] + SendCapacity(left[p])' + (c - 1) * n
         <= params.perDay + (MaxOverlap - 1) * n
  BY <1>1, <1>3, <1>4
<1>6. Fits(d, p)'
  BY <1>5 DEF Fits, Allowance, c, n
<1> QED
  BY <1>6 DEF Capped

(* An advance that ends adds at most what it may send; if it was the one   *)
(* that accounted for itself, any other can take its part.                 *)
LEMMA CapLeft ==
    ASSUME TypeOK, TypeOK', Limited, NEW p \in Requests, OnlyAdvances(p), NEW d \in Days,
           Capped(d), \A q \in Requests : TallyFits(q),
           p \in Counting(d), p \notin Counting(d)',
           NEW k \in Nat, k <= SendCapacity(left[p]),
           attemptedOn'[d] = attemptedOn[d] + k, params' = params
    PROVE  Capped(d)'
<1> DEFINE c == Cardinality(Counting(d))
           n == params.perInterval
<1>1. /\ params.perDay \in Int /\ n \in Nat /\ attemptedOn[d] \in Nat /\ MaxOverlap \in Nat
      /\ Allowance \in Int
  <2>1. params.perDay \in Int /\ n \in Nat /\ attemptedOn[d] \in Nat
    BY PlanConstants DEF Limited, TypeOK
  <2> QED
    BY <2>1, PlanConstants DEF Allowance
<1>2. Allowance' = Allowance
  BY DEF Allowance
<1>3. ASSUME NEW q \in Counting(d)
      PROVE  SendCapacity(left[q]) \in Nat /\ SendCapacity(left[q]) <= n
  <2>1. q \in Requests /\ pc[q] \in Emailing
    BY DEF Counting
  <2>2. left[q] \in Nat \cup {NoLimit} /\ left[q] \in Int \cup {NoLimit}
    BY <2>1 DEF TallyFits
  <2> QED
    BY <1>1, <2>2, CapacityBounds
<1>4. /\ Counting(d)' = Counting(d) \ {p}
      /\ \A q \in Counting(d)' : q \in Counting(d) /\ SendCapacity(left[q])' = SendCapacity(left[q])
  <2>1. Counting(d)' = Counting(d) \ {p}
    BY OthersCount
  <2>2. \A q \in Counting(d) \ {p} : left'[q] = left[q]
    BY OthersCount
  <2> QED
    BY <2>1, <2>2 DEF SendCapacity
<1>5. c \in Nat /\ Cardinality(Counting(d))' = c - 1
  <2>1. IsFiniteSet(Counting(d)) /\ c \in Nat
    BY CountingSetsFinite
  <2>2. Cardinality(Counting(d) \ {p}) = c - 1
    BY <2>1, FS_RemoveElement
  <2> QED
    BY <1>4, <2>1, <2>2
<1>6. PICK w \in Counting(d) : Fits(d, w)
  BY DEF Capped
<1> HIDE DEF c, n
<1>7. /\ (c - 1) * n \in Int /\ (c - 2) * n = (c - 1) * n - n
  <2>1. c - 1 \in Int /\ c - 2 = (c - 1) - 1
    BY <1>5
  <2> QED
    BY <1>1, <2>1, Products
<1>8. attemptedOn[d] + SendCapacity(left[w]) + (c - 1) * n <= Allowance
  BY <1>6 DEF Fits, c, n
<1>9. ASSUME NEW q \in Counting(d)', q = w \/ w = p
      PROVE  Fits(d, q)'
  <2>1. SendCapacity(left[q])' = SendCapacity(left[q]) /\ q \in Counting(d)
    BY <1>4
  <2>2. attemptedOn[d] + k + SendCapacity(left[q]) + (c - 2) * n <= Allowance
    <3>1. CASE w = p
      BY <1>1, <1>3, <1>7, <1>8, <2>1, <3>1
    <3>2. CASE q = w
      <4>1. k <= n /\ SendCapacity(left[q]) \in Nat
        BY <1>1, <1>3, <2>1
      <4> QED
        BY <1>1, <1>7, <1>8, <3>2, <4>1
    <3> QED
      BY <1>9, <3>1, <3>2
  <2>3. (c - 1) - 1 = c - 2
    BY <1>5
  <2>4. attemptedOn'[d] = attemptedOn[d] + k /\ params'.perInterval = n
    BY DEF n
  <2> QED
    BY <1>2, <1>5, <2>1, <2>2, <2>3, <2>4 DEF Fits
<1>10. CASE Counting(d)' = {}
  <2>1. w = p
    BY <1>4, <1>10
  <2>2. Cardinality(Counting(d)') = 0
    BY <1>10, FS_EmptySet
  <2>3. (c - 1) * n = 0
    BY <1>1, <1>5, <2>2
  <2>4. attemptedOn[d] + k <= Allowance
    BY <1>1, <1>3, <1>8, <2>1, <2>3
  <2> QED
    BY <1>2, <1>10, <2>4 DEF Capped
<1>11. CASE Counting(d)' # {}
  <2>1. \E q \in Counting(d)' : q = w \/ w = p
    BY <1>4, <1>11
  <2> QED
    BY <1>9, <1>11, <2>1 DEF Capped
<1> QED
  BY <1>10, <1>11

LEMMA CapStep ==
    ASSUME RowInv, TypeOK', Slots', CapInv, Limited,
           NEW p \in Requests, RequestStep(p), NEW d \in Days
    PROVE  Capped(d)'
<1> USE DEF Goto
<1>1. /\ TypeOK /\ OnlyAdvances(p) /\ params' = params /\ Capped(d)
      /\ \A q \in Requests : TallyFits(q)
  <2>1. TypeOK
    BY DEF RowInv
  <2> QED
    BY <2>1, OthersAdvanceNot, LimitsStay DEF CapInv
<1>2. /\ pc \in [Requests -> Labels] /\ started \in [Requests -> 0..Horizon]
      /\ left \in [Requests -> Int \cup {NoLimit}]
      /\ attemptedOn \in [Days -> Nat]
  BY <1>1 DEF TypeOK
<1>3. /\ p \in Counting(d) <=> pc[p] \in Emailing /\ Day(started[p]) = d
      /\ p \in Counting(d)' <=> pc'[p] \in Emailing /\ Day(started'[p]) = d
  BY DEF Counting, Requests
<1>4. ASSUME attemptedOn' = attemptedOn, pc[p] \notin Emailing, pc'[p] \notin Emailing
      PROVE  Capped(d)'
  BY <1>1, <1>3, <1>4, CapUndisturbed
<1>5. ASSUME attemptedOn' = attemptedOn, pc[p] \in Emailing, pc'[p] \in Emailing,
             UNCHANGED <<started, left>>
      PROVE  Capped(d)'
  BY <1>1, <1>3, <1>5, CapUndisturbed
<1>6. ASSUME attemptedOn' = attemptedOn, pc'[p] \notin Emailing
      PROVE  Capped(d)'
  <2>1. CASE p \notin Counting(d)
    BY <1>1, <1>3, <1>6, <2>1, CapUndisturbed
  <2>2. CASE p \in Counting(d)
    <3>1. left[p] \in Nat \cup {NoLimit}
      BY <1>1, <1>3, <2>2 DEF TallyFits
    <3>2. SendCapacity(left[p]) \in Nat
      BY <1>1, <1>2, <3>1, CapacityBounds DEF Limited
    <3>3. 0 <= SendCapacity(left[p]) /\ attemptedOn'[d] = attemptedOn[d] + 0
      BY <1>2, <1>6, <3>2
    <3>4. p \notin Counting(d)'
      BY <1>3, <1>6
    <3> QED
      BY <1>1, <2>2, <3>3, <3>4, CapLeft
  <2> QED
    BY <2>1, <2>2
<1>7. CASE ListDuePlans(p) \/ LoadPlan(p) \/ LoadForPause(p) \/ LoadForResume(p)
  <2>1. attemptedOn' = attemptedOn /\ pc[p] \in {"idle", "load"}
        /\ pc'[p] \in {"load", "count", "save"}
    BY <1>2, <1>7 DEF ListDuePlans, LoadPlan, LoadForPause, LoadForResume, HasSlot, store
  <2> QED
    BY <1>4, <2>1 DEF Emailing
<1>8. CASE RejectAdvance(p) \/ UpdateEmailPlanStatus(p) \/ Abort(p)
  <2>1. Release(p) /\ attemptedOn' = attemptedOn
    BY <1>8 DEF RejectAdvance, UpdateEmailPlanStatus, Abort, store
  <2>2. pc'[p] = "idle"
    BY <1>2, <2>1 DEF Release
  <2> QED
    BY <1>6, <2>1, <2>2 DEF Emailing
<1>9. CASE CountPendingRecipients(p)
  <2>1. attemptedOn' = attemptedOn /\ pc[p] = "count" /\ pc'[p] \in {"capacity", "save"}
    BY <1>2, <1>9 DEF CountPendingRecipients, store
  <2> QED
    BY <1>4, <2>1 DEF Emailing
<1>10. CASE CheckDailyCapacity(p)
  <2>1. /\ attemptedOn' = attemptedOn /\ started' = started /\ pc[p] = "capacity"
        /\ \/ pc'[p] = "save"
           \/ /\ RemainingDailyCapacity(started[p]) # 0
              /\ left'[p] = RemainingDailyCapacity(started[p])
    BY <1>2, <1>10 DEF CheckDailyCapacity, store
  <2>2. CASE pc'[p] \notin Emailing
    BY <1>4, <2>1, <2>2 DEF Emailing
  <2>3. CASE pc'[p] \in Emailing /\ Day(started[p]) # d
    BY <1>1, <1>3, <2>1, <2>3, CapUndisturbed DEF Emailing
  <2>4. CASE pc'[p] \in Emailing /\ Day(started[p]) = d
    <3>1. left'[p] = params.perDay - attemptedOn[d]
      <4>1. params.perDay # NoLimit
        BY DEF Limited
      <4>2. left'[p] = RemainingDailyCapacity(started[p]) /\ left'[p] # 0
        BY <2>1, <2>4 DEF Emailing
      <4> QED
        BY <2>4, <4>1, <4>2 DEF RemainingDailyCapacity
    <3>2. p \in Counting(d)' /\ attemptedOn'[d] = attemptedOn[d]
      BY <1>3, <2>1, <2>4
    <3> QED
      BY <1>1, <3>1, <3>2, CapEntered
  <2> QED
    BY <2>2, <2>3, <2>4
<1>11. CASE \/ ListPendingRecipients(p) \/ ResolveContact(p)
            \/ SendEmail(p) \/ UpdateRecipient(p)
  <2>1. UNCHANGED <<attemptedOn, started, left>> /\ pc[p] \in Emailing
    BY <1>11 DEF ListPendingRecipients, ResolveContact, SendEmail, UpdateRecipient, store, Emailing
  <2>2. \E label \in {"loop", "send", "update"} : pc' = [pc EXCEPT ![p] = label]
    BY <1>11 DEF ListPendingRecipients, ResolveContact, SendEmail, UpdateRecipient
  <2>3. pc'[p] \in Emailing
    BY <1>2, <2>2 DEF Emailing
  <2> QED
    BY <1>5, <2>1, <2>3
<1>12. CASE FinishIdleAdvance(p)
  <2>1. attemptedOn' = attemptedOn /\ pc'[p] = "save"
    BY <1>2, <1>12 DEF FinishIdleAdvance, store
  <2> QED
    BY <1>6, <2>1 DEF Emailing
<1>13. CASE InsertAdvance(p)
  <2>1. /\ pc[p] = "loop" /\ pc'[p] = "save"
        /\ attemptedOn' = [attemptedOn EXCEPT ![Day(started[p])] = @ + Attempted(p)]
    BY <1>2, <1>13 DEF InsertAdvance
  <2>2. CASE Day(started[p]) # d
    <3>1. attemptedOn'[d] = attemptedOn[d] /\ p \notin Counting(d) /\ p \notin Counting(d)'
      BY <1>2, <1>3, <2>1, <2>2 DEF Emailing
    <3> QED
      BY <1>1, <3>1, CapUndisturbed
  <2>3. CASE Day(started[p]) = d
    <3>1. p \in Counting(d) /\ p \notin Counting(d)'
      BY <1>3, <2>1, <2>3 DEF Emailing
    <3>2. Attempted(p) \in Nat
      BY <1>1, CountsTyped
    <3>3. Attempted(p) <= SendCapacity(left[p])
      BY <1>1, <2>1 DEF TallyFits, Emailing, Limited
    <3>4. attemptedOn'[d] = attemptedOn[d] + Attempted(p)
      BY <1>2, <2>1, <2>3
    <3> QED
      BY <1>1, <3>1, <3>2, <3>3, <3>4, CapLeft
  <2> QED
    BY <2>2, <2>3
<1> QED
  BY <1>7, <1>8, <1>9, <1>10, <1>11, <1>12, <1>13 DEF RequestStep, Progress

LEMMA CapInit == Init => CapInv
<1> SUFFICES ASSUME Init PROVE CapInv
  OBVIOUS
<1>1. \A p \in Requests : TallyFits(p)
  BY DEF Init, TallyFits, Emailing
<1> QED
  BY <1>1, PlanConstants DEF Init, CapInv, ValidLimits, Limited, AbsentRow

LEMMA CapNext == RowInv /\ EmailInv /\ CapInv /\ [Next]_vars => CapInv'
<1> SUFFICES ASSUME RowInv, EmailInv, CapInv, [Next]_vars PROVE CapInv'
  OBVIOUS
<1>1. TypeOK /\ TypeOK'
  BY NextTyped DEF RowInv
<1>2. Slots'
  BY EmailNext DEF EmailInv
<1>3. CASE Tick \/ UNCHANGED vars
  <2>1. UNCHANGED <<plan, params, attemptedOn, pc, started, left, tally>>
    BY <1>3 DEF Tick, vars, store, locals
  <2>2. \A p \in Requests : TallyFits(p)'
    BY <2>1 DEF CapInv, TallyFits, Attempted, SendCapacity
  <2>3. \A d \in Days : Counting(d)' = Counting(d)
    BY <2>1 DEF Counting, Requests
  <2>4. \A d \in Days : Cardinality(Counting(d))' = Cardinality(Counting(d))
    BY <2>3
  <2>5. ASSUME NEW d \in Days, Capped(d) PROVE Capped(d)'
    <3>1. \A q \in Counting(d) : Fits(d, q)' <=> Fits(d, q)
      BY <2>1, <2>4 DEF Fits, Allowance, SendCapacity
    <3> QED
      BY <2>1, <2>3, <2>5, <3>1 DEF Capped, Allowance
  <2> QED
    BY <2>1, <2>2, <2>5 DEF CapInv, Limited, Days, ValidLimits, Requests
<1>4. CASE CreatePlan
  <2>1. /\ plan.status = "Absent" /\ plan'.status = "Scheduled"
        /\ UNCHANGED <<attemptedOn, pc, started, left, tally>>
        /\ ValidLimits(params.perInterval, params.perDay)'
    <3>1. PICK n \in PerIntervalChoices, m \in IntervalChoices, d \in PerDayChoices :
             ValidLimits(n, d) /\ params' = [perInterval |-> n, interval |-> m, perDay |-> d]
      BY <1>4 DEF CreatePlan
    <3>2. params'.perInterval = n /\ params'.perDay = d
      BY <3>1
    <3>3. ValidLimits(params'.perInterval, params'.perDay)
      BY <3>1, <3>2 DEF ValidLimits
    <3>4. plan'.status = "Scheduled"
      BY <1>4 DEF CreatePlan
    <3>5. plan.status = "Absent" /\ UNCHANGED <<attemptedOn, pc, started, left, tally>>
      BY <1>4 DEF CreatePlan, locals
    <3> QED
      BY <3>3, <3>4, <3>5 DEF ValidLimits
  <2>2. \A p \in Requests : pc[p] = "idle"
    BY <2>1 DEF RowInv, Lifecycle
  <2>3. \A p \in Requests : TallyFits(p)'
    BY <2>1, <2>2 DEF CapInv, TallyFits, Emailing
  <2>4. ASSUME NEW d \in Days, Limited' PROVE Capped(d)'
    <3>1. Counting(d)' = {}
      BY <2>1, <2>2 DEF Counting, Emailing, Requests
    <3>2. attemptedOn'[d] = 0
      BY <2>1 DEF CapInv
    <3>3. /\ params'.perDay \in Int /\ params'.perInterval \in Nat
          /\ params'.perDay >= params'.perInterval
      BY <1>1, <2>1, <2>4, PlanConstants DEF TypeOK, Limited, ValidLimits
    <3>4. Allowance' >= 0
      <4> DEFINE n == params'.perInterval
      <4>1. (0 - 1) * n <= (MaxOverlap - 1) * n /\ (0 - 1) * n \in Int /\ (MaxOverlap - 1) * n \in Int
        BY <3>3, Products, PlanConstants
      <4>2. (0 - 1) * n = 0 - n
        BY <3>3
      <4>3. Allowance' = params'.perDay + (MaxOverlap - 1) * n
        BY DEF Allowance
      <4> HIDE DEF n
      <4>4. params'.perDay >= n /\ n \in Nat /\ params'.perDay \in Int
        BY <3>3 DEF n
      <4> QED
        BY <4>1, <4>2, <4>3, <4>4
    <3> QED
      BY <3>1, <3>2, <3>4 DEF Capped
  <2> QED
    BY <2>1, <2>3, <2>4 DEF CapInv, Days, Requests
<1>5. ASSUME NEW p \in Requests, RequestStep(p) PROVE CapInv'
  <2>1. params' = params /\ plan'.status # "Absent"
    BY <1>5, LimitsStay
  <2>2. TallyFits(p)'
    BY <1>1, <1>5, <2>1, TallyStep DEF CapInv
  <2>3. ASSUME NEW q \in Requests \ {p} PROVE TallyFits(q)'
    <3>1. pc'[q] = pc[q] /\ left'[q] = left[q] /\ tally'[q] = tally[q]
      BY <1>1, <1>5, OthersAdvanceNot DEF OnlyAdvances
    <3>2. TallyFits(q)
      BY DEF CapInv
    <3> QED
      BY <2>1, <3>1, <3>2 DEF TallyFits, Attempted, SendCapacity
  <2>4. Limited' => \A d \in Days : Capped(d)'
    BY <1>1, <1>2, <1>5, <2>1, CapStep DEF Limited
  <2>5. ValidLimits(params.perInterval, params.perDay)'
    BY <2>1 DEF CapInv, ValidLimits
  <2> QED
    BY <2>1, <2>2, <2>3, <2>4, <2>5 DEF CapInv, Days, Requests
<1> QED
  BY <1>3, <1>4, <1>5 DEF Next, RequestStep

LEMMA CappedBelow ==
    ASSUME TypeOK, Limited, \A q \in Requests : TallyFits(q), NEW d \in Days, Capped(d)
    PROVE  attemptedOn[d] <= Allowance
<1> DEFINE n == params.perInterval
           c == Cardinality(Counting(d))
<1>1. CASE Counting(d) = {}
  BY <1>1 DEF Capped
<1>2. CASE Counting(d) # {}
  <2>1. PICK p \in Counting(d) : Fits(d, p)
    BY <1>2 DEF Capped
  <2>2. /\ n \in Nat /\ params.perDay \in Int /\ attemptedOn[d] \in Nat
        /\ Allowance \in Int
    <3>1. n \in Nat /\ params.perDay \in Int /\ attemptedOn[d] \in Nat
      BY PlanConstants DEF TypeOK, Limited
    <3> QED
      BY <3>1, PlanConstants DEF Allowance
  <2>3. SendCapacity(left[p]) \in Nat
    <3>1. p \in Requests /\ pc[p] \in Emailing
      BY DEF Counting
    <3>2. left[p] \in Nat \cup {NoLimit} /\ left[p] \in Int \cup {NoLimit}
      BY <3>1 DEF TallyFits
    <3> QED
      BY <3>2, CapacityBounds DEF Limited
  <2>4. c \in Nat /\ c # 0
    BY <1>2, CountingSetsFinite, FS_EmptySet
  <2> HIDE DEF n, c
  <2>5. (c - 1) * n \in Nat
    BY <2>2, <2>4
  <2>6. attemptedOn[d] + SendCapacity(left[p]) + (c - 1) * n <= Allowance
    BY <2>1 DEF Fits, n, c
  <2> QED
    BY <2>2, <2>3, <2>5, <2>6
<1> QED
  BY <1>1, <1>2

(* Of a plan whose interval may send at all, the recorded attempts of a day *)
(* stay within the daily limit and one interval for each further request    *)
(* in flight, for every schedule, error and crash.                          *)
THEOREM RecordsAreCapped == Spec => [](params.perInterval >= 0 => RecordedCap)
<1>1. RowInv /\ CapInv => (params.perInterval >= 0 => RecordedCap)
  BY CappedBelow DEF RowInv, CapInv, Limited, RecordedCap, Allowance
<1> QED
  BY <1>1, RowInit, RowNext, EmailInit, EmailNext, CapInit, CapNext, PTL DEF Spec

----------------------------------------------------------------------------
(* One request at a time and none cut short.  Then the attempts of a day    *)
(* of the clock are those recorded for it, those of the advance that runs,  *)
(* and at most one interval of the advance that ran into the day.           *)

LEMMA DayBounds ==
    ASSUME NEW t \in Int
    PROVE  /\ Day(t) \in Int
           /\ Day(t) * DayLength <= t
           /\ t < Day(t) * DayLength + DayLength
BY PlanConstants DEF Day

LEMMA DayMonotone ==
    ASSUME NEW t \in Int, NEW u \in Int
    PROVE  /\ t <= u => Day(t) <= Day(u)
           /\ Day(NextDay(t)) = Day(t) + 1
<1>1. Day(t) \in Int /\ Day(u) \in Int /\ DayLength \in Nat /\ DayLength > 0
  BY DayBounds, PlanConstants
<1>2. ASSUME t <= u PROVE Day(t) <= Day(u)
  <2>1. SUFFICES ASSUME Day(u) + 1 <= Day(t) PROVE FALSE
    BY <1>1
  <2>2. (Day(u) + 1) * DayLength <= Day(t) * DayLength
    BY <1>1, <2>1, Products
  <2>3. (Day(u) + 1) * DayLength = Day(u) * DayLength + DayLength
    BY <1>1
  <2>4. Day(t) * DayLength \in Int /\ Day(u) * DayLength \in Int
    BY <1>1
  <2> QED
    BY <1>1, <1>2, <2>2, <2>3, <2>4, DayBounds
<1>3. Day(NextDay(t)) = Day(t) + 1
  BY <1>1 DEF Day, NextDay
<1> QED
  BY <1>2, <1>3

Idle == \A p \in Requests : pc[p] \notin Advancing

Spilled(d) ==
    /\ Idle => attemptsOn[d] <= params.perInterval + attemptedOn[d]
    /\ \A p \in Requests : pc[p] \in Advancing =>
          /\ d > Day(started[p]) => attemptedOn[d] = 0 /\ attemptsOn[d] <= Attempted(p)
          /\ d = Day(started[p]) =>
                attemptsOn[d] <= params.perInterval + attemptedOn[d] + Attempted(p)
          /\ d < Day(started[p]) => attemptsOn[d] <= params.perInterval + attemptedOn[d]

DayInv ==
    /\ \A p \in Requests : pc[p] \in Advancing => started[p] <= now
    /\ \A d \in Days : plan.status = "Absent" \/ d > Day(now) =>
          attemptsOn[d] = 0 /\ attemptedOn[d] = 0
    /\ params.perInterval >= 0 => \A d \in Days : Spilled(d)

(* What a step of the only request in flight does to the counts.           *)
Begins(p) ==
    /\ pc'[p] \in Advancing /\ started'[p] = now /\ Attempted(p)' = 0
    /\ pc[p] \notin Advancing
    /\ UNCHANGED <<attemptedOn, attemptsOn>>

GoesOn(p, k) ==
    /\ pc[p] \in Advancing /\ pc'[p] \in Advancing
    /\ started'[p] = started[p] /\ Attempted(p)' = Attempted(p) + k
    /\ attemptedOn' = attemptedOn
    /\ attemptsOn' = [attemptsOn EXCEPT ![Day(now)] = @ + k]

EndsWith(p, k) ==
    /\ pc[p] \in Advancing /\ pc'[p] \notin Advancing
    /\ Attempted(p) = k
    /\ attemptedOn' = [attemptedOn EXCEPT ![Day(started[p])] = @ + k]
    /\ attemptsOn' = attemptsOn

Elsewhere(p) ==
    /\ pc[p] \notin Advancing /\ pc'[p] \notin Advancing
    /\ UNCHANGED <<attemptedOn, attemptsOn>>

LEMMA AttemptsFit ==
    ASSUME TypeOK, params.perInterval >= 0, NEW p \in Requests, TallyFits(p),
           pc[p] \in Advancing
    PROVE  Attempted(p) <= params.perInterval
<1>1. Attempted(p) \in Nat /\ params.perInterval \in Int
  BY CountsTyped DEF TypeOK
<1>2. CASE tally[p] = Zero
  <2>1. Attempted(p) = 0
    BY <1>2 DEF Attempted, Zero
  <2> QED
    BY <1>1, <2>1
<1>3. CASE tally[p] # Zero
  <2>1. pc[p] \in Emailing
    BY <1>3 DEF TallyFits, Advancing, Emailing
  <2>2. Attempted(p) <= SendCapacity(left[p]) /\ left[p] \in Int \cup {NoLimit}
    BY <2>1 DEF TallyFits
  <2>3. SendCapacity(left[p]) \in Int /\ SendCapacity(left[p]) <= params.perInterval
    BY <2>2, CapacityBounds
  <2> QED
    BY <1>1, <2>2, <2>3
<1> QED
  BY <1>2, <1>3

(* The request in flight adds its attempts to a day that has room for them. *)
LEMMA AttemptsFitDay ==
    ASSUME MaxOverlap = 1, TypeOK, Slots, Limited, \A q \in Requests : TallyFits(q),
           NEW p \in Requests, pc[p] \in Advancing,
           NEW d \in Days, d = Day(started[p]), Capped(d)
    PROVE  attemptedOn[d] + Attempted(p) <= params.perDay
<1> DEFINE n == params.perInterval
           c == Cardinality(Counting(d))
<1>1. /\ n \in Nat /\ params.perDay \in Int /\ attemptedOn[d] \in Nat
      /\ Attempted(p) \in Nat
  <2>1. n \in Nat /\ params.perDay \in Int
    BY PlanConstants DEF TypeOK, Limited
  <2>2. attemptedOn \in [Days -> Nat]
    BY DEF TypeOK
  <2>3. Attempted(p) \in Nat
    BY CountsTyped
  <2> QED
    BY <2>1, <2>2, <2>3
<1>2. Allowance = params.perDay
  BY <1>1 DEF Allowance
<1>3. CASE tally[p] = Zero
  <2>1. Attempted(p) = 0
    BY <1>3 DEF Attempted, Zero
  <2>2. attemptedOn[d] <= params.perDay
    BY <1>2, CappedBelow
  <2> QED
    BY <1>1, <2>1, <2>2
<1>4. CASE tally[p] # Zero
  <2>1. pc[p] \in Emailing /\ p \in Counting(d)
    BY <1>4 DEF TallyFits, Advancing, Emailing, Counting
  <2>2. PICK w \in Counting(d) : Fits(d, w)
    BY <2>1 DEF Capped
  <2>3. w = p
    <3>1. SUFFICES ASSUME w # p PROVE FALSE
      OBVIOUS
    <3>2. w \in Requests /\ pc[w] # "idle" /\ pc[p] # "idle"
      BY <2>1 DEF Counting, Emailing
    <3> QED
      BY <3>1, <3>2, OneInFlight
  <2>4. /\ Attempted(p) <= SendCapacity(left[p])
        /\ left[p] \in Nat \cup {NoLimit} /\ left[p] \in Int \cup {NoLimit}
    BY <2>1 DEF TallyFits, Limited
  <2>5. SendCapacity(left[p]) \in Nat
    BY <2>4, CapacityBounds DEF Limited
  <2>6. c \in Nat /\ c # 0
    BY <2>1, CountingSetsFinite, FS_EmptySet
  <2> HIDE DEF n, c
  <2>7. (c - 1) * n \in Nat
    BY <1>1, <2>6
  <2>8. attemptedOn[d] + SendCapacity(left[p]) + (c - 1) * n <= params.perDay
    BY <1>2, <2>2, <2>3 DEF Fits, n, c
  <2> QED
    BY <1>1, <2>4, <2>5, <2>7, <2>8
<1> QED
  BY <1>3, <1>4

LEMMA CountsOfStep ==
    ASSUME MaxFaults = 0, RowInv, CapInv, NEW p \in Requests, RequestStep(p)
    PROVE  \/ Begins(p) \/ GoesOn(p, 0) \/ GoesOn(p, 1)
           \/ EndsWith(p, Attempted(p)) \/ Elsewhere(p)
<1> USE DEF Goto
<1>1. /\ TypeOK /\ TallyFits(p)
      /\ pc \in [Requests -> Labels] /\ started \in [Requests -> 0..Horizon]
      /\ tally \in [Requests -> TallyType] /\ Attempted(p) \in Nat
      /\ tally[p].sent \in Nat /\ tally[p].failed \in Nat
      /\ attemptedOn \in [Days -> Nat] /\ attemptsOn \in [Days -> Nat]
      /\ Day(now) \in Days /\ Day(started[p]) \in Days
  BY CountsTyped, DayOfClock DEF RowInv, CapInv, TypeOK, TallyType
<1>2. /\ attemptsOn = [attemptsOn EXCEPT ![Day(now)] = @ + 0]
      /\ attemptedOn = [attemptedOn EXCEPT ![Day(started[p])] = @ + 0]
  BY <1>1
<1>3. tally[p] = Zero => Attempted(p) = 0
  BY DEF Attempted, Zero
<1>4. ASSUME pc[p] \in Advancing, pc'[p] \in Advancing, Attempted(p)' = Attempted(p),
             started'[p] = started[p], UNCHANGED <<attemptedOn, attemptsOn>>
      PROVE  GoesOn(p, 0)
  BY <1>1, <1>2, <1>4 DEF GoesOn
<1>5. ASSUME pc[p] \in Advancing, pc'[p] \notin Advancing, Attempted(p) = 0,
             UNCHANGED <<attemptedOn, attemptsOn>>
      PROVE  EndsWith(p, Attempted(p))
  BY <1>2, <1>5 DEF EndsWith
<1>6. CASE ListDuePlans(p) \/ LoadForPause(p) \/ LoadForResume(p)
  <2>1. /\ pc[p] = "idle" /\ pc'[p] \in {"load", "save"}
        /\ UNCHANGED <<attemptedOn, attemptsOn>>
    BY <1>1, <1>6 DEF ListDuePlans, LoadForPause, LoadForResume, HasSlot, store, history
  <2> QED
    BY <2>1 DEF Elsewhere, Advancing
<1>7. CASE LoadPlan(p)
  <2>1. /\ pc[p] \in {"idle", "load"} /\ pc'[p] = "count" /\ started'[p] = now
        /\ tally' = tally /\ UNCHANGED <<attemptedOn, attemptsOn>>
    BY <1>1, <1>7 DEF LoadPlan, HasSlot, store, history
  <2>2. Attempted(p)' = 0
    BY <1>1, <1>3, <2>1 DEF TallyFits, Attempted
  <2> QED
    BY <2>1, <2>2 DEF Begins, Advancing
<1>8. CASE RejectAdvance(p) \/ UpdateEmailPlanStatus(p)
  <2>1. /\ Release(p) /\ pc[p] \in {"load", "save"}
        /\ UNCHANGED <<attemptedOn, attemptsOn>>
    BY <1>8 DEF RejectAdvance, UpdateEmailPlanStatus, store, history
  <2>2. pc'[p] = "idle"
    BY <1>1, <2>1 DEF Release
  <2> QED
    BY <2>1, <2>2 DEF Elsewhere, Advancing
<1>9. CASE Abort(p)
  BY <1>1, <1>9 DEF Abort, TypeOK
<1>10. CASE CountPendingRecipients(p) \/ CheckDailyCapacity(p)
  <2>1. /\ pc[p] \in {"count", "capacity"}
        /\ UNCHANGED <<started, tally, attemptedOn, attemptsOn>>
    BY <1>10 DEF CountPendingRecipients, CheckDailyCapacity, store, history
  <2>2. pc'[p] \in {"capacity", "list", "save"}
    BY <1>1, <1>10 DEF CountPendingRecipients, CheckDailyCapacity
  <2>3. Attempted(p) = 0 /\ Attempted(p)' = Attempted(p)
    BY <1>1, <1>3, <2>1 DEF TallyFits, Attempted
  <2> QED
    BY <1>4, <1>5, <2>1, <2>2, <2>3 DEF Advancing
<1>11. CASE ListPendingRecipients(p) \/ UpdateRecipient(p)
  <2>1. /\ pc[p] \in {"list", "update"} /\ pc'[p] = "loop"
        /\ UNCHANGED <<started, tally, attemptedOn, attemptsOn>>
    BY <1>1, <1>11 DEF ListPendingRecipients, UpdateRecipient, store, history
  <2>2. Attempted(p)' = Attempted(p)
    BY <2>1 DEF Attempted
  <2> QED
    BY <1>4, <2>1, <2>2 DEF Advancing
<1>12. CASE ResolveContact(p)
  <2>1. /\ pc[p] = "loop" /\ pc'[p] \in {"send", "update"}
        /\ UNCHANGED <<started, attemptedOn, attemptsOn>>
    BY <1>1, <1>12 DEF ResolveContact, store, history
  <2>2. tally' = tally \/ tally' = [tally EXCEPT ![p].skipped = @ + 1]
    BY <1>12 DEF ResolveContact
  <2>3. Attempted(p)' = Attempted(p)
    BY <1>1, <2>2 DEF Attempted, TallyType
  <2> QED
    BY <1>4, <2>1, <2>3 DEF Advancing
<1>13. CASE SendEmail(p)
  <2>1. /\ pc[p] = "send" /\ pc'[p] = "update"
        /\ UNCHANGED <<started, attemptedOn>>
        /\ attemptsOn' = [attemptsOn EXCEPT ![Day(now)] = @ + 1]
    BY <1>1, <1>13 DEF SendEmail, store
  <2>2. \/ tally' = [tally EXCEPT ![p].sent = @ + 1]
        \/ tally' = [tally EXCEPT ![p].failed = @ + 1]
    BY <1>13 DEF SendEmail
  <2>3. Attempted(p)' = Attempted(p) + 1
    BY <1>1, <2>2 DEF Attempted, TallyType
  <2> QED
    BY <2>1, <2>3 DEF GoesOn, Advancing
<1>14. CASE FinishIdleAdvance(p)
  <2>1. /\ pc[p] = "loop" /\ pc'[p] = "save" /\ Processed(p) = 0
        /\ UNCHANGED <<attemptedOn, attemptsOn>>
    BY <1>1, <1>14 DEF FinishIdleAdvance, store, history
  <2>2. tally[p].skipped \in Nat
    BY <1>1 DEF TallyType
  <2>3. Attempted(p) = 0
    BY <1>1, <2>1, <2>2 DEF Processed
  <2> QED
    BY <1>5, <2>1, <2>3 DEF Advancing
<1>15. CASE InsertAdvance(p)
  <2>1. /\ pc[p] = "loop" /\ pc'[p] = "save" /\ attemptsOn' = attemptsOn
        /\ attemptedOn' = [attemptedOn EXCEPT ![Day(started[p])] = @ + Attempted(p)]
    BY <1>1, <1>15 DEF InsertAdvance, history
  <2> QED
    BY <2>1 DEF EndsWith, Advancing
<1> QED
  BY <1>6, <1>7, <1>8, <1>9, <1>10, <1>11, <1>12, <1>13, <1>14, <1>15
     DEF RequestStep, Progress

LEMMA DaysAreNumbers == \A d \in Days : d \in Int
BY DayOfClock DEF Days

(* Nobody else advances, before and after the step of the only request.    *)
LEMMA AloneInFlight ==
    ASSUME MaxOverlap = 1, RowInv, EmailInv, NEW p \in Requests, RequestStep(p)
    PROVE  \A q \in Requests \ {p} : pc[q] = "idle" /\ pc'[q] = "idle"
<1>1. TypeOK /\ Slots
  BY DEF RowInv, EmailInv
<1>2. OnlyMoves(p) /\ (pc[p] = "idle" => Cardinality(Running) < MaxOverlap)
  BY <1>1, RequestFrame
<1>3. \A q \in Requests \ {p} : pc[q] = "idle"
  BY <1>1, <1>2, OneInFlight
<1> QED
  BY <1>2, <1>3 DEF OnlyMoves

LEMMA SpilledStep ==
    ASSUME MaxOverlap = 1, MaxFaults = 0, RowInv, TypeOK', EmailInv, CapInv, DayInv,
           params.perInterval >= 0, NEW p \in Requests, RequestStep(p), NEW d \in Days
    PROVE  Spilled(d)'
<1> DEFINE n == params.perInterval
           s == Day(started[p])
           attempted == attemptedOn[d]
           attempts == attemptsOn[d]
<1>1. /\ TypeOK /\ params' = params /\ Spilled(d) /\ TallyFits(p)
      /\ started[p] \in 0..Horizon /\ now \in 0..Horizon
      /\ pc[p] \in Advancing => started[p] <= now
      /\ d > Day(now) => attempts = 0 /\ attempted = 0
  BY LimitsStay DEF RowInv, TypeOK, DayInv, CapInv
<1>2. /\ n \in Nat /\ s \in Int /\ d \in Int /\ Day(now) \in Int
      /\ Day(now) \in Days /\ s \in Days
      /\ attempted \in Nat /\ attempts \in Nat /\ Attempted(p) \in Nat
  <2>1. Day(now) \in Days /\ s \in Days
    BY <1>1, DayOfClock
  <2>2. s \in Int /\ d \in Int /\ Day(now) \in Int
    BY <2>1, DaysAreNumbers
  <2>3. n \in Nat /\ attempted \in Nat /\ attempts \in Nat
    BY <1>1 DEF TypeOK
  <2>4. Attempted(p) \in Nat
    BY <1>1, CountsTyped
  <2> QED
    BY <2>1, <2>2, <2>3, <2>4
<1>3. attemptedOn \in [Days -> Nat] /\ attemptsOn \in [Days -> Nat]
  BY <1>1 DEF TypeOK
<1>4. \A q \in Requests \ {p} : pc[q] \notin Advancing /\ pc'[q] \notin Advancing
  BY AloneInFlight DEF Advancing
<1>5. pc[p] \in Advancing => s <= Day(now)
  BY <1>1, DayMonotone, PlanConstants
<1>6. ASSUME pc[p] \notin Advancing PROVE attempts <= n + attempted
  BY <1>1, <1>4, <1>6 DEF Spilled, Idle
<1>7. ASSUME pc[p] \in Advancing
      PROVE  /\ d > s => attempted = 0 /\ attempts <= Attempted(p)
             /\ d = s => attempts <= n + attempted + Attempted(p)
             /\ d < s => attempts <= n + attempted
  BY <1>1, <1>7 DEF Spilled
<1>8. ASSUME pc'[p] \notin Advancing, attemptsOn'[d] <= n + attemptedOn'[d]
      PROVE  Spilled(d)'
  BY <1>1, <1>4, <1>8 DEF Spilled, Requests
<1>9. ASSUME pc'[p] \in Advancing,
             d > Day(started'[p]) => attemptedOn'[d] = 0 /\ attemptsOn'[d] <= Attempted(p)',
             d = Day(started'[p]) => attemptsOn'[d] <= n + attemptedOn'[d] + Attempted(p)',
             d < Day(started'[p]) => attemptsOn'[d] <= n + attemptedOn'[d]
      PROVE  Spilled(d)'
  <2>1. ~Idle'
    BY <1>9 DEF Idle, Requests
  <2>2. \A q \in Requests' : pc'[q] \in Advancing => q = p
    BY <1>4 DEF Requests
  <2> QED
    BY <1>1, <1>9, <2>1, <2>2 DEF Spilled
<1>10. CASE Begins(p)
  <2>1. attempts <= n + attempted
    BY <1>6, <1>10 DEF Begins
  <2>2. /\ pc'[p] \in Advancing /\ started'[p] = now /\ Attempted(p)' = 0
        /\ attemptedOn'[d] = attempted /\ attemptsOn'[d] = attempts
    BY <1>10 DEF Begins
  <2> HIDE DEF attempted, attempts, n
  <2> QED
    BY <1>1, <1>2, <1>9, <2>1, <2>2 DEF n
<1>11. ASSUME NEW k \in {0, 1}, GoesOn(p, k)
       PROVE  Spilled(d)'
  <2>1. /\ pc[p] \in Advancing /\ pc'[p] \in Advancing /\ Day(started'[p]) = s
        /\ Attempted(p)' = Attempted(p) + k /\ attemptedOn'[d] = attempted
    BY <1>11 DEF GoesOn
  <2>2. attemptsOn'[d] = IF d = Day(now) THEN attempts + k ELSE attempts
    BY <1>2, <1>3, <1>11 DEF GoesOn
  <2>3. /\ d > s => attempted = 0 /\ attempts <= Attempted(p)
        /\ d = s => attempts <= n + attempted + Attempted(p)
        /\ d < s => attempts <= n + attempted
    BY <1>7, <2>1
  <2>4. s <= Day(now) /\ k \in Nat
    BY <1>5, <2>1
  <2> HIDE DEF attempted, attempts, n, s
  <2>5. /\ d > s => attemptedOn'[d] = 0 /\ attemptsOn'[d] <= Attempted(p)'
        /\ d = s => attemptsOn'[d] <= n + attemptedOn'[d] + Attempted(p)'
        /\ d < s => attemptsOn'[d] <= n + attemptedOn'[d]
    BY <1>2, <2>1, <2>2, <2>3, <2>4
  <2> QED
    BY <1>9, <2>1, <2>5 DEF n
<1>12. CASE EndsWith(p, Attempted(p))
  <2>1. /\ pc[p] \in Advancing /\ pc'[p] \notin Advancing /\ attemptsOn'[d] = attempts
    BY <1>12 DEF EndsWith
  <2>2. attemptedOn'[d] = IF d = s THEN attempted + Attempted(p) ELSE attempted
    BY <1>2, <1>3, <1>12 DEF EndsWith
  <2>3. Attempted(p) <= n
    BY <1>1, <2>1, AttemptsFit
  <2>4. /\ d > s => attempted = 0 /\ attempts <= Attempted(p)
        /\ d = s => attempts <= n + attempted + Attempted(p)
        /\ d < s => attempts <= n + attempted
    BY <1>7, <2>1
  <2> HIDE DEF attempted, attempts, n, s
  <2>5. attemptsOn'[d] <= n + attemptedOn'[d]
    BY <1>2, <2>1, <2>2, <2>3, <2>4
  <2> QED
    BY <1>8, <2>1, <2>5 DEF n
<1>13. CASE Elsewhere(p)
  BY <1>6, <1>8, <1>13 DEF Elsewhere
<1> QED
  BY <1>10, <1>11, <1>12, <1>13, CountsOfStep

LEMMA DayInit == Init => DayInv
BY DaysAreNumbers DEF Init, DayInv, Spilled, Idle, Advancing

LEMMA DayNext ==
    MaxOverlap = 1 /\ MaxFaults = 0 /\ RowInv /\ EmailInv /\ CapInv /\ DayInv /\ [Next]_vars
        => DayInv'
<1> SUFFICES ASSUME MaxOverlap = 1, MaxFaults = 0, RowInv, EmailInv, CapInv, DayInv, [Next]_vars
             PROVE  DayInv'
  OBVIOUS
<1>1. /\ TypeOK /\ TypeOK' /\ now \in 0..Horizon /\ now' \in 0..Horizon
      /\ \A p \in Requests : started[p] \in Int
  <2>1. TypeOK /\ TypeOK'
    BY NextTyped DEF RowInv
  <2>2. now \in 0..Horizon /\ now' \in 0..Horizon /\ started \in [Requests -> 0..Horizon]
    BY <2>1 DEF TypeOK
  <2> QED
    BY <2>1, <2>2
<1>2. CASE Tick \/ UNCHANGED vars
  <2>1. /\ UNCHANGED <<plan, params, attemptedOn, attemptsOn, pc, started, tally>>
        /\ now <= now'
    BY <1>1, <1>2 DEF Tick, vars, store, locals, history
  <2>2. \A d \in Days : Spilled(d)' <=> Spilled(d)
    BY <2>1 DEF Spilled, Idle, Requests, Attempted
  <2>3. Day(now) <= Day(now') /\ Day(now) \in Int /\ Day(now') \in Int
    BY <1>1, <2>1, DayMonotone, DayBounds
  <2>4. \A d \in Days : d > Day(now') => d > Day(now)
    BY <2>3, DaysAreNumbers
  <2>5. \A p \in Requests : pc[p] \in Advancing => started[p] <= now'
    BY <1>1, <2>1 DEF DayInv
  <2>6. \A d \in Days : plan'.status = "Absent" \/ d > Day(now') =>
            attemptsOn'[d] = 0 /\ attemptedOn'[d] = 0
    BY <2>1, <2>4 DEF DayInv
  <2>7. Day(now)' = Day(now')
    BY DEF Day
  <2> QED
    BY <2>1, <2>2, <2>5, <2>6, <2>7 DEF DayInv, Days, Requests
<1>3. CASE CreatePlan
  <2>1. /\ plan.status = "Absent"
        /\ UNCHANGED <<now, attemptedOn, attemptsOn, pc>>
    BY <1>3 DEF CreatePlan, locals, history
  <2>2. \A p \in Requests : pc'[p] = "idle"
    BY <2>1 DEF RowInv, Lifecycle
  <2>3. \A d \in Days : attemptsOn'[d] = 0 /\ attemptedOn'[d] = 0
    BY <2>1 DEF DayInv
  <2>4. params'.perInterval \in Int
    BY <1>1 DEF TypeOK
  <2> QED
    BY <2>2, <2>3, <2>4 DEF DayInv, Spilled, Idle, Advancing, Days, Requests
<1>4. ASSUME NEW p \in Requests, RequestStep(p) PROVE DayInv'
  <2>1. /\ params' = params /\ plan'.status # "Absent"
        /\ now' = now /\ Day(now)' = Day(now)
    <3>1. now' = now
      BY <1>4 DEF RequestStep, Progress, ListDuePlans, LoadForPause, LoadForResume,
         LoadPlan, RejectAdvance, CountPendingRecipients, CheckDailyCapacity,
         ListPendingRecipients, ResolveContact, SendEmail, UpdateRecipient,
         FinishIdleAdvance, InsertAdvance, UpdateEmailPlanStatus, Abort
    <3> QED
      BY <1>4, <3>1, LimitsStay
  <2>2. \/ Begins(p) \/ GoesOn(p, 0) \/ GoesOn(p, 1)
        \/ EndsWith(p, Attempted(p)) \/ Elsewhere(p)
    BY <1>4, CountsOfStep
  <2>3. \A q \in Requests \ {p} : pc'[q] \notin Advancing
    BY <1>4, AloneInFlight DEF Advancing
  <2>4. pc[p] \in Advancing => started[p] <= now
    BY DEF DayInv
  <2>5. pc'[p] \in Advancing => started'[p] <= now
    BY <1>1, <2>2, <2>4 DEF Begins, GoesOn, EndsWith, Elsewhere
  <2>6. \A q \in Requests : pc'[q] \in Advancing => started'[q] <= now
    BY <2>3, <2>5
  <2>7. ASSUME NEW d \in Days, d > Day(now)
        PROVE  attemptsOn'[d] = 0 /\ attemptedOn'[d] = 0
    <3>1. attemptsOn[d] = 0 /\ attemptedOn[d] = 0
      BY <2>7 DEF DayInv
    <3>2. /\ attemptsOn \in [Days -> Nat] /\ attemptedOn \in [Days -> Nat]
          /\ d \in Int /\ Day(now) \in Int /\ Day(started[p]) \in Int
      <4>1. attemptsOn \in [Days -> Nat] /\ attemptedOn \in [Days -> Nat]
        BY <1>1 DEF TypeOK
      <4>2. d \in Int /\ Day(now) \in Int /\ Day(started[p]) \in Int
        BY <1>1, DaysAreNumbers, DayBounds
      <4> QED
        BY <4>1, <4>2
    <3>3. pc[p] \in Advancing => Day(started[p]) <= Day(now)
      BY <1>1, <2>4, DayMonotone
    <3>4. CASE Begins(p) \/ Elsewhere(p)
      BY <3>1, <3>4 DEF Begins, Elsewhere
    <3>5. CASE GoesOn(p, 0) \/ GoesOn(p, 1)
      BY <2>7, <3>1, <3>2, <3>5 DEF GoesOn
    <3>6. CASE EndsWith(p, Attempted(p))
      <4>1. d # Day(started[p])
        BY <2>7, <3>2, <3>3, <3>6 DEF EndsWith
      <4> QED
        BY <3>1, <3>2, <3>6, <4>1 DEF EndsWith
    <3> QED
      BY <2>2, <3>4, <3>5, <3>6
  <2>8. params.perInterval >= 0 => \A d \in Days : Spilled(d)'
    BY <1>1, <1>4, SpilledStep
  <2> QED
    BY <2>1, <2>6, <2>7, <2>8 DEF DayInv, Days, Requests
<1> QED
  BY <1>2, <1>3, <1>4 DEF Next, RequestStep

(* One request at a time and none cut short, the emails attempted on a day  *)
(* of the clock stay within the daily limit and one interval, the one of an *)
(* advance that is still sending after midnight.                            *)
THEOREM DaysAreCapped ==
    MaxOverlap = 1 /\ MaxFaults = 0 => (Spec => [](params.perInterval >= 0 => DailyCap))
<1> SUFFICES ASSUME MaxOverlap = 1, MaxFaults = 0
             PROVE  Spec => [](params.perInterval >= 0 => DailyCap)
  OBVIOUS
<1>1. ASSUME RowInv, EmailInv, CapInv, DayInv, params.perInterval >= 0 PROVE DailyCap
  <2> DEFINE n == params.perInterval
  <2> SUFFICES ASSUME params.perDay # NoLimit, NEW d \in Days
               PROVE  attemptsOn[d] <= params.perDay + n
    BY DEF DailyCap
  <2>1. /\ TypeOK /\ Limited /\ Capped(d) /\ Spilled(d)
        /\ \A p \in Requests : TallyFits(p)
    BY <1>1 DEF RowInv, CapInv, DayInv, Limited
  <2>2. /\ n \in Nat /\ params.perDay \in Int /\ attemptedOn[d] \in Nat /\ attemptsOn[d] \in Nat
        /\ n <= params.perDay
    BY <1>1, <2>1, PlanConstants DEF TypeOK, CapInv, ValidLimits
  <2>3. Allowance = params.perDay
    BY <2>2 DEF Allowance
  <2>4. attemptedOn[d] <= params.perDay
    BY <2>1, <2>3, CappedBelow
  <2>5. CASE Idle
    BY <2>1, <2>2, <2>4, <2>5 DEF Spilled
  <2>6. ASSUME NEW p \in Requests, pc[p] \in Advancing
        PROVE  attemptsOn[d] <= params.perDay + n
    <3>1. /\ started[p] \in 0..Horizon /\ d \in Int /\ Day(started[p]) \in Int
          /\ Attempted(p) \in Nat
      BY <2>1, DaysAreNumbers, DayOfClock, CountsTyped DEF TypeOK
    <3>2. Attempted(p) <= n
      BY <2>1, <2>2, <2>6, AttemptsFit
    <3>3. d = Day(started[p]) => attemptedOn[d] + Attempted(p) <= params.perDay
      BY <1>1, <2>1, <2>6, AttemptsFitDay DEF EmailInv
    <3>4. /\ d > Day(started[p]) => attemptsOn[d] <= Attempted(p)
          /\ d = Day(started[p]) => attemptsOn[d] <= n + attemptedOn[d] + Attempted(p)
          /\ d < Day(started[p]) => attemptsOn[d] <= n + attemptedOn[d]
      BY <2>1, <2>6 DEF Spilled
    <3> HIDE DEF n
    <3> QED
      BY <2>2, <2>4, <3>1, <3>2, <3>3, <3>4
  <2> QED
    BY <2>5, <2>6 DEF Idle
<1>2. RowInv /\ EmailInv /\ CapInv /\ DayInv => (params.perInterval >= 0 => DailyCap)
  BY <1>1
<1> QED
  BY <1>2, RowInit, RowNext, EmailInit, EmailNext, CapInit, CapNext, DayInit, DayNext, PTL
     DEF Spec


----------------------------------------------------------------------------
(* One request at a time and none cut short.  Then the copy of the plan an  *)
(* advance works on is the row, and whatever is written back is due only    *)
(* when the latest recorded advance has rested.                             *)

Rested(t, u) == u >= t + params.interval \/ Day(u) > Day(t)

RowPaced(row) ==
    row.status \in {"Scheduled", "Paused"} /\ advances # <<>> =>
        Rested(advances[Len(advances)].started, row.next)

Settled == \A p \in Requests : pc[p] # "save"

(* The advances are numbered in the order they were recorded.               *)
Numbered == \A i \in DOMAIN advances : advances[i].number = i

(* What a request that advances the plan has read still holds.             *)
Current(p) ==
    /\ p \in Advancers /\ copy[p] = plan
    /\ started[p] <= now
    /\ \A i \in DOMAIN advances : advances[i].started <= started[p]
    /\ p \in Jobs => plan.next <= started[p]

PaceInv ==
    /\ \A p \in Requests : pc[p] \in Advancing => Current(p)
    /\ \A i \in DOMAIN advances : advances[i].started <= now
    /\ plan.status = "Absent" => advances = <<>>
    /\ Settled => RowPaced(plan) /\ plan.advanced = Len(advances)
    /\ \A p \in Requests : pc[p] = "save" =>
          RowPaced(copy[p]) /\ copy[p].advanced = Len(advances)
    /\ Numbered
    /\ Paced

(* What a step of the only request in flight does to the plan.             *)
Reads(p) ==
    /\ pc[p] # "save" /\ pc'[p] # "save"
    /\ pc'[p] \in Advancing =>
          \/ pc[p] \in Advancing /\ copy'[p] = copy[p] /\ started'[p] = started[p]
          \/ /\ p \in Advancers /\ copy'[p] = plan /\ started'[p] = now
             /\ p \in Jobs /\ plan.next # NoTime => plan.next <= now
             /\ copy'[p].status # "Completed"
    /\ UNCHANGED <<plan, advances>>

Prepares(p) ==
    /\ pc[p] # "save" /\ pc'[p] = "save"
    /\ RowPaced(copy'[p]) /\ copy'[p].advanced = plan.advanced
    /\ UNCHANGED <<plan, advances>>

Records(p) ==
    /\ pc[p] \in Advancing /\ pc'[p] = "save"
    /\ copy'[p] = AdvancedRow(p, copy[p].advanced + 1)
    /\ \E row \in AdvanceType :
          /\ advances' = Append(advances, row)
          /\ row.number = copy[p].advanced + 1
          /\ row.manual = IsManual(p) /\ row.started = started[p]
    /\ UNCHANGED plan

Saves(p) ==
    /\ pc[p] = "save" /\ pc'[p] # "save" /\ pc'[p] \notin Advancing
    /\ plan' = copy[p] /\ UNCHANGED advances

----------------------------------------------------------------------------
LEMMA RestedLater ==
    ASSUME TypeOK, NEW t \in Int, NEW u \in Int, NEW v \in Int, u <= v, Rested(t, u)
    PROVE  Rested(t, v)
<1>1. params.interval \in Int
  BY DEF TypeOK
<1>2. Day(u) <= Day(v) /\ Day(t) \in Int /\ Day(u) \in Int /\ Day(v) \in Int
  BY DayMonotone, DayBounds
<1> HIDE DEF Day
<1> QED
  BY <1>1, <1>2 DEF Rested

LEMMA RestedAfter ==
    ASSUME TypeOK, NEW t \in Int, NEW s \in Int, t <= s
    PROVE  Rested(t, s + params.interval) /\ Rested(t, NextDay(s))
<1>1. params.interval \in Int
  BY DEF TypeOK
<1>2. Day(t) <= Day(s) /\ Day(NextDay(s)) = Day(s) + 1 /\ Day(t) \in Int /\ Day(s) \in Int
  BY DayMonotone, DayBounds
<1>3. s + params.interval >= t + params.interval
  BY <1>1
<1>4. Day(NextDay(s)) > Day(t)
  BY <1>2
<1> QED
  BY <1>3, <1>4 DEF Rested

LEMMA AdvancesTyped ==
    ASSUME TypeOK
    PROVE  /\ Len(advances) \in Nat /\ DOMAIN advances = 1..Len(advances)
           /\ advances # <<>> => Len(advances) \in DOMAIN advances
           /\ \A i \in DOMAIN advances : advances[i].started \in Int
<1>1. advances \in Seq(AdvanceType)
  BY DEF TypeOK
<1>2. /\ Len(advances) \in Nat /\ DOMAIN advances = 1..Len(advances)
      /\ advances # <<>> => Len(advances) \in DOMAIN advances
  BY <1>1
<1>3. \A i \in DOMAIN advances : advances[i] \in AdvanceType
  BY <1>1
<1> QED
  BY <1>2, <1>3 DEF AdvanceType

(* The row an advance leaves is due when what it recorded, or what was      *)
(* recorded before it, has rested.                                          *)
LEMMA AdvanceLeavesRest ==
    ASSUME TypeOK, NEW p \in Requests, copy[p].status \in {"Scheduled", "Paused"},
           NEW count \in Nat, NEW t \in Int, t <= started[p]
    PROVE  /\ AdvancedRow(p, count).advanced = count
           /\ AdvancedRow(p, count).status \in {"Scheduled", "Paused"} =>
                 Rested(t, AdvancedRow(p, count).next)
<1> DEFINE row == AdvancedRow(p, count)
<1>1. copy[p] \in RowType /\ started[p] \in Int
  <2>1. copy \in [Requests -> RowType] /\ started \in [Requests -> 0..Horizon]
    BY DEF TypeOK
  <2> QED
    BY <2>1
<1>2. /\ row.advanced = count
      /\ \/ row.status = "Completed"
         \/ row.next = started[p] + params.interval
         \/ row.next = NextDay(started[p])
  BY <1>1 DEF AdvancedRow, CompletedRow, RowType
<1> QED
  BY <1>1, <1>2, RestedAfter

LEMMA SettledAlone ==
    ASSUME MaxOverlap = 1, RowInv, EmailInv, NEW p \in Requests, RequestStep(p),
           pc[p] # "save"
    PROVE  Settled
BY AloneInFlight DEF Settled

LEMMA PreparedByToggle ==
    ASSUME MaxOverlap = 1, RowInv, EmailInv, PaceInv, NEW p \in Requests,
           LoadForPause(p) \/ LoadForResume(p)
    PROVE  Prepares(p)
<1>1. /\ TypeOK /\ pc \in [Requests -> Labels] /\ copy \in [Requests -> RowType]
      /\ plan \in RowType /\ now \in Int /\ Consistent(plan)
  <2>1. TypeOK /\ now \in 0..Horizon /\ Consistent(plan)
    BY DEF RowInv, RowsConsistent, TypeOK
  <2> QED
    BY <2>1 DEF TypeOK
<1>2. /\ pc[p] = "idle" /\ pc'[p] = "save"
      /\ copy'[p] = PausedRow(plan) \/ copy'[p] = ResumedRow(plan, now)
      /\ plan.status \notin {"Absent", "Completed"} /\ UNCHANGED <<plan, advances>>
  BY <1>1 DEF LoadForPause, LoadForResume, HasSlot, Goto, store
<1>3. plan.status \in {"Scheduled", "Paused"} /\ plan.next \in Int
  BY <1>1, <1>2 DEF RowType, Statuses, Consistent
<1>4. RowPaced(plan)
  BY <1>2, SettledAlone DEF PaceInv, RequestStep
<1>5. /\ copy'[p].advanced = plan.advanced
      /\ copy'[p].next \in Int /\ plan.next <= copy'[p].next
  <2>1. CASE copy'[p] = PausedRow(plan)
    BY <1>1, <1>3, <2>1 DEF PausedRow, RowType
  <2>2. CASE copy'[p] = ResumedRow(plan, now)
    <3>1. plan.next # NoTime
      BY <1>3, PlanConstants
    <3>2. /\ copy'[p].advanced = plan.advanced
          /\ copy'[p].next = IF plan.next < now THEN now ELSE plan.next
      BY <1>1, <2>2, <3>1 DEF ResumedRow, RowType
    <3> QED
      BY <1>1, <1>3, <3>2
  <2> QED
    BY <1>2, <2>1, <2>2
<1>6. RowPaced(copy'[p])
  <2> SUFFICES ASSUME advances # <<>>
               PROVE  Rested(advances[Len(advances)].started, copy'[p].next)
    BY DEF RowPaced
  <2>1. Rested(advances[Len(advances)].started, plan.next)
    BY <1>3, <1>4 DEF RowPaced
  <2>2. advances[Len(advances)].started \in Int
    BY <1>1, AdvancesTyped
  <2> QED
    BY <1>1, <1>3, <1>5, <2>1, <2>2, RestedLater
<1> QED
  BY <1>2, <1>5, <1>6 DEF Prepares

LEMMA PaceOfStep ==
    ASSUME MaxOverlap = 1, MaxFaults = 0, RowInv, EmailInv, PaceInv,
           NEW p \in Requests, RequestStep(p)
    PROVE  Reads(p) \/ Prepares(p) \/ Records(p) \/ Saves(p)
<1> USE DEF Goto
<1>1. /\ TypeOK /\ pc \in [Requests -> Labels] /\ copy \in [Requests -> RowType]
      /\ started \in [Requests -> 0..Horizon] /\ plan \in RowType
  BY DEF RowInv, TypeOK
<1>2. ASSUME pc[p] \in Advancing
      PROVE  /\ Current(p) /\ copy[p].status \in {"Scheduled", "Paused"}
             /\ RowPaced(plan) /\ plan.advanced = Len(advances) /\ copy[p] = plan
             /\ pc[p] # "save"
  <2>1. Settled
    BY <1>2, SettledAlone DEF Advancing
  <2> QED
    BY <1>2, <2>1 DEF PaceInv, Current, RowInv, Lifecycle, Advancing
<1>3. ASSUME pc[p] \in Advancing,
             advances # <<>> /\ copy'[p].status \in {"Scheduled", "Paused"} =>
                 Rested(advances[Len(advances)].started, copy'[p].next),
             copy'[p].advanced = copy[p].advanced,
             pc'[p] = "save", UNCHANGED <<plan, advances>>
      PROVE  Prepares(p)
  BY <1>2, <1>3 DEF Prepares, RowPaced
<1>4. ASSUME pc[p] \in Advancing, advances # <<>>
      PROVE  /\ advances[Len(advances)].started \in Int /\ started[p] \in Int
             /\ advances[Len(advances)].started <= started[p]
             /\ Rested(advances[Len(advances)].started, copy[p].next)
  <2>1. Len(advances) \in DOMAIN advances /\ advances[Len(advances)].started \in Int
    BY <1>1, <1>4, AdvancesTyped
  <2>2. started[p] \in 0..Horizon
    BY <1>1
  <2>3. Rested(advances[Len(advances)].started, copy[p].next)
    BY <1>2, <1>4 DEF RowPaced
  <2> QED
    BY <1>2, <1>4, <2>1, <2>2, <2>3 DEF Current
<1>5. CASE ListDuePlans(p) \/ RejectAdvance(p)
  <2>1. UNCHANGED <<plan, advances>> /\ pc[p] # "save" /\ pc'[p] \in {"idle", "load"}
    BY <1>1, <1>5 DEF ListDuePlans, RejectAdvance, HasSlot, Release, store
  <2> QED
    BY <2>1 DEF Reads, Advancing
<1>6. CASE LoadPlan(p)
  <2>1. /\ UNCHANGED <<plan, advances>> /\ pc[p] # "save" /\ pc'[p] = "count"
        /\ copy'[p] = plan /\ started'[p] = now /\ p \in Jobs \cup Clicks /\ MayAdvance(p)
    BY <1>1, <1>6 DEF LoadPlan, HasSlot, store
  <2>2. p \in Jobs => ~IsManual(p)
    BY PlanConstants DEF IsManual
  <2> QED
    BY <2>1, <2>2 DEF Reads, Advancers, MayAdvance
<1>7. CASE LoadForPause(p) \/ LoadForResume(p)
  BY <1>7, PreparedByToggle
<1>8. CASE CountPendingRecipients(p)
  <2>1. pc[p] \in Advancing /\ pc[p] # "save" /\ UNCHANGED <<plan, advances, started>>
    BY <1>8 DEF CountPendingRecipients, Advancing, store
  <2>2. CASE PendingRecipients = {}
    <3>1. copy'[p] = CompletedRow(copy[p]) /\ pc'[p] = "save"
      BY <1>1, <1>8, <2>2 DEF CountPendingRecipients
    <3>2. copy'[p].status = "Completed" /\ copy'[p].advanced = copy[p].advanced
      BY <1>1, <3>1 DEF CompletedRow, RowType
    <3> QED
      BY <1>3, <2>1, <3>1, <3>2
  <2>3. CASE PendingRecipients # {}
    <3>1. copy' = copy /\ pc'[p] = "capacity"
      BY <1>1, <1>8, <2>3 DEF CountPendingRecipients
    <3> QED
      BY <2>1, <3>1 DEF Reads
  <2> QED
    BY <2>2, <2>3
<1>9. CASE CheckDailyCapacity(p)
  <2>1. pc[p] \in Advancing /\ pc[p] # "save" /\ UNCHANGED <<plan, advances, started>>
    BY <1>9 DEF CheckDailyCapacity, Advancing, store
  <2>2. CASE RemainingDailyCapacity(started[p]) = 0
    <3>1. copy'[p] = CappedRow(copy[p], started[p]) /\ pc'[p] = "save"
      BY <1>1, <1>9, <2>2 DEF CheckDailyCapacity
    <3>2. /\ copy'[p].advanced = copy[p].advanced
          /\ copy'[p].next = copy[p].next \/ copy'[p].next = NextDay(started[p])
      BY <1>1, <3>1 DEF CappedRow, RowType
    <3>3. advances # <<>> => Rested(advances[Len(advances)].started, copy'[p].next)
      BY <1>1, <1>4, <2>1, <3>2, RestedAfter
    <3> QED
      BY <1>3, <2>1, <3>1, <3>2, <3>3
  <2>3. CASE RemainingDailyCapacity(started[p]) # 0
    <3>1. copy' = copy /\ pc'[p] = "list"
      BY <1>1, <1>9, <2>3 DEF CheckDailyCapacity
    <3> QED
      BY <2>1, <3>1 DEF Reads
  <2> QED
    BY <2>2, <2>3
<1>10. CASE \/ ListPendingRecipients(p) \/ ResolveContact(p)
            \/ SendEmail(p) \/ UpdateRecipient(p)
  <2>1. pc[p] \in Advancing /\ pc[p] # "save" /\ UNCHANGED <<plan, advances, started, copy>>
    BY <1>10 DEF ListPendingRecipients, ResolveContact, SendEmail, UpdateRecipient,
         Advancing, store
  <2>2. \E label \in {"loop", "send", "update"} : pc' = [pc EXCEPT ![p] = label]
    BY <1>10 DEF ListPendingRecipients, ResolveContact, SendEmail, UpdateRecipient
  <2>3. pc'[p] # "save"
    BY <1>1, <2>2
  <2> QED
    BY <2>1, <2>3 DEF Reads
<1>11. CASE FinishIdleAdvance(p)
  <2>1. /\ pc[p] \in Advancing /\ pc'[p] = "save" /\ UNCHANGED <<plan, advances>>
        /\ copy'[p] = AdvancedRow(p, copy[p].advanced)
    BY <1>1, <1>11 DEF FinishIdleAdvance, Advancing, store
  <2>2. copy[p].advanced \in Nat
    BY <1>1 DEF RowType
  <2>3. /\ copy'[p].advanced = copy[p].advanced
        /\ copy'[p].status \in {"Scheduled", "Paused"} /\ advances # <<>> =>
              Rested(advances[Len(advances)].started, copy'[p].next)
    <3>1. ASSUME advances # <<>>, copy'[p].status \in {"Scheduled", "Paused"}
          PROVE  Rested(advances[Len(advances)].started, copy'[p].next)
      BY <1>1, <1>2, <1>4, <2>1, <2>2, <3>1, AdvanceLeavesRest
    <3>2. started[p] \in Int
      BY <1>1
    <3>3. copy'[p].advanced = copy[p].advanced
      BY <1>1, <1>2, <2>1, <2>2, <3>2, AdvanceLeavesRest
    <3> QED
      BY <3>1, <3>3
  <2> QED
    BY <1>3, <2>1, <2>3
<1>12. CASE InsertAdvance(p)
  <2> DEFINE row == [number |-> copy[p].advanced + 1, manual |-> IsManual(p),
                     started |-> started[p], sent |-> tally[p].sent,
                     failed |-> tally[p].failed, skipped |-> tally[p].skipped,
                     pending |-> Cardinality(todo[p])]
  <2>1. /\ pc[p] \in Advancing /\ pc'[p] = "save" /\ plan' = plan
        /\ copy'[p] = AdvancedRow(p, copy[p].advanced + 1)
        /\ advances' = Append(advances, row)
    BY <1>1, <1>12 DEF InsertAdvance, Advancing
  <2>2. row \in AdvanceType
    <3>1. copy[p].advanced + 1 \in Nat /\ started[p] \in 0..Horizon
      BY <1>1 DEF RowType
    <3>2. tally[p] \in TallyType /\ IsManual(p) \in BOOLEAN /\ Cardinality(todo[p]) \in Nat
      BY <1>1, CountsTyped DEF TypeOK, IsManual
    <3> QED
      BY <3>1, <3>2 DEF AdvanceType, TallyType
  <2> QED
    BY <2>1, <2>2 DEF Records
<1>13. CASE UpdateEmailPlanStatus(p)
  <2>1. pc[p] = "save" /\ plan' = copy[p] /\ advances' = advances /\ pc'[p] = "idle"
    BY <1>1, <1>13 DEF UpdateEmailPlanStatus, Release
  <2> QED
    BY <2>1 DEF Saves, Advancing
<1>14. CASE Abort(p)
  BY <1>1, <1>14 DEF Abort, TypeOK
<1> QED
  BY <1>5, <1>6, <1>7, <1>8, <1>9, <1>10, <1>11, <1>12, <1>13, <1>14 DEF RequestStep, Progress

(* The recorded advance comes after the one before it in number, and an     *)
(* automatic one only when that one has rested.                             *)
LEMMA RecordPaced ==
    ASSUME TypeOK, PaceInv, NEW p \in Requests, Current(p), Settled, params' = params,
           plan.status \in {"Scheduled", "Paused"}, plan.next \in Int,
           NEW row \in AdvanceType, advances' = Append(advances, row),
           row.number = copy[p].advanced + 1, row.manual = IsManual(p),
           row.started = started[p]
    PROVE  /\ Numbered' /\ Paced'
           /\ Len(advances') = Len(advances) + 1
           /\ \A i \in DOMAIN advances' : advances'[i].started <= started[p]
           /\ advances' # <<>> /\ advances'[Len(advances')].started = started[p]
<1> DEFINE n == Len(advances)
<1>1. advances \in Seq(AdvanceType) /\ started[p] \in Int
  <2>1. advances \in Seq(AdvanceType) /\ started \in [Requests -> 0..Horizon]
    BY DEF TypeOK
  <2> QED
    BY <2>1
<1>2. /\ n \in Nat /\ DOMAIN advances = 1..n
      /\ DOMAIN advances' = 1..(n + 1) /\ Len(advances') = n + 1
      /\ \A i \in 1..n : advances'[i] = advances[i]
      /\ advances'[n + 1] = row /\ advances' # <<>>
  BY <1>1
<1>3. plan.advanced = n /\ copy[p] = plan /\ RowPaced(plan)
  BY DEF PaceInv, Current
<1> HIDE DEF n
<1>4. \A i \in 1..(n + 1) : i \in 1..n \/ i = n + 1
  BY <1>2
<1>5. \A i \in DOMAIN advances' : advances'[i].number = i
  <2>1. \A i \in 1..n : advances'[i].number = i
    BY <1>2 DEF PaceInv, Numbered
  <2>2. advances'[n + 1].number = n + 1
    BY <1>2, <1>3
  <2> QED
    BY <1>2, <1>4, <2>1, <2>2
<1>6. \A i \in DOMAIN advances' : advances'[i].started <= started[p]
  <2>1. \A i \in 1..n : advances'[i].started <= started[p]
    BY <1>2 DEF Current
  <2>2. advances'[n + 1].started <= started[p]
    BY <1>1, <1>2
  <2> QED
    BY <1>2, <1>4, <2>1, <2>2
<1>7. ASSUME NEW i \in 1..(n + 1), NEW j \in 1..(n + 1), j = i + 1, ~advances'[j].manual
      PROVE  Rested(advances'[i].started, advances'[j].started)
  <2>1. i \in 1..n /\ (j \in 1..n \/ (j = n + 1 /\ i = n))
    BY <1>2, <1>7
  <2>2. CASE j \in 1..n
    <3>1. advances'[i] = advances[i] /\ advances'[j] = advances[j] /\ ~advances[j].manual
      BY <1>2, <1>7, <2>1, <2>2
    <3>2. i \in DOMAIN advances /\ j \in DOMAIN advances
      BY <1>2, <2>1, <2>2
    <3> QED
      BY <1>7, <3>1, <3>2 DEF PaceInv, Paced, Rested
  <2>3. CASE j = n + 1 /\ i = n
    <3>1. advances'[j] = row /\ advances'[i] = advances[n] /\ n \in DOMAIN advances
      BY <1>2, <2>1, <2>3
    <3>2. advances # <<>> /\ advances[n].started \in Int
      BY <1>2, <3>1, AdvancesTyped DEF n
    <3>3. Rested(advances[n].started, plan.next)
      BY <1>3, <3>2 DEF RowPaced, n
    <3>4. p \in Jobs
      BY <1>7, <3>1 DEF IsManual, Current, Advancers
    <3>5. plan.next <= started[p]
      BY <3>4 DEF Current
    <3>6. Rested(advances[n].started, started[p])
      BY <1>1, <3>2, <3>3, <3>5, RestedLater
    <3> QED
      BY <3>1, <3>6
  <2> QED
    BY <2>1, <2>2, <2>3
<1>8. Paced'
  <2> SUFFICES ASSUME NEW i \in DOMAIN advances', NEW j \in DOMAIN advances',
                      j = i + 1, ~advances'[j].manual
               PROVE  \/ advances'[j].started >= advances'[i].started + params'.interval
                      \/ Day(advances'[j].started) > Day(advances'[i].started)
    BY DEF Paced, Day
  <2>1. Rested(advances'[i].started, advances'[j].started)
    BY <1>2, <1>7
  <2> QED
    BY <2>1 DEF Rested
<1> QED
  BY <1>2, <1>5, <1>6, <1>8 DEF Numbered, n

LEMMA PaceStep ==
    ASSUME MaxOverlap = 1, MaxFaults = 0, RowInv, EmailInv, PaceInv,
           NEW p \in Requests, RequestStep(p)
    PROVE  PaceInv'
<1>1. /\ TypeOK /\ params' = params /\ plan.status # "Absent" /\ plan'.status # "Absent"
      /\ plan \in RowType /\ now \in Int
  <2>1. TypeOK /\ now \in 0..Horizon
    BY DEF RowInv, TypeOK
  <2> QED
    BY <2>1, LimitsStay DEF TypeOK
<1>2. now' = now
  BY DEF RequestStep, Progress, ListDuePlans, LoadForPause, LoadForResume,
     LoadPlan, RejectAdvance, CountPendingRecipients, CheckDailyCapacity,
     ListPendingRecipients, ResolveContact, SendEmail, UpdateRecipient,
     FinishIdleAdvance, InsertAdvance, UpdateEmailPlanStatus, Abort
<1>3. \A q \in Requests \ {p} : pc[q] = "idle" /\ pc'[q] = "idle"
  BY AloneInFlight
<1>4. pc[p] # "save" => Settled /\ RowPaced(plan) /\ plan.advanced = Len(advances)
  BY SettledAlone DEF PaceInv
<1>5. Settled' <=> pc'[p] # "save"
  BY <1>3 DEF Settled, Requests
<1>6. ASSUME \A i \in DOMAIN advances' : advances'[i].started <= now,
             Numbered', Paced',
             pc'[p] \in Advancing => Current(p)',
             pc'[p] # "save" => RowPaced(plan)' /\ plan'.advanced = Len(advances'),
             pc'[p] = "save" => RowPaced(copy[p])' /\ copy'[p].advanced = Len(advances')
      PROVE  PaceInv'
  <2>1. \A q \in Requests' : q # p => pc'[q] \notin Advancing /\ pc'[q] # "save"
    BY <1>3 DEF Requests, Advancing
  <2> QED
    BY <1>1, <1>2, <1>5, <1>6, <2>1 DEF PaceInv
<1>7. ASSUME UNCHANGED advances
      PROVE  /\ \A i \in DOMAIN advances' : advances'[i].started <= now
             /\ Numbered' /\ Paced'
  BY <1>1, <1>7 DEF PaceInv, Numbered, Paced, Day
<1>8. CASE Reads(p)
  <2>1. UNCHANGED <<plan, advances>> /\ pc[p] # "save" /\ pc'[p] # "save"
    BY <1>8 DEF Reads
  <2>2. RowPaced(plan)' /\ plan'.advanced = Len(advances')
    BY <1>1, <1>4, <2>1 DEF RowPaced, Rested, Day
  <2>3. ASSUME pc'[p] \in Advancing PROVE Current(p)'
    <3>1. CASE pc[p] \in Advancing /\ copy'[p] = copy[p] /\ started'[p] = started[p]
      BY <1>2, <2>1, <3>1 DEF PaceInv, Current, Advancers
    <3>2. CASE /\ p \in Advancers /\ copy'[p] = plan /\ started'[p] = now
               /\ p \in Jobs /\ plan.next # NoTime => plan.next <= now
               /\ copy'[p].status # "Completed"
      <4>1. plan.status \in {"Scheduled", "Paused"} /\ plan.next # NoTime
        BY <1>1, <3>2 DEF RowType, Statuses, RowInv, RowsConsistent, Consistent
      <4> QED
        BY <1>1, <1>2, <2>1, <3>2, <4>1 DEF PaceInv, Current, Advancers
    <3> QED
      BY <1>8, <2>3, <3>1, <3>2 DEF Reads
  <2> QED
    BY <1>6, <1>7, <2>1, <2>2, <2>3
<1>9. CASE Prepares(p)
  <2>1. /\ UNCHANGED <<plan, advances>> /\ pc[p] # "save" /\ pc'[p] = "save"
        /\ RowPaced(copy'[p]) /\ copy'[p].advanced = plan.advanced
    BY <1>9 DEF Prepares
  <2>2. RowPaced(copy[p])'
    BY <1>1, <2>1 DEF RowPaced, Rested, Day
  <2> QED
    BY <1>4, <1>6, <1>7, <2>1, <2>2 DEF Advancing
<1>10. CASE Records(p)
  <2>1. /\ pc[p] \in Advancing /\ pc[p] # "save" /\ pc'[p] = "save"
        /\ copy'[p] = AdvancedRow(p, copy[p].advanced + 1)
    BY <1>10 DEF Records, Advancing
  <2>2. PICK row \in AdvanceType :
          /\ advances' = Append(advances, row)
          /\ row.number = copy[p].advanced + 1
          /\ row.manual = IsManual(p) /\ row.started = started[p]
    BY <1>10 DEF Records
  <2>3. Current(p) /\ copy[p] = plan /\ started[p] <= now /\ plan.advanced \in Nat
    BY <1>1, <2>1 DEF PaceInv, Current, RowType
  <2>4. copy[p].status \in {"Scheduled", "Paused"} /\ plan.next \in Int
    <3>1. copy[p].status \in {"Scheduled", "Paused"}
      BY <2>1 DEF RowInv, Lifecycle
    <3> QED
      BY <1>1, <2>3, <3>1 DEF RowType, RowInv, RowsConsistent, Consistent
  <2>5. /\ Numbered' /\ Paced'
        /\ Len(advances') = Len(advances) + 1
        /\ \A i \in DOMAIN advances' : advances'[i].started <= started[p]
        /\ advances' # <<>> /\ advances'[Len(advances')].started = started[p]
    BY <1>1, <1>4, <2>1, <2>2, <2>3, <2>4, RecordPaced
  <2>6. started[p] \in Int /\ Len(advances) \in Nat
        /\ \A i \in DOMAIN advances' : advances'[i].started \in Int
    <3>1. TypeOK'
      BY <1>1, NextTyped DEF Next, RequestStep
    <3>2. started \in [Requests -> 0..Horizon] /\ advances' \in Seq(AdvanceType)
      BY <1>1, <3>1 DEF TypeOK
    <3>3. \A i \in DOMAIN advances' : advances'[i] \in AdvanceType
      BY <3>2
    <3>4. \A i \in DOMAIN advances' : advances'[i].started \in Int
      BY <3>3 DEF AdvanceType
    <3>5. Len(advances) \in Nat
      BY <1>1, AdvancesTyped
    <3> QED
      BY <3>2, <3>4, <3>5
  <2>7. \A i \in DOMAIN advances' : advances'[i].started <= now
    BY <1>1, <2>3, <2>5, <2>6
  <2>8. /\ copy'[p].advanced = plan.advanced + 1
        /\ copy'[p].status \in {"Scheduled", "Paused"} => Rested(started[p], copy'[p].next)
    BY <1>1, <2>1, <2>3, <2>4, <2>6, AdvanceLeavesRest
  <2>9. RowPaced(copy[p])'
    BY <1>1, <2>5, <2>8 DEF RowPaced, Rested, Day
  <2> QED
    BY <1>4, <1>6, <2>1, <2>5, <2>7, <2>8, <2>9 DEF Advancing
<1>11. CASE Saves(p)
  <2>1. /\ pc[p] = "save" /\ pc'[p] # "save" /\ pc'[p] \notin Advancing
        /\ plan' = copy[p] /\ UNCHANGED advances
    BY <1>11 DEF Saves
  <2>2. RowPaced(plan)' /\ plan'.advanced = Len(advances')
    BY <1>1, <2>1 DEF PaceInv, RowPaced, Rested, Day
  <2> QED
    BY <1>6, <1>7, <2>1, <2>2
<1> QED
  BY <1>8, <1>9, <1>10, <1>11, PaceOfStep

LEMMA PaceInit == Init => PaceInv
BY DEF Init, PaceInv, Settled, RowPaced, AbsentRow, Numbered, Paced, Advancing

LEMMA PaceNext ==
    MaxOverlap = 1 /\ MaxFaults = 0 /\ RowInv /\ EmailInv /\ PaceInv /\ [Next]_vars => PaceInv'
<1> SUFFICES ASSUME MaxOverlap = 1, MaxFaults = 0, RowInv, EmailInv, PaceInv, [Next]_vars
             PROVE  PaceInv'
  OBVIOUS
<1>1. CASE Tick \/ UNCHANGED vars
  <2>1. UNCHANGED <<plan, params, advances, pc, copy, started>>
    BY <1>1 DEF Tick, vars, store, locals
  <2>2. now \in Int /\ now' \in Int /\ now <= now'
    <3>1. now \in 0..Horizon /\ (now' = now \/ now' = now + 1)
      BY <1>1 DEF Tick, vars, RowInv, TypeOK
    <3> QED
      BY <3>1
  <2>3. TypeOK
    BY DEF RowInv
  <2>4. \A i \in DOMAIN advances : advances[i].started <= now'
    BY <2>2, <2>3, AdvancesTyped DEF PaceInv
  <2>5. ASSUME NEW p \in Requests, Current(p) PROVE Current(p)'
    <3>1. started \in [Requests -> 0..Horizon]
      BY <2>3 DEF TypeOK
    <3>2. started[p] <= now'
      BY <2>2, <2>5, <3>1 DEF Current
    <3> QED
      BY <2>1, <2>5, <3>2 DEF Current, Advancers
  <2>6. \A p \in Requests : pc'[p] \in Advancing => Current(p)'
    BY <2>1, <2>5 DEF PaceInv
  <2>7. /\ Settled' = Settled /\ RowPaced(plan)' = RowPaced(plan)
        /\ \A p \in Requests : RowPaced(copy[p])' = RowPaced(copy[p])
        /\ Numbered' = Numbered /\ Paced' = Paced /\ Requests' = Requests
    BY <2>1 DEF Settled, RowPaced, Rested, Day, Numbered, Paced, Requests
  <2> QED
    BY <2>1, <2>4, <2>6, <2>7 DEF PaceInv
<1>2. CASE CreatePlan
  <2>1. /\ plan.status = "Absent" /\ plan'.status = "Scheduled" /\ plan'.advanced = 0
        /\ UNCHANGED <<advances, pc>>
    BY <1>2 DEF CreatePlan, locals
  <2>2. advances' = <<>>
    BY <2>1 DEF PaceInv
  <2>3. \A p \in Requests : pc'[p] = "idle"
    BY <2>1 DEF RowInv, Lifecycle
  <2> QED
    BY <2>1, <2>2, <2>3 DEF PaceInv, Settled, RowPaced, Numbered, Paced, Advancing, Requests
<1>3. ASSUME NEW p \in Requests, RequestStep(p) PROVE PaceInv'
  BY <1>3, PaceStep
<1> QED
  BY <1>1, <1>2, <1>3 DEF Next, RequestStep

(* One request at a time and none cut short, an automatic advance begins    *)
(* interval_minutes after the recorded advance before it, or on a later     *)
(* day, through any pauses, resumes and manual advances in between.         *)
THEOREM AdvancesArePaced == MaxOverlap = 1 /\ MaxFaults = 0 => (Spec => []Paced)
<1> SUFFICES ASSUME MaxOverlap = 1, MaxFaults = 0 PROVE Spec => []Paced
  OBVIOUS
<1>1. PaceInv => Paced
  BY DEF PaceInv
<1> QED
  BY <1>1, RowInit, RowNext, EmailInit, EmailNext, PaceInit, PaceNext, PTL DEF Spec

(* Under the same conditions the advances of a plan are numbered 1, 2, ...  *)
(* in the order they were recorded, although the unique index that should   *)
(* see to it accepts every insert.                                          *)
THEOREM AdvancesAreNumbered == MaxOverlap = 1 /\ MaxFaults = 0 => (Spec => []Numbered)
<1> SUFFICES ASSUME MaxOverlap = 1, MaxFaults = 0 PROVE Spec => []Numbered
  OBVIOUS
<1>1. PaceInv => Numbered
  BY DEF PaceInv
<1> QED
  BY <1>1, RowInit, RowNext, EmailInit, EmailNext, PaceInit, PaceNext, PTL DEF Spec



----------------------------------------------------------------------------
(* What is recorded adds up.  First sums: two functions that are running    *)
(* totals of the same numbers do not differ at a least position.           *)

LEMMA LeastNumber ==
    ASSUME NEW T, T \subseteq Nat, T # {}
    PROVE  \E i \in T : \A j \in T : i <= j
<1>1. PICK i \in T : \A j \in T : ~(<<j, i>> \in OpToRel(<, Nat))
  BY NatLessThanWellFounded, WFMin
<1>2. \A j \in T : ~(j < i)
  BY <1>1 DEF OpToRel
<1> QED
  BY <1>2

(* u are the running totals of the first n counts.                         *)
RunningTotals(u, s, n) ==
    u = [i \in 0..n |-> IF i = 0 THEN 0 ELSE u[i - 1] + s[i]]

LEMMA TotalsAgree ==
    ASSUME NEW s, NEW n \in Nat, NEW u, NEW v, RunningTotals(u, s, n), RunningTotals(v, s, n)
    PROVE  u[n] = v[n]
<1>1. SUFFICES ASSUME u[n] # v[n] PROVE FALSE
  OBVIOUS
<1> DEFINE T == {i \in 0..n : u[i] # v[i]}
<1>2. T \subseteq Nat /\ n \in T
  BY <1>1
<1>3. PICK i \in T : \A j \in T : i <= j
  <2> HIDE DEF T
  <2> QED
    BY <1>2, LeastNumber
<1>4. /\ u[i] = IF i = 0 THEN 0 ELSE u[i - 1] + s[i]
      /\ v[i] = IF i = 0 THEN 0 ELSE v[i - 1] + s[i]
  BY DEF RunningTotals
<1>5. i # 0 => i - 1 \in 0..n /\ i - 1 \notin T
  BY <1>2, <1>3
<1> QED
  BY <1>4, <1>5

LEMMA TotalOf ==
    ASSUME NEW s, Len(s) \in Nat, NEW u, RunningTotals(u, s, Len(s))
    PROVE  Total(s) = u[Len(s)]
<1> DEFINE v == CHOOSE w : RunningTotals(w, s, Len(s))
<1>1. RunningTotals(v, s, Len(s))
  OBVIOUS
<1>2. Total(s) = v[Len(s)]
  BY DEF Total, RunningTotals
<1> QED
  BY <1>1, <1>2, TotalsAgree

LEMMA TotalsGoOn ==
    ASSUME NEW s, NEW n \in Nat, NEW u, RunningTotals(u, s, n)
    PROVE  \E v : RunningTotals(v, s, n + 1) /\ v[n + 1] = u[n] + s[n + 1]
<1> DEFINE v == [i \in 0..(n + 1) |-> IF i <= n THEN u[i] ELSE u[n] + s[n + 1]]
<1>1. \A i \in 0..n : v[i] = u[i] /\ u[i] = IF i = 0 THEN 0 ELSE u[i - 1] + s[i]
  BY DEF RunningTotals
<1>2. v[n + 1] = u[n] + s[n + 1] /\ n + 1 # 0
  OBVIOUS
<1>3. DOMAIN v = 0..(n + 1) /\ v = [i \in 0..(n + 1) |-> v[i]]
  OBVIOUS
<1> HIDE DEF v
<1>4. ASSUME NEW i \in 0..(n + 1) PROVE v[i] = IF i = 0 THEN 0 ELSE v[i - 1] + s[i]
  <2>1. CASE i = n + 1
    <3>1. i # 0 /\ i - 1 = n /\ n \in 0..n
      BY <2>1
    <3> QED
      BY <1>1, <1>2, <2>1, <3>1
  <2>2. CASE i \in 0..n
    <3>1. i # 0 => i - 1 \in 0..n
      BY <2>2
    <3> QED
      BY <1>1, <2>2, <3>1
  <2> QED
    BY <2>1, <2>2
<1>5. RunningTotals(v, s, n + 1)
  BY <1>3, <1>4 DEF RunningTotals
<1> QED
  BY <1>2, <1>5

LEMMA TotalsExist ==
    ASSUME NEW s, NEW n \in Nat
    PROVE  \E u : RunningTotals(u, s, n)
<1> DEFINE T == {i \in Nat : ~\E u : RunningTotals(u, s, i)}
<1>1. SUFFICES ASSUME T # {} PROVE FALSE
  OBVIOUS
<1>2. PICK i \in T : \A j \in T : i <= j
  <2>1. T \subseteq Nat
    OBVIOUS
  <2> HIDE DEF T
  <2> QED
    BY <1>1, <2>1, LeastNumber
<1>3. i # 0
  <2> DEFINE u == [k \in 0..0 |-> 0]
  <2>1. RunningTotals(u, s, 0)
    BY DEF RunningTotals
  <2> QED
    BY <2>1
<1>4. i \in Nat /\ i - 1 \in Nat /\ i - 1 \notin T /\ (i - 1) + 1 = i
  BY <1>2, <1>3
<1>5. PICK u : RunningTotals(u, s, i - 1)
  BY <1>4
<1>6. \E v : RunningTotals(v, s, (i - 1) + 1)
  BY <1>4, <1>5, TotalsGoOn
<1> QED
  BY <1>4, <1>6

(* A sum grows by what is appended.                                        *)
LEMMA TotalsAdd ==
    ASSUME NEW s, NEW t, Len(s) \in Nat, Len(t) = Len(s) + 1,
           \A i \in 1..Len(s) : t[i] = s[i]
    PROVE  Total(t) = Total(s) + t[Len(t)]
<1> DEFINE n == Len(s)
<1>1. PICK u : RunningTotals(u, s, n)
  BY TotalsExist
<1>2. Total(s) = u[n]
  BY <1>1, TotalOf
<1>3. RunningTotals(u, t, n)
  BY <1>1 DEF RunningTotals
<1>4. PICK v : RunningTotals(v, t, n + 1) /\ v[n + 1] = u[n] + t[n + 1]
  BY <1>3, TotalsGoOn
<1>5. Len(t) \in Nat /\ Total(t) = v[Len(t)]
  BY <1>4, TotalOf
<1> QED
  BY <1>2, <1>4, <1>5

LEMMA NothingTotals == ASSUME NEW s, Len(s) = 0 PROVE Total(s) = 0
<1>1. PICK u : RunningTotals(u, s, 0)
  BY TotalsExist
<1>2. u[0] = 0
  BY <1>1 DEF RunningTotals
<1> QED
  BY <1>1, <1>2, TotalOf

LEMMA TotalsAreCounts ==
    ASSUME NEW s, Len(s) \in Nat, \A i \in 1..Len(s) : s[i] \in Nat
    PROVE  Total(s) \in Nat
<1> DEFINE n == Len(s)
<1>1. PICK u : RunningTotals(u, s, n)
  BY TotalsExist
<1> DEFINE T == {i \in 0..n : u[i] \notin Nat}
<1>2. ASSUME T # {} PROVE FALSE
  <2>1. PICK i \in T : \A j \in T : i <= j
    <3>1. T \subseteq Nat
      OBVIOUS
    <3> HIDE DEF T
    <3> QED
      BY <1>2, <3>1, LeastNumber
  <2>2. u[i] = IF i = 0 THEN 0 ELSE u[i - 1] + s[i]
    BY <1>1 DEF RunningTotals
  <2>3. i # 0 => i - 1 \in 0..n /\ i - 1 \notin T /\ i \in 1..n
    BY <2>1
  <2> QED
    BY <2>2, <2>3
<1>3. n \in 0..n
  OBVIOUS
<1>4. u[n] \in Nat
  BY <1>2, <1>3
<1> QED
  BY <1>1, <1>4, TotalOf

(* A column of the recorded advances, and what one more adds to it.        *)
LEMMA ColumnSized ==
    ASSUME NEW n \in Nat, NEW c, c \in [1..n -> Nat] PROVE Len(c) = n
<1>1. c \in Seq(Nat)
  BY SeqDef
<1> QED
  BY <1>1, LenProperties

LEMMA RecordAdds ==
    ASSUME TypeOK, NEW row \in AdvanceType, advances' = Append(advances, row)
    PROVE  /\ TotalSent' = TotalSent + row.sent
           /\ TotalFailed' = TotalFailed + row.failed
           /\ TotalSkipped' = TotalSkipped + row.skipped
<1> DEFINE n == Len(advances)
           sents == [i \in DOMAIN advances |-> advances[i].sent]
           faileds == [i \in DOMAIN advances |-> advances[i].failed]
           skippeds == [i \in DOMAIN advances |-> advances[i].skipped]
<1>1. /\ n \in Nat /\ DOMAIN advances = 1..n
      /\ \A i \in 1..n : advances[i] \in AdvanceType
      /\ DOMAIN advances' = 1..(n + 1) /\ advances'[n + 1] = row
      /\ \A i \in 1..n : advances'[i] = advances[i]
  BY DEF TypeOK
<1>2. /\ row.sent \in Nat /\ row.failed \in Nat /\ row.skipped \in Nat
      /\ \A i \in 1..n : /\ advances[i].sent \in Nat /\ advances[i].failed \in Nat
                          /\ advances[i].skipped \in Nat
  BY <1>1 DEF AdvanceType
<1>3. /\ Len(sents) = n /\ Len(sents)' = n + 1
      /\ Len(faileds) = n /\ Len(faileds)' = n + 1
      /\ Len(skippeds) = n /\ Len(skippeds)' = n + 1
  <2>1. /\ sents \in [1..n -> Nat] /\ sents' \in [1..(n + 1) -> Nat]
        /\ faileds \in [1..n -> Nat] /\ faileds' \in [1..(n + 1) -> Nat]
        /\ skippeds \in [1..n -> Nat] /\ skippeds' \in [1..(n + 1) -> Nat]
    <3>1. \A i \in 1..(n + 1) : /\ advances'[i].sent \in Nat /\ advances'[i].failed \in Nat
                                /\ advances'[i].skipped \in Nat
      BY <1>1, <1>2
    <3> QED
      BY <1>1, <1>2, <3>1
  <2>2. n + 1 \in Nat
    BY <1>1
  <2> HIDE DEF n, sents, faileds, skippeds
  <2> QED
    BY <1>1, <2>1, <2>2, ColumnSized
<1>4. /\ sents'[n + 1] = row.sent /\ faileds'[n + 1] = row.failed
      /\ skippeds'[n + 1] = row.skipped
      /\ \A i \in 1..n : /\ sents'[i] = sents[i] /\ faileds'[i] = faileds[i]
                          /\ skippeds'[i] = skippeds[i]
  BY <1>1
<1> HIDE DEF n, sents, faileds, skippeds
<1>5. Total(sents') = Total(sents) + row.sent
  BY <1>1, <1>3, <1>4, TotalsAdd
<1>6. Total(faileds') = Total(faileds) + row.failed
  BY <1>1, <1>3, <1>4, TotalsAdd
<1>7. Total(skippeds') = Total(skippeds) + row.skipped
  BY <1>1, <1>3, <1>4, TotalsAdd
<1> QED
  BY <1>5, <1>6, <1>7 DEF TotalSent, TotalFailed, TotalSkipped, sents, faileds, skippeds

LEMMA TotalsTyped ==
    ASSUME TypeOK PROVE TotalSent \in Nat /\ TotalFailed \in Nat /\ TotalSkipped \in Nat
<1> DEFINE n == Len(advances)
           sents == [i \in DOMAIN advances |-> advances[i].sent]
           faileds == [i \in DOMAIN advances |-> advances[i].failed]
           skippeds == [i \in DOMAIN advances |-> advances[i].skipped]
<1>1. /\ n \in Nat /\ DOMAIN advances = 1..n
      /\ \A i \in 1..n : advances[i] \in AdvanceType
  BY DEF TypeOK
<1>2. sents \in [1..n -> Nat] /\ faileds \in [1..n -> Nat] /\ skippeds \in [1..n -> Nat]
  BY <1>1 DEF AdvanceType
<1> HIDE DEF n, sents, faileds, skippeds
<1>3. Total(sents) \in Nat /\ Total(faileds) \in Nat /\ Total(skippeds) \in Nat
  BY <1>1, <1>2, ColumnSized, TotalsAreCounts
<1> QED
  BY <1>3 DEF TotalSent, TotalFailed, TotalSkipped, sents, faileds, skippeds

----------------------------------------------------------------------------
(* The books of an advance: what it has counted is on the recipients' rows, *)
(* but for the row it is about to write, and not recorded yet.             *)

Working == {"loop", "send", "update"}

Unwritten(p, status) == IF pc[p] = "update" /\ mark[p] = status THEN 1 ELSE 0

Balance ==
    With("Sent") = TotalSent /\ With("Failed") = TotalFailed /\ With("Skipped") = TotalSkipped

LeftRight == advances # <<>> => advances[Len(advances)].pending = With("Pending")

Books(p) ==
    /\ todo[p] = PendingRecipients
    /\ With("Sent") + Unwritten(p, "Sent") = TotalSent + tally[p].sent
    /\ With("Failed") + Unwritten(p, "Failed") = TotalFailed + tally[p].failed
    /\ With("Skipped") + Unwritten(p, "Skipped") = TotalSkipped + tally[p].skipped
    /\ pc[p] = "update" => Processed(p) > 0
    /\ Processed(p) = 0 => LeftRight

AccountInv ==
    /\ \A p \in Requests : pc[p] \in Working => Books(p)
    /\ \A p \in Requests : pc[p] \notin Working \cup {"save"} => tally[p] = Zero
    /\ (\A p \in Requests : pc[p] \notin Working) => Balance /\ LeftRight

LEMMA WithCounts ==
    ASSUME NEW status PROVE With(status) \in Nat
<1>1. {a \in Accounts : recipient[a] = status} \subseteq Accounts /\ IsFiniteSet(Accounts)
  BY PlanConstants
<1> QED
  BY <1>1, FS_Subset, FS_CardinalityType DEF With

LEMMA WithWritten ==
    ASSUME TypeOK, NEW c \in Accounts, recipient[c] = "Pending", NEW m \in Final,
           recipient' = [recipient EXCEPT ![c] = m]
    PROVE  /\ With(m)' = With(m) + 1
           /\ \A s \in Final \ {m} : With(s)' = With(s)
           /\ PendingRecipients' = PendingRecipients \ {c}
<1>1. /\ recipient'[c] = m /\ \A a \in Accounts \ {c} : recipient'[a] = recipient[a]
      /\ m # "Pending" /\ "Pending" \notin Final
  BY DEF TypeOK, Final
<1> DEFINE M == {a \in Accounts : recipient[a] = m}
           N == {a \in Accounts : recipient'[a] = m}
<1>2. N = M \cup {c} /\ c \notin M /\ M \subseteq Accounts
  BY <1>1
<1>3. IsFiniteSet(M)
  BY <1>2, PlanConstants, FS_Subset
<1> HIDE DEF M, N
<1>4. Cardinality(M \cup {c}) = Cardinality(M) + 1
  BY <1>2, <1>3, FS_AddElement
<1>5. With(m)' = With(m) + 1
  BY <1>2, <1>4 DEF With, M, N
<1>6. ASSUME NEW s \in Final \ {m} PROVE With(s)' = With(s)
  <2>1. {a \in Accounts : recipient'[a] = s} = {a \in Accounts : recipient[a] = s}
    BY <1>1
  <2> QED
    BY <2>1 DEF With
<1>7. PendingRecipients' = PendingRecipients \ {c}
  BY <1>1 DEF PendingRecipients
<1> QED
  BY <1>5, <1>6, <1>7

LEMMA TalliesTyped ==
    ASSUME TypeOK, NEW p \in Requests
    PROVE  /\ tally[p].sent \in Nat /\ tally[p].failed \in Nat /\ tally[p].skipped \in Nat
           /\ Processed(p) = tally[p].sent + tally[p].failed + tally[p].skipped
<1>1. tally[p] \in TallyType
  BY DEF TypeOK
<1> QED
  BY <1>1 DEF TallyType, Processed, Attempted

LEMMA SameRecords ==
    ASSUME UNCHANGED <<recipient, advances>>
    PROVE  /\ \A s : With(s)' = With(s)
           /\ TotalSent' = TotalSent /\ TotalFailed' = TotalFailed /\ TotalSkipped' = TotalSkipped
           /\ Balance' = Balance /\ LeftRight' = LeftRight /\ PendingRecipients' = PendingRecipients
<1>1. /\ \A s : With(s)' = With(s)
      /\ TotalSent' = TotalSent /\ TotalFailed' = TotalFailed /\ TotalSkipped' = TotalSkipped
      /\ PendingRecipients' = PendingRecipients
  BY DEF With, TotalSent, TotalFailed, TotalSkipped, PendingRecipients
<1>2. Balance' = Balance
  BY <1>1 DEF Balance
<1>3. LeftRight' = LeftRight
  BY <1>1 DEF LeftRight
<1> QED
  BY <1>1, <1>2, <1>3

(* The step of the only request in flight: what it has to see to.          *)
LEMMA BooksKept ==
    ASSUME NEW p \in Requests,
           \A q \in Requests \ {p} : pc'[q] = "idle" /\ tally'[q] = Zero,
           pc'[p] \in Working => Books(p)',
           pc'[p] \notin Working \cup {"save"} => tally'[p] = Zero,
           pc'[p] \notin Working => Balance' /\ LeftRight'
    PROVE  AccountInv'
BY DEF AccountInv, Working, Requests

LEMMA OtherTallies ==
    ASSUME TypeOK, NEW p \in Requests, RequestStep(p), NEW q \in Requests \ {p}
    PROVE  tally'[q] = tally[q]
<1>1. tally \in [Requests -> TallyType]
  BY DEF TypeOK
<1>2. \/ tally' = tally
      \/ \E v : tally' = [tally EXCEPT ![p] = v]
  <2>1. CASE RejectAdvance(p) \/ UpdateEmailPlanStatus(p) \/ Abort(p)
    BY <2>1 DEF RejectAdvance, UpdateEmailPlanStatus, Abort, Release
  <2>2. CASE ResolveContact(p) \/ SendEmail(p)
    BY <2>2 DEF ResolveContact, SendEmail
  <2>3. CASE \/ ListDuePlans(p) \/ LoadForPause(p) \/ LoadForResume(p) \/ LoadPlan(p)
             \/ CountPendingRecipients(p) \/ CheckDailyCapacity(p) \/ ListPendingRecipients(p)
             \/ UpdateRecipient(p) \/ FinishIdleAdvance(p) \/ InsertAdvance(p)
    BY <2>3 DEF ListDuePlans, LoadForPause, LoadForResume, LoadPlan, CountPendingRecipients,
       CheckDailyCapacity, ListPendingRecipients, UpdateRecipient, FinishIdleAdvance, InsertAdvance
  <2> QED
    BY <2>1, <2>2, <2>3 DEF RequestStep, Progress
<1> QED
  BY <1>1, <1>2

(* The steps of an advance at work.                                        *)
LEMMA BooksOpened ==
    ASSUME TypeOK, NEW p \in Requests, ListPendingRecipients(p), tally[p] = Zero,
           Balance, LeftRight
    PROVE  Books(p)'
<1>1. /\ pc'[p] = "loop" /\ todo'[p] = PendingRecipients /\ tally'[p] = Zero
      /\ UNCHANGED <<recipient, advances>>
  BY DEF ListPendingRecipients, Goto, TypeOK, store
<1>2. /\ With("Sent") \in Nat /\ With("Failed") \in Nat /\ With("Skipped") \in Nat
      /\ TotalSent \in Nat /\ TotalFailed \in Nat /\ TotalSkipped \in Nat
  BY WithCounts, TotalsTyped
<1>3. /\ Unwritten(p, "Sent")' = 0 /\ Unwritten(p, "Failed")' = 0 /\ Unwritten(p, "Skipped")' = 0
      /\ tally'[p].sent = 0 /\ tally'[p].failed = 0 /\ tally'[p].skipped = 0
  BY <1>1 DEF Unwritten, Zero
<1>4. /\ With("Sent")' = With("Sent") /\ With("Failed")' = With("Failed")
      /\ With("Skipped")' = With("Skipped")
      /\ TotalSent' = TotalSent /\ TotalFailed' = TotalFailed /\ TotalSkipped' = TotalSkipped
      /\ LeftRight' /\ PendingRecipients' = PendingRecipients
  BY <1>1, SameRecords
<1> QED
  BY <1>1, <1>2, <1>3, <1>4 DEF Books, Balance

LEMMA BooksOfContact ==
    ASSUME TypeOK, NEW p \in Requests, ResolveContact(p), Books(p)
    PROVE  Books(p)'
<1>1. /\ pc[p] = "loop" /\ UNCHANGED <<recipient, advances, todo>>
      /\ \/ pc'[p] = "send" /\ tally'[p] = tally[p]
         \/ /\ pc'[p] = "update" /\ mark'[p] = "Skipped"
            /\ tally'[p] = [tally[p] EXCEPT !.skipped = @ + 1]
  BY DEF ResolveContact, Goto, TypeOK, store
<1>2. /\ With("Sent") \in Nat /\ With("Failed") \in Nat /\ With("Skipped") \in Nat
      /\ TotalSent \in Nat /\ TotalFailed \in Nat /\ TotalSkipped \in Nat
      /\ tally[p].sent \in Nat /\ tally[p].failed \in Nat /\ tally[p].skipped \in Nat
      /\ Processed(p) = tally[p].sent + tally[p].failed + tally[p].skipped
  BY WithCounts, TotalsTyped, TalliesTyped
<1>3. /\ With("Sent")' = With("Sent") /\ With("Failed")' = With("Failed")
      /\ With("Skipped")' = With("Skipped")
      /\ TotalSent' = TotalSent /\ TotalFailed' = TotalFailed /\ TotalSkipped' = TotalSkipped
      /\ LeftRight' = LeftRight /\ PendingRecipients' = PendingRecipients
  BY <1>1, SameRecords
<1>4. /\ With("Sent") = TotalSent + tally[p].sent
      /\ With("Failed") = TotalFailed + tally[p].failed
      /\ With("Skipped") = TotalSkipped + tally[p].skipped
      /\ todo[p] = PendingRecipients
  BY <1>1, <1>2 DEF Books, Unwritten
<1>5. Processed(p)' = tally'[p].sent + tally'[p].failed + tally'[p].skipped
  BY DEF Processed, Attempted
<1>6. CASE pc'[p] = "send" /\ tally'[p] = tally[p]
  <2>1. /\ Unwritten(p, "Sent")' = 0 /\ Unwritten(p, "Failed")' = 0
        /\ Unwritten(p, "Skipped")' = 0
    BY <1>6 DEF Unwritten
  <2>2. Processed(p)' = Processed(p)
    BY <1>2, <1>5, <1>6
  <2> QED
    BY <1>1, <1>2, <1>3, <1>4, <1>6, <2>1, <2>2 DEF Books
<1>7. CASE /\ pc'[p] = "update" /\ mark'[p] = "Skipped"
           /\ tally'[p] = [tally[p] EXCEPT !.skipped = @ + 1]
  <2>1. /\ Unwritten(p, "Sent")' = 0 /\ Unwritten(p, "Failed")' = 0
        /\ Unwritten(p, "Skipped")' = 1
    BY <1>7 DEF Unwritten
  <2>2. tally'[p].sent = tally[p].sent /\ tally'[p].failed = tally[p].failed
        /\ tally'[p].skipped = tally[p].skipped + 1
    <3>1. tally[p] \in TallyType
      BY DEF TypeOK
    <3> QED
      BY <1>7, <3>1 DEF TallyType
  <2>3. Processed(p)' > 0
    BY <1>2, <1>5, <2>2
  <2> QED
    BY <1>1, <1>2, <1>3, <1>4, <2>1, <2>2, <2>3 DEF Books
<1> QED
  BY <1>1, <1>6, <1>7

LEMMA BooksOfEmail ==
    ASSUME TypeOK, NEW p \in Requests, SendEmail(p), Books(p)
    PROVE  Books(p)'
<1>1. /\ pc[p] = "send" /\ pc'[p] = "update" /\ UNCHANGED <<recipient, advances, todo>>
      /\ \/ mark'[p] = "Sent" /\ tally'[p] = [tally[p] EXCEPT !.sent = @ + 1]
         \/ mark'[p] = "Failed" /\ tally'[p] = [tally[p] EXCEPT !.failed = @ + 1]
  BY DEF SendEmail, Conversations, Goto, TypeOK, store
<1>2. /\ With("Sent") \in Nat /\ With("Failed") \in Nat /\ With("Skipped") \in Nat
      /\ TotalSent \in Nat /\ TotalFailed \in Nat /\ TotalSkipped \in Nat
      /\ tally[p].sent \in Nat /\ tally[p].failed \in Nat /\ tally[p].skipped \in Nat
  BY WithCounts, TotalsTyped, TalliesTyped
<1>3. /\ With("Sent")' = With("Sent") /\ With("Failed")' = With("Failed")
      /\ With("Skipped")' = With("Skipped")
      /\ TotalSent' = TotalSent /\ TotalFailed' = TotalFailed /\ TotalSkipped' = TotalSkipped
      /\ PendingRecipients' = PendingRecipients
  BY <1>1, SameRecords
<1>4. /\ With("Sent") = TotalSent + tally[p].sent
      /\ With("Failed") = TotalFailed + tally[p].failed
      /\ With("Skipped") = TotalSkipped + tally[p].skipped
      /\ todo[p] = PendingRecipients
  BY <1>1, <1>2 DEF Books, Unwritten
<1>5. /\ Processed(p)' = tally'[p].sent + tally'[p].failed + tally'[p].skipped
      /\ tally[p] \in TallyType
  BY DEF Processed, Attempted, TypeOK
<1>6. CASE mark'[p] = "Sent" /\ tally'[p] = [tally[p] EXCEPT !.sent = @ + 1]
  <2>1. /\ Unwritten(p, "Sent")' = 1 /\ Unwritten(p, "Failed")' = 0
        /\ Unwritten(p, "Skipped")' = 0
    BY <1>1, <1>6 DEF Unwritten
  <2>2. tally'[p].sent = tally[p].sent + 1 /\ tally'[p].failed = tally[p].failed
        /\ tally'[p].skipped = tally[p].skipped
    BY <1>5, <1>6 DEF TallyType
  <2>3. Processed(p)' > 0
    BY <1>2, <1>5, <2>2
  <2> QED
    BY <1>1, <1>2, <1>3, <1>4, <2>1, <2>2, <2>3 DEF Books
<1>7. CASE mark'[p] = "Failed" /\ tally'[p] = [tally[p] EXCEPT !.failed = @ + 1]
  <2>1. /\ Unwritten(p, "Sent")' = 0 /\ Unwritten(p, "Failed")' = 1
        /\ Unwritten(p, "Skipped")' = 0
    BY <1>1, <1>7 DEF Unwritten
  <2>2. tally'[p].sent = tally[p].sent /\ tally'[p].failed = tally[p].failed + 1
        /\ tally'[p].skipped = tally[p].skipped
    BY <1>5, <1>7 DEF TallyType
  <2>3. Processed(p)' > 0
    BY <1>2, <1>5, <2>2
  <2> QED
    BY <1>1, <1>2, <1>3, <1>4, <2>1, <2>2, <2>3 DEF Books
<1> QED
  BY <1>1, <1>6, <1>7

LEMMA BooksOfUpdate ==
    ASSUME TypeOK, NEW p \in Requests, UpdateRecipient(p), cur[p] \in todo[p], Books(p)
    PROVE  Books(p)'
<1>1. PICK m \in Final : m = mark[p]
  BY DEF TypeOK
<1>2. PICK c \in Accounts : c = cur[p] /\ c \in PendingRecipients
  BY DEF Books, PendingRecipients
<1>3. /\ pc[p] = "update" /\ pc'[p] = "loop" /\ recipient' = [recipient EXCEPT ![c] = m]
      /\ UNCHANGED <<advances, tally>> /\ todo'[p] = todo[p] \ {c}
  BY <1>1, <1>2 DEF UpdateRecipient, Goto, TypeOK
<1>4. recipient[c] = "Pending"
  BY <1>2 DEF PendingRecipients
<1>5. /\ With(m)' = With(m) + 1
      /\ \A s \in Final \ {m} : With(s)' = With(s)
      /\ PendingRecipients' = PendingRecipients \ {c}
  BY <1>3, <1>4, WithWritten
<1>6. /\ With("Sent") \in Nat /\ With("Failed") \in Nat /\ With("Skipped") \in Nat
      /\ TotalSent \in Nat /\ TotalFailed \in Nat /\ TotalSkipped \in Nat
      /\ tally[p].sent \in Nat /\ tally[p].failed \in Nat /\ tally[p].skipped \in Nat
  BY WithCounts, TotalsTyped, TalliesTyped
<1>7. TotalSent' = TotalSent /\ TotalFailed' = TotalFailed /\ TotalSkipped' = TotalSkipped
  BY <1>3 DEF TotalSent, TotalFailed, TotalSkipped
<1>8. /\ With("Sent") + (IF m = "Sent" THEN 1 ELSE 0) = TotalSent + tally[p].sent
      /\ With("Failed") + (IF m = "Failed" THEN 1 ELSE 0) = TotalFailed + tally[p].failed
      /\ With("Skipped") + (IF m = "Skipped" THEN 1 ELSE 0) = TotalSkipped + tally[p].skipped
      /\ todo[p] = PendingRecipients /\ Processed(p) > 0
  BY <1>1, <1>3 DEF Books, Unwritten
<1>9. /\ With("Sent")' = With("Sent") + (IF m = "Sent" THEN 1 ELSE 0)
      /\ With("Failed")' = With("Failed") + (IF m = "Failed" THEN 1 ELSE 0)
      /\ With("Skipped")' = With("Skipped") + (IF m = "Skipped" THEN 1 ELSE 0)
  BY <1>5, <1>6 DEF Final
<1>10. Processed(p)' = Processed(p) /\ Processed(p) \in Nat
  BY <1>3, <1>6, TalliesTyped DEF Processed, Attempted
<1>11. /\ Unwritten(p, "Sent")' = 0 /\ Unwritten(p, "Failed")' = 0
       /\ Unwritten(p, "Skipped")' = 0
  BY <1>3 DEF Unwritten
<1>12. /\ With("Sent")' + 0 = TotalSent' + tally'[p].sent
       /\ With("Failed")' + 0 = TotalFailed' + tally'[p].failed
       /\ With("Skipped")' + 0 = TotalSkipped' + tally'[p].skipped
  BY <1>3, <1>6, <1>7, <1>8, <1>9
<1> QED
  BY <1>3, <1>5, <1>8, <1>10, <1>11, <1>12 DEF Books

LEMMA BooksClosed ==
    ASSUME TypeOK, NEW p \in Requests, FinishIdleAdvance(p) \/ InsertAdvance(p), Books(p)
    PROVE  pc'[p] = "save" /\ Balance' /\ LeftRight'
<1>1. pc[p] = "loop" /\ pc'[p] = "save" /\ recipient' = recipient
  BY DEF FinishIdleAdvance, InsertAdvance, Goto, TypeOK, store
<1>2. /\ With("Sent") \in Nat /\ With("Failed") \in Nat /\ With("Skipped") \in Nat
      /\ TotalSent \in Nat /\ TotalFailed \in Nat /\ TotalSkipped \in Nat
      /\ tally[p].sent \in Nat /\ tally[p].failed \in Nat /\ tally[p].skipped \in Nat
      /\ Processed(p) = tally[p].sent + tally[p].failed + tally[p].skipped
  BY WithCounts, TotalsTyped, TalliesTyped
<1>3. /\ With("Sent") = TotalSent + tally[p].sent
      /\ With("Failed") = TotalFailed + tally[p].failed
      /\ With("Skipped") = TotalSkipped + tally[p].skipped
      /\ todo[p] = PendingRecipients
  BY <1>1, <1>2 DEF Books, Unwritten
<1>4. CASE FinishIdleAdvance(p)
  <2>1. Processed(p) = 0 /\ UNCHANGED <<recipient, advances>>
    BY <1>4 DEF FinishIdleAdvance, store
  <2>2. tally[p].sent = 0 /\ tally[p].failed = 0 /\ tally[p].skipped = 0
    BY <1>2, <2>1
  <2>3. Balance
    BY <1>2, <1>3, <2>2 DEF Balance
  <2>4. LeftRight
    BY <2>1 DEF Books
  <2> QED
    BY <1>1, <2>1, <2>3, <2>4, SameRecords
<1>5. CASE InsertAdvance(p)
  <2> DEFINE row == [number |-> copy[p].advanced + 1, manual |-> IsManual(p),
                     started |-> started[p], sent |-> tally[p].sent,
                     failed |-> tally[p].failed, skipped |-> tally[p].skipped,
                     pending |-> Cardinality(todo[p])]
  <2>1. advances' = Append(advances, row)
    BY <1>5 DEF InsertAdvance
  <2>2. Cardinality(todo[p]) = With("Pending")
    BY <1>3 DEF PendingRecipients, With
  <2>3. row \in AdvanceType
    <3>1. copy[p] \in RowType /\ started[p] \in 0..Horizon
      BY DEF TypeOK
    <3>2. copy[p].advanced + 1 \in Nat
      BY <3>1 DEF RowType
    <3>3. Cardinality(todo[p]) \in Nat
      BY <2>2, WithCounts
    <3> QED
      BY <1>2, <3>1, <3>2, <3>3 DEF AdvanceType, IsManual
  <2>4. /\ row.sent = tally[p].sent /\ row.failed = tally[p].failed
        /\ row.skipped = tally[p].skipped /\ row.pending = With("Pending")
    BY <2>2
  <2> HIDE DEF row
  <2>5. /\ TotalSent' = TotalSent + row.sent /\ TotalFailed' = TotalFailed + row.failed
        /\ TotalSkipped' = TotalSkipped + row.skipped
    BY <2>1, <2>3, RecordAdds
  <2>6. /\ With("Sent")' = With("Sent") /\ With("Failed")' = With("Failed")
        /\ With("Skipped")' = With("Skipped") /\ With("Pending")' = With("Pending")
    BY <1>1 DEF With
  <2>7. Balance'
    BY <1>3, <2>4, <2>5, <2>6 DEF Balance
  <2>8. advances'[Len(advances')] = row
    <3>1. advances \in Seq(AdvanceType)
      BY DEF TypeOK
    <3> QED
      BY <2>1, <2>3, <3>1
  <2> QED
    BY <1>1, <2>4, <2>6, <2>7, <2>8 DEF LeftRight
<1> QED
  BY <1>4, <1>5

(* The steps of a request that has no recipients listed: what is recorded   *)
(* stays as it is.                                                          *)
Preparing(p) ==
    /\ pc[p] \notin Working /\ pc'[p] \notin Working
    /\ pc'[p] # "save" => tally'[p] = Zero
    /\ UNCHANGED <<recipient, advances>>

LEMMA BooksUntouched ==
    ASSUME TypeOK, NEW p \in Requests,
           \/ ListDuePlans(p) \/ LoadForPause(p) \/ LoadForResume(p)
           \/ LoadPlan(p) \/ RejectAdvance(p) \/ CountPendingRecipients(p)
           \/ CheckDailyCapacity(p) \/ UpdateEmailPlanStatus(p),
           pc[p] \notin Working \cup {"save"} => tally[p] = Zero
    PROVE  Preparing(p)
<1> USE DEF Goto, Working
<1>1. pc \in [Requests -> Labels] /\ tally \in [Requests -> TallyType]
  BY DEF TypeOK
<1>2. CASE ListDuePlans(p) \/ LoadForPause(p) \/ LoadForResume(p)
  <2>1. /\ pc[p] = "idle" /\ tally' = tally /\ UNCHANGED <<recipient, advances>>
        /\ pc'[p] \in {"load", "save"}
    BY <1>1, <1>2 DEF ListDuePlans, LoadForPause, LoadForResume, HasSlot, store
  <2> QED
    BY <2>1 DEF Preparing
<1>3. CASE LoadPlan(p)
  <2>1. /\ pc[p] \in {"idle", "load"} /\ tally' = tally /\ UNCHANGED <<recipient, advances>>
        /\ pc'[p] = "count"
    BY <1>1, <1>3 DEF LoadPlan, HasSlot, store
  <2> QED
    BY <2>1 DEF Preparing
<1>4. CASE CountPendingRecipients(p)
  <2>1. /\ pc[p] = "count" /\ tally' = tally /\ UNCHANGED <<recipient, advances>>
        /\ pc'[p] \in {"save", "capacity"}
    BY <1>1, <1>4 DEF CountPendingRecipients, store
  <2> QED
    BY <2>1 DEF Preparing
<1>5. CASE CheckDailyCapacity(p)
  <2>1. /\ pc[p] = "capacity" /\ tally' = tally /\ UNCHANGED <<recipient, advances>>
        /\ pc'[p] \in {"save", "list"}
    BY <1>1, <1>5 DEF CheckDailyCapacity, store
  <2> QED
    BY <2>1 DEF Preparing
<1>6. CASE RejectAdvance(p) \/ UpdateEmailPlanStatus(p)
  <2>1. /\ pc[p] \in {"load", "save"} /\ tally'[p] = Zero /\ pc'[p] = "idle"
        /\ UNCHANGED <<recipient, advances>>
    BY <1>1, <1>6 DEF RejectAdvance, UpdateEmailPlanStatus, Release, store
  <2> QED
    BY <2>1 DEF Preparing
<1> QED
  BY <1>2, <1>3, <1>4, <1>5, <1>6

LEMMA AccountStep ==
    ASSUME MaxOverlap = 1, MaxFaults = 0, RowInv, EmailInv, AccountInv,
           NEW p \in Requests, RequestStep(p)
    PROVE  AccountInv'
<1>1. TypeOK /\ Slots /\ pc \in [Requests -> Labels]
  BY DEF RowInv, EmailInv, TypeOK
<1>2. \A q \in Requests \ {p} : pc[q] = "idle" /\ pc'[q] = "idle"
  BY AloneInFlight
<1>3. \A q \in Requests \ {p} : pc'[q] = "idle" /\ tally'[q] = Zero
  <2>1. ASSUME NEW q \in Requests \ {p} PROVE tally'[q] = Zero
    <3>1. tally[q] = Zero
      BY <1>2 DEF AccountInv, Working
    <3> QED
      BY <1>1, <3>1, OtherTallies
  <2> QED
    BY <1>2, <2>1
<1>4. pc[p] \in Working => Books(p)
  BY DEF AccountInv
<1>5. pc[p] \notin Working \cup {"save"} => tally[p] = Zero
  BY DEF AccountInv
<1>6. pc[p] \notin Working => Balance /\ LeftRight
  <2>1. ASSUME pc[p] \notin Working PROVE \A q \in Requests : pc[q] \notin Working
    BY <1>2, <2>1 DEF Working
  <2> QED
    BY <2>1 DEF AccountInv
<1>7. ASSUME pc'[p] \in Working, Books(p)' PROVE AccountInv'
  BY <1>3, <1>7, BooksKept
<1>8. ASSUME pc'[p] = "save", Balance', LeftRight' PROVE AccountInv'
  <2>1. pc'[p] \notin Working
    BY <1>8 DEF Working
  <2> QED
    BY <1>3, <1>8, <2>1, BooksKept
<1>9. CASE \/ ListDuePlans(p) \/ LoadForPause(p) \/ LoadForResume(p)
           \/ LoadPlan(p) \/ RejectAdvance(p) \/ CountPendingRecipients(p)
           \/ CheckDailyCapacity(p) \/ UpdateEmailPlanStatus(p)
  <2>1. Preparing(p)
    BY <1>1, <1>5, <1>9, BooksUntouched
  <2>2. Balance' /\ LeftRight'
    BY <1>6, <2>1, SameRecords DEF Preparing
  <2>3. pc'[p] \notin Working /\ (pc'[p] \notin Working \cup {"save"} => tally'[p] = Zero)
    BY <2>1 DEF Preparing
  <2> QED
    BY <1>3, <2>2, <2>3, BooksKept
<1>10. CASE ListPendingRecipients(p)
  <2>1. pc[p] = "list" /\ pc'[p] = "loop"
    BY <1>1, <1>10 DEF ListPendingRecipients, Goto
  <2>2. tally[p] = Zero /\ Balance /\ LeftRight
    BY <1>5, <1>6, <2>1 DEF Working
  <2>3. Books(p)'
    BY <1>1, <1>10, <2>2, BooksOpened
  <2> QED
    BY <1>7, <2>1, <2>3 DEF Working
<1>11. CASE ResolveContact(p) \/ SendEmail(p)
  <2>1. pc[p] \in Working /\ pc'[p] \in Working
    BY <1>1, <1>11 DEF ResolveContact, SendEmail, Goto, Working
  <2>2. Books(p)'
    BY <1>1, <1>4, <1>11, <2>1, BooksOfContact, BooksOfEmail
  <2> QED
    BY <1>7, <2>1, <2>2
<1>12. CASE UpdateRecipient(p)
  <2>1. pc[p] = "update" /\ pc'[p] = "loop"
    BY <1>1, <1>12 DEF UpdateRecipient, Goto
  <2>2. Books(p) /\ cur[p] \in todo[p]
    BY <1>1, <1>4, <2>1 DEF Working, Slots
  <2>3. Books(p)'
    BY <1>1, <1>12, <2>2, BooksOfUpdate
  <2> QED
    BY <1>7, <2>1, <2>3 DEF Working
<1>13. CASE FinishIdleAdvance(p) \/ InsertAdvance(p)
  <2>1. pc[p] = "loop"
    BY <1>13 DEF FinishIdleAdvance, InsertAdvance
  <2>2. Books(p)
    BY <1>4, <2>1 DEF Working
  <2> QED
    BY <1>1, <1>8, <1>13, <2>2, BooksClosed
<1>14. CASE Abort(p)
  BY <1>1, <1>14 DEF Abort, TypeOK
<1> QED
  BY <1>9, <1>10, <1>11, <1>12, <1>13, <1>14 DEF RequestStep, Progress

(* Before the first advance nothing is recorded.                            *)
LEMMA NothingRecorded ==
    ASSUME advances = <<>>
    PROVE  TotalSent = 0 /\ TotalFailed = 0 /\ TotalSkipped = 0
<1>1. DOMAIN advances = 1..0
  OBVIOUS
<1>2. /\ [i \in DOMAIN advances |-> advances[i].sent] \in [1..0 -> Nat]
      /\ [i \in DOMAIN advances |-> advances[i].failed] \in [1..0 -> Nat]
      /\ [i \in DOMAIN advances |-> advances[i].skipped] \in [1..0 -> Nat]
  BY <1>1
<1>3. /\ Len([i \in DOMAIN advances |-> advances[i].sent]) = 0
      /\ Len([i \in DOMAIN advances |-> advances[i].failed]) = 0
      /\ Len([i \in DOMAIN advances |-> advances[i].skipped]) = 0
  BY <1>2, ColumnSized
<1> QED
  BY <1>3, NothingTotals DEF TotalSent, TotalFailed, TotalSkipped

LEMMA AccountInit == Init => AccountInv
<1> SUFFICES ASSUME Init PROVE AccountInv
  OBVIOUS
<1>1. advances = <<>> /\ \A a \in Accounts : recipient[a] \notin Final
  BY DEF Init, Final
<1>2. \A p \in Requests : pc[p] = "idle" /\ tally[p] = Zero
  BY DEF Init
<1>3. ASSUME NEW s \in Final PROVE With(s) = 0
  <2>1. {a \in Accounts : recipient[a] = s} = {}
    BY <1>1
  <2> QED
    BY <2>1, FS_EmptySet DEF With
<1>4. TotalSent = 0 /\ TotalFailed = 0 /\ TotalSkipped = 0
  BY <1>1, NothingRecorded
<1>5. Balance /\ LeftRight
  BY <1>1, <1>3, <1>4 DEF Balance, LeftRight, Final
<1> QED
  BY <1>2, <1>5 DEF AccountInv, Working

LEMMA AccountNext ==
    /\ MaxOverlap = 1 /\ MaxFaults = 0
    /\ RowInv /\ EmailInv /\ PaceInv /\ AccountInv /\ [Next]_vars
    => AccountInv'
<1> SUFFICES ASSUME MaxOverlap = 1, MaxFaults = 0, RowInv, EmailInv, PaceInv, AccountInv,
                    [Next]_vars
             PROVE  AccountInv'
  OBVIOUS
<1>1. CASE Tick \/ UNCHANGED vars
  <2>1. UNCHANGED <<recipient, advances, pc, todo, mark, tally>>
    BY <1>1 DEF Tick, vars, store, locals
  <2>2. /\ \A s : With(s)' = With(s)
        /\ TotalSent' = TotalSent /\ TotalFailed' = TotalFailed /\ TotalSkipped' = TotalSkipped
        /\ Balance' = Balance /\ LeftRight' = LeftRight /\ PendingRecipients' = PendingRecipients
    BY <2>1, SameRecords
  <2>3. ASSUME NEW p \in Requests PROVE Books(p)' = Books(p)
    BY <2>1, <2>2 DEF Books, Unwritten, Processed, Attempted
  <2> QED
    BY <2>1, <2>2, <2>3 DEF AccountInv, Requests
<1>2. CASE CreatePlan
  <2>1. plan.status = "Absent" /\ UNCHANGED <<advances, pc, tally>>
    BY <1>2 DEF CreatePlan, locals
  <2>2. \A p \in Requests : pc[p] = "idle"
    BY <2>1 DEF RowInv, Lifecycle
  <2>3. \A p \in Requests : pc'[p] = "idle" /\ tally'[p] = Zero
    BY <2>1, <2>2 DEF AccountInv, Working
  <2>4. advances = <<>> /\ TotalSent = 0 /\ TotalFailed = 0 /\ TotalSkipped = 0
    BY <2>1, NothingRecorded DEF PaceInv
  <2>5. ASSUME NEW s \in Final PROVE With(s)' = 0
    <3>1. {a \in Accounts : recipient'[a] = s} = {}
      BY <1>2 DEF CreatePlan, Final
    <3> QED
      BY <3>1, FS_EmptySet DEF With
  <2>6. /\ TotalSent' = 0 /\ TotalFailed' = 0 /\ TotalSkipped' = 0
        /\ advances' = <<>>
    BY <2>1, <2>4 DEF TotalSent, TotalFailed, TotalSkipped
  <2>7. Balance' /\ LeftRight'
    BY <2>5, <2>6 DEF Balance, LeftRight, Final
  <2> QED
    BY <2>3, <2>7 DEF AccountInv, Working, Requests
<1>3. ASSUME NEW p \in Requests, RequestStep(p) PROVE AccountInv'
  BY <1>3, AccountStep
<1> QED
  BY <1>1, <1>2, <1>3 DEF Next, RequestStep

(* One request at a time and none cut short, the records of a plan at rest  *)
(* agree: the recorded advances add up to what the recipients' rows say,    *)
(* the last one tells how many are left, they are numbered one by one, and  *)
(* the plan counts as many.                                                 *)
THEOREM AdvancesAreAccounted == MaxOverlap = 1 /\ MaxFaults = 0 => (Spec => []Accounted)
<1> SUFFICES ASSUME MaxOverlap = 1, MaxFaults = 0 PROVE Spec => []Accounted
  OBVIOUS
<1>1. PaceInv /\ AccountInv => Accounted
  <2> SUFFICES ASSUME PaceInv, AccountInv, Running = {} PROVE Accounted
    BY DEF Accounted
  <2>1. \A p \in Requests : pc[p] = "idle"
    BY DEF Running
  <2>2. Balance /\ LeftRight
    BY <2>1 DEF AccountInv, Working
  <2>3. plan.advanced = Len(advances) /\ Numbered
    BY <2>1 DEF PaceInv, Settled
  <2> QED
    BY <2>2, <2>3 DEF Accounted, Balance, LeftRight, Numbered
<1> QED
  BY <1>1, RowInit, RowNext, EmailInit, EmailNext, PaceInit, PaceNext, AccountInit, AccountNext,
     PTL DEF Spec
=============================================================================

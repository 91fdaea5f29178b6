-------------------------- MODULE EmailPlanProofs --------------------------
(* What holds of the email sending plan for every number of accounts,      *)
(* requests, failures and every clock, proved with TLAPS.                  *)
EXTENDS EmailPlan, FiniteSetTheorems, TLAPS

----------------------------------------------------------------------------
(* The helpers keep the types of what they work on.                        *)

LEMMA CounterBumped ==
    ASSUME NEW S, NEW f \in [S -> Nat], NEW i, NEW n \in Nat
    PROVE  [f EXCEPT ![i] = @ + n] \in [S -> Nat]
<1>1. \A x \in S : [f EXCEPT ![i] = @ + n][x] \in Nat
  OBVIOUS
<1> QED
  BY <1>1

LEMMA TallyBumped ==
    ASSUME NEW S, NEW f \in [S -> TallyType], NEW p \in S
    PROVE  /\ [f EXCEPT ![p].sent = @ + 1] \in [S -> TallyType]
           /\ [f EXCEPT ![p].failed = @ + 1] \in [S -> TallyType]
           /\ [f EXCEPT ![p].skipped = @ + 1] \in [S -> TallyType]
<1>1. f[p] \in TallyType /\ f[p].sent \in Nat /\ f[p].failed \in Nat /\ f[p].skipped \in Nat
  BY DEF TallyType
<1>2. /\ [f[p] EXCEPT !.sent = @ + 1] \in TallyType
      /\ [f[p] EXCEPT !.failed = @ + 1] \in TallyType
      /\ [f[p] EXCEPT !.skipped = @ + 1] \in TallyType
  BY <1>1 DEF TallyType
<1> QED
  BY <1>1, <1>2

LEMMA DayOfClock ==
    ASSUME NEW t \in 0..Horizon
    PROVE  Day(t) \in Days /\ Day(t) \in Int /\ NextDay(t) \in Int
BY PlanConstants DEF Day, Days, NextDay

LEMMA RowsTyped ==
    ASSUME NEW row \in RowType, NEW t \in Int
    PROVE  /\ CompletedRow(row) \in RowType
           /\ PausedRow(row) \in RowType
           /\ ResumedRow(row, t) \in RowType
           /\ NextDay(t) \in Int => CappedRow(row, t) \in RowType
BY DEF CompletedRow, PausedRow, ResumedRow, CappedRow, RowType, Statuses

LEMMA AdvancedRowTyped ==
    ASSUME TypeOK, NEW p \in Requests, NEW count \in Nat
    PROVE  AdvancedRow(p, count) \in RowType
<1>1. copy[p] \in RowType /\ started[p] \in 0..Horizon /\ params.interval \in Int
  BY DEF TypeOK
<1>2. NextDay(started[p]) \in Int
  BY <1>1, DayOfClock
<1>3. started[p] + params.interval \in Int
  BY <1>1, PlanConstants
<1> QED
  BY <1>1, <1>2, <1>3 DEF AdvancedRow, CompletedRow, RowType, Statuses

LEMMA CapacityTyped ==
    ASSUME TypeOK, NEW t \in 0..Horizon
    PROVE  RemainingDailyCapacity(t) \in Int \cup {NoLimit}
<1>1. params.perDay \in Int \cup {NoLimit} /\ attemptedOn[Day(t)] \in Nat
  BY DayOfClock DEF TypeOK
<1> QED
  BY <1>1 DEF RemainingDailyCapacity

LEMMA CountsTyped ==
    ASSUME TypeOK, NEW p \in Requests
    PROVE  /\ tally[p] \in TallyType
           /\ Attempted(p) \in Nat
           /\ Cardinality(todo[p]) \in Nat
<1>1. tally[p] \in TallyType /\ todo[p] \subseteq Accounts
  BY DEF TypeOK
<1>2. IsFiniteSet(todo[p])
  BY <1>1, PlanConstants, FS_Subset
<1> QED
  BY <1>1, <1>2, FS_CardinalityType DEF Attempted, TallyType

----------------------------------------------------------------------------
(* Type correctness, one action at a time.                                 *)

LEMMA InitTyped == Init => TypeOK
BY PlanConstants DEF Init, TypeOK, AbsentRow, RowType, Statuses, Zero, Labels, Final, TallyType

LEMMA ReleaseTyped ==
    ASSUME TypeOK, NEW p \in Requests, Release(p)
    PROVE  /\ pc' \in [Requests -> Labels]
           /\ copy' \in [Requests -> RowType]
           /\ started' \in [Requests -> 0..Horizon]
           /\ left' \in [Requests -> Int \cup {NoLimit}]
           /\ todo' \in [Requests -> SUBSET Accounts]
           /\ cur' \in [Requests -> Nat]
           /\ mark' \in [Requests -> Final]
           /\ tally' \in [Requests -> TallyType]
<1>1. AbsentRow \in RowType /\ Zero \in TallyType
  BY DEF AbsentRow, RowType, Statuses, Zero, TallyType
<1>2. 0 \in 0..Horizon /\ 0 \in Nat /\ "idle" \in Labels /\ "Skipped" \in Final
  BY PlanConstants DEF Labels, Final
<1>3. pc' \in [Requests -> Labels] /\ mark' \in [Requests -> Final]
  BY <1>2 DEF Release, TypeOK
<1>4. copy' \in [Requests -> RowType] /\ tally' \in [Requests -> TallyType]
  BY <1>1 DEF Release, TypeOK
<1>5. started' \in [Requests -> 0..Horizon] /\ cur' \in [Requests -> Nat]
  BY <1>2 DEF Release, TypeOK
<1>6. left' \in [Requests -> Int \cup {NoLimit}] /\ todo' \in [Requests -> SUBSET Accounts]
  BY DEF Release, TypeOK
<1> QED
  BY <1>3, <1>4, <1>5, <1>6

LEMMA CreateTyped == TypeOK /\ CreatePlan => TypeOK'
<1> SUFFICES ASSUME TypeOK, CreatePlan PROVE TypeOK'
  OBVIOUS
<1>1. PICK targets \in ResolvedTargets \ {{}}, n \in PerIntervalChoices,
          m \in IntervalChoices, d \in PerDayChoices, t \in StartChoices \cup {now} :
          /\ plan' = [status |-> "Scheduled", advanced |-> 0, next |-> t,
                      paused |-> FALSE, completed |-> FALSE]
          /\ params' = [perInterval |-> n, interval |-> m, perDay |-> d]
          /\ recipient' = [a \in Accounts |-> IF a \in targets THEN "Pending" ELSE "None"]
  BY DEF CreatePlan
<1>2. t \in Int /\ n \in Int /\ m \in Int /\ d \in Int \cup {NoLimit}
  BY PlanConstants DEF TypeOK
<1>3. plan' \in RowType
  BY <1>1, <1>2 DEF RowType, Statuses
<1>4. params' \in [perInterval : Int, interval : Int, perDay : Int \cup {NoLimit}]
  BY <1>1, <1>2
<1>5. recipient' \in [Accounts -> Final \cup {"None", "Pending"}]
  BY <1>1
<1> QED
  BY <1>3, <1>4, <1>5 DEF CreatePlan, TypeOK, locals, history

LEMMA TickTyped == TypeOK /\ Tick => TypeOK'
BY PlanConstants DEF Tick, TypeOK, store, locals, history

LEMMA LoadingTyped ==
    ASSUME TypeOK, NEW p \in Requests,
           ListDuePlans(p) \/ LoadPlan(p) \/ LoadForPause(p) \/ LoadForResume(p)
    PROVE  TypeOK'
<1>1. now \in Int /\ now \in 0..Horizon /\ plan \in RowType
  BY PlanConstants DEF TypeOK
<1>2. PausedRow(plan) \in RowType /\ ResumedRow(plan, now) \in RowType
  BY <1>1, RowsTyped
<1>3. CASE ListDuePlans(p)
  BY <1>3 DEF ListDuePlans, Goto, TypeOK, Labels, store, history
<1>4. CASE LoadPlan(p)
  BY <1>1, <1>4 DEF LoadPlan, Goto, TypeOK, Labels, store, history
<1>5. CASE LoadForPause(p)
  BY <1>2, <1>5 DEF LoadForPause, Goto, TypeOK, Labels, store, history
<1>6. CASE LoadForResume(p)
  BY <1>2, <1>6 DEF LoadForResume, Goto, TypeOK, Labels, store, history
<1> QED
  BY <1>3, <1>4, <1>5, <1>6

LEMMA ReleasingTyped ==
    ASSUME TypeOK, NEW p \in Requests,
           RejectAdvance(p) \/ UpdateEmailPlanStatus(p) \/ Abort(p)
    PROVE  TypeOK'
<1>1. Release(p)
  BY DEF RejectAdvance, UpdateEmailPlanStatus, Abort
<1>2. /\ now' \in 0..Horizon
      /\ plan' \in RowType
      /\ faults' \in 0..MaxFaults
      /\ UNCHANGED <<params, recipient, advances, attemptedOn, emailed, attemptsOn>>
  BY PlanConstants DEF RejectAdvance, UpdateEmailPlanStatus, Abort, TypeOK, store, history
<1> QED
  BY <1>1, <1>2, ReleaseTyped DEF TypeOK

LEMMA CountingTyped ==
    ASSUME TypeOK, NEW p \in Requests,
           CountPendingRecipients(p) \/ CheckDailyCapacity(p) \/ ListPendingRecipients(p)
    PROVE  TypeOK'
<1>1. started[p] \in 0..Horizon /\ started[p] \in Int /\ copy[p] \in RowType
  BY PlanConstants DEF TypeOK
<1>2. CompletedRow(copy[p]) \in RowType /\ CappedRow(copy[p], started[p]) \in RowType
  BY <1>1, RowsTyped, DayOfClock
<1>3. RemainingDailyCapacity(started[p]) \in Int \cup {NoLimit}
  BY <1>1, CapacityTyped
<1>4. CASE CountPendingRecipients(p)
  <2>1. copy' \in [Requests -> RowType] /\ pc' \in [Requests -> Labels]
    <3>1. \/ copy' = [copy EXCEPT ![p] = CompletedRow(copy[p])] /\ Goto(p, "save")
          \/ copy' = copy /\ Goto(p, "capacity")
      BY <1>4 DEF CountPendingRecipients
    <3>2. copy' \in [Requests -> RowType]
      BY <1>2, <3>1 DEF TypeOK
    <3>3. pc' \in [Requests -> Labels]
      BY <3>1 DEF Goto, TypeOK, Labels
    <3> QED
      BY <3>2, <3>3
  <2> QED
    BY <1>4, <2>1 DEF CountPendingRecipients, TypeOK, store, history
<1>5. CASE CheckDailyCapacity(p)
  <2>1. /\ copy' \in [Requests -> RowType]
        /\ pc' \in [Requests -> Labels]
        /\ left' \in [Requests -> Int \cup {NoLimit}]
    <3>1. \/ /\ copy' = [copy EXCEPT ![p] = CappedRow(copy[p], started[p])]
             /\ Goto(p, "save")
             /\ left' = left
          \/ /\ left' = [left EXCEPT ![p] = RemainingDailyCapacity(started[p])]
             /\ Goto(p, "list")
             /\ copy' = copy
      BY <1>5 DEF CheckDailyCapacity
    <3>2. copy' \in [Requests -> RowType]
      BY <1>2, <3>1 DEF TypeOK
    <3>3. left' \in [Requests -> Int \cup {NoLimit}]
      BY <1>3, <3>1 DEF TypeOK
    <3>4. pc' \in [Requests -> Labels]
      BY <3>1 DEF Goto, TypeOK, Labels
    <3> QED
      BY <3>2, <3>3, <3>4
  <2> QED
    BY <1>5, <2>1 DEF CheckDailyCapacity, TypeOK, store, history
<1>6. CASE ListPendingRecipients(p)
  BY <1>6 DEF ListPendingRecipients, PendingRecipients, Goto, TypeOK, Labels, store, history
<1> QED
  BY <1>4, <1>5, <1>6

LEMMA RecipientStepsTyped ==
    ASSUME TypeOK, NEW p \in Requests,
           ResolveContact(p) \/ SendEmail(p) \/ UpdateRecipient(p)
    PROVE  TypeOK'
<1>1. tally[p] \in TallyType
  BY CountsTyped
<1>2. Day(now) \in Days
  BY DayOfClock DEF TypeOK
<1>3. CASE ResolveContact(p)
  <2>1. cur' \in [Requests -> Nat]
    BY <1>3, PlanConstants DEF ResolveContact, TypeOK
  <2>2. tally' \in [Requests -> TallyType]
    <3>1. tally \in [Requests -> TallyType]
      BY DEF TypeOK
    <3>2. \/ tally' = tally
          \/ tally' = [tally EXCEPT ![p].skipped = @ + 1]
      BY <1>3 DEF ResolveContact
    <3>3. [tally EXCEPT ![p].skipped = @ + 1] \in [Requests -> TallyType]
      BY <3>1, TallyBumped
    <3> QED
      BY <3>1, <3>2, <3>3
  <2> QED
    BY <1>3, <2>1, <2>2 DEF ResolveContact, Goto, TypeOK, Labels, Final, store, history
<1>4. CASE SendEmail(p)
  <2>1. PICK c \in Conversations :
          /\ emailed' = [emailed EXCEPT ![cur[p]] = @ + c.accepted]
          /\ mark' = [mark EXCEPT ![p] = c.reported]
          /\ tally' = IF c.reported = "Sent"
                      THEN [tally EXCEPT ![p].sent = @ + 1]
                      ELSE [tally EXCEPT ![p].failed = @ + 1]
    BY <1>4 DEF SendEmail
  <2>2. c.accepted \in Nat /\ c.reported \in Final
    BY <2>1 DEF Conversations, Final
  <2>3. tally' \in [Requests -> TallyType]
    BY <2>1, TallyBumped DEF TypeOK
  <2>4. emailed' \in [Accounts -> Nat]
    BY <2>1, <2>2, CounterBumped DEF TypeOK
  <2>5. attemptsOn' \in [Days -> Nat]
    BY <1>4, CounterBumped DEF SendEmail, TypeOK
  <2>6. mark' \in [Requests -> Final]
    BY <2>1, <2>2 DEF TypeOK
  <2> QED
    BY <1>4, <2>3, <2>4, <2>5, <2>6 DEF SendEmail, Goto, TypeOK, Labels, store
<1>5. CASE UpdateRecipient(p)
  BY <1>5 DEF UpdateRecipient, Goto, TypeOK, Labels, history
<1> QED
  BY <1>3, <1>4, <1>5

LEMMA FinishingTyped ==
    ASSUME TypeOK, NEW p \in Requests, FinishIdleAdvance(p) \/ InsertAdvance(p)
    PROVE  TypeOK'
<1>1. copy[p] \in RowType /\ copy[p].advanced \in Nat
  BY DEF TypeOK, RowType
<1>2. /\ AdvancedRow(p, copy[p].advanced) \in RowType
      /\ AdvancedRow(p, copy[p].advanced + 1) \in RowType
  BY <1>1, AdvancedRowTyped
<1>3. CASE FinishIdleAdvance(p)
  BY <1>2, <1>3 DEF FinishIdleAdvance, Goto, TypeOK, Labels, store, history
<1>4. CASE InsertAdvance(p)
  <2> DEFINE row == [number |-> copy[p].advanced + 1, manual |-> IsManual(p),
                     started |-> started[p], sent |-> tally[p].sent,
                     failed |-> tally[p].failed, skipped |-> tally[p].skipped,
                     pending |-> Cardinality(todo[p])]
  <2>1. row \in AdvanceType
    <3>1. /\ copy[p].advanced + 1 \in Nat
          /\ started[p] \in 0..Horizon
          /\ Cardinality(todo[p]) \in Nat
      <4>1. copy[p].advanced + 1 \in Nat
        BY <1>1
      <4>2. started[p] \in 0..Horizon
        BY DEF TypeOK
      <4>3. Cardinality(todo[p]) \in Nat
        BY CountsTyped
      <4> QED
        BY <4>1, <4>2, <4>3
    <3>2. tally[p].sent \in Nat /\ tally[p].failed \in Nat /\ tally[p].skipped \in Nat
      BY CountsTyped DEF TallyType
    <3>3. IsManual(p) \in BOOLEAN
      BY DEF IsManual
    <3> QED
      BY <3>1, <3>2, <3>3 DEF AdvanceType
  <2>2. advances' \in Seq(AdvanceType)
    <3>1. advances' = Append(advances, row)
      BY <1>4 DEF InsertAdvance
    <3> HIDE DEF row
    <3> QED
      BY <2>1, <3>1 DEF TypeOK
  <2>3. attemptedOn' \in [Days -> Nat]
    <3>1. Attempted(p) \in Nat
      BY CountsTyped
    <3>2. attemptedOn' = [attemptedOn EXCEPT ![Day(started[p])] = @ + Attempted(p)]
      BY <1>4 DEF InsertAdvance
    <3> QED
      BY <3>1, <3>2, CounterBumped DEF TypeOK
  <2>4. copy' \in [Requests -> RowType]
    BY <1>2, <1>4 DEF InsertAdvance, TypeOK
  <2> QED
    BY <1>4, <2>2, <2>3, <2>4 DEF InsertAdvance, Goto, TypeOK, Labels, history
<1> QED
  BY <1>3, <1>4

LEMMA NextTyped == TypeOK /\ [Next]_vars => TypeOK'
<1> SUFFICES ASSUME TypeOK, [Next]_vars PROVE TypeOK'
  OBVIOUS
<1>1. CASE UNCHANGED vars
  BY <1>1 DEF TypeOK, vars, store, locals, history
<1>2. CASE CreatePlan \/ Tick
  BY <1>2, CreateTyped, TickTyped
<1>3. CASE \E p \in Requests : ListDuePlans(p) \/ LoadForPause(p) \/ LoadForResume(p)
                                \/ Progress(p) \/ Abort(p)
  BY <1>3, LoadingTyped, ReleasingTyped, CountingTyped, RecipientStepsTyped, FinishingTyped
     DEF Progress
<1> QED
  BY <1>1, <1>2, <1>3 DEF Next

\* Every variable keeps its type: counts stay natural numbers, every row an
\* advance, pause or resume writes is a well-formed plan row.
THEOREM TypesCorrect == Spec => []TypeOK
BY InitTyped, NextTyped, PTL DEF Spec

=============================================================================

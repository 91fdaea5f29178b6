----------------------------- MODULE EmailPlan -----------------------------
(***************************************************************************)
(* The email sending plan of internal/email/plan.go: one row of            *)
(* email_sending_plans, its recipients and its recorded advances, and the  *)
(* requests that read and write them.  Nothing locks the rows: every       *)
(* request loads the plan, works for as long as its database calls, account *)
(* service calls and SMTP conversations take, and writes all status        *)
(* columns of the plan back from its copy.  Each database or remote call   *)
(* is a step of its own, so requests interleave as the code lets them.     *)
(*                                                                         *)
(* Requests of different plans share nothing, so one plan is modelled.     *)
(***************************************************************************)
EXTENDS Integers, Sequences, FiniteSets

CONSTANTS
    Accounts,            \* accounts, numbered in the order recipients are listed
    Jobs,                \* scheduler loops, one per running service instance
    Clicks,              \* slots for POST /:planId/advance requests
    Toggles,             \* slots for POST /:planId/pause and /resume requests
    PerIntervalChoices,  \* max_emails_per_interval a plan may be created with
    IntervalChoices,     \* interval_minutes a plan may be created with
    PerDayChoices,       \* max_emails_per_day a plan may be created with
    StartChoices,        \* planned_start_at a plan may be created with
    NoLimit,             \* a nil max_emails_per_day
    NoTime,              \* a nil next_interval_at
    DayLength,           \* clock ticks in a UTC day
    Horizon,             \* bound: the clock stops here
    MaxLag,              \* bound: ticks an advance, or a due plan, may take up
    MaxOverlap,          \* bound: requests in flight at once
    MaxFaults            \* bound: requests cut short by an error or a crash

ASSUME PlanConstants ==
    /\ Accounts \subseteq Nat /\ IsFiniteSet(Accounts)
    /\ IsFiniteSet(Jobs \cup Clicks \cup Toggles)
    /\ Jobs \cap Clicks = {} /\ Jobs \cap Toggles = {} /\ Clicks \cap Toggles = {}
    /\ PerIntervalChoices \subseteq Int
    /\ IntervalChoices \subseteq Int
    /\ PerDayChoices \subseteq Int \cup {NoLimit}
    /\ StartChoices \subseteq Int
    /\ NoLimit \notin Int
    /\ NoTime \notin Int
    /\ DayLength \in Nat \ {0}
    /\ Horizon \in Nat
    /\ MaxLag \in Nat
    /\ MaxOverlap \in Nat
    /\ MaxFaults \in Nat

VARIABLES
    now,          \* the UTC clock all requests read
    plan,         \* the columns of the plan that UpdateEmailPlanStatus writes
    params,       \* the columns of the plan that never change
    recipient,    \* the status of each account's recipient row
    advances,     \* the rows of email_sending_plan_advances, in insertion order
    attemptedOn,  \* SUM(attempted_count) of those rows by the day of started_at
    pc,           \* where each request stands
    copy,         \* its copy of the plan
    started,      \* its `now`, read once when the advance begins
    left,         \* its remainingDailyCapacity
    todo,         \* the listed recipients it has not processed
    cur,          \* the recipient it is processing
    mark,         \* the status it will write for that recipient
    tally,        \* its sent, failed and skipped counts
    faults,       \* how many requests were cut short
    emailed,      \* how many emails the SMTP server accepted for each account
    attemptsOn    \* how many send attempts were made on each day of the clock

store == <<plan, params, recipient, advances, attemptedOn>>
locals == <<pc, copy, started, left, todo, cur, mark, tally>>
history == <<faults, emailed, attemptsOn>>
vars == <<now, store, locals, history>>

Requests == Jobs \cup Clicks \cup Toggles
Advancers == Jobs \cup Clicks
IsManual(p) == p \in Clicks
Running == {p \in Requests : pc[p] # "idle"}

Final == {"Sent", "Failed", "Skipped"}
Statuses == {"Scheduled", "Paused", "Completed"}
Zero == [sent |-> 0, failed |-> 0, skipped |-> 0]

Day(t) == t \div DayLength
NextDay(t) == (Day(t) + 1) * DayLength
Days == {Day(t) : t \in 0..Horizon}

AbsentRow == [status |-> "Absent", advanced |-> 0, next |-> NoTime,
              paused |-> FALSE, completed |-> FALSE]

----------------------------------------------------------------------------
(* The queries.                                                            *)

\* Faulty: failed recipients are listed again.
PendingOrFailed == {a \in Accounts : recipient[a] \in {"Pending", "Failed"}}

PendingRecipients == {a \in Accounts : recipient[a] = "Pending"}

\* ListDuePlans' WHERE clause.
IsDue(row) == row.status = "Scheduled" /\ row.next # NoTime /\ row.next <= now

\* Faulty: what earlier advances attempted today is not counted.
UncountedDailyCapacity(t) == params.perDay

\* getRemainingDailyCapacity: SumAttemptedToday counts the rows whose
\* started_at falls on the day of the advance, and nothing in flight.
RemainingDailyCapacity(t) ==
    IF params.perDay = NoLimit THEN NoLimit
    ELSE LET remaining == params.perDay - attemptedOn[Day(t)]
         IN  IF remaining < 0 THEN 0 ELSE remaining

SendCapacity(remaining) ==
    IF remaining # NoLimit /\ remaining < params.perInterval
    THEN remaining ELSE params.perInterval

Attempted(p) == tally[p].sent + tally[p].failed
\* Faulty: an advance that only skipped recipients counts for nothing.
ProcessedUnlessSkipped(p) == Attempted(p)

Processed(p) == Attempted(p) + tally[p].skipped

----------------------------------------------------------------------------
(* The plan row an advance, a pause or a resume writes.                    *)

CompletedRow(row) ==
    [row EXCEPT !.status = "Completed", !.completed = TRUE, !.next = NoTime]

\* The daily capacity is used up: wait for the next UTC day, unless Paused.
CappedRow(row, t) ==
    IF row.status = "Paused" THEN row ELSE [row EXCEPT !.next = NextDay(t)]

DailyCapReached(p) == left[p] # NoLimit /\ left[p] - Attempted(p) <= 0

\* Faulty: a manual advance of a paused plan reschedules it.
AdvancedRowUnpaused(p, count) ==
    LET row == [copy[p] EXCEPT !.advanced = count]
    IN  IF todo[p] = {} THEN CompletedRow(row)
        ELSE [row EXCEPT !.status = "Scheduled", !.next = started[p] + params.interval]

\* Faulty: no next interval once the daily capacity is used up.
AdvancedRowStopsAtCap(p, count) ==
    LET row == [copy[p] EXCEPT !.advanced = count]
    IN  IF todo[p] = {} THEN CompletedRow(row)
        ELSE [row EXCEPT !.next = IF DailyCapReached(p) THEN NoTime
                                  ELSE started[p] + params.interval]

\* lines 347-371: after the loop, whatever the listed snapshot still holds
\* decides between Completed and a next interval.
AdvancedRow(p, count) ==
    LET row == [copy[p] EXCEPT !.advanced = count]
        later == started[p] + params.interval
    IN  IF todo[p] = {} THEN CompletedRow(row)
        ELSE IF row.status = "Paused" THEN [row EXCEPT !.next = later]
        ELSE [row EXCEPT !.status = "Scheduled",
                         !.next = IF DailyCapReached(p) THEN NextDay(started[p]) ELSE later]

PausedRow(row) == [row EXCEPT !.status = "Paused", !.paused = TRUE]

\* Faulty: resuming makes the plan due whatever its next interval was.
ResumedRowAtOnce(row, t) ==
    [row EXCEPT !.status = "Scheduled", !.paused = FALSE, !.next = t]

ResumedRow(row, t) ==
    [row EXCEPT !.status = "Scheduled", !.paused = FALSE,
                !.next = IF row.next = NoTime \/ row.next < t THEN t ELSE row.next]

----------------------------------------------------------------------------
Init ==
    /\ now \in {t \in 0..Horizon : t < DayLength}
    /\ plan = AbsentRow
    /\ params = [perInterval |-> 0, interval |-> 0, perDay |-> NoLimit]
    /\ recipient = [a \in Accounts |-> "None"]
    /\ advances = <<>>
    /\ attemptedOn = [d \in Days |-> 0]
    /\ pc = [p \in Requests |-> "idle"]
    /\ copy = [p \in Requests |-> AbsentRow]
    /\ started = [p \in Requests |-> 0]
    /\ left = [p \in Requests |-> NoLimit]
    /\ todo = [p \in Requests |-> {}]
    /\ cur = [p \in Requests |-> 0]
    /\ mark = [p \in Requests |-> "Skipped"]
    /\ tally = [p \in Requests |-> Zero]
    /\ faults = 0
    /\ emailed = [a \in Accounts |-> 0]
    /\ attemptsOn = [d \in Days |-> 0]

\* A request ends: its goroutine's variables die with it.
Release(p) ==
    /\ pc' = [pc EXCEPT ![p] = "idle"]
    /\ copy' = [copy EXCEPT ![p] = AbsentRow]
    /\ started' = [started EXCEPT ![p] = 0]
    /\ left' = [left EXCEPT ![p] = NoLimit]
    /\ todo' = [todo EXCEPT ![p] = {}]
    /\ cur' = [cur EXCEPT ![p] = 0]
    /\ mark' = [mark EXCEPT ![p] = "Skipped"]
    /\ tally' = [tally EXCEPT ![p] = Zero]

HasSlot(p) == pc[p] = "idle" /\ Cardinality(Running) < MaxOverlap

Goto(p, label) == pc' = [pc EXCEPT ![p] = label]

\* The handler's only bound on the limits is per day >= per interval.
ValidLimits(perInterval, perDay) == perDay # NoLimit => perDay >= perInterval

\* resolveTargetAccounts: the accounts asked for - all of them, page by page,
\* for a broadcast - that the account service knows, each once.
ResolvedTargets == {asked \cap known : asked \in SUBSET Accounts, known \in SUBSET Accounts}

\* createPlan and CreatePlanAsync: the plan and one Pending row per resolved
\* account appear in one transaction; no target is an error.
CreatePlan ==
    /\ plan.status = "Absent"
    /\ \E targets \in ResolvedTargets \ {{}}, n \in PerIntervalChoices,
          m \in IntervalChoices, d \in PerDayChoices, t \in StartChoices \cup {now} :
          /\ ValidLimits(n, d)
          /\ plan' = [status |-> "Scheduled", advanced |-> 0, next |-> t,
                      paused |-> FALSE, completed |-> FALSE]
          /\ params' = [perInterval |-> n, interval |-> m, perDay |-> d]
          /\ recipient' = [a \in Accounts |-> IF a \in targets THEN "Pending" ELSE "None"]
    /\ UNCHANGED <<now, advances, attemptedOn, locals, history>>

\* AdvanceDuePlansAsync on its minute tick: the plan is among the due ones.
ListDuePlans(p) ==
    /\ p \in Jobs /\ HasSlot(p)
    /\ IsDue(plan)
    /\ Goto(p, "load")
    /\ UNCHANGED <<now, store, copy, started, left, todo, cur, mark, tally, history>>

\* The guards at the head of AdvancePlanIntervalAsync.
MayAdvance(p) ==
    /\ plan.status \notin {"Absent", "Completed"}
    /\ ~IsManual(p) => plan.status # "Paused"
    /\ ~IsManual(p) /\ plan.next # NoTime => plan.next <= now

\* An automatic advance loads the plan after the due list was read, a manual
\* one when the request arrives; `now` is read once.
LoadPlan(p) ==
    /\ \/ p \in Jobs /\ pc[p] = "load"
       \/ p \in Clicks /\ HasSlot(p)
    /\ MayAdvance(p)
    /\ copy' = [copy EXCEPT ![p] = plan]
    /\ started' = [started EXCEPT ![p] = now]
    /\ Goto(p, "count")
    /\ UNCHANGED <<now, store, left, todo, cur, mark, tally, history>>

\* The plan changed since it was listed as due: the job logs and moves on.
\* (A rejected manual request changes nothing at all.)
RejectAdvance(p) ==
    /\ p \in Jobs /\ pc[p] = "load"
    /\ ~MayAdvance(p)
    /\ Release(p)
    /\ UNCHANGED <<now, store, history>>

CountPendingRecipients(p) ==
    /\ pc[p] = "count"
    /\ IF PendingRecipients = {}
       THEN /\ copy' = [copy EXCEPT ![p] = CompletedRow(copy[p])]
            /\ Goto(p, "save")
       ELSE /\ Goto(p, "capacity")
            /\ copy' = copy
    /\ UNCHANGED <<now, store, started, left, todo, cur, mark, tally, history>>

CheckDailyCapacity(p) ==
    /\ pc[p] = "capacity"
    /\ LET remaining == RemainingDailyCapacity(started[p])
       IN  IF remaining = 0
           THEN /\ copy' = [copy EXCEPT ![p] = CappedRow(copy[p], started[p])]
                /\ Goto(p, "save")
                /\ left' = left
           ELSE /\ left' = [left EXCEPT ![p] = remaining]
                /\ Goto(p, "list")
                /\ copy' = copy
    /\ UNCHANGED <<now, store, started, todo, cur, mark, tally, history>>

\* Faulty: only as many recipients are listed as may be emailed.
ListOneInterval(p) ==
    /\ pc[p] = "list"
    /\ todo' = [todo EXCEPT ![p] =
          {a \in PendingRecipients :
              Cardinality({b \in PendingRecipients : b < a}) < SendCapacity(left[p])}]
    /\ Goto(p, "loop")
    /\ UNCHANGED <<now, store, copy, started, left, cur, mark, tally, history>>

ListPendingRecipients(p) ==
    /\ pc[p] = "list"
    /\ todo' = [todo EXCEPT ![p] = PendingRecipients]
    /\ Goto(p, "loop")
    /\ UNCHANGED <<now, store, copy, started, left, cur, mark, tally, history>>

LoopDone(p) == todo[p] = {} \/ Attempted(p) >= SendCapacity(left[p])

\* listContacts for the next recipient of the list: a contact, or none - also
\* when the account service fails or times out, which reads as no contact.
ResolveContact(p) ==
    /\ pc[p] = "loop" /\ ~LoopDone(p)
    /\ \E a \in todo[p] :
          /\ \A b \in todo[p] : a <= b
          /\ cur' = [cur EXCEPT ![p] = a]
    /\ \/ /\ Goto(p, "send")
          /\ mark' = mark /\ tally' = tally
       \/ /\ mark' = [mark EXCEPT ![p] = "Skipped"]
          /\ tally' = [tally EXCEPT ![p].skipped = @ + 1]
          /\ Goto(p, "update")
    /\ UNCHANGED <<now, store, copy, started, left, todo, history>>

\* Faulty: a message the server refused is left for another try.
ConversationsRetried == {[accepted |-> 1, reported |-> "Sent"],
                         [accepted |-> 0, reported |-> "Pending"]}

\* What a conversation with the SMTP server can come to: the message is
\* accepted and QUIT succeeds, the message is not accepted, or it is accepted
\* and QUIT fails - which SendEmail reports as a failure.
Conversations == {[accepted |-> 1, reported |-> "Sent"],
                  [accepted |-> 0, reported |-> "Failed"],
                  [accepted |-> 1, reported |-> "Failed"]}

SendEmail(p) ==
    /\ pc[p] = "send"
    /\ \E c \in Conversations :
          /\ emailed' = [emailed EXCEPT ![cur[p]] = @ + c.accepted]
          /\ mark' = [mark EXCEPT ![p] = c.reported]
          /\ tally' = IF c.reported = "Sent"
                      THEN [tally EXCEPT ![p].sent = @ + 1]
                      ELSE [tally EXCEPT ![p].failed = @ + 1]
    /\ attemptsOn' = [attemptsOn EXCEPT ![Day(now)] = @ + 1]
    /\ Goto(p, "update")
    /\ UNCHANGED <<now, store, copy, started, left, todo, cur, faults>>

\* The row is written by id, whatever it holds by now.
UpdateRecipient(p) ==
    /\ pc[p] = "update"
    /\ recipient' = [recipient EXCEPT ![cur[p]] = mark[p]]
    /\ todo' = [todo EXCEPT ![p] = @ \ {cur[p]}]
    /\ Goto(p, "loop")
    /\ UNCHANGED <<now, plan, params, advances, attemptedOn,
                   copy, started, left, cur, mark, tally, history>>

\* Nothing was attempted or skipped: no advance is recorded.
FinishIdleAdvance(p) ==
    /\ pc[p] = "loop" /\ LoopDone(p)
    /\ Processed(p) = 0
    /\ copy' = [copy EXCEPT ![p] = AdvancedRow(p, copy[p].advanced)]
    /\ Goto(p, "save")
    /\ UNCHANGED <<now, store, started, left, todo, cur, mark, tally, history>>

\* The unique index on (plan_id, interval_number, deleted_at) compares a null
\* deleted_at, so it accepts every insert.
InsertAdvance(p) ==
    /\ pc[p] = "loop" /\ LoopDone(p)
    /\ Processed(p) > 0
    /\ LET number == copy[p].advanced + 1
       IN  /\ advances' = Append(advances,
                  [number |-> number, manual |-> IsManual(p), started |-> started[p],
                   sent |-> tally[p].sent, failed |-> tally[p].failed,
                   skipped |-> tally[p].skipped, pending |-> Cardinality(todo[p])])
           /\ copy' = [copy EXCEPT ![p] = AdvancedRow(p, number)]
    /\ attemptedOn' = [attemptedOn EXCEPT ![Day(started[p])] = @ + Attempted(p)]
    /\ Goto(p, "save")
    /\ UNCHANGED <<now, plan, params, recipient,
                   started, left, todo, cur, mark, tally, history>>

\* Faulty: a completed plan can be paused.
LoadForPauseUnguarded(p) ==
    /\ p \in Toggles /\ HasSlot(p)
    /\ plan.status # "Absent"
    /\ copy' = [copy EXCEPT ![p] = PausedRow(plan)]
    /\ Goto(p, "save")
    /\ UNCHANGED <<now, store, started, left, todo, cur, mark, tally, history>>

\* PausePlanAsync and ResumePlanAsync up to their write.
LoadForPause(p) ==
    /\ p \in Toggles /\ HasSlot(p)
    /\ plan.status \notin {"Absent", "Completed"}
    /\ copy' = [copy EXCEPT ![p] = PausedRow(plan)]
    /\ Goto(p, "save")
    /\ UNCHANGED <<now, store, started, left, todo, cur, mark, tally, history>>

LoadForResume(p) ==
    /\ p \in Toggles /\ HasSlot(p)
    /\ plan.status \notin {"Absent", "Completed"}
    /\ copy' = [copy EXCEPT ![p] = ResumedRow(plan, now)]
    /\ Goto(p, "save")
    /\ UNCHANGED <<now, store, started, left, todo, cur, mark, tally, history>>

\* UpdateEmailPlanStatus writes every status column from the copy; nothing
\* compares the row with the one that was loaded.
UpdateEmailPlanStatus(p) ==
    /\ pc[p] = "save"
    /\ plan' = copy[p]
    /\ Release(p)
    /\ UNCHANGED <<now, params, recipient, advances, attemptedOn, history>>

\* A database error, a cancelled request context or a crash of the instance:
\* every early `return nil, err`, and the loss of the goroutine.
Abort(p) ==
    /\ pc[p] # "idle"
    /\ faults < MaxFaults
    /\ faults' = faults + 1
    /\ Release(p)
    /\ UNCHANGED <<now, store, emailed, attemptsOn>>

\* The clock, from the creation of the plan on: it passes the start of an
\* advance, and the moment a plan is due, by at most MaxLag before the advance
\* ends or a job takes the plan.
Tick ==
    /\ now < Horizon /\ plan.status # "Absent"
    /\ \A p \in Running \cap Advancers : pc[p] # "load" => now < started[p] + MaxLag
    /\ IsDue(plan) => now < plan.next + MaxLag
    /\ now' = now + 1
    /\ UNCHANGED <<store, locals, history>>

\* The steps of a request that, once begun, runs to its end.
Progress(p) ==
    \/ LoadPlan(p) \/ RejectAdvance(p)
    \/ CountPendingRecipients(p) \/ CheckDailyCapacity(p) \/ ListPendingRecipients(p)
    \/ ResolveContact(p) \/ SendEmail(p) \/ UpdateRecipient(p)
    \/ FinishIdleAdvance(p) \/ InsertAdvance(p) \/ UpdateEmailPlanStatus(p)

Next ==
    \/ CreatePlan
    \/ Tick
    \/ \E p \in Requests :
          \/ ListDuePlans(p)
          \/ LoadForPause(p)
          \/ LoadForResume(p)
          \/ Progress(p)
          \/ Abort(p)

Spec == Init /\ [][Next]_vars

\* A goroutine that can take its next step takes it; the scheduler's ticker
\* keeps firing; the clock runs.
Fairness ==
    /\ WF_vars(Tick)
    /\ \A p \in Jobs : WF_vars(ListDuePlans(p)) /\ WF_vars(Progress(p))
    /\ \A p \in Requests \ Jobs : WF_vars(pc[p] # "idle" /\ Progress(p))

FairSpec == Spec /\ Fairness

----------------------------------------------------------------------------
(* Types.                                                                  *)

RowType == [status : Statuses \cup {"Absent"}, advanced : Nat, next : Int \cup {NoTime},
            paused : BOOLEAN, completed : BOOLEAN]
AdvanceType == [number : Nat, manual : BOOLEAN, started : 0..Horizon, sent : Nat,
                failed : Nat, skipped : Nat, pending : Nat]
TallyType == [sent : Nat, failed : Nat, skipped : Nat]
Labels == {"idle", "load", "count", "capacity", "list", "loop", "send", "update", "save"}

\* Every variable holds a value of its type.
TypeOK ==
    /\ now \in 0..Horizon
    /\ plan \in RowType
    /\ params \in [perInterval : Int, interval : Int, perDay : Int \cup {NoLimit}]
    /\ recipient \in [Accounts -> Final \cup {"None", "Pending"}]
    /\ advances \in Seq(AdvanceType)
    /\ attemptedOn \in [Days -> Nat]
    /\ pc \in [Requests -> Labels]
    /\ copy \in [Requests -> RowType]
    /\ started \in [Requests -> 0..Horizon]
    /\ left \in [Requests -> Int \cup {NoLimit}]
    /\ todo \in [Requests -> SUBSET Accounts]
    /\ cur \in [Requests -> Nat]
    /\ mark \in [Requests -> Final]
    /\ tally \in [Requests -> TallyType]
    /\ faults \in 0..MaxFaults
    /\ emailed \in [Accounts -> Nat]
    /\ attemptsOn \in [Days -> Nat]

----------------------------------------------------------------------------
(* What holds however requests interleave, fail and crash.                 *)

\* A row as one request leaves it: a Scheduled plan has a next interval (a
\* plan without one is never listed as due again), a Completed plan has none,
\* and completed_at is set with that status alone.
Consistent(row) ==
    /\ row.status = "Scheduled" => row.next # NoTime /\ ~row.paused
    /\ row.status = "Paused" => row.next # NoTime /\ row.paused
    /\ row.status = "Completed" => row.next = NoTime
    /\ row.completed <=> row.status = "Completed"

\* Stale writes never tear the plan row: whatever mix of advances, pauses and
\* resumes wrote it, its status columns agree with each other.
RowConsistent == Consistent(plan)

\* A Completed plan has no recipient left to email, although the status and
\* the recipients are written in separate statements by racing requests.
CompletedMeansDrained == plan.status = "Completed" => PendingRecipients = {}

\* The number of emails one recipient can get from a plan: one for each
\* request that may hold its row in a list at the same time, and one for each
\* request cut short between the SMTP conversation and UpdateRecipient.  With
\* one request at a time and no failure every recipient gets at most one.
BoundedDuplicates == \A a \in Accounts : emailed[a] <= MaxOverlap + faults

\* The recorded attempts of one day: at most the daily limit, plus one
\* interval for each advance that read the sum at the same time.
RecordedCap ==
    params.perDay # NoLimit /\ plan.status # "Absent" =>
        \A d \in Days : attemptedOn[d] <= params.perDay + (MaxOverlap - 1) * params.perInterval

----------------------------------------------------------------------------
(* What the code promises, and keeps when requests do not overlap.         *)

\* "Completed plans cannot be paused" / "resumed" / "advanced".
CompletedIsFinal == [][plan.status = "Completed" => plan'.status = "Completed"]_vars

\* A paused plan returns to Scheduled by a resume request only; an advance
\* that was running, or a manual one, leaves it Paused or completes it.
PauseHolds ==
    [][plan.status = "Paused" /\ plan'.status = "Scheduled" =>
          \E p \in Toggles : pc[p] = "save" /\ ~copy[p].paused]_vars

\* An automatic advance begins at least interval_minutes after the recorded
\* advance before it, or on a later day (the daily limit had been reached).
Paced ==
    \A i \in DOMAIN advances : \A j \in DOMAIN advances :
        j = i + 1 /\ ~advances[j].manual =>
            \/ advances[j].started >= advances[i].started + params.interval
            \/ Day(advances[j].started) > Day(advances[i].started)

\* The send attempts of one day of the clock, one request at a time and none
\* cut short.  max_emails_per_day limits the advances that start on that day;
\* one advance that began before midnight may still be sending on top of it.
DailyCap ==
    params.perDay # NoLimit /\ plan.status # "Absent" =>
        \A d \in Days : attemptsOn[d] <=
            params.perDay + params.perInterval

\* The sum of a sequence of numbers, by its running totals.
Total(counts) ==
    LET upTo[i \in 0..Len(counts)] == IF i = 0 THEN 0 ELSE upTo[i - 1] + counts[i]
    IN  upTo[Len(counts)]

TotalSent == Total([i \in DOMAIN advances |-> advances[i].sent])
TotalFailed == Total([i \in DOMAIN advances |-> advances[i].failed])
TotalSkipped == Total([i \in DOMAIN advances |-> advances[i].skipped])

With(status) == Cardinality({a \in Accounts : recipient[a] = status})

\* At rest, what the recorded advances say was sent, failed and skipped is
\* what the recipients' rows say, the last advance tells how many are left,
\* the advances are numbered one by one, and the plan counts as many.
Accounted ==
    Running = {} =>
        /\ TotalSent = With("Sent")
        /\ TotalFailed = With("Failed")
        /\ TotalSkipped = With("Skipped")
        /\ plan.advanced = Len(advances)
        /\ \A i \in DOMAIN advances : advances[i].number = i
        /\ advances # <<>> => advances[Len(advances)].pending = With("Pending")

----------------------------------------------------------------------------
(* Progress.                                                               *)

\* A scheduled plan is completed, also when advances are cut short.
Completes == plan.status = "Scheduled" ~> plan.status = "Completed"

=============================================================================

------------------------------ MODULE Discovery ------------------------------
(* The registration of one instance with the service registry              *)
(* (internal/discovery/registration.go): the goroutine of Run registers,   *)
(* renews a third of the lease later, backs off after a failure, and       *)
(* returns when the process is told to stop, while main deregisters        *)
(* (cmd/metoer/main.go).  A call is sent, takes effect in the registry and *)
(* is answered in steps of their own; one that was given up may still take *)
(* effect.  The registry is another service: what a call does there is     *)
(* modelled from how the code uses it.  A tick of the clock is a second.   *)
EXTENDS Integers

CONSTANTS
    LeaseSeconds,   \* the configured lease, 30 by default
    FirstDelay,     \* the first retry delay, 5 in the code
    MaxDelay,       \* the longest retry delay, 30 in the code
    MaxLatency,     \* how long a call takes, at most
    MaxFaults,      \* bound: calls that fail
    MaxWipes        \* bound: times the registry forgets its leases

(* Validate, before the instance may start.                                *)
LeaseIsValid == LeaseSeconds >= 3

ASSUME DiscoveryConstants ==
    /\ LeaseSeconds \in Nat /\ LeaseIsValid
    /\ FirstDelay \in Nat \ {0}
    /\ MaxDelay \in Nat /\ MaxDelay >= 2 * FirstDelay
    /\ MaxLatency \in Nat /\ MaxLatency < FirstDelay
    /\ MaxFaults \in Nat
    /\ MaxWipes \in Nat

VARIABLES
    pc,           \* where the goroutine of Run stands
    timer,        \* what is left of its time.After
    retryDelay,
    registered,
    call,         \* its call
    ctxDone,      \* whether the process was told to stop
    main,         \* where main stands
    dereg,        \* its Deregister call
    lease,        \* what is left of the lease; 0: the instance is not listed
    stray,        \* calls given up that may still take effect, with their age
    faults, wipes,
    listed,       \* whether the instance was ever listed
    wiped,        \* whether the registry forgot it since the last lease granted
    failures,     \* calls of Run that failed since one last succeeded
    unlisted,     \* for how long the instance has not been listed
    racing        \* whether a registration was under way when ctx was done

loop == <<pc, timer, retryDelay, call>>
registry == <<lease, stray>>
shutdown == <<ctxDone, main, dereg, racing>>
bounds == <<faults, wipes>>
history == <<listed, wiped, failures, unlisted>>
vars == <<loop, registered, shutdown, registry, bounds, history>>

Idle == [stage |-> "none", age |-> 0, granted |-> 0]
Sent == [Idle EXCEPT !.stage = "sent"]
Smaller(a, b) == IF a < b THEN a ELSE b
Larger(a, b) == IF a < b THEN b ELSE a

(* A third of what is left of the lease, or of the lease when the answer has *)
(* none; at least a second.                                                  *)
RenewalInterval(left) ==
    Larger(1, (IF left > 0 THEN left ELSE LeaseSeconds) \div 3)

LongestTimer == Larger(MaxDelay, RenewalInterval(LeaseSeconds))
LongestGap == RenewalInterval(LeaseSeconds) + FirstDelay + 3 * MaxLatency

Init ==
    /\ pc = "retry" /\ timer = 0
    /\ retryDelay = FirstDelay
    /\ registered = FALSE
    /\ call = Idle /\ dereg = Idle
    /\ ctxDone = FALSE /\ main = "serving"
    /\ lease = 0 /\ stray = {}
    /\ faults = 0 /\ wipes = 0
    /\ listed = FALSE /\ wiped = FALSE
    /\ failures = 0 /\ unlisted = 0 /\ racing = FALSE

----------------------------------------------------------------------------
(* Run and renewLoop.                                                      *)

(* The first registration, and the next one once the retry delay is over.  *)
Register ==
    /\ pc = "retry" /\ timer = 0 /\ ~ctxDone
    /\ pc' = "registering"
    /\ call' = Sent
    /\ UNCHANGED <<timer, retryDelay, registered, shutdown, registry, bounds, history>>

Renew ==
    /\ pc = "leased" /\ timer = 0 /\ ~ctxDone
    /\ pc' = "renewing"
    /\ call' = Sent
    /\ UNCHANGED <<timer, retryDelay, registered, shutdown, registry, bounds, history>>

\* Faulty: without a maximum.
BackOffWithoutLimit ==
    /\ pc' = "retry"
    /\ timer' = retryDelay
    /\ retryDelay' = 2 * retryDelay

(* The retry delay is waited for, then doubled up to its maximum.          *)
BackOff ==
    /\ pc' = "retry"
    /\ timer' = retryDelay
    /\ retryDelay' = Smaller(2 * retryDelay, MaxDelay)

Answered(outcome) == call.stage = outcome /\ call' = Idle

\* Faulty: the retry delay is not set back.
RegisterSucceedsKeepingDelay ==
    /\ pc = "registering" /\ Answered("done")
    /\ pc' = "leased" /\ timer' = RenewalInterval(call.granted)
    /\ registered' = TRUE
    /\ failures' = 0
    /\ UNCHANGED <<retryDelay, shutdown, registry, bounds, listed, wiped, unlisted>>

\* Faulty: nothing remembers that there is something to deregister.
RegisterSucceedsUnnoticed ==
    /\ pc = "registering" /\ Answered("done")
    /\ pc' = "leased" /\ timer' = RenewalInterval(call.granted)
    /\ retryDelay' = FirstDelay
    /\ failures' = 0
    /\ UNCHANGED <<registered, shutdown, registry, bounds, listed, wiped, unlisted>>

RegisterSucceeds ==
    /\ pc = "registering" /\ Answered("done")
    /\ pc' = "leased" /\ timer' = RenewalInterval(call.granted)
    /\ retryDelay' = FirstDelay
    /\ registered' = TRUE
    /\ failures' = 0
    /\ UNCHANGED <<shutdown, registry, bounds, listed, wiped, unlisted>>

\* Faulty: a lease that is not found is only renewed again.
RenewSucceedsAnyway ==
    /\ pc = "renewing" /\ (Answered("done") \/ Answered("missing"))
    /\ pc' = "leased" /\ timer' = RenewalInterval(call.granted)
    /\ failures' = 0
    /\ UNCHANGED <<retryDelay, registered, shutdown, registry, bounds, listed, wiped,
                   unlisted>>

RenewSucceeds ==
    /\ pc = "renewing" /\ Answered("done")
    /\ pc' = "leased" /\ timer' = RenewalInterval(call.granted)
    /\ failures' = 0
    /\ UNCHANGED <<retryDelay, registered, shutdown, registry, bounds, listed, wiped,
                   unlisted>>

(* NotFound: the instance registers again, after the retry delay.          *)
LeaseNotFound ==
    /\ pc = "renewing" /\ Answered("missing")
    /\ failures' = failures + 1
    /\ BackOff
    /\ UNCHANGED <<registered, shutdown, registry, bounds, listed, wiped, unlisted>>

(* What becomes of a call whose caller has given it up.                    *)
GiveUp(op) ==
    /\ call' = Idle
    /\ \/ stray' = stray
       \/ call.stage = "sent" /\ stray' = stray \union {[op |-> op, age |-> call.age]}

Fault == faults < MaxFaults /\ faults' = faults + 1

RegisterFails ==
    /\ pc = "registering" /\ ~ctxDone /\ Fault
    /\ registered' = FALSE
    /\ failures' = failures + 1
    /\ BackOff /\ GiveUp("register")
    /\ UNCHANGED <<shutdown, lease, wipes, listed, wiped, unlisted>>

RenewFails ==
    /\ pc = "renewing" /\ ~ctxDone /\ Fault
    /\ failures' = failures + 1
    /\ BackOff /\ GiveUp("renew")
    /\ UNCHANGED <<registered, shutdown, lease, wipes, listed, wiped, unlisted>>

(* Both timers and both calls end with the context.                        *)
Return ==
    /\ ctxDone /\ pc # "returned"
    /\ pc' = "returned"
    /\ timer' = 0
    /\ IF pc \in {"registering", "renewing"}
       THEN GiveUp(IF pc = "registering" THEN "register" ELSE "renew")
       ELSE call' = Idle /\ stray' = stray
    /\ UNCHANGED <<retryDelay, registered, shutdown, lease, bounds, history>>

----------------------------------------------------------------------------
(* main.                                                                   *)

Signal ==
    /\ ~ctxDone
    /\ ctxDone' = TRUE
    /\ racing' = (pc = "registering")
    /\ UNCHANGED <<loop, registered, main, dereg, registry, bounds, history>>

(* `registered` is read while Run may still be about to write it.          *)
Deregister ==
    /\ ctxDone /\ main = "serving"
    /\ IF registered
       THEN main' = "deregistering" /\ dereg' = Sent
       ELSE main' = "skipped" /\ dereg' = dereg
    /\ UNCHANGED <<loop, registered, ctxDone, racing, registry, bounds, history>>

DeregisterSucceeds ==
    /\ main = "deregistering" /\ dereg.stage = "done"
    /\ main' = "left" /\ dereg' = Idle
    /\ registered' = FALSE
    /\ UNCHANGED <<loop, ctxDone, racing, registry, bounds, history>>

DeregisterFails ==
    /\ main = "deregistering" /\ Fault
    /\ main' = "failed" /\ dereg' = Idle
    /\ \/ stray' = stray
       \/ dereg.stage = "sent"
          /\ stray' = stray \union {[op |-> "deregister", age |-> dereg.age]}
    /\ UNCHANGED <<loop, registered, ctxDone, racing, lease, wipes, history>>

----------------------------------------------------------------------------
(* The registry.                                                           *)

(* A registration grants a lease, a renewal extends one that is there, a   *)
(* deregistration ends it.                                                 *)
Effect(op) ==
    /\ lease' = CASE op = "register" -> LeaseSeconds
                  [] op = "renew" -> IF lease > 0 THEN LeaseSeconds ELSE 0
                  [] op = "deregister" -> 0
    /\ listed' = (listed \/ op = "register")
    /\ wiped' = (wiped /\ op # "register")
    /\ unlisted' = IF op = "register" THEN 0 ELSE unlisted

Arrive ==
    /\ call.stage = "sent"
    /\ Effect(IF pc = "registering" THEN "register" ELSE "renew")
    /\ call' = [call EXCEPT !.stage = IF lease' > 0 THEN "done" ELSE "missing",
                            !.granted = lease']
    /\ UNCHANGED <<pc, timer, retryDelay, registered, shutdown, stray, bounds, failures>>

ArriveDeregister ==
    /\ dereg.stage = "sent"
    /\ Effect("deregister")
    /\ dereg' = [dereg EXCEPT !.stage = "done"]
    /\ UNCHANGED <<loop, registered, ctxDone, main, racing, stray, bounds, failures>>

ArriveStray ==
    /\ \E m \in stray :
        /\ Effect(m.op)
        /\ stray' = stray \ {m}
    /\ UNCHANGED <<loop, registered, shutdown, bounds, failures>>

(* The registry restarts and has forgotten the instance.                   *)
Wipe ==
    /\ lease > 0 /\ wipes < MaxWipes
    /\ wipes' = wipes + 1
    /\ lease' = 0 /\ wiped' = TRUE
    /\ UNCHANGED <<loop, registered, shutdown, stray, faults, listed, failures, unlisted>>

(* A second passes: timers that are due and calls that have taken MaxLatency *)
(* come first.                                                               *)
Less(n) == Larger(0, n - 1)
Older(c) == [c EXCEPT !.age = IF c.stage = "none" THEN 0 ELSE @ + 1, !.granted = Less(@)]

Tick ==
    /\ pc \in {"leased", "retry"} => timer > 0 /\ ~ctxDone
    /\ call.stage # "none" => call.age < MaxLatency
    /\ dereg.stage # "none" => dereg.age < MaxLatency
    /\ \A m \in stray : m.age < MaxLatency
    /\ timer' = Less(timer)
    /\ lease' = Less(lease)
    /\ call' = Older(call) /\ dereg' = Older(dereg)
    /\ stray' = {[m EXCEPT !.age = @ + 1] : m \in stray}
    /\ unlisted' = IF lease' > 0 THEN 0 ELSE Smaller(unlisted + 1, LongestGap + 1)
    /\ UNCHANGED <<pc, retryDelay, registered, ctxDone, main, racing, bounds,
                   listed, wiped, failures>>

Next ==
    \/ Register \/ Renew \/ RegisterSucceeds \/ RenewSucceeds \/ LeaseNotFound
    \/ RegisterFails \/ RenewFails \/ Return
    \/ Signal \/ Deregister \/ DeregisterSucceeds \/ DeregisterFails
    \/ Arrive \/ ArriveDeregister \/ ArriveStray \/ Wipe \/ Tick

Spec == Init /\ [][Next]_vars

----------------------------------------------------------------------------
CallType ==
    [stage : {"none", "sent", "done", "missing"}, age : 0..MaxLatency,
     granted : 0..LeaseSeconds]

(* Every variable has its type: the retry delay stays between its bounds.  *)
TypeOK ==
    /\ pc \in {"retry", "registering", "leased", "renewing", "returned"}
    /\ retryDelay \in FirstDelay..MaxDelay
    /\ timer \in 0..LongestTimer
    /\ call \in CallType /\ dereg \in CallType
    /\ main \in {"serving", "deregistering", "left", "failed", "skipped"}
    /\ registered \in BOOLEAN /\ ctxDone \in BOOLEAN /\ racing \in BOOLEAN
    /\ lease \in 0..LeaseSeconds
    /\ stray \subseteq [op : {"register", "renew", "deregister"}, age : 0..MaxLatency]
    /\ faults \in 0..MaxFaults /\ wipes \in 0..MaxWipes
    /\ listed \in BOOLEAN /\ wiped \in BOOLEAN
    /\ failures \in Nat /\ unlisted \in 0..LongestGap + 1

(* As long as the process runs, an instance that was listed and that the   *)
(* registry has not forgotten stays listed through two failed calls in a   *)
(* row, if the lease is longer than a renewal interval, the first two retry *)
(* delays and the calls take together: 30 seconds are (registration.go     *)
(* 52-79, 155-171), and 3, which Validate accepts, are not.                *)
LeaseIsLong == LeaseSeconds > RenewalInterval(LeaseSeconds) + 3 * FirstDelay + 4 * MaxLatency

StaysListed ==
    LeaseIsLong /\ ~ctxDone /\ listed /\ ~wiped /\ failures <= 2 => lease > 0

(* As long as the process runs, an instance that is not listed - because it *)
(* just started, or the registry forgot it - is listed after a renewal      *)
(* interval and the first retry delay, unless two calls in a row fail.      *)
BackSoon == ~ctxDone /\ failures <= 1 => unlisted <= LongestGap

(* A process that deregistered, or had nothing to deregister, is not listed  *)
(* afterwards, also not by a renewal that arrives late: except if it was     *)
(* registering when it was told to stop, or its last registration failed.    *)
CleanExit ==
    ~racing /\ (main = "left" \/ (main = "skipped" /\ failures = 0)) => lease = 0

=============================================================================

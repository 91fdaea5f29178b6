--------------------------- MODULE DiscoveryProofs ---------------------------
(* Theorems about Discovery: an instance stays listed through two failed    *)
(* calls, comes back soon after the registry forgot it, and is not listed   *)
(* once it deregistered, whatever the lease, the delays and the latency.    *)
EXTENDS Discovery, TLAPS

Calling == pc \in {"registering", "renewing"}
Waiting == pc \in {"leased", "retry"}

(* TypeOK in two parts: the flags, and what the arithmetic is about.       *)
Flags ==
    /\ registered \in BOOLEAN /\ ctxDone \in BOOLEAN /\ racing \in BOOLEAN
    /\ listed \in BOOLEAN /\ wiped \in BOOLEAN

Ranges ==
    /\ pc \in {"retry", "registering", "leased", "renewing", "returned"}
    /\ retryDelay \in FirstDelay..MaxDelay
    /\ timer \in 0..LongestTimer
    /\ call \in CallType /\ dereg \in CallType
    /\ main \in {"serving", "deregistering", "left", "failed", "skipped"}
    /\ lease \in 0..LeaseSeconds
    /\ stray \subseteq [op : {"register", "renew", "deregister"}, age : 0..MaxLatency]
    /\ faults \in 0..MaxFaults /\ wipes \in 0..MaxWipes
    /\ failures \in Nat /\ unlisted \in 0..LongestGap + 1

(* How the goroutine, its call, main and the registry stand to each other. *)
Stages ==
    /\ Calling <=> call.stage # "none"
    /\ pc = "registering" => call.stage # "missing"
    /\ dereg.stage # "none" => main = "deregistering"
    /\ main # "serving" \/ racing \/ pc = "returned" => ctxDone
    /\ \A m \in stray : m.op = "deregister" => ctxDone
    /\ pc \in {"leased", "renewing"} \/ call.stage = "done" \/ lease > 0 => listed
    /\ lease > 0 => unlisted = 0

(* The retry delay tells how many calls failed, and a registration that was *)
(* given up takes effect, if at all, before the next one is sent.          *)
Delays ==
    /\ pc \in {"leased", "renewing"} => failures = 0
    /\ failures = 0 => retryDelay = FirstDelay
    /\ failures = 1 => retryDelay = 2 * FirstDelay
    /\ pc = "retry" =>
        /\ failures = 0 => timer = 0 /\ ~listed /\ unlisted = 0
        /\ failures = 1 => timer <= FirstDelay
        /\ failures = 2 => timer <= 2 * FirstDelay
    /\ \A m \in stray : m.op = "register" =>
        \/ pc = "retry" /\ timer + m.age >= FirstDelay /\ failures > 0
        \/ pc = "returned"

(* What makes an exit clean: a registration outlives the signal only if it *)
(* was under way then, or failed.                                          *)
Exit ==
    /\ pc = "registering" /\ ctxDone => racing
    /\ pc \in {"leased", "renewing"} => registered \/ main = "left"
    /\ main \in {"deregistering", "failed"} => registered \/ racing
    /\ ~racing => \A m \in stray : m.op = "register" =>
           failures > 0 /\ ~registered /\ main \in {"serving", "skipped"}
    /\ ~racing /\ (main = "left" \/ dereg.stage = "done") => lease = 0
    /\ ~racing /\ ~registered /\ failures = 0 => pc = "registering" \/ lease = 0
    /\ main = "skipped" => racing \/ ~registered

(* The time that failures cost: a call and its retry delay each.           *)
Allowance ==
    CASE failures = 0 -> 0
      [] failures = 1 -> MaxLatency + FirstDelay
      [] OTHER -> 2 * MaxLatency + 3 * FirstDelay

Floor == LeaseSeconds - RenewalInterval(LeaseSeconds) - MaxLatency - Allowance
Ceiling == RenewalInterval(LeaseSeconds) + MaxLatency + Allowance

(* What is left of the lease, beyond the time until the next call ends, is *)
(* no less than Floor.                                                     *)
Lasts ==
    ~ctxDone /\ ~wiped =>
        /\ call.stage = "done" =>
            lease >= call.granted /\ call.granted + call.age >= LeaseSeconds
        /\ LeaseIsLong => call.stage # "missing"
        /\ LeaseIsLong /\ listed /\ failures <= 2 =>
            /\ Waiting => lease - timer >= Floor
            /\ Calling => lease + call.age >= Floor

(* How long the instance has not been listed, with the time until the next *)
(* call, is no more than Ceiling.                                          *)
Comes ==
    ~ctxDone =>
        /\ call.stage = "done" => unlisted <= call.age
        /\ failures <= 1 =>
            /\ Waiting => unlisted + timer <= Ceiling
            /\ Calling => unlisted <= Ceiling + call.age

(* A renewal interval is never longer than that of a full lease.           *)
LEMMA Intervals ==
    /\ LeaseSeconds \in Nat
    /\ RenewalInterval(LeaseSeconds) \in Nat \ {0}
    /\ \A g \in 0..LeaseSeconds :
        /\ RenewalInterval(g) \in Nat \ {0}
        /\ RenewalInterval(g) <= RenewalInterval(LeaseSeconds)
<1>1. LeaseSeconds \in Nat /\ LeaseSeconds >= 3 BY DiscoveryConstants DEF LeaseIsValid
<1>2. \A g \in 0..LeaseSeconds : g \div 3 \in Nat /\ g \div 3 <= LeaseSeconds \div 3
  BY <1>1
<1> QED BY <1>1, <1>2 DEF RenewalInterval, Larger

(* Bounds of the timers and counters.                                      *)
LEMMA Timers ==
    /\ LongestTimer \in Nat /\ LongestGap \in Nat
    /\ \A g \in 0..LeaseSeconds : RenewalInterval(g) \in 0..LongestTimer
    /\ \A d \in FirstDelay..MaxDelay :
        /\ d \in 0..LongestTimer
        /\ Smaller(2 * d, MaxDelay) \in FirstDelay..MaxDelay
    /\ \A t \in Nat : Less(t) \in Nat /\ Less(t) <= t
    /\ \A u \in 0..LongestGap + 1 : Smaller(u + 1, LongestGap + 1) \in 0..LongestGap + 1
  BY DiscoveryConstants, Intervals DEF LongestTimer, LongestGap, Larger, Smaller, Less

(* The records of a call.                                                  *)
LEMMA Calls ==
    /\ Idle \in CallType /\ Sent \in CallType
    /\ Idle.stage = "none" /\ Sent.stage = "sent" /\ Sent.age = 0
    /\ \A c \in CallType :
        /\ c.age < MaxLatency \/ c.stage = "none" =>
            /\ Older(c) \in CallType
            /\ Older(c).stage = c.stage
            /\ Older(c).granted = Less(c.granted)
            /\ c.stage # "none" => Older(c).age = c.age + 1
        /\ \A out \in {"done", "missing"}, g \in 0..LeaseSeconds :
            [c EXCEPT !.stage = out, !.granted = g] \in CallType
        /\ [c EXCEPT !.stage = "done"] \in CallType
        /\ c.age \in 0..MaxLatency /\ c.granted \in 0..LeaseSeconds
<1> USE DiscoveryConstants DEF CallType
<1>1. Idle \in CallType /\ Sent \in CallType
      /\ Idle.stage = "none" /\ Sent.stage = "sent" /\ Sent.age = 0
  BY DEF Idle, Sent
<1>2. ASSUME NEW c \in CallType, c.age < MaxLatency \/ c.stage = "none"
      PROVE  /\ Older(c) \in CallType
             /\ Older(c).stage = c.stage
             /\ Older(c).granted = Less(c.granted)
             /\ c.stage # "none" => Older(c).age = c.age + 1
  <2>1. Less(c.granted) \in 0..LeaseSeconds BY DEF Less, Larger
  <2>2. (IF c.stage = "none" THEN 0 ELSE c.age + 1) \in 0..MaxLatency
    BY <1>2
  <2> QED BY <2>1, <2>2 DEF Older
<1> QED BY <1>1, <1>2

(* A call that is sent.                                                    *)
LEMMA Fresh == Idle.stage = "none" /\ Sent.stage = "sent" /\ Sent.age = 0
  BY DEF Idle, Sent

(* The numbers among the variables and constants, for arithmetic.          *)
LEMMA Numbers ==
    ASSUME Ranges
    PROVE  /\ timer \in Nat /\ lease \in Nat /\ lease <= LeaseSeconds
           /\ failures \in Nat /\ unlisted \in Nat
           /\ retryDelay \in Nat /\ retryDelay >= FirstDelay
           /\ call.age \in Nat /\ call.age <= MaxLatency
           /\ call.granted \in Nat /\ call.granted <= LeaseSeconds
           /\ LeaseSeconds \in Nat /\ FirstDelay \in Nat /\ MaxLatency \in Nat
           /\ MaxLatency < FirstDelay
           /\ RenewalInterval(LeaseSeconds) \in Nat
  BY DiscoveryConstants, Intervals, Timers DEF Ranges, CallType

----------------------------------------------------------------------------
(* Each part of the invariant is kept by every action.                     *)
LEMMA RangesNext ==
    ASSUME Ranges, [Next]_vars
    PROVE  Ranges'
<1> USE DiscoveryConstants DEF Ranges, loop, registry, shutdown, bounds, history
<1>1. CASE Register
  BY <1>1, Calls DEF Register
<1>2. CASE Renew
  BY <1>2, Calls DEF Renew
<1>3. CASE RegisterSucceeds
  <2>1. timer' \in 0..LongestTimer /\ retryDelay' \in FirstDelay..MaxDelay
    <3>1. call.granted \in 0..LeaseSeconds BY DEF CallType
    <3> QED BY <1>3, <3>1, Timers DEF RegisterSucceeds
  <2> QED
    BY <1>3, <2>1, Calls DEF RegisterSucceeds, Answered
<1>4. CASE RenewSucceeds
  <2>1. timer' \in 0..LongestTimer /\ retryDelay' \in FirstDelay..MaxDelay
    <3>1. call.granted \in 0..LeaseSeconds BY DEF CallType
    <3> QED BY <1>4, <3>1, Timers DEF RenewSucceeds
  <2> QED
    BY <1>4, <2>1, Calls DEF RenewSucceeds, Answered
<1>5. CASE LeaseNotFound
  <2>1. timer' \in 0..LongestTimer /\ retryDelay' \in FirstDelay..MaxDelay
    BY <1>5, Timers DEF LeaseNotFound, BackOff
  <2>2. call' \in CallType
    BY <1>5, Calls DEF LeaseNotFound, Answered
  <2> QED
    BY <1>5, <2>1, <2>2 DEF LeaseNotFound, BackOff
<1>6. CASE RegisterFails
  <2>1. stray' \subseteq [op : {"register", "renew", "deregister"}, age : 0..MaxLatency]
    <3>1. call.age \in 0..MaxLatency /\ dereg.age \in 0..MaxLatency BY DEF CallType
    <3> QED BY <1>6, <3>1 DEF BackOff, GiveUp, Fault, RegisterFails
  <2>2. call' \in CallType /\ dereg' \in CallType
    BY <1>6, Calls DEF BackOff, GiveUp, Fault, RegisterFails
  <2>3. timer' \in 0..LongestTimer /\ retryDelay' \in FirstDelay..MaxDelay
    BY <1>6, Timers DEF BackOff, GiveUp, Fault, RegisterFails
  <2> QED
    BY <1>6, <2>1, <2>2, <2>3 DEF BackOff, GiveUp, Fault, RegisterFails
<1>7. CASE RenewFails
  <2>1. stray' \subseteq [op : {"register", "renew", "deregister"}, age : 0..MaxLatency]
    <3>1. call.age \in 0..MaxLatency /\ dereg.age \in 0..MaxLatency BY DEF CallType
    <3> QED BY <1>7, <3>1 DEF BackOff, GiveUp, Fault, RenewFails
  <2>2. call' \in CallType /\ dereg' \in CallType
    BY <1>7, Calls DEF BackOff, GiveUp, Fault, RenewFails
  <2>3. timer' \in 0..LongestTimer /\ retryDelay' \in FirstDelay..MaxDelay
    BY <1>7, Timers DEF BackOff, GiveUp, Fault, RenewFails
  <2> QED
    BY <1>7, <2>1, <2>2, <2>3 DEF BackOff, GiveUp, Fault, RenewFails
<1>8. CASE Return
  <2>1. stray' \subseteq [op : {"register", "renew", "deregister"}, age : 0..MaxLatency]
    <3>1. call.age \in 0..MaxLatency /\ dereg.age \in 0..MaxLatency BY DEF CallType
    <3> QED BY <1>8, <3>1 DEF GiveUp, Return
  <2>2. call' \in CallType /\ dereg' \in CallType
    BY <1>8, Calls DEF GiveUp, Return
  <2>3. timer' \in 0..LongestTimer /\ retryDelay' \in FirstDelay..MaxDelay
    BY <1>8, Timers DEF GiveUp, Return
  <2> QED
    BY <1>8, <2>1, <2>2, <2>3 DEF GiveUp, Return
<1>9. CASE Signal
  BY <1>9, Calls DEF Signal
<1>10. CASE Deregister
  BY <1>10, Calls DEF Deregister
<1>11. CASE DeregisterSucceeds
  BY <1>11, Calls DEF DeregisterSucceeds
<1>12. CASE DeregisterFails
  <2>1. stray' \subseteq [op : {"register", "renew", "deregister"}, age : 0..MaxLatency]
    <3>1. call.age \in 0..MaxLatency /\ dereg.age \in 0..MaxLatency BY DEF CallType
    <3> QED BY <1>12, <3>1 DEF Fault, DeregisterFails
  <2>2. call' \in CallType /\ dereg' \in CallType
    BY <1>12, Calls DEF Fault, DeregisterFails
  <2>3. timer' \in 0..LongestTimer /\ retryDelay' \in FirstDelay..MaxDelay
    BY <1>12, Timers DEF Fault, DeregisterFails
  <2> QED
    BY <1>12, <2>1, <2>2, <2>3 DEF Fault, DeregisterFails
<1>13. CASE Arrive
  <2>1. lease' \in 0..LeaseSeconds /\ unlisted' \in 0..LongestGap + 1
    BY <1>13, Intervals, Timers DEF Arrive, Effect
  <2>2. call' \in CallType
    BY <1>13, <2>1, Calls DEF Arrive
  <2> QED
    BY <1>13, <2>1, <2>2 DEF Arrive
<1>14. CASE ArriveDeregister
  <2>1. lease' \in 0..LeaseSeconds /\ unlisted' \in 0..LongestGap + 1
    BY <1>14, Intervals, Timers DEF ArriveDeregister, Effect
  <2>2. dereg' \in CallType
    BY <1>14, <2>1, Calls DEF ArriveDeregister
  <2> QED
    BY <1>14, <2>1, <2>2 DEF ArriveDeregister
<1>15. CASE ArriveStray
  <2>1. lease' \in 0..LeaseSeconds /\ unlisted' \in 0..LongestGap + 1
    BY <1>15, Intervals, Timers DEF ArriveStray, Effect
  <2> QED
    BY <1>15, <2>1 DEF ArriveStray
<1>16. CASE Wipe
  BY <1>16, Intervals DEF Wipe
<1>17. CASE Tick
  <2>1. call' \in CallType /\ dereg' \in CallType
    BY <1>17, Calls DEF Tick
  <2>2. timer' \in 0..LongestTimer /\ lease' \in 0..LeaseSeconds
    BY <1>17, Timers, Intervals DEF Tick
  <2>3. stray' \subseteq [op : {"register", "renew", "deregister"}, age : 0..MaxLatency]
    BY <1>17 DEF Tick
  <2>4. unlisted' \in 0..LongestGap + 1
    BY <1>17, Timers DEF Tick
  <2> QED
    BY <1>17, <2>1, <2>2, <2>3, <2>4 DEF Tick
<1>18. CASE UNCHANGED vars
  BY <1>18, Calls DEF vars
<1> QED
  BY <1>1, <1>2, <1>3, <1>4, <1>5, <1>6, <1>7, <1>8, <1>9, <1>10, <1>11, <1>12, <1>13,
      <1>14, <1>15, <1>16, <1>17, <1>18 DEF Next

LEMMA FlagsNext ==
    ASSUME Flags, [Next]_vars
    PROVE  Flags'
<1> USE DEF Flags, loop, registry, shutdown, bounds, history
<1>1. CASE Register
  BY <1>1 DEF Register
<1>2. CASE Renew
  BY <1>2 DEF Renew
<1>3. CASE RegisterSucceeds
  BY <1>3 DEF RegisterSucceeds, Answered
<1>4. CASE RenewSucceeds
  BY <1>4 DEF RenewSucceeds, Answered
<1>5. CASE LeaseNotFound
  BY <1>5 DEF LeaseNotFound, Answered, BackOff
<1>6. CASE RegisterFails
  BY <1>6 DEF RegisterFails, BackOff, GiveUp, Fault
<1>7. CASE RenewFails
  BY <1>7 DEF RenewFails, BackOff, GiveUp, Fault
<1>8. CASE Return
  BY <1>8 DEF Return, GiveUp
<1>9. CASE Signal
  BY <1>9 DEF Signal
<1>10. CASE Deregister
  BY <1>10 DEF Deregister
<1>11. CASE DeregisterSucceeds
  BY <1>11 DEF DeregisterSucceeds
<1>12. CASE DeregisterFails
  BY <1>12 DEF DeregisterFails, Fault
<1>13. CASE Arrive
  BY <1>13 DEF Arrive, Effect
<1>14. CASE ArriveDeregister
  BY <1>14 DEF ArriveDeregister, Effect
<1>15. CASE ArriveStray
  BY <1>15 DEF ArriveStray, Effect
<1>16. CASE Wipe
  BY <1>16 DEF Wipe
<1>17. CASE Tick
  BY <1>17 DEF Tick
<1>18. CASE UNCHANGED vars
  BY <1>18 DEF vars
<1> QED
  BY <1>1, <1>2, <1>3, <1>4, <1>5, <1>6, <1>7, <1>8, <1>9, <1>10, <1>11, <1>12, <1>13,
      <1>14, <1>15, <1>16, <1>17, <1>18 DEF Next

LEMMA StagesNext ==
    ASSUME Ranges, Flags, Stages, [Next]_vars
    PROVE  Stages'
<1> USE DEF Ranges, Flags, Stages, Calling, loop, registry, shutdown, bounds, history
<1>1. CASE Register
  BY <1>1, Calls DEF Register
<1>2. CASE Renew
  BY <1>2, Calls DEF Renew
<1>3. CASE RegisterSucceeds
  BY <1>3, Calls DEF RegisterSucceeds, Answered
<1>4. CASE RenewSucceeds
  BY <1>4, Calls DEF RenewSucceeds, Answered
<1>5. CASE LeaseNotFound
  BY <1>5, Calls DEF LeaseNotFound, Answered, BackOff
<1>6. CASE RegisterFails
  <2>1. pc' = "retry" /\ call' = Idle
    BY <1>6 DEF RegisterFails, BackOff, GiveUp
  <2>2. \A m \in stray' : m.op = "deregister" => m \in stray
    BY <1>6 DEF RegisterFails, GiveUp
  <2> QED
    BY <1>6, <2>1, <2>2, Calls DEF RegisterFails
<1>7. CASE RenewFails
  <2>1. pc' = "retry" /\ call' = Idle
    BY <1>7 DEF RenewFails, BackOff, GiveUp
  <2>2. \A m \in stray' : m.op = "deregister" => m \in stray
    BY <1>7 DEF RenewFails, GiveUp
  <2> QED
    BY <1>7, <2>1, <2>2, Calls DEF RenewFails
<1>8. CASE Return
  BY <1>8, Calls DEF Return, GiveUp
<1>9. CASE Signal
  BY <1>9, Calls DEF Signal
<1>10. CASE Deregister
  BY <1>10, Calls DEF Deregister
<1>11. CASE DeregisterSucceeds
  BY <1>11, Calls DEF DeregisterSucceeds
<1>12. CASE DeregisterFails
  BY <1>12, Calls DEF DeregisterFails, Fault
<1>13. CASE Arrive
  <2>1. LeaseSeconds > 0 BY Intervals, DiscoveryConstants DEF LeaseIsValid
  <2>2. (listed => listed') /\ (pc = "registering" => listed')
    BY <1>13 DEF Arrive, Effect
  <2>3. lease' > 0 => unlisted' = 0 /\ (pc = "registering" \/ lease > 0)
    BY <1>13, <2>1 DEF Arrive, Effect
  <2>4. pc = "registering" => lease' > 0
    BY <1>13, <2>1 DEF Arrive, Effect
  <2> QED
    BY <1>13, <2>2, <2>3, <2>4 DEF Arrive, CallType
<1>14. CASE ArriveDeregister
  <2>1. LeaseSeconds > 0 BY Intervals, DiscoveryConstants DEF LeaseIsValid
  <2>2. (lease' > 0 => listed' /\ unlisted' = 0) /\ (listed => listed')
    BY <1>14, <2>1 DEF ArriveDeregister, Effect
  <2> QED
    BY <1>14, <2>1, <2>2 DEF ArriveDeregister, Effect, CallType
<1>15. CASE ArriveStray
  <2>1. LeaseSeconds > 0 BY Intervals, DiscoveryConstants DEF LeaseIsValid
  <2>2. PICK m \in stray : Effect(m.op) /\ stray' = stray \ {m}
    BY <1>15 DEF ArriveStray
  <2>3. (lease' > 0 => listed' /\ unlisted' = 0) /\ (listed => listed')
    <3>1. m.op \in {"register", "renew", "deregister"} OBVIOUS
    <3>2. (listed => listed') /\ (m.op = "register" => listed' /\ unlisted' = 0)
      BY <2>2 DEF Effect
    <3>3. m.op # "register" => unlisted' = unlisted /\ (lease' > 0 => lease > 0)
      BY <2>1, <2>2, <3>1 DEF Effect
    <3> QED BY <3>2, <3>3
  <2> QED
    BY <1>15, <2>2, <2>3 DEF ArriveStray
<1>16. CASE Wipe
  BY <1>16, Calls DEF Wipe
<1>17. CASE Tick
  <2>1. (lease' > 0 => lease > 0) /\ (lease' > 0 => unlisted' = 0)
    BY <1>17 DEF Tick, Less, Larger
  <2>2. call'.stage = call.stage /\ dereg'.stage = dereg.stage
    BY <1>17, Calls DEF Tick
  <2> QED
    BY <1>17, <2>1, <2>2 DEF Tick
<1>18. CASE UNCHANGED vars
  BY <1>18, Calls DEF vars
<1> QED
  BY <1>1, <1>2, <1>3, <1>4, <1>5, <1>6, <1>7, <1>8, <1>9, <1>10, <1>11, <1>12, <1>13,
      <1>14, <1>15, <1>16, <1>17, <1>18 DEF Next

LEMMA DelaysNext ==
    ASSUME Ranges, Flags, Stages, Delays, [Next]_vars
    PROVE  Delays'
<1> USE DiscoveryConstants DEF Ranges, Flags, Delays, Calling, loop, registry,
    shutdown, bounds, history
<1>1. CASE Register
  BY <1>1 DEF Register
<1>2. CASE Renew
  BY <1>2 DEF Renew
<1>3. CASE RegisterSucceeds
  BY <1>3 DEF RegisterSucceeds, Answered
<1>4. CASE RenewSucceeds
  BY <1>4 DEF RenewSucceeds, Answered
<1>5. CASE LeaseNotFound
  <2>1. failures' = failures + 1 /\ pc' = "retry" /\ timer' = retryDelay
        /\ (retryDelay = FirstDelay => retryDelay' = 2 * FirstDelay)
    BY <1>5 DEF LeaseNotFound, BackOff, Smaller
  <2> QED
    BY <1>5, <2>1 DEF LeaseNotFound, Answered
<1>6. CASE RegisterFails
  <2>1. failures' = failures + 1 /\ pc' = "retry" /\ timer' = retryDelay
        /\ (retryDelay = FirstDelay => retryDelay' = 2 * FirstDelay)
    BY <1>6 DEF RegisterFails, BackOff, Smaller
  <2>2. \A m \in stray' : m.op = "register" => m.age \in Nat
    <3>1. call.age \in Nat BY DiscoveryConstants DEF CallType
    <3> QED BY <1>6, <3>1 DEF RegisterFails, GiveUp
  <2>3. \A m \in stray' : m.op = "register" => timer' + m.age >= FirstDelay
    BY <2>1, <2>2
  <2> QED
    BY <1>6, <2>1, <2>3 DEF RegisterFails, GiveUp, Fault
<1>7. CASE RenewFails
  <2>1. failures' = failures + 1 /\ pc' = "retry" /\ timer' = retryDelay
        /\ (retryDelay = FirstDelay => retryDelay' = 2 * FirstDelay)
    BY <1>7 DEF RenewFails, BackOff, Smaller
  <2> QED
    BY <1>7, <2>1 DEF RenewFails, GiveUp, Fault
<1>8. CASE Return
  BY <1>8 DEF Return, GiveUp
<1>9. CASE Signal
  BY <1>9 DEF Signal
<1>10. CASE Deregister
  BY <1>10 DEF Deregister
<1>11. CASE DeregisterSucceeds
  BY <1>11 DEF DeregisterSucceeds
<1>12. CASE DeregisterFails
  BY <1>12 DEF DeregisterFails, Fault
<1>13. CASE Arrive
  BY <1>13 DEF Arrive, Effect
<1>14. CASE ArriveDeregister
  BY <1>14 DEF ArriveDeregister, Effect
<1>15. CASE ArriveStray
  BY <1>15 DEF ArriveStray, Effect
<1>16. CASE Wipe
  BY <1>16 DEF Wipe
<1>17. CASE Tick
  <2>1. timer' \in Nat /\ timer' <= timer /\ (timer > 0 => timer' = timer - 1)
    BY <1>17 DEF Tick, Less, Larger
  <2>2. pc = "retry" => timer > 0 /\ failures > 0
    BY <1>17 DEF Tick
  <2>3. \A m \in stray' : \E n \in stray : m.op = n.op /\ m.age = n.age + 1 /\ n.age
      \in Nat
    BY <1>17 DEF Tick
  <2>4. \A m \in stray' : m.op = "register" =>
          \/ pc' = "retry" /\ timer' + m.age >= FirstDelay /\ failures' > 0
          \/ pc' = "returned"
    BY <1>17, <2>1, <2>2, <2>3 DEF Tick
  <2> QED
    BY <1>17, <2>1, <2>2, <2>4 DEF Tick
<1>18. CASE UNCHANGED vars
  BY <1>18 DEF vars
<1> QED
  BY <1>1, <1>2, <1>3, <1>4, <1>5, <1>6, <1>7, <1>8, <1>9, <1>10, <1>11, <1>12, <1>13,
      <1>14, <1>15, <1>16, <1>17, <1>18 DEF Next

LEMMA ExitNext ==
    ASSUME Ranges, Flags, Stages, Delays, Exit, [Next]_vars
    PROVE  Exit'
<1> USE DEF Ranges, Flags, Stages, Delays, Exit, Calling, loop, registry, shutdown,
    bounds, history
<1>1. CASE Register
  BY <1>1, Calls DEF Register
<1>2. CASE Renew
  BY <1>2, Calls DEF Renew
<1>3. CASE RegisterSucceeds
  BY <1>3, Calls DEF RegisterSucceeds, Answered
<1>4. CASE RenewSucceeds
  BY <1>4, Calls DEF RenewSucceeds, Answered
<1>5. CASE LeaseNotFound
  BY <1>5, Calls DEF LeaseNotFound, Answered, BackOff
<1>6. CASE RegisterFails
  <2>1. main = "serving" /\ dereg.stage = "none"
    BY <1>6 DEF RegisterFails
  <2>2. pc' = "retry" /\ failures' > 0 /\ ~registered' /\ UNCHANGED <<main, dereg>>
    BY <1>6 DEF RegisterFails, BackOff
  <2> QED
    BY <2>1, <2>2
<1>7. CASE RenewFails
  <2>1. main = "serving" /\ dereg.stage = "none"
    BY <1>7 DEF RenewFails
  <2>2. pc' = "retry" /\ failures' > 0 /\ UNCHANGED <<main, dereg, registered, racing,
      ctxDone>>
    BY <1>7 DEF RenewFails, BackOff
  <2>3. \A m \in stray' : m.op = "register" => m \in stray
    BY <1>7 DEF RenewFails, GiveUp
  <2> QED
    BY <2>1, <2>2, <2>3
<1>8. CASE Return
  <2>1. pc' = "returned" /\ UNCHANGED <<main, dereg, registered, racing, ctxDone,
      lease, failures>>
    BY <1>8 DEF Return
  <2>2. ~racing => pc # "registering"
    BY <1>8 DEF Return
  <2>3. ~racing => \A m \in stray' : m.op = "register" => m \in stray
    BY <1>8, <2>2 DEF Return, GiveUp
  <2> QED
    BY <2>1, <2>2, <2>3
<1>9. CASE Signal
  BY <1>9, Calls DEF Signal
<1>10. CASE Deregister
  BY <1>10, Calls DEF Deregister
<1>11. CASE DeregisterSucceeds
  BY <1>11, Calls DEF DeregisterSucceeds
<1>12. CASE DeregisterFails
  <2>1. /\ main = "deregistering" /\ main' = "failed" /\ dereg' = Idle
        /\ UNCHANGED <<pc, registered, racing, ctxDone, lease, failures>>
    BY <1>12 DEF DeregisterFails
  <2>2. \A m \in stray' : m.op = "register" => m \in stray
    BY <1>12 DEF DeregisterFails
  <2> QED
    BY <2>1, <2>2, Fresh
<1>13. CASE Arrive
  <2>1. pc = "registering" \/ (lease = 0 => lease' = 0)
    BY <1>13 DEF Arrive, Effect
  <2>2. UNCHANGED <<pc, main, dereg, registered, racing, ctxDone, stray, failures>>
    BY <1>13 DEF Arrive
  <2> QED
    BY <2>1, <2>2
<1>14. CASE ArriveDeregister
  BY <1>14, Calls DEF ArriveDeregister, Effect
<1>15. CASE ArriveStray
  <2>1. PICK m \in stray : Effect(m.op) /\ stray' = stray \ {m}
    BY <1>15 DEF ArriveStray
  <2>2. m.op = "register" \/ (lease = 0 => lease' = 0)
    <3>1. m.op \in {"register", "renew", "deregister"} OBVIOUS
    <3> QED BY <2>1, <3>1 DEF Effect
  <2>3. UNCHANGED <<pc, main, dereg, registered, racing, ctxDone, failures>>
    BY <1>15 DEF ArriveStray
  <2> QED
    BY <2>1, <2>2, <2>3
<1>16. CASE Wipe
  BY <1>16, Calls DEF Wipe
<1>17. CASE Tick
  <2>1. lease = 0 => lease' = 0
    BY <1>17 DEF Tick, Less, Larger
  <2>2. dereg'.stage = dereg.stage
    BY <1>17, Calls DEF Tick
  <2>3. \A m \in stray' : \E n \in stray : m.op = n.op
    BY <1>17 DEF Tick
  <2>4. UNCHANGED <<pc, main, registered, racing, ctxDone, failures>>
    BY <1>17 DEF Tick
  <2> QED
    BY <2>1, <2>2, <2>3, <2>4
<1>18. CASE UNCHANGED vars
  BY <1>18, Calls DEF vars
<1> QED
  BY <1>1, <1>2, <1>3, <1>4, <1>5, <1>6, <1>7, <1>8, <1>9, <1>10, <1>11, <1>12, <1>13,
      <1>14, <1>15, <1>16, <1>17, <1>18 DEF Next

LEMMA LastsNext ==
    ASSUME Ranges, Flags, Stages, Delays, Lasts, [Next]_vars
    PROVE  Lasts'
<1> USE DEF Flags, Stages, Delays, Lasts, Floor, Allowance, LeaseIsLong, Calling,
    Waiting, loop, registry, shutdown, bounds, history
<1>1. CASE Register
  <2>1. /\ pc = "retry" /\ timer = 0 /\ pc' = "registering" /\ call' = Sent
        /\ UNCHANGED <<ctxDone, lease, listed, wiped, failures>>
    BY <1>1 DEF Register
  <2> QED
    BY <2>1, Fresh, Numbers
<1>2. CASE Renew
  <2>1. /\ pc = "leased" /\ timer = 0 /\ pc' = "renewing" /\ call' = Sent
        /\ UNCHANGED <<ctxDone, lease, listed, wiped, failures>>
    BY <1>2 DEF Renew
  <2> QED
    BY <2>1, Fresh, Numbers
<1>3. CASE RegisterSucceeds
  <2>1. /\ call.stage = "done" /\ call' = Idle /\ pc' = "leased"
        /\ timer' = RenewalInterval(call.granted) /\ failures' = 0
        /\ UNCHANGED <<ctxDone, lease, listed, wiped>>
    BY <1>3 DEF RegisterSucceeds, Answered
  <2>2. timer' \in Nat /\ timer' <= RenewalInterval(LeaseSeconds)
    BY <2>1, Numbers, Intervals
  <2> QED
    BY <2>1, <2>2, Fresh, Numbers
<1>4. CASE RenewSucceeds
  <2>1. /\ call.stage = "done" /\ call' = Idle /\ pc' = "leased"
        /\ timer' = RenewalInterval(call.granted) /\ failures' = 0
        /\ UNCHANGED <<ctxDone, lease, listed, wiped>>
    BY <1>4 DEF RenewSucceeds, Answered
  <2>2. timer' \in Nat /\ timer' <= RenewalInterval(LeaseSeconds)
    BY <2>1, Numbers, Intervals
  <2> QED
    BY <2>1, <2>2, Fresh, Numbers
<1>5. CASE LeaseNotFound
  <2>1. /\ call.stage = "missing" /\ call' = Idle
        /\ UNCHANGED <<ctxDone, lease, listed, wiped>>
    BY <1>5 DEF LeaseNotFound, Answered
  <2> QED
    BY <2>1, Fresh
<1>6. CASE RegisterFails
  <2>1. /\ Calling /\ call' = Idle /\ pc' = "retry"
        /\ timer' = retryDelay /\ failures' = failures + 1
        /\ UNCHANGED <<ctxDone, lease, listed, wiped>>
    BY <1>6 DEF RegisterFails, BackOff, GiveUp
  <2>2. CASE failures = 0
    BY <2>1, <2>2, Fresh, Numbers
  <2>3. CASE failures = 1
    BY <2>1, <2>3, Fresh, Numbers
  <2>4. CASE failures >= 2
    BY <2>1, <2>4, Fresh, Numbers
  <2> QED
    BY <2>2, <2>3, <2>4, Numbers
<1>7. CASE RenewFails
  <2>1. /\ Calling /\ call' = Idle /\ pc' = "retry"
        /\ timer' = retryDelay /\ failures' = failures + 1
        /\ UNCHANGED <<ctxDone, lease, listed, wiped>>
    BY <1>7 DEF RenewFails, BackOff, GiveUp
  <2>2. CASE failures = 0
    BY <2>1, <2>2, Fresh, Numbers
  <2>3. CASE failures = 1
    BY <2>1, <2>3, Fresh, Numbers
  <2>4. CASE failures >= 2
    BY <2>1, <2>4, Fresh, Numbers
  <2> QED
    BY <2>2, <2>3, <2>4, Numbers
<1>8. CASE Return
  BY <1>8 DEF Return, GiveUp
<1>9. CASE Signal
  BY <1>9 DEF Signal
<1>10. CASE Deregister
  BY <1>10 DEF Deregister
<1>11. CASE DeregisterSucceeds
  BY <1>11 DEF DeregisterSucceeds
<1>12. CASE DeregisterFails
  BY <1>12 DEF DeregisterFails, Fault
<1>13. CASE Arrive
  <2>1. /\ UNCHANGED <<pc, ctxDone, failures, timer>>
        /\ Calling /\ call.stage = "sent"
    BY <1>13 DEF Arrive
  <2>2. /\ call'.stage = IF lease' > 0 THEN "done" ELSE "missing"
        /\ call'.granted = lease' /\ call'.age = call.age
    BY <1>13 DEF Arrive, CallType
  <2>3. CASE pc = "registering"
    <3>1. lease' = LeaseSeconds
      BY <1>13, <2>3 DEF Arrive, Effect
    <3> QED
      BY <2>1, <2>2, <2>3, <3>1, Numbers, DiscoveryConstants DEF LeaseIsValid
  <2>4. CASE pc = "renewing"
    <3>1. /\ lease' = IF lease > 0 THEN LeaseSeconds ELSE 0
          /\ UNCHANGED <<listed, wiped>>
      BY <1>13, <2>4 DEF Arrive, Effect
    <3>2. ~ctxDone /\ ~wiped /\ LeaseIsLong => lease > 0
      BY <2>4, Numbers
    <3> QED
      BY <2>1, <2>2, <2>4, <3>1, <3>2, Numbers
  <2> QED
    BY <2>1, <2>3, <2>4
<1>14. CASE ArriveDeregister
  BY <1>14 DEF ArriveDeregister, Effect
<1>15. CASE ArriveStray
  <2>1. PICK m \in stray : Effect(m.op)
    BY <1>15 DEF ArriveStray
  <2>2. UNCHANGED <<pc, ctxDone, failures, timer, call>>
    BY <1>15 DEF ArriveStray
  <2>3. CASE m.op = "register"
    <3>1. lease' = LeaseSeconds
      BY <2>1, <2>3 DEF Effect
    <3> QED
      BY <2>2, <2>3, <3>1, Numbers
  <2>4. CASE m.op = "renew"
    <3>1. lease' = (IF lease > 0 THEN LeaseSeconds ELSE 0) /\ UNCHANGED <<listed,
        wiped>>
      BY <2>1, <2>4 DEF Effect
    <3> QED
      BY <2>2, <3>1, Numbers
  <2>5. CASE m.op = "deregister"
    BY <2>2, <2>5
  <2> QED
    BY <2>3, <2>4, <2>5 DEF Ranges
<1>16. CASE Wipe
  BY <1>16 DEF Wipe
<1>17. CASE Tick
  <2>1. /\ UNCHANGED <<pc, ctxDone, listed, wiped, failures>>
        /\ Waiting => timer > 0
        /\ call.stage # "none" => call.age < MaxLatency
    BY <1>17 DEF Tick
  <2>2. /\ timer > 0 => timer' = timer - 1
        /\ lease' = (IF lease > 0 THEN lease - 1 ELSE 0)
    BY <1>17, Numbers DEF Tick, Less, Larger
  <2>3. /\ call'.stage = call.stage
        /\ call.stage # "none" => call'.age = call.age + 1
        /\ call'.granted = (IF call.granted > 0 THEN call.granted - 1 ELSE 0)
    <3>1. call' = Older(call) /\ call \in CallType /\ (call.age < MaxLatency \/
        call.stage = "none")
      BY <1>17 DEF Tick, Ranges
    <3>2. Less(call.granted) = (IF call.granted > 0 THEN call.granted - 1 ELSE 0)
      BY Numbers DEF Less, Larger
    <3> QED
      BY <3>1, <3>2, Calls
  <2> QED
    BY <2>1, <2>2, <2>3, Numbers
<1>18. CASE UNCHANGED vars
  BY <1>18 DEF vars
<1> QED
  BY <1>1, <1>2, <1>3, <1>4, <1>5, <1>6, <1>7, <1>8, <1>9, <1>10, <1>11, <1>12, <1>13,
      <1>14, <1>15, <1>16, <1>17, <1>18 DEF Next

LEMMA ComesNext ==
    ASSUME Ranges, Flags, Stages, Delays, Comes, [Next]_vars
    PROVE  Comes'
<1> USE DEF Flags, Stages, Delays, Comes, Ceiling, Allowance, Calling, Waiting, loop,
    registry, shutdown, bounds, history
<1>1. CASE Register
  <2>1. /\ pc = "retry" /\ pc' = "registering" /\ call' = Sent
        /\ UNCHANGED <<ctxDone, unlisted, failures>>
    BY <1>1 DEF Register
  <2> QED
    BY <2>1, Fresh, Numbers
<1>2. CASE Renew
  <2>1. /\ pc = "leased" /\ pc' = "renewing" /\ call' = Sent
        /\ UNCHANGED <<ctxDone, unlisted, failures>>
    BY <1>2 DEF Renew
  <2> QED
    BY <2>1, Fresh, Numbers
<1>3. CASE RegisterSucceeds
  <2>1. /\ call.stage = "done" /\ call' = Idle /\ pc' = "leased"
        /\ timer' = RenewalInterval(call.granted) /\ failures' = 0
        /\ UNCHANGED <<ctxDone, unlisted>>
    BY <1>3 DEF RegisterSucceeds, Answered
  <2>2. timer' \in Nat /\ timer' <= RenewalInterval(LeaseSeconds)
    BY <2>1, Numbers, Intervals
  <2> QED
    BY <2>1, <2>2, Fresh, Numbers
<1>4. CASE RenewSucceeds
  <2>1. /\ call.stage = "done" /\ call' = Idle /\ pc' = "leased"
        /\ timer' = RenewalInterval(call.granted) /\ failures' = 0
        /\ UNCHANGED <<ctxDone, unlisted>>
    BY <1>4 DEF RenewSucceeds, Answered
  <2>2. timer' \in Nat /\ timer' <= RenewalInterval(LeaseSeconds)
    BY <2>1, Numbers, Intervals
  <2> QED
    BY <2>1, <2>2, Fresh, Numbers
<1>5. CASE LeaseNotFound
  <2>1. /\ Calling /\ call' = Idle /\ pc' = "retry"
        /\ timer' = retryDelay /\ failures' = failures + 1
        /\ UNCHANGED <<ctxDone, unlisted>>
    BY <1>5 DEF LeaseNotFound, BackOff, Answered
  <2>2. CASE failures = 0
    BY <2>1, <2>2, Fresh, Numbers
  <2>3. CASE failures > 0
    BY <2>1, <2>3, Fresh, Numbers
  <2> QED
    BY <2>2, <2>3, Numbers
<1>6. CASE RegisterFails
  <2>1. /\ Calling /\ call' = Idle /\ pc' = "retry"
        /\ timer' = retryDelay /\ failures' = failures + 1
        /\ UNCHANGED <<ctxDone, unlisted>>
    BY <1>6 DEF RegisterFails, BackOff, GiveUp
  <2>2. CASE failures = 0
    BY <2>1, <2>2, Fresh, Numbers
  <2>3. CASE failures > 0
    BY <2>1, <2>3, Fresh, Numbers
  <2> QED
    BY <2>2, <2>3, Numbers
<1>7. CASE RenewFails
  <2>1. /\ Calling /\ call' = Idle /\ pc' = "retry"
        /\ timer' = retryDelay /\ failures' = failures + 1
        /\ UNCHANGED <<ctxDone, unlisted>>
    BY <1>7 DEF RenewFails, BackOff, GiveUp
  <2>2. CASE failures = 0
    BY <2>1, <2>2, Fresh, Numbers
  <2>3. CASE failures > 0
    BY <2>1, <2>3, Fresh, Numbers
  <2> QED
    BY <2>2, <2>3, Numbers
<1>8. CASE Return
  BY <1>8 DEF Return, GiveUp
<1>9. CASE Signal
  BY <1>9 DEF Signal
<1>10. CASE Deregister
  BY <1>10 DEF Deregister
<1>11. CASE DeregisterSucceeds
  BY <1>11 DEF DeregisterSucceeds
<1>12. CASE DeregisterFails
  BY <1>12 DEF DeregisterFails, Fault
<1>13. CASE Arrive
  <2>1. /\ UNCHANGED <<pc, ctxDone, failures, timer>>
        /\ Calling /\ call.stage = "sent"
    BY <1>13 DEF Arrive
  <2>2. /\ call'.stage = IF lease' > 0 THEN "done" ELSE "missing"
        /\ call'.age = call.age
    BY <1>13 DEF Arrive, CallType, Ranges
  <2>3. CASE pc = "registering"
    <3>1. unlisted' = 0
      BY <1>13, <2>3 DEF Arrive, Effect
    <3> QED
      BY <2>1, <2>2, <2>3, <3>1, Numbers
  <2>4. CASE pc = "renewing"
    <3>1. unlisted' = unlisted /\ (lease' > 0 => lease > 0)
      BY <1>13, <2>4 DEF Arrive, Effect
    <3> QED
      BY <2>1, <2>2, <2>4, <3>1, Numbers
  <2> QED
    BY <2>1, <2>3, <2>4
<1>14. CASE ArriveDeregister
  BY <1>14 DEF ArriveDeregister, Effect
<1>15. CASE ArriveStray
  <2>1. PICK m \in stray : Effect(m.op)
    BY <1>15 DEF ArriveStray
  <2>2. UNCHANGED <<pc, ctxDone, failures, timer, call>>
    BY <1>15 DEF ArriveStray
  <2>3. unlisted' = 0 \/ unlisted' = unlisted
    BY <2>1 DEF Effect
  <2> QED
    BY <2>2, <2>3, Numbers
<1>16. CASE Wipe
  BY <1>16 DEF Wipe
<1>17. CASE Tick
  <2>1. /\ UNCHANGED <<pc, ctxDone, failures>>
        /\ Waiting => timer > 0
        /\ call.stage # "none" => call.age < MaxLatency
    BY <1>17 DEF Tick
  <2>2. /\ timer > 0 => timer' = timer - 1
        /\ unlisted' <= unlisted + 1 /\ unlisted' \in Nat
    BY <1>17, Numbers, Timers DEF Tick, Less, Larger, Smaller
  <2>3. /\ call'.stage = call.stage
        /\ call.stage # "none" => call'.age = call.age + 1
    <3>1. call' = Older(call) /\ call \in CallType /\ (call.age < MaxLatency \/
        call.stage = "none")
      BY <1>17 DEF Tick, Ranges
    <3> QED
      BY <3>1, Calls
  <2> QED
    BY <2>1, <2>2, <2>3, Numbers
<1>18. CASE UNCHANGED vars
  BY <1>18 DEF vars
<1> QED
  BY <1>1, <1>2, <1>3, <1>4, <1>5, <1>6, <1>7, <1>8, <1>9, <1>10, <1>11, <1>12, <1>13,
      <1>14, <1>15, <1>16, <1>17, <1>18 DEF Next

----------------------------------------------------------------------------
(* The inductive invariant.                                                *)
Inv == Ranges /\ Flags /\ Stages /\ Delays /\ Exit /\ Lasts /\ Comes

LEMMA InvInit == Init => Inv
<1> SUFFICES ASSUME Init PROVE Inv
  OBVIOUS
<1> USE DiscoveryConstants DEF Init
<1>1. Ranges
  <2>1. LongestTimer \in Nat /\ LongestGap \in Nat /\ LeaseSeconds \in Nat
    BY Timers, Intervals
  <2>2. Idle \in CallType
    BY Calls
  <2>3. FirstDelay \in FirstDelay..MaxDelay
    OBVIOUS
  <2> QED
    BY <2>1, <2>2, <2>3 DEF Ranges
<1>2. Flags
  BY DEF Flags
<1>3. Stages /\ Delays
  BY Fresh DEF Stages, Delays, Calling
<1>4. Exit
  BY DEF Exit
<1>5. Lasts /\ Comes
  BY Fresh, Intervals DEF Lasts, Comes, Ceiling, Allowance, Calling, Waiting
<1> QED
  BY <1>1, <1>2, <1>3, <1>4, <1>5 DEF Inv

LEMMA InvNext == Inv /\ [Next]_vars => Inv'
  BY RangesNext, FlagsNext, StagesNext, DelaysNext, ExitNext, LastsNext, ComesNext DEF
      Inv

LEMMA InvHolds == Spec => []Inv
  BY InvInit, InvNext, PTL DEF Spec

(* The retry delay, timers, leases and calls keep their types and bounds,  *)
(* for any lease and latency that Validate and the code allow.             *)
THEOREM TypesHold == Spec => []TypeOK
<1>1. Inv => TypeOK
  BY DEF Inv, Ranges, Flags, TypeOK
<1> QED
  BY <1>1, InvHolds, PTL

(* With a lease that is long enough - the default one is - two failed calls *)
(* in a row never cost the listing: the back-off doubles from a known delay, *)
(* and a renewal interval, two retries and their calls fit into the lease.  *)
THEOREM StaysListedThroughFailures == Spec => []StaysListed
<1>1. Inv => StaysListed
  <2> SUFFICES ASSUME Inv, LeaseIsLong, ~ctxDone, listed, ~wiped, failures <= 2
               PROVE  lease > 0
    BY DEF StaysListed
  <2> USE DEF Inv
  <2>1. Floor > MaxLatency
    BY Numbers DEF Floor, Allowance, LeaseIsLong
  <2>2. Floor \in Int
    BY Numbers DEF Floor, Allowance
  <2>3. Waiting \/ Calling
    BY DEF Ranges, Stages, Waiting, Calling
  <2>4. (Waiting => lease - timer >= Floor) /\ (Calling => lease + call.age >= Floor)
    BY DEF Lasts
  <2> QED
    BY <2>1, <2>2, <2>3, <2>4, Numbers
<1> QED
  BY <1>1, InvHolds, PTL

(* An instance the registry does not list is listed again within a renewal  *)
(* interval, the first retry delay and three calls, unless calls fail twice. *)
THEOREM ListedAgainSoon == Spec => []BackSoon
<1>1. Inv => BackSoon
  <2> SUFFICES ASSUME Inv, ~ctxDone, failures <= 1
               PROVE  unlisted <= LongestGap
    BY DEF BackSoon
  <2> USE DEF Inv
  <2>1. Ceiling \in Int /\ Ceiling + MaxLatency <= LongestGap
    BY Numbers DEF Ceiling, Allowance, LongestGap
  <2>2. Waiting \/ Calling
    BY DEF Ranges, Stages, Waiting, Calling
  <2>3. (Waiting => unlisted + timer <= Ceiling) /\ (Calling => unlisted <= Ceiling +
      call.age)
    BY DEF Comes
  <2>4. LongestGap \in Nat
    BY Timers
  <2> QED
    BY <2>1, <2>2, <2>3, <2>4, Numbers
<1> QED
  BY <1>1, InvHolds, PTL

(* Deregister's unsynchronised read of `registered` leaves a listing behind *)
(* only for a registration under way at the signal, or one that failed.     *)
THEOREM ExitIsClean == Spec => []CleanExit
<1>1. Inv => CleanExit
  BY DEF Inv, Stages, Exit, CleanExit
<1> QED
  BY <1>1, InvHolds, PTL

==============================================================================

---------------------------- MODULE MCEmailPlan ----------------------------
(* Instances of EmailPlan for TLC.                                         *)
EXTENDS EmailPlan

CONSTANTS j1, c1, t1

\* The variables of a request that it reads again before it assigns them.
\* No action reads the recorded advances, and of a tally only the attempts and
\* whether anything was processed: states that differ in nothing else behave
\* alike, and satisfy the same of the properties the concurrent run checks.
InUse(p) ==
    CASE pc[p] = "loop" -> <<left[p], todo[p], Attempted(p), Processed(p) > 0>>
      [] pc[p] = "send" -> <<left[p], todo[p], Attempted(p), Processed(p) > 0, cur[p]>>
      [] pc[p] = "update" -> <<left[p], todo[p], Attempted(p), Processed(p) > 0, cur[p], mark[p]>>
      [] pc[p] = "list" -> <<left[p]>>
      [] OTHER -> <<>>

Essence ==
    <<now, plan, params, recipient, attemptedOn, pc, copy, started,
      [p \in Requests |-> InUse(p)], history>>

\* Bound: where a request was cut short, the last tick of the clock is left out.
FewFaults == faults = 0 \/ now <= 1

=============================================================================

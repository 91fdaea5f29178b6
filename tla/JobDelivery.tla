---------------------------- MODULE JobDelivery ----------------------------
(* What the in-process dispatcher promises for a job: one delivery for each *)
(* enqueue, no redelivery, and a loss only with the process.               *)
CONSTANT Jobs

VARIABLES state, down    \* where each job is; whether the process has ended

vars == <<state, down>>

States == {"unsent", "refused", "accepted", "started", "done", "lost"}

Init == state = [j \in Jobs |-> "unsent"] /\ down = FALSE

Move(j, from, to) ==
    /\ ~down /\ down' = down
    /\ state[j] = from /\ state' = [state EXCEPT ![j] = to]

Refuse(j) == Move(j, "unsent", "refused")
Accept(j) == Move(j, "unsent", "accepted")
Start(j) == Move(j, "accepted", "started")
Finish(j) == Move(j, "started", "done")

\* The process ends: what is accepted and not done is lost.
End ==
    /\ ~down /\ down' = TRUE
    /\ state' = [j \in Jobs |-> IF state[j] \in {"accepted", "started"} THEN "lost" ELSE state[j]]

Next == End \/ \E j \in Jobs : Refuse(j) \/ Accept(j) \/ Start(j) \/ Finish(j)

Spec == Init /\ [][Next]_vars

=============================================================================

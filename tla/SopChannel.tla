----------------------------- MODULE SopChannel ----------------------------
(* What one SOP stream promises its only reader: an unbounded first-in     *)
(* first-out channel that can be completed, read with the WaitToRead and   *)
(* TryRead loop of the C# channel it mirrors.                              *)
EXTENDS Sequences

CONSTANT Notifications

VARIABLES queue, completed, cancelled, reader

vars == <<queue, completed, cancelled, reader>>

Init == queue = <<>> /\ completed = FALSE /\ cancelled = FALSE /\ reader = "away"

Write ==
    /\ ~completed
    /\ \E n \in Notifications : queue' = Append(queue, n)
    /\ UNCHANGED <<completed, cancelled, reader>>

Ask ==
    /\ reader = "away" /\ reader' = "asking"
    /\ UNCHANGED <<queue, completed, cancelled>>

\* WaitToRead: true only when a notification is there to be read, false only
\* on completion or cancellation.
AnswerTrue ==
    /\ reader = "asking" /\ reader' = "reading"
    /\ queue # <<>>
    /\ UNCHANGED <<queue, completed, cancelled>>

AnswerFalse ==
    /\ reader = "asking" /\ reader' = "done"
    /\ completed \/ cancelled
    /\ UNCHANGED <<queue, completed, cancelled>>

Read ==
    /\ reader = "reading"
    /\ IF queue = <<>> THEN reader' = "away" /\ queue' = queue
                       ELSE reader' = reader /\ queue' = Tail(queue)
    /\ UNCHANGED <<completed, cancelled>>

Complete ==
    /\ reader = "done" /\ completed' = TRUE
    /\ UNCHANGED <<queue, cancelled, reader>>

Cancel == cancelled' = TRUE /\ UNCHANGED <<queue, completed, reader>>

Next == Write \/ Ask \/ AnswerTrue \/ AnswerFalse \/ Read \/ Complete \/ Cancel

Spec == Init /\ [][Next]_vars

\* WaitToRead blocks until a notification is available, the stream is
\* completed, or the request is done - and no longer.
Answered ==
    reader = "asking" /\ (queue # <<>> \/ completed \/ cancelled) ~> reader # "asking"

=============================================================================

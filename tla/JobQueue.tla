------------------------------ MODULE JobQueue -----------------------------
(* The in-process dispatcher of internal/queue/queue.go with the gRPC calls *)
(* that enqueue, the worker pool that drains it and the shutdown of         *)
(* cmd/metoer/main.go.                                                     *)
EXTENDS Integers, Sequences, FiniteSets

CONSTANTS
    Jobs,       \* jobs, each enqueued by one goroutine of a gRPC call
    Workers,    \* the worker pool
    Capacity,   \* the buffer of the jobs channel, 1024 in the code
    NoJob,      \* a worker without a job
    Streams     \* health Watch and reflection calls of clients

ASSUME QueueConstants ==
    /\ IsFiniteSet(Jobs) /\ IsFiniteSet(Workers) /\ IsFiniteSet(Streams)
    /\ Workers # {}
    /\ Capacity \in Nat \ {0}
    /\ NoJob \notin Jobs

VARIABLES
    buffer,     \* the jobs channel
    caller,     \* where the goroutine that enqueues each job stands
    ctxDone,    \* whether its context is done
    open,       \* the streams that have not ended
    worker,     \* idle, busy or stopped
    holding,    \* the job each worker dispatches
    server,     \* serving, stopping, draining or down
    handled,    \* how often the handler ran to its end for each job
    accepted,   \* the jobs enqueued, in order
    taken       \* the jobs taken from the channel, in order

calls == <<caller, ctxDone, open>>
pool == <<worker, holding>>
vars == <<buffer, calls, pool, server, handled, accepted, taken>>

Up == server # "down"

Init ==
    /\ buffer = <<>>
    /\ caller = [j \in Jobs |-> "idle"]
    /\ ctxDone = [j \in Jobs |-> FALSE]
    /\ open = {}
    /\ worker = [w \in Workers |-> "idle"]
    /\ holding = [w \in Workers |-> NoJob]
    /\ server = "serving"
    /\ handled = [j \in Jobs |-> 0]
    /\ accepted = <<>>
    /\ taken = <<>>

----------------------------------------------------------------------------
(* The calls that enqueue.                                                 *)

\* A call reaches EnqueueEmail or EnqueuePushNotification; gRPC takes calls
\* until GracefulStop.
Call(j) ==
    /\ server \in {"serving", "stopping"}
    /\ caller[j] = "idle"
    /\ caller' = [caller EXCEPT ![j] = "sending"]
    /\ UNCHANGED <<buffer, ctxDone, open, pool, server, handled, accepted, taken>>

\* The client cancels, or the deadline of its call passes.
ContextDone(j) ==
    /\ Up /\ caller[j] \in {"idle", "sending"} /\ ~ctxDone[j]
    /\ ctxDone' = [ctxDone EXCEPT ![j] = TRUE]
    /\ UNCHANGED <<buffer, caller, open, pool, server, handled, accepted, taken>>

\* Faulty: one job more than the channel holds.
SendBeyondCapacity(j) ==
    /\ Up /\ caller[j] = "sending"
    /\ Len(buffer) <= Capacity
    /\ buffer' = Append(buffer, j)
    /\ accepted' = Append(accepted, j)
    /\ caller' = [caller EXCEPT ![j] = "accepted"]
    /\ UNCHANGED <<ctxDone, open, pool, server, handled, taken>>

\* enqueue's select: the send when there is room ...
Send(j) ==
    /\ Up /\ caller[j] = "sending"
    /\ Len(buffer) < Capacity
    /\ buffer' = Append(buffer, j)
    /\ accepted' = Append(accepted, j)
    /\ caller' = [caller EXCEPT ![j] = "accepted"]
    /\ UNCHANGED <<ctxDone, open, pool, server, handled, taken>>

\* Faulty: a full channel is waited for whatever becomes of the call.
GiveUpNever(j) == FALSE /\ UNCHANGED vars

\* Faulty: the send goes on behind the error.
GiveUpButSend(j) ==
    /\ Up /\ caller[j] = "sending"
    /\ ctxDone[j] /\ Len(buffer) < Capacity
    /\ buffer' = Append(buffer, j)
    /\ accepted' = Append(accepted, j)
    /\ caller' = [caller EXCEPT ![j] = "refused"]
    /\ UNCHANGED <<ctxDone, open, pool, server, handled, taken>>

\* ... or the error when the context is done, and either when both are ready.
GiveUp(j) ==
    /\ Up /\ caller[j] = "sending"
    /\ ctxDone[j]
    /\ caller' = [caller EXCEPT ![j] = "refused"]
    /\ UNCHANGED <<buffer, ctxDone, open, pool, server, handled, accepted, taken>>

----------------------------------------------------------------------------
(* The streams of the health and reflection services, which Register mounts *)
(* beside Ring's own.  Their handlers run until the client is gone: no code *)
(* shuts the health server down or cancels a stream.                       *)

OpenStream(s) ==
    /\ server \in {"serving", "stopping"}
    /\ s \notin open /\ open' = open \union {s}
    /\ UNCHANGED <<buffer, caller, ctxDone, pool, server, handled, accepted, taken>>

\* Its client cancels it, half-closes it (reflection) or disconnects.
CloseStream(s) ==
    /\ Up /\ s \in open
    /\ open' = open \ {s}
    /\ UNCHANGED <<buffer, caller, ctxDone, pool, server, handled, accepted, taken>>

----------------------------------------------------------------------------
(* The worker pool.                                                        *)

\* The worker's select: a job, also when the context is done by now ...
Take(w) ==
    /\ Up /\ worker[w] = "idle"
    /\ buffer # <<>>
    /\ buffer' = Tail(buffer)
    /\ holding' = [holding EXCEPT ![w] = Head(buffer)]
    /\ taken' = Append(taken, Head(buffer))
    /\ worker' = [worker EXCEPT ![w] = "busy"]
    /\ UNCHANGED <<calls, server, handled, accepted>>

\* ... or the end of the worker, with whatever is still buffered.
StopWorker(w) ==
    /\ Up /\ worker[w] = "idle"
    /\ server # "serving"
    /\ worker' = [worker EXCEPT ![w] = "stopped"]
    /\ UNCHANGED <<buffer, calls, holding, server, handled, accepted, taken>>

\* Faulty: a handler that fails ends its worker.
DispatchOrDie(w) ==
    /\ Up /\ worker[w] = "busy"
    /\ handled' = [handled EXCEPT ![holding[w]] = @ + 1]
    /\ holding' = [holding EXCEPT ![w] = NoJob]
    /\ \E left \in {"idle", "stopped"} : worker' = [worker EXCEPT ![w] = left]
    /\ UNCHANGED <<buffer, calls, server, accepted, taken>>

\* dispatch: the handler runs to its end; an error is logged, and that is all.
Dispatch(w) ==
    /\ Up /\ worker[w] = "busy"
    /\ handled' = [handled EXCEPT ![holding[w]] = @ + 1]
    /\ holding' = [holding EXCEPT ![w] = NoJob]
    /\ worker' = [worker EXCEPT ![w] = "idle"]
    /\ UNCHANGED <<buffer, calls, server, accepted, taken>>

----------------------------------------------------------------------------
(* The process.                                                            *)

\* SIGTERM: the context of the workers is done while gRPC still serves.
Signal ==
    /\ server = "serving" /\ server' = "stopping"
    /\ UNCHANGED <<buffer, calls, pool, handled, accepted, taken>>

\* Deregistration and the HTTP shutdown are over: GracefulStop refuses calls.
GracefulStop ==
    /\ server = "stopping" /\ server' = "draining"
    /\ UNCHANGED <<buffer, calls, pool, handled, accepted, taken>>

\* GracefulStop waits for every call and stream, with no deadline of its own;
\* then main returns and takes the workers along, whatever they are doing.
Exit ==
    /\ server = "draining" /\ server' = "down"
    /\ \A j \in Jobs : caller[j] # "sending"
    /\ open = {}
    /\ UNCHANGED <<buffer, calls, pool, handled, accepted, taken>>

\* The process is killed.
Crash ==
    /\ Up /\ server' = "down"
    /\ UNCHANGED <<buffer, calls, pool, handled, accepted, taken>>

----------------------------------------------------------------------------
Next ==
    \/ \E j \in Jobs : Call(j) \/ ContextDone(j) \/ Send(j) \/ GiveUp(j)
    \/ \E s \in Streams : OpenStream(s) \/ CloseStream(s)
    \/ \E w \in Workers : Take(w) \/ StopWorker(w) \/ Dispatch(w)
    \/ Signal \/ GracefulStop \/ Exit \/ Crash

Spec == Init /\ [][Next]_vars

\* Handlers end, a worker whose select has a ready case takes one, a call
\* that can go on does, and main runs.  A client need neither call, cancel,
\* set a deadline nor end a stream.
FairSpec ==
    /\ Spec
    /\ \A j \in Jobs : WF_vars(Send(j) \/ GiveUp(j))
    /\ \A w \in Workers : WF_vars(Take(w) \/ StopWorker(w)) /\ WF_vars(Dispatch(w))
    /\ WF_vars(GracefulStop) /\ WF_vars(Exit)

----------------------------------------------------------------------------
ToSet(seq) == {seq[i] : i \in DOMAIN seq}

\* Every variable holds a value of its type, the channel within its capacity.
TypeOK ==
    /\ buffer \in Seq(Jobs) /\ Len(buffer) <= Capacity
    /\ caller \in [Jobs -> {"idle", "sending", "accepted", "refused"}]
    /\ ctxDone \in [Jobs -> BOOLEAN]
    /\ open \subseteq Streams
    /\ worker \in [Workers -> {"idle", "busy", "stopped"}]
    /\ holding \in [Workers -> Jobs \cup {NoJob}]
    /\ server \in {"serving", "stopping", "draining", "down"}
    /\ handled \in [Jobs -> Nat]
    /\ accepted \in Seq(Jobs)
    /\ taken \in Seq(Jobs)

\* Jobs leave the channel in the order they entered it, each once: no job is
\* skipped, taken twice or taken before it was accepted.
FirstInFirstOut == accepted = taken \o buffer

\* No job is in the hands of two workers, or handled again.
HandledOnce ==
    /\ \A j \in Jobs : handled[j] <= 1
    /\ \A w \in Workers : holding[w] # NoJob =>
          /\ handled[holding[w]] = 0
          /\ \A v \in Workers : holding[v] = holding[w] => v = w

StateOf(j) ==
    IF handled[j] > 0 THEN "done"
    ELSE IF caller[j] = "refused" THEN "refused"
    ELSE IF caller[j] # "accepted" THEN "unsent"
    ELSE IF ~Up THEN "lost"
    ELSE IF j \in ToSet(taken) THEN "started" ELSE "accepted"

Delivery == INSTANCE JobDelivery WITH state <- [j \in Jobs |-> StateOf(j)], down <- ~Up

\* The dispatcher delivers each job it accepted once and never again, and
\* loses one only when the process ends.
ImplementsDelivery == Delivery!Spec

\* Until the shutdown, every job that was accepted is handled, whatever
\* becomes of the call that enqueued it and of the jobs before it.
Delivered ==
    \A j \in Jobs : caller[j] = "accepted" ~> handled[j] = 1 \/ server # "serving"

\* Two things alone can hold up the shutdown for good: a call without a
\* deadline, blocked on a full channel that no worker drains any more, or a
\* health or reflection stream whose client stays.
ShutdownEnds ==
    server = "stopping" ~>
        \/ server = "down"
        \/ [](\E j \in Jobs :
                caller[j] = "sending" /\ ~ctxDone[j] /\ Len(buffer) = Capacity)
        \/ \E s \in Streams : [](s \in open)

=============================================================================

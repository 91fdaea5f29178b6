----------------------------- MODULE SopStreams ----------------------------
(* The live SOP streams of one account: the registry of                    *)
(* internal/push/streams.go, the mutex and condition variable of each      *)
(* stream, the server-sent-events requests that read them and the          *)
(* deliveries that broadcast into them.  A step is one critical section;   *)
(* cond.Wait leaves its own and comes back in another.                     *)
EXTENDS Integers, Sequences

CONSTANTS
    Streams,        \* stream ids, each with the request that reads it
    Notifications  \* what is broadcast: a notification, once for each turn of its account

VARIABLES
    registry,    \* the streams registered for the account
    items,       \* each stream's unread notifications
    closed,      \* whether the stream is completed
    handler,     \* where the request of each stream stands
    cancelled,   \* whether the request's context is done
    watcher,     \* whether WaitToRead's goroutine waits for that context
    leftover,    \* the goroutines of earlier WaitToRead calls, stop closed
    begun,       \* the notifications whose broadcast took its snapshot
    targets,     \* the streams each broadcast has yet to write to
    delivered,   \* what each request read, in order
    audience,    \* the registry each broadcast took its snapshot of
    ended        \* the broadcasts that had ended when this one began

stream == <<items, closed>>
request == <<handler, cancelled, watcher, leftover>>
broadcast == <<begun, targets>>
history == <<delivered, audience, ended>>
vars == <<registry, stream, request, broadcast, history>>

Received(s) == delivered[s] \o items[s]
InFlight == {n \in begun : targets[n] # {}}

Init ==
    /\ registry = {}
    /\ items = [s \in Streams |-> <<>>]
    /\ closed = [s \in Streams |-> FALSE]
    /\ handler = [s \in Streams |-> "new"]
    /\ cancelled = [s \in Streams |-> FALSE]
    /\ watcher = [s \in Streams |-> FALSE]
    /\ leftover = [s \in Streams |-> 0]
    /\ begun = {}
    /\ targets = [n \in Notifications |-> {}]
    /\ delivered = [s \in Streams |-> <<>>]
    /\ audience = [n \in Notifications |-> {}]
    /\ ended = [n \in Notifications |-> {}]

Goto(s, label) == handler' = [handler EXCEPT ![s] = label]

\* Signal and Broadcast alike: a stream has one reader to wake.
Wake(s) == handler' = [handler EXCEPT ![s] = IF @ = "waiting" THEN "woken" ELSE @]

----------------------------------------------------------------------------
(* The request that reads the stream: streamBySopToken.                    *)

Subscribe(s) ==
    /\ handler[s] = "new"
    /\ registry' = registry \cup {s}
    /\ Goto(s, "call")
    /\ UNCHANGED <<stream, cancelled, watcher, leftover, broadcast, history>>

\* WaitToRead starts its goroutine, then goes for the mutex.
CallWaitToRead(s) ==
    /\ handler[s] = "call"
    /\ watcher' = [watcher EXCEPT ![s] = TRUE]
    /\ Goto(s, "test")
    /\ UNCHANGED <<registry, stream, cancelled, leftover, broadcast, history>>

\* WaitToRead returns: its goroutine, if still there, finds stop closed.
Return(s, label) ==
    /\ watcher' = [watcher EXCEPT ![s] = FALSE]
    /\ leftover' = [leftover EXCEPT ![s] = IF watcher[s] THEN @ + 1 ELSE @]
    /\ Goto(s, label)

\* Faulty: the reader waits first and tests afterwards.
WaitBeforeTest(s) ==
    /\ handler[s] = "test"
    /\ Goto(s, "waiting")
    /\ UNCHANGED <<registry, stream, cancelled, watcher, leftover, broadcast, history>>

\* The loop's condition: cond.Wait, or return whether there is something.
TestItems(s) ==
    /\ handler[s] = "test"
    /\ IF items[s] = <<>> /\ ~closed[s]
       THEN Goto(s, "waiting") /\ watcher' = watcher /\ leftover' = leftover
       ELSE Return(s, IF items[s] # <<>> THEN "drain" ELSE "leave")
    /\ UNCHANGED <<registry, stream, cancelled, broadcast, history>>

\* cond.Wait returned: a done context ends the call, whatever there is.
WakeUp(s) ==
    /\ handler[s] = "woken"
    /\ IF cancelled[s]
       THEN Return(s, "leave")
       ELSE Goto(s, "test") /\ watcher' = watcher /\ leftover' = leftover
    /\ UNCHANGED <<registry, stream, cancelled, broadcast, history>>

\* Faulty: the newest notification is read first.
TryReadNewest(s) ==
    /\ handler[s] = "drain"
    /\ IF items[s] = <<>>
       THEN Goto(s, "call") /\ items' = items /\ delivered' = delivered
       ELSE /\ delivered' = [delivered EXCEPT ![s] = Append(@, items[s][Len(items[s])])]
            /\ items' = [items EXCEPT ![s] = SubSeq(@, 1, Len(@) - 1)]
            /\ handler' = handler
    /\ UNCHANGED <<registry, closed, cancelled, watcher, leftover, broadcast, audience, ended>>

\* TryRead until there is nothing left, then the next WaitToRead.
TryRead(s) ==
    /\ handler[s] = "drain"
    /\ IF items[s] = <<>>
       THEN Goto(s, "call") /\ items' = items /\ delivered' = delivered
       ELSE /\ delivered' = [delivered EXCEPT ![s] = Append(@, Head(items[s]))]
            /\ items' = [items EXCEPT ![s] = Tail(@)]
            /\ handler' = handler
    /\ UNCHANGED <<registry, closed, cancelled, watcher, leftover, broadcast, audience, ended>>

\* The deferred UnsubscribeSopStream: out of the registry, and completed.
Unsubscribe(s) ==
    /\ handler[s] = "leave"
    /\ registry' = registry \ {s}
    /\ closed' = [closed EXCEPT ![s] = TRUE]
    /\ Goto(s, "gone")
    /\ UNCHANGED <<items, cancelled, watcher, leftover, broadcast, history>>

\* The client disconnects.
Cancel(s) ==
    /\ handler[s] \notin {"new", "gone"} /\ ~cancelled[s]
    /\ cancelled' = [cancelled EXCEPT ![s] = TRUE]
    /\ UNCHANGED <<registry, stream, handler, watcher, leftover, broadcast, history>>

\* The goroutine of the running WaitToRead sees the context done, takes the
\* mutex and wakes the reader - if the reader is waiting by then.
WatcherFires(s) ==
    /\ watcher[s] /\ cancelled[s]
    /\ watcher' = [watcher EXCEPT ![s] = FALSE]
    /\ Wake(s)
    /\ UNCHANGED <<registry, stream, cancelled, leftover, broadcast, history>>

\* The goroutine of an earlier call: stop is closed, and when the context is
\* done as well its select may take either branch.
LeftoverEnds(s) ==
    /\ leftover[s] > 0
    /\ leftover' = [leftover EXCEPT ![s] = @ - 1]
    /\ \/ handler' = handler
       \/ cancelled[s] /\ Wake(s)
    /\ UNCHANGED <<registry, stream, cancelled, watcher, broadcast, history>>

----------------------------------------------------------------------------
(* A delivery that broadcasts the notification: SopStreams.Broadcast.      *)

\* The registry is read under its lock, and written to after its release.
BeginBroadcast(n) ==
    /\ n \notin begun
    /\ begun' = begun \cup {n}
    /\ targets' = [targets EXCEPT ![n] = registry]
    /\ audience' = [audience EXCEPT ![n] = registry]
    /\ ended' = [ended EXCEPT ![n] = begun \ InFlight]
    /\ UNCHANGED <<registry, stream, request, delivered>>

\* Faulty: a completed stream still takes notifications.
TryWriteUnchecked(n, s) ==
    /\ s \in targets[n]
    /\ targets' = [targets EXCEPT ![n] = @ \ {s}]
    /\ items' = [items EXCEPT ![s] = Append(@, n)]
    /\ Wake(s)
    /\ UNCHANGED <<registry, closed, cancelled, watcher, leftover, begun, history>>

\* Faulty: the broadcast gives up at the first completed stream.
TryWriteOrStop(n, s) ==
    /\ s \in targets[n]
    /\ IF closed[s]
       THEN targets' = [targets EXCEPT ![n] = {}] /\ items' = items /\ handler' = handler
       ELSE /\ targets' = [targets EXCEPT ![n] = @ \ {s}]
            /\ items' = [items EXCEPT ![s] = Append(@, n)]
            /\ Wake(s)
    /\ UNCHANGED <<registry, closed, cancelled, watcher, leftover, begun, history>>

\* Faulty: a reader that waits is not signalled.
TryWriteUnsignalled(n, s) ==
    /\ s \in targets[n]
    /\ targets' = [targets EXCEPT ![n] = @ \ {s}]
    /\ items' = IF closed[s] THEN items ELSE [items EXCEPT ![s] = Append(@, n)]
    /\ handler' = handler
    /\ UNCHANGED <<registry, closed, cancelled, watcher, leftover, begun, history>>

\* The streams of the snapshot are written in any order; a completed stream
\* refuses, and the broadcast goes on.
TryWrite(n, s) ==
    /\ s \in targets[n]
    /\ targets' = [targets EXCEPT ![n] = @ \ {s}]
    /\ IF closed[s]
       THEN items' = items /\ handler' = handler
       ELSE items' = [items EXCEPT ![s] = Append(@, n)] /\ Wake(s)
    /\ UNCHANGED <<registry, closed, cancelled, watcher, leftover, begun, history>>

----------------------------------------------------------------------------
Handle(s) ==
    CallWaitToRead(s) \/ TestItems(s) \/ WakeUp(s) \/ TryRead(s) \/ Unsubscribe(s)

Next ==
    \/ \E s \in Streams :
          Subscribe(s) \/ Handle(s) \/ Cancel(s) \/ WatcherFires(s) \/ LeftoverEnds(s)
    \/ \E n \in Notifications :
          BeginBroadcast(n) \/ \E s \in Streams : TryWrite(n, s)

Spec == Init /\ [][Next]_vars

\* Every goroutine that can run gets to run: handlers, watchers, broadcasts.
\* Clients need not connect or disconnect, and deliveries need not begin.
FairSpec ==
    /\ Spec
    /\ \A s \in Streams :
          WF_vars(Handle(s)) /\ WF_vars(WatcherFires(s)) /\ WF_vars(LeftoverEnds(s))
    /\ \A n \in Notifications, s \in Streams : WF_vars(TryWrite(n, s))

----------------------------------------------------------------------------
Labels == {"new", "call", "test", "waiting", "woken", "drain", "leave", "gone"}

\* Every variable holds a value of its type.
TypeOK ==
    /\ registry \in SUBSET Streams
    /\ items \in [Streams -> Seq(Notifications)]
    /\ closed \in [Streams -> BOOLEAN]
    /\ handler \in [Streams -> Labels]
    /\ cancelled \in [Streams -> BOOLEAN]
    /\ watcher \in [Streams -> BOOLEAN]
    /\ leftover \in [Streams -> Nat]
    /\ begun \in SUBSET Notifications
    /\ targets \in [Notifications -> SUBSET Streams]
    /\ delivered \in [Streams -> Seq(Notifications)]
    /\ audience \in [Notifications -> SUBSET Streams]
    /\ ended \in [Notifications -> SUBSET Notifications]

Holds(seq, n) == \E i \in DOMAIN seq : seq[i] = n

\* A broadcast that has ended reached every stream of its snapshot that is
\* still open, although streams subscribe and unsubscribe while it writes.
Reached ==
    \A n \in begun : \A s \in audience[n] \ targets[n] :
        ~closed[s] => Holds(Received(s), n)

\* Each stream gets a notification at most once, and two notifications whose
\* broadcasts did not overlap in the order of their broadcasts.
OnceInOrder ==
    \A s \in Streams : \A i, j \in DOMAIN Received(s) :
        i < j => /\ Received(s)[i] # Received(s)[j]
                 /\ Received(s)[j] \notin ended[Received(s)[i]]

\* A reader waits only while there is nothing to read: no notification is
\* written, and no stream completed, between its test and its wait.
NoMissedSignal == \A s \in Streams : handler[s] = "waiting" => items[s] = <<>> /\ ~closed[s]

----------------------------------------------------------------------------
(* Each stream implements the channel.                                     *)

ReaderOf(s) ==
    IF handler[s] \in {"new", "call"} THEN "away"
    ELSE IF handler[s] \in {"test", "waiting", "woken"} THEN "asking"
    ELSE IF handler[s] = "drain" THEN "reading"
    ELSE "done"

Channel(s) == INSTANCE SopChannel WITH
    queue <- items[s], completed <- closed[s], cancelled <- cancelled[s], reader <- ReaderOf(s)

\* Every stream behaves as a channel that loses, duplicates and reorders
\* nothing and refuses writes once completed, whose WaitToRead is right
\* whenever it answers.
ImplementsChannel ==
    /\ \A s \in Streams : Channel(s)!Init
    /\ [][\A s \in Streams : [Channel(s)!Next]_(Channel(s)!vars)]_vars

\* While its client is connected, what is written to a stream is read.
Served ==
    \A s \in Streams :
        items[s] # <<>> /\ handler[s] # "gone" ~> items[s] = <<>> \/ cancelled[s]

\* WaitToRead answers whenever it has a reason to, a done context included.
WaitToReadAnswers == \A s \in Streams : Channel(s)!Answered

=============================================================================

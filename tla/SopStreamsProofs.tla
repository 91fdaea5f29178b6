-------------------------- MODULE SopStreamsProofs --------------------------
(* Theorems about SopStreams: for any number of streams and broadcasts, no  *)
(* notification is missed by a reader that waits, by an open stream of the  *)
(* snapshot, duplicated or reordered, and each stream is a SopChannel.      *)
EXTENDS SopStreams, SequenceTheorems, TLAPS

(* A stream is completed by the request that leaves it, and by no other.   *)
ClosedWhenGone == \A s \in Streams : closed[s] <=> handler[s] = "gone"

(* A broadcast has targets only once begun, and none once ended.           *)
Broadcasts ==
    /\ \A n \in Notifications : n \notin begun => targets[n] = {}
    /\ \A m, n \in Notifications : n \in ended[m] => n \in begun /\ targets[n] = {}

(* What a stream received was broadcast, and is not to be written again.   *)
WrittenOnce ==
    \A s \in Streams, n \in Notifications :
        Holds(Received(s), n) => n \in begun /\ s \notin targets[n]

IInv ==
    /\ TypeOK /\ ClosedWhenGone /\ Broadcasts /\ WrittenOnce
    /\ NoMissedSignal /\ Reached /\ OnceInOrder

----------------------------------------------------------------------------
(* Reading moves the head from one sequence to the end of the other, and   *)
(* writing appends to what the two make together.                          *)
LEMMA ReadKeepsReceived ==
    ASSUME NEW S, NEW d \in Seq(S), NEW q \in Seq(S), q # <<>>
    PROVE  Append(d, Head(q)) \o Tail(q) = d \o q
<1> DEFINE a == Append(d, Head(q))
<1>1. /\ Head(q) \in S /\ Head(q) = q[1]
      /\ Tail(q) \in Seq(S) /\ Len(Tail(q)) = Len(q) - 1
      /\ \A i \in 1..Len(q) - 1 : Tail(q)[i] = q[i + 1]
      /\ Len(q) \in Nat /\ Len(q) > 0 /\ Len(d) \in Nat
  BY HeadTailProperties, LenProperties, EmptySeq
<1>2. /\ a \in Seq(S) /\ Len(a) = Len(d) + 1
      /\ \A i \in 1..Len(d) : a[i] = d[i]
      /\ a[Len(d) + 1] = q[1]
  BY <1>1, AppendProperties
<1> HIDE DEF a
<1>3. /\ a \o Tail(q) \in Seq(S) /\ d \o q \in Seq(S)
      /\ Len(a \o Tail(q)) = Len(a) + Len(Tail(q)) /\ Len(d \o q) = Len(d) + Len(q)
      /\ Len(a) + Len(Tail(q)) = Len(d) + Len(q)
  <2>1. a \o Tail(q) \in Seq(S) /\ Len(a \o Tail(q)) = Len(a) + Len(Tail(q))
    BY <1>1, <1>2, ConcatProperties
  <2>2. d \o q \in Seq(S) /\ Len(d \o q) = Len(d) + Len(q)
    BY ConcatProperties
  <2> QED
    BY <2>1, <2>2, <1>1, <1>2
<1>4. ASSUME NEW i \in 1..Len(d) + Len(q)
      PROVE  (a \o Tail(q))[i] = (d \o q)[i]
  <2>0. i \in 1..Len(a) + Len(Tail(q))
    BY <1>3
  <2>1. (a \o Tail(q))[i] = IF i <= Len(a) THEN a[i] ELSE Tail(q)[i - Len(a)]
    BY <2>0, <1>1, <1>2, ConcatProperties
  <2>2. (d \o q)[i] = IF i <= Len(d) THEN d[i] ELSE q[i - Len(d)]
    BY <1>1, ConcatProperties
  <2> QED
    BY <2>1, <2>2, <1>1, <1>2
<1> QED
  BY <1>3, <1>4, SeqEqual DEF a

LEMMA WriteAppends ==
    ASSUME NEW S, NEW d \in Seq(S), NEW q \in Seq(S), NEW n \in S
    PROVE  d \o Append(q, n) = Append(d \o q, n)
<1>1. Append(q, n) = q \o <<n>> /\ Append(d \o q, n) = (d \o q) \o <<n>>
  BY AppendIsConcat, ConcatProperties
<1>2. <<n>> \in Seq(S)
  OBVIOUS
<1> QED
  BY <1>1, <1>2, ConcatAssociative

LEMMA HoldsAppended ==
    ASSUME NEW S, NEW q \in Seq(S), NEW n \in S, NEW m
    PROVE  Holds(Append(q, n), m) <=> Holds(q, m) \/ m = n
<1>1. /\ Len(q) \in Nat /\ DOMAIN q = 1..Len(q)
      /\ Append(q, n) \in Seq(S) /\ Len(Append(q, n)) = Len(q) + 1
      /\ \A i \in 1..Len(q) : Append(q, n)[i] = q[i]
      /\ Append(q, n)[Len(q) + 1] = n
  BY AppendProperties, LenProperties
<1>2. DOMAIN Append(q, n) = 1..Len(q) + 1
  BY <1>1, LenProperties
<1> QED
  BY <1>1, <1>2 DEF Holds

----------------------------------------------------------------------------
(* Every variable keeps its type.                                          *)
LEMMA InitTyped == Init => TypeOK
  BY DEF Init, TypeOK, Labels

LEMMA ReturnTyped ==
    ASSUME TypeOK, NEW s \in Streams, NEW label \in Labels, Return(s, label)
    PROVE  /\ watcher' \in [Streams -> BOOLEAN]
           /\ leftover' \in [Streams -> Nat]
           /\ handler' \in [Streams -> Labels]
<1>1. CASE watcher[s]
  BY <1>1 DEF TypeOK, Return, Goto
<1>2. CASE ~watcher[s]
  BY <1>2 DEF TypeOK, Return, Goto
<1> QED
  BY <1>1, <1>2

LEMMA RequestTyped ==
    ASSUME TypeOK, NEW s \in Streams,
           \/ Subscribe(s) \/ CallWaitToRead(s) \/ TestItems(s) \/ WakeUp(s)
           \/ Unsubscribe(s) \/ Cancel(s) \/ WatcherFires(s) \/ LeftoverEnds(s)
    PROVE  TypeOK'
<1> USE DEF TypeOK, Labels, stream, broadcast, history, Goto, Wake
<1>1. CASE Subscribe(s)
  BY <1>1 DEF Subscribe
<1>2. CASE CallWaitToRead(s)
  BY <1>2 DEF CallWaitToRead
<1>3. CASE TestItems(s)
  <2>1. CASE items[s] = <<>> /\ ~closed[s]
    BY <1>3, <2>1 DEF TestItems
  <2>2. CASE ~(items[s] = <<>> /\ ~closed[s])
    <3>1. Return(s, "drain") \/ Return(s, "leave")
      BY <1>3, <2>2 DEF TestItems
    <3> QED
      BY <1>3, <2>2, <3>1, ReturnTyped DEF TestItems
  <2> QED
    BY <2>1, <2>2
<1>4. CASE WakeUp(s)
  <2>1. CASE cancelled[s]
    BY <1>4, <2>1, ReturnTyped DEF WakeUp
  <2>2. CASE ~cancelled[s]
    BY <1>4, <2>2 DEF WakeUp
  <2> QED
    BY <2>1, <2>2
<1>5. CASE Unsubscribe(s)
  BY <1>5 DEF Unsubscribe
<1>6. CASE Cancel(s)
  BY <1>6 DEF Cancel
<1>7. CASE WatcherFires(s)
  BY <1>7 DEF WatcherFires
<1>8. CASE LeftoverEnds(s)
  <2>1. leftover[s] - 1 \in Nat
    BY <1>8 DEF LeftoverEnds
  <2> QED
    BY <1>8, <2>1 DEF LeftoverEnds
<1> QED
  BY <1>1, <1>2, <1>3, <1>4, <1>5, <1>6, <1>7, <1>8

LEMMA TransferTyped ==
    ASSUME TypeOK,
           \/ \E s \in Streams : TryRead(s)
           \/ \E n \in Notifications :
                  BeginBroadcast(n) \/ \E s \in Streams : TryWrite(n, s)
    PROVE  TypeOK'
<1> USE DEF TypeOK, Labels, stream, broadcast, history, Goto, Wake
<1>1. CASE \E s \in Streams : TryRead(s)
  <2> PICK s \in Streams : TryRead(s)
    BY <1>1
  <2>1. items[s] # <<>> => Head(items[s]) \in Notifications /\ Tail(items[s]) \in Seq(Notifications)
    BY HeadTailProperties
  <2>2. items[s] # <<>> => Append(delivered[s], Head(items[s])) \in Seq(Notifications)
    BY <2>1, AppendProperties
  <2> QED
    BY <2>1, <2>2 DEF TryRead
<1>2. ASSUME NEW n \in Notifications, BeginBroadcast(n) PROVE TypeOK'
  BY <1>2 DEF BeginBroadcast, request, InFlight
<1>3. ASSUME NEW n \in Notifications, NEW s \in Streams, TryWrite(n, s) PROVE TypeOK'
  <2>1. Append(items[s], n) \in Seq(Notifications)
    BY AppendProperties
  <2>2. targets' \in [Notifications -> SUBSET Streams]
    BY <1>3 DEF TryWrite
  <2>3. items' \in [Streams -> Seq(Notifications)] /\ handler' \in [Streams -> Labels]
    <3>1. CASE closed[s]
      BY <1>3, <3>1 DEF TryWrite
    <3>2. CASE ~closed[s]
      <4>1. items' = [items EXCEPT ![s] = Append(items[s], n)] /\ Wake(s)
        BY <1>3, <3>2 DEF TryWrite
      <4>2. items' \in [Streams -> Seq(Notifications)]
        BY <4>1, <2>1
      <4>3. handler' \in [Streams -> Labels]
        BY <4>1
      <4> QED
        BY <4>2, <4>3
    <3> QED
      BY <3>1, <3>2
  <2> QED
    BY <1>3, <2>2, <2>3 DEF TryWrite
<1> QED
  BY <1>1, <1>2, <1>3

LEMMA NextTyped == TypeOK /\ [Next]_vars => TypeOK'
<1> SUFFICES ASSUME TypeOK, [Next]_vars PROVE TypeOK'
  OBVIOUS
<1>1. CASE Next
  BY <1>1, RequestTyped, TransferTyped DEF Next, Handle
<1>2. CASE UNCHANGED vars
  BY <1>2 DEF TypeOK, vars, stream, request, broadcast, history
<1> QED
  BY <1>1, <1>2

(* Every variable holds a value of its type.                               *)
THEOREM StreamsTyped == Spec => []TypeOK
  BY InitTyped, NextTyped, PTL DEF Spec

----------------------------------------------------------------------------
(* What each step does to what the streams received.                       *)
Quiet == UNCHANGED <<items, delivered, broadcast, audience, ended>>

LEMMA OnlyTransfersMatter ==
    ASSUME NEW s \in Streams,
           \/ Subscribe(s) \/ CallWaitToRead(s) \/ TestItems(s) \/ WakeUp(s)
           \/ Unsubscribe(s) \/ Cancel(s) \/ WatcherFires(s) \/ LeftoverEnds(s)
    PROVE  Quiet
  BY DEF Subscribe, CallWaitToRead, TestItems, WakeUp, Unsubscribe, Cancel, WatcherFires,
         LeftoverEnds, Quiet, stream, broadcast, history

LEMMA ReadKeeps ==
    ASSUME TypeOK, NEW s \in Streams, TryRead(s)
    PROVE  \A t \in Streams : Received(t)' = Received(t)
<1>1. CASE items[s] = <<>>
  BY <1>1 DEF TryRead, Received
<1>2. CASE items[s] # <<>>
  <2>1. delivered' = [delivered EXCEPT ![s] = Append(delivered[s], Head(items[s]))]
        /\ items' = [items EXCEPT ![s] = Tail(items[s])]
    BY <1>2 DEF TryRead
  <2>2. Append(delivered[s], Head(items[s])) \o Tail(items[s]) = delivered[s] \o items[s]
    BY <1>2, ReadKeepsReceived DEF TypeOK
  <2> QED
    BY <2>1, <2>2 DEF TypeOK, Received
<1> QED
  BY <1>1, <1>2

LEMMA WriteAdds ==
    ASSUME TypeOK, NEW n \in Notifications, NEW s \in Streams, TryWrite(n, s)
    PROVE  /\ \A t \in Streams \ {s} : Received(t)' = Received(t)
           /\ Received(s)' = IF closed[s] THEN Received(s) ELSE Append(Received(s), n)
<1>1. delivered' = delivered /\ \A t \in Streams \ {s} : items'[t] = items[t]
  BY DEF TryWrite, history, TypeOK
<1>2. items'[s] = IF closed[s] THEN items[s] ELSE Append(items[s], n)
  BY DEF TryWrite, TypeOK
<1>3. delivered[s] \o Append(items[s], n) = Append(delivered[s] \o items[s], n)
  BY WriteAppends DEF TypeOK
<1> QED
  BY <1>1, <1>2, <1>3 DEF Received

LEMMA ReceivedTyped ==
    ASSUME TypeOK PROVE \A s \in Streams : Received(s) \in Seq(Notifications)
  BY ConcatProperties DEF TypeOK, Received

----------------------------------------------------------------------------
(* The invariant holds at first, and every step keeps each part of it.     *)
LEMMA InitInvariant == Init => IInv
<1> SUFFICES ASSUME Init PROVE IInv
  OBVIOUS
<1>1. TypeOK
  BY InitTyped
<1>2. \A s \in Streams : Received(s) = <<>>
  BY EmptySeq, ConcatEmptySeq DEF Init, Received
<1>3. \A s \in Streams : \A n : ~Holds(Received(s), n)
  BY <1>2 DEF Holds
<1> QED
  BY <1>1, <1>2, <1>3
     DEF Init, IInv, ClosedWhenGone, Broadcasts, WrittenOnce, NoMissedSignal, Reached, OnceInOrder

LEMMA SignalsKept ==
    ASSUME IInv, [Next]_vars
    PROVE  ClosedWhenGone' /\ NoMissedSignal'
<1> USE DEF IInv, ClosedWhenGone, NoMissedSignal, TypeOK, Labels, stream, request, broadcast,
            history, Goto
<1>1. ASSUME NEW s \in Streams, Subscribe(s) \/ CallWaitToRead(s) \/ Cancel(s) \/ Unsubscribe(s)
      PROVE  ClosedWhenGone' /\ NoMissedSignal'
  <2>1. CASE Subscribe(s)
    BY <2>1 DEF Subscribe
  <2>2. CASE CallWaitToRead(s)
    BY <2>2 DEF CallWaitToRead
  <2>3. CASE Cancel(s)
    BY <2>3 DEF Cancel
  <2>4. CASE Unsubscribe(s)
    <3>1. /\ closed'[s] = TRUE /\ handler'[s] = "gone"
          /\ \A t \in Streams \ {s} : closed'[t] = closed[t] /\ handler'[t] = handler[t]
          /\ items' = items
      BY <2>4 DEF Unsubscribe
    <3> QED
      BY <3>1
  <2> QED
    BY <1>1, <2>1, <2>2, <2>3, <2>4
<1>2. ASSUME NEW s \in Streams, TestItems(s) \/ WakeUp(s)
      PROVE  ClosedWhenGone' /\ NoMissedSignal'
  <2>1. items' = items /\ closed' = closed
    BY <1>2 DEF TestItems, WakeUp
  <2>2. \E label \in Labels \ {"gone", "new"} :
            /\ handler' = [handler EXCEPT ![s] = label]
            /\ label = "waiting" => items[s] = <<>> /\ ~closed[s]
    BY <1>2 DEF TestItems, WakeUp, Return
  <2>3. handler[s] # "gone"
    BY <1>2 DEF TestItems, WakeUp
  <2> QED
    BY <2>1, <2>2, <2>3
<1>3. ASSUME NEW s \in Streams, TryRead(s)
      PROVE  ClosedWhenGone' /\ NoMissedSignal'
  BY <1>3 DEF TryRead
<1>4. ASSUME NEW s \in Streams, WatcherFires(s) \/ LeftoverEnds(s)
      PROVE  ClosedWhenGone' /\ NoMissedSignal'
  <2>1. items' = items /\ closed' = closed
    BY <1>4 DEF WatcherFires, LeftoverEnds
  <2>2. handler' = handler \/ Wake(s)
    BY <1>4 DEF WatcherFires, LeftoverEnds
  <2> QED
    BY <2>1, <2>2 DEF Wake
<1>5. ASSUME NEW n \in Notifications, BeginBroadcast(n)
      PROVE  ClosedWhenGone' /\ NoMissedSignal'
  BY <1>5 DEF BeginBroadcast
<1>6. ASSUME NEW n \in Notifications, NEW s \in Streams, TryWrite(n, s)
      PROVE  ClosedWhenGone' /\ NoMissedSignal'
  <2>1. CASE closed[s]
    BY <1>6, <2>1 DEF TryWrite
  <2>2. CASE ~closed[s]
    <3>1. /\ items' = [items EXCEPT ![s] = Append(items[s], n)]
          /\ closed' = closed
          /\ handler' = [handler EXCEPT ![s] = IF @ = "waiting" THEN "woken" ELSE @]
      BY <1>6, <2>2 DEF TryWrite, Wake
    <3>2. handler'[s] # "waiting"
      BY <3>1
    <3>3. \A t \in Streams \ {s} : handler'[t] = handler[t] /\ items'[t] = items[t]
      BY <3>1
    <3>4. handler'[s] = "gone" <=> handler[s] = "gone"
      BY <3>1
    <3> QED
      BY <3>1, <3>2, <3>3, <3>4
  <2> QED
    BY <2>1, <2>2
<1>7. CASE UNCHANGED vars
  BY <1>7 DEF vars
<1> QED
  BY <1>1, <1>2, <1>3, <1>4, <1>5, <1>6, <1>7 DEF Next, Handle

LEMMA BroadcastsKept ==
    ASSUME IInv, [Next]_vars
    PROVE  Broadcasts'
<1> USE DEF IInv, Broadcasts, TypeOK
<1>1. ASSUME NEW n \in Notifications, BeginBroadcast(n) PROVE Broadcasts'
  BY <1>1 DEF BeginBroadcast, InFlight
<1>2. ASSUME NEW n \in Notifications, NEW s \in Streams, TryWrite(n, s) PROVE Broadcasts'
  <2>1. /\ begun' = begun /\ ended' = ended
        /\ targets' = [targets EXCEPT ![n] = targets[n] \ {s}]
    BY <1>2 DEF TryWrite, history
  <2> QED
    BY <2>1
<1>3. ASSUME NEW s \in Streams, TryRead(s) PROVE Broadcasts'
  BY <1>3 DEF TryRead, broadcast
<1>4. ASSUME Quiet PROVE Broadcasts'
  BY <1>4 DEF Quiet, broadcast
<1>5. CASE UNCHANGED vars
  BY <1>5 DEF vars, broadcast, history
<1> QED
  BY <1>1, <1>2, <1>3, <1>4, <1>5, OnlyTransfersMatter DEF Next, Handle

(* A step that leaves the streams, the broadcasts and their histories as    *)
(* they are, and completes no stream but its own.                          *)
LEMMA ReceivedKept ==
    ASSUME IInv, \A t \in Streams : Received(t)' = Received(t),
           UNCHANGED <<broadcast, audience, ended>>,
           \A t \in Streams : closed[t] => closed'[t]
    PROVE  WrittenOnce' /\ Reached' /\ OnceInOrder'
  BY DEF IInv, WrittenOnce, Reached, OnceInOrder, broadcast, TypeOK

LEMMA DeliveriesKept ==
    ASSUME IInv, [Next]_vars
    PROVE  WrittenOnce' /\ Reached' /\ OnceInOrder'
<1> USE DEF IInv
<1>1. ASSUME NEW n \in Notifications, BeginBroadcast(n)
      PROVE  WrittenOnce' /\ Reached' /\ OnceInOrder'
  <2>1. /\ \A t \in Streams : Received(t)' = Received(t)
        /\ begun' = begun \union {n} /\ n \notin begun /\ closed' = closed
        /\ targets'[n] = registry /\ audience'[n] = registry
        /\ \A m \in Notifications \ {n} :
               targets'[m] = targets[m] /\ audience'[m] = audience[m] /\ ended'[m] = ended[m]
    BY <1>1 DEF BeginBroadcast, stream, Received, TypeOK
  <2>2. WrittenOnce'
    BY <2>1 DEF WrittenOnce
  <2>3. Reached'
    BY <2>1 DEF Reached, TypeOK
  <2>4. ASSUME NEW t \in Streams, NEW i \in DOMAIN Received(t) PROVE Received(t)[i] \in Notifications \ {n}
    <3>1. Received(t)[i] \in Notifications
      BY ReceivedTyped, ElementOfSeq, LenProperties
    <3>2. Holds(Received(t), Received(t)[i])
      BY DEF Holds
    <3> QED
      BY <3>1, <3>2, <2>1 DEF WrittenOnce
  <2>5. OnceInOrder'
    BY <2>1, <2>4 DEF OnceInOrder
  <2> QED
    BY <2>2, <2>3, <2>5
<1>2. ASSUME NEW n \in Notifications, NEW s \in Streams, TryWrite(n, s)
      PROVE  WrittenOnce' /\ Reached' /\ OnceInOrder'
  <2> DEFINE old == Received(s)
             new == Received(s)'
  <2>1. /\ begun' = begun /\ ended' = ended /\ audience' = audience /\ closed' = closed
        /\ targets' = [targets EXCEPT ![n] = targets[n] \ {s}] /\ s \in targets[n]
    BY <1>2 DEF TryWrite, history
  <2>2. \A t \in Streams \ {s} : Received(t)' = Received(t)
    BY <1>2, WriteAdds
  <2>3. new = IF closed[s] THEN old ELSE Append(old, n)
    BY <1>2, WriteAdds
  <2>4. old \in Seq(Notifications) /\ ~Holds(old, n) /\ n \in begun
    BY <2>1, ReceivedTyped DEF WrittenOnce, Broadcasts
  <2>5. \A m : Holds(new, m) <=> Holds(old, m) \/ (~closed[s] /\ m = n)
    BY <2>3, <2>4, HoldsAppended
  <2>6. \A m \in Notifications :
            targets'[m] = IF m = n THEN targets[n] \ {s} ELSE targets[m]
    BY <2>1 DEF TypeOK
  <2>7. WrittenOnce'
    BY <2>1, <2>2, <2>4, <2>5, <2>6 DEF WrittenOnce
  <2>8. Reached'
    BY <2>1, <2>2, <2>5, <2>6 DEF Reached, TypeOK
  <2>9. ASSUME NEW t \in Streams, NEW i \in DOMAIN Received(t)', NEW j \in DOMAIN Received(t)', i < j
        PROVE  /\ Received(t)'[i] # Received(t)'[j]
               /\ Received(t)'[j] \notin ended[Received(t)'[i]]
    <3>1. CASE t # s \/ closed[s]
      BY <2>2, <2>3, <2>9, <3>1 DEF OnceInOrder
    <3>2. CASE t = s /\ ~closed[s]
      <4>1. /\ new = Append(old, n) /\ Len(old) \in Nat /\ DOMAIN old = 1..Len(old)
            /\ DOMAIN new = 1..Len(old) + 1
            /\ \A k \in 1..Len(old) : new[k] = old[k]
            /\ new[Len(old) + 1] = n
        BY <2>3, <2>4, <3>2, AppendProperties, LenProperties
      <4>2. CASE j \in 1..Len(old)
        BY <2>9, <3>2, <4>1, <4>2 DEF OnceInOrder
      <4>3. CASE j = Len(old) + 1
        <5>1. i \in DOMAIN old /\ new[i] = old[i] /\ new[j] = n
          BY <2>9, <3>2, <4>1, <4>3
        <5>2. Holds(old, old[i]) /\ old[i] \in Notifications
          BY <5>1, <2>4, <4>1, ElementOfSeq DEF Holds
        <5>3. n \notin ended[old[i]]
          BY <5>2, <2>1 DEF Broadcasts
        <5> QED
          BY <5>1, <5>2, <5>3, <2>4, <3>2
      <4> QED
        BY <2>9, <3>2, <4>1, <4>2, <4>3
    <3> QED
      BY <3>1, <3>2
  <2>10. OnceInOrder'
    BY <2>1, <2>9 DEF OnceInOrder
  <2> QED
    BY <2>7, <2>8, <2>10
<1>3. ASSUME NEW s \in Streams, TryRead(s)
      PROVE  WrittenOnce' /\ Reached' /\ OnceInOrder'
  <2>1. UNCHANGED <<broadcast, audience, ended, closed>>
    BY <1>3 DEF TryRead
  <2> QED
    BY <1>3, <2>1, ReadKeeps, ReceivedKept
<1>4. ASSUME NEW s \in Streams, Quiet, closed' = closed \/ Unsubscribe(s)
      PROVE  WrittenOnce' /\ Reached' /\ OnceInOrder'
  <2>1. \A t \in Streams : Received(t)' = Received(t)
    BY <1>4 DEF Quiet, Received
  <2>2. \A t \in Streams : closed[t] => closed'[t]
    BY <1>4 DEF Unsubscribe, TypeOK
  <2> QED
    BY <1>4, <2>1, <2>2, ReceivedKept DEF Quiet
<1>5. ASSUME NEW s \in Streams,
             \/ Subscribe(s) \/ CallWaitToRead(s) \/ TestItems(s) \/ WakeUp(s)
             \/ Cancel(s) \/ WatcherFires(s) \/ LeftoverEnds(s)
      PROVE  closed' = closed
  BY <1>5 DEF Subscribe, CallWaitToRead, TestItems, WakeUp, Cancel, WatcherFires, LeftoverEnds, stream
<1>6. CASE UNCHANGED vars
  <2>1. \A t \in Streams : Received(t)' = Received(t)
    BY <1>6 DEF vars, stream, history, Received
  <2> QED
    BY <1>6, <2>1, ReceivedKept DEF vars, stream, history
<1> QED
  BY <1>1, <1>2, <1>3, <1>4, <1>5, <1>6, OnlyTransfersMatter DEF Next, Handle

LEMMA NextInvariant == IInv /\ [Next]_vars => IInv'
  BY NextTyped, SignalsKept, BroadcastsKept, DeliveriesKept DEF IInv

LEMMA Invariant == Spec => []IInv
  BY InitInvariant, NextInvariant, PTL DEF Spec

(* A broadcast that has ended reached every stream of its snapshot that is *)
(* still open, whoever subscribed and unsubscribed meanwhile.              *)
THEOREM BroadcastsReach == Spec => []Reached
  BY Invariant, PTL DEF IInv

(* A stream gets a notification at most once, and those of broadcasts that *)
(* did not overlap in their order.                                         *)
THEOREM StreamsKeepOrder == Spec => []OnceInOrder
  BY Invariant, PTL DEF IInv

(* A request never waits on a stream that has something to read or is      *)
(* completed: no signal falls between its test and its wait.               *)
THEOREM SignalsAreNotMissed == Spec => []NoMissedSignal
  BY Invariant, PTL DEF IInv

----------------------------------------------------------------------------
(* Each stream is a channel.                                               *)
ChannelStep(t) == [Channel(t)!Next]_(Channel(t)!vars)

Same(t) ==
    /\ items'[t] = items[t] /\ closed'[t] = closed[t] /\ cancelled'[t] = cancelled[t]
    /\ ReaderOf(t)' = ReaderOf(t)

LEMMA SameIsStep == ASSUME NEW t \in Streams, Same(t) PROVE ChannelStep(t)
  BY DEF Same, ChannelStep, Channel!vars

LEMMA ChannelInit == Init => \A s \in Streams : Channel(s)!Init
  BY DEF Channel!Init, Init, ReaderOf

(* A wait that is over, or a wakened test, is still the same question; an   *)
(* answer is right by the test it comes from.                              *)
LEMMA RequestImplements ==
    ASSUME IInv, NEW s \in Streams,
           \/ Subscribe(s) \/ CallWaitToRead(s) \/ TestItems(s) \/ WakeUp(s) \/ TryRead(s)
           \/ Unsubscribe(s) \/ Cancel(s) \/ WatcherFires(s) \/ LeftoverEnds(s),
           NEW t \in Streams
    PROVE  ChannelStep(t)
<1> USE DEF IInv, TypeOK, stream, Goto, ReaderOf
<1>1. CASE t # s
  <2>1. Same(t)
    <3>1. CASE Subscribe(s) \/ CallWaitToRead(s) \/ TryRead(s) \/ Unsubscribe(s) \/ Cancel(s)
      BY <1>1, <3>1 DEF Subscribe, CallWaitToRead, TryRead, Unsubscribe, Cancel, Same
    <3>2. CASE TestItems(s) \/ WakeUp(s)
      BY <1>1, <3>2 DEF TestItems, WakeUp, Return, Same
    <3>3. CASE WatcherFires(s) \/ LeftoverEnds(s)
      BY <1>1, <3>3 DEF WatcherFires, LeftoverEnds, Wake, Same
    <3> QED
      BY <3>1, <3>2, <3>3
  <2> QED
    BY <2>1, SameIsStep
<1>2. CASE t = s
  <2>1. CASE Subscribe(s)
    <3>1. Same(s)
      BY <2>1 DEF Subscribe, Same
    <3> QED
      BY <1>2, <3>1, SameIsStep
  <2>2. CASE CallWaitToRead(s)
    <3>1. Channel(s)!Ask
      BY <2>2 DEF CallWaitToRead, Channel!Ask
    <3> QED
      BY <1>2, <3>1 DEF ChannelStep, Channel!Next
  <2>3. CASE TestItems(s)
    <3>1. CASE items[s] = <<>> /\ ~closed[s]
      <4>1. Same(s)
        BY <2>3, <3>1 DEF TestItems, Same
      <4> QED
        BY <1>2, <4>1, SameIsStep
    <3>2. CASE items[s] # <<>>
      <4>1. Channel(s)!AnswerTrue
        BY <2>3, <3>2 DEF TestItems, Return, Channel!AnswerTrue
      <4> QED
        BY <1>2, <4>1 DEF ChannelStep, Channel!Next
    <3>3. CASE items[s] = <<>> /\ closed[s]
      <4>1. Channel(s)!AnswerFalse
        BY <2>3, <3>3 DEF TestItems, Return, Channel!AnswerFalse
      <4> QED
        BY <1>2, <4>1 DEF ChannelStep, Channel!Next
    <3> QED
      BY <3>1, <3>2, <3>3
  <2>4. CASE WakeUp(s)
    <3>1. CASE cancelled[s]
      <4>1. Channel(s)!AnswerFalse
        BY <2>4, <3>1 DEF WakeUp, Return, Channel!AnswerFalse
      <4> QED
        BY <1>2, <4>1 DEF ChannelStep, Channel!Next
    <3>2. CASE ~cancelled[s]
      <4>1. Same(s)
        BY <2>4, <3>2 DEF WakeUp, Same
      <4> QED
        BY <1>2, <4>1, SameIsStep
    <3> QED
      BY <3>1, <3>2
  <2>5. CASE TryRead(s)
    <3>1. Channel(s)!Read
      BY <2>5 DEF TryRead, Channel!Read
    <3> QED
      BY <1>2, <3>1 DEF ChannelStep, Channel!Next
  <2>6. CASE Unsubscribe(s)
    <3>1. Channel(s)!Complete
      BY <2>6 DEF Unsubscribe, Channel!Complete
    <3> QED
      BY <1>2, <3>1 DEF ChannelStep, Channel!Next
  <2>7. CASE Cancel(s)
    <3>1. Channel(s)!Cancel
      BY <2>7 DEF Cancel, Channel!Cancel
    <3> QED
      BY <1>2, <3>1 DEF ChannelStep, Channel!Next
  <2>8. CASE WatcherFires(s) \/ LeftoverEnds(s)
    <3>1. /\ items' = items /\ closed' = closed /\ cancelled' = cancelled
          /\ handler' = handler \/ Wake(s)
      BY <2>8 DEF WatcherFires, LeftoverEnds
    <3>2. Same(s)
      BY <3>1 DEF Same, Wake
    <3> QED
      BY <1>2, <3>2, SameIsStep
  <2> QED
    BY <2>1, <2>2, <2>3, <2>4, <2>5, <2>6, <2>7, <2>8
<1> QED
  BY <1>1, <1>2

LEMMA TryWriteImplements ==
    ASSUME IInv, NEW n \in Notifications, NEW s \in Streams, TryWrite(n, s), NEW t \in Streams
    PROVE  ChannelStep(t)
<1> USE DEF IInv, TypeOK, ReaderOf, TryWrite, Wake
<1>1. CASE t # s \/ closed[s]
  <2>1. Same(t)
    BY <1>1 DEF Same
  <2> QED
    BY <2>1, SameIsStep
<1>2. CASE t = s /\ ~closed[s]
  <2>1. items'[s] = Append(items[s], n) /\ closed' = closed /\ cancelled' = cancelled
    BY <1>2
  <2>2. ReaderOf(s)' = ReaderOf(s)
    BY <1>2
  <2>3. Channel(s)!Write
    BY <1>2, <2>1, <2>2 DEF Channel!Write
  <2> QED
    BY <1>2, <2>3 DEF ChannelStep, Channel!Next
<1> QED
  BY <1>1, <1>2

LEMMA NextImplements ==
    ASSUME IInv, [Next]_vars PROVE \A t \in Streams : ChannelStep(t)
<1>1. ASSUME NEW n \in Notifications, BeginBroadcast(n), NEW t \in Streams PROVE ChannelStep(t)
  BY <1>1, SameIsStep DEF BeginBroadcast, stream, request, Same, ReaderOf
<1>2. ASSUME UNCHANGED vars, NEW t \in Streams PROVE ChannelStep(t)
  BY <1>2, SameIsStep DEF vars, stream, request, Same, ReaderOf
<1> QED
  BY <1>1, <1>2, RequestImplements, TryWriteImplements DEF Next, Handle

(* Every stream behaves as a first-in first-out channel that loses and     *)
(* duplicates nothing, refuses writes once completed, and whose WaitToRead  *)
(* is right whenever it answers (streams.go 24-98).                        *)
THEOREM StreamsAreChannels == Spec => ImplementsChannel
<1>1. IInv /\ [Next]_vars => \A s \in Streams : [Channel(s)!Next]_(Channel(s)!vars)
  BY NextImplements DEF ChannelStep
<1>2. Spec => [][\A s \in Streams : [Channel(s)!Next]_(Channel(s)!vars)]_vars
  BY <1>1, Invariant, PTL DEF Spec
<1> QED
  BY <1>2, ChannelInit DEF ImplementsChannel, Spec

=============================================================================

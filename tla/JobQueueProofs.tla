--------------------------- MODULE JobQueueProofs --------------------------
(* What holds of the dispatcher for any number of jobs and workers and any *)
(* capacity, proved with TLAPS.                                            *)
EXTENDS JobQueue, SequenceTheorems, TLAPS

----------------------------------------------------------------------------
LEMMA TypeInit == Init => TypeOK
BY QueueConstants DEF Init, TypeOK

LEMMA TypeCalls ==
    ASSUME TypeOK, NEW j \in Jobs, Call(j) \/ ContextDone(j) \/ Send(j) \/ GiveUp(j)
    PROVE  TypeOK'
<1>1. CASE Call(j)
  BY <1>1 DEF Call, TypeOK, pool
<1>2. CASE ContextDone(j)
  BY <1>2 DEF ContextDone, TypeOK, pool
<1>3. CASE Send(j)
  <2>1. Append(buffer, j) \in Seq(Jobs) /\ Len(Append(buffer, j)) = Len(buffer) + 1
    BY DEF TypeOK
  <2>2. Len(buffer) < Capacity /\ Len(buffer) \in Nat
    BY <1>3 DEF Send, TypeOK
  <2>3. Len(Append(buffer, j)) <= Capacity
    BY <2>1, <2>2, QueueConstants
  <2> QED
    BY <1>3, <2>1, <2>3 DEF Send, TypeOK, pool
<1>4. CASE GiveUp(j)
  BY <1>4 DEF GiveUp, TypeOK, pool
<1> QED
  BY <1>1, <1>2, <1>3, <1>4

LEMMA TypePool ==
    ASSUME TypeOK, NEW w \in Workers, Take(w) \/ StopWorker(w) \/ Dispatch(w)
    PROVE  TypeOK'
<1>1. CASE Take(w)
  <2>1. buffer # <<>> /\ buffer \in Seq(Jobs)
    BY <1>1 DEF Take, TypeOK
  <2>2. /\ Head(buffer) \in Jobs /\ Tail(buffer) \in Seq(Jobs)
        /\ Len(Tail(buffer)) = Len(buffer) - 1
        /\ Len(buffer) \in Nat
    BY <2>1
  <2>3. Len(Tail(buffer)) <= Capacity
    BY <2>2, QueueConstants DEF TypeOK
  <2> QED
    BY <1>1, <2>2, <2>3 DEF Take, TypeOK, calls
<1>2. CASE StopWorker(w)
  BY <1>2 DEF StopWorker, TypeOK, calls
<1>3. CASE Dispatch(w)
  <2>1. handled' \in [Jobs -> Nat]
    <3> DEFINE j == holding[w]
    <3>1. handled \in [Jobs -> Nat] /\ handled' = [handled EXCEPT ![j] = handled[j] + 1]
      BY <1>3 DEF Dispatch, TypeOK
    <3> HIDE DEF j
    <3>2. CASE j \in Jobs
      BY <3>1, <3>2
    <3>3. CASE j \notin Jobs
      BY <3>1, <3>3
    <3> QED
      BY <3>2, <3>3
  <2> QED
    BY <1>3, <2>1 DEF Dispatch, TypeOK, calls
<1> QED
  BY <1>1, <1>2, <1>3

LEMMA TypeStreams ==
    ASSUME TypeOK, NEW s \in Streams, OpenStream(s) \/ CloseStream(s)
    PROVE  TypeOK'
BY DEF OpenStream, CloseStream, TypeOK, pool

LEMMA TypeProcess ==
    ASSUME TypeOK, Signal \/ GracefulStop \/ Exit \/ Crash
    PROVE  TypeOK'
BY DEF Signal, GracefulStop, Exit, Crash, TypeOK, calls, pool

LEMMA TypeNext == TypeOK /\ [Next]_vars => TypeOK'
<1> SUFFICES ASSUME TypeOK, [Next]_vars PROVE TypeOK'
  OBVIOUS
<1>1. CASE UNCHANGED vars
  BY <1>1 DEF vars, TypeOK, calls, pool
<1> QED
  BY <1>1, TypeCalls, TypeStreams, TypePool, TypeProcess DEF Next

\* Every variable keeps its type; in particular the channel never holds more
\* jobs than its capacity, however many calls send at once.
THEOREM QueueTyped == Spec => []TypeOK
BY TypeInit, TypeNext, PTL DEF Spec

----------------------------------------------------------------------------
LEMMA AppendToTail ==
    ASSUME NEW S, NEW s \in Seq(S), NEW t \in Seq(S), NEW u \in Seq(S), NEW x \in S,
           u = s \o t
    PROVE  Append(u, x) = s \o Append(t, x)
<1> DEFINE left == Append(u, x)
           right == s \o Append(t, x)
<1>1. left \in Seq(S) /\ right \in Seq(S) /\ Append(t, x) \in Seq(S)
  OBVIOUS
<1>2. Len(left) = Len(right)
  BY <1>1
<1>3. ASSUME NEW i \in 1..Len(left) PROVE left[i] = right[i]
  <2>1. Len(left) = Len(s) + Len(t) + 1 /\ Len(s) \in Nat /\ Len(t) \in Nat
    BY <1>1
  <2>2. CASE i = Len(left)
    BY <1>1, <2>1, <2>2
  <2>3. CASE i # Len(left)
    BY <1>1, <2>1, <2>3
  <2> QED
    BY <2>2, <2>3
<1> HIDE DEF left, right
<1>4. left = right
  BY <1>1, <1>2, <1>3, SeqEqual
<1> QED
  BY <1>4 DEF left, right

LEMMA MoveHead ==
    ASSUME NEW S, NEW s \in Seq(S), NEW t \in Seq(S), t # <<>>
    PROVE  Append(s, Head(t)) \o Tail(t) = s \o t
<1>1. /\ Head(t) \in S /\ Tail(t) \in Seq(S) /\ Len(Tail(t)) = Len(t) - 1
      /\ Len(t) \in Nat \ {0} /\ Len(s) \in Nat
      /\ \A i \in 1..Len(Tail(t)) : Tail(t)[i] = t[i + 1]
  OBVIOUS
<1>2. /\ Append(s, Head(t)) \in Seq(S) /\ Append(s, Head(t)) \o Tail(t) \in Seq(S)
      /\ s \o t \in Seq(S)
  BY <1>1
<1>3. Len(Append(s, Head(t)) \o Tail(t)) = Len(s \o t)
  BY <1>1, <1>2
<1>4. \A i \in 1..Len(s \o t) : (Append(s, Head(t)) \o Tail(t))[i] = (s \o t)[i]
  BY <1>1, <1>2
<1> QED
  BY <1>2, <1>3, <1>4, SeqEqual

LEMMA OrderKept == TypeOK /\ FirstInFirstOut /\ [Next]_vars => FirstInFirstOut'
<1> SUFFICES ASSUME TypeOK, FirstInFirstOut, [Next]_vars PROVE FirstInFirstOut'
  OBVIOUS
<1>1. buffer \in Seq(Jobs) /\ taken \in Seq(Jobs) /\ accepted = taken \o buffer
  BY DEF TypeOK, FirstInFirstOut
<1>2. ASSUME NEW j \in Jobs, Send(j) PROVE FirstInFirstOut'
  <2>1. accepted' = Append(accepted, j) /\ buffer' = Append(buffer, j) /\ taken' = taken
    BY <1>2 DEF Send
  <2>2. accepted \in Seq(Jobs)
    BY DEF TypeOK
  <2>3. Append(accepted, j) = taken \o Append(buffer, j)
    BY <1>1, <2>2, AppendToTail
  <2> QED
    BY <2>1, <2>3 DEF FirstInFirstOut
<1>3. ASSUME NEW w \in Workers, Take(w) PROVE FirstInFirstOut'
  <2>1. /\ buffer # <<>> /\ accepted' = accepted
        /\ taken' = Append(taken, Head(buffer)) /\ buffer' = Tail(buffer)
    BY <1>3 DEF Take
  <2>2. Append(taken, Head(buffer)) \o Tail(buffer) = taken \o buffer
    BY <1>1, <2>1, MoveHead
  <2> QED
    BY <1>1, <2>1, <2>2 DEF FirstInFirstOut
<1>4. CASE UNCHANGED <<accepted, taken, buffer>>
  BY <1>4 DEF FirstInFirstOut
<1> QED
  BY <1>2, <1>3, <1>4 DEF Next, Call, ContextDone, GiveUp, OpenStream, CloseStream,
     StopWorker, Dispatch, Signal, GracefulStop, Exit, Crash, vars

\* Jobs leave the channel in the order they were accepted, none skipped and
\* none twice, for every capacity, worker pool and number of calls.
THEOREM QueueIsFirstInFirstOut == Spec => []FirstInFirstOut
<1>1. Init => FirstInFirstOut
  BY DEF Init, FirstInFirstOut
<1> QED
  BY <1>1, TypeInit, TypeNext, OrderKept, PTL DEF Spec

----------------------------------------------------------------------------
(* A job is in one place: with its caller, in the channel, with a worker,  *)
(* or handled.                                                             *)

Buffered(j) == \E i \in DOMAIN buffer : buffer[i] = j

OnePlace ==
    /\ \A i, k \in DOMAIN buffer : buffer[i] = buffer[k] => i = k
    /\ \A j \in Jobs : Buffered(j) =>
          /\ caller[j] = "accepted" /\ handled[j] = 0
          /\ \A w \in Workers : holding[w] # j
    /\ \A w \in Workers :
          /\ worker[w] = "busy" <=> holding[w] # NoJob
          /\ holding[w] # NoJob => caller[holding[w]] = "accepted"
    /\ \A j \in Jobs : handled[j] > 0 => caller[j] = "accepted"

QueueInv == TypeOK /\ OnePlace /\ HandledOnce

LEMMA PlaceSend ==
    ASSUME QueueInv, NEW j \in Jobs, Send(j)
    PROVE  OnePlace' /\ HandledOnce'
<1>1. /\ buffer \in Seq(Jobs) /\ Len(buffer) \in Nat
      /\ caller \in [Jobs -> {"idle", "sending", "accepted", "refused"}]
      /\ handled \in [Jobs -> Nat] /\ holding \in [Workers -> Jobs \cup {NoJob}]
  BY DEF QueueInv, TypeOK
<1>2. /\ caller[j] = "sending" /\ caller' = [caller EXCEPT ![j] = "accepted"]
      /\ buffer' = Append(buffer, j)
      /\ UNCHANGED <<handled, worker, holding>>
  BY DEF Send, pool
<1>3. /\ DOMAIN buffer' = 1..(Len(buffer) + 1) /\ DOMAIN buffer = 1..Len(buffer)
      /\ \A i \in 1..Len(buffer) : buffer'[i] = buffer[i]
      /\ buffer'[Len(buffer) + 1] = j
  BY <1>1, <1>2
<1>4. ~Buffered(j) /\ handled[j] = 0 /\ \A w \in Workers : holding[w] # j
  BY <1>1, <1>2, QueueConstants DEF QueueInv, OnePlace
<1>5. \A i, k \in DOMAIN buffer' : buffer'[i] = buffer'[k] => i = k
  BY <1>1, <1>3, <1>4 DEF QueueInv, OnePlace, Buffered
<1>6. \A k \in Jobs : Buffered(k)' => Buffered(k) \/ k = j
  BY <1>1, <1>3 DEF Buffered
<1>7. OnePlace'
  BY <1>1, <1>2, <1>4, <1>5, <1>6 DEF QueueInv, OnePlace
<1>8. HandledOnce'
  BY <1>2 DEF QueueInv, HandledOnce
<1> QED
  BY <1>7, <1>8

LEMMA PlaceTake ==
    ASSUME QueueInv, NEW w \in Workers, Take(w)
    PROVE  OnePlace' /\ HandledOnce'
<1> DEFINE j == Head(buffer)
<1>1. /\ buffer \in Seq(Jobs) /\ buffer # <<>> /\ Len(buffer) \in Nat \ {0}
      /\ worker \in [Workers -> {"idle", "busy", "stopped"}]
      /\ handled \in [Jobs -> Nat] /\ holding \in [Workers -> Jobs \cup {NoJob}]
  BY DEF QueueInv, TypeOK, Take
<1>2. /\ worker[w] = "idle" /\ worker' = [worker EXCEPT ![w] = "busy"]
      /\ buffer' = Tail(buffer)
      /\ holding' = [holding EXCEPT ![w] = j]
      /\ UNCHANGED <<handled, caller>>
  BY DEF Take, calls
<1>3. /\ DOMAIN buffer = 1..Len(buffer) /\ DOMAIN buffer' = 1..(Len(buffer) - 1)
      /\ \A i \in 1..(Len(buffer) - 1) : buffer'[i] = buffer[i + 1]
      /\ j = buffer[1] /\ j \in Jobs /\ j # NoJob
  BY <1>1, <1>2, QueueConstants
<1>4. /\ Buffered(j) /\ caller[j] = "accepted" /\ handled[j] = 0
      /\ \A v \in Workers : holding[v] # j
  BY <1>1, <1>3 DEF QueueInv, OnePlace, Buffered
<1>5. /\ \A i, k \in DOMAIN buffer' : buffer'[i] = buffer'[k] => i = k
      /\ \A k \in Jobs : Buffered(k)' => Buffered(k) /\ k # j
  <2>1. \A i, k \in 1..Len(buffer) : buffer[i] = buffer[k] => i = k
    BY <1>3 DEF QueueInv, OnePlace
  <2>2. \A i \in DOMAIN buffer' :
           /\ i + 1 \in 1..Len(buffer) /\ i + 1 # 1 /\ buffer'[i] = buffer[i + 1]
    BY <1>1, <1>3
  <2>3. ASSUME NEW i \in DOMAIN buffer', NEW k \in DOMAIN buffer', buffer'[i] = buffer'[k]
        PROVE  i = k
    <3>1. buffer[i + 1] = buffer[k + 1] /\ i + 1 \in 1..Len(buffer) /\ k + 1 \in 1..Len(buffer)
      BY <2>2, <2>3
    <3>2. i + 1 = k + 1
      BY <2>1, <3>1
    <3> QED
      BY <1>1, <1>3, <3>2
  <2>4. ASSUME NEW k \in Jobs, NEW i \in DOMAIN buffer', buffer'[i] = k
        PROVE  Buffered(k) /\ k # j
    <3>1. buffer[i + 1] = k /\ i + 1 \in 1..Len(buffer) /\ i + 1 # 1
      BY <2>2, <2>4
    <3>2. 1 \in 1..Len(buffer)
      BY <1>1
    <3>3. buffer[i + 1] # buffer[1]
      BY <2>1, <3>1, <3>2
    <3> QED
      BY <1>3, <3>1, <3>3 DEF Buffered
  <2> QED
    BY <2>3, <2>4 DEF Buffered
<1> HIDE DEF j
<1>7. OnePlace'
  <2>1. \A k \in Jobs : Buffered(k)' =>
           /\ caller[k] = "accepted" /\ handled[k] = 0
           /\ \A v \in Workers : holding'[v] # k
    BY <1>1, <1>2, <1>5 DEF QueueInv, OnePlace
  <2>2. \A v \in Workers :
           /\ worker'[v] = "busy" <=> holding'[v] # NoJob
           /\ holding'[v] # NoJob => caller[holding'[v]] = "accepted"
    BY <1>1, <1>2, <1>3, <1>4 DEF QueueInv, OnePlace
  <2> QED
    BY <1>2, <1>5, <2>1, <2>2 DEF QueueInv, OnePlace
<1>8. HandledOnce'
  BY <1>1, <1>2, <1>3, <1>4 DEF QueueInv, HandledOnce
<1> QED
  BY <1>7, <1>8

LEMMA PlaceDispatch ==
    ASSUME QueueInv, NEW w \in Workers, Dispatch(w)
    PROVE  OnePlace' /\ HandledOnce'
<1> DEFINE j == holding[w]
<1>1. /\ worker \in [Workers -> {"idle", "busy", "stopped"}]
      /\ handled \in [Jobs -> Nat] /\ holding \in [Workers -> Jobs \cup {NoJob}]
  BY DEF QueueInv, TypeOK
<1>2. /\ worker[w] = "busy" /\ worker' = [worker EXCEPT ![w] = "idle"]
      /\ handled' = [handled EXCEPT ![j] = @ + 1]
      /\ holding' = [holding EXCEPT ![w] = NoJob]
      /\ UNCHANGED <<buffer, caller>>
  BY DEF Dispatch, calls
<1>3. /\ j # NoJob /\ j \in Jobs /\ handled[j] = 0 /\ caller[j] = "accepted" /\ ~Buffered(j)
      /\ \A v \in Workers : holding[v] = j => v = w
  BY <1>1, <1>2 DEF QueueInv, OnePlace, HandledOnce
<1> HIDE DEF j
<1>4. handled'[j] = 1 /\ \A k \in Jobs \ {j} : handled'[k] = handled[k]
  BY <1>1, <1>2, <1>3
<1>5. holding'[w] = NoJob /\ \A v \in Workers \ {w} : holding'[v] = holding[v]
  BY <1>1, <1>2
<1>6. \A k \in Jobs : Buffered(k)' <=> Buffered(k)
  BY <1>2 DEF Buffered
<1>7. OnePlace'
  <2>1. \A k \in Jobs : Buffered(k) =>
           /\ caller[k] = "accepted" /\ handled'[k] = 0
           /\ \A v \in Workers : holding'[v] # k
    BY <1>3, <1>4, <1>5, QueueConstants DEF QueueInv, OnePlace
  <2>2. \A v \in Workers :
           /\ worker'[v] = "busy" <=> holding'[v] # NoJob
           /\ holding'[v] # NoJob => caller[holding'[v]] = "accepted"
    BY <1>1, <1>2, <1>5 DEF QueueInv, OnePlace
  <2>3. \A k \in Jobs : handled'[k] > 0 => caller[k] = "accepted"
    BY <1>3, <1>4 DEF QueueInv, OnePlace
  <2> QED
    BY <1>2, <1>6, <2>1, <2>2, <2>3 DEF QueueInv, OnePlace
<1>8. HandledOnce'
  <2>1. \A k \in Jobs : handled'[k] <= 1
    BY <1>4 DEF QueueInv, HandledOnce
  <2>2. \A v \in Workers : holding'[v] # NoJob =>
           /\ v # w /\ holding'[v] = holding[v] /\ holding[v] \in Jobs /\ holding[v] # j
    BY <1>1, <1>3, <1>5
  <2>3. \A v \in Workers : holding'[v] # NoJob =>
           /\ handled'[holding'[v]] = 0
           /\ \A u \in Workers : holding'[u] = holding'[v] => u = v
    BY <1>4, <1>5, <2>2 DEF QueueInv, HandledOnce
  <2> QED
    BY <2>1, <2>3 DEF HandledOnce
<1> QED
  BY <1>7, <1>8

LEMMA PlaceCalls ==
    ASSUME QueueInv, NEW j \in Jobs, Call(j) \/ GiveUp(j)
    PROVE  OnePlace' /\ HandledOnce'
<1>1. /\ caller \in [Jobs -> {"idle", "sending", "accepted", "refused"}]
      /\ holding \in [Workers -> Jobs \cup {NoJob}]
  BY DEF QueueInv, TypeOK
<1>2. /\ caller[j] # "accepted"
      /\ \A k \in Jobs \ {j} : caller'[k] = caller[k]
      /\ UNCHANGED <<buffer, handled, worker, holding>>
  BY <1>1 DEF Call, GiveUp, pool
<1>3. \A k \in Jobs : Buffered(k)' <=> Buffered(k)
  BY <1>2 DEF Buffered
<1>4. OnePlace'
  BY <1>1, <1>2, <1>3 DEF QueueInv, OnePlace
<1>5. HandledOnce'
  BY <1>2 DEF QueueInv, HandledOnce
<1> QED
  BY <1>4, <1>5

LEMMA PlaceOthers ==
    ASSUME QueueInv, UNCHANGED <<buffer, caller, handled, holding>>,
           \A w \in Workers : worker'[w] = "busy" <=> worker[w] = "busy"
    PROVE  OnePlace' /\ HandledOnce'
<1>1. \A k \in Jobs : Buffered(k)' <=> Buffered(k)
  BY DEF Buffered
<1> QED
  BY <1>1 DEF QueueInv, OnePlace, HandledOnce

LEMMA PlaceNext == QueueInv /\ [Next]_vars => QueueInv'
<1> SUFFICES ASSUME QueueInv, [Next]_vars PROVE QueueInv'
  OBVIOUS
<1>1. TypeOK'
  BY TypeNext DEF QueueInv
<1>2. ASSUME NEW j \in Jobs, Call(j) \/ ContextDone(j) \/ Send(j) \/ GiveUp(j)
      PROVE  OnePlace' /\ HandledOnce'
  <2>1. CASE ContextDone(j)
    BY <2>1, PlaceOthers DEF ContextDone, pool
  <2> QED
    BY <1>2, <2>1, PlaceCalls, PlaceSend
<1>3. ASSUME NEW w \in Workers, Take(w) \/ StopWorker(w) \/ Dispatch(w)
      PROVE  OnePlace' /\ HandledOnce'
  <2>1. CASE StopWorker(w)
    <3>1. \A v \in Workers : worker'[v] = "busy" <=> worker[v] = "busy"
      BY <2>1 DEF StopWorker, QueueInv, TypeOK
    <3> QED
      BY <2>1, <3>1, PlaceOthers DEF StopWorker, calls
  <2> QED
    BY <1>3, <2>1, PlaceTake, PlaceDispatch
<1>4. ASSUME Signal \/ GracefulStop \/ Exit \/ Crash \/ UNCHANGED vars
      PROVE  OnePlace' /\ HandledOnce'
  BY <1>4, PlaceOthers DEF Signal, GracefulStop, Exit, Crash, vars, calls, pool
<1>5. ASSUME NEW s \in Streams, OpenStream(s) \/ CloseStream(s)
      PROVE  OnePlace' /\ HandledOnce'
  BY <1>5, PlaceOthers DEF OpenStream, CloseStream, pool
<1> QED
  BY <1>1, <1>2, <1>3, <1>4, <1>5 DEF Next, QueueInv

\* A job is never handled twice or by two workers at once: a delivery has no
\* second attempt, whatever fails, stops or shuts down.
THEOREM JobsAreHandledOnce == Spec => []HandledOnce
<1>1. Init => QueueInv
  <2>1. Init => OnePlace /\ HandledOnce
    BY DEF Init, OnePlace, HandledOnce, Buffered
  <2> QED
    BY <2>1, TypeInit DEF QueueInv
<1>2. QueueInv => HandledOnce
  BY DEF QueueInv
<1> QED
  BY <1>1, <1>2, PlaceNext, PTL DEF Spec

----------------------------------------------------------------------------
(* The dispatcher is a JobDelivery.                                        *)

(* What was taken from the channel has left it, and only that is handled.  *)
TakenInv ==
    /\ \A j \in Jobs : j \in ToSet(taken) => ~Buffered(j) /\ caller[j] = "accepted"
    /\ \A j \in Jobs : caller[j] = "accepted" => Buffered(j) \/ j \in ToSet(taken)
    /\ \A w \in Workers : holding[w] # NoJob => holding[w] \in ToSet(taken)

LEMMA AppendedSet ==
    ASSUME NEW S, NEW s \in Seq(S), NEW x \in S
    PROVE  ToSet(Append(s, x)) = ToSet(s) \cup {x}
<1>1. /\ Len(s) \in Nat /\ DOMAIN s = 1..Len(s) /\ Append(s, x) \in Seq(S)
      /\ Len(Append(s, x)) = Len(s) + 1
      /\ \A i \in 1..Len(s) : Append(s, x)[i] = s[i]
      /\ Append(s, x)[Len(s) + 1] = x
  BY AppendProperties, LenProperties
<1>2. DOMAIN Append(s, x) = 1..(Len(s) + 1)
  BY <1>1, LenProperties
<1> QED
  BY <1>1, <1>2 DEF ToSet

LEMMA TakenSend ==
    ASSUME QueueInv, TakenInv, NEW j \in Jobs, Send(j) PROVE TakenInv'
<1>1. /\ buffer \in Seq(Jobs) /\ Len(buffer) \in Nat
      /\ caller \in [Jobs -> {"idle", "sending", "accepted", "refused"}]
  BY DEF QueueInv, TypeOK
<1>2. /\ caller[j] = "sending" /\ caller' = [caller EXCEPT ![j] = "accepted"]
      /\ buffer' = Append(buffer, j)
      /\ UNCHANGED <<taken, holding>>
  BY DEF Send, pool
<1>3. /\ DOMAIN buffer' = 1..(Len(buffer) + 1) /\ DOMAIN buffer = 1..Len(buffer)
      /\ \A i \in 1..Len(buffer) : buffer'[i] = buffer[i]
      /\ buffer'[Len(buffer) + 1] = j
  BY <1>1, <1>2
<1>4. \A k \in Jobs : Buffered(k)' <=> Buffered(k) \/ k = j
  BY <1>1, <1>3 DEF Buffered
<1>5. j \notin ToSet(taken)
  BY <1>2 DEF TakenInv
<1>6. ToSet(taken)' = ToSet(taken)
  BY <1>2 DEF ToSet
<1> QED
  BY <1>1, <1>2, <1>4, <1>5, <1>6 DEF TakenInv

LEMMA TakenTake ==
    ASSUME QueueInv, TakenInv, NEW w \in Workers, Take(w) PROVE TakenInv'
<1> DEFINE j == Head(buffer)
<1>1. /\ buffer \in Seq(Jobs) /\ buffer # <<>> /\ Len(buffer) \in Nat \ {0} /\ taken \in Seq(Jobs)
      /\ holding \in [Workers -> Jobs \cup {NoJob}]
  BY DEF QueueInv, TypeOK, Take
<1>2. /\ buffer' = Tail(buffer) /\ holding' = [holding EXCEPT ![w] = j]
      /\ taken' = Append(taken, j) /\ caller' = caller
  BY DEF Take, calls
<1>3. /\ DOMAIN buffer = 1..Len(buffer) /\ DOMAIN buffer' = 1..(Len(buffer) - 1)
      /\ \A i \in 1..(Len(buffer) - 1) : buffer'[i] = buffer[i + 1]
      /\ j = buffer[1] /\ j \in Jobs
  BY <1>1, <1>2
<1> HIDE DEF j
<1>4. Buffered(j) /\ caller[j] = "accepted"
  BY <1>1, <1>3 DEF QueueInv, OnePlace, Buffered
<1>5. \A k \in Jobs : Buffered(k)' <=> Buffered(k) /\ k # j
  <2>1. \A i, k \in 1..Len(buffer) : buffer[i] = buffer[k] => i = k
    BY <1>3 DEF QueueInv, OnePlace
  <2>2. \A i \in DOMAIN buffer' :
           /\ i + 1 \in 1..Len(buffer) /\ i + 1 # 1 /\ buffer'[i] = buffer[i + 1]
    BY <1>1, <1>3
  <2>3. \A i \in 1..Len(buffer) : i # 1 => i - 1 \in DOMAIN buffer' /\ buffer'[i - 1] = buffer[i]
    BY <1>1, <1>3
  <2>4. 1 \in 1..Len(buffer)
    BY <1>1
  <2>5. ASSUME NEW k \in Jobs, Buffered(k)' PROVE Buffered(k) /\ k # j
    <3>1. PICK i \in DOMAIN buffer' : buffer'[i] = k
      BY <2>5 DEF Buffered
    <3>2. buffer[i + 1] = k /\ i + 1 \in 1..Len(buffer) /\ i + 1 # 1
      BY <2>2, <3>1
    <3>3. buffer[i + 1] # buffer[1]
      BY <2>1, <2>4, <3>2
    <3> QED
      BY <1>3, <3>2, <3>3 DEF Buffered
  <2>6. ASSUME NEW k \in Jobs, Buffered(k), k # j PROVE Buffered(k)'
    <3>1. PICK i \in 1..Len(buffer) : buffer[i] = k
      BY <1>3, <2>6 DEF Buffered
    <3> QED
      BY <1>3, <2>3, <2>6, <3>1 DEF Buffered
  <2> QED
    BY <2>5, <2>6
<1>6. ToSet(taken)' = ToSet(taken) \cup {j}
  BY <1>1, <1>2, <1>3, AppendedSet
<1> QED
  BY <1>1, <1>2, <1>4, <1>5, <1>6 DEF TakenInv

LEMMA TakenNext ==
    ASSUME QueueInv, TakenInv, [Next]_vars PROVE TakenInv'
<1>1. ASSUME UNCHANGED <<buffer, taken>>,
             \A j \in Jobs : caller'[j] = "accepted" <=> caller[j] = "accepted",
             \A w \in Workers : holding'[w] # NoJob => holding'[w] = holding[w]
      PROVE  TakenInv'
  <2>1. ToSet(taken)' = ToSet(taken) /\ \A j \in Jobs : Buffered(j)' <=> Buffered(j)
    BY <1>1 DEF ToSet, Buffered
  <2> QED
    BY <1>1, <2>1 DEF TakenInv
<1>2. ASSUME NEW j \in Jobs, Call(j) \/ ContextDone(j) \/ GiveUp(j) PROVE TakenInv'
  BY <1>1, <1>2 DEF Call, ContextDone, GiveUp, pool, QueueInv, TypeOK
<1>3. ASSUME NEW w \in Workers, StopWorker(w) \/ Dispatch(w) PROVE TakenInv'
  BY <1>1, <1>3 DEF StopWorker, Dispatch, calls, QueueInv, TypeOK
<1>4. ASSUME Signal \/ GracefulStop \/ Exit \/ Crash \/ UNCHANGED vars PROVE TakenInv'
  BY <1>1, <1>4 DEF Signal, GracefulStop, Exit, Crash, vars, calls, pool
<1>5. ASSUME NEW s \in Streams, OpenStream(s) \/ CloseStream(s) PROVE TakenInv'
  BY <1>1, <1>5 DEF OpenStream, CloseStream, pool
<1> QED
  BY <1>2, <1>3, <1>4, <1>5, TakenSend, TakenTake DEF Next

States == [k \in Jobs |-> StateOf(k)]

(* A step that changes the state of one job at most, and not the server.   *)
LEMMA MoveIsStep ==
    ASSUME NEW j \in Jobs, Up, Up', \A k \in Jobs \ {j} : StateOf(k)' = StateOf(k),
           \/ StateOf(j)' = StateOf(j)
           \/ StateOf(j) = "unsent" /\ StateOf(j)' \in {"refused", "accepted"}
           \/ StateOf(j) = "accepted" /\ StateOf(j)' = "started"
           \/ StateOf(j) = "started" /\ StateOf(j)' = "done"
    PROVE  [Delivery!Next]_(Delivery!vars)
<1>1. States' = [States EXCEPT ![j] = StateOf(j)']
  BY DEF States
<1>2. States[j] = StateOf(j)
  BY DEF States
<1>3. CASE StateOf(j)' = StateOf(j)
  <2>1. States' = States
    BY <1>3 DEF States
  <2> QED
    BY <2>1 DEF States, Delivery!vars
<1>4. CASE StateOf(j)' # StateOf(j)
  BY <1>1, <1>2, <1>4 DEF States, Delivery!Next, Delivery!Move, Delivery!Refuse,
     Delivery!Accept, Delivery!Start, Delivery!Finish
<1> QED
  BY <1>3, <1>4

LEMMA StepImplements ==
    ASSUME QueueInv, TakenInv, TakenInv', [Next]_vars
    PROVE  [Delivery!Next]_(Delivery!vars)
<1> USE DEF QueueInv
<1>1. /\ caller \in [Jobs -> {"idle", "sending", "accepted", "refused"}]
      /\ handled \in [Jobs -> Nat] /\ holding \in [Workers -> Jobs \cup {NoJob}]
      /\ buffer \in Seq(Jobs) /\ taken \in Seq(Jobs)
  BY DEF TypeOK
<1>2. ASSUME NEW j \in Jobs, Call(j) \/ Send(j) \/ GiveUp(j)
      PROVE  [Delivery!Next]_(Delivery!vars)
  <2>1. /\ Up /\ server' = server /\ UNCHANGED <<handled, taken>>
        /\ caller[j] \in {"idle", "sending"} /\ caller'[j] \in {"sending", "accepted", "refused"}
        /\ \A k \in Jobs \ {j} : caller'[k] = caller[k]
    BY <1>1, <1>2 DEF Call, Send, GiveUp, Up
  <2>2. ToSet(taken)' = ToSet(taken) /\ Up' /\ j \notin ToSet(taken) /\ handled[j] = 0
    <3>1. ToSet(taken)' = ToSet(taken) /\ Up'
      BY <2>1 DEF ToSet, Up
    <3>2. j \notin ToSet(taken) /\ handled[j] = 0
      <4>1. caller[j] # "accepted" /\ handled[j] \in Nat
        BY <1>1, <2>1
      <4>2. j \notin ToSet(taken)
        BY <4>1 DEF TakenInv
      <4>3. ~(handled[j] > 0)
        BY <4>1 DEF OnePlace
      <4> QED
        BY <4>1, <4>2, <4>3
    <3> QED
      BY <3>1, <3>2
  <2>3. \A k \in Jobs \ {j} : StateOf(k)' = StateOf(k)
    BY <2>1, <2>2 DEF StateOf
  <2>4. StateOf(j) = "unsent" /\ StateOf(j)' \in {"unsent", "refused", "accepted"}
    BY <2>1, <2>2 DEF StateOf
  <2> QED
    BY <2>1, <2>2, <2>3, <2>4, MoveIsStep
<1>3. ASSUME NEW w \in Workers, Take(w)
      PROVE  [Delivery!Next]_(Delivery!vars)
  <2>0. PICK j \in Jobs : j = Head(buffer) /\ buffer # <<>>
    BY <1>1, <1>3 DEF Take
  <2>1. /\ Up /\ server' = server /\ UNCHANGED <<handled, caller>>
        /\ taken' = Append(taken, j)
    BY <1>3, <2>0 DEF Take, calls
  <2>2. ToSet(taken)' = ToSet(taken) \cup {j} /\ Up'
    BY <1>1, <2>1, AppendedSet DEF Up
  <2>3. Buffered(j)
    BY <1>1, <2>0 DEF Buffered
  <2>4. j \notin ToSet(taken) /\ caller[j] = "accepted" /\ handled[j] = 0
    BY <2>1, <2>3 DEF TakenInv, OnePlace
  <2>5. \A k \in Jobs \ {j} : StateOf(k)' = StateOf(k)
    BY <2>1, <2>2 DEF StateOf
  <2>6. StateOf(j) = "accepted" /\ StateOf(j)' = "started"
    BY <2>1, <2>2, <2>4 DEF StateOf
  <2> QED
    BY <2>1, <2>2, <2>5, <2>6, MoveIsStep
<1>4. ASSUME NEW w \in Workers, Dispatch(w)
      PROVE  [Delivery!Next]_(Delivery!vars)
  <2>0. PICK j \in Jobs : j = holding[w]
    BY <1>1, <1>4 DEF Dispatch, OnePlace
  <2>1. /\ Up /\ server' = server /\ UNCHANGED <<taken, caller>>
        /\ worker[w] = "busy" /\ handled' = [handled EXCEPT ![j] = @ + 1]
    BY <1>4, <2>0 DEF Dispatch, calls
  <2>2. /\ handled[j] = 0 /\ caller[j] = "accepted" /\ j \in ToSet(taken)
    BY <1>1, <2>0, <2>1, QueueConstants DEF OnePlace, HandledOnce, TakenInv
  <2>3. handled'[j] = 1 /\ \A k \in Jobs \ {j} : handled'[k] = handled[k]
    BY <1>1, <2>1, <2>2
  <2>4. ToSet(taken)' = ToSet(taken) /\ Up'
    BY <2>1 DEF ToSet, Up
  <2>5. \A k \in Jobs \ {j} : StateOf(k)' = StateOf(k)
    BY <2>1, <2>3, <2>4 DEF StateOf
  <2>6. StateOf(j) = "started" /\ StateOf(j)' = "done"
    BY <2>1, <2>2, <2>3, <2>4 DEF StateOf
  <2> QED
    BY <2>1, <2>2, <2>4, <2>5, <2>6, MoveIsStep
<1>5. ASSUME UNCHANGED <<caller, handled, taken>>, Up' <=> Up
      PROVE  [Delivery!Next]_(Delivery!vars)
  <2>1. \A k \in Jobs : StateOf(k)' = StateOf(k)
    BY <1>5 DEF StateOf, ToSet
  <2>2. States' = States
    BY <2>1 DEF States
  <2> QED
    BY <1>5, <2>2 DEF States, Delivery!vars
<1>6. CASE Exit \/ Crash
  <2>1. Up /\ ~Up' /\ UNCHANGED <<caller, handled, taken>>
    BY <1>6 DEF Exit, Crash, Up, calls
  <2>2. \A k \in Jobs : StateOf(k)' = IF StateOf(k) \in {"accepted", "started"} THEN "lost"
                                      ELSE StateOf(k)
    BY <2>1 DEF StateOf
  <2>3. States' = [k \in Jobs |-> IF States[k] \in {"accepted", "started"} THEN "lost" ELSE States[k]]
    BY <2>2 DEF States
  <2> QED
    BY <2>1, <2>3 DEF States, Delivery!Next, Delivery!End
<1>7. CASE Signal \/ GracefulStop \/ (\E j \in Jobs : ContextDone(j)) \/ (\E w \in Workers : StopWorker(w))
           \/ UNCHANGED vars
  BY <1>5, <1>7 DEF Signal, GracefulStop, ContextDone, StopWorker, Up, calls, vars
<1>8. CASE \E s \in Streams : OpenStream(s) \/ CloseStream(s)
  BY <1>5, <1>8 DEF OpenStream, CloseStream, Up
<1> QED
  BY <1>2, <1>3, <1>4, <1>6, <1>7, <1>8 DEF Next

(* Every job that was accepted is delivered once and never again, and lost  *)
(* only with the process: the dispatcher implements JobDelivery (queue.go   *)
(* 85-142).                                                                *)
THEOREM DispatcherDelivers == Spec => ImplementsDelivery
<1>1. Init => QueueInv /\ TakenInv
  <2>1. Init => OnePlace /\ HandledOnce /\ TakenInv
    BY DEF Init, OnePlace, HandledOnce, TakenInv, Buffered, ToSet
  <2> QED
    BY <2>1, TypeInit DEF QueueInv
<1>2. Spec => [](QueueInv /\ TakenInv)
  BY <1>1, PlaceNext, TakenNext, PTL DEF Spec
<1>3. Init => Delivery!Init
  <2>1. Init => \A k \in Jobs : StateOf(k) = "unsent"
    BY DEF Init, StateOf
  <2> QED
    BY <2>1 DEF Delivery!Init, Init, Up
<1>4. QueueInv /\ TakenInv /\ TakenInv' /\ [Next]_vars => [Delivery!Next]_(Delivery!vars)
  BY StepImplements
<1> QED
  BY <1>2, <1>3, <1>4, PTL DEF Spec, ImplementsDelivery, Delivery!Spec

=============================================================================

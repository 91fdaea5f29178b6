-------------------------- MODULE DeliveryProofs --------------------------
(* Theorems about Delivery: receipts are true, and whatever else happens a   *)
(* delivery reaches each device that stays as it is, and by one path.        *)
EXTENDS Delivery, FiniteSetTheorems, WellFoundedInduction, TLAPS

(* The types that the argument needs *)
Types ==
    /\ stream \in [Devices -> {"none", "token", "session"}]
    /\ unread \in [Devices -> SUBSET Deliveries]
    /\ unmarked \in [Devices -> SUBSET Deliveries]
    /\ lister \in [Devices -> {"idle", "mark", "remove"}]
    /\ page \in [Devices -> SUBSET Deliveries]
    /\ replay \in [Accounts -> SUBSET Deliveries]
    /\ stored \in [Accounts -> SUBSET Deliveries]
    /\ record \in [Deliveries -> [Devices -> {"none", "Held", "Success"}]]
    /\ shown \subseteq Deliveries \X Devices
    /\ owner \in [Devices -> Accounts]

(* What awaits its receipt, or is on a page, was given to the device. *)
Given ==
    \A d \in Devices :
        /\ unmarked[d] \X {d} \subseteq shown
        /\ page[d] \X {d} \subseteq shown

ReceiptsInv == Types /\ Given /\ ReceiptsTrue

LEMMA ReceiptsInit == Init => ReceiptsInv
  BY DEF Init, ReceiptsInv, Types, Given, ReceiptsTrue

(* No step of a delivery touches what a receipt depends on but HoldSops,   *)
(* which writes Held.                                                      *)
LEMMA ReceiptsDeliver ==
  ASSUME ReceiptsInv, NEW n \in Deliveries, Deliver(n)
  PROVE ReceiptsInv'
<1> USE DEF ReceiptsInv, Types, Given, ReceiptsTrue, setup, connection, listing, store,
            history, bounds
<1>1. CASE Begin(n)
  BY <1>1 DEF Begin
<1>2. CASE NextAccount(n)
  BY <1>2 DEF NextAccount
<1>3. CASE AppendReplay(n)
  <2>1. replay' \in [Accounts -> SUBSET Deliveries]
    <3>1. \A a \in Accounts : Newest(replay[a] \union {n}) \in SUBSET Deliveries
      BY DEF Newest
    <3>2. \/ UNCHANGED replay
          \/ replay' = [replay EXCEPT ![account[n]] = Newest(@ \union {n})]
      BY <1>3 DEF AppendReplay
    <3> QED
      BY <3>1, <3>2
  <2> QED
    BY <1>3, <2>1 DEF AppendReplay
<1>4. CASE Broadcast(n)
  BY <1>4 DEF Broadcast
<1>5. CASE AskPresence(n)
  BY <1>5 DEF AskPresence
<1>6. CASE HoldSops(n)
  BY <1>6 DEF HoldSops
<1>7. CASE PublishWebSocket(n)
  BY <1>7 DEF PublishWebSocket
<1>8. CASE Push(n)
  BY <1>8 DEF Push
<1>9. CASE Fail(n)
  BY <1>9 DEF Fail
<1> QED
  BY <1>1, <1>2, <1>3, <1>4, <1>5, <1>6, <1>7, <1>8, <1>9 DEF Deliver

LEMMA ReceiptsAct ==
  ASSUME ReceiptsInv, NEW d \in Devices, Act(d)
  PROVE ReceiptsInv'
<1> USE DEF ReceiptsInv, Types, Given, ReceiptsTrue, setup, turn, listing, store,
            bounds
<1>1. CASE Connect(d)
  BY <1>1 DEF Connect, Move
<1>2. CASE Read(d)
  BY <1>2 DEF Read
<1>3. CASE MarkRead(d)
  BY <1>3 DEF MarkRead, Promoted, history
<1>4. CASE Disconnect(d)
  BY <1>4 DEF Disconnect, Move
<1>5. CASE ToggleSocket(d)
  BY <1>5 DEF ToggleSocket, Move
<1>6. CASE List(d)
  BY <1>6 DEF List, connection
<1>7. CASE MarkListed(d)
  BY <1>7 DEF MarkListed, Promoted, connection, history
<1>8. CASE RemoveListed(d)
  BY <1>8 DEF RemoveListed, RemoveNotifications, connection
<1> QED
  BY <1>1, <1>2, <1>3, <1>4, <1>5, <1>6, <1>7, <1>8 DEF Act

LEMMA ReceiptsNext == ReceiptsInv /\ [Next]_vars => ReceiptsInv'
<1> SUFFICES ASSUME ReceiptsInv, [Next]_vars PROVE ReceiptsInv'
  OBVIOUS
<1>1. CASE \E n \in Deliveries : Deliver(n)
  BY <1>1, ReceiptsDeliver
<1>2. CASE \E d \in Devices : Act(d)
  BY <1>2, ReceiptsAct
<1>3. CASE Crash
  BY <1>3 DEF Crash, ReceiptsInv, Types, Given, ReceiptsTrue, setup, store, history
<1>4. CASE UNCHANGED vars
  BY <1>4 DEF vars, ReceiptsInv, Types, Given, ReceiptsTrue, setup, connection, listing,
              store, history
<1> QED
  BY <1>1, <1>2, <1>3, <1>4 DEF Next

(* A SOP delivery is recorded as Success only if that device read it from its *)
(* stream or was given it in a list, whatever else runs, fails or crashes     *)
(* (MarkSopDeliveryRead).                                                     *)
THEOREM ReceiptsAreTrue == Spec => []ReceiptsTrue
<1>1. ReceiptsInv => ReceiptsTrue
  BY DEF ReceiptsInv
<1> QED
  BY <1>1, ReceiptsInit, ReceiptsNext, PTL DEF Spec

----------------------------------------------------------------------------
(* What a delivery saw of a device that stayed as it was is what the device  *)
(* is, and what it sent so far follows from that.                            *)

InTurn == {"replay", "broadcast", "ask", "hold", "publish", "push"}

TurnTypes ==
    /\ subs \subseteq Devices \X Providers
    /\ pc \in [Deliveries -> {"idle", "next", "done", "failed"} \union InTurn]
    /\ todo \in [Deliveries -> [Accounts -> 0..MaxNamed]]
    /\ account \in [Deliveries -> Accounts \union {"none"}]
    /\ sops \in [Deliveries -> SUBSET Devices]
    /\ online \in [Deliveries -> SUBSET Devices]
    /\ stream \in [Devices -> {"none", "token", "session"}]
    /\ socket \in [Devices -> SUBSET Namespaces]
    /\ steady \in [Deliveries -> SUBSET Devices]
    /\ owner \in [Devices -> Accounts]
    /\ app \in Namespaces

Seen(n, d) ==
    /\ owner[d] = account[n]
    /\ d \in sops[n] <=> stream[d] # "none"
    /\ d \in online[n] => Solian \in socket[d]
    /\ <<n, d, "push">> \notin sent
    /\ <<n, d, "stream">> \in sent <=>
           pc[n] \in {"ask", "hold", "publish", "push"} /\ stream[d] # "none"
    /\ <<n, d, "websocket">> \in sent <=>
           pc[n] = "push" /\ app \in socket[d] /\ stream[d] = "none"

SeesTruly ==
    \A n \in Deliveries :
        pc[n] \in InTurn =>
            /\ account[n] \in Accounts
            /\ pc[n] \in {"ask", "hold", "push"} => SubsOf(account[n]) # {}
            /\ \A d \in steady[n] : Seen(n, d)

TurnInv == TurnTypes /\ SeesTruly

LEMMA TurnInit == Init => TurnInv
  BY DeliveryConstants DEF Init, TurnInv, TurnTypes, SeesTruly, InTurn

LEMMA TurnDeliver ==
  ASSUME TurnInv, NEW n \in Deliveries, Deliver(n)
  PROVE TurnInv'
<1> USE DEF TurnInv, TurnTypes, InTurn, setup, connection, listing, store, history, bounds,
            DevicesOf, SubsOf
<1>1. CASE Begin(n)
  <2>1. TurnTypes' BY <1>1 DEF Begin
  <2>2. SeesTruly' BY <1>1 DEF Begin, SeesTruly, Seen
  <2> QED BY <2>1, <2>2
<1>2. CASE NextAccount(n)
  <2>1. UNCHANGED <<owner, subs, app, stream, socket>>
    BY <1>2 DEF NextAccount
  <2>2. TurnTypes'
    <3>1. todo' \in [Deliveries -> [Accounts -> 0..MaxNamed]]
      <4>1. CASE UNCHANGED todo
        BY <4>1
      <4>2. ASSUME NEW a \in Named(n), todo' = [todo EXCEPT ![n][a] = @ - 1]
            PROVE  todo' \in [Deliveries -> [Accounts -> 0..MaxNamed]]
        <5>1. a \in Accounts /\ todo[n][a] \in 0..MaxNamed /\ todo[n][a] > 0
          BY DEF Named
        <5>2. todo[n][a] - 1 \in 0..MaxNamed
          BY <5>1, DeliveryConstants
        <5> QED
          BY <4>2, <5>1, <5>2
      <4> QED
        BY <1>2, <4>1, <4>2 DEF NextAccount
    <3>2. CASE pc' = [pc EXCEPT ![n] = "done"] /\ UNCHANGED <<account, sops, online, steady>>
      BY <2>1, <3>1, <3>2
    <3>3. ASSUME NEW a \in Accounts,
                 pc' = [pc EXCEPT ![n] = "replay"],
                 account' = [account EXCEPT ![n] = a],
                 sops' = [sops EXCEPT ![n] = {d \in DevicesOf(a) : stream[d] # "none"}],
                 online' = [online EXCEPT ![n] = {}],
                 steady' = [steady EXCEPT ![n] = DevicesOf(a)]
          PROVE  TurnTypes'
      BY <2>1, <3>1, <3>3
    <3> QED
      BY <1>2, <3>2, <3>3 DEF NextAccount, Named
  <2>3. SeesTruly'
    <3>1. ASSUME NEW m \in Deliveries \ {n}
          PROVE  /\ pc'[m] = pc[m] /\ account'[m] = account[m]
                 /\ sops'[m] = sops[m] /\ online'[m] = online[m] /\ steady'[m] = steady[m]
                 /\ \A d, p : <<m, d, p>> \in sent' <=> <<m, d, p>> \in sent
      BY <1>2 DEF NextAccount
    <3>2. ASSUME NEW m \in Deliveries \ {n}, pc'[m] \in InTurn
          PROVE  /\ account'[m] \in Accounts
                 /\ pc'[m] \in {"ask", "hold", "push"} => SubsOf(account[m])' # {}
                 /\ \A d \in steady'[m] : Seen(m, d)'
      BY <2>1, <3>1, <3>2 DEF SeesTruly, Seen
    <3>3. CASE pc'[n] = "done"
      BY <3>2, <3>3 DEF SeesTruly
    <3>4. ASSUME NEW a \in Accounts,
                 account'[n] = a, pc'[n] = "replay",
                 sops'[n] = {d \in DevicesOf(a) : stream[d] # "none"}, online'[n] = {},
                 steady'[n] = DevicesOf(a), sent' = {t \in sent : t[1] # n}
          PROVE  SeesTruly'
      <4>1. ASSUME NEW d \in DevicesOf(a)
            PROVE  Seen(n, d)'
        <5>1. \A p : <<n, d, p>> \notin sent'
          BY <3>4
        <5> QED
          BY <2>1, <3>4, <4>1, <5>1 DEF Seen
      <4> QED
        BY <3>2, <3>4, <4>1 DEF SeesTruly
    <3> QED
      BY <1>2, <3>3, <3>4 DEF NextAccount, Named
  <2> QED BY <2>2, <2>3
<1>3. CASE AppendReplay(n)
  <2>1. TurnTypes' BY <1>3 DEF AppendReplay
  <2>2. SeesTruly' BY <1>3 DEF AppendReplay, SeesTruly, Seen
  <2> QED BY <2>1, <2>2
<1>4. CASE Broadcast(n)
  <2>1. TurnTypes' BY <1>4 DEF Broadcast
  <2>2. SeesTruly' BY <1>4 DEF Broadcast, SeesTruly, Seen
  <2> QED BY <2>1, <2>2
<1>5. CASE AskPresence(n)
  <2>1. TurnTypes' BY <1>5 DEF AskPresence
  <2>2. SeesTruly' BY <1>5 DEF AskPresence, SeesTruly, Seen
  <2> QED BY <2>1, <2>2
<1>6. CASE HoldSops(n)
  <2>1. TurnTypes' BY <1>6 DEF HoldSops
  <2>2. SeesTruly' BY <1>6 DEF HoldSops, SeesTruly, Seen
  <2> QED BY <2>1, <2>2
<1>7. CASE PublishWebSocket(n)
  <2>1. TurnTypes' BY <1>7 DEF PublishWebSocket
  <2>2. SeesTruly' BY <1>7 DEF PublishWebSocket, SeesTruly, Seen, Exclusions
  <2> QED BY <2>1, <2>2
<1>8. CASE Push(n)
  <2>1. TurnTypes' BY <1>8 DEF Push
  <2>2. SeesTruly' BY <1>8 DEF Push, SeesTruly, Seen
  <2> QED BY <2>1, <2>2
<1>9. CASE Fail(n)
  <2>1. TurnTypes' BY <1>9 DEF Fail
  <2>2. SeesTruly' BY <1>9 DEF Fail, SeesTruly, Seen
  <2> QED BY <2>1, <2>2
<1> QED
  BY <1>1, <1>2, <1>3, <1>4, <1>5, <1>6, <1>7, <1>8, <1>9 DEF Deliver

LEMMA TurnAct ==
  ASSUME TurnInv, NEW d \in Devices, Act(d)
  PROVE TurnInv'
<1> USE DEF TurnInv, TurnTypes, InTurn, setup, turn, listing, store, history, bounds,
            DevicesOf, SubsOf
<1>1. CASE Connect(d)
  <2>1. UNCHANGED <<owner, subs, app, pc, todo, account, sops, online, socket, sent>>
    BY <1>1 DEF Connect
  <2>2. /\ stream' \in [Devices -> {"none", "token", "session"}]
        /\ \A e \in Devices \ {d} : stream'[e] = stream[e]
    BY <1>1 DEF Connect
  <2>3. \A m \in Deliveries : steady'[m] = steady[m] \ {d}
    BY <1>1 DEF Connect, Move
  <2>4. TurnTypes'
    BY <1>1, <2>1, <2>2 DEF Connect, Move
  <2>5. ASSUME NEW m \in Deliveries, NEW e \in steady'[m], Seen(m, e)
        PROVE  Seen(m, e)'
    <3>1. stream'[e] = stream[e]
      BY <2>2, <2>3
    <3> QED
      BY <2>1, <2>5, <3>1 DEF Seen
  <2>6. SeesTruly'
    BY <2>1, <2>3, <2>5 DEF SeesTruly
  <2> QED
    BY <2>4, <2>6
<1>2. CASE Read(d)
  BY <1>2 DEF Read, SeesTruly, Seen
<1>3. CASE MarkRead(d)
  BY <1>3 DEF MarkRead, SeesTruly, Seen
<1>4. CASE Disconnect(d)
  BY <1>4 DEF Disconnect, Move, SeesTruly, Seen
<1>5. CASE ToggleSocket(d)
  <2>1. UNCHANGED <<owner, subs, app, pc, todo, account, sops, online, stream, sent>>
    BY <1>5 DEF ToggleSocket
  <2>2. PICK ns \in {Solian, app} :
            socket' = [socket EXCEPT ![d] = IF ns \in @ THEN @ \ {ns} ELSE @ \union {ns}]
    BY <1>5 DEF ToggleSocket
  <2>3. \A m \in Deliveries : steady'[m] = steady[m] \ {d}
    BY <1>5 DEF ToggleSocket, Move
  <2>4. socket' \in [Devices -> SUBSET Namespaces]
    <3>1. ns \in Namespaces
      BY DeliveryConstants
    <3> QED
      BY <2>2, <3>1
  <2>5. TurnTypes'
    BY <1>5, <2>1, <2>4 DEF ToggleSocket, Move
  <2>6. ASSUME NEW m \in Deliveries, NEW e \in steady'[m], Seen(m, e)
        PROVE  Seen(m, e)'
    <3>1. socket'[e] = socket[e]
      BY <2>2, <2>3
    <3> QED
      BY <2>1, <2>6, <3>1 DEF Seen
  <2>7. SeesTruly'
    BY <2>1, <2>3, <2>6 DEF SeesTruly
  <2> QED
    BY <2>5, <2>7
<1>6. CASE List(d)
  BY <1>6 DEF List, connection, SeesTruly, Seen
<1>7. CASE MarkListed(d)
  BY <1>7 DEF MarkListed, connection, SeesTruly, Seen
<1>8. CASE RemoveListed(d)
  BY <1>8 DEF RemoveListed, connection, SeesTruly, Seen
<1> QED
  BY <1>1, <1>2, <1>3, <1>4, <1>5, <1>6, <1>7, <1>8 DEF Act

LEMMA TurnNext == TurnInv /\ [Next]_vars => TurnInv'
<1> SUFFICES ASSUME TurnInv, [Next]_vars PROVE TurnInv'
  OBVIOUS
<1>1. CASE \E n \in Deliveries : Deliver(n)
  BY <1>1, TurnDeliver
<1>2. CASE \E d \in Devices : Act(d)
  BY <1>2, TurnAct
<1>3. CASE Crash
  BY <1>3 DEF Crash, Running, TurnInv, TurnTypes, InTurn, SeesTruly, Seen,
              SubsOf, setup, store, history
<1>4. CASE UNCHANGED vars
  BY <1>4 DEF vars, TurnInv, TurnTypes, InTurn, SeesTruly, Seen, SubsOf,
              setup, turn, connection, listing, store, history
<1> QED
  BY <1>1, <1>2, <1>3, <1>4 DEF Next

----------------------------------------------------------------------------
(* The choice of a provider for a device of the account that is not online.  *)

(* If any of its subscriptions can carry the notification, one that pushes   *)
(* is chosen, as long as the device has no open stream.                      *)
LEMMA SomePushChosen ==
  ASSUME TurnInv, NEW n \in Deliveries, NEW d \in Devices,
         owner[d] = account[n], d \notin online[n], d \notin sops[n],
         \/ \E p \in {"Google", "UnifiedPush"} : <<d, p>> \in subs
         \/ <<d, "Appk">> \in subs /\ kind[n].voip
         \/ /\ <<d, "Apple">> \in subs
            /\ kind[n].voip => \A s \in SubsOf(owner[d]) : s[2] # "Appk"
  PROVE  \E s \in Chosen(n) : s[1] = d /\ s[2] # "Sop"
<1> DEFINE Rank(p) == Priority(n, <<d, p>>)
           Fit(p) == <<d, p>> \in subs /\ Compatible(n, p)
<1>1. \A s \in subs : s = <<s[1], s[2]>> /\ s[1] \in Devices /\ s[2] \in Providers
  BY DEF TurnInv, TurnTypes
<1>2. \A p : <<d, p>> \in subs => <<d, p>> \in Remaining(n)
  BY DEF Remaining, SubsOf
<1>3. ASSUME NEW p, Fit(p), p # "Sop",
             \A q \in Providers : Fit(q) => Rank(q) <= Rank(p)
      PROVE  \E s \in Chosen(n) : s[1] = d /\ s[2] # "Sop"
  <2>1. <<d, p>> \in Remaining(n) /\ Compatible(n, <<d, p>>[2])
    BY <1>2, <1>3
  <2>2. \A t \in Remaining(n) : Compatible(n, t[2]) /\ t[1] = d =>
            Priority(n, t) <= Priority(n, <<d, p>>)
    BY <1>1, <1>3 DEF Remaining, SubsOf
  <2>3. <<d, p>> \in Chosen(n)
    BY <2>1, <2>2 DEF Chosen
  <2> QED
    BY <2>3, <1>3
<1>4. Providers \subseteq {"Sop", "Google", "UnifiedPush", "Apple", "Appk"}
  BY DeliveryConstants
<1>5. /\ Rank("Sop") = 0 /\ Rank("Google") = 2 /\ Rank("UnifiedPush") = 1
      /\ Rank("Appk") = IF kind[n].voip THEN 4 ELSE 0
      /\ Rank("Apple") = IF kind[n].voip THEN 3 ELSE 4
  BY DEF Priority
<1> HIDE DEF Rank
<1>6. Fit("Appk") => kind[n].voip
  BY DEF Compatible
<1>7. \/ Fit("Google") \/ Fit("UnifiedPush") \/ Fit("Appk") \/ Fit("Apple")
  BY DEF Compatible, Remaining
<1> HIDE DEF Fit
<1>8. CASE kind[n].voip
  <2>1. CASE Fit("Appk")
    <3>1. \A q \in Providers : Rank(q) <= 4
      BY <1>4, <1>5, <1>8
    <3>2. Rank("Appk") = 4
      BY <1>5, <1>8
    <3> QED
      BY <1>3, <2>1, <3>1, <3>2
  <2>2. CASE ~Fit("Appk") /\ Fit("Apple")
    BY <1>3, <1>4, <1>5, <1>8, <2>2
  <2>3. CASE ~Fit("Appk") /\ ~Fit("Apple") /\ Fit("Google")
    BY <1>3, <1>4, <1>5, <1>8, <2>3
  <2>4. CASE ~Fit("Appk") /\ ~Fit("Apple") /\ ~Fit("Google") /\ Fit("UnifiedPush")
    BY <1>3, <1>4, <1>5, <1>8, <2>4
  <2> QED
    BY <1>7, <2>1, <2>2, <2>3, <2>4
<1>9. CASE ~kind[n].voip
  <2>1. CASE Fit("Apple")
    BY <1>3, <1>4, <1>5, <1>6, <1>9, <2>1
  <2>2. CASE ~Fit("Apple") /\ Fit("Google")
    BY <1>3, <1>4, <1>5, <1>6, <1>9, <2>2
  <2>3. CASE ~Fit("Apple") /\ ~Fit("Google") /\ Fit("UnifiedPush")
    BY <1>3, <1>4, <1>5, <1>6, <1>9, <2>3
  <2> QED
    BY <1>6, <1>7, <1>9, <2>1, <2>2, <2>3
<1> QED
  BY <1>8, <1>9

(* A device with an open stream and a SOP subscription is not pushed to. *)
LEMMA OnlySopChosen ==
  ASSUME TurnInv, NEW n \in Deliveries, NEW d \in Devices,
         owner[d] = account[n], d \in sops[n], HasSop(d),
         NEW s \in Chosen(n), s[1] = d
  PROVE  s[2] = "Sop"
<1>1. s \in Remaining(n) /\ s[2] \in Providers /\ s = <<d, s[2]>> /\ d \notin online[n]
  BY DEF Chosen, Remaining, SubsOf, TurnInv, TurnTypes
<1>2. <<d, "Sop">> \in Remaining(n) /\ Compatible(n, "Sop")
  BY <1>1 DEF HasSop, Remaining, SubsOf, Compatible
<1>3. Priority(n, <<d, "Sop">>) <= Priority(n, s)
  BY <1>1, <1>2 DEF Chosen
<1>4. Priority(n, <<d, "Sop">>) = 5
  BY DEF Priority
<1>5. s[2] \in {"Sop", "Google", "UnifiedPush", "Apple", "Appk"}
  BY <1>1, DeliveryConstants
<1>6. s[2] # "Sop" => Priority(n, s) \in 0..4
  BY <1>5 DEF Priority
<1> QED
  BY <1>3, <1>4, <1>6

----------------------------------------------------------------------------

(* Only these steps end a turn. *)
LEMMA TurnEnds ==
  ASSUME TurnInv, Next, NEW n \in Deliveries, AfterTurn(n)
  PROVE  (PublishWebSocket(n) /\ SubsOf(account[n]) = {}) \/ Push(n)
<1> USE DEF TurnInv, TurnTypes, InTurn, AfterTurn
<1>1. CASE \E m \in Deliveries : Deliver(m)
  <2>1. PICK m \in Deliveries : Deliver(m)
    BY <1>1
  <2>2. m = n
    BY <2>1 DEF Deliver, Begin, NextAccount, AppendReplay, Broadcast, AskPresence, HoldSops,
                PublishWebSocket, Push, Fail
  <2>3. PublishWebSocket(n) \/ Push(n)
    BY <2>1, <2>2 DEF Deliver, Begin, NextAccount, AppendReplay, Broadcast, AskPresence,
                      HoldSops, Fail
  <2> QED
    BY <2>3 DEF PublishWebSocket
<1>2. CASE \E d \in Devices : Act(d)
  BY <1>2 DEF Act, Connect, Read, MarkRead, Disconnect, ToggleSocket, List, MarkListed,
              RemoveListed, turn
<1>3. CASE Crash
  BY <1>3 DEF Crash, Running
<1> QED
  BY <1>1, <1>2, <1>3 DEF Next

LEMMA ReachedStep ==
  ASSUME TurnInv, Next, NEW n \in Deliveries, AfterTurn(n),
         NEW d \in steady[n], Reachable(n, d)
  PROVE  PathsTo(n, d)' # {}
<1>1. d \in Devices /\ Seen(n, d)
  BY DEF TurnInv, TurnTypes, SeesTruly, InTurn, AfterTurn
<1>2. SUFFICES \E p \in {"stream", "websocket", "push"} : <<n, d, p>> \in sent'
  BY DEF PathsTo
<1>3. CASE PublishWebSocket(n) /\ SubsOf(account[n]) = {}
  <2>1. \A p : <<d, p>> \notin subs
    BY <1>1, <1>3 DEF SubsOf, Seen
  <2>2. stream[d] # "none" \/ app \in socket[d]
    BY <2>1 DEF Reachable
  <2>3. CASE stream[d] # "none"
    BY <1>1, <1>3, <2>3 DEF PublishWebSocket, Seen
  <2>4. CASE app \in socket[d]
    BY <1>1, <1>3, <2>4 DEF PublishWebSocket, Exclusions, DevicesOf, Seen
  <2> QED
    BY <2>2, <2>3, <2>4
<1>4. CASE Push(n)
  <2>1. pc[n] = "push" /\ sent \subseteq sent'
    BY <1>4 DEF Push
  <2>2. CASE stream[d] # "none" \/ app \in socket[d]
    BY <1>1, <2>1, <2>2 DEF Seen, TurnInv, TurnTypes
  <2>3. CASE ~(stream[d] # "none" \/ app \in socket[d])
    <3>1. owner[d] = account[n] /\ d \notin online[n] /\ d \notin sops[n]
      BY <1>1, <2>3 DEF Seen, Reachable
    <3>2. \E s \in Chosen(n) : s[1] = d /\ s[2] # "Sop"
      BY <1>1, <2>3, <3>1, SomePushChosen DEF Reachable
    <3> QED
      BY <1>4, <3>2 DEF Push
  <2> QED
    BY <2>2, <2>3
<1> QED
  BY <1>3, <1>4, TurnEnds

(* When a delivery is through with an account, each of its devices that stayed *)
(* as it was meanwhile and can be reached was sent the notification, for any   *)
(* devices, subscriptions and notifications, and whichever namespace the       *)
(* packets of their app go to (push.go 402-426).                               *)
THEOREM NobodyLeftOut == Spec => Reached
<1>1. TurnInv /\ [Next]_vars =>
          [\A n \in Deliveries : AfterTurn(n) =>
              \A d \in steady[n] : Reachable(n, d) => PathsTo(n, d)' # {}]_vars
  BY ReachedStep
<1> QED
  BY <1>1, TurnInit, TurnNext, PTL DEF Spec, Reached

LEMMA OnlyOnceStep ==
  ASSUME TurnInv, Next, NEW n \in Deliveries, AfterTurn(n), NEW d \in steady[n],
         stream[d] # "none" => HasSop(d),
         stream[d] = "none" /\ app \in socket[d] /\ (\E s \in subs : s[1] = d)
             => d \in online[n]
  PROVE  Cardinality(PathsTo(n, d)') <= 1
<1>1. d \in Devices /\ Seen(n, d)
  BY DEF TurnInv, TurnTypes, SeesTruly, InTurn, AfterTurn
<1>2. ASSUME Push(n), NEW s \in Chosen(n), s[1] = d, s[2] # "Sop"
      PROVE  stream[d] = "none" /\ app \notin socket[d]
  <2>1. stream[d] = "none"
    BY <1>1, <1>2, OnlySopChosen DEF Seen
  <2>2. s \in subs /\ d \notin online[n]
    BY <1>2 DEF Chosen, Remaining, SubsOf
  <2> QED
    BY <1>2, <2>1, <2>2
<1>3. PICK q \in {"stream", "websocket", "push"} : PathsTo(n, d)' \subseteq {q}
  <2>1. CASE PublishWebSocket(n) /\ SubsOf(account[n]) = {}
    <3>1. stream[d] = "none" /\ pc[n] = "publish"
      BY <1>1, <2>1 DEF PublishWebSocket, HasSop, SubsOf, Seen
    <3>2. PathsTo(n, d)' \subseteq {"websocket"}
      BY <1>1, <2>1, <3>1 DEF PublishWebSocket, PathsTo, Seen
    <3> QED
      BY <3>2
  <2>2. CASE Push(n)
    <3>1. \A p : <<n, d, p>> \in sent' =>
              \/ <<n, d, p>> \in sent
              \/ p = "push" /\ \E s \in Chosen(n) : s[1] = d /\ s[2] # "Sop"
      BY <2>2 DEF Push
    <3>2. CASE stream[d] # "none"
      <4>1. PathsTo(n, d)' \subseteq {"stream"}
        BY <1>1, <1>2, <2>2, <3>1, <3>2 DEF PathsTo, Seen
      <4> QED BY <4>1
    <3>3. CASE stream[d] = "none" /\ app \in socket[d]
      <4>1. PathsTo(n, d)' \subseteq {"websocket"}
        BY <1>1, <1>2, <2>2, <3>1, <3>3 DEF PathsTo, Seen
      <4> QED BY <4>1
    <3>4. CASE stream[d] = "none" /\ app \notin socket[d]
      <4>1. PathsTo(n, d)' \subseteq {"push"}
        BY <1>1, <3>1, <3>4 DEF PathsTo, Seen
      <4> QED BY <4>1
    <3> QED
      BY <3>2, <3>3, <3>4
  <2> QED
    BY <2>1, <2>2, TurnEnds
<1>4. PathsTo(n, d)' = {} \/ PathsTo(n, d)' = {q}
  BY <1>3
<1>5. Cardinality({q}) = 1 /\ Cardinality({}) = 0
  BY FS_Singleton, FS_EmptySet
<1> QED
  BY <1>4, <1>5

(* No turn gives a device that stayed as it was the notification by two paths, *)
(* in the namespace of any app and whatever its sockets, but for the cases     *)
(* that OnlyOnce names (push.go 402-421).                                      *)
THEOREM NobodyTwice == Spec => OnlyOnce
<1>1. TurnInv /\ [Next]_vars =>
          [\A n \in Deliveries : AfterTurn(n) =>
              \A d \in steady[n] :
                  /\ stream[d] # "none" => HasSop(d)
                  /\ stream[d] = "none" /\ app \in socket[d] /\ (\E s \in subs : s[1] = d)
                         => d \in online[n]
                  => Cardinality(PathsTo(n, d)') <= 1]_vars
  BY OnlyOnceStep
<1> QED
  BY <1>1, TurnInit, TurnNext, PTL DEF Spec, OnlyOnce

----------------------------------------------------------------------------
(* The replay buffers *)

LEMMA LeastElement ==
  ASSUME NEW T \in SUBSET Nat, T # {}
  PROVE  \E x \in T : \A y \in T : x <= y
<1> DEFINE R == {p \in Nat \X Nat : p[1] < p[2]}
<1>1. IsWellFoundedOn(R, Nat)
  BY NatLessThanWellFounded DEF OpToRel
<1>2. \A x, y \in Nat : <<y, x>> \in R <=> y < x
  OBVIOUS
<1> HIDE DEF R
<1>3. \E x \in T : \A y \in T : ~ (<<y, x>> \in R)
  <2>1. T \subseteq Nat
    OBVIOUS
  <2> QED
    BY ONLY <1>1, WFMin, <2>1, T # {}, Zenon
<1>4. PICK x \in T : \A y \in T : ~ (<<y, x>> \in R)
  BY <1>3
<1>5. \A y \in T : ~ (y < x)
  BY <1>2, <1>4
<1> QED
  BY <1>5

(* Newest keeps at most MaxReplay notifications: all of them but the oldest *)
(* are newer than the oldest, which has fewer than MaxReplay newer ones.    *)
LEMMA NewestIsCapped ==
  ASSUME NEW s \in SUBSET Deliveries
  PROVE  Newest(s) \subseteq s /\ Cardinality(Newest(s)) <= MaxReplay
<1>1. Newest(s) \subseteq s /\ IsFiniteSet(s) /\ s \subseteq Nat
  BY DeliveryConstants, FS_Subset DEF Newest
<1>2. IsFiniteSet(Newest(s)) /\ MaxReplay \in Nat
  BY <1>1, FS_Subset, DeliveryConstants
<1>3. CASE Newest(s) = {}
  BY <1>1, <1>2, <1>3, FS_EmptySet
<1>4. CASE Newest(s) # {}
  <2>1. PICK t \in Newest(s) : \A m \in Newest(s) : t <= m
    BY <1>1, <1>4, LeastElement
  <2> DEFINE newer == {m \in s : m > t}
  <2>2. Cardinality(newer) < MaxReplay
    BY <2>1 DEF Newest
  <2>3. Newest(s) \ {t} \subseteq newer
    <3>1. \A m, k \in Nat : k <= m /\ m # k => m > k
      OBVIOUS
    <3>2. \A m \in Newest(s) : m \in Nat /\ m \in s
      BY <1>1
    <3> QED
      BY <2>1, <3>1, <3>2
  <2>4. IsFiniteSet(newer) /\ Cardinality(newer) \in Nat
    BY <1>1, FS_Subset, FS_CardinalityType
  <2> HIDE DEF newer
  <2>5. Cardinality(Newest(s) \ {t}) <= Cardinality(newer)
    BY <2>3, <2>4, FS_Subset
  <2>6. Cardinality(Newest(s) \ {t}) = Cardinality(Newest(s)) - 1
    BY <1>2, <2>1, FS_RemoveElement
  <2>7. Cardinality(Newest(s)) \in Nat
    BY <1>2, FS_CardinalityType
  <2> QED
    BY <1>1, <1>2, <2>2, <2>4, <2>5, <2>6, <2>7
<1> QED
  BY <1>3, <1>4

(* The notifications newer than n that a buffer was ever given *)
Since(n, a) == {m \in Deliveries : m > n /\ fate[m][a] \in {"kept", "taken"}}

BufferTypes ==
    /\ replay \in [Accounts -> SUBSET Deliveries]
    /\ \A a \in Accounts : Cardinality(replay[a]) <= MaxReplay
    /\ fate \in [Deliveries -> [Accounts -> {"none", "kept", "lost", "taken"}]]

(* What is in a buffer was put there and not taken. *)
Buffered == \A a \in Accounts : \A n \in replay[a] : fate[n][a] = "kept"

BufferInv == TurnInv /\ BufferTypes /\ Buffered /\ Kept

LEMMA BufferInit == Init => BufferInv
<1> SUFFICES ASSUME Init PROVE BufferInv
  OBVIOUS
<1>1. BufferTypes
  BY FS_EmptySet, DeliveryConstants DEF Init, BufferTypes
<1>2. Buffered /\ Kept
  BY DEF Init, Buffered, Kept
<1> QED
  BY <1>1, <1>2, TurnInit DEF BufferInv

(* Kept stays true when a buffer only loses what has Max newer ones or is no *)
(* longer called kept.                                                       *)
LEMMA KeptStays ==
  ASSUME Kept,
         \A n \in Deliveries, a \in Accounts : Since(n, a) \subseteq Since(n, a)',
         \A n \in Deliveries, a \in Accounts :
             fate'[n][a] = "kept" =>
                 \/ n \in replay'[a]
                 \/ Cardinality(Since(n, a)') >= MaxReplay
                 \/ fate[n][a] = "kept" /\ n \notin replay[a]
  PROVE  Kept'
<1> SUFFICES ASSUME NEW n \in Deliveries, NEW a \in Accounts, fate'[n][a] = "kept",
                    n \notin replay'[a]
             PROVE  Cardinality(Since(n, a)') >= MaxReplay
  BY DEF Kept, Since
<1>1. CASE fate[n][a] = "kept" /\ n \notin replay[a]
  <2>1. Cardinality(Since(n, a)) >= MaxReplay
    BY <1>1 DEF Kept, Since
  <2>2. IsFiniteSet(Since(n, a)') /\ IsFiniteSet(Since(n, a))
    BY DeliveryConstants, FS_Subset DEF Since
  <2>3. Cardinality(Since(n, a)) <= Cardinality(Since(n, a)')
    BY <2>2, FS_Subset
  <2> QED
    BY <2>1, <2>2, <2>3, FS_CardinalityType, DeliveryConstants
<1> QED
  BY <1>1

LEMMA BufferAppend ==
  ASSUME BufferInv, NEW n \in Deliveries, AppendReplay(n)
  PROVE  BufferTypes' /\ Buffered' /\ Kept'
<1> DEFINE a == account[n]
           s == replay[a] \union {n}
           lost == IF fate[n][a] = "none" THEN "lost" ELSE fate[n][a]
<1>1. a \in Accounts
  BY DEF AppendReplay, BufferInv, TurnInv, SeesTruly, InTurn
<1>2. s \in SUBSET Deliveries
  BY <1>1 DEF BufferInv, BufferTypes
<1>3. \/ UNCHANGED <<replay, fate>>
      \/ UNCHANGED replay /\ fate' = [fate EXCEPT ![n][a] = lost]
      \/ replay' = [replay EXCEPT ![a] = Newest(s)] /\ fate' = [fate EXCEPT ![n][a] = "kept"]
  BY <1>1 DEF AppendReplay, BufferInv, BufferTypes
<1>4. CASE UNCHANGED <<replay, fate>>
  BY <1>4 DEF BufferInv, BufferTypes, Buffered, Kept
<1>5. CASE UNCHANGED replay /\ fate' = [fate EXCEPT ![n][a] = lost]
  <2>1. \A m \in Deliveries, b \in Accounts :
            \/ fate'[m][b] = fate[m][b]
            \/ fate[m][b] = "none" /\ fate'[m][b] = "lost"
    BY <1>1, <1>5 DEF BufferInv, BufferTypes
  <2>2. fate' \in [Deliveries -> [Accounts -> {"none", "kept", "lost", "taken"}]]
    BY <1>1, <1>5 DEF BufferInv, BufferTypes
  <2> HIDE DEF lost
  <2>3. BufferTypes' /\ Buffered'
    BY <1>5, <2>1, <2>2 DEF BufferInv, BufferTypes, Buffered
  <2>4. \A m \in Deliveries, b \in Accounts : Since(m, b) \subseteq Since(m, b)'
    BY <2>1 DEF Since
  <2>5. \A m \in Deliveries, b \in Accounts : fate'[m][b] = "kept" => fate[m][b] = "kept"
    BY <2>1
  <2>6. Kept'
    BY <1>5, <2>4, <2>5, KeptStays DEF BufferInv
  <2> QED
    BY <2>3, <2>6
<1>6. CASE replay' = [replay EXCEPT ![a] = Newest(s)] /\ fate' = [fate EXCEPT ![n][a] = "kept"]
  <2>1. Newest(s) \subseteq s /\ Cardinality(Newest(s)) <= MaxReplay
    BY <1>2, NewestIsCapped
  <2>2. \A m \in s : fate'[m][a] = "kept"
    BY <1>1, <1>2, <1>6 DEF BufferInv, BufferTypes, Buffered
  <2>3. BufferTypes'
    BY <1>1, <1>2, <1>6, <2>1 DEF BufferInv, BufferTypes
  <2>4. Buffered'
    <3>1. \A b \in Accounts : b # a => replay'[b] = replay[b]
      BY <1>6 DEF BufferInv, BufferTypes
    <3>2. \A m \in Deliveries, b \in Accounts : b # a => fate'[m][b] = fate[m][b]
      BY <1>1, <1>6 DEF BufferInv, BufferTypes
    <3>3. replay'[a] = Newest(s)
      BY <1>1, <1>6 DEF BufferInv, BufferTypes
    <3>4. \A b \in Accounts : replay[b] \subseteq Deliveries
      BY DEF BufferInv, BufferTypes
    <3> QED
      BY <2>1, <2>2, <3>1, <3>2, <3>3, <3>4 DEF Buffered, BufferInv
  <2>5. \A m \in Deliveries, b \in Accounts : Since(m, b) \subseteq Since(m, b)'
    BY <1>1, <1>6 DEF Since, BufferInv, BufferTypes
  <2>6. ASSUME NEW m \in Deliveries, NEW b \in Accounts, fate'[m][b] = "kept"
        PROVE  \/ m \in replay'[b]
               \/ Cardinality(Since(m, b)') >= MaxReplay
               \/ fate[m][b] = "kept" /\ m \notin replay[b]
    <3>1. CASE b # a
      BY <1>1, <1>6, <2>6, <3>1 DEF BufferInv, BufferTypes
    <3>2. CASE b = a /\ m \notin s
      BY <1>1, <1>6, <2>6, <3>2 DEF BufferInv, BufferTypes
    <3>3. CASE b = a /\ m \in s \ Newest(s)
      <4> DEFINE newer == {k \in s : k > m}
      <4>1. IsFiniteSet(newer) /\ IsFiniteSet(Since(m, b)')
        BY <1>2, DeliveryConstants, FS_Subset DEF Since
      <4>2. Cardinality(newer) \in Nat /\ Cardinality(Since(m, b)') \in Nat /\ MaxReplay \in Nat
        BY <4>1, FS_CardinalityType, DeliveryConstants
      <4>3. ~ (Cardinality(newer) < MaxReplay)
        BY <3>3 DEF Newest
      <4>4. newer \subseteq Since(m, b)'
        BY <1>2, <2>2, <3>3 DEF Since
      <4> HIDE DEF newer
      <4>5. Cardinality(newer) <= Cardinality(Since(m, b)')
        BY <4>1, <4>4, FS_Subset
      <4> QED
        BY <4>2, <4>3, <4>5
    <3>4. CASE b = a /\ m \in Newest(s)
      BY <1>1, <1>6, <3>4 DEF BufferInv, BufferTypes
    <3> QED
      BY <3>1, <3>2, <3>3, <3>4
  <2>7. Kept'
    BY <2>5, <2>6, KeptStays DEF BufferInv
  <2> QED
    BY <2>3, <2>4, <2>7
<1> QED
  BY <1>3, <1>4, <1>5, <1>6

LEMMA BufferRemove ==
  ASSUME BufferInv, NEW d \in Devices, RemoveListed(d)
  PROVE  BufferTypes' /\ Buffered' /\ Kept'
<1> DEFINE a == owner[d]
           gone == page[d] \intersect replay[a]
<1>1. a \in Accounts
  BY DEF RemoveListed, BufferInv, TurnInv, TurnTypes
<1>2. \/ UNCHANGED <<replay, fate>>
      \/ /\ replay' = [replay EXCEPT ![a] = @ \ page[d]]
         /\ fate' = [n \in Deliveries |->
                        IF n \in gone THEN [fate[n] EXCEPT ![a] = "taken"] ELSE fate[n]]
  BY DEF RemoveListed, RemoveNotifications
<1>3. CASE UNCHANGED <<replay, fate>>
  BY <1>1, <1>3 DEF BufferInv, BufferTypes, Buffered, Kept
<1>4. CASE /\ replay' = [replay EXCEPT ![a] = @ \ page[d]]
           /\ fate' = [n \in Deliveries |->
                          IF n \in gone THEN [fate[n] EXCEPT ![a] = "taken"] ELSE fate[n]]
  <2>1. \A n \in gone : fate[n][a] = "kept"
    BY <1>1 DEF BufferInv, Buffered
  <2>2. BufferTypes'
    <3>1. Cardinality(replay[a] \ page[d]) <= MaxReplay
      <4>1. IsFiniteSet(replay[a])
        BY <1>1, DeliveryConstants, FS_Subset DEF BufferInv, BufferTypes
      <4>2. Cardinality(replay[a] \ page[d]) <= Cardinality(replay[a])
        BY <4>1, FS_Subset
      <4>3. /\ Cardinality(replay[a]) \in Nat /\ Cardinality(replay[a] \ page[d]) \in Nat
            /\ Cardinality(replay[a]) <= MaxReplay /\ MaxReplay \in Nat
        BY <1>1, <4>1, FS_Subset, FS_CardinalityType, DeliveryConstants
           DEF BufferInv, BufferTypes
      <4> QED
        BY <4>2, <4>3
    <3> QED
      BY <1>1, <1>4, <3>1 DEF BufferInv, BufferTypes
  <2>3. \A n \in Deliveries, b \in Accounts :
            fate'[n][b] = IF n \in gone /\ b = a THEN "taken" ELSE fate[n][b]
    BY <1>1, <1>4 DEF BufferInv, BufferTypes
  <2>4. Buffered'
    BY <1>1, <1>4, <2>3 DEF BufferInv, BufferTypes, Buffered
  <2>5. \A n \in Deliveries, b \in Accounts : Since(n, b) \subseteq Since(n, b)'
    BY <2>3 DEF Since
  <2>6. \A n \in Deliveries, b \in Accounts :
            fate'[n][b] = "kept" => \/ n \in replay'[b]
                                    \/ fate[n][b] = "kept" /\ n \notin replay[b]
    BY <1>1, <1>4, <2>3 DEF BufferInv, BufferTypes
  <2>7. Kept'
    BY <2>5, <2>6, KeptStays DEF BufferInv
  <2> QED
    BY <2>2, <2>4, <2>7
<1> QED
  BY <1>2, <1>3, <1>4

LEMMA BufferNext == BufferInv /\ [Next]_vars => BufferInv'
<1> SUFFICES ASSUME BufferInv, [Next]_vars PROVE BufferTypes' /\ Buffered' /\ Kept'
  BY TurnNext DEF BufferInv
<1> USE DEF BufferInv, TurnInv, TurnTypes, store, history, turn
<1>1. ASSUME UNCHANGED <<replay, fate>>
      PROVE  BufferTypes' /\ Buffered' /\ Kept'
  BY <1>1 DEF BufferTypes, Buffered, Kept
<1>2. CASE \E n \in Deliveries : Deliver(n)
  <2>1. PICK n \in Deliveries : Deliver(n)
    BY <1>2
  <2>2. CASE AppendReplay(n)
    BY <2>2, BufferAppend
  <2>3. CASE Begin(n)
    BY <1>1, <2>3 DEF Begin
  <2>4. CASE NextAccount(n)
    BY <1>1, <2>4 DEF NextAccount
  <2>5. CASE Broadcast(n) \/ AskPresence(n) \/ HoldSops(n)
    BY <1>1, <2>5 DEF Broadcast, AskPresence, HoldSops
  <2>6. CASE PublishWebSocket(n) \/ Push(n) \/ Fail(n)
    BY <1>1, <2>6 DEF PublishWebSocket, Push, Fail
  <2> QED
    BY <2>1, <2>2, <2>3, <2>4, <2>5, <2>6 DEF Deliver
<1>3. CASE \E d \in Devices : Act(d)
  <2>1. PICK d \in Devices : Act(d)
    BY <1>3
  <2>2. CASE RemoveListed(d)
    BY <2>2, BufferRemove
  <2>3. CASE ~ RemoveListed(d)
    BY <1>1, <2>1, <2>3 DEF Act, Connect, Read, MarkRead, Disconnect, ToggleSocket, Move,
                            List, MarkListed
  <2> QED
    BY <2>2, <2>3
<1>4. CASE Crash
  BY <1>1, <1>4 DEF Crash
<1>5. CASE UNCHANGED vars
  BY <1>1, <1>5 DEF vars
<1> QED
  BY <1>2, <1>3, <1>4, <1>5 DEF Next

(* What was put in a replay buffer stays until a list takes it or MaxReplay *)
(* newer ones came, for any cap (replay.go 55-107).                         *)
THEOREM BuffersKeep == Spec => []Kept
<1>1. BufferInv => Kept
  BY DEF BufferInv
<1> QED
  BY <1>1, BufferInit, BufferNext, PTL DEF Spec

----------------------------------------------------------------------------

(* The types that no other part of the proof needs *)
RestTypes ==
    /\ kind \in [Deliveries -> Kinds]
    /\ moves \in 0..MaxMoves /\ faults \in 0..MaxFaults
    /\ sent \subseteq Deliveries \X Devices \X {"stream", "websocket", "push"}

LEMMA RestNext == TurnInv /\ RestTypes /\ [Next]_vars => RestTypes'
<1> SUFFICES ASSUME TurnInv, RestTypes, [Next]_vars PROVE RestTypes'
  OBVIOUS
<1> USE DeliveryConstants DEF RestTypes, setup, bounds, history
<1>1. ASSUME NEW n \in Deliveries, Deliver(n)
      PROVE  RestTypes'
  <2>1. CASE Begin(n) \/ NextAccount(n) \/ AppendReplay(n) \/ AskPresence(n) \/ HoldSops(n)
             \/ Fail(n)
    BY <2>1 DEF Begin, NextAccount, AppendReplay, AskPresence, HoldSops, Fail, Fault
  <2>2. CASE Broadcast(n) \/ PublishWebSocket(n)
    BY <2>2 DEF Broadcast, PublishWebSocket, DevicesOf
  <2>3. CASE Push(n)
    <3>1. \A s \in Chosen(n) : s[1] \in Devices
      BY DEF Chosen, Remaining, SubsOf, TurnInv, TurnTypes
    <3> QED
      BY <2>3, <3>1 DEF Push
  <2> QED
    BY <1>1, <2>1, <2>2, <2>3 DEF Deliver
<1>2. ASSUME NEW d \in Devices, Act(d)
      PROVE  RestTypes'
  BY <1>2 DEF Act, Connect, Read, MarkRead, Disconnect, ToggleSocket, Move, List, MarkListed,
              RemoveListed, Fault
<1>3. CASE Crash
  BY <1>3 DEF Crash, Fault
<1>4. CASE UNCHANGED vars
  BY <1>4 DEF vars
<1> QED
  BY <1>1, <1>2, <1>3, <1>4 DEF Next

(* Every variable has its type, and no replay buffer exceeds its cap, whatever *)
(* the cap (replay.go 69-74).                                                  *)
THEOREM TypesHold == Spec => []TypeOK
<1> DEFINE All == ReceiptsInv /\ BufferInv /\ RestTypes
<1>1. Init => All
  <2>1. Init => RestTypes
    BY DeliveryConstants DEF Init, RestTypes
  <2> QED
    BY <2>1, ReceiptsInit, BufferInit
<1>2. All /\ [Next]_vars => All'
  BY ReceiptsNext, BufferNext, RestNext DEF BufferInv
<1>3. All => TypeOK
  BY DEF ReceiptsInv, Types, BufferInv, BufferTypes, TurnInv, TurnTypes, InTurn, RestTypes,
         TypeOK
<1> QED
  BY <1>1, <1>2, <1>3, PTL DEF Spec

----------------------------------------------------------------------------

(* Until its turn is over, a notification that is to be stored is, and one   *)
(* that is not was offered to the replay buffer of an account with a SOP      *)
(* device.                                                                    *)
Secured ==
    \A n \in Deliveries :
        /\ kind[n].save /\ pc[n] \in {"next"} \union InTurn =>
               \A a \in Named(n) : n \in stored[a]
        /\ kind[n].save /\ pc[n] \in InTurn => n \in stored[account[n]]
        /\ pc[n] \in InTurn \ {"replay"} /\ ShouldQueueSopReplay(n) =>
               fate[n][account[n]] # "none"

SecuredInv == BufferInv /\ stored \in [Accounts -> SUBSET Deliveries] /\ Secured

LEMMA AppendDecides ==
  ASSUME BufferInv, NEW n \in Deliveries, AppendReplay(n)
  PROVE  /\ \A m \in Deliveries, a \in Accounts : fate[m][a] # "none" => fate'[m][a] # "none"
         /\ ShouldQueueSopReplay(n) => fate'[n][account[n]] # "none"
<1>1. /\ account[n] \in Accounts
      /\ fate \in [Deliveries -> [Accounts -> {"none", "kept", "lost", "taken"}]]
  BY DEF AppendReplay, BufferInv, BufferTypes, TurnInv, SeesTruly, InTurn
<1>2. \/ ~ShouldQueueSopReplay(n) /\ UNCHANGED fate
      \/ fate' = [fate EXCEPT ![n][account[n]] = "kept"]
      \/ fate' = [fate EXCEPT ![n][account[n]] =
                     IF fate[n][account[n]] = "none" THEN "lost" ELSE fate[n][account[n]]]
  BY <1>1 DEF AppendReplay
<1> QED
  BY <1>1, <1>2

LEMMA RemoveForgetsNothing ==
  ASSUME BufferInv, NEW d \in Devices, RemoveListed(d)
  PROVE  \A m \in Deliveries, a \in Accounts : fate[m][a] # "none" => fate'[m][a] # "none"
<1> DEFINE gone == page[d] \intersect replay[owner[d]]
<1>1. fate \in [Deliveries -> [Accounts -> {"none", "kept", "lost", "taken"}]]
  BY DEF BufferInv, BufferTypes
<1>2. \/ UNCHANGED fate
      \/ fate' = [n \in Deliveries |->
                     IF n \in gone THEN [fate[n] EXCEPT ![owner[d]] = "taken"] ELSE fate[n]]
  BY DEF RemoveListed
<1> HIDE DEF gone
<1> QED
  BY <1>1, <1>2

LEMMA SecuredNext == SecuredInv /\ [Next]_vars => SecuredInv'
<1> SUFFICES ASSUME SecuredInv, [Next]_vars
             PROVE  stored' \in [Accounts -> SUBSET Deliveries] /\ Secured'
  BY BufferNext DEF SecuredInv
<1> USE DEF setup, store, history, turn
<1>1. \A m \in Deliveries : pc[m] \in InTurn => account[m] \in Accounts
  BY DEF SecuredInv, BufferInv, TurnInv, SeesTruly
<1>2. stored \in [Accounts -> SUBSET Deliveries] /\ todo \in [Deliveries -> [Accounts -> 0..MaxNamed]]
      /\ pc \in [Deliveries -> {"idle", "next", "done", "failed"} \union InTurn]
      /\ account \in [Deliveries -> Accounts \union {"none"}]
  BY DEF SecuredInv, BufferInv, TurnInv, TurnTypes
(* A step keeps Secured if it brings a delivery into a turn only for one of *)
(* its recipients, and past the replay only when its fate is decided.       *)
<1>3. ASSUME UNCHANGED <<owner, subs, kind, stored>>,
             \A m \in Deliveries, a \in Accounts :
                 fate[m][a] # "none" => fate'[m][a] # "none",
             \A m \in Deliveries :
                 \/ /\ UNCHANGED <<pc[m], account[m], todo[m]>>
                 \/ /\ pc[m] \in InTurn /\ UNCHANGED <<account[m], todo[m]>>
                    /\ \/ pc[m] # "replay"
                       \/ pc'[m] \in {"failed", "next", "done"}
                       \/ ShouldQueueSopReplay(m) => fate'[m][account[m]] # "none"
                 \/ pc'[m] \in {"done", "failed"}
                 \/ /\ pc[m] = "next" /\ pc'[m] = "replay" /\ account'[m] \in Named(m)
                    /\ Named(m)' \subseteq Named(m)
      PROVE  stored' \in [Accounts -> SUBSET Deliveries] /\ Secured'
  <2>1. \A m \in Deliveries :
            account'[m] = account[m] => ShouldQueueSopReplay(m)' = ShouldQueueSopReplay(m)
    BY <1>3 DEF ShouldQueueSopReplay, HasSop, DevicesOf
  <2>2. ASSUME NEW m \in Deliveries, kind'[m].save, pc'[m] \in {"next"} \union InTurn,
               NEW a \in Named(m)'
        PROVE  m \in stored'[a]
    BY <1>3, <2>2 DEF Named, SecuredInv, Secured, InTurn
  <2>3. ASSUME NEW m \in Deliveries, kind'[m].save, pc'[m] \in InTurn
        PROVE  m \in stored'[account'[m]]
    BY <1>3, <2>3 DEF SecuredInv, Secured, InTurn
  <2>4. ASSUME NEW m \in Deliveries, pc'[m] \in InTurn \ {"replay"}, ShouldQueueSopReplay(m)'
        PROVE  fate'[m][account'[m]] # "none"
    BY <1>1, <1>3, <2>1, <2>4 DEF SecuredInv, Secured, InTurn
  <2> QED
    BY <1>2, <1>3, <2>2, <2>3, <2>4 DEF Secured
<1>4. ASSUME NEW n \in Deliveries, Deliver(n)
      PROVE  stored' \in [Accounts -> SUBSET Deliveries] /\ Secured'
  <2>1. CASE Begin(n)
    <3>1. /\ UNCHANGED <<owner, subs, kind, todo, account, fate>>
          /\ pc' = [pc EXCEPT ![n] = "next"]
      BY <2>1 DEF Begin
    <3>2. /\ stored' \in [Accounts -> SUBSET Deliveries]
          /\ \A a \in Accounts : stored[a] \subseteq stored'[a]
          /\ kind[n].save => \A a \in Named(n) : n \in stored'[a]
      BY <1>2, <2>1 DEF Begin, Named
    <3>3. \A m \in Deliveries : ShouldQueueSopReplay(m)' = ShouldQueueSopReplay(m)
      BY <3>1 DEF ShouldQueueSopReplay, HasSop, DevicesOf
    <3>4. \A m \in Deliveries : m # n => pc'[m] = pc[m]
      BY <1>2, <3>1
    <3>5. pc'[n] = "next"
      BY <1>2, <3>1
    <3> QED
      BY <1>1, <1>2, <3>1, <3>2, <3>3, <3>4, <3>5 DEF SecuredInv, Secured, Named, InTurn
  <2>2. CASE NextAccount(n)
    <3>1. /\ UNCHANGED <<owner, subs, kind, stored, fate>>
          /\ pc[n] = "next"
          /\ \A m \in Deliveries \ {n} : UNCHANGED <<pc[m], account[m], todo[m]>>
      BY <1>2, <2>2 DEF NextAccount
    <3>2. CASE pc' = [pc EXCEPT ![n] = "done"]
      BY <1>2, <1>3, <3>1, <3>2
    <3>3. ASSUME NEW a \in Named(n), pc'[n] = "replay", account'[n] = a,
                 todo' = [todo EXCEPT ![n][a] = @ - 1]
          PROVE  stored' \in [Accounts -> SUBSET Deliveries] /\ Secured'
      <4>1. a \in Accounts /\ todo[n] \in [Accounts -> 0..MaxNamed]
        BY <1>2 DEF Named
      <4>2. todo'[n] = [todo[n] EXCEPT ![a] = @ - 1]
        BY <1>2, <3>3
      <4>3. \A b \in Accounts : todo'[n][b] > 0 => todo[n][b] > 0
        BY <4>1, <4>2
      <4>4. Named(n)' \subseteq Named(n)
        BY <4>3 DEF Named
      <4> QED
        BY <1>3, <3>1, <3>3, <4>4
    <3> QED
      BY <1>2, <2>2, <3>2, <3>3 DEF NextAccount
  <2>3. CASE AppendReplay(n)
    <3>1. /\ UNCHANGED <<owner, subs, kind, stored, todo, account>>
          /\ pc[n] = "replay" /\ pc' = [pc EXCEPT ![n] = "broadcast"]
      BY <2>3 DEF AppendReplay
    <3> QED
      BY <1>2, <1>3, <2>3, <3>1, AppendDecides DEF SecuredInv, InTurn
  <2>4. CASE Broadcast(n) \/ AskPresence(n) \/ HoldSops(n)
    BY <1>2, <1>3, <2>4 DEF Broadcast, AskPresence, HoldSops, InTurn
  <2>5. CASE PublishWebSocket(n) \/ Push(n) \/ Fail(n)
    BY <1>2, <1>3, <2>5 DEF PublishWebSocket, Push, Fail, InTurn
  <2> QED
    BY <1>4, <2>1, <2>2, <2>3, <2>4, <2>5 DEF Deliver
<1>5. ASSUME NEW d \in Devices, Act(d)
      PROVE  stored' \in [Accounts -> SUBSET Deliveries] /\ Secured'
  <2>1. CASE RemoveListed(d)
    <3>1. UNCHANGED <<setup, turn, stored>>
      BY <2>1 DEF RemoveListed
    <3> QED
      BY <1>3, <2>1, <3>1, RemoveForgetsNothing DEF SecuredInv
  <2>2. CASE ~ RemoveListed(d)
    <3>1. UNCHANGED <<setup, turn, stored, fate>>
      BY <1>5, <2>2 DEF Act, Connect, Read, MarkRead, Disconnect, ToggleSocket, Move, List,
                        MarkListed
    <3> QED
      BY <1>3, <3>1
  <2> QED
    BY <2>1, <2>2
<1>6. CASE Crash
  BY <1>2, <1>3, <1>6 DEF Crash, Running
<1>7. CASE UNCHANGED vars
  BY <1>3, <1>7 DEF vars
<1> QED
  BY <1>4, <1>5, <1>6, <1>7 DEF Next

(* A SOP device that a delivery sent nothing can find the notification later, *)
(* for any devices and notifications (push.go 387-391).                       *)
THEOREM NothingUnrecoverable == Spec => Recoverable
<1>1. Init => SecuredInv
  BY BufferInit DEF Init, SecuredInv, Secured, InTurn
<1>2. SecuredInv /\ [Next]_vars =>
          [\A n \in Deliveries : AfterTurn(n) =>
              \A d \in DevicesOf(account[n]) :
                  HasSop(d) /\ PathsTo(n, d)' = {} =>
                      \/ n \in stored[account[n]]
                      \/ fate[n][account[n]] # "none"]_vars
  BY DEF SecuredInv, Secured, InTurn, AfterTurn, ShouldQueueSopReplay, BufferInv, TurnInv
<1> QED
  BY <1>1, <1>2, SecuredNext, PTL DEF Spec, Recoverable

=============================================================================

------------------------------ MODULE Delivery ------------------------------
(* The delivery of notifications in internal/push/push.go, by a worker of   *)
(* the queue (DeliverPushNotification) or a request (SendNotificationBatch): *)
(* for one account after the other, whose devices connect and disconnect    *)
(* meanwhile, it picks the path that reaches each device - its SOP stream,  *)
(* its websocket or a push - keeps what is not stored for SOP devices that  *)
(* list it later, and records what was held and what was read.  The written *)
(* items of a stream are a set here: SopStreams has their order.  The rows  *)
(* of Subscriptions do not change here.                                    *)
EXTENDS Integers, FiniteSets

CONSTANTS
    Accounts,
    Devices,       \* devices, by their normalised id
    Providers,     \* "Sop" and any of "Google", "UnifiedPush", "Apple", "Appk"
    Namespaces,    \* namespaces of the websocket service
    Solian,        \* the one that Resolve gives for an empty name
    Deliveries,    \* notifications, numbered in the order of created_at
    MaxNamed,      \* bound: how often a list of recipients names an account
    MaxReplay,     \* maxReplayNotifications, 100 in the code
    MaxMoves,      \* bound: connections, disconnections and lists
    MaxFaults      \* bound: failing calls and crashes

ASSUME DeliveryConstants ==
    /\ Deliveries \subseteq Nat /\ IsFiniteSet(Deliveries)
    /\ Providers \subseteq {"Sop", "Google", "UnifiedPush", "Apple", "Appk"}
    /\ Solian \in Namespaces
    /\ MaxNamed \in Nat
    /\ MaxReplay \in Nat \ {0}
    /\ MaxMoves \in Nat
    /\ MaxFaults \in Nat

VARIABLES
    owner,       \* the account each device is signed in to
    subs,        \* the active subscriptions, <<device, provider>>
    kind,        \* of each notification: a batch, to be stored, a VoIP call
    app,         \* the app they are of, which names a websocket namespace
    pc,          \* where each delivery stands
    todo,        \* how often each account is named among the recipients it
                 \* has not come to, those whose preference is Normal; never
                 \* if the notification is never sent
    account,     \* the one it has come to, if any
    sops,        \* the devices it saw connected to a SOP stream
    online,      \* the devices it saw connected to a Solian websocket
    stream,      \* each device's SOP stream: none, or opened by token or session
    socket,      \* the namespaces in which its websocket is connected
    unread,      \* the notifications written to its stream
    unmarked,    \* those read by token whose receipt is to be recorded
    lister,      \* where its list request stands
    page,        \* the page that request was given
    replay,      \* each account's replay buffer
    stored,      \* the notifications stored for each account
    record,      \* the outcome last recorded for each device's SOP subscription
    moves, faults,
    steady,      \* devices that stayed as they were since their account's turn began
    shown,       \* <<notification, device>>, once read or listed
    sent,        \* <<notification, device, path>>, sent that way in the last turn
    fate         \* what became of each notification in each replay buffer

setup == <<owner, subs, kind, app>>
turn == <<pc, todo, account, sops, online>>
connection == <<stream, socket, unread, unmarked>>
listing == <<lister, page>>
store == <<replay, stored, record>>
bounds == <<moves, faults>>
history == <<steady, shown, sent, fate>>
vars == <<setup, turn, connection, listing, store, bounds, history>>

Kinds == [batch : BOOLEAN, save : BOOLEAN, voip : BOOLEAN]
DevicesOf(a) == {d \in Devices : owner[d] = a}
SubsOf(a) == {s \in subs : owner[s[1]] = a}
HasSop(d) == <<d, "Sop">> \in subs
Named(n) == {a \in Accounts : todo[n][a] > 0}
Running == {n \in Deliveries : pc[n] \notin {"idle", "done", "failed"}}

Init ==
    /\ owner \in [Devices -> Accounts]
    /\ subs \in SUBSET (Devices \X Providers)
    /\ kind \in [Deliveries -> Kinds]
    /\ pc = [n \in Deliveries |-> "idle"]
    /\ app \in Namespaces
    /\ todo \in [Deliveries -> [Accounts -> 0..MaxNamed]]
    /\ \A n \in Deliveries :
           ~kind[n].batch => /\ \A a, b \in Named(n) : a = b
                             /\ \A a \in Named(n) : todo[n][a] = 1
    /\ account = [n \in Deliveries |-> "none"]
    /\ sops = [n \in Deliveries |-> {}]
    /\ online = [n \in Deliveries |-> {}]
    /\ stream = [d \in Devices |-> "none"]
    /\ socket \in [Devices -> SUBSET {Solian, app}]
    /\ unread = [d \in Devices |-> {}]
    /\ unmarked = [d \in Devices |-> {}]
    /\ lister = [d \in Devices |-> "idle"]
    /\ page = [d \in Devices |-> {}]
    /\ replay = [a \in Accounts |-> {}]
    /\ stored = [a \in Accounts |-> {}]
    /\ record = [n \in Deliveries |-> [d \in Devices |-> "none"]]
    /\ moves = 0 /\ faults = 0
    /\ steady = [n \in Deliveries |-> {}]
    /\ shown = {} /\ sent = {}
    /\ fate = [n \in Deliveries |-> [a \in Accounts |-> "none"]]

----------------------------------------------------------------------------
\* One delivery.  A single delivery is a batch of one account.

(* SendNotificationBatch, or SendNotification with the job it enqueues: what *)
(* is to be stored is stored for every recipient first (the several rows of  *)
(* an account that is named again are not told apart).                       *)
Begin(n) ==
    /\ pc[n] = "idle" /\ Named(n) # {}
    /\ stored' = [a \in Accounts |->
           IF kind[n].save /\ a \in Named(n) THEN stored[a] \union {n} ELSE stored[a]]
    /\ pc' = [pc EXCEPT ![n] = "next"]
    /\ UNCHANGED <<setup, todo, account, sops, online, connection, listing, replay,
                   record, bounds, history>>

(* An account has a turn each time the list names it, in any order. *)
NextAccount(n) ==
    /\ pc[n] = "next"
    /\ \/ /\ Named(n) = {}
          /\ pc' = [pc EXCEPT ![n] = "done"]
          /\ UNCHANGED <<todo, account, sops, online, steady, sent>>
       \/ \E a \in Named(n) :
          /\ todo' = [todo EXCEPT ![n][a] = @ - 1]
          /\ account' = [account EXCEPT ![n] = a]
          /\ sops' = [sops EXCEPT ![n] = {d \in DevicesOf(a) : stream[d] # "none"}]
          /\ online' = [online EXCEPT ![n] = {}]
          /\ steady' = [steady EXCEPT ![n] = DevicesOf(a)]
          /\ sent' = {t \in sent : t[1] # n}
          /\ pc' = [pc EXCEPT ![n] = "replay"]
    /\ UNCHANGED <<setup, connection, listing, store, bounds, shown, fate>>

Fault == faults < MaxFaults /\ faults' = faults + 1

\* Faulty: off by one at the cap.
NewestAndOne(s) == {n \in s : Cardinality({m \in s : m > n}) <= MaxReplay}

Newest(s) == {n \in s : Cardinality({m \in s : m > n}) < MaxReplay}

\* Faulty: only for SOP devices that are not connected.
ShouldQueueForAbsent(n) ==
    ~kind[n].save /\ \E d \in DevicesOf(account[n]) \ sops[n] : HasSop(d)

ShouldQueueSopReplay(n) ==
    ~kind[n].save /\ \E d \in DevicesOf(account[n]) : HasSop(d)

(* AppendNotification, under the lock of the buffer.  When the lock is not *)
(* got in time, or the cache fails, the delivery goes on without.          *)
AppendReplay(n) ==
    LET a == account[n] IN
    /\ pc[n] = "replay"
    /\ pc' = [pc EXCEPT ![n] = "broadcast"]
    /\ \/ /\ ~ShouldQueueSopReplay(n)
          /\ UNCHANGED <<replay, fate, faults>>
       \/ /\ ShouldQueueSopReplay(n)
          /\ \/ /\ replay' = [replay EXCEPT ![a] = Newest(@ \union {n})]
                /\ fate' = [fate EXCEPT ![n][a] = "kept"]
                /\ UNCHANGED faults
             \/ /\ Fault
                /\ fate' = [fate EXCEPT ![n][a] = IF @ = "none" THEN "lost" ELSE @]
                /\ UNCHANGED replay
    /\ UNCHANGED <<setup, todo, account, sops, online, connection, listing,
                   stored, record, moves, steady, shown, sent>>

Broadcast(n) ==
    LET a == account[n]
        open == {d \in DevicesOf(a) : stream[d] # "none"} IN
    /\ pc[n] = "broadcast"
    /\ unread' = [d \in Devices |-> IF d \in open THEN unread[d] \union {n} ELSE unread[d]]
    /\ sent' = sent \union {<<n, d, "stream">> : d \in open}
    /\ pc' = [pc EXCEPT ![n] = IF SubsOf(a) = {} THEN "publish" ELSE "ask"]
    /\ UNCHANGED <<setup, todo, account, sops, online, stream, socket, unmarked,
                   listing, store, bounds, steady, shown, fate>>

(* getConnectedWebsocketDeviceIds names no namespace: it is told of the     *)
(* devices with a Solian websocket.  A failing call counts as no device.    *)
AskPresence(n) ==
    /\ pc[n] = "ask"
    /\ \/ /\ online' = [online EXCEPT ![n] =
                 {d \in Devices : Solian \in socket[d] /\ \E s \in SubsOf(account[n]) : s[1] = d}]
          /\ UNCHANGED faults
       \/ Fault /\ UNCHANGED online
    /\ pc' = [pc EXCEPT ![n] = "hold"]
    /\ UNCHANGED <<setup, todo, account, sops, connection, listing, store, moves,
                   history>>

(* recordSopDeliveryHolds *)
HoldSops(n) ==
    /\ pc[n] = "hold"
    /\ record' = [record EXCEPT ![n] = [d \in Devices |->
           IF owner[d] = account[n] /\ HasSop(d) /\ d \notin online[n]
           THEN "Held" ELSE @[d]]]
    /\ pc' = [pc EXCEPT ![n] = "publish"]
    /\ UNCHANGED <<setup, todo, account, sops, online, connection, listing,
                   replay, stored, bounds, history>>

\* Faulty: nobody is excluded.
NoExclusions(n) == {}

(* buildWebSocketExclusions, which an account without subscriptions skips *)
Exclusions(n) == IF SubsOf(account[n]) = {} THEN {} ELSE sops[n]

(* SendWebSocketNotification publishes to the namespace of the app. *)
PublishWebSocket(n) ==
    LET a == account[n] IN
    /\ pc[n] = "publish"
    /\ sent' = sent \union
           {<<n, d, "websocket">> : d \in {e \in DevicesOf(a) \ Exclusions(n) : app \in socket[e]}}
    /\ pc' = [pc EXCEPT ![n] = IF SubsOf(a) = {} THEN "next" ELSE "push"]
    /\ UNCHANGED <<setup, todo, account, sops, online, connection, listing, store,
                   bounds, steady, shown, fate>>

----------------------------------------------------------------------------
\* selectSubscriptionsByDevice: the one provider each remaining device gets

Remaining(n) == {s \in SubsOf(account[n]) : s[1] \notin online[n]}

(* isProviderCompatibleWithNotification *)
Compatible(n, provider) ==
    IF kind[n].voip
    THEN provider = "Apple" => \A s \in Remaining(n) : s[2] # "Appk"
    ELSE provider # "Appk"

\* Faulty: SOP first whether the device is connected or not.
PriorityOfSop(n, s) ==
    CASE s[2] = "Sop" -> 5
      [] s[2] = "Appk" -> IF kind[n].voip THEN 4 ELSE 0
      [] s[2] = "Google" -> 2
      [] s[2] = "UnifiedPush" -> 1
      [] s[2] = "Apple" -> IF kind[n].voip THEN 3 ELSE 4

(* getSubscriptionPriority *)
Priority(n, s) ==
    CASE s[2] = "Sop" -> IF s[1] \in sops[n] THEN 5 ELSE 0
      [] s[2] = "Appk" -> IF kind[n].voip THEN 4 ELSE 0
      [] s[2] = "Google" -> 2
      [] s[2] = "UnifiedPush" -> 1
      [] s[2] = "Apple" -> IF kind[n].voip THEN 3 ELSE 4

Chosen(n) ==
    LET compatible == {s \in Remaining(n) : Compatible(n, s[2])} IN
    {s \in compatible :
        \A t \in compatible : t[1] = s[1] => Priority(n, t) <= Priority(n, s)}

(* SendPushNotification to each, which sends nothing for a SOP subscription *)
Push(n) ==
    /\ pc[n] = "push"
    /\ sent' = sent \union {<<n, s[1], "push">> : s \in {t \in Chosen(n) : t[2] # "Sop"}}
    /\ pc' = [pc EXCEPT ![n] = "next"]
    /\ UNCHANGED <<setup, todo, account, sops, online, connection, listing, store,
                   bounds, steady, shown, fate>>

(* The subscriptions cannot be listed, or the websocket packet not be      *)
(* published: the delivery ends, also for the accounts it has not come to. *)
Fail(n) ==
    /\ pc[n] \in {"replay", "publish"}
    /\ Fault
    /\ pc' = [pc EXCEPT ![n] = "failed"]
    /\ UNCHANGED <<setup, todo, account, sops, online, connection, listing, store,
                   moves, history>>

----------------------------------------------------------------------------
\* The devices

Move(d) ==
    /\ moves < MaxMoves /\ moves' = moves + 1
    /\ steady' = [n \in Deliveries |-> steady[n] \ {d}]

(* streamBySopToken: a token finds the SOP subscription, a session need not *)
Connect(d) ==
    /\ stream[d] = "none"
    /\ \/ HasSop(d) /\ stream' = [stream EXCEPT ![d] = "token"]
       \/ stream' = [stream EXCEPT ![d] = "session"]
    /\ Move(d)
    /\ UNCHANGED <<setup, turn, socket, unread, unmarked, listing, store, faults,
                   shown, sent, fate>>

(* One round of TryRead, which empties the stream, by a token or a session *)
Read(d) ==
    /\ unread[d] # {} /\ unmarked[d] = {}
    /\ shown' = shown \union (unread[d] \X {d})
    /\ unmarked' = [unmarked EXCEPT ![d] = IF stream[d] = "token" THEN unread[d] ELSE {}]
    /\ unread' = [unread EXCEPT ![d] = {}]
    /\ UNCHANGED <<setup, turn, stream, socket, listing, store, bounds, steady, sent, fate>>

\* Faulty: the subscription is not looked at.
PromotedForAll(d, ns) ==
    [n \in Deliveries |-> [e \in Devices |->
        IF n \in ns /\ record[n][e] = "Held" THEN "Success" ELSE record[n][e]]]

(* MarkSopDeliveryRead: the Held records of the subscription become Success *)
Promoted(d, ns) ==
    [n \in Deliveries |-> IF n \in ns /\ record[n][d] = "Held"
                          THEN [record[n] EXCEPT ![d] = "Success"] ELSE record[n]]

MarkRead(d) ==
    /\ unmarked[d] # {}
    /\ record' = Promoted(d, unmarked[d])
    /\ unmarked' = [unmarked EXCEPT ![d] = {}]
    /\ UNCHANGED <<setup, turn, stream, socket, unread, listing, replay, stored, bounds,
                   history>>

(* The receipts are recorded first: their write is detached from the request. *)
Disconnect(d) ==
    /\ stream[d] # "none" /\ unmarked[d] = {}
    /\ stream' = [stream EXCEPT ![d] = "none"]
    /\ unread' = [unread EXCEPT ![d] = {}]
    /\ Move(d)
    /\ UNCHANGED <<setup, turn, socket, unmarked, listing, store, faults, shown, sent, fate>>

(* The sockets of other namespaces are neither asked for nor written to. *)
ToggleSocket(d) ==
    /\ \E ns \in {Solian, app} :
           socket' = [socket EXCEPT ![d] = IF ns \in @ THEN @ \ {ns} ELSE @ \union {ns}]
    /\ Move(d)
    /\ UNCHANGED <<setup, turn, stream, unread, unmarked, listing, store, faults,
                   shown, sent, fate>>

----------------------------------------------------------------------------
\* listBySopToken: a page of the replay buffer and the stored notifications

List(d) ==
    /\ lister[d] = "idle" /\ HasSop(d)
    /\ moves < MaxMoves /\ moves' = moves + 1
    /\ \E p \in SUBSET (replay[owner[d]] \union stored[owner[d]]) \ {{}} :
        /\ page' = [page EXCEPT ![d] = p]
        /\ shown' = shown \union (p \X {d})
    /\ lister' = [lister EXCEPT ![d] = "mark"]
    /\ UNCHANGED <<setup, turn, connection, store, faults, steady, sent, fate>>

(* The rows stored for a batch have ids of their own, which no record has. *)
MarkListed(d) ==
    /\ lister[d] = "mark"
    /\ record' = Promoted(d, {n \in page[d] : ~(kind[n].batch /\ kind[n].save)})
    /\ lister' = [lister EXCEPT ![d] = "remove"]
    /\ UNCHANGED <<setup, turn, connection, page, replay, stored, bounds, history>>

\* Faulty: the whole buffer is emptied.
RemoveAll(buffer, ids) == {}

RemoveNotifications(buffer, ids) == buffer \ ids

(* The listed notifications leave the buffer; a failure is ignored. *)
RemoveListed(d) ==
    LET a == owner[d] IN
    /\ lister[d] = "remove"
    /\ \/ /\ replay' = [replay EXCEPT ![a] = RemoveNotifications(@, page[d])]
          /\ fate' = [n \in Deliveries |-> IF n \in page[d] \intersect replay[a]
                                           THEN [fate[n] EXCEPT ![a] = "taken"]
                                           ELSE fate[n]]
          /\ UNCHANGED faults
       \/ Fault /\ UNCHANGED <<replay, fate>>
    /\ lister' = [lister EXCEPT ![d] = "idle"]
    /\ page' = [page EXCEPT ![d] = {}]
    /\ UNCHANGED <<setup, turn, connection, stored, record, moves, steady, shown, sent>>

(* The streams, the deliveries and the requests are gone; the replay buffer, *)
(* the rows and the websockets, which another service holds, are not.        *)
Crash ==
    /\ Fault
    /\ pc' = [n \in Deliveries |-> IF n \in Running THEN "failed" ELSE pc[n]]
    /\ stream' = [d \in Devices |-> "none"]
    /\ unread' = [d \in Devices |-> {}]
    /\ unmarked' = [d \in Devices |-> {}]
    /\ lister' = [d \in Devices |-> "idle"]
    /\ page' = [d \in Devices |-> {}]
    /\ UNCHANGED <<setup, todo, account, sops, online, socket, store, moves, history>>

Deliver(n) ==
    \/ Begin(n) \/ NextAccount(n) \/ AppendReplay(n) \/ Broadcast(n) \/ AskPresence(n)
    \/ HoldSops(n) \/ PublishWebSocket(n) \/ Push(n) \/ Fail(n)

Act(d) ==
    \/ Connect(d) \/ Read(d) \/ MarkRead(d) \/ Disconnect(d) \/ ToggleSocket(d)
    \/ List(d) \/ MarkListed(d) \/ RemoveListed(d)

Next == (\E n \in Deliveries : Deliver(n)) \/ (\E d \in Devices : Act(d)) \/ Crash

Spec == Init /\ [][Next]_vars

----------------------------------------------------------------------------
\* Properties

(* Every variable has its type, and no replay buffer holds more than its cap *)
(* (the cut of AppendNotification).                                          *)
TypeOK ==
    /\ owner \in [Devices -> Accounts]
    /\ subs \subseteq Devices \X Providers
    /\ kind \in [Deliveries -> Kinds]
    /\ pc \in [Deliveries -> {"idle", "next", "replay", "broadcast", "ask", "hold",
                              "publish", "push", "done", "failed"}]
    /\ app \in Namespaces
    /\ todo \in [Deliveries -> [Accounts -> 0..MaxNamed]]
    /\ account \in [Deliveries -> Accounts \union {"none"}]
    /\ sops \in [Deliveries -> SUBSET Devices]
    /\ online \in [Deliveries -> SUBSET Devices]
    /\ stream \in [Devices -> {"none", "token", "session"}]
    /\ socket \in [Devices -> SUBSET Namespaces]
    /\ unread \in [Devices -> SUBSET Deliveries]
    /\ unmarked \in [Devices -> SUBSET Deliveries]
    /\ lister \in [Devices -> {"idle", "mark", "remove"}]
    /\ page \in [Devices -> SUBSET Deliveries]
    /\ replay \in [Accounts -> SUBSET Deliveries]
    /\ \A a \in Accounts : Cardinality(replay[a]) <= MaxReplay
    /\ stored \in [Accounts -> SUBSET Deliveries]
    /\ record \in [Deliveries -> [Devices -> {"none", "Held", "Success"}]]
    /\ moves \in 0..MaxMoves /\ faults \in 0..MaxFaults
    /\ steady \in [Deliveries -> SUBSET Devices]
    /\ shown \subseteq Deliveries \X Devices
    /\ sent \subseteq Deliveries \X Devices \X {"stream", "websocket", "push"}
    /\ fate \in [Deliveries -> [Accounts -> {"none", "kept", "lost", "taken"}]]

PathsTo(n, d) == {p \in {"stream", "websocket", "push"} : <<n, d, p>> \in sent}
AfterTurn(n) == pc[n] \in {"publish", "push"} /\ pc'[n] = "next"

(* A device has some way to be reached.  Being seen on a Solian websocket   *)
(* rules the pushes out, though packets go to the namespace of the app.      *)
(* Apple is no way for a call when any device of the account has an Appk     *)
(* subscription (hasAnyAppk).                                                *)
Reachable(n, d) ==
    \/ stream[d] # "none" \/ app \in socket[d]
    \/ /\ Solian \notin socket[d]
       /\ \/ \E p \in {"Google", "UnifiedPush"} : <<d, p>> \in subs
          \/ <<d, "Appk">> \in subs /\ kind[n].voip
          \/ /\ <<d, "Apple">> \in subs
             /\ kind[n].voip => \A s \in SubsOf(owner[d]) : s[2] # "Appk"

(* When a delivery is through with an account, each of its devices that      *)
(* stayed as it was meanwhile and can be reached was sent the notification:  *)
(* no exclusion and no choice of a provider leaves it out, whatever fails in *)
(* the lookups (push.go 402-426).                                            *)
Reached ==
    [][\A n \in Deliveries : AfterTurn(n) =>
        \A d \in steady[n] : Reachable(n, d) => PathsTo(n, d)' # {}]_vars

(* And no turn gives a device that stayed as it was the notification by two  *)
(* paths, but for a stream that a session opened without a SOP subscription, *)
(* and for a subscribed device without a stream, on a websocket of the app,  *)
(* that the presence lookup did not return: the call failed, or the app is   *)
(* not Solian and the device has no Solian websocket (the exclusions of      *)
(* push.go 402-421 exist for this).                                          *)
OnlyOnce ==
    [][\A n \in Deliveries : AfterTurn(n) =>
        \A d \in steady[n] :
            /\ stream[d] # "none" => HasSop(d)
            /\ stream[d] = "none" /\ app \in socket[d] /\ (\E s \in subs : s[1] = d)
                   => d \in online[n]
            => Cardinality(PathsTo(n, d)') <= 1]_vars

(* When a delivery is through with an account, a SOP device it sent nothing - *)
(* one that disconnected between the look at the streams and the broadcast    *)
(* included - can find the notification later: it is stored, or was put in    *)
(* the replay buffer unless that failed (push.go 387-391).                    *)
Recoverable ==
    [][\A n \in Deliveries : AfterTurn(n) =>
        \A d \in DevicesOf(account[n]) :
            HasSop(d) /\ PathsTo(n, d)' = {} =>
                \/ n \in stored[account[n]]
                \/ fate[n][account[n]] # "none"]_vars

(* What was put in a replay buffer stays until a list takes it or MaxReplay   *)
(* newer ones came: appends and removals by several devices and deliveries    *)
(* lose nothing else (replay.go 55-107).                                      *)
Kept ==
    \A n \in Deliveries, a \in Accounts :
        fate[n][a] = "kept" =>
            \/ n \in replay[a]
            \/ Cardinality({m \in Deliveries : m > n /\ fate[m][a] \in {"kept", "taken"}})
                   >= MaxReplay

(* A SOP delivery is recorded as Success only if that very device read it    *)
(* from its stream or was given it in a list (MarkSopDeliveryRead).          *)
ReceiptsTrue ==
    \A n \in Deliveries, d \in Devices : record[n][d] = "Success" => <<n, d>> \in shown

=============================================================================

----------------------------- MODULE MCDelivery -----------------------------
(* Delivery on small instances: devices and accounts have no identity beyond *)
(* what they own and subscribe to, so their permutations are symmetries.     *)
EXTENDS Delivery, TLC

NameSymmetry == Permutations(Devices) \union Permutations(Accounts)

OneAccount == \A c, d \in Devices : owner[c] = owner[d]

(* No websocket is connected before the first move, and the second          *)
(* notification is a plain one.                                              *)
Start ==
    /\ socket = [d \in Devices |-> {}]
    /\ kind \in [Deliveries -> Kinds]
    /\ kind[2] = [batch |-> FALSE, save |-> FALSE, voip |-> FALSE]

Twice == \E a \in Accounts : todo[1][a] > 1

(* The devices are of one account or, without any Appk subscription, of two  *)
(* recipients.  A batch differs from a single delivery if it is stored, has  *)
(* two recipients or names one twice, which matters for an account with one  *)
(* SOP device.  The second notification matters for the replay buffer: it is *)
(* sent only where all subscriptions are SOP ones of one account and the     *)
(* first is not stored or a VoIP call.  The app decides which websockets a   *)
(* packet reaches, and nothing else: a plain delivery to one account is      *)
(* checked with either app, the other instances with one.                    *)
Instances ==
    /\ Named(1) # {}
    /\ \A n \in Deliveries : Named(n) \subseteq {owner[d] : d \in Devices}
    /\ OneAccount \/ /\ \A s \in subs : s[2] # "Appk"
                     /\ Cardinality(Named(1)) = 2
    /\ kind[1].batch => kind[1].save \/ Twice \/ Cardinality(Named(1)) = 2
    /\ Twice => /\ OneAccount /\ ~kind[1].save /\ ~kind[1].voip
               /\ app # Solian /\ Cardinality({d \in Devices : HasSop(d)}) = 1
    /\ Named(2) # {} => OneAccount /\ subs \subseteq Devices \X {"Sop"} /\ app = Solian
    /\ app = Solian => OneAccount /\ ~kind[1].voip /\ ~kind[1].save

MCInit == Start /\ Init /\ Instances

MCSpec == MCInit /\ [][Next]_vars

\* Bound: moves and faults together.
FewEvents == moves + faults <= 2

=============================================================================

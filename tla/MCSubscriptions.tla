-------------------------- MODULE MCSubscriptions --------------------------
(* Instances of Subscriptions for TLC.                                     *)
EXTENDS Subscriptions, TLC

CONSTANTS s1, s2, t1, t2, r1, r2, p1

\* Tokens and requests are interchangeable.
Symmetry == Permutations(Tokens) \cup Permutations(Requests)

\* The token of an inactive row is overwritten before it is read again, and
\* once a row held a revoked token its other tokens make no difference.
Essence ==
    <<[i \in DOMAIN rows |->
          <<rows[i].slot, IF rows[i].active THEN rows[i].token ELSE None>>],
      [i \in Ids |-> IF held[i] \cap revoked # {} THEN revoked ELSE held[i]],
      lastId, registration, push, queue, revoked, faults, promised, broken, reported>>

\* Bound: where a third row was inserted, no token is revoked and nothing fails,
\* before or after.
ThirdRow == lastId <= 2 \/ (faults = 0 /\ revoked = {})

=============================================================================

------------------------------ MODULE MCInbox ------------------------------
(* Instances of Inbox for TLC.                                             *)
EXTENDS Inbox, TLC

CONSTANTS w1, w2, m1, r1

Symmetry == Permutations(Writers)

(* A list has rows from before where the call is the simplest, to the       *)
(* default app, which has two kinds of rows; the list of the other app      *)
(* marks its pages.  A SOP list takes no notice of unmark.                  *)
Instances ==
    /\ \A m \in Messages :
        lastId > 0 => ~kind[m].batch /\ ~kind[m].silent /\ kind[m].app = "default"
    /\ \A r \in Readers :
        /\ client[r].unmark \/ client[r].sop => client[r].app = "default"
        /\ ~(client[r].sop /\ client[r].unmark)

MCInit == Init /\ Instances

MCSpec == MCInit /\ [][Next]_vars

\* Bound: the preference is written where the account has no rows from before,
\* nothing is read and no statement of a call fails.
Apart ==
    \/ lastPref = 0
    \/ /\ faults = 0 /\ covered = {}
       /\ \A r \in Readers : reading[r] = "new"
       /\ inserted \subseteq {id[m] : m \in Messages}

=============================================================================

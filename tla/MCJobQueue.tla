----------------------------- MODULE MCJobQueue ----------------------------
(* Instances of JobQueue for TLC.                                          *)
EXTENDS JobQueue

CONSTANTS j1, j2, j3, w1, w2, s1

=============================================================================

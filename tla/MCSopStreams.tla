---------------------------- MODULE MCSopStreams ---------------------------
(* Instances of SopStreams for TLC.                                        *)
EXTENDS SopStreams

CONSTANTS s1, s2, n1, n2

=============================================================================

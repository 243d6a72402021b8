--------------------------- MODULE MCNodeReporter ---------------------------
(* NodeReporter for TLC.  Two sockets at a time: one that was given up, with *)
(* its receiver, and the one in use; Collect frees a number for another dial. *)
EXTENDS NodeReporter, TLC

CONSTANTS c1, c2
=============================================================================

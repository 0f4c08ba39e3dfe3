---------------------------- MODULE MCEventLoop ----------------------------
(* The event loop for TLC: names for threads and connections.     *)
EXTENDS EventLoop

CONSTANTS p1, p2, c1, c2
=============================================================================

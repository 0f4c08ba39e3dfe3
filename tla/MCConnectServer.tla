--------------------------- MODULE MCConnectServer ---------------------------
(* The connect server for TLC, with the two ports of etc/settings.conf: clients
   on loop 0, push servers on loop 1. *)
EXTENDS ConnectServer, TLC

CONSTANTS c1, c2, c3, u1, u2

MCTypes == {-1, 0, 1}
MCAccepts == [p \in Ports |-> IF p = "cli" THEN {-1, 0} ELSE {1}]
MCStartIdx == [p \in Ports |-> IF p = "cli" THEN 0 ELSE 1]
MCThreadCnt == [p \in Ports |-> 1]

Symmetry == Permutations(Conns)
==============================================================================

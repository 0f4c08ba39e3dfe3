---------------------------- MODULE MCSessCache ----------------------------
(* SessCache on a small instance: two caches, the first with two nodes. *)
EXTENDS SessCache

MCNodes == <<{1, 2}, {1}>>

\* Both processes with the same configuration, a cache of it may be missing, and
\* one where only the reader was started without the configuration of a cache.
MCStarts ==
    {[p \in Processes |-> f] : f \in [Caches -> {0, 1}]}
    \cup {[p \in Processes |-> [k \in Caches |-> IF p = "reader" /\ k = 1 THEN 0 ELSE 1]]}
=============================================================================

----------------------------- MODULE MCPushPath -----------------------------
EXTENDS PushPath

CONSTANT v1

\* All sessions on one server.
MCconsvid == [s \in Sessions |-> v1]
=============================================================================

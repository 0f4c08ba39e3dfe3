----------------------------- MODULE StatusNode -----------------------------
(***************************************************************************)
(* The status node by which a connect server is found.  A process creates  *)
(* an ephemeral node named after its ID when it starts, writes its status  *)
(* to it every ten seconds, and deletes it when it ends.  Processes 1..N   *)
(* are started one after another with the same ID: restarts after a crash, *)
(* or a second server while the first still runs.  A process ends at any   *)
(* time; the ensemble then expires its session.  The session of a running  *)
(* process may expire too, and its callback thread then opens another and  *)
(* rebuilds the node while the main thread goes on reporting.              *)
(***************************************************************************)
EXTENDS Integers

CONSTANTS
  N,          \* processes started with this ID
  MaxLoss,    \* requests that end in a connection loss
  MaxExpire   \* expiries of sessions of running processes

ASSUME BoundsAssumption == N \in Nat \ {0} /\ MaxLoss \in Nat /\ MaxExpire \in Nat

VARIABLES
  pc,       \* main thread: off, create, loop, repcreate, delete, close, ended
  run,      \* m_run
  cb,       \* callback thread: idle, set, create
  sess,     \* the session behind m_zkhandle: none, live, expired, closed
  statusNode, \* the node: whose session owns it, whose status it shows
  reqLosses, expiries,  \* how often each of the two has happened
  robbed    \* history: p's node went with its session or by another's delete

nodeVars == <<pc, run, cb, sess, statusNode, reqLosses, expiries, robbed>>

Procs == 1..N

\* No node is the node of nobody.
NoNode == [owner |-> 0, data |-> 0]

Node == [owner : Procs, data : Procs] \cup {NoNode}

NodeTypeOK ==
  /\ pc \in [Procs -> {"off", "create", "loop", "repcreate", "delete", "close", "ended"}]
  /\ run \in [Procs -> BOOLEAN]
  /\ cb \in [Procs -> {"idle", "set", "create"}]
  /\ sess \in [Procs -> {"none", "live", "expired", "closed"}]
  /\ statusNode \in Node
  /\ reqLosses \in 0..MaxLoss /\ expiries \in 0..MaxExpire
  /\ robbed \in [Procs -> BOOLEAN]

NodeInit ==
  /\ pc = [p \in Procs |-> "off"]
  /\ run = [p \in Procs |-> FALSE]
  /\ cb = [p \in Procs |-> "idle"]
  /\ sess = [p \in Procs |-> "none"]
  /\ statusNode = NoNode
  /\ reqLosses = 0 /\ expiries = 0
  /\ robbed = [p \in Procs |-> FALSE]

\* A process whose init has succeeded and that has not been told to stop.
Serving(p) == pc[p] \in {"loop", "repcreate"}

HasEnded(p) == pc[p] = "ended"

-----------------------------------------------------------------------------
(* A request to the ensemble: what it does to the node and what it returns. *)

\* The node is removed; its owner, if it is another, has been robbed.
Remove(p) ==
  /\ statusNode' = NoNode
  /\ robbed' = [q \in Procs |-> robbed[q] \/ (q # p /\ q = statusNode.owner)]

\* Mutant of CreateEphemeral: a persistent node, which no session owns.
CreatePersistent(p) ==
  /\ statusNode' = [owner |-> 0, data |-> p]
  /\ robbed' = [robbed EXCEPT ![p] = FALSE]

\* zoo_create with ZOO_EPHEMERAL: the node belongs to the caller's session.
CreateEphemeral(p) ==
  /\ statusNode' = [owner |-> p, data |-> p]
  /\ robbed' = [robbed EXCEPT ![p] = FALSE]

\* zoo_set with version -1: the data is replaced, whoever owns the node.
SetData(p) ==
  /\ statusNode' = [statusNode EXCEPT !.data = p]
  /\ UNCHANGED robbed

\* A request answered by the ensemble.
Reached(p) == sess[p] = "live" /\ UNCHANGED reqLosses

\* A request that fails without effect: no session, or a loss on the way there.
Failed(p) ==
  /\ \/ sess[p] # "live" /\ UNCHANGED reqLosses
     \/ sess[p] = "live" /\ reqLosses < MaxLoss /\ reqLosses' = reqLosses + 1
  /\ UNCHANGED <<statusNode, robbed>>

\* A request carried out whose answer is lost.
Unheard(p) == sess[p] = "live" /\ reqLosses < MaxLoss /\ reqLosses' = reqLosses + 1

\* createEphemeralNode: 0, or -1 for every failure.
ZooCreate(p, ret) ==
  \/ /\ Reached(p)
     /\ IF statusNode = NoNode THEN ret = 0 /\ CreateEphemeral(p)
                         ELSE ret = -1 /\ UNCHANGED <<statusNode, robbed>>
  \/ ret = -1 /\ Failed(p)
  \/ ret = -1 /\ Unheard(p) /\ statusNode = NoNode /\ CreateEphemeral(p)

\* setNodeData: 0, ZNONODE, or another error.
ZooSet(p, ret) ==
  \/ /\ Reached(p)
     /\ IF statusNode = NoNode THEN ret = "nonode" /\ UNCHANGED <<statusNode, robbed>>
                         ELSE ret = "ok" /\ SetData(p)
  \/ ret = "error" /\ Failed(p)
  \/ ret = "error" /\ Unheard(p) /\ statusNode # NoNode /\ SetData(p)

\* deleteNode: the result is only logged.
ZooDelete(p) ==
  \/ Reached(p) /\ Remove(p)
  \/ Failed(p)
  \/ Unheard(p) /\ statusNode # NoNode /\ Remove(p)

-----------------------------------------------------------------------------
(* The main thread. *)

\* ConnectServer::init up to initStatusNode: a session is open.
Start(p) ==
  /\ pc[p] = "off"
  /\ \A q \in 1..(p - 1) : pc[q] # "off"
  /\ pc' = [pc EXCEPT ![p] = "create"]
  /\ sess' = [sess EXCEPT ![p] = "live"]
  /\ UNCHANGED <<run, cb, statusNode, reqLosses, expiries, robbed>>

\* Mutant of InitStatusNode: a node that is already there will do.
InitStatusNodeAdopt(p) ==
  /\ pc[p] = "create"
  /\ \E ret \in {0, -1} : ZooCreate(p, ret)
  /\ pc' = [pc EXCEPT ![p] = "loop"]
  /\ run' = [run EXCEPT ![p] = TRUE]
  /\ UNCHANGED <<cb, sess, expiries>>

\* initStatusNode: without the node init fails and the process ends; nothing
\* closes its session.
InitStatusNode(p) ==
  /\ pc[p] = "create"
  /\ \E ret \in {0, -1} :
       /\ ZooCreate(p, ret)
       /\ pc' = [pc EXCEPT ![p] = IF ret = 0 THEN "loop" ELSE "ended"]
       /\ run' = [run EXCEPT ![p] = ret = 0]
  /\ UNCHANGED <<cb, sess, expiries>>

\* Mutant of Report: a node that is not there is an error like any other.
ReportNoCreate(p) ==
  /\ pc[p] = "loop" /\ run[p]
  /\ \E ret \in {"ok", "nonode", "error"} : ZooSet(p, ret)
  /\ UNCHANGED <<pc, run, cb, sess, expiries>>

\* reportStatus: the time is part of the status, so it differs from m_data.
Report(p) ==
  /\ pc[p] = "loop" /\ run[p]
  /\ \E ret \in {"ok", "nonode", "error"} :
       /\ ZooSet(p, ret)
       /\ pc' = [pc EXCEPT ![p] = IF ret = "nonode" THEN "repcreate" ELSE "loop"]
  /\ UNCHANGED <<run, cb, sess, expiries>>

\* setData, when the node was not there.
ReportCreate(p) ==
  /\ pc[p] = "repcreate"
  /\ \E ret \in {0, -1} : ZooCreate(p, ret)
  /\ pc' = [pc EXCEPT ![p] = "loop"]
  /\ UNCHANGED <<run, cb, sess, expiries>>

\* The signal handler clears m_run, also in the middle of a report.
Stop(p) ==
  /\ Serving(p) /\ run[p]
  /\ run' = [run EXCEPT ![p] = FALSE]
  /\ UNCHANGED <<pc, cb, sess, statusNode, reqLosses, expiries, robbed>>

LeaveLoop(p) ==
  /\ pc[p] = "loop" /\ ~run[p]
  /\ pc' = [pc EXCEPT ![p] = "delete"]
  /\ UNCHANGED <<run, cb, sess, statusNode, reqLosses, expiries, robbed>>

\* ~ServerNode deletes the node and leaves m_srvnodes.
DeleteNode(p) ==
  /\ pc[p] = "delete"
  /\ ZooDelete(p)
  /\ pc' = [pc EXCEPT ![p] = "close"]
  /\ UNCHANGED <<run, cb, sess, expiries>>

\* ~ZKClient: the session is closed, with the nodes it owns, unless the
\* request does not arrive; then main returns.
CloseSession(p) ==
  /\ pc[p] = "close"
  /\ pc' = [pc EXCEPT ![p] = "ended"]
  /\ cb' = [cb EXCEPT ![p] = "idle"]
  /\ \/ /\ Reached(p)
        /\ sess' = [sess EXCEPT ![p] = "closed"]
        /\ statusNode' = IF statusNode.owner = p THEN NoNode ELSE statusNode
        /\ UNCHANGED robbed
     \/ Failed(p) /\ UNCHANGED sess
  /\ UNCHANGED <<run, expiries>>

\* A crash, at any time: nothing is closed.
Crash(p) ==
  /\ pc[p] \notin {"off", "ended"}
  /\ pc' = [pc EXCEPT ![p] = "ended"]
  /\ cb' = [cb EXCEPT ![p] = "idle"]
  /\ UNCHANGED <<run, sess, statusNode, reqLosses, expiries, robbed>>

-----------------------------------------------------------------------------
(* The ensemble and the callback thread. *)

Expiry(p) ==
  /\ sess[p] = "live"
  /\ sess' = [sess EXCEPT ![p] = "expired"]
  /\ statusNode' = IF statusNode.owner = p THEN NoNode ELSE statusNode
  /\ robbed' = [robbed EXCEPT ![p] = @ \/ statusNode.owner = p]

\* The ensemble has not heard of a running process for the session's timeout.
ExpireRunning(p) ==
  /\ pc[p] \notin {"off", "ended"}
  /\ expiries < MaxExpire /\ expiries' = expiries + 1
  /\ Expiry(p)
  /\ UNCHANGED <<pc, run, cb, reqLosses>>

\* A process that has ended sends no heartbeat.
ExpireEnded(p) ==
  /\ HasEnded(p)
  /\ Expiry(p)
  /\ UNCHANGED <<pc, run, cb, reqLosses, expiries>>

\* watcherFnG on ZOO_EXPIRED_SESSION_STATE: a new session, then srvNodeRebuild
\* over m_srvnodes, where the node is from shortly before it is created until
\* it has been deleted.
Reinit(p) ==
  /\ sess[p] = "expired" /\ ~HasEnded(p) /\ cb[p] = "idle"
  /\ sess' = [sess EXCEPT ![p] = "live"]
  /\ \/ pc[p] # "close" /\ cb' = [cb EXCEPT ![p] = "set"]
     \/ pc[p] \in {"create", "close"} /\ UNCHANGED cb
  /\ UNCHANGED <<pc, run, statusNode, reqLosses, expiries, robbed>>

\* zookeeper_init returns NULL: the process has no session from here on.
ReinitFails(p) ==
  /\ sess[p] = "expired" /\ ~HasEnded(p) /\ cb[p] = "idle"
  /\ reqLosses < MaxLoss /\ reqLosses' = reqLosses + 1
  /\ sess' = [sess EXCEPT ![p] = "none"]
  /\ UNCHANGED <<pc, run, cb, statusNode, expiries, robbed>>

\* srvNodeRebuild: setData on the callback thread, once.
RebuildSet(p) ==
  /\ cb[p] = "set"
  /\ \E ret \in {"ok", "nonode", "error"} :
       /\ ZooSet(p, ret)
       /\ cb' = [cb EXCEPT ![p] = IF ret = "nonode" THEN "create" ELSE "idle"]
  /\ UNCHANGED <<pc, run, sess, expiries>>

RebuildCreate(p) ==
  /\ cb[p] = "create"
  /\ \E ret \in {0, -1} : ZooCreate(p, ret)
  /\ cb' = [cb EXCEPT ![p] = "idle"]
  /\ UNCHANGED <<pc, run, sess, expiries>>

-----------------------------------------------------------------------------
MainThread(p) ==
  \/ InitStatusNode(p) \/ Report(p) \/ ReportCreate(p)
  \/ LeaveLoop(p) \/ DeleteNode(p) \/ CloseSession(p)

CallbackThread(p) == Reinit(p) \/ ReinitFails(p) \/ RebuildSet(p) \/ RebuildCreate(p)

NodeNext ==
  \E p \in Procs :
    \/ Start(p) \/ MainThread(p) \/ CallbackThread(p) \/ Stop(p) \/ Crash(p)
    \/ ExpireRunning(p) \/ ExpireEnded(p)

\* The two threads of a process run, and the ensemble expires dead sessions.
Fairness ==
  \A p \in Procs : WF_nodeVars(MainThread(p)) /\ WF_nodeVars(CallbackThread(p)) /\ WF_nodeVars(ExpireEnded(p))

NodeSpec == NodeInit /\ [][NodeNext]_nodeVars /\ Fairness

-----------------------------------------------------------------------------
(* Properties. *)

\* A serving process owns the node unless its session expired or another
\* process deleted the node since it was created: init insists on creating the
\* node itself (server_status.cpp:179, connect_server.cpp:247), so two servers
\* of one ID serve side by side only after one of these two events.
OwnNode ==
  \A p \in Procs : Serving(p) /\ ~robbed[p] => statusNode.owner = p

\* Once some process keeps serving with a handle, the node ends up owned by and
\* showing a serving process, whatever expiries, losses, crashes, stops of other
\* processes and races of report and rebuild came before: setData creates the
\* node it does not find, and every report is written.
Relisted ==
  <>[](\E p \in Procs : Serving(p) /\ run[p] /\ sess[p] # "none")
    => <>[](statusNode # NoNode /\ Serving(statusNode.owner) /\ Serving(statusNode.data))

\* When every process has ended, by stop, failed init or crash, the node goes
\* away: it is ephemeral, and a session left open expires.
Unlisted ==
  (\A p \in Procs : pc[p] \in {"off", "ended"})
    ~> (statusNode = NoNode \/ \E p \in Procs : pc[p] \notin {"off", "ended"})
=============================================================================

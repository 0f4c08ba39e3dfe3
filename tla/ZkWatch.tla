------------------------------ MODULE ZkWatch ------------------------------
(***************************************************************************)
(* A watched configuration node (common/src/zk_client.cpp, zk_watcher.cpp, *)
(* data_watcher.cpp): the start of a ZKClient, and a JsonWatcher that      *)
(* keeps a copy of a node by setting ZooKeeper's one-shot watch again each *)
(* time it fires.                                                          *)
(*                                                                         *)
(* Threads: the main thread (init) and ZooKeeper's callback thread, which  *)
(* runs completions and watch events in the order they arrive. ZooKeeper   *)
(* itself is modelled as the code uses it: requests are answered in order, *)
(* an event precedes the answer to a later request, a lost connection      *)
(* fails the requests under way and keeps the watches.                     *)
(***************************************************************************)
EXTENDS Integers, Sequences, FiniteSets

CONSTANTS
    MaxChanges,  \* bound: changes of the node
    MaxLosses    \* bound: lost connections and expired sessions

ASSUME ZkWatchAssumption == MaxChanges \in Nat /\ MaxLosses \in Nat

VARIABLES
    node,     \* the revision in ZooKeeper, 0 if the node does not exist
    rev,      \* number of changes so far
    link,     \* connecting, up, or down
    losses,   \* number of losses so far
    swatch,   \* the server has a watch for the session on the path
    reqs,     \* requests under way
    inq,      \* completions and events for the callback thread
    ctx,      \* WatchCtx objects of set watches, of kind data or exist
    base,     \* the revision the last answer or event showed
    mpc,      \* where the main thread is
    early,    \* the connection came before the main thread waited for it
    check,    \* m_check_exists
    seen,     \* the revision in m_data, 0 for ""
    dropped   \* a completion has failed with a connection loss

vars == <<node, rev, link, losses, swatch, reqs, inq, ctx, base, mpc, early, check, seen, dropped>>
zkVars == <<node, rev, link, losses>>
mainVars == <<mpc, early>>

NoCtx == [data |-> 0, exist |-> 0]

Init ==
    /\ node \in {0, 1} /\ rev = 1 /\ link = "connecting" /\ losses = 0
    /\ swatch = FALSE /\ reqs = <<>> /\ inq = <<>> /\ ctx = NoCtx /\ base = 0
    /\ mpc = "init" /\ early = FALSE /\ check = FALSE /\ seen = 0 /\ dropped = FALSE

-----------------------------------------------------------------------------
(* ZKClient::init and JsonWatcherBase::init, on the main thread *)

\* waitConnectingFinish: m_waiting, and then pthread_cond_wait.
SetWaiting ==
    /\ mpc = "init" /\ mpc' = "waiting"
    /\ UNCHANGED <<zkVars, swatch, reqs, inq, ctx, base, early, check, seen, dropped>>

CondWait ==
    /\ mpc = "waiting" /\ mpc' = "blocked"
    /\ UNCHANGED <<zkVars, swatch, reqs, inq, ctx, base, early, check, seen, dropped>>

\* Mutant of Signal: nobody is woken.
SignalNot == mpc

\* connectingFinishSignal wakes a thread that waits now; no predicate remembers it.
Signal == IF mpc = "blocked" THEN "load" ELSE mpc

\* The session's CONNECTED event in watcherFnG.
Connected ==
    /\ link = "connecting"
    /\ link' = "up" /\ mpc' = Signal /\ early' = (early \/ mpc \in {"init", "waiting"})
    /\ UNCHANGED <<node, rev, losses, swatch, reqs, inq, ctx, base, check, seen, dropped>>

\* DataWatcherBase::init reads the node; without one it fails and sets no watch.
LoadData ==
    /\ mpc = "load" /\ link = "up"
    /\ seen' = node /\ mpc' = IF node = 0 THEN "failed" ELSE "watch"
    /\ UNCHANGED <<zkVars, swatch, reqs, inq, ctx, base, early, check, dropped>>

\* zoo_awget or zoo_awexists, n times.
Requests(kind, n) == reqs' = reqs \o [i \in 1 .. n |-> kind]

AddWatch ==
    /\ mpc = "watch" /\ mpc' = "done"
    /\ Requests("get", 1)
    /\ UNCHANGED <<zkVars, swatch, inq, ctx, base, early, check, seen, dropped>>

-----------------------------------------------------------------------------
(* ZooKeeper *)

Msg(type, r) == [type |-> type, rev |-> r]

\* The event a watch set at revision a gets when the node is at revision b.
Event(a, b) == Msg(IF b = 0 THEN "DELETED" ELSE IF a = 0 THEN "CREATED" ELSE "CHANGED", b)

\* The node is written, created or deleted by someone; a watch fires.
Change ==
    /\ rev <= MaxChanges /\ rev' = rev + 1
    /\ node' \in {rev + 1} \cup (IF node = 0 THEN {} ELSE {0})
    /\ inq' = IF swatch /\ link = "up" THEN Append(inq, Event(node, node')) ELSE inq
    /\ swatch' = FALSE
    /\ UNCHANGED <<link, losses, reqs, ctx, base, mainVars, check, seen, dropped>>

\* The server answers the next request and sets its watch: a get does so only on
\* a node that exists.
Answer ==
    /\ link = "up" /\ reqs # <<>>
    /\ reqs' = Tail(reqs)
    /\ inq' = Append(inq, Msg(Head(reqs), node))
    /\ swatch' = (swatch \/ Head(reqs) = "exists" \/ node # 0)
    /\ UNCHANGED <<zkVars, ctx, base, mainVars, check, seen, dropped>>

\* The connection is lost: what is under way fails.
Lose ==
    /\ link = "up" /\ mpc \in {"done", "failed"} /\ losses < MaxLosses
    /\ link' = "down" /\ losses' = losses + 1
    /\ reqs' = <<>> /\ inq' = inq \o [i \in 1 .. Len(reqs) |-> Msg("lost", 0)]
    /\ swatch' = FALSE
    /\ UNCHANGED <<node, rev, ctx, base, mainVars, check, seen, dropped>>

Watches == ctx.data + ctx.exist

\* The client library reconnects and sets its watches again; what they have
\* missed comes as an event.
Reconnect ==
    /\ link = "down" /\ inq = <<>>
    /\ link' = "up"
    /\ LET fire == IF ctx.data > 0 THEN node # base ELSE ctx.exist > 0 /\ node # 0
       IN  /\ inq' = IF fire THEN <<Event(base, node)>> ELSE <<>>
           /\ swatch' = (Watches > 0 /\ ~fire)
    /\ UNCHANGED <<node, rev, losses, reqs, ctx, base, mainVars, check, seen, dropped>>

-----------------------------------------------------------------------------
(* ZKClient and ZKWatcher, on the callback thread *)

Take(type) == inq # <<>> /\ Head(inq).type = type /\ inq' = Tail(inq)

\* n calls of checkExists: the first sets m_check_exists, which stops the others.
CheckExists(n) ==
    /\ check' = (check \/ n > 0)
    /\ Requests("exists", IF check \/ n = 0 THEN 0 ELSE 1)

\* getDataComplete, with JsonWatcherBase::onDataChange.
GetDataComplete ==
    /\ Take("get")
    /\ base' = Head(inq).rev
    /\ \/ /\ Head(inq).rev # 0
          /\ seen' = Head(inq).rev /\ ctx' = [ctx EXCEPT !.data = @ + 1]
          /\ UNCHANGED <<reqs, check>>
       \/ Head(inq).rev = 0 /\ CheckExists(1) /\ UNCHANGED <<seen, ctx>>
    /\ UNCHANGED <<zkVars, swatch, mainVars, dropped>>

\* getExistsComplete: onPathCreate does nothing, onPathRemove clears the data.
GetExistsComplete ==
    /\ Take("exists")
    /\ base' = Head(inq).rev
    /\ \/ Head(inq).rev # 0 /\ ctx' = [ctx EXCEPT !.data = @ + 1] /\ UNCHANGED seen
       \/ Head(inq).rev = 0 /\ ctx' = [ctx EXCEPT !.exist = @ + 1] /\ seen' = 0
    /\ UNCHANGED <<zkVars, swatch, reqs, mainVars, check, dropped>>

\* Either completion with another rc returns at once.
CompleteLost ==
    /\ Take("lost")
    /\ dropped' = TRUE
    /\ UNCHANGED <<zkVars, swatch, reqs, ctx, base, mainVars, check, seen>>

\* Mutant of OnChanged: the event is taken, the watch not set again.
OnChangedNot(n) == Requests("get", 0) /\ UNCHANGED check

\* handleEvent(CHANGE_EVENT): addWatch.
OnChanged(n) == Requests("get", n) /\ UNCHANGED check

\* Mutant of OnDeleted: the mask is not looked at.
OnDeletedBoth(n) == check' = TRUE /\ reqs' = reqs \o <<"get", "exists">>

\* handleEvent(DELETE_EVENT), which is not in the mask.
OnDeleted(n) == CheckExists(n)

\* Mutant of OnCreated: watches the node without reading it.
OnCreatedBlind(n) == Requests("exists", n) /\ check' = FALSE

\* handleEvent(CREATE_EVENT): nodeExists.
OnCreated(n) == Requests("get", n) /\ check' = FALSE

\* watcherFn: every context of the path is called and deleted.
WatcherFn ==
    /\ \/ Take("CHANGED") /\ OnChanged(Watches)
       \/ Take("DELETED") /\ OnDeleted(Watches)
       \/ Take("CREATED") /\ OnCreated(Watches)
    /\ base' = Head(inq).rev /\ ctx' = NoCtx
    /\ UNCHANGED <<zkVars, swatch, mainVars, seen, dropped>>

\* watcherFnG: the session has expired. reinit, and watchAll calls nodeExists.
Expired ==
    /\ link = "down"
    /\ link' = "connecting" /\ swatch' = FALSE /\ inq' = <<>> /\ ctx' = NoCtx /\ base' = 0
    /\ check' = FALSE
    /\ reqs' = IF mpc = "done" THEN <<"get">> ELSE <<>>
    /\ UNCHANGED <<node, rev, losses, mainVars, seen, dropped>>

-----------------------------------------------------------------------------
Main == SetWaiting \/ CondWait \/ LoadData \/ AddWatch
Callback == GetDataComplete \/ GetExistsComplete \/ CompleteLost \/ WatcherFn \/ Expired

Next == Main \/ Connected \/ Change \/ Answer \/ Lose \/ Reconnect \/ Callback

Spec == Init /\ [][Next]_vars

\* The main thread runs, and the ensemble can be reached.
FairSpec == Spec /\ WF_vars(Main) /\ WF_vars(Connected)

-----------------------------------------------------------------------------
(* Properties *)

Events == {"CHANGED", "DELETED", "CREATED"}

\* Shapes of the state.
TypeOK ==
    /\ node \in 0 .. rev /\ seen \in 0 .. rev /\ base \in 0 .. rev /\ ctx \in [{"data", "exist"} -> Nat]
    /\ \A i \in DOMAIN inq : inq[i].type \in Events \cup {"get", "exists", "lost"}
    /\ \A i \in DOMAIN reqs : reqs[i] \in {"get", "exists"}

\* A watcher is one chain of a request, its completion and its watch; events
\* never multiply it, whichever of them arrive in which order.
OneChain ==
    Watches + Len(reqs) + Cardinality({i \in DOMAIN inq : inq[i].type \notin Events}) <= 1

Settled == mpc = "done" /\ link = "up" /\ reqs = <<>> /\ inq = <<>>

\* The chain ends for two reasons only: a connection loss failed the request
\* that was to set the watch again, or checkExists thinks it has one under way.
ChainAlive == Settled /\ Watches = 0 => dropped \/ check

\* A watcher at rest has the data of the node, across deletions, losses and new
\* sessions, unless m_check_exists has stayed set.
SeenCurrent ==
    Settled /\ Watches > 0 /\ (ctx.exist > 0 \/ ~check) => seen = node

\* ZKClient::init returns, unless the connection is there before it waits.
InitWakes == <>(early \/ mpc \notin {"init", "waiting", "blocked"})
=============================================================================

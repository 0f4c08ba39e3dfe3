----------------------------- MODULE PushServer -----------------------------
(***************************************************************************)
(* The push server's connections to the connect servers (push_server/src). *)
(* ZooKeeper lists the connect servers; SvManager copies the list into a   *)
(* versioned DataSrc and posts a CheckConnectServerOp to every event loop, *)
(* whose Svlist loads it and opens an SvCon to each server it has none of. *)
(* An SvCon that has registered is entered into m_svcons, where pushes     *)
(* look their connect server up.                                           *)
(*                                                                         *)
(* Threads: the main thread (SvManager::init), ZooKeeper's callback        *)
(* thread, and the event loops, which start after init.                    *)
(***************************************************************************)
EXTENDS Integers, Sequences, FiniteSets, SequencesExt

CONSTANTS
    Servers,     \* ids of connect servers
    Accepting,   \* those whose status parses and has a port for this server's type
    Loops,       \* event loops
    SvConns,        \* SvCon objects
    MaxChanges,  \* bound: changes of the list in ZooKeeper
    MaxFails,    \* bound: failed requests to ZooKeeper and expired sessions
    MaxOther     \* bound: checks posted by the first SvManager

ASSUME PushServerAssumption ==
    /\ Servers \subseteq Nat /\ IsFiniteSet(Servers) /\ Accepting \subseteq Servers
    /\ IsFiniteSet(SvConns) /\ MaxChanges \in Nat /\ MaxFails \in Nat /\ MaxOther \in Nat

VARIABLES
    zk,       \* the servers in ZooKeeper, children of ConnSvZkPath ...
    dir,      \* ... and whether that node exists
    changes,  \* number of changes of zk and dir
    fails,    \* number of failed requests and expired sessions
    watch,    \* the watch of the list: see Quiet
    check,    \* m_check_exists
    wlist,    \* the list the callback thread has read
    wpc,      \* where the callback thread is in onChildrenChange
    missed,   \* its last attempt to read the list has failed
    mlist,    \* the list the main thread has read in init
    mpc,      \* where the main thread is
    data,     \* DataSrc::m_data ...
    version,  \* ... and m_version
    writer,   \* the thread that called setData last
    notify,   \* loops that thread has still to notify, per thread
    other,    \* checks posted by the first SvManager
    ops,      \* operators of each loop: "check", or an SvCon to add
    lpc,      \* where each loop is in Loader::loadData
    lv,       \* the version loadData has read
    loaded,   \* Loader::m_version ...
    seen,     \* ... and m_data
    svcons,   \* Svlist::m_svcons
    con       \* the SvCons

zkVars == <<zk, dir, changes, fails, watch, check, wlist, wpc, missed>>
srcVars == <<data, version, writer>>
loadVars == <<lpc, lv, loaded, seen>>
vars == <<zkVars, mlist, mpc, srcVars, notify, other, ops, loadVars, svcons, con>>

Threads == {"main", "zk"}

\* place: free, queued (in an AddConnectionOp), live, or gone. status is
\* Client::m_status, reg is STATUS_LOGIN. sock is what the network knows.
NewCon == [place |-> "free", status |-> "INIT", reg |-> FALSE, sv |-> 0, loop |-> 0,
           sock |-> "none", asked |-> FALSE]

Init ==
    /\ zk \in SUBSET Servers /\ dir \in BOOLEAN /\ (zk # {} => dir) /\ changes = 0 /\ fails = 0
    /\ watch = "requested" /\ check = FALSE /\ wlist = {} /\ wpc = "idle" /\ missed = FALSE
    /\ mlist = {} /\ mpc = "read"
    /\ data = {} /\ version = 0 /\ writer = "none"
    /\ notify = [t \in Threads |-> {}] /\ other = 0
    /\ ops = [l \in Loops |-> <<>>]
    /\ lpc = [l \in Loops |-> "idle"] /\ lv = [l \in Loops |-> 0]
    /\ loaded = [l \in Loops |-> 0] /\ seen = [l \in Loops |-> {}]
    /\ svcons = [l \in Loops |-> <<>>]
    /\ con = [c \in SvConns |-> NewCon]

-----------------------------------------------------------------------------
(* The list of servers *)

\* A connect server starts or stops, or someone removes or creates the node
\* above them; a watch that is set fires.
ZkChange ==
    /\ changes < MaxChanges /\ changes' = changes + 1
    /\ \/ /\ dir /\ \E s \in Servers : zk' = IF s \in zk THEN zk \ {s} ELSE zk \cup {s}
          /\ watch' = IF watch = "armed" THEN "fired" ELSE watch
          /\ UNCHANGED dir
       \/ /\ zk = {} /\ dir' = ~dir
          /\ watch' = IF watch = "armed" THEN "deleted"
                      ELSE IF watch = "exist" THEN "created" ELSE watch
          /\ UNCHANGED zk
    /\ UNCHANGED <<fails, check, wlist, wpc, missed, mlist, mpc, srcVars, notify, other, ops,
                   loadVars, svcons, con>>

\* A request fails: connection loss, timeout.
Fail == fails < MaxFails /\ fails' = fails + 1

\* checkExists asks for a watch of the node's creation, once.
CheckExists == check' = TRUE /\ watch' = IF check THEN "none" ELSE "checking"

\* Mutant of HandleEvent: the watch is set again without reading the list.
HandleEventBlind ==
    /\ wpc = "idle" /\ watch = "fired"
    /\ watch' = "armed"
    /\ UNCHANGED <<zk, dir, changes, fails, check, wlist, wpc, missed, mlist, mpc, srcVars,
                   notify, other, ops, loadVars, svcons, con>>

\* The watch's event. Of a child: list and watch are asked for again. DELETED and
\* CREATED are not in the mask: checkExists, and nodeExists.
HandleEvent ==
    /\ wpc = "idle"
    /\ \/ watch = "fired" /\ watch' = "requested" /\ UNCHANGED <<check, missed>>
       \/ watch = "deleted" /\ CheckExists /\ missed' = TRUE
       \/ watch = "created" /\ watch' = "requested" /\ check' = FALSE /\ UNCHANGED missed
    /\ UNCHANGED <<zk, dir, changes, fails, wlist, wpc, mlist, mpc, srcVars, notify, other, ops,
                   loadVars, svcons, con>>

\* getChildrenComplete: the list as it was when the watch was set; ZNONODE; or
\* another rc, which leaves no watch.
ChildrenComplete ==
    /\ wpc = "idle" /\ watch = "requested"
    /\ \/ /\ dir /\ watch' = "armed" /\ wlist' = zk /\ wpc' = "data"
          /\ UNCHANGED <<fails, check, missed>>
       \/ ~dir /\ CheckExists /\ missed' = TRUE /\ UNCHANGED <<fails, wlist, wpc>>
       \/ Fail /\ watch' = "none" /\ missed' = TRUE /\ UNCHANGED <<check, wlist, wpc>>
    /\ UNCHANGED <<zk, dir, changes, mlist, mpc, srcVars, notify, other, ops, loadVars, svcons, con>>

\* getExistsComplete. onPathCreate and onPathRemove do nothing; a node that is
\* there already is watched for events that the mask leaves out.
ExistsComplete ==
    /\ wpc = "idle" /\ watch = "checking"
    /\ \/ watch' = (IF dir THEN "none" ELSE "exist") /\ UNCHANGED fails
       \/ Fail /\ watch' = "none"
    /\ UNCHANGED <<zk, dir, changes, check, wlist, wpc, missed, mlist, mpc, srcVars, notify, other,
                   ops, loadVars, svcons, con>>

\* watcherFnG: the session has expired. reinit, and watchAll calls nodeExists; or
\* reinit fails, and the client stays closed. (A call of init's fails meanwhile.)
SessionExpired ==
    /\ wpc = "idle" /\ mpc \notin {"read", "set"} /\ watch # "closed" /\ Fail
    /\ \/ watch' = "requested" /\ check' = FALSE /\ UNCHANGED missed
       \/ watch' = "closed" /\ missed' = TRUE /\ UNCHANGED check
    /\ UNCHANGED <<zk, dir, changes, wlist, wpc, mlist, mpc, srcVars, notify, other, ops, loadVars,
                   svcons, con>>

\* Mutant of Bump: setData forgets the version.
BumpNot(v) == v

Bump(v) == v + 1

\* onSvListChange: the servers with a suitable port, and setData.
SetData(t, list) ==
    /\ data' = list \cap Accepting
    /\ version' = Bump(version)
    /\ writer' = t

\* Mutant of ToNotify: the loop stops one short.
ToNotifyShort == Loops \ {CHOOSE l \in Loops : TRUE}

\* notifySvlistChange goes through all loops.
ToNotify == Loops

\* onChildrenChange: getChildrenData reads every child. One that fails, because
\* the child has gone or the connection, makes it drop the whole list.
OnChildrenChange ==
    /\ wpc = "data"
    /\ \/ /\ SetData("zk", wlist) /\ notify' = [notify EXCEPT !["zk"] = ToNotify]
          /\ wpc' = "notify" /\ missed' = FALSE /\ UNCHANGED fails
       \/ /\ \/ ~(wlist \subseteq zk) /\ UNCHANGED fails
             \/ wlist # {} /\ Fail
          /\ wpc' = "idle" /\ missed' = TRUE /\ UNCHANGED <<srcVars, notify>>
    /\ wlist' = {}
    /\ UNCHANGED <<zk, dir, changes, watch, check, mlist, mpc, other, ops, loadVars, svcons, con>>

\* SvManager::init reads the list itself, after it has asked for the watch.
MainRead ==
    /\ mpc = "read" /\ dir
    /\ mlist' = zk /\ mpc' = "set"
    /\ UNCHANGED <<zkVars, srcVars, notify, other, ops, loadVars, svcons, con>>

\* A failed read of the list or of a child: init fails and the process ends.
MainFail ==
    /\ \/ mpc = "read" /\ ~dir /\ UNCHANGED fails
       \/ mpc = "set" /\ ~(mlist \subseteq zk) /\ UNCHANGED fails
       \/ (mpc = "read" \/ (mpc = "set" /\ mlist # {})) /\ Fail
    /\ mpc' = "failed"
    /\ UNCHANGED <<zk, dir, changes, watch, check, wlist, wpc, missed, mlist, srcVars, notify, other,
                   ops, loadVars, svcons, con>>

MainSet ==
    /\ mpc = "set"
    /\ SetData("main", mlist) /\ mlist' = {}
    /\ notify' = [notify EXCEPT !["main"] = ToNotify] /\ mpc' = "notify"
    /\ UNCHANGED <<zkVars, other, ops, loadVars, svcons, con>>

\* One turn of notifySvlistChange's loop, or its end; the loops run after init.
Notify(t) ==
    /\ IF t = "main" THEN mpc = "notify" ELSE wpc = "notify"
    /\ \/ \E l \in notify[t] : /\ notify' = [notify EXCEPT ![t] = @ \ {l}]
                               /\ ops' = [ops EXCEPT ![l] = Append(@, "check")]
                               /\ UNCHANGED <<mpc, wpc>>
       \/ /\ notify[t] = {} /\ UNCHANGED <<notify, ops>>
          /\ mpc' = IF t = "main" THEN "done" ELSE mpc
          /\ wpc' = IF t = "zk" THEN "idle" ELSE wpc
    /\ UNCHANGED <<zk, dir, changes, fails, watch, check, wlist, missed, mlist, srcVars, other, loadVars,
                   svcons, con>>

\* initEventLoop has made an SvManager of its own before: its DataSrc is not
\* the one the loops load, but it posts checks to them too.
OtherNotify(l) ==
    /\ other < MaxOther
    /\ other' = other + 1
    /\ ops' = [ops EXCEPT ![l] = Append(@, "check")]
    /\ UNCHANGED <<zkVars, mlist, mpc, srcVars, notify, loadVars, svcons, con>>

-----------------------------------------------------------------------------
(* The event loops *)

\* checkServers, loadData: the version is read without the lock ...
CheckVersion(l) ==
    /\ mpc = "done" /\ lpc[l] = "idle" /\ ops[l] # <<>> /\ Head(ops[l]) = "check"
    /\ ops' = [ops EXCEPT ![l] = Tail(@)]
    /\ IF loaded[l] < version
       THEN lpc' = [lpc EXCEPT ![l] = "load"] /\ lv' = [lv EXCEPT ![l] = version]
       ELSE UNCHANGED <<lpc, lv>>
    /\ UNCHANGED <<zkVars, mlist, mpc, srcVars, notify, other, loaded, seen, svcons, con>>

Free == {c \in SvConns : con[c].place = "free"}

\* getServer finds nothing.
Missing(l) == data \ DOMAIN svcons[l]

\* connectServer: a new SvCon, added to the loop even when no address of the
\* server could be tried.
ConnectServer(l, s, tried) ==
    [NewCon EXCEPT !.place = "queued", !.sv = s, !.loop = l,
                   !.status = IF tried THEN "CONNECTING" ELSE "INIT",
                   !.sock = IF tried THEN "pending" ELSE "none"]

\* ... and the data under it; checkServers connects to each missing server.
CheckLoad(l) ==
    /\ lpc[l] = "load"
    /\ seen' = [seen EXCEPT ![l] = data] /\ loaded' = [loaded EXCEPT ![l] = lv[l]]
    /\ lpc' = [lpc EXCEPT ![l] = "idle"] /\ lv' = [lv EXCEPT ![l] = 0]
    /\ ExistsInjection(Missing(l), Free)
    /\ \E tried \in SUBSET Missing(l) :
       LET new == CHOOSE f \in Injection(Missing(l), Free) : TRUE
       IN /\ con' = [c \in SvConns |->
                       IF \E s \in Missing(l) : new[s] = c
                       THEN LET s == CHOOSE x \in Missing(l) : new[x] = c
                            IN  ConnectServer(l, s, s \in tried)
                       ELSE con[c]]
          /\ LET order == SetToSortSeq(Missing(l), <)
             IN  ops' = [ops EXCEPT ![l] = @ \o [i \in DOMAIN order |-> new[order[i]]]]
    /\ UNCHANGED <<zkVars, mlist, mpc, srcVars, notify, other, svcons>>

\* AddConnectionOp: onCreate asks for events.
ProcessAdd(l) ==
    /\ lpc[l] = "idle" /\ ops[l] # <<>> /\ Head(ops[l]) \in SvConns
    /\ ops' = [ops EXCEPT ![l] = Tail(@)]
    /\ con' = [con EXCEPT ![Head(ops[l])].place = "live"]
    /\ UNCHANGED <<zkVars, mlist, mpc, srcVars, notify, other, loadVars, svcons>>

\* Mutant of Forget: the entry stays.
ForgetNot(l, s) == svcons[l]

\* Svlist::delServer: the entry goes, whichever SvCon it is of.
Forget(l, s) == [k \in DOMAIN svcons[l] \ {s} |-> svcons[l][k]]

\* The loop of c is between two operators.
Handles(c) == con[c].place = "live" /\ lpc[con[c].loop] = "idle"

\* SvCon::onDisconnected, and its destructor.
OnDisconnected(c) ==
    svcons' = [svcons EXCEPT ![con[c].loop] = Forget(con[c].loop, con[c].sv)]

\* Client::disconnect; the place is "gone" where recycle follows.
Disconnect(c, place) ==
    /\ con' = [con EXCEPT ![c] = [@ EXCEPT !.place = place, !.status = "INIT", !.sock = "closed"]]
    /\ OnDisconnected(c)

\* onConnected, doRegister: the login request is sent.
DoRegister(c) == [c EXCEPT !.asked = TRUE]

\* handleConnected: connected or refused, getsockopt succeeds, and onConnected
\* sends the login request. On a refused connection that send fails (on one that
\* has broken since it may), and onFail disconnects and recycles.
HandleConnected(c) ==
    /\ Handles(c) /\ con[c].status = "CONNECTING"
    /\ \/ /\ con[c].sock \in {"ok", "down"}
          /\ con' = [con EXCEPT ![c] = DoRegister([@ EXCEPT !.status = "CONNECTED"])]
          /\ UNCHANGED svcons
       \/ con[c].sock \in {"refused", "down"} /\ Disconnect(c, "gone")
    /\ UNCHANGED <<zkVars, mlist, mpc, srcVars, notify, other, ops, loadVars>>

\* Mutant of Registered: the SvCon is not entered.
RegisteredNot(l, s, c) == svcons[l]

\* Svlist::addServer.
Registered(l, s, c) ==
    [k \in DOMAIN svcons[l] \cup {s} |-> IF k = s THEN c ELSE svcons[l][k]]

\* handleRegisterResponse: a refusal disconnects and does no more.
RegisterResponse(c) ==
    /\ Handles(c) /\ con[c].status = "CONNECTED" /\ con[c].asked /\ con[c].sock = "ok"
    /\ \/ /\ con' = [con EXCEPT ![c].reg = TRUE, ![c].asked = FALSE]
          /\ svcons' = [svcons EXCEPT ![con[c].loop] = Registered(con[c].loop, con[c].sv, c)]
       \/ Disconnect(c, "live")
    /\ UNCHANGED <<zkVars, mlist, mpc, srcVars, notify, other, ops, loadVars>>

\* A read finds the connection broken: onFail disconnects and, with a reconnect
\* span of 0, recycles.
OnFail(c) ==
    /\ Handles(c) /\ con[c].status = "CONNECTED" /\ con[c].sock = "down"
    /\ Disconnect(c, "gone")
    /\ UNCHANGED <<zkVars, mlist, mpc, srcVars, notify, other, ops, loadVars>>

\* The network: a connect ends, a connection breaks.
Network(c) ==
    /\ \/ con[c].sock = "pending" /\ \E r \in {"ok", "refused"} : con' = [con EXCEPT ![c].sock = r]
       \/ con[c].sock = "ok" /\ con' = [con EXCEPT ![c].sock = "down"]
    /\ UNCHANGED <<zkVars, mlist, mpc, srcVars, notify, other, ops, loadVars, svcons>>

-----------------------------------------------------------------------------
Watcher == HandleEvent \/ ChildrenComplete \/ ExistsComplete \/ OnChildrenChange \/ Notify("zk")
Main == MainRead \/ MainFail \/ MainSet \/ Notify("main")
Loop(l) ==
    \/ CheckVersion(l) \/ CheckLoad(l) \/ ProcessAdd(l)
    \/ \E c \in SvConns : con[c].loop = l /\ (HandleConnected(c) \/ RegisterResponse(c) \/ OnFail(c))

Next ==
    \/ ZkChange \/ SessionExpired \/ Watcher \/ Main
    \/ \E l \in Loops : OtherNotify(l) \/ Loop(l)
    \/ \E c \in SvConns : Network(c)

Spec == Init /\ [][Next]_vars

\* The loop has a timer, the keep-alive of a live SvCon, which starts itself anew.
Timed(l) == \E c \in SvConns : con[c].place = "live" /\ con[c].loop = l

\* The threads run, and finish an operator once begun. A queued operator is sure
\* to be taken only in a loop with a timer: the wake-up for it can be lost.
FairSpec ==
    /\ Spec /\ WF_vars(Watcher) /\ WF_vars(Main)
    /\ \A l \in Loops : /\ WF_vars(CheckLoad(l))
                        /\ WF_vars(Timed(l) /\ (CheckVersion(l) \/ ProcessAdd(l)))

-----------------------------------------------------------------------------
(* Properties *)

\* Shapes of the state.
TypeOK ==
    /\ zk \subseteq Servers /\ (zk # {} => dir) /\ data \subseteq Accepting /\ version \in Nat
    /\ \A l \in Loops : loaded[l] <= version /\ DOMAIN svcons[l] \subseteq Accepting
    /\ \A c \in SvConns : /\ con[c].place \in {"free", "queued", "live", "gone"}
                       /\ con[c].status \in {"INIT", "CONNECTING", "CONNECTED"}

\* m_svcons holds raw pointers that sendToServer uses: each is of an SvCon of
\* that loop which is alive, registered, and connected to that server, even when
\* a second connection to the server has replaced or removed the entry.
ListSound ==
    \A l \in Loops : \A s \in DOMAIN svcons[l] :
        LET c == con[svcons[l][s]]
        IN  c.place = "live" /\ c.reg /\ c.status = "CONNECTED" /\ c.sv = s /\ c.loop = l

\* A registered connection is found by sendToServer, unless the loop has opened
\* a second connection to the same server, whose end removes the entry of both.
LostOnlyByDuplicate ==
    \A c \in SvConns :
        (con[c].place = "live" /\ con[c].reg /\ con[c].status = "CONNECTED") =>
            \/ con[c].sv \in DOMAIN svcons[con[c].loop]
            \/ \E d \in SvConns \ {c} : con[d].sv = con[c].sv /\ con[d].loop = con[c].loop

\* A loader with the current version has the current data, although it reads the
\* version outside the lock of DataSrc.
LoaderFresh == \A l \in Loops : loaded[l] = version => seen[l] = data

\* The callback thread has nothing to do: the watch of the children or of the
\* node's creation is set, or there is none, or the client is closed.
Quiet == wpc = "idle" /\ watch \in {"armed", "exist", "none", "closed"}

\* When the callback thread is quiet, the list is the one in ZooKeeper, whatever
\* changed while it was asked for, read child by child and set. The exceptions:
\* its last attempt to read the list has failed (and nothing tries again before
\* the next change), or init has set the list it had read before the callback's.
ListCurrent == (writer = "zk" /\ Quiet) => (missed \/ data = zk \cap Accepting)

\* A loop that has a timer ends up with the list that was set last: the check is
\* posted after setData, so no change is missed.
Converges == \A l \in Loops : <>[]Timed(l) => <>[](seen[l] = data)
=============================================================================

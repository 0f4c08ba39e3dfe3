------------------------------ MODULE EventLoop ------------------------------
(***************************************************************************)
(* ef::EventLoop (efnfw/net/ef_event_loop.cpp): one thread runs run(); any *)
(* thread hands it work with the asyn* functions, which append an operator *)
(* to m_ops under a mutex and wake the thread through a socket pair. The   *)
(* loop owns the connections of its m_con_map and their timers.            *)
(*                                                                         *)
(* Threads interleave between the shared accesses of the code: the append  *)
(* under m_opcs, the compare-exchange of m_ops_flag, the send of the       *)
(* control byte, and on the loop's side the reset of the flag, the recv,   *)
(* each removal from m_ops, and epoll_wait. Work the loop does on its own  *)
(* data (an operator, the timers, one event) is one step.                  *)
(***************************************************************************)
EXTENDS Integers, Sequences, FiniteSets

CONSTANTS
    Producers,   \* threads that call asyn* functions or stop()
    Conns,       \* connection objects, with distinct ids
    TimerCons,   \* the connections whose onCreate starts a recurring timer
    RecvMax,     \* bytes one recv in processOps takes (16 * 1024)
    TimerBatch,  \* timers one processTimers call runs (procTimerCnt)
    MaxOps       \* bound: operators posted in a behaviour

ASSUME ConstantsAssumption ==
    /\ IsFiniteSet(Producers)
    /\ TimerCons \subseteq Conns
    /\ RecvMax \in Nat /\ RecvMax >= Cardinality(Producers) + 2
    /\ TimerBatch \in Nat \ {0}
    /\ MaxOps \in Nat

CloseAllOp == [kind |-> "closeall"]
Op == [kind : {"add", "close", "send"}, con : Conns] \cup {CloseAllOp}

VARIABLES
    ops,      \* m_ops: operators appended and not yet removed
    opsFlag,  \* m_ops_flag
    ctl,      \* bytes in the control socket pair
    ppc,      \* where each producer is in addAsynOperator / stop
    posted,   \* number of operators appended so far
    status,   \* m_status
    lpc,      \* where the loop thread is in run()
    wait,     \* whether epoll_wait gets the timeout of processTimers or -1
    ready,    \* devices of the events array not yet handled
    con,      \* life cycle of each connection
    timer     \* its recurring timer: off, armed for later, or due

vars == <<ops, opsFlag, ctl, ppc, posted, status, lpc, wait, ready, con, timer>>

\* m_con_map, with closing those that have FLAG_SAFE_CLOSE and unsent bytes.
InMap == {c \in Conns : con[c] \in {"live", "closing"}}

Init ==
    /\ ops = <<>> /\ opsFlag = 0 /\ ctl = 0 /\ posted = 0
    /\ ppc = [p \in Producers |-> "idle"]
    /\ status = "closed" /\ lpc = "start" /\ wait = "forever" /\ ready = {}
    /\ con = [c \in Conns |-> "new"]
    /\ timer = [c \in Conns |-> "off"]

-----------------------------------------------------------------------------
(* Producer threads *)

\* addAsynOperator: the append under m_opcs.
Append1(p, op) ==
    /\ ops' = Append(ops, op)
    /\ posted' = posted + 1
    /\ ppc' = [ppc EXCEPT ![p] = "cas"]

\* asynAddConnection hands over a connection once; the other operators name
\* an id that may belong to no connection any more.
Post(p, op) ==
    /\ ppc[p] = "idle" /\ posted < MaxOps
    /\ IF op.kind = "add" THEN /\ con[op.con] = "new"
                               /\ con' = [con EXCEPT ![op.con] = "queued"]
                          ELSE UNCHANGED con
    /\ Append1(p, op)
    /\ UNCHANGED <<opsFlag, ctl, status, lpc, wait, ready, timer>>

\* Mutant of CasFlag: every thread sends, whether or not it raised the flag.
CasFlagSendAlways(p) ==
    /\ ppc[p] = "cas"
    /\ opsFlag' = 1
    /\ ppc' = [ppc EXCEPT ![p] = "send"]
    /\ UNCHANGED <<ops, ctl, posted, status, lpc, wait, ready, con, timer>>

\* addAsynOperator: the compare-exchange of m_ops_flag; only the thread that
\* sets the flag goes on to send.
CasFlag(p) ==
    /\ ppc[p] = "cas"
    /\ opsFlag' = 1
    /\ ppc' = [ppc EXCEPT ![p] = IF opsFlag = 0 THEN "send" ELSE "idle"]
    /\ UNCHANGED <<ops, ctl, posted, status, lpc, wait, ready, con, timer>>

\* addAsynOperator: the control byte.
SendCtl(p) ==
    /\ ppc[p] = "send"
    /\ ctl' = ctl + 1
    /\ ppc' = [ppc EXCEPT ![p] = "idle"]
    /\ UNCHANGED <<ops, opsFlag, posted, status, lpc, wait, ready, con, timer>>

\* stop(): the compare-exchange of m_status; it does nothing unless running.
Stop(p) ==
    /\ ppc[p] = "idle" /\ status = "running"
    /\ status' = "closing"
    /\ ppc' = [ppc EXCEPT ![p] = "stop"]
    /\ UNCHANGED <<ops, opsFlag, ctl, posted, lpc, wait, ready, con, timer>>

\* stop(): asynCloseAllConnections.
PostCloseAll(p) ==
    /\ ppc[p] = "stop"
    /\ Append1(p, CloseAllOp)
    /\ UNCHANGED <<opsFlag, ctl, status, lpc, wait, ready, con, timer>>

Producer(p) ==
    \/ \E op \in Op \ {CloseAllOp} : Post(p, op)
    \/ CasFlag(p) \/ SendCtl(p) \/ Stop(p) \/ PostCloseAll(p)

-----------------------------------------------------------------------------
(* The loop thread *)

\* Mutant of SafeCloseThese: the timers are not cleared.
SafeCloseKeepTimers(cs, tm) ==
    /\ \E drained \in SUBSET cs :
          con' = [c \in Conns |-> IF c \in drained THEN "gone"
                                ELSE IF c \in cs THEN "closing" ELSE con[c]]
    /\ timer' = tm

\* safeClose of the connections cs: recycled at once with nothing to send, else
\* closing, its timers cleared. tm holds the timers of the others.
SafeCloseThese(cs, tm) ==
    /\ \E drained \in SUBSET cs :
          con' = [c \in Conns |-> IF c \in drained THEN "gone"
                                ELSE IF c \in cs THEN "closing" ELSE con[c]]
    /\ timer' = [c \in Conns |-> IF c \in cs THEN "off" ELSE tm[c]]

RunStart ==
    /\ lpc = "start"
    /\ status' = "running" /\ lpc' = "reset"
    /\ UNCHANGED <<ops, opsFlag, ctl, ppc, posted, wait, ready, con, timer>>

\* processOps: atomicExchange32(&m_ops_flag, 0).
ResetFlag ==
    /\ lpc = "reset"
    /\ opsFlag' = 0 /\ lpc' = "recv"
    /\ UNCHANGED <<ops, ctl, ppc, posted, status, wait, ready, con, timer>>

\* processOps: recv of whatever control bytes there are.
RecvCtl ==
    /\ lpc = "recv"
    /\ ctl' = IF ctl > RecvMax THEN ctl - RecvMax ELSE 0
    /\ lpc' = "ops"
    /\ UNCHANGED <<ops, opsFlag, ppc, posted, status, wait, ready, con, timer>>

\* AddConnectionOp: addConnection with the onCreate of the connection.
ProcessAdd(c) ==
    /\ con' = [con EXCEPT ![c] = "live"]
    /\ timer' = [timer EXCEPT ![c] = IF c \in TimerCons THEN "armed" ELSE "off"]

\* SendMessageOp: a failed send recycles the connection.
ProcessSend(c) ==
    \/ UNCHANGED <<con, timer>>
    \/ /\ c \in InMap
       /\ con' = [con EXCEPT ![c] = "gone"]
       /\ timer' = [timer EXCEPT ![c] = "off"]

\* NetOperator::process for each kind of operator; an id that is not in
\* m_con_map is ignored.
Process(op) ==
    CASE op.kind = "add"      -> ProcessAdd(op.con)
      [] op.kind = "send"     -> ProcessSend(op.con)
      [] op.kind = "close"    -> SafeCloseThese({op.con} \cap InMap, timer)
      [] op.kind = "closeall" -> SafeCloseThese(InMap, timer)

\* Mutant of DrainOp: an if in place of the while, one operator per wake-up.
DrainOpOnce ==
    /\ lpc = "ops" /\ ops # <<>>
    /\ ops' = Tail(ops)
    /\ Process(Head(ops))
    /\ lpc' = "timers"
    /\ UNCHANGED <<opsFlag, ctl, ppc, posted, status, wait, ready>>

\* processOps: one turn of the while loop, or its end on an empty queue.
DrainOp ==
    /\ lpc = "ops" /\ ops # <<>>
    /\ ops' = Tail(ops)
    /\ Process(Head(ops))
    /\ UNCHANGED <<opsFlag, ctl, ppc, posted, status, lpc, wait, ready>>

OpsEmpty ==
    /\ lpc = "ops" /\ ops = <<>>
    /\ lpc' = "timers"
    /\ UNCHANGED <<ops, opsFlag, ctl, ppc, posted, status, wait, ready, con, timer>>

Due == {c \in Conns : timer[c] = "due"}

\* Mutant of Rearmed: the handler forgets to start its timer again.
RearmedNot(run) == [c \in Conns |-> IF c \in run THEN "off" ELSE timer[c]]

\* CliCon::handleTimer starts the timer it was called for again.
Rearmed(run) == [c \in Conns |-> IF c \in run THEN "armed" ELSE timer[c]]

\* processTimers: runs at most TimerBatch expired timers, whose handler starts
\* the timer again or closes the connection (CliCon::handleTimer). It returns
\* the distance to the next timer, but 0 when the batch was used up.
ProcessTimers ==
    /\ lpc = "timers"
    /\ \E run \in SUBSET Due, closed \in SUBSET Due :
          /\ closed \subseteq run
          /\ run = Due \/ Cardinality(run) = TimerBatch
          /\ Cardinality(run) <= TimerBatch
          /\ SafeCloseThese(closed, Rearmed(run))
          /\ wait' = IF Cardinality(run) < TimerBatch /\ \E c \in Conns : timer'[c] # "off"
                     THEN "timeout" ELSE "forever"
    /\ lpc' = "check"
    /\ UNCHANGED <<ops, opsFlag, ctl, ppc, posted, status, ready>>

\* run(): leave once stopping and without connections.
CheckExit ==
    /\ lpc = "check"
    /\ IF status # "running" /\ InMap = {}
          THEN status' = "closed" /\ lpc' = "exited"
          ELSE lpc' = "wait" /\ UNCHANGED status
    /\ UNCHANGED <<ops, opsFlag, ctl, ppc, posted, wait, ready, con, timer>>

\* epoll_wait returns because the control socket is readable, ...
WakeCtl ==
    /\ lpc = "wait" /\ ctl > 0
    /\ lpc' = "reset"
    /\ UNCHANGED <<ops, opsFlag, ctl, ppc, posted, status, wait, ready, con, timer>>

\* ... because a timer it was given the distance to has expired, ...
WakeTimeout ==
    /\ lpc = "wait" /\ wait = "timeout" /\ Due # {}
    /\ lpc' = "reset"
    /\ UNCHANGED <<ops, opsFlag, ctl, ppc, posted, status, wait, ready, con, timer>>

\* ... because devices have events (EINTR is the empty set of them).
WakeEvents ==
    /\ lpc = "wait"
    /\ ready' \in SUBSET InMap
    /\ lpc' = "events"
    /\ UNCHANGED <<ops, opsFlag, ctl, ppc, posted, status, wait, con, timer>>

\* run(): one event: handleRead or handleWrite; a failure, the peer's close and
\* a drained closing connection (-2) end in onFail, which recycles it.
HandleEvent(c) ==
    /\ lpc = "events" /\ c \in ready
    /\ ready' = ready \ {c}
    /\ \/ UNCHANGED <<con, timer>>
       \/ /\ con' = [con EXCEPT ![c] = "gone"]
          /\ timer' = [timer EXCEPT ![c] = "off"]
    /\ UNCHANGED <<ops, opsFlag, ctl, ppc, posted, status, lpc, wait>>

EventsDone ==
    /\ lpc = "events" /\ ready = {}
    /\ lpc' = "reset"
    /\ UNCHANGED <<ops, opsFlag, ctl, ppc, posted, status, wait, ready, con, timer>>

\* Time passes: an armed timer expires.
Tick(c) ==
    /\ timer[c] = "armed"
    /\ timer' = [timer EXCEPT ![c] = "due"]
    /\ UNCHANGED <<ops, opsFlag, ctl, ppc, posted, status, lpc, wait, ready, con>>

-----------------------------------------------------------------------------
\* What the loop thread does by itself once it may; a device event is up to
\* the peers.
LoopStep ==
    \/ RunStart \/ ResetFlag \/ RecvCtl \/ DrainOp \/ OpsEmpty
    \/ ProcessTimers \/ CheckExit \/ WakeCtl \/ WakeTimeout
    \/ (\E c \in Conns : HandleEvent(c)) \/ EventsDone

Next ==
    \/ \E p \in Producers : Producer(p)
    \/ LoopStep
    \/ WakeEvents
    \/ \E c \in Conns : Tick(c)

Spec == Init /\ [][Next]_vars

\* Threads inside a call go on, the loop thread runs, clocks advance.
Fairness ==
    /\ \A p \in Producers : WF_vars(CasFlag(p) \/ SendCtl(p) \/ PostCloseAll(p))
    /\ WF_vars(LoopStep)
    /\ \A c \in Conns : WF_vars(Tick(c))

FairSpec == Spec /\ Fairness
-----------------------------------------------------------------------------
(* Properties *)

LoopPC == {"start", "reset", "recv", "ops", "timers", "check", "wait", "events", "exited"}

\* Every variable of the loop has its type.
TypeOK ==
    /\ ops \in Seq(Op) /\ opsFlag \in {0, 1} /\ ctl \in Nat /\ posted \in Nat
    /\ ppc \in [Producers -> {"idle", "cas", "send", "stop"}]
    /\ status \in {"closed", "running", "closing"} /\ lpc \in LoopPC
    /\ wait \in {"timeout", "forever"} /\ ready \in SUBSET Conns
    /\ con \in [Conns -> {"new", "queued", "live", "closing", "gone"}]
    /\ timer \in [Conns -> {"off", "armed", "due"}]

\* The control socket never holds more than one byte per producer and two more,
\* however threads are delayed between the flag and the send in
\* addAsynOperator: the nonblocking send cannot find the socket full, and one
\* recv of processOps always empties it.
CtlBounded == ctl <= Cardinality(Producers) + 2

\* Once processOps has drained m_ops, an operator that is queued while the flag
\* is down belongs to a thread that is still to raise the flag (and to send the
\* byte): the loop never goes to epoll_wait leaving such an operator behind.
FlagDownServed ==
    (opsFlag = 0 /\ ops # <<>> /\ lpc \notin {"recv", "ops"})
        => \E p \in Producers : ppc[p] = "cas"

\* The events array holds raw Device pointers: no device is recycled between
\* epoll_wait and its turn in run(), and no timer of m_timer_map outlives its
\* connection or the clearTimer of safeClose.
NoDangling ==
    /\ ready \subseteq InMap
    /\ \A c \in Conns : timer[c] # "off" => con[c] = "live"

\* Even when a wake-up is lost, the recurring timer of a live connection gets
\* queued operators processed (run: "process Op and timer at first").
TimerRescues ==
    \A c \in TimerCons :
        (ops # <<>> /\ con[c] = "live") ~> (ops = <<>> \/ con[c] # "live")

\* What the split of the interface into asyn* functions and those below "the
\* function below is not thread safe" promises of the former: an operator handed
\* over from any thread is processed while the loop runs.
OpsServed ==
    (ops # <<>> /\ lpc # "exited") ~> (ops = <<>> \/ lpc = "exited")
==============================================================================

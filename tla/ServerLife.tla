----------------------------- MODULE ServerLife -----------------------------
(***************************************************************************)
(* Start and stop of a server process: main, the thread that accepts       *)
(* connections and the threads of the event loops.  Both programs run on   *)
(* ef::Server: the connect server stops it inside the signal handler, the  *)
(* push server on the main thread once the handler has cleared a flag; the *)
(* push server also opens connections of its own whenever ZooKeeper's      *)
(* callback thread tells its loops that the list of servers has changed.   *)
(* That a loop wakes up for its operators is EventLoop's subject and taken *)
(* for granted here.                                                       *)
(***************************************************************************)
EXTENDS Integers, Sequences, FiniteSets

CONSTANTS
  Loops,       \* the event loops of the server
  Clients,     \* connections that clients make
  Outgoing,    \* connections that a push server makes
  MaxSignals   \* SIGTERMs sent to the process

ASSUME ServerAssumption ==
  /\ Loops # {} /\ IsFiniteSet(Loops) /\ "acceptor" \notin Loops
  /\ Clients \cap Outgoing = {}
  /\ MaxSignals \in Nat

VARIABLES
  kind,      \* the program: connect or push
  mpc,       \* main: init, created, loop, done
  run,       \* m_run of the connect server, g_run of the push server
  spc,       \* stop(): idle, listen, stopA, joinA, stopL, joinL
  todo,      \* the loops that stop() has still to visit
  signals,
  listening, \* the Acceptor exists
  tpc,       \* per thread: none, new, drain, test, wait, accept, exited
  status,    \* m_status of its loop: running, closing, closed
  ops,       \* m_ops of a loop
  con,       \* per connection: none, queued, live, closing, gone
  home,      \* the loop it was given to
  stalled,   \* peers that do not read
  crashed,
  closedAll, \* history: loops that have processed CloseAllConnectionsOp
  missed,    \* history: threads that stop() found not running yet
  early      \* history: a handler has run before m_run was set

vars == <<kind, mpc, run, spc, todo, signals, listening, tpc, status, ops, con,
          home, stalled, crashed, closedAll, missed, early>>

mainVars == <<mpc, run, spc, todo, signals, early>>
loopVars == <<tpc, status, ops, con, home, closedAll>>

Acceptor == "acceptor"
Threads == Loops \cup {Acceptor}
Cons == Clients \cup Outgoing

Op == [kind : {"add", "check"}, con : Cons] \cup {[kind |-> "closeall"]}

TypeOK ==
  /\ kind \in {"connect", "push"}
  /\ mpc \in {"init", "created", "loop", "done"}
  /\ run \in BOOLEAN /\ listening \in BOOLEAN /\ crashed \in BOOLEAN /\ early \in BOOLEAN
  /\ spc \in {"idle", "listen", "stopA", "joinA", "stopL", "joinL"}
  /\ todo \subseteq Loops
  /\ signals \in 0..MaxSignals
  /\ tpc \in [Threads -> {"none", "new", "drain", "test", "wait", "accept", "exited"}]
  /\ status \in [Threads -> {"running", "closing", "closed"}]
  /\ ops \in [Loops -> Seq(Op)]
  /\ con \in [Cons -> {"none", "queued", "live", "closing", "gone"}]
  /\ home \in [Cons -> Threads]
  /\ stalled \subseteq Cons /\ closedAll \subseteq Loops /\ missed \subseteq Threads

Init ==
  /\ kind \in {"connect", "push"}
  /\ mpc = "init"
  /\ run = (kind = "push")
  /\ spc = "idle" /\ todo = {} /\ signals = 0
  /\ listening = TRUE
  /\ tpc = [t \in Threads |-> "none"]
  /\ status = [t \in Threads |-> "closed"]
  /\ ops = [l \in Loops |-> <<>>]
  /\ con = [c \in Cons |-> "none"]
  /\ home = [c \in Cons |-> Acceptor]
  /\ stalled = {} /\ crashed = FALSE /\ closedAll = {} /\ missed = {} /\ early = FALSE

-----------------------------------------------------------------------------
(* main, outside the signal handler *)

\* Server::run creates the threads.
CreateThreads ==
  /\ mpc = "init" /\ spc = "idle"
  /\ mpc' = "created"
  /\ tpc' = [t \in Threads |-> "new"]
  /\ UNCHANGED <<kind, run, spc, todo, signals, listening, status, ops, con, home,
                 stalled, crashed, closedAll, missed, early>>

\* ConnectServer::start sets m_run after Server::run; main of the push server
\* has had g_run set from the beginning.
EnterLoop ==
  /\ mpc = "created" /\ spc = "idle"
  /\ mpc' = "loop"
  /\ run' = IF kind = "connect" THEN TRUE ELSE run
  /\ UNCHANGED <<kind, spc, todo, signals, listening, loopVars, stalled, crashed,
                 missed, early>>

\* The flag is found cleared: the connect server has been stopped by the
\* handler and ends, the push server is stopped now.
LeaveLoop ==
  /\ mpc = "loop" /\ spc = "idle" /\ ~run
  /\ mpc' = "done"
  /\ spc' = IF kind = "push" THEN "listen" ELSE spc
  /\ UNCHANGED <<kind, run, todo, signals, listening, loopVars, stalled, crashed, missed,
                 early>>

\* SIGTERM on the main thread. The handler of the connect server calls stop(). The
\* thread blocks SIGTERM while it is in the handler: the next one comes after stop()
\* has returned, and runs it again.
Signal ==
  /\ mpc # "done" /\ spc = "idle" /\ signals < MaxSignals
  /\ signals' = signals + 1
  /\ run' = FALSE
  /\ spc' = IF kind = "connect" THEN "listen" ELSE spc
  /\ early' = (early \/ (kind = "connect" /\ mpc # "loop"))
  /\ UNCHANGED <<kind, mpc, todo, listening, loopVars, stalled, crashed, missed>>

-----------------------------------------------------------------------------
(* stop() *)

\* stopListen: the Acceptor, its factory and dispatcher are deleted; a second
\* stopListen of the connect server deletes the latter again.
StopListen ==
  /\ spc = "listen"
  /\ spc' = "stopA"
  /\ listening' = FALSE
  /\ \/ UNCHANGED crashed
     \/ ~listening /\ crashed' = TRUE
  /\ UNCHANGED <<kind, mpc, run, todo, signals, loopVars, stalled, missed, early>>

\* EventLoop::stop: the compare-exchange from running to closing.
CasClosing(t) ==
  /\ status' = [status EXCEPT ![t] = IF @ = "running" THEN "closing" ELSE @]
  /\ missed' = IF tpc[t] = "new" THEN missed \cup {t} ELSE missed

\* m_athread.stop(). The acceptor's loop has no connections to close.
StopAcceptor ==
  /\ spc = "stopA"
  /\ CasClosing(Acceptor)
  /\ spc' = "joinA"
  /\ UNCHANGED <<kind, mpc, run, todo, signals, listening, tpc, ops, con, home, stalled,
                 crashed, closedAll, early>>

\* Mutant of JoinAcceptor: the loops are stopped without waiting for the acceptor.
JoinAcceptorNot ==
  /\ spc = "joinA"
  /\ spc' = "stopL" /\ todo' = Loops
  /\ UNCHANGED <<kind, mpc, run, signals, listening, loopVars, stalled, crashed, missed, early>>

\* threadJoin returns when the thread has ended, and at once, if at all, for one
\* that was never created.
JoinAcceptor ==
  /\ spc = "joinA" /\ tpc[Acceptor] \in {"none", "exited"}
  /\ spc' = "stopL" /\ todo' = Loops
  /\ \/ UNCHANGED crashed
     \/ tpc[Acceptor] = "none" /\ crashed' = TRUE
  /\ UNCHANGED <<kind, mpc, run, signals, listening, loopVars, stalled, missed, early>>

\* Mutant of StopLoop: the status changes, but nothing is posted.
StopLoopSilent(l) ==
  /\ spc = "stopL" /\ l \in todo
  /\ CasClosing(l)
  /\ todo' = todo \ {l}
  /\ UNCHANGED <<kind, mpc, run, spc, signals, listening, tpc, ops, con, home, stalled,
                 crashed, closedAll, early>>

\* m_nthreads[i].stop(): CloseAllConnectionsOp is posted to a loop that ran.
StopLoop(l) ==
  /\ spc = "stopL" /\ l \in todo
  /\ CasClosing(l)
  /\ ops' = IF status[l] = "running" THEN [ops EXCEPT ![l] = Append(@, [kind |-> "closeall"])]
                                     ELSE ops
  /\ todo' = todo \ {l}
  /\ UNCHANGED <<kind, mpc, run, spc, signals, listening, tpc, con, home, stalled, crashed,
                 closedAll, early>>

AllStopped ==
  /\ spc = "stopL" /\ todo = {}
  /\ spc' = "joinL"
  /\ UNCHANGED <<kind, mpc, run, todo, signals, listening, loopVars, stalled, crashed,
                 missed, early>>

\* threadJoin of every loop; stop() returns.
JoinLoops ==
  /\ spc = "joinL" /\ \A l \in Loops : tpc[l] \in {"none", "exited"}
  /\ spc' = "idle"
  /\ UNCHANGED <<kind, mpc, run, todo, signals, listening, loopVars, stalled, crashed,
                 missed, early>>

-----------------------------------------------------------------------------
(* The threads: EventLoop::run *)

RunStart(t) ==
  /\ tpc[t] = "new"
  /\ tpc' = [tpc EXCEPT ![t] = "drain"]
  /\ status' = [status EXCEPT ![t] = "running"]
  /\ UNCHANGED <<kind, mainVars, listening, ops, con, home, stalled, crashed, closedAll, missed>>

\* Connections in m_con_map of loop l.
InMap(l) == {c \in Cons : home[c] = l /\ con[c] \in {"live", "closing"}}

\* safeClose of every connection: recycled unless it has bytes to send.
CloseAll(l) ==
  /\ \E drained \in SUBSET {c \in InMap(l) : con[c] = "live"} :
       con' = [c \in Cons |-> IF c \in drained THEN "gone"
                              ELSE IF c \in InMap(l) THEN "closing" ELSE con[c]]
  /\ closedAll' = closedAll \cup {l}

\* processOps takes one operator. CheckConnectServerOp adds a connection to the
\* loop that processes it.
ProcessOp(l) ==
  /\ tpc[l] = "drain" /\ ops[l] # <<>>
  /\ LET op == Head(ops[l])
         rest == Tail(ops[l])
     IN \/ /\ op.kind = "closeall"
           /\ CloseAll(l)
           /\ ops' = [ops EXCEPT ![l] = rest]
           /\ UNCHANGED home
        \/ /\ op.kind = "add"
           /\ con' = [con EXCEPT ![op.con] = "live"]
           /\ ops' = [ops EXCEPT ![l] = rest]
           /\ UNCHANGED <<home, closedAll>>
        \/ /\ op.kind = "check"
           /\ con' = [con EXCEPT ![op.con] = "queued"]
           /\ home' = [home EXCEPT ![op.con] = l]
           /\ ops' = [ops EXCEPT ![l] = Append(rest, [kind |-> "add", con |-> op.con])]
           /\ UNCHANGED closedAll
  /\ UNCHANGED <<kind, mainVars, listening, tpc, status, stalled, crashed, missed>>

Drained(t) ==
  /\ tpc[t] = "drain" /\ (t \in Loops => ops[t] = <<>>)
  /\ tpc' = [tpc EXCEPT ![t] = "test"]
  /\ UNCHANGED <<kind, mainVars, listening, status, ops, con, home, stalled, crashed,
                 closedAll, missed>>

\* Mutant of TestExit: connections do not keep a stopped loop running.
TestExitStatus(t) ==
  /\ tpc[t] = "test"
  /\ IF status[t] # "running"
     THEN /\ status' = [status EXCEPT ![t] = "closed"]
          /\ tpc' = [tpc EXCEPT ![t] = "exited"]
     ELSE /\ tpc' = [tpc EXCEPT ![t] = "wait"]
          /\ UNCHANGED status
  /\ UNCHANGED <<kind, mainVars, listening, ops, con, home, stalled, crashed, closedAll, missed>>

\* A loop ends when it is not running any more and has no connection.
TestExit(t) ==
  /\ tpc[t] = "test"
  /\ IF status[t] # "running" /\ InMap(t) = {}
     THEN /\ status' = [status EXCEPT ![t] = "closed"]
          /\ tpc' = [tpc EXCEPT ![t] = "exited"]
     ELSE /\ tpc' = [tpc EXCEPT ![t] = "wait"]
          /\ UNCHANGED status
  /\ UNCHANGED <<kind, mainVars, listening, ops, con, home, stalled, crashed, closedAll, missed>>

\* epoll_wait returns for operators; stop() wakes the acceptor's loop.
Wake(t) ==
  /\ tpc[t] = "wait"
  /\ IF t = Acceptor THEN status[t] = "closing" ELSE ops[t] # <<>>
  /\ tpc' = [tpc EXCEPT ![t] = "drain"]
  /\ UNCHANGED <<kind, mainVars, listening, status, ops, con, home, stalled, crashed,
                 closedAll, missed>>

\* An event ends a connection: the peer has closed, or all bytes are sent.
ConEnds(l, c) ==
  /\ tpc[l] = "wait" /\ c \in InMap(l)
  /\ con' = [con EXCEPT ![c] = "gone"]
  /\ tpc' = [tpc EXCEPT ![l] = "drain"]
  /\ UNCHANGED <<kind, mainVars, listening, status, ops, home, stalled, crashed, closedAll, missed>>

Flushed(l, c) == con[c] = "closing" /\ c \notin stalled /\ ConEnds(l, c)

PeerCloses(l, c) == ConEnds(l, c)

\* A peer stops reading.
PeerStalls(c) ==
  /\ con[c] \in {"live", "closing"} /\ c \notin stalled
  /\ stalled' = stalled \cup {c}
  /\ UNCHANGED <<kind, mainVars, listening, loopVars, crashed, missed>>

-----------------------------------------------------------------------------
(* Accepting and connecting *)

\* epoll_wait reports the listening socket.
AcceptEvent ==
  /\ tpc[Acceptor] = "wait" /\ listening
  /\ \E c \in Clients : con[c] = "none"
  /\ tpc' = [tpc EXCEPT ![Acceptor] = "accept"]
  /\ UNCHANGED <<kind, mainVars, listening, status, ops, con, home, stalled, crashed,
                 closedAll, missed>>

\* acceptConnect: one turn of its loop, with dispatchConnection. stopListen may
\* delete the Acceptor, and close its socket, in the middle of it: the connection
\* in hand is then still dispatched, if what is left of the object allows it.
Accept(c, l) ==
  /\ tpc[Acceptor] = "accept" /\ con[c] = "none"
  /\ con' = [con EXCEPT ![c] = "queued"]
  /\ home' = [home EXCEPT ![c] = l]
  /\ ops' = [ops EXCEPT ![l] = Append(@, [kind |-> "add", con |-> c])]
  /\ tpc' = IF listening THEN tpc ELSE [tpc EXCEPT ![Acceptor] = "drain"]
  /\ UNCHANGED <<kind, mainVars, listening, status, stalled, crashed, closedAll, missed>>

\* accept finds nothing more; or the Acceptor is a deleted object, and what its
\* members hold may do no harm or end the process.
AcceptDone ==
  /\ tpc[Acceptor] = "accept"
  /\ tpc' = [tpc EXCEPT ![Acceptor] = "drain"]
  /\ \/ UNCHANGED crashed
     \/ ~listening /\ crashed' = TRUE
  /\ UNCHANGED <<kind, mainVars, listening, status, ops, con, home, stalled, closedAll, missed>>

\* notifySvlistChange on ZooKeeper's callback thread.
NotifyChange(c, l) ==
  /\ kind = "push" /\ con[c] = "none"
  /\ \A k \in Loops : \A i \in DOMAIN ops[k] : ops[k][i] # [kind |-> "check", con |-> c]
  /\ ops' = [ops EXCEPT ![l] = Append(@, [kind |-> "check", con |-> c])]
  /\ UNCHANGED <<kind, mainVars, listening, tpc, status, con, home, stalled, crashed,
                 closedAll, missed>>

-----------------------------------------------------------------------------
MainStep == CreateThreads \/ EnterLoop \/ LeaveLoop

StopStep ==
  \/ StopListen \/ StopAcceptor \/ JoinAcceptor \/ AllStopped \/ JoinLoops
  \/ \E l \in Loops : StopLoop(l)

Thread(t) == RunStart(t) \/ Drained(t) \/ TestExit(t) \/ Wake(t)

LoopStep(l) == Thread(l) \/ ProcessOp(l) \/ \E c \in Cons : Flushed(l, c)

Next ==
  /\ ~crashed
  /\ \/ MainStep \/ Signal \/ StopStep
     \/ Thread(Acceptor) \/ AcceptEvent \/ AcceptDone
     \/ \E c \in Clients, l \in Loops : Accept(c, l)
     \/ \E l \in Loops : LoopStep(l) \/ \E c \in Cons : PeerCloses(l, c)
     \/ \E c \in Cons : PeerStalls(c)
     \/ \E c \in Outgoing, l \in Loops : NotifyChange(c, l)

\* Main, stop() and the threads run; connections are accepted in finite number;
\* a peer that has not stalled reads. Nobody has to send a signal or connect.
Fairness ==
  /\ WF_vars(~crashed /\ (MainStep \/ StopStep))
  /\ WF_vars(~crashed /\ (Thread(Acceptor) \/ AcceptDone))
  /\ \A l \in Loops : WF_vars(~crashed /\ LoopStep(l))

Spec == Init /\ [][Next]_vars /\ Fairness

-----------------------------------------------------------------------------
(* Properties *)

\* After a loop has closed all its connections, no client's connection is or
\* will be live in it: Server::stop ends the accepting thread before it stops a
\* loop (ef_server.cpp:113), so every AddConnectionOp precedes CloseAll.
NoClientAfterCloseAll ==
  \A c \in Clients : home[c] \in closedAll => con[c] \in {"closing", "gone"}

\* stop() has returned and main has left its loop.
Stopped == mpc = "done" /\ spc = "idle" /\ ~crashed

\* When main is done every thread has ended and every connection that was
\* accepted is destroyed, or lies unprocessed in the queue of a loop that ended
\* between emptying its queue and testing m_status.
StopClean ==
  Stopped =>
    /\ \A t \in Threads : tpc[t] = "exited"
    /\ \A c \in Cons : \/ con[c] \in {"none", "gone"}
                       \/ /\ con[c] = "queued"
                          /\ \E i \in DOMAIN ops[home[c]] :
                               ops[home[c]][i] = [kind |-> "add", con |-> c]

\* A connection the push server opened in a loop that had closed all others.
LateOutgoing == \E c \in Outgoing : con[c] = "live" /\ home[c] \in closedAll

StalledClose == \E c \in stalled : con[c] = "closing"

\* A signal ends the process, except when it comes before m_run is set
\* (connect_server.cpp:145), a thread has not set STATUS_RUNNING yet
\* (ef_event_loop.cpp:204), a connection is opened after the others were closed,
\* or a peer does not read what a closing connection still has to send.
SignalEnds ==
  signals > 0 ~> \/ Stopped \/ crashed \/ early \/ missed # {}
                 \/ LateOutgoing \/ StalledClose
=============================================================================

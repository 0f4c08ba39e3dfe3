----------------------------- MODULE SdkClient -----------------------------
(***************************************************************************)
(* The client SDK (clientsdk/client): a Client whose own event loop thread *)
(* carries out the operations the application asks for. Client::login,     *)
(* disconnect and stop run on the application's thread; the callback       *)
(* handleMessage runs on the loop's and may call login too. One client id  *)
(* is modelled, so m_conns holds at most one CliConn; connections are      *)
(* numbered as they are made.                                              *)
(***************************************************************************)
EXTENDS Integers, Sequences

CONSTANT MaxCalls   \* bound: calls of login and disconnect

ASSUME SdkAssumption == MaxCalls \in Nat

VARIABLES
    ops,     \* m_ops
    ctl,     \* bytes in the control socket
    run,     \* m_run
    apc,     \* where the application is in asynAddOp or asynStop
    calls,   \* number of its calls
    lpc,     \* where the loop thread is in run()
    isset,   \* the connection select found readable, or 0
    con,     \* the CliConn in m_conns; n is 0 if there is none
    born,    \* number of connections made
    leaked,  \* connections deleted with their socket open
    stale,   \* connections deleted by another one's DelConnOp
    swallowed   \* the byte for an operator in the queue came between drain and recv

vars == <<ops, ctl, run, apc, calls, lpc, isset, con, born, leaked, stale, swallowed>>
appVars == <<run, apc>>

\* kind is login, disc, or del; by is the connection that posted it.
Op(kind, by) == [kind |-> kind, by |-> by]

\* status is m_loginStatus, timer the one entry of m_timers and due that it has
\* expired; garbled says that the login response did not parse; asked, inbox and
\* up are the connect server's end of the socket.
NewConn(n) == [n |-> n, fd |-> "closed", status |-> "DISCONNECT", timer |-> "none", due |-> FALSE,
               garbled |-> FALSE, asked |-> FALSE, inbox |-> "none", up |-> TRUE]
NoConn == NewConn(0)

Init ==
    /\ ops = <<>> /\ ctl = 0 /\ run = TRUE /\ apc = "idle" /\ calls = 0
    /\ lpc = "timers" /\ isset = 0 /\ con = NoConn /\ born = 0
    /\ leaked = {} /\ stale = {} /\ swallowed = FALSE

-----------------------------------------------------------------------------
(* The application *)

\* Client::login and disconnect; asynAddOp appends under the mutex ...
Call(kind) ==
    /\ apc = "idle" /\ calls < MaxCalls
    /\ ops' = Append(ops, Op(kind, 0)) /\ calls' = calls + 1 /\ apc' = "send"
    /\ UNCHANGED <<ctl, run, lpc, isset, con, born, leaked, stale, swallowed>>

\* ... and sends a byte, for every operation.
SendCtl ==
    /\ apc \in {"send", "stopsend"}
    /\ ctl' = ctl + 1 /\ apc' = IF apc = "send" THEN "idle" ELSE "close"
    /\ swallowed' = (swallowed \/ (lpc = "recv" /\ ops # <<>>))
    /\ UNCHANGED <<ops, run, calls, lpc, isset, con, born, leaked, stale>>

\* Mutant of AsynStop: the loop is not told.
AsynStopDeaf ==
    /\ apc = "idle"
    /\ run' = FALSE /\ apc' = "idle"
    /\ UNCHANGED <<ops, ctl, calls, lpc, isset, con, born, leaked, stale, swallowed>>

AsynStop ==
    /\ apc = "idle"
    /\ run' = FALSE /\ apc' = "stopsend"
    /\ UNCHANGED <<ops, ctl, calls, lpc, isset, con, born, leaked, stale, swallowed>>

\* onStopAndWait: m_run is already false, so it does not join the thread; stopCtl
\* closes the control sockets at once.
StopCtl ==
    /\ apc = "close"
    /\ apc' = "stopped"
    /\ UNCHANGED <<ops, ctl, run, calls, lpc, isset, con, born, leaked, stale, swallowed>>

-----------------------------------------------------------------------------
(* CliConn, on the loop thread *)

\* Mutant of CloseFd: m_fd keeps its value.
CloseFdKeep(c) == c

CloseFd(c) == [c EXCEPT !.fd = "closed"]

\* The queue behind the operator being processed.
Rest == IF lpc = "ops" THEN Tail(ops) ELSE ops

\* publish, with the operators the loop thread itself appends: the application's
\* callback may call login before c posts its own.
Publish(posted) ==
    \E more \in {<<>>} \cup (IF calls < MaxCalls THEN {<<Op("login", 0)>>} ELSE {}) :
        /\ calls' = calls + Len(more)
        /\ ops' = Rest \o more \o posted /\ ctl' = ctl + Len(more \o posted)

\* setStatus, which publishes a change only, and asynDestroy.
Finish(c, status) ==
    LET del == <<Op("del", c.n)>>
    IN  \/ c.status # status /\ Publish(del)
        \/ /\ c.status = status /\ ops' = Rest \o del
           /\ ctl' = ctl + 1 /\ UNCHANGED calls

OnLoginFail(c) ==
    /\ con' = CloseFd([c EXCEPT !.status = "LOGIN_FAIL"])
    /\ Finish(c, "LOGIN_FAIL")

\* onDisconnect, and the end of keepalive.
OnDisconnect(c) ==
    /\ con' = CloseFd([c EXCEPT !.status = "DISCONNECT"])
    /\ Finish(c, "DISCONNECT")

\* delConn: the destructor leaves the socket alone.
DelConn(c, by) ==
    /\ con' = NoConn
    /\ leaked' = IF c.fd = "open" THEN leaked \cup {c.n} ELSE leaked
    /\ stale' = IF by # c.n THEN stale \cup {c.n} ELSE stale

Quiet == UNCHANGED <<ctl, calls>>

\* Mutant of LoginTimer: processOps does not keep the operator.
LoginTimerNot(c) == c

\* processOps: a LoginOp that is still referenced becomes the timer "Login".
LoginTimer(c) == [c EXCEPT !.timer = "login", !.due = FALSE]

\* addKeepaliveTimer.
KeepaliveTimer(c) == [c EXCEPT !.timer = "keepalive", !.due = FALSE]

\* LoginOp::process. An existing connection ends it without a word. Otherwise
\* connectServer fails, or login sends its request, or that send fails: then
\* send_ closes the socket and nobody is told.
ProcessLogin ==
    \/ /\ con.n # 0
       /\ ops' = Tail(ops) /\ Quiet /\ UNCHANGED <<con, born>>
    \/ /\ con.n = 0 /\ born' = born + 1
       /\ LET c == NewConn(born + 1)
              d == [c EXCEPT !.fd = "open", !.status = "DO_LOGIN", !.asked = TRUE]
          IN  \/ OnLoginFail(c)
              \/ /\ con' \in {LoginTimer(d), CloseFd(d)}
                 /\ ops' = Tail(ops) /\ Quiet

\* processOps, one turn of its loop.
ProcessOp ==
    /\ lpc = "ops" /\ ops # <<>>
    /\ LET op == Head(ops)
       IN  \/ op.kind = "login" /\ ProcessLogin /\ UNCHANGED <<leaked, stale>>
           \/ /\ op.kind = "disc" /\ con.n # 0
              /\ OnDisconnect(con) /\ UNCHANGED <<born, leaked, stale>>
           \/ /\ op.kind = "del" /\ con.n # 0
              /\ DelConn(con, op.by) /\ ops' = Tail(ops) /\ Quiet /\ UNCHANGED born
           \/ /\ op.kind # "login" /\ con.n = 0
              /\ ops' = Tail(ops) /\ Quiet /\ UNCHANGED <<con, born, leaked, stale>>
    /\ UNCHANGED <<appVars, lpc, isset, swallowed>>

\* Mutant of DrainDone: one operator per wake-up.
DrainDoneEarly ==
    /\ lpc = "ops"
    /\ lpc' = "recv" /\ swallowed' = FALSE
    /\ UNCHANGED <<ops, ctl, appVars, calls, isset, con, born, leaked, stale>>

DrainDone ==
    /\ lpc = "ops" /\ ops = <<>>
    /\ lpc' = "recv" /\ swallowed' = FALSE
    /\ UNCHANGED <<ops, ctl, appVars, calls, isset, con, born, leaked, stale>>

\* ... and only after it are the control bytes taken.
RecvCtl ==
    /\ lpc = "recv"
    /\ ctl' = 0 /\ lpc' = "read"
    /\ UNCHANGED <<ops, appVars, calls, isset, con, born, leaked, stale, swallowed>>

\* popTimer(LOGIN_OP_SN).
PopLoginTimer(c) == IF c.timer = "login" THEN [c EXCEPT !.timer = "none", !.due = FALSE] ELSE c

\* handleLoginResponse pops the login timer first; a response that does not parse
\* then ends it, with the socket open. A refusal is the end: m_svrlist holds the
\* one address of the LoginOp. handleServiceRequest: a request that does not parse
\* changes nothing; the answer to another may fail, which closes the socket and
\* tells nobody.
HandlePacket(c) ==
    LET d == [c EXCEPT !.inbox = "none"]
    IN  \/ c.inbox = "none" /\ UNCHANGED <<con, ops, ctl, calls>>
        \/ /\ c.inbox = "ok" /\ Publish(<<>>)
           /\ con' = KeepaliveTimer([PopLoginTimer(d) EXCEPT !.status = "LOGIN"])
        \/ c.inbox = "fail" /\ OnLoginFail(PopLoginTimer(d))
        \/ /\ c.inbox = "badresp" /\ con' = [PopLoginTimer(d) EXCEPT !.garbled = TRUE]
           /\ UNCHANGED <<ops, ctl, calls>>
        \/ c.inbox = "push" /\ Publish(<<>>) /\ con' \in {d, CloseFd(d)}
        \/ c.inbox = "badpush" /\ con' = d /\ UNCHANGED <<ops, ctl, calls>>

\* FD_ISSET of the connection: a closed m_fd is -1, which is undefined, and a new
\* socket may have the number of the one select reported.
IsSet(c) ==
    IF c.n = 0 THEN {FALSE}
    ELSE IF c.fd = "closed" \/ isset \notin {0, c.n} THEN BOOLEAN
    ELSE {isset = c.n}

\* run() reads what is ready. handleRead fails on a closed socket, whatever came
\* before the end; then onDisconnect is followed by delConn.
Read ==
    /\ lpc = "read"
    /\ \E r \in IsSet(con) :
       \/ ~r /\ UNCHANGED <<con, ops, ctl, calls, leaked, stale>>
       \/ /\ r /\ con.up /\ con.fd = "open"
          /\ HandlePacket(con) /\ UNCHANGED <<leaked, stale>>
       \/ /\ r /\ ~(con.up /\ con.fd = "open")
          /\ Finish(con, "DISCONNECT") /\ DelConn(CloseFd(con), con.n)
    /\ lpc' = "timers" /\ isset' = 0
    /\ UNCHANGED <<appVars, born, swallowed>>

\* CliConn::keepalive: too long without data, or the next request.
Keepalive(c) ==
    \/ OnDisconnect([c EXCEPT !.timer = "none", !.due = FALSE])
    \/ /\ con' \in {KeepaliveTimer(c), CloseFd(KeepaliveTimer(c))}
       /\ UNCHANGED <<ops, ctl, calls>>

\* Mutant of Expired: the deadline is never before the time.
ExpiredNever(c) == c.fd = "none" /\ c.due

\* A timer whose deadline is not after the time.
Expired(c) == c.fd = "open" /\ c.due

\* The top of run()'s loop, and processTimers: a connection without socket is
\* deleted, an expired timer runs.
ProcessTimers ==
    /\ lpc = "timers"
    /\ \/ ~run /\ lpc' = "exited" /\ UNCHANGED <<con, ops, ctl, calls>>
       \/ /\ run /\ lpc' = "select"
          /\ \/ /\ con.n # 0 /\ con.fd = "closed"
                /\ con' = NoConn /\ UNCHANGED <<ops, ctl, calls>>
             \/ /\ Expired(con) /\ con.timer = "login"
                /\ OnLoginFail([con EXCEPT !.timer = "none", !.due = FALSE])
             \/ Expired(con) /\ con.timer = "keepalive" /\ Keepalive(con)
             \/ (con.n = 0 \/ (con.fd = "open" /\ ~Expired(con))) /\ UNCHANGED <<con, ops, ctl, calls>>
    /\ UNCHANGED <<appVars, isset, born, leaked, stale, swallowed>>

\* c_tvmax: ~0UL in a tv_sec that is signed.
TvMax == -1

\* What processTimers leaves in tv when a timer is set: the time to it (here 1)
\* if tv_cmp finds it less than c_tvmax.
Tv == IF TvMax > 1 THEN 1 ELSE TvMax

\* select is called; on a socket that stopCtl has closed it fails and run returns.
SelectCall ==
    /\ lpc = "select"
    /\ lpc' = IF apc = "stopped" THEN "exited" ELSE "waiting"
    /\ UNCHANGED <<ops, ctl, appVars, calls, isset, con, born, leaked, stale, swallowed>>

Readable == con.fd = "open" /\ (~con.up \/ con.inbox # "none")

\* select returns; without a timeout (tv is c_tvmax) only for a socket.
SelectReturn ==
    /\ lpc = "waiting"
    /\ ctl > 0 \/ Readable \/ (Tv # TvMax /\ con.due)
    /\ lpc' = IF ctl > 0 THEN "ops" ELSE IF Readable THEN "read" ELSE "timers"
    /\ isset' = IF Readable THEN con.n ELSE 0
    /\ UNCHANGED <<ops, ctl, appVars, calls, con, born, leaked, stale, swallowed>>

-----------------------------------------------------------------------------
(* Time, and the connect server *)

Tick ==
    /\ con.timer # "none" /\ ~con.due
    /\ con' = [con EXCEPT !.due = TRUE]
    /\ UNCHANGED <<ops, ctl, appVars, calls, lpc, isset, born, leaked, stale, swallowed>>

Server ==
    /\ con.fd = "open" /\ con.up
    /\ \/ con.asked /\ \E a \in {"ok", "fail", "badresp"} :
                          con' = [con EXCEPT !.asked = FALSE, !.inbox = a]
       \/ /\ (con.status = "LOGIN" \/ con.garbled) /\ con.inbox = "none"
          /\ \E p \in {"push", "badpush"} : con' = [con EXCEPT !.inbox = p]
       \/ con' = [con EXCEPT !.up = FALSE]
    /\ UNCHANGED <<ops, ctl, appVars, calls, lpc, isset, born, leaked, stale, swallowed>>

-----------------------------------------------------------------------------
LoopStep == ProcessTimers \/ SelectCall \/ SelectReturn \/ ProcessOp \/ DrainDone \/ RecvCtl \/ Read

Next ==
    \/ \E k \in {"login", "disc"} : Call(k)
    \/ SendCtl \/ AsynStop \/ StopCtl
    \/ LoopStep \/ Tick \/ Server

Spec == Init /\ [][Next]_vars

\* Both threads run, and time passes; nobody has to call, the server to answer.
FairSpec == Spec /\ WF_vars(SendCtl \/ StopCtl) /\ WF_vars(LoopStep) /\ WF_vars(Tick)

-----------------------------------------------------------------------------
(* Properties *)

\* Shapes of the state.
TypeOK ==
    /\ ctl \in Nat /\ calls \in 0 .. MaxCalls /\ born \in 0 .. MaxCalls /\ isset \in 0 .. born
    /\ apc \in {"idle", "send", "stopsend", "close", "stopped"}
    /\ con.n \in 0 .. born /\ con.timer \in {"none", "login", "keepalive"}
    /\ con.status \in {"DISCONNECT", "DO_LOGIN", "LOGIN", "LOGIN_FAIL"}

\* No connection is deleted with its socket open, unless a DelConnOp that an
\* earlier connection of the same client id posted finds the new one in m_conns.
LeakOnlyByStaleDel == leaked \subseteq stale

\* A connection with a socket is logging in or logged in and has the timer of
\* that state: a login cannot wait, nor a session be idle, without one. The one
\* exception is a login response that does not parse: it takes the timer away and
\* leaves the login waiting.
StatusTimed ==
    con.fd = "open" =>
        \/ con.status = "DO_LOGIN" /\ con.timer = "login"
        \/ con.status = "LOGIN" /\ con.timer = "keepalive"
        \/ con.garbled /\ con.status = "DO_LOGIN" /\ con.timer = "none"

\* After stop the loop thread ends, although nothing waits for it.
StopEnds == ~run ~> lpc = "exited"

\* What is in the queue is processed, whoever posted it and whenever, unless the
\* byte for it came between the drain and the recv of processOps: that recv takes
\* it, and the operator waits for the next byte.
ServedUnlessSwallowed == ops # <<>> ~> (ops = <<>> \/ swallowed \/ ~run)

\* A login whose time is over ends as soon as anything else wakes the loop, unless
\* that is a response that does not parse. (By itself it does not: TvMax makes
\* select wait without a timeout.)
LateLoginEnds ==
    (lpc = "waiting" /\ con.status = "DO_LOGIN" /\ con.due /\ (ctl > 0 \/ Readable))
        ~> (con.status # "DO_LOGIN" \/ con.garbled \/ ~run)
=============================================================================

-------------------------- MODULE SdkClientProofs --------------------------
(***************************************************************************)
(* Proofs about SdkClient, for any number of calls.  A socket leaks only   *)
(* when a DelConnOp finds the connection of another login: by the time a   *)
(* connection's own DelConnOp is processed its socket has been closed.     *)
(***************************************************************************)
EXTENDS SdkClient, SequenceTheorems, TLAPS

Ops == [kind : {"login", "disc", "del"}, by : Nat]

Conn == [n : Nat, fd : {"open", "closed"},
         status : {"DISCONNECT", "DO_LOGIN", "LOGIN", "LOGIN_FAIL"},
         timer : {"none", "login", "keepalive"}, due : BOOLEAN, garbled : BOOLEAN, asked : BOOLEAN,
         inbox : {"none", "ok", "fail", "badresp", "push", "badpush"}, up : BOOLEAN]

\* Connection c has the timer of its state.
Timed(c) ==
  c.fd = "open" => \/ c.status = "DO_LOGIN" /\ c.timer = "login"
                   \/ c.status = "LOGIN" /\ c.timer = "keepalive"
                   \/ c.garbled /\ c.status = "DO_LOGIN" /\ c.timer = "none"

\* The DelConnOps in queue q come from connections up to b, and the one of c, if
\* there is one, was posted when c had closed its socket.
DelsAfterClose(q, c, b) ==
  \A i \in 1..Len(q) :
    q[i].kind = "del" => q[i].by <= b /\ (q[i].by = c.n => c.fd = "closed")

Inv ==
  /\ ops \in Seq(Ops) /\ con \in Conn /\ born \in Nat
  /\ con.n <= born
  /\ DelsAfterClose(ops, con, born)
  /\ StatusTimed
  /\ LeakOnlyByStaleDel

-----------------------------------------------------------------------------
(* Queues *)

\* A queue made of two.
LEMMA ConcatDels ==
  ASSUME NEW p \in Seq(Ops), NEW q \in Seq(Ops), NEW c, NEW b,
         DelsAfterClose(p, c, b), DelsAfterClose(q, c, b)
  PROVE  p \o q \in Seq(Ops) /\ DelsAfterClose(p \o q, c, b)
<1>1. p \o q \in Seq(Ops) /\ Len(p \o q) = Len(p) + Len(q) /\ Len(p) \in Nat /\ Len(q) \in Nat
  OBVIOUS
<1>2. \A i \in 1..Len(p \o q) :
        \/ i \in 1..Len(p) /\ (p \o q)[i] = p[i]
        \/ i - Len(p) \in 1..Len(q) /\ (p \o q)[i] = q[i - Len(p)]
  OBVIOUS
<1> QED
  BY <1>1, <1>2 DEF DelsAfterClose

\* The queue behind the first operator.
LEMMA TailDels ==
  ASSUME NEW q \in Seq(Ops), q # <<>>, NEW c, NEW b, DelsAfterClose(q, c, b)
  PROVE  Tail(q) \in Seq(Ops) /\ DelsAfterClose(Tail(q), c, b)
<1>1. /\ Tail(q) \in Seq(Ops) /\ Len(q) \in Nat /\ Len(Tail(q)) = Len(q) - 1
      /\ \A i \in 1..Len(Tail(q)) : i + 1 \in 1..Len(q) /\ Tail(q)[i] = q[i + 1]
  OBVIOUS
<1> QED
  BY <1>1 DEF DelsAfterClose

\* Another connection takes c's place: it is c with its socket as it was or
\* closed, or nobody has posted a DelConnOp for it.
LEMMA OtherConn ==
  ASSUME NEW q \in Seq(Ops), NEW c, NEW b \in Nat, DelsAfterClose(q, c, b),
         NEW d, NEW e \in Nat, b <= e,
         d.n > b \/ d.fd = "closed" \/ (d.n = c.n /\ d.fd = c.fd)
  PROVE  DelsAfterClose(q, d, e)
<1> SUFFICES ASSUME NEW i \in 1..Len(q), q[i].kind = "del"
             PROVE  q[i].by <= e /\ (q[i].by = d.n => d.fd = "closed")
  BY DEF DelsAfterClose
<1>0. q[i] \in Ops
  OBVIOUS
<1>1. q[i].by \in Nat
  BY <1>0 DEF Ops
<1>2. q[i].by <= b /\ (q[i].by = c.n => c.fd = "closed")
  BY DEF DelsAfterClose
<1>3. q[i].by <= e
  BY <1>1, <1>2
<1>4. ASSUME q[i].by = d.n PROVE d.fd = "closed"
  BY <1>1, <1>2, <1>4
<1> QED
  BY <1>3, <1>4

\* The queue a step of the loop thread leaves, before what it posts.
LEMMA RestDels ==
  ASSUME Inv, lpc = "ops" => ops # <<>>
  PROVE  Rest \in Seq(Ops) /\ DelsAfterClose(Rest, con, born)
  BY TailDels DEF Inv, Rest

\* publish appends what the callback asks for and what the connection posts.
LEMMA PublishDels ==
  ASSUME Inv, lpc = "ops" => ops # <<>>, NEW posted \in Seq(Ops), Publish(posted),
         NEW d, NEW e \in Nat, born <= e,
         DelsAfterClose(Rest, d, e), DelsAfterClose(posted, d, e)
  PROVE  ops' \in Seq(Ops) /\ DelsAfterClose(ops', d, e)
<1>1. PICK more \in {<<>>} \cup (IF calls < MaxCalls THEN {<<Op("login", 0)>>} ELSE {}) :
        ops' = Rest \o more \o posted
  BY DEF Publish
<1>2. more \in Seq(Ops) /\ DelsAfterClose(more, d, e)
  <2>1. CASE more = <<>>
    <3>1. Len(more) = 0
      BY <2>1
    <3> QED
      BY <2>1, <3>1 DEF DelsAfterClose
  <2>2. CASE more = <<Op("login", 0)>>
    <3>1. Op("login", 0) \in Ops /\ Op("login", 0).kind = "login"
      BY DEF Op, Ops
    <3>2. more \in Seq(Ops) /\ Len(more) = 1 /\ more[1] = Op("login", 0)
      BY <2>2, <3>1
    <3> QED
      BY <3>1, <3>2 DEF DelsAfterClose
  <2> QED
    BY <2>1, <2>2
<1>3. Rest \in Seq(Ops)
  BY RestDels
<1>4. Rest \o more \in Seq(Ops) /\ DelsAfterClose(Rest \o more, d, e)
  BY <1>2, <1>3, ConcatDels
<1> QED
  BY <1>1, <1>4, ConcatDels

\* The end of connection c: its DelConnOp is posted, and c has no socket then.
LEMMA FinishDels ==
  ASSUME Inv, lpc = "ops" => ops # <<>>, NEW c \in Conn, NEW status, Finish(c, status),
         NEW d, NEW e \in Nat, born <= e, c.n <= e,
         d.n > born \/ d.fd = "closed" \/ (d.n = con.n /\ d.fd = con.fd),
         d.n # c.n \/ d.fd = "closed"
  PROVE  ops' \in Seq(Ops) /\ DelsAfterClose(ops', d, e)
<1> DEFINE del == <<Op("del", c.n)>>
<1>1. del \in Seq(Ops) /\ Len(del) = 1 /\ del[1] = Op("del", c.n)
  BY DEF Op, Ops, Conn
<1>2. DelsAfterClose(del, d, e)
  <2>1. Op("del", c.n).by = c.n
    BY DEF Op
  <2>2. \A i \in 1..Len(del) : del[i].by = c.n
    BY <1>1, <2>1
  <2> HIDE DEF del
  <2> QED
    BY <2>2 DEF DelsAfterClose
<1>3. Rest \in Seq(Ops) /\ DelsAfterClose(Rest, con, born)
  BY RestDels
<1>4. DelsAfterClose(Rest, d, e)
  BY <1>3, OtherConn DEF Inv
<1>5. Publish(del) \/ ops' = Rest \o del
  BY DEF Finish
<1> HIDE DEF del
<1>6. CASE Publish(del)
  BY <1>1, <1>2, <1>4, <1>6, PublishDels
<1>7. CASE ops' = Rest \o del
  BY <1>1, <1>2, <1>3, <1>4, <1>7, ConcatDels
<1> QED
  BY <1>5, <1>6, <1>7

-----------------------------------------------------------------------------
(* Steps *)

\* A connection after its socket has been closed, and the empty slot.
LEMMA ConnFacts ==
  /\ \A c \in Conn : CloseFd(c) \in Conn /\ CloseFd(c).n = c.n /\ CloseFd(c).fd = "closed"
  /\ NoConn \in Conn /\ NoConn.n = 0 /\ NoConn.fd = "closed"
  /\ \A k \in Nat : NewConn(k) \in Conn /\ NewConn(k).n = k /\ NewConn(k).fd = "closed"
  BY DEF CloseFd, NoConn, NewConn, Conn

\* A connection in a state that none of its steps needs to change: what matters
\* is its number, its socket and its timer.
LEMMA ConnInv ==
  ASSUME Inv, NEW d \in Conn, con' = d, Timed(d), d.n <= born',
         born' \in Nat, ops' \in Seq(Ops), DelsAfterClose(ops', d, born'), UNCHANGED <<leaked, stale>>
  PROVE  Inv'
  BY DEF Inv, Timed, StatusTimed, LeakOnlyByStaleDel

\* The initial state.
LEMMA InitInv == Init => Inv
<1> SUFFICES ASSUME Init PROVE Inv
  OBVIOUS
<1>1. ops \in Seq(Ops) /\ Len(ops) = 0 /\ born = 0 /\ con = NoConn
  BY DEF Init
<1>2. DelsAfterClose(ops, con, born)
  BY <1>1 DEF DelsAfterClose
<1>3. LeakOnlyByStaleDel
  BY DEF Init, LeakOnlyByStaleDel
<1> QED
  BY <1>1, <1>2, <1>3, ConnFacts DEF Inv, StatusTimed

\* Steps that touch neither queue nor connections.
LEMMA QuietInv ==
  ASSUME Inv, UNCHANGED <<ops, con, born, leaked, stale>>
  PROVE  Inv'
  BY DEF Inv, DelsAfterClose, StatusTimed, LeakOnlyByStaleDel

\* A connection changes without its number or its queue of operators.
LEMMA SameConnInv ==
  ASSUME Inv, NEW d \in Conn, con' = d, Timed(d), d.n = con.n, d.fd = con.fd \/ d.fd = "closed",
         UNCHANGED <<ops, born, leaked, stale>>
  PROVE  Inv'
<1>1. DelsAfterClose(ops, d, born)
  BY OtherConn DEF Inv
<1> QED
  BY <1>1, ConnInv DEF Inv

\* login and disconnect of the application append no DelConnOp.
LEMMA CallInv ==
  ASSUME Inv, NEW k \in {"login", "disc"}, Call(k)
  PROVE  Inv'
<1> DEFINE o == Op(k, 0)
<1>1. o \in Ops /\ o.kind # "del"
  BY DEF Op, Ops
<1>2. ops' = Append(ops, o) /\ UNCHANGED <<con, born, leaked, stale>>
  BY DEF Call
<1> HIDE DEF o
<1>3. ops \in Seq(Ops) /\ con \in Conn /\ born \in Nat /\ con.n <= born
  BY DEF Inv
<1>4. ops' \in Seq(Ops) /\ DelsAfterClose(ops', con, born)
  <2>1. /\ ops' \in Seq(Ops) /\ Len(ops') = Len(ops) + 1 /\ Len(ops) \in Nat
        /\ \A i \in 1..Len(ops') : (i \in 1..Len(ops) /\ ops'[i] = ops[i]) \/ ops'[i] = o
    BY <1>1, <1>2, <1>3
  <2> QED
    BY <1>1, <2>1 DEF Inv, DelsAfterClose
<1>5. Timed(con)
  BY DEF Inv, Timed, StatusTimed
<1> QED
  BY <1>2, <1>3, <1>4, <1>5, ConnInv

\* A connection ends: its socket is closed, or it is deleted, in the same step.
LEMMA EndInv ==
  ASSUME Inv, lpc = "ops" => ops # <<>>, NEW c \in Conn, NEW st, Finish(c, st),
         con' \in Conn, con'.fd = "closed", con'.n <= born',
         born' \in Nat, born <= born', c.n <= born', UNCHANGED <<leaked, stale>>
  PROVE  Inv'
<1>1. ops' \in Seq(Ops) /\ DelsAfterClose(ops', con', born')
  BY FinishDels
<1>2. Timed(con')
  BY DEF Timed
<1> QED
  BY <1>1, <1>2, ConnInv

\* onLoginFail and onDisconnect of the current connection.
LEMMA FailInv ==
  ASSUME Inv, lpc = "ops" => ops # <<>>, NEW c \in Conn, c.n = con.n, UNCHANGED <<born, leaked, stale>>,
         OnLoginFail(c) \/ OnDisconnect(c)
  PROVE  Inv'
<1>1. \A st \in {"LOGIN_FAIL", "DISCONNECT"} :
        [c EXCEPT !.status = st] \in Conn /\ [c EXCEPT !.status = st].n = c.n
  BY DEF Conn
<1>2. con' \in Conn /\ con'.fd = "closed" /\ con'.n = con.n
  <2>1. PICK st \in {"LOGIN_FAIL", "DISCONNECT"} : con' = CloseFd([c EXCEPT !.status = st])
    BY DEF OnLoginFail, OnDisconnect
  <2> DEFINE d == [c EXCEPT !.status = st]
  <2>2. d \in Conn /\ d.n = con.n /\ con' = CloseFd(d)
    BY <1>1, <2>1
  <2> HIDE DEF d
  <2> QED
    BY <2>2, ConnFacts
<1>3. Finish(c, "LOGIN_FAIL") \/ Finish(c, "DISCONNECT")
  BY DEF OnLoginFail, OnDisconnect
<1>4. born' \in Nat /\ born <= born' /\ con.n <= born'
  BY DEF Inv
<1> QED
  BY <1>2, <1>3, <1>4, EndInv

\* LoginOp makes a connection whose number nobody has used.
LEMMA LoginInv ==
  ASSUME Inv, lpc = "ops", ops # <<>>, ProcessLogin, UNCHANGED <<leaked, stale>>
  PROVE  Inv'
<1>0. ops \in Seq(Ops) /\ con \in Conn /\ born \in Nat /\ con.n <= born /\ DelsAfterClose(ops, con, born)
  BY DEF Inv
<1>1. CASE ops' = Tail(ops) /\ UNCHANGED <<con, born>>
  <2>1. ops' \in Seq(Ops) /\ DelsAfterClose(ops', con, born)
    BY <1>0, <1>1, TailDels
  <2>2. Timed(con)
    BY DEF Inv, Timed, StatusTimed
  <2> QED
    BY <1>0, <1>1, <2>1, <2>2, ConnInv
<1> DEFINE c == NewConn(born + 1)
           d == [c EXCEPT !.fd = "open", !.status = "DO_LOGIN", !.asked = TRUE]
<1>2. CASE born' = born + 1 /\ OnLoginFail(c)
  <2>1. c \in Conn /\ c.n = born + 1
    BY <1>0, ConnFacts
  <2> HIDE DEF c
  <2> DEFINE f == [c EXCEPT !.status = "LOGIN_FAIL"]
  <2>2. f \in Conn /\ f.n = born + 1
    BY <2>1 DEF Conn
  <2>3. con' = CloseFd(f) /\ Finish(c, "LOGIN_FAIL")
    BY <1>2 DEF OnLoginFail
  <2> HIDE DEF f
  <2>4. con' \in Conn /\ con'.fd = "closed" /\ con'.n = born + 1
    BY <2>2, <2>3, ConnFacts
  <2>5. born' \in Nat /\ born <= born' /\ con'.n <= born' /\ c.n <= born'
    BY <1>0, <1>2, <2>1, <2>4
  <2> QED
    BY <2>1, <2>3, <2>4, <2>5, EndInv
<1>3. CASE born' = born + 1 /\ con' \in {LoginTimer(d), CloseFd(d)} /\ ops' = Tail(ops)
  <2>a. c \in Conn /\ c.n = born + 1
    BY <1>0, ConnFacts
  <2> HIDE DEF c
  <2>0. d \in Conn /\ d.n = born + 1 /\ d.fd = "open" /\ d.status = "DO_LOGIN"
    BY <2>a DEF Conn
  <2> HIDE DEF d
  <2>1. LoginTimer(d) \in Conn /\ CloseFd(d) \in Conn /\ LoginTimer(d).n = born + 1 /\ CloseFd(d).n = born + 1
    <3>1. LoginTimer(d) \in Conn /\ LoginTimer(d).n = d.n
      BY <2>0 DEF LoginTimer, Conn
    <3>2. CloseFd(d) \in Conn /\ CloseFd(d).n = d.n
      BY <2>0, ConnFacts
    <3> QED
      BY <2>0, <3>1, <3>2
  <2>2. Timed(LoginTimer(d)) /\ Timed(CloseFd(d))
    <3>1. LoginTimer(d).status = "DO_LOGIN" /\ LoginTimer(d).timer = "login"
      BY <2>0 DEF LoginTimer, Conn
    <3>2. CloseFd(d).fd = "closed"
      BY <2>0, ConnFacts
    <3> QED
      BY <3>1, <3>2 DEF Timed
  <2>3. con' \in Conn /\ con'.n = born + 1 /\ Timed(con')
    BY <1>3, <2>1, <2>2
  <2>4. ops' \in Seq(Ops) /\ DelsAfterClose(ops', con, born)
    BY <1>0, <1>3, TailDels
  <2>5. born' \in Nat /\ born <= born' /\ con'.n > born /\ con'.n <= born'
    BY <1>0, <1>3, <2>3
  <2>6. DelsAfterClose(ops', con', born')
    BY <1>0, <2>4, <2>5, OtherConn
  <2> QED
    BY <2>3, <2>4, <2>5, <2>6, ConnInv
<1> QED
  BY <1>1, <1>2, <1>3 DEF ProcessLogin

\* One operator of the queue.
LEMMA ProcessOpInv ==
  ASSUME Inv, ProcessOp
  PROVE  Inv'
<1> DEFINE op == Head(ops)
<1>0. /\ ops \in Seq(Ops) /\ con \in Conn /\ born \in Nat /\ con.n <= born
      /\ DelsAfterClose(ops, con, born) /\ lpc = "ops" /\ ops # <<>>
  BY DEF Inv, ProcessOp
<1>1. CASE ProcessLogin /\ UNCHANGED <<leaked, stale>>
  BY <1>0, <1>1, LoginInv
<1>2. CASE OnDisconnect(con) /\ UNCHANGED <<born, leaked, stale>>
  BY <1>0, <1>2, FailInv
<1>3. CASE /\ op.kind = "del" /\ con.n # 0
           /\ DelConn(con, op.by) /\ ops' = Tail(ops) /\ UNCHANGED born
  <2>1. op = ops[1] /\ 1 \in 1..Len(ops)
    BY <1>0
  <2>2. op.by = con.n => con.fd = "closed"
    BY <1>0, <1>3, <2>1 DEF DelsAfterClose
  <2>3. LeakOnlyByStaleDel'
    BY <1>3, <2>2 DEF Inv, DelConn, LeakOnlyByStaleDel
  <2>4. con' = NoConn
    BY <1>3 DEF DelConn
  <2>5. ops' \in Seq(Ops) /\ DelsAfterClose(ops', con, born)
    BY <1>0, <1>3, TailDels
  <2>6. DelsAfterClose(ops', con', born)
    BY <1>0, <2>4, <2>5, OtherConn, ConnFacts
  <2> QED
    BY <1>0, <1>3, <2>3, <2>4, <2>5, <2>6, ConnFacts DEF Inv, StatusTimed
<1>4. CASE ops' = Tail(ops) /\ UNCHANGED <<con, born, leaked, stale>>
  <2>1. ops' \in Seq(Ops) /\ DelsAfterClose(ops', con, born)
    BY <1>0, <1>4, TailDels
  <2>2. Timed(con)
    BY DEF Inv, Timed, StatusTimed
  <2> QED
    BY <1>0, <1>4, <2>1, <2>2, ConnInv
<1> QED
  BY <1>1, <1>2, <1>3, <1>4 DEF ProcessOp

\* What the callback of a packet or nobody posts changes no DelConnOp.
LEMMA PublishInv ==
  ASSUME Inv, lpc # "ops", Publish(<<>>), NEW d \in Conn, con' = d, Timed(d),
         d.n = con.n, d.fd = con.fd \/ d.fd = "closed", UNCHANGED <<born, leaked, stale>>
  PROVE  Inv'
<1>0. ops \in Seq(Ops) /\ born \in Nat /\ con.n <= born /\ DelsAfterClose(ops, con, born)
  BY DEF Inv
<1>1. Rest = ops
  BY DEF Rest
<1>2. DelsAfterClose(ops, d, born)
  BY <1>0, OtherConn
<1>3. <<>> \in Seq(Ops) /\ DelsAfterClose(<<>>, d, born)
  <2>1. Len(<<>>) = 0
    OBVIOUS
  <2> QED
    BY <2>1 DEF DelsAfterClose
<1>4. ops' \in Seq(Ops) /\ DelsAfterClose(ops', d, born)
  <2>1. born <= born /\ (lpc = "ops" => ops # <<>>)
    BY <1>0
  <2> QED
    BY <1>0, <1>1, <1>2, <1>3, <2>1, PublishDels
<1> QED
  BY <1>0, <1>4, ConnInv

\* Packets, and the end of what select found readable.
LEMMA ReadInv ==
  ASSUME Inv, Read
  PROVE  Inv'
<1>0. con \in Conn /\ born \in Nat /\ con.n <= born /\ Timed(con) /\ lpc = "read" /\ UNCHANGED born
  BY DEF Inv, Read, Timed, StatusTimed
<1>1. CASE UNCHANGED <<con, ops, leaked, stale>>
  BY <1>0, <1>1, QuietInv
<1>2. CASE con.fd = "open" /\ HandlePacket(con) /\ UNCHANGED <<leaked, stale>>
  <2> DEFINE d == [con EXCEPT !.inbox = "none"]
             f == PopLoginTimer(d)
             k == KeepaliveTimer([f EXCEPT !.status = "LOGIN"])
             g == [f EXCEPT !.garbled = TRUE]
  <2>1. d \in Conn /\ d.n = con.n /\ d.fd = con.fd /\ Timed(d)
    BY <1>0, <1>2 DEF Conn, Timed
  <2>2. \/ UNCHANGED <<con, ops>>
        \/ con' \in {g, d} /\ UNCHANGED ops
        \/ Publish(<<>>) /\ con' \in {k, d, CloseFd(d)}
        \/ OnLoginFail(f)
    BY <1>2 DEF HandlePacket
  <2> HIDE DEF d
  <2>a. /\ f \in Conn /\ f.n = con.n /\ f.fd = con.fd /\ f.status = d.status
        /\ f.timer = IF d.timer = "login" THEN "none" ELSE d.timer
    <3>1. CASE d.timer = "login"
      <4>1. f = [d EXCEPT !.timer = "none", !.due = FALSE]
        BY <3>1 DEF PopLoginTimer
      <4> QED
        BY <2>1, <3>1, <4>1 DEF Conn
    <3>2. CASE d.timer # "login"
      <4>1. f = d
        BY <3>2 DEF PopLoginTimer
      <4> QED
        BY <2>1, <3>2, <4>1 DEF Conn
    <3> QED
      BY <3>1, <3>2
  <2> HIDE DEF f
  <2>b. k \in Conn /\ k.n = con.n /\ k.fd = con.fd /\ Timed(k)
    BY <2>a DEF Conn, KeepaliveTimer, Timed
  <2>c. /\ g \in Conn /\ g.n = con.n /\ g.fd = con.fd /\ g.garbled
        /\ g.status = d.status /\ g.timer = f.timer
    BY <2>a DEF Conn
  <2> HIDE DEF k, g
  <2>d. Timed(g)
    BY <2>1, <2>a, <2>c DEF Timed
  <2>3. CASE UNCHANGED <<con, ops>>
    BY <1>0, <1>2, <2>3, QuietInv
  <2>6. CASE con' \in {g, d} /\ UNCHANGED ops
    <3>1. con' \in Conn /\ con'.n = con.n /\ con'.fd = con.fd /\ Timed(con')
      BY <2>1, <2>6, <2>c, <2>d
    <3> QED
      BY <1>0, <1>2, <2>6, <3>1, SameConnInv
  <2>4. CASE Publish(<<>>) /\ con' \in {k, d, CloseFd(d)}
    <3>1. CloseFd(d) \in Conn /\ CloseFd(d).n = con.n /\ CloseFd(d).fd = "closed" /\ Timed(CloseFd(d))
      BY <2>1, ConnFacts DEF Timed
    <3>2. con' \in Conn /\ con'.n = con.n /\ (con'.fd = con.fd \/ con'.fd = "closed") /\ Timed(con')
      BY <2>1, <2>4, <2>b, <3>1
    <3> QED
      BY <1>0, <1>2, <2>4, <3>2, PublishInv
  <2>5. CASE OnLoginFail(f)
    BY <1>0, <1>2, <2>5, <2>a, FailInv
  <2> QED
    BY <2>2, <2>3, <2>4, <2>5, <2>6
<1>3. CASE Finish(con, "DISCONNECT") /\ DelConn(CloseFd(con), con.n)
  <2>1. CloseFd(con).fd = "closed" /\ CloseFd(con).n = con.n
    BY <1>0, ConnFacts
  <2>2. con' = NoConn /\ UNCHANGED <<leaked, stale>>
    BY <1>3, <2>1 DEF DelConn
  <2>3. con' \in Conn /\ con'.fd = "closed" /\ con'.n <= born'
    BY <1>0, <2>2, ConnFacts
  <2> QED
    BY <1>0, <1>3, <2>2, <2>3, EndInv
<1> QED
  BY <1>1, <1>2, <1>3 DEF Read

\* Timers.
LEMMA TimersInv ==
  ASSUME Inv, ProcessTimers
  PROVE  Inv'
<1>0. con \in Conn /\ born \in Nat /\ con.n <= born /\ Timed(con) /\ lpc = "timers" /\ UNCHANGED <<born, leaked, stale>>
  BY DEF Inv, ProcessTimers, Timed, StatusTimed
<1>1. CASE UNCHANGED <<con, ops>>
  BY <1>0, <1>1, QuietInv
<1>2. CASE con' = NoConn /\ UNCHANGED ops
  <2>1. DelsAfterClose(ops, con', born) /\ con' \in Conn /\ con'.n <= born /\ Timed(con')
    BY <1>0, <1>2, OtherConn, ConnFacts DEF Inv, Timed
  <2> QED
    BY <1>0, <1>2, <2>1, ConnInv DEF Inv
<1> DEFINE f == [con EXCEPT !.timer = "none", !.due = FALSE]
<1>3. f \in Conn /\ f.n = con.n
  BY <1>0 DEF Conn
<1>4. CASE OnLoginFail(f) \/ OnDisconnect(f)
  <2> HIDE DEF f
  <2> QED
    BY <1>0, <1>3, <1>4, FailInv
<1>5. CASE Expired(con) /\ con.timer = "keepalive" /\ con' \in {KeepaliveTimer(con), CloseFd(KeepaliveTimer(con))} /\ UNCHANGED ops
  <2> DEFINE k == KeepaliveTimer(con)
  <2>1. k \in Conn /\ k.n = con.n /\ k.fd = con.fd /\ Timed(k)
    BY <1>0, <1>5 DEF Conn, KeepaliveTimer, Timed
  <2> HIDE DEF k
  <2>2. CloseFd(k) \in Conn /\ CloseFd(k).n = con.n /\ CloseFd(k).fd = "closed" /\ Timed(CloseFd(k))
    BY <2>1, ConnFacts DEF Timed
  <2>3. con' \in Conn /\ con'.n = con.n /\ (con'.fd = con.fd \/ con'.fd = "closed") /\ Timed(con')
    BY <1>5, <2>1, <2>2 DEF k
  <2> QED
    BY <1>0, <1>5, <2>3, SameConnInv
<1> QED
  BY <1>1, <1>2, <1>4, <1>5 DEF ProcessTimers, Keepalive

\* Time and the server's end of the socket.
LEMMA WorldInv ==
  ASSUME Inv, Tick \/ Server
  PROVE  Inv'
<1>0. con \in Conn /\ Timed(con)
  BY DEF Inv, Timed, StatusTimed
<1>1. /\ con' \in Conn /\ con'.n = con.n /\ con'.fd = con.fd /\ Timed(con')
  <2>1. CASE Tick
    <3>1. con' = [con EXCEPT !.due = TRUE]
      BY <2>1 DEF Tick
    <3> QED
      BY <1>0, <3>1 DEF Conn, Timed
  <2>2. CASE Server
    <3>1. \/ \E a \in {"ok", "fail", "badresp"} : con' = [con EXCEPT !.asked = FALSE, !.inbox = a]
          \/ \E p \in {"push", "badpush"} : con' = [con EXCEPT !.inbox = p]
          \/ con' = [con EXCEPT !.up = FALSE]
      BY <2>2 DEF Server
    <3>2. ASSUME NEW a \in {"ok", "fail", "badresp"}, con' = [con EXCEPT !.asked = FALSE, !.inbox = a]
          PROVE  con' \in Conn /\ con'.n = con.n /\ con'.fd = con.fd /\ Timed(con')
      BY <1>0, <3>2 DEF Conn, Timed
    <3>3. ASSUME NEW p \in {"push", "badpush"}, con' = [con EXCEPT !.inbox = p]
          PROVE  con' \in Conn /\ con'.n = con.n /\ con'.fd = con.fd /\ Timed(con')
      BY <1>0, <3>3 DEF Conn, Timed
    <3>4. CASE con' = [con EXCEPT !.up = FALSE]
      BY <1>0, <3>4 DEF Conn, Timed
    <3> QED
      BY <3>1, <3>2, <3>3, <3>4
  <2> QED
    BY <2>1, <2>2
<1>2. UNCHANGED <<ops, born, leaked, stale>>
  BY DEF Tick, Server
<1> QED
  BY <1>1, <1>2, SameConnInv

\* Every step keeps the invariant.
LEMMA NextInv == Inv /\ [Next]_vars => Inv'
<1> SUFFICES ASSUME Inv, [Next]_vars PROVE Inv'
  OBVIOUS
<1>1. CASE UNCHANGED vars
  BY <1>1, QuietInv DEF vars
<1>2. CASE SendCtl \/ AsynStop \/ StopCtl \/ SelectCall \/ SelectReturn \/ DrainDone \/ RecvCtl
  <2>1. UNCHANGED <<ops, con, born, leaked, stale>>
    BY <1>2 DEF SendCtl, AsynStop, StopCtl, SelectCall, SelectReturn, DrainDone, RecvCtl
  <2> QED
    BY <2>1, QuietInv
<1> QED
  BY <1>1, <1>2, CallInv, ProcessOpInv, ReadInv, TimersInv, WorldInv DEF Next, LoopStep

\* The invariant holds throughout.
LEMMA Invariance == Spec => []Inv
  BY InitInv, NextInv, PTL DEF Spec

\* A connection is deleted with its socket open only by a DelConnOp that another
\* connection of the same client id posted (client_conn.cpp:120, ops.cpp), for
\* any number of calls from the application and its callbacks.
THEOREM LeakOnlyStale == Spec => []LeakOnlyByStaleDel
<1>1. Inv => LeakOnlyByStaleDel
  BY DEF Inv
<1> QED
  BY <1>1, Invariance, PTL

\* A socket has the timer of its state, the login timer that processOps keeps
\* (eventloop.cpp:174) and then the keepalive timer, unless the login response did
\* not parse (client_conn.cpp:281): that login is left without one.
THEOREM AlwaysTimed == Spec => []StatusTimed
<1>1. Inv => StatusTimed
  BY DEF Inv
<1> QED
  BY <1>1, Invariance, PTL
=============================================================================

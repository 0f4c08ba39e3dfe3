-------------------------- MODULE ServerLifeProofs --------------------------
(***************************************************************************)
(* Proofs about ServerLife, for any loops, connections and signals.  Both  *)
(* invariants rest on the order in the operator queues: an add operator    *)
(* for a client's connection never lies behind CloseAllConnectionsOp,      *)
(* because that is posted only after the accepting thread has ended.       *)
(***************************************************************************)
EXTENDS ServerLife, SequenceTheorems, TLAPS

\* What lies in a queue.
HasClose(q) == \E i \in 1..Len(q) : q[i].kind = "closeall"
HasAdd(q, c) == \E i \in 1..Len(q) : q[i].kind = "add" /\ q[i].con = c
HasCheck(q, c) == \E i \in 1..Len(q) : q[i].kind = "check" /\ q[i].con = c

\* No client's connection is added behind a CloseAllConnectionsOp.
Ordered(q) ==
  \A i, j \in 1..Len(q) :
    i < j /\ q[i].kind = "closeall" /\ q[j].kind = "add" => q[j].con \notin Clients

\* The operators as they are made: only outgoing connections are checked for.
AddOp == [kind : {"add"}, con : Cons]
CheckOp == [kind : {"check"}, con : Outgoing]
QueuedOp == AddOp \cup CheckOp \cup {[kind |-> "closeall"]}

Types ==
  /\ kind \in {"connect", "push"}
  /\ mpc \in {"init", "created", "loop", "done"}
  /\ run \in BOOLEAN
  /\ spc \in {"idle", "listen", "stopA", "joinA", "stopL", "joinL"}
  /\ tpc \in [Threads -> {"none", "new", "drain", "test", "wait", "accept", "exited"}]
  /\ status \in [Threads -> {"running", "closing", "closed"}]
  /\ ops \in [Loops -> Seq(QueuedOp)]
  /\ con \in [Cons -> {"none", "queued", "live", "closing", "gone"}]
  /\ home \in [Cons -> Threads]
  /\ closedAll \subseteq Loops

\* Threads exist once main has created them, and run before they end.
Created ==
  /\ mpc = "init" => \A t \in Threads : tpc[t] = "none"
  /\ mpc # "init" => \A t \in Threads : tpc[t] # "none"
  /\ \A t \in Threads : tpc[t] \in {"none", "new"} => status[t] = "closed"

\* stop() goes on to the loops when the accepting thread has ended.
AcceptorFirst ==
  /\ spc \in {"stopL", "joinL"} => tpc[Acceptor] \in {"none", "exited"}
  /\ \A l \in Loops : l \in closedAll \/ HasClose(ops[l]) => tpc[Acceptor] = "exited"

\* Who calls stop() when, and what its return means.
AllExited == \A t \in Threads : tpc[t] = "exited"

Joined ==
  /\ kind = "push" /\ spc # "idle" => mpc = "done"
  /\ kind = "connect" /\ mpc = "done" => spc = "idle"
  /\ kind = "connect" /\ mpc = "loop" /\ ~run /\ spc = "idle" => AllExited
  /\ mpc = "done" /\ spc = "idle" => AllExited

\* Add operators and the connections they are for.
Queues ==
  /\ \A l \in Loops : Ordered(ops[l])
  /\ \A l \in closedAll, c \in Clients : ~HasAdd(ops[l], c)
  /\ \A l \in Loops, c \in Cons : HasAdd(ops[l], c) => home[c] = l /\ con[c] # "none"

Homes ==
  /\ \A c \in Cons : con[c] = "none" => home[c] = Acceptor
  /\ \A c \in Cons : con[c] # "none" => home[c] \in Loops
  /\ \A c \in Cons : con[c] = "queued" => HasAdd(ops[home[c]], c)

\* A connection is checked for once, before it is made.
Checks ==
  /\ \A l \in Loops, c \in Cons : HasCheck(ops[l], c) => con[c] = "none"
  /\ \A l, k \in Loops : \A i \in 1..Len(ops[l]), j \in 1..Len(ops[k]) :
       ops[l][i].kind = "check" /\ ops[k][j].kind = "check" /\ ops[l][i].con = ops[k][j].con
         => l = k /\ i = j

\* A loop that has ended has no connection.
Empty ==
  \A c \in Cons : con[c] \in {"live", "closing"} => tpc[home[c]] # "exited"

Inv ==
  /\ Types /\ Created /\ AcceptorFirst /\ Joined /\ Queues /\ Homes /\ Checks /\ Empty
  /\ NoClientAfterCloseAll

-----------------------------------------------------------------------------
(* Queues *)

\* Appending an operator to a queue.
LEMMA AppendFacts ==
  ASSUME NEW q \in Seq(QueuedOp), NEW o \in QueuedOp
  PROVE  /\ Append(q, o) \in Seq(QueuedOp)
         /\ HasClose(Append(q, o)) => HasClose(q) \/ o.kind = "closeall"
         /\ \A c : HasAdd(q, c) => HasAdd(Append(q, o), c)
         /\ \A c : HasAdd(Append(q, o), c) => HasAdd(q, c) \/ (o.kind = "add" /\ o.con = c)
         /\ o.kind = "add" => HasAdd(Append(q, o), o.con)
         /\ \A c : HasCheck(Append(q, o), c) => HasCheck(q, c) \/ (o.kind = "check" /\ o.con = c)
<1>1. /\ Append(q, o) \in Seq(QueuedOp) /\ Len(Append(q, o)) = Len(q) + 1
      /\ Append(q, o)[Len(q) + 1] = o
      /\ \A i \in 1..Len(q) : Append(q, o)[i] = q[i]
  OBVIOUS
<1>2. Len(q) \in Nat
  OBVIOUS
<1>3. \A i \in 1..(Len(q) + 1) : i \in 1..Len(q) \/ i = Len(q) + 1
  BY <1>2
<1>4. 1..Len(q) \subseteq 1..(Len(q) + 1) /\ Len(q) + 1 \in 1..(Len(q) + 1)
  BY <1>2
<1> DEFINE a == Append(q, o)
<1> HIDE DEF a
<1>5. /\ Len(a) = Len(q) + 1 /\ a[Len(q) + 1] = o /\ \A i \in 1..Len(q) : a[i] = q[i]
  BY <1>1 DEF a
<1>6. HasClose(a) => HasClose(q) \/ o.kind = "closeall"
  BY <1>3, <1>5 DEF HasClose
<1>7. \A c : HasAdd(q, c) => HasAdd(a, c)
  BY <1>4, <1>5 DEF HasAdd
<1>8. \A c : HasAdd(a, c) => HasAdd(q, c) \/ (o.kind = "add" /\ o.con = c)
  BY <1>3, <1>5 DEF HasAdd
<1>9. o.kind = "add" => HasAdd(a, o.con)
  BY <1>4, <1>5 DEF HasAdd
<1>10. \A c : HasCheck(a, c) => HasCheck(q, c) \/ (o.kind = "check" /\ o.con = c)
  BY <1>3, <1>5 DEF HasCheck
<1> QED
  BY <1>1, <1>6, <1>7, <1>8, <1>9, <1>10 DEF a

\* Appending keeps the order if it adds no client's connection behind a close.
LEMMA AppendOrdered ==
  ASSUME NEW q \in Seq(QueuedOp), NEW o \in QueuedOp, Ordered(q),
         HasClose(q) /\ o.kind = "add" => o.con \notin Clients
  PROVE  Ordered(Append(q, o))
<1> DEFINE a == Append(q, o)
<1>1. Len(q) \in Nat /\ Len(a) = Len(q) + 1 /\ a[Len(q) + 1] = o /\ \A i \in 1..Len(q) : a[i] = q[i]
  OBVIOUS
<1> HIDE DEF a
<1> SUFFICES ASSUME NEW i \in 1..Len(a), NEW j \in 1..Len(a),
                    i < j, a[i].kind = "closeall", a[j].kind = "add"
             PROVE  a[j].con \notin Clients
  BY DEF Ordered, a
<1>2. i \in 1..Len(q) /\ a[i] = q[i]
  BY <1>1
<1>3. CASE j \in 1..Len(q)
  <2>1. a[j] = q[j]
    BY <1>1, <1>3
  <2> QED
    BY <1>2, <1>3, <2>1 DEF Ordered
<1>4. CASE j = Len(q) + 1
  <2>1. HasClose(q)
    BY <1>2 DEF HasClose
  <2> QED
    BY <1>1, <1>4, <2>1
<1> QED
  BY <1>1, <1>3, <1>4

\* Taking the first operator from a queue.
LEMMA TailFacts ==
  ASSUME NEW q \in Seq(QueuedOp), q # <<>>
  PROVE  /\ Tail(q) \in Seq(QueuedOp) /\ Head(q) \in QueuedOp /\ Head(q) = q[1]
         /\ Len(q) \in Nat /\ Len(q) >= 1 /\ Len(Tail(q)) = Len(q) - 1
         /\ \A i \in 1..Len(Tail(q)) : i + 1 \in 1..Len(q) /\ Tail(q)[i] = q[i + 1]
         /\ \A i \in 1..Len(q) : i = 1 \/ (i - 1 \in 1..Len(Tail(q)) /\ q[i] = Tail(q)[i - 1])
  OBVIOUS

\* What is left in the queue.
LEMMA TailHas ==
  ASSUME NEW q \in Seq(QueuedOp), q # <<>>
  PROVE  /\ HasClose(Tail(q)) => HasClose(q)
         /\ \A c : HasAdd(Tail(q), c) => HasAdd(q, c)
         /\ \A c : HasAdd(q, c) => HasAdd(Tail(q), c) \/ (Head(q).kind = "add" /\ Head(q).con = c)
         /\ \A c : HasCheck(Tail(q), c) => HasCheck(q, c)
         /\ Ordered(q) => Ordered(Tail(q))
         /\ Ordered(q) /\ Head(q).kind = "closeall" => \A c \in Clients : ~HasAdd(Tail(q), c)
         /\ Head(q).kind = "closeall" => HasClose(q)
         /\ Head(q).kind = "add" => HasAdd(q, Head(q).con)
         /\ Head(q).kind = "check" => HasCheck(q, Head(q).con)
<1> DEFINE t == Tail(q)
<1>1. /\ Head(q) = q[1] /\ Len(q) \in Nat /\ Len(q) >= 1 /\ Len(t) = Len(q) - 1
      /\ \A i \in 1..Len(t) : i + 1 \in 1..Len(q) /\ t[i] = q[i + 1]
      /\ \A i \in 1..Len(q) : i = 1 \/ (i - 1 \in 1..Len(t) /\ q[i] = t[i - 1])
  BY TailFacts
<1> HIDE DEF t
<1>2. HasClose(t) => HasClose(q)
  BY <1>1 DEF HasClose
<1>3. \A c : HasAdd(t, c) => HasAdd(q, c)
  BY <1>1 DEF HasAdd
<1>4. \A c : HasAdd(q, c) => HasAdd(t, c) \/ (Head(q).kind = "add" /\ Head(q).con = c)
  BY <1>1 DEF HasAdd
<1>5. \A c : HasCheck(t, c) => HasCheck(q, c)
  BY <1>1 DEF HasCheck
<1>6. Ordered(q) => Ordered(t)
  BY <1>1 DEF Ordered
<1>7. Ordered(q) /\ Head(q).kind = "closeall" => \A c \in Clients : ~HasAdd(t, c)
  BY <1>1 DEF Ordered, HasAdd
<1>8. 1 \in 1..Len(q)
  BY <1>1
<1>9. /\ Head(q).kind = "closeall" => HasClose(q)
      /\ Head(q).kind = "add" => HasAdd(q, Head(q).con)
      /\ Head(q).kind = "check" => HasCheck(q, Head(q).con)
  BY <1>1, <1>8 DEF HasClose, HasAdd, HasCheck
<1> QED
  BY <1>2, <1>3, <1>4, <1>5, <1>6, <1>7, <1>9 DEF t

-----------------------------------------------------------------------------
(* Steps *)

\* The initial state: no thread, no connection, empty queues.
LEMMA InitInv == Init => Inv
<1> SUFFICES ASSUME Init PROVE Inv
  OBVIOUS
<1>1. Types
  BY DEF Init, Types, Threads
<1>2. \A l \in Loops : ops[l] = <<>> /\ Len(ops[l]) = 0
  BY DEF Init
<1>3. \A l \in Loops : /\ ~HasClose(ops[l]) /\ Ordered(ops[l])
                       /\ \A c : ~HasAdd(ops[l], c) /\ ~HasCheck(ops[l], c)
  BY <1>2 DEF HasClose, HasAdd, HasCheck, Ordered
<1>4. Created /\ Joined
  BY DEF Init, Created, Joined, AllExited
<1>5. AcceptorFirst /\ Queues
  BY <1>3 DEF Init, AcceptorFirst, Queues
<1>6. Homes /\ Empty
  BY DEF Init, Homes, Empty, Acceptor
<1>7. Checks
  BY <1>2, <1>3 DEF Checks
<1>8. NoClientAfterCloseAll
  BY DEF Init, NoClientAfterCloseAll
<1> QED
  BY <1>1, <1>4, <1>5, <1>6, <1>7, <1>8 DEF Inv

\* The threads, as sets the provers can use.
LEMMA ThreadSets ==
  Acceptor \in Threads /\ Acceptor \notin Loops /\ Loops \subseteq Threads
  BY ServerAssumption DEF Threads, Acceptor

\* What is said of queues and connections stays true in a step that leaves both.
LEMMA QuietInv ==
  ASSUME Inv, UNCHANGED <<ops, con, home, closedAll>>
  PROVE  Queues' /\ Homes' /\ Checks' /\ NoClientAfterCloseAll'
<1>1. Queues'
  BY DEF Inv, Queues, Ordered, HasAdd
<1>2. Homes'
  BY DEF Inv, Homes, HasAdd
<1>3. Checks'
  BY DEF Inv, Checks, HasCheck
<1>4. NoClientAfterCloseAll'
  BY DEF Inv, NoClientAfterCloseAll
<1> QED
  BY <1>1, <1>2, <1>3, <1>4

\* The steps of main and the handler.
LEMMA MainInv ==
  ASSUME Inv, MainStep \/ Signal
  PROVE  Inv'
<1> USE DEF Inv
<1>1. UNCHANGED <<ops, con, home, closedAll>>
  BY DEF MainStep, CreateThreads, EnterLoop, LeaveLoop, Signal, loopVars
<1>2. Queues' /\ Homes' /\ Checks' /\ NoClientAfterCloseAll'
  BY <1>1, QuietInv
<1>3. \A l \in Loops : HasClose(ops[l])' <=> HasClose(ops[l])
  BY <1>1 DEF HasClose
<1>4. CASE CreateThreads
  <2>1. Types'
    BY <1>4 DEF CreateThreads, Types
  <2>2. Created'
    BY <1>4 DEF CreateThreads, Created, Types
  <2>3. tpc[Acceptor] = "none"
    BY <1>4, ThreadSets DEF CreateThreads, Created
  <2>4. AcceptorFirst'
    BY <1>1, <1>3, <1>4, <2>3 DEF CreateThreads, AcceptorFirst
  <2>5. Joined'
    BY <1>4 DEF CreateThreads, Joined
  <2>6. Empty'
    BY <1>4 DEF CreateThreads, Empty, Types
  <2> QED
    BY <1>2, <2>1, <2>2, <2>4, <2>5, <2>6
<1>5. CASE EnterLoop \/ LeaveLoop \/ Signal
  <2>1. UNCHANGED <<tpc, status, kind>>
    BY <1>5 DEF EnterLoop, LeaveLoop, Signal, loopVars
  <2>2. Types'
    BY <1>1, <1>5, <2>1 DEF EnterLoop, LeaveLoop, Signal, Types
  <2>3. Created'
    BY <1>5, <2>1 DEF EnterLoop, LeaveLoop, Signal, Created
  <2>4. AcceptorFirst'
    BY <1>1, <1>3, <1>5, <2>1 DEF EnterLoop, LeaveLoop, Signal, AcceptorFirst
  <2>5. Joined'
    BY <1>5, <2>1 DEF EnterLoop, LeaveLoop, Signal, Joined, AllExited, Types
  <2>6. Empty'
    BY <1>1, <2>1 DEF Empty
  <2> QED
    BY <1>2, <2>2, <2>3, <2>4, <2>5, <2>6
<1> QED
  BY <1>4, <1>5 DEF MainStep

\* The steps of stop() that post nothing.
LEMMA StopInv ==
  ASSUME Inv, StopListen \/ StopAcceptor \/ JoinAcceptor \/ AllStopped \/ JoinLoops
  PROVE  Inv'
<1> USE DEF Inv
<1>1. UNCHANGED <<ops, con, home, closedAll, tpc, kind, mpc, run>>
  BY DEF StopListen, StopAcceptor, JoinAcceptor, AllStopped, JoinLoops, loopVars
<1>2. Queues' /\ Homes' /\ Checks' /\ NoClientAfterCloseAll'
  BY <1>1, QuietInv
<1>3. \A l \in Loops : HasClose(ops[l])' <=> HasClose(ops[l])
  BY <1>1 DEF HasClose
<1>4. status' = status \/ (StopAcceptor /\ CasClosing(Acceptor))
  BY DEF StopListen, StopAcceptor, JoinAcceptor, AllStopped, JoinLoops, loopVars
<1>5. status' \in [Threads -> {"running", "closing", "closed"}]
      /\ \A t \in Threads : status[t] = "closed" => status'[t] = "closed"
  BY <1>4 DEF CasClosing, Types
<1>6. Types'
  BY <1>1, <1>5 DEF StopListen, StopAcceptor, JoinAcceptor, AllStopped, JoinLoops, Types
<1>7. Created'
  BY <1>1, <1>5 DEF Created
<1>8. AcceptorFirst'
  BY <1>1, <1>3 DEF StopListen, StopAcceptor, JoinAcceptor, AllStopped, JoinLoops, AcceptorFirst
<1>9. Joined'
  <2>1. CASE JoinLoops
    <3>1. mpc # "init" => AllExited
      BY <2>1 DEF JoinLoops, AcceptorFirst, Created, AllExited, Threads
    <3> QED
      BY <1>1, <2>1, <3>1 DEF JoinLoops, Joined, AllExited
  <2>2. CASE StopListen \/ StopAcceptor \/ JoinAcceptor \/ AllStopped
    BY <1>1, <2>2 DEF StopListen, StopAcceptor, JoinAcceptor, AllStopped, Joined
  <2> QED
    BY <2>1, <2>2
<1>10. Empty'
  BY <1>1 DEF Empty
<1> QED
  BY <1>2, <1>6, <1>7, <1>8, <1>9, <1>10

\* Steps of threads that touch neither queues nor connections.
LEMMA ThreadInv ==
  ASSUME Inv, NEW t \in Threads,
         RunStart(t) \/ Drained(t) \/ TestExit(t) \/ Wake(t) \/ (t = Acceptor /\ (AcceptEvent \/ AcceptDone))
  PROVE  Inv'
<1> USE DEF Inv
<1>1. UNCHANGED <<ops, con, home, closedAll, kind, mpc, run, spc>>
  BY DEF RunStart, Drained, TestExit, Wake, AcceptEvent, AcceptDone, mainVars
<1>2. Queues' /\ Homes' /\ Checks' /\ NoClientAfterCloseAll'
  BY <1>1, QuietInv
<1>3. \A l \in Loops : HasClose(ops[l])' <=> HasClose(ops[l])
  BY <1>1 DEF HasClose
<1>4. /\ tpc[t] \notin {"none", "exited"}
      /\ \E p \in {"drain", "test", "wait", "accept", "exited"} : tpc' = [tpc EXCEPT ![t] = p]
  BY DEF RunStart, Drained, TestExit, Wake, AcceptEvent, AcceptDone
<1>5. \E s \in {"running", "closing", "closed"} : status' = [status EXCEPT ![t] = s]
  <2>1. status' = status \/ \E s \in {"running", "closed"} : status' = [status EXCEPT ![t] = s]
    BY DEF RunStart, Drained, TestExit, Wake, AcceptEvent, AcceptDone
  <2>2. status' = status => status' = [status EXCEPT ![t] = status[t]]
    BY DEF Types
  <2>3. status[t] \in {"running", "closing", "closed"}
    BY DEF Types
  <2> QED
    BY <2>1, <2>2, <2>3
<1>6. Types'
  BY <1>1, <1>4, <1>5 DEF Types
<1>7. Created'
  BY <1>1, <1>4, <1>5 DEF Created, Types
<1>8. AcceptorFirst'
  BY <1>1, <1>3, <1>4, ThreadSets DEF AcceptorFirst, Types
<1>9. Joined'
  <2>1. ~AllExited
    BY <1>4 DEF AllExited
  <2> QED
    BY <1>1, <2>1 DEF Joined
<1>10. Empty'
  <2> SUFFICES ASSUME NEW c \in Cons, con[c] \in {"live", "closing"}, tpc'[home[c]] = "exited"
               PROVE  FALSE
    BY <1>1 DEF Empty
  <2>1. home[c] = t
    BY <1>4 DEF Empty, Types
  <2>2. TestExit(t) /\ InMap(t) = {}
    BY <1>4, <2>1 DEF RunStart, Drained, TestExit, Wake, AcceptEvent, AcceptDone, Types
  <2>3. c \in InMap(t)
    BY <2>1 DEF InMap
  <2> QED
    BY <2>2, <2>3
<1> QED
  BY <1>2, <1>6, <1>7, <1>8, <1>9, <1>10

\* One operator is appended to the queue of loop l. Operators of other kinds than
\* check cannot be mistaken for one.
LEMMA AppendChecks ==
  ASSUME Inv, NEW l \in Loops, NEW o \in QueuedOp,
         ops' = [ops EXCEPT ![l] = Append(@, o)],
         o.kind = "check" => \A k \in Loops : ~HasCheck(ops[k], o.con)
  PROVE  \A k, m \in Loops : \A i \in 1..Len(ops'[k]), j \in 1..Len(ops'[m]) :
           ops'[k][i].kind = "check" /\ ops'[m][j].kind = "check" /\ ops'[k][i].con = ops'[m][j].con
             => k = m /\ i = j
<1> SUFFICES ASSUME NEW k \in Loops, NEW m \in Loops, NEW i \in 1..Len(ops'[k]), NEW j \in 1..Len(ops'[m]),
                    ops'[k][i].kind = "check", ops'[m][j].kind = "check",
                    ops'[k][i].con = ops'[m][j].con
             PROVE  k = m /\ i = j
  OBVIOUS
<1>1. \A n \in Loops : ops[n] \in Seq(QueuedOp) /\ Len(ops[n]) \in Nat
  BY DEF Inv, Types
<1>2. \A n \in Loops : \A x \in 1..Len(ops'[n]) :
        \/ x \in 1..Len(ops[n]) /\ ops'[n][x] = ops[n][x]
        \/ n = l /\ x = Len(ops[l]) + 1 /\ ops'[n][x] = o
  <2> SUFFICES ASSUME NEW n \in Loops, NEW x \in 1..Len(ops'[n])
               PROVE  \/ x \in 1..Len(ops[n]) /\ ops'[n][x] = ops[n][x]
                      \/ n = l /\ x = Len(ops[l]) + 1 /\ ops'[n][x] = o
    OBVIOUS
  <2>1. CASE n # l
    BY <2>1, <1>1 DEF Inv, Types
  <2>2. CASE n = l
    <3>1. ops'[n] = Append(ops[l], o)
      BY <2>2 DEF Inv, Types
    <3> QED
      BY <3>1, <2>2, <1>1
  <2> QED
    BY <2>1, <2>2
<1>3. CASE i \in 1..Len(ops[k]) /\ ops'[k][i] = ops[k][i] /\ j \in 1..Len(ops[m]) /\ ops'[m][j] = ops[m][j]
  BY <1>3 DEF Inv, Checks
<1>4. CASE k = l /\ i = Len(ops[l]) + 1 /\ m = l /\ j = Len(ops[l]) + 1
  BY <1>4
<1>5. CASE k = l /\ i = Len(ops[l]) + 1 /\ ops'[k][i] = o /\ j \in 1..Len(ops[m]) /\ ops'[m][j] = ops[m][j]
  BY <1>5 DEF HasCheck
<1>6. CASE m = l /\ j = Len(ops[l]) + 1 /\ ops'[m][j] = o /\ i \in 1..Len(ops[k]) /\ ops'[k][i] = ops[k][i]
  BY <1>6 DEF HasCheck
<1> QED
  BY <1>2, <1>3, <1>4, <1>5, <1>6

\* stop() of a loop posts CloseAllConnectionsOp if the loop runs, and then the
\* accepting thread has ended.
LEMMA StopLoopInv ==
  ASSUME Inv, NEW l \in Loops, StopLoop(l)
  PROVE  Inv'
<1> USE DEF Inv
<1> DEFINE o == [kind |-> "closeall"]
<1>1. UNCHANGED <<con, home, closedAll, tpc, kind, mpc, run, spc>> /\ spc = "stopL"
  BY DEF StopLoop
<1>2. l \in Threads
  BY ThreadSets
<1>3. status' \in [Threads -> {"running", "closing", "closed"}]
      /\ \A t \in Threads : status[t] = "closed" => status'[t] = "closed"
  BY <1>2 DEF StopLoop, CasClosing, Types
<1>4. Created' /\ Joined' /\ Empty'
  BY <1>1, <1>3 DEF Created, Joined, AllExited, Empty
<1>5. CASE status[l] # "running"
  <2>1. UNCHANGED ops
    BY <1>5 DEF StopLoop
  <2>2. \A k \in Loops : HasClose(ops[k])' <=> HasClose(ops[k])
    BY <2>1 DEF HasClose
  <2>3. Types' /\ AcceptorFirst'
    BY <1>1, <1>3, <2>1, <2>2 DEF Types, AcceptorFirst
  <2> QED
    BY <1>1, <1>4, <2>1, <2>3, QuietInv
<1>6. CASE status[l] = "running"
  <2>1. ops' = [ops EXCEPT ![l] = Append(@, o)] /\ o \in QueuedOp
    BY <1>6 DEF StopLoop, QueuedOp
  <2>2. tpc[Acceptor] = "exited"
    <3>1. tpc[l] # "none"
      BY <1>2, <1>6 DEF Created
    <3>2. tpc[Acceptor] # "none"
      BY <1>2, <3>1, ThreadSets DEF Created
    <3> QED
      BY <1>1, <3>2 DEF AcceptorFirst
  <2>3. ops[l] \in Seq(QueuedOp)
    BY DEF Types
  <2>4. ops'[l] = Append(ops[l], o) /\ \A k \in Loops : k # l => ops'[k] = ops[k]
    BY <2>1 DEF Types
  <2> HIDE DEF o
  <2>5. o.kind = "closeall"
    BY DEF o
  <2>6. ops'[l] \in Seq(QueuedOp) /\ Ordered(ops'[l])
    BY <2>1, <2>3, <2>4, <2>5, AppendFacts, AppendOrdered DEF Queues
  <2>7. \A k \in Loops : \A c : HasAdd(ops'[k], c) <=> HasAdd(ops[k], c)
    BY <2>1, <2>3, <2>4, <2>5, AppendFacts
  <2>8. \A k \in Loops : \A c : HasCheck(ops'[k], c) => HasCheck(ops[k], c)
    BY <2>1, <2>3, <2>4, <2>5, AppendFacts
  <2>9. ops' \in [Loops -> Seq(QueuedOp)]
    BY <2>1, <2>6, <2>4 DEF Types
  <2>10. Types'
    BY <1>1, <1>3, <2>9 DEF Types
  <2>11. AcceptorFirst'
    BY <1>1, <2>2 DEF AcceptorFirst
  <2>12. Queues'
    BY <1>1, <2>4, <2>6, <2>7 DEF Queues, Types
  <2>13. Homes'
    BY <1>1, <2>7 DEF Homes
  <2>14. Checks'
    <3>1. \A k, m \in Loops : \A i \in 1..Len(ops'[k]), j \in 1..Len(ops'[m]) :
            ops'[k][i].kind = "check" /\ ops'[m][j].kind = "check" /\ ops'[k][i].con = ops'[m][j].con
              => k = m /\ i = j
      BY <2>1, <2>5, AppendChecks
    <3> QED
      BY <1>1, <2>8, <3>1 DEF Checks
  <2>15. NoClientAfterCloseAll'
    BY <1>1 DEF NoClientAfterCloseAll
  <2> QED
    BY <1>4, <2>10, <2>11, <2>12, <2>13, <2>14, <2>15
<1> QED
  BY <1>5, <1>6

\* An accepted connection goes to a loop that has closed nothing yet.
LEMMA AcceptInv ==
  ASSUME Inv, NEW c \in Clients, NEW l \in Loops, Accept(c, l)
  PROVE  Inv'
<1> USE DEF Inv
<1> DEFINE o == [kind |-> "add", con |-> c]
<1>1. /\ UNCHANGED <<kind, mpc, run, spc, status, closedAll>>
      /\ tpc' = tpc \/ tpc' = [tpc EXCEPT ![Acceptor] = "drain"]
      /\ tpc[Acceptor] = "accept" /\ con[c] = "none"
      /\ con' = [con EXCEPT ![c] = "queued"] /\ home' = [home EXCEPT ![c] = l]
      /\ ops' = [ops EXCEPT ![l] = Append(@, o)]
  BY DEF Accept, mainVars
<1>2. c \in Cons /\ l \in Threads /\ o \in QueuedOp
  BY ThreadSets DEF Cons, QueuedOp, AddOp
<1>a. /\ tpc' \in [Threads -> {"none", "new", "drain", "test", "wait", "accept", "exited"}]
      /\ \A t \in Threads : tpc'[t] \in {"none", "new", "exited"} \/ tpc[t] \in {"none", "new", "exited"}
                             => tpc'[t] = tpc[t]
  BY <1>1, ThreadSets DEF Types
<1>3. \A k \in Loops : k \notin closedAll /\ ~HasClose(ops[k])
  BY <1>1 DEF AcceptorFirst
<1>4. ops[l] \in Seq(QueuedOp) /\ ops'[l] = Append(ops[l], o) /\ \A k \in Loops : k # l => ops'[k] = ops[k]
  BY <1>1 DEF Types
<1> HIDE DEF o
<1>5. o.kind = "add" /\ o.con = c
  BY DEF o
<1>6. /\ ops'[l] \in Seq(QueuedOp) /\ Ordered(ops'[l]) /\ ~HasClose(ops'[l])
      /\ HasAdd(ops'[l], c)
      /\ \A d : HasAdd(ops'[l], d) <=> HasAdd(ops[l], d) \/ d = c
      /\ \A d : HasCheck(ops'[l], d) => HasCheck(ops[l], d)
  <2>1. Ordered(ops'[l])
    BY <1>2, <1>3, <1>4, AppendOrdered DEF Queues
  <2> QED
    BY <1>2, <1>3, <1>4, <1>5, <2>1, AppendFacts
<1>7. con'[c] = "queued" /\ home'[c] = l /\ \A d \in Cons : d # c => con'[d] = con[d] /\ home'[d] = home[d]
  BY <1>1, <1>2 DEF Types
<1>8. ops' \in [Loops -> Seq(QueuedOp)]
  BY <1>1, <1>4, <1>6 DEF Types
<1>9. Types'
  BY <1>1, <1>2, <1>8, <1>a DEF Types
<1>10. Created' /\ Joined'
  BY <1>1, <1>a DEF Created, Joined, AllExited
<1>11. AcceptorFirst'
  BY <1>1, <1>3, <1>4, <1>6, <1>a, ThreadSets DEF AcceptorFirst
<1>12. Queues'
  <2>1. closedAll = {}
    BY <1>3 DEF Types
  <2>2. \A k \in Loops, d \in Cons : HasAdd(ops'[k], d) => home'[d] = k /\ con'[d] # "none"
    BY <1>1, <1>4, <1>6, <1>7 DEF Queues
  <2> QED
    BY <1>1, <1>4, <1>6, <2>1, <2>2 DEF Queues
<1>13. Homes'
  BY <1>4, <1>6, <1>7 DEF Homes
<1>14. Checks'
  <2>1. \A k, m \in Loops : \A i \in 1..Len(ops'[k]), j \in 1..Len(ops'[m]) :
          ops'[k][i].kind = "check" /\ ops'[m][j].kind = "check" /\ ops'[k][i].con = ops'[m][j].con
            => k = m /\ i = j
    BY <1>1, <1>2, <1>5, AppendChecks
  <2>2. \A k \in Loops : ~HasCheck(ops[k], c)
    <3> SUFFICES ASSUME NEW k \in Loops, NEW i \in 1..Len(ops[k]), ops[k][i].kind = "check", ops[k][i].con = c
                 PROVE  FALSE
      BY DEF HasCheck
    <3>1. ops[k][i] \in QueuedOp
      BY DEF Types
    <3>2. ops[k][i] \in CheckOp
      BY <3>1 DEF QueuedOp, AddOp
    <3> QED
      BY <3>2, ServerAssumption DEF CheckOp
  <2> QED
    BY <1>4, <1>6, <1>7, <2>1, <2>2 DEF Checks
<1>15. Empty'
  BY <1>1, <1>7, <1>a DEF Empty, Types
<1>16. NoClientAfterCloseAll'
  BY <1>1, <1>3 DEF NoClientAfterCloseAll, Types
<1> QED
  BY <1>9, <1>10, <1>11, <1>12, <1>13, <1>14, <1>15, <1>16

\* A change of the server list posts one check for a connection.
LEMMA NotifyInv ==
  ASSUME Inv, NEW c \in Outgoing, NEW l \in Loops, NotifyChange(c, l)
  PROVE  Inv'
<1> USE DEF Inv
<1> DEFINE o == [kind |-> "check", con |-> c]
<1>1. /\ UNCHANGED <<kind, mpc, run, spc, tpc, status, con, home, closedAll>>
      /\ con[c] = "none"
      /\ \A k \in Loops : \A i \in DOMAIN ops[k] : ops[k][i] # o
      /\ ops' = [ops EXCEPT ![l] = Append(@, o)]
  BY DEF NotifyChange, mainVars
<1>2. c \in Cons /\ o \in QueuedOp
  BY DEF Cons, QueuedOp, CheckOp
<1>3. \A k \in Loops : ~HasCheck(ops[k], c)
  <2> SUFFICES ASSUME NEW k \in Loops, NEW i \in 1..Len(ops[k]), ops[k][i].kind = "check", ops[k][i].con = c
               PROVE  FALSE
    BY DEF HasCheck
  <2>1. ops[k][i] \in QueuedOp /\ i \in DOMAIN ops[k]
    BY DEF Types
  <2>2. ops[k][i] \in CheckOp
    BY <2>1 DEF QueuedOp, AddOp
  <2>3. ops[k][i] = o
    BY <2>2 DEF CheckOp
  <2> QED
    BY <1>1, <2>1, <2>3
<1>4. ops[l] \in Seq(QueuedOp) /\ ops'[l] = Append(ops[l], o) /\ \A k \in Loops : k # l => ops'[k] = ops[k]
  BY <1>1 DEF Types
<1> HIDE DEF o
<1>5. o.kind = "check" /\ o.con = c
  BY DEF o
<1>6. /\ ops'[l] \in Seq(QueuedOp) /\ Ordered(ops'[l])
      /\ HasClose(ops'[l]) => HasClose(ops[l])
      /\ \A d : HasAdd(ops'[l], d) <=> HasAdd(ops[l], d)
      /\ \A d : HasCheck(ops'[l], d) => HasCheck(ops[l], d) \/ d = c
  BY <1>2, <1>4, <1>5, AppendFacts, AppendOrdered DEF Queues
<1>7. ops' \in [Loops -> Seq(QueuedOp)]
  BY <1>1, <1>4, <1>6 DEF Types
<1>8. Types'
  BY <1>1, <1>7 DEF Types
<1>9. Created' /\ Joined' /\ Empty' /\ NoClientAfterCloseAll'
  BY <1>1 DEF Created, Joined, AllExited, Empty, NoClientAfterCloseAll
<1>10. AcceptorFirst'
  BY <1>1, <1>4, <1>6 DEF AcceptorFirst
<1>11. Queues'
  BY <1>1, <1>4, <1>6 DEF Queues, Types
<1>12. Homes'
  BY <1>1, <1>4, <1>6 DEF Homes
<1>13. Checks'
  <2>1. \A k, m \in Loops : \A i \in 1..Len(ops'[k]), j \in 1..Len(ops'[m]) :
          ops'[k][i].kind = "check" /\ ops'[m][j].kind = "check" /\ ops'[k][i].con = ops'[m][j].con
            => k = m /\ i = j
    BY <1>1, <1>2, <1>3, <1>5, AppendChecks
  <2> QED
    BY <1>1, <1>4, <1>6, <2>1 DEF Checks
<1> QED
  BY <1>8, <1>9, <1>10, <1>11, <1>12, <1>13

\* A connection ends, by an event or because its peer has closed.
LEMMA ConEndsInv ==
  ASSUME Inv, NEW l \in Loops, NEW c \in Cons, ConEnds(l, c)
  PROVE  Inv'
<1> USE DEF Inv
<1>1. /\ UNCHANGED <<kind, mpc, run, spc, status, ops, home, closedAll>>
      /\ tpc[l] = "wait" /\ con[c] \in {"live", "closing"}
      /\ con' = [con EXCEPT ![c] = "gone"] /\ tpc' = [tpc EXCEPT ![l] = "drain"]
  BY DEF ConEnds, InMap, mainVars
<1>2. con'[c] = "gone" /\ \A d \in Cons : d # c => con'[d] = con[d]
  BY <1>1 DEF Types
<1>3. l \in Threads /\ l # Acceptor
  BY ThreadSets
<1>4. tpc'[l] = "drain" /\ \A t \in Threads : t # l => tpc'[t] = tpc[t]
  BY <1>1, <1>3 DEF Types
<1>5. Types'
  BY <1>1 DEF Types
<1>6. Created'
  BY <1>1, <1>3, <1>4 DEF Created
<1>7. AcceptorFirst'
  BY <1>1, <1>3, <1>4, ThreadSets DEF AcceptorFirst, HasClose
<1>8. Joined'
  <2>1. ~AllExited
    BY <1>1, <1>3 DEF AllExited
  <2> QED
    BY <1>1, <2>1 DEF Joined
<1>9. Queues'
  BY <1>1, <1>2 DEF Queues, Ordered, HasAdd
<1>10. Homes'
  BY <1>1, <1>2 DEF Homes, HasAdd
<1>11. Checks'
  BY <1>1, <1>2 DEF Checks, HasCheck
<1>12. Empty'
  BY <1>1, <1>2, <1>4 DEF Empty, Types
<1>13. NoClientAfterCloseAll'
  BY <1>1, <1>2 DEF NoClientAfterCloseAll, Cons
<1> QED
  BY <1>5, <1>6, <1>7, <1>8, <1>9, <1>10, <1>11, <1>12, <1>13

\* The first operator has been taken from the queue of loop l.
LEMMA TailChecks ==
  ASSUME Inv, NEW l \in Loops, ops[l] # <<>>
  PROVE  LET q == [ops EXCEPT ![l] = Tail(@)]
         IN  /\ q \in [Loops -> Seq(QueuedOp)]
             /\ \A k, m \in Loops : \A i \in 1..Len(q[k]), j \in 1..Len(q[m]) :
                  q[k][i].kind = "check" /\ q[m][j].kind = "check" /\ q[k][i].con = q[m][j].con
                    => k = m /\ i = j
             /\ Head(ops[l]).kind = "check" => \A k \in Loops : ~HasCheck(q[k], Head(ops[l]).con)
<1> DEFINE q == [ops EXCEPT ![l] = Tail(@)]
           up(k) == IF k = l THEN 1 ELSE 0
<1>1. ops[l] \in Seq(QueuedOp)
  BY DEF Inv, Types
<1>2. q \in [Loops -> Seq(QueuedOp)]
  BY <1>1, TailFacts DEF Inv, Types
<1>3. q[l] = Tail(ops[l]) /\ \A k \in Loops : k # l => q[k] = ops[k]
  BY DEF Inv, Types
<1> HIDE DEF q
<1>4. \A k \in Loops : \A i \in 1..Len(q[k]) : i + up(k) \in 1..Len(ops[k]) /\ q[k][i] = ops[k][i + up(k)]
  <2> SUFFICES ASSUME NEW k \in Loops, NEW i \in 1..Len(q[k])
               PROVE  i + up(k) \in 1..Len(ops[k]) /\ q[k][i] = ops[k][i + up(k)]
    OBVIOUS
  <2>1. CASE k = l
    BY <2>1, <1>1, <1>3, TailFacts
  <2>2. CASE k # l
    BY <2>2, <1>3
  <2> QED
    BY <2>1, <2>2
<1>5. ASSUME NEW k \in Loops, NEW m \in Loops, NEW i \in 1..Len(q[k]), NEW j \in 1..Len(q[m]),
             q[k][i].kind = "check", q[m][j].kind = "check", q[k][i].con = q[m][j].con
      PROVE  k = m /\ i = j
  <2>1. /\ i + up(k) \in 1..Len(ops[k]) /\ q[k][i] = ops[k][i + up(k)]
        /\ j + up(m) \in 1..Len(ops[m]) /\ q[m][j] = ops[m][j + up(m)]
    BY <1>4
  <2>2. k = m /\ i + up(k) = j + up(m)
    BY <1>5, <2>1 DEF Inv, Checks
  <2> QED
    BY <2>2
<1>6. ASSUME Head(ops[l]).kind = "check", NEW k \in Loops, HasCheck(q[k], Head(ops[l]).con)
      PROVE  FALSE
  <2>1. PICK i \in 1..Len(q[k]) : q[k][i].kind = "check" /\ q[k][i].con = Head(ops[l]).con
    BY <1>6 DEF HasCheck
  <2>2. i + up(k) \in 1..Len(ops[k]) /\ q[k][i] = ops[k][i + up(k)]
    BY <1>4
  <2>3. 1 \in 1..Len(ops[l]) /\ Head(ops[l]) = ops[l][1]
    BY <1>1, TailFacts
  <2>4. k = l /\ i + up(k) = 1
    BY <1>6, <2>1, <2>2, <2>3 DEF Inv, Checks
  <2> QED
    BY <2>4
<1>7. \A k, m \in Loops : \A i \in 1..Len(q[k]), j \in 1..Len(q[m]) :
        q[k][i].kind = "check" /\ q[m][j].kind = "check" /\ q[k][i].con = q[m][j].con
          => k = m /\ i = j
  BY <1>5
<1>8. Head(ops[l]).kind = "check" => \A k \in Loops : ~HasCheck(q[k], Head(ops[l]).con)
  BY <1>6
<1> QED
  BY <1>2, <1>7, <1>8, Zenon DEF q

\* A loop processes the first operator of its queue.
LEMMA ProcessOpInv ==
  ASSUME Inv, NEW l \in Loops, ProcessOp(l)
  PROVE  Inv'
<1> USE DEF Inv
<1> DEFINE op == Head(ops[l])
           q == [ops EXCEPT ![l] = Tail(@)]
<1>1. /\ UNCHANGED <<kind, mpc, run, spc, tpc, status>> /\ tpc[l] = "drain" /\ ops[l] # <<>>
  BY DEF ProcessOp, mainVars
<1>2. ops[l] \in Seq(QueuedOp) /\ l \in Threads
  BY ThreadSets DEF Types
<1>3. q[l] = Tail(ops[l]) /\ \A k \in Loops : k # l => q[k] = ops[k]
  BY DEF Types
<1>4. /\ q \in [Loops -> Seq(QueuedOp)]
      /\ \A k, m \in Loops : \A i \in 1..Len(q[k]), j \in 1..Len(q[m]) :
           q[k][i].kind = "check" /\ q[m][j].kind = "check" /\ q[k][i].con = q[m][j].con
             => k = m /\ i = j
      /\ op.kind = "check" => \A k \in Loops : ~HasCheck(q[k], op.con)
  BY <1>1, TailChecks
<1>5. op \in QueuedOp
  BY <1>1, <1>2, TailFacts
<1>6. /\ op.kind = "closeall" \/ op.kind = "add" \/ op.kind = "check"
      /\ op.kind = "add" => op.con \in Cons
      /\ op.kind = "check" => op.con \in Outgoing /\ op.con \in Cons /\ op.con \notin Clients
  BY <1>5, ServerAssumption DEF QueuedOp, AddOp, CheckOp, Cons
<1>7. /\ \A k \in Loops : HasClose(q[k]) => HasClose(ops[k])
      /\ \A k \in Loops : \A c : HasAdd(q[k], c) => HasAdd(ops[k], c)
      /\ \A k \in Loops : \A c : HasAdd(ops[k], c) => HasAdd(q[k], c) \/ (k = l /\ op.kind = "add" /\ op.con = c)
      /\ \A k \in Loops : \A c : HasCheck(q[k], c) => HasCheck(ops[k], c)
      /\ \A k \in Loops : Ordered(q[k])
      /\ op.kind = "closeall" => HasClose(ops[l]) /\ \A c \in Clients : ~HasAdd(q[l], c)
      /\ op.kind = "add" => HasAdd(ops[l], op.con)
      /\ op.kind = "check" => HasCheck(ops[l], op.con)
  <2>1. Ordered(ops[l])
    BY DEF Queues
  <2>2. /\ HasClose(q[l]) => HasClose(ops[l])
        /\ \A c : HasAdd(q[l], c) => HasAdd(ops[l], c)
        /\ \A c : HasAdd(ops[l], c) => HasAdd(q[l], c) \/ (op.kind = "add" /\ op.con = c)
        /\ \A c : HasCheck(q[l], c) => HasCheck(ops[l], c)
        /\ Ordered(q[l])
        /\ op.kind = "closeall" => HasClose(ops[l]) /\ \A c \in Clients : ~HasAdd(q[l], c)
        /\ op.kind = "add" => HasAdd(ops[l], op.con)
        /\ op.kind = "check" => HasCheck(ops[l], op.con)
    <3> HIDE DEF q
    <3> QED
      BY <1>1, <1>2, <1>3, <2>1, TailHas
  <2> HIDE DEF q, op
  <2>3. ASSUME NEW k \in Loops, k # l
        PROVE  q[k] = ops[k] /\ Ordered(q[k])
    BY <1>3, <2>3 DEF Queues
  <2>4. /\ \A k \in Loops : HasClose(q[k]) => HasClose(ops[k])
        /\ \A k \in Loops : Ordered(q[k])
    BY <2>2, <2>3
  <2>5. ASSUME NEW k \in Loops, NEW c
        PROVE  /\ HasAdd(q[k], c) => HasAdd(ops[k], c)
               /\ HasAdd(ops[k], c) => HasAdd(q[k], c) \/ (k = l /\ op.kind = "add" /\ op.con = c)
               /\ HasCheck(q[k], c) => HasCheck(ops[k], c)
    BY <2>2, <2>3
  <2> QED
    BY <2>2, <2>4, <2>5
<1>8. CASE op.kind = "closeall" /\ CloseAll(l) /\ ops' = [ops EXCEPT ![l] = Tail(ops[l])] /\ UNCHANGED home
  <2>1. ops' = q
    BY <1>8
  <2> HIDE DEF q, op
  <2>2. PICK drained \in SUBSET {c \in InMap(l) : con[c] = "live"} :
          con' = [c \in Cons |-> IF c \in drained THEN "gone"
                                 ELSE IF c \in InMap(l) THEN "closing" ELSE con[c]]
    BY <1>8 DEF CloseAll
  <2>3. closedAll' = closedAll \cup {l}
    BY <1>8 DEF CloseAll
  <2>4. \A c \in Cons : /\ c \in InMap(l) => con[c] \in {"live", "closing"} /\ con'[c] \in {"closing", "gone"}
                        /\ c \notin InMap(l) => con'[c] = con[c]
    BY <2>2 DEF InMap
  <2>5. con' \in [Cons -> {"none", "queued", "live", "closing", "gone"}]
    BY <2>2 DEF Types
  <2>6. Types'
    BY <1>1, <1>4, <1>8, <2>1, <2>3, <2>5 DEF Types
  <2>7. Created' /\ Joined'
    BY <1>1 DEF Created, Joined, AllExited
  <2>8. AcceptorFirst'
    BY <1>1, <1>7, <1>8, <2>1, <2>3 DEF AcceptorFirst
  <2>9. Queues'
    <3>1. \A k \in closedAll', c \in Clients : ~HasAdd(ops'[k], c)
      BY <1>7, <1>8, <2>1, <2>3 DEF Queues, Types
    <3>2. \A k \in Loops, c \in Cons : HasAdd(ops'[k], c) => home'[c] = k /\ con'[c] # "none"
      BY <1>7, <1>8, <2>1, <2>4 DEF Queues
    <3> QED
      BY <1>7, <2>1, <3>1, <3>2 DEF Queues
  <2>10. Homes'
    BY <1>7, <1>8, <2>1, <2>4 DEF Homes
  <2>11. Checks'
    <3>1. \A k \in Loops, c \in Cons : HasCheck(ops'[k], c) => con'[c] = "none"
      BY <1>7, <2>1, <2>4 DEF Checks
    <3> QED
      BY <1>4, <2>1, <3>1 DEF Checks
  <2>12. Empty'
    BY <1>1, <1>8, <2>4 DEF Empty
  <2>13. NoClientAfterCloseAll'
    <3> SUFFICES ASSUME NEW c \in Clients, home[c] \in closedAll' PROVE con'[c] \in {"closing", "gone"}
      BY <1>8 DEF NoClientAfterCloseAll
    <3>1. c \in Cons
      BY DEF Cons
    <3>2. CASE home[c] = l
      <4>1. con[c] # "none"
        BY <3>1, <3>2, ThreadSets DEF Homes
      <4>2. con[c] # "queued"
        BY <1>7, <1>8, <3>1, <3>2 DEF Homes
      <4>3. con[c] \in {"live", "closing"} => c \in InMap(l)
        BY <3>1, <3>2 DEF InMap
      <4> QED
        BY <2>4, <3>1, <4>1, <4>2, <4>3 DEF Types
    <3>3. CASE home[c] \in closedAll
      BY <2>4, <3>1, <3>3 DEF NoClientAfterCloseAll
    <3> QED
      BY <2>3, <3>2, <3>3
  <2> QED
    BY <2>6, <2>7, <2>8, <2>9, <2>10, <2>11, <2>12, <2>13
<1>9. CASE /\ op.kind = "add" /\ con' = [con EXCEPT ![op.con] = "live"]
           /\ ops' = [ops EXCEPT ![l] = Tail(ops[l])] /\ UNCHANGED <<home, closedAll>>
  <2>1. ops' = q
    BY <1>9
  <2> HIDE DEF q, op
  <2>2. op.con \in Cons /\ con'[op.con] = "live" /\ \A c \in Cons : c # op.con => con'[c] = con[c]
    BY <1>6, <1>9 DEF Types
  <2>3. HasAdd(ops[l], op.con) /\ home[op.con] = l /\ con[op.con] # "none"
    BY <1>7, <1>9, <2>2 DEF Queues
  <2>4. Types'
    BY <1>1, <1>4, <1>9, <2>1, <2>2 DEF Types
  <2>5. Created' /\ Joined'
    BY <1>1 DEF Created, Joined, AllExited
  <2>6. AcceptorFirst'
    BY <1>1, <1>7, <1>9, <2>1 DEF AcceptorFirst
  <2>7. Queues'
    <3>1. \A k \in closedAll, c \in Clients : ~HasAdd(ops'[k], c)
      BY <1>7, <2>1 DEF Queues, Types
    <3>2. \A k \in Loops, c \in Cons : HasAdd(ops'[k], c) => home'[c] = k /\ con'[c] # "none"
      BY <1>7, <1>9, <2>1, <2>2 DEF Queues
    <3> QED
      BY <1>7, <1>9, <2>1, <3>1, <3>2 DEF Queues
  <2>8. Homes'
    BY <1>7, <1>9, <2>1, <2>2, <2>3 DEF Homes
  <2>9. Checks'
    <3>1. \A k \in Loops, c \in Cons : HasCheck(ops'[k], c) => con'[c] = "none"
      BY <1>7, <2>1, <2>2, <2>3 DEF Checks
    <3> QED
      BY <1>4, <2>1, <3>1 DEF Checks
  <2>10. Empty'
    BY <1>1, <1>9, <2>2, <2>3 DEF Empty
  <2>11. NoClientAfterCloseAll'
    <3>1. op.con \in Clients => l \notin closedAll
      BY <2>3 DEF Queues
    <3> QED
      BY <1>9, <2>2, <2>3, <3>1 DEF NoClientAfterCloseAll, Cons
  <2> QED
    BY <2>4, <2>5, <2>6, <2>7, <2>8, <2>9, <2>10, <2>11
<1>10. CASE /\ op.kind = "check" /\ con' = [con EXCEPT ![op.con] = "queued"]
            /\ home' = [home EXCEPT ![op.con] = l]
            /\ ops' = [ops EXCEPT ![l] = Append(Tail(ops[l]), [kind |-> "add", con |-> op.con])]
            /\ UNCHANGED closedAll
  <2> DEFINE o == [kind |-> "add", con |-> op.con]
  <2>1. ops'[l] = Append(q[l], o) /\ \A k \in Loops : k # l => ops'[k] = q[k]
    BY <1>3, <1>10 DEF Types
  <2>2. o \in QueuedOp /\ q[l] \in Seq(QueuedOp)
    BY <1>4, <1>6, <1>10 DEF QueuedOp, AddOp
  <2>3. ops' \in [Loops -> Seq(QueuedOp)]
    BY <1>10, <2>1, <2>2, AppendFacts DEF Types
  <2>4. o.kind = "add" /\ o.con = op.con
    OBVIOUS
  <2> HIDE DEF q, op, o
  <2>5. /\ op.con \in Cons /\ op.con \notin Clients /\ con'[op.con] = "queued" /\ home'[op.con] = l
        /\ \A c \in Cons : c # op.con => con'[c] = con[c] /\ home'[c] = home[c]
    BY <1>2, <1>6, <1>10 DEF Types
  <2>6. con[op.con] = "none"
    BY <1>7, <1>10, <2>5 DEF Checks
  <2>7. /\ \A k \in Loops : HasClose(ops'[k]) => HasClose(ops[k])
        /\ \A k \in Loops : \A c : HasAdd(ops'[k], c) => HasAdd(ops[k], c) \/ (k = l /\ c = op.con)
        /\ \A k \in Loops : \A c : HasAdd(ops[k], c) => HasAdd(ops'[k], c)
        /\ HasAdd(ops'[l], op.con)
        /\ \A k \in Loops : \A c : HasCheck(ops'[k], c) => HasCheck(q[k], c)
        /\ \A k \in Loops : Ordered(ops'[k])
    <3>1. Ordered(ops'[l])
      BY <1>7, <2>1, <2>2, <2>4, <2>5, AppendOrdered
    <3>2. /\ HasClose(ops'[l]) => HasClose(q[l])
          /\ \A c : HasAdd(ops'[l], c) => HasAdd(q[l], c) \/ c = op.con
          /\ \A c : HasAdd(q[l], c) => HasAdd(ops'[l], c)
          /\ HasAdd(ops'[l], op.con)
          /\ \A c : HasCheck(ops'[l], c) => HasCheck(q[l], c)
      BY <2>1, <2>2, <2>4, AppendFacts
    <3>3. \A k \in Loops : \A c : HasAdd(ops[k], c) => HasAdd(q[k], c)
      BY <1>7, <1>10
    <3> QED
      BY <1>7, <2>1, <3>1, <3>2, <3>3
  <2>8. Types'
    BY <1>1, <1>2, <1>10, <2>3, <2>5 DEF Types
  <2>9. Created' /\ Joined'
    BY <1>1 DEF Created, Joined, AllExited
  <2>10. AcceptorFirst'
    BY <1>1, <1>10, <2>7 DEF AcceptorFirst
  <2>11. Queues'
    <3>1. \A k \in closedAll, c \in Clients : ~HasAdd(ops'[k], c)
      BY <2>5, <2>7 DEF Queues, Types
    <3>2. \A k \in Loops, c \in Cons : HasAdd(ops[k], c) => c # op.con
      BY <2>6 DEF Queues
    <3>3. \A k \in Loops, c \in Cons : HasAdd(ops'[k], c) => home'[c] = k /\ con'[c] # "none"
      BY <2>5, <2>7, <3>2 DEF Queues
    <3> QED
      BY <1>10, <2>7, <3>1, <3>3 DEF Queues
  <2>12. Homes'
    BY <2>5, <2>7 DEF Homes
  <2>13. Checks'
    <3>1. \A k \in Loops, c \in Cons : HasCheck(ops'[k], c) => con'[c] = "none"
      <4> SUFFICES ASSUME NEW k \in Loops, NEW c \in Cons, HasCheck(ops'[k], c) PROVE con'[c] = "none"
        OBVIOUS
      <4>1. HasCheck(q[k], c)
        BY <2>7
      <4>2. c # op.con
        BY <1>4, <1>10, <4>1
      <4>3. HasCheck(ops[k], c)
        BY <1>7, <4>1
      <4> QED
        BY <2>5, <4>2, <4>3 DEF Checks
    <3>2. \A k \in Loops : \A i \in 1..Len(ops'[k]) :
            ops'[k][i].kind = "check" => i \in 1..Len(q[k]) /\ ops'[k][i] = q[k][i]
      <4>1. \A i \in 1..Len(ops'[l]) : ops'[l][i].kind = "check" => i \in 1..Len(q[l]) /\ ops'[l][i] = q[l][i]
        BY <2>1, <2>2, <2>4
      <4> QED
        BY <2>1, <4>1
    <3>3. ASSUME NEW k \in Loops, NEW m \in Loops, NEW i \in 1..Len(ops'[k]), NEW j \in 1..Len(ops'[m]),
                 ops'[k][i].kind = "check", ops'[m][j].kind = "check", ops'[k][i].con = ops'[m][j].con
          PROVE  k = m /\ i = j
      <4>1. i \in 1..Len(q[k]) /\ q[k][i].kind = "check" /\ q[k][i] = ops'[k][i]
        BY <3>2, <3>3
      <4>2. j \in 1..Len(q[m]) /\ q[m][j].kind = "check" /\ q[m][j] = ops'[m][j]
        BY <3>2, <3>3
      <4>3. q[k][i].con = q[m][j].con
        BY <3>3, <4>1, <4>2
      <4> QED
        BY <1>4, <4>1, <4>2, <4>3
    <3> QED
      BY <3>1, <3>3 DEF Checks
  <2>14. Empty'
    BY <1>1, <2>5 DEF Empty
  <2>15. NoClientAfterCloseAll'
    BY <1>10, <2>5 DEF NoClientAfterCloseAll, Cons
  <2> QED
    BY <2>8, <2>9, <2>10, <2>11, <2>12, <2>13, <2>14, <2>15
<1> QED
  BY <1>8, <1>9, <1>10 DEF ProcessOp

\* Every step keeps the invariant.
LEMMA NextInv == Inv /\ [Next]_vars => Inv'
<1> SUFFICES ASSUME Inv, [Next]_vars PROVE Inv'
  OBVIOUS
<1>1. ASSUME UNCHANGED <<ops, con, home, closedAll, kind, mpc, run, spc, tpc, status>> PROVE Inv'
  <2>1. Types' /\ Created' /\ Joined' /\ Empty'
    BY <1>1 DEF Inv, Types, Created, Joined, AllExited, Empty
  <2>2. AcceptorFirst'
    BY <1>1 DEF Inv, AcceptorFirst, HasClose
  <2> QED
    BY <1>1, <2>1, <2>2, QuietInv DEF Inv
<1>2. CASE UNCHANGED vars
  BY <1>1, <1>2 DEF vars
<1>3. ASSUME NEW c \in Cons, PeerStalls(c) PROVE Inv'
  BY <1>1, <1>3 DEF PeerStalls, mainVars, loopVars
<1>4. CASE StopStep
  BY <1>4, StopInv, StopLoopInv DEF StopStep
<1>5. ASSUME NEW t \in Threads, Thread(t) PROVE Inv'
  BY <1>5, ThreadInv DEF Thread
<1>6. CASE AcceptEvent \/ AcceptDone
  BY <1>6, ThreadInv, ThreadSets
<1>7. ASSUME NEW l \in Loops, LoopStep(l) PROVE Inv'
  <2>1. CASE Thread(l)
    BY <2>1, <1>5, ThreadSets
  <2>2. CASE ProcessOp(l)
    BY <2>2, ProcessOpInv
  <2>3. CASE \E c \in Cons : Flushed(l, c)
    BY <2>3, ConEndsInv DEF Flushed
  <2> QED
    BY <1>7, <2>1, <2>2, <2>3 DEF LoopStep
<1>8. ASSUME NEW l \in Loops, NEW c \in Cons, PeerCloses(l, c) PROVE Inv'
  BY <1>8, ConEndsInv DEF PeerCloses
<1>9. CASE Next
  <2>1. CASE MainStep \/ Signal
    BY <2>1, MainInv
  <2>2. CASE Thread(Acceptor)
    BY <2>2, <1>5, ThreadSets
  <2>3. CASE \E c \in Clients, l \in Loops : Accept(c, l)
    BY <2>3, AcceptInv
  <2>4. CASE \E c \in Outgoing, l \in Loops : NotifyChange(c, l)
    BY <2>4, NotifyInv
  <2> QED
    BY <1>3, <1>4, <1>6, <1>7, <1>8, <1>9, <2>1, <2>2, <2>3, <2>4 DEF Next
<1> QED
  BY <1>2, <1>9

\* The invariant holds throughout.
LEMMA Invariance == Spec => []Inv
  BY InitInv, NextInv, PTL DEF Spec

\* No client's connection is live in a loop that has closed all its connections:
\* Server::stop joins the accepting thread before it stops the loops
\* (ef_server.cpp:113), for any number of loops, connections and signals.
THEOREM ClosedStaysClosed == Spec => []NoClientAfterCloseAll
<1>1. Inv => NoClientAfterCloseAll
  BY DEF Inv
<1> QED
  BY <1>1, Invariance, PTL

\* When stop() has returned to a main that is done, every thread has ended and a
\* connection that is not destroyed lies in the queue of a loop that has ended.
THEOREM StopsClean == Spec => []StopClean
<1>1. Inv => StopClean
  <2> SUFFICES ASSUME Inv, Stopped PROVE StopClean
    BY DEF StopClean
  <2> USE DEF Inv
  <2>1. AllExited
    BY DEF Stopped, Joined
  <2>2. ASSUME NEW c \in Cons, con[c] \notin {"none", "gone"}
        PROVE  /\ con[c] = "queued"
               /\ \E i \in DOMAIN ops[home[c]] : ops[home[c]][i] = [kind |-> "add", con |-> c]
    <3>1. home[c] \in Loops
      BY <2>2 DEF Homes
    <3>2. tpc[home[c]] = "exited"
      BY <2>1, <3>1, ThreadSets DEF AllExited
    <3>3. con[c] = "queued"
      BY <2>2, <3>2 DEF Empty, Types
    <3>4. PICK i \in 1..Len(ops[home[c]]) : ops[home[c]][i].kind = "add" /\ ops[home[c]][i].con = c
      BY <3>3 DEF Homes, HasAdd
    <3>5. i \in DOMAIN ops[home[c]] /\ ops[home[c]][i] \in QueuedOp
      BY <3>1, <3>4 DEF Types
    <3>6. ops[home[c]][i] \in AddOp
      BY <3>4, <3>5 DEF QueuedOp, CheckOp
    <3>7. ops[home[c]][i] = [kind |-> "add", con |-> c]
      BY <3>4, <3>6 DEF AddOp
    <3> QED
      BY <3>3, <3>5, <3>7
  <2> QED
    BY <2>1, <2>2 DEF StopClean, AllExited
<1> QED
  BY <1>1, Invariance, PTL
=============================================================================

------------------------------ MODULE NetProofs ------------------------------
(***************************************************************************)
(* Proofs about the network framework: the event loop (EventLoop), the     *)
(* byte queue of a connection (LoopBuf, LoopBufUse) and the sending side   *)
(* of a connection (Connection).                                           *)
(***************************************************************************)
EXTENDS EventLoop, LoopBufUse, Connection,
        FiniteSetTheorems, SequenceTheorems, WellFoundedInduction, TLAPS

-----------------------------------------------------------------------------
(* The event loop: safety for any number of producer threads, connections  *)
(* and operators.                                                          *)

\* Producers between raising the flag and sending the byte.
Senders == {p \in Producers : ppc[p] = "send"}

\* Why CtlBounded holds: a byte is in the socket, about to be sent, or still
\* allowed because the flag is down. processOps allows one more when it lowers
\* the flag, and takes everything back at the recv that follows.
WakeBudget ==
    ctl + Cardinality(Senders) + (1 - opsFlag)
        <= Cardinality(Producers) + 1 + (IF lpc = "recv" THEN 1 ELSE 0)

\* Devices wait in the events array only during the for loop of run().
ReadyOnlyInEvents == lpc # "events" => ready = {}

IInv == TypeOK /\ WakeBudget /\ FlagDownServed /\ NoDangling /\ ReadyOnlyInEvents

-----------------------------------------------------------------------------
\* The initial state satisfies the inductive invariant.
LEMMA InitInv == Init => IInv
<1> SUFFICES ASSUME Init PROVE IInv
  OBVIOUS
<1>1. TypeOK
  BY DEF Init, TypeOK, LoopPC
<1>2. WakeBudget
  <2>1. Senders = {}
    BY DEF Init, Senders
  <2>2. Cardinality(Senders) = 0
    BY <2>1, FS_EmptySet
  <2>3. Cardinality(Producers) \in Nat
    BY ConstantsAssumption, FS_CardinalityType
  <2> QED
    BY <2>2, <2>3 DEF Init, WakeBudget
<1>3. FlagDownServed /\ NoDangling /\ ReadyOnlyInEvents
  BY DEF Init, FlagDownServed, NoDangling, ReadyOnlyInEvents, InMap
<1> QED
  BY <1>1, <1>2, <1>3 DEF IInv

\* What an operator does to the loop's own data.
LEMMA ProcessEffect ==
    ASSUME TypeOK, NoDangling, NEW op \in Op, Process(op)
    PROVE  /\ con' \in [Conns -> {"new", "queued", "live", "closing", "gone"}]
           /\ timer' \in [Conns -> {"off", "armed", "due"}]
           /\ \A c \in Conns : timer'[c] # "off" => con'[c] = "live"
<1>1. CASE op.kind = "add"
  <2>1. ProcessAdd(op.con) /\ op.con \in Conns
    BY <1>1 DEF Process, Op, CloseAllOp
  <2> QED
    BY <2>1 DEF ProcessAdd, TypeOK, NoDangling
<1>2. CASE op.kind = "send"
  <2>1. ProcessSend(op.con) /\ op.con \in Conns
    BY <1>2 DEF Process, Op, CloseAllOp
  <2> QED
    BY <2>1 DEF ProcessSend, TypeOK, NoDangling
<1>3. CASE op.kind = "close"
  <2>1. SafeCloseThese({op.con} \cap InMap, timer)
    BY <1>3 DEF Process
  <2> QED
    BY <2>1 DEF SafeCloseThese, InMap, TypeOK, NoDangling
<1>4. CASE op.kind = "closeall"
  <2>1. SafeCloseThese(InMap, timer)
    BY <1>4 DEF Process
  <2> QED
    BY <2>1 DEF SafeCloseThese, InMap, TypeOK, NoDangling
<1> QED
  BY <1>1, <1>2, <1>3, <1>4 DEF Op, CloseAllOp

\* Each step keeps the inductive invariant.
LEMMA NextInv == IInv /\ [Next]_vars => IInv'
<1> SUFFICES ASSUME IInv, [Next]_vars PROVE IInv'
  OBVIOUS
<1> USE DEF IInv
<1>N. Cardinality(Producers) \in Nat /\ IsFiniteSet(Producers)
  BY ConstantsAssumption, FS_CardinalityType
<1>S. /\ IsFiniteSet(Senders) /\ Cardinality(Senders) \in Nat
      /\ Cardinality(Senders) <= Cardinality(Producers)
  BY <1>N, FS_Subset, FS_CardinalityType DEF Senders
<1>1. ASSUME NEW p \in Producers, NEW op \in Op \ {CloseAllOp}, Post(p, op)
      PROVE  IInv'
  <2>1. TypeOK'
    BY <1>1 DEF Post, Append1, TypeOK, LoopPC
  <2>2. WakeBudget'
    <3>1. Senders' = Senders
      BY <1>1 DEF Post, Append1, Senders, TypeOK
    <3> QED
      BY <1>1, <1>N, <1>S, <3>1 DEF Post, Append1, WakeBudget, TypeOK
  <2>3. FlagDownServed'
    BY <1>1 DEF Post, Append1, FlagDownServed, TypeOK
  <2>4. NoDangling' /\ ReadyOnlyInEvents'
    BY <1>1 DEF Post, Append1, NoDangling, ReadyOnlyInEvents, InMap, TypeOK
  <2> QED
    BY <2>1, <2>2, <2>3, <2>4
<1>2. ASSUME NEW p \in Producers, CasFlag(p) PROVE IInv'
  <2>1. TypeOK'
    BY <1>2 DEF CasFlag, TypeOK, LoopPC
  <2>2. WakeBudget'
    <3>1. CASE opsFlag = 0
      <4>1. Senders' = Senders \cup {p} /\ p \notin Senders
        BY <1>2, <3>1 DEF CasFlag, Senders, TypeOK
      <4>2. Cardinality(Senders') = Cardinality(Senders) + 1
        BY <4>1, <1>S, FS_AddElement
      <4> QED
        BY <1>2, <1>N, <1>S, <3>1, <4>2 DEF CasFlag, WakeBudget, TypeOK
    <3>2. CASE opsFlag = 1
      <4>1. Senders' = Senders
        BY <1>2, <3>2 DEF CasFlag, Senders, TypeOK
      <4> QED
        BY <1>2, <1>N, <1>S, <3>2, <4>1 DEF CasFlag, WakeBudget, TypeOK
    <3> QED
      BY <3>1, <3>2 DEF TypeOK
  <2>3. FlagDownServed'
    BY <1>2 DEF CasFlag, FlagDownServed, TypeOK
  <2>4. NoDangling' /\ ReadyOnlyInEvents'
    BY <1>2 DEF CasFlag, NoDangling, ReadyOnlyInEvents, InMap, TypeOK
  <2> QED
    BY <2>1, <2>2, <2>3, <2>4
<1>3. ASSUME NEW p \in Producers, SendCtl(p) PROVE IInv'
  <2>1. TypeOK'
    BY <1>3 DEF SendCtl, TypeOK, LoopPC
  <2>2. WakeBudget'
    <3>1. Senders' = Senders \ {p} /\ p \in Senders
      BY <1>3 DEF SendCtl, Senders, TypeOK
    <3>2. Cardinality(Senders') = Cardinality(Senders) - 1
      BY <3>1, <1>S, FS_RemoveElement
    <3> QED
      BY <1>3, <1>N, <1>S, <3>2 DEF SendCtl, WakeBudget, TypeOK
  <2>3. FlagDownServed'
    BY <1>3 DEF SendCtl, FlagDownServed, TypeOK
  <2>4. NoDangling' /\ ReadyOnlyInEvents'
    BY <1>3 DEF SendCtl, NoDangling, ReadyOnlyInEvents, InMap, TypeOK
  <2> QED
    BY <2>1, <2>2, <2>3, <2>4
<1>4. ASSUME NEW p \in Producers, Stop(p) PROVE IInv'
  <2>1. TypeOK'
    BY <1>4 DEF Stop, TypeOK, LoopPC
  <2>2. WakeBudget'
    <3>1. Senders' = Senders
      BY <1>4 DEF Stop, Senders, TypeOK
    <3> QED
      BY <1>4, <1>N, <1>S, <3>1 DEF Stop, WakeBudget, TypeOK
  <2>3. FlagDownServed'
    BY <1>4 DEF Stop, FlagDownServed, TypeOK
  <2>4. NoDangling' /\ ReadyOnlyInEvents'
    BY <1>4 DEF Stop, NoDangling, ReadyOnlyInEvents, InMap, TypeOK
  <2> QED
    BY <2>1, <2>2, <2>3, <2>4
<1>5. ASSUME NEW p \in Producers, PostCloseAll(p) PROVE IInv'
  <2>1. TypeOK'
    BY <1>5 DEF PostCloseAll, Append1, Op, TypeOK, LoopPC
  <2>2. WakeBudget'
    <3>1. Senders' = Senders
      BY <1>5 DEF PostCloseAll, Append1, Op, Senders, TypeOK
    <3> QED
      BY <1>5, <1>N, <1>S, <3>1 DEF PostCloseAll, Append1, Op, WakeBudget, TypeOK
  <2>3. FlagDownServed'
    BY <1>5 DEF PostCloseAll, Append1, Op, FlagDownServed, TypeOK
  <2>4. NoDangling' /\ ReadyOnlyInEvents'
    BY <1>5 DEF PostCloseAll, Append1, Op, NoDangling, ReadyOnlyInEvents, InMap, TypeOK
  <2> QED
    BY <2>1, <2>2, <2>3, <2>4
<1>6. CASE RunStart
  <2>1. TypeOK'
    BY <1>6 DEF RunStart, TypeOK, LoopPC
  <2>2. WakeBudget'
    <3>1. Senders' = Senders
      BY <1>6 DEF RunStart, Senders, TypeOK
    <3> QED
      BY <1>6, <1>N, <1>S, <3>1 DEF RunStart, WakeBudget, TypeOK
  <2>3. FlagDownServed'
    BY <1>6 DEF RunStart, FlagDownServed, TypeOK
  <2>4. NoDangling' /\ ReadyOnlyInEvents'
    BY <1>6 DEF RunStart, NoDangling, ReadyOnlyInEvents, InMap, TypeOK
  <2> QED
    BY <2>1, <2>2, <2>3, <2>4
<1>7. CASE ResetFlag
  <2>1. TypeOK'
    BY <1>7 DEF ResetFlag, TypeOK, LoopPC
  <2>2. WakeBudget'
    <3>1. Senders' = Senders
      BY <1>7 DEF ResetFlag, Senders, TypeOK
    <3> QED
      BY <1>7, <1>N, <1>S, <3>1 DEF ResetFlag, WakeBudget, TypeOK
  <2>3. FlagDownServed'
    BY <1>7 DEF ResetFlag, FlagDownServed, TypeOK
  <2>4. NoDangling' /\ ReadyOnlyInEvents'
    BY <1>7 DEF ResetFlag, NoDangling, ReadyOnlyInEvents, InMap, TypeOK
  <2> QED
    BY <2>1, <2>2, <2>3, <2>4
<1>8. CASE RecvCtl
  <2>1. TypeOK'
    BY <1>8, ConstantsAssumption DEF RecvCtl, TypeOK, LoopPC
  <2>2. WakeBudget'
    <3>1. Senders' = Senders
      BY <1>8 DEF RecvCtl, Senders
    <3>2. ctl' = 0
      BY <1>8, <1>N, <1>S, ConstantsAssumption DEF RecvCtl, WakeBudget, TypeOK
    <3> QED
      BY <1>8, <1>N, <1>S, <3>1, <3>2 DEF RecvCtl, WakeBudget, TypeOK
  <2>3. FlagDownServed'
    BY <1>8 DEF RecvCtl, FlagDownServed, TypeOK
  <2>4. NoDangling' /\ ReadyOnlyInEvents'
    BY <1>8 DEF RecvCtl, NoDangling, ReadyOnlyInEvents, InMap, TypeOK
  <2> QED
    BY <2>1, <2>2, <2>3, <2>4
<1>9. CASE DrainOp
  <2>0. Head(ops) \in Op /\ Tail(ops) \in Seq(Op) /\ Process(Head(ops))
    BY <1>9 DEF DrainOp, TypeOK
  <2>E. /\ con' \in [Conns -> {"new", "queued", "live", "closing", "gone"}]
        /\ timer' \in [Conns -> {"off", "armed", "due"}]
        /\ \A c \in Conns : timer'[c] # "off" => con'[c] = "live"
    BY <2>0, ProcessEffect
  <2>1. TypeOK'
    BY <1>9, <2>0, <2>E DEF DrainOp, TypeOK, LoopPC
  <2>2. WakeBudget'
    <3>1. Senders' = Senders
      BY <1>9 DEF DrainOp, Senders, TypeOK
    <3> QED
      BY <1>9, <1>N, <1>S, <3>1 DEF DrainOp, WakeBudget, TypeOK
  <2>3. FlagDownServed'
    BY <1>9 DEF DrainOp, FlagDownServed, TypeOK
  <2>4. NoDangling' /\ ReadyOnlyInEvents'
    BY <1>9, <2>E DEF DrainOp, NoDangling, ReadyOnlyInEvents
  <2> QED
    BY <2>1, <2>2, <2>3, <2>4
<1>10. CASE OpsEmpty
  <2>1. TypeOK'
    BY <1>10 DEF OpsEmpty, TypeOK, LoopPC
  <2>2. WakeBudget'
    <3>1. Senders' = Senders
      BY <1>10 DEF OpsEmpty, Senders, TypeOK
    <3> QED
      BY <1>10, <1>N, <1>S, <3>1 DEF OpsEmpty, WakeBudget, TypeOK
  <2>3. FlagDownServed'
    BY <1>10 DEF OpsEmpty, FlagDownServed, TypeOK
  <2>4. NoDangling' /\ ReadyOnlyInEvents'
    BY <1>10 DEF OpsEmpty, NoDangling, ReadyOnlyInEvents, InMap, TypeOK
  <2> QED
    BY <2>1, <2>2, <2>3, <2>4
<1>11. CASE ProcessTimers
  <2>1. TypeOK'
    BY <1>11 DEF ProcessTimers, Rearmed, SafeCloseThese, Due, TypeOK, LoopPC
  <2>2. WakeBudget'
    <3>1. Senders' = Senders
      BY <1>11 DEF ProcessTimers, Rearmed, SafeCloseThese, Due, Senders, TypeOK
    <3> QED
      BY <1>11, <1>N, <1>S, <3>1 DEF ProcessTimers, Rearmed, SafeCloseThese, Due, WakeBudget, TypeOK
  <2>3. FlagDownServed'
    BY <1>11 DEF ProcessTimers, Rearmed, SafeCloseThese, Due, FlagDownServed, TypeOK
  <2>4. NoDangling' /\ ReadyOnlyInEvents'
    BY <1>11 DEF ProcessTimers, Rearmed, SafeCloseThese, Due, NoDangling, ReadyOnlyInEvents, InMap, TypeOK
  <2> QED
    BY <2>1, <2>2, <2>3, <2>4
<1>12. CASE CheckExit
  <2>1. TypeOK'
    BY <1>12 DEF CheckExit, TypeOK, LoopPC
  <2>2. WakeBudget'
    <3>1. Senders' = Senders
      BY <1>12 DEF CheckExit, Senders, TypeOK
    <3> QED
      BY <1>12, <1>N, <1>S, <3>1 DEF CheckExit, WakeBudget, TypeOK
  <2>3. FlagDownServed'
    BY <1>12 DEF CheckExit, FlagDownServed, TypeOK
  <2>4. NoDangling' /\ ReadyOnlyInEvents'
    BY <1>12 DEF CheckExit, NoDangling, ReadyOnlyInEvents, InMap, TypeOK
  <2> QED
    BY <2>1, <2>2, <2>3, <2>4
<1>13. CASE WakeCtl
  <2>1. TypeOK'
    BY <1>13 DEF WakeCtl, TypeOK, LoopPC
  <2>2. WakeBudget'
    <3>1. Senders' = Senders
      BY <1>13 DEF WakeCtl, Senders, TypeOK
    <3> QED
      BY <1>13, <1>N, <1>S, <3>1 DEF WakeCtl, WakeBudget, TypeOK
  <2>3. FlagDownServed'
    BY <1>13 DEF WakeCtl, FlagDownServed, TypeOK
  <2>4. NoDangling' /\ ReadyOnlyInEvents'
    BY <1>13 DEF WakeCtl, NoDangling, ReadyOnlyInEvents, InMap, TypeOK
  <2> QED
    BY <2>1, <2>2, <2>3, <2>4
<1>14. CASE WakeTimeout
  <2>1. TypeOK'
    BY <1>14 DEF WakeTimeout, TypeOK, LoopPC
  <2>2. WakeBudget'
    <3>1. Senders' = Senders
      BY <1>14 DEF WakeTimeout, Senders, TypeOK
    <3> QED
      BY <1>14, <1>N, <1>S, <3>1 DEF WakeTimeout, WakeBudget, TypeOK
  <2>3. FlagDownServed'
    BY <1>14 DEF WakeTimeout, FlagDownServed, TypeOK
  <2>4. NoDangling' /\ ReadyOnlyInEvents'
    BY <1>14 DEF WakeTimeout, NoDangling, ReadyOnlyInEvents, InMap, TypeOK
  <2> QED
    BY <2>1, <2>2, <2>3, <2>4
<1>15. CASE WakeEvents
  <2>1. TypeOK'
    BY <1>15 DEF WakeEvents, InMap, TypeOK, LoopPC
  <2>2. WakeBudget'
    <3>1. Senders' = Senders
      BY <1>15 DEF WakeEvents, InMap, Senders, TypeOK
    <3> QED
      BY <1>15, <1>N, <1>S, <3>1 DEF WakeEvents, InMap, WakeBudget, TypeOK
  <2>3. FlagDownServed'
    BY <1>15 DEF WakeEvents, InMap, FlagDownServed, TypeOK
  <2>4. NoDangling' /\ ReadyOnlyInEvents'
    BY <1>15 DEF WakeEvents, InMap, NoDangling, ReadyOnlyInEvents, TypeOK
  <2> QED
    BY <2>1, <2>2, <2>3, <2>4
<1>16. ASSUME NEW c \in Conns, HandleEvent(c) PROVE IInv'
  <2>1. TypeOK'
    BY <1>16 DEF HandleEvent, TypeOK, LoopPC
  <2>2. WakeBudget'
    <3>1. Senders' = Senders
      BY <1>16 DEF HandleEvent, Senders, TypeOK
    <3> QED
      BY <1>16, <1>N, <1>S, <3>1 DEF HandleEvent, WakeBudget, TypeOK
  <2>3. FlagDownServed'
    BY <1>16 DEF HandleEvent, FlagDownServed, TypeOK
  <2>4. NoDangling' /\ ReadyOnlyInEvents'
    BY <1>16 DEF HandleEvent, NoDangling, ReadyOnlyInEvents, InMap, TypeOK
  <2> QED
    BY <2>1, <2>2, <2>3, <2>4
<1>17. CASE EventsDone
  <2>1. TypeOK'
    BY <1>17 DEF EventsDone, TypeOK, LoopPC
  <2>2. WakeBudget'
    <3>1. Senders' = Senders
      BY <1>17 DEF EventsDone, Senders, TypeOK
    <3> QED
      BY <1>17, <1>N, <1>S, <3>1 DEF EventsDone, WakeBudget, TypeOK
  <2>3. FlagDownServed'
    BY <1>17 DEF EventsDone, FlagDownServed, TypeOK
  <2>4. NoDangling' /\ ReadyOnlyInEvents'
    BY <1>17 DEF EventsDone, NoDangling, ReadyOnlyInEvents, InMap, TypeOK
  <2> QED
    BY <2>1, <2>2, <2>3, <2>4
<1>18. ASSUME NEW c \in Conns, Tick(c) PROVE IInv'
  <2>1. TypeOK'
    BY <1>18 DEF Tick, TypeOK, LoopPC
  <2>2. WakeBudget'
    <3>1. Senders' = Senders
      BY <1>18 DEF Tick, Senders, TypeOK
    <3> QED
      BY <1>18, <1>N, <1>S, <3>1 DEF Tick, WakeBudget, TypeOK
  <2>3. FlagDownServed'
    BY <1>18 DEF Tick, FlagDownServed, TypeOK
  <2>4. NoDangling' /\ ReadyOnlyInEvents'
    BY <1>18 DEF Tick, NoDangling, ReadyOnlyInEvents, InMap, TypeOK
  <2> QED
    BY <2>1, <2>2, <2>3, <2>4
<1>19. CASE UNCHANGED vars
  BY <1>19 DEF vars, TypeOK, WakeBudget, Senders, FlagDownServed, NoDangling, ReadyOnlyInEvents, InMap
<1> QED
  BY <1>1, <1>2, <1>3, <1>4, <1>5, <1>6, <1>7, <1>8, <1>9, <1>10, <1>11, <1>12,
     <1>13, <1>14, <1>15, <1>16, <1>17, <1>18, <1>19 DEF Next, Producer, LoopStep

-----------------------------------------------------------------------------
\* The inductive invariant holds throughout.
THEOREM Inductive == Spec => []IInv
  BY InitInv, NextInv, PTL DEF Spec

\* Type correctness of the event loop, for any threads and connections.
THEOREM TypeCorrect == Spec => []TypeOK
  BY Inductive, PTL DEF IInv

\* At most one control byte per producer thread, and two more, is ever in the
\* socket of addAsynOperator, whatever the number of threads.
THEOREM CtlBound == Spec => []CtlBounded
<1>1. IInv => CtlBounded
  <2>1. /\ Cardinality(Producers) \in Nat
        /\ Cardinality(Senders) \in Nat
    BY ConstantsAssumption, FS_Subset, FS_CardinalityType DEF Senders
  <2> QED
    BY <2>1 DEF IInv, WakeBudget, CtlBounded, TypeOK
<1> QED
  BY <1>1, Inductive, PTL

\* processOps leaves no operator behind under a lowered flag.
THEOREM FlagDown == Spec => []FlagDownServed
  BY Inductive, PTL DEF IInv

\* No event and no timer refers to a connection that has been recycled.
THEOREM PointersValid == Spec => []NoDangling
  BY Inductive, PTL DEF IInv

-----------------------------------------------------------------------------
(* LoopBuf: what each operation does to the bytes in the buffer            *)

\* A frame, a buffer, and what the operations of LoopBuf keep true of them.
Frame == [cap : Nat \ {0}, start : Nat, data : Seq(Int)]
Buf == [frames : Seq(Frame), w : Nat, size : Nat]

FrameSound(f) == f \in Frame /\ f.start + Len(f.data) <= f.cap /\ (f.data = <<>> => f.start = 0)

Sound(b) ==
    /\ b \in Buf /\ b.w \in 1 .. Len(b.frames)
    /\ \A i \in 1 .. Len(b.frames) : FrameSound(b.frames[i])

\* The buffer b holds the bytes c: off[i] is the position in c at which the i-th frame
\* ends. All of them end by m_w_pos; a frame before m_w_pos is empty only if nothing
\* precedes it (read moves emptied frames to the tail, where m_w_pos may be).
At(b, c, off) ==
    /\ off \in [0 .. Len(b.frames) -> 0 .. Len(c)] /\ off[0] = 0
    /\ \A i \in b.w .. Len(b.frames) : off[i] = Len(c)
    /\ \A i \in 1 .. Len(b.frames) :
          off[i - 1] <= off[i] /\ b.frames[i].data = SubSeq(c, off[i - 1] + 1, off[i])
    /\ \A i \in 1 .. b.w - 1 : off[i - 1] = off[i] => off[i] = 0

Holds(b, c) == b.size = Len(c) /\ \E off : At(b, c, off)

\* A non-empty set of naturals has a least element.
LEMMA LeastNat ==
    ASSUME NEW T, T \subseteq Nat, T # {}
    PROVE  \E x \in T : \A y \in T : x <= y
<1>1. PICK x \in T : \A y \in T : ~(<<y, x>> \in OpToRel(<, Nat))
  BY NatLessThanWellFounded, WFMin, Zenon
<1>2. ASSUME NEW y \in T PROVE x <= y
  <2>1. ~(<<y, x>> \in OpToRel(<, Nat)) BY <1>1, Zenon
  <2>2. ~(y < x) BY <2>1 DEF OpToRel
  <2> QED BY <2>2
<1> QED BY <1>2

\* Induction up to n over a set: the library's rules take an operator, which no
\* prover here can instantiate.
LEMMA Induct ==
    ASSUME NEW n \in Nat, NEW T, 0 \in T, \A i \in 0 .. n - 1 : i \in T => i + 1 \in T
    PROVE  \A i \in 0 .. n : i \in T
<1> SUFFICES ASSUME NEW j \in 0 .. n, j \notin T PROVE FALSE OBVIOUS
<1> DEFINE D == {i \in 0 .. n : i \notin T}
<1>0. D \subseteq Nat /\ D # {} OBVIOUS
<1> HIDE DEF D
<1>1. PICK x \in D : \A y \in D : x <= y BY <1>0, LeastNat
<1> USE DEF D
<1>2. x # 0 BY <1>1
<1>3. x - 1 \in T BY <1>1, <1>2
<1> QED BY <1>1, <1>2, <1>3

\* f is a run of m steps of G from a.
IsRun(f, S, a, G, m) ==
    /\ f \in [0 .. m -> S] /\ f[0] = a
    /\ \A i \in 1 .. m : f[i] = G[f[i - 1]]

\* A function of i that is the i-th iterate of G exists: this is what gives the
\* recursive function in Fill a meaning.
LEMMA Iterates ==
    ASSUME NEW S, NEW a \in S, NEW n \in Nat, NEW G \in [S -> S]
    PROVE  \E f : IsRun(f, S, a, G, n)
<1> DEFINE T == {m \in 0 .. n : \E f : IsRun(f, S, a, G, m)}
<1>1. 0 \in T
  <2>1. IsRun([i \in 0 .. 0 |-> a], S, a, G, 0) BY DEF IsRun
  <2> QED BY <2>1
<1>2. ASSUME NEW m \in 0 .. n - 1, m \in T PROVE m + 1 \in T
  <2>1. PICK f : IsRun(f, S, a, G, m) BY <1>2
  <2> DEFINE g == [i \in 0 .. m + 1 |-> IF i = m + 1 THEN G[f[m]] ELSE f[i]]
  <2>2. g \in [0 .. m + 1 -> S] BY <2>1 DEF IsRun
  <2>3. \A i \in 1 .. m + 1 : g[i] = G[g[i - 1]] BY <2>1 DEF IsRun
  <2>4. IsRun(g, S, a, G, m + 1) BY <2>1, <2>2, <2>3 DEF IsRun
  <2> HIDE DEF g
  <2> QED BY <2>4
<1> HIDE DEF T
<1>3. n \in T BY <1>1, <1>2, Induct
<1> QED BY <1>3 DEF T

\* A slice of a sequence: its length and its elements.
LEMMA Slice ==
    ASSUME NEW s \in Seq(Int), NEW m \in 0 .. Len(s), NEW n \in m .. Len(s)
    PROVE  /\ SubSeq(s, m + 1, n) \in Seq(Int)
           /\ Len(SubSeq(s, m + 1, n)) = n - m
           /\ \A i \in 1 .. n - m : SubSeq(s, m + 1, n)[i] = s[m + i]
<1>1. \A i \in m + 1 .. n : s[i] \in Int BY ElementOfSeq
<1>2. /\ SubSeq(s, m + 1, n) \in Seq(Int)
      /\ Len(SubSeq(s, m + 1, n)) = IF m + 1 <= n THEN n - (m + 1) + 1 ELSE 0
      /\ \A i \in 1 .. n - (m + 1) + 1 : SubSeq(s, m + 1, n)[i] = s[m + 1 + i - 1]
  <2> DEFINE k == m + 1
  <2>1. k \in Int /\ n \in Int OBVIOUS
  <2>2. \A i \in k .. n : s[i] \in Int BY <1>1
  <2> HIDE DEF k
  <2>3. /\ SubSeq(s, k, n) \in Seq(Int)
        /\ Len(SubSeq(s, k, n)) = IF k <= n THEN n - k + 1 ELSE 0
        /\ \A i \in 1 .. n - k + 1 : SubSeq(s, k, n)[i] = s[k + i - 1]
    BY <2>1, <2>2, SubSeqProperties, SMTT(30)
  <2> QED BY <2>3 DEF k
<1>3. n - (m + 1) + 1 = n - m /\ (IF m + 1 <= n THEN n - (m + 1) + 1 ELSE 0) = n - m OBVIOUS
<1>4. ASSUME NEW i \in 1 .. n - m PROVE SubSeq(s, m + 1, n)[i] = s[m + i]
  <2>1. m + 1 + i - 1 = m + i OBVIOUS
  <2>2. SubSeq(s, m + 1, n)[i] = s[m + 1 + i - 1] BY <1>2, <1>3
  <2> QED BY <2>1, <2>2
<1>5. Len(SubSeq(s, m + 1, n)) = n - m BY <1>2, <1>3
<1> QED BY <1>2, <1>4, <1>5

\* A slice of the first of two sequences is a slice of both together.
LEMMA SliceOfConcat ==
    ASSUME NEW s \in Seq(Int), NEW x \in Seq(Int), NEW m \in 0 .. Len(s), NEW n \in m .. Len(s)
    PROVE  SubSeq(s \o x, m + 1, n) = SubSeq(s, m + 1, n)
<1>1. /\ s \o x \in Seq(Int) /\ Len(s \o x) = Len(s) + Len(x)
      /\ \A i \in 1 .. Len(s) + Len(x) : (s \o x)[i] = IF i <= Len(s) THEN s[i] ELSE x[i - Len(s)]
  BY ConcatProperties
<1> DEFINE l == SubSeq(s \o x, m + 1, n)
           q == SubSeq(s, m + 1, n)
<1>2. m \in 0 .. Len(s \o x) /\ n \in m .. Len(s \o x) BY <1>1, LenProperties
<1>3. l \in Seq(Int) /\ Len(l) = n - m /\ \A i \in 1 .. n - m : l[i] = (s \o x)[m + i]
  BY <1>1, <1>2, Slice
<1>4. q \in Seq(Int) /\ Len(q) = n - m /\ \A i \in 1 .. n - m : q[i] = s[m + i] BY Slice
<1>5. \A i \in 1 .. n - m : l[i] = q[i] BY <1>1, <1>3, <1>4, LenProperties
<1> HIDE DEF l, q
<1> QED BY <1>3, <1>4, <1>5, SeqEqual DEF l, q

\* A slice up to the end grows by what is appended.
LEMMA SliceGrows ==
    ASSUME NEW s \in Seq(Int), NEW x \in Seq(Int), NEW m \in 0 .. Len(s)
    PROVE  SubSeq(s \o x, m + 1, Len(s) + Len(x)) = SubSeq(s, m + 1, Len(s)) \o x
<1>1. /\ s \o x \in Seq(Int) /\ Len(s \o x) = Len(s) + Len(x)
      /\ \A i \in 1 .. Len(s) + Len(x) : (s \o x)[i] = IF i <= Len(s) THEN s[i] ELSE x[i - Len(s)]
  BY ConcatProperties
<1>0. Len(s) \in Nat /\ Len(x) \in Nat BY LenProperties
<1> DEFINE e == Len(s) + Len(x)
           l == SubSeq(s \o x, m + 1, e)
           q == SubSeq(s, m + 1, Len(s))
<1>2. m \in 0 .. Len(s \o x) /\ e \in m .. Len(s \o x) BY <1>0, <1>1
<1> HIDE DEF e
<1>3. l \in Seq(Int) /\ Len(l) = e - m /\ \A i \in 1 .. e - m : l[i] = (s \o x)[m + i]
  BY <1>1, <1>2, Slice
<1>4. q \in Seq(Int) /\ Len(q) = Len(s) - m /\ \A i \in 1 .. Len(s) - m : q[i] = s[m + i]
  <2>1. Len(s) \in m .. Len(s) BY <1>0
  <2> QED BY <2>1, Slice
<1>5. /\ q \o x \in Seq(Int) /\ Len(q \o x) = Len(q) + Len(x)
      /\ \A i \in 1 .. Len(q) + Len(x) : (q \o x)[i] = IF i <= Len(q) THEN q[i] ELSE x[i - Len(q)]
  BY <1>4, ConcatProperties
<1> HIDE DEF l, q
<1>6. Len(l) = Len(q \o x) BY <1>0, <1>3, <1>4, <1>5 DEF e
<1>7. \A i \in 1 .. Len(l) : l[i] = (q \o x)[i]
  <2> TAKE i \in 1 .. Len(l)
  <2>1. i \in 1 .. e - m /\ m + i \in 1 .. e BY <1>0, <1>3 DEF e
  <2>2. l[i] = IF m + i <= Len(s) THEN s[m + i] ELSE x[m + i - Len(s)]
    <3>1. l[i] = (s \o x)[m + i] BY <1>3, <2>1
    <3>2. m + i \in 1 .. Len(s) + Len(x) BY <2>1 DEF e
    <3> QED BY <1>1, <3>1, <3>2
  <2>3. i \in 1 .. Len(q) + Len(x) BY <1>0, <1>4, <2>1 DEF e
  <2>4. (q \o x)[i] = IF i <= Len(q) THEN q[i] ELSE x[i - Len(q)] BY <1>5, <2>3
  <2>5. CASE m + i <= Len(s)
    <3>1. i <= Len(q) /\ i \in 1 .. Len(s) - m BY <1>0, <1>4, <2>1, <2>5
    <3>2. q[i] = s[m + i] BY <1>4, <3>1
    <3>3. l[i] = s[m + i] BY <2>2, <2>5
    <3>4. (q \o x)[i] = q[i] BY <2>4, <3>1
    <3> QED BY <3>2, <3>3, <3>4
  <2>6. CASE m + i > Len(s)
    <3>1. i - Len(q) = m + i - Len(s) BY <1>0, <1>4, <2>1
    <3>2. ~(i <= Len(q)) BY <1>0, <1>4, <2>1, <2>6
    <3>3. ~(m + i <= Len(s)) BY <1>0, <2>1, <2>6
    <3>4. l[i] = x[m + i - Len(s)] BY <2>2, <3>3
    <3>5. (q \o x)[i] = x[i - Len(q)] BY <2>4, <3>2
    <3> QED BY <3>1, <3>4, <3>5
  <2>7. (m + i <= Len(s)) \/ (m + i > Len(s)) BY <1>0, <2>1 DEF e
  <2> QED BY <2>5, <2>6, <2>7
<1>8. l = q \o x BY <1>3, <1>5, <1>6, <1>7, SeqEqual
<1> QED BY <1>8 DEF l, q, e

\* A frame has room exactly when it is not full, and an empty one is not full.
LEMMA RoomNat ==
    ASSUME NEW f, FrameSound(f)
    PROVE  Room(f) \in Nat /\ (Room(f) = 0 <=> Full(f)) /\ (f.data = <<>> => ~Full(f))
<1>1. f.cap \in Nat \ {0} /\ f.start \in Nat /\ f.data \in Seq(Int) BY DEF FrameSound, Frame
<1>2. Len(f.data) \in Nat BY <1>1, LenProperties
<1>3. f.start + Len(f.data) <= f.cap /\ (f.data = <<>> => f.start = 0) BY DEF FrameSound
<1>4. f.data = <<>> => Len(f.data) = 0 BY EmptySeq
<1>5. f.cap \in Nat /\ f.start \in Nat /\ f.start + Len(f.data) <= f.cap BY <1>1, <1>3
<1>6. Room(f) \in Nat BY <1>2, <1>5 DEF Room
<1>7. Room(f) = 0 <=> Full(f) BY <1>2, <1>5 DEF Room, Full
<1>8. ASSUME f.data = <<>> PROVE ~Full(f)
  <2>1. Len(f.data) = 0 /\ f.start = 0 BY <1>3, <1>4, <1>8
  <2>2. f.start + Len(f.data) # f.cap BY <1>1, <2>1
  <2> QED BY <2>2 DEF Full
<1> QED BY <1>6, <1>7, <1>8

\* Two bounds added.
LEMMA AddLe ==
    ASSUME NEW i \in Nat, NEW j \in Nat, NEW k \in Nat, NEW m \in Nat, NEW n \in Nat,
           i <= j + n, j <= k + m
    PROVE  i <= k + (m + n)
OBVIOUS

\* frame::write of bytes that fit.
LEMMA FeedFrame ==
    ASSUME NEW f, FrameSound(f), NEW x \in Seq(Int), Len(x) <= Room(f)
    PROVE  LET g == [f EXCEPT !.data = @ \o x]
           IN  /\ FrameSound(g) /\ g.data = f.data \o x /\ g.cap = f.cap /\ g.start = f.start
               /\ Len(g.data) = Len(f.data) + Len(x)
<1> DEFINE g == [f EXCEPT !.data = @ \o x]
<1>1. f \in Frame /\ f.data \in Seq(Int) /\ f.cap \in Nat \ {0} /\ f.start \in Nat
  BY DEF FrameSound, Frame
<1>2. g.data = f.data \o x /\ g.cap = f.cap /\ g.start = f.start BY <1>1 DEF Frame
<1>3. f.data \o x \in Seq(Int) /\ Len(f.data \o x) = Len(f.data) + Len(x) BY <1>1, ConcatProperties
<1>4. g \in Frame BY <1>1, <1>3 DEF Frame
<1>5. Len(f.data) \in Nat /\ Len(x) \in Nat BY <1>1, LenProperties
<1>6. g.start + Len(g.data) <= g.cap BY <1>1, <1>2, <1>3, <1>5 DEF Room
<1>7. g.data = <<>> => g.start = 0
  <2>1. f.data \o x = <<>> => f.data = <<>> BY <1>1, ConcatEqualIffEmpty
  <2> QED BY <1>2, <2>1 DEF FrameSound
<1> QED BY <1>2, <1>3, <1>4, <1>6, <1>7 DEF FrameSound

\* The frames of a buffer, and the buffer, whose frame at m_w_pos has been fed x.
FedList(b, x) == [b.frames EXCEPT ![b.w].data = @ \o x]
Fed(b, x) ==
    LET fs == FedList(b, x)
    IN  [frames |-> fs, w |-> IF Full(fs[b.w]) /\ b.w < Len(fs) THEN b.w + 1 ELSE b.w,
         size |-> b.size + Len(x)]

\* Only the frame at m_w_pos changes, and only its bytes.
LEMMA FedFrames ==
    ASSUME NEW b, Sound(b), NEW x \in Seq(Int), Len(x) <= Room(b.frames[b.w])
    PROVE  LET fs == FedList(b, x)
           IN  /\ fs \in Seq(Frame) /\ Len(fs) = Len(b.frames)
               /\ \A i \in 1 .. Len(b.frames) :
                     /\ FrameSound(fs[i]) /\ fs[i].cap = b.frames[i].cap
                     /\ fs[i].start = b.frames[i].start
                     /\ fs[i].data = IF i = b.w THEN b.frames[i].data \o x ELSE b.frames[i].data
               /\ Len(fs[b.w].data) = Len(b.frames[b.w].data) + Len(x)
<1> DEFINE fs == FedList(b, x)
           g == [b.frames[b.w] EXCEPT !.data = @ \o x]
<1>1. b.frames \in Seq(Frame) /\ b.w \in 1 .. Len(b.frames) /\ FrameSound(b.frames[b.w])
  BY DEF Sound, Buf
<1>2. /\ FrameSound(g) /\ g.data = b.frames[b.w].data \o x /\ g.cap = b.frames[b.w].cap
      /\ g.start = b.frames[b.w].start /\ Len(g.data) = Len(b.frames[b.w].data) + Len(x)
  BY <1>1, FeedFrame
<1>3. g \in Frame BY <1>2 DEF FrameSound
<1>4. fs = [b.frames EXCEPT ![b.w] = g] BY <1>1 DEF FedList
<1> HIDE DEF g, fs
<1>5. /\ fs \in Seq(Frame) /\ Len(fs) = Len(b.frames)
      /\ \A j \in 1 .. Len(b.frames) : fs[j] = IF j = b.w THEN g ELSE b.frames[j]
  BY <1>1, <1>3, <1>4, ExceptSeq
<1>6. \A i \in 1 .. Len(b.frames) :
          /\ FrameSound(fs[i]) /\ fs[i].cap = b.frames[i].cap
          /\ fs[i].start = b.frames[i].start
          /\ fs[i].data = IF i = b.w THEN b.frames[i].data \o x ELSE b.frames[i].data
  BY <1>1, <1>2, <1>5 DEF Sound
<1>7. Len(fs[b.w].data) = Len(b.frames[b.w].data) + Len(x) BY <1>1, <1>2, <1>5
<1> QED BY <1>5, <1>6, <1>7 DEF fs

\* Feeding the frame at m_w_pos keeps the list sound.
LEMMA FeedSound ==
    ASSUME NEW b, Sound(b), NEW x \in Seq(Int), Len(x) <= Room(b.frames[b.w])
    PROVE  Sound(Fed(b, x))
<1> DEFINE fs == FedList(b, x)
           v == IF Full(fs[b.w]) /\ b.w < Len(fs) THEN b.w + 1 ELSE b.w
<1>1. /\ fs \in Seq(Frame) /\ Len(fs) = Len(b.frames)
      /\ \A i \in 1 .. Len(b.frames) : FrameSound(fs[i])
  BY FedFrames
<1>2. Len(x) \in Nat /\ Len(b.frames) \in Nat /\ b.w \in 1 .. Len(b.frames) /\ b.size \in Nat
  BY LenProperties DEF Sound, Buf
<1>3. Fed(b, x) = [frames |-> fs, w |-> v, size |-> b.size + Len(x)] BY DEF Fed
<1> HIDE DEF fs
<1>4. v \in 1 .. Len(fs) BY <1>1, <1>2
<1> HIDE DEF v
<1>5. v \in Nat /\ b.size + Len(x) \in Nat BY <1>1, <1>2, <1>4
<1> QED BY <1>1, <1>3, <1>4, <1>5 DEF Sound, Buf

\* Feeding the frame at m_w_pos appends to what the buffer holds.
LEMMA FeedHolds ==
    ASSUME NEW b, Sound(b), NEW c \in Seq(Int), Holds(b, c),
           NEW x \in Seq(Int), x # <<>>, Len(x) <= Room(b.frames[b.w])
    PROVE  Holds(Fed(b, x), c \o x)
<1> DEFINE fs == FedList(b, x)
           v == IF Full(fs[b.w]) /\ b.w < Len(fs) THEN b.w + 1 ELSE b.w
           num == Len(b.frames)
           d == c \o x
<1>1. /\ fs \in Seq(Frame) /\ Len(fs) = num
      /\ \A i \in 1 .. num :
            fs[i].data = IF i = b.w THEN b.frames[i].data \o x ELSE b.frames[i].data
  BY FedFrames
<1>2. /\ Len(x) \in Nat /\ Len(c) \in Nat /\ num \in Nat /\ b.w \in 1 .. num
      /\ b.size = Len(c) /\ Len(x) > 0
  BY LenProperties, EmptySeq DEF Sound, Buf, Holds
<1>3. d \in Seq(Int) /\ Len(d) = Len(c) + Len(x) BY ConcatProperties
<1>4. Fed(b, x).frames = fs /\ Fed(b, x).w = v /\ Fed(b, x).size = b.size + Len(x) BY DEF Fed
<1>5. PICK off : At(b, c, off) BY DEF Holds
<1> DEFINE new == [i \in 0 .. num |-> IF i < b.w THEN off[i] ELSE Len(d)]
<1>6. v \in {b.w, b.w + 1} /\ v \in 1 .. num BY <1>1, <1>2
<1> HIDE DEF fs, v, num, d
<1>a. off \in [0 .. num -> 0 .. Len(c)] /\ off[0] = 0 BY <1>5 DEF At, num
<1>b. \A i \in b.w .. num : off[i] = Len(c) BY <1>5 DEF At, num
<1>c. \A i \in 1 .. num :
          off[i - 1] <= off[i] /\ b.frames[i].data = SubSeq(c, off[i - 1] + 1, off[i])
  BY <1>5 DEF At, num
<1>d. \A i \in 1 .. b.w - 1 : off[i - 1] = off[i] => off[i] = 0 BY <1>5 DEF At, num
<1>7. new \in [0 .. num -> 0 .. Len(d)] /\ new[0] = 0
  <2>1. ASSUME NEW i \in 0 .. num PROVE off[i] \in 0 .. Len(d)
    <3>1. off[i] \in 0 .. Len(c) BY <1>a
    <3>2. Len(c) \in Nat /\ Len(x) \in Nat /\ Len(d) = Len(c) + Len(x) BY <1>2, <1>3
    <3> HIDE DEF new
    <3> QED BY <3>1, <3>2
  <2>2. Len(d) \in 0 .. Len(d) BY <1>2, <1>3
  <2> QED BY <1>a, <1>2, <2>1, <2>2
<1>8. \A i \in v .. num : new[i] = Len(d) BY <1>2, <1>6
<1>9. ASSUME NEW i \in 1 .. num
      PROVE  new[i - 1] <= new[i] /\ fs[i].data = SubSeq(d, new[i - 1] + 1, new[i])
  <2>0. i \in 0 .. num /\ i - 1 \in 0 .. num /\ off[i - 1] \in 0 .. Len(c) /\ off[i] \in 0 .. Len(c)
    BY <1>2, <1>a
  <2>1. CASE i < b.w
    <3>1. new[i - 1] = off[i - 1] /\ new[i] = off[i] BY <2>0, <2>1, <1>2
    <3>2. fs[i].data = SubSeq(c, off[i - 1] + 1, off[i])
      <4>0. i # b.w BY <1>2, <2>1
      <4>1. fs[i].data = b.frames[i].data BY <1>1, <4>0
      <4> QED BY <4>1, <1>c
    <3>3. off[i] \in off[i - 1] .. Len(c) BY <2>0, <1>c
    <3>4. SubSeq(c, off[i - 1] + 1, off[i]) = SubSeq(d, off[i - 1] + 1, off[i])
      BY <2>0, <3>3, SliceOfConcat DEF d
    <3> QED BY <3>1, <3>2, <3>4, <1>c
  <2>2. CASE i = b.w
    <3>1. new[i - 1] = off[i - 1] /\ new[i] = Len(d) /\ off[i] = Len(c) BY <2>0, <2>2, <1>2, <1>b
    <3>2. fs[i].data = SubSeq(c, off[i - 1] + 1, Len(c)) \o x BY <1>1, <1>c, <2>2, <3>1
    <3>3. SubSeq(c, off[i - 1] + 1, Len(c)) \o x = SubSeq(d, off[i - 1] + 1, Len(d))
      BY <2>0, <1>3, SliceGrows DEF d
    <3>4. off[i - 1] <= Len(d) BY <1>2, <1>3, <2>0
    <3> QED BY <3>1, <3>2, <3>3, <3>4
  <2>3. CASE i > b.w
    <3>1. new[i - 1] = Len(d) /\ new[i] = Len(d) BY <2>0, <2>3, <1>2
    <3>2. off[i - 1] = Len(c) /\ off[i] = Len(c) BY <1>2, <1>b, <2>3, <2>0
    <3>3. fs[i].data = SubSeq(c, Len(c) + 1, Len(c))
      <4>1. fs[i].data = b.frames[i].data BY <1>1, <1>2, <2>3
      <4> QED BY <4>1, <1>c, <3>2
    <3>4. SubSeq(c, Len(c) + 1, Len(c)) = <<>> BY <1>2, SubSeqEmpty
    <3>5. SubSeq(d, Len(d) + 1, Len(d)) = <<>> BY <1>2, <1>3, SubSeqEmpty
    <3>6. Len(d) <= Len(d) BY <1>2, <1>3
    <3> QED BY <3>1, <3>3, <3>4, <3>5, <3>6
  <2>4. i < b.w \/ i = b.w \/ i > b.w BY <1>2
  <2> QED BY <2>1, <2>2, <2>3, <2>4
<1>10. ASSUME NEW i \in 1 .. v - 1, new[i - 1] = new[i] PROVE new[i] = 0
  <2>0. i \in 0 .. num /\ i - 1 \in 0 .. num /\ off[i - 1] \in 0 .. Len(c) /\ off[i] \in 0 .. Len(c)
    BY <1>2, <1>a, <1>6
  <2>1. CASE i < b.w
    <3>1. new[i - 1] = off[i - 1] /\ new[i] = off[i] BY <2>0, <2>1, <1>2
    <3>2. i \in 1 .. b.w - 1 BY <1>2, <1>6, <2>1
    <3>3. off[i - 1] = off[i] BY <3>1, <1>10
    <3> QED BY <3>1, <3>2, <3>3, <1>d
  <2>2. CASE i = b.w
    <3>1. new[i - 1] = off[i - 1] /\ new[i] = Len(d) BY <2>0, <2>2, <1>2
    <3> QED BY <3>1, <1>2, <1>3, <2>0, <1>10
  <2> QED BY <2>1, <2>2, <1>2, <1>6
<1> HIDE DEF new
<1>11. At(Fed(b, x), d, new) BY <1>1, <1>4, <1>7, <1>8, <1>9, <1>10 DEF At
<1>12. Fed(b, x).size = Len(d) BY <1>2, <1>3, <1>4
<1> QED BY <1>11, <1>12 DEF Holds, d

\* What the loop of write keeps true of r after some turns, starting from b and s.
Written(b, s, r) == Len(s) - Len(r.rest)
Now(b, s, r) == [frames |-> r.frames, w |-> r.w, size |-> b.size + Written(b, s, r)]

Filling(b, c, s, r) ==
    /\ r \in [frames : Seq(Frame), w : Nat, rest : Seq(Int)]
    /\ Len(r.rest) <= Len(s) /\ r.rest = SubSeq(s, Written(b, s, r) + 1, Len(s))
    /\ Sound(Now(b, s, r)) /\ Holds(Now(b, s, r), c \o SubSeq(s, 1, Written(b, s, r)))
    /\ Len(r.frames) = Len(b.frames)
    /\ \A i \in 1 .. Len(b.frames) :
          /\ r.frames[i].cap = b.frames[i].cap /\ r.frames[i].start = b.frames[i].start
          /\ Len(r.frames[i].data) <= Len(b.frames[i].data) + Written(b, s, r)
    /\ \/ Written(b, s, r) = 0 /\ r.frames = b.frames /\ r.w = b.w
       \/ /\ Full(r.frames[r.w]) => r.w = Len(b.frames)
          /\ r.rest = <<>> \/ Written(b, s, r) >= Room(b.frames[b.w])

\* The loop of write starts with nothing written.
LEMMA FillBegins ==
    ASSUME NEW b, Sound(b), NEW c \in Seq(Int), Holds(b, c), NEW s \in Seq(Int)
    PROVE  Filling(b, c, s, [frames |-> b.frames, w |-> b.w, rest |-> s])
<1> DEFINE r == [frames |-> b.frames, w |-> b.w, rest |-> s]
<1>1. b \in Buf /\ b.frames \in Seq(Frame) /\ b.w \in Nat /\ b.size \in Nat BY DEF Sound, Buf
<1>2. Len(s) \in Nat BY LenProperties
<1>3. r.frames = b.frames /\ r.w = b.w /\ r.rest = s OBVIOUS
<1>4. r \in [frames : Seq(Frame), w : Nat, rest : Seq(Int)] BY <1>1
<1> HIDE DEF r
<1>5. Written(b, s, r) = 0 BY <1>2, <1>3 DEF Written
<1>6. Now(b, s, r) = b
  <2>1. Now(b, s, r) = [frames |-> b.frames, w |-> b.w, size |-> b.size] BY <1>1, <1>3, <1>5 DEF Now
  <2> QED BY <1>1, <2>1 DEF Buf
<1>7. SubSeq(s, 1, 0) = <<>> /\ SubSeq(s, 0 + 1, Len(s)) = s BY SubSeqEmpty, SubSeqFull
<1>8. c \o SubSeq(s, 1, 0) = c BY <1>7, ConcatEmptySeq
<1>9. \A i \in 1 .. Len(b.frames) : Len(b.frames[i].data) <= Len(b.frames[i].data) + 0
  <2> TAKE i \in 1 .. Len(b.frames)
  <2>1. b.frames[i].data \in Seq(Int) BY DEF Sound, FrameSound, Frame
  <2>2. Len(b.frames[i].data) \in Nat BY <2>1, LenProperties
  <2> QED BY <2>2
<1>10. Len(r.rest) <= Len(s) BY <1>2, <1>3
<1>11. r.rest = SubSeq(s, Written(b, s, r) + 1, Len(s)) BY <1>3, <1>5, <1>7
<1>12. Holds(Now(b, s, r), c \o SubSeq(s, 1, Written(b, s, r))) BY <1>5, <1>6, <1>8
<1>13. \A i \in 1 .. Len(b.frames) :
          /\ r.frames[i].cap = b.frames[i].cap /\ r.frames[i].start = b.frames[i].start
          /\ Len(r.frames[i].data) <= Len(b.frames[i].data) + Written(b, s, r)
  BY <1>3, <1>5, <1>9
<1> QED BY <1>3, <1>4, <1>5, <1>6, <1>10, <1>11, <1>12, <1>13 DEF Filling, r

\* A slice of a slice is a slice.
LEMMA SliceOfSlice ==
    ASSUME NEW s \in Seq(Int), NEW m \in 0 .. Len(s), NEW n \in m .. Len(s),
           NEW i \in 0 .. n - m, NEW j \in i .. n - m
    PROVE  SubSeq(SubSeq(s, m + 1, n), i + 1, j) = SubSeq(s, m + i + 1, m + j)
<1> DEFINE q == SubSeq(s, m + 1, n)
           l == SubSeq(q, i + 1, j)
           v == SubSeq(s, m + i + 1, m + j)
<1>0. Len(s) \in Nat BY LenProperties
<1>1. q \in Seq(Int) /\ Len(q) = n - m /\ \A k \in 1 .. n - m : q[k] = s[m + k] BY Slice
<1> HIDE DEF q
<1>2. i \in 0 .. Len(q) /\ j \in i .. Len(q) BY <1>0, <1>1
<1>3. l \in Seq(Int) /\ Len(l) = j - i /\ \A k \in 1 .. j - i : l[k] = q[i + k] BY <1>1, <1>2, Slice
<1>4. m + i \in 0 .. Len(s) /\ m + j \in m + i .. Len(s) BY <1>0
<1>5. /\ v \in Seq(Int) /\ Len(v) = (m + j) - (m + i)
      /\ \A k \in 1 .. (m + j) - (m + i) : v[k] = s[m + i + k]
  BY <1>4, Slice
<1> HIDE DEF l, v
<1>6. Len(l) = Len(v) BY <1>0, <1>3, <1>5
<1>7. ASSUME NEW k \in 1 .. Len(l) PROVE l[k] = v[k]
  <2>1. k \in 1 .. j - i /\ i + k \in 1 .. n - m /\ k \in 1 .. (m + j) - (m + i) BY <1>0, <1>3
  <2>2. l[k] = q[i + k] /\ q[i + k] = s[m + (i + k)] BY <1>1, <1>3, <2>1
  <2>3. v[k] = s[m + i + k] BY <1>5, <2>1
  <2>4. m + (i + k) = m + i + k BY <1>0, <2>1
  <2> QED BY <2>2, <2>3, <2>4
<1> QED BY <1>3, <1>5, <1>6, <1>7, SeqEqual DEF l, q, v

\* The frames after m_w_pos are empty.
LEMMA EmptyAfter ==
    ASSUME NEW b, Sound(b), NEW c \in Seq(Int), Holds(b, c), NEW i \in b.w + 1 .. Len(b.frames)
    PROVE  b.frames[i].data = <<>> /\ ~Full(b.frames[i])
<1>1. PICK off : At(b, c, off) BY DEF Holds
<1>2. b.w \in 1 .. Len(b.frames) /\ Len(b.frames) \in Nat /\ Len(c) \in Nat
  BY LenProperties DEF Sound, Buf
<1>3. i \in b.w .. Len(b.frames) /\ i - 1 \in b.w .. Len(b.frames) /\ i \in 1 .. Len(b.frames) BY <1>2
<1>4. off[i] = Len(c) /\ off[i - 1] = Len(c) BY <1>1, <1>3 DEF At
<1>5. b.frames[i].data = SubSeq(c, off[i - 1] + 1, off[i]) BY <1>1, <1>3 DEF At
<1>6. b.frames[i].data = <<>> BY <1>2, <1>4, <1>5, SubSeqEmpty
<1>7. FrameSound(b.frames[i]) BY <1>3 DEF Sound
<1>8. ~Full(b.frames[i]) BY <1>6, <1>7 DEF FrameSound, Frame, Full
<1> QED BY <1>6, <1>8

\* A turn of the loop of write keeps Filling, and writes something unless there is
\* nothing left or no room.
LEMMA FillGoesOn ==
    ASSUME NEW b, Sound(b), NEW c \in Seq(Int), NEW s \in Seq(Int), NEW r, Filling(b, c, s, r)
    PROVE  /\ Filling(b, c, s, FillTurn(r))
           /\ \/ FillTurn(r) = r /\ (r.rest = <<>> \/ Full(r.frames[r.w]))
              \/ Len(FillTurn(r).rest) < Len(r.rest)
<1>1. CASE r.rest = <<>> \/ Full(r.frames[r.w]) BY <1>1 DEF FillTurn
<1>2. CASE ~(r.rest = <<>> \/ Full(r.frames[r.w]))
  <2> DEFINE p == Now(b, s, r)
             t == Written(b, s, r)
             num == Len(b.frames)
             n == Min2(Room(r.frames[r.w]), Len(r.rest))
             x == SubSeq(r.rest, 1, n)
             y == FillTurn(r)
  <2>1. /\ r.frames \in Seq(Frame) /\ r.w \in Nat /\ r.rest \in Seq(Int) /\ Len(r.rest) <= Len(s)
        /\ Len(r.frames) = num
    BY DEF Filling
  <2>2. Len(s) \in Nat /\ Len(r.rest) \in Nat /\ num \in Nat /\ Len(r.rest) > 0
    BY <1>2, <2>1, LenProperties, EmptySeq DEF Sound, Buf
  <2>3. t \in 0 .. Len(s) /\ Len(r.rest) = Len(s) - t BY <2>1, <2>2 DEF Written
  <2>4. r.rest = SubSeq(s, t + 1, Len(s)) BY DEF Filling
  <2>5. Sound(p) /\ Holds(p, c \o SubSeq(s, 1, t)) BY DEF Filling
  <2>6. p.frames = r.frames /\ p.w = r.w /\ p.size = b.size + t BY DEF Now
  <2>7. r.w \in 1 .. num /\ FrameSound(r.frames[r.w]) BY <2>1, <2>5, <2>6 DEF Sound
  <2>8. Room(r.frames[r.w]) \in Nat \ {0} BY <1>2, <2>7, RoomNat
  <2>9. n \in 1 .. Len(r.rest) /\ n <= Room(r.frames[r.w]) BY <2>2, <2>8 DEF Min2
  <2>10. n = Room(r.frames[r.w]) \/ n = Len(r.rest) BY DEF Min2
  <2>11. y = [frames |-> Fed(p, x).frames, w |-> Fed(p, x).w, rest |-> Drop(r.rest, n)]
    BY <1>2, <2>6 DEF FillTurn, Fed, FedList
  <2> HIDE DEF n, y, p, t
  <2>12. x = SubSeq(s, t + 1, t + n) /\ x \in Seq(Int) /\ Len(x) = n
    <3>1. Len(s) \in t .. Len(s) /\ 0 \in 0 .. Len(s) - t /\ n \in 0 .. Len(s) - t BY <2>2, <2>3, <2>9
    <3>2. SubSeq(SubSeq(s, t + 1, Len(s)), 0 + 1, n) = SubSeq(s, t + 0 + 1, t + n)
      BY <2>3, <3>1, SliceOfSlice
    <3>3. t + n \in t .. Len(s) BY <2>2, <2>3, <2>9
    <3> DEFINE e == t + n
    <3>4. e \in t .. Len(s) /\ e - t = n BY <3>3, <2>2, <2>3, <2>9
    <3> HIDE DEF e
    <3>5. SubSeq(s, t + 1, e) \in Seq(Int) /\ Len(SubSeq(s, t + 1, e)) = e - t
      BY <2>3, <3>4, Slice
    <3>6. t + 0 + 1 = t + 1 /\ 0 + 1 = 1 BY <2>3, <2>2
    <3> QED BY <2>4, <3>2, <3>4, <3>5, <3>6 DEF e, x
  <2>13. Drop(r.rest, n) = SubSeq(s, t + n + 1, Len(s)) /\ Drop(r.rest, n) \in Seq(Int)
         /\ Len(Drop(r.rest, n)) = Len(s) - (t + n)
    <3>1. Len(s) \in t .. Len(s) /\ n \in 0 .. Len(s) - t /\ Len(s) - t \in n .. Len(s) - t
      BY <2>2, <2>3, <2>9
    <3>2. SubSeq(SubSeq(s, t + 1, Len(s)), n + 1, Len(s) - t) = SubSeq(s, t + n + 1, t + (Len(s) - t))
      BY <2>3, <3>1, SliceOfSlice
    <3>3. t + (Len(s) - t) = Len(s) BY <2>2, <2>3
    <3>4. Drop(r.rest, n) = SubSeq(s, t + n + 1, Len(s)) BY <2>3, <2>4, <3>2, <3>3 DEF Drop
    <3>5. t + n \in 0 .. Len(s) /\ Len(s) \in t + n .. Len(s) BY <2>2, <2>3, <2>9, SMTT(30)
    <3>6. SubSeq(s, t + n + 1, Len(s)) \in Seq(Int) /\ Len(SubSeq(s, t + n + 1, Len(s))) = Len(s) - (t + n)
      BY <3>5, Slice
    <3> QED BY <3>4, <3>6
  <2> HIDE DEF x
  <2>14. c \o SubSeq(s, 1, t) \in Seq(Int) /\ (c \o SubSeq(s, 1, t)) \o x = c \o SubSeq(s, 1, t + n)
    <3>1. 0 \in 0 .. Len(s) /\ t \in 0 .. Len(s) BY <2>2, <2>3
    <3>2. SubSeq(s, 0 + 1, t) \in Seq(Int) BY <3>1, Slice
    <3>3. SubSeq(s, 1, t) \in Seq(Int) BY <3>2
    <3> DEFINE z == SubSeq(s, 1, t)
    <3> HIDE DEF z
    <3>4. (c \o z) \o x = c \o (z \o x)
      <4>1. z \in Seq(Int) BY <3>3 DEF z
      <4>2. x \in Seq(Int) BY <2>12
      <4> QED BY <4>1, <4>2, SMTT(30)
    <3>5. 1 \in 1 .. Len(s) + 1 /\ t \in 1 - 1 .. Len(s) /\ t + n \in t .. Len(s) BY <2>2, <2>3, <2>9
    <3>6. SubSeq(s, 1, t) \o SubSeq(s, t + 1, t + n) = SubSeq(s, 1, t + n)
      BY <3>5, ConcatAdjacentSubSeq
    <3> QED BY <3>3, <3>4, <3>6, <2>12, ConcatProperties DEF z
  <2>15. x # <<>> /\ Len(x) <= Room(p.frames[p.w])
    <3>1. Len(x) > 0 /\ Len(x) <= Room(p.frames[p.w]) BY <2>6, <2>9, <2>12, <2>2
    <3> QED BY <3>1, EmptySeq
  <2>16. Sound(Fed(p, x)) BY <2>5, <2>12, <2>15, FeedSound
  <2>17. Holds(Fed(p, x), c \o SubSeq(s, 1, t + n)) BY <2>5, <2>12, <2>14, <2>15, FeedHolds
  <2>18. /\ Fed(p, x).frames \in Seq(Frame) /\ Len(Fed(p, x).frames) = num
         /\ \A i \in 1 .. num :
               /\ Fed(p, x).frames[i].cap = r.frames[i].cap
               /\ Fed(p, x).frames[i].start = r.frames[i].start
               /\ Fed(p, x).frames[i].data = IF i = r.w THEN r.frames[i].data \o x
                                             ELSE r.frames[i].data
         /\ Len(Fed(p, x).frames[r.w].data) = Len(r.frames[r.w].data) + n
    <3> DEFINE fs == FedList(p, x)
    <3>1. /\ fs \in Seq(Frame) /\ Len(fs) = Len(p.frames)
          /\ \A i \in 1 .. Len(p.frames) :
                /\ FrameSound(fs[i]) /\ fs[i].cap = p.frames[i].cap
                /\ fs[i].start = p.frames[i].start
                /\ fs[i].data = IF i = p.w THEN p.frames[i].data \o x ELSE p.frames[i].data
          /\ Len(fs[p.w].data) = Len(p.frames[p.w].data) + Len(x)
      BY <2>5, <2>12, <2>15, FedFrames
    <3>2. Fed(p, x).frames = fs BY DEF Fed
    <3> HIDE DEF fs
    <3>3. Len(p.frames) = num BY <2>1, <2>6
    <3>4. fs \in Seq(Frame) /\ Len(fs) = num BY <3>1, <3>3
    <3>5. ASSUME NEW i \in 1 .. num
          PROVE  /\ FrameSound(fs[i]) /\ fs[i].cap = r.frames[i].cap /\ fs[i].start = r.frames[i].start
                 /\ fs[i].data = IF i = r.w THEN r.frames[i].data \o x ELSE r.frames[i].data
      BY <3>1, <3>3, <2>6
    <3>6. Len(fs[r.w].data) = Len(r.frames[r.w].data) + n BY <3>1, <2>6, <2>12
    <3> QED BY <3>2, <3>4, <3>5, <3>6
  <2>19. y.frames = Fed(p, x).frames /\ y.w = Fed(p, x).w /\ y.rest = Drop(r.rest, n) BY <2>11
  <2>20. Written(b, s, y) = t + n
    <3>1. Len(y.rest) = Len(s) - (t + n) BY <2>13, <2>19
    <3>2. t + n \in Nat BY <2>2, <2>3, <2>9
    <3> QED BY <3>1, <3>2, <2>2 DEF Written
  <2>21. Now(b, s, y) = Fed(p, x)
    <3>1. Fed(p, x) = [frames |-> Fed(p, x).frames, w |-> Fed(p, x).w, size |-> p.size + n]
      BY <2>12 DEF Fed
    <3>2. p.size + n = b.size + (t + n) BY <2>6, <2>3, <2>9, <2>2 DEF Sound, Buf
    <3> QED BY <3>1, <3>2, <2>19, <2>20 DEF Now
  <2>22. y \in [frames : Seq(Frame), w : Nat, rest : Seq(Int)]
    <3>1. Fed(p, x).w \in Nat BY <2>16 DEF Sound, Buf
    <3> QED BY <2>11, <2>13, <2>18, <3>1
  <2>23. Len(y.rest) <= Len(s) /\ y.rest = SubSeq(s, Written(b, s, y) + 1, Len(s))
         /\ Len(y.rest) < Len(r.rest)
    <3>1. Len(y.rest) = Len(s) - (t + n) BY <2>13, <2>19
    <3>2. t + n \in 0 .. Len(s) /\ Len(s) - (t + n) < Len(s) - t BY <2>2, <2>3, <2>9
    <3>3. y.rest = SubSeq(s, Written(b, s, y) + 1, Len(s)) BY <2>13, <2>19, <2>20
    <3> QED BY <3>1, <3>2, <3>3, <2>2, <2>3
  <2>24. ASSUME NEW i \in 1 .. num
         PROVE  /\ y.frames[i].cap = b.frames[i].cap /\ y.frames[i].start = b.frames[i].start
                /\ Len(y.frames[i].data) <= Len(b.frames[i].data) + (t + n)
    <3>1. /\ r.frames[i].cap = b.frames[i].cap /\ r.frames[i].start = b.frames[i].start
          /\ Len(r.frames[i].data) <= Len(b.frames[i].data) + t
      BY DEF Filling, t
    <3>2. b.frames[i].data \in Seq(Int) BY DEF Sound, FrameSound, Frame
    <3>3. r.frames[i].data \in Seq(Int) BY <2>1, <2>5, <2>6 DEF Sound, FrameSound, Frame
    <3>4. Len(b.frames[i].data) \in Nat /\ Len(r.frames[i].data) \in Nat BY <3>2, <3>3, LenProperties
    <3>5. Len(y.frames[i].data) <= Len(r.frames[i].data) + n
      <4>1. CASE i = r.w BY <4>1, <2>18, <2>19, <3>4, <2>9, <2>2
      <4>2. CASE i # r.w
        <5>1. y.frames[i].data = r.frames[i].data BY <4>2, <2>18, <2>19
        <5> QED BY <5>1, <3>4, <2>9, <2>2
      <4> QED BY <4>1, <4>2
    <3>6. y.frames[i].cap = b.frames[i].cap /\ y.frames[i].start = b.frames[i].start
      BY <2>18, <2>19, <3>1
    <3>7. Len(y.frames[i].data) \in Nat
      <4>1. y.frames[i].data \in Seq(Int) BY <2>16, <2>18, <2>19 DEF Sound, FrameSound, Frame
      <4> QED BY <4>1, LenProperties
    <3>8. t \in Nat /\ n \in Nat BY <2>2, <2>3, <2>9
    <3>9. Len(y.frames[i].data) <= Len(b.frames[i].data) + (t + n)
      BY <3>1, <3>4, <3>5, <3>7, <3>8, AddLe
    <3> QED BY <3>6, <3>9
  <2>25. Full(y.frames[y.w]) => y.w = num
    <3> SUFFICES ASSUME Full(y.frames[y.w]), y.w # num PROVE FALSE OBVIOUS
    <3>1. y.w = IF Full(y.frames[r.w]) /\ r.w < num THEN r.w + 1 ELSE r.w
      BY <2>6, <2>18, <2>19 DEF Fed
    <3>2. CASE y.w = r.w
      <4>1. r.w < num BY <2>7, <2>2, <3>2
      <4> QED BY <3>1, <3>2, <4>1, <2>7
    <3>3. CASE y.w = r.w + 1 /\ r.w < num
      <4>0. p.w = r.w /\ Len(p.frames) = num BY <2>1, <2>6
      <4>1. y.w \in p.w + 1 .. Len(p.frames) /\ y.w # r.w BY <3>3, <2>2, <2>7, <4>0
      <4>2. ~Full(p.frames[y.w]) /\ p.frames[y.w].data = <<>> BY <4>1, <2>5, <2>14, EmptyAfter
      <4>3. y.w \in 1 .. num BY <3>3, <2>7, <2>2
      <4>4. ~Full(y.frames[y.w]) BY <4>1, <4>2, <4>3, <2>6, <2>18, <2>19 DEF Full
      <4> QED BY <4>4
    <3> QED BY <3>1, <3>2, <3>3
  <2>26. y.rest = <<>> \/ t + n >= Room(b.frames[b.w])
    <3>0. Room(b.frames[b.w]) \in Int
      <4>1. FrameSound(b.frames[b.w]) BY DEF Sound
      <4>2. Len(b.frames[b.w].data) \in Nat BY <4>1, LenProperties DEF FrameSound, Frame
      <4> QED BY <4>1, <4>2 DEF FrameSound, Frame, Room
    <3>1. CASE t = 0 /\ r.frames = b.frames /\ r.w = b.w
      <4>1. CASE n = Room(r.frames[r.w]) BY <3>0, <3>1, <4>1
      <4>2. CASE n = Len(r.rest)
        <5>1. Len(y.rest) = 0 BY <4>2, <2>13, <2>19, <2>2, <2>3
        <5>2. y.rest \in Seq(Int) BY <2>13, <2>19
        <5> QED BY <5>1, <5>2, EmptySeq
      <4> QED BY <4>1, <4>2, <2>10
    <3>2. CASE t >= Room(b.frames[b.w]) BY <3>0, <3>2, <2>3, <2>9, <2>2
    <3> QED BY <1>2, <3>1, <3>2 DEF Filling, t
  <2>27. Filling(b, c, s, y)
    BY <2>16, <2>17, <2>18, <2>19, <2>20, <2>21, <2>22, <2>23, <2>24, <2>25, <2>26 DEF Filling
  <2> QED BY <2>23, <2>27 DEF y
<1> QED BY <1>1, <1>2

\* After Len(s) turns the loop of write has ended: nothing is left, or no room.
LEMMA FillEnds ==
    ASSUME NEW b, Sound(b), NEW c \in Seq(Int), Holds(b, c), NEW s \in Seq(Int)
    PROVE  /\ Filling(b, c, s, Fill(b, s))
           /\ Fill(b, s).rest = <<>> \/ Full(Fill(b, s).frames[Fill(b, s).w])
<1> DEFINE S == {r \in [frames : Seq(Frame), w : Nat, rest : Seq(Int)] : Filling(b, c, s, r)}
           a == [frames |-> b.frames, w |-> b.w, rest |-> s]
           G == [r \in S |-> FillTurn(r)]
           n == Len(s)
           turn[i \in 0 .. n] == IF i = 0 THEN a ELSE FillTurn(turn[i - 1])
<1>0. n \in Nat BY LenProperties
<1>1. Fill(b, s) = turn[n] BY DEF Fill
<1>2. a \in S BY FillBegins DEF Filling
<1>3. ASSUME NEW r \in S PROVE FillTurn(r) \in S
  <2>1. Filling(b, c, s, FillTurn(r)) BY FillGoesOn
  <2>2. FillTurn(r) \in [frames : Seq(Frame), w : Nat, rest : Seq(Int)] BY <2>1 DEF Filling
  <2> QED BY <2>1, <2>2
<1>4. G \in [S -> S] BY <1>3
<1>5. turn = [i \in 0 .. n |-> IF i = 0 THEN a ELSE FillTurn(turn[i - 1])]
  <2> HIDE DEF S, G, a, n
  <2>1. PICK f : IsRun(f, S, a, G, n) BY <1>0, <1>2, <1>4, Iterates
  <2>2. f = [i \in 0 .. n |-> IF i = 0 THEN a ELSE FillTurn(f[i - 1])]
    <3>1. f \in [0 .. n -> S] /\ f[0] = a /\ \A i \in 1 .. n : f[i] = G[f[i - 1]] BY <2>1 DEF IsRun
    <3>2. ASSUME NEW i \in 1 .. n PROVE f[i] = FillTurn(f[i - 1])
      <4>1. i - 1 \in 0 .. n BY <1>0
      <4>2. f[i - 1] \in S BY <3>1, <4>1
      <4>3. G[f[i - 1]] = FillTurn(f[i - 1]) BY <4>2 DEF G
      <4> QED BY <3>1, <4>3
    <3> QED BY <1>0, <3>1, <3>2
  <2> QED BY <2>2
<1> HIDE DEF turn, a, G, n
<1> DEFINE T == {i \in 0 .. n : /\ turn[i] \in S
                                /\ \/ turn[i].rest = <<>> \/ Full(turn[i].frames[turn[i].w])
                                   \/ Len(turn[i].rest) <= n - i}
<1>6. 0 \in T
  <2>1. turn[0] = a BY <1>0, <1>5
  <2>2. Len(a.rest) <= n - 0 BY <1>0 DEF a, n
  <2> QED BY <1>0, <1>2, <2>1, <2>2
<1>7. ASSUME NEW i \in 0 .. n - 1, i \in T PROVE i + 1 \in T
  <2>0. i + 1 \in 0 .. n /\ i + 1 # 0 /\ (i + 1) - 1 = i BY <1>0
  <2>1. turn[i + 1] = FillTurn(turn[i]) BY <1>5, <2>0
  <2> DEFINE r == turn[i]
  <2>2. r \in S BY <1>7
  <2> HIDE DEF r
  <2>3. FillTurn(r) \in S BY <2>2, <1>3
  <2>4. r.rest \in Seq(Int) /\ FillTurn(r).rest \in Seq(Int) BY <2>2, <2>3
  <2>5. Len(r.rest) \in Nat /\ Len(FillTurn(r).rest) \in Nat BY <2>4, LenProperties
  <2>6. \/ FillTurn(r) = r /\ (r.rest = <<>> \/ Full(r.frames[r.w]))
        \/ Len(FillTurn(r).rest) < Len(r.rest)
    BY <2>2, FillGoesOn
  <2>7. r.rest = <<>> \/ Full(r.frames[r.w]) \/ Len(r.rest) <= n - i BY <1>7 DEF r
  <2>8. CASE r.rest = <<>> \/ Full(r.frames[r.w])
    <3>1. FillTurn(r) = r BY <2>8 DEF FillTurn
    <3> QED BY <2>0, <2>1, <2>2, <2>8, <3>1 DEF r
  <2>9. CASE ~(r.rest = <<>> \/ Full(r.frames[r.w]))
    <3>1. Len(FillTurn(r).rest) <= n - (i + 1) BY <2>5, <2>6, <2>7, <2>9, <1>0
    <3> QED BY <2>0, <2>1, <2>3, <3>1 DEF r
  <2> QED BY <2>8, <2>9
<1> HIDE DEF T
<1>8. n \in T
  <2>1. \A i \in 0 .. n - 1 : i \in T => i + 1 \in T BY <1>7
  <2>2. \A i \in 0 .. n : i \in T BY <1>0, <1>6, <2>1, Induct
  <2> QED BY <1>0, <2>2
<1>9. turn[n] \in S /\ (\/ turn[n].rest = <<>> \/ Full(turn[n].frames[turn[n].w])
                        \/ Len(turn[n].rest) <= n - n)
  BY <1>8 DEF T
<1>10. Len(turn[n].rest) <= n - n => turn[n].rest = <<>>
  <2>1. turn[n].rest \in Seq(Int) BY <1>9
  <2> QED BY <1>0, <2>1, EmptySeq
<1> QED BY <1>1, <1>9, <1>10

\* The bytes of s that write takes.
Took(b, s) == Len(s) - Len(Rest(b, s))

\* LoopBuf::write appends as many bytes as it says and leaves the others; it stops
\* short only in a full last frame.
LEMMA WriteKeeps ==
    ASSUME NEW b, Sound(b), NEW c \in Seq(Int), Holds(b, c), NEW s \in Seq(Int)
    PROVE  /\ Took(b, s) \in 0 .. Len(s)
           /\ Rest(b, s) \in Seq(Int) /\ Rest(b, s) = SubSeq(s, Took(b, s) + 1, Len(s))
           /\ Len(Rest(b, s)) = Len(s) - Took(b, s)
           /\ Sound(Write(b, s)) /\ Holds(Write(b, s), c \o SubSeq(s, 1, Took(b, s)))
           /\ Len(Write(b, s).frames) = Len(b.frames)
           /\ Rest(b, s) # <<>> =>
                 /\ Full(Write(b, s).frames[Write(b, s).w])
                 /\ ~Full(b.frames[b.w]) =>
                       /\ Took(b, s) >= Room(b.frames[b.w])
                       /\ Took(b, s) >= Room(b.frames[Len(b.frames)])
<1> DEFINE r == Fill(b, s)
           t == Took(b, s)
<1>1. Filling(b, c, s, r) /\ (r.rest = <<>> \/ Full(r.frames[r.w])) BY FillEnds
<1>2. Rest(b, s) = r.rest BY DEF Rest
<1>3. t = Written(b, s, r) BY <1>2 DEF Took, Written
<1>4. Write(b, s) = [frames |-> r.frames, w |-> r.w, size |-> b.size + Len(s) - Len(r.rest)]
  BY DEF Write
<1> HIDE DEF r
<1>5. r.rest \in Seq(Int) /\ Len(r.rest) <= Len(s) /\ r.rest = SubSeq(s, t + 1, Len(s))
  BY <1>1, <1>3 DEF Filling
<1>6. Len(s) \in Nat /\ Len(r.rest) \in Nat /\ b.size \in Nat BY <1>5, LenProperties DEF Sound, Buf
<1>7. t \in 0 .. Len(s) /\ Len(r.rest) = Len(s) - t BY <1>2, <1>5, <1>6 DEF Took
<1>8. Now(b, s, r) = Write(b, s)
  <2>1. b.size + Written(b, s, r) = b.size + Len(s) - Len(r.rest) BY <1>6 DEF Written
  <2> QED BY <1>4, <2>1 DEF Now
<1>9. Sound(Write(b, s)) /\ Holds(Write(b, s), c \o SubSeq(s, 1, t))
  BY <1>1, <1>3, <1>8 DEF Filling
<1>10. Write(b, s).frames = r.frames /\ Write(b, s).w = r.w /\ Len(r.frames) = Len(b.frames)
  BY <1>1, <1>4 DEF Filling
<1>11. ASSUME r.rest # <<>>, ~Full(b.frames[b.w])
       PROVE  t >= Room(b.frames[b.w]) /\ t >= Room(b.frames[Len(b.frames)])
  <2>1. Full(r.frames[r.w]) BY <1>1, <1>11
  <2>2. /\ Full(r.frames[r.w]) => r.w = Len(b.frames)
        /\ r.rest = <<>> \/ t >= Room(b.frames[b.w])
    BY <1>1, <1>3, <1>11, <2>1 DEF Filling
  <2> DEFINE l == Len(b.frames)
             f == b.frames[l]
             g == r.frames[l]
  <2>3. r.w = l /\ Full(g) /\ t >= Room(b.frames[b.w]) BY <1>11, <2>1, <2>2
  <2>4. l \in Nat /\ l \in 1 .. l BY LenProperties DEF Sound, Buf
  <2>5. /\ g.cap = f.cap /\ g.start = f.start /\ Len(g.data) <= Len(f.data) + t
    BY <1>1, <1>3, <2>4 DEF Filling
  <2>6. FrameSound(f) BY <2>4 DEF Sound
  <2>7. Sound(Now(b, s, r)) BY <1>1 DEF Filling
  <2>8. FrameSound(g) BY <1>8, <1>10, <2>4, <2>7 DEF Sound
  <2> HIDE DEF f, g, l
  <2>9. f.cap \in Nat /\ f.start \in Nat /\ Len(f.data) \in Nat
    BY <2>6, LenProperties DEF FrameSound, Frame
  <2>10. Len(g.data) \in Nat BY <2>8, LenProperties DEF FrameSound, Frame
  <2>11. g.start + Len(g.data) = g.cap BY <2>3 DEF Full
  <2>12. f.cap - f.start - Len(f.data) <= t
    <3>1. t \in Nat BY <1>6, <1>7
    <3>2. f.start + Len(g.data) = f.cap BY <2>5, <2>11
    <3>3. Len(g.data) <= Len(f.data) + t BY <2>5
    <3> QED BY <3>1, <3>2, <3>3, <2>9, <2>10
  <2>13. t >= Room(f) BY <2>12, <2>9, <1>6, <1>7 DEF Room
  <2> QED BY <2>3, <2>13 DEF f, l
<1> QED BY <1>1, <1>2, <1>5, <1>7, <1>9, <1>10, <1>11 DEF t

\* Between -m and m there is no multiple of m but 0.
LEMMA Multiples ==
    ASSUME NEW m \in Nat \ {0}, NEW t \in Int, t # 0, m * t < m, m * t > 0 - m
    PROVE  FALSE
OBVIOUS

\* Division with remainder.
LEMMA DivMod ==
    ASSUME NEW m \in Nat \ {0}, NEW x \in Nat
    PROVE  x % m \in 0 .. m - 1 /\ x % m <= x /\ \E q \in Int : x = m * q + (x % m)
<1>1. x % m \in 0 .. m - 1 OBVIOUS
<1>2. x \div m \in Int OBVIOUS
<1>3. x = m * (x \div m) + (x % m) OBVIOUS
<1>4. x % m <= x OBVIOUS
<1> QED BY <1>1, <1>2, <1>3, <1>4

\* allocFrame gives an empty frame of at least one byte (Header < Align).
LEMMA AllocSound ==
    ASSUME NEW l \in Nat
    PROVE  /\ FrameSound(AllocFrame(l)) /\ AllocFrame(l).data = <<>>
           /\ Room(AllocFrame(l)) = l + Align - (l % Align) - Header
<1>1. Align \in Nat \ {0} /\ Header \in Nat /\ Header < Align BY LoopBufAssumption
<1>2. l % Align \in 0 .. Align - 1 /\ l % Align <= l BY <1>1, DivMod
<1> DEFINE k == l + Align - (l % Align) - Header
<1>3. k \in Nat \ {0} BY <1>1, <1>2
<1>4. AllocFrame(l) = [cap |-> k, start |-> 0, data |-> <<>>] BY DEF AllocFrame
<1> HIDE DEF k
<1>5. AllocFrame(l) \in Frame BY <1>3, <1>4 DEF Frame
<1>6. Len(<<>>) = 0 OBVIOUS
<1>7. FrameSound(AllocFrame(l)) BY <1>3, <1>4, <1>5, <1>6 DEF FrameSound
<1>8. Room(AllocFrame(l)) = k BY <1>3, <1>4, <1>6 DEF Room
<1> QED BY <1>4, <1>7, <1>8 DEF k

\* LoopBuf::extend adds an empty frame and leaves m_w_pos in a frame with room.
LEMMA ExtendKeeps ==
    ASSUME NEW b, Sound(b), NEW c \in Seq(Int), Holds(b, c), NEW l \in Nat
    PROVE  LET e == Extend(b, l)
           IN  /\ Sound(e) /\ Holds(e, c) /\ Len(e.frames) = Len(b.frames) + 1
               /\ e.frames[Len(e.frames)] = AllocFrame(l)
               /\ e.size = b.size
               /\ Full(b.frames[b.w]) => ~Full(e.frames[e.w])
               /\ ~Full(b.frames[b.w]) => e.w = b.w /\ e.frames[e.w] = b.frames[b.w]
<1> DEFINE e == Extend(b, l)
           num == Len(b.frames)
           g == AllocFrame(l)
<1>1. FrameSound(g) /\ g.data = <<>> /\ g \in Frame BY AllocSound DEF FrameSound
<1>2. /\ b.frames \in Seq(Frame) /\ b.w \in 1 .. num /\ num \in Nat /\ b.size \in Nat
      /\ Len(c) \in Nat /\ b.size = Len(c)
  BY LenProperties DEF Sound, Buf, Holds
<1>3. /\ e.frames = Append(b.frames, g) /\ e.size = b.size
      /\ e.w = IF Full(b.frames[b.w]) THEN b.w + 1 ELSE b.w
      /\ e = [frames |-> e.frames, w |-> e.w, size |-> e.size]
  <2>1. b \in [frames : Seq(Frame), w : Nat, size : Nat] BY DEF Sound, Buf
  <2>2. b = [frames |-> b.frames, w |-> b.w, size |-> b.size] BY <2>1
  <2> DEFINE x == IF Full(b.frames[b.w]) THEN b.w + 1 ELSE b.w
             y == Append(b.frames, g)
  <2>3. e = [b EXCEPT !.frames = y, !.w = x] BY DEF Extend
  <2> HIDE DEF x, y, e, g
  <2>4. e = [frames |-> y, w |-> x, size |-> b.size] BY <2>2, <2>3
  <2> QED BY <2>4 DEF x, y
<1> HIDE DEF e, g
<1>4. /\ e.frames \in Seq(Frame) /\ Len(e.frames) = num + 1
      /\ \A i \in 1 .. num : e.frames[i] = b.frames[i]
      /\ e.frames[num + 1] = g
  BY <1>1, <1>2, <1>3, AppendProperties
<1>5. e.w \in 1 .. num + 1 /\ e.w >= b.w BY <1>2, <1>3
<1>6. ASSUME NEW i \in 1 .. num + 1 PROVE FrameSound(e.frames[i])
  BY <1>1, <1>2, <1>4 DEF Sound
<1>7. Sound(e)
  <2>1. e.w \in Nat BY <1>2, <1>5
  <2>2. e \in Buf BY <1>2, <1>3, <1>4, <2>1 DEF Buf
  <2> QED BY <1>4, <1>5, <1>6, <2>2 DEF Sound
<1>8. PICK off : At(b, c, off) BY DEF Holds
<1> DEFINE new == [i \in 0 .. num + 1 |-> IF i = num + 1 THEN Len(c) ELSE off[i]]
<1> HIDE DEF num
<1>a. off \in [0 .. num -> 0 .. Len(c)] /\ off[0] = 0 BY <1>8 DEF At, num
<1>b. \A i \in b.w .. num : off[i] = Len(c) BY <1>8 DEF At, num
<1>c. \A i \in 1 .. num :
          off[i - 1] <= off[i] /\ b.frames[i].data = SubSeq(c, off[i - 1] + 1, off[i])
  BY <1>8 DEF At, num
<1>d. \A i \in 1 .. b.w - 1 : off[i - 1] = off[i] => off[i] = 0 BY <1>8 DEF At, num
<1>9. new \in [0 .. num + 1 -> 0 .. Len(c)] /\ new[0] = 0
  <2>1. Len(c) \in 0 .. Len(c) BY <1>2
  <2> QED BY <1>a, <1>2, <2>1
<1>10. \A i \in e.w .. num + 1 : new[i] = Len(c) BY <1>b, <1>2, <1>5
<1>11. ASSUME NEW i \in 1 .. num + 1
       PROVE  new[i - 1] <= new[i] /\ e.frames[i].data = SubSeq(c, new[i - 1] + 1, new[i])
  <2>1. CASE i = num + 1
    <3>1. new[i] = Len(c) /\ new[i - 1] = Len(c) BY <1>2, <1>b, <2>1
    <3>2. SubSeq(c, Len(c) + 1, Len(c)) = <<>> BY <1>2, SubSeqEmpty
    <3>3. e.frames[i].data = <<>> BY <1>1, <1>4, <2>1
    <3>4. Len(c) <= Len(c) BY <1>2
    <3> QED BY <3>1, <3>2, <3>3, <3>4
  <2>2. CASE i \in 1 .. num
    <3>1. new[i] = off[i] /\ new[i - 1] = off[i - 1] BY <1>2, <2>2
    <3> QED BY <1>4, <1>c, <2>2, <3>1
  <2>3. i = num + 1 \/ i \in 1 .. num BY <1>2
  <2> QED BY <2>1, <2>2, <2>3
<1>12. ASSUME NEW i \in 1 .. e.w - 1, new[i - 1] = new[i] PROVE new[i] = 0
  <2>0. i \in 1 .. num /\ new[i] = off[i] /\ new[i - 1] = off[i - 1] BY <1>2, <1>5
  <2>1. CASE i \in 1 .. b.w - 1 BY <2>0, <2>1, <1>12, <1>d
  <2>2. CASE i = b.w /\ Full(b.frames[b.w])
    <3>1. FrameSound(b.frames[i]) BY <1>2, <2>2 DEF Sound, num
    <3>2. b.frames[i].data # <<>> BY <3>1, <2>2, RoomNat
    <3>3. b.frames[i].data = SubSeq(c, off[i] + 1, off[i]) BY <1>c, <1>12, <2>0
    <3>4. off[i] \in Int BY <1>a, <1>2, <2>0
    <3>5. SubSeq(c, off[i] + 1, off[i]) = <<>> BY <3>4, SubSeqEmpty
    <3> QED BY <3>2, <3>3, <3>5
  <2> QED BY <2>1, <2>2, <1>2, <1>3
<1> HIDE DEF new
<1>13. At(e, c, new) BY <1>4, <1>9, <1>10, <1>11, <1>12 DEF At
<1>14. Holds(e, c) BY <1>2, <1>3, <1>13 DEF Holds
<1>15. ASSUME Full(b.frames[b.w]) PROVE ~Full(e.frames[e.w])
  <2>1. e.w = b.w + 1 BY <1>3, <1>15
  <2>2. CASE b.w = num
    <3>1. e.frames[e.w] = g BY <1>4, <2>1, <2>2
    <3> QED BY <1>1, <3>1, RoomNat
  <2>3. CASE b.w < num
    <3>1. b.w + 1 \in b.w + 1 .. Len(b.frames) /\ b.w + 1 \in 1 .. num BY <1>2, <2>3 DEF num
    <3>2. ~Full(b.frames[b.w + 1]) BY <3>1, EmptyAfter
    <3> QED BY <3>1, <3>2, <1>4, <2>1
  <2> QED BY <2>2, <2>3, <1>2
<1>16. ASSUME ~Full(b.frames[b.w]) PROVE e.w = b.w /\ e.frames[e.w] = b.frames[b.w]
  BY <1>2, <1>3, <1>4, <1>16
<1> QED BY <1>3, <1>4, <1>7, <1>14, <1>15, <1>16 DEF e, g, num

\* How much of l bytes is left after t and then u of them.
LEMMA Taking ==
    ASSUME NEW l \in Nat, NEW t \in 0 .. l, NEW k \in Nat, k = l - t, NEW u \in 0 .. k,
           NEW n, n = k - u
    PROVE  /\ n \in 0 .. l /\ l - n = t + u /\ t + u \in 0 .. l /\ t + u \in t .. l
           /\ l \in t .. l /\ 0 \in 0 .. l - t /\ u \in 0 .. l - t
           /\ 1 \in 1 .. l + 1 /\ t \in 1 - 1 .. l
OBVIOUS

\* Less room than the k bytes asked for means that they end in the last bytes of an
\* alignment block.
LEMMA Overflow ==
    ASSUME NEW k \in Nat, NEW a \in Nat, NEW h \in Nat, NEW m \in 0 .. a - 1,
           NEW u \in 0 .. k, u >= k + a - m - h, NEW n, n = k - u, n > 0
    PROVE  n < h /\ m > a - h
OBVIOUS

\* What autoResizeWrite drops.
Dropped(b, s) ==
    IF Rest(b, s) = <<>> THEN 0
    ELSE Len(Rest(Extend(Write(b, s), Len(Rest(b, s))), Rest(b, s)))

\* LoopBuf::autoResizeWrite appends the message but for its last n bytes, and n is
\* 0 unless what is left for the new frame ends in the last bytes of a block.
LEMMA AutoResizeKeeps ==
    ASSUME NEW b, Sound(b), NEW c \in Seq(Int), Holds(b, c), NEW s \in Seq(Int)
    PROVE  LET a == AutoResizeWrite(b, s)
               n == Dropped(b, s)
           IN  /\ n \in 0 .. Len(s) /\ Sound(a) /\ Holds(a, c \o SubSeq(s, 1, Len(s) - n))
               /\ a.size = b.size + (Len(s) - n)
               /\ n > 0 => /\ n < Header
                           /\ Len(Rest(b, s)) % Align > Align - Header
<1> DEFINE a == AutoResizeWrite(b, s)
           n == Dropped(b, s)
           t == Took(b, s)
           r == Rest(b, s)
           v == Write(b, s)
<1>1. /\ t \in 0 .. Len(s) /\ r \in Seq(Int) /\ r = SubSeq(s, t + 1, Len(s))
      /\ Len(r) = Len(s) - t
      /\ Sound(v) /\ Holds(v, c \o SubSeq(s, 1, t))
      /\ r # <<>> => Full(v.frames[v.w])
  BY WriteKeeps
<1>2. Len(s) \in Nat /\ Len(r) \in Nat /\ Len(c) \in Nat /\ b.size = Len(c)
  BY <1>1, LenProperties DEF Holds
<1>s. ASSUME NEW k \in 0 .. Len(s)
      PROVE  /\ SubSeq(s, 1, k) \in Seq(Int) /\ Len(SubSeq(s, 1, k)) = k
             /\ c \o SubSeq(s, 1, k) \in Seq(Int)
             /\ Len(c \o SubSeq(s, 1, k)) = b.size + k
  <2>1. 0 \in 0 .. Len(s) /\ k \in 0 .. Len(s) BY <1>2
  <2>2. SubSeq(s, 0 + 1, k) \in Seq(Int) /\ Len(SubSeq(s, 0 + 1, k)) = k - 0 BY <2>1, Slice
  <2>3. SubSeq(s, 1, k) \in Seq(Int) /\ Len(SubSeq(s, 1, k)) = k BY <1>2, <2>2
  <2> QED BY <1>2, <2>3, ConcatProperties
<1>3. CASE r = <<>>
  <2>1. a = v /\ n = 0 BY <1>3 DEF AutoResizeWrite, Dropped
  <2>2. t = Len(s)
    <3>1. Len(r) = 0 BY <1>3
    <3>2. Len(r) = Len(s) - t /\ t \in Int BY <1>1
    <3> HIDE DEF t, r
    <3> QED BY <3>1, <3>2, <1>2
  <2>3. Len(s) - 0 = Len(s) /\ 0 \in 0 .. Len(s) /\ Len(s) \in 0 .. Len(s) BY <1>2
  <2>4. v.size = b.size + Len(s) BY <1>1, <1>s, <2>2, <2>3 DEF Holds
  <2> HIDE DEF a, n, v, t, r
  <2> QED BY <1>1, <2>1, <2>2, <2>3, <2>4 DEF a, n
<1>4. CASE r # <<>>
  <2> DEFINE e == Extend(v, Len(r))
             d == c \o SubSeq(s, 1, t)
             u == Took(e, r)
  <2>1. a = Write(e, r) /\ n = Len(Rest(e, r)) BY <1>4 DEF AutoResizeWrite, Dropped
  <2>2. d \in Seq(Int) BY <1>1, <1>s
  <2> HIDE DEF a, n, v, t, r, d
  <2>3. /\ Sound(e) /\ Holds(e, d) /\ e.frames[Len(e.frames)] = AllocFrame(Len(r))
        /\ Full(v.frames[v.w]) => ~Full(e.frames[e.w])
    BY <1>1, <1>2, <2>2, ExtendKeeps DEF d
  <2>4. ~Full(e.frames[e.w]) BY <1>1, <1>4, <2>3
  <2> HIDE DEF e
  <2>5. /\ u \in 0 .. Len(r) /\ Rest(e, r) \in Seq(Int) /\ Len(Rest(e, r)) = Len(r) - u
        /\ Sound(a) /\ Holds(a, d \o SubSeq(r, 1, u))
        /\ Rest(e, r) # <<>> /\ ~Full(e.frames[e.w]) => u >= Room(e.frames[Len(e.frames)])
    BY <1>1, <2>1, <2>2, <2>3, WriteKeeps
  <2> HIDE DEF u
  <2>6. n = Len(r) - u /\ n \in 0 .. Len(s) /\ Len(s) - n = t + u /\ t + u \in 0 .. Len(s)
    <3>1. n = Len(r) - u BY <2>1, <2>5
    <3>2. Len(r) = Len(s) - t /\ t \in 0 .. Len(s) /\ u \in 0 .. Len(r) BY <1>1, <2>5
    <3> QED BY <3>1, <3>2, <1>2, Taking
  <2>7. d \o SubSeq(r, 1, u) = c \o SubSeq(s, 1, t + u)
    <3>1. SubSeq(r, 1, u) = SubSeq(s, t + 1, t + u)
      <4>0. Len(r) = Len(s) - t /\ t \in 0 .. Len(s) /\ u \in 0 .. Len(r) BY <1>1, <2>5
      <4>1. Len(s) \in t .. Len(s) /\ 0 \in 0 .. Len(s) - t /\ u \in 0 .. Len(s) - t
        BY <4>0, <1>2, Taking
      <4>2. SubSeq(SubSeq(s, t + 1, Len(s)), 0 + 1, u) = SubSeq(s, t + 0 + 1, t + u)
        BY <1>1, <4>1, SliceOfSlice
      <4>3. 0 + 1 = 1 /\ t + 0 + 1 = t + 1 BY <1>1, <1>2
      <4> QED BY <1>1, <4>2, <4>3
    <3> DEFINE x == SubSeq(s, 1, t)
               y == SubSeq(s, t + 1, t + u)
    <3>0. Len(r) = Len(s) - t /\ t \in 0 .. Len(s) /\ u \in 0 .. Len(r) BY <1>1, <2>5
    <3>2. 1 \in 1 .. Len(s) + 1 /\ t \in 1 - 1 .. Len(s) /\ t + u \in t .. Len(s)
      BY <3>0, <1>2, Taking
    <3>3. x \o y = SubSeq(s, 1, t + u) BY <3>2, ConcatAdjacentSubSeq
    <3>4. x \in Seq(Int) BY <1>1, <1>s
    <3>5. y \in Seq(Int)
      <4> DEFINE k == t + u
      <4>1. k \in t .. Len(s) BY <3>2
      <4> HIDE DEF k
      <4>2. SubSeq(s, t + 1, k) \in Seq(Int) BY <1>1, <4>1, Slice
      <4> QED BY <4>2 DEF k
    <3>6. d = c \o x BY DEF d
    <3> HIDE DEF x, y
    <3>7. (c \o x) \o y = c \o (x \o y) BY <3>4, <3>5, SMTT(30)
    <3> QED BY <3>1, <3>3, <3>6, <3>7 DEF y
  <2>8. Holds(a, c \o SubSeq(s, 1, Len(s) - n)) BY <2>5, <2>6, <2>7
  <2>9. a.size = b.size + (Len(s) - n) BY <1>s, <2>6, <2>8 DEF Holds
  <2>10. ASSUME n > 0 PROVE n < Header /\ Len(r) % Align > Align - Header
    <3>1. Rest(e, r) # <<>> BY <2>1, <2>10
    <3>2. u >= Room(AllocFrame(Len(r))) BY <2>3, <2>4, <2>5, <3>1
    <3>3. u >= Len(r) + Align - (Len(r) % Align) - Header BY <1>2, <3>2, AllocSound
    <3>4. Align \in Nat \ {0} /\ Header \in Nat BY LoopBufAssumption
    <3>5. Len(r) % Align \in 0 .. Align - 1 BY <1>2, <3>4, DivMod
    <3>6. n = Len(r) - u /\ u \in 0 .. Len(r) BY <2>5, <2>6
    <3> QED BY <1>2, <2>10, <3>3, <3>4, <3>5, <3>6, Overflow
  <2> QED BY <2>5, <2>6, <2>8, <2>9, <2>10 DEF a, n, r
<1> QED BY <1>3, <1>4
\* The constructor's buffer is sound and holds nothing.
LEMMA EmptyIsSound == Sound(EmptyBuf) /\ Holds(EmptyBuf, <<>>)
<1> DEFINE f == AllocFrame(0)
           b == EmptyBuf
<1>1. FrameSound(f) /\ f.data = <<>> /\ f \in Frame BY AllocSound DEF FrameSound
<1>2. b = [frames |-> <<f>>, w |-> 1, size |-> 0] BY DEF EmptyBuf
<1> HIDE DEF f, b
<1>3. <<f>> \in Seq(Frame) /\ Len(<<f>>) = 1 /\ <<f>>[1] = f BY <1>1
<1>4. b.frames = <<f>> /\ b.w = 1 /\ b.size = 0 BY <1>2
<1>5. b \in Buf BY <1>2, <1>3 DEF Buf
<1>6. Sound(b) BY <1>1, <1>3, <1>4, <1>5 DEF Sound
<1> DEFINE off == [i \in 0 .. 1 |-> 0]
<1>7. Len(<<>>) = 0 /\ SubSeq(<<>>, 0 + 1, 0) = <<>>
  <2>1. SubSeq(<<>>, 0 + 1, 0) = <<>> BY SubSeqEmpty
  <2> QED BY <2>1
<1>a. off \in [0 .. Len(b.frames) -> 0 .. Len(<<>>)] /\ off[0] = 0 BY <1>3, <1>4, <1>7
<1>b. \A i \in b.w .. Len(b.frames) : off[i] = Len(<<>>) BY <1>3, <1>4, <1>7
<1>c. ASSUME NEW i \in 1 .. Len(b.frames)
      PROVE  off[i - 1] <= off[i] /\ b.frames[i].data = SubSeq(<<>>, off[i - 1] + 1, off[i])
  <2>1. i = 1 BY <1>3, <1>4
  <2>2. off[i - 1] = 0 /\ off[i] = 0 /\ b.frames[i].data = <<>> BY <1>1, <1>3, <1>4, <2>1
  <2> QED BY <1>7, <2>2
<1>d. \A i \in 1 .. b.w - 1 : off[i - 1] = off[i] => off[i] = 0 BY <1>4
<1> HIDE DEF off
<1>8. At(b, <<>>, off) BY <1>a, <1>b, <1>c, <1>d DEF At
<1>9. Holds(b, <<>>) BY <1>4, <1>7, <1>8 DEF Holds
<1> QED BY <1>6, <1>9 DEF b

\* LoopBuf::clear leaves a sound buffer that holds nothing.
LEMMA ClearKeeps ==
    ASSUME NEW b, Sound(b)
    PROVE  Sound(Clear(b)) /\ Holds(Clear(b), <<>>) /\ Clear(b).size = 0
<1> DEFINE num == Len(b.frames)
           g == [i \in 1 .. num |-> [cap |-> b.frames[i].cap, start |-> 0, data |-> <<>>]]
           a == Clear(b)
<1>1. b.frames \in Seq(Frame) /\ b.w \in 1 .. num /\ num \in Nat /\ DOMAIN b.frames = 1 .. num
  BY LenProperties DEF Sound, Buf
<1>2. a = [frames |-> g, w |-> b.w, size |-> 0]
  <2>1. b \in [frames : Seq(Frame), w : Nat, size : Nat] BY DEF Sound, Buf
  <2>2. b = [frames |-> b.frames, w |-> b.w, size |-> b.size] BY <2>1
  <2>3. a = [b EXCEPT !.frames = g, !.size = 0] BY <1>1 DEF Clear
  <2> HIDE DEF g, a
  <2> QED BY <2>2, <2>3
<1>3. ASSUME NEW i \in 1 .. num PROVE FrameSound(g[i]) /\ g[i].data = <<>> /\ g[i] \in Frame
  <2>1. b.frames[i] \in [cap : Nat \ {0}, start : Nat, data : Seq(Int)]
    BY DEF Sound, FrameSound, Frame
  <2> DEFINE f == b.frames[i]
             z == [cap |-> f.cap, start |-> 0, data |-> <<>>]
  <2>2. g[i] = z OBVIOUS
  <2>f. f.cap \in Nat \ {0} /\ <<>> \in Seq(Int) BY <2>1
  <2> HIDE DEF f, g
  <2>4. z.data = <<>> /\ z.start = 0 /\ z.cap = f.cap OBVIOUS
  <2>5. z \in Frame BY <2>f DEF Frame
  <2>6. f.cap \in Nat BY <2>f
  <2> HIDE DEF z
  <2>7. z.start + Len(z.data) <= z.cap BY <2>4, <2>6
  <2> QED BY <2>2, <2>4, <2>5, <2>7 DEF FrameSound
<1> HIDE DEF a
<1>4. g \in Seq(Frame) /\ Len(g) = num
  <2>1. \A i \in 1 .. num : g[i] \in Frame BY <1>3
  <2>2. g \in [1 .. num -> Frame] BY <2>1
  <2> HIDE DEF g, num
  <2>3. g \in Seq(Frame) BY <1>1, <2>2
  <2> QED BY <1>1, <2>2, <2>3, LenProperties
<1> HIDE DEF g
<1>5. a.frames = g /\ a.w = b.w /\ a.size = 0 BY <1>2
<1>6. a \in Buf BY <1>1, <1>2, <1>4 DEF Buf
<1>7. Sound(a) BY <1>1, <1>3, <1>4, <1>5, <1>6 DEF Sound
<1> DEFINE off == [i \in 0 .. num |-> 0]
<1>8. Len(<<>>) = 0 /\ SubSeq(<<>>, 0 + 1, 0) = <<>>
  <2>1. SubSeq(<<>>, 0 + 1, 0) = <<>> BY SubSeqEmpty
  <2> QED BY <2>1
<1> HIDE DEF num
<1>9. At(a, <<>>, off)
  <2>1. Len(a.frames) = num /\ a.w = b.w BY <1>4, <1>5
  <2>2. off \in [0 .. num -> 0 .. Len(<<>>)] /\ off[0] = 0 BY <1>1, <1>8
  <2>3. \A i \in b.w .. num : off[i] = Len(<<>>) BY <1>1, <1>8
  <2>4. ASSUME NEW i \in 1 .. num
        PROVE  off[i - 1] = 0 /\ off[i] = 0 /\ a.frames[i].data = <<>>
    <3>1. i \in 0 .. num /\ i - 1 \in 0 .. num BY <1>1
    <3> QED BY <3>1, <1>3, <1>5
  <2>5. \A i \in 1 .. b.w - 1 : off[i] = 0 BY <1>1, <2>4
  <2> HIDE DEF off
  <2>6. \A i \in 1 .. num :
            off[i - 1] <= off[i] /\ a.frames[i].data = SubSeq(<<>>, off[i - 1] + 1, off[i])
    <3> TAKE i \in 1 .. num
    <3>1. off[i - 1] = 0 /\ off[i] = 0 /\ a.frames[i].data = <<>> BY <2>4
    <3> QED BY <3>1, <1>8
  <2> QED BY <2>1, <2>2, <2>3, <2>5, <2>6 DEF At
<1> HIDE DEF off
<1>10. Holds(a, <<>>) BY <1>5, <1>8, <1>9 DEF Holds
<1> QED BY <1>5, <1>7, <1>10 DEF a

\* The frames' boundaries are in order.
LEMMA OffsetsGrow ==
    ASSUME NEW b, Sound(b), NEW c \in Seq(Int), NEW off, At(b, c, off),
           NEW i \in 0 .. Len(b.frames), NEW j \in i .. Len(b.frames)
    PROVE  off[i] <= off[j]
<1> DEFINE num == Len(b.frames)
           T == {k \in 0 .. num - i : off[i] <= off[i + k]}
<1>1. num \in Nat BY LenProperties DEF Sound, Buf
<1>2. off \in [0 .. num -> 0 .. Len(c)] /\ \A k \in 1 .. num : off[k - 1] <= off[k] BY DEF At
<1>0. Len(c) \in Nat BY LenProperties
<1> HIDE DEF num
<1>i. i \in 0 .. num /\ j \in i .. num /\ num - i \in Nat BY <1>1 DEF num
<1>3. 0 \in T
  <2>1. off[i] \in Int /\ i + 0 = i BY <1>0, <1>2, <1>i, <1>1
  <2>2. 0 \in 0 .. num - i BY <1>1, <1>i
  <2> QED BY <2>1, <2>2
<1>4. ASSUME NEW k \in 0 .. (num - i) - 1, k \in T PROVE k + 1 \in T
  <2>1. k + 1 \in 0 .. num - i /\ i + k + 1 \in 1 .. num /\ i + k \in 0 .. num BY <1>1, <1>i
  <2>2. off[i + k + 1 - 1] <= off[i + k + 1] BY <1>2, <2>1
  <2>3. i + k + 1 - 1 = i + k /\ i + k + 1 = i + (k + 1) BY <1>1, <1>i
  <2>4. off[i + k] <= off[i + (k + 1)] BY <2>2, <2>3
  <2>5. off[i] <= off[i + k] BY <1>4
  <2>6. off[i] \in Int /\ off[i + k] \in Int /\ off[i + (k + 1)] \in Int
    <3>1. i + (k + 1) \in 0 .. num BY <2>1, <1>1, <1>i
    <3>2. \A x \in 0 .. num : off[x] \in Int BY <1>0, <1>2
    <3> QED BY <1>i, <2>1, <3>1, <3>2
  <2>7. off[i] <= off[i + (k + 1)] BY <2>4, <2>5, <2>6
  <2> QED BY <2>1, <2>7
<1> HIDE DEF T
<1>5. \A k \in 0 .. num - i : k \in T BY <1>i, <1>3, <1>4, Induct
<1>6. j - i \in 0 .. num - i /\ i + (j - i) = j BY <1>1, <1>i
<1>7. j - i \in T BY <1>5, <1>6
<1> QED BY <1>6, <1>7 DEF T

\* The bytes of the first n frames are those up to the n-th boundary.
LEMMA BytesAre ==
    ASSUME NEW b, Sound(b), NEW c \in Seq(Int), NEW off, At(b, c, off),
           NEW n \in 0 .. Len(b.frames)
    PROVE  BytesOf(b, n) = SubSeq(c, 1, off[n]) /\ Len(BytesOf(b, n)) = off[n]
<1> DEFINE num == Len(b.frames)
           ds == [i \in 1 .. n |-> b.frames[i].data]
<1>1. num \in Nat /\ Len(c) \in Nat /\ n \in Nat BY LenProperties DEF Sound, Buf
<1>2. off \in [0 .. num -> 0 .. Len(c)] /\ off[0] = 0 BY DEF At
<1>3. \A i \in 1 .. num : off[i - 1] <= off[i] /\ b.frames[i].data = SubSeq(c, off[i - 1] + 1, off[i])
  BY DEF At
<1>4. ASSUME NEW i \in 0 .. num
      PROVE  SubSeq(c, 1, off[i]) \in Seq(Int) /\ Len(SubSeq(c, 1, off[i])) = off[i]
  <2>1. off[i] \in 0 .. Len(c) /\ 0 \in 0 .. Len(c) BY <1>1, <1>2
  <2>2. SubSeq(c, 0 + 1, off[i]) \in Seq(Int) /\ Len(SubSeq(c, 0 + 1, off[i])) = off[i] - 0
    BY <2>1, Slice
  <2> QED BY <2>1, <2>2
<1>5. ASSUME NEW i \in 1 .. num
      PROVE  SubSeq(c, 1, off[i]) = SubSeq(c, 1, off[i - 1]) \o b.frames[i].data
  <2>1. i - 1 \in 0 .. num /\ i \in 0 .. num BY <1>1
  <2>2. off[i - 1] \in 0 .. Len(c) /\ off[i] \in 0 .. Len(c) /\ off[i - 1] <= off[i]
    BY <1>2, <1>3, <2>1
  <2>3. 1 \in 1 .. Len(c) + 1 /\ off[i - 1] \in 1 - 1 .. Len(c) /\ off[i] \in off[i - 1] .. Len(c)
    BY <1>1, <2>2
  <2>4. SubSeq(c, 1, off[i - 1]) \o SubSeq(c, off[i - 1] + 1, off[i]) = SubSeq(c, 1, off[i])
    BY <2>3, ConcatAdjacentSubSeq
  <2> QED BY <1>3, <2>4
<1>6. Len(ds) = n
  <2>1. \A i \in 1 .. n : b.frames[i].data \in Seq(Int)
    <3> TAKE i \in 1 .. n
    <3>1. i \in 1 .. Len(b.frames) BY <1>1
    <3> QED BY <3>1 DEF Sound, FrameSound, Frame
  <2>2. ds \in [1 .. n -> Seq(Int)] BY <2>1
  <2> HIDE DEF ds
  <2>3. ds \in Seq(Seq(Int)) BY <1>1, <2>2
  <2> QED BY <1>1, <2>2, <2>3, LenProperties
<1>7. CASE n = 0
  <2>1. BytesOf(b, n) = ds BY <1>6, <1>7 DEF BytesOf, FlattenSeq
  <2>2. ds = <<>> BY <1>7
  <2>3. SubSeq(c, 1, 0) = <<>> BY SubSeqEmpty
  <2>4. off[n] = 0 /\ Len(<<>>) = 0 BY <1>2, <1>7
  <2> QED BY <2>1, <2>2, <2>3, <2>4
<1>8. CASE n # 0
  <2> DEFINE flatten[i \in 1 .. Len(ds)] == IF i = 1 THEN ds[i] ELSE flatten[i - 1] \o ds[i]
             h == [i \in 1 .. n |-> SubSeq(c, 1, off[i])]
  <2>1. BytesOf(b, n) = flatten[n] BY <1>6, <1>8 DEF BytesOf, FlattenSeq
  <2>2. h = [i \in 1 .. Len(ds) |-> IF i = 1 THEN ds[i] ELSE h[i - 1] \o ds[i]]
    <3>1. ASSUME NEW i \in 1 .. n PROVE h[i] = IF i = 1 THEN ds[i] ELSE h[i - 1] \o ds[i]
      <4>0. i \in 1 .. num /\ ds[i] = b.frames[i].data BY <1>1
      <4>1. CASE i = 1
        <5>1. SubSeq(c, 1, off[1]) = b.frames[1].data
          <6>1. 1 \in 1 .. num /\ 1 - 1 = 0 BY <4>0, <4>1
          <6>2. b.frames[1].data = SubSeq(c, off[0] + 1, off[1]) BY <1>3, <6>1
          <6> QED BY <1>2, <6>2
        <5> QED BY <4>0, <4>1, <5>1
      <4>2. CASE i # 1
        <5>1. i - 1 \in 1 .. n BY <1>1, <4>2
        <5>2. h[i - 1] = SubSeq(c, 1, off[i - 1]) /\ h[i] = SubSeq(c, 1, off[i]) BY <5>1
        <5>3. SubSeq(c, 1, off[i]) = SubSeq(c, 1, off[i - 1]) \o b.frames[i].data BY <4>0, <1>5
        <5> HIDE DEF h, ds
        <5> QED BY <4>0, <4>2, <5>2, <5>3
      <4> QED BY <4>1, <4>2
    <3> QED BY <1>6, <3>1
  <2>3. flatten = [i \in 1 .. Len(ds) |-> IF i = 1 THEN ds[i] ELSE flatten[i - 1] \o ds[i]]
    <3> HIDE DEF h, ds
    <3> QED BY <2>2
  <2> HIDE DEF flatten, ds, h
  <2> DEFINE T == {i \in 0 .. n - 1 : flatten[i + 1] = h[i + 1]}
  <2>4. 0 \in T
    <3>1. flatten[1] = ds[1] /\ h[1] = ds[1] BY <1>1, <1>6, <1>8, <2>2, <2>3
    <3> QED BY <1>1, <1>8, <3>1
  <2>5. ASSUME NEW i \in 0 .. (n - 1) - 1, i \in T PROVE i + 1 \in T
    <3> DEFINE k == i + 1 + 1
    <3>1. k \in 1 .. Len(ds) /\ k # 1 /\ k - 1 = i + 1 BY <1>1, <1>6
    <3>4. flatten[i + 1] = h[i + 1] BY <2>5
    <3>5. i + 1 \in 0 .. n - 1 BY <1>1
    <3> HIDE DEF k
    <3>2. flatten[k] = flatten[k - 1] \o ds[k] BY <2>3, <3>1
    <3>3. h[k] = h[k - 1] \o ds[k] BY <2>2, <3>1
    <3>6. flatten[k] = h[k] BY <3>1, <3>2, <3>3, <3>4
    <3> QED BY <3>5, <3>6 DEF k
  <2> HIDE DEF T
  <2>6. n - 1 \in T
    <3>1. n - 1 \in Nat /\ n - 1 \in 0 .. n - 1 BY <1>1, <1>8
    <3>2. \A i \in 0 .. n - 1 : i \in T BY <2>4, <2>5, <3>1, Induct
    <3> QED BY <3>1, <3>2
  <2>7. flatten[n] = h[n]
    <3>1. n - 1 + 1 = n BY <1>1
    <3>2. flatten[n - 1 + 1] = h[n - 1 + 1] BY <2>6 DEF T
    <3> QED BY <3>1, <3>2
  <2>8. h[n] = SubSeq(c, 1, off[n])
    <3>1. n \in 1 .. n BY <1>1, <1>8
    <3> QED BY <3>1 DEF h
  <2> QED BY <1>4, <2>1, <2>7, <2>8
<1> QED BY <1>7, <1>8

\* What the buffer holds is what a read of all of it returns, and peek sees its
\* beginning.
LEMMA ContentsAre ==
    ASSUME NEW b, Sound(b), NEW c \in Seq(Int), Holds(b, c)
    PROVE  /\ Contents(b) = c
           /\ \A n \in 0 .. Len(c) : Peek(b, n) = SubSeq(c, 1, n)
<1>1. PICK off : At(b, c, off) BY DEF Holds
<1>2. Len(b.frames) \in Nat /\ b.w \in 1 .. Len(b.frames) /\ Len(c) \in Nat
  BY LenProperties DEF Sound, Buf
<1>3. off[b.w] = Len(c) /\ off[Len(b.frames)] = Len(c)
  <2>1. b.w \in b.w .. Len(b.frames) /\ Len(b.frames) \in b.w .. Len(b.frames) BY <1>2
  <2> QED BY <1>1, <2>1 DEF At
<1>4. SubSeq(c, 1, Len(c)) = c BY SubSeqFull
<1>5. Contents(b) = c
  <2>1. Len(b.frames) \in 0 .. Len(b.frames) BY <1>2
  <2>2. BytesOf(b, Len(b.frames)) = SubSeq(c, 1, off[Len(b.frames)]) BY <1>1, <2>1, BytesAre
  <2> QED BY <1>3, <1>4, <2>2 DEF Contents
<1>6. BytesOf(b, b.w) = c
  <2>1. b.w \in 0 .. Len(b.frames) BY <1>2
  <2>2. BytesOf(b, b.w) = SubSeq(c, 1, off[b.w]) BY <1>1, <2>1, BytesAre
  <2> QED BY <1>3, <1>4, <2>2
<1>7. ASSUME NEW n \in 0 .. Len(c) PROVE Peek(b, n) = SubSeq(c, 1, n)
  <2>1. Min2(n, Len(c)) = n BY <1>2 DEF Min2
  <2> QED BY <1>6, <2>1 DEF Peek
<1> QED BY <1>5, <1>7

\* frame::read takes the first k bytes.
LEMMA ReadFrameSound ==
    ASSUME NEW f, FrameSound(f), NEW k \in 0 .. Len(f.data)
    PROVE  /\ FrameSound(ReadFrame(f, k)) /\ ReadFrame(f, k) \in Frame
           /\ ReadFrame(f, k).data = SubSeq(f.data, k + 1, Len(f.data))
<1> DEFINE d == SubSeq(f.data, k + 1, Len(f.data))
           s == IF k = Len(f.data) THEN 0 ELSE f.start + k
           g == ReadFrame(f, k)
<1>1. f.cap \in Nat \ {0} /\ f.start \in Nat /\ f.data \in Seq(Int) /\ f.start + Len(f.data) <= f.cap
  BY DEF FrameSound, Frame
<1>2. Len(f.data) \in Nat BY <1>1, LenProperties
<1>3. d \in Seq(Int) /\ Len(d) = Len(f.data) - k
  <2>1. Len(f.data) \in k .. Len(f.data) BY <1>2
  <2> QED BY <1>1, <2>1, Slice
<1>4. g = [cap |-> f.cap, start |-> s, data |-> d] BY DEF ReadFrame, Drop
<1>5. s \in Nat BY <1>1, <1>2
<1>6. k = Len(f.data) => s = 0 OBVIOUS
<1>7. s + (Len(f.data) - k) <= f.cap BY <1>1, <1>2
<1> HIDE DEF d, s, g
<1>8. g.cap = f.cap /\ g.start = s /\ g.data = d BY <1>4
<1>9. g \in Frame BY <1>1, <1>3, <1>4, <1>5 DEF Frame
<1>10. g.start + Len(g.data) <= g.cap BY <1>3, <1>7, <1>8
<1>11. g.data = <<>> => g.start = 0
  <2> SUFFICES ASSUME d = <<>> PROVE s = 0 BY <1>8
  <2>1. Len(d) = 0 OBVIOUS
  <2>2. k = Len(f.data) BY <1>2, <1>3, <2>1
  <2> QED BY <1>6, <2>2
<1> QED BY <1>8, <1>9, <1>10, <1>11 DEF FrameSound, g, d

\* A list after its first m elements have gone to its end.
LEMMA Rotated ==
    ASSUME NEW S, NEW s \in Seq(S), NEW m \in 0 .. Len(s)
    PROVE  LET r == SubSeq(s, m + 1, Len(s)) \o SubSeq(s, 1, m)
           IN  /\ r \in Seq(S) /\ Len(r) = Len(s)
               /\ \A k \in 1 .. Len(s) : r[k] = IF k <= Len(s) - m THEN s[m + k] ELSE s[k - (Len(s) - m)]
<1> DEFINE x == SubSeq(s, m + 1, Len(s))
           y == SubSeq(s, 1, m)
           r == x \o y
           l == Len(s)
<1>0. l \in Nat BY LenProperties
<1> HIDE DEF l
<1>m. m \in 0 .. l BY DEF l
<1>1. \A i \in m + 1 .. l : s[i] \in S
  <2> TAKE i \in m + 1 .. l
  <2>1. i \in 1 .. l BY <1>0, <1>m
  <2> QED BY <2>1, ElementOfSeq DEF l
<1>2. \A i \in 1 .. m : s[i] \in S
  <2> TAKE i \in 1 .. m
  <2>1. i \in 1 .. l BY <1>0, <1>m
  <2> QED BY <2>1, ElementOfSeq DEF l
<1>3. m + 1 \in Int /\ l \in Int /\ m \in Int /\ 1 \in Int BY <1>0, <1>m
<1>4. /\ x \in Seq(S) /\ Len(x) = IF m + 1 <= l THEN l - (m + 1) + 1 ELSE 0
      /\ \A i \in 1 .. l - (m + 1) + 1 : x[i] = s[m + 1 + i - 1]
  BY <1>1, <1>3, SubSeqProperties DEF l
<1>5. /\ y \in Seq(S) /\ Len(y) = IF 1 <= m THEN m - 1 + 1 ELSE 0
      /\ \A i \in 1 .. m - 1 + 1 : y[i] = s[1 + i - 1]
  BY <1>2, <1>3, SubSeqProperties
<1> HIDE DEF x, y
<1>6. Len(x) = l - m BY <1>0, <1>m, <1>4
<1>7. Len(y) = m BY <1>0, <1>m, <1>5
<1>8. /\ r \in Seq(S) /\ Len(r) = Len(x) + Len(y)
      /\ \A i \in 1 .. Len(x) + Len(y) : r[i] = IF i <= Len(x) THEN x[i] ELSE y[i - Len(x)]
  BY <1>4, <1>5, ConcatProperties
<1> HIDE DEF r
<1>9. Len(r) = l BY <1>0, <1>m, <1>6, <1>7, <1>8
<1>10. ASSUME NEW k \in 1 .. l PROVE r[k] = IF k <= l - m THEN s[m + k] ELSE s[k - (l - m)]
  <2>1. r[k] = IF k <= Len(x) THEN x[k] ELSE y[k - Len(x)]
    <3>1. k \in 1 .. Len(x) + Len(y) BY <1>0, <1>m, <1>6, <1>7
    <3> QED BY <1>8, <3>1
  <2>2. CASE k <= l - m
    <3>1. k \in 1 .. l - (m + 1) + 1 /\ m + 1 + k - 1 = m + k BY <1>0, <1>m, <2>2
    <3>2. x[k] = s[m + 1 + k - 1] BY <1>4, <3>1
    <3> QED BY <1>6, <2>1, <2>2, <3>1, <3>2
  <2>3. CASE ~(k <= l - m)
    <3> DEFINE j == k - (l - m)
    <3>1. j \in 1 .. m - 1 + 1 /\ 1 + j - 1 = j BY <1>0, <1>m, <2>3
    <3>2. r[k] = y[j] BY <1>6, <2>1, <2>3
    <3> HIDE DEF j
    <3>3. y[j] = s[1 + j - 1] BY <1>5, <3>1
    <3>4. r[k] = s[j] BY <3>1, <3>2, <3>3
    <3> QED BY <2>3, <3>4 DEF j
  <2> QED BY <2>2, <2>3
<1> QED BY <1>8, <1>9, <1>10 DEF r, x, y, l

\* What a read of n bytes leaves in the frames when it ends in frame e.
Cut(b, off, n, e) ==
    [i \in 1 .. Len(b.frames) |->
        IF i < e THEN ReadFrame(b.frames[i], Len(b.frames[i].data))
        ELSE IF i = e THEN ReadFrame(b.frames[i], n - off[i - 1])
        ELSE b.frames[i]]

\* The number of frames such a read empties.
Emptied(off, n, e) == IF off[e] = n THEN e ELSE e - 1

\* A read of n bytes ends in frame e.
EndsAt(b, off, n, e) ==
    e \in 1 .. b.w /\ off[e] >= n /\ \A i \in 0 .. e - 1 : off[i] < n

\* The buffer after such a read.
ReadTo(b, off, n, e) ==
    LET m == Emptied(off, n, e)
    IN  [frames |-> SubSeq(Cut(b, off, n, e), m + 1, Len(b.frames)) \o SubSeq(Cut(b, off, n, e), 1, m),
         w      |-> IF b.w > m THEN b.w - m ELSE b.w - m + Len(b.frames),
         size   |-> b.size - n]

\* LoopBuf::read finds the frame in which it ends, at or before m_w_pos.
LEMMA ReadIs ==
    ASSUME NEW b, Sound(b), NEW c \in Seq(Int), NEW off, At(b, c, off),
           NEW n \in 1 .. Len(c)
    PROVE  \E e : /\ EndsAt(b, off, n, e)
                  /\ Read(b, n) = ReadTo(b, off, n, e)
<1> DEFINE num == Len(b.frames)
           T == {i \in 1 .. num : Len(BytesOf(b, i)) >= n}
           e == Min(T)
<1>1. num \in Nat /\ Len(c) \in Nat /\ b.w \in 1 .. num BY LenProperties DEF Sound, Buf
<1>2. off \in [0 .. num -> 0 .. Len(c)] /\ off[0] = 0 /\ off[b.w] = Len(c)
  <2>1. b.w \in b.w .. Len(b.frames) BY <1>1
  <2> QED BY <2>1 DEF At
<1>3. \A i \in 0 .. num : Len(BytesOf(b, i)) = off[i] BY BytesAre
<1>4. b.w \in T
  <2>1. b.w \in 0 .. num BY <1>1
  <2>2. Len(BytesOf(b, b.w)) = Len(c) BY <1>2, <1>3, <2>1
  <2> QED BY <1>1, <2>2
<1>5. T \subseteq Nat /\ T # {} BY <1>1, <1>4
<1>6. e \in T /\ \A y \in T : e <= y
  <2> HIDE DEF T
  <2>1. \E x \in T : \A y \in T : x <= y BY <1>5, LeastNat
  <2> QED BY <2>1 DEF Min
<1>7. e \in 1 .. num /\ off[e] >= n
  <2>1. e \in 1 .. num /\ Len(BytesOf(b, e)) >= n BY <1>6
  <2>2. e \in 0 .. num BY <1>1, <2>1
  <2> QED BY <1>3, <2>1, <2>2
<1>8. ASSUME NEW i \in 0 .. e - 1 PROVE off[i] < n
  <2>1. CASE i = 0 BY <1>2, <2>1
  <2>2. CASE i # 0
    <3>1. i \in 1 .. num /\ i \in 0 .. num /\ ~(e <= i) BY <1>1, <1>7, <2>2
    <3>2. i \notin T BY <1>6, <3>1
    <3>3. ~(off[i] >= n) BY <1>3, <3>1, <3>2
    <3>4. off[i] \in 0 .. Len(c) BY <1>2, <3>1
    <3> QED BY <3>3, <3>4, <1>1
  <2> QED BY <2>1, <2>2
<1>9. EndsAt(b, off, n, e)
  <2>1. e <= b.w BY <1>4, <1>6
  <2>2. e \in 1 .. b.w BY <1>1, <1>7, <2>1
  <2> HIDE DEF e
  <2> QED BY <1>7, <1>8, <2>2 DEF EndsAt
<1>10. Len(BytesOf(b, e)) = off[e] /\ Len(BytesOf(b, e - 1)) = off[e - 1]
  <2>1. e \in 0 .. num /\ e - 1 \in 0 .. num BY <1>1, <1>7
  <2> QED BY <1>3, <2>1
<1> DEFINE after == [i \in 1 .. num |->
                       IF i < e THEN ReadFrame(b.frames[i], Len(b.frames[i].data))
                       ELSE IF i = e THEN ReadFrame(b.frames[i], n - Len(BytesOf(b, i - 1)))
                       ELSE b.frames[i]]
           emptied == IF Len(BytesOf(b, e)) = n THEN e ELSE e - 1
<1>11. n # 0 OBVIOUS
<1>12. Read(b, n) = [frames |-> SubSeq(after, emptied + 1, num) \o SubSeq(after, 1, emptied),
                     w      |-> IF b.w > emptied THEN b.w - emptied ELSE b.w - emptied + num,
                     size   |-> b.size - n]
  BY <1>11 DEF Read
<1> HIDE DEF e
<1>13. after = Cut(b, off, n, e) BY <1>10 DEF Cut
<1>14. emptied = Emptied(off, n, e) BY <1>10 DEF Emptied
<1> HIDE DEF after, emptied
<1>15. Read(b, n) = ReadTo(b, off, n, e) BY <1>12, <1>13, <1>14 DEF ReadTo
<1> QED BY <1>9, <1>15

\* The bytes a read leaves in each frame.
LEMMA CutIs ==
    ASSUME NEW b, Sound(b), NEW c \in Seq(Int), NEW off, At(b, c, off),
           NEW n \in 1 .. Len(c), NEW e, EndsAt(b, off, n, e)
    PROVE  /\ Cut(b, off, n, e) \in Seq(Frame) /\ Len(Cut(b, off, n, e)) = Len(b.frames)
           /\ \A i \in 1 .. Len(b.frames) :
                 /\ FrameSound(Cut(b, off, n, e)[i])
                 /\ i < e => Cut(b, off, n, e)[i].data = <<>>
                 /\ i = e => Cut(b, off, n, e)[i].data = SubSeq(c, n + 1, off[i])
                 /\ i > e => Cut(b, off, n, e)[i].data = SubSeq(c, off[i - 1] + 1, off[i])
<1> DEFINE num == Len(b.frames)
           a == Cut(b, off, n, e)
<1>1. num \in Nat /\ Len(c) \in Nat /\ b.w \in 1 .. num BY LenProperties DEF Sound, Buf
<1>2. off \in [0 .. num -> 0 .. Len(c)] BY DEF At
<1>3. \A i \in 1 .. num : off[i - 1] <= off[i] /\ b.frames[i].data = SubSeq(c, off[i - 1] + 1, off[i])
  BY DEF At
<1>4. e \in 1 .. num /\ off[e] >= n /\ off[e - 1] < n
  <2>1. e \in 1 .. num /\ e - 1 \in 0 .. e - 1 BY <1>1 DEF EndsAt
  <2> QED BY <2>1 DEF EndsAt
<1>5. ASSUME NEW i \in 1 .. num
      PROVE  /\ FrameSound(b.frames[i]) /\ b.frames[i] \in Frame /\ b.frames[i].data \in Seq(Int)
             /\ Len(b.frames[i].data) = off[i] - off[i - 1]
             /\ Len(b.frames[i].data) \in Nat
             /\ off[i - 1] \in 0 .. Len(c) /\ off[i] \in off[i - 1] .. Len(c)
  <2>1. FrameSound(b.frames[i]) /\ b.frames[i] \in Frame /\ b.frames[i].data \in Seq(Int)
    BY DEF Sound, FrameSound, Frame
  <2>2. i - 1 \in 0 .. num /\ i \in 0 .. num BY <1>1
  <2>3. off[i - 1] \in 0 .. Len(c) /\ off[i] \in 0 .. Len(c) /\ off[i - 1] <= off[i] BY <1>2, <1>3, <2>2
  <2>4. off[i] \in off[i - 1] .. Len(c) BY <1>1, <2>3
  <2>5. Len(SubSeq(c, off[i - 1] + 1, off[i])) = off[i] - off[i - 1] BY <2>3, <2>4, Slice
  <2>6. b.frames[i].data = SubSeq(c, off[i - 1] + 1, off[i]) BY <1>3
  <2> QED BY <2>1, <2>3, <2>4, <2>5, <2>6, LenProperties
<1>6. ASSUME NEW i \in 1 .. num
      PROVE  /\ FrameSound(a[i]) /\ a[i] \in Frame
             /\ i < e => a[i].data = <<>>
             /\ i = e => a[i].data = SubSeq(c, n + 1, off[i])
             /\ i > e => a[i].data = SubSeq(c, off[i - 1] + 1, off[i])
  <2> DEFINE f == b.frames[i]
  <2>0. a[i] = IF i < e THEN ReadFrame(f, Len(f.data))
               ELSE IF i = e THEN ReadFrame(f, n - off[i - 1]) ELSE f
    BY DEF Cut
  <2>1. FrameSound(f) /\ f \in Frame /\ f.data \in Seq(Int) /\ Len(f.data) \in Nat
        /\ f.data = SubSeq(c, off[i - 1] + 1, off[i])
    BY <1>3, <1>5
  <2> HIDE DEF a, f
  <2>2. CASE i < e
    <3>1. Len(f.data) \in 0 .. Len(f.data) BY <2>1
    <3>2. /\ FrameSound(ReadFrame(f, Len(f.data))) /\ ReadFrame(f, Len(f.data)) \in Frame
          /\ ReadFrame(f, Len(f.data)).data = SubSeq(f.data, Len(f.data) + 1, Len(f.data))
      BY <2>1, <3>1, ReadFrameSound
    <3>3. SubSeq(f.data, Len(f.data) + 1, Len(f.data)) = <<>> BY <2>1, SubSeqEmpty
    <3>4. ~(i = e) /\ ~(i > e) BY <1>1, <1>4, <2>2
    <3> QED BY <2>0, <2>2, <3>2, <3>3, <3>4
  <2>3. CASE i = e
    <3> DEFINE k == n - off[i - 1]
               p == off[i - 1]
               q == off[i]
    <3>0. p \in 0 .. Len(c) /\ q \in p .. Len(c) /\ Len(f.data) = q - p /\ p < n /\ n <= q
      BY <1>4, <1>5, <2>3 DEF f
    <3>d. f.data = SubSeq(c, p + 1, q) BY <2>1
    <3>k. k = n - p OBVIOUS
    <3>a. a[i] = ReadFrame(f, k) BY <2>0, <2>3, <1>1, <1>4
    <3> HIDE DEF k, p, q
    <3>1. k \in 0 .. Len(f.data) BY <3>0, <3>k, <1>1
    <3>2. /\ FrameSound(ReadFrame(f, k)) /\ ReadFrame(f, k) \in Frame
          /\ ReadFrame(f, k).data = SubSeq(f.data, k + 1, Len(f.data))
      BY <2>1, <3>1, ReadFrameSound
    <3>3. k \in 0 .. q - p /\ q - p \in k .. q - p BY <3>0, <3>k, <1>1
    <3>4. SubSeq(SubSeq(c, p + 1, q), k + 1, q - p) = SubSeq(c, p + k + 1, p + (q - p))
      BY <3>0, <3>3, SliceOfSlice
    <3>5. p + k + 1 = n + 1 /\ p + (q - p) = q BY <3>0, <3>k, <1>1
    <3>6. ReadFrame(f, k).data = SubSeq(c, n + 1, q) BY <3>0, <3>d, <3>2, <3>4, <3>5
    <3>7. ~(i < e) /\ ~(i > e) BY <1>1, <1>4, <2>3
    <3> QED BY <3>a, <3>2, <3>6, <3>7 DEF q
  <2>4. CASE i > e
    <3>1. ~(i < e) /\ ~(i = e) BY <1>1, <1>4, <2>4
    <3> QED BY <2>0, <2>1, <3>1
  <2>5. i < e \/ i = e \/ i > e BY <1>1, <1>4
  <2> QED BY <2>2, <2>3, <2>4, <2>5
<1>7. a \in [1 .. num -> Frame]
  <2>1. a = [i \in 1 .. num |-> a[i]] BY DEF Cut
  <2> HIDE DEF a
  <2> QED BY <1>6, <2>1
<1> HIDE DEF a, num
<1>8. a \in Seq(Frame) BY <1>1, <1>7
<1>9. Len(a) = num BY <1>1, <1>7, <1>8, LenProperties
<1> QED BY <1>6, <1>8, <1>9 DEF a, num

\* The frame boundaries after a read of n bytes that empties m frames.
Shifted(off, num, n, m, l) ==
    [k \in 0 .. num |-> IF k = 0 THEN 0 ELSE IF m + k <= num THEN off[m + k] - n ELSE l - n]

\* LoopBuf::read takes the first n bytes and leaves the others in order, wherever
\* the emptied frames go.
LEMMA ReadKeeps ==
    ASSUME NEW b, Sound(b), NEW c \in Seq(Int), Holds(b, c), NEW n \in 0 .. Len(c)
    PROVE  /\ Sound(Read(b, n)) /\ Holds(Read(b, n), SubSeq(c, n + 1, Len(c)))
           /\ Read(b, n).size = b.size - n
<1>0. Len(c) \in Nat /\ b.size = Len(c) BY LenProperties DEF Holds
<1>1. CASE n = 0
  <2>1. Read(b, n) = b BY <1>1 DEF Read
  <2>2. SubSeq(c, n + 1, Len(c)) = c BY <1>1, SubSeqFull
  <2>3. b.size - n = b.size BY <1>0, <1>1
  <2> QED BY <2>1, <2>2, <2>3
<1>2. CASE n \in 1 .. Len(c)
  <2> DEFINE num == Len(b.frames)
             l == Len(c)
             d == SubSeq(c, n + 1, Len(c))
             r == Read(b, n)
  <2>1. PICK off : At(b, c, off) BY DEF Holds
  <2>e. \E e : EndsAt(b, off, n, e) /\ Read(b, n) = ReadTo(b, off, n, e) BY <1>2, <2>1, ReadIs
  <2>2. PICK e : EndsAt(b, off, n, e) /\ r = ReadTo(b, off, n, e) BY <2>e
  <2> DEFINE a == Cut(b, off, n, e)
             m == Emptied(off, n, e)
             v == IF b.w > m THEN b.w - m ELSE b.w - m + num
             new == Shifted(off, num, n, m, l)
  <2>3. /\ a \in Seq(Frame) /\ Len(a) = num
        /\ \A i \in 1 .. num :
              /\ FrameSound(a[i])
              /\ i < e => a[i].data = <<>>
              /\ i = e => a[i].data = SubSeq(c, n + 1, off[i])
              /\ i > e => a[i].data = SubSeq(c, off[i - 1] + 1, off[i])
    <3>1. EndsAt(b, off, n, e) BY <2>2
    <3> QED BY <1>2, <2>1, <3>1, CutIs, SMTT(30)
  <2>4. num \in Nat /\ b.w \in 1 .. num BY LenProperties DEF Sound, Buf
  <2>5. /\ r.frames = SubSeq(a, m + 1, num) \o SubSeq(a, 1, m)
        /\ r.w = v /\ r.size = b.size - n
        /\ r = [frames |-> r.frames, w |-> r.w, size |-> r.size]
    <3>1. r = [frames |-> SubSeq(a, m + 1, num) \o SubSeq(a, 1, m), w |-> v, size |-> b.size - n]
      BY <2>2 DEF ReadTo
    <3> HIDE DEF r, a, m, v, num
    <3> QED BY <3>1
  <2>6. e \in 1 .. b.w /\ off[e] >= n /\ \A i \in 0 .. e - 1 : off[i] < n BY <2>2 DEF EndsAt
  <2>7. (off[e] = n /\ m = e) \/ (off[e] # n /\ m = e - 1) BY DEF Emptied
  <2>8. off \in [0 .. num -> 0 .. l] /\ off[0] = 0 /\ (\A i \in b.w .. num : off[i] = l)
    BY <2>1 DEF At
  <2>9. \A i \in 1 .. num : off[i - 1] <= off[i] BY <2>1 DEF At
  <2>10. \A i \in 1 .. b.w - 1 : off[i - 1] = off[i] => off[i] = 0 BY <2>1 DEF At
  <2>11. \A i \in e .. num : off[i] >= n
    <3> TAKE i \in e .. num
    <3>1. e \in 0 .. num /\ i \in 0 .. num BY <2>4, <2>6
    <3>2. off[e] <= off[i] BY <2>1, <3>1, OffsetsGrow
    <3>3. off[e] \in 0 .. l /\ off[i] \in 0 .. l BY <2>8, <3>1
    <3>4. off[e] \in Int /\ off[i] \in Int BY <1>0, <3>3
    <3> QED BY <1>2, <1>0, <2>6, <3>2, <3>4
  <2>l. l \in Nat /\ n \in 1 .. l BY <1>0, <1>2
  <2>d. d \in Seq(Int) /\ Len(d) = l - n
    <3>1. n \in 0 .. Len(c) /\ Len(c) \in n .. Len(c) BY <1>0, <1>2
    <3> QED BY <3>1, Slice
  <2> HIDE DEF a, m, r, l, num, d
  <2>12. m \in 0 .. num /\ m \in {e - 1, e} BY <2>4, <2>6, <2>7
  <2>13. /\ r.frames \in Seq(Frame) /\ Len(r.frames) = num
         /\ \A k \in 1 .. num : r.frames[k] = IF k <= num - m THEN a[m + k] ELSE a[k - (num - m)]
    <3>1. a \in Seq(Frame) /\ Len(a) = num /\ m \in 0 .. Len(a) BY <2>3, <2>12
    <3>2. LET x == SubSeq(a, m + 1, Len(a)) \o SubSeq(a, 1, m)
          IN  /\ x \in Seq(Frame) /\ Len(x) = Len(a)
              /\ \A k \in 1 .. Len(a) :
                    x[k] = IF k <= Len(a) - m THEN a[m + k] ELSE a[k - (Len(a) - m)]
      BY <3>1, Rotated, Zenon
    <3> QED BY <2>5, <3>1, <3>2
  <2>14. v \in 1 .. num BY <2>4, <2>6, <2>12
  <2>15. \A k \in 1 .. num : FrameSound(r.frames[k])
    <3> TAKE k \in 1 .. num
    <3>1. CASE k <= num - m
      <4>1. m + k \in 1 .. num BY <2>4, <2>12, <3>1
      <4> QED BY <2>3, <2>13, <3>1, <4>1
    <3>2. CASE ~(k <= num - m)
      <4>1. k - (num - m) \in 1 .. num BY <2>4, <2>12, <3>2
      <4> QED BY <2>3, <2>13, <3>2, <4>1
    <3> QED BY <3>1, <3>2
  <2>16. b.size - n \in Nat BY <1>0, <1>2
  <2>17. Sound(r)
    <3>1. v \in Nat BY <2>4, <2>14
    <3>2. r \in Buf BY <2>5, <2>13, <2>16, <3>1 DEF Buf
    <3> HIDE DEF v
    <3> QED BY <2>5, <2>13, <2>14, <2>15, <3>2 DEF Sound
  <2>18. b.w <= m => n = l /\ m = e /\ e = b.w
    <3> SUFFICES ASSUME b.w <= m PROVE n = l /\ m = e /\ e = b.w OBVIOUS
    <3>1. m = e /\ e = b.w BY <2>4, <2>6, <2>12
    <3>2. off[e] = n BY <2>7, <3>1, <2>6, <2>4
    <3>3. off[b.w] = l BY <2>4, <2>8
    <3> QED BY <3>1, <3>2, <3>3
  <2>19. ASSUME NEW k \in 1 .. num
         PROVE  /\ new[k] \in 0 .. l - n
                /\ m + k <= num => new[k] = off[m + k] - n /\ m + k \in 1 .. num /\ off[m + k] \in n .. l
                /\ ~(m + k <= num) => new[k] = l - n
    <3>1. k \in 0 .. num /\ k # 0 BY <2>4
    <3>2. new[k] = IF m + k <= num THEN off[m + k] - n ELSE l - n BY <3>1 DEF Shifted
    <3>3. CASE m + k <= num
      <4>1. m + k \in e .. num /\ m + k \in 1 .. num /\ m + k \in 0 .. num BY <2>4, <2>6, <2>12, <3>3
      <4>2. off[m + k] >= n /\ off[m + k] \in 0 .. l BY <2>8, <2>11, <4>1
      <4>3. off[m + k] \in n .. l BY <2>l, <4>2
      <4>4. off[m + k] - n \in 0 .. l - n BY <2>l, <4>3
      <4> QED BY <3>2, <3>3, <4>1, <4>3, <4>4
    <3>4. CASE ~(m + k <= num)
      <4>1. l - n \in 0 .. l - n BY <2>l
      <4> QED BY <3>2, <3>4, <4>1
    <3> QED BY <3>3, <3>4
  <2>20. new[0] = 0 BY <2>4 DEF Shifted
  <2>21. new \in [0 .. num -> 0 .. l - n]
    <3>1. \A k \in 0 .. num : new[k] \in 0 .. l - n
      <4> TAKE k \in 0 .. num
      <4>1. CASE k = 0 BY <2>20, <2>l, <4>1
      <4>2. CASE k # 0
        <5>1. k \in 1 .. num BY <2>4, <4>2
        <5> QED BY <2>19, <5>1
      <4> QED BY <4>1, <4>2
    <3>2. new = [k \in 0 .. num |-> new[k]] BY DEF Shifted
    <3> HIDE DEF new
    <3> QED BY <3>1, <3>2
  <2> HIDE DEF new
  <2>22. \A k \in v .. num : new[k] = l - n
    <3> TAKE k \in v .. num
    <3>1. k \in 1 .. num BY <2>4, <2>14
    <3>2. CASE m + k <= num
      <4>1. m + k \in b.w .. num BY <2>4, <2>12, <2>14, <3>2
      <4>2. off[m + k] = l BY <2>8, <4>1
      <4> QED BY <2>19, <3>1, <3>2, <4>2
    <3> QED BY <2>19, <3>1, <3>2
  <2>23. ASSUME NEW k \in 1 .. num
         PROVE  new[k - 1] <= new[k] /\ r.frames[k].data = SubSeq(d, new[k - 1] + 1, new[k])
    <3>0. new[k] \in 0 .. l - n /\ new[k - 1] \in 0 .. l - n
      <4>1. k \in 0 .. num /\ k - 1 \in 0 .. num BY <2>4
      <4> QED BY <2>21, <4>1
    <3>s. ASSUME NEW i \in n .. l, NEW j \in i .. l
          PROVE  SubSeq(d, (i - n) + 1, j - n) = SubSeq(c, i + 1, j)
      <4>1. n \in 0 .. Len(c) /\ Len(c) \in n .. Len(c) /\ i - n \in 0 .. Len(c) - n
            /\ j - n \in i - n .. Len(c) - n
        BY <2>l DEF l
      <4> DEFINE x == i - n
                 y == j - n
      <4>2. n + x = i /\ n + y = j BY <2>l
      <4>3. x \in 0 .. Len(c) - n /\ y \in x .. Len(c) - n BY <4>1
      <4> HIDE DEF x, y
      <4>4. SubSeq(SubSeq(c, n + 1, Len(c)), x + 1, y) = SubSeq(c, n + x + 1, n + y)
        BY <4>1, <4>3, SliceOfSlice
      <4> QED BY <4>2, <4>4 DEF x, y, d
    <3>1. CASE m + k > num
      <4>1. ~(k <= num - m) /\ k - (num - m) \in 1 .. num /\ k - (num - m) <= m /\ ~(m + k <= num)
        BY <2>4, <2>12, <3>1
      <4>2. r.frames[k] = a[k - (num - m)] BY <2>13, <4>1
      <4>3. k - (num - m) < e \/ (k - (num - m) = e /\ m = e) BY <2>4, <2>6, <2>12, <4>1
      <4>4. r.frames[k].data = <<>>
        <5>1. CASE k - (num - m) < e BY <2>3, <4>1, <4>2, <5>1
        <5>2. CASE k - (num - m) = e /\ m = e
          <6>1. r.frames[k].data = SubSeq(c, n + 1, off[e]) BY <2>3, <4>1, <4>2, <5>2
          <6>2. off[e] = n BY <2>7, <5>2, <2>6, <2>4
          <6>3. SubSeq(c, n + 1, n) = <<>> BY <2>l, SubSeqEmpty
          <6> QED BY <6>1, <6>2, <6>3
        <5> QED BY <4>3, <5>1, <5>2
      <4>5. new[k] = l - n BY <2>19, <4>1
      <4>6. new[k - 1] = l - n
        <5>1. CASE m + k - 1 <= num
          <6>1. m + (k - 1) = num BY <3>1, <5>1, <2>4, <2>12
          <6>2. CASE k = 1
            <7>1. m = num BY <6>1, <6>2, <2>4, <2>12
            <7>2. b.w <= m BY <7>1, <2>4
            <7>3. l - n = 0 BY <7>2, <2>18, <2>l
            <7> QED BY <6>2, <7>3, <2>20
          <6>3. CASE k # 1
            <7>1. k - 1 \in 1 .. num /\ m + (k - 1) <= num BY <6>1, <6>3, <2>4
            <7>2. new[k - 1] = off[m + (k - 1)] - n BY <2>19, <7>1
            <7>3. off[num] = l
              <8>1. num \in b.w .. num BY <2>4
              <8> QED BY <2>8, <8>1
            <7> QED BY <6>1, <7>2, <7>3
          <6> QED BY <6>2, <6>3
        <5>2. CASE ~(m + k - 1 <= num)
          <6>1. k - 1 \in 1 .. num /\ ~(m + (k - 1) <= num) BY <5>2, <2>4, <2>12
          <6> QED BY <2>19, <6>1
        <5> QED BY <5>1, <5>2
      <4>7. SubSeq(d, (l - n) + 1, l - n) = <<>>
        <5>1. l - n \in Int BY <2>l
        <5> DEFINE x == l - n
        <5> HIDE DEF x
        <5>2. x \in Int /\ x < x + 1 BY <5>1 DEF x
        <5>3. SubSeq(d, x + 1, x) = <<>> BY <5>2, SubSeqEmpty
        <5> QED BY <5>3 DEF x
      <4>8. l - n <= l - n BY <2>l
      <4> QED BY <4>4, <4>5, <4>6, <4>7, <4>8
    <3>2. CASE m + k <= num
      <4>1. k <= num - m /\ m + k \in 1 .. num /\ m + k >= e BY <2>4, <2>6, <2>12, <3>2
      <4>2. r.frames[k] = a[m + k] BY <2>13, <4>1
      <4>3. new[k] = off[m + k] - n /\ off[m + k] \in n .. l BY <2>19, <3>2
      <4>4. CASE m + k = e
        <5>1. k = 1 BY <4>4, <2>12, <2>4, <2>6
        <5>2. new[k - 1] = 0 BY <5>1, <2>20
        <5>3. r.frames[k].data = SubSeq(c, n + 1, off[m + k]) BY <2>3, <4>1, <4>2, <4>4
        <5>4. n \in n .. l /\ n - n = 0 BY <2>l
        <5>5. SubSeq(d, (n - n) + 1, off[m + k] - n) = SubSeq(c, n + 1, off[m + k]) BY <3>s, <4>3, <5>4
        <5>6. SubSeq(d, 0 + 1, off[m + k] - n) = SubSeq(c, n + 1, off[m + k]) BY <5>4, <5>5
        <5>7. 0 <= new[k] BY <3>0, <2>l
        <5> QED BY <4>3, <5>2, <5>3, <5>6, <5>7
      <4>5. CASE m + k > e
        <5>1. r.frames[k].data = SubSeq(c, off[m + k - 1] + 1, off[m + k])
          <6> DEFINE i == m + k
          <6>0. i - 1 = m + k - 1 BY <2>4, <2>12
          <6>1. i \in 1 .. num /\ i > e /\ r.frames[k] = a[i] BY <4>1, <4>2, <4>5
          <6> HIDE DEF i
          <6>2. a[i].data = SubSeq(c, off[i - 1] + 1, off[i]) BY <2>3, <6>1
          <6>3. r.frames[k].data = SubSeq(c, off[i - 1] + 1, off[i]) BY <6>1, <6>2
          <6> QED BY <6>0, <6>3 DEF i
        <5>2. new[k - 1] = off[m + k - 1] - n /\ off[m + k - 1] \in n .. l
          <6>1. CASE k = 1
            <7>1. m = e /\ m + k - 1 = e BY <4>5, <6>1, <2>12, <2>6, <2>4
            <7>2. off[e] = n BY <2>7, <7>1, <2>6, <2>4
            <7>3. n - n = 0 /\ n \in n .. l BY <2>l
            <7> QED BY <6>1, <7>1, <7>2, <7>3, <2>20
          <6>2. CASE k # 1
            <7>1. k - 1 \in 1 .. num /\ m + (k - 1) <= num /\ m + (k - 1) = m + k - 1
              BY <6>2, <2>4, <2>12, <3>2
            <7>2. new[k - 1] = off[m + (k - 1)] - n /\ off[m + (k - 1)] \in n .. l BY <2>19, <7>1
            <7> QED BY <7>1, <7>2
          <6> QED BY <6>1, <6>2
        <5> DEFINE p == off[m + k - 1]
                   q == off[m + k]
        <5>3. p <= q
          <6> DEFINE i == m + k
          <6>0. i - 1 = m + k - 1 BY <2>4, <2>12
          <6>1. i \in 1 .. num BY <4>1
          <6> HIDE DEF i
          <6>2. off[i - 1] <= off[i] BY <2>9, <6>1
          <6> QED BY <6>0, <6>2 DEF i
        <5>4. p \in n .. l /\ q \in n .. l /\ new[k - 1] = p - n /\ new[k] = q - n BY <4>3, <5>2
        <5>5. r.frames[k].data = SubSeq(c, p + 1, q) BY <5>1
        <5> HIDE DEF p, q
        <5>6. q \in p .. l BY <5>3, <5>4, <2>l
        <5>7. SubSeq(d, (p - n) + 1, q - n) = SubSeq(c, p + 1, q) BY <3>s, <5>4, <5>6
        <5>8. p - n <= q - n BY <5>3, <5>4, <2>l
        <5> QED BY <5>4, <5>5, <5>7, <5>8
      <4>6. m + k = e \/ m + k > e BY <4>1, <2>4, <2>6, <2>12
      <4> QED BY <4>4, <4>5, <4>6
    <3>3. m + k > num \/ m + k <= num BY <2>4, <2>12
    <3> QED BY <3>1, <3>2, <3>3
  <2>24. ASSUME NEW k \in 1 .. v - 1, new[k - 1] = new[k] PROVE new[k] = 0
    <3>0. k \in 1 .. num BY <2>14, <2>4
    <3>1. CASE b.w <= m
      <4>1. l - n = 0 BY <2>18, <3>1, <2>l
      <4>2. new[k] \in 0 .. l - n BY <2>19, <3>0
      <4> QED BY <4>1, <4>2, <2>l
    <3>2. CASE ~(b.w <= m)
      <4>1. v = b.w - m BY <3>2, <2>4, <2>12, <2>6
      <4> HIDE DEF v
      <4>2. m + k \in 1 .. b.w - 1 /\ m + k <= num BY <4>1, <2>4, <2>12, <3>0
      <4>3. new[k] = off[m + k] - n /\ off[m + k] \in n .. l BY <2>19, <3>0, <4>2
      <4>4. CASE k = 1 BY <4>4, <2>20, <2>24
      <4>5. CASE k # 1
        <5>1. k - 1 \in 1 .. num /\ m + (k - 1) <= num /\ m + (k - 1) = m + k - 1
          BY <3>0, <4>2, <4>5, <2>4, <2>12
        <5>2. new[k - 1] = off[m + (k - 1)] - n /\ off[m + (k - 1)] \in n .. l BY <2>19, <5>1
        <5> DEFINE p == off[m + k - 1]
                   q == off[m + k]
        <5>3. p - n = q - n /\ p \in n .. l /\ q \in n .. l BY <2>24, <4>3, <5>1, <5>2
        <5>4. p = q => q = 0
          <6> DEFINE i == m + k
          <6>0. i - 1 = m + k - 1 BY <2>4, <2>12
          <6>1. i \in 1 .. b.w - 1 BY <4>2
          <6> HIDE DEF i
          <6>2. off[i - 1] = off[i] => off[i] = 0 BY <2>10, <6>1
          <6> QED BY <6>0, <6>2 DEF i
        <5> HIDE DEF p, q
        <5>5. p = q BY <5>3, <2>l
        <5> QED BY <5>3, <5>4, <5>5, <2>l
      <4> QED BY <4>4, <4>5
    <3> QED BY <3>1, <3>2
  <2> HIDE DEF v
  <2>25. At(r, d, new) BY <2>5, <2>13, <2>d, <2>20, <2>21, <2>22, <2>23, <2>24 DEF At
  <2>26. r.size = Len(d) BY <1>0, <2>5, <2>d DEF l
  <2>27. Holds(r, d) BY <2>25, <2>26 DEF Holds
  <2> QED BY <2>5, <2>17, <2>27 DEF r, d
<1>3. n = 0 \/ n \in 1 .. Len(c) BY <1>0
<1> QED BY <1>1, <1>2, <1>3

-----------------------------------------------------------------------------
(* LoopBufUse: the buffer is a queue of the bytes numbered front to back    *)

\* The remainder is unique.
LEMMA QuotientUnique ==
    ASSUME NEW m \in Nat \ {0}, NEW q \in Int, NEW r \in 0 .. m - 1, NEW x \in Nat, x = m * q + r
    PROVE  x % m = r
<1> DEFINE u == x % m
<1>2. PICK p \in Int : u \in 0 .. m - 1 /\ x = m * p + u BY DivMod
<1> HIDE DEF u
<1>3. m * (p - q) = r - u BY <1>2
<1>4. p = q
  <2> SUFFICES ASSUME p # q PROVE FALSE OBVIOUS
  <2>1. p - q \in Int /\ p - q # 0 BY <1>2
  <2>2. m * (p - q) < m /\ m * (p - q) > 0 - m BY <1>2, <1>3
  <2> DEFINE t == p - q
  <2>3. t \in Int /\ t # 0 /\ m * t < m /\ m * t > 0 - m BY <2>1, <2>2
  <2> HIDE DEF t
  <2> QED BY <2>3, Multiples
<1>5. u = r BY <1>2, <1>3, <1>4
<1> QED BY <1>5 DEF u

\* A sum may be reduced on the way.
LEMMA ModAdd ==
    ASSUME NEW m \in Nat \ {0}, NEW x \in Nat, NEW k \in Nat
    PROVE  ((x % m) + k) % m = (x + k) % m
<1> DEFINE u == x % m
<1>2. PICK q \in Int : u \in 0 .. m - 1 /\ x = m * q + u BY DivMod
<1> HIDE DEF u
<1> DEFINE y == u + k
           v == y % m
<1>3. y \in Nat BY <1>2
<1> HIDE DEF y
<1>4. PICK p \in Int : v \in 0 .. m - 1 /\ y = m * p + v BY <1>3, DivMod
<1> HIDE DEF v
<1> DEFINE z == x + k
           t == q + p
<1>5. z \in Nat /\ t \in Int /\ z = m * t + v BY <1>2, <1>4 DEF y
<1> HIDE DEF z, t
<1>6. z % m = v BY <1>4, <1>5, QuotientUnique
<1> QED BY <1>6 DEF u, v, y, z

\* A number below the modulus is its own remainder.
LEMMA ModSmall ==
    ASSUME NEW m \in Nat \ {0}, NEW x \in 0 .. m - 1
    PROVE  x % m = x
<1>1. x \in Nat /\ 0 \in Int /\ x = m * 0 + x OBVIOUS
<1> QED BY <1>1, QuotientUnique

\* The numbered bytes: how many, and which.
LEMMA WrappedIs ==
    ASSUME NEW k \in Nat, NEW n \in Nat
    PROVE  /\ Wrapped(k, n) \in Seq(Int) /\ Len(Wrapped(k, n)) = n
           /\ \A i \in 1 .. n : Wrapped(k, n)[i] = (k + (i - 1)) % Modulus
<1> DEFINE s == Wrapped(k, n)
<1>0. Modulus \in Nat \ {0} BY LoopBufUseAssumption
<1>1. \A i \in 1 .. n : s[i] = (k + (i - 1)) % Modulus BY DEF Wrapped
<1>2. s = [i \in 1 .. n |-> s[i]] BY DEF Wrapped
<1> HIDE DEF s
<1>3. \A i \in 1 .. n : s[i] \in Int
  <2> TAKE i \in 1 .. n
  <2>1. k + (i - 1) \in Nat OBVIOUS
  <2> DEFINE x == k + (i - 1)
  <2> HIDE DEF x
  <2>2. x % Modulus \in Int BY <1>0, <2>1 DEF x
  <2> QED BY <1>1, <2>2 DEF x
<1>4. s \in [1 .. n -> Int] BY <1>2, <1>3
<1>5. s \in Seq(Int) BY <1>4
<1>6. Len(s) = n BY <1>4, <1>5, LenProperties
<1> QED BY <1>1, <1>5, <1>6 DEF s

\* The first m of n numbered bytes.
LEMMA WrappedStarts ==
    ASSUME NEW k \in Nat, NEW n \in Nat, NEW m \in 0 .. n
    PROVE  SubSeq(Wrapped(k, n), 1, m) = Wrapped(k, m)
<1> DEFINE s == Wrapped(k, n)
           t == Wrapped(k, m)
           u == SubSeq(s, 1, m)
<1>1. s \in Seq(Int) /\ Len(s) = n /\ \A i \in 1 .. n : s[i] = (k + (i - 1)) % Modulus BY WrappedIs
<1>2. t \in Seq(Int) /\ Len(t) = m /\ \A i \in 1 .. m : t[i] = (k + (i - 1)) % Modulus BY WrappedIs
<1> HIDE DEF s, t
<1>3. SubSeq(s, 0 + 1, m) \in Seq(Int) /\ Len(SubSeq(s, 0 + 1, m)) = m - 0
      /\ \A i \in 1 .. m - 0 : SubSeq(s, 0 + 1, m)[i] = s[0 + i]
  <2>1. 0 \in 0 .. Len(s) /\ m \in 0 .. Len(s) BY <1>1
  <2> QED BY <1>1, <2>1, Slice
<1>4. u \in Seq(Int) /\ Len(u) = m /\ \A i \in 1 .. m : u[i] = s[i] BY <1>3
<1> HIDE DEF u
<1>5. \A i \in 1 .. m : u[i] = t[i]
  <2> TAKE i \in 1 .. m
  <2>1. i \in 1 .. n OBVIOUS
  <2> QED BY <1>1, <1>2, <1>4, <2>1
<1>6. u = t BY <1>2, <1>4, <1>5, SeqEqual
<1> QED BY <1>6 DEF s, t, u

\* What follows the first m of n numbered bytes.
LEMMA WrappedEnds ==
    ASSUME NEW k \in Nat, NEW n \in Nat, NEW m \in 0 .. n
    PROVE  SubSeq(Wrapped(k, n), m + 1, n) = Wrapped((k + m) % Modulus, n - m)
<1> DEFINE j == (k + m) % Modulus
           l == n - m
           s == Wrapped(k, n)
           t == Wrapped(j, l)
           u == SubSeq(s, m + 1, n)
<1>0. Modulus \in Nat \ {0} BY LoopBufUseAssumption
<1>1. s \in Seq(Int) /\ Len(s) = n /\ \A i \in 1 .. n : s[i] = (k + (i - 1)) % Modulus BY WrappedIs
<1>2. j \in Nat /\ l \in Nat
  <2> DEFINE x == k + m
  <2>1. x \in Nat OBVIOUS
  <2> HIDE DEF x
  <2>2. x % Modulus \in Nat BY <1>0, <2>1, DivMod
  <2> QED BY <2>2 DEF x
<1> HIDE DEF s, j, l
<1>3. t \in Seq(Int) /\ Len(t) = l /\ \A i \in 1 .. l : t[i] = (j + (i - 1)) % Modulus
  BY <1>2, WrappedIs
<1>4. u \in Seq(Int) /\ Len(u) = n - m /\ \A i \in 1 .. n - m : u[i] = s[m + i]
  <2>1. m \in 0 .. Len(s) /\ n \in m .. Len(s) BY <1>1
  <2> QED BY <1>1, <2>1, Slice
<1> HIDE DEF t, u
<1>5. \A i \in 1 .. l : u[i] = t[i]
  <2> TAKE i \in 1 .. l
  <2>1. i \in 1 .. n - m /\ m + i \in 1 .. n /\ i - 1 \in Nat BY <1>2 DEF l
  <2>2. u[i] = (k + (m + i - 1)) % Modulus
    <3>1. u[i] = s[m + i] BY <1>4, <2>1
    <3>2. s[m + i] = (k + ((m + i) - 1)) % Modulus BY <1>1, <2>1
    <3>3. (m + i) - 1 = m + i - 1 BY <2>1
    <3> QED BY <3>1, <3>2, <3>3
  <2>3. t[i] = (j + (i - 1)) % Modulus BY <1>3
  <2> DEFINE x == k + m
             y == i - 1
  <2>4. x \in Nat /\ y \in Nat /\ x + y = k + (m + i - 1) BY <2>1
  <2>5. j = x % Modulus BY DEF j
  <2>6. ((x % Modulus) + y) % Modulus = (x + y) % Modulus
    <3> HIDE DEF x, y
    <3> QED BY <1>0, <2>4, ModAdd
  <2> QED BY <2>2, <2>3, <2>4, <2>5, <2>6
<1>6. u = t BY <1>3, <1>4, <1>5, SeqEqual DEF l
<1> QED BY <1>6 DEF s, t, u, j, l

\* Numbered bytes followed by the next ones.
LEMMA WrappedJoin ==
    ASSUME NEW k \in Nat, NEW n \in Nat, NEW m \in Nat
    PROVE  Wrapped(k, n) \o Wrapped((k + n) % Modulus, m) = Wrapped(k, n + m)
<1> DEFINE l == n + m
           s == Wrapped(k, l)
           x == SubSeq(s, 1, n)
           y == SubSeq(s, n + 1, l)
<1>1. l \in Nat /\ n \in 0 .. l /\ l - n = m OBVIOUS
<1> HIDE DEF l
<1>2. x = Wrapped(k, n) BY <1>1, WrappedStarts
<1>3. y = Wrapped((k + n) % Modulus, m) BY <1>1, WrappedEnds
<1>4. s \in Seq(Int) /\ Len(s) = l BY <1>1, WrappedIs
<1> HIDE DEF s
<1>5. x \o y = s
  <2>1. 1 \in 1 .. Len(s) + 1 /\ n \in 1 - 1 .. Len(s) /\ l \in n .. Len(s) BY <1>1, <1>4
  <2>2. x \o y = SubSeq(s, 1, l) BY <1>4, <2>1, ConcatAdjacentSubSeq
  <2>3. SubSeq(s, 1, Len(s)) = s BY <1>4, SubSeqFull
  <2> QED BY <1>4, <2>2, <2>3
<1> QED BY <1>2, <1>3, <1>5 DEF s, l

\* The buffer holds the bytes numbered from front to back.
UseInv ==
    /\ Sound(buf) /\ front \in 0 .. Modulus - 1 /\ lost \in Nat
    /\ Holds(buf, Wrapped(front, buf.size))
    /\ back = (front + buf.size) % Modulus

\* The new buffer satisfies the invariant.
LEMMA UseInvInit == UseInit => UseInv
<1> SUFFICES ASSUME UseInit PROVE UseInv OBVIOUS
<1>1. buf = EmptyBuf /\ front = 0 /\ back = 0 /\ lost = 0 BY DEF UseInit
<1>2. Sound(EmptyBuf) /\ Holds(EmptyBuf, <<>>) /\ EmptyBuf.size = 0 BY EmptyIsSound DEF EmptyBuf
<1>3. Modulus \in Nat \ {0} BY LoopBufUseAssumption
<1>4. Wrapped(0, 0) = <<>> BY DEF Wrapped
<1>5. 0 % Modulus = 0 /\ 0 \in 0 .. Modulus - 1 BY <1>3, ModSmall
<1> QED BY <1>1, <1>2, <1>3, <1>4, <1>5 DEF UseInv

\* A message written with autoResizeWrite; what it drops and when.
LEMMA UseWrite ==
    ASSUME UseInv, NEW n \in 1 .. MaxWrite, WriteMessage(n)
    PROVE  /\ UseInv'
           /\ lost' > 0 => /\ lost' < Header
                           /\ Len(Rest(buf, Wrapped(back, n))) % Align > Align - Header
<1> DEFINE c == Wrapped(front, buf.size)
           s == Wrapped(back, n)
           d == Dropped(buf, s)
           a == AutoResizeWrite(buf, s)
           k == n - d
<1>0. Modulus \in Nat \ {0} /\ n \in Nat /\ n > 0 BY LoopBufUseAssumption
<1>1. front \in Nat /\ buf.size \in Nat /\ Sound(buf) /\ Holds(buf, c)
      /\ back = (front + buf.size) % Modulus
  BY <1>0 DEF UseInv, Sound, Buf
<1>2. back \in Nat
  <2> DEFINE x == front + buf.size
  <2>1. x \in Nat BY <1>1
  <2> HIDE DEF x
  <2>2. x % Modulus \in Nat BY <1>0, <2>1, DivMod
  <2> QED BY <1>1, <2>2 DEF x
<1>3. c \in Seq(Int) BY <1>1, WrappedIs
<1>4. s \in Seq(Int) /\ Len(s) = n BY <1>0, <1>2, WrappedIs
<1>5. /\ buf' = a /\ lost' = n - (a.size - buf.size) /\ back' = (back + n - lost') % Modulus
      /\ front' = front
  BY DEF WriteMessage
<1> HIDE DEF c, s
<1>6. /\ d \in 0 .. Len(s) /\ Sound(a) /\ Holds(a, c \o SubSeq(s, 1, Len(s) - d))
      /\ a.size = buf.size + (Len(s) - d)
      /\ d > 0 => d < Header /\ Len(Rest(buf, s)) % Align > Align - Header
  BY <1>1, <1>3, <1>4, AutoResizeKeeps
<1> HIDE DEF d, a
<1>7. k \in 0 .. n /\ Len(s) - d = k /\ d \in Nat /\ k \in Nat /\ d = n - k BY <1>0, <1>4, <1>6
<1> HIDE DEF k
<1>8. a.size = buf.size + k BY <1>6, <1>7
<1>9. lost' = d
  <2>1. a.size - buf.size = k BY <1>1, <1>7, <1>8
  <2>2. lost' = n - k BY <1>5, <2>1
  <2> QED BY <1>7, <2>2
<1>10. SubSeq(s, 1, k) = Wrapped(back, k) BY <1>0, <1>2, <1>7, WrappedStarts DEF s
<1>11. c \o Wrapped(back, k) = Wrapped(front, buf.size + k)
  <2>1. front \in Nat /\ buf.size \in Nat /\ k \in Nat BY <1>1, <1>7
  <2>2. Wrapped(front, buf.size) \o Wrapped((front + buf.size) % Modulus, k)
            = Wrapped(front, buf.size + k)
    BY <2>1, WrappedJoin, Zenon
  <2> QED BY <1>1, <2>2 DEF c
<1>12. Holds(a, Wrapped(front, a.size)) BY <1>6, <1>7, <1>8, <1>10, <1>11
<1>13. back' = (front + a.size) % Modulus
  <2> DEFINE x == front + buf.size
  <2>1. x \in Nat /\ x + k = front + a.size BY <1>1, <1>7, <1>8
  <2>2. back = x % Modulus BY <1>1
  <2>3. n - lost' = k BY <1>9, <1>7, <1>0
  <2>4. back' = (back + k) % Modulus BY <1>5, <2>3
  <2> HIDE DEF x
  <2>5. ((x % Modulus) + k) % Modulus = (x + k) % Modulus BY <1>0, <1>7, <2>1, ModAdd
  <2> QED BY <2>1, <2>2, <2>4, <2>5
<1>14. UseInv'
  <2>1. front' \in 0 .. Modulus - 1 /\ lost' \in Nat BY <1>5, <1>7, <1>9 DEF UseInv
  <2> QED BY <1>5, <1>6, <1>12, <1>13, <2>1 DEF UseInv
<1> QED BY <1>6, <1>9, <1>14 DEF s

\* Bytes received into the frame at m_w_pos are all kept: handleRead asks the socket
\* for no more than there is room.
LEMMA UseReceive ==
    ASSUME UseInv, NEW n \in 1 .. MaxWrite, Receive(n)
    PROVE  UseInv'
<1> DEFINE c == Wrapped(front, buf.size)
           s == Wrapped(back, n)
           b == Receivable
           a == Write(b, s)
           k == Took(b, s)
<1>0. Modulus \in Nat \ {0} /\ n \in Nat /\ n > 0 /\ RecvExtend \in Nat BY LoopBufUseAssumption
<1>1. front \in Nat /\ buf.size \in Nat /\ Sound(buf) /\ Holds(buf, c)
      /\ back = (front + buf.size) % Modulus
  BY <1>0 DEF UseInv, Sound, Buf
<1>2. back \in Nat
  <2> DEFINE x == front + buf.size
  <2>1. x \in Nat BY <1>1
  <2> HIDE DEF x
  <2>2. x % Modulus \in Nat BY <1>0, <2>1, DivMod
  <2> QED BY <1>1, <2>2 DEF x
<1>3. c \in Seq(Int) BY <1>1, WrappedIs
<1>4. s \in Seq(Int) /\ Len(s) = n BY <1>0, <1>2, WrappedIs
<1>5. /\ buf' = a /\ lost' = 0 /\ back' = (back + n) % Modulus /\ front' = front
      /\ n <= Room(b.frames[b.w])
  BY DEF Receive, FreeFrameLen
<1> HIDE DEF c, s
<1>6. Sound(b) /\ Holds(b, c) /\ b.size = buf.size
  <2>1. Sound(Extend(buf, RecvExtend)) /\ Holds(Extend(buf, RecvExtend), c)
        /\ Extend(buf, RecvExtend).size = buf.size
    BY <1>0, <1>1, <1>3, ExtendKeeps
  <2>2. b = Extend(buf, RecvExtend) \/ b = buf BY DEF Receivable
  <2> HIDE DEF b
  <2> QED BY <1>1, <2>1, <2>2
<1> HIDE DEF b, a, k
<1>7. /\ k \in 0 .. Len(s) /\ Rest(b, s) \in Seq(Int) /\ Len(Rest(b, s)) = Len(s) - k
      /\ Sound(a) /\ Holds(a, c \o SubSeq(s, 1, k))
      /\ Rest(b, s) # <<>> => (~Full(b.frames[b.w]) => k >= Room(b.frames[b.w]))
  BY <1>3, <1>4, <1>6, WriteKeeps DEF a, k
<1>8. k = n
  <2> DEFINE r == Room(b.frames[b.w])
  <2>1. FrameSound(b.frames[b.w]) BY <1>6 DEF Sound
  <2>2. r \in Nat /\ (r = 0 <=> Full(b.frames[b.w])) BY <2>1, RoomNat
  <2> HIDE DEF r
  <2>3. n <= r BY <1>5 DEF r
  <2>4. ~Full(b.frames[b.w]) BY <1>0, <2>2, <2>3
  <2>5. CASE Rest(b, s) # <<>>
    <3>1. k >= r BY <1>7, <2>4, <2>5 DEF r
    <3> QED BY <1>0, <1>4, <1>7, <2>2, <2>3, <3>1
  <2>6. CASE Rest(b, s) = <<>>
    <3>1. Len(Rest(b, s)) = 0 BY <2>6
    <3>2. n - k = 0 /\ k \in Nat BY <1>4, <1>7, <3>1
    <3> QED BY <1>0, <3>2
  <2> QED BY <2>5, <2>6
<1>9. SubSeq(s, 1, n) = s BY <1>4, SubSeqFull
<1>10. c \o s = Wrapped(front, buf.size + n) BY <1>0, <1>1, WrappedJoin DEF c, s
<1>11. c \o s \in Seq(Int) /\ Len(c \o s) = buf.size + n
  <2> DEFINE l == buf.size + n
  <2>1. l \in Nat BY <1>0, <1>1
  <2> HIDE DEF l
  <2>2. Wrapped(front, l) \in Seq(Int) /\ Len(Wrapped(front, l)) = l BY <1>1, <2>1, WrappedIs
  <2> QED BY <1>10, <2>2 DEF l
<1>12. a.size = buf.size + n BY <1>7, <1>8, <1>9, <1>11 DEF Holds
<1>13. Holds(a, Wrapped(front, a.size)) BY <1>7, <1>8, <1>9, <1>10, <1>12
<1>14. back' = (front + a.size) % Modulus
  <2> DEFINE x == front + buf.size
  <2>1. x \in Nat /\ x + n = front + a.size BY <1>0, <1>1, <1>12
  <2>2. back = x % Modulus BY <1>1
  <2>4. back' = (back + n) % Modulus BY <1>5
  <2> HIDE DEF x
  <2>5. ((x % Modulus) + n) % Modulus = (x + n) % Modulus BY <1>0, <2>1, ModAdd
  <2> QED BY <2>1, <2>2, <2>4, <2>5
<1>15. front' \in 0 .. Modulus - 1 /\ lost' \in Nat BY <1>5 DEF UseInv
<1> QED BY <1>5, <1>7, <1>13, <1>14, <1>15 DEF UseInv

\* A read moves the front of the queue.
LEMMA UseRead ==
    ASSUME UseInv, NEW n \in 1 .. buf.size, ReadBytes(n)
    PROVE  UseInv'
<1> DEFINE c == Wrapped(front, buf.size)
           a == Read(buf, n)
           j == (front + n) % Modulus
<1>0. Modulus \in Nat \ {0} BY LoopBufUseAssumption
<1>1. front \in Nat /\ buf.size \in Nat /\ Sound(buf) /\ Holds(buf, c)
      /\ back = (front + buf.size) % Modulus
  BY <1>0 DEF UseInv, Sound, Buf
<1>2. n \in Nat /\ n \in 0 .. buf.size BY <1>1
<1>3. c \in Seq(Int) /\ Len(c) = buf.size BY <1>1, WrappedIs
<1>4. buf' = a /\ lost' = 0 /\ back' = back /\ front' = j BY DEF ReadBytes
<1>5. SubSeq(c, n + 1, buf.size) = Wrapped(j, buf.size - n) BY <1>1, <1>2, WrappedEnds
<1>6. j \in 0 .. Modulus - 1
  <2> DEFINE x == front + n
  <2>1. x \in Nat BY <1>1, <1>2
  <2> HIDE DEF x
  <2>2. x % Modulus \in 0 .. Modulus - 1 BY <1>0, <2>1, DivMod
  <2> QED BY <2>2 DEF x
<1> HIDE DEF c
<1>7. Sound(a) /\ Holds(a, SubSeq(c, n + 1, Len(c))) /\ a.size = buf.size - n
  BY <1>1, <1>2, <1>3, ReadKeeps
<1> HIDE DEF a
<1>8. Holds(a, Wrapped(j, a.size)) BY <1>3, <1>5, <1>7
<1>9. back = (j + a.size) % Modulus
  <2> DEFINE x == front + n
             k == buf.size - n
  <2>1. x \in Nat /\ k \in Nat /\ x + k = front + buf.size BY <1>1, <1>2
  <2>2. j = x % Modulus /\ a.size = k BY <1>7
  <2> HIDE DEF x, k, j
  <2>3. ((x % Modulus) + k) % Modulus = (x + k) % Modulus BY <1>0, <2>1, ModAdd
  <2> QED BY <1>1, <2>1, <2>2, <2>3
<1> HIDE DEF j
<1> QED BY <1>4, <1>6, <1>7, <1>8, <1>9 DEF UseInv

\* A clear moves the front to the back.
LEMMA UseClear ==
    ASSUME UseInv, ClearBuf
    PROVE  UseInv'
<1>0. Modulus \in Nat \ {0} BY LoopBufUseAssumption
<1>1. buf' = Clear(buf) /\ front' = back /\ lost' = 0 /\ back' = back BY DEF ClearBuf
<1>2. Sound(Clear(buf)) /\ Holds(Clear(buf), <<>>) /\ Clear(buf).size = 0
  BY ClearKeeps DEF UseInv
<1>3. back \in 0 .. Modulus - 1
  <2> DEFINE x == front + buf.size
  <2>0. front \in 0 .. Modulus - 1 /\ buf.size \in Nat BY DEF UseInv, Sound, Buf
  <2>1. x \in Nat BY <1>0, <2>0
  <2>2. back = x % Modulus BY DEF UseInv
  <2> HIDE DEF x
  <2> QED BY <1>0, <2>1, <2>2, DivMod
<1>4. Wrapped(back, 0) = <<>> BY DEF Wrapped
<1>5. back = (back + 0) % Modulus
  <2>1. back + 0 = back BY <1>0, <1>3
  <2> QED BY <1>0, <1>3, <2>1, ModSmall
<1> QED BY <1>0, <1>1, <1>2, <1>3, <1>4, <1>5 DEF UseInv

\* Every operation keeps the invariant.
LEMMA UseInvNext == UseInv /\ [UseNext]_useVars => UseInv'
<1> SUFFICES ASSUME UseInv, [UseNext]_useVars PROVE UseInv' OBVIOUS
<1>1. ASSUME NEW n \in 1 .. MaxWrite, WriteMessage(n) PROVE UseInv' BY <1>1, UseWrite
<1>2. ASSUME NEW n \in 1 .. MaxWrite, Receive(n) PROVE UseInv' BY <1>2, UseReceive
<1>3. ASSUME NEW n \in 1 .. buf.size, ReadBytes(n) PROVE UseInv' BY <1>3, UseRead
<1>4. CASE ClearBuf BY <1>4, UseClear
<1>5. CASE UNCHANGED useVars BY <1>5 DEF useVars, UseInv
<1> QED BY <1>1, <1>2, <1>3, <1>4, <1>5 DEF UseNext

\* The invariant holds throughout.
LEMMA UseInvariant == UseSpec => []UseInv
BY UseInvInit, UseInvNext, PTL DEF UseSpec

\* The list of frames and its counters stay consistent, for any alignment, header,
\* sizes of messages and number of operations.
THEOREM BufferSound == UseSpec => []UseTypeOK
<1>1. UseInv => UseTypeOK
  <2> SUFFICES ASSUME UseInv PROVE UseTypeOK OBVIOUS
  <2>0. Sound(buf) /\ Holds(buf, Wrapped(front, buf.size)) /\ lost \in Nat /\ front \in Nat
    BY LoopBufUseAssumption DEF UseInv
  <2>1. buf.w \in 1 .. Len(buf.frames) /\ buf.size \in Nat /\ Len(buf.frames) \in Nat
    BY <2>0, LenProperties DEF Sound, Buf
  <2>2. Wrapped(front, buf.size) \in Seq(Int) BY <2>0, <2>1, WrappedIs
  <2>3. ASSUME NEW i \in 1 .. Len(buf.frames)
        PROVE  /\ Room(buf.frames[i]) >= 0
               /\ buf.frames[i].data = <<>> => buf.frames[i].start = 0
               /\ i > buf.w => buf.frames[i].data = <<>>
    <3>1. FrameSound(buf.frames[i]) BY <2>0 DEF Sound
    <3>2. Room(buf.frames[i]) \in Nat BY <3>1, RoomNat
    <3>3. Room(buf.frames[i]) >= 0 BY <3>2
    <3>4. ASSUME i > buf.w PROVE buf.frames[i].data = <<>>
      <4>1. i \in buf.w + 1 .. Len(buf.frames) BY <2>1, <3>4
      <4> QED BY <2>0, <2>2, <4>1, EmptyAfter
    <3> QED BY <3>1, <3>3, <3>4 DEF FrameSound
  <2> QED BY <2>0, <2>1, <2>3 DEF UseTypeOK
<1> QED BY <1>1, UseInvariant, PTL

\* The buffer is a byte queue (ef_loop_buf.cpp:79-139): reads and peeks return the
\* bytes kept, in order, wherever frames have moved to.
THEOREM BufferFifo == UseSpec => []FifoOrder
<1>1. UseInv => FifoOrder
  <2> SUFFICES ASSUME UseInv PROVE FifoOrder OBVIOUS
  <2> DEFINE c == Wrapped(front, buf.size)
  <2>1. Sound(buf) /\ Holds(buf, c) /\ front \in Nat /\ buf.size \in Nat
    BY LoopBufUseAssumption DEF UseInv, Sound, Buf
  <2>2. c \in Seq(Int) /\ Len(c) = buf.size BY <2>1, WrappedIs
  <2>3. \A n \in 0 .. buf.size : SubSeq(c, 1, n) = Wrapped(front, n) BY <2>1, WrappedStarts
  <2> HIDE DEF c
  <2>4. Contents(buf) = c /\ \A n \in 0 .. Len(c) : Peek(buf, n) = SubSeq(c, 1, n)
    BY <2>1, <2>2, ContentsAre
  <2>5. \A n \in 0 .. buf.size : Peek(buf, n) = Wrapped(front, n) BY <2>2, <2>3, <2>4
  <2> QED BY <2>4, <2>5 DEF FifoOrder, c
<1> QED BY <1>1, UseInvariant, PTL

\* autoResizeWrite (ef_loop_buf.cpp:96) drops bytes only when the rest of the message
\* ends in the last bytes of an alignment block, and fewer than a header has.
THEOREM LossBounded == UseSpec => LossOnlyAtBlockEnd
<1>1. UseInv /\ [UseNext]_useVars =>
          [\A n \in 1 .. MaxWrite :
              (WriteMessage(n) /\ lost' > 0) =>
                  /\ lost' < Header
                  /\ Len(Rest(buf, Wrapped(back, n))) % Align > Align - Header]_useVars
  <2> SUFFICES ASSUME UseInv, NEW n \in 1 .. MaxWrite, WriteMessage(n), lost' > 0
               PROVE  /\ lost' < Header
                      /\ Len(Rest(buf, Wrapped(back, n))) % Align > Align - Header
    OBVIOUS
  <2> QED BY UseWrite
<1> QED BY <1>1, UseInvariant, PTL DEF UseSpec, LossOnlyAtBlockEnd

-----------------------------------------------------------------------------
(* Connection                                                              *)

\* A non-empty set of naturals up to n has a greatest element.
LEMMA GreatestNat ==
    ASSUME NEW T, NEW n \in Nat, T \subseteq 0 .. n, T # {}
    PROVE  \E x \in T : \A y \in T : x >= y
<1> DEFINE D == {i \in 0 .. n : n - i \in T}
<1>1. D \subseteq Nat OBVIOUS
<1>2. D # {}
  <2>1. PICK y \in T : TRUE OBVIOUS
  <2>2. y \in 0 .. n /\ n - y \in 0 .. n /\ n - (n - y) = y OBVIOUS
  <2> QED BY <2>2
<1> HIDE DEF D
<1>3. PICK x \in D : \A y \in D : x <= y BY <1>1, <1>2, LeastNat
<1> USE DEF D
<1>4. n - x \in T /\ x \in 0 .. n BY <1>3
<1>5. ASSUME NEW y \in T PROVE n - x >= y
  <2>1. y \in 0 .. n /\ n - y \in 0 .. n /\ n - (n - y) = y OBVIOUS
  <2>2. n - y \in D BY <2>1
  <2>3. x <= n - y BY <1>3, <2>2
  <2> QED BY <1>4, <2>1, <2>3
<1> QED BY <1>4, <1>5

\* doSend sees all of the buffer or nothing: an empty frame with bytes behind it is
\* the first.
LEMMA SendableIs ==
    ASSUME NEW b, Sound(b), NEW c \in Seq(Int), Holds(b, c)
    PROVE  Sendable(b) \in 0 .. Len(c) /\ (Sendable(b) > 0 => Sendable(b) = Len(c))
<1> DEFINE num == Len(b.frames)
           filled == {i \in 0 .. num : \A j \in 1 .. i : b.frames[j].data # <<>>}
           m == Max(filled)
<1>1. PICK off : At(b, c, off) BY DEF Holds
<1>2. num \in Nat /\ b.w \in 1 .. num /\ Len(c) \in Nat BY LenProperties DEF Sound, Buf
<1>3. filled \subseteq 0 .. num /\ 0 \in filled BY <1>2
<1>4. m \in filled /\ \A y \in filled : m >= y
  <2> HIDE DEF filled
  <2>1. filled # {} BY <1>3
  <2>2. \E x \in filled : \A y \in filled : x >= y BY <1>2, <1>3, <2>1, GreatestNat
  <2> QED BY <2>2 DEF Max
<1>5. Sendable(b) = Len(BytesOf(b, m)) BY DEF Sendable
<1>6. m \in 0 .. num /\ \A j \in 1 .. m : b.frames[j].data # <<>> BY <1>4
<1>7. ASSUME m < num PROVE b.frames[m + 1].data = <<>>
  <2> SUFFICES ASSUME b.frames[m + 1].data # <<>> PROVE FALSE OBVIOUS
  <2> HIDE DEF m
  <2>1. m + 1 \in 0 .. num BY <1>2, <1>6, <1>7
  <2>2. \A j \in 1 .. m + 1 : j \in 1 .. m \/ j = m + 1 BY <1>2, <1>6
  <2>3. m + 1 \in filled BY <1>6, <2>1, <2>2
  <2>4. m >= m + 1 BY <1>4, <2>3
  <2> QED BY <1>2, <1>6, <2>4
<1> HIDE DEF filled, m
<1>8. Sendable(b) = off[m] BY <1>1, <1>5, <1>6, BytesAre
<1>9. off \in [0 .. num -> 0 .. Len(c)] /\ (\A i \in b.w .. num : off[i] = Len(c)) BY <1>1 DEF At
<1>10. off[m] \in 0 .. Len(c) BY <1>6, <1>9
<1>11. ASSUME off[m] > 0 PROVE off[m] = Len(c)
  <2>1. CASE m = num
    <3>1. m \in b.w .. num BY <1>2, <2>1
    <3> QED BY <1>9, <3>1
  <2>2. CASE m < num
    <3> DEFINE i == m + 1
    <3>1. i \in 1 .. num /\ i - 1 = m /\ i \in 0 .. num BY <1>2, <1>6, <2>2
    <3>2. b.frames[i].data = <<>> BY <1>7, <2>2
    <3> HIDE DEF i
    <3>3. off[i - 1] <= off[i] /\ b.frames[i].data = SubSeq(c, off[i - 1] + 1, off[i])
      BY <1>1, <3>1 DEF At
    <3>4. off[i] \in 0 .. Len(c) BY <1>9, <3>1
    <3>5. off[m] <= off[i] /\ SubSeq(c, off[m] + 1, off[i]) = <<>> BY <3>1, <3>2, <3>3
    <3>6. off[i] = off[m]
      <4> DEFINE p == off[m]
                 q == off[i]
      <4>1. p \in 0 .. Len(c) /\ q \in p .. Len(c) BY <1>2, <1>10, <3>4, <3>5
      <4>2. SubSeq(c, p + 1, q) = <<>> BY <3>5
      <4> HIDE DEF p, q
      <4>3. Len(SubSeq(c, p + 1, q)) = q - p BY <4>1, Slice
      <4>e. Len(<<>>) = 0 OBVIOUS
      <4>4. Len(SubSeq(c, p + 1, q)) = 0 BY <4>2, <4>e, Zenon
      <4>5. q = p BY <1>2, <4>1, <4>3, <4>4
      <4> QED BY <4>5 DEF p, q
    <3>7. CASE i \in b.w .. num BY <1>9, <3>6, <3>7
    <3>8. CASE i \in 1 .. b.w - 1
      <4>1. off[i - 1] = off[i] => off[i] = 0 BY <1>1, <3>8 DEF At
      <4> QED BY <1>11, <3>1, <3>6, <4>1, <1>10, <1>2
    <3> QED BY <1>2, <3>1, <3>7, <3>8
  <2> QED BY <1>2, <1>6, <2>1, <2>2
<1> QED BY <1>8, <1>10, <1>11

\* The buffer holds some bytes.
Some(b) == \E c \in Seq(Int) : Holds(b, c)

\* The invariant of a connection: PendingWatched, with the types, a sound buffer, no
\* more bytes under way than were sent, and the registration safeClose leaves.
ConInv ==
    /\ ConTypeOK /\ Sound(sbuf) /\ Some(sbuf)
    /\ sent + sbuf.size <= accepted
    /\ PendingWatched
    /\ state = "closing" => noti = {"write"}

\* The bytes of the stream: how many, and which.
LEMMA BytesIs ==
    ASSUME NEW k \in Nat, NEW n \in Nat
    PROVE  /\ Bytes(k, n) \in Seq(Int) /\ Len(Bytes(k, n)) = n
           /\ \A i \in 1 .. n : Bytes(k, n)[i] = k + i
<1> DEFINE s == Bytes(k, n)
<1>1. \A i \in 1 .. n : s[i] = k + i BY DEF Bytes
<1>2. s \in [1 .. n -> Int] BY DEF Bytes
<1> HIDE DEF s
<1>5. s \in Seq(Int) BY <1>2
<1>6. Len(s) = n BY <1>2, <1>5, LenProperties
<1> QED BY <1>1, <1>5, <1>6 DEF s

\* A part of the stream.
LEMMA BytesPart ==
    ASSUME NEW k \in Nat, NEW n \in Nat, NEW m \in 0 .. n, NEW l \in m .. n
    PROVE  SubSeq(Bytes(k, n), m + 1, l) = Bytes(k + m, l - m)
<1> DEFINE s == Bytes(k, n)
           j == k + m
           h == l - m
           t == Bytes(j, h)
           u == SubSeq(s, m + 1, l)
<1>1. s \in Seq(Int) /\ Len(s) = n /\ \A i \in 1 .. n : s[i] = k + i BY BytesIs
<1>0. j \in Nat /\ h \in Nat OBVIOUS
<1> HIDE DEF s, j, h
<1>2. t \in Seq(Int) /\ Len(t) = h /\ \A i \in 1 .. h : t[i] = j + i BY <1>0, BytesIs
<1> HIDE DEF t
<1>3. u \in Seq(Int) /\ Len(u) = l - m /\ \A i \in 1 .. l - m : u[i] = s[m + i]
  <2>1. m \in 0 .. Len(s) /\ l \in m .. Len(s) BY <1>1
  <2> QED BY <1>1, <2>1, Slice
<1> HIDE DEF u
<1>4. \A i \in 1 .. h : u[i] = t[i]
  <2> TAKE i \in 1 .. h
  <2>1. i \in 1 .. l - m /\ m + i \in 1 .. n /\ k + (m + i) = j + i BY <1>0 DEF h, j
  <2>2. u[i] = s[m + i] /\ s[m + i] = k + (m + i) BY <1>1, <1>3, <2>1
  <2>3. t[i] = j + i BY <1>2
  <2> QED BY <2>1, <2>2, <2>3
<1>5. u = t BY <1>2, <1>3, <1>4, SeqEqual DEF h
<1> QED BY <1>5 DEF s, t, u, j, h

\* Bytes of the stream followed by the next ones.
LEMMA BytesJoin ==
    ASSUME NEW k \in Nat, NEW n \in Nat, NEW m \in Nat
    PROVE  Bytes(k, n) \o Bytes(k + n, m) = Bytes(k, n + m)
<1> DEFINE l == n + m
           s == Bytes(k, l)
<1>1. l \in Nat /\ n \in 0 .. l /\ l \in n .. l /\ l - n = m /\ 0 \in 0 .. l OBVIOUS
<1>z. k + 0 = k /\ n - 0 = n OBVIOUS
<1> HIDE DEF l
<1>2. SubSeq(s, 0 + 1, n) = Bytes(k + 0, n - 0) BY <1>1, BytesPart
<1>3. SubSeq(s, n + 1, l) = Bytes(k + n, m) BY <1>1, BytesPart
<1>4. s \in Seq(Int) /\ Len(s) = l BY <1>1, BytesIs
<1> HIDE DEF s
<1>5. SubSeq(s, 1, n) \o SubSeq(s, n + 1, l) = s
  <2>1. 1 \in 1 .. Len(s) + 1 /\ n \in 1 - 1 .. Len(s) /\ l \in n .. Len(s) BY <1>1, <1>4
  <2>2. SubSeq(s, 1, n) \o SubSeq(s, n + 1, l) = SubSeq(s, 1, l) BY <1>4, <2>1, ConcatAdjacentSubSeq
  <2>3. SubSeq(s, 1, Len(s)) = s BY <1>4, SubSeqFull
  <2> QED BY <1>4, <2>2, <2>3
<1>6. SubSeq(s, 1, n) = Bytes(k, n) BY <1>2, <1>z
<1> QED BY <1>3, <1>5, <1>6 DEF s, l

\* What a write to m_send_buf leaves there, whatever it drops.
LEMMA Buffering ==
    ASSUME NEW b, Sound(b), Some(b), NEW s \in Seq(Int)
    PROVE  /\ Sound(AutoResizeWrite(b, s)) /\ Some(AutoResizeWrite(b, s))
           /\ AutoResizeWrite(b, s).size \in Nat
           /\ AutoResizeWrite(b, s).size <= b.size + Len(s)
<1>1. PICK c \in Seq(Int) : Holds(b, c) BY DEF Some
<1> DEFINE a == AutoResizeWrite(b, s)
           n == Dropped(b, s)
           k == Len(s) - n
           d == c \o SubSeq(s, 1, k)
<1>2. n \in 0 .. Len(s) /\ Sound(a) /\ Holds(a, d) /\ a.size = b.size + k
  BY <1>1, AutoResizeKeeps
<1>3. Len(s) \in Nat /\ b.size \in Nat /\ a.size \in Nat BY <1>2, LenProperties DEF Sound, Buf
<1> HIDE DEF n, a
<1>4. k \in 0 .. Len(s) BY <1>2, <1>3
<1> HIDE DEF k
<1>5. d \in Seq(Int)
  <2>1. 0 \in 0 .. Len(s) /\ k \in 0 .. Len(s) BY <1>3, <1>4
  <2>2. SubSeq(s, 0 + 1, k) \in Seq(Int) BY <2>1, Slice
  <2>3. SubSeq(s, 1, k) \in Seq(Int) BY <2>2
  <2> QED BY <1>1, <2>3, ConcatProperties
<1> HIDE DEF d
<1>6. Some(a) BY <1>2, <1>5 DEF Some
<1>7. a.size <= b.size + Len(s) BY <1>2, <1>3, <1>4
<1> QED BY <1>2, <1>3, <1>6, <1>7 DEF a

\* doSend: the bytes that go are the first of the buffer.
LEMMA Flushing ==
    ASSUME ConInv, Flush, NEW c \in Seq(Int), Holds(sbuf, c)
    PROVE  \E n \in 0 .. Len(c) :
               /\ n = Min2(Sendable(sbuf), space)
               /\ sent' = sent + n /\ space' = space - n /\ space' \in 0 .. SndBuf
               /\ Sound(sbuf') /\ Holds(sbuf', SubSeq(c, n + 1, Len(c)))
               /\ sbuf'.size = sbuf.size - n
               /\ SubSeq(c, n + 1, Len(c)) \in Seq(Int)
<1>1. PICK n \in 0 .. space :
          /\ n = Min2(Sendable(sbuf), space)
          /\ sbuf' = Read(sbuf, n) /\ sent' = sent + n /\ space' = space - n
  BY DEF Flush
<1>2. Sound(sbuf) BY DEF ConInv
<1>3. Sendable(sbuf) \in 0 .. Len(c) BY <1>2, SendableIs
<1>4. Len(c) \in Nat BY LenProperties
<1>5. space \in 0 .. SndBuf /\ SndBuf \in Nat BY ConnectionAssumption DEF ConInv, ConTypeOK
<1>6. n \in 0 .. Len(c) BY <1>1, <1>3, <1>4, <1>5 DEF Min2
<1>7. /\ Sound(sbuf') /\ Holds(sbuf', SubSeq(c, n + 1, Len(c)))
      /\ sbuf'.size = sbuf.size - n
  BY <1>1, <1>2, <1>6, ReadKeeps
<1>8. space' \in 0 .. SndBuf BY <1>1, <1>5
<1>9. SubSeq(c, n + 1, Len(c)) \in Seq(Int)
  <2>1. Len(c) \in n .. Len(c) BY <1>4, <1>6
  <2> QED BY <1>6, <2>1, Slice
<1> QED BY <1>1, <1>6, <1>7, <1>8, <1>9

\* doSend keeps the buffer sound; if it gets to its last send of no bytes, nothing
\* is left.
LEMMA FlushKeeps ==
    ASSUME ConInv, Flush
    PROVE  /\ Sound(sbuf') /\ Some(sbuf') /\ sbuf'.size \in Nat /\ sbuf'.size <= sbuf.size
           /\ sent' \in 0 .. MaxBytes /\ sent' + sbuf'.size = sent + sbuf.size
           /\ space' \in 0 .. SndBuf
           /\ Sendable(sbuf) \in 1 .. space => sbuf'.size = 0
<1>1. PICK c \in Seq(Int) : Holds(sbuf, c) BY DEF ConInv, Some
<1>2. PICK n \in 0 .. Len(c) :
          /\ n = Min2(Sendable(sbuf), space)
          /\ sent' = sent + n /\ space' = space - n /\ space' \in 0 .. SndBuf
          /\ Sound(sbuf') /\ Holds(sbuf', SubSeq(c, n + 1, Len(c)))
          /\ sbuf'.size = sbuf.size - n
          /\ SubSeq(c, n + 1, Len(c)) \in Seq(Int)
  BY <1>1, Flushing
<1>3. Some(sbuf') BY <1>2 DEF Some
<1>4. Len(c) \in Nat /\ sbuf.size = Len(c) BY <1>1, LenProperties DEF Holds
<1>5. sent \in Nat /\ MaxBytes \in Nat /\ accepted \in 0 .. MaxBytes /\ sent + sbuf.size <= accepted
  BY ConnectionAssumption DEF ConInv, ConTypeOK
<1>6. sent' \in 0 .. MaxBytes /\ sent' + sbuf'.size = sent + sbuf.size
  <2>1. sent' = sent + n /\ sbuf'.size = sbuf.size - n BY <1>2
  <2> QED BY <2>1, <1>4, <1>5
<1>7. sbuf'.size \in Nat /\ sbuf'.size <= sbuf.size
  <2>1. sbuf'.size = sbuf.size - n BY <1>2
  <2> QED BY <2>1, <1>4
<1>8. ASSUME Sendable(sbuf) \in 1 .. space PROVE sbuf'.size = 0
  <2>0. space \in Nat BY ConnectionAssumption DEF ConInv, ConTypeOK
  <2>1. Sendable(sbuf) = Len(c)
    <3>1. Sound(sbuf) BY DEF ConInv
    <3>2. Sendable(sbuf) > 0 => Sendable(sbuf) = Len(c) BY <1>1, <3>1, SendableIs
    <3> QED BY <1>8, <2>0, <3>2
  <2>2. n = Len(c) BY <1>2, <1>8, <2>0, <2>1 DEF Min2
  <2>3. sbuf'.size = sbuf.size - n BY <1>2
  <2> QED BY <1>4, <2>2, <2>3
<1> QED BY <1>2, <1>3, <1>6, <1>7, <1>8

\* A new connection satisfies the invariant.
LEMMA ConInvInit == ConInit => ConInv
<1> SUFFICES ASSUME ConInit PROVE ConInv OBVIOUS
<1>1. sbuf = EmptyBuf /\ Sound(EmptyBuf) /\ Holds(EmptyBuf, <<>>) /\ EmptyBuf.size = 0
  BY EmptyIsSound DEF ConInit, EmptyBuf
<1>2. <<>> \in Seq(Int) OBVIOUS
<1>3. Some(sbuf) BY <1>1, <1>2 DEF Some
<1>4. MaxReads \in Nat /\ MaxBytes \in Nat /\ SndBuf \in Nat BY ConnectionAssumption
<1>5. ConTypeOK
  <2>1. 0 \in 0 .. MaxReads /\ 0 \in 0 .. MaxBytes /\ SndBuf \in 0 .. SndBuf BY <1>4
  <2> QED BY <2>1 DEF ConInit, ConTypeOK
<1>6. PendingWatched BY <1>1 DEF PendingWatched
<1>7. sent + sbuf.size <= accepted /\ state # "closing" BY <1>1 DEF ConInit
<1> QED BY <1>1, <1>3, <1>5, <1>6, <1>7 DEF ConInv

\* The numbers of a connection.
LEMMA ConTypes ==
    ASSUME ConInv
    PROVE  /\ accepted \in Nat /\ sent \in Nat /\ space \in Nat /\ reads \in Nat
           /\ MaxBytes \in Nat /\ SndBuf \in Nat /\ MaxReads \in Nat /\ MaxMsg \in Nat
           /\ sbuf.size \in Nat /\ sent + sbuf.size <= accepted /\ accepted <= MaxBytes
           /\ space <= SndBuf /\ reads <= MaxReads
BY ConnectionAssumption DEF ConInv, ConTypeOK, Sound, Buf

\* sendMessage keeps the invariant, and a closing connection always buffers.
LEMMA ConSend ==
    ASSUME ConInv, NEW n \in 1 .. MaxMsg, SendMessage(n)
    PROVE  ConInv' /\ (state = "closing" => state' = state)
<1> DEFINE msg == Bytes(accepted, n)
           k == Taken(n)
<1>0. /\ accepted \in Nat /\ sent \in Nat /\ space \in Nat /\ MaxBytes \in Nat /\ SndBuf \in Nat
      /\ sbuf.size \in Nat /\ sent + sbuf.size <= accepted /\ space <= SndBuf /\ MaxMsg \in Nat
  BY ConTypes
<1>n. n \in Nat /\ n > 0 BY <1>0
<1>1. msg \in Seq(Int) /\ Len(msg) = n BY <1>0, <1>n, BytesIs
<1>2. Sound(sbuf) /\ Some(sbuf) /\ PendingWatched /\ ConTypeOK /\ (state = "closing" => noti = {"write"})
  BY DEF ConInv
<1>3. Alive /\ accepted' = accepted + n /\ accepted + n <= MaxBytes
      /\ UNCHANGED <<readable, reads, peer>>
  BY DEF SendMessage
<1>4. k \in 0 .. n /\ k <= space BY <1>0, <1>n DEF Taken, Min2
<1>5. CASE Buffered /\ sbuf' = AutoResizeWrite(sbuf, msg) /\ UNCHANGED <<noti, state, space, sent>>
  <2> HIDE DEF msg
  <2>1. Sound(sbuf') /\ Some(sbuf') /\ sbuf'.size \in Nat /\ sbuf'.size <= sbuf.size + n
    BY <1>1, <1>2, <1>5, Buffering
  <2>2. sent' + sbuf'.size <= accepted'
    <3>1. sent' = sent /\ accepted' = accepted + n BY <1>3, <1>5
    <3> QED BY <1>0, <1>n, <2>1, <3>1
  <2>3. accepted' \in 0 .. MaxBytes BY <1>0, <1>n, <1>3
  <2>4. ConTypeOK' BY <1>2, <1>3, <1>5, <2>3 DEF ConTypeOK
  <2>5. PendingWatched' BY <1>5 DEF PendingWatched, Buffered
  <2> QED BY <1>2, <1>5, <2>1, <2>2, <2>4, <2>5 DEF ConInv
<1>6. CASE ~Buffered /\ state' = "gone" /\ UNCHANGED <<sbuf, noti, space, sent>>
  <2>1. accepted' \in 0 .. MaxBytes BY <1>0, <1>n, <1>3
  <2>2. ConTypeOK' BY <1>2, <1>3, <1>6, <2>1 DEF ConTypeOK
  <2>3. PendingWatched' BY <1>6 DEF PendingWatched, Alive
  <2>4. sent' + sbuf'.size <= accepted'
    <3>1. sent' = sent /\ sbuf' = sbuf /\ accepted' = accepted + n BY <1>3, <1>6
    <3> QED BY <1>0, <1>n, <3>1
  <2>5. state # "closing" BY <1>2, <1>6 DEF Buffered
  <2> QED BY <1>2, <1>6, <2>2, <2>3, <2>4, <2>5 DEF ConInv
<1>7. CASE /\ ~Buffered /\ sent' = sent + k /\ space' = space - k
           /\ sbuf' = IF k < n THEN AutoResizeWrite(sbuf, Drop(msg, k)) ELSE sbuf
           /\ noti' = IF k < n THEN WatchWrite ELSE noti
           /\ UNCHANGED state
  <2>1. Drop(msg, k) \in Seq(Int) /\ Len(Drop(msg, k)) = n - k
    <3>1. k \in 0 .. Len(msg) /\ n \in k .. Len(msg) BY <1>1, <1>4, <1>n
    <3> HIDE DEF msg, k
    <3>2. SubSeq(msg, k + 1, n) \in Seq(Int) /\ Len(SubSeq(msg, k + 1, n)) = n - k
      BY <1>1, <3>1, Slice
    <3> QED BY <1>1, <3>2 DEF Drop
  <2> HIDE DEF msg, k
  <2>2. sbuf.size = 0
    <3>1. ~(sbuf.size > 0) BY <1>2, <1>3, <1>7 DEF PendingWatched, Buffered
    <3> QED BY <1>0, <3>1
  <2>3. Sound(sbuf') /\ Some(sbuf') /\ sbuf'.size \in Nat /\ sbuf'.size <= n - k
    <3>1. CASE k < n
      <4>1. sbuf' = AutoResizeWrite(sbuf, Drop(msg, k)) BY <1>7, <3>1
      <4>2. Sound(sbuf') /\ Some(sbuf') /\ sbuf'.size \in Nat /\ sbuf'.size <= sbuf.size + (n - k)
        BY <1>2, <2>1, <4>1, Buffering
      <4> QED BY <1>n, <1>4, <2>2, <4>2
    <3>2. CASE ~(k < n)
      <4>1. sbuf' = sbuf BY <1>7, <3>2
      <4> QED BY <1>n, <1>2, <1>4, <2>2, <4>1
    <3> QED BY <3>1, <3>2
  <2>4. sent' + sbuf'.size <= accepted' /\ sent' \in 0 .. MaxBytes
    <3>1. sent' = sent + k /\ accepted' = accepted + n /\ accepted + n <= MaxBytes BY <1>3, <1>7
    <3>2. sent <= accepted BY <1>0, <2>2
    <3> QED BY <1>0, <1>n, <1>4, <2>3, <3>1, <3>2
  <2>5. accepted' \in 0 .. MaxBytes /\ space' \in 0 .. SndBuf
    <3>1. space' = space - k BY <1>7
    <3> QED BY <1>0, <1>n, <1>3, <1>4, <3>1
  <2>6. noti' \subseteq {"read", "write"} BY <1>2, <1>7 DEF ConTypeOK, WatchWrite
  <2>7. ConTypeOK' BY <1>2, <1>3, <1>7, <2>4, <2>5, <2>6 DEF ConTypeOK
  <2>8. PendingWatched'
    <3>1. CASE k < n BY <1>7, <3>1 DEF PendingWatched, WatchWrite
    <3>2. CASE ~(k < n)
      <4>1. sbuf'.size = 0 BY <1>7, <2>2, <3>2
      <4> QED BY <4>1 DEF PendingWatched
    <3> QED BY <3>1, <3>2
  <2>9. state # "closing" /\ state' = state BY <1>2, <1>7 DEF Buffered
  <2> QED BY <2>3, <2>4, <2>7, <2>8, <2>9 DEF ConInv
<1> QED BY <1>5, <1>6, <1>7 DEF SendMessage

\* safeClose keeps the invariant, and recycles only with an empty buffer.
LEMMA ConClose ==
    ASSUME ConInv, SafeClose
    PROVE  ConInv' /\ (state' = "gone" => sbuf'.size = 0)
<1>0. sbuf.size \in Nat /\ sent \in Nat /\ accepted \in Nat /\ sent + sbuf.size <= accepted BY ConTypes
<1>1. Sound(sbuf) /\ Some(sbuf) /\ PendingWatched /\ ConTypeOK /\ (state = "closing" => noti = {"write"})
  BY DEF ConInv
<1>2. Alive /\ UNCHANGED <<readable, reads, peer, accepted>> BY DEF SafeClose
<1>3. CASE sbuf.size = 0 /\ state' = "gone" /\ UNCHANGED <<sbuf, noti, space, sent>>
  <2>1. ConTypeOK' BY <1>1, <1>2, <1>3 DEF ConTypeOK
  <2>2. PendingWatched' BY <1>3 DEF PendingWatched, Alive
  <2> QED BY <1>0, <1>1, <1>2, <1>3, <2>1, <2>2 DEF ConInv
<1>4. CASE sbuf.size > 0 /\ noti' = WatchClose /\ state' = "closing" /\ UNCHANGED <<sbuf, space, sent>>
  <2>1. ConTypeOK' BY <1>1, <1>2, <1>4 DEF ConTypeOK, WatchClose
  <2>2. PendingWatched' /\ noti' = {"write"} BY <1>4 DEF PendingWatched, WatchClose
  <2> QED BY <1>0, <1>1, <1>2, <1>4, <2>1, <2>2 DEF ConInv
<1>5. CASE /\ sbuf.size > 0 /\ noti' = WatchClose /\ Flush
           /\ \E e \in LastTurn : state' = IF e = "EINTR" THEN "spinning" ELSE "closing"
  <2>1. /\ Sound(sbuf') /\ Some(sbuf') /\ sbuf'.size \in Nat /\ sbuf'.size <= sbuf.size
        /\ sent' \in 0 .. MaxBytes /\ sent' + sbuf'.size = sent + sbuf.size /\ space' \in 0 .. SndBuf
    BY <1>5, FlushKeeps
  <2>2. state' \in {"spinning", "closing"} BY <1>5
  <2>3. ConTypeOK' BY <1>1, <1>2, <1>5, <2>1, <2>2 DEF ConTypeOK, WatchClose
  <2>4. PendingWatched' /\ noti' = {"write"} BY <1>5 DEF PendingWatched, WatchClose
  <2>5. sent' + sbuf'.size <= accepted' BY <1>0, <1>2, <2>1
  <2> QED BY <2>1, <2>2, <2>3, <2>4, <2>5 DEF ConInv
<1> QED BY <1>3, <1>4, <1>5 DEF SafeClose

\* handleWrite keeps the invariant, and recycles only with an empty buffer.
LEMMA ConWrite ==
    ASSUME ConInv, HandleWrite
    PROVE  ConInv' /\ (state' = "gone" => sbuf'.size = 0)
<1>0. sbuf.size \in Nat /\ sent \in Nat /\ accepted \in Nat /\ sent + sbuf.size <= accepted BY ConTypes
<1>1. PendingWatched /\ ConTypeOK /\ (state = "closing" => noti = {"write"}) BY DEF ConInv
<1>2. Alive /\ "write" \in noti /\ UNCHANGED <<readable, reads, peer, accepted>> /\ Flush
  BY DEF HandleWrite
<1>3. /\ Sound(sbuf') /\ Some(sbuf') /\ sbuf'.size \in Nat /\ sbuf'.size <= sbuf.size
      /\ sent' \in 0 .. MaxBytes /\ sent' + sbuf'.size = sent + sbuf.size /\ space' \in 0 .. SndBuf
  BY <1>2, FlushKeeps
<1>4. sent' + sbuf'.size <= accepted' BY <1>0, <1>2, <1>3
<1>5. CASE state' = "spinning" /\ UNCHANGED noti
  <2>1. ConTypeOK' BY <1>1, <1>2, <1>3, <1>5 DEF ConTypeOK
  <2>2. PendingWatched' BY <1>5 DEF PendingWatched, Alive
  <2> QED BY <1>3, <1>4, <1>5, <2>1, <2>2 DEF ConInv
<1>6. CASE "other" \in LastTurn /\ state' = "gone" /\ UNCHANGED noti
  <2>1. ConTypeOK' BY <1>1, <1>2, <1>3, <1>6 DEF ConTypeOK
  <2>2. PendingWatched' BY <1>6 DEF PendingWatched, Alive
  <2>3. Sendable(sbuf) \in 1 .. space BY <1>6 DEF LastTurn
  <2>4. sbuf'.size = 0 BY <1>2, <2>3, FlushKeeps
  <2> QED BY <1>3, <1>4, <1>6, <2>1, <2>2, <2>4 DEF ConInv
<1>7. CASE /\ Drained(sbuf')
           /\ IF state = "closing" THEN state' = "gone" /\ UNCHANGED noti
                                   ELSE noti' = {"read"} /\ UNCHANGED state
  <2>0. sbuf'.size = 0 BY <1>7 DEF Drained
  <2>1. ConTypeOK' BY <1>1, <1>2, <1>3, <1>7 DEF ConTypeOK
  <2>2. PendingWatched' BY <2>0 DEF PendingWatched
  <2>3. state' # "closing" BY <1>7
  <2> QED BY <1>3, <1>4, <2>0, <2>1, <2>2, <2>3 DEF ConInv
<1>8. CASE UNCHANGED <<noti, state>>
  <2>1. ConTypeOK' BY <1>1, <1>2, <1>3, <1>8 DEF ConTypeOK
  <2>2. PendingWatched' BY <1>2, <1>8 DEF PendingWatched
  <2>3. state' # "gone" BY <1>2, <1>8 DEF Alive
  <2> QED BY <1>1, <1>3, <1>4, <1>8, <2>1, <2>2, <2>3 DEF ConInv
<1> QED BY <1>5, <1>6, <1>7, <1>8 DEF HandleWrite

\* The steps that leave m_send_buf and the registration alone; of a closing connection
\* no read event is handled.
LEMMA ConElse ==
    ASSUME ConInv, HandleRead \/ HandleReset \/ PeerReads \/ PeerSends \/ PeerResets
    PROVE  /\ ConInv' /\ UNCHANGED <<sbuf, sent, accepted>>
           /\ (peer' = "up" => peer = "up") /\ (Alive' => Alive)
           /\ peer = "up" /\ state = "closing" => state' # "gone"
<1>0. reads \in Nat /\ MaxReads \in Nat /\ SndBuf \in Nat BY ConTypes
<1>1. Sound(sbuf) /\ Some(sbuf) /\ PendingWatched /\ ConTypeOK /\ (state = "closing" => noti = {"write"})
      /\ sent + sbuf.size <= accepted
  BY DEF ConInv
<1>2. /\ UNCHANGED <<sbuf, noti, accepted, sent>> /\ state' \in {state, "gone"}
      /\ readable' \in BOOLEAN /\ (reads' = reads \/ reads' \in 0 .. MaxReads)
      /\ peer' \in {peer, "reset"} /\ space' \in {space, SndBuf}
  <2>1. CASE HandleRead BY <2>1 DEF HandleRead
  <2>2. CASE HandleReset BY <1>1, <2>2 DEF HandleReset, ConTypeOK
  <2>3. CASE PeerReads BY <1>1, <2>3 DEF PeerReads, ConTypeOK
  <2>4. CASE PeerSends
    <3>1. reads' = reads + 1 /\ reads < MaxReads BY <2>4 DEF PeerSends
    <3>2. reads' \in 0 .. MaxReads BY <1>0, <3>1
    <3> QED BY <2>4, <3>2 DEF PeerSends
  <2>5. CASE PeerResets BY <1>1, <2>5 DEF PeerResets, ConTypeOK
  <2> QED BY <2>1, <2>2, <2>3, <2>4, <2>5
<1>3. SndBuf \in 0 .. SndBuf BY <1>0
<1>4. ConTypeOK' BY <1>1, <1>2, <1>3 DEF ConTypeOK
<1>5. PendingWatched' BY <1>1, <1>2 DEF PendingWatched, Alive
<1>6. (peer' = "up" => peer = "up") /\ (Alive' => Alive) BY <1>2 DEF Alive
<1>7. peer = "up" /\ state = "closing" => state' # "gone"
  <2> SUFFICES ASSUME peer = "up", state = "closing", state' = "gone" PROVE FALSE OBVIOUS
  <2>1. HandleRead BY DEF HandleReset, PeerReads, PeerSends, PeerResets
  <2> QED BY <1>1, <2>1 DEF HandleRead
<1> QED BY <1>1, <1>2, <1>4, <1>5, <1>6, <1>7 DEF ConInv

\* Every step keeps the invariant.
LEMMA ConInvNext == ConInv /\ [ConNext]_conVars => ConInv'
<1> SUFFICES ASSUME ConInv, [ConNext]_conVars PROVE ConInv' OBVIOUS
<1>1. ASSUME NEW n \in 1 .. MaxMsg, SendMessage(n) PROVE ConInv' BY <1>1, ConSend
<1>2. CASE SafeClose BY <1>2, ConClose
<1>3. CASE HandleWrite BY <1>3, ConWrite
<1>4. CASE HandleRead \/ HandleReset \/ PeerReads \/ PeerSends \/ PeerResets BY <1>4, ConElse
<1>5. CASE UNCHANGED conVars
  BY <1>5 DEF conVars, ConInv, ConTypeOK, Some, PendingWatched, Alive
<1> QED BY <1>1, <1>2, <1>3, <1>4, <1>5 DEF ConNext, Loop

\* The invariant holds throughout.
LEMMA ConInvariant == ConSpec => []ConInv
BY ConInvInit, ConInvNext, PTL DEF ConSpec

\* The variables keep their types; the kernel never holds more than its buffer and
\* never takes more bytes than the application has sent.
THEOREM ConnectionTyped == ConSpec => []ConTypeOK
<1>1. ConInv => ConTypeOK BY DEF ConInv
<1> QED BY <1>1, ConInvariant, PTL

\* A live connection with bytes in m_send_buf is registered for EPOLLOUT
\* (ef_connection.cpp:251-281, 60-81, 172-192), whatever is lost on the way.
THEOREM UnsentWatched == ConSpec => []PendingWatched
<1>1. ConInv => PendingWatched BY DEF ConInv
<1> QED BY <1>1, ConInvariant, PTL

\* A connection under safeClose whose peer is up is recycled only with an empty send
\* buffer (ef_connection.cpp:60-81, 172-192).
THEOREM ClosedDrained == ConSpec => CloseComplete
<1>1. ConInv /\ [ConNext]_conVars =>
          [state = "closing" /\ state' = "gone" /\ peer = "up" => sbuf'.size = 0]_conVars
  <2> SUFFICES ASSUME ConInv, ConNext, state = "closing", state' = "gone", peer = "up"
               PROVE  sbuf'.size = 0
    BY DEF conVars
  <2>1. ASSUME NEW n \in 1 .. MaxMsg, SendMessage(n) PROVE FALSE
    <3>1. state' = state BY <2>1, ConSend
    <3> QED BY <3>1
  <2>2. CASE SafeClose BY <2>2, ConClose
  <2>3. CASE HandleWrite BY <2>3, ConWrite
  <2>4. CASE HandleRead \/ HandleReset \/ PeerReads \/ PeerSends \/ PeerResets BY <2>4, ConElse
  <2> QED BY <2>1, <2>2, <2>3, <2>4 DEF ConNext, Loop
<1> QED BY <1>1, ConInvariant, PTL DEF ConSpec, CloseComplete

\* The bytes sendMessage hands to autoResizeWrite, and that the new frame it may
\* need has room for them all: LossOnlyAtBlockEnd's case does not arise.
ToBuffer(n) == IF Buffered THEN Bytes(accepted, n) ELSE Drop(Bytes(accepted, n), Taken(n))
WholeMessages ==
    \A n \in 1 .. MaxMsg :
        SendMessage(n) => Len(Rest(sbuf, ToBuffer(n))) % Align <= Align - Header

\* StreamIntact, as what the buffer holds.
Streaming == peer = "up" /\ Alive => Holds(sbuf, Bytes(sent, accepted - sent))

\* A write to m_send_buf that drops nothing.
LEMMA BufferingWhole ==
    ASSUME NEW b, Sound(b), NEW c \in Seq(Int), Holds(b, c), NEW s \in Seq(Int),
           Len(Rest(b, s)) % Align <= Align - Header
    PROVE  Holds(AutoResizeWrite(b, s), c \o s)
<1> DEFINE a == AutoResizeWrite(b, s)
           n == Dropped(b, s)
<1>1. /\ n \in 0 .. Len(s) /\ Holds(a, c \o SubSeq(s, 1, Len(s) - n))
      /\ n > 0 => Len(Rest(b, s)) % Align > Align - Header
  BY AutoResizeKeeps
<1>2. Align \in Nat \ {0} /\ Header \in Nat /\ Len(s) \in Nat BY LoopBufAssumption, LenProperties
<1>3. Rest(b, s) \in Seq(Int) BY WriteKeeps
<1>4. Len(Rest(b, s)) % Align \in Int
  <2>1. Len(Rest(b, s)) \in Nat BY <1>3, LenProperties
  <2> QED BY <1>2, <2>1, DivMod
<1> HIDE DEF n
<1>5. n = 0 BY <1>1, <1>2, <1>4
<1>6. Len(s) - n = Len(s) BY <1>2, <1>5
<1>7. SubSeq(s, 1, Len(s)) = s BY SubSeqFull
<1> QED BY <1>1, <1>6, <1>7

\* sendMessage: a message goes behind the bytes that wait.
LEMMA StreamSend ==
    ASSUME ConInv, Streaming, NEW n \in 1 .. MaxMsg, SendMessage(n),
           Len(Rest(sbuf, ToBuffer(n))) % Align <= Align - Header
    PROVE  Streaming'
<1> SUFFICES ASSUME peer' = "up", Alive' PROVE Holds(sbuf', Bytes(sent', accepted' - sent'))
  BY DEF Streaming
<1> DEFINE msg == Bytes(accepted, n)
           k == Taken(n)
           l == accepted - sent
           c == Bytes(sent, l)
<1>0. /\ accepted \in Nat /\ sent \in Nat /\ space \in Nat
      /\ sbuf.size \in Nat /\ sent + sbuf.size <= accepted /\ MaxMsg \in Nat
  BY ConTypes
<1>n. n \in Nat /\ n > 0 BY <1>0
<1>1. msg \in Seq(Int) /\ Len(msg) = n BY <1>0, <1>n, BytesIs
<1>2. Sound(sbuf) /\ PendingWatched BY DEF ConInv
<1>3. Alive /\ accepted' = accepted + n /\ peer = "up" BY DEF SendMessage
<1>4. k \in 0 .. n BY <1>0, <1>n DEF Taken, Min2
<1>5. l \in Nat /\ sent + l = accepted BY <1>0
<1>6. c \in Seq(Int) /\ Len(c) = l BY <1>0, <1>5, BytesIs
<1>7. Holds(sbuf, c) BY <1>3 DEF Streaming
<1>8. CASE Buffered /\ sbuf' = AutoResizeWrite(sbuf, msg) /\ UNCHANGED <<noti, state, space, sent>>
  <2>1. ToBuffer(n) = msg BY <1>8 DEF ToBuffer
  <2>2. sent' = sent /\ accepted' - sent' = l + n BY <1>0, <1>n, <1>3, <1>8
  <2>3. c \o msg = Bytes(sent, l + n)
    <3>0. l \in Nat /\ sent \in Nat /\ n \in Nat BY <1>0, <1>5, <1>n
    <3> HIDE DEF l
    <3>1. Bytes(sent, l) \o Bytes(sent + l, n) = Bytes(sent, l + n) BY <3>0, BytesJoin
    <3> QED BY <1>5, <3>1
  <2> HIDE DEF c, msg, l
  <2>4. Holds(AutoResizeWrite(sbuf, msg), c \o msg)
    BY <1>1, <1>2, <1>6, <1>7, <2>1, BufferingWhole
  <2> QED BY <1>8, <2>2, <2>3, <2>4
<1>9. CASE /\ ~Buffered /\ sent' = sent + k
           /\ sbuf' = IF k < n THEN AutoResizeWrite(sbuf, Drop(msg, k)) ELSE sbuf
  <2>1. sbuf.size = 0
    <3>1. ~(sbuf.size > 0) BY <1>2, <1>3, <1>9 DEF PendingWatched, Buffered
    <3> QED BY <1>0, <3>1
  <2>2. l = 0 /\ sent = accepted /\ c = <<>>
    <3>1. sbuf.size = Len(c) BY <1>7 DEF Holds
    <3>2. l = 0 BY <1>6, <2>1, <3>1
    <3>3. sent = accepted BY <1>0, <3>2
    <3>4. c = <<>>
      <4>1. c \in Seq(Int) /\ Len(c) = 0 BY <1>6, <3>2
      <4> HIDE DEF c
      <4> QED BY <4>1, EmptySeq
    <3> QED BY <3>2, <3>3, <3>4
  <2>3. Drop(msg, k) = Bytes(accepted + k, n - k)
    <3>1. n \in k .. n BY <1>4, <1>n
    <3> HIDE DEF k
    <3>2. SubSeq(Bytes(accepted, n), k + 1, n) = Bytes(accepted + k, n - k)
      BY <1>0, <1>n, <1>4, <3>1, BytesPart
    <3> QED BY <1>1, <3>2 DEF Drop
  <2>4. Bytes(accepted + k, n - k) \in Seq(Int) /\ Len(Bytes(accepted + k, n - k)) = n - k
    <3> DEFINE p == accepted + k
               q == n - k
    <3>1. p \in Nat /\ q \in Nat BY <1>0, <1>n, <1>4
    <3> HIDE DEF p, q
    <3>2. Bytes(p, q) \in Seq(Int) /\ Len(Bytes(p, q)) = q BY <3>1, BytesIs
    <3> QED BY <3>2 DEF p, q
  <2>5. sent' = accepted + k /\ accepted' - sent' = n - k
    <3>1. sent' = sent + k BY <1>9
    <3> QED BY <1>0, <1>n, <1>3, <1>4, <2>2, <3>1
  <2>6. ToBuffer(n) = Drop(msg, k) BY <1>9 DEF ToBuffer
  <2> HIDE DEF k, msg, c
  <2> DEFINE s == Drop(msg, k)
  <2>7. s \in Seq(Int) /\ Len(s) = n - k /\ s = Bytes(sent', accepted' - sent') BY <2>3, <2>4, <2>5
  <2>8. Len(Rest(sbuf, s)) % Align <= Align - Header BY <2>6
  <2>9. CASE k < n
    <3>1. sbuf' = AutoResizeWrite(sbuf, s) BY <1>9, <2>9
    <3> HIDE DEF s
    <3>2. Holds(AutoResizeWrite(sbuf, s), c \o s) BY <1>2, <1>6, <1>7, <2>7, <2>8, BufferingWhole
    <3>3. c \o s = s BY <2>2, <2>7, ConcatEmptySeq
    <3> QED BY <2>7, <3>1, <3>2, <3>3
  <2>10. CASE ~(k < n)
    <3>1. sbuf' = sbuf BY <1>9, <2>10
    <3> HIDE DEF s
    <3>2. Len(s) = 0 BY <1>n, <1>4, <2>7, <2>10
    <3>3. s = <<>> BY <2>7, <3>2, EmptySeq
    <3>4. Holds(sbuf, s) BY <1>7, <2>2, <3>3
    <3> QED BY <2>7, <3>1, <3>4
  <2> QED BY <2>9, <2>10
<1>10. CASE state' = "gone" BY <1>10 DEF Alive
<1> QED BY <1>8, <1>9, <1>10 DEF SendMessage

\* doSend takes the bytes from the front of the stream.
LEMMA StreamFlush ==
    ASSUME ConInv, Streaming, Flush, peer = "up", Alive, accepted' = accepted
    PROVE  Holds(sbuf', Bytes(sent', accepted' - sent'))
<1> DEFINE l == accepted - sent
           c == Bytes(sent, l)
<1>0. accepted \in Nat /\ sent \in Nat /\ sbuf.size \in Nat /\ sent + sbuf.size <= accepted BY ConTypes
<1>1. l \in Nat BY <1>0
<1>2. c \in Seq(Int) /\ Len(c) = l BY <1>0, <1>1, BytesIs
<1>3. Holds(sbuf, c) BY DEF Streaming
<1> HIDE DEF c
<1>4. PICK n \in 0 .. Len(c) : sent' = sent + n /\ Holds(sbuf', SubSeq(c, n + 1, Len(c)))
  BY <1>2, <1>3, Flushing
<1>5. accepted' - sent' = l - n BY <1>0, <1>2, <1>4
<1> HIDE DEF l
<1>6. n \in 0 .. l /\ l \in n .. l BY <1>1, <1>2, <1>4
<1>7. SubSeq(c, n + 1, l) = Bytes(sent + n, l - n) BY <1>0, <1>1, <1>6, BytesPart DEF c
<1> QED BY <1>2, <1>4, <1>5, <1>7

\* Every step keeps the stream, if no message is truncated.
LEMMA StreamNext ==
    ConInv /\ Streaming /\ [ConNext]_conVars /\ [WholeMessages]_conVars => Streaming'
<1> SUFFICES ASSUME ConInv, Streaming, [ConNext]_conVars, [WholeMessages]_conVars
             PROVE  Streaming'
  OBVIOUS
<1>1. CASE UNCHANGED conVars BY <1>1 DEF conVars, Streaming, Alive
<1>2. ASSUME WholeMessages, NEW n \in 1 .. MaxMsg, SendMessage(n) PROVE Streaming'
  <2>1. Len(Rest(sbuf, ToBuffer(n))) % Align <= Align - Header BY <1>2 DEF WholeMessages
  <2> QED BY <1>2, <2>1, StreamSend
<1>3. CASE SafeClose
  <2> SUFFICES ASSUME peer' = "up", Alive' PROVE Holds(sbuf', Bytes(sent', accepted' - sent'))
    BY DEF Streaming
  <2>1. peer = "up" /\ Alive /\ accepted' = accepted BY <1>3 DEF SafeClose
  <2>2. CASE Flush BY <2>1, <2>2, StreamFlush
  <2> QED BY <1>3, <2>1, <2>2 DEF SafeClose, Alive
<1>4. CASE HandleWrite
  <2>1. peer = "up" /\ Alive /\ accepted' = accepted /\ Flush BY <1>4 DEF HandleWrite
  <2>2. Holds(sbuf', Bytes(sent', accepted' - sent')) BY <2>1, StreamFlush
  <2> QED BY <2>2 DEF Streaming
<1>5. CASE HandleRead \/ HandleReset \/ PeerReads \/ PeerSends \/ PeerResets
  <2>1. UNCHANGED <<sbuf, sent, accepted>> /\ (peer' = "up" => peer = "up") /\ (Alive' => Alive)
    BY <1>5, ConElse
  <2> QED BY <2>1 DEF Streaming
<1> QED BY <1>1, <1>2, <1>3, <1>4, <1>5 DEF ConNext, Loop

\* The wire carries the application's stream (ef_connection.cpp:251-359) in every
\* behaviour in which autoResizeWrite truncates no message.
THEOREM StreamInOrder == ConSpec /\ [][WholeMessages]_conVars => []StreamIntact
<1>1. ConInit => Streaming
  <2> SUFFICES ASSUME ConInit PROVE Holds(sbuf, Bytes(sent, accepted - sent)) BY DEF Streaming
  <2>1. sbuf = EmptyBuf /\ sent = 0 /\ accepted - sent = 0 BY DEF ConInit
  <2>2. Bytes(0, 0) = <<>> BY DEF Bytes
  <2> QED BY <2>1, <2>2, EmptyIsSound
<1>2. ConInv /\ Streaming => StreamIntact
  <2> SUFFICES ASSUME ConInv, Streaming, peer = "up", Alive
               PROVE  Contents(sbuf) = Bytes(sent, accepted - sent)
    BY DEF StreamIntact
  <2> DEFINE l == accepted - sent
             c == Bytes(sent, l)
  <2>0. accepted \in Nat /\ sent \in Nat /\ sbuf.size \in Nat /\ sent + sbuf.size <= accepted BY ConTypes
  <2>1. l \in Nat BY <2>0
  <2>2. c \in Seq(Int) BY <2>0, <2>1, BytesIs
  <2>3. Sound(sbuf) /\ Holds(sbuf, c) BY DEF ConInv, Streaming
  <2> HIDE DEF c
  <2>4. Contents(sbuf) = c BY <2>2, <2>3, ContentsAre
  <2> QED BY <2>4 DEF c
<1> QED BY <1>1, <1>2, StreamNext, ConInvariant, PTL DEF ConSpec

\* A message that fits into the first block, of at most Align - Header bytes (2016
\* with the 2048 of ef_loop_buf.h:34 and a frame header of 32 bytes), is never
\* truncated: the stream of such messages is intact without a premise.
THEOREM StreamInOrderShort == ASSUME MaxMsg <= Align - Header PROVE ConSpec => []StreamIntact
<1>1. ConInv => WholeMessages
  <2> SUFFICES ASSUME ConInv, NEW n \in 1 .. MaxMsg
               PROVE  Len(Rest(sbuf, ToBuffer(n))) % Align <= Align - Header
    BY DEF WholeMessages
  <2>1. Align \in Nat \ {0} /\ Header \in Nat /\ MaxMsg \in Nat
    BY LoopBufAssumption, ConnectionAssumption
  <2>2. ToBuffer(n) \in Seq(Int) /\ Len(ToBuffer(n)) \in 0 .. n
    <3>0. accepted \in Nat /\ n \in Nat /\ space \in Nat BY ConTypes
    <3>1. Bytes(accepted, n) \in Seq(Int) /\ Len(Bytes(accepted, n)) = n BY <3>0, BytesIs
    <3>2. Taken(n) \in 0 .. n BY <3>0 DEF Taken, Min2
    <3>3. /\ Drop(Bytes(accepted, n), Taken(n)) \in Seq(Int)
          /\ Len(Drop(Bytes(accepted, n), Taken(n))) = n - Taken(n)
      <4>1. n \in Taken(n) .. n BY <3>0, <3>2
      <4>2. /\ SubSeq(Bytes(accepted, n), Taken(n) + 1, n) \in Seq(Int)
            /\ Len(SubSeq(Bytes(accepted, n), Taken(n) + 1, n)) = n - Taken(n)
        BY <3>1, <3>2, <4>1, Slice
      <4> QED BY <3>1, <4>2 DEF Drop
    <3>4. n - Taken(n) \in 0 .. n BY <3>0, <3>2
    <3> QED BY <3>0, <3>1, <3>3, <3>4 DEF ToBuffer
  <2>3. PICK c \in Seq(Int) : Holds(sbuf, c) BY DEF ConInv, Some
  <2>4. Sound(sbuf) BY DEF ConInv
  <2> DEFINE s == ToBuffer(n)
             x == Len(Rest(sbuf, s))
  <2> HIDE DEF s
  <2>5. s \in Seq(Int) /\ Len(s) \in 0 .. n BY <2>2 DEF s
  <2>6. Took(sbuf, s) \in 0 .. Len(s) /\ x = Len(s) - Took(sbuf, s)
    BY <2>3, <2>4, <2>5, WriteKeeps
  <2> HIDE DEF x
  <2>7. x \in Nat /\ x <= MaxMsg BY <2>1, <2>5, <2>6
  <2>8. x % Align \in 0 .. Align - 1 /\ x % Align <= x BY <2>1, <2>7, DivMod
  <2>9. x % Align <= Align - Header BY <2>1, <2>7, <2>8
  <2> QED BY <2>9 DEF s, x
<1> QED BY <1>1, ConInvariant, StreamInOrder, PTL
==============================================================================

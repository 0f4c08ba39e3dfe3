----------------------------- MODULE LoopBufUse -----------------------------
(***************************************************************************)
(* One LoopBuf under the operations its users call: Connection writes      *)
(* messages with autoResizeWrite and receives into freeFrameBuf, reads and *)
(* peeks no more than size(), and clears. The stream of bytes is numbered  *)
(* modulo Modulus, so that a lost, repeated or swapped byte shows.         *)
(***************************************************************************)
EXTENDS LoopBuf

CONSTANTS
    MaxWrite,    \* longest message written
    MaxFrames,   \* bound: a buffer with more frames is not extended
    RecvExtend,  \* bytes asked for when receiving without room (16 * 1024)
    Modulus      \* bytes are numbered modulo this, more than a buffer holds

ASSUME LoopBufUseAssumption ==
    /\ MaxWrite \in Nat /\ MaxFrames \in Nat /\ RecvExtend \in Nat /\ Modulus \in Nat \ {0}

VARIABLES
    buf,    \* the buffer
    front,  \* number of the next byte a reader must get
    back,   \* number of the next byte a writer appends
    lost    \* bytes the last autoResizeWrite dropped though it returned len

useVars == <<buf, front, back, lost>>

Wrapped(from, n) == [i \in 1 .. n |-> (from + i - 1) % Modulus]

UseInit == buf = EmptyBuf /\ front = 0 /\ back = 0 /\ lost = 0

\* autoResizeWrite, as sendMessage, addAsynOperator and ThreadPool use it.
WriteMessage(n) ==
    /\ Len(buf.frames) < MaxFrames
    /\ buf' = AutoResizeWrite(buf, Wrapped(back, n))
    /\ lost' = n - (buf'.size - buf.size)
    /\ back' = (back + n - lost') % Modulus
    /\ UNCHANGED front

\* Connection::handleRead: make room in the frame at m_w_pos if it has none,
\* receive at most that much straight into it, then write(NULL, actrcv).
Receivable == IF FreeFrameLen(buf) <= 0 THEN Extend(buf, RecvExtend) ELSE buf

Receive(n) ==
    /\ FreeFrameLen(buf) > 0 \/ Len(buf.frames) < MaxFrames
    /\ n <= FreeFrameLen(Receivable)
    /\ buf' = Write(Receivable, Wrapped(back, n))
    /\ back' = (back + n) % Modulus
    /\ lost' = 0
    /\ UNCHANGED front

\* readBuf of a whole packet, doSend's read(NULL, ret), processOps' read.
ReadBytes(n) ==
    /\ n <= buf.size
    /\ buf' = Read(buf, n)
    /\ front' = (front + n) % Modulus
    /\ lost' = 0
    /\ UNCHANGED back

\* clearBuf and clearSendQueue of Client::disconnect.
ClearBuf ==
    /\ buf' = Clear(buf)
    /\ front' = back /\ lost' = 0
    /\ UNCHANGED back

UseNext ==
    \/ \E n \in 1 .. MaxWrite : WriteMessage(n) \/ Receive(n)
    \/ \E n \in 1 .. buf.size : ReadBytes(n)
    \/ ClearBuf

UseSpec == UseInit /\ [][UseNext]_useVars

-----------------------------------------------------------------------------
\* The list and its counters stay consistent: m_w_pos is in the list, a frame
\* holds no more than its capacity, an empty one starts at its beginning, and
\* frames after m_w_pos hold nothing (read and peek stop there).
UseTypeOK ==
    /\ buf.w \in 1 .. Len(buf.frames) /\ buf.size \in Nat /\ lost \in Nat
    /\ \A i \in 1 .. Len(buf.frames) :
          LET f == buf.frames[i]
          IN  /\ Room(f) >= 0
              /\ f.data = <<>> => f.start = 0
              /\ i > buf.w => f.data = <<>>

\* The buffer is a queue: size() is the number of bytes in it, and a reader gets
\* exactly the bytes written and kept, in order, wherever frames have moved to;
\* a peek of any length sees what a read would take.
FifoOrder ==
    /\ Contents(buf) = Wrapped(front, buf.size)
    /\ \A n \in 0 .. buf.size : Peek(buf, n) = Wrapped(front, n)

\* autoResizeWrite keeps the whole message unless what is left for the new frame
\* falls in the last bytes of an alignment block, where allocFrame returns a frame
\* smaller than asked for; then it drops fewer bytes than a frame header has.
LossOnlyAtBlockEnd ==
    [][\A n \in 1 .. MaxWrite :
          (WriteMessage(n) /\ lost' > 0) =>
              /\ lost' < Header
              /\ Len(Rest(buf, Wrapped(back, n))) % Align > Align - Header]_useVars
=============================================================================

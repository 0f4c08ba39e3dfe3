------------------------------- MODULE LoopBuf -------------------------------
(***************************************************************************)
(* ef::LoopBuf (efnfw/base/ef_loop_buf.cpp): a byte queue made of a linked *)
(* list of frames. A buffer is a record: frames is the list from m_head to *)
(* m_tail, w the position of m_w_pos in it, size the counter m_size. A     *)
(* frame has a capacity, the offset m_start of its first byte, its bytes.  *)
(***************************************************************************)
EXTENDS Integers, Sequences, SequencesExt

CONSTANTS
    Align,    \* DEFAUTLT_ALIGN_SIZE
    Header    \* sizeof(frame), taken out of each allocation

ASSUME LoopBufAssumption ==
    /\ Align \in Nat \ {0} /\ Header \in Nat /\ Header < Align

Room(f) == f.cap - f.start - Len(f.data)
Full(f) == f.start + Len(f.data) = f.cap

\* alignSize, allocFrame and constructFrame.
AllocFrame(l) == [cap |-> l + Align - (l % Align) - Header, start |-> 0, data |-> <<>>]

\* The constructor: one frame of the smallest allocation.
EmptyBuf == [frames |-> <<AllocFrame(0)>>, w |-> 1, size |-> 0]

Min2(a, b) == IF a <= b THEN a ELSE b
Drop(s, n) == SubSeq(s, n + 1, Len(s))

\* A turn of the loop of LoopBuf::write: frame::write fills the frame at m_w_pos
\* as far as it goes; rest is what has not been written yet.
FillTurn(r) ==
    IF r.rest = <<>> \/ Full(r.frames[r.w]) THEN r
    ELSE LET n  == Min2(Room(r.frames[r.w]), Len(r.rest))
             fs == [r.frames EXCEPT ![r.w].data = @ \o SubSeq(r.rest, 1, n)]
         IN  [frames |-> fs,
              w      |-> IF Full(fs[r.w]) /\ r.w < Len(fs) THEN r.w + 1 ELSE r.w,
              rest   |-> Drop(r.rest, n)]

\* The loop: a turn writes at least one byte, so there are no more than Len(s).
Fill(b, s) ==
    LET turn[i \in 0 .. Len(s)] ==
            IF i = 0 THEN [frames |-> b.frames, w |-> b.w, rest |-> s]
                     ELSE FillTurn(turn[i - 1])
    IN  turn[Len(s)]

Rest(b, s) == Fill(b, s).rest

Write(b, s) ==
    LET r == Fill(b, s)
    IN  [frames |-> r.frames, w |-> r.w, size |-> b.size + Len(s) - Len(r.rest)]

Extend(b, l) ==
    [b EXCEPT !.frames = Append(@, AllocFrame(l)),
              !.w = IF Full(b.frames[b.w]) THEN b.w + 1 ELSE b.w]

\* Mutant of AutoResizeWrite: the second write starts from buf, not buf + ret.
AutoResizeWriteRepeat(b, s) ==
    IF Rest(b, s) = <<>> THEN Write(b, s) ELSE Write(Extend(Write(b, s), Len(s)), s)

\* Mutant of AutoResizeWrite: no second write.
AutoResizeWriteOnce(b, s) ==
    IF Rest(b, s) = <<>> THEN Write(b, s) ELSE Extend(Write(b, s), Len(s))

\* One new frame for what is left, then a second write: what that leaves again
\* is dropped.
AutoResizeWrite(b, s) ==
    LET rest == Rest(b, s)
    IN  IF rest = <<>> THEN Write(b, s)
                       ELSE Write(Extend(Write(b, s), Len(rest)), rest)

\* The bytes of the first n frames, in list order.
BytesOf(b, n) == FlattenSeq([i \in 1 .. n |-> b.frames[i].data])

\* frame::read of the first k bytes.
ReadFrame(f, k) ==
    [cap |-> f.cap, start |-> IF k = Len(f.data) THEN 0 ELSE f.start + k,
     data |-> Drop(f.data, k)]

\* LoopBuf::read of n bytes, n at most size, ends in the first frame by whose end
\* there are as many. Each frame it empties on the way goes to the tail of the
\* list, whether or not it is m_w_pos.
Read(b, n) ==
    LET num     == Len(b.frames)
        Upto(i) == Len(BytesOf(b, i))
        end     == Min({i \in 1 .. num : Upto(i) >= n})
        after   == [i \in 1 .. num |->
                       IF i < end THEN ReadFrame(b.frames[i], Len(b.frames[i].data))
                       ELSE IF i = end THEN ReadFrame(b.frames[i], n - Upto(i - 1))
                       ELSE b.frames[i]]
        emptied == IF Upto(end) = n THEN end ELSE end - 1
    IN  IF n = 0 THEN b
        ELSE [frames |-> SubSeq(after, emptied + 1, num) \o SubSeq(after, 1, emptied),
              w      |-> IF b.w > emptied THEN b.w - emptied ELSE b.w - emptied + num,
              size   |-> b.size - n]

\* LoopBuf::peek: at most n bytes from m_head up to and including m_w_pos.
Peek(b, n) == LET s == BytesOf(b, b.w) IN SubSeq(s, 1, Min2(n, Len(s)))

Contents(b) == BytesOf(b, Len(b.frames))

FirstFrameLen(b) == Len(b.frames[1].data)
FreeFrameLen(b) == Room(b.frames[b.w])

\* clear: every frame emptied, m_w_pos left where it is.
Clear(b) ==
    [b EXCEPT !.frames = [i \in DOMAIN @ |-> [cap |-> @[i].cap, start |-> 0, data |-> <<>>]],
              !.size = 0]
==============================================================================

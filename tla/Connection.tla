----------------------------- MODULE Connection -----------------------------
(***************************************************************************)
(* The sending side of ef::Connection (efnfw/net/ef_connection.cpp) and    *)
(* the event dispatch of EventLoop::run that drives it: what sendMessage   *)
(* cannot put into the socket at once waits in m_send_buf until EPOLLOUT.  *)
(* All of it runs on the loop thread, so a handler is one step; the socket *)
(* and the peer move in between. The bytes of the messages are numbered in *)
(* the order the application sends them.                                   *)
(***************************************************************************)
EXTENDS LoopBuf, FiniteSets

CONSTANTS
    MaxMsg,     \* longest message
    MaxBytes,   \* bound: bytes sent in a behaviour
    SndBuf,     \* size of the kernel's send buffer
    MaxReads,   \* bound: times the peer makes the socket readable
    StaleErrno  \* what errno may hold from earlier calls of the thread

ASSUME ConnectionAssumption ==
    /\ {MaxMsg, MaxBytes, MaxReads} \subseteq Nat /\ SndBuf \in Nat \ {0}
    /\ StaleErrno \subseteq {"EAGAIN", "EINTR", "other"} /\ "EAGAIN" \in StaleErrno

VARIABLES
    sbuf,      \* m_send_buf
    noti,      \* the events registered with epoll
    state,     \* open, closing (FLAG_SAFE_CLOSE), gone (recycled), or spinning:
               \* the thread repeats a send of no bytes for ever
    space,     \* room in the kernel's send buffer
    readable,  \* bytes from the peer wait to be received
    reads,     \* times that has happened
    peer,      \* up, or reset
    accepted,  \* bytes the application has sent
    sent       \* bytes the kernel has taken

conVars == <<sbuf, noti, state, space, readable, reads, peer, accepted, sent>>

Bytes(from, n) == [i \in 1 .. n |-> from + i]

ConInit ==
    /\ sbuf = EmptyBuf /\ noti = {"read"} /\ state = "open"
    /\ space = SndBuf /\ readable = FALSE /\ reads = 0 /\ peer = "up"
    /\ accepted = 0 /\ sent = 0

-----------------------------------------------------------------------------
\* The bytes in front of the first empty frame: doSend sends frame after frame.
Sendable(b) ==
    LET filled == {i \in 0 .. Len(b.frames) : \A j \in 1 .. i : b.frames[j].data # <<>>}
    IN  Len(BytesOf(b, Max(filled)))

\* If the last of them goes too, doSend ends with a send of no bytes, after which
\* errno is left over from some earlier call: send_ takes an EINTR for its own and
\* repeats the call, which leaves errno as it is.
LastTurn ==
    IF Sendable(sbuf) \in 1 .. space THEN StaleErrno ELSE {"EAGAIN"}

\* The connection is there and its thread runs.
Alive == state \in {"open", "closing"}

\* The buffer and the socket after doSend, which stops when the socket is full.
Flush ==
    \E n \in 0 .. space :
        /\ n = Min2(Sendable(sbuf), space)
        /\ sbuf' = Read(sbuf, n) /\ sent' = sent + n /\ space' = space - n

\* send_: the bytes of n the kernel takes; none is EAGAIN.
Taken(n) == Min2(n, space)

\* Mutant of Buffered: a message is sent past the bytes that wait.
BufferedNever == FALSE

\* sendMessage looks at the registered events to see whether bytes wait.
Buffered == "write" \in noti

\* Mutant of WatchWrite: EPOLLOUT is not asked for.
WatchWriteNot == noti

\* The events registered when sendMessage has to buffer.
WatchWrite == {"read", "write"}

\* sendMessage, called by a packet handler or by SendMessageOp (which finds a
\* closing connection in m_con_map too); a failed send ends in recycle.
SendMessage(n) ==
    /\ Alive /\ accepted + n <= MaxBytes
    /\ LET msg == Bytes(accepted, n)
           k   == Taken(n)
       IN  \/ /\ Buffered
              /\ sbuf' = AutoResizeWrite(sbuf, msg)
              /\ UNCHANGED <<noti, state, space, sent>>
           \/ /\ ~Buffered /\ peer = "reset"
              /\ state' = "gone"
              /\ UNCHANGED <<sbuf, noti, space, sent>>
           \/ /\ ~Buffered /\ peer = "up"
              /\ sent' = sent + k /\ space' = space - k
              /\ sbuf' = IF k < n THEN AutoResizeWrite(sbuf, Drop(msg, k)) ELSE sbuf
              /\ noti' = IF k < n THEN WatchWrite ELSE noti
              /\ UNCHANGED state
    /\ accepted' = accepted + n
    /\ UNCHANGED <<readable, reads, peer>>

\* Mutant of WatchClose: the registration is left as it is for a reader.
WatchCloseRead == {"read"}

\* safeClose keeps only the interest in EPOLLOUT.
WatchClose == {"write"}

\* safeClose, from CloseConnectionOp, CloseAllConnectionsOp or handleTimer.
SafeClose ==
    /\ Alive
    /\ \/ sbuf.size = 0 /\ state' = "gone" /\ UNCHANGED <<sbuf, noti, space, sent>>
       \/ /\ sbuf.size > 0 /\ noti' = WatchClose /\ peer = "reset"
          /\ state' = "closing" /\ UNCHANGED <<sbuf, space, sent>>
       \/ /\ sbuf.size > 0 /\ noti' = WatchClose /\ peer = "up"
          /\ Flush
          /\ \E e \in LastTurn : state' = IF e = "EINTR" THEN "spinning" ELSE "closing"
    /\ UNCHANGED <<readable, reads, peer, accepted>>

\* run(): EPOLLIN comes first. handleRead takes what there is; a handler that
\* refuses the packet has the connection recycled.
HandleRead ==
    /\ Alive /\ peer = "up" /\ "read" \in noti /\ readable
    /\ readable' = FALSE
    /\ state' \in {state, "gone"}
    /\ UNCHANGED <<sbuf, noti, space, reads, peer, accepted, sent>>

\* Mutant of Drained: looks at the first frame only.
DrainedFirst(b) == FirstFrameLen(b) = 0

\* handleWrite: nothing is left to send.
Drained(b) == b.size = 0

\* run(): EPOLLOUT is looked at only without EPOLLIN. handleWrite flushes; an
\* empty buffer ends a closing connection (-2) or the interest in EPOLLOUT. A
\* stale errno can make doSend fail after it has sent everything.
HandleWrite ==
    /\ Alive /\ peer = "up" /\ "write" \in noti /\ space > 0
    /\ ~("read" \in noti /\ readable)
    /\ Flush
    /\ \/ "EINTR" \in LastTurn /\ state' = "spinning" /\ UNCHANGED noti
       \/ "other" \in LastTurn /\ state' = "gone" /\ UNCHANGED noti
       \/ /\ Drained(sbuf')
          /\ IF state = "closing" THEN state' = "gone" /\ UNCHANGED noti
                                  ELSE noti' = {"read"} /\ UNCHANGED state
       \/ ~Drained(sbuf') /\ UNCHANGED <<noti, state>>
    /\ UNCHANGED <<readable, reads, peer, accepted>>

\* run(): an error event, or a failing read or write: onFail recycles.
HandleReset ==
    /\ Alive /\ peer = "reset"
    /\ state' = "gone"
    /\ UNCHANGED <<sbuf, noti, space, readable, reads, peer, accepted, sent>>

-----------------------------------------------------------------------------
(* The peer and the network *)

PeerReads ==
    /\ peer = "up" /\ space < SndBuf
    /\ space' = SndBuf
    /\ UNCHANGED <<sbuf, noti, state, readable, reads, peer, accepted, sent>>

PeerSends ==
    /\ peer = "up" /\ ~readable /\ reads < MaxReads
    /\ readable' = TRUE /\ reads' = reads + 1
    /\ UNCHANGED <<sbuf, noti, state, space, peer, accepted, sent>>

PeerResets ==
    /\ peer = "up" /\ state # "gone"
    /\ peer' = "reset"
    /\ UNCHANGED <<sbuf, noti, state, space, readable, reads, accepted, sent>>

Loop == SafeClose \/ HandleRead \/ HandleWrite \/ HandleReset

ConNext ==
    \/ \E n \in 1 .. MaxMsg : SendMessage(n)
    \/ Loop
    \/ PeerReads \/ PeerSends \/ PeerResets

ConSpec == ConInit /\ [][ConNext]_conVars

\* The loop handles the events epoll reports, and a live peer goes on reading.
ConFairSpec ==
    /\ ConSpec
    /\ WF_conVars(HandleRead \/ HandleWrite \/ HandleReset)
    /\ WF_conVars(PeerReads)

-----------------------------------------------------------------------------
(* Properties *)

\* Types; the kernel holds no more than its buffer.
ConTypeOK ==
    /\ noti \subseteq {"read", "write"} /\ state \in {"open", "closing", "gone", "spinning"}
    /\ space \in 0 .. SndBuf /\ readable \in BOOLEAN /\ reads \in 0 .. MaxReads
    /\ peer \in {"up", "reset"} /\ accepted \in 0 .. MaxBytes /\ sent \in 0 .. MaxBytes

\* The wire carries the application's stream: behind the bytes the kernel has
\* taken, m_send_buf holds exactly the following ones, so that a message sent
\* directly never overtakes or splits one that is still buffered.
StreamIntact ==
    peer = "up" /\ Alive => Contents(sbuf) = Bytes(sent, accepted - sent)

\* Unsent bytes are always watched for: a connection with a non-empty m_send_buf
\* is registered for EPOLLOUT, or no event would ever send them.
PendingWatched == Alive /\ sbuf.size > 0 => "write" \in noti

\* A safeClose connection that the peer has not reset is recycled with nothing
\* left to send ("close after all send buf has send").
CloseComplete ==
    [][state = "closing" /\ state' = "gone" /\ peer = "up" => sbuf'.size = 0]_conVars

\* Bytes behind an empty first frame: doSend does not see them any more.
Stalled == sbuf.size > 0 /\ FirstFrameLen(sbuf) = 0

\* With a peer that reads, a closing connection does get closed; the only things
\* that keep it are bytes behind an empty first frame and a stale EINTR.
ClosesUnlessStalled ==
    state = "closing" ~> (state \in {"gone", "spinning"} \/ Stalled)

=============================================================================

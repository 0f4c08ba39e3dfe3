------------------------------ MODULE PushPath ------------------------------
(***************************************************************************)
(* A push on its way: from a connection to the push server's JSON          *)
(* interface (ListenCon), over the push server's connections to the        *)
(* connect servers (SvCon, one per server and loop), through the loops of  *)
(* the connect servers to the clients' connections.  One connection to the *)
(* interface and the loop it lives in are modelled, with the bytes of its  *)
(* requests, since handleRead puts packets together from what arrives.     *)
(* What a connection carries is a queue of messages here (see Connection), *)
(* and a session id names its session (see ConnectServer).                 *)
(***************************************************************************)
EXTENDS Integers, Sequences, FiniteSets, SequencesExt

CONSTANTS
  Sessions, Servers,
  consvid,     \* the connect server of a session
  HeadSize,    \* sizeof(head)
  Lengths,     \* lengths of requests
  MaxLen,      \* the longest packet accepted
  MaxReq,      \* requests sent
  MaxLinks     \* connections to one connect server, one after another

ASSUME PushPathAssumption ==
  /\ IsFiniteSet(Sessions) /\ consvid \in [Sessions -> Servers]
  /\ HeadSize \in Nat \ {0} /\ MaxLen \in Nat /\ Lengths \subseteq HeadSize..MaxLen
  /\ MaxReq \in Nat /\ MaxLinks \in Nat

VARIABLES
  sent,    \* requests sent: kind, length, offset of the end in the stream
  rcvd,    \* bytes of the stream that have been received
  off,     \* bytes of the stream that have been taken from m_buf
  lpc,     \* the loop's thread: idle, in the inner loop of handleRead (packets),
           \* or about to recycle the ListenCon (failing)
  api,     \* the ListenCon: open, closed
  peer,    \* its client is there
  answers, \* the answers constructed
  wired,   \* how many of them have gone out to the socket
  seen,    \* how many the client has read
  cur,     \* m_svcons: per server the number of its connection, 0 for none
  link,    \* per connection to a connect server: state and messages on it
  queue,   \* operators for a session in its loop of the connect server
  up,      \* sessions whose connection exists
  got      \* what has reached the sessions

vars == <<sent, rcvd, off, lpc, api, peer, answers, wired, seen, cur, link, queue, up, got>>

apiVars == <<sent, rcvd, off, lpc, api, peer, answers, wired, seen>>
pathVars == <<cur, link, queue, up, got>>

\* The requests: push, bad (no JSON, or without to_id), other (another cmd),
\* badlen (a length that checkPackLen refuses).
Kinds == {"push", "bad", "other", "badlen"}

Total == IF sent = <<>> THEN 0 ELSE sent[Len(sent)].end

\* The requests taken from m_buf.
Done == Cardinality({i \in DOMAIN sent : sent[i].end <= off})

TypeOK ==
  /\ sent \in Seq([kind : Kinds, len : Nat, end : Nat])
  /\ rcvd \in 0..Total /\ off \in 0..rcvd
  /\ lpc \in {"idle", "packets", "failing"} /\ api \in {"open", "closed"} /\ peer \in BOOLEAN
  /\ answers \in Seq([req : 1..MaxReq, status : -1..Cardinality(Sessions)])
  /\ wired \in 0..Len(answers) /\ seen \in 0..Len(answers)
  /\ cur \in [Servers -> 0..MaxLinks]
  /\ link \in [Servers -> [1..MaxLinks -> [st : {"none", "up", "broken"},
                                           q : Seq([sess : Sessions, req : 1..MaxReq])]]]
  /\ queue \in [Sessions -> Seq(1..MaxReq)]
  /\ up \subseteq Sessions
  /\ got \in [Sessions -> Seq(1..MaxReq)]

Init ==
  /\ sent = <<>> /\ rcvd = 0 /\ off = 0
  /\ lpc = "idle" /\ api = "open" /\ peer = TRUE
  /\ answers = <<>> /\ wired = 0 /\ seen = 0
  /\ cur = [v \in Servers |-> 0]
  /\ link = [v \in Servers |-> [i \in 1..MaxLinks |-> [st |-> "none", q |-> <<>>]]]
  /\ queue = [s \in Sessions |-> <<>>]
  /\ up = Sessions
  /\ got = [s \in Sessions |-> <<>>]

-----------------------------------------------------------------------------
(* The client of the interface *)

Ask(k, n) ==
  /\ peer /\ api = "open" /\ Len(sent) < MaxReq
  /\ sent' = Append(sent, [kind |-> k, len |-> n, end |-> Total + n])
  /\ UNCHANGED <<rcvd, off, lpc, api, peer, answers, wired, seen, pathVars>>

ReadAnswer ==
  /\ peer /\ seen < wired
  /\ seen' = seen + 1
  /\ UNCHANGED <<sent, rcvd, off, lpc, api, peer, answers, wired, pathVars>>

HangUp ==
  /\ peer /\ api = "open"
  /\ peer' = FALSE
  /\ UNCHANGED <<sent, rcvd, off, lpc, api, answers, wired, seen, pathVars>>

-----------------------------------------------------------------------------
(* Connection::handleRead of the ListenCon *)

\* recycle: the rest of m_send_buf is lost; if received bytes have not been
\* read, the socket is reset and the client may lose what it has not read.
Recycle ==
  /\ api' = "closed" /\ lpc' = "idle"
  /\ wired' \in IF rcvd < Total THEN seen..wired ELSE {wired}

\* A receive of n bytes.
Receive(n) ==
  /\ lpc = "idle" /\ api = "open" /\ rcvd + n <= Total
  /\ rcvd' = rcvd + n
  /\ lpc' = "packets"
  /\ UNCHANGED <<sent, off, api, peer, answers, wired, seen, pathVars>>

\* A read event without bytes: the client has closed.
ReceiveNothing ==
  /\ lpc = "idle" /\ api = "open" /\ ~peer /\ rcvd = Total
  /\ Recycle
  /\ UNCHANGED <<sent, rcvd, off, peer, answers, seen, pathVars>>

\* bufLen()
BufLen == rcvd - off

\* The length in the header at the beginning of m_buf: that of the request
\* that starts there, and anything if none does.
HeaderLen(n) ==
  \/ \E i \in DOMAIN sent :
       /\ sent[i].end - sent[i].len = off
       /\ n = IF sent[i].kind = "badlen" THEN MaxLen + 1 ELSE sent[i].len
  \/ ~(\E i \in DOMAIN sent : sent[i].end - sent[i].len = off) /\ n \in 0..(MaxLen + 1)

\* checkPackLen: 0 as long as the packet is not complete, -1 for a length
\* that no packet has.
CheckPackLen(ret) ==
  IF BufLen < HeadSize THEN ret = 0
  ELSE \E n \in 0..(MaxLen + 1) :
         /\ HeaderLen(n)
         /\ ret = IF n < HeadSize \/ n > MaxLen THEN -1 ELSE IF n <= BufLen THEN n ELSE 0

\* sendMessage of an answer: to the socket if nothing waits before it and the
\* socket takes all of it, else into m_send_buf.
SendJsonResponse(status) ==
  /\ answers' = Append(answers, [req |-> Done + 1, status |-> status])
  /\ \/ wired = Len(answers) /\ wired' = wired + 1
     \/ UNCHANGED wired

\* Mutant of CanCount: a session without a connection to its server counts too.
CanCountAny(s) == s \in Sessions

\* sendToServer: whether the push for session s is counted, and on which
\* connection of its server it is then. A connection that is broken without
\* the loop knowing may take the message or refuse it.
CanCount(s) == cur[consvid[s]] # 0

MustCount(s) == cur[consvid[s]] # 0 /\ link[consvid[s]][cur[consvid[s]]].st = "up"

\* The pushes on the connections of their servers. Each session has a queue of
\* its own behind that, so the order among sessions does not matter.
SendPushes(S, r) ==
  link' = [v \in Servers |->
             IF cur[v] = 0 \/ link[v][cur[v]].st # "up" THEN link[v]
             ELSE [link[v] EXCEPT ![cur[v]].q =
                     @ \o SetToSeq({[sess |-> s, req |-> r] : s \in {t \in S : consvid[t] = v}})]]

\* Mutant of Refused: the answer is sent and the connection goes on.
RefusedStays ==
  /\ SendJsonResponse(-1)
  /\ UNCHANGED <<lpc, pathVars>>

\* A request that is refused is answered and ends the connection. The codes -1
\* to -4 are not told apart.
Refused ==
  /\ SendJsonResponse(-1)
  /\ lpc' = "failing"
  /\ UNCHANGED pathVars

\* handlePushReqeust of a request with a to_id: no session cache, no session
\* in it, or a push to every session found, whether it still exists or not.
PushToSessions ==
  \/ Refused
  \/ \E found \in SUBSET Sessions \ {{}} :
     \E counted \in SUBSET found :
       /\ {s \in found : MustCount(s)} \subseteq counted
       /\ \A s \in counted : CanCount(s)
       /\ SendPushes(counted, Done + 1)
       /\ SendJsonResponse(Cardinality(counted))
       /\ UNCHANGED <<lpc, cur, queue, up, got>>

\* handlePacket and handlePushReqeust for the request at the beginning of m_buf.
HandlePacket(k) ==
  \/ k = "bad" /\ Refused
  \/ k = "push" /\ PushToSessions
  \/ k = "other" /\ UNCHANGED <<answers, wired, lpc, pathVars>>

\* One turn of the inner loop with a complete packet. A packet that does not
\* start where a request does can be taken for anything.
Packet ==
  /\ lpc = "packets"
  /\ \E len \in HeadSize..MaxLen :
       /\ CheckPackLen(len)
       /\ off' = off + len
  /\ \E k \in Kinds :
       /\ \A i \in DOMAIN sent : sent[i].end - sent[i].len = off => sent[i].kind = k
       /\ HandlePacket(k)
  /\ UNCHANGED <<sent, rcvd, api, peer, seen>>

\* The rest is not a whole packet: handleRead returns.
PacketsDone ==
  /\ lpc = "packets" /\ CheckPackLen(0)
  /\ lpc' = "idle"
  /\ UNCHANGED <<sent, rcvd, off, api, peer, answers, wired, seen, pathVars>>

PacketBad ==
  /\ lpc = "packets" /\ CheckPackLen(-1)
  /\ lpc' = "failing"
  /\ UNCHANGED <<sent, rcvd, off, api, peer, answers, wired, seen, pathVars>>

\* run() calls onFail for a handler that has failed.
Fail ==
  /\ lpc = "failing"
  /\ Recycle
  /\ UNCHANGED <<sent, rcvd, off, peer, answers, seen, pathVars>>

\* handleWrite, when the socket takes more of m_send_buf.
Write(n) ==
  /\ lpc = "idle" /\ api = "open" /\ wired + n <= Len(answers)
  /\ wired' = wired + n
  /\ UNCHANGED <<sent, rcvd, off, lpc, api, peer, answers, seen, pathVars>>

-----------------------------------------------------------------------------
(* Connections to the connect servers *)

\* A connection to server v registers: handleRegisterResponse. A second one to a
\* server that has one, which overwrites the entry, is in PushServer.
Register(v) ==
  /\ lpc = "idle" /\ cur[v] = 0
  /\ \E i \in 1..MaxLinks :
       /\ link[v][i].st = "none" /\ \A j \in 1..(i - 1) : link[v][j].st # "none"
       /\ link' = [link EXCEPT ![v][i].st = "up"]
       /\ cur' = [cur EXCEPT ![v] = i]
  /\ UNCHANGED <<apiVars, queue, up, got>>

\* The connection breaks: a part of what is on it still arrives.
Break(v, i) ==
  /\ link[v][i].st = "up"
  /\ \E n \in 0..Len(link[v][i].q) :
       link' = [link EXCEPT ![v][i] = [st |-> "broken", q |-> SubSeq(link[v][i].q, 1, n)]]
  /\ UNCHANGED <<apiVars, cur, queue, up, got>>

\* The loop learns of it: onDisconnected or ~SvCon, delServer.
Disconnected(v) ==
  /\ lpc = "idle" /\ cur[v] # 0 /\ link[v][cur[v]].st = "broken"
  /\ cur' = [cur EXCEPT ![v] = 0]
  /\ UNCHANGED <<apiVars, link, queue, up, got>>

\* Mutant of Route: the operator is put before those that wait.
RouteFront(v, i) ==
  /\ link[v][i].q # <<>>
  /\ LET m == Head(link[v][i].q)
     IN queue' = [queue EXCEPT ![m.sess] = <<m.req>> \o @]
  /\ link' = [link EXCEPT ![v][i].q = Tail(@)]
  /\ UNCHANGED <<apiVars, cur, up, got>>

\* CliCon::handlePushRequest on the connect server: SendMsgOp for the loop of
\* the session.
Route(v, i) ==
  /\ link[v][i].q # <<>>
  /\ LET m == Head(link[v][i].q)
     IN queue' = [queue EXCEPT ![m.sess] = Append(@, m.req)]
  /\ link' = [link EXCEPT ![v][i].q = Tail(@)]
  /\ UNCHANGED <<apiVars, cur, up, got>>

\* SendMsgOp::process: sent to the session's connection, or dropped.
Deliver(s) ==
  /\ queue[s] # <<>>
  /\ queue' = [queue EXCEPT ![s] = Tail(@)]
  /\ got' = IF s \in up THEN [got EXCEPT ![s] = Append(@, Head(queue[s]))] ELSE got
  /\ UNCHANGED <<apiVars, cur, link, up>>

\* The connection of a session ends.
SessionEnds(s) ==
  /\ s \in up
  /\ up' = up \ {s}
  /\ UNCHANGED <<apiVars, cur, link, queue, got>>

-----------------------------------------------------------------------------
Client == (\E k \in Kinds, n \in Lengths : Ask(k, n)) \/ ReadAnswer \/ HangUp

HandleRead ==
  \/ \E n \in 1..(Total - rcvd) : Receive(n)
  \/ ReceiveNothing \/ Packet \/ PacketsDone \/ PacketBad \/ Fail

Links == Servers \X (1..MaxLinks)

Next ==
  \/ Client \/ HandleRead
  \/ \E n \in 1..(Len(answers) - wired) : Write(n)
  \/ \E v \in Servers : Register(v) \/ Disconnected(v)
  \/ \E l \in Links : Break(l[1], l[2]) \/ Route(l[1], l[2])
  \/ \E s \in Sessions : Deliver(s) \/ SessionEnds(s)

\* The loops of the connect servers run.
Fairness ==
  /\ \A l \in Links : WF_vars(Route(l[1], l[2]))
  /\ \A s \in Sessions : WF_vars(Deliver(s))

Spec == Init /\ [][Next]_vars /\ Fairness

-----------------------------------------------------------------------------
(* Properties *)

\* The requests on their way to session s.
UnderWay(s) ==
  Range(queue[s]) \cup {m.req : m \in {x \in UNION {Range(link[l[1]][l[2]].q) : l \in Links} : x.sess = s}}

AskedFor(i) == CASE sent[i].kind \in {"push", "other"} -> sent[i].kind [] OTHER -> "bad"

Promise == INSTANCE PushDelivery WITH
  sent <- [i \in DOMAIN sent |-> AskedFor(i)],
  done <- Done,
  seen <- SubSeq(answers, 1, seen),
  open <- api = "open" /\ lpc # "failing",
  pending <- [s \in Sessions |-> IF s \in up THEN UnderWay(s) ELSE {}]

\* The push path keeps the promise of PushDelivery: packets are put together
\* from any segments, served in order, answered once each, the refused one last,
\* and a push reaches a session at most once and arrives unless it is lost.
KeepsPromise == Promise!Spec

\* How many sessions request r has reached or is under way to.
Reached(r) == {s \in Sessions : r \in Range(got[s]) \cup UnderWay(s)}

\* The count in an answer is exact until a connection to a connect server breaks
\* or a session ends: then pushes are dropped without a word (client_conn.cpp:471).
CountExact ==
  (up = Sessions /\ \A l \in Links : link[l[1]][l[2]].st # "broken") =>
    \A i \in DOMAIN answers : answers[i].status >= 0 =>
      Cardinality(Reached(answers[i].req)) = answers[i].status

\* Pushes reach a session in the order they were asked for, unless its server
\* has been connected to again: an old connection can then be read after a newer.
InOrder ==
  \A s \in Sessions :
    (\A i \in 2..MaxLinks : link[consvid[s]][i].st = "none") =>
      \A i, j \in DOMAIN got[s] : i < j => got[s][i] < got[s][j]
=============================================================================

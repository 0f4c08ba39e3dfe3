---------------------------- MODULE ConnectServer ----------------------------
(***************************************************************************)
(* The connect server (connect_server/src): clients and push servers keep  *)
(* a CliCon each. A connection gets an id on accept, is handed to an event *)
(* loop, logs in, keeps its session in the session cache and receives the  *)
(* pushes that other connections send to its session id.                   *)
(*                                                                         *)
(* Each event loop is a thread; a packet handler is one step of the loop   *)
(* that owns the connection. Loops pass operators through their queues,    *)
(* as EventLoop models in detail.                                          *)
(***************************************************************************)
EXTENDS Integers, Sequences, FiniteSets, SequencesExt

CONSTANTS
    Conns,      \* connection objects
    Users,      \* ids in login requests
    Types,      \* types in login requests: < 0 clients, > 0 push servers
    Ports,      \* listening ports: the entries of CliConfigs
    Accepts,    \* per port, the types from MinType up to MaxType
    StartIdx,   \* per port, StartThreadIdx
    ThreadCnt,  \* per port, ThreadCnt
    Loops,      \* indices of the event loops
    Mask,       \* EVENT_LOOP_ID_MASK
    MaxId,      \* the id after which the counter restarts, 0X7FFFFFF
    None,       \* no connection, and the empty session id
    Foreign,    \* a session id of another connect server
    MaxQueue    \* bound: operators waiting for one loop

ASSUME ConnectServerAssumption ==
    /\ Mask \in Nat \ {0} /\ MaxId \in Nat \ {0, 1} /\ Types \subseteq Int /\ Loops \subseteq Nat
    /\ StartIdx \in [Ports -> Nat] /\ ThreadCnt \in [Ports -> Nat \ {0}]
    /\ Accepts \in [Ports -> SUBSET Types]
    /\ \A p \in Ports : StartIdx[p] .. StartIdx[p] + ThreadCnt[p] - 1 \subseteq Loops
    /\ None \notin Conns

VARIABLES
    lastId,   \* the counter of Connection's constructor
    conn,     \* state of each connection: place, ids, m_status and m_sess
    conMap,   \* m_con_map of each loop
    ops,      \* m_ops of each loop
    cache,    \* the session cache: hash per user, field session id
    known,    \* session ids that have been in the cache
    svlist,   \* TypeMap::m_svlsts
    last      \* the last push handed to a connection: its to_sessid and whom

vars == <<lastId, conn, conMap, ops, cache, known, svlist, last>>

\* common.h: getConnectionId and getEventLoopId.
ConnectionId(loop, id) == loop * Mask + (id % Mask)
EventLoopId(conid) == conid \div Mask

\* decorationName, with the server's own id: the user is only appended.
Sessid(conid, user) == [conid |-> conid, user |-> user]

Fresh == [st |-> "new", id |-> 0, loop |-> 0, conid |-> 0, port |-> None,
          login |-> FALSE, type |-> 0, user |-> None, sess |-> None]

Init ==
    /\ lastId = 0 /\ conn = [c \in Conns |-> Fresh]
    /\ conMap = [l \in Loops |-> [k \in {} |-> None]]
    /\ ops = [l \in Loops |-> <<>>]
    /\ cache = {} /\ known = {} /\ svlist = <<>> /\ last = None

\* A loop owns the connection and reads its packets.
Live(c) == conn[c].st = "live"

-----------------------------------------------------------------------------
(* Accepting, and the operators of a loop *)

\* Acceptor::acceptConnect, the constructor and CDispatcher::dispatchConnection.
Accept(c, p) ==
    LET id   == lastId + 1
        loop == StartIdx[p] + (id % ThreadCnt[p])
    IN  /\ conn[c].st = "new" /\ Len(ops[loop]) < MaxQueue
        /\ lastId' = IF id = MaxId THEN 1 ELSE id
        /\ conn' = [conn EXCEPT ![c] = [@ EXCEPT !.st = "queued", !.id = id, !.loop = loop,
                                                !.conid = ConnectionId(loop, id), !.port = p]]
        /\ ops' = [ops EXCEPT ![loop] = Append(@, [kind |-> "add", con |-> c])]
        /\ UNCHANGED <<conMap, cache, known, svlist, last>>

\* AddConnectionOp: addConnection inserts only an id that is not in the map.
ProcessAdd(l, c) ==
    /\ conn' = [conn EXCEPT ![c].st = "live"]
    /\ conMap' = [conMap EXCEPT ![l] =
                    IF conn[c].conid \in DOMAIN @ THEN @
                    ELSE [k \in DOMAIN @ \cup {conn[c].conid} |->
                             IF k = conn[c].conid THEN c ELSE @[k]]]
    /\ UNCHANGED last

\* SendMsgOp: whoever has the id by now gets the message.
ProcessSend(l, to) ==
    /\ last' = IF to.conid \in DOMAIN conMap[l]
               THEN [to |-> to, con |-> conMap[l][to.conid]] ELSE last
    /\ UNCHANGED <<conn, conMap>>

ProcessOp(l) ==
    /\ ops[l] # <<>>
    /\ ops' = [ops EXCEPT ![l] = Tail(@)]
    /\ LET op == Head(ops[l])
       IN  \/ op.kind = "add" /\ ProcessAdd(l, op.con)
           \/ op.kind = "send" /\ ProcessSend(l, op.to)
    /\ UNCHANGED <<lastId, cache, known, svlist>>

-----------------------------------------------------------------------------
(* Packets: CliCon::handlePacket *)

\* updateSession for the m_sess s: only clients have an entry in the cache.
UpdateSession(s) ==
    IF s.type < 0 THEN /\ cache' = cache \cup {[user |-> s.user, sess |-> s.sess]}
                       /\ known' = known \cup {s.sess}
                  ELSE UNCHANGED <<cache, known>>

\* Mutant of NewSessid: made of the connection's number, not of its id.
NewSessidRaw(c, user) == Sessid(conn[c].id, user)

NewSessid(c, user) == Sessid(conn[c].conid, user)

LoggedIn(c) == conn[c].login

\* handleLoginRequest: a second login only returns the session id; a refused
\* type has been stored in m_sess by then.
Login(c, user, type) ==
    /\ Live(c)
    /\ \/ LoggedIn(c) /\ UNCHANGED <<conn, cache, known, svlist>>
       \/ /\ ~LoggedIn(c) /\ type # 0 /\ type \notin Accepts[conn[c].port]
          /\ conn' = [conn EXCEPT ![c] = [@ EXCEPT !.user = user, !.type = type]]
          /\ UNCHANGED <<cache, known, svlist>>
       \/ /\ ~LoggedIn(c) /\ (type = 0 \/ type \in Accepts[conn[c].port])
          /\ conn' = [conn EXCEPT ![c] = [@ EXCEPT !.user = user, !.type = type, !.login = TRUE,
                                                  !.sess = NewSessid(c, user)]]
          /\ svlist' = IF type > 0 THEN Append(svlist, c) ELSE svlist
          /\ UpdateSession(conn'[c])
    /\ UNCHANGED <<lastId, conMap, ops, last>>

KeepAlive(c) ==
    /\ Live(c)
    /\ UpdateSession(conn[c])
    /\ UNCHANGED <<lastId, conn, conMap, ops, svlist, last>>

\* Mutants of the three parts of Destroy: what the destructors would leave.
DelConnectionNot(c) == conMap
DelServerNot(c) == svlist
DelSessionNot(c) == cache

\* ~Connection: delConnection by id, whichever connection is there.
DelConnection(c) ==
    [conMap EXCEPT ![conn[c].loop] = [k \in DOMAIN @ \ {conn[c].conid} |-> @[k]]]

\* ~CliCon, delSession: a push server leaves TypeMap, where it is found and erased
\* once, a client the cache.
DelServer(c) ==
    IF conn[c].login /\ conn[c].type > 0 THEN RemoveFirst(svlist, c) ELSE svlist
DelSession(c) ==
    IF conn[c].login /\ conn[c].type < 0
    THEN cache \ {[user |-> conn[c].user, sess |-> conn[c].sess]} ELSE cache

Destroy(c) ==
    /\ conn' = [conn EXCEPT ![c].st = "gone"]
    /\ conMap' = DelConnection(c)
    /\ svlist' = DelServer(c)
    /\ cache' = DelSession(c)

\* getConFromSessid, and the SendMsgOp for the loop it names.
Route(to) ==
    LET l == EventLoopId(to.conid)
    IN  IF to = Foreign \/ l \notin Loops THEN UNCHANGED ops
        ELSE /\ Len(ops[l]) < MaxQueue
             /\ ops' = [ops EXCEPT ![l] = Append(@, [kind |-> "send", to |-> to])]

\* handlePushRequest and handlePushResponse, after updateSession. Clients may
\* only answer.
Push(c, to, isResp) ==
    /\ Live(c)
    /\ UpdateSession(conn[c])
    /\ IF conn[c].type < 0 /\ ~isResp THEN UNCHANGED ops ELSE Route(to)
    /\ UNCHANGED <<lastId, conn, conMap, svlist, last>>

\* handlePushRequest for a session read from the cache with the empty id:
\* getDecorationInfo throws, and handlePacket's -1 costs the sender its
\* connection.
PushEmpty(c) ==
    /\ Live(c) /\ None \in known /\ conn[c].type >= 0
    /\ Destroy(c)
    /\ UNCHANGED <<lastId, ops, known, last>>

\* The peer's end, a timeout (handleTimer), an unknown command or a failed send.
Close(c) ==
    /\ Live(c)
    /\ Destroy(c)
    /\ UNCHANGED <<lastId, ops, known, last>>

-----------------------------------------------------------------------------
Next ==
    \/ \E c \in Conns, p \in Ports : Accept(c, p)
    \/ \E l \in Loops : ProcessOp(l)
    \/ \E c \in Conns :
          \/ \E u \in Users, t \in Types : Login(c, u, t)
          \/ \E to \in (known \ {None}) \cup {Foreign}, r \in BOOLEAN : Push(c, to, r)
          \/ KeepAlive(c) \/ PushEmpty(c) \/ Close(c)

Spec == Init /\ [][Next]_vars

-----------------------------------------------------------------------------
(* Properties *)

\* Shapes of the state.
TypeOK ==
    /\ lastId \in 0 .. MaxId
    /\ \A c \in Conns : /\ conn[c].st \in {"new", "queued", "live", "gone"}
                         /\ conn[c].login => conn[c].st \in {"live", "gone"}
    /\ \A l \in Loops : \A k \in DOMAIN conMap[l] : conMap[l][k] \in Conns

\* m_con_map holds raw pointers: each one is to a connection that is alive, has
\* that id and runs on that loop, even after ids have been given out twice.
MapSound ==
    \A l \in Loops : \A k \in DOMAIN conMap[l] :
        LET c == conMap[l][k] IN Live(c) /\ conn[c].loop = l /\ conn[c].conid = k

\* TypeMap's list holds raw pointers too: each push server connection that is
\* logged in and alive is there once, and nobody else is.
ServicesSound ==
    /\ \A i, j \in DOMAIN svlist : svlist[i] = svlist[j] => i = j
    /\ {svlist[i] : i \in DOMAIN svlist}
         = {c \in Conns : Live(c) /\ conn[c].login /\ conn[c].type > 0}

\* Two connections got the same id.
Reused(c) == \E d \in Conns \ {c} : conn[d].st # "new" /\ conn[d].conid = conn[c].conid

\* The cache tells the truth: an entry with a session id is of a client that is
\* logged in under it, and every such client has its entry, unless its id was
\* given out twice.
CacheSound ==
    /\ \A e \in cache : e.sess # None =>
          \E c \in Conns : /\ Live(c) /\ conn[c].login /\ conn[c].type < 0
                           /\ conn[c].user = e.user /\ conn[c].sess = e.sess
    /\ \A c \in Conns : Live(c) /\ conn[c].login /\ conn[c].type < 0 =>
          [user |-> conn[c].user, sess |-> conn[c].sess] \in cache \/ Reused(c)

\* A push reaches the connection its to_sessid was given to, or one that was
\* given the same id; never a connection of another loop or another id.
RoutedOrReused ==
    last # None =>
        /\ conn[last.con].conid = last.to.conid
        /\ conn[last.con].sess = last.to \/ Reused(last.con)

==============================================================================

------------------------ MODULE ConnectServerProofs ------------------------
(***************************************************************************)
(* Proofs about ConnectServer, for any connections, users, ports, loops,   *)
(* mask and length of queues.  Everything rests on what is steady: once a  *)
(* connection is accepted its id and loop never change, and once it is     *)
(* logged in neither does its session.                                     *)
(***************************************************************************)
EXTENDS ConnectServer, SequenceTheorems, TLAPS

SessIds == [conid : Int, user : Users]

Rec == [st : {"new", "queued", "live", "gone"}, id : Nat, loop : Nat, conid : Int,
        port : Ports \cup {None}, login : BOOLEAN, type : Int,
        user : Users \cup {None}, sess : SessIds \cup {None}]

AddOp == [kind : {"add"}, con : Conns]
SendOp == [kind : {"send"}, to : SessIds]
Queue == Seq(AddOp \cup SendOp)

Maps == UNION {[D -> Conns] : D \in SUBSET Int}

Shapes ==
  /\ lastId \in Nat
  /\ conn \in [Conns -> Rec]
  /\ conMap \in [Loops -> Maps]
  /\ ops \in [Loops -> Queue]
  /\ cache \subseteq [user : Users \cup {None}, sess : SessIds \cup {None}]
  /\ known \subseteq SessIds \cup {None}
  /\ last \in [to : SessIds, con : Conns] \cup {None}

\* A connection waits in one place, the queue of its loop.
Adds ==
  \A l \in Loops :
    /\ \A i \in 1..Len(ops[l]) :
         ops[l][i].kind = "add" => conn[ops[l][i].con].st = "queued" /\ conn[ops[l][i].con].loop = l
    /\ \A i, j \in 1..Len(ops[l]) :
         ops[l][i].kind = "add" /\ ops[l][j].kind = "add" /\ ops[l][i].con = ops[l][j].con => i = j

\* A session id that has been given to a connection.
Given(s) == \E d \in Conns : conn[d].st # "new" /\ conn[d].login /\ conn[d].sess = s

\* Whoever sends to a session id has it from the cache, and the cache from a login.
Ids ==
  /\ \A s \in known : s # None => Given(s)
  /\ \A l \in Loops : \A i \in 1..Len(ops[l]) : ops[l][i].kind = "send" => Given(ops[l][i].to)

\* A session id is made of the connection's id and the user.
Sessions ==
  \A c \in Conns :
    /\ conn[c].login => /\ conn[c].st \in {"live", "gone"}
                        /\ conn[c].sess = Sessid(conn[c].conid, conn[c].user)
    /\ ~conn[c].login => conn[c].sess = None

\* The last push.
Pushed ==
  last # None =>
    /\ conn[last.con].st # "new" /\ conn[last.con].conid = last.to.conid
    /\ (conn[last.con].login /\ conn[last.con].sess = last.to) \/ Reused(last.con)

Inv ==
  /\ Shapes /\ Adds /\ Ids /\ Sessions /\ Pushed /\ MapSound /\ CacheSound

-----------------------------------------------------------------------------
(* What is steady *)

\* What a step may not change about a connection.
Steady(c) ==
  /\ conn[c].st # "new" =>
       conn'[c].st # "new" /\ conn'[c].conid = conn[c].conid /\ conn'[c].loop = conn[c].loop
  /\ conn[c].login =>
       conn'[c].login /\ conn'[c].sess = conn[c].sess /\ conn'[c].user = conn[c].user
                      /\ conn'[c].type = conn[c].type

\* Given ids stay given, reused ids reused, and the last push stays explained.
LEMMA SteadyFacts ==
  ASSUME Inv, \A c \in Conns : Steady(c)
  PROVE  /\ \A s : Given(s) => Given(s)'
         /\ \A c \in Conns : conn[c].st # "new" /\ Reused(c) => Reused(c)'
         /\ last' = last => Pushed'
<1>1. \A s : Given(s) => Given(s)'
  BY DEF Given, Steady
<1>2. \A c \in Conns : conn[c].st # "new" /\ Reused(c) => Reused(c)'
  BY DEF Reused, Steady
<1>3. ASSUME last' = last, last # None PROVE Pushed'
  <2>1. last.con \in Conns
    BY <1>3 DEF Inv, Shapes
  <2> QED
    BY <1>2, <1>3, <2>1 DEF Inv, Pushed, Steady
<1>4. last' = last => Pushed'
  BY <1>3 DEF Pushed
<1> QED
  BY <1>1, <1>2, <1>4

-----------------------------------------------------------------------------
(* Queues *)

\* Appending an operator.
LEMMA AppendFacts ==
  ASSUME NEW q \in Queue, NEW o \in AddOp \cup SendOp
  PROVE  /\ Append(q, o) \in Queue
         /\ Len(Append(q, o)) = Len(q) + 1 /\ Len(q) \in Nat
         /\ Append(q, o)[Len(q) + 1] = o
         /\ \A i \in 1..Len(q) : Append(q, o)[i] = q[i]
         /\ \A i \in 1..Len(Append(q, o)) : i \in 1..Len(q) \/ i = Len(q) + 1
  BY DEF Queue

\* Taking the first operator.
LEMMA TailFacts ==
  ASSUME NEW q \in Queue, q # <<>>
  PROVE  /\ Tail(q) \in Queue /\ Head(q) \in AddOp \cup SendOp
         /\ Head(q) = q[1] /\ 1 \in 1..Len(q)
         /\ \A i \in 1..Len(Tail(q)) : /\ i + 1 \in 1..Len(q) /\ Tail(q)[i] = q[i + 1] /\ i + 1 # 1
                                      /\ i \in Int
  BY DEF Queue

-----------------------------------------------------------------------------
(* The steps *)

\* The entries of m_con_map are connections.
LEMMA MapValues ==
  ASSUME Shapes, NEW l \in Loops, NEW k \in DOMAIN conMap[l]
  PROVE  conMap[l][k] \in Conns
<1>1. conMap[l] \in Maps
  BY DEF Shapes
<1>2. PICK D \in SUBSET Int : conMap[l] \in [D -> Conns]
  BY <1>1 DEF Maps
<1> QED
  BY <1>2

\* The initial state.
LEMMA InitInv == Init => Inv
<1> SUFFICES ASSUME Init PROVE Inv
  OBVIOUS
<1>1. Fresh \in Rec
  BY DEF Fresh, Rec
<1>2. /\ conn \in [Conns -> Rec]
      /\ \A c \in Conns : conn[c].st = "new" /\ conn[c].login = FALSE /\ conn[c].sess = None
  BY <1>1 DEF Init, Fresh
<1>3. [k \in {} |-> None] \in Maps
  <2>1. [k \in {} |-> None] \in [{} -> Conns]
    OBVIOUS
  <2> QED
    BY <2>1 DEF Maps
<1>4. ops \in [Loops -> Queue] /\ \A l \in Loops : ops[l] = <<>> /\ Len(ops[l]) = 0
  BY DEF Init, Queue
<1>5. Shapes
  BY <1>2, <1>3, <1>4 DEF Init, Shapes
<1>6. Adds /\ Ids
  BY <1>4 DEF Adds, Ids, Init
<1>7. Sessions /\ Pushed
  BY <1>2 DEF Sessions, Pushed, Init
<1>8. MapSound /\ CacheSound
  BY <1>2 DEF MapSound, CacheSound, Init, Live
<1> QED
  BY <1>5, <1>6, <1>7, <1>8 DEF Inv

\* A connection is accepted: the id is drawn and the loop chosen once.
LEMMA AcceptInv ==
  ASSUME Inv, NEW c \in Conns, NEW p \in Ports, Accept(c, p)
  PROVE  Inv'
<1> DEFINE n == lastId + 1
           l == StartIdx[p] + (n % ThreadCnt[p])
           x == ConnectionId(l, n)
           r == [conn[c] EXCEPT !.st = "queued", !.id = n, !.loop = l, !.conid = x, !.port = p]
           o == [kind |-> "add", con |-> c]
<1>0. Shapes /\ Adds /\ Ids /\ Sessions /\ Pushed /\ MapSound /\ CacheSound
  BY DEF Inv
<1>1. n \in Nat /\ l \in Loops /\ l \in Nat /\ x \in Int
  <2>1. n \in Nat /\ StartIdx[p] \in Nat /\ ThreadCnt[p] \in Nat \ {0} /\ Mask \in Nat \ {0}
    BY <1>0, ConnectServerAssumption DEF Shapes
  <2>2. n % ThreadCnt[p] \in 0..(ThreadCnt[p] - 1) /\ n % Mask \in Int
    BY <2>1
  <2>3. l \in Nat /\ l \in StartIdx[p] .. StartIdx[p] + ThreadCnt[p] - 1
    BY <2>1, <2>2
  <2>4. l \in Loops
    BY <2>3, ConnectServerAssumption
  <2> QED
    BY <2>1, <2>2, <2>3, <2>4 DEF ConnectionId
<1>2. /\ conn[c].st = "new"
      /\ lastId' = IF n = MaxId THEN 1 ELSE n
      /\ conn' = [conn EXCEPT ![c] = r]
      /\ ops' = [ops EXCEPT ![l] = Append(@, o)]
      /\ UNCHANGED <<conMap, cache, known, svlist, last>>
  BY DEF Accept
<1> HIDE DEF n, l, x
<1>a. r \in Rec /\ r.st = "queued" /\ r.loop = l /\ r.login = conn[c].login /\ r.sess = conn[c].sess
  <2>1. conn[c] \in Rec
    BY <1>0 DEF Shapes
  <2> QED
    BY <1>1, <2>1 DEF Rec
<1> HIDE DEF r
<1>3. /\ conn' \in [Conns -> Rec] /\ lastId' \in Nat
      /\ conn'[c].st = "queued" /\ conn'[c].loop = l /\ conn'[c].login = conn[c].login
      /\ conn'[c].sess = conn[c].sess
      /\ \A d \in Conns : d # c => conn'[d] = conn[d]
  BY <1>0, <1>1, <1>2, <1>a DEF Shapes
<1>4. conn[c].login = FALSE
  BY <1>0, <1>2 DEF Sessions, Shapes, Rec
<1>5. \A d \in Conns : Steady(d)
  BY <1>2, <1>3, <1>4 DEF Steady
<1>6. ops[l] \in Queue /\ o \in AddOp \cup SendOp
  BY <1>0, <1>1 DEF Shapes, AddOp
<1>7. ops'[l] = Append(ops[l], o) /\ \A k \in Loops : k # l => ops'[k] = ops[k]
  BY <1>0, <1>1, <1>2 DEF Shapes
<1>8. o.kind = "add" /\ o.con = c
  OBVIOUS
<1> HIDE DEF o
<1>9. /\ ops'[l] \in Queue /\ Len(ops[l]) \in Nat
      /\ ops'[l][Len(ops[l]) + 1] = o
      /\ \A i \in 1..Len(ops[l]) : ops'[l][i] = ops[l][i]
      /\ \A i \in 1..Len(ops'[l]) : i \in 1..Len(ops[l]) \/ i = Len(ops[l]) + 1
  BY <1>6, <1>7, AppendFacts
<1>10. Shapes'
  <2>1. ops' \in [Loops -> Queue]
    BY <1>0, <1>2, <1>7, <1>9 DEF Shapes
  <2> QED
    BY <1>0, <1>2, <1>3, <2>1 DEF Shapes
<1>11. Adds'
  <2> SUFFICES ASSUME NEW k \in Loops
               PROVE  /\ \A i \in 1..Len(ops'[k]) :
                           ops'[k][i].kind = "add" =>
                             conn'[ops'[k][i].con].st = "queued" /\ conn'[ops'[k][i].con].loop = k
                      /\ \A i, j \in 1..Len(ops'[k]) :
                           ops'[k][i].kind = "add" /\ ops'[k][j].kind = "add"
                             /\ ops'[k][i].con = ops'[k][j].con => i = j
    BY DEF Adds
  <2>1. \A i \in 1..Len(ops[k]) : ops[k][i].kind = "add" =>
          /\ ops[k][i].con \in Conns /\ ops[k][i].con # c
          /\ conn'[ops[k][i].con].st = "queued" /\ conn'[ops[k][i].con].loop = k
    <3> SUFFICES ASSUME NEW i \in 1..Len(ops[k]), ops[k][i].kind = "add"
                 PROVE  /\ ops[k][i].con \in Conns /\ ops[k][i].con # c
                        /\ conn'[ops[k][i].con].st = "queued" /\ conn'[ops[k][i].con].loop = k
      OBVIOUS
    <3>1. ops[k][i] \in AddOp \cup SendOp
      BY <1>0 DEF Shapes, Queue
    <3>2. ops[k][i].con \in Conns
      BY <3>1 DEF AddOp, SendOp
    <3>3. conn[ops[k][i].con].st = "queued" /\ conn[ops[k][i].con].loop = k
      BY <1>0 DEF Adds
    <3> QED
      BY <1>2, <1>3, <3>2, <3>3
  <2>2. CASE k # l
    BY <1>0, <1>7, <2>1, <2>2 DEF Adds
  <2>3. CASE k = l
    <3>1. \A i, j \in 1..Len(ops[l]) :
            ops[l][i].kind = "add" /\ ops[l][j].kind = "add" /\ ops[l][i].con = ops[l][j].con => i = j
      BY <1>0, <1>1 DEF Adds
    <3>2. \A i \in 1..Len(ops'[l]) : ops'[l][i].kind = "add" =>
            conn'[ops'[l][i].con].st = "queued" /\ conn'[ops'[l][i].con].loop = l
      <4> SUFFICES ASSUME NEW i \in 1..Len(ops'[l]), ops'[l][i].kind = "add"
                   PROVE  conn'[ops'[l][i].con].st = "queued" /\ conn'[ops'[l][i].con].loop = l
        OBVIOUS
      <4>1. CASE i \in 1..Len(ops[l])
        BY <1>9, <2>1, <2>3, <4>1
      <4>2. CASE i = Len(ops[l]) + 1
        BY <1>3, <1>8, <1>9, <4>2
      <4> QED
        BY <1>9, <4>1, <4>2
    <3>3. ASSUME NEW i \in 1..Len(ops'[l]), NEW j \in 1..Len(ops'[l]),
                 ops'[l][i].kind = "add", ops'[l][j].kind = "add", ops'[l][i].con = ops'[l][j].con
          PROVE  i = j
      <4>1. \A h \in 1..Len(ops[l]) : ops[l][h].kind = "add" => ops[l][h].con # c
        BY <2>1, <2>3
      <4>2. CASE i \in 1..Len(ops[l]) /\ j \in 1..Len(ops[l])
        BY <1>9, <3>1, <3>3, <4>2
      <4>3. CASE i = Len(ops[l]) + 1 /\ j \in 1..Len(ops[l])
        BY <1>8, <1>9, <3>3, <4>1, <4>3
      <4>4. CASE i \in 1..Len(ops[l]) /\ j = Len(ops[l]) + 1
        BY <1>8, <1>9, <3>3, <4>1, <4>4
      <4> QED
        BY <1>9, <4>2, <4>3, <4>4
    <3> QED
      BY <2>3, <3>2, <3>3
  <2> QED
    BY <2>2, <2>3
<1>12. Ids'
  <2>1. \A k \in Loops : \A i \in 1..Len(ops'[k]) : ops'[k][i].kind = "send" => Given(ops'[k][i].to)
    <3> SUFFICES ASSUME NEW k \in Loops, NEW i \in 1..Len(ops'[k]), ops'[k][i].kind = "send"
                 PROVE  Given(ops'[k][i].to)
      OBVIOUS
    <3>1. i \in 1..Len(ops[k]) /\ ops'[k][i] = ops[k][i]
      BY <1>7, <1>8, <1>9
    <3> QED
      BY <1>0, <3>1 DEF Ids
  <2> QED
    BY <1>0, <1>2, <1>5, <2>1, SteadyFacts DEF Ids
<1>13. Sessions'
  BY <1>0, <1>3, <1>4 DEF Sessions
<1>14. Pushed'
  BY <1>2, <1>5, SteadyFacts
<1>15. MapSound'
  <2> SUFFICES ASSUME NEW m \in Loops, NEW k \in DOMAIN conMap[m]
               PROVE  /\ conn'[conMap[m][k]].st = "live" /\ conn'[conMap[m][k]].loop = m
                      /\ conn'[conMap[m][k]].conid = k
    BY <1>2 DEF MapSound, Live
  <2>1. conMap[m][k] \in Conns
    BY <1>0, MapValues
  <2> QED
    BY <1>0, <1>2, <1>3, <2>1 DEF MapSound, Live
<1>16. CacheSound'
  <2>1. \A e \in cache : e.sess # None =>
          \E d \in Conns : /\ conn'[d].st = "live" /\ conn'[d].login /\ conn'[d].type < 0
                           /\ conn'[d].user = e.user /\ conn'[d].sess = e.sess
    <3> SUFFICES ASSUME NEW e \in cache, e.sess # None
                 PROVE  \E d \in Conns : /\ conn'[d].st = "live" /\ conn'[d].login /\ conn'[d].type < 0
                                         /\ conn'[d].user = e.user /\ conn'[d].sess = e.sess
      OBVIOUS
    <3>1. PICK d \in Conns : /\ conn[d].st = "live" /\ conn[d].login /\ conn[d].type < 0
                             /\ conn[d].user = e.user /\ conn[d].sess = e.sess
      BY <1>0 DEF CacheSound, Live
    <3>2. conn'[d] = conn[d]
      BY <1>2, <1>3, <3>1
    <3> QED
      BY <3>1, <3>2
  <2>2. \A d \in Conns : conn'[d].st = "live" /\ conn'[d].login /\ conn'[d].type < 0 =>
          [user |-> conn'[d].user, sess |-> conn'[d].sess] \in cache \/ Reused(d)'
    <3> SUFFICES ASSUME NEW d \in Conns, conn'[d].st = "live", conn'[d].login, conn'[d].type < 0
                 PROVE  [user |-> conn'[d].user, sess |-> conn'[d].sess] \in cache \/ Reused(d)'
      OBVIOUS
    <3>1. conn'[d] = conn[d]
      BY <1>3
    <3>2. [user |-> conn[d].user, sess |-> conn[d].sess] \in cache \/ Reused(d)
      BY <1>0, <3>1 DEF CacheSound, Live
    <3> QED
      BY <1>5, <3>1, <3>2, SteadyFacts
  <2> QED
    BY <1>2, <2>1, <2>2 DEF CacheSound, Live
<1> QED
  BY <1>10, <1>11, <1>12, <1>13, <1>14, <1>15, <1>16 DEF Inv

\* A loop takes an operator from its queue: the others stay, each in its place.
LEMMA TakeFacts ==
  ASSUME Inv, NEW l \in Loops, ops[l] # <<>>, ops' = [ops EXCEPT ![l] = Tail(@)]
  PROVE  /\ ops' \in [Loops -> Queue]
         /\ \A k \in Loops : k # l => ops'[k] = ops[k]
         /\ \A i \in 1..Len(ops'[l]) : /\ i \in Int /\ i + 1 # 1 /\ i + 1 \in 1..Len(ops[l])
                                       /\ ops'[l][i] = ops[l][i + 1]
         /\ Head(ops[l]) \in AddOp \cup SendOp /\ Head(ops[l]) = ops[l][1] /\ 1 \in 1..Len(ops[l])
<1>1. ops \in [Loops -> Queue] /\ ops[l] \in Queue
  BY DEF Inv, Shapes
<1>2. ops'[l] = Tail(ops[l]) /\ \A k \in Loops : k # l => ops'[k] = ops[k]
  BY <1>1
<1>3. /\ Tail(ops[l]) \in Queue /\ Head(ops[l]) \in AddOp \cup SendOp
      /\ Head(ops[l]) = ops[l][1] /\ 1 \in 1..Len(ops[l])
      /\ \A i \in 1..Len(Tail(ops[l])) : /\ i + 1 \in 1..Len(ops[l]) /\ Tail(ops[l])[i] = ops[l][i + 1]
                                         /\ i + 1 # 1 /\ i \in Int
  BY <1>1, TailFacts
<1>4. ops' \in [Loops -> Queue]
  BY <1>1, <1>3
<1> QED
  BY <1>2, <1>3, <1>4

\* What is left in the queues, with the place it had before.
LEMMA TakePlaces ==
  ASSUME Inv, NEW l \in Loops, ops[l] # <<>>, ops' = [ops EXCEPT ![l] = Tail(@)],
         NEW k \in Loops, NEW i \in 1..Len(ops'[k])
  PROVE  \E j \in 1..Len(ops[k]) : ops'[k][i] = ops[k][j] /\ (k = l => j # 1)
<1>1. CASE k = l
  <2>1. i + 1 # 1 /\ i + 1 \in 1..Len(ops[l]) /\ ops'[l][i] = ops[l][i + 1]
    BY <1>1, TakeFacts
  <2> DEFINE j == i + 1
  <2>2. j # 1 /\ j \in 1..Len(ops[k]) /\ ops'[k][i] = ops[k][j]
    BY <1>1, <2>1
  <2> HIDE DEF j
  <2> QED
    BY <2>2
<1>2. CASE k # l
  <2>1. ops'[k] = ops[k]
    BY <1>2, TakeFacts
  <2> QED
    BY <1>2, <2>1
<1> QED
  BY <1>1, <1>2

\* Taking an operator keeps Adds, if only the connection it adds changes.
LEMMA TakeAdds ==
  ASSUME Inv, NEW l \in Loops, ops[l] # <<>>, ops' = [ops EXCEPT ![l] = Tail(@)],
         \A d \in Conns : (Head(ops[l]).kind = "add" => d # Head(ops[l]).con) => conn'[d] = conn[d]
  PROVE  Adds'
<1>1. Adds /\ Shapes
  BY DEF Inv
<1>2. /\ \A k \in Loops : k # l => ops'[k] = ops[k]
      /\ \A i \in 1..Len(ops'[l]) : i \in Int /\ i + 1 \in 1..Len(ops[l]) /\ ops'[l][i] = ops[l][i + 1]
      /\ Head(ops[l]) = ops[l][1] /\ 1 \in 1..Len(ops[l])
  BY TakeFacts
<1>3. ASSUME NEW k \in Loops, NEW i \in 1..Len(ops'[k]), NEW h \in 1..Len(ops'[k]),
             ops'[k][i].kind = "add", ops'[k][h].kind = "add", ops'[k][i].con = ops'[k][h].con
      PROVE  i = h
  <2>1. CASE k = l
    <3>1. /\ i \in Int /\ i + 1 \in 1..Len(ops[l]) /\ ops'[l][i] = ops[l][i + 1]
          /\ h \in Int /\ h + 1 \in 1..Len(ops[l]) /\ ops'[l][h] = ops[l][h + 1]
      BY <1>2, <2>1
    <3> DEFINE a == i + 1
               b == h + 1
    <3>2. a = i + 1 /\ b = h + 1
      OBVIOUS
    <3> HIDE DEF a, b
    <3>3. a = b
      BY <1>1, <1>3, <2>1, <3>1, <3>2 DEF Adds
    <3> QED
      BY <3>1, <3>2, <3>3
  <2>2. CASE k # l
    BY <1>1, <1>2, <1>3, <2>2 DEF Adds
  <2> QED
    BY <2>1, <2>2
<1>4. ASSUME NEW k \in Loops, NEW i \in 1..Len(ops'[k]), ops'[k][i].kind = "add"
      PROVE  conn'[ops'[k][i].con].st = "queued" /\ conn'[ops'[k][i].con].loop = k
  <2>1. PICK j \in 1..Len(ops[k]) : ops'[k][i] = ops[k][j] /\ (k = l => j # 1)
    BY TakePlaces
  <2>4. ops[k][j] \in AddOp \cup SendOp
    BY <1>1, <2>1 DEF Shapes, Queue
  <2>5. ops[k][j].con \in Conns
    BY <1>4, <2>1, <2>4 DEF AddOp, SendOp
  <2>6. conn[ops[k][j].con].st = "queued" /\ conn[ops[k][j].con].loop = k
    BY <1>1, <1>4, <2>1 DEF Adds
  <2>7. Head(ops[l]).kind = "add" => ops[k][j].con # Head(ops[l]).con
    <3> SUFFICES ASSUME ops[l][1].kind = "add", ops[k][j].con = ops[l][1].con PROVE FALSE
      BY <1>2
    <3>1. conn[ops[l][1].con].loop = l
      BY <1>1, <1>2 DEF Adds
    <3>2. k = l
      BY <2>6, <3>1
    <3>3. \A a, b \in 1..Len(ops[l]) :
            ops[l][a].kind = "add" /\ ops[l][b].kind = "add" /\ ops[l][a].con = ops[l][b].con => a = b
      BY <1>1 DEF Adds
    <3>4. j \in 1..Len(ops[l]) /\ ops[l][j].kind = "add" /\ ops[l][j].con = ops[l][1].con
      BY <1>4, <2>1, <3>2
    <3>5. j = 1
      BY <1>2, <3>3, <3>4
    <3> QED
      BY <2>1, <3>2, <3>5
  <2> QED
    BY <2>1, <2>5, <2>6, <2>7
<1>5. \A k \in Loops : \A i, h \in 1..Len(ops'[k]) :
        ops'[k][i].kind = "add" /\ ops'[k][h].kind = "add" /\ ops'[k][i].con = ops'[k][h].con => i = h
  BY <1>3
<1>6. \A k \in Loops : \A i \in 1..Len(ops'[k]) : ops'[k][i].kind = "add" =>
        conn'[ops'[k][i].con].st = "queued" /\ conn'[ops'[k][i].con].loop = k
  BY <1>4
<1> QED
  BY <1>5, <1>6 DEF Adds

\* Taking an operator keeps Ids.
LEMMA TakeIds ==
  ASSUME Inv, NEW l \in Loops, ops[l] # <<>>, ops' = [ops EXCEPT ![l] = Tail(@)],
         UNCHANGED known, \A d \in Conns : Steady(d)
  PROVE  Ids'
<1>1. \A k \in Loops : \A i \in 1..Len(ops'[k]) : ops'[k][i].kind = "send" => Given(ops'[k][i].to)
  <2> SUFFICES ASSUME NEW k \in Loops, NEW i \in 1..Len(ops'[k]), ops'[k][i].kind = "send"
               PROVE  Given(ops'[k][i].to)
    OBVIOUS
  <2>1. PICK j \in 1..Len(ops[k]) : ops'[k][i] = ops[k][j]
    BY TakePlaces
  <2> QED
    BY <2>1 DEF Inv, Ids
<1> QED
  BY <1>1, SteadyFacts DEF Inv, Ids

\* AddConnectionOp: the connection enters the map under an id nobody has there.
LEMMA AddInv ==
  ASSUME Inv, NEW l \in Loops, ProcessOp(l), Head(ops[l]).kind = "add", ProcessAdd(l, Head(ops[l]).con)
  PROVE  Inv'
<1> DEFINE c == Head(ops[l]).con
           x == conn[c].conid
           m == conMap[l]
           m2 == [k \in DOMAIN m \cup {x} |-> IF k = x THEN c ELSE m[k]]
<1>0. Shapes /\ Adds /\ Ids /\ Sessions /\ Pushed /\ MapSound /\ CacheSound
  BY DEF Inv
<1>1. /\ ops[l] # <<>> /\ ops' = [ops EXCEPT ![l] = Tail(@)]
      /\ UNCHANGED <<lastId, cache, known, svlist, last>>
      /\ conn' = [conn EXCEPT ![c].st = "live"]
      /\ conMap' = [conMap EXCEPT ![l] = IF x \in DOMAIN m THEN m ELSE m2]
  BY DEF ProcessOp, ProcessAdd
<1>2. Head(ops[l]) \in AddOp \cup SendOp /\ Head(ops[l]) = ops[l][1] /\ 1 \in 1..Len(ops[l])
      /\ ops' \in [Loops -> Queue]
  BY <1>1, TakeFacts
<1>3. c \in Conns
  BY <1>2 DEF AddOp, SendOp
<1>4. conn[c].st = "queued" /\ conn[c].loop = l
  BY <1>0, <1>2 DEF Adds
<1> HIDE DEF c
<1>5. /\ conn' \in [Conns -> Rec]
      /\ \A d \in Conns : d # c => conn'[d] = conn[d]
      /\ conn'[c].st = "live" /\ conn'[c].conid = x /\ conn'[c].loop = l
      /\ conn'[c].login = conn[c].login /\ conn'[c].sess = conn[c].sess
      /\ conn'[c].user = conn[c].user /\ conn'[c].type = conn[c].type
  BY <1>0, <1>1, <1>3, <1>4 DEF Shapes, Rec
<1>6. conn[c].login = FALSE
  BY <1>0, <1>3, <1>4 DEF Sessions, Shapes, Rec
<1>7. \A d \in Conns : Steady(d)
  BY <1>4, <1>5 DEF Steady
<1>8. x \in Int
  BY <1>0, <1>3 DEF Shapes, Rec
<1> HIDE DEF x
<1>9. m \in Maps /\ m2 \in Maps
  <2>1. m \in Maps
    BY <1>0 DEF Shapes
  <2>2. PICK D \in SUBSET Int : m \in [D -> Conns]
    BY <2>1 DEF Maps
  <2>3. m2 \in [D \cup {x} -> Conns] /\ D \cup {x} \in SUBSET Int
    BY <1>3, <1>8, <2>2
  <2> QED
    BY <2>1, <2>3 DEF Maps
<1>10. Shapes'
  <2>1. conMap' \in [Loops -> Maps]
    BY <1>0, <1>1, <1>9 DEF Shapes
  <2> QED
    BY <1>0, <1>1, <1>2, <1>5, <2>1 DEF Shapes
<1>11. Adds'
  BY <1>1, <1>5, TakeAdds DEF c
<1>12. Ids' /\ Pushed'
  BY <1>1, <1>7, TakeIds, SteadyFacts
<1>13. Sessions'
  BY <1>0, <1>5, <1>6 DEF Sessions
<1>14. MapSound'
  <2> SUFFICES ASSUME NEW h \in Loops, NEW k \in DOMAIN conMap'[h]
               PROVE  /\ conn'[conMap'[h][k]].st = "live" /\ conn'[conMap'[h][k]].loop = h
                      /\ conn'[conMap'[h][k]].conid = k
    BY DEF MapSound, Live
  <2>1. ASSUME k \in DOMAIN conMap[h], conMap'[h][k] = conMap[h][k]
        PROVE  /\ conn'[conMap'[h][k]].st = "live" /\ conn'[conMap'[h][k]].loop = h
               /\ conn'[conMap'[h][k]].conid = k
    <3>1. conMap[h][k] \in Conns
      BY <1>0, <2>1, MapValues
    <3>2. conn[conMap[h][k]].st = "live" /\ conn[conMap[h][k]].loop = h /\ conn[conMap[h][k]].conid = k
      BY <1>0, <2>1 DEF MapSound, Live
    <3> QED
      BY <1>4, <1>5, <2>1, <3>1, <3>2
  <2>2. CASE h = l /\ x \notin DOMAIN m
    <3>1. conMap'[h] = m2
      BY <1>0, <1>1, <2>2 DEF Shapes
    <3>2. CASE k = x
      BY <1>5, <2>2, <3>1, <3>2
    <3>3. CASE k # x
      BY <2>1, <2>2, <3>1, <3>3
    <3> QED
      BY <3>2, <3>3
  <2>3. CASE ~(h = l /\ x \notin DOMAIN m)
    <3>1. conMap'[h] = conMap[h]
      BY <1>0, <1>1, <2>3 DEF Shapes
    <3> QED
      BY <2>1, <3>1
  <2> QED
    BY <2>2, <2>3
<1>15. CacheSound'
  <2>1. ASSUME NEW e \in cache, e.sess # None
        PROVE  \E d \in Conns : /\ conn'[d].st = "live" /\ conn'[d].login /\ conn'[d].type < 0
                                /\ conn'[d].user = e.user /\ conn'[d].sess = e.sess
    <3>1. PICK d \in Conns : /\ conn[d].st = "live" /\ conn[d].login /\ conn[d].type < 0
                             /\ conn[d].user = e.user /\ conn[d].sess = e.sess
      BY <1>0, <2>1 DEF CacheSound, Live
    <3>2. conn'[d] = conn[d]
      BY <1>4, <1>5, <3>1
    <3> QED
      BY <3>1, <3>2
  <2>2. ASSUME NEW d \in Conns, conn'[d].st = "live", conn'[d].login, conn'[d].type < 0
        PROVE  [user |-> conn'[d].user, sess |-> conn'[d].sess] \in cache \/ Reused(d)'
    <3>1. conn'[d] = conn[d]
      BY <1>5, <1>6, <2>2
    <3>2. [user |-> conn[d].user, sess |-> conn[d].sess] \in cache \/ Reused(d)
      BY <1>0, <2>2, <3>1 DEF CacheSound, Live
    <3> QED
      BY <1>7, <2>2, <3>1, <3>2, SteadyFacts
  <2> QED
    BY <1>1, <2>1, <2>2 DEF CacheSound, Live
<1> QED
  BY <1>10, <1>11, <1>12, <1>13, <1>14, <1>15 DEF Inv

\* SendMsgOp: whoever has the id in the map either is the one it was given to
\* or got the same id.
LEMMA SendInv ==
  ASSUME Inv, NEW l \in Loops, ProcessOp(l), Head(ops[l]).kind = "send", ProcessSend(l, Head(ops[l]).to)
  PROVE  Inv'
<1> DEFINE s == Head(ops[l]).to
<1>0. Shapes /\ Adds /\ Ids /\ Sessions /\ Pushed /\ MapSound /\ CacheSound
  BY DEF Inv
<1>1. /\ ops[l] # <<>> /\ ops' = [ops EXCEPT ![l] = Tail(@)]
      /\ UNCHANGED <<lastId, cache, known, svlist, conn, conMap>>
      /\ last' = IF s.conid \in DOMAIN conMap[l] THEN [to |-> s, con |-> conMap[l][s.conid]] ELSE last
  BY DEF ProcessOp, ProcessSend
<1>2. Head(ops[l]) \in AddOp \cup SendOp /\ Head(ops[l]) = ops[l][1] /\ 1 \in 1..Len(ops[l])
      /\ ops' \in [Loops -> Queue]
  BY <1>1, TakeFacts
<1>3. s \in SessIds
  BY <1>2 DEF AddOp, SendOp
<1>4. Given(s)
  BY <1>0, <1>2 DEF Ids
<1> HIDE DEF s
<1>5. \A d \in Conns : Steady(d)
  BY <1>1 DEF Steady
<1>6. Pushed' /\ last' \in [to : SessIds, con : Conns] \cup {None}
  <2>1. CASE s.conid \in DOMAIN conMap[l]
    <3>1. PICK t, c : t = s /\ c = conMap[l][s.conid]
      OBVIOUS
    <3>2. c \in Conns /\ t \in SessIds /\ Given(t)
      BY <1>0, <1>3, <1>4, <2>1, <3>1, MapValues
    <3>3. conn[c].st = "live" /\ conn[c].conid = t.conid
      BY <1>0, <2>1, <3>1 DEF MapSound, Live
    <3>4. PICK d \in Conns : conn[d].st # "new" /\ conn[d].login /\ conn[d].sess = t
      BY <3>2 DEF Given
    <3>5. t = Sessid(conn[d].conid, conn[d].user)
      BY <1>0, <3>4 DEF Sessions
    <3>6. conn[d].conid = t.conid
      BY <3>5 DEF Sessid
    <3>7. (conn[c].login /\ conn[c].sess = t) \/ Reused(c)
      BY <3>2, <3>3, <3>4, <3>6 DEF Reused
    <3>8. last' = [to |-> t, con |-> c]
      BY <1>1, <2>1, <3>1
    <3>9. last' \in [to : SessIds, con : Conns] /\ last'.to = t /\ last'.con = c
      BY <3>2, <3>8
    <3>10. Reused(c) => Reused(c)'
      BY <1>1 DEF Reused
    <3>11. Pushed'
      BY <1>1, <3>3, <3>7, <3>9, <3>10 DEF Pushed
    <3> QED
      BY <3>9, <3>11
  <2>2. CASE s.conid \notin DOMAIN conMap[l]
    <3>1. last' = last
      BY <1>1, <2>2
    <3>2. last' \in [to : SessIds, con : Conns] \cup {None}
      BY <1>0, <3>1 DEF Shapes
    <3> QED
      BY <1>5, <3>1, <3>2, SteadyFacts
  <2> QED
    BY <2>1, <2>2
<1>7. Shapes'
  BY <1>0, <1>1, <1>2, <1>6 DEF Shapes
<1>8. Adds' /\ Ids'
  BY <1>1, <1>5, TakeAdds, TakeIds
<1>9. Sessions'
  BY <1>0, <1>1 DEF Sessions
<1>10. MapSound'
  BY <1>0, <1>1 DEF MapSound, Live
<1>11. CacheSound'
  BY <1>0, <1>1 DEF CacheSound, Live, Reused
<1> QED
  BY <1>6, <1>7, <1>8, <1>9, <1>10, <1>11 DEF Inv

-----------------------------------------------------------------------------
(* Packets *)

\* updateSession for a connection that stays as it is: what it writes is true
\* or has the empty session id.
LEMMA UpdateFacts ==
  ASSUME Inv, NEW c \in Conns, Live(c), UpdateSession(conn[c]), conn' = conn
  PROVE  /\ cache' \subseteq [user : Users \cup {None}, sess : SessIds \cup {None}]
         /\ known' \subseteq SessIds \cup {None}
         /\ \A s \in known' : s # None => Given(s)
         /\ CacheSound'
<1> DEFINE e == [user |-> conn[c].user, sess |-> conn[c].sess]
<1>0. Shapes /\ Ids /\ Sessions /\ CacheSound
  BY DEF Inv
<1>1. CASE conn[c].type < 0
  <2>1. cache' = cache \cup {e} /\ known' = known \cup {conn[c].sess}
    BY <1>1 DEF UpdateSession
  <2>2. conn[c].user \in Users \cup {None} /\ conn[c].sess \in SessIds \cup {None}
    BY <1>0 DEF Shapes, Rec
  <2>3. /\ e \in [user : Users \cup {None}, sess : SessIds \cup {None}]
        /\ e.user = conn[c].user /\ e.sess = conn[c].sess
    BY <2>2
  <2> HIDE DEF e
  <2>4. conn[c].sess # None => conn[c].login /\ Given(conn[c].sess)
    BY <1>0 DEF Given, Sessions, Live
  <2>5. \A f \in cache' : f.sess # None =>
          \E d \in Conns : /\ Live(d) /\ conn[d].login /\ conn[d].type < 0
                           /\ conn[d].user = f.user /\ conn[d].sess = f.sess
    BY <1>0, <1>1, <2>1, <2>3, <2>4 DEF CacheSound
  <2>6. \A d \in Conns : Live(d) /\ conn[d].login /\ conn[d].type < 0 =>
          [user |-> conn[d].user, sess |-> conn[d].sess] \in cache' \/ Reused(d)
    BY <1>0, <2>1 DEF CacheSound
  <2>7. CacheSound'
    BY <2>5, <2>6 DEF CacheSound, Live, Reused
  <2> QED
    BY <1>0, <2>1, <2>2, <2>3, <2>4, <2>7 DEF Shapes, Ids
<1>2. CASE ~(conn[c].type < 0)
  <2>1. UNCHANGED <<cache, known>>
    BY <1>2 DEF UpdateSession
  <2>2. CacheSound'
    BY <1>0, <2>1 DEF CacheSound, Live, Reused
  <2> QED
    BY <1>0, <2>1, <2>2 DEF Shapes, Ids
<1> QED
  BY <1>1, <1>2

\* A packet that leaves the connections alone and appends at most a send to a
\* session id that was given.
LEMMA QuietInv ==
  ASSUME Inv, NEW c \in Conns, Live(c), UpdateSession(conn[c]), UNCHANGED <<lastId, conn, conMap, last>>,
         \/ ops' = ops
         \/ \E l \in Loops, s \in SessIds :
               Given(s) /\ ops' = [ops EXCEPT ![l] = Append(@, [kind |-> "send", to |-> s])]
  PROVE  Inv'
<1>0. Shapes /\ Adds /\ Ids /\ Sessions /\ Pushed /\ MapSound
  BY DEF Inv
<1>1. /\ cache' \subseteq [user : Users \cup {None}, sess : SessIds \cup {None}]
      /\ known' \subseteq SessIds \cup {None}
      /\ \A s \in known' : s # None => Given(s)
      /\ CacheSound'
  BY UpdateFacts
<1>2. \A s : Given(s) => Given(s)'
  BY DEF Given
<1>3. /\ ops' \in [Loops -> Queue] /\ Adds'
      /\ \A k \in Loops : \A i \in 1..Len(ops'[k]) : ops'[k][i].kind = "send" => Given(ops'[k][i].to)
  <2>1. CASE ops' = ops
    BY <1>0, <2>1 DEF Shapes, Adds, Ids
  <2>2. CASE ops' # ops
    <3>1. PICK l \in Loops, s \in SessIds :
            Given(s) /\ ops' = [ops EXCEPT ![l] = Append(@, [kind |-> "send", to |-> s])]
      BY <2>2
    <3> DEFINE o == [kind |-> "send", to |-> s]
    <3>2. o \in AddOp \cup SendOp /\ o.kind = "send" /\ o.to = s
      BY DEF SendOp
    <3>3. ops[l] \in Queue /\ ops'[l] = Append(ops[l], o) /\ \A k \in Loops : k # l => ops'[k] = ops[k]
      BY <1>0, <3>1 DEF Shapes
    <3> HIDE DEF o
    <3>4. /\ ops'[l] \in Queue /\ Len(ops[l]) \in Nat
          /\ ops'[l][Len(ops[l]) + 1] = o
          /\ \A i \in 1..Len(ops[l]) : ops'[l][i] = ops[l][i]
          /\ \A i \in 1..Len(ops'[l]) : i \in 1..Len(ops[l]) \/ i = Len(ops[l]) + 1
      BY <3>2, <3>3, AppendFacts
    <3>5. ops' \in [Loops -> Queue]
      BY <1>0, <3>1, <3>3, <3>4 DEF Shapes
    <3>6. \A k \in Loops : \A i \in 1..Len(ops'[k]) :
            (i \in 1..Len(ops[k]) /\ ops'[k][i] = ops[k][i]) \/ ops'[k][i] = o
      BY <3>3, <3>4
    <3>7. "add" # "send"
      OBVIOUS
    <3>8. ASSUME NEW k \in Loops, NEW i \in 1..Len(ops'[k]), ops'[k][i].kind = "add"
          PROVE  i \in 1..Len(ops[k]) /\ ops'[k][i] = ops[k][i]
      BY <3>2, <3>6, <3>8
    <3>9. \A k \in Loops : \A i \in 1..Len(ops'[k]) :
            ops'[k][i].kind = "add" => i \in 1..Len(ops[k]) /\ ops'[k][i] = ops[k][i]
      BY <3>8
    <3>10. \A k \in Loops : \A i \in 1..Len(ops'[k]) : ops'[k][i].kind = "add" =>
             conn[ops'[k][i].con].st = "queued" /\ conn[ops'[k][i].con].loop = k
      BY <1>0, <3>9 DEF Adds
    <3>11. \A k \in Loops : \A i, j \in 1..Len(ops'[k]) :
             ops'[k][i].kind = "add" /\ ops'[k][j].kind = "add" /\ ops'[k][i].con = ops'[k][j].con => i = j
      <4> SUFFICES ASSUME NEW k \in Loops, NEW i \in 1..Len(ops'[k]), NEW j \in 1..Len(ops'[k]),
                          ops'[k][i].kind = "add", ops'[k][j].kind = "add", ops'[k][i].con = ops'[k][j].con
                   PROVE  i = j
        OBVIOUS
      <4>1. /\ i \in 1..Len(ops[k]) /\ ops'[k][i] = ops[k][i]
            /\ j \in 1..Len(ops[k]) /\ ops'[k][j] = ops[k][j]
        BY <3>9
      <4> QED
        BY <1>0, <4>1 DEF Adds
    <3>12. Adds'
      BY <3>10, <3>11 DEF Adds
    <3>13. \A k \in Loops : \A i \in 1..Len(ops'[k]) : ops'[k][i].kind = "send" => Given(ops'[k][i].to)
      BY <1>0, <3>1, <3>2, <3>6 DEF Ids
    <3> QED
      BY <3>5, <3>12, <3>13
  <2> QED
    BY <2>1, <2>2
<1>4. Shapes'
  BY <1>0, <1>1, <1>3 DEF Shapes
<1>5. Ids'
  BY <1>1, <1>2, <1>3 DEF Ids
<1>6. Sessions'
  BY <1>0 DEF Sessions
<1>7. Pushed'
  BY <1>0 DEF Pushed, Reused
<1>8. MapSound'
  BY <1>0 DEF MapSound, Live
<1> QED
  BY <1>1, <1>3, <1>4, <1>5, <1>6, <1>7, <1>8 DEF Inv

\* handlePushRequest and handlePushResponse.
LEMMA PushInv ==
  ASSUME Inv, NEW c \in Conns, NEW to \in (known \ {None}) \cup {Foreign}, NEW r \in BOOLEAN, Push(c, to, r)
  PROVE  Inv'
<1>1. /\ Live(c) /\ UpdateSession(conn[c]) /\ UNCHANGED <<lastId, conn, conMap, last>>
      /\ UNCHANGED ops \/ Route(to)
  BY DEF Push
<1>2. CASE UNCHANGED ops
  BY <1>1, <1>2, QuietInv
<1>3. CASE ~UNCHANGED ops
  <2> DEFINE l == EventLoopId(to.conid)
  <2>1. to # Foreign /\ l \in Loops /\ ops' = [ops EXCEPT ![l] = Append(@, [kind |-> "send", to |-> to])]
    BY <1>1, <1>3 DEF Route
  <2>2. to \in known /\ to # None
    BY <2>1
  <2>3. to \in SessIds /\ Given(to)
    BY <2>2 DEF Inv, Shapes, Ids
  <2> HIDE DEF l
  <2> QED
    BY <1>1, <2>1, <2>3, QuietInv
<1> QED
  BY <1>2, <1>3

\* A connection logs in: its session id is made of its id.
LEMMA LoginInv ==
  ASSUME Inv, NEW c \in Conns, NEW u \in Users, NEW t \in Types, Login(c, u, t)
  PROVE  Inv'
<1>0. Shapes /\ Adds /\ Ids /\ Sessions /\ Pushed /\ MapSound /\ CacheSound
  BY DEF Inv
<1>1. conn[c] \in Rec /\ conn[c].st = "live" /\ t \in Int /\ UNCHANGED <<lastId, conMap, ops, last>>
  BY <1>0, ConnectServerAssumption DEF Login, Live, Shapes
<1>2. CASE conn[c].login
  <2>1. UNCHANGED <<conn, cache, known>>
    BY <1>2 DEF Login, LoggedIn
  <2> QED
    BY <1>0, <1>1, <2>1 DEF Inv, Shapes, Adds, Ids, Given, Sessions, Pushed, MapSound, CacheSound, Live, Reused
<1>3. CASE ~conn[c].login
  <2> DEFINE r1 == [conn[c] EXCEPT !.user = u, !.type = t]
             r2 == [conn[c] EXCEPT !.user = u, !.type = t, !.login = TRUE, !.sess = NewSessid(c, u)]
  <2>1. \/ conn' = [conn EXCEPT ![c] = r1] /\ UNCHANGED <<cache, known>>
        \/ conn' = [conn EXCEPT ![c] = r2] /\ UpdateSession(conn'[c])
    BY <1>3 DEF Login, LoggedIn
  <2>2. Sessid(conn[c].conid, u) \in SessIds
    BY <1>1 DEF Sessid, SessIds, Rec
  <2>3. /\ r1 \in Rec /\ r1.st = "live" /\ r1.loop = conn[c].loop /\ r1.conid = conn[c].conid
        /\ r1.login = conn[c].login /\ r1.sess = conn[c].sess /\ r1.user = u /\ r1.type = t
    BY <1>1 DEF Rec
  <2>4. /\ r2 \in Rec /\ r2.st = "live" /\ r2.loop = conn[c].loop /\ r2.conid = conn[c].conid
        /\ r2.login = TRUE /\ r2.sess = Sessid(conn[c].conid, u) /\ r2.user = u /\ r2.type = t
    BY <1>1, <2>2 DEF Rec, NewSessid
  <2> HIDE DEF r1, r2
  <2>5. /\ conn' \in [Conns -> Rec] /\ \A d \in Conns : d # c => conn'[d] = conn[d]
        /\ conn'[c].st = "live" /\ conn'[c].loop = conn[c].loop /\ conn'[c].conid = conn[c].conid
        /\ conn'[c].user = u /\ conn'[c].type = t
    BY <1>0, <2>1, <2>3, <2>4 DEF Shapes
  <2>6. \/ conn'[c].login = FALSE /\ conn'[c].sess = None /\ UNCHANGED <<cache, known>>
        \/ conn'[c].login = TRUE /\ conn'[c].sess = Sessid(conn[c].conid, u) /\ UpdateSession(conn'[c])
    <3>1. conn[c].login = FALSE /\ conn[c].sess = None
      BY <1>0, <1>1, <1>3 DEF Sessions, Rec
    <3> QED
      BY <1>0, <2>1, <2>3, <2>4, <3>1 DEF Shapes
  <2>7. \A d \in Conns : Steady(d)
    BY <1>1, <1>3, <2>5 DEF Steady
  <2>8. Sessions'
    BY <1>0, <2>5, <2>6 DEF Sessions
  <2>9. Pushed'
    BY <1>1, <2>7, SteadyFacts
  <2>10. MapSound'
    <3> SUFFICES ASSUME NEW m \in Loops, NEW k \in DOMAIN conMap[m]
                 PROVE  /\ conn'[conMap[m][k]].st = "live" /\ conn'[conMap[m][k]].loop = m
                        /\ conn'[conMap[m][k]].conid = k
      BY <1>1 DEF MapSound, Live
    <3>1. conMap[m][k] \in Conns
      BY <1>0, MapValues
    <3> QED
      BY <1>0, <2>5, <3>1 DEF MapSound, Live
  <2>11. Adds'
    <3> SUFFICES ASSUME NEW l \in Loops, NEW i \in 1..Len(ops[l]), ops[l][i].kind = "add"
                 PROVE  conn'[ops[l][i].con].st = "queued" /\ conn'[ops[l][i].con].loop = l
      BY <1>0, <1>1 DEF Adds
    <3>1. ops[l][i] \in AddOp \cup SendOp
      BY <1>0 DEF Shapes, Queue
    <3>2. ops[l][i].con \in Conns
      BY <3>1 DEF AddOp, SendOp
    <3> QED
      BY <1>0, <1>1, <2>5, <3>2 DEF Adds
  <2>12. \A d \in Conns : conn[d].st = "live" /\ conn[d].login => conn'[d] = conn[d]
    BY <1>3, <2>5
  <2>13. \A e \in cache : e.sess # None =>
           \E d \in Conns : /\ conn'[d].st = "live" /\ conn'[d].login /\ conn'[d].type < 0
                            /\ conn'[d].user = e.user /\ conn'[d].sess = e.sess
    <3> SUFFICES ASSUME NEW e \in cache, e.sess # None
                 PROVE  \E d \in Conns : /\ conn'[d].st = "live" /\ conn'[d].login /\ conn'[d].type < 0
                                         /\ conn'[d].user = e.user /\ conn'[d].sess = e.sess
      OBVIOUS
    <3>1. PICK d \in Conns : /\ conn[d].st = "live" /\ conn[d].login /\ conn[d].type < 0
                             /\ conn[d].user = e.user /\ conn[d].sess = e.sess
      BY <1>0 DEF CacheSound, Live
    <3> QED
      BY <2>12, <3>1
  <2>14. \A d \in Conns : d # c /\ conn'[d].st = "live" /\ conn'[d].login /\ conn'[d].type < 0 =>
           [user |-> conn'[d].user, sess |-> conn'[d].sess] \in cache \/ Reused(d)'
    <3> SUFFICES ASSUME NEW d \in Conns, d # c, conn'[d].st = "live", conn'[d].login, conn'[d].type < 0
                 PROVE  [user |-> conn'[d].user, sess |-> conn'[d].sess] \in cache \/ Reused(d)'
      OBVIOUS
    <3>1. conn'[d] = conn[d]
      BY <2>5
    <3>2. [user |-> conn[d].user, sess |-> conn[d].sess] \in cache \/ Reused(d)
      BY <1>0, <3>1 DEF CacheSound, Live
    <3> QED
      BY <2>7, <3>1, <3>2, SteadyFacts
  <2>15. CASE UNCHANGED <<cache, known>> /\ ~(conn'[c].login /\ t < 0)
    <3>1. Shapes'
      BY <1>0, <1>1, <2>5, <2>15 DEF Shapes
    <3>2. Ids'
      BY <1>0, <1>1, <2>7, <2>15, SteadyFacts DEF Ids
    <3>3. CacheSound'
      BY <2>5, <2>13, <2>14, <2>15 DEF CacheSound, Live
    <3> QED
      BY <2>8, <2>9, <2>10, <2>11, <3>1, <3>2, <3>3 DEF Inv
  <2>16. CASE /\ conn'[c].login = TRUE /\ conn'[c].sess = Sessid(conn[c].conid, u)
              /\ UpdateSession(conn'[c]) /\ t < 0
    <3> DEFINE e == [user |-> u, sess |-> Sessid(conn[c].conid, u)]
    <3>1. cache' = cache \cup {e} /\ known' = known \cup {Sessid(conn[c].conid, u)}
      BY <2>5, <2>16 DEF UpdateSession
    <3>2. e \in [user : Users \cup {None}, sess : SessIds \cup {None}] /\ e.user = u
          /\ e.sess = Sessid(conn[c].conid, u)
      BY <2>2
    <3>3. e = [user |-> conn'[c].user, sess |-> conn'[c].sess]
      BY <2>5, <2>16
    <3> HIDE DEF e
    <3>4. Shapes'
      BY <1>0, <1>1, <2>2, <2>5, <3>1, <3>2 DEF Shapes
    <3>5. Given(Sessid(conn[c].conid, u))'
      <4>1. PICK s : s = Sessid(conn[c].conid, u)
        OBVIOUS
      <4>2. \E d \in Conns : conn'[d].st # "new" /\ conn'[d].login /\ conn'[d].sess = s
        BY <2>5, <2>16, <4>1
      <4> QED
        BY <2>5, <4>1, <4>2 DEF Given, Sessid
    <3>6. Ids'
      BY <1>0, <1>1, <2>5, <2>7, <3>1, <3>5, SteadyFacts DEF Ids, Sessid
    <3>7. CacheSound'
      <4>1. \A f \in cache' : f.sess # None =>
              \E d \in Conns : /\ conn'[d].st = "live" /\ conn'[d].login /\ conn'[d].type < 0
                               /\ conn'[d].user = f.user /\ conn'[d].sess = f.sess
        BY <2>5, <2>13, <2>16, <3>1, <3>2
      <4>2. \A d \in Conns : conn'[d].st = "live" /\ conn'[d].login /\ conn'[d].type < 0 =>
              [user |-> conn'[d].user, sess |-> conn'[d].sess] \in cache' \/ Reused(d)'
        BY <2>14, <3>1, <3>3
      <4> QED
        BY <4>1, <4>2 DEF CacheSound, Live
    <3> QED
      BY <2>8, <2>9, <2>10, <2>11, <3>4, <3>6, <3>7 DEF Inv
  <2> QED
    BY <2>5, <2>6, <2>15, <2>16 DEF UpdateSession
<1> QED
  BY <1>2, <1>3

\* A connection ends: its entry leaves the cache, and with it only the entry of
\* a connection with the same id.
LEMMA DestroyInv ==
  ASSUME Inv, NEW c \in Conns, Live(c), Destroy(c), UNCHANGED <<lastId, ops, known, last>>
  PROVE  Inv'
<1>0. Shapes /\ Adds /\ Ids /\ Sessions /\ Pushed /\ MapSound /\ CacheSound
  BY DEF Inv
<1>1. /\ conn' \in [Conns -> Rec] /\ \A d \in Conns : d # c => conn'[d] = conn[d]
      /\ conn'[c].st = "gone" /\ conn'[c].loop = conn[c].loop /\ conn'[c].conid = conn[c].conid
      /\ conn'[c].login = conn[c].login /\ conn'[c].sess = conn[c].sess
      /\ conn'[c].user = conn[c].user /\ conn'[c].type = conn[c].type
  BY <1>0 DEF Destroy, Shapes, Rec
<1>2. conn[c].st = "live" /\ \A d \in Conns : Steady(d)
  BY <1>1 DEF Live, Steady
<1>3. \A l \in Loops : /\ conMap'[l] \in Maps
                       /\ \A k \in DOMAIN conMap'[l] : /\ k \in DOMAIN conMap[l] /\ conMap'[l][k] = conMap[l][k]
                                                       /\ l = conn[c].loop => k # conn[c].conid
  <2> SUFFICES ASSUME NEW l \in Loops
               PROVE  /\ conMap'[l] \in Maps
                      /\ \A k \in DOMAIN conMap'[l] : /\ k \in DOMAIN conMap[l] /\ conMap'[l][k] = conMap[l][k]
                                                      /\ l = conn[c].loop => k # conn[c].conid
    OBVIOUS
  <2>1. PICK D \in SUBSET Int : conMap[l] \in [D -> Conns]
    BY <1>0 DEF Shapes, Maps
  <2>2. CASE l = conn[c].loop
    <3>1. conMap'[l] = [k \in DOMAIN conMap[l] \ {conn[c].conid} |-> conMap[l][k]]
      BY <1>0, <2>2 DEF Destroy, DelConnection, Shapes
    <3>2. conMap'[l] \in [D \ {conn[c].conid} -> Conns] /\ D \ {conn[c].conid} \in SUBSET Int
      BY <2>1, <3>1
    <3>3. conMap'[l] \in Maps
      BY <3>2 DEF Maps
    <3> QED
      BY <3>1, <3>3
  <2>3. CASE l # conn[c].loop
    <3>1. conMap'[l] = conMap[l]
      BY <1>0, <2>3 DEF Destroy, DelConnection, Shapes
    <3> QED
      BY <1>0, <2>3, <3>1 DEF Shapes
  <2> QED
    BY <2>2, <2>3
<1>4. conMap' \in [Loops -> Maps]
  <2>1. conMap' = [conMap EXCEPT ![conn[c].loop] = [k \in DOMAIN @ \ {conn[c].conid} |-> @[k]]]
    BY DEF Destroy, DelConnection
  <2>2. conMap' = [l \in Loops |-> conMap'[l]]
    BY <1>0, <2>1 DEF Shapes
  <2> QED
    BY <1>3, <2>2
<1>5. cache' \subseteq cache
  BY DEF Destroy, DelSession
<1>6. Shapes'
  BY <1>0, <1>1, <1>4, <1>5 DEF Shapes
<1>7. Adds'
  <2> SUFFICES ASSUME NEW l \in Loops, NEW i \in 1..Len(ops[l]), ops[l][i].kind = "add"
               PROVE  conn'[ops[l][i].con].st = "queued" /\ conn'[ops[l][i].con].loop = l
    BY <1>0 DEF Adds
  <2>1. ops[l][i] \in AddOp \cup SendOp
    BY <1>0 DEF Shapes, Queue
  <2>2. ops[l][i].con \in Conns
    BY <2>1 DEF AddOp, SendOp
  <2> QED
    BY <1>0, <1>1, <1>2, <2>2 DEF Adds
<1>8. Ids'
  BY <1>0, <1>2, SteadyFacts DEF Ids
<1>9. Sessions'
  BY <1>0, <1>1 DEF Sessions
<1>10. Pushed'
  BY <1>2, SteadyFacts
<1>11. MapSound'
  <2> SUFFICES ASSUME NEW m \in Loops, NEW k \in DOMAIN conMap'[m]
               PROVE  /\ conn'[conMap'[m][k]].st = "live" /\ conn'[conMap'[m][k]].loop = m
                      /\ conn'[conMap'[m][k]].conid = k
    BY DEF MapSound, Live
  <2>1. k \in DOMAIN conMap[m] /\ conMap'[m][k] = conMap[m][k] /\ (m = conn[c].loop => k # conn[c].conid)
    <3>1. \A h \in DOMAIN conMap'[m] : /\ h \in DOMAIN conMap[m] /\ conMap'[m][h] = conMap[m][h]
                                       /\ m = conn[c].loop => h # conn[c].conid
      BY <1>3, Zenon
    <3> QED
      BY <3>1, Zenon
  <2>2. conMap[m][k] \in Conns
    BY <1>0, <2>1, MapValues
  <2>3. conn[conMap[m][k]].st = "live" /\ conn[conMap[m][k]].loop = m /\ conn[conMap[m][k]].conid = k
    BY <1>0, <2>1 DEF MapSound, Live
  <2>4. conMap[m][k] # c
    BY <2>1, <2>3
  <2> QED
    BY <1>1, <2>1, <2>2, <2>3, <2>4
<1>12. CacheSound'
  <2> DEFINE own == [user |-> conn[c].user, sess |-> conn[c].sess]
             mine == conn[c].login /\ conn[c].type < 0
  <2>1. cache' = IF mine THEN cache \ {own} ELSE cache
    BY DEF Destroy, DelSession
  <2>2. ASSUME NEW e \in cache', e.sess # None
        PROVE  \E d \in Conns : /\ conn'[d].st = "live" /\ conn'[d].login /\ conn'[d].type < 0
                                /\ conn'[d].user = e.user /\ conn'[d].sess = e.sess
    <3>1. e \in cache /\ (mine => e # own)
      BY <2>1, <2>2
    <3>2. PICK d \in Conns : /\ conn[d].st = "live" /\ conn[d].login /\ conn[d].type < 0
                             /\ conn[d].user = e.user /\ conn[d].sess = e.sess
      BY <1>0, <2>2, <3>1 DEF CacheSound, Live
    <3>3. e = [user |-> e.user, sess |-> e.sess]
      BY <1>0, <3>1 DEF Shapes
    <3>4. d # c
      BY <3>1, <3>2, <3>3
    <3> QED
      BY <1>1, <3>2, <3>4
  <2>3. ASSUME NEW d \in Conns, conn'[d].st = "live", conn'[d].login, conn'[d].type < 0
        PROVE  [user |-> conn'[d].user, sess |-> conn'[d].sess] \in cache' \/ Reused(d)'
    <3>1. d # c /\ conn'[d] = conn[d]
      BY <1>1, <2>3
    <3>2. [user |-> conn[d].user, sess |-> conn[d].sess] \in cache \/ Reused(d)
      BY <1>0, <2>3, <3>1 DEF CacheSound, Live
    <3>3. CASE mine /\ [user |-> conn[d].user, sess |-> conn[d].sess] = own
      <4>1. conn[d].sess = conn[c].sess
        BY <3>3
      <4>2. Sessid(conn[d].conid, conn[d].user) = Sessid(conn[c].conid, conn[c].user)
        BY <1>0, <2>3, <3>1, <3>3, <4>1 DEF Sessions
      <4>3. conn[d].conid = conn[c].conid
        BY <4>2 DEF Sessid
      <4>4. Reused(d)'
        BY <1>1, <3>1, <4>3 DEF Reused
      <4> QED
        BY <4>4
    <3>4. CASE ~(mine /\ [user |-> conn[d].user, sess |-> conn[d].sess] = own)
      <4>1. [user |-> conn[d].user, sess |-> conn[d].sess] \in cache =>
              [user |-> conn[d].user, sess |-> conn[d].sess] \in cache'
        BY <2>1, <3>4
      <4> QED
        BY <1>2, <2>3, <3>1, <3>2, <4>1, SteadyFacts
    <3> QED
      BY <3>3, <3>4
  <2> QED
    BY <2>2, <2>3 DEF CacheSound, Live
<1> QED
  BY <1>6, <1>7, <1>8, <1>9, <1>10, <1>11, <1>12 DEF Inv

-----------------------------------------------------------------------------
(* The theorems *)

\* A step that changes nothing.
LEMMA StutterInv == Inv /\ UNCHANGED vars => Inv'
  BY DEF Inv, vars, Shapes, Adds, Ids, Given, Sessions, Pushed, MapSound, CacheSound, Live, Reused

\* Inv is inductive.
LEMMA Inductive == Spec => []Inv
<1>1. Inv /\ [Next]_vars => Inv'
  <2> SUFFICES ASSUME Inv, [Next]_vars PROVE Inv'
    OBVIOUS
  <2>1. ASSUME NEW c \in Conns, NEW p \in Ports, Accept(c, p) PROVE Inv'
    BY <2>1, AcceptInv
  <2>2. ASSUME NEW l \in Loops, ProcessOp(l) PROVE Inv'
    <3>1. \/ Head(ops[l]).kind = "add" /\ ProcessAdd(l, Head(ops[l]).con)
          \/ Head(ops[l]).kind = "send" /\ ProcessSend(l, Head(ops[l]).to)
      BY <2>2 DEF ProcessOp
    <3> QED
      BY <2>2, <3>1, AddInv, SendInv
  <2>3. ASSUME NEW c \in Conns, NEW u \in Users, NEW t \in Types, Login(c, u, t) PROVE Inv'
    BY <2>3, LoginInv
  <2>4. ASSUME NEW c \in Conns, NEW to \in (known \ {None}) \cup {Foreign}, NEW r \in BOOLEAN, Push(c, to, r)
        PROVE  Inv'
    BY <2>4, PushInv
  <2>5. ASSUME NEW c \in Conns, KeepAlive(c) PROVE Inv'
    BY <2>5, QuietInv DEF KeepAlive
  <2>6. ASSUME NEW c \in Conns, PushEmpty(c) \/ Close(c) PROVE Inv'
    BY <2>6, DestroyInv DEF PushEmpty, Close
  <2>7. CASE UNCHANGED vars
    BY <2>7, StutterInv
  <2> QED
    BY <2>1, <2>2, <2>3, <2>4, <2>5, <2>6, <2>7 DEF Next
<1> QED
  BY <1>1, InitInv, PTL DEF Spec

\* m_con_map never holds a pointer to a connection that has ended, has another
\* id or runs on another loop, however often ids are given out again.
THEOREM MapHoldsLive == Spec => []MapSound
<1>1. Inv => MapSound
  BY DEF Inv
<1> QED
  BY <1>1, Inductive, PTL

\* The session cache tells who is logged in, up to ids that were given out twice.
THEOREM CacheTrue == Spec => []CacheSound
<1>1. Inv => CacheSound
  BY DEF Inv
<1> QED
  BY <1>1, Inductive, PTL

\* A push reaches the session it names or a connection that got the same id.
THEOREM PushRouted == Spec => []RoutedOrReused
<1>1. Inv => RoutedOrReused
  BY DEF Inv, Pushed, RoutedOrReused
<1> QED
  BY <1>1, Inductive, PTL

-----------------------------------------------------------------------------
(* The list of push servers *)

Serves(c) == Live(c) /\ conn[c].login /\ conn[c].type > 0

\* The list holds every push server, and each once.
Listed ==
  /\ svlist \in Seq(Conns)
  /\ \A i, j \in 1..Len(svlist) : svlist[i] = svlist[j] => i = j
  /\ \A c \in Conns : Serves(c) <=> \E i \in 1..Len(svlist) : svlist[i] = c

\* This is what ServicesSound says, of a list of connections.
LEMMA ListedSound == Listed => ServicesSound
<1> SUFFICES ASSUME Listed PROVE ServicesSound
  OBVIOUS
<1>1. DOMAIN svlist = 1..Len(svlist) /\ \A i \in 1..Len(svlist) : svlist[i] \in Conns
  BY DEF Listed
<1>2. {svlist[i] : i \in DOMAIN svlist} = {c \in Conns : Live(c) /\ conn[c].login /\ conn[c].type > 0}
  BY <1>1 DEF Listed, Serves
<1>3. \A i, j \in DOMAIN svlist : svlist[i] = svlist[j] => i = j
  BY <1>1 DEF Listed
<1> QED
  BY <1>2, <1>3 DEF ServicesSound

\* A list without its entry i.
LEMMA RemoveAtFacts ==
  ASSUME NEW s \in Seq(Conns), NEW i \in 1..Len(s)
  PROVE  /\ RemoveAt(s, i) \in Seq(Conns)
         /\ Len(RemoveAt(s, i)) = Len(s) - 1
         /\ \A k \in 1..(Len(s) - 1) : RemoveAt(s, i)[k] = s[IF k < i THEN k ELSE k + 1]
<1> DEFINE a == SubSeq(s, 1, i - 1)
           b == SubSeq(s, i + 1, Len(s))
<1>1. Len(s) \in Nat /\ i \in Nat /\ i - 1 \in Nat /\ i <= Len(s)
  OBVIOUS
<1>2. a \in Seq(Conns) /\ Len(a) = i - 1 /\ \A k \in 1..(i - 1) : a[k] = s[k]
  BY <1>1
<1>3. b \in Seq(Conns) /\ Len(b) = Len(s) - i /\ \A k \in 1..(Len(s) - i) : b[k] = s[k + i]
  BY <1>1
<1> HIDE DEF a, b
<1>4. a \o b \in Seq(Conns) /\ Len(a \o b) = Len(s) - 1
  <2>1. a \o b \in Seq(Conns) /\ Len(a \o b) = Len(a) + Len(b)
    BY <1>2, <1>3, ConcatProperties
  <2>2. (i - 1) + (Len(s) - i) = Len(s) - 1
    BY <1>1
  <2> QED
    BY <1>2, <1>3, <2>1, <2>2
<1>5. ASSUME NEW k \in 1..(Len(s) - 1)
      PROVE  (a \o b)[k] = s[IF k < i THEN k ELSE k + 1]
  <2>1. CASE k < i
    <3>1. k \in 1..(i - 1) /\ (a \o b)[k] = a[k]
      BY <1>1, <1>2, <1>3, <2>1
    <3> QED
      BY <1>2, <2>1, <3>1
  <2>2. CASE ~(k < i)
    <3>1. k - (i - 1) \in 1..(Len(s) - i) /\ (k - (i - 1)) + i = k + 1
      BY <1>1, <2>2
    <3>2. (a \o b)[k] = b[k - (i - 1)]
      BY <1>1, <1>2, <1>3, <2>2
    <3> QED
      BY <1>3, <2>2, <3>1, <3>2
  <2> QED
    BY <2>1, <2>2
<1>6. RemoveAt(s, i) = a \o b
  BY DEF RemoveAt, a, b
<1> QED
  BY <1>4, <1>5, <1>6

\* std::find and erase in a list that has c once, at i.
LEMMA FindErase ==
  ASSUME NEW s \in Seq(Conns), NEW i \in 1..Len(s),
         \A j \in 1..Len(s) : s[j] = s[i] => j = i
  PROVE  RemoveFirst(s, s[i]) = RemoveAt(s, i)
<1>1. {j \in 1..Len(s) : s[j] = s[i]} = {i}
  OBVIOUS
<1>2. i \in Int
  OBVIOUS
<1>3. Min({i}) = i
  BY <1>2 DEF Min
<1>4. SelectInSeq(s, LAMBDA v : v = s[i]) = i
  BY <1>1, <1>3 DEF SelectInSeq
<1> QED
  BY <1>4 DEF RemoveFirst

\* The list stays when nobody starts or ends to be a push server.
LEMMA SameListed ==
  ASSUME Listed, svlist' = svlist, \A c \in Conns : Serves(c)' = Serves(c)
  PROVE  Listed'
  BY DEF Listed

\* A push server logs in: it was not in the list.
LEMMA LoginListed ==
  ASSUME Inv, Listed, NEW c \in Conns, NEW u \in Users, NEW t \in Types, Login(c, u, t)
  PROVE  Listed'
<1>1. conn \in [Conns -> Rec] /\ Live(c)
  BY DEF Inv, Shapes, Login
<1>2. CASE UNCHANGED <<conn, svlist>>
  <2>1. \A d \in Conns : Serves(d)' = Serves(d)
    BY <1>2 DEF Serves, Live
  <2> QED
    BY <1>2, <2>1, SameListed
<1>3. CASE /\ ~LoggedIn(c)
           /\ conn' = [conn EXCEPT ![c] = [@ EXCEPT !.user = u, !.type = t]]
           /\ UNCHANGED svlist
  <2>1. \A d \in Conns : conn'[d].st = conn[d].st /\ conn'[d].login = conn[d].login
                         /\ (d # c => conn'[d] = conn[d])
    BY <1>1, <1>3 DEF Rec
  <2>2. \A d \in Conns : Serves(d)' = Serves(d)
    BY <1>3, <2>1 DEF Serves, Live, LoggedIn
  <2> QED
    BY <1>3, <2>2, SameListed
<1>4. CASE /\ ~LoggedIn(c)
           /\ conn' = [conn EXCEPT ![c] = [@ EXCEPT !.user = u, !.type = t, !.login = TRUE,
                                                   !.sess = NewSessid(c, u)]]
           /\ svlist' = IF t > 0 THEN Append(svlist, c) ELSE svlist
  <2>1. /\ \A d \in Conns : d # c => conn'[d] = conn[d]
        /\ conn'[c].st = conn[c].st /\ conn'[c].login = TRUE /\ conn'[c].type = t
    BY <1>1, <1>4 DEF Rec
  <2>2. ~Serves(c) /\ (Serves(c)' <=> t > 0) /\ \A d \in Conns : d # c => Serves(d)' = Serves(d)
    BY <1>1, <1>4, <2>1 DEF Serves, Live, LoggedIn
  <2>3. CASE t > 0
    <3>1. svlist \in Seq(Conns) /\ svlist' = Append(svlist, c) /\ Len(svlist) \in Nat
      BY <1>4, <2>3 DEF Listed
    <3>2. /\ svlist' \in Seq(Conns) /\ Len(svlist') = Len(svlist) + 1
          /\ svlist'[Len(svlist) + 1] = c
          /\ \A i \in 1..Len(svlist) : svlist'[i] = svlist[i] /\ svlist[i] # c
      BY <2>2, <3>1 DEF Listed
    <3>3. \A i \in 1..Len(svlist') : i \in 1..Len(svlist) \/ i = Len(svlist) + 1
      BY <3>1, <3>2
    <3>4. \A i, j \in 1..Len(svlist') : svlist'[i] = svlist'[j] => i = j
      BY <3>2, <3>3 DEF Listed
    <3>5. ASSUME NEW d \in Conns
          PROVE  Serves(d)' <=> \E i \in 1..Len(svlist') : svlist'[i] = d
      <4>1. CASE d = c
        <5>1. Len(svlist) + 1 \in 1..Len(svlist')
          BY <3>1, <3>2
        <5> QED
          BY <2>2, <2>3, <3>2, <4>1, <5>1
      <4>2. CASE d # c
        <5>1. \A i \in 1..Len(svlist) : i \in 1..Len(svlist')
          BY <3>1, <3>2
        <5>2. (\E i \in 1..Len(svlist') : svlist'[i] = d) <=> \E i \in 1..Len(svlist) : svlist[i] = d
          BY <3>2, <3>3, <4>2, <5>1
        <5> QED
          BY <2>2, <4>2, <5>2 DEF Listed
      <4> QED
        BY <4>1, <4>2
    <3> QED
      BY <3>2, <3>4, <3>5 DEF Listed
  <2>4. CASE ~(t > 0)
    <3>1. svlist' = svlist /\ \A d \in Conns : Serves(d)' = Serves(d)
      BY <1>4, <2>2, <2>4 DEF Serves, Live
    <3> QED
      BY <3>1, SameListed
  <2> QED
    BY <2>3, <2>4
<1> QED
  BY <1>2, <1>3, <1>4 DEF Login

\* A connection ends: if it is a push server, its entry goes and the others stay.
LEMMA DestroyListed ==
  ASSUME Inv, Listed, NEW c \in Conns, Live(c), Destroy(c)
  PROVE  Listed'
<1>1. /\ \A d \in Conns : d # c => conn'[d] = conn[d]
      /\ conn'[c].st = "gone"
  BY DEF Inv, Shapes, Rec, Destroy
<1>2. ~Serves(c)' /\ \A d \in Conns : d # c => Serves(d)' = Serves(d)
  BY <1>1 DEF Serves, Live
<1>3. CASE Serves(c)
  <2>1. svlist \in Seq(Conns) /\ Len(svlist) \in Nat
        /\ \A i, j \in 1..Len(svlist) : svlist[i] = svlist[j] => i = j
    BY DEF Listed
  <2>2. PICK i \in 1..Len(svlist) : svlist[i] = c
    BY <1>3 DEF Listed
  <2>3. svlist' = RemoveAt(svlist, i)
    <3>1. svlist' = RemoveFirst(svlist, c)
      BY <1>3 DEF Destroy, DelServer, Serves
    <3> QED
      BY <2>1, <2>2, <3>1, FindErase
  <2> DEFINE Old(k) == IF k < i THEN k ELSE k + 1
  <2>4. /\ svlist' \in Seq(Conns) /\ Len(svlist') = Len(svlist) - 1
        /\ \A k \in 1..Len(svlist') : svlist'[k] = svlist[Old(k)]
    <3>1. /\ svlist' \in Seq(Conns) /\ Len(svlist') = Len(svlist) - 1
          /\ \A k \in 1..(Len(svlist) - 1) : svlist'[k] = svlist[Old(k)]
      BY <2>1, <2>3, RemoveAtFacts
    <3> QED
      BY <3>1
  <2>5. \A k \in 1..Len(svlist') : k \in Nat /\ Old(k) \in 1..Len(svlist) /\ Old(k) # i
    BY <2>1, <2>4
  <2>6. \A k, m \in 1..Len(svlist') : Old(k) = Old(m) => k = m
    BY <2>1, <2>4
  <2>7. \A o \in 1..Len(svlist) : o # i => \E k \in 1..Len(svlist') : Old(k) = o
    <3> SUFFICES ASSUME NEW o \in 1..Len(svlist), o # i
                 PROVE  \E k \in 1..Len(svlist') : Old(k) = o
      OBVIOUS
    <3> DEFINE k == IF o < i THEN o ELSE o - 1
    <3>1. k \in 1..Len(svlist') /\ Old(k) = o
      BY <2>1, <2>4
    <3> QED
      BY <3>1
  <2> HIDE DEF Old
  <2>8. \A k, m \in 1..Len(svlist') : svlist'[k] = svlist'[m] => k = m
    BY <2>1, <2>4, <2>5, <2>6
  <2>9. ASSUME NEW d \in Conns
        PROVE  Serves(d)' <=> \E k \in 1..Len(svlist') : svlist'[k] = d
    <3>1. CASE d = c
      <4>1. \A k \in 1..Len(svlist') : svlist'[k] # c
        BY <2>1, <2>2, <2>4, <2>5
      <4> QED
        BY <1>2, <3>1, <4>1
    <3>2. CASE d # c
      <4>1. (\E k \in 1..Len(svlist') : svlist'[k] = d) => \E o \in 1..Len(svlist) : svlist[o] = d
        BY <2>4, <2>5
      <4>2. ASSUME NEW o \in 1..Len(svlist), svlist[o] = d
            PROVE  \E k \in 1..Len(svlist') : svlist'[k] = d
        <5>1. PICK k \in 1..Len(svlist') : Old(k) = o
          BY <2>2, <2>7, <3>2, <4>2
        <5> QED
          BY <2>4, <4>2, <5>1
      <4> QED
        BY <1>2, <3>2, <4>1, <4>2 DEF Listed
    <3> QED
      BY <3>1, <3>2
  <2> QED
    BY <2>4, <2>8, <2>9 DEF Listed
<1>4. CASE ~Serves(c)
  <2>1. svlist' = svlist
    BY <1>4 DEF Destroy, DelServer, Serves
  <2>2. \A d \in Conns : Serves(d)' = Serves(d)
    BY <1>2, <1>4 DEF Serves, Live
  <2> QED
    BY <2>1, <2>2, SameListed
<1> QED
  BY <1>3, <1>4

\* Every step keeps the list.
LEMMA NextListed ==
  ASSUME Inv, Listed, [Next]_vars
  PROVE  Listed'
<1>1. conn \in [Conns -> Rec]
  BY DEF Inv, Shapes
<1>2. ASSUME NEW c \in Conns, NEW p \in Ports, Accept(c, p) PROVE Listed'
  <2>1. /\ conn[c].st = "new" /\ conn'[c].st = "queued" /\ \A d \in Conns : d # c => conn'[d] = conn[d]
        /\ svlist' = svlist
    BY <1>1, <1>2 DEF Accept, Rec
  <2>2. \A d \in Conns : Serves(d)' = Serves(d)
    BY <2>1 DEF Serves, Live
  <2> QED
    BY <2>1, <2>2, SameListed
<1>3. ASSUME NEW l \in Loops, ProcessOp(l) PROVE Listed'
  <2>1. svlist' = svlist
    BY <1>3 DEF ProcessOp
  <2>2. CASE Head(ops[l]).kind = "add" /\ ProcessAdd(l, Head(ops[l]).con)
    <3> DEFINE c == Head(ops[l]).con
    <3>1. Head(ops[l]) \in AddOp \cup SendOp /\ Head(ops[l]) = ops[l][1] /\ 1 \in 1..Len(ops[l])
      BY <1>3, TakeFacts DEF ProcessOp
    <3>2. c \in Conns
      BY <2>2, <3>1 DEF AddOp, SendOp
    <3>3. conn[c].st = "queued"
      BY <2>2, <3>1 DEF Inv, Adds
    <3>4. conn' = [conn EXCEPT ![c].st = "live"]
      BY <2>2 DEF ProcessAdd
    <3> HIDE DEF c
    <3>5. ~conn[c].login
      BY <3>2, <3>3 DEF Inv, Sessions
    <3>6. conn'[c].login = conn[c].login /\ \A d \in Conns : d # c => conn'[d] = conn[d]
      BY <1>1, <3>2, <3>4 DEF Rec
    <3>7. \A d \in Conns : Serves(d)' = Serves(d)
      BY <3>2, <3>5, <3>6 DEF Serves, Live
    <3> QED
      BY <2>1, <3>7, SameListed
  <2>3. CASE ProcessSend(l, Head(ops[l]).to)
    <3>1. \A d \in Conns : Serves(d)' = Serves(d)
      BY <2>3 DEF ProcessSend, Serves, Live
    <3> QED
      BY <2>1, <3>1, SameListed
  <2> QED
    BY <1>3, <2>2, <2>3 DEF ProcessOp
<1>4. CASE UNCHANGED <<conn, svlist>>
  <2>1. \A d \in Conns : Serves(d)' = Serves(d)
    BY <1>4 DEF Serves, Live
  <2> QED
    BY <1>4, <2>1, SameListed
<1>5. ASSUME NEW c \in Conns, PushEmpty(c) \/ Close(c) PROVE Listed'
  BY <1>5, DestroyListed DEF PushEmpty, Close
<1>6. ASSUME NEW c \in Conns, NEW to, NEW r, Push(c, to, r) PROVE UNCHANGED <<conn, svlist>>
  BY <1>6 DEF Push
<1>7. ASSUME NEW c \in Conns, KeepAlive(c) PROVE UNCHANGED <<conn, svlist>>
  BY <1>7 DEF KeepAlive
<1>8. UNCHANGED vars => UNCHANGED <<conn, svlist>>
  BY DEF vars
<1> QED
  BY <1>2, <1>3, <1>4, <1>5, <1>6, <1>7, <1>8, LoginListed DEF Next

\* TypeMap's list holds each push server connection that is logged in and alive
\* once, and no pointer to a connection that has ended.
THEOREM ListHoldsServers == Spec => []ServicesSound
<1>1. Init => Listed
  <2> SUFFICES ASSUME Init PROVE Listed
    OBVIOUS
  <2>1. svlist = <<>> /\ \A c \in Conns : ~Serves(c)
    BY DEF Init, Fresh, Serves, Live
  <2> QED
    BY <2>1 DEF Listed
<1>2. Inv /\ Listed /\ [Next]_vars => Listed'
  BY NextListed
<1> QED
  BY <1>1, <1>2, ListedSound, Inductive, PTL DEF Spec
============================================================================

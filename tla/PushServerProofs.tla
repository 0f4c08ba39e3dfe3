-------------------------- MODULE PushServerProofs --------------------------
(***************************************************************************)
(* Proofs about PushServer, for any servers, loops and SvCons. The entry   *)
(* of a server goes with the first of its SvCons that disconnects; version *)
(* and data of the list change together; and while a watch is armed the    *)
(* list that ZooKeeper's callback thread has read for it is the current    *)
(* one, or it knows that it failed to read it.                             *)
(***************************************************************************)
EXTENDS PushServer, TLAPS

Con == [place : {"free", "queued", "live", "gone"},
        status : {"INIT", "CONNECTING", "CONNECTED"}, reg : BOOLEAN,
        sv : Servers \cup {0}, loop : Loops \cup {0},
        sock : {"none", "pending", "ok", "refused", "down", "closed"}, asked : BOOLEAN]

Established(c) == c.place = "live" /\ c.reg /\ c.status = "CONNECTED"

\* The SvCons: they keep server and loop once they have them, and are connected
\* only while they live.
ConsSound ==
    /\ con \in [SvConns -> Con] /\ DOMAIN svcons = Loops
    /\ \A c \in SvConns :
           /\ con[c].status = "CONNECTED" => con[c].place = "live"
           /\ con[c].status = "CONNECTING" => ~con[c].reg
           /\ con[c].status # "INIT" => con[c].sv \in Accepting /\ con[c].loop \in Loops

\* m_svcons.
EntriesSound ==
    \A l \in Loops : \A s \in DOMAIN svcons[l] :
        /\ s \in Accepting /\ svcons[l][s] \in SvConns
        /\ Established(con[svcons[l][s]])
        /\ con[svcons[l][s]].sv = s /\ con[svcons[l][s]].loop = l

\* The SvCon that the loop also opened to c's server.
HasDouble(c) ==
    \E d \in SvConns \ {c} : con[d].place # "free" /\ con[d].sv = con[c].sv /\ con[d].loop = con[c].loop

Listed ==
    \A c \in SvConns :
        Established(con[c]) => con[c].sv \in DOMAIN svcons[con[c].loop] \/ HasDouble(c)

\* No loader has a version that has not been set, and the data of the latest.
Versioned ==
    /\ version \in Nat /\ lv \in [Loops -> Nat] /\ loaded \in [Loops -> Nat]
    /\ DOMAIN seen = Loops
    /\ \A l \in Loops : lv[l] <= version /\ loaded[l] <= version
    /\ LoaderFresh

\* While the watch is armed nothing has changed since the list was read for it;
\* without a watch of the children, the list has been missed.
Watched ==
    /\ zk \subseteq Servers /\ (zk # {} => dir) /\ data \subseteq Accepting
    /\ wpc \in {"idle", "data", "notify"}
    /\ wpc # "idle" => watch \in {"armed", "fired", "deleted"}
    /\ watch = "armed" /\ wpc = "data" => wlist = zk
    /\ watch = "armed" /\ wpc # "data" /\ writer = "zk" => missed \/ data = zk \cap Accepting
    /\ watch \in {"checking", "exist", "none", "closed"} => missed

Inv == ConsSound /\ EntriesSound /\ Listed /\ Versioned /\ Watched

-----------------------------------------------------------------------------
(* The SvCons *)

\* No SvCon exists before a loop has loaded the list.
LEMMA InitInv == Init => Inv
<1> SUFFICES ASSUME Init PROVE Inv
  OBVIOUS
<1>1. NewCon \in Con /\ NewCon.place = "free" /\ NewCon.status = "INIT" /\ ~NewCon.reg
  BY DEF NewCon, Con
<1>2. con = [c \in SvConns |-> NewCon] /\ svcons = [l \in Loops |-> <<>>] /\ \A l \in Loops : DOMAIN svcons[l] = {}
  BY DEF Init
<1>3. ConsSound
  BY <1>1, <1>2 DEF ConsSound
<1>4. EntriesSound /\ Listed
  BY <1>1, <1>2 DEF EntriesSound, Listed, Established
<1>5. Versioned
  BY DEF Init, Versioned, LoaderFresh
<1>6. Watched
  BY DEF Init, Watched
<1> QED
  BY <1>3, <1>4, <1>5, <1>6 DEF Inv

\* What does not touch the SvCons and their list.
LEMMA SameCons ==
  ASSUME ConsSound, EntriesSound, Listed, UNCHANGED <<con, svcons>>
  PROVE  ConsSound' /\ EntriesSound' /\ Listed'
  BY DEF ConsSound, EntriesSound, Listed, Established, HasDouble

\* An SvCon c becomes d without a change of the list: c was not established, or d
\* still is, to the same server on the same loop.
LEMMA OneCon ==
  ASSUME ConsSound, EntriesSound, Listed, NEW c \in SvConns, NEW d \in Con,
         con' = [con EXCEPT ![c] = d], svcons' = svcons,
         con[c].place # "free" => d.place # "free", d.status = con[c].status \/ con[c].status # "INIT",
         d.sv = con[c].sv, d.loop = con[c].loop, d.status = "CONNECTED" => d.place = "live",
         d.status = "CONNECTING" => ~d.reg, Established(d) <=> Established(con[c])
  PROVE  ConsSound' /\ EntriesSound' /\ Listed'
<1>1. \A b \in SvConns : con'[b] = IF b = c THEN d ELSE con[b]
  BY DEF ConsSound
<1>2. \A b \in SvConns : /\ con'[b].sv = con[b].sv /\ con'[b].loop = con[b].loop
                         /\ Established(con'[b]) <=> Established(con[b])
                         /\ con[b].place # "free" => con'[b].place # "free"
  BY <1>1
<1>3. ConsSound'
  BY <1>1 DEF ConsSound
<1>4. EntriesSound'
  BY <1>2 DEF EntriesSound
<1>5. Listed'
  BY <1>2 DEF Listed, HasDouble
<1> QED
  BY <1>3, <1>4, <1>5

\* disconnect, from any state of a live SvCon: the entry of its server goes.
LEMMA DisconnectCons ==
  ASSUME ConsSound, EntriesSound, Listed, NEW c \in SvConns, con[c].status # "INIT",
         NEW place \in {"live", "gone"}, Disconnect(c, place)
  PROVE  ConsSound' /\ EntriesSound' /\ Listed'
<1> DEFINE d == [con[c] EXCEPT !.place = place, !.status = "INIT", !.sock = "closed"]
           l == con[c].loop
           s == con[c].sv
<1>1. con[c] \in Con /\ s \in Accepting /\ l \in Loops /\ DOMAIN svcons = Loops
  BY DEF ConsSound
<1>2. /\ d \in Con /\ d.place = place /\ d.status = "INIT" /\ d.sv = s /\ d.loop = l
      /\ ~Established(d)
  BY <1>1 DEF Con, Established
<1>3. con' = [con EXCEPT ![c] = d]
  BY DEF Disconnect
<1> HIDE DEF d
<1>4. \A b \in SvConns : con'[b] = IF b = c THEN d ELSE con[b]
  BY <1>3 DEF ConsSound
<1>5. /\ DOMAIN svcons' = Loops
      /\ \A j \in Loops : svcons'[j] = IF j = l THEN Forget(l, s) ELSE svcons[j]
  BY <1>1 DEF Disconnect, OnDisconnected
<1>6. /\ DOMAIN Forget(l, s) = DOMAIN svcons[l] \ {s}
      /\ \A k \in DOMAIN svcons[l] \ {s} : Forget(l, s)[k] = svcons[l][k]
  BY DEF Forget
<1>7. con' \in [SvConns -> Con]
  BY <1>2, <1>3 DEF ConsSound
<1>8. ConsSound'
  BY <1>1, <1>2, <1>4, <1>5, <1>7 DEF ConsSound
<1>9. EntriesSound'
  <2> SUFFICES ASSUME NEW j \in Loops, NEW k \in DOMAIN svcons'[j]
               PROVE  /\ k \in Accepting /\ svcons'[j][k] \in SvConns
                      /\ Established(con'[svcons'[j][k]])
                      /\ con'[svcons'[j][k]].sv = k /\ con'[svcons'[j][k]].loop = j
    BY DEF EntriesSound
  <2>1. k \in DOMAIN svcons[j] /\ svcons'[j][k] = svcons[j][k] /\ (j # l \/ k # s)
    BY <1>5, <1>6
  <2>2. svcons[j][k] \in SvConns /\ svcons[j][k] # c
    BY <2>1 DEF EntriesSound
  <2> QED
    BY <1>4, <2>1, <2>2 DEF EntriesSound
<1>10. Listed'
  <2> SUFFICES ASSUME NEW b \in SvConns, Established(con'[b])
               PROVE  con'[b].sv \in DOMAIN svcons'[con'[b].loop] \/ HasDouble(b)'
    BY DEF Listed
  <2>1. b # c /\ con'[b] = con[b]
    BY <1>2, <1>4
  <2>2. CASE con[b].sv = s /\ con[b].loop = l
    <3>1. con'[c].place # "free" /\ con'[c].sv = con'[b].sv /\ con'[c].loop = con'[b].loop
      BY <1>2, <1>4, <2>1, <2>2
    <3> QED
      BY <2>1, <3>1 DEF HasDouble
  <2>3. CASE ~(con[b].sv = s /\ con[b].loop = l)
    <3>1. con[b].loop \in Loops
      BY <2>1 DEF ConsSound, Established
    <3>2. CASE con[b].sv \in DOMAIN svcons[con[b].loop]
      BY <1>5, <1>6, <2>1, <2>3, <3>1, <3>2
    <3>3. CASE HasDouble(b)
      <4>1. PICK a \in SvConns \ {b} : con[a].place # "free" /\ con[a].sv = con[b].sv /\ con[a].loop = con[b].loop
        BY <3>3 DEF HasDouble
      <4>2. con'[a].place # "free" /\ con'[a].sv = con[a].sv /\ con'[a].loop = con[a].loop
        BY <1>2, <1>4, <4>1
      <4> QED
        BY <2>1, <4>1, <4>2 DEF HasDouble
    <3> QED
      BY <2>1, <3>2, <3>3 DEF Listed
  <2> QED
    BY <2>2, <2>3
<1> QED
  BY <1>8, <1>9, <1>10

\* The response to the login request: the SvCon is entered for its server.
LEMMA RegisterCons ==
  ASSUME ConsSound, EntriesSound, Listed, NEW c \in SvConns,
         con[c].place = "live", con[c].status = "CONNECTED",
         con' = [con EXCEPT ![c].reg = TRUE, ![c].asked = FALSE],
         svcons' = [svcons EXCEPT ![con[c].loop] = Registered(con[c].loop, con[c].sv, c)]
  PROVE  ConsSound' /\ EntriesSound' /\ Listed'
<1> DEFINE d == [con[c] EXCEPT !.reg = TRUE, !.asked = FALSE]
           l == con[c].loop
           s == con[c].sv
<1>1. con[c] \in Con /\ s \in Accepting /\ l \in Loops /\ DOMAIN svcons = Loops
  BY DEF ConsSound
<1>2. /\ d \in Con /\ d.place = "live" /\ d.sv = s /\ d.loop = l
      /\ Established(d)
  BY <1>1 DEF Con, Established
<1>3. con' = [con EXCEPT ![c] = d]
  BY DEF ConsSound
<1> HIDE DEF d
<1>4. \A b \in SvConns : con'[b] = IF b = c THEN d ELSE con[b]
  BY <1>3 DEF ConsSound
<1>5. /\ DOMAIN svcons' = Loops
      /\ \A j \in Loops : svcons'[j] = IF j = l THEN Registered(l, s, c) ELSE svcons[j]
  BY <1>1
<1>6. /\ DOMAIN Registered(l, s, c) = DOMAIN svcons[l] \cup {s}
      /\ \A k \in DOMAIN svcons[l] \cup {s} : Registered(l, s, c)[k] = IF k = s THEN c ELSE svcons[l][k]
  BY DEF Registered
<1>7. con' \in [SvConns -> Con]
  BY <1>2, <1>3 DEF ConsSound
<1>8. ConsSound'
  BY <1>1, <1>2, <1>4, <1>5, <1>7 DEF ConsSound
<1>9. EntriesSound'
  <2> SUFFICES ASSUME NEW j \in Loops, NEW k \in DOMAIN svcons'[j]
               PROVE  /\ k \in Accepting /\ svcons'[j][k] \in SvConns
                      /\ Established(con'[svcons'[j][k]])
                      /\ con'[svcons'[j][k]].sv = k /\ con'[svcons'[j][k]].loop = j
    BY DEF EntriesSound
  <2>1. CASE j = l /\ k = s
    <3>1. svcons'[j][k] = c
      BY <1>1, <1>5, <1>6, <2>1
    <3>2. con'[c] = d
      BY <1>4
    <3> QED
      BY <1>1, <1>2, <2>1, <3>1, <3>2
  <2>2. CASE j # l \/ k # s
    <3>1. k \in DOMAIN svcons[j] /\ svcons'[j][k] = svcons[j][k]
      BY <1>5, <1>6, <2>2
    <3>2. svcons[j][k] \in SvConns /\ svcons[j][k] # c
      BY <2>2, <3>1 DEF EntriesSound
    <3>3. con'[svcons[j][k]] = con[svcons[j][k]]
      BY <1>4, <3>2
    <3> QED
      BY <3>1, <3>2, <3>3 DEF EntriesSound
  <2> QED
    BY <2>1, <2>2
<1>10. Listed'
  <2> SUFFICES ASSUME NEW b \in SvConns, Established(con'[b])
               PROVE  con'[b].sv \in DOMAIN svcons'[con'[b].loop] \/ HasDouble(b)'
    BY DEF Listed
  <2>1. CASE b = c
    <3>1. con'[b].sv = s /\ con'[b].loop = l
      BY <1>2, <1>4, <2>1
    <3>2. s \in DOMAIN svcons'[l]
      BY <1>1, <1>5, <1>6
    <3> QED
      BY <3>1, <3>2
  <2>2. CASE b # c
    <3>1. con'[b] = con[b] /\ con[b].loop \in Loops
      BY <1>4, <2>2 DEF ConsSound, Established
    <3>2. CASE con[b].sv \in DOMAIN svcons[con[b].loop]
      <4>1. con[b].sv \in DOMAIN svcons'[con[b].loop]
        BY <1>5, <1>6, <3>1, <3>2
      <4> QED
        BY <3>1, <4>1
    <3>3. CASE HasDouble(b)
      <4>1. PICK a \in SvConns \ {b} : con[a].place # "free" /\ con[a].sv = con[b].sv /\ con[a].loop = con[b].loop
        BY <3>3 DEF HasDouble
      <4>2. con'[a].place # "free" /\ con'[a].sv = con[a].sv /\ con'[a].loop = con[a].loop
        BY <1>2, <1>4, <4>1
      <4> QED
        BY <3>1, <4>1, <4>2 DEF HasDouble
    <3> QED
      BY <3>1, <3>2, <3>3 DEF Listed
  <2> QED
    BY <2>1, <2>2
<1> QED
  BY <1>8, <1>9, <1>10

\* checkServers opens an SvCon to each server it finds none of: free ones are taken.
LEMMA ConnectCons ==
  ASSUME ConsSound, EntriesSound, Listed, data \subseteq Accepting, NEW l \in Loops, CheckLoad(l)
  PROVE  ConsSound' /\ EntriesSound' /\ Listed'
<1> DEFINE new == CHOOSE f \in Injection(Missing(l), Free) : TRUE
<1>1. new \in Injection(Missing(l), Free)
  BY DEF CheckLoad, ExistsInjection
<1>2. \A s \in Missing(l) : new[s] \in Free
  BY <1>1 DEF Injection
<1>3. PICK tried \in SUBSET Missing(l) :
        con' = [c \in SvConns |->
                  IF \E s \in Missing(l) : new[s] = c
                  THEN LET s == CHOOSE x \in Missing(l) : new[x] = c
                       IN  ConnectServer(l, s, s \in tried)
                  ELSE con[c]]
  BY DEF CheckLoad
<1> HIDE DEF new
<1>4. svcons' = svcons
  BY DEF CheckLoad
<1>5. \A s \in Missing(l) : s \in Accepting /\ s \in Servers
  BY PushServerAssumption DEF Missing, PushServerAssumption
<1>6. ASSUME NEW s \in Missing(l), NEW c, c = ConnectServer(l, s, s \in tried)
      PROVE  /\ c \in Con /\ c.place = "queued" /\ c.status # "CONNECTED"
             /\ c.sv = s /\ c.loop = l /\ ~c.reg
  <2>1. PICK st \in {"CONNECTING", "INIT"}, so \in {"pending", "none"} :
          c = [place |-> "queued", status |-> st, reg |-> FALSE, sv |-> s, loop |-> l,
               sock |-> so, asked |-> FALSE]
    BY <1>6 DEF ConnectServer, NewCon
  <2> QED
    BY <1>5, <2>1 DEF Con
<1>7. ASSUME NEW c \in SvConns
      PROVE  \/ con'[c] = con[c]
             \/ /\ con[c].place = "free" /\ con'[c] \in Con /\ con'[c].place = "queued"
                /\ con'[c].status # "CONNECTED" /\ con'[c].sv \in Accepting /\ con'[c].loop = l
                /\ ~con'[c].reg
  <2>1. CASE \E s \in Missing(l) : new[s] = c
    <3> DEFINE s == CHOOSE x \in Missing(l) : new[x] = c
    <3>1. s \in Missing(l) /\ new[s] = c
      BY <2>1
    <3>2. con'[c] = ConnectServer(l, s, s \in tried)
      BY <1>3, <2>1
    <3> HIDE DEF s
    <3>3. con[c].place = "free"
      BY <1>2, <3>1 DEF Free
    <3>5. /\ con'[c] \in Con /\ con'[c].place = "queued" /\ con'[c].status # "CONNECTED"
          /\ con'[c].sv = s /\ con'[c].loop = l /\ ~con'[c].reg
      BY <1>6, <3>1, <3>2
    <3> QED
      BY <1>5, <3>1, <3>3, <3>5
  <2>2. CASE ~ \E s \in Missing(l) : new[s] = c
    BY <1>3, <2>2
  <2> QED
    BY <2>1, <2>2
<1>8. con' \in [SvConns -> Con]
  <2>1. \A c \in SvConns : con'[c] \in Con
    BY <1>7 DEF ConsSound
  <2>2. con' = [c \in SvConns |-> con'[c]]
    BY <1>3
  <2> QED
    BY <2>1, <2>2
<1>9. ConsSound'
  BY <1>4, <1>7, <1>8 DEF ConsSound
<1>10. \A c \in SvConns : con[c].place # "free" => con'[c] = con[c]
  BY <1>7
<1>11. EntriesSound'
  BY <1>4, <1>10 DEF EntriesSound, Established
<1>12. Listed'
  <2> SUFFICES ASSUME NEW b \in SvConns, Established(con'[b])
               PROVE  con'[b].sv \in DOMAIN svcons[con'[b].loop] \/ HasDouble(b)'
    BY <1>4 DEF Listed
  <2>1. con'[b] = con[b]
    BY <1>7 DEF Established
  <2>2. HasDouble(b) => HasDouble(b)'
    BY <1>10, <2>1 DEF HasDouble
  <2> QED
    BY <2>1, <2>2 DEF Listed
<1> QED
  BY <1>9, <1>11, <1>12

\* The event loop runs the AddConnectionOp of an SvCon, which nothing can have
\* connected before.
LEMMA ProcessAddCons ==
  ASSUME ConsSound, EntriesSound, Listed, NEW l \in Loops, ProcessAdd(l)
  PROVE  ConsSound' /\ EntriesSound' /\ Listed'
<1> DEFINE c == Head(ops[l])
           d == [con[c] EXCEPT !.place = "live"]
<1>1. c \in SvConns /\ con' = [con EXCEPT ![c] = d] /\ svcons' = svcons
  BY DEF ProcessAdd
<1>2. /\ con[c] \in Con /\ (con[c].status = "CONNECTED" => con[c].place = "live")
      /\ con[c].status = "CONNECTING" => ~con[c].reg
  BY <1>1 DEF ConsSound
<1>3. /\ d \in Con /\ d.place = "live" /\ d.status = con[c].status /\ d.reg = con[c].reg
      /\ d.sv = con[c].sv /\ d.loop = con[c].loop
  BY <1>2 DEF Con
<1> HIDE DEF c, d
<1>4. Established(d) <=> Established(con[c])
  BY <1>2, <1>3 DEF Established
<1> QED
  BY <1>1, <1>2, <1>3, <1>4, OneCon DEF c

\* A connect that ended: the login request is sent, or the SvCon disconnects.
LEMMA ConnectedCons ==
  ASSUME ConsSound, EntriesSound, Listed, NEW c \in SvConns, HandleConnected(c)
  PROVE  ConsSound' /\ EntriesSound' /\ Listed'
<1>1. con[c].place = "live" /\ con[c].status = "CONNECTING" /\ con[c] \in Con /\ ~con[c].reg
  BY DEF HandleConnected, Handles, ConsSound
<1>2. CASE Disconnect(c, "gone")
  BY <1>1, <1>2, DisconnectCons
<1>3. CASE /\ con' = [con EXCEPT ![c] = DoRegister([@ EXCEPT !.status = "CONNECTED"])]
           /\ UNCHANGED svcons
  <2> DEFINE d == DoRegister([con[c] EXCEPT !.status = "CONNECTED"])
  <2>1. /\ d \in Con /\ d.place = "live" /\ d.status = "CONNECTED" /\ d.reg = con[c].reg
        /\ d.sv = con[c].sv /\ d.loop = con[c].loop
    BY <1>1 DEF DoRegister, Con
  <2>2. con' = [con EXCEPT ![c] = d]
    BY <1>3
  <2> HIDE DEF d
  <2>3. Established(d) <=> Established(con[c])
    BY <1>1, <2>1 DEF Established
  <2> QED
    BY <1>1, <1>3, <2>1, <2>2, <2>3, OneCon
<1> QED
  BY <1>2, <1>3 DEF HandleConnected

\* The network and the connect server do something to the connection.
LEMMA NetworkCons ==
  ASSUME ConsSound, EntriesSound, Listed, NEW c \in SvConns, Network(c)
  PROVE  ConsSound' /\ EntriesSound' /\ Listed'
<1>1. PICK r \in {"ok", "refused", "down"} : con' = [con EXCEPT ![c].sock = r]
  BY DEF Network
<1>2. con[c].sock # "none" /\ svcons' = svcons
  BY DEF Network
<1> DEFINE d == [con[c] EXCEPT !.sock = r]
<1>3. /\ con[c] \in Con /\ (con[c].status = "CONNECTED" => con[c].place = "live")
      /\ con[c].status = "CONNECTING" => ~con[c].reg
  BY DEF ConsSound
<1>4. /\ d \in Con /\ d.place = con[c].place /\ d.status = con[c].status /\ d.reg = con[c].reg
      /\ d.sv = con[c].sv /\ d.loop = con[c].loop
  BY <1>3 DEF Con
<1>5. con' = [con EXCEPT ![c] = d]
  BY <1>1
<1> HIDE DEF d
<1>6. Established(d) <=> Established(con[c])
  BY <1>4 DEF Established
<1> QED
  BY <1>2, <1>3, <1>4, <1>5, <1>6, OneCon

-----------------------------------------------------------------------------
(* The list *)

\* setData, in either thread: no loader has the new version.
LEMMA SetDataFacts ==
  ASSUME Versioned, NEW t, NEW list, SetData(t, list), UNCHANGED loadVars
  PROVE  Versioned' /\ data' = list \cap Accepting /\ writer' = t
<1>1. /\ version' = version + 1 /\ data' = list \cap Accepting /\ writer' = t
      /\ UNCHANGED <<lv, loaded, seen>>
  BY DEF SetData, Bump, loadVars
<1>2. /\ version \in Nat /\ lv \in [Loops -> Nat] /\ loaded \in [Loops -> Nat] /\ DOMAIN seen = Loops
      /\ \A l \in Loops : lv[l] <= version /\ loaded[l] <= version
  BY DEF Versioned
<1>3. \A l \in Loops : lv'[l] <= version' /\ loaded'[l] <= version' /\ loaded'[l] # version'
  BY <1>1, <1>2
<1> QED
  BY <1>1, <1>2, <1>3 DEF Versioned, LoaderFresh

\* A loop loads, or finds nothing newer; the version it takes is one it has read
\* before the data.
LEMMA LoadVersioned ==
  ASSUME Versioned, NEW l \in Loops, CheckVersion(l) \/ CheckLoad(l)
  PROVE  Versioned'
<1>1. /\ version \in Nat /\ lv \in [Loops -> Nat] /\ loaded \in [Loops -> Nat] /\ DOMAIN seen = Loops
      /\ \A k \in Loops : lv[k] <= version /\ loaded[k] <= version
      /\ \A k \in Loops : loaded[k] = version => seen[k] = data
  BY DEF Versioned, LoaderFresh
<1>2. UNCHANGED <<version, data>>
  BY DEF CheckVersion, CheckLoad, srcVars
<1>3. CASE CheckVersion(l)
  <2>1. UNCHANGED <<loaded, seen>> /\ lv' \in {lv, [lv EXCEPT ![l] = version]}
    BY <1>3 DEF CheckVersion
  <2>2. lv' \in [Loops -> Nat] /\ \A k \in Loops : lv'[k] <= version
    BY <1>1, <2>1
  <2> QED
    BY <1>1, <1>2, <2>1, <2>2 DEF Versioned, LoaderFresh
<1>4. CASE CheckLoad(l)
  <2>1. /\ seen' = [seen EXCEPT ![l] = data] /\ loaded' = [loaded EXCEPT ![l] = lv[l]]
        /\ lv' = [lv EXCEPT ![l] = 0]
    BY <1>4 DEF CheckLoad
  <2>2. lv' \in [Loops -> Nat] /\ loaded' \in [Loops -> Nat] /\ DOMAIN seen' = Loops
    BY <1>1, <2>1
  <2>3. \A k \in Loops : /\ lv'[k] <= version /\ loaded'[k] <= version
                         /\ loaded'[k] = version => seen'[k] = data
    BY <1>1, <2>1
  <2> QED
    BY <1>1, <1>2, <2>2, <2>3 DEF Versioned, LoaderFresh
<1> QED
  BY <1>3, <1>4

\* A step that leaves the data alone leaves the loaders as good as they were.
LEMMA SameVersioned ==
  ASSUME Versioned, UNCHANGED <<srcVars, loadVars>>
  PROVE  Versioned'
  BY DEF Versioned, LoaderFresh, srcVars, loadVars

\* The requests and events of the watch: whatever ends without a watch of the
\* children has missed the list.
LEMMA WatchNext ==
  ASSUME Watched, HandleEvent \/ ChildrenComplete \/ ExistsComplete \/ SessionExpired
  PROVE  Watched'
<1>1. wpc = "idle" /\ UNCHANGED <<zk, dir, data, writer>>
  BY DEF HandleEvent, ChildrenComplete, ExistsComplete, SessionExpired, srcVars
<1>2. CASE HandleEvent
  <2>1. /\ watch' \in {"requested", "none", "checking"} /\ (watch' # "requested" => missed')
        /\ UNCHANGED wpc
    BY <1>2 DEF HandleEvent, CheckExists
  <2> QED
    BY <1>1, <2>1 DEF Watched
<1>3. CASE ChildrenComplete
  <2>1. \/ watch' = "armed" /\ wlist' = zk /\ wpc' = "data"
        \/ watch' \in {"none", "checking"} /\ missed' /\ UNCHANGED wpc
    BY <1>3 DEF ChildrenComplete, CheckExists
  <2> QED
    BY <1>1, <2>1 DEF Watched
<1>4. CASE ExistsComplete
  <2>1. watch = "checking" /\ watch' \in {"none", "exist"} /\ UNCHANGED <<missed, wpc>>
    BY <1>4 DEF ExistsComplete
  <2> QED
    BY <1>1, <2>1 DEF Watched
<1>5. CASE SessionExpired
  <2>1. (watch' = "requested" \/ (watch' = "closed" /\ missed')) /\ UNCHANGED wpc
    BY <1>5 DEF SessionExpired
  <2> QED
    BY <1>1, <2>1 DEF Watched
<1> QED
  BY <1>2, <1>3, <1>4, <1>5

\* ZooKeeper's callback thread, the main thread and ZooKeeper.
LEMMA ListNext ==
  ASSUME Inv, ZkChange \/ SessionExpired \/ Watcher \/ Main
  PROVE  Versioned' /\ Watched'
<1>0. /\ Versioned /\ Watched /\ zk \subseteq Servers /\ data \subseteq Accepting
      /\ wpc \in {"idle", "data", "notify"}
  BY DEF Inv, Watched
<1>1. CASE ZkChange
  <2>1. /\ zk' \subseteq Servers /\ (zk' # {} => dir') /\ UNCHANGED <<data, wpc, missed, writer>>
        /\ \/ watch \in {"armed", "exist"} /\ watch' \in {"fired", "deleted", "created"}
              /\ (watch = "armed" => watch' # "created")
           \/ watch \notin {"armed"} /\ watch' = watch
    BY <1>0, <1>1 DEF ZkChange, srcVars, Watched
  <2>2. Versioned'
    BY <1>0, <1>1, SameVersioned DEF ZkChange
  <2> QED
    BY <1>0, <2>1, <2>2 DEF Watched
<1>2. CASE HandleEvent \/ ChildrenComplete \/ ExistsComplete \/ SessionExpired
  <2>1. UNCHANGED <<srcVars, loadVars>>
    BY <1>2 DEF HandleEvent, ChildrenComplete, ExistsComplete, SessionExpired
  <2> QED
    BY <1>0, <1>2, <2>1, SameVersioned, WatchNext
<1>3. CASE OnChildrenChange
  <2>1. wpc = "data" /\ UNCHANGED <<zk, dir, watch, loadVars>>
    BY <1>3 DEF OnChildrenChange
  <2>2. CASE SetData("zk", wlist) /\ wpc' = "notify"
    <3>1. Versioned' /\ data' = wlist \cap Accepting
      BY <1>0, <2>1, <2>2, SetDataFacts
    <3> QED
      BY <1>0, <2>1, <2>2, <3>1 DEF Watched
  <2>3. CASE wpc' = "idle" /\ missed' = TRUE /\ UNCHANGED <<srcVars, notify>>
    <3>1. Versioned'
      BY <1>0, <2>1, <2>3, SameVersioned
    <3> QED
      BY <1>0, <2>1, <2>3, <3>1 DEF Watched, srcVars
  <2> QED
    BY <1>3, <2>2, <2>3 DEF OnChildrenChange
<1>4. CASE MainSet
  <2>1. SetData("main", mlist) /\ UNCHANGED <<zkVars, loadVars>>
    BY <1>4 DEF MainSet
  <2>2. Versioned' /\ data' = mlist \cap Accepting /\ writer' = "main"
    BY <1>0, <2>1, SetDataFacts
  <2> QED
    BY <1>0, <2>1, <2>2 DEF Watched, zkVars
<1>5. CASE MainRead \/ MainFail
  <2>1. UNCHANGED <<zk, dir, watch, wlist, wpc, missed, srcVars, loadVars>>
    BY <1>5 DEF MainRead, MainFail, zkVars
  <2> QED
    BY <1>0, <2>1, SameVersioned DEF Watched, srcVars
<1>6. CASE Notify("zk") \/ Notify("main")
  <2>1. /\ UNCHANGED <<zk, dir, watch, wlist, missed, srcVars, loadVars>>
        /\ wpc' = wpc \/ (wpc = "notify" /\ wpc' = "idle")
    BY <1>6 DEF Notify
  <2> QED
    BY <1>0, <2>1, SameVersioned DEF Watched, srcVars
<1> QED
  BY <1>1, <1>2, <1>3, <1>4, <1>5, <1>6 DEF Watcher, Main

-----------------------------------------------------------------------------
(* Theorems *)

\* Every step of the threads, the loops and the network keeps the invariant.
LEMMA NextInv == Inv /\ [Next]_vars => Inv'
<1> SUFFICES ASSUME Inv, [Next]_vars PROVE Inv'
  OBVIOUS
<1>0. ConsSound /\ EntriesSound /\ Listed /\ Versioned /\ Watched /\ data \subseteq Accepting
  BY DEF Inv, Watched
<1>1. ASSUME UNCHANGED <<zkVars, srcVars>> PROVE Watched'
  BY <1>0, <1>1 DEF Watched, zkVars, srcVars
<1>2. ASSUME UNCHANGED <<srcVars, loadVars>> PROVE Versioned'
  BY <1>0, <1>2, SameVersioned
<1>3. CASE ZkChange \/ SessionExpired \/ Watcher \/ Main
  <2>1. UNCHANGED <<con, svcons>>
    BY <1>3 DEF ZkChange, SessionExpired, Watcher, Main, HandleEvent, ChildrenComplete,
                ExistsComplete, OnChildrenChange, Notify, MainRead, MainFail, MainSet
  <2> QED
    BY <1>0, <1>3, <2>1, SameCons, ListNext DEF Inv
<1>4. ASSUME NEW l \in Loops, OtherNotify(l) \/ CheckVersion(l) \/ CheckLoad(l) \/ ProcessAdd(l)
      PROVE  Inv'
  <2>1. UNCHANGED <<zkVars, srcVars>>
    BY <1>4 DEF OtherNotify, CheckVersion, CheckLoad, ProcessAdd
  <2>2. Versioned'
    <3>1. CASE OtherNotify(l) \/ ProcessAdd(l)
      BY <1>2, <3>1 DEF OtherNotify, ProcessAdd
    <3>2. CASE CheckVersion(l) \/ CheckLoad(l)
      BY <1>0, <3>2, LoadVersioned
    <3> QED
      BY <1>4, <3>1, <3>2
  <2>3. ConsSound' /\ EntriesSound' /\ Listed'
    <3>1. CASE OtherNotify(l) \/ CheckVersion(l)
      BY <1>0, <3>1, SameCons DEF OtherNotify, CheckVersion
    <3>2. CASE CheckLoad(l)
      BY <1>0, <3>2, ConnectCons
    <3>3. CASE ProcessAdd(l)
      BY <1>0, <3>3, ProcessAddCons
    <3> QED
      BY <1>4, <3>1, <3>2, <3>3
  <2> QED
    BY <1>1, <2>1, <2>2, <2>3 DEF Inv
<1>5. ASSUME NEW c \in SvConns, HandleConnected(c) \/ RegisterResponse(c) \/ OnFail(c) \/ Network(c)
      PROVE  Inv'
  <2>1. UNCHANGED <<zkVars, srcVars, loadVars>>
    BY <1>5 DEF HandleConnected, RegisterResponse, OnFail, Network
  <2>2. CASE HandleConnected(c)
    BY <1>0, <1>1, <1>2, <2>1, <2>2, ConnectedCons DEF Inv
  <2>3. CASE RegisterResponse(c)
    <3>1. con[c].place = "live" /\ con[c].status = "CONNECTED"
      BY <2>3 DEF RegisterResponse, Handles
    <3>2. CASE Disconnect(c, "live")
      BY <1>0, <1>1, <1>2, <2>1, <3>1, <3>2, DisconnectCons DEF Inv
    <3>3. CASE ~Disconnect(c, "live")
      BY <1>0, <1>1, <1>2, <2>1, <2>3, <3>1, <3>3, RegisterCons DEF Inv, RegisterResponse
    <3> QED
      BY <3>2, <3>3
  <2>4. CASE OnFail(c)
    <3>1. con[c].status # "INIT" /\ Disconnect(c, "gone")
      BY <2>4 DEF OnFail
    <3> QED
      BY <1>0, <1>1, <1>2, <2>1, <3>1, DisconnectCons DEF Inv
  <2>5. CASE Network(c)
    BY <1>0, <1>1, <1>2, <2>1, <2>5, NetworkCons DEF Inv
  <2> QED
    BY <1>5, <2>2, <2>3, <2>4, <2>5
<1>6. CASE UNCHANGED vars
  BY <1>0, <1>1, <1>2, <1>6, SameCons DEF vars, Inv
<1> QED
  BY <1>3, <1>4, <1>5, <1>6 DEF Next, Loop

\* The inductive invariant of the list, its loaders and the SvCons.
THEOREM Invariance == Spec => []Inv
  BY InitInv, NextInv, PTL DEF Spec

\* The shapes of the state.
THEOREM TypeCorrect == Spec => []TypeOK
<1>1. Inv => TypeOK
  BY DEF Inv, ConsSound, EntriesSound, Versioned, Watched, Con, TypeOK
<1> QED
  BY <1>1, Invariance, PTL

\* What pushes find in m_svcons can be used.
THEOREM Sound == Spec => []ListSound
<1>1. Inv => ListSound
  BY DEF Inv, EntriesSound, Established, ListSound
<1> QED
  BY <1>1, Invariance, PTL

\* A registered connection is missing only because of another to the same server.
THEOREM LostByDuplicate == Spec => []LostOnlyByDuplicate
<1>1. Inv => LostOnlyByDuplicate
  BY DEF Inv, Listed, Established, HasDouble, LostOnlyByDuplicate
<1> QED
  BY <1>1, Invariance, PTL

\* No loader has the current version without the current data.
THEOREM Fresh == Spec => []LoaderFresh
<1>1. Inv => LoaderFresh
  BY DEF Inv, Versioned
<1> QED
  BY <1>1, Invariance, PTL

\* The list is ZooKeeper's when the callback thread is quiet, unless its last
\* attempt to read it failed or init has set an older one.
THEOREM Current == Spec => []ListCurrent
<1>1. Inv => ListCurrent
  BY DEF Inv, Watched, Quiet, ListCurrent
<1> QED
  BY <1>1, Invariance, PTL
=============================================================================

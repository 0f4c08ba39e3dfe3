-------------------------- MODULE SessCacheProofs --------------------------
(***************************************************************************)
(* Proofs about SessCache, for any caches, nodes and times.  The age of an *)
(* entry, the time since the node last got a session with its expiry, and  *)
(* the time since the writer's own time(NULL) bound one another.           *)
(***************************************************************************)
EXTENDS SessCache, TLAPS

Entries == [age : 0 .. Cap, ttl : {-1} \cup 1 .. Expire] \cup {NoEntry}

\* A value for each node of each cache.
IsTable(f) == f = [k \in Caches |-> [n \in Nodes[k] |-> f[k][n]]]

Put(f, k, n, v) == [f EXCEPT ![k][n] = v]

Config == {f \in [Processes -> [Caches -> Nat]] :
              \A p \in Processes, k \in Caches : f[p][k] \in Nodes[k] \cup {0}}

\* An entry e of a node that had a session with its expiry t ago.
Kept(e, t) ==
  /\ e \in Entries /\ t \in -1 .. Expire
  /\ t \in 0 .. Expire - 1 => e # NoEntry /\ e.age <= t /\ (e.ttl = -1 \/ e.ttl >= Expire - t)
  /\ t = -1 => e.age < Expire

\* The writer's time(NULL) is later than what it wrote with the one before, and the
\* end of the session is later than all it wrote.
Lagged(e, t, op, lag) ==
  /\ t \in 0 .. Expire - 1 /\ op # "out" => lag <= t
  /\ op = "out" => e = NoEntry \/ e.age >= lag

\* All nodes, with the entries f and the times g.
Cells(f, g, op, lag) ==
  /\ IsTable(f) /\ IsTable(g)
  /\ \A k \in Caches : \A n \in Nodes[k] :
       Kept(f[k][n], g[k][n]) /\ Lagged(f[k][n], g[k][n], op, lag)

\* The writer and the reader.
Control ==
  /\ cfg \in Config /\ db \in Config
  /\ wop \in {"idle", "set", "del", "out"} /\ wpc \in {"handle", "cmd", "expire"}
  /\ wat \in Caches /\ wlag \in Nat /\ fresh \in BOOLEAN
  /\ rpc \in {"idle", "handle", "read", "reap"} /\ rat \in Caches /\ rlag \in 0 .. MaxLag
  /\ wpc = "cmd" => wop \in {"set", "del"}
  /\ wpc = "expire" => wop = "set"
  /\ wpc # "handle" => db["writer"][wat] \in Nodes[wat] /\ wlag <= MaxLag
  /\ wpc = "handle" /\ wop # "out" => wlag = 0
  /\ wop = "idle" => wat = 1
  /\ rpc \in {"read", "reap"} => db["reader"][rat] \in Nodes[rat]

\* What was written in this cache is as old as its time(NULL), unless it is gone.
FreshIsNew ==
  wpc = "expire" /\ fresh =>
    LET e == entry[wat][db["writer"][wat]] IN e = NoEntry \/ e.age = wlag

\* A reader deletes where the session has been too long away.
ReapsOld == rpc = "reap" => timely[rat][db["reader"][rat]] = Expire

\* delSession has gone through the caches before k.
Gone(k) == wop = "out" \/ (wop = "del" /\ k < wat)

DeletedSoFar ==
  \A k \in Caches : \A n \in Nodes[k] :
    Gone(k) => entry[k][n] = NoEntry \/ k \in missed \/ n # db["writer"][k]

Inv ==
  /\ Cells(entry, timely, wop, wlag)
  /\ Control
  /\ FreshIsNew
  /\ ReapsOld
  /\ DeletedSoFar

-----------------------------------------------------------------------------
(* The constants, tables and entries *)

\* The constants and the bounds made of them.
LEMMA ConstantFacts ==
  /\ Size \in Nat /\ Size >= 1 /\ 1 \in Caches
  /\ \A k \in Caches : k \in Nat /\ k >= 1 /\ k <= Size /\ (k < Size => k + 1 \in Caches)
  /\ \A k \in Caches : \A n \in Nodes[k] : n \in Nat /\ n # 0
  /\ Expire \in Nat /\ Expire >= 1 /\ MaxLag \in Nat /\ MaxLag < Expire
  /\ Cap \in Nat /\ Cap = Expire + MaxLag + 1
  BY SessCacheAssumption DEF SessCacheAssumption, Caches, Cap

\* One command on one node.
LEMMA PutFacts ==
  ASSUME NEW f, IsTable(f), NEW k \in Caches, NEW n \in Nodes[k], NEW v,
         NEW g, g = Put(f, k, n, v)
  PROVE  /\ IsTable(g) /\ g[k][n] = v
         /\ \A j \in Caches : \A m \in Nodes[j] : j # k \/ m # n => g[j][m] = f[j][m]
<1>1. f = [j \in Caches |-> [m \in Nodes[j] |-> f[j][m]]]
  BY DEF IsTable
<1>2. \A j \in Caches : f[j] = [m \in Nodes[j] |-> f[j][m]]
  BY <1>1
<1>3. g = [j \in Caches |-> IF j = k THEN [f[k] EXCEPT ![n] = v] ELSE f[j]]
  BY <1>1 DEF Put
<1>4. [f[k] EXCEPT ![n] = v] = [m \in Nodes[k] |-> IF m = n THEN v ELSE f[k][m]]
  BY <1>2
<1>5. g = [j \in Caches |-> [m \in Nodes[j] |-> IF j = k /\ m = n THEN v ELSE f[j][m]]]
  <2>1. ASSUME NEW j \in Caches
        PROVE  (IF j = k THEN [f[k] EXCEPT ![n] = v] ELSE f[j])
                 = [m \in Nodes[j] |-> IF j = k /\ m = n THEN v ELSE f[j][m]]
    BY <1>2, <1>4
  <2> QED
    BY <1>3, <2>1
<1>6. \A j \in Caches : \A m \in Nodes[j] : g[j][m] = IF j = k /\ m = n THEN v ELSE f[j][m]
  BY <1>5
<1>7. IsTable(g)
  BY <1>5, <1>6 DEF IsTable
<1> QED
  BY <1>6, <1>7

\* getHandle gives a cache a node of it or leaves it without one; the other caches
\* and the other process keep theirs.
LEMMA HandleFacts ==
  ASSUME Control, NEW p \in Processes, NEW k \in Caches,
         db' = [db EXCEPT ![p][k] = GetHandle(p, k)]
  PROVE  /\ db' \in Config
         /\ \A q \in Processes, j \in Caches : q # p \/ j # k => db'[q][j] = db[q][j]
<1>1. db \in [Processes -> [Caches -> Nat]] /\ \A q \in Processes, j \in Caches : db[q][j] \in Nodes[j] \cup {0}
  BY DEF Control, Config
<1>2. GetHandle(p, k) \in Nodes[k] \cup {0} /\ GetHandle(p, k) \in Nat
  BY <1>1, ConstantFacts DEF Control, Config, GetHandle
<1>3. db' \in [Processes -> [Caches -> Nat]]
  BY <1>1, <1>2
<1>4. \A q \in Processes, j \in Caches : db'[q][j] = IF q = p /\ j = k THEN GetHandle(p, k) ELSE db[q][j]
  BY <1>1
<1>5. db' \in Config
  BY <1>1, <1>2, <1>3, <1>4 DEF Config
<1> QED
  BY <1>4, <1>5

\* An entry has an age and a time to live.
LEMMA EntryFacts ==
  /\ NoEntry \in Entries /\ NoEntry.age = -1 /\ NoEntry.ttl = -1
  /\ \A e \in Entries : e # NoEntry => /\ e.age \in 0 .. Cap /\ e.ttl \in {-1} \cup 1 .. Expire
                                       /\ e.age \in Int /\ e.ttl \in Int
  /\ \A a \in 0 .. Cap, t \in {-1} \cup 1 .. Expire :
       [age |-> a, ttl |-> t] \in Entries /\ [age |-> a, ttl |-> t] # NoEntry
  BY DEF NoEntry, Entries

\* What hashSet writes.
LEMMA StampedFacts ==
  ASSUME NEW e, NEW t, Kept(e, t), wlag \in 0 .. MaxLag, t \in 0 .. Expire - 1 => wlag <= t
  PROVE  Kept(Stamped(e), t) /\ Stamped(e) # NoEntry /\ Stamped(e).age = wlag
<1>1. e \in Entries /\ t \in -1 .. Expire
  BY DEF Kept
<1>2. Stamped(e) = [age |-> wlag, ttl |-> e.ttl] /\ e.ttl \in {-1} \cup 1 .. Expire
  BY <1>1 DEF Stamped, Entries, NoEntry
<1>3. wlag \in 0 .. Cap /\ wlag < Expire
  BY ConstantFacts
<1>4. Stamped(e) \in Entries /\ Stamped(e) # NoEntry /\ Stamped(e).age = wlag /\ Stamped(e).ttl = e.ttl
  BY <1>2, <1>3, EntryFacts
<1> QED
  BY <1>1, <1>3, <1>4 DEF Kept

\* A key with its expiry set again.
LEMMA ExpireFacts ==
  ASSUME NEW e, NEW t, Kept(e, t), e # NoEntry, NEW f, f = [e EXCEPT !.ttl = Expire]
  PROVE  /\ Kept(f, t) /\ f # NoEntry /\ f.age = e.age
         /\ \A l \in 0 .. MaxLag : e.age = l => Kept(f, l)
<1>1. e \in Entries /\ t \in -1 .. Expire
  BY DEF Kept
<1>2. f = [age |-> e.age, ttl |-> Expire] /\ e.age \in 0 .. Cap
  BY <1>1, EntryFacts DEF Entries
<1>3. Expire \in {-1} \cup 1 .. Expire
  BY ConstantFacts
<1>4. f \in Entries /\ f # NoEntry /\ f.age = e.age /\ f.ttl = Expire
  BY <1>2, <1>3, EntryFacts
<1> QED
  BY <1>1, <1>2, <1>4, ConstantFacts DEF Kept

\* A node where the session may be missing.
LEMMA NoEntryFacts ==
  /\ Kept(NoEntry, -1) /\ Kept(NoEntry, Expire)
  BY EntryFacts, ConstantFacts DEF Kept

\* A second passes on one node.
LEMMA AgedFacts ==
  ASSUME NEW e, NEW t, Kept(e, t), NEW u,
         u = IF t = -1 /\ e.age + 1 >= Expire THEN Expire ELSE Older(t, Expire)
  PROVE  /\ Kept(Aged(e), u)
         /\ t \in 0 .. Expire => u = Expire \/ (t < Expire /\ u = t + 1)
         /\ t = -1 => u \in {-1, Expire}
         /\ t = Expire => u = Expire
         /\ e = NoEntry => Aged(e) = NoEntry
         /\ Aged(e) = NoEntry \/ Aged(e).age = Older(e.age, Cap)
<1>1. e \in Entries /\ t \in -1 .. Expire /\ Expire \in Nat /\ Expire >= 1 /\ Cap \in Nat
  BY ConstantFacts DEF Kept
<1>2. /\ t \in 0 .. Expire => u = Expire \/ (t < Expire /\ u = t + 1)
      /\ t = -1 => u \in {-1, Expire}
      /\ t = Expire => u = Expire
      /\ u \in -1 .. Expire
  BY <1>1 DEF Older
<1>3. CASE e = NoEntry
  <2>1. Aged(e) = NoEntry
    BY <1>3 DEF Aged, NoEntry, Older
  <2>2. t \in {-1, Expire}
    BY <1>1, <1>3 DEF Kept
  <2>3. u \in {-1, Expire}
    BY <1>2, <2>2
  <2> QED
    BY <1>2, <2>1, <2>3, NoEntryFacts
<1>4. CASE e # NoEntry
  <2>1. e.age \in 0 .. Cap /\ e.ttl \in {-1} \cup 1 .. Expire
    BY <1>1, <1>4, EntryFacts
  <2>2. CASE e.ttl = 1
    <3>1. Aged(e) = NoEntry
      BY <2>2 DEF Aged
    <3>2. t \in 0 .. Expire - 1 => t = Expire - 1
      BY <1>1, <2>1, <2>2 DEF Kept
    <3>3. u \in {-1, Expire}
      BY <1>1, <1>2, <3>2
    <3> QED
      BY <1>2, <1>4, <3>1, <3>3, NoEntryFacts
  <2>3. CASE e.ttl # 1
    <3> DEFINE a == Older(e.age, Cap)
               l == IF e.ttl > 1 THEN e.ttl - 1 ELSE e.ttl
    <3>1. Aged(e) = [age |-> a, ttl |-> l]
      BY <2>3 DEF Aged
    <3>2. /\ a \in 0 .. Cap /\ l \in {-1} \cup 1 .. Expire
          /\ a <= e.age + 1 /\ (l = -1 \/ l = e.ttl - 1)
      BY <1>1, <2>1, <2>3 DEF Older
    <3> HIDE DEF a, l
    <3>3. Aged(e) \in Entries /\ Aged(e) # NoEntry /\ Aged(e).age = a /\ Aged(e).ttl = l
      BY <3>1, <3>2, EntryFacts
    <3>4. u \in 0 .. Expire - 1 => Aged(e).age <= u /\ (l = -1 \/ l >= Expire - u)
      <4> SUFFICES ASSUME u \in 0 .. Expire - 1 PROVE a <= u /\ (l = -1 \/ l >= Expire - u)
        BY <3>3
      <4>1. t \in 0 .. Expire - 1 /\ u = t + 1
        BY <1>1, <1>2
      <4>2. e.age <= t /\ (e.ttl = -1 \/ e.ttl >= Expire - t)
        BY <4>1 DEF Kept
      <4>3. a <= u
        BY <1>1, <2>1, <3>2, <4>1, <4>2
      <4>4. l = -1 \/ (l = e.ttl - 1 /\ e.ttl # -1)
        BY <3>2, <2>1 DEF l
      <4>6. l = -1 \/ l >= Expire - u
        BY <1>1, <2>1, <4>1, <4>2, <4>4
      <4> QED
        BY <4>3, <4>6
    <3>5. u = -1 => Aged(e).age < Expire
      <4> SUFFICES ASSUME u = -1 PROVE a < Expire
        BY <3>3
      <4>1. t = -1 /\ e.age + 1 < Expire
        BY <1>1, <1>2, <2>1
      <4> QED
        BY <1>1, <2>1, <3>2, <4>1
    <3>6. Kept(Aged(e), u)
      BY <1>2, <3>3, <3>4, <3>5 DEF Kept
    <3>7. Aged(e).age = Older(e.age, Cap)
      BY <3>3 DEF a
    <3> QED
      BY <1>2, <1>4, <3>6, <3>7
  <2> QED
    BY <2>2, <2>3
<1> QED
  BY <1>3, <1>4

-----------------------------------------------------------------------------
(* Steps *)

\* A new time(NULL), or the end of the session: nothing was written after it.
LEMMA LagZero ==
  ASSUME NEW f, NEW g, NEW op, NEW lag, Cells(f, g, op, lag), NEW o
  PROVE  Cells(f, g, o, 0)
<1>1. ASSUME NEW e, NEW t, Kept(e, t) PROVE Lagged(e, t, o, 0)
  <2>1. e \in Entries
    BY <1>1 DEF Kept
  <2>2. e = NoEntry \/ e.age \in 0 .. Cap
    BY <2>1, EntryFacts
  <2> QED
    BY <1>1, <2>2, ConstantFacts DEF Lagged
<1> QED
  BY <1>1 DEF Cells

\* No session is set, and nobody is at work, when the processes start.
LEMMA InitInv == Init => Inv
<1> SUFFICES ASSUME Init PROVE Inv
  OBVIOUS
<1>1. \A k \in Caches : \A n \in Nodes[k] : entry[k][n] = NoEntry /\ timely[k][n] = -1
  BY DEF Init
<1>2. IsTable(entry) /\ IsTable(timely)
  BY <1>1 DEF Init, IsTable
<1>3. Cells(entry, timely, wop, wlag)
  BY <1>1, <1>2, NoEntryFacts, ConstantFacts DEF Init, Cells, Lagged
<1>4. cfg \in Config /\ db = cfg
  <2>1. cfg \in Starts /\ db = cfg
    BY DEF Init
  <2>2. cfg \in [Processes -> [Caches -> Nat]]
    BY <2>1, SessCacheAssumption DEF SessCacheAssumption
  <2>3. \A p \in Processes, k \in Caches : cfg[p][k] \in Nodes[k] \cup {0}
    BY <2>1, SessCacheAssumption DEF SessCacheAssumption
  <2> QED
    BY <2>1, <2>2, <2>3 DEF Config
<1>6. Control
  <2>1. /\ wop = "idle" /\ wpc = "handle" /\ wat = 1 /\ wlag = 0 /\ fresh = FALSE
        /\ rpc = "idle" /\ rat = 1 /\ rlag = 0
    BY DEF Init
  <2>2. 0 \in 0 .. MaxLag /\ 1 \in Caches
    BY ConstantFacts
  <2> QED
    BY <1>4, <2>1, <2>2 DEF Control
<1>5. FreshIsNew /\ ReapsOld /\ DeletedSoFar
  BY DEF Init, FreshIsNew, ReapsOld, DeletedSoFar, Gone
<1> QED
  BY <1>3, <1>5, <1>6 DEF Inv

\* SessCacheGrp goes on.
LEMMA WriterNextFacts ==
  ASSUME Control, wop \in {"set", "del"}, WriterNext
  PROVE  /\ wpc' = "handle" /\ wlag' = 0 /\ fresh' = FALSE /\ wat' \in Caches
         /\ wop' \in {"idle", "set", "del", "out"} /\ (wop' = "idle" => wat' = 1)
         /\ \A k \in Caches : Gone(k)' => wop = "del" /\ (k < wat \/ k = wat)
<1>1. wat \in Caches /\ wat \in Nat
  BY ConstantFacts DEF Control
<1>2. CASE wat < Size
  <2>1. wat' = wat + 1 /\ wop' = wop /\ wat' \in Caches
    BY <1>1, <1>2, ConstantFacts DEF WriterNext
  <2>2. \A k \in Caches : Gone(k)' => wop = "del" /\ (k < wat \/ k = wat)
    BY <1>1, <2>1, ConstantFacts DEF Gone
  <2> QED
    BY <2>1, <2>2 DEF WriterNext
<1>3. CASE ~(wat < Size)
  <2>1. wat' = 1 /\ wop' = (IF wop = "del" THEN "out" ELSE "idle") /\ wat = Size
    BY <1>1, <1>3, ConstantFacts DEF WriterNext, Control
  <2>2. \A k \in Caches : Gone(k)' => wop = "del" /\ (k < wat \/ k = wat)
    BY <1>1, <2>1, ConstantFacts DEF Gone
  <2> QED
    BY <2>1, <2>2, ConstantFacts DEF WriterNext
<1> QED
  BY <1>2, <1>3

\* setSession and delSession start.
LEMMA StartInv ==
  ASSUME Inv, SetSession \/ DelSession
  PROVE  Inv'
<1>1. wop = "idle" /\ wop' \in {"set", "del"} /\ wat = 1 /\ wpc = "handle" /\ wlag = 0
  BY DEF Inv, Control, SetSession, DelSession
<1>2. UNCHANGED <<entry, timely, cfg, db, moves, wpc, wat, wlag, fresh, missed, rpc, rat, rlag, got>>
  BY DEF SetSession, DelSession, readerVars
<1>3. Cells(entry', timely', wop', wlag')
  BY <1>1, <1>2, LagZero DEF Inv
<1>4. Control'
  BY <1>1, <1>2 DEF Inv, Control
<1>5. FreshIsNew' /\ ReapsOld'
  BY <1>1, <1>2 DEF Inv, FreshIsNew, ReapsOld
<1>6. DeletedSoFar'
  BY <1>1, <1>2, ConstantFacts DEF DeletedSoFar, Gone
<1> QED
  BY <1>3, <1>4, <1>5, <1>6 DEF Inv

\* The handle of the writer's next cache.
LEMMA WriterHandleInv ==
  ASSUME Inv, WriterHandle
  PROVE  Inv'
<1>1. /\ wop \in {"set", "del"} /\ wpc = "handle" /\ wlag = 0 /\ wat \in Caches
      /\ UNCHANGED <<entry, cfg, moves, timely, rpc, rat, rlag, got>>
  BY DEF Inv, Control, WriterHandle, readerVars
<1>2. /\ db' \in Config
      /\ \A q \in Processes, j \in Caches : q # "writer" \/ j # wat => db'[q][j] = db[q][j]
  BY <1>1, HandleFacts DEF Inv, WriterHandle, Processes
<1>3. wlag' = 0
  BY <1>1, WriterNextFacts DEF Inv, WriterHandle
<1>4. Cells(entry', timely', wop', wlag')
  BY <1>1, <1>3, LagZero DEF Inv
<1>5. rat \in Caches /\ db'["reader"][rat] = db["reader"][rat]
  BY <1>2 DEF Inv, Control, Processes
<1>6. ReapsOld'
  BY <1>1, <1>5 DEF Inv, ReapsOld
<1>7. CASE WriterNext /\ missed' = (IF wop = "del" THEN missed \cup {wat} ELSE missed)
  <2>1. /\ wpc' = "handle" /\ fresh' = FALSE /\ wat' \in Caches
        /\ wop' \in {"idle", "set", "del", "out"} /\ (wop' = "idle" => wat' = 1)
        /\ \A k \in Caches : Gone(k)' => wop = "del" /\ (k < wat \/ k = wat)
    BY <1>1, <1>7, WriterNextFacts DEF Inv
  <2>2. Control'
    BY <1>1, <1>2, <1>3, <1>5, <2>1 DEF Inv, Control
  <2>3. FreshIsNew'
    BY <2>1 DEF FreshIsNew
  <2>4. DeletedSoFar'
    <3> SUFFICES ASSUME NEW k \in Caches, NEW n \in Nodes[k], Gone(k)'
                 PROVE  entry[k][n] = NoEntry \/ k \in missed' \/ n # db'["writer"][k]
      BY <1>1 DEF DeletedSoFar
    <3>1. CASE k = wat
      BY <1>7, <2>1, <3>1
    <3>2. CASE k # wat
      <4>1. Gone(k) /\ db'["writer"][k] = db["writer"][k] /\ missed \subseteq missed'
        BY <1>2, <1>7, <2>1, <3>2 DEF Gone, Processes
      <4> QED
        BY <4>1 DEF Inv, DeletedSoFar
    <3> QED
      BY <3>1, <3>2
  <2> QED
    BY <1>4, <1>6, <2>2, <2>3, <2>4 DEF Inv
<1>8. CASE db'["writer"][wat] # 0 /\ wpc' = "cmd" /\ UNCHANGED <<wop, wat, wlag, fresh, missed>>
  <2>1. db'["writer"][wat] \in Nodes[wat]
    BY <1>1, <1>2, <1>8 DEF Config, Processes
  <2>2. Control'
    BY <1>1, <1>2, <1>5, <1>8, <2>1, ConstantFacts DEF Inv, Control
  <2>3. FreshIsNew'
    BY <1>8 DEF FreshIsNew
  <2>4. DeletedSoFar'
    <3> SUFFICES ASSUME NEW k \in Caches, NEW n \in Nodes[k], Gone(k)'
                 PROVE  entry[k][n] = NoEntry \/ k \in missed \/ n # db'["writer"][k]
      BY <1>1, <1>8 DEF DeletedSoFar
    <3>1. Gone(k) /\ k # wat
      BY <1>1, <1>8, ConstantFacts DEF Gone
    <3>2. db'["writer"][k] = db["writer"][k]
      BY <1>2, <3>1 DEF Processes
    <3> QED
      BY <3>1, <3>2 DEF Inv, DeletedSoFar
  <2> QED
    BY <1>4, <1>6, <2>2, <2>3, <2>4 DEF Inv
<1> QED
  BY <1>7, <1>8 DEF WriterHandle

\* A command of the writer changes the entry of one node to e, and the time of that
\* node to t.
LEMMA PutCells ==
  ASSUME Inv, NEW k \in Caches, NEW n \in Nodes[k], NEW e, NEW t, Kept(e, t),
         NEW op, NEW lag, Lagged(e, t, op, lag), Cells(entry, timely, op, lag),
         NEW f, NEW g, f = Put(entry, k, n, e), g = Put(timely, k, n, t)
  PROVE  /\ Cells(f, g, op, lag)
         /\ f[k][n] = e /\ g[k][n] = t
         /\ \A j \in Caches : \A m \in Nodes[j] :
              j # k \/ m # n => f[j][m] = entry[j][m] /\ g[j][m] = timely[j][m]
<1>1. IsTable(entry) /\ IsTable(timely)
  BY DEF Cells
<1>2. /\ IsTable(f) /\ f[k][n] = e
      /\ \A j \in Caches : \A m \in Nodes[j] : j # k \/ m # n => f[j][m] = entry[j][m]
  BY <1>1, PutFacts
<1>3. /\ IsTable(g) /\ g[k][n] = t
      /\ \A j \in Caches : \A m \in Nodes[j] : j # k \/ m # n => g[j][m] = timely[j][m]
  BY <1>1, PutFacts
<1>4. Cells(f, g, op, lag)
  <2> SUFFICES ASSUME NEW j \in Caches, NEW m \in Nodes[j]
               PROVE  Kept(f[j][m], g[j][m]) /\ Lagged(f[j][m], g[j][m], op, lag)
    BY <1>2, <1>3 DEF Cells
  <2>1. CASE j = k /\ m = n
    BY <1>2, <1>3, <2>1
  <2>2. CASE j # k \/ m # n
    <3>1. f[j][m] = entry[j][m] /\ g[j][m] = timely[j][m]
      BY <1>2, <1>3, <2>2
    <3> QED
      BY <3>1 DEF Cells
  <2> QED
    BY <2>1, <2>2
<1> QED
  BY <1>2, <1>3, <1>4

\* A command that changes nothing on its node.
LEMMA PutSame ==
  ASSUME NEW f, IsTable(f), NEW k \in Caches, NEW n \in Nodes[k]
  PROVE  f = Put(f, k, n, f[k][n])
<1>1. f = [j \in Caches |-> [m \in Nodes[j] |-> f[j][m]]]
  BY DEF IsTable
<1>2. f[k] = [m \in Nodes[k] |-> f[k][m]]
  BY <1>1
<1>3. [f[k] EXCEPT ![n] = f[k][n]] = f[k]
  BY <1>2
<1>4. [f EXCEPT ![k] = f[k]] = f
  BY <1>1
<1> QED
  BY <1>3, <1>4 DEF Put

\* hashSet writes, or does not.
LEMMA HashSetInv ==
  ASSUME Inv, HashSet
  PROVE  Inv'
<1> DEFINE n == db["writer"][wat]
           e == entry[wat][n]
           t == timely[wat][n]
<1>1. /\ wop = "set" /\ wpc = "cmd" /\ wpc' = "expire" /\ fresh' \in BOOLEAN
      /\ UNCHANGED <<cfg, db, moves, wop, wat, wlag, missed, rpc, rat, rlag, got, timely>>
  BY DEF HashSet, readerVars, ExeCmd
<1>2. wat \in Caches /\ n \in Nodes[wat] /\ wlag \in 0 .. MaxLag
  BY <1>1, ConstantFacts DEF Inv, Control
<1>3. Cells(entry, timely, wop, wlag) /\ Kept(e, t) /\ Lagged(e, t, wop, wlag)
  BY <1>2 DEF Inv, Cells
<1>4. Control'
  BY <1>1 DEF Inv, Control
<1>5. ReapsOld' /\ DeletedSoFar'
  BY <1>1 DEF Inv, ReapsOld, DeletedSoFar, Gone
<1>6. CASE fresh'
  <2>1. entry' = Put(entry, wat, n, Stamped(e))
    BY <1>6 DEF HashSet, Put
  <2>2. timely' = Put(timely, wat, n, t)
    BY <1>1, <1>2, <1>3, PutSame DEF Cells
  <2>3. Kept(Stamped(e), t) /\ Stamped(e) # NoEntry /\ Stamped(e).age = wlag
    BY <1>1, <1>2, <1>3, StampedFacts DEF Lagged
  <2>4. Lagged(Stamped(e), t, wop, wlag)
    BY <1>1, <1>3 DEF Lagged
  <2>5. Cells(entry', timely', wop, wlag) /\ entry'[wat][n] = Stamped(e)
    BY <1>2, <1>3, <2>1, <2>2, <2>3, <2>4, PutCells
  <2>6. FreshIsNew'
    BY <1>1, <2>3, <2>5 DEF FreshIsNew
  <2> QED
    BY <1>1, <1>4, <1>5, <2>5, <2>6 DEF Inv
<1>7. CASE ~fresh'
  <2>1. entry' = entry
    BY <1>7 DEF HashSet
  <2> QED
    BY <1>1, <1>3, <1>4, <1>5, <1>7, <2>1 DEF Inv, FreshIsNew
<1> QED
  BY <1>6, <1>7

\* keyExpire sets the expiry of the key, if it is there, or does not.
LEMMA KeyExpireInv ==
  ASSUME Inv, KeyExpire
  PROVE  Inv'
<1> DEFINE n == db["writer"][wat]
           e == entry[wat][n]
           t == timely[wat][n]
<1>1. /\ wop = "set" /\ wpc = "expire" /\ WriterNext
      /\ UNCHANGED <<cfg, db, moves, missed, rpc, rat, rlag, got>>
  BY DEF KeyExpire, readerVars
<1>2. wat \in Caches /\ n \in Nodes[wat] /\ wlag \in 0 .. MaxLag /\ fresh \in BOOLEAN
  BY <1>1, ConstantFacts DEF Inv, Control
<1>3. Cells(entry, timely, wop, wlag) /\ Kept(e, t) /\ Lagged(e, t, wop, wlag)
  BY <1>2 DEF Inv, Cells
<1>4. /\ wpc' = "handle" /\ wlag' = 0 /\ fresh' = FALSE /\ wat' \in Caches
      /\ wop' \in {"idle", "set", "del", "out"} /\ (wop' = "idle" => wat' = 1)
      /\ \A k \in Caches : ~Gone(k)'
  BY <1>1, WriterNextFacts DEF Inv
<1>5. Control' /\ FreshIsNew' /\ DeletedSoFar'
  BY <1>1, <1>4 DEF Inv, Control, FreshIsNew, DeletedSoFar
<1>6. CASE UNCHANGED <<entry, timely>>
  <2>1. Cells(entry', timely', wop', wlag')
    BY <1>3, <1>4, <1>6, LagZero
  <2>2. ReapsOld'
    BY <1>1, <1>6 DEF Inv, ReapsOld
  <2> QED
    BY <1>5, <2>1, <2>2 DEF Inv
<1>7. CASE /\ e # NoEntry
           /\ entry' = [entry EXCEPT ![wat][n].ttl = Expire]
           /\ timely' = [timely EXCEPT ![wat][n] = IF fresh /\ @ # Expire THEN wlag ELSE @]
  <2> DEFINE f == [e EXCEPT !.ttl = Expire]
             u == IF fresh /\ t # Expire THEN wlag ELSE t
  <2>1. entry' = Put(entry, wat, n, f) /\ timely' = Put(timely, wat, n, u)
    BY <1>7 DEF Put
  <2>2. /\ Kept(f, t) /\ f # NoEntry /\ f.age = e.age
        /\ \A l \in 0 .. MaxLag : e.age = l => Kept(f, l)
    BY <1>3, <1>7, ExpireFacts
  <2>3. fresh => e.age = wlag
    BY <1>1, <1>7 DEF Inv, FreshIsNew
  <2>4. Kept(f, u)
    BY <1>2, <2>2, <2>3
  <2>5. Lagged(f, u, wop, wlag)
    BY <1>1, <1>2, <1>3 DEF Lagged
  <2> HIDE DEF f, u
  <2>6. /\ Cells(entry', timely', wop, wlag) /\ timely'[wat][n] = u
        /\ \A j \in Caches : \A m \in Nodes[j] : j # wat \/ m # n => timely'[j][m] = timely[j][m]
    BY <1>2, <1>3, <2>1, <2>4, <2>5, PutCells
  <2>7. Cells(entry', timely', wop', wlag')
    BY <1>4, <2>6, LagZero
  <2>8. t = Expire => u = Expire
    BY DEF u
  <2>9. ReapsOld'
    <3> SUFFICES ASSUME rpc = "reap" PROVE timely'[rat][db["reader"][rat]] = Expire
      BY <1>1 DEF ReapsOld
    <3>1. rat \in Caches /\ db["reader"][rat] \in Nodes[rat] /\ timely[rat][db["reader"][rat]] = Expire
      BY DEF Inv, Control, ReapsOld
    <3> QED
      BY <2>6, <2>8, <3>1
  <2> QED
    BY <1>5, <2>7, <2>9 DEF Inv
<1> QED
  BY <1>6, <1>7 DEF KeyExpire

\* delSession deletes the session on the node of a cache, or does not.
LEMMA HashDelInv ==
  ASSUME Inv, HashDel
  PROVE  Inv'
<1> DEFINE n == db["writer"][wat]
           e == entry[wat][n]
<1>1. /\ wop = "del" /\ wpc = "cmd" /\ WriterNext
      /\ UNCHANGED <<cfg, db, moves, rpc, rat, rlag, got>>
      /\ timely' = Put(timely, wat, n, Expire)
  BY DEF HashDel, readerVars, Put
<1>2. wat \in Caches /\ n \in Nodes[wat]
  BY <1>1 DEF Inv, Control
<1>3. Cells(entry, timely, wop, wlag) /\ Kept(e, timely[wat][n])
  BY <1>2 DEF Inv, Cells
<1>4. /\ wpc' = "handle" /\ wlag' = 0 /\ fresh' = FALSE /\ wat' \in Caches
      /\ wop' \in {"idle", "set", "del", "out"} /\ (wop' = "idle" => wat' = 1)
      /\ \A k \in Caches : Gone(k)' => k < wat \/ k = wat
  BY <1>1, WriterNextFacts DEF Inv
<1>5. Control' /\ FreshIsNew'
  BY <1>1, <1>4 DEF Inv, Control, FreshIsNew
<1>6. PICK f \in {e, NoEntry} :
        /\ entry' = Put(entry, wat, n, f)
        /\ missed' = IF f = NoEntry /\ missed' = missed THEN missed ELSE missed \cup {wat}
  <2>1. PICK done \in BOOLEAN :
          /\ entry' = IF done THEN [entry EXCEPT ![wat][n] = Deleted(@)] ELSE entry
          /\ missed' = IF done THEN missed ELSE missed \cup {wat}
    BY DEF HashDel, ExeCmd
  <2>2. CASE done
    BY <2>1, <2>2 DEF Put, Deleted
  <2>3. CASE ~done
    <3>1. entry' = Put(entry, wat, n, e)
      BY <1>2, <1>3, <2>1, <2>3, PutSame DEF Cells
    <3>2. missed' = missed \cup {wat}
      BY <2>1, <2>3
    <3> QED
      BY <3>1, <3>2
  <2> QED
    BY <2>2, <2>3
<1>7. Kept(f, Expire) /\ Lagged(f, Expire, wop, wlag)
  <2>1. Kept(e, Expire)
    BY <1>3, ConstantFacts DEF Kept
  <2> QED
    BY <1>1, <2>1, NoEntryFacts, ConstantFacts DEF Lagged
<1>8. /\ Cells(entry', timely', wop, wlag) /\ entry'[wat][n] = f /\ timely'[wat][n] = Expire
      /\ \A j \in Caches : \A m \in Nodes[j] :
           j # wat \/ m # n => entry'[j][m] = entry[j][m] /\ timely'[j][m] = timely[j][m]
  BY <1>1, <1>2, <1>3, <1>6, <1>7, PutCells
<1>9. Cells(entry', timely', wop', wlag')
  BY <1>4, <1>8, LagZero
<1>10. ReapsOld'
  <2> SUFFICES ASSUME rpc = "reap" PROVE timely'[rat][db["reader"][rat]] = Expire
    BY <1>1 DEF ReapsOld
  <2>1. rat \in Caches /\ db["reader"][rat] \in Nodes[rat] /\ timely[rat][db["reader"][rat]] = Expire
    BY DEF Inv, Control, ReapsOld
  <2> QED
    BY <1>8, <2>1
<1>11. DeletedSoFar'
  <2> SUFFICES ASSUME NEW k \in Caches, NEW m \in Nodes[k], Gone(k)'
               PROVE  entry'[k][m] = NoEntry \/ k \in missed' \/ m # db["writer"][k]
    BY <1>1 DEF DeletedSoFar
  <2>1. CASE k = wat
    BY <1>6, <1>8, <2>1
  <2>2. CASE k # wat
    <3>1. Gone(k)
      BY <1>1, <1>4, <2>2 DEF Gone
    <3>2. entry[k][m] = NoEntry \/ k \in missed \/ m # db["writer"][k]
      BY <3>1 DEF Inv, DeletedSoFar
    <3>3. entry'[k][m] = entry[k][m] /\ missed \subseteq missed'
      BY <1>6, <1>8, <2>2
    <3> QED
      BY <3>2, <3>3
  <2> QED
    BY <2>1, <2>2
<1> QED
  BY <1>5, <1>9, <1>10, <1>11 DEF Inv

\* The reader's next cache, or the end.
LEMMA ReaderNextFacts ==
  ASSUME Control, ReaderNext
  PROVE  rlag' = 0 /\ rat' \in Caches /\ rpc' \in {"handle", "idle"}
<1>1. rat \in Caches
  BY DEF Control
<1>2. CASE rat < Size
  BY <1>1, <1>2, ConstantFacts DEF ReaderNext
<1>3. CASE ~(rat < Size)
  BY <1>1, <1>3, ConstantFacts DEF ReaderNext
<1> QED
  BY <1>2, <1>3

\* What the reader does leaves the writer and the time as they are.
LEMMA ReaderInv ==
  ASSUME Inv, Cells(entry', timely', wop, wlag), ReapsOld',
         UNCHANGED <<cfg, wop, wpc, wat, wlag, fresh, missed>>, db' \in Config,
         \A k \in Caches : db'["writer"][k] = db["writer"][k],
         \A k \in Caches : \A n \in Nodes[k] : entry'[k][n] = entry[k][n] \/ entry'[k][n] = NoEntry,
         rpc' \in {"idle", "handle", "read", "reap"}, rat' \in Caches, rlag' \in 0 .. MaxLag,
         rpc' \in {"read", "reap"} => db'["reader"][rat'] \in Nodes[rat']
  PROVE  Inv'
<1>1. wat \in Caches /\ db'["writer"][wat] = db["writer"][wat]
  BY DEF Inv, Control
<1>2. Control'
  BY <1>1 DEF Inv, Control
<1>3. FreshIsNew'
  <2> SUFFICES ASSUME wpc = "expire", fresh
               PROVE  LET e == entry'[wat][db["writer"][wat]] IN e = NoEntry \/ e.age = wlag
    BY <1>1 DEF FreshIsNew
  <2>1. db["writer"][wat] \in Nodes[wat]
    BY DEF Inv, Control
  <2> QED
    BY <1>1, <2>1 DEF Inv, FreshIsNew
<1>4. DeletedSoFar'
  BY DEF Inv, DeletedSoFar, Gone
<1> QED
  BY <1>2, <1>3, <1>4 DEF Inv

\* getSession starts, takes a handle, or reads.
LEMMA GetSessionInv ==
  ASSUME Inv, GetSession
  PROVE  Inv'
<1>1. /\ rpc' = "handle" /\ UNCHANGED <<rat, rlag, entry, timely, cfg, db, wop, wpc, wat, wlag, fresh, missed>>
  BY DEF GetSession, writerVars
<1>2. Cells(entry', timely', wop, wlag) /\ rat' \in Caches /\ rlag' \in 0 .. MaxLag /\ db' \in Config
  BY <1>1 DEF Inv, Control
<1>3. ReapsOld'
  BY <1>1 DEF ReapsOld
<1> QED
  BY <1>1, <1>2, <1>3, ReaderInv

\* getSession takes the handle of its next cache, or goes on without.
LEMMA ReaderHandleInv ==
  ASSUME Inv, ReaderHandle
  PROVE  Inv'
<1>1. UNCHANGED <<entry, cfg, timely, wop, wpc, wat, wlag, fresh, missed>>
  BY DEF ReaderHandle, writerVars
<1>2. rat \in Caches /\ MaxLag \in Nat
  BY ConstantFacts DEF Inv, Control
<1>3. /\ db' \in Config
      /\ \A q \in Processes, j \in Caches : q # "reader" \/ j # rat => db'[q][j] = db[q][j]
  BY <1>2, HandleFacts DEF Inv, ReaderHandle, Processes
<1>4. \A k \in Caches : db'["writer"][k] = db["writer"][k]
  BY <1>3 DEF Processes
<1>5. Cells(entry', timely', wop, wlag)
  BY <1>1 DEF Inv
<1>6. CASE ReaderNext
  <2>1. rlag' = 0 /\ rat' \in Caches /\ rpc' \in {"handle", "idle"}
    BY <1>6, ReaderNextFacts DEF Inv
  <2>2. ReapsOld'
    BY <2>1 DEF ReapsOld
  <2> QED
    BY <1>1, <1>2, <1>3, <1>4, <1>5, <2>1, <2>2, ReaderInv
<1>7. CASE db'["reader"][rat] # 0 /\ rpc' = "read" /\ rlag' = 0 /\ rat' = rat
  <2>1. db'["reader"][rat'] \in Nodes[rat']
    BY <1>2, <1>3, <1>7 DEF Config, Processes
  <2>2. ReapsOld'
    BY <1>7 DEF ReapsOld
  <2> QED
    BY <1>1, <1>2, <1>3, <1>4, <1>5, <1>7, <2>1, <2>2, ReaderInv
<1> QED
  BY <1>6, <1>7 DEF ReaderHandle

\* An entry that a reader finds old is not one of a session refreshed in time.
LEMMA OldFacts ==
  ASSUME Inv, NEW k \in Caches, NEW n \in Nodes[k], entry[k][n] # NoEntry, Old(entry[k][n])
  PROVE  timely[k][n] = Expire
<1> DEFINE e == entry[k][n]
           t == timely[k][n]
<1>1. Kept(e, t) /\ rlag \in 0 .. MaxLag
  BY DEF Inv, Cells, Control
<1>2. e.age \in 0 .. Cap /\ t \in -1 .. Expire
  BY <1>1, EntryFacts DEF Kept
<1>3. e.age > Expire
  BY <1>1, <1>2, ConstantFacts DEF Old
<1> QED
  BY <1>1, <1>2, <1>3, ConstantFacts DEF Kept

\* hashGetAll finds the session or not; one it finds old is to be deleted.
LEMMA HashGetAllInv ==
  ASSUME Inv, HashGetAll
  PROVE  Inv'
<1>1. /\ rpc = "read" /\ rat \in Caches /\ db["reader"][rat] \in Nodes[rat] /\ MaxLag \in Nat
      /\ UNCHANGED <<entry, cfg, db, timely, wop, wpc, wat, wlag, fresh, missed>>
  BY ConstantFacts DEF HashGetAll, writerVars, Inv, Control
<1>2. Cells(entry', timely', wop, wlag) /\ db' \in Config
  BY <1>1 DEF Inv, Control
<1>3. CASE ReaderNext
  <2>1. rlag' = 0 /\ rat' \in Caches /\ rpc' \in {"handle", "idle"}
    BY <1>3, ReaderNextFacts DEF Inv
  <2>2. ReapsOld'
    BY <2>1 DEF ReapsOld
  <2> QED
    BY <1>1, <1>2, <2>1, <2>2, ReaderInv
<1>4. CASE LET e == entry[rat][db["reader"][rat]]
           IN  e # NoEntry /\ Old(e) /\ rpc' = "reap" /\ rlag' = 0 /\ UNCHANGED <<rat, got>>
  <2>1. timely[rat][db["reader"][rat]] = Expire
    BY <1>1, <1>4, OldFacts
  <2>2. ReapsOld'
    BY <1>1, <1>4, <2>1 DEF ReapsOld
  <2> QED
    BY <1>1, <1>2, <1>4, <2>2, ReaderInv
<1> QED
  BY <1>3, <1>4 DEF HashGetAll

\* The reader deletes what was old.
LEMMA HashMDelInv ==
  ASSUME Inv, HashMDel
  PROVE  Inv'
<1> DEFINE n == db["reader"][rat]
<1>1. /\ rpc = "reap" /\ ReaderNext /\ rat \in Caches /\ n \in Nodes[rat] /\ MaxLag \in Nat
      /\ UNCHANGED <<cfg, db, timely, wop, wpc, wat, wlag, fresh, missed>>
  BY ConstantFacts DEF HashMDel, writerVars, Inv, Control
<1>2. rlag' = 0 /\ rat' \in Caches /\ rpc' \in {"handle", "idle"}
  BY <1>1, ReaderNextFacts DEF Inv
<1>3. ReapsOld' /\ db' \in Config
  BY <1>1, <1>2 DEF ReapsOld, Inv, Control
<1>4. CASE entry' = entry
  BY <1>1, <1>2, <1>3, <1>4, ReaderInv DEF Inv
<1>5. CASE entry' = Put(entry, rat, n, NoEntry)
  <2>1. Cells(entry, timely, wop, wlag) /\ timely[rat][n] = Expire
    BY <1>1 DEF Inv, ReapsOld
  <2>2. timely' = Put(timely, rat, n, Expire)
    BY <1>1, <2>1, PutSame DEF Cells
  <2>3. Kept(NoEntry, Expire) /\ Lagged(NoEntry, Expire, wop, wlag)
    BY NoEntryFacts, ConstantFacts DEF Lagged
  <2>4. /\ Cells(entry', timely', wop, wlag) /\ entry'[rat][n] = NoEntry
        /\ \A j \in Caches : \A m \in Nodes[j] : j # rat \/ m # n => entry'[j][m] = entry[j][m]
    BY <1>1, <1>5, <2>1, <2>2, <2>3, PutCells
  <2> QED
    BY <1>1, <1>2, <1>3, <2>4, ReaderInv
<1> QED
  BY <1>4, <1>5 DEF HashMDel, Put

\* A second passes.
LEMMA TickInv ==
  ASSUME Inv, Tick
  PROVE  Inv'
<1>1. /\ UNCHANGED <<cfg, db, wop, wpc, wat, fresh, missed, rpc, rat>>
      /\ wlag' = IF wpc \in {"cmd", "expire"} THEN wlag + 1 ELSE IF wop = "out" THEN Older(wlag, Cap) ELSE wlag
      /\ rlag' = IF rpc = "read" THEN rlag + 1 ELSE rlag
      /\ wpc \in {"cmd", "expire"} => wlag < MaxLag
      /\ rpc = "read" => rlag < MaxLag
  BY DEF Tick
<1>2. /\ wlag \in Nat /\ rlag \in 0 .. MaxLag /\ wat \in Caches /\ rat \in Caches
      /\ MaxLag \in Nat /\ Expire \in Nat /\ Cap \in Nat /\ MaxLag < Cap
  BY ConstantFacts DEF Inv, Control
<1>3. wlag' \in Nat /\ rlag' \in 0 .. MaxLag
  BY <1>1, <1>2 DEF Older
<1>4. Control'
  BY <1>1, <1>2, <1>3 DEF Inv, Control
<1>5. \A k \in Caches : \A n \in Nodes[k] :
        /\ entry'[k][n] = Aged(entry[k][n])
        /\ timely'[k][n] = IF timely[k][n] = -1 /\ entry[k][n].age + 1 >= Expire THEN Expire
                                                                            ELSE Older(timely[k][n], Expire)
  BY DEF Tick
<1>6. IsTable(entry') /\ IsTable(timely')
  BY <1>5 DEF Tick, IsTable
<1>7. ASSUME NEW k \in Caches, NEW n \in Nodes[k]
      PROVE  /\ Kept(entry'[k][n], timely'[k][n]) /\ Lagged(entry'[k][n], timely'[k][n], wop', wlag')
             /\ timely[k][n] = Expire => timely'[k][n] = Expire
             /\ entry[k][n] = NoEntry => entry'[k][n] = NoEntry
             /\ entry'[k][n] = NoEntry \/ (entry[k][n] # NoEntry /\ entry'[k][n].age = Older(entry[k][n].age, Cap))
  <2> DEFINE e == entry[k][n]
             t == timely[k][n]
             f == entry'[k][n]
             u == timely'[k][n]
  <2>1. Kept(e, t) /\ Lagged(e, t, wop, wlag)
    BY DEF Inv, Cells
  <2>2. /\ Kept(f, u)
        /\ t \in 0 .. Expire => u = Expire \/ (t < Expire /\ u = t + 1)
        /\ t = -1 => u \in {-1, Expire}
        /\ t = Expire => u = Expire
        /\ e = NoEntry => f = NoEntry
        /\ f = NoEntry \/ f.age = Older(e.age, Cap)
    BY <1>5, <2>1, AgedFacts
  <2>3. t \in -1 .. Expire /\ (e # NoEntry => e.age \in 0 .. Cap)
    BY <2>1, EntryFacts DEF Kept
  <2> HIDE DEF e, t, f, u
  <2>4. u \in 0 .. Expire - 1 /\ wop # "out" => wlag' <= u
    <3> SUFFICES ASSUME u \in 0 .. Expire - 1, wop # "out" PROVE wlag' <= u
      OBVIOUS
    <3>1. t \in 0 .. Expire - 1 /\ u = t + 1
      BY <1>2, <2>2, <2>3
    <3>2. wlag <= t
      BY <2>1, <3>1 DEF Lagged
    <3> QED
      BY <1>1, <1>2, <3>1, <3>2
  <2>5. wop = "out" => f = NoEntry \/ f.age >= wlag'
    <3> SUFFICES ASSUME wop = "out", f # NoEntry PROVE f.age >= wlag'
      OBVIOUS
    <3>1. e # NoEntry /\ e.age >= wlag /\ e.age \in 0 .. Cap /\ f.age = Older(e.age, Cap)
      BY <2>1, <2>2, <2>3 DEF Lagged
    <3>2. wlag' = Older(wlag, Cap)
      BY <1>1 DEF Inv, Control
    <3> QED
      BY <1>2, <3>1, <3>2 DEF Older
  <2>6. Lagged(f, u, wop', wlag')
    BY <1>1, <2>4, <2>5 DEF Lagged
  <2> QED
    BY <2>2, <2>6 DEF e, t, f, u
<1>8. Cells(entry', timely', wop', wlag')
  BY <1>6, <1>7 DEF Cells
<1>9. FreshIsNew'
  <2> SUFFICES ASSUME wpc = "expire", fresh, entry'[wat][db["writer"][wat]] # NoEntry
               PROVE  entry'[wat][db["writer"][wat]].age = wlag'
    BY <1>1 DEF FreshIsNew
  <2>1. db["writer"][wat] \in Nodes[wat]
    BY DEF Inv, Control
  <2>2. /\ entry[wat][db["writer"][wat]] # NoEntry
        /\ entry'[wat][db["writer"][wat]].age = Older(entry[wat][db["writer"][wat]].age, Cap)
    BY <1>2, <1>7, <2>1
  <2>3. entry[wat][db["writer"][wat]].age = wlag
    BY <2>2 DEF Inv, FreshIsNew
  <2> QED
    BY <1>1, <1>2, <2>2, <2>3 DEF Older
<1>10. ReapsOld'
  <2> SUFFICES ASSUME rpc = "reap" PROVE timely'[rat][db["reader"][rat]] = Expire
    BY <1>1 DEF ReapsOld
  <2>1. rat \in Caches /\ db["reader"][rat] \in Nodes[rat] /\ timely[rat][db["reader"][rat]] = Expire
    BY DEF Inv, Control, ReapsOld
  <2> QED
    BY <1>7, <2>1
<1>11. DeletedSoFar'
  BY <1>1, <1>7 DEF Inv, DeletedSoFar, Gone
<1> QED
  BY <1>4, <1>8, <1>9, <1>10, <1>11 DEF Inv

\* A new configuration is only noted.
LEMMA WatchCallBackInv ==
  ASSUME Inv, NEW p \in Processes, WatchCallBack(p)
  PROVE  Inv'
<1>1. UNCHANGED <<entry, db, timely, wop, wpc, wat, wlag, fresh, missed, rpc, rat, rlag>>
  BY DEF WatchCallBack, writerVars, readerVars
<1>2. PICK k \in Caches : \E n \in Nodes[k] \cup {0} : cfg' = [cfg EXCEPT ![p][k] = n]
  BY DEF WatchCallBack
<1>3. PICK n \in Nodes[k] \cup {0} : cfg' = [cfg EXCEPT ![p][k] = n]
  BY <1>2
<1>4. cfg \in [Processes -> [Caches -> Nat]] /\ \A q \in Processes, j \in Caches : cfg[q][j] \in Nodes[j] \cup {0}
  BY DEF Inv, Control, Config
<1>5. n \in Nat
  BY ConstantFacts
<1>6. cfg' \in [Processes -> [Caches -> Nat]]
  BY <1>3, <1>4, <1>5
<1>7. \A q \in Processes, j \in Caches : cfg'[q][j] = IF q = p /\ j = k THEN n ELSE cfg[q][j]
  BY <1>3, <1>4
<1>8. cfg' \in Config
  BY <1>3, <1>4, <1>6, <1>7 DEF Config
<1> QED
  BY <1>1, <1>8 DEF Inv, Control, FreshIsNew, ReapsOld, DeletedSoFar, Gone

-----------------------------------------------------------------------------
(* Theorems *)

\* Every step of both threads, of time and of the configuration keeps the invariant.
LEMMA NextInv == Inv /\ [Next]_vars => Inv'
<1> SUFFICES ASSUME Inv, [Next]_vars PROVE Inv'
  OBVIOUS
<1>1. CASE SetSession \/ DelSession
  BY <1>1, StartInv
<1>2. CASE Writer
  BY <1>2, WriterHandleInv, HashSetInv, KeyExpireInv, HashDelInv DEF Writer
<1>3. CASE GetSession
  BY <1>3, GetSessionInv
<1>4. CASE Reader
  BY <1>4, ReaderHandleInv, HashGetAllInv, HashMDelInv DEF Reader
<1>5. CASE Tick
  BY <1>5, TickInv
<1>6. CASE \E p \in Processes : WatchCallBack(p)
  BY <1>6, WatchCallBackInv
<1>7. CASE UNCHANGED vars
  BY <1>7 DEF vars, Inv, Control, FreshIsNew, ReapsOld, DeletedSoFar, Gone
<1> QED
  BY <1>1, <1>2, <1>3, <1>4, <1>5, <1>6, <1>7 DEF Next

\* The inductive invariant of setSession, delSession, getSession and time.
THEOREM Invariance == Spec => []Inv
<1> QED
  BY InitInv, NextInv, PTL DEF Spec

\* A session that is refreshed in time stays, and no reader finds it old.
THEOREM Keeps == Spec => []KeptWhileOnTime
<1>1. Inv => KeptWhileOnTime
  <2> SUFFICES ASSUME Inv, NEW k \in Caches, NEW n \in Nodes[k], OnTime(k, n)
               PROVE  entry[k][n] # NoEntry /\ ~Old(entry[k][n])
    BY DEF KeptWhileOnTime
  <2>1. entry[k][n] # NoEntry
    BY DEF Inv, Cells, Kept, OnTime
  <2>2. timely[k][n] # Expire
    BY ConstantFacts DEF OnTime
  <2> QED
    BY <2>1, <2>2, OldFacts
<1> QED
  BY <1>1, Invariance, PTL

\* After delSession the session is left only where the command failed, or on a node
\* the configuration had left.
THEOREM Deletes == Spec => []LeftOnlyByFailure
<1>1. Inv => LeftOnlyByFailure
  BY DEF Inv, DeletedSoFar, Gone, LeftOnlyByFailure
<1> QED
  BY <1>1, Invariance, PTL

\* What is left is read as a live session no later than Expire, and the time from
\* time(NULL) to the read, after its end.
THEOREM Ends == Spec => GhostEnds
<1>1. ASSUME Inv, Next, wop = "out", ~got, got'
      PROVE  wlag <= Expire + MaxLag
  <2>1. HashGetAll
    <3>1. got' # got
      BY <1>1
    <3>2. CASE GetSession
      BY <1>1, <3>2 DEF GetSession
    <3>3. CASE Reader
      BY <3>1, <3>3 DEF Reader, ReaderHandle, HashMDel
    <3>4. CASE Writer
      BY <3>1, <3>4 DEF Writer, WriterHandle, HashSet, KeyExpire, HashDel, readerVars
    <3>5. CASE SetSession \/ DelSession \/ Tick
      BY <3>1, <3>5 DEF SetSession, DelSession, Tick, readerVars
    <3>6. CASE \E p \in Processes : WatchCallBack(p)
      BY <3>1, <3>6 DEF WatchCallBack, readerVars
    <3> QED
      BY <1>1, <3>2, <3>3, <3>4, <3>5, <3>6 DEF Next
  <2> DEFINE e == entry[rat][db["reader"][rat]]
  <2>2. rpc = "read" /\ e # NoEntry /\ ~Old(e)
    BY <1>1, <2>1 DEF HashGetAll
  <2>3. rat \in Caches /\ db["reader"][rat] \in Nodes[rat] /\ rlag \in 0 .. MaxLag /\ wlag \in Nat
    BY <1>1, <2>2 DEF Inv, Control
  <2>4. Kept(e, timely[rat][db["reader"][rat]]) /\ Lagged(e, timely[rat][db["reader"][rat]], wop, wlag)
    BY <1>1, <2>3 DEF Inv, Cells
  <2>5. e.age \in 0 .. Cap /\ e.age >= wlag
    BY <1>1, <2>2, <2>4, EntryFacts DEF Kept, Lagged
  <2> HIDE DEF e
  <2> QED
    BY <2>2, <2>3, <2>5, ConstantFacts DEF Old
<1>2. Inv /\ [Next]_vars => [wop = "out" /\ ~got /\ got' => wlag <= Expire + MaxLag]_vars
  BY <1>1
<1> QED
  BY <1>2, Invariance, PTL DEF Spec, GhostEnds
=============================================================================

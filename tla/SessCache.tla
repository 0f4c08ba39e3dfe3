----------------------------- MODULE SessCache -----------------------------
(***************************************************************************)
(* One session of a user in the session caches (common/src/sess_cache.cpp, *)
(* redis_group.cpp, redis_client.cpp). The connect server's thread, the    *)
(* writer, sets the session at login and on every packet and deletes it at *)
(* the end; a push server's thread, the reader, gets it. A SessCacheGrp is *)
(* a sequence of RedisSessCaches, each of which keeps the user's hash on   *)
(* one Redis node of its configuration. Both threads have a SessCacheGrp   *)
(* of their own, whose configuration follows ZooKeeper.                    *)
(*                                                                         *)
(* Time is kept as ages, by one clock: the hosts of the two processes are  *)
(* assumed to agree on the time (lasttime is the writer's time(NULL), what *)
(* it is compared with the reader's).                                      *)
(***************************************************************************)
EXTENDS Integers

CONSTANTS
    Size,      \* number of caches in a group
    Nodes,     \* the Redis nodes each cache may be configured with
    Starts,    \* configurations the processes may begin with
    Expire,    \* m_expire
    MaxLag,    \* bound: time from time(NULL) to the effect of the command after it
    MaxMoves   \* bound: changes of the configuration, in both processes

Caches == 1 .. Size
Processes == {"writer", "reader"}

ASSUME SessCacheAssumption ==
    /\ Size \in Nat \ {0} /\ DOMAIN Nodes = Caches
    /\ \A k \in Caches : Nodes[k] \subseteq Nat \ {0}
    /\ Starts \subseteq [Processes -> [Caches -> Nat]]
    /\ \A f \in Starts, p \in Processes, k \in Caches : f[p][k] \in Nodes[k] \cup {0}
    /\ Expire \in Nat \ {0} /\ MaxLag \in 0 .. Expire - 1 /\ MaxMoves \in Nat

VARIABLES
    entry,    \* the session's field on each node of each cache
    cfg,      \* SessCacheWatcher::m_cfg of each process and cache, 0 for none
    db,       \* the node of m_dbg, 0 for NULL
    moves,    \* changes of cfg
    wop,      \* what the writer does: idle, set, del, or out when the session is over
    wpc,      \* where it is in the cache wat: handle, cmd, expire
    wat,
    wlag,     \* time since its time(NULL); once it is out, since the end of the session
    fresh,    \* the hashSet of this setSession took effect
    rpc,      \* where the reader is in the cache rat: idle, handle, read, reap
    rat,
    rlag,     \* time since its time(NULL)
    got,      \* the session is in the result of the latest getSession
    timely,   \* time since both commands of a setSession succeeded on each node:
              \* -1 if they never did, Expire for ever once it was too long
    missed    \* caches from which delSession has not deleted it

vars == <<entry, cfg, db, moves, wop, wpc, wat, wlag, fresh, rpc, rat, rlag, got, timely, missed>>
writerVars == <<wop, wpc, wat, wlag, fresh, missed>>
readerVars == <<rpc, rat, rlag, got>>

NoEntry == [age |-> -1, ttl |-> -1]
Cap == Expire + MaxLag + 1   \* an age at which every reader finds the session old

Init ==
    /\ entry = [k \in Caches |-> [n \in Nodes[k] |-> NoEntry]]
    /\ cfg \in Starts
    /\ db = cfg /\ moves = 0
    /\ wop = "idle" /\ wpc = "handle" /\ wat = 1 /\ wlag = 0 /\ fresh = FALSE /\ missed = {}
    /\ rpc = "idle" /\ rat = 1 /\ rlag = 0 /\ got = FALSE
    /\ timely = [k \in Caches |-> [n \in Nodes[k] |-> -1]]

-----------------------------------------------------------------------------
(* Configuration *)

\* watchCallBack, in ZooKeeper's callback thread of the process.
WatchCallBack(p) ==
    /\ moves < MaxMoves /\ moves' = moves + 1
    /\ \E k \in Caches : \E n \in Nodes[k] \cup {0} : n # cfg[p][k] /\ cfg' = [cfg EXCEPT ![p][k] = n]
    /\ UNCHANGED <<entry, db, writerVars, readerVars, timely>>

\* getHandle and init: without m_dbg it returns before it looks for a new
\* configuration; one that is no object leaves m_dbg as it is.
GetHandle(p, k) == IF db[p][k] # 0 /\ cfg[p][k] # 0 THEN cfg[p][k] ELSE db[p][k]

-----------------------------------------------------------------------------
(* The writer: setSession and delSession *)

\* _exeCmd, with the reconnections and attempts it makes: in the end the command
\* has taken effect on its node or has not. A lost answer and a repeated command
\* are no different, since every command here may be repeated.
ExeCmd == BOOLEAN

\* SessCacheGrp goes through its caches, whatever happens in one of them.
WriterNext ==
    /\ wpc' = "handle" /\ wlag' = 0 /\ fresh' = FALSE
    /\ IF wat < Size THEN wat' = wat + 1 /\ wop' = wop
                     ELSE wat' = 1 /\ wop' = (IF wop = "del" THEN "out" ELSE "idle")

SetSession ==
    /\ wop = "idle" /\ wop' = "set"
    /\ UNCHANGED <<entry, cfg, db, moves, wpc, wat, wlag, fresh, missed, readerVars, timely>>

DelSession ==
    /\ wop = "idle" /\ wop' = "del"
    /\ UNCHANGED <<entry, cfg, db, moves, wpc, wat, wlag, fresh, missed, readerVars, timely>>

\* The handle of the next cache; getHndl may fail to connect. Then time(NULL).
WriterHandle ==
    /\ wop \in {"set", "del"} /\ wpc = "handle"
    /\ db' = [db EXCEPT !["writer"][wat] = GetHandle("writer", wat)]
    /\ \/ WriterNext /\ missed' = (IF wop = "del" THEN missed \cup {wat} ELSE missed)
       \/ /\ db'["writer"][wat] # 0
          /\ wpc' = "cmd" /\ UNCHANGED <<wop, wat, wlag, fresh, missed>>
    /\ UNCHANGED <<entry, cfg, moves, readerVars, timely>>

\* Mutant of Stamped: the field is new, the time of the first login stays.
StampedOnce(e) == IF e = NoEntry THEN [age |-> wlag, ttl |-> e.ttl] ELSE e

\* The field with the time of this setSession; the key keeps its expiry.
Stamped(e) == [e EXCEPT !.age = wlag]

\* The session has been set on the node and not been late since.
OnTime(k, n) == timely[k][n] \in 0 .. Expire - 1

\* hashSet takes effect, or not, in all its retries; keyExpire follows.
HashSet ==
    /\ wop = "set" /\ wpc = "cmd"
    /\ fresh' \in ExeCmd
    /\ LET n == db["writer"][wat]
       IN  entry' = IF fresh' THEN [entry EXCEPT ![wat][n] = Stamped(@)] ELSE entry
    /\ wpc' = "expire"
    /\ UNCHANGED <<cfg, db, moves, wop, wat, wlag, missed, readerVars, timely>>

\* keyExpire: the key, if it is there, lives for m_expire from now, or for what it
\* had left.
KeyExpire ==
    /\ wop = "set" /\ wpc = "expire"
    /\ LET n == db["writer"][wat]
       IN  \E done \in ExeCmd :
               IF done /\ entry[wat][n] # NoEntry
               THEN /\ entry' = [entry EXCEPT ![wat][n].ttl = Expire]
                    /\ timely' = [timely EXCEPT ![wat][n] = IF fresh /\ @ # Expire THEN wlag ELSE @]
               ELSE UNCHANGED <<entry, timely>>
    /\ WriterNext
    /\ UNCHANGED <<cfg, db, moves, missed, readerVars>>

\* Mutant of Deleted: the field stays.
DeletedNot(e) == e

Deleted(e) == NoEntry

HashDel ==
    /\ wop = "del" /\ wpc = "cmd"
    /\ LET n == db["writer"][wat]
       IN  /\ \E done \in ExeCmd :
                  /\ entry' = IF done THEN [entry EXCEPT ![wat][n] = Deleted(@)] ELSE entry
                  /\ missed' = IF done THEN missed ELSE missed \cup {wat}
           /\ timely' = [timely EXCEPT ![wat][n] = Expire]
    /\ WriterNext
    /\ UNCHANGED <<cfg, db, moves, readerVars>>

-----------------------------------------------------------------------------
(* The reader: getSession *)

\* The next cache, or the end.
ReaderNext ==
    /\ rlag' = 0
    /\ IF rat < Size THEN rat' = rat + 1 /\ rpc' = "handle"
                     ELSE rat' = 1 /\ rpc' = "idle"

GetSession ==
    /\ rpc = "idle" /\ rpc' = "handle" /\ got' = FALSE
    /\ UNCHANGED <<entry, cfg, db, moves, writerVars, rat, rlag, timely>>

ReaderHandle ==
    /\ rpc = "handle"
    /\ db' = [db EXCEPT !["reader"][rat] = GetHandle("reader", rat)]
    /\ \/ ReaderNext
       \/ db'["reader"][rat] # 0 /\ rpc' = "read" /\ rlag' = 0 /\ rat' = rat
    /\ UNCHANGED <<entry, cfg, moves, writerVars, got, timely>>

\* Mutant of Old: the time is not looked at.
OldNever(e) == FALSE

\* s.lasttime() + m_expire < n, with n the reader's time(NULL).
Old(e) == e.age - rlag > Expire

\* hashGetAll fails, or may find the session; an old one is to be deleted.
HashGetAll ==
    /\ rpc = "read"
    /\ LET e == entry[rat][db["reader"][rat]]
       IN  \/ ReaderNext /\ got' = got
           \/ (e = NoEntry \/ ~Old(e)) /\ ReaderNext /\ got' = (got \/ e # NoEntry)
           \/ e # NoEntry /\ Old(e) /\ rpc' = "reap" /\ rlag' = 0 /\ UNCHANGED <<rat, got>>
    /\ UNCHANGED <<entry, cfg, db, moves, writerVars, timely>>

\* hashMDel of what was old when it was read.
HashMDel ==
    /\ rpc = "reap"
    /\ \E done \in ExeCmd :
           entry' = IF done THEN [entry EXCEPT ![rat][db["reader"][rat]] = NoEntry] ELSE entry
    /\ ReaderNext
    /\ UNCHANGED <<cfg, db, moves, writerVars, got, timely>>

-----------------------------------------------------------------------------
(* Time *)

Older(t, cap) == IF t \in 0 .. cap - 1 THEN t + 1 ELSE t

\* Redis removes a key whose time has run out.
Aged(e) == IF e.ttl = 1 THEN NoEntry ELSE [age |-> Older(e.age, Cap), ttl |-> IF e.ttl > 1 THEN e.ttl - 1 ELSE e.ttl]

\* A second passes, everywhere; a thread is not slower than MaxLag.
Tick ==
    /\ wpc \in {"cmd", "expire"} => wlag < MaxLag
    /\ rpc = "read" => rlag < MaxLag
    /\ wlag' = IF wpc \in {"cmd", "expire"} THEN wlag + 1 ELSE IF wop = "out" THEN Older(wlag, Cap) ELSE wlag
    /\ rlag' = IF rpc = "read" THEN rlag + 1 ELSE rlag
    /\ entry' = [k \in Caches |-> [n \in Nodes[k] |-> Aged(entry[k][n])]]
    /\ timely' = [k \in Caches |-> [n \in Nodes[k] |->
           IF timely[k][n] = -1 /\ entry[k][n].age + 1 >= Expire THEN Expire ELSE Older(timely[k][n], Expire)]]
    /\ UNCHANGED <<cfg, db, moves, wop, wpc, wat, fresh, missed, rpc, rat, got>>

-----------------------------------------------------------------------------
Writer == WriterHandle \/ HashSet \/ KeyExpire \/ HashDel
Reader == ReaderHandle \/ HashGetAll \/ HashMDel

Next ==
    \/ SetSession \/ DelSession \/ Writer
    \/ GetSession \/ Reader
    \/ Tick \/ \E p \in Processes : WatchCallBack(p)

Spec == Init /\ [][Next]_vars

-----------------------------------------------------------------------------
(* Properties *)

\* A session that has been refreshed in time on a node since its login, the expiry
\* of its key included, is there and no reader finds it old, whatever getSession
\* deletes meanwhile and whatever fails in the other caches.
KeptWhileOnTime ==
    \A k \in Caches : \A n \in Nodes[k] : OnTime(k, n) => entry[k][n] # NoEntry /\ ~Old(entry[k][n])

\* After delSession the session is left only where the command failed or the cache
\* had no handle, and on nodes that the configuration had left before.
LeftOnlyByFailure ==
    wop = "out" => \A k \in Caches : \A n \in Nodes[k] :
        entry[k][n] # NoEntry => k \in missed \/ n # db["writer"][k]

\* Wherever it is left, with or without an expiry of its key and whoever still has
\* which configuration, no getSession reads it as a live one later than Expire, and
\* the time from time(NULL) to the read, after its end.
GhostEnds == [][wop = "out" /\ ~got /\ got' => wlag <= Expire + MaxLag]_vars
=============================================================================

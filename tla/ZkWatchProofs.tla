---------------------------- MODULE ZkWatchProofs ----------------------------
(***************************************************************************)
(* Proofs about ZkWatch: the life of a watch is one chain of a request,    *)
(* its completion, the watch it set and the event that ends it, for any    *)
(* number of changes of the node and of lost connections.                  *)
(***************************************************************************)
EXTENDS ZkWatch, StatusNode, FiniteSetTheorems, SequenceTheorems, TLAPS

Revs == 0 .. rev
Kinds == {"get", "exists"}

\* A completion that comes with a watch set on the server.
SetsWatch(m) == m.type = "exists" \/ (m.type = "get" /\ m.rev # 0)

\* Where the completions are in the queue.
Completions == {i \in DOMAIN inq : inq[i].type \notin Events}

(* The places of the chain *)
Unwatched == ctx = NoCtx /\ ~swatch
Ended == Unwatched /\ reqs = <<>> /\ inq = <<>>
Asked == Unwatched /\ inq = <<>> /\ \E k \in Kinds : reqs = <<k>>
Lost == Unwatched /\ reqs = <<>> /\ inq = <<Msg("lost", 0)>>
Answered ==
    /\ ctx = NoCtx /\ reqs = <<>>
    /\ \E k \in Kinds, r \in Revs :
        /\ inq = <<Msg(k, r)>>
        /\ swatch => link = "up" /\ r = node /\ SetsWatch(Msg(k, r))
        /\ SetsWatch(Msg(k, r)) /\ link = "up" => swatch
Overtaken ==
    /\ Unwatched /\ reqs = <<>>
    /\ \E k \in Kinds, r \in Revs, e \in Events, q \in Revs :
        inq = <<Msg(k, r), Msg(e, q)>> /\ SetsWatch(Msg(k, r))
OneCtx == ctx \in {[data |-> 1, exist |-> 0], [data |-> 0, exist |-> 1]} /\ reqs = <<>>
Watched == OneCtx /\ inq = <<>> /\ (swatch => base = node) /\ (swatch <=> link = "up")
Fired == OneCtx /\ ~swatch /\ \E e \in Events, q \in Revs : inq = <<Msg(e, q)>>

Chain == Ended \/ Asked \/ Lost \/ Answered \/ Overtaken \/ Watched \/ Fired

Basic ==
    /\ rev \in Nat /\ rev > 0 /\ losses \in Nat
    /\ node \in Revs /\ seen \in Revs /\ base \in Revs
    /\ link \in {"connecting", "up", "down"}
    /\ swatch \in BOOLEAN /\ check \in BOOLEAN /\ dropped \in BOOLEAN /\ early \in BOOLEAN
    /\ mpc \in {"init", "waiting", "blocked", "load", "failed", "watch", "done"}

\* Before the watcher's first request there is nothing, after it the chain ends
\* only by a loss or in checkExists.
Begun == /\ mpc # "done" => Ended
         /\ mpc = "done" /\ Ended => dropped \/ check

\* Whoever asks whether the node exists has set m_check_exists.
Checking ==
    /\ reqs = <<"exists">> => check
    /\ inq # <<>> /\ Head(inq).type = "exists" => check

\* What the watcher's copy has to do with the revision last shown.
CopyOfBase ==
    /\ ctx.exist = 1 => seen = 0 /\ base = 0
    /\ ctx.data = 1 /\ ~check => seen = base

\* A new session starts without watches and answers.
NewSession == link = "connecting" => ctx = NoCtx /\ inq = <<>>

IInv == Basic /\ Chain /\ Begun /\ Checking /\ CopyOfBase /\ NewSession

-----------------------------------------------------------------------------
(* Facts about short queues *)

\* A call of Requests with no or one request on an empty queue.
LEMMA FewRequests ==
    ASSUME NEW k, NEW n \in {0, 1}, reqs = <<>>, Requests(k, n)
    PROVE  reqs' = IF n = 0 THEN <<>> ELSE <<k>>
<1>1. [i \in 1 .. n |-> k] = IF n = 0 THEN <<>> ELSE <<k>>
  OBVIOUS
<1>2. reqs' = <<>> \o (IF n = 0 THEN <<>> ELSE <<k>>)
  BY <1>1 DEF Requests
<1> QED
  BY <1>2

\* Queues of one and of two messages.
LEMMA ShortQueues ==
    ASSUME NEW a, NEW b
    PROVE  /\ <<a>> # <<>> /\ <<a, b>> # <<>>
           /\ Head(<<a>>) = a /\ Tail(<<a>>) = <<>>
           /\ Head(<<a, b>>) = a /\ Tail(<<a, b>>) = <<b>>
           /\ Append(<<>>, a) = <<a>> /\ Append(<<a>>, b) = <<a, b>>
<1>1. Append(<<a>>, b) = <<a, b>>
  <2>1. <<a>> \in Seq({a, b}) /\ <<a, b>> \in Seq({a, b}) /\ Len(<<a>>) = 1 /\ Len(<<a, b>>) = 2
    OBVIOUS
  <2>2. Append(<<a>>, b) \in Seq({a, b}) /\ Len(Append(<<a>>, b)) = 2
    BY <2>1
  <2>3. Append(<<a>>, b)[1] = a /\ Append(<<a>>, b)[2] = b
    BY <2>1
  <2>4. \A i \in 1 .. Len(Append(<<a>>, b)) : Append(<<a>>, b)[i] = <<a, b>>[i]
    BY <2>2, <2>3
  <2> QED
    BY <2>1, <2>2, <2>4, SeqEqual
<1>2. <<a>> # <<>> /\ <<a, b>> # <<>>
  OBVIOUS
<1>3. Head(<<a>>) = a /\ Tail(<<a>>) = <<>>
  OBVIOUS
<1>4. Head(<<a, b>>) = a /\ Tail(<<a, b>>) = <<b>>
  OBVIOUS
<1>5. Append(<<>>, a) = <<a>>
  OBVIOUS
<1> QED
  BY <1>1, <1>2, <1>3, <1>4, <1>5

\* What a lost connection appends: one failed completion per request.
LEMMA LostRequests ==
    ASSUME NEW S, NEW s \in Seq(S), NEW k, NEW a
    PROVE  /\ s \o [i \in 1 .. Len(<<>>) |-> a] = s
           /\ <<>> \o [i \in 1 .. Len(<<k>>) |-> a] = <<a>>
<1>1. [i \in 1 .. Len(<<>>) |-> a] = <<>> /\ [i \in 1 .. Len(<<k>>) |-> a] = <<a>>
  OBVIOUS
<1>2. s \o <<>> = s
  BY ConcatEmptySeq
<1>3. <<>> \o <<a>> = <<a>>
  OBVIOUS
<1> QED
  BY <1>1, <1>2, <1>3

\* Watches at each place of the chain.
LEMMA CountWatches ==
    /\ ctx = NoCtx => Watches = 0
    /\ ctx = [data |-> 1, exist |-> 0] => Watches = 1 /\ ctx.data = 1 /\ ctx.exist = 0
    /\ ctx = [data |-> 0, exist |-> 1] => Watches = 1 /\ ctx.data = 0 /\ ctx.exist = 1
BY DEF Watches, NoCtx

-----------------------------------------------------------------------------
\* The initial states satisfy the inductive invariant.
LEMMA InitInv == Init => IInv
<1> SUFFICES ASSUME Init PROVE IInv
  OBVIOUS
<1>1. Basic
  <2>1. rev \in Nat /\ rev > 0 /\ losses \in Nat /\ node \in Revs /\ seen \in Revs /\ base \in Revs
    BY DEF Init, Revs
  <2> QED
    BY <2>1, Zenon DEF Init, Basic
<1>2. Ended
  BY DEF Init, Ended, Unwatched
<1>3. Begun /\ Checking /\ CopyOfBase /\ NewSession
  BY <1>2 DEF Init, Begun, Checking, CopyOfBase, NewSession, NoCtx
<1> QED
  BY <1>1, <1>2, <1>3 DEF IInv, Chain

\* Steps that leave the chain where it is and only move the main thread.
LEMMA MainKeeps ==
    ASSUME IInv, SetWaiting \/ CondWait \/ LoadData
    PROVE  IInv'
<1> USE DEF zkVars, mainVars
<1>1. UNCHANGED <<node, rev, link, losses, swatch, reqs, inq, ctx, base, early, check, dropped>>
  BY DEF SetWaiting, CondWait, LoadData
<1>2. Ended /\ mpc # "done" /\ mpc' # "done"
  BY DEF IInv, Begun, SetWaiting, CondWait, LoadData
<1>3. Basic'
  BY <1>1 DEF IInv, Basic, Revs, SetWaiting, CondWait, LoadData
<1>4. Ended'
  BY <1>1, <1>2 DEF Ended, Unwatched
<1>5. Begun' /\ Checking'
  BY <1>1, <1>2, <1>4 DEF IInv, Begun, Checking
<1>6. CopyOfBase' /\ NewSession'
  BY <1>1, <1>2 DEF IInv, NewSession, CopyOfBase, Ended, Unwatched, NoCtx
<1> QED
  BY <1>3, <1>4, <1>5, <1>6 DEF IInv, Chain

\* The first request starts the chain.
LEMMA AddWatchKeeps ==
    ASSUME IInv, AddWatch
    PROVE  IInv'
<1> USE DEF zkVars, mainVars
<1>1. Ended
  BY DEF IInv, Begun, AddWatch
<1>2. reqs' = <<"get">>
  BY <1>1, FewRequests DEF AddWatch, Ended
<1>3. Basic'
  BY DEF AddWatch, IInv, Basic, Revs
<1>4. Asked'
  BY <1>1, <1>2 DEF AddWatch, Asked, Ended, Unwatched, Kinds
<1>5. ~Ended'
  BY <1>2 DEF Ended
<1>6. Begun' /\ Checking' /\ CopyOfBase' /\ NewSession'
  BY <1>1, <1>2, <1>5 DEF AddWatch, IInv, Begun, Checking, CopyOfBase, NewSession, Ended
<1> QED
  BY <1>3, <1>4, <1>6 DEF IInv, Chain

\* A context is of one kind, and is not none.
LEMMA OneCtxFacts ==
    ASSUME OneCtx
    PROVE  ctx # NoCtx /\ Watches = 1 /\ reqs = <<>>
BY CountWatches DEF OneCtx, NoCtx

\* A new session begins with at most a request.
LEMMA ConnectedKeeps ==
    ASSUME IInv, Connected
    PROVE  IInv'
<1>1. ctx = NoCtx /\ inq = <<>>
  BY DEF IInv, NewSession, Connected
<1>2. Ended \/ Asked
  BY <1>1, OneCtxFacts, ShortQueues DEF IInv, Chain, Lost, Answered, Overtaken, Watched, Fired
<1>3. UNCHANGED <<node, rev, losses, swatch, reqs, inq, ctx, base, check, seen, dropped>>
  BY DEF Connected
<1>4. mpc' = "done" <=> mpc = "done"
  BY DEF Connected, Signal
<1>5. Basic'
  <2>1. link' \in {"connecting", "up", "down"} /\ early' \in BOOLEAN
    BY DEF Connected, IInv, Basic
  <2>2. mpc' \in {"init", "waiting", "blocked", "load", "failed", "watch", "done"}
    BY DEF Connected, IInv, Basic, Signal
  <2> QED
    BY <1>3, <2>1, <2>2 DEF IInv, Basic, Revs
<1>6. (Ended \/ Asked)' /\ (Ended' <=> Ended)
  BY <1>2, <1>3 DEF Ended, Asked, Unwatched
<1>7. Begun' /\ Checking' /\ CopyOfBase' /\ NewSession'
  BY <1>3, <1>4, <1>6 DEF IInv, Begun, Checking, CopyOfBase, NewSession, Connected
<1> QED
  BY <1>5, <1>6, <1>7 DEF IInv, Chain

\* A change of the node fires the watch, set or still to be reported.
LEMMA ChangeKeeps ==
    ASSUME IInv, Change
    PROVE  IInv'
<1> USE DEF mainVars
<1>1. UNCHANGED <<link, losses, reqs, ctx, base, mpc, early, check, seen, dropped>> /\ swatch' = FALSE
  BY DEF Change
<1>2. rev' \in Nat /\ rev' = rev + 1 /\ node' \in Revs' /\ \A r \in Revs : r \in Revs'
  BY DEF Change, IInv, Basic, Revs
<1>3. Basic'
  <2>1. rev' > 0 /\ seen' \in Revs' /\ base' \in Revs'
    BY <1>1, <1>2 DEF IInv, Basic
  <2> QED
    BY <1>1, <1>2, <2>1 DEF IInv, Basic
<1>4. ~swatch \/ link # "up" => inq' = inq
  BY DEF Change
<1>5. PICK e \in Events, q \in Revs' : swatch /\ link = "up" => inq' = Append(inq, Msg(e, q))
  <2>1. Event(node, node') = Msg("DELETED", node') \/ Event(node, node') = Msg("CREATED", node')
            \/ Event(node, node') = Msg("CHANGED", node')
    BY DEF Event
  <2> QED
    BY <1>2, <2>1 DEF Change, Events
<1>6. Chain' /\ (Ended' => Ended) /\ (inq' # <<>> /\ Head(inq').type = "exists" => inq # <<>> /\ Head(inq).type = "exists")
  <2>1. CASE Ended \/ Asked \/ Lost
    <3>1. inq' = inq
      BY <2>1, <1>4 DEF Ended, Asked, Lost, Unwatched
    <3> QED
      BY <2>1, <3>1, <1>1 DEF Chain, Ended, Asked, Lost, Unwatched
  <2>2. CASE Answered
    <3>1. PICK k \in Kinds, r \in Revs :
            /\ inq = <<Msg(k, r)>>
            /\ swatch => link = "up" /\ r = node /\ SetsWatch(Msg(k, r))
            /\ SetsWatch(Msg(k, r)) /\ link = "up" => swatch
      BY <2>2 DEF Answered
    <3>2. CASE swatch
      <4>1. inq' = <<Msg(k, r), Msg(e, q)>> /\ SetsWatch(Msg(k, r))
        BY <3>1, <3>2, <1>5, ShortQueues
      <4>2. Overtaken'
        BY <4>1, <2>2, <1>1, <1>2 DEF Overtaken, Answered, Unwatched
      <4> QED
        BY <4>1, <4>2, <3>1, ShortQueues DEF Chain, Ended
    <3>3. CASE ~swatch
      <4>1. inq' = inq
        BY <3>3, <1>4
      <4>2. Answered'
        BY <4>1, <3>1, <3>3, <2>2, <1>1, <1>2 DEF Answered
      <4> QED
        BY <4>1, <4>2, <3>1, ShortQueues DEF Chain, Ended
    <3> QED
      BY <3>2, <3>3
  <2>3. CASE Overtaken
    <3>1. inq' = inq
      BY <2>3, <1>4 DEF Overtaken, Unwatched
    <3>2. Overtaken'
      BY <2>3, <3>1, <1>1, <1>2 DEF Overtaken, Unwatched
    <3> QED
      BY <2>3, <3>1, <3>2, ShortQueues DEF Chain, Ended, Overtaken
  <2>4. CASE Watched
    <3>1. CASE swatch
      <4>1. inq' = <<Msg(e, q)>>
        BY <3>1, <2>4, <1>5, ShortQueues DEF Watched
      <4>2. Fired'
        BY <4>1, <2>4, <1>1 DEF Watched, Fired, OneCtx
      <4>3. Head(inq').type # "exists"
        BY <4>1, ShortQueues DEF Msg, Events
      <4> QED
        BY <4>1, <4>2, <4>3, ShortQueues DEF Chain, Ended
    <3>2. CASE ~swatch
      <4>1. inq' = inq
        BY <3>2, <1>4
      <4>2. Watched'
        BY <4>1, <3>2, <2>4, <1>1 DEF Watched, OneCtx
      <4>3. ~Ended'
        BY <2>4, <1>1, OneCtxFacts DEF Watched, Ended, Unwatched, NoCtx
      <4> QED
        BY <4>1, <4>2, <4>3 DEF Chain
    <3> QED
      BY <3>1, <3>2
  <2>5. CASE Fired
    <3>1. inq' = inq
      BY <2>5, <1>4 DEF Fired
    <3>2. Fired'
      BY <2>5, <3>1, <1>1, <1>2 DEF Fired, OneCtx
    <3> QED
      BY <2>5, <3>1, <3>2, ShortQueues DEF Chain, Ended, Fired
  <2> QED
    BY <2>1, <2>2, <2>3, <2>4, <2>5 DEF IInv, Chain
<1>7. link = "connecting" => inq' = <<>>
  BY <1>4 DEF IInv, NewSession
<1>8. mpc # "done" => Ended'
  BY <1>1, <1>4 DEF IInv, Begun, Ended, Unwatched
<1>9. Begun' /\ Checking' /\ CopyOfBase' /\ NewSession'
  BY <1>1, <1>6, <1>7, <1>8 DEF IInv, Begun, Checking, CopyOfBase, NewSession
<1> QED
  BY <1>3, <1>6, <1>9 DEF IInv

\* The place a message at the head of the queue tells of.
LEMMA HeadPlace ==
    ASSUME IInv, inq # <<>>
    PROVE  /\ Head(inq).type \in Kinds => Answered \/ Overtaken
           /\ Head(inq).type \in Events => Fired
           /\ Head(inq).type = "lost" => Lost
           /\ mpc = "done" /\ link # "connecting"
<1>1. ~Ended /\ ~Asked /\ ~Watched
  BY DEF Ended, Asked, Watched
<1>2. Lost => Head(inq).type = "lost"
  BY ShortQueues DEF Lost, Msg
<1>3. Answered => Head(inq).type \in Kinds
  <2>1. ASSUME NEW k \in Kinds, NEW r, inq = <<Msg(k, r)>> PROVE Head(inq).type \in Kinds
    BY <2>1, ShortQueues DEF Msg
  <2> QED
    BY <2>1 DEF Answered
<1>4. Overtaken => Head(inq).type \in Kinds
  <2>1. ASSUME NEW k \in Kinds, NEW r, NEW m, inq = <<Msg(k, r), m>> PROVE Head(inq).type \in Kinds
    BY <2>1, ShortQueues DEF Msg
  <2> QED
    BY <2>1 DEF Overtaken
<1>5. Fired => Head(inq).type \in Events
  <2>1. ASSUME NEW e \in Events, NEW q, inq = <<Msg(e, q)>> PROVE Head(inq).type \in Events
    BY <2>1, ShortQueues DEF Msg
  <2> QED
    BY <2>1 DEF Fired
<1>6. mpc = "done" /\ link # "connecting"
  BY <1>1 DEF IInv, Begun, NewSession
<1> QED
  BY <1>1, <1>2, <1>3, <1>4, <1>5, <1>6 DEF IInv, Chain, Kinds, Events

\* The server's answer comes with a watch, or tells that there is no node.
LEMMA AnswerKeeps ==
    ASSUME IInv, Answer
    PROVE  IInv'
<1> USE DEF zkVars, mainVars
<1>1. Asked
  BY OneCtxFacts DEF Answer, IInv, Chain, Ended, Lost, Answered, Overtaken, Watched, Fired
<1>2. PICK k \in Kinds : reqs = <<k>>
  BY <1>1 DEF Asked
<1>3. reqs' = <<>> /\ inq' = <<Msg(k, node)>> /\ (swatch' <=> k = "exists" \/ node # 0)
  BY <1>1, <1>2, ShortQueues DEF Answer, Asked, Unwatched
<1>4. SetsWatch(Msg(k, node)) <=> k = "exists" \/ node # 0
  BY DEF SetsWatch, Msg, Kinds
<1>5. Basic'
  BY DEF Answer, IInv, Basic, Revs
<1>6. Answered'
  BY <1>1, <1>3, <1>4, <1>5 DEF Answer, Answered, Asked, Unwatched, Basic, SetsWatch, Msg, Revs
<1>7. ~Ended'
  BY <1>3, ShortQueues DEF Ended
<1>8. mpc = "done"
  BY <1>2, ShortQueues DEF IInv, Begun, Ended
<1>9. Checking'
  BY <1>2, <1>3, ShortQueues DEF Answer, IInv, Checking, Msg
<1>10. Begun' /\ CopyOfBase' /\ NewSession'
  BY <1>7, <1>8 DEF Answer, IInv, Begun, CopyOfBase, NewSession
<1> QED
  BY <1>5, <1>6, <1>9, <1>10 DEF IInv, Chain

\* A lost connection fails the request under way, and keeps all else.
LEMMA LoseKeeps ==
    ASSUME IInv, Lose
    PROVE  IInv'
<1> USE DEF zkVars, mainVars
<1>1. UNCHANGED <<node, rev, ctx, base, mpc, early, check, seen, dropped>> /\ link' = "down" /\ swatch' = FALSE /\ reqs' = <<>>
  BY DEF Lose
<1>2. Basic'
  <2>1. losses' \in Nat
    BY DEF Lose, IInv, Basic
  <2> QED
    BY <1>1, <2>1 DEF IInv, Basic, Revs
<1>3. CASE Asked
  <2>1. inq' = <<Msg("lost", 0)>>
    BY <1>3, LostRequests, EmptySeq DEF Lose, Asked
  <2>2. Lost' /\ ~Ended'
    BY <1>1, <1>3, <2>1, ShortQueues DEF Lost, Ended, Asked, Unwatched
  <2>3. mpc = "done"
    BY <1>3, ShortQueues DEF IInv, Begun, Ended, Asked
  <2>4. Checking'
    BY <1>1, <2>1, ShortQueues DEF Checking, Msg
  <2> QED
    BY <1>1, <1>2, <2>2, <2>3, <2>4 DEF IInv, Chain, Begun, CopyOfBase, NewSession
<1>4. CASE ~Asked
  <2>1. reqs = <<>>
    BY <1>4 DEF IInv, Chain, Ended, Lost, Answered, Overtaken, Watched, Fired, OneCtx
  <2>2. \E S : inq \in Seq(S)
    <3>1. PICK a, b : inq = <<>> \/ inq = <<a>> \/ inq = <<a, b>>
      BY <1>4, Zenon DEF IInv, Chain, Ended, Lost, Answered, Overtaken, Watched, Fired
    <3>2. <<a>> \in Seq({a, b}) /\ <<a, b>> \in Seq({a, b})
      OBVIOUS
    <3>3. <<>> \in Seq({a, b})
      BY EmptySeq
    <3>4. inq \in Seq({a, b})
      BY <3>1, <3>2, <3>3, Zenon
    <3> QED
      BY <3>4
  <2>3. inq' = inq
    BY <2>1, <2>2, LostRequests DEF Lose
  <2>4. Chain' /\ (Ended' => Ended \/ swatch)
    BY <1>1, <1>4, <2>1, <2>3 DEF IInv, Chain, Ended, Lost, Answered, Overtaken, Watched, Fired, OneCtx, Unwatched, Revs
  <2>5. swatch => ~Ended'
    BY <1>1, <2>3, OneCtxFacts, ShortQueues
       DEF IInv, Chain, Ended, Asked, Lost, Answered, Overtaken, Watched, Fired, Unwatched, NoCtx
  <2>6. mpc # "done" => Ended'
    BY <1>1, <2>3 DEF IInv, Begun, Ended, Unwatched
  <2> QED
    BY <1>1, <1>2, <2>1, <2>3, <2>4, <2>5, <2>6 DEF IInv, Begun, Checking, CopyOfBase, NewSession
<1> QED
  BY <1>3, <1>4

\* After a reconnection a watch is set again, or its event comes at once.
LEMMA ReconnectKeeps ==
    ASSUME IInv, Reconnect
    PROVE  IInv'
<1> USE DEF mainVars
<1> DEFINE fire == IF ctx.data > 0 THEN node # base ELSE ctx.exist > 0 /\ node # 0
<1>1. UNCHANGED <<node, rev, losses, reqs, ctx, base, mpc, early, check, seen, dropped>> /\ link' = "up"
  BY DEF Reconnect
<1>2. inq' = IF fire THEN <<Event(base, node)>> ELSE <<>>
  BY DEF Reconnect
<1>3. swatch' <=> Watches > 0 /\ ~fire
  BY DEF Reconnect
<1>4. Basic'
  BY <1>1, <1>3 DEF IInv, Basic, Revs
<1>5. Ended \/ Asked \/ Watched
  BY ShortQueues DEF Reconnect, IInv, Chain, Lost, Answered, Overtaken, Fired
<1>6. CASE Ended \/ Asked
  <2>1. ~fire /\ Watches = 0
    BY <1>6, CountWatches DEF Ended, Asked, Unwatched, NoCtx
  <2>2. inq' = <<>> /\ ~swatch'
    BY <1>2, <1>3, <2>1
  <2>3. (Ended \/ Asked)' /\ (Ended' <=> Ended)
    BY <1>1, <1>6, <2>2 DEF Ended, Asked, Unwatched
  <2> QED
    BY <1>1, <1>4, <2>2, <2>3 DEF IInv, Chain, Begun, Checking, CopyOfBase, NewSession
<1>7. CASE Watched
  <2>1. Watches = 1 /\ ~Ended' /\ mpc = "done" /\ reqs = <<>>
    BY <1>1, <1>7, OneCtxFacts DEF IInv, Begun, Watched, Ended, Unwatched, NoCtx
  <2>2. ~fire => base = node
    BY <1>7 DEF Watched, OneCtx, IInv, CopyOfBase, fire
  <2>3. Chain' /\ (inq' # <<>> => Head(inq').type # "exists")
    <3>1. CASE fire
      <4>1. PICK e \in Events : inq' = <<Msg(e, node)>>
        BY <1>2, <3>1 DEF Event, Events
      <4>2. Fired'
        BY <1>1, <1>3, <1>4, <1>7, <3>1, <4>1 DEF Fired, Watched, OneCtx, Basic
      <4>3. Head(inq').type # "exists"
        BY <4>1, ShortQueues DEF Msg, Events
      <4> QED
        BY <4>2, <4>3 DEF Chain
    <3>2. CASE ~fire
      <4>1. inq' = <<>> /\ swatch'
        BY <1>2, <1>3, <2>1, <3>2
      <4>2. Watched'
        BY <1>1, <1>7, <2>2, <3>2, <4>1 DEF Watched, OneCtx
      <4> QED
        BY <4>1, <4>2 DEF Chain
    <3> QED
      BY <3>1, <3>2
  <2> QED
    BY <1>1, <1>4, <2>1, <2>3 DEF IInv, Begun, Checking, CopyOfBase, NewSession
<1> QED
  BY <1>5, <1>6, <1>7

\* A completion that comes with a watch becomes one context, whichever kind.
LEMMA WatchSet ==
    ASSUME IInv, NEW k \in Kinds, Take(k), SetsWatch(Head(inq)),
           UNCHANGED <<node, rev, link, reqs, swatch>>, base' = Head(inq).rev,
           ctx' = [data |-> 1, exist |-> 0] \/ ctx' = [data |-> 0, exist |-> 1]
    PROVE  (Watched \/ Fired)' /\ ~Ended' /\ reqs' = <<>>
           /\ (inq' # <<>> => Head(inq').type \in Events) /\ Head(inq).rev \in Revs
<1>1. inq # <<>> /\ Head(inq).type \in Kinds
  BY DEF Take
<1>2. Answered \/ Overtaken
  BY <1>1, HeadPlace
<1>3. reqs = <<>> /\ OneCtx'
  BY <1>2 DEF Answered, Overtaken, OneCtx
<1>4. ctx' # NoCtx
  BY DEF NoCtx
<1>5. CASE Answered
  <2>1. PICK j \in Kinds, r \in Revs :
          /\ inq = <<Msg(j, r)>>
          /\ swatch => link = "up" /\ r = node /\ SetsWatch(Msg(j, r))
          /\ SetsWatch(Msg(j, r)) /\ link = "up" => swatch
    BY <1>5 DEF Answered
  <2>2. Head(inq) = Msg(j, r) /\ inq' = <<>> /\ base' = r
    BY <2>1, ShortQueues DEF Take, Msg
  <2>3. Watched'
    BY <1>3, <2>1, <2>2 DEF Watched, OneCtx
  <2> QED
    BY <1>3, <1>4, <2>2, <2>3 DEF Ended, Unwatched, NoCtx, Msg
<1>6. CASE Overtaken
  <2>1. PICK j \in Kinds, r \in Revs, e \in Events, q \in Revs : inq = <<Msg(j, r), Msg(e, q)>>
    BY <1>6 DEF Overtaken
  <2>2. Head(inq).rev = r /\ inq' = <<Msg(e, q)>>
    BY <2>1, ShortQueues DEF Take, Msg
  <2>3. Fired'
    BY <1>3, <1>6, <2>2 DEF Fired, Overtaken, Unwatched, OneCtx, Revs
  <2> QED
    BY <1>3, <1>4, <2>2, <2>3, ShortQueues DEF Ended, Unwatched, Msg
<1> QED
  BY <1>2, <1>5, <1>6

\* The end of a chain in checkExists, or its next request.
LEMMA CheckExistsEffect ==
    ASSUME CheckExists(1), reqs = <<>>, check \in BOOLEAN
    PROVE  check' = TRUE /\ (reqs' = <<>> \/ reqs' = <<"exists">>)
<1>1. check' = TRUE
  <2>1. 1 > 0
    OBVIOUS
  <2> QED
    BY <2>1, Zenon DEF CheckExists
<1>2. PICK n \in {0, 1} : Requests("exists", n)
  BY DEF CheckExists
<1>3. reqs' = IF n = 0 THEN <<>> ELSE <<"exists">>
  BY <1>2, FewRequests
<1> QED
  BY <1>1, <1>3

\* A data completion sets the watch or goes on to checkExists.
LEMMA GetDataKeeps ==
    ASSUME IInv, GetDataComplete
    PROVE  IInv'
<1> USE DEF zkVars, mainVars
<1>1. Take("get") /\ base' = Head(inq).rev /\ inq # <<>> /\ Head(inq).type = "get"
      /\ UNCHANGED <<node, rev, link, losses, swatch, mpc, early, dropped>>
  BY DEF GetDataComplete, Take
<1>2. Answered \/ Overtaken
  BY <1>1, HeadPlace DEF Kinds
<1>3. ctx = NoCtx /\ reqs = <<>> /\ mpc = "done" /\ link # "connecting"
  BY <1>1, <1>2, HeadPlace DEF Answered, Overtaken, Unwatched
<1>4. CASE Head(inq).rev # 0
  <2>1. SetsWatch(Head(inq))
    BY <1>1, <1>4 DEF SetsWatch
  <2>2. seen' = Head(inq).rev /\ ctx' = [data |-> 1, exist |-> 0] /\ UNCHANGED <<reqs, check>>
    BY <1>3, <1>4 DEF GetDataComplete, NoCtx
  <2>3. (Watched \/ Fired)' /\ ~Ended' /\ (inq' # <<>> => Head(inq').type \in Events) /\ Head(inq).rev \in Revs
    BY <1>1, <2>1, <2>2, WatchSet DEF Kinds
  <2>4. Basic'
    BY <1>1, <2>2, <2>3 DEF IInv, Basic, Revs
  <2>5. Checking'
    BY <1>3, <2>2, <2>3 DEF Checking, Events
  <2>6. CopyOfBase'
    BY <1>1, <2>2 DEF CopyOfBase
  <2> QED
    BY <1>1, <1>3, <2>3, <2>4, <2>5, <2>6 DEF IInv, Chain, Begun, NewSession
<1>5. CASE Head(inq).rev = 0
  <2>1. CheckExists(1) /\ UNCHANGED <<seen, ctx>>
    BY <1>5 DEF GetDataComplete
  <2>2. check' = TRUE /\ (reqs' = <<>> \/ reqs' = <<"exists">>)
    BY <1>3, <2>1, CheckExistsEffect DEF IInv, Basic
  <2>3. ~SetsWatch(Head(inq))
    BY <1>1, <1>5 DEF SetsWatch
  <2>4. ~Overtaken
    BY <2>3, ShortQueues DEF Overtaken
  <2>5. PICK k \in Kinds, r \in Revs : inq = <<Msg(k, r)>> /\ (swatch => SetsWatch(Msg(k, r)))
    BY <1>2, <2>4 DEF Answered
  <2>6. inq' = <<>> /\ ~swatch
    BY <1>1, <2>3, <2>5, ShortQueues DEF Take
  <2>7. Basic'
    BY <1>1, <1>5, <2>1, <2>2 DEF IInv, Basic, Revs
  <2>8. (Ended \/ Asked)'
    BY <1>1, <1>3, <2>1, <2>2, <2>6 DEF Ended, Asked, Unwatched, Kinds, NoCtx
  <2>9. Begun' /\ Checking' /\ NewSession'
    BY <1>1, <1>3, <2>2, <2>6 DEF Begun, Checking, NewSession
  <2>10. CopyOfBase'
    BY <1>3, <2>1 DEF CopyOfBase, NoCtx
  <2> QED
    BY <2>7, <2>8, <2>9, <2>10 DEF IInv, Chain
<1> QED
  BY <1>4, <1>5

\* An exists completion always has a watch set on the server.
LEMMA GetExistsKeeps ==
    ASSUME IInv, GetExistsComplete
    PROVE  IInv'
<1> USE DEF zkVars, mainVars
<1>1. Take("exists") /\ base' = Head(inq).rev /\ inq # <<>> /\ Head(inq).type = "exists"
      /\ UNCHANGED <<node, rev, link, losses, swatch, reqs, mpc, early, check, dropped>>
  BY DEF GetExistsComplete, Take
<1>2. Answered \/ Overtaken
  BY <1>1, HeadPlace DEF Kinds
<1>3. ctx = NoCtx /\ reqs = <<>> /\ mpc = "done" /\ link # "connecting" /\ check
  BY <1>1, <1>2, HeadPlace DEF Answered, Overtaken, Unwatched, IInv, Checking
<1>4. SetsWatch(Head(inq))
  BY <1>1 DEF SetsWatch
<1>5. \/ ctx' = [data |-> 1, exist |-> 0] /\ seen' = seen
      \/ ctx' = [data |-> 0, exist |-> 1] /\ seen' = 0 /\ base' = 0
  BY <1>1, <1>3 DEF GetExistsComplete, NoCtx
<1>6. (Watched \/ Fired)' /\ ~Ended' /\ (inq' # <<>> => Head(inq').type \in Events) /\ Head(inq).rev \in Revs
  BY <1>1, <1>4, <1>5, WatchSet DEF Kinds
<1>7. Basic'
  BY <1>1, <1>5, <1>6 DEF IInv, Basic, Revs
<1>8. Checking'
  BY <1>1, <1>3 DEF Checking
<1>9. CopyOfBase'
  BY <1>1, <1>3, <1>5 DEF CopyOfBase
<1> QED
  BY <1>1, <1>3, <1>6, <1>7, <1>8, <1>9 DEF IInv, Chain, Begun, NewSession

\* A failed completion ends the chain.
LEMMA CompleteLostKeeps ==
    ASSUME IInv, CompleteLost
    PROVE  IInv'
<1> USE DEF zkVars, mainVars
<1>1. inq # <<>> /\ Head(inq).type = "lost" /\ inq' = Tail(inq) /\ dropped' = TRUE
      /\ UNCHANGED <<node, rev, link, losses, swatch, reqs, ctx, base, mpc, early, check, seen>>
  BY DEF CompleteLost, Take
<1>2. Lost /\ mpc = "done" /\ link # "connecting"
  BY <1>1, HeadPlace
<1>3. inq' = <<>>
  BY <1>1, <1>2, ShortQueues DEF Lost
<1>4. Ended'
  BY <1>1, <1>2, <1>3 DEF Ended, Lost, Unwatched
<1>5. Basic'
  BY <1>1 DEF IInv, Basic, Revs
<1> QED
  BY <1>1, <1>2, <1>3, <1>4, <1>5 DEF IInv, Chain, Begun, Checking, CopyOfBase, NewSession

\* An event turns the watch into the next request, or into checkExists.
LEMMA WatcherFnKeeps ==
    ASSUME IInv, WatcherFn
    PROVE  IInv'
<1> USE DEF zkVars, mainVars
<1>1. inq # <<>> /\ Head(inq).type \in Events /\ inq' = Tail(inq) /\ base' = Head(inq).rev /\ ctx' = NoCtx
      /\ UNCHANGED <<node, rev, link, losses, swatch, mpc, early, seen, dropped>>
  BY DEF WatcherFn, Take, Events
<1>2. Fired /\ mpc = "done" /\ link # "connecting"
  BY <1>1, HeadPlace
<1>3. reqs = <<>> /\ Watches = 1 /\ ~swatch
  BY <1>2, OneCtxFacts DEF Fired
<1>4. PICK e \in Events, q \in Revs : inq = <<Msg(e, q)>>
  BY <1>2 DEF Fired
<1>5. inq' = <<>> /\ base' = q
  BY <1>1, <1>4, ShortQueues DEF Msg
<1>6. /\ check' \in BOOLEAN
      /\ \/ reqs' = <<"get">>
         \/ check' = TRUE /\ (reqs' = <<>> \/ reqs' = <<"exists">>)
  <2>1. CASE OnChanged(Watches)
    BY <1>3, <2>1, FewRequests DEF OnChanged, IInv, Basic
  <2>2. CASE OnDeleted(Watches)
    BY <1>3, <2>2, CheckExistsEffect DEF OnDeleted, IInv, Basic
  <2>3. CASE OnCreated(Watches)
    <3>1. reqs' = <<"get">>
      BY <1>3, <2>3, FewRequests DEF OnCreated
    <3>2. check' \in BOOLEAN
      BY <2>3, Zenon DEF OnCreated
    <3> QED
      BY <3>1, <3>2
  <2> QED
    BY <2>1, <2>2, <2>3 DEF WatcherFn
<1>7. Basic'
  BY <1>1, <1>5, <1>6 DEF IInv, Basic, Revs
<1>8. (Ended \/ Asked)' /\ (Ended' => check')
  BY <1>1, <1>3, <1>5, <1>6, ShortQueues DEF Ended, Asked, Unwatched, Kinds, NoCtx
<1>9. Checking'
  BY <1>5, <1>6 DEF Checking
<1>10. CopyOfBase'
  BY <1>1 DEF CopyOfBase, NoCtx
<1> QED
  BY <1>1, <1>2, <1>5, <1>7, <1>8, <1>9, <1>10 DEF IInv, Chain, Begun, NewSession

\* A new session starts a chain of its own.
LEMMA ExpiredKeeps ==
    ASSUME IInv, Expired
    PROVE  IInv'
<1> USE DEF mainVars
<1>1. inq' = <<>> /\ ctx' = NoCtx /\ swatch' = FALSE /\ base' = 0 /\ check' = FALSE /\ link' = "connecting"
      /\ UNCHANGED <<node, rev, losses, mpc, early, seen, dropped>>
  BY DEF Expired
<1>2. IF mpc = "done" THEN reqs' = <<"get">> ELSE reqs' = <<>>
  BY DEF Expired
<1>3. Basic'
  <2>1. base' \in Revs' /\ seen' \in Revs' /\ node' \in Revs'
    BY <1>1 DEF IInv, Basic, Revs
  <2> QED
    BY <1>1, <2>1, Zenon DEF IInv, Basic
<1>4. IF mpc = "done" THEN Asked' /\ ~Ended' ELSE Ended'
  BY <1>1, <1>2, ShortQueues DEF Asked, Ended, Unwatched, Kinds, NoCtx
<1>5. Checking'
  BY <1>1, <1>2 DEF Checking
<1>6. CopyOfBase'
  BY <1>1 DEF CopyOfBase, NoCtx
<1> QED
  BY <1>1, <1>3, <1>4, <1>5, <1>6 DEF IInv, Chain, Begun, NewSession

-----------------------------------------------------------------------------
\* The invariant is kept by every step, one lemma per action.
THEOREM Inductive == Spec => []IInv
<1>1. IInv /\ [Next]_vars => IInv'
  <2> SUFFICES ASSUME IInv, [Next]_vars PROVE IInv'
    OBVIOUS
  <2>1. CASE UNCHANGED vars
    BY <2>1 DEF vars, IInv, Basic, Revs, Chain, Ended, Asked, Lost, Answered, Overtaken, Watched,
                Fired, OneCtx, Unwatched, Begun, Checking, CopyOfBase, NewSession
  <2>2. CASE Main
    BY <2>2, MainKeeps, AddWatchKeeps DEF Main
  <2>3. CASE Callback
    BY <2>3, GetDataKeeps, GetExistsKeeps, CompleteLostKeeps, WatcherFnKeeps, ExpiredKeeps DEF Callback
  <2> QED
    BY <2>1, <2>2, <2>3, ConnectedKeeps, ChangeKeeps, AnswerKeeps, LoseKeeps, ReconnectKeeps DEF Next
<1> QED
  BY <1>1, InitInv, PTL DEF Spec

\* A queue has at most one completion, and then there is nothing else.
LEMMA OneCompletion ==
    ASSUME IInv
    PROVE  \/ Cardinality(Completions) = 0
           \/ Cardinality(Completions) = 1 /\ Watches = 0 /\ reqs = <<>>
<1>1. CASE Ended \/ Asked \/ Watched \/ Fired
  <2>1. Completions = {}
    BY <1>1 DEF Completions, Ended, Asked, Watched, Fired, Msg
  <2> QED
    BY <2>1, FS_EmptySet
<1>2. CASE Lost \/ Answered
  <2>1. PICK t, r : inq = <<Msg(t, r)>> /\ t \notin Events
    BY <1>2 DEF Lost, Answered, Kinds, Events
  <2>2. DOMAIN inq = {1} /\ inq[1].type = t
    BY <2>1 DEF Msg
  <2>3. Completions = {1}
    BY <2>1, <2>2 DEF Completions
  <2>4. Watches = 0 /\ reqs = <<>>
    BY <1>2, CountWatches DEF Lost, Answered, Unwatched
  <2> QED
    BY <2>3, <2>4, FS_Singleton
<1>3. CASE Overtaken
  <2>1. PICK t \in Kinds, r \in Revs, e \in Events, q \in Revs : inq = <<Msg(t, r), Msg(e, q)>>
    BY <1>3 DEF Overtaken
  <2>2. DOMAIN inq = {1, 2} /\ inq[1].type = t /\ inq[2].type = e
    BY <2>1 DEF Msg
  <2>3. Completions = {1}
    BY <2>1, <2>2 DEF Completions, Kinds, Events
  <2>4. Watches = 0 /\ reqs = <<>>
    BY <1>3, CountWatches DEF Overtaken, Unwatched
  <2> QED
    BY <2>3, <2>4, FS_Singleton
<1> QED
  BY <1>1, <1>2, <1>3 DEF IInv, Chain

\* Every variable keeps its type.
THEOREM TypesKept == Spec => []TypeOK
<1>1. IInv => TypeOK
  <2> SUFFICES ASSUME IInv PROVE TypeOK
    OBVIOUS
  <2>1. ctx \in [{"data", "exist"} -> Nat]
    BY DEF IInv, Chain, Ended, Asked, Lost, Answered, Overtaken, Watched, Fired, Unwatched, OneCtx, NoCtx
  <2>2. \A i \in DOMAIN inq : inq[i].type \in Events \cup {"get", "exists", "lost"}
    <3>1. CASE inq = <<>>
      BY <3>1
    <3>2. CASE Overtaken
      <4>1. PICK k \in Kinds, r \in Revs, e \in Events, q \in Revs : inq = <<Msg(k, r), Msg(e, q)>>
        BY <3>2 DEF Overtaken
      <4> QED
        BY <4>1 DEF Msg, Kinds
    <3>3. CASE Lost \/ Answered \/ Fired
      <4>1. PICK t \in Events \cup {"get", "exists", "lost"}, r \in Revs : inq = <<Msg(t, r)>>
        BY <3>3, SMTT(30) DEF IInv, Basic, Revs, Lost, Answered, Fired, Kinds
      <4> QED
        BY <4>1 DEF Msg
    <3> QED
      BY <3>1, <3>2, <3>3 DEF IInv, Chain, Ended, Asked, Watched
  <2>3. \A i \in DOMAIN reqs : reqs[i] \in {"get", "exists"}
    BY DEF IInv, Chain, Ended, Asked, Lost, Answered, Overtaken, Watched, Fired, OneCtx, Kinds
  <2> QED
    BY <2>1, <2>2, <2>3 DEF TypeOK, IInv, Basic, Revs
<1> QED
  BY <1>1, Inductive, PTL

\* The chain of request, completion and watch never has two links: a watcher
\* asks once per event, however events, losses and sessions follow each other.
THEOREM SingleChain == Spec => []OneChain
<1>1. IInv => OneChain
  <2> SUFFICES ASSUME IInv PROVE OneChain
    OBVIOUS
  <2>1. Watches \in {0, 1} /\ (Watches = 1 => reqs = <<>>)
    BY CountWatches, OneCtxFacts
       DEF IInv, Chain, Ended, Asked, Lost, Answered, Overtaken, Watched, Fired, Unwatched, OneCtx
  <2>2. Len(reqs) \in {0, 1} /\ (Len(reqs) = 1 => reqs # <<>>)
    BY OneCtxFacts DEF IInv, Chain, Ended, Asked, Lost, Answered, Overtaken, Watched, Fired
  <2>3. reqs = <<>> => Len(reqs) = 0
    OBVIOUS
  <2> QED
    BY <2>1, <2>2, <2>3, OneCompletion DEF OneChain, Completions
<1> QED
  BY <1>1, Inductive, PTL

\* A settled watcher without a watch lost it to a connection loss or in
\* checkExists: there is no third way to stop following the node.
THEOREM ChainEnds == Spec => []ChainAlive
<1>1. IInv => ChainAlive
  <2> SUFFICES ASSUME IInv, Settled, Watches = 0 PROVE dropped \/ check
    BY DEF ChainAlive
  <2>1. Ended
    BY OneCtxFacts, ShortQueues
       DEF IInv, Chain, Asked, Lost, Answered, Overtaken, Watched, Fired, Settled
  <2> QED
    BY <2>1 DEF IInv, Begun, Settled
<1> QED
  BY <1>1, Inductive, PTL

\* A settled watcher with a watch has the node's current data, unless
\* m_check_exists has stayed set.
THEOREM CopyCurrent == Spec => []SeenCurrent
<1>1. IInv => SeenCurrent
  <2> SUFFICES ASSUME IInv, Settled, Watches > 0, ctx.exist > 0 \/ ~check PROVE seen = node
    BY DEF SeenCurrent
  <2>1. Watched
    BY CountWatches, ShortQueues
       DEF IInv, Chain, Ended, Asked, Lost, Answered, Overtaken, Fired, Settled, Unwatched
  <2>2. base = node
    BY <2>1 DEF Watched, Settled
  <2>3. ctx.exist = 1 \/ (ctx.exist = 0 /\ ctx.data = 1)
    BY <2>1, CountWatches DEF Watched, OneCtx
  <2> QED
    BY <2>2, <2>3 DEF IInv, CopyOfBase
<1> QED
  BY <1>1, Inductive, PTL

-----------------------------------------------------------------------------
(***************************************************************************)
(* The other module about ZooKeeper, StatusNode: OwnNode is inductive      *)
(* together with the types.  The theorem on the owner's session is the     *)
(* safety half of Unlisted: a node can stay only as long as the ensemble   *)
(* holds a live session for it.                                            *)
(***************************************************************************)

\* Where a main thread can be.
PcStates == {"off", "create", "loop", "repcreate", "delete", "close", "ended"}

\* Whoever owns the node has a live session.
OwnerLive == statusNode.owner # 0 => sess[statusNode.owner] = "live"

StatusInv == NodeTypeOK /\ OwnNode /\ OwnerLive

\* The node is NoNode exactly when nobody owns it.
LEMMA NodeShape ==
  ASSUME statusNode \in Node
  PROVE  /\ statusNode.owner \in Procs \cup {0}
         /\ statusNode.owner = 0 <=> statusNode = NoNode
  BY DEF Node, NoNode, Procs

\* The initial state satisfies the invariant: no process, no node.
LEMMA StatusInit == NodeInit => StatusInv
<1> SUFFICES ASSUME NodeInit PROVE StatusInv
  OBVIOUS
<1>1. NodeTypeOK
  BY BoundsAssumption DEF NodeInit, NodeTypeOK, Node
<1>2. OwnNode
  BY DEF NodeInit, OwnNode, Serving
<1>3. OwnerLive
  BY DEF NodeInit, OwnerLive, NoNode
<1> QED
  BY <1>1, <1>2, <1>3 DEF StatusInv

\* What a request does to the node and to robbed: it leaves them, writes the
\* data, creates the node where there is none, or (delete only) removes it.
Kept == statusNode' = statusNode /\ robbed' = robbed

Request(p) ==
  /\ reqLosses' \in 0..MaxLoss
  /\ \/ Kept
     \/ statusNode # NoNode /\ SetData(p)
     \/ statusNode = NoNode /\ sess[p] = "live" /\ CreateEphemeral(p)

\* createEphemeralNode is such a request.
LEMMA CreateRequest ==
  ASSUME NodeTypeOK, NEW p \in Procs, NEW ret, ZooCreate(p, ret)
  PROVE  /\ Request(p)
         /\ ret = 0 => statusNode = NoNode /\ sess[p] = "live" /\ CreateEphemeral(p)
  BY BoundsAssumption DEF NodeTypeOK, ZooCreate, Reached, Failed,
     Unheard, Request, Kept

\* setNodeData is such a request.
LEMMA SetRequest ==
  ASSUME NodeTypeOK, NEW p \in Procs, NEW ret, ZooSet(p, ret)
  PROVE  Request(p)
  BY BoundsAssumption DEF NodeTypeOK, ZooSet, Reached, Failed,
     Unheard, Request, Kept

\* A request by a process whose session stays as it is, and that is not newly
\* serving, keeps the invariant.
LEMMA RequestInv ==
  ASSUME StatusInv, NEW p \in Procs, Request(p),
         pc' \in [Procs -> PcStates], run' \in [Procs -> BOOLEAN],
         cb' \in [Procs -> {"idle", "set", "create"}], UNCHANGED <<sess, expiries>>,
         \A q \in Procs : Serving(q)'
           => Serving(q) \/ (q = p /\ statusNode'.owner = p)
  PROVE  StatusInv'
<1> USE DEF StatusInv
<1>1. statusNode' \in Node /\ robbed' \in [Procs -> BOOLEAN]
  <2>1. CASE Kept
    BY <2>1 DEF NodeTypeOK, Kept
  <2>2. CASE statusNode # NoNode /\ SetData(p)
    BY <2>2 DEF NodeTypeOK, SetData, Node, NoNode
  <2>3. CASE statusNode = NoNode /\ CreateEphemeral(p)
    BY <2>3 DEF NodeTypeOK, CreateEphemeral, Node
  <2> QED
    BY <2>1, <2>2, <2>3 DEF Request
<1>2. NodeTypeOK'
  BY <1>1 DEF NodeTypeOK, Request, PcStates
<1>3. OwnNode'
  <2> SUFFICES ASSUME NEW q \in Procs, Serving(q)', ~robbed'[q]
               PROVE  statusNode'.owner = q
    BY DEF OwnNode, Serving
  <2>1. CASE ~Serving(q)
    BY <2>1
  <2>2. CASE Serving(q) /\ Kept
    BY <2>2 DEF OwnNode, Kept
  <2>3. CASE Serving(q) /\ statusNode # NoNode /\ SetData(p)
    BY <2>3 DEF OwnNode, SetData, NodeTypeOK, Node, NoNode
  <2>4. CASE Serving(q) /\ statusNode = NoNode /\ CreateEphemeral(p)
    <3>1. q = p \/ ~robbed[q]
      BY <2>4 DEF CreateEphemeral, NodeTypeOK
    <3>2. q # p => statusNode.owner = q
      BY <3>1, <2>4 DEF OwnNode
    <3>3. q = p
      BY <3>2, <2>4 DEF NoNode, Procs
    <3> QED
      BY <3>3, <2>4 DEF CreateEphemeral
  <2> QED
    BY <2>1, <2>2, <2>3, <2>4 DEF Request
<1>4. OwnerLive'
  <2>1. CASE Kept
    BY <2>1 DEF OwnerLive, Kept
  <2>2. CASE statusNode # NoNode /\ SetData(p)
    BY <2>2 DEF OwnerLive, SetData, NodeTypeOK, Node, NoNode
  <2>3. CASE sess[p] = "live" /\ CreateEphemeral(p)
    BY <2>3 DEF OwnerLive, CreateEphemeral
  <2> QED
    BY <2>1, <2>2, <2>3 DEF Request
<1> QED
  BY <1>2, <1>3, <1>4

\* The main thread's steps keep the invariant.
LEMMA MainInv ==
  ASSUME StatusInv, NEW p \in Procs, MainThread(p)
  PROVE  StatusInv'
<1> USE DEF StatusInv
<1>1. CASE InitStatusNode(p)
  <2>1. PICK ret \in {0, -1} :
          /\ ZooCreate(p, ret)
          /\ pc' = [pc EXCEPT ![p] = IF ret = 0 THEN "loop" ELSE "ended"]
          /\ run' = [run EXCEPT ![p] = ret = 0]
    BY <1>1 DEF InitStatusNode
  <2>2. Request(p) /\ (ret = 0 => CreateEphemeral(p))
    BY <2>1, CreateRequest
  <2>3. ret = 0 => statusNode'.owner = p
    BY <2>2 DEF CreateEphemeral
  <2>4. pc' \in [Procs -> PcStates] /\ run' \in [Procs -> BOOLEAN]
    BY <2>1 DEF NodeTypeOK, PcStates
  <2>5. cb' \in [Procs -> {"idle", "set", "create"}] /\ UNCHANGED <<sess, expiries>>
    BY <1>1 DEF InitStatusNode, NodeTypeOK
  <2>6. \A q \in Procs : Serving(q)'
          => Serving(q) \/ (q = p /\ statusNode'.owner = p)
    BY <2>1, <2>3 DEF Serving, NodeTypeOK
  <2> QED
    BY <2>2, <2>4, <2>5, <2>6, RequestInv
<1>2. CASE Report(p)
  <2>1. PICK ret \in {"ok", "nonode", "error"} :
          /\ ZooSet(p, ret)
          /\ pc' = [pc EXCEPT ![p] = IF ret = "nonode" THEN "repcreate" ELSE "loop"]
    BY <1>2 DEF Report
  <2>2. Request(p)
    BY <2>1, SetRequest
  <2>3. pc' \in [Procs -> PcStates] /\ run' \in [Procs -> BOOLEAN]
        /\ cb' \in [Procs -> {"idle", "set", "create"}] /\ UNCHANGED <<sess, expiries>>
    BY <1>2, <2>1 DEF Report, NodeTypeOK, PcStates
  <2>4. \A q \in Procs : Serving(q)' => Serving(q)
    BY <1>2, <2>1 DEF Report, Serving, NodeTypeOK
  <2> QED
    BY <2>2, <2>3, <2>4, RequestInv
<1>3. CASE ReportCreate(p)
  <2>1. PICK ret \in {0, -1} : ZooCreate(p, ret)
    BY <1>3 DEF ReportCreate
  <2>2. Request(p)
    BY <2>1, CreateRequest
  <2>3. pc' \in [Procs -> PcStates] /\ run' \in [Procs -> BOOLEAN]
        /\ cb' \in [Procs -> {"idle", "set", "create"}] /\ UNCHANGED <<sess, expiries>>
    BY <1>3 DEF ReportCreate, NodeTypeOK, PcStates
  <2>4. \A q \in Procs : Serving(q)' => Serving(q)
    BY <1>3 DEF ReportCreate, Serving, NodeTypeOK
  <2> QED
    BY <2>2, <2>3, <2>4, RequestInv
<1>4. CASE LeaveLoop(p)
  BY <1>4 DEF LeaveLoop, NodeTypeOK, OwnNode, OwnerLive, Serving
<1>5. CASE DeleteNode(p)
  <2>1. ~Serving(p)' /\ \A q \in Procs : Serving(q)' => Serving(q)
    BY <1>5 DEF DeleteNode, Serving, NodeTypeOK
  <2>2. (Remove(p) \/ Kept) /\ reqLosses' \in 0..MaxLoss
    BY <1>5, BoundsAssumption DEF DeleteNode, ZooDelete, Reached,
       Failed, Unheard, Kept, NodeTypeOK
  <2>3. statusNode' \in Node /\ robbed' \in [Procs -> BOOLEAN]
    BY <2>2 DEF Remove, Kept, NodeTypeOK, Node
  <2>4. NodeTypeOK'
    BY <1>5, <2>2, <2>3 DEF DeleteNode, NodeTypeOK
  <2>5. OwnNode'
    <3> SUFFICES ASSUME NEW q \in Procs, Serving(q)', ~robbed'[q]
                 PROVE  statusNode'.owner = q
      BY DEF OwnNode, Serving
    <3>1. q # p /\ Serving(q)
      BY <2>1
    <3>2. CASE Kept
      BY <3>1, <3>2 DEF Kept, OwnNode
    <3>3. CASE Remove(p)
      <4>1. ~robbed[q] /\ q # statusNode.owner
        BY <3>1, <3>3 DEF Remove
      <4> QED
        BY <4>1, <3>1 DEF OwnNode
    <3> QED
      BY <2>2, <3>2, <3>3
  <2>6. OwnerLive'
    BY <1>5, <2>2 DEF DeleteNode, OwnerLive, Remove, Kept, NoNode
  <2> QED
    BY <2>4, <2>5, <2>6
<1>6. CASE CloseSession(p)
  <2>1. ~Serving(p)' /\ \A q \in Procs : Serving(q)' => Serving(q)
    BY <1>6 DEF CloseSession, Serving, NodeTypeOK
  <2>2. CASE /\ Reached(p)
             /\ sess' = [sess EXCEPT ![p] = "closed"]
             /\ statusNode' = IF statusNode.owner = p THEN NoNode ELSE statusNode
             /\ UNCHANGED robbed
    <3>1. NodeTypeOK'
      BY <1>6, <2>2 DEF CloseSession, Reached, NodeTypeOK, Node
    <3>2. OwnNode'
      BY <2>1, <2>2 DEF OwnNode, Serving
    <3>3. OwnerLive'
      BY <2>2, NodeShape DEF OwnerLive, NodeTypeOK, NoNode
    <3> QED
      BY <3>1, <3>2, <3>3
  <2>3. CASE Failed(p) /\ UNCHANGED sess
    <3>1. NodeTypeOK'
      BY <1>6, <2>3, BoundsAssumption DEF CloseSession, Failed, NodeTypeOK
    <3>2. OwnNode'
      BY <2>1, <2>3 DEF OwnNode, Serving, Failed
    <3>3. OwnerLive'
      BY <2>3 DEF OwnerLive, Failed
    <3> QED
      BY <3>1, <3>2, <3>3
  <2> QED
    BY <1>6, <2>2, <2>3 DEF CloseSession
<1> QED
  BY <1>1, <1>2, <1>3, <1>4, <1>5, <1>6 DEF MainThread

\* The callback thread's steps keep the invariant.
LEMMA CallbackInv ==
  ASSUME StatusInv, NEW p \in Procs, CallbackThread(p)
  PROVE  StatusInv'
<1> USE DEF StatusInv
<1>1. CASE Reinit(p)
  <2>1. NodeTypeOK'
    BY <1>1 DEF Reinit, NodeTypeOK
  <2>2. OwnNode'
    BY <1>1 DEF Reinit, OwnNode, Serving
  <2>3. OwnerLive'
    BY <1>1, NodeShape DEF Reinit, OwnerLive, NodeTypeOK
  <2> QED
    BY <2>1, <2>2, <2>3
<1>2. CASE ReinitFails(p)
  <2>1. NodeTypeOK'
    BY <1>2, BoundsAssumption DEF ReinitFails, NodeTypeOK
  <2>2. OwnNode'
    BY <1>2 DEF ReinitFails, OwnNode, Serving
  <2>3. OwnerLive'
    BY <1>2, NodeShape DEF ReinitFails, OwnerLive, NodeTypeOK
  <2> QED
    BY <2>1, <2>2, <2>3
<1>3. CASE RebuildSet(p)
  <2>1. PICK ret \in {"ok", "nonode", "error"} :
          /\ ZooSet(p, ret)
          /\ cb' = [cb EXCEPT ![p] = IF ret = "nonode" THEN "create" ELSE "idle"]
    BY <1>3 DEF RebuildSet
  <2>2. Request(p)
    BY <2>1, SetRequest
  <2>3. pc' \in [Procs -> PcStates] /\ run' \in [Procs -> BOOLEAN]
        /\ cb' \in [Procs -> {"idle", "set", "create"}] /\ UNCHANGED <<sess, expiries>>
    BY <1>3, <2>1 DEF RebuildSet, NodeTypeOK, PcStates
  <2>4. \A q \in Procs : Serving(q)' => Serving(q)
    BY <1>3 DEF RebuildSet, Serving
  <2> QED
    BY <2>2, <2>3, <2>4, RequestInv
<1>4. CASE RebuildCreate(p)
  <2>1. PICK ret \in {0, -1} : ZooCreate(p, ret)
    BY <1>4 DEF RebuildCreate
  <2>2. Request(p)
    BY <2>1, CreateRequest
  <2>3. pc' \in [Procs -> PcStates] /\ run' \in [Procs -> BOOLEAN]
        /\ cb' \in [Procs -> {"idle", "set", "create"}] /\ UNCHANGED <<sess, expiries>>
    BY <1>4 DEF RebuildCreate, NodeTypeOK, PcStates
  <2>4. \A q \in Procs : Serving(q)' => Serving(q)
    BY <1>4 DEF RebuildCreate, Serving
  <2> QED
    BY <2>2, <2>3, <2>4, RequestInv
<1> QED
  BY <1>1, <1>2, <1>3, <1>4 DEF CallbackThread

\* An expiry takes the node and robs its owner.
LEMMA ExpiryInv ==
  ASSUME StatusInv, NEW p \in Procs, Expiry(p),
         UNCHANGED <<pc, run, cb, reqLosses>>,
         expiries' \in 0..MaxExpire
  PROVE  StatusInv'
<1> USE DEF StatusInv
<1>1. NodeTypeOK'
  BY DEF Expiry, NodeTypeOK, Node
<1>2. OwnNode'
  <2> SUFFICES ASSUME NEW q \in Procs, Serving(q), ~robbed'[q]
               PROVE  statusNode'.owner = q
    BY DEF OwnNode, Serving
  <2>1. ~robbed[q] /\ (q = p => statusNode.owner # p)
    BY DEF Expiry, NodeTypeOK
  <2>2. statusNode.owner = q
    BY <2>1 DEF OwnNode
  <2> QED
    BY <2>1, <2>2 DEF Expiry
<1>3. OwnerLive'
  BY NodeShape DEF Expiry, OwnerLive, NodeTypeOK, NoNode
<1> QED
  BY <1>1, <1>2, <1>3

\* Every step keeps the invariant.
LEMMA StatusStep == StatusInv /\ [NodeNext]_(nodeVars) => StatusInv'
<1> SUFFICES ASSUME StatusInv, [NodeNext]_(nodeVars) PROVE StatusInv'
  OBVIOUS
<1>1. CASE UNCHANGED nodeVars
  BY <1>1 DEF StatusInv, nodeVars, NodeTypeOK, OwnNode, Serving, OwnerLive
<1>2. ASSUME NEW p \in Procs, Start(p) PROVE StatusInv'
  <2>1. NodeTypeOK'
    BY <1>2 DEF StatusInv, Start, NodeTypeOK
  <2>2. OwnNode'
    BY <1>2 DEF StatusInv, Start, NodeTypeOK, OwnNode, Serving
  <2>3. OwnerLive'
    BY <1>2, NodeShape DEF StatusInv, Start, NodeTypeOK, OwnerLive
  <2> QED
    BY <2>1, <2>2, <2>3 DEF StatusInv
<1>3. ASSUME NEW p \in Procs, Stop(p) PROVE StatusInv'
  BY <1>3 DEF StatusInv, Stop, NodeTypeOK, OwnNode, Serving, OwnerLive
<1>4. ASSUME NEW p \in Procs, Crash(p) PROVE StatusInv'
  BY <1>4 DEF StatusInv, Crash, NodeTypeOK, OwnNode, Serving, OwnerLive
<1>5. ASSUME NEW p \in Procs, ExpireRunning(p) PROVE StatusInv'
  <2>1. expiries' \in 0..MaxExpire
    BY <1>5, BoundsAssumption DEF StatusInv, ExpireRunning, NodeTypeOK
  <2> QED
    BY <1>5, <2>1, ExpiryInv DEF ExpireRunning
<1>6. ASSUME NEW p \in Procs, ExpireEnded(p) PROVE StatusInv'
  <2>1. expiries' \in 0..MaxExpire
    BY <1>6 DEF StatusInv, ExpireEnded, NodeTypeOK
  <2> QED
    BY <1>6, <2>1, ExpiryInv DEF ExpireEnded
<1> QED
  BY <1>1, <1>2, <1>3, <1>4, <1>5, <1>6, MainInv, CallbackInv DEF NodeNext

\* The invariant holds throughout.
LEMMA StatusInvariance == NodeSpec => []StatusInv
  BY StatusInit, StatusStep, PTL DEF NodeSpec

\* A serving process owns the node unless its session expired or another process
\* deleted the node: initStatusNode insists on creating it (server_status.cpp:179).
THEOREM OwnsNode == NodeSpec => []OwnNode
<1>1. StatusInv => OwnNode
  BY DEF StatusInv
<1> QED
  BY <1>1, StatusInvariance, PTL

\* The variables keep their types, whatever the number of processes.
THEOREM TypesOfStatusNode == NodeSpec => []NodeTypeOK
<1>1. StatusInv => NodeTypeOK
  BY DEF StatusInv
<1> QED
  BY <1>1, StatusInvariance, PTL

\* The node never outlives the session it was created in (zk_client.cpp:263 makes
\* it ephemeral), whichever processes write to it or die.
THEOREM NodeHasLiveOwner == NodeSpec => []OwnerLive
<1>1. StatusInv => OwnerLive
  BY DEF StatusInv
<1> QED
  BY <1>1, StatusInvariance, PTL
=============================================================================

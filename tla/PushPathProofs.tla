--------------------------- MODULE PushPathProofs ---------------------------
(***************************************************************************)
(* Proofs about PushPath, for any sessions, servers and bounds: the count  *)
(* in the answers, the order of the pushes, and that every step of the     *)
(* path is a step of PushDelivery.  A request has one place in the stream, *)
(* a push one place on its way to a session.                               *)
(***************************************************************************)
EXTENDS PushPath, FiniteSetTheorems, SequenceTheorems, TLAPS

Request == [kind : Kinds, len : Nat, end : Nat]
Message == [sess : Sessions, req : Nat]
Link == [st : {"none", "up", "broken"}, q : Seq(Message)]

\* Where the first d requests of s end.
EndOf(s, d) == IF d = 0 THEN 0 ELSE s[d].end

\* The requests lie one after another.
IsStream(s) ==
  /\ s \in Seq(Request)
  /\ \A i \in 1..Len(s) : /\ s[i].len \in HeadSize..MaxLen /\ s[i].end > 0
                          /\ s[i].end - s[i].len = EndOf(s, i - 1)
  /\ \A i, j \in 1..Len(s) : i < j => s[i].end < s[j].end

\* Whole requests have been taken from what was received.
Stream ==
  /\ IsStream(sent) /\ rcvd \in Nat /\ rcvd <= Total
  /\ \E d \in 0..Len(sent) : off = EndOf(sent, d) /\ off <= rcvd

\* The interface.
Api ==
  /\ lpc \in {"idle", "packets", "failing"} /\ api \in {"open", "closed"}
  /\ lpc # "idle" => api = "open"
  /\ answers \in Seq([req : Nat, status : -1..Cardinality(Sessions)])
  /\ wired \in Nat /\ seen \in 0..wired /\ wired <= Len(answers)
  /\ \A i \in 1..Len(answers) : answers[i].req \in 1..Done

Typed ==
  /\ cur \in [Servers -> 0..MaxLinks]
  /\ link \in [Servers -> [1..MaxLinks -> Link]]
  /\ queue \in [Sessions -> Seq(Nat)] /\ got \in [Sessions -> Seq(Nat)]
  /\ up \subseteq Sessions

OnLink(v, i) == 1..Len(link[v][i].q)

\* Connections to the connect servers: a push is on one of its session's server.
Placed ==
  \A v \in Servers :
    /\ cur[v] # 0 => link[v][cur[v]].st # "none"
    /\ \A i \in 1..MaxLinks :
         /\ link[v][i].st = "none" => link[v][i].q = <<>>
         /\ \A k \in OnLink(v, i) : consvid[link[v][i].q[k].sess] = v

\* Only the first d requests are under way or have arrived.
Bounded(d) ==
  /\ \A v \in Servers, i \in 1..MaxLinks : \A k \in OnLink(v, i) : link[v][i].q[k].req <= d
  /\ \A s \in Sessions : \A k \in 1..Len(queue[s]) : queue[s][k] <= d
  /\ \A s \in Sessions : \A k \in 1..Len(got[s]) : got[s][k] <= d

\* A push is under way to a session in one place.
Distinct ==
  /\ \A v \in Servers, i, j \in 1..MaxLinks : \A k \in OnLink(v, i), m \in OnLink(v, j) :
       link[v][i].q[k] = link[v][j].q[m] => i = j /\ k = m
  /\ \A v \in Servers, i \in 1..MaxLinks, s \in Sessions : \A k \in OnLink(v, i), m \in 1..Len(queue[s]) :
       link[v][i].q[k].sess = s => link[v][i].q[k].req # queue[s][m]
  /\ \A s \in Sessions : \A k, m \in 1..Len(queue[s]) : k # m => queue[s][k] # queue[s][m]

Single(s) == \A i \in 2..MaxLinks : link[consvid[s]][i].st = "none"

\* What has reached s, what waits in its loop, and what is on its server's only
\* connection are in the order of the requests.
Ordered(s) ==
  /\ \A k, m \in 1..Len(got[s]) : k < m => got[s][k] < got[s][m]
  /\ \A k, m \in 1..Len(queue[s]) : k < m => queue[s][k] < queue[s][m]
  /\ \A k \in 1..Len(got[s]), m \in 1..Len(queue[s]) : got[s][k] < queue[s][m]
  /\ \A i \in 1..MaxLinks : \A m \in OnLink(consvid[s], i) :
       link[consvid[s]][i].q[m].sess = s =>
         LET r == link[consvid[s]][i].q[m].req
         IN  /\ \A k \in 1..Len(got[s]) : got[s][k] < r
             /\ \A k \in 1..Len(queue[s]) : queue[s][k] < r
             /\ \A k \in OnLink(consvid[s], i) :
                  k < m /\ link[consvid[s]][i].q[k].sess = s => link[consvid[s]][i].q[k].req < r

AllOrdered == \A s \in Sessions : Single(s) => Ordered(s)

Path(d) == Typed /\ Placed /\ Bounded(d) /\ Distinct /\ AllOrdered

Inv == Stream /\ Api /\ Path(Done) /\ CountExact

-----------------------------------------------------------------------------
(* The stream of requests *)

\* The sizes and numbers.
LEMMA ConstantFacts ==
  /\ HeadSize \in Nat /\ HeadSize > 0 /\ MaxLen \in Nat /\ MaxReq \in Nat /\ MaxLinks \in Nat
  /\ \A n \in Lengths : n \in HeadSize..MaxLen
  /\ IsFiniteSet(Sessions) /\ Cardinality(Sessions) \in Nat /\ consvid \in [Sessions -> Servers]
  BY PushPathAssumption, FS_CardinalityType DEF PushPathAssumption

\* Ends of requests grow.
LEMMA EndFacts ==
  ASSUME NEW s, IsStream(s)
  PROVE  /\ Len(s) \in Nat /\ DOMAIN s = 1..Len(s)
         /\ \A i \in 1..Len(s) : s[i] \in Request /\ s[i].end \in Nat /\ s[i].len \in Nat /\ s[i].kind \in Kinds
         /\ \A d \in 0..Len(s) : EndOf(s, d) \in Nat
         /\ \A d, e \in 0..Len(s) : d < e => EndOf(s, d) < EndOf(s, e)
<1>1. Len(s) \in Nat /\ DOMAIN s = 1..Len(s) /\ \A i \in 1..Len(s) : s[i] \in Request
  BY DEF IsStream
<1>2. \A i \in 1..Len(s) : s[i].end \in Nat /\ s[i].len \in Nat /\ s[i].kind \in Kinds
  BY <1>1 DEF Request
<1>3. \A d \in 0..Len(s) : EndOf(s, d) \in Nat
  BY <1>1, <1>2 DEF EndOf
<1>4. ASSUME NEW d \in 0..Len(s), NEW e \in 0..Len(s), d < e PROVE EndOf(s, d) < EndOf(s, e)
  <2>1. e \in 1..Len(s) /\ EndOf(s, e) = s[e].end
    BY <1>1, <1>4 DEF EndOf
  <2>2. CASE d = 0
    BY <2>1, <2>2, <1>2 DEF IsStream, EndOf
  <2>3. CASE d # 0
    <3>1. d \in 1..Len(s) /\ EndOf(s, d) = s[d].end
      BY <1>1, <2>3 DEF EndOf
    <3> QED
      BY <1>4, <2>1, <3>1 DEF IsStream
  <2> QED
    BY <2>2, <2>3
<1> QED
  BY <1>1, <1>2, <1>3, <1>4

\* The number of requests that end where the first d end.
LEMMA CountFacts ==
  ASSUME NEW s, IsStream(s), NEW d \in 0..Len(s)
  PROVE  Cardinality({i \in DOMAIN s : s[i].end <= EndOf(s, d)}) = d
<1>1. Len(s) \in Nat /\ DOMAIN s = 1..Len(s)
  BY EndFacts
<1>2. ASSUME NEW i \in 1..Len(s) PROVE s[i].end <= EndOf(s, d) <=> i <= d
  <2>1. i \in 0..Len(s) /\ EndOf(s, i) = s[i].end /\ EndOf(s, i) \in Nat /\ EndOf(s, d) \in Nat
    BY <1>1, EndFacts DEF EndOf
  <2>2. (i < d => EndOf(s, i) < EndOf(s, d)) /\ (d < i => EndOf(s, d) < EndOf(s, i))
    BY <2>1, EndFacts
  <2>3. i < d \/ i = d \/ d < i
    BY <1>1
  <2> QED
    BY <1>1, <2>1, <2>2, <2>3
<1>3. {i \in DOMAIN s : s[i].end <= EndOf(s, d)} = 1..d
  BY <1>1, <1>2
<1>4. Cardinality(1..d) = d
  BY <1>1, FS_Interval
<1> QED
  BY <1>3, <1>4

\* Done is the number of requests taken.
LEMMA DoneFacts ==
  ASSUME Stream
  PROVE  /\ Done \in 0..Len(sent) /\ off = EndOf(sent, Done)
         /\ Len(sent) \in Nat /\ Total = EndOf(sent, Len(sent)) /\ off \in Nat /\ off <= rcvd /\ rcvd <= Total
<1>1. PICK d \in 0..Len(sent) : off = EndOf(sent, d) /\ off <= rcvd
  BY DEF Stream
<1>2. IsStream(sent) /\ rcvd \in Nat /\ rcvd <= Total
  BY DEF Stream
<1>3. Done = d
  BY <1>1, <1>2, CountFacts DEF Done
<1>4. Len(sent) \in Nat /\ (sent = <<>> <=> Len(sent) = 0)
  BY <1>2, EndFacts DEF IsStream
<1>5. Total = EndOf(sent, Len(sent))
  BY <1>4 DEF Total, EndOf
<1> QED
  BY <1>1, <1>2, <1>3, <1>4, <1>5, EndFacts

\* The client appends a request.
LEMMA AskStream ==
  ASSUME Stream, NEW k \in Kinds, NEW n \in Lengths, Ask(k, n)
  PROVE  /\ Stream' /\ Done' = Done
         /\ Len(sent') = Len(sent) + 1 /\ sent'[Len(sent) + 1].kind = k
         /\ \A i \in 1..Len(sent) : sent'[i] = sent[i]
<1> DEFINE L == Len(sent)
           r == [kind |-> k, len |-> n, end |-> Total + n]
<1>1. /\ IsStream(sent) /\ sent \in Seq(Request) /\ L \in Nat /\ Total \in Nat /\ Total = EndOf(sent, L)
      /\ rcvd \in Nat /\ rcvd <= Total
  <2>1. IsStream(sent) /\ sent \in Seq(Request) /\ L \in Nat /\ Total = EndOf(sent, L) /\ rcvd \in Nat /\ rcvd <= Total
    BY DoneFacts DEF Stream, IsStream
  <2>2. L \in 0..L
    BY <2>1
  <2> QED
    BY <2>1, <2>2, EndFacts
<1>2. n \in HeadSize..MaxLen /\ n \in Nat /\ n > 0
  BY ConstantFacts
<1>3. r \in Request /\ sent' = Append(sent, r) /\ UNCHANGED <<off, rcvd>>
  BY <1>1, <1>2 DEF Request, Ask
<1> HIDE DEF r
<1>4. /\ sent' \in Seq(Request) /\ Len(sent') = L + 1 /\ sent'[L + 1] = r
      /\ \A i \in 1..L : sent'[i] = sent[i]
  BY <1>1, <1>3
<1>5. \A d \in 0..L : EndOf(sent', d) = EndOf(sent, d)
  BY <1>1, <1>4 DEF EndOf
<1>6. r.len = n /\ r.end = Total + n /\ r.kind = k
  BY DEF r
<1>7. ASSUME NEW i \in 1..Len(sent')
      PROVE  /\ sent'[i].len \in HeadSize..MaxLen /\ sent'[i].end > 0
             /\ sent'[i].end - sent'[i].len = EndOf(sent', i - 1)
             /\ i <= L => sent'[i].end <= Total
  <2>1. CASE i = L + 1
    BY <1>1, <1>2, <1>4, <1>5, <1>6, <2>1
  <2>2. CASE i # L + 1
    <3>1. i \in 1..L /\ i - 1 \in 0..L /\ i \in 0..L /\ sent'[i] = sent[i]
      BY <1>1, <1>4, <2>2
    <3>2. sent[i].end = EndOf(sent, i)
      BY <3>1 DEF EndOf
    <3>3. EndOf(sent, i) <= EndOf(sent, L)
      <4>1. CASE i = L
        BY <1>1, <4>1
      <4>2. CASE i # L
        <5>1. i < L
          BY <1>1, <3>1, <4>2
        <5>2. EndOf(sent, i) < EndOf(sent, L) /\ EndOf(sent, i) \in Nat /\ EndOf(sent, L) \in Nat
          BY <1>1, <3>1, <5>1, EndFacts
        <5> QED
          BY <5>2
      <4> QED
        BY <4>1, <4>2
    <3> QED
      BY <1>1, <1>5, <3>1, <3>2, <3>3 DEF IsStream
  <2> QED
    BY <2>1, <2>2
<1>8. ASSUME NEW i \in 1..Len(sent'), NEW j \in 1..Len(sent'), i < j
      PROVE  sent'[i].end < sent'[j].end
  <2>1. CASE j = L + 1
    <3>1. i \in 1..L /\ sent[i].end \in Nat
      BY <1>1, <1>4, <1>8, <2>1, EndFacts
    <3>2. sent'[i].end <= Total
      BY <1>1, <1>4, <1>7, <3>1
    <3> QED
      BY <1>1, <1>2, <1>4, <1>6, <2>1, <3>1, <3>2
  <2>2. CASE j # L + 1
    <3>1. i \in 1..L /\ j \in 1..L
      BY <1>1, <1>4, <1>8, <2>2
    <3> QED
      BY <1>1, <1>4, <1>8, <3>1 DEF IsStream
  <2> QED
    BY <2>1, <2>2
<1>9. IsStream(sent')
  BY <1>4, <1>7, <1>8 DEF IsStream
<1>10. Total' = Total + n
  <2>1. sent' # <<>>
    BY <1>1, <1>4
  <2> QED
    BY <1>4, <1>6, <2>1 DEF Total
<1>11. Done \in 0..L /\ off = EndOf(sent, Done) /\ off <= rcvd
  BY DoneFacts
<1>12. Done \in 0..Len(sent') /\ off' = EndOf(sent', Done)
  BY <1>1, <1>3, <1>4, <1>5, <1>11
<1>13. Stream'
  BY <1>1, <1>2, <1>3, <1>9, <1>10, <1>11, <1>12 DEF Stream
<1>14. Done' = Done
  BY <1>9, <1>12, CountFacts DEF Done
<1> QED
  BY <1>4, <1>6, <1>13, <1>14

\* Bytes arrive.
LEMMA ReceiveStream ==
  ASSUME Stream, UNCHANGED <<sent, off>>, rcvd' \in Nat, rcvd' >= rcvd, rcvd' <= Total
  PROVE  Stream' /\ Done' = Done
<1>1. Done \in 0..Len(sent) /\ off = EndOf(sent, Done) /\ off <= rcvd /\ off \in Nat /\ IsStream(sent) /\ rcvd \in Nat
  BY DoneFacts DEF Stream
<1>2. Done' = Done /\ Total' = Total
  BY DEF Done, Total
<1> QED
  BY <1>1, <1>2 DEF Stream

\* A complete packet is the next request, and of a length that is accepted.
LEMMA PacketStream ==
  ASSUME Stream, Packet
  PROVE  /\ Stream' /\ Done < Len(sent) /\ Done + 1 \in 1..Len(sent) /\ Done' = Done + 1
         /\ HandlePacket(sent[Done + 1].kind)
<1> DEFINE L == Len(sent)
           i == Done + 1
<1>1. /\ IsStream(sent) /\ Done \in 0..L /\ off = EndOf(sent, Done) /\ L \in Nat /\ Total = EndOf(sent, L)
      /\ rcvd \in Nat /\ off \in Nat /\ off <= rcvd /\ rcvd <= Total
  BY DoneFacts DEF Stream
<1>2. PICK len \in HeadSize..MaxLen : CheckPackLen(len) /\ off' = off + len
  BY DEF Packet
<1>3. len \in Nat /\ len > 0 /\ HeadSize \in Nat /\ HeadSize > 0 /\ MaxLen \in Nat
  BY ConstantFacts
<1>B. BufLen = rcvd - off /\ BufLen \in Int
  BY <1>1 DEF BufLen
<1>4. BufLen >= HeadSize
  BY <1>2, <1>3, <1>B DEF CheckPackLen
<1>5. off < rcvd /\ off < Total
  BY <1>1, <1>3, <1>4 DEF BufLen
<1>6. Done < L /\ i \in 1..L
  <2>1. Done # L
    BY <1>1, <1>5
  <2> QED
    BY <1>1, <2>1
<1>7. PICK n \in 0..(MaxLen + 1) :
        HeaderLen(n) /\ len = IF n < HeadSize \/ n > MaxLen THEN -1 ELSE IF n <= BufLen THEN n ELSE 0
  BY <1>2, <1>3, <1>4, <1>B DEF CheckPackLen
<1>8. n = len /\ n <= MaxLen /\ n <= BufLen
  BY <1>1, <1>3, <1>7 DEF BufLen
<1>9. sent[i].end - sent[i].len = off
  <2>1. i - 1 = Done
    BY <1>1
  <2> QED
    BY <1>1, <1>6, <2>1 DEF IsStream
<1>10. \A j \in DOMAIN sent : sent[j].end - sent[j].len = off => j = i
  <2> SUFFICES ASSUME NEW j \in 1..L, sent[j].end - sent[j].len = off PROVE j = i
    BY <1>1, EndFacts
  <2>1. j - 1 \in 0..L /\ EndOf(sent, j - 1) = EndOf(sent, Done)
    BY <1>1 DEF IsStream
  <2>2. ~(j - 1 < Done)
    <3> SUFFICES ASSUME j - 1 < Done PROVE FALSE
      OBVIOUS
    <3>1. EndOf(sent, j - 1) < EndOf(sent, Done)
      BY <1>1, <2>1, EndFacts
    <3> QED
      BY <1>1, <2>1, <3>1
  <2>3. ~(Done < j - 1)
    <3> SUFFICES ASSUME Done < j - 1 PROVE FALSE
      OBVIOUS
    <3>1. EndOf(sent, Done) < EndOf(sent, j - 1)
      BY <1>1, <2>1, EndFacts
    <3> QED
      BY <1>1, <2>1, <3>1
  <2> QED
    BY <1>1, <2>1, <2>2, <2>3
<1>11. i \in DOMAIN sent
  BY <1>1, <1>6, EndFacts
<1>12. n = IF sent[i].kind = "badlen" THEN MaxLen + 1 ELSE sent[i].len
  BY <1>7, <1>9, <1>10, <1>11 DEF HeaderLen
<1>13. len = sent[i].len
  BY <1>3, <1>8, <1>12
<1>14. off' = EndOf(sent, i)
  <2>1. EndOf(sent, i) = sent[i].end /\ sent[i].end \in Nat /\ sent[i].len \in Nat
    BY <1>1, <1>6, EndFacts DEF EndOf
  <2>2. off \in Nat /\ off' = off + sent[i].len
    BY <1>1, <1>2, <1>13
  <2> QED
    BY <1>9, <2>1, <2>2
<1>15. UNCHANGED <<sent, rcvd>>
  BY DEF Packet
<1>16. i \in 0..Len(sent) /\ off' <= rcvd
  BY <1>1, <1>2, <1>6, <1>8 DEF BufLen
<1>17. Stream'
  BY <1>1, <1>14, <1>15, <1>16 DEF Stream, Total
<1>18. Done' = i
  BY <1>1, <1>14, <1>15, <1>16, CountFacts DEF Done
<1>19. HandlePacket(sent[i].kind)
  BY <1>9, <1>11 DEF Packet
<1> QED
  BY <1>6, <1>17, <1>18, <1>19

-----------------------------------------------------------------------------
(* Pushes on their way *)

\* SetToSeq lists a finite set.
LEMMA SetToSeqFacts ==
  ASSUME NEW M, NEW T \in SUBSET M, IsFiniteSet(T)
  PROVE  /\ SetToSeq(T) \in Seq(M) /\ Len(SetToSeq(T)) \in Nat
         /\ \A i \in 1..Len(SetToSeq(T)) : SetToSeq(T)[i] \in T
         /\ \A i, j \in 1..Len(SetToSeq(T)) : SetToSeq(T)[i] = SetToSeq(T)[j] => i = j
         /\ \A x \in T : \E i \in 1..Len(SetToSeq(T)) : SetToSeq(T)[i] = x
<1> DEFINE n == Cardinality(T)
           f == SetToSeq(T)
<1>1. n \in Nat /\ ExistsBijection(1..n, T)
  BY FS_CardinalityType
<1>2. PICK g : g \in Injection(1..n, T)
  BY <1>1 DEF ExistsBijection, Bijection
<1>3. g \in [1..n -> T] /\ IsInjective(g)
  BY <1>2 DEF Injection
<1>4. f \in [1..n -> T] /\ IsInjective(f)
  BY <1>3 DEF SetToSeq
<1>5. f \in Injection(1..n, T)
  BY <1>4 DEF Injection
<1>6. Cardinality(1..n) = n
  BY <1>1, FS_Interval
<1> HIDE DEF f
<1>7. f \in Surjection(1..n, T)
  BY <1>5, <1>6, FS_Injection
<1>8. \A x \in T : \E i \in 1..n : f[i] = x
  BY <1>7 DEF Surjection
<1>9. \A i, j \in 1..n : f[i] = f[j] => i = j
  BY <1>4 DEF IsInjective
<1> HIDE DEF n
<1>10. f \in Seq(M) /\ Len(f) = n
  BY <1>1, <1>4
<1> QED
  BY <1>1, <1>4, <1>8, <1>9, <1>10 DEF f

News(S, v, r) == {[sess |-> s, req |-> r] : s \in {t \in S : consvid[t] = v}}

\* The messages of one request to the sessions of one server.
LEMMA MessagesFacts ==
  ASSUME NEW S \in SUBSET Sessions, NEW v, NEW r \in Nat,
         NEW T, T = News(S, v, r)
  PROVE  /\ T \in SUBSET Message /\ IsFiniteSet(T)
         /\ \A x \in T : x.sess \in S /\ consvid[x.sess] = v /\ x.req = r
         /\ \A s \in S : consvid[s] = v => [sess |-> s, req |-> r] \in T
<1> DEFINE R == {t \in S : consvid[t] = v}
           f == [s \in R |-> [sess |-> s, req |-> r]]
<1>1. IsFiniteSet(R)
  BY ConstantFacts, FS_Subset
<1>2. f \in [R -> T] /\ \A x \in T : \E s \in R : f[s] = x
  BY DEF News
<1>3. f \in Surjection(R, T)
  BY <1>2 DEF Surjection
<1>4. IsFiniteSet(T)
  BY <1>1, <1>3, FS_Surjection
<1> QED
  BY <1>4 DEF Message, News

\* What sendToServer puts on connection i of server v: one message for each session,
\* behind all that is there.
Added(S, r, v, i) ==
  /\ link'[v][i].st = link[v][i].st
  /\ Len(link'[v][i].q) \in Nat /\ Len(link[v][i].q) \in Nat
  /\ Len(link'[v][i].q) >= Len(link[v][i].q)
  /\ \A k \in OnLink(v, i) : link'[v][i].q[k] = link[v][i].q[k]
  /\ \A k \in OnLink(v, i)' :
       k > Len(link[v][i].q) =>
         /\ i = cur[v] /\ link[v][i].st = "up"
         /\ link'[v][i].q[k].sess \in S /\ consvid[link'[v][i].q[k].sess] = v
         /\ link'[v][i].q[k].req = r
  /\ \A k, m \in OnLink(v, i)' :
       /\ k > Len(link[v][i].q) /\ m > Len(link[v][i].q)
       /\ link'[v][i].q[k] = link'[v][i].q[m]
       => k = m
  /\ i = cur[v] /\ link[v][i].st = "up" =>
       \A s \in S : consvid[s] = v =>
         \E k \in OnLink(v, i)' : link'[v][i].q[k] = [sess |-> s, req |-> r]

\* What SendPushes does.
LEMMA SendFacts ==
  ASSUME Typed, NEW S \in SUBSET Sessions, NEW r \in Nat, SendPushes(S, r)
  PROVE  /\ link' \in [Servers -> [1..MaxLinks -> Link]]
         /\ \A v \in Servers, i \in 1..MaxLinks : Added(S, r, v, i)
<1> DEFINE Put(v) == IF cur[v] = 0 \/ link[v][cur[v]].st # "up" THEN link[v]
                     ELSE [link[v] EXCEPT ![cur[v]].q = @ \o SetToSeq(News(S, v, r))]
<1>1. link' = [v \in Servers |-> Put(v)]
  BY DEF SendPushes, News
<1>2. link \in [Servers -> [1..MaxLinks -> Link]] /\ cur \in [Servers -> 0..MaxLinks] /\ MaxLinks \in Nat
  BY ConstantFacts DEF Typed
<1>3. ASSUME NEW v \in Servers
      PROVE  /\ link'[v] \in [1..MaxLinks -> Link]
             /\ \A i \in 1..MaxLinks :
                  /\ link'[v][i].st = link[v][i].st
                  /\ i # cur[v] \/ link[v][i].st # "up" => link'[v][i].q = link[v][i].q
                  /\ i = cur[v] /\ link[v][i].st = "up" => link'[v][i].q = link[v][i].q \o SetToSeq(News(S, v, r))
  <2>1. link'[v] = Put(v)
    BY <1>1
  <2>2. CASE cur[v] = 0 \/ link[v][cur[v]].st # "up"
    <3>1. link'[v] = link[v] /\ link[v] \in [1..MaxLinks -> Link]
      BY <1>2, <2>1, <2>2
    <3>2. \A i \in 1..MaxLinks : ~(i = cur[v] /\ link[v][i].st = "up")
      BY <1>2, <2>2
    <3> QED
      BY <3>1, <3>2
  <2>3. CASE ~(cur[v] = 0 \/ link[v][cur[v]].st # "up")
    <3>1. cur[v] \in 1..MaxLinks /\ link[v] \in [1..MaxLinks -> Link]
      BY <1>2, <2>3
    <3>2. News(S, v, r) \in SUBSET Message /\ IsFiniteSet(News(S, v, r))
      BY MessagesFacts
    <3>3. SetToSeq(News(S, v, r)) \in Seq(Message)
      BY <3>2, SetToSeqFacts
    <3>4. link'[v] = [link[v] EXCEPT ![cur[v]].q = @ \o SetToSeq(News(S, v, r))]
      BY <2>1, <2>3
    <3> DEFINE a == link[v][cur[v]].q \o SetToSeq(News(S, v, r))
    <3>5. link[v][cur[v]] \in Link /\ link[v][cur[v]].q \in Seq(Message)
      BY <3>1 DEF Link
    <3>6. a \in Seq(Message)
      BY <3>3, <3>5
    <3>7. link'[v] = [link[v] EXCEPT ![cur[v]] = [@ EXCEPT !.q = a]]
      BY <3>4
    <3> HIDE DEF a
    <3>8. /\ [link[v][cur[v]] EXCEPT !.q = a] \in Link
          /\ [link[v][cur[v]] EXCEPT !.q = a].q = a
          /\ [link[v][cur[v]] EXCEPT !.q = a].st = link[v][cur[v]].st
      BY <3>5, <3>6 DEF Link
    <3> QED
      BY <2>3, <3>1, <3>7, <3>8 DEF a
  <2> QED
    BY <2>2, <2>3
<1>4. link' \in [Servers -> [1..MaxLinks -> Link]]
  BY <1>1, <1>3
<1>5. ASSUME NEW v \in Servers, NEW i \in 1..MaxLinks PROVE Added(S, r, v, i)
  <2>1. link[v][i].q \in Seq(Message) /\ Len(link[v][i].q) \in Nat
    BY <1>2 DEF Link
  <2>2. CASE i # cur[v] \/ link[v][i].st # "up"
    <3>1. link'[v][i].st = link[v][i].st /\ link'[v][i].q = link[v][i].q
      BY <1>3, <2>2
    <3>2. \A k \in 1..Len(link[v][i].q) : ~(k > Len(link[v][i].q))
      BY <2>1
    <3> QED
      BY <2>1, <2>2, <3>1, <3>2 DEF OnLink, Added
  <2>3. CASE i = cur[v] /\ link[v][i].st = "up"
    <3> DEFINE old == link[v][i].q
               new == SetToSeq(News(S, v, r))
    <3>1. /\ News(S, v, r) \in SUBSET Message /\ IsFiniteSet(News(S, v, r))
          /\ \A x \in News(S, v, r) : x.sess \in S /\ consvid[x.sess] = v /\ x.req = r
          /\ \A s \in S : consvid[s] = v => [sess |-> s, req |-> r] \in News(S, v, r)
      BY MessagesFacts
    <3>2. /\ new \in Seq(Message) /\ Len(new) \in Nat
          /\ \A k \in 1..Len(new) : new[k] \in News(S, v, r)
          /\ \A k, m \in 1..Len(new) : new[k] = new[m] => k = m
          /\ \A x \in News(S, v, r) : \E k \in 1..Len(new) : new[k] = x
      BY <3>1, SetToSeqFacts
    <3>3. link'[v][i].q = old \o new
      BY <1>3, <2>3
    <3> HIDE DEF old, new
    <3>4. old \in Seq(Message) /\ Len(old) \in Nat
      BY <2>1 DEF old
    <3>5. /\ Len(old \o new) = Len(old) + Len(new)
          /\ \A k \in 1..Len(old) : (old \o new)[k] = old[k]
          /\ \A k \in 1..Len(old \o new) : k > Len(old) =>
               k - Len(old) \in 1..Len(new) /\ (old \o new)[k] = new[k - Len(old)]
          /\ \A k \in 1..Len(new) : k + Len(old) \in 1..Len(old \o new) /\ (old \o new)[k + Len(old)] = new[k]
      BY <3>2, <3>4
    <3>6. /\ Len(old \o new) \in Nat /\ Len(old \o new) >= Len(old)
          /\ \A k \in 1..Len(old) : (old \o new)[k] = old[k]
      BY <3>2, <3>4, <3>5
    <3>7. \A k \in 1..Len(old \o new) : k > Len(old) =>
            /\ (old \o new)[k].sess \in S /\ consvid[(old \o new)[k].sess] = v
            /\ (old \o new)[k].req = r
      BY <3>1, <3>2, <3>5
    <3>8. ASSUME NEW k \in 1..Len(old \o new), NEW m \in 1..Len(old \o new),
                 k > Len(old), m > Len(old), (old \o new)[k] = (old \o new)[m]
          PROVE  k = m
      <4>1. /\ k - Len(old) \in 1..Len(new) /\ m - Len(old) \in 1..Len(new)
            /\ new[k - Len(old)] = new[m - Len(old)]
        BY <3>5, <3>8
      <4>2. k - Len(old) = m - Len(old)
        BY <3>2, <4>1
      <4> QED
        BY <3>4, <4>2
    <3>9. \A s \in S : consvid[s] = v => \E k \in 1..Len(old \o new) : (old \o new)[k] = [sess |-> s, req |-> r]
      BY <3>1, <3>2, <3>5
    <3>10. link'[v][i].st = link[v][i].st /\ link[v][i].q = old
      BY <1>3 DEF old
    <3>11. PICK x : x = old \o new
      OBVIOUS
    <3>12. \A k, m \in 1..Len(x) : k > Len(old) /\ m > Len(old) /\ x[k] = x[m] => k = m
      BY <3>8, <3>11
    <3>13. /\ \A k \in 1..Len(x) : k > Len(old) => x[k].sess \in S /\ consvid[x[k].sess] = v /\ x[k].req = r
           /\ \A s \in S : consvid[s] = v => \E k \in 1..Len(x) : x[k] = [sess |-> s, req |-> r]
      BY <3>7, <3>9, <3>11
    <3>14. /\ Len(x) \in Nat /\ Len(x) >= Len(old) /\ \A k \in 1..Len(old) : x[k] = old[k]
           /\ link'[v][i].q = x
      BY <3>3, <3>6, <3>11
    <3> QED
      BY <2>3, <3>4, <3>10, <3>12, <3>13, <3>14 DEF OnLink, Added
  <2> QED
    BY <2>2, <2>3
<1> QED
  BY <1>4, <1>5

Put(f, v, i, x) == [f EXCEPT ![v][i] = x]

\* One connection changes.
LEMMA PutFacts ==
  ASSUME NEW f \in [Servers -> [1..MaxLinks -> Link]],
         NEW v \in Servers, NEW i \in 1..MaxLinks, NEW x \in Link
  PROVE  /\ Put(f, v, i, x) \in [Servers -> [1..MaxLinks -> Link]]
         /\ Put(f, v, i, x)[v][i] = x
         /\ \A w \in Servers, j \in 1..MaxLinks : w # v \/ j # i => Put(f, v, i, x)[w][j] = f[w][j]
<1> DEFINE g == [f[v] EXCEPT ![i] = x]
<1>1. g \in [1..MaxLinks -> Link] /\ g[i] = x /\ \A j \in 1..MaxLinks : j # i => g[j] = f[v][j]
  OBVIOUS
<1>2. Put(f, v, i, x) = [f EXCEPT ![v] = g]
  BY DEF Put
<1> HIDE DEF g
<1>3. Put(f, v, i, x)[v] = g /\ \A w \in Servers : w # v => Put(f, v, i, x)[w] = f[w]
  BY <1>2
<1> QED
  BY <1>1, <1>2, <1>3

\* A connection registers: its state changes and it becomes the server's.
LEMMA RegisterFacts ==
  ASSUME Typed, NEW v \in Servers, Register(v)
  PROVE  /\ Typed' /\ UNCHANGED <<queue, up, got>>
         /\ \A w \in Servers : w # v => cur'[w] = cur[w]
         /\ link'[v][cur'[v]].st = "up"
         /\ \A w \in Servers, j \in 1..MaxLinks :
              /\ link'[w][j].q = link[w][j].q
              /\ link'[w][j].st = "none" => link[w][j].st = "none"
              /\ link'[w][j].st = "broken" <=> link[w][j].st = "broken"
<1>1. link \in [Servers -> [1..MaxLinks -> Link]] /\ cur \in [Servers -> 0..MaxLinks] /\ MaxLinks \in Nat
  BY ConstantFacts DEF Typed
<1>2. PICK i \in 1..MaxLinks :
        /\ link[v][i].st = "none"
        /\ link' = [link EXCEPT ![v][i].st = "up"] /\ cur' = [cur EXCEPT ![v] = i]
  BY DEF Register
<1> DEFINE x == [link[v][i] EXCEPT !.st = "up"]
<1>3. link[v][i] \in Link
  BY <1>1
<1>4. x \in Link /\ x.st = "up" /\ x.q = link[v][i].q
  BY <1>3 DEF Link
<1>5. link' = Put(link, v, i, x)
  BY <1>2 DEF Put
<1> HIDE DEF x
<1>6. /\ link' \in [Servers -> [1..MaxLinks -> Link]] /\ link'[v][i] = x
      /\ \A w \in Servers, j \in 1..MaxLinks : w # v \/ j # i => link'[w][j] = link[w][j]
  <2>1. x \in Link /\ i \in 1..MaxLinks
    BY <1>2, <1>4
  <2>2. link \in [Servers -> [1..MaxLinks -> Link]]
    BY <1>1
  <2> QED
    BY <1>5, <2>1, <2>2, PutFacts
<1>7. cur' \in [Servers -> 0..MaxLinks] /\ cur'[v] = i /\ \A w \in Servers : w # v => cur'[w] = cur[w]
  BY <1>1, <1>2
<1>8. UNCHANGED <<queue, up, got>>
  BY DEF Register
<1>9. Typed'
  BY <1>6, <1>7, <1>8 DEF Typed
<1>10. link'[v][cur'[v]].st = "up"
  BY <1>4, <1>6, <1>7
<1>11. ASSUME NEW w \in Servers, NEW j \in 1..MaxLinks
       PROVE  /\ link'[w][j].q = link[w][j].q
              /\ link'[w][j].st = "none" => link[w][j].st = "none"
              /\ link'[w][j].st = "broken" <=> link[w][j].st = "broken"
  <2>1. CASE w = v /\ j = i
    BY <1>2, <1>4, <1>6, <2>1
  <2>2. CASE w # v \/ j # i
    BY <1>6, <2>2
  <2> QED
    BY <2>1, <2>2
<1> QED
  BY <1>7, <1>8, <1>9, <1>10, <1>11

\* A connection breaks: what is on it is cut off.
LEMMA BreakFacts ==
  ASSUME Typed, NEW v \in Servers, NEW i \in 1..MaxLinks, Break(v, i)
  PROVE  /\ Typed' /\ UNCHANGED <<cur, queue, up, got>>
         /\ link'[v][i].st = "broken" /\ link[v][i].st = "up"
         /\ \A w \in Servers, j \in 1..MaxLinks :
              /\ link'[w][j].st = "none" <=> link[w][j].st = "none"
              /\ link[w][j].st = "none" => link'[w][j].q = link[w][j].q
              /\ \A k \in OnLink(w, j)' : k \in OnLink(w, j) /\ link'[w][j].q[k] = link[w][j].q[k]
<1>1. link \in [Servers -> [1..MaxLinks -> Link]]
  BY DEF Typed
<1>2. PICK n \in 0..Len(link[v][i].q) :
        link' = [link EXCEPT ![v][i] = [st |-> "broken", q |-> SubSeq(link[v][i].q, 1, n)]]
  BY DEF Break
<1> DEFINE c == SubSeq(link[v][i].q, 1, n)
           x == [st |-> "broken", q |-> c]
<1>3. link[v][i] \in Link /\ link[v][i].q \in Seq(Message) /\ Len(link[v][i].q) \in Nat
  <2>1. link[v][i] \in Link
    BY <1>1
  <2> QED
    BY <2>1 DEF Link
<1>4. c \in Seq(Message) /\ Len(c) = n /\ \A k \in 1..n : k \in 1..Len(link[v][i].q) /\ c[k] = link[v][i].q[k]
  BY <1>3
<1>5. link' = Put(link, v, i, x)
  BY <1>2 DEF Put
<1> HIDE DEF c
<1>6. x \in Link /\ x.st = "broken" /\ x.q = c
  BY <1>4 DEF Link
<1> HIDE DEF x
<1>7. /\ link' \in [Servers -> [1..MaxLinks -> Link]] /\ link'[v][i] = x
      /\ \A w \in Servers, j \in 1..MaxLinks : w # v \/ j # i => link'[w][j] = link[w][j]
  <2>1. x \in Link
    BY <1>6
  <2> QED
    BY <1>1, <1>5, <2>1, PutFacts
<1>8. UNCHANGED <<cur, queue, up, got>> /\ link[v][i].st = "up"
  BY DEF Break
<1>9. Typed'
  BY <1>7, <1>8 DEF Typed
<1>10. ASSUME NEW w \in Servers, NEW j \in 1..MaxLinks
       PROVE  /\ link'[w][j].st = "none" <=> link[w][j].st = "none"
              /\ link[w][j].st = "none" => link'[w][j].q = link[w][j].q
              /\ \A k \in OnLink(w, j)' : k \in OnLink(w, j) /\ link'[w][j].q[k] = link[w][j].q[k]
  <2>1. CASE w = v /\ j = i
    BY <1>4, <1>6, <1>7, <1>8, <2>1 DEF OnLink
  <2>2. CASE w # v \/ j # i
    BY <1>7, <2>2 DEF OnLink
  <2> QED
    BY <2>1, <2>2
<1> QED
  BY <1>6, <1>7, <1>8, <1>9, <1>10

\* The first message of a connection, to session a and of request r, goes to the
\* end of the session's queue.
Moved(v, i, a, r) ==
  /\ Typed' /\ UNCHANGED <<cur, up, got>>
  /\ Len(link[v][i].q) \in Nat /\ 1 \in OnLink(v, i)
  /\ a \in Sessions /\ r \in Nat /\ link[v][i].q[1] = [sess |-> a, req |-> r]
  /\ Len(link'[v][i].q) \in Nat
  /\ Len(link'[v][i].q) = Len(link[v][i].q) - 1
  /\ \A w \in Servers, j \in 1..MaxLinks : link'[w][j].st = link[w][j].st
  /\ \A k \in OnLink(v, i)' : k + 1 \in OnLink(v, i) /\ link'[v][i].q[k] = link[v][i].q[k + 1]
  /\ \A w \in Servers, j \in 1..MaxLinks : w # v \/ j # i => link'[w][j] = link[w][j]
  /\ Len(queue[a]) \in Nat /\ Len(queue'[a]) = Len(queue[a]) + 1
  /\ \A k \in 1..Len(queue[a]) : queue'[a][k] = queue[a][k]
  /\ queue'[a][Len(queue[a]) + 1] = r
  /\ \A s \in Sessions : s # a => queue'[s] = queue[s]

\* What Route does.
LEMMA RouteFacts ==
  ASSUME Typed, NEW v \in Servers, NEW i \in 1..MaxLinks, Route(v, i)
  PROVE  \E a \in Sessions, r \in Nat : Moved(v, i, a, r)
<1>0. PICK m : m = link[v][i].q[1]
  OBVIOUS
<1>1. link \in [Servers -> [1..MaxLinks -> Link]] /\ queue \in [Sessions -> Seq(Nat)]
  BY DEF Typed
<1>2. /\ link[v][i].q # <<>> /\ link' = [link EXCEPT ![v][i].q = Tail(@)]
      /\ queue' = [queue EXCEPT ![Head(link[v][i].q).sess] = Append(@, Head(link[v][i].q).req)]
      /\ UNCHANGED <<cur, up, got>>
  BY DEF Route
<1>3. link[v][i] \in Link
  BY <1>1
<1>4. link[v][i].q \in Seq(Message) /\ Len(link[v][i].q) \in Nat /\ Len(link[v][i].q) > 0
  <2>1. link[v][i].q \in Seq(Message)
    BY <1>3 DEF Link
  <2>2. link[v][i].q # <<>>
    BY <1>2
  <2> QED
    BY <2>1, <2>2, EmptySeq
<1> DEFINE t == Tail(link[v][i].q)
           x == [link[v][i] EXCEPT !.q = t]
<1>5. /\ t \in Seq(Message) /\ Len(t) = Len(link[v][i].q) - 1
      /\ \A k \in 1..Len(t) : k + 1 \in 1..Len(link[v][i].q) /\ t[k] = link[v][i].q[k + 1]
      /\ Head(link[v][i].q) = m /\ m \in Message
  BY <1>0, <1>4
<1>6. link' = Put(link, v, i, x)
  BY <1>2 DEF Put
<1> HIDE DEF t
<1>7. x \in Link /\ x.st = link[v][i].st /\ x.q = t
  BY <1>3, <1>5 DEF Link
<1> HIDE DEF x
<1>8. /\ link' \in [Servers -> [1..MaxLinks -> Link]] /\ link'[v][i] = x
      /\ \A w \in Servers, j \in 1..MaxLinks : w # v \/ j # i => link'[w][j] = link[w][j]
  BY <1>1, <1>6, <1>7, PutFacts
<1>9. m.sess \in Sessions /\ m.req \in Nat
  BY <1>5 DEF Message
<1>10. queue' = [queue EXCEPT ![m.sess] = Append(queue[m.sess], m.req)]
  BY <1>2, <1>5
<1>11. queue[m.sess] \in Seq(Nat) /\ Append(queue[m.sess], m.req) \in Seq(Nat)
  BY <1>1, <1>9
<1>12. /\ queue' \in [Sessions -> Seq(Nat)] /\ queue'[m.sess] = Append(queue[m.sess], m.req)
       /\ \A s \in Sessions : s # m.sess => queue'[s] = queue[s]
  BY <1>1, <1>9, <1>10, <1>11
<1>13. Typed'
  BY <1>2, <1>8, <1>12 DEF Typed
<1>14. /\ Len(queue[m.sess]) \in Nat /\ Len(queue'[m.sess]) = Len(queue[m.sess]) + 1
       /\ \A k \in 1..Len(queue[m.sess]) : queue'[m.sess][k] = queue[m.sess][k]
       /\ queue'[m.sess][Len(queue[m.sess]) + 1] = m.req
  <2>1. \A q \in Seq(Nat) : /\ Len(q) \in Nat /\ Len(Append(q, m.req)) = Len(q) + 1
                            /\ \A k \in 1..Len(q) : Append(q, m.req)[k] = q[k]
                            /\ Append(q, m.req)[Len(q) + 1] = m.req
    BY <1>9
  <2> DEFINE o == queue[m.sess]
             n == queue'[m.sess]
  <2>2. o \in Seq(Nat) /\ n = Append(o, m.req)
    BY <1>11, <1>12
  <2> HIDE DEF o, n
  <2>3. /\ Len(o) \in Nat /\ Len(n) = Len(o) + 1
        /\ \A k \in 1..Len(o) : n[k] = o[k]
        /\ n[Len(o) + 1] = m.req
    BY <2>1, <2>2
  <2> QED
    BY <2>3 DEF o, n
<1>15. \A w \in Servers, j \in 1..MaxLinks : link'[w][j].st = link[w][j].st
  BY <1>7, <1>8
<1>16. /\ 1 \in OnLink(v, i) /\ Len(link'[v][i].q) \in Nat
       /\ Len(link'[v][i].q) = Len(link[v][i].q) - 1
       /\ \A k \in OnLink(v, i)' : k + 1 \in OnLink(v, i) /\ link'[v][i].q[k] = link[v][i].q[k + 1]
  BY <1>4, <1>5, <1>7, <1>8 DEF OnLink
<1>17. PICK a, r : a = m.sess /\ r = m.req
  OBVIOUS
<1>18. link[v][i].q[1] = [sess |-> a, req |-> r]
  BY <1>0, <1>5, <1>17 DEF Message
<1>19. Moved(v, i, a, r)
  BY <1>2, <1>4, <1>8, <1>9, <1>12, <1>13, <1>14, <1>15, <1>16, <1>17, <1>18 DEF Moved
<1> QED
  BY <1>9, <1>17, <1>19

\* The first operator of a session's queue: it reaches the session if that is there.
LEMMA DeliverFacts ==
  ASSUME Typed, NEW s \in Sessions, Deliver(s)
  PROVE  /\ Typed' /\ UNCHANGED <<cur, link, up>>
         /\ Len(queue[s]) \in Nat /\ Len(queue[s]) > 0 /\ Len(queue'[s]) = Len(queue[s]) - 1
         /\ \A k \in 1..Len(queue'[s]) : k + 1 \in 1..Len(queue[s]) /\ queue'[s][k] = queue[s][k + 1]
         /\ \A t \in Sessions : t # s => queue'[t] = queue[t] /\ got'[t] = got[t]
         /\ Len(got[s]) \in Nat
         /\ s \notin up => got' = got
         /\ s \in up => /\ Len(got'[s]) = Len(got[s]) + 1 /\ got'[s][Len(got[s]) + 1] = queue[s][1]
                        /\ \A k \in 1..Len(got[s]) : got'[s][k] = got[s][k]
                        /\ got' = [got EXCEPT ![s] = Append(@, queue[s][1])]
<1>1. queue \in [Sessions -> Seq(Nat)] /\ got \in [Sessions -> Seq(Nat)]
  BY DEF Typed
<1>2. /\ queue[s] # <<>> /\ queue' = [queue EXCEPT ![s] = Tail(@)]
      /\ got' = IF s \in up THEN [got EXCEPT ![s] = Append(@, Head(queue[s]))] ELSE got
      /\ UNCHANGED <<cur, link, up>>
  BY DEF Deliver
<1>3. /\ queue[s] \in Seq(Nat) /\ Len(queue[s]) \in Nat /\ Len(queue[s]) > 0
      /\ Head(queue[s]) = queue[s][1] /\ queue[s][1] \in Nat
  BY <1>1, <1>2
<1>4. /\ Tail(queue[s]) \in Seq(Nat) /\ Len(Tail(queue[s])) = Len(queue[s]) - 1
      /\ \A k \in 1..Len(Tail(queue[s])) : k + 1 \in 1..Len(queue[s]) /\ Tail(queue[s])[k] = queue[s][k + 1]
  BY <1>3
<1>5. /\ queue' \in [Sessions -> Seq(Nat)] /\ queue'[s] = Tail(queue[s])
      /\ \A t \in Sessions : t # s => queue'[t] = queue[t]
  BY <1>1, <1>2, <1>4
<1>6. got[s] \in Seq(Nat) /\ Len(got[s]) \in Nat /\ Append(got[s], queue[s][1]) \in Seq(Nat)
  BY <1>1, <1>3
<1>7. s \in up => got' = [got EXCEPT ![s] = Append(got[s], queue[s][1])]
  BY <1>2, <1>3
<1>8. s \notin up => got' = got
  BY <1>2
<1>9. got' \in [Sessions -> Seq(Nat)] /\ \A t \in Sessions : t # s => got'[t] = got[t]
  BY <1>1, <1>6, <1>7, <1>8
<1>10. s \in up => got'[s] = Append(got[s], queue[s][1])
  BY <1>1, <1>7
<1>11. Typed'
  BY <1>2, <1>5, <1>9 DEF Typed
<1> QED
  BY <1>2, <1>3, <1>4, <1>5, <1>6, <1>7, <1>8, <1>9, <1>10, <1>11

\* Connections keep the beginning of what is on them: all but the order among
\* connections, which no step changes.
LEMMA FewerPath ==
  ASSUME NEW d \in Nat, Path(d), Typed', UNCHANGED <<queue, got>>,
         \A w \in Servers : cur'[w] # 0 => link'[w][cur'[w]].st # "none",
         \A w \in Servers, j \in 1..MaxLinks :
           /\ link'[w][j].st = "none" => link[w][j].st = "none" /\ link'[w][j].q = link[w][j].q
           /\ \A k \in OnLink(w, j)' : k \in OnLink(w, j) /\ link'[w][j].q[k] = link[w][j].q[k]
  PROVE  Path(d)'
<1>1. Typed /\ Placed /\ Bounded(d) /\ Distinct /\ AllOrdered
  BY DEF Path
<1>2. Placed'
  BY <1>1 DEF Placed
<1>3. Bounded(d)'
  BY <1>1 DEF Bounded
<1>4. Distinct'
  <2>1. ASSUME NEW w \in Servers, NEW i \in 1..MaxLinks, NEW j \in 1..MaxLinks,
               NEW k \in OnLink(w, i)', NEW m \in OnLink(w, j)', link'[w][i].q[k] = link'[w][j].q[m]
        PROVE  i = j /\ k = m
    <3>1. /\ k \in OnLink(w, i) /\ link'[w][i].q[k] = link[w][i].q[k]
          /\ m \in OnLink(w, j) /\ link'[w][j].q[m] = link[w][j].q[m]
      OBVIOUS
    <3>2. link[w][i].q[k] = link[w][j].q[m]
      BY <2>1, <3>1
    <3> QED
      BY <1>1, <3>1, <3>2 DEF Distinct
  <2>2. \A w \in Servers, i \in 1..MaxLinks, s \in Sessions : \A k \in OnLink(w, i)', m \in 1..Len(queue'[s]) :
          link'[w][i].q[k].sess = s => link'[w][i].q[k].req # queue'[s][m]
    <3> SUFFICES ASSUME NEW w \in Servers, NEW i \in 1..MaxLinks, NEW s \in Sessions,
                        NEW k \in OnLink(w, i)', NEW m \in 1..Len(queue[s]), link'[w][i].q[k].sess = s
                 PROVE  link'[w][i].q[k].req # queue[s][m]
      OBVIOUS
    <3>1. k \in OnLink(w, i) /\ link'[w][i].q[k] = link[w][i].q[k]
      OBVIOUS
    <3> QED
      BY <1>1, <3>1 DEF Distinct
  <2>3. \A s \in Sessions : \A k, m \in 1..Len(queue'[s]) : k # m => queue'[s][k] # queue'[s][m]
    BY <1>1 DEF Distinct
  <2> QED
    BY <2>1, <2>2, <2>3 DEF Distinct
<1>5. AllOrdered'
  <2> SUFFICES ASSUME NEW s \in Sessions, Single(s)' PROVE Ordered(s)'
    BY DEF AllOrdered
  <2>1. consvid[s] \in Servers
    BY ConstantFacts
  <2>2. Single(s)
    <3>1. \A i \in 2..MaxLinks : i \in 1..MaxLinks
      BY ConstantFacts
    <3> QED
      BY <2>1, <3>1 DEF Single
  <2>3. Ordered(s)
    BY <1>1, <2>2 DEF AllOrdered
  <2>4. ASSUME NEW i \in 1..MaxLinks, NEW m \in OnLink(consvid[s], i)',
               link'[consvid[s]][i].q[m].sess = s
        PROVE  LET r == link'[consvid[s]][i].q[m].req
               IN  /\ \A k \in 1..Len(got[s]) : got[s][k] < r
                   /\ \A k \in 1..Len(queue[s]) : queue[s][k] < r
                   /\ \A k \in OnLink(consvid[s], i)' :
                        k < m /\ link'[consvid[s]][i].q[k].sess = s => link'[consvid[s]][i].q[k].req < r
    <3>1. m \in OnLink(consvid[s], i) /\ link'[consvid[s]][i].q[m] = link[consvid[s]][i].q[m]
      BY <2>1
    <3>2. \A k \in OnLink(consvid[s], i)' :
            k \in OnLink(consvid[s], i) /\ link'[consvid[s]][i].q[k] = link[consvid[s]][i].q[k]
      BY <2>1
    <3> QED
      BY <2>3, <2>4, <3>1, <3>2 DEF Ordered
  <2>5. UNCHANGED <<queue, got>>
    OBVIOUS
  <2> QED
    BY <2>3, <2>4, <2>5 DEF Ordered
<1> QED
  BY <1>2, <1>3, <1>4, <1>5 DEF Path

\* A connection registers, breaks, or is given up; a session ends.
LEMMA ChangePath ==
  ASSUME NEW d \in Nat, Path(d),
         \/ \E v \in Servers : Register(v) \/ Disconnected(v)
         \/ \E v \in Servers, i \in 1..MaxLinks : Break(v, i)
         \/ \E s \in Sessions : SessionEnds(s)
         \/ UNCHANGED pathVars
  PROVE  Path(d)'
<1>1. Typed /\ Placed
  BY DEF Path
<1>2. MaxLinks \in Nat
  BY ConstantFacts
<1>3. ASSUME NEW v \in Servers, Register(v) PROVE Path(d)'
  <2>1. /\ Typed' /\ UNCHANGED <<queue, up, got>>
        /\ \A w \in Servers : w # v => cur'[w] = cur[w]
        /\ link'[v][cur'[v]].st = "up"
        /\ \A w \in Servers, j \in 1..MaxLinks :
             /\ link'[w][j].q = link[w][j].q
             /\ link'[w][j].st = "none" => link[w][j].st = "none"
    BY <1>1, <1>3, RegisterFacts
  <2>2. \A w \in Servers : cur'[w] # 0 => link'[w][cur'[w]].st # "none"
    <3> SUFFICES ASSUME NEW w \in Servers, w # v, cur[w] # 0 PROVE link'[w][cur[w]].st # "none"
      BY <2>1
    <3>1. cur[w] \in 1..MaxLinks /\ link[w][cur[w]].st # "none"
      BY <1>1, <1>2 DEF Typed, Placed
    <3> QED
      BY <2>1, <3>1
  <2>3. \A w \in Servers, j \in 1..MaxLinks : OnLink(w, j)' = OnLink(w, j)
    BY <2>1 DEF OnLink
  <2> QED
    BY <2>1, <2>2, <2>3, FewerPath
<1>4. ASSUME NEW v \in Servers, NEW i \in 1..MaxLinks, Break(v, i) PROVE Path(d)'
  <2>1. /\ Typed' /\ UNCHANGED <<cur, queue, got>>
        /\ \A w \in Servers, j \in 1..MaxLinks :
             /\ link'[w][j].st = "none" <=> link[w][j].st = "none"
             /\ link[w][j].st = "none" => link'[w][j].q = link[w][j].q
             /\ \A k \in OnLink(w, j)' : k \in OnLink(w, j) /\ link'[w][j].q[k] = link[w][j].q[k]
    BY <1>1, <1>4, BreakFacts
  <2>2. \A w \in Servers : cur'[w] # 0 => link'[w][cur'[w]].st # "none"
    <3> SUFFICES ASSUME NEW w \in Servers, cur[w] # 0 PROVE link'[w][cur[w]].st # "none"
      BY <2>1
    <3>1. cur[w] \in 1..MaxLinks /\ link[w][cur[w]].st # "none"
      BY <1>1, <1>2 DEF Typed, Placed
    <3> QED
      BY <2>1, <3>1
  <2> QED
    BY <2>1, <2>2, FewerPath
<1>5. ASSUME UNCHANGED <<link, queue, got>>, up' \subseteq Sessions,
             cur' \in [Servers -> 0..MaxLinks], \A w \in Servers : cur'[w] # 0 => cur'[w] = cur[w]
      PROVE  Path(d)'
  <2>1. Typed'
    BY <1>1, <1>5 DEF Typed
  <2>2. \A w \in Servers : cur'[w] # 0 => link'[w][cur'[w]].st # "none"
    BY <1>1, <1>5 DEF Placed
  <2>3. \A w \in Servers, j \in 1..MaxLinks :
          /\ link'[w][j].st = "none" => link[w][j].st = "none" /\ link'[w][j].q = link[w][j].q
          /\ \A k \in OnLink(w, j)' : k \in OnLink(w, j) /\ link'[w][j].q[k] = link[w][j].q[k]
    BY <1>5 DEF OnLink
  <2> QED
    BY <1>5, <2>1, <2>2, <2>3, FewerPath
<1>6. ASSUME NEW v \in Servers, Disconnected(v) PROVE Path(d)'
  <2>1. UNCHANGED <<link, queue, up, got>> /\ cur' = [cur EXCEPT ![v] = 0] /\ cur \in [Servers -> 0..MaxLinks]
    BY <1>1, <1>6 DEF Disconnected, Typed
  <2>2. cur' \in [Servers -> 0..MaxLinks] /\ \A w \in Servers : cur'[w] # 0 => cur'[w] = cur[w]
    BY <1>2, <2>1
  <2> QED
    BY <1>1, <1>5, <2>1, <2>2 DEF Typed
<1>7. ASSUME NEW s \in Sessions, SessionEnds(s) PROVE Path(d)'
  BY <1>1, <1>5, <1>7 DEF SessionEnds, Typed
<1>8. CASE UNCHANGED pathVars
  BY <1>1, <1>5, <1>8 DEF pathVars, Typed
<1> QED
  BY <1>3, <1>4, <1>6, <1>7, <1>8

\* What the messages on the connections are.
LEMMA OnLinkFacts ==
  ASSUME Typed, Placed, NEW w \in Servers, NEW j \in 1..MaxLinks, NEW k \in OnLink(w, j)
  PROVE  /\ link[w][j].q[k] \in Message /\ link[w][j].st # "none"
         /\ k \in Nat /\ k >= 1 /\ Len(link[w][j].q) \in Nat
<1>1. link[w][j] \in Link
  BY DEF Typed
<1>2. link[w][j].q \in Seq(Message) /\ Len(link[w][j].q) \in Nat
  BY <1>1 DEF Link
<1>3. k \in 1..Len(link[w][j].q) /\ link[w][j].q[k] \in Message
  BY <1>2 DEF OnLink
<1>4. link[w][j].st # "none"
  <2>1. link[w][j].q # <<>>
    BY <1>2, <1>3
  <2> QED
    BY <2>1 DEF Placed
<1> QED
  BY <1>2, <1>3, <1>4

\* Where the messages of a session are.
LEMMA MessageOf ==
  ASSUME Typed, Placed, NEW w \in Servers, NEW j \in 1..MaxLinks, NEW k \in OnLink(w, j),
         NEW s, NEW r, link[w][j].q[k].sess = s, link[w][j].q[k].req = r
  PROVE  /\ s \in Sessions /\ r \in Nat /\ link[w][j].q[k] = [sess |-> s, req |-> r]
         /\ consvid[s] = w /\ (Single(s) => j = 1)
<1>1. link[w][j].q[k] \in Message /\ link[w][j].st # "none"
  BY OnLinkFacts
<1>2. s \in Sessions /\ r \in Nat /\ link[w][j].q[k] = [sess |-> s, req |-> r]
  BY <1>1 DEF Message
<1>3. consvid[s] = w
  BY DEF Placed
<1>4. j # 1 => j \in 2..MaxLinks
  BY ConstantFacts
<1> QED
  BY <1>1, <1>2, <1>3, <1>4 DEF Single

\* A message goes from a connection to the loop of its session.
LEMMA RoutePath ==
  ASSUME NEW d \in Nat, Path(d), NEW v \in Servers, NEW i \in 1..MaxLinks, Route(v, i)
  PROVE  Path(d)'
<1>1. Typed /\ Placed /\ Bounded(d) /\ Distinct /\ AllOrdered
  BY DEF Path
<1>2. PICK a \in Sessions, r \in Nat : Moved(v, i, a, r)
  BY <1>1, RouteFacts
<1>3. /\ Typed' /\ UNCHANGED <<cur, up, got>>
      /\ Len(link[v][i].q) \in Nat /\ 1 \in OnLink(v, i)
      /\ Len(link'[v][i].q) \in Nat
      /\ Len(link'[v][i].q) = Len(link[v][i].q) - 1
      /\ \A w \in Servers, j \in 1..MaxLinks : link'[w][j].st = link[w][j].st
      /\ \A k \in OnLink(v, i)' : k + 1 \in OnLink(v, i) /\ link'[v][i].q[k] = link[v][i].q[k + 1]
      /\ \A w \in Servers, j \in 1..MaxLinks : w # v \/ j # i => link'[w][j] = link[w][j]
  BY <1>2 DEF Moved
<1>4. /\ link[v][i].q[1] = [sess |-> a, req |-> r]
      /\ link[v][i].q[1].sess = a /\ link[v][i].q[1].req = r
  BY <1>2 DEF Moved
<1>5. consvid[a] = v /\ (Single(a) => i = 1)
  BY <1>1, <1>3, <1>4, MessageOf
<1>6. /\ Len(queue[a]) \in Nat /\ Len(queue'[a]) = Len(queue[a]) + 1
      /\ \A k \in 1..Len(queue[a]) : queue'[a][k] = queue[a][k]
      /\ queue'[a][Len(queue[a]) + 1] = r
      /\ \A s \in Sessions : s # a => queue'[s] = queue[s]
  BY <1>2 DEF Moved
<1> DEFINE Old(w, j, k) == IF w = v /\ j = i THEN k + 1 ELSE k
<1>7. ASSUME NEW w \in Servers, NEW j \in 1..MaxLinks, NEW k \in OnLink(w, j)'
      PROVE  /\ Old(w, j, k) \in OnLink(w, j) /\ link'[w][j].q[k] = link[w][j].q[Old(w, j, k)]
             /\ k \in Nat /\ Old(w, j, k) \in Nat /\ (w = v /\ j = i => Old(w, j, k) > 1)
  <2>1. CASE w = v /\ j = i
    <3>1. k \in Nat /\ k >= 1
      BY <1>3, <2>1 DEF OnLink
    <3> QED
      BY <1>3, <2>1, <3>1
  <2>2. CASE ~(w = v /\ j = i)
    <3>1. link'[w][j] = link[w][j]
      BY <1>3, <2>2
    <3>2. k \in OnLink(w, j)
      BY <3>1 DEF OnLink
    <3>3. k \in Nat
      BY <1>1, <3>2, OnLinkFacts
    <3> QED
      BY <2>2, <3>1, <3>2, <3>3
  <2> QED
    BY <2>1, <2>2
<1> HIDE DEF Old
<1>8. ASSUME NEW s \in Sessions, NEW k \in 1..Len(queue'[s])
      PROVE  \/ k \in 1..Len(queue[s]) /\ queue'[s][k] = queue[s][k]
             \/ s = a /\ k = Len(queue[a]) + 1 /\ queue'[s][k] = r
  <2>1. CASE s = a
    BY <1>6, <2>1
  <2>2. CASE s # a
    BY <1>6, <2>2
  <2> QED
    BY <2>1, <2>2
<1>9. Placed'
  <2>1. \A w \in Servers : cur'[w] # 0 => link'[w][cur'[w]].st # "none"
    <3> SUFFICES ASSUME NEW w \in Servers, cur[w] # 0 PROVE link'[w][cur[w]].st # "none"
      BY <1>3
    <3>1. cur[w] \in 1..MaxLinks /\ link[w][cur[w]].st # "none"
      BY <1>1, ConstantFacts DEF Typed, Placed
    <3> QED
      BY <1>3, <3>1
  <2>2. ASSUME NEW w \in Servers, NEW j \in 1..MaxLinks, link'[w][j].st = "none"
        PROVE  link'[w][j].q = <<>>
    <3>1. link[w][j].st = "none" /\ link[w][j].q = <<>>
      BY <1>1, <1>3, <2>2 DEF Placed
    <3>2. ~(w = v /\ j = i)
      BY <1>1, <1>3, <3>1, OnLinkFacts
    <3> QED
      BY <1>3, <3>1, <3>2
  <2>3. ASSUME NEW w \in Servers, NEW j \in 1..MaxLinks, NEW k \in OnLink(w, j)'
        PROVE  consvid[link'[w][j].q[k].sess] = w
    BY <1>1, <1>7 DEF Placed
  <2> QED
    BY <2>1, <2>2, <2>3 DEF Placed
<1>10. r <= d
  BY <1>1, <1>3, <1>4 DEF Bounded
<1>11. Bounded(d)'
  <2>1. \A w \in Servers, j \in 1..MaxLinks : \A k \in OnLink(w, j)' : link'[w][j].q[k].req <= d
    BY <1>1, <1>7 DEF Bounded
  <2>2. \A s \in Sessions : \A k \in 1..Len(queue'[s]) : queue'[s][k] <= d
    BY <1>1, <1>8, <1>10 DEF Bounded
  <2> QED
    BY <1>1, <1>3, <2>1, <2>2 DEF Bounded
<1>12. Distinct'
  <2>1. ASSUME NEW w \in Servers, NEW j \in 1..MaxLinks, NEW l \in 1..MaxLinks,
               NEW k \in OnLink(w, j)', NEW n \in OnLink(w, l)', link'[w][j].q[k] = link'[w][l].q[n]
        PROVE  j = l /\ k = n
    <3>1. /\ Old(w, j, k) \in OnLink(w, j) /\ Old(w, l, n) \in OnLink(w, l) /\ k \in Nat /\ n \in Nat
          /\ link[w][j].q[Old(w, j, k)] = link[w][l].q[Old(w, l, n)]
      BY <1>7, <2>1
    <3>2. j = l /\ Old(w, j, k) = Old(w, l, n)
      BY <1>1, <3>1 DEF Distinct
    <3> QED
      BY <3>1, <3>2 DEF Old
  <2>2. ASSUME NEW w \in Servers, NEW j \in 1..MaxLinks, NEW s \in Sessions,
               NEW k \in OnLink(w, j)', NEW n \in 1..Len(queue'[s]), link'[w][j].q[k].sess = s
        PROVE  link'[w][j].q[k].req # queue'[s][n]
    <3>1. PICK o \in OnLink(w, j) :
            /\ o = Old(w, j, k) /\ link'[w][j].q[k] = link[w][j].q[o]
            /\ (w = v /\ j = i => o > 1) /\ o \in Nat
      BY <1>7
    <3>2. link[w][j].q[o].sess = s
      BY <2>2, <3>1
    <3>3. CASE n \in 1..Len(queue[s]) /\ queue'[s][n] = queue[s][n]
      BY <1>1, <3>1, <3>2, <3>3 DEF Distinct
    <3>4. CASE s = a /\ queue'[s][n] = r
      <4> SUFFICES ASSUME link[w][j].q[o].req = r PROVE FALSE
        BY <3>1, <3>4
      <4>1. link[w][j].q[o] = link[v][i].q[1] /\ w = v
        BY <1>1, <1>4, <1>5, <3>2, <3>4, MessageOf
      <4>2. j = i /\ o = 1
        BY <1>1, <1>3, <4>1 DEF Distinct
      <4> QED
        BY <3>1, <4>1, <4>2
    <3> QED
      BY <1>8, <3>3, <3>4
  <2>3. ASSUME NEW s \in Sessions, NEW k \in 1..Len(queue'[s]), NEW n \in 1..Len(queue'[s]), k # n
        PROVE  queue'[s][k] # queue'[s][n]
    <3>1. ASSUME NEW x \in 1..Len(queue[a]) PROVE r # queue[a][x]
      <4>1. PICK o \in OnLink(v, i) : link[v][i].q[o].sess = a /\ link[v][i].q[o].req = r
        BY <1>3, <1>4
      <4> QED
        BY <1>1, <4>1 DEF Distinct
    <3>2. CASE k \in 1..Len(queue[s]) /\ queue'[s][k] = queue[s][k]
      <4>1. CASE n \in 1..Len(queue[s]) /\ queue'[s][n] = queue[s][n]
        BY <1>1, <2>3, <3>2, <4>1 DEF Distinct
      <4> QED
        BY <1>8, <3>1, <3>2, <4>1
    <3>3. CASE s = a /\ k = Len(queue[a]) + 1 /\ queue'[s][k] = r
      BY <1>8, <2>3, <3>1, <3>3
    <3> QED
      BY <1>8, <3>2, <3>3
  <2> QED
    BY <2>1, <2>2, <2>3 DEF Distinct
<1>13. AllOrdered'
  <2> SUFFICES ASSUME NEW s \in Sessions, Single(s)' PROVE Ordered(s)'
    BY DEF AllOrdered
  <2> DEFINE u == consvid[s]
  <2>1. u \in Servers
    BY ConstantFacts
  <2>2. Single(s)
    <3>1. \A j \in 2..MaxLinks : j \in 1..MaxLinks
      BY ConstantFacts
    <3> QED
      BY <1>3, <2>1, <3>1 DEF Single
  <2>3. Ordered(s)
    BY <1>1, <2>2 DEF AllOrdered
  <2>4. s = a => /\ \A k \in 1..Len(got[s]) : got[s][k] < r
                 /\ \A k \in 1..Len(queue[s]) : queue[s][k] < r
                 /\ i = 1
    <3> SUFFICES ASSUME s = a
                 PROVE  /\ \A k \in 1..Len(got[s]) : got[s][k] < r
                        /\ \A k \in 1..Len(queue[s]) : queue[s][k] < r
                        /\ i = 1
      OBVIOUS
    <3>1. \A j \in 1..MaxLinks : \A n \in OnLink(u, j) : link[u][j].q[n].sess = s =>
             /\ \A k \in 1..Len(got[s]) : got[s][k] < link[u][j].q[n].req
             /\ \A k \in 1..Len(queue[s]) : queue[s][k] < link[u][j].q[n].req
      BY <2>3 DEF Ordered
    <3> QED
      BY <1>3, <1>4, <1>5, <2>2, <3>1
  <2>5. Len(queue[s]) \in Nat
    BY <1>1 DEF Typed
  <2>6. ASSUME NEW k \in 1..Len(queue'[s]), NEW n \in 1..Len(queue'[s]), k < n
        PROVE  queue'[s][k] < queue'[s][n]
    <3>1. k \in 1..Len(queue[s]) /\ queue'[s][k] = queue[s][k]
      <4>1. \/ n \in 1..Len(queue[s])
            \/ s = a /\ n = Len(queue[a]) + 1
        BY <1>8
      <4>2. k \in 1..Len(queue[s])
        BY <2>5, <2>6, <4>1
      <4>3. ~(s = a /\ k = Len(queue[a]) + 1)
        BY <2>5, <4>2
      <4> QED
        BY <1>8, <4>2, <4>3
    <3> QED
      BY <1>8, <2>3, <2>4, <2>6, <3>1 DEF Ordered
  <2>7. \A k \in 1..Len(got'[s]), n \in 1..Len(queue'[s]) : got'[s][k] < queue'[s][n]
    BY <1>3, <1>8, <2>3, <2>4 DEF Ordered
  <2>8. ASSUME NEW j \in 1..MaxLinks, NEW n \in OnLink(u, j)', link'[u][j].q[n].sess = s
        PROVE  LET x == link'[u][j].q[n].req
               IN  /\ \A k \in 1..Len(got'[s]) : got'[s][k] < x
                   /\ \A k \in 1..Len(queue'[s]) : queue'[s][k] < x
                   /\ \A k \in OnLink(u, j)' :
                        k < n /\ link'[u][j].q[k].sess = s => link'[u][j].q[k].req < x
    <3>1. PICK o \in OnLink(u, j) :
            /\ o = Old(u, j, n) /\ link'[u][j].q[n] = link[u][j].q[o]
            /\ (u = v /\ j = i => o > 1) /\ o \in Nat /\ n \in Nat
      BY <1>7, <2>1
    <3>2. link[u][j].q[o].sess = s
      BY <2>8, <3>1
    <3>3. /\ \A k \in 1..Len(got[s]) : got[s][k] < link[u][j].q[o].req
          /\ \A k \in 1..Len(queue[s]) : queue[s][k] < link[u][j].q[o].req
          /\ \A k \in OnLink(u, j) :
               k < o /\ link[u][j].q[k].sess = s => link[u][j].q[k].req < link[u][j].q[o].req
      BY <2>3, <3>2 DEF Ordered
    <3>4. s = a => r < link[u][j].q[o].req
      <4> SUFFICES ASSUME s = a PROVE r < link[u][j].q[o].req
        OBVIOUS
      <4>1. u = v /\ j = 1 /\ i = 1
        <5>1. link[u][j].st # "none"
          BY <1>1, <2>1, OnLinkFacts
        <5>2. j # 1 => j \in 2..MaxLinks
          BY ConstantFacts
        <5>3. j = 1
          BY <2>2, <5>1, <5>2 DEF Single
        <5> QED
          BY <1>5, <2>4, <5>3
      <4>2. o > 1 /\ 1 \in OnLink(u, j)
        BY <1>3, <3>1, <4>1
      <4> QED
        BY <1>4, <1>5, <3>3, <4>1, <4>2
    <3>5. \A k \in 1..Len(queue'[s]) : queue'[s][k] < link[u][j].q[o].req
      BY <1>8, <3>3, <3>4
    <3>6. ASSUME NEW k \in OnLink(u, j)', k < n, link'[u][j].q[k].sess = s
          PROVE  link'[u][j].q[k].req < link[u][j].q[o].req
      <4>1. /\ Old(u, j, k) \in OnLink(u, j) /\ link'[u][j].q[k] = link[u][j].q[Old(u, j, k)]
            /\ k \in Nat
        BY <1>7, <2>1
      <4>2. Old(u, j, k) < o
        BY <3>1, <3>6, <4>1 DEF Old
      <4> QED
        BY <3>3, <3>6, <4>1, <4>2
    <3> QED
      BY <1>3, <3>1, <3>3, <3>5, <3>6
  <2>9. got' = got
    BY <1>3
  <2> QED
    BY <2>3, <2>6, <2>7, <2>8, <2>9 DEF Ordered
<1> QED
  BY <1>3, <1>9, <1>11, <1>12, <1>13 DEF Path

\* The loop of a session handles an operator.
LEMMA DeliverPath ==
  ASSUME NEW d \in Nat, Path(d), NEW s \in Sessions, Deliver(s)
  PROVE  Path(d)'
<1>1. Typed /\ Placed /\ Bounded(d) /\ Distinct /\ AllOrdered
  BY DEF Path
<1>2. /\ Typed' /\ UNCHANGED <<cur, link, up>>
      /\ Len(queue[s]) \in Nat /\ Len(queue[s]) > 0 /\ Len(queue'[s]) = Len(queue[s]) - 1
      /\ \A k \in 1..Len(queue'[s]) : k + 1 \in 1..Len(queue[s]) /\ queue'[s][k] = queue[s][k + 1]
      /\ \A t \in Sessions : t # s => queue'[t] = queue[t] /\ got'[t] = got[t]
      /\ Len(got[s]) \in Nat
      /\ s \notin up => got' = got
      /\ s \in up => /\ Len(got'[s]) = Len(got[s]) + 1 /\ got'[s][Len(got[s]) + 1] = queue[s][1]
                     /\ \A k \in 1..Len(got[s]) : got'[s][k] = got[s][k]
  BY <1>1, DeliverFacts
<1> DEFINE Old(t, k) == IF t = s THEN k + 1 ELSE k
<1>3. ASSUME NEW t \in Sessions, NEW k \in 1..Len(queue'[t])
      PROVE  Old(t, k) \in 1..Len(queue[t]) /\ queue'[t][k] = queue[t][Old(t, k)] /\ (t = s => Old(t, k) > 1)
  <2>1. CASE t = s
    BY <1>2, <2>1
  <2>2. CASE t # s
    BY <1>2, <2>2
  <2> QED
    BY <2>1, <2>2
<1>4. ASSUME NEW t \in Sessions, NEW k \in 1..Len(got'[t])
      PROVE  \/ k \in 1..Len(got[t]) /\ got'[t][k] = got[t][k]
             \/ t = s /\ k = Len(got[s]) + 1 /\ got'[t][k] = queue[s][1]
  <2>1. CASE t = s /\ s \in up
    BY <1>2, <2>1
  <2>2. CASE t # s \/ s \notin up
    BY <1>2, <2>2
  <2> QED
    BY <2>1, <2>2
<1>5. 1 \in 1..Len(queue[s])
  BY <1>2
<1> HIDE DEF Old
<1>6. Placed'
  BY <1>1, <1>2 DEF Placed, OnLink
<1>7. Bounded(d)'
  <2>1. \A t \in Sessions : \A k \in 1..Len(queue'[t]) : queue'[t][k] <= d
    BY <1>1, <1>3 DEF Bounded
  <2>2. queue[s][1] <= d
    BY <1>1, <1>5 DEF Bounded
  <2>3. \A t \in Sessions : \A k \in 1..Len(got'[t]) : got'[t][k] <= d
    BY <1>1, <1>4, <2>2 DEF Bounded
  <2> QED
    BY <1>1, <1>2, <2>1, <2>3 DEF Bounded, OnLink
<1>8. Distinct'
  <2>1. ASSUME NEW w \in Servers, NEW j \in 1..MaxLinks, NEW t \in Sessions,
               NEW k \in OnLink(w, j), NEW n \in 1..Len(queue'[t]), link[w][j].q[k].sess = t
        PROVE  link[w][j].q[k].req # queue'[t][n]
    <3>1. PICK o \in 1..Len(queue[t]) : queue'[t][n] = queue[t][o]
      BY <1>3
    <3> QED
      BY <1>1, <2>1, <3>1 DEF Distinct
  <2>2. ASSUME NEW t \in Sessions, NEW k \in 1..Len(queue'[t]), NEW n \in 1..Len(queue'[t]), k # n
        PROVE  queue'[t][k] # queue'[t][n]
    <3>1. /\ Old(t, k) \in 1..Len(queue[t]) /\ queue'[t][k] = queue[t][Old(t, k)]
          /\ Old(t, n) \in 1..Len(queue[t]) /\ queue'[t][n] = queue[t][Old(t, n)]
      BY <1>3
    <3>2. Old(t, k) # Old(t, n)
      <4>1. k \in Nat /\ n \in Nat
        BY <1>2, <1>1 DEF Typed
      <4> QED
        BY <2>2, <4>1 DEF Old
    <3> QED
      BY <1>1, <3>1, <3>2 DEF Distinct
  <2>3. link' = link
    BY <1>2
  <2> QED
    BY <1>1, <2>1, <2>2, <2>3 DEF Distinct, OnLink
<1>9. AllOrdered'
  <2> SUFFICES ASSUME NEW t \in Sessions, Single(t)' PROVE Ordered(t)'
    BY DEF AllOrdered
  <2>1. Single(t) /\ link' = link
    BY <1>2 DEF Single
  <2>2. Ordered(t)
    BY <1>1, <2>1 DEF AllOrdered
  <2>3. /\ \A k, m \in 1..Len(got[t]) : k < m => got[t][k] < got[t][m]
        /\ \A k, m \in 1..Len(queue[t]) : k < m => queue[t][k] < queue[t][m]
        /\ \A k \in 1..Len(got[t]), m \in 1..Len(queue[t]) : got[t][k] < queue[t][m]
    BY <2>2 DEF Ordered
  <2>4. \A k \in 1..Len(queue'[t]) : k \in Nat
    BY <1>1, <1>2 DEF Typed
  <2>5. ASSUME NEW k \in 1..Len(got'[t]), NEW m \in 1..Len(got'[t]), k < m
        PROVE  got'[t][k] < got'[t][m]
    <3>1. k \in 1..Len(got[t]) /\ got'[t][k] = got[t][k]
      <4>1. CASE t = s /\ s \in up
        <5>1. Len(got[s]) \in Nat /\ Len(got'[s]) = Len(got[s]) + 1
              /\ \A i \in 1..Len(got[s]) : got'[s][i] = got[s][i]
          BY <1>2, <4>1
        <5>2. k \in 1..Len(got[s])
          BY <2>5, <4>1, <5>1
        <5> QED
          BY <4>1, <5>1, <5>2
      <4>2. CASE t # s \/ s \notin up
        BY <1>2, <2>5, <4>2
      <4> QED
        BY <4>1, <4>2
    <3> QED
      BY <1>4, <1>5, <2>3, <2>5, <3>1
  <2>6. ASSUME NEW k \in 1..Len(queue'[t]), NEW m \in 1..Len(queue'[t]), k < m
        PROVE  queue'[t][k] < queue'[t][m]
    <3>1. /\ Old(t, k) \in 1..Len(queue[t]) /\ queue'[t][k] = queue[t][Old(t, k)]
          /\ Old(t, m) \in 1..Len(queue[t]) /\ queue'[t][m] = queue[t][Old(t, m)]
      BY <1>3
    <3>2. Old(t, k) < Old(t, m)
      BY <2>4, <2>6 DEF Old
    <3> QED
      BY <2>3, <3>1, <3>2
  <2>7. ASSUME NEW k \in 1..Len(got'[t]), NEW m \in 1..Len(queue'[t])
        PROVE  got'[t][k] < queue'[t][m]
    <3>1. PICK o \in 1..Len(queue[t]) : queue'[t][m] = queue[t][o] /\ (t = s => o > 1)
      BY <1>3
    <3>2. CASE k \in 1..Len(got[t]) /\ got'[t][k] = got[t][k]
      BY <2>3, <3>1, <3>2
    <3>3. CASE t = s /\ got'[t][k] = queue[s][1]
      <4>1. 1 < o
        BY <1>2, <3>1, <3>3
      <4> QED
        BY <1>5, <2>3, <3>1, <3>3, <4>1
    <3> QED
      BY <1>4, <3>2, <3>3
  <2>8. ASSUME NEW i \in 1..MaxLinks, NEW m \in OnLink(consvid[t], i), link[consvid[t]][i].q[m].sess = t
        PROVE  LET r == link[consvid[t]][i].q[m].req
               IN  /\ \A k \in 1..Len(got'[t]) : got'[t][k] < r
                   /\ \A k \in 1..Len(queue'[t]) : queue'[t][k] < r
                   /\ \A k \in OnLink(consvid[t], i) :
                        k < m /\ link[consvid[t]][i].q[k].sess = t => link[consvid[t]][i].q[k].req < r
    <3>1. /\ \A k \in 1..Len(got[t]) : got[t][k] < link[consvid[t]][i].q[m].req
          /\ \A k \in 1..Len(queue[t]) : queue[t][k] < link[consvid[t]][i].q[m].req
          /\ \A k \in OnLink(consvid[t], i) :
               k < m /\ link[consvid[t]][i].q[k].sess = t
                 => link[consvid[t]][i].q[k].req < link[consvid[t]][i].q[m].req
      BY <2>2, <2>8 DEF Ordered
    <3>2. \A k \in 1..Len(got'[t]) : got'[t][k] < link[consvid[t]][i].q[m].req
      BY <1>4, <1>5, <3>1
    <3>3. \A k \in 1..Len(queue'[t]) : queue'[t][k] < link[consvid[t]][i].q[m].req
      BY <1>3, <3>1
    <3> QED
      BY <3>1, <3>2, <3>3
  <2> QED
    BY <2>1, <2>5, <2>6, <2>7, <2>8 DEF Ordered, OnLink
<1> QED
  BY <1>2, <1>6, <1>7, <1>8, <1>9 DEF Path

\* The next request is put on the connections.
LEMMA SendPath ==
  ASSUME NEW d \in Nat, Path(d), NEW S \in SUBSET Sessions, SendPushes(S, d + 1),
         UNCHANGED <<cur, queue, up, got>>
  PROVE  Path(d + 1)'
<1> DEFINE e == d + 1
<1>0. e \in Nat /\ e > d
  OBVIOUS
<1>1. Typed /\ Placed /\ Bounded(d) /\ Distinct /\ AllOrdered /\ SendPushes(S, e)
  BY DEF Path
<1> HIDE DEF e
<1>2. link' \in [Servers -> [1..MaxLinks -> Link]]
  BY <1>0, <1>1, SendFacts
<1>3. Typed'
  BY <1>1, <1>2 DEF Typed
<1>A. \A v \in Servers, i \in 1..MaxLinks : Added(S, e, v, i)
  BY <1>0, <1>1, SendFacts
<1>4. ASSUME NEW v \in Servers, NEW i \in 1..MaxLinks
      PROVE  /\ link'[v][i].st = link[v][i].st
             /\ Len(link'[v][i].q) \in Nat /\ Len(link[v][i].q) \in Nat
             /\ Len(link'[v][i].q) >= Len(link[v][i].q)
             /\ \A k \in OnLink(v, i) : link'[v][i].q[k] = link[v][i].q[k]
             /\ \A k \in OnLink(v, i)' :
                  k > Len(link[v][i].q) =>
                    /\ i = cur[v] /\ link[v][i].st = "up"
                    /\ link'[v][i].q[k].sess \in S /\ consvid[link'[v][i].q[k].sess] = v
                    /\ link'[v][i].q[k].req = e
             /\ \A k, m \in OnLink(v, i)' :
                  /\ k > Len(link[v][i].q) /\ m > Len(link[v][i].q)
                  /\ link'[v][i].q[k] = link'[v][i].q[m]
                  => k = m
  BY <1>A DEF Added
<1> DEFINE Stays(v, i, k) ==
             k \in OnLink(v, i) /\ link'[v][i].q[k] = link[v][i].q[k] /\ k <= Len(link[v][i].q)
           New(v, i, k) ==
             /\ i = cur[v] /\ link[v][i].st = "up" /\ consvid[link'[v][i].q[k].sess] = v
             /\ link'[v][i].q[k].req = e /\ k > Len(link[v][i].q)
             /\ link'[v][i].q[k] = [sess |-> link'[v][i].q[k].sess, req |-> e]
<1>5. ASSUME NEW v \in Servers, NEW i \in 1..MaxLinks, NEW k \in OnLink(v, i)'
      PROVE  Stays(v, i, k) \/ New(v, i, k)
  <2>1. k \in Nat /\ k >= 1 /\ Len(link[v][i].q) \in Nat
    BY <1>4 DEF OnLink
  <2>2. CASE k <= Len(link[v][i].q)
    <3>1. k \in OnLink(v, i)
      BY <2>1, <2>2 DEF OnLink
    <3>2. link'[v][i].q[k] = link[v][i].q[k]
      <4>1. \A m \in OnLink(v, i) : link'[v][i].q[m] = link[v][i].q[m]
        BY <1>A, Zenon DEF Added
      <4> QED
        BY <3>1, <4>1, Zenon
    <3>3. Stays(v, i, k)
      BY <2>2, <3>1, <3>2
    <3> QED
      BY <3>3
  <2>3. CASE k > Len(link[v][i].q)
    <3>1. link'[v][i] \in Link
      BY <1>2
    <3>2. link'[v][i].q[k] \in Message
      <4>1. link'[v][i].q \in Seq(Message)
        BY <3>1 DEF Link
      <4> QED
        BY <4>1 DEF OnLink
    <3>3. /\ i = cur[v] /\ link[v][i].st = "up" /\ consvid[link'[v][i].q[k].sess] = v
          /\ link'[v][i].q[k].req = e
      BY <1>4, <2>3
    <3> QED
      BY <2>3, <3>2, <3>3 DEF Message
  <2> QED
    BY <2>1, <2>2, <2>3
<1> HIDE DEF Stays, New
<1>6. Placed'
  <2>1. \A v \in Servers : cur'[v] # 0 => link'[v][cur'[v]].st # "none"
    <3> SUFFICES ASSUME NEW v \in Servers, cur[v] # 0 PROVE link'[v][cur[v]].st # "none"
      OBVIOUS
    <3>1. cur[v] \in 1..MaxLinks /\ link[v][cur[v]].st # "none"
      BY <1>1, ConstantFacts DEF Typed, Placed
    <3> QED
      BY <1>4, <3>1
  <2>2. ASSUME NEW v \in Servers, NEW i \in 1..MaxLinks, link'[v][i].st = "none"
        PROVE  link'[v][i].q = <<>>
    <3>1. link[v][i].st = "none" /\ link[v][i].q = <<>>
      BY <1>1, <1>4, <2>2 DEF Placed
    <3>2. \A k \in OnLink(v, i)' : FALSE
      <4>1. \A k \in OnLink(v, i) : FALSE
        BY <3>1 DEF OnLink
      <4> QED
        BY <1>5, <3>1, <4>1 DEF Stays, New
    <3>3. link'[v][i].q \in Seq(Message) /\ Len(link'[v][i].q) = 0
      <4>1. link'[v][i].q \in Seq(Message)
        BY <1>2 DEF Link
      <4> QED
        BY <1>4, <3>2, <4>1 DEF OnLink
    <3> QED
      BY <3>3
  <2>3. \A v \in Servers, i \in 1..MaxLinks : \A k \in OnLink(v, i)' : consvid[link'[v][i].q[k].sess] = v
    <3> SUFFICES ASSUME NEW v \in Servers, NEW i \in 1..MaxLinks, NEW k \in OnLink(v, i)'
                 PROVE  consvid[link'[v][i].q[k].sess] = v
      OBVIOUS
    <3>1. CASE Stays(v, i, k)
      BY <1>1, <3>1 DEF Placed, Stays
    <3>2. CASE New(v, i, k)
      BY <3>2 DEF New
    <3> QED
      BY <1>5, <3>1, <3>2
  <2> QED
    BY <2>1, <2>2, <2>3 DEF Placed
<1>7. \A v \in Servers, i \in 1..MaxLinks : \A k \in OnLink(v, i) :
        link[v][i].q[k].req \in Nat /\ link[v][i].q[k].req <= d /\ link[v][i].q[k].req < e
  <2> SUFFICES ASSUME NEW v \in Servers, NEW i \in 1..MaxLinks, NEW k \in OnLink(v, i)
               PROVE  link[v][i].q[k].req \in Nat /\ link[v][i].q[k].req <= d
    BY <1>0
  <2>1. link[v][i].q[k] \in Message
    BY <1>1, OnLinkFacts
  <2> QED
    BY <1>1, <2>1 DEF Bounded, Message
<1>8. \A s \in Sessions : \A k \in 1..Len(queue[s]) : queue[s][k] \in Nat /\ queue[s][k] <= d /\ queue[s][k] < e
  BY <1>0, <1>1 DEF Bounded, Typed
<1>9. \A s \in Sessions : \A k \in 1..Len(got[s]) : got[s][k] \in Nat /\ got[s][k] <= d /\ got[s][k] < e
  BY <1>0, <1>1 DEF Bounded, Typed
<1>10. Bounded(e)'
  <2>1. ASSUME NEW v \in Servers, NEW i \in 1..MaxLinks, NEW k \in OnLink(v, i)'
        PROVE  link'[v][i].q[k].req <= e
    <3>1. CASE Stays(v, i, k)
      <4>1. k \in OnLink(v, i) /\ link'[v][i].q[k] = link[v][i].q[k]
        BY <3>1 DEF Stays
      <4>2. link[v][i].q[k].req \in Nat /\ link[v][i].q[k].req < e
        BY <1>7, <4>1
      <4> QED
        BY <1>0, <4>1, <4>2
    <3>2. CASE New(v, i, k)
      BY <1>0, <3>2 DEF New
    <3> QED
      BY <1>5, <3>1, <3>2
  <2>2. \A s \in Sessions : \A k \in 1..Len(queue[s]) : queue[s][k] <= e
    BY <1>0, <1>8
  <2>3. \A s \in Sessions : \A k \in 1..Len(got[s]) : got[s][k] <= e
    BY <1>0, <1>9
  <2> QED
    BY <2>1, <2>2, <2>3 DEF Bounded
<1>11. Distinct'
  <2>1. ASSUME NEW w \in Servers, NEW i \in 1..MaxLinks, NEW j \in 1..MaxLinks,
               NEW k \in OnLink(w, i)', NEW m \in OnLink(w, j)', link'[w][i].q[k] = link'[w][j].q[m]
        PROVE  i = j /\ k = m
    <3>0. \A x \in OnLink(w, i)' : Stays(w, i, x) => link'[w][i].q[x].req # e
      BY <1>0, <1>7 DEF Stays
    <3>1. CASE Stays(w, i, k)
      <4>1. link'[w][j].q[m].req # e
        BY <2>1, <3>0, <3>1
      <4>a. ~New(w, j, m)
        BY <4>1 DEF New
      <4>2. Stays(w, j, m)
        BY <1>5, <4>a
      <4>3. /\ k \in OnLink(w, i) /\ m \in OnLink(w, j)
            /\ link[w][i].q[k] = link[w][j].q[m]
        BY <2>1, <3>1, <4>2 DEF Stays
      <4> QED
        BY <1>1, <4>3 DEF Distinct
    <3>2. CASE New(w, i, k)
      <4>1. link'[w][j].q[m].req = e
        BY <2>1, <3>2 DEF New
      <4>2. ~Stays(w, j, m)
        <5> SUFFICES ASSUME Stays(w, j, m) PROVE FALSE
          OBVIOUS
        <5>1. m \in OnLink(w, j) /\ link[w][j].q[m].req = e
          BY <4>1 DEF Stays
        <5> QED
          BY <1>0, <1>7, <5>1
      <4>3. New(w, j, m)
        BY <1>5, <4>2
      <4>4. i = j /\ k > Len(link[w][i].q) /\ m > Len(link[w][i].q)
        BY <3>2, <4>3 DEF New
      <4> QED
        BY <1>4, <2>1, <4>4
    <3> QED
      BY <1>5, <3>1, <3>2
  <2>2. ASSUME NEW w \in Servers, NEW j \in 1..MaxLinks, NEW s \in Sessions,
               NEW k \in OnLink(w, j)', NEW n \in 1..Len(queue[s]), link'[w][j].q[k].sess = s
        PROVE  link'[w][j].q[k].req # queue[s][n]
    <3>1. CASE Stays(w, j, k)
      BY <1>1, <2>2, <3>1 DEF Distinct, Stays
    <3>2. CASE New(w, j, k)
      BY <1>0, <1>8, <3>2 DEF New
    <3> QED
      BY <1>5, <3>1, <3>2
  <2> QED
    BY <1>1, <2>1, <2>2 DEF Distinct
<1>12. AllOrdered'
  <2> SUFFICES ASSUME NEW s \in Sessions, Single(s)' PROVE Ordered(s)'
    BY DEF AllOrdered
  <2> DEFINE u == consvid[s]
  <2>1. u \in Servers
    BY ConstantFacts
  <2>2. Single(s)
    <3>1. \A j \in 2..MaxLinks : j \in 1..MaxLinks
      BY ConstantFacts
    <3> QED
      BY <1>4, <2>1, <3>1 DEF Single
  <2>3. Ordered(s)
    BY <1>1, <2>2 DEF AllOrdered
  <2>4. ASSUME NEW j \in 1..MaxLinks, NEW n \in OnLink(u, j)', link'[u][j].q[n].sess = s
        PROVE  LET x == link'[u][j].q[n].req
               IN  /\ \A k \in 1..Len(got[s]) : got[s][k] < x
                   /\ \A k \in 1..Len(queue[s]) : queue[s][k] < x
                   /\ \A k \in OnLink(u, j)' :
                        k < n /\ link'[u][j].q[k].sess = s => link'[u][j].q[k].req < x
    <3>l. Len(link[u][j].q) \in Nat
      BY <1>4, <2>1
    <3>k. \A k \in OnLink(u, j)' : k \in Nat
      BY DEF OnLink
    <3>0. Len(link[u][j].q) \in Nat /\ \A k \in OnLink(u, j)' : k \in Nat
      BY <3>l, <3>k
    <3>1. CASE Stays(u, j, n)
      <4>1. /\ \A k \in 1..Len(got[s]) : got[s][k] < link[u][j].q[n].req
            /\ \A k \in 1..Len(queue[s]) : queue[s][k] < link[u][j].q[n].req
            /\ \A k \in OnLink(u, j) :
                 k < n /\ link[u][j].q[k].sess = s => link[u][j].q[k].req < link[u][j].q[n].req
        BY <2>3, <2>4, <3>1 DEF Ordered, Stays
      <4>2. \A k \in OnLink(u, j)' : k < n => k \in OnLink(u, j) /\ link'[u][j].q[k] = link[u][j].q[k]
        <5> SUFFICES ASSUME NEW k \in OnLink(u, j)', k < n
                     PROVE  k \in OnLink(u, j) /\ link'[u][j].q[k] = link[u][j].q[k]
          OBVIOUS
        <5>1. ~(k > Len(link[u][j].q))
          BY <3>0, <3>1 DEF Stays
        <5>2. Stays(u, j, k)
          BY <1>5, <2>1, <5>1 DEF New
        <5> QED
          BY <5>2 DEF Stays
      <4> QED
        BY <3>1, <4>1, <4>2 DEF Stays
    <3>2. CASE New(u, j, n)
      <4>1. ASSUME NEW k \in OnLink(u, j)', k < n, link'[u][j].q[k].sess = s
            PROVE  link'[u][j].q[k].req < e
        <5>1. CASE Stays(u, j, k)
          BY <1>7, <2>1, <5>1 DEF Stays
        <5>2. CASE New(u, j, k)
          <6>1. link'[u][j].q[k] = link'[u][j].q[n]
            BY <2>4, <3>2, <4>1, <5>2 DEF New
          <6>2. k > Len(link[u][j].q) /\ n > Len(link[u][j].q)
            BY <3>2, <5>2 DEF New
          <6>3. k = n
            BY <1>4, <2>1, <6>1, <6>2
          <6> QED
            BY <3>0, <4>1, <6>3
        <5> QED
          BY <1>5, <2>1, <5>1, <5>2
      <4> QED
        BY <1>8, <1>9, <3>2, <4>1 DEF New
    <3> QED
      BY <1>5, <2>1, <3>1, <3>2
  <2>5. UNCHANGED <<queue, got>>
    OBVIOUS
  <2> QED
    BY <2>3, <2>4, <2>5 DEF Ordered
<1>13. Path(e)'
  BY <1>3, <1>6, <1>10, <1>11, <1>12 DEF Path
<1> QED
  BY <1>13 DEF e

-----------------------------------------------------------------------------
(* What is under way to a session *)

Carried(l) == UNION {Range(l[c[1]][c[2]].q) : c \in Links}
Way(q, l, s) == Range(q[s]) \cup {m.req : m \in {y \in Carried(l) : y.sess = s}}

Waits(q, s, x) == \E k \in 1..Len(q[s]) : q[s][k] = x

Rides(l, s, x) ==
  \E v \in Servers, i \in 1..MaxLinks : \E k \in 1..Len(l[v][i].q) : l[v][i].q[k] = [sess |-> s, req |-> x]

\* A request under way is in the session's loop or on a connection.
LEMMA WayFacts ==
  ASSUME NEW q \in [Sessions -> Seq(Nat)], NEW l \in [Servers -> [1..MaxLinks -> Link]],
         NEW s \in Sessions, NEW x
  PROVE  x \in Way(q, l, s) <=> Waits(q, s, x) \/ Rides(l, s, x)
<1>1. q[s] \in Seq(Nat)
  OBVIOUS
<1>2. x \in Range(q[s]) <=> Waits(q, s, x)
  <2>1. DOMAIN q[s] = 1..Len(q[s])
    BY <1>1
  <2> QED
    BY <2>1 DEF Range, Waits
<1>3. ASSUME NEW m
      PROVE  m \in Carried(l) <=> \E v \in Servers, i \in 1..MaxLinks : \E k \in 1..Len(l[v][i].q) : l[v][i].q[k] = m
  <2>1. ASSUME NEW v \in Servers, NEW i \in 1..MaxLinks
        PROVE  m \in Range(l[v][i].q) <=> \E k \in 1..Len(l[v][i].q) : l[v][i].q[k] = m
    <3>1. l[v][i].q \in Seq(Message)
      BY DEF Link
    <3>2. DOMAIN l[v][i].q = 1..Len(l[v][i].q)
      BY <3>1
    <3> QED
      BY <3>2 DEF Range
  <2>2. m \in Carried(l) <=> \E c \in Links : m \in Range(l[c[1]][c[2]].q)
    BY DEF Carried
  <2>3. (\E c \in Links : m \in Range(l[c[1]][c[2]].q))
          <=> \E v \in Servers, i \in 1..MaxLinks : m \in Range(l[v][i].q)
    <3>1. ASSUME NEW v \in Servers, NEW i \in 1..MaxLinks, m \in Range(l[v][i].q)
          PROVE  \E c \in Links : m \in Range(l[c[1]][c[2]].q)
      <4>1. <<v, i>> \in Links /\ <<v, i>>[1] = v /\ <<v, i>>[2] = i
        BY DEF Links
      <4> QED
        BY <3>1, <4>1
    <3>2. ASSUME NEW c \in Links PROVE c[1] \in Servers /\ c[2] \in 1..MaxLinks
      BY DEF Links
    <3> QED
      BY <3>1, <3>2
  <2> QED
    BY <2>1, <2>2, <2>3
<1> DEFINE B == {m.req : m \in {y \in Carried(l) : y.sess = s}}
<1>4. x \in B <=> Rides(l, s, x)
  <2>1. ASSUME x \in B PROVE Rides(l, s, x)
    <3>1. PICK m \in Carried(l) : m.sess = s /\ m.req = x
      BY <2>1
    <3>2. PICK v \in Servers, i \in 1..MaxLinks : \E k \in 1..Len(l[v][i].q) : l[v][i].q[k] = m
      BY <1>3, <3>1
    <3>3. PICK k \in 1..Len(l[v][i].q) : l[v][i].q[k] = m
      BY <3>2
    <3>4. m \in Message
      <4>1. l[v][i].q \in Seq(Message)
        BY DEF Link
      <4> QED
        BY <3>3, <4>1
    <3>5. m = [sess |-> s, req |-> x]
      BY <3>1, <3>4 DEF Message
    <3> QED
      BY <3>3, <3>5 DEF Rides
  <2>2. ASSUME Rides(l, s, x) PROVE x \in B
    <3>1. [sess |-> s, req |-> x] \in Carried(l)
      BY <1>3, <2>2 DEF Rides
    <3>2. [sess |-> s, req |-> x].sess = s /\ [sess |-> s, req |-> x].req = x
      OBVIOUS
    <3> QED
      BY <3>1, <3>2
  <2> QED
    BY <2>1, <2>2
<1>5. Way(q, l, s) = Range(q[s]) \cup B
  BY DEF Way
<1> QED
  BY <1>2, <1>4, <1>5

\* The same for the state before and after a step.
LEMMA UnderWayFacts ==
  ASSUME NEW s \in Sessions
  PROVE  /\ Typed => \A x : x \in UnderWay(s) <=> Waits(queue, s, x) \/ Rides(link, s, x)
         /\ Typed' => \A x : x \in UnderWay(s)' <=> Waits(queue', s, x) \/ Rides(link', s, x)
<1>1. UnderWay(s) = Way(queue, link, s) /\ UnderWay(s)' = Way(queue', link', s)
  BY DEF UnderWay, Way, Carried, Links
<1>2. Typed => queue \in [Sessions -> Seq(Nat)] /\ link \in [Servers -> [1..MaxLinks -> Link]]
  BY DEF Typed
<1>3. Typed' => queue' \in [Sessions -> Seq(Nat)] /\ link' \in [Servers -> [1..MaxLinks -> Link]]
  BY DEF Typed
<1>4. ASSUME Typed, NEW x PROVE x \in UnderWay(s) <=> Waits(queue, s, x) \/ Rides(link, s, x)
  <2>1. x \in Way(queue, link, s) <=> Waits(queue, s, x) \/ Rides(link, s, x)
    BY <1>2, <1>4, WayFacts
  <2> QED
    BY <1>1, <2>1
<1>5. ASSUME Typed', NEW x PROVE x \in UnderWay(s)' <=> Waits(queue', s, x) \/ Rides(link', s, x)
  <2>1. PICK q, l : q = queue' /\ l = link'
    OBVIOUS
  <2>2. x \in Way(q, l, s) <=> Waits(q, s, x) \/ Rides(l, s, x)
    BY <1>3, <1>5, <2>1, WayFacts
  <2> QED
    BY <1>1, <2>1, <2>2
<1> QED
  BY <1>4, <1>5

\* What rides to s is on a connection.
LEMMA RidesFacts ==
  ASSUME Typed, Placed, NEW s \in Sessions, NEW x, Rides(link, s, x)
  PROVE  \E v \in Servers, i \in 1..MaxLinks : \E k \in OnLink(v, i) :
           /\ link[v][i].q[k] = [sess |-> s, req |-> x] /\ x \in Nat
           /\ link[v][i].q[k].sess = s /\ link[v][i].q[k].req = x
<1>1. PICK v \in Servers, i \in 1..MaxLinks : \E k \in OnLink(v, i) : link[v][i].q[k] = [sess |-> s, req |-> x]
  BY DEF Rides, OnLink
<1>2. PICK k \in OnLink(v, i) : link[v][i].q[k] = [sess |-> s, req |-> x]
  BY <1>1
<1>3. link[v][i].q[k].req = x /\ link[v][i].q[k].sess = s
  BY <1>2
<1>4. link[v][i].q[k] \in Message
  BY OnLinkFacts
<1>5. x \in Nat
  BY <1>3, <1>4 DEF Message
<1> QED
  BY <1>2, <1>3, <1>5

\* Only requests taken from the stream are under way or have arrived.
LEMMA WayBounded ==
  ASSUME NEW d \in Nat, Path(d), NEW s \in Sessions, NEW x, x \in UnderWay(s) \cup Range(got[s])
  PROVE  x \in Nat /\ x <= d
<1>1. Typed /\ Placed /\ Bounded(d)
  BY DEF Path
<1>2. CASE Waits(queue, s, x)
  BY <1>1, <1>2 DEF Waits, Bounded, Typed
<1>3. CASE Rides(link, s, x)
  <2>1. PICK v \in Servers, i \in 1..MaxLinks : \E k \in OnLink(v, i) :
          /\ link[v][i].q[k] = [sess |-> s, req |-> x] /\ x \in Nat
          /\ link[v][i].q[k].sess = s /\ link[v][i].q[k].req = x
    BY <1>1, <1>3, RidesFacts
  <2>2. PICK k \in OnLink(v, i) : link[v][i].q[k].req = x /\ x \in Nat
    BY <2>1
  <2> QED
    BY <1>1, <2>2 DEF Bounded
<1>4. CASE x \in Range(got[s])
  <2>1. got[s] \in Seq(Nat)
    BY <1>1 DEF Typed
  <2>2. PICK k \in 1..Len(got[s]) : got[s][k] = x
    BY <1>4, <2>1 DEF Range
  <2> QED
    BY <1>1, <2>1, <2>2 DEF Bounded
<1> QED
  BY <1>1, <1>2, <1>3, <1>4, UnderWayFacts

\* A connection that breaks loses pushes and gives none.
LEMMA BreakWay ==
  ASSUME NEW d \in Nat, Path(d), NEW v \in Servers, NEW i \in 1..MaxLinks, Break(v, i), NEW s \in Sessions
  PROVE  UnderWay(s)' \subseteq UnderWay(s)
<1>1. Typed
  BY DEF Path
<1>2. /\ Typed' /\ queue' = queue
      /\ \A w \in Servers, j \in 1..MaxLinks :
           \A k \in OnLink(w, j)' : k \in OnLink(w, j) /\ link'[w][j].q[k] = link[w][j].q[k]
  BY <1>1, BreakFacts
<1>3. ASSUME NEW x, Rides(link', s, x) PROVE Rides(link, s, x)
  <2>1. PICK w \in Servers, j \in 1..MaxLinks :
          \E k \in OnLink(w, j)' : link'[w][j].q[k] = [sess |-> s, req |-> x]
    BY <1>3 DEF Rides, OnLink
  <2>2. \E k \in OnLink(w, j) : link[w][j].q[k] = [sess |-> s, req |-> x]
    BY <1>2, <2>1
  <2> QED
    BY <2>2 DEF Rides, OnLink
<1> QED
  BY <1>1, <1>2, <1>3, UnderWayFacts

\* A connection that registers takes nothing away.
LEMMA RegisterWay ==
  ASSUME NEW d \in Nat, Path(d), NEW v \in Servers, Register(v), NEW s \in Sessions
  PROVE  UnderWay(s)' = UnderWay(s)
<1>1. Typed
  BY DEF Path
<1>2. Typed' /\ queue' = queue /\ \A w \in Servers, j \in 1..MaxLinks : link'[w][j].q = link[w][j].q
  BY <1>1, RegisterFacts
<1>3. ASSUME NEW x PROVE Rides(link', s, x) <=> Rides(link, s, x)
  <2>1. \A w \in Servers, j \in 1..MaxLinks :
          (\E k \in 1..Len(link'[w][j].q) : link'[w][j].q[k] = [sess |-> s, req |-> x])
            <=> \E k \in 1..Len(link[w][j].q) : link[w][j].q[k] = [sess |-> s, req |-> x]
    BY <1>2
  <2> QED
    BY <2>1 DEF Rides
<1> QED
  BY <1>1, <1>2, <1>3, UnderWayFacts

\* A push that is routed stays under way.
LEMMA RouteWay ==
  ASSUME NEW d \in Nat, Path(d), NEW v \in Servers, NEW i \in 1..MaxLinks, Route(v, i), NEW s \in Sessions
  PROVE  UnderWay(s)' = UnderWay(s)
<1>1. Typed /\ Placed
  BY DEF Path
<1>2. PICK a \in Sessions, r \in Nat : Moved(v, i, a, r)
  BY <1>1, RouteFacts
<1>3. /\ Typed' /\ 1 \in OnLink(v, i) /\ link[v][i].q[1] = [sess |-> a, req |-> r]
      /\ Len(link[v][i].q) \in Nat /\ Len(link'[v][i].q) = Len(link[v][i].q) - 1
      /\ \A k \in OnLink(v, i)' : k + 1 \in OnLink(v, i) /\ link'[v][i].q[k] = link[v][i].q[k + 1]
      /\ \A w \in Servers, j \in 1..MaxLinks : w # v \/ j # i => link'[w][j] = link[w][j]
  BY <1>2 DEF Moved
<1>4. /\ Len(queue[a]) \in Nat /\ Len(queue'[a]) = Len(queue[a]) + 1
      /\ \A k \in 1..Len(queue[a]) : queue'[a][k] = queue[a][k]
      /\ queue'[a][Len(queue[a]) + 1] = r
      /\ \A t \in Sessions : t # a => queue'[t] = queue[t]
  BY <1>2 DEF Moved
<1>5. ASSUME NEW x PROVE Waits(queue', s, x) <=> Waits(queue, s, x) \/ (s = a /\ x = r)
  <2>1. CASE s # a
    BY <1>4, <2>1 DEF Waits
  <2>2. CASE s = a
    <3>1. ASSUME NEW k \in 1..Len(queue'[a])
          PROVE  k \in 1..Len(queue[a]) \/ k = Len(queue[a]) + 1
      BY <1>4
    <3>2. Len(queue[a]) + 1 \in 1..Len(queue'[a]) /\ \A k \in 1..Len(queue[a]) : k \in 1..Len(queue'[a])
      BY <1>4
    <3>3. ASSUME Waits(queue', a, x) PROVE Waits(queue, a, x) \/ x = r
      BY <1>4, <3>1, <3>3 DEF Waits
    <3>4. ASSUME Waits(queue, a, x) \/ x = r PROVE Waits(queue', a, x)
      BY <1>4, <3>2, <3>4 DEF Waits
    <3> QED
      BY <2>2, <3>3, <3>4
  <2> QED
    BY <2>1, <2>2
<1>6. ASSUME NEW x, Rides(link', s, x) PROVE Rides(link, s, x)
  <2>1. PICK w \in Servers, j \in 1..MaxLinks :
          \E k \in OnLink(w, j)' : link'[w][j].q[k] = [sess |-> s, req |-> x]
    BY <1>6 DEF Rides, OnLink
  <2>2. PICK k \in OnLink(w, j)' : link'[w][j].q[k] = [sess |-> s, req |-> x]
    BY <2>1
  <2>3. \E o \in OnLink(w, j) : link[w][j].q[o] = [sess |-> s, req |-> x]
    <3>1. CASE w = v /\ j = i
      <4>1. k + 1 \in OnLink(w, j) /\ link'[w][j].q[k] = link[w][j].q[k + 1]
        BY <1>3, <3>1
      <4> QED
        BY <2>2, <4>1
    <3>2. CASE w # v \/ j # i
      BY <1>3, <2>2, <3>2 DEF OnLink
    <3> QED
      BY <3>1, <3>2
  <2> QED
    BY <2>3 DEF Rides, OnLink
<1>7. ASSUME NEW x, Rides(link, s, x) PROVE Rides(link', s, x) \/ (s = a /\ x = r)
  <2>1. PICK w \in Servers, j \in 1..MaxLinks :
          \E k \in OnLink(w, j) : link[w][j].q[k] = [sess |-> s, req |-> x]
    BY <1>7 DEF Rides, OnLink
  <2>2. PICK k \in OnLink(w, j) : link[w][j].q[k] = [sess |-> s, req |-> x]
    BY <2>1
  <2>3. CASE w = v /\ j = i /\ k = 1
    <3>1. [sess |-> s, req |-> x] = [sess |-> a, req |-> r]
      BY <1>3, <2>2, <2>3
    <3>2. s = a /\ x = r
      <4>1. /\ [sess |-> s, req |-> x].sess = s /\ [sess |-> s, req |-> x].req = x
            /\ [sess |-> a, req |-> r].sess = a /\ [sess |-> a, req |-> r].req = r
        OBVIOUS
      <4> QED
        BY <3>1, <4>1
    <3> QED
      BY <3>2
  <2>4. CASE w = v /\ j = i /\ k # 1
    <3>1. k - 1 \in OnLink(v, i)' /\ (k - 1) + 1 = k
      BY <1>3, <2>4 DEF OnLink
    <3>2. PICK o \in OnLink(v, i)' : link'[v][i].q[o] = link[v][i].q[k]
      BY <1>3, <3>1
    <3>3. \E n \in OnLink(w, j)' : link'[w][j].q[n] = [sess |-> s, req |-> x]
      BY <2>2, <2>4, <3>2
    <3> QED
      BY <3>3 DEF Rides, OnLink
  <2>5. CASE w # v \/ j # i
    <3>1. \E o \in OnLink(w, j)' : link'[w][j].q[o] = [sess |-> s, req |-> x]
      BY <1>3, <2>2, <2>5 DEF OnLink
    <3> QED
      BY <3>1 DEF Rides, OnLink
  <2> QED
    BY <2>3, <2>4, <2>5
<1>8. Rides(link, a, r)
  BY <1>3 DEF Rides, OnLink
<1>9. \A x : x \in UnderWay(s)' <=> x \in UnderWay(s)
  BY <1>1, <1>3, <1>5, <1>6, <1>7, <1>8, UnderWayFacts
<1> QED
  BY <1>9

\* The request that is delivered, and no other, is no longer under way.
LEMMA DeliverWay ==
  ASSUME NEW d \in Nat, Path(d), NEW t \in Sessions, Deliver(t)
  PROVE  /\ queue[t][1] \in UnderWay(t) /\ queue[t][1] \in Nat
         /\ UnderWay(t)' = UnderWay(t) \ {queue[t][1]}
         /\ \A s \in Sessions : s # t => UnderWay(s)' = UnderWay(s)
<1>1. Typed /\ Placed /\ Distinct
  BY DEF Path
<1>2. /\ Typed' /\ link' = link
      /\ Len(queue[t]) \in Nat /\ Len(queue[t]) > 0 /\ Len(queue'[t]) = Len(queue[t]) - 1
      /\ \A k \in 1..Len(queue'[t]) : k + 1 \in 1..Len(queue[t]) /\ queue'[t][k] = queue[t][k + 1]
      /\ \A s \in Sessions : s # t => queue'[s] = queue[s]
  BY <1>1, DeliverFacts
<1>3. PICK r : r = queue[t][1]
  OBVIOUS
<1>4. 1 \in 1..Len(queue[t])
  BY <1>2
<1>5. Waits(queue, t, r) /\ r \in Nat
  <2>1. queue[t] \in Seq(Nat)
    BY <1>1 DEF Typed
  <2> QED
    BY <1>3, <1>4, <2>1 DEF Waits
<1>6. ASSUME NEW x PROVE Waits(queue', t, x) <=> Waits(queue, t, x) /\ x # r
  <2>1. ASSUME Waits(queue', t, x) PROVE Waits(queue, t, x) /\ x # r
    <3>1. PICK k \in 1..Len(queue'[t]) : queue'[t][k] = x
      BY <2>1 DEF Waits
    <3>2. k + 1 \in 1..Len(queue[t]) /\ queue[t][k + 1] = x /\ k + 1 # 1
      BY <1>2, <3>1
    <3>3. x # r
      BY <1>1, <1>3, <1>4, <3>2 DEF Distinct
    <3> QED
      BY <3>2, <3>3 DEF Waits
  <2>2. ASSUME Waits(queue, t, x), x # r PROVE Waits(queue', t, x)
    <3>1. PICK k \in 1..Len(queue[t]) : queue[t][k] = x
      BY <2>2 DEF Waits
    <3>2. k # 1
      BY <1>3, <2>2, <3>1
    <3>3. PICK o : o = k - 1
      OBVIOUS
    <3>4. o \in 1..Len(queue'[t]) /\ o + 1 = k
      BY <1>2, <3>2, <3>3
    <3>5. queue'[t][o] = x
      BY <1>2, <3>1, <3>4
    <3> QED
      BY <3>4, <3>5 DEF Waits
  <2> QED
    BY <2>1, <2>2
<1>7. ~Rides(link, t, r)
  <2> SUFFICES ASSUME Rides(link, t, r) PROVE FALSE
    OBVIOUS
  <2>1. PICK v \in Servers, i \in 1..MaxLinks : \E k \in OnLink(v, i) :
          /\ link[v][i].q[k] = [sess |-> t, req |-> r] /\ r \in Nat
          /\ link[v][i].q[k].sess = t /\ link[v][i].q[k].req = r
    BY <1>1, RidesFacts
  <2>2. PICK k \in OnLink(v, i) : link[v][i].q[k].sess = t /\ link[v][i].q[k].req = r
    BY <2>1
  <2> QED
    BY <1>1, <1>3, <1>4, <2>2 DEF Distinct
<1>8. \A x : x \in UnderWay(t)' <=> x \in UnderWay(t) /\ x # r
  BY <1>1, <1>2, <1>6, <1>7, UnderWayFacts
<1>9. r \in UnderWay(t)
  BY <1>1, <1>5, UnderWayFacts
<1>10. ASSUME NEW s \in Sessions, s # t PROVE UnderWay(s)' = UnderWay(s)
  <2>1. \A x : Waits(queue', s, x) <=> Waits(queue, s, x)
    BY <1>2, <1>10 DEF Waits
  <2>2. \A x : x \in UnderWay(s)' <=> x \in UnderWay(s)
    BY <1>1, <1>2, <2>1, UnderWayFacts
  <2> QED
    BY <2>2
<1>11. UnderWay(t)' = UnderWay(t) \ {r}
  BY <1>8
<1> QED
  BY <1>3, <1>5, <1>9, <1>10, <1>11

\* A push is under way to the sessions whose server has a connection that works.
LEMMA SendWay ==
  ASSUME NEW d \in Nat, Path(d), NEW S \in SUBSET Sessions, SendPushes(S, d + 1),
         UNCHANGED <<cur, queue, up, got>>, NEW s \in Sessions
  PROVE  UnderWay(s)' = IF s \in S /\ MustCount(s) THEN UnderWay(s) \cup {d + 1} ELSE UnderWay(s)
<1> DEFINE e == d + 1
<1>0. e \in Nat
  OBVIOUS
<1>1. Typed /\ Placed /\ SendPushes(S, e)
  BY DEF Path
<1> HIDE DEF e
<1>2. link' \in [Servers -> [1..MaxLinks -> Link]] /\ \A v \in Servers, i \in 1..MaxLinks : Added(S, e, v, i)
  BY <1>0, <1>1, SendFacts
<1>3. Typed'
  BY <1>1, <1>2 DEF Typed
<1>4. ASSUME NEW x, Rides(link, s, x) PROVE Rides(link', s, x)
  <2>1. PICK w \in Servers, j \in 1..MaxLinks :
          \E k \in OnLink(w, j) : link[w][j].q[k] = [sess |-> s, req |-> x]
    BY <1>4 DEF Rides, OnLink
  <2>2. PICK k \in OnLink(w, j) : link[w][j].q[k] = [sess |-> s, req |-> x]
    BY <2>1
  <2>3. /\ Len(link'[w][j].q) \in Nat /\ Len(link[w][j].q) \in Nat
        /\ Len(link'[w][j].q) >= Len(link[w][j].q) /\ link'[w][j].q[k] = link[w][j].q[k]
    BY <1>2 DEF Added
  <2>4. k \in 1..Len(link'[w][j].q)
    <3>1. k \in 1..Len(link[w][j].q)
      BY DEF OnLink
    <3> QED
      BY <2>3, <3>1
  <2> QED
    BY <2>2, <2>3, <2>4 DEF Rides
<1>5. ASSUME NEW x, Rides(link', s, x) PROVE Rides(link, s, x) \/ (x = e /\ s \in S /\ MustCount(s))
  <2>1. PICK w \in Servers, j \in 1..MaxLinks :
          \E k \in OnLink(w, j)' : link'[w][j].q[k] = [sess |-> s, req |-> x]
    BY <1>5 DEF Rides, OnLink
  <2>2. PICK k \in OnLink(w, j)' : link'[w][j].q[k] = [sess |-> s, req |-> x]
    BY <2>1
  <2>3. link'[w][j].q[k].sess = s /\ link'[w][j].q[k].req = x
    BY <2>2
  <2>4. Added(S, e, w, j)
    BY <1>2
  <2>5. k \in Nat /\ k >= 1 /\ Len(link[w][j].q) \in Nat
    BY <2>4 DEF Added, OnLink
  <2>6. CASE k <= Len(link[w][j].q)
    <3>1. k \in OnLink(w, j)
      BY <2>5, <2>6 DEF OnLink
    <3>2. link[w][j].q[k] = [sess |-> s, req |-> x]
      BY <2>2, <2>4, <3>1 DEF Added
    <3> QED
      BY <3>1, <3>2 DEF Rides, OnLink
  <2>7. CASE k > Len(link[w][j].q)
    <3>1. j = cur[w] /\ link[w][j].st = "up" /\ s \in S /\ consvid[s] = w /\ x = e
      BY <2>3, <2>4, <2>7 DEF Added
    <3>2. cur[w] # 0
      BY <3>1, ConstantFacts
    <3> QED
      BY <3>1, <3>2 DEF MustCount
  <2> QED
    BY <2>5, <2>6, <2>7
<1>6. ASSUME s \in S, MustCount(s) PROVE Rides(link', s, e)
  <2>1. PICK w \in Servers : w = consvid[s]
    BY ConstantFacts
  <2>2. PICK j : j = cur[w]
    OBVIOUS
  <2>3. j \in 1..MaxLinks /\ link[w][j].st = "up"
    BY <1>1, <1>6, <2>1, <2>2, ConstantFacts DEF MustCount, Typed
  <2>4. Added(S, e, w, j)
    BY <1>2, <2>3
  <2>5. \E k \in OnLink(w, j)' : link'[w][j].q[k] = [sess |-> s, req |-> e]
    BY <1>6, <2>1, <2>2, <2>3, <2>4 DEF Added
  <2> QED
    BY <2>3, <2>5 DEF Rides, OnLink
<1>7. \A x : x \in UnderWay(s)' <=> x \in UnderWay(s) \/ (x = e /\ s \in S /\ MustCount(s))
  <2>1. queue' = queue
    OBVIOUS
  <2> QED
    BY <1>1, <1>3, <1>4, <1>5, <1>6, <2>1, UnderWayFacts
<1>8. CASE s \in S /\ MustCount(s)
  <2>1. UnderWay(s)' = UnderWay(s) \cup {e}
    BY <1>7, <1>8
  <2> QED
    BY <1>8, <2>1 DEF e
<1>9. CASE ~(s \in S /\ MustCount(s))
  <2>1. UnderWay(s)' = UnderWay(s)
    BY <1>7, <1>9
  <2> QED
    BY <1>9, <2>1
<1> QED
  BY <1>8, <1>9

-----------------------------------------------------------------------------
(* The count in the answers *)

Unbroken(l) == \A c \in Links : l[c[1]][c[2]].st # "broken"

\* The same, by server and number.
LEMMA UnbrokenFacts ==
  ASSUME NEW l
  PROVE  Unbroken(l) <=> \A v \in Servers, i \in 1..MaxLinks : l[v][i].st # "broken"
<1>1. ASSUME Unbroken(l), NEW v \in Servers, NEW i \in 1..MaxLinks PROVE l[v][i].st # "broken"
  <2>1. <<v, i>> \in Links /\ <<v, i>>[1] = v /\ <<v, i>>[2] = i
    BY DEF Links
  <2> QED
    BY <1>1, <2>1 DEF Unbroken
<1>2. ASSUME NEW c \in Links PROVE c[1] \in Servers /\ c[2] \in 1..MaxLinks
  BY DEF Links
<1> QED
  BY <1>1, <1>2 DEF Unbroken

\* Nothing has been lost.
NoLoss(u, l) == u = Sessions /\ Unbroken(l)

\* CountExact, with what it is about named.
LEMMA CountDef ==
  /\ CountExact <=> (NoLoss(up, link) =>
       \A i \in DOMAIN answers : answers[i].status >= 0 =>
         Cardinality(Reached(answers[i].req)) = answers[i].status)
  /\ CountExact' <=> (NoLoss(up', link') =>
       \A i \in DOMAIN answers' : answers'[i].status >= 0 =>
         Cardinality(Reached(answers[i].req)') = answers'[i].status)
  BY DEF CountExact, NoLoss, Unbroken, Links

\* The sessions a request reaches are the same as before.
Same(x) == {s \in Sessions : x \in Range(got'[s]) \cup UnderWay(s)'} = Reached(x)

\* A step that answers nothing, and either loses a push or moves it.
LEMMA CountKeeps ==
  ASSUME CountExact, answers' = answers,
         NoLoss(up', link') => NoLoss(up, link) /\ \A x : Same(x)
  PROVE  CountExact'
<1> SUFFICES ASSUME NoLoss(up', link'), NEW i \in DOMAIN answers', answers'[i].status >= 0
             PROVE  Cardinality(Reached(answers[i].req)') = answers'[i].status
  BY CountDef
<1>1. Cardinality(Reached(answers[i].req)) = answers[i].status
  BY CountDef
<1>2. Reached(answers[i].req)' = Reached(answers[i].req)
  BY DEF Same, Reached
<1> QED
  BY <1>1, <1>2

\* An answer to a request that was refused counts nothing.
LEMMA CountRefused ==
  ASSUME CountExact, UNCHANGED pathVars, NEW n,
         answers \in Seq([req : Nat, status : -1..Cardinality(Sessions)]),
         answers' = Append(answers, [req |-> n, status |-> -1])
  PROVE  CountExact'
<1> SUFFICES ASSUME NoLoss(up', link'), NEW i \in DOMAIN answers', answers'[i].status >= 0
             PROVE  Cardinality(Reached(answers[i].req)') = answers'[i].status
  BY CountDef
<1>1. \A x : Reached(x)' = Reached(x)
  BY DEF Reached, UnderWay, Links, pathVars
<1>2. NoLoss(up, link)
  BY DEF pathVars
<1>3. i \in DOMAIN answers /\ answers'[i] = answers[i]
  <2>1. i \in 1..Len(answers) + 1
    OBVIOUS
  <2>2. i # Len(answers) + 1
    <3> SUFFICES ASSUME i = Len(answers) + 1 PROVE FALSE
      OBVIOUS
    <3>1. answers'[i] = [req |-> n, status |-> -1]
      OBVIOUS
    <3>2. answers'[i].status = -1
      BY <3>1
    <3> QED
      BY <3>2
  <2> QED
    BY <2>1, <2>2
<1>4. Cardinality(Reached(answers[i].req)) = answers[i].status
  BY <1>2, <1>3, CountDef
<1>5. Reached(answers[i].req)' = Reached(answers[i].req)
  BY <1>1, <1>3
<1> QED
  BY <1>3, <1>4, <1>5

\* The answer to a push counts the sessions it is now under way to.
LEMMA CountPush ==
  ASSUME NEW d \in Nat, Path(d), CountExact, NEW S \in SUBSET Sessions,
         \A s \in S : CanCount(s), SendPushes(S, d + 1), UNCHANGED <<cur, queue, up, got>>,
         answers \in Seq([req : Nat, status : -1..Cardinality(Sessions)]),
         \A i \in 1..Len(answers) : answers[i].req \in 1..d,
         answers' = Append(answers, [req |-> d + 1, status |-> Cardinality(S)])
  PROVE  CountExact'
<1>1. Typed /\ Placed
  BY DEF Path
<1> SUFFICES ASSUME NoLoss(up', link'), NEW i \in DOMAIN answers', answers'[i].status >= 0
             PROVE  Cardinality(Reached(answers[i].req)') = answers'[i].status
  BY CountDef
<1>2. ASSUME NEW v \in Servers, NEW j \in 1..MaxLinks PROVE link[v][j].st # "broken"
  <2>1. link'[v][j].st # "broken"
    BY UnbrokenFacts DEF NoLoss
  <2>2. PICK e \in Nat : e = d + 1
    OBVIOUS
  <2>3. Added(S, e, v, j)
    BY <1>1, <2>2, SendFacts
  <2> QED
    BY <2>1, <2>3 DEF Added
<1>3. NoLoss(up, link)
  BY <1>2, UnbrokenFacts DEF NoLoss
<1>4. ASSUME NEW s \in S PROVE MustCount(s)
  <2>1. consvid[s] \in Servers /\ cur[consvid[s]] # 0
    BY ConstantFacts DEF CanCount
  <2>2. cur[consvid[s]] \in 1..MaxLinks
    BY <1>1, <2>1, ConstantFacts DEF Typed
  <2>3. link[consvid[s]][cur[consvid[s]]].st \notin {"none", "broken"}
    BY <1>1, <1>2, <2>1, <2>2 DEF Placed
  <2>4. link[consvid[s]][cur[consvid[s]]].st \in {"none", "up", "broken"}
    BY <1>1, <2>1, <2>2 DEF Typed, Link
  <2> QED
    BY <2>1, <2>3, <2>4 DEF MustCount
<1>5. \A s \in Sessions : UnderWay(s)' = IF s \in S THEN UnderWay(s) \cup {d + 1} ELSE UnderWay(s)
  BY <1>4, SendWay
<1>6. \A s \in Sessions : d + 1 \notin UnderWay(s) \cup Range(got[s])
  <2> SUFFICES ASSUME NEW s \in Sessions, d + 1 \in UnderWay(s) \cup Range(got[s]) PROVE FALSE
    OBVIOUS
  <2>1. d + 1 <= d
    BY WayBounded
  <2> QED
    BY <2>1
<1>7. Reached(d + 1)' = S
  <2>1. Reached(d + 1)' = {s \in Sessions : d + 1 \in Range(got[s]) \cup UnderWay(s)'}
    BY DEF Reached
  <2> QED
    BY <1>5, <1>6, <2>1
<1>8. CASE i = Len(answers) + 1
  <2>1. answers'[i] = [req |-> d + 1, status |-> Cardinality(S)]
    BY <1>8
  <2>2. answers'[i].req = d + 1 /\ answers'[i].status = Cardinality(S)
    BY <2>1
  <2>3. Reached(answers[i].req)' = Reached(d + 1)'
    BY <2>2 DEF Reached
  <2> QED
    BY <1>7, <2>2, <2>3
<1>9. CASE i # Len(answers) + 1
  <2>1. i \in 1..Len(answers) /\ answers'[i] = answers[i]
    BY <1>9
  <2>2. PICK x : x = answers[i].req
    OBVIOUS
  <2>3. x \in 1..d /\ x # d + 1
    BY <2>1, <2>2
  <2>4. Cardinality(Reached(x)) = answers[i].status
    BY <1>3, <2>1, <2>2, CountDef
  <2>5. \A s \in Sessions : x \in UnderWay(s)' <=> x \in UnderWay(s)
    BY <1>5, <2>3
  <2>6. Reached(answers[i].req)' = Reached(x)
    <3>1. Reached(answers[i].req)' = {s \in Sessions : x \in Range(got[s]) \cup UnderWay(s)'}
      BY <2>1, <2>2 DEF Reached
    <3> QED
      BY <2>5, <3>1 DEF Reached
  <2> QED
    BY <2>1, <2>4, <2>6
<1> QED
  BY <1>8, <1>9

-----------------------------------------------------------------------------
(* The invariant *)

\* Path for the number of requests that have been taken then.
LEMMA PathDone ==
  ASSUME NEW d, Done' = d, Path(d)'
  PROVE  Path(Done)'
  BY DEF Path, Bounded

\* A step of the interface that takes no request and answers none.
LEMMA QuietStep ==
  ASSUME Inv, UNCHANGED <<pathVars, answers>>, Stream', Done' = Done,
         lpc' \in {"idle", "packets", "failing"}, api' \in {"open", "closed"}, lpc' # "idle" => api' = "open",
         wired' \in Nat, seen' \in 0..wired', wired' <= Len(answers)
  PROVE  Inv'
<1>1. Stream /\ Api /\ Path(Done) /\ CountExact
  BY DEF Inv
<1>2. Api'
  BY <1>1 DEF Api
<1>3. PICK d : d = Done
  OBVIOUS
<1>4. d \in Nat
  BY <1>1, <1>3, DoneFacts
<1>5. Path(d)'
  BY <1>1, <1>3, <1>4, ChangePath
<1>6. Path(Done)'
  BY <1>3, <1>5, PathDone
<1>7. \A x : Same(x)
  BY DEF Same, Reached, UnderWay, pathVars
<1>8. CountExact'
  BY <1>1, <1>7, CountKeeps DEF pathVars
<1> QED
  BY <1>2, <1>6, <1>8 DEF Inv

\* The client and handleRead, without a packet.
LEMMA QuietInv ==
  ASSUME Inv,
         \/ \E k \in Kinds, n \in Lengths : Ask(k, n)
         \/ ReadAnswer \/ HangUp
         \/ \E n \in 1..(Total - rcvd) : Receive(n)
         \/ ReceiveNothing \/ PacketsDone \/ PacketBad \/ Fail
         \/ \E n \in 1..(Len(answers) - wired) : Write(n)
  PROVE  Inv' /\ Done' = Done /\ UNCHANGED <<pathVars, answers>> /\ wired' >= seen'
<1>1. Stream /\ Api
  BY DEF Inv
<1>2. /\ lpc \in {"idle", "packets", "failing"} /\ api \in {"open", "closed"}
      /\ lpc # "idle" => api = "open"
      /\ wired \in Nat /\ seen \in 0..wired /\ wired <= Len(answers) /\ Len(answers) \in Nat
  BY <1>1 DEF Api
<1>3. Len(sent) \in Nat /\ rcvd \in Nat /\ rcvd <= Total /\ Total \in Nat
  <2>1. Len(sent) \in Nat /\ Total = EndOf(sent, Len(sent)) /\ IsStream(sent)
    BY <1>1, DoneFacts DEF Stream
  <2>2. Len(sent) \in 0..Len(sent)
    BY <2>1
  <2> QED
    BY <1>1, <2>1, <2>2, EndFacts DEF Stream
<1>4. ASSUME UNCHANGED <<sent, rcvd, off>> PROVE Stream' /\ Done' = Done
  BY <1>1, <1>3, <1>4, ReceiveStream
<1>5. ASSUME NEW k \in Kinds, NEW n \in Lengths, Ask(k, n)
      PROVE  Inv' /\ Done' = Done /\ UNCHANGED <<pathVars, answers>> /\ wired' >= seen'
  <2>1. Stream' /\ Done' = Done
    BY <1>1, <1>5, AskStream
  <2>2. UNCHANGED <<lpc, api, answers, wired, seen, pathVars>>
    BY <1>5 DEF Ask
  <2> QED
    BY <1>2, <2>1, <2>2, QuietStep
<1>6. CASE ReadAnswer
  <2>1. Stream' /\ Done' = Done
    BY <1>4, <1>6 DEF ReadAnswer
  <2>2. UNCHANGED <<lpc, api, answers, wired, pathVars>> /\ seen' = seen + 1 /\ seen < wired
    BY <1>6 DEF ReadAnswer
  <2>3. seen' \in 0..wired' /\ wired' >= seen'
    BY <1>2, <2>2
  <2> QED
    BY <1>2, <2>1, <2>2, <2>3, QuietStep
<1>7. CASE HangUp
  <2>1. Stream' /\ Done' = Done
    BY <1>4, <1>7 DEF HangUp
  <2>2. UNCHANGED <<lpc, api, answers, wired, seen, pathVars>>
    BY <1>7 DEF HangUp
  <2> QED
    BY <1>2, <2>1, <2>2, QuietStep
<1>8. ASSUME NEW n \in 1..(Total - rcvd), Receive(n)
      PROVE  Inv' /\ Done' = Done /\ UNCHANGED <<pathVars, answers>> /\ wired' >= seen'
  <2>1. rcvd' \in Nat /\ rcvd' >= rcvd /\ rcvd' <= Total /\ UNCHANGED <<sent, off>>
    BY <1>3, <1>8 DEF Receive
  <2>2. Stream' /\ Done' = Done
    BY <1>1, <2>1, ReceiveStream
  <2>3. UNCHANGED <<api, answers, wired, seen, pathVars>> /\ lpc' = "packets" /\ api = "open"
    BY <1>8 DEF Receive
  <2> QED
    BY <1>2, <2>2, <2>3, QuietStep
<1>9. CASE ReceiveNothing \/ Fail
  <2>1. UNCHANGED <<sent, rcvd, off, answers, seen, pathVars>> /\ Recycle
    BY <1>9 DEF ReceiveNothing, Fail
  <2>2. Stream' /\ Done' = Done
    BY <1>4, <2>1
  <2>3. api' = "closed" /\ lpc' = "idle" /\ wired' \in seen..wired
    BY <1>2, <2>1 DEF Recycle
  <2>4. wired' \in Nat /\ seen' \in 0..wired' /\ wired' <= Len(answers) /\ wired' >= seen'
    BY <1>2, <2>1, <2>3
  <2> QED
    BY <2>1, <2>2, <2>3, <2>4, QuietStep
<1>10. CASE PacketsDone
  <2>1. UNCHANGED <<sent, rcvd, off, api, answers, wired, seen, pathVars>> /\ lpc' = "idle"
    BY <1>10 DEF PacketsDone
  <2>2. Stream' /\ Done' = Done
    BY <1>4, <2>1
  <2> QED
    BY <1>2, <2>1, <2>2, QuietStep
<1>11. CASE PacketBad
  <2>1. UNCHANGED <<sent, rcvd, off, api, answers, wired, seen, pathVars>> /\ lpc' = "failing" /\ lpc = "packets"
    BY <1>11 DEF PacketBad
  <2>2. Stream' /\ Done' = Done
    BY <1>4, <2>1
  <2> QED
    BY <1>2, <2>1, <2>2, QuietStep
<1>12. ASSUME NEW n \in 1..(Len(answers) - wired), Write(n)
       PROVE  Inv' /\ Done' = Done /\ UNCHANGED <<pathVars, answers>> /\ wired' >= seen'
  <2>1. UNCHANGED <<sent, rcvd, off, lpc, api, answers, seen, pathVars>> /\ wired' = wired + n
    BY <1>12 DEF Write
  <2>2. Stream' /\ Done' = Done
    BY <1>4, <2>1
  <2>3. wired' \in Nat /\ seen' \in 0..wired' /\ wired' <= Len(answers) /\ wired' >= seen'
    BY <1>2, <2>1
  <2> QED
    BY <1>2, <2>1, <2>2, <2>3, QuietStep
<1> QED
  BY <1>5, <1>6, <1>7, <1>8, <1>9, <1>10, <1>11, <1>12

\* A request is served, refused or passed over.
Served(S) ==
  /\ sent[Done + 1].kind = "push"
  /\ \A s \in S : CanCount(s)
  /\ SendPushes(S, Done + 1)
  /\ answers' = Append(answers, [req |-> Done + 1, status |-> Cardinality(S)])
  /\ UNCHANGED <<lpc, cur, queue, up, got>>

RefusedNext ==
  /\ sent[Done + 1].kind \in {"push", "bad"}
  /\ answers' = Append(answers, [req |-> Done + 1, status |-> -1])
  /\ lpc' = "failing"
  /\ UNCHANGED pathVars

Passed ==
  /\ sent[Done + 1].kind = "other"
  /\ UNCHANGED <<answers, wired, lpc, pathVars>>

\* The ways of a packet.
LEMMA PacketFacts ==
  ASSUME Inv, Packet
  PROVE  /\ Stream' /\ Done \in Nat /\ Done + 1 \in 1..Len(sent) /\ Done' = Done + 1
         /\ lpc = "packets" /\ api = "open" /\ UNCHANGED <<sent, api, seen>>
         /\ wired' \in {wired, wired + 1} /\ (wired' = wired + 1 => Len(answers') = Len(answers) + 1)
         /\ (\E S \in SUBSET Sessions : Served(S)) \/ RefusedNext \/ Passed
<1>1. Stream /\ Api
  BY DEF Inv
<1>2. /\ Stream' /\ Done + 1 \in 1..Len(sent) /\ Done' = Done + 1 /\ HandlePacket(sent[Done + 1].kind)
  BY <1>1, PacketStream
<1>3. Done \in Nat
  BY <1>1, DoneFacts
<1>4. lpc = "packets" /\ api = "open" /\ UNCHANGED <<sent, api, seen>>
  BY <1>1 DEF Packet, Api
<1>5. answers \in Seq([req : Nat, status : -1..Cardinality(Sessions)])
  BY <1>1 DEF Api
<1>6. ASSUME NEW n, SendJsonResponse(n)
      PROVE  /\ answers' = Append(answers, [req |-> Done + 1, status |-> n])
             /\ wired' \in {wired, wired + 1} /\ Len(answers') = Len(answers) + 1
  <2>1. answers' = Append(answers, [req |-> Done + 1, status |-> n]) /\ wired' \in {wired, wired + 1}
    BY <1>6 DEF SendJsonResponse
  <2>2. Len(answers') = Len(answers) + 1
    BY <1>5, <2>1
  <2> QED
    BY <2>1, <2>2
<1> DEFINE Goal == /\ wired' \in {wired, wired + 1} /\ (wired' = wired + 1 => Len(answers') = Len(answers) + 1)
                   /\ (\E S \in SUBSET Sessions : Served(S)) \/ RefusedNext \/ Passed
<1> HIDE DEF Goal
<1>7. ASSUME sent[Done + 1].kind \in {"push", "bad"}, Refused PROVE Goal
  <2>1. SendJsonResponse(-1) /\ lpc' = "failing" /\ UNCHANGED pathVars
    BY <1>7 DEF Refused
  <2> QED
    BY <1>6, <1>7, <2>1 DEF RefusedNext, Goal
<1>8. ASSUME sent[Done + 1].kind = "push", PushToSessions PROVE Goal
  <2>1. CASE Refused
    BY <1>7, <1>8, <2>1
  <2>2. CASE ~Refused
    <3>1. PICK found \in SUBSET Sessions \ {{}} :
            \E counted \in SUBSET found :
              /\ \A s \in counted : CanCount(s)
              /\ SendPushes(counted, Done + 1)
              /\ SendJsonResponse(Cardinality(counted))
              /\ UNCHANGED <<lpc, cur, queue, up, got>>
      BY <1>8, <2>2 DEF PushToSessions
    <3>2. PICK S \in SUBSET Sessions :
            /\ \A s \in S : CanCount(s)
            /\ SendPushes(S, Done + 1)
            /\ SendJsonResponse(Cardinality(S))
            /\ UNCHANGED <<lpc, cur, queue, up, got>>
      BY <3>1
    <3>3. Served(S)
      BY <1>6, <1>8, <3>2 DEF Served
    <3>4. wired' \in {wired, wired + 1} /\ Len(answers') = Len(answers) + 1
      BY <1>6, <3>2
    <3> QED
      BY <3>3, <3>4 DEF Goal
  <2> QED
    BY <2>1, <2>2
<1>9. ASSUME sent[Done + 1].kind = "bad", Refused PROVE Goal
  BY <1>7, <1>9
<1>10. ASSUME sent[Done + 1].kind = "other", UNCHANGED <<answers, wired, lpc, pathVars>> PROVE Goal
  <2>1. wired # wired + 1
    BY <1>1 DEF Api
  <2> QED
    BY <1>10, <2>1 DEF Passed, Goal
<1>11. Goal
  BY <1>2, <1>8, <1>9, <1>10 DEF HandlePacket
<1> QED
  BY <1>2, <1>3, <1>4, <1>11 DEF Goal

\* A packet is handled.
LEMMA PacketInv ==
  ASSUME Inv, Packet
  PROVE  Inv'
<1>1. Stream /\ Api /\ Path(Done) /\ CountExact
  BY DEF Inv
<1>2. PICK d : d = Done
  OBVIOUS
<1>3. /\ Stream' /\ d \in Nat /\ Done' = d + 1
      /\ lpc = "packets" /\ api = "open" /\ UNCHANGED <<sent, api, seen>>
      /\ wired' \in {wired, wired + 1} /\ (wired' = wired + 1 => Len(answers') = Len(answers) + 1)
      /\ (\E S \in SUBSET Sessions : Served(S)) \/ RefusedNext \/ Passed
  BY <1>2, PacketFacts
<1>4. /\ answers \in Seq([req : Nat, status : -1..Cardinality(Sessions)]) /\ Len(answers) \in Nat
      /\ wired \in Nat /\ seen \in 0..wired /\ wired <= Len(answers)
      /\ \A i \in 1..Len(answers) : answers[i].req \in 1..d
  BY <1>1, <1>2 DEF Api
<1>5. ASSUME NEW n \in -1..Cardinality(Sessions), answers' = Append(answers, [req |-> d + 1, status |-> n]),
             lpc' \in {lpc, "failing"}
      PROVE  Api'
  <2>1. PICK a \in [req : Nat, status : -1..Cardinality(Sessions)] :
          a = [req |-> d + 1, status |-> n] /\ a.req = d + 1
    <3>1. PICK e \in Nat : e = d + 1
      BY <1>3
    <3>2. [req |-> e, status |-> n] \in [req : Nat, status : -1..Cardinality(Sessions)]
      OBVIOUS
    <3>3. [req |-> e, status |-> n].req = e
      OBVIOUS
    <3> QED
      BY <3>1, <3>2, <3>3
  <2>2. /\ answers' \in Seq([req : Nat, status : -1..Cardinality(Sessions)])
        /\ Len(answers') = Len(answers) + 1
        /\ \A i \in 1..Len(answers) : answers'[i] = answers[i]
        /\ answers'[Len(answers) + 1] = a
    BY <1>4, <1>5, <2>1
  <2>3. ASSUME NEW i \in 1..Len(answers') PROVE answers'[i].req \in 1..(d + 1)
    <3>1. CASE i = Len(answers) + 1
      BY <1>3, <2>1, <2>2, <3>1
    <3>2. CASE i # Len(answers) + 1
      <4>1. i \in 1..Len(answers)
        BY <1>4, <2>2, <3>2
      <4>2. answers[i].req \in 1..d
        BY <1>4, <4>1
      <4>3. answers'[i] = answers[i]
        BY <2>2, <4>1
      <4>4. d \in Nat
        BY <1>3
      <4> QED
        BY <4>2, <4>3, <4>4
    <3> QED
      BY <3>1, <3>2
  <2>4. wired' \in Nat /\ seen' \in 0..wired' /\ wired' <= Len(answers')
    BY <1>3, <1>4, <2>2
  <2> QED
    BY <1>3, <1>5, <2>2, <2>3, <2>4 DEF Api
<1>6. Path(d)' => Path(d + 1)'
  <2> SUFFICES ASSUME Path(d)' PROVE Path(d + 1)'
    OBVIOUS
  <2>1. Typed' /\ Placed' /\ Bounded(d)' /\ Distinct' /\ AllOrdered'
    BY DEF Path
  <2>2. PICK e \in Nat : e = d + 1 /\ \A x \in Nat : x <= d => x <= e
    BY <1>3
  <2>3. Bounded(e)'
    <3>1. \A v \in Servers, i \in 1..MaxLinks : \A k \in OnLink(v, i)' : link'[v][i].q[k].req \in Nat
      <4> SUFFICES ASSUME NEW v \in Servers, NEW i \in 1..MaxLinks, NEW k \in OnLink(v, i)'
                   PROVE  link'[v][i].q[k].req \in Nat
        OBVIOUS
      <4>1. link'[v][i].q \in Seq(Message)
        BY <2>1 DEF Typed, Link
      <4>2. link'[v][i].q[k] \in Message
        BY <4>1 DEF OnLink
      <4> QED
        BY <4>2 DEF Message
    <3>2. \A s \in Sessions : /\ \A k \in 1..Len(queue'[s]) : queue'[s][k] \in Nat
                              /\ \A k \in 1..Len(got'[s]) : got'[s][k] \in Nat
      BY <2>1 DEF Typed
    <3> QED
      BY <2>1, <2>2, <3>1, <3>2 DEF Bounded
  <2>4. Path(e)'
    BY <2>1, <2>3 DEF Path
  <2> QED
    BY <2>2, <2>4
<1>7. ASSUME Path(d + 1)' PROVE Path(Done)'
  BY <1>3, <1>7, PathDone
<1>8. ASSUME NEW S \in SUBSET Sessions, Served(S) PROVE Inv'
  <2>1. /\ \A s \in S : CanCount(s)
        /\ SendPushes(S, d + 1)
        /\ answers' = Append(answers, [req |-> d + 1, status |-> Cardinality(S)])
        /\ UNCHANGED <<lpc, cur, queue, up, got>>
    BY <1>2, <1>8 DEF Served
  <2>2. Cardinality(S) \in -1..Cardinality(Sessions)
    <3>1. Cardinality(S) \in Nat /\ Cardinality(S) <= Cardinality(Sessions) /\ Cardinality(Sessions) \in Nat
      BY ConstantFacts, FS_Subset, FS_CardinalityType
    <3> QED
      BY <3>1
  <2>3. Api'
    BY <1>5, <2>1, <2>2
  <2>4. Path(d)
    BY <1>1, <1>2
  <2>5. Path(d + 1)'
    BY <1>3, <2>1, <2>4, SendPath
  <2>6. CountExact'
    BY <1>1, <1>3, <1>4, <2>1, <2>4, CountPush
  <2> QED
    BY <1>3, <1>7, <2>3, <2>5, <2>6 DEF Inv
<1>9. CASE RefusedNext
  <2>1. /\ answers' = Append(answers, [req |-> d + 1, status |-> -1])
        /\ lpc' = "failing" /\ UNCHANGED pathVars
    BY <1>2, <1>9 DEF RefusedNext
  <2>2. Api'
    <3>1. -1 \in -1..Cardinality(Sessions)
      BY ConstantFacts
    <3> QED
      BY <1>5, <2>1, <3>1
  <2>3. Path(d)'
    BY <1>1, <1>2, <1>3, <2>1, ChangePath
  <2>4. CountExact'
    BY <1>1, <1>4, <2>1, CountRefused
  <2> QED
    BY <1>3, <1>6, <1>7, <2>2, <2>3, <2>4 DEF Inv
<1>10. CASE Passed
  <2>1. UNCHANGED <<answers, wired, lpc, pathVars>>
    BY <1>10 DEF Passed
  <2>2. Api'
    <3>1. \A i \in 1..Len(answers') : answers'[i].req \in 1..Done'
      <4> SUFFICES ASSUME NEW i \in 1..Len(answers) PROVE answers[i].req \in 1..(d + 1)
        BY <1>3, <2>1
      <4>1. d \in Nat /\ answers[i].req \in 1..d
        BY <1>3, <1>4
      <4> QED
        BY <4>1
    <3>2. UNCHANGED <<lpc, api, answers, wired, seen>>
      BY <1>3, <2>1
    <3> QED
      BY <1>1, <3>1, <3>2 DEF Api
  <2>3. Path(d)'
    BY <1>1, <1>2, <1>3, <2>1, ChangePath
  <2>4. \A x : Same(x)
    BY <2>1 DEF Same, Reached, UnderWay, pathVars
  <2>5. CountExact'
    BY <1>1, <2>1, <2>4, CountKeeps DEF pathVars
  <2> QED
    BY <1>3, <1>6, <1>7, <2>2, <2>3, <2>5 DEF Inv
<1> QED
  BY <1>3, <1>8, <1>9, <1>10

\* A step of the connections, the loops of the connect servers or the sessions.
LEMMA PathInv ==
  ASSUME Inv,
         \/ \E v \in Servers : Register(v) \/ Disconnected(v)
         \/ \E v \in Servers, i \in 1..MaxLinks : Break(v, i) \/ Route(v, i)
         \/ \E s \in Sessions : Deliver(s) \/ SessionEnds(s)
  PROVE  Inv' /\ Done' = Done /\ UNCHANGED apiVars
<1>1. Stream /\ Api /\ Path(Done) /\ CountExact
  BY DEF Inv
<1>2. PICK d : d = Done
  OBVIOUS
<1>3. d \in Nat /\ Path(d)
  BY <1>1, <1>2, DoneFacts
<1>4. Typed /\ Placed
  BY <1>3 DEF Path
<1>5. ASSUME UNCHANGED apiVars, Path(d)', NoLoss(up', link') => NoLoss(up, link) /\ \A x : Same(x)
      PROVE  Inv' /\ Done' = Done /\ UNCHANGED apiVars
  <2>1. UNCHANGED <<sent, rcvd, off, lpc, api, answers, wired, seen>>
    BY <1>5 DEF apiVars
  <2>2. Done' = Done
    BY <2>1 DEF Done
  <2>3. Stream'
    BY <1>1, <2>1 DEF Stream, Total
  <2>4. Api'
    BY <1>1, <2>1, <2>2 DEF Api
  <2>5. CountExact'
    BY <1>1, <1>5, <2>1, CountKeeps
  <2>6. Path(Done)'
    BY <1>2, <1>5, <2>2, PathDone
  <2> QED
    BY <1>5, <2>2, <2>3, <2>4, <2>5, <2>6 DEF Inv
<1>6. ASSUME \A s \in Sessions : UnderWay(s)' = UnderWay(s), got' = got PROVE \A x : Same(x)
  BY <1>6 DEF Same, Reached
<1>7. ASSUME NEW v \in Servers, Register(v) PROVE Inv' /\ Done' = Done /\ UNCHANGED apiVars
  <2>1. UNCHANGED apiVars /\ Path(d)'
    BY <1>3, <1>7, ChangePath DEF Register
  <2>2. \A x : Same(x)
    <3>1. \A s \in Sessions : UnderWay(s)' = UnderWay(s)
      BY <1>3, <1>7, RegisterWay
    <3> QED
      BY <1>6, <1>7, <3>1 DEF Register
  <2>3. NoLoss(up', link') => NoLoss(up, link)
    <3>1. up' = up /\ \A w \in Servers, j \in 1..MaxLinks : link'[w][j].st = "broken" <=> link[w][j].st = "broken"
      BY <1>4, <1>7, RegisterFacts
    <3> QED
      BY <3>1, UnbrokenFacts DEF NoLoss
  <2> QED
    BY <1>5, <2>1, <2>2, <2>3
<1>8. ASSUME NEW v \in Servers, Disconnected(v) PROVE Inv' /\ Done' = Done /\ UNCHANGED apiVars
  <2>1. UNCHANGED apiVars /\ Path(d)'
    BY <1>3, <1>8, ChangePath DEF Disconnected
  <2>2. UNCHANGED <<link, queue, up, got>>
    BY <1>8 DEF Disconnected
  <2>3. \A x : Same(x)
    BY <2>2 DEF Same, Reached, UnderWay
  <2> QED
    BY <1>5, <2>1, <2>2, <2>3
<1>9. ASSUME NEW v \in Servers, NEW i \in 1..MaxLinks, Break(v, i)
      PROVE  Inv' /\ Done' = Done /\ UNCHANGED apiVars
  <2>1. UNCHANGED apiVars /\ Path(d)'
    BY <1>3, <1>9, ChangePath DEF Break
  <2>2. link'[v][i].st = "broken"
    BY <1>4, <1>9, BreakFacts
  <2>3. ~NoLoss(up', link')
    BY <2>2, UnbrokenFacts DEF NoLoss
  <2> QED
    BY <1>5, <2>1, <2>3
<1>10. ASSUME NEW v \in Servers, NEW i \in 1..MaxLinks, Route(v, i)
       PROVE  Inv' /\ Done' = Done /\ UNCHANGED apiVars
  <2>1. UNCHANGED <<apiVars, up, got>> /\ Path(d)'
    BY <1>3, <1>10, RoutePath DEF Route
  <2>2. \A x : Same(x)
    <3>1. \A s \in Sessions : UnderWay(s)' = UnderWay(s)
      BY <1>3, <1>10, RouteWay
    <3> QED
      BY <1>6, <2>1, <3>1
  <2>3. NoLoss(up', link') => NoLoss(up, link)
    <3>1. PICK a \in Sessions, r \in Nat : Moved(v, i, a, r)
      BY <1>4, <1>10, RouteFacts
    <3>2. \A w \in Servers, j \in 1..MaxLinks : link'[w][j].st = link[w][j].st
      BY <3>1 DEF Moved
    <3> QED
      BY <2>1, <3>2, UnbrokenFacts DEF NoLoss
  <2> QED
    BY <1>5, <2>1, <2>2, <2>3
<1>11. ASSUME NEW s \in Sessions, Deliver(s) PROVE Inv' /\ Done' = Done /\ UNCHANGED apiVars
  <2>1. UNCHANGED <<apiVars, link, up>> /\ Path(d)'
    BY <1>3, <1>11, DeliverPath DEF Deliver
  <2>2. ASSUME s \in up, NEW x PROVE Same(x)
    <3>1. PICK r : r = queue[s][1]
      OBVIOUS
    <3>2. /\ r \in UnderWay(s) /\ r \in Nat /\ UnderWay(s)' = UnderWay(s) \ {r}
          /\ \A t \in Sessions : t # s => UnderWay(t)' = UnderWay(t)
      BY <1>3, <1>11, <3>1, DeliverWay
    <3>3. got' = [got EXCEPT ![s] = Append(@, r)]
      BY <1>4, <1>11, <2>2, <3>1, DeliverFacts
    <3>4. got \in [Sessions -> Seq(Nat)] /\ got[s] \in Seq(Nat)
      BY <1>4 DEF Typed
    <3>5. got'[s] = Append(got[s], r) /\ \A t \in Sessions : t # s => got'[t] = got[t]
      BY <3>3, <3>4
    <3>6. Range(Append(got[s], r)) = Range(got[s]) \cup {r}
      <4>1. PICK q \in Seq(Nat) : q = got[s]
        BY <3>4
      <4>2. /\ DOMAIN q = 1..Len(q) /\ Len(q) \in Nat
            /\ DOMAIN Append(q, r) = 1..(Len(q) + 1)
            /\ \A k \in 1..Len(q) : Append(q, r)[k] = q[k]
            /\ Append(q, r)[Len(q) + 1] = r
        BY <3>2
      <4>3. ASSUME NEW y PROVE y \in Range(Append(q, r)) <=> y \in Range(q) \/ y = r
        <5>1. ASSUME y \in Range(Append(q, r)) PROVE y \in Range(q) \/ y = r
          <6>1. PICK k \in 1..(Len(q) + 1) : Append(q, r)[k] = y
            BY <4>2, <5>1 DEF Range
          <6>2. k \in 1..Len(q) \/ k = Len(q) + 1
            BY <4>2
          <6> QED
            BY <4>2, <6>1, <6>2 DEF Range
        <5>2. ASSUME y \in Range(q) \/ y = r PROVE y \in Range(Append(q, r))
          <6>1. Len(q) + 1 \in 1..(Len(q) + 1) /\ \A k \in 1..Len(q) : k \in 1..(Len(q) + 1)
            BY <4>2
          <6> QED
            BY <4>2, <5>2, <6>1 DEF Range
        <5> QED
          BY <5>1, <5>2
      <4> QED
        BY <4>1, <4>3
    <3>7. \A t \in Sessions : x \in Range(got'[t]) \cup UnderWay(t)' <=> x \in Range(got[t]) \cup UnderWay(t)
      BY <3>2, <3>5, <3>6
    <3> QED
      BY <3>7 DEF Same, Reached
  <2>3. NoLoss(up', link') => NoLoss(up, link) /\ s \in up
    BY <2>1 DEF NoLoss
  <2> QED
    BY <1>5, <2>1, <2>2, <2>3
<1>12. ASSUME NEW s \in Sessions, SessionEnds(s) PROVE Inv' /\ Done' = Done /\ UNCHANGED apiVars
  <2>1. UNCHANGED apiVars /\ Path(d)' /\ up' = up \ {s}
    BY <1>3, <1>12, ChangePath DEF SessionEnds
  <2>2. ~NoLoss(up', link')
    BY <2>1 DEF NoLoss
  <2> QED
    BY <1>5, <2>1, <2>2
<1> QED
  BY <1>7, <1>8, <1>9, <1>10, <1>11, <1>12

\* The invariant holds at the beginning.
LEMMA InitInv ==
  ASSUME Init
  PROVE  Inv
<1>1. sent = <<>> /\ rcvd = 0 /\ off = 0 /\ Len(sent) = 0 /\ Total = 0
  BY DEF Init, Total
<1>2. IsStream(sent)
  BY <1>1 DEF IsStream
<1>3. Stream
  BY <1>1, <1>2 DEF Stream, EndOf
<1>4. Done = 0
  BY <1>1, <1>3, DoneFacts
<1>5. Api
  BY <1>4, ConstantFacts DEF Init, Api
<1>6. /\ cur = [v \in Servers |-> 0]
      /\ link = [v \in Servers |-> [i \in 1..MaxLinks |-> [st |-> "none", q |-> <<>>]]]
      /\ queue = [s \in Sessions |-> <<>>] /\ up = Sessions /\ got = [s \in Sessions |-> <<>>]
      /\ answers = <<>>
  BY DEF Init
<1>7. [st |-> "none", q |-> <<>>] \in Link
  BY DEF Link
<1>8. Typed
  BY <1>6, <1>7, ConstantFacts DEF Typed
<1>9. \A v \in Servers, i \in 1..MaxLinks : link[v][i].q = <<>> /\ link[v][i].st = "none" /\ OnLink(v, i) = {}
  <2>1. \A v \in Servers, i \in 1..MaxLinks : link[v][i] = [st |-> "none", q |-> <<>>]
    BY <1>6
  <2> QED
    BY <2>1 DEF OnLink
<1>10. \A s \in Sessions : queue[s] = <<>> /\ got[s] = <<>> /\ 1..Len(queue[s]) = {} /\ 1..Len(got[s]) = {}
  BY <1>6
<1>11. Placed /\ Bounded(Done) /\ Distinct
  BY <1>6, <1>9, <1>10 DEF Placed, Bounded, Distinct
<1>12. AllOrdered
  <2> SUFFICES ASSUME NEW s \in Sessions PROVE Ordered(s)
    BY DEF AllOrdered
  <2>1. consvid[s] \in Servers
    BY ConstantFacts
  <2> QED
    BY <1>9, <1>10, <2>1 DEF Ordered
<1>13. CountExact
  BY <1>6 DEF CountExact
<1> QED
  BY <1>3, <1>5, <1>8, <1>11, <1>12, <1>13 DEF Inv, Path

\* The steps, a connection named by its server and its number.
LEMMA NextCases ==
  ASSUME Next
  PROVE  \/ \E k \in Kinds, n \in Lengths : Ask(k, n)
         \/ ReadAnswer \/ HangUp
         \/ \E n \in 1..(Total - rcvd) : Receive(n)
         \/ ReceiveNothing \/ Packet \/ PacketsDone \/ PacketBad \/ Fail
         \/ \E n \in 1..(Len(answers) - wired) : Write(n)
         \/ \E v \in Servers : Register(v) \/ Disconnected(v)
         \/ \E v \in Servers, i \in 1..MaxLinks : Break(v, i) \/ Route(v, i)
         \/ \E s \in Sessions : Deliver(s) \/ SessionEnds(s)
<1>1. ASSUME NEW l \in Links, Break(l[1], l[2]) \/ Route(l[1], l[2])
      PROVE  \E v \in Servers, i \in 1..MaxLinks : Break(v, i) \/ Route(v, i)
  BY <1>1 DEF Links
<1> QED
  BY <1>1 DEF Next, Client, HandleRead

\* Nothing changes.
LEMMA StutterInv ==
  ASSUME Inv, UNCHANGED vars
  PROVE  Inv'
<1>1. UNCHANGED <<sent, rcvd, off, lpc, api, answers, wired, seen, pathVars>>
  BY DEF vars, pathVars
<1>2. Done' = Done
  BY <1>1 DEF Done
<1>3. Stream'
  BY <1>1 DEF Inv, Stream, Total
<1>4. /\ lpc \in {"idle", "packets", "failing"} /\ api \in {"open", "closed"} /\ (lpc # "idle" => api = "open")
      /\ wired \in Nat /\ seen \in 0..wired /\ wired <= Len(answers)
  BY DEF Inv, Api
<1> QED
  BY <1>1, <1>2, <1>3, <1>4, QuietStep

\* Every step keeps the invariant.
LEMMA NextInv ==
  ASSUME Inv, [Next]_vars
  PROVE  Inv'
<1>1. CASE Next
  BY <1>1, NextCases, QuietInv, PacketInv, PathInv
<1>2. CASE UNCHANGED vars
  BY <1>2, StutterInv
<1> QED
  BY <1>1, <1>2

\* The stream, the interface and the way of the pushes are always as Inv says.
THEOREM Invariance == Spec => []Inv
<1>1. Init => Inv
  BY InitInv
<1>2. Inv /\ [Next]_vars => Inv'
  BY NextInv
<1> QED
  BY <1>1, <1>2, PTL DEF Spec

\* The count in an answer of sendJsonResponse is exact as long as no connection to
\* a connect server breaks and no session ends.
THEOREM Exact == Spec => []CountExact
<1>1. Inv => CountExact
  BY DEF Inv
<1> QED
  BY <1>1, Invariance, PTL

\* Pushes reach a session in the order they were asked for, as long as its server
\* has not been connected to a second time.
THEOREM Order == Spec => []InOrder
<1>1. Inv => InOrder
  <2> SUFFICES ASSUME Inv, NEW s \in Sessions, Single(s)
               PROVE  \A i, j \in DOMAIN got[s] : i < j => got[s][i] < got[s][j]
    BY DEF InOrder, Single
  <2>1. Ordered(s) /\ Typed
    BY DEF Inv, Path, AllOrdered
  <2>2. DOMAIN got[s] = 1..Len(got[s])
    BY <2>1 DEF Typed
  <2> QED
    BY <2>1, <2>2 DEF Ordered
<1> QED
  BY <1>1, Invariance, PTL

-----------------------------------------------------------------------------
(* The promise of PushDelivery *)

Asked == {"push", "other", "bad"}
ASent == [i \in DOMAIN sent |-> AskedFor(i)]
ASeen == SubSeq(answers, 1, seen)
AOpen == api = "open" /\ lpc # "failing"
APending == [s \in Sessions |-> IF s \in up THEN UnderWay(s) ELSE {}]

\* Sets are counted alike in both modules.
LEMMA CountAlike == \A T : Promise!Cardinality(T) = Cardinality(T)
  BY DEF Promise!Cardinality, Cardinality

\* Kinds of requests.
LEMMA SentFacts ==
  ASSUME Inv
  PROVE  /\ ASent \in Seq(Asked) /\ Len(ASent) = Len(sent) /\ DOMAIN ASent = 1..Len(sent) /\ Len(sent) \in Nat
         /\ \A i \in 1..Len(sent) :
              /\ ASent[i] \in Asked
              /\ ASent[i] = "push" <=> sent[i].kind = "push"
              /\ ASent[i] = "other" <=> sent[i].kind = "other"
<1>1. DOMAIN sent = 1..Len(sent) /\ Len(sent) \in Nat /\ \A i \in 1..Len(sent) : sent[i].kind \in Kinds
  BY EndFacts DEF Inv, Stream
<1>2. ASSUME NEW i \in 1..Len(sent)
      PROVE  /\ AskedFor(i) \in Asked
             /\ AskedFor(i) = "push" <=> sent[i].kind = "push"
             /\ AskedFor(i) = "other" <=> sent[i].kind = "other"
  BY <1>1 DEF AskedFor, Asked, Kinds
<1>3. ASent \in [1..Len(sent) -> Asked] /\ \A i \in 1..Len(sent) : ASent[i] = AskedFor(i)
  BY <1>1, <1>2 DEF ASent
<1>4. ASent \in Seq(Asked) /\ Len(ASent) = Len(sent)
  BY <1>1, <1>3
<1> QED
  BY <1>1, <1>2, <1>3, <1>4

\* The client asks.
LEMMA AskStep ==
  ASSUME Inv, Inv', NEW k \in Kinds, NEW n \in Lengths, Ask(k, n)
  PROVE  \E a \in Asked : Promise!Ask(a)
<1>1. /\ Done' = Done /\ Len(sent') = Len(sent) + 1
      /\ \A i \in 1..Len(sent) : sent'[i] = sent[i]
  BY AskStream DEF Inv
<1>2. UNCHANGED <<lpc, api, answers, seen, cur, link, queue, up, got>>
  BY DEF Ask, pathVars
<1>3. ASent \in Seq(Asked) /\ Len(ASent) = Len(sent) /\ DOMAIN ASent = 1..Len(sent) /\ Len(sent) \in Nat
  BY SentFacts
<1>4. DOMAIN sent' = 1..Len(sent') /\ Len(sent') \in Nat /\ \A i \in 1..Len(sent') : sent'[i].kind \in Kinds
  <2>1. IsStream(sent')
    BY DEF Inv, Stream
  <2> QED
    BY <2>1, EndFacts
<1>5. \A i \in 1..Len(sent') : AskedFor(i)' \in Asked
  BY <1>4 DEF AskedFor, Asked, Kinds
<1>6. ASent' = [i \in 1..(Len(sent) + 1) |-> AskedFor(i)']
  BY <1>1, <1>4 DEF ASent
<1>7. \A i \in 1..Len(sent) : AskedFor(i)' = AskedFor(i)
  BY <1>1 DEF AskedFor
<1>j. PICK j : j = Len(sent) + 1
  OBVIOUS
<1>8. PICK a : a = AskedFor(j)'
  OBVIOUS
<1>9. a \in Asked
  BY <1>1, <1>3, <1>5, <1>8, <1>j
<1>10. ASent' \in Seq(Asked) /\ Len(ASent') = Len(sent) + 1
  BY <1>1, <1>3, <1>5, <1>6
<1>11. Append(ASent, a) \in Seq(Asked) /\ Len(Append(ASent, a)) = Len(sent) + 1
  BY <1>3, <1>9
<1>12. ASSUME NEW i \in 1..(Len(sent) + 1) PROVE ASent'[i] = Append(ASent, a)[i]
  <2>1. ASent'[i] = AskedFor(i)'
    BY <1>6
  <2>2. CASE i = Len(sent) + 1
    BY <1>3, <1>8, <1>9, <1>j, <2>1, <2>2
  <2>3. CASE i # Len(sent) + 1
    <3>1. i \in 1..Len(sent)
      BY <1>3, <2>3
    <3>2. ASent[i] = AskedFor(i)
      BY <1>3, <3>1 DEF ASent
    <3> QED
      BY <1>3, <1>7, <1>9, <2>1, <3>1, <3>2
  <2> QED
    BY <2>2, <2>3
<1>13. ASent' = Append(ASent, a)
  BY <1>10, <1>11, <1>12, SeqEqual
<1>14. Promise!Ask(a)
  BY <1>1, <1>2, <1>13 DEF Promise!Ask, ASent, AskedFor, UnderWay, Links
<1> QED
  BY <1>9, <1>14

\* The first n elements of a sequence.
LEMMA Prefix ==
  ASSUME NEW T, NEW q \in Seq(T), NEW n \in 0..Len(q)
  PROVE  /\ SubSeq(q, 1, n) \in Seq(T) /\ Len(SubSeq(q, 1, n)) = n
         /\ \A i \in 1..n : SubSeq(q, 1, n)[i] = q[i]
<1>1. \A i \in 1..n : q[i] \in T
  OBVIOUS
<1>2. /\ SubSeq(q, 1, n) \in Seq(T) /\ Len(SubSeq(q, 1, n)) = n
      /\ \A i \in 1..n : SubSeq(q, 1, n)[i] = q[1 + i - 1]
  BY <1>1
<1> QED
  BY <1>2

\* The client reads an answer.
LEMMA SeeStep ==
  ASSUME Inv, ReadAnswer
  PROVE  Promise!See
<1>1. /\ answers \in Seq([req : Nat, status : -1..Cardinality(Sessions)])
      /\ Len(answers) \in Nat /\ seen \in Nat /\ seen < wired /\ wired <= Len(answers) /\ wired \in Nat
  BY DEF Inv, Api, ReadAnswer
<1>2. UNCHANGED <<sent, off, lpc, api, answers, cur, link, queue, up, got>> /\ seen' = seen + 1
  BY DEF ReadAnswer, pathVars
<1> DEFINE A == [req : Nat, status : -1..Cardinality(Sessions)]
<1> HIDE DEF A
<1>3. answers \in Seq(A)
  BY <1>1 DEF A
<1>4. /\ ASeen \in Seq(A) /\ Len(ASeen) = seen
      /\ \A i \in 1..seen : ASeen[i] = answers[i]
  <2>1. seen \in 0..Len(answers)
    BY <1>1
  <2> QED
    BY <1>3, <2>1, Prefix DEF ASeen
<1>5. /\ ASeen' \in Seq(A) /\ Len(ASeen') = seen + 1
      /\ \A i \in 1..(seen + 1) : ASeen'[i] = answers[i]
  <2>1. seen + 1 \in 0..Len(answers)
    BY <1>1
  <2>2. ASeen' = SubSeq(answers, 1, seen + 1)
    BY <1>2 DEF ASeen
  <2> QED
    BY <1>3, <2>1, <2>2, Prefix
<1>6. answers[seen + 1] \in A
  BY <1>1, <1>3
<1>7. PICK a \in A : a = answers[seen + 1]
  BY <1>6
<1>8. /\ Append(ASeen, a) \in Seq(A) /\ Len(Append(ASeen, a)) = seen + 1
      /\ \A i \in 1..(seen + 1) : Append(ASeen, a)[i] = answers[i]
  <2>1. /\ Append(ASeen, a) \in Seq(A) /\ Len(Append(ASeen, a)) = Len(ASeen) + 1
        /\ \A i \in 1..Len(ASeen) : Append(ASeen, a)[i] = ASeen[i]
        /\ Append(ASeen, a)[Len(ASeen) + 1] = a
    BY <1>4, <1>7, AppendProperties
  <2>2. seen \in Nat
    BY <1>1
  <2> QED
    BY <1>4, <1>7, <2>1, <2>2
<1>9. ASeen' = Append(ASeen, a)
  BY <1>5, <1>8, SeqEqual
<1>10. ASeen' = Append(ASeen, answers[Len(ASeen) + 1]) /\ Len(ASeen) < Len(answers)
  BY <1>1, <1>4, <1>7, <1>9
<1>11. UNCHANGED <<ASent, Done, answers, AOpen, got>>
  BY <1>2 DEF ASent, AskedFor, Done, AOpen
<1>12. UNCHANGED APending
  BY <1>2 DEF APending, UnderWay, Links
<1> QED
  BY <1>10, <1>11, <1>12 DEF Promise!See, ASent, ASeen, AOpen, APending

\* A packet is handled.
LEMMA HandleStep ==
  ASSUME Inv, Packet
  PROVE  Promise!Handle
<1>1. /\ Done \in Nat /\ Done + 1 \in 1..Len(sent) /\ Done' = Done + 1
      /\ lpc = "packets" /\ api = "open" /\ UNCHANGED <<sent, api, seen>>
      /\ (\E S \in SUBSET Sessions : Served(S)) \/ RefusedNext \/ Passed
  BY PacketFacts
<1>2. Path(Done) /\ Api
  BY DEF Inv
<1>3. PICK d \in Nat : d = Done
  BY <1>1
<1>4. /\ d + 1 \in 1..Len(sent) /\ Len(ASent) = Len(sent) /\ Len(sent) \in Nat /\ d < Len(ASent)
      /\ ASent[d + 1] \in Asked
      /\ ASent[d + 1] = "push" <=> sent[d + 1].kind = "push"
      /\ ASent[d + 1] = "other" <=> sent[d + 1].kind = "other"
  BY <1>1, <1>3, SentFacts
<1>5. ASent' = ASent /\ AOpen
  BY <1>1 DEF ASent, AskedFor, AOpen
<1>6. ASSUME NEW a \in [req : Nat, status : -1..Cardinality(Sessions)], answers' = Append(answers, a)
      PROVE  ASeen' = ASeen
  <2> DEFINE A == [req : Nat, status : -1..Cardinality(Sessions)]
  <2>1. answers \in Seq(A) /\ Len(answers) \in Nat /\ seen \in Nat /\ seen <= Len(answers) /\ a \in A
    BY <1>2 DEF Api
  <2> HIDE DEF A
  <2>2. answers' \in Seq(A) /\ Len(answers') = Len(answers) + 1 /\ \A i \in 1..Len(answers) : answers'[i] = answers[i]
    BY <1>6, <2>1
  <2>3. ASeen \in Seq(A) /\ Len(ASeen) = seen /\ \A i \in 1..seen : ASeen[i] = answers[i]
    BY <2>1 DEF ASeen
  <2>4. ASeen' \in Seq(A) /\ Len(ASeen') = seen /\ \A i \in 1..seen : ASeen'[i] = answers[i]
    BY <1>1, <2>1, <2>2 DEF ASeen
  <2> QED
    BY <2>3, <2>4, SeqEqual
<1>7. ASSUME NEW S \in SUBSET Sessions, Served(S) PROVE Promise!Handle
  <2>1. /\ sent[d + 1].kind = "push" /\ SendPushes(S, d + 1)
        /\ answers' = Append(answers, [req |-> d + 1, status |-> Cardinality(S)])
        /\ UNCHANGED <<lpc, cur, queue, up, got>>
    BY <1>3, <1>7 DEF Served
  <2>2. Cardinality(S) \in 0..Cardinality(Sessions) /\ IsFiniteSet(S)
    <3>1. IsFiniteSet(S) /\ Cardinality(S) \in Nat /\ Cardinality(S) <= Cardinality(Sessions) /\ Cardinality(Sessions) \in Nat
      BY ConstantFacts, FS_Subset, FS_CardinalityType
    <3> QED
      BY <3>1
  <2>3. [req |-> d + 1, status |-> Cardinality(S)] \in [req : Nat, status : -1..Cardinality(Sessions)]
    <3>1. d + 1 \in Nat /\ Cardinality(S) \in -1..Cardinality(Sessions)
      BY <2>2, ConstantFacts
    <3> QED
      BY <3>1
  <2>4. ASeen' = ASeen
    BY <1>6, <2>1, <2>3
  <2> DEFINE T == {s \in S : MustCount(s) /\ s \in up}
  <2>5. T \in SUBSET Sessions /\ Cardinality(T) <= Cardinality(S)
    BY <2>2, FS_Subset
  <2>6. \A s \in Sessions : UnderWay(s)' = IF s \in S /\ MustCount(s) THEN UnderWay(s) \cup {d + 1} ELSE UnderWay(s)
    BY <1>2, <1>3, <2>1, SendWay
  <2>7. APending' = [s \in Sessions |-> IF s \in T THEN APending[s] \cup {d + 1} ELSE APending[s]]
    BY <2>1, <2>6 DEF APending
  <2>8. ASent[d + 1] = "push"
    BY <1>4, <2>1
  <2> HIDE DEF T
  <2>9. AOpen' = AOpen
    BY <1>1, <2>1 DEF AOpen
  <2>10. PICK n \in 0..Cardinality(Sessions), U \in SUBSET Sessions : n = Cardinality(S) /\ U = T
    BY <2>2, <2>5
  <2>11. Promise!Serve(n, U)
    <3>1. answers' = Append(answers, [req |-> Done + 1, status |-> n]) /\ Cardinality(U) <= n
      BY <1>3, <2>1, <2>5, <2>10
    <3>2. ASent[Done + 1] = "push" /\ AOpen' = AOpen
      BY <1>3, <2>8, <2>9
    <3>3. APending' = [s \in Sessions |-> IF s \in U THEN APending[s] \cup {Done + 1} ELSE APending[s]]
      BY <1>3, <2>7, <2>10
    <3> QED
      BY <3>1, <3>2, <3>3, CountAlike DEF Promise!Serve, Promise!Answer, ASent, APending, AOpen
  <2>12. \E W \in SUBSET Sessions, k \in 0..Cardinality(Sessions) : Promise!Serve(k, W)
    BY <2>11
  <2> QED
    <3>1. /\ Done' = Done + 1 /\ AOpen /\ Done < Len(ASent)
          /\ ASent' = ASent /\ ASeen' = ASeen /\ got' = got
      BY <1>1, <1>3, <1>4, <1>5, <2>1, <2>4
    <3> QED
      BY <2>12, <3>1, CountAlike DEF Promise!Handle, ASent, ASeen, AOpen
<1>8. CASE RefusedNext
  <2>1. /\ sent[d + 1].kind \in {"push", "bad"}
        /\ answers' = Append(answers, [req |-> d + 1, status |-> -1])
        /\ lpc' = "failing" /\ UNCHANGED <<cur, link, queue, up, got>>
    BY <1>3, <1>8 DEF RefusedNext, pathVars
  <2>2. [req |-> d + 1, status |-> -1] \in [req : Nat, status : -1..Cardinality(Sessions)]
    <3>1. d + 1 \in Nat /\ -1 \in -1..Cardinality(Sessions)
      BY ConstantFacts
    <3> QED
      BY <3>1
  <2>3. ASeen' = ASeen
    BY <1>6, <2>1, <2>2
  <2>4. APending' = APending /\ AOpen' = FALSE /\ ASent[d + 1] \in {"push", "bad"}
    BY <1>4, <2>1 DEF APending, UnderWay, AOpen, Asked
  <2>5. Promise!Refuse
    BY <1>3, <2>1, <2>4 DEF Promise!Refuse, Promise!Answer, ASent, APending, AOpen
  <2> QED
    BY <1>1, <1>3, <1>4, <1>5, <2>1, <2>3, <2>5 DEF Promise!Handle, ASent, ASeen, AOpen
<1>9. CASE Passed
  <2>1. sent[d + 1].kind = "other" /\ UNCHANGED <<answers, lpc, cur, link, queue, up, got>>
    BY <1>3, <1>9 DEF Passed, pathVars
  <2>2. ASeen' = ASeen /\ APending' = APending /\ AOpen' = AOpen /\ ASent[d + 1] = "other"
    BY <1>1, <1>4, <2>1 DEF ASeen, APending, UnderWay, AOpen
  <2>3. Promise!Skip
    BY <1>3, <2>1, <2>2 DEF Promise!Skip, ASent, APending, AOpen
  <2> QED
    BY <1>1, <1>3, <1>4, <1>5, <2>1, <2>2, <2>3 DEF Promise!Handle, ASent, ASeen, AOpen
<1> QED
  BY <1>1, <1>7, <1>8, <1>9

\* The other steps of the interface end it or are not to be seen.
LEMMA InterfaceStep ==
  ASSUME Inv,
         \/ HangUp
         \/ \E n \in 1..(Total - rcvd) : Receive(n)
         \/ ReceiveNothing \/ PacketsDone \/ PacketBad \/ Fail
         \/ \E n \in 1..(Len(answers) - wired) : Write(n)
  PROVE  Promise!End \/ UNCHANGED Promise!vars
<1>1. Done' = Done /\ UNCHANGED <<cur, link, queue, up, got, answers, sent, seen>>
  <2>1. Done' = Done /\ UNCHANGED <<pathVars, answers>>
    BY QuietInv
  <2>2. UNCHANGED <<sent, seen>>
    BY DEF HangUp, Receive, ReceiveNothing, PacketsDone, PacketBad, Fail, Write
  <2> QED
    BY <2>1, <2>2 DEF pathVars
<1>2. ASent' = ASent /\ ASeen' = ASeen /\ APending' = APending
  BY <1>1 DEF ASent, AskedFor, ASeen, APending, UnderWay
<1>3. AOpen' = FALSE \/ AOpen' = AOpen
  BY DEF AOpen, HangUp, Receive, ReceiveNothing, PacketsDone, PacketBad, Fail, Write, Recycle
<1>4. CASE AOpen' = FALSE
  BY <1>1, <1>2, <1>4 DEF Promise!End, ASent, ASeen, AOpen, APending
<1>5. CASE AOpen' = AOpen
  BY <1>1, <1>2, <1>5 DEF Promise!vars, ASent, ASeen, AOpen, APending
<1> QED
  BY <1>3, <1>4, <1>5

\* What happens on the way of the pushes.
LEMMA WayStep ==
  ASSUME Inv,
         \/ \E v \in Servers : Register(v) \/ Disconnected(v)
         \/ \E v \in Servers, i \in 1..MaxLinks : Break(v, i) \/ Route(v, i)
         \/ \E s \in Sessions : Deliver(s) \/ SessionEnds(s)
  PROVE  Promise!Lose \/ (\E s \in Sessions : Promise!Deliver(s)) \/ UNCHANGED Promise!vars
<1>1. Done' = Done /\ UNCHANGED <<sent, lpc, api, answers, seen>>
  BY PathInv DEF apiVars
<1>2. ASent' = ASent /\ ASeen' = ASeen /\ AOpen' = AOpen
  BY <1>1 DEF ASent, AskedFor, ASeen, AOpen
<1>3. PICK d : d = Done
  OBVIOUS
<1>4. d \in Nat /\ Path(d)
  BY <1>3, DoneFacts DEF Inv
<1>5. Typed
  BY <1>4 DEF Path
<1>6. ASSUME APending' = APending, got' = got PROVE UNCHANGED Promise!vars
  BY <1>1, <1>2, <1>6 DEF Promise!vars, ASent, ASeen, AOpen, APending
<1>7. ASSUME \A s \in Sessions : APending'[s] \subseteq APending[s], got' = got PROVE Promise!Lose
  <2>1. DOMAIN APending' = Sessions
    BY DEF APending
  <2> QED
    BY <1>1, <1>2, <1>7, <2>1 DEF Promise!Lose, ASent, ASeen, AOpen, APending
<1>8. ASSUME UNCHANGED <<up, got>>, \A s \in Sessions : UnderWay(s)' = UnderWay(s) PROVE UNCHANGED Promise!vars
  <2>1. APending' = APending
    BY <1>8 DEF APending
  <2> QED
    BY <1>6, <1>8, <2>1
<1>9. ASSUME NEW v \in Servers, Register(v) PROVE UNCHANGED Promise!vars
  BY <1>4, <1>8, <1>9, RegisterWay DEF Register
<1>10. ASSUME NEW v \in Servers, Disconnected(v) PROVE UNCHANGED Promise!vars
  <2>1. UNCHANGED <<link, queue, up, got>>
    BY <1>10 DEF Disconnected
  <2>2. \A s \in Sessions : UnderWay(s)' = UnderWay(s)
    BY <2>1 DEF UnderWay
  <2> QED
    BY <1>8, <2>1, <2>2
<1>11. ASSUME NEW v \in Servers, NEW i \in 1..MaxLinks, Route(v, i) PROVE UNCHANGED Promise!vars
  BY <1>4, <1>8, <1>11, RouteWay DEF Route
<1>12. ASSUME NEW v \in Servers, NEW i \in 1..MaxLinks, Break(v, i) PROVE Promise!Lose
  <2>1. UNCHANGED <<up, got>> /\ \A s \in Sessions : UnderWay(s)' \subseteq UnderWay(s)
    BY <1>4, <1>12, BreakWay DEF Break
  <2>2. \A s \in Sessions : APending'[s] \subseteq APending[s]
    BY <2>1 DEF APending
  <2> QED
    BY <1>7, <2>1, <2>2
<1>13. ASSUME NEW s \in Sessions, SessionEnds(s) PROVE Promise!Lose
  <2>1. UNCHANGED <<link, queue, got>> /\ up' = up \ {s}
    BY <1>13 DEF SessionEnds
  <2>2. \A t \in Sessions : UnderWay(t)' = UnderWay(t)
    BY <2>1 DEF UnderWay
  <2>3. \A t \in Sessions : APending'[t] \subseteq APending[t]
    BY <2>1, <2>2 DEF APending
  <2> QED
    BY <1>7, <2>1, <2>3
<1>14. ASSUME NEW s \in Sessions, Deliver(s) PROVE Promise!Deliver(s) \/ UNCHANGED Promise!vars
  <2>1. PICK r : r = queue[s][1]
    OBVIOUS
  <2>2. /\ r \in UnderWay(s) /\ UnderWay(s)' = UnderWay(s) \ {r}
        /\ \A t \in Sessions : t # s => UnderWay(t)' = UnderWay(t)
    BY <1>4, <1>14, <2>1, DeliverWay
  <2>3. up' = up
    BY <1>14 DEF Deliver
  <2>4. CASE s \in up
    <3>1. got' = [got EXCEPT ![s] = Append(@, r)]
      BY <1>5, <1>14, <2>1, <2>4, DeliverFacts
    <3>2. r \in APending[s] /\ APending' = [APending EXCEPT ![s] = @ \ {r}]
      BY <2>2, <2>3, <2>4 DEF APending
    <3> QED
      BY <1>1, <1>2, <3>1, <3>2 DEF Promise!Deliver, ASent, ASeen, AOpen, APending
  <2>5. CASE s \notin up
    <3>1. got' = got
      BY <1>14, <2>5 DEF Deliver
    <3>2. APending' = APending
      BY <2>2, <2>3, <2>5 DEF APending
    <3> QED
      BY <1>6, <3>1, <3>2
  <2> QED
    BY <2>4, <2>5
<1> QED
  BY <1>9, <1>10, <1>11, <1>12, <1>13, <1>14

\* Every behaviour of the push path, from the bytes of the requests over the
\* connections to the connect servers, is one PushDelivery allows: requests are
\* handled in order, answered once and with no less than the sessions they go to,
\* the refused one last, and reach a session at most once. The eventual arrival
\* that PushDelivery also promises is left to the model checker.
THEOREM Refinement == Spec => Promise!Safety
<1>1. Init => Promise!Init
  <2> SUFFICES ASSUME Init PROVE Promise!Init
    OBVIOUS
  <2>1. Inv
    BY InitInv
  <2>2. /\ sent = <<>> /\ answers = <<>> /\ seen = 0 /\ lpc = "idle" /\ api = "open"
        /\ queue = [s \in Sessions |-> <<>>] /\ up = Sessions /\ got = [s \in Sessions |-> <<>>]
    BY DEF Init
  <2>3. Done = 0
    <3>1. Len(sent) = 0
      BY <2>2
    <3> QED
      BY <2>1, <3>1, DoneFacts DEF Inv
  <2>4. ASent = <<>> /\ ASeen = <<>>
    <3>1. ASent \in Seq(Asked) /\ Len(ASent) = 0
      BY <2>1, <2>2, SentFacts
    <3> QED
      BY <2>2, <3>1 DEF ASeen
  <2>5. \A s \in Sessions : UnderWay(s) = {}
    <3> SUFFICES ASSUME NEW s \in Sessions, NEW x, x \in UnderWay(s) PROVE FALSE
      OBVIOUS
    <3>1. Typed /\ Placed
      BY <2>1 DEF Inv, Path
    <3>2. ~Waits(queue, s, x)
      BY <2>2 DEF Waits
    <3>3. ~Rides(link, s, x)
      <4> SUFFICES ASSUME Rides(link, s, x) PROVE FALSE
        OBVIOUS
      <4>1. PICK v \in Servers, i \in 1..MaxLinks : \E k \in OnLink(v, i) :
              /\ link[v][i].q[k] = [sess |-> s, req |-> x] /\ x \in Nat
              /\ link[v][i].q[k].sess = s /\ link[v][i].q[k].req = x
        BY <3>1, RidesFacts
      <4>2. link[v][i].st # "none"
        BY <3>1, <4>1, OnLinkFacts
      <4> QED
        BY <4>2 DEF Init
    <3> QED
      BY <3>1, <3>2, <3>3, UnderWayFacts
  <2>6. APending = [s \in Sessions |-> {}]
    BY <2>2, <2>5 DEF APending
  <2> QED
    BY <2>2, <2>3, <2>4, <2>6 DEF Promise!Init, ASent, ASeen, APending
<1>2. ASSUME Inv, [Next]_vars PROVE [Promise!Next]_Promise!vars
  <2>1. CASE Next
    <3>1. ASSUME NEW k \in Kinds, NEW n \in Lengths, Ask(k, n) PROVE Promise!Next
      <4>1. Inv'
        BY <1>2, NextInv
      <4>2. \E a \in Asked : Promise!Ask(a)
        BY <1>2, <3>1, <4>1, AskStep
      <4> QED
        BY <4>2 DEF Promise!Next, Asked
    <3>2. ReadAnswer => Promise!Next
      BY <1>2, SeeStep DEF Promise!Next
    <3>3. Packet => Promise!Next
      BY <1>2, HandleStep DEF Promise!Next
    <3>4. ASSUME \/ HangUp
                 \/ \E n \in 1..(Total - rcvd) : Receive(n)
                 \/ ReceiveNothing \/ PacketsDone \/ PacketBad \/ Fail
                 \/ \E n \in 1..(Len(answers) - wired) : Write(n)
          PROVE  Promise!Next \/ UNCHANGED Promise!vars
      <4>1. Promise!End \/ UNCHANGED Promise!vars
        BY <1>2, <3>4, InterfaceStep
      <4> QED
        BY <4>1 DEF Promise!Next
    <3>5. ASSUME \/ \E v \in Servers : Register(v) \/ Disconnected(v)
                 \/ \E v \in Servers, i \in 1..MaxLinks : Break(v, i) \/ Route(v, i)
                 \/ \E s \in Sessions : Deliver(s) \/ SessionEnds(s)
          PROVE  Promise!Next \/ UNCHANGED Promise!vars
      <4>1. Promise!Lose \/ (\E s \in Sessions : Promise!Deliver(s)) \/ UNCHANGED Promise!vars
        BY <1>2, <3>5, WayStep
      <4> QED
        BY <4>1 DEF Promise!Next
    <3> QED
      BY <2>1, <3>1, <3>2, <3>3, <3>4, <3>5, NextCases
  <2>2. CASE UNCHANGED vars
    BY <2>2 DEF vars, Promise!vars, Done, AskedFor, UnderWay, Links
  <2> QED
    BY <1>2, <2>1, <2>2
<1> QED
  BY <1>1, <1>2, Invariance, PTL DEF Spec, Promise!Safety
=============================================================================

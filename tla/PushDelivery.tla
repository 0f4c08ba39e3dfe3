---------------------------- MODULE PushDelivery ----------------------------
(***************************************************************************)
(* What the push service promises to a client of its JSON interface and to *)
(* the sessions behind it.  Requests of one connection are served in the   *)
(* order they were sent; each push that is served gets one answer, with    *)
(* the number of sessions it was handed on for; a refused one is the last. *)
(* A push reaches a session at most once, and no more sessions than the    *)
(* answer says.  What is under way to a session arrives unless it is lost. *)
(***************************************************************************)
EXTENDS Integers, Sequences, FiniteSets

CONSTANT Sessions

VARIABLES
  sent,     \* what the client has asked for: push, other, bad
  done,     \* how many of these requests have been looked at
  answers,  \* the answers, each with the number of its request
  seen,     \* the answers the client has got
  open,     \* the connection
  pending,  \* per session, the requests under way to it
  got       \* per session, the requests that have reached it

vars == <<sent, done, answers, seen, open, pending, got>>

Init ==
  /\ sent = <<>> /\ done = 0
  /\ answers = <<>> /\ seen = <<>>
  /\ open = TRUE
  /\ pending = [s \in Sessions |-> {}]
  /\ got = [s \in Sessions |-> <<>>]

Ask(k) ==
  /\ sent' = Append(sent, k)
  /\ UNCHANGED <<done, answers, seen, open, pending, got>>

Answer(status) == answers' = Append(answers, [req |-> done + 1, status |-> status])

Serve(n, S) ==
  /\ sent[done + 1] = "push"
  /\ Answer(n)
  /\ Cardinality(S) <= n
  /\ pending' = [s \in Sessions |-> IF s \in S THEN pending[s] \cup {done + 1} ELSE pending[s]]
  /\ UNCHANGED open

Refuse ==
  /\ sent[done + 1] \in {"push", "bad"}
  /\ Answer(-1)
  /\ open' = FALSE
  /\ UNCHANGED pending

\* A request of an unknown kind is passed over.
Skip ==
  /\ sent[done + 1] = "other"
  /\ UNCHANGED <<answers, open, pending>>

\* The next request is looked at.
Handle ==
  /\ done' = done + 1
  /\ open /\ done < Len(sent)
  /\ \/ \E S \in SUBSET Sessions, n \in 0..Cardinality(Sessions) : Serve(n, S)
     \/ Refuse \/ Skip
  /\ UNCHANGED <<sent, seen, got>>

End ==
  /\ open' = FALSE
  /\ UNCHANGED <<sent, done, answers, seen, pending, got>>

See ==
  /\ Len(seen) < Len(answers)
  /\ seen' = Append(seen, answers[Len(seen) + 1])
  /\ UNCHANGED <<sent, done, answers, open, pending, got>>

Deliver(s) ==
  /\ \E r \in pending[s] :
       /\ pending' = [pending EXCEPT ![s] = @ \ {r}]
       /\ got' = [got EXCEPT ![s] = Append(@, r)]
  /\ UNCHANGED <<sent, done, answers, seen, open>>

Lose ==
  /\ UNCHANGED <<sent, done, answers, seen, open, got>>
  /\ DOMAIN pending' = Sessions
  /\ \A s \in Sessions : pending'[s] \subseteq pending[s]

Next ==
  \/ \E k \in {"push", "other", "bad"} : Ask(k)
  \/ Handle \/ End \/ See \/ Lose
  \/ \E s \in Sessions : Deliver(s)

\* What never happens.
Safety == Init /\ [][Next]_vars

\* Whatever is under way to a session reaches it or is lost.
Spec == Safety /\ \A s \in Sessions : pending[s] # {} ~> pending[s] = {}
=============================================================================

----------------------------- MODULE FreshCache -----------------------------
(***************************************************************************)
(* What the query cache promises the hooks that ask it: it may forget      *)
(* whatever it likes, but an answer is a result that was stored, for a     *)
(* query similar to the one asked, and younger than its time to live when  *)
(* the question was put.                                                   *)
(***************************************************************************)
EXTENDS Naturals

CONSTANTS Askers, Keys, Similar(_, _), TimeToLive(_)

VARIABLES
  stored,    \* results on disk: [key, at]
  question,  \* per asker: nothing, or the [query, at] it asks
  answer,    \* per asker: nothing, or the result it was given
  time

vars == <<stored, question, answer, time>>

Init ==
  /\ stored = {}
  /\ question = [a \in Askers |-> {}]
  /\ answer = [a \in Askers |-> {}]
  /\ time = 0

Store(k) ==
  /\ stored' = {r \in stored : r.key # k} \cup {[key |-> k, at |-> time]}
  /\ UNCHANGED <<question, answer, time>>

Forget ==
  /\ stored' \in SUBSET stored
  /\ UNCHANGED <<question, answer, time>>

\* A question may be put, and what is forgotten meanwhile is forgotten.
Ask(a, q) ==
  /\ stored' \in SUBSET stored
  /\ question' = [question EXCEPT ![a] = {[query |-> q, at |-> time]}]
  /\ answer' = [answer EXCEPT ![a] = {}]
  /\ UNCHANGED time

Serve(a) ==
  /\ \E q \in question[a], r \in stored :
       /\ Similar(q.query, r.key)
       /\ r.at + TimeToLive(r.key) > q.at
       /\ answer' = [answer EXCEPT ![a] = {r}]
  /\ UNCHANGED <<stored, question, time>>

GiveUp(a) ==
  /\ question' = [question EXCEPT ![a] = {}]
  /\ answer' = [answer EXCEPT ![a] = {}]
  /\ UNCHANGED <<stored, time>>

Tick == time' = time + 1 /\ UNCHANGED <<stored, question, answer>>

Next ==
  \/ \E k \in Keys : Store(k)
  \/ Forget
  \/ \E a \in Askers, q \in Keys : Ask(a, q)
  \/ \E a \in Askers : Serve(a) \/ GiveUp(a)
  \/ Tick

Spec == Init /\ [][Next]_vars
=============================================================================

-------------------------- MODULE DecisionRequests --------------------------
(***************************************************************************)
(* Decision requests: questions to a human, one file each under            *)
(* .snipara/decisions/pending, and the answer of each under resolved.      *)
(* `workflow decide` carries a producer review out and then records the    *)
(* answer; `apply-decisions` turns an approved policy suggestion into a    *)
(* draft.  Commands are processes of several steps and hold no lock.       *)
(* WorkerTrust is about the requests for a worker's promotion.             *)
(***************************************************************************)
EXTENDS Naturals, FiniteSets

CONSTANTS
  Reviewers,      \* processes
  ReviewRequests, \* of producer artifacts, decided by `workflow decide`
  ManualRequests, \* requests whose answer is left to the human to carry out
  DecisionBudget  \* bound: commands started

Resolutions == {"accept", "reject", "defer"}

\* A policy suggestion is identified by the kind of the requests that were
\* answered alike, the answer, and how many they were.  (Suggestions about
\* answered suggestions are left out.)
Suggestions ==
  UNION {[of : {kind}, choice : Resolutions, size : 2 .. Cardinality(kind)]
           : kind \in {ReviewRequests, ManualRequests}}

Questions == ReviewRequests \cup ManualRequests
Requests  == Questions \cup Suggestions
Unanswered == "none"

VARIABLES
  asked,     \* pending/<request>.json: no, yes, torn
  resolved,  \* resolved/<request>.json: an answer, none, torn
  effect,    \* the review or policy draft: the answer it carries out
  applied,   \* .snipara/decisions/applied: the answer a record quotes, none, torn
  reviewer,  \* what each process is doing
  history    \* auxiliary: commands started, whether they overlapped or were killed

decisionVars == <<asked, resolved, effect, applied, reviewer, history>>

Out == [pc |-> "out"]

\* Some questions are pending and some were accepted earlier.
DecisionInit ==
  /\ \E old, done \in SUBSET Questions :
       /\ old \cap done = {}
       /\ asked = [r \in Requests |-> IF r \in old THEN "yes" ELSE "no"]
       /\ resolved = [r \in Requests |-> IF r \in done THEN "accept" ELSE Unanswered]
  /\ effect = [r \in Requests |-> IF r \in ReviewRequests THEN resolved[r] ELSE Unanswered]
  /\ applied = [r \in Requests |-> Unanswered]
  /\ reviewer = [p \in Reviewers |-> Out]
  /\ history = [started |-> 0, overlap |-> FALSE, killed |-> FALSE]

-----------------------------------------------------------------------------

\* Answers that something is done about.
CarriedOut(r) ==
  {choice \in Resolutions : \/ r \in ReviewRequests /\ choice # "defer"
                            \/ r \in Suggestions /\ choice = "accept"}

\* One file that cannot be parsed makes the whole listing throw.
ListsResolved == \A r \in Requests : resolved[r] # "torn"
ListsPending  == ListsResolved /\ \A r \in Requests : asked[r] # "torn"

Become(p, from, to) == reviewer[p].pc = from /\ reviewer' = [reviewer EXCEPT ![p] = to]

Doing(p, pc) == [reviewer[p] EXCEPT !.pc = pc]

Enter(p, to) ==
  /\ history.started < DecisionBudget
  /\ Become(p, "out", to)
  /\ history' = [history EXCEPT !.started = @ + 1,
                   !.overlap = @ \/ \E q \in Reviewers \ {p} : reviewer[q].pc # "out"]

\* The write of a file, which a kill may cut short.
Writes(p, file, r, value, to) ==
  \/ /\ file' = [file EXCEPT ![r] = value]
     /\ reviewer' = [reviewer EXCEPT ![p] = to]
     /\ UNCHANGED history
  \/ /\ file' = [file EXCEPT ![r] = "torn"]
     /\ reviewer' = [reviewer EXCEPT ![p] = Out]
     /\ history' = [history EXCEPT !.killed = TRUE]

-----------------------------------------------------------------------------
(* writeDecisionRequest *)

\* Mutant: the answers are not consulted before.
AskAnyway(p, r) ==
  /\ ListsResolved
  /\ Enter(p, [pc |-> "asking", request |-> r])
  /\ UNCHANGED <<asked, resolved, effect, applied>>

Ask(p, r) ==
  /\ ListsResolved
  /\ Enter(p, [pc |-> IF resolved[r] = Unanswered THEN "asking" ELSE "out", request |-> r])
  /\ UNCHANGED <<asked, resolved, effect, applied>>

\* The pending ones are listed after the resolved ones.
WriteRequest(p) ==
  LET r == reviewer[p].request
  IN  /\ reviewer[p].pc = "asking" /\ ListsPending
      /\ \/ asked[r] = "yes" /\ Become(p, "asking", Out) /\ UNCHANGED <<asked, history>>
         \/ asked[r] = "no" /\ Writes(p, asked, r, "yes", Out)
      /\ UNCHANGED <<resolved, effect, applied>>

-----------------------------------------------------------------------------
(* workflow decide *)

\* Mutant: the answer is recorded at once.
RecordFirst(r) == "resolving"

\* A review is carried out before it is recorded as decided.
FirstStep(r) == IF r \in ReviewRequests THEN "reviewing" ELSE "resolving"

\* The request must be pending.
Decide(p, r, choice) ==
  /\ ListsPending /\ asked[r] = "yes"
  /\ Enter(p, [pc |-> FirstStep(r), request |-> r, choice |-> choice])
  /\ UNCHANGED <<asked, resolved, effect, applied>>

\* applyDecisionRequestLocally
Review(p) ==
  LET r == reviewer[p].request
  IN  /\ Become(p, "reviewing", Doing(p, "resolving"))
      /\ effect' = IF reviewer[p].choice \in CarriedOut(r)
                   THEN [effect EXCEPT ![r] = reviewer[p].choice] ELSE effect
      /\ UNCHANGED <<asked, resolved, applied, history>>

\* resolveDecisionRequest lists the pending requests again and records the answer,
ResolveRequest(p) ==
  LET r == reviewer[p].request
  IN  /\ reviewer[p].pc = "resolving" /\ ListsPending /\ asked[r] = "yes"
      /\ Writes(p, resolved, r, reviewer[p].choice, Doing(p, "unlinking"))
      /\ UNCHANGED <<asked, effect, applied>>

\* and then deletes the request.
Unlink(p) ==
  LET r == reviewer[p].request
  IN  /\ Become(p, "unlinking", Doing(p, "suggesting"))
      /\ asked[r] # "no"
      /\ asked' = [asked EXCEPT ![r] = "no"]
      /\ UNCHANGED <<resolved, effect, applied, history>>

\* The largest group of requests of one kind with one answer, from two on.
Recurring ==
  LET Size(s) == Cardinality({r \in s.of : resolved[r] = s.choice})
  IN  {s \in Suggestions : s.size = Size(s) /\ \A t \in Suggestions : Size(t) <= s.size}

\* decide asks for a policy about them, unless that was answered.
Suggest(p) ==
  /\ ListsResolved
  /\ \/ Recurring = {} /\ Become(p, "suggesting", Out)
     \/ \E s \in Recurring :
          Become(p, "suggesting",
                 IF resolved[s] = Unanswered THEN [pc |-> "asking", request |-> s] ELSE Out)
  /\ UNCHANGED <<asked, resolved, effect, applied, history>>

-----------------------------------------------------------------------------
(* workflow apply-decisions *)

\* The approved suggestions without a record; the report is built once, from
\* records that can all be read.
ApplyDecisions(p) ==
  LET open == {s \in Suggestions : resolved[s] = "accept" /\ applied[s] = Unanswered}
  IN  /\ ListsResolved /\ open # {}
      /\ \A s \in Suggestions : applied[s] # "torn"
      /\ Enter(p, [pc |-> "drafting", todo |-> open])
      /\ UNCHANGED <<asked, resolved, effect, applied>>

\* Each is drafted and then recorded.
Draft(p) ==
  /\ reviewer[p].pc = "drafting"
  /\ \E s \in reviewer[p].todo :
    /\ effect' = [effect EXCEPT ![s] = "accept"]
    /\ Become(p, "drafting", [pc |-> "recording", todo |-> reviewer[p].todo \ {s}, request |-> s])
    /\ UNCHANGED <<asked, resolved, applied, history>>

RecordApplied(p) ==
  /\ reviewer[p].pc = "recording"
  /\ Writes(p, applied, reviewer[p].request, "accept",
            IF reviewer[p].todo = {} THEN Out ELSE Doing(p, "drafting"))
  /\ UNCHANGED <<asked, resolved, effect>>

\* A command is killed, or throws: on a listing, on a request that is gone.
Throw(p) ==
  /\ reviewer[p].pc # "out"
  /\ reviewer' = [reviewer EXCEPT ![p] = Out]
  /\ history' = [history EXCEPT !.killed = TRUE]
  /\ UNCHANGED <<asked, resolved, effect, applied>>

DecisionNext ==
  \E p \in Reviewers :
    \/ \E r \in Questions : Ask(p, r)
    \/ WriteRequest(p)
    \/ \E r \in Requests, choice \in Resolutions : Decide(p, r, choice)
    \/ Review(p) \/ ResolveRequest(p) \/ Unlink(p) \/ Suggest(p)
    \/ ApplyDecisions(p) \/ Draft(p) \/ RecordApplied(p)
    \/ Throw(p)

DecisionSpec == DecisionInit /\ [][DecisionNext]_decisionVars

-----------------------------------------------------------------------------
(* Properties *)

DecisionTypeOK ==
  /\ asked \in [Requests -> {"no", "yes", "torn"}]
  /\ resolved \in [Requests -> Resolutions \cup {Unanswered, "torn"}]
  /\ effect \in [Requests -> Resolutions \cup {Unanswered}]
  /\ applied \in [Requests -> Resolutions \cup {Unanswered, "torn"}]

\* However commands interleave and are killed: a review on record as decided has
\* been carried out, and a policy on record as applied has its draft (workflow
\* decide and apply-decisions act first and record second); and what has an answer
\* is not asked again, even when the command that recorded the answer was killed
\* before it deleted the request (where no two commands overlapped).
AnswersStand ==
  [][\A r \in Requests :
       /\ r \in ReviewRequests /\ resolved'[r] \in CarriedOut(r) => effect'[r] # Unanswered
       /\ applied'[r] # Unanswered => effect'[r] # Unanswered
       /\ ~history'.overlap /\ asked[r] = "no" /\ asked'[r] = "yes" => resolved[r] = Unanswered]_decisionVars
=============================================================================

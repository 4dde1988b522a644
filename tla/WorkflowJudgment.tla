--------------------------- MODULE WorkflowJudgment ---------------------------
(***************************************************************************)
(* The judgment of a managed workflow: a card of recommendations and        *)
(* required actions, the responses to it, the outcome receipts that commits *)
(* leave on the responses, and the resolution final-commit is gated by.     *)
(*                                                                          *)
(* ManagedWorkflow takes the resolution as a verdict somebody chose; here   *)
(* it is derived.  A workflow asks for its judgment with skipGuard, so that *)
(* no card of it carries guard_blocked or a resolve_blocker action.         *)
(***************************************************************************)
EXTENDS Integers, Sequences

CONSTANTS
  Recommendations,  \* ids of advisor recommendations
  Checks,           \* what evidence is keyed by: its source and label
  Cards,            \* the cards `workflow judgment` may serve
  MaxReceipts       \* bound: commits that leave receipts on one card

Severities == {"info", "watch", "risk", "block"}

\* "auto": accepted by policy_auto.  "none": no response.
Decisions == {"accepted", "modified", "ignored", "blocked"}
Answers   == Decisions \cup {"auto", "none"}

Standings == {"none", "passed", "failed", "skipped"}
Evidence  == [Checks -> Standings]

\* A required action and an unresolved reason code are known by the checks
\* whose passing clears them; nothing clears surface_unavailable.
CardShape(card) ==
  /\ card.recommendations \subseteq Recommendations
  /\ card.severity \in [card.recommendations -> Severities]
  /\ card.actions \subseteq SUBSET Checks
  /\ card.signals \subseteq SUBSET Checks
  /\ card.canProceed \in {"yes", "review", "block"}

ASSUME JudgmentShape == MaxReceipts \in Nat /\ \A card \in Cards : CardShape(card)

VARIABLES
  judgment,  \* state.judgment in the workflow file, or Unjudged
  commit,    \* the commit under way: what it was given and how far it got
  said,      \* (history) what the agent last decided on each recommendation of the card
  kept,      \* (history) what commits that went through last reported under the card
  lost       \* (history) failures last reported by a commit that did not

vars == <<judgment, commit, said, kept, lost>>

Unjudged    == [card |-> "none"]
NoEvidence  == [c \in Checks |-> "none"]
NoAnswers   == [r \in Recommendations |-> "none"]
Verdicts    == {"yes", "review", "block"}

\* The outcome receipts of responses and responseHistory, by generatedAt; one
\* close leaves the same evidence on every response there is.
Receipts == [of : SUBSET Recommendations, evidence : Evidence, success : BOOLEAN]

Judgments == [card : Cards, responses : [Recommendations -> Answers],
              receipts : Seq(Receipts), resolution : Verdicts]

Commits == [at : {"idle", "guarded", "closing"}, completed : BOOLEAN, evidence : Evidence]

Idle == [at |-> "idle", completed |-> FALSE, evidence |-> NoEvidence]

-----------------------------------------------------------------------------
(* Deriving the resolution. *)

\* What a commit reports of, and what it reports as failed.
Told(given)     == {c \in Checks : given[c] # "none"}
Failures(given) == {c \in Checks : given[c] = "failed"}

\* b on top of a.
Over(a, b) == [c \in Checks |-> IF b[c] = "none" THEN a[c] ELSE b[c]]

\* Mutants: the first report stays; a check that ever passed has passed.
FirstKnown(receipts, given) ==
  [c \in Checks |->
     LET told == {i \in DOMAIN receipts : receipts[i].evidence[c] # "none"}
     IN  IF told = {} THEN given[c]
         ELSE receipts[CHOOSE i \in told : \A k \in told : i <= k].evidence[c]]
EverPassed(receipts, given) ==
  [c \in Checks |->
     IF \E i \in DOMAIN receipts : receipts[i].evidence[c] = "passed" THEN "passed"
     ELSE given[c]]

\* s is the latest report of c.
Latest(receipts, c, s) ==
  \E i \in DOMAIN receipts :
    /\ receipts[i].evidence[c] = s
    /\ \A k \in DOMAIN receipts : k > i => receipts[k].evidence[c] = "none"

\* effectiveJudgmentEvidence: of every check the latest report.
Known(receipts, given) ==
  Over([c \in Checks |->
          IF \E s \in Standings \ {"none"} : Latest(receipts, c, s)
            THEN CHOOSE s \in Standings \ {"none"} : Latest(receipts, c, s)
            ELSE "none"],
       given)

Passed(known) == {c \in Checks : known[c] = "passed"}

HardBlocker(j, known) ==
  \/ \E r \in j.card.recommendations :
       \/ j.responses[r] = "blocked"
       \/ j.card.severity[r] = "block" /\ j.responses[r] \in {"none", "ignored"}
  \/ \E c \in Checks : known[c] = "failed"

NeedsReview(j, known) ==
  \/ \E r \in j.card.recommendations :
       j.card.severity[r] = "risk" /\ j.responses[r] \in {"none", "ignored"}
  \/ \E signal \in j.card.signals : signal \cap Passed(known) = {}

NeedsProof(j, known, completed) ==
  \/ \E action \in j.card.actions : action \cap Passed(known) = {}
  \/ /\ j.card.canProceed # "yes" \/ j.card.actions # {}
     /\ \/ ~completed /\ ~\E i \in DOMAIN j.receipts : j.receipts[i].success
        \/ Passed(known) = {}

\* Mutant: the state of the resolution taken for what may proceed.
DeriveState(j, given, completed) ==
  LET known == Known(j.receipts, given)
  IN  IF HardBlocker(j, known) THEN "blocked"
      ELSE IF NeedsReview(j, known) \/ NeedsProof(j, known, completed) THEN "review" ELSE "ready"

\* deriveManagedWorkflowJudgmentResolution, as far as canProceed goes.
Derive(j, given, completed) ==
  LET known == Known(j.receipts, given)
  IN  IF HardBlocker(j, known) THEN "block"
      ELSE IF NeedsReview(j, known) \/ NeedsProof(j, known, completed) THEN "review" ELSE "yes"

LowRisk(card) == {r \in card.recommendations : card.severity[r] \in {"info", "watch"}}

\* applyManagedWorkflowPolicyAutoResponses
WithPolicy(j) ==
  [j EXCEPT !.responses = [r \in Recommendations |->
     IF r \in LowRisk(j.card) /\ @[r] = "none" THEN "auto" ELSE @[r]]]

\* updateManagedWorkflowJudgmentResolution
Updated(j, given, completed) ==
  LET answered == WithPolicy(j)
  IN  [answered EXCEPT !.resolution = Derive(answered, given, completed)]

Answered(j) == {r \in j.card.recommendations : j.responses[r] # "none"}

\* Mutant: the responses to the card before are kept.
FreshKeepingResponses(card) ==
  Updated([card |-> card, receipts |-> <<>>, resolution |-> "review",
           responses |-> IF judgment = Unjudged THEN NoAnswers ELSE judgment.responses],
          NoEvidence, FALSE)

Fresh(card) ==
  Updated([card |-> card, responses |-> NoAnswers, receipts |-> <<>>, resolution |-> "review"],
          NoEvidence, FALSE)

\* Mutant: a superseded response takes its receipts with it.
RespondForgetting(j, r, decision) ==
  Updated([j EXCEPT !.responses[r] = decision,
                    !.receipts = SelectSeq(@, LAMBDA e : e.of # {r})],
          NoEvidence, FALSE)

\* A superseded response moves to responseHistory with its receipts.
RespondTo(j, r, decision) == Updated([j EXCEPT !.responses[r] = decision], NoEvidence, FALSE)

\* Every response gets the outcome of the commit; where there is no response
\* nothing keeps it.
Closed(j, given, completed) ==
  LET answered == WithPolicy(j)
      receipt  == [of |-> Answered(answered), evidence |-> given, success |-> completed]
  IN  Updated([answered EXCEPT !.receipts = IF Answered(answered) = {} THEN @
                                            ELSE Append(@, receipt)],
              given, completed)

-----------------------------------------------------------------------------
\* workflow judgment, the first time or with --refresh: a new card, without
\* the responses to the one it archives.
Refresh(card) ==
  /\ commit = Idle
  /\ judgment' = Fresh(card)
  /\ said' = NoAnswers
  /\ kept' = NoEvidence
  /\ lost' = {}
  /\ UNCHANGED commit

\* workflow judgment-respond
Respond(r, decision) ==
  /\ commit = Idle
  /\ judgment # Unjudged
  /\ r \in judgment.card.recommendations
  /\ judgment' = RespondTo(judgment, r, decision)
  /\ said' = [said EXCEPT ![r] = decision]
  /\ UNCHANGED <<commit, kept, lost>>

\* workflow phase-commit of a judged workflow, once the phase is written:
\* the judgment is only closed when there is evidence.
PhaseCommit(given, completed) ==
  /\ commit = Idle
  /\ judgment # Unjudged
  /\ given # NoEvidence
  /\ Len(judgment.receipts) < MaxReceipts
  /\ commit' = [at |-> "closing", completed |-> completed, evidence |-> given]
  /\ UNCHANGED <<judgment, said, kept, lost>>

\* A commit that did not go through: nothing of what it reported is kept.
Forgotten(given) == (lost \ Told(given)) \cup Failures(given)

\* final-commit: the resolution is derived and written, and may refuse.  Of a
\* refused commit the file keeps the resolution, not the evidence.
FinalCommit(given, completed) ==
  LET j == Updated(judgment, given, completed)
  IN  /\ commit = Idle
      /\ judgment # Unjudged
      /\ Len(judgment.receipts) < MaxReceipts
      /\ judgment' = j
      /\ \/ /\ completed /\ j.resolution # "yes"
            /\ lost' = Forgotten(given)
            /\ UNCHANGED commit
         \/ /\ ~(completed /\ j.resolution # "yes")
            /\ commit' = [at |-> "guarded", completed |-> completed, evidence |-> given]
            /\ UNCHANGED lost
      /\ UNCHANGED <<said, kept>>

\* The memory guard lets it pass and the workflow is written with its status.
Finish ==
  /\ commit.at = "guarded"
  /\ commit' = [commit EXCEPT !.at = "closing"]
  /\ UNCHANGED <<judgment, said, kept, lost>>

\* closeManagedWorkflowJudgment
Close ==
  /\ commit.at = "closing"
  /\ judgment' = Closed(judgment, commit.evidence, commit.completed)
  /\ kept' = Over(kept, commit.evidence)
  /\ lost' = lost \ Told(commit.evidence)
  /\ commit' = Idle
  /\ UNCHANGED said

\* The memory guard refuses, a hosted call fails, the process is killed.
Stop ==
  /\ commit # Idle
  /\ commit' = Idle
  /\ lost' = Forgotten(commit.evidence)
  /\ UNCHANGED <<judgment, said, kept>>

Init ==
  /\ judgment = Unjudged /\ commit = Idle
  /\ said = NoAnswers /\ kept = NoEvidence /\ lost = {}

Next ==
  \/ \E card \in Cards : Refresh(card)
  \/ \E r \in Recommendations, decision \in Decisions : Respond(r, decision)
  \/ \E given \in Evidence, completed \in BOOLEAN : PhaseCommit(given, completed)
  \/ \E given \in Evidence, completed \in BOOLEAN : FinalCommit(given, completed)
  \/ Finish
  \/ Close
  \/ Stop

Spec == Init /\ [][Next]_vars

-----------------------------------------------------------------------------
TypeOK ==
  /\ judgment = Unjudged \/ judgment \in Judgments
  /\ commit \in Commits
  /\ said \in [Recommendations -> Decisions \cup {"none"}]
  /\ kept \in Evidence
  /\ lost \subseteq Checks

\* The step by which final-commit marks the workflow completed.
Completes == commit.at = "guarded" /\ commit'.at = "closing" /\ commit.completed

\* A workflow is only completed on explicit authority given under the card it
\* was judged by: every risk and block recommendation was accepted or modified
\* by the agent, and no recommendation at all was last answered "blocked".
AuthorityIsExplicit ==
  [][Completes => \A r \in judgment.card.recommendations :
       /\ said[r] # "blocked"
       /\ judgment.card.severity[r] \in {"risk", "block"} => said[r] \in {"accepted", "modified"}
    ]_vars

\* What a commit that went through reported as failed under this card stops
\* every final-commit until the same check is reported otherwise, whatever was
\* answered or superseded in between.  A commit that was refused or broke off
\* is not meant here: see FailuresAlwaysStop.
FailedEvidenceStops ==
  [][Completes => \A c \in Checks : Over(kept, commit.evidence)[c] # "failed"]_vars

\* Whatever the card requires was last reported as passed, by this commit or by
\* those that went through, when the workflow is completed: an earlier pass
\* that one of them took back does not count.
ActionsAreProved ==
  [][Completes => \A action \in judgment.card.actions :
       \E c \in action : Over(kept, commit.evidence)[c] = "passed"]_vars

\* README: "Failed evidence ... remains a hard stop".  A final-commit does not
\* complete the workflow while the last report of a check is a failure, whether
\* or not the commit that reported it went through.
FailuresAlwaysStop ==
  [][Completes => \A c \in Checks :
       IF commit.evidence[c] = "none" THEN c \notin lost /\ kept[c] # "failed"
       ELSE commit.evidence[c] # "failed"]_vars

\* A refused final-commit says to answer the recommendations and to attach
\* passed evidence.  That is always enough, whatever was answered or reported
\* before, unless the card has a signal that nothing clears.
RefusalCanBeCleared ==
  judgment # Unjudged /\ {} \notin judgment.card.signals \cup judgment.card.actions =>
    LET answered == [judgment EXCEPT !.responses =
                       [r \in Recommendations |->
                          IF r \in judgment.card.recommendations THEN "accepted" ELSE @[r]]]
    IN  Checks # {} => Derive(answered, [c \in Checks |-> "passed"], TRUE) = "yes"
=============================================================================

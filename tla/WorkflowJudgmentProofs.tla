------------------------ MODULE WorkflowJudgmentProofs ------------------------
(***************************************************************************)
(* final-commit completes a workflow only on authority and evidence given  *)
(* under its card, for all cards, checks and numbers of commits.  What is  *)
(* said of failures needs a response to keep them whenever a commit closes *)
(* (with low-risk advice on every card, which the policy answers, there    *)
(* is), and is said of the commits that went through.                      *)
(***************************************************************************)
EXTENDS WorkflowJudgment, TLAPS

\* What a commit that closes the judgment reports is kept: it reports nothing,
\* or there is a response by then.
EvidenceIsHeld ==
  commit.at = "closing" =>
    Answered(WithPolicy(judgment)) # {} \/ commit.evidence = NoEvidence

Advised == \A card \in Cards : LowRisk(card) # {}

\* The responses in the file are what the agent said, or the policy's answer
\* to low-risk advice the agent said nothing of.
Spoken ==
  judgment \in Judgments => \A r \in judgment.card.recommendations :
    \/ judgment.responses[r] = said[r]
    \/ /\ said[r] = "none" /\ judgment.responses[r] = "auto"
       /\ r \in LowRisk(judgment.card)

\* What derived "yes" is still what the file holds when the commit goes on.
Gated ==
  /\ commit.at # "idle" => judgment \in Judgments
  /\ commit.at = "guarded" /\ commit.completed =>
       Derive(judgment, commit.evidence, TRUE) = "yes"

\* The receipts in the file tell what commits that went through reported.
OnRecord == judgment \in Judgments => kept = Known(judgment.receipts, NoEvidence)

IInv == TypeOK /\ Spoken /\ Gated

-----------------------------------------------------------------------------
(* Evidence. *)

LEMMA OverType ==
  ASSUME NEW a \in Evidence, NEW b \in Evidence
  PROVE  Over(a, b) \in Evidence
BY DEF Over, Evidence

LEMMA NoEvidenceType == NoEvidence \in Evidence
BY DEF NoEvidence, Evidence, Standings

\* Over nothing, a report is itself.
LEMMA OverNothing ==
  ASSUME NEW a \in Evidence
  PROVE  Over(a, NoEvidence) = a
BY DEF Over, NoEvidence, Evidence

\* What is known with a report at hand is the report over what was known.
LEMMA KnownGiven ==
  ASSUME NEW receipts \in Seq(Receipts), NEW given \in Evidence
  PROVE  Known(receipts, given) = Over(Known(receipts, NoEvidence), given)
BY DEF Known, Over, NoEvidence, Evidence

\* Before any receipt nothing is known.
LEMMA KnownOfNone == Known(<<>>, NoEvidence) = NoEvidence
BY DEF Known, Over, NoEvidence, Latest

\* A receipt appended is a report over what was known.
LEMMA KnownAppend ==
  ASSUME NEW receipts \in Seq(Receipts), NEW e \in Receipts
  PROVE  Known(Append(receipts, e), NoEvidence) = Over(Known(receipts, NoEvidence), e.evidence)
<1> DEFINE more == Append(receipts, e)
<1>1. /\ DOMAIN receipts = 1..Len(receipts) /\ Len(receipts) \in Nat
      /\ DOMAIN more = 1..(Len(receipts) + 1)
      /\ \A i \in DOMAIN receipts : more[i] = receipts[i]
      /\ more[Len(receipts) + 1] = e
  OBVIOUS
<1>2. e.evidence \in Evidence
  BY DEF Receipts
<1> HIDE DEF more
<1>3. ASSUME NEW c \in Checks, NEW s \in Standings \ {"none"}
      PROVE  Latest(more, c, s) <=>
               \/ e.evidence[c] = s
               \/ e.evidence[c] = "none" /\ Latest(receipts, c, s)
  <2>1. CASE e.evidence[c] = "none"
    BY <1>1, <2>1 DEF Latest
  <2>2. CASE e.evidence[c] # "none"
    BY <1>1, <2>2 DEF Latest
  <2> QED
    BY <2>1, <2>2
<1>4. ASSUME NEW c \in Checks
      PROVE  Known(more, NoEvidence)[c] =
             IF e.evidence[c] = "none" THEN Known(receipts, NoEvidence)[c] ELSE e.evidence[c]
  <2>1. CASE e.evidence[c] = "none"
    <3>1. \A s \in Standings \ {"none"} : Latest(more, c, s) <=> Latest(receipts, c, s)
      BY <1>3, <2>1
    <3> QED
      BY <2>1, <3>1 DEF Known, Over, NoEvidence
  <2>2. CASE e.evidence[c] # "none"
    <3>1. e.evidence[c] \in Standings \ {"none"}
      BY <1>2, <2>2 DEF Evidence
    <3>2. \A s \in Standings \ {"none"} : Latest(more, c, s) <=> s = e.evidence[c]
      BY <1>3, <2>2
    <3> QED
      BY <2>2, <3>1, <3>2 DEF Known, Over, NoEvidence
  <2> QED
    BY <2>1, <2>2
<1>5. Known(more, NoEvidence) = [c \in Checks |-> Known(more, NoEvidence)[c]]
  BY DEF Known, Over
<1> QED
  BY <1>4, <1>5 DEF Over, more

-----------------------------------------------------------------------------
(* What the updates of a judgment change. *)

\* The policy answers low-risk recommendations that have no response, only.
LEMMA PolicyEffect ==
  ASSUME NEW j \in Judgments
  PROVE  /\ WithPolicy(j) \in Judgments
         /\ WithPolicy(j).card = j.card
         /\ WithPolicy(j).receipts = j.receipts
         /\ \A r \in Recommendations :
              WithPolicy(j).responses[r] =
                IF r \in LowRisk(j.card) /\ j.responses[r] = "none" THEN "auto"
                ELSE j.responses[r]
<1> DEFINE answers == [r \in Recommendations |->
                        IF r \in LowRisk(j.card) /\ j.responses[r] = "none" THEN "auto"
                        ELSE j.responses[r]]
<1>1. answers \in [Recommendations -> Answers]
  BY DEF Judgments, Answers
<1>2. WithPolicy(j) = [j EXCEPT !.responses = answers]
  BY DEF WithPolicy, Judgments
<1> HIDE DEF answers
<1>3. /\ WithPolicy(j) \in Judgments
      /\ WithPolicy(j).card = j.card
      /\ WithPolicy(j).receipts = j.receipts
      /\ WithPolicy(j).responses = answers
  BY <1>1, <1>2 DEF Judgments
<1> QED
  BY <1>3 DEF answers

\* The resolution is derived from what is then in the file.
LEMMA UpdatedEffect ==
  ASSUME NEW j \in Judgments, NEW given \in Evidence, NEW completed \in BOOLEAN
  PROVE  /\ Updated(j, given, completed) \in Judgments
         /\ Updated(j, given, completed).card = j.card
         /\ Updated(j, given, completed).receipts = j.receipts
         /\ Updated(j, given, completed).responses = WithPolicy(j).responses
         /\ Updated(j, given, completed).resolution =
              Derive(Updated(j, given, completed), given, completed)
<1> DEFINE p == WithPolicy(j)
           v == Derive(p, given, completed)
           u == [p EXCEPT !.resolution = v]
<1>1. p \in Judgments /\ p.card = j.card /\ p.receipts = j.receipts
  BY PolicyEffect
<1>2. v \in Verdicts
  BY DEF Derive, Verdicts
<1>3. Updated(j, given, completed) = u
  BY DEF Updated
<1> HIDE DEF p, v
<1>4. /\ u \in Judgments /\ u.card = p.card /\ u.receipts = p.receipts
      /\ u.responses = p.responses /\ u.resolution = v
  BY <1>1, <1>2 DEF Judgments
<1>5. Derive(u, given, completed) = Derive(p, given, completed)
  BY <1>4 DEF Derive, HardBlocker, NeedsReview, NeedsProof
<1> QED
  BY <1>1, <1>3, <1>4, <1>5 DEF p, v

\* The responses after an update, and that of low-risk advice is never missing.
LEMMA UpdatedResponses ==
  ASSUME NEW j \in Judgments, NEW given \in Evidence, NEW completed \in BOOLEAN,
         NEW r \in Recommendations
  PROVE  /\ j.responses[r] # "none" \/ r \notin LowRisk(j.card) =>
              Updated(j, given, completed).responses[r] = j.responses[r]
         /\ j.responses[r] = "none" /\ r \in LowRisk(j.card) =>
              Updated(j, given, completed).responses[r] = "auto"
BY PolicyEffect, UpdatedEffect

-----------------------------------------------------------------------------
(* Every step keeps the invariant. *)

LEMMA InitIInv == Init => IInv
<1> SUFFICES ASSUME Init PROVE IInv
  OBVIOUS
<1>1. Idle \in Commits
  BY NoEvidenceType DEF Idle, Commits
<1>2. NoAnswers \in [Recommendations -> Decisions \cup {"none"}]
  BY DEF NoAnswers
<1>3. Unjudged \notin Judgments
  <2>1. "responses" \notin DOMAIN Unjudged
    BY DEF Unjudged
  <2>2. \A j \in Judgments : "responses" \in DOMAIN j
    BY DEF Judgments
  <2> QED
    BY <2>1, <2>2
<1> QED
  BY <1>1, <1>2, <1>3, NoEvidenceType DEF Init, IInv, TypeOK, Spoken, Gated, Idle

LEMMA RefreshIInv ==
  ASSUME IInv, NEW card \in Cards, Refresh(card)
  PROVE  IInv'
<1> DEFINE base == [card |-> card, responses |-> NoAnswers, receipts |-> <<>>,
                    resolution |-> "review"]
<1>1. base \in Judgments
  BY DEF Judgments, NoAnswers, Answers, Verdicts
<1>2. base.card = card /\ base.responses = NoAnswers
  OBVIOUS
<1>3. judgment' = Updated(base, NoEvidence, FALSE)
  BY DEF Refresh, Fresh
<1> HIDE DEF base
<1>4. judgment' \in Judgments /\ judgment'.card = card
  BY <1>1, <1>2, <1>3, NoEvidenceType, UpdatedEffect
<1>5. TypeOK'
  BY <1>4, NoEvidenceType DEF IInv, TypeOK, Refresh, NoAnswers
<1>6. Spoken'
  <2>1. card.recommendations \subseteq Recommendations
    BY JudgmentShape DEF CardShape
  <2>2. ASSUME NEW r \in card.recommendations
        PROVE  \/ judgment'.responses[r] = "none"
               \/ r \in LowRisk(card) /\ judgment'.responses[r] = "auto"
    <3>1. r \in Recommendations /\ base.responses[r] = "none"
      BY <1>2, <2>1 DEF NoAnswers
    <3>2. /\ r \notin LowRisk(card) => judgment'.responses[r] = "none"
          /\ r \in LowRisk(card) => judgment'.responses[r] = "auto"
      BY <1>1, <1>2, <1>3, <3>1, UpdatedResponses, NoEvidenceType
    <3> QED
      BY <3>2
  <2> QED
    BY <1>4, <2>1, <2>2 DEF Spoken, Refresh, NoAnswers
<1>7. Gated'
  BY DEF Gated, Refresh, Idle
<1> QED
  BY <1>5, <1>6, <1>7 DEF IInv

LEMMA RespondIInv ==
  ASSUME IInv, NEW r \in Recommendations, NEW decision \in Decisions, Respond(r, decision)
  PROVE  IInv'
<1> DEFINE j == [judgment EXCEPT !.responses[r] = decision]
<1>1. judgment \in Judgments
  BY DEF IInv, TypeOK, Respond
<1>2. j \in Judgments /\ j.card = judgment.card
      /\ \A s \in Recommendations : j.responses[s] = IF s = r THEN decision ELSE judgment.responses[s]
  BY <1>1 DEF Judgments, Answers, Decisions
<1>3. judgment' = Updated(j, NoEvidence, FALSE)
  BY DEF Respond, RespondTo
<1> HIDE DEF j
<1>4. judgment' \in Judgments /\ judgment'.card = judgment.card
  BY <1>2, <1>3, NoEvidenceType, UpdatedEffect
<1>5. TypeOK'
  BY <1>4 DEF IInv, TypeOK, Respond
<1>6. Spoken'
  <2>1. judgment.card.recommendations \subseteq Recommendations
    BY <1>1, JudgmentShape DEF CardShape, Judgments
  <2> SUFFICES ASSUME NEW s \in judgment.card.recommendations
               PROVE  \/ judgment'.responses[s] = said'[s]
                      \/ /\ said'[s] = "none" /\ judgment'.responses[s] = "auto"
                         /\ s \in LowRisk(judgment.card)
    BY <1>4 DEF Spoken
  <2>2. \/ judgment'.responses[s] = j.responses[s]
        \/ /\ j.responses[s] = "none" /\ judgment'.responses[s] = "auto"
           /\ s \in LowRisk(judgment.card)
    BY <1>2, <1>3, <2>1, UpdatedResponses, NoEvidenceType
  <2>3. \/ j.responses[s] = said'[s]
        \/ /\ said'[s] = "none" /\ j.responses[s] = "auto"
           /\ s \in LowRisk(judgment.card)
    BY <1>1, <1>2, <2>1 DEF IInv, TypeOK, Spoken, Respond
  <2> QED
    BY <2>2, <2>3
<1>7. Gated'
  BY DEF Gated, Respond, Idle
<1> QED
  BY <1>5, <1>6, <1>7 DEF IInv

LEMMA FinalCommitIInv ==
  ASSUME IInv, NEW given \in Evidence, NEW completed \in BOOLEAN, FinalCommit(given, completed)
  PROVE  IInv'
<1>1. judgment \in Judgments
  BY DEF IInv, TypeOK, FinalCommit
<1>2. judgment' = Updated(judgment, given, completed)
  BY DEF FinalCommit
<1>3. /\ judgment' \in Judgments /\ judgment'.card = judgment.card
      /\ judgment'.resolution = Derive(judgment', given, completed)
  BY <1>1, <1>2, UpdatedEffect
<1>4. TypeOK'
  <2>1. judgment' \in Judgments /\ said' = said /\ kept' = kept
    BY <1>3 DEF FinalCommit
  <2>2. commit' \in Commits
    BY DEF IInv, TypeOK, FinalCommit, Commits
  <2>3. lost' \subseteq Checks
    BY DEF IInv, TypeOK, FinalCommit, Forgotten, Failures
  <2> QED
    BY <2>1, <2>2, <2>3 DEF IInv, TypeOK
<1>5. Spoken'
  <2>1. judgment.card.recommendations \subseteq Recommendations
    BY <1>1, JudgmentShape DEF CardShape, Judgments
  <2> SUFFICES ASSUME NEW s \in judgment.card.recommendations
               PROVE  \/ judgment'.responses[s] = said[s]
                      \/ /\ said[s] = "none" /\ judgment'.responses[s] = "auto"
                         /\ s \in LowRisk(judgment.card)
    BY <1>3 DEF Spoken, FinalCommit
  <2>2. \/ judgment'.responses[s] = judgment.responses[s]
        \/ /\ judgment.responses[s] = "none" /\ judgment'.responses[s] = "auto"
           /\ s \in LowRisk(judgment.card)
    BY <1>1, <1>2, <2>1, UpdatedResponses
  <2> QED
    BY <1>1, <2>2 DEF IInv, Spoken
<1>6. Gated'
  <2>1. CASE completed /\ judgment'.resolution # "yes"
    <3>1. commit' = Idle
      BY <1>2, <2>1 DEF FinalCommit
    <3> QED
      BY <3>1 DEF Gated, Idle
  <2>2. CASE ~(completed /\ judgment'.resolution # "yes")
    <3>1. commit' = [at |-> "guarded", completed |-> completed, evidence |-> given]
      BY <1>2, <2>2 DEF FinalCommit
    <3> QED
      BY <1>3, <2>2, <3>1 DEF Gated
  <2> QED
    BY <2>1, <2>2
<1> QED
  BY <1>4, <1>5, <1>6 DEF IInv

\* A close adds a receipt, unless there is no response to keep it.
LEMMA ClosedEffect ==
  ASSUME NEW j \in Judgments, NEW given \in Evidence, NEW completed \in BOOLEAN
  PROVE  /\ Closed(j, given, completed) \in Judgments
         /\ Closed(j, given, completed).card = j.card
         /\ \A r \in Recommendations :
              \/ Closed(j, given, completed).responses[r] = j.responses[r]
              \/ /\ j.responses[r] = "none" /\ r \in LowRisk(j.card)
                 /\ Closed(j, given, completed).responses[r] = "auto"
         /\ \/ /\ Answered(WithPolicy(j)) = {}
               /\ Closed(j, given, completed).receipts = j.receipts
            \/ /\ Answered(WithPolicy(j)) # {}
               /\ \E e \in Receipts :
                    /\ e.evidence = given
                    /\ Closed(j, given, completed).receipts = Append(j.receipts, e)
<1> DEFINE a  == WithPolicy(j)
           e  == [of |-> Answered(a), evidence |-> given, success |-> completed]
           rs == IF Answered(a) = {} THEN a.receipts ELSE Append(a.receipts, e)
           k  == [a EXCEPT !.receipts = rs]
<1>1. /\ a \in Judgments /\ a.card = j.card /\ a.receipts = j.receipts
      /\ \A r \in Recommendations : a.responses[r] =
           IF r \in LowRisk(j.card) /\ j.responses[r] = "none" THEN "auto" ELSE j.responses[r]
  BY PolicyEffect
<1>2. j.card.recommendations \subseteq Recommendations
  BY JudgmentShape DEF CardShape, Judgments
<1>3. Answered(a) \subseteq Recommendations
  BY <1>1, <1>2 DEF Answered
<1>4. e \in Receipts /\ e.evidence = given
  BY <1>3 DEF Receipts
<1>5. Answered(a) = {} => rs = j.receipts
  BY <1>1
<1>6. Closed(j, given, completed) = Updated(k, given, completed)
  BY DEF Closed
<1>7. rs \in Seq(Receipts)
  BY <1>1, <1>4 DEF Judgments
<1>8. \/ Answered(WithPolicy(j)) = {} /\ rs = j.receipts
      \/ Answered(WithPolicy(j)) # {} /\ rs = Append(j.receipts, e)
  BY <1>1, <1>5
<1> HIDE DEF a, e, rs
<1>9. k \in Judgments /\ k.card = a.card /\ k.responses = a.responses /\ k.receipts = rs
  BY <1>1, <1>7 DEF Judgments
<1> HIDE DEF k
<1>10. /\ Updated(k, given, completed) \in Judgments
       /\ Updated(k, given, completed).card = j.card
       /\ Updated(k, given, completed).receipts = rs
  BY <1>1, <1>9, UpdatedEffect
<1>11. ASSUME NEW r \in Recommendations
       PROVE  \/ Updated(k, given, completed).responses[r] = j.responses[r]
              \/ /\ j.responses[r] = "none" /\ r \in LowRisk(j.card)
                 /\ Updated(k, given, completed).responses[r] = "auto"
  <2>1. \/ Updated(k, given, completed).responses[r] = a.responses[r]
        \/ /\ a.responses[r] = "none" /\ r \in LowRisk(j.card)
           /\ Updated(k, given, completed).responses[r] = "auto"
    BY <1>1, <1>9, UpdatedResponses
  <2> QED
    BY <1>1, <2>1
<1> QED
  BY <1>4, <1>6, <1>8, <1>10, <1>11

LEMMA CloseIInv ==
  ASSUME IInv, Close
  PROVE  IInv'
<1>1. /\ judgment \in Judgments /\ commit.evidence \in Evidence /\ commit.completed \in BOOLEAN
      /\ judgment' = Closed(judgment, commit.evidence, commit.completed)
  BY DEF IInv, TypeOK, Commits, Gated, Close
<1>2. /\ judgment' \in Judgments /\ judgment'.card = judgment.card
      /\ \A r \in Recommendations :
           \/ judgment'.responses[r] = judgment.responses[r]
           \/ /\ judgment.responses[r] = "none" /\ r \in LowRisk(judgment.card)
              /\ judgment'.responses[r] = "auto"
  BY <1>1, ClosedEffect
<1>3. TypeOK'
  BY <1>1, <1>2, OverType, NoEvidenceType DEF IInv, TypeOK, Close, Idle, Commits
<1>4. Spoken'
  <2>1. judgment.card.recommendations \subseteq Recommendations
    BY <1>1, JudgmentShape DEF CardShape, Judgments
  <2> QED
    BY <1>1, <1>2, <2>1 DEF IInv, Spoken, Close
<1>5. Gated'
  BY DEF Gated, Close, Idle
<1> QED
  BY <1>3, <1>4, <1>5 DEF IInv

\* The steps that leave the judgment alone.
LEMMA OtherIInv ==
  ASSUME IInv,
         \/ \E given \in Evidence, completed \in BOOLEAN : PhaseCommit(given, completed)
         \/ Finish \/ Stop \/ UNCHANGED vars
  PROVE  IInv'
<1>1. judgment' = judgment /\ said' = said /\ kept' = kept /\ lost' \subseteq Checks
  BY DEF IInv, TypeOK, PhaseCommit, Finish, Stop, Forgotten, Failures, vars
<1>2. commit' \in Commits
  <2>1. CASE \E given \in Evidence, completed \in BOOLEAN : PhaseCommit(given, completed)
    BY <2>1 DEF PhaseCommit, Commits
  <2>2. CASE Finish
    BY <2>2 DEF IInv, TypeOK, Finish, Commits
  <2>3. CASE Stop
    BY <2>3, NoEvidenceType DEF Stop, Idle, Commits
  <2>4. CASE UNCHANGED vars
    BY <2>4 DEF IInv, TypeOK, vars
  <2> QED
    BY <2>1, <2>2, <2>3, <2>4
<1>3. TypeOK' /\ Spoken'
  BY <1>1, <1>2 DEF IInv, TypeOK, Spoken
<1>4. Gated'
  <2>1. CASE \E given \in Evidence, completed \in BOOLEAN : PhaseCommit(given, completed)
    BY <1>1, <2>1 DEF IInv, TypeOK, Gated, PhaseCommit
  <2>2. CASE Finish
    BY <1>1, <2>2 DEF IInv, TypeOK, Commits, Gated, Finish
  <2>3. CASE Stop
    BY <1>1, <2>3 DEF Gated, Stop, Idle
  <2>4. CASE UNCHANGED vars
    BY <2>4 DEF IInv, Gated, vars
  <2> QED
    BY <2>1, <2>2, <2>3, <2>4
<1> QED
  BY <1>3, <1>4 DEF IInv

LEMMA NextIInv == IInv /\ [Next]_vars => IInv'
<1> SUFFICES ASSUME IInv, [Next]_vars PROVE IInv'
  OBVIOUS
<1>1. CASE \E card \in Cards : Refresh(card)
  BY <1>1, RefreshIInv
<1>2. CASE \E r \in Recommendations, decision \in Decisions : Respond(r, decision)
  BY <1>2, RespondIInv
<1>3. CASE \E given \in Evidence, completed \in BOOLEAN : FinalCommit(given, completed)
  BY <1>3, FinalCommitIInv
<1>4. CASE Close
  BY <1>4, CloseIInv
<1>5. CASE \/ \E given \in Evidence, completed \in BOOLEAN : PhaseCommit(given, completed)
           \/ Finish \/ Stop \/ UNCHANGED vars
  BY <1>5, OtherIInv
<1> QED
  BY <1>1, <1>2, <1>3, <1>4, <1>5 DEF Next

LEMMA Always == Spec => []IInv
  BY InitIInv, NextIInv, PTL DEF Spec

-----------------------------------------------------------------------------
(* Types, and what clears a refusal. *)

\* The judgment, the commit under way and the histories are well formed.
THEOREM JudgmentTypes == Spec => []TypeOK
<1>1. IInv => TypeOK
  BY DEF IInv
<1> QED
  BY Always, <1>1, PTL

\* A refused final-commit can be cleared: accepting every recommendation and
\* attaching a pass of every check makes the next one go through, whatever was
\* answered or reported before.
THEOREM Clearable == Spec => []RefusalCanBeCleared
<1>1. ASSUME IInv PROVE RefusalCanBeCleared
  <2> DEFINE answered == [judgment EXCEPT !.responses =
                           [r \in Recommendations |->
                              IF r \in judgment.card.recommendations THEN "accepted" ELSE @[r]]]
             passes == [c \in Checks |-> "passed"]
             known == Known(answered.receipts, passes)
  <2> SUFFICES ASSUME judgment # Unjudged,
                      {} \notin judgment.card.signals \cup judgment.card.actions,
                      Checks # {}
               PROVE  Derive(answered, passes, TRUE) = "yes"
    BY DEF RefusalCanBeCleared
  <2>1. judgment \in Judgments
    BY <1>1 DEF IInv, TypeOK
  <2>2. /\ CardShape(judgment.card)
        /\ answered.card = judgment.card
        /\ \A r \in judgment.card.recommendations : answered.responses[r] = "accepted"
    BY <2>1, JudgmentShape DEF Judgments, CardShape
  <2>3. known = passes
    BY DEF Known, Over
  <2> HIDE DEF answered, known
  <2>4. Passed(known) = Checks
    BY <2>3 DEF Passed
  <2>5. \A proof \in judgment.card.signals \cup judgment.card.actions : proof \cap Checks # {}
    <3> SUFFICES ASSUME NEW proof \in judgment.card.signals \cup judgment.card.actions
                 PROVE  proof \cap Checks # {}
      OBVIOUS
    <3>1. proof # {}
      OBVIOUS
    <3>2. proof \subseteq Checks
      BY <2>2 DEF CardShape
    <3> QED
      BY <3>1, <3>2
  <2>6. ~HardBlocker(answered, known)
    BY <2>2, <2>3 DEF HardBlocker
  <2>7. ~NeedsReview(answered, known)
    BY <2>2, <2>4, <2>5 DEF NeedsReview
  <2>8. ~NeedsProof(answered, known, TRUE)
    BY <2>2, <2>4, <2>5 DEF NeedsProof
  <2> QED
    BY <2>6, <2>7, <2>8 DEF Derive, known
<1> QED
  BY Always, <1>1, PTL

-----------------------------------------------------------------------------
(* Authority. *)

LEMMA CompletionIsGated ==
  ASSUME IInv, Completes
  PROVE  /\ judgment \in Judgments /\ commit.evidence \in Evidence
         /\ LET known == Known(judgment.receipts, commit.evidence)
            IN  /\ ~HardBlocker(judgment, known)
                /\ ~NeedsReview(judgment, known)
                /\ ~NeedsProof(judgment, known, TRUE)
<1>1. judgment \in Judgments /\ commit.evidence \in Evidence
  BY DEF IInv, TypeOK, Commits, Gated, Completes
<1>2. Derive(judgment, commit.evidence, TRUE) = "yes"
  BY DEF IInv, Gated, Completes
<1> QED
  BY <1>1, <1>2 DEF Derive

\* A workflow is only completed on explicit authority under its card.
THEOREM Authority == Spec => AuthorityIsExplicit
<1> DEFINE Entitled == \A r \in judgment.card.recommendations :
      /\ said[r] # "blocked"
      /\ judgment.card.severity[r] \in {"risk", "block"} => said[r] \in {"accepted", "modified"}
<1>1. ASSUME IInv, Completes PROVE Entitled
  <2> SUFFICES ASSUME NEW r \in judgment.card.recommendations
               PROVE  /\ said[r] # "blocked"
                      /\ judgment.card.severity[r] \in {"risk", "block"} =>
                           said[r] \in {"accepted", "modified"}
    OBVIOUS
  <2>1. judgment \in Judgments /\ r \in Recommendations
    BY <1>1, CompletionIsGated, JudgmentShape DEF CardShape, Judgments
  <2>2. /\ judgment.responses[r] # "blocked"
        /\ judgment.card.severity[r] \in {"risk", "block"} =>
             judgment.responses[r] \notin {"none", "ignored"}
    BY <1>1, CompletionIsGated DEF HardBlocker, NeedsReview
  <2>3. \/ judgment.responses[r] = said[r]
        \/ said[r] = "none" /\ r \in LowRisk(judgment.card)
    BY <1>1, <2>1 DEF IInv, Spoken
  <2>4. said[r] \in Decisions \cup {"none"}
    BY <1>1, <2>1 DEF IInv, TypeOK
  <2> QED
    BY <2>1, <2>2, <2>3, <2>4 DEF LowRisk, Decisions
<1>2. IInv /\ [Next]_vars => [Completes => Entitled]_vars
  BY <1>1
<1> QED
  BY Always, <1>2, PTL DEF Spec, AuthorityIsExplicit

-----------------------------------------------------------------------------
(* Evidence over commits. *)

LEMMA KnownType ==
  ASSUME NEW receipts \in Seq(Receipts), NEW given \in Evidence
  PROVE  Known(receipts, given) \in Evidence
<1>1. [c \in Checks |-> IF \E s \in Standings \ {"none"} : Latest(receipts, c, s)
                         THEN CHOOSE s \in Standings \ {"none"} : Latest(receipts, c, s)
                         ELSE "none"] \in Evidence
  BY DEF Evidence, Standings
<1> QED
  BY <1>1, OverType DEF Known

LEMMA InitOnRecord == Init => OnRecord
<1>1. ASSUME Init PROVE kept = NoEvidence /\ judgment \notin Judgments
  <2>1. "responses" \notin DOMAIN Unjudged
    BY DEF Unjudged
  <2>2. \A j \in Judgments : "responses" \in DOMAIN j
    BY DEF Judgments
  <2> QED
    BY <1>1, <2>1, <2>2 DEF Init
<1> QED
  BY <1>1 DEF OnRecord

\* What is known after a close whose evidence is held: what it reported, over
\* what was known.
LEMMA ClosedKnown ==
  ASSUME NEW j \in Judgments, NEW given \in Evidence, NEW completed \in BOOLEAN,
         Answered(WithPolicy(j)) # {} \/ given = NoEvidence
  PROVE  Known(Closed(j, given, completed).receipts, NoEvidence) =
           Over(Known(j.receipts, NoEvidence), given)
<1>1. j.receipts \in Seq(Receipts)
  BY DEF Judgments
<1>2. CASE \E e \in Receipts :
             /\ e.evidence = given
             /\ Closed(j, given, completed).receipts = Append(j.receipts, e)
  BY <1>1, <1>2, KnownAppend
<1>3. CASE given = NoEvidence /\ Closed(j, given, completed).receipts = j.receipts
  BY <1>1, <1>3, KnownType, OverNothing
<1> QED
  BY <1>2, <1>3, ClosedEffect

LEMMA NextOnRecord ==
  ASSUME EvidenceIsHeld, IInv, OnRecord, [Next]_vars
  PROVE  OnRecord'
<1>1. CASE \E card \in Cards : Refresh(card)
  <2>1. PICK card \in Cards : Refresh(card)
    BY <1>1
  <2> DEFINE base == [card |-> card, responses |-> NoAnswers, receipts |-> <<>>,
                      resolution |-> "review"]
  <2>2. base \in Judgments /\ base.receipts = <<>>
    BY DEF Judgments, NoAnswers, Answers, Verdicts
  <2>3. judgment' = Updated(base, NoEvidence, FALSE) /\ kept' = NoEvidence
    BY <2>1 DEF Refresh, Fresh
  <2> HIDE DEF base
  <2>4. judgment'.receipts = <<>>
    BY <2>2, <2>3, NoEvidenceType, UpdatedEffect
  <2> QED
    BY <2>3, <2>4, KnownOfNone DEF OnRecord
<1>2. CASE \E r \in Recommendations, decision \in Decisions : Respond(r, decision)
  <2>1. PICK r \in Recommendations, decision \in Decisions : Respond(r, decision)
    BY <1>2
  <2> DEFINE j == [judgment EXCEPT !.responses[r] = decision]
  <2>2. judgment \in Judgments
    BY <2>1 DEF IInv, TypeOK, Respond
  <2>3. j \in Judgments /\ j.receipts = judgment.receipts
    BY <2>2 DEF Judgments, Answers, Decisions
  <2>4. judgment' = Updated(j, NoEvidence, FALSE) /\ kept' = kept
    BY <2>1 DEF Respond, RespondTo
  <2> HIDE DEF j
  <2>5. judgment'.receipts = judgment.receipts
    BY <2>3, <2>4, NoEvidenceType, UpdatedEffect
  <2> QED
    BY <2>2, <2>4, <2>5 DEF OnRecord
<1>3. CASE \E given \in Evidence, completed \in BOOLEAN : FinalCommit(given, completed)
  <2>1. PICK given \in Evidence, completed \in BOOLEAN : FinalCommit(given, completed)
    BY <1>3
  <2>2. judgment \in Judgments /\ kept' = kept
    BY <2>1 DEF IInv, TypeOK, FinalCommit
  <2>3. judgment'.receipts = judgment.receipts
    BY <2>1, <2>2, UpdatedEffect DEF FinalCommit
  <2> QED
    BY <2>2, <2>3 DEF OnRecord
<1>4. CASE Close
  <2>1. /\ judgment \in Judgments /\ commit.evidence \in Evidence /\ commit.completed \in BOOLEAN
        /\ judgment' = Closed(judgment, commit.evidence, commit.completed)
        /\ kept' = Over(kept, commit.evidence)
    BY <1>4 DEF IInv, TypeOK, Commits, Gated, Close
  <2>2. Answered(WithPolicy(judgment)) # {} \/ commit.evidence = NoEvidence
    BY <1>4 DEF EvidenceIsHeld, Close
  <2>3. Known(judgment'.receipts, NoEvidence) =
          Over(Known(judgment.receipts, NoEvidence), commit.evidence)
    BY <2>1, <2>2, ClosedKnown
  <2> QED
    BY <2>1, <2>3 DEF OnRecord
<1>5. CASE \/ \E given \in Evidence, completed \in BOOLEAN : PhaseCommit(given, completed)
           \/ Finish \/ Stop \/ UNCHANGED vars
  <2>1. judgment' = judgment /\ kept' = kept
    BY <1>5 DEF PhaseCommit, Finish, Stop, vars
  <2> QED
    BY <2>1 DEF OnRecord
<1> QED
  BY <1>1, <1>2, <1>3, <1>4, <1>5 DEF Next

LEMMA AlwaysOnRecord == Spec /\ []EvidenceIsHeld => [](IInv /\ OnRecord)
<1>1. EvidenceIsHeld /\ IInv /\ OnRecord /\ [Next]_vars => (IInv /\ OnRecord)'
  BY NextIInv, NextOnRecord
<1> QED
  BY InitIInv, InitOnRecord, <1>1, PTL DEF Spec

\* What a final-commit goes by is what commits that went through reported, the
\* evidence it is given counted last.
LEMMA KeptIsKnown ==
  ASSUME IInv, OnRecord, Completes
  PROVE  Known(judgment.receipts, commit.evidence) = Over(kept, commit.evidence)
<1>1. judgment.receipts \in Seq(Receipts) /\ judgment \in Judgments /\ commit.evidence \in Evidence
  BY CompletionIsGated DEF Judgments
<1> QED
  BY <1>1, KnownGiven DEF OnRecord

\* A check that a commit which went through last reported as failed stops every
\* final-commit, wherever each of them found a response to be kept on.  There
\* are two ways past a failure: a commit that closes before anybody answered,
\* which the condition rules out, and one that does not go through, which the
\* property does not speak of; FailuresAlwaysStop does.
THEOREM FailuresStop == Spec /\ []EvidenceIsHeld => FailedEvidenceStops
<1> DEFINE Sound == \A c \in Checks : Over(kept, commit.evidence)[c] # "failed"
<1>1. ASSUME IInv, OnRecord, Completes PROVE Sound
  BY <1>1, CompletionIsGated, KeptIsKnown DEF HardBlocker
<1>2. IInv /\ OnRecord /\ [Next]_vars => [Completes => Sound]_vars
  BY <1>1
<1> QED
  BY AlwaysOnRecord, <1>2, PTL DEF Spec, FailedEvidenceStops

-----------------------------------------------------------------------------
(* What is on record, whether or not every report found a response. *)

\* Reports that found no response came before all that are on record: a receipt
\* tells what commits that went through last reported of its checks.
Recorded ==
  judgment \in Judgments =>
    /\ \A c \in Checks : Known(judgment.receipts, NoEvidence)[c] # "none" =>
                         kept[c] = Known(judgment.receipts, NoEvidence)[c]
    /\ judgment.receipts # <<>> => Answered(WithPolicy(judgment)) # {}

\* Responses are replaced, never taken back.
LEMMA AnswersStay ==
  ASSUME NEW j \in Judgments, NEW k \in Judgments, k.card = j.card,
         \A r \in Recommendations : WithPolicy(j).responses[r] # "none" =>
            k.responses[r] # "none" \/ k.responses[r] = j.responses[r],
         Answered(WithPolicy(j)) # {}
  PROVE  Answered(WithPolicy(k)) # {}
<1>1. PICK r \in WithPolicy(j).card.recommendations : WithPolicy(j).responses[r] # "none"
  BY DEF Answered
<1>2. r \in k.card.recommendations /\ r \in Recommendations
  BY <1>1, PolicyEffect, JudgmentShape DEF CardShape, Judgments
<1>3. WithPolicy(k).responses[r] # "none"
  BY <1>1, <1>2, PolicyEffect
<1> QED
  BY <1>2, <1>3, PolicyEffect DEF Answered

LEMMA InitRecorded == Init => Recorded
<1>1. ASSUME Init PROVE judgment \notin Judgments
  <2>1. "responses" \notin DOMAIN Unjudged
    BY DEF Unjudged
  <2>2. \A j \in Judgments : "responses" \in DOMAIN j
    BY DEF Judgments
  <2> QED
    BY <1>1, <2>1, <2>2 DEF Init
<1> QED
  BY <1>1 DEF Recorded

LEMMA NextRecorded ==
  ASSUME IInv, Recorded, [Next]_vars
  PROVE  Recorded'
<1>1. CASE \E card \in Cards : Refresh(card)
  <2>1. PICK card \in Cards : Refresh(card)
    BY <1>1
  <2> DEFINE base == [card |-> card, responses |-> NoAnswers, receipts |-> <<>>,
                      resolution |-> "review"]
  <2>2. base \in Judgments /\ base.receipts = <<>>
    BY DEF Judgments, NoAnswers, Answers, Verdicts
  <2>3. judgment' = Updated(base, NoEvidence, FALSE)
    BY <2>1 DEF Refresh, Fresh
  <2> HIDE DEF base
  <2>4. judgment'.receipts = <<>>
    BY <2>2, <2>3, NoEvidenceType, UpdatedEffect
  <2> QED
    BY <2>4, KnownOfNone DEF Recorded, NoEvidence
<1>2. CASE \E r \in Recommendations, decision \in Decisions : Respond(r, decision)
  <2>1. PICK r \in Recommendations, decision \in Decisions : Respond(r, decision)
    BY <1>2
  <2> DEFINE j == [judgment EXCEPT !.responses[r] = decision]
  <2>2. judgment \in Judgments
    BY <2>1 DEF IInv, TypeOK, Respond
  <2>3. /\ j \in Judgments /\ j.receipts = judgment.receipts /\ j.card = judgment.card
        /\ \A q \in Recommendations :
             j.responses[q] = judgment.responses[q] \/ j.responses[q] # "none"
    BY <2>2 DEF Judgments, Answers, Decisions
  <2>4. judgment' = Updated(j, NoEvidence, FALSE) /\ kept' = kept
    BY <2>1 DEF Respond, RespondTo
  <2> HIDE DEF j
  <2>5. /\ judgment' \in Judgments /\ judgment'.card = j.card
        /\ judgment'.receipts = judgment.receipts
        /\ judgment'.responses = WithPolicy(j).responses
    BY <2>3, <2>4, NoEvidenceType, UpdatedEffect
  <2>6. \A q \in Recommendations :
          judgment'.responses[q] # "none" \/ judgment'.responses[q] = judgment.responses[q]
    BY <2>3, <2>5, PolicyEffect
  <2>7. Answered(WithPolicy(judgment)) # {} => Answered(WithPolicy(judgment')) # {}
    BY <2>2, <2>3, <2>5, <2>6, AnswersStay
  <2>8. Answered(WithPolicy(judgment')) = Answered(WithPolicy(judgment))'
    OBVIOUS
  <2> QED
    BY <2>2, <2>4, <2>5, <2>7 DEF Recorded
<1>3. CASE \E given \in Evidence, completed \in BOOLEAN : FinalCommit(given, completed)
  <2>1. PICK given \in Evidence, completed \in BOOLEAN : FinalCommit(given, completed)
    BY <1>3
  <2>2. judgment \in Judgments /\ kept' = kept /\ judgment' = Updated(judgment, given, completed)
    BY <2>1 DEF IInv, TypeOK, FinalCommit
  <2>3. /\ judgment' \in Judgments /\ judgment'.card = judgment.card
        /\ judgment'.receipts = judgment.receipts
        /\ judgment'.responses = WithPolicy(judgment).responses
    BY <2>2, UpdatedEffect
  <2>4. Answered(WithPolicy(judgment)) # {} => Answered(WithPolicy(judgment')) # {}
    BY <2>2, <2>3, AnswersStay
  <2> QED
    BY <2>2, <2>3, <2>4 DEF Recorded
<1>4. CASE Close
  <2> DEFINE given == commit.evidence
  <2>1. /\ judgment \in Judgments /\ given \in Evidence /\ commit.completed \in BOOLEAN
        /\ judgment' = Closed(judgment, given, commit.completed)
        /\ kept' = Over(kept, given) /\ kept \in Evidence
    BY <1>4 DEF IInv, TypeOK, Commits, Gated, Close
  <2>2. /\ judgment' \in Judgments /\ judgment'.card = judgment.card
        /\ \A r \in Recommendations :
             judgment'.responses[r] # "none" \/ judgment'.responses[r] = judgment.responses[r]
    BY <2>1, ClosedEffect
  <2>3. Answered(WithPolicy(judgment)) # {} => Answered(WithPolicy(judgment')) # {}
    BY <2>1, <2>2, AnswersStay
  <2>4. CASE Answered(WithPolicy(judgment)) = {}
    <3>1. judgment'.receipts = judgment.receipts /\ judgment.receipts = <<>>
      BY <2>1, <2>4, ClosedEffect DEF Recorded
    <3> QED
      BY <3>1, KnownOfNone DEF Recorded, NoEvidence
  <2>5. CASE Answered(WithPolicy(judgment)) # {}
    <3>1. Known(judgment'.receipts, NoEvidence) = Over(Known(judgment.receipts, NoEvidence), given)
      BY <2>1, <2>5, ClosedKnown
    <3>2. ASSUME NEW c \in Checks, Known(judgment'.receipts, NoEvidence)[c] # "none"
          PROVE  kept'[c] = Known(judgment'.receipts, NoEvidence)[c]
      BY <2>1, <3>1, <3>2 DEF Over, Recorded
    <3> QED
      BY <2>3, <2>5, <3>2 DEF Recorded
  <2> QED
    BY <2>4, <2>5
<1>5. CASE \/ \E given \in Evidence, completed \in BOOLEAN : PhaseCommit(given, completed)
           \/ Finish \/ Stop \/ UNCHANGED vars
  <2>1. judgment' = judgment /\ kept' = kept
    BY <1>5 DEF PhaseCommit, Finish, Stop, vars
  <2> QED
    BY <2>1 DEF Recorded
<1> QED
  BY <1>1, <1>2, <1>3, <1>4, <1>5 DEF Next

\* The required actions of the card were last reported as passed, by the commit
\* that completes the workflow or by those that went through.  No condition is
\* needed: a report that is kept nowhere came before all that prove an action.
THEOREM ActionsProved == Spec => ActionsAreProved
<1> DEFINE Proved == \A action \in judgment.card.actions :
                      \E c \in action : Over(kept, commit.evidence)[c] = "passed"
<1>1. ASSUME IInv, Recorded, Completes PROVE Proved
  <2> SUFFICES ASSUME NEW action \in judgment.card.actions
               PROVE  \E c \in action : Over(kept, commit.evidence)[c] = "passed"
    OBVIOUS
  <2>1. /\ judgment \in Judgments /\ commit.evidence \in Evidence
        /\ judgment.receipts \in Seq(Receipts)
    BY <1>1, CompletionIsGated DEF Judgments
  <2>2. PICK c \in action : c \in Passed(Known(judgment.receipts, commit.evidence))
    BY <1>1, CompletionIsGated DEF NeedsProof
  <2>3. /\ c \in Checks
        /\ Over(Known(judgment.receipts, NoEvidence), commit.evidence)[c] = "passed"
    BY <2>1, <2>2, KnownGiven DEF Passed
  <2>4. Over(kept, commit.evidence)[c] = "passed"
    BY <1>1, <2>1, <2>3 DEF Over, Recorded
  <2> QED
    BY <2>4
<1>2. IInv /\ Recorded /\ [Next]_vars => [Completes => Proved]_vars
  BY <1>1
<1>3. IInv /\ Recorded /\ [Next]_vars => Recorded'
  BY NextRecorded
<1> QED
  BY Always, InitRecorded, <1>2, <1>3, PTL DEF Spec, ActionsAreProved

-----------------------------------------------------------------------------
\* What was reported as failed by a commit that did not go through is reported
\* of again, by one that did or by the one that completes the workflow.
FailuresAreToldAgain == [][Completes => lost \subseteq Told(commit.evidence)]_vars

\* Failed evidence is a hard stop as the README has it, where the evidence of
\* the commits that closed was kept and the failures of those that did not go
\* through are reported of again.  The run judgment_forgets shows a workflow
\* completed where they were not.
THEOREM FailuresHold ==
  Spec /\ []EvidenceIsHeld /\ FailuresAreToldAgain => FailuresAlwaysStop
<1> DEFINE Again == lost \subseteq Told(commit.evidence)
           Safe  == \A c \in Checks :
             IF commit.evidence[c] = "none" THEN c \notin lost /\ kept[c] # "failed"
             ELSE commit.evidence[c] # "failed"
<1>1. ASSUME IInv, OnRecord, Completes, Again PROVE Safe
  <2> SUFFICES ASSUME NEW c \in Checks
               PROVE  IF commit.evidence[c] = "none" THEN c \notin lost /\ kept[c] # "failed"
                      ELSE commit.evidence[c] # "failed"
    OBVIOUS
  <2>1. Over(kept, commit.evidence)[c] # "failed"
    BY <1>1, CompletionIsGated, KeptIsKnown DEF HardBlocker
  <2>2. commit.evidence[c] = "none" => c \notin lost
    BY <1>1 DEF Told
  <2> QED
    BY <2>1, <2>2 DEF Over
<1>2. IInv /\ OnRecord /\ [Next]_vars /\ [Completes => Again]_vars => [Completes => Safe]_vars
  BY <1>1
<1> QED
  BY AlwaysOnRecord, <1>2, PTL DEF Spec, FailuresAlwaysStop, FailuresAreToldAgain

\* If every card has low-risk advice, the policy answers it before a commit
\* closes: the evidence of every commit that closes is kept, and FailuresStop holds
\* without a condition on what commits do.
THEOREM AdviceHoldsEvidence ==
  ASSUME Advised
  PROVE  Spec => []EvidenceIsHeld /\ FailedEvidenceStops
<1>1. IInv => EvidenceIsHeld
  <2> SUFFICES ASSUME IInv, commit.at = "closing"
               PROVE  Answered(WithPolicy(judgment)) # {}
    BY DEF EvidenceIsHeld
  <2>1. judgment \in Judgments
    BY DEF IInv, Gated
  <2>2. PICK r : r \in LowRisk(judgment.card)
    BY <2>1 DEF Advised, Judgments
  <2>3. r \in Recommendations /\ r \in judgment.card.recommendations
    BY <2>1, <2>2, JudgmentShape DEF LowRisk, CardShape, Judgments
  <2>4. WithPolicy(judgment).card = judgment.card /\ WithPolicy(judgment).responses[r] # "none"
    BY <2>1, <2>2, <2>3, PolicyEffect
  <2> QED
    BY <2>3, <2>4 DEF Answered
<1> QED
  BY <1>1, Always, FailuresStop, PTL
=============================================================================

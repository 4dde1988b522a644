----------------------------- MODULE WorkerTrust -----------------------------
(***************************************************************************)
(* Reviewed trust of one worker in one low-risk category.  `workers trust  *)
(* candidate` asks for a promotion when the evidence qualifies; `workers   *)
(* trust review` records a human's answer and then writes the trust event; *)
(* `workers execute` goes without an approval receipt when the event and   *)
(* the answer on record delegate exactly what is executed.  The commands   *)
(* are processes that share files and hold no lock.                        *)
(* The event file is the default one.  Asking is one step here: its writes *)
(* are those of DecisionRequests.                                          *)
(***************************************************************************)
EXTENDS Naturals, FiniteSets

CONSTANTS
  TrustUsers,   \* processes
  Profiles,     \* contents of the worker's profile file
  Ceiling,      \* the paths a profile may write
  Paths,
  NoFile,       \* no profile, event or answer that can be read
  MaxGrant,     \* 90 days
  MaxSamples,   \* bound: changes of the evidence
  TrustBudget   \* bound: commands started, edits of the profile, changes of the
                \* evidence and days that pass

ASSUME TrustShape ==
  /\ Ceiling \in [Profiles -> SUBSET Paths]
  /\ NoFile \notin Profiles
  /\ MaxGrant \in Nat \ {0} /\ MaxSamples \in Nat

\* What the evidence qualifies for.
Levels == {"none", "advisory", "delegated"}

\* A request, by its fingerprint.
Asks == [hash : Profiles, target : Levels \ {"none"}, refs : 0 .. MaxSamples]

\* Answers of a review that write an event.
Reviewed     == {"approve", "demote"}
TrustChoices == Reviewed \cup {"keep_supervised"}

VARIABLES
  profile,  \* .snipara/workers/<worker>.json
  evidence, \* receipts and their reviews: what they qualify for, and their number
  pending,  \* requests that wait for an answer
  answers,  \* the answer on record of each request
  event,    \* .snipara/worker-trust/<worker>/<category>.json
  trustee,  \* what each process is doing
  day,
  grants    \* auxiliary: what humans approved, and what went wrong

trustVars == <<profile, evidence, pending, answers, event, trustee, day, grants>>

Absent == [pc |-> "absent"]

\* buildWorkerTrustCandidate: a missing profile is a safety violation.
Qualifies == IF profile = NoFile THEN "none" ELSE evidence.level

Candidate == [hash |-> profile, target |-> Qualifies, refs |-> evidence.refs]

Granted(t, days, today) ==
  [ask |-> t.ask, choice |-> t.choice, at |-> t.at, hash |-> t.hash, level |-> t.level,
   state |-> IF t.choice = "approve" THEN t.level ELSE "demoted",
   scope |-> t.scope, expires |-> today + days]

\* The worker was promoted by an earlier review, or a request may wait.
TrustInit ==
  /\ profile \in Profiles
  /\ evidence \in [level : Levels, refs : {0}]
  /\ trustee = [p \in TrustUsers |-> Absent]
  /\ day = 0
  /\ \E promoted \in BOOLEAN :
       LET a == Candidate
           t == [ask |-> a, choice |-> "approve", at |-> 0, hash |-> profile,
                 level |-> Qualifies, scope |-> Ceiling[profile]]
       IN  /\ promoted => a \in Asks
           /\ pending \in IF promoted THEN {{}} ELSE SUBSET ({a} \cap Asks)
           /\ answers = [b \in Asks |-> IF promoted /\ b = a
                                        THEN [choice |-> "approve", at |-> 0, event |-> TRUE] ELSE NoFile]
           /\ event = IF promoted THEN Granted(t, 1, 0) ELSE NoFile
           /\ grants = [events |-> 0, written |-> {b \in Asks : promoted /\ b = a},
                        given |-> {[ask |-> b, hash |-> profile, level |-> Qualifies, at |-> 0]
                                     : b \in {c \in Asks : promoted /\ c = a}},
                        last |-> IF promoted THEN "approve" ELSE "none",
                        overlap |-> FALSE, killed |-> FALSE, edited |-> FALSE, rejected |-> FALSE]

-----------------------------------------------------------------------------

Proceed(p, from, to) == trustee[p].pc = from /\ trustee' = [trustee EXCEPT ![p] = to]

Stage(p, pc) == [trustee[p] EXCEPT !.pc = pc]

Counted == [grants EXCEPT !.events = @ + 1]

Begun ==
  [Counted EXCEPT !.overlap = @ \/ \E q \in TrustUsers : trustee[q] # Absent]

EnterTrust(p, to) ==
  /\ grants.events < TrustBudget
  /\ Proceed(p, "absent", to)
  /\ grants' = Begun

\* workers trust candidate --emit-decision-requests; what has an answer is not
\* asked again.
AskForTrust(p) ==
  /\ Candidate \in Asks \ pending /\ answers[Candidate] = NoFile
  /\ EnterTrust(p, Absent)
  /\ pending' = pending \cup {Candidate}
  /\ UNCHANGED <<profile, evidence, answers, event, day>>

\* workers trust review: the evidence is computed again.
ReviewTrust(p, a, choice) ==
  /\ a \in pending
  /\ choice = "approve" => Qualifies # "none" /\ a.hash = profile
  /\ EnterTrust(p, [pc |-> "answering", ask |-> a, choice |-> choice,
                    hash |-> profile, level |-> Qualifies])
  /\ UNCHANGED <<profile, evidence, pending, answers, event, day>>

\* `workflow decide` on the same request, or a review that keeps the worker
\* supervised: an answer nothing is done about, so that one stands for all.
DecideTrust(p, a) ==
  /\ a \in pending
  /\ EnterTrust(p, [pc |-> "answering", ask |-> a, choice |-> "keep_supervised"])
  /\ UNCHANGED <<profile, evidence, pending, answers, event, day>>

\* The review reads the profile again for its write scope; the request is looked
\* up again and the answer recorded.
RecordAnswer(p) ==
  LET t == trustee[p]
      held == [choice |-> t.choice, at |-> day, event |-> t.choice = "approve"]
  IN  /\ t.pc = "answering" /\ t.ask \in pending
      /\ t.choice \in Reviewed => profile # NoFile
      /\ answers' = [answers EXCEPT ![t.ask] = held]
      /\ Proceed(p, "answering",
                 IF t.choice \in Reviewed
                 THEN [pc |-> "settling", ask |-> t.ask, choice |-> t.choice, hash |-> t.hash,
                       level |-> t.level, at |-> day, scope |-> Ceiling[profile]]
                 ELSE Stage(p, "settling"))
      /\ grants' = [grants EXCEPT
           !.last = IF t.choice \in Reviewed THEN t.choice ELSE @,
           !.given = @ \cup {[ask |-> t.ask, hash |-> t.hash, level |-> t.level, at |-> day]
                               : choice \in {"approve"} \cap {t.choice}}]
      /\ UNCHANGED <<profile, evidence, pending, event, day>>

\* Another process may have deleted it, which throws.
SettleRequest(p) ==
  /\ trustee[p].pc = "settling" /\ trustee[p].ask \in pending
  /\ pending' = pending \ {trustee[p].ask}
  /\ Proceed(p, "settling",
             IF trustee[p].choice \in Reviewed THEN Stage(p, "writing") ELSE Absent)
  /\ UNCHANGED <<profile, evidence, answers, event, day, grants>>

\* buildWorkerTrustEvent refuses a grant of more than 90 days; a grant counts
\* from now, the 90 days from the answer, which may be a millisecond earlier.
Grantable(t, days, late) ==
  \/ day + days - t.at < MaxGrant
  \/ day + days - t.at = MaxGrant /\ ~late

\* A kill may cut the file short, and then nobody can read it, nor an event
\* without the hash of a profile.
WriteEvent(p, days, late) ==
  /\ Proceed(p, "writing", Absent)
  /\ IF Grantable(trustee[p], days, late)
     THEN \/ /\ event' = IF trustee[p].hash = NoFile THEN NoFile ELSE Granted(trustee[p], days, day)
             /\ grants' = [grants EXCEPT !.written = @ \cup {trustee[p].ask}]
          \/ event' = NoFile /\ grants' = [grants EXCEPT !.killed = TRUE]
     ELSE event' = event /\ grants' = [grants EXCEPT !.rejected = TRUE]
  /\ UNCHANGED <<profile, evidence, pending, answers, day>>

-----------------------------------------------------------------------------
(* workers execute --mode auto_low_risk, without an approval receipt *)

\* It reads the profile and the event,
Inspect(p, scope) ==
  /\ profile # NoFile
  /\ EnterTrust(p, [pc |-> "gating", hash |-> profile, event |-> event, scope |-> scope])
  /\ UNCHANGED <<profile, evidence, pending, answers, event, day>>

\* then the answers on record, one of which must be the one the event quotes,
OnRecord(e) == answers[e.ask] = [choice |-> e.choice, at |-> e.at, event |-> TRUE]

\* Mutant: the event is of the worker, whatever its profile says today.
DelegatedByName(t) ==
  /\ t.event # NoFile /\ OnRecord(t.event)
  /\ t.event.state = "delegated" /\ t.event.level = "delegated"
  /\ t.event.expires > day
  /\ t.scope \subseteq t.event.scope

\* evaluateWorkerTrustGate
Delegated(t) ==
  /\ t.event # NoFile /\ OnRecord(t.event)
  /\ t.event.hash = t.hash
  /\ t.event.state = "delegated" /\ t.event.level = "delegated"
  /\ t.event.expires > day
  /\ t.scope \subseteq t.event.scope

\* and runs the worker, or refuses for want of an approval.
RunWorker(p) ==
  /\ Proceed(p, "gating", IF Delegated(trustee[p]) THEN Stage(p, "working") ELSE Absent)
  /\ UNCHANGED <<profile, evidence, pending, answers, event, day, grants>>

EndWork(p) ==
  /\ Proceed(p, "working", Absent)
  /\ UNCHANGED <<profile, evidence, pending, answers, event, day, grants>>

-----------------------------------------------------------------------------

\* A command is killed, or throws: the request is gone, the profile missing.
AbortTrust(p) ==
  /\ trustee[p].pc \in {"answering", "settling", "writing"}
  /\ trustee' = [trustee EXCEPT ![p] = Absent]
  /\ grants' = [grants EXCEPT !.killed = TRUE]
  /\ UNCHANGED <<profile, evidence, pending, answers, event, day>>

\* The profile is edited, replaced or removed.
EditProfile(content) ==
  /\ content # profile /\ grants.events < TrustBudget
  /\ profile' = content
  /\ grants' = [Counted EXCEPT !.edited = @ \/ \E p \in TrustUsers : trustee[p].pc = "answering"]
  /\ UNCHANGED <<evidence, pending, answers, event, trustee, day>>

\* Receipts and reviews are added: samples that qualify, or a blocked one.
AddSamples(level) ==
  /\ evidence.refs < MaxSamples /\ grants.events < TrustBudget
  /\ evidence' = [level |-> level, refs |-> evidence.refs + 1]
  /\ grants' = Counted
  /\ UNCHANGED <<profile, pending, answers, event, trustee, day>>

PassDay ==
  /\ grants.events < TrustBudget
  /\ day' = day + 1
  /\ grants' = Counted
  /\ UNCHANGED <<profile, evidence, pending, answers, event, trustee>>

TrustNext ==
  \/ \E p \in TrustUsers :
       \/ AskForTrust(p)
       \/ \E a \in Asks, choice \in Reviewed : ReviewTrust(p, a, choice)
       \/ \E a \in Asks : DecideTrust(p, a)
       \/ RecordAnswer(p) \/ SettleRequest(p)
       \/ \E days \in 1 .. MaxGrant, late \in BOOLEAN : WriteEvent(p, days, late)
       \/ \E scope \in SUBSET Paths \ {{}} : Inspect(p, scope)
       \/ RunWorker(p) \/ EndWork(p) \/ AbortTrust(p)
  \/ \E content \in Profiles \cup {NoFile} : EditProfile(content)
  \/ \E level \in Levels : AddSamples(level)
  \/ PassDay

TrustSpec == TrustInit /\ [][TrustNext]_trustVars

-----------------------------------------------------------------------------
(* Properties *)

TrustTypeOK ==
  /\ profile \in Profiles \cup {NoFile}
  /\ pending \subseteq Asks
  /\ \A a \in Asks : answers[a] = NoFile \/ answers[a].choice \in TrustChoices
  /\ event # NoFile => /\ event.state \in Levels \cup {"demoted"}
                       /\ event.hash \in Profiles
                       /\ event.expires - event.at \in 1 .. MaxGrant
                       /\ event.choice = "approve" => event.state # "none"

\* A worker only goes without an approval receipt on a human approval that is
\* still the answer on record: of the profile it runs with, on evidence that
\* qualified for delegation then, no longer ago than 90 days and for paths
\* within that profile's ceiling (unless the profile was edited under the
\* review).  And when the last review demoted it, it never does, unless reviews
\* overlapped or failed half way.
DelegationIsReviewed ==
  [][\A p \in TrustUsers : trustee[p].pc = "gating" /\ trustee'[p].pc = "working" =>
       /\ \E g \in grants.given :
            /\ answers[g.ask] = [choice |-> "approve", at |-> g.at, event |-> TRUE]
            /\ g.hash = trustee[p].hash /\ g.level = "delegated"
            /\ day < g.at + MaxGrant
            /\ ~grants.edited => trustee[p].scope \subseteq Ceiling[g.hash]
       /\ ~(grants.overlap \/ grants.killed \/ grants.rejected) => grants.last = "approve"]_trustVars

\* An answer that says its trust event was written has one written (the answer is
\* recorded first), unless its command was killed or another one interfered.
RecordedGrantsAreWritten ==
  \A a \in Asks :
    answers[a] # NoFile /\ answers[a].event /\ ~(grants.overlap \/ grants.killed)
      => a \in grants.written \/ \E p \in TrustUsers : trustee[p].pc \in {"settling", "writing"}
=============================================================================

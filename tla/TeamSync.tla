------------------------------ MODULE TeamSync ------------------------------
(***************************************************************************)
(* Team sync: the work and the handoffs of a checkout, in one ledger file, *)
(* .snipara/team-sync/session.json.  A command loads it, archives what has *)
(* been inactive for long, makes its change in memory and rewrites the     *)
(* file in place: writeFileSync truncates it first, so that a process      *)
(* killed there leaves a ledger nobody can parse, and another one reading  *)
(* there fails.  final-commit completes the work its evidence matches.     *)
(***************************************************************************)
EXTENDS Naturals, FiniteSets

CONSTANTS
  Teammates,        \* processes
  Topics,           \* what work is about
  Evidence,         \* [direct, loose]: the topics a final-commit matches
  ArchiveAfter,     \* TEAM_SYNC_AUTO_ARCHIVE_WORK_MS
  SweepThresholds,  \* the --days given to sweep
  LedgerHorizon,    \* bound: the clock stops here
  LedgerBudget      \* bound: commands started

ASSUME LedgerShape ==
  /\ Evidence \subseteq [direct : SUBSET Topics, loose : SUBSET Topics]
  /\ ArchiveAfter \in Nat /\ SweepThresholds \subseteq Nat

VARIABLES
  ledger,   \* the file: whole, cut (truncated) or garbled
  member,   \* what each process is doing, with the content it is about to write
  today,
  chronicle \* auxiliary: the last whole ledger, and whether commands overlapped

ledgerVars == <<ledger, member, today, chronicle>>

SettledStatuses == {"completed", "archived"}

WorkItem == [id : Nat, topic : Topics, status : {"active"} \cup SettledStatuses, touched : Nat]

Contents == [work : SUBSET WorkItem, handoffs : SUBSET Nat]

EmptyLedger == [work |-> {}, handoffs |-> {}]

Away == [pc |-> "away"]

LedgerInit ==
  /\ ledger = [form |-> "whole", data |-> EmptyLedger]   \* or no file, which reads the same
  /\ member = [m \in Teammates |-> Away]
  /\ today = 0
  /\ chronicle = [started |-> 0, known |-> EmptyLedger, overlap |-> FALSE]

-----------------------------------------------------------------------------
(* Changes in memory. *)

ActiveWork(d) == {i \in d.work : i.status = "active"}

Latest(is) == {i \in is : \A j \in is : j.id <= i.id}

\* Work on a topic of `ts` among the active items.
About(d, ts) == {i \in ActiveWork(d) : i.topic \in ts}

Inactive(d, threshold) == {i \in ActiveWork(d) : today - i.touched > threshold}

Settle(d, is, status) ==
  [d EXCEPT !.work = (@ \ is) \cup {[i EXCEPT !.status = status, !.touched = today] : i \in is}]

Archive(d, threshold) == Settle(d, Inactive(d, threshold), "archived")

\* completeTeamSyncWorkFromEvidence: the items whose summary matches, or else
\* those that share files and words with the evidence.
Matched(d, e) == IF About(d, e.direct) # {} THEN About(d, e.direct)
                 ELSE About(d, e.direct \cup e.loose)

NewWork(d, topic) ==
  [d EXCEPT !.work = @ \cup {[id |-> chronicle.started, topic |-> topic, status |-> "active",
                              touched |-> today]}]

\* What a command makes of the ledger it loaded.
Changed(c, d) ==
  LET a == Archive(d, ArchiveAfter)
  IN  CASE c.kind = "startWork"   -> NewWork(a, c.topic)
        [] c.kind = "handoff"     -> [a EXCEPT !.handoffs = @ \cup {chronicle.started}]
        [] c.kind = "look"        -> a   \* what-changed, resume, the first half of handoff
        [] c.kind = "sweep"       -> Archive(d, c.threshold)
        [] c.kind = "complete"    -> Settle(a, {i \in ActiveWork(a) : i.id = c.id}, "completed")
        [] c.kind = "finalCommit" -> Settle(d, Matched(d, c.evidence), "completed")

-----------------------------------------------------------------------------
(* Commands *)

OthersBusy(m) == \E n \in Teammates \ {m} : member[n].pc # "away"

Move(m, from, to) == member[m].pc = from /\ member' = [member EXCEPT ![m] = to]

\* Mutant: a ledger that cannot be parsed is taken for an empty one.
LoadedAnyway == {IF ledger.form = "whole" THEN ledger.data ELSE EmptyLedger}

\* loadTeamSyncState throws on a ledger that cannot be parsed.
LoadedLedger == {d \in {ledger.data} : ledger.form = "whole"}

\* Load and change; a command that changed nothing saves nothing.
Change(m, from, c, next) ==
  /\ \E d \in LoadedLedger :
       Move(m, from, IF Changed(c, d) = d THEN [pc |-> next]
                     ELSE [pc |-> "saving", data |-> Changed(c, d), next |-> next])
  /\ UNCHANGED <<ledger, today>>

Run(m, c, next) ==
  /\ chronicle.started < LedgerBudget
  /\ Change(m, "away", c, next)
  /\ chronicle' = [chronicle EXCEPT !.started = @ + 1, !.overlap = @ \/ OthersBusy(m)]

StartWork(m, topic)     == Run(m, [kind |-> "startWork", topic |-> topic], "away")
LookAtWork(m)           == Run(m, [kind |-> "look"], "away")
SweepWork(m, threshold) == Run(m, [kind |-> "sweep", threshold |-> threshold], "away")
CompleteWork(m, id)     == Run(m, [kind |-> "complete", id |-> id], "away")
CommitWork(m, evidence) == Run(m, [kind |-> "finalCommit", evidence |-> evidence], "away")

\* handoff archives and saves, and loads the ledger again.
BeginHandoff(m) == Run(m, [kind |-> "look"], "handing")
Handoff(m) ==
  /\ Change(m, "handing", [kind |-> "handoff"], "away")
  /\ UNCHANGED chronicle

TruncateLedger(m) ==
  /\ Move(m, "saving", [member[m] EXCEPT !.pc = "writing"])
  /\ ledger' = [form |-> "cut", data |-> EmptyLedger]
  /\ UNCHANGED <<today, chronicle>>

\* Two processes that both truncated may leave one content over the other.
WriteLedger(m) ==
  /\ Move(m, "writing", [pc |-> member[m].next])
  /\ \/ ledger' = [form |-> "whole", data |-> member[m].data]
     \/ ledger.form # "cut" /\ ledger' = [form |-> "garbled", data |-> EmptyLedger]
  /\ chronicle' = [chronicle EXCEPT !.known = IF ledger'.form = "whole" THEN ledger'.data ELSE @]
  /\ UNCHANGED today

\* A process is killed, or throws on what it loads.
Leave(m) ==
  /\ member[m].pc # "away"
  /\ member' = [member EXCEPT ![m] = Away]
  /\ UNCHANGED <<ledger, today, chronicle>>

LedgerTick ==
  /\ today < LedgerHorizon
  /\ today' = today + 1
  /\ UNCHANGED <<ledger, member, chronicle>>

LedgerNext ==
  \/ \E m \in Teammates :
       \/ \E topic \in Topics : StartWork(m, topic)
       \/ LookAtWork(m)
       \/ \E threshold \in SweepThresholds : SweepWork(m, threshold)
       \/ \E i \in ActiveWork(Archive(ledger.data, ArchiveAfter)) : CompleteWork(m, i.id)
       \/ \E evidence \in Evidence : CommitWork(m, evidence)
       \/ BeginHandoff(m) \/ Handoff(m)
       \/ TruncateLedger(m) \/ WriteLedger(m) \/ Leave(m)
  \/ LedgerTick

LedgerSpec == LedgerInit /\ [][LedgerNext]_ledgerVars

-----------------------------------------------------------------------------
(* Properties *)

LedgerTypeOK ==
  /\ ledger.form \in {"whole", "cut", "garbled"}
  /\ ledger.data.work \subseteq WorkItem /\ ledger.data.handoffs \subseteq Nat
  /\ \A m \in Teammates : member[m].pc \in {"away", "handing", "saving", "writing"}

\* A later content of the ledger: everything is still there, what was settled
\* stays as it was settled.
Extends(new, old) ==
  /\ old.handoffs \subseteq new.handoffs
  /\ \A i \in old.work : \E j \in new.work :
       /\ j.id = i.id /\ j.topic = i.topic
       /\ i.status = "active" \/ j = i

\* Wherever commands are killed: as long as no two overlapped, the ledger never
\* loses work, a handoff or an outcome, and one that was cut short is never
\* taken for an empty one and started anew (saveTeamSyncState writes in place).
LedgerKeepsHistory ==
  [][~chronicle'.overlap /\ ledger'.form = "whole" /\ ledger' # ledger
       => ledger.form = "cut" /\ Extends(ledger'.data, chronicle.known)]_ledgerVars
=============================================================================

----------------------------- MODULE StoresProofs ---------------------------
(***************************************************************************)
(* Proofs about the stores of the project directory.  Four are kept in     *)
(* files without a lock: the team-sync ledger, the decision requests, the  *)
(* context packs and the query cache.  The task facade holds a lock, and   *)
(* what it runs as other processes is a workflow.                          *)
(***************************************************************************)
EXTENDS TeamSync, DecisionRequests, ContextPacks, QueryCache, TaskJourney,
        FiniteSetTheorems, TLAPS

-----------------------------------------------------------------------------
(***************************************************************************)
(* TeamSync.                                                               *)
(***************************************************************************)

\* What a process carries, by what it is doing.
MemberStage ==
  [pc : {"away", "handing"}]
    \cup [pc : {"saving", "writing"}, data : Contents, next : {"away", "handing"}]

Chronicles == [started : Nat, known : Contents, overlap : BOOLEAN]

LedgerTypes ==
  /\ ledger \in [form : {"whole", "cut", "garbled"}, data : Contents]
  /\ member \in [Teammates -> MemberStage]
  /\ today \in Nat
  /\ chronicle \in Chronicles

\* A ledger that can be read is the last one that was written whole.
KnownIsRead == ledger.form = "whole" => ledger.data = chronicle.known

\* Unless commands overlapped, one runs at a time: what it is about to write keeps
\* what is known, and while it writes the file is cut.
OneWrites ==
  ~chronicle.overlap =>
    /\ \A m, n \in Teammates : member[m].pc # "away" /\ member[n].pc # "away" => m = n
    /\ \A m \in Teammates :
         /\ member[m].pc \in {"saving", "writing"} => Extends(member[m].data, chronicle.known)
         /\ member[m].pc = "writing" => ledger.form = "cut"

LedgerInv == LedgerTypes /\ KnownIsRead /\ OneWrites

\* What a process can be asked to do.
Commands ==
  [kind : {"startWork"}, topic : Topics] \cup [kind : {"handoff", "look"}]
    \cup [kind : {"sweep"}, threshold : SweepThresholds] \cup [kind : {"complete"}, id : Nat]
    \cup [kind : {"finalCommit"}, evidence : Evidence]

LEMMA ExtendsItself == ASSUME NEW d PROVE Extends(d, d)
BY DEF Extends

LEMMA ExtendsOn ==
  ASSUME NEW c, NEW b, NEW a, Extends(c, b), Extends(b, a)
  PROVE  Extends(c, a)
<1>1. a.handoffs \subseteq c.handoffs
  BY DEF Extends
<1>2. ASSUME NEW i \in a.work
      PROVE  \E k \in c.work : /\ k.id = i.id /\ k.topic = i.topic
                               /\ i.status = "active" \/ k = i
  <2>1. PICK j \in b.work : j.id = i.id /\ j.topic = i.topic /\ (i.status = "active" \/ j = i)
    BY <1>2 DEF Extends
  <2>2. PICK k \in c.work : k.id = j.id /\ k.topic = j.topic /\ (j.status = "active" \/ k = j)
    BY <2>1 DEF Extends
  <2> QED
    BY <2>1, <2>2
<1> QED
  BY <1>1, <1>2 DEF Extends

\* Only active work is settled, and it stays on record.
LEMMA Settles ==
  ASSUME NEW d \in Contents, today \in Nat, NEW is \in SUBSET ActiveWork(d),
         NEW status \in SettledStatuses
  PROVE  Settle(d, is, status) \in Contents /\ Extends(Settle(d, is, status), d)
<1>1. PICK settled : settled = {[i EXCEPT !.status = status, !.touched = today] : i \in is}
  OBVIOUS
<1>2. \A i \in is : i \in d.work /\ i \in WorkItem /\ i.status = "active"
  BY DEF ActiveWork, Contents
<1>3. ASSUME NEW i \in is PROVE \E j \in settled : j.id = i.id /\ j.topic = i.topic
  <2>1. PICK j : j = [i EXCEPT !.status = status, !.touched = today]
    OBVIOUS
  <2>2. j.id = i.id /\ j.topic = i.topic /\ j \in settled
    BY <1>1, <1>2, <2>1 DEF WorkItem
  <2> QED
    BY <2>2
<1>4. settled \subseteq WorkItem
  BY <1>1, <1>2 DEF WorkItem
<1>5. PICK new : new = (d.work \ is) \cup settled
  OBVIOUS
<1>6. PICK e : e = Settle(d, is, status)
  OBVIOUS
<1>7. e \in Contents /\ e.work = new /\ e.handoffs = d.handoffs
  <2>1. e = [d EXCEPT !.work = new]
    BY <1>1, <1>5, <1>6 DEF Settle
  <2> QED
    BY <1>4, <1>5, <2>1 DEF Contents
<1>8. ASSUME NEW i \in d.work
      PROVE  \E j \in new : j.id = i.id /\ j.topic = i.topic /\ (i.status = "active" \/ j = i)
  BY <1>2, <1>3, <1>5
<1> QED
  BY <1>6, <1>7, <1>8 DEF Extends

LEMMA Archives ==
  ASSUME NEW d \in Contents, today \in Nat, NEW threshold
  PROVE  Archive(d, threshold) \in Contents /\ Extends(Archive(d, threshold), d)
<1>1. Inactive(d, threshold) \in SUBSET ActiveWork(d) /\ "archived" \in SettledStatuses
  BY DEF Inactive, SettledStatuses
<1> QED
  BY <1>1, Settles DEF Archive

\* Whatever a command makes of a ledger, everything in it is still there.
LEMMA ChangesKeep ==
  ASSUME NEW d \in Contents, today \in Nat, chronicle \in Chronicles, NEW c \in Commands
  PROVE  Changed(c, d) \in Contents /\ Extends(Changed(c, d), d)
<1>1. PICK a \in Contents : a = Archive(d, ArchiveAfter) /\ Extends(a, d)
  BY Archives
<1>2. PICK k \in Nat : k = chronicle.started
  BY DEF Chronicles
<1>3. "completed" \in SettledStatuses
  BY DEF SettledStatuses
<1>4. CASE c.kind = "startWork"
  <2>1. c.topic \in Topics
    BY <1>4 DEF Commands
  <2>2. PICK i \in WorkItem : i = [id |-> k, topic |-> c.topic, status |-> "active", touched |-> today]
    BY <2>1 DEF WorkItem
  <2>3. PICK e : e = [a EXCEPT !.work = a.work \cup {i}]
    OBVIOUS
  <2>4. e \in Contents /\ e.work = a.work \cup {i} /\ e.handoffs = a.handoffs
    BY <2>3 DEF Contents
  <2>5. Changed(c, d) = e
    BY <1>1, <1>2, <1>4, <2>2, <2>3 DEF Changed, NewWork
  <2>6. Extends(e, a)
    BY <2>4 DEF Extends
  <2> QED
    BY <1>1, <2>4, <2>5, <2>6, ExtendsOn
<1>5. CASE c.kind = "handoff"
  <2>1. PICK e : e = [a EXCEPT !.handoffs = a.handoffs \cup {k}]
    OBVIOUS
  <2>2. e \in Contents /\ e.work = a.work /\ e.handoffs = a.handoffs \cup {k}
    BY <2>1 DEF Contents
  <2>3. Changed(c, d) = e
    BY <1>1, <1>2, <1>5, <2>1 DEF Changed
  <2>4. Extends(e, a)
    BY <2>2 DEF Extends
  <2> QED
    BY <1>1, <2>2, <2>3, <2>4, ExtendsOn
<1>6. CASE c.kind = "look"
  BY <1>1, <1>6 DEF Changed
<1>7. CASE c.kind = "sweep"
  BY <1>7, Archives DEF Changed
<1>8. CASE c.kind = "complete"
  <2>1. PICK is : is = {i \in ActiveWork(a) : i.id = c.id}
    OBVIOUS
  <2>2. Changed(c, d) = Settle(a, is, "completed") /\ is \in SUBSET ActiveWork(a)
    BY <1>1, <1>8, <2>1 DEF Changed
  <2>3. Settle(a, is, "completed") \in Contents /\ Extends(Settle(a, is, "completed"), a)
    BY <1>3, <2>2, Settles
  <2> QED
    BY <1>1, <2>2, <2>3, ExtendsOn
<1>9. CASE c.kind = "finalCommit"
  <2>1. PICK is : is = Matched(d, c.evidence)
    OBVIOUS
  <2>2. is \in SUBSET ActiveWork(d)
    BY <2>1 DEF Matched, About
  <2>3. Changed(c, d) = Settle(d, is, "completed")
    BY <1>9, <2>1 DEF Changed
  <2> QED
    BY <1>3, <2>2, <2>3, Settles
<1>10. c.kind \in {"startWork", "handoff", "look", "sweep", "complete", "finalCommit"}
  BY DEF Commands
<1> QED
  BY <1>4, <1>5, <1>6, <1>7, <1>8, <1>9, <1>10

LEMMA LedgerBegins == LedgerInit => LedgerInv
<1> SUFFICES ASSUME LedgerInit PROVE LedgerInv
  OBVIOUS
<1>1. EmptyLedger \in Contents /\ Away \in MemberStage /\ Away.pc = "away"
  BY DEF EmptyLedger, Contents, Away, MemberStage
<1>2. LedgerTypes
  BY <1>1 DEF LedgerInit, LedgerTypes, Chronicles
<1>3. KnownIsRead /\ OneWrites
  BY <1>1 DEF LedgerInit, KnownIsRead, OneWrites
<1> QED
  BY <1>2, <1>3 DEF LedgerInv

\* One process moves, and writes at most what it was about to.
LEMMA OneMoves ==
  ASSUME LedgerInv, NEW m \in Teammates, NEW to \in MemberStage,
         member' = [member EXCEPT ![m] = to],
         ~chronicle'.overlap =>
           /\ ~chronicle.overlap
           /\ \/ member[m].pc # "away" \/ to.pc = "away"
              \/ \A n \in Teammates \ {m} : member[n].pc = "away"
           /\ to.pc \in {"saving", "writing"} => Extends(to.data, chronicle'.known)
           /\ to.pc = "writing" => ledger'.form = "cut"
           /\ \/ UNCHANGED <<ledger, chronicle>>
              \/ member[m].pc # "away"
              \/ \A n \in Teammates \ {m} : member[n].pc = "away"
  PROVE  OneWrites'
<1> SUFFICES ASSUME ~chronicle'.overlap
             PROVE  /\ \A k, n \in Teammates : member'[k].pc # "away" /\ member'[n].pc # "away" => k = n
                    /\ \A n \in Teammates :
                         /\ member'[n].pc \in {"saving", "writing"} =>
                              Extends(member'[n].data, chronicle'.known)
                         /\ member'[n].pc = "writing" => ledger'.form = "cut"
  BY DEF OneWrites, Extends
<1>1. member'[m] = to /\ \A n \in Teammates \ {m} : member'[n] = member[n]
  BY DEF LedgerInv, LedgerTypes
<1>2. /\ \A k, n \in Teammates : member[k].pc # "away" /\ member[n].pc # "away" => k = n
      /\ \A n \in Teammates :
           /\ member[n].pc \in {"saving", "writing"} => Extends(member[n].data, chronicle.known)
           /\ member[n].pc = "writing" => ledger.form = "cut"
  BY DEF LedgerInv, OneWrites
<1>3. \A k, n \in Teammates : member'[k].pc # "away" /\ member'[n].pc # "away" => k = n
  BY <1>1, <1>2
<1>4. ASSUME NEW n \in Teammates
      PROVE  /\ member'[n].pc \in {"saving", "writing"} => Extends(member'[n].data, chronicle'.known)
             /\ member'[n].pc = "writing" => ledger'.form = "cut"
  <2>1. CASE n = m
    BY <1>1, <2>1
  <2>2. CASE n # m
    BY <1>1, <1>2, <2>2
  <2> QED
    BY <2>1, <2>2
<1> QED
  BY <1>3, <1>4

\* A command loads the ledger and changes it in memory.
LEMMA Changes ==
  ASSUME LedgerInv, NEW m \in Teammates, NEW from, NEW c \in Commands,
         NEW next \in {"away", "handing"}, Change(m, from, c, next)
  PROVE  /\ UNCHANGED <<ledger, today>> /\ member[m].pc = from
         /\ \E to \in MemberStage :
              /\ member' = [member EXCEPT ![m] = to]
              /\ to.pc \in {"saving", "away", "handing"}
              /\ to.pc = "saving" => Extends(to.data, chronicle.known)
<1>1. PICK d \in {ledger.data} :
        /\ ledger.form = "whole"
        /\ Move(m, from, IF Changed(c, d) = d THEN [pc |-> next]
                         ELSE [pc |-> "saving", data |-> Changed(c, d), next |-> next])
  BY DEF Change, LoadedLedger
<1>2. d = chronicle.known /\ d \in Contents
  BY <1>1 DEF LedgerInv, LedgerTypes, KnownIsRead
<1>3. PICK e \in Contents : e = Changed(c, d) /\ Extends(e, d)
  BY <1>2, ChangesKeep DEF LedgerInv, LedgerTypes
<1>4. PICK to : to = IF e = d THEN [pc |-> next] ELSE [pc |-> "saving", data |-> e, next |-> next]
  OBVIOUS
<1>5. /\ to \in MemberStage /\ to.pc \in {"saving", "away", "handing"}
      /\ to.pc = "saving" => to.data = e
  BY <1>3, <1>4 DEF MemberStage
<1> QED
  BY <1>1, <1>2, <1>3, <1>4, <1>5 DEF Change, Move

LEMMA Runs ==
  ASSUME LedgerInv, NEW m \in Teammates, NEW c \in Commands, NEW next \in {"away", "handing"},
         Run(m, c, next)
  PROVE  LedgerInv' /\ ledger' = ledger
<1>1. PICK o \in BOOLEAN : o = (chronicle.overlap \/ OthersBusy(m))
  OBVIOUS
<1>2. PICK k \in Nat : k = chronicle.started + 1
  BY DEF LedgerInv, LedgerTypes, Chronicles
<1>3. chronicle' = [chronicle EXCEPT !.started = k, !.overlap = o]
  BY <1>1, <1>2 DEF Run
<1>4. chronicle' \in Chronicles /\ chronicle'.known = chronicle.known /\ chronicle'.overlap = o
  BY <1>3 DEF LedgerInv, LedgerTypes, Chronicles
<1>5. UNCHANGED <<ledger, today>> /\ member[m].pc = "away"
  BY Changes DEF Run
<1>6. PICK to \in MemberStage :
        /\ member' = [member EXCEPT ![m] = to]
        /\ to.pc \in {"saving", "away", "handing"}
        /\ to.pc = "saving" => Extends(to.data, chronicle.known)
  BY Changes DEF Run
<1>7. ~o => ~chronicle.overlap /\ \A n \in Teammates \ {m} : member[n].pc = "away"
  BY <1>1 DEF OthersBusy
<1>8. LedgerTypes' /\ KnownIsRead'
  BY <1>4, <1>5, <1>6 DEF LedgerInv, LedgerTypes, KnownIsRead
<1>9. OneWrites'
  BY <1>4, <1>5, <1>6, <1>7, OneMoves
<1> QED
  BY <1>5, <1>8, <1>9 DEF LedgerInv

\* The file is rewritten: cut first, and then whole, with everything that is known.
LEMMA Rewrites ==
  ASSUME LedgerInv, NEW m \in Teammates, TruncateLedger(m) \/ WriteLedger(m)
  PROVE  /\ LedgerInv'
         /\ ~chronicle'.overlap /\ ledger'.form = "whole" =>
              ledger.form = "cut" /\ Extends(ledger'.data, chronicle.known)
<1>1. /\ ledger \in [form : {"whole", "cut", "garbled"}, data : Contents]
      /\ member \in [Teammates -> MemberStage] /\ member[m] \in MemberStage
      /\ chronicle \in Chronicles /\ EmptyLedger \in Contents
  BY DEF LedgerInv, LedgerTypes, EmptyLedger, Contents
<1>2. member[m].pc \in {"saving", "writing"} /\ UNCHANGED today
  BY DEF TruncateLedger, WriteLedger, Move
<1>3. PICK data \in Contents, next \in {"away", "handing"} :
        data = member[m].data /\ next = member[m].next
  BY <1>1, <1>2 DEF MemberStage
<1>4. ~chronicle.overlap => Extends(data, chronicle.known)
  BY <1>2, <1>3 DEF LedgerInv, OneWrites
<1>5. CASE TruncateLedger(m)
  <2>1. PICK to : to = [member[m] EXCEPT !.pc = "writing"]
    OBVIOUS
  <2>2. to \in MemberStage /\ to.pc = "writing" /\ to.data = data
    BY <1>1, <1>2, <1>3, <2>1 DEF MemberStage
  <2>3. /\ member' = [member EXCEPT ![m] = to] /\ UNCHANGED chronicle
        /\ ledger' = [form |-> "cut", data |-> EmptyLedger]
    BY <1>5, <2>1 DEF TruncateLedger, Move
  <2>4. LedgerTypes' /\ KnownIsRead'
    BY <1>1, <1>2, <2>2, <2>3 DEF LedgerInv, LedgerTypes, KnownIsRead
  <2>5. OneWrites'
    BY <1>2, <1>4, <2>2, <2>3, OneMoves
  <2> QED
    BY <2>3, <2>4, <2>5 DEF LedgerInv
<1>6. CASE WriteLedger(m)
  <2>1. PICK to : to = [pc |-> next]
    OBVIOUS
  <2>2. to \in MemberStage /\ to.pc \in {"away", "handing"}
    BY <2>1 DEF MemberStage
  <2>3. member' = [member EXCEPT ![m] = to] /\ member[m].pc = "writing"
    BY <1>3, <1>6, <2>1 DEF WriteLedger, Move
  <2>4. ~chronicle.overlap => ledger.form = "cut"
    BY <2>3 DEF LedgerInv, OneWrites
  <2>5. CASE ledger' = [form |-> "whole", data |-> data]
    <3>1. chronicle' = [chronicle EXCEPT !.known = data]
      BY <1>6, <2>5 DEF WriteLedger
    <3>2. chronicle' \in Chronicles /\ chronicle'.known = data /\ chronicle'.overlap = chronicle.overlap
      BY <1>1, <3>1 DEF Chronicles
    <3>3. LedgerTypes' /\ KnownIsRead'
      BY <1>1, <1>2, <2>2, <2>3, <2>5, <3>2 DEF LedgerInv, LedgerTypes, KnownIsRead
    <3>4. OneWrites'
      BY <2>2, <2>3, <3>2, OneMoves
    <3> QED
      BY <1>4, <2>4, <2>5, <3>2, <3>3, <3>4 DEF LedgerInv
  <2>6. CASE ledger.form # "cut" /\ ledger' = [form |-> "garbled", data |-> EmptyLedger]
    <3>1. ledger'.form = "garbled" /\ ledger' \in [form : {"whole", "cut", "garbled"}, data : Contents]
      BY <1>1, <2>6
    <3>2. chronicle' = [chronicle EXCEPT !.known = chronicle.known]
      BY <1>6, <3>1 DEF WriteLedger
    <3>3. chronicle' = chronicle
      BY <1>1, <3>2 DEF Chronicles
    <3>4. LedgerTypes' /\ KnownIsRead'
      BY <1>1, <1>2, <2>2, <2>3, <3>1, <3>3 DEF LedgerInv, LedgerTypes, KnownIsRead
    <3>5. OneWrites'
      BY <2>2, <2>3, <2>4, <2>6, <3>3, OneMoves
    <3> QED
      BY <3>1, <3>4, <3>5 DEF LedgerInv
  <2> QED
    BY <1>3, <1>6, <2>5, <2>6 DEF WriteLedger
<1> QED
  BY <1>5, <1>6

LEMMA LedgerStep ==
  ASSUME LedgerInv, [LedgerNext]_ledgerVars
  PROVE  /\ LedgerInv'
         /\ ~chronicle'.overlap /\ ledger'.form = "whole" /\ ledger' # ledger =>
              ledger.form = "cut" /\ Extends(ledger'.data, chronicle.known)
<1>1. CASE UNCHANGED ledgerVars
  BY <1>1 DEF ledgerVars, LedgerInv, LedgerTypes, KnownIsRead, OneWrites, Extends
<1>2. CASE LedgerTick
  <2>1. today' \in Nat /\ UNCHANGED <<ledger, member, chronicle>>
    BY <1>2 DEF LedgerTick, LedgerInv, LedgerTypes
  <2> QED
    BY <2>1 DEF LedgerInv, LedgerTypes, KnownIsRead, OneWrites, Extends
<1>3. ASSUME NEW m \in Teammates, NEW c \in Commands, NEW next \in {"away", "handing"}, Run(m, c, next)
      PROVE  LedgerInv' /\ ledger' = ledger
  BY <1>3, Runs
<1>4. ASSUME NEW m \in Teammates,
             \/ \E topic \in Topics : StartWork(m, topic)
             \/ LookAtWork(m)
             \/ \E threshold \in SweepThresholds : SweepWork(m, threshold)
             \/ \E i \in ActiveWork(Archive(ledger.data, ArchiveAfter)) : CompleteWork(m, i.id)
             \/ \E evidence \in Evidence : CommitWork(m, evidence)
             \/ BeginHandoff(m)
      PROVE  LedgerInv' /\ ledger' = ledger
  <2>1. ASSUME NEW topic \in Topics, StartWork(m, topic) PROVE LedgerInv' /\ ledger' = ledger
    <3>1. [kind |-> "startWork", topic |-> topic] \in Commands
      BY DEF Commands
    <3> QED
      BY <1>3, <2>1, <3>1 DEF StartWork
  <2>2. CASE LookAtWork(m) \/ BeginHandoff(m)
    <3>1. [kind |-> "look"] \in Commands
      BY DEF Commands
    <3> QED
      BY <1>3, <2>2, <3>1 DEF LookAtWork, BeginHandoff
  <2>3. ASSUME NEW threshold \in SweepThresholds, SweepWork(m, threshold) PROVE LedgerInv' /\ ledger' = ledger
    <3>1. [kind |-> "sweep", threshold |-> threshold] \in Commands
      BY DEF Commands
    <3> QED
      BY <1>3, <2>3, <3>1 DEF SweepWork
  <2>4. ASSUME NEW i \in ActiveWork(Archive(ledger.data, ArchiveAfter)), CompleteWork(m, i.id)
        PROVE  LedgerInv' /\ ledger' = ledger
    <3>1. Archive(ledger.data, ArchiveAfter) \in Contents
      BY Archives DEF LedgerInv, LedgerTypes
    <3>2. i.id \in Nat
      BY <3>1 DEF ActiveWork, Contents, WorkItem
    <3>3. [kind |-> "complete", id |-> i.id] \in Commands
      BY <3>2 DEF Commands
    <3> QED
      BY <1>3, <2>4, <3>3 DEF CompleteWork
  <2>5. ASSUME NEW evidence \in Evidence, CommitWork(m, evidence) PROVE LedgerInv' /\ ledger' = ledger
    <3>1. [kind |-> "finalCommit", evidence |-> evidence] \in Commands
      BY DEF Commands
    <3> QED
      BY <1>3, <2>5, <3>1 DEF CommitWork
  <2> QED
    BY <1>4, <2>1, <2>2, <2>3, <2>4, <2>5
<1>5. ASSUME NEW m \in Teammates, Handoff(m) PROVE LedgerInv' /\ ledger' = ledger
  <2>1. [kind |-> "handoff"] \in Commands
    BY DEF Commands
  <2>2. UNCHANGED <<ledger, today, chronicle>> /\ member[m].pc = "handing"
    BY <1>5, <2>1, Changes DEF Handoff
  <2>3. PICK to \in MemberStage :
          /\ member' = [member EXCEPT ![m] = to]
          /\ to.pc \in {"saving", "away", "handing"}
          /\ to.pc = "saving" => Extends(to.data, chronicle.known)
    BY <1>5, <2>1, Changes DEF Handoff
  <2>4. LedgerTypes' /\ KnownIsRead'
    BY <2>2, <2>3 DEF LedgerInv, LedgerTypes, KnownIsRead
  <2>5. OneWrites'
    BY <2>2, <2>3, OneMoves
  <2> QED
    BY <2>2, <2>4, <2>5 DEF LedgerInv
<1>6. ASSUME NEW m \in Teammates, Leave(m) PROVE LedgerInv' /\ ledger' = ledger
  <2>1. Away \in MemberStage /\ Away.pc = "away"
    BY DEF Away, MemberStage
  <2>2. member' = [member EXCEPT ![m] = Away] /\ UNCHANGED <<ledger, today, chronicle>>
    BY <1>6 DEF Leave
  <2>3. LedgerTypes' /\ KnownIsRead'
    BY <2>1, <2>2 DEF LedgerInv, LedgerTypes, KnownIsRead
  <2>4. OneWrites'
    BY <2>1, <2>2, OneMoves
  <2> QED
    BY <2>2, <2>3, <2>4 DEF LedgerInv
<1> QED
  BY <1>1, <1>2, <1>4, <1>5, <1>6, Rewrites DEF LedgerNext, LedgerTick

LEMMA LedgerHolds == LedgerSpec => []LedgerInv
<1>1. LedgerInv /\ [LedgerNext]_ledgerVars => LedgerInv'
  BY LedgerStep
<1> QED
  BY <1>1, LedgerBegins, PTL DEF LedgerSpec

\* The ledger and what processes are about to write keep their shapes.
THEOREM LedgerTypesOK == LedgerSpec => []LedgerTypeOK
<1>1. LedgerInv => LedgerTypeOK
  BY DEF LedgerInv, LedgerTypes, MemberStage, Contents, LedgerTypeOK
<1> QED
  BY <1>1, LedgerHolds, PTL

\* Wherever commands are killed, as long as none overlapped, the ledger loses no
\* work, handoff or outcome, and one cut short is not taken for an empty one: for
\* any processes, topics, evidence, ages and thresholds (saveTeamSyncState).
THEOREM LedgerIsKept == LedgerSpec => LedgerKeepsHistory
<1>1. LedgerInv /\ [LedgerNext]_ledgerVars =>
        [~chronicle'.overlap /\ ledger'.form = "whole" /\ ledger' # ledger
           => ledger.form = "cut" /\ Extends(ledger'.data, chronicle.known)]_ledgerVars
  BY LedgerStep
<1> QED
  BY <1>1, LedgerHolds, PTL DEF LedgerSpec, LedgerKeepsHistory

-----------------------------------------------------------------------------
(***************************************************************************)
(* DecisionRequests.                                                       *)
(***************************************************************************)

\* What a command carries, by what it is doing.
Stage ==
  [pc : {"out"}] \cup [pc : {"asking", "out"}, request : Requests]
    \cup [pc : {"reviewing", "resolving", "unlinking", "suggesting"},
          request : Requests, choice : Resolutions]
    \cup [pc : {"drafting"}, todo : SUBSET Suggestions]
    \cup [pc : {"drafting", "recording"}, todo : SUBSET Suggestions, request : Suggestions]

Histories == [started : Nat, overlap : BOOLEAN, killed : BOOLEAN]

DecisionTypes ==
  /\ asked \in [Requests -> {"no", "yes", "torn"}]
  /\ resolved \in [Requests -> Resolutions \cup {Unanswered, "torn"}]
  /\ effect \in [Requests -> Resolutions \cup {Unanswered}]
  /\ applied \in [Requests -> Resolutions \cup {Unanswered, "torn"}]
  /\ reviewer \in [Reviewers -> Stage]
  /\ history \in Histories

\* A recorded answer or draft has its effect, and so has one about to be recorded.
ActedOn ==
  /\ \A r \in ReviewRequests : resolved[r] \in CarriedOut(r) => effect[r] # Unanswered
  /\ \A r \in Requests : applied[r] # Unanswered => effect[r] # Unanswered
  /\ \A p \in Reviewers :
       /\ reviewer[p].pc = "resolving" /\ reviewer[p].request \in ReviewRequests
            /\ reviewer[p].choice \in CarriedOut(reviewer[p].request)
          => effect[reviewer[p].request] # Unanswered
       /\ reviewer[p].pc = "recording" => effect[reviewer[p].request] # Unanswered

\* Unless commands overlapped, one command runs at a time, and one that asks found
\* no answer.
OneAsks ==
  ~history.overlap =>
    /\ \A p, q \in Reviewers : reviewer[p].pc # "out" /\ reviewer[q].pc # "out" => p = q
    /\ \A p \in Reviewers :
         reviewer[p].pc = "asking" => resolved[reviewer[p].request] = Unanswered

DecisionInv == DecisionTypes /\ ActedOn /\ OneAsks

LEMMA RequestsAre ==
  /\ ReviewRequests \subseteq Requests /\ Suggestions \subseteq Requests
  /\ Questions \subseteq Requests
BY DEF Requests, Questions

LEMMA DecisionsBegin == DecisionInit => DecisionInv
<1> SUFFICES ASSUME DecisionInit PROVE DecisionInv
  OBVIOUS
<1>1. PICK old, done \in SUBSET Questions :
        /\ asked = [r \in Requests |-> IF r \in old THEN "yes" ELSE "no"]
        /\ resolved = [r \in Requests |-> IF r \in done THEN "accept" ELSE Unanswered]
  BY DEF DecisionInit
<1>2. DecisionTypes
  BY <1>1 DEF DecisionInit, DecisionTypes, Resolutions, Unanswered, Stage, Out, Histories
<1>3. ActedOn
  <2>1. \A r \in ReviewRequests : resolved[r] \in CarriedOut(r) => effect[r] # Unanswered
    BY <1>1, RequestsAre DEF DecisionInit, CarriedOut, Resolutions, Unanswered
  <2>2. \A r \in Requests : applied[r] = Unanswered
    BY DEF DecisionInit
  <2>3. \A p \in Reviewers : reviewer[p].pc = "out"
    BY DEF DecisionInit, Out
  <2> QED
    BY <2>1, <2>2, <2>3 DEF ActedOn
<1>4. OneAsks
  BY DEF DecisionInit, Out, OneAsks
<1> QED
  BY <1>2, <1>3, <1>4 DEF DecisionInv

\* A step of a command that goes on, or starts when nothing else runs, keeps one
\* command at a time.
LEMMA OneByOne ==
  ASSUME DecisionInv, NEW p \in Reviewers, NEW to \in Stage,
         reviewer' = [reviewer EXCEPT ![p] = to],
         history' \in Histories,
         ~history'.overlap => ~history.overlap,
         \/ reviewer[p].pc # "out" \/ to.pc = "out"
         \/ ~history'.overlap => \A q \in Reviewers \ {p} : reviewer[q].pc = "out",
         ~history'.overlap =>
           /\ to.pc = "asking" => resolved'[to.request] = Unanswered
           /\ \/ resolved' = resolved
              \/ reviewer[p].pc # "out"
  PROVE  OneAsks'
<1> SUFFICES ASSUME ~history'.overlap
             PROVE  /\ \A q, s \in Reviewers : reviewer'[q].pc # "out" /\ reviewer'[s].pc # "out" => q = s
                    /\ \A q \in Reviewers :
                         reviewer'[q].pc = "asking" => resolved'[reviewer'[q].request] = Unanswered
  BY DEF OneAsks
<1>1. /\ reviewer \in [Reviewers -> Stage] /\ reviewer'[p] = to
      /\ \A q \in Reviewers \ {p} : reviewer'[q] = reviewer[q]
      /\ \A q, s \in Reviewers : reviewer[q].pc # "out" /\ reviewer[s].pc # "out" => q = s
      /\ \A q \in Reviewers :
           reviewer[q].pc = "asking" => resolved[reviewer[q].request] = Unanswered
  BY DEF DecisionInv, DecisionTypes, OneAsks
<1>2. \A q, s \in Reviewers : reviewer'[q].pc # "out" /\ reviewer'[s].pc # "out" => q = s
  BY <1>1
<1>3. ASSUME NEW q \in Reviewers, reviewer'[q].pc = "asking"
      PROVE  resolved'[reviewer'[q].request] = Unanswered
  <2>1. CASE q = p
    BY <1>1, <1>3, <2>1
  <2>2. CASE q # p
    <3>1. reviewer[q].pc = "asking" /\ reviewer'[q] = reviewer[q]
      BY <1>1, <1>3, <2>2
    <3>2. resolved' = resolved
      BY <1>1, <2>2, <3>1
    <3> QED
      BY <1>1, <3>1, <3>2
  <2> QED
    BY <2>1, <2>2
<1> QED
  BY <1>2, <1>3

\* What was acted on stays acted on, when an answer, a draft or a command that
\* takes its place has been acted on too.
LEMMA Acted ==
  ASSUME DecisionInv, NEW p \in Reviewers, NEW to \in Stage,
         reviewer' = [reviewer EXCEPT ![p] = to],
         \A r \in Requests : effect[r] # Unanswered => effect'[r] # Unanswered,
         \A r \in ReviewRequests :
           resolved'[r] = resolved[r]
             \/ (resolved'[r] \in CarriedOut(r) => effect'[r] # Unanswered),
         \A r \in Requests : applied'[r] = applied[r] \/ effect'[r] # Unanswered,
         to.pc = "resolving" /\ to.request \in ReviewRequests /\ to.choice \in CarriedOut(to.request)
           => effect'[to.request] # Unanswered,
         to.pc = "recording" => effect'[to.request] # Unanswered
  PROVE  ActedOn'
<1>1. /\ reviewer \in [Reviewers -> Stage] /\ reviewer'[p] = to
      /\ \A q \in Reviewers \ {p} : reviewer'[q] = reviewer[q]
  BY DEF DecisionInv, DecisionTypes
<1>2. \A q \in Reviewers : reviewer[q].pc \in {"resolving", "recording"} => reviewer[q].request \in Requests
  BY <1>1, RequestsAre DEF Stage
<1>3. \A r \in ReviewRequests : CarriedOut(r)' = CarriedOut(r)
  BY DEF CarriedOut, Resolutions
<1>4. \A r \in ReviewRequests : resolved'[r] \in CarriedOut(r) => effect'[r] # Unanswered
  BY RequestsAre DEF DecisionInv, ActedOn
<1>5. \A r \in Requests : applied'[r] # Unanswered => effect'[r] # Unanswered
  BY DEF DecisionInv, ActedOn
<1>6. ASSUME NEW q \in Reviewers
      PROVE  /\ reviewer'[q].pc = "resolving" /\ reviewer'[q].request \in ReviewRequests
                  /\ reviewer'[q].choice \in CarriedOut(reviewer'[q].request)
                => effect'[reviewer'[q].request] # Unanswered
             /\ reviewer'[q].pc = "recording" => effect'[reviewer'[q].request] # Unanswered
  <2>1. CASE q = p
    BY <1>1, <2>1
  <2>2. CASE q # p
    <3>1. reviewer'[q] = reviewer[q]
      BY <1>1, <2>2
    <3> QED
      BY <1>2, <3>1 DEF DecisionInv, ActedOn
  <2> QED
    BY <2>1, <2>2
<1> QED
  BY <1>3, <1>4, <1>5, <1>6 DEF ActedOn

\* Starting a command.
LEMMA Entered ==
  ASSUME DecisionInv, NEW p \in Reviewers, NEW to \in Stage, Enter(p, to)
  PROVE  /\ reviewer' = [reviewer EXCEPT ![p] = to] /\ history' \in Histories
         /\ ~history'.overlap => ~history.overlap /\ \A q \in Reviewers \ {p} : reviewer[q].pc = "out"
<1>1. PICK o \in BOOLEAN : o = (history.overlap \/ \E q \in Reviewers \ {p} : reviewer[q].pc # "out")
  OBVIOUS
<1>2. PICK k \in Nat : k = history.started + 1
  BY DEF DecisionInv, DecisionTypes, Histories
<1>3. history' = [history EXCEPT !.started = k, !.overlap = o]
  BY <1>1, <1>2 DEF Enter
<1>4. history' \in Histories /\ history'.overlap = o
  BY <1>3 DEF DecisionInv, DecisionTypes, Histories
<1> QED
  BY <1>1, <1>4 DEF Enter, Become

\* Writing one of the files of a request, or being killed at it.
LEMMA Written ==
  ASSUME DecisionInv, NEW p \in Reviewers, NEW to \in Stage, NEW r,
         \/ reviewer' = [reviewer EXCEPT ![p] = to] /\ UNCHANGED history
         \/ reviewer' = [reviewer EXCEPT ![p] = Out] /\ history' = [history EXCEPT !.killed = TRUE]
  PROVE  /\ \E t \in {to, Out} : reviewer' = [reviewer EXCEPT ![p] = t]
         /\ Out \in Stage /\ history' \in Histories /\ history'.overlap = history.overlap
<1>1. CASE reviewer' = [reviewer EXCEPT ![p] = to] /\ UNCHANGED history
  BY <1>1 DEF DecisionInv, DecisionTypes, Histories, Stage, Out
<1>2. CASE reviewer' = [reviewer EXCEPT ![p] = Out] /\ history' = [history EXCEPT !.killed = TRUE]
  BY <1>2 DEF DecisionInv, DecisionTypes, Histories, Stage, Out
<1> QED
  BY <1>1, <1>2

\* The types of the rest.
LEMMA ReviewersStay ==
  ASSUME DecisionInv, NEW p \in Reviewers, NEW to \in Stage,
         reviewer' = [reviewer EXCEPT ![p] = to], history' \in Histories,
         asked' \in [Requests -> {"no", "yes", "torn"}],
         resolved' \in [Requests -> Resolutions \cup {Unanswered, "torn"}],
         effect' \in [Requests -> Resolutions \cup {Unanswered}],
         applied' \in [Requests -> Resolutions \cup {Unanswered, "torn"}]
  PROVE  DecisionTypes'
BY DEF DecisionInv, DecisionTypes

\* A step that only moves a command on, without acting or asking.
LEMMA MovedOn ==
  ASSUME DecisionInv, NEW p \in Reviewers, NEW to \in Stage,
         reviewer' = [reviewer EXCEPT ![p] = to], history' \in Histories,
         UNCHANGED <<resolved, effect, applied>>,
         asked' \in [Requests -> {"no", "yes", "torn"}],
         ~history'.overlap => ~history.overlap,
         \/ reviewer[p].pc # "out" \/ to.pc = "out"
         \/ ~history'.overlap => \A q \in Reviewers \ {p} : reviewer[q].pc = "out",
         to.pc = "asking" => resolved[to.request] = Unanswered,
         to.pc # "recording",
         to.pc = "resolving" => to.request \notin ReviewRequests
  PROVE  DecisionInv'
<1>1. DecisionTypes'
  BY ReviewersStay DEF DecisionInv, DecisionTypes
<1>2. ActedOn'
  BY Acted
<1>3. OneAsks'
  BY OneByOne
<1> QED
  BY <1>1, <1>2, <1>3 DEF DecisionInv

\* A command starts, goes on without writing anything, or throws.
LEMMA QuietSteps ==
  ASSUME DecisionInv, NEW p \in Reviewers,
         \/ \E r \in Questions : Ask(p, r)
         \/ \E r \in Requests, choice \in Resolutions : Decide(p, r, choice)
         \/ Unlink(p) \/ Suggest(p) \/ ApplyDecisions(p) \/ Throw(p)
  PROVE  DecisionInv'
<1>1. /\ reviewer[p] \in Stage /\ history \in Histories
      /\ asked \in [Requests -> {"no", "yes", "torn"}]
  BY DEF DecisionInv, DecisionTypes
<1>2. ASSUME NEW r \in Questions, Ask(p, r) PROVE DecisionInv'
  <2>1. PICK to : to = [pc |-> IF resolved[r] = Unanswered THEN "asking" ELSE "out", request |-> r]
    OBVIOUS
  <2>2. /\ to \in Stage /\ to.pc \in {"asking", "out"}
        /\ to.pc = "asking" => resolved[to.request] = Unanswered
    BY <2>1, RequestsAre DEF Stage
  <2>3. Enter(p, to) /\ UNCHANGED <<asked, resolved, effect, applied>>
    BY <1>2, <2>1 DEF Ask
  <2> QED
    BY <1>1, <2>2, <2>3, Entered, MovedOn
<1>3. ASSUME NEW r \in Requests, NEW choice \in Resolutions, Decide(p, r, choice) PROVE DecisionInv'
  <2>1. PICK to : to = [pc |-> FirstStep(r), request |-> r, choice |-> choice]
    OBVIOUS
  <2>2. /\ to \in Stage /\ to.pc \in {"reviewing", "resolving"}
        /\ to.pc = "resolving" => to.request \notin ReviewRequests
    BY <2>1 DEF Stage, FirstStep
  <2>3. Enter(p, to) /\ UNCHANGED <<asked, resolved, effect, applied>>
    BY <1>3, <2>1 DEF Decide
  <2> QED
    BY <1>1, <2>2, <2>3, Entered, MovedOn
<1>4. ASSUME Unlink(p) PROVE DecisionInv'
  <2>1. PICK to : to = Doing(p, "suggesting")
    OBVIOUS
  <2>2. /\ reviewer[p].pc = "unlinking" /\ reviewer' = [reviewer EXCEPT ![p] = to]
        /\ UNCHANGED <<resolved, effect, applied, history>>
    BY <1>4, <2>1 DEF Unlink, Become
  <2>3. to \in Stage /\ to.pc = "suggesting"
    BY <1>1, <2>1, <2>2 DEF Stage, Doing
  <2>4. asked' \in [Requests -> {"no", "yes", "torn"}]
    BY <1>1, <1>4 DEF Unlink
  <2> QED
    BY <1>1, <2>2, <2>3, <2>4, MovedOn
<1>5. ASSUME Suggest(p) PROVE DecisionInv'
  <2>1. ASSUME NEW to \in Stage, reviewer[p].pc = "suggesting",
               reviewer' = [reviewer EXCEPT ![p] = to], to.pc \in {"out", "asking"},
               to.pc = "asking" => resolved[to.request] = Unanswered
        PROVE  DecisionInv'
    BY <1>1, <1>5, <2>1, MovedOn DEF Suggest
  <2>2. Out \in Stage /\ Out.pc = "out"
    BY DEF Out, Stage
  <2>3. CASE Become(p, "suggesting", Out)
    BY <2>1, <2>2, <2>3 DEF Become
  <2>4. CASE \E s \in Recurring :
               Become(p, "suggesting",
                      IF resolved[s] = Unanswered THEN [pc |-> "asking", request |-> s] ELSE Out)
    <3>1. PICK s \in Suggestions :
               Become(p, "suggesting",
                      IF resolved[s] = Unanswered THEN [pc |-> "asking", request |-> s] ELSE Out)
      BY <2>4 DEF Recurring
    <3>2. PICK to : to = [pc |-> "asking", request |-> s]
      OBVIOUS
    <3>3. to \in Stage /\ to.pc = "asking" /\ to.request = s
      BY <3>2, RequestsAre DEF Stage
    <3>4. CASE resolved[s] = Unanswered
      BY <2>1, <3>1, <3>2, <3>3, <3>4 DEF Become
    <3>5. CASE resolved[s] # Unanswered
      BY <2>1, <2>2, <3>1, <3>5 DEF Become
    <3> QED
      BY <3>4, <3>5
  <2> QED
    BY <1>5, <2>3, <2>4 DEF Suggest
<1>6. ASSUME ApplyDecisions(p) PROVE DecisionInv'
  <2>1. PICK open : open = {s \in Suggestions : resolved[s] = "accept" /\ applied[s] = Unanswered}
    OBVIOUS
  <2>2. PICK to : to = [pc |-> "drafting", todo |-> open]
    OBVIOUS
  <2>3. to \in Stage /\ to.pc = "drafting"
    BY <2>1, <2>2 DEF Stage
  <2>4. Enter(p, to) /\ UNCHANGED <<asked, resolved, effect, applied>>
    BY <1>6, <2>1, <2>2 DEF ApplyDecisions
  <2> QED
    BY <1>1, <2>3, <2>4, Entered, MovedOn
<1>7. ASSUME Throw(p) PROVE DecisionInv'
  <2>1. /\ reviewer[p].pc # "out" /\ reviewer' = [reviewer EXCEPT ![p] = Out]
        /\ history' = [history EXCEPT !.killed = TRUE]
        /\ UNCHANGED <<asked, resolved, effect, applied>>
    BY <1>7 DEF Throw
  <2>2. Out \in Stage /\ Out.pc = "out" /\ history' \in Histories /\ history'.overlap = history.overlap
    BY <1>1, <2>1 DEF Out, Stage, Histories
  <2> QED
    BY <1>1, <2>1, <2>2, MovedOn
<1> QED
  BY <1>2, <1>3, <1>4, <1>5, <1>6, <1>7

\* A command writes: a request, a review, an answer, a draft, a record.
LEMMA AskedStep ==
  ASSUME DecisionInv, NEW p \in Reviewers, WriteRequest(p)
  PROVE  /\ DecisionInv'
         /\ \A r \in Requests :
              ~history'.overlap /\ asked[r] = "no" /\ asked'[r] = "yes" => resolved[r] = Unanswered
<1>1. /\ reviewer[p] \in Stage /\ history \in Histories
      /\ asked \in [Requests -> {"no", "yes", "torn"}]
  BY DEF DecisionInv, DecisionTypes
<1>2. /\ reviewer[p].pc = "asking"
      /\ UNCHANGED <<resolved, effect, applied>>
      /\ \/ reviewer' = [reviewer EXCEPT ![p] = Out] /\ UNCHANGED <<asked, history>>
         \/ Writes(p, asked, reviewer[p].request, "yes", Out)
  BY DEF WriteRequest, Become
<1>3. PICK r \in Requests : r = reviewer[p].request
  BY <1>1, <1>2 DEF Stage
<1>4. /\ asked' \in [Requests -> {"no", "yes", "torn"}]
      /\ \A s \in Requests \ {r} : asked'[s] = asked[s]
  BY <1>1, <1>2, <1>3 DEF Writes
<1>5. Out \in Stage /\ Out.pc = "out"
  BY DEF Out, Stage
<1>6. /\ reviewer' = [reviewer EXCEPT ![p] = Out]
      /\ history' \in Histories /\ history'.overlap = history.overlap
  <2>1. \/ reviewer' = [reviewer EXCEPT ![p] = Out] /\ UNCHANGED history
        \/ reviewer' = [reviewer EXCEPT ![p] = Out] /\ history' = [history EXCEPT !.killed = TRUE]
    BY <1>2 DEF Writes
  <2> QED
    BY <1>5, <2>1, Written
<1>7. DecisionInv'
  BY <1>2, <1>4, <1>5, <1>6, MovedOn
<1>8. ~history'.overlap => resolved[r] = Unanswered
  BY <1>2, <1>3, <1>6 DEF DecisionInv, OneAsks
<1> QED
  BY <1>4, <1>7, <1>8

LEMMA WritingSteps ==
  ASSUME DecisionInv, NEW p \in Reviewers,
         Review(p) \/ ResolveRequest(p) \/ Draft(p) \/ RecordApplied(p)
  PROVE  DecisionInv'
<1>1. /\ reviewer[p] \in Stage /\ history \in Histories
      /\ asked \in [Requests -> {"no", "yes", "torn"}]
      /\ resolved \in [Requests -> Resolutions \cup {Unanswered, "torn"}]
      /\ effect \in [Requests -> Resolutions \cup {Unanswered}]
      /\ applied \in [Requests -> Resolutions \cup {Unanswered, "torn"}]
  BY DEF DecisionInv, DecisionTypes
<1>2. Unanswered \notin Resolutions /\ "torn" \notin Resolutions /\ "torn" # Unanswered
  BY DEF Unanswered, Resolutions
<1>3. Out \in Stage /\ Out.pc = "out"
  BY DEF Out, Stage
<1>4. ASSUME Review(p) PROVE DecisionInv'
  <2>1. /\ reviewer[p].pc = "reviewing"
        /\ UNCHANGED <<asked, resolved, applied, history>>
    BY <1>4 DEF Review, Become
  <2>2. PICK r \in Requests, choice \in Resolutions :
          r = reviewer[p].request /\ choice = reviewer[p].choice
    BY <1>1, <2>1 DEF Stage
  <2>3. PICK to : to = Doing(p, "resolving")
    OBVIOUS
  <2>4. to \in Stage /\ to.pc = "resolving" /\ to.request = r /\ to.choice = choice
    BY <1>1, <2>1, <2>2, <2>3 DEF Stage, Doing
  <2>5. /\ reviewer' = [reviewer EXCEPT ![p] = to]
        /\ effect' = IF choice \in CarriedOut(r) THEN [effect EXCEPT ![r] = choice] ELSE effect
    BY <1>4, <2>2, <2>3 DEF Review, Become
  <2>6. /\ effect' \in [Requests -> Resolutions \cup {Unanswered}]
        /\ choice \in CarriedOut(r) => effect'[r] # Unanswered
        /\ \A s \in Requests : effect[s] # Unanswered => effect'[s] # Unanswered
    BY <1>1, <1>2, <2>5
  <2>7. DecisionTypes'
    BY <1>1, <2>1, <2>4, <2>5, <2>6, ReviewersStay
  <2>8. ActedOn'
    BY <2>1, <2>4, <2>5, <2>6, RequestsAre, Acted
  <2>9. OneAsks'
    BY <1>1, <2>1, <2>4, <2>5, OneByOne
  <2> QED
    BY <2>7, <2>8, <2>9 DEF DecisionInv
<1>5. ASSUME ResolveRequest(p) PROVE DecisionInv'
  <2>1. reviewer[p].pc = "resolving" /\ UNCHANGED <<asked, effect, applied>>
    BY <1>5 DEF ResolveRequest
  <2>2. PICK r \in Requests, choice \in Resolutions :
          r = reviewer[p].request /\ choice = reviewer[p].choice
    BY <1>1, <2>1 DEF Stage
  <2>3. PICK to : to = Doing(p, "unlinking")
    OBVIOUS
  <2>4. to \in Stage /\ to.pc = "unlinking"
    BY <1>1, <2>1, <2>3 DEF Stage, Doing
  <2>5. PICK t \in {to, Out} : reviewer' = [reviewer EXCEPT ![p] = t]
    BY <1>5, <2>2, <2>3, <2>4, Written DEF ResolveRequest, Writes
  <2>6. history' \in Histories /\ history'.overlap = history.overlap
    BY <1>5, <2>2, <2>3, <2>4, Written DEF ResolveRequest, Writes
  <2>7. PICK a \in {choice, "torn"} : resolved' = [resolved EXCEPT ![r] = a]
    BY <1>5, <2>2 DEF ResolveRequest, Writes
  <2>8. resolved' \in [Requests -> Resolutions \cup {Unanswered, "torn"}]
    BY <1>1, <2>7
  <2>9. DecisionTypes'
    BY <1>1, <1>3, <2>1, <2>4, <2>5, <2>6, <2>8, ReviewersStay
  <2>10. \A s \in ReviewRequests :
           resolved'[s] = resolved[s] \/ (resolved'[s] \in CarriedOut(s) => effect'[s] # Unanswered)
    <3>1. r \in ReviewRequests /\ a \in CarriedOut(r) => effect[r] # Unanswered
      <4>1. a \in CarriedOut(r) => a = choice
        BY <1>2, <2>7 DEF CarriedOut
      <4> QED
        BY <2>1, <2>2, <4>1 DEF DecisionInv, ActedOn
    <3> QED
      BY <1>1, <2>1, <2>7, <3>1, RequestsAre
  <2>11. ActedOn'
    BY <1>3, <2>1, <2>4, <2>5, <2>10, Acted
  <2>12. OneAsks'
    BY <1>1, <1>3, <2>1, <2>4, <2>5, <2>6, OneByOne
  <2> QED
    BY <2>9, <2>11, <2>12 DEF DecisionInv
<1>6. ASSUME Draft(p) PROVE DecisionInv'
  <2>1. reviewer[p].pc = "drafting" /\ UNCHANGED <<asked, resolved, applied, history>>
    BY <1>6 DEF Draft
  <2>2. PICK todo \in SUBSET Suggestions : todo = reviewer[p].todo
    BY <1>1, <2>1 DEF Stage
  <2>3. PICK s \in todo :
          /\ effect' = [effect EXCEPT ![s] = "accept"]
          /\ reviewer' = [reviewer EXCEPT ![p] = [pc |-> "recording", todo |-> todo \ {s}, request |-> s]]
    BY <1>6, <2>2 DEF Draft, Become
  <2>4. PICK to : to = [pc |-> "recording", todo |-> todo \ {s}, request |-> s]
    OBVIOUS
  <2>5. to \in Stage /\ to.pc = "recording" /\ to.request = s /\ s \in Requests
    BY <2>4, RequestsAre DEF Stage
  <2>6. /\ effect' \in [Requests -> Resolutions \cup {Unanswered}] /\ effect'[s] # Unanswered
        /\ \A r \in Requests : effect[r] # Unanswered => effect'[r] # Unanswered
    BY <1>1, <2>3, <2>5 DEF Resolutions, Unanswered
  <2>7. reviewer' = [reviewer EXCEPT ![p] = to]
    BY <2>3, <2>4
  <2>8. DecisionTypes'
    BY <1>1, <2>1, <2>5, <2>6, <2>7, ReviewersStay
  <2>9. ActedOn'
    BY <2>1, <2>5, <2>6, <2>7, Acted
  <2>10. OneAsks'
    BY <1>1, <2>1, <2>5, <2>7, OneByOne
  <2> QED
    BY <2>8, <2>9, <2>10 DEF DecisionInv
<1>7. ASSUME RecordApplied(p) PROVE DecisionInv'
  <2>1. reviewer[p].pc = "recording" /\ UNCHANGED <<asked, resolved, effect>>
    BY <1>7 DEF RecordApplied
  <2>2. PICK s \in Suggestions : s = reviewer[p].request
    BY <1>1, <2>1 DEF Stage
  <2>3. PICK to : to = IF reviewer[p].todo = {} THEN Out ELSE Doing(p, "drafting")
    OBVIOUS
  <2>4. to \in Stage /\ to.pc \in {"out", "drafting"}
    <3>1. Doing(p, "drafting") \in Stage /\ Doing(p, "drafting").pc = "drafting"
      BY <1>1, <2>1 DEF Stage, Doing
    <3> QED
      BY <1>3, <2>3, <3>1
  <2>5. Writes(p, applied, s, "accept", to)
    BY <1>7, <2>2, <2>3 DEF RecordApplied
  <2>6. PICK t \in {to, Out} : reviewer' = [reviewer EXCEPT ![p] = t]
    BY <2>4, <2>5, Written DEF Writes
  <2>7. history' \in Histories /\ history'.overlap = history.overlap
    BY <2>4, <2>5, Written DEF Writes
  <2>8. PICK a \in {"accept", "torn"} : applied' = [applied EXCEPT ![s] = a]
    BY <2>5 DEF Writes
  <2>9. applied' \in [Requests -> Resolutions \cup {Unanswered, "torn"}]
    BY <1>1, <2>8 DEF Resolutions
  <2>10. DecisionTypes'
    BY <1>1, <1>3, <2>1, <2>4, <2>6, <2>7, <2>9, ReviewersStay
  <2>11. \A r \in Requests : applied'[r] = applied[r] \/ effect'[r] # Unanswered
    BY <1>1, <2>1, <2>2, <2>8 DEF DecisionInv, ActedOn
  <2>12. ActedOn'
    BY <1>3, <2>1, <2>4, <2>6, <2>11, Acted
  <2>13. OneAsks'
    BY <1>1, <1>3, <2>1, <2>4, <2>6, <2>7, OneByOne
  <2> QED
    BY <2>10, <2>12, <2>13 DEF DecisionInv
<1> QED
  BY <1>4, <1>5, <1>6, <1>7

\* Only the write of a request asks, and it asks what has no answer.
LEMMA DecisionStep ==
  ASSUME DecisionInv, [DecisionNext]_decisionVars
  PROVE  /\ DecisionInv'
         /\ \A r \in Requests :
              ~history'.overlap /\ asked[r] = "no" /\ asked'[r] = "yes" => resolved[r] = Unanswered
<1>1. CASE UNCHANGED decisionVars
  BY <1>1 DEF decisionVars, DecisionInv, DecisionTypes, ActedOn, OneAsks, CarriedOut
<1>2. CASE DecisionNext
  <2>1. PICK p \in Reviewers :
          \/ \E r \in Questions : Ask(p, r)
          \/ WriteRequest(p)
          \/ \E r \in Requests, choice \in Resolutions : Decide(p, r, choice)
          \/ Review(p) \/ ResolveRequest(p) \/ Unlink(p) \/ Suggest(p)
          \/ ApplyDecisions(p) \/ Draft(p) \/ RecordApplied(p)
          \/ Throw(p)
    BY <1>2 DEF DecisionNext
  <2>2. CASE WriteRequest(p)
    BY <2>2, AskedStep
  <2>3. ASSUME asked' = asked \/ Unlink(p), DecisionInv'
        PROVE  /\ DecisionInv'
               /\ \A r \in Requests :
                    ~history'.overlap /\ asked[r] = "no" /\ asked'[r] = "yes" => resolved[r] = Unanswered
    <3>1. asked \in [Requests -> {"no", "yes", "torn"}]
      BY DEF DecisionInv, DecisionTypes
    <3> QED
      BY <2>3, <3>1 DEF Unlink
  <2>4. CASE \/ \E r \in Questions : Ask(p, r)
             \/ \E r \in Requests, choice \in Resolutions : Decide(p, r, choice)
             \/ Unlink(p) \/ Suggest(p) \/ ApplyDecisions(p) \/ Throw(p)
    <3>1. DecisionInv'
      BY <2>4, QuietSteps
    <3>2. asked' = asked \/ Unlink(p)
      BY <2>4 DEF Ask, Decide, Suggest, ApplyDecisions, Throw
    <3> QED
      BY <2>3, <3>1, <3>2
  <2>5. CASE Review(p) \/ ResolveRequest(p) \/ Draft(p) \/ RecordApplied(p)
    <3>1. DecisionInv'
      BY <2>5, WritingSteps
    <3>2. asked' = asked
      BY <2>5 DEF Review, ResolveRequest, Draft, RecordApplied
    <3> QED
      BY <2>3, <3>1, <3>2
  <2> QED
    BY <2>1, <2>2, <2>4, <2>5
<1> QED
  BY <1>1, <1>2

LEMMA DecisionsHold == DecisionSpec => []DecisionInv
<1>1. DecisionInv /\ [DecisionNext]_decisionVars => DecisionInv'
  BY DecisionStep
<1> QED
  BY <1>1, DecisionsBegin, PTL DEF DecisionSpec

\* Requests, answers, effects and records keep their values.
THEOREM DecisionTypesOK == DecisionSpec => []DecisionTypeOK
<1>1. DecisionInv => DecisionTypeOK
  BY DEF DecisionInv, DecisionTypes, DecisionTypeOK
<1> QED
  BY <1>1, DecisionsHold, PTL

\* What is on record as decided or applied has been carried out, however commands
\* interleave and are killed; and, where none overlapped, what has an answer is not
\* asked again: for any processes and requests (workflow decide, apply-decisions).
THEOREM AnsweredOnce == DecisionSpec => AnswersStand
<1>1. DecisionInv /\ DecisionInv' /\ [DecisionNext]_decisionVars =>
        [\A r \in Requests :
          /\ r \in ReviewRequests /\ resolved'[r] \in CarriedOut(r) => effect'[r] # Unanswered
          /\ applied'[r] # Unanswered => effect'[r] # Unanswered
          /\ ~history'.overlap /\ asked[r] = "no" /\ asked'[r] = "yes" => resolved[r] = Unanswered]_decisionVars
  <2> SUFFICES ASSUME DecisionInv, DecisionInv', [DecisionNext]_decisionVars, NEW r \in Requests
               PROVE  /\ r \in ReviewRequests /\ resolved'[r] \in CarriedOut(r) => effect'[r] # Unanswered
                      /\ applied'[r] # Unanswered => effect'[r] # Unanswered
                      /\ ~history'.overlap /\ asked[r] = "no" /\ asked'[r] = "yes"
                           => resolved[r] = Unanswered
    OBVIOUS
  <2>1. /\ r \in ReviewRequests /\ resolved'[r] \in CarriedOut(r)' => effect'[r] # Unanswered
        /\ applied'[r] # Unanswered => effect'[r] # Unanswered
    BY DEF DecisionInv, ActedOn
  <2>2. CarriedOut(r)' = CarriedOut(r)
    BY DEF CarriedOut, Resolutions
  <2> QED
    BY <2>1, <2>2, DecisionStep
<1> QED
  BY <1>1, DecisionsHold, PTL DEF DecisionSpec, AnswersStand

-----------------------------------------------------------------------------
(***************************************************************************)
(* ContextPacks.                                                           *)
(***************************************************************************)

\* Phases in which a process has the record of a pack.
Holding == {"packing", "filling", "packed", "listing", "newest", "naming"}

\* What a process carries, by what it is doing.
PackStage ==
  {Unoccupied}
    \cup [pc : Holding, record : Records]
    \cup [pc : {"listed"}, todo : SUBSET Records]
    \cup [pc : {"unlisted"}, todo : SUBSET Records, record : Records]

PackLogs == [started : Nat, overlap : BOOLEAN, raced : BOOLEAN, killed : BOOLEAN]

PackTypes ==
  /\ blobs \in [Outputs -> {"none", "part", "whole"}]
  /\ manifests \in [Outputs -> Records \cup {Unlisted, CutShort}]
  /\ latest \in Records \cup {Unlisted, CutShort}
  /\ packer \in [Packers -> PackStage]
  /\ packDay \in 0 .. PackHorizon
  /\ packLog \in PackLogs

\* A manifest is the one of its pack.
OwnManifests ==
  /\ \A c \in Outputs : manifests[c] \in Records =>
       manifests[c].of = c /\ manifests[c].updated <= packDay
  /\ \A p \in Packers : packer[p].pc \in Holding => packer[p].record.updated <= packDay

\* Nothing runs beside a clean, unless something raced with one.
CleansAlone ==
  ~packLog.raced => \A p \in Cleaning, q \in Packers : q = p \/ packer[q] = Unoccupied

\* What is listed, and what is about to be, has its blob.
BlobsFirst ==
  ~packLog.raced =>
    /\ \A c \in Outputs : manifests[c] \in Records => blobs[c] = "whole"
    /\ \A p \in Packers :
         /\ packer[p].pc \in {"packed", "listing"} => blobs[packer[p].record.of] = "whole"
         /\ packer[p].pc = "unlisted" => manifests[packer[p].record.of] = Unlisted

\* Unless commands overlapped, one runs at a time, and none beside a clean.
OneAtATime ==
  /\ packLog.raced => packLog.overlap
  /\ ~packLog.overlap =>
       \A p, q \in Packers : packer[p] # Unoccupied /\ packer[q] # Unoccupied => p = q

\* The pointer names the newest pack.
NewestNamed ==
  IF Listed = {} THEN latest = Unlisted
  ELSE latest \in Listed /\ \A r \in Listed : r.updated <= latest.updated

\* Of commands that run alone, the one there is leaves the pointer alone until it
\* has changed what is listed, and then has a newest pack for it, or will take one.
PointerFollows ==
  ~(packLog.overlap \/ packLog.killed) =>
    /\ (\A p \in Packers : packer[p] = Unoccupied) => NewestNamed
    /\ \A p \in Packers :
         /\ packer[p].pc \in {"packing", "filling", "packed"} => NewestNamed
         /\ packer[p].pc \in Holding =>
              \A r \in Listed : r.updated <= packer[p].record.updated
         /\ packer[p].pc \in {"newest", "naming"} => packer[p].record \in Listed

PackInv ==
  PackTypes /\ OwnManifests /\ CleansAlone /\ BlobsFirst /\ OneAtATime /\ PointerFollows

LEMMA RecordsAre ==
  /\ \A r \in Records : /\ r.of \in Outputs /\ r.updated \in 0 .. PackHorizon /\ r.updated \in Nat
                        /\ r.created \in 0 .. PackHorizon /\ r.expires \in 0 .. Never
                        /\ r # Unlisted /\ r # CutShort
  /\ PackHorizon \in Nat /\ Never \in Nat /\ Unlisted # CutShort
BY PackShape DEF Records, Never

LEMMA StagesAre ==
  /\ \A g \in PackStage :
       /\ g.pc \in Holding \cup {"listed", "unlisted", "unoccupied"}
       /\ g.pc \in Holding \cup {"unlisted"} => g.record \in Records
       /\ g.pc \in {"listed", "unlisted"} => g.todo \in SUBSET Records
       /\ g.pc = "unoccupied" <=> g = Unoccupied
  /\ Unoccupied \in PackStage /\ Unoccupied.pc = "unoccupied"
BY DEF PackStage, Holding, Unoccupied

\* A process goes on with what it carries.
LEMMA GoesOn ==
  ASSUME NEW p \in Packers, packer[p] \in PackStage, packer[p].pc \in Holding, NEW k \in Holding
  PROVE  On(p, k) \in PackStage /\ On(p, k).pc = k /\ On(p, k).record = packer[p].record
BY DEF On, PackStage, Holding, Unoccupied

LEMMA ListedAre ==
  ASSUME PackTypes
  PROVE  /\ \A c \in Outputs : manifests[c] \in Records => manifests[c] \in Listed
         /\ \A r \in Listed : r \in Records /\ \E c \in Outputs : manifests[c] = r
BY RecordsAre DEF PackTypes, Listed

LEMMA PacksBegin == PackInit => PackInv
<1> SUFFICES ASSUME PackInit PROVE PackInv
  OBVIOUS
<1>1. PICK known \in SUBSET Outputs :
       /\ blobs = [c \in Outputs |-> IF c \in known THEN "whole" ELSE "none"]
       /\ manifests = [c \in Outputs |-> IF c \in known THEN FirstRecord(c) ELSE Unlisted]
       /\ IF known = {} THEN latest = Unlisted ELSE latest \in {FirstRecord(c) : c \in known}
  BY DEF PackInit
<1>2. \A c \in Outputs : /\ FirstRecord(c) \in Records /\ FirstRecord(c).of = c
                         /\ FirstRecord(c).updated = 0
  BY RecordsAre DEF FirstRecord, Records
<1>3. /\ packer = [p \in Packers |-> Unoccupied] /\ packDay = 0
      /\ packLog = [started |-> 0, overlap |-> FALSE, raced |-> FALSE, killed |-> FALSE]
  BY DEF PackInit
<1>4. PackTypes
  <2>1. packLog \in PackLogs
    BY <1>3 DEF PackLogs
  <2>2. packer \in [Packers -> PackStage] /\ packDay \in 0 .. PackHorizon
    BY <1>3, StagesAre, RecordsAre
  <2>3. /\ blobs \in [Outputs -> {"none", "part", "whole"}]
        /\ manifests \in [Outputs -> Records \cup {Unlisted, CutShort}]
        /\ latest \in Records \cup {Unlisted, CutShort}
    BY <1>1, <1>2
  <2> QED
    BY <2>1, <2>2, <2>3 DEF PackTypes
<1>5. \A p \in Packers : packer[p] = Unoccupied /\ packer[p].pc = "unoccupied"
  BY <1>3, StagesAre
<1>6. OwnManifests
  BY <1>1, <1>2, <1>3, <1>5, RecordsAre DEF OwnManifests, Holding
<1>7. CleansAlone /\ OneAtATime
  BY <1>3, <1>5 DEF CleansAlone, OneAtATime, Cleaning
<1>8. BlobsFirst
  BY <1>1, <1>2, <1>5, RecordsAre DEF BlobsFirst
<1>9. NewestNamed
  <2>1. \A r \in Listed : r \in Records /\ r.updated = 0 /\ \E c \in known : r = FirstRecord(c)
    BY <1>1, <1>2, <1>4, ListedAre, RecordsAre
  <2>2. \A c \in known : FirstRecord(c) \in Listed
    BY <1>1, <1>2, <1>4, ListedAre
  <2> QED
    BY <1>1, <1>2, <2>1, <2>2, RecordsAre DEF NewestNamed
<1>10. PointerFollows
  BY <1>5, <1>9 DEF PointerFollows, Holding
<1> QED
  BY <1>4, <1>6, <1>7, <1>8, <1>10 DEF PackInv

\* Commands take turns: a process goes on, ends, or starts when it may.
LEMMA TakingTurns ==
  ASSUME PackInv, NEW p \in Packers, NEW to \in PackStage,
         packer' = [packer EXCEPT ![p] = to],
         ~packLog'.raced => ~packLog.raced, ~packLog'.overlap => ~packLog.overlap,
         packLog'.raced => packLog'.overlap,
         \/ /\ packer[p] # Unoccupied
            /\ to.pc \in {"listed", "unlisted"} => packer[p].pc \in {"listed", "unlisted"}
         \/ to = Unoccupied
         \/ /\ ~packLog'.overlap => \A q \in Packers \ {p} : packer[q] = Unoccupied
            /\ ~packLog'.raced => Cleaning = {}
            /\ ~packLog'.raced /\ to.pc \in {"listed", "unlisted"} =>
                 \A q \in Packers \ {p} : packer[q] = Unoccupied
  PROVE  CleansAlone' /\ OneAtATime'
<1>1. /\ packer \in [Packers -> PackStage] /\ packer'[p] = to
      /\ \A q \in Packers \ {p} : packer'[q] = packer[q]
  BY DEF PackInv, PackTypes
<1>2. OneAtATime'
  <2>1. ASSUME ~packLog'.overlap, NEW q \in Packers, NEW s \in Packers,
               packer'[q] # Unoccupied, packer'[s] # Unoccupied
        PROVE  q = s
    <3>1. \A i, j \in Packers : packer[i] # Unoccupied /\ packer[j] # Unoccupied => i = j
      BY <2>1 DEF PackInv, OneAtATime
    <3> QED
      BY <1>1, <2>1, <3>1
  <2> QED
    BY <2>1 DEF OneAtATime
<1>3. CleansAlone'
  <2>1. ASSUME ~packLog'.raced, NEW q \in Packers, NEW s \in Packers,
               packer'[q].pc \in {"listed", "unlisted"}, s # q
        PROVE  packer'[s] = Unoccupied
    <3>1. \A i, j \in Packers : packer[i].pc \in {"listed", "unlisted"} => j = i \/ packer[j] = Unoccupied
      BY <2>1 DEF PackInv, CleansAlone, Cleaning
    <3>2. Cleaning = {} => \A i \in Packers : packer[i].pc \notin {"listed", "unlisted"}
      BY DEF Cleaning
    <3> QED
      BY <1>1, <2>1, <3>1, <3>2, StagesAre
  <2> QED
    BY <2>1 DEF CleansAlone, Cleaning
<1> QED
  BY <1>2, <1>3

\* Blobs and manifests, when one process moves.
LEMMA BlobsKept ==
  ASSUME PackInv, NEW p \in Packers, NEW to \in PackStage,
         packer' = [packer EXCEPT ![p] = to],
         ~packLog'.raced => ~packLog.raced,
         ~packLog'.raced =>
           /\ \A c \in Outputs : manifests'[c] \in Records => blobs'[c] = "whole"
           /\ to.pc \in {"packed", "listing"} => blobs'[to.record.of] = "whole"
           /\ to.pc = "unlisted" => manifests'[to.record.of] = Unlisted
           /\ \/ \A q \in Packers \ {p} : packer[q] = Unoccupied
              \/ /\ \A c \in Outputs : blobs[c] = "whole" => blobs'[c] = "whole"
                 /\ \A q \in Packers \ {p} : packer[q].pc # "unlisted"
  PROVE  BlobsFirst'
<1> SUFFICES ASSUME ~packLog'.raced
             PROVE  /\ \A c \in Outputs : manifests'[c] \in Records => blobs'[c] = "whole"
                    /\ \A q \in Packers :
                         /\ packer'[q].pc \in {"packed", "listing"} => blobs'[packer'[q].record.of] = "whole"
                         /\ packer'[q].pc = "unlisted" => manifests'[packer'[q].record.of] = Unlisted
  BY DEF BlobsFirst, Records, Never
<1>1. /\ packer \in [Packers -> PackStage] /\ packer'[p] = to
      /\ \A q \in Packers \ {p} : packer'[q] = packer[q]
  BY DEF PackInv, PackTypes
<1>2. ASSUME NEW q \in Packers \ {p}, packer[q] # Unoccupied
      PROVE  /\ packer[q].pc \in {"packed", "listing"} => blobs'[packer[q].record.of] = "whole"
             /\ packer[q].pc # "unlisted"
  <2>1. packer[q].pc \in {"packed", "listing"} =>
          packer[q].record.of \in Outputs /\ blobs[packer[q].record.of] = "whole"
    <3>1. packer[q].pc \in {"packed", "listing"} => packer[q].record \in Records
      BY <1>1, StagesAre DEF Holding
    <3> QED
      BY <3>1, RecordsAre DEF PackInv, BlobsFirst
  <2> QED
    BY <1>2, <2>1
<1>3. Unoccupied.pc = "unoccupied"
  BY StagesAre
<1> QED
  BY <1>1, <1>2, <1>3

\* The pointer, when one process moves.
LEMMA PointerKept ==
  ASSUME PackInv, NEW p \in Packers, NEW to \in PackStage,
         packer' = [packer EXCEPT ![p] = to],
         ~packLog'.overlap => ~packLog.overlap, OneAtATime',
         packer[p] # Unoccupied \/ to # Unoccupied,
         ~(packLog'.overlap \/ packLog'.killed) =>
           /\ to.pc \in {"unoccupied", "packing", "filling", "packed"} => NewestNamed'
           /\ to.pc \in Holding => \A r \in Listed' : r.updated <= to.record.updated
           /\ to.pc \in {"newest", "naming"} => to.record \in Listed'
  PROVE  PointerFollows'
<1> SUFFICES ASSUME ~(packLog'.overlap \/ packLog'.killed)
             PROVE  /\ (\A q \in Packers : packer'[q] = Unoccupied) => NewestNamed'
                    /\ \A q \in Packers :
                         /\ packer'[q].pc \in {"packing", "filling", "packed"} => NewestNamed'
                         /\ packer'[q].pc \in Holding =>
                              \A r \in Listed' : r.updated <= packer'[q].record.updated
                         /\ packer'[q].pc \in {"newest", "naming"} => packer'[q].record \in Listed'
  BY DEF PointerFollows
<1>1. /\ packer \in [Packers -> PackStage] /\ packer'[p] = to
      /\ \A q \in Packers \ {p} : packer'[q] = packer[q]
  BY DEF PackInv, PackTypes
<1>2. \A q \in Packers \ {p} : packer'[q] = Unoccupied
  BY <1>1 DEF PackInv, OneAtATime
<1>3. Unoccupied.pc = "unoccupied"
  BY StagesAre
<1>4. Unoccupied.pc \notin Holding
  BY <1>3 DEF Holding
<1>5. (\A q \in Packers : packer'[q] = Unoccupied) => NewestNamed'
  BY <1>1, <1>3
<1>6. ASSUME NEW q \in Packers
      PROVE  /\ packer'[q].pc \in {"packing", "filling", "packed"} => NewestNamed'
             /\ packer'[q].pc \in Holding =>
                  \A r \in Listed' : r.updated <= packer'[q].record.updated
             /\ packer'[q].pc \in {"newest", "naming"} => packer'[q].record \in Listed'
  <2>1. CASE q = p
    BY <1>1, <2>1
  <2>2. CASE q # p
    BY <1>2, <1>3, <1>4, <2>2
  <2> QED
    BY <2>1, <2>2
<1> QED
  BY <1>5, <1>6

\* Manifests keep to their packs.
LEMMA ManifestsKept ==
  ASSUME PackInv, NEW p \in Packers, NEW to \in PackStage,
         packer' = [packer EXCEPT ![p] = to], UNCHANGED packDay,
         \A c \in Outputs : \/ manifests'[c] = manifests[c] \/ manifests'[c] \notin Records
                            \/ manifests'[c].of = c /\ manifests'[c].updated <= packDay,
         to.pc \in Holding => to.record.updated <= packDay
  PROVE  OwnManifests'
<1>1. /\ packer'[p] = to /\ \A q \in Packers \ {p} : packer'[q] = packer[q]
  BY DEF PackInv, PackTypes
<1>2. \A c \in Outputs : manifests'[c] \in Records =>
         manifests'[c].of = c /\ manifests'[c].updated <= packDay'
  BY DEF PackInv, OwnManifests
<1>3. \A q \in Packers : packer'[q].pc \in Holding => packer'[q].record.updated <= packDay'
  BY <1>1 DEF PackInv, OwnManifests
<1> QED
  BY <1>2, <1>3 DEF OwnManifests, Records, Never

\* The log of a command that starts.
LEMMA StartLogged ==
  ASSUME PackInv, NEW p \in Packers, packer[p] = Unoccupied, NEW cleans \in BOOLEAN, Starting(p, cleans)
  PROVE  /\ packLog' \in PackLogs
         /\ ~packLog'.raced => ~packLog.raced /\ Cleaning = {}
         /\ ~packLog'.raced /\ cleans => \A q \in Packers : packer[q] = Unoccupied
         /\ ~packLog'.overlap => ~packLog.overlap /\ \A q \in Packers : packer[q] = Unoccupied
         /\ packLog'.raced => packLog'.overlap
         /\ packLog'.killed = packLog.killed
<1>1. PICK others : others = {q \in Packers : packer[q] # Unoccupied}
  OBVIOUS
<1>2. PICK o \in BOOLEAN : o = (packLog.overlap \/ others # {})
  OBVIOUS
<1>3. PICK r \in BOOLEAN : r = (packLog.raced \/ (cleans /\ others # {}) \/ Cleaning # {})
  OBVIOUS
<1>4. PICK k \in Nat : k = packLog.started + 1
  BY DEF PackInv, PackTypes, PackLogs
<1>5. packLog' = [packLog EXCEPT !.started = k, !.overlap = o, !.raced = r]
  BY <1>1, <1>2, <1>3, <1>4 DEF Starting
<1>6. /\ packLog' \in PackLogs /\ packLog'.overlap = o /\ packLog'.raced = r
      /\ packLog'.killed = packLog.killed
  BY <1>5 DEF PackInv, PackTypes, PackLogs
<1>7. others = {} => Cleaning = {}
  BY <1>1, StagesAre DEF Cleaning
<1> QED
  BY <1>1, <1>2, <1>3, <1>6, <1>7 DEF PackInv, OneAtATime

\* A pack is started: nothing changes yet.
LEMMA PackStarts ==
  ASSUME PackInv, NEW p \in Packers, NEW c \in Outputs, NEW expires \in {packDay + 1, Never},
         Pack(p, c, expires)
  PROVE  PackInv'
<1>1. /\ packer \in [Packers -> PackStage] /\ manifests \in [Outputs -> Records \cup {Unlisted, CutShort}]
      /\ packDay \in 0 .. PackHorizon /\ packDay \in Nat
  BY RecordsAre DEF PackInv, PackTypes
<1>2. PICK old : old = manifests[c]
  OBVIOUS
<1>3. PICK known \in BOOLEAN : known = (old \notin {Unlisted, CutShort})
  OBVIOUS
<1>4. known => old \in Records /\ old.created \in 0 .. PackHorizon /\ old.expires \in 0 .. Never
  BY <1>1, <1>2, <1>3, RecordsAre
<1>5. PICK born \in 0 .. PackHorizon : born = IF known THEN old.created ELSE packDay
  BY <1>1, <1>4
<1>6. PICK ends \in 0 .. Never : ends = IF known /\ expires = Never THEN old.expires ELSE expires
  <2>1. expires \in 0 .. Never
    BY <1>1, RecordsAre DEF Never
  <2> QED
    BY <1>4, <2>1
<1>7. PICK record : record = [of |-> c, updated |-> packDay, created |-> born, expires |-> ends]
  OBVIOUS
<1>8. record \in Records /\ record.updated = packDay /\ record.updated <= packDay
  BY <1>1, <1>7 DEF Records
<1>9. PICK to : to = [pc |-> "packing", record |-> record]
  OBVIOUS
<1>10. to \in PackStage /\ to.pc = "packing" /\ to.record = record /\ to # Unoccupied
  <2>1. to \in PackStage /\ to.pc = "packing" /\ to.record = record
    BY <1>8, <1>9 DEF PackStage, Holding
  <2> QED
    BY <2>1, StagesAre
<1>11. /\ Starting(p, FALSE) /\ packer[p].pc = "unoccupied"
       /\ packer' = [packer EXCEPT ![p] = to]
       /\ UNCHANGED <<blobs, manifests, latest, packDay>>
  <2>1. Step(p, "unoccupied", to)
    BY <1>2, <1>3, <1>5, <1>6, <1>7, <1>9 DEF Pack
  <2> QED
    BY <2>1 DEF Pack, Step
<1>12. packer[p] = Unoccupied
  BY <1>1, <1>11, StagesAre
<1>13. /\ packLog' \in PackLogs
       /\ ~packLog'.raced => ~packLog.raced /\ Cleaning = {}
       /\ ~packLog'.overlap => ~packLog.overlap /\ \A q \in Packers : packer[q] = Unoccupied
       /\ packLog'.raced => packLog'.overlap
       /\ packLog'.killed = packLog.killed
  BY <1>11, <1>12, StartLogged
<1>14. PackTypes'
  BY <1>10, <1>11, <1>13 DEF PackInv, PackTypes
<1>15. CleansAlone' /\ OneAtATime'
  BY <1>10, <1>11, <1>13, TakingTurns
<1>16. OwnManifests'
  BY <1>1, <1>8, <1>10, <1>11, ManifestsKept
<1>17. BlobsFirst'
  <2>1. ~packLog'.raced => \A q \in Packers \ {p} : packer[q].pc # "unlisted"
    BY <1>13 DEF Cleaning
  <2> QED
    BY <1>10, <1>11, <1>13, <2>1, BlobsKept DEF PackInv, BlobsFirst
<1>18. PointerFollows'
  <2>1. Listed' = Listed /\ (NewestNamed => NewestNamed')
    BY <1>11 DEF Listed, NewestNamed
  <2>2. \A r \in Listed : r.updated <= packDay
    BY ListedAre DEF PackInv, OwnManifests
  <2>3. ~(packLog'.overlap \/ packLog'.killed) => NewestNamed
    BY <1>13 DEF PackInv, PointerFollows
  <2> QED
    BY <1>8, <1>10, <1>11, <1>13, <1>15, <2>1, <2>2, <2>3, PointerKept
<1> QED
  BY <1>14, <1>15, <1>16, <1>17, <1>18 DEF PackInv

\* A process that packs or points goes on.
LEMMA Packing ==
  ASSUME PackInv, NEW p \in Packers,
         \/ CreateBlob(p) \/ FillBlob(p) \/ CutManifest(p) \/ WriteManifest(p)
         \/ CutLatest(p) \/ WriteLatest(p)
  PROVE  PackInv'
<1>1. /\ packer[p] \in PackStage /\ packer \in [Packers -> PackStage]
      /\ manifests \in [Outputs -> Records \cup {Unlisted, CutShort}]
      /\ blobs \in [Outputs -> {"none", "part", "whole"}]
      /\ latest \in Records \cup {Unlisted, CutShort}
  BY DEF PackInv, PackTypes
<1>2. packer[p].pc \in Holding /\ UNCHANGED <<packDay, packLog>>
  BY DEF CreateBlob, FillBlob, CutManifest, WriteManifest, CutLatest, WriteLatest, Step, Holding
<1>3. PICK r \in Records : r = packer[p].record
  BY <1>1, <1>2, StagesAre
<1>4. packer[p] # Unoccupied /\ packer[p].pc \notin {"listed", "unlisted"}
  BY <1>2, StagesAre DEF Holding
<1>5. PICK c \in Outputs : c = r.of
  BY RecordsAre
<1>6. /\ \A k \in Holding : On(p, k) \in PackStage /\ On(p, k).pc = k /\ On(p, k).record = r
  BY <1>1, <1>2, <1>3, GoesOn
<1>7. ~packLog.raced => \A q \in Packers \ {p} : packer[q].pc \notin {"listed", "unlisted"}
  BY <1>4 DEF PackInv, CleansAlone, Cleaning
<1>8. r.updated <= packDay /\ r # Unlisted /\ r # CutShort
  BY <1>2, <1>3, RecordsAre DEF PackInv, OwnManifests
<1>9. ~(packLog.overlap \/ packLog.killed) => \A s \in Listed : s.updated <= r.updated
  BY <1>2, <1>3 DEF PackInv, PointerFollows
<1>10. ASSUME NEW k \in Holding, packer' = [packer EXCEPT ![p] = On(p, k)],
              blobs' \in [Outputs -> {"none", "part", "whole"}],
              manifests' \in [Outputs -> Records \cup {Unlisted, CutShort}],
              latest' \in Records \cup {Unlisted, CutShort},
              \A d \in Outputs : blobs[d] = "whole" => blobs'[d] = "whole",
              \A d \in Outputs : \/ manifests'[d] = manifests[d] \/ manifests'[d] \notin Records
                                 \/ ~packLog.raced => blobs[d] = "whole",
              \A d \in Outputs : \/ manifests'[d] = manifests[d] \/ manifests'[d] \notin Records
                                 \/ manifests'[d].of = d /\ manifests'[d].updated <= packDay,
              ~packLog.raced /\ k \in {"packed", "listing"} => blobs'[c] = "whole",
              ~(packLog.overlap \/ packLog.killed) =>
                /\ k \in {"packing", "filling", "packed"} => NewestNamed'
                /\ \A s \in Listed' : s.updated <= r.updated
                /\ k \in {"newest", "naming"} => r \in Listed'
       PROVE  PackInv'
  <2>1. PICK to \in PackStage : to = On(p, k)
    BY <1>6, <1>10
  <2>2. /\ to.pc = k /\ to.record = r /\ k \notin {"listed", "unlisted", "unoccupied"}
        /\ packer' = [packer EXCEPT ![p] = to]
    BY <1>6, <1>10, <2>1 DEF Holding
  <2>3. PackTypes'
    BY <1>2, <1>10, <2>2 DEF PackInv, PackTypes
  <2>4. CleansAlone' /\ OneAtATime'
    BY <1>2, <1>4, <2>2, TakingTurns DEF PackInv, OneAtATime
  <2>5. OwnManifests'
    BY <1>2, <1>8, <1>10, <2>2, ManifestsKept
  <2>6. BlobsFirst'
    <3>1. ASSUME ~packLog'.raced, NEW d \in Outputs, manifests'[d] \in Records PROVE blobs'[d] = "whole"
      <4>1. ~packLog.raced /\ (manifests[d] \in Records => blobs[d] = "whole")
        BY <1>2, <3>1 DEF PackInv, BlobsFirst
      <4> QED
        BY <1>10, <3>1, <4>1
    <3>2. ~packLog'.raced =>
            /\ to.pc \in {"packed", "listing"} => blobs'[to.record.of] = "whole"
            /\ to.pc # "unlisted"
            /\ \A d \in Outputs : blobs[d] = "whole" => blobs'[d] = "whole"
            /\ \A q \in Packers \ {p} : packer[q].pc # "unlisted"
      BY <1>2, <1>5, <1>7, <1>10, <2>2
    <3> QED
      BY <1>2, <2>2, <3>1, <3>2, BlobsKept
  <2>7. PointerFollows'
    <3>1. ~(packLog'.overlap \/ packLog'.killed) =>
            /\ to.pc \in {"unoccupied", "packing", "filling", "packed"} => NewestNamed'
            /\ \A s \in Listed' : s.updated <= to.record.updated
            /\ to.pc \in {"newest", "naming"} => to.record \in Listed'
      BY <1>2, <1>10, <2>2
    <3> QED
      BY <1>2, <1>4, <2>2, <2>4, <3>1, PointerKept
  <2> QED
    BY <2>3, <2>4, <2>5, <2>6, <2>7 DEF PackInv
<1>11. ASSUME UNCHANGED <<manifests, latest>>
       PROVE  /\ Listed' = Listed /\ (NewestNamed => NewestNamed')
  BY <1>11 DEF Listed, NewestNamed
<1>12. CASE CreateBlob(p)
  <2>1. packer[p].pc = "packing" /\ UNCHANGED <<manifests, latest>>
    BY <1>12 DEF CreateBlob
  <2>2. ~(packLog.overlap \/ packLog.killed) => NewestNamed
    BY <2>1 DEF PackInv, PointerFollows
  <2>3. CASE /\ packer' = [packer EXCEPT ![p] = On(p, "filling")] /\ blobs[c] = "none"
             /\ blobs' = [blobs EXCEPT ![c] = "part"]
    <3>1. /\ blobs' \in [Outputs -> {"none", "part", "whole"}] /\ "filling" \in Holding
          /\ \A d \in Outputs : blobs[d] = "whole" => blobs'[d] = "whole"
      BY <1>1, <2>3 DEF Holding
    <3> QED
      BY <1>1, <1>9, <1>10, <1>11, <2>1, <2>2, <2>3, <3>1
  <2>4. CASE packer' = [packer EXCEPT ![p] = On(p, "packed")] /\ blobs[c] = "whole" /\ blobs' = blobs
    <3>1. "packed" \in Holding
      BY DEF Holding
    <3> QED
      BY <1>1, <1>9, <1>10, <1>11, <2>1, <2>2, <2>4, <3>1
  <2> QED
    BY <1>3, <1>5, <1>12, <2>3, <2>4 DEF CreateBlob, Step
<1>13. CASE FillBlob(p)
  <2>1. /\ packer[p].pc = "filling" /\ UNCHANGED <<manifests, latest>>
        /\ packer' = [packer EXCEPT ![p] = On(p, "packed")]
        /\ blobs' = [blobs EXCEPT ![c] = "whole"]
    BY <1>3, <1>5, <1>13 DEF FillBlob, Step
  <2>2. ~(packLog.overlap \/ packLog.killed) => NewestNamed
    BY <2>1 DEF PackInv, PointerFollows
  <2>3. /\ blobs' \in [Outputs -> {"none", "part", "whole"}] /\ "packed" \in Holding /\ blobs'[c] = "whole"
        /\ \A d \in Outputs : blobs[d] = "whole" => blobs'[d] = "whole"
    BY <1>1, <2>1 DEF Holding
  <2> QED
    BY <1>1, <1>9, <1>10, <1>11, <2>1, <2>2, <2>3
<1>14. CASE CutManifest(p)
  <2>1. /\ packer[p].pc = "packed" /\ UNCHANGED <<blobs, latest>>
        /\ packer' = [packer EXCEPT ![p] = On(p, "listing")]
        /\ manifests' = [manifests EXCEPT ![c] = CutShort]
    BY <1>3, <1>5, <1>14 DEF CutManifest, Step
  <2>2. /\ manifests' \in [Outputs -> Records \cup {Unlisted, CutShort}] /\ "listing" \in Holding
        /\ \A d \in Outputs : manifests'[d] = manifests[d] \/ manifests'[d] \notin Records
    BY <1>1, <2>1, PackShape DEF Holding
  <2>3. ~packLog.raced => blobs'[c] = "whole"
    BY <1>3, <1>5, <2>1 DEF PackInv, BlobsFirst
  <2>4. Listed' \subseteq Listed
    BY <1>1, <2>1 DEF Listed
  <2> QED
    BY <1>1, <1>9, <1>10, <2>1, <2>2, <2>3, <2>4
<1>15. CASE WriteManifest(p)
  <2>1. /\ packer[p].pc = "listing" /\ UNCHANGED <<blobs, latest>>
        /\ packer' = [packer EXCEPT ![p] = On(p, "newest")]
        /\ manifests' = [manifests EXCEPT ![c] = r]
    BY <1>3, <1>5, <1>15 DEF WriteManifest, Step
  <2>2. /\ manifests' \in [Outputs -> Records \cup {Unlisted, CutShort}] /\ "newest" \in Holding
        /\ manifests'[c] = r /\ \A d \in Outputs \ {c} : manifests'[d] = manifests[d]
    BY <1>1, <2>1 DEF Holding
  <2>3. ~packLog.raced => blobs[c] = "whole"
    BY <1>3, <1>5, <2>1 DEF PackInv, BlobsFirst
  <2>4. Listed' \subseteq Listed \cup {r} /\ r \in Listed'
    BY <1>1, <1>8, <2>2 DEF Listed
  <2>5. \A s \in Records : s.updated \in Nat
    BY RecordsAre
  <2>6. r.updated <= r.updated
    BY <2>5
  <2> QED
    BY <1>1, <1>5, <1>8, <1>9, <1>10, <2>1, <2>2, <2>3, <2>4, <2>6
<1>16. CASE CutLatest(p)
  <2>1. /\ packer[p].pc = "newest" /\ UNCHANGED <<blobs, manifests>>
        /\ packer' = [packer EXCEPT ![p] = On(p, "naming")]
        /\ latest' = CutShort /\ "naming" \in Holding
    BY <1>3, <1>5, <1>16 DEF CutLatest, Step, Holding
  <2>2. Listed' = Listed
    BY <2>1 DEF Listed
  <2>3. ~(packLog.overlap \/ packLog.killed) => r \in Listed
    BY <1>3, <2>1 DEF PackInv, PointerFollows
  <2> QED
    BY <1>1, <1>9, <1>10, <2>1, <2>2, <2>3
<1>17. CASE WriteLatest(p)
  <2>1. /\ packer[p].pc = "naming" /\ UNCHANGED <<blobs, manifests>>
        /\ packer' = [packer EXCEPT ![p] = Unoccupied]
        /\ latest' = r
    BY <1>3, <1>17 DEF WriteLatest, Step
  <2>2. Listed' = Listed
    BY <2>1 DEF Listed
  <2>3. ~(packLog.overlap \/ packLog.killed) => r \in Listed
    BY <1>3, <2>1 DEF PackInv, PointerFollows
  <2>4. ~(packLog.overlap \/ packLog.killed) => NewestNamed'
    BY <1>9, <2>1, <2>2, <2>3 DEF NewestNamed
  <2>5. Unoccupied \in PackStage /\ Unoccupied.pc = "unoccupied" /\ Unoccupied.pc \notin Holding
    BY StagesAre DEF Holding
  <2>6. PackTypes'
    BY <1>1, <1>2, <2>1, <2>5 DEF PackInv, PackTypes
  <2>7. CleansAlone' /\ OneAtATime'
    BY <1>2, <1>4, <2>1, <2>5, TakingTurns DEF PackInv, OneAtATime
  <2>8. OwnManifests'
    BY <1>2, <2>1, <2>5, ManifestsKept
  <2>9. BlobsFirst'
    BY <1>2, <1>7, <2>1, <2>5, BlobsKept DEF PackInv, BlobsFirst
  <2>10. PointerFollows'
    BY <1>2, <1>4, <2>1, <2>4, <2>5, <2>7, PointerKept
  <2> QED
    BY <2>6, <2>7, <2>8, <2>9, <2>10 DEF PackInv
<1> QED
  BY <1>12, <1>13, <1>14, <1>15, <1>16, <1>17

\* A clean starts: nothing changes yet.
LEMMA CleanStarts ==
  ASSUME PackInv, NEW p \in Packers, NEW all \in BOOLEAN, NEW age, NEW expired \in BOOLEAN,
         Clean(p, all, age, expired)
  PROVE  PackInv'
<1>1. PICK todo : todo = Selected(all, age, expired)
  OBVIOUS
<1>2. todo \in SUBSET Records
  BY <1>1, ListedAre DEF Selected, PackInv
<1>3. PICK to : to = [pc |-> "listed", todo |-> todo]
  OBVIOUS
<1>4. to \in PackStage /\ to.pc = "listed" /\ to # Unoccupied /\ to.pc \notin Holding
  <2>1. to \in PackStage /\ to.pc = "listed"
    BY <1>2, <1>3 DEF PackStage
  <2> QED
    BY <2>1, StagesAre DEF Holding
<1>5. /\ Starting(p, TRUE) /\ packer[p].pc = "unoccupied"
      /\ packer' = [packer EXCEPT ![p] = to]
      /\ UNCHANGED <<blobs, manifests, latest, packDay>>
  BY <1>1, <1>3 DEF Clean, Step
<1>6. packer[p] = Unoccupied
  BY <1>5, StagesAre DEF PackInv, PackTypes
<1>7. /\ packLog' \in PackLogs
      /\ ~packLog'.raced => ~packLog.raced /\ Cleaning = {}
      /\ ~packLog'.raced => \A q \in Packers : packer[q] = Unoccupied
      /\ ~packLog'.overlap => ~packLog.overlap /\ \A q \in Packers : packer[q] = Unoccupied
      /\ packLog'.raced => packLog'.overlap
      /\ packLog'.killed = packLog.killed
  BY <1>5, <1>6, StartLogged
<1>8. PackTypes'
  BY <1>4, <1>5, <1>7 DEF PackInv, PackTypes
<1>9. CleansAlone' /\ OneAtATime'
  BY <1>4, <1>5, <1>7, TakingTurns
<1>10. OwnManifests'
  BY <1>4, <1>5, ManifestsKept
<1>11. BlobsFirst'
  BY <1>4, <1>5, <1>7, BlobsKept DEF PackInv, BlobsFirst
<1>12. PointerFollows'
  <2>1. to.pc \notin {"unoccupied", "packing", "filling", "packed", "newest", "naming"}
    BY <1>4
  <2> QED
    BY <1>4, <1>5, <1>7, <1>9, <2>1, PointerKept
<1> QED
  BY <1>8, <1>9, <1>10, <1>11, <1>12 DEF PackInv

\* A clean goes on, and one at its end points to what is left.
LEMMA CleanGoesOn ==
  ASSUME PackInv, NEW p \in Packers, RemoveManifest(p) \/ RemoveBlob(p) \/ RefreshLatest(p)
  PROVE  PackInv'
<1>1. /\ packer[p] \in PackStage /\ packer \in [Packers -> PackStage]
      /\ manifests \in [Outputs -> Records \cup {Unlisted, CutShort}]
      /\ blobs \in [Outputs -> {"none", "part", "whole"}]
      /\ latest \in Records \cup {Unlisted, CutShort}
  BY DEF PackInv, PackTypes
<1>2. packer[p].pc \in {"listed", "unlisted"} /\ UNCHANGED <<packDay, packLog>>
  BY DEF RemoveManifest, RemoveBlob, RefreshLatest, Step
<1>3. PICK todo \in SUBSET Records : todo = packer[p].todo
  BY <1>1, <1>2, StagesAre
<1>4. packer[p] # Unoccupied
  BY <1>2, StagesAre
<1>5. ~packLog.raced => \A q \in Packers \ {p} : packer[q] = Unoccupied
  BY <1>2 DEF PackInv, CleansAlone, Cleaning
<1>6. ASSUME NEW to \in PackStage, packer' = [packer EXCEPT ![p] = to],
             blobs' \in [Outputs -> {"none", "part", "whole"}],
             manifests' \in [Outputs -> Records \cup {Unlisted, CutShort}],
             latest' \in Records \cup {Unlisted, CutShort},
             \A c \in Outputs : manifests'[c] = manifests[c] \/ manifests'[c] \notin Records,
             to.pc \in Holding => to.record.updated <= packDay,
             ~packLog.raced =>
               /\ \A c \in Outputs : manifests'[c] \in Records => blobs'[c] = "whole"
               /\ to.pc \notin {"packed", "listing"}
               /\ to.pc = "unlisted" => manifests'[to.record.of] = Unlisted,
             ~(packLog.overlap \/ packLog.killed) =>
               /\ to.pc \in {"unoccupied", "packing", "filling", "packed"} => NewestNamed'
               /\ to.pc \in Holding => \A r \in Listed' : r.updated <= to.record.updated
               /\ to.pc \in {"newest", "naming"} => to.record \in Listed'
      PROVE  PackInv'
  <2>1. PackTypes'
    BY <1>2, <1>6 DEF PackInv, PackTypes
  <2>2. CleansAlone' /\ OneAtATime'
    BY <1>2, <1>4, <1>6, TakingTurns DEF PackInv, OneAtATime
  <2>3. OwnManifests'
    BY <1>2, <1>6, ManifestsKept
  <2>4. BlobsFirst'
    <3>1. ~packLog'.raced =>
           /\ \A c \in Outputs : manifests'[c] \in Records => blobs'[c] = "whole"
           /\ to.pc \notin {"packed", "listing"}
           /\ to.pc = "unlisted" => manifests'[to.record.of] = Unlisted
           /\ \A q \in Packers \ {p} : packer[q] = Unoccupied
      BY <1>2, <1>5, <1>6
    <3> QED
      BY <1>2, <1>6, <3>1, BlobsKept
  <2>5. PointerFollows'
    <3>1. ~(packLog'.overlap \/ packLog'.killed) =>
            /\ to.pc \in {"unoccupied", "packing", "filling", "packed"} => NewestNamed'
            /\ to.pc \in Holding => \A r \in Listed' : r.updated <= to.record.updated
            /\ to.pc \in {"newest", "naming"} => to.record \in Listed'
      BY <1>2, <1>6
    <3> QED
      BY <1>2, <1>4, <1>6, <2>2, <3>1, PointerKept
  <2> QED
    BY <2>1, <2>2, <2>3, <2>4, <2>5 DEF PackInv
<1>7. CASE RemoveManifest(p)
  <2>1. PICK r \in todo :
          /\ packer' = [packer EXCEPT ![p] = [pc |-> "unlisted", todo |-> todo \ {r}, record |-> r]]
          /\ manifests' = [manifests EXCEPT ![r.of] = Unlisted]
          /\ UNCHANGED <<blobs, latest>>
    BY <1>3, <1>7 DEF RemoveManifest
  <2>2. PICK to : to = [pc |-> "unlisted", todo |-> todo \ {r}, record |-> r]
    OBVIOUS
  <2>3. to \in PackStage /\ to.pc = "unlisted" /\ to.record = r /\ to.pc \notin Holding
    BY <2>1, <2>2 DEF PackStage, Holding
  <2>4. r.of \in Outputs /\ Unlisted \notin Records
    BY <2>1, RecordsAre
  <2>5. /\ manifests' \in [Outputs -> Records \cup {Unlisted, CutShort}]
        /\ \A c \in Outputs : manifests'[c] = manifests[c] \/ manifests'[c] \notin Records
        /\ manifests'[r.of] = Unlisted
    BY <1>1, <2>1, <2>4
  <2>6. ~packLog.raced => \A c \in Outputs : manifests'[c] \in Records => blobs'[c] = "whole"
    BY <2>1, <2>5 DEF PackInv, BlobsFirst
  <2> QED
    BY <1>1, <1>6, <2>1, <2>2, <2>3, <2>5, <2>6
<1>8. CASE RemoveBlob(p)
  <2>1. packer[p].pc = "unlisted"
    BY <1>8 DEF RemoveBlob, Step
  <2>2. PICK c \in Outputs : c = packer[p].record.of
    BY <1>1, <2>1, StagesAre, RecordsAre
  <2>3. PICK to : to = [pc |-> "listed", todo |-> todo]
    OBVIOUS
  <2>4. to \in PackStage /\ to.pc = "listed" /\ to.pc \notin Holding
    BY <2>3 DEF PackStage, Holding
  <2>5. /\ packer' = [packer EXCEPT ![p] = to] /\ blobs' = [blobs EXCEPT ![c] = "none"]
        /\ UNCHANGED <<manifests, latest>>
    BY <1>3, <1>8, <2>2, <2>3 DEF RemoveBlob, Step
  <2>6. ~packLog.raced => manifests[c] = Unlisted
    BY <2>1, <2>2 DEF PackInv, BlobsFirst
  <2>7. ~packLog.raced => \A d \in Outputs : manifests'[d] \in Records => blobs'[d] = "whole"
    BY <1>1, <2>5, <2>6, PackShape DEF PackInv, BlobsFirst
  <2>8. blobs' \in [Outputs -> {"none", "part", "whole"}]
    BY <1>1, <2>5
  <2> QED
    BY <1>1, <1>6, <2>4, <2>5, <2>7, <2>8
<1>9. CASE RefreshLatest(p)
  <2>1. UNCHANGED <<blobs, manifests>> /\ Listed' = Listed
    BY <1>9 DEF RefreshLatest, Listed
  <2>2. ~packLog.raced => \A d \in Outputs : manifests'[d] \in Records => blobs'[d] = "whole"
    BY <2>1 DEF PackInv, BlobsFirst
  <2>3. CASE Listed = {} /\ latest' = Unlisted /\ packer' = [packer EXCEPT ![p] = Unoccupied]
    <3>1. NewestNamed'
      BY <2>1, <2>3 DEF NewestNamed
    <3>2. Unoccupied \in PackStage /\ Unoccupied.pc = "unoccupied" /\ Unoccupied.pc \notin Holding
      BY StagesAre DEF Holding
    <3> QED
      BY <1>1, <1>6, <2>1, <2>2, <2>3, <3>1, <3>2
  <2>4. CASE \E r \in Listed :
          /\ \A s \in Listed : s.updated <= r.updated
          /\ packer' = [packer EXCEPT ![p] = [pc |-> "newest", record |-> r]]
          /\ UNCHANGED latest
    <3>1. PICK r \in Listed :
            /\ \A s \in Listed : s.updated <= r.updated
            /\ packer' = [packer EXCEPT ![p] = [pc |-> "newest", record |-> r]]
            /\ UNCHANGED latest
      BY <2>4
    <3>2. r \in Records /\ r.updated <= packDay
      BY ListedAre DEF PackInv, OwnManifests
    <3>3. PICK to : to = [pc |-> "newest", record |-> r]
      OBVIOUS
    <3>4. to \in PackStage /\ to.pc = "newest" /\ to.record = r
      BY <3>2, <3>3 DEF PackStage, Holding
    <3> QED
      BY <1>1, <1>6, <2>1, <2>2, <3>1, <3>2, <3>3, <3>4
  <2> QED
    BY <1>9, <2>3, <2>4 DEF RefreshLatest
<1> QED
  BY <1>7, <1>8, <1>9

\* A process is gone, and a day.
LEMMA Quits ==
  ASSUME PackInv, NEW p \in Packers, Quit(p)
  PROVE  PackInv'
<1>1. /\ packer' = [packer EXCEPT ![p] = Unoccupied] /\ packer[p] # Unoccupied
      /\ packLog' = [packLog EXCEPT !.killed = TRUE]
      /\ UNCHANGED <<blobs, manifests, latest, packDay>>
  BY DEF Quit
<1>2. /\ packLog' \in PackLogs /\ packLog'.killed
      /\ packLog'.raced = packLog.raced /\ packLog'.overlap = packLog.overlap
  BY <1>1 DEF PackInv, PackTypes, PackLogs
<1>3. Unoccupied \in PackStage /\ Unoccupied.pc = "unoccupied" /\ Unoccupied.pc \notin Holding
  BY StagesAre DEF Holding
<1>4. PackTypes'
  BY <1>1, <1>2, <1>3 DEF PackInv, PackTypes
<1>5. CleansAlone' /\ OneAtATime'
  BY <1>1, <1>2, <1>3, TakingTurns DEF PackInv, OneAtATime
<1>6. OwnManifests'
  BY <1>1, <1>3, ManifestsKept
<1>7. BlobsFirst'
  <2>1. ASSUME ~packLog'.raced, NEW q \in Packers,
               packer'[q].pc \in {"packed", "listing", "unlisted"}
        PROVE  packer'[q] = packer[q]
    BY <1>1, <1>3, <2>1 DEF PackInv, PackTypes
  <2> QED
    BY <1>1, <1>2, <2>1 DEF PackInv, BlobsFirst
<1>8. PointerFollows'
  BY <1>2 DEF PointerFollows
<1> QED
  BY <1>4, <1>5, <1>6, <1>7, <1>8 DEF PackInv

LEMMA DayPasses == ASSUME PackInv, AnotherDay PROVE PackInv'
<1>1. /\ packDay \in 0 .. PackHorizon /\ packDay < PackHorizon /\ packDay' = packDay + 1
      /\ UNCHANGED <<blobs, manifests, latest, packer, packLog>>
  BY DEF AnotherDay, PackInv, PackTypes
<1>2. packDay' \in 0 .. PackHorizon
  BY <1>1, PackShape
<1>3. \A r \in Records : r.updated <= packDay => r.updated <= packDay'
  BY <1>1, RecordsAre
<1>4. PackTypes'
  BY <1>1, <1>2 DEF PackInv, PackTypes
<1>5. OwnManifests'
  BY <1>1, <1>3, StagesAre DEF PackInv, PackTypes, OwnManifests
<1>6. Listed' = Listed /\ (NewestNamed => NewestNamed')
  BY <1>1 DEF Listed, NewestNamed
<1>7. CleansAlone' /\ BlobsFirst' /\ OneAtATime' /\ PointerFollows'
  BY <1>1, <1>6 DEF PackInv, CleansAlone, Cleaning, BlobsFirst, OneAtATime, PointerFollows
<1> QED
  BY <1>4, <1>5, <1>7 DEF PackInv

LEMMA PacksHold == PackSpec => []PackInv
<1>1. ASSUME PackInv, [PackNext]_packVars PROVE PackInv'
  <2>1. CASE UNCHANGED packVars
    <3>1. UNCHANGED <<blobs, manifests, latest, packer, packDay, packLog>>
      BY <2>1 DEF packVars
    <3>2. Listed' = Listed /\ (NewestNamed => NewestNamed')
      BY <3>1 DEF Listed, NewestNamed
    <3>3. PackTypes' /\ OwnManifests'
      BY <1>1, <3>1 DEF PackInv, PackTypes, OwnManifests
    <3>4. CleansAlone' /\ BlobsFirst' /\ OneAtATime' /\ PointerFollows'
      BY <1>1, <3>1, <3>2 DEF PackInv, CleansAlone, Cleaning, BlobsFirst, OneAtATime, PointerFollows
    <3> QED
      BY <3>3, <3>4 DEF PackInv
  <2>2. CASE AnotherDay
    BY <1>1, <2>2, DayPasses
  <2>3. ASSUME NEW p \in Packers,
               \/ \E c \in Outputs, expires \in {packDay + 1, Never} : Pack(p, c, expires)
               \/ CreateBlob(p) \/ FillBlob(p) \/ CutManifest(p) \/ WriteManifest(p)
               \/ CutLatest(p) \/ WriteLatest(p)
               \/ \E all, expired \in BOOLEAN, age \in {1, Never} : Clean(p, all, age, expired)
               \/ RemoveManifest(p) \/ RemoveBlob(p) \/ RefreshLatest(p)
               \/ Quit(p)
        PROVE  PackInv'
    BY <1>1, <2>3, PackStarts, Packing, CleanStarts, CleanGoesOn, Quits
  <2> QED
    BY <1>1, <2>1, <2>2, <2>3 DEF PackNext
<1> QED
  BY <1>1, PacksBegin, PTL DEF PackSpec

\* Blobs, manifests and the pointer keep their values.
THEOREM PackTypesOK == PackSpec => []PackTypeOK
<1>1. PackInv => PackTypeOK
  BY DEF PackInv, PackTypes, PackTypeOK
<1> QED
  BY <1>1, PacksHold, PTL

\* A listed pack has its blob, unless something ran beside a clean, and after commands
\* that ran alone to their end the pointer names the newest pack: for any processes,
\* contents and days (packContext, cleanContextPacks).
THEOREM PacksAreThere == PackSpec => []ListedPacksAreThere
<1>1. PackInv => ListedPacksAreThere
  <2> SUFFICES ASSUME PackInv PROVE ListedPacksAreThere
    OBVIOUS
  <2>1. ~packLog.raced => \A r \in Listed : blobs[r.of] = "whole"
    <3>1. \A r \in Listed : r \in Records /\ \E c \in Outputs : manifests[c] = r /\ r.of = c
      BY ListedAre DEF PackInv, OwnManifests
    <3> QED
      BY <3>1 DEF PackInv, BlobsFirst
  <2>2. ~(packLog.overlap \/ packLog.killed) /\ (\A p \in Packers : packer[p] = Unoccupied) => NewestNamed
    BY DEF PackInv, PointerFollows
  <2> QED
    BY <2>1, <2>2 DEF ListedPacksAreThere, NewestNamed
<1> QED
  BY <1>1, PacksHold, PTL

-----------------------------------------------------------------------------
(***************************************************************************)
(* QueryCache, for any number of hooks and queries, any similarity, any    *)
(* time to live and any caps.                                              *)
(*                                                                         *)
(* CInv ties the three places an entry lives in (the index file, the copy  *)
(* a process holds, the payload file) to the clock: an entry never         *)
(* outlives the payload it lists, even when another process has replaced   *)
(* the file in the meantime, because a file is only replaced by a younger  *)
(* one.  From it, step by step, the cache implements FreshCache.           *)
(*                                                                         *)
(* LInv follows one save from its payload to the written index: as long as *)
(* the process carries no mark the others rest, its payload and its entry  *)
(* are there, and pruning has no reason to pop it.                         *)
(***************************************************************************)
(* What an index may list, and what a process may hold. *)

Pcs == Stages \cup {"resting", "asking", "indexing", "warming", "persisting", "writing", "answering"}

HookState ==
  [pc : Pcs, query : CacheKeys, at : Nat, held : SUBSET Entry,
   hit : SUBSET [key : CacheKeys, at : Nat],
   next : Stages \cup {"asking", "answering", "resting"},
   marks : SUBSET {"overlap", "expired", "tie"}]

FileState == [form : {"gone", "torn", "whole"}, at : Nat]

Types ==
  /\ index \in [form : {"whole", "cut", "garbled"}, entries : SUBSET Entry]
  /\ payload \in [CacheKeys -> FileState]
  /\ hook \in [Hooks -> HookState]
  /\ clock \in Nat /\ started \in Nat
  /\ \A k \in CacheKeys : payload[k].at <= clock

\* An entry does not outlive the payload it lists, nor any written from now on.
Backs(e) ==
  /\ e.expires <= clock + LifeTime[e.key]
  /\ payload[e.key].form = "whole" => e.expires <= payload[e.key].at + LifeTime[e.key]

Looks(r) ==
  \/ r.pc \in Stages \cup {"answering"}
  \/ r.pc \in {"persisting", "writing"} /\ r.next # "resting"

Sane(r) ==
  /\ r.at <= clock
  /\ \A e \in r.held : Backs(e)
  /\ r.pc = "indexing" /\ payload[r.query].form = "whole" => r.at <= payload[r.query].at
  /\ r.hit # {} =>
       \/ r.pc = "answering"
       \/ r.pc \in {"persisting", "writing"} /\ r.next = "answering"
  /\ r.pc = "warming" => r.next = "resting"
  /\ Looks(r) => \A e \in r.held : e.expires > r.at

CInv ==
  /\ Types
  /\ \A e \in index.entries : Backs(e)
  /\ \A h \in Hooks : Sane(hook[h])

LEMMA Forms ==
  /\ Gone \in FileState /\ Torn \in FileState
  /\ \A n \in Nat : Whole(n) \in FileState /\ Whole(n).form = "whole" /\ Whole(n).at = n
  /\ Gone.form = "gone" /\ Torn.form = "torn"
BY DEF Gone, Torn, Whole, FileState

LEMMA InitCInv == CacheInit => CInv
BY CacheShape DEF CacheInit, CInv, Types, Sane, Looks, Resting, HookState, FileState, Gone, Pcs,
   CacheKeys, Stages

\* A process that takes a step becomes `to`; the others are marked at most.
Moved(h, to) ==
  /\ hook'[h] = to
  /\ \A g \in Hooks \ {h} :
       \/ hook[g].pc = "resting" /\ hook'[g] = hook[g]
       \/ hook[g].pc # "resting" /\ hook'[g] = [hook[g] EXCEPT !.marks = @ \cup {"overlap"}]

LEMMA Went ==
  ASSUME Types, NEW h \in Hooks, NEW from, NEW to \in HookState, Go(h, from, to)
  PROVE  hook[h].pc = from /\ hook' \in [Hooks -> HookState] /\ Moved(h, to)
BY DEF Go, Types, HookState, Moved, Others

\* What the files may become in one step.
Aged ==
  /\ clock' \in Nat /\ clock <= clock'
  /\ payload' \in [CacheKeys -> FileState]
  /\ \A k \in CacheKeys :
       payload'[k] \in {payload[k], Gone, Torn, Whole(clock)}

LEMMA StaysSane ==
  ASSUME Types, Aged
  PROVE  /\ \A k \in CacheKeys : payload'[k].at <= clock'
         /\ \A e \in Entry : Backs(e) => Backs(e)'
         /\ \A r \in HookState : Sane(r) => Sane(r)'
<1>1. \A k \in CacheKeys : \/ payload'[k] = payload[k]
                           \/ payload'[k].form # "whole" /\ payload'[k].at = 0
                           \/ payload'[k].at = clock
  BY DEF Aged, Gone, Torn, Whole
<1>2. \A k \in CacheKeys : payload'[k].at <= clock'
  BY <1>1 DEF Aged, Types, FileState
<1>3. \A e \in Entry : Backs(e) => Backs(e)'
  <2> SUFFICES ASSUME NEW e \in Entry, Backs(e)
               PROVE  Backs(e)'
    OBVIOUS
  <2>1. e.key \in CacheKeys /\ e.expires \in Nat /\ LifeTime[e.key] \in Nat
    BY CacheShape DEF Entry
  <2>2. payload[e.key].at \in Nat /\ payload'[e.key].at \in Nat
    BY <2>1 DEF Types, Aged, FileState
  <2> QED
    BY <1>1, <2>1, <2>2 DEF Backs, Aged, Types
<1>4. ASSUME NEW r \in HookState, Sane(r)
      PROVE  Sane(r)'
  <2>1. r.query \in CacheKeys /\ r.at \in Nat /\ r.held \subseteq Entry
    BY DEF HookState
  <2>2. payload[r.query].at \in Nat /\ payload'[r.query].at \in Nat
    BY <2>1 DEF Types, Aged, FileState
  <2>3. \A e \in r.held : Backs(e)'
    BY <1>3, <1>4, <2>1 DEF Sane
  <2>4. Looks(r)' = Looks(r)
    BY DEF Looks
  <2> QED
    BY <1>1, <1>4, <2>1, <2>2, <2>3, <2>4 DEF Sane, Aged, Types
<1> QED
  BY <1>2, <1>3, <1>4

LEMMA MarksAside ==
  ASSUME NEW r \in HookState, NEW m
  PROVE  Sane([r EXCEPT !.marks = m]) = Sane(r)
BY DEF HookState, Sane, Looks

\* A step keeps the invariant when what the process becomes is sane.
LEMMA Steps ==
  ASSUME CInv, Aged, NEW h \in Hooks, NEW from, NEW to \in HookState, Go(h, from, to), Sane(to)',
         started' \in Nat,
         index' \in [form : {"whole", "cut", "garbled"}, entries : SUBSET Entry],
         \A e \in index'.entries : Backs(e)'
  PROVE  CInv'
<1>1. hook' \in [Hooks -> HookState] /\ Moved(h, to)
  BY Went DEF CInv
<1>2. ASSUME NEW g \in Hooks PROVE Sane(hook[g])'
  <2>1. CASE g = h
    BY <1>1, <2>1 DEF Moved
  <2>2. CASE g # h
    <3>1. PICK r \in HookState : r = hook[g]
      BY DEF CInv, Types
    <3>2. Sane(r)'
      BY <3>1, StaysSane DEF CInv
    <3>3. hook'[g] = r \/ hook'[g] = [r EXCEPT !.marks = @ \cup {"overlap"}]
      BY <1>1, <2>2, <3>1 DEF Moved
    <3>4. Sane(hook[g])' = Sane(r)'
      BY <3>3 DEF HookState, Sane, Looks
    <3> QED
      BY <3>2, <3>4
  <2> QED
    BY <2>1, <2>2
<1> QED
  BY <1>1, <1>2, StaysSane DEF CInv, Types, Aged

LEMMA Pruned ==
  ASSUME NEW es, NEW kept \in Prunings(es)
  PROVE  /\ kept \subseteq es
         /\ \A e \in kept : e.expires > clock /\ payload[e.key] # Gone
BY DEF Prunings, Live

LEMMA PrunedFiles ==
  ASSUME Types, NEW es, NEW kept, Prune(es, kept), UNCHANGED clock
  PROVE  Aged
BY DEF Types, Prune, Aged, FileState, Gone

LEMMA OneFile ==
  ASSUME Types, NEW k, NEW f \in {Gone, Torn, Whole(clock)}, payload' = [payload EXCEPT ![k] = f],
         UNCHANGED clock
  PROVE  Aged
<1>1. payload \in [CacheKeys -> FileState] /\ f \in FileState /\ clock \in Nat
  BY Forms DEF Types
<1>2. payload' \in [CacheKeys -> FileState]
  BY <1>1
<1>3. \A j \in CacheKeys : payload'[j] = payload[j] \/ payload'[j] = f
  BY <1>1
<1>4. clock <= clock'
  BY <1>1
<1> QED
  BY <1>1, <1>2, <1>3, <1>4 DEF Aged

LEMMA ParsedFacts ==
  ASSUME CInv
  PROVE  Parsed \subseteq Entry /\ \A e \in Parsed : Backs(e)
BY DEF CInv, Types, Parsed

LEMMA CacheInvStep ==
  ASSUME CInv, [CacheNext]_cacheVars
  PROVE  CInv'
<1> USE DEF Types
<1>0. Types /\ clock \in Nat
  BY DEF CInv
<1>1. CASE UNCHANGED cacheVars
  <2>1. Aged
    BY <1>0, <1>1 DEF cacheVars, Aged
  <2> QED
    BY <1>1 DEF cacheVars, CInv, Sane, Looks, Backs
<1>2. CASE CacheTick
  <2>1. Aged
    BY <1>0, <1>2 DEF CacheTick, Aged
  <2>2. \A h \in Hooks : Sane(hook[h])'
    BY <1>2, <2>1, StaysSane, <1>0 DEF CInv, CacheTick
  <2>3. \A e \in index'.entries : Backs(e)'
    BY <1>2, <2>1, StaysSane, <1>0 DEF CInv, CacheTick
  <2>4. Types'
    BY <1>0, <1>2, <2>1, StaysSane DEF CacheTick
  <2> QED
    BY <2>2, <2>3, <2>4 DEF CInv
<1>3. ASSUME NEW h \in Hooks, NEW q \in Queries, Lookup(h, q)
      PROVE  CInv'
  <2>1. PICK kept \in Prunings(Parsed) :
          /\ Prune(Parsed, kept)
          /\ Go(h, "resting", [Resting EXCEPT !.pc = "exact", !.query = q, !.at = clock,
                                              !.held = kept, !.marks = StartMarks(h)])
    BY <1>3 DEF Lookup
  <2>2. PICK to : to = [Resting EXCEPT !.pc = "exact", !.query = q, !.at = clock,
                                       !.held = kept, !.marks = StartMarks(h)]
    OBVIOUS
  <2>3. Aged
    BY <1>0, <1>3, <2>1, PrunedFiles DEF Lookup, Begins
  <2>4. kept \subseteq Entry /\ \A e \in kept : Backs(e) /\ e.expires > clock
    BY <2>1, Pruned, ParsedFacts
  <2>5. to \in HookState
    BY <1>0, <2>2, <2>4 DEF HookState, Resting, StartMarks, Pcs, Stages, CacheKeys
  <2>6. Sane(to)
    BY <1>0, <2>2, <2>4 DEF HookState, Resting, Sane, Looks
  <2> QED
    BY <1>0, <1>3, <2>1, <2>2, <2>3, <2>5, <2>6, Steps, StaysSane DEF CInv, Lookup, Begins
<1>4. ASSUME NEW h \in Hooks, NEW e \in hook[h].held, ReadHit(h, e)
      PROVE  CInv'
  <2>1. PICK r \in HookState : r = hook[h]
    BY <1>0
  <2>2. PICK to : to = [r EXCEPT !.hit = {[key |-> e.key, at |-> payload[e.key].at]},
                      !.pc = IF e.key = Warm THEN "answering" ELSE "persisting",
                      !.next = "answering",
                      !.held = IF e.key = Warm THEN @
                               ELSE (@ \ {e}) \cup {[e EXCEPT !.seen = clock]}]
    OBVIOUS
  <2>3. /\ r.pc \in Stages
        /\ Go(h, r.pc, to)
        /\ UNCHANGED <<index, payload, clock, started>>
    BY <1>4, <2>1, <2>2 DEF ReadHit, Silent
  <2>4. Aged
    BY <1>0, <2>3 DEF Aged
  <2>5. e \in Entry /\ Sane(r)
    BY <2>1 DEF CInv, HookState
  <2>6. PICK touched \in Entry : touched = [e EXCEPT !.seen = clock]
    BY <1>0, <2>5 DEF Entry
  <2>7. /\ to.held \subseteq r.held \cup {touched}
        /\ touched.key = e.key /\ touched.expires = e.expires
    BY <2>2, <2>5, <2>6 DEF HookState, Entry
  <2>8. payload[e.key].at \in Nat
    BY <1>0, <2>5 DEF Entry, FileState
  <2>9. to \in HookState
    <3>1. [key |-> e.key, at |-> payload[e.key].at] \in [key : CacheKeys, at : Nat]
      BY <2>5, <2>8 DEF Entry
    <3>2. to.held \subseteq Entry
      BY <2>7 DEF HookState
    <3>3. /\ to.pc \in {"answering", "persisting"} /\ to.query = r.query /\ to.at = r.at
          /\ to.hit = {[key |-> e.key, at |-> payload[e.key].at]}
          /\ to.next = "answering" /\ to.marks = r.marks
      BY <2>2 DEF HookState
    <3>4. to = [pc |-> to.pc, query |-> to.query, at |-> to.at, held |-> to.held,
                hit |-> to.hit, next |-> to.next, marks |-> to.marks]
      BY <2>2 DEF HookState
    <3> QED
      BY <3>1, <3>2, <3>3, <3>4 DEF HookState, Pcs
  <2>10. Looks(r)
    BY <2>3 DEF Looks
  <2>11. \A f \in to.held : Backs(f) /\ f.expires > to.at
    BY <2>1, <2>2, <2>5, <2>7, <2>10 DEF Sane, Backs, HookState
  <2>12. to.at <= clock /\ to.pc \in {"answering", "persisting"} /\ to.next = "answering"
    BY <2>2, <2>5 DEF Sane, HookState
  <2>13. Sane(to)
    BY <2>11, <2>12 DEF Sane
  <2> QED
    BY <1>0, <2>3, <2>4, <2>9, <2>13, Steps, StaysSane DEF CInv
<1>5. ASSUME NEW h \in Hooks, NEW e \in hook[h].held, ReadMiss(h, e)
      PROVE  CInv'
  <2>1. PICK r \in HookState : r = hook[h]
    BY <1>0
  <2>2. PICK to : to = [r EXCEPT !.pc = "persisting", !.next = Following(r.pc), !.held = @ \ {e}]
    OBVIOUS
  <2>3. /\ r.pc \in Stages
        /\ Go(h, r.pc, to)
        /\ payload' = [payload EXCEPT ![e.key] = Gone]
        /\ UNCHANGED <<index, clock, started>>
    BY <1>5, <2>1, <2>2 DEF ReadMiss, Silent
  <2>4. Aged
    BY <1>0, <2>3, OneFile
  <2>5. Sane(r)
    BY <2>1 DEF CInv
  <2>6. to \in HookState /\ Sane(to)
    BY <2>2, <2>3, <2>5 DEF HookState, Pcs, Stages, Following, Sane, Looks
  <2> QED
    BY <1>0, <2>3, <2>4, <2>6, Steps, StaysSane DEF CInv
<1>6. ASSUME NEW h \in Hooks, ReadNothing(h)
      PROVE  CInv'
  <2>1. PICK r \in HookState : r = hook[h]
    BY <1>0
  <2>2. PICK to : to = [r EXCEPT !.pc = Following(r.pc)]
    OBVIOUS
  <2>3. /\ r.pc \in Stages
        /\ Go(h, r.pc, to)
        /\ UNCHANGED <<index, payload, clock, started>>
    BY <1>6, <2>1, <2>2 DEF ReadNothing, Silent
  <2>4. Aged
    BY <1>0, <2>3 DEF Aged
  <2>5. Sane(r)
    BY <2>1 DEF CInv
  <2>6. to \in HookState /\ Sane(to)
    BY <2>2, <2>3, <2>5 DEF HookState, Pcs, Stages, Following, Sane, Looks
  <2> QED
    BY <1>0, <2>3, <2>4, <2>6, Steps, StaysSane DEF CInv
<1>7. ASSUME NEW h \in Hooks, Answer(h)
      PROVE  CInv'
  <2>1. Aged
    BY <1>0, <1>7 DEF Aged, Answer, Silent
  <2>2. Resting \in HookState /\ Sane(Resting)
    BY <1>0 DEF Resting, HookState, Pcs, Stages, CacheKeys, Sane, Looks
  <2> QED
    BY <1>0, <1>7, <2>1, <2>2, Steps, StaysSane DEF CInv, Answer, Silent
<1>8. ASSUME NEW h \in Hooks, SavePayload(h)
      PROVE  CInv'
  <2>1. PICK r \in HookState : r = hook[h]
    BY <1>0
  <2>2. PICK to : to = [r EXCEPT !.pc = "indexing", !.at = clock, !.held = {}]
    OBVIOUS
  <2>3. /\ r.pc = "asking"
        /\ Go(h, "asking", to)
        /\ payload' = [payload EXCEPT ![r.query] = Whole(clock)]
        /\ UNCHANGED <<index, clock, started>>
    BY <1>8, <2>1, <2>2 DEF SavePayload, Silent, Go
  <2>4. Aged
    BY <1>0, <2>3, OneFile
  <2>5. Sane(r)
    BY <2>1 DEF CInv
  <2>6. to \in HookState /\ Sane(to)'
    <3>1. r.query \in CacheKeys /\ payload'[r.query] = Whole(clock)
      BY <1>0, <2>3 DEF HookState
    <3>2. to \in HookState
      BY <1>0, <2>2 DEF HookState, Pcs
    <3> QED
      BY <1>0, <2>2, <2>3, <2>5, <3>1, <3>2, Forms DEF HookState, Stages, Sane, Looks
  <2> QED
    BY <1>0, <2>3, <2>4, <2>6, Steps, StaysSane DEF CInv
<1>9. ASSUME NEW h \in Hooks, SaveIndex(h)
      PROVE  CInv'
  <2>1. PICK r \in HookState : r = hook[h]
    BY <1>0
  <2>2. PICK kept \in Prunings(Parsed) :
          /\ Prune(Parsed, kept)
          /\ Go(h, "indexing",
                [r EXCEPT !.pc = "persisting", !.next = "resting",
                          !.held = {e \in kept : e.key # r.query} \cup
                                   {[key |-> r.query, seen |-> r.at,
                                     expires |-> r.at + LifeTime[r.query]]},
                          !.marks = @ \cup Hindrances(r, Parsed)])
          /\ UNCHANGED <<index, clock, started>>
    BY <1>9, <2>1 DEF SaveIndex, Silent
  <2>3. PICK own : own = [key |-> r.query, seen |-> r.at, expires |-> r.at + LifeTime[r.query]]
    OBVIOUS
  <2>4. PICK to : to = [r EXCEPT !.pc = "persisting", !.next = "resting",
                                 !.held = {e \in kept : e.key # r.query} \cup {own},
                                 !.marks = @ \cup Hindrances(r, Parsed)]
    OBVIOUS
  <2>5. Go(h, "indexing", to) /\ r.pc = "indexing"
    BY <2>1, <2>2, <2>3, <2>4 DEF Go
  <2>6. Aged
    BY <1>0, <2>2, PrunedFiles
  <2>7. kept \subseteq Entry /\ \A e \in kept : Backs(e)
    BY <2>2, Pruned, ParsedFacts
  <2>8. Sane(r)
    BY <2>1 DEF CInv
  <2>9. r.query \in CacheKeys /\ LifeTime[r.query] \in Nat /\ r.at \in Nat
        /\ payload[r.query].at \in Nat
    BY <1>0, CacheShape DEF HookState, FileState
  <2>10. own \in Entry /\ Backs(own)
    BY <1>0, <2>3, <2>5, <2>8, <2>9 DEF Entry, Backs, Sane
  <2>11. to.held \subseteq Entry /\ \A e \in to.held : Backs(e)
    BY <2>4, <2>7, <2>10 DEF HookState
  <2>12. to \in HookState
    BY <2>4, <2>11 DEF HookState, Pcs, Stages, Hindrances
  <2>13. Sane(to)
    BY <2>4, <2>5, <2>8, <2>11 DEF Sane, Looks, HookState, Stages
  <2> QED
    BY <1>0, <2>2, <2>5, <2>6, <2>12, <2>13, Steps, StaysSane DEF CInv
<1>10. ASSUME NEW h \in Hooks, NEW memories \in BOOLEAN, StoreWarm(h, memories)
       PROVE  CInv'
  <2>1. PICK kept \in Prunings(Parsed) :
          /\ payload' = [k \in CacheKeys |->
                        IF k \in {e.key : e \in Parsed \ kept} \/ (k = Warm /\ ~memories)
                          THEN Gone ELSE payload[k]]
          /\ Go(h, "resting",
             [Resting EXCEPT !.pc = IF memories THEN "warming" ELSE "persisting",
                             !.held = ListedOf(kept, Queries), !.marks = StartMarks(h)])
    BY <1>10 DEF StoreWarm
  <2>2. PICK to : to = [Resting EXCEPT !.pc = IF memories THEN "warming" ELSE "persisting",
                             !.held = ListedOf(kept, Queries), !.marks = StartMarks(h)]
    OBVIOUS
  <2>7. index' = index /\ clock' = clock /\ started' \in Nat
    BY <1>0, <1>10 DEF StoreWarm, Begins
  <2>3. Aged
    BY <1>0, <2>1, <2>7, Forms DEF Aged
  <2>4. ListedOf(kept, Queries) \subseteq Entry /\ \A e \in ListedOf(kept, Queries) : Backs(e)
    BY <2>1, Pruned, ParsedFacts DEF ListedOf
  <2>5. to \in HookState
    BY <1>0, <2>2, <2>4 DEF HookState, Resting, Pcs, Stages, CacheKeys, StartMarks
  <2>6. Sane(to)
    BY <1>0, <2>2, <2>4 DEF Resting, Sane, Looks, Stages
  <2> QED
    BY <1>0, <2>1, <2>2, <2>3, <2>5, <2>6, <2>7, Steps, StaysSane DEF CInv
<1>11. ASSUME NEW h \in Hooks, WarmPayload(h)
       PROVE  CInv'
  <2>1. PICK r \in HookState : r = hook[h]
    BY <1>0
  <2>2. PICK own : own = [key |-> Warm, seen |-> clock, expires |-> clock + LifeTime[Warm]]
    OBVIOUS
  <2>3. PICK to : to = [r EXCEPT !.pc = "persisting", !.held = @ \cup {own}]
    OBVIOUS
  <2>4. /\ r.pc = "warming"
        /\ Go(h, "warming", to)
        /\ payload' = [payload EXCEPT ![Warm] = Whole(clock)]
        /\ UNCHANGED <<index, clock, started>>
    BY <1>11, <2>1, <2>2, <2>3 DEF WarmPayload, Silent, Go
  <2>5. Aged
    BY <1>0, <2>4, OneFile
  <2>6. Sane(r) /\ Sane(r)'
    BY <1>0, <2>1, <2>5, StaysSane DEF CInv
  <2>7. own \in Entry /\ Backs(own)'
    BY <1>0, <2>2, <2>4, CacheShape DEF Entry, Backs, Whole, CacheKeys
  <2>8. to \in HookState /\ Sane(to)'
    BY <2>3, <2>4, <2>6, <2>7 DEF HookState, Sane, Looks, Pcs, Stages
  <2> QED
    BY <1>0, <2>4, <2>5, <2>8, Steps, StaysSane DEF CInv
<1>12. ASSUME NEW h \in Hooks, Clear(h)
       PROVE  CInv'
  <2>1. Aged
    BY <1>0, <1>12, Forms DEF Clear, Begins, Aged
  <2>2. hook' \in [Hooks -> HookState]
    <3>1. \A r \in HookState : [r EXCEPT !.marks = @ \cup {"overlap"}] \in HookState
      BY DEF HookState
    <3> QED
      BY <1>0, <1>12, <3>1 DEF Clear
  <2>3. ASSUME NEW g \in Hooks PROVE Sane(hook[g])'
    <3>1. PICK r \in HookState : r = hook[g]
      BY <1>0
    <3>2. Sane(r)'
      BY <1>0, <2>1, <3>1, StaysSane DEF CInv
    <3>3. hook'[g] = r \/ hook'[g] = [r EXCEPT !.marks = @ \cup {"overlap"}]
      BY <1>12, <3>1 DEF Clear
    <3>4. Sane(hook[g])' = Sane(r)'
      BY <3>3 DEF HookState, Sane, Looks
    <3> QED
      BY <3>2, <3>4
  <2>4. index' \in [form : {"whole", "cut", "garbled"}, entries : SUBSET Entry]
        /\ index'.entries = {} /\ started' \in Nat
    BY <1>0, <1>12 DEF Clear, Begins
  <2> QED
    BY <1>0, <2>1, <2>2, <2>3, <2>4, StaysSane DEF CInv, Aged
<1>13. ASSUME NEW h \in Hooks, Truncate(h)
       PROVE  CInv'
  <2>1. PICK r \in HookState : r = hook[h]
    BY <1>0
  <2>2. PICK kept \in Prunings(r.held) :
          /\ Prune(r.held, kept)
          /\ Go(h, "persisting", [r EXCEPT !.pc = "writing", !.held = kept])
    BY <1>13, <2>1 DEF Truncate
  <2>3. PICK to : to = [r EXCEPT !.pc = "writing", !.held = kept]
    OBVIOUS
  <2>4. /\ r.pc = "persisting" /\ index' = [form |-> "cut", entries |-> {}]
        /\ UNCHANGED <<clock, started>>
    BY <1>13, <2>1, <2>2 DEF Go, Truncate, Silent
  <2>5. Aged
    BY <1>0, <2>2, <2>4, PrunedFiles
  <2>6. kept \subseteq r.held /\ Sane(r)
    BY <2>1, <2>2, Pruned DEF CInv
  <2>7. to \in HookState /\ Sane(to)
    BY <2>3, <2>4, <2>6 DEF HookState, Sane, Looks, Pcs, Stages
  <2> QED
    BY <1>0, <2>2, <2>3, <2>4, <2>5, <2>7, Steps, StaysSane DEF CInv
<1>14. ASSUME NEW h \in Hooks, WriteIndex(h)
       PROVE  CInv'
  <2>1. PICK r \in HookState : r = hook[h]
    BY <1>0
  <2>2. PICK to : to = IF r.next = "resting" THEN Resting ELSE [r EXCEPT !.pc = r.next]
    OBVIOUS
  <2>3. /\ r.pc = "writing" /\ Go(h, "writing", to)
        /\ UNCHANGED <<payload, clock, started>>
        /\ index' \in {[form |-> "whole", entries |-> r.held], [form |-> "garbled", entries |-> {}]}
    BY <1>14, <2>1, <2>2 DEF WriteIndex, Go, Silent
  <2>4. Aged
    BY <1>0, <2>3 DEF Aged
  <2>5. Sane(r) /\ \A e \in r.held : Backs(e) /\ e \in Entry
    BY <2>1 DEF CInv, Sane, HookState
  <2>6. to \in HookState /\ Sane(to)
    BY <1>0, <2>2, <2>3, <2>5 DEF HookState, Sane, Looks, Pcs, Stages, Resting, CacheKeys
  <2>7. /\ index' \in [form : {"whole", "cut", "garbled"}, entries : SUBSET Entry]
        /\ \A e \in index'.entries : Backs(e)'
    BY <1>0, <2>3, <2>4, <2>5, StaysSane
  <2> QED
    BY <1>0, <2>3, <2>4, <2>6, <2>7, Steps, StaysSane DEF CInv
<1>15. ASSUME NEW h \in Hooks, Stop(h)
       PROVE  CInv'
  <2>1. Aged
    <3>1. UNCHANGED <<payload, clock>> => Aged
      BY <1>0 DEF Aged
    <3> QED
      BY <1>0, <1>15, <3>1, OneFile DEF Stop, Silent
  <2>2. hook' = [hook EXCEPT ![h] = Resting] /\ UNCHANGED <<index, started>>
    BY <1>15 DEF Stop, Silent
  <2>3. Resting \in HookState /\ Sane(Resting)
    BY <1>0 DEF Resting, HookState, Pcs, Stages, CacheKeys, Sane, Looks
  <2>4. \A g \in Hooks : Sane(hook[g])'
    <3>1. PICK r \in HookState : r = Resting
      BY <2>3
    <3>2. TAKE g \in Hooks
    <3>3. PICK s \in HookState : s = hook[g]
      BY <1>0
    <3>4. Sane(r)' /\ Sane(s)'
      BY <1>0, <2>1, <2>3, <3>1, <3>3, StaysSane DEF CInv
    <3>5. hook[g]' = r \/ hook[g]' = s
      BY <1>0, <2>2, <3>1, <3>3
    <3> QED
      BY <3>4, <3>5
  <2>5. \A e \in index'.entries : Backs(e)'
    BY <1>0, <2>1, <2>2, StaysSane DEF CInv
  <2>6. Types'
    BY <1>0, <2>1, <2>2, <2>3, StaysSane DEF Aged
  <2> QED
    BY <2>4, <2>5, <2>6 DEF CInv
<1> QED
  BY <1>1, <1>2, <1>3, <1>4, <1>5, <1>6, <1>7, <1>8, <1>9, <1>10, <1>11, <1>12, <1>13, <1>14,
     <1>15 DEF CacheNext, CacheStep

LEMMA CacheInvariance == CacheSpec => []CInv
BY InitCInv, CacheInvStep, PTL DEF CacheSpec

\* The index, the payload files and the processes keep to their declared values.
THEOREM CacheTypes == CacheSpec => []CacheTypeOK
<1>1. CInv => CacheTypeOK
  BY DEF CInv, Types, CacheTypeOK, HookState, FileState, Pcs, Stages
<1> QED
  BY <1>1, CacheInvariance, PTL

(* The abstract cache sees what is on disk, what is asked and what is answered. *)

OnDisk == {[key |-> k, at |-> payload[k].at] : k \in {j \in CacheKeys : payload[j].form = "whole"}}
Asks(r) == IF Looks(r) THEN {[query |-> r.query, at |-> r.at]} ELSE {}
Asked == [h \in Hooks |-> IF Looking(h) THEN {[query |-> hook[h].query, at |-> hook[h].at]} ELSE {}]
Told == [h \in Hooks |-> hook[h].hit]

LEMMA Seen ==
  ASSUME Types, NEW h \in Hooks, NEW from, NEW to \in HookState, Go(h, from, to)
  PROVE  /\ Asked' = [Asked EXCEPT ![h] = Asks(to)]
         /\ Told' = [Told EXCEPT ![h] = to.hit]
<1>1. hook' \in [Hooks -> HookState] /\ Moved(h, to)
  BY Went
<1>2. ASSUME NEW g \in Hooks, g # h
      PROVE  /\ Looking(g)' = Looking(g)
             /\ hook'[g].query = hook[g].query /\ hook'[g].at = hook[g].at
             /\ hook'[g].hit = hook[g].hit
  BY <1>1, <1>2 DEF Types, Moved, HookState, Looking
<1>3. Asked'[h] = Asks(to) /\ Told'[h] = to.hit
  BY <1>1 DEF Asked, Told, Asks, Moved, Looking, Looks
<1>4. \A g \in Hooks : g # h => Asked'[g] = Asked[g] /\ Told'[g] = Told[g]
  BY <1>2 DEF Asked, Told
<1> QED
  BY <1>3, <1>4 DEF Asked, Told

LEMMA Unasked ==
  ASSUME CInv, NEW h \in Hooks
  PROVE  /\ Asked[h] = Asks(hook[h]) /\ Told[h] = hook[h].hit
         /\ ~Looks(hook[h]) => hook[h].hit = {}
BY DEF Asked, Told, Asks, Looking, Looks, CInv, Sane, Stages

LEMMA FilesForgotten ==
  ASSUME Types, \A k \in CacheKeys : payload'[k] \in {payload[k], Gone, Torn}
  PROVE  OnDisk' \in SUBSET OnDisk
BY Forms DEF OnDisk

\* A step of the cache that leaves the question alone, or drops it.
LEMMA Forgets ==
  ASSUME CInv, NEW h \in Hooks, NEW from, NEW to \in HookState, Go(h, from, to),
         Asks(to) = Asks(hook[h]), to.hit = hook[h].hit, UNCHANGED clock,
         OnDisk' \in SUBSET OnDisk
  PROVE  Fresh!Next
<1>1. UNCHANGED <<Asked, Told, clock>>
  <2>1. Asked' = [Asked EXCEPT ![h] = Asked[h]] /\ Told' = [Told EXCEPT ![h] = Told[h]]
    BY Seen, Unasked DEF CInv
  <2>2. Asked' = Asked
    BY <2>1 DEF Asked
  <2>3. Told' = Told
    BY <2>1 DEF Told
  <2> QED
    BY <2>2, <2>3
<1>2. Fresh!Forget
  BY <1>1 DEF Fresh!Forget, Asked, Told, OnDisk
<1> QED
  BY <1>2 DEF Fresh!Next

LEMMA GivesUp ==
  ASSUME CInv, NEW h \in Hooks, NEW from, NEW to \in HookState, Go(h, from, to),
         ~Looks(to), to.hit = {}, UNCHANGED <<clock, payload>>
  PROVE  Fresh!Next
<1>1. Asked' = [Asked EXCEPT ![h] = {}] /\ Told' = [Told EXCEPT ![h] = {}]
      /\ OnDisk' = OnDisk /\ clock' = clock
  BY Seen DEF CInv, Asks, OnDisk
<1>2. Fresh!GiveUp(h)
  BY <1>1 DEF Fresh!GiveUp, Asked, Told, OnDisk
<1> QED
  BY <1>2 DEF Fresh!Next

\* A payload written by a process that looks nothing up.
LEMMA Stores ==
  ASSUME CInv, NEW h \in Hooks, NEW from, NEW to \in HookState, Go(h, from, to),
         Asks(to) = {}, Asks(hook[h]) = {}, to.hit = hook[h].hit,
         NEW k \in CacheKeys, payload' = [payload EXCEPT ![k] = Whole(clock)], UNCHANGED clock
  PROVE  Fresh!Next
<1>1. UNCHANGED <<Asked, Told>>
  <2>0. Asked' = [Asked EXCEPT ![h] = Asks(to)] /\ Told' = [Told EXCEPT ![h] = to.hit]
    BY Seen DEF CInv
  <2>1. Asked' = [Asked EXCEPT ![h] = Asked[h]] /\ Told' = [Told EXCEPT ![h] = Told[h]]
    BY <2>0, Unasked
  <2>2. Asked' = Asked
    BY <2>1 DEF Asked
  <2>3. Told' = Told
    BY <2>1 DEF Told
  <2> QED
    BY <2>2, <2>3
<1>2. OnDisk' = {r \in OnDisk : r.key # k} \cup {[key |-> k, at |-> clock]}
  BY Forms DEF OnDisk, CInv, Types
<1>3. Fresh!Store(k)
  BY <1>1, <1>2 DEF Fresh!Store, Asked, Told, OnDisk
<1> QED
  BY <1>3 DEF Fresh!Next

LEMMA FreshStep ==
  ASSUME CInv, [CacheNext]_cacheVars
  PROVE  [Fresh!Next]_(Fresh!vars)
<1>1. CASE UNCHANGED cacheVars
  BY <1>1 DEF cacheVars, Fresh!vars, Looking
<1>2. CASE CacheTick
  <2>1. Fresh!Tick
    BY <1>2 DEF CacheTick, Fresh!Tick, Looking
  <2> QED
    BY <2>1 DEF Fresh!Next
<1>3. ASSUME NEW h \in Hooks, NEW q \in Queries, Lookup(h, q)
      PROVE  Fresh!Next
  <2>1. PICK kept \in Prunings(Parsed) :
          /\ Prune(Parsed, kept)
          /\ Go(h, "resting", [Resting EXCEPT !.pc = "exact", !.query = q, !.at = clock,
                                              !.held = kept, !.marks = StartMarks(h)])
    BY <1>3 DEF Lookup
  <2>2. PICK to : to = [Resting EXCEPT !.pc = "exact", !.query = q, !.at = clock,
                                       !.held = kept, !.marks = StartMarks(h)]
    OBVIOUS
  <2>3. kept \subseteq Entry
    BY <2>1, Pruned, ParsedFacts
  <2>4. to \in HookState
    BY <2>2, <2>3 DEF CInv, Types, HookState, Resting, StartMarks, Pcs, Stages, CacheKeys
  <2>5. Asks(to) = {[query |-> q, at |-> clock]} /\ to.hit = {}
    BY <2>2 DEF Asks, Looks, Stages, Resting
  <2>6. /\ Asked' = [Asked EXCEPT ![h] = {[query |-> q, at |-> clock]}]
        /\ Told' = [Told EXCEPT ![h] = {}]
    <3>1. Asked' = [Asked EXCEPT ![h] = Asks(to)] /\ Told' = [Told EXCEPT ![h] = to.hit]
      BY <2>1, <2>2, <2>4, Seen DEF CInv
    <3> QED
      BY <2>5, <3>1
  <2>7. OnDisk' \in SUBSET OnDisk
    BY <2>1, FilesForgotten DEF CInv, Prune
  <2>8. Fresh!Ask(h, q)
    BY <1>3, <2>6, <2>7 DEF Fresh!Ask, Asked, Told, OnDisk, Lookup, Begins
  <2> QED
    BY <2>8 DEF Fresh!Next, CacheKeys
<1>4. ASSUME NEW h \in Hooks, NEW e \in hook[h].held, ReadHit(h, e)
      PROVE  Fresh!Next
  <2>1. PICK r \in HookState : r = hook[h]
    BY DEF CInv, Types
  <2>2. PICK to : to = [r EXCEPT !.hit = {[key |-> e.key, at |-> payload[e.key].at]},
                      !.pc = IF e.key = Warm THEN "answering" ELSE "persisting",
                      !.next = "answering",
                      !.held = IF e.key = Warm THEN @
                               ELSE (@ \ {e}) \cup {[e EXCEPT !.seen = clock]}]
    OBVIOUS
  <2>3. /\ r.pc \in Stages
        /\ Go(h, r.pc, to)
        /\ UNCHANGED <<index, payload, clock, started>>
        /\ payload[e.key].form = "whole"
        /\ <<r.query, e.key>> \in Nearby \/ r.query = e.key
    BY <1>4, <2>1, <2>2 DEF ReadHit, Silent
  <2>4. e \in Entry /\ Sane(r) /\ e \in r.held
    BY <2>1 DEF CInv, HookState
  <2>5. PICK own : own = [key |-> e.key, at |-> payload[e.key].at]
    OBVIOUS
  <2>6. own \in OnDisk /\ own \in [key : CacheKeys, at : Nat]
    BY <2>3, <2>4, <2>5 DEF OnDisk, Entry, CInv, Types, FileState
  <2>7. to \in HookState
    <3>1. to.held \subseteq Entry
      BY <2>2, <2>4 DEF HookState, Entry, CInv, Types
    <3>2. to = [pc |-> to.pc, query |-> r.query, at |-> r.at, held |-> to.held,
                hit |-> {own}, next |-> "answering", marks |-> r.marks]
          /\ to.pc \in {"answering", "persisting"}
      BY <2>2, <2>5 DEF HookState
    <3> QED
      BY <2>6, <3>1, <3>2 DEF HookState, Pcs
  <2>8. /\ Asked[h] = {[query |-> r.query, at |-> r.at]}
        /\ Asks(to) = Asked[h] /\ to.hit = {own}
    <3>1. Asked[h] = {[query |-> r.query, at |-> r.at]}
      BY <2>1, <2>3, Unasked DEF Asks, Looks
    <3>2. to.query = r.query /\ to.at = r.at /\ to.hit = {own} /\ Looks(to)
      BY <2>2, <2>5 DEF HookState, Looks
    <3> QED
      BY <3>1, <3>2 DEF Asks
  <2>9. Asked' = [Asked EXCEPT ![h] = Asked[h]] /\ Told' = [Told EXCEPT ![h] = {own}]
    BY <2>3, <2>7, <2>8, Seen DEF CInv
  <2>10. own.at + LifeTime[own.key] > r.at
    <3>1. e.expires > r.at /\ e.expires <= payload[e.key].at + LifeTime[e.key]
      BY <2>3, <2>4 DEF Sane, Looks, Backs
    <3>2. /\ e.expires \in Nat /\ r.at \in Nat /\ payload[e.key].at \in Nat
          /\ LifeTime[e.key] \in Nat
      BY <2>4, CacheShape DEF Entry, HookState, CInv, Types, FileState
    <3> QED
      BY <2>5, <3>1, <3>2
  <2>11. Fresh!Serve(h)
    <3>1. Asked' = Asked
      BY <2>9 DEF Asked
    <3>2. OnDisk' = OnDisk /\ clock' = clock
      BY <2>3 DEF OnDisk
    <3>3. \E ask \in Asked[h], res \in OnDisk :
            /\ ask.query = res.key \/ <<ask.query, res.key>> \in Nearby
            /\ res.at + LifeTime[res.key] > ask.at
            /\ Told' = [Told EXCEPT ![h] = {res}]
      <4>1. PICK ask : ask = [query |-> r.query, at |-> r.at]
        OBVIOUS
      <4>2. ask \in Asked[h] /\ ask.query = r.query /\ ask.at = r.at /\ own.key = e.key
        BY <2>5, <2>8, <4>1
      <4> QED
        BY <2>3, <2>6, <2>9, <2>10, <4>2
    <3> QED
      BY <3>1, <3>2, <3>3 DEF Fresh!Serve, Asked, Told, OnDisk
  <2> QED
    BY <2>11 DEF Fresh!Next
<1>5. ASSUME NEW h \in Hooks, NEW e \in hook[h].held, ReadMiss(h, e)
      PROVE  Fresh!Next
  <2>1. PICK r \in HookState : r = hook[h]
    BY DEF CInv, Types
  <2>2. PICK to : to = [r EXCEPT !.pc = "persisting", !.next = Following(r.pc), !.held = @ \ {e}]
    OBVIOUS
  <2>3. /\ r.pc \in Stages
        /\ Go(h, r.pc, to)
        /\ payload' = [payload EXCEPT ![e.key] = Gone]
        /\ UNCHANGED <<index, clock, started>>
    BY <1>5, <2>1, <2>2 DEF ReadMiss, Silent
  <2>4. to \in HookState /\ Asks(to) = Asks(r) /\ to.hit = r.hit
    BY <2>2, <2>3 DEF HookState, Pcs, Stages, Following, Asks, Looks
  <2>5. OnDisk' \in SUBSET OnDisk
    BY <2>3, FilesForgotten DEF CInv, Types
  <2> QED
    BY <2>1, <2>3, <2>4, <2>5, Forgets
<1>6. ASSUME NEW h \in Hooks, ReadNothing(h)
      PROVE  Fresh!Next
  <2>1. PICK r \in HookState : r = hook[h]
    BY DEF CInv, Types
  <2>2. PICK to : to = [r EXCEPT !.pc = Following(r.pc)]
    OBVIOUS
  <2>3. /\ r.pc \in Stages
        /\ Go(h, r.pc, to)
        /\ UNCHANGED <<index, payload, clock, started>>
    BY <1>6, <2>1, <2>2 DEF ReadNothing, Silent
  <2>4. to \in HookState /\ to.hit = r.hit
    BY <2>2, <2>3 DEF HookState, Pcs, Stages, Following
  <2>5. CASE Asks(to) = Asks(r)
    BY <2>1, <2>3, <2>4, <2>5, Forgets DEF OnDisk
  <2>6. CASE Asks(to) # Asks(r)
    <3>1. to.pc = "asking" /\ ~Looks(to)
      BY <2>2, <2>3, <2>6 DEF HookState, Stages, Following, Asks, Looks
    <3>2. to.hit = {}
      BY <2>1, <2>3, <2>4 DEF CInv, Sane, Stages
    <3> QED
      BY <2>3, <2>4, <3>1, <3>2, GivesUp
  <2> QED
    BY <2>5, <2>6
<1>7. ASSUME NEW h \in Hooks, Answer(h)
      PROVE  Fresh!Next
  <2>1. Resting \in HookState /\ ~Looks(Resting) /\ Resting.hit = {}
    BY DEF Resting, HookState, Pcs, Stages, CacheKeys, Looks
  <2> QED
    BY <1>7, <2>1, GivesUp DEF Answer, Silent
<1>8. ASSUME NEW h \in Hooks, SavePayload(h)
      PROVE  Fresh!Next
  <2>1. PICK r \in HookState : r = hook[h]
    BY DEF CInv, Types
  <2>2. PICK to : to = [r EXCEPT !.pc = "indexing", !.at = clock, !.held = {}]
    OBVIOUS
  <2>3. /\ r.pc = "asking" /\ r.query \in CacheKeys
        /\ Go(h, "asking", to)
        /\ payload' = [payload EXCEPT ![r.query] = Whole(clock)]
        /\ UNCHANGED <<index, clock, started>>
    BY <1>8, <2>1, <2>2 DEF SavePayload, Silent, Go, HookState
  <2>4. to \in HookState
    BY <2>2 DEF HookState, Pcs, CInv, Types
  <2>5. Asks(to) = {} /\ Asks(r) = {} /\ to.hit = r.hit
    BY <2>2, <2>3 DEF Asks, Looks, HookState, Stages
  <2> QED
    BY <2>1, <2>3, <2>4, <2>5, Stores
<1>9. ASSUME NEW h \in Hooks, WarmPayload(h)
      PROVE  Fresh!Next
  <2>1. PICK r \in HookState : r = hook[h]
    BY DEF CInv, Types
  <2>2. PICK own : own = [key |-> Warm, seen |-> clock, expires |-> clock + LifeTime[Warm]]
    OBVIOUS
  <2>3. PICK to : to = [r EXCEPT !.pc = "persisting", !.held = @ \cup {own}]
    OBVIOUS
  <2>4. /\ r.pc = "warming" /\ Warm \in CacheKeys
        /\ Go(h, "warming", to)
        /\ payload' = [payload EXCEPT ![Warm] = Whole(clock)]
        /\ UNCHANGED <<index, clock, started>>
    BY <1>9, <2>1, <2>2, <2>3 DEF WarmPayload, Silent, Go, CacheKeys
  <2>5. own \in Entry
    BY <2>2, CacheShape DEF Entry, CacheKeys, CInv, Types
  <2>6. to \in HookState
    BY <2>3, <2>5 DEF HookState, Pcs
  <2>7. r.next = "resting"
    BY <2>1, <2>4 DEF CInv, Sane
  <2>8. Asks(to) = {} /\ Asks(r) = {} /\ to.hit = r.hit
    BY <2>3, <2>4, <2>7 DEF Asks, Looks, HookState, Stages
  <2> QED
    BY <2>1, <2>4, <2>6, <2>8, Stores
<1>10. ASSUME NEW h \in Hooks, SaveIndex(h)
       PROVE  Fresh!Next
  <2>1. PICK r \in HookState : r = hook[h]
    BY DEF CInv, Types
  <2>2. PICK kept, to :
          /\ kept \in Prunings(Parsed)
          /\ to = [r EXCEPT !.pc = "persisting", !.next = "resting",
                          !.held = {e \in kept : e.key # r.query} \cup
                                   {[key |-> r.query, seen |-> r.at,
                                     expires |-> r.at + LifeTime[r.query]]},
                          !.marks = @ \cup Hindrances(r, Parsed)]
          /\ Prune(Parsed, kept)
          /\ Go(h, "indexing", to)
    BY <1>10, <2>1 DEF SaveIndex
  <2>3. r.pc = "indexing" /\ clock' = clock
    BY <1>10, <2>1 DEF SaveIndex, Silent, Go
  <2>4. [key |-> r.query, seen |-> r.at, expires |-> r.at + LifeTime[r.query]] \in Entry
    BY CacheShape DEF HookState, Entry
  <2>5. to.held \subseteq Entry
    BY <2>2, <2>4, Pruned, ParsedFacts DEF HookState
  <2>6. to \in HookState /\ Asks(to) = {} /\ Asks(r) = {} /\ to.hit = r.hit
    BY <2>2, <2>3, <2>5 DEF HookState, Pcs, Stages, Hindrances, Asks, Looks
  <2>7. OnDisk' \in SUBSET OnDisk
    BY <2>2, FilesForgotten DEF CInv, Prune
  <2> QED
    BY <2>1, <2>2, <2>3, <2>6, <2>7, Forgets
<1>11. ASSUME NEW h \in Hooks, NEW memories \in BOOLEAN, StoreWarm(h, memories)
       PROVE  Fresh!Next
  <2>1. PICK kept, to :
          /\ kept \in Prunings(Parsed)
          /\ to = [Resting EXCEPT !.pc = IF memories THEN "warming" ELSE "persisting",
                             !.held = ListedOf(kept, Queries), !.marks = StartMarks(h)]
          /\ payload' = [k \in CacheKeys |->
                        IF k \in {e.key : e \in Parsed \ kept} \/ (k = Warm /\ ~memories)
                          THEN Gone ELSE payload[k]]
          /\ Go(h, "resting", to)
    BY <1>11 DEF StoreWarm
  <2>2. ListedOf(kept, Queries) \subseteq Entry
    BY <2>1, Pruned, ParsedFacts DEF ListedOf
  <2>3. to \in HookState
    BY <2>1, <2>2 DEF HookState, Resting, Pcs, Stages, CacheKeys, StartMarks
  <2>4. Asks(to) = {} /\ to.hit = {}
    BY <2>1 DEF Resting, Asks, Looks, Stages
  <2>5. hook[h].pc = "resting" /\ clock' = clock
    BY <1>11 DEF StoreWarm, Go, Begins
  <2>6. ~Looks(hook[h])
    BY <2>5 DEF Looks, Stages
  <2>7. Asks(hook[h]) = {} /\ hook[h].hit = {}
    BY <2>6, Unasked DEF Asks
  <2>8. OnDisk' \in SUBSET OnDisk
    BY <2>1, FilesForgotten DEF CInv
  <2> QED
    BY <2>1, <2>3, <2>4, <2>5, <2>7, <2>8, Forgets
<1>12. ASSUME NEW h \in Hooks, Clear(h)
       PROVE  Fresh!Next
  <2>1. OnDisk' \in SUBSET OnDisk /\ clock' = clock
    BY <1>12, FilesForgotten DEF CInv, Clear, Begins
  <2>2. ASSUME NEW g \in Hooks
        PROVE  /\ Looking(g)' = Looking(g)
               /\ hook'[g].query = hook[g].query /\ hook'[g].at = hook[g].at
               /\ hook'[g].hit = hook[g].hit
    <3>1. PICK r \in HookState : r = hook[g]
      BY DEF CInv, Types
    <3>2. hook'[g] = r \/ hook'[g] = [r EXCEPT !.marks = @ \cup {"overlap"}]
      BY <1>12, <3>1 DEF Clear
    <3> QED
      BY <3>1, <3>2 DEF HookState, Looking
  <2>3. Asked' = Asked
    BY <2>2 DEF Asked
  <2>4. Told' = Told
    BY <2>2 DEF Told
  <2>5. Fresh!Forget
    BY <2>1, <2>3, <2>4 DEF Fresh!Forget, OnDisk, Asked, Told
  <2> QED
    BY <2>5 DEF Fresh!Next
<1>13. ASSUME NEW h \in Hooks, Truncate(h)
       PROVE  Fresh!Next
  <2>1. PICK r \in HookState : r = hook[h]
    BY DEF CInv, Types
  <2>2. PICK kept, to :
          /\ kept \in Prunings(r.held)
          /\ to = [r EXCEPT !.pc = "writing", !.held = kept]
          /\ Prune(r.held, kept)
          /\ Go(h, "persisting", to)
    BY <1>13, <2>1 DEF Truncate
  <2>3. r.pc = "persisting" /\ clock' = clock /\ kept \subseteq r.held
    BY <1>13, <2>1, <2>2, Pruned DEF Truncate, Silent, Go
  <2>4. to \in HookState /\ Asks(to) = Asks(r) /\ to.hit = r.hit
    BY <2>2, <2>3 DEF HookState, Pcs, Stages, Asks, Looks
  <2>5. OnDisk' \in SUBSET OnDisk
    BY <2>2, FilesForgotten DEF CInv, Prune
  <2> QED
    BY <2>1, <2>2, <2>3, <2>4, <2>5, Forgets
<1>14. ASSUME NEW h \in Hooks, WriteIndex(h)
       PROVE  Fresh!Next
  <2>1. PICK r \in HookState : r = hook[h]
    BY DEF CInv, Types
  <2>2. PICK to : to = IF r.next = "resting" THEN Resting ELSE [r EXCEPT !.pc = r.next]
    OBVIOUS
  <2>3. /\ r.pc = "writing" /\ Go(h, "writing", to)
        /\ UNCHANGED <<payload, clock, started>>
    BY <1>14, <2>1, <2>2 DEF WriteIndex, Go, Silent
  <2>4. to \in HookState
    BY <2>2 DEF HookState, Pcs, Stages, Resting, CacheKeys
  <2>5. CASE r.next \in Stages \cup {"answering"}
    <3>1. Asks(to) = Asks(r) /\ to.hit = r.hit
      BY <2>2, <2>3, <2>5 DEF HookState, Asks, Looks, Stages
    <3> QED
      BY <2>1, <2>3, <2>4, <3>1, Forgets DEF OnDisk
  <2>6. CASE r.next \in {"resting", "asking"}
    <3>1. r.hit = {}
      BY <2>1, <2>3, <2>6 DEF CInv, Sane, Stages
    <3>2. ~Looks(to) /\ to.hit = {}
      BY <2>2, <2>6, <3>1 DEF HookState, Looks, Resting, Stages
    <3> QED
      BY <2>3, <2>4, <3>2, GivesUp
  <2> QED
    BY <2>5, <2>6 DEF HookState
<1>15. ASSUME NEW h \in Hooks, Stop(h)
       PROVE  Fresh!Next
  <2>1. PICK r \in HookState : r = hook[h]
    BY DEF CInv, Types
  <2>2. hook' = [hook EXCEPT ![h] = Resting] /\ clock' = clock
    BY <1>15 DEF Stop, Silent
  <2>3. ~Looks(Resting) /\ Resting.hit = {}
    BY DEF Resting, Stages, Looks
  <2>4. Asked' = [Asked EXCEPT ![h] = {}]
    BY <2>2, <2>3 DEF Asked, Looking, Looks, CInv, Types
  <2>5. Told' = [Told EXCEPT ![h] = {}]
    BY <2>2, <2>3 DEF Told, CInv, Types
  <2>6. CASE UNCHANGED payload
    <3>1. OnDisk' = OnDisk
      BY <2>6 DEF OnDisk
    <3>2. Fresh!GiveUp(h)
      BY <2>2, <2>4, <2>5, <3>1 DEF Fresh!GiveUp, Asked, Told, OnDisk
    <3> QED
      BY <3>2 DEF Fresh!Next
  <2>7. CASE ~UNCHANGED payload
    <3>1. /\ r.pc \in {"asking", "warming"}
          /\ \E k : payload' = [payload EXCEPT ![k] = Torn]
      BY <1>15, <2>1, <2>7 DEF Stop
    <3>2. OnDisk' \in SUBSET OnDisk
      BY <3>1, FilesForgotten DEF CInv, Types
    <3>3. ~Looks(r)
      BY <3>1 DEF Looks, Stages
    <3>4. Asked[h] = {} /\ Told[h] = {}
      BY <2>1, <3>3, Unasked DEF Asks
    <3>5. Asked' = Asked
      BY <2>4, <3>4 DEF Asked
    <3>6. Told' = Told
      BY <2>5, <3>4 DEF Told
    <3>7. Fresh!Forget
      BY <2>2, <3>2, <3>5, <3>6 DEF Fresh!Forget, Asked, Told, OnDisk
    <3> QED
      BY <3>7 DEF Fresh!Next
  <2> QED
    BY <2>6, <2>7
<1> QED
  BY <1>1, <1>2, <1>3, <1>4, <1>5, <1>6, <1>7, <1>8, <1>9, <1>10, <1>11, <1>12, <1>13, <1>14,
     <1>15 DEF CacheNext, CacheStep

\* The cache implements the abstract one: however hooks, bootstraps and `clear`
\* interleave and wherever they are stopped, an answer was stored for a similar
\* query and had not expired when the lookup began (lookup, readEntry, save).
THEOREM NeverStale == CacheSpec => NeverServesStale
<1>1. CacheInit => Fresh!Init
  BY DEF CacheInit, Fresh!Init, Looking, Resting, Gone, Stages
<1> QED
  BY <1>1, FreshStep, CacheInvariance, PTL DEF CacheSpec, NeverServesStale, Fresh!Spec

-----------------------------------------------------------------------------
(* A save that nothing overlaps. *)

\* There is room for the warm snapshot and one query beside it.  The code asks
\* for a positive number of entries (readPositiveInt) and bounds no payload: one
\* that is larger than the cap is popped by the prune that lists it.
Roomy == MaxEntries >= 1 /\ QueryBytes + WarmBytes <= MaxBytes

\* One entry per key; and the caps hold, or there is no query left to pop.
Neat(es) == IsFiniteSet(es) /\ \A e, f \in es : e.key = f.key => e = f
Fits(es) == WithinCaps(es) \/ ListedOf(es, Queries) = {}

LEMMA MoreBytes == \A a, b, c \in Nat : a <= b => a * c <= b * c
<1> SUFFICES ASSUME NEW a \in Nat, NEW b \in Nat, NEW c \in Nat, a <= b
             PROVE  a * c <= b * c
  OBVIOUS
<1>1. PICK d \in Nat : b = a + d
  <2>1. b - a \in Nat /\ b = a + (b - a)
    OBVIOUS
  <2> QED
    BY <2>1
<1>2. b * c = a * c + d * c /\ d * c \in Nat /\ a * c \in Nat
  BY <1>1
<1> QED
  BY <1>2

LEMMA SmallerFits ==
  ASSUME NEW es, NEW fs, IsFiniteSet(es), fs \subseteq es, WithinCaps(es)
  PROVE  WithinCaps(fs)
<1> DEFINE C(xs, ks) == Cardinality(ListedOf(xs, ks))
<1>1. \A ks : C(fs, ks) \in Nat /\ C(es, ks) \in Nat /\ C(fs, ks) <= C(es, ks)
  <2> SUFFICES ASSUME NEW ks
               PROVE  C(fs, ks) \in Nat /\ C(es, ks) \in Nat /\ C(fs, ks) <= C(es, ks)
    OBVIOUS
  <2>1. ListedOf(es, ks) \subseteq es /\ ListedOf(fs, ks) \subseteq ListedOf(es, ks)
    BY DEF ListedOf
  <2>2. IsFiniteSet(ListedOf(es, ks))
    BY <2>1, FS_Subset
  <2>3. IsFiniteSet(ListedOf(fs, ks)) /\ C(fs, ks) <= C(es, ks)
    BY <2>1, <2>2, FS_Subset
  <2> QED
    BY <2>2, <2>3, FS_CardinalityType
<1>2. /\ C(fs, Queries) * QueryBytes <= C(es, Queries) * QueryBytes
      /\ C(fs, {Warm}) * WarmBytes <= C(es, {Warm}) * WarmBytes
  BY <1>1, MoreBytes, CacheShape
<1>3. /\ C(fs, Queries) * QueryBytes \in Nat /\ C(es, Queries) * QueryBytes \in Nat
      /\ C(fs, {Warm}) * WarmBytes \in Nat /\ C(es, {Warm}) * WarmBytes \in Nat
  BY <1>1, CacheShape
<1>4. /\ C(es, Queries) <= MaxEntries
      /\ C(es, Queries) * QueryBytes + C(es, {Warm}) * WarmBytes <= MaxBytes
  BY DEF WithinCaps
<1>5. /\ C(fs, Queries) <= MaxEntries
      /\ C(fs, Queries) * QueryBytes + C(fs, {Warm}) * WarmBytes <= MaxBytes
  <2> HIDE DEF C
  <2> QED
    BY <1>1, <1>2, <1>3, <1>4, CacheShape
<1> QED
  BY <1>5 DEF WithinCaps

\* What pruning may not pop: a live query of an index within the caps ...
LEMMA KeptWithinCaps ==
  ASSUME NEW es, Neat(es), Fits(es), NEW kept \in Prunings(es), NEW e \in Live(es), e.key \in Queries
  PROVE  e \in kept
<1> SUFFICES ASSUME e \notin kept PROVE FALSE
  OBVIOUS
<1>1. ~WithinCaps(kept \cup {e})
  BY DEF Prunings
<1>2. kept \cup {e} \subseteq es /\ ListedOf(es, Queries) # {}
  BY DEF Prunings, Live, ListedOf
<1> QED
  BY <1>1, <1>2, SmallerFits DEF Neat, Fits

\* ... and a live query that was used after all others.
LEMMA KeptIfRecent ==
  ASSUME Roomy, NEW es \in SUBSET Entry, Neat(es), NEW kept \in Prunings(es), NEW e \in Live(es),
         e.key \in Queries,
         \A f \in es : f.key \in Queries /\ f.key # e.key => f.seen < e.seen
  PROVE  e \in kept
<1> SUFFICES ASSUME e \notin kept PROVE FALSE
  OBVIOUS
<1>1. kept \subseteq es /\ e \in es
  BY DEF Prunings, Live
<1>2. /\ \A f \in ListedOf(kept, Queries) : f.seen >= e.seen
      /\ ~WithinCaps(kept \cup {e})
  BY DEF Prunings
<1>3. ListedOf(kept, Queries) = {}
  <2> SUFFICES ASSUME NEW f \in ListedOf(kept, Queries) PROVE FALSE
    OBVIOUS
  <2>1. f \in es /\ f \in Entry /\ e \in Entry /\ f.key \in Queries /\ f # e /\ f.seen >= e.seen
    BY <1>1, <1>2 DEF ListedOf
  <2>2. f.seen < e.seen
    BY <1>1, <2>1 DEF Neat
  <2> QED
    BY <2>1, <2>2 DEF Entry
<1>4. ListedOf(kept \cup {e}, Queries) = {e}
  BY <1>3 DEF ListedOf
<1>5. \E w : ListedOf(kept \cup {e}, {Warm}) \in {{}, {w}}
  <2>1. CASE ListedOf(kept \cup {e}, {Warm}) = {}
    BY <2>1
  <2>2. CASE ListedOf(kept \cup {e}, {Warm}) # {}
    <3>1. PICK w : w \in ListedOf(kept \cup {e}, {Warm})
      BY <2>2
    <3>2. ListedOf(kept \cup {e}, {Warm}) = {w}
      BY <1>1, <3>1 DEF ListedOf, Neat
    <3> QED
      BY <3>2
  <2> QED
    BY <2>1, <2>2
<1>6. /\ Cardinality(ListedOf(kept \cup {e}, Queries)) = 1
      /\ Cardinality(ListedOf(kept \cup {e}, {Warm})) \in {0, 1}
  BY <1>4, <1>5, FS_EmptySet, FS_Singleton
<1>7. WithinCaps(kept \cup {e})
  BY <1>6, CacheShape DEF WithinCaps, Roomy
<1> QED
  BY <1>2, <1>7

\* What a process that saves its query has in hand.
OwnEntry(r) == [key |-> r.query, seen |-> r.at, expires |-> r.at + LifeTime[r.query]]

Saves(r) == r.pc \in {"persisting", "writing"} /\ r.next = "resting" /\ r.query # Warm

\* A process that nothing overlapped: its payload and its entry are there, the
\* entry is the last one used, and the index it cut short waits for it.
Undisturbed(r) ==
  /\ r.pc = "indexing" => payload[r.query].form = "whole"
  /\ Saves(r) /\ r.at + LifeTime[r.query] > clock =>
       payload[r.query].form = "whole" /\ OwnEntry(r) \in r.held
  /\ Saves(r) /\ r.pc = "persisting" =>
       \A e \in r.held : e.key \in Queries /\ e.key # r.query => e.seen < r.at
  /\ r.pc = "writing" => index.form = "cut"

LInv ==
  /\ Neat(index.entries) /\ Fits(index.entries)
  /\ \A h \in Hooks :
       /\ Neat(hook[h].held)
       /\ hook[h].pc = "writing" => Fits(hook[h].held)
       /\ hook[h].pc = "warming" =>
            hook[h].query = Warm /\ \A e \in hook[h].held : e.key # Warm
       /\ hook[h].pc # "resting" /\ hook[h].marks = {} => Others(h) = {} /\ Undisturbed(hook[h])

LEMMA EmptyNeat == Neat({}) /\ Fits({})
BY FS_EmptySet DEF Neat, Fits, ListedOf

LEMMA NeatSubset ==
  ASSUME NEW es, NEW fs, fs \subseteq es, Neat(es)
  PROVE  Neat(fs)
BY FS_Subset DEF Neat

LEMMA NeatWith ==
  ASSUME NEW es, NEW e, Neat(es), \A f \in es : f.key # e.key
  PROVE  Neat(es \cup {e})
BY FS_AddElement DEF Neat

LEMMA PrunedNeat ==
  ASSUME NEW es, NEW kept \in Prunings(es), Neat(es)
  PROVE  Neat(kept) /\ Fits(kept)
BY Pruned, NeatSubset DEF Prunings, Fits

LEMMA ParsedNeat == LInv => Neat(Parsed) /\ Fits(Parsed)
BY EmptyNeat DEF LInv, Parsed

\* A step of h: the others rest, or are marked by it.
LEMMA LSteps ==
  ASSUME CInv, LInv, NEW h \in Hooks, NEW from, NEW to \in HookState, Go(h, from, to),
         Neat(to.held), to.pc = "writing" => Fits(to.held),
         to.pc = "warming" => to.query = Warm /\ \A e \in to.held : e.key # Warm,
         to.pc # "resting" /\ to.marks = {} => Others(h) = {} /\ Undisturbed(to)',
         Neat(index'.entries), Fits(index'.entries)
  PROVE  LInv'
<1>1. hook' \in [Hooks -> HookState] /\ Moved(h, to)
  BY Went DEF CInv
<1>2. ASSUME NEW g \in Hooks
      PROVE  /\ Neat(hook'[g].held)
             /\ hook'[g].pc = "writing" => Fits(hook'[g].held)
             /\ hook'[g].pc = "warming" =>
                  hook'[g].query = Warm /\ \A e \in hook'[g].held : e.key # Warm
             /\ hook'[g].pc # "resting" /\ hook'[g].marks = {} =>
                  Others(g)' = {} /\ Undisturbed(hook[g])'
  <2>1. CASE g = h
    <3>1. hook'[g] = to
      BY <1>1, <2>1 DEF Moved
    <3>2. ASSUME Others(h) = {} PROVE Others(h)' = {}
      BY <1>1, <3>2 DEF Moved, Others
    <3> QED
      BY <2>1, <3>1, <3>2
  <2>2. CASE g # h
    <3>1. PICK r \in HookState : r = hook[g]
      BY DEF CInv, Types
    <3>2. \/ r.pc = "resting" /\ hook'[g] = r
          \/ hook'[g] = [r EXCEPT !.marks = @ \cup {"overlap"}]
      BY <1>1, <2>2, <3>1 DEF Moved
    <3>3. hook'[g].held = r.held /\ hook'[g].pc = r.pc /\ hook'[g].query = r.query
          /\ (r.pc = "resting" \/ hook'[g].marks # {})
      BY <3>2 DEF HookState
    <3> QED
      BY <3>1, <3>3 DEF LInv
  <2> QED
    BY <2>1, <2>2
<1> QED
  BY <1>2 DEF LInv

LEMMA InitLInv == CacheInit => LInv
<1> SUFFICES ASSUME CacheInit PROVE LInv
  OBVIOUS
<1>1. index.entries = {} /\ \A h \in Hooks : hook[h].held = {} /\ hook[h].pc = "resting"
  BY DEF CacheInit, Resting
<1> QED
  BY <1>1, EmptyNeat DEF LInv

\* A process that is under way has its own marks, and more.
LEMMA StillAlone ==
  ASSUME LInv, NEW h \in Hooks, hook[h].pc # "resting", hook[h].marks = {}
  PROVE  Others(h) = {} /\ Undisturbed(hook[h])
BY DEF LInv

LEMMA LStep ==
  ASSUME Roomy, CInv, LInv, [CacheNext]_cacheVars
  PROVE  LInv'
<1>1. CASE UNCHANGED cacheVars
  BY <1>1 DEF cacheVars, LInv, Others, Undisturbed
<1>2. CASE CacheTick
  <2>1. \A h \in Hooks : Undisturbed(hook[h]) => Undisturbed(hook[h])'
    <3> SUFFICES ASSUME NEW h \in Hooks, Undisturbed(hook[h]) PROVE Undisturbed(hook[h])'
      OBVIOUS
    <3>1. PICK r \in HookState : r = hook[h]
      BY DEF CInv, Types
    <3>2. r.at + LifeTime[r.query] \in Nat /\ clock \in Nat
      BY CacheShape DEF HookState, CInv, Types
    <3>3. Undisturbed(r)'
      BY <1>2, <3>1, <3>2 DEF Undisturbed, CacheTick
    <3> QED
      BY <1>2, <3>1, <3>3 DEF CacheTick
  <2> QED
    BY <1>2, <2>1 DEF CacheTick, LInv, Others
<1>3. ASSUME NEW h \in Hooks, NEW q \in Queries, Lookup(h, q)
      PROVE  LInv'
  <2>1. PICK kept, to :
          /\ kept \in Prunings(Parsed)
          /\ Prune(Parsed, kept)
          /\ to = [Resting EXCEPT !.pc = "exact", !.query = q, !.at = clock,
                                  !.held = kept, !.marks = StartMarks(h)]
          /\ Go(h, "resting", to)
    BY <1>3 DEF Lookup
  <2>2. kept \subseteq Entry /\ Neat(kept)
    BY <2>1, Pruned, ParsedFacts, PrunedNeat, ParsedNeat
  <2>3. to \in HookState
    BY <2>1, <2>2 DEF CInv, Types, HookState, Resting, StartMarks, Pcs, Stages, CacheKeys
  <2>4. to.held = kept /\ to.pc = "exact" /\ (to.marks = {} => Others(h) = {})
    BY <2>1 DEF Resting, StartMarks
  <2>5. Undisturbed(to)'
    BY <2>4 DEF Undisturbed, Saves
  <2> QED
    BY <1>3, <2>1, <2>2, <2>3, <2>4, <2>5, LSteps DEF Lookup, LInv
<1>4. ASSUME NEW h \in Hooks, NEW e \in hook[h].held, ReadHit(h, e)
      PROVE  LInv'
  <2>1. PICK r \in HookState : r = hook[h]
    BY DEF CInv, Types
  <2>2. PICK touched : touched = [e EXCEPT !.seen = clock]
    OBVIOUS
  <2>3. PICK to : to = [r EXCEPT !.hit = {[key |-> e.key, at |-> payload[e.key].at]},
                      !.pc = IF e.key = Warm THEN "answering" ELSE "persisting",
                      !.next = "answering",
                      !.held = IF e.key = Warm THEN @ ELSE (@ \ {e}) \cup {touched}]
    OBVIOUS
  <2>4. /\ r.pc \in Stages
        /\ Go(h, r.pc, to)
        /\ UNCHANGED <<index, payload, clock, started>>
    BY <1>4, <2>1, <2>2, <2>3 DEF ReadHit, Silent
  <2>5. e \in Entry /\ e \in r.held /\ Neat(r.held)
    BY <2>1 DEF HookState, LInv
  <2>6. touched \in Entry /\ touched.key = e.key
    BY <2>2, <2>5 DEF Entry, CInv, Types
  <2>7. to.held = r.held \/ to.held = (r.held \ {e}) \cup {touched}
    BY <2>3 DEF HookState
  <2>8. Neat(to.held)
    <3>1. Neat(r.held \ {e}) /\ \A f \in r.held \ {e} : f.key # touched.key
      BY <2>5, <2>6, NeatSubset DEF Neat
    <3> QED
      BY <2>5, <2>7, <3>1, NeatWith
  <2>9. /\ to.pc \in {"answering", "persisting"} /\ to.next = "answering" /\ to.marks = r.marks
        /\ to.query = r.query /\ to.at = r.at
        /\ to.hit = {[key |-> e.key, at |-> payload[e.key].at]}
    BY <2>3 DEF HookState
  <2>10. to \in HookState
    <3>1. to.held \subseteq Entry
      BY <2>6, <2>7 DEF HookState
    <3>2. [key |-> e.key, at |-> payload[e.key].at] \in [key : CacheKeys, at : Nat]
      BY <2>5 DEF Entry, CInv, Types, FileState
    <3>3. to = [pc |-> to.pc, query |-> to.query, at |-> to.at, held |-> to.held,
                hit |-> to.hit, next |-> to.next, marks |-> to.marks]
      BY <2>3 DEF HookState
    <3> QED
      BY <2>9, <3>1, <3>2, <3>3 DEF HookState, Pcs
  <2>11. Undisturbed(to)'
    BY <2>9 DEF Undisturbed, Saves
  <2>12. to.marks = {} => Others(h) = {}
    BY <2>1, <2>4, <2>9, StillAlone DEF Stages
  <2> QED
    BY <2>4, <2>8, <2>9, <2>10, <2>11, <2>12, LSteps DEF LInv
<1>5. ASSUME NEW h \in Hooks, NEW e \in hook[h].held, ReadMiss(h, e)
      PROVE  LInv'
  <2>1. PICK r \in HookState : r = hook[h]
    BY DEF CInv, Types
  <2>2. PICK to : to = [r EXCEPT !.pc = "persisting", !.next = Following(r.pc), !.held = @ \ {e}]
    OBVIOUS
  <2>3. /\ r.pc \in Stages
        /\ Go(h, r.pc, to)
        /\ UNCHANGED <<index, clock, started>>
    BY <1>5, <2>1, <2>2 DEF ReadMiss, Silent
  <2>4. /\ to \in HookState /\ to.pc = "persisting" /\ to.next # "resting" /\ to.marks = r.marks
        /\ to.held \subseteq r.held
    BY <2>2, <2>3 DEF HookState, Pcs, Stages, Following
  <2>5. Neat(to.held)
    BY <2>1, <2>4, NeatSubset DEF LInv
  <2>6. Undisturbed(to)'
    BY <2>4 DEF Undisturbed, Saves
  <2>7. to.marks = {} => Others(h) = {}
    BY <2>1, <2>3, <2>4, StillAlone DEF Stages
  <2> QED
    BY <2>3, <2>4, <2>5, <2>6, <2>7, LSteps DEF LInv
<1>6. ASSUME NEW h \in Hooks, ReadNothing(h)
      PROVE  LInv'
  <2>1. PICK r \in HookState : r = hook[h]
    BY DEF CInv, Types
  <2>2. PICK to : to = [r EXCEPT !.pc = Following(r.pc)]
    OBVIOUS
  <2>3. /\ r.pc \in Stages
        /\ Go(h, r.pc, to)
        /\ UNCHANGED <<index, payload, clock, started>>
    BY <1>6, <2>1, <2>2 DEF ReadNothing, Silent
  <2>4. /\ to \in HookState /\ to.pc \in {"nearby", "warm", "asking"} /\ to.marks = r.marks
        /\ to.held = r.held
    BY <2>2, <2>3 DEF HookState, Pcs, Stages, Following
  <2>5. Neat(to.held)
    BY <2>1, <2>4 DEF LInv
  <2>6. Undisturbed(to)'
    BY <2>4 DEF Undisturbed, Saves
  <2>7. to.marks = {} => Others(h) = {}
    BY <2>1, <2>3, <2>4, StillAlone DEF Stages
  <2> QED
    BY <2>3, <2>4, <2>5, <2>6, <2>7, LSteps DEF LInv
<1>7. ASSUME NEW h \in Hooks, Answer(h)
      PROVE  LInv'
  <2>1. Resting \in HookState /\ Resting.held = {} /\ Resting.pc = "resting"
    BY DEF Resting, HookState, Pcs, Stages, CacheKeys
  <2> QED
    BY <1>7, <2>1, EmptyNeat, LSteps DEF Answer, Silent, LInv
<1>8. ASSUME NEW h \in Hooks, SavePayload(h)
      PROVE  LInv'
  <2>1. PICK r \in HookState : r = hook[h]
    BY DEF CInv, Types
  <2>2. PICK to : to = [r EXCEPT !.pc = "indexing", !.at = clock, !.held = {}]
    OBVIOUS
  <2>3. /\ r.pc = "asking" /\ r.query \in CacheKeys
        /\ Go(h, "asking", to)
        /\ payload' = [payload EXCEPT ![r.query] = Whole(clock)]
        /\ UNCHANGED <<index, clock, started>>
    BY <1>8, <2>1, <2>2 DEF SavePayload, Silent, Go, HookState
  <2>4. /\ to \in HookState /\ to.pc = "indexing" /\ to.query = r.query /\ to.held = {}
        /\ to.marks = r.marks
    BY <2>2 DEF HookState, Pcs, CInv, Types
  <2>5. payload'[r.query].form = "whole"
    BY <2>3, Forms DEF CInv, Types
  <2>6. Undisturbed(to)'
    BY <2>4, <2>5 DEF Undisturbed, Saves
  <2>7. to.marks = {} => Others(h) = {}
    BY <2>1, <2>3, <2>4, StillAlone
  <2> QED
    BY <2>3, <2>4, <2>6, <2>7, EmptyNeat, LSteps DEF LInv
<1>9. ASSUME NEW h \in Hooks, WarmPayload(h)
      PROVE  LInv'
  <2>1. PICK r \in HookState : r = hook[h]
    BY DEF CInv, Types
  <2>2. PICK own : own = [key |-> Warm, seen |-> clock, expires |-> clock + LifeTime[Warm]]
    OBVIOUS
  <2>3. PICK to : to = [r EXCEPT !.pc = "persisting", !.held = @ \cup {own}]
    OBVIOUS
  <2>4. /\ r.pc = "warming"
        /\ Go(h, "warming", to)
        /\ UNCHANGED <<index, clock, started>>
    BY <1>9, <2>1, <2>2, <2>3 DEF WarmPayload, Silent, Go
  <2>5. own \in Entry /\ own.key = Warm
    BY <2>2, CacheShape DEF Entry, CacheKeys, CInv, Types
  <2>6. /\ to \in HookState /\ to.pc = "persisting" /\ to.query = r.query
        /\ to.held = r.held \cup {own} /\ to.marks = r.marks
    BY <2>3, <2>5 DEF HookState, Pcs
  <2>7. r.query = Warm /\ \A e \in r.held : e.key # Warm
    BY <2>1, <2>4 DEF LInv
  <2>8. Neat(to.held)
    BY <2>1, <2>5, <2>6, <2>7, NeatWith DEF LInv
  <2>9. Undisturbed(to)'
    BY <2>6, <2>7 DEF Undisturbed, Saves
  <2>10. to.marks = {} => Others(h) = {}
    BY <2>1, <2>4, <2>6, StillAlone
  <2> QED
    BY <2>4, <2>6, <2>8, <2>9, <2>10, LSteps DEF LInv
<1>10. ASSUME NEW h \in Hooks, SaveIndex(h)
       PROVE  LInv'
  <2>1. PICK r \in HookState : r = hook[h]
    BY DEF CInv, Types
  <2>2. PICK kept, to :
          /\ kept \in Prunings(Parsed)
          /\ to = [r EXCEPT !.pc = "persisting", !.next = "resting",
                          !.held = {e \in kept : e.key # r.query} \cup {OwnEntry(r)},
                          !.marks = @ \cup Hindrances(r, Parsed)]
          /\ Prune(Parsed, kept)
          /\ Go(h, "indexing", to)
    BY <1>10, <2>1 DEF SaveIndex, OwnEntry
  <2>3. r.pc = "indexing" /\ UNCHANGED <<clock, index>>
    BY <1>10, <2>1 DEF SaveIndex, Silent, Go
  <2>4. OwnEntry(r) \in Entry /\ OwnEntry(r).key = r.query
    BY CacheShape DEF HookState, Entry, OwnEntry
  <2>5. kept \subseteq Parsed /\ Parsed \subseteq Entry /\ Neat(kept)
    BY <2>2, Pruned, ParsedFacts, PrunedNeat, ParsedNeat
  <2>6. /\ to.pc = "persisting" /\ to.query = r.query /\ to.at = r.at
        /\ to.held = {e \in kept : e.key # r.query} \cup {OwnEntry(r)}
        /\ to.marks = r.marks \cup Hindrances(r, Parsed)
        /\ OwnEntry(to) = OwnEntry(r)
    BY <2>2 DEF HookState, OwnEntry
  <2>7. to \in HookState
    BY <2>2, <2>4, <2>5 DEF HookState, Pcs, Stages, Hindrances
  <2>8. Neat(to.held)
    <3>1. Neat({e \in kept : e.key # r.query})
      BY <2>5, NeatSubset
    <3> QED
      BY <2>4, <2>6, <3>1, NeatWith
  <2>9. ASSUME to.marks = {}
        PROVE  Others(h) = {} /\ Undisturbed(to)'
    <3>1. r.marks = {} /\ Hindrances(r, Parsed) = {}
      BY <2>6, <2>9
    <3>2. Others(h) = {} /\ payload[r.query].form = "whole"
      BY <2>1, <2>3, <3>1, StillAlone DEF Undisturbed
    <3>3. /\ \A e \in Parsed : e.key = r.query => ~(e.expires <= clock)
          /\ \A e \in Parsed : e.key # r.query => ~(e.seen >= r.at)
      <4>1. "expired" \notin Hindrances(r, Parsed) /\ "tie" \notin Hindrances(r, Parsed)
        BY <3>1
      <4> QED
        BY <4>1 DEF Hindrances, ListedOf
    <3>4. r.query # Warm => payload'[r.query] = payload[r.query]
      <4> SUFFICES ASSUME r.query # Warm, NEW e \in Parsed \ kept, e.key = r.query
                   PROVE  FALSE
        BY <2>2 DEF Prune, HookState
      <4>1. r.query \in Queries /\ e \in Entry
        BY <2>5 DEF HookState, CacheKeys
      <4>2. e \in Live(Parsed)
        BY <3>2, <3>3, <4>1, Forms DEF Live, Entry, CInv, Types
      <4> QED
        BY <2>2, <4>1, <4>2, KeptWithinCaps, ParsedNeat
    <3>5. \A e \in to.held : e.key # r.query => e.seen < r.at
      BY <2>4, <2>5, <2>6, <3>3 DEF Entry, HookState
    <3>6. OwnEntry(to) \in to.held
      BY <2>6
    <3> QED
      BY <2>6, <3>2, <3>4, <3>5, <3>6 DEF Undisturbed, Saves
  <2> QED
    BY <2>2, <2>3, <2>6, <2>7, <2>8, <2>9, LSteps DEF LInv
<1>11. ASSUME NEW h \in Hooks, NEW memories \in BOOLEAN, StoreWarm(h, memories)
       PROVE  LInv'
  <2>1. PICK kept, to :
          /\ kept \in Prunings(Parsed)
          /\ to = [Resting EXCEPT !.pc = IF memories THEN "warming" ELSE "persisting",
                             !.held = ListedOf(kept, Queries), !.marks = StartMarks(h)]
          /\ Go(h, "resting", to)
    BY <1>11 DEF StoreWarm
  <2>2. ListedOf(kept, Queries) \subseteq Entry /\ Neat(ListedOf(kept, Queries))
        /\ \A e \in ListedOf(kept, Queries) : e.key # Warm
    BY <2>1, Pruned, ParsedFacts, PrunedNeat, ParsedNeat, NeatSubset, CacheShape DEF ListedOf
  <2>3. to \in HookState
    BY <2>1, <2>2 DEF HookState, Resting, Pcs, Stages, CacheKeys, StartMarks
  <2>4. /\ to.pc \in {"warming", "persisting"} /\ to.query = Warm
        /\ to.held = ListedOf(kept, Queries)
        /\ to.marks = {} => Others(h) = {}
    BY <2>1 DEF Resting, StartMarks
  <2>5. Undisturbed(to)'
    BY <2>4 DEF Undisturbed, Saves
  <2>6. Neat(index'.entries) /\ Fits(index'.entries)
    BY <1>11 DEF LInv, StoreWarm
  <2> QED
    BY <2>1, <2>2, <2>3, <2>4, <2>5, <2>6, LSteps
<1>12. ASSUME NEW h \in Hooks, Clear(h)
       PROVE  LInv'
  <2>1. index'.entries = {} /\ hook[h].pc = "resting"
    BY <1>12 DEF Clear
  <2>2. ASSUME NEW g \in Hooks
        PROVE  /\ hook'[g].pc = hook[g].pc /\ hook'[g].held = hook[g].held
               /\ hook'[g].query = hook[g].query
               /\ hook'[g].pc = "resting" \/ hook'[g].marks # {}
    <3>1. PICK r \in HookState : r = hook[g]
      BY DEF CInv, Types
    <3>2. \/ hook'[g] = r /\ r.pc = "resting"
          \/ hook'[g] = [r EXCEPT !.marks = @ \cup {"overlap"}]
      BY <1>12, <2>1, <3>1 DEF Clear, Others
    <3> QED
      BY <3>1, <3>2 DEF HookState
  <2> QED
    BY <2>1, <2>2, EmptyNeat DEF LInv
<1>13. ASSUME NEW h \in Hooks, Truncate(h)
       PROVE  LInv'
  <2>1. PICK r \in HookState : r = hook[h]
    BY DEF CInv, Types
  <2>2. PICK kept, to :
          /\ kept \in Prunings(r.held)
          /\ to = [r EXCEPT !.pc = "writing", !.held = kept]
          /\ Prune(r.held, kept)
          /\ Go(h, "persisting", to)
    BY <1>13, <2>1 DEF Truncate
  <2>3. /\ r.pc = "persisting" /\ clock' = clock /\ kept \subseteq r.held
        /\ index' = [form |-> "cut", entries |-> {}]
    BY <1>13, <2>1, <2>2, Pruned DEF Truncate, Silent, Go
  <2>4. /\ to \in HookState /\ to.pc = "writing" /\ to.next = r.next /\ to.query = r.query
        /\ to.at = r.at /\ to.held = kept /\ to.marks = r.marks /\ OwnEntry(to) = OwnEntry(r)
    BY <2>2, <2>3 DEF HookState, Pcs, Stages, OwnEntry
  <2>5. Neat(r.held) /\ Neat(kept) /\ Fits(kept)
    BY <2>1, <2>2, PrunedNeat DEF LInv
  <2>6. ASSUME to.marks = {}
        PROVE  Others(h) = {} /\ Undisturbed(to)'
    <3>1. Others(h) = {} /\ Undisturbed(r)
      BY <2>1, <2>3, <2>4, <2>6, StillAlone
    <3>2. ASSUME Saves(r), r.at + LifeTime[r.query] > clock
          PROVE  payload'[r.query].form = "whole" /\ OwnEntry(r) \in kept
      <4>1. /\ payload[r.query].form = "whole" /\ OwnEntry(r) \in r.held
            /\ \A e \in r.held : e.key \in Queries /\ e.key # r.query => e.seen < r.at
        BY <2>3, <3>1, <3>2 DEF Undisturbed
      <4>2. /\ OwnEntry(r).key = r.query /\ OwnEntry(r).seen = r.at
            /\ OwnEntry(r).expires = r.at + LifeTime[r.query]
            /\ r.query \in Queries /\ r.held \in SUBSET Entry
        BY <3>2 DEF OwnEntry, Saves, HookState, CacheKeys
      <4>3. OwnEntry(r) \in Live(r.held)
        BY <3>2, <4>1, <4>2, Forms DEF Live
      <4>4. OwnEntry(r) \in kept
        <5>1. PICK own : own = OwnEntry(r)
          OBVIOUS
        <5> QED
          BY <2>2, <2>5, <4>1, <4>2, <4>3, <5>1, KeptIfRecent
      <4>5. r.query \notin {e.key : e \in r.held \ kept}
        BY <2>5, <4>1, <4>2, <4>4 DEF Neat
      <4>6. payload'[r.query] = payload[r.query]
        BY <2>2, <4>2, <4>5 DEF Prune, CacheKeys
      <4> QED
        BY <4>1, <4>4, <4>6
    <3> QED
      BY <2>3, <2>4, <3>1, <3>2 DEF Undisturbed, Saves
  <2> QED
    BY <2>2, <2>3, <2>4, <2>5, <2>6, EmptyNeat, LSteps
<1>14. ASSUME NEW h \in Hooks, WriteIndex(h)
       PROVE  LInv'
  <2>1. PICK r \in HookState : r = hook[h]
    BY DEF CInv, Types
  <2>2. PICK to : to = IF r.next = "resting" THEN Resting ELSE [r EXCEPT !.pc = r.next]
    OBVIOUS
  <2>3. /\ r.pc = "writing" /\ Go(h, "writing", to)
        /\ index' \in {[form |-> "whole", entries |-> r.held], [form |-> "garbled", entries |-> {}]}
    BY <1>14, <2>1, <2>2 DEF WriteIndex, Go, Silent
  <2>4. to \in HookState /\ to.pc \in Stages \cup {"resting", "asking", "answering"}
        /\ to.held \in {{}, r.held} /\ (to.pc # "resting" => to.marks = r.marks)
    BY <2>2 DEF HookState, Pcs, Stages, Resting, CacheKeys
  <2>5. Neat(r.held) /\ Fits(r.held)
    BY <2>1, <2>3 DEF LInv
  <2>6. Undisturbed(to)'
    BY <2>4 DEF Undisturbed, Saves, Stages
  <2>7. to.pc # "resting" /\ to.marks = {} => Others(h) = {}
    BY <2>1, <2>3, <2>4, StillAlone
  <2>8. to.pc \notin {"writing", "warming"}
    BY <2>4 DEF Stages
  <2>9. /\ Neat(to.held) /\ Neat(index'.entries) /\ Fits(index'.entries)
    BY <2>3, <2>4, <2>5, EmptyNeat
  <2> QED
    BY <2>3, <2>4, <2>6, <2>7, <2>8, <2>9, LSteps
<1>15. ASSUME NEW h \in Hooks, Stop(h)
       PROVE  LInv'
  <2>1. hook' = [hook EXCEPT ![h] = Resting] /\ UNCHANGED <<index, clock>> /\ hook[h].pc # "resting"
    BY <1>15 DEF Stop, Silent
  <2>2. ASSUME NEW g \in Hooks \ {h}
        PROVE  hook'[g] = hook[g] /\ (hook[g].pc # "resting" => hook[g].marks # {})
    BY <2>1, <2>2, StillAlone DEF Others, CInv, Types
  <2>3. hook'[h] = Resting /\ Resting.pc = "resting" /\ Resting.held = {}
    BY <2>1 DEF CInv, Types, Resting
  <2> QED
    BY <2>1, <2>2, <2>3, EmptyNeat DEF LInv
<1> QED
  BY <1>1, <1>2, <1>3, <1>4, <1>5, <1>6, <1>7, <1>8, <1>9, <1>10, <1>11, <1>12, <1>13, <1>14,
     <1>15 DEF CacheNext, CacheStep

LEMMA LoneStep ==
  ASSUME CInv, LInv, [CacheNext]_cacheVars, NEW h \in Hooks, FinishesSave(h), hook[h].marks = {}
  PROVE  Kept(h)
<1>1. PICK r \in HookState : r = hook[h]
  BY DEF CInv, Types
<1>2. /\ r.pc = "writing" /\ Saves(r) /\ r.at + LifeTime[r.query] > clock
      /\ index'.form = "whole" /\ hook'[h] = Resting
  BY <1>1 DEF FinishesSave, Saves
<1>3. /\ Others(h) = {} /\ index.form = "cut"
      /\ payload[r.query].form = "whole" /\ OwnEntry(r) \in r.held
  BY <1>1, <1>2, StillAlone DEF Undisturbed
<1>4. WriteIndex(h)
  <2>1. PICK g \in Hooks : CacheStep(g)
    BY <1>1, <1>2 DEF CacheNext, CacheTick, cacheVars, Resting
  <2>2. \/ WriteIndex(g) \/ Stop(g) \/ Clear(g)
        \/ \E from, to : Go(g, from, to) /\ from # "writing"
    <3> DEFINE Goes == \E from, to : Go(g, from, to) /\ from # "writing"
    <3>1. ASSUME NEW q \in Queries PROVE Lookup(g, q) => Goes
      BY DEF Lookup
    <3>2. ASSUME NEW e PROVE ReadHit(g, e) => Goes
      BY DEF ReadHit, Stages
    <3>3. ASSUME NEW e PROVE ReadMiss(g, e) => Goes
      BY DEF ReadMiss, Stages
    <3>4. ReadNothing(g) => Goes
      BY DEF ReadNothing, Stages
    <3>5. Answer(g) \/ SavePayload(g) \/ WarmPayload(g) => Goes
      BY DEF Answer, SavePayload, WarmPayload
    <3>6. ASSUME NEW memories PROVE StoreWarm(g, memories) => Goes
      BY DEF StoreWarm
    <3>7. SaveIndex(g) => Goes
      BY DEF SaveIndex
    <3>8. Truncate(g) => Goes
      <4>1. \E to : Truncate(g) => Go(g, "persisting", to)
        BY DEF Truncate
      <4> QED
        BY <4>1
    <3> QED
      BY <2>1, <3>1, <3>2, <3>3, <3>4, <3>5, <3>6, <3>7, <3>8 DEF CacheStep
  <2>3. CASE g = h
    BY <1>1, <1>2, <1>3, <2>2, <2>3 DEF Go, Clear, Stop
  <2>4. CASE g # h
    <3>1. hook'[h] = r \/ hook'[h] = [r EXCEPT !.marks = @ \cup {"overlap"}]
      BY <1>1, <2>2, <2>4 DEF Go, Clear, Stop, WriteIndex, CInv, Types
    <3> QED
      BY <1>2, <3>1 DEF HookState, Resting
  <2> QED
    BY <2>3, <2>4
<1>5. index' = [form |-> "whole", entries |-> r.held] /\ payload' = payload
  BY <1>1, <1>3, <1>4 DEF WriteIndex
<1> QED
  BY <1>1, <1>3, <1>5 DEF Kept, OwnEntry

\* A save that no other process overlapped is kept until its time is up, from
\* whatever was in the files before, when the caps leave room for it (save,
\* pruneIndex, persistIndex).
THEOREM LoneSave ==
  ASSUME Roomy
  PROVE  CacheSpec => LoneSaveIsKept
<1>1. LInv /\ CInv /\ [CacheNext]_cacheVars =>
        [\A h \in Hooks : FinishesSave(h) /\ hook[h].marks = {} => Kept(h)]_cacheVars
  BY LoneStep
<1> QED
  BY <1>1, InitLInv, LStep, CacheInvariance, PTL DEF CacheSpec, LoneSaveIsKept

-----------------------------------------------------------------------------
(***************************************************************************)
(* TaskJourney, for every set of task ids, briefs and facades, and any     *)
(* number of commands and attempts.  The plan of a task is one phase       *)
(* with one task, so what ManagedWorkflowProofs proves of any plan is      *)
(* instantiated for it (Proved, once the assumptions on plans are shown    *)
(* to hold of it), and Worked says what is special about such a plan: its  *)
(* workflow is completed exactly when its task and its phase are.          *)
(*                                                                         *)
(* The invariant JInv says what a facade may rely on between two of its    *)
(* steps, while other processes act and the operator edits: the lock is    *)
(* its own (Locked), a brief has its manifest (Framed), the file is empty  *)
(* or holds the task of the brief on record (Holds), and what it checked   *)
(* before the step it is at still holds (Placed).                          *)
(***************************************************************************)

\* What is proved of managed workflows, for the plan of a task.
Proved == INSTANCE ManagedWorkflowProofs WITH
  wf <- current.content, Phases <- {"work"}, Tasks <- {"implement"},
  PhaseOf <- [t \in {"implement"} |-> "work"], Rank <- [i \in {"work", "implement"} |-> 1],
  DependsOn <- [i \in {"work", "implement"} |-> {}], Bindings <- [t \in {"implement"} |-> {}],
  Recovery <- [t \in {"implement"} |-> Missing], ContextTasks <- {}, RuntimePhases <- {},
  MaxAttempts <- [t \in {"implement"} |-> TaskAttempts], CheckpointPhases <- {},
  FreshVerdicts <- {}, None <- Missing

LEMMA PlanShape == Proved!PlanShape
<1>1. TaskAttempts \in 1..Proved!AttemptCap
  BY JourneyShape DEF Flow!AttemptCap, Proved!AttemptCap
<1>2. Proved!IsFiniteSet({"work"} \cup {"implement"})
  <2>1. IsFiniteSet({"work"} \cup {"implement"})
    BY FS_Singleton, FS_Union
  <2> QED
    BY <2>1 DEF Proved!IsFiniteSet, IsFiniteSet
<1> QED
  BY <1>1, <1>2, JourneyShape DEF Proved!PlanShape, Proved!Ids

LEMMA EveryPhaseHasATask == Proved!EveryPhaseHasATask
BY DEF Proved!EveryPhaseHasATask, Proved!TasksOf

LEMMA PlanIsAcyclic == Proved!PlanIsAcyclic
BY DEF Proved!PlanIsAcyclic, Proved!Acyclic, Proved!Ids, Proved!Edges, Proved!TasksOf

LEMMA InputShape == Proved!InputShape
BY DEF Proved!InputShape

-----------------------------------------------------------------------------
(* The commands are the same in both instances. *)

LEMMA SameWorkflows ==
  /\ Proved!Workflow = Flow!Workflow
  /\ Proved!NewWorkflow = Flow!NewWorkflow
  /\ Proved!NoWorkflow = Flow!NoWorkflow
  /\ Proved!Done = Flow!Done
  /\ Proved!Outcomes = Flow!Outcomes
  /\ \A w : Proved!Normalized(w) = Flow!Normalized(w)
<1> USE DEF Proved!Normalized, Flow!Normalized, Proved!DefaultTask, Flow!DefaultTask,
            Proved!InProgress, Flow!InProgress, Proved!TasksOf, Flow!TasksOf,
            Proved!First, Flow!First
<1>1. Proved!Workflow = Flow!Workflow
  BY DEF Proved!Workflow, Flow!Workflow, Proved!Statuses, Flow!Statuses, Proved!AttemptCap,
         Flow!AttemptCap, Proved!AttemptRecord, Flow!AttemptRecord, Proved!Verdicts, Flow!Verdicts
<1>2. Proved!NewWorkflow = Flow!NewWorkflow
  BY DEF Proved!NewWorkflow, Flow!NewWorkflow
<1>3. Proved!NoWorkflow = Flow!NoWorkflow
  BY DEF Proved!NewWorkflow, Flow!NewWorkflow, Proved!NoWorkflow, Flow!NoWorkflow
<1>4. Proved!Done = Flow!Done /\ Proved!Outcomes = Flow!Outcomes
  BY DEF Proved!Done, Flow!Done, Proved!Outcomes, Flow!Outcomes
<1>5. ASSUME NEW w
      PROVE  Proved!Normalized(w) = Flow!Normalized(w)
  OBVIOUS
<1> QED
  BY <1>1, <1>2, <1>3, <1>4, <1>5

LEMMA SameGuards ==
  ASSUME NEW w, NEW o
  PROVE  /\ Proved!CanStartTask(w, "implement") <=> Flow!CanStartTask(w, "implement")
         /\ Proved!CanCommitTask(w, "implement", o) <=> Flow!CanCommitTask(w, "implement", o)
         /\ Proved!CanRetryTask(w, "implement", Missing) <=>
              Flow!CanRetryTask(w, "implement", Missing)
         /\ Proved!CanCommitPhase(w, "work", o, FALSE) <=> Flow!CanCommitPhase(w, "work", o, FALSE)
         /\ Proved!CanCommitFinal(w, o) <=> Flow!CanCommitFinal(w, o)
<1> USE DEF Proved!TasksOf, Flow!TasksOf, Proved!Done, Flow!Done, Proved!ContextLoaded,
            Flow!ContextLoaded
<1>1. Proved!CanStartTask(w, "implement") <=> Flow!CanStartTask(w, "implement")
  BY DEF Proved!CanStartTask, Flow!CanStartTask, Proved!BindingsResolve, Flow!BindingsResolve,
         Proved!TaskDependenciesReady, Flow!TaskDependenciesReady, Proved!Settled, Flow!Settled,
         Proved!PhaseDependenciesReady, Flow!PhaseDependenciesReady
<1>2. Proved!CanCommitTask(w, "implement", o) <=> Flow!CanCommitTask(w, "implement", o)
  BY DEF Proved!CanCommitTask, Flow!CanCommitTask
<1>3. Proved!CanRetryTask(w, "implement", Missing) <=> Flow!CanRetryTask(w, "implement", Missing)
  BY DEF Proved!CanRetryTask, Flow!CanRetryTask, Proved!RecoveryTask, Flow!RecoveryTask
<1>4. Proved!CanCommitPhase(w, "work", o, FALSE) <=> Flow!CanCommitPhase(w, "work", o, FALSE)
  BY DEF Proved!CanCommitPhase, Flow!CanCommitPhase
<1>5. Proved!CanCommitFinal(w, o) <=> Flow!CanCommitFinal(w, o)
  BY DEF Proved!CanCommitFinal, Flow!CanCommitFinal
<1> QED
  BY <1>1, <1>2, <1>3, <1>4, <1>5

LEMMA SameCommands ==
  ASSUME NEW w, NEW o
  PROVE  /\ Proved!StartTask(w, "implement") = Flow!StartTask(w, "implement")
         /\ Proved!CommitTask(w, "implement", o) = Flow!CommitTask(w, "implement", o)
         /\ Proved!RetryTask(w, "implement", Missing) = Flow!RetryTask(w, "implement", Missing)
         /\ Proved!CommitPhase(w, "work", o, "none") = Flow!CommitPhase(w, "work", o, "none")
         /\ Proved!CommitFinal(w, o, "none") = Flow!CommitFinal(w, o, "none")
<1> USE DEF Proved!TasksOf, Flow!TasksOf, Proved!Done, Flow!Done, Proved!First, Flow!First,
            Proved!RecordOf, Flow!RecordOf, Proved!KeepRecord, Flow!KeepRecord,
            Proved!Recorded, Flow!Recorded, Proved!StatusFromOutcome, Flow!StatusFromOutcome
<1>1. Proved!StartTask(w, "implement") = Flow!StartTask(w, "implement")
  BY DEF Proved!StartTask, Flow!StartTask
<1>2. Proved!CommitTask(w, "implement", o) = Flow!CommitTask(w, "implement", o)
  BY DEF Proved!CommitTask, Flow!CommitTask, Proved!NextEligible, Flow!NextEligible,
         Proved!TaskDependenciesReady, Flow!TaskDependenciesReady, Proved!Settled, Flow!Settled,
         Proved!PhaseDependenciesReady, Flow!PhaseDependenciesReady
<1>3. Proved!RetryTask(w, "implement", Missing) = Flow!RetryTask(w, "implement", Missing)
  BY DEF Proved!RetryTask, Flow!RetryTask, Proved!RecoveryTask, Flow!RecoveryTask
<1>4. Proved!CommitPhase(w, "work", o, "none") = Flow!CommitPhase(w, "work", o, "none")
  BY DEF Proved!CommitPhase, Flow!CommitPhase, Proved!OpenTasks, Flow!OpenTasks,
         Proved!NextOpenPhase, Flow!NextOpenPhase
<1>5. Proved!CommitFinal(w, o, "none") = Flow!CommitFinal(w, o, "none")
  BY DEF Proved!CommitFinal, Flow!CommitFinal, Proved!JudgmentRefuses, Flow!JudgmentRefuses
<1> QED
  BY <1>1, <1>2, <1>3, <1>4, <1>5

-----------------------------------------------------------------------------
(* What a command makes of the workflow of a task. *)

\* Sound, not absent, and nothing completed that was not worked on.
Worked(w) ==
  /\ Proved!Sound(w)
  /\ w.status # "absent"
  /\ w.task["implement"] = "completed" => w.attempt["implement"] > 0
  /\ w.status = "completed" => w.task["implement"] \in Flow!Done

LEMMA NormalizedWorked ==
  ASSUME NEW w, Worked(w)
  PROVE  Worked(Flow!Normalized(w)) /\ Flow!Normalized(w).task = w.task
<1> USE PlanShape, EveryPhaseHasATask, PlanIsAcyclic, InputShape
<1>1. w \in Proved!Workflow
  BY DEF Worked, Proved!Sound
<1>2. Proved!Sound(Proved!Normalized(w))
  BY Proved!NormalizedSound DEF Worked
<1>3. /\ Proved!Normalized(w).status = w.status
      /\ Proved!Normalized(w).task = w.task
      /\ Proved!Normalized(w).attempt = w.attempt
  BY <1>1, Proved!NormalizedType
<1> QED
  BY <1>2, <1>3, SameWorkflows DEF Worked

LEMMA NewWorkflowWorked == Worked(Flow!NewWorkflow) /\ Flow!NewWorkflow.status = "active"
<1> USE PlanShape, EveryPhaseHasATask, PlanIsAcyclic, InputShape
<1>1. Proved!Sound(Proved!NewWorkflow)
  BY Proved!NewWorkflowSound
<1>2. Proved!NewWorkflow.task["implement"] = "pending"
  BY Proved!NewWorkflowType
<1>3. Proved!NewWorkflow.status = "active"
  BY DEF Proved!NewWorkflow, Proved!Normalized
<1> QED
  BY <1>1, <1>2, <1>3, SameWorkflows DEF Worked

LEMMA StartTaskWorked ==
  ASSUME NEW w, Worked(w), Flow!CanStartTask(w, "implement")
  PROVE  Worked(Flow!StartTask(w, "implement"))
<1> USE PlanShape, EveryPhaseHasATask, PlanIsAcyclic, InputShape
<1> DEFINE v == Proved!StartTask(w, "implement")
<1>1. w \in Proved!Workflow /\ Proved!Sound(w) /\ Proved!CanStartTask(w, "implement")
  BY SameGuards DEF Worked, Proved!Sound
<1>2. Proved!Sound(v)
  BY <1>1, Proved!StartTaskSound
<1>3. v.status = "active" /\ v.task = [w.task EXCEPT !["implement"] = "in_progress"]
  BY <1>1, Proved!StartTaskFields, Proved!StartTaskEffect
<1>4. v.task["implement"] = "in_progress"
  BY <1>1, <1>3 DEF Proved!Workflow
<1> QED
  BY <1>2, <1>3, <1>4, SameCommands DEF Worked

LEMMA CommitTaskWorked ==
  ASSUME NEW w, Worked(w), NEW o \in Flow!Outcomes, Flow!CanCommitTask(w, "implement", o)
  PROVE  Worked(Flow!CommitTask(w, "implement", o))
<1> USE PlanShape, EveryPhaseHasATask, PlanIsAcyclic, InputShape
<1> DEFINE v == Proved!CommitTask(w, "implement", o)
<1>1. /\ w \in Proved!Workflow /\ Proved!Sound(w) /\ o \in Proved!Outcomes
      /\ Proved!CanCommitTask(w, "implement", o)
  BY SameGuards, SameWorkflows DEF Worked, Proved!Sound
<1>2. Proved!Sound(v)
  BY <1>1, Proved!CommitTaskSound
<1>3. v.status \in {"blocked", "active"}
  <2>1. Proved!CommittedTask(w, v, "implement", o)
    BY <1>1, Proved!CommitTaskFields
  <2> QED
    BY <2>1 DEF Proved!CommittedTask
<1>4. v.attempt = w.attempt
  BY <1>1, Proved!CommitTaskEffect
<1>5. w.attempt["implement"] > 0
  BY <1>1 DEF Proved!Sound, Proved!HistoryInOrder, Proved!CanCommitTask
<1> QED
  BY <1>2, <1>3, <1>4, <1>5, SameCommands DEF Worked

LEMMA RetryTaskWorked ==
  ASSUME NEW w, Worked(w), Flow!CanRetryTask(w, "implement", Missing)
  PROVE  Worked(Flow!RetryTask(w, "implement", Missing))
<1> USE PlanShape, EveryPhaseHasATask, PlanIsAcyclic, InputShape
<1> DEFINE v == Proved!RetryTask(w, "implement", Missing)
<1>1. /\ w \in Proved!Workflow /\ Proved!Sound(w)
      /\ Proved!CanRetryTask(w, "implement", Missing)
  BY SameGuards DEF Worked, Proved!Sound
<1>2. Proved!Sound(v)
  BY <1>1, Proved!RetryTaskSound
<1>3. v.status = "active" /\ v.task = [w.task EXCEPT !["implement"] = "pending"]
  <2>1. Proved!RetriedTask(w, v, "implement")
    BY <1>1, Proved!RetryTaskFields
  <2> QED
    BY <2>1 DEF Proved!RetriedTask, Proved!TasksOf
<1>4. v.task["implement"] = "pending"
  BY <1>1, <1>3 DEF Proved!Workflow
<1> QED
  BY <1>2, <1>3, <1>4, SameCommands DEF Worked

\* A phase is closed as completed when its task is settled, and closing it any
\* other way completes no task.
LEMMA CommitPhaseWorked ==
  ASSUME NEW w, Worked(w), NEW o \in Flow!Outcomes, Flow!CanCommitPhase(w, "work", o, FALSE),
         o = "completed" => w.task["implement"] \in Flow!Done
  PROVE  /\ Worked(Flow!CommitPhase(w, "work", o, "none"))
         /\ o = "completed" =>
              Flow!CommitPhase(w, "work", o, "none").task["implement"] \in Flow!Done
<1> USE PlanShape, EveryPhaseHasATask, PlanIsAcyclic, InputShape
<1> DEFINE v == Proved!CommitPhase(w, "work", o, "none")
<1>1. /\ w \in Proved!Workflow /\ Proved!Sound(w) /\ o \in Proved!Outcomes
      /\ Proved!CanCommitPhase(w, "work", o, FALSE) /\ "none" \in Proved!Verdicts
  BY SameGuards, SameWorkflows DEF Worked, Proved!Sound, Proved!Verdicts
<1>2. Proved!Sound(v)
  BY <1>1, Proved!CommitPhaseSound
<1>3. /\ v.status \in {"completed", "blocked", "active"}
      /\ v.status = "completed" => v.phase["work"] \in Proved!Done
  <2>1. Proved!CommittedPhase(w, v, "work", o)
    BY <1>1, Proved!CommitPhaseFields
  <2> QED
    BY <2>1 DEF Proved!CommittedPhase
<1>4. /\ v.attempt = w.attempt
      /\ v.task["implement"] = IF w.task["implement"] \notin Proved!Done
                                 THEN Proved!StatusFromOutcome(o) ELSE w.task["implement"]
  <2>1. Proved!CommittedPhase(w, v, "work", o)
    BY <1>1, Proved!CommitPhaseFields
  <2>2. "implement" \in Proved!OpenTasks(w, "work") <=> w.task["implement"] \notin Proved!Done
    BY DEF Proved!OpenTasks, Proved!TasksOf
  <2> QED
    BY <2>1, <2>2 DEF Proved!CommittedPhase
<1>5. o # "completed" => Proved!StatusFromOutcome(o) # "completed"
  BY DEF Proved!StatusFromOutcome
<1>6. v.status = "completed" => v.task["implement"] \in Flow!Done
  BY <1>2, <1>3, SameWorkflows DEF Proved!Sound, Proved!PhasesCloseWhole
<1>7. v.task["implement"] = "completed" => w.task["implement"] = "completed"
  BY <1>4, <1>5, SameWorkflows
<1> QED
  BY <1>2, <1>3, <1>4, <1>6, <1>7, SameCommands, SameWorkflows DEF Worked

LEMMA CommitFinalWorked ==
  ASSUME NEW w, Worked(w), NEW o \in Flow!Outcomes, Flow!CanCommitFinal(w, o),
         o = "completed" => w.task["implement"] \in Flow!Done
  PROVE  Worked(Flow!CommitFinal(w, o, "none"))
<1> USE PlanShape, EveryPhaseHasATask, PlanIsAcyclic, InputShape
<1> DEFINE v == Proved!CommitFinal(w, o, "none")
<1>1. /\ w \in Proved!Workflow /\ Proved!Sound(w) /\ o \in Proved!Outcomes
      /\ Proved!CanCommitFinal(w, o) /\ "none" \in Proved!Verdicts
  BY SameGuards, SameWorkflows DEF Worked, Proved!Sound, Proved!Verdicts
<1>2. Proved!Sound(v)
  BY <1>1, Proved!CommitFinalSound
<1>3. v.attempt = w.attempt /\ v.task = w.task
  BY <1>1, Proved!CommitFinalEffect
<1>4. v.status = IF o = "completed" THEN "completed" ELSE "blocked"
  BY <1>1 DEF Proved!CommitFinal, Proved!JudgmentRefuses, Proved!Workflow
<1> QED
  BY <1>2, <1>3, <1>4, SameCommands DEF Worked

-----------------------------------------------------------------------------
(* The inductive invariant of the facade. *)

AdmitStates ==
  [pc : {"admitting", "initializing", "recording", "starting", "done"}, slug : Slugs, brief : Briefs]

ActionPlaces ==
  {"checking", "committing", "retrying", "preparing", "closing", "finishing", "done"}

WorkStates  == [pc : ActionPlaces, slug : Slugs, verb : {"work"},
                outcome : Flow!Outcomes \cup {Missing}, why : BOOLEAN]
CloseStates == [pc : ActionPlaces, slug : Slugs, verb : {"close"},
                outcome : Flow!Outcomes, why : BOOLEAN]

FacadeStates == {Nothing, [pc |-> "killed"]} \cup AdmitStates \cup WorkStates \cup CloseStates

JourneyValues ==
  /\ current \in [slug : Slugs \cup {Missing}, brief : Briefs \cup {Missing}, content : Flow!Workflow]
  /\ artifacts \in [Slugs -> [manifest : BOOLEAN, brief : Briefs \cup {Missing}]]
  /\ lock \in Facades \cup {Missing}
  /\ facade \in [Facades -> FacadeStates]
  /\ tree \in {"exact", "scoped", "drifted"}
  /\ unaware \subseteq Facades

\* Whoever is about something, or was killed over it, has the lock.
Locked == \A f \in Facades : facade[f].pc # "away" => lock = f

\* A brief is recorded for tasks that were initialized only.
Framed == \A s \in Slugs : artifacts[s].brief # Missing => artifacts[s].manifest

\* The file holds no workflow, or that of the current task, with its brief.
Holds ==
  IF current.slug = Missing
    THEN current.content = Flow!NoWorkflow
    ELSE /\ Worked(current.content)
         /\ artifacts[current.slug] = [manifest |-> TRUE, brief |-> current.brief]

\* An admitted task is not the current one, whose workflow is over.
AdmittedBy(f) ==
  /\ facade[f] \in AdmitStates
  /\ ~Occupied /\ facade[f].slug # current.slug
  /\ At(f, "initializing") => ~artifacts[facade[f].slug].manifest
  /\ At(f, "recording") => artifacts[facade[f].slug] = [manifest |-> TRUE, brief |-> Missing]
  /\ At(f, "starting") =>
       artifacts[facade[f].slug] = [manifest |-> TRUE, brief |-> facade[f].brief]

\* What a check has found still holds when its child writes, but for changes
\* to the tree it is unaware of.
CheckedBy(f) ==
  /\ facade[f] \in WorkStates \cup CloseStates
  /\ current.slug = facade[f].slug
  /\ At(f, "committing") => facade[f].outcome \in Flow!Outcomes
  /\ facade[f].pc \in {"closing", "finishing"} =>
       /\ facade[f].outcome \in Flow!Outcomes
       /\ facade[f].outcome = "completed" => TaskStatus \in Flow!Done
  /\ \/ f \in unaware
     \/ tree = "exact"
     \/ At(f, "committing") /\ tree = "scoped"

Placed(f) ==
  /\ facade[f].pc \in {"initializing", "recording", "starting"} => AdmittedBy(f)
  /\ facade[f].pc \in {"committing", "retrying", "preparing", "closing", "finishing"} => CheckedBy(f)

JInv == JourneyValues /\ Locked /\ Framed /\ Holds /\ \A f \in Facades : Placed(f)

LEMMA InitJInv == JourneyInit => JInv
<1> USE PlanShape, EveryPhaseHasATask, PlanIsAcyclic, InputShape
<1> SUFFICES ASSUME JourneyInit PROVE JInv
  OBVIOUS
<1>1. Flow!NoWorkflow \in Flow!Workflow
  BY Proved!NoWorkflowType, SameWorkflows
<1>2. JourneyValues
  BY <1>1 DEF JourneyInit, JourneyValues, FacadeStates, Nothing
<1>3. Locked /\ Framed /\ Holds /\ \A f \in Facades : Placed(f)
  BY DEF JourneyInit, Locked, Framed, Holds, Placed, Nothing
<1> QED
  BY <1>2, <1>3 DEF JInv

\* One facade at a time: while f moves, the others are away.
LEMMA OthersAreAway ==
  ASSUME JInv, NEW f \in Facades, facade[f].pc # "away" \/ lock = Missing,
         NEW x \in FacadeStates, Turn(f, x)
  PROVE  /\ facade' \in [Facades -> FacadeStates]
         /\ facade'[f] = x
         /\ \A g \in Facades \ {f} : facade[g].pc = "away" /\ facade'[g] = facade[g] /\ Placed(g)'
<1>1. facade' = [facade EXCEPT ![f] = x] /\ facade \in [Facades -> FacadeStates]
  BY DEF JInv, JourneyValues, Turn
<1>2. \A g \in Facades \ {f} : facade[g].pc = "away"
  BY JourneyShape DEF JInv, Locked
<1>3. \A g \in Facades \ {f} : facade'[g] = facade[g]
  BY <1>1
<1> QED
  BY <1>1, <1>2, <1>3 DEF Placed

LEMMA EndOfAction ==
  ASSUME JInv, NEW f \in Facades, EndAction(f) \/ Kill(f) \/ RemoveLock(f)
  PROVE  JInv'
<1>1. facade[f].pc # "away"
  BY DEF EndAction, Kill, RemoveLock, At
<1>2. PICK y \in {Nothing, [pc |-> "killed"]} : Turn(f, y)
  BY DEF EndAction, Kill, RemoveLock
<1>3. /\ facade' \in [Facades -> FacadeStates] /\ facade'[f] = y
      /\ \A g \in Facades \ {f} : facade[g].pc = "away" /\ facade'[g] = facade[g] /\ Placed(g)'
  <2>1. y \in FacadeStates
    BY DEF FacadeStates
  <2> QED
    BY <1>1, <1>2, <2>1, OthersAreAway
<1>4. UNCHANGED <<current, artifacts, tree>>
  BY DEF EndAction, Kill, RemoveLock
<1>5. lock' \in {lock, Missing} /\ unaware' \subseteq unaware
  BY DEF EndAction, Kill, RemoveLock
<1>6. Placed(f)'
  BY <1>3 DEF Placed, Nothing
<1>7. Locked'
  <2>1. y = [pc |-> "killed"] => lock' = lock
    BY <1>2, <1>3 DEF EndAction, Kill, RemoveLock, Turn, Nothing, JInv, JourneyValues
  <2>2. lock = f
    BY <1>1 DEF JInv, Locked
  <2> QED
    BY <1>3, <2>1, <2>2 DEF Locked, Nothing
<1>8. JourneyValues' /\ Framed' /\ Holds'
  BY <1>3, <1>4, <1>5 DEF JInv, JourneyValues, Framed, Holds
<1> QED
  BY <1>3, <1>6, <1>7, <1>8 DEF JInv

LEMMA Acquired ==
  ASSUME JInv, NEW f \in Facades, NEW x \in FacadeStates, x.pc \in {"admitting", "checking"},
         Acquire(f, x)
  PROVE  JInv'
<1>1. /\ facade' \in [Facades -> FacadeStates] /\ facade'[f] = x
      /\ \A g \in Facades \ {f} : facade[g].pc = "away" /\ facade'[g] = facade[g] /\ Placed(g)'
  BY OthersAreAway DEF Acquire
<1>2. lock' = f /\ UNCHANGED <<current, artifacts, tree, unaware>>
  BY DEF Acquire
<1>3. Placed(f)'
  BY <1>1 DEF Placed
<1>4. Locked'
  BY <1>1, <1>2 DEF Locked
<1>5. JourneyValues' /\ Framed' /\ Holds'
  BY <1>1, <1>2 DEF JInv, JourneyValues, Framed, Holds
<1> QED
  BY <1>1, <1>3, <1>4, <1>5 DEF JInv

\* task start, from the admission to its last child.
LEMMA AdmissionSteps ==
  ASSUME JInv, NEW f \in Facades,
         AdmitTask(f) \/ InitFeature(f) \/ RecordBrief(f) \/ StartWorkflow(f)
  PROVE  JInv'
<1> DEFINE s == facade[f].slug
<1>1. facade[f] \in AdmitStates
  <2>1. facade[f] \in FacadeStates
    BY DEF JInv, JourneyValues
  <2>2. facade[f].pc \in {"admitting", "initializing", "recording", "starting"}
    BY DEF AdmitTask, InitFeature, RecordBrief, StartWorkflow, At
  <2> QED
    BY <2>1, <2>2 DEF FacadeStates, Nothing, WorkStates, CloseStates, ActionPlaces
<1>2. s \in Slugs /\ facade[f].brief \in Briefs /\ facade[f].pc # "away"
  BY <1>1 DEF AdmitStates
<1>3. PICK pc \in {"initializing", "recording", "starting", "done"} : Continue(f, pc)
  BY DEF AdmitTask, InitFeature, RecordBrief, StartWorkflow
<1> DEFINE x == [facade[f] EXCEPT !.pc = pc]
<1>4. x \in AdmitStates /\ x.pc = pc /\ x.slug = s /\ x.brief = facade[f].brief
  BY <1>1 DEF AdmitStates
<1>5. x \in FacadeStates /\ Turn(f, x)
  BY <1>3, <1>4 DEF FacadeStates, Continue
<1> HIDE DEF x
<1>6. /\ facade' \in [Facades -> FacadeStates] /\ facade'[f] = x
      /\ \A g \in Facades \ {f} : facade[g].pc = "away" /\ facade'[g] = facade[g] /\ Placed(g)'
  BY <1>2, <1>5, OthersAreAway
<1>7. lock' = lock /\ unaware' \subseteq unaware /\ tree' \in {"exact", "scoped", "drifted"}
  BY DEF JInv, JourneyValues, AdmitTask, InitFeature, RecordBrief, StartWorkflow
<1>8. Locked'
  BY <1>2, <1>6, <1>7 DEF JInv, Locked
<1>9. artifacts[s] \in [manifest : BOOLEAN, brief : Briefs \cup {Missing}]
  BY <1>2 DEF JInv, JourneyValues
<1>10. CASE AdmitTask(f)
  <2>1. UNCHANGED <<current, artifacts>> /\ ~Occupied /\ ~artifacts[s].manifest /\ x.pc = "initializing"
    BY <1>4, <1>6, <1>10 DEF AdmitTask, Continue, Turn, JInv, JourneyValues, AdmitStates
  <2>2. s # current.slug
    BY <1>2, <2>1, JourneyShape DEF JInv, Holds
  <2>3. Placed(f)'
    BY <1>4, <1>6, <2>1, <2>2 DEF Placed, AdmittedBy, At, Occupied
  <2>4. JourneyValues' /\ Framed' /\ Holds'
    BY <1>6, <1>7, <2>1 DEF JInv, JourneyValues, Framed, Holds
  <2> QED
    BY <1>6, <1>8, <2>3, <2>4 DEF JInv
<1>11. ASSUME At(f, "initializing") \/ At(f, "recording") \/ At(f, "starting")
       PROVE  AdmittedBy(f)
  BY <1>11 DEF JInv, Placed, At
<1>12. CASE InitFeature(f)
  <2>1. /\ UNCHANGED current /\ x.pc = "recording"
        /\ artifacts' = [artifacts EXCEPT ![s].manifest = TRUE]
    BY <1>4, <1>6, <1>12 DEF InitFeature, Continue, Turn, JInv, JourneyValues, AdmitStates
  <2>2. AdmittedBy(f) /\ ~artifacts[s].manifest
    BY <1>11, <1>12 DEF InitFeature, AdmittedBy
  <2>3. artifacts[s].brief = Missing
    BY <1>2, <2>2 DEF JInv, Framed
  <2>4. artifacts'[s] = [manifest |-> TRUE, brief |-> Missing]
    BY <1>2, <1>9, <2>1, <2>3 DEF JInv, JourneyValues
  <2>5. Placed(f)'
    BY <1>4, <1>6, <2>1, <2>2, <2>4 DEF Placed, AdmittedBy, At, Occupied
  <2>6. JourneyValues' /\ Framed'
    <3>1. artifacts' \in [Slugs -> [manifest : BOOLEAN, brief : Briefs \cup {Missing}]]
      BY <1>2, <1>9, <2>1 DEF JInv, JourneyValues
    <3>2. \A u \in Slugs : u # s => artifacts'[u] = artifacts[u]
      BY <2>1 DEF JInv, JourneyValues
    <3> QED
      BY <1>6, <1>7, <2>1, <2>4, <3>1, <3>2 DEF JInv, JourneyValues, Framed
  <2>7. Holds'
    BY <2>1, <2>2 DEF JInv, JourneyValues, Holds, AdmittedBy
  <2> QED
    BY <1>6, <1>8, <2>5, <2>6, <2>7 DEF JInv
<1>13. CASE RecordBrief(f)
  <2>1. /\ UNCHANGED current /\ x.pc = "starting"
        /\ artifacts' = [artifacts EXCEPT ![s].brief = facade[f].brief]
    BY <1>4, <1>6, <1>13 DEF RecordBrief, Continue, Turn, JInv, JourneyValues, AdmitStates
  <2>2. AdmittedBy(f) /\ artifacts[s] = [manifest |-> TRUE, brief |-> Missing]
    BY <1>11, <1>13 DEF RecordBrief, AdmittedBy
  <2>3. artifacts'[s] = [manifest |-> TRUE, brief |-> facade[f].brief]
    <3>1. artifacts'[s] = [artifacts[s] EXCEPT !.brief = facade[f].brief]
      BY <1>2, <2>1 DEF JInv, JourneyValues
    <3>2. artifacts'[s] = [[manifest |-> TRUE, brief |-> Missing] EXCEPT !.brief = facade[f].brief]
      BY <2>2, <3>1
    <3> QED
      BY <3>2
  <2>4. Placed(f)'
    BY <1>4, <1>6, <2>1, <2>2, <2>3 DEF Placed, AdmittedBy, At, Occupied
  <2>5. JourneyValues' /\ Framed'
    BY <1>2, <1>6, <1>7, <2>1, <2>3 DEF JInv, JourneyValues, Framed
  <2>6. Holds'
    BY <2>1, <2>2 DEF JInv, JourneyValues, Holds, AdmittedBy
  <2> QED
    BY <1>6, <1>8, <2>4, <2>5, <2>6 DEF JInv
<1>14. CASE StartWorkflow(f)
  <2>1. /\ UNCHANGED artifacts /\ x.pc = "done"
        /\ current' = [slug |-> s, brief |-> facade[f].brief, content |-> Flow!NewWorkflow]
    BY <1>4, <1>6, <1>14 DEF StartWorkflow, Continue, Turn, JInv, JourneyValues, AdmitStates
  <2>2. artifacts[s] = [manifest |-> TRUE, brief |-> facade[f].brief]
    BY <1>11, <1>14 DEF StartWorkflow, AdmittedBy
  <2>3. Flow!NewWorkflow \in Flow!Workflow
    BY NewWorkflowWorked, SameWorkflows DEF Worked, Proved!Sound
  <2>4. JourneyValues'
    BY <1>2, <1>6, <1>7, <2>1, <2>3 DEF JInv, JourneyValues
  <2>5. Framed' /\ Holds'
    BY <1>2, <2>1, <2>2, NewWorkflowWorked, JourneyShape DEF JInv, Framed, Holds
  <2>6. Placed(f)'
    BY <1>6, <2>1 DEF Placed
  <2> QED
    BY <1>6, <1>8, <2>4, <2>5, <2>6 DEF JInv
<1> QED
  BY <1>10, <1>12, <1>13, <1>14

\* The facade moves on within its action.
LEMMA Continued ==
  ASSUME JInv, NEW f \in Facades, facade[f] \in WorkStates \cup CloseStates,
         NEW pc \in ActionPlaces, Continue(f, pc)
  PROVE  /\ facade' \in [Facades -> FacadeStates]
         /\ facade'[f] \in WorkStates \cup CloseStates
         /\ facade'[f].pc = pc /\ facade'[f].slug = facade[f].slug
         /\ facade'[f].outcome = facade[f].outcome /\ facade'[f].verb = facade[f].verb
         /\ \A g \in Facades \ {f} : facade'[g] = facade[g] /\ Placed(g)'
         /\ lock' = lock => Locked'
<1> DEFINE x == [facade[f] EXCEPT !.pc = pc]
<1>1. /\ x \in WorkStates \cup CloseStates /\ x.pc = pc /\ x.slug = facade[f].slug
      /\ x.outcome = facade[f].outcome /\ x.verb = facade[f].verb
  BY DEF WorkStates, CloseStates
<1>2. x \in FacadeStates /\ Turn(f, x)
  BY <1>1 DEF FacadeStates, Continue
<1> HIDE DEF x
<1>3. facade[f].pc # "away"
  BY DEF WorkStates, CloseStates, ActionPlaces
<1>4. /\ facade' \in [Facades -> FacadeStates] /\ facade'[f] = x
      /\ \A g \in Facades \ {f} : facade[g].pc = "away" /\ facade'[g] = facade[g] /\ Placed(g)'
  BY <1>2, <1>3, OthersAreAway
<1>5. lock' = lock => Locked'
  BY <1>3, <1>4 DEF JInv, Locked
<1> QED
  BY <1>1, <1>4, <1>5

LEMMA Acting ==
  ASSUME JInv, NEW f \in Facades, facade[f].pc \in ActionPlaces \ {"done"}
  PROVE  /\ facade[f] \in WorkStates \cup CloseStates
         /\ ~At(f, "checking") => CheckedBy(f)
<1>1. facade[f] \in FacadeStates /\ Placed(f)
  BY DEF JInv, JourneyValues
<1>2. facade[f] \in WorkStates \cup CloseStates
  BY <1>1 DEF FacadeStates, Nothing, AdmitStates, ActionPlaces
<1>3. ~At(f, "checking") => CheckedBy(f)
  BY <1>1 DEF Placed, At, ActionPlaces
<1> QED
  BY <1>2, <1>3

LEMMA CheckStep ==
  ASSUME JInv, NEW f \in Facades, Check(f)
  PROVE  JInv'
<1>1. facade[f] \in WorkStates \cup CloseStates
  BY Acting DEF Check, At, ActionPlaces
<1> DEFINE pc == IF ~Bound(f) \/ ~ChecksTree(f) THEN "done"
                 ELSE IF facade[f].verb = "work" THEN WorkPlan(f) ELSE ClosePlan(f)
<1>2. facade[f].verb = "work" => WorkPlan(f) \in {"committing", "done", "retrying", "preparing"}
  BY DEF WorkPlan
<1>3. ClosePlan(f) \in {"done", "finishing", "closing"}
  BY DEF ClosePlan
<1>4. pc \in ActionPlaces /\ Continue(f, pc)
  BY <1>2, <1>3 DEF Check, ActionPlaces
<1>5. pc \in {"closing", "finishing"} =>
        /\ facade[f].outcome \in Flow!Outcomes
        /\ facade[f].outcome = "completed" => TaskStatus \in Flow!Done
  <2> SUFFICES ASSUME pc \in {"closing", "finishing"}
               PROVE  /\ facade[f].outcome \in Flow!Outcomes
                      /\ facade[f].outcome = "completed" => TaskStatus \in Flow!Done
    OBVIOUS
  <2>1. facade[f].verb # "work" /\ ClosePlan(f) # "done"
    BY <1>2
  <2>2. facade[f].outcome \in Flow!Outcomes
    BY <1>1, <2>1 DEF WorkStates, CloseStates
  <2>3. ~(facade[f].outcome = "completed" /\ TaskStatus \notin Flow!Done)
    BY <2>1 DEF ClosePlan
  <2> QED
    BY <2>2, <2>3
<1>6. pc \notin {"done", "committing"} => Bound(f) /\ tree = "exact"
  BY DEF ChecksTree, CanRecordScopedOutcome, WorkPlan
<1>7. pc = "committing" =>
        Bound(f) /\ tree \in {"exact", "scoped"} /\ facade[f].outcome \in Flow!Outcomes
  <2> SUFFICES ASSUME pc = "committing"
               PROVE  Bound(f) /\ tree \in {"exact", "scoped"} /\ facade[f].outcome \in Flow!Outcomes
    OBVIOUS
  <2>1. Bound(f) /\ ChecksTree(f) /\ facade[f].verb = "work" /\ WorkPlan(f) = "committing"
    BY <1>3
  <2>2. facade[f].outcome # Missing
    BY <2>1 DEF WorkPlan
  <2> QED
    BY <1>1, <2>1, <2>2 DEF ChecksTree, CanRecordScopedOutcome, WorkStates, CloseStates
<1> HIDE DEF pc
<1>8. UNCHANGED <<current, artifacts, lock, tree, unaware>>
  BY DEF Check
<1>9. /\ facade' \in [Facades -> FacadeStates]
      /\ facade'[f] \in WorkStates \cup CloseStates
      /\ facade'[f].pc = pc /\ facade'[f].slug = facade[f].slug
      /\ facade'[f].outcome = facade[f].outcome
      /\ \A g \in Facades \ {f} : Placed(g)'
      /\ Locked'
  BY <1>1, <1>4, <1>8, Continued
<1>10. Placed(f)'
  <2>1. pc \in ActionPlaces
    BY <1>4
  <2>2. facade'[f].pc \notin {"initializing", "recording", "starting"}
    BY <1>9, <2>1 DEF ActionPlaces
  <2>3. ASSUME facade'[f].pc \in {"committing", "retrying", "preparing", "closing", "finishing"}
        PROVE  CheckedBy(f)'
    <3>1. pc \in {"committing", "retrying", "preparing", "closing", "finishing"} /\ Bound(f)
      BY <1>6, <1>7, <1>9, <2>3
    <3>2. current'.slug = facade'[f].slug
      BY <1>8, <1>9, <3>1 DEF Bound
    <3>3. tree' = "exact" \/ (At(f, "committing")' /\ tree' = "scoped")
      BY <1>6, <1>7, <1>8, <1>9, <3>1 DEF At
    <3> QED
      BY <1>5, <1>7, <1>8, <1>9, <3>2, <3>3 DEF CheckedBy, At, TaskStatus
  <2> QED
    BY <2>2, <2>3 DEF Placed
<1>11. JourneyValues' /\ Framed' /\ Holds'
  BY <1>8, <1>9 DEF JInv, JourneyValues, Framed, Holds
<1> QED
  BY <1>9, <1>10, <1>11 DEF JInv

\* A child of `task work` or `task close` writes the workflow.
LEMMA Captured ==
  ASSUME JInv, NEW f \in Facades, facade[f] \in WorkStates \cup CloseStates, CheckedBy(f),
         NEW w, Worked(w), Capture(w), NEW pc \in {"preparing", "finishing", "done"}, Continue(f, pc),
         pc = "finishing" => /\ facade[f].outcome \in Flow!Outcomes
                             /\ facade[f].outcome = "completed" => w.task["implement"] \in Flow!Done
  PROVE  JInv'
<1>1. pc \in ActionPlaces
  BY DEF ActionPlaces
<1>2. /\ current' = [current EXCEPT !.content = Flow!Normalized(w)]
      /\ tree' = "exact" /\ unaware' = {} /\ UNCHANGED <<artifacts, lock>>
  BY DEF Capture
<1>3. Worked(Flow!Normalized(w)) /\ Flow!Normalized(w).task = w.task
  BY NormalizedWorked
<1>4. Flow!Normalized(w) \in Flow!Workflow
  BY <1>3, SameWorkflows DEF Worked, Proved!Sound
<1>5. /\ current'.slug = current.slug /\ current'.brief = current.brief
      /\ current'.content = Flow!Normalized(w)
      /\ current' \in [slug : Slugs \cup {Missing}, brief : Briefs \cup {Missing},
                       content : Flow!Workflow]
  BY <1>2, <1>4 DEF JInv, JourneyValues
<1>6. /\ facade' \in [Facades -> FacadeStates]
      /\ facade'[f] \in WorkStates \cup CloseStates
      /\ facade'[f].pc = pc /\ facade'[f].slug = facade[f].slug
      /\ facade'[f].outcome = facade[f].outcome
      /\ \A g \in Facades \ {f} : Placed(g)'
      /\ Locked'
  BY <1>1, <1>2, Continued
<1>7. Placed(f)'
  BY <1>2, <1>3, <1>5, <1>6 DEF Placed, CheckedBy, At, TaskStatus
<1>8. current.slug \in Slugs /\ current.slug # Missing
  BY JourneyShape DEF CheckedBy, WorkStates, CloseStates
<1>9. Holds'
  BY <1>2, <1>3, <1>5, <1>8 DEF JInv, Holds
<1>10. JourneyValues' /\ Framed'
  BY <1>2, <1>5, <1>6 DEF JInv, JourneyValues, Framed
<1> QED
  BY <1>6, <1>7, <1>9, <1>10 DEF JInv

LEMMA ActionSteps ==
  ASSUME JInv, NEW f \in Facades, Retry(f) \/ Prepare(f) \/ Record(f) \/ ClosePhase(f) \/ Finish(f)
  PROVE  JInv'
<1> DEFINE w == current.content
<1>1. facade[f].pc \in {"retrying", "preparing", "committing", "closing", "finishing"}
  BY DEF Retry, Prepare, Record, ClosePhase, Finish, At
<1>2. facade[f] \in WorkStates \cup CloseStates /\ CheckedBy(f)
  BY <1>1, Acting DEF ActionPlaces, At
<1>3. Worked(w)
  BY <1>2, JourneyShape DEF JInv, Holds, CheckedBy, WorkStates, CloseStates
<1>4. CASE Retry(f)
  BY <1>2, <1>3, <1>4, RetryTaskWorked, Captured DEF Retry
<1>5. CASE Prepare(f)
  BY <1>2, <1>3, <1>5, StartTaskWorked, Captured DEF Prepare
<1>6. CASE Record(f)
  <2>1. facade[f].outcome \in Flow!Outcomes
    BY <1>2, <1>6 DEF Record, CheckedBy
  <2> QED
    BY <1>2, <1>3, <1>6, <2>1, CommitTaskWorked, Captured DEF Record
<1>7. ASSUME ClosePhase(f) \/ Finish(f)
      PROVE  /\ facade[f].outcome \in Flow!Outcomes
             /\ facade[f].outcome = "completed" => w.task["implement"] \in Flow!Done
  BY <1>2, <1>7 DEF ClosePhase, Finish, CheckedBy, At, TaskStatus
<1>8. CASE ClosePhase(f)
  BY <1>2, <1>3, <1>7, <1>8, CommitPhaseWorked, Captured DEF ClosePhase
<1>9. CASE Finish(f)
  BY <1>2, <1>3, <1>7, <1>9, CommitFinalWorked, Captured DEF Finish
<1> QED
  BY <1>4, <1>5, <1>6, <1>8, <1>9

\* An edit of the tree goes unnoticed by whoever has checked it.
LEMMA EditStep ==
  ASSUME JInv, Edit
  PROVE  JInv'
<1>1. UNCHANGED <<current, artifacts, lock, facade>>
  BY DEF Edit
<1>2. tree' \in {"exact", "scoped", "drifted"} /\ unaware' \subseteq Facades
  BY DEF JInv, JourneyValues, Edit
<1>3. ASSUME NEW f \in Facades
      PROVE  Placed(f)'
  <2>1. Placed(f)
    BY DEF JInv
  <2>2. AdmittedBy(f) => AdmittedBy(f)'
    BY <1>1 DEF AdmittedBy, At, Occupied
  <2>3. ASSUME facade[f].pc \in {"committing", "retrying", "preparing", "closing", "finishing"}
        PROVE  f \in unaware' \/ tree' = "exact"
    BY <2>3 DEF Edit
  <2>4. ASSUME facade[f].pc \in {"committing", "retrying", "preparing", "closing", "finishing"}
        PROVE  CheckedBy(f)'
    BY <1>1, <2>1, <2>3, <2>4 DEF Placed, CheckedBy, At, TaskStatus
  <2> QED
    BY <1>1, <2>1, <2>2, <2>4 DEF Placed
<1>4. JourneyValues' /\ Locked' /\ Framed' /\ Holds'
  BY <1>1, <1>2 DEF JInv, JourneyValues, Locked, Framed, Holds
<1> QED
  BY <1>3, <1>4 DEF JInv

LEMMA StepJInv ==
  ASSUME JInv, [JourneyNext]_journeyVars
  PROVE  JInv'
<1>1. ASSUME NEW f \in Facades, NEW s \in Slugs, NEW b \in Briefs, StartTask(f, s, b)
      PROVE  JInv'
  <2> DEFINE x == [pc |-> "admitting", slug |-> s, brief |-> b]
  <2>1. x \in FacadeStates /\ x.pc = "admitting"
    BY DEF FacadeStates, AdmitStates
  <2>2. Acquire(f, x)
    BY <1>1 DEF StartTask
  <2> HIDE DEF x
  <2> QED
    BY <2>1, <2>2, Acquired
<1>2. ASSUME NEW f \in Facades, NEW s \in Slugs, NEW o \in Flow!Outcomes \cup {Missing},
             NEW why \in BOOLEAN, Work(f, s, o, why)
      PROVE  JInv'
  <2> DEFINE x == [pc |-> "checking", slug |-> s, verb |-> "work", outcome |-> o, why |-> why]
  <2>1. x \in FacadeStates /\ x.pc = "checking"
    BY DEF FacadeStates, WorkStates, ActionPlaces
  <2>2. Acquire(f, x)
    BY <1>2 DEF Work
  <2> HIDE DEF x
  <2> QED
    BY <2>1, <2>2, Acquired
<1>3. ASSUME NEW f \in Facades, NEW s \in Slugs, NEW o \in Flow!Outcomes, Close(f, s, o)
      PROVE  JInv'
  <2> DEFINE x == [pc |-> "checking", slug |-> s, verb |-> "close", outcome |-> o, why |-> FALSE]
  <2>1. x \in FacadeStates /\ x.pc = "checking"
    BY DEF FacadeStates, CloseStates, ActionPlaces
  <2>2. Acquire(f, x)
    BY <1>3 DEF Close
  <2> HIDE DEF x
  <2> QED
    BY <2>1, <2>2, Acquired
<1>4. CASE UNCHANGED journeyVars
  <2>1. UNCHANGED <<current, artifacts, lock, facade, tree, unaware>>
    BY <1>4 DEF journeyVars
  <2>2. \A f \in Facades : Placed(f) => Placed(f)'
    BY <2>1 DEF Placed, AdmittedBy, CheckedBy, At, Occupied, TaskStatus
  <2> QED
    BY <2>1, <2>2 DEF JInv, JourneyValues, Locked, Framed, Holds
<1> QED
  BY <1>1, <1>2, <1>3, <1>4, EndOfAction, AdmissionSteps, CheckStep, ActionSteps, EditStep
     DEF JourneyNext

LEMMA JourneyInvariance == JourneySpec => []JInv
BY InitJInv, StepJInv, PTL DEF JourneySpec

-----------------------------------------------------------------------------
(* What the invariant says of the task of a child's write. *)

LEMMA CapturedTask ==
  ASSUME JInv, NEW f \in Facades, Retry(f) \/ Prepare(f) \/ Record(f) \/ ClosePhase(f) \/ Finish(f)
  PROVE  /\ current.slug # Missing /\ current'.slug = current.slug
         /\ UNCHANGED artifacts
         /\ \/ f \in unaware
            \/ tree = "exact"
            \/ At(f, "committing") /\ tree = "scoped"
<1>1. facade[f].pc \in {"retrying", "preparing", "committing", "closing", "finishing"}
  BY DEF Retry, Prepare, Record, ClosePhase, Finish, At
<1>2. facade[f] \in WorkStates \cup CloseStates /\ CheckedBy(f)
  BY <1>1, Acting DEF ActionPlaces, At
<1>3. current.slug # Missing
  BY <1>2, JourneyShape DEF CheckedBy, WorkStates, CloseStates
<1>4. UNCHANGED artifacts /\ \E content : current' = [current EXCEPT !.content = content]
  BY DEF Retry, Prepare, Record, ClosePhase, Finish, Capture
<1> QED
  BY <1>2, <1>3, <1>4 DEF CheckedBy, JInv, JourneyValues

LEMMA StartedTask ==
  ASSUME JInv, NEW f \in Facades, StartWorkflow(f)
  PROVE  /\ ~Occupied /\ facade[f].slug \in Slugs /\ facade[f].slug # current.slug
         /\ artifacts[facade[f].slug].brief \in Briefs
         /\ current'.slug = facade[f].slug /\ Occupied' /\ UNCHANGED artifacts
<1>1. AdmittedBy(f)
  BY DEF JInv, Placed, StartWorkflow, At
<1>2. /\ current' = [slug |-> facade[f].slug, brief |-> facade[f].brief, content |-> Flow!NewWorkflow]
      /\ UNCHANGED artifacts /\ At(f, "starting")
  BY DEF StartWorkflow
<1>3. Occupied'
  BY <1>2, NewWorkflowWorked DEF Occupied
<1> QED
  BY <1>1, <1>2, <1>3 DEF AdmittedBy, AdmitStates

LEMMA AdmissionStep ==
  ASSUME JInv, [JourneyNext]_journeyVars
  PROVE  [Admission!AdmissionNext]_(Admission!admissionVars)
<1> DEFINE brief == [s \in Slugs |-> artifacts[s].brief]
<1>1. ASSUME UNCHANGED <<current, artifacts>>
      PROVE  UNCHANGED Admission!admissionVars
  BY <1>1 DEF Admission!admissionVars
<1>2. ASSUME NEW f \in Facades, InitFeature(f)
      PROVE  UNCHANGED Admission!admissionVars
  <2>1. artifacts' = [artifacts EXCEPT ![facade[f].slug].manifest = TRUE] /\ UNCHANGED current
    BY <1>2 DEF InitFeature
  <2>2. brief' = brief
    BY <2>1 DEF JInv, JourneyValues
  <2> QED
    BY <2>1, <2>2 DEF Admission!admissionVars
<1>3. ASSUME NEW f \in Facades, RecordBrief(f)
      PROVE  Admission!AdmissionNext
  <2>1. AdmittedBy(f)
    BY <1>3 DEF JInv, Placed, RecordBrief, At
  <2>2. /\ facade[f].slug \in Slugs /\ facade[f].brief \in Briefs
        /\ brief[facade[f].slug] = Missing
    BY <1>3, <2>1 DEF AdmittedBy, AdmitStates, RecordBrief
  <2>3. PICK slug \in Slugs, contract \in Briefs :
          slug = facade[f].slug /\ contract = facade[f].brief
    BY <2>2
  <2>4. UNCHANGED current /\ artifacts' = [artifacts EXCEPT ![slug].brief = contract]
    BY <1>3, <2>3 DEF RecordBrief
  <2>5. brief' = [brief EXCEPT ![slug] = contract]
    BY <2>4 DEF JInv, JourneyValues
  <2>6. Admission!Frame(slug, contract)
    BY <2>2, <2>3, <2>4, <2>5 DEF Admission!Frame
  <2> QED
    BY <2>6 DEF Admission!AdmissionNext
<1>4. ASSUME NEW f \in Facades, StartWorkflow(f)
      PROVE  Admission!AdmissionNext
  <2>1. Admission!Admit(facade[f].slug) /\ facade[f].slug \in Slugs
    BY <1>4, StartedTask, JourneyShape DEF Admission!Admit, Occupied
  <2> QED
    BY <2>1 DEF Admission!AdmissionNext
<1>5. ASSUME NEW f \in Facades, Retry(f) \/ Prepare(f) \/ Record(f) \/ ClosePhase(f) \/ Finish(f)
      PROVE  Admission!AdmissionNext
  <2>1. /\ current.slug # Missing /\ current'.slug = current.slug
        /\ UNCHANGED artifacts
    BY <1>5, CapturedTask
  <2>2. brief' = brief
    BY <2>1
  <2>3. Occupied' \in BOOLEAN
    BY DEF Occupied
  <2>4. Admission!Advance
    BY <2>1, <2>2, <2>3 DEF Admission!Advance
  <2> QED
    BY <2>4 DEF Admission!AdmissionNext
<1> QED
  <2>1. \/ UNCHANGED <<current, artifacts>>
        \/ \E f \in Facades :
             \/ InitFeature(f) \/ RecordBrief(f) \/ StartWorkflow(f)
             \/ Retry(f) \/ Prepare(f) \/ Record(f) \/ ClosePhase(f) \/ Finish(f)
    BY DEF JourneyNext, journeyVars, StartTask, Work, Close, Acquire, EndAction, Kill, RemoveLock,
           AdmitTask, Check, Edit
  <2> QED
    BY <1>1, <1>2, <1>3, <1>4, <1>5, <2>1

-----------------------------------------------------------------------------
\* The variables stay of their types, the content of the file included: what a
\* child writes is a workflow whatever the facade was about.
THEOREM JourneyTypes == JourneySpec => []JourneyTypeOK
<1>1. JInv => JourneyTypeOK
  <2>1. \A r \in [slug : Slugs \cup {Missing}, brief : Briefs \cup {Missing}, content : Flow!Workflow] :
          /\ r.slug \in Slugs \cup {Missing} /\ r.brief \in Briefs \cup {Missing}
          /\ r.content \in Flow!Workflow
    OBVIOUS
  <2> QED
    BY <2>1 DEF JInv, JourneyValues, JourneyTypeOK
<1> QED
  BY <1>1, JourneyInvariance, PTL

\* The file names a task exactly when it holds a workflow, started from the
\* brief on record, and no task is completed that was never worked on.
THEOREM OneBrief == JourneySpec => []OneTaskOneBrief
<1> USE PlanShape, EveryPhaseHasATask, PlanIsAcyclic, InputShape
<1>1. ASSUME JInv
      PROVE  OneTaskOneBrief
  <2>1. CASE current.slug = Missing
    <3>1. current.content = Flow!NoWorkflow
      BY <1>1, <2>1 DEF JInv, Holds
    <3>2. Flow!NoWorkflow.status = "absent" /\ Flow!NoWorkflow.task["implement"] = "pending"
      BY Proved!NoWorkflowType, SameWorkflows DEF Proved!NoWorkflow, Proved!NewWorkflow,
         Proved!Normalized
    <3> QED
      BY <2>1, <3>1, <3>2 DEF OneTaskOneBrief, TaskStatus
  <2>2. CASE current.slug # Missing
    BY <1>1, <2>2 DEF JInv, Holds, Worked, OneTaskOneBrief, TaskStatus
  <2> QED
    BY <2>1, <2>2
<1> QED
  BY <1>1, JourneyInvariance, PTL

\* The facade implements the admission of tasks: the current task is replaced
\* when it is completed only, by one whose brief is on record, and no brief is
\* replaced, whatever facades fail half way or are killed.
THEOREM ActiveTaskPreserved == JourneySpec => ActiveTaskIsPreserved
<1>1. JourneyInit => Admission!AdmissionInit
  <2> USE PlanShape, EveryPhaseHasATask, PlanIsAcyclic, InputShape
  <2>1. Flow!NoWorkflow.status = "absent"
    BY SameWorkflows DEF Proved!NoWorkflow, Proved!NewWorkflow, Proved!Normalized
  <2> QED
    BY <2>1 DEF JourneyInit, Admission!AdmissionInit
<1> QED
  BY <1>1, AdmissionStep, JourneyInvariance, PTL
     DEF JourneySpec, ActiveTaskIsPreserved, Admission!AdmissionSpec

\* A new snapshot takes a changed tree for granted only for an outcome recorded
\* in scope, or when the change came between the check and the write.
THEOREM DeclaredChanges == JourneySpec => ChangesAreDeclared
<1> DEFINE A == \A f \in Facades :
       facade'[f] # facade[f] /\ tree # "exact" /\ tree' = "exact" /\ current'.slug = current.slug =>
         f \in unaware \/ (tree = "scoped" /\ At(f, "committing"))
<1>1. ASSUME JInv, [JourneyNext]_journeyVars
      PROVE  [A]_journeyVars
  <2> SUFFICES ASSUME NEW f \in Facades, facade'[f] # facade[f], tree # "exact", tree' = "exact",
                      current'.slug = current.slug
               PROVE  f \in unaware \/ (tree = "scoped" /\ At(f, "committing"))
    OBVIOUS
  <2>1. PICK g \in Facades :
          \/ StartWorkflow(g) \/ Retry(g) \/ Prepare(g) \/ Record(g) \/ ClosePhase(g) \/ Finish(g)
    BY <1>1 DEF JourneyNext, journeyVars, StartTask, Work, Close, Acquire, EndAction, Kill,
                RemoveLock, AdmitTask, InitFeature, RecordBrief, Check, Edit
  <2>2. ~StartWorkflow(g)
    BY <1>1, StartedTask
  <2>3. g = f
    BY <1>1, <2>1 DEF JInv, JourneyValues, StartWorkflow, Retry, Prepare, Record, ClosePhase, Finish,
                      Continue, Turn
  <2> QED
    BY <1>1, <2>1, <2>2, <2>3, CapturedTask
<1> QED
  BY <1>1, JourneyInvariance, PTL DEF JourneySpec, ChangesAreDeclared

=============================================================================

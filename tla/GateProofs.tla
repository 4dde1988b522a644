----------------------------- MODULE GateProofs ------------------------------
(***************************************************************************)
(* Proofs about the gates in front of a commit and of a worker: what the   *)
(* collaboration commands make of the file they share and of the service,  *)
(* and who lets a worker go without an approval receipt.                   *)
(***************************************************************************)
EXTENDS CommitGates, FiniteSetTheorems, Sequences, TLAPS

(***************************************************************************)
(* WorkerTrust.  Types first: the record a command carries depends on      *)
(* where it is.                                                            *)
(***************************************************************************)

Answering == [pc : {"answering"}, ask : Asks, choice : Reviewed, hash : Profiles \cup {NoFile},
              level : Levels]
Keeping   == [pc : {"answering", "settling"}, ask : Asks, choice : {"keep_supervised"}]
Granting  == [pc : {"settling", "writing"}, ask : Asks, choice : Reviewed,
              hash : Profiles \cup {NoFile}, level : Levels, at : Nat, scope : SUBSET Paths]
Events    == [ask : Asks, choice : Reviewed, at : Nat, hash : Profiles, level : Levels,
              state : Levels \cup {"demoted"}, scope : SUBSET Paths, expires : Nat]
Executing == [pc : {"gating", "working"}, hash : Profiles, event : Events \cup {NoFile},
              scope : SUBSET Paths]

Commands == {Absent} \cup Answering \cup Keeping \cup Granting \cup Executing

Grants == [ask : Asks, hash : Profiles \cup {NoFile}, level : Levels, at : Nat]

Logs == [events : Nat, written : SUBSET Asks, given : SUBSET Grants,
         last : Reviewed \cup {"none"}, overlap : BOOLEAN, killed : BOOLEAN,
         edited : BOOLEAN, rejected : BOOLEAN]

TrustTypes ==
  /\ profile \in Profiles \cup {NoFile}
  /\ evidence \in [level : Levels, refs : 0 .. MaxSamples]
  /\ pending \subseteq Asks
  /\ answers \in [Asks -> {NoFile} \cup [choice : TrustChoices, at : Nat, event : BOOLEAN]]
  /\ event \in Events \cup {NoFile}
  /\ trustee \in [TrustUsers -> Commands]
  /\ day \in Nat
  /\ grants \in Logs

\* What a review approved, as it is remembered.
Approval(e) == [ask |-> e.ask, hash |-> e.hash, level |-> e.level, at |-> e.at]

\* An event quotes an approval, if it is one, and keeps to it.
Quotes(e) ==
  /\ e.choice = "approve" =>
       Approval(e) \in grants.given /\ e.level # "none" /\ e.state = e.level
  /\ e.choice # "approve" => e.state = "demoted"
  /\ e.at < e.expires /\ e.expires <= e.at + MaxGrant
  /\ ~grants.edited => e.scope \subseteq Ceiling[e.hash]

\* A review that has its answer, and is about to write its event.
Promises(t) ==
  /\ t.choice = "approve" => Approval(t) \in grants.given /\ t.level # "none"
  /\ t.at <= day
  /\ ~grants.edited => (t.hash \in Profiles => t.scope \subseteq Ceiling[t.hash])

Holds(t) ==
  /\ t.pc = "answering" /\ t.choice \in Reviewed =>
       /\ t.choice = "approve" => t.level # "none" /\ t.hash \in Profiles
       /\ ~grants.edited => t.hash = profile
  /\ t.pc \in {"settling", "writing"} /\ t.choice \in Reviewed => Promises(t)
  /\ t.pc = "writing" => t.choice \in Reviewed
  /\ t.pc = "gating" /\ t.event # NoFile => Quotes(t.event)

Backed ==
  /\ event # NoFile => Quotes(event)
  /\ \A p \in TrustUsers : Holds(trustee[p])

Orderly == ~(grants.overlap \/ grants.killed \/ grants.rejected)

\* Without overlap, kill or rejection: one command at a time, and the event on
\* file is that of the last review, unless that review is at work.
LastWord ==
  Orderly =>
    /\ \A p, q \in TrustUsers : trustee[p] # Absent /\ trustee[q] # Absent => p = q
    /\ \A p \in TrustUsers :
         trustee[p].pc \in {"settling", "writing"} /\ trustee[p].choice \in Reviewed =>
           grants.last = trustee[p].choice
    /\ \/ \E p \in TrustUsers :
            trustee[p].pc \in {"settling", "writing"} /\ trustee[p].choice \in Reviewed
       \/ event # NoFile => grants.last = event.choice
    /\ \A p \in TrustUsers : trustee[p].pc = "gating" => trustee[p].event = event

TrustInv == TrustTypes /\ Backed /\ LastWord

LEMMA InitTrust == TrustInit => TrustInv
<1> SUFFICES ASSUME TrustInit PROVE TrustInv
  OBVIOUS
<1>1. PICK promoted \in BOOLEAN :
       LET a == Candidate
           t == [ask |-> a, choice |-> "approve", at |-> 0, hash |-> profile,
                 level |-> Qualifies, scope |-> Ceiling[profile]]
       IN  /\ promoted => a \in Asks
           /\ pending \in IF promoted THEN {{}} ELSE SUBSET ({a} \cap Asks)
           /\ answers = [b \in Asks |-> IF promoted /\ b = a
                                        THEN [choice |-> "approve", at |-> 0, event |-> TRUE] ELSE NoFile]
           /\ event = IF promoted THEN Granted(t, 1, 0) ELSE NoFile
           /\ grants = [events |-> 0, written |-> {b \in Asks : promoted /\ b = a},
                        given |-> {[ask |-> b, hash |-> profile, level |-> Qualifies, at |-> 0]
                                     : b \in {c \in Asks : promoted /\ c = a}},
                        last |-> IF promoted THEN "approve" ELSE "none",
                        overlap |-> FALSE, killed |-> FALSE, edited |-> FALSE, rejected |-> FALSE]
  BY DEF TrustInit
<1>2. /\ profile \in Profiles /\ evidence \in [level : Levels, refs : {0}]
      /\ trustee = [p \in TrustUsers |-> Absent] /\ day = 0
  BY DEF TrustInit
<1>3. Qualifies = evidence.level /\ Candidate = [hash |-> profile, target |-> Qualifies, refs |-> 0]
  BY <1>2, TrustShape DEF Qualifies, Candidate
<1>4. CASE ~promoted
  <2>1. event = NoFile /\ grants.last = "none"
    BY <1>1, <1>4
  <2>2. TrustTypes
    BY <1>1, <1>2, <1>4, TrustShape DEF TrustTypes, Commands, Logs
  <2> QED
    BY <1>2, <2>1, <2>2 DEF TrustInv, Backed, Holds, LastWord, Absent
<1>5. CASE promoted
  <2>1. Candidate \in Asks /\ Qualifies \in Levels \ {"none"}
    BY <1>1, <1>3, <1>5 DEF Asks
  <2>2. event = [ask |-> Candidate, choice |-> "approve", at |-> 0, hash |-> profile,
                 level |-> Qualifies, state |-> Qualifies, scope |-> Ceiling[profile],
                 expires |-> 1]
    BY <1>1, <1>5 DEF Granted
  <2>3. grants = [events |-> 0, written |-> {Candidate},
                  given |-> {[ask |-> Candidate, hash |-> profile, level |-> Qualifies, at |-> 0]},
                  last |-> "approve", overlap |-> FALSE, killed |-> FALSE, edited |-> FALSE,
                  rejected |-> FALSE]
    <3>1. {b \in Asks : promoted /\ b = Candidate} = {Candidate}
      BY <1>5, <2>1
    <3> QED
      BY <1>1, <1>5, <3>1
  <2>4. event \in Events
    BY <1>2, <2>1, <2>2, TrustShape DEF Events, Reviewed
  <2>5. grants.given \subseteq Grants /\ pending = {}
    BY <1>1, <1>2, <1>5, <2>1, <2>3 DEF Grants
  <2>6. TrustTypes
    <3>1. answers \in [Asks -> {NoFile} \cup [choice : TrustChoices, at : Nat, event : BOOLEAN]]
      BY <1>1 DEF TrustChoices, Reviewed
    <3>2. grants \in Logs
      BY <2>1, <2>3, <2>5 DEF Reviewed, Logs
    <3> QED
      BY <1>2, <2>4, <2>5, <3>1, <3>2, TrustShape DEF TrustTypes, Commands
  <2>7. Quotes(event)
    BY <2>1, <2>2, <2>3, TrustShape DEF Quotes, Approval
  <2> QED
    BY <1>2, <2>2, <2>3, <2>6, <2>7 DEF TrustInv, Backed, Holds, LastWord, Absent
<1> QED
  BY <1>4, <1>5

\* Approvals are never forgotten.
Grows ==
  /\ grants.given \subseteq grants'.given
  /\ grants.edited => grants'.edited
  /\ day <= day' /\ day' \in Nat /\ day \in Nat

LEMMA StillHolds ==
  ASSUME Grows
  PROVE  /\ \A e \in Events : Quotes(e) => Quotes(e)'
         /\ \A t \in Granting : Promises(t) => Promises(t)'
<1>1. \A e \in Events : Quotes(e) => Quotes(e)'
  BY DEF Grows, Quotes
<1>2. ASSUME NEW t \in Granting, Promises(t) PROVE Promises(t)'
  <2>1. t.at \in Nat
    BY DEF Granting
  <2> QED
    BY <1>2, <2>1 DEF Grows, Promises
<1> QED
  BY <1>1, <1>2

LEMMA KeptCommand ==
  ASSUME Grows, NEW t \in Commands, Holds(t),
         profile' = profile \/ t.pc # "answering" \/ grants'.edited
  PROVE  Holds(t)'
<1>1. CASE t = Absent
  BY <1>1 DEF Absent, Holds
<1>2. CASE t \in Answering
  BY <1>2 DEF Answering, Holds, Grows
<1>3. CASE t \in Keeping
  BY <1>3 DEF Keeping, Holds, Reviewed
<1>4. CASE t \in Granting
  BY <1>4, StillHolds DEF Granting, Holds
<1>5. CASE t \in Executing
  BY <1>5, StillHolds DEF Executing, Holds
<1> QED
  BY <1>1, <1>2, <1>3, <1>4, <1>5 DEF Commands

\* A step of one command.
LEMMA OneCommand ==
  ASSUME TrustInv, NEW p \in TrustUsers, NEW from, NEW to \in Commands, Proceed(p, from, to),
         Grows, profile' = profile, Holds(to)', event' # NoFile => Quotes(event)'
  PROVE  trustee' \in [TrustUsers -> Commands] /\ Backed'
<1>1. trustee' = [trustee EXCEPT ![p] = to] /\ trustee \in [TrustUsers -> Commands]
  BY DEF Proceed, TrustInv, TrustTypes
<1>2. ASSUME NEW q \in TrustUsers PROVE Holds(trustee[q])'
  <2>1. CASE q = p
    BY <1>1, <2>1
  <2>2. CASE q # p
    <3>1. PICK t \in Commands : t = trustee[q]
      BY <1>1
    <3>2. Holds(t)'
      BY <3>1, KeptCommand DEF TrustInv, Backed
    <3>3. trustee'[q] = t
      BY <1>1, <2>2, <3>1
    <3> QED
      BY <3>2, <3>3
  <2> QED
    BY <2>1, <2>2
<1> QED
  BY <1>1, <1>2 DEF Backed

Writes(t) == t.pc \in {"settling", "writing"} /\ t.choice \in Reviewed

\* In good order, a step of one command leaves the others absent.
LEMMA OrderlyStep ==
  ASSUME TrustInv, NEW p \in TrustUsers, NEW to \in Commands, trustee' = [trustee EXCEPT ![p] = to],
         Orderly' =>
           /\ \A q \in TrustUsers \ {p} : trustee[q] = Absent
           /\ Writes(to) => grants'.last = to.choice
           /\ Writes(to) \/ (event' # NoFile => grants'.last = event'.choice)
           /\ to.pc = "gating" => to.event = event'
  PROVE  LastWord'
<1> SUFFICES ASSUME Orderly'
             PROVE  LastWord'
  BY DEF LastWord
<1>1. trustee'[p] = to /\ \A q \in TrustUsers \ {p} : trustee'[q] = Absent
  BY DEF TrustInv, TrustTypes
<1>2. Absent.pc = "absent"
  BY DEF Absent
<1>3. \A q \in TrustUsers : trustee'[q].pc # "absent" => q = p
  BY <1>1, <1>2
<1>4. \A q, r \in TrustUsers : trustee'[q] # Absent /\ trustee'[r] # Absent => q = r
  BY <1>1
<1> QED
  BY <1>1, <1>3, <1>4 DEF LastWord, Writes

LEMMA Alone ==
  ASSUME TrustInv, Orderly, NEW p \in TrustUsers, trustee[p].pc # "absent"
  PROVE  /\ \A q \in TrustUsers \ {p} : trustee[q] = Absent
         /\ Writes(trustee[p]) => grants.last = trustee[p].choice
         /\ Writes(trustee[p]) \/ (event # NoFile => grants.last = event.choice)
         /\ trustee[p].pc = "gating" => trustee[p].event = event
<1>1. trustee[p] # Absent
  BY DEF Absent
<1>2. \A q \in TrustUsers \ {p} : trustee[q] = Absent
  BY <1>1 DEF TrustInv, LastWord
<1>3. \A q \in TrustUsers : trustee[q].pc \in {"settling", "writing"} => q = p
  BY <1>2 DEF Absent
<1> QED
  BY <1>2, <1>3 DEF TrustInv, LastWord, Writes

LEMMA Overlapped ==
  \A g \in Logs, n \in Nat, o \in BOOLEAN :
    /\ [g EXCEPT !.events = n, !.overlap = o] \in Logs
    /\ [g EXCEPT !.events = n, !.overlap = o].overlap = o
<1>1. \A g \in Logs, n \in Nat, o \in BOOLEAN : [g EXCEPT !.events = n, !.overlap = o] \in Logs
  BY DEF Logs
<1>2. \A g \in Logs, n \in Nat, o \in BOOLEAN : [g EXCEPT !.events = n, !.overlap = o].overlap = o
  BY DEF Logs
<1> QED
  BY <1>1, <1>2

LEMMA Edited ==
  \A g \in Logs, n \in Nat, o \in BOOLEAN :
    /\ [g EXCEPT !.events = n, !.edited = o] \in Logs
    /\ [g EXCEPT !.events = n, !.edited = o].edited = o
<1>1. \A g \in Logs, n \in Nat, o \in BOOLEAN : [g EXCEPT !.events = n, !.edited = o] \in Logs
  BY DEF Logs
<1>2. \A g \in Logs, n \in Nat, o \in BOOLEAN : [g EXCEPT !.events = n, !.edited = o].edited = o
  BY DEF Logs
<1> QED
  BY <1>1, <1>2

\* What the log of a command that begins keeps.
LEMMA BegunLog ==
  ASSUME TrustInv
  PROVE  /\ Begun \in Logs
         /\ Begun.given = grants.given /\ Begun.edited = grants.edited
         /\ Begun.written = grants.written
         /\ Begun.last = grants.last /\ Begun.killed = grants.killed
         /\ Begun.rejected = grants.rejected
         /\ Begun.overlap = (grants.overlap \/ \E q \in TrustUsers : trustee[q] # Absent)
<1>1. PICK g \in Logs : g = grants
  BY DEF TrustInv, TrustTypes
<1>2. PICK o \in BOOLEAN : o = (g.overlap \/ \E q \in TrustUsers : trustee[q] # Absent)
  OBVIOUS
<1>3. Begun = [[g EXCEPT !.events = @ + 1] EXCEPT !.overlap = o]
  BY <1>1, <1>2 DEF Begun, Counted, Logs
<1>4. Begun = [g EXCEPT !.events = g.events + 1, !.overlap = o]
  BY <1>3 DEF Logs
<1>5. g.events + 1 \in Nat
  BY DEF Logs
<1>6. Begun \in Logs /\ Begun.overlap = o
  BY <1>4, <1>5, Overlapped
<1>7. /\ Begun.given = g.given /\ Begun.edited = g.edited /\ Begun.last = g.last
      /\ Begun.written = g.written /\ Begun.killed = g.killed /\ Begun.rejected = g.rejected
  BY <1>4 DEF Logs
<1>8. Begun.overlap = (grants.overlap \/ \E q \in TrustUsers : trustee[q] # Absent)
  BY <1>1, <1>2, <1>6
<1> QED
  BY <1>1, <1>6, <1>7, <1>8

\* A command begins.
LEMMA Entered ==
  ASSUME TrustInv, NEW p \in TrustUsers, NEW to \in Commands, EnterTrust(p, to),
         to.pc \in {"absent", "answering", "gating"}, Holds(to), to.pc = "gating" => to.event = event,
         UNCHANGED <<profile, evidence, answers, event, day>>, pending' \subseteq Asks
  PROVE  TrustInv'
<1>1. /\ Proceed(p, "absent", to) /\ trustee' = [trustee EXCEPT ![p] = to] /\ grants' = Begun
  BY DEF EnterTrust, Proceed
<1>2. /\ grants' \in Logs
      /\ grants'.given = grants.given /\ grants'.edited = grants.edited
      /\ grants'.last = grants.last /\ grants'.killed = grants.killed
      /\ grants'.rejected = grants.rejected
      /\ grants'.overlap = (grants.overlap \/ \E q \in TrustUsers : trustee[q] # Absent)
  BY <1>1, BegunLog
<1>3. Grows
  BY <1>2 DEF Grows, TrustInv, TrustTypes
<1>4. Holds(to)'
  BY <1>3, KeptCommand
<1>5. event' # NoFile => Quotes(event)'
  BY <1>3, StillHolds DEF TrustInv, Backed, TrustTypes
<1>6. trustee' \in [TrustUsers -> Commands] /\ Backed'
  BY <1>1, <1>3, <1>4, <1>5, OneCommand
<1>7. LastWord'
  <2>1. Orderly' => Orderly /\ \A q \in TrustUsers : trustee[q] = Absent
    BY <1>2 DEF Orderly
  <2>2. ~Writes(to)
    BY DEF Writes
  <2>3. ASSUME Orderly' PROVE event # NoFile => grants.last = event.choice
    BY <2>1, <2>3 DEF TrustInv, LastWord, Absent
  <2> QED
    BY <1>1, <1>2, <2>1, <2>2, <2>3, OrderlyStep
<1> QED
  BY <1>2, <1>6, <1>7 DEF TrustInv, TrustTypes

LEMMA AnswerKept ==
  ASSUME NEW choice \in TrustChoices, NEW at \in Nat
  PROVE  [choice |-> choice, at |-> at, event |-> choice = "approve"]
           \in [choice : TrustChoices, at : Nat, event : BOOLEAN]
  OBVIOUS

\* A command goes on, and changes nothing else.
LEMMA Advanced ==
  ASSUME TrustInv, NEW p \in TrustUsers, NEW from, NEW to \in Commands, Proceed(p, from, to),
         from # "absent", ~Writes(trustee[p]), ~Writes(to), Holds(to), to.pc # "gating",
         UNCHANGED <<profile, evidence, pending, answers, event, day, grants>>
  PROVE  TrustInv'
<1>1. Grows
  BY DEF Grows, TrustInv, TrustTypes
<1>2. Holds(to)' /\ (event' # NoFile => Quotes(event)')
  BY <1>1, KeptCommand, StillHolds DEF TrustInv, Backed, TrustTypes
<1>3. trustee' \in [TrustUsers -> Commands] /\ Backed'
  BY <1>1, <1>2, OneCommand
<1>4. trustee' = [trustee EXCEPT ![p] = to] /\ trustee[p].pc # "absent" /\ (Orderly' => Orderly)
  BY DEF Proceed, Orderly
<1>5. LastWord'
  BY <1>4, Alone, OrderlyStep
<1> QED
  BY <1>3, <1>5 DEF TrustInv, TrustTypes

\* Something else changes: the evidence, or the day.
LEMMA Elsewhere ==
  ASSUME TrustInv, grants' = Counted, profile' = profile, pending' = pending, answers' = answers,
         event' = event, trustee' = trustee,
         evidence' \in [level : Levels, refs : 0 .. MaxSamples], day' \in Nat, day <= day'
  PROVE  TrustInv'
<1>1. /\ grants' \in Logs /\ grants'.given = grants.given /\ grants'.edited = grants.edited
      /\ grants'.last = grants.last /\ grants'.overlap = grants.overlap
      /\ grants'.killed = grants.killed /\ grants'.rejected = grants.rejected
  <2>1. PICK g \in Logs : g = grants
    BY DEF TrustInv, TrustTypes
  <2>2. grants' = [g EXCEPT !.events = @ + 1]
    BY <2>1 DEF Counted
  <2>3. grants' \in Logs
    BY <2>2 DEF Logs
  <2> QED
    BY <2>1, <2>2, <2>3 DEF Logs
<1>2. Grows
  BY <1>1 DEF Grows, TrustInv, TrustTypes
<1>3. ASSUME NEW q \in TrustUsers PROVE Holds(trustee[q])'
  <2>1. PICK t \in Commands : t = trustee[q]
    BY DEF TrustInv, TrustTypes
  <2>2. Holds(t)'
    BY <1>2, <2>1, KeptCommand DEF TrustInv, Backed
  <2> QED
    BY <2>1, <2>2
<1>4. Backed'
  BY <1>2, <1>3, StillHolds DEF TrustInv, Backed, TrustTypes
<1> QED
  BY <1>1, <1>4 DEF TrustInv, TrustTypes, LastWord, Orderly

LEMMA TrustStep ==
  ASSUME TrustInv, [TrustNext]_trustVars
  PROVE  TrustInv'
<1> USE DEF TrustInv
<1>0. Absent \in Commands /\ Absent.pc = "absent" /\ Holds(Absent) /\ Holds(Absent)' /\ ~Writes(Absent)
  BY DEF Commands, Absent, Holds, Writes
<1>1. CASE UNCHANGED trustVars
  <2>1. TrustTypes'
    BY <1>1 DEF trustVars, TrustTypes
  <2>2. Backed'
    BY <1>1 DEF trustVars, Backed, Holds, Promises, Quotes
  <2>3. LastWord'
    BY <1>1 DEF trustVars, LastWord, Orderly
  <2> QED
    BY <2>1, <2>2, <2>3
<1>2. ASSUME NEW p \in TrustUsers, AskForTrust(p)
      PROVE  TrustInv'
  BY <1>0, <1>2, Entered DEF AskForTrust, TrustTypes
<1>3. ASSUME NEW p \in TrustUsers, NEW a \in Asks, NEW choice \in Reviewed, ReviewTrust(p, a, choice)
      PROVE  TrustInv'
  <2>1. PICK to : to = [pc |-> "answering", ask |-> a, choice |-> choice,
                        hash |-> profile, level |-> Qualifies]
    OBVIOUS
  <2>2. Qualifies \in Levels /\ (Qualifies # "none" => profile \in Profiles)
    BY DEF Qualifies, TrustTypes, Levels
  <2>3. to \in Answering
    BY <2>1, <2>2 DEF TrustTypes, Answering
  <2>4. Holds(to)
    BY <1>3, <2>1, <2>2 DEF ReviewTrust, Holds
  <2> QED
    BY <1>3, <2>1, <2>3, <2>4, Entered DEF ReviewTrust, TrustTypes, Commands, Answering
<1>4. ASSUME NEW p \in TrustUsers, NEW a \in Asks, DecideTrust(p, a)
      PROVE  TrustInv'
  <2>1. PICK to : to = [pc |-> "answering", ask |-> a, choice |-> "keep_supervised"]
    OBVIOUS
  <2>2. to \in Keeping
    BY <2>1 DEF Keeping
  <2>3. Holds(to)
    BY <2>1 DEF Holds, Reviewed
  <2> QED
    BY <1>4, <2>1, <2>2, <2>3, Entered DEF DecideTrust, TrustTypes, Commands
<1>5. ASSUME NEW p \in TrustUsers, NEW scope \in SUBSET Paths, Inspect(p, scope)
      PROVE  TrustInv'
  <2>1. PICK to : to = [pc |-> "gating", hash |-> profile, event |-> event, scope |-> scope]
    OBVIOUS
  <2>2. to \in Executing
    BY <1>5, <2>1 DEF Executing, Inspect, TrustTypes
  <2>3. Holds(to)
    BY <2>1 DEF Holds, Backed
  <2> QED
    BY <1>5, <2>1, <2>2, <2>3, Entered DEF Inspect, TrustTypes, Commands
<1>6. ASSUME NEW p \in TrustUsers, RecordAnswer(p)
      PROVE  TrustInv'
  <2>1. PICK t \in Commands : t = trustee[p]
    BY DEF TrustTypes
  <2>2. t.pc = "answering" /\ Holds(t)
    BY <1>6, <2>1 DEF RecordAnswer, Backed
  <2>3. /\ t \in Answering \cup Keeping /\ t.ask \in Asks
        /\ t.choice \notin Reviewed => t \in Keeping
    <3>1. t \in Answering \cup Keeping
      BY <2>2 DEF Commands, Absent, Granting, Executing
    <3> QED
      BY <3>1 DEF Answering, Keeping
  <2>4. PICK to : to = IF t.choice \in Reviewed
                       THEN [pc |-> "settling", ask |-> t.ask, choice |-> t.choice, hash |-> t.hash,
                             level |-> t.level, at |-> day, scope |-> Ceiling[profile]]
                       ELSE [t EXCEPT !.pc = "settling"]
    OBVIOUS
  <2>5. PICK given : given = grants.given \cup
                  {[ask |-> t.ask, hash |-> t.hash, level |-> t.level, at |-> day]
                     : choice \in {"approve"} \cap {t.choice}}
    OBVIOUS
  <2>6. Proceed(p, "answering", to)
    BY <1>6, <2>1, <2>4 DEF RecordAnswer, Stage
  <2>7. CASE t.choice \in Reviewed
    <3>1. /\ t \in Answering /\ t.hash \in Profiles \cup {NoFile} /\ t.level \in Levels
          /\ t.choice \in Reviewed /\ profile \in Profiles /\ day \in Nat
          /\ t.choice = "approve" => t.hash \in Profiles
          /\ t.choice = "approve" => t.level # "none"
          /\ ~grants.edited => t.hash = profile
      <4>1. t \in Answering
        BY <2>3, <2>7 DEF Keeping, Reviewed
      <4>2. profile \in Profiles
        BY <1>6, <2>1, <2>7 DEF RecordAnswer, TrustTypes
      <4>3. day \in Nat
        BY DEF TrustTypes
      <4> QED
        BY <2>2, <2>7, <4>1, <4>2, <4>3 DEF Answering, Holds
    <3>2. to = [pc |-> "settling", ask |-> t.ask, choice |-> t.choice, hash |-> t.hash,
                level |-> t.level, at |-> day, scope |-> Ceiling[profile]]
      BY <2>4, <2>7
    <3>3. to \in Granting
      BY <2>3, <3>1, <3>2, TrustShape DEF Granting
    <3>4. grants' = [grants EXCEPT !.last = t.choice, !.given = given]
      BY <1>6, <2>1, <2>5, <2>7 DEF RecordAnswer
    <3>5. given \subseteq Grants /\ grants.given \subseteq given
      <4>1. t.choice = "approve" =>
              [ask |-> t.ask, hash |-> t.hash, level |-> t.level, at |-> day] \in Grants
        BY <2>3, <3>1 DEF Grants
      <4>2. grants.given \subseteq Grants
        BY DEF TrustTypes, Logs
      <4> QED
        BY <2>5, <4>1, <4>2
    <3>6. t.choice = "approve" => Approval(to) \in given
      BY <2>5, <3>2 DEF Approval
    <3>7. /\ grants' \in Logs /\ grants'.last = t.choice /\ grants'.given = given
          /\ grants'.edited = grants.edited /\ grants'.overlap = grants.overlap
          /\ grants'.killed = grants.killed /\ grants'.rejected = grants.rejected
      BY <3>1, <3>4, <3>5 DEF TrustTypes, Logs
    <3>8. Grows
      BY <1>6, <3>5, <3>7 DEF Grows, RecordAnswer, TrustTypes
    <3>9. Holds(to)'
      <4>1. to.pc = "settling" /\ to.choice = t.choice /\ to.level = t.level /\ to.at = day
            /\ to.hash = t.hash /\ to.scope = Ceiling[profile]
        BY <3>2
      <4>2. Promises(to)'
        BY <1>6, <3>1, <3>6, <3>7, <4>1 DEF Promises, RecordAnswer
      <4> QED
        BY <4>1, <4>2 DEF Holds
    <3>10. event' # NoFile => Quotes(event)'
      BY <1>6, <3>8, StillHolds DEF RecordAnswer, Backed, TrustTypes
    <3>11. trustee' \in [TrustUsers -> Commands] /\ Backed'
      BY <1>6, <2>6, <3>3, <3>8, <3>9, <3>10, OneCommand DEF Commands, RecordAnswer
    <3>12. LastWord'
      <4>1. Orderly' => Orderly
        BY <3>7 DEF Orderly
      <4>2. to.pc = "settling" /\ Writes(to) /\ to.choice = t.choice
        BY <2>7, <3>2 DEF Writes
      <4>3. Orderly => \A q \in TrustUsers \ {p} : trustee[q] = Absent
        BY <2>1, <2>2, Alone
      <4>4. to \in Commands /\ trustee' = [trustee EXCEPT ![p] = to]
        BY <2>6, <3>3 DEF Commands, Proceed
      <4> QED
        BY <3>7, <4>1, <4>2, <4>3, <4>4, OrderlyStep
    <3>13. answers' \in [Asks -> {NoFile} \cup [choice : TrustChoices, at : Nat, event : BOOLEAN]]
      BY <1>6, <2>1, <2>3, <3>1, AnswerKept DEF TrustTypes, RecordAnswer, TrustChoices
    <3> QED
      BY <1>6, <3>7, <3>11, <3>12, <3>13 DEF TrustTypes, RecordAnswer
  <2>8. CASE t.choice \notin Reviewed
    <3>1. t \in Keeping /\ t.choice = "keep_supervised"
      BY <2>3, <2>8 DEF Keeping
    <3>2. to = [t EXCEPT !.pc = "settling"] /\ to \in Keeping /\ to.choice = t.choice /\ to.pc = "settling"
      BY <2>4, <2>8, <3>1 DEF Keeping
    <3>3. given = grants.given
      BY <2>5, <3>1
    <3>4. grants' = grants
      <4>1. PICK g \in Logs : g = grants
        BY DEF TrustTypes
      <4>2. grants' = [g EXCEPT !.last = g.last, !.given = g.given]
        BY <1>6, <2>1, <2>5, <2>8, <3>3, <4>1 DEF RecordAnswer
      <4> QED
        BY <4>1, <4>2 DEF Logs
    <3>5. Grows
      BY <1>6, <3>4 DEF Grows, RecordAnswer, TrustTypes
    <3>6. Holds(to)'
      BY <2>8, <3>1, <3>2 DEF Holds
    <3>7. event' # NoFile => Quotes(event)'
      BY <1>6, <3>5, StillHolds DEF RecordAnswer, Backed, TrustTypes
    <3>8. trustee' \in [TrustUsers -> Commands] /\ Backed'
      BY <1>6, <2>6, <3>2, <3>5, <3>6, <3>7, OneCommand DEF Commands, RecordAnswer
    <3>9. LastWord'
      <4>1. Orderly' => Orderly
        BY <3>4 DEF Orderly
      <4>2. ~Writes(to) /\ ~Writes(t) /\ to.pc # "gating"
        BY <2>8, <3>2 DEF Writes
      <4>3. Orderly => /\ \A q \in TrustUsers \ {p} : trustee[q] = Absent
                       /\ event # NoFile => grants.last = event.choice
        BY <2>1, <2>2, <4>2, Alone
      <4>4. to \in Commands /\ trustee' = [trustee EXCEPT ![p] = to] /\ event' = event
        BY <1>6, <2>6, <3>2 DEF Commands, Proceed, RecordAnswer
      <4> QED
        BY <3>4, <4>1, <4>2, <4>3, <4>4, OrderlyStep
    <3>10. answers' \in [Asks -> {NoFile} \cup [choice : TrustChoices, at : Nat, event : BOOLEAN]]
      BY <1>6, <2>1, <2>3, <3>1, AnswerKept DEF TrustTypes, RecordAnswer, TrustChoices
    <3> QED
      BY <1>6, <3>4, <3>8, <3>9, <3>10 DEF TrustTypes, RecordAnswer
  <2> QED
    BY <2>7, <2>8
<1>7. ASSUME NEW p \in TrustUsers, SettleRequest(p)
      PROVE  TrustInv'
  <2>1. PICK t \in Commands : t = trustee[p]
    BY DEF TrustTypes
  <2>2. PICK to : to = IF t.choice \in Reviewed THEN [t EXCEPT !.pc = "writing"] ELSE Absent
    OBVIOUS
  <2>3. /\ t.pc = "settling" /\ Holds(t) /\ t \in Granting \cup Keeping /\ Proceed(p, "settling", to)
        /\ trustee' = [trustee EXCEPT ![p] = to]
        /\ UNCHANGED <<profile, evidence, answers, event, day, grants>> /\ pending' \subseteq Asks
    <3>1. t.pc = "settling" /\ Holds(t) /\ pending' \subseteq Asks
      BY <1>7, <2>1 DEF SettleRequest, Backed, TrustTypes
    <3>2. t \in Granting \cup Keeping
      BY <3>1 DEF Commands, Absent, Answering, Executing
    <3> QED
      BY <1>7, <2>1, <2>2, <3>1, <3>2 DEF SettleRequest, Stage, Proceed
  <2>4. Grows
    BY <2>3 DEF Grows, TrustTypes
  <2>5. /\ to \in Commands /\ Holds(to) /\ (Writes(to) <=> Writes(t)) /\ to.pc # "gating"
        /\ Writes(to) => to.choice = t.choice
    <3>1. CASE t.choice \in Reviewed
      <4>1. t \in Granting
        BY <2>3, <3>1 DEF Keeping, Reviewed
      <4>2. to \in Granting /\ to.pc = "writing" /\ to.choice = t.choice
        BY <2>2, <3>1, <4>1 DEF Granting
      <4>3. Promises(t)
        BY <2>3, <3>1 DEF Holds
      <4>4. Promises(to)
        BY <2>2, <3>1, <4>1, <4>3 DEF Promises, Granting, Approval
      <4> QED
        BY <2>3, <3>1, <4>2, <4>4 DEF Holds, Commands, Writes
    <3>2. CASE t.choice \notin Reviewed
      BY <1>0, <2>2, <3>2 DEF Writes
    <3> QED
      BY <3>1, <3>2
  <2>6. Holds(to)' /\ (event' # NoFile => Quotes(event)')
    BY <2>3, <2>4, <2>5, KeptCommand, StillHolds DEF Backed, TrustTypes
  <2>7. trustee' \in [TrustUsers -> Commands] /\ Backed'
    BY <2>3, <2>4, <2>5, <2>6, OneCommand
  <2>8. LastWord'
    <3>1. Orderly' => Orderly
      BY <2>3 DEF Orderly
    <3> QED
      BY <2>1, <2>3, <2>5, <3>1, Alone, OrderlyStep
  <2> QED
    BY <2>3, <2>7, <2>8 DEF TrustTypes
<1>8. ASSUME NEW p \in TrustUsers, NEW days \in 1 .. MaxGrant, NEW late \in BOOLEAN,
             WriteEvent(p, days, late)
      PROVE  TrustInv'
  <2>1. PICK t \in Commands : t = trustee[p]
    BY DEF TrustTypes
  <2>2. /\ t.pc = "writing" /\ t \in Granting /\ t.choice \in Reviewed /\ Promises(t) /\ t.ask \in Asks
        /\ t.at \in Nat /\ t.hash \in Profiles \cup {NoFile} /\ t.level \in Levels
        /\ t.scope \in SUBSET Paths /\ day \in Nat /\ days \in Nat \ {0} /\ t.at <= day
    <3>1. t.pc = "writing" /\ Holds(t)
      BY <1>8, <2>1 DEF WriteEvent, Proceed, Backed
    <3>2. t \in Granting
      BY <3>1 DEF Commands, Absent, Answering, Keeping, Executing, Holds, Reviewed
    <3>3. t.choice \in Reviewed /\ Promises(t)
      BY <3>1 DEF Holds
    <3> QED
      BY <3>1, <3>2, <3>3, TrustShape DEF Granting, Promises, TrustTypes
  <2>3. /\ Proceed(p, "writing", Absent) /\ trustee' = [trustee EXCEPT ![p] = Absent]
        /\ UNCHANGED <<profile, evidence, pending, answers, day>>
    BY <1>8 DEF WriteEvent, Proceed
  <2>4. /\ grants' \in Logs /\ grants'.given = grants.given /\ grants'.edited = grants.edited
        /\ grants'.last = grants.last /\ grants'.overlap = grants.overlap
    <3>1. \/ grants' = [grants EXCEPT !.written = @ \cup {t.ask}]
          \/ grants' = [grants EXCEPT !.killed = TRUE]
          \/ grants' = [grants EXCEPT !.rejected = TRUE]
      BY <1>8, <2>1 DEF WriteEvent
    <3>2. PICK g \in Logs : g = grants
      BY DEF TrustTypes
    <3>3. [g EXCEPT !.written = @ \cup {t.ask}] \in Logs
      BY <2>2 DEF Logs
    <3>4. [g EXCEPT !.killed = TRUE] \in Logs /\ [g EXCEPT !.rejected = TRUE] \in Logs
      BY DEF Logs
    <3>5. grants' \in Logs
      BY <3>1, <3>2, <3>3, <3>4
    <3> QED
      BY <3>1, <3>2, <3>5 DEF Logs
  <2>5. Grows
    BY <2>3, <2>4 DEF Grows, TrustTypes
  <2>6. \/ event' = event
        \/ event' = NoFile
        \/ event' = Granted(t, days, day) /\ t.hash \in Profiles /\ day + days - t.at <= MaxGrant
    <3>1. Grantable(t, days, late) => day + days - t.at <= MaxGrant
      BY <2>2, TrustShape DEF Grantable
    <3> QED
      BY <1>8, <2>1, <2>2, <3>1 DEF WriteEvent
  <2>7. event' \in Events \cup {NoFile} /\ (event' # NoFile => Quotes(event)')
    <3>1. CASE event' = event
      BY <2>5, <3>1, StillHolds DEF TrustTypes, Backed
    <3>2. CASE event' = NoFile
      BY <3>2
    <3>3. CASE event' = Granted(t, days, day) /\ t.hash \in Profiles /\ day + days - t.at <= MaxGrant
      <4>1. PICK e : e = [ask |-> t.ask, choice |-> t.choice, at |-> t.at, hash |-> t.hash,
                          level |-> t.level,
                          state |-> IF t.choice = "approve" THEN t.level ELSE "demoted",
                          scope |-> t.scope, expires |-> day + days]
        OBVIOUS
      <4>2. event' = e
        BY <3>3, <4>1 DEF Granted
      <4>3. e \in Events
        BY <2>2, <3>3, <4>1 DEF Events
      <4>4. e.at < e.expires /\ e.expires <= e.at + MaxGrant
        BY <2>2, <3>3, <4>1, TrustShape
      <4>5. Approval(e) = Approval(t)
        BY <4>1 DEF Approval
      <4>6. Quotes(e)
        BY <2>2, <3>3, <4>1, <4>4, <4>5 DEF Quotes, Promises
      <4>7. Quotes(e)'
        BY <2>5, <4>3, <4>6, StillHolds
      <4>8. Quotes(event)'
        BY <4>2, <4>7 DEF Quotes, Approval
      <4> QED
        BY <4>2, <4>3, <4>8
    <3> QED
      BY <2>6, <3>1, <3>2, <3>3
  <2>8. trustee' \in [TrustUsers -> Commands] /\ Backed'
    BY <1>0, <2>3, <2>5, <2>7, OneCommand
  <2>9. LastWord'
    <3>1. ASSUME Orderly' PROVE Orderly /\ event' # NoFile => grants'.last = event'.choice
      <4>1. ASSUME Orderly PROVE event' # NoFile => grants'.last = event'.choice
        <5>1. grants.last = t.choice
          BY <2>1, <2>2, <4>1, Alone DEF Writes
        <5>2. ~grants'.rejected
          BY <3>1 DEF Orderly
        <5>3. event' = NoFile \/ event' = Granted(t, days, day)
          <6>1. ASSUME ~Grantable(t, days, late) PROVE FALSE
            <7>1. grants' = [grants EXCEPT !.rejected = TRUE]
              BY <1>8, <2>1, <6>1 DEF WriteEvent
            <7> QED
              BY <5>2, <7>1 DEF TrustTypes, Logs
          <6> QED
            BY <1>8, <2>1, <6>1 DEF WriteEvent
        <5> QED
          BY <2>4, <5>1, <5>3 DEF Granted
      <4> QED
        BY <4>1
    <3>2. Orderly' => Orderly
      <4>1. \/ grants' = [grants EXCEPT !.written = @ \cup {t.ask}]
            \/ grants' = [grants EXCEPT !.killed = TRUE]
            \/ grants' = [grants EXCEPT !.rejected = TRUE]
        BY <1>8, <2>1 DEF WriteEvent
      <4> QED
        BY <4>1 DEF Orderly, TrustTypes, Logs
    <3> QED
      BY <1>0, <2>1, <2>2, <2>3, <3>1, <3>2, Alone, OrderlyStep
  <2> QED
    BY <2>3, <2>4, <2>7, <2>8, <2>9 DEF TrustTypes
<1>9. ASSUME NEW p \in TrustUsers, RunWorker(p) \/ EndWork(p)
      PROVE  TrustInv'
  <2>1. PICK t \in Commands : t = trustee[p]
    BY DEF TrustTypes
  <2>2. /\ t.pc \in {"gating", "working"} /\ t \in Executing /\ ~Writes(t)
        /\ UNCHANGED <<profile, evidence, pending, answers, event, day, grants>>
    <3>1. t.pc \in {"gating", "working"}
      BY <1>9, <2>1 DEF RunWorker, EndWork, Proceed
    <3>2. t \in Executing
      BY <3>1 DEF Commands, Absent, Answering, Keeping, Granting
    <3> QED
      BY <1>9, <3>1, <3>2 DEF RunWorker, EndWork, Writes
  <2>3. PICK to \in {Absent, [t EXCEPT !.pc = "working"]} :
             Proceed(p, t.pc, to) /\ trustee' = [trustee EXCEPT ![p] = to]
    BY <1>9, <2>1 DEF RunWorker, EndWork, Proceed, Stage
  <2>4. to \in Commands /\ Holds(to) /\ ~Writes(to) /\ to.pc # "gating"
    <3>1. CASE to = Absent
      BY <1>0, <3>1
    <3>2. CASE to = [t EXCEPT !.pc = "working"]
      <4>1. to \in Executing /\ to.pc = "working"
        BY <2>2, <3>2 DEF Executing
      <4> QED
        BY <4>1 DEF Commands, Holds, Writes
    <3> QED
      BY <2>3, <3>1, <3>2
  <2> QED
    BY <2>1, <2>2, <2>3, <2>4, Advanced
<1>10. ASSUME NEW p \in TrustUsers, AbortTrust(p)
       PROVE  TrustInv'
  <2>1. /\ trustee[p].pc \in {"answering", "settling", "writing"} /\ trustee' = [trustee EXCEPT ![p] = Absent]
        /\ grants' = [grants EXCEPT !.killed = TRUE]
        /\ UNCHANGED <<profile, evidence, pending, answers, event, day>>
    BY <1>10 DEF AbortTrust
  <2>2. /\ grants' \in Logs /\ grants'.given = grants.given /\ grants'.edited = grants.edited
        /\ grants'.killed
    BY <2>1 DEF TrustTypes, Logs
  <2>3. Grows
    BY <2>1, <2>2 DEF Grows, TrustTypes
  <2>4. event' # NoFile => Quotes(event)'
    BY <2>1, <2>3, StillHolds DEF TrustTypes, Backed
  <2>5. Proceed(p, trustee[p].pc, Absent)
    BY <2>1 DEF Proceed
  <2>6. trustee' \in [TrustUsers -> Commands] /\ Backed'
    BY <1>0, <2>1, <2>3, <2>4, <2>5, OneCommand
  <2> QED
    BY <2>1, <2>2, <2>6 DEF TrustTypes, LastWord, Orderly
<1>11. ASSUME NEW content \in Profiles \cup {NoFile}, EditProfile(content)
       PROVE  TrustInv'
  <2>1. PICK o \in BOOLEAN : o = (grants.edited \/ \E p \in TrustUsers : trustee[p].pc = "answering")
    OBVIOUS
  <2>2. /\ UNCHANGED <<evidence, pending, answers, event, trustee, day>> /\ profile' = content
        /\ grants' = [Counted EXCEPT !.edited = @ \/ \E p \in TrustUsers : trustee[p].pc = "answering"]
    BY <1>11 DEF EditProfile
  <2>3. /\ grants' \in Logs /\ grants'.given = grants.given /\ grants'.edited = o
        /\ grants'.last = grants.last /\ grants'.overlap = grants.overlap
        /\ grants'.killed = grants.killed /\ grants'.rejected = grants.rejected
    <3>1. PICK g \in Logs : g = grants
      BY DEF TrustTypes
    <3>2. grants' = [[g EXCEPT !.events = @ + 1] EXCEPT !.edited = o]
      BY <2>1, <2>2, <3>1 DEF Counted, Logs
    <3>3. g.events + 1 \in Nat
      BY DEF Logs
    <3>4. grants' = [g EXCEPT !.events = g.events + 1, !.edited = o]
      BY <3>2 DEF Logs
    <3>5. grants' \in Logs /\ grants'.edited = o
      BY <3>3, <3>4, Edited
    <3>6. /\ grants'.given = g.given /\ grants'.last = g.last /\ grants'.overlap = g.overlap
          /\ grants'.killed = g.killed /\ grants'.rejected = g.rejected
      BY <3>4 DEF Logs
    <3> QED
      BY <3>1, <3>5, <3>6
  <2>4. Grows
    <3>1. grants.edited => grants'.edited
      BY <2>1, <2>3
    <3> QED
      BY <2>2, <2>3, <3>1 DEF Grows, TrustTypes
  <2>5. ASSUME NEW q \in TrustUsers PROVE Holds(trustee[q])'
    <3>1. PICK t \in Commands : t = trustee[q]
      BY DEF TrustTypes
    <3>2. t.pc # "answering" \/ grants'.edited
      BY <2>1, <2>3, <3>1
    <3>3. Holds(t)'
      BY <2>4, <3>1, <3>2, KeptCommand DEF Backed
    <3> QED
      BY <2>2, <3>1, <3>3
  <2>6. Backed'
    BY <2>2, <2>4, <2>5, StillHolds DEF Backed, TrustTypes
  <2> QED
    BY <2>2, <2>3, <2>6 DEF TrustTypes, LastWord, Orderly
<1>12. ASSUME NEW level \in Levels, AddSamples(level)
       PROVE  TrustInv'
  <2>1. evidence' \in [level : Levels, refs : 0 .. MaxSamples]
    BY <1>12, TrustShape DEF AddSamples, TrustTypes
  <2>2. day' \in Nat /\ day <= day'
    BY <1>12 DEF AddSamples, TrustTypes
  <2> QED
    BY <1>12, <2>1, <2>2, Elsewhere DEF AddSamples
<1>13. CASE PassDay
  <2>1. day' \in Nat /\ day <= day'
    BY <1>13 DEF PassDay, TrustTypes
  <2>2. evidence' \in [level : Levels, refs : 0 .. MaxSamples]
    BY <1>13 DEF PassDay, TrustTypes
  <2>3. /\ grants' = Counted /\ profile' = profile /\ pending' = pending /\ answers' = answers
        /\ event' = event /\ trustee' = trustee
    BY <1>13 DEF PassDay
  <2> QED
    BY <2>1, <2>2, <2>3, Elsewhere
<1> QED
  BY <1>1, <1>2, <1>3, <1>4, <1>5, <1>6, <1>7, <1>8, <1>9, <1>10, <1>11, <1>12, <1>13 DEF TrustNext

\* Only the gate sends a worker to work, and only when the trust holds.
LEMMA GateSteps ==
  ASSUME TrustInv, [TrustNext]_trustVars, NEW p \in TrustUsers,
         trustee[p].pc = "gating", trustee'[p].pc = "working"
  PROVE  RunWorker(p) /\ Delegated(trustee[p])
<1>1. trustee' # trustee
  OBVIOUS
<1>2. PICK q \in TrustUsers :
        \/ AskForTrust(q)
        \/ \E a \in Asks, choice \in Reviewed : ReviewTrust(q, a, choice)
        \/ \E a \in Asks : DecideTrust(q, a)
        \/ RecordAnswer(q) \/ SettleRequest(q)
        \/ \E days \in 1 .. MaxGrant, late \in BOOLEAN : WriteEvent(q, days, late)
        \/ \E scope \in SUBSET Paths \ {{}} : Inspect(q, scope)
        \/ RunWorker(q) \/ EndWork(q) \/ AbortTrust(q)
  BY <1>1 DEF TrustNext, trustVars, EditProfile, AddSamples, PassDay
<1>3. trustee \in [TrustUsers -> Commands]
  BY DEF TrustInv, TrustTypes
<1>4. q = p
  <2> SUFFICES ASSUME q # p PROVE FALSE
    OBVIOUS
  <2>1. trustee'[p] = trustee[p]
    BY <1>2, <1>3 DEF AskForTrust, ReviewTrust, DecideTrust, RecordAnswer, SettleRequest, WriteEvent,
                      Inspect, RunWorker, EndWork, AbortTrust, EnterTrust, Proceed
  <2> QED
    BY <2>1
<1>5. RunWorker(p)
  BY <1>2, <1>4 DEF AskForTrust, ReviewTrust, DecideTrust, RecordAnswer, SettleRequest, WriteEvent,
                    Inspect, EndWork, AbortTrust, EnterTrust, Proceed
<1>6. Delegated(trustee[p])
  <2> SUFFICES ASSUME ~Delegated(trustee[p]) PROVE FALSE
    OBVIOUS
  <2>1. trustee'[p] = Absent
    BY <1>3, <1>5 DEF RunWorker, Proceed
  <2> QED
    BY <2>1 DEF Absent
<1> QED
  BY <1>5, <1>6

\* Profile, requests, answers and the event on file keep their shapes, and an
\* event that can be read expires within 90 days of its answer and grants a level.
THEOREM TrustTypesOK == TrustSpec => []TrustTypeOK
<1>1. TrustInv => TrustTypeOK
  <2> SUFFICES ASSUME TrustInv PROVE TrustTypeOK
    OBVIOUS
  <2>1. ASSUME event # NoFile
        PROVE  /\ event.state \in Levels \cup {"demoted"} /\ event.hash \in Profiles
               /\ event.expires - event.at \in 1 .. MaxGrant
               /\ event.choice = "approve" => event.state # "none"
    <3>1. event \in Events /\ Quotes(event)
      BY <2>1 DEF TrustInv, TrustTypes, Backed
    <3>2. event.at \in Nat /\ event.expires \in Nat
      BY <3>1 DEF Events
    <3>3. event.expires - event.at \in 1 .. MaxGrant
      BY <3>1, <3>2, TrustShape DEF Quotes
    <3> QED
      BY <3>1, <3>3 DEF Events, Quotes
  <2>2. \A a \in Asks : answers[a] = NoFile \/ answers[a].choice \in TrustChoices
    BY DEF TrustInv, TrustTypes
  <2> QED
    BY <2>1, <2>2 DEF TrustTypeOK, TrustInv, TrustTypes
<1> QED
  BY <1>1, InitTrust, TrustStep, PTL DEF TrustSpec

\* The gate only delegates on a human approval that is still the answer on record,
\* whatever the number of commands, profiles, paths and days, and however reviews,
\* edits of the profile and kills interleave (evaluateWorkerTrustGate).
THEOREM Delegation == TrustSpec => DelegationIsReviewed
<1>1. ASSUME TrustInv, [TrustNext]_trustVars
      PROVE  [\A p \in TrustUsers : trustee[p].pc = "gating" /\ trustee'[p].pc = "working" =>
                /\ \E g \in grants.given :
                     /\ answers[g.ask] = [choice |-> "approve", at |-> g.at, event |-> TRUE]
                     /\ g.hash = trustee[p].hash /\ g.level = "delegated"
                     /\ day < g.at + MaxGrant
                     /\ ~grants.edited => trustee[p].scope \subseteq Ceiling[g.hash]
                /\ ~(grants.overlap \/ grants.killed \/ grants.rejected)
                     => grants.last = "approve"]_trustVars
  <2> SUFFICES ASSUME NEW p \in TrustUsers, trustee[p].pc = "gating", trustee'[p].pc = "working"
               PROVE  /\ \E g \in grants.given :
                           /\ answers[g.ask] = [choice |-> "approve", at |-> g.at, event |-> TRUE]
                           /\ g.hash = trustee[p].hash /\ g.level = "delegated"
                           /\ day < g.at + MaxGrant
                           /\ ~grants.edited => trustee[p].scope \subseteq Ceiling[g.hash]
                      /\ Orderly => grants.last = "approve"
    BY DEF Orderly
  <2>1. PICK t \in Commands : t = trustee[p]
    BY <1>1 DEF TrustInv, TrustTypes
  <2>2. t.pc = "gating" /\ t \in Executing
    BY <2>1 DEF Commands, Absent, Answering, Keeping, Granting, Executing
  <2>3. RunWorker(p) /\ Delegated(t)
    BY <1>1, <2>1, <2>2, GateSteps
  <2>4. t.event \in Events /\ Quotes(t.event)
    BY <1>1, <2>1, <2>2, <2>3 DEF Delegated, Executing, TrustInv, Backed, Holds
  <2>5. PICK e \in Events : e = t.event /\ Quotes(e)
    BY <2>4
  <2>6. e.choice = "approve" /\ e.level = "delegated" /\ e.hash = t.hash
    BY <2>3, <2>5 DEF Delegated, Quotes
  <2>7. /\ Approval(e) \in grants.given /\ Approval(e).ask = e.ask /\ Approval(e).at = e.at
        /\ Approval(e).hash = t.hash /\ Approval(e).level = "delegated"
    BY <2>5, <2>6 DEF Quotes, Approval
  <2>8. answers[e.ask] = [choice |-> "approve", at |-> e.at, event |-> TRUE]
    BY <2>3, <2>5, <2>6 DEF Delegated, OnRecord
  <2>9. day < e.at + MaxGrant
    <3>1. day < e.expires /\ e.expires <= e.at + MaxGrant
      BY <2>3, <2>5 DEF Delegated, Quotes
    <3>2. day \in Nat /\ e.expires \in Nat /\ e.at \in Nat /\ MaxGrant \in Nat
      BY <1>1, TrustShape DEF TrustInv, TrustTypes, Events
    <3> QED
      BY <3>1, <3>2
  <2>10. ~grants.edited => t.scope \subseteq Ceiling[t.hash]
    BY <2>3, <2>5, <2>6 DEF Delegated, Quotes
  <2>11. Orderly => grants.last = "approve"
    <3> SUFFICES ASSUME Orderly PROVE grants.last = "approve"
      OBVIOUS
    <3>1. trustee[p].event = event /\ (event # NoFile => grants.last = event.choice)
      BY <1>1, <2>1, <2>2, Alone DEF Writes
    <3>2. event # NoFile /\ event = e
      BY <2>1, <2>3, <2>5, <3>1 DEF Delegated
    <3> QED
      BY <2>6, <3>1, <3>2
  <2> QED
    BY <2>1, <2>7, <2>8, <2>9, <2>10, <2>11
<1> QED
  BY <1>1, InitTrust, TrustStep, PTL DEF TrustSpec, DelegationIsReviewed

\* An answer that says its event was written: it has been, or the command that
\* recorded the answer is about to write it.
Owing(a) == \E p \in TrustUsers : Writes(trustee[p]) /\ trustee[p].ask = a

Owed ==
  Orderly =>
    \A a \in Asks : answers[a] # NoFile /\ answers[a].event => a \in grants.written \/ Owing(a)

\* A step of one command that forgets no event it owes.
LEMMA OwedStep ==
  ASSUME TrustInv, Owed, NEW p \in TrustUsers, NEW to, trustee' = [trustee EXCEPT ![p] = to],
         answers' = answers, Orderly' => Orderly, grants.written \subseteq grants'.written,
         Orderly' /\ Writes(trustee[p]) =>
           \/ Writes(to) /\ to.ask = trustee[p].ask
           \/ trustee[p].ask \in grants'.written
  PROVE  Owed'
<1> SUFFICES ASSUME Orderly', NEW a \in Asks, answers[a] # NoFile, answers[a].event
             PROVE  a \in grants'.written \/ Owing(a)'
  BY DEF Owed
<1>1. trustee'[p] = to /\ \A q \in TrustUsers \ {p} : trustee'[q] = trustee[q]
  BY DEF TrustInv, TrustTypes
<1>2. a \in grants.written \/ Owing(a)
  BY DEF Owed
<1>3. CASE a \in grants.written
  BY <1>3
<1>4. ASSUME NEW q \in TrustUsers, Writes(trustee[q]), trustee[q].ask = a
      PROVE  a \in grants'.written \/ Owing(a)'
  <2>1. CASE q # p
    BY <1>1, <1>4, <2>1 DEF Owing, Writes
  <2>2. CASE q = p
    BY <1>1, <1>4, <2>2 DEF Owing, Writes
  <2> QED
    BY <2>1, <2>2
<1> QED
  BY <1>2, <1>3, <1>4 DEF Owing

LEMMA NextOwed ==
  ASSUME TrustInv, Owed, [TrustNext]_trustVars
  PROVE  Owed'
<1>0. trustee \in [TrustUsers -> Commands] /\ grants \in Logs
  BY DEF TrustInv, TrustTypes
<1>1. CASE UNCHANGED trustVars
  BY <1>1 DEF trustVars, Owed, Owing, Orderly, Writes
<1>2. ASSUME NEW p \in TrustUsers, NEW to, EnterTrust(p, to), answers' = answers
      PROVE  Owed'
  <2>1. /\ trustee' = [trustee EXCEPT ![p] = to] /\ grants' = Begun /\ trustee[p].pc = "absent"
    BY <1>2 DEF EnterTrust, Proceed
  <2>2. grants'.written = grants.written /\ (Orderly' => Orderly)
    BY <2>1, BegunLog DEF Orderly
  <2>3. ~Writes(trustee[p])
    BY <2>1 DEF Writes
  <2> QED
    BY <1>2, <2>1, <2>2, <2>3, OwedStep
<1>3. ASSUME NEW p \in TrustUsers,
             \/ AskForTrust(p)
             \/ \E a \in Asks, choice \in Reviewed : ReviewTrust(p, a, choice)
             \/ \E a \in Asks : DecideTrust(p, a)
             \/ \E scope \in SUBSET Paths \ {{}} : Inspect(p, scope)
      PROVE  Owed'
  <2>1. answers' = answers /\ \E to : EnterTrust(p, to)
    BY <1>3 DEF AskForTrust, ReviewTrust, DecideTrust, Inspect
  <2> QED
    BY <1>2, <2>1
<1>4. ASSUME NEW p \in TrustUsers, RecordAnswer(p)
      PROVE  Owed'
  <2> DEFINE t == trustee[p]
             to == trustee'[p]
  <2>1. PICK b \in Asks : b = t.ask
    BY <1>4 DEF RecordAnswer, TrustInv, TrustTypes
  <2>2. /\ t.pc = "answering"
        /\ answers' = [answers EXCEPT ![b] = [choice |-> t.choice, at |-> day,
                                              event |-> t.choice = "approve"]]
        /\ \A q \in TrustUsers \ {p} : trustee'[q] = trustee[q]
    BY <1>0, <1>4, <2>1 DEF RecordAnswer, Proceed
  <2>3. grants'.written = grants.written /\ (Orderly' => Orderly)
    BY <1>0, <1>4 DEF RecordAnswer, Logs, Orderly
  <2>4. t.choice \in Reviewed => Writes(to) /\ to.ask = b
    <3>1. t.choice \in Reviewed =>
            to = [pc |-> "settling", ask |-> t.ask, choice |-> t.choice, hash |-> t.hash,
                  level |-> t.level, at |-> day, scope |-> Ceiling[profile]]
      BY <1>0, <1>4 DEF RecordAnswer, Proceed
    <3> QED
      BY <2>1, <3>1 DEF Writes
  <2> HIDE DEF to
  <2> SUFFICES ASSUME Orderly', NEW a \in Asks, answers'[a] # NoFile, answers'[a].event
               PROVE  a \in grants'.written \/ Owing(a)'
    BY DEF Owed
  <2>5. CASE a = b
    <3>1. answers'[a].event = (t.choice = "approve")
      BY <2>2, <2>5 DEF TrustInv, TrustTypes
    <3>2. t.choice \in Reviewed
      BY <3>1 DEF Reviewed
    <3> QED
      BY <2>4, <2>5, <3>2 DEF Owing, Writes, to
  <2>6. CASE a # b
    <3>1. answers'[a] = answers[a]
      BY <2>2, <2>6 DEF TrustInv, TrustTypes
    <3>2. a \in grants.written \/ Owing(a)
      BY <2>3, <3>1 DEF Owed
    <3>3. \A q \in TrustUsers : Writes(trustee[q]) => q # p
      BY <2>2 DEF Writes
    <3> QED
      BY <2>2, <2>3, <3>2, <3>3 DEF Owing, Writes
  <2> QED
    BY <2>5, <2>6
<1>5. ASSUME NEW p \in TrustUsers, SettleRequest(p)
      PROVE  Owed'
  <2>1. PICK to : /\ trustee' = [trustee EXCEPT ![p] = to]
                  /\ to = IF trustee[p].choice \in Reviewed THEN Stage(p, "writing") ELSE Absent
    BY <1>5 DEF SettleRequest, Proceed
  <2>2. trustee[p] \in Commands
    BY <1>0
  <2>3. Writes(trustee[p]) => Writes(to) /\ to.ask = trustee[p].ask
    BY <2>1, <2>2 DEF Writes, Stage, Commands, Absent, Answering, Keeping, Granting, Executing
  <2>4. answers' = answers /\ grants' = grants
    BY <1>5 DEF SettleRequest
  <2> QED
    BY <2>1, <2>3, <2>4, OwedStep DEF Orderly
<1>6. ASSUME NEW p \in TrustUsers, NEW days \in 1 .. MaxGrant, NEW late \in BOOLEAN,
             WriteEvent(p, days, late)
      PROVE  Owed'
  <2>1. trustee' = [trustee EXCEPT ![p] = Absent] /\ answers' = answers
    BY <1>6 DEF WriteEvent, Proceed
  <2>2. \/ grants' = [grants EXCEPT !.written = @ \cup {trustee[p].ask}]
        \/ grants' = [grants EXCEPT !.killed = TRUE]
        \/ grants' = [grants EXCEPT !.rejected = TRUE]
    BY <1>6 DEF WriteEvent
  <2>3. /\ grants.written \subseteq grants'.written /\ (Orderly' => Orderly)
        /\ Orderly' => trustee[p].ask \in grants'.written
    BY <1>0, <2>2 DEF Logs, Orderly
  <2> QED
    BY <2>1, <2>3, OwedStep
<1>7. ASSUME NEW p \in TrustUsers, RunWorker(p) \/ EndWork(p)
      PROVE  Owed'
  <2>1. PICK to : trustee' = [trustee EXCEPT ![p] = to]
    BY <1>7 DEF RunWorker, EndWork, Proceed
  <2>2. ~Writes(trustee[p]) /\ answers' = answers /\ grants' = grants
    BY <1>7 DEF RunWorker, EndWork, Proceed, Writes
  <2> QED
    BY <2>1, <2>2, OwedStep DEF Orderly
<1>8. ASSUME NEW p \in TrustUsers, AbortTrust(p)
      PROVE  Owed'
  <2>1. grants'.killed
    BY <1>0, <1>8 DEF AbortTrust, Logs
  <2> QED
    BY <2>1 DEF Owed, Orderly
<1>9. CASE \/ \E content \in Profiles \cup {NoFile} : EditProfile(content)
           \/ \E level \in Levels : AddSamples(level)
           \/ PassDay
  <2>1. UNCHANGED <<answers, trustee>>
    BY <1>9 DEF EditProfile, AddSamples, PassDay
  <2>2. grants'.written = grants.written /\ (Orderly' => Orderly)
    BY <1>0, <1>9 DEF EditProfile, AddSamples, PassDay, Counted, Logs, Orderly
  <2> QED
    BY <2>1, <2>2 DEF Owed, Owing, Writes
<1> QED
  BY <1>1, <1>3, <1>4, <1>5, <1>6, <1>7, <1>8, <1>9 DEF TrustNext

\* The refusal of a grant for 90 days after its answer is on record is the only
\* way to an answer that says its event was written when it is not: as long as
\* none is refused, and the commands neither overlap nor are killed, every such
\* answer has its event or a review that is about to write it.
THEOREM GrantsAreWritten == TrustSpec /\ []~grants.rejected => []RecordedGrantsAreWritten
<1>1. TrustInit => Owed
  <2> SUFFICES ASSUME TrustInit, NEW a \in Asks, answers[a] # NoFile
               PROVE  a \in grants.written
    BY DEF Owed
  <2>1. PICK promoted \in BOOLEAN :
          /\ answers = [b \in Asks |-> IF promoted /\ b = Candidate
                                       THEN [choice |-> "approve", at |-> 0, event |-> TRUE]
                                       ELSE NoFile]
          /\ grants.written = {b \in Asks : promoted /\ b = Candidate}
    BY DEF TrustInit
  <2> QED
    BY <2>1
<1>2. Owed /\ ~grants.rejected => RecordedGrantsAreWritten
  BY DEF Owed, Orderly, Owing, Writes, RecordedGrantsAreWritten
<1> QED
  BY <1>1, <1>2, InitTrust, TrustStep, NextOwed, PTL DEF TrustSpec

-----------------------------------------------------------------------------
(***************************************************************************)
(* Collaboration.  A command works on a copy of the file, and the watch on *)
(* another: what is said of the file is said of every copy of it.          *)
(***************************************************************************)

State == [session : SessionIds \cup {NoSession}, sessions : SUBSET Plans,
          leases : SUBSET Lease, acks : SUBSET Ack]

Phases   == {"calling", "saving"}
Guarding == [pc : {"calling"}, kind : {"guard"}, held : State,
             scope : Scopes, enforce : BOOLEAN, ack : BOOLEAN]
Running  == [pc : Phases, kind : {"start", "releaseAll", "releaseOne"}, held : State]
Claiming == [pc : Phases, kind : {"claim"}, held : State, resource : Resources]
Planning == [pc : Phases, kind : {"startPlan", "releasePlan"}, held : State, plan : Plans]

Active  == Guarding \cup Running \cup Claiming \cup Planning
Watches == [on : {TRUE}, held : State, target : SUBSET Resources, due : BOOLEAN, calm : BOOLEAN]
Uses    == [n : Nat, scope : Scopes, finding : Findings, at : Nat]

CollabLogs == [mix : Alphabets, commands : Nat, ids : Nat, given : SUBSET Ack, used : SUBSET Uses,
               reused : BOOLEAN, overlap : BOOLEAN, lost : BOOLEAN]

CollabTypes ==
  /\ shared \in State /\ caller \in [Callers -> {Free} \cup Active]
  /\ watch \in {[on |-> FALSE]} \cup Watches
  /\ hosted \in SUBSET Lease /\ now \in Nat /\ log \in CollabLogs

\* Leases of one claim agree on all but their resource.
Twins(k, l) == k.session = l.session /\ k.life = l.life /\ k.claimed = l.claimed

\* A copy of the file, whoever holds it: what it says of a lease is what the
\* service said when it was claimed, and its acknowledgements were given.
Sound(s) ==
  /\ s.acks \subseteq log.given
  /\ \A p \in Plans : s.session = PlanSession(p) => p \in s.sessions
  /\ \A l \in s.leases :
       /\ l.id <= log.ids /\ l.claimed <= now /\ l.expires = l.claimed + l.life
       /\ \A p \in Plans : l.session = PlanSession(p) => p \in s.sessions
       /\ l.id # 0 => \A k \in hosted \cup s.leases : k.id = l.id => Twins(k, l)

SoundCopies ==
  /\ Sound(shared)
  /\ \A c \in Callers : caller[c] # Free => Sound(caller[c].held)
  /\ watch.on => Sound(watch.held)

HostedOK ==
  \A k \in hosted :
    /\ 1 <= k.id /\ k.id <= log.ids /\ k.claimed <= now
    /\ k.claimed + k.life <= k.expires /\ now < k.expires

\* The acknowledgements given are numbered, and each use quotes one.
AcksOK ==
  /\ IsFiniteSet(log.given)
  /\ \A g \in log.given :
       /\ 1 <= g.n /\ g.n <= Cardinality(log.given)
       /\ g.expires <= now + AckLife
       /\ \A h \in log.given : g.n = h.n => g = h
  /\ \A u \in log.used : \E g \in log.given :
       /\ g.n = u.n /\ g.scope = u.scope /\ g.finding = u.finding
       /\ u.at < g.expires /\ g.expires <= u.at + AckLife

Unused(s) == \A a \in s.acks : \A u \in log.used : a.n # u.n

\* While nothing overlaps, one process at most holds a copy, and none of the
\* copies has an acknowledgement that was used.
NoOverlap ==
  ~log.overlap =>
    /\ \A c, d \in Callers : caller[c] # Free /\ caller[d] # Free => c = d
    /\ watch.on => \A c \in Callers : caller[c] = Free
    /\ Unused(shared)
    /\ \A c \in Callers : caller[c] # Free => Unused(caller[c].held)
    /\ watch.on => Unused(watch.held)
    /\ ~log.reused

Copied(k, l) == k.id = l.id /\ k.resource = l.resource

\* A copy agrees with the service on every lease within its first life.
Agrees(s) ==
  /\ \A l \in s.leases : l.id # 0 /\ now < l.expires => \E k \in hosted : Copied(k, l)
  /\ \A k \in hosted : now < k.claimed + k.life => \E l \in s.leases : Copied(k, l)

\* A hosted lease lasts until the next tick of the watch.
Lasts(k) == watch.due \/ now + 1 < k.expires

Covered ==
  /\ \A l \in watch.held.leases : l.id # 0 => \E k \in hosted : Copied(k, l) /\ Lasts(k)
  /\ \A r \in watch.target : \E k \in hosted : k.resource = r /\ Lasts(k)

Ended(p) == \A k \in hosted : k.session = PlanSession(p) => k.claimed + k.life <= now

Sure == ~log.lost /\ ~log.overlap

NothingLost ==
  Sure =>
    /\ (\A c \in Callers : caller[c].pc # "saving") => Agrees(shared)
    /\ \A c \in Callers : caller[c] # Free => Agrees(caller[c].held)
    /\ watch.on => Agrees(watch.held) /\ (watch.calm => Covered)
    /\ \A c \in Callers : caller[c].pc = "saving" /\ caller[c].kind = "releasePlan" =>
         Ended(caller[c].plan)

CollabInv == CollabTypes /\ SoundCopies /\ HostedOK /\ AcksOK /\ NoOverlap /\ NothingLost

LEMMA SessionsDiffer ==
  /\ \A p \in Plans : /\ PlanSession(p) \in SessionIds /\ LocalSession(p) \in SessionIds
                      /\ PlanSession(p) # CheckoutSession /\ PlanSession(p) # NoSession
  /\ \A p, q \in Plans : PlanSession(p) # LocalSession(q) /\ (PlanSession(p) = PlanSession(q) => p = q)
  /\ CheckoutSession \in SessionIds /\ CheckoutSession # NoSession
<1>1. \A p \in Plans : PlanSession(p) \in SessionIds /\ LocalSession(p) \in SessionIds
  BY DEF PlanSession, LocalSession, SessionIds
<1>2. \A p : PlanSession(p) # CheckoutSession /\ PlanSession(p) # NoSession
  <2> TAKE p
  <2>1. Len(<<p, "hosted">>) = 2 /\ Len(<<"checkout">>) = 1 /\ Len(<< >>) = 0
    OBVIOUS
  <2> QED
    BY <2>1 DEF PlanSession, CheckoutSession, NoSession
<1>3. \A p, q : PlanSession(p) # LocalSession(q) /\ (PlanSession(p) = PlanSession(q) => p = q)
  BY DEF PlanSession, LocalSession
<1>4. CheckoutSession \in SessionIds /\ CheckoutSession # NoSession
  <2>1. Len(<<"checkout">>) = 1 /\ Len(<< >>) = 0
    OBVIOUS
  <2> QED
    BY <2>1 DEF CheckoutSession, SessionIds, NoSession
<1> QED
  BY <1>1, <1>2, <1>3, <1>4

\* Loading and saving drop leases and acknowledgements, and nothing else.
Lessened(s, t) ==
  /\ t \in State /\ t.session = s.session /\ t.sessions = s.sessions
  /\ t.leases \subseteq s.leases /\ t.acks \subseteq s.acks

LEMMA UnexpiredLessens ==
  ASSUME NEW s \in State
  PROVE  /\ Lessened(s, Unexpired(s))
         /\ Unexpired(s).leases = {l \in s.leases : l.expires > now}
         /\ Unexpired(s).acks = {a \in s.acks : a.expires > now}
<1>1. PICK ls : ls = {l \in s.leases : l.expires > now}
  OBVIOUS
<1>2. PICK acks : acks = {a \in s.acks : a.expires > now}
  OBVIOUS
<1>3. Unexpired(s) = [s EXCEPT !.leases = ls, !.acks = acks]
  BY <1>1, <1>2 DEF Unexpired, State
<1>4. ls \subseteq s.leases /\ acks \subseteq s.acks
  BY <1>1, <1>2
<1> QED
  BY <1>1, <1>2, <1>3, <1>4 DEF Lessened, State

LEMMA SoundLessened ==
  ASSUME NEW s \in State, NEW t, Sound(s), Lessened(s, t)
  PROVE  Sound(t)
BY DEF Sound, Lessened

LEMMA SessionAdded ==
  ASSUME NEW s \in State, Sound(s)
  PROVE  /\ WithSession(s) \in State /\ Sound(WithSession(s)) /\ WithSession(s).session # NoSession
         /\ WithSession(s).leases = s.leases /\ WithSession(s).acks = s.acks
         /\ WithSession(s).sessions = s.sessions
<1>1. CASE s.session # NoSession
  BY <1>1 DEF WithSession
<1>2. CASE s.session = NoSession
  <2>1. PICK t : t = [s EXCEPT !.session = CheckoutSession]
    OBVIOUS
  <2>2. WithSession(s) = t
    BY <1>2, <2>1 DEF WithSession
  <2>3. /\ t \in State /\ t.session = CheckoutSession /\ t.sessions = s.sessions
        /\ t.leases = s.leases /\ t.acks = s.acks
    BY <2>1, SessionsDiffer DEF State
  <2>4. Sound(t)
    BY <2>3, SessionsDiffer DEF Sound
  <2> QED
    BY <2>2, <2>3, <2>4, SessionsDiffer
<1> QED
  BY <1>1, <1>2

\* The service makes leases under new numbers only, and time goes on.
Later ==
  /\ log.given \subseteq log'.given /\ log.ids <= log'.ids /\ now <= now'
  /\ log.ids \in Nat /\ log'.ids \in Nat /\ now' \in Nat /\ now \in Nat
  /\ \A k \in hosted' : \/ \E h \in hosted : h.id = k.id /\ Twins(h, k)
                        \/ log.ids < k.id /\ k.id \in Nat

LEMMA SoundLater ==
  ASSUME NEW s \in State, Sound(s), Later, HostedOK
  PROVE  Sound(s)'
<1>1. ASSUME NEW l \in s.leases
      PROVE  /\ l.id <= log'.ids /\ l.claimed <= now' /\ l.expires = l.claimed + l.life
             /\ \A p \in Plans : l.session = PlanSession(p) => p \in s.sessions
             /\ l.id # 0 => \A k \in hosted' \cup s.leases : k.id = l.id => Twins(k, l)
  <2>1. l \in Lease /\ l.id \in Nat /\ l.claimed \in Nat
    BY DEF State, Lease
  <2>2. l.id <= log'.ids /\ l.claimed <= now'
    BY <2>1 DEF Sound, Later
  <2>3. ASSUME l.id # 0, NEW k \in hosted', k.id = l.id PROVE Twins(k, l)
    <3>1. l.id <= log.ids
      BY DEF Sound
    <3>2. PICK h \in hosted : h.id = k.id /\ Twins(h, k)
      BY <2>1, <2>3, <3>1 DEF Later
    <3>3. Twins(h, l)
      BY <2>3, <3>2 DEF Sound
    <3> QED
      BY <3>2, <3>3 DEF Twins
  <2> QED
    BY <2>2, <2>3 DEF Sound
<1> QED
  BY <1>1 DEF Sound, Later

\* A call of the service: its leases are those of one fresh number.
LEMMA ClaimsAre ==
  ASSUME NEW rs \in SUBSET Resources, NEW id \in Nat, NEW session \in SessionIds,
         NEW life \in {PlanLeaseLife, WatchLeaseLife}, now \in Nat
  PROVE  /\ Claims(rs, id, session, life) \in SUBSET Lease
         /\ \A l \in Claims(rs, id, session, life) :
              /\ l.id = id /\ l.session = session /\ l.life = life /\ l.claimed = now
              /\ l.expires = now + life /\ l.resource \in rs
         /\ \A r \in rs : \E l \in Claims(rs, id, session, life) : l.resource = r
<1>1. life \in Nat /\ now + life \in Nat
  BY CollaborationShape
<1>2. PICK n : n = now + life
  OBVIOUS
<1>3. Claims(rs, id, session, life) =
        [id : {id}, resource : rs, session : {session}, life : {life}, claimed : {now}, expires : {n}]
  BY <1>2 DEF Claims
<1>4. Claims(rs, id, session, life) \in SUBSET Lease
  BY <1>1, <1>2, <1>3 DEF Lease
<1>5. \A l \in Claims(rs, id, session, life) :
        /\ l.id = id /\ l.session = session /\ l.life = life /\ l.claimed = now
        /\ l.expires = now + life /\ l.resource \in rs
  BY <1>2, <1>3
<1>6. ASSUME NEW r \in rs PROVE \E l \in Claims(rs, id, session, life) : l.resource = r
  <2>1. PICK l : l = [id |-> id, resource |-> r, session |-> session, life |-> life,
                      claimed |-> now, expires |-> n]
    OBVIOUS
  <2> QED
    BY <1>3, <2>1
<1> QED
  BY <1>4, <1>5, <1>6

-----------------------------------------------------------------------------

ByItself(c) == (\A d \in Callers \ {c} : caller[d] = Free) /\ ~watch.on

LEMMA ActiveIsNotFree ==
  /\ \A t \in Active : t.pc \in Phases /\ t # Free /\ t.held \in State
  /\ Free.pc = "free" /\ "free" \notin Phases
  /\ \A t \in {Free} \cup Active : t # Free <=> t.pc \in Phases
<1>1. Free.pc = "free" /\ "free" \notin Phases
  BY DEF Free, Phases
<1>2. \A t \in Active : t.pc \in Phases /\ t.held \in State
  BY DEF Active, Guarding, Running, Claiming, Planning, Phases
<1> QED
  BY <1>1, <1>2

LEMMA WatchIs ==
  \A w \in {[on |-> FALSE]} \cup Watches :
    /\ w.on => w \in Watches /\ w.held \in State /\ w.target \subseteq Resources
    /\ w \in Watches => w.on
<1>1. \A w \in Watches : w.on = TRUE /\ w.held \in State /\ w.target \subseteq Resources
  BY DEF Watches
<1>2. [on |-> FALSE].on = FALSE
  OBVIOUS
<1> QED
  BY <1>1, <1>2

LEMMA CallersAre ==
  ASSUME CollabInv, NEW c \in Callers
  PROVE  /\ caller[c] \in {Free} \cup Active
         /\ caller[c] # Free <=> caller[c].pc \in Phases
         /\ caller[c].pc \in Phases => /\ caller[c] \in Active /\ caller[c].held \in State
                                       /\ Sound(caller[c].held)
         /\ ~log.overlap /\ caller[c].pc \in Phases =>
              /\ ByItself(c) /\ Unused(caller[c].held) /\ Unused(shared) /\ ~log.reused
         /\ Sure /\ caller[c].pc \in Phases => Agrees(caller[c].held)
         /\ Sure /\ caller[c].pc = "calling" => Agrees(shared)
<1>1. caller[c] \in {Free} \cup Active
  BY DEF CollabInv, CollabTypes
<1>2. caller[c] # Free <=> caller[c].pc \in Phases
  BY <1>1, ActiveIsNotFree
<1>3. caller[c].pc \in Phases => caller[c] \in Active /\ caller[c].held \in State /\ Sound(caller[c].held)
  BY <1>1, <1>2, ActiveIsNotFree DEF CollabInv, SoundCopies
<1>4. ASSUME ~log.overlap, caller[c].pc \in Phases
      PROVE  ByItself(c) /\ Unused(caller[c].held) /\ Unused(shared) /\ ~log.reused
  BY <1>2, <1>4 DEF CollabInv, NoOverlap, ByItself
<1>5. ASSUME Sure, caller[c].pc \in Phases PROVE Agrees(caller[c].held)
  BY <1>2, <1>5 DEF CollabInv, NothingLost
<1>6. ASSUME Sure, caller[c].pc = "calling" PROVE Agrees(shared)
  <2>1. ByItself(c)
    BY <1>4, <1>6 DEF Sure, Phases
  <2>2. \A d \in Callers : caller[d].pc # "saving"
    BY <1>6, <2>1, ActiveIsNotFree DEF ByItself
  <2> QED
    BY <1>6, <2>2 DEF CollabInv, NothingLost
<1> QED
  BY <1>1, <1>2, <1>3, <1>4, <1>5, <1>6

\* What a step of one command has to keep.
Keeps(c, to) ==
  /\ to \in {Free} \cup Active /\ caller' = [caller EXCEPT ![c] = to] /\ watch' = watch
  /\ shared' \in State /\ hosted' \in SUBSET Lease /\ log' \in CollabLogs /\ now' = now
  /\ Later /\ HostedOK' /\ AcksOK'
  /\ Sound(shared)'

KeepsCopy(to) == to # Free => Sound(to.held)'

KeepsOrder(c, to) ==
  ~log'.overlap =>
    /\ ByItself(c) /\ Unused(shared)' /\ ~log'.reused
    /\ to # Free => Unused(to.held)'

KeepsTrue(c, to) ==
  Sure' =>
    /\ to.pc # "saving" => Agrees(shared)'
    /\ to # Free => Agrees(to.held)'
    /\ to.pc = "saving" /\ to.kind = "releasePlan" => Ended(to.plan)'

LEMMA CommandKeeps ==
  ASSUME CollabInv, NEW c \in Callers, NEW to, Keeps(c, to), KeepsCopy(to),
         KeepsOrder(c, to), KeepsTrue(c, to)
  PROVE  CollabInv'
<1>1. /\ caller'[c] = to /\ \A d \in Callers \ {c} : caller'[d] = caller[d]
      /\ caller' \in [Callers -> {Free} \cup Active] /\ to \in {Free} \cup Active
  BY DEF Keeps, CollabInv, CollabTypes
<1>2. CollabTypes'
  BY <1>1 DEF Keeps, CollabInv, CollabTypes
<1>3. ASSUME NEW d \in Callers, caller'[d] # Free PROVE Sound(caller[d].held)'
  <2>1. CASE d = c
    BY <1>1, <1>3, <2>1 DEF KeepsCopy
  <2>2. CASE d # c
    <3>1. caller[d] # Free /\ caller'[d] = caller[d]
      BY <1>1, <1>3, <2>2
    <3>2. PICK s \in State : s = caller[d].held
      BY <3>1, CallersAre
    <3>3. Sound(s)
      BY <3>1, <3>2, CallersAre
    <3>4. Sound(s)'
      BY <3>3, SoundLater DEF CollabInv, Keeps
    <3> QED
      BY <3>1, <3>2, <3>4
  <2> QED
    BY <2>1, <2>2
<1>4. ASSUME watch'.on PROVE Sound(watch.held)'
  <2>1. PICK s \in State : s = watch.held
    BY <1>4, WatchIs DEF Keeps, CollabInv, CollabTypes
  <2>2. Sound(s)'
    BY <1>4, <2>1, SoundLater DEF CollabInv, Keeps, SoundCopies
  <2> QED
    BY <2>1, <2>2 DEF Keeps
<1>5. SoundCopies'
  BY <1>3, <1>4 DEF SoundCopies, Keeps
<1>6. NoOverlap'
  <2> SUFFICES ASSUME ~log'.overlap PROVE NoOverlap'
    BY DEF NoOverlap
  <2>1. ~watch'.on /\ \A d \in Callers : caller'[d] # Free => d = c
    BY <1>1 DEF KeepsOrder, ByItself, Keeps
  <2>2. Unused(shared)' /\ ~log'.reused /\ (to # Free => Unused(to.held)')
    BY DEF KeepsOrder
  <2> QED
    BY <1>1, <2>1, <2>2 DEF NoOverlap
<1>7. NothingLost'
  <2> SUFFICES ASSUME Sure' PROVE NothingLost'
    BY DEF NothingLost
  <2>1. ~watch'.on /\ \A d \in Callers : caller'[d] # Free => d = c
    BY <1>1 DEF KeepsOrder, ByItself, Keeps, Sure
  <2>2. \A d \in Callers : caller'[d].pc = "saving" => d = c
    BY <1>1, <2>1, ActiveIsNotFree DEF Phases
  <2>3. /\ to.pc # "saving" => Agrees(shared)'
        /\ to # Free => Agrees(to.held)'
        /\ to.pc = "saving" /\ to.kind = "releasePlan" => Ended(to.plan)'
    BY DEF KeepsTrue
  <2> QED
    BY <1>1, <2>1, <2>2, <2>3 DEF NothingLost
<1> QED
  BY <1>2, <1>5, <1>6, <1>7 DEF CollabInv, Keeps

-----------------------------------------------------------------------------

\* A command begins, or a watch: the log counts it, and says what it overlaps.
LEMMA LogBegins ==
  ASSUME log \in CollabLogs, NEW o \in BOOLEAN,
         log' = [log EXCEPT !.commands = @ + 1, !.overlap = @ \/ o]
  PROVE  /\ log' \in CollabLogs /\ log'.ids = log.ids /\ log'.given = log.given
         /\ log'.used = log.used /\ log'.reused = log.reused /\ log'.lost = log.lost
         /\ ~log'.overlap => ~log.overlap /\ ~o
<1>1. PICK g \in CollabLogs : g = log
  OBVIOUS
<1>2. PICK n \in BOOLEAN : n = (g.overlap \/ o)
  OBVIOUS
<1>3. PICK m \in Nat : m = g.commands + 1
  BY DEF CollabLogs
<1>4. log' = [g EXCEPT !.commands = m, !.overlap = n]
  BY <1>1, <1>2, <1>3 DEF CollabLogs
<1>5. PICK t : t = [g EXCEPT !.commands = m, !.overlap = n]
  OBVIOUS
<1>6. t \in CollabLogs /\ t.overlap = n
  BY <1>5 DEF CollabLogs
<1>7. log' = t
  BY <1>4, <1>5
<1>8. /\ log'.ids = g.ids /\ log'.given = g.given /\ log'.used = g.used /\ log'.reused = g.reused
      /\ log'.lost = g.lost
  BY <1>4 DEF CollabLogs
<1>9. ~log'.overlap => ~log.overlap /\ ~o
  BY <1>1, <1>2, <1>6, <1>7
<1> QED
  BY <1>1, <1>6, <1>7, <1>8, <1>9

\* The service is called, or a call is lost.
LEMMA LogCalls ==
  ASSUME log \in CollabLogs, NEW n \in Nat, NEW o \in BOOLEAN,
         log' = [log EXCEPT !.ids = n, !.lost = @ \/ o]
  PROVE  /\ log' \in CollabLogs /\ log'.ids = n /\ log'.given = log.given
         /\ log'.used = log.used /\ log'.reused = log.reused /\ log'.overlap = log.overlap
         /\ ~log'.lost => ~log.lost /\ ~o
<1>1. PICK g \in CollabLogs : g = log
  OBVIOUS
<1>2. PICK m \in BOOLEAN : m = (g.lost \/ o)
  OBVIOUS
<1>3. log' = [g EXCEPT !.ids = n, !.lost = m]
  BY <1>1, <1>2 DEF CollabLogs
<1>4. PICK t : t = [g EXCEPT !.ids = n, !.lost = m]
  OBVIOUS
<1>5. t \in CollabLogs /\ t.lost = m
  BY <1>4 DEF CollabLogs
<1>6. log' = t
  BY <1>3, <1>4
<1>7. /\ log'.ids = n /\ log'.given = g.given /\ log'.used = g.used /\ log'.reused = g.reused
      /\ log'.overlap = g.overlap
  BY <1>3 DEF CollabLogs
<1>8. ~log'.lost => ~log.lost /\ ~o
  BY <1>1, <1>2, <1>5, <1>6
<1> QED
  BY <1>1, <1>5, <1>6, <1>7, <1>8

\* The service does nothing, and nothing is acknowledged.
Quiet ==
  /\ hosted' = hosted /\ now' = now /\ log'.ids = log.ids
  /\ log'.given = log.given /\ log'.used = log.used

LEMMA QuietKeeps ==
  ASSUME CollabInv, Quiet
  PROVE  /\ Later /\ HostedOK' /\ AcksOK' /\ hosted' \in SUBSET Lease
         /\ \A s \in State : /\ Sound(s) => Sound(s)'
                             /\ Unused(s) => Unused(s)'
                             /\ Agrees(s) => Agrees(s)'
<1>1. log \in CollabLogs /\ hosted' \in SUBSET Lease /\ log.ids \in Nat /\ now \in Nat
  BY DEF CollabInv, CollabTypes, CollabLogs, Quiet
<1>2. Later
  BY <1>1 DEF Later, Quiet, Twins
<1>3. HostedOK' /\ AcksOK'
  BY DEF Quiet, HostedOK, AcksOK, CollabInv
<1>4. \A s \in State : Sound(s) => Sound(s)'
  BY <1>2, SoundLater DEF CollabInv
<1>5. \A s \in State : (Unused(s) => Unused(s)') /\ (Agrees(s) => Agrees(s)')
  BY DEF Quiet, Unused, Agrees
<1> QED
  BY <1>1, <1>2, <1>3, <1>4, <1>5

\* What a save leaves of a copy that agrees.
LEMMA UnexpiredAgrees ==
  ASSUME CollabInv, NEW s \in State, Sound(s)
  PROVE  /\ Unexpired(s) \in State /\ Sound(Unexpired(s))
         /\ Unused(s) => Unused(Unexpired(s))
         /\ Agrees(s) => Agrees(Unexpired(s))
<1>1. PICK u : u = Unexpired(s)
  OBVIOUS
<1>2. Lessened(s, u) /\ u.leases = {l \in s.leases : l.expires > now}
  BY <1>1, UnexpiredLessens
<1>3. u \in State /\ Sound(u) /\ (Unused(s) => Unused(u))
  BY <1>2, SoundLessened DEF Lessened, Unused
<1>4. ASSUME Agrees(s) PROVE Agrees(u)
  <2>1. ASSUME NEW l \in u.leases, l.id # 0, now < l.expires PROVE \E k \in hosted : Copied(k, l)
    BY <1>2, <1>4, <2>1 DEF Agrees
  <2>2. ASSUME NEW k \in hosted, now < k.claimed + k.life PROVE \E l \in u.leases : Copied(k, l)
    <3>1. PICK l \in s.leases : Copied(k, l)
      BY <1>4, <2>2 DEF Agrees
    <3>2. k \in Lease /\ l \in Lease /\ 1 <= k.id
      BY DEF CollabInv, CollabTypes, HostedOK, State
    <3>3. l.id # 0
      BY <3>1, <3>2 DEF Copied, Lease
    <3>4. Twins(k, l) /\ l.expires = l.claimed + l.life
      BY <3>1, <3>3 DEF Sound, Copied
    <3>5. l.expires > now
      BY <2>2, <3>2, <3>4 DEF Twins, CollabInv, CollabTypes, Lease
    <3> QED
      BY <1>2, <3>1, <3>5
  <2> QED
    BY <2>1, <2>2 DEF Agrees
<1> QED
  BY <1>1, <1>3, <1>4

\* A command loads the file.
LEMMA Begins ==
  ASSUME CollabInv, NEW c \in Callers, NEW to \in Active, to.pc = "calling", to.held = Loaded,
         Load(c, to)
  PROVE  CollabInv'
<1>1. /\ caller' = [caller EXCEPT ![c] = to] /\ caller[c].pc = "free" /\ watch' = watch
      /\ shared' = shared /\ hosted' = hosted /\ now' = now
  BY DEF Load, Call
<1>2. PICK o \in BOOLEAN : o = Busy(c)
  BY DEF Busy
<1>3. log' = [log EXCEPT !.commands = @ + 1, !.overlap = @ \/ o]
  BY <1>2 DEF Load
<1>4. /\ log' \in CollabLogs /\ log'.ids = log.ids /\ log'.given = log.given
      /\ log'.used = log.used /\ log'.reused = log.reused /\ log'.lost = log.lost
      /\ ~log'.overlap => ~log.overlap /\ ~o
  BY <1>3, LogBegins DEF CollabInv, CollabTypes
<1>5. Quiet
  BY <1>1, <1>4 DEF Quiet
<1>6. shared \in State /\ Sound(shared)
  BY DEF CollabInv, CollabTypes, SoundCopies
<1>7. PICK u : u = Loaded
  OBVIOUS
<1>8. /\ u \in State /\ Sound(u) /\ (Unused(shared) => Unused(u)) /\ (Agrees(shared) => Agrees(u))
      /\ to.held = u
  BY <1>6, <1>7, UnexpiredAgrees DEF Loaded
<1>9. Keeps(c, to)
  <2>1. Sound(shared)'
    BY <1>1, <1>5, <1>6, QuietKeeps
  <2> QED
    BY <1>1, <1>4, <1>5, <1>6, <2>1, QuietKeeps DEF Keeps
<1>10. KeepsCopy(to)
  BY <1>5, <1>8, QuietKeeps DEF KeepsCopy
<1>11. ASSUME ~log'.overlap
       PROVE  /\ \A d \in Callers : caller[d] = Free
              /\ ~watch.on /\ Unused(shared) /\ ~log.reused
  <2>1. ~log.overlap /\ ~watch.on /\ {d \in Callers \ {c} : caller[d].pc # "free"} = {}
    BY <1>2, <1>4, <1>11 DEF Busy
  <2>2. \A d \in Callers : caller[d].pc = "free"
    BY <1>1, <2>1
  <2>3. \A d \in Callers : caller[d] = Free
    BY <2>2, CallersAre DEF Phases
  <2> QED
    BY <2>1, <2>3 DEF CollabInv, NoOverlap
<1>12. KeepsOrder(c, to)
  <2> SUFFICES ASSUME ~log'.overlap
               PROVE  ByItself(c) /\ Unused(shared)' /\ ~log'.reused /\ Unused(to.held)'
    BY DEF KeepsOrder
  <2>1. Unused(shared) /\ Unused(u)
    BY <1>8, <1>11
  <2>2. Unused(shared)' /\ Unused(u)'
    BY <1>1, <1>5, <1>6, <1>8, <2>1, QuietKeeps
  <2> QED
    BY <1>4, <1>8, <1>11, <2>2 DEF ByItself
<1>13. KeepsTrue(c, to)
  <2> SUFFICES ASSUME Sure'
               PROVE  Agrees(shared)' /\ Agrees(to.held)'
    BY DEF KeepsTrue
  <2>1. Agrees(shared)
    BY <1>4, <1>11, ActiveIsNotFree DEF Sure, CollabInv, NothingLost
  <2>2. Agrees(shared)' /\ Agrees(u)'
    BY <1>1, <1>5, <1>6, <1>8, <2>1, QuietKeeps
  <2> QED
    BY <1>8, <2>2
<1> QED
  BY <1>9, <1>10, <1>12, <1>13, CommandKeeps

-----------------------------------------------------------------------------

\* A command saves a copy with the leases it holds, and not more acknowledgements.
LEMMA Saves ==
  ASSUME CollabInv, NEW c \in Callers, caller[c].pc \in Phases, NEW s \in State, Sound(s),
         s.leases = caller[c].held.leases, s.acks \subseteq caller[c].held.acks, Save(s),
         NEW to \in {Free} \cup Active, to # Free => to.held = s /\ to.pc # "saving",
         caller' = [caller EXCEPT ![c] = to], UNCHANGED <<watch, hosted, now, log>>
  PROVE  CollabInv'
<1>1. Quiet /\ log' = log /\ log' \in CollabLogs
  BY DEF Quiet, CollabInv, CollabTypes
<1>2. PICK u : u = Unexpired(s)
  OBVIOUS
<1>3. shared' = u
  BY <1>2 DEF Save
<1>4. u \in State /\ Sound(u) /\ (Unused(s) => Unused(u)) /\ (Agrees(s) => Agrees(u))
  BY <1>2, UnexpiredAgrees
<1>5. Sound(u)' /\ Sound(s)'
  BY <1>1, <1>4, QuietKeeps
<1>6. Keeps(c, to)
  BY <1>1, <1>3, <1>4, <1>5, QuietKeeps DEF Keeps
<1>7. KeepsCopy(to)
  BY <1>5 DEF KeepsCopy
<1>8. KeepsOrder(c, to)
  <2> SUFFICES ASSUME ~log'.overlap
               PROVE  ByItself(c) /\ Unused(shared)' /\ ~log'.reused /\ (to # Free => Unused(to.held)')
    BY DEF KeepsOrder
  <2>1. ByItself(c) /\ Unused(caller[c].held) /\ ~log.reused
    BY <1>1, CallersAre
  <2>2. Unused(s) /\ Unused(u)
    BY <1>4, <2>1 DEF Unused
  <2>3. Unused(s)' /\ Unused(u)'
    BY <1>1, <1>4, <2>2, QuietKeeps
  <2> QED
    BY <1>1, <1>3, <2>1, <2>3
<1>9. KeepsTrue(c, to)
  <2> SUFFICES ASSUME Sure'
               PROVE  Agrees(shared)' /\ (to # Free => Agrees(to.held)')
    BY ActiveIsNotFree DEF KeepsTrue, Phases
  <2>1. Agrees(caller[c].held)
    BY <1>1, CallersAre DEF Sure
  <2>2. Agrees(s) /\ Agrees(u)
    BY <1>4, <2>1 DEF Agrees
  <2>3. Agrees(s)' /\ Agrees(u)'
    BY <1>1, <1>4, <2>2, QuietKeeps
  <2> QED
    BY <1>3, <2>3
<1> QED
  BY <1>6, <1>7, <1>8, <1>9, CommandKeeps

\* A command ends without a save: before it made anything of its copy, or killed.
LEMMA Leaves ==
  ASSUME CollabInv, NEW c \in Callers, caller[c].pc \in Phases,
         caller' = [caller EXCEPT ![c] = Free], UNCHANGED <<shared, watch, hosted, now>>,
         \/ log' = log /\ caller[c].pc = "calling"
         \/ log' = [log EXCEPT !.lost = TRUE]
  PROVE  CollabInv'
<1>1. /\ log' \in CollabLogs /\ log'.ids = log.ids /\ log'.given = log.given /\ log'.used = log.used
      /\ log'.overlap = log.overlap /\ log'.reused = log.reused
      /\ ~log'.lost => log' = log /\ caller[c].pc = "calling"
  BY DEF CollabInv, CollabTypes, CollabLogs
<1>2. Quiet
  BY <1>1 DEF Quiet
<1>3. shared \in State /\ Sound(shared)
  BY DEF CollabInv, CollabTypes, SoundCopies
<1>4. Sound(shared)'
  BY <1>2, <1>3, QuietKeeps
<1>5. Keeps(c, Free)
  BY <1>1, <1>2, <1>3, <1>4, QuietKeeps DEF Keeps
<1>6. KeepsCopy(Free)
  BY DEF KeepsCopy
<1>7. KeepsOrder(c, Free)
  <2> SUFFICES ASSUME ~log'.overlap PROVE ByItself(c) /\ Unused(shared)' /\ ~log'.reused
    BY DEF KeepsOrder
  <2>1. ByItself(c) /\ Unused(shared) /\ ~log.reused
    BY <1>1, CallersAre
  <2>2. Unused(shared)'
    BY <1>2, <1>3, <2>1, QuietKeeps
  <2> QED
    BY <1>1, <2>1, <2>2
<1>8. KeepsTrue(c, Free)
  <2> SUFFICES ASSUME Sure' PROVE Agrees(shared)'
    BY ActiveIsNotFree DEF KeepsTrue, Phases
  <2>1. Sure /\ caller[c].pc = "calling"
    BY <1>1 DEF Sure
  <2>2. Agrees(shared)
    BY <2>1, CallersAre
  <2> QED
    BY <1>2, <1>3, <2>2, QuietKeeps
<1> QED
  BY <1>5, <1>6, <1>7, <1>8, CommandKeeps

\* The copy of a command with other acknowledgements.
LEMMA OtherAcks ==
  ASSUME NEW s \in State, NEW acks \in SUBSET Ack
  PROVE  /\ [s EXCEPT !.acks = acks] \in State
         /\ [s EXCEPT !.acks = acks].acks = acks
         /\ [s EXCEPT !.acks = acks].leases = s.leases
         /\ [s EXCEPT !.acks = acks].sessions = s.sessions
         /\ [s EXCEPT !.acks = acks].session = s.session
         /\ Sound(s) /\ acks \subseteq log.given => Sound([s EXCEPT !.acks = acks])
<1>1. PICK t : t = [s EXCEPT !.acks = acks]
  OBVIOUS
<1>2. /\ t \in State /\ t.acks = acks /\ t.leases = s.leases /\ t.sessions = s.sessions
      /\ t.session = s.session
  BY <1>1 DEF State
<1>3. Sound(s) /\ acks \subseteq log.given => Sound(t)
  BY <1>2 DEF Sound
<1> QED
  BY <1>1, <1>2, <1>3

\* Any other evaluation of the guard.
LEMMA Invalidated ==
  ASSUME CollabInv, NEW c \in Callers, NEW finding, GuardInvalidates(c, finding)
  PROVE  CollabInv'
<1>1. caller[c].pc \in Phases
  BY DEF GuardInvalidates, Calling, Phases
<1>2. PICK h \in State : h = caller[c].held /\ Sound(h)
  BY <1>1, CallersAre
<1>3. PICK acks : acks = h.acks \ OfScope(h.acks, caller[c].scope)
  OBVIOUS
<1>4. acks \in SUBSET Ack /\ acks \subseteq h.acks /\ h.acks \subseteq log.given
  BY <1>2, <1>3 DEF State, Sound
<1>5. PICK s : s = [h EXCEPT !.acks = acks]
  OBVIOUS
<1>6. s \in State /\ Sound(s) /\ s.leases = h.leases /\ s.acks = acks
  BY <1>2, <1>4, <1>5, OtherAcks
<1>7. /\ Save(s) /\ caller' = [caller EXCEPT ![c] = Free]
      /\ UNCHANGED <<watch, hosted, now, log>>
  BY <1>2, <1>3, <1>5 DEF GuardInvalidates, SavesGuard
<1> QED
  BY <1>1, <1>2, <1>4, <1>6, <1>7, Saves

\* An acknowledgement is given.
LEMMA Acknowledged ==
  ASSUME CollabInv, NEW c \in Callers, NEW finding \in Findings, GuardAcknowledges(c, finding)
  PROVE  CollabInv'
<1>1. caller[c].pc \in Phases /\ Calling(c, "guard")
  BY DEF GuardAcknowledges, Calling, Phases
<1>2. PICK h \in State : h = caller[c].held /\ Sound(h)
  BY <1>1, CallersAre
<1>3. PICK n : n = Cardinality(log.given) + 1
  OBVIOUS
<1>4. PICK scope \in Scopes : scope = caller[c].scope
  BY <1>1, CallersAre DEF Calling, Active, Guarding, Running, Claiming, Planning
<1>5. PICK g : g = [n |-> n, scope |-> scope, finding |-> finding, expires |-> now + AckLife]
  OBVIOUS
<1>6. PICK acks : acks = (h.acks \ OfScope(h.acks, scope)) \cup {g}
  OBVIOUS
<1>7. PICK s : s = [h EXCEPT !.acks = acks]
  OBVIOUS
<1>8. /\ Save(s) /\ caller' = [caller EXCEPT ![c] = Free] /\ UNCHANGED <<watch, hosted, now>>
      /\ log' = [log EXCEPT !.given = @ \cup {g}]
  BY <1>2, <1>3, <1>4, <1>5, <1>6, <1>7 DEF GuardAcknowledges, SavesGuard
<1>9. /\ IsFiniteSet(log.given) /\ Cardinality(log.given) \in Nat /\ n \in Nat /\ g \in Ack
      /\ \A a \in log.given : a \in Ack /\ a.n \in Nat /\ a.n < n
  <2>1. IsFiniteSet(log.given) /\ Cardinality(log.given) \in Nat
    BY FS_CardinalityType DEF CollabInv, AcksOK
  <2>2. now + AckLife \in Nat
    BY CollaborationShape DEF CollabInv, CollabTypes
  <2>3. \A a \in log.given : a \in Ack /\ a.n \in Nat
    BY DEF CollabInv, CollabTypes, CollabLogs, Ack
  <2> QED
    BY <1>3, <1>5, <2>1, <2>2, <2>3 DEF Ack, CollabInv, AcksOK
<1>10. /\ log' \in CollabLogs /\ log'.given = log.given \cup {g} /\ log'.ids = log.ids
       /\ log'.used = log.used /\ log'.reused = log.reused /\ log'.overlap = log.overlap
       /\ log'.lost = log.lost
  BY <1>8, <1>9 DEF CollabInv, CollabTypes, CollabLogs
<1>11. Later
  BY <1>8, <1>10 DEF Later, Twins, CollabInv, CollabTypes, CollabLogs
<1>12. AcksOK'
  <2>1. g \notin log.given /\ g.n = n
    BY <1>5, <1>9
  <2>2. IsFiniteSet(log'.given) /\ Cardinality(log'.given) = n
    <3>1. PICK given : given = log.given
      OBVIOUS
    <3>2. IsFiniteSet(given \cup {g}) /\ Cardinality(given \cup {g}) = Cardinality(given) + 1
      BY <1>9, <2>1, <3>1, FS_AddElement
    <3> QED
      BY <1>3, <1>10, <3>1, <3>2
  <2>3. ASSUME NEW a \in log'.given
        PROVE  /\ 1 <= a.n /\ a.n <= n /\ a.expires <= now + AckLife
               /\ \A b \in log'.given : a.n = b.n => a = b
    <3>1. CASE a = g
      <4>1. now + AckLife \in Nat
        BY CollaborationShape DEF CollabInv, CollabTypes
      <4> QED
        BY <1>3, <1>5, <1>9, <1>10, <3>1, <4>1
    <3>2. CASE a \in log.given
      <4>1. 1 <= a.n /\ a.expires <= now + AckLife /\ \A b \in log.given : a.n = b.n => a = b
        BY <3>2 DEF CollabInv, AcksOK
      <4> QED
        BY <1>9, <1>10, <2>1, <3>2, <4>1
    <3> QED
      BY <1>10, <3>1, <3>2
  <2>4. \A u \in log'.used : \E a \in log'.given :
          /\ a.n = u.n /\ a.scope = u.scope /\ a.finding = u.finding
          /\ u.at < a.expires /\ a.expires <= u.at + AckLife
    BY <1>10 DEF CollabInv, AcksOK
  <2> QED
    BY <1>8, <2>2, <2>3, <2>4 DEF AcksOK
<1>13. s \in State /\ s.acks = acks /\ s.leases = h.leases /\ s.session = h.session /\ s.sessions = h.sessions
  BY <1>2, <1>6, <1>7, <1>9, OtherAcks DEF State
<1>14. PICK u : u = Unexpired(s)
  OBVIOUS
<1>15. PICK v : v = Unexpired(h)
  OBVIOUS
<1>16. Lessened(s, u) /\ u.leases = v.leases /\ (Agrees(h) => Agrees(v))
  BY <1>2, <1>13, <1>14, <1>15, UnexpiredLessens, UnexpiredAgrees
<1>17. Sound(u)'
  <2>1. Sound(h)'
    BY <1>2, <1>11, SoundLater DEF CollabInv
  <2>2. acks \subseteq log'.given
    BY <1>2, <1>6, <1>10 DEF Sound
  <2> QED
    BY <1>13, <1>16, <2>1, <2>2 DEF Sound, Lessened
<1>18. shared' = u
  BY <1>8, <1>14 DEF Save
<1>19. Keeps(c, Free)
  <2>1. HostedOK'
    BY <1>8, <1>10 DEF CollabInv, HostedOK
  <2>2. u \in State
    BY <1>16 DEF Lessened
  <2> QED
    BY <1>8, <1>10, <1>11, <1>12, <1>17, <1>18, <2>1, <2>2 DEF Keeps, CollabInv, CollabTypes
<1>20. KeepsOrder(c, Free)
  <2> SUFFICES ASSUME ~log'.overlap PROVE ByItself(c) /\ Unused(shared)' /\ ~log'.reused
    BY DEF KeepsOrder
  <2>1. ByItself(c) /\ Unused(h) /\ ~log.reused
    BY <1>1, <1>2, <1>10, CallersAre
  <2>2. ASSUME NEW a \in u.acks, NEW w \in log.used PROVE a.n # w.n
    <3>1. a \in h.acks \/ a = g
      BY <1>6, <1>13, <1>16, <2>2 DEF Lessened
    <3>2. w.n < n
      BY <1>9 DEF CollabInv, AcksOK
    <3>3. g.n = n /\ w.n \in Nat
      BY <1>5 DEF CollabInv, CollabTypes, CollabLogs, Uses
    <3> QED
      BY <1>9, <2>1, <3>1, <3>2, <3>3 DEF Unused
  <2> QED
    BY <1>10, <1>18, <2>1, <2>2 DEF Unused
<1>21. KeepsTrue(c, Free)
  <2> SUFFICES ASSUME Sure' PROVE Agrees(u)'
    BY <1>18, ActiveIsNotFree DEF KeepsTrue, Phases
  <2>1. Agrees(h)
    BY <1>1, <1>2, <1>10, CallersAre DEF Sure
  <2> QED
    BY <1>8, <1>16, <2>1 DEF Agrees
<1> QED
  BY <1>19, <1>20, <1>21, CommandKeeps DEF KeepsCopy

\* An acknowledgement is used.
LEMMA Used ==
  ASSUME CollabInv, NEW c \in Callers, NEW finding \in Findings, GuardConsumes(c, finding)
  PROVE  CollabInv'
<1>1. caller[c].pc \in Phases /\ Calling(c, "guard")
  BY DEF GuardConsumes, Calling, Phases
<1>2. PICK h \in State : h = caller[c].held /\ Sound(h)
  BY <1>1, CallersAre
<1>3. PICK scope \in Scopes : scope = caller[c].scope
  BY <1>1, CallersAre DEF Calling, Active, Guarding, Running, Claiming, Planning
<1>4. PICK a \in AcksFor(h, scope, finding) :
        /\ SavesGuard(c, Consumed(h, a))
        /\ log' = [log EXCEPT
             !.used = @ \cup {[n |-> a.n, scope |-> scope, finding |-> finding, at |-> now]},
             !.reused = @ \/ \E u \in log.used : u.n = a.n]
  BY <1>2, <1>3 DEF GuardConsumes
<1>5. a \in h.acks /\ a.expires > now /\ a.scope = scope /\ a.finding = finding
  BY <1>4, UnexpiredLessens DEF AcksFor, OfScope
<1>6. PICK acks : acks = h.acks \ {a}
  OBVIOUS
<1>7. PICK s : s = [h EXCEPT !.acks = acks]
  OBVIOUS
<1>8. Save(s) /\ caller' = [caller EXCEPT ![c] = Free] /\ UNCHANGED <<watch, hosted, now>>
  BY <1>2, <1>4, <1>6, <1>7 DEF SavesGuard, Consumed
<1>9. a \in Ack /\ a \in log.given /\ a.n \in Nat /\ a.expires <= now + AckLife
  BY <1>2, <1>5 DEF Sound, State, Ack, CollabInv, AcksOK
<1>10. PICK w : w = [n |-> a.n, scope |-> scope, finding |-> finding, at |-> now]
  OBVIOUS
<1>11. w \in Uses /\ w.n = a.n /\ w.scope = scope /\ w.finding = finding /\ w.at = now
  BY <1>9, <1>10 DEF Uses, CollabInv, CollabTypes
<1>12. PICK r \in BOOLEAN : r = (log.reused \/ \E u \in log.used : u.n = a.n)
  OBVIOUS
<1>13. log' = [log EXCEPT !.used = @ \cup {w}, !.reused = r]
  BY <1>4, <1>10, <1>12
<1>14. /\ log' \in CollabLogs /\ log'.used = log.used \cup {w} /\ log'.reused = r
       /\ log'.ids = log.ids /\ log'.given = log.given /\ log'.overlap = log.overlap
       /\ log'.lost = log.lost
  BY <1>11, <1>13 DEF CollabInv, CollabTypes, CollabLogs
<1>15. Later
  BY <1>8, <1>14 DEF Later, Twins, CollabInv, CollabTypes, CollabLogs
<1>16. AcksOK'
  <2>1. \A u \in log'.used : \E g \in log'.given :
          /\ g.n = u.n /\ g.scope = u.scope /\ g.finding = u.finding
          /\ u.at < g.expires /\ g.expires <= u.at + AckLife
    BY <1>5, <1>9, <1>11, <1>14 DEF CollabInv, AcksOK
  <2> QED
    BY <1>8, <1>14, <2>1 DEF CollabInv, AcksOK
<1>17. s \in State /\ s.acks = acks /\ s.leases = h.leases /\ Sound(s)
  BY <1>2, <1>6, <1>7, OtherAcks DEF State, Sound
<1>18. PICK u : u = Unexpired(s)
  OBVIOUS
<1>19. u \in State /\ Sound(u) /\ u.acks \subseteq acks /\ (Agrees(s) => Agrees(u))
  BY <1>17, <1>18, UnexpiredAgrees, UnexpiredLessens DEF Lessened
<1>20. shared' = u
  BY <1>8, <1>18 DEF Save
<1>21. Keeps(c, Free)
  <2>1. HostedOK'
    BY <1>8, <1>14 DEF CollabInv, HostedOK
  <2>2. Sound(u)'
    BY <1>15, <1>19, SoundLater DEF CollabInv
  <2> QED
    BY <1>8, <1>14, <1>15, <1>16, <1>19, <1>20, <2>1, <2>2 DEF Keeps, CollabInv, CollabTypes
<1>22. KeepsOrder(c, Free)
  <2> SUFFICES ASSUME ~log'.overlap PROVE ByItself(c) /\ Unused(shared)' /\ ~log'.reused
    BY DEF KeepsOrder
  <2>1. ByItself(c) /\ Unused(h) /\ ~log.reused
    BY <1>1, <1>2, <1>14, CallersAre
  <2>2. ~log'.reused
    BY <1>5, <1>12, <1>14, <2>1 DEF Unused
  <2>3. ASSUME NEW b \in u.acks, NEW v \in log'.used PROVE b.n # v.n
    <3>1. b \in h.acks /\ b # a
      BY <1>6, <1>19
    <3>2. b \in log.given
      BY <1>2, <3>1 DEF Sound
    <3>3. b.n # a.n
      BY <1>9, <3>1, <3>2 DEF CollabInv, AcksOK
    <3> QED
      BY <1>11, <1>14, <2>1, <3>1, <3>3 DEF Unused
  <2> QED
    BY <1>20, <2>1, <2>2, <2>3 DEF Unused
<1>23. KeepsTrue(c, Free)
  <2> SUFFICES ASSUME Sure' PROVE Agrees(u)'
    BY <1>20, ActiveIsNotFree DEF KeepsTrue, Phases
  <2>1. Agrees(h)
    BY <1>1, <1>2, <1>14, CallersAre DEF Sure
  <2>2. Agrees(s)
    BY <1>17, <2>1 DEF Agrees
  <2> QED
    BY <1>8, <1>19, <2>2 DEF Agrees
<1> QED
  BY <1>21, <1>22, <1>23, CommandKeeps DEF KeepsCopy

-----------------------------------------------------------------------------

\* What a process makes of the answer to its claim.
LEMMA AfterClaim ==
  ASSUME CollabInv, NEW c \in Callers, caller[c].pc = "calling", caller[c].kind \in {"claim", "startPlan"},
         NEW s \in State, Sound(s), s.acks = caller[c].held.acks, s.leases = caller[c].held.leases,
         NEW rs \in SUBSET Resources, NEW session \in SessionIds,
         \A p \in Plans : session = PlanSession(p) => p \in s.sessions,
         NEW fallback \in {{}, Claims(rs, 0, session, PlanLeaseLife)}, NEW answer \in Replies,
         Claimed(c, s, Claims(rs, log.ids + 1, session, PlanLeaseLife), fallback, answer)
  PROVE  CollabInv'
<1>1. /\ log \in CollabLogs /\ log.ids \in Nat /\ now \in Nat /\ PlanLeaseLife \in Nat \ {0, 1}
      /\ hosted \in SUBSET Lease
  BY CollaborationShape DEF CollabInv, CollabTypes, CollabLogs
<1>2. PICK ls : ls = Claims(rs, log.ids + 1, session, PlanLeaseLife)
  OBVIOUS
<1>3. /\ ls \in SUBSET Lease
      /\ \A l \in ls : /\ l.id = log.ids + 1 /\ l.session = session /\ l.life = PlanLeaseLife
                       /\ l.claimed = now /\ l.expires = now + PlanLeaseLife
  <2>1. PICK i \in Nat : i = log.ids + 1
    BY <1>1
  <2>2. ls = Claims(rs, i, session, PlanLeaseLife)
    BY <1>2, <2>1
  <2>3. ls \in SUBSET Lease
    BY <1>1, <2>2, ClaimsAre
  <2>4. \A l \in ls : /\ l.id = i /\ l.session = session /\ l.life = PlanLeaseLife
                      /\ l.claimed = now /\ l.expires = now + PlanLeaseLife
    BY <1>1, <2>2, ClaimsAre
  <2> QED
    BY <2>1, <2>3, <2>4
<1>4. PICK new : new = IF answer = "ok" THEN ls ELSE fallback
  OBVIOUS
<1>4a. /\ fallback \in SUBSET Lease
      /\ \A l \in fallback : /\ l.id = 0 /\ l.session = session /\ l.life = PlanLeaseLife
                             /\ l.claimed = now /\ l.expires = now + PlanLeaseLife
  <2>1. CASE fallback = {}
    BY <2>1
  <2>2. CASE fallback = Claims(rs, 0, session, PlanLeaseLife)
    <3>1. PICK z \in Nat : z = 0
      OBVIOUS
    <3>2. PICK fs : fs = Claims(rs, z, session, PlanLeaseLife)
      OBVIOUS
    <3>4. /\ fs \in SUBSET Lease
          /\ \A l \in fs : /\ l.id = z /\ l.session = session /\ l.life = PlanLeaseLife
                           /\ l.claimed = now /\ l.expires = now + PlanLeaseLife
      BY <1>1, <3>2, ClaimsAre
    <3>3. /\ fs \in SUBSET Lease
          /\ \A l \in fs : /\ l.id = 0 /\ l.session = session /\ l.life = PlanLeaseLife
                           /\ l.claimed = now /\ l.expires = now + PlanLeaseLife
      BY <3>1, <3>4
    <3> QED
      BY <2>2, <3>1, <3>2, <3>3
  <2> QED
    BY <2>1, <2>2
<1>5. /\ new \in SUBSET Lease
      /\ \A l \in new : /\ l.id = log.ids + 1 \/ l.id = 0
                        /\ l.id = 0 \/ l \in ls
                        /\ l.session = session /\ l.life = PlanLeaseLife
                        /\ l.claimed = now /\ l.expires = now + PlanLeaseLife
  BY <1>3, <1>4, <1>4a
<1>6. PICK m : m = Merged(s.leases, new)
  OBVIOUS
<1>7. /\ new \subseteq m /\ m \subseteq s.leases \cup new /\ m \in SUBSET Lease
      /\ \A l \in s.leases : l \in m \/ \E k \in new : l.id = k.id
  BY <1>5, <1>6 DEF Merged, State
<1>8. PICK t : t = [s EXCEPT !.leases = m]
  OBVIOUS
<1>9. /\ t \in State /\ t.leases = m /\ t.acks = s.acks /\ t.sessions = s.sessions
      /\ t.session = s.session
  BY <1>7, <1>8 DEF State
<1>10. PICK r \in Active : r = caller[c] /\ r.pc = "calling" /\ r.kind \in {"claim", "startPlan"}
  BY CallersAre DEF Phases
<1>11. PICK to : to = [r EXCEPT !.pc = "saving", !.held = t]
  OBVIOUS
<1>12. /\ to \in Active /\ to.pc = "saving" /\ to.held = t /\ to.kind # "releasePlan"
  <2>1. r \in Claiming \cup Planning
    BY <1>10 DEF Active, Guarding, Running
  <2> QED
    BY <1>9, <1>10, <1>11, <2>1 DEF Active, Claiming, Planning, Phases
<1>13. PICK o \in BOOLEAN : o = (answer = "lost")
  OBVIOUS
<1>14. /\ hosted' = IF answer = "refused" THEN hosted ELSE hosted \cup ls
       /\ caller' = [caller EXCEPT ![c] = to]
       /\ log' = [log EXCEPT !.ids = log.ids + 1, !.lost = @ \/ o]
       /\ UNCHANGED <<shared, watch, now>>
  <2>1. caller' = [caller EXCEPT ![c].pc = "saving",
                                 ![c].held = [s EXCEPT !.leases = Merged(@, IF answer = "ok" THEN ls ELSE fallback)]]
    BY <1>2 DEF Claimed
  <2>2. caller' = [caller EXCEPT ![c].pc = "saving", ![c].held = t]
    BY <1>4, <1>6, <1>8, <2>1
  <2>3. caller' = [caller EXCEPT ![c] = to]
    BY <1>10, <1>11, <2>2 DEF CollabInv, CollabTypes
  <2> QED
    BY <1>2, <1>13, <2>3 DEF Claimed
<1>15. /\ log' \in CollabLogs /\ log'.ids = log.ids + 1 /\ log'.given = log.given
       /\ log'.used = log.used /\ log'.reused = log.reused /\ log'.overlap = log.overlap
       /\ ~log'.lost => ~log.lost /\ ~o
  <2>1. log.ids + 1 \in Nat
    BY <1>1
  <2> QED
    BY <1>1, <1>14, <2>1, LogCalls
<1>16. hosted' \in SUBSET Lease /\ \A k \in hosted' : k \in hosted \/ k \in ls
  BY <1>1, <1>3, <1>14
<1>17. Later
  <2>1. \A k \in hosted' : \/ \E h \in hosted : h.id = k.id /\ Twins(h, k)
                           \/ log.ids < k.id /\ k.id \in Nat
    BY <1>1, <1>3, <1>16 DEF Twins
  <2> QED
    BY <1>1, <1>14, <1>15, <2>1 DEF Later
<1>18. HostedOK'
  <2> SUFFICES ASSUME NEW k \in hosted'
               PROVE  /\ 1 <= k.id /\ k.id <= log'.ids /\ k.claimed <= now
                      /\ k.claimed + k.life <= k.expires /\ now < k.expires
    BY <1>14 DEF HostedOK
  <2>1. CASE k \in hosted
    <3>1. k.id \in Nat
      BY <1>1, <2>1 DEF Lease
    <3> QED
      BY <1>1, <1>15, <2>1, <3>1 DEF CollabInv, HostedOK
  <2>2. CASE k \in ls
    BY <1>1, <1>3, <1>15, <2>2
  <2> QED
    BY <1>16, <2>1, <2>2
<1>19. Sound(t)'
  <2>1. Sound(s)'
    BY <1>17, SoundLater DEF CollabInv
  <2>2. ASSUME NEW l \in m
        PROVE  /\ l.id <= log'.ids /\ l.claimed <= now' /\ l.expires = l.claimed + l.life
               /\ \A p \in Plans : l.session = PlanSession(p) => p \in s.sessions
               /\ l.id # 0 => \A k \in hosted' \cup m : k.id = l.id => Twins(k, l)
    <3>1. CASE l \in s.leases
      <4>1. l.id \in Nat /\ l.id <= log.ids
        BY <3>1 DEF Sound, State, Lease
      <4>2. ASSUME l.id # 0, NEW k \in hosted' \cup m, k.id = l.id PROVE Twins(k, l)
        <5>1. k \notin new
          BY <1>1, <1>5, <4>1, <4>2
        <5> QED
          BY <1>7, <2>1, <3>1, <4>2, <5>1 DEF Sound
      <4> QED
        BY <2>1, <3>1, <4>2 DEF Sound
    <3>2. CASE l \in new
      <4>1. ASSUME l.id # 0, NEW k \in hosted' \cup m, k.id = l.id PROVE Twins(k, l)
        <5>1. l.id = log.ids + 1 /\ l \in ls
          BY <1>5, <3>2, <4>1
        <5>2. CASE k \in new
          BY <1>5, <3>2, <5>2 DEF Twins
        <5>3. CASE k \in ls
          BY <1>3, <5>1, <5>3 DEF Twins
        <5>4. CASE k \in hosted
          <6>1. k.id \in Nat /\ k.id <= log.ids
            BY <1>1, <5>4 DEF CollabInv, HostedOK, Lease
          <6> QED
            BY <1>1, <4>1, <5>1, <6>1
        <5>5. CASE k \in s.leases
          <6>1. k.id \in Nat /\ k.id <= log.ids
            BY <5>5 DEF Sound, State, Lease
          <6> QED
            BY <1>1, <4>1, <5>1, <6>1
        <5> QED
          BY <1>7, <1>16, <4>1, <5>2, <5>3, <5>4, <5>5
      <4>2. l.id <= log'.ids /\ l.claimed <= now' /\ l.expires = l.claimed + l.life
        BY <1>1, <1>5, <1>14, <1>15, <3>2
      <4> QED
        BY <1>5, <3>2, <4>1, <4>2
    <3> QED
      BY <1>7, <3>1, <3>2
  <2> QED
    BY <1>9, <2>1, <2>2 DEF Sound
<1>20. Keeps(c, to)
  <2>1. shared \in State /\ Sound(shared)
    BY DEF CollabInv, CollabTypes, SoundCopies
  <2>2. Sound(shared)'
    <3>1. PICK f \in State : f = shared
      BY <2>1
    <3>2. Sound(f)'
      BY <1>17, <2>1, <3>1, SoundLater DEF CollabInv
    <3> QED
      BY <1>14, <3>1, <3>2
  <2>3. AcksOK'
    BY <1>14, <1>15 DEF AcksOK, CollabInv
  <2> QED
    BY <1>12, <1>14, <1>15, <1>16, <1>17, <1>18, <2>1, <2>2, <2>3 DEF Keeps
<1>21. KeepsOrder(c, to)
  <2> SUFFICES ASSUME ~log'.overlap
               PROVE  ByItself(c) /\ Unused(shared)' /\ ~log'.reused /\ Unused(to.held)'
    BY DEF KeepsOrder
  <2>1. ByItself(c) /\ Unused(caller[c].held) /\ Unused(shared) /\ ~log.reused
    BY <1>15, CallersAre DEF Phases
  <2>2. Unused(t)' /\ Unused(shared)'
    BY <1>9, <1>14, <1>15, <2>1 DEF Unused
  <2> QED
    BY <1>12, <1>15, <2>1, <2>2
<1>22. KeepsTrue(c, to)
  <2> SUFFICES ASSUME Sure' PROVE Agrees(t)'
    BY <1>12 DEF KeepsTrue
  <2>1. Sure /\ answer # "lost"
    BY <1>13, <1>15 DEF Sure
  <2>2. Agrees(s)
    BY <2>1, CallersAre DEF Agrees, Phases
  <2>3. \A l \in s.leases : l.id # 0 => l \in m
    <3> SUFFICES ASSUME NEW l \in s.leases, l.id # 0 PROVE l \in m
      OBVIOUS
    <3>1. l.id \in Nat /\ l.id <= log.ids
      BY DEF Sound, State, Lease
    <3>2. \A k \in new : l.id # k.id
      BY <1>1, <1>5, <3>1
    <3> QED
      BY <1>7, <3>2
  <2>4. ASSUME NEW l \in m, l.id # 0, now < l.expires PROVE \E k \in hosted' : Copied(k, l)
    <3>1. CASE l \in s.leases
      BY <1>14, <2>2, <2>4, <3>1 DEF Agrees
    <3>2. CASE l \in new
      <4>1. answer = "ok" /\ l \in ls
        <5>1. l \in ls
          BY <1>5, <2>4, <3>2
        <5>2. answer # "ok" => l.id = 0
          BY <1>4, <1>4a, <3>2
        <5> QED
          BY <2>4, <5>1, <5>2
      <4> QED
        BY <1>14, <4>1 DEF Copied
    <3> QED
      BY <1>7, <3>1, <3>2
  <2>5. ASSUME NEW k \in hosted', now < k.claimed + k.life PROVE \E l \in m : Copied(k, l)
    <3>1. CASE k \in hosted
      <4>1. PICK l \in s.leases : Copied(k, l)
        BY <2>2, <2>5, <3>1 DEF Agrees
      <4>2. l.id # 0
        <5>1. k.id \in Nat /\ 1 <= k.id
          BY <1>1, <3>1 DEF CollabInv, HostedOK, Lease
        <5> QED
          BY <4>1, <5>1 DEF Copied
      <4> QED
        BY <2>3, <4>1, <4>2
    <3>2. CASE k \in ls /\ k \notin hosted
      <4>1. answer = "ok"
        BY <1>14, <2>1, <2>5, <3>2 DEF Replies
      <4> QED
        BY <1>4, <1>7, <3>2, <4>1 DEF Copied
    <3> QED
      BY <1>16, <3>1, <3>2
  <2> QED
    BY <1>9, <1>14, <2>4, <2>5 DEF Agrees
<1> QED
  BY <1>12, <1>19, <1>20, <1>21, <1>22, CommandKeeps DEF KeepsCopy

\* The leases are released, whatever the service heard of it.
LEMMA Released ==
  ASSUME CollabInv, NEW c \in Callers, NEW reached \in SUBSET hosted, Release(c, reached)
  PROVE  CollabInv'
<1>1. /\ log \in CollabLogs /\ log.ids \in Nat /\ now \in Nat /\ hosted \in SUBSET Lease
  BY DEF CollabInv, CollabTypes, CollabLogs
<1>2. PICK r \in Active : r = caller[c] /\ r.pc = "calling"
  BY CallersAre DEF Release, Phases
<1>3. PICK h \in State : h = r.held /\ Sound(h) /\ h = caller[c].held
  BY <1>2, CallersAre DEF Phases
<1>4. PICK ls \in Selected(r) :
        /\ hosted' = hosted \ (reached \cap Same(ls))
        /\ caller' = [caller EXCEPT ![c].pc = "saving", ![c].held.leases = @ \ ls]
        /\ log' = [log EXCEPT !.lost = @ \/ ~(Same(ls) \subseteq reached)]
        /\ UNCHANGED <<shared, watch, now>>
  BY <1>2 DEF Release
<1>5. /\ r.kind \in {"releasePlan", "releaseAll", "releaseOne"} /\ ls \subseteq h.leases
      /\ r.kind = "releasePlan" => ls = {l \in h.leases : l.session = SessionOf(h, r.plan)}
  <2>1. CASE r.kind = "releasePlan"
    BY <1>3, <1>4, <2>1 DEF Selected
  <2>2. CASE r.kind = "releaseAll"
    BY <1>3, <1>4, <2>2 DEF Selected
  <2>3. CASE r.kind = "releaseOne"
    BY <1>3, <1>4, <2>3 DEF Selected
  <2>4. CASE r.kind \notin {"releasePlan", "releaseAll", "releaseOne"}
    BY <1>4, <2>4 DEF Selected
  <2> QED
    BY <2>1, <2>2, <2>3, <2>4
<1>6. PICK m : m = h.leases \ ls
  OBVIOUS
<1>7. PICK t : t = [h EXCEPT !.leases = m]
  OBVIOUS
<1>8. /\ t \in State /\ t.leases = m /\ t.acks = h.acks /\ t.sessions = h.sessions
      /\ t.session = h.session /\ Lessened(h, t)
  BY <1>6, <1>7 DEF State, Lessened
<1>9. PICK to : to = [r EXCEPT !.pc = "saving", !.held = t]
  OBVIOUS
<1>10. /\ to \in Active /\ to.pc = "saving" /\ to.held = t /\ to.kind = r.kind
       /\ to.kind = "releasePlan" => to.plan = r.plan /\ r.plan \in Plans
  <2>1. r \in Running \cup Planning
    BY <1>2, <1>5 DEF Active, Guarding, Claiming
  <2> QED
    BY <1>8, <1>9, <2>1 DEF Active, Running, Planning, Phases
<1>11. caller' = [caller EXCEPT ![c] = to]
  <2>1. caller' = [caller EXCEPT ![c] = [caller[c] EXCEPT !.pc = "saving", !.held.leases = @ \ ls]]
    BY <1>4 DEF CollabInv, CollabTypes
  <2>2. [r EXCEPT !.pc = "saving", !.held.leases = @ \ ls] = to
    BY <1>3, <1>6, <1>7, <1>9
  <2> QED
    BY <1>2, <2>1, <2>2
<1>12. PICK o \in BOOLEAN : o = ~(Same(ls) \subseteq reached)
  OBVIOUS
<1>13. /\ log' \in CollabLogs /\ log'.ids = log.ids /\ log'.given = log.given
       /\ log'.used = log.used /\ log'.reused = log.reused /\ log'.overlap = log.overlap
       /\ ~log'.lost => ~log.lost /\ ~o
  <2>1. log' = [log EXCEPT !.ids = log.ids, !.lost = @ \/ o]
    BY <1>1, <1>4, <1>12 DEF CollabLogs
  <2> QED
    BY <1>1, <2>1, LogCalls
<1>14. hosted' \subseteq hosted /\ now' = now /\ shared' = shared /\ watch' = watch
  BY <1>4
<1>15. Later
  BY <1>1, <1>13, <1>14 DEF Later, Twins
<1>16. Sound(t) /\ Sound(t)'
  <2>1. Sound(t)
    BY <1>3, <1>8, SoundLessened
  <2> QED
    BY <1>8, <1>15, <2>1, SoundLater DEF CollabInv
<1>17. Keeps(c, to)
  <2>1. PICK f \in State : f = shared /\ Sound(f)
    BY DEF CollabInv, CollabTypes, SoundCopies
  <2>2. Sound(f)'
    BY <1>15, <2>1, SoundLater DEF CollabInv
  <2>3. AcksOK' /\ HostedOK'
    BY <1>13, <1>14 DEF AcksOK, HostedOK, CollabInv
  <2> QED
    BY <1>1, <1>10, <1>11, <1>13, <1>14, <1>15, <2>1, <2>2, <2>3 DEF Keeps
<1>18. KeepsOrder(c, to)
  <2> SUFFICES ASSUME ~log'.overlap
               PROVE  ByItself(c) /\ Unused(shared)' /\ ~log'.reused /\ Unused(to.held)'
    BY DEF KeepsOrder
  <2>1. ByItself(c) /\ Unused(h) /\ Unused(shared) /\ ~log.reused
    BY <1>2, <1>3, <1>13, CallersAre DEF Phases
  <2>2. Unused(t)' /\ Unused(shared)'
    BY <1>8, <1>13, <1>14, <2>1 DEF Unused
  <2> QED
    BY <1>10, <1>13, <2>1, <2>2
<1>19. ASSUME Sure'
       PROVE  Agrees(t)' /\ (r.kind = "releasePlan" => Ended(r.plan)')
  <2>1. Sure /\ Same(ls) \subseteq reached
    BY <1>12, <1>13, <1>19 DEF Sure
  <2>2. Agrees(h)
    BY <1>2, <1>3, <2>1, CallersAre DEF Phases
  <2>3. hosted' = hosted \ Same(ls)
    BY <1>4, <2>1
  <2>4. ASSUME NEW l \in h.leases, NEW g \in h.leases, l.id # 0, Copied(l, g) PROVE l = g
    <3>1. Twins(g, l) /\ l.expires = l.claimed + l.life /\ g.expires = g.claimed + g.life
      BY <1>3, <2>4 DEF Sound, Copied
    <3>2. l \in Lease /\ g \in Lease
      BY DEF State
    <3> QED
      BY <2>4, <3>1, <3>2 DEF Twins, Copied, Lease
  <2>5. ASSUME NEW l \in m, l.id # 0, now < l.expires PROVE \E k \in hosted' : Copied(k, l)
    <3>1. PICK k \in hosted : Copied(k, l)
      BY <1>6, <2>2, <2>5 DEF Agrees
    <3>2. ASSUME k \in Same(ls) PROVE FALSE
      <4>1. PICK g \in ls : g.id = k.id /\ g.resource = k.resource
        BY <3>2 DEF Same
      <4>2. l = g
        BY <1>5, <1>6, <2>4, <2>5, <3>1, <4>1 DEF Copied
      <4> QED
        BY <1>6, <4>1, <4>2
    <3> QED
      BY <2>3, <3>1, <3>2
  <2>6. ASSUME NEW k \in hosted', now < k.claimed + k.life
        PROVE  \E l \in m : Copied(k, l) /\ l.id # 0 /\ Twins(k, l)
    <3>1. PICK l \in h.leases : Copied(k, l)
      BY <2>2, <2>3, <2>6 DEF Agrees
    <3>2. l \notin ls
      BY <2>3, <3>1 DEF Same, Copied
    <3>3. l.id # 0
      <4>1. k.id \in Nat /\ 1 <= k.id
        BY <1>1, <2>3 DEF CollabInv, HostedOK, Lease
      <4> QED
        BY <3>1, <4>1 DEF Copied
    <3>4. Twins(k, l)
      BY <1>3, <2>3, <3>1, <3>3 DEF Sound, Copied
    <3> QED
      BY <1>6, <3>1, <3>2, <3>3, <3>4
  <2>7. Agrees(t)'
    BY <1>8, <1>14, <2>5, <2>6 DEF Agrees
  <2>8. ASSUME r.kind = "releasePlan", NEW k \in hosted', k.session = PlanSession(r.plan)
        PROVE  k.claimed + k.life <= now
    <3> SUFFICES ASSUME now < k.claimed + k.life PROVE FALSE
      <4>1. k.claimed + k.life \in Nat
        BY <1>1, <2>3, CollaborationShape DEF Lease
      <4> QED
        BY <1>1, <4>1
    <3>1. PICK l \in m : Copied(k, l) /\ l.id # 0 /\ Twins(k, l)
      BY <2>6
    <3>2. l.session = PlanSession(r.plan) /\ l \in h.leases /\ l \notin ls
      BY <1>6, <2>8, <3>1 DEF Twins
    <3>3. r.plan \in h.sessions
      BY <1>3, <1>10, <2>8, <3>2 DEF Sound
    <3>4. SessionOf(h, r.plan) = PlanSession(r.plan)
      BY <3>3 DEF SessionOf
    <3> QED
      BY <1>5, <2>8, <3>2, <3>4
  <2> QED
    BY <1>14, <2>7, <2>8 DEF Ended
<1>20. KeepsTrue(c, to)
  BY <1>10, <1>19 DEF KeepsTrue
<1> QED
  BY <1>10, <1>16, <1>17, <1>18, <1>20, CommandKeeps DEF KeepsCopy

LEMMA LoadedIs ==
  ASSUME CollabInv
  PROVE  Loaded \in State
<1>1. shared \in State
  BY DEF CollabInv, CollabTypes
<1> QED
  BY <1>1, UnexpiredLessens DEF Loaded, Lessened

LEMMA CommandStep ==
  ASSUME CollabInv, NEW c \in Callers, Command(c)
  PROVE  CollabInv'
<1>1. ASSUME NEW scope \in Scopes, NEW enforce \in BOOLEAN, NEW ack \in {FALSE, enforce},
             BeginGuard(c, scope, enforce, ack)
      PROVE  CollabInv'
  <2>1. PICK to : to = [pc |-> "calling", kind |-> "guard", held |-> Loaded,
                        scope |-> scope, enforce |-> enforce, ack |-> ack]
    OBVIOUS
  <2>2. to \in Active /\ to.pc = "calling" /\ to.held = Loaded
    BY <2>1, LoadedIs DEF Active, Guarding
  <2> QED
    BY <1>1, <2>1, <2>2, Begins DEF BeginGuard
<1>2. ASSUME NEW f \in Findings, GuardAcknowledges(c, f) \/ GuardConsumes(c, f)
      PROVE  CollabInv'
  BY <1>2, Acknowledged, Used
<1>3. ASSUME NEW f, GuardInvalidates(c, f) PROVE CollabInv'
  BY <1>3, Invalidated
<1>4. CASE GuardUnanswered(c)
  BY <1>4, Leaves DEF GuardUnanswered, Calling, Phases
<1>5. CASE BeginStart(c)
  <2>1. PICK to : to = [pc |-> "calling", kind |-> "start", held |-> Loaded]
    OBVIOUS
  <2>2. to \in Active /\ to.pc = "calling" /\ to.held = Loaded
    BY <2>1, LoadedIs DEF Active, Running, Phases
  <2> QED
    BY <1>5, <2>1, <2>2, Begins DEF BeginStart
<1>6. CASE Start(c)
  <2>1. caller[c].pc \in Phases
    BY <1>6 DEF Start, Calling, Phases
  <2>2. PICK h \in State : h = caller[c].held /\ Sound(h)
    BY <2>1, CallersAre
  <2>3. PICK s \in State : s = WithSession(h) /\ Sound(s) /\ s.leases = h.leases /\ s.acks = h.acks
    BY <2>2, SessionAdded
  <2>4. Save(s) /\ caller' = [caller EXCEPT ![c] = Free] /\ UNCHANGED <<watch, hosted, now, log>>
    BY <1>6, <2>2, <2>3 DEF Start
  <2> QED
    BY <2>1, <2>2, <2>3, <2>4, Saves
<1>7. ASSUME NEW r \in Resources, BeginClaim(c, r)
      PROVE  CollabInv'
  <2>1. PICK to : to = [pc |-> "calling", kind |-> "claim", held |-> Loaded, resource |-> r]
    OBVIOUS
  <2>2. to \in Active /\ to.pc = "calling" /\ to.held = Loaded
    BY <2>1, LoadedIs DEF Active, Claiming, Phases
  <2> QED
    BY <1>7, <2>1, <2>2, Begins DEF BeginClaim
<1>8. CASE EnsureWorkSession(c)
  <2>1. PICK r \in Active : r = caller[c] /\ r.pc = "calling" /\ r.kind = "claim"
    BY <1>8, CallersAre DEF EnsureWorkSession, Calling, Phases
  <2>2. PICK h \in State : h = caller[c].held /\ Sound(h)
    BY <2>1, CallersAre DEF Phases
  <2>3. PICK s \in State : s = WithSession(h) /\ Sound(s) /\ s.leases = h.leases /\ s.acks = h.acks
    BY <2>2, SessionAdded
  <2>4. PICK to : to = [r EXCEPT !.held = s]
    OBVIOUS
  <2>5. to \in Active /\ to.held = s /\ to.pc = "calling"
    <3>1. r \in Claiming
      BY <2>1 DEF Active, Guarding, Running, Planning
    <3> QED
      BY <2>1, <2>4, <3>1 DEF Active, Claiming
  <2>6. /\ Save(s) /\ caller' = [caller EXCEPT ![c] = to]
        /\ UNCHANGED <<watch, hosted, now, log>>
    <3>1. caller' = [caller EXCEPT ![c] = [caller[c] EXCEPT !.held = s]]
      BY <1>8, <2>2, <2>3 DEF EnsureWorkSession, CollabInv, CollabTypes
    <3> QED
      BY <1>8, <2>1, <2>2, <2>3, <2>4, <3>1 DEF EnsureWorkSession
  <2> QED
    BY <2>1, <2>2, <2>3, <2>5, <2>6, Saves DEF Phases
<1>9. ASSUME NEW answer \in Replies, Claim(c, answer)
      PROVE  CollabInv'
  <2>1. PICK r \in Active : r = caller[c] /\ r.pc = "calling" /\ r.kind = "claim"
    BY <1>9, CallersAre DEF Claim, Calling, Phases
  <2>2. PICK h \in State : h = caller[c].held /\ Sound(h) /\ h = r.held
    BY <2>1, CallersAre DEF Phases
  <2>3. PICK session \in SessionIds :
          session = h.session /\ \A p \in Plans : session = PlanSession(p) => p \in h.sessions
    BY <1>9, <2>2 DEF Claim, State, Sound
  <2>4. PICK rs \in SUBSET Resources : rs = {r.resource}
    BY <2>1 DEF Active, Guarding, Running, Planning, Claiming
  <2>5. Claimed(c, h, Claims(rs, log.ids + 1, session, PlanLeaseLife), {}, answer)
    BY <1>9, <2>1, <2>2, <2>3, <2>4 DEF Claim
  <2> QED
    BY <2>1, <2>2, <2>3, <2>5, AfterClaim
<1>10. ASSUME NEW p \in Plans, NEW kind \in {"startPlan", "releasePlan"}, BeginPlan(c, kind, p)
       PROVE  CollabInv'
  <2>1. PICK to : to = [pc |-> "calling", kind |-> kind, held |-> Loaded, plan |-> p]
    OBVIOUS
  <2>2. to \in Active /\ to.pc = "calling" /\ to.held = Loaded
    BY <2>1, LoadedIs DEF Active, Planning, Phases
  <2> QED
    BY <1>10, <2>1, <2>2, Begins DEF BeginPlan
<1>11. ASSUME NEW online \in BOOLEAN, NEW answer \in Replies, StartPlan(c, online, answer)
       PROVE  CollabInv'
  <2>1. PICK r \in Active : r = caller[c] /\ r.pc = "calling" /\ r.kind = "startPlan"
    BY <1>11, CallersAre DEF StartPlan, Calling, Phases
  <2>2. PICK h \in State : h = caller[c].held /\ Sound(h)
    BY <2>1, CallersAre DEF Phases
  <2>3. PICK p \in Plans : p = r.plan
    BY <2>1 DEF Active, Guarding, Running, Planning, Claiming
  <2>4. PICK ss \in SUBSET Plans : ss = IF online THEN h.sessions \cup {p} ELSE h.sessions
    BY DEF State
  <2>5. PICK session \in SessionIds : session = IF online THEN PlanSession(p) ELSE SessionOf(h, p)
    BY SessionsDiffer DEF SessionOf
  <2>6. PICK s : s = [h EXCEPT !.sessions = ss, !.session = session]
    OBVIOUS
  <2>7. s \in State /\ s.session = session /\ s.sessions = ss /\ s.leases = h.leases /\ s.acks = h.acks
    BY <2>6 DEF State
  <2>8. \A q \in Plans : session = PlanSession(q) => q \in ss
    BY <2>4, <2>5, SessionsDiffer DEF SessionOf
  <2>9. Sound(s)
    BY <2>2, <2>4, <2>7, <2>8 DEF Sound
  <2>10. PICK rs \in SUBSET Resources : rs = {ResourceOf[p]}
    <3>1. ResourceOf[p] \in Resources
      BY CollaborationShape
    <3> QED
      BY <3>1
  <2>11. Claimed(c, s, Claims(rs, log.ids + 1, session, PlanLeaseLife),
                 Claims(rs, 0, session, PlanLeaseLife), answer)
    <3>1. s = [h EXCEPT !.sessions = IF online THEN @ \cup {p} ELSE @,
                        !.session = IF online THEN PlanSession(p) ELSE SessionOf(h, p)]
      BY <2>4, <2>5, <2>6
    <3> QED
      BY <1>11, <2>1, <2>2, <2>3, <2>7, <2>10, <3>1 DEF StartPlan
  <2> QED
    BY <2>1, <2>2, <2>7, <2>8, <2>9, <2>11, AfterClaim
<1>12. ASSUME NEW kind \in {"releaseAll", "releaseOne"}, BeginRelease(c, kind)
       PROVE  CollabInv'
  <2>1. PICK to : to = [pc |-> "calling", kind |-> kind, held |-> Loaded]
    OBVIOUS
  <2>2. to \in Active /\ to.pc = "calling" /\ to.held = Loaded
    BY <2>1, LoadedIs DEF Active, Running, Phases
  <2> QED
    BY <1>12, <2>1, <2>2, Begins DEF BeginRelease
<1>13. ASSUME NEW reached \in SUBSET hosted, Release(c, reached)
       PROVE  CollabInv'
  BY <1>13, Released
<1>14. CASE SaveCommand(c)
  <2>1. caller[c].pc \in Phases
    BY <1>14 DEF SaveCommand, Call, Phases
  <2>2. PICK h \in State : h = caller[c].held /\ Sound(h)
    BY <2>1, CallersAre
  <2>3. Save(h) /\ caller' = [caller EXCEPT ![c] = Free] /\ UNCHANGED <<watch, hosted, now, log>>
    BY <1>14, <2>2 DEF SaveCommand, Call
  <2> QED
    BY <2>1, <2>2, <2>3, Saves
<1>15. CASE StopCommand(c)
  <2>1. caller[c].pc \in Phases
    BY <1>15, CallersAre, ActiveIsNotFree DEF StopCommand
  <2> QED
    BY <1>15, <2>1, Leaves DEF StopCommand
<1> QED
  BY <1>1, <1>2, <1>3, <1>4, <1>5, <1>6, <1>7, <1>8, <1>9, <1>10, <1>11, <1>12, <1>13, <1>14, <1>15
     DEF Command

-----------------------------------------------------------------------------
(* The watch, and time. *)

LEMMA CallersStay ==
  ASSUME CollabInv, Later, caller' = caller
  PROVE  \A c \in Callers : caller'[c] # Free => Sound(caller[c].held)'
<1> SUFFICES ASSUME NEW c \in Callers, caller[c] # Free PROVE Sound(caller[c].held)'
  OBVIOUS
<1>1. PICK s \in State : s = caller[c].held /\ Sound(s)
  BY CallersAre
<1>2. Sound(s)'
  BY <1>1, SoundLater DEF CollabInv
<1> QED
  BY <1>1, <1>2

LEMMA StartWatchStep ==
  ASSUME CollabInv, StartWatch
  PROVE  CollabInv'
<1>1. PICK o \in BOOLEAN : o = \E c \in Callers : caller[c].pc # "free"
  OBVIOUS
<1>2. PICK k \in BOOLEAN : k = \A c \in Callers : caller[c].pc = "free"
  OBVIOUS
<1>3. PICK u : u = Unexpired(shared)
  OBVIOUS
<1>4. PICK w : w = [on |-> TRUE, held |-> u, target |-> {}, due |-> TRUE, calm |-> k]
  OBVIOUS
<1>5. /\ ~watch.on /\ watch' = w /\ log' = [log EXCEPT !.commands = @ + 1, !.overlap = @ \/ o]
      /\ UNCHANGED <<shared, caller, hosted, now>>
  BY <1>1, <1>2, <1>3, <1>4 DEF StartWatch
<1>6. /\ log' \in CollabLogs /\ log'.ids = log.ids /\ log'.given = log.given
      /\ log'.used = log.used /\ log'.reused = log.reused /\ log'.lost = log.lost
      /\ ~log'.overlap => ~log.overlap /\ ~o
  BY <1>5, LogBegins DEF CollabInv, CollabTypes
<1>7. Quiet
  BY <1>5, <1>6 DEF Quiet
<1>8. PICK f \in State : f = shared /\ Sound(f)
  BY DEF CollabInv, CollabTypes, SoundCopies
<1>9. u \in State /\ Sound(u) /\ (Unused(f) => Unused(u)) /\ (Agrees(f) => Agrees(u))
      /\ u.leases = {l \in f.leases : l.expires > now}
  BY <1>3, <1>8, UnexpiredAgrees, UnexpiredLessens
<1>10. w \in Watches /\ w.held = u /\ w.target = {} /\ w.due = TRUE
  BY <1>4, <1>9 DEF Watches
<1>11. CollabTypes'
  BY <1>5, <1>6, <1>10 DEF CollabInv, CollabTypes
<1>12. SoundCopies'
  <2>1. Sound(f)' /\ Sound(u)'
    BY <1>7, <1>8, <1>9, QuietKeeps
  <2>2. \A c \in Callers : caller'[c] # Free => Sound(caller[c].held)'
    BY <1>5, <1>7, CallersStay, QuietKeeps
  <2> QED
    BY <1>5, <1>8, <1>10, <2>1, <2>2 DEF SoundCopies
<1>13. ASSUME ~log'.overlap
       PROVE  (\A c \in Callers : caller[c] = Free) /\ ~log.overlap
  <2>1. \A c \in Callers : caller[c].pc = "free"
    BY <1>1, <1>6, <1>13
  <2> QED
    BY <1>6, <1>13, <2>1, CallersAre DEF Phases
<1>14. NoOverlap'
  <2> SUFFICES ASSUME ~log'.overlap PROVE NoOverlap'
    BY DEF NoOverlap
  <2>1. Unused(f) /\ Unused(u) /\ ~log.reused
    BY <1>8, <1>9, <1>13 DEF CollabInv, NoOverlap
  <2>2. Unused(f)' /\ Unused(u)'
    BY <1>7, <1>8, <1>9, <2>1, QuietKeeps
  <2> QED
    BY <1>5, <1>6, <1>8, <1>10, <1>13, <2>1, <2>2 DEF NoOverlap
<1>15. NothingLost'
  <2> SUFFICES ASSUME Sure' PROVE NothingLost'
    BY DEF NothingLost
  <2>1. Sure /\ \A c \in Callers : caller[c] = Free
    BY <1>6, <1>13 DEF Sure
  <2>2. Agrees(f) /\ Agrees(u)
    BY <1>8, <1>9, <2>1, ActiveIsNotFree DEF CollabInv, NothingLost, Phases
  <2>3. Agrees(f)' /\ Agrees(u)'
    BY <1>7, <1>8, <1>9, <2>2, QuietKeeps
  <2>4. Covered'
    <3>1. \A l \in u.leases : l.id # 0 => \E h \in hosted : Copied(h, l)
      BY <1>9, <2>2 DEF Agrees
    <3> QED
      BY <1>5, <1>10, <3>1 DEF Covered, Lasts
  <2>5. \A c \in Callers : caller'[c].pc # "saving"
    BY <1>5, <2>1, ActiveIsNotFree DEF Phases
  <2> QED
    BY <1>5, <1>8, <1>10, <2>1, <2>3, <2>4, <2>5 DEF NothingLost
<1> QED
  BY <1>7, <1>11, <1>12, <1>14, <1>15, QuietKeeps DEF CollabInv

\* Nothing happens, or the watch ends.
LEMMA QuietStep ==
  ASSUME CollabInv, UNCHANGED <<shared, caller, hosted, now, log>>,
         watch' = watch \/ watch' = [on |-> FALSE]
  PROVE  CollabInv'
<1>1. Quiet /\ (watch'.on => watch' = watch)
  BY DEF Quiet
<1>2. CollabTypes'
  BY DEF CollabInv, CollabTypes
<1>3. SoundCopies'
  <2>1. PICK f \in State : f = shared /\ Sound(f)
    BY DEF CollabInv, CollabTypes, SoundCopies
  <2>2. Sound(f)'
    BY <1>1, <2>1, QuietKeeps
  <2>3. \A c \in Callers : caller'[c] # Free => Sound(caller[c].held)'
    BY <1>1, CallersStay, QuietKeeps
  <2>4. ASSUME watch'.on PROVE Sound(watch.held)'
    <3>1. PICK s \in State : s = watch.held /\ Sound(s)
      BY <1>1, <2>4, WatchIs DEF CollabInv, CollabTypes, SoundCopies
    <3>2. Sound(s)'
      BY <1>1, <3>1, QuietKeeps
    <3> QED
      BY <1>1, <2>4, <3>1, <3>2
  <2> QED
    BY <2>1, <2>2, <2>3, <2>4 DEF SoundCopies
<1>4. NoOverlap'
  BY <1>1 DEF CollabInv, NoOverlap, Unused
<1>5. NothingLost'
  <2>1. Sure' => Sure
    BY DEF Sure
  <2>2. ASSUME watch'.on, watch.calm, Covered PROVE Covered'
    BY <1>1, <2>2 DEF Covered, Lasts
  <2> QED
    BY <1>1, <2>1, <2>2 DEF CollabInv, NothingLost, Agrees, Ended
<1> QED
  BY <1>1, <1>2, <1>3, <1>4, <1>5, QuietKeeps DEF CollabInv

\* A lease that has not run out has not run out at the service.
LEMMA TimePasses ==
  ASSUME CollabInv, CollabTick
  PROVE  CollabInv'
<1>1. /\ log \in CollabLogs /\ log.ids \in Nat /\ now \in Nat /\ hosted \in SUBSET Lease
      /\ now' = now + 1 /\ now' \in Nat /\ now < now'
  BY DEF CollabInv, CollabTypes, CollabLogs, CollabTick
<1>2. /\ hosted' = {k \in hosted : k.expires > now'} /\ shared' = shared /\ caller' = caller /\ log' = log
      /\ watch.on => ~watch.due
  BY DEF CollabTick
<1>3. Later
  BY <1>1, <1>2 DEF Later, Twins
<1>4. /\ watch' \in {[on |-> FALSE]} \cup Watches
      /\ watch'.on => /\ watch.on /\ watch'.due = TRUE /\ watch'.held = watch.held
                      /\ watch'.target = watch.target /\ watch'.calm = watch.calm
  <2>1. CASE watch.on
    <3>1. PICK w \in Watches : w = watch
      BY <2>1, WatchIs DEF CollabInv, CollabTypes
    <3>2. watch' = [w EXCEPT !.due = TRUE]
      BY <2>1, <3>1 DEF CollabTick
    <3> QED
      BY <2>1, <3>1, <3>2 DEF Watches
  <2>2. CASE ~watch.on
    BY <2>2 DEF CollabTick, CollabInv, CollabTypes
  <2> QED
    BY <2>1, <2>2
<1>5. CollabTypes'
  BY <1>1, <1>2, <1>4 DEF CollabInv, CollabTypes
<1>6. ASSUME NEW s \in State, Sound(s)
      PROVE  Sound(s)' /\ (Agrees(s) => Agrees(s)') /\ (Unused(s) => Unused(s)')
  <2>1. Sound(s)'
    BY <1>3, <1>6, SoundLater DEF CollabInv
  <2>2. ASSUME Agrees(s) PROVE Agrees(s)'
    <3>1. ASSUME NEW l \in s.leases, l.id # 0, now' < l.expires PROVE \E k \in hosted' : Copied(k, l)
      <4>1. l \in Lease /\ l.expires \in Nat
        BY DEF State, Lease
      <4>2. PICK k \in hosted : Copied(k, l)
        BY <1>1, <2>2, <3>1, <4>1 DEF Agrees
      <4>3. Twins(k, l) /\ l.expires = l.claimed + l.life
        BY <1>6, <3>1, <4>2 DEF Sound, Copied
      <4>4. k.claimed + k.life <= k.expires /\ k.expires \in Nat
        BY <1>1 DEF CollabInv, HostedOK, Lease
      <4>5. k.expires > now'
        BY <1>1, <3>1, <4>1, <4>3, <4>4 DEF Twins
      <4> QED
        BY <1>2, <4>2, <4>5
    <3>2. ASSUME NEW k \in hosted', now' < k.claimed + k.life PROVE \E l \in s.leases : Copied(k, l)
      <4>1. k \in hosted /\ k.claimed + k.life \in Nat
        BY <1>1, <1>2, CollaborationShape DEF Lease
      <4> QED
        BY <1>1, <2>2, <3>2, <4>1 DEF Agrees
    <3> QED
      BY <3>1, <3>2 DEF Agrees
  <2> QED
    BY <1>2, <2>1, <2>2 DEF Unused
<1>7. PICK f \in State : f = shared /\ Sound(f)
  BY DEF CollabInv, CollabTypes, SoundCopies
<1>8. ASSUME watch'.on
      PROVE  \E s \in State : s = watch.held /\ s = watch'.held /\ Sound(s)
  BY <1>4, <1>8, WatchIs DEF CollabInv, CollabTypes, SoundCopies
<1>9. SoundCopies'
  <2>1. \A c \in Callers : caller'[c] # Free => Sound(caller[c].held)'
    BY <1>2, <1>3, CallersStay
  <2>2. Sound(shared)'
    BY <1>2, <1>6, <1>7
  <2>3. ASSUME watch'.on PROVE Sound(watch.held)'
    <3>1. PICK s \in State : s = watch'.held /\ Sound(s)
      BY <1>8, <2>3
    <3>2. Sound(s)'
      BY <1>6, <3>1
    <3> QED
      BY <3>1, <3>2
  <2> QED
    BY <2>1, <2>2, <2>3 DEF SoundCopies
<1>10. HostedOK'
  <2> SUFFICES ASSUME NEW k \in hosted'
               PROVE  /\ 1 <= k.id /\ k.id <= log.ids /\ k.claimed <= now'
                      /\ k.claimed + k.life <= k.expires /\ now' < k.expires
    BY <1>2 DEF HostedOK
  <2>1. k \in hosted /\ k.claimed \in Nat /\ k.expires \in Nat
    BY <1>1, <1>2 DEF Lease
  <2> QED
    BY <1>1, <1>2, <2>1 DEF CollabInv, HostedOK
<1>11. AcksOK'
  <2>1. \A g \in log.given : g.expires <= now' + AckLife
    <3> TAKE g \in log.given
    <3>1. g.expires \in Nat /\ g.expires <= now + AckLife /\ AckLife \in Nat
      BY <1>1, CollaborationShape DEF CollabInv, AcksOK, CollabLogs, Ack
    <3> QED
      BY <1>1, <3>1
  <2> QED
    BY <1>2, <2>1 DEF CollabInv, AcksOK
<1>12. NoOverlap'
  BY <1>2, <1>4 DEF CollabInv, NoOverlap, Unused
<1>13. NothingLost'
  <2> SUFFICES ASSUME Sure' PROVE NothingLost'
    BY DEF NothingLost
  <2>1. Sure
    BY <1>2 DEF Sure
  <2>2. ASSUME \A c \in Callers : caller'[c].pc # "saving" PROVE Agrees(shared)'
    <3>1. Agrees(f)
      BY <1>2, <1>7, <2>1, <2>2 DEF CollabInv, NothingLost
    <3> QED
      BY <1>2, <1>6, <1>7, <3>1
  <2>3. ASSUME NEW c \in Callers, caller'[c] # Free PROVE Agrees(caller[c].held)'
    <3>1. PICK s \in State : s = caller[c].held /\ Sound(s) /\ Agrees(s)
      BY <1>2, <2>1, <2>3, CallersAre
    <3>2. Agrees(s)'
      BY <1>6, <3>1
    <3> QED
      BY <1>2, <3>1, <3>2
  <2>4. ASSUME watch'.on PROVE Agrees(watch.held)' /\ (watch'.calm => Covered')
    <3>1. PICK s \in State : s = watch.held /\ s = watch'.held /\ Sound(s)
      BY <1>8, <2>4
    <3>2. Agrees(s)
      BY <1>4, <2>1, <2>4, <3>1 DEF CollabInv, NothingLost
    <3>3. Agrees(s)'
      BY <1>6, <3>1, <3>2
    <3>4. ASSUME watch'.calm PROVE Covered'
      <4>1. Covered
        BY <1>4, <2>1, <2>4, <3>4 DEF CollabInv, NothingLost
      <4>2. \A k \in hosted : Lasts(k) => k \in hosted' /\ Lasts(k)'
        BY <1>1, <1>2, <1>4, <2>4 DEF Lasts
      <4> QED
        BY <1>4, <2>4, <4>1, <4>2 DEF Covered
    <3> QED
      BY <3>1, <3>3, <3>4
  <2>5. ASSUME NEW c \in Callers, caller[c].pc = "saving", caller[c].kind = "releasePlan"
        PROVE  Ended(caller[c].plan)'
    <3>1. Ended(caller[c].plan)
      BY <2>1, <2>5 DEF CollabInv, NothingLost
    <3> SUFFICES ASSUME NEW k \in hosted', k.session = PlanSession(caller[c].plan)
                 PROVE  k.claimed + k.life <= now'
      BY <1>2 DEF Ended
    <3>2. k \in hosted /\ k.claimed + k.life \in Nat
      BY <1>1, <1>2, CollaborationShape DEF Lease
    <3> QED
      BY <1>1, <3>1, <3>2 DEF Ended
  <2> QED
    BY <1>2, <2>2, <2>3, <2>4, <2>5 DEF NothingLost
<1> QED
  BY <1>5, <1>9, <1>10, <1>11, <1>12, <1>13 DEF CollabInv

-----------------------------------------------------------------------------

\* In one copy, leases of the same number and resource are one lease.
LEMMA OneLease ==
  ASSUME NEW s \in State, Sound(s), NEW l \in s.leases, NEW g \in s.leases, l.id # 0, Copied(l, g)
  PROVE  l = g
<1>1. Twins(g, l) /\ l.expires = l.claimed + l.life /\ g.expires = g.claimed + g.life
  BY DEF Sound, Copied
<1>2. l \in Lease /\ g \in Lease
  BY DEF State
<1> QED
  BY <1>1, <1>2 DEF Twins, Copied, Lease

\* A lease of a claim made now.
Fresh(l, session, life) ==
  l.session = session /\ l.life = life /\ l.claimed = now /\ l.expires = now + life

LEMMA UnexpiredStays ==
  ASSUME NEW s \in State, NEW u, u = Unexpired(s), now \in Nat, now' = now,
         Sound(s)', HostedOK', hosted' \in SUBSET Lease
  PROVE  u \in State /\ Sound(u)' /\ (Agrees(s)' => Agrees(u)')
<1>1. Lessened(s, u) /\ u.leases = {l \in s.leases : l.expires > now}
  BY UnexpiredLessens
<1>2. u \in State /\ Sound(u)'
  BY <1>1 DEF Lessened, Sound
<1>3. ASSUME Agrees(s)' PROVE Agrees(u)'
  <2>1. ASSUME NEW l \in u.leases, l.id # 0, now < l.expires PROVE \E k \in hosted' : Copied(k, l)
    BY <1>1, <1>3, <2>1 DEF Agrees
  <2>2. ASSUME NEW k \in hosted', now < k.claimed + k.life PROVE \E l \in u.leases : Copied(k, l)
    <3>1. PICK l \in s.leases : Copied(k, l)
      BY <1>3, <2>2 DEF Agrees
    <3>2. k \in Lease /\ l \in Lease /\ 1 <= k.id
      BY DEF HostedOK, State
    <3>3. l.id # 0
      BY <3>1, <3>2 DEF Copied, Lease
    <3>4. Twins(k, l) /\ l.expires = l.claimed + l.life
      BY <3>1, <3>3 DEF Sound, Copied
    <3>5. l.expires > now
      BY <2>2, <3>2, <3>4 DEF Twins, Lease
    <3> QED
      BY <1>1, <3>1, <3>5
  <2> QED
    BY <2>1, <2>2 DEF Agrees
<1> QED
  BY <1>2, <1>3

\* What a tick leaves: a copy that is saved and kept, less what has run out.
Made(s) ==
  /\ hosted' \in SUBSET Lease /\ Later /\ HostedOK'
  /\ s \in State /\ Sound(s)' /\ s.acks = watch.held.acks
  /\ Sure' => Agrees(s)'
  /\ Sure' /\ watch'.calm => Covered'

\* A tick on the copy h, which it turns into s: M matches the target, S is stale.
TickOf(h, s, M, S, target) ==
  /\ watch.on /\ watch.due /\ h \in State /\ Sound(h) /\ s \in State
  /\ h.leases = watch.held.leases /\ h.acks = watch.held.acks /\ s.acks = h.acks
  /\ s.session = h.session /\ s.sessions = h.sessions
  /\ h.leases = M \cup S /\ M \cap S = {}
  /\ now' = now /\ log'.given = log.given /\ log'.used = log.used /\ (Sure' => Sure)
  /\ watch'.target = target /\ watch'.held.leases \subseteq s.leases /\ ~watch'.due

\* Without an answer, or with nothing to renew.
IdleOf(h, s, M, S, target) ==
  /\ \/ target = {} /\ s.leases = h.leases
     \/ s.leases = M /\ ~watch'.calm /\ (Sure' => Same(S) = {})
  /\ hosted' = hosted /\ log'.ids = log.ids
  /\ watch'.calm => (target = {} => h.leases = {})

\* The service renews what is changed, forgets what is not, and claims the rest, C.
BusyOf(h, s, M, S, C, target) ==
  /\ C \in SUBSET Lease /\ s.leases = M \cup C
  /\ \A l \in C : l.id = log.ids + 1 /\ Fresh(l, h.session, WatchLeaseLife)
  /\ \A r \in target : (\E l \in M : l.resource = r) \/ \E l \in C : l.resource = r
  /\ hosted' = {IF k \in Same(M) THEN [k EXCEPT !.expires = now + k.life] ELSE k
                  : k \in hosted \ Same(S)} \cup C
  /\ log'.ids = IF C = {} THEN log.ids ELSE log.ids + 1
  /\ watch'.calm => watch.calm /\ \A l \in h.leases : l.id # 0

LEMMA IdleTick ==
  ASSUME CollabInv, NEW h, NEW s, NEW M, NEW S, NEW target,
         TickOf(h, s, M, S, target), IdleOf(h, s, M, S, target)
  PROVE  Made(s)
<1> USE DEF TickOf, IdleOf
<1>1. Quiet
  BY DEF Quiet
<1>2. Lessened(h, s)
  BY DEF Lessened
<1>3. Sound(s)'
  BY <1>1, <1>2, SoundLessened, QuietKeeps
<1>4. ASSUME Sure' PROVE Agrees(s)'
  <2>1. Agrees(h)
    BY <1>4 DEF CollabInv, NothingLost, Agrees
  <2>2. CASE target = {} /\ s.leases = h.leases
    BY <2>1, <2>2 DEF Agrees
  <2>3. CASE s.leases = M /\ Same(S) = {}
    <3>1. \A k \in hosted : now < k.claimed + k.life => \E l \in M : Copied(k, l)
      <4> SUFFICES ASSUME NEW k \in hosted, now < k.claimed + k.life PROVE \E l \in M : Copied(k, l)
        OBVIOUS
      <4>1. PICK l \in h.leases : Copied(k, l)
        BY <2>1 DEF Agrees
      <4>2. l \notin S
        BY <2>3, <4>1 DEF Same, Copied
      <4> QED
        BY <4>1, <4>2
    <3> QED
      BY <2>1, <2>3, <3>1 DEF Agrees
  <2> QED
    BY <1>4, <2>2, <2>3
<1>5. ASSUME Sure', watch'.calm PROVE Covered'
  <2>1. target = {} /\ s.leases = {}
    BY <1>5
  <2> QED
    BY <2>1 DEF Covered
<1> QED
  BY <1>1, <1>3, <1>4, <1>5, QuietKeeps DEF Made

LEMMA BusyTick ==
  ASSUME CollabInv, NEW h, NEW s, NEW M, NEW S, NEW C, NEW target,
         TickOf(h, s, M, S, target), BusyOf(h, s, M, S, C, target)
  PROVE  Made(s)
<1> USE DEF TickOf, BusyOf
<1>1. /\ log.ids \in Nat /\ log'.ids \in Nat /\ now \in Nat /\ hosted \in SUBSET Lease
      /\ WatchLeaseLife \in Nat \ {0, 1} /\ PlanLeaseLife \in Nat \ {0, 1}
      /\ C # {} => log'.ids = log.ids + 1
  BY CollaborationShape DEF CollabInv, CollabTypes, CollabLogs
<1>2. \A k \in hosted : /\ k \in Lease /\ k.id \in Nat /\ k.life \in Nat \ {0, 1} /\ k.claimed \in Nat
                        /\ k.expires \in Nat /\ k.id <= log.ids /\ 1 <= k.id /\ k.claimed <= now
                        /\ k.claimed + k.life <= k.expires /\ now < k.expires
  BY <1>1 DEF Lease, CollabInv, HostedOK
<1>3. ASSUME NEW k \in hosted
      PROVE  /\ [k EXCEPT !.expires = now + k.life] \in Lease
             /\ Twins([k EXCEPT !.expires = now + k.life], k)
             /\ Copied([k EXCEPT !.expires = now + k.life], k)
             /\ [k EXCEPT !.expires = now + k.life].expires = now + k.life
  <2>1. PICK n \in Nat : n = now + k.life
    BY <1>1, <1>2
  <2> QED
    BY <1>2, <2>1 DEF Lease, Twins, Copied
\* Every lease is an old one, or was claimed now.
<1>4. ASSUME NEW k \in hosted'
      PROVE  k \in C \/ \E g \in hosted : /\ g \notin Same(S) /\ k \in Lease /\ Copied(k, g) /\ Twins(k, g)
                                          /\ k.expires = g.expires \/ k.expires = now + g.life
  <2> SUFFICES ASSUME k \notin C
               PROVE  \E g \in hosted : /\ g \notin Same(S) /\ k \in Lease /\ Copied(k, g) /\ Twins(k, g)
                                        /\ k.expires = g.expires \/ k.expires = now + g.life
    OBVIOUS
  <2>1. PICK g \in hosted \ Same(S) :
          k = IF g \in Same(M) THEN [g EXCEPT !.expires = now + g.life] ELSE g
    OBVIOUS
  <2>2. CASE g \in Same(M)
    BY <1>3, <2>1, <2>2
  <2>3. CASE g \notin Same(M)
    BY <1>2, <2>1, <2>3 DEF Copied, Twins
  <2> QED
    BY <2>2, <2>3
\* What is not stale is kept, and renewed if it matches.
<1>5. ASSUME NEW g \in hosted, g \notin Same(S)
      PROVE  \E k \in hosted' : Copied(k, g) /\ (g \in Same(M) => k.expires = now + g.life)
  <2>1. CASE g \in Same(M)
    <3>1. [g EXCEPT !.expires = now + g.life] \in hosted'
      BY <1>5, <2>1
    <3> QED
      BY <1>3, <3>1
  <2>2. CASE g \notin Same(M)
    <3>1. g \in hosted'
      BY <1>5, <2>2
    <3> QED
      BY <2>2, <3>1 DEF Copied
  <2> QED
    BY <2>1, <2>2
<1>6. C \subseteq hosted'
  OBVIOUS
<1>7. hosted' \in SUBSET Lease
  BY <1>4
<1>8. Later
  <2>1. \A k \in hosted' : \/ \E g \in hosted : g.id = k.id /\ Twins(g, k)
                           \/ log.ids < k.id /\ k.id \in Nat
    <3> TAKE k \in hosted'
    <3>1. CASE k \in C
      BY <1>1, <3>1
    <3>2. CASE k \notin C
      BY <1>4, <3>2 DEF Copied, Twins
    <3> QED
      BY <3>1, <3>2
  <2> QED
    BY <1>1, <2>1 DEF Later
<1>9. HostedOK'
  <2> SUFFICES ASSUME NEW k \in hosted'
               PROVE  /\ 1 <= k.id /\ k.id <= log'.ids /\ k.claimed <= now
                      /\ k.claimed + k.life <= k.expires /\ now < k.expires
    BY DEF HostedOK
  <2>1. CASE k \in C
    BY <1>1, <2>1 DEF Fresh
  <2>2. CASE k \notin C
    <3>1. PICK g \in hosted : /\ Copied(k, g) /\ Twins(k, g)
                              /\ k.expires = g.expires \/ k.expires = now + g.life
      BY <1>4, <2>2
    <3>2. k.id = g.id /\ k.claimed = g.claimed /\ k.life = g.life
      BY <3>1 DEF Copied, Twins
    <3> QED
      BY <1>1, <1>2, <3>1, <3>2
  <2> QED
    BY <2>1, <2>2
<1>10. Sound(h)'
  BY <1>8, SoundLater DEF CollabInv
<1>11. \A l \in C : l.id \in Nat /\ l.id = log.ids + 1 /\ l.id > log.ids
  BY <1>1
<1>12. ASSUME NEW l \in s.leases
       PROVE  /\ l.id <= log'.ids /\ l.claimed <= now /\ l.expires = l.claimed + l.life
              /\ \A p \in Plans : l.session = PlanSession(p) => p \in s.sessions
              /\ l.id # 0 => \A k \in hosted' \cup s.leases : k.id = l.id => Twins(k, l)
  <2>1. CASE l \in C
    <3>1. ASSUME NEW k \in hosted' \cup s.leases, k.id = l.id PROVE Twins(k, l)
      <4>1. CASE k \in C
        BY <2>1, <4>1 DEF Fresh, Twins
      <4>2. CASE k \in hosted' /\ k \notin C
        <5>1. PICK g \in hosted : g.id = k.id
          BY <1>4, <4>2 DEF Copied
        <5> QED
          BY <1>1, <1>2, <1>11, <2>1, <3>1, <5>1
      <4>3. CASE k \in h.leases
        <5>1. k.id \in Nat /\ k.id <= log.ids
          BY <4>3 DEF Sound, State, Lease
        <5> QED
          BY <1>1, <1>11, <2>1, <3>1, <5>1
      <4> QED
        BY <4>1, <4>2, <4>3
    <3>2. l.id <= log'.ids /\ l.claimed <= now /\ l.expires = l.claimed + l.life
      BY <1>1, <2>1 DEF Fresh
    <3>3. \A p \in Plans : l.session = PlanSession(p) => p \in s.sessions
      BY <2>1 DEF Fresh, Sound
    <3> QED
      BY <3>1, <3>2, <3>3
  <2>2. CASE l \in h.leases
    <3>1. l.id \in Nat /\ l.id <= log.ids
      BY <2>2 DEF Sound, State, Lease
    <3>2. ASSUME l.id # 0, NEW k \in hosted' \cup s.leases, k.id = l.id PROVE Twins(k, l)
      <4>1. k \notin C
        BY <1>1, <1>11, <3>1, <3>2
      <4> QED
        BY <1>10, <2>2, <3>2, <4>1 DEF Sound
    <3> QED
      BY <1>10, <2>2, <3>2 DEF Sound
  <2> QED
    BY <2>1, <2>2
<1>13. Sound(s)'
  BY <1>10, <1>12 DEF Sound
\* A lease that matches is not stale.
<1>14. ASSUME NEW l \in M, l.id # 0, NEW g \in hosted, Copied(g, l)
       PROVE  g \notin Same(S) /\ g \in Same(M)
  <2>1. g \in Same(M)
    BY <1>14 DEF Same, Copied
  <2>2. ASSUME g \in Same(S) PROVE FALSE
    <3>1. PICK f \in S : f.id = g.id /\ f.resource = g.resource
      BY <2>2 DEF Same
    <3>2. l = f
      BY <1>14, <3>1, OneLease DEF Copied
    <3> QED
      BY <3>1, <3>2
  <2> QED
    BY <2>1, <2>2
<1>15. ASSUME Sure' PROVE Agrees(s)'
  <2>1. Agrees(h)
    BY <1>15 DEF CollabInv, NothingLost, Agrees
  <2>2. ASSUME NEW l \in s.leases, l.id # 0, now < l.expires PROVE \E k \in hosted' : Copied(k, l)
    <3>1. CASE l \in C
      BY <1>6, <3>1 DEF Copied
    <3>2. CASE l \in M
      <4>1. PICK g \in hosted : Copied(g, l)
        BY <2>1, <2>2, <3>2 DEF Agrees
      <4>2. PICK k \in hosted' : Copied(k, g)
        BY <1>5, <1>14, <2>2, <3>2, <4>1
      <4> QED
        BY <4>1, <4>2 DEF Copied
    <3> QED
      BY <3>1, <3>2
  <2>3. ASSUME NEW k \in hosted', now < k.claimed + k.life PROVE \E l \in s.leases : Copied(k, l)
    <3>1. CASE k \in C
      BY <3>1 DEF Copied
    <3>2. CASE k \notin C
      <4>1. PICK g \in hosted : g \notin Same(S) /\ Copied(k, g) /\ Twins(k, g)
        BY <1>4, <3>2
      <4>2. PICK l \in h.leases : Copied(g, l)
        BY <2>1, <2>3, <4>1 DEF Agrees, Twins
      <4>3. l \in M
        BY <4>1, <4>2 DEF Same, Copied
      <4> QED
        BY <4>1, <4>2, <4>3 DEF Copied
    <3> QED
      BY <3>1, <3>2
  <2> QED
    BY <2>2, <2>3 DEF Agrees
<1>16. ASSUME Sure', watch'.calm PROVE Covered'
  <2>1. Covered /\ \A l \in h.leases : l.id # 0
    BY <1>16 DEF CollabInv, NothingLost
  <2>2. ASSUME NEW l \in s.leases
        PROVE  \E k \in hosted' : Copied(k, l) /\ now + 1 < k.expires
    <3>1. CASE l \in C
      BY <1>1, <1>6, <3>1 DEF Copied, Fresh
    <3>2. CASE l \in M
      <4>1. PICK g \in hosted : Copied(g, l)
        BY <2>1, <3>2 DEF Covered
      <4>2. PICK k \in hosted' : Copied(k, g) /\ k.expires = now + g.life
        BY <1>5, <1>14, <2>1, <3>2, <4>1
      <4>3. now + 1 < now + g.life
        BY <1>1, <1>2
      <4> QED
        BY <4>1, <4>2, <4>3 DEF Copied
    <3> QED
      BY <3>1, <3>2
  <2>3. ASSUME NEW r \in target PROVE \E k \in hosted' : k.resource = r /\ now + 1 < k.expires
    <3>1. PICK l \in s.leases : l.resource = r
      OBVIOUS
    <3> QED
      BY <2>2, <3>1 DEF Copied
  <2> QED
    BY <2>2, <2>3 DEF Covered, Lasts
<1> QED
  BY <1>7, <1>8, <1>9, <1>13, <1>15, <1>16 DEF Made

LEMMA TickStep ==
  ASSUME CollabInv, NEW target \in WatchTargets, NEW online \in BOOLEAN, WatchTick(target, online)
  PROVE  CollabInv'
<1>1. /\ log \in CollabLogs /\ log.ids \in Nat /\ now \in Nat /\ hosted \in SUBSET Lease
      /\ watch.on /\ watch.due /\ target \in SUBSET Resources
  BY CollaborationShape DEF WatchTick, CollabInv, CollabTypes, CollabLogs
<1>2. PICK w \in Watches : w = watch /\ w.held \in State /\ Sound(w.held)
  BY <1>1, WatchIs DEF CollabInv, CollabTypes, SoundCopies
<1>3. PICK h \in State : /\ h = WithSession(watch.held) /\ Sound(h) /\ h.session \in SessionIds
                         /\ h.leases = watch.held.leases /\ h.acks = watch.held.acks
  <2>1. PICK h \in State : /\ h = WithSession(watch.held) /\ Sound(h) /\ h.session # NoSession
                           /\ h.leases = watch.held.leases /\ h.acks = watch.held.acks
    BY <1>2, SessionAdded
  <2> QED
    BY <2>1 DEF State
<1>4. PICK M : M = {l \in h.leases : l.resource \in target}
  OBVIOUS
<1>5. PICK S : S = h.leases \ M
  OBVIOUS
<1>6. PICK X \in SUBSET Resources : X = target \ {l.resource : l \in M}
  BY <1>1
<1>7. PICK C \in SUBSET Lease :
        /\ C = Claims(X, log.ids + 1, h.session, WatchLeaseLife)
        /\ \A l \in C : l.id = log.ids + 1 /\ Fresh(l, h.session, WatchLeaseLife) /\ l.resource \in X
        /\ \A r \in X : \E l \in C : l.resource = r
  <2>1. PICK i \in Nat : i = log.ids + 1
    BY <1>1
  <2>2. PICK session \in SessionIds : session = h.session
    BY <1>3
  <2>3. PICK C : C = Claims(X, i, session, WatchLeaseLife)
    OBVIOUS
  <2>4. /\ C \in SUBSET Lease
        /\ \A l \in C :
             /\ l.id = i /\ l.session = session /\ l.life = WatchLeaseLife /\ l.claimed = now
             /\ l.expires = now + WatchLeaseLife /\ l.resource \in X
        /\ \A r \in X : \E l \in C : l.resource = r
    <3>1. C \in SUBSET Lease
      BY <1>1, <2>3, ClaimsAre
    <3>2. \A l \in C :
             /\ l.id = i /\ l.session = session /\ l.life = WatchLeaseLife /\ l.claimed = now
             /\ l.expires = now + WatchLeaseLife /\ l.resource \in X
      BY <1>1, <2>3, ClaimsAre
    <3>3. \A r \in X : \E l \in C : l.resource = r
      BY <1>1, <2>3, ClaimsAre
    <3> QED
      BY <3>1, <3>2, <3>3
  <2> QED
    BY <2>1, <2>2, <2>3, <2>4 DEF Fresh
<1>8. PICK ls : ls = IF target = {} THEN h.leases ELSE M \cup IF online THEN C ELSE {}
  OBVIOUS
<1>9. PICK s : s = [h EXCEPT !.leases = ls]
  OBVIOUS
<1>10. /\ s \in State /\ s.leases = ls /\ s.acks = h.acks /\ s.session = h.session
       /\ s.sessions = h.sessions /\ (target = {} => s = h)
  <2>1. ls \in SUBSET Lease /\ M \subseteq h.leases
    BY <1>4, <1>8 DEF State
  <2> QED
    BY <1>8, <1>9, <2>1 DEF State
<1>11. PICK u : u = Unexpired(s)
  OBVIOUS
<1>12. PICK calm \in BOOLEAN :
         calm = (watch.calm /\ online /\ (\A l \in h.leases : l.id # 0) /\ (target = {} => h.leases = {}))
  OBVIOUS
<1>13. PICK o \in BOOLEAN : o = (~online /\ Same(S) # {})
  OBVIOUS
<1>14. PICK n \in Nat : n = IF online /\ X # {} THEN log.ids + 1 ELSE log.ids
  BY <1>1
<1>15. /\ hosted' = IF ~online \/ target = {} THEN hosted
                    ELSE {IF k \in Same(M) THEN [k EXCEPT !.expires = now + k.life] ELSE k
                            : k \in hosted \ Same(S)} \cup C
       /\ shared' = u
       /\ watch' = [w EXCEPT !.held = u, !.target = target, !.due = FALSE, !.calm = calm]
       /\ log' = [log EXCEPT !.ids = n, !.lost = @ \/ o]
       /\ caller' = caller /\ now' = now
  <2>1. s = IF target = {} THEN h ELSE [h EXCEPT !.leases = M \cup IF online THEN C ELSE {}]
    BY <1>8, <1>9, <1>10
  <2>2. X = target \ {l.resource : l \in M} /\ (online /\ X # {} <=> n # log.ids)
    BY <1>1, <1>6, <1>14
  <2>3. hosted' = IF ~online \/ target = {} THEN hosted
                  ELSE {IF k \in Same(M) THEN [k EXCEPT !.expires = now + k.life] ELSE k
                            : k \in hosted \ Same(S)} \cup C
    BY <1>3, <1>4, <1>5, <1>6, <1>7 DEF WatchTick, Renewed
  <2>4. shared' = u /\ caller' = caller /\ now' = now
    BY <1>3, <1>4, <1>6, <1>7, <1>11, <2>1 DEF WatchTick, Save
  <2>5. watch' = [w EXCEPT !.held = u, !.target = target, !.due = FALSE, !.calm = calm]
    BY <1>2, <1>3, <1>4, <1>6, <1>7, <1>11, <1>12, <2>1 DEF WatchTick
  <2>6. log' = [log EXCEPT !.ids = IF online /\ X # {} THEN @ + 1 ELSE @,
                           !.lost = @ \/ (~online /\ Same(S) # {})]
    BY <1>3, <1>4, <1>5, <1>6 DEF WatchTick
  <2>7. log' = [log EXCEPT !.ids = n, !.lost = @ \/ o]
    BY <1>13, <1>14, <2>6
  <2> QED
    BY <2>3, <2>4, <2>5, <2>7
<1>16. /\ log' \in CollabLogs /\ log'.ids = n /\ log'.given = log.given
       /\ log'.used = log.used /\ log'.reused = log.reused /\ log'.overlap = log.overlap
       /\ ~log'.lost => ~log.lost /\ ~o
  BY <1>1, <1>15, LogCalls
<1>17. u \in State /\ u.leases \subseteq s.leases /\ u.acks \subseteq s.acks
  BY <1>10, <1>11, UnexpiredLessens DEF Lessened
<1>18. /\ watch' \in Watches /\ watch'.held = u /\ watch'.target = target /\ watch'.due = FALSE
       /\ watch'.calm = calm /\ watch'.on /\ ~watch'.due /\ watch'.held.leases \subseteq s.leases
  <2>1. /\ watch' \in Watches /\ watch'.held = u /\ watch'.target = target /\ watch'.due = FALSE
        /\ watch'.calm = calm
    BY <1>1, <1>15, <1>17 DEF Watches
  <2> QED
    BY <1>17, <2>1, WatchIs
<1>19. /\ h.leases = M \cup S /\ M \cap S = {} /\ (Sure' => Sure)
  BY <1>4, <1>5, <1>16 DEF Sure
<1>20. Made(s)
  <2>1. TickOf(h, s, M, S, target)
    BY <1>1, <1>3, <1>10, <1>15, <1>16, <1>18, <1>19 DEF TickOf
  <2>2. CASE ~online \/ target = {}
    <3>1. target = {} => X = {}
      BY <1>6
    <3>2. log'.ids = log.ids /\ hosted' = hosted
      BY <1>14, <1>15, <1>16, <2>2, <3>1
    <3>3. \/ target = {} /\ s.leases = h.leases
          \/ s.leases = M /\ ~watch'.calm /\ (Sure' => Same(S) = {})
      BY <1>8, <1>10, <1>12, <1>13, <1>16, <1>18, <2>2 DEF Sure
    <3>4. watch'.calm => (target = {} => h.leases = {})
      BY <1>12, <1>18
    <3>5. IdleOf(h, s, M, S, target)
      BY <3>2, <3>3, <3>4 DEF IdleOf
    <3> QED
      BY <2>1, <3>5, IdleTick
  <2>3. CASE online /\ target # {}
    <3>1. s.leases = M \cup C
      BY <1>8, <1>10, <2>3
    <3>2. log'.ids = IF C = {} THEN log.ids ELSE log.ids + 1
      BY <1>7, <1>14, <1>16, <2>3
    <3>3. \A r \in target : (\E l \in M : l.resource = r) \/ \E l \in C : l.resource = r
      BY <1>6, <1>7
    <3>4. hosted' = {IF k \in Same(M) THEN [k EXCEPT !.expires = now + k.life] ELSE k
                       : k \in hosted \ Same(S)} \cup C
      BY <1>15, <2>3
    <3>5. watch'.calm => watch.calm /\ \A l \in h.leases : l.id # 0
      BY <1>12, <1>18
    <3>6. BusyOf(h, s, M, S, C, target)
      BY <1>7, <3>1, <3>2, <3>3, <3>4, <3>5 DEF BusyOf
    <3> QED
      BY <2>1, <3>6, BusyTick
  <2> QED
    BY <2>2, <2>3
<1>21. Sound(u)' /\ (Agrees(s)' => Agrees(u)')
  BY <1>1, <1>11, <1>15, <1>20, UnexpiredStays DEF Made
<1>22. CollabTypes'
  BY <1>15, <1>16, <1>17, <1>18, <1>20 DEF CollabInv, CollabTypes, Made
<1>23. SoundCopies'
  BY <1>15, <1>18, <1>20, <1>21, CallersStay DEF SoundCopies, Made
<1>24. AcksOK'
  BY <1>15, <1>16 DEF CollabInv, AcksOK
<1>25. NoOverlap'
  <2> SUFFICES ASSUME ~log'.overlap PROVE NoOverlap'
    BY DEF NoOverlap
  <2>1. /\ \A c \in Callers : caller[c] = Free
        /\ Unused(watch.held) /\ ~log.reused
    BY <1>1, <1>16 DEF CollabInv, NoOverlap
  <2>2. Unused(u)'
    BY <1>3, <1>10, <1>16, <1>17, <2>1 DEF Unused
  <2> QED
    BY <1>15, <1>16, <1>18, <2>1, <2>2 DEF NoOverlap
<1>26. NothingLost'
  <2> SUFFICES ASSUME Sure' PROVE NothingLost'
    BY DEF NothingLost
  <2>1. \A c \in Callers : caller'[c] = Free
    BY <1>1, <1>15, <1>19 DEF CollabInv, NoOverlap, Sure
  <2>2. Agrees(u)' /\ (watch'.calm => Covered')
    BY <1>20, <1>21 DEF Made
  <2>3. \A c \in Callers : caller'[c].pc # "saving"
    BY <2>1, ActiveIsNotFree DEF Phases
  <2> QED
    BY <1>15, <1>18, <2>1, <2>2, <2>3 DEF NothingLost
<1> QED
  BY <1>20, <1>22, <1>23, <1>24, <1>25, <1>26 DEF CollabInv, Made

LEMMA CollabStep ==
  ASSUME CollabInv, [CollabNext]_collabVars
  PROVE  CollabInv'
<1>1. ASSUME NEW c \in Callers, Command(c) PROVE CollabInv'
  BY <1>1, CommandStep
<1>2. CASE StartWatch
  BY <1>2, StartWatchStep
<1>3. ASSUME NEW target \in WatchTargets, NEW online \in BOOLEAN, WatchTick(target, online)
      PROVE  CollabInv'
  BY <1>3, TickStep
<1>4. CASE StopWatch
  BY <1>4, QuietStep DEF StopWatch
<1>5. CASE CollabTick
  BY <1>5, TimePasses
<1>6. CASE UNCHANGED collabVars
  BY <1>6, QuietStep DEF collabVars
<1> QED
  BY <1>1, <1>2, <1>3, <1>4, <1>5, <1>6 DEF CollabNext

LEMMA InitCollab == CollabInit => CollabInv
<1> SUFFICES ASSUME CollabInit PROVE CollabInv
  OBVIOUS
<1>1. /\ shared = [session |-> NoSession, sessions |-> {}, leases |-> {}, acks |-> {}]
      /\ caller = [c \in Callers |-> Free] /\ watch = [on |-> FALSE] /\ hosted = {} /\ now = 0
  BY DEF CollabInit
<1>2. PICK mix \in Alphabets :
        log = [mix |-> mix, commands |-> 0, ids |-> 0, given |-> {}, used |-> {}, reused |-> FALSE,
               overlap |-> FALSE, lost |-> FALSE]
  BY DEF CollabInit
<1>3. CollabTypes
  BY <1>1, <1>2 DEF CollabTypes, State, CollabLogs
<1>4. Sound(shared)
  BY <1>1, SessionsDiffer DEF Sound
<1>5. IsFiniteSet(log.given)
  BY <1>2, FS_EmptySet
<1>6. Agrees(shared) /\ Unused(shared)
  BY <1>1, <1>2 DEF Agrees, Unused
<1>7. SoundCopies /\ HostedOK /\ AcksOK /\ NoOverlap
  BY <1>1, <1>2, <1>4, <1>5, <1>6 DEF SoundCopies, HostedOK, AcksOK, NoOverlap
<1>8. NothingLost
  BY <1>1, <1>6, ActiveIsNotFree DEF NothingLost, Phases
<1> QED
  BY <1>3, <1>7, <1>8 DEF CollabInv

\* Only its own save ends a release that is not killed.
LEMMA SavingEnds ==
  ASSUME CollabInv, [CollabNext]_collabVars, NEW c \in Callers, caller[c].pc = "saving", caller'[c] = Free,
         ~log'.lost
  PROVE  SaveCommand(c)
<1>1. caller \in [Callers -> {Free} \cup Active] /\ caller'[c] # caller[c] /\ caller[c] # Free
  BY ActiveIsNotFree DEF CollabInv, CollabTypes, Phases
<1>2. PICK d \in Callers : Command(d)
  BY <1>1 DEF CollabNext, collabVars, StartWatch, WatchTick, StopWatch, CollabTick
<1>3. \A e \in Callers \ {d} : caller'[e] = caller[e]
  BY <1>1, <1>2 DEF Command, BeginGuard, GuardAcknowledges, GuardConsumes, GuardInvalidates,
                    GuardUnanswered, BeginStart, Start, BeginClaim, EnsureWorkSession, Claim,
                    BeginPlan, StartPlan, BeginRelease, Release, SaveCommand, StopCommand,
                    Load, Call, SavesGuard, Claimed
<1>4. d = c
  BY <1>1, <1>3
<1>5. ~StopCommand(c)
  <2>1. ASSUME StopCommand(c) PROVE FALSE
    BY <2>1 DEF StopCommand, CollabInv, CollabTypes, CollabLogs
  <2> QED
    BY <2>1
<1> QED
  BY <1>1, <1>2, <1>4, <1>5, ActiveIsNotFree
     DEF Command, BeginGuard, GuardAcknowledges, GuardConsumes, GuardInvalidates,
         GuardUnanswered, BeginStart, Start, BeginClaim, EnsureWorkSession, Claim,
         BeginPlan, StartPlan, BeginRelease, Release, Load, Call, Calling

\* The state file, every copy of it and what the service holds keep their shapes.
THEOREM CollabTypesOK == CollabSpec => []CollabTypeOK
<1>1. CollabInv => CollabTypeOK
  <2> SUFFICES ASSUME CollabInv PROVE CollabTypeOK
    OBVIOUS
  <2>1. \A s \in State : StateOK(s)
    BY DEF State, StateOK
  <2>2. \A c \in Callers : caller[c].pc # "free" =>
          caller[c].pc \in {"calling", "saving"} /\ StateOK(caller[c].held)
    BY <2>1, CallersAre, ActiveIsNotFree DEF Phases
  <2>3. watch.on => StateOK(watch.held)
    BY <2>1, WatchIs DEF CollabInv, CollabTypes
  <2> QED
    BY <2>1, <2>2, <2>3 DEF CollabTypeOK, CollabInv, CollabTypes
<1> QED
  BY <1>1, InitCollab, CollabStep, PTL DEF CollabSpec

\* A guard only passes a finding on an acknowledgement given for that very finding,
\* profile and action and not yet run out, and, unless commands overlapped, not used
\* before: however many commands, kills, findings and scopes there are.
THEOREM Acknowledgements == CollabSpec => []OnlyAcknowledgedFindingsPass
<1>1. CollabInv => OnlyAcknowledgedFindingsPass
  BY DEF CollabInv, AcksOK, NoOverlap, OnlyAcknowledgedFindingsPass
<1> QED
  BY <1>1, InitCollab, CollabStep, PTL DEF CollabSpec

\* What a calm watch found changed at its last tick is covered by a lease of the
\* service, for any resources and any leases that live two units of time or more.
THEOREM WatchCovers == CollabSpec => []WatchKeepsCovered
<1>1. CollabInv => WatchKeepsCovered
  <2> SUFFICES ASSUME CollabInv, watch.on, watch.calm, ~log.lost, ~log.overlap, NEW r \in watch.target
               PROVE  \E l \in hosted : l.resource = r /\ l.expires > now
    BY DEF WatchKeepsCovered
  <2>1. PICK k \in hosted : k.resource = r
    BY DEF CollabInv, NothingLost, Sure, Covered
  <2>2. k.expires > now
    BY DEF CollabInv, CollabTypes, HostedOK, Lease
  <2> QED
    BY <2>1, <2>2
<1> QED
  BY <1>1, InitCollab, CollabStep, PTL DEF CollabSpec

\* When the release of a workflow is saved, the service holds no claim of its session
\* within its first life.
THEOREM ReleaseEnds == CollabSpec => ReleaseEndsClaims
<1>1. ASSUME CollabInv, [CollabNext]_collabVars
      PROVE  [\A c \in Callers :
                /\ caller[c].pc = "saving" /\ caller[c].kind = "releasePlan" /\ caller'[c] = Free
                /\ ~log'.lost /\ ~log'.overlap
                => \A l \in hosted' :
                     l.session = PlanSession(caller[c].plan) => l.claimed + l.life <= now]_collabVars
  <2> SUFFICES ASSUME NEW c \in Callers,
                      caller[c].pc = "saving", caller[c].kind = "releasePlan", caller'[c] = Free,
                      ~log'.lost, ~log'.overlap
               PROVE  \A l \in hosted' :
                        l.session = PlanSession(caller[c].plan) => l.claimed + l.life <= now
    OBVIOUS
  <2>1. SaveCommand(c)
    BY <1>1, SavingEnds
  <2>2. hosted' = hosted /\ Sure
    BY <2>1 DEF SaveCommand, Sure
  <2>3. Ended(caller[c].plan)
    BY <1>1, <2>2 DEF CollabInv, NothingLost
  <2> QED
    BY <2>2, <2>3 DEF Ended
<1> QED
  BY <1>1, InitCollab, CollabStep, PTL DEF CollabSpec, ReleaseEndsClaims

\* Both gates keep to their values, for any number of callers and users.
THEOREM GateTypesOK == GatesSpec => []GatesTypeOK
BY CollabTypesOK, TrustTypesOK, PTL DEF GatesSpec, GatesTypeOK
=============================================================================

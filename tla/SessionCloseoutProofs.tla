------------------------ MODULE SessionCloseoutProofs ------------------------
(***************************************************************************)
(* The lock file of a checkpoint keeps the writers of its receipt apart,   *)
(* for any number of runs and kills, as long as no two runs are about to   *)
(* remove the same stale lock: from one writer at a time follows what the  *)
(* receipts promise.  Two runs, or any number of them as long as none ends *)
(* with its lock file there, never come to that.  With three runs and a    *)
(* kill they can, and the model checker shows two of them past the lock.   *)
(***************************************************************************)
EXTENDS SessionCloseout, FiniteSetTheorems, TLAPS

\* The places of a run are spelled out wherever they matter.
USE DEF Outside, Inside, Left, Ended

Statuses == {"none", "pending", "saved", "skipped", "error"}

Types ==
  /\ config \in Nat
  /\ receipt \in [Checkpoints -> Statuses]
  /\ lock \in [Checkpoints -> Locks]
  /\ journal \in [Checkpoints -> Nat]
  /\ run \in [Runs -> RunStates]
  /\ alive \subseteq Runs
  /\ crossed \subseteq Nat

\* What the lock does not protect against: two live runs have both found the
\* lock of a checkpoint stale, and neither has removed it yet.
OneReclaims ==
  \A r, s \in alive :
    run[r].at = "reclaim" /\ run[s].at = "reclaim" /\ run[r].cp = run[s].cp => r = s

\* The runs whose pid no longer answers, with the lock file they created there
\* or not.
Gone == {r \in Runs : ~Running(r)}

\* Two hooks that meet, or any number of them none of which has been killed or
\* has failed on its lock file.
Harmless == Gone = {} \/ Cardinality(Runs) <= 2

\* The lock a run is about to remove is still the one of a run that is gone.
Stale == \A r \in alive : run[r].at = "reclaim" => lock[run[r].cp].by \in Gone

\* A live run past the creation of the lock file owns the file under that name.
Owned == \A r \in alive : run[r].at \in Inside => lock[run[r].cp].by = r

Confirmed(r) == run[r].noted /\ run[r].result = "saved"

\* What the receipt says at each point of the run that owns it, as long as the
\* run is alive, and what it says for good once the run has confirmed it.
ReceiptOf(r) ==
  /\ r \in alive /\ run[r].at \in {"send", "record"} => receipt[run[r].cp] # "saved"
  /\ r \in alive /\ run[r].at \in {"report", "rotate", "mint"} => receipt[run[r].cp] = ReportStatus(r)
  /\ run[r].at \in {"checkLock", "reclaim", "open", "stamp", "confirm", "send", "record"} =>
       ~run[r].noted
  /\ Confirmed(r) => receipt[run[r].cp] = "saved"

Receipts == \A r \in Runs : ReceiptOf(r)

\* A result of "saved" has an entry behind it, and so has a saved receipt.
Entries ==
  /\ \A r \in Runs : run[r].result = "saved" => journal[run[r].cp] >= 1
  /\ \A c \in Checkpoints : receipt[c] = "saved" => journal[c] >= 1

OnlyOne ==
  \A r, s \in Runs : Confirmed(r) /\ Confirmed(s) /\ run[r].cp = run[s].cp => r = s

IInv == Types /\ Stale /\ Owned /\ Receipts /\ Entries /\ OnlyOne

-----------------------------------------------------------------------------
\* Two runs under the lock of the same checkpoint are the same run.
LEMMA Exclusive ==
  ASSUME Owned, NEW r \in alive, NEW s \in alive,
         run[r].at \in Inside, run[s].at \in Inside, run[r].cp = run[s].cp
  PROVE  r = s
BY DEF Owned

\* Where a failing operation takes a run.
LEMMA ThrowLeads ==
  ASSUME NEW at
  PROVE  /\ at \in Outside => AfterThrow(at) = "refused"
         /\ at = "stamp" => AfterThrow(at) = "unstamped"
         /\ at = "unlock" => AfterThrow(at) = "unreleased"
         /\ at \notin Outside \cup {"stamp", "unlock"} => AfterThrow(at) = "unlock"
BY DEF AfterThrow

LEMMA ThrowEffect ==
  ASSUME Types, NEW r \in alive, Throw(r)
  PROVE  /\ run[r].at \in Outside \cup Inside /\ run[r].at \notin {"new", "send"}
         /\ run[r].at \in Outside => run'[r].at = "refused"
         /\ run[r].at = "stamp" => run'[r].at = "unstamped"
         /\ run[r].at = "unlock" => run'[r].at = "unreleased"
         /\ run[r].at \notin Outside \cup {"stamp", "unlock"} => run'[r].at = "unlock"
         /\ run'[r].cp = run[r].cp /\ run'[r].result = run[r].result /\ run'[r].noted = run[r].noted
<1>1. run[r] \in RunStates
  BY DEF Types
<1>2. run' = [run EXCEPT ![r].at = AfterThrow(run[r].at)]
  BY DEF Throw, Go
<1>3. run'[r] = [run[r] EXCEPT !.at = AfterThrow(run[r].at)]
  BY <1>2 DEF Types
<1>4. run[r].at \in Outside \cup Inside
  BY <1>1 DEF Throw, RunStates, Places
<1> QED
  BY <1>1, <1>3, <1>4, ThrowLeads DEF RunStates, Throw

LEMMA InitTypes == Init => Types
<1> SUFFICES ASSUME Init PROVE Types
  OBVIOUS
<1>1. 0 \in Sessions
  <2>1. Cardinality(Runs) \in Nat
    BY CloseoutShape, FS_CardinalityType
  <2> QED
    BY <2>1, CloseoutShape DEF Sessions
<1>2. NoCheckpoint \in Checkpoints
  BY <1>1 DEF NoCheckpoint, Checkpoints
<1> QED
  BY <1>2 DEF Init, Types, Statuses, Locks, RunStates, Places, Results

\* What a step of a run writes has the type of what it replaces, whatever the
\* other runs have done meanwhile.
LEMMA AdvanceTypes ==
  ASSUME Types, NEW r \in alive, Advance(r)
  PROVE  Types'
<1> DEFINE c == run[r].cp
<1>1. /\ r \in Runs /\ run[r] \in RunStates /\ c \in Checkpoints
      /\ lock[c] \in Locks /\ journal[c] \in Nat
  BY DEF Types, RunStates
<1>2. run' \in [Runs -> RunStates]
  <2>1. ASSUME NEW at \in Places, Go(r, at)
        PROVE  run' \in [Runs -> RunStates]
    BY <1>1, <2>1 DEF Types, RunStates, Go
  <2>2. ASSUME NEW result \in Results \ {"none"}, Send(r, result)
        PROVE  run' \in [Runs -> RunStates]
    BY <1>1, <2>2 DEF Types, RunStates, Places, Send
  <2>3. CASE Record(r)
    BY <1>1, <2>3 DEF Types, RunStates, Places, Record
  <2>4. CASE CheckLock(r) \/ Reclaim(r) \/ Open(r) \/ Stamp(r) \/ Confirm(r) \/ Report(r)
             \/ Rotate(r) \/ Mint(r) \/ Unlock(r) \/ Throw(r)
    <3>1. \E at \in Places : Go(r, at)
      <4>1. AfterThrow(run[r].at) \in Places
        BY ThrowLeads DEF Places
      <4> QED
        BY <2>4, <4>1 DEF CheckLock, Reclaim, Open, Stamp, Confirm, Report, Rotate, Mint, Unlock,
                          Throw, Places
    <3> QED
      BY <2>1, <3>1
  <2> QED
    BY <2>2, <2>3, <2>4 DEF Advance
<1>3. receipt' \in [Checkpoints -> Statuses]
  <2>1. ReportStatus(r) \in Statuses
    BY DEF ReportStatus, Statuses
  <2>2. \/ receipt' = receipt
        \/ \E status \in Statuses : receipt' = [receipt EXCEPT ![c] = status]
    BY <2>1 DEF Advance, CheckLock, Reclaim, Open, Stamp, Confirm, Send, Record, Report, Rotate,
                Mint, NewId, Unlock, Throw, Statuses
  <2> QED
    BY <1>1, <2>2 DEF Types
<1>4. lock' \in [Checkpoints -> Locks]
  <2>1. \/ lock' = lock \/ lock' = [lock EXCEPT ![c] = Nobody]
        \/ lock' = [lock EXCEPT ![c] = [by |-> r, stamped |-> FALSE]]
        \/ lock[c].by = r /\ lock' = [lock EXCEPT ![c].stamped = TRUE]
    BY DEF Advance, CheckLock, Reclaim, Open, Stamp, Confirm, Send, Record, Report, Rotate,
           Mint, NewId, Unlock, Throw
  <2>2. Nobody \in Locks /\ [by |-> r, stamped |-> FALSE] \in Locks
    BY <1>1 DEF Locks
  <2>3. lock[c].by = r => [lock[c] EXCEPT !.stamped = TRUE] \in Locks
    BY <1>1 DEF Locks, Nobody
  <2> QED
    BY <1>1, <2>1, <2>2, <2>3 DEF Types
<1>5. journal' \in [Checkpoints -> Nat]
  <2>1. journal' = journal \/ journal' = [journal EXCEPT ![c] = @ + 1]
    BY DEF Advance, CheckLock, Reclaim, Open, Stamp, Confirm, Send, Record, Report, Rotate,
           Mint, NewId, Unlock, Throw
  <2> QED
    BY <1>1, <2>1 DEF Types
<1>6. config' \in Nat /\ alive' = alive /\ crossed' \subseteq Nat
  BY DEF Types, Advance, CheckLock, Reclaim, Open, Stamp, Confirm, Send, Record, Report, Rotate,
         Mint, NewId, Unlock, Throw
<1> QED
  BY <1>2, <1>3, <1>4, <1>5, <1>6 DEF Types

LEMMA StepTypes ==
  ASSUME Types, [Next]_vars
  PROVE  Types'
<1>1. CASE SessionReset
  BY <1>1 DEF Types, SessionReset, NewId
<1>2. ASSUME NEW r \in alive, NEW cp \in Checkpoints, NEW host \in BOOLEAN, Load(r, cp, host)
      PROVE  Types'
  BY <1>2 DEF Types, Load, RunStates, Places, Results
<1>3. ASSUME NEW r \in alive, Crash(r)
      PROVE  Types'
  BY <1>3 DEF Types, Crash
<1>4. CASE UNCHANGED vars
  BY <1>4 DEF Types, vars
<1> QED
  BY <1>1, <1>2, <1>3, <1>4, AdvanceTypes DEF Next

-----------------------------------------------------------------------------
(* How far the counters go.  A run rotates the configuration once at most and *)
(* appends one entry at most, and a reset gives up an id that is not in       *)
(* `resets` yet, because every id there is below the one in the configuration.*)

Over == {r \in Runs : run[r].at \in {"unlock"} \cup Ended}

Appended(c) ==
  {r \in Runs : /\ run[r].cp = c
                /\ run[r].at \in {"record", "report", "rotate", "mint", "unlock"} \cup Ended}

Counted ==
  /\ resets \subseteq 0..(config - 1)
  /\ crossed \subseteq 0..config
  /\ Cardinality(resets) <= MaxResets
  /\ config <= Cardinality(resets) + Cardinality(Over)
  /\ \A c \in Checkpoints : journal[c] <= Cardinality(Appended(c))

LEMMA RunSets ==
  ASSUME NEW S \in SUBSET Runs
  PROVE  IsFiniteSet(S) /\ Cardinality(S) \in Nat /\ Cardinality(S) <= Cardinality(Runs)
BY CloseoutShape, FS_Subset, FS_CardinalityType

\* A set of runs that grows does not get smaller, and one that gains a run
\* counts one more.
LEMMA RunSetsGrow ==
  ASSUME NEW S \in SUBSET Runs, NEW T \in SUBSET Runs, S \subseteq T
  PROVE  /\ Cardinality(S) <= Cardinality(T)
         /\ \A r \in T \ S : Cardinality(S) + 1 <= Cardinality(T)
<1>1. /\ IsFiniteSet(S) /\ Cardinality(S) \in Nat
      /\ IsFiniteSet(T) /\ Cardinality(T) \in Nat /\ Cardinality(S) <= Cardinality(T)
  BY RunSets, FS_Subset
<1>2. ASSUME NEW r \in T \ S
      PROVE  Cardinality(S) + 1 <= Cardinality(T)
  <2>1. IsFiniteSet(S \cup {r}) /\ Cardinality(S \cup {r}) = Cardinality(S) + 1
    BY <1>1, FS_AddElement
  <2>2. Cardinality(S \cup {r}) <= Cardinality(T)
    BY <1>1, FS_Subset
  <2> QED
    BY <2>1, <2>2
<1> QED
  BY <1>1, <1>2

LEMMA CountedSets ==
  ASSUME Types, Counted
  PROVE  /\ IsFiniteSet(resets) /\ Cardinality(resets) \in Nat
         /\ Over \in SUBSET Runs /\ Cardinality(Over) \in Nat
         /\ \A c \in Checkpoints : Appended(c) \in SUBSET Runs /\ Cardinality(Appended(c)) \in Nat
<1>1. IsFiniteSet(0..(config - 1))
  BY FS_Interval DEF Types
<1>2. IsFiniteSet(resets) /\ Cardinality(resets) \in Nat
  BY <1>1, FS_Subset, FS_CardinalityType DEF Counted
<1> QED
  BY <1>2, RunSets DEF Over, Appended

\* The runs that have rotated, or have appended, only become more.
LEMMA StepGrows ==
  ASSUME Types, NEW r \in Runs, \A s \in Runs : s # r => run'[s] = run[s],
         \/ run[r].at = "new"
         \/ /\ run'[r].cp = run[r].cp
            /\ run[r].at \in {"unlock"} \cup Ended => run'[r].at \in {"unlock"} \cup Ended
            /\ run[r].at \in {"record", "report", "rotate", "mint"} =>
                 run'[r].at \in {"report", "rotate", "mint", "unlock"}
  PROVE  Over \subseteq Over' /\ \A c \in Checkpoints : Appended(c) \subseteq Appended(c)'
BY DEF Over, Appended

LEMMA EarlierIds ==
  ASSUME NEW m \in Nat, NEW n \in Nat, m <= n
  PROVE  0..(m - 1) \subseteq 0..(n - 1)
OBVIOUS

LEMMA AdvanceCounted ==
  ASSUME Types, Counted, NEW r \in alive, Advance(r), Types'
  PROVE  Counted'
<1> DEFINE c == run[r].cp
<1>1. /\ r \in Runs /\ run[r] \in RunStates /\ c \in Checkpoints /\ config \in Nat
  BY DEF Types, RunStates
<1>2. \A s \in Runs : s # r => run'[s] = run[s]
  BY <1>1 DEF Types, Advance, CheckLock, Reclaim, Open, Stamp, Confirm, Send, Record, Report,
              Rotate, Mint, NewId, Unlock, Throw, Go
<1>3. /\ run'[r].cp = c
      /\ run[r].at \notin Ended
      /\ run[r].at = "unlock" => run'[r].at \in Ended
      /\ run[r].at \in {"record", "report", "rotate", "mint"} =>
           run'[r].at \in {"report", "rotate", "mint", "unlock"}
  <2>1. CASE Throw(r)
    BY <2>1, ThrowEffect
  <2>2. CASE ~Throw(r)
    BY <1>1, <2>2 DEF Types, RunStates, Advance, CheckLock, Reclaim, Open, Stamp, Confirm, Send,
                      Record, Report, Rotate, Mint, NewId, Unlock, Go
  <2> QED
    BY <2>1, <2>2
<1>4. Over \subseteq Over' /\ \A d \in Checkpoints : Appended(d) \subseteq Appended(d)'
  BY <1>1, <1>2, <1>3, StepGrows
<1>5. /\ Over \in SUBSET Runs /\ Over' \in SUBSET Runs
      /\ \A d \in Checkpoints : Appended(d) \in SUBSET Runs /\ Appended(d)' \in SUBSET Runs
  BY DEF Over, Appended
<1>6. /\ Cardinality(Over) \in Nat /\ Cardinality(Over') \in Nat
      /\ Cardinality(Over) <= Cardinality(Over')
      /\ \A d \in Checkpoints :
           /\ Cardinality(Appended(d)) \in Nat /\ Cardinality(Appended(d)') \in Nat
           /\ Cardinality(Appended(d)) <= Cardinality(Appended(d)')
  BY <1>4, <1>5, RunSets, RunSetsGrow
<1>7. Cardinality(resets) \in Nat /\ resets' = resets
  BY CountedSets DEF Advance, CheckLock, Reclaim, Open, Stamp, Confirm, Send, Record, Report,
                     Rotate, Mint, NewId, Unlock, Throw
<1>8. config' \in Nat /\ config' >= config /\ config' <= Cardinality(resets) + Cardinality(Over')
  <2>1. CASE Mint(r)
    <3>1. run' = [run EXCEPT ![r].at = "unlock"] /\ run[r].at = "mint"
      BY <2>1 DEF Mint, Go
    <3>2. r \in Over' \ Over
      BY <1>1, <3>1 DEF Types, RunStates, Over
    <3>3. Cardinality(Over) + 1 <= Cardinality(Over')
      BY <1>4, <1>5, <3>2, RunSetsGrow
    <3>4. config' = config + 1
      BY <2>1 DEF Mint, NewId
    <3> QED
      BY <1>1, <1>6, <1>7, <3>3, <3>4 DEF Counted
  <2>2. CASE ~Mint(r)
    <3>1. config' = config
      BY <2>2 DEF Advance, CheckLock, Reclaim, Open, Stamp, Confirm, Send, Record, Report, Rotate,
                  Unlock, Throw
    <3> QED
      BY <1>1, <1>6, <1>7, <3>1 DEF Counted
  <2> QED
    BY <2>1, <2>2
<1>9. ASSUME NEW d \in Checkpoints
      PROVE  journal'[d] <= Cardinality(Appended(d)')
  <2>1. journal[d] \in Nat /\ journal[d] <= Cardinality(Appended(d))
    BY DEF Types, Counted
  <2>2. CASE \E result \in Results \ {"none"} : Send(r, result)
    <3>1. PICK result \in Results \ {"none"} : Send(r, result)
      BY <2>2
    <3>2. /\ run' = [run EXCEPT ![r].at = "record", ![r].result = result]
          /\ run[r].at = "send"
          /\ journal' = journal \/ journal' = [journal EXCEPT ![c] = @ + 1]
      BY <3>1 DEF Send
    <3>3. CASE d = c
      <4>1. r \in Appended(d)' \ Appended(d)
        BY <1>1, <3>2, <3>3 DEF Types, RunStates, Appended
      <4>2. Cardinality(Appended(d)) + 1 <= Cardinality(Appended(d)')
        BY <1>4, <1>5, <4>1, RunSetsGrow
      <4>3. journal'[d] <= journal[d] + 1 /\ journal'[d] \in Nat
        BY <1>1, <2>1, <3>2 DEF Types
      <4> QED
        BY <1>6, <2>1, <4>2, <4>3
    <3>4. CASE d # c
      <4>1. journal'[d] = journal[d]
        BY <3>2, <3>4 DEF Types
      <4> QED
        BY <1>6, <2>1, <4>1
    <3> QED
      BY <3>3, <3>4
  <2>3. CASE ~\E result \in Results \ {"none"} : Send(r, result)
    <3>1. journal' = journal
      BY <2>3 DEF Advance, CheckLock, Reclaim, Open, Stamp, Confirm, Record, Report, Rotate,
                  Mint, NewId, Unlock, Throw
    <3> QED
      BY <1>6, <2>1, <3>1
  <2> QED
    BY <2>2, <2>3
<1>10. resets' \subseteq 0..(config' - 1)
  <2>1. resets' \subseteq 0..(config - 1)
    BY <1>7 DEF Counted
  <2>2. config \in Nat /\ config' \in Nat /\ config <= config'
    BY <1>1, <1>8
  <2>3. 0..(config - 1) \subseteq 0..(config' - 1)
    BY <2>2, EarlierIds
  <2> QED
    BY <2>1, <2>3
<1>11. crossed' \subseteq 0..config'
  <2>1. crossed' = crossed \/ (Mint(r) /\ crossed' \subseteq crossed \cup {config + 1})
    BY DEF Advance, CheckLock, Reclaim, Open, Stamp, Confirm, Send, Record, Report, Rotate,
           Mint, NewId, Unlock, Throw
  <2>2. Mint(r) => config' = config + 1
    BY DEF Mint, NewId
  <2>3. crossed \subseteq 0..config /\ crossed' \subseteq crossed \cup {config'}
    BY <2>1, <2>2 DEF Counted
  <2>4. 0..config \subseteq 0..config' /\ config' \in 0..config'
    BY <1>1, <1>8
  <2> QED
    BY <2>3, <2>4
<1> QED
  BY <1>7, <1>8, <1>9, <1>10, <1>11 DEF Counted

LEMMA StepCounted ==
  ASSUME Types, Counted, [Next]_vars
  PROVE  Counted'
<1>1. CASE SessionReset
  <2>1. Over' = Over /\ \A c \in Checkpoints : Appended(c)' = Appended(c)
    BY <1>1 DEF SessionReset, Over, Appended
  <2>2. config \in Nat /\ config \notin resets
    BY DEF Types, Counted
  <2>3. /\ resets' = resets \cup {config}
        /\ Cardinality(resets') = Cardinality(resets) + 1
    BY <1>1, <2>2, CountedSets, FS_AddElement DEF SessionReset
  <2>4. Cardinality(resets) \in Nat /\ Cardinality(Over) \in Nat
    BY CountedSets
  <2>5. /\ config' = config + 1 /\ journal' = journal /\ Cardinality(resets) < MaxResets
    BY <1>1 DEF SessionReset, NewId
  <2>6. resets' \subseteq 0..(config' - 1)
    BY <2>2, <2>3, <2>5 DEF Counted
  <2>7. crossed' \subseteq 0..config'
    BY <1>1, <2>2, <2>5 DEF Counted, SessionReset, NewId
  <2> QED
    BY <2>1, <2>2, <2>3, <2>4, <2>5, <2>6, <2>7, CloseoutShape DEF Counted
<1>2. ASSUME NEW r \in alive, NEW cp \in Checkpoints, NEW host \in BOOLEAN, Load(r, cp, host)
      PROVE  Counted'
  <2>1. /\ r \in Runs /\ run[r].at = "new" /\ \A s \in Runs : s # r => run'[s] = run[s]
        /\ UNCHANGED <<config, resets, journal, crossed>>
    BY <1>2 DEF Types, Load
  <2>2. Over \subseteq Over' /\ \A c \in Checkpoints : Appended(c) \subseteq Appended(c)'
    BY <2>1, StepGrows
  <2>3. /\ Over \in SUBSET Runs /\ Over' \in SUBSET Runs
        /\ \A c \in Checkpoints : Appended(c) \in SUBSET Runs /\ Appended(c)' \in SUBSET Runs
    BY DEF Over, Appended
  <2>4. /\ Cardinality(Over) \in Nat /\ Cardinality(Over') \in Nat
        /\ Cardinality(Over) <= Cardinality(Over')
        /\ \A c \in Checkpoints :
             /\ Cardinality(Appended(c)) \in Nat /\ Cardinality(Appended(c)') \in Nat
             /\ Cardinality(Appended(c)) <= Cardinality(Appended(c)')
    BY <2>2, <2>3, RunSets, RunSetsGrow
  <2>5. Cardinality(resets) \in Nat /\ config \in Nat /\ \A c \in Checkpoints : journal[c] \in Nat
    BY CountedSets DEF Types
  <2>6. config' <= Cardinality(resets') + Cardinality(Over')
    BY <2>1, <2>4, <2>5 DEF Counted
  <2>7. \A c \in Checkpoints : journal'[c] <= Cardinality(Appended(c)')
    BY <2>1, <2>4, <2>5 DEF Counted
  <2> QED
    BY <2>1, <2>6, <2>7 DEF Counted
<1>3. CASE (\E r \in alive : Crash(r)) \/ UNCHANGED vars
  <2>1. UNCHANGED <<config, resets, journal, run, crossed>>
    BY <1>3 DEF Crash, vars
  <2>2. Over' = Over /\ \A c \in Checkpoints : Appended(c)' = Appended(c)
    BY <2>1 DEF Over, Appended
  <2> QED
    BY <2>1, <2>2 DEF Counted
<1> QED
  BY <1>1, <1>2, <1>3, StepTypes, AdvanceCounted DEF Next

\* The variables stay of their types under any number of kills and resets: no
\* run appends twice or rotates the configuration twice, so that the journal
\* and the session ids stay within the bounds the type invariant names.
THEOREM TypeCorrect == Spec => []TypeOK
<1>1. Init => Counted
  <2> SUFFICES ASSUME Init PROVE Counted
    OBVIOUS
  <2>1. Over = {} /\ \A c \in Checkpoints : Appended(c) = {}
    BY DEF Init, Over, Appended
  <2>2. Cardinality({}) = 0
    BY FS_EmptySet
  <2>3. \A c \in Checkpoints : journal[c] = 0
    BY DEF Init
  <2>4. \A c \in Checkpoints : journal[c] <= Cardinality(Appended(c))
    BY <2>1, <2>2, <2>3
  <2>5. config = 0 /\ resets = {} /\ crossed = {}
    BY DEF Init
  <2> QED
    BY <2>1, <2>2, <2>4, <2>5, CloseoutShape DEF Counted
<1>2. ASSUME Types, Counted
      PROVE  TypeOK
  <2>1. Cardinality(Over) <= Cardinality(Runs) /\ Cardinality(Runs) \in Nat
    <3>1. Over \in SUBSET Runs
      BY DEF Over
    <3> QED
      BY <3>1, RunSets
  <2>2. config \in 0..(MaxResets + Cardinality(Runs))
    BY <1>2, <2>1, CountedSets, CloseoutShape DEF Types, Counted
  <2>3. journal \in [Checkpoints -> 0..Cardinality(Runs)]
    <3>1. ASSUME NEW c \in Checkpoints
          PROVE  journal[c] \in 0..Cardinality(Runs)
      <4>1. Appended(c) \in SUBSET Runs
        BY DEF Appended
      <4>2. /\ Cardinality(Appended(c)) \in Nat
            /\ Cardinality(Appended(c)) <= Cardinality(Runs)
        BY <4>1, RunSets
      <4>3. journal[c] \in Nat /\ journal[c] <= Cardinality(Appended(c))
        BY <1>2 DEF Types, Counted
      <4> QED
        BY <2>1, <4>2, <4>3
    <3> QED
      BY <1>2, <3>1 DEF Types
  <2>4. config \in Sessions \ HostSessions
    BY <2>2, CloseoutShape DEF Sessions
  <2>5. resets \subseteq Sessions
    <3>1. MaxResets + Cardinality(Runs) \in Nat
      BY <2>1, CloseoutShape
    <3>2. 0..(config - 1) \subseteq 0..(MaxResets + Cardinality(Runs))
      BY <2>2, <3>1
    <3> QED
      BY <1>2, <3>2 DEF Sessions, Counted
  <2>6. crossed \subseteq Sessions
    <3>1. 0..config \subseteq 0..(MaxResets + Cardinality(Runs))
      BY <2>1, <2>2, CloseoutShape
    <3> QED
      BY <1>2, <3>1 DEF Sessions, Counted
  <2> QED
    BY <1>2, <2>3, <2>4, <2>5, <2>6 DEF TypeOK, Types, Statuses
<1> QED
  BY <1>1, <1>2, InitTypes, StepTypes, StepCounted, PTL DEF Spec

-----------------------------------------------------------------------------
(* Every step keeps the invariant.  r is the run that moves; where it stands *)
(* tells what it may disturb.                                                *)

LEMMA TwoRuns ==
  ASSUME Cardinality(Runs) <= 2, NEW r \in Runs, NEW s \in Runs, r # s
  PROVE  Runs = {r, s}
<1>1. IsFiniteSet({r, s}) /\ Cardinality({r, s}) = 2
  <2>1. IsFiniteSet({r}) /\ Cardinality({r}) = 1
    BY FS_Singleton
  <2>2. s \notin {r} /\ {r, s} = {r} \cup {s}
    OBVIOUS
  <2> QED
    BY <2>1, <2>2, FS_AddElement
<1>2. Cardinality(Runs) \in Nat
  BY RunSets
<1> QED
  BY <1>1, <1>2, CloseoutShape, FS_Subset

LEMMA InitIInv == Init => IInv
<1> SUFFICES ASSUME Init PROVE IInv
  OBVIOUS
<1>1. Types /\ Stale /\ Owned
  BY InitTypes DEF Init, Stale, Owned, Inside
<1>2. Receipts /\ Entries /\ OnlyOne
  BY InitTypes DEF Init, Receipts, ReceiptOf, Entries, OnlyOne, Confirmed
<1> QED
  BY <1>1, <1>2 DEF IInv

LEMMA LoadIInv ==
  ASSUME IInv, NEW r \in alive, NEW cp \in Checkpoints, NEW host \in BOOLEAN, Load(r, cp, host),
         Types', Gone \subseteq Gone'
  PROVE  IInv'
<1>1. r \in Runs
  BY DEF IInv, Types
<1>2. /\ \A s \in Runs : s # r => run'[s] = run[s]
      /\ run'[r].at \in {"done", "checkLock"}
      /\ run'[r].result = "none" /\ ~run'[r].noted
  BY <1>1 DEF IInv, Types, Load
<1>3. Stale' /\ Owned'
  BY <1>2 DEF IInv, Stale, Owned, Inside, Load
<1>4. Receipts' /\ Entries' /\ OnlyOne'
  BY <1>1, <1>2 DEF IInv, Receipts, ReceiptOf, Entries, OnlyOne, Confirmed, ReportStatus, Load
<1> QED
  BY <1>3, <1>4 DEF IInv

\* A run that is gone stays gone.
LEMMA GoneStays ==
  ASSUME Types, [Next]_vars
  PROVE  Gone \subseteq Gone'
<1>1. ASSUME NEW r \in alive, Advance(r)
      PROVE  alive' = alive /\ run[r].at \notin Left /\ \A s \in Runs : s # r => run'[s] = run[s]
  <2>1. alive' = alive /\ run[r].at \notin Left
    BY <1>1 DEF Advance, CheckLock, Reclaim, Open, Stamp, Confirm, Send, Record, Report, Rotate,
                Mint, NewId, Unlock, Throw
  <2>2. \A s \in Runs : s # r => run'[s] = run[s]
    BY <1>1 DEF Types, Advance, CheckLock, Reclaim, Open, Stamp, Confirm, Send, Record, Report,
                Rotate, Mint, NewId, Unlock, Throw, Go
  <2> QED
    BY <2>1, <2>2
<1>2. ASSUME NEW r \in alive, NEW cp \in Checkpoints, NEW host \in BOOLEAN, Load(r, cp, host)
      PROVE  alive' = alive /\ run[r].at \notin Left /\ \A s \in Runs : s # r => run'[s] = run[s]
  BY <1>2 DEF Types, Load
<1>3. ASSUME NEW r \in alive, Crash(r)
      PROVE  alive' \subseteq alive /\ run' = run
  BY <1>3 DEF Crash
<1>4. CASE SessionReset \/ UNCHANGED vars
  BY <1>4 DEF SessionReset, vars, Gone, Running
<1> QED
  BY <1>1, <1>2, <1>3, <1>4 DEF Next, Gone, Running

\* The steps outside the lock, which change at most the lock file.
LEMMA OutsideIInv ==
  ASSUME OneReclaims, IInv, NEW r \in alive,
         CheckLock(r) \/ Reclaim(r) \/ Open(r) \/ (Throw(r) /\ run[r].at \in Outside),
         Types', Gone \subseteq Gone'
  PROVE  IInv'
<1> DEFINE c == run[r].cp
<1>1. r \in Runs /\ run[r] \in RunStates /\ c \in Checkpoints /\ lock[c] \in Locks
  BY DEF IInv, Types, RunStates
<1>2. \A s \in Runs : s # r => run'[s] = run[s]
  BY DEF IInv, Types, CheckLock, Reclaim, Open, Throw, Go
<1>3. /\ run[r].at \in {"checkLock", "reclaim", "open"}
      /\ run'[r].at \in {"reclaim", "open", "stamp", "refused"}
      /\ run'[r].at = "reclaim" => CheckLock(r) /\ lock[c].stamped /\ ~Running(lock[c].by)
      /\ run'[r].at = "stamp" => Open(r) /\ lock[c] = Nobody
      /\ run'[r].cp = c /\ run'[r].result = run[r].result /\ run'[r].noted = run[r].noted
  <2>1. CASE CheckLock(r) \/ Reclaim(r) \/ Open(r)
    BY <1>1, <2>1 DEF IInv, Types, RunStates, CheckLock, Reclaim, Open, Go
  <2>2. CASE Throw(r) /\ run[r].at \in Outside
    <3>1. ~CheckLock(r) \/ run'[r].at = "refused"
      BY <2>2, ThrowEffect DEF IInv
    <3> QED
      BY <1>1, <2>2, <3>1, ThrowEffect DEF IInv, Throw
  <2> QED
    BY <2>1, <2>2
<1>4. UNCHANGED <<receipt, journal, alive>>
  BY DEF CheckLock, Reclaim, Open, Throw
<1>5. Stale'
  <2>1. ASSUME run'[r].at = "reclaim"
        PROVE  lock'[c].by \in Gone
    <3>1. lock[c].by \in Gone
      BY <1>1, <1>3, <2>1 DEF Locks, Nobody, Gone
    <3> QED
      BY <1>3, <2>1, <3>1 DEF CheckLock
  <2>2. ASSUME NEW s \in alive, s # r, run[s].at = "reclaim"
        PROVE  lock'[run[s].cp].by \in Gone
    <3>1. /\ s \in Runs /\ run[s].cp \in Checkpoints
          /\ lock[run[s].cp].by \in Gone /\ lock[run[s].cp] # Nobody
      BY <2>2, CloseoutShape DEF IInv, Types, RunStates, Stale, Nobody, Gone
    <3>2. lock' = lock \/ (c # run[s].cp /\ \E l : lock' = [lock EXCEPT ![c] = l])
      BY <2>2, <3>1 DEF CheckLock, Reclaim, Open, Throw, OneReclaims
    <3>3. lock'[run[s].cp] = lock[run[s].cp]
      BY <1>1, <3>1, <3>2 DEF IInv, Types
    <3> QED
      BY <3>1, <3>3
  <2>3. \A s \in alive : s # r => run'[s] = run[s]
    BY <1>2 DEF IInv, Types
  <2> QED
    BY <1>3, <1>4, <2>1, <2>2, <2>3 DEF Stale
<1>6. Owned'
  <2>1. CASE CheckLock(r) \/ Throw(r)
    <3>1. lock' = lock /\ run'[r].at \notin Inside
      <4>1. CASE CheckLock(r)
        BY <1>1, <4>1 DEF IInv, Types, RunStates, CheckLock, Go
      <4>2. CASE Throw(r)
        BY <1>1, <1>3, <4>2, ThrowLeads DEF IInv, Types, RunStates, Throw, Go
      <4> QED
        BY <2>1, <4>1, <4>2
    <3> QED
      BY <1>2, <1>4, <3>1 DEF IInv, Types, Owned
  <2>2. CASE Reclaim(r)
    <3>1. \A s \in alive : run[s].at \in Inside => run[s].cp # c
      BY <2>2 DEF IInv, Stale, Owned, Reclaim, Gone, Running
    <3>2. run'[r].at \notin Inside
      BY <1>1, <2>2 DEF IInv, Types, RunStates, Reclaim, Go, Inside
    <3>3. \A s \in alive : s \in Runs /\ run[s].cp \in Checkpoints
      BY DEF IInv, Types, RunStates
    <3>4. lock' = [lock EXCEPT ![c] = Nobody]
      BY <2>2 DEF Reclaim
    <3> QED
      BY <1>1, <1>2, <1>4, <3>1, <3>2, <3>3, <3>4 DEF IInv, Types, Owned
  <2>3. CASE Open(r) /\ lock[c] = Nobody
    <3>1. \A s \in alive : s # r /\ run[s].at \in Inside => run[s].cp # c
      BY <2>3, CloseoutShape DEF IInv, Types, Owned, Nobody
    <3>2. lock' = [lock EXCEPT ![c] = [by |-> r, stamped |-> FALSE]]
      BY <2>3 DEF Open
    <3>3. \A s \in alive : s \in Runs /\ run[s].cp \in Checkpoints
      BY DEF IInv, Types, RunStates
    <3> QED
      BY <1>1, <1>2, <1>3, <1>4, <3>1, <3>2, <3>3 DEF IInv, Owned, Types
  <2>4. CASE Open(r) /\ lock[c] # Nobody
    <3>1. lock' = lock
      BY <2>4 DEF Open
    <3>2. run'[r].at \notin Inside
      BY <1>1, <2>4 DEF IInv, Types, RunStates, Open, Go, Inside
    <3> QED
      BY <1>2, <1>4, <3>1, <3>2 DEF IInv, Types, Owned
  <2> QED
    BY <2>1, <2>2, <2>3, <2>4
<1>7. Receipts'
  <2> SUFFICES ASSUME NEW s \in Runs PROVE ReceiptOf(s)'
    BY DEF Receipts
  <2>1. ReceiptOf(s)
    BY DEF IInv, Receipts
  <2> QED
    BY <1>2, <1>3, <1>4, <2>1 DEF ReceiptOf, Confirmed, ReportStatus
<1>8. Entries' /\ OnlyOne'
  BY <1>2, <1>3, <1>4 DEF IInv, Entries, OnlyOne, Confirmed
<1> QED
  BY <1>5, <1>6, <1>7, <1>8 DEF IInv

\* The steps under the lock.  No other run is under the lock of the same
\* checkpoint, so that only r's own line of Owned and Receipts is at stake.
LEMMA InsideIInv ==
  ASSUME IInv, NEW r \in alive,
         \/ Stamp(r) \/ Confirm(r) \/ \E result \in Results \ {"none"} : Send(r, result)
         \/ Record(r) \/ Report(r) \/ Rotate(r) \/ Mint(r) \/ Unlock(r)
         \/ (Throw(r) /\ run[r].at \in Inside),
         Types', Gone \subseteq Gone'
  PROVE  IInv'
<1> DEFINE c == run[r].cp
<1>1. /\ r \in Runs /\ run[r] \in RunStates /\ c \in Checkpoints
      /\ lock[c] \in Locks /\ receipt[c] \in Statuses /\ journal[c] \in Nat
  BY DEF IInv, Types, RunStates
<1>2. run[r].at \in Inside /\ lock[c].by = r
  BY DEF IInv, Owned, Inside, Stamp, Confirm, Send, Record, Report, Rotate, Mint, NewId, Unlock, Throw
<1>3. \A s \in alive : run[s].at \in Inside /\ run[s].cp = c => s = r
  BY <1>2, Exclusive DEF IInv
<1>4. \A s \in Runs : s # r => run'[s] = run[s]
  BY DEF IInv, Types, Stamp, Confirm, Send, Record, Report, Rotate, Mint, NewId, Unlock, Throw, Go
<1>5. ReportStatus(r) \in {"saved", "skipped", "error"}
  BY DEF ReportStatus
<1>6. run'[r].cp = c
  BY <1>1 DEF IInv, Types, RunStates, Stamp, Confirm, Send, Record, Report, Rotate, Mint, NewId, Unlock,
              Throw, Go
<1> DEFINE Elsewhere ==
      \A d \in Checkpoints : d # c =>
        receipt'[d] = receipt[d] /\ lock'[d] = lock[d] /\ journal'[d] = journal[d]
<1>7. Elsewhere /\ (receipt[c] = "saved" => receipt'[c] = "saved") /\ journal'[c] >= journal[c]
  <2>1. CASE Stamp(r)
    BY <1>1, <2>1 DEF IInv, Types, Stamp
  <2>2. CASE Confirm(r)
    BY <1>1, <2>2 DEF IInv, Types, Confirm
  <2>3. ASSUME NEW result \in Results \ {"none"}, Send(r, result)
        PROVE  Elsewhere /\ receipt' = receipt /\ journal'[c] >= journal[c]
    <3>1. receipt' = receipt /\ lock' = lock
      BY <2>3 DEF Send
    <3>2. journal' = journal \/ journal' = [journal EXCEPT ![c] = @ + 1]
      BY <2>3 DEF Send
    <3> QED
      BY <1>1, <3>1, <3>2 DEF IInv, Types
  <2>4. CASE Record(r)
    <3>1. receipt[c] # "saved"
      BY <1>1, <2>4 DEF Record, IInv, Receipts, ReceiptOf
    <3> QED
      BY <1>1, <2>4, <3>1 DEF IInv, Types, Record
  <2>5. CASE Report(r)
    <3>1. receipt[c] = ReportStatus(r)
      BY <1>1, <2>5 DEF Report, IInv, Receipts, ReceiptOf
    <3> QED
      BY <1>1, <2>5, <3>1 DEF IInv, Types, Report
  <2>6. CASE Rotate(r) \/ Mint(r) \/ Unlock(r) \/ Throw(r)
    BY <1>1, <2>6 DEF IInv, Types, Rotate, Mint, NewId, Unlock, Throw
  <2> QED
    BY <2>1, <2>2, <2>3, <2>4, <2>5, <2>6
<1>8. UNCHANGED alive
  BY DEF Stamp, Confirm, Send, Record, Report, Rotate, Mint, NewId, Unlock, Throw
<1>9. Stale'
  <2>1. run'[r].at # "reclaim"
    <3>1. CASE Throw(r)
      BY <1>2, <3>1, ThrowEffect DEF IInv, Throw
    <3>2. CASE ~Throw(r)
      BY <1>1, <3>2 DEF IInv, Types, RunStates, Stamp, Confirm, Send, Record, Report, Rotate, Mint,
                        Unlock, Go
    <3> QED
      BY <3>1, <3>2
  <2>2. \A s \in alive : s # r => run'[s] = run[s] /\ run[s].cp \in Checkpoints
    BY <1>4 DEF IInv, Types, RunStates
  <2>3. \A s \in alive : run[s].at = "reclaim" => run[s].cp # c
    BY <1>2 DEF IInv, Stale, Gone, Running
  <2> QED
    BY <1>7, <1>8, <2>1, <2>2, <2>3 DEF IInv, Stale
<1>10. Owned'
  <2>1. run'[r].at \in Inside => lock'[c].by = r
    <3>1. CASE Unlock(r)
      BY <1>1, <3>1 DEF IInv, Types, Unlock, Go, Inside
    <3>2. CASE ~Unlock(r)
      <4>1. lock' = lock \/ lock' = [lock EXCEPT ![c].stamped = TRUE]
        BY <3>2 DEF Stamp, Confirm, Send, Record, Report, Rotate, Mint, NewId, Throw
      <4>2. [lock[c] EXCEPT !.stamped = TRUE].by = r
        BY <1>1, <1>2 DEF Locks, Nobody
      <4> QED
        BY <1>1, <1>2, <4>1, <4>2 DEF IInv, Types
    <3> QED
      BY <3>1, <3>2
  <2> QED
    BY <1>3, <1>4, <1>6, <1>7, <1>8, <2>1 DEF IInv, Types, RunStates, Owned
<1>11. ReportStatus(r) = "saved" <=> run[r].result = "saved"
  BY DEF ReportStatus
<1> DEFINE Confirming == Confirmed(r)' => Confirmed(r) \/ receipt[c] # "saved"
<1>12. ReceiptOf(r)' /\ Confirming
  <2>0. ReceiptOf(r)
    BY <1>1 DEF IInv, Receipts
  <2>1. CASE Stamp(r)
    <3>1. run' = [run EXCEPT ![r].at = "confirm"] /\ receipt' = receipt
      BY <2>1 DEF Stamp, Go
    <3> QED
      BY <1>1, <2>0, <2>1, <3>1 DEF IInv, Types, RunStates, ReceiptOf, Confirmed, Stamp
  <2>2. CASE Confirm(r)
    <3>1. CASE receipt[c] = "saved"
      <4>1. run' = [run EXCEPT ![r].at = "unlock"] /\ receipt' = receipt
        BY <2>2, <3>1 DEF Confirm, Go
      <4> QED
        BY <1>1, <2>0, <4>1 DEF IInv, Types, RunStates, ReceiptOf, Confirmed
    <3>2. CASE receipt[c] # "saved"
      <4>1. /\ run' = [run EXCEPT ![r].at = "send"]
            /\ receipt' = [receipt EXCEPT ![c] = "pending"]
        BY <2>2, <3>2 DEF Confirm, Go
      <4>2. ~run[r].noted
        BY <2>0, <2>2 DEF ReceiptOf, Confirm
      <4> QED
        BY <1>1, <3>2, <4>1, <4>2 DEF IInv, Types, RunStates, ReceiptOf, Confirmed
    <3> QED
      BY <3>1, <3>2
  <2>3. ASSUME NEW result \in Results \ {"none"}, Send(r, result)
        PROVE  ReceiptOf(r)' /\ Confirming
    <3>1. /\ run' = [run EXCEPT ![r].at = "record", ![r].result = result]
          /\ receipt' = receipt
      BY <2>3 DEF Send
    <3>2. receipt[c] # "saved" /\ ~run[r].noted
      BY <2>0, <2>3 DEF ReceiptOf, Send
    <3>3. run'[r].at = "record" /\ run'[r].cp = c /\ run'[r].noted = run[r].noted
      BY <1>1, <3>1 DEF IInv, Types, RunStates
    <3> QED
      BY <3>1, <3>2, <3>3 DEF ReceiptOf, Confirmed
  <2>4. CASE Record(r)
    <3>1. /\ run' = [run EXCEPT ![r].at = "report", ![r].noted = TRUE]
          /\ receipt' = [receipt EXCEPT ![c] = ReportStatus(r)]
          /\ run[r].at = "record"
      BY <2>4 DEF Record
    <3> QED
      BY <1>1, <1>11, <2>0, <3>1 DEF IInv, Types, RunStates, ReceiptOf, Confirmed, ReportStatus
  <2>5. CASE Report(r)
    <3>1. /\ run' = [run EXCEPT ![r].at = "rotate"]
          /\ receipt' = [receipt EXCEPT ![c] = ReportStatus(r)]
      BY <2>5 DEF Report, Go
    <3> QED
      BY <1>1, <1>11, <2>0, <3>1 DEF IInv, Types, RunStates, ReceiptOf, Confirmed, ReportStatus
  <2>6. CASE Rotate(r) \/ Mint(r) \/ Unlock(r) \/ Throw(r)
    <3>1. /\ \E at \in {"mint", "unlock"} \cup Ended : run' = [run EXCEPT ![r].at = at]
          /\ run'[r].at = "mint" => run[r].at = "rotate"
          /\ receipt' = receipt
      <4>1. CASE Rotate(r)
        BY <1>1, <4>1 DEF Rotate, Go
      <4>2. CASE Mint(r) \/ Unlock(r)
        BY <1>1, <4>2 DEF IInv, Types, RunStates, Mint, Unlock, Go
      <4>3. CASE Throw(r)
        <5>1. AfterThrow(run[r].at) \in {"unlock"} \cup Ended
          BY ThrowLeads
        <5> QED
          BY <1>1, <4>3, <5>1 DEF IInv, Types, RunStates, Throw, Go
      <4> QED
        BY <2>6, <4>1, <4>2, <4>3
    <3> QED
      BY <1>1, <2>0, <3>1 DEF IInv, Types, RunStates, ReceiptOf, Confirmed, ReportStatus
  <2> QED
    BY <2>1, <2>2, <2>3, <2>4, <2>5, <2>6
<1>13. Receipts'
  <2> SUFFICES ASSUME NEW s \in Runs, s # r PROVE ReceiptOf(s)'
    BY <1>12 DEF Receipts
  <2>1. ReceiptOf(s) /\ run'[s] = run[s] /\ run[s].cp \in Checkpoints
    BY <1>4 DEF IInv, Types, RunStates, Receipts
  <2>2. CASE run[s].cp # c
    BY <1>7, <1>8, <2>1, <2>2 DEF ReceiptOf, Confirmed, ReportStatus
  <2>3. CASE run[s].cp = c
    <3>1. s \in alive => run[s].at \notin Inside
      BY <1>3, <2>3
    <3> QED
      BY <1>7, <1>8, <2>1, <2>3, <3>1 DEF ReceiptOf, Confirmed, Inside
  <2> QED
    BY <2>2, <2>3
<1>14. OnlyOne'
  <2>1. \A s \in Runs : s # r => (Confirmed(s)' <=> Confirmed(s))
    BY <1>4 DEF Confirmed
  <2>2. \A s \in Runs : Confirmed(s) /\ run[s].cp = c => receipt[c] = "saved"
    BY DEF IInv, Receipts, ReceiptOf
  <2> QED
    BY <1>4, <1>6, <1>12, <2>1, <2>2 DEF IInv, OnlyOne
<1>15. Entries'
  <2>1. run'[r].result = "saved" => journal'[c] >= 1
    <3>1. CASE \E result \in Results \ {"none"} : Send(r, result)
      <4>1. PICK result \in Results \ {"none"} : Send(r, result)
        BY <3>1
      <4>2. run'[r].result = result
        BY <1>1, <4>1 DEF IInv, Types, RunStates, Send
      <4>3. result = "saved" => journal' = [journal EXCEPT ![c] = @ + 1]
        BY <4>1 DEF Send
      <4> QED
        BY <1>1, <4>2, <4>3 DEF IInv, Types
    <3>2. CASE ~\E result \in Results \ {"none"} : Send(r, result)
      <4>1. run'[r].result = run[r].result
        BY <1>1, <3>2 DEF IInv, Types, RunStates, Stamp, Confirm, Record, Report, Rotate,
                          Mint, NewId, Unlock, Throw, Go
      <4>2. run[r].result = "saved" => journal[c] >= 1
        BY <1>1 DEF IInv, Entries
      <4>3. journal'[c] \in Nat
        BY <1>1 DEF Types
      <4> QED
        BY <1>1, <1>7, <4>1, <4>2, <4>3
    <3> QED
      BY <3>1, <3>2
  <2>2. receipt'[c] = "saved" => receipt[c] = "saved" \/ run[r].result = "saved"
    BY <1>1, <1>11 DEF IInv, Types, Stamp, Confirm, Send, Record, Report, Rotate, Mint, NewId, Unlock, Throw
  <2>3. journal'[c] \in Nat /\ (journal[c] >= 1 => journal'[c] >= 1)
    BY <1>1, <1>7 DEF Types
  <2>4. \A s \in Runs : run[s].cp \in Checkpoints
    BY DEF IInv, Types, RunStates
  <2> QED
    BY <1>1, <1>4, <1>6, <1>7, <2>1, <2>2, <2>3, <2>4 DEF IInv, Entries
<1> QED
  BY <1>9, <1>10, <1>13, <1>14, <1>15 DEF IInv

LEMMA NextIInv ==
  ASSUME OneReclaims, IInv, [Next]_vars
  PROVE  IInv'
<1>1. Types' /\ Gone \subseteq Gone'
  BY StepTypes, GoneStays DEF IInv
<1>2. CASE SessionReset
  <2>1. UNCHANGED <<receipt, lock, journal, run, alive>>
    BY <1>2 DEF SessionReset
  <2> QED
    BY <1>1, <2>1 DEF IInv, Stale, Gone, Running, Owned, Receipts, ReceiptOf, Entries, OnlyOne, Confirmed,
                      ReportStatus
<1>3. ASSUME NEW r \in alive, NEW cp \in Checkpoints, NEW host \in BOOLEAN, Load(r, cp, host)
      PROVE  IInv'
  BY <1>1, <1>3, LoadIInv
<1>4. ASSUME NEW r \in alive, Advance(r)
      PROVE  IInv'
  <2> DEFINE Before == CheckLock(r) \/ Reclaim(r) \/ Open(r) \/ (Throw(r) /\ run[r].at \in Outside)
  <2>1. CASE Before
    BY <1>1, <2>1, OutsideIInv
  <2>2. CASE ~Before
    <3>1. Throw(r) => run[r].at \in Inside
      <4>1. r \in Runs /\ run[r] \in RunStates
        BY DEF IInv, Types
      <4> QED
        BY <2>2, <4>1 DEF Throw, RunStates, Places
    <3> QED
      BY <1>1, <1>4, <2>2, <3>1, InsideIInv DEF Advance
  <2> QED
    BY <2>1, <2>2
<1>5. ASSUME NEW r \in alive, Crash(r)
      PROVE  IInv'
  <2>1. alive' = alive \ {r} /\ UNCHANGED <<config, receipt, lock, journal, run>>
    BY <1>5 DEF Crash
  <2>3. Stale' /\ Owned'
    BY <1>1, <2>1 DEF IInv, Stale, Owned
  <2>4. Receipts' /\ Entries' /\ OnlyOne'
    BY <2>1 DEF IInv, Receipts, ReceiptOf, Entries, OnlyOne, Confirmed, ReportStatus
  <2> QED
    BY <1>1, <2>3, <2>4 DEF IInv
<1>6. CASE UNCHANGED vars
  <2>1. UNCHANGED <<receipt, lock, journal, run, alive>>
    BY <1>6 DEF vars
  <2> QED
    BY <1>1, <2>1 DEF IInv, Stale, Gone, Running, Owned, Receipts, ReceiptOf, Entries, OnlyOne, Confirmed,
                      ReportStatus
<1> QED
  BY <1>2, <1>3, <1>4, <1>5, <1>6 DEF Next

\* As long as no two runs reclaim the same lock, every state satisfies the
\* invariant, the one that ends this included.
LEMMA Invariance == Spec /\ []OneReclaims => []IInv
BY InitIInv, NextIInv, PTL DEF Spec

\* Two runs past a stale lock are two live ones beside the one that is gone.
LEMMA HarmlessReclaims ==
  ASSUME Harmless, IInv
  PROVE  OneReclaims
<1> SUFFICES ASSUME NEW r \in alive, NEW s \in alive, run[r].at = "reclaim", r # s,
                    run[s].at = "reclaim", run[r].cp = run[s].cp
             PROVE  FALSE
  BY DEF OneReclaims
<1>1. /\ lock[run[r].cp].by \in Gone /\ r \in Runs /\ s \in Runs
      /\ r \notin Gone /\ s \notin Gone
  BY DEF IInv, Types, Stale, Gone, Running
<1>2. Runs = {r, s}
  BY <1>1, TwoRuns DEF Harmless
<1> QED
  BY <1>1, <1>2 DEF Gone

\* Two runs, killed or failing anywhere, or any number of runs none of which is
\* killed or fails on its lock file, never reclaim the same lock: all that
\* follows is said of them as well.
THEOREM FewOrUnharmed == Spec /\ []Harmless => []OneReclaims
<1>1. Init => IInv
  BY InitIInv
<1>2. IInv /\ Harmless => OneReclaims
  BY HarmlessReclaims
<1>3. IInv /\ Harmless /\ [Next]_vars => IInv'
  BY <1>2, NextIInv
<1> QED
  BY <1>1, <1>2, <1>3, PTL DEF Spec

-----------------------------------------------------------------------------
\* The lock file keeps the runs of session-end apart, any number of them,
\* killed anywhere: as long as no two remove the same stale lock, whoever is
\* between the creation of the file and its removal is alone there for its
\* checkpoint.
THEOREM OneWriter == Spec /\ []OneReclaims => []OneWriterPerCheckpoint
<1>1. IInv => OneWriterPerCheckpoint
  BY Exclusive DEF IInv, OneWriterPerCheckpoint
<1> QED
  BY <1>1, Invariance, PTL

\* What a step does to journal and receipts.
LEMMA StepEffect ==
  ASSUME IInv, [Next]_vars, NEW c \in Checkpoints, receipt[c] = "saved"
  PROVE  journal'[c] = journal[c] /\ receipt'[c] = "saved"
<1>1. ASSUME NEW r \in alive, Advance(r)
      PROVE  journal'[c] = journal[c] /\ receipt'[c] = "saved"
  <2>1. /\ run[r] \in RunStates /\ run[r].cp \in Checkpoints /\ ReceiptOf(r)
        /\ receipt \in [Checkpoints -> Statuses] /\ journal \in [Checkpoints -> Nat]
    BY DEF IInv, Types, RunStates, Receipts
  <2>2. ASSUME NEW result \in Results \ {"none"}, Send(r, result)
        PROVE  journal'[c] = journal[c] /\ receipt' = receipt
    <3>1. run[r].cp # c
      BY <2>1, <2>2 DEF ReceiptOf, Send
    <3> QED
      BY <2>1, <2>2, <3>1 DEF Send
  <2>3. CASE Confirm(r)
    BY <2>1, <2>3 DEF Confirm
  <2>4. CASE Record(r)
    <3>1. run[r].cp # c
      BY <2>1, <2>4 DEF ReceiptOf, Record
    <3> QED
      BY <2>1, <2>4, <3>1 DEF Record
  <2>5. CASE Report(r)
    <3>1. receipt[run[r].cp] = ReportStatus(r)
      BY <2>1, <2>5 DEF ReceiptOf, Report
    <3> QED
      BY <2>1, <2>5, <3>1 DEF Report
  <2>6. CASE \/ CheckLock(r) \/ Reclaim(r) \/ Open(r) \/ Stamp(r) \/ Rotate(r) \/ Mint(r) \/ Unlock(r)
             \/ Throw(r)
    BY <2>6 DEF CheckLock, Reclaim, Open, Stamp, Rotate, Mint, NewId, Unlock, Throw
  <2> QED
    BY <1>1, <2>2, <2>3, <2>4, <2>5, <2>6 DEF Advance
<1>2. CASE SessionReset \/ UNCHANGED vars
  BY <1>2 DEF SessionReset, vars
<1>3. ASSUME NEW r \in alive, NEW cp \in Checkpoints, NEW host \in BOOLEAN,
             Load(r, cp, host) \/ Crash(r)
      PROVE  journal'[c] = journal[c] /\ receipt'[c] = "saved"
  BY <1>3 DEF Load, Crash
<1> QED
  BY <1>1, <1>2, <1>3 DEF Next

\* No entry is appended for a checkpoint whose receipt says saved, and the
\* receipt stays, whichever runs still hold an older look at it: the second look
\* at the receipt, under the lock, is what makes the first one harmless.
THEOREM SavedStays == Spec /\ []OneReclaims => ConfirmedIsFinal
<1> DEFINE A == \A c \in Checkpoints :
                  receipt[c] = "saved" => journal'[c] = journal[c] /\ receipt'[c] = "saved"
<1>1. ASSUME IInv, [Next]_vars
      PROVE  [A]_vars
  BY <1>1, StepEffect
<1> QED
  BY <1>1, Invariance, PTL DEF Spec, ConfirmedIsFinal

\* A saved receipt has its entry, and only one run ever confirms a checkpoint,
\* the runs that were killed included.
THEOREM ConfirmedOnce == Spec /\ []OneReclaims => []OneConfirmedEntry
<1>1. ASSUME IInv, NEW c \in Checkpoints
      PROVE  Cardinality({r \in Runs : run[r].cp = c /\ run[r].result = "saved" /\ run[r].noted}) <= 1
  <2> DEFINE confirmed == {r \in Runs : run[r].cp = c /\ run[r].result = "saved" /\ run[r].noted}
  <2> SUFFICES Cardinality(confirmed) <= 1
    OBVIOUS
  <2>1. \A r, s \in confirmed : r = s
    BY <1>1 DEF IInv, OnlyOne, Confirmed
  <2> HIDE DEF confirmed
  <2>2. CASE confirmed = {}
    BY <2>2, FS_EmptySet
  <2>3. CASE confirmed # {}
    <3>1. PICK r \in confirmed : confirmed = {r}
      BY <2>1, <2>3
    <3> QED
      BY <3>1, FS_Singleton
  <2> QED
    BY <2>2, <2>3
<1>2. IInv => OneConfirmedEntry
  BY <1>1 DEF IInv, Entries, OneConfirmedEntry
<1> QED
  BY <1>2, Invariance, PTL

\* A rotation that has looked at the configuration writes over the id of its
\* own saved session, or over one minted since.
Rotating ==
  \A r \in alive : run[r].at = "mint" =>
    /\ run[r].result = "saved"
    /\ config = run[r].cp.session \/ config \in crossed

\* Whose id a step takes out of the configuration.
LEMMA StepRotates ==
  ASSUME IInv, Rotating, [Next]_vars, config' # config
  PROVE  /\ config' = config + 1
         /\ config \in resets' \cup crossed
              \/ \E c \in Checkpoints : c.session = config /\ receipt'[c] = "saved"
<1>1. ASSUME NEW r \in alive, Advance(r)
      PROVE  /\ config' = config + 1
             /\ config \in crossed
                  \/ \E c \in Checkpoints : c.session = config /\ receipt'[c] = "saved"
  <2>1. Mint(r)
    BY <1>1 DEF Advance, CheckLock, Reclaim, Open, Stamp, Confirm, Send, Record, Report, Rotate,
                Unlock, Throw
  <2>2. /\ r \in Runs /\ run[r].cp \in Checkpoints
        /\ config' = config + 1 /\ receipt' = receipt
    BY <2>1 DEF IInv, Types, RunStates, Mint, NewId
  <2>3. receipt[run[r].cp] = "saved"
    BY <2>1, <2>2 DEF IInv, Receipts, ReceiptOf, ReportStatus, Rotating, Mint
  <2> QED
    BY <2>1, <2>2, <2>3 DEF Rotating, Mint
<1>2. CASE SessionReset
  BY <1>2 DEF SessionReset, NewId
<1>3. ASSUME NEW r \in alive, Crash(r) \/ \E cp \in Checkpoints, host \in BOOLEAN : Load(r, cp, host)
      PROVE  config' = config
  BY <1>3 DEF Load, Crash
<1>4. ~UNCHANGED vars
  BY DEF vars
<1>5. SessionReset \/ \E r \in alive : Advance(r)
  BY <1>3, <1>4 DEF Next
<1> QED
  BY <1>1, <1>2, <1>5

LEMMA StepRotating ==
  ASSUME IInv, Rotating, [Next]_vars
  PROVE  Rotating' /\ crossed \subseteq crossed'
<1>1. ASSUME NEW r \in alive, Advance(r)
      PROVE  Rotating' /\ crossed \subseteq crossed'
  <2>1. r \in Runs /\ run[r] \in RunStates /\ alive' = alive /\ alive \subseteq Runs
    BY <1>1 DEF IInv, Types, Advance, CheckLock, Reclaim, Open, Stamp, Confirm, Send, Record,
                Report, Rotate, Mint, NewId, Unlock, Throw
  <2>2. \A s \in alive : s # r => run'[s] = run[s]
    BY <1>1, <2>1 DEF IInv, Types, Advance, CheckLock, Reclaim, Open, Stamp, Confirm, Send,
                      Record, Report, Rotate, Mint, NewId, Unlock, Throw, Go
  <2>3. CASE Mint(r)
    <3>1. run'[r].at = "unlock" /\ config' = config + 1 /\ crossed \subseteq crossed'
      BY <2>1, <2>3 DEF IInv, Types, RunStates, Mint, NewId, Go
    <3>2. ASSUME NEW s \in alive \ {r}, run[s].at = "mint"
          PROVE  config' \in crossed'
      BY <2>3, <3>2 DEF Mint, NewId
    <3> QED
      BY <2>1, <2>2, <3>1, <3>2 DEF Rotating
  <2>4. CASE Rotate(r)
    <3>1. /\ run'[r].at = "mint" => Rotates(r)
          /\ run'[r].cp = run[r].cp /\ run'[r].result = run[r].result
          /\ UNCHANGED <<config, crossed>>
      BY <2>1, <2>4 DEF IInv, Types, RunStates, Rotate, Go
    <3>2. Rotates(r) => run[r].result = "saved" /\ config = run[r].cp.session
      BY DEF Rotates, ReportStatus
    <3> QED
      BY <2>1, <2>2, <3>1, <3>2 DEF Rotating
  <2>5. CASE ~Mint(r) /\ ~Rotate(r)
    <3>1. UNCHANGED <<config, crossed>>
      BY <1>1, <2>5 DEF Advance, CheckLock, Reclaim, Open, Stamp, Confirm, Send, Record, Report,
                        Unlock, Throw
    <3>2. run'[r].at # "mint"
      <4>1. CASE Throw(r)
        BY <2>1, <4>1, ThrowEffect DEF IInv
      <4>2. CASE ~Throw(r)
        BY <1>1, <2>1, <2>5, <4>2 DEF IInv, Types, RunStates, Advance, CheckLock, Reclaim, Open,
                                      Stamp, Confirm, Send, Record, Report, Unlock, Go
      <4> QED
        BY <4>1, <4>2
    <3> QED
      BY <2>1, <2>2, <3>1, <3>2 DEF Rotating
  <2> QED
    BY <2>3, <2>4, <2>5
<1>2. CASE SessionReset
  <2>1. /\ UNCHANGED <<run, alive>> /\ config' = config + 1 /\ crossed \subseteq crossed'
        /\ \A s \in alive : run[s].at = "mint" => config' \in crossed'
    BY <1>2 DEF SessionReset, NewId
  <2> QED
    BY <2>1 DEF Rotating
<1>3. ASSUME NEW r \in alive, NEW cp \in Checkpoints, NEW host \in BOOLEAN, Load(r, cp, host)
      PROVE  Rotating' /\ crossed \subseteq crossed'
  <2>1. /\ run'[r].at # "mint" /\ UNCHANGED <<config, alive, crossed>>
        /\ \A s \in alive : s # r => run'[s] = run[s]
    BY <1>3 DEF IInv, Types, Load
  <2> QED
    BY <2>1 DEF Rotating
<1>4. CASE (\E r \in alive : Crash(r)) \/ UNCHANGED vars
  <2>1. alive' \subseteq alive /\ UNCHANGED <<config, run, crossed>>
    BY <1>4 DEF Crash, vars
  <2> QED
    BY <2>1 DEF Rotating
<1> QED
  BY <1>1, <1>2, <1>3, <1>4 DEF Next

LEMMA AlwaysRotating == Spec /\ []OneReclaims => [](IInv /\ Rotating)
<1>1. Init => Rotating
  BY DEF Init, Rotating
<1>2. OneReclaims /\ IInv /\ Rotating /\ [Next]_vars => IInv' /\ Rotating'
  BY NextIInv, StepRotating
<1> QED
  BY InitIInv, <1>1, <1>2, PTL DEF Spec

\* The configuration leaves a session only after a reset or once a checkpoint
\* of it is saved; the others it leaves were minted between the look and the
\* write of a rotation that went over them.
THEOREM SessionsAreKept == Spec /\ []OneReclaims => []LeftSessionsAreSaved
<1>1. Init => LeftSessionsAreSaved
  BY DEF Init, LeftSessionsAreSaved
<1>2. ASSUME IInv, Rotating, LeftSessionsAreSaved, [Next]_vars
      PROVE  LeftSessionsAreSaved'
  <2> DEFINE Saved(s) == \E c \in Checkpoints : c.session = s /\ receipt[c] = "saved"
             Kept(s)  == s \in resets \cup crossed \/ Saved(s)
  <2>1. \A s \in 0..(config - 1) : Kept(s)'
    <3>1. resets \subseteq resets' /\ crossed \subseteq crossed'
      BY <1>2, StepRotating DEF Next, Advance, vars, SessionReset, Load, Crash, CheckLock, Reclaim,
             Open, Stamp, Confirm, Send, Record, Report, Rotate, Mint, NewId, Unlock, Throw
    <3> QED
      BY <1>2, <3>1, StepEffect DEF LeftSessionsAreSaved
  <2>2. config' = config \/ (config' = config + 1 /\ \A s \in {config} : Kept(s)')
    <3>1. config' # config =>
            config' = config + 1 /\ (config \in resets' \cup crossed \/
              \E c \in Checkpoints : c.session = config /\ receipt'[c] = "saved")
      BY <1>2, StepRotates
    <3>2. crossed \subseteq crossed'
      BY <1>2, StepRotating
    <3> QED
      BY <3>1, <3>2
  <2> QED
    BY <1>2, <2>1, <2>2 DEF LeftSessionsAreSaved, IInv, Types
<1> QED
  BY <1>1, <1>2, AlwaysRotating, PTL DEF Spec

\* As long as no id is minted between the look of a rotation and its write,
\* every rotation comes after a saved checkpoint of the session it ends, or a
\* reset.
THEOREM RotationsFollowSaves ==
  Spec /\ []OneReclaims /\ [](crossed = {}) => RotationFollowsSave
<1> DEFINE A == config' # config =>
                  \/ config \in resets'
                  \/ \E c \in Checkpoints : c.session = config /\ receipt[c] = "saved"
<1>1. ASSUME IInv, Rotating, crossed = {}, [Next]_vars
      PROVE  [A]_vars
  <2> SUFFICES ASSUME config' # config, config \notin resets'
               PROVE  \E c \in Checkpoints : c.session = config /\ receipt[c] = "saved"
    OBVIOUS
  <2>1. PICK c \in Checkpoints : c.session = config /\ receipt'[c] = "saved"
    BY <1>1, StepRotates
  <2>2. receipt' = receipt
    <3>1. ~SessionReset
      BY DEF SessionReset
    <3>2. PICK r \in alive : Advance(r)
      BY <1>1, <3>1 DEF Next, Load, Crash, vars
    <3> QED
      BY <3>2 DEF Advance, CheckLock, Reclaim, Open, Stamp, Confirm, Send, Record, Report,
                  Rotate, Mint, Unlock, Throw
  <2> QED
    BY <2>1, <2>2
<1> QED
  BY <1>1, AlwaysRotating, PTL DEF Spec, RotationFollowsSave

-----------------------------------------------------------------------------
(* What LockIsReleased rests on, without fairness: a lock file is in the      *)
(* hands of a run that is inside, and every step takes a run closer to the    *)
(* end of its command, which is past the removal of the file.                 *)

LocksAreHeld ==
  \A c \in Checkpoints : lock[c].by \in alive =>
    /\ run[lock[c].by].at \in Inside \cup Left
    /\ run[lock[c].by].cp = c

Ahead(r) ==
  CASE run[r].at = "new"       -> 12
    [] run[r].at = "checkLock" -> 11
    [] run[r].at = "reclaim"   -> 10
    [] run[r].at = "open"      -> 9
    [] run[r].at = "stamp"     -> 8
    [] run[r].at = "confirm"   -> 7
    [] run[r].at = "send"      -> 6
    [] run[r].at = "record"    -> 5
    [] run[r].at = "report"    -> 4
    [] run[r].at = "rotate"    -> 3
    [] run[r].at = "mint"      -> 2
    [] run[r].at = "unlock"    -> 1
    [] OTHER                   -> 0

RunsGoOn == \A r \in Runs : run'[r] # run[r] => Ahead(r)' < Ahead(r)

LEMMA StepHolds ==
  ASSUME Types, LocksAreHeld, [Next]_vars
  PROVE  LocksAreHeld'
<1>1. ASSUME NEW r \in alive, Advance(r)
      PROVE  LocksAreHeld'
  <2> DEFINE c == run[r].cp
  <2>1. /\ r \in Runs /\ run[r] \in RunStates /\ c \in Checkpoints /\ lock[c] \in Locks
        /\ Blank \notin alive /\ alive' = alive
    BY <1>1, CloseoutShape
       DEF Types, RunStates, Advance, CheckLock, Reclaim, Open, Stamp, Confirm, Send, Record,
           Report, Rotate, Mint, NewId, Unlock, Throw
  <2>2. \A s \in Runs : s # r => run'[s] = run[s]
    BY <1>1, <2>1 DEF Types, Advance, CheckLock, Reclaim, Open, Stamp, Confirm, Send, Record,
                      Report, Rotate, Mint, NewId, Unlock, Throw, Go
  <2>3. /\ run'[r].cp = c
        /\ run[r].at \in Inside /\ ~Unlock(r) => run'[r].at \in Inside \cup Left
    <3>1. CASE \/ CheckLock(r) \/ Reclaim(r) \/ Open(r) \/ Unlock(r)
      BY <2>1, <3>1 DEF Types, RunStates, CheckLock, Reclaim, Open, Unlock, Go, Inside
    <3>2. CASE Stamp(r) \/ Confirm(r) \/ Report(r) \/ Rotate(r) \/ Mint(r)
      BY <2>1, <3>2 DEF Types, RunStates, Stamp, Confirm, Report, Rotate, Mint, Go
    <3>3. CASE Record(r) \/ \E result \in Results \ {"none"} : Send(r, result)
      BY <2>1, <3>3 DEF Types, RunStates, Record, Send, Inside
    <3>4. CASE Throw(r)
      BY <3>4, ThrowEffect
    <3> QED
      BY <1>1, <3>1, <3>2, <3>3, <3>4 DEF Advance
  <2>4. \/ lock' = lock /\ ~Unlock(r)
        \/ lock' = [lock EXCEPT ![c] = Nobody]
        \/ /\ lock' = [lock EXCEPT ![c] = [by |-> r, stamped |-> FALSE]]
           /\ run'[r].at \in Inside
        \/ /\ lock[c].by = r /\ lock' = [lock EXCEPT ![c].stamped = TRUE]
           /\ run'[r].at \in Inside
    BY <1>1, <2>1 DEF Types, RunStates, Advance, CheckLock, Reclaim, Open, Stamp, Confirm, Send,
                      Record, Report, Rotate, Mint, NewId, Unlock, Throw, Go, Inside
  <2>5. lock[c].by = r => [lock[c] EXCEPT !.stamped = TRUE].by = r
    BY <2>1 DEF Locks, Nobody
  <2>6. \A d \in Checkpoints : d # c => lock'[d] = lock[d]
    BY <2>1, <2>4 DEF Types
  <2>7. \/ lock'[c] = lock[c] /\ ~Unlock(r)
        \/ lock'[c].by = Blank
        \/ lock'[c].by = r /\ run'[r].at \in Inside \cup Left
    <3>1. CASE lock' = lock /\ ~Unlock(r)
      BY <3>1
    <3>2. CASE lock' = [lock EXCEPT ![c] = Nobody]
      BY <2>1, <3>2 DEF Types, Nobody
    <3>3. ASSUME lock' = [lock EXCEPT ![c] = [by |-> r, stamped |-> FALSE]]
          PROVE  lock'[c].by = r
      BY <2>1, <3>3 DEF Types
    <3>4. ASSUME lock[c].by = r, lock' = [lock EXCEPT ![c].stamped = TRUE]
          PROVE  lock'[c].by = r
      BY <2>1, <2>5, <3>4 DEF Types
    <3> QED
      BY <2>4, <3>1, <3>2, <3>3, <3>4
  <2>8. \A d \in Checkpoints : lock[d].by = r => d = c /\ run[r].at \in Inside
    <3>1. run[r].at \notin Left
      BY <1>1 DEF Advance, CheckLock, Reclaim, Open, Stamp, Confirm, Send, Record, Report, Rotate,
                  Mint, Unlock, Throw
    <3> QED
      BY <2>1, <3>1 DEF LocksAreHeld
  <2>9. alive \subseteq Runs
    BY DEF Types
  <2> QED
    BY <2>1, <2>2, <2>3, <2>6, <2>7, <2>8, <2>9 DEF LocksAreHeld
<1>2. ASSUME NEW r \in alive, NEW cp \in Checkpoints, NEW host \in BOOLEAN, Load(r, cp, host)
      PROVE  LocksAreHeld'
  <2>1. /\ r \in Runs /\ alive \subseteq Runs /\ run[r].at \notin Inside \cup Left
        /\ \A s \in Runs : s # r => run'[s] = run[s]
        /\ UNCHANGED <<lock, alive>>
    BY <1>2 DEF Types, Load, Inside
  <2> QED
    BY <2>1 DEF LocksAreHeld
<1>3. CASE SessionReset \/ (\E r \in alive : Crash(r)) \/ UNCHANGED vars
  <2>1. alive' \subseteq alive /\ UNCHANGED <<lock, run>>
    BY <1>3 DEF SessionReset, Crash, vars
  <2> QED
    BY <2>1 DEF LocksAreHeld
<1> QED
  BY <1>1, <1>2, <1>3 DEF Next

\* Who a lock file names is inside, at its checkpoint, or was killed, or ended
\* because its pid could not be written or the file not removed: nothing else that
\* fails in a hook leaves a lock file behind, with any number of runs and kills,
\* and of locks removed by mistake.
THEOREM NoLockIsLeft == Spec => []LocksAreHeld
<1>1. Init => LocksAreHeld
  BY CloseoutShape DEF Init, LocksAreHeld, Nobody
<1> QED
  BY <1>1, InitTypes, StepTypes, StepHolds, PTL DEF Spec

\* Each step of a run takes it further, so that it has at most twelve: it never
\* waits for a lock and never goes back to one.
THEOREM RunsEnd == Spec => [][RunsGoOn]_vars
<1>1. ASSUME Types, [Next]_vars
      PROVE  [RunsGoOn]_vars
  <2>1. ASSUME NEW r \in alive, Advance(r) \/ \E cp \in Checkpoints, host \in BOOLEAN : Load(r, cp, host)
        PROVE  RunsGoOn
    <3>1. r \in Runs /\ run[r] \in RunStates /\ run \in [Runs -> RunStates]
      BY <1>1 DEF Types
    <3>2. \A s \in Runs : s # r => run'[s] = run[s]
      BY <2>1, <3>1 DEF Load, Advance, CheckLock, Reclaim, Open, Stamp, Confirm, Send, Record,
                        Report, Rotate, Mint, NewId, Unlock, Throw, Go
    <3>3. Ahead(r)' < Ahead(r)
      <4>1. CASE Throw(r)
        <5>1. run'[r].at = AfterThrow(run[r].at)
          BY <3>1, <4>1 DEF Throw, Go, RunStates
        <5> QED
          BY <3>1, <4>1, <5>1, ThrowLeads DEF Throw, RunStates, Places, Ahead
      <4>2. CASE ~Throw(r)
        BY <2>1, <3>1, <4>2 DEF RunStates, Load, Advance, CheckLock, Reclaim, Open, Stamp, Confirm,
                                Send, Record, Report, Rotate, Mint, NewId, Unlock, Go, Ahead
      <4> QED
        BY <4>1, <4>2
    <3> QED
      BY <3>2, <3>3 DEF RunsGoOn
  <2>2. ASSUME SessionReset \/ (\E r \in alive : Crash(r)) \/ UNCHANGED vars
        PROVE  RunsGoOn
    BY <2>2 DEF RunsGoOn, SessionReset, Crash, vars
  <2> QED
    BY <1>1, <2>1, <2>2 DEF Next
<1> QED
  BY <1>1, InitTypes, StepTypes, PTL DEF Spec

-----------------------------------------------------------------------------
\* A lock file with no pid in it is about to get one, its owner having created
\* it and not gone on, or its owner could not write it.
Unstamped ==
  \A c \in Checkpoints :
    lock[c] # Nobody /\ ~lock[c].stamped =>
      run[lock[c].by].at \in {"stamp", "unstamped"} /\ run[lock[c].by].cp = c

LEMMA StepUnstamped ==
  ASSUME Types, Unstamped, [Next]_vars
  PROVE  Unstamped'
<1>1. ASSUME NEW r \in alive, Advance(r)
      PROVE  Unstamped'
  <2> DEFINE c == run[r].cp
  <2>1. /\ r \in Runs /\ run[r] \in RunStates /\ c \in Checkpoints /\ run \in [Runs -> RunStates]
        /\ lock \in [Checkpoints -> Locks]
    BY <1>1 DEF Types, RunStates
  <2>2. \A s \in Runs : s # r => run'[s] = run[s]
    BY <1>1, <2>1 DEF Advance, CheckLock, Reclaim, Open, Stamp, Confirm, Send, Record, Report,
                      Rotate, Mint, NewId, Unlock, Throw, Go
  <2>3. run'[r].cp = c
    BY <1>1, <2>1 DEF RunStates, Advance, CheckLock, Reclaim, Open, Stamp, Confirm, Send, Record,
                      Report, Rotate, Mint, NewId, Unlock, Throw, Go
  <2>4. SUFFICES ASSUME NEW d \in Checkpoints, lock'[d] # Nobody, ~lock'[d].stamped
                 PROVE  /\ run'[lock'[d].by].at \in {"stamp", "unstamped"}
                        /\ run'[lock'[d].by].cp = d
    BY DEF Unstamped
  <2>5. CASE Open(r) /\ lock'[d] # lock[d]
    <3>1. d = c /\ lock'[d] = [by |-> r, stamped |-> FALSE] /\ run'[r].at = "stamp"
      BY <2>1, <2>5 DEF Open, Go, RunStates
    <3> QED
      BY <2>3, <3>1
  <2>6. CASE ~Open(r) \/ lock'[d] = lock[d]
    <3>1. lock'[d] = lock[d]
      BY <1>1, <2>1, <2>4, <2>6 DEF Advance, CheckLock, Reclaim, Open, Stamp, Confirm, Send,
                                    Record, Report, Rotate, Mint, NewId, Unlock, Throw, Locks, Nobody
    <3>2. lock[d].by \in Runs
      BY <2>1, <2>4, <3>1 DEF Locks
    <3>3. run[lock[d].by].at \in {"stamp", "unstamped"} /\ run[lock[d].by].cp = d
      BY <2>4, <3>1 DEF Unstamped
    <3>4. CASE lock[d].by = r
      <4>1. Stamp(r) \/ (Throw(r) /\ run[r].at = "stamp")
        BY <1>1, <3>3, <3>4 DEF Advance, CheckLock, Reclaim, Open, Stamp, Confirm, Send, Record,
                                Report, Rotate, Mint, Unlock, Throw
      <4>2. ~Stamp(r)
        <5>1. Stamp(r) => lock'[d].stamped
          BY <2>1, <3>3, <3>4 DEF Stamp, Locks
        <5> QED
          BY <2>4, <5>1
      <4>3. run'[r].at = "unstamped"
        BY <4>1, <4>2, ThrowEffect
      <4> QED
        BY <2>3, <3>1, <3>3, <3>4, <4>3
    <3>5. CASE lock[d].by # r
      BY <2>2, <3>1, <3>2, <3>3, <3>5
    <3> QED
      BY <3>4, <3>5
  <2> QED
    BY <2>5, <2>6
<1>2. ASSUME NEW r \in alive, NEW cp \in Checkpoints, NEW host \in BOOLEAN, Load(r, cp, host)
      PROVE  Unstamped'
  <2>1. /\ r \in Runs /\ run[r].at = "new" /\ lock' = lock
        /\ \A s \in Runs : s # r => run'[s] = run[s]
        /\ lock \in [Checkpoints -> Locks]
    BY <1>2 DEF Types, Load
  <2> QED
    BY <2>1 DEF Unstamped, Locks
<1>3. CASE SessionReset \/ (\E r \in alive : Crash(r)) \/ UNCHANGED vars
  BY <1>3 DEF SessionReset, Crash, vars, Unstamped
<1> QED
  BY <1>1, <1>2, <1>3 DEF Next

\* No run ended between the creation of its lock file and the write of its pid,
\* killed or by a write that failed.
NoneEndsUnstamped ==
  \A r \in Runs : run[r].at # "unstamped" /\ (run[r].at = "stamp" => r \in alive)

\* The end of a run between the creation of the lock file and the write of the
\* pid, by a kill or because the write fails, is the only way to a lock that is not
\* known for a dead one: without it a run goes on to create the file only where
\* there is none, or a live run's.
THEOREM DeadLocksAreSeen == Spec /\ []NoneEndsUnstamped => DeadLocksAreReclaimed
<1>1. Init => Unstamped
  BY DEF Init, Unstamped
<1>2. ASSUME Types, Unstamped, NoneEndsUnstamped, [Next]_vars
      PROVE  [\A r \in Runs : run[r].at = "checkLock" /\ run'[r].at = "open" =>
                lock[run[r].cp] = Nobody \/ Running(lock[run[r].cp].by)]_vars
  <2>1. SUFFICES ASSUME NEW r \in Runs, run[r].at = "checkLock", run'[r].at = "open"
                 PROVE  lock[run[r].cp] = Nobody \/ Running(lock[run[r].cp].by)
    OBVIOUS
  <2> DEFINE c == run[r].cp
  <2>2. /\ run \in [Runs -> RunStates] /\ run[r] \in RunStates /\ c \in Checkpoints
        /\ lock[c] \in Locks
    BY <1>2 DEF Types, RunStates
  <2>3. CheckLock(r)
    <3>1. ~SessionReset /\ ~(\E s \in alive : Crash(s)) /\ ~UNCHANGED vars
      BY <2>1 DEF SessionReset, Crash, vars
    <3>2. ASSUME NEW s \in alive, NEW cp \in Checkpoints, NEW host \in BOOLEAN, Load(s, cp, host)
          PROVE  FALSE
      BY <2>1, <2>2, <3>2 DEF Load
    <3>3. PICK s \in alive : Advance(s)
      BY <1>2, <3>1, <3>2 DEF Next
    <3>4. s = r
      BY <2>1, <2>2, <3>3 DEF Advance, CheckLock, Reclaim, Open, Stamp, Confirm, Send, Record,
                              Report, Rotate, Mint, NewId, Unlock, Throw, Go
    <3>5. ~Throw(r)
      BY <2>1, <2>2, ThrowLeads DEF Throw, Go, RunStates
    <3> QED
      BY <2>1, <3>3, <3>4, <3>5 DEF Advance, CheckLock, Reclaim, Open, Stamp, Confirm, Send,
                                    Record, Report, Rotate, Mint, Unlock
  <2>4. ~lock[c].stamped \/ Running(lock[c].by)
    BY <2>1, <2>2, <2>3 DEF CheckLock, Go, RunStates
  <2>5. lock[c] # Nobody => lock[c].by \in Runs
    BY <2>2 DEF Locks
  <2> QED
    BY <1>2, <2>2, <2>4, <2>5 DEF Unstamped, NoneEndsUnstamped, Running
<1> QED
  BY <1>1, <1>2, InitTypes, StepTypes, StepUnstamped, PTL DEF Spec, DeadLocksAreReclaimed
=============================================================================

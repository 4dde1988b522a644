--------------------------- MODULE SessionCloseout ---------------------------
(***************************************************************************)
(* `snipara-companion session-end`, as editor Stop hooks and users run it: *)
(* one process per run, a receipt file per checkpoint, a lock file beside  *)
(* it that names the pid of its owner, the hosted journal, and the session *)
(* id in the companion's configuration.                                    *)
(*                                                                         *)
(* A checkpoint is a session id and a summary; its receipt is found by a   *)
(* hash of both.  Files are replaced whole (a temporary file and a rename).*)
(***************************************************************************)
EXTENDS Integers, FiniteSets

CONSTANTS
  Runs,          \* the session-end processes of a behaviour; each has its own pid
  HostSessions,  \* ids given with --session-id
  Summaries,     \* what there is to save
  Blank,         \* neither summary nor files
  MaxCrashes,    \* bound: processes killed
  MaxResets      \* bound: uses of `session reset`

ASSUME CloseoutShape ==
  /\ IsFiniteSet(Runs)
  /\ Blank \notin Summaries \cup Runs
  /\ HostSessions \cap Int = {}
  /\ MaxCrashes \in Nat /\ MaxResets \in Nat

VARIABLES
  config,   \* config.sessionId: the companion's ids are numbered as they are minted
  resets,   \* the ids `session reset` gave up
  receipt,  \* status of the receipt of a checkpoint, "none" before there is one
  lock,     \* the lock file of a checkpoint: nobody, or who created it and the pid in it
  journal,  \* entries of a checkpoint in the hosted journal
  run,      \* where each run is, its checkpoint and its in-memory report
  alive,    \* runs that have not been killed
  crossed   \* (history) the ids minted between the look and the write of another run's rotation

vars == <<config, resets, receipt, lock, journal, run, alive, crossed>>

Sessions    == 0..(MaxResets + Cardinality(Runs)) \cup HostSessions
Checkpoints == [session : Sessions, summary : Summaries \cup {Blank}]
Nobody      == [by |-> Blank, stamped |-> FALSE]
Locks       == {Nobody} \cup [by : Runs, stamped : BOOLEAN]
Results     == {"none", "saved", "lost", "failed", "skipped"}

\* The points at which a run can be preempted, in the order of the code, and
\* those at which it has ended: "refused" before it had the lock, "unstamped" when
\* its pid could not be written to the lock file and "unreleased" when the file
\* could not be removed.  In the last two cases the file is still there.
Outside == {"new", "checkLock", "reclaim", "open"}
Inside  == {"stamp", "confirm", "send", "record", "report", "rotate", "mint", "unlock"}
Left    == {"unstamped", "unreleased"}
Ended   == {"done", "refused"} \cup Left
Places  == Outside \cup Inside \cup Ended

RunStates == [at     : Places,
              cp     : Checkpoints,
              host   : BOOLEAN,   \* given a --session-id
              result : Results,   \* what became of the hosted append
              noted  : BOOLEAN]   \* has written the result to the receipt

NoCheckpoint == [session |-> 0, summary |-> Blank]

Go(r, to) == run' = [run EXCEPT ![r].at = to]

\* The process of r exists, and its pid answers.
Running(r) == r \in alive /\ run[r].at \notin Left

\* Mutant: the outcome of the append taken for a status.
ReportResult(r) == run[r].result

\* report.status as the reply to persistSession leaves it.
ReportStatus(r) == IF run[r].result \in {"saved", "skipped"} THEN run[r].result ELSE "error"

-----------------------------------------------------------------------------
(* session-end *)

\* The checkpoint: of the --retry receipt, of --session-id, or of the session
\* in the configuration.
Chosen(r, cp, host) ==
  \/ ~host /\ receipt[cp] # "none"
  \/ host /\ cp.session \in HostSessions
  \/ ~host /\ cp.session = config

\* A receipt already saved is only printed again.
Load(r, cp, host) ==
  /\ run[r].at = "new"
  /\ Chosen(r, cp, host)
  /\ run' = [run EXCEPT ![r] =
       [at |-> IF receipt[cp] = "saved" THEN "done" ELSE "checkLock",
        cp |-> cp, host |-> host, result |-> "none", noted |-> FALSE]]
  /\ UNCHANGED <<config, resets, receipt, lock, journal, alive, crossed>>

\* lockSessionCloseout: a lock file whose pid is dead is to be removed.  An
\* empty one has no pid to ask for.
CheckLock(r) ==
  LET l == lock[run[r].cp]
  IN  /\ run[r].at = "checkLock"
      /\ Go(r, IF l.stamped /\ ~Running(l.by) THEN "reclaim" ELSE "open")
      /\ UNCHANGED <<config, resets, receipt, lock, journal, alive, crossed>>

\* Removed by name, whoever's it is by now; removing nothing throws.
Reclaim(r) ==
  LET c == run[r].cp
  IN  /\ run[r].at = "reclaim"
      /\ Go(r, IF lock[c] = Nobody THEN "refused" ELSE "open")
      /\ lock' = [lock EXCEPT ![c] = Nobody]
      /\ UNCHANGED <<config, resets, receipt, journal, alive, crossed>>

\* Mutant: open(..., "w") opens the file of another run as well.
OpenShared(r) ==
  /\ run[r].at = "open"
  /\ Go(r, "stamp")
  /\ lock' = [lock EXCEPT ![run[r].cp] = [by |-> r, stamped |-> FALSE]]
  /\ UNCHANGED <<config, resets, receipt, journal, alive, crossed>>

\* open(..., "wx"): creates the file or throws.
Open(r) ==
  LET c == run[r].cp
  IN  /\ run[r].at = "open"
      /\ IF lock[c] = Nobody
           THEN Go(r, "stamp") /\ lock' = [lock EXCEPT ![c] = [by |-> r, stamped |-> FALSE]]
           ELSE Go(r, "refused") /\ UNCHANGED lock
      /\ UNCHANGED <<config, resets, receipt, journal, alive, crossed>>

\* The pid goes into the file that was opened, which may have lost its name.
Stamp(r) ==
  LET c == run[r].cp
  IN  /\ run[r].at = "stamp"
      /\ Go(r, "confirm")
      /\ lock' = IF lock[c].by = r THEN [lock EXCEPT ![c].stamped = TRUE] ELSE lock
      /\ UNCHANGED <<config, resets, receipt, journal, alive, crossed>>

\* Mutant: the receipt read before the lock is trusted.
ConfirmBlindly(r) ==
  /\ run[r].at = "confirm"
  /\ Go(r, "send")
  /\ receipt' = [receipt EXCEPT ![run[r].cp] = "pending"]
  /\ UNCHANGED <<config, resets, lock, journal, alive, crossed>>

\* Under the lock the receipt is read again, and marked pending.
Confirm(r) ==
  LET c == run[r].cp
  IN  /\ run[r].at = "confirm"
      /\ IF receipt[c] = "saved"
           THEN Go(r, "unlock") /\ UNCHANGED receipt
           ELSE Go(r, "send") /\ receipt' = [receipt EXCEPT ![c] = "pending"]
      /\ UNCHANGED <<config, resets, lock, journal, alive, crossed>>

\* persistSession: nothing is sent for a blank checkpoint; an entry may be
\* appended and its confirmation lost.
Send(r, result) ==
  LET c == run[r].cp
  IN  /\ run[r].at = "send"
      /\ (result = "skipped") = (c.summary = Blank)
      /\ run' = [run EXCEPT ![r].at = "record", ![r].result = result]
      /\ journal' = IF result \in {"saved", "lost"} THEN [journal EXCEPT ![c] = @ + 1]
                    ELSE journal
      /\ UNCHANGED <<config, resets, receipt, lock, alive, crossed>>

\* The receipt is written before the event is sent, and again after.
Record(r) ==
  /\ run[r].at = "record"
  /\ run' = [run EXCEPT ![r].at = "report", ![r].noted = TRUE]
  /\ receipt' = [receipt EXCEPT ![run[r].cp] = ReportStatus(r)]
  /\ UNCHANGED <<config, resets, lock, journal, alive, crossed>>

Report(r) ==
  /\ run[r].at = "report"
  /\ Go(r, "rotate")
  /\ receipt' = [receipt EXCEPT ![run[r].cp] = ReportStatus(r)]
  /\ UNCHANGED <<config, resets, lock, journal, alive, crossed>>

\* Mutant: rotated whatever became of the checkpoint.
RotatesAlways(r) == ~run[r].host /\ config = run[r].cp.session

\* A saved session is over: the configuration gets a new id, unless the host
\* names the sessions or the configuration has moved on.
Rotates(r) ==
  /\ ReportStatus(r) = "saved"
  /\ ~run[r].host
  /\ config = run[r].cp.session

Rotate(r) ==
  /\ run[r].at = "rotate"
  /\ Go(r, IF Rotates(r) THEN "mint" ELSE "unlock")
  /\ UNCHANGED <<config, resets, receipt, lock, journal, alive, crossed>>

\* A fresh id, over whatever the configuration holds by now.
NewId(others) ==
  /\ config' = config + 1
  /\ crossed' = IF \E s \in others : run[s].at = "mint" THEN crossed \cup {config + 1} ELSE crossed

Mint(r) ==
  /\ run[r].at = "mint"
  /\ Go(r, "unlock")
  /\ NewId(alive \ {r})
  /\ UNCHANGED <<resets, receipt, lock, journal, alive>>

\* finally: the lock file is removed by name.
Unlock(r) ==
  /\ run[r].at = "unlock"
  /\ Go(r, "done")
  /\ lock' = [lock EXCEPT ![run[r].cp] = Nobody]
  /\ UNCHANGED <<config, resets, receipt, journal, alive, crossed>>

\* Mutant: the lock is not removed on the error path.
AfterThrowLocked(at) ==
  CASE at = "stamp"    -> "unstamped"
    [] at = "unlock"   -> "unreleased"
    [] OTHER           -> "refused"

\* Where a file operation that throws leaves a run.  Those on the lock file are
\* outside the try block.
AfterThrow(at) ==
  CASE at \in Outside -> "refused"
    [] at = "stamp"    -> "unstamped"
    [] at = "unlock"   -> "unreleased"
    [] OTHER           -> "unlock"

Throw(r) ==
  /\ run[r].at \notin {"new", "send"} \cup Ended
  /\ Go(r, AfterThrow(run[r].at))
  /\ UNCHANGED <<config, resets, receipt, lock, journal, alive, crossed>>

-----------------------------------------------------------------------------
Crash(r) ==
  /\ Cardinality(Runs \ alive) < MaxCrashes
  /\ run[r].at \notin {"new"} \cup Ended
  /\ alive' = alive \ {r}
  /\ UNCHANGED <<config, resets, receipt, lock, journal, run, crossed>>

SessionReset ==
  /\ Cardinality(resets) < MaxResets
  /\ resets' = resets \cup {config}
  /\ NewId(alive)
  /\ UNCHANGED <<receipt, lock, journal, run, alive>>

Init ==
  /\ config = 0
  /\ resets = {}
  /\ receipt = [c \in Checkpoints |-> "none"]
  /\ lock = [c \in Checkpoints |-> Nobody]
  /\ journal = [c \in Checkpoints |-> 0]
  /\ run = [r \in Runs |-> [at |-> "new", cp |-> NoCheckpoint, host |-> FALSE,
                        result |-> "none", noted |-> FALSE]]
  /\ alive = Runs
  /\ crossed = {}

\* A step of a run that has started.
Advance(r) ==
  /\ r \in alive
  /\ \/ CheckLock(r)
     \/ Reclaim(r)
     \/ Open(r)
     \/ Stamp(r)
     \/ Confirm(r)
     \/ \E result \in Results \ {"none"} : Send(r, result)
     \/ Record(r)
     \/ Report(r)
     \/ Rotate(r)
     \/ Mint(r)
     \/ Unlock(r)
     \/ Throw(r)

Next ==
  \/ SessionReset
  \/ \E r \in alive :
       \/ \E cp \in Checkpoints, host \in BOOLEAN : Load(r, cp, host)
       \/ Advance(r)
       \/ Crash(r)

Spec == Init /\ [][Next]_vars

\* A process that runs gets on: its hosted calls have a timeout (15 s for the
\* journal, 2 s for the event) and everything else is synchronous.
FairSpec == Spec /\ \A r \in Runs : WF_vars(Advance(r))

-----------------------------------------------------------------------------
TypeOK ==
  /\ config \in Sessions \ HostSessions
  /\ resets \subseteq Sessions
  /\ receipt \in [Checkpoints -> {"none", "pending", "saved", "skipped", "error"}]
  /\ lock \in [Checkpoints -> Locks]
  /\ journal \in [Checkpoints -> 0..Cardinality(Runs)]
  /\ run \in [Runs -> RunStates]
  /\ alive \subseteq Runs
  /\ crossed \subseteq Sessions

\* "A second Stop hook must not write the same checkpoint concurrently": the
\* lock file keeps the live runs of a checkpoint apart, from the creation of
\* the file to its removal.
OneWriterPerCheckpoint ==
  \A r, s \in alive :
    run[r].at \in Inside /\ run[s].at \in Inside /\ run[r].cp = run[s].cp => r = s

\* "Confirmed receipts are not sent again", and a saved receipt is final: once
\* it says saved nothing is appended for its checkpoint, and no run marks it
\* pending, skipped or failed, not even one that looked at it before it was.
ConfirmedIsFinal ==
  [][\A c \in Checkpoints :
       receipt[c] = "saved" => journal'[c] = journal[c] /\ receipt'[c] = "saved"]_vars

\* A saved receipt has an entry behind it, and at most one entry of a
\* checkpoint was confirmed and noted: every duplicate comes from a run that
\* lost its confirmation or was stopped before it could write it down.
OneConfirmedEntry ==
  \A c \in Checkpoints :
    LET confirmed == {r \in Runs : run[r].cp = c /\ run[r].result = "saved" /\ run[r].noted}
    IN  /\ receipt[c] = "saved" => journal[c] >= 1
        /\ Cardinality(confirmed) <= 1

\* The configuration leaves a session only after a reset or once a checkpoint
\* of it is saved: "a failed write keeps the checkpoint and session id".  The
\* exception are the ids another run minted, or a reset, between the look of a
\* rotation at the configuration and its write, which goes over them.
LeftSessionsAreSaved ==
  \A s \in 0..(config - 1) :
    s \in resets \cup crossed \/ \E c \in Checkpoints : c.session = s /\ receipt[c] = "saved"

\* "The session id rotates only after confirmed persistence": whoever gives the
\* configuration a new id, the one it had was reset or has a saved checkpoint.
RotationFollowsSave ==
  [][config' # config =>
       \/ config \in resets'
       \/ \E c \in Checkpoints : c.session = config /\ receipt[c] = "saved"]_vars

\* A run gives the lock files it created back, whatever fails under the lock, so
\* that a failing hook does not lock later retries out; unless it is killed or
\* the operations on the lock file itself fail.
LockIsReleased ==
  \A r \in Runs :
    (\E c \in Checkpoints : lock[c].by = r)
      ~> (\A c \in Checkpoints : lock[c].by # r) \/ ~Running(r)

\* Test: "a retained checkpoint can be retried after its writer process
\* exited".  A run takes the lock it finds for that of a live run only when it
\* is: but the file of a run that was killed before it wrote its pid, or could
\* not write it, refuses every later run.
DeadLocksAreReclaimed ==
  [][\A r \in Runs : run[r].at = "checkLock" /\ run'[r].at = "open" =>
       lock[run[r].cp] = Nobody \/ Running(lock[run[r].cp].by)]_vars
=============================================================================

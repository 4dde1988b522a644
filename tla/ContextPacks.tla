---------------------------- MODULE ContextPacks ----------------------------
(***************************************************************************)
(* Local packs of long tool output (.snipara/context-pack): a blob per     *)
(* content, named by its hash, a manifest that lists it, and a pointer to  *)
(* the latest pack.  Files are written in place, so that a process killed  *)
(* in between leaves a file cut short.                                     *)
(***************************************************************************)
EXTENDS Naturals, FiniteSets

CONSTANTS
  Packers,     \* processes
  Outputs,     \* a pack is known by its content
  Unlisted,    \* there is no such file
  CutShort,    \* it cannot be parsed
  PackHorizon, \* bound: the clock stops here
  PackBudget   \* bound: commands started

Never == PackHorizon + 2   \* expiresAt of a pack without --ttl-days

Records == [of : Outputs, created : 0 .. PackHorizon, updated : 0 .. PackHorizon,
            expires : 0 .. Never]

ASSUME PackShape ==
  /\ PackHorizon \in Nat /\ Unlisted # CutShort
  /\ Unlisted \notin Records /\ CutShort \notin Records

VARIABLES
  blobs,     \* blobs/<sha>.txt: none, part or whole
  manifests, \* items/<id>.json: a record, CutShort or Unlisted
  latest,    \* latest.json: a record, CutShort or Unlisted
  packer,    \* what each process is doing
  packDay,
  packLog    \* auxiliary: commands started, what overlapped a clean or was killed

packVars == <<blobs, manifests, latest, packer, packDay, packLog>>

Unoccupied == [pc |-> "unoccupied"]

FirstRecord(c) == [of |-> c, created |-> 0, updated |-> 0, expires |-> Never]

\* Some contents were packed before.
PackInit ==
  /\ \E known \in SUBSET Outputs :
       /\ blobs = [c \in Outputs |-> IF c \in known THEN "whole" ELSE "none"]
       /\ manifests = [c \in Outputs |-> IF c \in known THEN FirstRecord(c) ELSE Unlisted]
       /\ IF known = {} THEN latest = Unlisted ELSE latest \in {FirstRecord(c) : c \in known}
  /\ packer = [p \in Packers |-> Unoccupied]
  /\ packDay = 0
  /\ packLog = [started |-> 0, overlap |-> FALSE, raced |-> FALSE, killed |-> FALSE]

-----------------------------------------------------------------------------

\* loadRecords: what cannot be parsed is passed over.
Listed == {manifests[c] : c \in Outputs} \ {Unlisted, CutShort}

Expired(r) == r.expires <= packDay

Step(p, from, to) == packer[p].pc = from /\ packer' = [packer EXCEPT ![p] = to]

On(p, pc) == [packer[p] EXCEPT !.pc = pc]

Cleaning == {p \in Packers : packer[p].pc \in {"listed", "unlisted"}}

Starting(p, cleans) ==
  LET others == {q \in Packers : packer[q] # Unoccupied}
  IN  /\ packLog.started < PackBudget
      /\ packLog' = [packLog EXCEPT !.started = @ + 1, !.overlap = @ \/ others # {},
                       !.raced = @ \/ (cleans /\ others # {}) \/ Cleaning # {}]

-----------------------------------------------------------------------------
(* context-pack pack *)

\* A pack made before keeps its age, and its expiry unless a new one is given.
Pack(p, c, expires) ==
  LET old == manifests[c]
      known == old \notin {Unlisted, CutShort}
  IN  /\ Starting(p, FALSE)
      /\ Step(p, "unoccupied",
              [pc |-> "packing",
               record |-> [of |-> c, updated |-> packDay,
                           created |-> IF known THEN old.created ELSE packDay,
                           expires |-> IF known /\ expires = Never THEN old.expires ELSE expires]])
      /\ UNCHANGED <<blobs, manifests, latest, packDay>>

\* A blob is created once and never overwritten; one that differs is an error.
CreateBlob(p) ==
  /\ packer[p].pc = "packing"
  /\ \E c \in {packer[p].record.of} :
       \/ blobs[c] = "none" /\ Step(p, "packing", On(p, "filling"))
          /\ blobs' = [blobs EXCEPT ![c] = "part"]
       \/ blobs[c] = "whole" /\ Step(p, "packing", On(p, "packed")) /\ UNCHANGED blobs
  /\ UNCHANGED <<manifests, latest, packDay, packLog>>

FillBlob(p) ==
  /\ Step(p, "filling", On(p, "packed"))
  /\ blobs' = [blobs EXCEPT ![packer[p].record.of] = "whole"]
  /\ UNCHANGED <<manifests, latest, packDay, packLog>>

\* The manifest is cut to nothing and then written,
CutManifest(p) ==
  /\ Step(p, "packed", On(p, "listing"))
  /\ manifests' = [manifests EXCEPT ![packer[p].record.of] = CutShort]
  /\ UNCHANGED <<blobs, latest, packDay, packLog>>

WriteManifest(p) ==
  /\ Step(p, "listing", On(p, "newest"))
  /\ manifests' = [manifests EXCEPT ![packer[p].record.of] = packer[p].record]
  /\ UNCHANGED <<blobs, latest, packDay, packLog>>

\* and so is the pointer.
CutLatest(p) ==
  /\ Step(p, "newest", On(p, "naming"))
  /\ latest' = CutShort
  /\ UNCHANGED <<blobs, manifests, packDay, packLog>>

WriteLatest(p) ==
  /\ Step(p, "naming", Unoccupied)
  /\ latest' = packer[p].record
  /\ UNCHANGED <<blobs, manifests, packDay, packLog>>

-----------------------------------------------------------------------------
(* context-pack clean *)

\* All packs, or those of an age, and those that expired unless asked not to.
Selected(all, age, expired) ==
  {r \in Listed : all \/ r.created + age <= packDay \/ (expired /\ Expired(r))}

Clean(p, all, age, expired) ==
  /\ Starting(p, TRUE)
  /\ Step(p, "unoccupied", [pc |-> "listed", todo |-> Selected(all, age, expired)])
  /\ UNCHANGED <<blobs, manifests, latest, packDay>>

\* Mutant: the blob goes first.
RemoveBlobFirst(p) ==
  /\ packer[p].pc = "listed"
  /\ \E r \in packer[p].todo :
       /\ packer' = [packer EXCEPT ![p] =
                       [pc |-> "unlisted", todo |-> packer[p].todo \ {r}, record |-> r]]
       /\ blobs' = [blobs EXCEPT ![r.of] = "none"]
  /\ UNCHANGED <<manifests, latest, packDay, packLog>>

\* Of each pack the manifest and then the blob is removed,
RemoveManifest(p) ==
  /\ packer[p].pc = "listed"
  /\ \E r \in packer[p].todo :
       /\ packer' = [packer EXCEPT ![p] =
                       [pc |-> "unlisted", todo |-> packer[p].todo \ {r}, record |-> r]]
       /\ manifests' = [manifests EXCEPT ![r.of] = Unlisted]
  /\ UNCHANGED <<blobs, latest, packDay, packLog>>

RemoveBlob(p) ==
  /\ Step(p, "unlisted", [pc |-> "listed", todo |-> packer[p].todo])
  /\ blobs' = [blobs EXCEPT ![packer[p].record.of] = "none"]
  /\ UNCHANGED <<manifests, latest, packDay, packLog>>

\* Mutant: the pointer stays.
KeepLatest(p) ==
  /\ packer[p].pc = "listed" /\ packer[p].todo = {}
  /\ packer' = [packer EXCEPT ![p] = Unoccupied]
  /\ UNCHANGED <<blobs, manifests, latest, packDay, packLog>>

\* and in the end the pointer moves to the newest pack left, or goes.
RefreshLatest(p) ==
  /\ packer[p].pc = "listed" /\ packer[p].todo = {}
  /\ \/ /\ Listed = {}
        /\ latest' = Unlisted
        /\ packer' = [packer EXCEPT ![p] = Unoccupied]
     \/ \E r \in Listed :
        /\ \A s \in Listed : s.updated <= r.updated
        /\ packer' = [packer EXCEPT ![p] = [pc |-> "newest", record |-> r]]
        /\ UNCHANGED latest
  /\ UNCHANGED <<blobs, manifests, packDay, packLog>>

-----------------------------------------------------------------------------

\* A process is killed, or throws.
Quit(p) ==
  /\ packer[p] # Unoccupied
  /\ packer' = [packer EXCEPT ![p] = Unoccupied]
  /\ packLog' = [packLog EXCEPT !.killed = TRUE]
  /\ UNCHANGED <<blobs, manifests, latest, packDay>>

AnotherDay ==
  /\ packDay < PackHorizon
  /\ packDay' = packDay + 1
  /\ UNCHANGED <<blobs, manifests, latest, packer, packLog>>

PackNext ==
  \/ \E p \in Packers :
       \/ \E c \in Outputs, expires \in {packDay + 1, Never} : Pack(p, c, expires)
       \/ CreateBlob(p) \/ FillBlob(p) \/ CutManifest(p) \/ WriteManifest(p)
       \/ CutLatest(p) \/ WriteLatest(p)
       \/ \E all, expired \in BOOLEAN, age \in {1, Never} : Clean(p, all, age, expired)
       \/ RemoveManifest(p) \/ RemoveBlob(p) \/ RefreshLatest(p)
       \/ Quit(p)
  \/ AnotherDay

PackSpec == PackInit /\ [][PackNext]_packVars

-----------------------------------------------------------------------------
(* Properties *)

PackTypeOK ==
  /\ blobs \in [Outputs -> {"none", "part", "whole"}]
  /\ manifests \in [Outputs -> Records \cup {Unlisted, CutShort}]
  /\ latest \in Records \cup {Unlisted, CutShort}

\* What is listed can be retrieved, whoever packs the same content and wherever
\* commands are killed, as long as nothing ran beside a clean (packContext writes
\* the blob before it lists it, clean unlists it first).  And after commands that
\* ran alone to their end, `latest` is the newest pack there is.
ListedPacksAreThere ==
  /\ ~packLog.raced => \A r \in Listed : blobs[r.of] = "whole"
  /\ ~(packLog.overlap \/ packLog.killed) /\ (\A p \in Packers : packer[p] = Unoccupied) =>
       IF Listed = {} THEN latest = Unlisted
       ELSE latest \in Listed /\ \A r \in Listed : r.updated <= latest.updated
=============================================================================

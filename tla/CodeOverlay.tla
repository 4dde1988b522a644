---------------------------- MODULE CodeOverlay ----------------------------
(***************************************************************************)
(* The overlay of the local code graph: built of a tree, file by file, with*)
(* what an earlier overlay has of the files that did not change; written in*)
(* place to one file by the post-commit hooks, each in the background and  *)
(* only for the commit that is still HEAD, and by questions asked of the   *)
(* working tree, which read the file back before they answer.  What is     *)
(* extracted of a file is given with its content; names have no dots and   *)
(* at most one import binds a name; a build is one step.                   *)
(***************************************************************************)
EXTENDS Naturals, Sequences, FiniteSets

CONSTANTS
  CodeFiles,
  FileForms,   \* bound: of each file, [defines, members, imports, uses] it may hold
  FirstTrees,  \* bound: what is checked out at first
  EditLimit,   \* bound: edits of the working tree
  CommitLimit, \* bound
  Unreadable   \* the overlay file is not there, or cannot be parsed

\* What files may hold, by path.
Trees ==
  {t \in UNION {[F -> UNION {FileForms[f] : f \in CodeFiles}] : F \in SUBSET CodeFiles} :
     \A f \in DOMAIN t : t[f] \in FileForms[f]}

ASSUME OverlayShape ==
  /\ FirstTrees \subseteq Trees
  \* What a name stands for is called or referred to, and not contained.
  /\ \A f \in CodeFiles : \A content \in FileForms[f] : \A u \in content.uses :
       u.kind \in {"CALLS", "REFERENCES"}
  /\ EditLimit \in Nat /\ CommitLimit \in Nat \ {0}

VARIABLES
  worktree, \* of each file of the working tree, what it holds
  commits,  \* the trees of the commits, HEAD last
  overlay,  \* the overlay file: the tree it was built of, and its edges
  syncs,    \* of each commit, its hook
  query,    \* the question under way
  edits

overlayVars == <<worktree, commits, overlay, syncs, query, edits>>

\* A node is a file, or a symbol by its file and name.
FileKey(f) == <<f, "">>
FileOfKey(key) == key[1]

Edge(from, to, kind) == [from |-> from, to |-> to, kind |-> kind]

\* The edges that the content of a file gives by itself: members of its classes.
Extracted(f, content) ==
  {Edge(<<f, m[1]>>, <<f, m[2]>>, "CONTAINS") : m \in content.members}

\* A name stands for a symbol of the same file, else for what an import binds
\* it to: the symbol of that name, or the file when it has none.
Targets(of, f, use) ==
  IF use.name \in of[f].defines \ {use.from} THEN {<<f, use.name>>}
  ELSE {IF use.name \in of[i.file].defines THEN <<i.file, use.name>> ELSE FileKey(i.file) :
          i \in {x \in of[f].imports : use.name \in x.binds /\ x.file \in DOMAIN of}}

Declared(of) ==
  UNION {{Edge(FileKey(f), <<f, s>>, "CONTAINS") : s \in of[f].defines} : f \in DOMAIN of}

Imported(of) ==
  UNION {{Edge(FileKey(f), FileKey(i.file), "IMPORTS") :
            i \in {x \in of[f].imports : x.file \in DOMAIN of}} : f \in DOMAIN of}

Used(of) ==
  UNION {UNION {{Edge(<<f, u.from>>, to, u.kind) : to \in Targets(of, f, u)} :
                  u \in of[f].uses} : f \in DOMAIN of}

Resolved(of, extracted) == extracted \cup Declared(of) \cup Imported(of) \cup Used(of)

\* Mutant: a file is taken over whenever the overlay knows it.
KnownPath(of, f) == overlay # Unreadable /\ f \in DOMAIN overlay.of

\* canReuse: the overlay has the file with the same hash.
Reusable(of, f) == overlay # Unreadable /\ f \in DOMAIN overlay.of /\ overlay.of[f] = of[f]

\* Mutant: all edges of the file, those to other files included.
AllReused(f) == {e \in overlay.edges : FileOfKey(e.from) = f}

Reused(f) == {e \in overlay.edges : FileOfKey(e.from) = f /\ e.kind = "CONTAINS"}

FromNothing(of) ==
  [of |-> of, edges |-> Resolved(of, UNION {Extracted(f, of[f]) : f \in DOMAIN of})]

ASSUME OverlaysAreReadable == \A t \in Trees : Unreadable # FromNothing(t)

\* What is extracted of a file is taken over with it: symbols, imports and uses are
\* those of the content that was indexed.
Indexed(of, f) == IF Reusable(of, f) THEN overlay.of[f] ELSE of[f]

Built(of) ==
  [of |-> of,
   edges |-> Resolved([f \in DOMAIN of |-> Indexed(of, f)],
                      UNION {IF Reusable(of, f) THEN Reused(f) ELSE Extracted(f, of[f]) :
                               f \in DOMAIN of})]

NoQuestion == [step |-> "idle", built |-> Unreadable, answer |-> Unreadable, alone |-> TRUE]
-----------------------------------------------------------------------------
OverlayInit ==
  /\ worktree \in FirstTrees /\ commits = <<worktree>> /\ edits = 0
  /\ overlay = Unreadable
  /\ syncs = <<[step |-> "started", built |-> Unreadable]>>
  /\ query = NoQuestion

EditWorktree(f) ==
  /\ edits < EditLimit /\ edits' = edits + 1
  /\ \/ \E content \in FileForms[f] :
          worktree' = [g \in DOMAIN worktree \cup {f} |-> IF g = f THEN content ELSE worktree[g]]
     \/ worktree' = [g \in DOMAIN worktree \ {f} |-> worktree[g]]
  /\ worktree' # worktree
  /\ UNCHANGED <<commits, overlay, syncs, query>>

\* A commit of the tree, and its hook in the background.
Commit ==
  /\ Len(commits) < CommitLimit /\ worktree # commits[Len(commits)]
  /\ commits' = Append(commits, worktree)
  /\ syncs' = Append(syncs, [step |-> "started", built |-> Unreadable])
  /\ UNCHANGED <<worktree, overlay, query, edits>>

\* code sync --commit --only-if-head: HEAD is looked at before the build ...
BuildSync(i) ==
  /\ syncs[i].step = "started"
  /\ syncs' = [syncs EXCEPT ![i] = IF i = Len(commits)
                                     THEN [step |-> "built", built |-> Built(commits[i])]
                                     ELSE [step |-> "ended", built |-> Unreadable]]
  /\ UNCHANGED <<worktree, commits, overlay, query, edits>>

\* ... and after it.
CheckSync(i) ==
  /\ syncs[i].step = "built"
  /\ syncs' = [syncs EXCEPT ![i] = IF i = Len(commits) THEN [@ EXCEPT !.step = "checked"]
                                     ELSE [step |-> "ended", built |-> Unreadable]]
  /\ UNCHANGED <<worktree, commits, overlay, query, edits>>

\* writeFileSync empties the file, and then fills it.
CutBySync(i) ==
  /\ syncs[i].step = "checked"
  /\ syncs' = [syncs EXCEPT ![i].step = "writing"]
  /\ overlay' = Unreadable
  /\ query' = [query EXCEPT !.alone = FALSE]
  /\ UNCHANGED <<worktree, commits, edits>>

WriteBySync(i) ==
  /\ syncs[i].step = "writing"
  /\ overlay' = syncs[i].built
  /\ syncs' = [syncs EXCEPT ![i] = [step |-> "ended", built |-> Unreadable]]
  /\ query' = [query EXCEPT !.alone = FALSE]
  /\ UNCHANGED <<worktree, commits, edits>>

KillSync(i) ==
  /\ syncs[i].step \in {"checked", "writing"}
  /\ syncs' = [syncs EXCEPT ![i] = [step |-> "ended", built |-> Unreadable]]
  /\ UNCHANGED <<worktree, commits, overlay, query, edits>>

\* code callers ... --source auto: the manifest is loaded, from the file with --cached,
LoadManifest ==
  /\ query.step = "idle"
  /\ \E cached \in BOOLEAN :
       query' = [NoQuestion EXCEPT !.step = "built",
                   !.built = IF cached /\ overlay # Unreadable THEN overlay ELSE Built(worktree)]
  /\ UNCHANGED <<worktree, commits, overlay, syncs, edits>>

\* written,
CutByQuery ==
  /\ query.step = "built"
  /\ query' = [query EXCEPT !.step = "writing", !.alone = TRUE]
  /\ overlay' = Unreadable
  /\ UNCHANGED <<worktree, commits, syncs, edits>>

WriteByQuery ==
  /\ query.step = "writing"
  /\ query' = [query EXCEPT !.step = "written"]
  /\ overlay' = query.built
  /\ UNCHANGED <<worktree, commits, syncs, edits>>

\* read back, or built again when the file cannot be read, and answered from.
ReadBack ==
  /\ query.step = "written"
  /\ query' = [query EXCEPT !.step = "answered",
                 !.answer = IF overlay # Unreadable THEN overlay ELSE Built(worktree)]
  /\ UNCHANGED <<worktree, commits, overlay, syncs, edits>>

\* The command ends, or is killed.
EndQuery ==
  /\ query.step # "idle"
  /\ query' = NoQuestion
  /\ UNCHANGED <<worktree, commits, overlay, syncs, edits>>

OverlayNext ==
  \/ \E f \in CodeFiles : EditWorktree(f)
  \/ Commit
  \/ \E i \in DOMAIN syncs :
       BuildSync(i) \/ CheckSync(i) \/ CutBySync(i) \/ WriteBySync(i) \/ KillSync(i)
  \/ LoadManifest \/ CutByQuery \/ WriteByQuery \/ ReadBack \/ EndQuery

OverlaySpec == OverlayInit /\ [][OverlayNext]_overlayVars
-----------------------------------------------------------------------------
(* Properties *)

OverlayTypeOK ==
  /\ worktree \in Trees
  /\ DOMAIN syncs = DOMAIN commits
  /\ \A i \in DOMAIN syncs : syncs[i].step \in {"started", "built", "checked", "writing", "ended"}
  /\ query.step \in {"idle", "built", "writing", "written", "answered"}

\* What is taken over from an earlier overlay, of whatever tree, does not show:
\* the overlay on disk and the one a question is answered from are what a build
\* from nothing makes of their tree; and a question no hook wrote in between is
\* answered from the very overlay its source selection describes.
OverlaysAreFresh ==
  /\ overlay # Unreadable => overlay = FromNothing(overlay.of)
  /\ query.step = "answered" =>
       /\ query.answer = FromNothing(query.answer.of)
       /\ query.alone => query.answer = query.built
=============================================================================

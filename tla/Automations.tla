----------------------------- MODULE Automations -----------------------------
(***************************************************************************)
(* `automations install` and `update`: the files of a bundle the hosted    *)
(* project generates for a client are written into the project, beside     *)
(* what is there.  A script is only replaced when the manifest knows it as *)
(* it is; instructions get a marked section; a JSON configuration is       *)
(* merged, entry by entry.  Files are written in place, one after another, *)
(* and then the manifest.  A dry run, diff and status only read.           *)
(***************************************************************************)
EXTENDS Naturals, Sequences

CONSTANTS
  Installers,   \* processes
  BundleFiles,
  Form,         \* "script", "notes" or "config", by file
  Bundle,       \* the files of a client's bundle, in order
  MaxVersion,   \* bound: versions of the bundle
  Values,       \* what a key of an entry may hold
  Entries,      \* the entries of a generated configuration, by version
  Printed,      \* the versions whose configuration is served as JSON.stringify prints it
  Dollars,      \* the versions whose instructions have a $$
  LocalText,    \* a text of the user's, in a script or in instructions
  LocalEntries, \* configurations of the user's
  Shreds,       \* what is left of a file that was cut short
  NotThere,     \* no such file
  Unmanaged,    \* the manifest does not list it, or cannot be read
  AutoBudget    \* bound: installs, edits and publications

Versions == 1 .. MaxVersion

\* An entry of a JSON array, as a function of its keys.
Items == UNION {[keys -> Values] : keys \in SUBSET {"name", "type", "command", "env"}}

\* A configuration by its entries and its layout: that of mergeJsonConfigContent,
\* which is indented and has a newline at its end, or another one.
JsonFiles == [list : Seq(Items), layout : {"printed", "other"}]

\* Instructions are the user's text and a marked section; 0 stands for none.
Text(own, section) == [own |-> own, section |-> section]

\* What replace makes of a version that has a $$: there is one $ in its place.
Undollared(v) == MaxVersion + v

Sections == {0} \cup Versions \cup {Undollared(v) : v \in Versions}

Instructions == [own : {0, Shreds, LocalText} \cup Versions, section : Sections]

ASSUME BundleShape ==
  /\ MaxVersion \in Nat \ {0}
  /\ Form \in [BundleFiles -> {"script", "notes", "config"}]
  /\ \A client \in DOMAIN Bundle : Bundle[client] \in Seq(BundleFiles)
  /\ Entries \in [Versions -> Seq(Items)] /\ LocalEntries \subseteq JsonFiles
  /\ LocalText # Shreds /\ {LocalText, Shreds} \cap Nat = {}
  /\ NotThere \notin {LocalText, Shreds, Unmanaged} \cup Nat \cup Instructions \cup JsonFiles
  /\ Unmanaged \notin {LocalText} \cup Nat
  /\ Shreds \notin JsonFiles

FilesOf(client) == {Bundle[client][n] : n \in DOMAIN Bundle[client]}

VARIABLES
  disk,      \* the files
  managed,   \* manifest.json: the content of each file when it was installed
  published, \* the version of the bundle at the hosted project
  installer, \* what each process is doing
  local,     \* auxiliary: each file as the user left it, and whether it must be kept
  autoLog    \* auxiliary: events, and the last install if nothing happened since

autoVars == <<disk, managed, published, installer, local, autoLog>>

Elsewhere == [pc |-> "elsewhere"]

CutOff(f) == IF Form[f] = "notes" THEN Text(Shreds, 0) ELSE Shreds

\* What a user writes: a text of their own, or one that was generated once.
LocalContent(f, text, list) ==
  CASE Form[f] = "script" -> text
    [] Form[f] = "notes"  -> Text(text, 0)
    [] Form[f] = "config" -> list

LocalTexts == {LocalText, 1}

\* A generated configuration, to the letter.
AsServed(v) ==
  [list |-> Entries[v], layout |-> IF v \in Printed THEN "printed" ELSE "other"]

\* There are files of the user's, or a first install.
AutoInit ==
  /\ \/ /\ \E there \in {{}, BundleFiles}, text \in LocalTexts, list \in LocalEntries :
            disk = [f \in BundleFiles |->
                      IF f \in there THEN LocalContent(f, text, list) ELSE NotThere]
        /\ managed = [f \in BundleFiles |-> Unmanaged]
        /\ local = [f \in BundleFiles |-> [content |-> disk[f], keep |-> TRUE]]
     \/ /\ disk = [f \in BundleFiles |-> CASE Form[f] = "script" -> 1
                                            [] Form[f] = "notes"  -> Text(0, 1)
                                            [] Form[f] = "config" -> AsServed(1)]
        /\ managed = disk
        /\ local = [f \in BundleFiles |-> [content |-> NotThere, keep |-> TRUE]]
  /\ published = 1
  /\ installer = [p \in Installers |-> Elsewhere]
  /\ autoLog = [events |-> 0, settled |-> <<>>]

-----------------------------------------------------------------------------
(* Merging *)

NamesHook(e) == {"type", "command"} \subseteq DOMAIN e

\* jsonArrayMergeKey, of the keys that matter together: the others act as a name.
EntryKey(e) ==
  IF NamesHook(e) THEN <<"hook", e["type"], e["command"]>>
  ELSE IF "name" \in DOMAIN e THEN <<"name", e["name"]>>
  ELSE IF "command" \in DOMAIN e THEN <<"command", e["command"]>>
  ELSE <<>>

\* Mutant: the entry replaces the one of the same key.
ReplaceEntry(list, g) ==
  LET hits == {i \in DOMAIN list : EntryKey(list[i]) = EntryKey(g)}
  IN  IF hits # {} THEN [list EXCEPT ![CHOOSE i \in hits : \A j \in hits : i <= j] = g]
      ELSE Append(list, g)

\* The keys of a generated entry over those there are.
Over(g, e) == [k \in DOMAIN g \cup DOMAIN e |-> IF k \in DOMAIN g THEN g[k] ELSE e[k]]

MergeEntry(list, g) ==
  LET hits == {i \in DOMAIN list : EntryKey(list[i]) = EntryKey(g)}
  IN  IF EntryKey(g) # <<>> /\ hits # {}
      THEN [list EXCEPT ![CHOOSE i \in hits : \A j \in hits : i <= j] = Over(g, @)]
      ELSE IF \E i \in DOMAIN list : list[i] = g THEN list ELSE Append(list, g)

\* mergeJsonArray: one generated entry after another.
MergedUpTo(list, generated) ==
  LET merged[n \in 0 .. Len(generated)] ==
        IF n = 0 THEN list ELSE MergeEntry(merged[n - 1], generated[n])
  IN  merged

Merged(list, generated) == MergedUpTo(list, generated)[Len(generated)]

Parses(f, current) == current \notin {NotThere, CutOff(f)}

\* mergeJsonConfigContent: what is there is read, merged and printed.
MergedConfig(current, v) == [list |-> Merged(current.list, Entries[v]), layout |-> "printed"]

\* mergeMarkdownInstructionContent: a section is put behind the text as it is, and
\* takes the place of an older one by replace, to which a $ is special.
MergedNotes(current, v) ==
  IF current = NotThere THEN Text(0, v)
  ELSE IF current = Text(v, 0) THEN current
  ELSE Text(current.own,
            IF current.section # 0 /\ v \in Dollars THEN Undollared(v) ELSE v)

\* plannedFileContent
Planned(f, v, current) ==
  CASE Form[f] = "script" -> v
    [] Form[f] = "config" -> IF Parses(f, current) THEN MergedConfig(current, v) ELSE AsServed(v)
    [] Form[f] = "notes"  -> MergedNotes(current, v)

\* canMergeExistingFile
Mergeable(f, current) == Form[f] = "notes" \/ (Form[f] = "config" /\ Parses(f, current))

\* Mutant: a file that was installed once is replaced without another look.
ConflictsUnmanaged(f, v, force) ==
  /\ disk[f] \notin {NotThere, Planned(f, v, disk[f])}
  /\ ~Mergeable(f, disk[f]) /\ ~force
  /\ managed[f] = Unmanaged

\* A file that is not as the manifest has it is not replaced.
Conflicts(f, v, force) ==
  /\ disk[f] \notin {NotThere, Planned(f, v, disk[f])}
  /\ ~Mergeable(f, disk[f]) /\ ~force
  /\ disk[f] # managed[f]

-----------------------------------------------------------------------------

Transit(p, from, to) == installer[p].pc = from /\ installer' = [installer EXCEPT ![p] = to]

Event == /\ autoLog.events < AutoBudget
         /\ autoLog' = [events |-> autoLog.events + 1, settled |-> <<>>]

\* Nobody who is at work is alone any more.
Disturbed == [p \in Installers |->
  IF installer[p] = Elsewhere THEN Elsewhere ELSE [installer[p] EXCEPT !.alone = FALSE]]

\* The bundle was fetched, maybe a while ago, and all its files are compared with
\* the project's; any conflict ends the command;
Install(p, client, force, version) ==
  LET files   == FilesOf(client)
      content == [f \in files |-> Planned(f, version, disk[f])]
  IN  /\ Event
      /\ installer[p] = Elsewhere
      /\ \A f \in files : ~Conflicts(f, version, force)
      /\ installer' = [Disturbed EXCEPT ![p] =
           [pc |-> "ready", client |-> client, version |-> version, content |-> content,
            todo |-> {f \in files : content[f] # disk[f]},
            harms |-> {f \in files : (force /\ ~Mergeable(f, disk[f])) \/ disk[f] = CutOff(f)},
            alone |-> \A q \in Installers : installer[q] = Elsewhere]]
      /\ UNCHANGED <<disk, managed, published, local>>

\* The one that comes first in the bundle.
NextFile(i) ==
  LET places == {n \in DOMAIN Bundle[i.client] : Bundle[i.client][n] \in i.todo}
  IN  Bundle[i.client][CHOOSE n \in places : \A m \in places : n <= m]

\* then each file that differs is cut to nothing
CutFile(p) ==
  LET i == installer[p]
  IN  /\ i.pc = "ready" /\ i.todo # {}
      /\ Transit(p, "ready", [i EXCEPT !.pc = "filling"])
      /\ disk' = [disk EXCEPT ![NextFile(i)] = CutOff(NextFile(i))]
      /\ UNCHANGED <<managed, published, local, autoLog>>

\* and written,
FillFile(p) ==
  LET i == installer[p]  f == NextFile(i)
  IN  /\ i.pc = "filling"
      /\ Transit(p, "filling", [i EXCEPT !.pc = "ready", !.todo = @ \ {f}])
      /\ disk' = [disk EXCEPT ![f] = i.content[f]]
      /\ local' = [local EXCEPT ![f].keep = @ /\ f \notin i.harms]
      /\ UNCHANGED <<managed, published, autoLog>>

\* Mutant: the manifest has what was generated, not what was written.
ManifestOfBundle(i) ==
  [f \in BundleFiles |->
     IF f \in DOMAIN i.content THEN Planned(f, i.version, NotThere) ELSE Unmanaged]

\* manifestFromBundle
ManifestOf(i) ==
  [f \in BundleFiles |-> IF f \in DOMAIN i.content THEN i.content[f] ELSE Unmanaged]

\* and so is the manifest, of this client alone.
CutManifestFile(p) ==
  LET i == installer[p]
  IN  /\ i.pc = "ready" /\ i.todo = {}
      /\ Transit(p, "ready", [i EXCEPT !.pc = "listing"])
      /\ managed' = [f \in BundleFiles |-> Unmanaged]
      /\ UNCHANGED <<disk, published, local, autoLog>>

FillManifestFile(p) ==
  LET i == installer[p]
  IN  /\ Transit(p, "listing", Elsewhere)
      /\ managed' = ManifestOf(i)
      /\ autoLog' = [autoLog EXCEPT !.settled = IF i.alone THEN <<i.client, i.version>> ELSE @]
      /\ UNCHANGED <<disk, published, local>>

-----------------------------------------------------------------------------

\* A command is killed, at the worst while it writes a file.
KillInstall(p) ==
  /\ installer[p] # Elsewhere
  /\ installer' = [installer EXCEPT ![p] = Elsewhere]
  /\ local' = IF installer[p].pc = "filling"
              THEN [local EXCEPT ![NextFile(installer[p])].keep = FALSE] ELSE local
  /\ UNCHANGED <<disk, managed, published, autoLog>>

\* The user writes a file or removes it, keeping a marked section or not; what a
\* plan made before will do to it is beyond the plan.
EditFile(f, content) ==
  /\ Event /\ content # disk[f]
  /\ disk' = [disk EXCEPT ![f] = content]
  /\ local' = [local EXCEPT ![f] = [content |-> content, keep |-> TRUE]]
  /\ installer' = [p \in Installers |->
       IF installer[p] = Elsewhere THEN Elsewhere ELSE [Disturbed[p] EXCEPT !.harms = @ \cup {f}]]
  /\ UNCHANGED <<managed, published>>

\* The project generates other files.
Publish ==
  /\ published < MaxVersion
  /\ Event
  /\ published' = published + 1
  /\ UNCHANGED <<disk, managed, installer, local>>

AutoNext ==
  \/ \E p \in Installers :
       \/ \E client \in DOMAIN Bundle, force \in BOOLEAN, version \in 1 .. published :
            Install(p, client, force, version)
       \/ CutFile(p) \/ FillFile(p)
       \/ CutManifestFile(p) \/ FillManifestFile(p) \/ KillInstall(p)
  \/ \E f \in BundleFiles :
       \/ EditFile(f, NotThere)
       \/ \E text \in LocalTexts, list \in LocalEntries : EditFile(f, LocalContent(f, text, list))
       \/ /\ Form[f] = "notes" /\ disk[f] # NotThere
          /\ EditFile(f, [disk[f] EXCEPT !.own = LocalText])
  \/ Publish

AutoSpec == AutoInit /\ [][AutoNext]_autoVars

-----------------------------------------------------------------------------
(* Properties *)

Generated == UNION {{Entries[v][n] : n \in DOMAIN Entries[v]} : v \in Versions}

\* What is generated by name has neither the type nor the command of a generated
\* hook: the servers and the hooks of a client are in arrays of their own.
Apart ==
  \A g, h \in Generated :
    NamesHook(h) /\ ~NamesHook(g) /\ "name" \in DOMAIN g =>
      \A k \in {"type", "command"} \cap DOMAIN g : g[k] # h[k]

\* A version has an entry for a key once.
NoKeyTwice ==
  \A v \in Versions : \A m, n \in DOMAIN Entries[v] :
    EntryKey(Entries[v][m]) = EntryKey(Entries[v][n]) /\ EntryKey(Entries[v][m]) # <<>> => m = n

FileContents(f) ==
  {NotThere, CutOff(f)} \cup
  CASE Form[f] = "script" -> {LocalText} \cup Versions
    [] Form[f] = "notes"  -> Instructions
    [] Form[f] = "config" -> JsonFiles

\* What is planned under an install is what the bundle has for its files.
AutoTypeOK ==
  /\ published \in Versions
  /\ \A f \in BundleFiles :
       /\ disk[f] \in FileContents(f) /\ local[f].content \in FileContents(f)
       /\ managed[f] \in FileContents(f) \cup {Unmanaged}
  /\ \A p \in Installers : installer[p].pc # "elsewhere" =>
       LET i == installer[p]
       IN  /\ i.client \in DOMAIN Bundle /\ i.version \in 1 .. published
           /\ i.todo \subseteq FilesOf(i.client)
           /\ i.pc = "filling" => i.todo # {}
           /\ i.pc = "listing" => i.todo = {}
           /\ \A f \in FilesOf(i.client) : i.content[f] \in FileContents(f)

Preserved(f, before, after) ==
  CASE Form[f] = "script" -> before = LocalText => after = before
    [] Form[f] = "notes"  -> before # NotThere => after.own = before.own
    [] Form[f] = "config" ->
         Parses(f, before) =>
           /\ Parses(f, after)
           /\ \A i \in DOMAIN before.list :
                LET e == before.list[i]  d == after.list[i]
                IN  /\ i \in DOMAIN after.list /\ DOMAIN e \subseteq DOMAIN d
                    /\ \A k \in DOMAIN e :
                         \/ d[k] = e[k]
                         \/ \E g \in Generated : /\ EntryKey(g) = EntryKey(e)
                                                 /\ k \in DOMAIN g /\ d[k] = g[k]

\* What the user wrote stays: a script of theirs as it is, their text around the
\* marked section, their entries but for values generated for the entry of the
\* same key -- through any installs, updates and changes of client, unless they
\* forced it, edited a file under a running install, or an install was killed
\* while it wrote that very file (or another one read it then).
LocalContentIsKept ==
  \A f \in BundleFiles :
    local[f].keep /\ (\A p \in Installers : installer[p].pc = "filling" => NextFile(installer[p]) # f)
      => Preserved(f, local[f].content, disk[f])

\* An entry that took over a type or command goes by another key than before.
Shadowed(f) ==
  Form[f] = "config" /\ \E i \in DOMAIN disk[f].list : \E g \in Generated :
    LET e == disk[f].list[i]
    IN  /\ "name" \in DOMAIN e /\ "name" \in DOMAIN g
        /\ e["name"] = g["name"] /\ EntryKey(e) # EntryKey(g)

\* The same entries in another layout, or the same instructions but for a $.
Respelled(f, v, before, after) ==
  \/ /\ Form[f] = "config" /\ before.layout = "other"
     /\ after = [before EXCEPT !.layout = "printed"]
  \/ /\ Form[f] = "notes" /\ before.section = v
     /\ after = [before EXCEPT !.section = Undollared(v)]

\* After an install that ran alone, the manifest has its files as they are, and
\* the same install again has nothing to write (an entry that changed its key
\* apart), or spells a file another way once and then has nothing to write.
InstallSettles ==
  autoLog.settled # <<>> =>
    \A f \in FilesOf(autoLog.settled[1]) :
      LET version == autoLog.settled[2]  next == Planned(f, version, disk[f])
      IN  /\ managed[f] = disk[f]
          /\ \/ Shadowed(f)
             \/ next = disk[f]
             \/ Respelled(f, version, disk[f], next) /\ Planned(f, version, next) = next
=============================================================================

----------------------------- MODULE QueryCache -----------------------------
(***************************************************************************)
(* The local query cache (~/.snipara/cache/context-v2): one index file and *)
(* one payload file per cached query, plus the warm snapshot the session   *)
(* bootstrap leaves.  Every pre-tool hook is a process of its own that     *)
(* looks its query up, asks the hosted service on a miss and saves the     *)
(* answer.  Nothing locks the files: a step below is one read or one write *)
(* of a file, with the deletions the code makes on the way.                *)
(***************************************************************************)
EXTENDS Naturals, FiniteSets

CONSTANTS
  Hooks,        \* processes that use the cache
  Queries,      \* cache keys of queries
  Warm,         \* the key of the workspace's warm snapshot
  Nearby,       \* pairs <<query, cached key>> whose similarity is high enough
  LifeTime,     \* RLM_CACHE_TTL_MS, and RLM_WARM_CONTEXT_TTL_MS for Warm
  QueryBytes,   \* size of a query's payload
  WarmBytes,    \* size of the warm snapshot
  MaxEntries,   \* RLM_CACHE_MAX_ENTRIES
  MaxBytes,     \* RLM_CACHE_MAX_BYTES
  CacheHorizon, \* bound: the clock stops here
  CacheBudget   \* bound: hooks and commands started in a behaviour

CacheKeys == Queries \cup {Warm}

ASSUME CacheShape ==
  /\ Warm \notin Queries
  /\ Nearby \subseteq Queries \X CacheKeys
  /\ LifeTime \in [CacheKeys -> Nat \ {0}]
  /\ QueryBytes \in Nat /\ WarmBytes \in Nat
  /\ MaxEntries \in Nat /\ MaxBytes \in Nat

VARIABLES
  index,    \* index.json: its entries, when it can be parsed
  payload,  \* what each payload file holds
  hook,     \* what each process is doing, with the index it holds in memory
  clock,
  started   \* processes started so far

cacheVars == <<index, payload, hook, clock, started>>

Entry == [key : CacheKeys, seen : Nat, expires : Nat]

Gone == [form |-> "gone", at |-> 0]
Torn == [form |-> "torn", at |-> 0]
Whole(at) == [form |-> "whole", at |-> at]

\* A process that does nothing.  `marks` (auxiliary) collects what could keep
\* its save from taking effect.
Resting ==
  [pc |-> "resting", query |-> Warm, at |-> 0, held |-> {}, hit |-> {}, next |-> "resting",
   marks |-> {}]

CacheInit ==
  /\ index = [form |-> "whole", entries |-> {}]
  /\ payload = [k \in CacheKeys |-> Gone]
  /\ hook = [h \in Hooks |-> Resting]
  /\ clock = 0
  /\ started = 0

-----------------------------------------------------------------------------
(* The index in memory. *)

ListedOf(es, ks) == {e \in es : e.key \in ks}

WithinCaps(es) ==
  /\ Cardinality(ListedOf(es, Queries)) <= MaxEntries
  /\ Cardinality(ListedOf(es, Queries)) * QueryBytes
       + Cardinality(ListedOf(es, {Warm})) * WarmBytes <= MaxBytes

\* Mutant: an entry is still good at the moment it expires, and one tick more.
LiveLate(es) == {e \in es : e.expires + 1 > clock /\ payload[e.key] # Gone}

\* Entries that have not expired and whose payload is still there.
Live(es) == {e \in es : e.expires > clock /\ payload[e.key] # Gone}

\* pruneIndex pops the least recently used queries until the caps hold; the
\* warm snapshot counts but is never popped.  Entries used in the same moment
\* keep their order in the file, which is not modelled.
Prunings(es) ==
  {kept \in SUBSET Live(es) :
     LET popped == Live(es) \ kept
     IN  /\ ListedOf(popped, {Warm}) = {}
         /\ \A e \in ListedOf(kept, Queries), f \in popped : e.seen >= f.seen
         /\ WithinCaps(kept) \/ ListedOf(kept, Queries) = {}
         /\ \A f \in popped : ~WithinCaps(kept \cup {f})}

\* The payload of every expired or popped entry is deleted, whoever wrote it
\* and whenever.
Prune(es, kept) ==
  payload' = [k \in CacheKeys |-> IF k \in {e.key : e \in es \ kept} THEN Gone ELSE payload[k]]

\* What loadIndex parses: a damaged index is an empty one.
Parsed == IF index.form = "whole" THEN index.entries ELSE {}

Others(h) == {g \in Hooks \ {h} : hook[g].pc # "resting"}

\* A step of one process marks the processes under way beside it.
Go(h, from, to) ==
  /\ hook[h].pc = from
  /\ hook' = [g \in Hooks |->
                IF g = h THEN to
                ELSE IF g \in Others(h) THEN [hook[g] EXCEPT !.marks = @ \cup {"overlap"}]
                ELSE hook[g]]

Begins ==
  /\ started < CacheBudget
  /\ started' = started + 1
  /\ UNCHANGED clock

StartMarks(h) == IF Others(h) = {} THEN {} ELSE {"overlap"}

Silent == UNCHANGED <<clock, started>>

-----------------------------------------------------------------------------
(* lookup *)

\* Load the index; what is looked for next is the query itself.
Lookup(h, q) ==
  /\ Begins
  /\ \E kept \in Prunings(Parsed) :
       /\ Prune(Parsed, kept)
       /\ Go(h, "resting", [Resting EXCEPT !.pc = "exact", !.query = q, !.at = clock,
                                           !.held = kept, !.marks = StartMarks(h)])
  /\ UNCHANGED index

\* The entries a lookup tries: the query's own, one that is similar enough,
\* the warm snapshot.
Candidates(r) ==
  CASE r.pc = "exact"   -> ListedOf(r.held, {r.query})
    [] r.pc = "nearby"  -> {e \in ListedOf(r.held, Queries) : <<r.query, e.key>> \in Nearby}
    [] r.pc = "warm"    -> ListedOf(r.held, {Warm})
    [] OTHER            -> {}

Stages == {"exact", "nearby", "warm"}
Following(pc) ==
  CASE pc = "exact" -> "nearby" [] pc = "nearby" -> "warm" [] OTHER -> "asking"

\* readEntry, when the payload can be read: the entry is touched and the index
\* persisted.  A warm answer needs a similar memory and persists nothing.
ReadHit(h, e) ==
  LET r == hook[h]
  IN  /\ r.pc \in Stages /\ e \in Candidates(r)
      /\ payload[e.key].form = "whole"
      /\ <<r.query, e.key>> \in Nearby \/ r.query = e.key
      /\ Go(h, r.pc,
            [r EXCEPT !.hit = {[key |-> e.key, at |-> payload[e.key].at]},
                      !.pc = IF e.key = Warm THEN "answering" ELSE "persisting",
                      !.next = "answering",
                      !.held = IF e.key = Warm THEN @
                               ELSE (@ \ {e}) \cup {[e EXCEPT !.seen = clock]}])
      /\ UNCHANGED <<index, payload>> /\ Silent

\* readEntry, when it cannot: file and entry are dropped, the index persisted,
\* and the lookup goes on.
ReadMiss(h, e) ==
  LET r == hook[h]
  IN  /\ r.pc \in Stages /\ e \in Candidates(r)
      /\ payload[e.key].form # "whole"
      /\ payload' = [payload EXCEPT ![e.key] = Gone]
      /\ Go(h, r.pc, [r EXCEPT !.pc = "persisting", !.next = Following(r.pc),
                               !.held = @ \ {e}])
      /\ UNCHANGED index /\ Silent

\* Nothing to try (or a warm snapshot with nothing similar): the next stage,
\* and at the end the hosted service.
ReadNothing(h) ==
  LET r == hook[h]
  IN  /\ r.pc \in Stages
      /\ \A e \in Candidates(r) :
           /\ e.key = Warm /\ <<r.query, Warm>> \notin Nearby
           /\ payload[Warm].form = "whole"
      /\ Go(h, r.pc, [r EXCEPT !.pc = Following(r.pc)])
      /\ UNCHANGED <<index, payload>> /\ Silent

\* The hook prints what it was given.
Answer(h) ==
  /\ Go(h, "answering", Resting)
  /\ UNCHANGED <<index, payload>> /\ Silent

-----------------------------------------------------------------------------
(* save and storeWarmSnapshot *)

\* Mutant: the index is written before the payload.
IndexFirst(h) ==
  /\ Go(h, "asking", [hook[h] EXCEPT !.pc = "indexing", !.at = clock, !.held = {}])
  /\ UNCHANGED <<index, payload>> /\ Silent

\* The hosted service answered: save writes the payload before it looks at the
\* index.
SavePayload(h) ==
  /\ Go(h, "asking", [hook[h] EXCEPT !.pc = "indexing", !.at = clock, !.held = {}])
  /\ payload' = [payload EXCEPT ![hook[h].query] = Whole(clock)]
  /\ UNCHANGED index /\ Silent

\* Why a save may be lost although it ran alone: pruning meets an expired
\* entry of the same query, or has to choose between entries of one moment.
Hindrances(r, es) ==
  {m \in {"expired", "tie"} :
     \/ m = "expired" /\ \E e \in ListedOf(es, {r.query}) : e.expires <= clock
     \/ m = "tie" /\ \E e \in es : e.key # r.query /\ e.seen >= r.at}

SaveIndex(h) ==
  LET r == hook[h]
  IN  /\ \E kept \in Prunings(Parsed) :
           /\ Prune(Parsed, kept)
           /\ Go(h, "indexing",
                 [r EXCEPT !.pc = "persisting", !.next = "resting",
                           !.held = {e \in kept : e.key # r.query} \cup
                                    {[key |-> r.query, seen |-> r.at,
                                      expires |-> r.at + LifeTime[r.query]]},
                           !.marks = @ \cup Hindrances(r, Parsed)])
      /\ UNCHANGED index /\ Silent

\* storeWarmSnapshot loads the index first.  A bootstrap without memories
\* deletes the snapshot.
StoreWarm(h, memories) ==
  /\ Begins
  /\ \E kept \in Prunings(Parsed) :
       /\ payload' = [k \in CacheKeys |->
                        IF k \in {e.key : e \in Parsed \ kept} \/ (k = Warm /\ ~memories)
                          THEN Gone ELSE payload[k]]
       /\ Go(h, "resting",
             [Resting EXCEPT !.pc = IF memories THEN "warming" ELSE "persisting",
                             !.held = ListedOf(kept, Queries), !.marks = StartMarks(h)])
  /\ UNCHANGED index

WarmPayload(h) ==
  /\ Go(h, "warming",
        [hook[h] EXCEPT !.pc = "persisting",
                        !.held = @ \cup {[key |-> Warm, seen |-> clock,
                                          expires |-> clock + LifeTime[Warm]]}])
  /\ payload' = [payload EXCEPT ![Warm] = Whole(clock)]
  /\ UNCHANGED index /\ Silent

\* The cache directory goes as a whole.
Clear(h) ==
  /\ Begins
  /\ hook[h].pc = "resting"
  /\ index' = [form |-> "whole", entries |-> {}]
  /\ payload' = [k \in CacheKeys |-> Gone]
  /\ hook' = [g \in Hooks |->
                IF g \in Others(h) THEN [hook[g] EXCEPT !.marks = @ \cup {"overlap"}]
                ELSE hook[g]]

-----------------------------------------------------------------------------
(* persistIndex prunes what it holds and writes it; writeFileSync truncates *)
(* first, and two writers that both truncated can garble the file.          *)

Truncate(h) ==
  /\ \E kept \in Prunings(hook[h].held) :
       /\ Prune(hook[h].held, kept)
       /\ Go(h, "persisting", [hook[h] EXCEPT !.pc = "writing", !.held = kept])
  /\ index' = [form |-> "cut", entries |-> {}]
  /\ Silent

WriteIndex(h) ==
  /\ Go(h, "writing", IF hook[h].next = "resting" THEN Resting
                      ELSE [hook[h] EXCEPT !.pc = hook[h].next])
  /\ \/ index' = [form |-> "whole", entries |-> hook[h].held]
     \/ index.form # "cut" /\ index' = [form |-> "garbled", entries |-> {}]
  /\ UNCHANGED payload /\ Silent

\* A process stops: a hosted call that fails, a kill; one that is writing a
\* payload leaves a part of it.
Stop(h) ==
  /\ hook[h].pc # "resting"
  /\ hook' = [hook EXCEPT ![h] = Resting]
  /\ \/ UNCHANGED payload
     \/ hook[h].pc = "asking" /\ payload' = [payload EXCEPT ![hook[h].query] = Torn]
     \/ hook[h].pc = "warming" /\ payload' = [payload EXCEPT ![Warm] = Torn]
  /\ UNCHANGED index /\ Silent

CacheTick ==
  /\ clock < CacheHorizon
  /\ clock' = clock + 1
  /\ UNCHANGED <<index, payload, hook, started>>

CacheStep(h) ==
  \/ \E q \in Queries : Lookup(h, q)
  \/ \E e \in hook[h].held : ReadHit(h, e) \/ ReadMiss(h, e)
  \/ ReadNothing(h) \/ Answer(h)
  \/ SavePayload(h) \/ SaveIndex(h)
  \/ \E memories \in BOOLEAN : StoreWarm(h, memories)
  \/ WarmPayload(h) \/ Clear(h)
  \/ Truncate(h) \/ WriteIndex(h)
  \/ Stop(h)

CacheNext == (\E h \in Hooks : CacheStep(h)) \/ CacheTick

CacheSpec == CacheInit /\ [][CacheNext]_cacheVars

-----------------------------------------------------------------------------
(* Properties *)

CacheTypeOK ==
  /\ index.form \in {"whole", "cut", "garbled"}
  /\ index.entries \subseteq Entry
  /\ \A k \in CacheKeys : payload[k].form \in {"gone", "torn", "whole"} /\ payload[k].at <= clock
  /\ \A h \in Hooks :
       /\ hook[h].pc \in Stages \cup {"resting", "asking", "indexing", "warming",
                                     "persisting", "writing", "answering"}
       /\ hook[h].held \subseteq Entry

\* What a process looks up, and since when; answers and the files on disk, as
\* the abstract cache sees them.
Looking(h) ==
  \/ hook[h].pc \in Stages \cup {"answering"}
  \/ hook[h].pc \in {"persisting", "writing"} /\ hook[h].next # "resting"

Fresh == INSTANCE FreshCache WITH
  Askers     <- Hooks,
  Keys       <- CacheKeys,
  Similar    <- LAMBDA q, k : q = k \/ <<q, k>> \in Nearby,
  TimeToLive <- LAMBDA k : LifeTime[k],
  stored     <- {[key |-> k, at |-> payload[k].at] : k \in {j \in CacheKeys : payload[j].form = "whole"}},
  question   <- [h \in Hooks |-> IF Looking(h) THEN {[query |-> hook[h].query, at |-> hook[h].at]} ELSE {}],
  answer     <- [h \in Hooks |-> hook[h].hit],
  time       <- clock

\* However hooks, bootstraps and `clear` interleave, and wherever they are
\* stopped, the cache answers with a stored result for a similar query that had
\* not expired when the lookup began: lookup, readEntry, pruneIndex.
NeverServesStale == Fresh!Spec

\* A save that finished: its query is listed and its payload is there.
Kept(h) ==
  /\ \E e \in index'.entries : e.key = hook[h].query
  /\ payload'[hook[h].query].form = "whole"

FinishesSave(h) ==
  /\ hook[h].pc = "writing" /\ hook[h].next = "resting" /\ hook[h].query # Warm
  /\ index'.form = "whole" /\ hook'[h] = Resting
  /\ hook[h].at + LifeTime[hook[h].query] > clock

\* A save that nothing overlapped is kept, whatever was in the files before,
\* unless its query was still listed as expired (or two entries were used in
\* the same moment and the caps leave room for one): save and pruneIndex.
LoneSaveIsKept ==
  [][\A h \in Hooks : FinishesSave(h) /\ hook[h].marks = {} => Kept(h)]_cacheVars

\* The same of an expired query: the lookup that missed because the entry had
\* expired is followed by a save, and the next lookup should hit.  It does not:
\* save writes the payload, and then loadIndex prunes the expired entry, which
\* deletes the file of that name.
RefreshIsKept ==
  [][\A h \in Hooks : FinishesSave(h) /\ hook[h].marks \subseteq {"expired"} => Kept(h)]_cacheVars
=============================================================================

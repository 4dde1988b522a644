----------------------------- MODULE LocalGraph -----------------------------
(***************************************************************************)
(* Questions to the local code graph (`code callers`, `neighbors`,         *)
(* `shortest-path`, `impact`): a breadth-first traversal of the manifest's *)
(* edges, bounded in depth and in nodes.  Nodes are files and the symbols  *)
(* they contain.  The order of the manifest, which decides what a bounded  *)
(* traversal leaves out, is any.  Parsing, risk scores and the semantic    *)
(* model are left out.                                                     *)
(***************************************************************************)
EXTENDS Naturals, Sequences, FiniteSets

CONSTANTS
  GraphFiles,
  GraphSymbols,
  FileOfSymbol,
  Manifests,     \* bound: edges [from, to, kind] a manifest may have
  Depths,        \* bound: --depth and --max-hops
  NodeLimits,    \* bound: --max-nodes
  NoLookup

GraphNodes == GraphFiles \cup GraphSymbols

AllKinds == {"IMPORTS", "CALLS", "REFERENCES", "CONTAINS"}

GraphEdges == [from : GraphNodes, to : GraphNodes, kind : AllKinds]

GraphQuestions ==
  [seeds : SUBSET GraphNodes, kinds : SUBSET AllKinds, direction : {"in", "out", "both"},
   depth : Depths, maxNodes : NodeLimits]

GraphEntries == [key : GraphNodes, depth : Nat, path : Seq(GraphNodes)]

\* A manifest lists finitely many files, and its edges lead between what it lists.
ASSUME GraphShape ==
  /\ IsFiniteSet(GraphFiles) /\ IsFiniteSet(GraphSymbols)
  /\ GraphFiles \cap GraphSymbols = {}
  /\ FileOfSymbol \in [GraphSymbols -> GraphFiles]
  /\ \A edges \in Manifests : edges \subseteq GraphEdges
  /\ NodeLimits \subseteq Nat \ {0} /\ Depths \subseteq Nat \ {0}
  /\ NoLookup \notin GraphQuestions \cup GraphEntries

VARIABLES
  manifest,  \* its edges
  lookup,    \* the question: seeds, kinds, direction, depth, maxNodes
  visited,
  frontier,  \* the queue: [key, depth, path]
  expanding, \* the node whose neighbours are looked at, or NoLookup
  reached,   \* the nodes found, in order
  truncated

graphVars == <<manifest, lookup, visited, frontier, expanding, reached, truncated>>

FileOfNode(n) == IF n \in GraphFiles THEN n ELSE FileOfSymbol[n]

Containment == {[from |-> FileOfSymbol[s], to |-> s, kind |-> "CONTAINS"] : s \in GraphSymbols}

Question(seeds, kinds, direction, depth, limit) ==
  [seeds |-> seeds, kinds |-> kinds, direction |-> direction, depth |-> depth, maxNodes |-> limit]

\* Callers of a symbol; of its file, by imports, when nothing is seen to call it.
CallersOf(symbol, depth, limit) ==
  IF \E e \in manifest : e.kind = "CALLS" /\ e.to = symbol
    THEN Question({symbol}, {"CALLS"}, "in", depth, limit)
    ELSE Question({FileOfSymbol[symbol]}, {"IMPORTS"}, "in", depth, limit)

\* neighbors and shortest-path start from one node.
NeighboursOf(n, direction, depth, limit) == Question({n}, AllKinds, direction, depth, limit)

ImpactOf(files, depth, limit) ==
  Question(files \cup {s \in GraphSymbols : FileOfSymbol[s] \in files},
           {"IMPORTS", "CALLS", "REFERENCES"}, "both", depth, limit)

Lookups ==
  {CallersOf(s, d, l) : s \in GraphSymbols, d \in Depths, l \in NodeLimits}
  \cup {NeighboursOf(n, way, d, l) :
          n \in GraphNodes, way \in {"in", "out", "both"}, d \in Depths, l \in NodeLimits}
  \cup {ImpactOf(F, d, l) : F \in SUBSET GraphFiles \ {{}}, d \in Depths, l \in NodeLimits}

\* The nodes one allowed edge away, in the direction that is asked for.
Adjacent(q, n) ==
  {e.to : e \in {x \in manifest : q.direction # "in" /\ x.kind \in q.kinds /\ x.from = n}}
  \cup {e.from : e \in {x \in manifest : q.direction # "out" /\ x.kind \in q.kinds /\ x.to = n}}
-----------------------------------------------------------------------------
\* The seeds in an order.
InOrder(seeds) ==
  CHOOSE s \in [1 .. Cardinality(seeds) -> seeds] : \A n \in seeds : \E i \in DOMAIN s : s[i] = n

GraphInit ==
  /\ manifest \in {edges \cup Containment : edges \in Manifests}
  /\ lookup = NoLookup /\ visited = {} /\ frontier = <<>>
  /\ expanding = NoLookup /\ reached = <<>> /\ truncated = FALSE

AskGraph(q) ==
  /\ lookup = NoLookup
  /\ lookup' = q
  /\ \E seeds \in SUBSET q.seeds :
       /\ Cardinality(seeds) = IF Cardinality(q.seeds) < q.maxNodes THEN Cardinality(q.seeds)
                                                                     ELSE q.maxNodes
       /\ visited' = seeds
       /\ frontier' = [i \in 1 .. Cardinality(seeds) |->
                         [key |-> InOrder(seeds)[i], depth |-> 0, path |-> <<InOrder(seeds)[i]>>]]
       /\ truncated' = (seeds # q.seeds)
  /\ UNCHANGED <<manifest, expanding, reached>>

Dequeue ==
  /\ expanding = NoLookup /\ frontier # <<>>
  /\ frontier' = Tail(frontier)
  /\ expanding' = IF Head(frontier).depth >= lookup.depth THEN NoLookup ELSE Head(frontier)
  /\ UNCHANGED <<manifest, lookup, visited, reached, truncated>>

Visit(n) ==
  /\ expanding # NoLookup
  /\ n \in Adjacent(lookup, expanding.key) \ visited
  /\ Cardinality(visited) < lookup.maxNodes
  /\ visited' = visited \cup {n}
  /\ LET found == [key |-> n, depth |-> expanding.depth + 1, path |-> Append(expanding.path, n)]
     IN  reached' = Append(reached, found) /\ frontier' = Append(frontier, found)
  /\ UNCHANGED <<manifest, lookup, expanding, truncated>>

\* Mutant: the limit is reached when it is reached, whether or not a node is left.
StopWhenFull ==
  /\ expanding # NoLookup
  /\ Cardinality(visited) >= lookup.maxNodes
  /\ truncated' = TRUE
  /\ frontier' = <<>> /\ expanding' = NoLookup
  /\ UNCHANGED <<manifest, lookup, visited, reached>>

StopAtLimit ==
  /\ expanding # NoLookup
  /\ Adjacent(lookup, expanding.key) \ visited # {}
  /\ Cardinality(visited) >= lookup.maxNodes
  /\ truncated' = TRUE
  /\ frontier' = <<>> /\ expanding' = NoLookup
  /\ UNCHANGED <<manifest, lookup, visited, reached>>

LeaveNode ==
  /\ expanding # NoLookup
  /\ Adjacent(lookup, expanding.key) \subseteq visited
  /\ expanding' = NoLookup
  /\ UNCHANGED <<manifest, lookup, visited, frontier, reached, truncated>>

GraphNext ==
  \/ \E q \in Lookups : AskGraph(q)
  \/ Dequeue
  \/ \E n \in GraphNodes : Visit(n)
  \/ StopAtLimit
  \/ LeaveNode

GraphSpec == GraphInit /\ [][GraphNext]_graphVars
-----------------------------------------------------------------------------
Answered == lookup # NoLookup /\ frontier = <<>> /\ expanding = NoLookup

\* callersByFile: of each file the first of its nodes, unless a later is nearer.
CallersByFile(excluded) ==
  LET byFile[k \in 0 .. Len(reached)] ==
        IF k = 0 THEN {}
        ELSE LET node == reached[k]
                 file == FileOfNode(node.key)
             IN  IF file = excluded \/ \E c \in byFile[k - 1] : c.file = file /\ c.depth <= node.depth
                   THEN byFile[k - 1]
                   ELSE {c \in byFile[k - 1] : c.file # file} \cup {[file |-> file, depth |-> node.depth]}
  IN  byFile

CallerDepths(excluded) == CallersByFile(excluded)[Len(reached)]

GraphTypeOK ==
  /\ manifest \subseteq GraphEdges
  /\ lookup \in GraphQuestions \cup {NoLookup}
  /\ visited \subseteq GraphNodes
  /\ frontier \in Seq(GraphEntries) /\ reached \in Seq(GraphEntries)
  /\ expanding \in GraphEntries \cup {NoLookup}
  /\ truncated \in BOOLEAN

\* What is visited without being found: where the traversal started.
Started == visited \ {reached[i].key : i \in DOMAIN reached}

\* What can be reached from there in k steps.
Within ==
  LET within[k \in 0 .. lookup.depth] ==
        IF k = 0 THEN Started
        ELSE within[k - 1] \cup UNION {Adjacent(lookup, n) : n \in within[k - 1]}
  IN  within

\* An answer is reported truncated exactly when it leaves something out that the
\* depth allows (README: only an impact without a truncated traversal passes for
\* the smallest safe diff), and even then every node, and every calling file, is
\* listed once, at its distance from where the traversal started, with a path of
\* that length along edges of the graph.
AnswersAreComplete ==
  Answered =>
    /\ truncated <=> ~(lookup.seeds \cup Within[lookup.depth] \subseteq visited)
    /\ visited \subseteq Within[lookup.depth]
    /\ \A i, j \in DOMAIN reached : reached[i].key = reached[j].key => i = j
    /\ \A i \in DOMAIN reached :
         LET node == reached[i]
         IN  /\ node.key \in Within[node.depth] \ Within[node.depth - 1]
             /\ Len(node.path) = node.depth + 1
             /\ node.path[1] \in Within[0] /\ node.path[Len(node.path)] = node.key
             /\ \A k \in 1 .. node.depth : node.path[k + 1] \in Adjacent(lookup, node.path[k])
    /\ \A f \in GraphFiles : \A c \in CallerDepths(f) :
         c.depth = CHOOSE d \in 1 .. lookup.depth :
           /\ \E i \in DOMAIN reached : FileOfNode(reached[i].key) = c.file /\ reached[i].depth = d
           /\ \A i \in DOMAIN reached : FileOfNode(reached[i].key) = c.file => reached[i].depth >= d
=============================================================================

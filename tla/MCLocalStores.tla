---------------------------- MODULE MCLocalStores ----------------------------
(***************************************************************************)
(* Small instances of the components that share nothing but the project    *)
(* directory: the query cache, the team-sync ledger, the decision requests,*)
(* automations, context packs, the task facade, the code graph and its     *)
(* overlay.  A behaviour exercises one of them.                            *)
(***************************************************************************)
EXTENDS LocalStores, MCAutomations, MCLocalGraph

CONSTANTS u, v, m, n, x, y, z

VARIABLE store

OneUse    == [k \in {x, y, z} |-> 2]
SimilarTo == {<<x, y>>, <<x, z>>}
Matches   == {[direct |-> {x}, loose |-> {y}], [direct |-> {}, loose |-> {x}]}

StoresSymmetry == Permutations({u, v}) \cup Permutations({m, n})

OneStoreInit ==
  /\ store \in {"cache", "ledger", "decisions", "auto", "packs", "journey", "graph", "overlay"}
  /\ CacheInit /\ LedgerInit /\ DecisionInit /\ AutoInit /\ PackInit /\ JourneyInit
  /\ GraphInit /\ OverlayInit
  /\ store # "decisions" => \A r \in Requests : asked[r] = "no" /\ resolved[r] = Unanswered
  /\ store # "auto" => \A f \in BundleFiles : disk[f] = NotThere
  /\ store # "packs" => latest = Unlisted
  /\ store # "graph" => manifest = Containment
  /\ store # "overlay" <=> worktree = EmptyTree

OneStoreNext ==
  /\ UNCHANGED store
  /\ \/ store = "cache"     /\ CacheNext
     \/ store = "ledger"    /\ LedgerNext
     \/ store = "decisions" /\ DecisionNext
     \/ store = "auto"      /\ AutoNext
     \/ store = "packs"     /\ PackNext
     \/ store = "journey"   /\ JourneyNext
     \/ store = "graph"     /\ GraphNext
     \/ store = "overlay"   /\ OverlayNext
  /\ store # "cache"     => UNCHANGED cacheVars
  /\ store # "ledger"    => UNCHANGED ledgerVars
  /\ store # "decisions" => UNCHANGED decisionVars
  /\ store # "auto"      => UNCHANGED autoVars
  /\ store # "packs"     => UNCHANGED packVars
  /\ store # "journey"   => UNCHANGED journeyVars
  /\ store # "graph"     => UNCHANGED graphVars
  /\ store # "overlay"   => UNCHANGED overlayVars

OneStoreSpec ==
  OneStoreInit /\ [][OneStoreNext]_<<store, cacheVars, ledgerVars, decisionVars, autoVars, packVars,
                                    journeyVars, graphVars, overlayVars>>
=============================================================================

----------------------------- MODULE LocalStores -----------------------------
(***************************************************************************)
(* The components that share nothing but the project directory: the query  *)
(* cache, the team-sync ledger, the decision requests, the automations,    *)
(* the context packs, the task facade, and the code graph with its         *)
(* overlay.  Each has files and variables of its own, so that the system   *)
(* they form is the conjunction of their specifications: their commands    *)
(* interleave in any order.                                                *)
(***************************************************************************)
EXTENDS QueryCache, TeamSync, DecisionRequests, Automations, ContextPacks, TaskJourney, CodeGraph

StoresSpec ==
  /\ CacheSpec /\ LedgerSpec /\ DecisionSpec /\ AutoSpec
  /\ PackSpec /\ JourneySpec /\ GraphSpec /\ OverlaySpec

\* Each store keeps to the values its module declares, whatever its commands
\* read of the files others wrote, cut short or removed.
StoresTypeOK ==
  /\ CacheTypeOK /\ LedgerTypeOK /\ DecisionTypeOK /\ AutoTypeOK
  /\ PackTypeOK /\ JourneyTypeOK /\ GraphTypeOK /\ OverlayTypeOK
=============================================================================

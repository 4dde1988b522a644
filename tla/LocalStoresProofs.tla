-------------------------- MODULE LocalStoresProofs --------------------------
(***************************************************************************)
(* What StoresProofs and AlgorithmProofs prove of each store, of all of    *)
(* them at once.                                                           *)
(***************************************************************************)
EXTENDS LocalStores, StoresProofs, AlgorithmProofs

\* Every store keeps to its values, for any number of processes on each, killed
\* anywhere, whatever the files hold.
THEOREM StoresTypesOK == StoresSpec => []StoresTypeOK
BY CacheTypes, LedgerTypesOK, DecisionTypesOK, AutoTypesOK, PackTypesOK, JourneyTypes,
   GraphTypesOK, OverlayTypesOK, PTL DEF StoresSpec, StoresTypeOK
=============================================================================

---------------------------- MODULE MCQueryCache ----------------------------
(***************************************************************************)
(* A query cache of two queries and the warm snapshot, used by one or more *)
(* hooks.                                                                  *)
(***************************************************************************)
EXTENDS QueryCache, TLC

CONSTANTS x, y, z

OneUse    == [k \in {x, y, z} |-> 2]
SimilarTo == {<<x, y>>, <<x, z>>}
=============================================================================

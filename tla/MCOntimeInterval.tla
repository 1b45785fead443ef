-------------------------- MODULE MCOntimeInterval --------------------------
(* OntimeInterval on small instances. *)
EXTENDS OntimeInterval, TLC

Symmetry == Permutations(Sub) \cup Permutations(Cond) \cup Permutations(Tid)
              \cup Permutations(Req)
=============================================================================

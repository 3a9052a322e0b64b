----------------------------- MODULE MCApiKeys -----------------------------
(* ApiKeys on small sets of organizations and calls. *)
EXTENDS ApiKeys, TLC

Symmetry == Permutations(Calls) \cup Permutations(Orgs)

=============================================================================

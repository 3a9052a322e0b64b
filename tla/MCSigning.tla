----------------------------- MODULE MCSigning -----------------------------
(* SigningPipeline on small sets of requests and keys. *)
EXTENDS SigningPipeline, TLC

Symmetry == Permutations(Requests) \cup Permutations(Keys)

=============================================================================

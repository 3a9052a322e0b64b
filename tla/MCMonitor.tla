----------------------------- MODULE MCMonitor -----------------------------
(* TxMonitor on small sets of requests, keys and polls. *)
EXTENDS TxMonitor, TLC

Symmetry ==
    Permutations(Requests) \cup Permutations(Keys) \cup Permutations(Polls)

=============================================================================

------------------------- MODULE MCScopeLeadership -------------------------
(* Instances of ScopeLeadership for TLC.                                   *)
EXTENDS ScopeLeadership, TLC

Symmetry == Permutations(Clients)

=============================================================================

-------------------------- MODULE MCTenantAccess --------------------------
(* Customer a has two credentials and corpus ca; cb is another customer's. *)
EXTENDS TenantAccess, TLC

CONSTANTS a1, a2, ca, cb, r1, r2

MCTenant == [p \in Credentials |-> "a"]
MCOwned  == [a |-> {ca}, b |-> {cb}]
Symmetry == Permutations(Requests) \cup Permutations(Credentials)
=============================================================================

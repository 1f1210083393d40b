----------------------------- MODULE MCIssuance -----------------------------
(* Instances of Issuance for TLC. *)
EXTENDS Issuance, TLC

CONSTANTS own, other      \* two client businesses of the tenant

MCTenantOf == own :> "t1" @@ other :> "t1"

\* An accountant, and a client confined to one business.
MCCallers ==
  {[tenant |-> "t1", role |-> "ACCOUNTANT", scopes |-> {}],
   [tenant |-> "t1", role |-> "CLIENT_USER", scopes |-> {own}]}

\* Whatever is drafted bears the one number.
OneNumber == [d \in Drafts |-> "F-1"]

Symmetry == Permutations(InvoiceIds) \cup Permutations(Requests)
==============================================================================

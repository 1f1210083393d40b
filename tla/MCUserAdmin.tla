----------------------------- MODULE MCUserAdmin -----------------------------
(* Instances of UserAdmin for TLC. *)
EXTENDS UserAdmin, TLC

CONSTANTS own, other      \* client businesses: one of the tenant's, one of another's
CONSTANTS t1, t2           \* t2 is somebody else's

MCTenantOf == own :> t1 @@ other :> t2

Sent(role, disabled, orgs) == [role |-> role, disabled |-> disabled, orgs |-> orgs]

MCBodies ==
  {Sent("CLIENT_USER", Kept, {own}),     \* demoted, with a business
   Sent("CLIENT_USER", Kept, {other}),
   Sent("ACCOUNTANT", Kept, Kept),       \* demoted or promoted
   Sent("OWNER", Kept, {own}),           \* promoted
   Sent(Kept, Kept, {own}),
   Sent(Kept, TRUE, Kept), Sent(Kept, FALSE, Kept)}

Symmetry == Permutations(SessionIds) \cup Permutations(Requests) \cup Permutations(Founders)
==============================================================================

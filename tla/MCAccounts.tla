----------------------------- MODULE MCAccounts -----------------------------
(* Instances of Accounts for TLC. *)
EXTENDS Accounts, TLC

NoTenantOf == <<>>

Symmetry == Permutations(SessionIds) \cup Permutations(LinkIds) \cup Permutations(Requests)
              \cup Permutations(Passwords)
=============================================================================

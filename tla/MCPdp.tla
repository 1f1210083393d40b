--------------------------------- MODULE MCPdp ---------------------------------
(* Instances of Pdp for TLC. *)
EXTENDS Pdp, TLC

SameHash == [i \in Invoices |-> "h"]

\* A platform's identifiers are its own.
PairIds == Connections \X Keys
PairIdOf == [ck \in Connections \X Keys |-> ck]

Symmetry == Permutations(Workers) \cup Permutations(Pollers) \cup Permutations(RowIds)
================================================================================

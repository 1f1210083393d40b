-------------------------- MODULE MCTransmissionQueue --------------------------
(* Instances of TransmissionQueue for TLC. *)
EXTENDS TransmissionQueue, TLC

\* Every invoice has the same bytes: the key must tell them apart by the invoice.
SameHash == [i \in Invoices |-> "h"]

\* A platform's identifiers are its own.
PairIds == Connections \X Keys
PairIdOf == [ck \in Connections \X Keys |-> ck]

Symmetry == Permutations(Workers) \cup Permutations(RowIds)
================================================================================

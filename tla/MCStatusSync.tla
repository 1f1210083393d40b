------------------------------ MODULE MCStatusSync ------------------------------
(* Instances of StatusSync for TLC. Invoices and connections are numbers. *)
EXTENDS StatusSync, TLC

SameHash == [i \in Invoices |-> "h"]

\* Each platform numbers its documents from its own start, so that two platforms
\* give the same identifier to different invoices.
ClashingIdOf == [ck \in Connections \X Keys |-> (ck[1] + ck[2][1]) % 2]
=================================================================================

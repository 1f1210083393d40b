------------------------------- MODULE MCReception -------------------------------
(* Instances of Reception for TLC. *)
EXTENDS Reception

CONSTANTS
  trade,      \* issued by one business of the tenant to another
  bill,       \* an ordinary supplier's invoice
  twin,       \* another document under the number of trade
  stray,      \* addressed to nobody we know
  a, b        \* businesses

Buyers == [d \in Docs |-> IF d = stray THEN None ELSE b]
Issuers == [d \in Docs |-> IF d = trade THEN a ELSE None]
Numbers == [d \in Docs |-> IF d = twin THEN trade ELSE d]
================================================================================

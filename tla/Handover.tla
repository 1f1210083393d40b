-------------------------------- MODULE Handover --------------------------------
(***************************************************************************)
(* What the transmission queue promises of every issued invoice, whatever  *)
(* workers, requests and platforms do: it is bound to one platform, once;  *)
(* the document reaches that platform at most once and reaches no other;   *)
(* and the invoice is shown as sent only when the platform has it, after   *)
(* which it is never shown as unsent again.                                *)
(***************************************************************************)
CONSTANTS Invoices, Connections

VARIABLES
  bound,        \* the platform each invoice is queued for: none or one
  delivered,    \* the platforms that hold each invoice
  shownSent     \* the invoices the application shows as sent

vars == <<bound, delivered, shownSent>>

Init ==
  /\ bound = [i \in Invoices |-> {}]
  /\ delivered = [i \in Invoices |-> {}]
  /\ shownSent = {}

Bind(i, c) ==
  /\ bound[i] = {}
  /\ bound' = [bound EXCEPT ![i] = {c}]
  /\ UNCHANGED <<delivered, shownSent>>

Deliver(i) ==
  /\ bound[i] # {} /\ delivered[i] = {}
  /\ delivered' = [delivered EXCEPT ![i] = bound[i]]
  /\ UNCHANGED <<bound, shownSent>>

Show(i) ==
  /\ delivered[i] # {}
  /\ shownSent' = shownSent \cup {i}
  /\ UNCHANGED <<bound, delivered>>

Next == \E i \in Invoices : Deliver(i) \/ Show(i) \/ \E c \in Connections : Bind(i, c)

Spec == Init /\ [][Next]_vars
================================================================================

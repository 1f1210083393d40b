------------------------------- MODULE Lifecycle -------------------------------
(***************************************************************************)
(* The lifecycle vocabulary of an invoice (apps/api/src/pdp/lifecycle.ts): *)
(* which status codes a platform may report, the invoice state each one    *)
(* implies, how far along each state is, and advanceState, which says      *)
(* where an invoice goes when a status arrives.  Labels and the mandatory  *)
(* flag are wording and reporting metadata: nothing here depends on them.  *)
(***************************************************************************)
EXTENDS Naturals

InvoiceStates == {"DRAFT", "VALIDATED", "QUEUED", "TRANSMITTED",
                  "DELIVERED", "REJECTED", "ARCHIVED"}

\* The state a code implies; "NULL" is the null of the source table: the code
\* belongs to the history and leaves the state alone.
LIFECYCLE_DEFINITIONS ==
  [DEPOSEE                              |-> "TRANSMITTED",
   REJETEE                              |-> "REJECTED",
   PRISE_EN_CHARGE                      |-> "TRANSMITTED",
   MISE_A_DISPOSITION                   |-> "DELIVERED",
   RECUE_PAR_LA_PLATEFORME_DESTINATAIRE |-> "DELIVERED",
   APPROUVEE                            |-> "DELIVERED",
   APPROUVEE_PARTIELLEMENT              |-> "DELIVERED",
   REFUSEE                              |-> "REJECTED",
   PAIEMENT_TRANSMIS                    |-> "NULL",
   ENCAISSEE                            |-> "NULL",
   COMPLETEE                            |-> "NULL",
   SUSPENDUE                            |-> "NULL"]

KNOWN_CODES == DOMAIN LIFECYCLE_DEFINITIONS

\* Stands for any code of a platform's own: it is recorded and implies no state.
OTHER_CODE == "OTHER"

PLATFORM_CODES == KNOWN_CODES \cup {OTHER_CODE}

isLifecycleCode(code) == code \in KNOWN_CODES

\* What the application records about itself; no platform reports these.
INTERNAL_CODES == {"RECEIVED", "TRANSMISSION_ECHOUEE", "TRANSMISSION_ABANDONNEE"}

STATE_RANK ==
  [DRAFT |-> 0, VALIDATED |-> 1, QUEUED |-> 2, TRANSMITTED |-> 3,
   DELIVERED |-> 4, REJECTED |-> 5, ARCHIVED |-> 6]

\* Mutation: the latest status wins, however far the invoice has come.
advanceStateLatest(current, code) ==
  IF isLifecycleCode(code) /\ LIFECYCLE_DEFINITIONS[code] # "NULL" /\ current # "ARCHIVED"
  THEN LIFECYCLE_DEFINITIONS[code]
  ELSE current

\* The state the invoice should hold.  The source returns null where nothing
\* changes so that its caller skips the write; here that is the current state.
advanceState(current, code) ==
  IF /\ isLifecycleCode(code)
     /\ LIFECYCLE_DEFINITIONS[code] # "NULL"
     /\ current # "ARCHIVED"
     /\ STATE_RANK[LIFECYCLE_DEFINITIONS[code]] > STATE_RANK[current]
  THEN LIFECYCLE_DEFINITIONS[code]
  ELSE current

\* The codes after which a transmission is closed out (pdp-sync.service.ts).
ACKNOWLEDGING_CODES == {"MISE_A_DISPOSITION", "RECUE_PAR_LA_PLATEFORME_DESTINATAIRE",
                        "APPROUVEE", "APPROUVEE_PARTIELLEMENT"}

\* The codes by which the platform or the buyer has refused the document.
REJECTING_CODES == {c \in KNOWN_CODES : LIFECYCLE_DEFINITIONS[c] = "REJECTED"}
================================================================================

-------------------------------- MODULE PdpStore --------------------------------
(***************************************************************************)
(* The database tables that the transmission queue and the status poller   *)
(* share (packages/db/prisma/schema.prisma), for one client business.      *)
(*                                                                         *)
(* A Transmission row is the unit of work of the queue.  Its idempotency   *)
(* key is a function of the invoice and of the sealed bytes, and is        *)
(* unique in the table.  Time is kept to what the claim query asks of it:  *)
(* whether nextAttemptAt has passed (due) and whether the claim is older   *)
(* than CLAIM_LEASE_MS (stale).                                            *)
(*                                                                         *)
(* The platforms are external.  Each holds the documents it has accepted,  *)
(* one per idempotency key, under an identifier of its own making that is  *)
(* unique on that platform only.                                           *)
(***************************************************************************)
EXTENDS Lifecycle, FiniteSets

CONSTANTS
  Invoices,       \* issued invoices of the business, each with its sealed artifact
  ContentHash,    \* the hash of the sealed artifact of each invoice
  Connections,    \* the business's PdpConnection rows, one per provider
  Unresolvable,   \* connections this deployment has no adapter for or cannot decrypt
  ExternalIds,    \* identifiers platforms give to documents
  ExternalIdOf,   \* the identifier a platform gives to a key
  RowIds,         \* ids a Transmission row may get
  Workers,        \* processes running PdpWorker
  MAX_ATTEMPTS,   \* failures before a transmission is parked
  None            \* the absent value

ASSUME MaxAttemptsAssumption == MAX_ATTEMPTS \in Nat \ {0}
ASSUME NoneAssumption == None \notin Workers \cup ExternalIds

VARIABLES
  rows,           \* Transmission
  invoiceState,   \* Invoice.state
  timeline,       \* LifecycleStatus
  active,         \* PdpConnection.active
  held            \* platforms: the keys each one holds a document for

storeVars == <<rows, invoiceState, timeline, active>>

\* Mutation: the key is made of the sealed bytes alone.
transmissionKeyOfBytes(i) == <<ContentHash[i]>>

transmissionKey(i) == <<i, ContentHash[i]>>

Keys == {transmissionKey(i) : i \in Invoices}

ASSUME ExternalIdAssumption ==
  /\ ExternalIdOf \in [Connections \X Keys -> ExternalIds]
  /\ \A c \in Connections : \A k, l \in Keys :
       ExternalIdOf[<<c, k>>] = ExternalIdOf[<<c, l>>] => k = l

TransmissionStates == {"PENDING", "SENT", "ACKNOWLEDGED", "FAILED"}

TransmissionRow ==
  [invoice : Invoices, key : Keys, conn : Connections, state : TransmissionStates,
   attempt : Nat, due : BOOLEAN, claimedBy : Workers \cup {None}, stale : BOOLEAN,
   externalId : ExternalIds \cup {None}]

\* The unique constraint on Transmission.idempotencyKey, as a reader sees it.
KeyTaken(k) == \E r \in DOMAIN rows : rows[r].key = k

HasTransmission(i) == \E r \in DOMAIN rows : rows[r].invoice = i

\* LifecycleStatus is unique on (invoice, code, occurredAt), so that a second
\* insertion with skipDuplicates changes nothing: the table is a set.
Status(i, code, at) == [invoice |-> i, code |-> code, at |-> at]

\* Internal statuses carry the moment they were written, which nothing reads.
INTERNAL_TIME == 0

\* The instant a platform accepts a document, before any status it reports of it.
ACCEPTED_AT == 0

\* Issuance has committed the invoices as VALIDATED, sealed and unsent; at most
\* one connection of a business is active (a partial unique index).
StoreInit ==
  /\ rows = [r \in {} |-> None]
  /\ invoiceState = [i \in Invoices |-> "VALIDATED"]
  /\ timeline = {}
  /\ held = {}
  /\ active \in {{}} \cup {{c} : c \in Connections}

StoreTypeOK ==
  /\ DOMAIN rows \subseteq RowIds
  /\ rows \in [DOMAIN rows -> TransmissionRow]
  /\ invoiceState \in [Invoices -> InvoiceStates]
  /\ active \in SUBSET Connections
  /\ held \in SUBSET (Connections \X Keys)
  /\ timeline \in SUBSET [invoice : Invoices, code : PLATFORM_CODES \cup INTERNAL_CODES, at : Nat]
================================================================================

------------------------------- MODULE Reception -------------------------------
(***************************************************************************)
(* Receiving invoices: receive of apps/api/src/invoicing/                  *)
(* reception.service.ts, the archive it seals into                         *)
(* (archiving.service.ts, filesystem.store.ts), and the two callers it     *)
(* has: uploads, and pollInbound of apps/api/src/pdp/pdp-sync.service.ts.  *)
(*                                                                         *)
(* receive looks for the document among those already received, then runs  *)
(* a transaction: insert the invoice, write the bytes to the store, insert *)
(* the archive entry.  Between the look and the insertion anything may     *)
(* happen, and the store is not part of the transaction.  pollInbound      *)
(* receives what the platform holds for the business, in the order of      *)
(* receivedAt; whatever becomes of a document, it is acknowledged, and the *)
(* cursor moves past it.                                                   *)
(*                                                                         *)
(* An archive entry commits with its invoice and is never changed: the     *)
(* document of an invoice stands for both.  One connection, which stays    *)
(* active; inbound documents carry receivedAt as their identity.           *)
(***************************************************************************)
EXTENDS Naturals, FiniteSets

CONSTANTS
  Docs,           \* documents: one for each content hash
  Orgs,           \* client businesses of the tenant, not archived
  BuyerOf,        \* the business a document is addressed to, or None
  Readable,       \* the documents that can be read as an invoice
  NumberOf,       \* supplier and number of a document; None if it names no supplier
  IssuedBy,       \* the business that has issued a document through us, or None
  InvoiceIds,     \* ids a received invoice may get
  Uploads,        \* upload requests that may be under way at once
  Pollers,        \* inbound polls that may be under way at once
  MaxAt,          \* the last receivedAt of a model
  MaxReceiveFaults, \* bound: receptions in a poll that fail for no fault of the document
  MaxPollFaults,  \* bound: polls cut short
  None            \* the absent value

ASSUME DocumentAssumption ==
  /\ BuyerOf \in [Docs -> Orgs \cup {None}] /\ None \notin Orgs
  /\ IssuedBy \in [Docs -> Orgs \cup {None}]
  /\ Readable \subseteq Docs /\ None \notin Docs
  /\ Docs \cap InvoiceIds = {}
ASSUME ReceptionBounds == MaxAt \in Nat /\ MaxReceiveFaults \in Nat /\ MaxPollFaults \in Nat
ASSUME ReceiverAssumption == Uploads \cap Pollers = {}

VARIABLES
  invoices,       \* Invoice rows with their archive entry
  blobs,          \* the store: the documents whose bytes it holds
  inbox,          \* platform: what suppliers have sent to the business
  acked,          \* platform: what has been acknowledged
  inboundCursor,  \* PdpConnection.inboundCursor
  rpc,            \* receiver: where its receive is
  rdoc,           \* receiver: the document it receives
  ipc,            \* poller: where its poll is
  since,          \* poller: the cursor it read with the connection
  todo,           \* poller: fetched and not yet received
  acknowledge,    \* poller: what it will acknowledge
  watermark,      \* poller: receivedAt of the last one dealt with
  thrown,         \* history, read by no action: what pollInbound has counted as rejected
                  \* though it could be filed
  receiveFaults, pollFaults

filed == <<invoices, blobs>>
platform == <<inbox, acked>>
pollVars == <<ipc, since, todo, acknowledge, watermark, thrown>>
vars == <<filed, platform, inboundCursor, rpc, rdoc, pollVars, receiveFaults, pollFaults>>

Receivers == Uploads \cup Pollers

InboundInvoice == [doc : Docs, at : 1..MaxAt]

ReceptionTypeOK ==
  /\ DOMAIN invoices \subseteq Docs \cup InvoiceIds
  /\ invoices \in [DOMAIN invoices ->
                     [doc : Docs, org : Orgs, direction : {"ISSUED", "RECEIVED"}]]
  /\ blobs \in SUBSET Docs
  /\ inbox \in SUBSET InboundInvoice
  /\ acked \in SUBSET InboundInvoice
  /\ inboundCursor \in 0..MaxAt
  /\ rpc \in [Receivers -> {"idle", "check", "insert", "seal", "commit"}]
  /\ rdoc \in [Receivers -> Docs \cup {None}]
  /\ ipc \in [Pollers -> {"idle", "fetch", "receive", "acknowledge", "cursor"}]
  /\ since \in [Pollers -> 0..MaxAt]
  /\ todo \in [Pollers -> SUBSET InboundInvoice]
  /\ acknowledge \in [Pollers -> SUBSET InboundInvoice]
  /\ watermark \in [Pollers -> 0..MaxAt]
  /\ thrown \in SUBSET InboundInvoice
  /\ receiveFaults \in 0..MaxReceiveFaults
  /\ pollFaults \in 0..MaxPollFaults

\* What the tenant's businesses have issued is archived under its own invoices, which
\* take the document for their id here.
Init ==
  /\ invoices = [d \in {d \in Docs : IssuedBy[d] # None} |->
                   [doc |-> d, org |-> IssuedBy[d], direction |-> "ISSUED"]]
  /\ blobs = DOMAIN invoices
  /\ inbox = {} /\ acked = {} /\ inboundCursor = 0
  /\ rpc = [r \in Receivers |-> "idle"]
  /\ rdoc = [r \in Receivers |-> None]
  /\ ipc = [p \in Pollers |-> "idle"]
  /\ since = [p \in Pollers |-> 0]
  /\ todo = [p \in Pollers |-> {}]
  /\ acknowledge = [p \in Pollers |-> {}]
  /\ watermark = [p \in Pollers |-> 0]
  /\ thrown = {}
  /\ receiveFaults = 0 /\ pollFaults = 0

---------------------------------------------------------------------------
(* receive *)

Received(i) == invoices[i].direction = "RECEIVED"

\* Mutation: the bytes are archived at all, as it once was.
findArchived(d) == \E i \in DOMAIN invoices : invoices[i].doc = d

\* A received invoice of the same business with the same bytes.
findAlreadyReceived(d) ==
  \E i \in DOMAIN invoices :
    Received(i) /\ invoices[i].doc = d /\ invoices[i].org = BuyerOf[d]

\* Two documents the unique index on (business, supplier, number) tells apart no
\* further; a document that names no supplier is not in it.
SameNumber(d, e) ==
  /\ NumberOf[d] # None
  /\ NumberOf[d] = NumberOf[e] /\ BuyerOf[d] = BuyerOf[e]

\* Mutation: no index.
NumberUnchecked(d) == FALSE

NumberTaken(d) == \E i \in DOMAIN invoices : Received(i) /\ SameNumber(d, invoices[i].doc)

\* The next document of a poll: the list is sorted by receivedAt.
IsNext(p, m) == m \in todo[p] /\ \A n \in todo[p] : m.at <= n.at

\* receive returns or throws, and its caller goes on.  For pollInbound both come to
\* the same: the document is to be acknowledged and the watermark moves to it.
\* threw: for another reason than that the document cannot be filed.
ReceiveEnds(r, threw) ==
  /\ rpc' = [rpc EXCEPT ![r] = "idle"]
  /\ rdoc' = [rdoc EXCEPT ![r] = None]
  /\ IF r \in Pollers
     THEN \E m \in todo[r] :
            /\ IsNext(r, m)
            /\ todo' = [todo EXCEPT ![r] = @ \ {m}]
            /\ acknowledge' = [acknowledge EXCEPT ![r] = @ \cup {m}]
            /\ watermark' = [watermark EXCEPT ![r] = m.at]
            /\ ipc' = [ipc EXCEPT ![r] = IF todo[r] = {m} THEN "acknowledge" ELSE "receive"]
            /\ thrown' = IF threw THEN thrown \cup {m} ELSE thrown
            /\ UNCHANGED since
     ELSE UNCHANGED pollVars
  /\ UNCHANGED <<platform, inboundCursor, pollFaults>>

\* An upload, or the next document of a poll, enters receive.
ReceiveBegins(r, d) ==
  /\ rpc[r] = "idle"
  /\ rpc' = [rpc EXCEPT ![r] = "check"]
  /\ rdoc' = [rdoc EXCEPT ![r] = d]
  /\ UNCHANGED <<filed, platform, inboundCursor, pollVars, receiveFaults, pollFaults>>

upload(u, d) == ReceiveBegins(u, d)

ReceiveNext(p, m) == ipc[p] = "receive" /\ IsNext(p, m) /\ ReceiveBegins(p, m.doc)

\* Mutation: what can be read is recorded, whoever it is addressed to.
FileableReadable(d) == d \in Readable

\* Something to record, and a business of ours to record it for.
Fileable(d) == d \in Readable /\ BuyerOf[d] # None

\* UnreadableDocumentError, UnroutableInvoiceError.
Refuse(r) ==
  /\ rpc[r] = "check" /\ ~Fileable(rdoc[r])
  /\ ReceiveEnds(r, FALSE)
  /\ UNCHANGED <<filed, receiveFaults>>

ReturnDuplicate(r) ==
  /\ rpc[r] = "check" /\ Fileable(rdoc[r]) /\ findAlreadyReceived(rdoc[r])
  /\ ReceiveEnds(r, FALSE)
  /\ UNCHANGED <<filed, receiveFaults>>

Step(r, from, to) ==
  /\ rpc[r] = from
  /\ rpc' = [rpc EXCEPT ![r] = to]
  /\ UNCHANGED <<platform, inboundCursor, rdoc, pollVars, receiveFaults, pollFaults>>

Check(r) ==
  /\ Step(r, "check", "insert")
  /\ Fileable(rdoc[r]) /\ ~findAlreadyReceived(rdoc[r])
  /\ UNCHANGED filed

\* A transaction that has inserted the same number is still open: the index makes
\* this one wait for it.
InsertWaits(r) ==
  \E q \in Receivers : rpc[q] \in {"seal", "commit"} /\ SameNumber(rdoc[r], rdoc[q])

InsertInvoice(r) ==
  /\ Step(r, "insert", "seal")
  /\ ~InsertWaits(r) /\ ~NumberTaken(rdoc[r])
  /\ UNCHANGED filed

\* The insertion violates the index: the transaction is over and receive throws.
InsertRefused(r) ==
  /\ rpc[r] = "insert" /\ ~InsertWaits(r) /\ NumberTaken(rdoc[r])
  /\ ReceiveEnds(r, TRUE)
  /\ UNCHANGED <<filed, receiveFaults>>

\* The store is content-addressed and write-once: bytes already there stay.
put(d) == blobs' = blobs \cup {d}

seal(r) ==
  /\ Step(r, "seal", "commit")
  /\ put(rdoc[r])
  /\ UNCHANGED invoices

\* The invoice, its archive entry and RECEIVED on its timeline commit together.
Commit(r) ==
  /\ rpc[r] = "commit"
  /\ \E i \in InvoiceIds \ DOMAIN invoices :
       invoices' = [j \in DOMAIN invoices \cup {i} |->
                      IF j = i THEN [doc |-> rdoc[r], org |-> BuyerOf[rdoc[r]],
                                     direction |-> "RECEIVED"]
                               ELSE invoices[j]]
  /\ ReceiveEnds(r, FALSE)
  /\ UNCHANGED <<blobs, receiveFaults>>

\* Mutation: a reception that is rolled back cleans up the bytes it has written.
ReceiveFailsCleaning(r) ==
  /\ rpc[r] # "idle"
  /\ r \in Uploads
  /\ blobs' = IF rpc[r] = "commit" THEN blobs \ {rdoc[r]} ELSE blobs
  /\ ReceiveEnds(r, TRUE)
  /\ UNCHANGED <<invoices, receiveFaults>>

\* The database or the store fails: receive throws and its transaction is rolled
\* back.  An upload may also be refused for want of scope, or be abandoned.
ReceiveFails(r) ==
  /\ rpc[r] # "idle"
  /\ IF r \in Pollers
     THEN receiveFaults < MaxReceiveFaults /\ receiveFaults' = receiveFaults + 1
     ELSE UNCHANGED receiveFaults
  /\ ReceiveEnds(r, TRUE)
  /\ UNCHANGED filed

---------------------------------------------------------------------------
(* pollInbound *)

\* The platform takes in a document for the business, in the order of receivedAt.
InboundArrives(d, at) ==
  /\ \A m \in inbox : m.at < at
  /\ inbox' = inbox \cup {[doc |-> d, at |-> at]}
  /\ UNCHANGED <<filed, acked, inboundCursor, rpc, rdoc, pollVars, receiveFaults, pollFaults>>

InboundEnds(p) ==
  /\ ipc' = [ipc EXCEPT ![p] = "idle"]
  /\ since' = [since EXCEPT ![p] = 0]
  /\ todo' = [todo EXCEPT ![p] = {}]
  /\ acknowledge' = [acknowledge EXCEPT ![p] = {}]
  /\ watermark' = [watermark EXCEPT ![p] = 0]
  /\ UNCHANGED thrown

\* The connection row is read with its cursor, well before the fetch.
InboundStarts(p) ==
  /\ ipc[p] = "idle"
  /\ ipc' = [ipc EXCEPT ![p] = "fetch"]
  /\ since' = [since EXCEPT ![p] = inboundCursor]
  /\ UNCHANGED <<filed, platform, inboundCursor, rpc, rdoc, todo, acknowledge, watermark,
                 thrown, receiveFaults, pollFaults>>

\* Later than since, strictly.  What was acknowledged may be delivered again.
InboundFetches(p) ==
  /\ ipc[p] = "fetch"
  /\ LET later == {m \in inbox : m.at > since[p]} IN
       \E redelivered \in SUBSET (later \cap acked) :
         LET fetched == (later \ acked) \cup redelivered IN
           IF fetched = {}
           THEN InboundEnds(p)
           ELSE /\ ipc' = [ipc EXCEPT ![p] = "receive"]
                /\ todo' = [todo EXCEPT ![p] = fetched]
                /\ UNCHANGED <<since, acknowledge, watermark, thrown>>
  /\ UNCHANGED <<filed, platform, inboundCursor, rpc, rdoc, receiveFaults, pollFaults>>

Acknowledge(p) ==
  /\ ipc[p] = "acknowledge"
  /\ acked' = acked \cup acknowledge[p]
  /\ ipc' = [ipc EXCEPT ![p] = "cursor"]
  /\ UNCHANGED <<filed, inbox, inboundCursor, rpc, rdoc, since, todo, acknowledge, watermark,
                 thrown, receiveFaults, pollFaults>>

\* Mutation: the cursor is moved to the end of what the platform has by now.
WriteInboundCursorNow(p) ==
  /\ ipc[p] = "cursor"
  /\ inboundCursor' = CHOOSE t \in {m.at : m \in inbox} : \A m \in inbox : m.at <= t
  /\ InboundEnds(p)
  /\ UNCHANGED <<filed, platform, rpc, rdoc, receiveFaults, pollFaults>>

\* The cursor takes the watermark, whatever another poll has made of it.
WriteInboundCursor(p) ==
  /\ ipc[p] = "cursor"
  /\ inboundCursor' = watermark[p]
  /\ InboundEnds(p)
  /\ UNCHANGED <<filed, platform, rpc, rdoc, receiveFaults, pollFaults>>

\* The platform fails or the process dies, a transaction in hand with it.
InboundFails(p) ==
  /\ ipc[p] # "idle"
  /\ pollFaults < MaxPollFaults
  /\ pollFaults' = pollFaults + 1
  /\ rpc' = [rpc EXCEPT ![p] = "idle"]
  /\ rdoc' = [rdoc EXCEPT ![p] = None]
  /\ InboundEnds(p)
  /\ UNCHANGED <<filed, platform, inboundCursor, receiveFaults>>

---------------------------------------------------------------------------
ReceiveStep(r) ==
  \/ Refuse(r)
  \/ ReturnDuplicate(r)
  \/ Check(r)
  \/ InsertInvoice(r)
  \/ InsertRefused(r)
  \/ seal(r)
  \/ Commit(r)

InboundStep(p) ==
  \/ InboundStarts(p)
  \/ InboundFetches(p)
  \/ \E m \in todo[p] : ReceiveNext(p, m)
  \/ ReceiveStep(p)
  \/ Acknowledge(p)
  \/ WriteInboundCursor(p)

Next ==
  \/ \E d \in Docs, at \in 1..MaxAt : InboundArrives(d, at)
  \/ \E u \in Uploads : (\E d \in Docs : upload(u, d)) \/ ReceiveStep(u)
  \/ \E r \in Receivers : ReceiveFails(r)
  \/ \E p \in Pollers : InboundStep(p) \/ InboundFails(p)

Spec == Init /\ [][Next]_vars

\* The worker polls again after every poll, a request that has begun runs on, and a
\* transaction that waits for another is served when that one ends, before newcomers.
Fairness ==
  /\ \A p \in Pollers : WF_vars(InboundStep(p)) /\ SF_vars(InsertInvoice(p) \/ InsertRefused(p))
  /\ \A u \in Uploads : WF_vars(ReceiveStep(u))

FairSpec == Spec /\ Fairness

---------------------------------------------------------------------------
(* Properties *)

\* There is an invoice for the document, received for its buyer.
Filed(d) ==
  \E i \in DOMAIN invoices :
    Received(i) /\ invoices[i].doc = d /\ invoices[i].org = BuyerOf[d]

Settled(d) == Fileable(d) => Filed(d)

\* A document that needs no further reception, as far as pollInbound goes.
Dealt(m) == Settled(m.doc) \/ m \in thrown

\* What the platform has been told to forget, or the cursor has passed, is filed for its
\* buyer, wherever polls and transactions were cut short, whichever poll wrote the cursor,
\* and also when a business of ours has issued it: all but what pollInbound has rejected
\* on an error of its reception, and counted so.
PassedIsFiled ==
  \A m \in inbox : m \in acked \/ m.at <= inboundCursor => Dealt(m)

\* "Acknowledging first would tell the platform to stop re-delivering an invoice we then
\* failed to store, and there is no way to ask for it back" (pollInbound): what is
\* acknowledged, or behind the cursor, is stored.
NothingLost ==
  \A m \in inbox : m \in acked \/ m.at <= inboundCursor => Settled(m.doc)

\* Re-receiving the same bytes "must not produce a second invoice" (receive): no
\* document that names its supplier is filed twice for its buyer.  Where the look and
\* the insertion race, the unique index decides.
IdentifiedFiledOnce ==
  \A i, j \in DOMAIN invoices :
    /\ Received(i) /\ Received(j) /\ invoices[i].doc = invoices[j].doc
    /\ NumberOf[invoices[i].doc] # None
    => i = j

\* Every archived invoice has its bytes in the store, which no transaction covers.
FiledIsSealed == \A i \in DOMAIN invoices : invoices[i].doc \in blobs

\* In the end everything that suppliers have sent, and that can be filed, is filed, or has
\* been rejected on an error of its reception.
EveryInboundFiled == <>[](\A m \in inbox : Dealt(m))

---------------------------------------------------------------------------
(* The inductive invariants behind them: FilingInv by itself, PollInv with it. *)

Instants == {0} \cup {m.at : m \in inbox}

\* What is acknowledged has arrived, and cursors and watermarks are instants of what
\* has arrived, one for each document: nothing arrives behind them.
CursorsLag ==
  /\ acked \subseteq inbox
  /\ inboundCursor \in Instants
  /\ \A p \in Pollers : since[p] \in Instants /\ watermark[p] \in Instants
  /\ \A m, n \in inbox : m.at = n.at => m = n

DealtUpTo(t) == \A m \in inbox : m.at <= t => Dealt(m)

\* What a poll has still to receive is all that separates its watermark from the truth.
PollsInHand ==
  \A p \in Pollers :
    /\ todo[p] \subseteq inbox /\ acknowledge[p] \subseteq inbox
    /\ \A m \in acknowledge[p] : Dealt(m)
    /\ rpc[p] # "idle" =>
         ipc[p] = "receive" /\ \E m \in todo[p] : IsNext(p, m) /\ rdoc[p] = m.doc
    /\ ipc[p] = "fetch" => DealtUpTo(since[p])
    /\ ipc[p] = "receive" =>
         \A m \in inbox :
           Dealt(m) \/ m \in todo[p] \/ \A n \in todo[p] : n.at < m.at
    /\ ipc[p] \in {"acknowledge", "cursor"} => DealtUpTo(watermark[p])

\* An open transaction has the number of its document to itself, and its bytes are
\* in the store before it commits.
ReceptionsInHand ==
  \A r \in Receivers :
    /\ rpc[r] # "idle" => rdoc[r] \in Docs
    /\ rpc[r] \in {"insert", "seal", "commit"} => Fileable(rdoc[r])
    /\ rpc[r] = "commit" => rdoc[r] \in blobs
    /\ rpc[r] \in {"seal", "commit"} =>
         /\ ~NumberTaken(rdoc[r])
         /\ \A q \in Receivers :
              rpc[q] \in {"seal", "commit"} /\ SameNumber(rdoc[r], rdoc[q]) => q = r

FiledForBuyer ==
  \A i \in DOMAIN invoices : Received(i) => invoices[i].org = BuyerOf[invoices[i].doc]

\* What holds of receptions and of the rows they leave.
FilingInv ==
  /\ ReceptionTypeOK
  /\ ReceptionsInHand
  /\ FiledForBuyer
  /\ IdentifiedFiledOnce
  /\ FiledIsSealed

\* What holds of polls.
PollInv ==
  /\ CursorsLag
  /\ PollsInHand
  /\ PassedIsFiled

ReceptionInv == FilingInv /\ PollInv
================================================================================

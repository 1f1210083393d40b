------------------------------- MODULE PdpProofs -------------------------------
(***************************************************************************)
(* Proofs about the status poller, for every set of invoices, connections, *)
(* pollers and reports, whatever polls overlap, fail or are repeated; then *)
(* about the queue and the poller together, from a business with nothing   *)
(* in the queue yet: what each keeps true by itself, the other does not    *)
(* disturb.                                                                *)
(***************************************************************************)
EXTENDS Pdp, TransmissionQueueProofs

(* There is a row for every invoice handed over. *)
RowsSuffice ==
  \E f \in [Invoices -> RowIds] : \A i, j \in Invoices : f[i] = f[j] => i = j

---------------------------------------------------------------------------
(* The inductive invariants. *)

(* A row bears the key of its invoice and the identifier its platform gave to that *)
(* key; an invoice has one row.                                                    *)
RowsFit ==
  /\ \A r \in DOMAIN rows :
       /\ rows[r].key = transmissionKey(rows[r].invoice)
       /\ rows[r].externalId # None =>
            rows[r].externalId = ExternalIdOf[<<rows[r].conn, rows[r].key>>]
  /\ \A r, s \in DOMAIN rows : rows[r].invoice = rows[s].invoice => r = s

FeedFits ==
  /\ \A u \in feed : u.externalId = ExternalIdOf[<<u.conn, u.key>>]
  /\ \A u, v \in feed : u.conn = v.conn /\ u.at = v.at => u = v

(* A poll walks reports of its connection; the one in hand is the next and has its *)
(* transmission.                                                                   *)
PollFits(p) ==
  /\ IF ppc[p] = "idle" THEN updates[p] = {} ELSE pconn[p] \in Connections
  /\ \A u \in updates[p] : u \in feed /\ u.conn = pconn[p]
  /\ ppc[p] \in {"apply", "commit"} =>
       /\ matched[p] \in Match
       /\ matched[p].row \in DOMAIN rows
       /\ MatchesUpdate(matched[p].row, matched[p].update)
       /\ IsNext(p, matched[p].update)
  /\ ppc[p] = "commit" => seen[p] \in InvoiceStates

TypeInv ==
  /\ StoreTypeOK /\ SyncTypeOK
  /\ RowsFit /\ FeedFits
  /\ \A p \in Pollers : PollFits(p)

(* A report that is not missing: it is on the timeline, or it came out of turn. *)
Kept(u) == OutOfTurn(u) \/ OnTimeline(u)

Covered(c, t) == \A u \in feed : u.conn = c /\ u.at <= t => Kept(u)

(* t is the time of a report of c, or the cold start. *)
Reported(c, t) == t = 0 \/ \E u \in feed : u.conn = c /\ u.at = t

(* A poll has behind it only what is kept, and in hand all the rest up to its last. *)
PollCovers(p) ==
  /\ ppc[p] = "idle" => updates[p] = {} /\ watermark[p] = 0
  /\ Reported(pconn[p], since[p]) /\ Covered(pconn[p], since[p])
  /\ Reported(pconn[p], watermark[p]) /\ Covered(pconn[p], watermark[p])
  /\ \A v \in updates[p], u \in feed :
       u.conn = pconn[p] /\ u.at <= v.at => u \in updates[p] \/ Kept(u)

(* A report is early, or its transmission is known by the identifier. *)
FeedRecorded == \A u \in feed : ~u.early => Recorded(u.conn, u.key)

CursorInv ==
  /\ FeedRecorded
  /\ \A c \in Connections : Reported(c, cursor[c]) /\ Covered(c, cursor[c])
  /\ \A p \in Pollers : PollCovers(p)

(* The two halves of StateIsFurthestPoint: an invoice that no two transactions have  *)
(* had open at once shows the furthest point, and two have one open only where a     *)
(* report came out of turn.                                                           *)
UncontendedIsFurthest ==
  \A s \in timeline :
    s.invoice \notin contended => Reach(s.code) <= STATE_RANK[invoiceState[s.invoice]]

OneWriterInTurn ==
  \A i \in contended : \E u \in feed : u.key = transmissionKey(i) /\ OutOfTurn(u)

(* No two open transactions insert the same status.  An invoice that two have not had *)
(* open at once is in one at most, which has read the state it still has.              *)
WriterInv ==
  /\ \A p \in Pollers : ppc[p] = "commit" =>
       /\ PendingStatus(p) \notin timeline
       /\ InvoiceInHand(p) \notin contended => seen[p] = invoiceState[InvoiceInHand(p)]
  /\ \A p, q \in Pollers : p # q /\ ppc[p] = "commit" /\ ppc[q] = "commit" =>
       /\ PendingStatus(p) # PendingStatus(q)
       /\ InvoiceInHand(p) = InvoiceInHand(q) => InvoiceInHand(p) \in contended

---------------------------------------------------------------------------
(* Keys and identifiers *)

LEMMA KeysApart ==
  ASSUME NEW i \in Invoices, NEW j \in Invoices, transmissionKey(i) = transmissionKey(j)
  PROVE  i = j
BY DEF transmissionKey

LEMMA KeyOfInvoice ==
  ASSUME NEW i \in Invoices
  PROVE  InvoiceOf(transmissionKey(i)) = i
<1>1. InvoiceOf(transmissionKey(i)) \in Invoices
      /\ transmissionKey(InvoiceOf(transmissionKey(i))) = transmissionKey(i)
  BY DEF InvoiceOf
<1> QED
  BY <1>1, KeysApart

(* The transmission with the identifier of a report, on the same connection, is the *)
(* one the report is about.                                                         *)
LEMMA MatchIsOwn ==
  ASSUME TypeInv, NEW r \in DOMAIN rows, NEW u \in feed, MatchesUpdate(r, u)
  PROVE  rows[r].key = u.key /\ rows[r].invoice = InvoiceOf(u.key) /\ Recorded(u.conn, u.key)
<1>1. rows[r] \in TransmissionRow /\ u \in StatusUpdate
  BY DEF TypeInv, StoreTypeOK, SyncTypeOK
<1>2. rows[r].conn = u.conn /\ rows[r].externalId = u.externalId
  BY DEF MatchesUpdate
<1>3. u.externalId = ExternalIdOf[<<u.conn, u.key>>] /\ u.externalId \in ExternalIds
  BY <1>1, ExternalIdAssumption DEF TypeInv, FeedFits, StatusUpdate
<1>4. rows[r].externalId # None
  BY <1>2, <1>3, NoneAssumption
<1>5. rows[r].externalId = ExternalIdOf[<<u.conn, rows[r].key>>]
  BY <1>2, <1>4 DEF TypeInv, RowsFit
<1>6. rows[r].key \in Keys /\ u.key \in Keys /\ u.conn \in Connections
  BY <1>1 DEF TransmissionRow, StatusUpdate
<1>7. rows[r].key = u.key
  BY <1>2, <1>3, <1>5, <1>6, ExternalIdAssumption
<1>8. rows[r].key = transmissionKey(rows[r].invoice) /\ rows[r].invoice \in Invoices
  BY <1>1 DEF TypeInv, RowsFit, TransmissionRow
<1> QED
  BY <1>2, <1>4, <1>7, <1>8, KeyOfInvoice DEF Recorded

(* A report no transmission matches is of none that is recorded. *)
LEMMA UnmatchedUnrecorded ==
  ASSUME TypeInv, NEW u \in feed, ~\E r \in DOMAIN rows : MatchesUpdate(r, u)
  PROVE  ~Recorded(u.conn, u.key)
BY DEF TypeInv, RowsFit, FeedFits, Recorded, MatchesUpdate

LEMMA PendingIsOwn ==
  ASSUME TypeInv, NEW p \in Pollers, ppc[p] \in {"apply", "commit"}
  PROVE  /\ matched[p].update \in feed /\ matched[p].update.conn = pconn[p]
         /\ InvoiceInHand(p) = InvoiceOf(matched[p].update.key) /\ InvoiceInHand(p) \in Invoices
         /\ Recorded(matched[p].update.conn, matched[p].update.key)
         /\ PendingStatus(p) \in timeline <=> OnTimeline(matched[p].update)
<1>1. /\ matched[p].row \in DOMAIN rows
      /\ MatchesUpdate(matched[p].row, matched[p].update)
      /\ matched[p].update \in feed /\ matched[p].update.conn = pconn[p]
  BY DEF TypeInv, PollFits, IsNext
<1>2. /\ rows[matched[p].row].invoice = InvoiceOf(matched[p].update.key)
      /\ Recorded(matched[p].update.conn, matched[p].update.key)
  BY <1>1, MatchIsOwn
<1>3. rows[matched[p].row].invoice \in Invoices
  BY <1>1 DEF TypeInv, StoreTypeOK, TransmissionRow
<1> QED
  BY <1>1, <1>2, <1>3 DEF PendingStatus, OnTimeline, InvoiceInHand

---------------------------------------------------------------------------
(* Types *)

LEMMA HandedOverTypes ==
  ASSUME RowsSuffice, HandedOverInit
  PROVE  TypeInv
<1> DEFINE id == CHOOSE f \in [Invoices -> RowIds] : \A i, j \in Invoices : f[i] = f[j] => i = j
<1>1. id \in [Invoices -> RowIds] /\ \A i, j \in Invoices : id[i] = id[j] => i = j
  BY DEF RowsSuffice
<1> HIDE DEF id
<1>2. PICK via \in [Invoices -> Connections], recorded \in SUBSET Invoices :
        /\ rows = [r \in {id[i] : i \in Invoices} |->
                     LET i == CHOOSE i \in Invoices : id[i] = r
                     IN  HandedOverRow(i, via[i], i \in recorded)]
        /\ held = {<<via[i], transmissionKey(i)>> : i \in Invoices}
        /\ invoiceState = [i \in Invoices |-> IF i \in recorded THEN "TRANSMITTED" ELSE "QUEUED"]
        /\ timeline = {Status(i, "DEPOSEE", ACCEPTED_AT) : i \in recorded}
        /\ active \in {{}} \cup {{c} : c \in Connections}
  BY DEF HandedOverInit, HandedOver, id
<1>3. DOMAIN rows = {id[i] : i \in Invoices}
  BY <1>2
<1>4. ASSUME NEW r \in DOMAIN rows
      PROVE  \E i \in Invoices : id[i] = r /\ rows[r] = HandedOverRow(i, via[i], i \in recorded)
  <2> DEFINE i == CHOOSE i \in Invoices : id[i] = r
  <2>1. i \in Invoices /\ id[i] = r
    BY <1>3
  <2>2. rows[r] = HandedOverRow(i, via[i], i \in recorded)
    BY <1>2, <1>3
  <2> HIDE DEF i
  <2> QED
    BY <2>1, <2>2
<1>5. ASSUME NEW i \in Invoices
      PROVE  LET row == HandedOverRow(i, via[i], i \in recorded)
             IN  /\ row \in TransmissionRow
                 /\ row.invoice = i /\ row.key = transmissionKey(i)
                 /\ row.externalId # None => row.externalId = ExternalIdOf[<<row.conn, row.key>>]
  <2>1. via[i] \in Connections /\ transmissionKey(i) \in Keys
    BY DEF Keys
  <2>2. ExternalIdOf[<<via[i], transmissionKey(i)>>] \in ExternalIds
    BY <2>1, ExternalIdAssumption
  <2> QED
    BY <2>1, <2>2 DEF HandedOverRow, TransmissionRow, TransmissionStates
<1>6. DOMAIN rows \subseteq RowIds /\ rows \in [DOMAIN rows -> TransmissionRow]
  <2>1. \A r \in DOMAIN rows : rows[r] \in TransmissionRow
    BY <1>4, <1>5
  <2>2. rows = [r \in DOMAIN rows |-> rows[r]]
    BY <1>2
  <2>3. DOMAIN rows \subseteq RowIds
    BY <1>1, <1>3
  <2> QED
    BY <2>1, <2>2, <2>3
<1>7. RowsFit
  <2>1. ASSUME NEW r \in DOMAIN rows
        PROVE  /\ rows[r].key = transmissionKey(rows[r].invoice)
               /\ rows[r].externalId # None =>
                    rows[r].externalId = ExternalIdOf[<<rows[r].conn, rows[r].key>>]
               /\ rows[r].invoice \in Invoices /\ id[rows[r].invoice] = r
    BY <1>4, <1>5
  <2> QED
    BY <2>1 DEF RowsFit
<1>8. timeline \in SUBSET [invoice : Invoices, code : PLATFORM_CODES \cup INTERNAL_CODES, at : Nat]
  BY <1>2 DEF Status, ACCEPTED_AT, PLATFORM_CODES, KNOWN_CODES, LIFECYCLE_DEFINITIONS
<1>9. /\ invoiceState \in [Invoices -> InvoiceStates] /\ active \in SUBSET Connections
      /\ held \in SUBSET (Connections \X Keys)
  BY <1>2 DEF InvoiceStates, Keys
<1>10. StoreTypeOK
  BY <1>6, <1>8, <1>9 DEF StoreTypeOK
<1>11. SyncTypeOK /\ FeedFits /\ \A p \in Pollers : PollFits(p)
  BY FeedAssumption DEF HandedOverInit, SyncInit, SyncTypeOK, FeedFits, PollFits
<1> QED
  BY <1>7, <1>10, <1>11 DEF TypeInv

(* A transmission stands for the same document throughout. *)
SameTransmissions ==
  /\ DOMAIN rows' = DOMAIN rows
  /\ \A r \in DOMAIN rows :
       /\ rows'[r].invoice = rows[r].invoice /\ rows'[r].key = rows[r].key
       /\ rows'[r].conn = rows[r].conn /\ rows'[r].externalId = rows[r].externalId

LEMMA RecordedStays ==
  ASSUME SameTransmissions, NEW c, NEW k
  PROVE  Recorded(c, k)' <=> Recorded(c, k)
BY DEF SameTransmissions, Recorded

SamePoll(q) ==
  /\ ppc'[q] = ppc[q] /\ pconn'[q] = pconn[q] /\ since'[q] = since[q] /\ updates'[q] = updates[q]
  /\ matched'[q] = matched[q] /\ seen'[q] = seen[q] /\ watermark'[q] = watermark[q]

LEMMA PollStands ==
  ASSUME TypeInv, NEW q \in Pollers, SamePoll(q), SameTransmissions, feed \subseteq feed'
  PROVE  PollFits(q)'
<1>1. /\ IF ppc'[q] = "idle" THEN updates'[q] = {} ELSE pconn'[q] \in Connections
      /\ ppc'[q] = "commit" => seen'[q] \in InvoiceStates
  BY DEF TypeInv, PollFits, SamePoll
<1>2. \A u \in updates'[q] : u \in feed' /\ u.conn = pconn'[q]
  BY DEF TypeInv, PollFits, SamePoll
<1>3. ASSUME ppc'[q] \in {"apply", "commit"}
      PROVE  /\ matched'[q] \in Match
             /\ matched'[q].row \in DOMAIN rows'
             /\ rows'[matched'[q].row].externalId = matched'[q].update.externalId
             /\ rows'[matched'[q].row].conn = matched'[q].update.conn
             /\ matched'[q].update \in updates'[q]
             /\ \A v \in updates'[q] : matched'[q].update.at <= v.at
  BY <1>3 DEF TypeInv, PollFits, SamePoll, SameTransmissions, MatchesUpdate, IsNext
<1> QED
  BY <1>1, <1>2, <1>3 DEF PollFits, MatchesUpdate, IsNext

LEMMA RowsFitStay ==
  ASSUME RowsFit, SameTransmissions
  PROVE  RowsFit'
BY DEF RowsFit, SameTransmissions, transmissionKey

(* What the steps of a poll do to the others, and to the tables. *)
LEMMA PollsApart ==
  ASSUME TypeInv, NEW p \in Pollers, NEW q \in Pollers, q # p,
         PollStep(p) \/ PollFails(p) \/ \E c \in Connections : receive(p, c)
  PROVE  SamePoll(q)
BY DEF TypeInv, SyncTypeOK, SamePoll, PollStep, PollStarts, receive, ReadsConnection, PollNothing,
       PollFetches, PollEnds, DropUnmatched, MatchUpdate, SkipDuplicate, ApplyBegins, ApplyCommits,
       WalkPast, WriteCursor, PollFails, syncVars, pollVars

LEMMA EndsTyped ==
  ASSUME SyncTypeOK, NEW p \in Pollers, PollEnds(p)
  PROVE  /\ ppc' \in [Pollers -> {"idle", "fetch", "match", "apply", "commit", "cursor"}]
         /\ pconn' \in [Pollers -> Connections \cup {None}]
         /\ since' \in [Pollers -> 0..MaxAt] /\ updates' \in [Pollers -> SUBSET StatusUpdate]
         /\ matched' \in [Pollers -> Match \cup {None}]
         /\ seen' \in [Pollers -> InvoiceStates \cup {None}]
         /\ watermark' \in [Pollers -> 0..MaxAt]
         /\ ppc'[p] = "idle" /\ updates'[p] = {}
BY FeedAssumption DEF SyncTypeOK, PollEnds

LEMMA WalkTyped ==
  ASSUME TypeInv, NEW p \in Pollers, NEW u \in updates[p], WalkPast(p, u)
  PROVE  /\ SyncTypeOK'
         /\ ppc'[p] \in {"match", "cursor"} /\ pconn'[p] = pconn[p] /\ since'[p] = since[p]
         /\ updates'[p] = updates[p] \ {u} /\ watermark'[p] = u.at
         /\ UNCHANGED <<feed, cursor>>
<1>1. u \in StatusUpdate /\ u.at \in 0..MaxAt
  BY FeedAssumption DEF TypeInv, SyncTypeOK, StatusUpdate
<1> QED
  BY <1>1 DEF TypeInv, SyncTypeOK, WalkPast

(* The poll that takes a step, when the tables stand still. *)
LEMMA OnePollMoves ==
  ASSUME TypeInv, NEW p \in Pollers, UNCHANGED <<storeVars, held, feed>>,
         \A q \in Pollers \ {p} : SamePoll(q), SyncTypeOK', PollFits(p)'
  PROVE  TypeInv'
<1>1. SameTransmissions
  BY DEF SameTransmissions, storeVars
<1>2. RowsFit' /\ StoreTypeOK' /\ FeedFits'
  BY <1>1, RowsFitStay DEF TypeInv, StoreTypeOK, FeedFits, storeVars
<1>3. \A q \in Pollers \ {p} : PollFits(q)'
  BY <1>1, PollStands
<1> QED
  BY <1>2, <1>3 DEF TypeInv

(* A report tells whether it is late and whether it is early. *)
LEMMA ReportFlags ==
  ASSUME NEW c, NEW k, NEW code, NEW at, PlatformReports(c, k, code, at)
  PROVE  \E late \in BOOLEAN, early \in BOOLEAN :
           /\ feed' = feed \cup {[conn |-> c, externalId |-> ExternalIdOf[<<c, k>>], key |-> k,
                                  code |-> code, at |-> at, late |-> late, early |-> early]}
           /\ UNCHANGED <<storeVars, held, cursor, pollVars, contended, pollFaults>>
           /\ \A u \in feed : u.conn = c => u.at # at
           /\ ~late => \A u \in feed : u.conn = c => ~(u.at > at)
           /\ ~early => Recorded(c, k)
<1> DEFINE late == \E u \in feed : u.conn = c /\ u.at > at
           early == ~Recorded(c, k)
<1>1. late \in BOOLEAN /\ early \in BOOLEAN
  OBVIOUS
<1>2. /\ feed' = feed \cup {[conn |-> c, externalId |-> ExternalIdOf[<<c, k>>], key |-> k,
                             code |-> code, at |-> at, late |-> late, early |-> early]}
      /\ UNCHANGED <<storeVars, held, cursor, pollVars, contended, pollFaults>>
      /\ \A u \in feed : u.conn = c => u.at # at
  BY DEF PlatformReports
<1>3. (~late => \A u \in feed : u.conn = c => ~(u.at > at)) /\ (~early => Recorded(c, k))
  OBVIOUS
<1> HIDE DEF late, early
<1> QED
  BY <1>1, <1>2, <1>3

LEMMA ReportTypes ==
  ASSUME TypeInv, NEW c \in Connections, NEW k \in Keys, NEW code \in FeedCodes,
         NEW at \in 1..MaxAt, PlatformReports(c, k, code, at)
  PROVE  TypeInv'
<1>1. PICK late \in BOOLEAN, early \in BOOLEAN :
        /\ feed' = feed \cup {[conn |-> c, externalId |-> ExternalIdOf[<<c, k>>], key |-> k,
                               code |-> code, at |-> at, late |-> late, early |-> early]}
        /\ UNCHANGED <<storeVars, held, cursor, pollVars, contended, pollFaults>>
        /\ \A u \in feed : u.conn = c => u.at # at
  BY ReportFlags
<1> DEFINE new == [conn |-> c, externalId |-> ExternalIdOf[<<c, k>>], key |-> k,
                   code |-> code, at |-> at, late |-> late, early |-> early]
<1>2. new \in StatusUpdate
  BY ExternalIdAssumption DEF StatusUpdate
<1>3. SyncTypeOK' /\ StoreTypeOK'
  BY <1>1, <1>2 DEF TypeInv, SyncTypeOK, StoreTypeOK, storeVars, pollVars
<1>4. FeedFits'
  BY <1>1 DEF TypeInv, FeedFits
<1>5. SameTransmissions
  BY <1>1 DEF SameTransmissions, storeVars
<1>6. RowsFit'
  BY <1>5, RowsFitStay DEF TypeInv
<1>7. \A q \in Pollers : SamePoll(q)
  BY <1>1 DEF SamePoll, pollVars
<1>8. \A q \in Pollers : PollFits(q)'
  BY <1>1, <1>5, <1>7, PollStands
<1> QED
  BY <1>3, <1>4, <1>6, <1>8 DEF TypeInv

LEMMA StartTypes ==
  ASSUME TypeInv, NEW p \in Pollers, NEW c \in Connections, ReadsConnection(p, c)
  PROVE  TypeInv'
<1>1. \A q \in Pollers \ {p} : SamePoll(q)
  BY DEF ReadsConnection, SamePoll, TypeInv, SyncTypeOK
<1>2. SyncTypeOK'
  BY DEF ReadsConnection, TypeInv, SyncTypeOK
<1>3. PollFits(p)'
  <2>1. ppc'[p] = "fetch" /\ pconn'[p] = c
    BY DEF ReadsConnection, TypeInv, SyncTypeOK
  <2> QED
    BY <2>1 DEF ReadsConnection, TypeInv, PollFits
<1> QED
  BY <1>1, <1>2, <1>3, OnePollMoves DEF ReadsConnection

LEMMA EndTypes ==
  ASSUME TypeInv, NEW p \in Pollers, PollEnds(p), UNCHANGED <<storeVars, held, feed, contended>>,
         cursor' \in [Connections -> 0..MaxAt], pollFaults' \in 0..MaxPollFaults
  PROVE  TypeInv'
<1>1. \A q \in Pollers \ {p} : SamePoll(q)
  BY DEF PollEnds, SamePoll, TypeInv, SyncTypeOK
<1>2. SyncTypeOK'
  BY EndsTyped DEF TypeInv, SyncTypeOK
<1>3. PollFits(p)'
  BY EndsTyped DEF TypeInv, PollFits
<1> QED
  BY <1>1, <1>2, <1>3, OnePollMoves

LEMMA FetchTypes ==
  ASSUME TypeInv, NEW p \in Pollers, PollFetches(p)
  PROVE  TypeInv'
<1>1. CASE PollEnds(p)
  BY <1>1, EndTypes DEF PollFetches, TypeInv, SyncTypeOK
<1>2. CASE /\ ppc' = [ppc EXCEPT ![p] = "match"]
           /\ updates' = [updates EXCEPT ![p] = Fetched(p)]
           /\ UNCHANGED <<pconn, since, matched, seen, watermark>>
  <2>1. UNCHANGED <<feed, cursor, contended, pollFaults, storeVars, held>> /\ ppc[p] = "fetch"
    BY DEF PollFetches
  <2>2. Fetched(p) \subseteq StatusUpdate
    BY DEF Fetched, TypeInv, SyncTypeOK
  <2>3. \A q \in Pollers \ {p} : SamePoll(q)
    BY <1>2, <2>1 DEF SamePoll, TypeInv, SyncTypeOK
  <2>4. SyncTypeOK'
    BY <1>2, <2>1, <2>2 DEF TypeInv, SyncTypeOK
  <2>5. PollFits(p)'
    BY <1>2, <2>1 DEF TypeInv, SyncTypeOK, PollFits, Fetched
  <2> QED
    BY <2>1, <2>3, <2>4, <2>5, OnePollMoves
<1> QED
  BY <1>1, <1>2 DEF PollFetches

LEMMA WalkTypes ==
  ASSUME TypeInv, NEW p \in Pollers, NEW u \in updates[p], WalkPast(p, u), ppc[p] # "idle",
         SameTransmissions, StoreTypeOK'
  PROVE  TypeInv'
<1>1. ASSUME NEW q \in Pollers \ {p}
      PROVE  SamePoll(q)
  BY DEF WalkPast, SamePoll, TypeInv, SyncTypeOK
<1>2. PollFits(p)'
  BY WalkTyped DEF TypeInv, PollFits
<1>3. \A q \in Pollers \ {p} : PollFits(q)'
  BY <1>1, WalkTyped, PollStands
<1>4. RowsFit' /\ FeedFits' /\ SyncTypeOK'
  BY RowsFitStay, WalkTyped DEF TypeInv, FeedFits
<1> QED
  BY <1>2, <1>3, <1>4 DEF TypeInv

LEMMA MatchTypes ==
  ASSUME TypeInv, NEW p \in Pollers, NEW u \in updates[p], NEW r \in DOMAIN rows,
         MatchUpdate(p, u, r)
  PROVE  TypeInv'
<1>1. [row |-> r, state |-> rows[r].state, update |-> u] \in Match
  BY DEF Match, TypeInv, StoreTypeOK, SyncTypeOK, TransmissionRow
<1>2. \A q \in Pollers \ {p} : SamePoll(q)
  BY DEF MatchUpdate, SamePoll, TypeInv, SyncTypeOK
<1>3. SyncTypeOK'
  BY <1>1 DEF MatchUpdate, TypeInv, SyncTypeOK
<1>4. PollFits(p)'
  <2>1. /\ ppc[p] # "idle" /\ pconn' = pconn /\ updates' = updates /\ rows' = rows /\ feed' = feed
        /\ matched'[p] = [row |-> r, state |-> rows[r].state, update |-> u] /\ ppc'[p] = "apply"
        /\ MatchesUpdate(r, u) /\ IsNext(p, u)
    BY DEF MatchUpdate, TypeInv, SyncTypeOK, storeVars
  <2>2. matched'[p].row = r /\ matched'[p].update = u
    BY <2>1
  <2>3. \A v \in updates[p] : v \in feed /\ v.conn = pconn[p]
    BY DEF TypeInv, PollFits
  <2>4. pconn[p] \in Connections
    BY <2>1 DEF TypeInv, PollFits
  <2> QED
    BY <1>1, <2>1, <2>2, <2>3, <2>4 DEF PollFits, MatchesUpdate, IsNext
<1> QED
  BY <1>2, <1>3, <1>4, OnePollMoves DEF MatchUpdate

LEMMA BeginTypes ==
  ASSUME TypeInv, NEW p \in Pollers, ApplyBegins(p)
  PROVE  TypeInv'
<1>1. \A q \in Pollers \ {p} : SamePoll(q)
  BY DEF ApplyBegins, SamePoll, TypeInv, SyncTypeOK
<1>2. InvoiceInHand(p) \in Invoices /\ invoiceState[InvoiceInHand(p)] \in InvoiceStates
  BY PendingIsOwn DEF ApplyBegins, InvoiceInHand, TypeInv, StoreTypeOK
<1>3. SyncTypeOK'
  BY <1>2 DEF ApplyBegins, TypeInv, SyncTypeOK
<1>4. PollFits(p)'
  BY <1>2 DEF ApplyBegins, TypeInv, SyncTypeOK, PollFits, MatchesUpdate, IsNext, storeVars
<1> QED
  BY <1>1, <1>3, <1>4, OnePollMoves DEF ApplyBegins

(* A status moves an invoice to a state and leaves its transmission what it was. *)
LEMMA AdvanceTyped ==
  ASSUME NEW state \in InvoiceStates, NEW code
  PROVE  advanceState(state, code) \in InvoiceStates
BY DEF advanceState, isLifecycleCode, KNOWN_CODES, LIFECYCLE_DEFINITIONS, InvoiceStates

LEMMA RowAfterTyped ==
  ASSUME NEW row \in TransmissionRow, NEW state, NEW code
  PROVE  /\ RowAfter(row, state, code) \in TransmissionRow
         /\ RowAfter(row, state, code).invoice = row.invoice
         /\ RowAfter(row, state, code).key = row.key
         /\ RowAfter(row, state, code).conn = row.conn
         /\ RowAfter(row, state, code).externalId = row.externalId
BY DEF RowAfter, TransmissionRow, TransmissionStates

LEMMA CommitTypes ==
  ASSUME TypeInv, NEW p \in Pollers, ApplyCommits(p)
  PROVE  TypeInv' /\ SameTransmissions
<1> DEFINE m == matched[p]
<1>1. /\ ppc[p] = "commit" /\ WalkPast(p, m.update) /\ UNCHANGED <<active, held>>
      /\ timeline' = timeline \cup {PendingStatus(p)}
      /\ rows' = [rows EXCEPT ![m.row] = RowAfter(rows[m.row], m.state, m.update.code)]
  BY DEF ApplyCommits
<1>2. m.row \in DOMAIN rows /\ m.update \in updates[p] /\ m.update \in StatusUpdate
  BY <1>1 DEF TypeInv, PollFits, IsNext, Match
<1>3. rows[m.row] \in TransmissionRow
  BY <1>2 DEF TypeInv, StoreTypeOK
<1>4. SameTransmissions
  BY <1>1, <1>2, <1>3, RowAfterTyped DEF SameTransmissions
<1>5. invoiceState' \in [Invoices -> InvoiceStates]
  <2>1. seen[p] \in InvoiceStates
    BY <1>1 DEF TypeInv, PollFits
  <2> QED
    BY <1>1, <2>1, AdvanceTyped DEF ApplyCommits, TypeInv, StoreTypeOK
<1>6. PendingStatus(p) \in [invoice : Invoices, code : PLATFORM_CODES \cup INTERNAL_CODES, at : Nat]
  BY <1>2, <1>3, FeedAssumption DEF PendingStatus, InvoiceInHand, Status, TransmissionRow, StatusUpdate
<1>7. rows' \in [DOMAIN rows' -> TransmissionRow] /\ DOMAIN rows' = DOMAIN rows
  BY <1>1, <1>2, <1>3, RowAfterTyped DEF TypeInv, StoreTypeOK
<1>8. StoreTypeOK'
  BY <1>1, <1>5, <1>6, <1>7 DEF TypeInv, StoreTypeOK
<1> QED
  BY <1>1, <1>2, <1>4, <1>8, WalkTypes

LEMMA TypeSteps == TypeInv /\ [SyncNext]_svars => TypeInv' /\ SameTransmissions
<1> SUFFICES ASSUME TypeInv, [SyncNext]_svars
             PROVE  TypeInv' /\ SameTransmissions
  OBVIOUS
<1>0. UNCHANGED rows => SameTransmissions
  BY DEF SameTransmissions
<1>1. ASSUME NEW c \in Connections, NEW k \in Keys, NEW code \in FeedCodes, NEW at \in 1..MaxAt,
             PlatformReports(c, k, code, at)
      PROVE  TypeInv' /\ SameTransmissions
  BY <1>0, <1>1, ReportTypes DEF PlatformReports, storeVars
<1>2. ASSUME NEW p \in Pollers, NEW c \in Connections, PollStarts(p, c) \/ receive(p, c)
      PROVE  TypeInv' /\ SameTransmissions
  BY <1>0, <1>2, StartTypes DEF PollStarts, receive, ReadsConnection, storeVars
<1>3. ASSUME NEW p \in Pollers, PollFetches(p)
      PROVE  TypeInv' /\ SameTransmissions
  BY <1>0, <1>3, FetchTypes DEF PollFetches, storeVars
<1>4. ASSUME NEW p \in Pollers, NEW u \in updates[p], DropUnmatched(p, u)
      PROVE  TypeInv' /\ SameTransmissions
  <2>1. WalkPast(p, u) /\ UNCHANGED <<storeVars, held>> /\ ppc[p] # "idle"
    BY <1>4 DEF DropUnmatched
  <2>2. StoreTypeOK' /\ SameTransmissions
    BY <2>1, <1>0 DEF TypeInv, StoreTypeOK, storeVars
  <2> QED
    BY <2>1, <2>2, WalkTypes
<1>5. ASSUME NEW p \in Pollers, NEW u \in updates[p], NEW r \in DOMAIN rows, MatchUpdate(p, u, r)
      PROVE  TypeInv' /\ SameTransmissions
  BY <1>0, <1>5, MatchTypes DEF MatchUpdate, storeVars
<1>6. ASSUME NEW p \in Pollers, SkipDuplicate(p)
      PROVE  TypeInv' /\ SameTransmissions
  <2>1. WalkPast(p, matched[p].update) /\ UNCHANGED <<storeVars, held>> /\ ppc[p] # "idle"
    BY <1>6 DEF SkipDuplicate
  <2>2. StoreTypeOK' /\ SameTransmissions
    BY <2>1, <1>0 DEF TypeInv, StoreTypeOK, storeVars
  <2>3. matched[p].update \in updates[p]
    BY <1>6 DEF SkipDuplicate, TypeInv, PollFits, IsNext
  <2> QED
    BY <2>1, <2>2, <2>3, WalkTypes
<1>7. ASSUME NEW p \in Pollers, ApplyBegins(p)
      PROVE  TypeInv' /\ SameTransmissions
  BY <1>0, <1>7, BeginTypes DEF ApplyBegins, storeVars
<1>8. ASSUME NEW p \in Pollers, ApplyCommits(p)
      PROVE  TypeInv' /\ SameTransmissions
  BY <1>8, CommitTypes
<1>9. ASSUME NEW p \in Pollers, WriteCursor(p)
      PROVE  TypeInv' /\ SameTransmissions
  <2>1. cursor' \in [Connections -> 0..MaxAt] /\ PollEnds(p)
        /\ UNCHANGED <<feed, contended, pollFaults, storeVars, held>>
    BY <1>9 DEF WriteCursor, TypeInv, SyncTypeOK
  <2>2. pollFaults' \in 0..MaxPollFaults
    BY <2>1 DEF TypeInv, SyncTypeOK
  <2> QED
    BY <2>1, <2>2, <1>0, EndTypes DEF storeVars
<1>10. ASSUME NEW p \in Pollers, PollFails(p)
       PROVE  TypeInv' /\ SameTransmissions
  <2>1. PollEnds(p) /\ UNCHANGED <<feed, cursor, contended, storeVars, held>>
    BY <1>10 DEF PollFails
  <2>2. pollFaults' \in 0..MaxPollFaults /\ cursor' \in [Connections -> 0..MaxAt]
    BY <1>10, FeedAssumption DEF PollFails, TypeInv, SyncTypeOK
  <2> QED
    BY <2>1, <2>2, <1>0, EndTypes DEF storeVars
<1>11. ASSUME UNCHANGED svars \/ \E p \in Pollers : PollNothing(p)
       PROVE  TypeInv' /\ SameTransmissions
  <2>1. UNCHANGED svars
    BY <1>11 DEF PollNothing, svars
  <2>2. SameTransmissions /\ feed' = feed /\ \A p \in Pollers : SamePoll(p)
    BY <2>1, <1>0 DEF svars, storeVars, syncVars, pollVars, SamePoll
  <2>3. \A p \in Pollers : PollFits(p)'
    BY <2>2, PollStands
  <2> QED
    BY <2>1, <2>2, <2>3 DEF svars, storeVars, syncVars, pollVars, TypeInv, StoreTypeOK, SyncTypeOK,
                            RowsFit, FeedFits
<1> QED
  BY <1>1, <1>2, <1>3, <1>4, <1>5, <1>6, <1>7, <1>8, <1>9, <1>10, <1>11 DEF SyncNext, PollStep

(* Whatever the poller does, its tables and its own state keep their types. *)
THEOREM SyncTyped ==
  ASSUME RowsSuffice
  PROVE  SyncSpec => []TypeInv
<1>1. HandedOverInit => TypeInv
  BY HandedOverTypes
<1> QED
  BY <1>1, TypeSteps, PTL DEF SyncSpec

---------------------------------------------------------------------------
(* What a timeline says has been reported *)

(* Only a transaction of applyStatus touches the tables. *)
LEMMA TablesStand ==
  ASSUME [SyncNext]_svars, ~\E p \in Pollers : ApplyCommits(p)
  PROVE  UNCHANGED <<storeVars, held>>
BY DEF SyncNext, PollStep, PlatformReports, PollStarts, receive, ReadsConnection, PollNothing,
       PollFetches, DropUnmatched, MatchUpdate, SkipDuplicate, ApplyBegins, WriteCursor, PollFails,
       svars

LEMMA FeedGrows ==
  ASSUME [SyncNext]_svars
  PROVE  feed \subseteq feed'
BY DEF SyncNext, PollStep, PlatformReports, PollStarts, receive, ReadsConnection, PollNothing,
       PollFetches, DropUnmatched, MatchUpdate, SkipDuplicate, ApplyBegins, ApplyCommits, WalkPast,
       WriteCursor, PollFails, svars, syncVars

LEMMA AttributedSteps ==
  ASSUME TypeInv, NothingMisattributed, [SyncNext]_svars
  PROVE  NothingMisattributed'
<1>1. feed \subseteq feed'
  BY FeedGrows
<1>2. CASE ~\E p \in Pollers : ApplyCommits(p)
  BY <1>1, <1>2, TablesStand DEF NothingMisattributed, storeVars, transmissionKey
<1>3. ASSUME NEW p \in Pollers, ApplyCommits(p)
      PROVE  NothingMisattributed'
  <2>1. timeline' = timeline \cup {PendingStatus(p)} /\ ppc[p] = "commit"
    BY <1>3 DEF ApplyCommits
  <2> DEFINE r == matched[p].row
             u == matched[p].update
  <2>2. u \in feed /\ r \in DOMAIN rows /\ MatchesUpdate(r, u)
    BY <2>1 DEF TypeInv, PollFits, IsNext
  <2>3. transmissionKey(rows[r].invoice) = u.key
    BY <2>2, MatchIsOwn DEF TypeInv, RowsFit
  <2>4. /\ PendingStatus(p).code = u.code /\ PendingStatus(p).at = u.at
        /\ PendingStatus(p).invoice = rows[r].invoice
    BY DEF PendingStatus, InvoiceInHand, Status
  <2>5. ASSUME NEW s \in timeline', s.at > ACCEPTED_AT
        PROVE  \E v \in feed' : transmissionKey(s.invoice) = v.key /\ s.code = v.code /\ s.at = v.at
    <3>1. CASE s \in timeline
      BY <1>1, <2>5, <3>1 DEF NothingMisattributed
    <3>2. CASE s = PendingStatus(p)
      BY <1>1, <2>2, <2>3, <2>4, <3>2
    <3> QED
      BY <2>1, <3>1, <3>2
  <2> QED
    BY <2>5 DEF NothingMisattributed, transmissionKey
<1> QED
  BY <1>2, <1>3

(* A status is never attached to the wrong invoice, though identifiers are unique on *)
(* one platform only (the transmission is looked up by both in pollStatuses).        *)
THEOREM Attributed ==
  ASSUME RowsSuffice
  PROVE  SyncSpec => []NothingMisattributed
<1>1. ASSUME HandedOverInit
      PROVE  NothingMisattributed
  <2>1. \A s \in timeline : s.at = 0
    BY <1>1 DEF HandedOverInit, HandedOver, Status, ACCEPTED_AT
  <2> QED
    BY <2>1 DEF NothingMisattributed, ACCEPTED_AT
<1>2. TypeInv /\ NothingMisattributed /\ [SyncNext]_svars => NothingMisattributed'
  BY AttributedSteps
<1> QED
  BY <1>1, <1>2, SyncTyped, PTL DEF SyncSpec

---------------------------------------------------------------------------
(* The cursor lags *)

LEMMA KeptStays ==
  ASSUME timeline \subseteq timeline', NEW u, Kept(u)
  PROVE  Kept(u)'
BY DEF Kept, OutOfTurn, OnTimeline, InvoiceOf, transmissionKey

LEMMA CoverStands ==
  ASSUME CursorInv, UNCHANGED feed, timeline \subseteq timeline',
         NEW q \in Pollers, ppc'[q] = "idle" => ppc[q] = "idle",
         pconn'[q] = pconn[q], since'[q] = since[q], updates'[q] = updates[q],
         watermark'[q] = watermark[q]
  PROVE  PollCovers(q)'
BY KeptStays DEF CursorInv, PollCovers, Covered, Reported

LEMMA CursorStands ==
  ASSUME CursorInv, UNCHANGED feed, timeline \subseteq timeline',
         NEW c \in Connections, cursor'[c] = cursor[c]
  PROVE  Reported(c, cursor[c])' /\ Covered(c, cursor[c])'
BY KeptStays DEF CursorInv, Covered, Reported

LEMMA RecordsStand ==
  ASSUME CursorInv, SameTransmissions, UNCHANGED feed
  PROVE  FeedRecorded'
BY RecordedStays DEF CursorInv, FeedRecorded

(* A poll moves: the others stand, and so do the cursors but for its own. *)
LEMMA OneCovers ==
  ASSUME TypeInv, CursorInv, SameTransmissions, UNCHANGED feed, timeline \subseteq timeline',
         NEW p \in Pollers, UNCHANGED cursor,
         PollStep(p) \/ PollFails(p) \/ \E c \in Connections : receive(p, c),
         PollCovers(p)'
  PROVE  CursorInv'
<1>1. \A q \in Pollers \ {p} : PollCovers(q)'
  BY PollsApart, CoverStands DEF SamePoll
<1>2. \A c \in Connections : Reported(c, cursor[c])' /\ Covered(c, cursor[c])'
  BY CursorStands
<1> QED
  BY <1>1, <1>2, RecordsStand DEF CursorInv

LEMMA EndCovers ==
  ASSUME TypeInv, TypeInv', NEW p \in Pollers, PollEnds(p)
  PROVE  PollCovers(p)'
<1>1. /\ ppc'[p] = "idle" /\ updates'[p] = {} /\ watermark'[p] = 0 /\ since'[p] = 0
  BY DEF PollEnds, TypeInv, SyncTypeOK
<1>2. \A u \in feed' : u.at \in Nat /\ u.at > 0
  BY FeedAssumption DEF TypeInv, SyncTypeOK, StatusUpdate
<1> QED
  BY <1>1, <1>2 DEF PollCovers, Covered, Reported

(* What is reported is late, or later than all that was, on the same platform. *)
LEMMA ReportCovers ==
  ASSUME TypeInv, CursorInv,
         NEW c \in Connections, NEW k \in Keys, NEW code \in FeedCodes, NEW at \in 1..MaxAt,
         PlatformReports(c, k, code, at)
  PROVE  CursorInv'
<1>r. PICK late \in BOOLEAN, early \in BOOLEAN :
        /\ feed' = feed \cup {[conn |-> c, externalId |-> ExternalIdOf[<<c, k>>], key |-> k,
                               code |-> code, at |-> at, late |-> late, early |-> early]}
        /\ UNCHANGED <<storeVars, held, cursor, pollVars, contended, pollFaults>>
        /\ \A u \in feed : u.conn = c => u.at # at
        /\ ~late => \A u \in feed : u.conn = c => ~(u.at > at)
        /\ ~early => Recorded(c, k)
  BY ReportFlags
<1> DEFINE new == [conn |-> c, externalId |-> ExternalIdOf[<<c, k>>], key |-> k,
                   code |-> code, at |-> at, late |-> late, early |-> early]
<1>1. feed' = feed \cup {new} /\ UNCHANGED <<storeVars, held, cursor, pollVars, pollFaults>>
  BY <1>r
<1>2. SameTransmissions /\ timeline' = timeline
  BY <1>1 DEF SameTransmissions, storeVars
<1>3. \A u \in feed : Kept(u) => Kept(u)'
  BY <1>2, KeptStays
<1>4. /\ at \in Nat /\ at > 0 /\ new.conn = c /\ new.at = at /\ new.key = k
      /\ new.late = late /\ new.early = early /\ \A u \in feed : u.at \in Nat
  BY FeedAssumption DEF TypeInv, SyncTypeOK, StatusUpdate
<1>k. ASSUME NEW v \in feed, v.conn = c, at <= v.at
      PROVE  Kept(new)'
  <2>1. v.at # at /\ v.at \in Nat
    BY <1>r, <1>k, <1>4
  <2>2. late
    BY <1>r, <1>k, <1>4, <2>1
  <2> QED
    BY <1>4, <2>2 DEF Kept, OutOfTurn
<1>f. FeedRecorded'
  <2>1. \A u \in feed : ~u.early => Recorded(u.conn, u.key)'
    BY <1>2, RecordedStays DEF CursorInv, FeedRecorded
  <2>2. ~new.early => Recorded(new.conn, new.key)'
    BY <1>r, <1>2, <1>4, RecordedStays
  <2> HIDE DEF new
  <2> QED
    BY <1>1, <2>1, <2>2 DEF FeedRecorded
<1> HIDE DEF new
<1>5. ASSUME NEW d, NEW t \in Nat, Reported(d, t), Covered(d, t)
      PROVE  /\ t = 0 \/ \E u \in feed' : u.conn = d /\ u.at = t
             /\ \A u \in feed' : u.conn = d /\ u.at <= t => Kept(u)'
  <2>1. t = 0 \/ \E u \in feed' : u.conn = d /\ u.at = t
    BY <1>1, <1>5 DEF Reported
  <2>2. ASSUME NEW u \in feed', u.conn = d, u.at <= t
        PROVE  Kept(u)'
    <3>1. CASE u \in feed
      BY <1>3, <1>5, <2>2, <3>1 DEF Covered
    <3>2. CASE u = new
      <4>1. \E v \in feed : v.conn = c /\ at <= v.at
        BY <1>4, <1>5, <2>2, <3>2 DEF Reported
      <4> QED
        BY <1>k, <3>2, <4>1
    <3> QED
      BY <1>1, <3>1, <3>2
  <2> QED
    BY <2>1, <2>2
<1>6. \A q \in Pollers : since[q] \in Nat /\ watermark[q] \in Nat
  BY FeedAssumption DEF TypeInv, SyncTypeOK
<1>7. \A d \in Connections : cursor[d] \in Nat
  BY FeedAssumption DEF TypeInv, SyncTypeOK
<1>8. ASSUME NEW d \in Connections
      PROVE  Reported(d, cursor[d])' /\ Covered(d, cursor[d])'
  BY <1>1, <1>5, <1>7 DEF CursorInv, Reported, Covered
<1>9. ASSUME NEW q \in Pollers
      PROVE  PollCovers(q)'
  <2>1. /\ ppc' = ppc /\ pconn' = pconn /\ since' = since /\ updates' = updates
        /\ watermark' = watermark
    BY <1>1 DEF pollVars
  <2>2. \A v \in updates[q] : v \in feed /\ v.conn = pconn[q]
    BY DEF TypeInv, PollFits
  <2>3. \A v \in updates[q], u \in feed' :
          u.conn = pconn[q] /\ u.at <= v.at => u \in updates[q] \/ Kept(u)'
    <3> SUFFICES ASSUME NEW v \in updates[q], NEW u \in feed', u.conn = pconn[q], u.at <= v.at,
                        u \notin updates[q]
                 PROVE  Kept(u)'
      OBVIOUS
    <3>1. CASE u \in feed
      BY <1>3, <3>1 DEF CursorInv, PollCovers
    <3>2. CASE u = new
      BY <1>4, <1>k, <2>2, <3>2
    <3> QED
      BY <1>1, <3>1, <3>2
  <2>4. PollCovers(q)
    BY DEF CursorInv
  <2> QED
    BY <2>1, <2>3, <2>4, <1>5, <1>6 DEF PollCovers, Reported, Covered
<1> QED
  BY <1>8, <1>9, <1>f DEF CursorInv

LEMMA StartCovers ==
  ASSUME TypeInv, CursorInv, NEW p \in Pollers, NEW c \in Connections, ReadsConnection(p, c)
  PROVE  CursorInv'
<1>1. /\ UNCHANGED <<feed, cursor, storeVars>> /\ pconn'[p] = c /\ since'[p] = cursor[c]
      /\ updates'[p] = {} /\ watermark'[p] = 0 /\ ppc'[p] # "idle"
  BY DEF ReadsConnection, TypeInv, SyncTypeOK, CursorInv, PollCovers
<1>2. SameTransmissions /\ timeline \subseteq timeline'
  BY <1>1 DEF SameTransmissions, storeVars
<1>3. \A u \in feed : Kept(u) => Kept(u)'
  BY <1>2, KeptStays
<1>4. \A u \in feed : u.at \in Nat /\ u.at > 0
  BY FeedAssumption DEF TypeInv, SyncTypeOK, StatusUpdate
<1>5. PollCovers(p)'
  BY <1>1, <1>3, <1>4 DEF PollCovers, CursorInv, Covered, Reported
<1> QED
  BY <1>1, <1>2, <1>5, OneCovers DEF receive

LEMMA FetchCovers ==
  ASSUME TypeInv, TypeInv', CursorInv, NEW p \in Pollers, PollFetches(p)
  PROVE  CursorInv'
<1>1. UNCHANGED <<feed, cursor, storeVars>> /\ SameTransmissions /\ timeline \subseteq timeline'
  BY DEF PollFetches, SameTransmissions, storeVars
<1>2. CASE PollEnds(p)
  BY <1>1, <1>2, EndCovers, OneCovers DEF PollStep
<1>3. CASE /\ ppc' = [ppc EXCEPT ![p] = "match"]
           /\ updates' = [updates EXCEPT ![p] = Fetched(p)]
           /\ UNCHANGED <<pconn, since, matched, seen, watermark>>
  <2>1. \A u \in feed : Kept(u) => Kept(u)'
    BY <1>1, KeptStays
  <2>2. since[p] \in Nat /\ \A u \in feed : u.at \in Nat
    BY FeedAssumption DEF TypeInv, SyncTypeOK, StatusUpdate
  <2>3. \A u \in feed : u.conn = pconn[p] => u \in Fetched(p) \/ Kept(u)
    BY <2>2 DEF CursorInv, PollCovers, Covered, Fetched
  <2>4. /\ updates'[p] = Fetched(p) /\ ppc'[p] # "idle" /\ pconn' = pconn /\ since' = since
        /\ watermark' = watermark
    BY <1>3 DEF TypeInv, SyncTypeOK
  <2>5. PollCovers(p)'
    BY <1>1, <2>1, <2>3, <2>4 DEF CursorInv, PollCovers, Covered, Reported
  <2> QED
    BY <1>1, <2>5, OneCovers DEF PollStep
<1> QED
  BY <1>2, <1>3 DEF PollFetches

(* Walking past a report leaves it on the timeline, or it came out of turn. *)
LEMMA WalkCovers ==
  ASSUME TypeInv, CursorInv, NEW p \in Pollers, NEW u \in updates[p], WalkPast(p, u), IsNext(p, u),
         timeline \subseteq timeline', Kept(u)'
  PROVE  PollCovers(p)'
<1>1. /\ pconn'[p] = pconn[p] /\ since'[p] = since[p] /\ updates'[p] = updates[p] \ {u}
      /\ watermark'[p] = u.at /\ feed' = feed /\ ppc'[p] # "idle"
  BY WalkTyped
<1>2. \A w \in feed : Kept(w) => Kept(w)'
  BY KeptStays
<1>3. u \in feed /\ u.conn = pconn[p] /\ \A v \in updates[p] : v \in feed /\ v.conn = pconn[p]
  BY DEF TypeInv, PollFits
<1>4. \A w \in feed : w.at \in Nat
  BY FeedAssumption DEF TypeInv, SyncTypeOK, StatusUpdate
<1>5. ASSUME NEW w \in feed, w.conn = pconn[p], w.at <= u.at
      PROVE  Kept(w)'
  <2>1. CASE w \in updates[p]
    <3>1. w.at = u.at
      BY <1>4, <1>5, <1>3, <2>1 DEF IsNext
    <3> QED
      BY <3>1, <1>3, <1>5 DEF TypeInv, FeedFits
  <2>2. CASE w \notin updates[p]
    BY <1>2, <1>5, <2>2 DEF CursorInv, PollCovers
  <2> QED
    BY <2>1, <2>2
<1>6. \A v \in updates'[p], w \in feed :
        w.conn = pconn[p] /\ w.at <= v.at => w \in updates'[p] \/ Kept(w)'
  BY <1>1, <1>2 DEF CursorInv, PollCovers
<1>7. Reported(pconn[p], since[p]) /\ Covered(pconn[p], since[p])
  BY DEF CursorInv, PollCovers
<1> QED
  BY <1>1, <1>2, <1>3, <1>5, <1>6, <1>7 DEF PollCovers, Covered, Reported

LEMMA TimelineGrows ==
  ASSUME [SyncNext]_svars
  PROVE  timeline \subseteq timeline'
<1>1. CASE ~\E p \in Pollers : ApplyCommits(p)
  BY <1>1, TablesStand DEF storeVars
<1>2. CASE \E p \in Pollers : ApplyCommits(p)
  BY <1>2 DEF ApplyCommits
<1> QED
  BY <1>1, <1>2

LEMMA CursorSteps ==
  TypeInv /\ TypeInv' /\ CursorInv /\ [SyncNext]_svars => CursorInv'
<1> SUFFICES ASSUME TypeInv, TypeInv', CursorInv, [SyncNext]_svars
             PROVE  CursorInv'
  OBVIOUS
<1>1. SameTransmissions /\ timeline \subseteq timeline'
  BY TypeSteps, TimelineGrows
<1>2. ASSUME NEW c \in Connections, NEW k \in Keys, NEW code \in FeedCodes, NEW at \in 1..MaxAt,
             PlatformReports(c, k, code, at)
      PROVE  CursorInv'
  BY <1>2, ReportCovers
<1>3. ASSUME NEW p \in Pollers, NEW c \in Connections, PollStarts(p, c) \/ receive(p, c)
      PROVE  CursorInv'
  BY <1>3, StartCovers DEF PollStarts, receive
<1>4. ASSUME NEW p \in Pollers, PollFetches(p)
      PROVE  CursorInv'
  BY <1>4, FetchCovers
<1>5. ASSUME NEW p \in Pollers, NEW u \in updates[p], DropUnmatched(p, u)
      PROVE  CursorInv'
  <2>1. u \in feed /\ WalkPast(p, u) /\ IsNext(p, u) /\ UNCHANGED <<feed, cursor>>
    BY <1>5 DEF DropUnmatched, TypeInv, PollFits, WalkPast
  <2>2. ~Recorded(u.conn, u.key)
    BY <1>5, <2>1, UnmatchedUnrecorded DEF DropUnmatched
  <2>3. u.early
    BY <2>1, <2>2 DEF CursorInv, FeedRecorded
  <2>4. Kept(u)'
    BY <2>3 DEF Kept, OutOfTurn
  <2> QED
    BY <1>1, <1>5, <2>1, <2>4, WalkCovers, OneCovers DEF PollStep
<1>6. ASSUME NEW p \in Pollers, SkipDuplicate(p) \/ ApplyCommits(p)
      PROVE  CursorInv'
  <2> PICK u : u = matched[p].update
    OBVIOUS
  <2>1. /\ ppc[p] \in {"apply", "commit"} /\ WalkPast(p, u) /\ UNCHANGED <<feed, cursor>>
        /\ PendingStatus(p) \in timeline'
    BY <1>6 DEF SkipDuplicate, ApplyCommits, WalkPast, storeVars
  <2>2. IsNext(p, u) /\ u \in updates[p] /\ u \in feed
    BY <2>1 DEF TypeInv, PollFits, IsNext
  <2>3. PendingStatus(p) = Status(InvoiceOf(u.key), u.code, u.at)
    BY <2>1, PendingIsOwn DEF PendingStatus, InvoiceInHand
  <2>4. Kept(u)'
    BY <2>1, <2>3 DEF Kept, OnTimeline, Status, InvoiceOf, transmissionKey
  <2>5. PollCovers(p)'
    BY <1>1, <2>1, <2>2, <2>4, WalkCovers
  <2> QED
    BY <1>1, <1>6, <2>1, <2>5, OneCovers DEF PollStep
<1>7. ASSUME NEW p \in Pollers,
             \/ ApplyBegins(p)
             \/ \E u \in updates[p] : \E r \in DOMAIN rows : MatchUpdate(p, u, r)
      PROVE  CursorInv'
  <2>1. /\ UNCHANGED <<feed, cursor, pconn, since, updates, watermark>> /\ ppc[p] # "idle"
        /\ ppc'[p] # "idle"
    BY <1>7 DEF ApplyBegins, MatchUpdate, TypeInv, SyncTypeOK
  <2>2. PollCovers(p)'
    BY <1>1, <2>1, CoverStands
  <2> QED
    BY <1>1, <1>7, <2>1, <2>2, OneCovers DEF PollStep
<1>8. ASSUME NEW p \in Pollers, WriteCursor(p)
      PROVE  CursorInv'
  <2>1. /\ UNCHANGED feed /\ PollEnds(p)
        /\ cursor' = [cursor EXCEPT ![pconn[p]] = watermark[p]]
    BY <1>8 DEF WriteCursor
  <2>2. \A q \in Pollers \ {p} : PollCovers(q)'
    BY <1>1, <1>8, <2>1, PollsApart, CoverStands DEF SamePoll, PollStep
  <2>3. PollCovers(p)'
    BY <2>1, EndCovers
  <2>4. ASSUME NEW c \in Connections
        PROVE  Reported(c, cursor[c])' /\ Covered(c, cursor[c])'
    <3>1. CASE c = pconn[p]
      <4>1. cursor'[c] = watermark[p]
        BY <2>1, <3>1 DEF TypeInv, SyncTypeOK
      <4>2. Reported(c, watermark[p]) /\ Covered(c, watermark[p])
        BY <3>1 DEF CursorInv, PollCovers
      <4>3. \A u \in feed : Kept(u) => Kept(u)'
        BY <1>1, KeptStays
      <4> QED
        BY <2>1, <4>1, <4>2, <4>3 DEF Reported, Covered
    <3>2. CASE c # pconn[p]
      <4>1. cursor'[c] = cursor[c]
        BY <2>1, <3>2 DEF TypeInv, SyncTypeOK
      <4> QED
        BY <1>1, <2>1, <4>1, CursorStands
    <3> QED
      BY <3>1, <3>2
  <2> QED
    BY <1>1, <2>1, <2>2, <2>3, <2>4, RecordsStand DEF CursorInv
<1>9. ASSUME NEW p \in Pollers, PollFails(p)
      PROVE  CursorInv'
  <2>1. UNCHANGED <<feed, cursor>> /\ PollEnds(p)
    BY <1>9 DEF PollFails
  <2>2. PollCovers(p)'
    BY <2>1, EndCovers
  <2> QED
    BY <1>1, <1>9, <2>1, <2>2, OneCovers
<1>10. ASSUME UNCHANGED svars \/ \E p \in Pollers : PollNothing(p)
       PROVE  CursorInv'
  <2>1. UNCHANGED <<feed, cursor, ppc, pconn, since, updates, watermark>>
    BY <1>10 DEF PollNothing, svars, syncVars, pollVars
  <2> QED
    BY <1>1, <2>1, CoverStands, CursorStands, RecordsStand DEF CursorInv
<1> QED
  BY <1>2, <1>3, <1>4, <1>5, <1>6, <1>7, <1>8, <1>9, <1>10 DEF SyncNext, PollStep

(* What a poll covers, the cursor does not skip. *)
LEMMA CoveredIsKept ==
  ASSUME CursorInv, \A u \in feed : u.conn \in Connections
  PROVE  CursorSkipsNothing
BY DEF CursorInv, Covered, Kept, CursorSkipsNothing

(* The cursor may lag and never leads: what is reported in turn up to it is on the *)
(* timelines, whatever polls overlap or fail (the watermark of pollStatuses), and   *)
(* whatever else the platforms report, and when.                                    *)
THEOREM CursorLags ==
  ASSUME RowsSuffice
  PROVE  SyncSpec => []CursorSkipsNothing
<1>1. HandedOverInit => CursorInv
  BY DEF HandedOverInit, SyncInit, CursorInv, FeedRecorded, PollCovers, Covered, Reported
<1>2. CursorInv /\ TypeInv => CursorSkipsNothing
  BY CoveredIsKept DEF TypeInv, SyncTypeOK, StatusUpdate
<1>3. TypeInv /\ TypeInv' /\ CursorInv /\ [SyncNext]_svars => CursorInv'
  BY CursorSteps
<1> QED
  BY <1>1, <1>2, <1>3, SyncTyped, PTL DEF SyncSpec

---------------------------------------------------------------------------
(* The furthest point reached *)

(* Of two polls with updates of one invoice in hand, the one with the later has left *)
(* the earlier on the timeline, or the earlier came out of turn.                     *)
LEMMA EarlierFirst ==
  ASSUME TypeInv, CursorInv, NEW p \in Pollers, NEW q \in Pollers,
         ppc[p] \in {"apply", "commit"}, ppc[q] \in {"apply", "commit"},
         InvoiceInHand(p) = InvoiceInHand(q),
         matched[p].update.at <= matched[q].update.at,
         PendingStatus(p) \notin timeline, PendingStatus(p) # PendingStatus(q)
  PROVE  OutOfTurn(matched[p].update)
<1> DEFINE u == matched[p].update
           v == matched[q].update
<1>1. /\ matched[p].row \in DOMAIN rows /\ MatchesUpdate(matched[p].row, u)
      /\ matched[q].row \in DOMAIN rows /\ MatchesUpdate(matched[q].row, v)
      /\ u \in feed /\ v \in feed /\ v \in updates[q] /\ v.conn = pconn[q] /\ IsNext(q, v)
  BY DEF TypeInv, PollFits, IsNext
<1>2. matched[p].row = matched[q].row
  BY <1>1 DEF InvoiceInHand, TypeInv, RowsFit
<1>3. u.conn = pconn[q]
  BY <1>1, <1>2 DEF MatchesUpdate
<1>4. u \in updates[q] \/ Kept(u)
  BY <1>1, <1>3 DEF CursorInv, PollCovers
<1>5. CASE Kept(u)
  BY <1>5, PendingIsOwn DEF Kept
<1>6. CASE u \in updates[q]
  <2>1. u.at \in Nat /\ v.at \in Nat /\ v.at <= u.at
    BY <1>1, <1>6, FeedAssumption DEF IsNext, TypeInv, SyncTypeOK, StatusUpdate
  <2>2. u = v
    BY <1>1, <1>3, <2>1 DEF TypeInv, FeedFits
  <2> QED
    BY <1>2, <2>2 DEF PendingStatus, InvoiceInHand
<1> QED
  BY <1>4, <1>5, <1>6

LEMMA AdvanceReaches ==
  ASSUME NEW state \in InvoiceStates, NEW code
  PROVE  /\ Reach(code) <= STATE_RANK[advanceState(state, code)]
         /\ STATE_RANK[state] <= STATE_RANK[advanceState(state, code)]
         /\ STATE_RANK[state] \in Nat /\ Reach(code) \in Nat
<1>1. code \in KNOWN_CODES => LIFECYCLE_DEFINITIONS[code] \in InvoiceStates \cup {"NULL"}
  BY DEF KNOWN_CODES, LIFECYCLE_DEFINITIONS, InvoiceStates
<1>2. \A s \in InvoiceStates : STATE_RANK[s] \in 0..6
  BY DEF InvoiceStates, STATE_RANK
<1>3. STATE_RANK["ARCHIVED"] = 6
  BY DEF STATE_RANK
<1> QED
  BY <1>1, <1>2, <1>3 DEF Reach, advanceState, isLifecycleCode

FurthestInv == WriterInv /\ UncontendedIsFurthest /\ OneWriterInTurn

(* A step that neither opens nor closes a transaction. *)
LEMMA WritersStand ==
  ASSUME TypeInv, FurthestInv, UNCHANGED <<storeVars, contended>>, feed \subseteq feed',
         \A q \in Pollers : ppc'[q] = "commit" => ppc[q] = "commit" /\ SamePoll(q)
  PROVE  FurthestInv'
<1>1. UncontendedIsFurthest'
  BY DEF FurthestInv, UncontendedIsFurthest, storeVars, Reach
<1>2. WriterInv'
  BY DEF FurthestInv, WriterInv, SamePoll, storeVars, PendingStatus, InvoiceInHand
<1>3. OneWriterInTurn'
  BY DEF FurthestInv, OneWriterInTurn, OutOfTurn, transmissionKey
<1> QED
  BY <1>1, <1>2, <1>3 DEF FurthestInv

(* A second transaction opens on an invoice only for a report out of turn. *)
LEMMA BeginWrites ==
  ASSUME TypeInv, CursorInv, FurthestInv, NEW p \in Pollers, ApplyBegins(p)
  PROVE  FurthestInv'
<1>1. /\ UNCHANGED <<storeVars, feed>> /\ matched' = matched /\ ppc'[p] = "commit"
      /\ seen'[p] = invoiceState[InvoiceInHand(p)]
      /\ PendingStatus(p) \notin timeline /\ ppc[p] = "apply"
      /\ \A q \in Pollers : ppc[q] = "commit" => PendingStatus(q) # PendingStatus(p)
      /\ contended' = contended \cup
           {i \in {InvoiceInHand(p)} : \E q \in Pollers : ppc[q] = "commit" /\ InvoiceInHand(q) = i}
  BY DEF ApplyBegins, TypeInv, SyncTypeOK
<1>2. \A q \in Pollers \ {p} : SamePoll(q)
  BY PollsApart DEF PollStep
<1>3. ASSUME NEW q \in Pollers, ppc[q] = "commit", InvoiceInHand(q) = InvoiceInHand(p)
      PROVE  \E u \in feed : u.key = transmissionKey(InvoiceInHand(p)) /\ OutOfTurn(u)
  <2>1. PendingStatus(q) \notin timeline
    BY <1>3 DEF FurthestInv, WriterInv
  <2>2. matched[p].update.at \in Nat /\ matched[q].update.at \in Nat
    BY <1>1, <1>3, PendingIsOwn, FeedAssumption DEF TypeInv, SyncTypeOK, StatusUpdate
  <2>3. matched[p].update.at <= matched[q].update.at \/ matched[q].update.at <= matched[p].update.at
    BY <2>2
  <2>4. OutOfTurn(matched[p].update) \/ OutOfTurn(matched[q].update)
    BY <1>1, <1>3, <2>1, <2>3, EarlierFirst
  <2>5. ASSUME NEW x \in {p, q}
        PROVE  /\ matched[x].update \in feed
               /\ matched[x].update.key = transmissionKey(InvoiceInHand(p))
    <3>1. ppc[x] \in {"apply", "commit"} /\ x \in Pollers
      BY <1>1, <1>3
    <3>2. /\ matched[x].row \in DOMAIN rows /\ matched[x].update \in feed
          /\ MatchesUpdate(matched[x].row, matched[x].update)
      BY <3>1 DEF TypeInv, PollFits, IsNext
    <3>3. rows[matched[x].row].key = matched[x].update.key
      BY <3>2, MatchIsOwn
    <3>4. rows[matched[x].row].key = transmissionKey(InvoiceInHand(x))
      BY <3>2 DEF TypeInv, RowsFit, InvoiceInHand
    <3> QED
      BY <1>3, <3>2, <3>3, <3>4
  <2> QED
    BY <2>4, <2>5
<1>4. UncontendedIsFurthest'
  BY <1>1 DEF FurthestInv, UncontendedIsFurthest, storeVars, Reach
<1>5. \A q \in Pollers : ppc'[q] = "commit" =>
        /\ InvoiceInHand(q)' = InvoiceInHand(q) /\ PendingStatus(q)' = PendingStatus(q)
        /\ q = p \/ (ppc[q] = "commit" /\ seen'[q] = seen[q])
  BY <1>1, <1>2 DEF InvoiceInHand, PendingStatus, storeVars, SamePoll
<1>6. WriterInv'
  BY <1>1, <1>5 DEF FurthestInv, WriterInv, storeVars
<1>7. OneWriterInTurn'
  BY <1>1, <1>3 DEF FurthestInv, OneWriterInTurn, OutOfTurn, transmissionKey
<1> QED
  BY <1>4, <1>6, <1>7 DEF FurthestInv

LEMMA CommitWrites ==
  ASSUME TypeInv, FurthestInv, NEW p \in Pollers, ApplyCommits(p)
  PROVE  FurthestInv'
<1> DEFINE i == InvoiceInHand(p)
           next == advanceState(seen[p], matched[p].update.code)
<1>1. /\ ppc[p] = "commit" /\ timeline' = timeline \cup {PendingStatus(p)}
      /\ invoiceState' = IF next = seen[p] THEN invoiceState ELSE [invoiceState EXCEPT ![i] = next]
      /\ WalkPast(p, matched[p].update) /\ UNCHANGED <<feed, contended>>
  BY DEF ApplyCommits, InvoiceInHand, WalkPast
<1>2. /\ i \in Invoices /\ seen[p] \in InvoiceStates
      /\ i \notin contended => seen[p] = invoiceState[i]
      /\ PendingStatus(p).invoice = i /\ PendingStatus(p).code = matched[p].update.code
  BY <1>1, PendingIsOwn DEF FurthestInv, WriterInv, TypeInv, PollFits, PendingStatus, Status,
     InvoiceInHand
<1>3. \A j \in Invoices \ {i} : invoiceState'[j] = invoiceState[j]
  BY <1>1, <1>2 DEF TypeInv, StoreTypeOK
<1>4. next \in InvoiceStates
  BY <1>2, AdvanceTyped
<1>5. ASSUME NEW s \in timeline', s.invoice \notin contended
      PROVE  Reach(s.code) <= STATE_RANK[invoiceState'[s.invoice]]
  <2>0. i \notin contended => invoiceState'[i] = next
    BY <1>1, <1>2 DEF TypeInv, StoreTypeOK
  <2>1. CASE s = PendingStatus(p)
    BY <1>2, <1>5, <2>0, <2>1, AdvanceReaches
  <2>2. CASE s \in timeline
    <3>1. s.invoice \in Invoices /\ Reach(s.code) <= STATE_RANK[invoiceState[s.invoice]]
      BY <1>5, <2>2 DEF FurthestInv, UncontendedIsFurthest, TypeInv, StoreTypeOK
    <3>2. CASE s.invoice # i
      BY <1>3, <3>1, <3>2
    <3>3. CASE s.invoice = i
      <4>1. /\ STATE_RANK[seen[p]] <= STATE_RANK[next] /\ STATE_RANK[seen[p]] \in Nat
            /\ Reach(s.code) \in Nat /\ STATE_RANK[next] \in Nat
        BY <1>2, <1>4, AdvanceReaches
      <4> QED
        BY <1>2, <1>5, <2>0, <3>1, <3>3, <4>1
    <3> QED
      BY <3>2, <3>3
  <2> QED
    BY <1>1, <2>1, <2>2
<1>6. UncontendedIsFurthest'
  BY <1>1, <1>5 DEF UncontendedIsFurthest, Reach
<1>7. ASSUME NEW q \in Pollers, ppc'[q] = "commit"
      PROVE  /\ q # p /\ ppc[q] = "commit" /\ InvoiceInHand(q)' = InvoiceInHand(q)
             /\ PendingStatus(q)' = PendingStatus(q) /\ seen'[q] = seen[q]
             /\ PendingStatus(q) # PendingStatus(p)
             /\ InvoiceInHand(q) \in Invoices
             /\ InvoiceInHand(q) \notin contended => InvoiceInHand(q) # i
  <2>1. q # p
    BY <1>1, <1>7 DEF WalkPast, TypeInv, SyncTypeOK
  <2>2. SamePoll(q)
    BY <2>1, PollsApart DEF PollStep
  <2>3. ppc[q] = "commit" /\ matched'[q] = matched[q] /\ seen'[q] = seen[q]
    BY <1>7, <2>2 DEF SamePoll
  <2>4. matched[q].row \in DOMAIN rows /\ SameTransmissions /\ InvoiceInHand(q) \in Invoices
    BY <2>3, CommitTypes, PendingIsOwn DEF TypeInv, PollFits
  <2>5. InvoiceInHand(q)' = InvoiceInHand(q) /\ PendingStatus(q)' = PendingStatus(q)
    BY <2>3, <2>4 DEF InvoiceInHand, PendingStatus, SameTransmissions, Status
  <2> QED
    BY <1>1, <2>1, <2>3, <2>4, <2>5 DEF FurthestInv, WriterInv
<1>8. ASSUME NEW q \in Pollers, ppc'[q] = "commit"
      PROVE  /\ PendingStatus(q) \notin timeline'
             /\ InvoiceInHand(q) \notin contended => seen[q] = invoiceState'[InvoiceInHand(q)]
  <2>1. /\ PendingStatus(q) \notin timeline
        /\ InvoiceInHand(q) \notin contended => seen[q] = invoiceState[InvoiceInHand(q)]
    BY <1>7, <1>8 DEF FurthestInv, WriterInv
  <2> QED
    BY <1>1, <1>3, <1>7, <1>8, <2>1
<1>9. WriterInv'
  BY <1>1, <1>7, <1>8 DEF FurthestInv, WriterInv
<1>10. OneWriterInTurn'
  BY <1>1 DEF FurthestInv, OneWriterInTurn, OutOfTurn, transmissionKey
<1> QED
  BY <1>6, <1>9, <1>10 DEF FurthestInv

LEMMA FurthestSteps == TypeInv /\ CursorInv /\ FurthestInv /\ [SyncNext]_svars => FurthestInv'
<1> SUFFICES ASSUME TypeInv, CursorInv, FurthestInv, [SyncNext]_svars
             PROVE  FurthestInv'
  OBVIOUS
<1>1. ASSUME NEW p \in Pollers, ApplyBegins(p) \/ ApplyCommits(p)
      PROVE  FurthestInv'
  BY <1>1, BeginWrites, CommitWrites
<1>2. ASSUME NEW p \in Pollers,
             \/ \E c \in Connections : PollStarts(p, c) \/ receive(p, c)
             \/ PollFetches(p)
             \/ \E u \in updates[p] : DropUnmatched(p, u)
             \/ \E u \in updates[p] : \E r \in DOMAIN rows : MatchUpdate(p, u, r)
             \/ SkipDuplicate(p) \/ WriteCursor(p) \/ PollFails(p)
      PROVE  FurthestInv'
  <2>1. UNCHANGED <<storeVars, contended>> /\ ppc'[p] # "commit"
    BY <1>2 DEF PollStarts, receive, ReadsConnection, PollFetches, DropUnmatched, MatchUpdate,
                SkipDuplicate, WriteCursor, PollFails, PollEnds, WalkPast, TypeInv, SyncTypeOK
  <2>2. \A q \in Pollers \ {p} : SamePoll(q)
    BY <1>2, PollsApart DEF PollStep
  <2>3. \A q \in Pollers : ppc'[q] = "commit" => ppc[q] = "commit" /\ SamePoll(q)
    BY <2>1, <2>2 DEF SamePoll
  <2> QED
    BY <2>1, <2>3, FeedGrows, WritersStand
<1>3. ASSUME \/ UNCHANGED svars
             \/ \E p \in Pollers : PollNothing(p)
             \/ \E c \in Connections, k \in Keys, code \in FeedCodes, at \in 1..MaxAt :
                  PlatformReports(c, k, code, at)
      PROVE  FurthestInv'
  <2>1. UNCHANGED <<storeVars, pollVars, contended>>
    BY <1>3 DEF PollNothing, PlatformReports, svars, syncVars
  <2>2. \A q \in Pollers : ppc'[q] = "commit" => ppc[q] = "commit" /\ SamePoll(q)
    BY <2>1 DEF SamePoll, pollVars
  <2> QED
    BY <2>1, <2>2, FeedGrows, WritersStand
<1> QED
  BY <1>1, <1>2, <1>3 DEF SyncNext, PollStep

LEMMA HandedOverFurthest ==
  ASSUME HandedOverInit
  PROVE  CursorInv /\ FurthestInv
<1>1. \A p \in Pollers : ppc[p] = "idle"
  BY DEF HandedOverInit, SyncInit
<1>2. CursorInv
  BY DEF HandedOverInit, SyncInit, CursorInv, FeedRecorded, PollCovers, Covered, Reported
<1>3. WriterInv /\ OneWriterInTurn
  BY <1>1 DEF WriterInv, OneWriterInTurn, HandedOverInit, SyncInit
<1>4. PICK recorded \in SUBSET Invoices :
        /\ invoiceState = [i \in Invoices |-> IF i \in recorded THEN "TRANSMITTED" ELSE "QUEUED"]
        /\ timeline = {Status(i, "DEPOSEE", ACCEPTED_AT) : i \in recorded}
  BY DEF HandedOverInit, HandedOver
<1>5. ASSUME NEW s \in timeline
      PROVE  s.code = "DEPOSEE" /\ invoiceState[s.invoice] = "TRANSMITTED"
  BY <1>4 DEF Status
<1>6. Reach("DEPOSEE") <= STATE_RANK["TRANSMITTED"]
  BY DEF Reach, STATE_RANK, isLifecycleCode, KNOWN_CODES, LIFECYCLE_DEFINITIONS
<1>7. UncontendedIsFurthest
  BY <1>5, <1>6 DEF UncontendedIsFurthest
<1> QED
  BY <1>2, <1>3, <1>7 DEF FurthestInv

LEMMA FurthestInvariant ==
  ASSUME RowsSuffice
  PROVE  SyncSpec => []FurthestInv
<1>1. HandedOverInit => CursorInv /\ FurthestInv
  BY HandedOverFurthest
<1>2. TypeInv /\ TypeInv' /\ CursorInv /\ [SyncNext]_svars => CursorInv'
  BY CursorSteps
<1> QED
  BY <1>1, <1>2, FurthestSteps, SyncTyped, PTL DEF SyncSpec

(* Invoice state is a function of the furthest point reached (README, Statuses), in  *)
(* whatever order statuses come, unless two transactions of applyStatus have had the *)
(* invoice open at once and a report came out of turn.                               *)
THEOREM FurthestPoint ==
  ASSUME RowsSuffice
  PROVE  SyncSpec => []StateIsFurthestPoint
<1>1. FurthestInv => StateIsFurthestPoint
  BY DEF FurthestInv, UncontendedIsFurthest, OneWriterInTurn, StateIsFurthestPoint
<1> QED
  BY <1>1, FurthestInvariant, PTL

(* Two polls have one invoice in a transaction at once only if its platform has      *)
(* reported on it out of turn: of two polls at different updates of one connection,  *)
(* the one that is ahead has the other's on the timeline, where it is skipped.       *)
THEOREM WritersTakeTurns ==
  ASSUME RowsSuffice
  PROVE  SyncSpec => []OneWriterInTurn
<1>1. FurthestInv => OneWriterInTurn
  BY DEF FurthestInv
<1> QED
  BY <1>1, FurthestInvariant, PTL

---------------------------------------------------------------------------
(* The queue and the poller together *)

(* Platforms report on what they hold. *)
FeedIsHeld == \A u \in feed : <<u.conn, u.key>> \in held

(* What recordSent leaves behind it. *)
Backed(r) ==
  /\ <<rows[r].conn, rows[r].key>> \in held
  /\ rows[r].externalId = ExternalIdOf[<<rows[r].conn, rows[r].key>>]
  /\ Status(rows[r].invoice, "DEPOSEE", ACCEPTED_AT) \in timeline
  /\ ShownAsSent(rows[r].invoice)

(* A transmission that a poll found SENT is backed, whatever became of it since. *)
FoundSentIsBacked ==
  \A p \in Pollers :
    ppc[p] \in {"apply", "commit"} /\ matched[p].state = "SENT" => Backed(matched[p].row)

PdpInv == QueueInv /\ TypeInv /\ FeedIsHeld /\ FoundSentIsBacked

---------------------------------------------------------------------------
(* What a step of the queue does to the tables, as far as a poll can see *)

QueueKeeps ==
  /\ \A r \in DOMAIN rows :
       /\ r \in DOMAIN rows' /\ rows'[r].invoice = rows[r].invoice
       /\ rows'[r].key = rows[r].key /\ rows'[r].conn = rows[r].conn
       /\ rows'[r].externalId \in
            {rows[r].externalId, ExternalIdOf[<<rows[r].conn, rows[r].key>>]}
       /\ rows'[r].externalId # rows[r].externalId => rows'[r].state = "SENT"
  /\ \A r \in DOMAIN rows' \ DOMAIN rows : rows'[r].externalId = None
  /\ timeline \subseteq timeline' /\ held \subseteq held'

LEMMA KeepsStanding ==
  ASSUME UNCHANGED rows, timeline \subseteq timeline', held \subseteq held'
  PROVE  QueueKeeps
BY DEF QueueKeeps

LEMMA EnqueueKeeps ==
  ASSUME QueueInv, NEW p \in Processes, EnqueueCommit(p)
  PROVE  QueueKeeps
<1>1. UNCHANGED <<timeline, held>>
  BY DEF EnqueueCommit
<1>2. CASE UNCHANGED rows
  BY <1>1, <1>2, KeepsStanding
<1>3. ASSUME NEW r \in RowIds \ DOMAIN rows,
             rows' = [x \in DOMAIN rows \cup {r} |->
                        IF x = r THEN NewRow(enq[p].invoice, enq[p].conn) ELSE rows[x]]
      PROVE  QueueKeeps
  <2>1. DOMAIN rows' = DOMAIN rows \cup {r} /\ \A x \in DOMAIN rows : rows'[x] = rows[x]
    BY <1>3
  <2>2. rows'[r].externalId = None
    BY <1>3 DEF NewRow
  <2>3. \A x \in DOMAIN rows' \ DOMAIN rows : x = r
    BY <2>1
  <2>4. timeline \subseteq timeline' /\ held \subseteq held'
    BY <1>1
  <2> QED
    BY <2>1, <2>2, <2>3, <2>4 DEF QueueKeeps
<1> QED
  <2>1. \/ UNCHANGED rows
        \/ \E r \in RowIds \ DOMAIN rows :
             rows' = [x \in DOMAIN rows \cup {r} |->
                        IF x = r THEN NewRow(enq[p].invoice, enq[p].conn) ELSE rows[x]]
    BY DEF EnqueueCommit, Duplicate
  <2> QED
    BY <1>2, <1>3, <2>1

(* The steps that write rows already there. *)
LEMMA WriteKeeps ==
  ASSUME QueueInv, timeline \subseteq timeline', held \subseteq held',
         \/ \E w \in Workers : drain(w) \/ recordSent(w) \/ recordFailure(w)
         \/ \E c \in Callers : RetryWrites(c)
         \/ Clock
  PROVE  QueueKeeps
<1>a. \A r \in DOMAIN rows : rows[r] \in TransmissionRow
  BY DEF QueueInv, TypeOK, StoreTypeOK
<1>1. ASSUME NEW w \in Workers, drain(w)
      PROVE  QueueKeeps
  <2>1. PICK S \in SUBSET DOMAIN rows :
          rows' = [r \in DOMAIN rows |->
                     IF r \in S THEN [rows[r] EXCEPT !.claimedBy = w, !.stale = FALSE]
                                ELSE rows[r]]
    BY <1>1 DEF drain, claim
  <2> QED
    BY <1>a, <2>1 DEF TransmissionRow, QueueKeeps
<1>2. ASSUME NEW w \in Workers, recordSent(w)
      PROVE  QueueKeeps
  <2> DEFINE r == run[w].row
  <2>1. rows' = [rows EXCEPT ![r].state = "SENT",
                   ![r].externalId = ExternalIdOf[<<rows[r].conn, rows[r].key>>],
                   ![r].claimedBy = None, ![r].stale = FALSE]
    BY <1>2 DEF recordSent
  <2> HIDE DEF r
  <2> QED
    BY <1>a, <2>1 DEF TransmissionRow, QueueKeeps
<1>3. ASSUME NEW w \in Workers, recordFailure(w)
      PROVE  QueueKeeps
  <2>1. PICK d \in BOOLEAN, st \in {"FAILED", "PENDING"} :
          rows' = [rows EXCEPT ![run[w].row].state = st,
                               ![run[w].row].attempt = run[w].attempt + 1, ![run[w].row].due = d,
                               ![run[w].row].claimedBy = None, ![run[w].row].stale = FALSE]
    BY <1>3 DEF recordFailure
  <2> DEFINE r == run[w].row
             n == run[w].attempt + 1
  <2> HIDE DEF n
  <2>2. rows' = [rows EXCEPT ![r].state = st, ![r].attempt = n, ![r].due = d,
                             ![r].claimedBy = None, ![r].stale = FALSE]
    BY <2>1 DEF n
  <2> HIDE DEF r
  <2> QED
    BY <1>a, <2>2 DEF TransmissionRow, QueueKeeps
<1>4. ASSUME NEW c \in Callers, RetryWrites(c)
      PROVE  QueueKeeps
  <2> DEFINE r == retrying[c]
  <2>1. rows' = [rows EXCEPT ![r].state = "PENDING", ![r].due = TRUE, ![r].attempt = 0,
                             ![r].claimedBy = None, ![r].stale = FALSE]
    BY <1>4 DEF RetryWrites
  <2> HIDE DEF r
  <2> QED
    BY <1>a, <2>1 DEF TransmissionRow, QueueKeeps
<1>5. ASSUME Clock
      PROVE  QueueKeeps
  <2>1. PICK r \in DOMAIN rows :
          \/ rows' = [rows EXCEPT ![r].due = TRUE]
          \/ rows' = [rows EXCEPT ![r].stale = TRUE]
    BY <1>5 DEF Clock, BackoffElapses, LeaseExpires
  <2>2. CASE rows' = [rows EXCEPT ![r].due = TRUE]
    BY <1>a, <2>2 DEF TransmissionRow, QueueKeeps
  <2>3. CASE rows' = [rows EXCEPT ![r].stale = TRUE]
    BY <1>a, <2>3 DEF TransmissionRow, QueueKeeps
  <2> QED
    BY <2>1, <2>2, <2>3
<1> QED
  BY <1>1, <1>2, <1>3, <1>4, <1>5

(* No step of the queue takes anything off a timeline or from a platform. *)
LEMMA TablesGrow ==
  ASSUME [Next]_vars
  PROVE  timeline \subseteq timeline' /\ held \subseteq held'
<1>1. ASSUME NEW w \in Workers, WorkerStep(w) \/ WorkerFault(w)
      PROVE  timeline \subseteq timeline' /\ held \subseteq held'
  <2>1. CASE Attempt(w)
    BY <2>1 DEF Attempt, TransmitAccepted, TransmitAnswerLost, TransmitFails, TransmitUnresolved,
       NotTransmittable, PlatformAccepts, AttemptEnds, storeVars
  <2>2. CASE recordSent(w) \/ recordFailure(w)
    BY <2>2 DEF recordSent, recordFailure, AttemptDone
  <2>3. CASE ~Attempt(w) /\ ~recordSent(w) /\ ~recordFailure(w)
    BY <1>1, <2>3 DEF WorkerStep, WorkerFault, enqueuePending, SweepEnqueue, SweepSkip, drain,
       EnqueueCommit, EnqueueAbort, recordSentFails, Crash, storeVars
  <2> QED
    BY <2>1, <2>2, <2>3
<1>2. ASSUME NEW c \in Callers, CallerStep(c)
      PROVE  timeline \subseteq timeline' /\ held \subseteq held'
  BY <1>2 DEF CallerStep, transmit, EnqueueCommit, EnqueueAbort, RetryReads, RetryWrites, storeVars
<1>3. Settings \/ Clock \/ UNCHANGED vars => timeline \subseteq timeline' /\ held \subseteq held'
  BY DEF Settings, Clock, upsert, deactivate, BackoffElapses, LeaseExpires, vars, storeVars
<1> QED
  BY <1>1, <1>2, <1>3 DEF Next

LEMMA QueueStepKeeps ==
  ASSUME QueueInv, [Next]_vars
  PROVE  QueueKeeps
<1>1. timeline \subseteq timeline' /\ held \subseteq held'
  BY TablesGrow
<1>2. ASSUME NEW w \in Workers, WorkerStep(w) \/ WorkerFault(w)
      PROVE  QueueKeeps
  <2>1. CASE drain(w) \/ recordSent(w) \/ recordFailure(w)
    BY <1>1, <2>1, WriteKeeps
  <2>2. CASE EnqueueCommit(w)
    BY <2>2, EnqueueKeeps DEF Processes
  <2>3. CASE ~drain(w) /\ ~recordSent(w) /\ ~recordFailure(w) /\ ~EnqueueCommit(w)
    <3>1. UNCHANGED rows
      BY <1>2, <2>3 DEF WorkerStep, WorkerFault, enqueuePending, SweepEnqueue, SweepSkip, Attempt,
         TransmitAccepted, TransmitAnswerLost, TransmitFails, TransmitUnresolved, NotTransmittable,
         AttemptEnds, EnqueueAbort, recordSentFails, Crash, storeVars
    <3> QED
      BY <1>1, <3>1, KeepsStanding
  <2> QED
    BY <2>1, <2>2, <2>3
<1>3. ASSUME NEW c \in Callers, CallerStep(c)
      PROVE  QueueKeeps
  <2>1. CASE EnqueueCommit(c)
    BY <2>1, EnqueueKeeps DEF Processes
  <2>2. CASE RetryWrites(c)
    BY <1>1, <2>2, WriteKeeps
  <2>3. CASE ~EnqueueCommit(c) /\ ~RetryWrites(c)
    <3>1. UNCHANGED rows
      BY <1>3, <2>3 DEF CallerStep, transmit, EnqueueAbort, RetryReads, storeVars
    <3> QED
      BY <1>1, <3>1, KeepsStanding
  <2> QED
    BY <2>1, <2>2, <2>3
<1>4. CASE Clock
  BY <1>1, <1>4, WriteKeeps
<1>5. CASE Settings \/ UNCHANGED vars
  <2>1. UNCHANGED rows
    BY <1>5 DEF Settings, upsert, deactivate, vars, storeVars
  <2> QED
    BY <1>1, <2>1, KeepsStanding
<1> QED
  BY <1>2, <1>3, <1>4, <1>5 DEF Next


---------------------------------------------------------------------------
(* A step of the queue leaves the polls what they had *)

LEMMA ShownMeans ==
  ASSUME NEW state \in InvoiceStates, NEW next \in InvoiceStates,
         STATE_RANK[next] >= STATE_RANK[state],
         STATE_RANK[state] >= STATE_RANK["TRANSMITTED"]
  PROVE  STATE_RANK[next] >= STATE_RANK["TRANSMITTED"]
<1>1. \A s \in InvoiceStates : STATE_RANK[s] \in Nat
  BY DEF InvoiceStates, STATE_RANK
<1>2. "TRANSMITTED" \in InvoiceStates
  BY DEF InvoiceStates
<1> QED
  BY <1>1, <1>2

LEMMA QueueShows ==
  ASSUME QueueInv, QueueInv', [Next]_vars, NEW i \in Invoices, ShownAsSent(i)
  PROVE  ShownAsSent(i)'
<1>1. invoiceState[i] \in InvoiceStates /\ invoiceState'[i] \in InvoiceStates
  BY DEF QueueInv, TypeOK, StoreTypeOK
<1> QED
  BY <1>1, RankStep, ShownMeans DEF ShownAsSent

LEMMA BackedStays ==
  ASSUME NEW r \in DOMAIN rows, Backed(r),
         rows'[r].invoice = rows[r].invoice, rows'[r].key = rows[r].key,
         rows'[r].conn = rows[r].conn,
         rows'[r].externalId \in {rows[r].externalId, ExternalIdOf[<<rows[r].conn, rows[r].key>>]},
         timeline \subseteq timeline', held \subseteq held',
         ShownAsSent(rows[r].invoice) => ShownAsSent(rows[r].invoice)'
  PROVE  Backed(r)'
BY DEF Backed, Status, ShownAsSent

(* The row a poll has found is still the one its update is about: recordSent gives *)
(* a row the identifier it has, if it has one.                                     *)
LEMMA QueueLeavesPolls ==
  ASSUME PdpInv, QueueInv', QueueKeeps, UNCHANGED syncVars
  PROVE  TypeInv' /\ FeedIsHeld'
<1> USE DEF syncVars, pollVars
<1>1. StoreTypeOK' /\ SyncTypeOK' /\ FeedFits' /\ FeedIsHeld'
  BY DEF PdpInv, QueueInv, TypeOK, TypeInv, SyncTypeOK, FeedFits, FeedIsHeld, QueueKeeps
<1>2. ASSUME NEW r \in DOMAIN rows'
      PROVE  rows'[r].externalId # None =>
               rows'[r].externalId = ExternalIdOf[<<rows'[r].conn, rows'[r].key>>]
  <2>1. CASE r \in DOMAIN rows
    <3>1. /\ rows'[r].key = rows[r].key /\ rows'[r].conn = rows[r].conn
          /\ \/ rows'[r].externalId = rows[r].externalId
             \/ rows'[r].externalId = ExternalIdOf[<<rows[r].conn, rows[r].key>>]
      BY <2>1 DEF QueueKeeps
    <3>2. rows[r].externalId # None =>
            rows[r].externalId = ExternalIdOf[<<rows[r].conn, rows[r].key>>]
      BY <2>1 DEF PdpInv, TypeInv, RowsFit
    <3> QED
      BY <3>1, <3>2
  <2>2. CASE r \notin DOMAIN rows
    BY <2>2 DEF QueueKeeps
  <2> QED
    BY <2>1, <2>2
<1>3. RowsFit'
  BY <1>2 DEF RowsFit, QueueInv, KeysAreUnique, transmissionKey
<1>4. ASSUME NEW r \in DOMAIN rows, NEW u \in feed, MatchesUpdate(r, u)
      PROVE  r \in DOMAIN rows' /\ MatchesUpdate(r, u)'
  <2>1. rows[r].externalId = ExternalIdOf[<<rows[r].conn, rows[r].key>>]
    <3>1. u.externalId \in ExternalIds
      BY DEF PdpInv, TypeInv, SyncTypeOK, StatusUpdate
    <3> QED
      BY <1>4, <3>1, NoneAssumption DEF PdpInv, TypeInv, RowsFit, MatchesUpdate
  <2>2. /\ r \in DOMAIN rows' /\ rows'[r].conn = rows[r].conn
        /\ rows'[r].externalId = rows[r].externalId
    BY <2>1 DEF QueueKeeps
  <2> QED
    BY <1>4, <2>2 DEF MatchesUpdate
<1>5. ASSUME NEW p \in Pollers
      PROVE  PollFits(p)'
  <2>1. PollFits(p)
    BY DEF PdpInv, TypeInv
  <2>2. ASSUME ppc[p] \in {"apply", "commit"}
        PROVE  /\ matched[p].row \in DOMAIN rows'
               /\ MatchesUpdate(matched[p].row, matched[p].update)'
    BY <1>4, <2>1, <2>2 DEF PollFits, IsNext, MatchesUpdate
  <2> QED
    BY <2>1, <2>2 DEF PollFits, IsNext, MatchesUpdate
<1> QED
  BY <1>1, <1>3, <1>5 DEF TypeInv

LEMMA QueueSteps ==
  ASSUME PdpInv, [Next]_vars, UNCHANGED syncVars
  PROVE  PdpInv' /\ QueueKeeps
<1>1. QueueInv' /\ QueueKeeps
  BY StepInv, QueueStepKeeps DEF PdpInv
<1>2. TypeInv' /\ FeedIsHeld'
  BY <1>1, QueueLeavesPolls
<1>3. ASSUME NEW p \in Pollers, ppc[p] \in {"apply", "commit"}, matched[p].state = "SENT"
      PROVE  Backed(matched[p].row)'
  <2> DEFINE r == matched[p].row
  <2>1. r \in DOMAIN rows /\ Backed(r) /\ rows[r].invoice \in Invoices
    BY <1>3 DEF PdpInv, FoundSentIsBacked, TypeInv, PollFits, StoreTypeOK, TransmissionRow
  <2>2. matched' = matched
    BY DEF syncVars, pollVars
  <2> PICK q : q = r
    OBVIOUS
  <2>3. ShownAsSent(rows[q].invoice) => ShownAsSent(rows[q].invoice)'
    <3>1. PICK i \in Invoices : i = rows[q].invoice
      BY <2>1
    <3>2. ShownAsSent(i) => ShownAsSent(i)'
      BY <1>1, QueueShows DEF PdpInv
    <3>3. rows'[q].invoice = rows[q].invoice
      BY <1>1, <2>1 DEF QueueKeeps
    <3> QED
      BY <3>1, <3>2, <3>3 DEF ShownAsSent
  <2>4. Backed(q)'
    BY <1>1, <2>1, <2>3, BackedStays DEF QueueKeeps
  <2> QED
    BY <2>2, <2>4
<1>4. FoundSentIsBacked'
  BY <1>3 DEF FoundSentIsBacked, syncVars, pollVars
<1> QED
  BY <1>1, <1>2, <1>4 DEF PdpInv


---------------------------------------------------------------------------
(* A step of a poll leaves the queue what it had *)

(* A status takes an invoice to a state it is shown as sent in, or leaves it. *)
LEMMA StatusShows ==
  ASSUME NEW state \in InvoiceStates, NEW code
  PROVE  \/ advanceState(state, code) = state
         \/ /\ advanceState(state, code) \in InvoiceStates \ {"VALIDATED"}
            /\ STATE_RANK[advanceState(state, code)] >= STATE_RANK["TRANSMITTED"]
BY DEF advanceState, isLifecycleCode, KNOWN_CODES, LIFECYCLE_DEFINITIONS, STATE_RANK, InvoiceStates

(* What a step of a poll does to the tables: the transaction of applyStatus, on a *)
(* document its platform holds, or nothing.                                       *)
PollWrites(p) ==
  LET r == matched[p].row
      i == rows[r].invoice
  IN  /\ r \in DOMAIN rows /\ i \in Invoices
      /\ <<rows[r].conn, rows[r].key>> \in held
      /\ rows' = [rows EXCEPT ![r] = RowAfter(@, matched[p].state, matched[p].update.code)]
      /\ matched[p].state = "SENT" => Backed(r)
      /\ \/ invoiceState' = invoiceState
         \/ \E next \in InvoiceStates \ {"VALIDATED"} :
              /\ STATE_RANK[next] >= STATE_RANK["TRANSMITTED"]
              /\ invoiceState' = [invoiceState EXCEPT ![i] = next]
      /\ timeline \subseteq timeline'
      /\ UNCHANGED <<active, held>>

LEMMA CommitIsWrite ==
  ASSUME PdpInv, NEW p \in Pollers, ApplyCommits(p)
  PROVE  PollWrites(p)
<1> DEFINE m == matched[p]
           r == m.row
           next == advanceState(seen[p], m.update.code)
<1>1. /\ ppc[p] = "commit" /\ timeline' = timeline \cup {PendingStatus(p)}
      /\ rows' = [rows EXCEPT ![r] = RowAfter(@, m.state, m.update.code)]
      /\ invoiceState' = IF next = seen[p] THEN invoiceState
                         ELSE [invoiceState EXCEPT ![rows[r].invoice] = next]
      /\ UNCHANGED <<active, held>>
  BY DEF ApplyCommits
<1>2. PollFits(p)
  BY DEF PdpInv, TypeInv
<1>3. /\ r \in DOMAIN rows /\ m.update \in feed /\ MatchesUpdate(r, m.update)
      /\ seen[p] \in InvoiceStates
  BY <1>1, <1>2 DEF PollFits, IsNext
<1>4. rows[r].invoice \in Invoices
  BY <1>3 DEF PdpInv, TypeInv, StoreTypeOK, TransmissionRow
<1>5. <<rows[r].conn, rows[r].key>> \in held
  <2>1. rows[r].key = m.update.key /\ rows[r].conn = m.update.conn
    BY <1>3, MatchIsOwn DEF PdpInv, MatchesUpdate
  <2> QED
    BY <1>3, <2>1 DEF PdpInv, FeedIsHeld
<1>6. m.state = "SENT" => Backed(r)
  BY <1>1 DEF PdpInv, FoundSentIsBacked
<1>7. next = seen[p] \/ (next \in InvoiceStates \ {"VALIDATED"}
                           /\ STATE_RANK[next] >= STATE_RANK["TRANSMITTED"])
  BY <1>3, StatusShows
<1> HIDE DEF m, r, next
<1>8. \/ invoiceState' = invoiceState
      \/ \E n \in InvoiceStates \ {"VALIDATED"} :
           /\ STATE_RANK[n] >= STATE_RANK["TRANSMITTED"]
           /\ invoiceState' = [invoiceState EXCEPT ![rows[r].invoice] = n]
  BY <1>1, <1>7
<1> QED
  BY <1>1, <1>3, <1>4, <1>5, <1>6, <1>8 DEF PollWrites, m, r

LEMMA WriteShows ==
  ASSUME QueueInv, NEW p \in Pollers, PollWrites(p), NEW i \in Invoices
  PROVE  /\ ShownAsSent(i) => ShownAsSent(i)'
         /\ i # rows[matched[p].row].invoice => invoiceState'[i] = invoiceState[i]
         /\ invoiceState'[i] \in InvoiceStates
         /\ invoiceState'[i] = "VALIDATED" => invoiceState[i] = "VALIDATED"
BY DEF PollWrites, ShownAsSent, QueueInv, TypeOK, StoreTypeOK

(* The rows after the transaction: the one that was matched has been closed out if *)
(* it was found SENT, or parked, or left.                                          *)
LEMMA WriteRows ==
  ASSUME QueueInv, NEW p \in Pollers, PollWrites(p), NEW r \in DOMAIN rows
  PROVE  /\ DOMAIN rows' = DOMAIN rows
         /\ rows'[r].invoice = rows[r].invoice /\ rows'[r].key = rows[r].key
         /\ rows'[r].conn = rows[r].conn /\ rows'[r].externalId = rows[r].externalId
         /\ rows'[r].attempt = rows[r].attempt
         /\ \/ rows'[r].state = rows[r].state
            \/ rows'[r].state = "FAILED"
            \/ rows'[r].state = "ACKNOWLEDGED" /\ Backed(r)
<1>1. \A x \in DOMAIN rows : rows[x] \in TransmissionRow
  BY DEF QueueInv, TypeOK, StoreTypeOK
<1>2. /\ matched[p].row \in DOMAIN rows
      /\ rows' = [rows EXCEPT ![matched[p].row] =
                    RowAfter(@, matched[p].state, matched[p].update.code)]
      /\ matched[p].state = "SENT" => Backed(matched[p].row)
  BY DEF PollWrites
<1>3. CASE r # matched[p].row
  BY <1>2, <1>3
<1>4. CASE r = matched[p].row
  BY <1>1, <1>2, <1>4 DEF RowAfter, TransmissionRow
<1> QED
  BY <1>3, <1>4


LEMMA WriteTypes ==
  ASSUME QueueInv, NEW p \in Pollers, PollWrites(p), StoreTypeOK', UNCHANGED queueVars
  PROVE  TypeOK' /\ KeysAreUnique' /\ HeldThroughRow' /\ WorkInHand'
<1> USE DEF queueVars, workerVars, callVars, bounds
<1>1. TypeOK'
  BY DEF QueueInv, TypeOK, QueueTypeOK
<1>2. /\ held' = held /\ DOMAIN rows' = DOMAIN rows
      /\ \A r \in DOMAIN rows : /\ rows'[r].invoice = rows[r].invoice
                                /\ rows'[r].key = rows[r].key /\ rows'[r].conn = rows[r].conn
  BY WriteRows DEF PollWrites
<1>3. KeysAreUnique' /\ HeldThroughRow'
  BY <1>2 DEF QueueInv, KeysAreUnique, HeldThroughRow, transmissionKey
<1>4. WorkInHand'
  BY <1>2 DEF QueueInv, WorkInHand, Snapshot
<1> QED
  BY <1>1, <1>3, <1>4

(* QueueInv survives a transaction of applyStatus: it closes out only what it found *)
(* SENT, and moves only invoices that have been delivered.                          *)
LEMMA WriteInv ==
  ASSUME QueueInv, NEW p \in Pollers, PollWrites(p), StoreTypeOK', UNCHANGED queueVars
  PROVE  QueueInv'
<1> DEFINE m == matched[p].row
<1>1. /\ held' = held /\ timeline \subseteq timeline' /\ m \in DOMAIN rows
      /\ <<rows[m].conn, rows[m].key>> \in held /\ rows[m].invoice \in Invoices
      /\ rows[m].conn \in Connections
  BY DEF PollWrites, QueueInv, TypeOK, StoreTypeOK, TransmissionRow
<1>2. DOMAIN rows' = DOMAIN rows
  BY <1>1, WriteRows
<1>3. TypeOK' /\ KeysAreUnique' /\ HeldThroughRow' /\ WorkInHand'
  BY WriteTypes
<1>4. rows[m].key = transmissionKey(rows[m].invoice)
  BY <1>1 DEF QueueInv, KeysAreUnique
<1>5. StateIsOutbox'
  <2>1. ASSUME NEW i \in Invoices
        PROVE  KeyTaken(transmissionKey(i))' <=> KeyTaken(transmissionKey(i))
    BY <1>2, WriteRows DEF KeyTaken, transmissionKey
  <2>2. ASSUME NEW i \in Invoices
        PROVE  invoiceState'[i] = "VALIDATED" <=> invoiceState[i] = "VALIDATED"
    <3>1. CASE i = rows[m].invoice
      <4>1. KeyTaken(transmissionKey(i))
        BY <1>1, <1>4, <3>1 DEF KeyTaken
      <4> QED
        BY <4>1, WriteShows DEF QueueInv, StateIsOutbox
    <3>2. CASE i # rows[m].invoice
      BY <3>2, WriteShows
    <3> QED
      BY <3>1, <3>2
  <2> QED
    BY <2>1, <2>2 DEF QueueInv, StateIsOutbox
<1>6. SentIsBacked'
  <2>1. ASSUME NEW r \in DOMAIN rows, rows'[r].state \in {"SENT", "ACKNOWLEDGED"}
        PROVE  Backed(r)'
    <3>1. Backed(r)
      BY <2>1, WriteRows DEF QueueInv, SentIsBacked, Backed
    <3>2. PICK i \in Invoices : i = rows[r].invoice /\ rows'[r].invoice = i
      BY WriteRows DEF QueueInv, TypeOK, StoreTypeOK, TransmissionRow
    <3>3. ShownAsSent(i) => ShownAsSent(i)'
      BY WriteShows
    <3>4. ShownAsSent(rows[r].invoice) => ShownAsSent(rows[r].invoice)'
      BY <3>2, <3>3 DEF ShownAsSent
    <3> QED
      BY <1>1, <3>1, <3>4, WriteRows, BackedStays
  <2> QED
    BY <1>2, <2>1 DEF SentIsBacked, Backed
<1>7. ShownIsHeld'
  <2>1. ASSUME NEW i \in Invoices, ShownAsSent(i)'
        PROVE  \E c \in Connections : <<c, transmissionKey(i)>> \in held
    <3>1. CASE i = rows[m].invoice
      BY <1>1, <1>4, <3>1
    <3>2. CASE i # rows[m].invoice
      <4>1. ShownAsSent(i)
        BY <2>1, <3>2, WriteShows DEF ShownAsSent
      <4> QED
        BY <4>1 DEF QueueInv, ShownIsHeld
    <3> QED
      BY <3>1, <3>2
  <2> QED
    BY <1>1, <2>1 DEF ShownIsHeld, transmissionKey
<1>8. PendingHasAttemptsLeft'
  BY <1>2, WriteRows DEF QueueInv, PendingHasAttemptsLeft
<1> QED
  BY <1>3, <1>5, <1>6, <1>7, <1>8 DEF QueueInv

(* A step of the platforms or of a poll that leaves the tables alone. *)
LEMMA TablesStandInv ==
  ASSUME QueueInv, UNCHANGED <<storeVars, held, queueVars>>
  PROVE  QueueInv'
BY StutterInv DEF vars

(* A report is of what the platform holds, and a poll takes up a row only as it is. *)
LEMMA PollSteps ==
  ASSUME PdpInv, [SyncNext]_svars, UNCHANGED queueVars
  PROVE  PdpInv' /\ SameTransmissions
<1>1. TypeInv' /\ SameTransmissions /\ StoreTypeOK'
  BY TypeSteps DEF PdpInv, TypeInv
<1>2. QueueInv'
  <2>1. CASE ~\E p \in Pollers : ApplyCommits(p)
    BY <2>1, TablesStand, TablesStandInv DEF PdpInv
  <2>2. ASSUME NEW p \in Pollers, ApplyCommits(p)
        PROVE  QueueInv'
    BY <1>1, <2>2, CommitIsWrite, WriteInv DEF PdpInv
  <2> QED
    BY <2>1, <2>2
<1>3. FeedIsHeld'
  <2>1. held' = held
    BY TablesStand DEF ApplyCommits
  <2>2. CASE feed' = feed
    BY <2>1, <2>2 DEF PdpInv, FeedIsHeld
  <2>3. ASSUME NEW c \in Connections, NEW k \in Keys, NEW code \in FeedCodes, NEW at \in 1..MaxAt,
               PlatformReports(c, k, code, at)
        PROVE  FeedIsHeld'
    <3>1. \E late \in BOOLEAN, early \in BOOLEAN :
             feed' = feed \cup {[conn |-> c, externalId |-> ExternalIdOf[<<c, k>>], key |-> k,
                                 code |-> code, at |-> at, late |-> late, early |-> early]}
      BY <2>3, ReportFlags
    <3>2. ASSUME NEW u \in feed'
          PROVE  <<u.conn, u.key>> \in held
      BY <2>3, <3>1, <3>2 DEF PdpInv, FeedIsHeld, PlatformReports
    <3> QED
      BY <2>1, <3>2 DEF FeedIsHeld
  <2>4. \/ feed' = feed
        \/ \E c \in Connections, k \in Keys, code \in FeedCodes, at \in 1..MaxAt :
             PlatformReports(c, k, code, at)
    BY DEF SyncNext, PollStep, PollStarts, receive, ReadsConnection, PollNothing, PollFetches,
       DropUnmatched, MatchUpdate, SkipDuplicate, ApplyBegins, ApplyCommits, WalkPast, WriteCursor,
       PollFails, svars, syncVars
  <2> QED
    BY <2>2, <2>3, <2>4
<1>4. FoundSentIsBacked'
  <2>1. ASSUME NEW r \in DOMAIN rows, Backed(r)
        PROVE  Backed(r)'
    <3>1. /\ rows'[r].invoice = rows[r].invoice /\ rows'[r].key = rows[r].key
          /\ rows'[r].conn = rows[r].conn /\ rows'[r].externalId = rows[r].externalId
      BY <1>1 DEF SameTransmissions
    <3>2. PICK i \in Invoices : i = rows[r].invoice
      BY DEF PdpInv, TypeInv, StoreTypeOK, TransmissionRow
    <3>3. /\ ShownAsSent(i) => ShownAsSent(i)'
          /\ timeline \subseteq timeline' /\ held \subseteq held'
      <4>1. CASE ~\E p \in Pollers : ApplyCommits(p)
        BY <4>1, TablesStand DEF storeVars, ShownAsSent
      <4>2. ASSUME NEW p \in Pollers, ApplyCommits(p)
            PROVE  /\ ShownAsSent(i) => ShownAsSent(i)'
                   /\ timeline \subseteq timeline' /\ held \subseteq held'
        BY <4>2, CommitIsWrite, WriteShows DEF PdpInv, PollWrites
      <4> QED
        BY <4>1, <4>2
    <3>4. ShownAsSent(rows[r].invoice) => ShownAsSent(rows[r].invoice)'
      BY <3>1, <3>2, <3>3 DEF ShownAsSent
    <3> QED
      BY <2>1, <3>1, <3>3, <3>4, BackedStays
  <2>2. ASSUME NEW p \in Pollers, ppc'[p] \in {"apply", "commit"}, matched'[p].state = "SENT"
        PROVE  \E r \in DOMAIN rows : r = matched'[p].row /\ Backed(r)
    <3>1. CASE ppc[p] \in {"apply", "commit"} /\ matched'[p] = matched[p]
      BY <2>2, <3>1 DEF PdpInv, FoundSentIsBacked, TypeInv, PollFits
    <3>2. ASSUME NEW u \in updates[p], NEW r \in DOMAIN rows, MatchUpdate(p, u, r)
          PROVE  r = matched'[p].row /\ Backed(r)
      <4>1. matched'[p] = [row |-> r, state |-> rows[r].state, update |-> u]
        BY <3>2 DEF MatchUpdate, PdpInv, TypeInv, SyncTypeOK
      <4>2. rows[r].state = "SENT" /\ matched'[p].row = r
        BY <2>2, <4>1
      <4> QED
        BY <4>2 DEF PdpInv, QueueInv, SentIsBacked, Backed
    <3>3. CASE SamePoll(p)
      BY <2>2, <3>1, <3>3 DEF SamePoll
    <3>4. CASE PollStep(p) \/ PollFails(p) \/ \E c \in Connections : receive(p, c)
      <4>1. \/ ApplyBegins(p)
            \/ \E u \in updates[p] : \E r \in DOMAIN rows : MatchUpdate(p, u, r)
            \/ SamePoll(p)
        BY <2>2, <3>4 DEF PollStep, PollStarts, receive, ReadsConnection, PollNothing, PollFetches,
           PollEnds, DropUnmatched, SkipDuplicate, ApplyCommits, WalkPast, WriteCursor, PollFails,
           syncVars, pollVars, PdpInv, TypeInv, SyncTypeOK, SamePoll
      <4>2. CASE ApplyBegins(p)
        BY <3>1, <4>2 DEF ApplyBegins
      <4> QED
        BY <3>2, <3>3, <4>1, <4>2
    <3>5. SamePoll(p) \/ PollStep(p) \/ PollFails(p) \/ \E c \in Connections : receive(p, c)
      <4>1. CASE \E q \in Pollers \ {p} :
                   PollStep(q) \/ PollFails(q) \/ \E c \in Connections : receive(q, c)
        BY <4>1, PollsApart DEF PdpInv
      <4>2. CASE UNCHANGED pollVars
        BY <4>2 DEF SamePoll, pollVars
      <4> QED
        BY <4>1, <4>2 DEF SyncNext, PlatformReports, svars, syncVars
    <3> QED
      BY <3>2, <3>3, <3>4, <3>5
  <2>3. ASSUME NEW p \in Pollers, ppc'[p] \in {"apply", "commit"}, matched'[p].state = "SENT"
        PROVE  Backed(matched[p].row)'
    <3>1. PICK r \in DOMAIN rows : r = matched'[p].row /\ Backed(r)
      BY <2>2, <2>3
    <3>2. Backed(r)'
      BY <2>1, <3>1
    <3> QED
      BY <3>1, <3>2 DEF Backed
  <2> QED
    BY <2>3 DEF FoundSentIsBacked
<1> QED
  BY <1>1, <1>2, <1>3, <1>4 DEF PdpInv


LEMMA PdpSteps == PdpInv /\ [PdpNext]_pdpVars => PdpInv'
<1> SUFFICES ASSUME PdpInv, [PdpNext]_pdpVars
             PROVE  PdpInv'
  OBVIOUS
<1>1. CASE Next /\ UNCHANGED syncVars
  BY <1>1, QueueSteps
<1>2. CASE SyncNext /\ UNCHANGED queueVars
  BY <1>2, PollSteps
<1>3. CASE UNCHANGED pdpVars
  <2>1. UNCHANGED vars /\ UNCHANGED syncVars
    BY <1>3 DEF pdpVars, vars
  <2> QED
    BY <2>1, QueueSteps
<1> QED
  BY <1>1, <1>2, <1>3 DEF PdpNext

LEMMA PdpInitInv == PdpInit => PdpInv
<1> SUFFICES ASSUME PdpInit
             PROVE  PdpInv
  OBVIOUS
<1>1. QueueInv
  BY InitInv DEF PdpInit
<1>2. /\ DOMAIN rows = {} /\ feed = {}
      /\ \A p \in Pollers : ppc[p] = "idle" /\ updates[p] = {}
  BY DEF PdpInit, Init, StoreInit, SyncInit
<1>3. SyncTypeOK
  BY FeedAssumption DEF PdpInit, SyncInit, SyncTypeOK
<1>4. RowsFit /\ FeedFits /\ \A p \in Pollers : PollFits(p)
  BY <1>2 DEF RowsFit, FeedFits, PollFits
<1> QED
  BY <1>1, <1>2, <1>3, <1>4 DEF PdpInv, QueueInv, TypeOK, TypeInv, FeedIsHeld, FoundSentIsBacked

(* The invariants of the queue and of the poller hold of both at once. *)
THEOREM PdpInvariant == PdpSpec => []PdpInv
BY PdpInitInv, PdpSteps, PTL DEF PdpSpec

(* However statuses come in while documents are sent, none reaches two platforms. *)
THEOREM PolledOneDelivery == PdpSpec => []DeliveredOnce
<1>1. PdpInv => DeliveredOnce
  BY KeyTyped DEF PdpInv, QueueInv, KeysAreUnique, HeldThroughRow, DeliveredOnce
<1> QED
  BY <1>1, PdpInvariant, PTL

(* A row that is done is backed, whether recordSent or a status has made it so: the *)
(* row state an acknowledgement is decided on was read before its transaction       *)
(* (applyStatus), and a retry may have requeued the row since.                      *)
THEOREM PolledSentBacked == PdpSpec => []SentIsBacked
<1>1. PdpInv => SentIsBacked
  BY DEF PdpInv, QueueInv
<1> QED
  BY <1>1, PdpInvariant, PTL

---------------------------------------------------------------------------
(* What the poller promises, beside the queue *)

(* What the queue writes on a timeline is dated before anything a platform reports: *)
(* the failures, and the deposit of an invoice that is now shown as sent.           *)
LEMMA QueueWritesInternal ==
  ASSUME QueueInv, QueueInv', [Next]_vars
  PROVE  \A s \in timeline' :
           \/ s \in timeline
           \/ /\ s.at = ACCEPTED_AT
              /\ s.code \in INTERNAL_CODES \/ (s.code = "DEPOSEE" /\ ShownAsSent(s.invoice)')
<1>1. ASSUME NEW w \in Workers, recordSent(w), NEW s \in timeline', s \notin timeline
      PROVE  s.at = ACCEPTED_AT /\ s.code = "DEPOSEE" /\ ShownAsSent(s.invoice)'
  <2> DEFINE r == run[w].row
  <2>1. /\ s = Status(rows[r].invoice, "DEPOSEE", ACCEPTED_AT) /\ pc[w] = "record"
        /\ rows' = [rows EXCEPT ![r].state = "SENT",
                      ![r].externalId = ExternalIdOf[<<rows[r].conn, rows[r].key>>],
                      ![r].claimedBy = None, ![r].stale = FALSE]
    BY <1>1 DEF recordSent
  <2>2. WorkInHand /\ rows \in [DOMAIN rows -> TransmissionRow]
    BY DEF QueueInv, TypeOK, StoreTypeOK
  <2>3. r \in DOMAIN rows
    BY ONLY <2>1, <2>2 DEF WorkInHand
  <2> HIDE DEF r
  <2>4. PICK i : i = rows[r].invoice
    OBVIOUS
  <2>5. r \in DOMAIN rows' /\ rows'[r].state = "SENT" /\ rows'[r].invoice = i
    BY <2>1, <2>2, <2>3, <2>4 DEF TransmissionRow
  <2>6. \A q \in DOMAIN rows' : rows'[q].state = "SENT" =>
          STATE_RANK[invoiceState'[rows'[q].invoice]] >= STATE_RANK["TRANSMITTED"]
    BY DEF QueueInv, SentIsBacked, ShownAsSent
  <2>7. ShownAsSent(i)'
    BY <2>5, <2>6 DEF ShownAsSent
  <2>8. s.at = ACCEPTED_AT /\ s.code = "DEPOSEE" /\ s.invoice = i
    BY <2>1, <2>4 DEF Status
  <2> QED
    BY <2>7, <2>8
<1>2. ASSUME NEW w \in Workers, recordFailure(w), NEW s \in timeline', s \notin timeline
      PROVE  s.at = ACCEPTED_AT /\ s.code \in INTERNAL_CODES
  <2> DEFINE code == IF Parks(run[w], outcome[w])
                     THEN "TRANSMISSION_ABANDONNEE" ELSE "TRANSMISSION_ECHOUEE"
  <2>1. s = Status(rows[run[w].row].invoice, code, INTERNAL_TIME)
    <3>1. timeline' = timeline \cup {Status(rows[run[w].row].invoice, code, INTERNAL_TIME)}
      BY <1>2 DEF recordFailure
    <3> QED
      BY <1>2, <3>1
  <2>2. code \in INTERNAL_CODES
    BY DEF INTERNAL_CODES
  <2> HIDE DEF code
  <2> QED
    BY <2>1, <2>2 DEF Status, ACCEPTED_AT, INTERNAL_TIME
<1>3. ASSUME NEW w \in Workers, WorkerStep(w) \/ WorkerFault(w), ~recordSent(w), ~recordFailure(w)
      PROVE  timeline' = timeline
  BY <1>3 DEF WorkerStep, WorkerFault, enqueuePending, SweepEnqueue, SweepSkip, drain, Attempt,
     TransmitAccepted, TransmitAnswerLost, TransmitFails, TransmitUnresolved, NotTransmittable,
     AttemptEnds, EnqueueCommit, EnqueueAbort, recordSentFails, Crash, storeVars
<1>4. ASSUME NEW c \in Callers, CallerStep(c)
      PROVE  timeline' = timeline
  BY <1>4 DEF CallerStep, transmit, EnqueueCommit, EnqueueAbort, RetryReads, RetryWrites, storeVars
<1>5. Settings \/ Clock \/ UNCHANGED vars => timeline' = timeline
  BY DEF Settings, Clock, upsert, deactivate, BackoffElapses, LeaseExpires, vars, storeVars
<1> QED
  BY <1>1, <1>2, <1>3, <1>4, <1>5 DEF Next

(* A status is never attached to the wrong invoice: what a timeline has beyond the *)
(* deposit and the failures, the platform of the document reported of it.          *)
THEOREM PolledAttributed == PdpSpec => []NothingMisattributed
<1>1. PdpInit => NothingMisattributed
  BY DEF PdpInit, Init, StoreInit, NothingMisattributed
<1>2. PdpInv /\ NothingMisattributed /\ [PdpNext]_pdpVars => NothingMisattributed'
  <2> SUFFICES ASSUME PdpInv, NothingMisattributed, [PdpNext]_pdpVars
               PROVE  NothingMisattributed'
    OBVIOUS
  <2>1. CASE [Next]_vars /\ UNCHANGED syncVars
    <3>1. feed' = feed /\ \A s \in timeline' : s \in timeline \/ s.at = ACCEPTED_AT
      BY <2>1, QueueSteps, QueueWritesInternal DEF syncVars, PdpInv
    <3>2. ASSUME NEW s \in timeline', s.at > ACCEPTED_AT
          PROVE  \E u \in feed : /\ transmissionKey(s.invoice) = u.key
                                  /\ s.code = u.code /\ s.at = u.at
      BY <3>1, <3>2 DEF NothingMisattributed, ACCEPTED_AT
    <3> QED
      BY <3>1, <3>2 DEF NothingMisattributed, transmissionKey
  <2>2. CASE SyncNext /\ UNCHANGED queueVars
    BY <2>2, AttributedSteps DEF PdpInv
  <2> QED
    BY <2>1, <2>2 DEF PdpNext, pdpVars, vars
<1> QED
  BY <1>1, <1>2, PdpInvariant, PTL DEF PdpSpec

---------------------------------------------------------------------------
(* The cursor, beside the queue *)

LEMMA RecordedLasts ==
  ASSUME PdpInv, QueueKeeps, NEW c \in Connections, NEW k \in Keys, Recorded(c, k)
  PROVE  Recorded(c, k)'
<1>1. PICK r \in DOMAIN rows : rows[r].conn = c /\ rows[r].key = k /\ rows[r].externalId # None
  BY DEF Recorded
<1>2. /\ r \in DOMAIN rows' /\ rows'[r].conn = c /\ rows'[r].key = k
      /\ rows'[r].externalId = rows[r].externalId \/ rows'[r].externalId = ExternalIdOf[<<c, k>>]
  BY <1>1 DEF QueueKeeps
<1>3. ExternalIdOf[<<c, k>>] # None
  BY ExternalIdAssumption, NoneAssumption
<1> QED
  BY <1>1, <1>2, <1>3 DEF Recorded

LEMMA QueueKeepsUp ==
  ASSUME PdpInv, CursorInv, QueueKeeps, UNCHANGED syncVars
  PROVE  CursorInv'
<1> USE DEF syncVars, pollVars
<1>1. \A u \in feed : Kept(u) => Kept(u)'
  BY KeptStays DEF QueueKeeps
<1>2. FeedRecorded'
  <2>1. \A u \in feed : u.conn \in Connections /\ u.key \in Keys
    BY DEF PdpInv, TypeInv, SyncTypeOK, StatusUpdate
  <2> QED
    BY <2>1, RecordedLasts DEF CursorInv, FeedRecorded
<1>3. \A c \in Connections : Reported(c, cursor[c])' /\ Covered(c, cursor[c])'
  BY <1>1 DEF CursorInv, Reported, Covered
<1>4. \A p \in Pollers : PollCovers(p)'
  BY <1>1 DEF CursorInv, PollCovers, Reported, Covered
<1> QED
  BY <1>2, <1>3, <1>4 DEF CursorInv

LEMMA CursorKept == PdpInv /\ CursorInv /\ [PdpNext]_pdpVars => CursorInv'
<1> SUFFICES ASSUME PdpInv, CursorInv, [PdpNext]_pdpVars
             PROVE  CursorInv'
  OBVIOUS
<1>1. CASE [Next]_vars /\ UNCHANGED syncVars
  BY <1>1, QueueSteps, QueueKeepsUp
<1>2. CASE SyncNext /\ UNCHANGED queueVars
  BY <1>2, PollSteps, CursorSteps DEF PdpInv
<1> QED
  BY <1>1, <1>2 DEF PdpNext, pdpVars, vars

LEMMA CursorInvariant == PdpSpec => [](PdpInv /\ CursorInv)
<1>1. PdpInit => CursorInv
  BY DEF PdpInit, SyncInit, CursorInv, FeedRecorded, PollCovers, Covered, Reported
<1> QED
  BY <1>1, CursorKept, PdpInvariant, PTL DEF PdpSpec

(* The cursor leaves nothing behind while transmissions are still being recorded: of *)
(* what is reported up to it, only what came after a later report, or before the     *)
(* answer to transmit was recorded, is missing from the timelines.                   *)
THEOREM PolledCursorLags == PdpSpec => []CursorSkipsNothing
<1>1. CursorInv /\ PdpInv => CursorSkipsNothing
  BY CoveredIsKept DEF PdpInv, TypeInv, SyncTypeOK, StatusUpdate
<1> QED
  BY <1>1, CursorInvariant, PTL

---------------------------------------------------------------------------
(* The furthest point, beside the queue *)

(* An invoice whose transmission has an identifier has been shown as sent. *)
RecordedIsShown ==
  \A r \in DOMAIN rows : rows[r].externalId # None => ShownAsSent(rows[r].invoice)

LEMMA ShownByQueue ==
  ASSUME PdpInv, PdpInv', QueueKeeps, [Next]_vars, RecordedIsShown
  PROVE  RecordedIsShown'
<1> SUFFICES ASSUME NEW r \in DOMAIN rows', rows'[r].externalId # None,
                    NEW j, j = rows'[r].invoice
             PROVE  ShownAsSent(j)'
  BY DEF RecordedIsShown, ShownAsSent
<1>1. CASE rows'[r].state = "SENT"
  BY <1>1 DEF PdpInv, QueueInv, SentIsBacked, ShownAsSent
<1>2. CASE rows'[r].state # "SENT"
  <2>1. r \in DOMAIN rows /\ rows[r].externalId # None /\ rows'[r].invoice = rows[r].invoice
    BY <1>2 DEF QueueKeeps
  <2>2. PICK i \in Invoices : i = rows[r].invoice
    BY <2>1 DEF PdpInv, TypeInv, StoreTypeOK, TransmissionRow
  <2>3. ShownAsSent(i)
    BY <2>1, <2>2 DEF RecordedIsShown
  <2>4. ShownAsSent(i)'
    BY <2>3, QueueShows DEF PdpInv
  <2> QED
    BY <2>1, <2>2, <2>4 DEF ShownAsSent
<1> QED
  BY <1>1, <1>2

LEMMA ShownByPoll ==
  ASSUME PdpInv, [SyncNext]_svars, UNCHANGED queueVars, RecordedIsShown
  PROVE  RecordedIsShown'
<1> SUFFICES ASSUME NEW r \in DOMAIN rows', rows'[r].externalId # None,
                    NEW j, j = rows'[r].invoice
             PROVE  ShownAsSent(j)'
  BY DEF RecordedIsShown, ShownAsSent
<1>1. r \in DOMAIN rows /\ rows[r].externalId # None /\ rows'[r].invoice = rows[r].invoice
  BY PollSteps DEF SameTransmissions
<1>2. PICK i \in Invoices : i = rows[r].invoice
  BY <1>1 DEF PdpInv, TypeInv, StoreTypeOK, TransmissionRow
<1>3. ShownAsSent(i)
  BY <1>1, <1>2 DEF RecordedIsShown
<1>4. ShownAsSent(i)'
  <2>1. CASE ~\E p \in Pollers : ApplyCommits(p)
    BY <1>3, <2>1, TablesStand DEF storeVars, ShownAsSent
  <2>2. ASSUME NEW p \in Pollers, ApplyCommits(p)
        PROVE  ShownAsSent(i)'
    BY <1>3, <2>2, CommitIsWrite, WriteShows DEF PdpInv
  <2> QED
    BY <2>1, <2>2
<1> QED
  BY <1>1, <1>2, <1>4 DEF ShownAsSent

(* The queue leaves the state of an invoice that is shown as sent. *)
LEMMA ShownStands ==
  ASSUME QueueInv, [Next]_vars, NEW i \in Invoices, ShownAsSent(i)
  PROVE  invoiceState'[i] = invoiceState[i]
<1>1. invoiceState \in [Invoices -> InvoiceStates]
  BY DEF QueueInv, TypeOK, StoreTypeOK
<1>2. invoiceState[i] # "VALIDATED" /\ advanceState(invoiceState[i], "DEPOSEE") = invoiceState[i]
  BY <1>1 DEF ShownAsSent, advanceState, isLifecycleCode, KNOWN_CODES, LIFECYCLE_DEFINITIONS, STATE_RANK,
     InvoiceStates
<1> QED
  BY <1>1, <1>2, StateSteps

(* What the queue puts on a timeline the invoice has reached. *)
LEMMA QueueReaches ==
  ASSUME PdpInv, PdpInv', [Next]_vars, UncontendedIsFurthest, UNCHANGED contended
  PROVE  UncontendedIsFurthest'
<1>1. ASSUME NEW s \in timeline', s \notin timeline
      PROVE  Reach(s.code) <= STATE_RANK[invoiceState'[s.invoice]]
  <2>1. CASE s.code = "DEPOSEE" /\ ShownAsSent(s.invoice)'
    BY <2>1 DEF Reach, ShownAsSent, isLifecycleCode, KNOWN_CODES, LIFECYCLE_DEFINITIONS
  <2>2. CASE s.code \in INTERNAL_CODES
    <3>1. s.invoice \in Invoices
      BY DEF PdpInv, TypeInv, StoreTypeOK
    <3>2. STATE_RANK[invoiceState'[s.invoice]] \in Nat
      BY <3>1 DEF PdpInv, TypeInv, StoreTypeOK, InvoiceStates, STATE_RANK
    <3>3. Reach(s.code) = 0
      BY <2>2 DEF Reach, isLifecycleCode, KNOWN_CODES, LIFECYCLE_DEFINITIONS, INTERNAL_CODES
    <3> QED
      BY <3>2, <3>3
  <2> QED
    BY <1>1, <2>1, <2>2, QueueWritesInternal DEF PdpInv
<1>2. ASSUME NEW s \in timeline, s.invoice \notin contended
      PROVE  Reach(s.code) <= STATE_RANK[invoiceState'[s.invoice]]
  <2>1. s.invoice \in Invoices /\ Reach(s.code) <= STATE_RANK[invoiceState[s.invoice]]
    BY <1>2 DEF UncontendedIsFurthest, PdpInv, TypeInv, StoreTypeOK
  <2>2. STATE_RANK[invoiceState'[s.invoice]] >= STATE_RANK[invoiceState[s.invoice]]
    BY <2>1, RankStep DEF PdpInv
  <2>3. /\ invoiceState[s.invoice] \in InvoiceStates /\ invoiceState'[s.invoice] \in InvoiceStates
    BY <2>1 DEF PdpInv, TypeInv, StoreTypeOK
  <2> QED
    BY <2>1, <2>2, <2>3, AdvanceReaches
<1> QED
  BY <1>1, <1>2 DEF UncontendedIsFurthest, Reach

LEMMA QueueFurthest ==
  ASSUME PdpInv, PdpInv', QueueKeeps, RecordedIsShown, FurthestInv, [Next]_vars, UNCHANGED syncVars
  PROVE  FurthestInv'
<1> USE DEF syncVars, pollVars
<1>1. UncontendedIsFurthest'
  BY QueueReaches DEF FurthestInv
<1>2. OneWriterInTurn'
  BY DEF FurthestInv, OneWriterInTurn, OutOfTurn, transmissionKey
<1>3. ASSUME NEW p \in Pollers, ppc[p] = "commit"
      PROVE  /\ InvoiceInHand(p)' = InvoiceInHand(p) /\ PendingStatus(p)' = PendingStatus(p)
             /\ InvoiceInHand(p) \in Invoices /\ ShownAsSent(InvoiceInHand(p))
             /\ PendingStatus(p) \notin timeline'
  <2>1. /\ matched[p].row \in DOMAIN rows /\ matched[p].update \in feed
        /\ MatchesUpdate(matched[p].row, matched[p].update)
    BY <1>3 DEF PdpInv, TypeInv, PollFits, IsNext
  <2>2. InvoiceInHand(p)' = InvoiceInHand(p) /\ PendingStatus(p)' = PendingStatus(p)
    BY <2>1 DEF QueueKeeps, InvoiceInHand, PendingStatus, Status
  <2>3. rows[matched[p].row].externalId # None
    <3>1. matched[p].update.externalId \in ExternalIds
      BY <2>1 DEF PdpInv, TypeInv, SyncTypeOK, StatusUpdate
    <3> QED
      BY <2>1, <3>1, NoneAssumption DEF MatchesUpdate
  <2>4. ShownAsSent(InvoiceInHand(p)) /\ InvoiceInHand(p) \in Invoices
    BY <1>3, <2>1, <2>3, PendingIsOwn DEF RecordedIsShown, InvoiceInHand, PdpInv
  <2>5. PendingStatus(p).at > ACCEPTED_AT
    BY <2>1, FeedAssumption DEF PendingStatus, Status, ACCEPTED_AT, PdpInv, TypeInv, SyncTypeOK, StatusUpdate
  <2>6. PendingStatus(p) \notin timeline
    BY <1>3 DEF FurthestInv, WriterInv
  <2>7. PendingStatus(p) \notin timeline'
    BY <2>5, <2>6, QueueWritesInternal DEF PdpInv, ACCEPTED_AT
  <2> QED
    BY <2>2, <2>4, <2>7
<1>4. ASSUME NEW p \in Pollers, ppc[p] = "commit"
      PROVE  invoiceState'[InvoiceInHand(p)] = invoiceState[InvoiceInHand(p)]
  BY <1>3, <1>4, ShownStands DEF PdpInv
<1>5. WriterInv'
  BY <1>3, <1>4 DEF FurthestInv, WriterInv
<1> QED
  BY <1>1, <1>2, <1>5 DEF FurthestInv

LEMMA FurthestKept ==
  PdpInv /\ CursorInv /\ RecordedIsShown /\ FurthestInv /\ [PdpNext]_pdpVars
    => RecordedIsShown' /\ FurthestInv'
<1> SUFFICES ASSUME PdpInv, CursorInv, RecordedIsShown, FurthestInv, [PdpNext]_pdpVars
             PROVE  RecordedIsShown' /\ FurthestInv'
  OBVIOUS
<1>1. CASE [Next]_vars /\ UNCHANGED syncVars
  BY <1>1, QueueSteps, ShownByQueue, QueueFurthest
<1>2. CASE SyncNext /\ UNCHANGED queueVars
  BY <1>2, ShownByPoll, FurthestSteps DEF PdpInv
<1> QED
  BY <1>1, <1>2 DEF PdpNext, pdpVars, vars

LEMMA PolledFurthestInvariant == PdpSpec => []FurthestInv
<1>1. PdpInit => RecordedIsShown /\ FurthestInv
  BY DEF PdpInit, Init, StoreInit, SyncInit, RecordedIsShown, FurthestInv, WriterInv,
         UncontendedIsFurthest, OneWriterInTurn
<1> QED
  BY <1>1, FurthestKept, CursorInvariant, PTL DEF PdpSpec

(* The state of an invoice is the furthest point reached though the queue writes it  *)
(* beside the polls: what a transaction of applyStatus has read of an invoice, no    *)
(* late enqueue, deposit or retry changes under it.                                  *)
THEOREM PolledFurthestPoint == PdpSpec => []StateIsFurthestPoint
<1>1. FurthestInv => StateIsFurthestPoint
  BY DEF FurthestInv, UncontendedIsFurthest, OneWriterInTurn, StateIsFurthestPoint
<1> QED
  BY <1>1, PolledFurthestInvariant, PTL

---------------------------------------------------------------------------
(* The abstract specification *)

(* A status shows an invoice that has been delivered as sent, or nothing new. *)
LEMMA RefinesStatus ==
  ASSUME PdpInv, [SyncNext]_svars, UNCHANGED queueVars
  PROVE  [H!Next]_(H!vars)
<1>1. /\ held' = held
      /\ \A i \in Invoices :
           {rows'[r].conn : r \in {x \in DOMAIN rows' : rows'[x].key = transmissionKey(i)}}
             = {rows[r].conn : r \in {x \in DOMAIN rows : rows[x].key = transmissionKey(i)}}
  BY PollSteps, TablesStand DEF SameTransmissions, ApplyCommits
<1>2. CASE \A i \in Invoices : ShownAsSent(i)' <=> ShownAsSent(i)
  <2>1. UNCHANGED H!vars
    BY <1>1, <1>2 DEF H!vars, transmissionKey
  <2> QED
    BY <2>1
<1>3. ASSUME NEW i \in Invoices, ShownAsSent(i)' /\ ~ShownAsSent(i),
             \A j \in Invoices : j # i => (ShownAsSent(j)' <=> ShownAsSent(j))
      PROVE  H!Show(i)
  <2>1. \E c \in Connections : <<c, transmissionKey(i)>> \in held
    BY <1>1, <1>3, PollSteps DEF PdpInv, QueueInv, ShownIsHeld, transmissionKey
  <2> QED
    BY <1>1, <1>3, <2>1 DEF H!Show, transmissionKey
<1>4. CASE ~\E p \in Pollers : ApplyCommits(p)
  <2>1. \A i \in Invoices : ShownAsSent(i)' <=> ShownAsSent(i)
    BY <1>4, TablesStand DEF ShownAsSent, storeVars
  <2> QED
    BY <1>2, <2>1
<1>5. ASSUME NEW p \in Pollers, ApplyCommits(p)
      PROVE  [H!Next]_(H!vars)
  <2> PICK i : i = rows[matched[p].row].invoice
    OBVIOUS
  <2>1. PollWrites(p) /\ QueueInv /\ i \in Invoices
    BY <1>5, CommitIsWrite DEF PdpInv, PollWrites
  <2>2. \A j \in Invoices : j # i => (ShownAsSent(j)' <=> ShownAsSent(j))
    BY <2>1, WriteShows DEF ShownAsSent
  <2>3. ShownAsSent(i) => ShownAsSent(i)'
    BY <2>1, WriteShows
  <2>4. CASE ShownAsSent(i)' <=> ShownAsSent(i)
    BY <1>2, <2>2, <2>4
  <2>5. CASE ShownAsSent(i)' /\ ~ShownAsSent(i)
    BY <1>3, <2>1, <2>2, <2>5 DEF H!Next
  <2> QED
    BY <2>3, <2>4, <2>5
<1> QED
  BY <1>4, <1>5

(* The queue implements Handover with its statuses coming in as well: an invoice is *)
(* shown as sent only when a platform has it, though a status may say so before     *)
(* recordSent does, and nothing that a status writes takes it back.                 *)
THEOREM PolledRefinement == PdpSpec => ImplementsHandover
<1>1. PdpInit => H!Init
  BY RefinesInit DEF PdpInit
<1>2. PdpInv /\ PdpInv' /\ [PdpNext]_pdpVars => [H!Next]_(H!vars)
  <2> SUFFICES ASSUME PdpInv, PdpInv', [PdpNext]_pdpVars
               PROVE  [H!Next]_(H!vars)
    OBVIOUS
  <2>1. CASE [Next]_vars /\ UNCHANGED syncVars
    BY <2>1, RowSteps, RefinesBind, RefinesDeliver, RefinesShow DEF PdpInv
  <2>2. CASE SyncNext /\ UNCHANGED queueVars
    BY <2>2, RefinesStatus
  <2> QED
    BY <2>1, <2>2 DEF PdpNext, pdpVars, vars
<1> QED
  BY <1>1, <1>2, PdpInvariant, PTL DEF PdpSpec, ImplementsHandover, H!Spec
=============================================================================

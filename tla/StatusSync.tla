------------------------------- MODULE StatusSync -------------------------------
(***************************************************************************)
(* Pulling lifecycle statuses from the platforms: pollStatuses and         *)
(* applyStatus of apps/api/src/pdp/pdp-sync.service.ts.                    *)
(*                                                                         *)
(* A poll reads a connection row with its cursor, fetches what the         *)
(* platform reports after that cursor, and walks the list oldest first.    *)
(* For each update it looks the transmission up, then runs a transaction:  *)
(* insert the status, read the invoice, write what advanceState says.      *)
(* The transaction is two steps, for it runs at READ COMMITTED and the     *)
(* invoice may change between its read and its write; its insertion makes  *)
(* any other transaction inserting the same status wait.  Last, the poll   *)
(* moves the cursor to the last update it walked past.  Polls of the timer *)
(* and of webhooks run at the same time, each one a poller here.           *)
(*                                                                         *)
(* Times are a platform's own timestamps, no two alike on one platform;    *)
(* cursor 0 is a cold start.                                               *)
(***************************************************************************)
EXTENDS PdpStore

CONSTANTS
  Pollers,        \* polls that may be under way at once
  FeedCodes,      \* the codes platforms report in a model
  MaxAt,          \* the last platform timestamp of a model
  MaxPollFaults   \* bound of a model: polls cut short

ASSUME FeedAssumption ==
  /\ FeedCodes \subseteq PLATFORM_CODES
  /\ MaxAt \in Nat /\ MaxPollFaults \in Nat

VARIABLES
  feed,           \* platforms: every status reported so far
  cursor,         \* PdpConnection.statusCursor
  ppc,            \* poller: where the poll is
  pconn,          \* poller: the connection it polls
  since,          \* poller: the cursor it read with the connection
  updates,        \* poller: fetched and not yet walked past
  matched,        \* poller: the update in hand and its transmission, as it was read
  seen,           \* poller: the invoice state its transaction has read
  watermark,      \* poller: the timestamp of the last update walked past
  contended,      \* history, read by no action: invoices on which two transactions of
                  \* applyStatus have been open at once
  pollFaults

pollVars == <<ppc, pconn, since, updates, matched, seen, watermark>>
syncVars == <<feed, cursor, pollVars, contended, pollFaults>>

StatusUpdate ==
  [conn : Connections, externalId : ExternalIds, key : Keys, code : FeedCodes, at : 1..MaxAt,
   late : BOOLEAN, early : BOOLEAN]

Match == [row : RowIds, state : TransmissionStates, update : StatusUpdate]

SyncTypeOK ==
  /\ feed \in SUBSET StatusUpdate
  /\ cursor \in [Connections -> 0..MaxAt]
  /\ ppc \in [Pollers -> {"idle", "fetch", "match", "apply", "commit", "cursor"}]
  /\ pconn \in [Pollers -> Connections \cup {None}]
  /\ since \in [Pollers -> 0..MaxAt]
  /\ updates \in [Pollers -> SUBSET StatusUpdate]
  /\ matched \in [Pollers -> Match \cup {None}]
  /\ seen \in [Pollers -> InvoiceStates \cup {None}]
  /\ watermark \in [Pollers -> 0..MaxAt]
  /\ contended \subseteq Invoices
  /\ pollFaults \in 0..MaxPollFaults

SyncInit ==
  /\ feed = {}
  /\ cursor = [c \in Connections |-> 0]
  /\ ppc = [p \in Pollers |-> "idle"]
  /\ pconn = [p \in Pollers |-> None]
  /\ since = [p \in Pollers |-> 0]
  /\ updates = [p \in Pollers |-> {}]
  /\ matched = [p \in Pollers |-> None]
  /\ seen = [p \in Pollers |-> None]
  /\ watermark = [p \in Pollers |-> 0]
  /\ contended = {}
  /\ pollFaults = 0

---------------------------------------------------------------------------
(* The platform reports on a document it holds.  It knows the document by the *)
(* identifier it gave.  It reports in any order, and may do so before the       *)
(* attempt is recorded.  key, late (a later report of the platform was there    *)
(* before this one) and early (the row had no identifier yet) are there for the *)
(* properties and are never read.                                               *)

Recorded(c, k) == \E r \in DOMAIN rows :
  rows[r].conn = c /\ rows[r].key = k /\ rows[r].externalId # None

PlatformReports(c, k, code, at) ==
  /\ <<c, k>> \in held
  /\ \A u \in feed : u.conn = c => u.at # at
  /\ feed' = feed \cup {[conn |-> c, externalId |-> ExternalIdOf[<<c, k>>], key |-> k,
                         code |-> code, at |-> at,
                         late |-> \E u \in feed : u.conn = c /\ u.at > at,
                         early |-> ~Recorded(c, k)]}
  /\ UNCHANGED <<cursor, pollVars, contended, pollFaults, storeVars, held>>

---------------------------------------------------------------------------
(* pollConnection and pollStatuses *)

\* Forget the poll: it is over.
PollEnds(p) ==
  /\ ppc' = [ppc EXCEPT ![p] = "idle"]
  /\ pconn' = [pconn EXCEPT ![p] = None]
  /\ since' = [since EXCEPT ![p] = 0]
  /\ updates' = [updates EXCEPT ![p] = {}]
  /\ matched' = [matched EXCEPT ![p] = None]
  /\ seen' = [seen EXCEPT ![p] = None]
  /\ watermark' = [watermark EXCEPT ![p] = 0]

\* The connection row is read with its cursor.
ReadsConnection(p, c) ==
  /\ ppc[p] = "idle"
  /\ c \in active
  /\ ppc' = [ppc EXCEPT ![p] = "fetch"]
  /\ pconn' = [pconn EXCEPT ![p] = c]
  /\ since' = [since EXCEPT ![p] = cursor[c]]
  /\ UNCHANGED <<feed, cursor, updates, matched, seen, watermark, contended, pollFaults, storeVars, held>>

\* activeConnections leaves out a connection without an adapter.  One whose
\* credentials cannot be read is polled, fails and is as if left out.
PollStarts(p, c) == c \notin Unresolvable /\ ReadsConnection(p, c)

\* A platform presents the token of its webhook outside of the debounce window.  A
\* notice inside of the window, or of an inactive connection, is accepted and changes
\* nothing; the window is a matter of time, and any notice may be outside of it.
receive(p, c) == ReadsConnection(p, c)

\* pollAll finds no connection to poll.
PollNothing(p) ==
  /\ ppc[p] = "idle" /\ active \subseteq Unresolvable
  /\ UNCHANGED <<syncVars, storeVars, held>>

\* fetchStatuses returns what is later than since, strictly.
Fetched(p) == {u \in feed : u.conn = pconn[p] /\ u.at > since[p]}

\* A webhook's poll of a connection that cannot be resolved fails here.
PollFetches(p) ==
  /\ ppc[p] = "fetch"
  /\ IF Fetched(p) = {} \/ pconn[p] \in Unresolvable
     THEN PollEnds(p)
     ELSE /\ ppc' = [ppc EXCEPT ![p] = "match"]
          /\ updates' = [updates EXCEPT ![p] = Fetched(p)]
          /\ UNCHANGED <<pconn, since, matched, seen, watermark>>
  /\ UNCHANGED <<feed, cursor, contended, pollFaults, storeVars, held>>

\* The next update: the list is sorted by occurredAt.
IsNext(p, u) == u \in updates[p] /\ \A v \in updates[p] : u.at <= v.at

\* Mutation: the identifier alone.
MatchesIdentifier(r, u) == rows[r].externalId = u.externalId

\* Mutation: only a transmission that is still open.
MatchesOpen(r, u) == MatchesIdentifier(r, u) /\ rows[r].conn = u.conn /\ rows[r].state = "SENT"

\* The transmission of an update: same identifier, same connection.
MatchesUpdate(r, u) == rows[r].externalId = u.externalId /\ rows[r].conn = u.conn

\* u is dealt with: the watermark moves to it.
WalkPast(p, u) ==
  /\ updates' = [updates EXCEPT ![p] = @ \ {u}]
  /\ watermark' = [watermark EXCEPT ![p] = u.at]
  /\ ppc' = [ppc EXCEPT ![p] = IF updates[p] = {u} THEN "cursor" ELSE "match"]
  /\ matched' = [matched EXCEPT ![p] = None]
  /\ seen' = [seen EXCEPT ![p] = None]
  /\ UNCHANGED <<pconn, since, feed, cursor, contended, pollFaults>>

DropUnmatched(p, u) ==
  /\ ppc[p] = "match" /\ IsNext(p, u)
  /\ ~\E r \in DOMAIN rows : MatchesUpdate(r, u)
  /\ WalkPast(p, u)
  /\ UNCHANGED <<storeVars, held>>

MatchUpdate(p, u, r) ==
  /\ ppc[p] = "match" /\ IsNext(p, u)
  /\ r \in DOMAIN rows /\ MatchesUpdate(r, u)
  /\ ppc' = [ppc EXCEPT ![p] = "apply"]
  /\ matched' = [matched EXCEPT ![p] = [row |-> r, state |-> rows[r].state, update |-> u]]
  /\ UNCHANGED <<feed, cursor, pconn, since, updates, seen, watermark, contended, pollFaults,
                 storeVars, held>>

InvoiceInHand(p) == rows[matched[p].row].invoice

\* The status that the update in hand becomes.
PendingStatus(p) ==
  Status(InvoiceInHand(p), matched[p].update.code, matched[p].update.at)

\* applyStatus inserts first, with skipDuplicates: a status already there ends it.
SkipDuplicate(p) ==
  /\ ppc[p] = "apply"
  /\ PendingStatus(p) \in timeline
  /\ WalkPast(p, matched[p].update)
  /\ UNCHANGED <<storeVars, held>>

\* The insertion waits for any transaction that has inserted the same status and
\* is still open; then the invoice is read.
ApplyBegins(p) ==
  /\ ppc[p] = "apply"
  /\ PendingStatus(p) \notin timeline
  /\ \A q \in Pollers : ppc[q] = "commit" => PendingStatus(q) # PendingStatus(p)
  /\ ppc' = [ppc EXCEPT ![p] = "commit"]
  /\ seen' = [seen EXCEPT ![p] = invoiceState[InvoiceInHand(p)]]
  /\ contended' = contended \cup
       {i \in {InvoiceInHand(p)} : \E q \in Pollers : ppc[q] = "commit" /\ InvoiceInHand(q) = i}
  /\ UNCHANGED <<feed, cursor, pconn, since, updates, matched, watermark, pollFaults,
                 storeVars, held>>

\* The row after a status: closed out if the receiving side has the document and the
\* row was SENT when it was looked up; parked if it was refused and is PENDING now.
RowAfter(row, readState, code) ==
  IF code \in ACKNOWLEDGING_CODES /\ readState = "SENT"
  THEN [row EXCEPT !.state = "ACKNOWLEDGED"]
  ELSE IF code \in REJECTING_CODES /\ row.state = "PENDING"
       THEN [row EXCEPT !.state = "FAILED"]
       ELSE row

\* The state is written only if advanceState moves what was read.
ApplyCommits(p) ==
  /\ ppc[p] = "commit"
  /\ LET m == matched[p]
         i == rows[m.row].invoice
         next == advanceState(seen[p], m.update.code)
     IN  /\ timeline' = timeline \cup {PendingStatus(p)}
         /\ invoiceState' = IF next = seen[p] THEN invoiceState
                            ELSE [invoiceState EXCEPT ![i] = next]
         /\ rows' = [rows EXCEPT ![m.row] = RowAfter(@, m.state, m.update.code)]
         /\ WalkPast(p, m.update)
  /\ UNCHANGED <<active, held>>

\* Mutation: the cursor takes the time of writing.
WriteCursorNow(p) ==
  /\ ppc[p] = "cursor"
  /\ cursor' = [cursor EXCEPT ![pconn[p]] =
       CHOOSE t \in {u.at : u \in feed} : \A u \in feed : u.conn = pconn[p] => u.at <= t]
  /\ PollEnds(p)
  /\ UNCHANGED <<feed, contended, pollFaults, storeVars, held>>

\* The cursor takes the watermark, whatever another poll has made of it.
WriteCursor(p) ==
  /\ ppc[p] = "cursor"
  /\ cursor' = [cursor EXCEPT ![pconn[p]] = watermark[p]]
  /\ PollEnds(p)
  /\ UNCHANGED <<feed, contended, pollFaults, storeVars, held>>

\* The platform or the database fails, or the process dies: the open transaction
\* is rolled back and the cursor stays where it was.
PollFails(p) ==
  /\ ppc[p] # "idle"
  /\ pollFaults < MaxPollFaults
  /\ pollFaults' = pollFaults + 1
  /\ PollEnds(p)
  /\ UNCHANGED <<feed, cursor, contended, storeVars, held>>

---------------------------------------------------------------------------
PollStep(p) ==
  \/ \E c \in Connections : PollStarts(p, c)
  \/ PollNothing(p)
  \/ PollFetches(p)
  \/ \E u \in updates[p] : DropUnmatched(p, u)
  \/ \E u \in updates[p] : \E r \in DOMAIN rows : MatchUpdate(p, u, r)
  \/ SkipDuplicate(p)
  \/ ApplyBegins(p)
  \/ ApplyCommits(p)
  \/ WriteCursor(p)

SyncNext ==
  \/ \E c \in Connections, k \in Keys, code \in FeedCodes, at \in 1..MaxAt :
       PlatformReports(c, k, code, at)
  \/ \E p \in Pollers : PollStep(p) \/ PollFails(p)
  \/ \E p \in Pollers, c \in Connections : receive(p, c)

---------------------------------------------------------------------------
(* The poller by itself: every invoice has been handed over on whichever       *)
(* connection was active then.  The attempts of some are recorded, those of    *)
(* the others still on their way.  One connection may be active now.           *)

HandedOverRow(i, c, recorded) ==
  [invoice |-> i, key |-> transmissionKey(i), conn |-> c,
   state |-> IF recorded THEN "SENT" ELSE "PENDING",
   attempt |-> 1, due |-> TRUE, claimedBy |-> None, stale |-> FALSE,
   externalId |-> IF recorded THEN ExternalIdOf[<<c, transmissionKey(i)>>] ELSE None]

HandedOver ==
  \E via \in [Invoices -> Connections], recorded \in SUBSET Invoices :
    LET id == CHOOSE f \in [Invoices -> RowIds] : \A i, j \in Invoices : f[i] = f[j] => i = j
    IN  /\ rows = [r \in {id[i] : i \in Invoices} |->
                     LET i == CHOOSE i \in Invoices : id[i] = r
                     IN  HandedOverRow(i, via[i], i \in recorded)]
        /\ held = {<<via[i], transmissionKey(i)>> : i \in Invoices}
        /\ invoiceState = [i \in Invoices |-> IF i \in recorded THEN "TRANSMITTED" ELSE "QUEUED"]
        /\ timeline = {Status(i, "DEPOSEE", ACCEPTED_AT) : i \in recorded}
        /\ active \in {{}} \cup {{c} : c \in Connections}

HandedOverInit == HandedOver /\ SyncInit

svars == <<storeVars, held, syncVars>>

SyncSpec == HandedOverInit /\ [][SyncNext]_svars

\* PdpWorker schedules a poll after every poll, whatever became of the last one.
SyncFairness == \A p \in Pollers : WF_svars(PollStep(p))

FairSyncSpec == SyncSpec /\ SyncFairness

---------------------------------------------------------------------------
(* Properties *)

InvoiceOf(k) == CHOOSE i \in Invoices : transmissionKey(i) = k

\* How far a status takes an invoice by itself; 0 if it leaves the state alone.
Reach(code) ==
  IF isLifecycleCode(code) /\ LIFECYCLE_DEFINITIONS[code] # "NULL"
  THEN STATE_RANK[LIFECYCLE_DEFINITIONS[code]] ELSE 0

\* A report out of turn: after a later one of its platform, or before the row has
\* the identifier to match it by.
OutOfTurn(u) == u.late \/ u.early

\* "Invoice state is a function of the furthest point reached" (README, Statuses):
\* no committed status reaches further than the state its invoice shows, in whatever
\* order statuses were reported, fetched and applied, and whatever the queue writes
\* beside them.  Where it fails, two polls have had the invoice in a transaction at
\* once, which takes a report out of turn: the walk is oldest first, the cursor is
\* moved last, and a status waits for the same one that is being inserted.
StateIsFurthestPoint ==
  \A s \in timeline :
    \/ Reach(s.code) <= STATE_RANK[invoiceState[s.invoice]]
    \/ /\ s.invoice \in contended
       /\ \E u \in feed : u.key = transmissionKey(s.invoice) /\ OutOfTurn(u)

OnTimeline(u) == Status(InvoiceOf(u.key), u.code, u.at) \in timeline

\* The cursor lags on purpose: what a platform has reported in turn, up to the
\* cursor, is on the timeline of its invoice, whatever polls overlap or fail.
CursorSkipsNothing ==
  \A u \in feed : u.at <= cursor[u.conn] /\ ~OutOfTurn(u) => OnTimeline(u)

\* A status is never attached to the wrong invoice: what the timeline of an invoice
\* has from a platform, beyond the deposit, that platform reported of its document.
NothingMisattributed ==
  \A s \in timeline :
    s.at > ACCEPTED_AT =>
      \E u \in feed : /\ transmissionKey(s.invoice) = u.key
                      /\ s.code = u.code /\ s.at = u.at

\* Every status reported in turn on an active connection that can be resolved is
\* appended to the history of its invoice, polls that fail or overlap
\* notwithstanding.  A model's feed is finite and nothing leaves a timeline: in the
\* end all of it is there.
EveryStatusRecorded ==
  <>[](\A u \in feed : u.conn \in active \ Unresolvable /\ ~OutOfTurn(u) => OnTimeline(u))
================================================================================

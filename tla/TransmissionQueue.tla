--------------------------- MODULE TransmissionQueue ---------------------------
(***************************************************************************)
(* The transmission queue (apps/api/src/pdp/transmission.service.ts), the  *)
(* worker tick that drives it (pdp.worker.ts) and the requests that act on *)
(* it (pdp.controller.ts): how an issued invoice is handed to a platform.  *)
(*                                                                         *)
(* A worker repeats a cycle: sweep the VALIDATED invoices into the queue,  *)
(* claim a batch of due rows, and attempt them one after the other.  An    *)
(* attempt is a call to the platform followed by a transaction that        *)
(* records its outcome; between the two, anything else may happen.  What   *)
(* the code carries over such a gap is what it read before it: the         *)
(* invoice state and the connection in enqueue, the row state in retry,    *)
(* the claimed row in recordFailure.                                       *)
(*                                                                         *)
(* The platform is external: a call with a key it already holds changes    *)
(* nothing, as PdpProvider.transmit requires of every adapter.             *)
(***************************************************************************)
EXTENDS PdpStore

CONSTANTS
  Callers,        \* HTTP requests: transmit, retry
  DRAIN_LIMIT,    \* rows one drain claims
  SWEEP_LIMIT,    \* invoices one sweep queues
  MaxCrashes, MaxRetries, MaxSwitches   \* bounds of a model, not of the code

ASSUME LimitAssumption ==
  /\ DRAIN_LIMIT \in Nat \ {0}
  /\ SWEEP_LIMIT \in Nat \ {0}
  /\ MaxCrashes \in Nat /\ MaxRetries \in Nat /\ MaxSwitches \in Nat
ASSUME ProcessAssumption == Workers \cap Callers = {}

VARIABLES
  pc,             \* worker: where it is in its cycle
  todo,           \* worker: invoices the sweep has read and not yet queued
  enq,            \* worker or caller: what an enqueue in progress has read
  batch,          \* worker: rows claimed and not yet attempted, as they were claimed
  run,            \* worker: the row being attempted, as it was claimed
  outcome,        \* worker: what the attempt came to
  retrying,       \* caller: the row a retry has found retryable
  overrun,        \* history, read by no action: rows a worker has in hand although a
                  \* claim on them lapsed, or was cleared by a retry, under a worker
  crashes, retries, switches   \* how much of each bound is used

workerVars == <<pc, todo, batch, run, outcome>>
callVars == <<enq, retrying>>
bounds == <<crashes, retries, switches>>
queueVars == <<workerVars, callVars, overrun, bounds>>
vars == <<storeVars, held, queueVars>>

Processes == Workers \cup Callers

\* What recordFailure keeps of the claimed row.
Snapshot == [row : RowIds, attempt : Nat]

\* What enqueue has read when it opens its transaction.
EnqueueRead == [invoice : Invoices, conn : Connections, state : InvoiceStates]

\* What an attempt may come to: the provider has answered, the connection could not
\* be resolved, another error, or a NotTransmittableError.
Outcomes == {"none", "accepted", "unresolved", "transient", "permanent"}

QueueTypeOK ==
  /\ pc \in [Workers -> {"idle", "sweep", "attempt", "record"}]
  /\ todo \in [Workers -> SUBSET Invoices]
  /\ enq \in [Processes -> EnqueueRead \cup {None}]
  /\ batch \in [Workers -> SUBSET Snapshot]
  /\ run \in [Workers -> Snapshot \cup {None}]
  /\ outcome \in [Workers -> Outcomes]
  /\ retrying \in [Callers -> RowIds \cup {None}]
  /\ overrun \subseteq RowIds
  /\ crashes \in Nat /\ retries \in Nat /\ switches \in Nat

TypeOK == StoreTypeOK /\ QueueTypeOK

\* The worker has the row in hand: claimed and not yet attempted, or under way.
HoldsRow(w, r) ==
  \/ \E s \in batch[w] : s.row = r
  \/ pc[w] = "record" /\ run[w].row = r

\* A claim on r ends otherwise than with the attempt it was taken for.
ClaimEnds(r) == overrun' = overrun \cup {x \in {r} : \E w \in Workers : HoldsRow(w, x)}

\* A worker is done with rows; those that nobody has in hand any more are as new.
RowsPutDown == overrun' = {r \in overrun : \E w \in Workers : HoldsRow(w, r)'}

QueueInit ==
  /\ pc = [w \in Workers |-> "idle"]
  /\ todo = [w \in Workers |-> {}]
  /\ enq = [p \in Processes |-> None]
  /\ batch = [w \in Workers |-> {}]
  /\ run = [w \in Workers |-> None]
  /\ outcome = [w \in Workers |-> "none"]
  /\ retrying = [c \in Callers |-> None]
  /\ overrun = {}
  /\ crashes = 0 /\ retries = 0 /\ switches = 0

Init == StoreInit /\ QueueInit

---------------------------------------------------------------------------
(* enqueue *)

\* The reads of enqueue, up to its transaction.  Where the key is taken or no
\* connection is active, enqueue returns or throws and nothing has changed.  The
\* three reads are one step: while the invoice has no row nothing moves its state.
EnqueueReads(p, i) ==
  /\ enq[p] = None
  /\ ~KeyTaken(transmissionKey(i))
  /\ \E c \in active :
       enq' = [enq EXCEPT ![p] = [invoice |-> i, conn |-> c, state |-> invoiceState[i]]]

\* The row a transmission starts as; attempt is 1 by the schema's default.
NewRow(i, c) ==
  [invoice |-> i, key |-> transmissionKey(i), conn |-> c, state |-> "PENDING",
   attempt |-> 1, due |-> TRUE, claimedBy |-> None, stale |-> FALSE, externalId |-> None]

\* Mutation: one row per key and connection.
DuplicateOnConnection(e) ==
  \E r \in DOMAIN rows : rows[r].key = transmissionKey(e.invoice) /\ rows[r].conn = e.conn

\* Mutation: one row per key among those still in the queue.
DuplicatePending(e) ==
  \E r \in DOMAIN rows : rows[r].key = transmissionKey(e.invoice) /\ rows[r].state = "PENDING"

\* The row of an enqueue would be the second under its key.
Duplicate(e) == KeyTaken(transmissionKey(e.invoice))

\* The transaction of enqueue: the row and the invoice state together.  A unique
\* violation rolls it back and the call reports the winner's row.
EnqueueCommit(p) ==
  /\ enq[p] # None
  /\ enq' = [enq EXCEPT ![p] = None]
  /\ LET i == enq[p].invoice IN
       IF Duplicate(enq[p])
       THEN UNCHANGED <<rows, invoiceState>>
       ELSE /\ \E r \in RowIds \ DOMAIN rows :
                 rows' = [x \in DOMAIN rows \cup {r} |->
                            IF x = r THEN NewRow(i, enq[p].conn) ELSE rows[x]]
            /\ invoiceState' = IF enq[p].state \in {"VALIDATED", "DRAFT"}
                               THEN [invoiceState EXCEPT ![i] = "QUEUED"]
                               ELSE invoiceState
  /\ UNCHANGED <<timeline, active, held, workerVars, retrying, overrun, bounds>>

\* The transaction fails, or the process handling the call dies.
EnqueueAbort(p) ==
  /\ enq[p] # None
  /\ crashes < MaxCrashes
  /\ crashes' = crashes + 1
  /\ enq' = [enq EXCEPT ![p] = None]
  /\ UNCHANGED <<storeVars, held, workerVars, retrying, overrun, retries, switches>>

---------------------------------------------------------------------------
(* The worker's cycle: enqueuePending, then drain *)

SweepCandidates ==
  {i \in Invoices : invoiceState[i] = "VALIDATED" /\ ~HasTransmission(i) /\ active # {}}

\* S has as many of the elements of T as the limit n allows.
UpTo(n, S, T) ==
  /\ S \subseteq T
  /\ Cardinality(S) <= n
  /\ S = T \/ Cardinality(S) = n

enqueuePending(w) ==
  /\ pc[w] = "idle"
  /\ \E S \in SUBSET SweepCandidates :
       /\ UpTo(SWEEP_LIMIT, S, SweepCandidates)
       /\ todo' = [todo EXCEPT ![w] = S]
  /\ pc' = [pc EXCEPT ![w] = "sweep"]
  /\ UNCHANGED <<storeVars, held, batch, run, outcome, callVars, overrun, bounds>>

SweepEnqueue(w, i) ==
  /\ pc[w] = "sweep"
  /\ i \in todo[w]
  /\ todo' = [todo EXCEPT ![w] = @ \ {i}]
  /\ EnqueueReads(w, i)
  /\ UNCHANGED <<storeVars, held, pc, batch, run, outcome, retrying, overrun, bounds>>

\* enqueue finds the invoice queued by another, or no active connection: the
\* sweep goes on to the next invoice.
SweepSkip(w, i) ==
  /\ pc[w] = "sweep"
  /\ i \in todo[w]
  /\ enq[w] = None
  /\ KeyTaken(transmissionKey(i)) \/ active = {}
  /\ todo' = [todo EXCEPT ![w] = @ \ {i}]
  /\ UNCHANGED <<storeVars, held, pc, batch, run, outcome, callVars, overrun, bounds>>

\* Mutation: claims are not looked at.
DueClaimed(r) == rows[r].state = "PENDING" /\ rows[r].due

\* Mutation: a stale claim is honoured for ever.
DueUnclaimed(r) == DueClaimed(r) /\ rows[r].claimedBy = None

\* Mutation: parked rows are still taken up.
DueOrParked(r) ==
  /\ rows[r].state \in {"PENDING", "FAILED"}
  /\ rows[r].due
  /\ rows[r].claimedBy = None \/ rows[r].stale

\* Mutation: rows that are done are still taken up.
DueOrSent(r) ==
  /\ rows[r].state \in {"PENDING", "SENT"}
  /\ rows[r].due
  /\ rows[r].claimedBy = None \/ rows[r].stale

Due(r) ==
  /\ rows[r].state = "PENDING"
  /\ rows[r].due
  /\ rows[r].claimedBy = None \/ rows[r].stale

\* One statement: FOR UPDATE SKIP LOCKED makes the choice and the stamp atomic.
claim(w, S) ==
  /\ UpTo(DRAIN_LIMIT, S, {r \in DOMAIN rows : Due(r)})
  /\ rows' = [r \in DOMAIN rows |->
                IF r \in S THEN [rows[r] EXCEPT !.claimedBy = w, !.stale = FALSE]
                           ELSE rows[r]]
  /\ batch' = [batch EXCEPT ![w] = {[row |-> r, attempt |-> rows[r].attempt] : r \in S}]

drain(w) ==
  /\ pc[w] = "sweep" /\ todo[w] = {} /\ enq[w] = None
  /\ \E S \in SUBSET DOMAIN rows :
       /\ claim(w, S)
       /\ pc' = [pc EXCEPT ![w] = IF S = {} THEN "idle" ELSE "attempt"]
  /\ UNCHANGED <<invoiceState, timeline, active, held, todo, run, outcome, callVars, overrun, bounds>>

---------------------------------------------------------------------------
(* attempt *)

\* The worker takes s from its batch and its call to the platform comes to o.
AttemptEnds(w, s, o) ==
  /\ pc[w] = "attempt"
  /\ s \in batch[w]
  /\ batch' = [batch EXCEPT ![w] = @ \ {s}]
  /\ run' = [run EXCEPT ![w] = s]
  /\ outcome' = [outcome EXCEPT ![w] = o]
  /\ pc' = [pc EXCEPT ![w] = "record"]
  /\ UNCHANGED <<storeVars, todo, callVars, overrun, bounds>>

\* Mutation: the request goes out on the active connection, not on that of the row.
PlatformAcceptsActive(r) == held' = held \cup (active \X {rows[r].key})

\* The registry resolves the connection of the row, and the request reaches the
\* platform, where transmit is idempotent on the key: a replay changes nothing.
PlatformAccepts(r) ==
  /\ rows[r].conn \notin Unresolvable
  /\ held' = held \cup {<<rows[r].conn, rows[r].key>>}

TransmitAccepted(w, s) == AttemptEnds(w, s, "accepted") /\ PlatformAccepts(s.row)

\* The request arrived and the answer did not.
TransmitAnswerLost(w, s) == AttemptEnds(w, s, "transient") /\ PlatformAccepts(s.row)

\* Mutation: a failure of the call is taken for an answer.
TransmitFailsUnnoticed(w, s) == AttemptEnds(w, s, "accepted") /\ UNCHANGED held

\* The archive or the platform fail before it has the document.
TransmitFails(w, s) == AttemptEnds(w, s, "transient") /\ UNCHANGED held

\* registry.resolve throws: no adapter for the provider, or unreadable credentials.
TransmitUnresolved(w, s) ==
  /\ rows[s.row].conn \in Unresolvable
  /\ AttemptEnds(w, s, "unresolved")
  /\ UNCHANGED held

\* buildRequest throws NotTransmittableError: no artifact or no routing address.
NotTransmittable(w, s) == AttemptEnds(w, s, "permanent") /\ UNCHANGED held

\* The attempt is over: the next row of the batch, or the end of the cycle.
AttemptDone(w) ==
  /\ pc' = [pc EXCEPT ![w] = IF batch[w] = {} THEN "idle" ELSE "attempt"]
  /\ run' = [run EXCEPT ![w] = None]
  /\ outcome' = [outcome EXCEPT ![w] = "none"]
  /\ UNCHANGED <<active, held, todo, batch, callVars, bounds>>
  /\ RowsPutDown

\* By id, whatever the row has become since it was claimed.  The update of the row
\* holds off another recordSent, and before the first nothing else moves the
\* invoice: the read of its state and the write are one step.
recordSent(w) ==
  /\ pc[w] = "record" /\ outcome[w] = "accepted"
  /\ LET r == run[w].row
         i == rows[r].invoice
     IN  /\ rows' = [rows EXCEPT ![r].state = "SENT",
                                 ![r].externalId = ExternalIdOf[<<rows[r].conn, rows[r].key>>],
                                 ![r].claimedBy = None, ![r].stale = FALSE]
         /\ timeline' = timeline \cup {Status(i, "DEPOSEE", ACCEPTED_AT)}
         /\ invoiceState' = [invoiceState EXCEPT ![i] = advanceState(@, "DEPOSEE")]
  /\ AttemptDone(w)

\* The transaction of recordSent fails; attempt's catch turns to recordFailure.
recordSentFails(w) ==
  /\ pc[w] = "record" /\ outcome[w] = "accepted"
  /\ crashes < MaxCrashes
  /\ crashes' = crashes + 1
  /\ outcome' = [outcome EXCEPT ![w] = "transient"]
  /\ UNCHANGED <<storeVars, held, pc, todo, batch, run, callVars, overrun, retries, switches>>

\* Mutation: the ceiling is compared with the attempts made before this one.
ParksLate(s, o) == o = "permanent" \/ s.attempt > MAX_ATTEMPTS

Parks(s, o) == o = "permanent" \/ s.attempt + 1 > MAX_ATTEMPTS

\* Also by id, with the attempt counted from the claimed row.  The backoff runs
\* from the start of the attempt, so it may be over when it is written.
recordFailure(w) ==
  /\ pc[w] = "record" /\ outcome[w] \in {"transient", "unresolved", "permanent"}
  /\ LET s == run[w]
         r == s.row
         park == Parks(s, outcome[w])
         code == IF park THEN "TRANSMISSION_ABANDONNEE" ELSE "TRANSMISSION_ECHOUEE"
     IN  /\ \E d \in BOOLEAN :
              rows' = [rows EXCEPT ![r].state = IF park THEN "FAILED" ELSE "PENDING",
                                   ![r].attempt = s.attempt + 1, ![r].due = d,
                                   ![r].claimedBy = None, ![r].stale = FALSE]
         /\ timeline' = timeline \cup {Status(rows[r].invoice, code, INTERNAL_TIME)}
  /\ UNCHANGED invoiceState
  /\ AttemptDone(w)

\* The process dies, or the transaction of recordFailure fails and the exception
\* leaves drain: the cycle is over and the claims stay behind.
Crash(w) ==
  /\ pc[w] # "idle"
  /\ crashes < MaxCrashes
  /\ crashes' = crashes + 1
  /\ pc' = [pc EXCEPT ![w] = "idle"]
  /\ todo' = [todo EXCEPT ![w] = {}]
  /\ enq' = [enq EXCEPT ![w] = None]
  /\ batch' = [batch EXCEPT ![w] = {}]
  /\ run' = [run EXCEPT ![w] = None]
  /\ outcome' = [outcome EXCEPT ![w] = "none"]
  /\ UNCHANGED <<storeVars, held, retrying, retries, switches>>
  /\ RowsPutDown

---------------------------------------------------------------------------
(* Requests: transmit, retry, and the connection settings *)

transmit(c, i) ==
  /\ EnqueueReads(c, i)
  /\ UNCHANGED <<storeVars, held, workerVars, retrying, overrun, bounds>>

RetryReads(c, r) ==
  /\ retrying[c] = None
  /\ retries < MaxRetries
  /\ r \in DOMAIN rows
  /\ rows[r].state \notin {"SENT", "ACKNOWLEDGED"}
  /\ retrying' = [retrying EXCEPT ![c] = r]
  /\ retries' = retries + 1
  /\ UNCHANGED <<storeVars, held, workerVars, enq, overrun, crashes, switches>>

\* By id: what RetryReads saw is not looked at again.
RetryWrites(c) ==
  /\ retrying[c] # None
  /\ rows' = [rows EXCEPT ![retrying[c]].state = "PENDING", ![retrying[c]].due = TRUE,
                          ![retrying[c]].attempt = 0,
                          ![retrying[c]].claimedBy = None, ![retrying[c]].stale = FALSE]
  /\ retrying' = [retrying EXCEPT ![c] = None]
  /\ ClaimEnds(retrying[c])
  /\ UNCHANGED <<invoiceState, timeline, active, held, workerVars, enq, bounds>>

\* Activating a connection deactivates the business's others in one transaction;
\* it may also be saved as inactive.
upsert(c) ==
  /\ switches < MaxSwitches
  /\ active' = {c} \/ active' = active \ {c}
  /\ switches' = switches + 1
  /\ UNCHANGED <<rows, invoiceState, timeline, held, workerVars, callVars, overrun, crashes, retries>>

deactivate(c) ==
  /\ switches < MaxSwitches
  /\ c \in active
  /\ active' = active \ {c}
  /\ switches' = switches + 1
  /\ UNCHANGED <<rows, invoiceState, timeline, held, workerVars, callVars, overrun, crashes, retries>>

---------------------------------------------------------------------------
(* The clock *)

\* nextAttemptAt passes.
BackoffElapses(r) ==
  /\ r \in DOMAIN rows
  /\ rows[r].state = "PENDING" /\ ~rows[r].due
  /\ rows' = [rows EXCEPT ![r].due = TRUE]
  /\ UNCHANGED <<invoiceState, timeline, active, held, queueVars>>

\* claimedAt becomes older than CLAIM_LEASE_MS, whether or not the worker that
\* stamped it is still running the batch it was claimed with.
LeaseExpires(r) ==
  /\ r \in DOMAIN rows
  /\ rows[r].state = "PENDING"
  /\ rows[r].claimedBy # None /\ ~rows[r].stale
  /\ rows' = [rows EXCEPT ![r].stale = TRUE]
  /\ ClaimEnds(r)
  /\ UNCHANGED <<invoiceState, timeline, active, held, workerVars, callVars, bounds>>

---------------------------------------------------------------------------
Attempt(w) ==
  \E s \in batch[w] :
    \/ TransmitAccepted(w, s)
    \/ TransmitAnswerLost(w, s)
    \/ TransmitFails(w, s)
    \/ TransmitUnresolved(w, s)
    \/ NotTransmittable(w, s)

\* What a worker does when nothing stops it.
WorkerStep(w) ==
  \/ enqueuePending(w)
  \/ \E i \in Invoices : SweepEnqueue(w, i) \/ SweepSkip(w, i)
  \/ EnqueueCommit(w)
  \/ drain(w)
  \/ Attempt(w)
  \/ recordSent(w)
  \/ recordFailure(w)

WorkerFault(w) == EnqueueAbort(w) \/ recordSentFails(w) \/ Crash(w)

CallerStep(c) ==
  \/ \E i \in Invoices : transmit(c, i)
  \/ EnqueueCommit(c)
  \/ EnqueueAbort(c)
  \/ \E r \in RowIds : RetryReads(c, r)
  \/ RetryWrites(c)

Settings == \E c \in Connections : upsert(c) \/ deactivate(c)

Clock == \E r \in RowIds : BackoffElapses(r) \/ LeaseExpires(r)

Next ==
  \/ \E w \in Workers : WorkerStep(w) \/ WorkerFault(w)
  \/ \E c \in Callers : CallerStep(c)
  \/ Settings
  \/ Clock

Spec == Init /\ [][Next]_vars

\* PdpWorker schedules the next cycle whatever became of the last one, and time
\* passes.  Requests and settings are never owed.
Fairness ==
  /\ \A w \in Workers : WF_vars(WorkerStep(w))
  /\ \A r \in RowIds : WF_vars(BackoffElapses(r)) /\ WF_vars(LeaseExpires(r))

FairSpec == Spec /\ Fairness

---------------------------------------------------------------------------
(* Properties *)

Settled(i) ==
  \E r \in DOMAIN rows :
    /\ rows[r].invoice = i
    /\ rows[r].state \in {"SENT", "ACKNOWLEDGED", "FAILED"}

ShownAsSent(i) == STATE_RANK[invoiceState[i]] >= STATE_RANK["TRANSMITTED"]

\* An invoice reaches at most one platform, however often it is enqueued,
\* reclaimed, retried or re-sent while its business switches platforms: the unique
\* key of enqueue leaves one row, and a row never changes its connection.
DeliveredOnce ==
  \A i \in Invoices : \A c, d \in Connections :
    <<c, transmissionKey(i)>> \in held /\ <<d, transmissionKey(i)>> \in held => c = d

\* A row that recordSent has marked SENT is backed by the platform of its own
\* connection, by the identifier to match statuses with, by DEPOSEE on the
\* timeline and by the invoice state, even when a second worker ran it as well.
SentIsBacked ==
  \A r \in DOMAIN rows :
    rows[r].state \in {"SENT", "ACKNOWLEDGED"} =>
      /\ <<rows[r].conn, rows[r].key>> \in held
      /\ rows[r].externalId = ExternalIdOf[<<rows[r].conn, rows[r].key>>]
      /\ Status(rows[r].invoice, "DEPOSEE", ACCEPTED_AT) \in timeline
      /\ ShownAsSent(rows[r].invoice)

\* The invoice's own state is the outbox: enqueue takes an invoice out of
\* VALIDATED exactly when it gives it a row, so that the sweep neither misses an
\* invoice that has no row nor returns to one that has.
StateIsOutbox ==
  \A i \in Invoices : invoiceState[i] = "VALIDATED" <=> ~KeyTaken(transmissionKey(i))

\* A transmission that is still in the queue has attempts left: recordFailure
\* parks it at the ceiling even when it counts from a row claimed long before.
PendingHasAttemptsLeft ==
  \A r \in DOMAIN rows : rows[r].state = "PENDING" => rows[r].attempt <= MAX_ATTEMPTS

\* No step takes an invoice backwards: the QUEUED of a late enqueue, written on a
\* state read earlier, can never undo what recordSent has shown.
InvoiceNeverRegresses ==
  [][\A i \in Invoices : STATE_RANK[invoiceState'[i]] >= STATE_RANK[invoiceState[i]]]_vars

\* Two workers run one row at once only where its claim ended under a worker that
\* had it in hand, because the lease lapsed or a retry cleared it: claim, release
\* and crash by themselves never put a row in two hands.
ExclusiveRun ==
  \A r \in DOMAIN rows \ overrun : \A v, w \in Workers : HoldsRow(v, r) /\ HoldsRow(w, r) => v = w

\* A transmission recorded as sent leaves that state in two ways only, which are
\* writes by id on what was read before: a retry that found it unsent, and the late
\* failure of an attempt on a row whose claim had ended under a worker.  A second
\* claim, a batch in hand, an enqueue or a crash never take it back.
SentIsFinal ==
  [][\A r \in DOMAIN rows :
       /\ rows[r].state \in {"SENT", "ACKNOWLEDGED"}
       /\ rows'[r].state \notin {"SENT", "ACKNOWLEDGED"}
       => r \in overrun \/ \E c \in Callers : retrying[c] = r /\ retrying'[c] = None]_vars

\* Not at all is excluded as well: unless its business stays disconnected, every
\* invoice ends up sent or parked, through crashes, lost answers and stale claims.
EveryInvoiceSettles ==
  \A i \in Invoices : (<>[](active = {})) \/ (<>[]Settled(i))

\* The abstract promise, over the rows, the platforms and the invoice states.
H == INSTANCE Handover WITH
       bound <- [i \in Invoices |->
                   {rows[r].conn : r \in {x \in DOMAIN rows : rows[x].key = transmissionKey(i)}}],
       delivered <- [i \in Invoices |-> {c \in Connections : <<c, transmissionKey(i)>> \in held}],
       shownSent <- {i \in Invoices : ShownAsSent(i)}

\* The queue implements Handover: bound once, delivered at most once and only
\* where it is bound, shown as sent only once delivered and from then on.
ImplementsHandover == H!Spec

---------------------------------------------------------------------------
(* The inductive invariant behind the properties above. *)

\* A row carries the key of its invoice, and no two rows carry one key.
KeysAreUnique ==
  /\ \A r \in DOMAIN rows : rows[r].key = transmissionKey(rows[r].invoice)
  /\ \A r, q \in DOMAIN rows : rows[r].key = rows[q].key => r = q

\* A platform holds a document only because a row of its connection was attempted.
HeldThroughRow ==
  \A c \in Connections, k \in Keys :
    <<c, k>> \in held => \E r \in DOMAIN rows : rows[r].key = k /\ rows[r].conn = c

\* What the processes carry over a gap still makes sense: the rows exist, a claimed
\* row had attempts left, an accepted document is held by the platform of the row,
\* and an enqueue has seen the invoice VALIDATED.
WorkInHand ==
  /\ \A w \in Workers :
       /\ \A s \in batch[w] : s.row \in DOMAIN rows /\ s.attempt <= MAX_ATTEMPTS
       /\ pc[w] = "record" =>
            /\ run[w] \in Snapshot
            /\ run[w].row \in DOMAIN rows
            /\ run[w].attempt <= MAX_ATTEMPTS
            /\ outcome[w] = "accepted" =>
                 <<rows[run[w].row].conn, rows[run[w].row].key>> \in held
  /\ \A p \in Processes : enq[p] # None => enq[p].state = "VALIDATED"
  /\ \A c \in Callers : retrying[c] # None => retrying[c] \in DOMAIN rows

\* An invoice shown as sent is held by some platform.
ShownIsHeld ==
  \A i \in Invoices : ShownAsSent(i) => \E c \in Connections : <<c, transmissionKey(i)>> \in held

QueueInv ==
  /\ TypeOK
  /\ KeysAreUnique
  /\ HeldThroughRow
  /\ WorkInHand
  /\ StateIsOutbox
  /\ SentIsBacked
  /\ ShownIsHeld
  /\ PendingHasAttemptsLeft
================================================================================

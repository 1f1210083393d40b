------------------------ MODULE TransmissionQueueProofs ------------------------
(***************************************************************************)
(* Proofs about TransmissionQueue, for every set of invoices, connections, *)
(* workers and requests, and every value of the limits.                    *)
(***************************************************************************)
EXTENDS TransmissionQueue, TLAPS

(* advanceState stays within the states and never goes down in rank. *)
LEMMA AdvanceStateUp ==
  ASSUME NEW s \in InvoiceStates, NEW code \in KNOWN_CODES
  PROVE  /\ advanceState(s, code) \in InvoiceStates
         /\ STATE_RANK[advanceState(s, code)] >= STATE_RANK[s]
BY DEF advanceState, isLifecycleCode, KNOWN_CODES, LIFECYCLE_DEFINITIONS, STATE_RANK, InvoiceStates

(* A deposit takes an invoice at least to TRANSMITTED. *)
LEMMA DepositIsSent ==
  ASSUME NEW s \in InvoiceStates
  PROVE  /\ STATE_RANK[advanceState(s, "DEPOSEE")] >= STATE_RANK["TRANSMITTED"]
         /\ advanceState(s, "DEPOSEE") # "VALIDATED"
BY DEF advanceState, isLifecycleCode, KNOWN_CODES, LIFECYCLE_DEFINITIONS, STATE_RANK, InvoiceStates

(* The codes that the queue itself writes on a timeline are codes of the *)
(* timeline.                                                             *)
LEMMA CodesTyped ==
  /\ "DEPOSEE" \in KNOWN_CODES
  /\ "TRANSMISSION_ECHOUEE" \in INTERNAL_CODES
  /\ "TRANSMISSION_ABANDONNEE" \in INTERNAL_CODES
BY DEF KNOWN_CODES, LIFECYCLE_DEFINITIONS, INTERNAL_CODES

(* A key tells its invoice. *)
LEMMA KeyTellsInvoice ==
  ASSUME NEW i, NEW j, transmissionKey(i) = transmissionKey(j)
  PROVE  i = j
BY DEF transmissionKey

(* The key of an invoice is one of the keys. *)
LEMMA KeyTyped ==
  ASSUME NEW i \in Invoices
  PROVE  transmissionKey(i) \in Keys
BY DEF Keys

---------------------------------------------------------------------------
(* Steps that leave the database and the platforms alone. *)

(* The invariant holds of a business whose invoices have just been *)
(* issued.                                                         *)
LEMMA InitInv == Init => QueueInv
<1> SUFFICES ASSUME Init PROVE QueueInv
  OBVIOUS
<1> USE DEF Init, StoreInit, QueueInit
<1>1. TypeOK
  BY DEF TypeOK, StoreTypeOK, QueueTypeOK, InvoiceStates, Outcomes
<1>2. KeysAreUnique /\ HeldThroughRow /\ SentIsBacked /\ PendingHasAttemptsLeft
  BY DEF KeysAreUnique, HeldThroughRow, SentIsBacked, PendingHasAttemptsLeft
<1>3. WorkInHand
  BY DEF WorkInHand
<1>4. StateIsOutbox
  BY DEF StateIsOutbox, KeyTaken
<1>5. ShownIsHeld
  BY DEF ShownIsHeld, ShownAsSent, STATE_RANK
<1> QED
  BY <1>1, <1>2, <1>3, <1>4, <1>5 DEF QueueInv

(* While the tables and the platforms stand still, so do the facts about them. *)
LEMMA StoreInvKept ==
  ASSUME KeysAreUnique, HeldThroughRow, StateIsOutbox, SentIsBacked, ShownIsHeld,
         PendingHasAttemptsLeft,
         UNCHANGED <<rows, invoiceState, timeline, held>>
  PROVE  KeysAreUnique' /\ HeldThroughRow' /\ StateIsOutbox' /\ SentIsBacked' /\ ShownIsHeld'
         /\ PendingHasAttemptsLeft'
BY DEF KeysAreUnique, HeldThroughRow, StateIsOutbox, SentIsBacked, ShownIsHeld,
       PendingHasAttemptsLeft, KeyTaken, ShownAsSent, transmissionKey, Status

(* The reads of enqueue see an invoice without a row, hence VALIDATED. *)
LEMMA ReadsInv ==
  ASSUME QueueInv, NEW p \in Processes, NEW i \in Invoices, EnqueueReads(p, i)
  PROVE  /\ enq' \in [Processes -> EnqueueRead \cup {None}]
         /\ \A q \in Processes : enq'[q] # None => enq'[q].state = "VALIDATED"
<1>1. invoiceState[i] = "VALIDATED"
  BY DEF QueueInv, StateIsOutbox, EnqueueReads
<1>2. PICK c \in active : enq' = [enq EXCEPT ![p] = [invoice |-> i, conn |-> c,
                                                   state |-> "VALIDATED"]]
  BY <1>1 DEF EnqueueReads
<1>3. [invoice |-> i, conn |-> c, state |-> "VALIDATED"] \in EnqueueRead
  BY DEF EnqueueRead, QueueInv, TypeOK, StoreTypeOK, InvoiceStates
<1> QED
  BY <1>2, <1>3 DEF QueueInv, TypeOK, QueueTypeOK, WorkInHand

(* The steps of a process that only move its own variables. *)
LEMMA LocalSteps ==
  ASSUME QueueInv,
         \/ \E w \in Workers, i \in Invoices : SweepEnqueue(w, i) \/ SweepSkip(w, i)
         \/ \E w \in Workers : enqueuePending(w) \/ recordSentFails(w) \/ Crash(w)
         \/ \E p \in Processes : EnqueueAbort(p)
         \/ \E c \in Callers, i \in Invoices : transmit(c, i)
         \/ \E c \in Callers, r \in RowIds : RetryReads(c, r)
         \/ \E c \in Connections : upsert(c) \/ deactivate(c)
  PROVE  QueueInv'
<1> USE DEF QueueInv, TypeOK, StoreTypeOK, QueueTypeOK, Outcomes, WorkInHand,
            storeVars, workerVars, callVars, bounds, Processes
<1>a. KeysAreUnique' /\ HeldThroughRow' /\ StateIsOutbox' /\ SentIsBacked' /\ ShownIsHeld'
         /\ PendingHasAttemptsLeft'
  BY StoreInvKept DEF SweepEnqueue, SweepSkip, enqueuePending, recordSentFails, Crash,
     EnqueueAbort, transmit, RetryReads, upsert, deactivate
<1>1. ASSUME NEW w \in Workers, NEW i \in Invoices, SweepEnqueue(w, i)
      PROVE  QueueInv'
  BY <1>1, <1>a, ReadsInv DEF SweepEnqueue
<1>2. ASSUME NEW w \in Workers, NEW i \in Invoices, SweepSkip(w, i)
      PROVE  QueueInv'
  BY <1>2, <1>a DEF SweepSkip
<1>3. ASSUME NEW w \in Workers, enqueuePending(w)
      PROVE  QueueInv'
  BY <1>3, <1>a DEF enqueuePending, UpTo, SweepCandidates
<1>4. ASSUME NEW w \in Workers, recordSentFails(w)
      PROVE  QueueInv'
  BY <1>4, <1>a DEF recordSentFails
<1>5. ASSUME NEW w \in Workers, Crash(w)
      PROVE  QueueInv'
  BY <1>5, <1>a DEF Crash, RowsPutDown
<1>6. ASSUME NEW p \in Processes, EnqueueAbort(p)
      PROVE  QueueInv'
  BY <1>6, <1>a DEF EnqueueAbort
<1>7. ASSUME NEW c \in Callers, NEW i \in Invoices, transmit(c, i)
      PROVE  QueueInv'
  BY <1>7, <1>a, ReadsInv DEF transmit
<1>8. ASSUME NEW c \in Callers, NEW r \in RowIds, RetryReads(c, r)
      PROVE  QueueInv'
  BY <1>8, <1>a DEF RetryReads
<1>9. ASSUME NEW c \in Connections, upsert(c) \/ deactivate(c)
      PROVE  QueueInv'
  BY <1>9, <1>a DEF upsert, deactivate
<1> QED
  BY <1>1, <1>2, <1>3, <1>4, <1>5, <1>6, <1>7, <1>8, <1>9

---------------------------------------------------------------------------
(* Steps that change the database or the platforms. *)

(* What never changes of a row is what the keys and the platforms depend on. *)
LEMMA RowsKeepKeys ==
  ASSUME KeysAreUnique, HeldThroughRow, held' = held,
         DOMAIN rows' = DOMAIN rows,
         \A r \in DOMAIN rows : /\ rows'[r].invoice = rows[r].invoice
                                /\ rows'[r].key = rows[r].key
                                /\ rows'[r].conn = rows[r].conn
  PROVE  /\ KeysAreUnique' /\ HeldThroughRow'
         /\ \A k : KeyTaken(k)' <=> KeyTaken(k)
BY DEF KeysAreUnique, HeldThroughRow, KeyTaken, transmissionKey

(* The transaction of enqueue adds one row under a free key, with QUEUED, *)
(* or nothing.                                                            *)
LEMMA EnqueueCommitInv ==
  ASSUME QueueInv, NEW p \in Processes, EnqueueCommit(p)
  PROVE  QueueInv'
<1> DEFINE i == enq[p].invoice
<1> USE DEF QueueInv, TypeOK, StoreTypeOK, QueueTypeOK, workerVars, bounds
<1>1. /\ i \in Invoices /\ enq[p].conn \in Connections /\ enq[p].state = "VALIDATED"
      /\ enq' = [enq EXCEPT ![p] = None]
  BY NoneAssumption DEF EnqueueCommit, EnqueueRead, WorkInHand
<1>2. CASE KeyTaken(transmissionKey(i))
  <2>1. UNCHANGED <<rows, invoiceState, timeline, active, held, workerVars, retrying, overrun, bounds>>
    BY <1>2 DEF EnqueueCommit, Duplicate
  <2> QED
    BY <2>1, <1>1, StoreInvKept DEF WorkInHand, Processes
<1>3. CASE ~KeyTaken(transmissionKey(i))
  <2>1. PICK r \in RowIds \ DOMAIN rows :
          rows' = [x \in DOMAIN rows \cup {r} |->
                     IF x = r THEN NewRow(i, enq[p].conn) ELSE rows[x]]
    BY <1>3 DEF EnqueueCommit, Duplicate
  <2>2. /\ invoiceState' = [invoiceState EXCEPT ![i] = "QUEUED"]
        /\ UNCHANGED <<timeline, active, held, pc, todo, batch, run, outcome, retrying, overrun,
                       crashes, retries, switches>>
    BY <1>1, <1>3 DEF EnqueueCommit, Duplicate
  <2>3. /\ DOMAIN rows' = DOMAIN rows \cup {r}
        /\ rows'[r] = NewRow(i, enq[p].conn)
        /\ \A x \in DOMAIN rows : rows'[x] = rows[x]
    BY <2>1
  <2>4. NewRow(i, enq[p].conn) \in TransmissionRow
    BY <1>1, KeyTyped DEF NewRow, TransmissionRow, TransmissionStates
  <2>5. TypeOK'
    <3>1. DOMAIN rows' \subseteq RowIds /\ rows' \in [DOMAIN rows' -> TransmissionRow]
      BY <2>1, <2>4
    <3>2. invoiceState' \in [Invoices -> InvoiceStates]
      BY <2>2 DEF InvoiceStates
    <3> QED
      BY <3>1, <3>2, <2>2, <1>1
  <2>6. KeysAreUnique'
    BY <2>3, <1>3 DEF KeysAreUnique, NewRow, KeyTaken, transmissionKey
  <2>7. HeldThroughRow'
    BY <2>3, <2>2 DEF HeldThroughRow, transmissionKey, Keys
  <2>8. WorkInHand'
    BY <2>3, <2>2, <1>1 DEF WorkInHand, Processes
  <2>9. StateIsOutbox'
    <3>1. invoiceState'[i] = "QUEUED" /\ \A j \in Invoices : j # i => invoiceState'[j] = invoiceState[j]
      BY <1>1, <2>2
    <3>2. \A k : KeyTaken(k)' <=> KeyTaken(k) \/ k = transmissionKey(i)
      BY <2>3 DEF KeyTaken, NewRow, transmissionKey
    <3>3. \A j \in Invoices : invoiceState'[j] = "VALIDATED" <=> ~KeyTaken(transmissionKey(j))'
      BY <3>1, <3>2, KeyTellsInvoice DEF StateIsOutbox
    <3> QED
      BY <3>3 DEF StateIsOutbox, KeyTaken, transmissionKey
  <2>10. invoiceState[i] = "VALIDATED"
    BY <1>1, <1>3 DEF StateIsOutbox
  <2>11. \A j \in Invoices : ShownAsSent(j)' <=> ShownAsSent(j)
    BY <2>2, <2>10, <1>1 DEF ShownAsSent, STATE_RANK
  <2>12. SentIsBacked'
    <3> SUFFICES ASSUME NEW x \in DOMAIN rows', rows'[x].state \in {"SENT", "ACKNOWLEDGED"}
                 PROVE  (/\ <<rows[x].conn, rows[x].key>> \in held
                         /\ rows[x].externalId = ExternalIdOf[<<rows[x].conn, rows[x].key>>]
                         /\ Status(rows[x].invoice, "DEPOSEE", ACCEPTED_AT) \in timeline
                         /\ ShownAsSent(rows[x].invoice))'
      BY DEF SentIsBacked
    <3>1. x \in DOMAIN rows /\ rows'[x] = rows[x]
      BY <2>3 DEF NewRow
    <3>2. rows[x].invoice \in Invoices
      BY <3>1 DEF TransmissionRow
    <3> QED
      BY <3>1, <3>2, <2>2, <2>11 DEF SentIsBacked, Status, ShownAsSent
  <2>13. ShownIsHeld'
    BY <2>11, <2>2 DEF ShownIsHeld, transmissionKey
  <2>14. PendingHasAttemptsLeft'
    BY <2>3, MaxAttemptsAssumption DEF PendingHasAttemptsLeft, NewRow, TransmissionRow
  <2> QED
    BY <2>5, <2>6, <2>7, <2>8, <2>9, <2>12, <2>13, <2>14
<1> QED
  BY <1>2, <1>3

(* Steps that change rows only in state, attempt, dueness and claim, and keep *)
(* apart what is sent from what is not.                                       *)
LEMMA RowsRequeued ==
  ASSUME QueueInv, UNCHANGED <<invoiceState, held>>,
         timeline \subseteq timeline',
         DOMAIN rows' = DOMAIN rows,
         \A r \in DOMAIN rows :
           /\ rows'[r].invoice = rows[r].invoice
           /\ rows'[r].key = rows[r].key
           /\ rows'[r].conn = rows[r].conn
           /\ rows'[r].externalId = rows[r].externalId
           /\ \/ rows'[r].state = rows[r].state /\ rows'[r].attempt = rows[r].attempt
              \/ rows'[r].state = "PENDING" /\ rows'[r].attempt <= MAX_ATTEMPTS
              \/ rows'[r].state = "FAILED"
  PROVE  KeysAreUnique' /\ HeldThroughRow' /\ StateIsOutbox' /\ SentIsBacked' /\ ShownIsHeld'
         /\ PendingHasAttemptsLeft'
<1> USE DEF QueueInv
<1>1. KeysAreUnique' /\ HeldThroughRow' /\ \A k : KeyTaken(k)' <=> KeyTaken(k)
  BY RowsKeepKeys
<1>2. StateIsOutbox'
  BY <1>1 DEF StateIsOutbox, transmissionKey
<1>3. SentIsBacked'
  BY DEF SentIsBacked, ShownAsSent, Status
<1>4. ShownIsHeld'
  BY DEF ShownIsHeld, ShownAsSent, transmissionKey
<1>5. PendingHasAttemptsLeft'
  BY DEF PendingHasAttemptsLeft
<1> QED
  BY <1>1, <1>2, <1>3, <1>4, <1>5

(* A claim stamps rows that are due and leaves what they are, and carries *)
(* off only rows with attempts left.                                      *)
LEMMA ClaimInv ==
  ASSUME QueueInv, NEW w \in Workers, drain(w)
  PROVE  QueueInv'
<1> USE DEF QueueInv, TypeOK, StoreTypeOK, QueueTypeOK, callVars, bounds
<1>1. PICK S \in SUBSET DOMAIN rows :
        /\ claim(w, S)
        /\ pc' = [pc EXCEPT ![w] = IF S = {} THEN "idle" ELSE "attempt"]
  BY DEF drain
<1>2. /\ S \subseteq {r \in DOMAIN rows : Due(r)}
      /\ rows' = [r \in DOMAIN rows |->
                    IF r \in S THEN [rows[r] EXCEPT !.claimedBy = w, !.stale = FALSE]
                               ELSE rows[r]]
      /\ batch' = [batch EXCEPT ![w] = {[row |-> r, attempt |-> rows[r].attempt] : r \in S}]
  BY <1>1 DEF claim, UpTo
<1>3. UNCHANGED <<invoiceState, timeline, active, held, todo, run, outcome, enq, retrying, overrun,
                  crashes, retries, switches>>
  BY DEF drain
<1>4. \A r \in DOMAIN rows : rows[r] \in TransmissionRow
  OBVIOUS
<1>5. \A r \in DOMAIN rows :
        /\ rows'[r] \in TransmissionRow
        /\ rows'[r].invoice = rows[r].invoice
        /\ rows'[r].key = rows[r].key
        /\ rows'[r].conn = rows[r].conn
        /\ rows'[r].externalId = rows[r].externalId
        /\ rows'[r].state = rows[r].state /\ rows'[r].attempt = rows[r].attempt
  <2> SUFFICES ASSUME NEW r \in DOMAIN rows
               PROVE  (/\ rows'[r] \in TransmissionRow
                       /\ rows'[r].invoice = rows[r].invoice
                       /\ rows'[r].key = rows[r].key
                       /\ rows'[r].conn = rows[r].conn
                       /\ rows'[r].externalId = rows[r].externalId
                       /\ rows'[r].state = rows[r].state /\ rows'[r].attempt = rows[r].attempt)
    OBVIOUS
  <2>1. CASE r \in S
    <3>1. rows'[r] = [rows[r] EXCEPT !.claimedBy = w, !.stale = FALSE]
      BY <1>2, <2>1
    <3> HIDE DEF QueueInv
    <3> QED
      BY <1>4, <3>1 DEF TransmissionRow
  <2>2. CASE r \notin S
    <3>1. rows'[r] = rows[r]
      BY <1>2, <2>2
    <3> QED
      BY <1>4, <3>1
  <2> QED
    BY <2>1, <2>2
<1>6. DOMAIN rows' = DOMAIN rows
  BY <1>2
<1>7. KeysAreUnique' /\ HeldThroughRow' /\ StateIsOutbox' /\ SentIsBacked' /\ ShownIsHeld'
         /\ PendingHasAttemptsLeft'
  BY <1>3, <1>5, <1>6, RowsRequeued
<1>8. \A s \in batch'[w] : s \in Snapshot /\ s.row \in DOMAIN rows /\ s.attempt <= MAX_ATTEMPTS
  <2> SUFFICES ASSUME NEW s \in batch'[w]
               PROVE  s \in Snapshot /\ s.row \in DOMAIN rows /\ s.attempt <= MAX_ATTEMPTS
    OBVIOUS
  <2>1. PICK r \in S : s = [row |-> r, attempt |-> rows[r].attempt]
    BY <1>2
  <2>2. r \in DOMAIN rows /\ r \in RowIds /\ rows[r].attempt \in Nat
    BY <1>4 DEF TransmissionRow
  <2>3. rows[r].attempt <= MAX_ATTEMPTS
    BY <1>2 DEF PendingHasAttemptsLeft, Due
  <2> QED
    BY <2>1, <2>2, <2>3 DEF Snapshot
<1>9. \A v \in Workers : v # w => batch'[v] = batch[v] /\ pc'[v] = pc[v]
  BY <1>1, <1>2
<1>10. TypeOK'
  <2>1. rows' \in [DOMAIN rows' -> TransmissionRow]
    BY <1>2, <1>5, <1>6
  <2>2. batch' \in [Workers -> SUBSET Snapshot]
    BY <1>2, <1>8
  <2>3. pc' \in [Workers -> {"idle", "sweep", "attempt", "record"}]
    BY <1>1
  <2> QED
    BY <1>3, <1>6, <2>1, <2>2, <2>3
<1>11. WorkInHand'
  <2>1. pc'[w] # "record"
    BY <1>1
  <2> QED
    BY <1>3, <1>5, <1>6, <1>8, <1>9, <2>1 DEF WorkInHand
<1> QED
  BY <1>7, <1>10, <1>11

(* An attempt reaches the platform of its row or none: held only grows by *)
(* the row's own key and connection.                                      *)
LEMMA AttemptInv ==
  ASSUME QueueInv, NEW w \in Workers, Attempt(w)
  PROVE  QueueInv'
<1> USE DEF QueueInv, TypeOK, StoreTypeOK, QueueTypeOK, Outcomes, storeVars, callVars, bounds
<1>1. PICK s \in batch[w], o \in {"accepted", "unresolved", "transient", "permanent"} :
        /\ AttemptEnds(w, s, o)
        /\ \/ held' = held \cup {<<rows[s.row].conn, rows[s.row].key>>}
           \/ held' = held /\ o # "accepted"
  BY DEF Attempt, TransmitAccepted, TransmitAnswerLost, TransmitFails, TransmitUnresolved, NotTransmittable,
         PlatformAccepts
<1>2. s \in Snapshot /\ s.row \in DOMAIN rows /\ s.attempt <= MAX_ATTEMPTS
  BY DEF WorkInHand
<1>3. rows[s.row] \in TransmissionRow
  BY <1>2
<1>4. /\ held \subseteq held' /\ held' \subseteq Connections \X Keys
      /\ \A ck \in held' : ck \in held \/ ck = <<rows[s.row].conn, rows[s.row].key>>
  BY <1>1, <1>3 DEF TransmissionRow
<1>5. UNCHANGED <<rows, invoiceState, timeline, active, todo, enq, retrying, overrun,
                  crashes, retries, switches>>
  BY <1>1 DEF AttemptEnds
<1>6. /\ batch' = [batch EXCEPT ![w] = @ \ {s}]
      /\ run' = [run EXCEPT ![w] = s]
      /\ outcome' = [outcome EXCEPT ![w] = o]
      /\ pc' = [pc EXCEPT ![w] = "record"]
  BY <1>1 DEF AttemptEnds
<1>7. TypeOK'
  BY <1>2, <1>4, <1>5, <1>6
<1>8. KeysAreUnique' /\ StateIsOutbox' /\ PendingHasAttemptsLeft'
  BY <1>5 DEF KeysAreUnique, StateIsOutbox, PendingHasAttemptsLeft, KeyTaken, transmissionKey
<1>9. HeldThroughRow'
  BY <1>2, <1>4, <1>5 DEF HeldThroughRow, transmissionKey
<1>10. SentIsBacked' /\ ShownIsHeld'
  BY <1>4, <1>5 DEF SentIsBacked, ShownIsHeld, ShownAsSent, Status, transmissionKey
<1>11. WorkInHand'
  <2>1. o = "accepted" => <<rows[s.row].conn, rows[s.row].key>> \in held'
    BY <1>1
  <2> QED
    BY <1>2, <1>4, <1>5, <1>6, <2>1 DEF WorkInHand
<1> QED
  BY <1>7, <1>8, <1>9, <1>10, <1>11

(* The end of an attempt, whatever it recorded: nothing the processes carry is lost. *)
LEMMA AttemptDoneInv ==
  ASSUME QueueInv, NEW w \in Workers, AttemptDone(w),
         DOMAIN rows' = DOMAIN rows,
         \A r \in DOMAIN rows : rows'[r].key = rows[r].key /\ rows'[r].conn = rows[r].conn
  PROVE  QueueTypeOK' /\ WorkInHand' /\ UNCHANGED <<active, held>>
BY DEF AttemptDone, RowsPutDown, QueueInv, TypeOK, QueueTypeOK, Outcomes, WorkInHand, callVars, bounds

(* recordSent writes the row, the timeline and the invoice together, so *)
(* that what is marked SENT is backed.                                  *)
LEMMA RecordSentInv ==
  ASSUME QueueInv, NEW w \in Workers, recordSent(w)
  PROVE  QueueInv'
<1> DEFINE r == run[w].row
           i == rows[r].invoice
           id == ExternalIdOf[<<rows[r].conn, rows[r].key>>]
<1> USE DEF QueueInv, TypeOK
<1>1. /\ r \in DOMAIN rows /\ r \in RowIds
      /\ <<rows[r].conn, rows[r].key>> \in held
      /\ rows[r] \in TransmissionRow
  BY DEF recordSent, WorkInHand, StoreTypeOK
<1>2. /\ i \in Invoices /\ rows[r].conn \in Connections /\ rows[r].key \in Keys
      /\ rows[r].key = transmissionKey(i)
      /\ id \in ExternalIds
  BY <1>1, ExternalIdAssumption DEF TransmissionRow, KeysAreUnique
<1>3. /\ rows' = [rows EXCEPT ![r].state = "SENT", ![r].externalId = id,
                             ![r].claimedBy = None, ![r].stale = FALSE]
      /\ timeline' = timeline \cup {Status(i, "DEPOSEE", ACCEPTED_AT)}
      /\ invoiceState' = [invoiceState EXCEPT ![i] = advanceState(@, "DEPOSEE")]
      /\ AttemptDone(w)
  BY DEF recordSent
<1>4. /\ DOMAIN rows' = DOMAIN rows
      /\ rows'[r] = [rows[r] EXCEPT !.state = "SENT", !.externalId = id,
                                   !.claimedBy = None, !.stale = FALSE]
      /\ \A q \in DOMAIN rows : q # r => rows'[q] = rows[q]
  BY <1>1, <1>3
<1>5. /\ rows'[r] \in TransmissionRow
      /\ rows'[r].state = "SENT" /\ rows'[r].externalId = id
      /\ rows'[r].invoice = i /\ rows'[r].key = rows[r].key /\ rows'[r].conn = rows[r].conn
  BY <1>1, <1>2, <1>4 DEF TransmissionRow, TransmissionStates
<1>6. QueueTypeOK' /\ WorkInHand' /\ UNCHANGED <<active, held>>
  BY <1>3, <1>4, <1>5, AttemptDoneInv
<1>7. KeysAreUnique' /\ HeldThroughRow' /\ \A k : KeyTaken(k)' <=> KeyTaken(k)
  BY <1>4, <1>5, <1>6, RowsKeepKeys
<1>8. /\ invoiceState[i] \in InvoiceStates
      /\ invoiceState'[i] = advanceState(invoiceState[i], "DEPOSEE")
      /\ \A j \in Invoices : j # i => invoiceState'[j] = invoiceState[j]
  BY <1>2, <1>3 DEF StoreTypeOK
<1>9. /\ invoiceState'[i] \in InvoiceStates
      /\ STATE_RANK[invoiceState'[i]] >= STATE_RANK["TRANSMITTED"]
      /\ invoiceState'[i] # "VALIDATED"
  BY <1>8, AdvanceStateUp, DepositIsSent, CodesTyped
<1>10. StoreTypeOK'
  <2>1. rows' \in [DOMAIN rows' -> TransmissionRow]
    BY <1>3, <1>4, <1>5 DEF StoreTypeOK
  <2>2. invoiceState' \in [Invoices -> InvoiceStates]
    BY <1>3, <1>8, <1>9 DEF StoreTypeOK
  <2>3. Status(i, "DEPOSEE", ACCEPTED_AT)
          \in [invoice : Invoices, code : PLATFORM_CODES \cup INTERNAL_CODES, at : Nat]
    BY <1>2, CodesTyped DEF Status, ACCEPTED_AT, PLATFORM_CODES
  <2> QED
    BY <1>3, <1>4, <1>6, <2>1, <2>2, <2>3 DEF StoreTypeOK
<1>11. StateIsOutbox'
  <2>1. KeyTaken(transmissionKey(i))
    BY <1>1, <1>2 DEF KeyTaken
  <2>2. \A j \in Invoices : invoiceState'[j] = "VALIDATED" <=> ~KeyTaken(transmissionKey(j))'
    BY <1>7, <1>8, <1>9, <2>1 DEF StateIsOutbox
  <2> QED
    BY <2>2 DEF StateIsOutbox, transmissionKey, KeyTaken
<1>12. \A j \in Invoices : ShownAsSent(j)' <=> j = i \/ ShownAsSent(j)
  BY <1>8, <1>9 DEF ShownAsSent
<1> DEFINE Shown(j) == STATE_RANK[invoiceState'[j]] >= STATE_RANK["TRANSMITTED"]
<1>b. \A j \in Invoices : j = i \/ ShownAsSent(j) => Shown(j)
  BY <1>12 DEF ShownAsSent
<1> HIDE DEF Shown, i, r, id
<1>13. SentIsBacked'
  <2> SUFFICES ASSUME NEW q \in DOMAIN rows, rows'[q].state \in {"SENT", "ACKNOWLEDGED"}
               PROVE  /\ <<rows'[q].conn, rows'[q].key>> \in held'
                      /\ rows'[q].externalId = ExternalIdOf[<<rows'[q].conn, rows'[q].key>>]
                      /\ Status(rows'[q].invoice, "DEPOSEE", ACCEPTED_AT) \in timeline'
                      /\ Shown(rows'[q].invoice)
    BY <1>4 DEF SentIsBacked, Shown, ShownAsSent, Status, ACCEPTED_AT
  <2>1. CASE q = r
    BY <2>1, <1>1, <1>2, <1>3, <1>5, <1>6, <1>b DEF id
  <2>2. CASE q # r
    <3>1. q \in DOMAIN rows /\ rows'[q] = rows[q]
      BY <2>2, <1>4
    <3>2. rows[q].invoice \in Invoices
      BY <3>1 DEF StoreTypeOK, TransmissionRow
    <3>3. rows[q].state \in {"SENT", "ACKNOWLEDGED"} /\ SentIsBacked
      BY <3>1
    <3> HIDE DEF QueueInv
    <3>4. ShownAsSent(rows[q].invoice)
      BY <3>1, <3>3 DEF SentIsBacked
    <3>5. Shown(rows'[q].invoice)
      BY <3>1, <3>2, <3>4, <1>b
    <3> QED
      BY <3>1, <3>3, <3>5, <1>3, <1>6 DEF SentIsBacked
  <2> QED
    BY <2>1, <2>2
<1>14. ShownIsHeld'
  <2> SUFFICES ASSUME NEW j \in Invoices, ShownAsSent(j)'
               PROVE  \E c \in Connections : <<c, transmissionKey(j)>> \in held
    BY <1>6 DEF ShownIsHeld, transmissionKey
  <2>1. CASE j = i
    BY <2>1, <1>1, <1>2
  <2>2. CASE j # i
    <3>1. ShownAsSent(j)
      BY <2>2, <1>12
    <3> QED
      BY <3>1 DEF ShownIsHeld
  <2> QED
    BY <2>1, <2>2
<1>15. PendingHasAttemptsLeft'
  BY <1>4, <1>5 DEF PendingHasAttemptsLeft
<1> QED
  BY <1>6, <1>7, <1>10, <1>11, <1>13, <1>14, <1>15

(* recordFailure parks at the ceiling or requeues below it, and never *)
(* touches the invoice.                                               *)
LEMMA RecordFailureInv ==
  ASSUME QueueInv, NEW w \in Workers, recordFailure(w)
  PROVE  QueueInv'
<1> DEFINE s == run[w]
           r == s.row
           park == Parks(s, outcome[w])
           st == IF park THEN "FAILED" ELSE "PENDING"
           code == IF park THEN "TRANSMISSION_ABANDONNEE" ELSE "TRANSMISSION_ECHOUEE"
<1> USE DEF QueueInv, TypeOK
<1>1. s \in Snapshot /\ r \in DOMAIN rows /\ r \in RowIds /\ rows[r] \in TransmissionRow
  BY DEF recordFailure, WorkInHand, StoreTypeOK
<1>2. rows[r].invoice \in Invoices /\ s.attempt \in Nat
  BY <1>1 DEF TransmissionRow, Snapshot
<1>3. PICK d \in BOOLEAN :
        /\ rows' = [rows EXCEPT ![r].state = st,
                                ![r].attempt = s.attempt + 1, ![r].due = d,
                                ![r].claimedBy = None, ![r].stale = FALSE]
        /\ timeline' = timeline \cup {Status(rows[r].invoice, code, INTERNAL_TIME)}
        /\ invoiceState' = invoiceState /\ AttemptDone(w)
  BY DEF recordFailure
<1>4. /\ DOMAIN rows' = DOMAIN rows
      /\ rows'[r] = [rows[r] EXCEPT !.state = st,
                                   !.attempt = s.attempt + 1, !.due = d,
                                   !.claimedBy = None, !.stale = FALSE]
      /\ \A q \in DOMAIN rows : q # r => rows'[q] = rows[q]
  BY <1>1, <1>3
<1>5. /\ rows'[r] \in TransmissionRow
      /\ rows'[r].state = st
      /\ rows'[r].attempt = s.attempt + 1
      /\ rows'[r].invoice = rows[r].invoice /\ rows'[r].key = rows[r].key
      /\ rows'[r].conn = rows[r].conn /\ rows'[r].externalId = rows[r].externalId
  <2>1. st \in TransmissionStates /\ s.attempt + 1 \in Nat
    BY <1>2 DEF TransmissionStates
  <2> HIDE DEF st, r, s, QueueInv
  <2> QED
    BY <1>1, <1>4, <2>1 DEF TransmissionRow
<1>6. QueueTypeOK' /\ WorkInHand' /\ UNCHANGED <<active, held>>
  BY <1>3, <1>4, <1>5, AttemptDoneInv
<1>7. ~park => s.attempt + 1 <= MAX_ATTEMPTS
  BY <1>2, MaxAttemptsAssumption DEF Parks
<1>8. KeysAreUnique' /\ HeldThroughRow' /\ StateIsOutbox' /\ SentIsBacked' /\ ShownIsHeld'
         /\ PendingHasAttemptsLeft'
  BY <1>3, <1>4, <1>5, <1>6, <1>7, RowsRequeued
<1>9. StoreTypeOK'
  <2>1. rows' \in [DOMAIN rows' -> TransmissionRow]
    BY <1>3, <1>4, <1>5 DEF StoreTypeOK
  <2>2. Status(rows[r].invoice, code, INTERNAL_TIME)
          \in [invoice : Invoices, code : PLATFORM_CODES \cup INTERNAL_CODES, at : Nat]
    BY <1>2, CodesTyped DEF Status, INTERNAL_TIME, PLATFORM_CODES
  <2> QED
    BY <1>3, <1>4, <1>6, <2>1, <2>2 DEF StoreTypeOK
<1> QED
  BY <1>6, <1>8, <1>9

(* A retry puts a row back with a fresh attempt count, whatever has *)
(* become of it.                                                    *)
LEMMA RetryWritesInv ==
  ASSUME QueueInv, NEW c \in Callers, RetryWrites(c)
  PROVE  QueueInv'
<1> DEFINE r == retrying[c]
<1> USE DEF QueueInv, TypeOK
<1>1. r \in DOMAIN rows /\ r \in RowIds /\ rows[r] \in TransmissionRow
  BY DEF RetryWrites, WorkInHand, StoreTypeOK
<1>2. /\ rows' = [rows EXCEPT ![r].state = "PENDING", ![r].due = TRUE, ![r].attempt = 0,
                             ![r].claimedBy = None, ![r].stale = FALSE]
      /\ retrying' = [retrying EXCEPT ![c] = None]
      /\ UNCHANGED <<invoiceState, timeline, active, held, pc, todo, batch, run, outcome, enq,
                     crashes, retries, switches>>
      /\ overrun' \subseteq overrun \cup {r}
  BY DEF RetryWrites, ClaimEnds, workerVars, bounds
<1>3. /\ DOMAIN rows' = DOMAIN rows
      /\ rows'[r] = [rows[r] EXCEPT !.state = "PENDING", !.due = TRUE, !.attempt = 0,
                                   !.claimedBy = None, !.stale = FALSE]
      /\ \A q \in DOMAIN rows : q # r => rows'[q] = rows[q]
  BY <1>1, <1>2
<1>4. /\ rows'[r] \in TransmissionRow
      /\ rows'[r].state = "PENDING" /\ rows'[r].attempt = 0
      /\ rows'[r].invoice = rows[r].invoice /\ rows'[r].key = rows[r].key
      /\ rows'[r].conn = rows[r].conn /\ rows'[r].externalId = rows[r].externalId
  <2>1. "PENDING" \in TransmissionStates /\ 0 \in Nat
    BY DEF TransmissionStates
  <2> HIDE DEF r, QueueInv
  <2> QED
    BY <1>1, <1>3, <2>1 DEF TransmissionRow
<1>5. KeysAreUnique' /\ HeldThroughRow' /\ StateIsOutbox' /\ SentIsBacked' /\ ShownIsHeld'
         /\ PendingHasAttemptsLeft'
  <2>1. 0 <= MAX_ATTEMPTS
    BY MaxAttemptsAssumption
  <2>2. timeline \subseteq timeline'
    BY <1>2
  <2> HIDE DEF r, QueueInv
  <2> QED
    BY <1>2, <1>3, <1>4, <2>1, <2>2, RowsRequeued
<1>6. StoreTypeOK' /\ QueueTypeOK'
  BY <1>1, <1>2, <1>3, <1>4 DEF StoreTypeOK, QueueTypeOK
<1>7. WorkInHand'
  <2>1. \A q \in DOMAIN rows : rows'[q].conn = rows[q].conn /\ rows'[q].key = rows[q].key
    BY <1>3, <1>4
  <2>2. \A b \in Callers : retrying'[b] # None => retrying[b] # None /\ retrying'[b] = retrying[b]
    BY <1>2 DEF QueueTypeOK
  <2>3. WorkInHand /\ run \in [Workers -> Snapshot \cup {None}]
    BY DEF QueueTypeOK
  <2>7. DOMAIN rows' = DOMAIN rows /\ UNCHANGED <<pc, batch, run, outcome, held>>
    BY <1>2, <1>3
  <2> HIDE DEF r, QueueInv
  <2>4. ASSUME NEW w \in Workers
        PROVE  /\ \A s \in batch'[w] : s.row \in DOMAIN rows' /\ s.attempt <= MAX_ATTEMPTS
               /\ pc'[w] = "record" =>
                    /\ run'[w] \in Snapshot
                    /\ run'[w].row \in DOMAIN rows'
                    /\ run'[w].attempt <= MAX_ATTEMPTS
                    /\ outcome'[w] = "accepted" =>
                         <<rows'[run'[w].row].conn, rows'[run'[w].row].key>> \in held'
    BY <2>1, <2>3, <2>7 DEF WorkInHand
  <2>5. \A p \in Processes : enq'[p] # None => enq'[p].state = "VALIDATED"
    BY <1>2, <2>3 DEF WorkInHand
  <2>6. \A b \in Callers : retrying'[b] # None => retrying'[b] \in DOMAIN rows'
    BY <1>3, <2>2, <2>3 DEF WorkInHand
  <2> QED
    BY <2>4, <2>5, <2>6 DEF WorkInHand, Processes
<1> QED
  BY <1>5, <1>6, <1>7

(* The passing of time only makes rows due and claims stale. *)
LEMMA ClockInv ==
  ASSUME QueueInv, Clock
  PROVE  QueueInv'
<1> USE DEF QueueInv, TypeOK
<1>1. PICK r \in RowIds :
        /\ r \in DOMAIN rows
        /\ \/ rows' = [rows EXCEPT ![r].due = TRUE]
           \/ rows' = [rows EXCEPT ![r].stale = TRUE]
        /\ UNCHANGED <<invoiceState, timeline, active, held, pc, todo, batch, run, outcome, enq,
                       retrying, crashes, retries, switches>>
        /\ overrun' \subseteq overrun \cup {r}
  BY DEF Clock, BackoffElapses, LeaseExpires, ClaimEnds, queueVars, workerVars, callVars, bounds
<1>2. rows[r] \in TransmissionRow
  BY <1>1 DEF StoreTypeOK
<1>3. /\ DOMAIN rows' = DOMAIN rows
      /\ \/ rows'[r] = [rows[r] EXCEPT !.due = TRUE]
         \/ rows'[r] = [rows[r] EXCEPT !.stale = TRUE]
      /\ \A q \in DOMAIN rows : q # r => rows'[q] = rows[q]
  BY <1>1
<1>4. /\ rows'[r] \in TransmissionRow
      /\ rows'[r].state = rows[r].state /\ rows'[r].attempt = rows[r].attempt
      /\ rows'[r].invoice = rows[r].invoice /\ rows'[r].key = rows[r].key
      /\ rows'[r].conn = rows[r].conn /\ rows'[r].externalId = rows[r].externalId
  BY <1>2, <1>3 DEF TransmissionRow
<1>5. KeysAreUnique' /\ HeldThroughRow' /\ StateIsOutbox' /\ SentIsBacked' /\ ShownIsHeld'
         /\ PendingHasAttemptsLeft'
  BY <1>1, <1>3, <1>4, RowsRequeued
<1>6. StoreTypeOK' /\ QueueTypeOK'
  BY <1>1, <1>3, <1>4 DEF StoreTypeOK, QueueTypeOK
<1>7. WorkInHand'
  BY <1>1, <1>3, <1>4 DEF WorkInHand, QueueTypeOK, Snapshot
<1> QED
  BY <1>5, <1>6, <1>7

(* A stuttering step preserves the invariant. *)
LEMMA StutterInv ==
  ASSUME QueueInv, UNCHANGED vars
  PROVE  QueueInv'
<1> USE DEF QueueInv, TypeOK, vars, storeVars, queueVars, workerVars, callVars, bounds
<1>1. KeysAreUnique' /\ HeldThroughRow' /\ StateIsOutbox' /\ SentIsBacked' /\ ShownIsHeld'
         /\ PendingHasAttemptsLeft'
  BY StoreInvKept
<1>2. StoreTypeOK' /\ QueueTypeOK' /\ WorkInHand'
  BY DEF StoreTypeOK, QueueTypeOK, WorkInHand
<1> QED
  BY <1>1, <1>2

(* Every step preserves the invariant. *)
LEMMA StepInv ==
  ASSUME QueueInv, [Next]_vars
  PROVE  QueueInv'
<1>1. ASSUME NEW w \in Workers, WorkerStep(w)
      PROVE  QueueInv'
  BY <1>1, LocalSteps, EnqueueCommitInv, ClaimInv, AttemptInv, RecordSentInv, RecordFailureInv
     DEF WorkerStep, Processes
<1>2. ASSUME NEW w \in Workers, WorkerFault(w)
      PROVE  QueueInv'
  BY <1>2, LocalSteps DEF WorkerFault, Processes
<1>3. ASSUME NEW c \in Callers, CallerStep(c)
      PROVE  QueueInv'
  BY <1>3, LocalSteps, EnqueueCommitInv, RetryWritesInv DEF CallerStep, Processes
<1>4. CASE Settings
  BY <1>4, LocalSteps DEF Settings
<1>5. CASE Clock
  BY <1>5, ClockInv
<1>6. CASE UNCHANGED vars
  BY <1>6, StutterInv
<1> QED
  BY <1>1, <1>2, <1>3, <1>4, <1>5, <1>6 DEF Next

(* The inductive invariant holds throughout: what the queue keeps true of the  *)
(* tables, the platforms and the work its processes have in hand.              *)
THEOREM QueueInvariant == Spec => []QueueInv
<1>1. Init => QueueInv
  BY InitInv
<1>2. QueueInv /\ [Next]_vars => QueueInv'
  BY StepInv
<1> QED
  BY <1>1, <1>2, PTL DEF Spec

(* Types. *)
THEOREM TypeCorrect == Spec => []TypeOK
<1>1. QueueInv => TypeOK
  BY DEF QueueInv
<1> QED
  BY <1>1, QueueInvariant, PTL

(* No invoice is ever held by two platforms: a platform holds a key only       *)
(* through a row of its own connection, and the key has one row.               *)
THEOREM OneDelivery == Spec => []DeliveredOnce
<1>1. QueueInv => DeliveredOnce
  BY KeyTyped DEF QueueInv, KeysAreUnique, HeldThroughRow, DeliveredOnce
<1> QED
  BY <1>1, QueueInvariant, PTL

(* A row marked SENT is backed by the platform, its identifier, the timeline   *)
(* and the invoice state, whoever ran it and however often.                    *)
THEOREM SentBacked == Spec => []SentIsBacked
<1>1. QueueInv => SentIsBacked
  BY DEF QueueInv
<1> QED
  BY <1>1, QueueInvariant, PTL

(* The invoice state tells exactly which invoices the sweep still has to queue. *)
THEOREM Outbox == Spec => []StateIsOutbox
<1>1. QueueInv => StateIsOutbox
  BY DEF QueueInv
<1> QED
  BY <1>1, QueueInvariant, PTL

(* What is in the queue has attempts left, whatever claimed row a failure was  *)
(* counted from.                                                               *)
THEOREM AttemptsLeft == Spec => []PendingHasAttemptsLeft
<1>1. QueueInv => PendingHasAttemptsLeft
  BY DEF QueueInv
<1> QED
  BY <1>1, QueueInvariant, PTL

---------------------------------------------------------------------------
(* Steps, and the abstract specification. *)

(* Only EnqueueCommit and recordSent write the invoice state: the first only   *)
(* takes it from VALIDATED to QUEUED, the second asks advanceState.            *)
LEMMA StateSteps ==
  ASSUME QueueInv, [Next]_vars
  PROVE  \/ invoiceState' = invoiceState
         \/ \E i \in Invoices : /\ invoiceState[i] = "VALIDATED"
                                /\ invoiceState' = [invoiceState EXCEPT ![i] = "QUEUED"]
         \/ \E w \in Workers :
              LET i == rows[run[w].row].invoice
              IN  /\ recordSent(w) /\ i \in Invoices
                  /\ invoiceState' = [invoiceState EXCEPT ![i] = advanceState(@, "DEPOSEE")]
<1>1. ASSUME NEW p \in Processes, EnqueueCommit(p)
      PROVE  \/ invoiceState' = invoiceState
             \/ \E i \in Invoices : /\ invoiceState[i] = "VALIDATED"
                                    /\ invoiceState' = [invoiceState EXCEPT ![i] = "QUEUED"]
  <2>1. enq[p].invoice \in Invoices /\ enq[p].state = "VALIDATED"
    BY <1>1, NoneAssumption
       DEF EnqueueCommit, Duplicate, QueueInv, TypeOK, QueueTypeOK, WorkInHand, EnqueueRead
  <2> QED
    BY <1>1, <2>1 DEF EnqueueCommit, Duplicate, QueueInv, StateIsOutbox
<1>2. ASSUME NEW w \in Workers, recordSent(w)
      PROVE  LET i == rows[run[w].row].invoice
             IN  /\ i \in Invoices
                 /\ invoiceState' = [invoiceState EXCEPT ![i] = advanceState(@, "DEPOSEE")]
  BY <1>2 DEF recordSent, QueueInv, TypeOK, StoreTypeOK, WorkInHand, TransmissionRow
<1>3. ASSUME NEW w \in Workers, WorkerStep(w) \/ WorkerFault(w), ~EnqueueCommit(w), ~recordSent(w)
      PROVE  invoiceState' = invoiceState
  BY <1>3 DEF WorkerStep, WorkerFault, enqueuePending, SweepEnqueue, SweepSkip, drain, Attempt,
     TransmitAccepted, TransmitAnswerLost, TransmitFails, TransmitUnresolved, NotTransmittable, AttemptEnds,
     recordFailure, EnqueueAbort, recordSentFails, Crash, storeVars
<1>4. ASSUME NEW c \in Callers, CallerStep(c), ~EnqueueCommit(c)
      PROVE  invoiceState' = invoiceState
  BY <1>4 DEF CallerStep, transmit, EnqueueAbort, RetryReads, RetryWrites, storeVars
<1>5. Settings \/ Clock \/ UNCHANGED vars => invoiceState' = invoiceState
  BY DEF Settings, Clock, upsert, deactivate, BackoffElapses, LeaseExpires, vars, storeVars
<1> QED
  BY <1>1, <1>2, <1>3, <1>4, <1>5 DEF Next, Processes

(* A step leaves the state of an invoice or raises its rank. *)
LEMMA RankStep ==
  ASSUME QueueInv, [Next]_vars, NEW j \in Invoices
  PROVE  STATE_RANK[invoiceState'[j]] >= STATE_RANK[invoiceState[j]]
<1>1. invoiceState \in [Invoices -> InvoiceStates]
  BY DEF QueueInv, TypeOK, StoreTypeOK
<1>2. \A t \in InvoiceStates : STATE_RANK[t] \in Nat
  BY DEF InvoiceStates, STATE_RANK
<1>3. STATE_RANK["QUEUED"] >= STATE_RANK["VALIDATED"]
  BY DEF STATE_RANK
<1>4. CASE invoiceState'[j] = invoiceState[j]
  BY <1>1, <1>2, <1>4
<1>5. ASSUME NEW i \in Invoices, invoiceState[i] = "VALIDATED",
             invoiceState' = [invoiceState EXCEPT ![i] = "QUEUED"]
      PROVE  invoiceState'[j] = invoiceState[j]
               \/ STATE_RANK[invoiceState'[j]] >= STATE_RANK[invoiceState[j]]
  BY <1>1, <1>3, <1>5
<1>6. ASSUME NEW i \in Invoices,
             invoiceState' = [invoiceState EXCEPT ![i] = advanceState(@, "DEPOSEE")]
      PROVE  invoiceState'[j] = invoiceState[j]
               \/ STATE_RANK[invoiceState'[j]] >= STATE_RANK[invoiceState[j]]
  BY <1>1, <1>6, AdvanceStateUp, CodesTyped
<1> QED
  BY <1>4, <1>5, <1>6, StateSteps

(* No step takes an invoice backwards, on whatever earlier read it acts. *)
THEOREM NeverRegresses == Spec => InvoiceNeverRegresses
<1>1. QueueInv /\ [Next]_vars =>
        \A i \in Invoices : STATE_RANK[invoiceState'[i]] >= STATE_RANK[invoiceState[i]]
  BY RankStep
<1> QED
  BY <1>1, QueueInvariant, PTL DEF Spec, InvoiceNeverRegresses

(* What a step does to the rows and the platforms, as far as the abstract      *)
(* specification can see.                                                      *)
RowsKept ==
  /\ DOMAIN rows' = DOMAIN rows
  /\ \A r \in DOMAIN rows : rows'[r].key = rows[r].key /\ rows'[r].conn = rows[r].conn

(* A step other than the transaction of enqueue and the attempts keeps *)
(* every key on its connection and the platforms as they are.          *)
LEMMA RowSteps ==
  ASSUME QueueInv, [Next]_vars
  PROVE  \/ \E p \in Processes : EnqueueCommit(p)
         \/ \E w \in Workers : Attempt(w)
         \/ RowsKept /\ held' = held
<1> USE DEF RowsKept
<1>a. \A r \in DOMAIN rows : rows[r] \in TransmissionRow
  BY DEF QueueInv, TypeOK, StoreTypeOK
<1>1. ASSUME NEW w \in Workers, drain(w)
      PROVE  RowsKept /\ held' = held
  <2>1. PICK S \in SUBSET DOMAIN rows :
          rows' = [r \in DOMAIN rows |->
                     IF r \in S THEN [rows[r] EXCEPT !.claimedBy = w, !.stale = FALSE]
                                ELSE rows[r]]
    BY <1>1 DEF drain, claim
  <2>2. held' = held
    BY <1>1 DEF drain
  <2> QED
    BY <1>a, <2>1, <2>2 DEF TransmissionRow
<1>2. ASSUME NEW w \in Workers, recordSent(w)
      PROVE  RowsKept /\ held' = held
  BY <1>a, <1>2 DEF recordSent, AttemptDone, TransmissionRow
<1>3. ASSUME NEW w \in Workers, recordFailure(w)
      PROVE  RowsKept /\ held' = held
  <2>1. PICK d \in BOOLEAN, st \in TransmissionStates :
          rows' = [rows EXCEPT ![run[w].row].state = st,
                               ![run[w].row].attempt = run[w].attempt + 1, ![run[w].row].due = d,
                               ![run[w].row].claimedBy = None, ![run[w].row].stale = FALSE]
    BY <1>3 DEF recordFailure, TransmissionStates
  <2>2. held' = held
    BY <1>3 DEF recordFailure, AttemptDone
  <2> QED
    BY <1>a, <2>1, <2>2 DEF TransmissionRow
<1>4. ASSUME NEW w \in Workers, \/ WorkerFault(w)
                                \/ enqueuePending(w)
                                \/ \E i \in Invoices : SweepEnqueue(w, i) \/ SweepSkip(w, i)
      PROVE  RowsKept /\ held' = held
  BY <1>4 DEF WorkerFault, enqueuePending, SweepEnqueue, SweepSkip, EnqueueAbort, recordSentFails,
     Crash, storeVars
<1>5. ASSUME NEW c \in Callers, RetryWrites(c)
      PROVE  RowsKept /\ held' = held
  BY <1>a, <1>5 DEF RetryWrites, TransmissionRow
<1>6. ASSUME NEW c \in Callers, CallerStep(c), ~RetryWrites(c), ~EnqueueCommit(c)
      PROVE  RowsKept /\ held' = held
  BY <1>6 DEF CallerStep, transmit, EnqueueAbort, RetryReads, storeVars
<1>7. ASSUME Clock
      PROVE  RowsKept /\ held' = held
  BY <1>a, <1>7 DEF Clock, BackoffElapses, LeaseExpires, TransmissionRow
<1>8. ASSUME Settings \/ UNCHANGED vars
      PROVE  RowsKept /\ held' = held
  BY <1>8 DEF Settings, upsert, deactivate, vars, storeVars
<1> QED
  BY <1>1, <1>2, <1>3, <1>4, <1>5, <1>6, <1>7, <1>8 DEF Next, WorkerStep, Processes

(* The initial states map to the initial state of Handover. *)
LEMMA RefinesInit == Init => H!Init
<1> SUFFICES ASSUME Init PROVE H!Init
  OBVIOUS
<1>1. DOMAIN rows = {} /\ held = {} /\ \A i \in Invoices : ~ShownAsSent(i)
  BY DEF Init, StoreInit, ShownAsSent, STATE_RANK
<1> QED
  BY <1>1 DEF H!Init

(* A step that keeps the rows and the platforms shows at most one invoice more. *)
LEMMA RefinesShow ==
  ASSUME QueueInv, QueueInv', [Next]_vars, RowsKept, held' = held
  PROVE  [H!Next]_(H!vars)
<1>1. \A i \in Invoices :
        {rows'[r].conn : r \in {x \in DOMAIN rows' : rows'[x].key = transmissionKey(i)}}
          = {rows[r].conn : r \in {x \in DOMAIN rows : rows[x].key = transmissionKey(i)}}
  BY DEF RowsKept
<1>2. CASE \A i \in Invoices : ShownAsSent(i)' <=> ShownAsSent(i)
  <2>1. UNCHANGED H!vars
    BY <1>1, <1>2 DEF H!vars, transmissionKey
  <2> QED
    BY <2>1
<1>3. ASSUME NEW i \in Invoices, ShownAsSent(i)' /\ ~ShownAsSent(i),
             \A j \in Invoices : j # i => (ShownAsSent(j)' <=> ShownAsSent(j))
      PROVE  H!Show(i)
  <2>1. \E c \in Connections : <<c, transmissionKey(i)>> \in held
    BY <1>3 DEF QueueInv, ShownIsHeld, transmissionKey
  <2> QED
    BY <1>1, <1>3, <2>1 DEF H!Show, transmissionKey
<1>4. \A i, j \in Invoices : ~(ShownAsSent(i)' <=> ShownAsSent(i)) /\ ~(ShownAsSent(j)' <=> ShownAsSent(j))
        => i = j
  BY StateSteps DEF ShownAsSent, QueueInv, TypeOK, StoreTypeOK
<1>5. \A i \in Invoices : ShownAsSent(i) => ShownAsSent(i)'
  <2>1. \A i \in Invoices : /\ STATE_RANK[invoiceState[i]] \in Nat
                            /\ STATE_RANK[invoiceState'[i]] \in Nat
    BY DEF QueueInv, TypeOK, StoreTypeOK, InvoiceStates, STATE_RANK
  <2>2. STATE_RANK["TRANSMITTED"] \in Nat
    BY DEF STATE_RANK
  <2> QED
    BY <2>1, <2>2, RankStep DEF ShownAsSent
<1> QED
  BY <1>2, <1>3, <1>4, <1>5 DEF H!Next

(* The transaction of enqueue binds an invoice that is bound to nothing, or     *)
(* changes nothing.                                                            *)
LEMMA RefinesBind ==
  ASSUME QueueInv, QueueInv', NEW p \in Processes, EnqueueCommit(p)
  PROVE  [H!Next]_(H!vars)
<1>1. PICK i \in Invoices, c \in Connections :
        enq[p].invoice = i /\ enq[p].conn = c /\ enq[p].state = "VALIDATED" /\ held' = held
  BY NoneAssumption DEF EnqueueCommit, Duplicate, QueueInv, TypeOK, QueueTypeOK, WorkInHand, EnqueueRead
<1>2. CASE KeyTaken(transmissionKey(i))
  <2>1. UNCHANGED <<rows, invoiceState, held>>
    BY <1>1, <1>2 DEF EnqueueCommit, Duplicate
  <2>2. UNCHANGED H!vars
    BY <2>1 DEF H!vars, transmissionKey, ShownAsSent
  <2> QED
    BY <2>2
<1>3. CASE ~KeyTaken(transmissionKey(i))
  <2>1. PICK r \in RowIds \ DOMAIN rows :
          rows' = [x \in DOMAIN rows \cup {r} |-> IF x = r THEN NewRow(i, c) ELSE rows[x]]
    BY <1>1, <1>3 DEF EnqueueCommit, Duplicate
  <2>2. /\ DOMAIN rows' = DOMAIN rows \cup {r}
        /\ rows'[r].key = transmissionKey(i) /\ rows'[r].conn = c
        /\ \A x \in DOMAIN rows : rows'[x] = rows[x]
    BY <2>1 DEF NewRow
  <2>3. invoiceState' = [invoiceState EXCEPT ![i] = "QUEUED"] /\ invoiceState[i] = "VALIDATED"
    BY <1>1, <1>3 DEF EnqueueCommit, Duplicate, QueueInv, StateIsOutbox
  <2>4. \A j \in Invoices : ShownAsSent(j)' <=> ShownAsSent(j)
    BY <1>1, <2>3 DEF ShownAsSent, STATE_RANK, QueueInv, TypeOK, StoreTypeOK
  <2> DEFINE Bound(j) == {rows[x].conn : x \in {y \in DOMAIN rows : rows[y].key = transmissionKey(j)}}
             BoundAfter(j) ==
               {rows'[x].conn : x \in {y \in DOMAIN rows' : rows'[y].key = transmissionKey(j)}}
  <2>5. Bound(i) = {} /\ BoundAfter(i) = {c}
    BY <1>3, <2>2 DEF KeyTaken
  <2>6. \A j \in Invoices : j # i => BoundAfter(j) = Bound(j)
    BY <2>2, KeyTellsInvoice
  <2>7. H!Bind(i, c)
    <3>1. [j \in Invoices |-> BoundAfter(j)] = [[j \in Invoices |-> Bound(j)] EXCEPT ![i] = {c}]
      BY <1>1, <2>5, <2>6
    <3> QED
      BY <1>1, <2>4, <2>5, <3>1 DEF H!Bind, transmissionKey
  <2> QED
    BY <1>1, <2>7 DEF H!Next
<1> QED
  BY <1>2, <1>3

(* An attempt delivers an invoice to the platform it is bound to, if that      *)
(* platform does not have it already.                                          *)
LEMMA RefinesDeliver ==
  ASSUME QueueInv, QueueInv', NEW w \in Workers, Attempt(w)
  PROVE  [H!Next]_(H!vars)
<1>1. PICK s \in batch[w] :
        /\ UNCHANGED <<rows, invoiceState>>
        /\ held' = held \cup {<<rows[s.row].conn, rows[s.row].key>>} \/ held' = held
  BY DEF Attempt, TransmitAccepted, TransmitAnswerLost, TransmitFails, TransmitUnresolved, NotTransmittable,
         PlatformAccepts, AttemptEnds, storeVars
<1> DEFINE r == s.row
<1>2. r \in DOMAIN rows
  BY DEF QueueInv, WorkInHand
<1>3. PICK i \in Invoices, c \in Connections :
        rows[r].invoice = i /\ rows[r].conn = c /\ rows[r].key = transmissionKey(i)
  BY <1>2 DEF QueueInv, TypeOK, StoreTypeOK, TransmissionRow, KeysAreUnique
<1>4. CASE held' = held
  <2>1. UNCHANGED H!vars
    BY <1>1, <1>4 DEF H!vars, transmissionKey, ShownAsSent
  <2> QED
    BY <2>1
<1>5. CASE held' # held
  <2>1. held' = held \cup {<<c, transmissionKey(i)>>} /\ <<c, transmissionKey(i)>> \notin held
    BY <1>1, <1>3, <1>5
  <2>2. \A x \in DOMAIN rows : rows[x].key = transmissionKey(i) => x = r
    BY <1>2, <1>3 DEF QueueInv, KeysAreUnique
  <2>3. {rows[x].conn : x \in {y \in DOMAIN rows : rows[y].key = transmissionKey(i)}} = {c}
    BY <1>2, <1>3, <2>2
  <2>4. \A d \in Connections : <<d, transmissionKey(i)>> \notin held
    BY <1>3, <2>1, <2>2, KeyTyped DEF QueueInv, HeldThroughRow
  <2> DEFINE Delivered(j) == {d \in Connections : <<d, transmissionKey(j)>> \in held}
             DeliveredAfter(j) == {d \in Connections : <<d, transmissionKey(j)>> \in held'}
  <2>5. Delivered(i) = {} /\ DeliveredAfter(i) = {c}
    BY <1>3, <2>1, <2>4
  <2>6. \A j \in Invoices : j # i => DeliveredAfter(j) = Delivered(j)
    BY <2>1, KeyTellsInvoice
  <2>7. H!Deliver(i)
    <3>1. [j \in Invoices |-> DeliveredAfter(j)] = [[j \in Invoices |-> Delivered(j)] EXCEPT ![i] = {c}]
      BY <1>3, <2>5, <2>6
    <3>2. \A j \in Invoices : ShownAsSent(j)' <=> ShownAsSent(j)
      BY <1>1 DEF ShownAsSent
    <3> DEFINE bound == [j \in Invoices |->
                  {rows[x].conn : x \in {y \in DOMAIN rows : rows[y].key = transmissionKey(j)}}]
               delivered == [j \in Invoices |-> Delivered(j)]
               deliveredAfter == [j \in Invoices |-> DeliveredAfter(j)]
    <3>3. bound[i] = {c} /\ delivered[i] = {}
      BY <2>3, <2>5
    <3>4. deliveredAfter = [delivered EXCEPT ![i] = bound[i]]
      BY <3>1, <3>3
    <3>5. UNCHANGED bound
      BY <1>1 DEF transmissionKey
    <3>6. delivered' = deliveredAfter
      BY DEF transmissionKey
    <3>7. {j \in Invoices : ShownAsSent(j)}' = {j \in Invoices : ShownAsSent(j)}
      BY <3>2 DEF ShownAsSent
    <3>8. bound[i] # {}
      BY <3>3
    <3> QED
      BY <3>3, <3>4, <3>5, <3>6, <3>7, <3>8 DEF H!Deliver
  <2> QED
    BY <1>3, <2>7 DEF H!Next
<1> QED
  BY <1>4, <1>5

(* The queue implements Handover: every invoice is bound once, delivered at    *)
(* most once and only where it is bound, and shown as sent only when it is.    *)
THEOREM Refinement == Spec => ImplementsHandover
<1>1. Init => H!Init
  BY RefinesInit
<1>2. QueueInv /\ QueueInv' /\ [Next]_vars => [H!Next]_(H!vars)
  BY RowSteps, RefinesBind, RefinesDeliver, RefinesShow
<1> QED
  BY <1>1, <1>2, QueueInvariant, PTL DEF Spec, ImplementsHandover, H!Spec


---------------------------------------------------------------------------
(* The lease, and the rows whose claim ended under a worker that had them in hand *)

(* A row that a worker holds is claimed by it and waits for what its attempt comes to, *)
(* unless a claim on the row has ended under a worker.                                 *)
HeldIsClaimed(w) ==
  \A r \in DOMAIN rows \ overrun :
    HoldsRow(w, r) => rows[r].state = "PENDING" /\ rows[r].claimedBy = w /\ rows[r].stale = FALSE

(* A worker holds rows only while it attempts them, and each one once. *)
HoldsEachOnce(w) ==
  /\ pc[w] \in {"idle", "sweep"} => batch[w] = {}
  /\ \A s, t \in batch[w] : s.row = t.row => s = t
  /\ pc[w] = "record" => \A s \in batch[w] : s.row # run[w].row

LeaseInv == \A w \in Workers : HeldIsClaimed(w) /\ HoldsEachOnce(w)

(* A row leaves the overrun ones only when nobody has it in hand any more. *)
OverrunKept == \A r \in overrun : r \in overrun' \/ \A w \in Workers : ~HoldsRow(w, r)'

LEMMA HeldRowsExist ==
  ASSUME QueueInv, LeaseInv, NEW w \in Workers, NEW r, HoldsRow(w, r)
  PROVE  r \in DOMAIN rows
<1>1. WorkInHand
  BY DEF QueueInv
<1> QED
  BY <1>1 DEF WorkInHand, HoldsRow

(* A worker that does nothing, while its rows stay as they are. *)
LEMMA HolderStands ==
  ASSUME QueueInv, LeaseInv, OverrunKept, NEW w \in Workers,
         pc'[w] = pc[w], batch'[w] = batch[w], run'[w] = run[w],
         \A r \in DOMAIN rows : HoldsRow(w, r) /\ r \notin overrun /\ r \notin overrun' =>
           /\ rows'[r].state = rows[r].state /\ rows'[r].claimedBy = rows[r].claimedBy
           /\ rows'[r].stale = rows[r].stale
  PROVE  HeldIsClaimed(w)' /\ HoldsEachOnce(w)'
<1>1. HoldsEachOnce(w)'
  BY DEF LeaseInv, HoldsEachOnce
<1>2. \A r : HoldsRow(w, r)' => HoldsRow(w, r)
  BY DEF HoldsRow
<1>3. HeldIsClaimed(w)'
  <2> SUFFICES ASSUME NEW r \in DOMAIN rows' \ overrun', HoldsRow(w, r)'
               PROVE  rows'[r].state = "PENDING" /\ rows'[r].claimedBy = w /\ rows'[r].stale = FALSE
    BY DEF HeldIsClaimed
  <2>1. HoldsRow(w, r) /\ r \in DOMAIN rows
    BY <1>2, HeldRowsExist
  <2>2. r \notin overrun
    BY DEF OverrunKept
  <2> QED
    BY <2>1, <2>2 DEF LeaseInv, HeldIsClaimed
<1> QED
  BY <1>1, <1>3

LEMMA StandsAside ==
  ASSUME QueueInv, LeaseInv, UNCHANGED <<pc, batch, run, rows, overrun>>
  PROVE  LeaseInv'
<1>1. OverrunKept
  BY DEF OverrunKept
<1>2. \A w \in Workers : HeldIsClaimed(w)' /\ HoldsEachOnce(w)'
  BY <1>1, HolderStands
<1> QED
  BY <1>2 DEF LeaseInv

(* One worker moves and takes up no row, or gives back the one it has run. *)
LEMMA MoverHolds ==
  ASSUME QueueInv, LeaseInv, OverrunKept, NEW w \in Workers, UNCHANGED rows,
         \A v \in Workers \ {w} : pc'[v] = pc[v] /\ batch'[v] = batch[v] /\ run'[v] = run[v],
         \A r : HoldsRow(w, r)' => HoldsRow(w, r),
         HoldsEachOnce(w)'
  PROVE  LeaseInv'
<1>1. \A v \in Workers \ {w} : HeldIsClaimed(v)' /\ HoldsEachOnce(v)'
  BY HolderStands
<1>2. HeldIsClaimed(w)'
  BY DEF LeaseInv, HeldIsClaimed, OverrunKept
<1> QED
  BY <1>1, <1>2 DEF LeaseInv

(* The claim takes rows that nobody holds or that are overrun: a row held on a claim   *)
(* that stands is neither unclaimed nor stale.                                         *)
LEMMA LeaseDrain ==
  ASSUME QueueInv, LeaseInv, NEW w \in Workers, drain(w)
  PROVE  LeaseInv'
<1> USE DEF QueueInv, TypeOK, StoreTypeOK, QueueTypeOK
<1>1. PICK S \in SUBSET DOMAIN rows :
        claim(w, S) /\ pc' = [pc EXCEPT ![w] = IF S = {} THEN "idle" ELSE "attempt"]
  BY DEF drain
<1>2. /\ S \subseteq {r \in DOMAIN rows : Due(r)}
      /\ rows' = [r \in DOMAIN rows |->
                    IF r \in S THEN [rows[r] EXCEPT !.claimedBy = w, !.stale = FALSE]
                               ELSE rows[r]]
      /\ batch' = [batch EXCEPT ![w] = {[row |-> r, attempt |-> rows[r].attempt] : r \in S}]
  BY <1>1 DEF claim, UpTo
<1>3. run' = run /\ overrun' = overrun /\ pc[w] = "sweep"
  BY DEF drain
<1>o. OverrunKept
  BY <1>3 DEF OverrunKept
<1>4. \A v \in Workers : \A r \in S \ overrun : ~HoldsRow(v, r)
  <2> SUFFICES ASSUME NEW v \in Workers, NEW r \in S \ overrun, HoldsRow(v, r)
               PROVE  FALSE
    OBVIOUS
  <2>1. rows[r].claimedBy = v /\ rows[r].stale = FALSE
    BY DEF LeaseInv, HeldIsClaimed
  <2>2. rows[r].claimedBy = None \/ rows[r].stale
    BY <1>2 DEF Due
  <2> QED
    BY <2>1, <2>2, NoneAssumption
<1>5. ASSUME NEW v \in Workers \ {w}
      PROVE  HeldIsClaimed(v)' /\ HoldsEachOnce(v)'
  <2>1. pc'[v] = pc[v] /\ batch'[v] = batch[v] /\ run'[v] = run[v]
    BY <1>1, <1>2, <1>3
  <2>2. \A r \in DOMAIN rows : HoldsRow(v, r) /\ r \notin overrun => rows'[r] = rows[r]
    BY <1>2, <1>4
  <2> QED
    BY <1>o, <2>1, <2>2, HolderStands
<1>6. /\ batch'[w] = {[row |-> r, attempt |-> rows[r].attempt] : r \in S}
      /\ pc'[w] = IF S = {} THEN "idle" ELSE "attempt"
  BY <1>1, <1>2
<1>7. HoldsEachOnce(w)'
  BY <1>6 DEF HoldsEachOnce
<1>8. HeldIsClaimed(w)'
  <2>1. ASSUME NEW r \in DOMAIN rows', HoldsRow(w, r)'
        PROVE  r \in S
    BY <1>6, <2>1 DEF HoldsRow
  <2>2. \A r \in S : rows[r] \in TransmissionRow /\ rows[r].state = "PENDING"
    BY <1>2 DEF Due
  <2>3. \A r \in S : rows'[r].state = "PENDING" /\ rows'[r].claimedBy = w /\ rows'[r].stale = FALSE
    BY <1>2, <2>2 DEF TransmissionRow
  <2> QED
    BY <2>1, <2>3 DEF HeldIsClaimed
<1> QED
  BY <1>5, <1>7, <1>8 DEF LeaseInv

(* The end of an attempt writes a row that only this worker holds, unless the row is  *)
(* overrun, and lets go of it.                                                        *)
LEMMA LeaseRecord ==
  ASSUME QueueInv, LeaseInv, NEW w \in Workers, recordSent(w) \/ recordFailure(w)
  PROVE  LeaseInv'
<1> DEFINE r == run[w].row
<1>1. /\ pc[w] = "record" /\ AttemptDone(w)
      /\ DOMAIN rows' = DOMAIN rows /\ \A x \in DOMAIN rows \ {r} : rows'[x] = rows[x]
  BY DEF recordSent, recordFailure, QueueInv, TypeOK, StoreTypeOK
<1>2. /\ run' = [run EXCEPT ![w] = None] /\ batch' = batch /\ RowsPutDown
      /\ pc' = [pc EXCEPT ![w] = IF batch[w] = {} THEN "idle" ELSE "attempt"]
  BY <1>1 DEF AttemptDone
<1>o. OverrunKept
  BY <1>2 DEF RowsPutDown, OverrunKept
<1>3. /\ pc \in [Workers -> {"idle", "sweep", "attempt", "record"}]
      /\ run \in [Workers -> Snapshot \cup {None}]
  BY DEF QueueInv, TypeOK, QueueTypeOK
<1>4. HoldsRow(w, r) /\ r \in DOMAIN rows
  BY <1>1, HeldRowsExist DEF HoldsRow
<1>5. ASSUME NEW v \in Workers \ {w}
      PROVE  HeldIsClaimed(v)' /\ HoldsEachOnce(v)'
  <2>1. HoldsRow(v, r) => r \in overrun
    BY <1>4 DEF LeaseInv, HeldIsClaimed
  <2>2. pc'[v] = pc[v] /\ batch'[v] = batch[v] /\ run'[v] = run[v]
    BY <1>2, <1>3
  <2>3. \A x \in DOMAIN rows : HoldsRow(v, x) /\ x \notin overrun => rows'[x] = rows[x]
    BY <1>1, <2>1
  <2> QED
    BY <1>o, <2>2, <2>3, HolderStands
<1>6. /\ pc'[w] = IF batch[w] = {} THEN "idle" ELSE "attempt"
      /\ batch'[w] = batch[w] /\ pc'[w] # "record"
  BY <1>2, <1>3
<1>7. HoldsEachOnce(w)'
  BY <1>6 DEF LeaseInv, HoldsEachOnce
<1>8. HeldIsClaimed(w)'
  <2>1. ASSUME NEW x \in DOMAIN rows' \ overrun', HoldsRow(w, x)'
        PROVE  HoldsRow(w, x) /\ x # r /\ x \notin overrun
    BY <1>1, <1>6, <1>o, <2>1 DEF HoldsRow, LeaseInv, HoldsEachOnce, OverrunKept
  <2> QED
    BY <1>1, <2>1 DEF LeaseInv, HeldIsClaimed
<1> QED
  BY <1>5, <1>7, <1>8 DEF LeaseInv


LEMMA LeaseEnqueue ==
  ASSUME QueueInv, LeaseInv, NEW p \in Processes, EnqueueCommit(p)
  PROVE  LeaseInv'
<1>1. UNCHANGED <<pc, batch, run, overrun>> /\ OverrunKept
  BY DEF EnqueueCommit, workerVars, OverrunKept
<1>2. CASE UNCHANGED rows
  BY <1>1, <1>2, StandsAside
<1>3. ASSUME NEW r \in RowIds \ DOMAIN rows,
             rows' = [x \in DOMAIN rows \cup {r} |->
                        IF x = r THEN NewRow(enq[p].invoice, enq[p].conn) ELSE rows[x]]
      PROVE  LeaseInv'
  <2>1. \A x \in DOMAIN rows : rows'[x] = rows[x]
    BY <1>3
  <2>2. \A w \in Workers : HeldIsClaimed(w)' /\ HoldsEachOnce(w)'
    BY <1>1, <2>1, HolderStands
  <2> QED
    BY <1>1, <2>2 DEF LeaseInv
<1>4. \/ UNCHANGED rows
      \/ \E r \in RowIds \ DOMAIN rows :
           rows' = [x \in DOMAIN rows \cup {r} |->
                      IF x = r THEN NewRow(enq[p].invoice, enq[p].conn) ELSE rows[x]]
  BY DEF EnqueueCommit, Duplicate
<1> QED
  BY <1>2, <1>3, <1>4

(* The steps of a worker's cycle that write no row. *)
LEMMA LeaseCycle ==
  ASSUME QueueInv, LeaseInv, NEW w \in Workers,
         \/ enqueuePending(w)
         \/ \E i \in Invoices : SweepEnqueue(w, i) \/ SweepSkip(w, i)
         \/ Attempt(w)
         \/ WorkerFault(w)
  PROVE  LeaseInv'
<1> USE DEF workerVars, callVars, bounds, storeVars
<1>t. /\ pc \in [Workers -> {"idle", "sweep", "attempt", "record"}]
      /\ batch \in [Workers -> SUBSET Snapshot]
      /\ run \in [Workers -> Snapshot \cup {None}]
  BY DEF QueueInv, TypeOK, QueueTypeOK
<1>w. HoldsEachOnce(w)
  BY DEF LeaseInv
<1>1. CASE \/ \E i \in Invoices : SweepEnqueue(w, i) \/ SweepSkip(w, i)
           \/ EnqueueAbort(w) \/ recordSentFails(w)
  BY <1>1, StandsAside DEF SweepEnqueue, SweepSkip, EnqueueAbort, recordSentFails
<1>2. CASE enqueuePending(w)
  <2>1. /\ UNCHANGED <<rows, batch, run, overrun>> /\ pc[w] = "idle"
        /\ pc' = [pc EXCEPT ![w] = "sweep"] /\ OverrunKept
    BY <1>2 DEF enqueuePending, OverrunKept
  <2>2. \A r : HoldsRow(w, r)' => HoldsRow(w, r)
    BY <1>t, <2>1 DEF HoldsRow
  <2>3. HoldsEachOnce(w)'
    BY <1>t, <1>w, <2>1 DEF HoldsEachOnce
  <2> QED
    BY <1>t, <2>1, <2>2, <2>3, MoverHolds
<1>3. CASE Attempt(w)
  <2>1. PICK s \in batch[w] :
          /\ UNCHANGED <<rows, overrun>> /\ OverrunKept /\ pc[w] = "attempt"
          /\ pc' = [pc EXCEPT ![w] = "record"] /\ run' = [run EXCEPT ![w] = s]
          /\ batch' = [batch EXCEPT ![w] = @ \ {s}]
    BY <1>3 DEF Attempt, TransmitAccepted, TransmitAnswerLost, TransmitFails, TransmitUnresolved,
       NotTransmittable, AttemptEnds, OverrunKept
  <2>2. pc'[w] = "record" /\ run'[w] = s /\ batch'[w] = batch[w] \ {s}
    BY <1>t, <2>1
  <2>3. \A r : HoldsRow(w, r)' => HoldsRow(w, r)
    BY <2>2 DEF HoldsRow
  <2>4. HoldsEachOnce(w)'
    BY <1>w, <2>2 DEF HoldsEachOnce
  <2>5. \A v \in Workers \ {w} : pc'[v] = pc[v] /\ batch'[v] = batch[v] /\ run'[v] = run[v]
    BY <1>t, <2>1
  <2> QED
    BY <2>1, <2>3, <2>4, <2>5, MoverHolds
<1>4. CASE Crash(w)
  <2>1. /\ UNCHANGED rows /\ OverrunKept
        /\ pc' = [pc EXCEPT ![w] = "idle"] /\ run' = [run EXCEPT ![w] = None]
        /\ batch' = [batch EXCEPT ![w] = {}]
    BY <1>4 DEF Crash, RowsPutDown, OverrunKept
  <2>2. pc'[w] = "idle" /\ batch'[w] = {}
    BY <1>t, <2>1
  <2>3. (\A r : HoldsRow(w, r)' => HoldsRow(w, r)) /\ HoldsEachOnce(w)'
    BY <2>2 DEF HoldsRow, HoldsEachOnce
  <2>4. \A v \in Workers \ {w} : pc'[v] = pc[v] /\ batch'[v] = batch[v] /\ run'[v] = run[v]
    BY <1>t, <2>1
  <2> QED
    BY <2>1, <2>3, <2>4, MoverHolds
<1> QED
  BY <1>1, <1>2, <1>3, <1>4 DEF WorkerFault

(* A claim that lapses or that a retry clears makes its row overrun where a worker has *)
(* it in hand, and touches no other row.                                              *)
LEMMA LeaseEnds ==
  ASSUME QueueInv, LeaseInv, UNCHANGED <<pc, batch, run>>, NEW r \in DOMAIN rows, ClaimEnds(r),
         \A x \in DOMAIN rows \ {r} : rows'[x] = rows[x]
  PROVE  LeaseInv'
<1>1. OverrunKept
  BY DEF ClaimEnds, OverrunKept
<1>2. \A w \in Workers : HoldsRow(w, r) => r \in overrun'
  BY DEF ClaimEnds
<1>3. \A w \in Workers : HeldIsClaimed(w)' /\ HoldsEachOnce(w)'
  BY <1>1, <1>2, HolderStands
<1> QED
  BY <1>3 DEF LeaseInv

LEMMA LeaseClock ==
  ASSUME QueueInv, LeaseInv, Clock
  PROVE  LeaseInv'
<1>1. \A x \in DOMAIN rows : rows[x] \in TransmissionRow
  BY DEF QueueInv, TypeOK, StoreTypeOK
<1>2. ASSUME NEW r \in RowIds, BackoffElapses(r)
      PROVE  LeaseInv'
  <2>1. UNCHANGED <<pc, batch, run, overrun>> /\ rows' = [rows EXCEPT ![r].due = TRUE] /\ r \in DOMAIN rows
    BY <1>2 DEF BackoffElapses, queueVars, workerVars
  <2>2. \A x \in DOMAIN rows : /\ rows'[x].state = rows[x].state /\ rows'[x].claimedBy = rows[x].claimedBy
                              /\ rows'[x].stale = rows[x].stale
    BY <1>1, <2>1 DEF TransmissionRow
  <2>3. OverrunKept
    BY <2>1 DEF OverrunKept
  <2>4. \A w \in Workers : HeldIsClaimed(w)' /\ HoldsEachOnce(w)'
    BY <2>1, <2>2, <2>3, HolderStands
  <2> QED
    BY <2>4 DEF LeaseInv
<1>3. ASSUME NEW r \in RowIds, LeaseExpires(r)
      PROVE  LeaseInv'
  BY <1>3, LeaseEnds DEF LeaseExpires, workerVars
<1> QED
  BY <1>2, <1>3 DEF Clock

LEMMA LeaseRetry ==
  ASSUME QueueInv, LeaseInv, NEW c \in Callers, RetryWrites(c)
  PROVE  LeaseInv'
<1>1. retrying[c] \in DOMAIN rows
  BY DEF RetryWrites, QueueInv, WorkInHand
<1>2. UNCHANGED <<pc, batch, run>> /\ ClaimEnds(retrying[c])
  BY DEF RetryWrites, workerVars
<1>3. \A x \in DOMAIN rows \ {retrying[c]} : rows'[x] = rows[x]
  BY DEF RetryWrites
<1> QED
  BY <1>1, <1>2, <1>3, LeaseEnds

LEMMA LeaseSteps ==
  ASSUME QueueInv, LeaseInv, [Next]_vars
  PROVE  LeaseInv'
<1>1. ASSUME NEW w \in Workers, WorkerStep(w) \/ WorkerFault(w)
      PROVE  LeaseInv'
  BY <1>1, LeaseCycle, LeaseEnqueue, LeaseDrain, LeaseRecord DEF WorkerStep, Processes
<1>2. ASSUME NEW c \in Callers, CallerStep(c)
      PROVE  LeaseInv'
  <2>1. CASE RetryWrites(c)
    BY <2>1, LeaseRetry
  <2>2. CASE EnqueueCommit(c)
    BY <2>2, LeaseEnqueue DEF Processes
  <2>3. CASE \/ EnqueueAbort(c) \/ \E i \in Invoices : transmit(c, i)
             \/ \E r \in RowIds : RetryReads(c, r)
    BY <2>3, StandsAside DEF EnqueueAbort, transmit, RetryReads, storeVars, workerVars
  <2> QED
    BY <1>2, <2>1, <2>2, <2>3 DEF CallerStep
<1>3. CASE Settings \/ UNCHANGED vars
  BY <1>3, StandsAside DEF Settings, upsert, deactivate, vars, storeVars, queueVars, workerVars
<1>4. CASE Clock
  BY <1>4, LeaseClock
<1> QED
  BY <1>1, <1>2, <1>3, <1>4 DEF Next

LEMMA LeaseInvariant == Spec => [](QueueInv /\ LeaseInv)
<1>1. Init => LeaseInv
  BY DEF Init, StoreInit, QueueInit, LeaseInv, HeldIsClaimed, HoldsEachOnce
<1>2. QueueInv /\ LeaseInv /\ [Next]_vars => LeaseInv'
  BY LeaseSteps
<1> QED
  BY <1>1, <1>2, QueueInvariant, PTL DEF Spec

(* Two workers run one row at once only where a claim on it ended under a worker that *)
(* had it in hand: beyond a lapsed lease and a retry, nothing breaks the second of    *)
(* the two layers that the head of transmission.service.ts describes.                 *)
THEOREM RunsExclusive == Spec => []ExclusiveRun
<1>1. LeaseInv => ExclusiveRun
  BY DEF LeaseInv, HeldIsClaimed, ExclusiveRun
<1> QED
  BY <1>1, LeaseInvariant, PTL

(* What is sent stays sent but for two writes by id: a retry that found the row unsent *)
(* and the late failure of an attempt on a row whose claim had ended under a worker.   *)
THEOREM SentStays == Spec => SentIsFinal
<1>1. QueueInv /\ LeaseInv /\ [Next]_vars =>
        \A r \in DOMAIN rows :
          /\ rows[r].state \in {"SENT", "ACKNOWLEDGED"}
          /\ rows'[r].state \notin {"SENT", "ACKNOWLEDGED"}
          => r \in overrun \/ \E c \in Callers : retrying[c] = r /\ retrying'[c] = None
  <2> SUFFICES ASSUME QueueInv, LeaseInv, [Next]_vars,
                      NEW r \in DOMAIN rows \ overrun, rows[r].state \in {"SENT", "ACKNOWLEDGED"},
                      \A c \in Callers : retrying[c] = r => retrying'[c] # None
               PROVE  rows'[r].state \in {"SENT", "ACKNOWLEDGED"}
    OBVIOUS
  <2>a. \A x \in DOMAIN rows : rows[x] \in TransmissionRow
    BY DEF QueueInv, TypeOK, StoreTypeOK
  <2>1. ASSUME NEW w \in Workers, recordFailure(w)
        PROVE  rows'[r] = rows[r]
    <3>1. HoldsRow(w, run[w].row) /\ run[w].row \in DOMAIN rows
      BY <2>1, HeldRowsExist DEF recordFailure, HoldsRow
    <3>2. r # run[w].row
      BY <3>1 DEF LeaseInv, HeldIsClaimed
    <3> QED
      BY <2>1, <3>2 DEF recordFailure
  <2>2. ASSUME NEW w \in Workers, recordSent(w)
        PROVE  rows'[r].state = rows[r].state \/ rows'[r].state = "SENT"
    BY <2>a, <2>2 DEF recordSent, TransmissionRow
  <2>3. ASSUME NEW w \in Workers, drain(w)
        PROVE  rows'[r].state = rows[r].state
    <3>1. PICK S \in SUBSET DOMAIN rows :
            rows' = [x \in DOMAIN rows |->
                       IF x \in S THEN [rows[x] EXCEPT !.claimedBy = w, !.stale = FALSE]
                                  ELSE rows[x]]
      BY <2>3 DEF drain, claim
    <3> QED
      BY <2>a, <3>1 DEF TransmissionRow
  <2>4. ASSUME NEW p \in Processes, EnqueueCommit(p)
        PROVE  rows'[r] = rows[r]
    BY <2>4 DEF EnqueueCommit, Duplicate
  <2>5. ASSUME NEW c \in Callers, RetryWrites(c)
        PROVE  rows'[r] = rows[r]
    <3>1. retrying \in [Callers -> RowIds \cup {None}]
      BY DEF QueueInv, TypeOK, QueueTypeOK
    <3>2. retrying[c] # r
      BY <2>5, <3>1 DEF RetryWrites
    <3> QED
      BY <2>5, <3>2 DEF RetryWrites
  <2>6. CASE Clock
    BY <2>a, <2>6 DEF Clock, BackoffElapses, LeaseExpires, TransmissionRow
  <2>7. ASSUME NEW w \in Workers, WorkerStep(w) \/ WorkerFault(w), ~recordFailure(w), ~recordSent(w),
               ~drain(w), ~EnqueueCommit(w)
        PROVE  rows' = rows
    BY <2>7 DEF WorkerStep, WorkerFault, enqueuePending, SweepEnqueue, SweepSkip, Attempt,
       TransmitAccepted, TransmitAnswerLost, TransmitFails, TransmitUnresolved, NotTransmittable,
       AttemptEnds, EnqueueAbort, recordSentFails, Crash, storeVars
  <2>8. ASSUME NEW c \in Callers, CallerStep(c), ~EnqueueCommit(c), ~RetryWrites(c)
        PROVE  rows' = rows
    BY <2>8 DEF CallerStep, transmit, EnqueueAbort, RetryReads, storeVars
  <2>9. Settings \/ UNCHANGED vars => rows' = rows
    BY DEF Settings, upsert, deactivate, vars, storeVars
  <2> QED
    BY <2>1, <2>2, <2>3, <2>4, <2>5, <2>6, <2>7, <2>8, <2>9 DEF Next, Processes
<1> QED
  BY <1>1, LeaseInvariant, PTL DEF Spec, SentIsFinal
=============================================================================

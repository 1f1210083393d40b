---------------------------- MODULE ReceptionProofs ----------------------------
(***************************************************************************)
(* Proofs about Reception, for every set of documents, businesses, uploads *)
(* and polls, whatever numbers documents bear and whatever fails.          *)
(***************************************************************************)
EXTENDS Reception, TLAPS

(* Nothing is received yet, and what was issued is in the store. *)
LEMMA InitReception == Init => ReceptionInv
<1> SUFFICES ASSUME Init PROVE ReceptionInv
  OBVIOUS
<1> USE DEF Init
<1>1. ReceptionTypeOK
  BY DocumentAssumption, ReceptionBounds DEF ReceptionTypeOK, Receivers, InboundInvoice
<1>2. CursorsLag /\ PollsInHand /\ ReceptionsInHand /\ PassedIsFiled
  BY ReceiverAssumption DEF CursorsLag, Instants, PollsInHand, ReceptionsInHand, PassedIsFiled,
     Receivers
<1>3. FiledForBuyer /\ IdentifiedFiledOnce /\ FiledIsSealed
  BY DEF FiledForBuyer, IdentifiedFiledOnce, FiledIsSealed, Received
<1> QED
  BY <1>1, <1>2, <1>3 DEF ReceptionInv, FilingInv, PollInv

---------------------------------------------------------------------------
(* What several actions share. *)

(* While the rows stand still, so do the facts about them. *)
LEMMA FilingKept ==
  ASSUME FiledForBuyer, IdentifiedFiledOnce, FiledIsSealed,
         invoices' = invoices, blobs \subseteq blobs'
  PROVE  /\ FiledForBuyer' /\ IdentifiedFiledOnce' /\ FiledIsSealed'
         /\ \A d : Settled(d)' <=> Settled(d)
         /\ \A d : NumberTaken(d)' <=> NumberTaken(d)
BY DEF FiledForBuyer, IdentifiedFiledOnce, FiledIsSealed, Received, Settled, Filed, Fileable,
       NumberTaken, SameNumber

(* A poll holds the next document in hand while it is received: no other has its *)
(* receivedAt.                                                                   *)
LEMMA NextIsUnique ==
  ASSUME ReceptionTypeOK, CursorsLag, PollsInHand,
         NEW p \in Pollers, NEW m, NEW n, IsNext(p, m), IsNext(p, n)
  PROVE  m = n
<1>1. m \in inbox /\ n \in inbox /\ m \in todo[p] /\ n \in todo[p]
  BY DEF PollsInHand, IsNext
<1>2. m.at \in Nat /\ n.at \in Nat
  BY <1>1, ReceptionBounds DEF ReceptionTypeOK, InboundInvoice
<1>3. m.at = n.at
  BY <1>1, <1>2 DEF IsNext
<1> QED
  BY <1>1, <1>3 DEF CursorsLag

(* However receive ends, the poll it ran in keeps its types. *)
LEMMA EndsTyped ==
  ASSUME ReceptionTypeOK, NEW r \in Receivers, NEW threw \in BOOLEAN,
         ReceiveEnds(r, threw),
         /\ DOMAIN invoices' \subseteq Docs \cup InvoiceIds
         /\ invoices' \in [DOMAIN invoices' ->
                             [doc : Docs, org : Orgs, direction : {"ISSUED", "RECEIVED"}]]
         /\ blobs' \in SUBSET Docs /\ receiveFaults' \in 0..MaxReceiveFaults
  PROVE  ReceptionTypeOK'
<1>1. /\ UNCHANGED <<inbox, acked, inboundCursor, pollFaults>>
      /\ rpc' = [rpc EXCEPT ![r] = "idle"] /\ rdoc' = [rdoc EXCEPT ![r] = None]
  BY DEF ReceiveEnds, platform
<1>2. CASE r \notin Pollers
  BY <1>1, <1>2 DEF ReceptionTypeOK, ReceiveEnds, pollVars
<1>3. CASE r \in Pollers
  <2>1. PICK m \in todo[r] :
          /\ todo' = [todo EXCEPT ![r] = todo[r] \ {m}]
          /\ acknowledge' = [acknowledge EXCEPT ![r] = acknowledge[r] \cup {m}]
          /\ watermark' = [watermark EXCEPT ![r] = m.at]
          /\ ipc' = [ipc EXCEPT ![r] = IF todo[r] = {m} THEN "acknowledge" ELSE "receive"]
          /\ thrown' = IF threw THEN thrown \cup {m} ELSE thrown
          /\ since' = since
    BY <1>3 DEF ReceiveEnds
  <2>2. m \in InboundInvoice /\ m.at \in 0..MaxAt
    BY <1>3, ReceptionBounds DEF ReceptionTypeOK, InboundInvoice
  <2> QED
    BY <1>1, <1>3, <2>1, <2>2 DEF ReceptionTypeOK
<1> QED
  BY <1>2, <1>3

(* The receptions that go on are not disturbed by one that ends. *)
LEMMA OthersGoOn ==
  ASSUME ReceptionTypeOK, ReceptionsInHand, NEW r \in Receivers, NEW threw \in BOOLEAN,
         ReceiveEnds(r, threw),
         blobs \subseteq blobs',
         \A q \in Receivers \ {r}, d \in Docs :
           d = rdoc[q] /\ rpc[q] \in {"seal", "commit"} /\ NumberTaken(d)' => NumberTaken(d)
  PROVE  ReceptionsInHand'
<1>1. /\ rpc'[r] = "idle"
      /\ \A q \in Receivers \ {r} : rpc'[q] = rpc[q] /\ rdoc'[q] = rdoc[q]
  BY DEF ReceiveEnds, ReceptionTypeOK
<1>2. ASSUME NEW q \in Receivers, rpc'[q] \in {"seal", "commit"}
      PROVE  ~NumberTaken(rdoc[q])'
  <2>1. q # r /\ rpc[q] = rpc'[q] /\ rdoc'[q] = rdoc[q]
    BY <1>1, <1>2
  <2>2. rdoc[q] \in Docs /\ ~NumberTaken(rdoc[q])
    BY <1>2, <2>1 DEF ReceptionsInHand
  <2>3. PICK d \in Docs : d = rdoc[q]
    BY <2>2
  <2>4. ~NumberTaken(d)'
    BY <1>2, <2>1, <2>2, <2>3
  <2>5. rdoc'[q] = d
    BY <2>1, <2>3
  <2> QED
    BY <2>4, <2>5 DEF NumberTaken
<1>3. ASSUME NEW q \in Receivers
      PROVE  /\ rpc'[q] # "idle" => rdoc'[q] \in Docs
             /\ rpc'[q] \in {"insert", "seal", "commit"} => Fileable(rdoc[q])'
             /\ rpc'[q] = "commit" => rdoc'[q] \in blobs'
             /\ \A s \in Receivers :
                  rpc'[q] \in {"seal", "commit"} /\ rpc'[s] \in {"seal", "commit"}
                  /\ SameNumber(rdoc[q], rdoc[s])' => s = q
  BY <1>1 DEF ReceptionsInHand, Fileable, SameNumber
<1> QED
  BY <1>2, <1>3 DEF ReceptionsInHand

(* Where polls are between two receptions, receivers stand still. *)
LEMMA ReceptionsKept ==
  ASSUME ReceptionsInHand, UNCHANGED <<invoices, blobs, rpc, rdoc>>
  PROVE  ReceptionsInHand'
BY DEF ReceptionsInHand, Fileable, NumberTaken, SameNumber, Received

---------------------------------------------------------------------------
(* What is filed: receptions and rows, whatever fails. *)

(* A reception that ends without a row. *)
LEMMA EndsWithoutRow ==
  ASSUME FilingInv, NEW r \in Receivers, NEW threw \in BOOLEAN, ReceiveEnds(r, threw),
         UNCHANGED filed,
         receiveFaults' \in 0..MaxReceiveFaults
  PROVE  FilingInv'
<1> USE DEF FilingInv
<1>1. invoices' = invoices /\ blobs' = blobs
  BY DEF filed
<1>2. /\ FiledForBuyer' /\ IdentifiedFiledOnce' /\ FiledIsSealed'
      /\ \A d : NumberTaken(d)' <=> NumberTaken(d)
  BY <1>1, FilingKept
<1>3. ReceptionsInHand'
  BY <1>1, <1>2, OthersGoOn
<1>4. ReceptionTypeOK'
  BY <1>1, EndsTyped DEF ReceptionTypeOK
<1> QED
  BY <1>2, <1>3, <1>4

(* The steps that take a reception further, or begin one. *)
LEMMA FurtherSteps ==
  ASSUME FilingInv, NEW r \in Receivers,
         \/ Check(r) \/ InsertInvoice(r) \/ seal(r)
         \/ \E d \in Docs : ReceiveBegins(r, d)
  PROVE  FilingInv'
<1> USE DEF FilingInv
<1>1. /\ rpc' \in [Receivers -> {"idle", "check", "insert", "seal", "commit"}]
      /\ rdoc' \in [Receivers -> Docs \cup {None}]
      /\ \A q \in Receivers \ {r} : rpc'[q] = rpc[q] /\ rdoc'[q] = rdoc[q]
      /\ UNCHANGED <<platform, inboundCursor, pollVars, receiveFaults, pollFaults, invoices>>
      /\ blobs \subseteq blobs' /\ blobs' \subseteq blobs \cup Docs
  BY DEF Check, InsertInvoice, seal, ReceiveBegins, Step, put, filed, ReceptionTypeOK,
     ReceptionsInHand
<1>2. FiledForBuyer' /\ IdentifiedFiledOnce' /\ FiledIsSealed'
  BY <1>1, FilingKept
<1>3. ReceptionTypeOK'
  BY <1>1 DEF ReceptionTypeOK, platform, pollVars
<1>4. ReceptionsInHand'
  <2> USE <1>1 DEF ReceptionsInHand, Fileable, NumberTaken, SameNumber, Received, ReceptionTypeOK
  <2>1. CASE Check(r)
    BY <2>1 DEF Check, Step, filed
  <2>2. CASE InsertInvoice(r)
    BY <2>2 DEF InsertInvoice, InsertWaits, Step, filed
  <2>3. CASE seal(r)
    BY <2>3 DEF seal, put, Step
  <2>4. ASSUME NEW d \in Docs, ReceiveBegins(r, d)
        PROVE  ReceptionsInHand'
    BY <2>4 DEF ReceiveBegins, filed
  <2> QED
    BY <2>1, <2>2, <2>3, <2>4
<1> QED
  BY <1>2, <1>3, <1>4

(* A row is filed under a number that was free, of a document whose bytes are in the *)
(* store; nothing that was settled is disturbed, and its document is settled.        *)
LEMMA CommitStep ==
  ASSUME FilingInv, NEW r \in Receivers, Commit(r)
  PROVE  /\ FilingInv'
         /\ \A d \in Docs : Settled(d) => Settled(d)'
         /\ \A d \in Docs : d = rdoc[r] => Settled(d)'
<1> USE DEF FilingInv
<1>a. rdoc[r] \in Docs
  BY DEF Commit, ReceptionsInHand
<1>b. PICK d \in Docs : d = rdoc[r]
  BY <1>a
<1> DEFINE row == [doc |-> d, org |-> BuyerOf[d], direction |-> "RECEIVED"]
<1>1. PICK i \in InvoiceIds \ DOMAIN invoices :
        invoices' = [j \in DOMAIN invoices \cup {i} |-> IF j = i THEN row ELSE invoices[j]]
  BY <1>b DEF Commit
<1>2. /\ ReceiveEnds(r, FALSE) /\ blobs' = blobs /\ rpc[r] = "commit"
      /\ d \in Docs /\ d \in blobs /\ Fileable(d) /\ ~NumberTaken(d)
  BY <1>b DEF Commit, ReceptionsInHand
<1>3. row \in [doc : Docs, org : Orgs, direction : {"ISSUED", "RECEIVED"}]
  BY <1>2, DocumentAssumption DEF Fileable
<1>4. /\ DOMAIN invoices' = DOMAIN invoices \cup {i} /\ invoices'[i] = row
      /\ \A j \in DOMAIN invoices : invoices'[j] = invoices[j] /\ j # i
  BY <1>1
<1>5. \A e \in Docs : Settled(e) => Settled(e)'
  BY <1>4 DEF Settled, Filed, Received, Fileable
<1>6. Settled(d)'
  BY <1>4 DEF Settled, Filed, Received
<1>7. FiledForBuyer' /\ FiledIsSealed'
  BY <1>2, <1>4 DEF FiledForBuyer, FiledIsSealed, Received
<1>8. ASSUME NEW j \in DOMAIN invoices, Received(j), invoices[j].doc = d, NumberOf[d] # None
      PROVE  FALSE
  BY <1>2, <1>8 DEF NumberTaken, SameNumber
<1>9. IdentifiedFiledOnce'
  BY <1>4, <1>8 DEF IdentifiedFiledOnce, Received
<1>10. invoices' \in [DOMAIN invoices' -> [doc : Docs, org : Orgs, direction : {"ISSUED", "RECEIVED"}]]
  BY <1>1, <1>3, <1>4 DEF ReceptionTypeOK
<1>11. ReceptionTypeOK'
  BY <1>2, <1>4, <1>10, EndsTyped DEF ReceptionTypeOK, Commit
<1>12. ASSUME NEW q \in Receivers \ {r}, NEW e \in Docs,
              e = rdoc[q], rpc[q] \in {"seal", "commit"}, NumberTaken(e)'
       PROVE  NumberTaken(e)
  <2>1. ~SameNumber(e, d)
    BY <1>b, <1>2, <1>12 DEF ReceptionsInHand
  <2> QED
    BY <1>4, <1>12, <2>1 DEF NumberTaken, Received, SameNumber
<1>13. ReceptionsInHand'
  BY <1>2, <1>12, OthersGoOn
<1> QED
  BY <1>b, <1>5, <1>6, <1>7, <1>9, <1>11, <1>13

(* What arrives, and the steps of a poll around its receptions. *)
LEMMA PollsTyped ==
  ASSUME FilingInv,
         \/ \E d \in Docs, at \in 1..MaxAt : InboundArrives(d, at)
         \/ \E p \in Pollers : \/ InboundStarts(p) \/ InboundFetches(p) \/ Acknowledge(p)
                               \/ WriteInboundCursor(p) \/ InboundFails(p)
  PROVE  FilingInv'
<1> USE DEF FilingInv
<1>1. invoices' = invoices /\ blobs' = blobs
  BY DEF InboundArrives, InboundStarts, InboundFetches, Acknowledge, WriteInboundCursor,
     InboundFails, filed
<1>2. FiledForBuyer' /\ IdentifiedFiledOnce' /\ FiledIsSealed'
  BY <1>1, FilingKept
<1> SUFFICES ReceptionTypeOK' /\ ReceptionsInHand'
  BY <1>2
<1>3. 0 \in 0..MaxAt /\ 0 \in Nat
  BY ReceptionBounds
<1>4. ASSUME NEW d \in Docs, NEW at \in 1..MaxAt, InboundArrives(d, at)
      PROVE  ReceptionTypeOK' /\ ReceptionsInHand'
  BY <1>1, <1>4, ReceptionsKept DEF InboundArrives, ReceptionTypeOK, InboundInvoice, pollVars
<1>5. ASSUME NEW p \in Pollers, InboundStarts(p) \/ Acknowledge(p) \/ WriteInboundCursor(p)
      PROVE  ReceptionTypeOK' /\ ReceptionsInHand'
  <2>1. ReceptionsInHand'
    BY <1>1, <1>5, ReceptionsKept DEF InboundStarts, Acknowledge, WriteInboundCursor
  <2>2. CASE InboundStarts(p)
    BY <1>1, <2>1, <2>2 DEF InboundStarts, platform, ReceptionTypeOK
  <2>3. CASE Acknowledge(p)
    BY <1>1, <2>1, <2>3 DEF Acknowledge, ReceptionTypeOK
  <2>4. CASE WriteInboundCursor(p)
    <3>1. /\ inboundCursor' \in 0..MaxAt
          /\ UNCHANGED <<inbox, acked, rpc, rdoc, receiveFaults, pollFaults>>
      BY <2>4 DEF WriteInboundCursor, platform, ReceptionTypeOK
    <3>2. ReceptionTypeOK'
      BY <1>1, <1>3, <2>4, <3>1 DEF WriteInboundCursor, InboundEnds, ReceptionTypeOK
    <3> QED
      BY <2>1, <3>2
  <2> QED
    BY <1>5, <2>2, <2>3, <2>4
<1>6. ASSUME NEW p \in Pollers, InboundFetches(p)
      PROVE  ReceptionTypeOK' /\ ReceptionsInHand'
  BY <1>1, <1>3, <1>6, ReceptionsKept DEF InboundFetches, InboundEnds, platform, ReceptionTypeOK
<1>7. ASSUME NEW p \in Pollers, InboundFails(p)
      PROVE  ReceptionTypeOK' /\ ReceptionsInHand'
  <2>1. p \in Receivers
    BY DEF Receivers
  <2>2. ReceptionTypeOK'
    <3>1. pollFaults' \in 0..MaxPollFaults
      BY <1>7, ReceptionBounds DEF InboundFails, ReceptionTypeOK
    <3> QED
      BY <1>1, <1>3, <1>7, <2>1, <3>1 DEF InboundFails, InboundEnds, platform, ReceptionTypeOK
  <2>3. ReceptionsInHand'
    BY <1>1, <1>7, <2>1 DEF InboundFails, ReceptionsInHand, Fileable, NumberTaken, SameNumber,
       Received, ReceptionTypeOK
  <2> QED
    BY <2>2, <2>3
<1> QED
  BY <1>4, <1>5, <1>6, <1>7

(* No step disturbs what is filed. *)
LEMMA FilingSteps ==
  ASSUME FilingInv, [Next]_vars
  PROVE  FilingInv'
<1>1. ASSUME NEW r \in Receivers, ReceiveStep(r) \/ ReceiveFails(r)
      PROVE  FilingInv'
  <2>1. receiveFaults \in 0..MaxReceiveFaults
    BY DEF FilingInv, ReceptionTypeOK
  <2>2. CASE Refuse(r) \/ ReturnDuplicate(r) \/ InsertRefused(r)
    BY <2>1, <2>2, EndsWithoutRow DEF Refuse, ReturnDuplicate, InsertRefused
  <2>3. CASE ReceiveFails(r)
    <3>1. receiveFaults' \in 0..MaxReceiveFaults
      BY <2>1, <2>3, ReceptionBounds DEF ReceiveFails
    <3> QED
      BY <2>3, <3>1, EndsWithoutRow DEF ReceiveFails
  <2> QED
    BY <1>1, <2>2, <2>3, FurtherSteps, CommitStep DEF ReceiveStep
<1>2. ASSUME NEW r \in Receivers, NEW d \in Docs, ReceiveBegins(r, d)
      PROVE  FilingInv'
  BY <1>2, FurtherSteps
<1>3. ASSUME NEW p \in Pollers, InboundStep(p) \/ InboundFails(p)
      PROVE  FilingInv'
  <2>1. p \in Receivers
    BY DEF Receivers
  <2>2. ASSUME NEW m \in todo[p], ReceiveNext(p, m)
        PROVE  FilingInv'
    <3>1. m.doc \in Docs
      BY DEF FilingInv, ReceptionTypeOK, InboundInvoice
    <3> QED
      BY <1>2, <2>1, <2>2, <3>1 DEF ReceiveNext
  <2> QED
    BY <1>1, <1>3, <2>1, <2>2, PollsTyped DEF InboundStep
<1>4. CASE UNCHANGED vars
  BY <1>4, FilingKept, ReceptionsKept DEF vars, filed, platform, pollVars, FilingInv, ReceptionTypeOK
<1>5. CASE Next
  <2>1. Uploads \subseteq Receivers
    BY DEF Receivers
  <2> QED
    BY <1>1, <1>2, <1>3, <1>5, <2>1, PollsTyped DEF Next, upload
<1> QED
  BY <1>4, <1>5

---------------------------------------------------------------------------
(* What polls pass over. *)

(* Where receive returns and its document is settled, or throws, the poll may go on *)
(* to the next one: all that it leaves behind is dealt with.                        *)
LEMMA EndsWell ==
  ASSUME ReceptionTypeOK, CursorsLag, PollsInHand, PassedIsFiled,
         NEW r \in Receivers, rpc[r] # "idle", NEW threw \in BOOLEAN, ReceiveEnds(r, threw),
         \A d \in Docs : Settled(d) => Settled(d)',
         r \in Pollers /\ ~threw => \A d \in Docs : d = rdoc[r] => Settled(d)'
  PROVE  PollInv'
<1>a. /\ inbox' = inbox /\ acked' = acked /\ inboundCursor' = inboundCursor
      /\ \A m \in inbox : m \in InboundInvoice /\ m.doc \in Docs /\ m.at \in 1..MaxAt
      /\ 1..MaxAt \subseteq 0..MaxAt /\ 0..MaxAt \subseteq Nat
  BY ReceptionBounds DEF ReceiveEnds, platform, ReceptionTypeOK, InboundInvoice
<1>d. ASSUME NEW m \in inbox, Dealt(m)
      PROVE  m \in thrown' \/ Settled(m.doc)'
  BY <1>a, <1>d DEF Dealt, ReceiveEnds, pollVars
<1>b. PassedIsFiled'
  BY <1>a, <1>d DEF PassedIsFiled, Dealt
<1>c. rpc'[r] = "idle" /\ \A q \in Receivers \ {r} : rpc'[q] = rpc[q] /\ rdoc'[q] = rdoc[q]
  BY DEF ReceiveEnds, ReceptionTypeOK
<1>1. CASE r \notin Pollers
  <2>1. UNCHANGED pollVars
    BY <1>1 DEF ReceiveEnds
  <2>2. CursorsLag'
    BY <1>a, <2>1 DEF CursorsLag, Instants, pollVars
  <2>3. ASSUME NEW p \in Pollers
        PROVE  rpc'[p] = rpc[p] /\ rdoc'[p] = rdoc[p]
    BY <1>1, <1>c DEF Receivers
  <2>4. PollsInHand'
    BY <1>a, <1>d, <2>1, <2>3 DEF PollsInHand, DealtUpTo, Dealt, IsNext, pollVars
  <2> QED
    BY <1>b, <2>2, <2>4 DEF PollInv
<1>2. CASE r \in Pollers
  <2>1. PICK m \in todo[r] :
          /\ IsNext(r, m)
          /\ todo' = [todo EXCEPT ![r] = todo[r] \ {m}]
          /\ acknowledge' = [acknowledge EXCEPT ![r] = acknowledge[r] \cup {m}]
          /\ watermark' = [watermark EXCEPT ![r] = m.at]
          /\ ipc' = [ipc EXCEPT ![r] = IF todo[r] = {m} THEN "acknowledge" ELSE "receive"]
          /\ thrown' = IF threw THEN thrown \cup {m} ELSE thrown
          /\ since' = since
    BY <1>2 DEF ReceiveEnds
  <2>2. m \in inbox /\ ipc[r] = "receive"
    BY <1>2, <2>1 DEF PollsInHand
  <2>3. m \in thrown' \/ Settled(m.doc)'
    <3>1. CASE threw
      BY <2>1, <3>1
    <3>2. CASE ~threw
      BY <1>2, <1>a, <2>1, <2>2, <3>2, NextIsUnique DEF PollsInHand
    <3> QED
      BY <3>1, <3>2
  <2>4. CursorsLag'
    BY <1>2, <1>a, <2>1, <2>2 DEF CursorsLag, Instants, ReceptionTypeOK
  <2>5. ASSUME NEW p \in Pollers
        PROVE  /\ todo'[p] \subseteq inbox' /\ acknowledge'[p] \subseteq inbox'
               /\ \A n \in acknowledge'[p] : n \in thrown' \/ Settled(n.doc)'
    <3>1. /\ todo[p] \subseteq inbox /\ acknowledge[p] \subseteq inbox
          /\ \A n \in acknowledge[p] : Dealt(n)
      BY DEF PollsInHand
    <3>2. todo'[p] \subseteq todo[p] /\ acknowledge'[p] \subseteq acknowledge[p] \cup {m}
      BY <1>2, <2>1 DEF ReceptionTypeOK
    <3> QED
      BY <1>a, <1>d, <2>2, <2>3, <3>1, <3>2
  <2>6. ASSUME NEW p \in Pollers, p # r
        PROVE  /\ rpc'[p] = rpc[p] /\ rdoc'[p] = rdoc[p] /\ ipc'[p] = ipc[p]
               /\ since'[p] = since[p] /\ todo'[p] = todo[p] /\ watermark'[p] = watermark[p]
    BY <1>c, <2>1, <2>6 DEF Receivers, ReceptionTypeOK
  <2>7. /\ rpc'[r] = "idle" /\ ipc'[r] \in {"receive", "acknowledge"}
        /\ ipc'[r] = "acknowledge" <=> todo[r] = {m}
        /\ todo'[r] = todo[r] \ {m} /\ watermark'[r] = m.at
    BY <1>2, <1>c, <2>1 DEF ReceptionTypeOK
  <2>8. ASSUME ipc'[r] = "receive", NEW n \in inbox
        PROVE  \/ n \in thrown' \/ Settled(n.doc)'
               \/ n \in todo'[r] \/ \A k \in todo'[r] : k.at < n.at
    BY <1>2, <1>a, <1>d, <2>2, <2>3, <2>7 DEF PollsInHand
  <2>9. ASSUME ipc'[r] = "acknowledge", NEW n \in inbox, n.at <= m.at
         PROVE  n \in thrown' \/ Settled(n.doc)'
    <3>1. Dealt(n) \/ n \in {m} \/ m.at < n.at
      BY <1>2, <2>1, <2>2, <2>7, <2>9 DEF PollsInHand
    <3>2. ~(m.at < n.at)
      BY <1>a, <2>2, <2>9
    <3> QED
      BY <1>a, <1>d, <2>3, <3>1, <3>2
  <2>10. PollsInHand'
    <3> SUFFICES ASSUME NEW p \in Pollers
                 PROVE  /\ rpc'[p] # "idle" =>
                             ipc'[p] = "receive"
                             /\ \E n \in todo'[p] : IsNext(p, n)' /\ rdoc'[p] = n.doc
                        /\ ipc'[p] = "fetch" => DealtUpTo(since[p])'
                        /\ ipc'[p] = "receive" =>
                             \A n \in inbox' : \/ Dealt(n)' \/ n \in todo'[p]
                                               \/ \A k \in todo'[p] : k.at < n.at
                        /\ ipc'[p] \in {"acknowledge", "cursor"} => DealtUpTo(watermark[p])'
      BY <2>5 DEF PollsInHand, Dealt
    <3>1. CASE p = r
      BY <1>a, <2>7, <2>8, <2>9, <3>1 DEF DealtUpTo, Dealt
    <3>2. CASE p # r
      BY <1>a, <1>d, <2>6, <3>2 DEF PollsInHand, IsNext, DealtUpTo, Dealt
    <3> QED
      BY <3>1, <3>2
  <2> QED
    BY <1>b, <2>4, <2>10 DEF PollInv
<1> QED
  BY <1>1, <1>2

(* A reception that ends leaves its poll with all behind it dealt with. *)
LEMMA EndSteps ==
  ASSUME ReceptionInv, NEW r \in Receivers,
         Refuse(r) \/ ReturnDuplicate(r) \/ InsertRefused(r) \/ Commit(r) \/ ReceiveFails(r)
  PROVE  PollInv'
<1> USE DEF ReceptionInv, FilingInv, PollInv
<1>1. CASE Commit(r)
  BY <1>1, CommitStep, EndsWell DEF Commit
<1>2. CASE InsertRefused(r) \/ ReceiveFails(r)
  <2>1. /\ ReceiveEnds(r, TRUE) /\ rpc[r] # "idle"
        /\ invoices' = invoices /\ blobs' = blobs
    BY <1>2 DEF InsertRefused, ReceiveFails, filed
  <2>2. \A d : Settled(d)' <=> Settled(d)
    BY <2>1, FilingKept
  <2> QED
    BY <2>1, <2>2, EndsWell
<1>3. CASE Refuse(r) \/ ReturnDuplicate(r)
  <2>1. /\ ReceiveEnds(r, FALSE) /\ rpc[r] # "idle" /\ rdoc[r] \in Docs
        /\ invoices' = invoices /\ blobs' = blobs
    BY <1>3 DEF Refuse, ReturnDuplicate, filed, ReceptionsInHand
  <2>2. \A d : Settled(d)' <=> Settled(d)
    BY <2>1, FilingKept
  <2>3. Settled(rdoc[r])
    BY <1>3 DEF Refuse, ReturnDuplicate, Settled, Filed, findAlreadyReceived
  <2> QED
    BY <2>1, <2>2, <2>3, EndsWell
<1> QED
  BY <1>1, <1>2, <1>3

(* A reception that begins or goes on leaves its poll where it is. *)
LEMMA GoingOn ==
  ASSUME ReceptionInv, NEW r \in Receivers,
         \/ Check(r) \/ InsertInvoice(r) \/ seal(r)
         \/ \E d \in Docs :
              /\ ReceiveBegins(r, d)
              /\ r \in Pollers =>
                   ipc[r] = "receive" /\ \E m \in todo[r] : IsNext(r, m) /\ d = m.doc
  PROVE  PollInv'
<1> USE DEF ReceptionInv, FilingInv, PollInv
<1>1. /\ UNCHANGED <<platform, inboundCursor, pollVars, invoices>>
      /\ blobs \subseteq blobs'
      /\ \A p \in Pollers : p # r => rpc'[p] = rpc[p] /\ rdoc'[p] = rdoc[p]
      /\ r \in Pollers => ipc[r] = "receive" /\ \E m \in todo[r] : IsNext(r, m) /\ rdoc'[r] = m.doc
  BY DEF Check, InsertInvoice, seal, ReceiveBegins, Step, put, filed, ReceptionTypeOK, Receivers,
     PollsInHand
<1>2. \A d : Settled(d)' <=> Settled(d)
  BY <1>1, FilingKept
<1>3. CursorsLag' /\ PassedIsFiled'
  BY <1>1, <1>2 DEF CursorsLag, Instants, PassedIsFiled, Dealt, platform, pollVars
<1>4. PollsInHand'
  BY <1>1, <1>2 DEF PollsInHand, DealtUpTo, Dealt, IsNext, platform, pollVars
<1> QED
  BY <1>3, <1>4

(* Whatever arrives is later than every cursor, and than all that a poll has fetched. *)
LEMMA ArrivalStep ==
  ASSUME ReceptionInv, NEW d \in Docs, NEW at \in 1..MaxAt, InboundArrives(d, at)
  PROVE  PollInv'
<1> USE DEF ReceptionInv, FilingInv, PollInv
<1> DEFINE m == [doc |-> d, at |-> at]
<1>1. /\ \A n \in inbox : n.at < at
      /\ inbox' = inbox \cup {m}
      /\ UNCHANGED <<filed, acked, inboundCursor, rpc, rdoc, pollVars, receiveFaults, pollFaults>>
      /\ invoices' = invoices /\ blobs' = blobs
  BY DEF InboundArrives, filed
<1>2. m \in InboundInvoice /\ m.at = at /\ at \in Nat /\ at > 0
  BY ReceptionBounds DEF InboundInvoice
<1>3. \A n : Dealt(n)' <=> Dealt(n)
  BY <1>1, FilingKept DEF Dealt, pollVars
<1>4. \A n \in inbox : n.at \in Nat
  BY ReceptionBounds DEF ReceptionTypeOK, InboundInvoice
<1> HIDE DEF m
<1>5. CursorsLag'
  BY <1>1, <1>2, <1>4 DEF CursorsLag, Instants, pollVars
<1>6. \A t \in Instants : t \in Nat /\ t < at
  BY <1>1, <1>2, <1>4 DEF Instants
<1>7. PassedIsFiled'
  <2>1. m \notin acked /\ inboundCursor \in Instants
    BY <1>1, <1>2, <1>4 DEF CursorsLag
  <2> QED
    BY <1>1, <1>2, <1>3, <1>6, <2>1 DEF PassedIsFiled
<1>8. \A t \in Instants : DealtUpTo(t) => \A n \in inbox' : n.at <= t => Dealt(n)'
  BY <1>1, <1>2, <1>3, <1>6 DEF DealtUpTo
<1>9. PollsInHand'
  <2> SUFFICES ASSUME NEW p \in Pollers
               PROVE  /\ todo'[p] \subseteq inbox' /\ acknowledge'[p] \subseteq inbox'
                      /\ \A n \in acknowledge'[p] : Dealt(n)'
                      /\ rpc'[p] # "idle" =>
                           ipc'[p] = "receive"
                           /\ \E n \in todo'[p] : IsNext(p, n)' /\ rdoc'[p] = n.doc
                      /\ ipc'[p] = "fetch" => DealtUpTo(since[p])'
                      /\ ipc'[p] = "receive" =>
                           \A n \in inbox' : \/ Dealt(n)' \/ n \in todo'[p]
                                             \/ \A k \in todo'[p] : k.at < n.at
                      /\ ipc'[p] \in {"acknowledge", "cursor"} => DealtUpTo(watermark[p])'
    BY DEF PollsInHand
  <2>1. /\ todo'[p] \subseteq inbox' /\ acknowledge'[p] \subseteq inbox'
        /\ \A n \in acknowledge'[p] : Dealt(n)'
    BY <1>1, <1>3 DEF PollsInHand, pollVars
  <2>2. rpc'[p] # "idle" =>
          ipc'[p] = "receive" /\ \E n \in todo'[p] : IsNext(p, n)' /\ rdoc'[p] = n.doc
    BY <1>1 DEF PollsInHand, IsNext, pollVars
  <2>3. /\ ipc'[p] = "fetch" => DealtUpTo(since[p])'
        /\ ipc'[p] \in {"acknowledge", "cursor"} => DealtUpTo(watermark[p])'
    <3>1. since[p] \in Instants /\ watermark[p] \in Instants
      BY DEF CursorsLag
    <3> QED
      BY <1>1, <1>8, <3>1 DEF PollsInHand, pollVars, DealtUpTo
  <2>4. ipc'[p] = "receive" =>
          \A n \in inbox' : Dealt(n)' \/ n \in todo'[p] \/ \A k \in todo'[p] : k.at < n.at
    BY <1>1, <1>2, <1>3 DEF PollsInHand, pollVars
  <2> QED
    BY <2>1, <2>2, <2>3, <2>4
<1> QED
  BY <1>5, <1>7, <1>9

(* The steps of a poll between receptions, and a poll cut short. *)
LEMMA PollSteps ==
  ASSUME ReceptionInv, NEW p \in Pollers,
         \/ InboundStarts(p) \/ InboundFetches(p) \/ Acknowledge(p)
         \/ WriteInboundCursor(p) \/ InboundFails(p)
  PROVE  PollInv'
<1> USE DEF ReceptionInv, FilingInv, PollInv
<1>1. UNCHANGED filed /\ inbox' = inbox /\ invoices' = invoices /\ blobs' = blobs
      /\ thrown' = thrown
  BY DEF InboundStarts, InboundFetches, Acknowledge, WriteInboundCursor, InboundFails,
     InboundEnds, filed, platform
<1>2. \A n : Dealt(n)' <=> Dealt(n)
  BY <1>1, FilingKept DEF Dealt
<1>3. p \in Receivers
  BY DEF Receivers
<1>4. \A m \in inbox : m.at \in 1..MaxAt /\ m.at \in Nat
  BY ReceptionBounds DEF ReceptionTypeOK, InboundInvoice
<1>5. 0 \in 0..MaxAt /\ 0 \in Instants
  BY ReceptionBounds DEF Instants
<1>6. CASE InboundStarts(p)
  <2>1. DealtUpTo(inboundCursor)
    BY DEF PassedIsFiled, DealtUpTo
  <2>2. CursorsLag' /\ PassedIsFiled'
    BY <1>1, <1>2, <1>6 DEF InboundStarts, platform, ReceptionTypeOK, CursorsLag, Instants,
       PassedIsFiled
  <2>3. PollsInHand'
    BY <1>1, <1>2, <1>6, <2>1 DEF InboundStarts, platform, ReceptionTypeOK, PollsInHand,
       DealtUpTo, IsNext
  <2> QED
    BY <2>2, <2>3
<1>7. CASE InboundFetches(p)
  <2>1. PICK fetched \in SUBSET inbox :
          /\ \A m \in inbox : m.at > since[p] /\ m \notin acked => m \in fetched
          /\ \/ fetched = {} /\ InboundEnds(p)
             \/ /\ ipc' = [ipc EXCEPT ![p] = "receive"]
                /\ todo' = [todo EXCEPT ![p] = fetched]
                /\ UNCHANGED <<since, acknowledge, watermark, thrown>>
    BY <1>7 DEF InboundFetches
  <2>2. /\ UNCHANGED <<platform, inboundCursor, rpc, rdoc, receiveFaults, pollFaults>>
        /\ rpc[p] = "idle" /\ ipc[p] = "fetch"
    BY <1>7 DEF InboundFetches, PollsInHand
  <2>3. ASSUME NEW m \in inbox, m \notin fetched
        PROVE  Dealt(m)
    <3>1. ~(m.at > since[p]) => m.at <= since[p]
      BY <1>4 DEF ReceptionTypeOK
    <3> QED
      BY <2>1, <2>2, <2>3, <3>1 DEF PollsInHand, DealtUpTo, PassedIsFiled
  <2>4. CursorsLag' /\ PassedIsFiled'
    BY <1>1, <1>2, <1>5, <2>1, <2>2 DEF InboundEnds, platform, ReceptionTypeOK, CursorsLag,
       Instants, PassedIsFiled
  <2>5. PollsInHand'
    BY <1>1, <1>2, <2>1, <2>2, <2>3 DEF InboundEnds, platform, ReceptionTypeOK, PollsInHand,
       DealtUpTo, IsNext
  <2> QED
    BY <2>4, <2>5
<1>8. CASE Acknowledge(p)
  <2>1. CursorsLag' /\ PassedIsFiled'
    BY <1>1, <1>2, <1>8 DEF Acknowledge, ReceptionTypeOK, CursorsLag, Instants, PassedIsFiled,
       PollsInHand
  <2>2. PollsInHand'
    BY <1>1, <1>2, <1>8 DEF Acknowledge, ReceptionTypeOK, PollsInHand, DealtUpTo, IsNext
  <2> QED
    BY <2>1, <2>2
<1>9. CASE WriteInboundCursor(p)
  <2>1. DealtUpTo(watermark[p]) /\ rpc[p] = "idle"
    BY <1>9 DEF WriteInboundCursor, PollsInHand
  <2>2. CursorsLag'
    BY <1>1, <1>5, <1>9 DEF WriteInboundCursor, InboundEnds, platform, ReceptionTypeOK, CursorsLag,
       Instants
  <2>3. PassedIsFiled'
    BY <1>1, <1>2, <1>9, <2>1 DEF WriteInboundCursor, platform, PassedIsFiled, DealtUpTo
  <2>4. PollsInHand'
    BY <1>1, <1>2, <1>9, <2>1 DEF WriteInboundCursor, InboundEnds, platform, ReceptionTypeOK,
       PollsInHand, DealtUpTo, IsNext
  <2> QED
    BY <2>2, <2>3, <2>4
<1>10. CASE InboundFails(p)
  <2>1. CursorsLag' /\ PassedIsFiled'
    BY <1>1, <1>2, <1>3, <1>5, <1>10, ReceptionBounds DEF InboundFails, InboundEnds, platform,
       ReceptionTypeOK, CursorsLag, Instants, PassedIsFiled
  <2>2. PollsInHand'
    BY <1>1, <1>2, <1>3, <1>10 DEF InboundFails, InboundEnds, platform, ReceptionTypeOK,
       PollsInHand, DealtUpTo, IsNext, Receivers
  <2> QED
    BY <2>1, <2>2
<1> QED
  BY <1>6, <1>7, <1>8, <1>9, <1>10

---------------------------------------------------------------------------
(* The theorems. *)

(* FilingInv is inductive by itself: an open transaction of persist has its number to *)
(* itself and its bytes in the store before it commits, whatever fails around it.     *)
THEOREM FilingInvariant == Spec => []FilingInv
<1>1. Init => FilingInv
  BY InitReception DEF ReceptionInv
<1> QED
  BY <1>1, FilingSteps, PTL DEF Spec

(* No document that names its supplier is filed twice for its buyer, however uploads *)
(* and polls race and whatever fails.                                                *)
THEOREM OneInvoiceEach == Spec => []IdentifiedFiledOnce
<1>1. FilingInv => IdentifiedFiledOnce
  BY DEF FilingInv
<1> QED
  BY <1>1, FilingInvariant, PTL

(* Every archived invoice has its bytes in the store, which seal writes outside the *)
(* transaction, whatever is rolled back.                                            *)
THEOREM BytesBehindRows == Spec => []FiledIsSealed
<1>1. FilingInv => FiledIsSealed
  BY DEF FilingInv
<1> QED
  BY <1>1, FilingInvariant, PTL

(* What a poll still has to receive is all that lies between its watermark and what is *)
(* filed or rejected, wherever polls are cut short and receptions fail (pollInbound).  *)
THEOREM ReceptionInvariant == Spec => []ReceptionInv
<1>1. ASSUME ReceptionInv, Next
      PROVE  PollInv'
  <2>1. ASSUME NEW r \in Receivers, ReceiveStep(r) \/ ReceiveFails(r)
        PROVE  PollInv'
    BY <1>1, <2>1, EndSteps, GoingOn DEF ReceiveStep
  <2>2. ASSUME NEW d \in Docs, NEW at \in 1..MaxAt, InboundArrives(d, at)
        PROVE  PollInv'
    BY <1>1, <2>2, ArrivalStep
  <2>3. ASSUME NEW u \in Uploads, NEW d \in Docs, upload(u, d)
        PROVE  PollInv'
    <3>1. u \in Receivers /\ u \notin Pollers
      BY ReceiverAssumption DEF Receivers
    <3> QED
      BY <1>1, <2>3, <3>1, GoingOn DEF upload
  <2>4. ASSUME NEW p \in Pollers, InboundStep(p) \/ InboundFails(p)
        PROVE  PollInv'
    <3>1. p \in Receivers
      BY DEF Receivers
    <3>2. ASSUME NEW m \in todo[p], ReceiveNext(p, m)
          PROVE  PollInv'
      <4>1. m.doc \in Docs
        BY <1>1 DEF ReceptionInv, FilingInv, ReceptionTypeOK, InboundInvoice
      <4> QED
        BY <1>1, <3>1, <3>2, <4>1, GoingOn DEF ReceiveNext
    <3> QED
      BY <1>1, <2>1, <2>4, <3>1, <3>2, PollSteps DEF InboundStep
  <2>5. Uploads \subseteq Receivers
    BY DEF Receivers
  <2> QED
    BY <1>1, <2>1, <2>2, <2>3, <2>4, <2>5 DEF Next
<1>2. ASSUME ReceptionInv, UNCHANGED vars
      PROVE  PollInv'
  BY <1>2 DEF vars, filed, platform, pollVars, ReceptionInv, PollInv, CursorsLag, Instants,
     PollsInHand, DealtUpTo, Dealt, IsNext, PassedIsFiled, Settled, Filed, Fileable, Received
<1>3. ReceptionInv /\ [Next]_vars => ReceptionInv'
  BY <1>1, <1>2, FilingSteps DEF ReceptionInv
<1> QED
  BY <1>3, InitReception, PTL DEF Spec

(* What the platform has been told to forget, or the cursor has passed, has its invoice *)
(* unless its own reception threw: pollInbound acknowledges and moves the cursor after  *)
(* the writes, and of the polls cut short or overtaken none passes anything over.       *)
THEOREM NothingPassedOver == Spec => []PassedIsFiled
<1>1. ReceptionInv => PassedIsFiled
  BY DEF ReceptionInv, PollInv
<1> QED
  BY <1>1, ReceptionInvariant, PTL
================================================================================

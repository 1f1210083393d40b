------------------------------ MODULE IssuanceProofs ------------------------------
(***************************************************************************)
(* Proofs about issuing invoices, for every set of users, drafts, invoices *)
(* and requests, whatever issuances race, fail or find spoilt bytes.       *)
(***************************************************************************)
EXTENDS Issuance, FoldLemmas, TLAPS

Ahead == {"inserting", "pdf", "xml", "commit"}

(* The transaction of an issuance is open from its insertion to its commit. *)
Open(r) == req[r].at \in {"pdf", "xml", "commit"}

Sealed(bytes) == bytes \in DOMAIN store /\ store[bytes] = "sealed"

RequestTyped(q) == q = Idle \/ q \in [at : Ahead, org : Orgs, draft : Drafts]

TypeInv ==
  /\ DOMAIN req = Requests /\ \A r \in Requests : RequestTyped(req[r])
  /\ invoices \in [DOMAIN invoices -> Invoice]

(* The number of an open transaction is its own: nobody else has it open, and it is *)
(* on no issued invoice.                                                            *)
NumberInv ==
  /\ TypeInv
  /\ NumberIssuedOnce
  /\ \A r \in Requests : Open(r) => ~NumberTaken(r)
  /\ \A q, r \in Requests :
       q # r /\ Open(q) /\ Open(r) => ~SameNumber(r, req[q].org, req[q].draft)

(* What an open transaction has sealed is in the store. *)
StoreInv ==
  /\ TypeInv
  /\ \A r \in Requests :
       /\ req[r].at \in {"xml", "commit"} => Sealed(BytesOf(r, "pdf"))
       /\ req[r].at = "commit" => Sealed(BytesOf(r, "xml"))

---------------------------------------------------------------------------
(* Types *)

(* A request that goes on; the others wait. *)
LEMMA GoesOn ==
  ASSUME TypeInv, NEW r \in Requests, NEW q, Goto(r, q)
  PROVE  /\ req'[r] = q /\ DOMAIN req' = Requests
         /\ \A p \in Requests \ {r} : req'[p] = req[p]
BY DEF TypeInv, Goto

LEMMA OthersWait ==
  ASSUME TypeInv, UNCHANGED invoices, NEW r \in Requests, NEW q, Goto(r, q), RequestTyped(q)
  PROVE  TypeInv'
BY GoesOn DEF TypeInv, RequestTyped

LEMMA RequestAhead ==
  ASSUME TypeInv, NEW r \in Requests, req[r].at \in Ahead
  PROVE  req[r] \in [at : Ahead, org : Orgs, draft : Drafts]
BY DEF TypeInv, RequestTyped, Idle, Ahead

LEMMA NewInvoiceTyped ==
  ASSUME TypeInv, NEW i, NEW invoice \in Invoice, invoices' = Put(invoices, i, invoice),
         \A r \in Requests : RequestTyped(req'[r]), DOMAIN req' = Requests
  PROVE  TypeInv'
BY DEF TypeInv, Put

LEMMA TypeSteps == TypeInv /\ [Next]_vars => TypeInv'
<1> SUFFICES ASSUME TypeInv, [Next]_vars PROVE TypeInv'
  OBVIOUS
<1>1. ASSUME NEW r \in Requests, NEW u \in Callers, NEW o \in Orgs, NEW d \in Drafts,
             IssueJudged(r, u, o, d)
      PROVE  TypeInv'
  BY <1>1, OthersWait DEF IssueJudged, rows, RequestTyped, Ahead
<1>2. ASSUME NEW r \in Requests, Insert(r)
      PROVE  TypeInv'
  <2>1. req[r] \in [at : Ahead, org : Orgs, draft : Drafts]
    BY <1>2, RequestAhead DEF Insert, Ahead
  <2>2. RequestTyped([req[r] EXCEPT !.at = "pdf"]) /\ RequestTyped(Idle)
    BY <2>1 DEF RequestTyped, Ahead
  <2> QED
    BY <1>2, <2>2, OthersWait DEF Insert, rows
<1>3. ASSUME NEW r \in Requests, seal(r, "pdf", "xml") \/ seal(r, "xml", "commit")
      PROVE  TypeInv'
  <2>1. req[r] \in [at : Ahead, org : Orgs, draft : Drafts]
    BY <1>3, RequestAhead DEF seal, Ahead
  <2>2. RequestTyped([req[r] EXCEPT !.at = "xml"]) /\ RequestTyped([req[r] EXCEPT !.at = "commit"])
    BY <2>1 DEF RequestTyped, Ahead
  <2> QED
    BY <1>3, <2>2, OthersWait DEF seal, rows
<1>4. ASSUME NEW r \in Requests, CommitInvoice(r)
      PROVE  TypeInv'
  <2>1. req[r] \in [at : Ahead, org : Orgs, draft : Drafts]
    BY <1>4, RequestAhead DEF CommitInvoice, Ahead
  <2>2. PICK i : invoices' = Put(invoices, i,
            [org |-> req[r].org, direction |-> "ISSUED", draft |-> req[r].draft,
             state |-> "VALIDATED", valid |-> TRUE, transmission |-> None])
    BY <1>4 DEF CommitInvoice
  <2>3. [org |-> req[r].org, direction |-> "ISSUED", draft |-> req[r].draft,
         state |-> "VALIDATED", valid |-> TRUE, transmission |-> None] \in Invoice
    BY <2>1 DEF Invoice
  <2>4. DOMAIN req' = Requests /\ \A p \in Requests : RequestTyped(req'[p])
    BY <1>4, GoesOn DEF CommitInvoice, RequestTyped, TypeInv
  <2> QED
    BY <2>2, <2>3, <2>4, NewInvoiceTyped
<1>5. ASSUME NEW r \in Requests, IssueFails(r)
      PROVE  TypeInv'
  BY <1>5, OthersWait DEF IssueFails, rows, RequestTyped
<1>6. ASSUME NEW o \in Orgs, NEW valid \in BOOLEAN, Receive(o, valid)
      PROVE  TypeInv'
  <2>1. PICK i : invoices' = Put(invoices, i,
            [org |-> o, direction |-> "RECEIVED", draft |-> None,
             state |-> "RECEIVED", valid |-> valid, transmission |-> None])
    BY <1>6 DEF Receive
  <2>2. [org |-> o, direction |-> "RECEIVED", draft |-> None,
         state |-> "RECEIVED", valid |-> valid, transmission |-> None] \in Invoice
    BY DEF Invoice
  <2> QED
    BY <1>6, <2>1, <2>2, NewInvoiceTyped DEF Receive, TypeInv
<1>7. ASSUME NEW i \in InvoiceIds, Transmit(i)
      PROVE  TypeInv'
  BY <1>7 DEF Transmit, TypeInv, Invoice
<1>8. ASSUME \/ \E u \in Callers, o \in Orgs, complete \in BOOLEAN : CreateOrg(u, o, complete)
             \/ \E bytes \in DOMAIN store : Spoil(bytes)
             \/ \E o \in Orgs : Connect(o)
             \/ UNCHANGED vars
      PROVE  TypeInv'
  BY <1>8 DEF CreateOrg, Spoil, Connect, vars, rows, TypeInv
<1> QED
  BY <1>1, <1>2, <1>3, <1>4, <1>5, <1>6, <1>7, <1>8 DEF Next, IssueStep

LEMMA StartTyped == Init => TypeInv
BY DEF Init, TypeInv, RequestTyped

---------------------------------------------------------------------------
(* Numbers *)

(* What an invoice is numbered with. *)
SameInvoices ==
  /\ DOMAIN invoices' = DOMAIN invoices
  /\ \A i \in DOMAIN invoices :
       /\ invoices'[i].org = invoices[i].org /\ invoices'[i].draft = invoices[i].draft
       /\ invoices'[i].direction = invoices[i].direction

(* No transaction opens and no invoice gets or changes a number. *)
LEMMA NumbersStand ==
  ASSUME NumberInv, TypeInv', SameInvoices,
         \A r \in Requests : Open(r)' => Open(r) /\ req'[r].org = req[r].org
                                        /\ req'[r].draft = req[r].draft
  PROVE  NumberInv'
<1>1. NumberIssuedOnce'
  BY DEF NumberInv, NumberIssuedOnce, SameInvoices
<1>2. ASSUME NEW r \in Requests, Open(r)'
      PROVE  ~NumberTaken(r)'
  BY <1>2 DEF NumberInv, NumberTaken, SameNumber, SameInvoices
<1>3. ASSUME NEW q \in Requests, NEW r \in Requests, q # r, Open(q)', Open(r)'
      PROVE  ~SameNumber(r, req[q].org, req[q].draft)'
  BY <1>3 DEF NumberInv, SameNumber
<1> QED
  BY <1>1, <1>2, <1>3 DEF NumberInv

LEMMA NumberSteps == NumberInv /\ [Next]_vars => NumberInv'
<1> SUFFICES ASSUME NumberInv, [Next]_vars PROVE NumberInv'
  OBVIOUS
<1>t. TypeInv /\ TypeInv'
  BY TypeSteps DEF NumberInv
<1>w. UNCHANGED invoices => SameInvoices
  BY DEF SameInvoices
<1>1. ASSUME NEW r \in Requests, NEW u \in Callers, NEW o \in Orgs, NEW d \in Drafts,
             IssueJudged(r, u, o, d)
      PROVE  NumberInv'
  BY <1>1, <1>t, <1>w, GoesOn, NumbersStand DEF IssueJudged, Open, rows
<1>2. ASSUME NEW r \in Requests, Insert(r)
      PROVE  NumberInv'
  <2>1. req[r] \in [at : Ahead, org : Orgs, draft : Drafts]
    BY <1>2, <1>t, RequestAhead DEF Insert, Ahead
  <2>2. UNCHANGED invoices /\ \A p \in Requests \ {r} : req'[p] = req[p]
    BY <1>2, <1>t, GoesOn DEF Insert, rows
  <2>3. CASE NumberTaken(r)
    <3>1. req'[r] = Idle
      BY <1>2, <1>t, <2>3, GoesOn DEF Insert
    <3> QED
      BY <1>t, <1>w, <2>2, <3>1, NumbersStand DEF Open, Idle
  <2>4. CASE ~NumberTaken(r)
    <3>1. req'[r] = [req[r] EXCEPT !.at = "pdf"]
      BY <1>2, <1>t, <2>4, GoesOn DEF Insert
    <3>2. req'[r].org = req[r].org /\ req'[r].draft = req[r].draft
      BY <2>1, <3>1
    <3>3. NumberIssuedOnce'
      BY <2>2 DEF NumberInv, NumberIssuedOnce
    <3>4. ASSUME NEW p \in Requests, Open(p)'
          PROVE  ~NumberTaken(p)'
      BY <2>2, <2>4, <3>2, <3>4 DEF NumberInv, NumberTaken, SameNumber, Open
    <3>5. \A q \in Requests : Open(q) => ~SameNumber(r, req[q].org, req[q].draft)
      BY <1>2 DEF Insert, Waits, Open
    <3>6. ASSUME NEW p \in Requests, NEW q \in Requests, p # q, Open(p)', Open(q)'
          PROVE  ~SameNumber(p, req[q].org, req[q].draft)'
      BY <2>2, <3>2, <3>5, <3>6 DEF NumberInv, SameNumber, Open
    <3> QED
      BY <1>t, <3>3, <3>4, <3>6 DEF NumberInv
  <2> QED
    BY <2>3, <2>4
<1>3. ASSUME NEW r \in Requests, seal(r, "pdf", "xml") \/ seal(r, "xml", "commit")
      PROVE  NumberInv'
  <2>1. req[r] \in [at : Ahead, org : Orgs, draft : Drafts] /\ Open(r)
    BY <1>3, <1>t, RequestAhead DEF seal, Ahead, Open
  <2>2. UNCHANGED invoices /\ \A p \in Requests \ {r} : req'[p] = req[p]
    BY <1>3, <1>t, GoesOn DEF seal, rows
  <2>3. req'[r].org = req[r].org /\ req'[r].draft = req[r].draft
    BY <1>3, <1>t, <2>1, GoesOn DEF seal
  <2> QED
    BY <1>t, <1>w, <2>1, <2>2, <2>3, NumbersStand DEF Open
<1>4. ASSUME NEW r \in Requests, CommitInvoice(r)
      PROVE  NumberInv'
  <2>1. PICK i \in InvoiceIds \ DOMAIN invoices :
          invoices' = Put(invoices, i,
            [org |-> req[r].org, direction |-> "ISSUED", draft |-> req[r].draft,
             state |-> "VALIDATED", valid |-> TRUE, transmission |-> None])
    BY <1>4 DEF CommitInvoice
  <2>2. /\ Open(r) /\ ~Open(r)'
        /\ \A p \in Requests \ {r} : req'[p] = req[p]
    BY <1>4, <1>t, GoesOn DEF CommitInvoice, Open, Idle
  <2>3. /\ DOMAIN invoices' = DOMAIN invoices \cup {i}
        /\ \A j \in DOMAIN invoices : invoices'[j] = invoices[j]
        /\ invoices'[i].org = req[r].org /\ invoices'[i].draft = req[r].draft
    BY <2>1 DEF Put
  <2>4. \A j \in DOMAIN invoices :
          invoices[j].direction = "ISSUED" => ~SameNumber(r, invoices[j].org, invoices[j].draft)
    BY <2>2 DEF NumberInv, NumberTaken
  <2>5. NumberIssuedOnce'
    BY <2>3, <2>4 DEF NumberInv, NumberIssuedOnce, SameNumber
  <2>6. ASSUME NEW p \in Requests, Open(p)'
        PROVE  ~NumberTaken(p)'
    <3>1. p # r /\ Open(p) /\ req'[p] = req[p]
      BY <2>2, <2>6 DEF Open
    <3>2. ~SameNumber(p, req[r].org, req[r].draft) /\ ~NumberTaken(p)
      BY <2>2, <3>1 DEF NumberInv
    <3> QED
      BY <2>3, <3>1, <3>2 DEF NumberTaken, SameNumber
  <2>7. ASSUME NEW p \in Requests, NEW q \in Requests, p # q, Open(p)', Open(q)'
        PROVE  ~SameNumber(p, req[q].org, req[q].draft)'
    BY <2>2, <2>7 DEF NumberInv, SameNumber, Open
  <2> QED
    BY <1>t, <2>5, <2>6, <2>7 DEF NumberInv
<1>5. ASSUME NEW r \in Requests, IssueFails(r)
      PROVE  NumberInv'
  BY <1>5, <1>t, <1>w, GoesOn, NumbersStand DEF IssueFails, Open, Idle, rows
<1>6. ASSUME NEW o \in Orgs, NEW valid \in BOOLEAN, Receive(o, valid)
      PROVE  NumberInv'
  <2>1. PICK i \in InvoiceIds \ DOMAIN invoices :
          invoices' = Put(invoices, i,
            [org |-> o, direction |-> "RECEIVED", draft |-> None,
             state |-> "RECEIVED", valid |-> valid, transmission |-> None])
    BY <1>6 DEF Receive
  <2>2. /\ DOMAIN invoices' = DOMAIN invoices \cup {i} /\ invoices'[i].direction = "RECEIVED"
        /\ \A j \in DOMAIN invoices : invoices'[j] = invoices[j]
    BY <2>1 DEF Put
  <2>3. UNCHANGED req
    BY <1>6 DEF Receive
  <2> QED
    BY <1>t, <2>2, <2>3 DEF NumberInv, NumberIssuedOnce, NumberTaken, SameNumber, Open
<1>7. ASSUME NEW i \in InvoiceIds, Transmit(i)
      PROVE  NumberInv'
  <2>1. SameInvoices
    BY <1>7, <1>t DEF Transmit, SameInvoices, TypeInv, Invoice
  <2> QED
    BY <1>7, <1>t, <2>1, NumbersStand DEF Transmit, Open
<1>8. ASSUME \/ \E u \in Callers, o \in Orgs, complete \in BOOLEAN : CreateOrg(u, o, complete)
             \/ \E bytes \in DOMAIN store : Spoil(bytes)
             \/ \E o \in Orgs : Connect(o)
             \/ UNCHANGED vars
      PROVE  NumberInv'
  BY <1>8, <1>t, <1>w, NumbersStand DEF CreateOrg, Spoil, Connect, vars, rows, Open
<1> QED
  BY <1>1, <1>2, <1>3, <1>4, <1>5, <1>6, <1>7, <1>8 DEF Next, IssueStep

(* A business issues no number twice: the unique index makes a second insertion of *)
(* it wait for the first transaction, and then refuses it (issuance.service.ts).   *)
THEOREM NumberOnce == Spec => []NumberIssuedOnce
<1>1. Init => NumberInv
  BY StartTyped DEF Init, NumberInv, NumberIssuedOnce, Open, Idle
<1>2. NumberInv => NumberIssuedOnce
  BY DEF NumberInv
<1> QED
  BY <1>1, <1>2, NumberSteps, PTL DEF Spec

---------------------------------------------------------------------------
(* Bytes *)

(* A rendition in the store stays, but for bytes that are spoilt. *)
LEMMA PutKeeps ==
  ASSUME NEW bytes, put(bytes)
  PROVE  /\ Sealed(bytes)'
         /\ \A b : Sealed(b) => Sealed(b)'
BY DEF put, Put, Sealed

(* No request goes on, or it does without sealing. *)
LEMMA StoreStands ==
  ASSUME StoreInv, TypeInv', \A b : Sealed(b) => Sealed(b)',
         \A r \in Requests : req'[r].at \in {"xml", "commit"} => req'[r] = req[r]
  PROVE  StoreInv'
BY DEF StoreInv, BytesOf

LEMMA StoreSteps == StoreInv /\ [Next]_vars => StoreInv'
<1> SUFFICES ASSUME StoreInv, [Next]_vars PROVE StoreInv'
  OBVIOUS
<1>t. TypeInv /\ TypeInv'
  BY TypeSteps DEF StoreInv
<1>w. UNCHANGED store => \A b : Sealed(b) => Sealed(b)'
  BY DEF Sealed
<1>1. ASSUME NEW r \in Requests,
             \/ \E u \in Callers, o \in Orgs, d \in Drafts : IssueJudged(r, u, o, d)
             \/ Insert(r) \/ CommitInvoice(r) \/ IssueFails(r)
      PROVE  StoreInv'
  <2>1. UNCHANGED store
    BY <1>1 DEF IssueJudged, Insert, CommitInvoice, IssueFails
  <2>2. \A p \in Requests : req'[p].at \in {"xml", "commit"} => req'[p] = req[p]
    <3>1. CASE \E u \in Callers, o \in Orgs, d \in Drafts : IssueJudged(r, u, o, d)
      BY <3>1, <1>t, GoesOn DEF IssueJudged
    <3>2. CASE Insert(r)
      <4>1. req[r] \in [at : Ahead, org : Orgs, draft : Drafts]
        BY <3>2, <1>t, RequestAhead DEF Insert, Ahead
      <4> QED
        BY <3>2, <4>1, <1>t, GoesOn DEF Insert, Idle
    <3>3. CASE CommitInvoice(r) \/ IssueFails(r)
      BY <3>3, <1>t, GoesOn DEF CommitInvoice, IssueFails, Idle
    <3> QED
      BY <1>1, <3>1, <3>2, <3>3
  <2> QED
    BY <1>t, <1>w, <2>1, <2>2, StoreStands
<1>2. ASSUME NEW r \in Requests, seal(r, "pdf", "xml") \/ seal(r, "xml", "commit")
      PROVE  StoreInv'
  <2>1. PICK kind \in Kinds : put(BytesOf(r, kind)) /\ req[r].at = kind
    BY <1>2 DEF seal, Kinds
  <2>2. \A b : Sealed(b) => Sealed(b)'
    BY <2>1, PutKeeps
  <2>3. PICK bytes : bytes = BytesOf(r, kind) /\ Sealed(bytes)'
    BY <2>1, PutKeeps
  <2>4. req[r] \in [at : Ahead, org : Orgs, draft : Drafts]
    BY <2>1, <1>t, RequestAhead DEF Ahead, Kinds
  <2>5. /\ \A p \in Requests \ {r} : req'[p] = req[p]
        /\ req'[r].org = req[r].org /\ req'[r].draft = req[r].draft
        /\ req'[r].at = IF kind = "pdf" THEN "xml" ELSE "commit"
    BY <1>2, <1>t, <2>1, <2>4, GoesOn DEF seal, Kinds
  <2>6. \A k \in Kinds : BytesOf(r, k)' = BytesOf(r, k)
    BY <2>5 DEF BytesOf
  <2>7. \A p \in Requests \ {r}, k \in Kinds : BytesOf(p, k)' = BytesOf(p, k)
    BY <2>5 DEF BytesOf
  <2>8. ASSUME NEW p \in Requests, req'[p].at \in {"xml", "commit"}
        PROVE  Sealed(BytesOf(p, "pdf"))'
    <3>1. CASE p = r /\ kind = "pdf"
      BY <2>3, <2>6, <3>1 DEF Sealed, Kinds
    <3>2. CASE p # r \/ kind # "pdf"
      <4>1. Sealed(BytesOf(p, "pdf"))
        BY <2>1, <2>5, <2>8, <3>2 DEF StoreInv, Kinds
      <4>2. BytesOf(p, "pdf")' = BytesOf(p, "pdf")
        BY <2>6, <2>7 DEF Kinds
      <4> QED
        BY <2>2, <4>1, <4>2 DEF Sealed
    <3> QED
      BY <3>1, <3>2
  <2>9. ASSUME NEW p \in Requests, req'[p].at = "commit"
        PROVE  Sealed(BytesOf(p, "xml"))'
    <3>1. CASE p = r
      BY <2>3, <2>5, <2>6, <2>9, <3>1 DEF Sealed, Kinds
    <3>2. CASE p # r
      <4>1. Sealed(BytesOf(p, "xml"))
        BY <2>5, <2>9, <3>2 DEF StoreInv
      <4>2. BytesOf(p, "xml")' = BytesOf(p, "xml")
        BY <2>7, <3>2 DEF Kinds
      <4> QED
        BY <2>2, <4>1, <4>2 DEF Sealed
    <3> QED
      BY <3>1, <3>2
  <2> QED
    BY <1>t, <2>8, <2>9 DEF StoreInv
<1>3. ASSUME NEW bytes \in DOMAIN store, Spoil(bytes)
      PROVE  StoreInv'
  <2>1. /\ UNCHANGED req /\ \A b : b # bytes /\ Sealed(b) => Sealed(b)'
        /\ \A r \in Requests : req[r].at \in {"xml", "commit"} =>
             \A k \in Kinds : BytesOf(r, k) # bytes
    BY <1>3 DEF Spoil, Sealed
  <2>2. \A r \in Requests, k \in Kinds : BytesOf(r, k)' = BytesOf(r, k)
    BY <2>1 DEF BytesOf
  <2>3. ASSUME NEW r \in Requests, NEW k \in Kinds, req[r].at \in {"xml", "commit"},
               Sealed(BytesOf(r, k))
        PROVE  Sealed(BytesOf(r, k))'
    <3>1. PICK b : b = BytesOf(r, k)
      OBVIOUS
    <3>2. Sealed(b)'
      BY <2>1, <2>3, <3>1
    <3> QED
      BY <2>2, <3>1, <3>2 DEF Sealed
  <2> QED
    BY <1>t, <2>1, <2>3 DEF StoreInv, Kinds
<1>4. ASSUME \/ \E u \in Callers, o \in Orgs, complete \in BOOLEAN : CreateOrg(u, o, complete)
             \/ \E o \in Orgs : Connect(o) \/ \E valid \in BOOLEAN : Receive(o, valid)
             \/ \E i \in InvoiceIds : Transmit(i)
             \/ UNCHANGED vars
      PROVE  StoreInv'
  BY <1>4, <1>t, <1>w, StoreStands DEF CreateOrg, Connect, Receive, Transmit, vars
<1> QED
  BY <1>1, <1>2, <1>3, <1>4 DEF Next, IssueStep

(* An issued invoice can be downloaded at once, intact and made from its own draft, by *)
(* whoever sees its business (seal before the commit; the guard of download, which     *)
(* every role passes).                                                                 *)
THEOREM IssuedSealed == Spec => IssuedIsSealed
<1>1. Init => StoreInv
  BY StartTyped DEF Init, StoreInv, Idle
<1>2. ASSUME StoreInv, [Next]_vars,
             NEW i \in DOMAIN invoices' \ DOMAIN invoices, NEW u \in Callers, NEW kind \in Kinds,
             invoices'[i].direction = "ISSUED", invoices'[i].org \in clientOrgScope(u)
      PROVE  \E bytes \in download(u, i, kind)' :
               bytes.org = invoices'[i].org /\ bytes.draft = invoices'[i].draft
  <2>1. PICK r \in Requests : CommitInvoice(r)
    <3>1. ASSUME NEW o \in Orgs, NEW valid \in BOOLEAN, Receive(o, valid)
          PROVE  FALSE
      <4>1. PICK j \in InvoiceIds \ DOMAIN invoices :
              invoices' = Put(invoices, j,
                [org |-> o, direction |-> "RECEIVED", draft |-> None,
                 state |-> "RECEIVED", valid |-> valid, transmission |-> None])
        BY <3>1 DEF Receive
      <4> QED
        BY <1>2, <4>1 DEF Put
    <3>2. ASSUME NEW j \in InvoiceIds, Transmit(j)
          PROVE  FALSE
      BY <1>2, <3>2 DEF Transmit
    <3> QED
      BY <1>2, <3>1, <3>2 DEF Next, IssueStep, IssueJudged, Insert, seal, IssueFails, CreateOrg, Spoil,
                              Connect, vars, rows
  <2>2. PICK j \in InvoiceIds \ DOMAIN invoices :
          /\ invoices' = Put(invoices, j,
               [org |-> req[r].org, direction |-> "ISSUED", draft |-> req[r].draft,
                state |-> "VALIDATED", valid |-> TRUE, transmission |-> None])
          /\ entries' = entries \cup {[invoice |-> j, bytes |-> BytesOf(r, k)] : k \in Kinds}
    BY <2>1 DEF CommitInvoice
  <2>3. j = i /\ invoices'[i].org = req[r].org /\ invoices'[i].draft = req[r].draft
        /\ i \in DOMAIN invoices'
    BY <1>2, <2>2 DEF Put
  <2>4. PICK bytes : bytes = BytesOf(r, kind)
    OBVIOUS
  <2>5. bytes.kind = kind /\ bytes.org = req[r].org /\ bytes.draft = req[r].draft
    BY <2>4 DEF BytesOf
  <2>6. Verified(bytes)'
    BY <1>2, <2>1, <2>4 DEF CommitInvoice, StoreInv, Sealed, Verified, Kinds
  <2>7. [invoice |-> i, bytes |-> bytes] \in entries'
    BY <2>2, <2>3, <2>4
  <2>8. canActivate(u, "invoice:download")
    BY IssuanceAssumption DEF canActivate, can, ROLE_PERMISSIONS, Permissions, Roles
  <2>9. i \in Found(u)'
    BY <1>2, <2>3 DEF Found, clientOrgScope, OrgsOf
  <2>10. bytes \in download(u, i, kind)'
    BY <2>5, <2>6, <2>7, <2>8, <2>9 DEF download, canActivate, can
  <2> QED
    BY <2>3, <2>5, <2>10
<1>3. StoreInv /\ [Next]_vars =>
        [\A i \in DOMAIN invoices' \ DOMAIN invoices, u \in Callers, kind \in Kinds :
           invoices'[i].direction = "ISSUED" /\ invoices'[i].org \in clientOrgScope(u) =>
             \E bytes \in download(u, i, kind)' :
               bytes.org = invoices'[i].org /\ bytes.draft = invoices'[i].draft]_vars
  BY <1>2
<1> QED
  BY <1>1, <1>3, StoreSteps, PTL DEF Spec, IssuedIsSealed

---------------------------------------------------------------------------
(* The overview *)

(* There are finitely many businesses and invoices, and every invoice, issued or *)
(* being issued, is of a business that is there.                                 *)
TablesInv ==
  /\ TypeInv
  /\ IsFiniteSet(DOMAIN orgs) /\ IsFiniteSet(DOMAIN invoices)
  /\ \A i \in DOMAIN invoices : invoices[i].org \in DOMAIN orgs
  /\ \A r \in Requests : req[r] # Idle => req[r].org \in DOMAIN orgs

LEMMA OneMore ==
  ASSUME NEW table, IsFiniteSet(DOMAIN table), NEW key, NEW row
  PROVE  /\ IsFiniteSet(DOMAIN Put(table, key, row))
         /\ DOMAIN table \subseteq DOMAIN Put(table, key, row)
         /\ \A k \in DOMAIN Put(table, key, row) :
              Put(table, key, row)[k] = row \/ (k \in DOMAIN table /\ Put(table, key, row)[k] = table[k])
<1>1. DOMAIN Put(table, key, row) = DOMAIN table \cup {key}
  BY DEF Put
<1>2. IsFiniteSet(DOMAIN table \cup {key})
  BY FS_AddElement
<1> QED BY <1>1, <1>2 DEF Put

(* The tables stand, and requests go on with the business they have. *)
LEMMA TablesStand ==
  ASSUME TablesInv, TypeInv', orgs' = orgs, SameInvoices,
         \A r \in Requests : req'[r] # Idle => req'[r].org \in DOMAIN orgs
  PROVE  TablesInv'
BY DEF TablesInv, SameInvoices, Idle

LEMMA InvoiceAdded ==
  ASSUME TablesInv, TypeInv', orgs' = orgs, NEW i, NEW invoice, invoice.org \in DOMAIN orgs,
         invoices' = Put(invoices, i, invoice),
         \A r \in Requests : req'[r] # Idle => req'[r].org \in DOMAIN orgs
  PROVE  TablesInv'
<1>1. IsFiniteSet(DOMAIN invoices') /\ \A j \in DOMAIN invoices' : invoices'[j].org \in DOMAIN orgs
  BY OneMore DEF TablesInv
<1> QED BY <1>1 DEF TablesInv, Idle

LEMMA TablesSteps == TablesInv /\ [Next]_vars => TablesInv'
<1> SUFFICES ASSUME TablesInv, [Next]_vars PROVE TablesInv'
  OBVIOUS
<1>t. TypeInv /\ TypeInv'
  BY TypeSteps DEF TablesInv
<1>s. UNCHANGED invoices => SameInvoices
  BY DEF SameInvoices
<1>r. \A r \in Requests : req[r] # Idle => req[r].org \in DOMAIN orgs
  BY DEF TablesInv
<1>1. ASSUME NEW r \in Requests, IssueStep(r) PROVE TablesInv'
  <2>1. CASE \E u \in Callers, o \in Orgs, d \in Drafts : IssueJudged(r, u, o, d)
    <3>1. PICK u \in Callers, o \in Orgs, d \in Drafts : IssueJudged(r, u, o, d)
      BY <2>1
    <3>2. o \in DOMAIN orgs
      BY <3>1 DEF IssueJudged, InScope
    <3>3. \A q \in Requests : req'[q] # Idle => req'[q].org \in DOMAIN orgs
      BY <1>t, <1>r, <3>1, <3>2, GoesOn DEF IssueJudged
    <3> QED BY <1>t, <1>s, <3>1, <3>3, TablesStand DEF IssueJudged, rows
  <2>2. CASE Insert(r) \/ seal(r, "pdf", "xml") \/ seal(r, "xml", "commit") \/ IssueFails(r)
    <3>1. req[r] # Idle
      BY <2>2 DEF Insert, seal, IssueFails, Idle
    <3>2. req[r].org \in DOMAIN orgs
      BY <1>r, <3>1
    <3>3. req[r] \in [at : Ahead, org : Orgs, draft : Drafts]
      BY <1>t, <3>1 DEF TypeInv, RequestTyped
    <3>4. \A at : [req[r] EXCEPT !.at = at].org = req[r].org
      BY <3>3
    <3>5. PICK q : Goto(r, q) /\ (q # Idle => q.org = req[r].org)
      BY <2>2, <3>4 DEF Insert, seal, IssueFails
    <3>6. \A p \in Requests : req'[p] # Idle => req'[p].org \in DOMAIN orgs
      BY <1>t, <1>r, <3>2, <3>5, GoesOn
    <3> QED BY <1>t, <1>s, <2>2, <3>6, TablesStand DEF Insert, seal, IssueFails, rows
  <2>3. CASE CommitInvoice(r)
    <3>1. req[r].org \in DOMAIN orgs
      BY <1>r, <2>3 DEF CommitInvoice, Idle
    <3>2. PICK i : invoices' = Put(invoices, i,
              [org |-> req[r].org, direction |-> "ISSUED", draft |-> req[r].draft,
               state |-> "VALIDATED", valid |-> TRUE, transmission |-> None])
      BY <2>3 DEF CommitInvoice
    <3>3. \A p \in Requests : req'[p] # Idle => req'[p].org \in DOMAIN orgs
      BY <1>t, <1>r, <2>3, GoesOn DEF CommitInvoice
    <3> QED BY <1>t, <2>3, <3>1, <3>2, <3>3, InvoiceAdded DEF CommitInvoice
  <2> QED BY <1>1, <2>1, <2>2, <2>3 DEF IssueStep
<1>2. ASSUME NEW u \in Callers, NEW o \in Orgs, NEW complete \in BOOLEAN, CreateOrg(u, o, complete)
      PROVE  TablesInv'
  <2>1. orgs' = Put(orgs, o, complete) /\ invoices' = invoices /\ req' = req
    BY <1>2 DEF CreateOrg, rows
  <2>2. IsFiniteSet(DOMAIN orgs') /\ DOMAIN orgs \subseteq DOMAIN orgs'
    BY <2>1, OneMore DEF TablesInv
  <2> QED BY <1>t, <2>1, <2>2 DEF TablesInv
<1>3. ASSUME NEW o \in Orgs, NEW valid \in BOOLEAN, Receive(o, valid) PROVE TablesInv'
  <2>1. PICK i : invoices' = Put(invoices, i,
            [org |-> o, direction |-> "RECEIVED", draft |-> None,
             state |-> "RECEIVED", valid |-> valid, transmission |-> None])
    BY <1>3 DEF Receive
  <2> QED BY <1>t, <1>r, <1>3, <2>1, InvoiceAdded DEF Receive
<1>4. ASSUME NEW i \in InvoiceIds, Transmit(i) PROVE TablesInv'
  <2>1. SameInvoices
    BY <1>t, <1>4 DEF Transmit, SameInvoices, TypeInv, Invoice
  <2> QED BY <1>t, <1>r, <1>4, <2>1, TablesStand DEF Transmit
<1>5. ASSUME \/ \E bytes \in DOMAIN store : Spoil(bytes)
             \/ \E o \in Orgs : Connect(o)
             \/ UNCHANGED vars
      PROVE  TablesInv'
  BY <1>t, <1>r, <1>s, <1>5, TablesStand DEF Spoil, Connect, vars, rows
<1> QED BY <1>1, <1>2, <1>3, <1>4, <1>5 DEF Next

(* A total as its recursion has it, in the order CHOOSE takes the rows. *)
First(rowsOf) == [s \in (SUBSET rowsOf) \ {{}} |-> CHOOSE o \in s : TRUE]

LEMMA FirstPicks ==
  ASSUME NEW S
  PROVE  Picks(First(S), S)
BY DEF Picks, First

TotalBy(f, shown, column) ==
  /\ f \in [SUBSET DOMAIN shown -> Nat]
  /\ total(shown, column) = f[DOMAIN shown]
  /\ f[{}] = 0
  /\ \A s \in (SUBSET DOMAIN shown) \ {{}} :
       f[s] = shown[First(DOMAIN shown)[s]][column] + f[s \ {First(DOMAIN shown)[s]}]

LEMMA TotalUnfolds ==
  ASSUME NEW shown, NEW column, IsFiniteSet(DOMAIN shown),
         \A o \in DOMAIN shown : shown[o][column] \in Nat
  PROVE  \E f : TotalBy(f, shown, column)
<1> DEFINE S == DOMAIN shown
           C == First(S)
           G == [p \in S \X Nat |-> shown[p[1]][column] + p[2]]
           sum == CHOOSE iter : iter = [s \in SUBSET S |->
                    IF s = {} THEN 0
                    ELSE shown[CHOOSE x \in s : TRUE][column] + iter[s \ {CHOOSE x \in s : TRUE}]]
<1>1. G \in [S \X Nat -> Nat]
  OBVIOUS
<1>2. Picks(C, S)
  BY FirstPicks
<1>3. PICK f \in [SUBSET S -> Nat] : Solves(f, SUBSET S, 0, C, G)
  <2> HIDE DEF G, C, S
  <2> QED BY <1>1, <1>2, FoldExists DEF S
<1>4. \A s \in SUBSET S :
        f[s] = IF s = {} THEN 0
               ELSE shown[CHOOSE x \in s : TRUE][column] + f[s \ {CHOOSE x \in s : TRUE}]
  <2> SUFFICES ASSUME NEW s \in SUBSET S
               PROVE  f[s] = IF s = {} THEN 0
                             ELSE shown[CHOOSE x \in s : TRUE][column] + f[s \ {CHOOSE x \in s : TRUE}]
    OBVIOUS
  <2>1. CASE s = {}
    BY <1>3, <2>1 DEF Solves
  <2>2. CASE s # {}
    <3>1. C[s] = CHOOSE x \in s : TRUE
      BY <2>2 DEF First
    <3>2. C[s] \in s
      BY <1>2, <2>2 DEF Picks
    <3>3. f[s] = G[<<C[s], f[s \ {C[s]}]>>]
      BY <1>3, <2>2 DEF Solves
    <3>4. f[s \ {C[s]}] \in Nat /\ C[s] \in S
      BY <3>2
    <3>5. f[s] = shown[C[s]][column] + f[s \ {C[s]}]
      <4> HIDE DEF C
      <4> QED BY <3>3, <3>4
    <3> HIDE DEF C
    <3> QED BY <2>2, <3>1, <3>5
  <2> QED BY <2>1, <2>2
<1>5. f = [s \in SUBSET S |->
             IF s = {} THEN 0
             ELSE shown[CHOOSE x \in s : TRUE][column] + f[s \ {CHOOSE x \in s : TRUE}]]
  BY <1>4
<1>6. sum = [s \in SUBSET S |->
               IF s = {} THEN 0
               ELSE shown[CHOOSE x \in s : TRUE][column] + sum[s \ {CHOOSE x \in s : TRUE}]]
  BY <1>5
<1>7. total(shown, column) = sum[S]
  BY DEF total, MapThenSumSet, MapThenFoldSet
<1> DEFINE P == {s \in SUBSET S : sum[s] = f[s]}
<1>8. {} \in P
  BY <1>5, <1>6
<1>9. ASSUME NEW s \in (SUBSET S) \ {{}}, s \ {C[s]} \in P PROVE s \in P
  <2>1. C[s] = CHOOSE x \in s : TRUE
    BY DEF First
  <2> HIDE DEF C, sum
  <2>2. s \ {CHOOSE x \in s : TRUE} \in SUBSET S
    OBVIOUS
  <2> QED BY <1>5, <1>6, <1>9, <2>1, <2>2
<1>10. SUBSET S \subseteq P
  <2> HIDE DEF P, C, S
  <2> QED BY <1>2, <1>8, <1>9, SubsetInduction DEF S
<1>11. total(shown, column) = f[S]
  <2> HIDE DEF sum
  <2> QED BY <1>7, <1>10
<1>12. \A s \in (SUBSET S) \ {{}} : f[s] = shown[C[s]][column] + f[s \ {C[s]}]
  BY <1>4 DEF First
<1>13. f[{}] = 0
  BY <1>4
<1>14. TotalBy(f, shown, column)
  <2> HIDE DEF sum, P, G, C
  <2> QED BY <1>11, <1>12, <1>13 DEF TotalBy, C
<1> QED BY <1>14

(* The total of what each business has is what they have together. *)
LEMMA TotalCounts ==
  ASSUME NEW shown, NEW column, IsFiniteSet(DOMAIN shown), NEW I, IsFiniteSet(I), NEW orgOf,
         \A o \in DOMAIN shown : shown[o][column] = Cardinality({i \in I : orgOf[i] = o})
  PROVE  total(shown, column) = Cardinality({i \in I : orgOf[i] \in DOMAIN shown})
<1> DEFINE S == DOMAIN shown
           C == First(S)
           among(s) == {i \in I : orgOf[i] \in s}
           only(o) == {i \in I : orgOf[i] = o}
<1>1. \A s : IsFiniteSet(among(s)) /\ Cardinality(among(s)) \in Nat
  BY FS_Subset, FS_CardinalityType
<1>2. \A o : IsFiniteSet(only(o)) /\ Cardinality(only(o)) \in Nat
  BY FS_Subset, FS_CardinalityType
<1>3. PICK f : TotalBy(f, shown, column)
  <2>1. \A o \in DOMAIN shown : shown[o][column] \in Nat
    BY <1>2
  <2> QED BY <2>1, TotalUnfolds
<1>4. Picks(C, S)
  BY FirstPicks
<1> DEFINE P == {s \in SUBSET S : f[s] = Cardinality(among(s))}
<1>5. {} \in P
  <2>1. among({}) = {}
    OBVIOUS
  <2> QED BY <1>3, <2>1, FS_EmptySet DEF TotalBy
<1>6. ASSUME NEW s \in (SUBSET S) \ {{}}, s \ {C[s]} \in P PROVE s \in P
  <2> DEFINE o == C[s]
             rest == s \ {o}
  <2>1. o \in s /\ o \in S
    BY <1>4 DEF Picks
  <2>2. f[s] = Cardinality(only(o)) + Cardinality(among(rest))
    <3>1. f[s] = shown[o][column] + f[rest]
      BY <1>3 DEF TotalBy
    <3> HIDE DEF among, o, rest
    <3> QED BY <1>6, <2>1, <3>1 DEF o, rest
  <2>3. among(s) = only(o) \cup among(rest) /\ only(o) \cap among(rest) = {}
    <3> HIDE DEF C
    <3> QED BY <2>1
  <2> HIDE DEF among, only, rest, o
  <2>4. Cardinality(among(s))
          = Cardinality(only(o)) + Cardinality(among(rest)) - Cardinality(only(o) \cap among(rest))
    BY <1>1, <1>2, <2>3, FS_Union
  <2>5. Cardinality(only(o) \cap among(rest)) = 0
    BY <2>3, FS_EmptySet
  <2>6. Cardinality(among(s)) = Cardinality(only(o)) + Cardinality(among(rest))
    BY <1>1, <1>2, <2>4, <2>5
  <2> QED BY <2>2, <2>6
<1>7. SUBSET S \subseteq P
  <2> HIDE DEF P, C, S
  <2> QED BY <1>4, <1>5, <1>6, SubsetInduction DEF S
<1> QED BY <1>3, <1>7 DEF TotalBy

(* The rows of the overview are the pages of the businesses. *)
LEMMA RowsAreDetails ==
  ASSUME NEW u \in Callers
  PROVE  OverviewRows(u) = [o \in InScope(u) |-> detail(o)]
<1> SUFFICES ASSUME NEW o \in InScope(u)
             PROVE  OverviewRows(u)[o] = detail(o)
  BY DEF OverviewRows, RowsFrom
<1>1. o \in clientOrgScope(u)
  BY DEF InScope
<1>2. ASSUME NEW A, NEW B, Of(o, A) = Of(o, B)
      PROVE  countBy(groupBy(A), o) = Cardinality(Of(o, B))
  <2>1. CASE Of(o, A) = {}
    <3>1. o \notin DOMAIN groupBy(A)
      BY <2>1 DEF groupBy, Of
    <3> QED BY <1>2, <2>1, <3>1, FS_EmptySet DEF countBy
  <2>2. CASE Of(o, A) # {}
    <3>1. o \in DOMAIN groupBy(A)
      BY <2>2 DEF groupBy, Of
    <3> QED BY <1>2, <3>1 DEF countBy, groupBy
  <2> QED BY <2>1, <2>2
<1> DEFINE mine == Found(u)
           all == DOMAIN invoices
           agg == Aggregates(mine)
           dir(d, among) == {i \in among : invoices[i].direction = d}
<1>3. \A i : invoices[i].org = o => (i \in mine <=> i \in all)
  BY <1>1 DEF Found
<1>4. countBy(agg.issued, o) = detail(o).issued
  <2>1. Of(o, dir("ISSUED", mine)) = Of(o, dir("ISSUED", all))
    BY <1>3 DEF Of
  <2> QED BY <1>2, <2>1 DEF Aggregates, detail
<1>5. countBy(agg.received, o) = detail(o).received
  <2>1. Of(o, dir("RECEIVED", mine)) = Of(o, dir("RECEIVED", all))
    BY <1>3 DEF Of
  <2> QED BY <1>2, <2>1 DEF Aggregates, detail
<1>6. countBy(agg.nonConforming, o) = detail(o).nonConforming
  <2> DEFINE A == {i \in mine : invoices[i].direction = "RECEIVED" /\ ~invoices[i].valid}
             B == {i \in dir("RECEIVED", all) : ~invoices[i].valid}
  <2>1. Of(o, A) = Of(o, B)
    BY <1>3 DEF Of
  <2> QED BY <1>2, <2>1 DEF Aggregates, detail
<1>7. countBy(agg.queued, o) = detail(o).queued
  <2> DEFINE A == {i \in mine : invoices[i].direction = "ISSUED" /\ invoices[i].state = "QUEUED"}
             B == {i \in dir("ISSUED", all) : invoices[i].state = "QUEUED"}
  <2>1. Of(o, A) = Of(o, B)
    BY <1>3 DEF Of
  <2> QED BY <1>2, <2>1 DEF Aggregates, detail
<1>8. countBy(agg.stuck, o) = detail(o).stuck
  <2> DEFINE A == {i \in mine : invoices[i].transmission = "FAILED"}
             B == {i \in all : invoices[i].transmission = "FAILED"}
  <2>1. Of(o, A) = Of(o, B)
    BY <1>3 DEF Of
  <2> QED BY <1>2, <2>1 DEF Aggregates, detail
<1>9. (o \in ConnectionsOf(u)) = IsConnected(o)
  BY <1>1 DEF ConnectionsOf, IsConnected
<1>10. OverviewRows(u)[o] =
         [issued |-> countBy(agg.issued, o), received |-> countBy(agg.received, o),
          nonConforming |-> countBy(agg.nonConforming, o),
          queued |-> countBy(agg.queued, o), stuck |-> countBy(agg.stuck, o),
          connected |-> o \in ConnectionsOf(u), blockers |-> blockersFor(o, o \in ConnectionsOf(u))]
  BY DEF OverviewRows, RowsFrom
<1> HIDE DEF agg
<1>11. detail(o) =
         [issued |-> detail(o).issued, received |-> detail(o).received,
          nonConforming |-> detail(o).nonConforming, queued |-> detail(o).queued,
          stuck |-> detail(o).stuck, connected |-> IsConnected(o),
          blockers |-> blockersFor(o, IsConnected(o))]
  BY DEF detail
<1> QED BY <1>4, <1>5, <1>6, <1>7, <1>8, <1>9, <1>10, <1>11

(* What the list of a business holds, in one direction. *)
LEMMA ListOf ==
  ASSUME NEW u \in Callers, NEW o \in InScope(u), NEW direction \in {"ISSUED", "RECEIVED"}
  PROVE  list(u, o, direction)
           = Of(o, {i \in DOMAIN invoices : invoices[i].direction = direction})
<1>1. o \in clientOrgScope(u) /\ o # None
  BY IssuanceAssumption DEF InScope, clientOrgScope, OrgsOf
<1> QED BY <1>1 DEF list, Found, Of

LEMMA OverviewIsTrue ==
  ASSUME TablesInv, NEW u \in Callers
  PROVE  OverviewHolds(u, OverviewRows(u))
<1> DEFINE mine == InScope(u)
           shown == OverviewRows(u)
           way(d) == {i \in DOMAIN invoices : invoices[i].direction = d}
           orgOf == [i \in DOMAIN invoices |-> invoices[i].org]
           ours(d) == {i \in way(d) : orgOf[i] \in mine}
<1>1. shown = [o \in mine |-> detail(o)]
  BY RowsAreDetails
<1>2. DOMAIN shown = mine /\ IsFiniteSet(mine)
  BY <1>1, FS_Subset DEF InScope, TablesInv
<1>3. \A d : IsFiniteSet(way(d)) /\ IsFiniteSet(ours(d)) /\ Cardinality(ours(d)) \in Nat
  <2>1. \A d : way(d) \subseteq DOMAIN invoices /\ ours(d) \subseteq DOMAIN invoices
    OBVIOUS
  <2> HIDE DEF way, ours
  <2> QED BY <2>1, FS_Subset, FS_CardinalityType DEF TablesInv
<1>4. ASSUME NEW o \in mine
      PROVE  /\ shown[o].issued = Cardinality({i \in way("ISSUED") : orgOf[i] = o})
             /\ shown[o].received = Cardinality({i \in way("RECEIVED") : orgOf[i] = o})
             /\ shown[o].issued = Cardinality(Of(o, way("ISSUED")))
             /\ shown[o].received = Cardinality(Of(o, way("RECEIVED")))
  <2>1. \A d : {i \in way(d) : orgOf[i] = o} = Of(o, way(d))
    BY DEF Of
  <2>2. /\ detail(o).issued = Cardinality(Of(o, way("ISSUED")))
        /\ detail(o).received = Cardinality(Of(o, way("RECEIVED")))
    BY DEF detail
  <2> HIDE DEF way, shown
  <2> QED BY <1>1, <2>1, <2>2
<1>5. /\ total(shown, "issued") = Cardinality(ours("ISSUED"))
      /\ total(shown, "received") = Cardinality(ours("RECEIVED"))
  <2>1. /\ \A o \in DOMAIN shown : shown[o]["issued"] = Cardinality({i \in way("ISSUED") : orgOf[i] = o})
        /\ \A o \in DOMAIN shown : shown[o]["received"] = Cardinality({i \in way("RECEIVED") : orgOf[i] = o})
    BY <1>2, <1>4
  <2>2. \A d : ours(d) = {i \in way(d) : orgOf[i] \in DOMAIN shown}
    BY <1>2
  <2> HIDE DEF way, shown, orgOf, ours
  <2>3. IsFiniteSet(DOMAIN shown) /\ IsFiniteSet(way("ISSUED")) /\ IsFiniteSet(way("RECEIVED"))
    BY <1>2, <1>3
  <2>4. total(shown, "issued") = Cardinality({i \in way("ISSUED") : orgOf[i] \in DOMAIN shown})
    BY <2>1, <2>3, TotalCounts
  <2>5. total(shown, "received") = Cardinality({i \in way("RECEIVED") : orgOf[i] \in DOMAIN shown})
    BY <2>1, <2>3, TotalCounts
  <2> QED BY <2>2, <2>4, <2>5
<1>6. total(shown, "issued") + total(shown, "received")
        = Cardinality({i \in DOMAIN invoices : invoices[i].org \in mine})
  <2>1. ours("ISSUED") \cup ours("RECEIVED") = {i \in DOMAIN invoices : invoices[i].org \in mine}
    BY DEF TablesInv, TypeInv, Invoice
  <2>2. ours("ISSUED") \cap ours("RECEIVED") = {}
    OBVIOUS
  <2> HIDE DEF ours, mine, shown
  <2>3. Cardinality(ours("ISSUED") \cup ours("RECEIVED"))
          = Cardinality(ours("ISSUED")) + Cardinality(ours("RECEIVED"))
            - Cardinality(ours("ISSUED") \cap ours("RECEIVED"))
    BY <1>3, FS_Union
  <2>4. Cardinality(ours("ISSUED") \cap ours("RECEIVED")) = 0
    BY <2>2, FS_EmptySet
  <2>5. Cardinality(ours("ISSUED") \cup ours("RECEIVED"))
          = Cardinality(ours("ISSUED")) + Cardinality(ours("RECEIVED"))
    <3>1. Cardinality(ours("ISSUED")) \in Nat /\ Cardinality(ours("RECEIVED")) \in Nat
      BY <1>3
    <3> HIDE DEF way, orgOf
    <3> QED BY <2>3, <2>4, <3>1
  <2> QED BY <1>5, <2>1, <2>5
<1>7. {o \in DOMAIN shown : ~shown[o].connected} = {o \in mine : ~IsConnected(o)}
  BY <1>1 DEF detail
<1>8. RowsAgree(shown, OverviewTotals(shown), mine)
  <2>1. /\ OverviewTotals(shown).issued = total(shown, "issued")
        /\ OverviewTotals(shown).received = total(shown, "received")
        /\ OverviewTotals(shown).notConnected
             = Cardinality({o \in DOMAIN shown : ~shown[o].connected})
    BY DEF OverviewTotals
  <2> HIDE DEF shown, mine
  <2> QED BY <1>1, <1>6, <1>7, <2>1 DEF RowsAgree
<1>9. ASSUME NEW o \in DOMAIN shown
      PROVE  /\ shown[o].issued = Cardinality(list(u, o, "ISSUED"))
             /\ shown[o].received = Cardinality(list(u, o, "RECEIVED"))
  <2>1. o \in InScope(u)
    BY <1>2
  <2>2. list(u, o, "ISSUED") = Of(o, way("ISSUED")) /\ list(u, o, "RECEIVED") = Of(o, way("RECEIVED"))
    BY <2>1, ListOf
  <2> HIDE DEF way, shown
  <2> QED BY <1>4, <2>1, <2>2
<1>10. ASSUME NEW o \in Orgs \cup {None}, NEW direction \in {"ISSUED", "RECEIVED", None},
              NEW i \in list(u, o, direction)
       PROVE  opens(u, i) /\ invoices[i].org \in DOMAIN shown
  <2>1. i \in Found(u)
    BY DEF list
  <2>2. invoices[i].org \in mine
    BY <2>1 DEF Found, InScope, TablesInv
  <2>3. canActivate(u, "invoice:read")
    BY IssuanceAssumption DEF canActivate, can, ROLE_PERMISSIONS, Permissions, Roles
  <2> QED BY <1>2, <2>1, <2>2, <2>3 DEF opens
<1>11. ListAgrees(u, shown)
  <2> HIDE DEF shown
  <2> QED BY <1>9, <1>10 DEF ListAgrees
<1> QED BY <1>8, <1>11 DEF OverviewHolds

(* The overview of the businesses (client-orgs.controller.ts, overview) says of   *)
(* each what its page and the list of its invoices say, whoever looks and however *)
(* many businesses and invoices there are; its totals are those of its rows.      *)
THEOREM OverviewAgrees == Spec => []OverviewAgreesWithDetail
<1>1. Init => TablesInv
  <2> SUFFICES ASSUME Init PROVE TablesInv
    OBVIOUS
  <2>1. DOMAIN orgs = {} /\ DOMAIN invoices = {} /\ \A r \in Requests : req[r] = Idle
    BY DEF Init
  <2> QED BY <2>1, StartTyped, FS_EmptySet DEF TablesInv
<1>2. TablesInv => OverviewAgreesWithDetail
  BY OverviewIsTrue DEF OverviewAgreesWithDetail
<1> QED BY <1>1, <1>2, TablesSteps, PTL DEF Spec
=============================================================================

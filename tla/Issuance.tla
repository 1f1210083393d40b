------------------------------ MODULE Issuance ------------------------------
(***************************************************************************)
(* Issuing invoices and looking after them (apps/api/src/invoicing: the    *)
(* issuance service, the invoices and client-orgs controllers; and the     *)
(* archive they seal into).  An issuance reads the business, generates     *)
(* both renditions, has the engine validate one, and runs a transaction    *)
(* that inserts the invoice and seals each rendition: its bytes go to the  *)
(* store, which is outside the transaction, and its entry commits with the *)
(* invoice.                                                                *)
(*                                                                         *)
(* What happens to an invoice afterwards, and how one is received, is the  *)
(* subject of other modules; here it only moves what the overview counts.  *)
(***************************************************************************)
EXTENDS Naturals, FiniteSetsExt, Permissions

CONSTANTS
  Callers,        \* users: tenant, role and scopes
  Drafts,         \* what users ask to issue, without the seller
  NumberOf,       \* the number each bears
  Faulty,         \* the drafts checkDraft refuses
  InvoiceIds, Requests,
  MaxFaults,      \* bound: requests cut short, bytes spoilt
  Connecting,     \* bound: the businesses that connect to a platform, and leave it
  None

ASSUME IssuanceAssumption ==
  /\ Faulty \subseteq Drafts /\ MaxFaults \in Nat /\ Connecting \subseteq Orgs /\ None \notin Orgs
  /\ \A u \in Callers : u.tenant \in Tenants /\ u.role \in Roles /\ u.scopes \subseteq Orgs

VARIABLES
  orgs,           \* ClientOrg rows: whether the address is complete
  invoices,       \* Invoice rows, each with its transmission
  entries,        \* ArchiveEntry rows
  store,          \* the bytes the store holds under each key: "sealed" or "spoilt"
  connected,      \* what each business has of a connection
  req,            \* what each request under way has in hand
  faults

rows == <<invoices, entries>>
vars == <<orgs, invoices, entries, store, connected, req, faults>>

Kinds == {"pdf", "xml"}

\* The key of a rendition is the hash of its bytes.  The PDF carries the time of the
\* issuance, the XML only the invoice: a repeated issuance writes the same XML.
BytesOf(r, kind) ==
  [kind |-> kind, org |-> req[r].org, draft |-> req[r].draft,
   issuance |-> IF kind = "pdf" THEN r ELSE None]

Invoice ==
  [org : Orgs, direction : {"ISSUED", "RECEIVED"}, draft : Drafts \cup {None},
   state : {"VALIDATED", "QUEUED", "RECEIVED"}, valid : BOOLEAN,
   transmission : {None, "PENDING", "FAILED"}]

Idle == [at |-> "idle"]

Put(table, key, row) == [k \in DOMAIN table \cup {key} |-> IF k = key THEN row ELSE table[k]]

Goto(r, state) == req' = [req EXCEPT ![r] = state]

Init ==
  /\ orgs = <<>> /\ invoices = <<>> /\ entries = {} /\ store = <<>>
  /\ connected = [o \in Orgs |-> "never"]
  /\ req = [r \in Requests |-> Idle]
  /\ faults = 0

---------------------------------------------------------------------------
(* Client businesses *)

\* The client businesses of this user.
InScope(u) == clientOrgScope(u) \cap DOMAIN orgs

\* create, of a business whose identifiers hold; one more of the same SIREN is
\* refused by the index on (tenant, siren), and o stands for both.
CreateOrg(u, o, complete) ==
  /\ canActivate(u, "clientOrg:create")
  /\ o \in OrgsOf(u.tenant) \ DOMAIN orgs
  /\ orgs' = Put(orgs, o, complete)
  /\ UNCHANGED <<rows, store, connected, req, faults>>

blockersFor(o, isConnected) ==
  (IF orgs[o] THEN {} ELSE {"ADRESSE_INCOMPLETE"})
  \cup (IF isConnected THEN {} ELSE {"AUCUN_RACCORDEMENT"})

IsConnected(o) == connected[o] = "active"

\* The invoices of one business, among those.
Of(o, among) == {i \in among : invoices[i].org = o}

\* detail: the counts of one business, by its id alone.
detail(o) ==
  LET count(among) == Cardinality(Of(o, among))
      issued   == {i \in DOMAIN invoices : invoices[i].direction = "ISSUED"}
      received == {i \in DOMAIN invoices : invoices[i].direction = "RECEIVED"}
  IN [issued        |-> count(issued),
      received      |-> count(received),
      nonConforming |-> count({i \in received : ~invoices[i].valid}),
      queued        |-> count({i \in issued : invoices[i].state = "QUEUED"}),
      stuck         |-> count({i \in DOMAIN invoices : invoices[i].transmission = "FAILED"}),
      connected     |-> IsConnected(o),
      blockers      |-> blockersFor(o, IsConnected(o))]

\* A groupBy by business: businesses without any do not come up, and their count is
\* zero.
groupBy(among) ==
  [o \in {invoices[i].org : i \in among} |-> Cardinality(Of(o, among))]

countBy(groups, o) == IF o \in DOMAIN groups THEN groups[o] ELSE 0

\* Mutation: a business that has left its platform is still connected to it.
ConnectionsEver(u) == {o \in clientOrgScope(u) : connected[o] # "never"}

ConnectionsOf(u) == {o \in clientOrgScope(u) : IsConnected(o)}

\* What a query by id finds for this user, on the page of an invoice and in download,
\* and what the aggregates go over.
Found(u) == {i \in DOMAIN invoices : invoices[i].org \in clientOrgScope(u)}

\* The aggregates of the overview, by business and direction.
Aggregates(mine) ==
  [issued        |-> groupBy({i \in mine : invoices[i].direction = "ISSUED"}),
   received      |-> groupBy({i \in mine : invoices[i].direction = "RECEIVED"}),
   nonConforming |-> groupBy({i \in mine : /\ invoices[i].direction = "RECEIVED"
                                           /\ ~invoices[i].valid}),
   queued        |-> groupBy({i \in mine : /\ invoices[i].direction = "ISSUED"
                                           /\ invoices[i].state = "QUEUED"}),
   stuck         |-> groupBy({i \in mine : invoices[i].transmission = "FAILED"})]

\* A row for each business of the list, and the counts found under its id.
RowsFrom(listed, groups, connections) ==
  [o \in listed |->
     [issued |-> countBy(groups.issued, o), received |-> countBy(groups.received, o),
      nonConforming |-> countBy(groups.nonConforming, o),
      queued |-> countBy(groups.queued, o), stuck |-> countBy(groups.stuck, o),
      connected |-> o \in connections, blockers |-> blockersFor(o, o \in connections)]]

OverviewRows(u) == RowsFrom(InScope(u), Aggregates(Found(u)), ConnectionsOf(u))

total(rowsShown, column) == MapThenSumSet(LAMBDA o : rowsShown[o][column], DOMAIN rowsShown)

\* What the rows sum to.
OverviewTotals(shown) ==
  [clientOrgs    |-> Cardinality(DOMAIN shown),
   issued        |-> total(shown, "issued"),
   received      |-> total(shown, "received"),
   nonConforming |-> total(shown, "nonConforming"),
   queued        |-> total(shown, "queued"),
   stuck         |-> total(shown, "stuck"),
   notConnected  |-> Cardinality({o \in DOMAIN shown : ~shown[o].connected}),
   incomplete    |-> Cardinality({o \in DOMAIN shown :
                                    "ADRESSE_INCOMPLETE" \in shown[o].blockers})]

---------------------------------------------------------------------------
(* issue *)

\* The draft, with the business for its seller, can be generated.
Generates(o, d) == orgs[o] /\ d \notin Faulty

\* The guards of the controller, the look for the business, generation and the
\* engine's verdict: nothing goes on but a document the engine was there to judge and
\* found conforming.  What this reads never changes, so it is one step; where it ends
\* in an error nothing has happened.
IssueJudged(r, u, o, d) ==
  /\ req[r] = Idle
  /\ canActivate(u, "invoice:issue")
  /\ o \in InScope(u)
  /\ Generates(o, d)
  /\ Goto(r, [at |-> "inserting", org |-> o, draft |-> d])
  /\ UNCHANGED <<orgs, rows, store, connected, faults>>

\* Mutation: the number is looked up among what is committed, and no index decides.
WaitsNever(r) == FALSE

SameNumber(r, o, d) == req[r].org = o /\ NumberOf[req[r].draft] = NumberOf[d]

\* Another transaction has inserted the number and is still open.
Waits(r) ==
  \E q \in Requests : /\ req[q].at \in {"pdf", "xml", "commit"}
                      /\ SameNumber(r, req[q].org, req[q].draft)

NumberTaken(r) ==
  \E i \in DOMAIN invoices : /\ invoices[i].direction = "ISSUED"
                             /\ SameNumber(r, invoices[i].org, invoices[i].draft)

\* The transaction inserts the invoice, or ends on the index.
Insert(r) ==
  /\ req[r].at = "inserting" /\ ~Waits(r)
  /\ Goto(r, IF NumberTaken(r) THEN Idle ELSE [req[r] EXCEPT !.at = "pdf"])
  /\ UNCHANGED <<orgs, rows, store, connected, faults>>

\* Mutation: what is under the key is taken for the bytes it is the hash of.
PutUnread(bytes) ==
  store' = IF bytes \in DOMAIN store THEN store ELSE Put(store, bytes, "sealed")

\* Bytes already under their key must be the same; otherwise put throws.
put(bytes) ==
  IF bytes \in DOMAIN store
  THEN store[bytes] = "sealed" /\ UNCHANGED store
  ELSE store' = Put(store, bytes, "sealed")

\* seal: the bytes now, the entry with the transaction.
seal(r, kind, then) ==
  /\ req[r].at = kind
  /\ put(BytesOf(r, kind))
  /\ Goto(r, [req[r] EXCEPT !.at = then])
  /\ UNCHANGED <<orgs, rows, connected, faults>>

\* The invoice, its parties, lines and taxes, both entries and the audit row.
CommitInvoice(r) ==
  /\ req[r].at = "commit"
  /\ \E i \in InvoiceIds \ DOMAIN invoices :
       /\ invoices' = Put(invoices, i,
            [org |-> req[r].org, direction |-> "ISSUED", draft |-> req[r].draft,
             state |-> "VALIDATED", valid |-> TRUE, transmission |-> None])
       /\ entries' = entries \cup {[invoice |-> i, bytes |-> BytesOf(r, k)] : k \in Kinds}
  /\ Goto(r, Idle)
  /\ UNCHANGED <<orgs, store, connected, faults>>

\* A statement or a put fails, or the process dies: the transaction is rolled back
\* and the store keeps what was put.
IssueFails(r) ==
  /\ req[r] # Idle
  /\ faults < MaxFaults
  /\ faults' = faults + 1
  /\ Goto(r, Idle)
  /\ UNCHANGED <<orgs, rows, store, connected>>

---------------------------------------------------------------------------
(* Reading them *)

opens(u, i) == canActivate(u, "invoice:read") /\ i \in Found(u)

\* list: those of the scope, of one business or of all, in one direction or in both; a
\* direction nobody knows is no filter.
list(u, org, direction) ==
  {i \in Found(u) : /\ org = None \/ invoices[i].org = org
                    /\ direction \in {"ISSUED", "RECEIVED"} => invoices[i].direction = direction}

\* retrieve: the bytes are there, and hash to what was recorded.
Verified(bytes) == bytes \in DOMAIN store /\ store[bytes] = "sealed"

\* What download may answer this user with.
download(u, i, kind) ==
  {e.bytes : e \in {e \in entries :
     /\ canActivate(u, "invoice:download")
     /\ i \in Found(u)
     /\ e.invoice = i /\ e.bytes.kind = kind
     /\ Verified(e.bytes)}}

---------------------------------------------------------------------------
(* What happens around *)

\* A file of the store is spoilt, not in the moment a transaction is sealing it.
Spoil(bytes) ==
  /\ bytes \in DOMAIN store /\ store[bytes] = "sealed"
  /\ \A r \in Requests : req[r].at \in {"xml", "commit"} =>
                           bytes \notin {BytesOf(r, k) : k \in Kinds}
  /\ faults < MaxFaults
  /\ faults' = faults + 1
  /\ store' = [store EXCEPT ![bytes] = "spoilt"]
  /\ UNCHANGED <<orgs, rows, connected, req>>

\* A document is received for a business.
Receive(o, valid) ==
  /\ o \in DOMAIN orgs
  /\ \E i \in InvoiceIds \ DOMAIN invoices :
       invoices' = Put(invoices, i, [org |-> o, direction |-> "RECEIVED", draft |-> None,
                                     state |-> "RECEIVED", valid |-> valid, transmission |-> None])
  /\ UNCHANGED <<orgs, entries, store, connected, req, faults>>

\* An issued invoice is queued, parked after its last attempt, or queued again.
Transmit(i) ==
  /\ i \in DOMAIN invoices /\ invoices[i].direction = "ISSUED"
  /\ invoices' = [invoices EXCEPT
                    ![i].state = "QUEUED",
                    ![i].transmission = IF @ = "PENDING" THEN "FAILED" ELSE "PENDING"]
  /\ UNCHANGED <<orgs, entries, store, connected, req, faults>>

\* A business is connected to a platform, or the connection deactivated.
Connect(o) ==
  /\ o \in DOMAIN orgs \cap Connecting
  /\ connected' = [connected EXCEPT ![o] = IF @ = "active" THEN "left" ELSE "active"]
  /\ UNCHANGED <<orgs, rows, store, req, faults>>

IssueStep(r) ==
  \/ \E u \in Callers, o \in Orgs, d \in Drafts : IssueJudged(r, u, o, d)
  \/ Insert(r)
  \/ seal(r, "pdf", "xml")
  \/ seal(r, "xml", "commit")
  \/ CommitInvoice(r)
  \/ IssueFails(r)

Next ==
  \/ \E r \in Requests : IssueStep(r)
  \/ \E u \in Callers, o \in Orgs, complete \in BOOLEAN : CreateOrg(u, o, complete)
  \/ \E bytes \in DOMAIN store : Spoil(bytes)
  \/ \E o \in Orgs : Connect(o) \/ \E valid \in BOOLEAN : Receive(o, valid)
  \/ \E i \in InvoiceIds : Transmit(i)

Spec == Init /\ [][Next]_vars

---------------------------------------------------------------------------
(* Correctness *)

(* An invoice that has just been issued can be downloaded in both renditions by   *)
(* those who see its business, made from its own draft and intact, whatever an    *)
(* earlier issuance of it has left in the store.                                  *)
IssuedIsSealed ==
  [][\A i \in DOMAIN invoices' \ DOMAIN invoices, u \in Callers, kind \in Kinds :
       invoices'[i].direction = "ISSUED" /\ invoices'[i].org \in clientOrgScope(u) =>
         \E bytes \in download(u, i, kind)' :
           bytes.org = invoices'[i].org /\ bytes.draft = invoices'[i].draft]_vars

(* A business issues no number twice, however issuances race, fail and are tried *)
(* again.                                                                        *)
NumberIssuedOnce ==
  \A i, j \in DOMAIN invoices :
    /\ invoices[i].direction = "ISSUED" /\ invoices[j].direction = "ISSUED"
    /\ invoices[i].org = invoices[j].org
    /\ NumberOf[invoices[i].draft] = NumberOf[invoices[j].draft]
    => i = j

\* Its rows are those of the pages, and its totals those of its rows.
RowsAgree(shown, totals, mine) ==
  /\ shown = [o \in mine |-> detail(o)]
  /\ totals.issued + totals.received = Cardinality({i \in DOMAIN invoices : invoices[i].org \in mine})
  /\ totals.notConnected = Cardinality({o \in mine : ~IsConnected(o)})

\* The list holds what is counted, and nothing that does not open.
ListAgrees(u, shown) ==
  /\ \A o \in DOMAIN shown : /\ shown[o].issued = Cardinality(list(u, o, "ISSUED"))
                            /\ shown[o].received = Cardinality(list(u, o, "RECEIVED"))
  /\ \A o \in Orgs \cup {None}, direction \in {"ISSUED", "RECEIVED", None} :
       \A i \in list(u, o, direction) : opens(u, i) /\ invoices[i].org \in DOMAIN shown

OverviewHolds(u, shown) == RowsAgree(shown, OverviewTotals(shown), InScope(u)) /\ ListAgrees(u, shown)

(* The overview says of each business what its own page says and what the list   *)
(* of its invoices holds, of no business that page would refuse; its totals are  *)
(* those of the businesses it lists, and whatever the filters nothing is listed  *)
(* that does not open.                                                           *)
OverviewAgreesWithDetail == \A u \in Callers : OverviewHolds(u, OverviewRows(u))
==============================================================================

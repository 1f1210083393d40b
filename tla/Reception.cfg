SPECIFICATION FairSpec
CONSTANTS
  trade = trade
  bill = bill
  twin = twin
  stray = stray
  a = a
  b = b
  Docs = {trade, twin, stray}
  Orgs = {a, b}
  BuyerOf <- Buyers
  Readable = {trade, stray}
  NumberOf <- Numbers
  IssuedBy <- Issuers
  InvoiceIds = {n1, n2}
  Uploads = {u1}
  Pollers = {p1, p2}
  MaxAt = 2
  MaxReceiveFaults = 1
  MaxPollFaults = 1
  None = None
INVARIANTS ReceptionInv PassedIsFiled IdentifiedFiledOnce FiledIsSealed
PROPERTIES EveryInboundFiled

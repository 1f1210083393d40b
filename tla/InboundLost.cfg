SPECIFICATION Spec
CONSTANTS
  trade = trade
  bill = bill
  twin = twin
  stray = stray
  a = a
  b = b
  Docs = {bill}
  Orgs = {a, b}
  BuyerOf <- Buyers
  Readable = {bill}
  NumberOf <- Numbers
  IssuedBy <- Issuers
  InvoiceIds = {n1, n2}
  Uploads = {}
  Pollers = {p1}
  MaxAt = 2
  MaxReceiveFaults = 1
  MaxPollFaults = 0
  None = None
INVARIANTS NothingLost

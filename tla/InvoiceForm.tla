---------------------------- MODULE InvoiceForm ----------------------------
(***************************************************************************)
(* The page on which an invoice is written (nouvelle/InvoiceForm.tsx), the *)
(* action that assembles what it submits (factures/actions.ts) and what    *)
(* the API accepts of it (dto/issue-invoice.dto.ts).  The fields outside   *)
(* of the rows and of the prepaid amount are those of header.  A text is   *)
(* empty or says something: no field is filled with blanks only.           *)
(***************************************************************************)
EXTENDS Draft

CONSTANTS Issuer, Today,          \* the business chosen, as its record has it; the date
          Headers,                \* what the fields outside of the rows are filled with
          Patches,                \* what is typed in a row: [field, text]
          PrepaidTexts,           \* what is typed as the prepaid amount
          MaxRows                 \* bound: rows of the form

VARIABLES header, rows, prepaid

form == <<header, rows, prepaid>>

\* The fields outside of the rows, as the page opens.
blankHeader ==
    [invoiceNumber |-> "", typeCode |-> "380", issueDate |-> Today, dueDate |-> NoDate,
     deliveryDate |-> NoDate, deliveryCountryCode |-> Absent, currency |-> "EUR",
     buyerReference |-> Absent, purchaseOrderReference |-> Absent, seller |-> Issuer,
     buyer |-> [DraftParty("", "FR", NoId, NoId, NoId)
                  EXCEPT !.line1 = "", !.postcode = "", !.city = ""],
     lines |-> <<>>, paymentMeansCode |-> "30", iban |-> NoId,
     paymentTerms |-> Absent, prepaidAmount |-> NoAmount, notes |-> <<>>]

\* What the lists offer.
countries == {"FR", "BE", "DE", "ES", "IT", "LU", "NL", "CH"}
paymentMeansOffered == {"30", "48", "49", "10", "20", "1"}

ASSUME HeaderAssumption ==
    \A h \in Headers :
       /\ DOMAIN h = DOMAIN blankHeader
       /\ h.notes \in Seq(ToSet(h.notes))
       /\ h.typeCode \in DRAFT_TYPE_CODES
       /\ h.buyer.countryCode \in countries
       /\ h.paymentMeansCode \in paymentMeansOffered

ibanRequired == header.paymentMeansCode \in {"30", "58"}

\* Nothing required is empty outside of the rows.
IsHeaderComplete ==
    /\ header.invoiceNumber # "" /\ header.issueDate # NoDate
    /\ \A f \in {"name", "line1", "postcode", "city"} : header.buyer[f] # ""
    /\ ibanRequired => header.iban # NoId

\* An amount as it is typed: with a point, or with a comma and blanks.
Typed(amount, comma) == [amount |-> amount, comma |-> comma]

Untyped == Typed(NoAmount, FALSE)

blankLine ==
    [name |-> "", quantity |-> Typed(Dec(1, 0), FALSE), unitPrice |-> Untyped, vatCategory |-> "S",
     vatRatePercent |-> Typed(Dec(2000, 2), FALSE), exemptionReason |-> ""]

IsZeroRated(row) == row.vatCategory \in ZERO_RATED_CATEGORIES

NeedsReason(row) == row.vatCategory \in REASON_REQUIRED_CATEGORIES

(***************************************************************************)
(* The totals shown while the form is filled                               *)
(***************************************************************************)
normalise(text) == text.amount

NoPreview == [lines |-> <<>>]

OrZeroText(text) == IF text = Untyped THEN Zero ELSE normalise(text)

previewLine(row) ==
    DraftLine(OrZeroText(row.quantity), OrZeroText(row.unitPrice), row.vatCategory,
              OrZeroText(row.vatRatePercent),
              IF row.exemptionReason = "" THEN Absent ELSE row.exemptionReason)

Usable == filter(rows, LAMBDA row : row.unitPrice # Untyped)

previewDraft ==
    [header EXCEPT !.prepaidAmount = normalise(prepaid),
                   !.lines = [i \in DOMAIN Usable |-> previewLine(Usable[i])]]

\* Mutation: the prepaid amount is shown apart and not deducted.
previewUndeducted ==
    IF Usable = <<>> \/ ~IsComputable(previewDraft) THEN NoPreview
    ELSE computeInvoice([previewDraft EXCEPT !.prepaidAmount = NoAmount])

preview ==
    IF Usable = <<>> \/ ~IsComputable(previewDraft) THEN NoPreview
    ELSE computeInvoice(previewDraft)

\* The amount beside a row: that of the line which has its place among the usable ones.
lineTotal(shown, i) == IF i \in DOMAIN shown.lines THEN Written(shown.lines[i].netAmount) ELSE NoAmount

\* The amounts of VAT, which are shown when there are several.
ShownGroups(computed) ==
    IF Len(computed.taxGroups) > 1
    THEN [k \in DOMAIN computed.taxGroups |->
            <<Written(computed.taxGroups[k].basisAmount), Written(computed.taxGroups[k].calculatedAmount)>>]
    ELSE <<>>

(***************************************************************************)
(* What is submitted: one array per control, of the rows in which the      *)
(* browser finds it enabled                                                *)
(***************************************************************************)
\* The browser submits nothing while a required control is empty.
IsComplete(row) ==
    /\ row.name # ""
    /\ row.quantity # Untyped
    /\ row.unitPrice # Untyped
    /\ IsZeroRated(row) \/ row.vatRatePercent # Untyped
    /\ NeedsReason(row) => row.exemptionReason # ""

lineVatRate ==
    LET rated == filter(rows, LAMBDA row : ~IsZeroRated(row))
    IN [i \in DOMAIN rated |-> rated[i].vatRatePercent]

\* A category without a reason submits a hidden, empty one.
lineExemptionReason == [i \in DOMAIN rows |-> IF NeedsReason(rows[i]) THEN rows[i].exemptionReason ELSE ""]

payloadLine(i) ==
    [rows[i] EXCEPT !.vatRatePercent = IF i \in DOMAIN lineVatRate THEN lineVatRate[i] ELSE Untyped,
                    !.exemptionReason = lineExemptionReason[i]]

payload ==
    filter([i \in DOMAIN rows |-> payloadLine(i)],
              LAMBDA line : line.name # "" \/ line.unitPrice # Untyped)

\* At most four decimals, and a point.
DECIMAL(text) == ~text.comma /\ text.amount.scale \in 0..4

IsLineDto(line) ==
    /\ line.name # ""
    /\ DECIMAL(line.quantity) /\ DECIMAL(line.unitPrice) /\ DECIMAL(line.vatRatePercent)
    /\ line.vatCategory \in VAT_CATEGORIES

IsIssueInvoiceDto ==
    /\ Len(payload) \in 1..500
    /\ \A i \in DOMAIN payload : IsLineDto(payload[i])
    /\ prepaid # Untyped => DECIMAL(prepaid)

draftOf(line) ==
    DraftLine(line.quantity.amount, line.unitPrice.amount, line.vatCategory, line.vatRatePercent.amount,
              IF line.exemptionReason = "" THEN Absent ELSE line.exemptionReason)

SubmittedDraft ==
    [header EXCEPT !.prepaidAmount = prepaid.amount,
                   !.lines = [i \in DOMAIN payload |-> draftOf(payload[i])]]

(***************************************************************************)
(* Steps                                                                   *)
(***************************************************************************)
FormInit == header = blankHeader /\ rows = <<blankLine>> /\ prepaid = Untyped

AddLine ==
    /\ Len(rows) < MaxRows
    /\ rows' = Append(rows, blankLine)
    /\ UNCHANGED <<header, prepaid>>

RemoveLine ==
    /\ Len(rows) > 1
    /\ \E i \in DOMAIN rows : rows' = RemoveAt(rows, i)
    /\ UNCHANGED <<header, prepaid>>

\* A category that charges no VAT puts the rate at zero; and a disabled rate
\* is not typed over.
update(row, patch) ==
    LET next == [row EXCEPT ![patch.field] = patch.text]
    IN IF patch.field = "vatCategory" /\ IsZeroRated(next)
       THEN [next EXCEPT !.vatRatePercent = Typed(Dec(0, 2), FALSE)] ELSE next

Update ==
    /\ \E i \in DOMAIN rows, patch \in Patches :
          /\ patch.field = "vatRatePercent" => ~IsZeroRated(rows[i])
          /\ patch.field = "exemptionReason" => NeedsReason(rows[i])
          /\ rows' = [rows EXCEPT ![i] = update(@, patch)]
    /\ UNCHANGED <<header, prepaid>>

setPrepaid == prepaid' \in PrepaidTexts /\ UNCHANGED <<header, rows>>

\* The other fields are independent of the rows.
setHeader == header' \in Headers /\ UNCHANGED <<rows, prepaid>>

FillIn == AddLine \/ RemoveLine \/ Update \/ setPrepaid \/ setHeader
=============================================================================

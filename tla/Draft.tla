------------------------------- MODULE Draft -------------------------------
(***************************************************************************)
(* The invoice a user submits (generate/draft.ts) and the totals derived   *)
(* from its lines (generate/compute.ts).  A text is a string: Absent when  *)
(* the field is left out, "" when it is empty, " " when it is only blank.  *)
(* An amount is the decimal its text reads as, with the scale it was typed *)
(* at; a date is the number yyyymmdd its text reads as.                    *)
(***************************************************************************)
EXTENDS Money, Identifiers

Absent == "absent"
IsStated(t) == t \notin {Absent, ""}             \* the field is truthy
IsFilled(t) == t \notin {Absent, "", " "}        \* so is the field once trimmed

NoAmount == Dec(0, -1)                           \* the amount is not stated
Unreadable == Dec(0, -2)                         \* its text is not a number
IsReadable(d) == d.scale >= 0

NoDate == 0
BadDate == -1                                    \* a text that is not a date

VAT_CATEGORIES == {"S", "Z", "E", "AE", "K", "G"}
ZERO_RATED_CATEGORIES == {"Z", "E", "AE", "K", "G"}
REASON_REQUIRED_CATEGORIES == {"E", "AE", "K", "G"}
DRAFT_TYPE_CODES == {"380", "381", "384", "386"}

DraftParty(name, country, siret, siren, vatId) ==
    [name |-> name, line1 |-> "street", postcode |-> "75001", city |-> "city",
     countryCode |-> country, siret |-> siret, siren |-> siren, vatId |-> vatId]

DraftLine(quantity, unitPrice, category, rate, reason) ==
    [name |-> "item", description |-> Absent, quantity |-> quantity,
     unitCode |-> "C62", unitPrice |-> unitPrice, vatCategory |-> category,
     vatRatePercent |-> rate, exemptionReason |-> reason]

(***************************************************************************)
(* compute.ts.  computeInvoice throws on a text that is not a number.      *)
(***************************************************************************)
IsComputable(draft) ==
    /\ \A i \in DOMAIN draft.lines :
          /\ IsReadable(draft.lines[i].quantity)
          /\ IsReadable(draft.lines[i].unitPrice)
          /\ IsReadable(draft.lines[i].vatRatePercent)
    /\ draft.prepaidAmount # Unreadable

\* The hundredth is taken by moving the point, and rounding comes last.
vatOn(basis, rate) ==
    LET product == Times(basis, rate)
    IN Rescale(Dec(product.value, product.scale + 2), MonetaryScale)

\* Mutation: the key is made of the rate as it was typed.
groupKeyAsTyped(line) == <<line.vatCategory, line.vatRatePercent>>
groupKey(line) == <<line.vatCategory, Rescale(line.vatRatePercent, MonetaryScale).value>>

computeLine(line, i) ==
    [source |-> line, lineId |-> i,
     netAmount |-> Rescale(Times(line.quantity, line.unitPrice), MonetaryScale)]

\* The positions at which a VAT group first appears, in their order.
GroupStarts(lines) ==
    filter([i \in DOMAIN lines |-> i],
           LAMBDA i : \A j \in 1..(i - 1) : groupKey(lines[j]) # groupKey(lines[i]))

SameGroup(lines, i) == filter(lines, LAMBDA l : groupKey(l) = groupKey(lines[i]))

Taxed(line, rate, basis, reasons) ==
    [categoryCode |-> line.vatCategory, ratePercent |-> rate,
     basisAmount |-> basis, calculatedAmount |-> vatOn(basis, rate),
     exemptionReason |->
         IF line.vatCategory \in REASON_REQUIRED_CATEGORIES /\ reasons # <<>>
         THEN Head(reasons).exemptionReason ELSE Absent]

\* The VAT of the lines of a group, of which this line is the first.
TaxGroup(line, group) ==
    Taxed(line, Rescale(line.vatRatePercent, MonetaryScale),
          Total([k \in DOMAIN group |-> computeLine(group[k], k).netAmount]),
          filter(group, LAMBDA l : IsStated(l.exemptionReason)))

TaxGroups(lines, starts) ==
    [k \in DOMAIN starts |-> TaxGroup(lines[starts[k]], SameGroup(lines, starts[k]))]

WithDue(totals) ==
    [totals EXCEPT !.duePayableAmount = Minus(totals.grandTotalAmount, totals.prepaidAmount)]

TotalsOf(lineTotal, taxTotal, prepaid) ==
    WithDue([lineTotalAmount |-> lineTotal, taxBasisTotalAmount |-> lineTotal,
             taxTotalAmount |-> taxTotal, grandTotalAmount |-> Plus(lineTotal, taxTotal),
             prepaidAmount |-> IF prepaid = NoAmount THEN Dec(0, MonetaryScale)
                               ELSE Rescale(prepaid, MonetaryScale),
             duePayableAmount |-> Zero])

Computed(lines, groups, prepaid) ==
    [lines |-> lines, taxGroups |-> groups,
     totals |-> TotalsOf(Total([i \in DOMAIN lines |-> lines[i].netAmount]),
                         Total([k \in DOMAIN groups |-> groups[k].calculatedAmount]), prepaid)]

computeInvoice(draft) ==
    Computed([i \in DOMAIN draft.lines |-> computeLine(draft.lines[i], i)],
             TaxGroups(draft.lines, GroupStarts(draft.lines)), draft.prepaidAmount)
=============================================================================

---------------------------- MODULE CheckDraft -----------------------------
(***************************************************************************)
(* The checks made on a draft before anything is generated                 *)
(* (generate/check-draft.ts).  A problem names the part of the draft it is *)
(* in, the line (0 outside of the lines), the field, whether it blocks     *)
(* generation, and the rule it anticipates, "" when there is none.         *)
(***************************************************************************)
EXTENDS Draft

Issue(part, line, field, severity, rule) ==
    [part |-> part, line |-> line, field |-> field, severity |-> severity, rule |-> rule]

Refusal(part, field, rule) == Issue(part, 0, field, "error", rule)
Warning(part, field, rule) == Issue(part, 0, field, "warning", rule)

When(condition, issue) == IF condition THEN {issue} ELSE {}

FrenchVatRates == {Dec(20, 0), Dec(10, 0), Dec(55, 1), Dec(21, 1), Zero}
CREDIT_TRANSFER_MEANS == {"30", "58"}

LeapYear(y) == y % 4 = 0 /\ (y % 100 # 0 \/ y % 400 = 0)

DaysIn(y, m) == CASE m \in {4, 6, 9, 11} -> 30
                  [] m = 2 -> IF LeapYear(y) THEN 29 ELSE 28
                  [] OTHER -> 31

\* Date.UTC reads the years below 100 as those of the last century.
isRealDate(d) ==
    LET y == d \div 10000
        m == (d \div 100) % 100
    IN d > 0 /\ y >= 100 /\ m \in 1..12 /\ d % 100 \in 1..DaysIn(y, m)

(***************************************************************************)
(* Parties                                                                 *)
(***************************************************************************)
IsCountryCode(t) == t \notin {"F", "FRA"}        \* two letters, once trimmed

\* A number of another country: two letters, then 2 to 13 letters or digits.
IsForeignVatId(t) ==
    /\ Len(t) \in 4..15
    /\ \A i \in DOMAIN t : t[i] \in (IF i <= 2 THEN 10..35 ELSE 0..35)

checkRegistration(party, part) ==
    IF Given(party.siret)
    THEN When(validateSiret(party.siret) # "ok", Refusal(part, "siret", ""))
    ELSE IF Given(party.siren)
    THEN When(validateSiren(party.siren) # "ok", Refusal(part, "siren", ""))
    ELSE When(party.countryCode = "FR",
              IF part = "seller" THEN Refusal(part, "siret", "BR-FR-01") ELSE Warning(part, "siret", ""))

\* The SIREN a French VAT number must end with: as typed when it is stated.
SirenOf(party) == IF party.siren # NoId THEN party.siren ELSE sirenFromSiret(party.siret)

\* A French one has a valid key, and ends with the SIREN where there is one.
IsVatIdOf(t, siren) ==
    IF IsPrefix(FR, t)
    THEN validateFrenchVatNumber(t) = "ok" /\ (Given(siren) => IsSuffix(siren, t))
    ELSE IsForeignVatId(t)

\* Mutation: the number need not be that of the party's SIREN.
checkVatIdAlone(party, part) ==
    When(Given(party.vatId) /\ ~IsVatIdOf(stripFormatting(party.vatId), NoId),
         Refusal(part, "vatId", ""))

checkVatId(party, part) ==
    When(Given(party.vatId) /\ ~IsVatIdOf(stripFormatting(party.vatId), SirenOf(party)),
         Refusal(part, "vatId", ""))

checkParty(party, part) ==
    LET seller == part = "seller"
        missingAddress == {f \in {"line1", "postcode", "city"} : ~IsFilled(party[f])}
    IN When(~IsFilled(party.name), Refusal(part, "name", IF seller THEN "BR-06" ELSE "BR-07"))
       \cup (IF ~IsFilled(party.countryCode)
             THEN {Refusal(part, "countryCode", IF seller THEN "BR-09" ELSE "BR-11")}
             ELSE When(~IsCountryCode(party.countryCode), Refusal(part, "countryCode", "")))
       \cup {Warning(part, f, "") : f \in missingAddress}
       \cup checkRegistration(party, part)
       \cup checkVatId(party, part)

(***************************************************************************)
(* Lines                                                                   *)
(***************************************************************************)
\* The rules of an intra-community supply are named IC, its category K.
RateRule == [Z |-> "BR-Z-05", E |-> "BR-E-05", AE |-> "BR-AE-05", K |-> "BR-IC-05", G |-> "BR-G-05"]
ReasonRule == [E |-> "BR-E-10", AE |-> "BR-AE-10", K |-> "BR-IC-10", G |-> "BR-G-10"]

checkVatCoherence(line, i) ==
    LET category == line.vatCategory
        rate == line.vatRatePercent
        reason == IsFilled(line.exemptionReason)
        at(field, severity, rule) == Issue("lines", i, field, severity, rule)
    IN (IF category \in ZERO_RATED_CATEGORIES /\ ~IsZero(rate)
        THEN {at("vatRatePercent", "error", RateRule[category])} ELSE {})
       \cup (IF category \in REASON_REQUIRED_CATEGORIES /\ ~reason
             THEN {at("exemptionReason", "error", ReasonRule[category])} ELSE {})
       \cup When(category = "Z" /\ reason, at("exemptionReason", "warning", "BR-Z-10"))
       \cup (IF category # "S" THEN {}
             ELSE IF ~Less(Zero, rate) THEN {at("vatRatePercent", "error", "BR-S-05")}
             ELSE When(\A r \in FrenchVatRates : ~Same(r, rate),
                       at("vatRatePercent", "warning", "")))

\* Nothing more is said of a line whose category or rate cannot be read.
IsRated(line) == line.vatCategory \in VAT_CATEGORIES /\ IsReadable(line.vatRatePercent)

checkLine(line, i) ==
    LET at(field, severity, rule) == Issue("lines", i, field, severity, rule)
    IN When(~IsFilled(line.name), at("name", "error", "BR-25"))
       \cup When(~IsFilled(line.unitCode), at("unitCode", "error", "BR-23"))
       \cup When(IsFilled(line.description), at("description", "warning", "BT-154"))
       \cup (IF ~IsReadable(line.quantity) THEN {at("quantity", "error", "BR-22")}
             ELSE When(IsZero(line.quantity), at("quantity", "warning", "")))
       \cup When(~IsReadable(line.unitPrice), at("unitPrice", "error", "BR-24"))
       \cup When(line.vatCategory \notin VAT_CATEGORIES, at("vatCategory", "error", "BR-CO-04"))
       \cup When(line.vatCategory \in VAT_CATEGORIES /\ ~IsReadable(line.vatRatePercent),
                 at("vatRatePercent", "error", ""))
       \cup (IF IsRated(line) THEN checkVatCoherence(line, i) ELSE {})

\* The reasons are gathered under the category and the rate as it was typed.
GivesReason(line) ==
    IsRated(line) /\ line.vatCategory \in REASON_REQUIRED_CATEGORIES /\ IsFilled(line.exemptionReason)

reasonKey(line) == <<line.vatCategory, line.vatRatePercent>>

ReasonsDiffer(lines) ==
    \E i, j \in DOMAIN lines :
       /\ GivesReason(lines[i])
       /\ GivesReason(lines[j])
       /\ reasonKey(lines[i]) = reasonKey(lines[j])
       /\ lines[i].exemptionReason # lines[j].exemptionReason

checkLines(draft) ==
    IF draft.lines = <<>> THEN {Refusal("header", "lines", "BR-16")}
    ELSE (UNION {checkLine(draft.lines[i], i) : i \in DOMAIN draft.lines})
         \cup When((\E i \in DOMAIN draft.lines : draft.lines[i].vatCategory = "K")
                      /\ ~IsFilled(draft.deliveryCountryCode),
                   Refusal("header", "deliveryCountryCode", "BR-IC-12"))
         \cup When(ReasonsDiffer(draft.lines), Warning("header", "lines", "BR-CO-18"))

(***************************************************************************)
(* Header, and the whole draft                                             *)
(***************************************************************************)
IsCurrencyCode(t) == t \notin {"", " ", "euro"}  \* three capital letters

checkHeader(draft) ==
    LET refused(condition, field, rule) == When(condition, Refusal("header", field, rule))
    IN refused(~IsFilled(draft.invoiceNumber), "invoiceNumber", "BR-02")
       \cup refused(draft.issueDate = NoDate, "issueDate", "BR-03")
       \cup refused(draft.issueDate # NoDate /\ ~isRealDate(draft.issueDate), "issueDate", "")
       \cup refused(/\ draft.dueDate # NoDate
                    /\ \/ ~isRealDate(draft.dueDate)
                       \/ isRealDate(draft.issueDate) /\ draft.dueDate < draft.issueDate,
                    "dueDate", "")
       \cup refused(draft.deliveryDate # NoDate /\ ~isRealDate(draft.deliveryDate), "deliveryDate", "")
       \cup refused(IsStated(draft.typeCode) /\ draft.typeCode \notin DRAFT_TYPE_CODES,
                    "typeCode", "BR-CO-03")
       \cup refused(draft.currency # Absent /\ ~IsCurrencyCode(draft.currency), "currency", "BR-05")
       \cup refused(Given(draft.iban) /\ ~isValidIban(draft.iban), "iban", "")
       \cup refused(draft.paymentMeansCode \in CREDIT_TRANSFER_MEANS /\ AllBlank(draft.iban),
                    "iban", "BR-CO-27")

Blocks(issues) == \E i \in issues : i.severity = "error"

\* What can be said only once the totals are known.
TotalsIssues(totals, draft) ==
    When(/\ Less(Zero, totals.duePayableAmount)
         /\ draft.dueDate = NoDate
         /\ ~IsStated(draft.paymentTerms),
         Refusal("header", "dueDate", "BR-CO-25"))
    \cup When(Less(totals.grandTotalAmount, totals.prepaidAmount),
              Refusal("header", "prepaidAmount", ""))

checkTotals(draft) ==
    IF ~IsComputable(draft) THEN {Refusal("header", "lines", "")}
    ELSE TotalsIssues(computeInvoice(draft).totals, draft)

\* The totals are computed only of a draft that nothing else blocks.
WithTotals(issues, draft) == issues \cup (IF Blocks(issues) THEN {} ELSE checkTotals(draft))

checkDraft(draft) ==
    WithTotals(checkHeader(draft) \cup checkParty(draft.seller, "seller")
                  \cup checkParty(draft.buyer, "buyer") \cup checkLines(draft), draft)
=============================================================================

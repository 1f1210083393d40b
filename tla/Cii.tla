-------------------------------- MODULE Cii --------------------------------
(***************************************************************************)
(* The Cross Industry Invoice: written from a draft and its totals         *)
(* (generate/cii.ts, generate/xml.ts), and read back leniently, an element *)
(* that is not there yielding nothing (extract/cii.ts).  A document is the *)
(* record of its elements; an amount in it is text.                        *)
(***************************************************************************)
EXTENDS Draft

FACTURX_PROFILES == {"MINIMUM", "BASIC_WL", "BASIC", "EN_16931", "EXTENDED"}
profileCanExpressPrepaidAmount(profile) == profile # "MINIMUM"
profileCarriesLines(profile) == profile \notin {"MINIMUM", "BASIC_WL"}

\* Penalties, recovery costs and discount: the mentions French law requires.
FRENCH_LEGAL_NOTES == <<"PMD", "PMT", "AAB">>

(***************************************************************************)
(* Writing                                                                 *)
(***************************************************************************)
NoElement == [negative |-> FALSE, whole |-> 0, fraction |-> 0, places |-> -1]

digitsOnly(t) == IF AllBlank(t) THEN NoId ELSE stripFormatting(t)

\* The SIREN and the VAT number are derived where they are not stated; a VAT
\* number stated as the empty text is neither derived nor written.
partySiren(siret, siren) == IF siren # NoId THEN siren ELSE sirenFromSiret(siret)

partyVatId(party, siren) ==
    IF party.vatId # NoId
    THEN IF AllBlank(party.vatId) THEN NoId ELSE stripFormatting(party.vatId)
    ELSE IF party.countryCode = "FR" THEN vatNumberFromSiren(siren)
    ELSE NoId

nodeOf(party, siret, siren) ==
    [name |-> party.name, country |-> party.countryCode, legalId |-> siren,
     electronicAddress |-> siret, vatId |-> partyVatId(party, siren)]

partyNode(party) ==
    nodeOf(party, digitsOnly(party.siret),
           partySiren(digitsOnly(party.siret), digitsOnly(party.siren)))

\* BASIC has no room for a description: only the name of the product is written.
lineNode(line) ==
    [lineId |-> line.lineId, name |-> line.source.name, unitCode |-> line.source.unitCode,
     chargeAmount |-> Format(line.source.unitPrice),
     billedQuantity |-> Format(line.source.quantity),
     categoryCode |-> line.source.vatCategory,
     ratePercent |-> Written(line.source.vatRatePercent),
     lineTotal |-> Written(line.netAmount)]

taxNode(group) ==
    [calculatedAmount |-> Written(group.calculatedAmount),
     basisAmount |-> Written(group.basisAmount),
     categoryCode |-> group.categoryCode,
     ratePercent |-> Written(group.ratePercent),
     exemptionReason |-> group.exemptionReason]

paymentMeans(draft) ==
    IF draft.paymentMeansCode # Absent THEN draft.paymentMeansCode
    ELSE IF Given(draft.iban) THEN "30"
    ELSE "1"

WrittenTotals(totals) ==
    [lineTotalAmount |-> Written(totals.lineTotalAmount),
     allowanceTotalAmount |-> NoElement,
     chargeTotalAmount |-> NoElement,
     taxBasisTotalAmount |-> Written(totals.taxBasisTotalAmount),
     taxTotalAmount |-> Written(totals.taxTotalAmount),
     grandTotalAmount |-> Written(totals.grandTotalAmount),
     prepaidAmount |-> IF IsZero(totals.prepaidAmount) THEN NoElement
                       ELSE Written(totals.prepaidAmount),
     duePayableAmount |-> Written(totals.duePayableAmount)]

serialiseCii(draft, computed) ==
    [profile |-> "BASIC",
     invoiceNumber |-> draft.invoiceNumber,
     typeCode |-> IF draft.typeCode = Absent THEN "380" ELSE draft.typeCode,
     issueDate |-> draft.issueDate,
     notes |-> draft.notes \o FRENCH_LEGAL_NOTES,
     lines |-> [i \in DOMAIN computed.lines |-> lineNode(computed.lines[i])],
     seller |-> partyNode(draft.seller),
     buyer |-> partyNode(draft.buyer),
     shipTo |-> draft.deliveryCountryCode,
     deliveryDate |-> IF draft.deliveryDate = NoDate THEN draft.issueDate ELSE draft.deliveryDate,
     currency |-> IF draft.currency = Absent THEN "EUR" ELSE draft.currency,
     paymentMeans |-> paymentMeans(draft),
     iban |-> IF Given(draft.iban) THEN stripFormatting(draft.iban) ELSE NoId,
     taxes |-> [k \in DOMAIN computed.taxGroups |-> taxNode(computed.taxGroups[k])],
     paymentTerms |-> draft.paymentTerms,
     dueDate |-> draft.dueDate,
     totals |-> WrittenTotals(computed.totals)]

(***************************************************************************)
(* Reading                                                                 *)
(***************************************************************************)
text(t) == IF IsFilled(t) THEN t ELSE Absent

amount(t) == IF t = NoElement THEN NoAmount ELSE ParseDecimal(t)

\* The SIRET, written as an electronic address, is not read back.
parseParty(node) ==
    [name |-> text(node.name), legalId |-> node.legalId, vatId |-> node.vatId,
     countryCode |-> text(node.country)]

parseLine(node) ==
    [id |-> node.lineId, name |-> text(node.name),
     quantity |-> amount(node.billedQuantity), netUnitPrice |-> amount(node.chargeAmount),
     netAmount |-> amount(node.lineTotal), vatCategoryCode |-> text(node.categoryCode),
     vatRatePercent |-> amount(node.ratePercent)]

parseTaxBreakdown(node) ==
    [basisAmount |-> amount(node.basisAmount), calculatedAmount |-> amount(node.calculatedAmount),
     categoryCode |-> text(node.categoryCode), ratePercent |-> amount(node.ratePercent),
     exemptionReason |-> text(node.exemptionReason)]

parseCii(doc) ==
    [profile |-> doc.profile, invoiceNumber |-> text(doc.invoiceNumber),
     typeCode |-> text(doc.typeCode), issueDate |-> doc.issueDate, dueDate |-> doc.dueDate,
     currency |-> text(doc.currency), seller |-> parseParty(doc.seller), buyer |-> parseParty(doc.buyer),
     lines |-> [i \in DOMAIN doc.lines |-> parseLine(doc.lines[i])],
     taxBreakdown |-> [k \in DOMAIN doc.taxes |-> parseTaxBreakdown(doc.taxes[k])],
     totals |-> [f \in DOMAIN doc.totals |-> amount(doc.totals[f])],
     notes |-> doc.notes]
=============================================================================

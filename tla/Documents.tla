----------------------------- MODULE Documents -----------------------------
(***************************************************************************)
(* From a draft to an issued document, and from a file to a verdict        *)
(* (generate/index.ts, the analysis in invoicing/issuance.service.ts).  A  *)
(* draft is refused, or generated in two renditions and given to the       *)
(* engine; what was issued may come back altered by other software, and    *)
(* anyone may submit a file.  The engine is a service outside of the code: *)
(* of a document it applies the rules named here, and of any other file it *)
(* may answer anything, or nothing.                                        *)
(***************************************************************************)
EXTENDS CheckDraft, ResultPage, PdfPage, InvoiceForm

CONSTANTS Drafts,                 \* the drafts users submit
          Uploads                 \* the files submitted, each with the engine's answer to it

\* What the engine may answer to a file: a message is what the code can read in it.
\* Words is STRING: the provers do not know of a quoted word that it is one.
Words == STRING \cup {"", "BR", "ZF_250", "error"}
EngineRules == [prefix : Words, number : Nat, variant : Words]
EngineMessages ==
    [element : Words, source : Words, empty : BOOLEAN, ids : [ToSet(IdPlaces) -> EngineRules]]

\* What is submitted has arrays of lines and of notes.
ASSUME DraftsAssumption ==
    \A d \in Drafts : d.lines \in Seq(ToSet(d.lines)) /\ d.notes \in Seq(ToSet(d.notes))

ASSUME UploadsAssumption ==
    \A u \in Uploads :
       \/ u.answer \in EngineErrors
       \/ /\ \A s \in {u.answer.xml.messages, u.answer.pdf.messages, u.answer.messages} :
                s \in Seq(EngineMessages)
          /\ IsFiniteSet(u.answer.pdf.assertions)

VARIABLES draft,                  \* the draft in hand, or Nothing
          issues,                 \* what was found in it
          generated,              \* the totals, the document and the page made of it
          document,               \* the document given to the engine, or Nothing
          omitted,                \* the line left out of its total; 0 when none is
          answer,                 \* what the engine answered
          analysis,               \* what was made of it
          outcome                 \* "none", "refused", "issued", "cancelled" or "read"

made == <<draft, issues, generated, document, omitted, answer, analysis, outcome>>

vars == <<form, made>>

(***************************************************************************)
(* The engine's rules about a document written at two decimals, by cents   *)
(***************************************************************************)
Cents(t) == IF t = NoElement THEN 0 ELSE Signed(t.negative, 100 * t.whole + t.fraction)

LineCents(doc, S) == MapThenSumSet(LAMBDA i : Cents(doc.lines[i].lineTotal), S)

TaxCents(doc) == MapThenSumSet(LAMBDA k : Cents(doc.taxes[k].calculatedAmount), DOMAIN doc.taxes)

\* Half a cent away from zero.
VatCents(basis, rate) ==
    Signed(basis * rate < 0, (2 * Magnitude(basis * rate) + 10000) \div 20000)

ArithmeticRules == {"BR-CO-10", "BR-CO-13", "BR-CO-14", "BR-CO-15", "BR-CO-16", "BR-CO-17"}

BrokenArithmetic(doc) ==
    LET t == [f \in DOMAIN doc.totals |-> Cents(doc.totals[f])]
    IN {r \in ArithmeticRules :
          \/ r = "BR-CO-10" /\ t.lineTotalAmount # LineCents(doc, DOMAIN doc.lines)
          \/ r = "BR-CO-13" /\ t.taxBasisTotalAmount
                                 # t.lineTotalAmount - t.allowanceTotalAmount + t.chargeTotalAmount
          \/ r = "BR-CO-14" /\ t.taxTotalAmount # TaxCents(doc)
          \/ r = "BR-CO-15" /\ t.grandTotalAmount # t.taxBasisTotalAmount + t.taxTotalAmount
          \/ r = "BR-CO-16" /\ t.duePayableAmount # t.grandTotalAmount - t.prepaidAmount
          \/ r = "BR-CO-17" /\ \E k \in DOMAIN doc.taxes :
                                 Cents(doc.taxes[k].calculatedAmount)
                                    # VatCents(Cents(doc.taxes[k].basisAmount),
                                               Cents(doc.taxes[k].ratePercent))}

\* Each group is the sum of the lines that bear its category and its rate, and
\* each line has one group.
InGroup(line, tax) == line.categoryCode = tax.categoryCode /\ line.ratePercent = tax.ratePercent

BrokenGroups(doc) ==
    \/ \E k \in DOMAIN doc.taxes :
          Cents(doc.taxes[k].basisAmount)
             # LineCents(doc, {i \in DOMAIN doc.lines : InGroup(doc.lines[i], doc.taxes[k])})
    \/ \E i \in DOMAIN doc.lines :
          Cardinality({k \in DOMAIN doc.taxes : InGroup(doc.lines[i], doc.taxes[k])}) # 1

BrokenCategories(doc) ==
    \/ \E i \in DOMAIN doc.lines :
          LET line == doc.lines[i]
          IN line.categoryCode = "S" <=> Cents(line.ratePercent) = 0
    \/ \E k \in DOMAIN doc.taxes :
          LET tax == doc.taxes[k]
          IN ~(tax.categoryCode \in REASON_REQUIRED_CATEGORIES <=> IsFilled(tax.exemptionReason))

BrokenRules(doc) ==
    BrokenArithmetic(doc)
    \cup {r \in {"BR-02", "BR-03", "BR-16", "BR-06", "BR-07", "BR-25", "BR-FR-01", "BR-IC-12",
                 "BR-CO-25", "BR-CO-27", "groups", "categories"} :
            \/ r = "BR-02" /\ ~IsFilled(doc.invoiceNumber)
            \/ r = "BR-03" /\ doc.issueDate <= 0
            \/ r = "BR-16" /\ doc.lines = <<>>
            \/ r = "BR-06" /\ ~IsFilled(doc.seller.name)
            \/ r = "BR-07" /\ ~IsFilled(doc.buyer.name)
            \/ r = "BR-25" /\ \E i \in DOMAIN doc.lines : ~IsFilled(doc.lines[i].name)
            \/ r = "BR-FR-01" /\ doc.seller.country = "FR" /\ doc.seller.legalId = NoId
            \/ /\ r = "BR-IC-12"
               /\ \E i \in DOMAIN doc.lines : doc.lines[i].categoryCode = "K"
               /\ ~IsFilled(doc.shipTo)
            \/ /\ r = "BR-CO-25"
               /\ Cents(doc.totals.duePayableAmount) > 0
               /\ doc.dueDate = NoDate
               /\ ~IsStated(doc.paymentTerms)
            \/ r = "BR-CO-27" /\ doc.paymentMeans \in CREDIT_TRANSFER_MEANS /\ doc.iban = NoId
            \/ r = "groups" /\ BrokenGroups(doc)
            \/ r = "categories" /\ BrokenCategories(doc)}

\* The report on a document of ours: an error for each rule it breaks.
ReportOn(doc) ==
    LET broken == Cardinality(BrokenRules(doc))
        status == IF broken = 0 THEN "valid" ELSE "invalid"
    IN [parses |-> TRUE, hasValidation |-> TRUE, overall |-> status,
        xml |-> [status |-> status,
                 messages |-> [i \in 1..broken |->
                                 Message("error", "ZF_250", "bracketed", RuleId("BR", i))]],
        pdf |-> [status |-> "valid", messages |-> <<>>, hasVerdict |-> TRUE, compliant |-> TRUE,
                 assertions |-> {}],
        messages |-> <<>>, profile |-> "BASIC"]

(***************************************************************************)
(* Steps                                                                   *)
(***************************************************************************)
Init ==
    /\ FormInit
    /\ draft = Nothing
    /\ issues = {}
    /\ generated = Nothing
    /\ document = Nothing
    /\ omitted = 0
    /\ answer = Nothing
    /\ analysis = Nothing
    /\ outcome = "none"

Renditions(d, computed) ==
    [computed |-> computed, cii |-> serialiseCii(d, computed), page |-> renderPdfA3(d, computed)]

\* Nothing is made of a draft that does not pass its checks.
generateFacturX(d) ==
    /\ outcome = "none"
    /\ generated = Nothing
    /\ draft' = d
    /\ issues' = checkDraft(d)
    /\ IF Blocks(issues')
       THEN outcome' = "refused" /\ UNCHANGED generated
       ELSE /\ generated' = Renditions(d, computeInvoice(d))
            /\ UNCHANGED outcome
    /\ UNCHANGED <<document, omitted, answer, analysis, form>>

\* The PDF that carries a document, as it is written and as it is found.
PdfOf(doc) ==
    [form |-> "pdf", opens |-> TRUE, part |-> 3, content |-> Nothing,
     attachments |-> <<Attachment(CANONICAL_ATTACHMENT_NAME, doc, "Data")>>]

Analysed(file, a) == answer' = a /\ analysis' = toAnalysisDto(analyze(file, a))

\* The document is given to the engine before it is kept, and is kept only if
\* it conforms.
selfValidate(a) ==
    /\ outcome = "none"
    /\ generated # Nothing
    /\ document' = generated.cii
    /\ Analysed(PdfOf(generated.cii), a)
    /\ outcome' = IF analysis'.verdict = "conforme" THEN "issued" ELSE "cancelled"
    /\ UNCHANGED <<draft, issues, generated, omitted, form>>

AnswersOn(doc) == EngineErrors \cup {ReportOn(doc)}

\* The document comes back with an amount changed by a cent ...
Cent(t, delta) == Format(Dec(Cents(t) + delta, MonetaryScale))

AlterTotal(doc, field, delta) == [doc EXCEPT !.totals[field] = Cent(@, delta)]
AlterTax(doc, k, delta) == [doc EXCEPT !.taxes[k].calculatedAmount = Cent(@, delta)]

Altered(doc, delta) ==
    {AlterTotal(doc, f, delta) : f \in DOMAIN doc.totals}
    \cup {AlterTax(doc, k, delta) : k \in DOMAIN doc.taxes}

\* ... or with a line that its total leaves out.
OmitLine(doc, i) ==
    [doc EXCEPT !.totals.lineTotalAmount = Cent(@, -Cents(doc.lines[i].lineTotal))]

Returned(doc, line) ==
    /\ outcome = "issued"
    /\ document' = doc
    /\ omitted' = line
    /\ Analysed(PdfOf(doc), ReportOn(doc))
    /\ outcome' = "read"
    /\ UNCHANGED <<draft, issues, generated, form>>

Untouched == outcome = "none" /\ generated = Nothing /\ FormInit

\* A file of unknown origin.
Upload(u) ==
    /\ Analysed(u.file, u.answer)
    /\ outcome' = "read"
    /\ UNCHANGED <<draft, issues, generated, document, omitted, form>>

\* A draft from elsewhere than the form: the API has other clients.
Submit == Untouched /\ \E d \in Drafts : generateFacturX(d)

WriteInvoice == outcome = "none" /\ generated = Nothing /\ FillIn /\ UNCHANGED made

issueInvoice ==
    /\ outcome = "none"
    /\ generated = Nothing
    /\ IsHeaderComplete /\ \A i \in DOMAIN rows : IsComplete(rows[i])
    /\ IF IsIssueInvoiceDto THEN generateFacturX(SubmittedDraft)
       ELSE /\ outcome' = "refused"
            /\ UNCHANGED <<draft, issues, generated, document, omitted, answer, analysis, form>>

SelfValidate == generated # Nothing /\ \E a \in AnswersOn(generated.cii) : selfValidate(a)

Alter ==
    /\ outcome = "issued"
    /\ \E doc \in Altered(document, -1) \cup Altered(document, 1) : Returned(doc, 0)

Omit == outcome = "issued" /\ \E i \in DOMAIN document.lines : Returned(OmitLine(document, i), i)

Submitted == Untouched /\ \E u \in Uploads : Upload(u)

\* A behaviour follows one draft, or one file, to its end.
Next == Submit \/ WriteInvoice \/ issueInvoice \/ SelfValidate \/ Alter \/ Omit \/ Submitted

Spec == Init /\ [][Next]_vars

(***************************************************************************)
(* Properties                                                              *)
(***************************************************************************)
JustGenerated == generated # Nothing /\ document = Nothing

\* A draft that passes its checks makes a document that breaks none of the
\* rules they anticipate: nothing is generated that is known to be rejected
\* (check-draft.ts), and the arithmetic holds once every amount is rounded and
\* written (compute.ts).
AcceptedConforms == JustGenerated => BrokenRules(generated.cii) = {}

\* What the arithmetic checks say of a document read back is what the engine
\* says of it, whichever amount was changed (checks.ts).
ChecksAgreeWithEngine ==
    document # Nothing => analysis.failedChecks = BrokenArithmetic(document)

\* When a line was left out of the total, it is among the lines pointed at, and
\* every line pointed at could be the one (checks.ts).
OmittedLineIsSuspected ==
    omitted # 0 =>
       LET cents(i) == Magnitude(Cents(document.lines[i].lineTotal))
       IN cents(omitted) # 0 =>
             analysis.suspectLines = {document.lines[i].lineId :
                                        i \in {j \in DOMAIN document.lines : cents(j) = cents(omitted)}}

\* No line is split between two pages, and what is drawn of it is clear of the foot;
\* one that is higher than a sheet has room for starts a sheet, and goes over its foot
\* only for that (pdf.ts).
TooHigh(i) == RowHeight(generated.computed.lines[i]) > SheetRoom

LinesClearOfFoot ==
    JustGenerated =>
       \A r, s \in {mark \in generated.page.drawn : mark.what # 0} :
          /\ r.what = s.what => r.page = s.page
          /\ IF TooHigh(r.what) THEN r.page = s.page => r.what <= s.what ELSE r.y >= Foot

\* Nothing is said to conform that the engine finds invalid, or of which it
\* reports an error that is not of the German rules (analyze.ts, report.ts).
IsGerman(m) == m.source = "XR_30" \/ \E p \in DOMAIN m.ids : m.ids[p].prefix = "BR-DE"

NoFalsePass ==
    analysis # Nothing /\ analysis.verdict = "conforme" =>
       /\ answer \notin EngineErrors
       /\ answer.overall = "valid"
       /\ answer.pdf.status \in {"absent", "valid"}
       /\ \A s \in {answer.xml.messages, answer.pdf.messages, answer.messages} :
             \A i \in DOMAIN s : s[i].element \in Errors /\ ~s[i].empty => IsGerman(s[i])

\* Each finding is in one group, the same in both, and the counts are theirs.
FindingsAreListed(page, report) ==
    /\ page.banner.counts = [errors |-> Len(page.blocking), warnings |-> Len(page.warnings),
                             notices |-> Len(page.notices)]
    /\ Len(page.blocking) + Len(page.warnings) + Len(page.notices) = Len(analysis.findings)
    /\ \A g \in DOMAIN report.groups :
          Leads(report.groups[g]) = [i \in DOMAIN page[g] |-> page[g][i].lead]

\* The amounts shown of a document are those it states, and its totals are called
\* coherent when the engine finds them so.
DocumentIsShown(page, report) ==
    /\ page.checks.allGood <=> BrokenArithmetic(document) = {}
    /\ report.ko = BrokenArithmetic(document)
    /\ \A f \in TotalsRead : /\ Cents(page.invoice.totals[f]) = Cents(document.totals[f])
                             /\ report.totals[f] = page.invoice.totals[f]
    /\ \A i \in DOMAIN document.lines :
          Cents(page.invoice.lines[i].netAmount) = Cents(document.lines[i].lineTotal)

ReadAs(page, report) ==
    /\ FindingsAreListed(page, report)
    /\ page.banner.verdict = "conforme" => page.blocking = <<>>
    /\ answer \in EngineErrors =>
          /\ page.banner.verdict = "indetermine" /\ page.unavailable /\ report.unavailable
          /\ analysis.findings = <<>>
    /\ (page.invoice = Nothing) = (page.unread # "") /\ report.unread = page.unread
    /\ document # Nothing => DocumentIsShown(page, report)

\* The page and the report kept of it say the same: every finding in one group, as
\* many as are announced; nothing blocking in a document said to conform; no verdict
\* and no finding where the engine did not answer; the document, or why it was not
\* read; and of a known document its own amounts (ResultView.tsx, report.ts).
ReadAsJudged ==
    analysis # Nothing => ReadAs(ResultView(analysis), buildTextReport(analysis))

\* The numbers a document states for a party agree, whichever were typed and
\* whichever derived: its VAT number is a valid one, and ends with its SIREN
\* (cii.ts, identifiers.ts).
NumbersAgree ==
    JustGenerated =>
       \A party \in {generated.cii.seller, generated.cii.buyer} :
          party.country = "FR" /\ party.vatId # NoId /\ IsPrefix(FR, party.vatId) =>
             /\ validateFrenchVatNumber(party.vatId) = "ok"
             /\ party.legalId # NoId => IsSuffix(party.legalId, party.vatId)

\* One digit typed wrong in a SIREN, a SIRET, a VAT number or an account makes
\* a number that is refused (identifiers.ts, check-draft.ts).  The key of La Poste's
\* establishments is the sum of their digits by five, and misses a slip of five; a
\* VAT key that holds a letter is not checked, the SIREN after it is.
SlipsAreCaught ==
    JustGenerated =>
       LET seller == generated.cii.seller
           slips(t, from) ==
               {[t EXCEPT ![i] = c] : i \in {j \in from..Len(t) : t[j] \in 0..9}, c \in 0..9} \ {t}
           caught(valid(_), t, from) == t # NoId /\ valid(t) => \A u \in slips(t, from) : ~valid(u)
       IN /\ caught(LAMBDA t : validateSiren(t) = "ok", seller.legalId, 1)
          /\ caught(LAMBDA t : validateSiret(t) = "ok" /\ ~IsPrefix(LA_POSTE_SIREN, t),
                    seller.electronicAddress, 1)
          /\ caught(LAMBDA t : validateFrenchVatNumber(t) = "ok" /\ AllDigits(SubSeq(t, 3, 4)),
                    seller.vatId, 3)
          /\ caught(LAMBDA t : validateFrenchVatNumber(t) = "ok", seller.vatId, 5)
          /\ caught(isValidIban, generated.cii.iban, 1)

\* The preview, of the totals, the groups and the lines alike.
ShownIsIssued(shown) ==
    shown # NoPreview =>
       /\ generated.computed.totals = shown.totals
       /\ ShownGroups(generated.computed) = ShownGroups(shown)
       /\ generated.page.lineAmounts = [i \in DOMAIN rows |-> lineTotal(shown, i)]

\* What is issued from the form has the totals and the amounts of VAT that the
\* form showed, and its page prints beside each row the amount that the form had
\* beside it, comma or point, whatever was added, removed and changed: the preview
\* cannot round differently from the issued document (InvoiceForm.tsx, actions.ts).
PreviewIsIssued ==
    JustGenerated => ShownIsIssued(preview)

\* Lines arrive as parallel arrays (actions.ts): the line made of a row has the
\* rate of the row.
LinesArriveParallel ==
    (\A i \in DOMAIN rows : IsComplete(rows[i])) =>
       \A i \in DOMAIN rows : payloadLine(i).vatRatePercent = rows[i].vatRatePercent
=============================================================================

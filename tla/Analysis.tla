------------------------------ MODULE Analysis -----------------------------
(***************************************************************************)
(* The analysis of a file (analyze.ts): the CII recovered from it          *)
(* (extract/pdf.ts), read and checked, and the report of the engine,       *)
(* joined into one verdict.  A file has a form, "pdf", "cii" or "other",   *)
(* attachments when it is a PDF that opens, and the CII it carries;        *)
(* Garbled stands for XML that is not a readable CII document.             *)
(***************************************************************************)
EXTENDS Arithmetic, Report

CONSTANTS Garbled,                \* the content of an attachment that does not parse
          Nothing                 \* no document, no report

CANONICAL_ATTACHMENT_NAME == "factur-x.xml"
KNOWN_ATTACHMENT_ALIASES == {"factur-x.xml", "zugferd-invoice.xml", "order-x.xml", "xrechnung.xml",
                             "cii.xml"}

Attachment(name, content, relationship) ==
    [name |-> name, content |-> content, relationship |-> relationship]

\* The canonical name first, then a known one, then whatever XML looks like a CII.
Candidates(attachments) ==
    <<filter(attachments, LAMBDA a : a.name = CANONICAL_ATTACHMENT_NAME),
      filter(attachments, LAMBDA a : a.name \in KNOWN_ATTACHMENT_ALIASES),
      filter(attachments, LAMBDA a : a.name = "other.xml" /\ a.content # Nothing)>>

FirstOf(found) == IF found = <<>> THEN Nothing ELSE Head(Head(found))

pickInvoiceAttachment(attachments) ==
    FirstOf(filter(Candidates(attachments), LAMBDA s : s # <<>>))

Extraction(file, picked) ==
    [invoiceXml |-> picked,
     warnings |->
        {w \in {"no attachment", "no invoice", "name", "relationship", "pdfa"} :
           CASE w = "no attachment" -> file.attachments = <<>>
             [] w = "no invoice" -> file.attachments # <<>> /\ picked = Nothing
             [] w = "name" -> picked # Nothing /\ picked.name # CANONICAL_ATTACHMENT_NAME
             [] w = "relationship" -> picked # Nothing /\ picked.relationship # "Data"
             [] w = "pdfa" -> file.part # 3}]

\* Of a PDF that opens.
extractFromPdf(file) ==
    IF file.form = "pdf" /\ file.opens
    THEN Extraction(file, pickInvoiceAttachment(file.attachments)) ELSE Nothing

\* The CII bytes of a file: those of the attachment, or the file itself.
ciiBytes(file, pdf) ==
    IF pdf # Nothing
    THEN IF pdf.invoiceXml = Nothing THEN Nothing ELSE pdf.invoiceXml.content
    ELSE IF file.form = "cii" THEN file.content
    ELSE Nothing

invoiceOf(bytes) == IF bytes \in {Nothing, Garbled} THEN Nothing ELSE parseCii(bytes)

\* Why nothing was read of it.
parseErrorOf(file, pdf, bytes, invoice) ==
    IF invoice # Nothing THEN ""
    ELSE IF bytes # Nothing THEN "not a CII document"
    ELSE IF pdf # Nothing THEN "nothing attached to read"
    ELSE IF file.form = "pdf" /\ pdf = Nothing THEN "does not open"
    ELSE "neither form"

kindOf(file, bytes, invoice) ==
    CASE file.form = "pdf" -> IF bytes # Nothing THEN "facturx-pdf" ELSE "pdf-without-xml"
      [] file.form # "pdf" /\ invoice # Nothing -> "cii-xml"
      [] OTHER -> "unknown"

(***************************************************************************)
(* The engine (engine/mustang.ts): a service that answers a report, or     *)
(* fails, is too late, or refuses the file                                 *)
(***************************************************************************)
EngineErrors ==
    {[code |-> c] : c \in {"unavailable", "timeout", "too_large", "bad_request", "engine_failure"}}

validate(answer) ==
    IF answer \in EngineErrors THEN [code |-> answer.code, report |-> Nothing]
    ELSE IF ~IsReport(answer) THEN [code |-> "engine_failure", report |-> Nothing]
    ELSE [code |-> "", report |-> parseMustangReport(answer)]

(***************************************************************************)
(* The verdict                                                             *)
(***************************************************************************)
Applies(f) == appliesInFrance(f.ruleset, f.ruleId)

\* Mutation: the summary of the report is taken at its word.
summaryVerdict(report) ==
    IF report = Nothing THEN "indetermine" ELSE IF report.valid THEN "conforme" ELSE "non-conforme"

countsOf(findings) ==
    LET count(S) == Len(filter(findings, LAMBDA f : f.severity \in S))
    IN [errors |-> count(Errors), warnings |-> count({"warning"}), notices |-> count({"notice"})]

verdictOf(report) ==
    IF report = Nothing THEN "indetermine"
    ELSE IF /\ report.valid
            /\ report.pdf # "invalid"
            /\ countsOf(filter(report.findings, Applies)).errors = 0
    THEN "conforme" ELSE "non-conforme"

\* Findings are ranked by severity, then French rules before the others.
SEVERITY_ORDER == [exception |-> 0, fatal |-> 1, error |-> 2, warning |-> 3, notice |-> 4]
rulesetRank(f) == CASE f.ruleset = "cius-fr" -> 0
                    [] f.ruleset = "facturx-en16931" -> 1
                    [] OTHER -> 2
compareFindings(f, g) ==
    \/ SEVERITY_ORDER[f.severity] < SEVERITY_ORDER[g.severity]
    \/ SEVERITY_ORDER[f.severity] = SEVERITY_ORDER[g.severity] /\ rulesetRank(f) < rulesetRank(g)

\* The sort keeps what does not compare in its order: each comes after as many as
\* come before it.  The order of the identifiers, which comes last, is left out.
sorted(findings) ==
    LET before(j, i) == \/ compareFindings(findings[j], findings[i])
                        \/ j < i /\ ~compareFindings(findings[i], findings[j])
        place(i) == Cardinality({j \in DOMAIN findings : before(j, i)}) + 1
    IN [k \in DOMAIN findings |-> findings[CHOOSE i \in DOMAIN findings : place(i) = k]]

\* MINIMUM and BASIC WL carry no lines: something is said of it.
profileNoteFor(profile) == profile # "none" /\ ~profileCarriesLines(profile)

joined(kind, pdf, invoice, parseError, engine) ==
    LET findings == IF engine.report = Nothing THEN <<>> ELSE engine.report.findings
    IN [kind |-> kind,
        validation |-> engine.report,
        engineError |-> engine.code,
        invoice |-> invoice,
        parseError |-> parseError,
        pdf |-> pdf,
        profile |-> IF invoice # Nothing THEN invoice.profile
                    ELSE IF engine.report # Nothing THEN engine.report.profile
                    ELSE "none",
        findings |-> sorted(filter(findings, Applies)),
        inapplicable |-> sorted(filter(findings, LAMBDA f : ~Applies(f))),
        counts |-> countsOf(filter(findings, Applies)),
        failedChecks |-> IF invoice = Nothing THEN {} ELSE checkArithmetic(invoice),
        suspectLines |-> IF invoice = Nothing THEN {} ELSE suspectLinesForLineTotal(invoice),
        verdict |-> verdictOf(engine.report)]

analyzeBytes(file, pdf, bytes, invoice, engine) ==
    joined(kindOf(file, bytes, invoice), pdf, invoice, parseErrorOf(file, pdf, bytes, invoice), engine)

analyzeExtracted(file, pdf, answer) ==
    LET bytes == ciiBytes(file, pdf)
    IN analyzeBytes(file, pdf, bytes, invoiceOf(bytes), validate(answer))

analyze(file, answer) == analyzeExtracted(file, extractFromPdf(file), answer)

(***************************************************************************)
(* What is shown (serialize.ts): amounts as text again, each finding with  *)
(* its explanation                                                         *)
(***************************************************************************)
amountDto(d) == IF IsKnown(d) THEN Format(d) ELSE NoElement

ShownTotals == {"lineTotalAmount", "taxBasisTotalAmount", "taxTotalAmount", "grandTotalAmount",
                "duePayableAmount"}

invoiceDto(invoice) ==
    [invoiceNumber |-> invoice.invoiceNumber, typeCode |-> invoice.typeCode,
     issueDate |-> invoice.issueDate, dueDate |-> invoice.dueDate, currency |-> invoice.currency,
     seller |-> invoice.seller, buyer |-> invoice.buyer,
     lines |-> [i \in DOMAIN invoice.lines |->
                  LET l == invoice.lines[i]
                  IN [id |-> l.id, name |-> l.name, quantity |-> amountDto(l.quantity),
                      unitPrice |-> amountDto(l.netUnitPrice), netAmount |-> amountDto(l.netAmount),
                      vatRatePercent |-> amountDto(l.vatRatePercent)]],
     taxBreakdown |-> [k \in DOMAIN invoice.taxBreakdown |->
                         LET tax == invoice.taxBreakdown[k]
                         IN [categoryCode |-> tax.categoryCode, ratePercent |-> amountDto(tax.ratePercent),
                             basisAmount |-> amountDto(tax.basisAmount),
                             calculatedAmount |-> amountDto(tax.calculatedAmount),
                             exemptionReason |-> tax.exemptionReason]],
     totals |-> [f \in ShownTotals |-> amountDto(invoice.totals[f])],
     notes |-> invoice.notes]

findingDto(f) ==
    [severity |-> f.severity, ruleId |-> f.ruleId, ruleset |-> f.ruleset,
     explanation |-> explainRule(f.ruleId)]

toAnalysisDto(result) ==
    [kind |-> result.kind, verdict |-> result.verdict, profile |-> result.profile,
     profileNote |-> profileNoteFor(result.profile), engineError |-> result.engineError,
     parseError |-> result.parseError,
     counts |-> result.counts,
     findings |-> [i \in DOMAIN result.findings |-> findingDto(result.findings[i])],
     inapplicable |-> [i \in DOMAIN result.inapplicable |-> findingDto(result.inapplicable[i])],
     invoice |-> IF result.invoice = Nothing THEN Nothing ELSE invoiceDto(result.invoice),
     failedChecks |-> result.failedChecks, suspectLines |-> result.suspectLines,
     warnings |-> IF result.pdf = Nothing THEN {} ELSE result.pdf.warnings]
=============================================================================

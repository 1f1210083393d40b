----------------------------- MODULE ResultPage ----------------------------
(***************************************************************************)
(* What the reader is given of an analysis: the page of the result         *)
(* (components/results) and the text report kept of it, which the browser  *)
(* makes of the same answer (lib/report.ts).  Each selects the findings    *)
(* for itself.                                                             *)
(***************************************************************************)
EXTENDS Analysis

Named(findings, severities) == filter(findings, LAMBDA f : f.severity \in severities)

(***************************************************************************)
(* The page                                                                *)
(***************************************************************************)
\* Identifiers given to what the engine says outside of any ruleset are not shown.
ShownRule(f) == IF f.ruleId.prefix \in EnginePatterns THEN NoRule ELSE f.ruleId

\* What explains the finding leads; its own message does where nothing explains it.
Lead(f) == IF f.explanation = "none" THEN "message" ELSE f.explanation

Badge(f) ==
    CASE f.severity \in {"exception", "fatal"} -> "Bloquant"
      [] f.severity = "error" -> "Erreur"
      [] f.severity = "warning" -> "Avertissement"
      [] OTHER -> "Info"

FindingCard(f) == [badge |-> Badge(f), ruleId |-> ShownRule(f), lead |-> Lead(f)]

FindingGroup(findings) == [i \in DOMAIN findings |-> FindingCard(findings[i])]

\* Mutation: an exception of the engine is in no group.
blockingReported(findings) == Named(findings, {"error", "fatal"})

blocking(findings) == Named(findings, {"error", "fatal", "exception"})

\* The panel is there as soon as an invoice was read: every check has a line, those
\* that could not be made among the passed ones.
ChecksPanel(result) ==
    IF result.invoice = Nothing THEN Nothing
    ELSE [allGood |-> result.failedChecks = {}, failing |-> result.failedChecks,
          pointedAt |-> result.suspectLines]

\* The totals the summary and the report state; that of the lines is in neither.
TotalsRead == {"taxBasisTotalAmount", "taxTotalAmount", "grandTotalAmount", "duePayableAmount"}

InvoiceSummary(invoice) ==
    [number |-> invoice.invoiceNumber, seller |-> invoice.seller, buyer |-> invoice.buyer,
     lines |-> [i \in DOMAIN invoice.lines |->
                  [quantity |-> invoice.lines[i].quantity, unitPrice |-> invoice.lines[i].unitPrice,
                   vatRatePercent |-> invoice.lines[i].vatRatePercent,
                   netAmount |-> invoice.lines[i].netAmount]],
     taxes |-> invoice.taxBreakdown,
     totals |-> [f \in TotalsRead |-> invoice.totals[f]],
     notes |-> invoice.notes]

\* A verdict the page has no words for would be shown as none.
VerdictBanner(result) ==
    [verdict |-> IF result.verdict \in {"conforme", "non-conforme"} THEN result.verdict
                 ELSE "indetermine",
     counts |-> result.counts]

ResultView(result) ==
    [banner |-> VerdictBanner(result),
     unread |-> result.parseError,
     unavailable |-> result.engineError # "",
     profileNote |-> result.profileNote,
     structure |-> result.warnings,
     checks |-> ChecksPanel(result),
     invoice |-> IF result.invoice = Nothing THEN Nothing ELSE InvoiceSummary(result.invoice),
     blocking |-> FindingGroup(blocking(result.findings)),
     warnings |-> FindingGroup(Named(result.findings, {"warning"})),
     notices |-> FindingGroup(Named(result.findings, {"notice"})),
     inapplicable |-> [i \in DOMAIN result.inapplicable |-> result.inapplicable[i].ruleId]]

(***************************************************************************)
(* The report                                                              *)
(***************************************************************************)
ReportGroups(findings) ==
    [blocking |-> Named(findings, {"error", "fatal", "exception"}),
     warnings |-> Named(findings, {"warning"}),
     notices  |-> Named(findings, {"notice"})]

Leads(findings) == [i \in DOMAIN findings |-> Lead(findings[i])]

\* The lines marked KO are those of the checks and of the VAT rates that failed.
buildTextReport(result) ==
    [verdict |-> result.verdict,
     counts |-> result.counts,
     unread |-> result.parseError,
     unavailable |-> result.engineError # "",
     totals |-> IF result.invoice = Nothing THEN Nothing
                ELSE [f \in TotalsRead |-> result.invoice.totals[f]],
     ko |-> result.failedChecks,
     pointedAt |-> result.suspectLines,
     groups |-> ReportGroups(result.findings),
     inapplicable |-> [i \in DOMAIN result.inapplicable |-> result.inapplicable[i].ruleId]]
=============================================================================

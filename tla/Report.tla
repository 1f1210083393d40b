------------------------------- MODULE Report ------------------------------
(***************************************************************************)
(* The report of the validation engine, Mustang, read into findings        *)
(* (engine/report.ts), and the French catalogue that explains them         *)
(* (rules/catalogue.fr.ts).  A message of the report is the record of what *)
(* the expressions of the code can find in it: the element it stands in,   *)
(* the stylesheet it came from, and the identifier each expression reads.  *)
(***************************************************************************)
EXTENDS Integers, SequencesExt, Selection

\* A rule identifier: its letters, its number, and its qualifier, if any.
RuleId(prefix, number) == [prefix |-> prefix, number |-> number, variant |-> ""]
NoRule == RuleId("", 0)

Errors == {"error", "fatal", "exception"}
SEVERITY_BY_ELEMENT == Errors \cup {"warning", "notice"}

\* Where an identifier may be read, in the order the code tries.
IdPlaces == <<"marker", "bracketed", "slashed", "bare", "criterion", "engine">>

Message(element, source, place, rule) ==
    [element |-> element, source |-> source, empty |-> FALSE,
     ids |-> [p \in ToSet(IdPlaces) |-> IF p = place THEN rule ELSE NoRule]]

\* What the engine says outside of any ruleset is given an identifier.
EnginePatterns == {"ENGINE-ARITHMETIC", "ENGINE-SCHEMA", "ENGINE-EXTRACTION", "ENGINE-PDFA"}

\* The qualifier of an identifier is kept beside it, and never compared.
extractRuleId(message) ==
    LET found == filter(IdPlaces, LAMBDA p : message.ids[p] # NoRule)
    IN IF found = <<>> THEN NoRule ELSE [message.ids[Head(found)] EXCEPT !.variant = ""]

\* startsWith: the decimals rules BR-DEC start like the German BR-DE.
StartsBR(rule) ==
    rule.prefix \in {"BR", "BR-CO", "BR-S", "BR-Z", "BR-E", "BR-AE", "BR-IC", "BR-G", "BR-O",
                     "BR-CL", "BR-FR", "BR-DE", "BR-DEC"}
StartsBRDE(rule) == rule.prefix \in {"BR-DE", "BR-DEC"}

classifyRuleset(source, rule) ==
    IF rule.prefix \in EnginePatterns THEN "engine"
    ELSE IF source = "XP_Z12" THEN "cius-fr"
    ELSE IF source = "XR_30" THEN "xrechnung-de"
    ELSE IF source = "ZF_250" THEN "facturx-en16931"
    ELSE IF rule.prefix = "BR-FR" THEN "cius-fr"
    ELSE IF StartsBRDE(rule) THEN "xrechnung-de"
    ELSE IF rule.prefix = "PEPPOL-EN16931-R" THEN "peppol"
    ELSE IF StartsBR(rule) \/ rule.prefix \in {"CII-SR", "CII-DT"} THEN "facturx-en16931"
    ELSE "other"

toFinding(message, part) ==
    [severity |-> message.element, part |-> part, ruleId |-> extractRuleId(message),
     ruleset |-> classifyRuleset(message.source, extractRuleId(message))]

\* A message with nothing left once its plumbing is removed is not a finding.
collectFindings(messages, part) ==
    LET said == filter(messages, LAMBDA m : m.element \in SEVERITY_BY_ELEMENT /\ ~m.empty)
    IN [i \in DOMAIN said |-> toFinding(said[i], part)]

(***************************************************************************)
(* The PDF/A verdict: text, with the failed assertions, each by its clause *)
(***************************************************************************)
MAX_PDFA_FINDINGS == 10
PdfaFinding == [severity |-> "error", part |-> "pdf", ruleId |-> RuleId("ENGINE-PDFA", 0),
                ruleset |-> "engine"]

\* One finding for each clause broken, up to the maximum; one when none can be
\* read; none when the text holds no verdict, or says the file complies.
parsePdfaFindings(pdf) ==
    LET clauses == Cardinality({a.clause : a \in {b \in pdf.assertions : b.status = "failed"}})
        count == IF clauses = 0 THEN 1
                 ELSE IF clauses > MAX_PDFA_FINDINGS THEN MAX_PDFA_FINDINGS ELSE clauses
    IN IF ~pdf.hasVerdict \/ pdf.compliant THEN <<>> ELSE [i \in 1..count |-> PdfaFinding]

\* A report that cannot be parsed, or has no validation element, is an error.
IsReport(raw) == raw.parses /\ raw.hasValidation

resolveProfile(raw) == IF raw \in {"MINIMUM", "BASIC_WL", "BASIC", "EN_16931", "EXTENDED"} THEN raw
                       ELSE IF raw = "COMFORT" THEN "EN_16931" ELSE "none"

parseMustangReport(raw) ==
    LET pdfPresent == raw.pdf.status # "absent"
        pdfa == IF pdfPresent /\ raw.pdf.status # "valid" THEN parsePdfaFindings(raw.pdf) ELSE <<>>
    IN [valid |-> raw.overall = "valid",
        pdf |-> IF pdfPresent /\ raw.pdf.status # "valid" THEN "invalid" ELSE raw.pdf.status,
        xml |-> IF raw.xml.status = "valid" \/ raw.overall = "valid" THEN "valid" ELSE "invalid",
        findings |-> collectFindings(raw.xml.messages, "xml")
                     \o collectFindings(raw.pdf.messages, "pdf")
                     \o collectFindings(raw.messages, "general") \o pdfa,
        profile |-> resolveProfile(raw.profile)]

(***************************************************************************)
(* The catalogue: rules with an entry of their own, then families          *)
(***************************************************************************)
Entries(prefix, numbers) == {RuleId(prefix, n) : n \in numbers}

MANDATORY == Entries("BR", 1..16)
ARITHMETIC == Entries("BR-CO", {3} \cup 10..18 \cup {25})
VAT_RULES == Entries("BR-S", {1, 8, 9}) \cup Entries("BR-E", {1, 10}) \cup Entries("BR-AE", {1, 10})
             \cup Entries("BR-Z", {1}) \cup Entries("BR-IC", {11, 12}) \cup Entries("BR-G", {1})
             \cup Entries("BR-O", {1})
CODE_LISTS == Entries("BR-CL", {1, 3, 10, 14, 17, 21, 23})
FRENCH == Entries("BR-FR", {5, 8, 12, 13})
PEPPOL == Entries("PEPPOL-EN16931-R", {1, 8, 10, 20})
ENGINE == {RuleId(p, 0) : p \in EnginePatterns}

CATALOGUE == MANDATORY \cup ARITHMETIC \cup VAT_RULES \cup CODE_LISTS \cup FRENCH \cup PEPPOL \cup ENGINE

FAMILY_FALLBACKS ==
    {"BR-DE", "BR-FR", "BR-CL", "BR-CO", "BR-S", "BR-Z", "BR-E", "BR-AE", "BR-G", "BR-IC", "BR-O",
     "BR", "CII-SR", "CII-DT", "PEPPOL-EN16931-R"}

\* What explains a rule: its entry, its family, or nothing.
explainRule(rule) ==
    IF rule \in CATALOGUE THEN "entry"
    ELSE IF rule.prefix \in FAMILY_FALLBACKS THEN "family"
    ELSE "none"

\* The German family alone is marked as having no bearing on a French invoice.
appliesInFrance(ruleset, rule) == ruleset # "xrechnung-de" /\ rule.prefix # "BR-DE"
=============================================================================

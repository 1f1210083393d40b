---------------------------- MODULE MCDocuments ----------------------------
(***************************************************************************)
(* Drafts that vary, one or two at a time, what the checks tell apart, and *)
(* reports with the messages the engine is known to send.                  *)
(***************************************************************************)
EXTENDS Documents

siren == <<7, 3, 2, 8, 2, 9, 3, 2, 0>>
siret == siren \o <<0, 0, 0, 7, 4>>
otherSiren == <<4, 0, 4, 8, 3, 3, 0, 4, 8>>
laPoste == <<3, 5, 6, 0, 0, 0, 0, 0, 0, 0, 0, 0, 1, 5>>
iban == <<15, 27, 1, 4, 2, 0, 0, 4, 1, 0, 1, 0, 0, 5, 0, 5, 0, 0, 0, 1, 3, 22, 0, 2, 6, 0, 6>>
vat(t) == vatNumberFromSiren(t)

seller == DraftParty("seller", "FR", siret, NoId, NoId)
buyer == DraftParty("buyer", "FR", siret, otherSiren, NoId)
base ==
    [invoiceNumber |-> "F1", typeCode |-> Absent, issueDate |-> 20260131, dueDate |-> 20260228,
     deliveryDate |-> NoDate, deliveryCountryCode |-> Absent, currency |-> Absent,
     buyerReference |-> Absent, purchaseOrderReference |-> Absent, seller |-> seller,
     buyer |-> buyer, lines |-> <<>>, paymentMeansCode |-> Absent, iban |-> NoId,
     paymentTerms |-> Absent, prepaidAmount |-> NoAmount, notes |-> <<>>]

\* Rates typed in several ways, prices of a fraction of a cent, quantities that
\* are taken back.
quantities == {Dec(1, 0), Dec(3, 0), Dec(-1, 0)}
prices == {Dec(10005, 3), Dec(3333, 4), Dec(25, 2)}
rated == {<<"S", Dec(20, 0), Absent>>, <<"S", Dec(2000, 2), Absent>>, <<"S", Dec(55, 1), Absent>>,
          <<"E", Zero, "exempt">>, <<"E", Dec(0, 2), "other">>, <<"AE", Zero, "reverse">>,
          <<"K", Zero, "intra">>, <<"Z", Zero, Absent>>}
oddlyRated == {<<"S", Zero, Absent>>, <<"Z", Dec(20, 0), Absent>>, <<"Z", Zero, "stray">>,
               <<"E", Zero, Absent>>, <<"G", Dec(10, 0), "export">>, <<"O", Zero, Absent>>,
               <<"S", Unreadable, Absent>>}
line(q, p, v) == DraftLine(q, p, v[1], v[2], v[3])
plain == line(Dec(3, 0), Dec(10005, 3), <<"S", Dec(20, 0), Absent>>)
lines == {line(q, p, v) : q \in quantities, p \in prices, v \in rated}
oddLines == {line(Dec(1, 0), Dec(25, 2), v) : v \in oddlyRated}
            \cup {[plain EXCEPT !.name = "long", !.description = "long"], [plain EXCEPT !.name = " "],
                  [plain EXCEPT !.unitPrice = Unreadable], [plain EXCEPT !.quantity = Zero]}

withLines(ls) == [base EXCEPT !.lines = ls]
manyLines(l, n) == withLines([i \in 1..n |-> l])
\* A sheet filled to its end, with two reasons to state under the totals.
crowded ==
    withLines([i \in 1..15 |->
                 CASE i = 1 -> line(Dec(1, 0), Dec(25, 2), <<"E", Zero, "exempt">>)
                   [] i = 2 -> line(Dec(1, 0), Dec(25, 2), <<"AE", Zero, "reverse">>)
                   [] OTHER -> [plain EXCEPT !.description = "short"]])
someLines == {line(Dec(1, 0), p, v) : p \in prices, v \in rated}

withHeader ==
    LET one == withLines(<<plain>>)
    IN {[one EXCEPT !.invoiceNumber = t] : t \in {"", " "}}
       \cup {[one EXCEPT !.issueDate = d, !.dueDate = e] :
               d \in {NoDate, BadDate, 20260229, 20240229}, e \in {NoDate, 20250101, 20260301}}
       \cup {[one EXCEPT !.dueDate = NoDate, !.paymentTerms = t, !.prepaidAmount = p] :
               t \in {Absent, "30 days"}, p \in {NoAmount, Zero, Dec(3602, 2), Dec(50, 0), Unreadable}}
       \cup {[one EXCEPT !.paymentMeansCode = m, !.iban = t] :
               m \in {Absent, "1", "30", "58"},
               t \in {NoId, <<>>, iban, <<Separator>> \o iban, [iban EXCEPT ![3] = 2]}}
       \cup {[one EXCEPT !.currency = t, !.typeCode = c] : t \in {"EUR", "euro"}, c \in {"381", "999"}}
       \cup {[withLines(<<line(Dec(1, 0), Dec(10, 0), <<"K", Zero, "intra">>)>>)
                EXCEPT !.deliveryCountryCode = t] : t \in {Absent, " ", "DE"}}

parties ==
    {DraftParty("party", c, t, s, v) :
       c \in {"FR", "DE"}, t \in {NoId, siret, laPoste, [siret EXCEPT ![9] = 1]},
       s \in {NoId, siren, otherSiren, [siren EXCEPT ![1] = 0]},
       v \in {NoId, <<>>, vat(siren), vat(otherSiren), [vat(siren) EXCEPT ![4] = 5], <<13, 14, 1, 2, 3>>}}
    \cup {DraftParty(n, c, siret, NoId, NoId) : n \in {"", " ", "party"}, c \in {"FRA", ""}}

MCDrafts ==
    {base} \cup {withLines(<<l>>) : l \in lines \cup oddLines}
    \cup {withLines(<<l, m>>) : l \in someLines, m \in someLines}
    \cup {withLines(<<l, [l EXCEPT !.quantity = Dec(-1, 0)]>>) : l \in someLines}
    \cup {withLines(<<plain, l, [plain EXCEPT !.name = "long"]>>) : l \in lines \cup oddLines}
    \cup {[manyLines(plain, 40) EXCEPT !.notes = <<"note", "note">>]}
    \cup {[crowded EXCEPT !.iban = iban, !.paymentTerms = "30 days", !.notes = <<"note">>]}
    \cup {manyLines([plain EXCEPT !.description = t], n) : t \in {Absent, "short", "long"}, n \in {14, 30}}
    \cup withHeader
    \cup {[withLines(<<plain>>) EXCEPT !.seller = p] : p \in parties}
    \cup {[withLines(<<plain>>) EXCEPT !.buyer = p] : p \in parties}

(***************************************************************************)
(* Reports                                                                 *)
(***************************************************************************)
messages ==
    {Message("error", "ZF_250", "bracketed", RuleId("BR-CO", 10)),
     Message("error", "XP_Z12", "marker", [RuleId("BR-FR", 5) EXCEPT !.variant = "PMT"]),
     Message("error", "XR_30", "marker", RuleId("BR-DE", 15)),
     Message("error", "XR_30", "marker", RuleId("PEPPOL-EN16931-R", 20)),
     Message("error", "ZF_250", "marker", RuleId("BR-DEC", 2)),
     Message("warning", "", "criterion", RuleId("BR-DE", 1)),
     Message("fatal", "", "bare", RuleId("BR-S", 8)),
     Message("exception", "", "engine", RuleId("ENGINE-SCHEMA", 0)),
     Message("notice", "XP_Z12", "slashed", RuleId("BR-FR", 12)),
     Message("echo", "", "bare", RuleId("BR", 2)),
     [Message("error", "", "engine", NoRule) EXCEPT !.empty = TRUE]}

pdfs(said) ==
    {[status |-> s, messages |-> said, hasVerdict |-> v, compliant |-> c, assertions |-> a] :
       s \in {"absent", "valid", "invalid"}, v \in BOOLEAN, c \in BOOLEAN,
       a \in {{}, {[clause |-> i, status |-> "failed"] : i \in 1..12}}}

report(overall, xml, said, pdf, general) ==
    [parses |-> TRUE, hasValidation |-> TRUE, overall |-> overall,
     xml |-> [status |-> xml, messages |-> said], pdf |-> pdf, messages |-> general,
     profile |-> "urn"]

statuses == {"valid", "invalid"}
clean == CHOOSE p \in pdfs(<<>>) : p.status = "valid" /\ p.compliant
reports(said) ==
    {report(o, x, ms, clean, <<>>) : o \in statuses, x \in statuses,
        ms \in {<<>>} \cup {<<m>> : m \in said} \cup {<<m, n>> : m, n \in said}}
    \cup {report(o, "valid", <<>>, p, g) : o \in statuses, p \in pdfs(<<>>), g \in {<<>>} \cup {<<m>> : m \in said}}
    \cup {report("valid", "valid", <<>>, p, <<>>) : p \in UNION {pdfs(<<m>>) : m \in said}}
    \cup {[report("valid", "valid", <<>>, clean, <<>>) EXCEPT !.parses = b, !.hasValidation = ~b] : b \in BOOLEAN}

sample == LET d == withLines(<<plain>>) IN serialiseCii(d, computeInvoice(d))
bare == [PdfOf(sample) EXCEPT !.attachments = <<>>]
files ==
    {PdfOf(sample), PdfOf(Garbled), bare, [bare EXCEPT !.opens = FALSE],
     [bare EXCEPT !.attachments = <<Attachment("other.xml", sample, "Source"),
                                    Attachment("cii.xml", Garbled, "Data")>>],
     [bare EXCEPT !.form = "cii", !.content = sample], [bare EXCEPT !.form = "cii", !.content = Garbled],
     [bare EXCEPT !.form = "other"]}

uploads(said) ==
    {[file |-> PdfOf(sample), answer |-> a] : a \in reports(said)}
    \cup {[file |-> f, answer |-> a] :
            f \in files, a \in EngineErrors \cup {report("invalid", "invalid", <<m>>, clean, <<>>) : m \in said}}

MCUploads == uploads(messages)

(***************************************************************************)
(* The form                                                                *)
(***************************************************************************)
\* A transfer with its account and one without; cash due at no stated date, and a
\* credit note to a buyer abroad.
filled == [base EXCEPT !.typeCode = "380", !.currency = "EUR", !.paymentMeansCode = "30", !.iban = iban]

MCHeaders ==
    {filled, [filled EXCEPT !.iban = NoId],
     [filled EXCEPT !.paymentMeansCode = "10", !.iban = NoId, !.dueDate = NoDate],
     [filled EXCEPT !.typeCode = "381", !.buyer = DraftParty("buyer", "BE", NoId, NoId, NoId)]}

type(field, typed) == [field |-> field, text |-> typed]

MCPatches ==
    {type("name", "item"), type("quantity", Typed(Dec(3, 0), FALSE)),
     type("unitPrice", Typed(Dec(10005, 3), FALSE)), type("unitPrice", Typed(Dec(45000, 2), TRUE)),
     type("vatRatePercent", Typed(Dec(55, 1), FALSE)), type("exemptionReason", "exempt")}
    \cup {type("vatCategory", c) : c \in {"S", "E", "Z"}}

MCPrepaidTexts == {Typed(Dec(2, 0), FALSE), Typed(Dec(200, 2), TRUE)}
=============================================================================

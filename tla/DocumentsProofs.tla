--------------------------- MODULE DocumentsProofs ---------------------------
(***************************************************************************)
(* Proofs about documents, for every draft, form, file and answer of the   *)
(* engine.                                                                 *)
(***************************************************************************)
EXTENDS Documents, FoldLemmas

---------------------------------------------------------------------------
(* The verdict *)

(* A message that states a rule of decimals names the stylesheet it came from: *)
(* by its name alone, the code takes such a rule for a German one.             *)
DecimalsAreSourced(s) ==
  \A i \in DOMAIN s :
    (\E p \in DOMAIN s[i].ids : s[i].ids[p].prefix = "BR-DEC")
       => s[i].source \in {"XP_Z12", "XR_30", "ZF_250"}

UploadsNameStylesheets ==
  \A u \in Uploads :
    u.answer \notin EngineErrors =>
      \A s \in {u.answer.xml.messages, u.answer.pdf.messages, u.answer.messages} :
        DecimalsAreSourced(s)

SaidOfParts(a) == {a.xml.messages, a.pdf.messages, a.messages}

AnswerFits(a) ==
  a \notin EngineErrors =>
    /\ \A s \in SaidOfParts(a) : s \in Seq(EngineMessages)
    /\ IsFiniteSet(a.pdf.assertions)

AnswerIsSourced(a) ==
  a \notin EngineErrors => \A s \in SaidOfParts(a) : DecimalsAreSourced(s)

(* What is made of an answer does not depend on the file. *)
LEMMA VerdictRead ==
  ASSUME NEW file, NEW a
  PROVE  toAnalysisDto(analyze(file, a)).verdict = verdictOf(validate(a).report)
BY DEF toAnalysisDto, analyze, analyzeExtracted, analyzeBytes, joined

(* The rule read in a message is one of those the message states. *)
LEMMA RuleRead ==
  ASSUME NEW m \in EngineMessages
  PROVE  \/ extractRuleId(m) = NoRule
         \/ \E p \in DOMAIN m.ids : extractRuleId(m).prefix = m.ids[p].prefix
<1> DEFINE I == {k \in DOMAIN IdPlaces : m.ids[IdPlaces[k]] # NoRule}
           found == Selected(IdPlaces, I)
<1>1. IdPlaces \in Seq(ToSet(IdPlaces))
  <2>1. IdPlaces = [k \in 1..6 |-> IdPlaces[k]]
    BY DEF IdPlaces
  <2>2. \A k \in 1..6 : IdPlaces[k] \in ToSet(IdPlaces)
    BY <2>1 DEF ToSet
  <2>3. IdPlaces \in [1..6 -> ToSet(IdPlaces)]
    BY <2>1, <2>2
  <2> QED BY <2>3, SeqDef
<1>2. found \in Seq(ToSet(IdPlaces))
  BY <1>1, SelectedElements
<1>3. extractRuleId(m) = IF found = <<>> THEN NoRule ELSE [m.ids[Head(found)] EXCEPT !.variant = ""]
  BY DEF extractRuleId, filter
<1> HIDE DEF found
<1>4. ASSUME found # <<>> PROVE extractRuleId(m).prefix = m.ids[Head(found)].prefix /\ Head(found) \in DOMAIN m.ids
  <2>1. Head(found) \in ToSet(IdPlaces)
    BY <1>2, <1>4, HeadTailProperties
  <2>2. /\ DOMAIN m.ids = ToSet(IdPlaces)
        /\ m.ids[Head(found)] \in EngineRules
    BY <2>1 DEF EngineMessages
  <2>3. \A r \in EngineRules :
          [r EXCEPT !.variant = ""].prefix = r.prefix
    OBVIOUS
  <2>4. [m.ids[Head(found)] EXCEPT !.variant = ""].prefix = m.ids[Head(found)].prefix
    BY <2>2, <2>3, Zenon
  <2>5. extractRuleId(m) = [m.ids[Head(found)] EXCEPT !.variant = ""]
    BY <1>3, <1>4, Zenon
  <2> QED BY <2>1, <2>2, <2>4, <2>5, Zenon
<1> QED BY <1>3, <1>4

(* What the code leaves out as having no bearing in France is of the German rules. *)
LEMMA LeftOutIsGerman ==
  ASSUME NEW m \in EngineMessages, NEW part, ~Applies(toFinding(m, part)),
         (\E p \in DOMAIN m.ids : m.ids[p].prefix = "BR-DEC")
            => m.source \in {"XP_Z12", "XR_30", "ZF_250"}
  PROVE  IsGerman(m)
<1> DEFINE rule == extractRuleId(m)
<1>1. rule = NoRule \/ \E p \in DOMAIN m.ids : rule.prefix = m.ids[p].prefix
  BY RuleRead
<1>2. classifyRuleset(m.source, rule) = "xrechnung-de" \/ rule.prefix = "BR-DE"
  BY DEF Applies, appliesInFrance, toFinding
<1> HIDE DEF rule
<1>3. NoRule.prefix = ""
  BY DEF NoRule, RuleId
<1>4. CASE rule.prefix = "BR-DE"
  <2>1. \E p \in DOMAIN m.ids : m.ids[p].prefix = "BR-DE"
    BY <1>1, <1>3, <1>4
  <2> QED BY <2>1 DEF IsGerman
<1>5. CASE classifyRuleset(m.source, rule) = "xrechnung-de"
  <2>1. m.source = "XR_30" \/ (StartsBRDE(rule) /\ m.source \notin {"XP_Z12", "XR_30", "ZF_250"})
    BY <1>5 DEF classifyRuleset
  <2>2. CASE m.source = "XR_30"
    BY <2>2 DEF IsGerman
  <2>3. CASE StartsBRDE(rule) /\ m.source \notin {"XP_Z12", "XR_30", "ZF_250"}
    <3>1. rule.prefix \in {"BR-DE", "BR-DEC"}
      BY <2>3 DEF StartsBRDE
    <3>2. rule.prefix # "BR-DEC"
      BY <1>1, <1>3, <2>3, <3>1
    <3> QED BY <1>4, <3>1, <3>2
  <2> QED BY <2>1, <2>2, <2>3
<1> QED BY <1>2, <1>4, <1>5

Parts == {"xml", "pdf", "general"}

Said == {m \in EngineMessages : m.element \in SEVERITY_BY_ELEMENT}

Findings == {toFinding(m, part) : m \in Said, part \in Parts} \cup {PdfaFinding}

(* Every message that says something is a finding. *)
LEMMA Collected ==
  ASSUME NEW s \in Seq(EngineMessages), NEW part \in Parts
  PROVE  /\ collectFindings(s, part) \in Seq(Findings)
         /\ \A i \in DOMAIN s :
              s[i].element \in SEVERITY_BY_ELEMENT /\ ~s[i].empty =>
                \E k \in 1..Len(collectFindings(s, part)) :
                  collectFindings(s, part)[k] = toFinding(s[i], part)
<1> DEFINE I == {i \in DOMAIN s : s[i].element \in SEVERITY_BY_ELEMENT /\ ~s[i].empty}
           said == filter(s, LAMBDA m : m.element \in SEVERITY_BY_ELEMENT /\ ~m.empty)
           found == collectFindings(s, part)
<1>1. found = [i \in DOMAIN said |-> toFinding(said[i], part)]
  BY DEF collectFindings
<1>0. said = Selected(s, I)
  BY DEF filter
<1>2. /\ said \in Seq(EngineMessages)
      /\ \A i \in (1..Len(s)) \cap I : \E k \in 1..Len(said) : said[k] = s[i]
      /\ \A k \in 1..Len(said) : \E i \in (1..Len(s)) \cap I : said[k] = s[i]
  <2> HIDE DEF said, I
  <2>1. /\ Selected(s, I) \in Seq(EngineMessages)
        /\ \A k \in 1..Len(Selected(s, I)) :
             \E i \in (1..Len(s)) \cap I : Selected(s, I)[k] = s[i]
        /\ \A i \in (1..Len(s)) \cap I :
             \E k \in 1..Len(Selected(s, I)) : Selected(s, I)[k] = s[i]
    BY ONLY s \in Seq(EngineMessages), SelectedElements
  <2> QED BY <1>0, <2>1
<1>3. DOMAIN s = 1..Len(s)
  BY LenProperties
<1>4. \A i \in DOMAIN s :
        s[i].element \in SEVERITY_BY_ELEMENT /\ ~s[i].empty => i \in (1..Len(s)) \cap I
  BY <1>3
<1>10. \A i \in (1..Len(s)) \cap I : s[i].element \in SEVERITY_BY_ELEMENT
  BY <1>3
<1> HIDE DEF said, found, I
<1>5. /\ Len(said) \in Nat /\ DOMAIN said = 1..Len(said)
      /\ \A k \in 1..Len(said) : said[k] \in Said
  BY <1>2, <1>10, LenProperties, ElementOfSeq DEF Said
<1>6. found \in [1..Len(said) -> Findings]
  BY <1>1, <1>5 DEF Findings
<1>7. found \in Seq(Findings)
  BY <1>5, <1>6, SeqDef
<1>8. Len(found) = Len(said)
  <2>1. Len(found) \in Nat /\ DOMAIN found = 1..Len(found) /\ DOMAIN found = 1..Len(said)
    BY <1>6, <1>7, LenProperties
  <2> QED BY <1>5, <2>1, SameLength
<1>9. \A i \in DOMAIN s :
        s[i].element \in SEVERITY_BY_ELEMENT /\ ~s[i].empty =>
          \E k \in 1..Len(found) : found[k] = toFinding(s[i], part)
  <2> SUFFICES ASSUME NEW i \in DOMAIN s, s[i].element \in SEVERITY_BY_ELEMENT /\ ~s[i].empty
               PROVE  \E k \in 1..Len(found) : found[k] = toFinding(s[i], part)
    OBVIOUS
  <2>1. PICK k \in 1..Len(said) : said[k] = s[i]
    BY <1>2, <1>4
  <2>2. found[k] = toFinding(s[i], part)
    BY <1>1, <1>5, <2>1
  <2> QED BY <1>8, <2>2
<1> QED BY <1>7, <1>9 DEF found

LEMMA PdfaCollected ==
  ASSUME NEW pdf, IsFiniteSet(pdf.assertions)
  PROVE  parsePdfaFindings(pdf) \in Seq(Findings)
<1> DEFINE A == {b \in pdf.assertions : b.status = "failed"}
           clauses == Cardinality({a.clause : a \in A})
           count == IF clauses = 0 THEN 1
                    ELSE IF clauses > MAX_PDFA_FINDINGS THEN MAX_PDFA_FINDINGS ELSE clauses
<1>1. IsFiniteSet(A)
  BY FS_Subset
<1>2. IsFiniteSet({a.clause : a \in A})
  <2> DEFINE f == [a \in A |-> a.clause]
  <2>1. {a.clause : a \in A} = {f[a] : a \in A}
    OBVIOUS
  <2> HIDE DEF A, f
  <2>2. IsFiniteSet({f[a] : a \in A})
    BY ONLY <1>1, FiniteImage
  <2> QED BY ONLY <2>1, <2>2
<1>3. clauses \in Nat
  BY <1>2, FS_CardinalityType
<1>4. parsePdfaFindings(pdf) =
        IF ~pdf.hasVerdict \/ pdf.compliant THEN <<>> ELSE [i \in 1..count |-> PdfaFinding]
  BY DEF parsePdfaFindings
<1>5. count \in Nat
  <2> HIDE DEF clauses
  <2> QED BY <1>3 DEF MAX_PDFA_FINDINGS
<1> HIDE DEF count
<1>6. [i \in 1..count |-> PdfaFinding] \in [1..count -> Findings]
  BY DEF Findings
<1>7. [i \in 1..count |-> PdfaFinding] \in Seq(Findings)
  BY <1>5, <1>6, SeqDef
<1>8. <<>> \in Seq(Findings)
  BY EmptySeq
<1> QED BY <1>4, <1>7, <1>8

LEMMA EveryPartCollected ==
  ASSUME NEW a, a \notin EngineErrors, AnswerFits(a)
  PROVE  /\ parseMustangReport(a).findings \in Seq(Findings)
         /\ \A s \in SaidOfParts(a) : \A i \in DOMAIN s :
              s[i].element \in SEVERITY_BY_ELEMENT /\ ~s[i].empty =>
                \E k \in 1..Len(parseMustangReport(a).findings), part \in Parts :
                  parseMustangReport(a).findings[k] = toFinding(s[i], part)
<1> DEFINE x == collectFindings(a.xml.messages, "xml")
           p == collectFindings(a.pdf.messages, "pdf")
           g == collectFindings(a.messages, "general")
           d == IF a.pdf.status # "absent" /\ a.pdf.status # "valid"
                THEN parsePdfaFindings(a.pdf) ELSE <<>>
           all == parseMustangReport(a).findings
<1>1. all = ((x \o p) \o g) \o d
  BY DEF parseMustangReport
<1>2. /\ a.xml.messages \in Seq(EngineMessages) /\ a.pdf.messages \in Seq(EngineMessages)
      /\ a.messages \in Seq(EngineMessages) /\ IsFiniteSet(a.pdf.assertions)
  BY DEF AnswerFits, SaidOfParts
<1>3. {"xml", "pdf", "general"} = Parts
  BY DEF Parts
<1>4. x \in Seq(Findings) /\ p \in Seq(Findings) /\ g \in Seq(Findings)
  BY <1>2, <1>3, Collected
<1>5. d \in Seq(Findings)
  BY <1>2, PdfaCollected, EmptySeq
<1>6. /\ \A i \in DOMAIN a.xml.messages :
           a.xml.messages[i].element \in SEVERITY_BY_ELEMENT /\ ~a.xml.messages[i].empty =>
             \E k \in 1..Len(x) : x[k] = toFinding(a.xml.messages[i], "xml")
      /\ \A i \in DOMAIN a.pdf.messages :
           a.pdf.messages[i].element \in SEVERITY_BY_ELEMENT /\ ~a.pdf.messages[i].empty =>
             \E k \in 1..Len(p) : p[k] = toFinding(a.pdf.messages[i], "pdf")
      /\ \A i \in DOMAIN a.messages :
           a.messages[i].element \in SEVERITY_BY_ELEMENT /\ ~a.messages[i].empty =>
             \E k \in 1..Len(g) : g[k] = toFinding(a.messages[i], "general")
  BY <1>2, <1>3, Collected
<1> HIDE DEF x, p, g, d, all
<1> DEFINE xp == x \o p
           xpg == xp \o g
<1>7. xp = x \o p /\ xpg = xp \o g
  OBVIOUS
<1> HIDE DEF xp, xpg
<1>8. xp \in Seq(Findings) /\ Within(x, xp) /\ Within(p, xp)
  <2>1. x \in Seq(Findings) /\ p \in Seq(Findings) /\ xp = x \o p
    BY <1>4, <1>7
  <2> QED BY <2>1, JoinedAs
<1>9. xpg \in Seq(Findings) /\ Within(xp, xpg) /\ Within(g, xpg)
  <2>1. xp \in Seq(Findings) /\ g \in Seq(Findings) /\ xpg = xp \o g
    BY <1>4, <1>7, <1>8
  <2> QED BY <2>1, JoinedAs
<1>10. all \in Seq(Findings) /\ Within(xpg, all)
  <2>1. xpg \in Seq(Findings) /\ d \in Seq(Findings) /\ all = xpg \o d
    BY <1>1, <1>5, <1>7, <1>9
  <2> QED BY <2>1, JoinedAs
<1>11. /\ \A k \in 1..Len(x) : \E j \in 1..Len(all) : all[j] = x[k]
       /\ \A k \in 1..Len(p) : \E j \in 1..Len(all) : all[j] = p[k]
       /\ \A k \in 1..Len(g) : \E j \in 1..Len(all) : all[j] = g[k]
  <2>1. Within(xp, all) /\ Within(g, all)
    BY <1>9, <1>10, WithinFurther
  <2>2. Within(x, all) /\ Within(p, all)
    BY <1>8, <2>1, WithinFurther
  <2> QED BY <2>1, <2>2 DEF Within
<1>12. ASSUME NEW s \in SaidOfParts(a), NEW i \in DOMAIN s,
              s[i].element \in SEVERITY_BY_ELEMENT /\ ~s[i].empty
       PROVE  \E k \in 1..Len(all), part \in Parts : all[k] = toFinding(s[i], part)
  <2>1. CASE s = a.xml.messages
    <3>1. PICK k \in 1..Len(x) : x[k] = toFinding(s[i], "xml")
      BY <1>6, <1>12, <2>1
    <3> QED BY <1>3, <1>11, <3>1
  <2>2. CASE s = a.pdf.messages
    <3>1. PICK k \in 1..Len(p) : p[k] = toFinding(s[i], "pdf")
      BY <1>6, <1>12, <2>2
    <3> QED BY <1>3, <1>11, <3>1
  <2>3. CASE s = a.messages
    <3>1. PICK k \in 1..Len(g) : g[k] = toFinding(s[i], "general")
      BY <1>6, <1>12, <2>3
    <3> QED BY <1>3, <1>11, <3>1
  <2> QED BY <2>1, <2>2, <2>3 DEF SaidOfParts
<1> QED BY <1>10, <1>12 DEF all

(* Where no error is counted among what applies, no error applies. *)
LEMMA NoneApplies ==
  ASSUME NEW all \in Seq(Findings), countsOf(filter(all, Applies)).errors = 0,
         NEW k \in 1..Len(all), all[k].severity \in Errors
  PROVE  ~Applies(all[k])
<1> DEFINE I == {i \in DOMAIN all : Applies(all[i])}
           kept == Selected(all, I)
           J == {i \in DOMAIN kept : kept[i].severity \in Errors}
           errors == Selected(kept, J)
<1>1. filter(all, Applies) = kept
  BY DEF filter
<1>2. Len(errors) = 0
  BY <1>1 DEF countsOf, filter
<1> SUFFICES ASSUME Applies(all[k]) PROVE FALSE
  OBVIOUS
<1>3. k \in (1..Len(all)) \cap I
  BY LenProperties
<1>4. kept \in Seq(Findings) /\ \E j \in 1..Len(kept) : kept[j] = all[k]
  <2> HIDE DEF I
  <2> QED BY <1>3, SelectedElements
<1>5. PICK j \in 1..Len(kept) : kept[j] = all[k]
  BY <1>4
<1> HIDE DEF kept, I
<1>6. j \in (1..Len(kept)) \cap J
  BY <1>4, <1>5, LenProperties
<1>7. \E l \in 1..Len(errors) : errors[l] = kept[j]
  <2> HIDE DEF J
  <2> QED BY <1>4, <1>6, SelectedElements
<1> HIDE DEF errors
<1> QED BY <1>2, <1>7

LEMMA ConformsOnly ==
  ASSUME NEW a, AnswerFits(a), AnswerIsSourced(a), verdictOf(validate(a).report) = "conforme"
  PROVE  /\ a \notin EngineErrors
         /\ a.overall = "valid"
         /\ a.pdf.status \in {"absent", "valid"}
         /\ \A s \in SaidOfParts(a) :
              \A i \in DOMAIN s : s[i].element \in Errors /\ ~s[i].empty => IsGerman(s[i])
<1> DEFINE report == validate(a).report
           read == parseMustangReport(a)
<1>1. report # Nothing
  BY DEF verdictOf
<1>2. a \notin EngineErrors /\ report = read
  BY <1>1 DEF validate
<1>3. read.valid /\ read.pdf # "invalid" /\ countsOf(filter(read.findings, Applies)).errors = 0
  BY <1>1, <1>2 DEF verdictOf
<1>4. a.overall = "valid" /\ a.pdf.status \in {"absent", "valid"}
  BY <1>3 DEF parseMustangReport
<1> DEFINE all == read.findings
<1>5. /\ all \in Seq(Findings)
      /\ \A s \in SaidOfParts(a) : \A i \in DOMAIN s :
           s[i].element \in SEVERITY_BY_ELEMENT /\ ~s[i].empty =>
             \E k \in 1..Len(all), part \in Parts : all[k] = toFinding(s[i], part)
  BY <1>2, EveryPartCollected
<1>6. countsOf(filter(all, Applies)).errors = 0
  BY <1>3
<1> HIDE DEF all
<1>7. ASSUME NEW s \in SaidOfParts(a), NEW i \in DOMAIN s, s[i].element \in Errors, ~s[i].empty
      PROVE  IsGerman(s[i])
  <2>1. PICK k \in 1..Len(all), part \in Parts : all[k] = toFinding(s[i], part)
    BY <1>5, <1>7 DEF SEVERITY_BY_ELEMENT
  <2>2. all[k].severity \in Errors
    BY <1>7, <2>1 DEF toFinding
  <2>3. ~Applies(all[k])
    BY <1>5, <1>6, <2>2, NoneApplies
  <2>4. s \in Seq(EngineMessages) /\ DecimalsAreSourced(s)
    BY <1>2, <1>7 DEF AnswerFits, AnswerIsSourced
  <2>5. s[i] \in EngineMessages
    BY <1>7, <2>4, LenProperties, ElementOfSeq
  <2>6. (\E p \in DOMAIN s[i].ids : s[i].ids[p].prefix = "BR-DEC")
           => s[i].source \in {"XP_Z12", "XR_30", "ZF_250"}
    BY <1>7, <2>4 DEF DecimalsAreSourced
  <2> QED BY <2>1, <2>3, <2>5, <2>6, LeftOutIsGerman
<1> QED BY <1>2, <1>4, <1>7

LEMMA RuleIdsAreRules ==
  ASSUME NEW prefix \in Words, NEW number \in Nat
  PROVE  RuleId(prefix, number) \in EngineRules
BY DEF RuleId, EngineRules, Words

LEMMA OwnReportFits ==
  ASSUME NEW doc
  PROVE  AnswerFits(ReportOn(doc)) /\ AnswerIsSourced(ReportOn(doc))
<1> DEFINE broken == Cardinality(BrokenRules(doc))
           said == [i \in 1..broken |-> Message("error", "ZF_250", "bracketed", RuleId("BR", i))]
<1>1. IsFiniteSet(BrokenRules(doc))
  <2> DEFINE A == {"BR-CO-10", "BR-CO-13", "BR-CO-14", "BR-CO-15", "BR-CO-16", "BR-CO-17"}
             B == {"BR-02", "BR-03", "BR-16", "BR-06", "BR-07", "BR-25"}
             C == {"BR-FR-01", "BR-IC-12", "BR-CO-25", "BR-CO-27", "groups", "categories"}
  <2>1. BrokenRules(doc) \subseteq (A \cup B) \cup C
    BY DEF BrokenRules, BrokenArithmetic, ArithmeticRules
  <2>2. IsFiniteSet(A) /\ IsFiniteSet(B) /\ IsFiniteSet(C)
    BY SixAreFinite
  <2> HIDE DEF A, B, C
  <2>3. IsFiniteSet(A \cup B)
    BY <2>2, FS_Union
  <2>4. IsFiniteSet((A \cup B) \cup C)
    BY <2>2, <2>3, FS_Union
  <2> QED BY <2>1, <2>4, FS_Subset
<1>2. broken \in Nat
  BY <1>1, FS_CardinalityType
<1> HIDE DEF broken
<1>3. \A i \in 1..broken : said[i] \in EngineMessages
  <2> TAKE i \in 1..broken
  <2>1. i \in Nat
    BY <1>2
  <2> DEFINE ids == [p \in ToSet(IdPlaces) |-> IF p = "bracketed" THEN RuleId("BR", i) ELSE NoRule]
  <2>2. RuleId("BR", i) \in EngineRules /\ NoRule \in EngineRules
    BY <2>1, RuleIdsAreRules DEF NoRule, Words
  <2>3. ids \in [ToSet(IdPlaces) -> EngineRules]
    BY <2>2
  <2>4. Message("error", "ZF_250", "bracketed", RuleId("BR", i)) =
          [element |-> "error", source |-> "ZF_250", empty |-> FALSE, ids |-> ids]
    BY DEF Message
  <2> HIDE DEF ids
  <2>5. [element |-> "error", source |-> "ZF_250", empty |-> FALSE, ids |-> ids] \in EngineMessages
    BY <2>3 DEF EngineMessages, Words
  <2>6. Message("error", "ZF_250", "bracketed", RuleId("BR", i)) \in EngineMessages
    BY <2>4, <2>5
  <2> QED BY <2>6
<1>4. said \in Seq(EngineMessages)
  <2>1. said \in [1..broken -> EngineMessages]
    BY <1>3
  <2> HIDE DEF said
  <2> QED BY <1>2, <2>1, SeqDef
<1>5. DecimalsAreSourced(said)
  BY DEF DecimalsAreSourced, Message
<1>6. <<>> \in Seq(EngineMessages) /\ DecimalsAreSourced(<<>>)
  BY EmptySeq DEF DecimalsAreSourced
<1>7. /\ ReportOn(doc).xml.messages = said
      /\ ReportOn(doc).pdf.messages = <<>> /\ ReportOn(doc).messages = <<>>
      /\ ReportOn(doc).pdf.assertions = {}
  BY DEF ReportOn, broken
<1> HIDE DEF said
<1> QED BY <1>4, <1>5, <1>6, <1>7, FS_EmptySet DEF AnswerFits, AnswerIsSourced, SaidOfParts

(* What is in hand is the analysis of a file and of an answer the engine may give. *)
JudgedInv ==
  analysis # Nothing =>
    /\ AnswerFits(answer) /\ (UploadsNameStylesheets => AnswerIsSourced(answer))
    /\ \E file : analysis = toAnalysisDto(analyze(file, answer))

LEMMA AnalysedJudged ==
  ASSUME NEW file, NEW a, AnswerFits(a), UploadsNameStylesheets => AnswerIsSourced(a),
         Analysed(file, a)
  PROVE  JudgedInv'
<1>1. answer' = a /\ analysis' = toAnalysisDto(analyze(file, a))
  BY DEF Analysed
<1>2. analysis' = toAnalysisDto(analyze(file, answer'))
  BY <1>1
<1>3. (\E f : analysis = toAnalysisDto(analyze(f, answer)))'
  BY <1>2
<1>4. AnswerFits(answer)' /\ (UploadsNameStylesheets => AnswerIsSourced(answer)')
  BY <1>1
<1> QED BY <1>3, <1>4 DEF JudgedInv, UploadsNameStylesheets

LEMMA JudgedSteps ==
  JudgedInv /\ [Next]_vars => JudgedInv'
<1> SUFFICES ASSUME JudgedInv, [Next]_vars PROVE JudgedInv'
  OBVIOUS
<1>1. ASSUME UNCHANGED <<answer, analysis>> PROVE JudgedInv'
  BY <1>1 DEF JudgedInv
<1>2. CASE Submit
  BY <1>1, <1>2 DEF Submit, generateFacturX
<1>3. CASE WriteInvoice
  BY <1>1, <1>3 DEF WriteInvoice, made
<1>4. CASE issueInvoice
  BY <1>1, <1>4 DEF issueInvoice, generateFacturX
<1>5. CASE SelfValidate
  <2>1. PICK a \in AnswersOn(generated.cii) : selfValidate(a)
    BY <1>5 DEF SelfValidate
  <2>2. AnswerFits(a) /\ AnswerIsSourced(a)
    <3>1. CASE a \in EngineErrors
      BY <3>1 DEF AnswerFits, AnswerIsSourced
    <3>2. CASE a = ReportOn(generated.cii)
      BY <3>2, OwnReportFits
    <3> QED BY <3>1, <3>2 DEF AnswersOn
  <2> QED BY <2>1, <2>2, AnalysedJudged DEF selfValidate
<1>6. ASSUME NEW doc, NEW line, Returned(doc, line) PROVE JudgedInv'
  BY <1>6, OwnReportFits, AnalysedJudged DEF Returned
<1>7. CASE Alter
  BY <1>6, <1>7 DEF Alter
<1>8. CASE Omit
  BY <1>6, <1>8 DEF Omit
<1>9. CASE Submitted
  <2>1. PICK u \in Uploads : Upload(u)
    BY <1>9 DEF Submitted
  <2>2. AnswerFits(u.answer)
    BY UploadsAssumption DEF AnswerFits, SaidOfParts
  <2>3. UploadsNameStylesheets => AnswerIsSourced(u.answer)
    BY DEF AnswerIsSourced, SaidOfParts, UploadsNameStylesheets
  <2> QED BY <2>1, <2>2, <2>3, AnalysedJudged DEF Upload
<1>10. CASE UNCHANGED vars
  BY <1>1, <1>10 DEF vars, made
<1> QED BY <1>2, <1>3, <1>4, <1>5, <1>7, <1>8, <1>9, <1>10 DEF Next

LEMMA JudgedHolds == Spec => []JudgedInv
<1>1. Init => JudgedInv
  BY DEF Init, JudgedInv
<1> QED BY <1>1, JudgedSteps, PTL DEF Spec

(* Nothing is said to conform that the engine finds invalid, or of which it reports an *)
(* error that is not of the German rules, whatever it answers (analyze.ts, report.ts). *)
(* The one hypothesis is the engine's: the code takes BR-DEC for German by its first   *)
(* letters, unless the message names its stylesheet.                                   *)
THEOREM NothingPassesFalsely == UploadsNameStylesheets /\ Spec => []NoFalsePass
<1> SUFFICES ASSUME UploadsNameStylesheets PROVE Spec => []NoFalsePass
  OBVIOUS
<1>1. JudgedInv => NoFalsePass
  <2> SUFFICES ASSUME JudgedInv, analysis # Nothing, analysis.verdict = "conforme"
               PROVE  NoFalsePass
    BY DEF NoFalsePass
  <2>1. AnswerFits(answer) /\ AnswerIsSourced(answer)
    BY DEF JudgedInv
  <2>2. verdictOf(validate(answer).report) = "conforme"
    BY VerdictRead DEF JudgedInv
  <2> QED BY <2>1, <2>2, ConformsOnly DEF NoFalsePass, SaidOfParts
<1> QED BY <1>1, JudgedHolds, PTL

---------------------------------------------------------------------------
(* The form: what it shows and what it submits. *)

LEMMA LengthOf ==
  ASSUME NEW m \in Nat, NEW f, f = [k \in 1..m |-> f[k]]
  PROVE  f \in Seq({f[k] : k \in 1..m}) /\ Len(f) = m
<1> DEFINE V == {f[k] : k \in 1..m}
<1>1. \A k \in 1..m : f[k] \in V
  OBVIOUS
<1> HIDE DEF V
<1>2. f \in [1..m -> V]
  BY <1>1
<1>3. f \in Seq(V) /\ DOMAIN f = 1..m
  BY <1>2, SeqDef
<1>4. Len(f) \in Nat /\ 1..Len(f) = 1..m
  BY <1>3, LenProperties
<1> QED BY <1>3, <1>4, SameLength DEF V

(* Two lines that cost the same: their texts may differ. *)
CostsTheSame(l, m) ==
  /\ l.quantity = m.quantity /\ l.unitPrice = m.unitPrice
  /\ l.vatCategory = m.vatCategory /\ l.vatRatePercent = m.vatRatePercent

Alike(a, b) == Len(a) = Len(b) /\ \A i \in 1..Len(a) : CostsTheSame(a[i], b[i])

LEMMA SameCost ==
  ASSUME NEW l, NEW m, CostsTheSame(l, m), NEW i
  PROVE  groupKey(l) = groupKey(m) /\ computeLine(l, i).netAmount = computeLine(m, i).netAmount
BY DEF CostsTheSame, groupKey, computeLine

LEMMA SameStarts ==
  ASSUME NEW T, NEW a \in Seq(T), NEW b \in Seq(T), Alike(a, b)
  PROVE  GroupStarts(a) = GroupStarts(b) /\ GroupStarts(a) \in Seq(1..Len(a))
<1>0. PICK n \in Nat : n = Len(a) /\ n = Len(b) /\ DOMAIN a = 1..n /\ DOMAIN b = 1..n
  BY LenProperties DEF Alike
<1> DEFINE first(s) == {i \in DOMAIN Ids(n) : \A j \in 1..(Ids(n)[i] - 1) : groupKey(s[j]) # groupKey(s[Ids(n)[i]])}
<1>1. GroupStarts(a) = Selected(Ids(n), first(a)) /\ GroupStarts(b) = Selected(Ids(n), first(b))
  BY <1>0 DEF GroupStarts, filter, Ids
<1>2. \A i \in 1..n : groupKey(a[i]) = groupKey(b[i])
  BY <1>0, SameCost DEF Alike
<1>3. Ids(n) \in Seq(1..n) /\ DOMAIN Ids(n) = 1..n /\ \A i \in 1..n : Ids(n)[i] = i
  BY <1>0, IdsAreSeq DEF Ids
<1>4. first(a) = first(b)
  <2>1. \A i \in 1..n : \A j \in 1..(i - 1) : j \in 1..n
    BY <1>0
  <2>2. \A i \in 1..n : (\A j \in 1..(i - 1) : groupKey(a[j]) # groupKey(a[i]))
                          <=> (\A j \in 1..(i - 1) : groupKey(b[j]) # groupKey(b[i]))
    BY <1>2, <2>1
  <2> QED BY <1>3, <2>2
<1> HIDE DEF first
<1>5. Selected(Ids(n), first(a)) \in Seq(1..n)
  BY <1>3, SelectedElements
<1> QED BY <1>0, <1>1, <1>4, <1>5

(* The lines of a group are at the same positions, so they sum to the same. *)
LEMMA SameGroupTotal ==
  ASSUME NEW T, NEW a \in Seq(T), NEW b \in Seq(T), Alike(a, b), NEW i \in 1..Len(a)
  PROVE  LET net(s) == LET group == SameGroup(s, i)
                       IN [k \in DOMAIN group |-> computeLine(group[k], k).netAmount]
         IN net(a) = net(b)
<1>0. PICK n \in Nat : n = Len(a) /\ n = Len(b) /\ DOMAIN a = 1..n /\ DOMAIN b = 1..n
  BY LenProperties DEF Alike
<1> DEFINE in(s) == {k \in DOMAIN s : groupKey(s[k]) = groupKey(s[i])}
           at == Selected(Ids(n), in(a))
<1>1. SameGroup(a, i) = Selected(a, in(a)) /\ SameGroup(b, i) = Selected(b, in(b))
  BY DEF SameGroup, filter
<1>2. \A k \in 1..n : groupKey(a[k]) = groupKey(b[k])
  BY <1>0, SameCost DEF Alike
<1>3. in(a) = in(b)
  BY <1>0, <1>2
<1> HIDE DEF in
<1>4. /\ at \in Seq(1..n)
      /\ Selected(a, in(a)) = [k \in 1..Len(at) |-> a[at[k]]]
  BY <1>0, SelectedByPosition
<1>5. Selected(b, in(a)) = [k \in 1..Len(at) |-> b[at[k]]]
  BY <1>0, SelectedByPosition
<1>6. \A k \in 1..Len(at) : at[k] \in 1..n
  BY <1>4, ElementOfSeq
<1> HIDE DEF at
<1>7. \A k \in 1..Len(at) : computeLine(a[at[k]], k).netAmount = computeLine(b[at[k]], k).netAmount
  BY <1>0, <1>6, SameCost DEF Alike
<1> DEFINE ga == SameGroup(a, i)
           gb == SameGroup(b, i)
<1>8. ga = [k \in 1..Len(at) |-> a[at[k]]] /\ gb = [k \in 1..Len(at) |-> b[at[k]]]
  BY <1>1, <1>3, <1>4, <1>5
<1> HIDE DEF ga, gb
<1>9. /\ DOMAIN ga = 1..Len(at) /\ DOMAIN gb = 1..Len(at)
      /\ \A k \in 1..Len(at) : ga[k] = a[at[k]] /\ gb[k] = b[at[k]]
  BY <1>8
<1>10. [k \in DOMAIN ga |-> computeLine(ga[k], k).netAmount]
         = [k \in DOMAIN gb |-> computeLine(gb[k], k).netAmount]
  BY <1>7, <1>9
<1> QED BY <1>10 DEF ga, gb

(* A group of two drafts whose lines cost the same has the same amounts. *)
LEMMA SameTax ==
  ASSUME NEW T, NEW a \in Seq(T), NEW b \in Seq(T), Alike(a, b), NEW i \in 1..Len(a)
  PROVE  LET ta == TaxGroup(a[i], SameGroup(a, i))
             tb == TaxGroup(b[i], SameGroup(b, i))
         IN ta.basisAmount = tb.basisAmount /\ ta.calculatedAmount = tb.calculatedAmount
<1> DEFINE net(s) == LET group == SameGroup(s, i)
                     IN [k \in DOMAIN group |-> computeLine(group[k], k).netAmount]
           rate(s) == Rescale(s[i].vatRatePercent, MonetaryScale)
<1>1. net(a) = net(b)
  BY SameGroupTotal
<1>2. rate(a) = rate(b)
  BY DEF Alike, CostsTheSame
<1>3. ASSUME NEW s
      PROVE  /\ TaxGroup(s[i], SameGroup(s, i)).basisAmount = Total(net(s))
             /\ TaxGroup(s[i], SameGroup(s, i)).calculatedAmount = vatOn(Total(net(s)), rate(s))
  BY DEF TaxGroup, Taxed
<1> HIDE DEF net, rate
<1> QED BY <1>1, <1>2, <1>3

SameAmounts(c, k, n) ==
  /\ c.totals = k.totals /\ ShownGroups(c) = ShownGroups(k)
  /\ DOMAIN c.lines = 1..n /\ DOMAIN k.lines = 1..n
  /\ \A i \in 1..n : c.lines[i].netAmount = k.lines[i].netAmount

LEMMA SameTotals ==
  ASSUME NEW T, NEW d, NEW e, d.lines \in Seq(T), e.lines \in Seq(T), Alike(d.lines, e.lines),
         d.prepaidAmount = e.prepaidAmount
  PROVE  SameAmounts(computeInvoice(d), computeInvoice(e), Len(d.lines))
<1> DEFINE a == d.lines
           b == e.lines
           ca == [i \in DOMAIN a |-> computeLine(a[i], i)]
           cb == [i \in DOMAIN b |-> computeLine(b[i], i)]
           ga == TaxGroups(a, GroupStarts(a))
           gb == TaxGroups(b, GroupStarts(b))
<1>0. PICK n \in Nat : n = Len(a) /\ n = Len(b) /\ DOMAIN a = 1..n /\ DOMAIN b = 1..n
  BY LenProperties DEF Alike
<1>1. /\ computeInvoice(d) = Computed(ca, ga, d.prepaidAmount)
      /\ computeInvoice(e) = Computed(cb, gb, e.prepaidAmount)
  BY DEF computeInvoice
<1> HIDE DEF a, b
<1>2. /\ DOMAIN ca = 1..n /\ DOMAIN cb = 1..n
      /\ \A i \in 1..n : ca[i].netAmount = cb[i].netAmount
  BY <1>0, SameCost DEF Alike, a, b
<1>3. PICK starts : starts = GroupStarts(a) /\ starts = GroupStarts(b) /\ starts \in Seq(1..n)
  BY <1>0, SameStarts DEF a, b
<1>4. PICK m \in Nat : m = Len(starts) /\ DOMAIN starts = 1..m /\ \A k \in 1..m : starts[k] \in 1..n
  BY <1>3, LenProperties, ElementOfSeq
<1>5. /\ ga = [k \in 1..m |-> TaxGroup(a[starts[k]], SameGroup(a, starts[k]))]
      /\ gb = [k \in 1..m |-> TaxGroup(b[starts[k]], SameGroup(b, starts[k]))]
  BY <1>3, <1>4 DEF TaxGroups
<1>6. \A k \in 1..m : /\ ga[k].basisAmount = gb[k].basisAmount
                      /\ ga[k].calculatedAmount = gb[k].calculatedAmount
  <2> TAKE k \in 1..m
  <2>1. starts[k] \in 1..Len(a) /\ Alike(a, b) /\ a \in Seq(T) /\ b \in Seq(T)
    BY <1>0, <1>4 DEF a, b
  <2>2. /\ ga[k] = TaxGroup(a[starts[k]], SameGroup(a, starts[k]))
        /\ gb[k] = TaxGroup(b[starts[k]], SameGroup(b, starts[k]))
    BY <1>5
  <2> HIDE DEF ga, gb
  <2> QED BY <2>1, <2>2, SameTax
<1>7. /\ DOMAIN ga = 1..m /\ DOMAIN gb = 1..m
      /\ ga = [k \in 1..m |-> ga[k]] /\ gb = [k \in 1..m |-> gb[k]]
  BY <1>5
<1> HIDE DEF ca, cb, ga, gb
<1>8. Len(ga) = m /\ Len(gb) = m
  BY <1>7, LengthOf
<1>9. computeInvoice(d).totals = computeInvoice(e).totals
  <2>1. [i \in DOMAIN ca |-> ca[i].netAmount] = [i \in DOMAIN cb |-> cb[i].netAmount]
    BY <1>2
  <2>2. [k \in DOMAIN ga |-> ga[k].calculatedAmount] = [k \in DOMAIN gb |-> gb[k].calculatedAmount]
    BY <1>6, <1>7
  <2>3. /\ computeInvoice(d).totals = TotalsOf(Total([i \in DOMAIN ca |-> ca[i].netAmount]),
                Total([k \in DOMAIN ga |-> ga[k].calculatedAmount]), d.prepaidAmount)
        /\ computeInvoice(e).totals = TotalsOf(Total([i \in DOMAIN cb |-> cb[i].netAmount]),
                Total([k \in DOMAIN gb |-> gb[k].calculatedAmount]), e.prepaidAmount)
    BY <1>1 DEF Computed
  <2> QED BY <2>1, <2>2, <2>3
<1>10. ShownGroups(computeInvoice(d)) = ShownGroups(computeInvoice(e))
  <2>1. computeInvoice(d).taxGroups = ga /\ computeInvoice(e).taxGroups = gb
    BY <1>1 DEF Computed
  <2>2. \A k \in 1..m :
          <<Written(ga[k].basisAmount), Written(ga[k].calculatedAmount)>>
            = <<Written(gb[k].basisAmount), Written(gb[k].calculatedAmount)>>
    BY <1>6
  <2> DEFINE shown(g) == [k \in 1..m |-> <<Written(g[k].basisAmount), Written(g[k].calculatedAmount)>>]
  <2>3. ShownGroups(computeInvoice(d)) = IF m > 1 THEN shown(ga) ELSE <<>>
    BY <1>7, <1>8, <2>1 DEF ShownGroups
  <2>4. ShownGroups(computeInvoice(e)) = IF m > 1 THEN shown(gb) ELSE <<>>
    BY <1>7, <1>8, <2>1 DEF ShownGroups
  <2>5. shown(ga) = shown(gb)
    BY <2>2
  <2> HIDE DEF shown
  <2> QED BY <2>3, <2>4, <2>5
<1>11. computeInvoice(d).lines = ca /\ computeInvoice(e).lines = cb /\ Len(d.lines) = n
  BY <1>0, <1>1 DEF Computed, a
<1> QED BY <1>2, <1>9, <1>10, <1>11 DEF SameAmounts

(* A row of the form, of the texts that can be in it. *)
RowFields == DOMAIN blankLine
Texts == {p.text : p \in Patches} \cup {blankLine[f] : f \in RowFields} \cup {Typed(Dec(0, 2), FALSE)}
Row == [RowFields -> Texts]

FormTyped ==
  /\ rows \in Seq(Row)
  /\ {"lines", "prepaidAmount", "notes"} \subseteq DOMAIN header /\ header.notes \in Seq(ToSet(header.notes))

LEMMA RecordOfRow ==
  ASSUME NEW a, NEW b, NEW c, NEW d, NEW e, NEW f, NEW r,
         r = [name |-> a, quantity |-> b, unitPrice |-> c, vatCategory |-> d,
              vatRatePercent |-> e, exemptionReason |-> f]
  PROVE  r = [x \in {"name", "quantity", "unitPrice", "vatCategory", "vatRatePercent", "exemptionReason"}
                |-> r[x]]
BY Zenon

LEMMA Fields ==
  /\ RowFields = {"name", "quantity", "unitPrice", "vatCategory", "vatRatePercent", "exemptionReason"}
  /\ blankLine \in Row
<1>1. RowFields = {"name", "quantity", "unitPrice", "vatCategory", "vatRatePercent", "exemptionReason"}
  BY DEF RowFields, blankLine
<1>2. blankLine = [x \in {"name", "quantity", "unitPrice", "vatCategory", "vatRatePercent", "exemptionReason"}
                     |-> blankLine[x]]
  <2> DEFINE one == Typed(Dec(1, 0), FALSE)
             rate == Typed(Dec(2000, 2), FALSE)
  <2>1. blankLine = [name |-> "", quantity |-> one, unitPrice |-> Untyped, vatCategory |-> "S",
                     vatRatePercent |-> rate, exemptionReason |-> ""]
    BY DEF blankLine
  <2> HIDE DEF one, rate
  <2> QED BY <2>1, RecordOfRow, Zenon
<1>3. \A f \in RowFields : blankLine[f] \in Texts
  BY DEF Texts
<1>4. blankLine \in Row
  BY <1>1, <1>2, <1>3 DEF Row
<1> QED BY <1>1, <1>4

LEMMA UpdateTyped ==
  ASSUME NEW row \in Row, NEW patch \in Patches
  PROVE  update(row, patch) \in Row
<1>1. patch.text \in Texts /\ Typed(Dec(0, 2), FALSE) \in Texts
  BY DEF Texts
<1>2. \A r \in Row, t \in Texts : \A f : [r EXCEPT ![f] = t] \in Row
  BY DEF Row
<1> DEFINE next == [row EXCEPT ![patch.field] = patch.text]
<1>3. next \in Row
  BY <1>1, <1>2
<1>4. update(row, patch) = next \/ update(row, patch) = [next EXCEPT !.vatRatePercent = Typed(Dec(0, 2), FALSE)]
  BY DEF update
<1> HIDE DEF next
<1> QED BY <1>1, <1>2, <1>3, <1>4

LEMMA FormSteps ==
  FormTyped /\ [FillIn]_form => FormTyped'
<1> SUFFICES ASSUME FormTyped, [FillIn]_form PROVE FormTyped'
  OBVIOUS
<1>1. CASE AddLine
  BY <1>1, Fields, AppendProperties DEF AddLine, FormTyped
<1>2. CASE RemoveLine
  <2>1. PICK i \in DOMAIN rows : rows' = RemoveAt(rows, i) /\ header' = header
    BY <1>2 DEF RemoveLine
  <2>2. Len(rows) \in Nat /\ i \in 1..Len(rows) /\ \A k \in 1..Len(rows) : rows[k] \in Row
    BY LenProperties, ElementOfSeq DEF FormTyped
  <2>3. SubSeq(rows, 1, i - 1) \in Seq(Row) /\ SubSeq(rows, i + 1, Len(rows)) \in Seq(Row)
    BY <2>2, SubSeqProperties
  <2>4. RemoveAt(rows, i) \in Seq(Row)
    BY <2>3, ConcatProperties DEF RemoveAt
  <2> QED BY <2>1, <2>4 DEF FormTyped
<1>3. CASE Update
  <2>1. PICK i \in DOMAIN rows, patch \in Patches :
          rows' = [rows EXCEPT ![i] = update(rows[i], patch)] /\ header' = header
    BY <1>3 DEF Update
  <2>2. i \in 1..Len(rows) /\ update(rows[i], patch) \in Row
    BY LenProperties, ElementOfSeq, UpdateTyped DEF FormTyped
  <2>3. [rows EXCEPT ![i] = update(rows[i], patch)] \in Seq(Row)
    BY <2>2, ExceptSeq DEF FormTyped
  <2> QED BY <2>1, <2>3 DEF FormTyped
<1>4. CASE setPrepaid
  BY <1>4 DEF setPrepaid, FormTyped
<1>5. CASE setHeader
  BY <1>5, HeaderAssumption DEF setHeader, FormTyped, blankHeader
<1>6. CASE UNCHANGED form
  BY <1>6 DEF form, FormTyped
<1> QED BY <1>1, <1>2, <1>3, <1>4, <1>5, <1>6 DEF FillIn

LEMMA PayloadFields ==
  ASSUME FormTyped, NEW i \in 1..Len(rows)
  PROVE  /\ payloadLine(i).name = rows[i].name /\ payloadLine(i).quantity = rows[i].quantity
         /\ payloadLine(i).unitPrice = rows[i].unitPrice
         /\ payloadLine(i).vatCategory = rows[i].vatCategory
         /\ payloadLine(i).vatRatePercent = IF i \in DOMAIN lineVatRate THEN lineVatRate[i] ELSE Untyped
<1>1. rows[i] \in Row
  BY ElementOfSeq DEF FormTyped
<1>2. DOMAIN rows[i] =
        {"name", "quantity", "unitPrice", "vatCategory", "vatRatePercent", "exemptionReason"}
  BY <1>1, Fields DEF Row
<1>3. \A r, a, b :
        DOMAIN r = {"name", "quantity", "unitPrice", "vatCategory", "vatRatePercent", "exemptionReason"} =>
          LET q == [r EXCEPT !.vatRatePercent = a, !.exemptionReason = b]
          IN /\ q.name = r.name /\ q.quantity = r.quantity /\ q.unitPrice = r.unitPrice
             /\ q.vatCategory = r.vatCategory /\ q.vatRatePercent = a
  OBVIOUS
<1> QED BY <1>2, <1>3 DEF payloadLine

(* A row at no rate submits none, and the rates of the rows after it move up: the *)
(* last one is left without, and is refused.  So what is issued has none.         *)
LEMMA AllSubmitted ==
  ASSUME FormTyped, IsIssueInvoiceDto, \A i \in DOMAIN rows : IsComplete(rows[i])
  PROVE  /\ payload = [i \in 1..Len(rows) |-> payloadLine(i)]
         /\ \A i \in 1..Len(rows) :
              /\ ~IsZeroRated(rows[i])
              /\ payloadLine(i).vatRatePercent = rows[i].vatRatePercent
<1> DEFINE lines == [i \in DOMAIN rows |-> payloadLine(i)]
           passing == {i \in DOMAIN lines : lines[i].name # "" \/ lines[i].unitPrice # Untyped}
           charged == {i \in DOMAIN rows : ~IsZeroRated(rows[i])}
           rated == Selected(rows, charged)
<1>0. PICK n \in Nat : n = Len(rows) /\ DOMAIN rows = 1..n
  BY LenProperties DEF FormTyped
<1>1. payload = Selected(lines, passing)
  BY DEF payload, filter
<1>2. payload = lines
  <2>1. 1..n \subseteq passing
    BY <1>0, PayloadFields DEF IsComplete
  <2>2. lines = [i \in 1..n |-> lines[i]]
    BY <1>0
  <2> HIDE DEF lines, passing
  <2>3. lines \in Seq({lines[i] : i \in 1..n}) /\ Len(lines) = n
    BY <2>2, LengthOf
  <2> QED BY <1>1, <2>1, <2>3, SelectedWhole
<1>3. rated \in Seq(Row) /\ Len(rated) \in 0..n /\ DOMAIN rated = 1..Len(rated)
  BY <1>0, SelectedElements, LenProperties DEF FormTyped
<1>4. lineVatRate = [i \in DOMAIN rated |-> rated[i].vatRatePercent]
  BY DEF lineVatRate, filter
<1>5. \A i \in 1..n : i \in 1..Len(rated)
  <2> SUFFICES ASSUME NEW i \in 1..n, i \notin 1..Len(rated) PROVE FALSE
    OBVIOUS
  <2>1. payload[i] = payloadLine(i) /\ i \in DOMAIN payload
    BY <1>0, <1>2
  <2>2. payloadLine(i).vatRatePercent = Untyped
    <3> HIDE DEF rated
    <3> QED BY <1>0, <1>3, <1>4, PayloadFields
  <2>3. DECIMAL(Untyped)
    BY <2>1, <2>2 DEF IsIssueInvoiceDto, IsLineDto
  <2> QED BY <2>3 DEF DECIMAL, Untyped, Typed, NoAmount, Dec
<1>6. Len(rated) = n
  <2> HIDE DEF rated
  <2>1. Len(rated) \in Nat /\ Len(rated) <= n
    BY <1>0, <1>3
  <2>2. n \in 1..n => n <= Len(rated)
    BY <1>0, <1>5, <2>1
  <2>3. n = 0 \/ n \in 1..n
    BY <1>0
  <2> QED BY <1>0, <2>1, <2>2, <2>3
<1>7. 1..n \subseteq charged /\ rated = rows
  <2> HIDE DEF charged
  <2> QED BY <1>0, <1>6, SelectedWhole DEF FormTyped
<1>8. \A i \in 1..n : payloadLine(i).vatRatePercent = rows[i].vatRatePercent
  <2> TAKE i \in 1..n
  <2>1. i \in DOMAIN lineVatRate /\ lineVatRate[i] = rows[i].vatRatePercent
    <3> HIDE DEF rated, charged
    <3> QED BY <1>0, <1>4, <1>7
  <2> QED BY <1>0, <2>1, PayloadFields
<1> QED BY <1>0, <1>2, <1>7, <1>8

LEMMA AllUsable ==
  ASSUME FormTyped, \A i \in DOMAIN rows : IsComplete(rows[i])
  PROVE  Usable = rows
<1> DEFINE passing == {i \in DOMAIN rows : rows[i].unitPrice # Untyped}
<1>1. Usable = Selected(rows, passing)
  BY DEF Usable, filter
<1>2. DOMAIN rows = 1..Len(rows)
  BY LenProperties DEF FormTyped
<1>3. 1..Len(rows) \subseteq passing
  BY <1>2 DEF IsComplete
<1> HIDE DEF passing
<1> QED BY <1>1, <1>3, SelectedWhole DEF FormTyped

(* The draft shown and the draft submitted cost the same, line by line. *)
LEMMA ShownAlike ==
  ASSUME FormTyped, IsIssueInvoiceDto, \A i \in DOMAIN rows : IsComplete(rows[i])
  PROVE  \E T : /\ previewDraft.lines \in Seq(T) /\ SubmittedDraft.lines \in Seq(T)
                /\ Alike(previewDraft.lines, SubmittedDraft.lines)
                /\ Len(previewDraft.lines) = Len(rows)
                /\ previewDraft.prepaidAmount = SubmittedDraft.prepaidAmount
<1> DEFINE a == [i \in DOMAIN Usable |-> previewLine(Usable[i])]
           b == [i \in DOMAIN payload |-> draftOf(payload[i])]
<1>0. PICK n \in Nat : n = Len(rows) /\ DOMAIN rows = 1..n
  BY LenProperties DEF FormTyped
<1>1. \A h, x, y : {"lines", "prepaidAmount"} \subseteq DOMAIN h =>
        LET d == [h EXCEPT !.prepaidAmount = x, !.lines = y] IN d.prepaidAmount = x /\ d.lines = y
  OBVIOUS
<1>2. /\ previewDraft.lines = a /\ SubmittedDraft.lines = b
      /\ previewDraft.prepaidAmount = SubmittedDraft.prepaidAmount
  <2>1. {"lines", "prepaidAmount"} \subseteq DOMAIN header
    BY DEF FormTyped
  <2>2. previewDraft = [header EXCEPT !.prepaidAmount = prepaid.amount, !.lines = a]
    BY DEF previewDraft, normalise
  <2>3. SubmittedDraft = [header EXCEPT !.prepaidAmount = prepaid.amount, !.lines = b]
    BY DEF SubmittedDraft
  <2> HIDE DEF a, b
  <2> QED BY <1>1, <2>1, <2>2, <2>3
<1>3. a = [i \in 1..n |-> previewLine(rows[i])]
  BY <1>0, AllUsable
<1>4. b = [i \in 1..n |-> draftOf(payloadLine(i))]
  BY <1>0, AllSubmitted
<1> HIDE DEF a, b
<1>5. \A i \in 1..n : CostsTheSame(a[i], b[i])
  <2> TAKE i \in 1..n
  <2>1. IsComplete(rows[i]) /\ ~IsZeroRated(rows[i])
    BY <1>0, AllSubmitted
  <2>2. /\ payloadLine(i).quantity = rows[i].quantity
        /\ payloadLine(i).unitPrice = rows[i].unitPrice
        /\ payloadLine(i).vatCategory = rows[i].vatCategory
        /\ payloadLine(i).vatRatePercent = rows[i].vatRatePercent
    BY <1>0, AllSubmitted, PayloadFields
  <2>3. CostsTheSame(previewLine(rows[i]), draftOf(payloadLine(i)))
    BY <2>1, <2>2 DEF CostsTheSame, previewLine, draftOf, DraftLine, OrZeroText, normalise, IsComplete
  <2> QED BY <1>3, <1>4, <2>3
<1> DEFINE T == {a[i] : i \in 1..n} \cup {b[i] : i \in 1..n}
<1>6. a \in Seq(T) /\ b \in Seq(T) /\ Len(a) = n /\ Len(b) = n
  <2>1. a = [i \in 1..n |-> a[i]] /\ b = [i \in 1..n |-> b[i]]
    BY <1>3, <1>4
  <2>2. \A i \in 1..n : a[i] \in T /\ b[i] \in T
    OBVIOUS
  <2> HIDE DEF T
  <2>3. a \in [1..n -> T] /\ b \in [1..n -> T]
    BY <2>1, <2>2
  <2>4. a \in Seq(T) /\ b \in Seq(T)
    BY <2>3, SeqDef
  <2>5. Len(a) = n /\ Len(b) = n
    BY <2>1, LengthOf
  <2> QED BY <2>4, <2>5
<1> HIDE DEF T
<1>7. Alike(a, b)
  BY <1>5, <1>6 DEF Alike
<1> QED BY <1>0, <1>2, <1>6, <1>7

LEMMA ShownOfSubmitted ==
  ASSUME FormTyped, IsIssueInvoiceDto, \A i \in DOMAIN rows : IsComplete(rows[i]),
         draft = SubmittedDraft, generated = Renditions(draft, computeInvoice(draft))
  PROVE  ShownIsIssued(preview)
<1> SUFFICES ASSUME preview # NoPreview PROVE ShownIsIssued(preview)
  BY DEF ShownIsIssued
<1>1. preview = computeInvoice(previewDraft)
  BY DEF preview
<1>2. PICK n \in Nat : n = Len(rows) /\ DOMAIN rows = 1..n
  BY LenProperties DEF FormTyped
<1> DEFINE c == computeInvoice(SubmittedDraft)
           shown == computeInvoice(previewDraft)
<1>3. /\ shown.totals = c.totals /\ ShownGroups(shown) = ShownGroups(c)
      /\ DOMAIN shown.lines = 1..n /\ DOMAIN c.lines = 1..n
      /\ \A i \in 1..n : shown.lines[i].netAmount = c.lines[i].netAmount
  <2>1. PICK T : /\ previewDraft.lines \in Seq(T) /\ SubmittedDraft.lines \in Seq(T)
                 /\ Alike(previewDraft.lines, SubmittedDraft.lines)
                 /\ Len(previewDraft.lines) = Len(rows)
                 /\ previewDraft.prepaidAmount = SubmittedDraft.prepaidAmount
    BY ShownAlike
  <2>2. SameAmounts(computeInvoice(previewDraft), computeInvoice(SubmittedDraft), n)
    BY <1>2, <2>1, SameTotals
  <2> QED BY <2>2 DEF SameAmounts
<1>4. /\ generated.computed = c
      /\ generated.page.lineAmounts = [i \in DOMAIN c.lines |-> Written(c.lines[i].netAmount)]
  BY DEF Renditions, renderPdfA3
<1> HIDE DEF c, shown
<1>5. generated.page.lineAmounts = [i \in DOMAIN rows |-> lineTotal(shown, i)]
  BY <1>2, <1>3, <1>4 DEF lineTotal
<1>6. preview = shown
  BY <1>1 DEF shown
<1> QED BY <1>3, <1>4, <1>5, <1>6 DEF ShownIsIssued

(* What has been generated was made of a draft from elsewhere, with the form as it *)
(* opens, or of what the form submitted and still holds.                            *)
GeneratedInv ==
  generated # Nothing =>
    /\ generated = Renditions(draft, computeInvoice(draft)) /\ ~Blocks(checkDraft(draft))
    /\ \/ draft \in Drafts /\ rows = <<blankLine>>
       \/ /\ draft = SubmittedDraft /\ IsIssueInvoiceDto
          /\ \A i \in DOMAIN rows : IsComplete(rows[i])

LEMMA NothingShownAtFirst ==
  ASSUME rows = <<blankLine>>
  PROVE  preview = NoPreview
<1> DEFINE passing == {i \in DOMAIN rows : rows[i].unitPrice # Untyped}
<1>1. Usable = Selected(rows, passing)
  BY DEF Usable, filter
<1>2. passing = {}
  <2>1. blankLine.unitPrice = Untyped
    BY DEF blankLine
  <2> QED BY <2>1
<1>3. rows \in Seq({blankLine})
  OBVIOUS
<1> HIDE DEF passing
<1>4. Usable \in Seq({blankLine}) /\ Len(Usable) \in Nat /\ \A k \in 1..Len(Usable) : FALSE
  <2>1. Usable = Selected(rows, {})
    BY <1>1, <1>2
  <2>2. /\ Usable \in Seq({blankLine})
        /\ \A k \in 1..Len(Usable) : \E i \in (1..Len(rows)) \cap {} : Usable[k] = rows[i]
    BY ONLY <1>3, <2>1, SelectedElements
  <2> QED BY <2>2, LenProperties
<1>5. Len(Usable) = 0
  <2>1. Len(Usable) = 0 \/ 1 \in 1..Len(Usable)
    BY <1>4
  <2> QED BY <1>4, <2>1
<1>6. Usable = <<>>
  BY <1>4, <1>5, EmptySeq
<1> QED BY <1>6 DEF preview

LEMMA PreviewFits == FormTyped /\ GeneratedInv => PreviewIsIssued
<1> SUFFICES ASSUME FormTyped, GeneratedInv, JustGenerated PROVE ShownIsIssued(preview)
  BY DEF PreviewIsIssued
<1>1. generated # Nothing /\ generated = Renditions(draft, computeInvoice(draft))
  BY DEF GeneratedInv, JustGenerated
<1>2. CASE rows = <<blankLine>>
  BY <1>2, NothingShownAtFirst DEF ShownIsIssued
<1>3. CASE /\ draft = SubmittedDraft /\ IsIssueInvoiceDto
           /\ \A i \in DOMAIN rows : IsComplete(rows[i])
  BY <1>1, <1>3, ShownOfSubmitted
<1> QED BY <1>1, <1>2, <1>3 DEF GeneratedInv

LEMMA SamePayload ==
  ASSUME rows' = rows
  PROVE  payload' = payload
<1>1. lineVatRate' = lineVatRate
  BY DEF lineVatRate, filter, IsZeroRated
<1>2. lineExemptionReason' = lineExemptionReason
  BY DEF lineExemptionReason, NeedsReason
<1>3. \A i : payloadLine(i)' = payloadLine(i)
  BY <1>1, <1>2 DEF payloadLine
<1>4. [i \in DOMAIN rows |-> payloadLine(i)]' = [i \in DOMAIN rows |-> payloadLine(i)]
  BY <1>3
<1> QED BY <1>4 DEF payload, filter

LEMMA GeneratedSteps ==
  FormTyped /\ GeneratedInv /\ [Next]_vars => FormTyped' /\ GeneratedInv'
<1> SUFFICES ASSUME FormTyped, GeneratedInv, [Next]_vars PROVE FormTyped' /\ GeneratedInv'
  OBVIOUS
<1>1. ASSUME UNCHANGED form PROVE FormTyped'
  BY <1>1, FormSteps
<1>2. ASSUME UNCHANGED <<draft, generated, form>> PROVE GeneratedInv'
  <2>1. /\ draft' = draft /\ generated' = generated /\ rows' = rows /\ header' = header
        /\ prepaid' = prepaid
    BY <1>2 DEF form
  <2>2. payload' = payload
    BY <2>1, SamePayload
  <2>3. SubmittedDraft' = SubmittedDraft /\ IsIssueInvoiceDto' = IsIssueInvoiceDto
    BY <2>1, <2>2 DEF SubmittedDraft, IsIssueInvoiceDto
  <2> QED BY <2>1, <2>3 DEF GeneratedInv
<1>3. ASSUME NEW d, generateFacturX(d) 
      PROVE  /\ UNCHANGED form
             /\ generated' # Nothing => /\ draft' = d /\ ~Blocks(checkDraft(d))
                                        /\ generated' = Renditions(d, computeInvoice(d))
  BY <1>3 DEF generateFacturX
<1>4. CASE Submit
  <2>1. PICK d \in Drafts : generateFacturX(d)
    BY <1>4 DEF Submit
  <2>2. rows = <<blankLine>> /\ rows' = rows
    BY <1>3, <1>4, <2>1 DEF Submit, Untouched, FormInit, form
  <2> QED BY <1>1, <1>3, <2>1, <2>2 DEF GeneratedInv
<1>5. CASE WriteInvoice
  BY <1>5, FormSteps DEF WriteInvoice, made, GeneratedInv
<1>6. CASE issueInvoice
  <2>1. CASE ~IsIssueInvoiceDto
    BY <1>1, <1>2, <1>6, <2>1 DEF issueInvoice
  <2>2. CASE IsIssueInvoiceDto
    <3>1. generateFacturX(SubmittedDraft) /\ \A i \in DOMAIN rows : IsComplete(rows[i])
      BY <1>6, <2>2 DEF issueInvoice
    <3>2. rows' = rows /\ header' = header /\ prepaid' = prepaid
      BY <1>3, <3>1 DEF form
    <3>3. payload' = payload
      BY <3>2, SamePayload
    <3>4. SubmittedDraft' = SubmittedDraft /\ IsIssueInvoiceDto' = IsIssueInvoiceDto
      BY <3>2, <3>3 DEF SubmittedDraft, IsIssueInvoiceDto
    <3> QED BY <1>1, <1>3, <2>2, <3>1, <3>2, <3>4 DEF GeneratedInv
  <2> QED BY <2>1, <2>2
<1>7. CASE SelfValidate
  BY <1>1, <1>2, <1>7 DEF SelfValidate, selfValidate
<1>8. ASSUME NEW doc, NEW line, Returned(doc, line) PROVE FormTyped' /\ GeneratedInv'
  BY <1>1, <1>2, <1>8 DEF Returned
<1>9. CASE Alter
  BY <1>8, <1>9 DEF Alter
<1>10. CASE Omit
  BY <1>8, <1>10 DEF Omit
<1>11. CASE Submitted
  BY <1>1, <1>2, <1>11 DEF Submitted, Upload
<1>12. CASE UNCHANGED vars
  BY <1>1, <1>2, <1>12 DEF vars, made
<1> QED BY <1>4, <1>5, <1>6, <1>7, <1>9, <1>10, <1>11, <1>12 DEF Next

LEMMA GeneratedHolds == Spec => [](FormTyped /\ GeneratedInv)
<1>1. Init => FormTyped /\ GeneratedInv
  <2>1. /\ {"lines", "prepaidAmount", "notes"} \subseteq DOMAIN blankHeader
        /\ blankHeader.notes \in Seq(ToSet(blankHeader.notes))
    BY EmptySeq DEF blankHeader
  <2>2. <<blankLine>> \in Seq(Row)
    BY Fields
  <2> QED BY <2>1, <2>2 DEF Init, FormInit, FormTyped, GeneratedInv
<1> QED BY <1>1, GeneratedSteps, PTL DEF Spec

(* What is issued from the form has the totals, the amounts of VAT and the amounts *)
(* of the lines that the form showed, whatever was added, removed and changed, for *)
(* any rows, rates, prices and quantities (InvoiceForm.tsx, actions.ts).           *)
THEOREM PreviewIssued == Spec => []PreviewIsIssued
BY GeneratedHolds, PreviewFits, PTL

---------------------------------------------------------------------------
(* The page: the rows of a line. *)

Marks == [page : Nat \ {0}, y : Int, what : Nat]
Pens == [page : Nat \ {0}, y : Int, drawn : SUBSET Marks]

(* Of the row r of a line beside any row s: its line is whole, and clear of the foot *)
(* unless it is higher than a sheet has room for, and then the first of its sheet.  *)
RowClear(r, s, line) ==
  /\ r.what = s.what => r.page = s.page
  /\ IF RowHeight(line) > SheetRoom THEN r.page = s.page => r.what <= s.what ELSE r.y >= Foot

(* The pen after the first lines of a table, no higher than a new table starts. *)
RowsKept(pen, i, lines) ==
  /\ pen \in Pens /\ pen.y <= 701
  /\ \A r \in pen.drawn : r.what \in 1..i /\ r.page <= pen.page
  /\ \A r, s \in pen.drawn : RowClear(r, s, lines[r.what])

IsPen(pen, page, y, drawn) ==
  pen \in Pens /\ pen.page = page /\ pen.y = y /\ pen.drawn = drawn

LEMMA PagesAdvance ==
  ASSUME NEW pen \in Pens, NEW page \in Nat \ {0}, NEW y \in Int
  PROVE  IsPen([pen EXCEPT !.page = page, !.y = y], page, y, pen.drawn)
BY DEF Pens, IsPen

LEMMA PenMoves ==
  ASSUME NEW pen \in Pens
  PROVE  /\ \A points \in Int : IsPen(Down(pen, points), pen.page, pen.y - points, pen.drawn)
         /\ \A what \in Nat : IsPen(Mark(pen, what), pen.page, pen.y,
              pen.drawn \cup {[page |-> pen.page, y |-> pen.y, what |-> what]})
         /\ IsPen(newPage(pen), pen.page + 1, 791, pen.drawn)
<1>1. pen.page \in Nat \ {0} /\ pen.y \in Int /\ pen.drawn \in SUBSET Marks
  BY DEF Pens
<1>2. ASSUME NEW points \in Int
      PROVE  IsPen(Down(pen, points), pen.page, pen.y - points, pen.drawn)
  <2>1. Down(pen, points) = [page |-> pen.page, y |-> pen.y - points, drawn |-> pen.drawn]
    BY DEF Down, Pens
  <2> QED BY <1>1, <2>1 DEF Pens, IsPen
<1>3. ASSUME NEW what \in Nat
      PROVE  IsPen(Mark(pen, what), pen.page, pen.y,
                   pen.drawn \cup {[page |-> pen.page, y |-> pen.y, what |-> what]})
  <2>1. [page |-> pen.page, y |-> pen.y, what |-> what] \in Marks
    BY <1>1 DEF Marks
  <2>2. Mark(pen, what) = [page |-> pen.page, y |-> pen.y, drawn |->
              pen.drawn \cup {[page |-> pen.page, y |-> pen.y, what |-> what]}]
    BY DEF Mark, Pens
  <2> QED BY <1>1, <2>1, <2>2 DEF Pens, IsPen
<1>4. IsPen(newPage(pen), pen.page + 1, 791, pen.drawn)
  <2>1. newPage(pen) = [pen EXCEPT !.page = pen.page + 1, !.y = 791]
    BY DEF newPage, SheetHeight, MARGIN
  <2>2. PICK page \in Nat \ {0}, y \in Int : page = pen.page + 1 /\ y = 791
    BY <1>1
  <2>3. IsPen([pen EXCEPT !.page = page, !.y = y], page, y, pen.drawn)
    BY PagesAdvance
  <2> QED BY <2>1, <2>2, <2>3
<1> QED BY <1>2, <1>3, <1>4

(* Where the rows of a line are: all on the page where its first one is, a new one if *)
(* it is too high for any.                                                            *)
RowsOf(added, page, line, i) ==
  \A r \in added : /\ r.what = i /\ r.page = page
                   /\ RowHeight(line) <= SheetRoom => r.y >= Foot

LineOn(new, pen, line, i) ==
  /\ new \in Pens /\ (new.page = pen.page \/ new.page = pen.page + 1)
  /\ pen.y <= 701 => new.y <= 701
  /\ pen.y <= 701 /\ RowHeight(line) > SheetRoom => new.page = pen.page + 1
  /\ \E added : new.drawn = pen.drawn \cup added /\ RowsOf(added, new.page, line, i)

LEMMA HeightTyped ==
  ASSUME NEW line
  PROVE  RowHeight(line) \in Nat /\ RowHeight(line) >= 18 /\ SheetRoom = 577 /\ Foot = 124
<1>1. wrap(line.source.name) \in Nat \ {0} /\ DescriptionRows(line) \in Nat
  BY LongRowsAssumption DEF wrap, DescriptionRows
<1> QED BY <1>1 DEF RowHeight, SheetRoom, SheetHeight, MARGIN, Foot, FOOTER_HEIGHT

LEMMA LineMoves ==
  ASSUME NEW i \in Nat, NEW line, line.lineId = i, NEW pen \in Pens
  PROVE  LineOn(drawLine(pen, line), pen, line, i)
<1> DEFINE names == wrap(line.source.name)
           descriptions == DescriptionRows(line)
           height == RowHeight(line)
           top == IF pen.y - height < Foot THEN drawTableHead(drawHeader(newPage(pen))) ELSE pen
           drop == IF descriptions = 0 THEN 11 * (names - 1) ELSE 11 * names + 9 * (descriptions - 1)
           first == [page |-> top.page, y |-> top.y, what |-> i]
           end == [page |-> top.page, y |-> top.y - drop, what |-> i]
           last == Mark(Down(Mark(top, i), drop), i)
<1>1. pen \in Pens /\ pen.y \in Int /\ pen.page \in Nat \ {0}
  BY DEF Pens
<1>2. SheetRoom = 577 /\ Foot = 124
  BY HeightTyped
<1>3. names \in Nat \ {0} /\ descriptions \in Nat
  BY LongRowsAssumption DEF wrap, DescriptionRows
<1>4. height = RowHeight(line) /\ height = 11 * names + 9 * descriptions + 7
  BY DEF RowHeight
<1> HIDE DEF names, descriptions, height
<1>5. height \in Int /\ drop \in Int /\ 0 <= drop /\ drop <= height
  BY <1>3, <1>4
<1> HIDE DEF drop
<1>6. /\ top \in Pens /\ top.drawn = pen.drawn
      /\ top.page = pen.page \/ top.page = pen.page + 1
      /\ pen.y <= 701 => top.y <= 701
      /\ pen.y <= 701 /\ height > 577 => top.page = pen.page + 1
      /\ height <= 577 => top.y >= 124 + drop
  <2>1. CASE pen.y - height < Foot
    <3> DEFINE p == newPage(pen)
               q == Down(p, 72)
    <3>1. p \in Pens /\ p.page = pen.page + 1 /\ p.y = 791 /\ p.drawn = pen.drawn
      BY <1>1, PenMoves DEF IsPen
    <3> HIDE DEF p
    <3>2. q \in Pens /\ q.page = p.page /\ q.y = p.y - 72 /\ q.drawn = p.drawn
      BY <3>1, PenMoves DEF IsPen
    <3> HIDE DEF q
    <3>3. Down(q, 18) \in Pens /\ Down(q, 18).page = q.page /\ Down(q, 18).y = q.y - 18
          /\ Down(q, 18).drawn = q.drawn
      BY <3>2, PenMoves DEF IsPen
    <3>4. top = Down(q, 18)
      BY <2>1 DEF p, q, drawTableHead, drawHeader
    <3> HIDE DEF top
    <3> QED BY <1>5, <3>1, <3>2, <3>3, <3>4
  <2>2. CASE ~(pen.y - height < Foot)
    <3>1. top = pen
      BY <2>2
    <3> HIDE DEF top
    <3> QED BY <1>1, <1>2, <1>5, <2>2, <3>1
  <2> QED BY <2>1, <2>2
<1>7. drawLine(pen, line) = Down(last, height - drop)
  BY DEF drawLine, names, descriptions, height, drop
<1> HIDE DEF top
<1>8. top.page \in Nat \ {0} /\ top.y \in Int
  BY <1>6 DEF Pens
<1>9. /\ last \in Pens /\ last.page = top.page
      /\ last.y = top.y - drop
      /\ last.drawn = top.drawn \cup {first, end}
  <2> DEFINE p == Mark(top, i)
             q == Down(p, drop)
  <2>1. p \in Pens /\ p.page = top.page /\ p.y = top.y /\ p.drawn = top.drawn \cup {first}
    BY <1>6, PenMoves DEF IsPen
  <2> HIDE DEF p
  <2>2. q \in Pens /\ q.page = p.page /\ q.y = p.y - drop /\ q.drawn = p.drawn
    BY <1>5, <2>1, PenMoves DEF IsPen
  <2> HIDE DEF q
  <2>3. Mark(q, i) \in Pens /\ Mark(q, i).page = q.page /\ Mark(q, i).y = q.y
    BY <2>2, PenMoves DEF IsPen
  <2>4. Mark(q, i).drawn = q.drawn \cup {[page |-> q.page, y |-> q.y, what |-> i]}
    BY <2>2, PenMoves DEF IsPen
  <2>5. last = Mark(q, i)
    BY DEF p, q
  <2>6. [page |-> q.page, y |-> q.y, what |-> i] = end
    BY <2>1, <2>2
  <2> HIDE DEF last, first, end
  <2> QED BY <2>1, <2>2, <2>3, <2>4, <2>5, <2>6
<1> DEFINE new == Down(last, height - drop)
<1>10. /\ new \in Pens /\ new.page = top.page /\ new.y = top.y - height
       /\ new.drawn = pen.drawn \cup {first, end}
  <2>1. height - drop \in Int /\ (top.y - drop) - (height - drop) = top.y - height
    BY <1>5, <1>8
  <2> HIDE DEF last, first, end
  <2> QED BY <1>6, <1>9, <2>1, PenMoves DEF IsPen
<1> HIDE DEF last, new
<1>11. RowsOf({first, end}, new.page, line, i)
  <2>1. \A r \in {first, end} : r.what = i /\ r.page = new.page /\ (height <= 577 => r.y >= 124)
    BY <1>5, <1>6, <1>8, <1>10
  <2> QED BY <1>2, <1>4, <2>1 DEF RowsOf
<1> HIDE DEF first, end
<1>12. new.page = pen.page \/ new.page = pen.page + 1
  BY <1>6, <1>10
<1>13. pen.y <= 701 => new.y <= 701
  BY <1>5, <1>6, <1>8, <1>10
<1>14. pen.y <= 701 /\ RowHeight(line) > SheetRoom => new.page = pen.page + 1
  BY <1>2, <1>4, <1>6, <1>10
<1>15. \E added : new.drawn = pen.drawn \cup added /\ RowsOf(added, new.page, line, i)
  BY <1>10, <1>11
<1>16. LineOn(new, pen, line, i)
  BY <1>10, <1>12, <1>13, <1>14, <1>15 DEF LineOn
<1> QED BY <1>7, <1>16 DEF new

LEMMA LineDrawn ==
  ASSUME NEW i \in Nat \ {0}, NEW lines, lines[i].lineId = i, NEW pen, RowsKept(pen, i - 1, lines)
  PROVE  RowsKept(drawLine(pen, lines[i]), i, lines)
<1> DEFINE line == lines[i]
           new == drawLine(pen, line)
<1>1. pen \in Pens /\ pen.page \in Nat /\ pen.y <= 701
  BY DEF RowsKept, Pens
<1>2. LineOn(drawLine(pen, lines[i]), pen, lines[i], i)
  BY <1>1, LineMoves
<1>3. /\ new \in Pens /\ (new.page = pen.page \/ new.page = pen.page + 1)
      /\ new.y <= 701
      /\ RowHeight(line) > SheetRoom => new.page = pen.page + 1
  BY <1>1, <1>2 DEF LineOn
<1>4. PICK added : new.drawn = pen.drawn \cup added /\ RowsOf(added, new.page, line, i)
  BY <1>2, Zenon DEF LineOn
<1> HIDE DEF new
<1>5. \A r \in added : /\ r.what = i /\ r.page = new.page
                       /\ RowHeight(line) <= SheetRoom => r.y >= Foot
  BY <1>4 DEF RowsOf
<1>6. \A r \in pen.drawn : /\ r.what \in 1..(i - 1) /\ r.page <= pen.page /\ r.page \in Nat
  BY <1>1 DEF RowsKept, Pens, Marks
<1>7. \A r, s \in pen.drawn : RowClear(r, s, lines[r.what])
  BY DEF RowsKept
<1>8. \A r \in new.drawn : r.what \in 1..i /\ r.page <= new.page
  <2> TAKE r \in new.drawn
  <2>1. CASE r \in added
    BY <1>1, <1>3, <1>5, <2>1
  <2>2. CASE r \in pen.drawn
    BY <1>1, <1>3, <1>6, <2>2
  <2> QED BY <1>4, <2>1, <2>2
<1>9. ASSUME NEW r \in new.drawn, NEW s \in new.drawn PROVE RowClear(r, s, lines[r.what])
  <2>1. RowHeight(line) \in Nat /\ SheetRoom = 577
    BY HeightTyped
  <2>2. CASE r \in pen.drawn /\ s \in pen.drawn
    BY <1>7, <2>2
  <2>3. CASE r \in pen.drawn /\ s \in added
    <3>1. RowClear(r, r, lines[r.what])
      BY <1>7, <2>3
    <3>2. r.what # s.what /\ r.what <= s.what
      BY <1>5, <1>6, <2>3
    <3> QED BY <3>1, <3>2 DEF RowClear
  <2>4. CASE r \in added /\ s \in added
    <3>1. r.what = i /\ s.what = i /\ r.page = s.page /\ (RowHeight(line) <= SheetRoom => r.y >= Foot)
      BY <1>5, <2>4
    <3>2. r.what <= s.what
      BY <3>1
    <3>3. ~(RowHeight(line) > SheetRoom) => RowHeight(line) <= SheetRoom
      BY <2>1
    <3> QED BY <3>1, <3>2, <3>3 DEF RowClear
  <2>5. CASE r \in added /\ s \in pen.drawn
    <3>1. r.what = i /\ r.page = new.page /\ (RowHeight(line) <= SheetRoom => r.y >= Foot)
      BY <1>5, <2>5
    <3>2. r.what # s.what
      BY <1>6, <2>5, <3>1
    <3>3. RowHeight(line) > SheetRoom => r.page # s.page
      BY <1>1, <1>3, <1>6, <2>5, <3>1
    <3>4. ~(RowHeight(line) > SheetRoom) => RowHeight(line) <= SheetRoom
      BY <2>1
    <3> QED BY <3>1, <3>2, <3>3, <3>4 DEF RowClear
  <2> QED BY <1>4, <2>2, <2>3, <2>4, <2>5
<1>10. RowsKept(new, i, lines)
  BY <1>3, <1>8, <1>9 DEF RowsKept
<1> QED BY <1>10 DEF new

LEMMA LinesDrawn ==
  ASSUME NEW n \in Nat, NEW lines, DOMAIN lines = 1..n, \A i \in 1..n : lines[i].lineId = i,
         NEW start \in Pens, start.y <= 701, start.drawn = {}
  PROVE  RowsKept(FoldLeft(drawLine, start, lines), n, lines)
<1> DEFINE F(f) == [s \in SUBSET (1..n) |->
                      IF s = {} THEN start ELSE drawLine(f[s \ {Max(s)}], lines[Max(s)])]
           chosen == CHOOSE f : f = F(f)
<1>1. \A i \in 1..n, pen \in Pens : drawLine(pen, lines[i]) \in Pens
  BY LineMoves DEF LineOn
<1>2. PICK G \in [(1..n) \X Pens -> Pens] :
        \A i \in 1..n, pen \in Pens : G[<<i, pen>>] = drawLine(pen, lines[i])
  <2> DEFINE step == [p \in (1..n) \X Pens |-> drawLine(p[2], lines[p[1]])]
  <2>1. \A p \in (1..n) \X Pens : drawLine(p[2], lines[p[1]]) \in Pens
    BY <1>1
  <2>2. step \in [(1..n) \X Pens -> Pens]
    BY <2>1
  <2>3. \A i \in 1..n, pen \in Pens : step[<<i, pen>>] = drawLine(pen, lines[i])
    OBVIOUS
  <2> HIDE DEF step
  <2> QED BY <2>2, <2>3
<1>3. PICK f \in [SUBSET (1..n) -> Pens] : Unfolds(f, n, start, G)
  BY LeftFoldExists
<1>4. f = F(f)
  <2>1. ASSUME NEW s \in (SUBSET (1..n)) \ {{}}
        PROVE  f[s] = drawLine(f[s \ {Max(s)}], lines[Max(s)])
    <3>1. Max(s) \in 1..n
      BY MaxExists
    <3>2. f[s \ {Max(s)}] \in Pens
      OBVIOUS
    <3>3. f[s] = G[<<Max(s), f[s \ {Max(s)}]>>]
      BY <1>3 DEF Unfolds
    <3> QED BY <1>2, <3>1, <3>2, <3>3
  <2>2. f[{}] = start
    BY <1>3 DEF Unfolds
  <2>3. \A s \in SUBSET (1..n) :
          f[s] = IF s = {} THEN start ELSE drawLine(f[s \ {Max(s)}], lines[Max(s)])
    BY <2>1, <2>2
  <2> QED BY <2>3
<1>5. PICK drawn : drawn = F(drawn) /\ FoldLeft(drawLine, start, lines) = drawn[1..n]
  <2>1. FoldLeft(drawLine, start, lines) = chosen[1..n]
    BY DEF FoldLeft, MapThenFoldSet
  <2>2. chosen = F(chosen)
    <3> HIDE DEF F
    <3> QED BY <1>4
  <2> HIDE DEF F, chosen
  <2> QED BY <2>1, <2>2
<1> HIDE DEF chosen
<1>6. Solving(drawn, n, Pens, start, G)
  <2>1. drawn[{}] = start
    BY <1>5
  <2>2. ASSUME NEW s \in (SUBSET (1..n)) \ {{}}, drawn[s \ {Max(s)}] \in Pens
        PROVE  drawn[s] = G[<<Max(s), drawn[s \ {Max(s)}]>>]
    <3>1. Max(s) \in 1..n
      BY MaxExists
    <3>2. drawn[s] = drawLine(drawn[s \ {Max(s)}], lines[Max(s)])
      BY <1>5
    <3> QED BY <1>2, <2>2, <3>1, <3>2
  <2> QED BY <2>1, <2>2 DEF Solving
<1>7. PICK pens : Follows(pens, n, Pens, start, G) /\ pens[n] = drawn[1..n]
  <2>1. FollowedTo(drawn[1..n], n, Pens, start, G)
    BY <1>6, LeftFoldFollows
  <2> QED BY <2>1, Zenon DEF FollowedTo
<1>8. /\ pens \in [0..n -> Pens] /\ pens[0] = start
      /\ \A i \in 1..n : pens[i] = drawLine(pens[i - 1], lines[i])
  <2>1. /\ pens \in [0..n -> Pens] /\ pens[0] = start
        /\ \A i \in 1..n : pens[i] = G[<<i, pens[i - 1]>>]
    BY <1>7 DEF Follows
  <2>2. \A i \in 1..n : i - 1 \in 0..n
    OBVIOUS
  <2> QED BY <1>2, <2>1, <2>2
<1> DEFINE kept == {i \in Nat : RowsKept(pens[i], i, lines)}
<1>10. 0 \in kept
  BY <1>8 DEF RowsKept
<1>11. ASSUME NEW i \in 1..n, i - 1 \in kept PROVE i \in kept
  <2>1. i \in Nat \ {0} /\ lines[i].lineId = i /\ RowsKept(pens[i - 1], i - 1, lines)
    BY <1>11
  <2>2. RowsKept(drawLine(pens[i - 1], lines[i]), i, lines)
    BY <2>1, LineDrawn
  <2> QED BY <1>8, <2>1, <2>2
<1>12. n \in kept
  <2> HIDE DEF kept
  <2> QED BY <1>10, <1>11, ClimbTo
<1>13. RowsKept(pens[n], n, lines)
  BY <1>12
<1>14. FoldLeft(drawLine, start, lines) = pens[n]
  BY <1>5, <1>7, Zenon
<1> QED BY <1>13, <1>14

(* The totals are not of a line, wherever they are and however many they are. *)
Holds(pen, page, old) ==
  /\ DOMAIN pen = {"page", "y", "drawn"} /\ pen.page = page
  /\ \A r \in pen.drawn : r \in old \/ r.what = 0

LEMMA TotalsMove ==
  ASSUME NEW pen, NEW page, NEW old, Holds(pen, page, old), NEW points, NEW count
  PROVE  /\ Holds(Down(pen, points), page, old)
         /\ Holds(Mark(pen, 0), page, old)
         /\ Holds(drawRows(pen, count, points), page, old)
<1>1. Holds(Down(pen, points), page, old)
  BY DEF Holds, Down
<1>2. Holds(Mark(pen, 0), page, old)
  BY DEF Holds, Mark
<1>3. Holds(drawRows(pen, count, points), page, old)
  <2> DEFINE added == {[page |-> pen.page, y |-> pen.y - points * i, what |-> 0] : i \in 0..(count - 1)}
  <2>1. \A r \in added : r.what = 0
    OBVIOUS
  <2>2. drawRows(pen, count, points)
          = [pen EXCEPT !.y = pen.y - points * count, !.drawn = pen.drawn \cup added]
    BY DEF drawRows
  <2> HIDE DEF added
  <2> DEFINE to == pen.y - points * count
  <2>3. drawRows(pen, count, points) = [pen EXCEPT !.y = to, !.drawn = pen.drawn \cup added]
    BY <2>2
  <2> HIDE DEF to
  <2> QED BY <2>1, <2>3 DEF Holds
<1> QED BY <1>1, <1>2, <1>3

LEMMA TotalsDrawn ==
  ASSUME NEW pen \in Pens, NEW d, NEW computed
  PROVE  \E page \in {pen.page, pen.page + 1} : Holds(drawTotals(pen, d, computed), page, pen.drawn)
<1> DEFINE start == TotalsStart(pen, computed)
           old == pen.drawn
<1>1. PICK page \in {pen.page, pen.page + 1} : Holds(start, page, old)
  <2>1. DOMAIN pen = {"page", "y", "drawn"}
    BY DEF Pens
  <2>2. Holds(pen, pen.page, old)
    BY <2>1 DEF Holds
  <2>3. Holds(newPage(pen), pen.page + 1, old)
    BY <2>1, PenMoves DEF IsPen, Holds, Pens
  <2>4. Holds(drawHeader(newPage(pen)), pen.page + 1, old)
    BY <2>3, TotalsMove DEF drawHeader
  <2> QED BY <2>2, <2>4 DEF TotalsStart
<1> HIDE DEF start
<1> DEFINE a == drawRows(Down(start, 12), Len(TotalRows(computed)), 14)
           totals == Down(a, 4)
           b == drawRows(Down(totals, 4), Cardinality(Reasons(computed)), 15)
           reasons == Down(b, 4)
           account == IF Given(d.iban) THEN Down(Mark(reasons, 0), 11) ELSE reasons
           end == IF IsStated(d.paymentTerms) THEN Down(Mark(account, 0), 11) ELSE account
<1>2. Holds(a, page, old)
  BY <1>1, TotalsMove
<1> HIDE DEF a
<1>3. Holds(totals, page, old)
  BY <1>2, TotalsMove
<1> HIDE DEF totals
<1>4. Holds(b, page, old)
  BY <1>3, TotalsMove
<1> HIDE DEF b
<1>5. Holds(reasons, page, old)
  BY <1>4, TotalsMove
<1> HIDE DEF reasons
<1>6. Holds(account, page, old)
  BY <1>5, TotalsMove
<1> HIDE DEF account
<1>7. Holds(end, page, old)
  BY <1>6, TotalsMove
<1>8. drawTotals(pen, d, computed) = end
  BY DEF drawTotals, end, account, reasons, b, totals, a, start
<1> HIDE DEF end
<1> QED BY <1>7, <1>8

(* Where the first line starts. *)
LEMMA TableStarts ==
  ASSUME NEW d
  PROVE  LET start == drawTableHead(drawParties(drawHeader(FirstPage), d))
         IN  start \in Pens /\ start.y <= 701 /\ start.drawn = {}
<1> DEFINE references == Cardinality({f \in {"buyerReference", "purchaseOrderReference"} : IsStated(d[f])})
           drop == 37 + 11 * Max({PartyRows(d.seller), PartyRows(d.buyer)})
                     + (IF references = 0 THEN 0 ELSE 11 * references + 6)
<1>1. \A party : PartyRows(party) \in Nat
  <2> TAKE party
  <2> DEFINE stated == {f \in {"line1", "city", "siret", "vatId"} :
                          IF f \in {"siret", "vatId"} THEN Given(party[f]) ELSE IsStated(party[f])}
  <2>1. IsFiniteSet({"line1", "city", "siret", "vatId", "vatId", "vatId"})
    BY SixAreFinite
  <2>2. stated \subseteq {"line1", "city", "siret", "vatId", "vatId", "vatId"}
    OBVIOUS
  <2> HIDE DEF stated
  <2>3. IsFiniteSet(stated)
    BY <2>1, <2>2, FS_Subset
  <2>4. PartyRows(party) = Cardinality(stated)
    BY DEF PartyRows, stated
  <2> QED BY <2>3, <2>4, FS_CardinalityType
<1>2. \A m, n \in Nat : Max({m, n}) \in Nat
  <2> TAKE m, n \in Nat
  <2>1. \E x \in {m, n} : \A y \in {m, n} : x >= y
    OBVIOUS
  <2>2. Max({m, n}) \in {m, n}
    BY <2>1 DEF Max
  <2> QED BY <2>2
<1>3. references \in Nat
  <2> DEFINE stated == {f \in {"buyerReference", "purchaseOrderReference"} : IsStated(d[f])}
  <2>1. IsFiniteSet({"buyerReference", "purchaseOrderReference", "", "", "", ""})
    BY SixAreFinite
  <2>2. stated \subseteq {"buyerReference", "purchaseOrderReference", "", "", "", ""}
    OBVIOUS
  <2>3. references = Cardinality(stated)
    OBVIOUS
  <2> HIDE DEF stated
  <2> QED BY <2>1, <2>2, <2>3, FS_Subset, FS_CardinalityType
<1>4. drop \in Nat
  <2> DEFINE most == Max({PartyRows(d.seller), PartyRows(d.buyer)})
  <2>1. most \in Nat
    BY <1>1, <1>2
  <2> HIDE DEF most, references
  <2>2. drop = 37 + 11 * most + (IF references = 0 THEN 0 ELSE 11 * references + 6)
    BY DEF most
  <2> HIDE DEF drop
  <2> QED BY <1>3, <2>1, <2>2
<1>5. drawParties(drawHeader(FirstPage), d) = Down(drawHeader(FirstPage), drop)
  BY DEF drawParties
<1> HIDE DEF drop
<1>6. FirstPage \in Pens /\ FirstPage.y = 791 /\ FirstPage.drawn = {}
  BY DEF FirstPage, Pens, Marks, SheetHeight, MARGIN
<1> DEFINE p == Down(FirstPage, 72)
           q == Down(p, drop)
<1>7. p \in Pens /\ p.y = 719 /\ p.drawn = {}
  BY <1>6, PenMoves DEF IsPen
<1> HIDE DEF p
<1>8. q \in Pens /\ q.y = 719 - drop /\ q.drawn = {}
  <2>1. drop \in Int
    BY <1>4
  <2>2. \A points \in Int : IsPen(Down(p, points), p.page, p.y - points, p.drawn)
    BY <1>7, PenMoves
  <2>3. IsPen(Down(p, drop), p.page, p.y - drop, p.drawn)
    BY <2>1, <2>2
  <2> QED BY <1>7, <2>3 DEF IsPen
<1> HIDE DEF q
<1>9. Down(q, 18) \in Pens /\ Down(q, 18).y <= 701 /\ Down(q, 18).drawn = {}
  <2>1. IsPen(Down(q, 18), q.page, q.y - 18, q.drawn)
    BY <1>8, PenMoves
  <2> QED BY <1>4, <1>8, <2>1 DEF IsPen
<1>10. drawTableHead(drawParties(drawHeader(FirstPage), d)) = Down(q, 18)
  BY <1>5 DEF drawTableHead, drawHeader, p, q
<1> QED BY <1>9, <1>10

(* The rows of the lines of a page, its totals apart. *)
LEMMA PageClear ==
  ASSUME NEW d, DOMAIN d.lines = 1..Len(d.lines), Len(d.lines) \in Nat
  PROVE  LET computed == computeInvoice(d)
         IN  \A r, s \in {mark \in renderPdfA3(d, computed).drawn : mark.what # 0} :
               RowClear(r, s, computed.lines[r.what])
<1> DEFINE computed == computeInvoice(d)
           start == drawTableHead(drawParties(drawHeader(FirstPage), d))
           pen == FoldLeft(drawLine, start, computed.lines)
           last == drawTotals(pen, d, computed)
           n == Len(d.lines)
<1>1. /\ DOMAIN computed.lines = 1..n
      /\ \A i \in 1..n : computed.lines[i].lineId = i
  BY DEF computeInvoice, Computed, computeLine
<1>2. start \in Pens /\ start.y <= 701 /\ start.drawn = {}
  BY TableStarts
<1>3. renderPdfA3(d, computed).drawn = last.drawn
  BY DEF renderPdfA3, renderPage
<1> HIDE DEF computed, start
<1>4. RowsKept(pen, n, computed.lines)
  BY <1>1, <1>2, LinesDrawn
<1> HIDE DEF pen
<1>5. pen \in Pens
  BY <1>4 DEF RowsKept
<1>6. PICK page \in {pen.page, pen.page + 1} : Holds(last, page, pen.drawn)
  BY <1>5, TotalsDrawn
<1> HIDE DEF last
<1>7. \A r \in last.drawn : r.what # 0 => r \in pen.drawn
  BY <1>6 DEF Holds
<1>8. \A r, s \in pen.drawn : RowClear(r, s, computed.lines[r.what])
  BY <1>4 DEF RowsKept
<1>9. \A r, s \in {mark \in last.drawn : mark.what # 0} : RowClear(r, s, computed.lines[r.what])
  BY <1>7, <1>8
<1> QED BY <1>3, <1>9 DEF computed

(* What is printed is a list of lines with a list of notes. *)
LEMMA PrintedLists ==
  ASSUME FormTyped, GeneratedInv, generated # Nothing
  PROVE  /\ DOMAIN draft.lines = 1..Len(draft.lines) /\ Len(draft.lines) \in Nat
         /\ DOMAIN draft.notes = 1..Len(draft.notes) /\ Len(draft.notes) \in Nat
<1>1. CASE draft \in Drafts
  BY <1>1, DraftsAssumption, LenProperties
<1>2. CASE /\ draft = SubmittedDraft /\ IsIssueInvoiceDto
           /\ \A i \in DOMAIN rows : IsComplete(rows[i])
  <2>1. payload = [i \in 1..Len(rows) |-> payloadLine(i)] /\ Len(rows) \in Nat
    BY <1>2, AllSubmitted, LenProperties DEF FormTyped
  <2>2. draft.lines = [i \in 1..Len(rows) |-> draftOf(payload[i])] /\ draft.notes = header.notes
    BY <1>2, <2>1 DEF SubmittedDraft, FormTyped
  <2>3. draft.lines = [i \in 1..Len(rows) |-> draft.lines[i]] /\ DOMAIN draft.lines = 1..Len(rows)
    BY <2>2
  <2>4. Len(draft.lines) = Len(rows)
    BY <2>1, <2>3, LengthOf
  <2> QED BY <2>1, <2>2, <2>3, <2>4, LenProperties DEF FormTyped
<1> QED BY <1>1, <1>2 DEF GeneratedInv

(* No line of any draft is split between two pages, and no row of a line that has    *)
(* room on a sheet reaches the foot; a higher one starts a sheet. However long names *)
(* and descriptions are (pdf.ts).                                                    *)
THEOREM RowsClearOfFoot == Spec => []LinesClearOfFoot
<1>1. FormTyped /\ GeneratedInv => LinesClearOfFoot
  <2> SUFFICES ASSUME FormTyped, GeneratedInv, JustGenerated PROVE LinesClearOfFoot
    BY DEF LinesClearOfFoot
  <2>1. generated # Nothing /\ generated = Renditions(draft, computeInvoice(draft))
    BY DEF JustGenerated, GeneratedInv
  <2>2. /\ generated.page = renderPdfA3(draft, computeInvoice(draft))
        /\ generated.computed = computeInvoice(draft)
    BY <2>1 DEF Renditions
  <2>3. DOMAIN draft.lines = 1..Len(draft.lines) /\ Len(draft.lines) \in Nat
    BY <2>1, PrintedLists
  <2>4. \A r, s \in {mark \in renderPdfA3(draft, computeInvoice(draft)).drawn : mark.what # 0} :
          RowClear(r, s, computeInvoice(draft).lines[r.what])
    BY ONLY <2>3, PageClear
  <2> QED BY <2>2, <2>4 DEF LinesClearOfFoot, RowClear, TooHigh
<1> QED BY <1>1, GeneratedHolds, PTL

---------------------------------------------------------------------------
(* Powers of ten: the recursion has a solution. *)
Table(f, n) ==
  /\ f \in [0..n -> Nat]
  /\ f[0] = 1
  /\ \A i \in 1..n : f[i] = 10 * f[i - 1]

LEMMA TablesExist ==
  ASSUME NEW n \in Nat
  PROVE  \E f : Table(f, n)
<1> DEFINE G == [p \in (1..n) \X Nat |-> 10 * p[2]]
<1>1. G \in [(1..n) \X Nat -> Nat] /\ 1 \in Nat
  OBVIOUS
<1>2. PICK f : Follows(f, n, Nat, 1, G)
  <2> HIDE DEF G
  <2> QED BY <1>1, Followed
<1>3. f \in [0..n -> Nat] /\ f[0] = 1 /\ \A i \in 1..n : f[i] = G[<<i, f[i - 1]>>]
  BY <1>2 DEF Follows
<1>4. \A i \in 1..n : f[i - 1] \in Nat
  <2>1. \A i \in 1..n : i - 1 \in 0..n
    OBVIOUS
  <2> HIDE DEF G
  <2> QED BY <1>3, <2>1
<1>5. \A i \in 1..n : f[i] = 10 * f[i - 1]
  BY <1>3, <1>4
<1> QED BY <1>3, <1>5 DEF Table

LEMMA TablesAgree ==
  ASSUME NEW n \in Nat, NEW m \in Nat, NEW f, Table(f, n), NEW g, Table(g, m), NEW i \in Nat, i <= n, i <= m
  PROVE  f[i] = g[i]
<1> DEFINE S == {j \in 0..i : f[j] = g[j]}
<1>1. 0 \in S
  BY DEF Table
<1>2. ASSUME NEW j \in 1..i, j - 1 \in S PROVE j \in S
  BY <1>2 DEF Table
<1>3. i \in S
  <2> HIDE DEF S
  <2> QED BY <1>1, <1>2, ClimbTo
<1> QED BY <1>3

LEMMA PowersOfTen ==
  /\ \A n \in Nat : pow10[n] \in Nat \ {0}
  /\ pow10[0] = 1
  /\ \A n \in Nat : pow10[n + 1] = 10 * pow10[n]
<1> DEFINE f(n) == CHOOSE t : Table(t, n)
           p == [n \in Nat |-> f(n)[n]]
<1>1. \A n \in Nat : Table(f(n), n)
  BY TablesExist
<1>2. \A n \in Nat : p[n] = f(n)[n]
  OBVIOUS
<1> HIDE DEF f, p
<1>3. p[0] = 1
  BY <1>1, <1>2 DEF Table
<1>4. ASSUME NEW n \in Nat \ {0} PROVE p[n] = 10 * p[n - 1]
  <2>1. PICK m \in Nat : m = n - 1 /\ n = m + 1
    OBVIOUS
  <2>2. f(n)[m] = f(m)[m]
    BY <1>1, <2>1, TablesAgree
  <2>3. n \in 1..n
    OBVIOUS
  <2>4. f(n)[n] = 10 * f(n)[n - 1]
    BY <1>1, <2>3 DEF Table
  <2> QED BY <1>2, <2>1, <2>2, <2>4
<1>5. p = [n \in Nat |-> p[n]]
  BY DEF p
<1>6. p = [n \in Nat |-> IF n = 0 THEN 1 ELSE 10 * p[n - 1]]
  BY <1>3, <1>4, <1>5
<1>7. pow10 = [n \in Nat |-> IF n = 0 THEN 1 ELSE 10 * pow10[n - 1]]
  BY <1>6 DEF pow10
<1>8. pow10[0] = 1 /\ \A n \in Nat : pow10[n + 1] = 10 * pow10[n]
  <2>1. \A n \in Nat : n + 1 \in Nat /\ n + 1 # 0 /\ (n + 1) - 1 = n
    OBVIOUS
  <2> QED BY <1>7, <2>1
<1> DEFINE S == {n \in Nat : pow10[n] \in Nat \ {0}}
<1>9. 0 \in S
  BY <1>8
<1>10. ASSUME NEW n \in Nat, n \in S PROVE n + 1 \in S
  <2>1. pow10[n + 1] = 10 * pow10[n]
    BY <1>8
  <2> QED BY <1>10, <2>1
<1>11. Nat \subseteq S
  <2> HIDE DEF S
  <2> QED BY <1>9, <1>10, Climb
<1> QED BY <1>7, <1>8, <1>11

(* The powers that amounts of money meet. *)
LEMMA SmallPowers ==
  /\ pow10[0] = 1 /\ pow10[2] = 100 /\ pow10[4] = 10000
<1>1. pow10[0 + 1] = 10 /\ pow10[1 + 1] = 10 * pow10[1] /\ pow10[2 + 1] = 10 * pow10[2]
      /\ pow10[3 + 1] = 10 * pow10[3] /\ pow10[0] = 1
  BY PowersOfTen
<1>2. 0 + 1 = 1 /\ 1 + 1 = 2 /\ 2 + 1 = 3 /\ 3 + 1 = 4
  OBVIOUS
<1> QED BY <1>1, <1>2

---------------------------------------------------------------------------
(* Amounts *)
Decimals == [value : Int, scale : Nat]
Monies == [value : Int, scale : {2}]

LEMMA RescaledTyped ==
  ASSUME NEW d \in Decimals
  PROVE  Rescale(d, MonetaryScale) \in Monies
<1>1. d.value \in Int /\ d.scale \in Nat /\ Magnitude(d.value) \in Nat
  BY DEF Decimals, Magnitude
<1>2. CASE 2 >= d.scale
  <2>1. 2 - d.scale \in Nat
    BY <1>1, <1>2
  <2>2. pow10[2 - d.scale] \in Int
    BY <2>1, PowersOfTen
  <2>3. d.value * pow10[2 - d.scale] \in Int
    BY <1>1, <2>2
  <2> QED BY <1>2, <2>3 DEF Rescale, MonetaryScale, Dec, Monies
<1>3. CASE ~(2 >= d.scale)
  <2>1. d.scale - 2 \in Nat
    BY <1>1, <1>3
  <2>2. PICK p : p = pow10[d.scale - 2] /\ p \in Nat \ {0}
    BY <2>1, PowersOfTen
  <2>3. PICK q : q = Magnitude(d.value) \div p /\ q \in Int
    BY <1>1, <2>2
  <2>4. \A up \in {0, 1} : Signed(d.value < 0, q + up) \in Int
    BY <2>3 DEF Signed
  <2>5. \E up \in {0, 1} : Rescale(d, MonetaryScale) = Dec(Signed(d.value < 0, q + up), 2)
    BY <1>3, <2>2, <2>3 DEF Rescale, MonetaryScale
  <2> QED BY <2>4, <2>5 DEF Dec, Monies
<1> QED BY <1>2, <1>3

LEMMA MoneyIsItself ==
  ASSUME NEW d \in Monies
  PROVE  Rescale(d, MonetaryScale) = d
<1>1. d.value \in Int /\ d.scale = 2 /\ d = Dec(d.value, 2)
  BY DEF Monies, Dec
<1>2. Rescale(d, MonetaryScale) = Dec(d.value * pow10[2 - 2], 2)
  BY <1>1 DEF Rescale, MonetaryScale
<1>3. d.value * pow10[2 - 2] = d.value
  BY <1>1, SmallPowers
<1> QED BY <1>1, <1>2, <1>3

LEMMA CentsWritten ==
  ASSUME NEW d \in Monies
  PROVE  Cents(Written(d)) = d.value /\ Written(d) # NoElement
<1>1. d.value \in Int /\ d.scale = 2
  BY DEF Monies
<1>2. Written(d) = [negative |-> d.value < 0, whole |-> Magnitude(d.value) \div 100,
                    fraction |-> Magnitude(d.value) % 100, places |-> 2]
  BY <1>1, MoneyIsItself, SmallPowers DEF Written, Format
<1>3. Written(d).places = 2 /\ NoElement.places = -1
  BY <1>2 DEF NoElement
<1>4. Written(d) # NoElement
  BY <1>3
<1>5. Cents(Written(d)) = Signed(d.value < 0, 100 * (Magnitude(d.value) \div 100) + (Magnitude(d.value) % 100))
  BY <1>2, <1>4 DEF Cents
<1>6. PICK m \in Nat : m = Magnitude(d.value)
  BY <1>1 DEF Magnitude
<1>7. 100 * (m \div 100) + (m % 100) = m
  BY <1>6
<1>8. Signed(d.value < 0, m) = d.value
  BY <1>1, <1>6 DEF Signed, Magnitude
<1> QED BY <1>4, <1>5, <1>6, <1>7, <1>8

LEMMA MoneyAdds ==
  ASSUME NEW a \in Monies, NEW b \in Monies
  PROVE  /\ Plus(a, b) = Dec(a.value + b.value, 2) /\ Plus(a, b) \in Monies
         /\ Minus(a, b) = Dec(a.value - b.value, 2) /\ Minus(a, b) \in Monies
         /\ Less(Dec(0, 0), a) <=> 0 < a.value
         /\ Less(a, b) <=> a.value < b.value
<1>1. a.value \in Int /\ a.scale = 2 /\ b.value \in Int /\ b.scale = 2
  BY DEF Monies
<1>2. CommonScale(a, b) = 2 /\ CommonScale(Dec(0, 0), a) = 2
  BY <1>1 DEF CommonScale, Dec
<1>3. Rescale(a, 2).value = a.value /\ Rescale(b, 2).value = b.value
  BY MoneyIsItself DEF MonetaryScale
<1>4. Rescale(Dec(0, 0), 2).value = 0
  <2>1. Rescale(Dec(0, 0), 2) = Dec(0 * pow10[2 - 0], 2) /\ 2 - 0 = 2
    BY DEF Rescale, Dec
  <2>2. 0 * pow10[2 - 0] = 0
    BY SmallPowers
  <2> QED BY <2>1, <2>2 DEF Dec
<1>5. /\ Plus(a, b) = Dec(a.value + b.value, 2) /\ Minus(a, b) = Dec(a.value - b.value, 2)
      /\ Less(Dec(0, 0), a) <=> 0 < a.value
      /\ Less(a, b) <=> a.value < b.value
  BY <1>2, <1>3, <1>4 DEF Plus, Minus, Less, Aligned
<1>6. Dec(a.value + b.value, 2) \in Monies /\ Dec(a.value - b.value, 2) \in Monies
  BY <1>1 DEF Dec, Monies
<1> QED BY <1>5, <1>6

(* Amounts of money, and their values. *)
MoneyList(a, n, h) ==
  DOMAIN a = 1..n /\ \A i \in 1..n : a[i] \in Monies /\ h[i] = a[i].value

(* A total folded from left to right is the sum. *)
LEMMA TotalAdds ==
  ASSUME NEW n \in Nat, NEW a, NEW h, MoneyList(a, n, h), NEW f, AddsUp(f, 1..n, h)
  PROVE  Total(a) = Dec(f[1..n], 2) /\ Total(a) \in Monies
<1>0. DOMAIN a = 1..n /\ \A i \in 1..n : a[i] \in Monies /\ h[i] = a[i].value
  BY DEF MoneyList
<1> DEFINE start == Dec(0, 2)
           F(t) == [s \in SUBSET (1..n) |->
                      IF s = {} THEN start ELSE Plus(t[s \ {Max(s)}], a[Max(s)])]
           chosen == CHOOSE t : t = F(t)
<1>1. start \in Monies
  BY DEF Dec, Monies
<1>2. PICK G \in [(1..n) \X Monies -> Monies] :
        \A i \in 1..n, d \in Monies : G[<<i, d>>] = Plus(d, a[i])
  <2> DEFINE step == [p \in (1..n) \X Monies |-> Plus(p[2], a[p[1]])]
  <2>1. \A p \in (1..n) \X Monies : Plus(p[2], a[p[1]]) \in Monies
    BY <1>0, MoneyAdds
  <2>2. step \in [(1..n) \X Monies -> Monies]
    BY <2>1
  <2>3. \A i \in 1..n, d \in Monies : step[<<i, d>>] = Plus(d, a[i])
    OBVIOUS
  <2> HIDE DEF step
  <2> QED BY <2>2, <2>3
<1>3. PICK t \in [SUBSET (1..n) -> Monies] : Unfolds(t, n, start, G)
  <2> HIDE DEF start
  <2> QED BY <1>1, LeftFoldExists
<1>4. t = F(t)
  <2>1. ASSUME NEW s \in (SUBSET (1..n)) \ {{}}
        PROVE  t[s] = Plus(t[s \ {Max(s)}], a[Max(s)])
    <3>1. Max(s) \in 1..n
      BY MaxExists
    <3>2. t[s \ {Max(s)}] \in Monies
      OBVIOUS
    <3>3. t[s] = G[<<Max(s), t[s \ {Max(s)}]>>]
      BY <1>3 DEF Unfolds
    <3> QED BY <1>2, <3>1, <3>2, <3>3
  <2>2. t[{}] = start
    BY <1>3 DEF Unfolds
  <2> HIDE DEF start
  <2>3. \A s \in SUBSET (1..n) :
          t[s] = IF s = {} THEN start ELSE Plus(t[s \ {Max(s)}], a[Max(s)])
    BY <2>1, <2>2
  <2> QED BY <2>3
<1>5. PICK sum : sum = F(sum) /\ Total(a) = sum[1..n]
  <2>1. Total(a) = chosen[1..n]
    BY <1>0 DEF Total, FoldLeft, MapThenFoldSet, MonetaryScale
  <2>2. chosen = F(chosen)
    <3> HIDE DEF F
    <3> QED BY <1>4
  <2> HIDE DEF F, chosen
  <2> QED BY <2>1, <2>2
<1> HIDE DEF chosen
<1>6. /\ sum[{}] = start
      /\ \A s \in (SUBSET (1..n)) \ {{}} : sum[s] = Plus(sum[s \ {Max(s)}], a[Max(s)])
  BY <1>5
<1> HIDE DEF F
<1> DEFINE S == {i \in 0..n : f[Upto(i)] \in Int /\ sum[Upto(i)] = Dec(f[Upto(i)], 2)}
<1>7. 0 \in S
  <2>1. Upto(0) = {} /\ f[Upto(0)] = 0
    BY SumGrows DEF Upto
  <2>2. sum[Upto(0)] = Dec(f[Upto(0)], 2)
    BY <1>6, <2>1
  <2> QED BY <2>1, <2>2
<1>8. ASSUME NEW i \in 1..n, i - 1 \in S PROVE i \in S
  <2>1. /\ Upto(i) \in (SUBSET (1..n)) \ {{}}
        /\ Max(Upto(i)) = i /\ Upto(i) \ {Max(Upto(i))} = Upto(i - 1)
    BY LastOf DEF Upto
  <2>2. sum[Upto(i)] = Plus(sum[Upto(i - 1)], a[i])
    BY <1>6, <2>1
  <2>3. f[Upto(i)] = h[i] + f[Upto(i - 1)] /\ f[Upto(i)] \in Int /\ f[Upto(i - 1)] \in Int
    BY <1>8, SumGrows
  <2>4. PICK v \in Int : v = f[Upto(i - 1)] /\ sum[Upto(i - 1)] = Dec(v, 2)
    BY <1>8, <2>3
  <2>5. Dec(v, 2) \in Monies /\ Dec(v, 2).value = v
    BY DEF Dec, Monies
  <2>6. sum[Upto(i)] = Dec(v + a[i].value, 2)
    <3>1. PICK d \in Monies, e \in Monies : d = Dec(v, 2) /\ e = a[i]
      BY <1>0, <2>5
    <3>2. Plus(d, e) = Dec(d.value + e.value, 2)
      BY MoneyAdds
    <3> QED BY <2>2, <2>4, <2>5, <3>1, <3>2
  <2>7. v + a[i].value = f[Upto(i)]
    <3>1. h[i] \in Int /\ h[i] = a[i].value
      BY <1>0 DEF Monies
    <3> QED BY <2>3, <2>4, <3>1
  <2> QED BY <2>3, <2>6, <2>7
<1>9. n \in S
  <2> HIDE DEF S
  <2> QED BY <1>7, <1>8, ClimbTo
<1>10. f[Upto(n)] \in Int /\ sum[Upto(n)] = Dec(f[Upto(n)], 2) /\ Upto(n) = 1..n
  BY <1>9 DEF Upto
<1>11. Total(a) = Dec(f[1..n], 2) /\ f[1..n] \in Int
  BY <1>5, <1>10
<1> QED BY <1>11 DEF Dec, Monies

(* The two ways to round half a cent away from zero. *)
LEMMA HalvesAlike ==
  ASSUME NEW m \in Nat
  PROVE  (m \div 10000) + (IF 2 * (m % 10000) >= 10000 THEN 1 ELSE 0) = (2 * m + 10000) \div 20000
OBVIOUS

LEMMA VatRounds ==
  ASSUME NEW b \in Monies, NEW r \in Monies
  PROVE  vatOn(b, r) \in Monies /\ vatOn(b, r).value = VatCents(b.value, r.value)
<1>1. b.value \in Int /\ b.scale = 2 /\ r.value \in Int /\ r.scale = 2
  BY DEF Monies
<1>2. PICK p \in Int : p = b.value * r.value
  BY <1>1
<1>3. vatOn(b, r) = Rescale(Dec(p, 6), 2)
  <2>1. Times(b, r) = Dec(p, 4)
    BY <1>1, <1>2 DEF Times
  <2> QED BY <2>1 DEF vatOn, MonetaryScale, Dec
<1>4. PICK m \in Nat : m = Magnitude(p)
  BY <1>2 DEF Magnitude
<1>5. PICK c \in Int : c = (m \div 10000) + (IF 2 * (m % 10000) >= 10000 THEN 1 ELSE 0)
                       /\ c = (2 * m + 10000) \div 20000
  BY HalvesAlike
<1>6. Rescale(Dec(p, 6), 2) = Dec(Signed(p < 0, c), 2)
  <2>1. pow10[6 - 2] = 10000
    BY SmallPowers
  <2> QED BY <1>4, <1>5, <2>1 DEF Rescale, Dec
<1>7. VatCents(b.value, r.value) = Signed(p < 0, c)
  BY <1>2, <1>4, <1>5 DEF VatCents
<1>8. Signed(p < 0, c) \in Int
  BY DEF Signed
<1> QED BY <1>3, <1>6, <1>7, <1>8 DEF Dec, Monies

(* The sums over a document's elements. *)
LineCentsIn(doc, n, h) ==
  DOMAIN doc.lines = 1..n /\ \A i \in 1..n : h[i] = Cents(doc.lines[i].lineTotal)

LEMMA LineCentsAre ==
  ASSUME NEW doc, NEW n \in Nat, NEW h, LineCentsIn(doc, n, h),
         NEW f, AddsUp(f, 1..n, h), NEW T, T \in SUBSET (1..n)
  PROVE  LineCents(doc, T) = f[T]
<1> DEFINE F(t) == [s \in SUBSET T |->
                      IF s = {} THEN 0
                      ELSE Cents(doc.lines[CHOOSE x \in s : TRUE].lineTotal)
                             + t[s \ {CHOOSE x \in s : TRUE}]]
           sum == CHOOSE t : t = F(t)
<1>1. ASSUME NEW t PROVE Summing(t, T, h) <=> t = F(t)
  <2>1. \A s \in (SUBSET T) \ {{}} :
          h[CHOOSE x \in s : TRUE] = Cents(doc.lines[CHOOSE x \in s : TRUE].lineTotal)
    <3> TAKE s \in (SUBSET T) \ {{}}
    <3>1. PICK x \in s : x = CHOOSE y \in s : TRUE
      OBVIOUS
    <3> QED BY <3>1 DEF LineCentsIn
  <2> DEFINE A == [s \in SUBSET T |->
                    IF s = {} THEN 0
                    ELSE h[CHOOSE x \in s : TRUE] + t[s \ {CHOOSE x \in s : TRUE}]]
  <2>2. A = F(t)
    <3>1. \A s \in SUBSET T :
            (IF s = {} THEN 0
             ELSE h[CHOOSE x \in s : TRUE] + t[s \ {CHOOSE x \in s : TRUE}])
            = (IF s = {} THEN 0
               ELSE Cents(doc.lines[CHOOSE x \in s : TRUE].lineTotal)
                      + t[s \ {CHOOSE x \in s : TRUE}])
      BY <2>1
    <3> QED BY <3>1
  <2>3. Summing(t, T, h) <=> t = A
    BY DEF Summing
  <2> HIDE DEF A, F
  <2> QED BY <2>2, <2>3
<1>2. LineCents(doc, T) = sum[T]
  BY DEF LineCents, MapThenSumSet, MapThenFoldSet
<1>3. \E t : Summing(t, T, h)
  BY SumPart
<1>4. sum = F(sum)
  <2> HIDE DEF F
  <2> QED BY <1>1, <1>3
<1> HIDE DEF sum, F
<1>5. IsFiniteSet(1..n)
  BY FS_Interval
<1>6. PICK N : N = 1..n /\ IsFiniteSet(N) /\ T \in SUBSET N /\ AddsUp(f, N, h)
  BY <1>5
<1>7. Summing(sum, T, h)
  BY <1>1, <1>4
<1>8. sum[T] = f[T]
  <2>1. IsFiniteSet(N) /\ T \in SUBSET N /\ AddsUp(f, N, h)
    BY <1>6
  <2> QED BY ONLY <1>7, <2>1, SumTaken
<1> QED BY <1>2, <1>8

TaxCentsIn(doc, n, h) ==
  DOMAIN doc.taxes = 1..n /\ \A i \in 1..n : h[i] = Cents(doc.taxes[i].calculatedAmount)

LEMMA TaxCentsAre ==
  ASSUME NEW doc, NEW n \in Nat, NEW h, TaxCentsIn(doc, n, h),
         NEW f, AddsUp(f, 1..n, h)
  PROVE  TaxCents(doc) = f[1..n]
<1> DEFINE T == 1..n
           F(t) == [s \in SUBSET T |->
                      IF s = {} THEN 0
                      ELSE Cents(doc.taxes[CHOOSE x \in s : TRUE].calculatedAmount)
                             + t[s \ {CHOOSE x \in s : TRUE}]]
           sum == CHOOSE t : t = F(t)
<1>1. ASSUME NEW t PROVE Summing(t, T, h) <=> t = F(t)
  <2>1. \A s \in (SUBSET T) \ {{}} :
          h[CHOOSE x \in s : TRUE] = Cents(doc.taxes[CHOOSE x \in s : TRUE].calculatedAmount)
    <3> TAKE s \in (SUBSET T) \ {{}}
    <3>1. PICK x \in s : x = CHOOSE y \in s : TRUE
      OBVIOUS
    <3> QED BY <3>1 DEF TaxCentsIn
  <2> DEFINE A == [s \in SUBSET T |->
                    IF s = {} THEN 0
                    ELSE h[CHOOSE x \in s : TRUE] + t[s \ {CHOOSE x \in s : TRUE}]]
  <2>2. A = F(t)
    <3>1. \A s \in SUBSET T :
            (IF s = {} THEN 0
             ELSE h[CHOOSE x \in s : TRUE] + t[s \ {CHOOSE x \in s : TRUE}])
            = (IF s = {} THEN 0
               ELSE Cents(doc.taxes[CHOOSE x \in s : TRUE].calculatedAmount)
                      + t[s \ {CHOOSE x \in s : TRUE}])
      BY <2>1
    <3> QED BY <3>1
  <2>3. Summing(t, T, h) <=> t = A
    BY DEF Summing
  <2> HIDE DEF A, F
  <2> QED BY <2>2, <2>3
<1>2. TaxCents(doc) = sum[T]
  BY DEF TaxCents, TaxCentsIn, MapThenSumSet, MapThenFoldSet
<1>5. IsFiniteSet(T) /\ T \in SUBSET T /\ AddsUp(f, T, h)
  BY FS_Interval
<1>3. \E t : Summing(t, T, h)
  <2> HIDE DEF T
  <2> QED BY <1>5, SumPart
<1>4. sum = F(sum)
  <2> HIDE DEF F
  <2> QED BY <1>1, <1>3
<1> HIDE DEF sum, F
<1>6. Summing(sum, T, h)
  BY <1>1, <1>4
<1>7. sum[T] = f[T]
  <2> HIDE DEF T
  <2> QED BY <1>5, <1>6, SumTaken
<1> QED BY <1>2, <1>7

---------------------------------------------------------------------------
(* Lines and their groups *)
Priced(line) == {line.quantity, line.unitPrice, line.vatRatePercent} \subseteq Decimals

LEMMA NetIsMoney ==
  ASSUME NEW line, Priced(line), NEW i
  PROVE  computeLine(line, i).netAmount \in Monies
<1>1. PICK q \in Decimals, u \in Decimals : q = line.quantity /\ u = line.unitPrice
  BY DEF Priced
<1>2. Times(q, u) \in Decimals
  BY DEF Times, Dec, Decimals
<1> QED BY <1>1, <1>2, RescaledTyped DEF computeLine

LEMMA RateIsMoney ==
  ASSUME NEW line, Priced(line)
  PROVE  Rescale(line.vatRatePercent, MonetaryScale) \in Monies
BY RescaledTyped DEF Priced

LEMMA RateWritten ==
  ASSUME NEW line, Priced(line)
  PROVE  LET rate == Rescale(line.vatRatePercent, MonetaryScale)
         IN Written(line.vatRatePercent) = Written(rate) /\ Cents(Written(rate)) = rate.value
<1>1. PICK rate \in Monies : rate = Rescale(line.vatRatePercent, MonetaryScale)
  BY RateIsMoney
<1>2. Rescale(rate, MonetaryScale) = rate
  BY MoneyIsItself
<1> QED BY <1>1, <1>2, CentsWritten DEF Written

(* Two lines are of one group when they state the same category and rate. *)
LEMMA SameKey ==
  ASSUME NEW l, Priced(l), NEW m, Priced(m)
  PROVE  groupKey(l) = groupKey(m) <=>
           l.vatCategory = m.vatCategory /\ Written(l.vatRatePercent) = Written(m.vatRatePercent)
<1>1. PICK a \in Monies, b \in Monies :
        /\ a = Rescale(l.vatRatePercent, MonetaryScale)
        /\ b = Rescale(m.vatRatePercent, MonetaryScale)
  BY RateIsMoney
<1>2. /\ Written(l.vatRatePercent) = Written(a) /\ Cents(Written(a)) = a.value
      /\ Written(m.vatRatePercent) = Written(b) /\ Cents(Written(b)) = b.value
  BY <1>1, RateWritten
<1>3. a.value = b.value => a = b
  BY DEF Monies
<1>4. a.value = b.value <=> Written(a) = Written(b)
  BY <1>2, <1>3
<1> QED BY <1>1, <1>2, <1>4 DEF groupKey

(* Each line has one group: the one that the first line with its key began. *)
HasOneGroup(lines, starts, i) ==
  \E k \in 1..Len(starts) :
     {q \in 1..Len(starts) : groupKey(lines[starts[q]]) = groupKey(lines[i])} = {k}

LEMMA OneGroupEach ==
  ASSUME NEW T, NEW lines \in Seq(T), NEW i \in 1..Len(lines), NEW starts, starts = GroupStarts(lines)
  PROVE  HasOneGroup(lines, starts, i)
<1>0. PICK n \in Nat : n = Len(lines) /\ DOMAIN lines = 1..n
  BY LenProperties
<1> DEFINE first == {p \in DOMAIN Ids(n) :
                       \A j \in 1..(Ids(n)[p] - 1) : groupKey(lines[j]) # groupKey(lines[Ids(n)[p]])}
           key(j) == groupKey(lines[j])
<1>1. starts = Selected(Ids(n), first)
  BY <1>0 DEF GroupStarts, filter, Ids
<1>2. /\ Ids(n) \in Seq(1..n) /\ Len(Ids(n)) = n /\ DOMAIN Ids(n) = 1..n
      /\ \A p \in 1..n : Ids(n)[p] = p
  BY <1>0, IdsAreSeq DEF Ids
<1>3. \A p \in 1..n : p \in first <=> \A j \in 1..(p - 1) : key(j) # key(p)
  BY <1>2
<1> HIDE DEF first
<1>4. Positioned(starts, Ids(n), first) /\ starts \in Seq(1..n)
  BY <1>1, <1>2, SelectedPositions, SelectedElements
<1>5. PICK m \in 0..n : \E at \in [1..m -> (1..n) \cap first] :
        /\ starts = [k \in 1..m |-> Ids(n)[at[k]]] /\ Len(starts) = m
        /\ Rises(at, m)
        /\ \A p \in (1..n) \cap first : \E k \in 1..m : at[k] = p
  BY <1>2, <1>4 DEF Positioned
<1>6. PICK at \in [1..m -> (1..n) \cap first] :
        /\ starts = [k \in 1..m |-> Ids(n)[at[k]]] /\ Len(starts) = m
        /\ Rises(at, m)
        /\ \A p \in (1..n) \cap first : \E k \in 1..m : at[k] = p
  BY <1>5
<1>7. \A k \in 1..m : starts[k] = at[k] /\ at[k] \in 1..n /\ at[k] \in first
  BY <1>2, <1>6
<1>8. PICK p \in 1..n : key(p) = key(i) /\ p \in first
  <2> DEFINE A == {j \in 1..n : key(j) = key(i)}
  <2>1. A \in SUBSET Nat /\ A # {}
    BY <1>0
  <2>2. PICK p \in A : \A y \in A : p <= y
    <3> HIDE DEF A
    <3> QED BY <2>1, Least
  <2>3. p \in 1..n /\ key(p) = key(i)
    BY <2>2
  <2>4. ASSUME NEW j \in 1..(p - 1) PROVE key(j) # key(p)
    <3>1. j \in 1..n /\ ~(p <= j)
      BY <2>3
    <3> QED BY <2>2, <2>3, <3>1
  <2> QED BY <1>3, <2>3, <2>4
<1>9. PICK k \in 1..m : at[k] = p
  BY <1>6, <1>8
<1>10. ASSUME NEW q \in 1..m, NEW r \in 1..m, q < r PROVE key(at[q]) # key(at[r])
  <2>1. at[q] < at[r] /\ at[q] \in 1..n /\ at[r] \in 1..n /\ at[r] \in first
    BY <1>6, <1>7, <1>10 DEF Rises
  <2>2. at[q] \in 1..(at[r] - 1)
    BY <2>1
  <2> QED BY <1>3, <2>1, <2>2
<1>11. ASSUME NEW q \in 1..m, key(at[q]) = key(i) PROVE q = k
  <2>1. key(at[q]) = key(at[k])
    BY <1>8, <1>9, <1>11
  <2>2. q < k \/ k < q \/ q = k
    OBVIOUS
  <2> HIDE DEF key
  <2> QED BY <1>10, <2>1, <2>2
<1>12. {q \in 1..m : key(starts[q]) = key(i)} = {k}
  <2> HIDE DEF key
  <2> QED BY <1>7, <1>8, <1>9, <1>11
<1> QED BY <1>0, <1>6, <1>12 DEF HasOneGroup

(* The amounts at some of the positions. *)
AmountsAt(nets, at, m, n, h) ==
  /\ at \in [1..m -> 1..n] /\ Rises(at, m) /\ DOMAIN nets = 1..m
  /\ \A k \in 1..m : nets[k] \in Monies /\ nets[k].value = h[at[k]]

Places(at, m) == {at[k] : k \in 1..m}

(* Their total is their sum. *)
LEMMA TotalOfSome ==
  ASSUME NEW n \in Nat, NEW h, NEW f, AddsUp(f, 1..n, h),
         NEW m \in Nat, NEW at, NEW nets, AmountsAt(nets, at, m, n, h)
  PROVE  Total(nets) = Dec(f[Places(at, m)], 2) /\ Total(nets) \in Monies
<1>0. /\ at \in [1..m -> 1..n] /\ Rises(at, m) /\ DOMAIN nets = 1..m
      /\ \A k \in 1..m : nets[k] \in Monies /\ nets[k].value = h[at[k]]
  BY DEF AmountsAt
<1> DEFINE u == [k \in 1..m |-> nets[k].value]
<1>1. u \in [1..m -> Int] /\ \A k \in 1..m : u[k] = h[at[k]] /\ u[k] = nets[k].value
  BY <1>0 DEF Monies
<1> HIDE DEF u
<1>2. PICK g : AddsUp(g, 1..m, u)
  <2>1. IsFiniteSet(1..m)
    BY FS_Interval
  <2> QED BY <1>1, <2>1, SumsExist
<1>3. MoneyList(nets, m, u)
  BY <1>0, <1>1 DEF MoneyList
<1>4. Total(nets) = Dec(g[1..m], 2) /\ Total(nets) \in Monies
  BY <1>2, <1>3, TotalAdds
<1>5. \A q, r \in 1..m : at[q] = at[r] => q = r
  <2> SUFFICES ASSUME NEW q \in 1..m, NEW r \in 1..m, at[q] = at[r] PROVE q = r
    OBVIOUS
  <2>1. q < r => at[q] < at[r]
    BY <1>0 DEF Rises
  <2>2. r < q => at[r] < at[q]
    BY <1>0 DEF Rises
  <2>3. at[q] \in 1..n /\ at[r] \in 1..n
    BY <1>0
  <2> QED BY <2>1, <2>2, <2>3
<1>6. PICK R, S : R = 1..m /\ S = 1..n
  OBVIOUS
<1>7. AddsUp(f, S, h)
  BY <1>6
<1>8. AddsUp(g, R, u)
  BY <1>2, <1>6
<1>9. at \in [R -> S]
  BY <1>0, <1>6
<1>10. IsFiniteSet(R)
  BY <1>6, FS_Interval
<1>11. \A q, r \in R : at[q] = at[r] => q = r
  BY <1>5, <1>6
<1>12. \A r \in R : u[r] = h[at[r]]
  BY <1>1, <1>6
<1>13. g[R] = f[{at[r] : r \in R}]
  BY ONLY <1>7, <1>8, <1>9, <1>10, <1>11, <1>12, SumOfImage
<1> QED BY <1>4, <1>6, <1>13 DEF Places

(* The basis of a group is the sum of its lines. *)
LEMMA GroupAddsUp ==
  ASSUME NEW T, NEW lines \in Seq(T), \A i \in 1..Len(lines) : Priced(lines[i]),
         NEW h, \A i \in 1..Len(lines) : h[i] = computeLine(lines[i], i).netAmount.value,
         NEW f, AddsUp(f, 1..Len(lines), h), NEW i \in 1..Len(lines)
  PROVE  LET group == SameGroup(lines, i)
             basis == Total([k \in DOMAIN group |-> computeLine(group[k], k).netAmount])
         IN /\ basis = Dec(f[{j \in 1..Len(lines) : groupKey(lines[j]) = groupKey(lines[i])}], 2)
            /\ basis \in Monies
<1>0. PICK n \in Nat : n = Len(lines) /\ DOMAIN lines = 1..n
  BY LenProperties
<1> DEFINE in == {j \in DOMAIN lines : groupKey(lines[j]) = groupKey(lines[i])}
           group == SameGroup(lines, i)
           nets == [k \in DOMAIN group |-> computeLine(group[k], k).netAmount]
<1>1. group = Selected(lines, in)
  BY DEF SameGroup, filter
<1>2. in \subseteq 1..n
  BY <1>0
<1> HIDE DEF in, group
<1>3. Positioned(group, lines, in)
  BY <1>1, SelectedPositions
<1>4. PICK m \in 0..n : \E at \in [1..m -> (1..n) \cap in] :
        /\ group = [k \in 1..m |-> lines[at[k]]]
        /\ Rises(at, m)
        /\ \A p \in (1..n) \cap in : \E k \in 1..m : at[k] = p
  BY <1>0, <1>3 DEF Positioned
<1>5. PICK at : /\ at \in [1..m -> (1..n) \cap in]
        /\ group = [k \in 1..m |-> lines[at[k]]]
        /\ Rises(at, m)
        /\ \A p \in (1..n) \cap in : \E k \in 1..m : at[k] = p
  BY <1>4
<1>6. \A k \in 1..m : group[k] = lines[at[k]] /\ at[k] \in 1..n /\ Priced(lines[at[k]])
  BY <1>0, <1>5
<1>7. DOMAIN nets = 1..m /\ \A k \in 1..m : nets[k] = computeLine(lines[at[k]], k).netAmount
  BY <1>5, <1>6
<1> HIDE DEF nets
<1>8. \A k \in 1..m : nets[k] \in Monies /\ nets[k].value = h[at[k]] /\ nets[k].value \in Int
  <2> TAKE k \in 1..m
  <2>1. nets[k] \in Monies
    <3>1. Priced(group[k]) /\ nets[k] = computeLine(group[k], k).netAmount
      BY <1>5, <1>6, <1>7
    <3> QED BY ONLY <3>1, NetIsMoney
  <2>2. computeLine(lines[at[k]], k).netAmount = computeLine(lines[at[k]], at[k]).netAmount
    BY DEF computeLine
  <2>3. nets[k].value = h[at[k]]
    BY <1>0, <1>6, <1>7, <2>2
  <2> QED BY <2>1, <2>3 DEF Monies
<1>9. Total(nets) = Dec(f[Places(at, m)], 2) /\ Total(nets) \in Monies
  <2>1. at \in [1..m -> 1..n] /\ Rises(at, m)
    BY <1>2, <1>5
  <2>2. AmountsAt(nets, at, m, n, h)
    BY <1>7, <1>8, <2>1 DEF AmountsAt
  <2>3. AddsUp(f, 1..n, h)
    BY <1>0
  <2>4. m \in Nat
    OBVIOUS
  <2>5. Total(nets) = Dec(f[Places(at, m)], 2)
    BY <2>2, <2>3, <2>4, TotalOfSome
  <2>6. Total(nets) \in Monies
    BY <2>2, <2>3, <2>4, TotalOfSome
  <2> QED BY <2>5, <2>6
<1>13. Places(at, m) = in
  BY <1>2, <1>5 DEF Places
<1>14. in = {j \in 1..Len(lines) : groupKey(lines[j]) = groupKey(lines[i])}
  BY <1>0 DEF in
<1> QED BY <1>9, <1>13, <1>14 DEF nets, group

---------------------------------------------------------------------------
(* What is known of a draft that passes its checks. *)
Amounts == Decimals \cup {NoAmount, Unreadable}

LineTyped(line) == {line.quantity, line.unitPrice, line.vatRatePercent} \subseteq Amounts

(* A rate of VAT is still one once it is written with two decimals. *)
RateKept(rate) == rate.value # 0 => Rescale(rate, MonetaryScale).value # 0

DraftTyped(d) ==
  /\ \A i \in DOMAIN d.lines : LineTyped(d.lines[i])
  /\ d.prepaidAmount \in Amounts
  /\ d.issueDate \in Int
  /\ {d.seller.siret, d.seller.siren, d.iban} \subseteq Seq(Int)

LEMMA NotRefused ==
  ASSUME NEW X, ~Blocks(X), NEW c, NEW issue, issue.severity = "error", When(c, issue) \subseteq X
  PROVE  ~c
BY DEF Blocks, When

LEMMA PartOf ==
  ASSUME NEW X, ~Blocks(X), NEW Y, Y \subseteq X
  PROVE  ~Blocks(Y)
BY DEF Blocks

LEMMA Readable ==
  ASSUME NEW a \in Amounts, IsReadable(a)
  PROVE  a \in Decimals
BY DEF Amounts, IsReadable, NoAmount, Unreadable, Dec

LEMMA ZeroStays ==
  ASSUME NEW a \in Decimals, a.value = 0, NEW s \in Nat
  PROVE  Rescale(a, s).value = 0
<1>1. a.scale \in Nat /\ Magnitude(a.value) = 0
  BY DEF Decimals, Magnitude
<1>2. CASE s >= a.scale
  <2>1. s - a.scale \in Nat
    BY <1>1, <1>2
  <2>2. pow10[s - a.scale] \in Nat
    BY <2>1, PowersOfTen
  <2>3. 0 * pow10[s - a.scale] = 0
    BY <2>2
  <2> QED BY <1>2, <2>3 DEF Rescale, Dec
<1>3. CASE ~(s >= a.scale)
  <2>1. a.scale - s \in Nat
    BY <1>1, <1>3
  <2>2. PICK p : p = pow10[a.scale - s] /\ p \in Nat \ {0}
    BY <2>1, PowersOfTen
  <2>3. 0 \div p = 0 /\ ~(2 * (0 % p) >= p)
    BY <2>2
  <2> QED BY <1>1, <1>3, <2>2, <2>3 DEF Rescale, Signed, Dec
<1> QED BY <1>2, <1>3

LEMMA MoreThanZero ==
  ASSUME NEW a \in Decimals, Less(Zero, a)
  PROVE  a.value # 0
<1> SUFFICES ASSUME a.value = 0 PROVE FALSE
  OBVIOUS
<1>1. Zero \in Decimals /\ Zero.value = 0
  BY DEF Zero, Dec, Decimals
<1>2. PICK s \in Nat : s = CommonScale(Zero, a)
  BY <1>1 DEF CommonScale, Decimals
<1>3. Rescale(Zero, s).value = 0 /\ Rescale(a, s).value = 0
  BY <1>1, <1>2, ZeroStays
<1> QED BY <1>2, <1>3 DEF Less, Aligned

LineAccepted(line) ==
  /\ IsFilled(line.name)
  /\ Priced(line)
  /\ line.vatCategory \in VAT_CATEGORIES
  /\ line.vatCategory \in ZERO_RATED_CATEGORIES => line.vatRatePercent.value = 0
  /\ line.vatCategory = "S" => line.vatRatePercent.value # 0
  /\ line.vatCategory \in REASON_REQUIRED_CATEGORIES => IsFilled(line.exemptionReason)

LEMMA CoherentLine ==
  ASSUME NEW line, NEW i, ~Blocks(checkVatCoherence(line, i)), line.vatRatePercent \in Decimals
  PROVE  /\ line.vatCategory \in ZERO_RATED_CATEGORIES => line.vatRatePercent.value = 0
         /\ line.vatCategory = "S" => line.vatRatePercent.value # 0
         /\ line.vatCategory \in REASON_REQUIRED_CATEGORIES => IsFilled(line.exemptionReason)
<1>1. ASSUME line.vatCategory \in ZERO_RATED_CATEGORIES PROVE line.vatRatePercent.value = 0
  <2>1. ~IsZero(line.vatRatePercent) =>
          Issue("lines", i, "vatRatePercent", "error", RateRule[line.vatCategory])
             \in checkVatCoherence(line, i)
    BY <1>1 DEF checkVatCoherence
  <2> QED BY <2>1 DEF Blocks, Issue, IsZero
<1>2. ASSUME line.vatCategory = "S" PROVE line.vatRatePercent.value # 0
  <2>1. ~Less(Zero, line.vatRatePercent) =>
          Issue("lines", i, "vatRatePercent", "error", "BR-S-05") \in checkVatCoherence(line, i)
    BY <1>2 DEF checkVatCoherence
  <2> QED BY <2>1, MoreThanZero DEF Blocks, Issue
<1>3. ASSUME line.vatCategory \in REASON_REQUIRED_CATEGORIES PROVE IsFilled(line.exemptionReason)
  <2>1. ~IsFilled(line.exemptionReason) =>
          Issue("lines", i, "exemptionReason", "error", ReasonRule[line.vatCategory])
             \in checkVatCoherence(line, i)
    BY <1>3 DEF checkVatCoherence
  <2> QED BY <2>1 DEF Blocks, Issue
<1> QED BY <1>1, <1>2, <1>3

LEMMA AcceptedLine ==
  ASSUME NEW line, NEW i, ~Blocks(checkLine(line, i)), LineTyped(line)
  PROVE  LineAccepted(line)
<1> DEFINE at(field, rule) == Issue("lines", i, field, "error", rule)
           X == checkLine(line, i)
<1>1. /\ When(~IsFilled(line.name), at("name", "BR-25")) \subseteq X
      /\ ~IsReadable(line.quantity) => at("quantity", "BR-22") \in X
      /\ When(~IsReadable(line.unitPrice), at("unitPrice", "BR-24")) \subseteq X
      /\ When(line.vatCategory \notin VAT_CATEGORIES, at("vatCategory", "BR-CO-04")) \subseteq X
      /\ When(line.vatCategory \in VAT_CATEGORIES /\ ~IsReadable(line.vatRatePercent),
              at("vatRatePercent", "")) \subseteq X
      /\ IsRated(line) => checkVatCoherence(line, i) \subseteq X
  BY DEF checkLine
<1>2. \A field, rule : at(field, rule).severity = "error"
  BY DEF Issue
<1> HIDE DEF at, X
<1>3. ~Blocks(X)
  BY DEF X
<1>4. /\ IsFilled(line.name) /\ IsReadable(line.unitPrice) /\ line.vatCategory \in VAT_CATEGORIES
      /\ IsReadable(line.vatRatePercent)
  BY <1>1, <1>2, <1>3, NotRefused
<1>5. IsReadable(line.quantity)
  BY <1>1, <1>2, <1>3 DEF Blocks
<1>6. Priced(line)
  BY <1>4, <1>5, Readable DEF Priced, LineTyped
<1>7. ~Blocks(checkVatCoherence(line, i)) /\ line.vatRatePercent \in Decimals
  BY <1>1, <1>3, <1>4, <1>6, PartOf DEF IsRated, Priced
<1> QED BY <1>4, <1>6, <1>7, CoherentLine DEF LineAccepted

(* A number without separators is left as it is. *)
LEMMA StripTyped ==
  ASSUME NEW t \in Seq(Int)
  PROVE  stripFormatting(t) \in Seq(Int) /\ (t = <<>> => stripFormatting(t) = <<>>)
<1> DEFINE in == {i \in DOMAIN t : t[i] # Separator}
<1>1. stripFormatting(t) = Selected(t, in)
  BY DEF stripFormatting, filter
<1>2. Selected(t, in) \in Seq(Int) /\ Len(Selected(t, in)) \in 0..Len(t)
  BY SelectedElements
<1>3. t = <<>> => Selected(t, in) = <<>>
  BY <1>2, EmptySeq
<1> QED BY <1>1, <1>2, <1>3

LEMMA StripOnce ==
  ASSUME NEW t \in Seq(Int), \A i \in DOMAIN t : t[i] # Separator
  PROVE  stripFormatting(t) = t
<1> DEFINE in == {i \in DOMAIN t : t[i] # Separator}
<1>1. stripFormatting(t) = Selected(t, in)
  BY DEF stripFormatting, filter
<1>2. 1..Len(t) \subseteq in
  BY LenProperties
<1> HIDE DEF in
<1> QED BY <1>1, <1>2, SelectedWhole

LEMMA OfAnotherLength ==
  ASSUME NEW n \in Nat \ {0, 1}, NEW s, Len(s) = n
  PROVE  s # NoId /\ s # <<>>
<1>1. Len(NoId) = 1 /\ Len(<<>>) = 0
  BY DEF NoId
<1>2. n # 1 /\ n # 0
  OBVIOUS
<1> QED BY ONLY <1>1, <1>2, Len(s) = n, Zenon

LEMMA StrippedSiret ==
  ASSUME NEW t \in Seq(Int), validateSiret(t) = "ok"
  PROVE  LET s == stripFormatting(t)
         IN /\ digitsOnly(t) = s /\ s \in Seq(Int) /\ AllDigits(s) /\ Len(s) = 14
            /\ sirenFromSiret(s) = SubSeq(s, 1, 9)
<1> DEFINE s == stripFormatting(t)
<1>1. ~AllBlank(t) /\ AllDigits(s) /\ Len(s) = 14
  BY DEF validateSiret
<1>2. s \in Seq(Int)
  BY StripTyped
<1> HIDE DEF s
<1>3. DOMAIN s = 1..14 /\ \A i \in 1..14 : s[i] \in 0..9
  BY <1>1, <1>2, LenProperties DEF AllDigits
<1>4. stripFormatting(s) = s
  <2>1. \A i \in DOMAIN s : s[i] # Separator
    <3> TAKE i \in DOMAIN s
    <3>1. PICK c : c = s[i] /\ c \in 0..9
      BY <1>3
    <3> QED BY <3>1 DEF Separator
  <2> QED BY <1>2, <2>1, StripOnce
<1>5. s # <<>> /\ s # NoId
  BY <1>1, OfAnotherLength, 14 \in Nat \ {0, 1}, Zenon
<1>6. ~AllBlank(s)
  BY <1>4, <1>5 DEF AllBlank
<1>7. validateSiret(s) = "ok"
  BY <1>1, <1>4, <1>6 DEF validateSiret, s
<1>8. sirenFromSiret(s) = SubSeq(s, 1, 9)
  BY <1>4, <1>7 DEF sirenFromSiret
<1>9. digitsOnly(t) = s
  BY <1>1 DEF digitsOnly, s
<1> QED BY <1>1, <1>2, <1>8, <1>9 DEF s

LEMMA StrippedSiren ==
  ASSUME NEW t \in Seq(Int), validateSiren(t) = "ok"
  PROVE  LET s == stripFormatting(t)
         IN /\ digitsOnly(t) = s /\ s \in Seq(Int) /\ AllDigits(s) /\ Len(s) = 9
            /\ validateSiren(s) = "ok" /\ stripFormatting(s) = s
<1> DEFINE s == stripFormatting(t)
<1>1. ~AllBlank(t) /\ AllDigits(s) /\ Len(s) = 9
  BY DEF validateSiren
<1>2. s \in Seq(Int)
  BY StripTyped
<1> HIDE DEF s
<1>3. DOMAIN s = 1..9 /\ \A i \in 1..9 : s[i] \in 0..9
  BY <1>1, <1>2, LenProperties DEF AllDigits
<1>4. stripFormatting(s) = s
  <2>1. \A i \in DOMAIN s : s[i] # Separator
    <3> TAKE i \in DOMAIN s
    <3>1. PICK c : c = s[i] /\ c \in 0..9
      BY <1>3
    <3> QED BY <3>1 DEF Separator
  <2> QED BY <1>2, <2>1, StripOnce
<1>5. s # <<>> /\ s # NoId
  BY <1>1, OfAnotherLength, 9 \in Nat \ {0, 1}, Zenon
<1>6. ~AllBlank(s)
  BY <1>4, <1>5 DEF AllBlank
<1>7. validateSiren(s) = "ok"
  BY <1>1, <1>4, <1>6 DEF validateSiren, s
<1>9. digitsOnly(t) = s
  BY <1>1 DEF digitsOnly, s
<1> QED BY <1>1, <1>2, <1>4, <1>7, <1>9 DEF s

(* The seller of an accepted draft is registered, and the number is written. *)
LEMMA SellerRegistered ==
  ASSUME NEW party, party.siret \in Seq(Int), party.siren \in Seq(Int),
         ~Blocks(checkParty(party, "seller")), party.countryCode = "FR"
  PROVE  partyNode(party).legalId # NoId
<1> DEFINE X == checkParty(party, "seller")
           siret == digitsOnly(party.siret)
           siren == digitsOnly(party.siren)
<1>1. \A f, r : Refusal("seller", f, r).severity = "error"
  BY DEF Refusal, Issue
<1>2. checkRegistration(party, "seller") \subseteq X
  BY DEF checkParty
<1>3. ~Blocks(checkRegistration(party, "seller"))
  BY <1>2, PartOf
<1>4. \A s : Len(s) \in {9, 14} => s # NoId
  BY OfAnotherLength, 9 \in Nat \ {0, 1}, 14 \in Nat \ {0, 1}, Zenon
<1>5. partyNode(party).legalId = IF siren # NoId THEN siren ELSE sirenFromSiret(siret)
  BY DEF partyNode, nodeOf, partySiren
<1> HIDE DEF X
<1>6. CASE Given(party.siret)
  <2>1. validateSiret(party.siret) = "ok"
    BY <1>1, <1>3, <1>6, NotRefused DEF checkRegistration
  <2>2. PICK s \in Seq(Int) : siret = s /\ Len(s) = 14 /\ sirenFromSiret(s) = SubSeq(s, 1, 9)
    BY <2>1, StrippedSiret
  <2>3. Len(SubSeq(s, 1, 9)) = 9
    BY <2>2
  <2>4. SubSeq(s, 1, 9) # NoId /\ s # NoId
    BY <1>4, <2>2, <2>3
  <2> HIDE DEF siret, siren
  <2> QED BY <1>5, <2>2, <2>4
<1>7. CASE ~Given(party.siret) /\ Given(party.siren)
  <2>1. validateSiren(party.siren) = "ok"
    BY <1>1, <1>3, <1>7, NotRefused DEF checkRegistration
  <2>2. PICK s \in Seq(Int) : siren = s /\ Len(s) = 9
    BY <2>1, StrippedSiren
  <2>3. s # NoId
    BY <1>4, <2>2
  <2> HIDE DEF siret, siren
  <2> QED BY <1>5, <2>2, <2>3
<1>8. CASE ~Given(party.siret) /\ ~Given(party.siren)
  <2>1. checkRegistration(party, "seller") = {Refusal("seller", "siret", "BR-FR-01")}
    BY <1>8 DEF checkRegistration, When
  <2> QED BY <1>1, <1>3, <2>1 DEF Blocks
<1> QED BY <1>6, <1>7, <1>8

LEMMA PartyNamed ==
  ASSUME NEW party, NEW part, ~Blocks(checkParty(party, part))
  PROVE  IsFilled(party.name)
<1> DEFINE X == checkParty(party, part)
           issue == Refusal(part, "name", IF part = "seller" THEN "BR-06" ELSE "BR-07")
<1>1. When(~IsFilled(party.name), issue) \subseteq X
  BY DEF checkParty
<1>2. issue.severity = "error"
  BY DEF Refusal, Issue
<1> HIDE DEF issue, X
<1> QED BY <1>1, <1>2, NotRefused DEF X

(* Its header. *)
LEMMA AcceptedHeader ==
  ASSUME NEW d, ~Blocks(checkHeader(d)), d.issueDate \in Int, d.iban \in Seq(Int)
  PROVE  /\ IsFilled(d.invoiceNumber)
         /\ d.issueDate > 0
         /\ paymentMeans(d) \in CREDIT_TRANSFER_MEANS =>
              Given(d.iban) /\ stripFormatting(d.iban) # NoId
<1> DEFINE X == checkHeader(d)
<1>1. /\ When(~IsFilled(d.invoiceNumber), Refusal("header", "invoiceNumber", "BR-02")) \subseteq X
      /\ When(d.issueDate = NoDate, Refusal("header", "issueDate", "BR-03")) \subseteq X
      /\ When(d.issueDate # NoDate /\ ~isRealDate(d.issueDate), Refusal("header", "issueDate", ""))
           \subseteq X
      /\ When(Given(d.iban) /\ ~isValidIban(d.iban), Refusal("header", "iban", "")) \subseteq X
      /\ When(d.paymentMeansCode \in CREDIT_TRANSFER_MEANS /\ AllBlank(d.iban),
              Refusal("header", "iban", "BR-CO-27")) \subseteq X
  BY DEF checkHeader
<1>2. \A f, r : Refusal("header", f, r).severity = "error"
  BY DEF Refusal, Issue
<1> HIDE DEF X
<1>3. ~Blocks(X)
  BY DEF X
<1>4. /\ IsFilled(d.invoiceNumber) /\ d.issueDate # NoDate /\ isRealDate(d.issueDate)
      /\ Given(d.iban) => isValidIban(d.iban)
      /\ ~(d.paymentMeansCode \in CREDIT_TRANSFER_MEANS /\ AllBlank(d.iban))
  <2>1. \A c, f, r : When(c, Refusal("header", f, r)) \subseteq X => ~c
    BY <1>2, <1>3 DEF When, Blocks
  <2> QED BY <1>1, <2>1, Zenon
<1>5. d.issueDate > 0
  BY <1>4 DEF isRealDate
<1>6. ASSUME paymentMeans(d) \in CREDIT_TRANSFER_MEANS
      PROVE  Given(d.iban) /\ stripFormatting(d.iban) # NoId
  <2>1. Given(d.iban)
    <3>1. ASSUME d.paymentMeansCode \in CREDIT_TRANSFER_MEANS PROVE Given(d.iban)
      <4>1. d.iban # NoId /\ stripFormatting(d.iban) # <<>>
        BY <1>4, <3>1 DEF AllBlank
      <4> QED BY <4>1, StripTyped DEF Given
    <3> QED BY <1>6, <3>1 DEF paymentMeans, CREDIT_TRANSFER_MEANS
  <2>2. Len(stripFormatting(d.iban)) \in 14..34
    BY <1>4, <2>1 DEF isValidIban
  <2>3. PICK n \in 14..34 : n = Len(stripFormatting(d.iban))
    BY <2>2
  <2>4. n \in Nat \ {0, 1}
    OBVIOUS
  <2> QED BY <2>1, <2>3, <2>4, OfAnotherLength
<1> QED BY <1>4, <1>5, <1>6

(* The whole draft. *)
DraftAccepted(d) ==
  /\ ~Blocks(checkHeader(d)) /\ ~Blocks(checkParty(d.seller, "seller"))
  /\ ~Blocks(checkParty(d.buyer, "buyer"))
  /\ d.lines # <<>>
  /\ \A i \in DOMAIN d.lines : LineAccepted(d.lines[i])
  /\ (\E i \in DOMAIN d.lines : d.lines[i].vatCategory = "K") => IsFilled(d.deliveryCountryCode)
  /\ d.prepaidAmount # Unreadable
  /\ ~Blocks(TotalsIssues(computeInvoice(d).totals, d))

InCommunity(d) == \E i \in DOMAIN d.lines : d.lines[i].vatCategory = "K"

LEMMA LinesAccepted ==
  ASSUME NEW d, DraftTyped(d), ~Blocks(checkLines(d))
  PROVE  /\ d.lines # <<>>
         /\ \A i \in DOMAIN d.lines : LineAccepted(d.lines[i])
         /\ (\E i \in DOMAIN d.lines : d.lines[i].vatCategory = "K") => IsFilled(d.deliveryCountryCode)
<1>1. \A f, r : Refusal("header", f, r).severity = "error"
  BY DEF Refusal, Issue
<1>2. d.lines # <<>>
  BY <1>1 DEF checkLines, Blocks
<1>3. /\ \A i \in DOMAIN d.lines : checkLine(d.lines[i], i) \subseteq checkLines(d)
      /\ When(InCommunity(d) /\ ~IsFilled(d.deliveryCountryCode),
              Refusal("header", "deliveryCountryCode", "BR-IC-12")) \subseteq checkLines(d)
  <2>1. checkLines(d) =
          (UNION {checkLine(d.lines[i], i) : i \in DOMAIN d.lines})
          \cup When(InCommunity(d) /\ ~IsFilled(d.deliveryCountryCode),
                    Refusal("header", "deliveryCountryCode", "BR-IC-12"))
          \cup When(ReasonsDiffer(d.lines), Warning("header", "lines", "BR-CO-18"))
    BY <1>2 DEF checkLines, InCommunity
  <2>2. \A i \in DOMAIN d.lines :
          checkLine(d.lines[i], i) \subseteq UNION {checkLine(d.lines[j], j) : j \in DOMAIN d.lines}
    BY Zenon
  <2> QED BY <2>1, <2>2
<1>4. ~(InCommunity(d) /\ ~IsFilled(d.deliveryCountryCode))
  BY <1>1, <1>3, NotRefused
<1>5. ASSUME NEW i \in DOMAIN d.lines PROVE LineAccepted(d.lines[i])
  <2>1. ~Blocks(checkLine(d.lines[i], i))
    BY <1>3, PartOf
  <2>2. LineTyped(d.lines[i])
    BY DEF DraftTyped
  <2> QED BY <2>1, <2>2, AcceptedLine
<1> QED BY <1>2, <1>4, <1>5 DEF InCommunity

LEMMA AcceptedDraft ==
  ASSUME NEW d, DraftTyped(d), ~Blocks(checkDraft(d))
  PROVE  DraftAccepted(d)
<1> DEFINE X == checkHeader(d) \cup checkParty(d.seller, "seller")
                  \cup checkParty(d.buyer, "buyer") \cup checkLines(d)
<1>1. checkDraft(d) = X \cup (IF Blocks(X) THEN {} ELSE checkTotals(d))
  BY DEF checkDraft, WithTotals
<1>2. ~Blocks(X)
  BY <1>1, PartOf
<1>3. ~Blocks(checkTotals(d))
  BY <1>1, <1>2, PartOf
<1>4. /\ ~Blocks(checkHeader(d)) /\ ~Blocks(checkParty(d.seller, "seller"))
      /\ ~Blocks(checkParty(d.buyer, "buyer")) /\ ~Blocks(checkLines(d))
  BY <1>2, PartOf
<1>5. IsComputable(d) /\ ~Blocks(TotalsIssues(computeInvoice(d).totals, d))
  BY <1>3 DEF checkTotals, Blocks, Refusal, Issue
<1>6. d.prepaidAmount # Unreadable
  BY <1>5 DEF IsComputable
<1> QED BY <1>4, <1>5, <1>6, LinesAccepted DEF DraftAccepted

---------------------------------------------------------------------------
(* Its totals *)
WithKey(lines, i) == {j \in 1..Len(lines) : groupKey(lines[j]) = groupKey(lines[i])}

(* The amounts of the lines, and their sum. *)
NetsAre(h, lines) == \A i \in 1..Len(lines) : h[i] = computeLine(lines[i], i).netAmount.value

LEMMA NetsExist ==
  ASSUME NEW T, NEW lines \in Seq(T), \A i \in 1..Len(lines) : Priced(lines[i])
  PROVE  \E h, f : NetsAre(h, lines) /\ AddsUp(f, 1..Len(lines), h)
<1> DEFINE h == [i \in 1..Len(lines) |-> computeLine(lines[i], i).netAmount.value]
<1>1. \A i \in 1..Len(lines) : computeLine(lines[i], i).netAmount.value \in Int
  BY NetIsMoney DEF Monies
<1>2. h \in [1..Len(lines) -> Int] /\ NetsAre(h, lines)
  BY <1>1 DEF NetsAre
<1>3. IsFiniteSet(1..Len(lines))
  BY LenProperties, FS_Interval
<1> HIDE DEF h
<1>4. PICK S : S = 1..Len(lines)
  OBVIOUS
<1>5. \E f : AddsUp(f, S, h)
  BY <1>2, <1>3, <1>4, SumsExist
<1> QED BY <1>2, <1>4, <1>5

GroupSums(group, line, basis) ==
  /\ group.basisAmount \in Monies /\ group.basisAmount.value = basis
  /\ group.ratePercent = Rescale(line.vatRatePercent, MonetaryScale) /\ group.ratePercent \in Monies
  /\ group.calculatedAmount \in Monies
  /\ group.calculatedAmount.value = VatCents(basis, group.ratePercent.value)
  /\ group.categoryCode = line.vatCategory

LEMMA GroupSummed ==
  ASSUME NEW T, NEW lines \in Seq(T), \A i \in 1..Len(lines) : Priced(lines[i]),
         NEW h, NetsAre(h, lines), NEW f, AddsUp(f, 1..Len(lines), h), NEW i \in 1..Len(lines)
  PROVE  GroupSums(TaxGroup(lines[i], SameGroup(lines, i)), lines[i], f[WithKey(lines, i)])
<1> DEFINE group == SameGroup(lines, i)
           basis == Total([k \in DOMAIN group |-> computeLine(group[k], k).netAmount])
           rate == Rescale(lines[i].vatRatePercent, MonetaryScale)
           taxed == TaxGroup(lines[i], group)
<1>1. basis = Dec(f[WithKey(lines, i)], 2) /\ basis \in Monies
  BY GroupAddsUp DEF NetsAre, WithKey
<1>2. rate \in Monies
  BY RateIsMoney
<1>3. /\ taxed.basisAmount = basis /\ taxed.ratePercent = rate
      /\ taxed.calculatedAmount = vatOn(basis, rate) /\ taxed.categoryCode = lines[i].vatCategory
  BY DEF TaxGroup, Taxed
<1> HIDE DEF taxed, basis, group
<1>4. vatOn(basis, rate) \in Monies /\ vatOn(basis, rate).value = VatCents(basis.value, rate.value)
  BY <1>1, <1>2, VatRounds
<1>5. basis.value = f[WithKey(lines, i)]
  BY <1>1 DEF Dec
<1> QED BY <1>1, <1>2, <1>3, <1>4, <1>5 DEF GroupSums, taxed, group

(* The reason of a group is that of one of its lines. *)
LEMMA GroupReason ==
  ASSUME NEW T, NEW lines \in Seq(T), \A i \in 1..Len(lines) : LineAccepted(lines[i]),
         NEW i \in 1..Len(lines)
  PROVE  lines[i].vatCategory \in REASON_REQUIRED_CATEGORIES
           <=> IsFilled(TaxGroup(lines[i], SameGroup(lines, i)).exemptionReason)
<1> DEFINE category == lines[i].vatCategory
           group == SameGroup(lines, i)
           stated == {j \in DOMAIN group : IsStated(group[j].exemptionReason)}
           reasons == Selected(group, stated)
           in == {j \in DOMAIN lines : groupKey(lines[j]) = groupKey(lines[i])}
<1>1. TaxGroup(lines[i], group).exemptionReason =
        IF category \in REASON_REQUIRED_CATEGORIES /\ reasons # <<>>
        THEN Head(reasons).exemptionReason ELSE Absent
  BY DEF TaxGroup, Taxed, filter
<1>2. CASE category \notin REASON_REQUIRED_CATEGORIES
  <2>1. ~IsFilled(Absent)
    BY DEF IsFilled
  <2> QED BY <1>1, <1>2, <2>1
<1>3. CASE category \in REASON_REQUIRED_CATEGORIES
  <2>1. group = Selected(lines, in)
    BY DEF SameGroup, filter
  <2>2. i \in (1..Len(lines)) \cap in /\ Len(lines) \in Nat
    BY LenProperties
  <2> HIDE DEF group
  <2>3. /\ group \in Seq(T)
        /\ \A k \in 1..Len(group) : \E j \in (1..Len(lines)) \cap in : group[k] = lines[j]
        /\ \E k \in 1..Len(group) : group[k] = lines[i]
    <3> HIDE DEF in
    <3>1. /\ Selected(lines, in) \in Seq(T)
          /\ \A k \in 1..Len(Selected(lines, in)) :
               \E j \in (1..Len(lines)) \cap in : Selected(lines, in)[k] = lines[j]
          /\ \A j \in (1..Len(lines)) \cap in :
               \E k \in 1..Len(Selected(lines, in)) : Selected(lines, in)[k] = lines[j]
      BY ONLY lines \in Seq(T), SelectedElements
    <3> QED BY ONLY <2>1, <2>2, <3>1
  <2>4. \A j \in in : j \in 1..Len(lines) /\ lines[j].vatCategory = category
    BY LenProperties DEF groupKey
  <2>5. \A k \in 1..Len(group) : IsFilled(group[k].exemptionReason)
    BY <1>3, <2>3, <2>4 DEF LineAccepted
  <2>6. \A t : IsFilled(t) => IsStated(t)
    BY DEF IsFilled, IsStated
  <2>7. 1..Len(group) \subseteq stated
    BY <2>3, <2>5, <2>6, LenProperties
  <2> HIDE DEF stated, in
  <2>8. reasons = group
    BY <2>3, <2>7, SelectedWhole
  <2>9. Len(group) \in Nat /\ 1 \in 1..Len(group)
    BY <2>3, LenProperties
  <2>10. group # <<>> /\ Head(group) = group[1]
    BY <2>3, <2>9, EmptySeq, HeadTailProperties
  <2>11. IsFilled(group[1].exemptionReason)
    BY <2>5, <2>9
  <2> HIDE DEF reasons
  <2>12. TaxGroup(lines[i], group).exemptionReason = group[1].exemptionReason
    BY <1>1, <1>3, <2>8, <2>10
  <2> QED BY <1>3, <2>11, <2>12 DEF group
<1> QED BY <1>2, <1>3

---------------------------------------------------------------------------
PrepaidMoney(paid) ==
  IF paid = NoAmount THEN Dec(0, MonetaryScale) ELSE Rescale(paid, MonetaryScale)

LEMMA PrepaidIsMoney ==
  ASSUME NEW paid \in Amounts, paid # Unreadable
  PROVE  PrepaidMoney(paid) \in Monies
<1>1. Dec(0, MonetaryScale) \in Monies
  BY DEF Dec, MonetaryScale, Monies
<1>2. paid # NoAmount => paid \in Decimals
  BY DEF Amounts
<1> QED BY <1>1, <1>2, RescaledTyped DEF PrepaidMoney

(* The totals of a draft, from the sum of its lines and the sum of its taxes. *)
TotalsAdd(t, lines, taxes) ==
  /\ t.lineTotalAmount \in Monies /\ t.lineTotalAmount.value = lines
  /\ t.taxBasisTotalAmount = t.lineTotalAmount
  /\ t.taxTotalAmount \in Monies /\ t.taxTotalAmount.value = taxes
  /\ t.grandTotalAmount \in Monies /\ t.grandTotalAmount.value = lines + taxes
  /\ t.prepaidAmount \in Monies
  /\ t.duePayableAmount \in Monies
  /\ t.duePayableAmount.value = lines + taxes - t.prepaidAmount.value

LEMMA TotalsOfSums ==
  ASSUME NEW a \in Monies, NEW b \in Monies, NEW paid \in Amounts, paid # Unreadable
  PROVE  TotalsAdd(TotalsOf(a, b, paid), a.value, b.value)
<1> DEFINE p == PrepaidMoney(paid)
           g == Plus(a, b)
           t == TotalsOf(a, b, paid)
<1>1. p \in Monies /\ g \in Monies /\ g.value = a.value + b.value
  BY PrepaidIsMoney, MoneyAdds DEF Dec
<1>2. Minus(g, p) \in Monies /\ Minus(g, p).value = a.value + b.value - p.value
  <2> HIDE DEF g, p
  <2>1. Minus(g, p) \in Monies /\ Minus(g, p) = Dec(g.value - p.value, 2)
    BY <1>1, MoneyAdds
  <2> QED BY <1>1, <2>1 DEF Dec, Monies
<1>3. /\ t.lineTotalAmount = a /\ t.taxBasisTotalAmount = a /\ t.taxTotalAmount = b
      /\ t.grandTotalAmount = g /\ t.prepaidAmount = p /\ t.duePayableAmount = Minus(g, p)
  BY DEF TotalsOf, WithDue, PrepaidMoney
<1> HIDE DEF t, g, p
<1> QED BY <1>1, <1>2, <1>3 DEF TotalsAdd, t

(* What is computed of a draft. *)
ComputedOf(c, lines, n, starts, m) ==
  /\ starts \in Seq(1..n) /\ DOMAIN c.lines = 1..n /\ DOMAIN c.taxGroups = 1..m
  /\ \A i \in 1..n : c.lines[i] = computeLine(lines[i], i)
  /\ \A k \in 1..m : /\ starts[k] \in 1..n
                     /\ c.taxGroups[k] = TaxGroup(lines[starts[k]], SameGroup(lines, starts[k]))

LEMMA ComputedParts ==
  ASSUME NEW T, NEW d, d.lines \in Seq(T), NEW starts, starts = GroupStarts(d.lines)
  PROVE  ComputedOf(computeInvoice(d), d.lines, Len(d.lines), starts, Len(starts))
<1>1. DOMAIN d.lines = 1..Len(d.lines) /\ Len(d.lines) \in Nat
  BY LenProperties
<1>2. starts \in Seq(1..Len(d.lines))
  <2> DEFINE in == {i \in DOMAIN Ids(Len(d.lines)) :
                     \A j \in 1..(Ids(Len(d.lines))[i] - 1) :
                        groupKey(d.lines[j]) # groupKey(d.lines[Ids(Len(d.lines))[i]])}
  <2>1. starts = Selected(Ids(Len(d.lines)), in)
    BY <1>1 DEF GroupStarts, filter, Ids
  <2>2. Ids(Len(d.lines)) \in Seq(1..Len(d.lines))
    BY <1>1, IdsAreSeq
  <2> HIDE DEF in
  <2> QED BY <2>1, <2>2, SelectedElements
<1>3. DOMAIN starts = 1..Len(starts)
  BY <1>2, LenProperties
<1>4. \A k \in 1..Len(starts) : starts[k] \in 1..Len(d.lines)
  BY <1>2, <1>3, ElementOfSeq
<1>5. /\ computeInvoice(d).lines = [i \in DOMAIN d.lines |-> computeLine(d.lines[i], i)]
      /\ computeInvoice(d).taxGroups = TaxGroups(d.lines, starts)
  BY DEF computeInvoice, Computed
<1> QED BY <1>1, <1>2, <1>3, <1>4, <1>5 DEF TaxGroups, ComputedOf

TaxesAre(u, groups, m) == \A k \in 1..m : u[k] = groups[k].calculatedAmount.value

LEMMA TotalsAre ==
  ASSUME NEW T, NEW d, d.lines \in Seq(T), \A i \in 1..Len(d.lines) : Priced(d.lines[i]),
         d.prepaidAmount \in Amounts, d.prepaidAmount # Unreadable,
         NEW n \in Nat, n = Len(d.lines), NEW h, NetsAre(h, d.lines), NEW f, AddsUp(f, 1..n, h),
         NEW m \in Nat, m = Len(GroupStarts(d.lines)), NEW u, TaxesAre(u, computeInvoice(d).taxGroups, m),
         NEW g, AddsUp(g, 1..m, u)
  PROVE  TotalsAdd(computeInvoice(d).totals, f[1..n], g[1..m])
<1> DEFINE c == computeInvoice(d)
           starts == GroupStarts(d.lines)
           nets == [i \in DOMAIN c.lines |-> c.lines[i].netAmount]
           taxes == [k \in DOMAIN c.taxGroups |-> c.taxGroups[k].calculatedAmount]
<1>1. /\ DOMAIN c.lines = 1..n /\ DOMAIN c.taxGroups = 1..m
      /\ \A i \in 1..n : c.lines[i] = computeLine(d.lines[i], i)
      /\ \A k \in 1..m : /\ starts[k] \in 1..n
                         /\ c.taxGroups[k] = TaxGroup(d.lines[starts[k]], SameGroup(d.lines, starts[k]))
  <2>1. ComputedOf(c, d.lines, n, starts, m)
    BY ComputedParts
  <2> HIDE DEF c, starts
  <2> QED BY <2>1 DEF ComputedOf
<1>2. c.totals = TotalsOf(Total(nets), Total(taxes), d.prepaidAmount)
  BY DEF computeInvoice, Computed
<1> HIDE DEF c, starts
<1>3. \A i \in 1..n : nets[i] \in Monies /\ h[i] = nets[i].value
  <2>1. \A i \in 1..n : nets[i] = computeLine(d.lines[i], i).netAmount
    BY <1>1
  <2> HIDE DEF nets
  <2> QED BY <2>1, NetIsMoney DEF NetsAre
<1>4. \A k \in 1..m : taxes[k] \in Monies /\ u[k] = taxes[k].value
  <2>1. \A k \in 1..m : taxes[k] = c.taxGroups[k].calculatedAmount
    BY <1>1
  <2>2. AddsUp(f, 1..Len(d.lines), h)
    OBVIOUS
  <2>3. ASSUME NEW k \in 1..m PROVE taxes[k] \in Monies
    <3>1. PICK i \in 1..Len(d.lines) : i = starts[k]
      BY <1>1
    <3>2. GroupSums(TaxGroup(d.lines[i], SameGroup(d.lines, i)), d.lines[i], f[WithKey(d.lines, i)])
      BY <2>2, GroupSummed
    <3> QED BY <1>1, <2>1, <3>1, <3>2 DEF GroupSums
  <2> HIDE DEF taxes
  <2> QED BY <2>1, <2>3 DEF TaxesAre, c
<1>5. DOMAIN nets = 1..n /\ DOMAIN taxes = 1..m
  BY <1>1
<1> HIDE DEF nets, taxes
<1>6. Total(nets) = Dec(f[1..n], 2) /\ Total(nets) \in Monies
  <2>1. MoneyList(nets, n, h)
    BY <1>3, <1>5 DEF MoneyList
  <2> QED BY <2>1, TotalAdds
<1>7. Total(taxes) = Dec(g[1..m], 2) /\ Total(taxes) \in Monies
  <2>1. MoneyList(taxes, m, u)
    BY <1>4, <1>5 DEF MoneyList
  <2> QED BY <2>1, TotalAdds
<1>8. Total(nets).value = f[1..n] /\ Total(taxes).value = g[1..m]
  BY <1>6, <1>7 DEF Dec
<1>9. TotalsAdd(c.totals, Total(nets).value, Total(taxes).value)
  BY <1>2, <1>6, <1>7, TotalsOfSums
<1> QED BY <1>8, <1>9 DEF c

---------------------------------------------------------------------------
(* The document written of it. *)
LineWritten(node, line, cents) ==
  /\ node.categoryCode = line.vatCategory /\ node.name = line.name
  /\ node.ratePercent = Written(line.vatRatePercent)
  /\ Cents(node.ratePercent) = Rescale(line.vatRatePercent, MonetaryScale).value
  /\ Cents(node.lineTotal) = cents

LEMMA LineIsWritten ==
  ASSUME NEW line, Priced(line), NEW i
  PROVE  LineWritten(lineNode(computeLine(line, i)), line, computeLine(line, i).netAmount.value)
<1> DEFINE computed == computeLine(line, i)
           node == lineNode(computed)
<1>1. /\ computed.source = line /\ computed.netAmount \in Monies
  BY NetIsMoney DEF computeLine
<1>2. /\ node.categoryCode = computed.source.vatCategory /\ node.name = computed.source.name
      /\ node.ratePercent = Written(computed.source.vatRatePercent)
      /\ node.lineTotal = Written(computed.netAmount)
  BY DEF lineNode
<1>3. Cents(Written(computed.netAmount)) = computed.netAmount.value
  BY <1>1, CentsWritten
<1>4. Cents(Written(line.vatRatePercent)) = Rescale(line.vatRatePercent, MonetaryScale).value
  BY RateWritten
<1> HIDE DEF computed, node
<1> QED BY <1>1, <1>2, <1>3, <1>4 DEF LineWritten, computed, node

TaxWritten(node, line, cents) ==
  /\ node.categoryCode = line.vatCategory
  /\ node.ratePercent = Written(line.vatRatePercent)
  /\ Cents(node.basisAmount) = cents
  /\ Cents(node.calculatedAmount) = VatCents(cents, Cents(node.ratePercent))

LEMMA TaxIsWritten ==
  ASSUME NEW line, Priced(line), NEW group, NEW cents, GroupSums(group, line, cents)
  PROVE  /\ TaxWritten(taxNode(group), line, cents)
         /\ Cents(taxNode(group).calculatedAmount) = group.calculatedAmount.value
<1> DEFINE node == taxNode(group)
           rate == Rescale(line.vatRatePercent, MonetaryScale)
<1>1. /\ node.calculatedAmount = Written(group.calculatedAmount)
      /\ node.basisAmount = Written(group.basisAmount)
      /\ node.categoryCode = group.categoryCode /\ node.ratePercent = Written(group.ratePercent)
  BY DEF taxNode
<1>2. /\ group.basisAmount \in Monies /\ group.basisAmount.value = cents
      /\ group.ratePercent = rate
      /\ group.calculatedAmount \in Monies
      /\ group.calculatedAmount.value = VatCents(cents, rate.value)
      /\ group.categoryCode = line.vatCategory
  BY DEF GroupSums
<1>3. Written(line.vatRatePercent) = Written(rate) /\ Cents(Written(rate)) = rate.value
  BY RateWritten
<1> HIDE DEF node, rate
<1>4. /\ Cents(node.basisAmount) = cents
      /\ Cents(node.calculatedAmount) = group.calculatedAmount.value
  BY <1>1, <1>2, CentsWritten
<1>5. node.ratePercent = Written(line.vatRatePercent) /\ Cents(node.ratePercent) = rate.value
  BY <1>1, <1>2, <1>3
<1> QED BY <1>1, <1>2, <1>4, <1>5 DEF TaxWritten, node

(* Its totals. *)
LEMMA TotalsWritten ==
  ASSUME NEW t, NEW lines, NEW taxes, TotalsAdd(t, lines, taxes), NEW w, w = WrittenTotals(t)
  PROVE  /\ Cents(w.lineTotalAmount) = lines /\ Cents(w.taxBasisTotalAmount) = lines
         /\ Cents(w.allowanceTotalAmount) = 0 /\ Cents(w.chargeTotalAmount) = 0
         /\ Cents(w.taxTotalAmount) = taxes /\ Cents(w.grandTotalAmount) = lines + taxes
         /\ Cents(w.prepaidAmount) = t.prepaidAmount.value
         /\ Cents(w.duePayableAmount) = (lines + taxes) - t.prepaidAmount.value
         /\ {lines, taxes, t.prepaidAmount.value} \subseteq Int
         /\ DOMAIN w = {"lineTotalAmount", "allowanceTotalAmount", "chargeTotalAmount",
                        "taxBasisTotalAmount", "taxTotalAmount", "grandTotalAmount",
                        "prepaidAmount", "duePayableAmount"}
<1>1. /\ {t.lineTotalAmount, t.taxTotalAmount, t.grandTotalAmount, t.prepaidAmount,
          t.duePayableAmount} \subseteq Monies
      /\ t.lineTotalAmount.value = lines /\ t.taxBasisTotalAmount = t.lineTotalAmount
      /\ t.taxTotalAmount.value = taxes /\ t.grandTotalAmount.value = lines + taxes
      /\ t.duePayableAmount.value = lines + taxes - t.prepaidAmount.value
  BY DEF TotalsAdd
<1>2. \A d \in Monies : Cents(Written(d)) = d.value
  BY CentsWritten
<1>3. {lines, taxes, t.prepaidAmount.value} \subseteq Int
  BY <1>1 DEF Monies
<1>4. lines + taxes - t.prepaidAmount.value = (lines + taxes) - t.prepaidAmount.value
  BY <1>3
<1>5. /\ w.lineTotalAmount = Written(t.lineTotalAmount)
      /\ w.taxBasisTotalAmount = Written(t.taxBasisTotalAmount)
      /\ w.allowanceTotalAmount = NoElement /\ w.chargeTotalAmount = NoElement
      /\ w.taxTotalAmount = Written(t.taxTotalAmount)
      /\ w.grandTotalAmount = Written(t.grandTotalAmount)
      /\ w.prepaidAmount = IF IsZero(t.prepaidAmount) THEN NoElement ELSE Written(t.prepaidAmount)
      /\ w.duePayableAmount = Written(t.duePayableAmount)
  BY DEF WrittenTotals
<1>6. Cents(NoElement) = 0
  BY DEF Cents
<1>7. Cents(w.prepaidAmount) = t.prepaidAmount.value
  BY <1>1, <1>2, <1>5, <1>6 DEF IsZero
<1>8. DOMAIN w = {"lineTotalAmount", "allowanceTotalAmount", "chargeTotalAmount",
                  "taxBasisTotalAmount", "taxTotalAmount", "grandTotalAmount",
                  "prepaidAmount", "duePayableAmount"}
  BY DEF WrittenTotals
<1> QED BY <1>1, <1>2, <1>3, <1>4, <1>5, <1>6, <1>7, <1>8

LEMMA ArithmeticHolds ==
  ASSUME NEW doc, NEW t, doc.totals = WrittenTotals(t),
         TotalsAdd(t, LineCents(doc, DOMAIN doc.lines), TaxCents(doc)),
         \A k \in DOMAIN doc.taxes :
            Cents(doc.taxes[k].calculatedAmount)
              = VatCents(Cents(doc.taxes[k].basisAmount), Cents(doc.taxes[k].ratePercent))
  PROVE  BrokenArithmetic(doc) = {}
<1> DEFINE w == doc.totals
           c == [f \in DOMAIN w |-> Cents(w[f])]
<1>1. PICK L, X, p : L = LineCents(doc, DOMAIN doc.lines) /\ X = TaxCents(doc) /\ p = t.prepaidAmount.value
  OBVIOUS
<1>2. /\ Cents(w.lineTotalAmount) = L /\ Cents(w.taxBasisTotalAmount) = L
      /\ Cents(w.allowanceTotalAmount) = 0 /\ Cents(w.chargeTotalAmount) = 0
      /\ Cents(w.taxTotalAmount) = X /\ Cents(w.grandTotalAmount) = L + X
      /\ Cents(w.prepaidAmount) = p /\ Cents(w.duePayableAmount) = (L + X) - p
      /\ {L, X, p} \subseteq Int
      /\ DOMAIN w = {"lineTotalAmount", "allowanceTotalAmount", "chargeTotalAmount",
                     "taxBasisTotalAmount", "taxTotalAmount", "grandTotalAmount",
                     "prepaidAmount", "duePayableAmount"}
  BY <1>1, TotalsWritten
<1>3. /\ c.lineTotalAmount = L /\ c.taxBasisTotalAmount = L
      /\ c.allowanceTotalAmount = 0 /\ c.chargeTotalAmount = 0
      /\ c.taxTotalAmount = X /\ c.grandTotalAmount = L + X
      /\ c.prepaidAmount = p /\ c.duePayableAmount = (L + X) - p
  BY <1>2
<1> HIDE DEF c
<1>4. /\ c.lineTotalAmount = LineCents(doc, DOMAIN doc.lines)
      /\ c.taxBasisTotalAmount = c.lineTotalAmount - c.allowanceTotalAmount + c.chargeTotalAmount
      /\ c.taxTotalAmount = TaxCents(doc)
      /\ c.grandTotalAmount = c.taxBasisTotalAmount + c.taxTotalAmount
      /\ c.duePayableAmount = c.grandTotalAmount - c.prepaidAmount
  BY <1>1, <1>2, <1>3
<1> QED BY <1>4 DEF BrokenArithmetic, c

WrittenAs(doc, lines, n, h, f, starts, m) ==
  /\ DOMAIN doc.lines = 1..n /\ DOMAIN doc.taxes = 1..m
  /\ \A i \in 1..n : LineWritten(doc.lines[i], lines[i], h[i])
  /\ \A k \in 1..m : TaxWritten(doc.taxes[k], lines[starts[k]], f[WithKey(lines, starts[k])])

LEMMA DocumentIsWritten ==
  ASSUME NEW T, NEW d, d.lines \in Seq(T), \A i \in 1..Len(d.lines) : Priced(d.lines[i]),
         NEW n \in Nat, n = Len(d.lines), NEW h, NetsAre(h, d.lines), NEW f, AddsUp(f, 1..n, h),
         NEW starts, starts = GroupStarts(d.lines), NEW m \in Nat, m = Len(starts)
  PROVE  LET c == computeInvoice(d)
             doc == serialiseCii(d, c)
         IN /\ WrittenAs(doc, d.lines, n, h, f, starts, m)
            /\ \A k \in 1..m : /\ Cents(doc.taxes[k].calculatedAmount) = c.taxGroups[k].calculatedAmount.value
                               /\ c.taxGroups[k].calculatedAmount \in Monies
<1> DEFINE c == computeInvoice(d)
           doc == serialiseCii(d, c)
<1>1. ComputedOf(c, d.lines, n, starts, m)
  BY ComputedParts
<1>2. /\ DOMAIN c.lines = 1..n /\ DOMAIN c.taxGroups = 1..m
      /\ \A i \in 1..n : c.lines[i] = computeLine(d.lines[i], i)
      /\ \A k \in 1..m : /\ starts[k] \in 1..n
                         /\ c.taxGroups[k] = TaxGroup(d.lines[starts[k]], SameGroup(d.lines, starts[k]))
  BY <1>1 DEF ComputedOf
<1> HIDE DEF c
<1>3. /\ doc.lines = [i \in DOMAIN c.lines |-> lineNode(c.lines[i])]
      /\ doc.taxes = [k \in DOMAIN c.taxGroups |-> taxNode(c.taxGroups[k])]
  BY DEF serialiseCii
<1> HIDE DEF doc
<1>4. ASSUME NEW i \in 1..n PROVE LineWritten(doc.lines[i], d.lines[i], h[i])
  <2>1. doc.lines[i] = lineNode(computeLine(d.lines[i], i))
    BY <1>2, <1>3
  <2>2. h[i] = computeLine(d.lines[i], i).netAmount.value
    BY DEF NetsAre
  <2> QED BY <2>1, <2>2, LineIsWritten
<1>5. ASSUME NEW k \in 1..m
      PROVE  /\ TaxWritten(doc.taxes[k], d.lines[starts[k]], f[WithKey(d.lines, starts[k])])
             /\ Cents(doc.taxes[k].calculatedAmount) = c.taxGroups[k].calculatedAmount.value
             /\ c.taxGroups[k].calculatedAmount \in Monies
  <2>1. PICK i \in 1..Len(d.lines) : i = starts[k]
    BY <1>2
  <2>2. PICK group : group = c.taxGroups[k] /\ group = TaxGroup(d.lines[i], SameGroup(d.lines, i))
    BY <1>2, <2>1
  <2>3. doc.taxes[k] = taxNode(group)
    BY <1>2, <1>3, <2>2
  <2>4. AddsUp(f, 1..Len(d.lines), h)
    OBVIOUS
  <2>5. GroupSums(group, d.lines[i], f[WithKey(d.lines, i)])
    BY <2>2, <2>4, GroupSummed
  <2>6. group.calculatedAmount \in Monies
    BY <2>5 DEF GroupSums
  <2> QED BY <2>1, <2>2, <2>3, <2>5, <2>6, TaxIsWritten
<1>6. DOMAIN doc.lines = 1..n /\ DOMAIN doc.taxes = 1..m
  BY <1>2, <1>3
<1> QED BY <1>4, <1>5, <1>6 DEF WrittenAs, c, doc

(* Every group is the sum of its lines, and every line is of one group. *)
LEMMA GroupsHold ==
  ASSUME NEW T, NEW lines \in Seq(T), \A i \in 1..Len(lines) : Priced(lines[i]),
         NEW n \in Nat, n = Len(lines), NEW h, NEW f, AddsUp(f, 1..n, h),
         NEW starts, starts = GroupStarts(lines), NEW m \in Nat, m = Len(starts),
         \A k \in 1..m : starts[k] \in 1..n,
         NEW doc, WrittenAs(doc, lines, n, h, f, starts, m)
  PROVE  ~BrokenGroups(doc)
<1>1. /\ DOMAIN doc.lines = 1..n /\ DOMAIN doc.taxes = 1..m
      /\ \A i \in 1..n : LineWritten(doc.lines[i], lines[i], h[i])
      /\ \A k \in 1..m : TaxWritten(doc.taxes[k], lines[starts[k]], f[WithKey(lines, starts[k])])
  BY DEF WrittenAs
<1>2. ASSUME NEW i \in 1..n, NEW k \in 1..m
      PROVE  InGroup(doc.lines[i], doc.taxes[k]) <=> groupKey(lines[i]) = groupKey(lines[starts[k]])
  <2>1. PICK l, g : l = lines[i] /\ g = lines[starts[k]] /\ Priced(l) /\ Priced(g)
    OBVIOUS
  <2>2. /\ doc.lines[i].categoryCode = l.vatCategory /\ doc.lines[i].ratePercent = Written(l.vatRatePercent)
        /\ doc.taxes[k].categoryCode = g.vatCategory /\ doc.taxes[k].ratePercent = Written(g.vatRatePercent)
    BY <1>1, <2>1 DEF LineWritten, TaxWritten
  <2> QED BY <2>1, <2>2, SameKey DEF InGroup
<1>3. ASSUME NEW k \in 1..m
      PROVE  Cents(doc.taxes[k].basisAmount)
               = LineCents(doc, {i \in DOMAIN doc.lines : InGroup(doc.lines[i], doc.taxes[k])})
  <2>1. PICK S : S = WithKey(lines, starts[k])
    OBVIOUS
  <2>2. S = {i \in DOMAIN doc.lines : InGroup(doc.lines[i], doc.taxes[k])}
    BY <1>1, <1>2, <2>1 DEF WithKey
  <2>3. S \in SUBSET (1..n)
    BY <2>1 DEF WithKey
  <2>4. LineCentsIn(doc, n, h)
    BY <1>1 DEF LineWritten, LineCentsIn
  <2>5. LineCents(doc, S) = f[S]
    BY <2>3, <2>4, LineCentsAre
  <2>6. Cents(doc.taxes[k].basisAmount) = f[S]
    BY <1>1, <2>1 DEF TaxWritten
  <2> QED BY <2>2, <2>5, <2>6
<1>4. ASSUME NEW i \in 1..n
      PROVE  Cardinality({k \in DOMAIN doc.taxes : InGroup(doc.lines[i], doc.taxes[k])}) = 1
  <2>1. PICK k : {q \in 1..m : groupKey(lines[starts[q]]) = groupKey(lines[i])} = {k}
    <3>1. i \in 1..Len(lines)
      OBVIOUS
    <3>2. HasOneGroup(lines, starts, i)
      BY <3>1, OneGroupEach
    <3> QED BY <3>2 DEF HasOneGroup
  <2>2. {q \in DOMAIN doc.taxes : InGroup(doc.lines[i], doc.taxes[q])} = {k}
    BY <1>1, <1>2, <2>1
  <2> QED BY <2>2, FS_Singleton
<1> QED BY <1>1, <1>3, <1>4 DEF BrokenGroups

(* Each category bears the rate and the reason that it must. *)
LinesKept(lines) ==
  \A i \in 1..Len(lines) : LineAccepted(lines[i]) /\ RateKept(lines[i].vatRatePercent)

ReasonsWritten(doc, lines, starts, m) ==
  \A k \in 1..m : doc.taxes[k].exemptionReason
                    = TaxGroup(lines[starts[k]], SameGroup(lines, starts[k])).exemptionReason

LEMMA CategoriesHold ==
  ASSUME NEW T, NEW lines \in Seq(T), LinesKept(lines),
         NEW n \in Nat, n = Len(lines), NEW h, NEW f,
         NEW starts, NEW m \in Nat, \A k \in 1..m : starts[k] \in 1..n,
         NEW doc, WrittenAs(doc, lines, n, h, f, starts, m), ReasonsWritten(doc, lines, starts, m)
  PROVE  ~BrokenCategories(doc)
<1>1. /\ DOMAIN doc.lines = 1..n /\ DOMAIN doc.taxes = 1..m
      /\ \A i \in 1..n : LineWritten(doc.lines[i], lines[i], h[i])
      /\ \A k \in 1..m : TaxWritten(doc.taxes[k], lines[starts[k]], f[WithKey(lines, starts[k])])
  BY DEF WrittenAs
<1>2. ASSUME NEW i \in 1..n
      PROVE  ~(doc.lines[i].categoryCode = "S" <=> Cents(doc.lines[i].ratePercent) = 0)
  <2>1. PICK l : l = lines[i] /\ LineAccepted(l) /\ RateKept(l.vatRatePercent)
    BY DEF LinesKept
  <2>2. /\ doc.lines[i].categoryCode = l.vatCategory
        /\ Cents(doc.lines[i].ratePercent) = Rescale(l.vatRatePercent, MonetaryScale).value
    BY <1>1, <2>1 DEF LineWritten
  <2>3. l.vatRatePercent \in Decimals /\ l.vatCategory \in VAT_CATEGORIES
    BY <2>1 DEF LineAccepted, Priced
  <2>4. CASE l.vatCategory = "S"
    BY <2>1, <2>2, <2>4 DEF LineAccepted, RateKept
  <2>5. CASE l.vatCategory # "S"
    <3>1. l.vatRatePercent.value = 0
      BY <2>1, <2>3, <2>5 DEF LineAccepted, VAT_CATEGORIES, ZERO_RATED_CATEGORIES
    <3>2. Rescale(l.vatRatePercent, MonetaryScale).value = 0
      BY <2>3, <3>1, ZeroStays DEF MonetaryScale
    <3> QED BY <2>2, <2>5, <3>2
  <2> QED BY <2>4, <2>5
<1>3. ASSUME NEW k \in 1..m
      PROVE  (doc.taxes[k].categoryCode \in REASON_REQUIRED_CATEGORIES)
                <=> IsFilled(doc.taxes[k].exemptionReason)
  <2>1. PICK i \in 1..Len(lines) : i = starts[k]
    OBVIOUS
  <2>2. doc.taxes[k].categoryCode = lines[i].vatCategory
    BY <1>1, <2>1 DEF TaxWritten
  <2>3. lines[i].vatCategory \in REASON_REQUIRED_CATEGORIES
          <=> IsFilled(TaxGroup(lines[i], SameGroup(lines, i)).exemptionReason)
    BY GroupReason DEF LinesKept
  <2> QED BY <2>1, <2>2, <2>3 DEF ReasonsWritten
<1> QED BY <1>1, <1>2, <1>3 DEF BrokenCategories

---------------------------------------------------------------------------
LEMMA SumsWritten ==
  ASSUME NEW T, NEW d, d.lines \in Seq(T), \A i \in 1..Len(d.lines) : Priced(d.lines[i]),
         d.prepaidAmount \in Amounts, d.prepaidAmount # Unreadable,
         NEW c, c = computeInvoice(d), NEW doc, doc = serialiseCii(d, c)
  PROVE  /\ ~BrokenGroups(doc) /\ BrokenArithmetic(doc) = {}
         /\ TotalsAdd(c.totals, LineCents(doc, DOMAIN doc.lines), TaxCents(doc))
         /\ \E n \in Nat : \E h, f : \E m \in Nat :
               /\ n = Len(d.lines)
               /\ WrittenAs(doc, d.lines, n, h, f, GroupStarts(d.lines), m)
               /\ \A k \in 1..m : GroupStarts(d.lines)[k] \in 1..n
<1>1. PICK n \in Nat : n = Len(d.lines)
  BY LenProperties
<1>2. PICK h, f : NetsAre(h, d.lines) /\ AddsUp(f, 1..n, h)
  BY <1>1, NetsExist
<1>3. PICK starts : starts = GroupStarts(d.lines)
  OBVIOUS
<1>4. PICK m : m = Len(starts)
  OBVIOUS
<1>5. ComputedOf(c, d.lines, n, starts, m)
  BY <1>1, <1>3, <1>4, ComputedParts
<1>6. m \in Nat /\ \A k \in 1..m : starts[k] \in 1..n
  BY <1>4, <1>5, LenProperties DEF ComputedOf
<1>7. /\ WrittenAs(doc, d.lines, n, h, f, starts, m)
      /\ \A k \in 1..m : /\ Cents(doc.taxes[k].calculatedAmount) = c.taxGroups[k].calculatedAmount.value
                         /\ c.taxGroups[k].calculatedAmount \in Monies
  BY <1>1, <1>2, <1>3, <1>4, <1>6, DocumentIsWritten
<1>8. /\ DOMAIN doc.lines = 1..n /\ DOMAIN doc.taxes = 1..m
      /\ LineCentsIn(doc, n, h)
      /\ \A k \in 1..m : Cents(doc.taxes[k].calculatedAmount)
                           = VatCents(Cents(doc.taxes[k].basisAmount), Cents(doc.taxes[k].ratePercent))
  BY <1>7 DEF WrittenAs, LineWritten, TaxWritten, LineCentsIn
<1> DEFINE u == [k \in 1..m |-> c.taxGroups[k].calculatedAmount.value]
<1>9. u \in [1..m -> Int] /\ TaxesAre(u, c.taxGroups, m) /\ TaxCentsIn(doc, m, u)
  <2>1. u \in [1..m -> Int]
    BY <1>7 DEF Monies
  <2>2. TaxesAre(u, c.taxGroups, m)
    BY DEF TaxesAre
  <2>3. TaxCentsIn(doc, m, u)
    BY <1>7, <1>8 DEF TaxCentsIn
  <2> QED BY <2>1, <2>2, <2>3
<1> HIDE DEF u
<1>10. PICK g : AddsUp(g, 1..m, u)
  <2>1. IsFiniteSet(1..m)
    <3>1. m \in Int /\ 1 \in Int
      BY <1>6
    <3> QED BY ONLY <3>1, FS_Interval
  <2>2. PICK S : S = 1..m
    OBVIOUS
  <2> QED BY <1>9, <2>1, <2>2, SumsExist
<1>11. TotalsAdd(c.totals, f[1..n], g[1..m])
  <2>1. \A i \in 1..Len(d.lines) : Priced(d.lines[i])
    OBVIOUS
  <2>2. m = Len(GroupStarts(d.lines)) /\ TaxesAre(u, computeInvoice(d).taxGroups, m)
    BY <1>3, <1>4, <1>9
  <2> QED BY <1>1, <1>2, <1>6, <1>10, <2>1, <2>2, TotalsAre
<1>12. TaxCents(doc) = g[1..m]
  BY <1>6, <1>9, <1>10, TaxCentsAre
<1>13. LineCents(doc, DOMAIN doc.lines) = f[1..n]
  <2>1. PICK S : S = 1..n /\ S \in SUBSET (1..n) /\ S = DOMAIN doc.lines
    BY <1>8
  <2>2. LineCents(doc, S) = f[S]
    BY <1>2, <1>8, <2>1, LineCentsAre
  <2> QED BY <2>1, <2>2
<1>14. TotalsAdd(c.totals, LineCents(doc, DOMAIN doc.lines), TaxCents(doc))
  BY <1>11, <1>12, <1>13
<1>15. BrokenArithmetic(doc) = {}
  <2>1. doc.totals = WrittenTotals(c.totals)
    BY DEF serialiseCii
  <2> QED BY <1>8, <1>14, <2>1, ArithmeticHolds
<1>16. ~BrokenGroups(doc)
  BY <1>1, <1>2, <1>3, <1>4, <1>6, <1>7, GroupsHold
<1> QED BY <1>1, <1>3, <1>6, <1>7, <1>14, <1>15, <1>16

(* The other rules. *)
LEMMA AcceptedBreaksNone ==
  ASSUME NEW T, NEW d, d.lines \in Seq(T), DraftTyped(d), DraftAccepted(d),
         \A i \in DOMAIN d.lines : RateKept(d.lines[i].vatRatePercent)
  PROVE  BrokenRules(serialiseCii(d, computeInvoice(d))) = {}
<1>1. PICK c, doc : c = computeInvoice(d) /\ doc = serialiseCii(d, c)
  OBVIOUS
<1>2. /\ DOMAIN d.lines = 1..Len(d.lines)
      /\ \A i \in 1..Len(d.lines) : LineAccepted(d.lines[i]) /\ RateKept(d.lines[i].vatRatePercent)
  BY LenProperties DEF DraftTyped, DraftAccepted
<1>3. \A i \in 1..Len(d.lines) : Priced(d.lines[i])
  BY <1>2 DEF LineAccepted
<1>4. d.prepaidAmount \in Amounts /\ d.prepaidAmount # Unreadable
  BY DEF DraftTyped, DraftAccepted
<1>5. /\ ~BrokenGroups(doc) /\ BrokenArithmetic(doc) = {}
      /\ TotalsAdd(c.totals, LineCents(doc, DOMAIN doc.lines), TaxCents(doc))
  BY <1>1, <1>3, <1>4, SumsWritten
<1>6. \E n \in Nat : \E h, f : \E m \in Nat :
         /\ n = Len(d.lines)
         /\ WrittenAs(doc, d.lines, n, h, f, GroupStarts(d.lines), m)
         /\ \A k \in 1..m : GroupStarts(d.lines)[k] \in 1..n
  BY <1>1, <1>3, <1>4, SumsWritten
<1>61. PICK n \in Nat : \E h, f : \E m \in Nat :
         /\ n = Len(d.lines)
         /\ WrittenAs(doc, d.lines, n, h, f, GroupStarts(d.lines), m)
         /\ \A k \in 1..m : GroupStarts(d.lines)[k] \in 1..n
  BY <1>6
<1>62. PICK h, f : \E m \in Nat :
         /\ n = Len(d.lines)
         /\ WrittenAs(doc, d.lines, n, h, f, GroupStarts(d.lines), m)
         /\ \A k \in 1..m : GroupStarts(d.lines)[k] \in 1..n
  BY <1>61
<1>63. PICK m \in Nat :
         /\ n = Len(d.lines)
         /\ WrittenAs(doc, d.lines, n, h, f, GroupStarts(d.lines), m)
         /\ \A k \in 1..m : GroupStarts(d.lines)[k] \in 1..n
  BY <1>62
<1>7. /\ DOMAIN doc.lines = 1..n /\ DOMAIN doc.taxes = 1..m
      /\ \A i \in 1..n : LineWritten(doc.lines[i], d.lines[i], h[i])
  BY <1>63 DEF WrittenAs
<1>8. /\ doc.invoiceNumber = d.invoiceNumber /\ doc.issueDate = d.issueDate
      /\ doc.seller = partyNode(d.seller) /\ doc.buyer = partyNode(d.buyer)
      /\ doc.shipTo = d.deliveryCountryCode /\ doc.dueDate = d.dueDate
      /\ doc.paymentTerms = d.paymentTerms /\ doc.paymentMeans = paymentMeans(d)
      /\ doc.iban = IF Given(d.iban) THEN stripFormatting(d.iban) ELSE NoId
      /\ doc.totals = WrittenTotals(c.totals)
      /\ doc.taxes = [k \in DOMAIN c.taxGroups |-> taxNode(c.taxGroups[k])]
  BY <1>1 DEF serialiseCii
<1>9. \A p : partyNode(p).name = p.name /\ partyNode(p).country = p.countryCode
  BY DEF partyNode, nodeOf
<1>10. /\ IsFilled(doc.invoiceNumber) /\ ~(doc.issueDate <= 0)
       /\ ~(doc.paymentMeans \in CREDIT_TRANSFER_MEANS /\ doc.iban = NoId)
  <2>1. d.issueDate \in Int /\ d.iban \in Seq(Int) /\ ~Blocks(checkHeader(d))
    BY DEF DraftTyped, DraftAccepted
  <2>2. /\ IsFilled(d.invoiceNumber) /\ d.issueDate > 0
        /\ paymentMeans(d) \in CREDIT_TRANSFER_MEANS =>
              Given(d.iban) /\ stripFormatting(d.iban) # NoId
    BY <2>1, AcceptedHeader
  <2> QED BY <1>8, <2>1, <2>2
<1>11. /\ IsFilled(doc.seller.name) /\ IsFilled(doc.buyer.name)
       /\ ~(doc.seller.country = "FR" /\ doc.seller.legalId = NoId)
  <2>1. /\ d.seller.siret \in Seq(Int) /\ d.seller.siren \in Seq(Int)
        /\ ~Blocks(checkParty(d.seller, "seller")) /\ ~Blocks(checkParty(d.buyer, "buyer"))
    BY DEF DraftTyped, DraftAccepted
  <2>2. IsFilled(d.seller.name) /\ IsFilled(d.buyer.name)
    BY <2>1, PartyNamed
  <2>3. d.seller.countryCode = "FR" => partyNode(d.seller).legalId # NoId
    BY <2>1, SellerRegistered
  <2> QED BY <1>8, <1>9, <2>2, <2>3
<1>12. doc.lines # <<>>
  <2>1. n # 0
    BY <1>63, EmptySeq DEF DraftAccepted
  <2> QED BY <1>7, <2>1
<1>13. /\ \A i \in DOMAIN doc.lines : IsFilled(doc.lines[i].name)
       /\ (\E i \in DOMAIN doc.lines : doc.lines[i].categoryCode = "K") => IsFilled(doc.shipTo)
  <2>1. \A i \in 1..n : doc.lines[i].name = d.lines[i].name
                         /\ doc.lines[i].categoryCode = d.lines[i].vatCategory
    BY <1>7 DEF LineWritten
  <2>2. \A i \in 1..n : IsFilled(d.lines[i].name)
    BY <1>2, <1>63 DEF LineAccepted, DraftAccepted
  <2>3. (\E i \in 1..n : d.lines[i].vatCategory = "K") => IsFilled(d.deliveryCountryCode)
    BY <1>2, <1>63 DEF DraftAccepted
  <2>4. DOMAIN doc.lines = 1..n /\ doc.shipTo = d.deliveryCountryCode
    BY <1>7, <1>8
  <2> QED BY ONLY <2>1, <2>2, <2>3, <2>4
<1>14. ~(/\ Cents(doc.totals.duePayableAmount) > 0
         /\ doc.dueDate = NoDate /\ ~IsStated(doc.paymentTerms))
  <2>1. PICK due : due = c.totals.duePayableAmount /\ due \in Monies
    BY <1>5 DEF TotalsAdd
  <2>2. doc.totals.duePayableAmount = Written(due)
    BY <1>8, <2>1 DEF WrittenTotals
  <2>3. Cents(doc.totals.duePayableAmount) = due.value
    BY <2>1, <2>2, CentsWritten
  <2>4. Less(Zero, due) <=> 0 < due.value
    BY <2>1, MoneyAdds DEF Zero
  <2>5. ~(Less(Zero, due) /\ d.dueDate = NoDate /\ ~IsStated(d.paymentTerms))
    <3> DEFINE issue == Refusal("header", "dueDate", "BR-CO-25")
               broken == Less(Zero, due) /\ d.dueDate = NoDate /\ ~IsStated(d.paymentTerms)
    <3>1. issue.severity = "error"
      BY DEF Refusal, Issue
    <3>2. ~Blocks(TotalsIssues(c.totals, d))
      BY <1>1 DEF DraftAccepted
    <3>3. When(broken, issue) \subseteq TotalsIssues(c.totals, d)
      BY <2>1 DEF TotalsIssues
    <3> HIDE DEF issue, broken
    <3>4. ~broken
      BY <3>1, <3>2, <3>3, NotRefused
    <3> QED BY <3>4 DEF broken
  <2> QED BY <1>8, <2>3, <2>4, <2>5
<1>15. ~BrokenCategories(doc)
  <2>1. ComputedOf(c, d.lines, n, GroupStarts(d.lines), Len(GroupStarts(d.lines)))
    BY <1>1, <1>63, ComputedParts
  <2>2. DOMAIN c.taxGroups = 1..m
    BY <1>7, <1>8
  <2>3. ASSUME NEW k \in 1..m
        PROVE  doc.taxes[k].exemptionReason
                 = TaxGroup(d.lines[GroupStarts(d.lines)[k]],
                            SameGroup(d.lines, GroupStarts(d.lines)[k])).exemptionReason
    <3>1. k \in 1..Len(GroupStarts(d.lines))
      BY <2>1, <2>2 DEF ComputedOf
    <3>2. c.taxGroups[k] = TaxGroup(d.lines[GroupStarts(d.lines)[k]],
                                    SameGroup(d.lines, GroupStarts(d.lines)[k]))
      BY <2>1, <3>1 DEF ComputedOf
    <3>3. doc.taxes[k] = taxNode(c.taxGroups[k])
      BY <1>8, <2>2
    <3>4. doc.taxes[k].exemptionReason = c.taxGroups[k].exemptionReason
      BY <3>3 DEF taxNode
    <3> QED BY <3>2, <3>4
  <2>4. ReasonsWritten(doc, d.lines, GroupStarts(d.lines), m)
    BY <2>3 DEF ReasonsWritten
  <2>5. LinesKept(d.lines)
    BY <1>2 DEF LinesKept
  <2>6. \A k \in 1..m : GroupStarts(d.lines)[k] \in 1..n
    BY <1>63
  <2> QED BY <1>63, <2>4, <2>5, <2>6, CategoriesHold
<1>16. BrokenRules(doc) = {}
  BY <1>5, <1>10, <1>11, <1>12, <1>13, <1>14, <1>15 DEF BrokenRules
<1> QED BY <1>1, <1>16

---------------------------------------------------------------------------
(* What is read of what is typed: an amount is a decimal, or is not stated, or is not *)
(* a number.                                                                          *)
InputsRead ==
  /\ \A d \in Drafts : DraftTyped(d)
  /\ \A h \in Headers \cup {blankHeader} :
        h.issueDate \in Int /\ {h.seller.siret, h.seller.siren, h.iban} \subseteq Seq(Int)
  /\ \A p \in Patches :
        p.field \in {"quantity", "unitPrice", "vatRatePercent"} => p.text.amount \in Amounts
  /\ \A t \in PrepaidTexts : t.amount \in Amounts

(* No rate is so small, and not zero, that it is written 0.00. *)
RatesKept ==
  /\ \A d \in Drafts : \A i \in DOMAIN d.lines : RateKept(d.lines[i].vatRatePercent)
  /\ \A p \in Patches : p.field = "vatRatePercent" => RateKept(p.text.amount)

RowRead(row) ==
  /\ {row.quantity.amount, row.unitPrice.amount, row.vatRatePercent.amount} \subseteq Amounts
  /\ RatesKept => RateKept(row.vatRatePercent.amount)

ReadRow == {row \in Row : RowRead(row)}

FormRead ==
  /\ rows \in Seq(ReadRow)
  /\ header \in Headers \cup {blankHeader}
  /\ prepaid \in PrepaidTexts \cup {Untyped}

LEMMA BlankRead == blankLine \in ReadRow /\ Typed(Dec(0, 2), FALSE).amount \in Amounts
                   /\ RateKept(Typed(Dec(0, 2), FALSE).amount) /\ Untyped.amount \in Amounts
<1>1. Dec(2000, 2) \in Monies /\ Dec(2000, 2).value = 2000 /\ Dec(0, 2).value = 0
      /\ {Dec(1, 0), Dec(2000, 2), Dec(0, 2), NoAmount} \subseteq Amounts
  BY DEF Monies, Dec, Amounts, Decimals
<1>2. RateKept(Dec(2000, 2)) /\ RateKept(Dec(0, 2))
  BY <1>1, MoneyIsItself DEF RateKept
<1>3. /\ Typed(Dec(0, 2), FALSE).amount = Dec(0, 2) /\ Untyped.amount = NoAmount
      /\ blankLine.quantity.amount = Dec(1, 0) /\ blankLine.unitPrice.amount = NoAmount
      /\ blankLine.vatRatePercent.amount = Dec(2000, 2)
  BY DEF Typed, Untyped, blankLine
<1>4. RowRead(blankLine)
  <2> HIDE DEF blankLine
  <2> QED BY <1>1, <1>2, <1>3 DEF RowRead
<1>5. blankLine \in ReadRow
  <2> HIDE DEF blankLine
  <2> QED BY <1>4, Fields DEF ReadRow
<1>6. Typed(Dec(0, 2), FALSE).amount \in Amounts /\ Untyped.amount \in Amounts
  BY <1>1 DEF Typed, Untyped
<1>7. RateKept(Typed(Dec(0, 2), FALSE).amount)
  BY <1>2 DEF Typed
<1> QED BY <1>5, <1>6, <1>7

LEMMA UpdateRead ==
  ASSUME InputsRead, NEW row \in ReadRow, NEW patch \in Patches
  PROVE  update(row, patch) \in ReadRow
<1> DEFINE none == Typed(Dec(0, 2), FALSE)
           f == patch.field
           t == patch.text
           next == [row EXCEPT ![f] = t]
<1>1. update(row, patch) \in Row /\ row \in Row /\ RowRead(row)
  BY UpdateTyped DEF ReadRow
<1>2. /\ f \in {"quantity", "unitPrice", "vatRatePercent"} => t.amount \in Amounts
      /\ RatesKept /\ f = "vatRatePercent" => RateKept(t.amount)
  BY DEF InputsRead, RatesKept
<1>3. none.amount \in Amounts /\ RateKept(none.amount)
  BY BlankRead
<1>4. update(row, patch) = next \/ update(row, patch) = [next EXCEPT !.vatRatePercent = none]
  BY DEF update
<1> HIDE DEF none, f, t
<1>5. /\ {"quantity", "unitPrice", "vatRatePercent"} \subseteq DOMAIN row
  BY <1>1, Fields DEF Row
<1>6. /\ \A g \in {"quantity", "unitPrice", "vatRatePercent"} : next[g] = IF g = f THEN t ELSE row[g]
      /\ DOMAIN next = DOMAIN row
  BY <1>5
<1>7. RowRead(next)
  BY <1>1, <1>2, <1>6 DEF RowRead
<1> HIDE DEF next
<1>8. RowRead([next EXCEPT !.vatRatePercent = none])
  <2> DEFINE last == [next EXCEPT !.vatRatePercent = none]
  <2>1. last.quantity = next.quantity /\ last.unitPrice = next.unitPrice /\ last.vatRatePercent = none
    BY <1>5, <1>6
  <2> HIDE DEF last
  <2>2. RowRead(last)
    BY <1>3, <1>7, <2>1 DEF RowRead
  <2> QED BY <2>2 DEF last
<1> QED BY <1>1, <1>4, <1>7, <1>8 DEF ReadRow

LEMMA ReadSteps ==
  ASSUME InputsRead, FormRead, [FillIn]_form
  PROVE  FormRead'
<1>1. CASE AddLine
  BY <1>1, BlankRead, AppendProperties DEF AddLine, FormRead
<1>2. CASE RemoveLine
  <2>1. PICK i \in DOMAIN rows : rows' = RemoveAt(rows, i) /\ header' = header /\ prepaid' = prepaid
    BY <1>2 DEF RemoveLine
  <2>2. Len(rows) \in Nat /\ i \in 1..Len(rows) /\ \A k \in 1..Len(rows) : rows[k] \in ReadRow
    BY LenProperties, ElementOfSeq DEF FormRead
  <2>3. SubSeq(rows, 1, i - 1) \in Seq(ReadRow) /\ SubSeq(rows, i + 1, Len(rows)) \in Seq(ReadRow)
    BY <2>2, SubSeqProperties
  <2>4. RemoveAt(rows, i) \in Seq(ReadRow)
    BY <2>3, ConcatProperties DEF RemoveAt
  <2> QED BY <2>1, <2>4 DEF FormRead
<1>3. CASE Update
  <2>1. PICK i \in DOMAIN rows, patch \in Patches :
          rows' = [rows EXCEPT ![i] = update(rows[i], patch)] /\ header' = header /\ prepaid' = prepaid
    BY <1>3 DEF Update
  <2>2. i \in 1..Len(rows) /\ update(rows[i], patch) \in ReadRow
    BY LenProperties, ElementOfSeq, UpdateRead DEF FormRead
  <2>3. [rows EXCEPT ![i] = update(rows[i], patch)] \in Seq(ReadRow)
    BY <2>2, ExceptSeq DEF FormRead
  <2> QED BY <2>1, <2>3 DEF FormRead
<1>4. CASE setPrepaid
  BY <1>4 DEF setPrepaid, FormRead
<1>5. CASE setHeader
  BY <1>5 DEF setHeader, FormRead, blankHeader
<1>6. CASE UNCHANGED form
  BY <1>6 DEF form, FormRead, blankHeader, Untyped, Typed
<1> QED BY <1>1, <1>2, <1>3, <1>4, <1>5, <1>6 DEF FillIn

LEMMA ReadHolds == InputsRead /\ Spec => []FormRead
<1> SUFFICES ASSUME InputsRead PROVE Spec => []FormRead
  OBVIOUS
<1>1. Init => FormRead
  BY BlankRead DEF Init, FormInit, FormRead
<1>2. FormRead /\ [Next]_vars => FormRead'
  <2> SUFFICES ASSUME FormRead, [Next]_vars PROVE FormRead'
    OBVIOUS
  <2>1. [FillIn]_form
    <3>1. ASSUME NEW d, generateFacturX(d) PROVE UNCHANGED form
      BY <3>1 DEF generateFacturX
    <3>2. CASE Submit
      BY <3>1, <3>2 DEF Submit
    <3>3. CASE WriteInvoice
      BY <3>3 DEF WriteInvoice
    <3>4. CASE issueInvoice
      BY <3>1, <3>4 DEF issueInvoice
    <3>5. CASE SelfValidate
      BY <3>5 DEF SelfValidate, selfValidate
    <3>6. ASSUME NEW doc, NEW line, Returned(doc, line) PROVE UNCHANGED form
      BY <3>6 DEF Returned
    <3>7. CASE Alter
      BY <3>6, <3>7 DEF Alter
    <3>8. CASE Omit
      BY <3>6, <3>8 DEF Omit
    <3>9. CASE Submitted
      BY <3>9 DEF Submitted, Upload
    <3>10. CASE UNCHANGED vars
      BY <3>10 DEF vars
    <3> QED BY <3>2, <3>3, <3>4, <3>5, <3>7, <3>8, <3>9, <3>10 DEF Next
  <2> QED BY <2>1, ReadSteps
<1> QED BY <1>1, <1>2, PTL DEF Spec

(* The draft that is given to the generator is one that can be read. *)
LEMMA SubmittedTyped ==
  ASSUME InputsRead, FormTyped, FormRead, IsIssueInvoiceDto,
         \A i \in DOMAIN rows : IsComplete(rows[i])
  PROVE  /\ DraftTyped(SubmittedDraft) /\ \E T : SubmittedDraft.lines \in Seq(T)
         /\ RatesKept => \A i \in DOMAIN SubmittedDraft.lines :
                            RateKept(SubmittedDraft.lines[i].vatRatePercent)
<1> DEFINE n == Len(rows)
           b == [i \in 1..n |-> draftOf(payloadLine(i))]
<1>1. n \in Nat /\ DOMAIN rows = 1..n
  BY LenProperties DEF FormTyped
<1>2. payload = [i \in 1..n |-> payloadLine(i)]
  BY AllSubmitted
<1>3. SubmittedDraft = [header EXCEPT !.prepaidAmount = prepaid.amount, !.lines = b]
  BY <1>2 DEF SubmittedDraft
<1>4. ASSUME NEW i \in 1..n PROVE LineTyped(b[i]) /\ (RatesKept => RateKept(b[i].vatRatePercent))
  <2>1. rows[i] \in ReadRow
    BY ElementOfSeq DEF FormRead
  <2>2. /\ payloadLine(i).quantity = rows[i].quantity
        /\ payloadLine(i).unitPrice = rows[i].unitPrice
        /\ payloadLine(i).vatRatePercent = rows[i].vatRatePercent
    BY AllSubmitted, PayloadFields
  <2>3. /\ b[i].quantity = rows[i].quantity.amount
        /\ b[i].unitPrice = rows[i].unitPrice.amount
        /\ b[i].vatRatePercent = rows[i].vatRatePercent.amount
    BY <2>2 DEF draftOf, DraftLine
  <2> HIDE DEF b
  <2> QED BY <2>1, <2>3 DEF ReadRow, RowRead, LineTyped
<1>5. b \in Seq({b[i] : i \in 1..n})
  <2>1. b = [i \in 1..n |-> b[i]]
    OBVIOUS
  <2> HIDE DEF b
  <2> QED BY <1>1, <2>1, LengthOf
<1>6. DOMAIN header = DOMAIN blankHeader
  BY HeaderAssumption DEF FormRead
<1>7. {"lines", "prepaidAmount", "issueDate", "seller", "iban"} \subseteq DOMAIN header
  BY <1>6 DEF blankHeader
<1>8. /\ header.issueDate \in Int
      /\ {header.seller.siret, header.seller.siren, header.iban} \subseteq Seq(Int)
  BY DEF FormRead, InputsRead
<1>9. prepaid.amount \in Amounts
  BY BlankRead DEF FormRead, InputsRead
<1>10. DOMAIN b = 1..n
  OBVIOUS
<1> HIDE DEF b
<1>11. /\ SubmittedDraft.lines = b /\ SubmittedDraft.prepaidAmount = prepaid.amount
       /\ SubmittedDraft.issueDate = header.issueDate /\ SubmittedDraft.seller = header.seller
       /\ SubmittedDraft.iban = header.iban
  BY <1>3, <1>7
<1> QED BY <1>4, <1>5, <1>8, <1>9, <1>10, <1>11 DEF DraftTyped

(* What has been generated is of a draft that can be read, and that passed. *)
LEMMA GeneratedAccepted ==
  ASSUME InputsRead, FormTyped, GeneratedInv, FormRead, generated # Nothing
  PROVE  /\ generated.cii = serialiseCii(draft, computeInvoice(draft))
         /\ DraftTyped(draft) /\ DraftAccepted(draft) /\ \E T : draft.lines \in Seq(T)
         /\ RatesKept => \A i \in DOMAIN draft.lines : RateKept(draft.lines[i].vatRatePercent)
<1>1. generated.cii = serialiseCii(draft, computeInvoice(draft)) /\ ~Blocks(checkDraft(draft))
  BY DEF GeneratedInv, Renditions
<1>2. /\ DraftTyped(draft) /\ \E T : draft.lines \in Seq(T)
      /\ RatesKept => \A i \in DOMAIN draft.lines : RateKept(draft.lines[i].vatRatePercent)
  <2>1. CASE draft \in Drafts
    BY <2>1, DraftsAssumption DEF InputsRead, RatesKept
  <2>2. CASE /\ draft = SubmittedDraft /\ IsIssueInvoiceDto
             /\ \A i \in DOMAIN rows : IsComplete(rows[i])
    BY <2>2, SubmittedTyped
  <2> QED BY <2>1, <2>2 DEF GeneratedInv
<1> QED BY <1>1, <1>2, AcceptedDraft

(* A draft that passes its checks makes a document that breaks none of the rules they  *)
(* anticipate: the arithmetic, the groups of VAT, the categories, the parties and the  *)
(* dates, once every amount is rounded and written, for any lines, amounts and rates   *)
(* (check-draft.ts, compute.ts, cii.ts).  A rate that two decimals would write 0.00 is *)
(* left out: the code accepts it, and the engine does not.                             *)
THEOREM AcceptedDraftsConform == InputsRead /\ RatesKept /\ Spec => []AcceptedConforms
<1> SUFFICES ASSUME InputsRead, RatesKept PROVE Spec => []AcceptedConforms
  OBVIOUS
<1>1. FormTyped /\ GeneratedInv /\ FormRead => AcceptedConforms
  BY GeneratedAccepted, AcceptedBreaksNone DEF AcceptedConforms, JustGenerated
<1> QED BY <1>1, GeneratedHolds, ReadHolds, PTL

---------------------------------------------------------------------------
(* A document that is read back. *)
MoneyTexts == {Format(d) : d \in Monies}

LEMMA MoneyText ==
  ASSUME NEW d \in Monies
  PROVE  Format(d) \in MoneyTexts /\ Written(d) \in MoneyTexts
<1>1. Written(d) = Format(d)
  BY MoneyIsItself DEF Written
<1> QED BY <1>1 DEF MoneyTexts

(* What was written is read again as it was. *)
LEMMA ReadAgain ==
  ASSUME NEW t \in MoneyTexts
  PROVE  /\ t # NoElement /\ amount(t) \in Monies /\ amount(t).value = Cents(t)
         /\ Cents(t) \in Int /\ IsKnown(amount(t))
<1>1. PICK d \in Monies : t = Format(d)
  BY DEF MoneyTexts
<1>2. d.value \in Int /\ d.scale = 2
  BY <1>1 DEF Monies
<1>3. Written(d) = t
  BY <1>1, MoneyIsItself DEF Written
<1>4. t # NoElement /\ Cents(t) = d.value
  BY <1>3, CentsWritten
<1>5. /\ t.negative = (d.value < 0) /\ t.whole = Magnitude(d.value) \div 100
      /\ t.fraction = Magnitude(d.value) % 100 /\ t.places = 2
  BY <1>1, <1>2, SmallPowers DEF Format
<1>6. Cents(t) = Signed(t.negative, 100 * t.whole + t.fraction)
  BY <1>4 DEF Cents
<1>7. amount(t) = Dec(Signed(t.negative, t.whole * 100 + t.fraction), 2)
  BY <1>4, <1>5, SmallPowers DEF amount, ParseDecimal
<1>8. PICK m \in Nat : m = Magnitude(d.value)
  BY <1>2 DEF Magnitude
<1>9. t.whole \in Int /\ t.fraction \in Int
  BY <1>5, <1>8
<1>10. t.whole * 100 + t.fraction = 100 * t.whole + t.fraction
  BY ONLY <1>9
<1>11. amount(t) = Dec(d.value, 2)
  BY <1>4, <1>6, <1>7, <1>10
<1> QED BY <1>2, <1>4, <1>11 DEF Dec, Monies, IsKnown, NoAmount

(* An amount that may be missing counts for nothing. *)
LEMMA ReadOrZero ==
  ASSUME NEW t \in MoneyTexts \cup {NoElement}, NEW a \in Monies
  PROVE  LET z == OrZero(amount(t))
         IN /\ Cents(t) \in Int
            /\ Minus(a, z) \in Monies /\ Minus(a, z).value = a.value - Cents(t)
            /\ Plus(a, z) \in Monies /\ Plus(a, z).value = a.value + Cents(t)
<1>1. CASE t \in MoneyTexts
  <2>1. PICK z \in Monies : z = amount(t) /\ z.value = Cents(t) /\ Cents(t) \in Int /\ OrZero(amount(t)) = z
    BY <1>1, ReadAgain DEF OrZero
  <2>2. Minus(a, z) = Dec(a.value - z.value, 2) /\ Minus(a, z) \in Monies
        /\ Plus(a, z) = Dec(a.value + z.value, 2) /\ Plus(a, z) \in Monies
    BY MoneyAdds
  <2> QED BY <2>1, <2>2 DEF Dec
<1>2. CASE t = NoElement
  <2>1. OrZero(amount(t)) = Zero /\ Cents(t) = 0
    BY <1>2 DEF OrZero, amount, IsKnown, Cents
  <2>2. a.value \in Int /\ a.scale = 2
    BY DEF Monies
  <2>3. CommonScale(a, Zero) = 2
    BY <2>2 DEF CommonScale, Zero, Dec
  <2>4. Rescale(a, 2).value = a.value
    BY MoneyIsItself DEF MonetaryScale
  <2>5. Rescale(Zero, 2).value = 0
    <3>1. Zero \in Decimals /\ Zero.value = 0
      BY DEF Zero, Dec, Decimals
    <3> QED BY <3>1, ZeroStays
  <2>6. Minus(a, Zero) = Dec(a.value - 0, 2) /\ Plus(a, Zero) = Dec(a.value + 0, 2)
    BY <2>3, <2>4, <2>5 DEF Minus, Plus, Aligned
  <2> QED BY <2>1, <2>2, <2>6 DEF Dec, Monies
<1> QED BY <1>1, <1>2

LEMMA SameCents ==
  ASSUME NEW a \in Monies, NEW b \in Monies
  PROVE  /\ SameMoney(a, b) <=> a.value = b.value
         /\ check(a, b) <=> a.value = b.value
         /\ Abs(a) \in Monies /\ Abs(a).value = Magnitude(a.value)
<1>1. a.value \in Int /\ a.scale = 2 /\ b.value \in Int /\ b.scale = 2
  BY DEF Monies
<1>2. /\ Rescale(a, MonetaryScale) = a /\ Rescale(b, MonetaryScale) = b
      /\ Rescale(a, 2).value = a.value /\ Rescale(b, 2).value = b.value
  BY MoneyIsItself DEF MonetaryScale
<1>3. CommonScale(a, b) = 2
  BY <1>1 DEF CommonScale
<1>4. SameMoney(a, b) <=> a.value = b.value
  BY <1>2, <1>3 DEF SameMoney, Same, Aligned
<1>5. IsKnown(a) /\ IsKnown(b)
  BY <1>1 DEF IsKnown, NoAmount, Dec
<1>6. Abs(a) = Dec(Magnitude(a.value), 2) /\ Magnitude(a.value) \in Int
  BY <1>1 DEF Abs, Magnitude
<1> QED BY <1>4, <1>5, <1>6 DEF check, Dec, Monies

StatedTotals == {"lineTotalAmount", "taxBasisTotalAmount", "taxTotalAmount", "grandTotalAmount",
                 "duePayableAmount"}
PerhapsStated == {"allowanceTotalAmount", "chargeTotalAmount", "prepaidAmount"}

(* A document of n lines and m groups, each amount of which is one of money. *)
ReadableParts(doc, n, m) ==
  /\ {"profile", "lines", "taxes", "totals"} \subseteq DOMAIN doc /\ doc.profile = "BASIC"
  /\ DOMAIN doc.lines = 1..n /\ \A i \in 1..n : doc.lines[i].lineTotal \in MoneyTexts
  /\ DOMAIN doc.taxes = 1..m
  /\ \A k \in 1..m : /\ {"calculatedAmount", "basisAmount", "ratePercent"} \subseteq DOMAIN doc.taxes[k]
                     /\ doc.taxes[k].calculatedAmount \in MoneyTexts
                     /\ doc.taxes[k].basisAmount \in MoneyTexts
                     /\ doc.taxes[k].ratePercent \in MoneyTexts
  /\ DOMAIN doc.totals = StatedTotals \cup PerhapsStated
  /\ \A f \in StatedTotals : doc.totals[f] \in MoneyTexts
  /\ \A f \in PerhapsStated : doc.totals[f] \in MoneyTexts \cup {NoElement}

ReadableDocument(doc) == \E n, m : n \in Nat \ {0} /\ m \in Nat \ {0} /\ ReadableParts(doc, n, m)

(* A list of amounts, all known, is totalled whole. *)
LEMMA AllKnown ==
  ASSUME NEW n \in Nat \ {0}, NEW a, DOMAIN a = 1..n, a = [i \in 1..n |-> a[i]],
         \A i \in 1..n : a[i] \in Monies
  PROVE  /\ filter(a, IsKnown) = a /\ a # <<>>
         /\ \E h, f : MoneyList(a, n, h) /\ AddsUp(f, 1..n, h)
                      /\ Total(a) = Dec(f[1..n], 2) /\ Total(a) \in Monies
<1>1. \A i \in 1..n : IsKnown(a[i]) /\ a[i].value \in Int
  BY DEF Monies, IsKnown, NoAmount, Dec
<1>2. a \in [1..n -> Monies]
  OBVIOUS
<1>3. a \in Seq(Monies) /\ Len(a) = n
  <2>1. a \in Seq(Monies)
    BY <1>2, SeqDef
  <2> QED BY <2>1, LengthOf
<1> DEFINE in == {i \in DOMAIN a : IsKnown(a[i])}
<1>4. filter(a, IsKnown) = Selected(a, in)
  BY DEF filter
<1>5. 1..Len(a) \subseteq in
  BY <1>1, <1>3
<1>6. a # <<>>
  <2>1. Len(a) # 0
    BY <1>3
  <2> QED BY <1>3, <2>1, EmptySeq
<1> HIDE DEF in
<1>7. filter(a, IsKnown) = a
  BY <1>3, <1>4, <1>5, SelectedWhole
<1> DEFINE h == [i \in 1..n |-> a[i].value]
<1>8. h \in [1..n -> Int] /\ MoneyList(a, n, h)
  BY <1>1 DEF MoneyList
<1> HIDE DEF h
<1>9. PICK f : AddsUp(f, 1..n, h)
  <2>1. IsFiniteSet(1..n)
    BY FS_Interval
  <2>2. PICK S : S = 1..n
    OBVIOUS
  <2> QED BY <1>8, <2>1, <2>2, SumsExist
<1>10. Total(a) = Dec(f[1..n], 2) /\ Total(a) \in Monies
  BY <1>8, <1>9, TotalAdds
<1> QED BY <1>6, <1>7, <1>8, <1>9, <1>10

LEMMA LinesTotalled ==
  ASSUME NEW doc, NEW n \in Nat \ {0}, NEW m, ReadableParts(doc, n, m)
  PROVE  LET known == KnownAmounts(parseCii(doc))
         IN /\ known # <<>> /\ Total(known) \in Monies
            /\ Total(known).value = LineCents(doc, DOMAIN doc.lines)
            /\ parseCii(doc).lines # <<>>
<1> DEFINE lines == parseCii(doc).lines
           a == [i \in DOMAIN lines |-> lines[i].netAmount]
<1>1. /\ DOMAIN lines = 1..n /\ DOMAIN doc.lines = 1..n
      /\ \A i \in 1..n : lines[i].netAmount = amount(doc.lines[i].lineTotal)
  BY DEF parseCii, parseLine, ReadableParts
<1>2. KnownAmounts(parseCii(doc)) = filter(a, IsKnown)
  BY DEF KnownAmounts
<1>3. lines # <<>>
  <2>1. 1 \in DOMAIN lines
    BY <1>1
  <2> HIDE DEF lines
  <2> QED BY <2>1
<1> HIDE DEF lines
<1>4. DOMAIN a = 1..n /\ a = [i \in 1..n |-> a[i]]
  BY <1>1
<1>5. \A i \in 1..n : a[i] \in Monies /\ a[i].value = Cents(doc.lines[i].lineTotal)
  BY <1>1, ReadAgain DEF ReadableParts
<1> HIDE DEF a
<1>6. PICK h, f : MoneyList(a, n, h) /\ AddsUp(f, 1..n, h)
                  /\ Total(a) = Dec(f[1..n], 2) /\ Total(a) \in Monies
  BY <1>4, <1>5, AllKnown
<1>7. filter(a, IsKnown) = a /\ a # <<>>
  BY <1>4, <1>5, AllKnown
<1>8. LineCentsIn(doc, n, h)
  BY <1>1, <1>5, <1>6 DEF LineCentsIn, MoneyList
<1>9. PICK S : S = 1..n /\ S \in SUBSET (1..n)
  OBVIOUS
<1>10. LineCents(doc, S) = f[S]
  BY <1>6, <1>8, <1>9, LineCentsAre
<1>11. Total(a).value = LineCents(doc, DOMAIN doc.lines)
  BY <1>1, <1>6, <1>9, <1>10 DEF Dec
<1> QED BY <1>2, <1>3, <1>6, <1>7, <1>11 DEF lines

LEMMA TaxesTotalled ==
  ASSUME NEW doc, NEW n, NEW m \in Nat \ {0}, ReadableParts(doc, n, m)
  PROVE  LET groups == parseCii(doc).taxBreakdown
             known == filter([k \in DOMAIN groups |-> groups[k].calculatedAmount], IsKnown)
         IN /\ groups # <<>> /\ Total(known) \in Monies /\ Total(known).value = TaxCents(doc)
<1> DEFINE groups == parseCii(doc).taxBreakdown
           a == [k \in DOMAIN groups |-> groups[k].calculatedAmount]
<1>1. /\ DOMAIN groups = 1..m /\ DOMAIN doc.taxes = 1..m
      /\ \A k \in 1..m : groups[k].calculatedAmount = amount(doc.taxes[k].calculatedAmount)
  BY DEF parseCii, parseTaxBreakdown, ReadableParts
<1>2. groups # <<>>
  <2>1. 1 \in DOMAIN groups
    BY <1>1
  <2> HIDE DEF groups
  <2> QED BY <2>1
<1> HIDE DEF groups
<1>4. DOMAIN a = 1..m /\ a = [k \in 1..m |-> a[k]]
  BY <1>1
<1>5. \A k \in 1..m : a[k] \in Monies /\ a[k].value = Cents(doc.taxes[k].calculatedAmount)
  BY <1>1, ReadAgain DEF ReadableParts
<1> HIDE DEF a
<1>6. PICK h, f : MoneyList(a, m, h) /\ AddsUp(f, 1..m, h)
                  /\ Total(a) = Dec(f[1..m], 2) /\ Total(a) \in Monies
  BY <1>4, <1>5, AllKnown
<1>7. filter(a, IsKnown) = a
  BY <1>4, <1>5, AllKnown
<1>8. TaxCentsIn(doc, m, h)
  BY <1>1, <1>5, <1>6 DEF TaxCentsIn, MoneyList
<1>9. TaxCents(doc) = f[1..m]
  BY <1>6, <1>8, TaxCentsAre
<1>10. Total(a).value = TaxCents(doc)
  BY <1>6, <1>9 DEF Dec
<1> QED BY <1>2, <1>6, <1>7, <1>10 DEF groups, a

---------------------------------------------------------------------------
LEMMA VatReadAgain ==
  ASSUME NEW tax, tax.calculatedAmount \in MoneyTexts, tax.basisAmount \in MoneyTexts,
         tax.ratePercent \in MoneyTexts
  PROVE  vatRateCheck(parseTaxBreakdown(tax))
           <=> Cents(tax.calculatedAmount) = VatCents(Cents(tax.basisAmount), Cents(tax.ratePercent))
<1> DEFINE entry == parseTaxBreakdown(tax)
<1>1. PICK b \in Monies, r \in Monies, v \in Monies :
        /\ b = amount(tax.basisAmount) /\ r = amount(tax.ratePercent) /\ v = amount(tax.calculatedAmount)
        /\ b.value = Cents(tax.basisAmount) /\ r.value = Cents(tax.ratePercent)
        /\ v.value = Cents(tax.calculatedAmount) /\ IsKnown(b) /\ IsKnown(r)
  BY ReadAgain
<1>2. entry.basisAmount = b /\ entry.ratePercent = r /\ entry.calculatedAmount = v
  BY <1>1 DEF parseTaxBreakdown
<1> HIDE DEF entry
<1>3. vatRateCheck(entry) <=> check(v, vatOn(b, r))
  BY <1>1, <1>2 DEF vatRateCheck, vatOn
<1>4. vatOn(b, r) \in Monies /\ vatOn(b, r).value = VatCents(b.value, r.value)
  BY VatRounds
<1>5. check(v, vatOn(b, r)) <=> v.value = vatOn(b, r).value
  BY <1>4, SameCents
<1> QED BY <1>1, <1>3, <1>4, <1>5 DEF entry

(* What the code checks of the totals that it reads, in cents. *)
LEMMA TotalsReadAgain ==
  ASSUME NEW doc, NEW n \in Nat \ {0}, NEW m \in Nat \ {0}, ReadableParts(doc, n, m),
         NEW w, w = doc.totals, NEW inv, inv = parseCii(doc)
  PROVE  /\ lineTotalCheck(inv) <=> Cents(w.lineTotalAmount) = LineCents(doc, DOMAIN doc.lines)
         /\ taxBasisCheck(inv.totals) <=>
              Cents(w.taxBasisTotalAmount)
                = Cents(w.lineTotalAmount) - Cents(w.allowanceTotalAmount) + Cents(w.chargeTotalAmount)
         /\ taxTotalCheck(inv) <=> Cents(w.taxTotalAmount) = TaxCents(doc)
         /\ grandTotalCheck(inv.totals) <=>
              Cents(w.grandTotalAmount) = Cents(w.taxBasisTotalAmount) + Cents(w.taxTotalAmount)
         /\ dueCheck(inv) <=>
              Cents(w.duePayableAmount) = Cents(w.grandTotalAmount) - Cents(w.prepaidAmount)
<1>1. DOMAIN w = StatedTotals \cup PerhapsStated
  BY DEF ReadableParts
<1>2. \A f \in DOMAIN w : inv.totals[f] = amount(w[f])
  BY DEF parseCii
<1>3. PICK l \in Monies, b \in Monies, x \in Monies, g \in Monies, d \in Monies :
        /\ l = inv.totals.lineTotalAmount /\ b = inv.totals.taxBasisTotalAmount
        /\ x = inv.totals.taxTotalAmount /\ g = inv.totals.grandTotalAmount
        /\ d = inv.totals.duePayableAmount
        /\ l.value = Cents(w.lineTotalAmount) /\ b.value = Cents(w.taxBasisTotalAmount)
        /\ x.value = Cents(w.taxTotalAmount) /\ g.value = Cents(w.grandTotalAmount)
        /\ d.value = Cents(w.duePayableAmount)
        /\ IsKnown(l) /\ IsKnown(b) /\ IsKnown(x) /\ IsKnown(g) /\ IsKnown(d)
  <2>1. \A f \in StatedTotals : /\ inv.totals[f] \in Monies /\ inv.totals[f].value = Cents(w[f])
                                /\ IsKnown(inv.totals[f])
    BY <1>1, <1>2, ReadAgain DEF ReadableParts
  <2> QED BY <2>1 DEF StatedTotals
<1>4. PICK za, zc, zp :
        /\ za = w.allowanceTotalAmount /\ zc = w.chargeTotalAmount /\ zp = w.prepaidAmount
        /\ {za, zc, zp} \subseteq MoneyTexts \cup {NoElement}
        /\ inv.totals.allowanceTotalAmount = amount(za) /\ inv.totals.chargeTotalAmount = amount(zc)
        /\ inv.totals.prepaidAmount = amount(zp)
  BY <1>1, <1>2 DEF ReadableParts, PerhapsStated
<1>5. inv.profile = "BASIC"
  BY DEF parseCii, ReadableParts
<1>6. lineTotalCheck(inv) <=> Cents(w.lineTotalAmount) = LineCents(doc, DOMAIN doc.lines)
  <2>1. PICK s \in Monies : /\ s = Total(KnownAmounts(inv)) /\ inv.lines # <<>>
                            /\ s.value = LineCents(doc, DOMAIN doc.lines)
    BY LinesTotalled
  <2>2. lineTotalCheck(inv) <=> check(l, s)
    BY <1>3, <2>1 DEF lineTotalCheck
  <2>3. check(l, s) <=> l.value = s.value
    BY SameCents
  <2> QED BY <1>3, <2>1, <2>2, <2>3
<1>7. taxBasisCheck(inv.totals) <=>
        Cents(w.taxBasisTotalAmount) = (Cents(w.lineTotalAmount) - Cents(za)) + Cents(zc)
  <2>1. PICK a \in Monies : /\ a = Minus(l, OrZero(amount(za))) /\ a.value = l.value - Cents(za)
    BY <1>4, ReadOrZero
  <2>2. PICK e \in Monies : e = Plus(a, OrZero(amount(zc))) /\ e.value = a.value + Cents(zc)
    BY <1>4, ReadOrZero
  <2>3. taxBasisCheck(inv.totals) <=> check(b, e)
    BY <1>3, <1>4, <2>1, <2>2 DEF taxBasisCheck
  <2>4. check(b, e) <=> b.value = e.value
    BY SameCents
  <2> QED BY <1>3, <2>1, <2>2, <2>3, <2>4
<1>8. taxTotalCheck(inv) <=> Cents(w.taxTotalAmount) = TaxCents(doc)
  <2> DEFINE known == filter([k \in DOMAIN inv.taxBreakdown |->
                                inv.taxBreakdown[k].calculatedAmount], IsKnown)
  <2>1. inv.taxBreakdown # <<>> /\ Total(known) \in Monies /\ Total(known).value = TaxCents(doc)
    BY TaxesTotalled
  <2>2. taxTotalCheck(inv) <=> check(x, Total(known))
    BY <1>3, <2>1 DEF taxTotalCheck
  <2> HIDE DEF known
  <2>3. PICK s \in Monies : s = Total(known)
    BY <2>1
  <2>4. check(x, s) <=> x.value = s.value
    BY SameCents
  <2> QED BY <1>3, <2>1, <2>2, <2>3, <2>4
<1>9. grandTotalCheck(inv.totals) <=>
        Cents(w.grandTotalAmount) = Cents(w.taxBasisTotalAmount) + Cents(w.taxTotalAmount)
  <2>1. PICK e \in Monies : e = Plus(b, x) /\ e.value = b.value + x.value
    BY MoneyAdds DEF Dec
  <2>2. grandTotalCheck(inv.totals) <=> check(g, e)
    BY <1>3, <2>1 DEF grandTotalCheck
  <2>3. check(g, e) <=> g.value = e.value
    BY SameCents
  <2> QED BY <1>3, <2>1, <2>2, <2>3
<1>10. dueCheck(inv) <=> Cents(w.duePayableAmount) = Cents(w.grandTotalAmount) - Cents(zp)
  <2>1. PICK e \in Monies : e = Minus(g, OrZero(amount(zp))) /\ e.value = g.value - Cents(zp)
    BY <1>4, ReadOrZero
  <2>2. dueCheck(inv) <=> check(d, e)
    BY <1>3, <1>4, <1>5, <2>1 DEF dueCheck, profileCanExpressPrepaidAmount
  <2>3. check(d, e) <=> d.value = e.value
    BY SameCents
  <2> QED BY <1>3, <2>1, <2>2, <2>3
<1> QED BY <1>4, <1>6, <1>7, <1>8, <1>9, <1>10

LEMMA ChecksReadAgain ==
  ASSUME NEW doc, ReadableDocument(doc)
  PROVE  checkArithmetic(parseCii(doc)) = BrokenArithmetic(doc)
<1>1. PICK n, m : n \in Nat \ {0} /\ m \in Nat \ {0} /\ ReadableParts(doc, n, m)
  BY DEF ReadableDocument
<1>2. PICK inv, w : inv = parseCii(doc) /\ w = doc.totals
  OBVIOUS
<1> DEFINE c == [f \in DOMAIN w |-> Cents(w[f])]
<1>3. \A f \in StatedTotals \cup PerhapsStated : c[f] = Cents(w[f])
  BY <1>1, <1>2 DEF ReadableParts
<1>4. /\ c.lineTotalAmount = Cents(w.lineTotalAmount)
      /\ c.taxBasisTotalAmount = Cents(w.taxBasisTotalAmount)
      /\ c.allowanceTotalAmount = Cents(w.allowanceTotalAmount)
      /\ c.chargeTotalAmount = Cents(w.chargeTotalAmount)
      /\ c.taxTotalAmount = Cents(w.taxTotalAmount) /\ c.grandTotalAmount = Cents(w.grandTotalAmount)
      /\ c.prepaidAmount = Cents(w.prepaidAmount) /\ c.duePayableAmount = Cents(w.duePayableAmount)
  BY <1>3 DEF StatedTotals, PerhapsStated
<1> HIDE DEF c
<1>5. /\ lineTotalCheck(inv) <=> c.lineTotalAmount = LineCents(doc, DOMAIN doc.lines)
      /\ taxBasisCheck(inv.totals) <=>
           c.taxBasisTotalAmount
             = c.lineTotalAmount - c.allowanceTotalAmount + c.chargeTotalAmount
      /\ taxTotalCheck(inv) <=> c.taxTotalAmount = TaxCents(doc)
      /\ grandTotalCheck(inv.totals) <=>
           c.grandTotalAmount = c.taxBasisTotalAmount + c.taxTotalAmount
      /\ dueCheck(inv) <=> c.duePayableAmount = c.grandTotalAmount - c.prepaidAmount
  BY <1>1, <1>2, <1>4, TotalsReadAgain
<1>6. (\E k \in DOMAIN inv.taxBreakdown : ~vatRateCheck(inv.taxBreakdown[k]))
        <=> \E k \in DOMAIN doc.taxes :
               Cents(doc.taxes[k].calculatedAmount)
                  # VatCents(Cents(doc.taxes[k].basisAmount), Cents(doc.taxes[k].ratePercent))
  <2>1. DOMAIN inv.taxBreakdown = 1..m /\ DOMAIN doc.taxes = 1..m
        /\ \A k \in 1..m : inv.taxBreakdown[k] = parseTaxBreakdown(doc.taxes[k])
    BY <1>1, <1>2 DEF parseCii, ReadableParts
  <2>2. \A k \in 1..m : vatRateCheck(parseTaxBreakdown(doc.taxes[k]))
           <=> Cents(doc.taxes[k].calculatedAmount)
                 = VatCents(Cents(doc.taxes[k].basisAmount), Cents(doc.taxes[k].ratePercent))
    BY <1>1, VatReadAgain DEF ReadableParts
  <2> QED BY <2>1, <2>2
<1>7. BrokenArithmetic(doc) =
        {r \in ArithmeticRules :
           \/ r = "BR-CO-10" /\ c.lineTotalAmount # LineCents(doc, DOMAIN doc.lines)
           \/ r = "BR-CO-13" /\ c.taxBasisTotalAmount
                                  # c.lineTotalAmount - c.allowanceTotalAmount + c.chargeTotalAmount
           \/ r = "BR-CO-14" /\ c.taxTotalAmount # TaxCents(doc)
           \/ r = "BR-CO-15" /\ c.grandTotalAmount # c.taxBasisTotalAmount + c.taxTotalAmount
           \/ r = "BR-CO-16" /\ c.duePayableAmount # c.grandTotalAmount - c.prepaidAmount
           \/ r = "BR-CO-17" /\ \E k \in DOMAIN doc.taxes :
                                  Cents(doc.taxes[k].calculatedAmount)
                                     # VatCents(Cents(doc.taxes[k].basisAmount),
                                                Cents(doc.taxes[k].ratePercent))}
  BY <1>2 DEF BrokenArithmetic, c
<1>8. checkArithmetic(inv) = BrokenArithmetic(doc)
  BY <1>5, <1>6, <1>7 DEF checkArithmetic, ArithmeticRules
<1> QED BY <1>2, <1>8

(* The lines pointed at, when the total leaves one out. *)
OmittedAmount(doc, i) == Cents(doc.lines[i].lineTotal)

LEMMA SuspectsReadAgain ==
  ASSUME NEW doc, ReadableDocument(doc), NEW v \in Int, v # 0,
         Cents(doc.totals.lineTotalAmount) = LineCents(doc, DOMAIN doc.lines) - v
  PROVE  suspectLinesForLineTotal(parseCii(doc))
           = {doc.lines[i].lineId :
                i \in {j \in DOMAIN doc.lines : Magnitude(OmittedAmount(doc, j)) = Magnitude(v)}}
<1>1. PICK n, m : n \in Nat \ {0} /\ m \in Nat \ {0} /\ ReadableParts(doc, n, m)
  BY DEF ReadableDocument
<1>2. PICK inv : inv = parseCii(doc)
  OBVIOUS
<1>3. PICK s \in Monies : /\ s = Total(KnownAmounts(inv)) /\ KnownAmounts(inv) # <<>>
                          /\ s.value = LineCents(doc, DOMAIN doc.lines)
  BY <1>1, <1>2, LinesTotalled
<1>4. PICK l \in Monies : /\ l = inv.totals.lineTotalAmount /\ IsKnown(l)
                          /\ l.value = Cents(doc.totals.lineTotalAmount)
  <2>1. inv.totals.lineTotalAmount = amount(doc.totals.lineTotalAmount)
        /\ doc.totals.lineTotalAmount \in MoneyTexts
    BY <1>1, <1>2 DEF parseCii, ReadableParts, StatedTotals
  <2> QED BY <2>1, ReadAgain
<1>5. PICK e \in Monies : e = Minus(s, l) /\ e.value = v
  <2>1. Minus(s, l) \in Monies /\ Minus(s, l) = Dec(s.value - l.value, 2)
    BY MoneyAdds
  <2>2. s.value \in Int /\ l.value = s.value - v
    BY <1>3, <1>4 DEF Monies
  <2>3. s.value - l.value = v
    BY <2>2
  <2> QED BY <2>1, <2>3 DEF Dec
<1>6. /\ DOMAIN inv.lines = 1..n /\ DOMAIN doc.lines = 1..n
      /\ \A i \in 1..n : /\ inv.lines[i].id = doc.lines[i].lineId
                         /\ inv.lines[i].netAmount = amount(doc.lines[i].lineTotal)
  BY <1>1, <1>2 DEF parseCii, parseLine, ReadableParts
<1>7. ASSUME NEW i \in 1..n
      PROVE  IsKnown(inv.lines[i].netAmount) /\ IsWhole(inv.lines[i].netAmount, e)
               <=> Magnitude(OmittedAmount(doc, i)) = Magnitude(v)
  <2>1. PICK a \in Monies : /\ a = inv.lines[i].netAmount /\ IsKnown(a)
                            /\ a.value = OmittedAmount(doc, i)
    BY <1>1, <1>6, ReadAgain DEF ReadableParts, OmittedAmount
  <2>2. PICK p \in Monies, q \in Monies :
          p = Abs(a) /\ q = Abs(e) /\ p.value = Magnitude(a.value) /\ q.value = Magnitude(e.value)
    BY SameCents
  <2>3. SameMoney(p, q) <=> p.value = q.value
    BY SameCents
  <2> QED BY <1>5, <2>1, <2>2, <2>3 DEF IsWhole
<1>8. suspectLinesForLineTotal(inv)
        = {inv.lines[i].id : i \in {j \in DOMAIN inv.lines :
                                      /\ IsKnown(inv.lines[j].netAmount)
                                      /\ IsWhole(inv.lines[j].netAmount, e)}}
  <2>1. ~IsZero(e)
    BY <1>5 DEF IsZero
  <2> QED BY <1>3, <1>4, <1>5, <2>1 DEF suspectLinesForLineTotal
<1> DEFINE J == {j \in 1..n : Magnitude(OmittedAmount(doc, j)) = Magnitude(v)}
<1>9. {j \in DOMAIN inv.lines : /\ IsKnown(inv.lines[j].netAmount)
                                /\ IsWhole(inv.lines[j].netAmount, e)} = J
  BY <1>6, <1>7
<1>10. \A j \in J : inv.lines[j].id = doc.lines[j].lineId
  BY <1>6
<1>11. {inv.lines[i].id : i \in J} = {doc.lines[i].lineId : i \in J}
  <2> HIDE DEF J
  <2> QED BY <1>10
<1> QED BY <1>2, <1>6, <1>8, <1>9, <1>11

---------------------------------------------------------------------------
(* The document of a PDF is the one that was attached to it. *)
LEMMA FirstSelected ==
  ASSUME NEW T, NEW s \in Seq(T), NEW I, 1 \in (1..Len(s)) \cap I
  PROVE  Selected(s, I) # <<>> /\ Head(Selected(s, I)) = s[1]
<1>1. Positioned(Selected(s, I), s, I)
  BY SelectedPositions
<1>2. PICK n \in 0..Len(s) : \E at \in [1..n -> (1..Len(s)) \cap I] :
        /\ Selected(s, I) = [k \in 1..n |-> s[at[k]]] /\ Len(Selected(s, I)) = n
        /\ Rises(at, n)
        /\ \A p \in (1..Len(s)) \cap I : \E k \in 1..n : at[k] = p
  BY <1>1 DEF Positioned
<1>3. PICK at \in [1..n -> (1..Len(s)) \cap I] :
        /\ Selected(s, I) = [k \in 1..n |-> s[at[k]]] /\ Len(Selected(s, I)) = n
        /\ Rises(at, n)
        /\ \A p \in (1..Len(s)) \cap I : \E k \in 1..n : at[k] = p
  BY <1>2
<1>4. PICK k \in 1..n : at[k] = 1
  BY <1>3
<1>5. Len(s) \in Nat /\ n \in Nat /\ 1 \in 1..n
  <2>1. Len(s) \in Nat
    BY LenProperties
  <2> QED BY <2>1, <1>4
<1>6. at[1] = 1
  <2>1. at[1] \in 1..Len(s)
    BY <1>5
  <2>2. k = 1 \/ at[1] < at[k]
    BY <1>3, <1>5 DEF Rises
  <2> QED BY <1>4, <1>5, <2>1, <2>2
<1>7. Selected(s, I)[1] = s[1] /\ DOMAIN Selected(s, I) = 1..n
  BY <1>3, <1>5, <1>6
<1>8. Selected(s, I) # <<>>
  BY <1>5, <1>7
<1>9. Selected(s, I) \in Seq(T)
  BY SelectedKept
<1> QED BY <1>7, <1>8, <1>9, HeadTailProperties

LEMMA AttachedIsPicked ==
  ASSUME NEW attached, attached.name = CANONICAL_ATTACHMENT_NAME
  PROVE  pickInvoiceAttachment(<<attached>>) = attached
<1>1. <<attached>> \in Seq({attached}) /\ Len(<<attached>>) = 1 /\ <<attached>>[1] = attached
      /\ DOMAIN <<attached>> = 1..1
  OBVIOUS
<1> DEFINE named == {i \in DOMAIN <<attached>> : <<attached>>[i].name = CANONICAL_ATTACHMENT_NAME}
           s == Selected(<<attached>>, named)
           c == Candidates(<<attached>>)
<1>2. s # <<>> /\ Head(s) = attached
  <2>1. 1 \in (1..Len(<<attached>>)) \cap named
    BY <1>1
  <2> HIDE DEF named
  <2>2. s # <<>> /\ Head(s) = <<attached>>[1]
    BY <1>1, <2>1, FirstSelected
  <2> QED BY <1>1, <2>2
<1>3. \E x, y : c = <<s, x, y>>
  BY DEF Candidates, filter
<1> HIDE DEF s, c
<1>4. PICK x, y : c = <<s, x, y>>
  BY <1>3
<1>5. c \in Seq({s, x, y}) /\ Len(c) = 3 /\ c[1] = s /\ DOMAIN c = 1..3
  BY <1>4
<1> DEFINE found == {i \in DOMAIN c : c[i] # <<>>}
<1>6. Selected(c, found) # <<>> /\ Head(Selected(c, found)) = s
  <2>1. 1 \in (1..Len(c)) \cap found
    BY <1>2, <1>5
  <2> HIDE DEF found
  <2> QED BY <1>5, <2>1, FirstSelected
<1>7. pickInvoiceAttachment(<<attached>>) = FirstOf(Selected(c, found))
  BY DEF pickInvoiceAttachment, filter, c
<1> HIDE DEF found
<1> QED BY <1>2, <1>6, <1>7 DEF FirstOf

(* What stands for no document, and for one that cannot be read, is none. *)
NothingIsNone ==
  \A none \in {Nothing, Garbled} : {"totals", "invoiceXml", "content"} \cap DOMAIN none = {}

LEMMA OwnPdfRead ==
  ASSUME NothingIsNone, NEW doc, "totals" \in DOMAIN doc, NEW a,
         NEW dto, dto = toAnalysisDto(analyze(PdfOf(doc), a))
  PROVE  /\ doc # Nothing
         /\ dto.failedChecks = checkArithmetic(parseCii(doc))
         /\ dto.suspectLines = suspectLinesForLineTotal(parseCii(doc))
         /\ dto.invoice = invoiceDto(parseCii(doc))
<1>1. PICK attached : attached = Attachment(CANONICAL_ATTACHMENT_NAME, doc, "Data")
  OBVIOUS
<1>2. attached.name = CANONICAL_ATTACHMENT_NAME /\ attached.content = doc
      /\ "content" \in DOMAIN attached
  BY <1>1 DEF Attachment
<1>3. PICK file : file = PdfOf(doc)
  OBVIOUS
<1>4. file.form = "pdf" /\ file.opens /\ file.attachments = <<attached>>
  BY <1>1, <1>3 DEF PdfOf
<1>5. PICK pdf : pdf = Extraction(file, attached)
  OBVIOUS
<1>6. extractFromPdf(file) = pdf
  BY <1>2, <1>4, <1>5, AttachedIsPicked DEF extractFromPdf
<1>7. pdf.invoiceXml = attached /\ "invoiceXml" \in DOMAIN pdf
  BY <1>5 DEF Extraction
<1>8. doc \notin {Nothing, Garbled} /\ pdf # Nothing /\ attached # Nothing
  BY <1>2, <1>7 DEF NothingIsNone
<1>9. ciiBytes(file, pdf) = doc
  BY <1>2, <1>7, <1>8 DEF ciiBytes
<1>10. PICK invoice : invoice = parseCii(doc) /\ invoiceOf(doc) = invoice
  BY <1>8 DEF invoiceOf
<1>11. invoice # Nothing
  <2>1. "totals" \in DOMAIN invoice
    BY <1>10 DEF parseCii
  <2> QED BY <2>1 DEF NothingIsNone
<1>12. PICK kind, error : analyze(file, a) = joined(kind, pdf, invoice, error, validate(a))
  BY <1>6, <1>9, <1>10 DEF analyze, analyzeExtracted, analyzeBytes
<1>13. PICK result : result = analyze(file, a)
  OBVIOUS
<1>14. /\ result.failedChecks = checkArithmetic(invoice)
       /\ result.suspectLines = suspectLinesForLineTotal(invoice)
       /\ result.invoice = invoice
  BY <1>11, <1>12, <1>13 DEF joined
<1>15. /\ dto.failedChecks = result.failedChecks /\ dto.suspectLines = result.suspectLines
       /\ dto.invoice = invoiceDto(invoice)
  BY <1>3, <1>11, <1>13, <1>14 DEF toAnalysisDto
<1> QED BY <1>8, <1>10, <1>14, <1>15

---------------------------------------------------------------------------
(* What is generated can be read back. *)
LEMMA TaxReadable ==
  ASSUME NEW group, NEW line, NEW cents, GroupSums(group, line, cents), NEW node, node = taxNode(group)
  PROVE  /\ {"calculatedAmount", "basisAmount", "ratePercent"} \subseteq DOMAIN node
         /\ node.calculatedAmount \in MoneyTexts /\ node.basisAmount \in MoneyTexts
         /\ node.ratePercent \in MoneyTexts
<1>1. {group.calculatedAmount, group.basisAmount, group.ratePercent} \subseteq Monies
  BY DEF GroupSums
<1>2. /\ {"calculatedAmount", "basisAmount", "ratePercent"} \subseteq DOMAIN node
      /\ node.calculatedAmount = Written(group.calculatedAmount)
      /\ node.basisAmount = Written(group.basisAmount)
      /\ node.ratePercent = Written(group.ratePercent)
  BY DEF taxNode
<1> QED BY <1>1, <1>2, MoneyText

LEMMA TotalsReadable ==
  ASSUME NEW t, NEW lines, NEW taxes, TotalsAdd(t, lines, taxes), NEW w, w = WrittenTotals(t)
  PROVE  /\ DOMAIN w = StatedTotals \cup PerhapsStated
         /\ \A f \in StatedTotals : w[f] \in MoneyTexts
         /\ \A f \in PerhapsStated : w[f] \in MoneyTexts \cup {NoElement}
<1>1. {t.lineTotalAmount, t.taxBasisTotalAmount, t.taxTotalAmount, t.grandTotalAmount,
       t.prepaidAmount, t.duePayableAmount} \subseteq Monies
  BY DEF TotalsAdd
<1>2. /\ w.lineTotalAmount = Written(t.lineTotalAmount)
      /\ w.taxBasisTotalAmount = Written(t.taxBasisTotalAmount)
      /\ w.allowanceTotalAmount = NoElement /\ w.chargeTotalAmount = NoElement
      /\ w.taxTotalAmount = Written(t.taxTotalAmount)
      /\ w.grandTotalAmount = Written(t.grandTotalAmount)
      /\ w.prepaidAmount = IF IsZero(t.prepaidAmount) THEN NoElement ELSE Written(t.prepaidAmount)
      /\ w.duePayableAmount = Written(t.duePayableAmount)
  BY DEF WrittenTotals
<1>3. DOMAIN w = StatedTotals \cup PerhapsStated
  BY DEF WrittenTotals, StatedTotals, PerhapsStated
<1>4. \A x \in Monies : Written(x) \in MoneyTexts
  BY MoneyText
<1> QED BY <1>1, <1>2, <1>3, <1>4 DEF StatedTotals, PerhapsStated

LEMMA GeneratedReadable ==
  ASSUME NEW T, NEW d, d.lines \in Seq(T), DraftTyped(d), DraftAccepted(d),
         NEW doc, doc = serialiseCii(d, computeInvoice(d))
  PROVE  ReadableDocument(doc) /\ BrokenArithmetic(doc) = {}
<1>1. PICK c : c = computeInvoice(d) /\ doc = serialiseCii(d, c)
  OBVIOUS
<1>2. PICK n \in Nat : n = Len(d.lines)
  BY LenProperties
<1>3. \A i \in 1..Len(d.lines) : Priced(d.lines[i])
  BY LenProperties DEF DraftAccepted, LineAccepted
<1>4. d.prepaidAmount \in Amounts /\ d.prepaidAmount # Unreadable
  BY DEF DraftTyped, DraftAccepted
<1>5. /\ ~BrokenGroups(doc) /\ BrokenArithmetic(doc) = {}
      /\ TotalsAdd(c.totals, LineCents(doc, DOMAIN doc.lines), TaxCents(doc))
  BY <1>1, <1>3, <1>4, SumsWritten
<1>6. PICK starts, m : starts = GroupStarts(d.lines) /\ m = Len(starts)
  OBVIOUS
<1>70. ComputedOf(c, d.lines, n, starts, m)
  BY <1>1, <1>2, <1>6, ComputedParts
<1>7. /\ starts \in Seq(1..n) /\ DOMAIN c.lines = 1..n /\ DOMAIN c.taxGroups = 1..m
      /\ \A i \in 1..n : c.lines[i] = computeLine(d.lines[i], i)
      /\ \A k \in 1..m : /\ starts[k] \in 1..n
                         /\ c.taxGroups[k] = TaxGroup(d.lines[starts[k]], SameGroup(d.lines, starts[k]))
  BY <1>70 DEF ComputedOf
<1>8. m \in Nat
  BY <1>6, <1>7, LenProperties
<1>9. /\ doc.lines = [i \in DOMAIN c.lines |-> lineNode(c.lines[i])]
      /\ doc.taxes = [k \in DOMAIN c.taxGroups |-> taxNode(c.taxGroups[k])]
      /\ doc.totals = WrittenTotals(c.totals) /\ doc.profile = "BASIC"
      /\ {"profile", "lines", "taxes", "totals"} \subseteq DOMAIN doc
  BY <1>1 DEF serialiseCii
<1>10. \A i \in 1..n : doc.lines[i].lineTotal \in MoneyTexts
  <2> TAKE i \in 1..n
  <2>1. PICK line : line = computeLine(d.lines[i], i) /\ line.netAmount \in Monies
    BY <1>2, <1>3, NetIsMoney
  <2>2. doc.lines[i] = lineNode(line)
    BY <1>7, <1>9, <2>1
  <2>3. doc.lines[i].lineTotal = Written(line.netAmount)
    BY <2>2 DEF lineNode
  <2> QED BY <2>1, <2>3, MoneyText
<1>11. PICK h, f : NetsAre(h, d.lines) /\ AddsUp(f, 1..Len(d.lines), h)
  BY <1>3, NetsExist
<1>12. \A k \in 1..m : /\ {"calculatedAmount", "basisAmount", "ratePercent"} \subseteq DOMAIN doc.taxes[k]
                       /\ doc.taxes[k].calculatedAmount \in MoneyTexts
                       /\ doc.taxes[k].basisAmount \in MoneyTexts
                       /\ doc.taxes[k].ratePercent \in MoneyTexts
  <2> TAKE k \in 1..m
  <2>1. PICK i \in 1..Len(d.lines) : i = starts[k]
    BY <1>2, <1>7
  <2>2. PICK group : group = c.taxGroups[k] /\ group = TaxGroup(d.lines[i], SameGroup(d.lines, i))
    BY <1>7, <2>1
  <2>3. doc.taxes[k] = taxNode(group)
    BY <1>7, <1>9, <2>2
  <2>4. GroupSums(group, d.lines[i], f[WithKey(d.lines, i)])
    BY <1>3, <1>11, <2>2, GroupSummed
  <2> QED BY <2>3, <2>4, TaxReadable
<1>13. n # 0
  BY <1>2, EmptySeq DEF DraftAccepted
<1>14. m # 0
  <2>1. ASSUME m = 0 PROVE FALSE
    <3>1. DOMAIN doc.taxes = {} /\ DOMAIN doc.lines = 1..n
      BY <1>7, <1>8, <1>9, <2>1
    <3>2. 1 \in DOMAIN doc.lines
      BY <1>13, <3>1
    <3> DEFINE its == {k \in DOMAIN doc.taxes : InGroup(doc.lines[1], doc.taxes[k])}
    <3>3. its = {}
      BY <3>1
    <3>4. Cardinality(its) = 1
      BY <1>5, <3>2 DEF BrokenGroups
    <3> HIDE DEF its
    <3>5. Cardinality({}) = 0
      BY FS_EmptySet
    <3> QED BY ONLY <3>3, <3>4, <3>5
  <2> QED BY <2>1
<1>15. /\ DOMAIN doc.totals = StatedTotals \cup PerhapsStated
       /\ \A g \in StatedTotals : doc.totals[g] \in MoneyTexts
       /\ \A g \in PerhapsStated : doc.totals[g] \in MoneyTexts \cup {NoElement}
  BY <1>5, <1>9, TotalsReadable
<1>16. ReadableParts(doc, n, m)
  BY <1>7, <1>9, <1>10, <1>12, <1>15 DEF ReadableParts
<1> QED BY <1>5, <1>8, <1>13, <1>14, <1>16 DEF ReadableDocument

(* So can what is made of it when an amount is changed. *)
LEMMA CentReadable ==
  ASSUME NEW t \in MoneyTexts \cup {NoElement}, NEW delta \in Int
  PROVE  Cent(t, delta) \in MoneyTexts /\ Cents(Cent(t, delta)) = Cents(t) + delta
<1>1. Cents(t) \in Int
  BY ReadAgain DEF Cents
<1>2. PICK d \in Monies : d = Dec(Cents(t) + delta, 2) /\ d.value = Cents(t) + delta
  <2>1. PICK v \in Int : v = Cents(t) + delta
    BY <1>1
  <2>2. Dec(v, 2) \in Monies /\ Dec(v, 2).value = v
    BY DEF Dec, Monies
  <2> QED BY <2>1, <2>2
<1>3. Cent(t, delta) = Format(d) /\ Written(d) = Format(d)
  BY <1>2, MoneyIsItself DEF Cent, Written, MonetaryScale
<1> QED BY <1>2, <1>3, MoneyText, CentsWritten

LEMMA AlteredReadable ==
  ASSUME NEW doc, ReadableDocument(doc), NEW delta \in Int, NEW other \in Altered(doc, delta)
  PROVE  ReadableDocument(other)
<1>1. PICK n, m : n \in Nat \ {0} /\ m \in Nat \ {0} /\ ReadableParts(doc, n, m)
  BY DEF ReadableDocument
<1>2. ASSUME NEW f \in DOMAIN doc.totals, other = AlterTotal(doc, f, delta)
      PROVE  ReadableParts(other, n, m)
  <2>1. PICK x : x = Cent(doc.totals[f], delta) /\ x \in MoneyTexts
    BY <1>1, CentReadable DEF ReadableParts
  <2>2. /\ DOMAIN other = DOMAIN doc /\ other.profile = doc.profile
        /\ other.lines = doc.lines /\ other.taxes = doc.taxes
        /\ other.totals = [doc.totals EXCEPT ![f] = x]
    BY <1>1, <1>2, <2>1 DEF AlterTotal, ReadableParts
  <2>3. /\ DOMAIN other.totals = DOMAIN doc.totals
        /\ \A g \in DOMAIN doc.totals : other.totals[g] = IF g = f THEN x ELSE doc.totals[g]
    BY <2>2
  <2> QED BY <1>1, <2>1, <2>2, <2>3 DEF ReadableParts
<1>3. ASSUME NEW k \in DOMAIN doc.taxes, other = AlterTax(doc, k, delta)
      PROVE  ReadableParts(other, n, m)
  <2>1. PICK x : x = Cent(doc.taxes[k].calculatedAmount, delta) /\ x \in MoneyTexts
    BY <1>1, CentReadable DEF ReadableParts
  <2>2. PICK tax : tax = [doc.taxes[k] EXCEPT !.calculatedAmount = x]
    OBVIOUS
  <2>3. /\ DOMAIN other = DOMAIN doc /\ other.profile = doc.profile
        /\ other.lines = doc.lines /\ other.totals = doc.totals
        /\ other.taxes = [doc.taxes EXCEPT ![k] = tax]
    BY <1>1, <1>3, <2>1, <2>2 DEF AlterTax, ReadableParts
  <2>4. /\ DOMAIN other.taxes = DOMAIN doc.taxes
        /\ \A g \in DOMAIN doc.taxes : other.taxes[g] = IF g = k THEN tax ELSE doc.taxes[g]
    BY <2>3
  <2>5. /\ {"calculatedAmount", "basisAmount", "ratePercent"} \subseteq DOMAIN tax
        /\ tax.calculatedAmount = x /\ tax.basisAmount = doc.taxes[k].basisAmount
        /\ tax.ratePercent = doc.taxes[k].ratePercent
    BY <1>1, <2>2 DEF ReadableParts
  <2> QED BY <1>1, <2>1, <2>3, <2>4, <2>5 DEF ReadableParts
<1> QED BY <1>1, <1>2, <1>3 DEF Altered, ReadableDocument

LEMMA OmittedReadable ==
  ASSUME NEW doc, ReadableDocument(doc), BrokenArithmetic(doc) = {}, NEW i \in DOMAIN doc.lines,
         NEW other, other = OmitLine(doc, i)
  PROVE  /\ ReadableDocument(other) /\ other.lines = doc.lines
         /\ OmittedAmount(other, i) \in Int
         /\ Cents(other.totals.lineTotalAmount)
              = LineCents(other, DOMAIN other.lines) - OmittedAmount(other, i)
<1>1. PICK n, m : n \in Nat \ {0} /\ m \in Nat \ {0} /\ ReadableParts(doc, n, m)
  BY DEF ReadableDocument
<1>2. PICK v : v = Cents(doc.lines[i].lineTotal)
  OBVIOUS
<1>3. v \in Int /\ -v \in Int
  <2>1. v \in Int
    BY <1>1, <1>2, ReadAgain DEF ReadableParts
  <2> QED BY <2>1
<1>4. PICK t : /\ t = doc.totals.lineTotalAmount /\ t \in MoneyTexts /\ "lineTotalAmount" \in DOMAIN doc.totals
               /\ Cents(t) \in Int
  BY <1>1, ReadAgain DEF ReadableParts, StatedTotals
<1>5. Cent(t, -v) \in MoneyTexts /\ Cents(Cent(t, -v)) = Cents(t) - v
  BY <1>3, <1>4, CentReadable
<1>6. /\ DOMAIN other = DOMAIN doc /\ other.profile = doc.profile
      /\ other.lines = doc.lines /\ other.taxes = doc.taxes
      /\ other.totals = [doc.totals EXCEPT !.lineTotalAmount = Cent(t, -v)]
  BY <1>1, <1>2, <1>4 DEF OmitLine, ReadableParts
<1>7. /\ DOMAIN other.totals = DOMAIN doc.totals
      /\ \A g \in DOMAIN doc.totals :
            other.totals[g] = IF g = "lineTotalAmount" THEN Cent(t, -v) ELSE doc.totals[g]
  BY <1>6
<1>8. ReadableParts(other, n, m)
  BY <1>1, <1>5, <1>6, <1>7 DEF ReadableParts
<1>9. LineCents(other, DOMAIN other.lines) = LineCents(doc, DOMAIN doc.lines)
  <2>1. parseCii(other).lines = parseCii(doc).lines
    BY <1>6 DEF parseCii
  <2>2. KnownAmounts(parseCii(other)) = KnownAmounts(parseCii(doc))
    BY <2>1 DEF KnownAmounts, filter
  <2>3. Total(KnownAmounts(parseCii(doc))).value = LineCents(doc, DOMAIN doc.lines)
    BY <1>1, LinesTotalled
  <2>4. Total(KnownAmounts(parseCii(other))).value = LineCents(other, DOMAIN other.lines)
    BY <1>1, <1>8, LinesTotalled
  <2> QED BY <2>2, <2>3, <2>4
<1>10. Cents(t) = LineCents(doc, DOMAIN doc.lines)
  <2> DEFINE c == [f \in DOMAIN doc.totals |-> Cents(doc.totals[f])]
  <2>1. c.lineTotalAmount = Cents(t)
    BY <1>4
  <2>2. "BR-CO-10" \in ArithmeticRules
    BY DEF ArithmeticRules
  <2>3. ~(c.lineTotalAmount # LineCents(doc, DOMAIN doc.lines))
    BY <2>2 DEF BrokenArithmetic
  <2> QED BY <2>1, <2>3
<1>11. Cents(other.totals.lineTotalAmount) = Cents(t) - v
  BY <1>4, <1>5, <1>7
<1>12. OmittedAmount(other, i) = v
  BY <1>2, <1>6 DEF OmittedAmount
<1> QED BY <1>1, <1>3, <1>6, <1>8, <1>9, <1>10, <1>11, <1>12 DEF ReadableDocument

---------------------------------------------------------------------------
(* The document given to the engine, and what was read of it. *)
DocumentRead ==
  ReadableDocument(document) /\ \E a : analysis = toAnalysisDto(analyze(PdfOf(document), a))

DocumentInv ==
  /\ (document = Nothing /\ omitted = 0) \/ DocumentRead
  /\ outcome = "none" => document = Nothing /\ omitted = 0
  /\ outcome = "issued" => generated # Nothing /\ document = generated.cii
  /\ omitted # 0 => /\ generated # Nothing /\ omitted \in DOMAIN generated.cii.lines
                    /\ document = OmitLine(generated.cii, omitted)

LEMMA OwnReadable ==
  ASSUME InputsRead, FormTyped, GeneratedInv, FormRead, generated # Nothing
  PROVE  ReadableDocument(generated.cii) /\ BrokenArithmetic(generated.cii) = {}
BY GeneratedAccepted, GeneratedReadable

LEMMA DocumentSteps ==
  ASSUME InputsRead, FormTyped, GeneratedInv, FormRead, DocumentInv, [Next]_vars
  PROVE  DocumentInv'
<1>1. ASSUME UNCHANGED made PROVE DocumentInv'
  BY <1>1 DEF made, DocumentInv, DocumentRead
<1>2. ASSUME NEW d, generateFacturX(d) PROVE DocumentInv'
  <2>1. /\ document' = document /\ omitted' = omitted /\ document = Nothing /\ omitted = 0
        /\ outcome' # "issued"
    BY <1>2 DEF generateFacturX, DocumentInv
  <2> QED BY <2>1 DEF DocumentInv
<1>3. CASE Submit
  BY <1>2, <1>3 DEF Submit
<1>4. CASE WriteInvoice
  BY <1>1, <1>4 DEF WriteInvoice
<1>5. CASE issueInvoice
  <2>1. CASE IsIssueInvoiceDto
    BY <1>2, <1>5, <2>1 DEF issueInvoice
  <2>2. CASE ~IsIssueInvoiceDto
    <3>1. /\ document' = document /\ omitted' = omitted /\ document = Nothing /\ omitted = 0
          /\ outcome' = "refused"
      BY <1>5, <2>2 DEF issueInvoice, DocumentInv
    <3> QED BY <3>1 DEF DocumentInv
  <2> QED BY <2>1, <2>2
<1>6. CASE SelfValidate
  <2>1. PICK a : selfValidate(a) /\ generated # Nothing
    BY <1>6 DEF SelfValidate
  <2>2. /\ document' = generated.cii /\ generated' = generated /\ omitted' = omitted
        /\ analysis' = toAnalysisDto(analyze(PdfOf(generated.cii), a))
        /\ outcome' # "none" /\ outcome = "none"
    BY <2>1 DEF selfValidate, Analysed
  <2>3. omitted = 0
    BY <2>2 DEF DocumentInv
  <2>4. ReadableDocument(generated.cii)
    BY <2>1, OwnReadable
  <2>5. DocumentRead'
    <3>1. ReadableDocument(document)'
      BY <2>2, <2>4
    <3>2. analysis' = toAnalysisDto(analyze(PdfOf(document'), a))
      BY <2>2
    <3>3. (\E b : analysis = toAnalysisDto(analyze(PdfOf(document), b)))'
      BY <3>2
    <3> QED BY <3>1, <3>3 DEF DocumentRead
  <2> QED BY <2>1, <2>2, <2>3, <2>5 DEF DocumentInv
<1>7. ASSUME NEW doc, NEW line, Returned(doc, line), ReadableDocument(doc)
      PROVE  /\ DocumentRead' /\ document' = doc /\ omitted' = line /\ generated' = generated
             /\ outcome' = "read"
  <2>1. /\ document' = doc /\ omitted' = line /\ generated' = generated /\ outcome' = "read"
        /\ analysis' = toAnalysisDto(analyze(PdfOf(doc), ReportOn(doc)))
    BY <1>7 DEF Returned, Analysed
  <2>2. ReadableDocument(document)'
    BY <1>7, <2>1
  <2>3. (\E b : analysis = toAnalysisDto(analyze(PdfOf(document), b)))'
    BY <2>1
  <2> QED BY <2>1, <2>2, <2>3 DEF DocumentRead
<1>8. ASSUME outcome = "issued"
      PROVE  /\ generated # Nothing /\ document = generated.cii
             /\ ReadableDocument(document) /\ BrokenArithmetic(document) = {}
  BY <1>8, OwnReadable DEF DocumentInv
<1>9. CASE Alter
  <2>1. PICK doc \in Altered(document, -1) \cup Altered(document, 1) : Returned(doc, 0)
    BY <1>9 DEF Alter
  <2>2. ReadableDocument(document)
    BY <1>8, <1>9 DEF Alter
  <2>3. ReadableDocument(doc)
    <3>1. -1 \in Int /\ 1 \in Int
      OBVIOUS
    <3> QED BY <2>1, <2>2, <3>1, AlteredReadable
  <2> QED BY <1>7, <2>1, <2>3 DEF DocumentInv
<1>10. CASE Omit
  <2>1. PICK i \in DOMAIN document.lines : Returned(OmitLine(document, i), i)
    BY <1>10 DEF Omit
  <2>2. /\ generated # Nothing /\ document = generated.cii
        /\ ReadableDocument(document) /\ BrokenArithmetic(document) = {}
    BY <1>8, <1>10 DEF Omit
  <2>3. ReadableDocument(OmitLine(document, i))
    BY <2>1, <2>2, OmittedReadable
  <2> QED BY <1>7, <2>1, <2>2, <2>3 DEF DocumentInv
<1>11. CASE Submitted
  <2>1. /\ document' = document /\ omitted' = omitted /\ document = Nothing /\ omitted = 0
        /\ outcome' = "read"
    BY <1>11 DEF Submitted, Untouched, Upload, DocumentInv
  <2> QED BY <2>1 DEF DocumentInv
<1>12. CASE UNCHANGED vars
  BY <1>1, <1>12 DEF vars
<1> QED BY <1>3, <1>4, <1>5, <1>6, <1>9, <1>10, <1>11, <1>12 DEF Next

LEMMA DocumentHolds == InputsRead /\ Spec => [](FormTyped /\ GeneratedInv /\ FormRead /\ DocumentInv)
<1> SUFFICES ASSUME InputsRead
             PROVE  Spec => [](FormTyped /\ GeneratedInv /\ FormRead /\ DocumentInv)
  OBVIOUS
<1>1. Init => DocumentInv
  BY DEF Init, DocumentInv
<1>2. FormTyped /\ GeneratedInv /\ FormRead /\ DocumentInv /\ [Next]_vars => DocumentInv'
  BY DocumentSteps
<1> QED BY <1>1, <1>2, GeneratedHolds, ReadHolds, PTL DEF Spec

(* A document that was given to the engine has what its reader needs. *)
LEMMA ReadOfDocument ==
  ASSUME NothingIsNone, DocumentInv, document # Nothing \/ omitted # 0
  PROVE  /\ ReadableDocument(document)
         /\ analysis.failedChecks = checkArithmetic(parseCii(document))
         /\ analysis.suspectLines = suspectLinesForLineTotal(parseCii(document))
         /\ analysis.invoice = invoiceDto(parseCii(document))
<1>1. DocumentRead
  BY DEF DocumentInv
<1>2. PICK a : analysis = toAnalysisDto(analyze(PdfOf(document), a))
  BY <1>1 DEF DocumentRead
<1>3. ReadableDocument(document) /\ "totals" \in DOMAIN document
  BY <1>1 DEF DocumentRead, ReadableDocument, ReadableParts
<1> QED BY <1>2, <1>3, OwnPdfRead

(* What the checks say of a document that was read back is what the engine says of its *)
(* arithmetic, for any draft and whichever amount was changed (checks.ts, cii.ts).     *)
THEOREM ChecksFollowEngine == InputsRead /\ NothingIsNone /\ Spec => []ChecksAgreeWithEngine
<1> SUFFICES ASSUME InputsRead, NothingIsNone PROVE Spec => []ChecksAgreeWithEngine
  OBVIOUS
<1>1. DocumentInv => ChecksAgreeWithEngine
  BY ReadOfDocument, ChecksReadAgain DEF ChecksAgreeWithEngine
<1> QED BY <1>1, DocumentHolds, PTL

(* The line that a total leaves out is among the lines pointed at, and each of these *)
(* is of the amount that is missing, for any lines and amounts (checks.ts).          *)
THEOREM OmittedLinesSuspected == InputsRead /\ NothingIsNone /\ Spec => []OmittedLineIsSuspected
<1> SUFFICES ASSUME InputsRead, NothingIsNone PROVE Spec => []OmittedLineIsSuspected
  OBVIOUS
<1>1. FormTyped /\ GeneratedInv /\ FormRead /\ DocumentInv => OmittedLineIsSuspected
  <2> SUFFICES ASSUME FormTyped, GeneratedInv, FormRead, DocumentInv, omitted # 0,
                      Magnitude(OmittedAmount(document, omitted)) # 0
               PROVE  analysis.suspectLines
                        = {document.lines[i].lineId :
                             i \in {j \in DOMAIN document.lines :
                                      Magnitude(OmittedAmount(document, j))
                                        = Magnitude(OmittedAmount(document, omitted))}}
    BY DEF OmittedLineIsSuspected, OmittedAmount
  <2>1. /\ generated # Nothing /\ omitted \in DOMAIN generated.cii.lines
        /\ document = OmitLine(generated.cii, omitted)
    BY DEF DocumentInv
  <2>2. ReadableDocument(generated.cii) /\ BrokenArithmetic(generated.cii) = {}
    BY <2>1, OwnReadable
  <2>3. PICK v : v = OmittedAmount(document, omitted)
    OBVIOUS
  <2>4. /\ v \in Int /\ ReadableDocument(document)
        /\ Cents(document.totals.lineTotalAmount) = LineCents(document, DOMAIN document.lines) - v
    BY <2>1, <2>2, <2>3, OmittedReadable
  <2>5. v # 0
    BY <2>3 DEF Magnitude
  <2>6. analysis.suspectLines = suspectLinesForLineTotal(parseCii(document))
    BY ReadOfDocument
  <2> QED BY <2>3, <2>4, <2>5, <2>6, SuspectsReadAgain
<1> QED BY <1>1, DocumentHolds, PTL

---------------------------------------------------------------------------
(* The number a text reads as is reduced by 97 symbol after symbol. *)
Remainders == 0..96

Carried(r, c) == (r * (IF c < 10 THEN 10 ELSE 100) + c) % 97

Reduced(g, t) ==
  /\ g \in [0..Len(t) -> Remainders] /\ g[0] = 0
  /\ \A i \in 1..Len(t) : g[i] = Carried(g[i - 1], t[i])

LEMMA CarriedTyped ==
  ASSUME NEW r \in Int, NEW c \in Int
  PROVE  Carried(r, c) \in Remainders
<1>1. PICK w \in Int : w = r * (IF c < 10 THEN 10 ELSE 100) + c
  OBVIOUS
<1>2. w % 97 \in 0..96
  OBVIOUS
<1> QED BY <1>1, <1>2 DEF Carried, Remainders

LEMMA Reduces ==
  ASSUME NEW t \in Seq(Int)
  PROVE  \E g : Reduced(g, t) /\ Mod97(t) = g[Len(t)]
<1>1. PICK n \in Nat : n = Len(t) /\ DOMAIN t = 1..n
  BY LenProperties
<1> DEFINE F(u) == [s \in SUBSET (1..n) |->
                      IF s = {} THEN 0 ELSE (u[s \ {Max(s)}] * (IF t[Max(s)] < 10 THEN 10 ELSE 100)
                                               + t[Max(s)]) % 97]
           chosen == CHOOSE u : u = F(u)
<1>2. PICK G \in [(1..n) \X Remainders -> Remainders] :
        \A i \in 1..n : \A r \in Remainders : G[<<i, r>>] = Carried(r, t[i])
  <2> DEFINE step == [p \in (1..n) \X Remainders |-> Carried(p[2], t[p[1]])]
  <2>1. \A p \in (1..n) \X Remainders : Carried(p[2], t[p[1]]) \in Remainders
    <3> TAKE p \in (1..n) \X Remainders
    <3>1. PICK i \in 1..Len(t), r \in Int : i = p[1] /\ r = p[2]
      BY <1>1 DEF Remainders
    <3>2. p[2] \in Int /\ t[p[1]] \in Int
      BY <3>1, ElementOfSeq
    <3> QED BY <3>2, CarriedTyped
  <2>2. step \in [(1..n) \X Remainders -> Remainders]
    BY <2>1
  <2>3. \A i \in 1..n : \A r \in Remainders : step[<<i, r>>] = Carried(r, t[i])
    OBVIOUS
  <2> HIDE DEF step
  <2> QED BY <2>2, <2>3
<1>3. 0 \in Remainders
  BY DEF Remainders
<1>4. PICK u \in [SUBSET (1..n) -> Remainders] : Unfolds(u, n, 0, G)
  BY <1>3, LeftFoldExists
<1>5. u = F(u)
  <2>1. ASSUME NEW s \in (SUBSET (1..n)) \ {{}}
        PROVE  u[s] = Carried(u[s \ {Max(s)}], t[Max(s)])
    <3>1. Max(s) \in 1..n
      BY MaxExists
    <3>2. u[s \ {Max(s)}] \in Remainders
      OBVIOUS
    <3>3. u[s] = G[<<Max(s), u[s \ {Max(s)}]>>]
      BY <1>4 DEF Unfolds
    <3> QED BY <1>2, <3>1, <3>2, <3>3
  <2>2. u[{}] = 0
    BY <1>4 DEF Unfolds
  <2>3. \A s \in SUBSET (1..n) :
          u[s] = IF s = {} THEN 0 ELSE (u[s \ {Max(s)}] * (IF t[Max(s)] < 10 THEN 10 ELSE 100)
                                               + t[Max(s)]) % 97
    BY <2>1, <2>2 DEF Carried
  <2> QED BY <2>3
<1>6. PICK iter : iter = F(iter) /\ Mod97(t) = iter[1..n]
  <2>1. Mod97(t) = chosen[1..n]
    BY <1>1 DEF Mod97, FoldLeft, MapThenFoldSet
  <2>2. chosen = F(chosen)
    <3> HIDE DEF F
    <3> QED BY <1>5
  <2> HIDE DEF F, chosen
  <2> QED BY <2>1, <2>2
<1> HIDE DEF chosen
<1>7. /\ iter[{}] = 0
      /\ \A s \in (SUBSET (1..n)) \ {{}} : iter[s] = Carried(iter[s \ {Max(s)}], t[Max(s)])
  BY <1>6 DEF Carried
<1> HIDE DEF F
<1>8. Solving(iter, n, Remainders, 0, G)
  <2>1. ASSUME NEW s \in (SUBSET (1..n)) \ {{}}, iter[s \ {Max(s)}] \in Remainders
        PROVE  iter[s] = G[<<Max(s), iter[s \ {Max(s)}]>>]
    <3>1. Max(s) \in 1..n
      BY MaxExists
    <3> QED BY <1>2, <1>7, <2>1, <3>1
  <2> QED BY <1>7, <2>1 DEF Solving
<1>9. PICK g : Follows(g, n, Remainders, 0, G) /\ g[n] = iter[1..n]
  <2>1. FollowedTo(iter[1..n], n, Remainders, 0, G)
    BY <1>3, <1>8, LeftFoldFollows
  <2> QED BY <2>1, Zenon DEF FollowedTo
<1>10. Reduced(g, t)
  <2>1. /\ g \in [0..n -> Remainders] /\ g[0] = 0
        /\ \A i \in 1..n : g[i] = G[<<i, g[i - 1]>>]
    BY <1>9 DEF Follows
  <2>2. \A i \in 1..n : g[i - 1] \in Remainders
    BY <2>1
  <2> QED BY <1>1, <1>2, <2>1, <2>2 DEF Reduced
<1> QED BY <1>1, <1>6, <1>9, <1>10

LEMMA RemainderTyped ==
  ASSUME NEW t \in Seq(Int)
  PROVE  Mod97(t) \in Remainders
<1>1. PICK g : Reduced(g, t) /\ Mod97(t) = g[Len(t)]
  BY Reduces
<1>2. Len(t) \in 0..Len(t)
  BY LenProperties
<1> QED BY <1>1, <1>2 DEF Reduced

LEMMA KeyTyped ==
  ASSUME NEW t \in Seq(Int)
  PROVE  \E a \in 0..9 : \E b \in 0..9 : VatKey(t) = <<a, b>>
<1>1. PICK r \in 0..96 : r = Mod97(t)
  BY RemainderTyped DEF Remainders
<1>2. PICK k \in 0..96 : k = (12 + 3 * r) % 97
  OBVIOUS
<1>3. k \div 10 \in 0..9 /\ k % 10 \in 0..9
  OBVIOUS
<1>4. VatKey(t) = <<k \div 10, k % 10>>
  BY <1>1, <1>2 DEF VatKey
<1> QED BY <1>3, <1>4

---------------------------------------------------------------------------
(* Numbers without separators. *)
Plain(t) == t \in Seq(Int) /\ \A i \in DOMAIN t : t[i] # Separator

LEMMA Slice ==
  ASSUME NEW T, NEW s \in Seq(T), NEW a \in 1..Len(s), NEW b \in a..Len(s)
  PROVE  /\ SubSeq(s, a, b) \in Seq(T) /\ Len(SubSeq(s, a, b)) = (b - a) + 1
         /\ \A i \in 1..((b - a) + 1) : SubSeq(s, a, b)[i] = s[(a + i) - 1]
<1>1. Len(s) \in Nat
  BY LenProperties
<1>2. a \in Int /\ b \in Int /\ a <= b
  BY <1>1
<1>3. \A i \in a..b : s[i] \in T
  <2>1. \A i \in a..b : i \in 1..Len(s)
    BY <1>1
  <2> QED BY <2>1, ElementOfSeq
<1>4. /\ SubSeq(s, a, b) \in Seq(T) /\ Len(SubSeq(s, a, b)) = IF a <= b THEN b-a+1 ELSE 0
      /\ \A i \in 1..b-a+1 : SubSeq(s, a, b)[i] = s[a+i-1]
  BY <1>2, <1>3, SubSeqProperties
<1> QED BY <1>2, <1>4

LEMMA StripIsPlain ==
  ASSUME NEW t \in Seq(Int)
  PROVE  Plain(stripFormatting(t))
<1> DEFINE in == {i \in DOMAIN t : t[i] # Separator}
<1>1. stripFormatting(t) = Selected(t, in)
  BY DEF stripFormatting, filter
<1>2. \A i \in in : t[i] # Separator
  OBVIOUS
<1> HIDE DEF in
<1>3. PICK T : T = Int /\ t \in Seq(T)
  OBVIOUS
<1>4. PICK u \in Seq(Int) : /\ u = Selected(t, in)
                           /\ \A k \in 1..Len(u) : \E i \in (1..Len(t)) \cap in : u[k] = t[i]
  <2>0. t \in Seq(T)
    BY <1>3
  <2>1. /\ Selected(t, in) \in Seq(T)
        /\ \A k \in 1..Len(Selected(t, in)) :
             \E i \in (1..Len(t)) \cap in : Selected(t, in)[k] = t[i]
    BY ONLY <2>0, SelectedElements
  <2> QED BY <1>3, <2>1, Zenon
<1>5. DOMAIN u = 1..Len(u)
  BY <1>4, LenProperties
<1>6. \A k \in DOMAIN u : u[k] # Separator
  BY <1>2, <1>4, <1>5
<1> QED BY <1>1, <1>4, <1>6 DEF Plain

LEMMA PlainStays ==
  ASSUME NEW t, Plain(t)
  PROVE  stripFormatting(t) = t
BY StripOnce DEF Plain

LEMMA NoIdPlain == Plain(NoId)
<1>1. NoId \in Seq(Int) /\ \A i \in DOMAIN NoId : NoId[i] = -1
  BY DEF NoId
<1> QED BY <1>1 DEF Plain, Separator

LEMMA DigitsPlain ==
  ASSUME NEW t \in Seq(Int)
  PROVE  Plain(digitsOnly(t))
BY StripIsPlain, NoIdPlain DEF digitsOnly

LEMMA SirenPlain ==
  ASSUME NEW t \in Seq(Int)
  PROVE  /\ Plain(sirenFromSiret(t))
         /\ sirenFromSiret(t) # NoId => Len(sirenFromSiret(t)) = 9
<1>1. CASE validateSiret(t) = "ok"
  <2>1. PICK s \in Seq(Int) : s = stripFormatting(t) /\ Len(s) = 14 /\ Plain(s)
    BY <1>1, StrippedSiret, StripIsPlain
  <2>2. PICK u : u = SubSeq(s, 1, 9)
    OBVIOUS
  <2>3. u \in Seq(Int) /\ Len(u) = 9 /\ \A i \in 1..9 : u[i] = s[i]
    <3>1. 1 \in 1..Len(s) /\ 9 \in 1..Len(s)
      BY <2>1
    <3>2. PICK a, b : /\ a = 1 /\ b = 9 /\ s \in Seq(Int) /\ a \in 1..Len(s) /\ b \in a..Len(s)
      BY ONLY <2>1, <3>1
    <3>3. SubSeq(s, a, b) \in Seq(Int) /\ Len(SubSeq(s, a, b)) = (b - a) + 1
          /\ \A i \in 1..((b - a) + 1) : SubSeq(s, a, b)[i] = s[(a + i) - 1]
      BY ONLY <3>2, Slice, SMTT(30)
    <3>4. /\ u \in Seq(Int) /\ Len(u) = (9 - 1) + 1
          /\ \A i \in 1..((9 - 1) + 1) : u[i] = s[(1 + i) - 1]
      BY ONLY <2>2, <3>2, <3>3
    <3> QED BY ONLY <3>4
  <2>4. DOMAIN u = 1..9 /\ DOMAIN s = 1..14
    BY <2>1, <2>3, LenProperties
  <2>5. Plain(u)
    BY <2>1, <2>3, <2>4 DEF Plain
  <2> QED BY <1>1, <2>1, <2>2, <2>3, <2>5 DEF sirenFromSiret
<1>2. CASE validateSiret(t) # "ok"
  BY <1>2, NoIdPlain DEF sirenFromSiret
<1> QED BY <1>1, <1>2

LEMMA LegalIdPlain ==
  ASSUME NEW party, party.siret \in Seq(Int), party.siren \in Seq(Int)
  PROVE  Plain(partyNode(party).legalId)
<1>1. Plain(digitsOnly(party.siret)) /\ Plain(digitsOnly(party.siren))
  BY DigitsPlain
<1>2. Plain(sirenFromSiret(digitsOnly(party.siret)))
  BY <1>1, SirenPlain DEF Plain
<1>3. partyNode(party).legalId = partySiren(digitsOnly(party.siret), digitsOnly(party.siren))
  BY DEF partyNode, nodeOf
<1> QED BY <1>1, <1>2, <1>3 DEF partySiren

LEMMA Begin ==
  ASSUME NEW T, NEW s \in Seq(T), NEW m \in Nat, m <= Len(s)
  PROVE  /\ SubSeq(s, 1, m) \in Seq(T) /\ Len(SubSeq(s, 1, m)) = m
         /\ \A i \in 1..m : SubSeq(s, 1, m)[i] = s[i]
<1>1. Len(s) \in Nat
  BY LenProperties
<1>2. \A i \in 1..m : s[i] \in T
  <2>1. \A i \in 1..m : i \in 1..Len(s)
    BY <1>1
  <2> QED BY <2>1, ElementOfSeq
<1>3. /\ SubSeq(s, 1, m) \in Seq(T) /\ Len(SubSeq(s, 1, m)) = IF 1 <= m THEN m-1+1 ELSE 0
      /\ \A i \in 1..m-1+1 : SubSeq(s, 1, m)[i] = s[1+i-1]
  BY <1>2, SubSeqProperties, 1 \in Int, m \in Int
<1>4. m-1+1 = m /\ (IF 1 <= m THEN m-1+1 ELSE 0) = m /\ \A i \in 1..m : 1+i-1 = i
  OBVIOUS
<1> QED BY <1>3, <1>4

(* What ends with a number, and what it ends with. *)
LEMMA SuffixOf ==
  ASSUME NEW s \in Seq(Int), NEW t \in Seq(Int)
  PROVE  IsSuffix(s, t) <=> /\ Len(s) <= Len(t)
                            /\ \A i \in 1..Len(s) : s[i] = t[(Len(t) - Len(s)) + i]
<1>1. PICK m \in Nat, n \in Nat : m = Len(s) /\ n = Len(t)
  BY LenProperties
<1>2. PICK p, q : p = Reverse(s) /\ q = Reverse(t)
  OBVIOUS
<1>3. /\ p \in Seq(Int) /\ Len(p) = m /\ \A i \in 1..m : p[i] = s[(m - i) + 1]
      /\ q \in Seq(Int) /\ Len(q) = n /\ \A i \in 1..n : q[i] = t[(n - i) + 1]
  <2>1. \A i \in 1..m : s[(m - i) + 1] \in Int
    BY <1>1, ElementOfSeq
  <2>2. \A i \in 1..n : t[(n - i) + 1] \in Int
    BY <1>1, ElementOfSeq
  <2>3. p = [i \in 1..m |-> s[(m - i) + 1]] /\ q = [i \in 1..n |-> t[(n - i) + 1]]
    BY <1>1, <1>2 DEF Reverse
  <2>4. p \in [1..m -> Int] /\ q \in [1..n -> Int]
    BY <2>1, <2>2, <2>3
  <2>5. p \in Seq(Int) /\ q \in Seq(Int)
    BY <2>4, SeqDef
  <2> QED BY <2>3, <2>5, LengthOf
<1>4. IsSuffix(s, t) <=> m <= n /\ SubSeq(p, 1, m) = SubSeq(q, 1, m)
  BY <1>2, <1>3 DEF IsSuffix, IsPrefix
<1>5. ASSUME m <= n
      PROVE  SubSeq(p, 1, m) = SubSeq(q, 1, m) <=> \A i \in 1..m : p[i] = q[i]
  <2>1. PICK a, b : a = SubSeq(p, 1, m) /\ b = SubSeq(q, 1, m)
    OBVIOUS
  <2>2. /\ a \in Seq(Int) /\ Len(a) = m /\ \A i \in 1..m : a[i] = p[i]
        /\ b \in Seq(Int) /\ Len(b) = m /\ \A i \in 1..m : b[i] = q[i]
    <3>1. p \in Seq(Int) /\ m <= Len(p) /\ q \in Seq(Int) /\ m <= Len(q)
      BY <1>1, <1>3, <1>5
    <3>2. /\ SubSeq(p, 1, m) \in Seq(Int) /\ Len(SubSeq(p, 1, m)) = m
          /\ \A i \in 1..m : SubSeq(p, 1, m)[i] = p[i]
      BY ONLY m \in Nat, <3>1, Begin
    <3>3. /\ SubSeq(q, 1, m) \in Seq(Int) /\ Len(SubSeq(q, 1, m)) = m
          /\ \A i \in 1..m : SubSeq(q, 1, m)[i] = q[i]
      BY ONLY m \in Nat, <3>1, Begin
    <3> QED BY <2>1, <3>2, <3>3
  <2>3. a = b <=> \A i \in 1..m : a[i] = b[i]
    BY <2>2, SeqEqual
  <2> QED BY <2>1, <2>2, <2>3
<1>6. ASSUME m <= n
      PROVE  (\A i \in 1..m : p[i] = q[i]) <=> \A i \in 1..m : s[i] = t[(n - m) + i]
  <2>1. \A i \in 1..m : /\ (m - i) + 1 \in 1..m /\ i \in 1..n
                         /\ (m - ((m - i) + 1)) + 1 = i
                         /\ (n - ((m - i) + 1)) + 1 = (n - m) + i
                         /\ (n - m) + ((m - i) + 1) = (n - i) + 1
    BY ONLY m \in Nat, n \in Nat, <1>6
  <2>2. ASSUME \A i \in 1..m : p[i] = q[i], NEW i \in 1..m PROVE s[i] = t[(n - m) + i]
    <3>1. PICK j : j = (m - i) + 1 /\ j \in 1..m /\ j \in 1..n
      BY <2>1
    <3>2. (m - j) + 1 = i /\ (n - j) + 1 = (n - m) + i
      BY <2>1, <3>1
    <3>3. p[j] = s[(m - j) + 1] /\ q[j] = t[(n - j) + 1] /\ p[j] = q[j]
      BY <1>3, <2>2, <3>1
    <3> QED BY ONLY <3>2, <3>3, Zenon
  <2>3. ASSUME \A i \in 1..m : s[i] = t[(n - m) + i], NEW i \in 1..m PROVE p[i] = q[i]
    <3>1. PICK j : j = (m - i) + 1 /\ j \in 1..m
      BY <2>1
    <3>2. (n - m) + j = (n - i) + 1 /\ i \in 1..n
      BY <2>1, <3>1
    <3>3. p[i] = s[j] /\ q[i] = t[(n - i) + 1]
      BY <1>3, <3>1, <3>2
    <3>4. s[j] = t[(n - m) + j]
      BY <2>3, <3>1
    <3> QED BY ONLY <3>2, <3>3, <3>4, Zenon
  <2> QED BY <2>2, <2>3
<1> QED BY <1>1, <1>4, <1>5, <1>6

LEMMA SuffixPlain ==
  ASSUME NEW s \in Seq(Int), NEW t, Plain(t), IsSuffix(s, t)
  PROVE  Plain(s)
<1>1. t \in Seq(Int) /\ DOMAIN t = 1..Len(t) /\ DOMAIN s = 1..Len(s) /\ Len(s) \in Nat /\ Len(t) \in Nat
  BY LenProperties DEF Plain
<1>2. Len(s) <= Len(t) /\ \A i \in 1..Len(s) : s[i] = t[(Len(t) - Len(s)) + i]
  BY <1>1, SuffixOf
<1>3. \A i \in 1..Len(s) : (Len(t) - Len(s)) + i \in 1..Len(t)
  BY <1>1, <1>2
<1> QED BY <1>1, <1>2, <1>3 DEF Plain

---------------------------------------------------------------------------
LEMMA CountryIs == FR \in Seq(Int) /\ Len(FR) = 2 /\ FR[1] = 15 /\ FR[2] = 27
BY DEF FR

LEMMA PairIs ==
  ASSUME NEW a \in 0..9, NEW b \in 0..9
  PROVE  /\ <<a, b>> \in Seq(Int) /\ Len(<<a, b>>) = 2
         /\ \A i \in 1..2 : <<a, b>>[i] \in 0..9
OBVIOUS

LEMMA KeyDigits ==
  ASSUME NEW t \in Seq(Int)
  PROVE  /\ VatKey(t) \in Seq(Int) /\ Len(VatKey(t)) = 2
         /\ \A i \in 1..2 : VatKey(t)[i] \in 0..9
BY KeyTyped, PairIs, Zenon

LEMMA Joined ==
  ASSUME NEW s \in Seq(Int), NEW t \in Seq(Int)
  PROVE  /\ s \o t \in Seq(Int) /\ Len(s \o t) = Len(s) + Len(t)
         /\ \A i \in 1..Len(s) : (s \o t)[i] = s[i]
         /\ \A i \in 1..Len(t) : (s \o t)[Len(s) + i] = t[i]
<1>1. PICK T : T = Int /\ s \in Seq(T) /\ t \in Seq(T)
  OBVIOUS
<1>2. PICK m \in Nat, n \in Nat : m = Len(s) /\ n = Len(t)
  BY LenProperties
<1>3. PICK u \in Seq(Int) : /\ u = s \o t /\ Len(u) = m + n
                            /\ \A i \in 1..m + n : u[i] = IF i <= m THEN s[i] ELSE t[i - m]
  <2>1. /\ s \o t \in Seq(T) /\ Len(s \o t) = Len(s) + Len(t)
        /\ \A i \in 1..Len(s) + Len(t) :
             (s \o t)[i] = IF i <= Len(s) THEN s[i] ELSE t[i - Len(s)]
    BY <1>1, ConcatProperties
  <2> QED BY <1>1, <1>2, <2>1, Zenon
<1>4. \A i \in 1..m : i \in 1..m + n /\ i <= m
  OBVIOUS
<1>5. \A i \in 1..n : m + i \in 1..m + n /\ ~(m + i <= m) /\ (m + i) - m = i
  OBVIOUS
<1>6. \A i \in 1..m : u[i] = s[i]
  BY <1>3, <1>4, Zenon
<1>7. \A i \in 1..n : u[m + i] = t[i]
  <2> TAKE i \in 1..n
  <2>1. u[m + i] = t[(m + i) - m]
    BY <1>3, <1>5, Zenon
  <2> QED BY <1>5, <2>1, Zenon
<1> QED BY <1>2, <1>3, <1>6, <1>7, Zenon

(* How a VAT number is spelled: FR, the key, the SIREN. *)
VatSpelling(v, k, s) ==
  /\ Len(v) = 13 /\ v[1] = 15 /\ v[2] = 27
  /\ \A i \in 1..2 : v[2 + i] = k[i]
  /\ \A i \in 1..9 : v[4 + i] = s[i]

LEMMA VatSpelled ==
  ASSUME NEW k \in Seq(Int), Len(k) = 2, NEW s \in Seq(Int), Len(s) = 9
  PROVE  (FR \o k) \o s \in Seq(Int) /\ VatSpelling((FR \o k) \o s, k, s)
<1>1. PICK h \in Seq(Int) : /\ h = FR \o k /\ Len(h) = Len(FR) + Len(k)
                            /\ \A i \in 1..Len(FR) : h[i] = FR[i]
                            /\ \A i \in 1..Len(k) : h[Len(FR) + i] = k[i]
  <2>1. FR \in Seq(Int)
    BY CountryIs, Zenon
  <2> QED BY ONLY <2>1, k \in Seq(Int), Joined
<1>2. Len(h) = 4 /\ h[1] = 15 /\ h[2] = 27 /\ \A i \in 1..2 : h[2 + i] = k[i]
  <2>1. /\ Len(h) = Len(FR) + Len(k)
        /\ \A i \in 1..Len(FR) : h[i] = FR[i]
        /\ \A i \in 1..Len(k) : h[Len(FR) + i] = k[i]
    BY <1>1
  <2>2. Len(k) = 2
    OBVIOUS
  <2> QED BY ONLY <2>1, <2>2, CountryIs
<1>3. PICK v \in Seq(Int) : /\ v = h \o s /\ Len(v) = Len(h) + Len(s)
                            /\ \A i \in 1..Len(h) : v[i] = h[i]
                            /\ \A i \in 1..Len(s) : v[Len(h) + i] = s[i]
  BY Joined, Zenon
<1>4. Len(v) = 13 /\ (\A i \in 1..4 : v[i] = h[i]) /\ \A i \in 1..9 : v[4 + i] = s[i]
  <2>1. /\ Len(v) = Len(h) + Len(s)
        /\ \A i \in 1..Len(h) : v[i] = h[i]
        /\ \A i \in 1..Len(s) : v[Len(h) + i] = s[i]
    BY <1>3
  <2>2. Len(s) = 9
    OBVIOUS
  <2> QED BY ONLY <1>2, <2>1, <2>2
<1>5. v[1] = 15 /\ v[2] = 27 /\ \A i \in 1..2 : v[2 + i] = k[i]
  <2>1. v[1] = h[1] /\ v[2] = h[2] /\ \A i \in 1..2 : v[2 + i] = h[2 + i]
    BY ONLY <1>4
  <2> QED BY ONLY <1>2, <2>1
<1>6. VatSpelling(v, k, s)
  BY ONLY <1>4, <1>5 DEF VatSpelling
<1> QED BY <1>1, <1>3, <1>6, Zenon

LEMMA NoLetter ==
  ASSUME NEW c \in 0..9
  PROVE  c # Separator
BY DEF Separator

(* It strips to itself, begins with FR and its key, and ends with the SIREN. *)
LEMMA VatParts ==
  ASSUME NEW k \in Seq(Int), Len(k) = 2, \A i \in 1..2 : k[i] \in 0..9,
         NEW s \in Seq(Int), Len(s) = 9, AllDigits(s),
         NEW v \in Seq(Int), VatSpelling(v, k, s)
  PROVE  /\ Plain(v) /\ IsPrefix(FR, v) /\ SubSeq(v, 3, 4) = k
         /\ SubSeq(v, 5, 13) = s /\ IsSuffix(s, v)
<1>1. PICK f \in Seq(Int) : f = FR /\ Len(f) = 2 /\ f[1] = 15 /\ f[2] = 27
  BY CountryIs
<1>2. Len(v) = 13 /\ DOMAIN v = 1..13
  BY LenProperties DEF VatSpelling
<1>3. /\ v[1] = 15 /\ v[2] = 27
      /\ \A i \in 1..2 : v[2 + i] = k[i]
      /\ \A i \in 1..9 : v[4 + i] = s[i]
  BY DEF VatSpelling
<1>4. \A i \in 1..9 : s[i] \in 0..9
  BY LenProperties DEF AllDigits
<1>5. Plain(v)
  <2>1. ASSUME NEW i \in 1..13 PROVE v[i] # Separator
    <3>1. CASE i \in 1..2
      <4>0. i = 1 \/ i = 2
        BY ONLY <3>1
      <4>1. v[i] = 15 \/ v[i] = 27
        BY <1>3, <4>0
      <4> QED BY ONLY <4>1 DEF Separator
    <3>2. CASE i \in 3..4
      <4>1. PICK j \in 1..2 : i = 2 + j
        BY ONLY <3>2
      <4>2. v[i] \in 0..9
        BY <1>3, <4>1
      <4> QED BY <4>2, NoLetter
    <3>3. CASE i \in 5..13
      <4>1. PICK j \in 1..9 : i = 4 + j
        BY ONLY <3>3
      <4>2. v[i] \in 0..9
        BY <1>3, <1>4, <4>1
      <4> QED BY <4>2, NoLetter
    <3> QED BY <3>1, <3>2, <3>3
  <2> QED BY <1>2, <2>1 DEF Plain
<1>6. IsPrefix(FR, v)
  <2>0. 2 \in Nat /\ 2 <= Len(v)
    BY <1>2
  <2>1. /\ SubSeq(v, 1, 2) \in Seq(Int) /\ Len(SubSeq(v, 1, 2)) = 2
        /\ \A i \in 1..2 : SubSeq(v, 1, 2)[i] = v[i]
    BY <2>0, Begin
  <2>2. /\ SubSeq(f, 1, 2) \in Seq(Int) /\ Len(SubSeq(f, 1, 2)) = 2
        /\ \A i \in 1..2 : SubSeq(f, 1, 2)[i] = f[i]
    BY <1>1, Begin
  <2>3. \A i \in 1..2 : v[i] = f[i]
    <3>1. v[1] = f[1] /\ v[2] = f[2]
      BY <1>1, <1>3
    <3> QED BY ONLY <3>1
  <2>4. SubSeq(f, 1, 2) = SubSeq(v, 1, 2)
    BY <2>1, <2>2, <2>3, SeqEqual
  <2> QED BY <1>1, <1>2, <2>4 DEF IsPrefix
<1>7. SubSeq(v, 3, 4) = k
  <2>1. 3 \in 1..Len(v) /\ 4 \in 3..Len(v)
    BY <1>2
  <2>2. PICK u \in Seq(Int) : u = SubSeq(v, 3, 4)
    BY <2>1, Slice
  <2>3. Len(u) = (4 - 3) + 1 /\ \A i \in 1..((4 - 3) + 1) : u[i] = v[(3 + i) - 1]
    BY <2>1, <2>2, Slice
  <2>4. Len(u) = 2 /\ \A i \in 1..2 : u[i] = v[2 + i]
    BY ONLY <2>3
  <2>5. Len(u) = Len(k) /\ \A i \in 1..Len(u) : u[i] = k[i]
    BY <1>3, <2>4
  <2>6. u = k
    BY <2>5, SeqEqual
  <2> QED BY <2>2, <2>6
<1>8. SubSeq(v, 5, 13) = s
  <2>1. 5 \in 1..Len(v) /\ 13 \in 5..Len(v)
    BY <1>2
  <2>2. PICK u \in Seq(Int) : u = SubSeq(v, 5, 13)
    BY <2>1, Slice
  <2>3. Len(u) = (13 - 5) + 1 /\ \A i \in 1..((13 - 5) + 1) : u[i] = v[(5 + i) - 1]
    BY <2>1, <2>2, Slice
  <2>4. Len(u) = 9 /\ \A i \in 1..9 : u[i] = v[4 + i]
    BY ONLY <2>3
  <2>5. Len(u) = Len(s) /\ \A i \in 1..Len(u) : u[i] = s[i]
    BY <1>3, <2>4
  <2>6. u = s
    BY <2>5, SeqEqual
  <2> QED BY <2>2, <2>6
<1>9. IsSuffix(s, v)
  <2>1. Len(s) <= Len(v) /\ \A i \in 1..Len(s) : s[i] = v[(Len(v) - Len(s)) + i]
    BY <1>2, <1>3
  <2> QED BY <2>1, SuffixOf
<1> QED BY <1>5, <1>6, <1>7, <1>8, <1>9

(* The VAT number made of a SIREN is a valid one, and ends with it. *)
LEMMA VatMade ==
  ASSUME NEW s, Plain(s), validateSiren(s) = "ok"
  PROVE  LET v == vatNumberFromSiren(s)
         IN Plain(v) /\ validateFrenchVatNumber(v) = "ok" /\ IsSuffix(s, v)
<1>1. stripFormatting(s) = s /\ s \in Seq(Int) /\ Len(s) = 9 /\ AllDigits(s)
  BY PlainStays, StrippedSiren DEF Plain
<1>2. PICK k \in Seq(Int) : k = VatKey(s) /\ Len(k) = 2 /\ \A i \in 1..2 : k[i] \in 0..9
  BY <1>1, KeyDigits
<1>3. PICK v \in Seq(Int) : v = (FR \o k) \o s /\ VatSpelling(v, k, s)
  BY <1>1, <1>2, VatSpelled
<1>4. vatNumberFromSiren(s) = v
  BY <1>1, <1>2, <1>3 DEF vatNumberFromSiren
<1>5. /\ Plain(v) /\ IsPrefix(FR, v) /\ SubSeq(v, 3, 4) = k
      /\ SubSeq(v, 5, 13) = s /\ IsSuffix(s, v)
  <2>1. VatSpelling(v, k, s)
    BY <1>3
  <2> QED BY ONLY <1>1, <1>2, <2>1, k \in Seq(Int), v \in Seq(Int), VatParts
<1>11. Len(v) = 13
  BY <1>3 DEF VatSpelling
<1>6. stripFormatting(v) = v
  BY <1>5, PlainStays
<1>7. v # NoId /\ v # <<>>
  BY <1>11, OfAnotherLength, 13 \in Nat \ {0, 1}, Zenon
<1>8. ~AllBlank(v)
  BY <1>6, <1>7 DEF AllBlank
<1>9. validateFrenchVatNumber(v) = "ok"
  BY <1>4, <1>5, <1>6, <1>8, <1>11 DEF validateFrenchVatNumber
<1> QED BY <1>3, <1>4, <1>5, <1>9

(* The number of a party whose draft passes its checks, typed or derived. *)
PartyRead(party) ==
  {party.siret, party.siren, party.vatId} \subseteq Seq(Int) /\ party.siren # <<>>

LEMMA RegisteredAlike ==
  ASSUME NEW t \in Seq(Int), sirenFromSiret(digitsOnly(t)) # NoId
  PROVE  sirenFromSiret(t) = sirenFromSiret(digitsOnly(t)) /\ Given(sirenFromSiret(t))
<1>1. PICK s \in Seq(Int) : s = digitsOnly(t) /\ validateSiret(s) = "ok" /\ Plain(s)
  <2>1. digitsOnly(t) \in Seq(Int) /\ Plain(digitsOnly(t))
    BY DigitsPlain DEF Plain
  <2> QED BY <2>1 DEF sirenFromSiret
<1>2. stripFormatting(s) = s /\ Len(s) = 14
  BY <1>1, PlainStays, StrippedSiret
<1>3. s # NoId
  BY <1>2, OfAnotherLength, 14 \in Nat \ {0, 1}, Zenon
<1>4. ~AllBlank(t) /\ s = stripFormatting(t)
  BY <1>1, <1>3 DEF digitsOnly
<1>5. ~AllBlank(s)
  BY <1>1 DEF validateSiret
<1>6. validateSiret(t) = "ok"
  BY <1>1, <1>2, <1>4, <1>5 DEF validateSiret
<1>7. sirenFromSiret(t) = SubSeq(s, 1, 9) /\ sirenFromSiret(s) = SubSeq(s, 1, 9)
  BY <1>1, <1>2, <1>4, <1>6 DEF sirenFromSiret
<1>8. Len(SubSeq(s, 1, 9)) = 9
  BY <1>2, Begin
<1>9. SubSeq(s, 1, 9) # NoId /\ SubSeq(s, 1, 9) # <<>>
  BY <1>8, OfAnotherLength, 9 \in Nat \ {0, 1}, Zenon
<1> QED BY <1>1, <1>7, <1>9 DEF Given

LEMMA CheckedVat ==
  ASSUME NEW party, NEW part, PartyRead(party), ~Blocks(checkParty(party, part))
  PROVE  LET node == partyNode(party)
         IN node.country = "FR" /\ node.vatId # NoId /\ IsPrefix(FR, node.vatId) =>
              /\ validateFrenchVatNumber(node.vatId) = "ok"
              /\ node.legalId # NoId => IsSuffix(node.legalId, node.vatId)
<1>1. PICK l, v, siret, siren :
        /\ siret = digitsOnly(party.siret) /\ siren = digitsOnly(party.siren)
        /\ l = IF siren # NoId THEN siren ELSE sirenFromSiret(siret)
        /\ v = partyVatId(party, l)
  OBVIOUS
<1>2. /\ partyNode(party).legalId = l /\ partyNode(party).vatId = v
      /\ partyNode(party).country = party.countryCode
  BY <1>1 DEF partyNode, nodeOf, partySiren
<1>3. Plain(l) /\ party.siret \in Seq(Int) /\ party.siren \in Seq(Int) /\ party.vatId \in Seq(Int)
  BY <1>2, LegalIdPlain DEF PartyRead
<1> SUFFICES ASSUME party.countryCode = "FR", v # NoId, IsPrefix(FR, v)
             PROVE  validateFrenchVatNumber(v) = "ok" /\ (l # NoId => IsSuffix(l, v))
  BY <1>2
<1>4. CASE party.vatId = NoId
  <2>1. v = vatNumberFromSiren(l)
    BY <1>1, <1>4 DEF partyVatId
  <2>2. validateSiren(l) = "ok"
    BY <2>1 DEF vatNumberFromSiren
  <2> QED BY <1>3, <2>1, <2>2, VatMade
<1>5. CASE party.vatId # NoId
  <2>1. v = stripFormatting(party.vatId) /\ ~AllBlank(party.vatId)
    BY <1>1, <1>5 DEF partyVatId
  <2>2. Given(party.vatId)
    BY <1>3, <1>5, <2>1, StripTyped DEF AllBlank, Given
  <2>3. IsVatIdOf(v, SirenOf(party))
    <3> DEFINE X == checkParty(party, part)
    <3>1. checkVatId(party, part) \subseteq X
      BY DEF checkParty
    <3>2. ~Blocks(checkVatId(party, part))
      BY <3>1, PartOf
    <3>3. Refusal(part, "vatId", "").severity = "error"
      BY DEF Refusal, Issue
    <3> QED BY <2>1, <2>2, <3>2, <3>3, NotRefused DEF checkVatId
  <2>4. validateFrenchVatNumber(v) = "ok" /\ (Given(SirenOf(party)) => IsSuffix(SirenOf(party), v))
    BY <2>3 DEF IsVatIdOf
  <2>5. ASSUME l # NoId PROVE IsSuffix(l, v)
    <3>1. CASE party.siren # NoId
      <4>1. SirenOf(party) = party.siren /\ Given(party.siren)
        BY <3>1 DEF SirenOf, Given, PartyRead
      <4>2. Plain(v)
        BY <1>3, <2>1, StripIsPlain
      <4>3. Plain(party.siren)
        BY <1>3, <2>4, <4>1, <4>2, SuffixPlain
      <4>4. stripFormatting(party.siren) = party.siren /\ party.siren # <<>>
        BY <4>3, PlainStays DEF PartyRead
      <4>5. siren = party.siren
        BY <1>1, <3>1, <4>4 DEF digitsOnly, AllBlank
      <4> QED BY <1>1, <2>4, <3>1, <4>1, <4>5
    <3>2. CASE party.siren = NoId
      <4>1. siren = NoId
        BY <1>1, <3>2 DEF digitsOnly, AllBlank
      <4>2. l = sirenFromSiret(digitsOnly(party.siret)) /\ SirenOf(party) = sirenFromSiret(party.siret)
        BY <1>1, <3>2, <4>1 DEF SirenOf
      <4>3. SirenOf(party) = l /\ Given(l)
        BY <1>3, <2>5, <4>2, RegisteredAlike
      <4> QED BY <2>4, <4>3
    <3> QED BY <3>1, <3>2
  <2> QED BY <2>4, <2>5
<1> QED BY <1>4, <1>5

---------------------------------------------------------------------------
(* The numbers of a party are texts, and a SIREN that is stated is not the empty one: *)
(* issue-invoice.dto.ts:69 asks for nine digits, and the issuer's is its business's,   *)
(* checked when that is created (client-orgs.controller.ts:285).                       *)
PartiesRead ==
  \A h \in Drafts \cup Headers \cup {blankHeader} : PartyRead(h.seller) /\ PartyRead(h.buyer)

LEMMA PartyOfDraft ==
  ASSUME PartiesRead, GeneratedInv, FormRead, generated # Nothing
  PROVE  PartyRead(draft.seller) /\ PartyRead(draft.buyer)
<1>1. CASE draft \in Drafts
  BY <1>1 DEF PartiesRead
<1>2. CASE draft = SubmittedDraft
  <2>1. PartyRead(header.seller) /\ PartyRead(header.buyer)
    BY DEF FormRead, PartiesRead
  <2>2. draft.seller = header.seller /\ draft.buyer = header.buyer
    BY <1>2 DEF SubmittedDraft
  <2> QED BY <2>1, <2>2
<1> QED BY <1>1, <1>2 DEF GeneratedInv

(* A document states numbers of a party that agree: its VAT number is a valid one and  *)
(* ends with its SIREN, whichever of the two were typed and whichever derived, for any *)
(* numbers and keys (cii.ts, check-draft.ts, identifiers.ts).                          *)
THEOREM GeneratedNumbersAgree == InputsRead /\ PartiesRead /\ Spec => []NumbersAgree
<1> SUFFICES ASSUME InputsRead, PartiesRead PROVE Spec => []NumbersAgree
  OBVIOUS
<1>1. FormTyped /\ GeneratedInv /\ FormRead => NumbersAgree
  <2> SUFFICES ASSUME FormTyped, GeneratedInv, FormRead, generated # Nothing,
                      NEW party \in {generated.cii.seller, generated.cii.buyer}
               PROVE  party.country = "FR" /\ party.vatId # NoId /\ IsPrefix(FR, party.vatId) =>
                        /\ validateFrenchVatNumber(party.vatId) = "ok"
                        /\ party.legalId # NoId => IsSuffix(party.legalId, party.vatId)
    BY DEF NumbersAgree, JustGenerated
  <2>1. generated.cii = serialiseCii(draft, computeInvoice(draft)) /\ DraftAccepted(draft)
    BY GeneratedAccepted
  <2>2. generated.cii.seller = partyNode(draft.seller) /\ generated.cii.buyer = partyNode(draft.buyer)
    BY <2>1 DEF serialiseCii
  <2>3. ~Blocks(checkParty(draft.seller, "seller")) /\ ~Blocks(checkParty(draft.buyer, "buyer"))
    BY <2>1 DEF DraftAccepted
  <2>4. PartyRead(draft.seller) /\ PartyRead(draft.buyer)
    BY PartyOfDraft
  <2> QED BY <2>2, <2>3, <2>4, CheckedVat
<1> QED BY <1>1, GeneratedHolds, ReadHolds, PTL

---------------------------------------------------------------------------
(* Two numbers that differ by one digit. *)
Slip(t, u, i) ==
  /\ t \in Seq(Int) /\ u \in Seq(Int) /\ Len(u) = Len(t) /\ i \in 1..Len(t)
  /\ t[i] \in 0..9 /\ u[i] \in 0..9 /\ u[i] # t[i]
  /\ \A j \in 1..Len(t) : j # i => u[j] = t[j]

LEMMA SlipMade ==
  ASSUME NEW t \in Seq(Int), NEW i \in 1..Len(t), t[i] \in 0..9, NEW c \in 0..9,
         NEW u, u = [t EXCEPT ![i] = c], u # t
  PROVE  Slip(t, u, i)
<1>1. PICK n \in Nat : n = Len(t)
  BY LenProperties
<1>2. t \in [1..n -> Int] /\ DOMAIN t = 1..n
  BY <1>1, LenProperties
<1>3. u \in [1..n -> Int] /\ u[i] = c /\ \A j \in 1..n : j # i => u[j] = t[j]
  BY <1>1, <1>2
<1>4. u \in Seq(Int) /\ Len(u) = n
  <2>1. u = [k \in 1..n |-> u[k]]
    BY <1>3
  <2>2. Len(u) = n
    BY <2>1, LengthOf
  <2> QED BY <1>3, <2>2, SeqDef
<1>5. c # t[i]
  <2> SUFFICES ASSUME c = t[i] PROVE FALSE
    OBVIOUS
  <2> QED BY <1>2
<1> QED BY <1>1, <1>3, <1>4, <1>5 DEF Slip

LEMMA SlipPlain ==
  ASSUME NEW t, NEW u, NEW i, Plain(t), Slip(t, u, i)
  PROVE  Plain(u) /\ stripFormatting(u) = u
<1>1. /\ u \in Seq(Int) /\ DOMAIN u = 1..Len(u) /\ DOMAIN t = 1..Len(t) /\ Len(u) = Len(t)
  BY LenProperties DEF Slip
<1>2. ASSUME NEW j \in 1..Len(t) PROVE u[j] # Separator
  <2>1. CASE j = i
    <3>1. u[j] \in 0..9
      BY <2>1 DEF Slip
    <3> QED BY <3>1, NoLetter
  <2>2. CASE j # i
    BY <1>1, <2>2 DEF Slip, Plain
  <2> QED BY <2>1, <2>2
<1> QED BY <1>1, <1>2, PlainStays DEF Plain

(* The sum by which the Luhn key is checked. *)
Weighted(t, n, h) ==
  DOMAIN t = 1..n /\ \A i \in 1..n : h[i] = LuhnWeight(t, i)

LuhnSum(t) == MapThenSumSet(LAMBDA i : LuhnWeight(t, i), DOMAIN t)

LEMMA LuhnSumIs ==
  ASSUME NEW t, NEW n \in Nat, NEW h, Weighted(t, n, h), NEW f, AddsUp(f, 1..n, h)
  PROVE  LuhnSum(t) = f[1..n]
<1> DEFINE T == 1..n
           F(u) == [s \in SUBSET T |->
                      IF s = {} THEN 0
                      ELSE LuhnWeight(t, CHOOSE x \in s : TRUE) + u[s \ {CHOOSE x \in s : TRUE}]]
           sum == CHOOSE u : u = F(u)
<1>1. ASSUME NEW u PROVE Summing(u, T, h) <=> u = F(u)
  <2>1. \A s \in (SUBSET T) \ {{}} :
          h[CHOOSE x \in s : TRUE] = LuhnWeight(t, CHOOSE x \in s : TRUE)
    <3> TAKE s \in (SUBSET T) \ {{}}
    <3>1. PICK x \in s : x = CHOOSE y \in s : TRUE
      OBVIOUS
    <3> QED BY <3>1 DEF Weighted
  <2> DEFINE A == [s \in SUBSET T |->
                    IF s = {} THEN 0
                    ELSE h[CHOOSE x \in s : TRUE] + u[s \ {CHOOSE x \in s : TRUE}]]
  <2>2. A = F(u)
    <3>1. \A s \in SUBSET T :
            (IF s = {} THEN 0
             ELSE h[CHOOSE x \in s : TRUE] + u[s \ {CHOOSE x \in s : TRUE}])
            = (IF s = {} THEN 0
               ELSE LuhnWeight(t, CHOOSE x \in s : TRUE) + u[s \ {CHOOSE x \in s : TRUE}])
      BY <2>1
    <3> QED BY <3>1
  <2>3. Summing(u, T, h) <=> u = A
    BY DEF Summing
  <2> HIDE DEF A, F
  <2> QED BY <2>2, <2>3
<1>2. LuhnSum(t) = sum[T]
  BY DEF LuhnSum, Weighted, MapThenSumSet, MapThenFoldSet
<1>3. IsFiniteSet(T) /\ T \in SUBSET T /\ AddsUp(f, T, h)
  BY FS_Interval
<1>4. \E u : Summing(u, T, h)
  <2> HIDE DEF T
  <2> QED BY <1>3, SumPart
<1>5. sum = F(sum)
  <2> HIDE DEF F
  <2> QED BY <1>1, <1>4
<1> HIDE DEF sum, F
<1>6. Summing(sum, T, h)
  BY <1>1, <1>5
<1>7. sum[T] = f[T]
  <2> HIDE DEF T
  <2> QED BY ONLY <1>3, <1>6, SumTaken
<1> QED BY <1>2, <1>7

(* Sums of what differs at one place differ by as much. *)
LEMMA SumChanged ==
  ASSUME NEW S, IsFiniteSet(S), NEW h, NEW f, AddsUp(f, S, h), NEW k, NEW g, AddsUp(g, S, k),
         NEW i \in S, \A j \in S : j # i => k[j] = h[j]
  PROVE  f[S] = h[i] + f[S \ {i}] /\ g[S] = k[i] + f[S \ {i}] /\ f[S \ {i}] \in Int
<1> DEFINE T == S \ {i}
           C == Chosen(T)
           P == {s \in SUBSET T : g[s] = f[s]}
<1>1. IsFiniteSet(T) /\ Picks(C, T)
  BY FS_Subset, ChosenPicks
<1>2. {} \in P
  <2>1. g[{}] = 0 /\ f[{}] = 0
    BY DEF AddsUp
  <2> QED BY <2>1
<1>3. ASSUME NEW s \in (SUBSET T) \ {{}}, s \ {C[s]} \in P PROVE s \in P
  <2>1. C[s] \in s
    BY <1>1 DEF Picks
  <2>2. g[s \ {C[s]}] = f[s \ {C[s]}] /\ s \in SUBSET S
    BY <1>3
  <2> HIDE DEF C
  <2>3. g[s] = k[C[s]] + g[s \ {C[s]}] /\ f[s] = h[C[s]] + f[s \ {C[s]}]
    BY <2>1, <2>2 DEF AddsUp, Splits
  <2>4. k[C[s]] = h[C[s]]
    BY <2>1
  <2> QED BY <2>2, <2>3, <2>4
<1>4. SUBSET T \subseteq P
  <2> HIDE DEF P, C, T
  <2> QED BY <1>1, <1>2, <1>3, SubsetInduction
<1>5. g[T] = f[T]
  BY <1>4
<1>6. /\ f[S] = h[i] + f[S \ {i}] /\ g[S] = k[i] + g[S \ {i}] /\ f[S \ {i}] \in Int
  BY DEF AddsUp, Splits
<1> QED BY <1>5, <1>6

---------------------------------------------------------------------------
(* What a digit weighs, by whether it counts double: no two of them weigh the same. *)
Weight(d, doubled) ==
  LET v == IF doubled THEN 2 * d ELSE d IN IF v > 9 THEN v - 9 ELSE v

LEMMA Weighs ==
  ASSUME NEW d \in 0..9, NEW doubled \in BOOLEAN
  PROVE  Weight(d, doubled) \in 0..9
BY DEF Weight

LEMMA WeighsOther ==
  ASSUME NEW d \in 0..9, NEW e \in 0..9, d # e, NEW doubled \in BOOLEAN
  PROVE  Weight(d, doubled) # Weight(e, doubled)
BY DEF Weight

LEMMA WeightIs ==
  ASSUME NEW t, NEW i
  PROVE  LuhnWeight(t, i) = Weight(t[i], (Len(t) - i) % 2 = 1)
BY DEF LuhnWeight, Weight

LEMMA SumsOfDigits ==
  ASSUME NEW t \in Seq(Int), AllDigits(t)
  PROVE  \E h, f : /\ Weighted(t, Len(t), h) /\ AddsUp(f, 1..Len(t), h)
                   /\ LuhnSum(t) = f[1..Len(t)]
<1>1. PICK n \in Nat : n = Len(t) /\ DOMAIN t = 1..n
  BY LenProperties
<1>2. PICK h : h = [i \in 1..n |-> LuhnWeight(t, i)]
  OBVIOUS
<1>3. \A i \in 1..n : LuhnWeight(t, i) \in Int
  <2> TAKE i \in 1..n
  <2>1. PICK b \in BOOLEAN : b = ((Len(t) - i) % 2 = 1)
    OBVIOUS
  <2>2. PICK d \in 0..9 : d = t[i]
    BY <1>1 DEF AllDigits
  <2>3. Weight(d, b) \in Int
    BY Weighs
  <2> QED BY <2>1, <2>2, <2>3, WeightIs
<1>4. h \in [1..n -> Int]
  BY <1>2, <1>3
<1>5. IsFiniteSet(1..n)
  BY ONLY n \in Int, 1 \in Int, FS_Interval
<1>6. PICK f : AddsUp(f, 1..n, h)
  BY <1>4, <1>5, SumsExist
<1>7. Weighted(t, n, h)
  BY <1>1, <1>2 DEF Weighted
<1> QED BY <1>1, <1>6, <1>7, LuhnSumIs

LEMMA Tens ==
  ASSUME NEW a \in 0..9, NEW b \in 0..9, a # b, NEW r \in Int, (a + r) % 10 = 0
  PROVE  (b + r) % 10 # 0
OBVIOUS

(* No digit can be changed in a number whose Luhn key holds. *)
LEMMA LuhnSlip ==
  ASSUME NEW t, NEW u, NEW i, Slip(t, u, i), AllDigits(t), AllDigits(u), passesLuhn(t)
  PROVE  ~passesLuhn(u)
<1>1. /\ t \in Seq(Int) /\ u \in Seq(Int) /\ Len(u) = Len(t) /\ i \in 1..Len(t)
      /\ t[i] \in 0..9 /\ u[i] \in 0..9 /\ u[i] # t[i]
      /\ \A j \in 1..Len(t) : j # i => u[j] = t[j]
  BY DEF Slip
<1>2. PICK n \in Nat : n = Len(t)
  BY <1>1, LenProperties
<1>3. PICK h, f : /\ Weighted(t, n, h) /\ AddsUp(f, 1..n, h) /\ LuhnSum(t) = f[1..n]
  BY <1>1, <1>2, SumsOfDigits
<1>4. PICK k, g : /\ Weighted(u, n, k) /\ AddsUp(g, 1..n, k) /\ LuhnSum(u) = g[1..n]
  BY <1>1, <1>2, SumsOfDigits
<1>5. \A j \in 1..n : j # i => k[j] = h[j]
  <2> SUFFICES ASSUME NEW j \in 1..n, j # i PROVE k[j] = h[j]
    OBVIOUS
  <2>1. u[j] = t[j] /\ Len(u) = Len(t)
    BY <1>1, <1>2
  <2>2. LuhnWeight(u, j) = LuhnWeight(t, j)
    BY <2>1, WeightIs
  <2> QED BY <1>3, <1>4, <2>2 DEF Weighted
<1>6. PICK a \in 0..9, b \in 0..9 : a # b /\ a = h[i] /\ b = k[i]
  <2>1. PICK e \in BOOLEAN : e = ((Len(t) - i) % 2 = 1)
    OBVIOUS
  <2>2. h[i] = Weight(t[i], e) /\ k[i] = Weight(u[i], e)
    <3>1. h[i] = LuhnWeight(t, i) /\ k[i] = LuhnWeight(u, i)
      BY <1>1, <1>2, <1>3, <1>4 DEF Weighted
    <3> QED BY <1>1, <2>1, <3>1, WeightIs
  <2>3. Weight(t[i], e) \in 0..9 /\ Weight(u[i], e) \in 0..9 /\ Weight(t[i], e) # Weight(u[i], e)
    BY <1>1, Weighs, WeighsOther
  <2> QED BY <2>2, <2>3
<1>7. PICK S : S = 1..n /\ IsFiniteSet(S) /\ i \in S /\ AddsUp(f, S, h) /\ AddsUp(g, S, k)
  <2>1. IsFiniteSet(1..n)
    BY ONLY n \in Int, 1 \in Int, FS_Interval
  <2> QED BY <1>1, <1>2, <1>3, <1>4, <2>1
<1>8. PICK r \in Int : f[S] = h[i] + r /\ g[S] = k[i] + r
  <2>1. \A j \in S : j # i => k[j] = h[j]
    BY <1>5, <1>7
  <2>2. f[S] = h[i] + f[S \ {i}] /\ g[S] = k[i] + f[S \ {i}] /\ f[S \ {i}] \in Int
    <3>1. IsFiniteSet(S) /\ i \in S /\ AddsUp(f, S, h) /\ AddsUp(g, S, k)
      BY <1>7
    <3> QED BY ONLY <2>1, <3>1, SumChanged
  <2> QED BY <2>2
<1>9. LuhnSum(t) = a + r /\ LuhnSum(u) = b + r
  BY <1>3, <1>4, <1>6, <1>7, <1>8
<1>10. LuhnSum(t) % 10 = 0
  BY DEF passesLuhn, LuhnSum
<1>11. LuhnSum(u) % 10 # 0
  BY <1>6, <1>9, <1>10, Tens
<1> QED BY <1>11 DEF passesLuhn, LuhnSum

(* La Poste's own number has a key that holds, like any other. *)
LEMMA LaPosteIs ==
  /\ LA_POSTE_SIREN \in Seq(Int) /\ Len(LA_POSTE_SIREN) = 9 /\ AllDigits(LA_POSTE_SIREN)
  /\ LA_POSTE_SIREN[1] = 3 /\ LA_POSTE_SIREN[2] = 5 /\ LA_POSTE_SIREN[3] = 6
  /\ \A i \in 4..9 : LA_POSTE_SIREN[i] = 0
<1>1. LA_POSTE_SIREN \in Seq(Int) /\ Len(LA_POSTE_SIREN) = 9
  BY DEF LA_POSTE_SIREN
<1>2. LA_POSTE_SIREN[1] = 3 /\ LA_POSTE_SIREN[2] = 5 /\ LA_POSTE_SIREN[3] = 6
  BY DEF LA_POSTE_SIREN
<1>3. /\ LA_POSTE_SIREN[4] = 0 /\ LA_POSTE_SIREN[5] = 0 /\ LA_POSTE_SIREN[6] = 0
      /\ LA_POSTE_SIREN[7] = 0 /\ LA_POSTE_SIREN[8] = 0 /\ LA_POSTE_SIREN[9] = 0
  BY DEF LA_POSTE_SIREN
<1>4. PICK t \in Seq(Int) : t = LA_POSTE_SIREN
  BY <1>1
<1>5. DOMAIN t = 1..9 /\ Len(t) = 9
  BY <1>1, <1>4, LenProperties
<1>6. /\ t[1] = 3 /\ t[2] = 5 /\ t[3] = 6 /\ t[4] = 0 /\ t[5] = 0 /\ t[6] = 0
      /\ t[7] = 0 /\ t[8] = 0 /\ t[9] = 0
  BY <1>2, <1>3, <1>4
<1>7. \A i \in 4..9 : t[i] = 0
  BY ONLY <1>6
<1>8. \A i \in 1..9 : t[i] \in 0..9
  <2> TAKE i \in 1..9
  <2>1. i = 1 \/ i = 2 \/ i = 3 \/ i \in 4..9
    OBVIOUS
  <2>2. t[i] = 3 \/ t[i] = 5 \/ t[i] = 6 \/ t[i] = 0
    BY <1>6, <1>7, <2>1, Zenon
  <2> QED BY ONLY <2>2
<1>9. t # <<>>
  BY <1>5, OfAnotherLength, 9 \in Nat \ {0, 1}, Zenon
<1> QED BY <1>4, <1>5, <1>6, <1>7, <1>8, <1>9 DEF AllDigits

LEMMA LaPosteKeyed == passesLuhn(LA_POSTE_SIREN)
<1>1. PICK t \in Seq(Int) : /\ t = LA_POSTE_SIREN /\ Len(t) = 9 /\ AllDigits(t)
                            /\ t[1] = 3 /\ t[2] = 5 /\ t[3] = 6 /\ \A i \in 4..9 : t[i] = 0
  BY LaPosteIs
<1>2. PICK h, f : Weighted(t, 9, h) /\ AddsUp(f, 1..9, h) /\ LuhnSum(t) = f[1..9]
  <2>1. /\ t \in Seq(Int) /\ AllDigits(t)
        /\ Len(t) = 9
    BY <1>1
  <2>2. \E h, f : /\ Weighted(t, Len(t), h) /\ AddsUp(f, 1..Len(t), h)
                  /\ LuhnSum(t) = f[1..Len(t)]
    BY <2>1, SumsOfDigits
  <2> QED BY <2>1, <2>2, Zenon
<1>3. h[1] = 3 /\ h[2] = 1 /\ h[3] = 6 /\ \A i \in 4..9 : h[i] = 0
  <2>1. \A i \in 1..9 : h[i] = LuhnWeight(t, i)
    BY <1>2 DEF Weighted
  <2>2. \A i \in 1..9 : LuhnWeight(t, i) = Weight(t[i], (9 - i) % 2 = 1)
    BY <1>1, WeightIs
  <2>3. /\ Weight(3, (9 - 1) % 2 = 1) = 3 /\ Weight(5, (9 - 2) % 2 = 1) = 1
        /\ Weight(6, (9 - 3) % 2 = 1) = 6
    BY DEF Weight
  <2>4. \A i \in 4..9 : Weight(0, (9 - i) % 2 = 1) = 0
    BY DEF Weight
  <2>5. h[1] = 3 /\ h[2] = 1 /\ h[3] = 6
    BY <1>1, <2>1, <2>2, <2>3
  <2>6. ASSUME NEW i \in 4..9 PROVE h[i] = 0
    <3>1. i \in 1..9 /\ t[i] = 0
      BY <1>1
    <3>2. h[i] = LuhnWeight(t, i)
      BY <2>1, <3>1
    <3>3. LuhnWeight(t, i) = Weight(t[i], (9 - i) % 2 = 1)
      BY <2>2, <3>1
    <3>4. Weight(0, (9 - i) % 2 = 1) = 0
      BY <2>4
    <3> QED BY <3>1, <3>2, <3>3, <3>4, Zenon
  <2> QED BY <2>5, <2>6
<1>4. /\ f[Upto(0)] = 0
      /\ \A i \in 1..9 : f[Upto(i)] = h[i] + f[Upto(i - 1)] /\ f[Upto(i)] \in Int
  BY <1>2, 9 \in Nat, SumGrows
<1>5. /\ f[Upto(1)] = h[1] + f[Upto(0)] /\ f[Upto(2)] = h[2] + f[Upto(1)]
      /\ f[Upto(3)] = h[3] + f[Upto(2)] /\ f[Upto(4)] = h[4] + f[Upto(3)]
      /\ f[Upto(5)] = h[5] + f[Upto(4)] /\ f[Upto(6)] = h[6] + f[Upto(5)]
      /\ f[Upto(7)] = h[7] + f[Upto(6)] /\ f[Upto(8)] = h[8] + f[Upto(7)]
      /\ f[Upto(9)] = h[9] + f[Upto(8)]
  <2>1. \A i, j : i \in 1..9 /\ j = i - 1 => f[Upto(i)] = h[i] + f[Upto(j)]
    BY ONLY <1>4
  <2> QED BY ONLY <2>1
<1>6. h[4] = 0 /\ h[5] = 0 /\ h[6] = 0 /\ h[7] = 0 /\ h[8] = 0 /\ h[9] = 0
  BY ONLY <1>3
<1>7. f[Upto(9)] = 10
  BY ONLY <1>3, <1>4, <1>5, <1>6
<1>8. LuhnSum(t) = 10
  BY <1>2, <1>7 DEF Upto
<1> QED BY <1>1, <1>8 DEF passesLuhn, LuhnSum

---------------------------------------------------------------------------
(* The slips of each number. *)
LEMMA SirenKeyed ==
  ASSUME NEW t, Plain(t), validateSiren(t) = "ok"
  PROVE  t \in Seq(Int) /\ AllDigits(t) /\ Len(t) = 9 /\ passesLuhn(t)
<1>1. stripFormatting(t) = t /\ t \in Seq(Int)
  BY PlainStays DEF Plain
<1>2. AllDigits(t) /\ Len(t) = 9 /\ (t = LA_POSTE_SIREN \/ passesLuhn(t))
  BY <1>1 DEF validateSiren
<1> QED BY <1>1, <1>2, LaPosteKeyed

LEMMA SirenSlip ==
  ASSUME NEW t, NEW u, NEW i, Slip(t, u, i), Plain(t), validateSiren(t) = "ok"
  PROVE  validateSiren(u) # "ok"
<1>1. Plain(u)
  BY SlipPlain
<1> QED BY <1>1, SirenKeyed, LuhnSlip

LEMMA SiretKeyed ==
  ASSUME NEW t, Plain(t), validateSiret(t) = "ok", ~IsPrefix(LA_POSTE_SIREN, t)
  PROVE  AllDigits(t) /\ passesLuhn(t)
<1>1. stripFormatting(t) = t
  BY PlainStays
<1> QED BY <1>1 DEF validateSiret

LEMMA SiretSlip ==
  ASSUME NEW t, NEW u, NEW i, Slip(t, u, i), Plain(t),
         validateSiret(t) = "ok", ~IsPrefix(LA_POSTE_SIREN, t)
  PROVE  ~(validateSiret(u) = "ok" /\ ~IsPrefix(LA_POSTE_SIREN, u))
<1>1. Plain(u)
  BY SlipPlain
<1> QED BY <1>1, SiretKeyed, LuhnSlip

(* A part of two numbers that differ by a digit there. *)
LEMMA SlipWithin ==
  ASSUME NEW t, NEW u, NEW i, Slip(t, u, i), NEW a \in 1..Len(t), NEW b \in a..Len(t)
  PROVE  /\ i \in a..b => Slip(SubSeq(t, a, b), SubSeq(u, a, b), (i - a) + 1)
         /\ i \notin a..b => SubSeq(t, a, b) = SubSeq(u, a, b)
<1>1. /\ t \in Seq(Int) /\ u \in Seq(Int) /\ Len(u) = Len(t) /\ i \in 1..Len(t)
      /\ t[i] \in 0..9 /\ u[i] \in 0..9 /\ u[i] # t[i]
      /\ \A j \in 1..Len(t) : j # i => u[j] = t[j]
  BY DEF Slip
<1>2. PICK n \in Nat : n = Len(t) /\ a \in 1..n /\ b \in a..n /\ i \in 1..n
  BY <1>1, LenProperties
<1>3. PICK m \in Nat : m = (b - a) + 1
  BY <1>2
<1>4. PICK p, q : p = SubSeq(t, a, b) /\ q = SubSeq(u, a, b)
  OBVIOUS
<1>5. /\ p \in Seq(Int) /\ Len(p) = m /\ \A k \in 1..m : p[k] = t[(a + k) - 1]
      /\ q \in Seq(Int) /\ Len(q) = m /\ \A k \in 1..m : q[k] = u[(a + k) - 1]
  <2>1. /\ t \in Seq(Int) /\ a \in 1..Len(t) /\ b \in a..Len(t)
        /\ u \in Seq(Int) /\ a \in 1..Len(u) /\ b \in a..Len(u)
    BY <1>1
  <2>2. /\ p \in Seq(Int) /\ Len(p) = (b - a) + 1
        /\ \A k \in 1..((b - a) + 1) : p[k] = t[(a + k) - 1]
    BY ONLY <1>4, <2>1, Slice
  <2>3. /\ q \in Seq(Int) /\ Len(q) = (b - a) + 1
        /\ \A k \in 1..((b - a) + 1) : q[k] = u[(a + k) - 1]
    BY ONLY <1>4, <2>1, Slice
  <2> QED BY ONLY <1>3, <2>2, <2>3
<1>6. \A k \in 1..m : (a + k) - 1 \in 1..n
  BY ONLY <1>2, <1>3, n \in Nat
<1>7. CASE i \in a..b
  <2>1. PICK j \in 1..m : j = (i - a) + 1 /\ (a + j) - 1 = i
    BY <1>2, <1>3, <1>7
  <2>2. \A k \in 1..m : k # j => (a + k) - 1 # i
    BY ONLY <1>2, <2>1, n \in Nat
  <2>3. p[j] = t[i] /\ q[j] = u[i]
    BY <1>5, <2>1
  <2>4. ASSUME NEW k \in 1..m, k # j PROVE q[k] = p[k]
    <3>1. PICK l \in 1..n : l = (a + k) - 1 /\ l # i
      BY <1>6, <2>2, <2>4
    <3>2. u[l] = t[l]
      BY <1>1, <1>2, <3>1
    <3>3. p[k] = t[l] /\ q[k] = u[l]
      BY <1>5, <3>1
    <3> QED BY <3>2, <3>3
  <2>5. Slip(p, q, j)
    BY <1>1, <1>5, <2>1, <2>3, <2>4 DEF Slip
  <2> QED BY <1>4, <1>7, <2>1, <2>5
<1>8. CASE i \notin a..b
  <2>1. \A k \in 1..m : (a + k) - 1 # i
    BY ONLY <1>2, <1>3, <1>8, n \in Nat
  <2>2. ASSUME NEW k \in 1..m PROVE p[k] = q[k]
    <3>1. PICK l \in 1..n : l = (a + k) - 1 /\ l # i
      BY <1>6, <2>1
    <3>2. u[l] = t[l]
      BY <1>1, <1>2, <3>1
    <3>3. p[k] = t[l] /\ q[k] = u[l]
      BY <1>5, <3>1
    <3> QED BY <3>2, <3>3
  <2>3. p = q
    BY <1>5, <2>2, SeqEqual
  <2> QED BY <1>4, <1>8, <2>3
<1> QED BY <1>7, <1>8

LEMMA PlainWithin ==
  ASSUME NEW t, Plain(t), NEW a \in 1..Len(t), NEW b \in a..Len(t)
  PROVE  Plain(SubSeq(t, a, b))
<1>1. t \in Seq(Int) /\ \A j \in 1..Len(t) : t[j] # Separator
  BY LenProperties DEF Plain
<1>2. PICK n \in Nat : n = Len(t) /\ a \in 1..n /\ b \in a..n
  BY <1>1, LenProperties
<1>3. PICK m \in Nat : m = (b - a) + 1
  BY <1>2
<1>4. PICK p : p = SubSeq(t, a, b)
  OBVIOUS
<1>5. p \in Seq(Int) /\ Len(p) = m /\ \A k \in 1..m : p[k] = t[(a + k) - 1]
  BY <1>1, <1>3, <1>4, Slice
<1>6. \A k \in 1..m : (a + k) - 1 \in 1..n
  BY ONLY <1>2, <1>3, n \in Nat
<1>7. DOMAIN p = 1..m
  BY <1>5, LenProperties
<1>8. \A k \in 1..m : p[k] # Separator
  BY <1>1, <1>2, <1>5, <1>6
<1> QED BY <1>4, <1>5, <1>7, <1>8 DEF Plain

LEMMA DigitsStay ==
  ASSUME NEW t, NEW u, NEW i, Slip(t, u, i), AllDigits(t)
  PROVE  AllDigits(u)
<1>1. /\ t \in Seq(Int) /\ u \in Seq(Int) /\ Len(u) = Len(t) /\ i \in 1..Len(t)
      /\ u[i] \in 0..9 /\ \A j \in 1..Len(t) : j # i => u[j] = t[j]
  BY DEF Slip
<1>2. DOMAIN u = 1..Len(u) /\ DOMAIN t = 1..Len(t)
  BY <1>1, LenProperties
<1>3. \A j \in DOMAIN u : u[j] \in 0..9
  BY <1>1, <1>2 DEF AllDigits
<1>4. i \in DOMAIN u
  BY <1>1, <1>2
<1>5. DOMAIN <<>> = {}
  OBVIOUS
<1> QED BY <1>3, <1>4, <1>5 DEF AllDigits

LEMMA VatKeyed ==
  ASSUME NEW t, Plain(t), validateFrenchVatNumber(t) = "ok"
  PROVE  /\ Len(t) = 13 /\ validateSiren(SubSeq(t, 5, 13)) = "ok"
         /\ AllDigits(SubSeq(t, 3, 4)) => vatNumberFromSiren(SubSeq(t, 5, 13)) = t
<1>1. stripFormatting(t) = t
  BY PlainStays
<1> QED BY <1>1 DEF validateFrenchVatNumber

LEMMA VatSlip ==
  ASSUME NEW t, NEW u, NEW i, Slip(t, u, i), Plain(t), validateFrenchVatNumber(t) = "ok",
         i >= 5 \/ (i >= 3 /\ AllDigits(SubSeq(t, 3, 4)))
  PROVE  validateFrenchVatNumber(u) # "ok"
<1> SUFFICES ASSUME validateFrenchVatNumber(u) = "ok" PROVE FALSE
  OBVIOUS
<1>1. /\ Len(t) = 13 /\ validateSiren(SubSeq(t, 5, 13)) = "ok"
      /\ AllDigits(SubSeq(t, 3, 4)) => vatNumberFromSiren(SubSeq(t, 5, 13)) = t
  BY VatKeyed
<1>2. Plain(u)
  BY SlipPlain
<1>3. /\ validateSiren(SubSeq(u, 5, 13)) = "ok"
      /\ AllDigits(SubSeq(u, 3, 4)) => vatNumberFromSiren(SubSeq(u, 5, 13)) = u
  BY <1>2, VatKeyed
<1>4. i \in 1..13 /\ 5 \in 1..Len(t) /\ 13 \in 5..Len(t) /\ 3 \in 1..Len(t) /\ 4 \in 3..Len(t)
  BY <1>1 DEF Slip
<1>5. CASE i \in 5..13
  <2>1. Slip(SubSeq(t, 5, 13), SubSeq(u, 5, 13), (i - 5) + 1)
    BY <1>4, <1>5, SlipWithin
  <2>2. Plain(SubSeq(t, 5, 13))
    BY <1>4, PlainWithin
  <2> QED BY <1>1, <1>3, <2>1, <2>2, SirenSlip
<1>6. CASE i \notin 5..13
  <2>1. i \in 3..4 /\ AllDigits(SubSeq(t, 3, 4))
    BY <1>4, <1>6
  <2>2. SubSeq(t, 5, 13) = SubSeq(u, 5, 13)
    BY <1>4, <1>6, SlipWithin
  <2>3. Slip(SubSeq(t, 3, 4), SubSeq(u, 3, 4), (i - 3) + 1)
    BY <1>4, <2>1, SlipWithin
  <2>4. AllDigits(SubSeq(u, 3, 4))
    BY <2>1, <2>3, DigitsStay
  <2>5. t = u
    BY <1>1, <1>3, <2>1, <2>2, <2>4
  <2>6. t[i] # u[i]
    BY DEF Slip
  <2> QED BY <2>5, <2>6
<1> QED BY <1>5, <1>6

---------------------------------------------------------------------------
(* The remainder by 97: what differs once differs ever after. *)
LEMMA CarriesApart ==
  ASSUME NEW r \in Remainders, NEW q \in Remainders, NEW c \in Int, r # q
  PROVE  Carried(r, c) # Carried(q, c)
<1>1. r \in 0..96 /\ q \in 0..96
  BY DEF Remainders
<1>2. (r * 10 + c) % 97 # (q * 10 + c) % 97
  BY ONLY <1>1, r # q, c \in Int
<1>3. (r * 100 + c) % 97 # (q * 100 + c) % 97
  BY ONLY <1>1, r # q, c \in Int
<1> QED BY <1>2, <1>3 DEF Carried

LEMMA DigitsApart ==
  ASSUME NEW r \in Remainders, NEW c \in 0..9, NEW d \in 0..9, c # d
  PROVE  Carried(r, c) # Carried(r, d)
<1>1. r \in 0..96
  BY DEF Remainders
<1>2. (r * 10 + c) % 97 # (r * 10 + d) % 97
  BY <1>1
<1> QED BY <1>2 DEF Carried

LEMMA RemainderSlip ==
  ASSUME NEW t, NEW u, NEW i, Slip(t, u, i)
  PROVE  Mod97(t) # Mod97(u)
<1>1. /\ t \in Seq(Int) /\ u \in Seq(Int) /\ Len(u) = Len(t) /\ i \in 1..Len(t)
      /\ t[i] \in 0..9 /\ u[i] \in 0..9 /\ u[i] # t[i]
      /\ \A j \in 1..Len(t) : j # i => u[j] = t[j]
  BY DEF Slip
<1>2. PICK n \in Nat : n = Len(t) /\ i \in 1..n
  BY <1>1, LenProperties
<1>3. PICK g : Reduced(g, t) /\ Mod97(t) = g[n]
  BY <1>1, <1>2, Reduces
<1>4. PICK h : Reduced(h, u) /\ Mod97(u) = h[n]
  BY <1>1, <1>2, Reduces
<1>5. /\ g \in [0..n -> Remainders] /\ g[0] = 0 /\ \A j \in 1..n : g[j] = Carried(g[j - 1], t[j])
      /\ h \in [0..n -> Remainders] /\ h[0] = 0 /\ \A j \in 1..n : h[j] = Carried(h[j - 1], u[j])
  BY <1>1, <1>2, <1>3, <1>4 DEF Reduced
<1> DEFINE S == {j \in 0..n : (j < i => g[j] = h[j]) /\ (j >= i => g[j] # h[j])}
<1>6. 0 \in S
  BY <1>2, <1>5
<1>7. ASSUME NEW j \in 1..n, j - 1 \in S PROVE j \in S
  <2>1. g[j] = Carried(g[j - 1], t[j]) /\ h[j] = Carried(h[j - 1], u[j])
    BY <1>5
  <2>2. g[j - 1] \in Remainders /\ h[j - 1] \in Remainders /\ t[j] \in Int
    <3>1. j - 1 \in 0..n
      OBVIOUS
    <3>2. t[j] \in Int
      BY <1>1, <1>2, ElementOfSeq
    <3> QED BY <1>5, <3>1, <3>2
  <2>3. CASE j < i
    <3>1. g[j - 1] = h[j - 1] /\ u[j] = t[j]
      BY <1>1, <1>2, <1>7, <2>3
    <3>2. g[j] = h[j]
      BY <2>1, <3>1
    <3> QED BY <1>2, <2>3, <3>2
  <2>4. CASE j = i
    <3>1. g[j - 1] = h[j - 1]
      BY <1>2, <1>7, <2>4
    <3>2. g[j] # h[j]
      <4>1. PICK r, c, d : r = g[j - 1] /\ r = h[j - 1] /\ c = t[j] /\ d = u[j]
        BY <3>1
      <4>2. r \in Remainders /\ c \in 0..9 /\ d \in 0..9 /\ c # d
        BY <1>1, <2>2, <2>4, <4>1
      <4>3. Carried(r, c) # Carried(r, d)
        BY <4>2, DigitsApart
      <4> QED BY <2>1, <4>1, <4>3
    <3> QED BY <1>2, <2>4, <3>2
  <2>5. CASE j > i
    <3>1. g[j - 1] # h[j - 1] /\ u[j] = t[j]
      <4>1. j - 1 >= i /\ j # i
        BY <1>2, <2>5
      <4>2. g[j - 1] # h[j - 1]
        BY <1>7, <4>1
      <4> QED BY <1>1, <1>2, <4>1, <4>2
    <3>2. g[j] # h[j]
      BY <2>1, <2>2, <3>1, CarriesApart
    <3>3. ~(j < i)
      BY <1>2, <2>5
    <3> QED BY <3>2, <3>3
  <2> QED BY <1>2, <2>3, <2>4, <2>5
<1>8. n \in S
  <2> HIDE DEF S
  <2> QED BY <1>6, <1>7, ClimbTo
<1> QED BY <1>2, <1>3, <1>4, <1>8

(* A number that is joined to another. *)
LEMMA SlipBefore ==
  ASSUME NEW t, NEW u, NEW i, Slip(t, u, i), NEW s \in Seq(Int)
  PROVE  Slip(t \o s, u \o s, i)
<1>1. /\ t \in Seq(Int) /\ u \in Seq(Int) /\ Len(u) = Len(t) /\ i \in 1..Len(t)
      /\ t[i] \in 0..9 /\ u[i] \in 0..9 /\ u[i] # t[i]
      /\ \A j \in 1..Len(t) : j # i => u[j] = t[j]
  BY DEF Slip
<1>2. PICK m \in Nat, n \in Nat : m = Len(t) /\ m = Len(u) /\ n = Len(s)
  BY <1>1, LenProperties
<1>3. PICK p \in Seq(Int) : /\ p = t \o s /\ Len(p) = Len(t) + Len(s)
                            /\ \A j \in 1..Len(t) : p[j] = t[j]
                            /\ \A j \in 1..Len(s) : p[Len(t) + j] = s[j]
  BY <1>1, Joined, Zenon
<1>4. PICK q \in Seq(Int) : /\ q = u \o s /\ Len(q) = Len(u) + Len(s)
                            /\ \A j \in 1..Len(u) : q[j] = u[j]
                            /\ \A j \in 1..Len(s) : q[Len(u) + j] = s[j]
  BY <1>1, Joined, Zenon
<1>5. /\ Len(p) = m + n /\ Len(q) = m + n /\ i \in 1..m
      /\ \A j \in 1..m : p[j] = t[j] /\ q[j] = u[j]
      /\ \A j \in 1..n : p[m + j] = q[m + j]
  <2>1. /\ Len(p) = Len(t) + Len(s) /\ Len(q) = Len(u) + Len(s)
        /\ \A j \in 1..Len(t) : p[j] = t[j]
        /\ \A j \in 1..Len(s) : p[Len(t) + j] = s[j]
        /\ \A j \in 1..Len(u) : q[j] = u[j]
        /\ \A j \in 1..Len(s) : q[Len(u) + j] = s[j]
    BY <1>3, <1>4
  <2>2. i \in 1..Len(t)
    BY <1>1
  <2> QED BY ONLY <1>2, <2>1, <2>2
<1>6. ASSUME NEW j \in 1..(m + n), j # i PROVE q[j] = p[j]
  <2>1. CASE j \in 1..m
    <3>1. u[j] = t[j]
      BY <1>1, <1>2, <1>6, <2>1
    <3> QED BY <1>5, <2>1, <3>1
  <2>2. CASE j \notin 1..m
    <3>1. PICK k \in 1..n : j = m + k
      BY ONLY <2>2, j \in 1..(m + n), m \in Nat, n \in Nat
    <3> QED BY <1>5, <3>1
  <2> QED BY <2>1, <2>2
<1>7. Slip(p, q, i)
  <2>1. i \in 1..(m + n)
    BY <1>5
  <2>2. p[i] = t[i] /\ q[i] = u[i]
    BY <1>5
  <2>3. /\ t[i] \in 0..9 /\ u[i] \in 0..9 /\ u[i] # t[i]
    BY <1>1
  <2>4. Len(p) = m + n /\ Len(q) = m + n
    BY <1>5
  <2> QED BY ONLY p \in Seq(Int), q \in Seq(Int), <1>6, <2>1, <2>2, <2>3, <2>4 DEF Slip
<1> QED BY <1>3, <1>4, <1>7, Zenon

LEMMA SlipAfter ==
  ASSUME NEW t, NEW u, NEW i, Slip(t, u, i), NEW s \in Seq(Int)
  PROVE  Slip(s \o t, s \o u, Len(s) + i)
<1>1. /\ t \in Seq(Int) /\ u \in Seq(Int) /\ Len(u) = Len(t) /\ i \in 1..Len(t)
      /\ t[i] \in 0..9 /\ u[i] \in 0..9 /\ u[i] # t[i]
      /\ \A j \in 1..Len(t) : j # i => u[j] = t[j]
  BY DEF Slip
<1>2. PICK m \in Nat, n \in Nat : m = Len(t) /\ m = Len(u) /\ n = Len(s)
  BY <1>1, LenProperties
<1>3. PICK p \in Seq(Int) : /\ p = s \o t /\ Len(p) = Len(s) + Len(t)
                            /\ \A j \in 1..Len(s) : p[j] = s[j]
                            /\ \A j \in 1..Len(t) : p[Len(s) + j] = t[j]
  BY <1>1, Joined, Zenon
<1>4. PICK q \in Seq(Int) : /\ q = s \o u /\ Len(q) = Len(s) + Len(u)
                            /\ \A j \in 1..Len(s) : q[j] = s[j]
                            /\ \A j \in 1..Len(u) : q[Len(s) + j] = u[j]
  BY <1>1, Joined, Zenon
<1>5. /\ Len(p) = n + m /\ Len(q) = n + m /\ i \in 1..m
      /\ \A j \in 1..m : p[n + j] = t[j] /\ q[n + j] = u[j]
      /\ \A j \in 1..n : p[j] = q[j]
  <2>1. /\ Len(p) = Len(s) + Len(t) /\ Len(q) = Len(s) + Len(u)
        /\ \A j \in 1..Len(s) : p[j] = s[j]
        /\ \A j \in 1..Len(t) : p[Len(s) + j] = t[j]
        /\ \A j \in 1..Len(s) : q[j] = s[j]
        /\ \A j \in 1..Len(u) : q[Len(s) + j] = u[j]
    BY <1>3, <1>4
  <2>2. i \in 1..Len(t)
    BY <1>1
  <2> QED BY ONLY <1>2, <2>1, <2>2
<1>6. ASSUME NEW j \in 1..(n + m), j # n + i PROVE q[j] = p[j]
  <2>1. CASE j \in 1..n
    BY <1>5, <2>1
  <2>2. CASE j \notin 1..n
    <3>1. PICK k \in 1..m : j = n + k
      BY ONLY <2>2, j \in 1..(n + m), m \in Nat, n \in Nat
    <3>2. k # i
      BY <1>6, <3>1
    <3>3. u[k] = t[k]
      BY <1>1, <1>2, <3>2
    <3> QED BY <1>5, <3>1, <3>3
  <2> QED BY <2>1, <2>2
<1>7. Slip(p, q, n + i)
  <2>1. n + i \in 1..(n + m)
    BY <1>5
  <2>2. p[n + i] = t[i] /\ q[n + i] = u[i]
    BY <1>5
  <2>3. /\ t[i] \in 0..9 /\ u[i] \in 0..9 /\ u[i] # t[i]
    BY <1>1
  <2>4. Len(p) = n + m /\ Len(q) = n + m
    BY <1>5
  <2>5. PICK l : l = n + i
    OBVIOUS
  <2>6. Slip(p, q, l)
    BY ONLY p \in Seq(Int), q \in Seq(Int), <1>6, <2>1, <2>2, <2>3, <2>4, <2>5 DEF Slip
  <2> QED BY <2>5, <2>6
<1>8. n = Len(s)
  BY <1>2
<1> QED BY <1>3, <1>4, <1>7, <1>8, Zenon

Turned(t) == SubSeq(t, 5, Len(t)) \o SubSeq(t, 1, 4)

LEMMA IbanKeyed ==
  ASSUME NEW t, Plain(t), isValidIban(t)
  PROVE  Len(t) \in 14..34 /\ Mod97(Turned(t)) = 1
<1>1. stripFormatting(t) = t
  BY PlainStays
<1> QED BY <1>1 DEF isValidIban, Turned

LEMMA IbanSlip ==
  ASSUME NEW t, NEW u, NEW i, Slip(t, u, i), Plain(t), isValidIban(t)
  PROVE  ~isValidIban(u)
<1> SUFFICES ASSUME isValidIban(u) PROVE FALSE
  OBVIOUS
<1>1. Plain(u)
  BY SlipPlain
<1>2. Len(t) \in 14..34 /\ Mod97(Turned(t)) = 1 /\ Mod97(Turned(u)) = 1
  BY <1>1, IbanKeyed
<1>3. PICK n \in 14..34 : n = Len(t) /\ n = Len(u)
  BY <1>2 DEF Slip
<1>4. 5 \in 1..Len(t) /\ Len(t) \in 5..Len(t) /\ 1 \in 1..Len(t) /\ 4 \in 1..Len(t)
  <2>1. 5 \in 1..n /\ n \in 5..n /\ 1 \in 1..n /\ 4 \in 1..n
    BY ONLY n \in 14..34
  <2> QED BY <1>3, <2>1, Zenon
<1>5. PICK a, b, c, d : /\ a = SubSeq(t, 5, Len(t)) /\ b = SubSeq(t, 1, 4)
                        /\ c = SubSeq(u, 5, Len(t)) /\ d = SubSeq(u, 1, 4)
  OBVIOUS
<1>6. Turned(t) = a \o b /\ Turned(u) = c \o d
  BY <1>3, <1>5 DEF Turned
<1>7. a \in Seq(Int) /\ b \in Seq(Int)
  BY <1>4, <1>5, PlainWithin DEF Plain
<1>8. i \in 1..Len(t)
  BY DEF Slip
<1>9. \E j : Slip(Turned(t), Turned(u), j)
  <2>1. CASE i \in 5..Len(t)
    <3>1. i \notin 1..4
      BY <2>1
    <3>2. \E k : Slip(a, c, k)
      BY <1>4, <1>5, <2>1, SlipWithin
    <3>3. b = d
      BY <1>4, <1>5, <3>1, SlipWithin
    <3> QED BY <1>6, <1>7, <3>2, <3>3, SlipBefore
  <2>2. CASE i \notin 5..Len(t)
    <3>1. i \in 1..4
      BY <1>2, <1>8, <2>2
    <3>2. \E k : Slip(b, d, k)
      BY <1>4, <1>5, <3>1, SlipWithin
    <3>3. a = c
      BY <1>4, <1>5, <2>2, SlipWithin
    <3> QED BY <1>6, <1>7, <3>2, <3>3, SlipAfter
  <2> QED BY <2>1, <2>2
<1> QED BY <1>2, <1>9, RemainderSlip

---------------------------------------------------------------------------
Slips(t, from) ==
  {[t EXCEPT ![i] = c] : i \in {j \in from..Len(t) : t[j] \in 0..9}, c \in 0..9} \ {t}

LEMMA SlipOf ==
  ASSUME NEW t, Plain(t), NEW from \in Nat \ {0},
         NEW u, u \in Slips(t, from)
  PROVE  \E i : Slip(t, u, i) /\ i >= from
<1>1. PICK i \in from..Len(t), c \in 0..9 : t[i] \in 0..9 /\ u = [t EXCEPT ![i] = c] /\ u # t
  BY DEF Slips
<1>2. t \in Seq(Int) /\ Len(t) \in Nat
  BY LenProperties DEF Plain
<1>3. i \in 1..Len(t) /\ i >= from
  BY <1>2
<1>4. Slip(t, u, i)
  <2>1. t \in Seq(Int) /\ t[i] \in 0..9 /\ u = [t EXCEPT ![i] = c] /\ u # t
    BY <1>1, <1>2
  <2>2. i \in 1..Len(t) /\ c \in 0..9
    BY <1>3
  <2> QED BY <2>1, <2>2, SlipMade
<1> QED BY <1>3, <1>4

(* What a document states of its seller has no separators left. *)
LEMMA NodePlain ==
  ASSUME NEW party, PartyRead(party)
  PROVE  LET node == partyNode(party)
         IN Plain(node.legalId) /\ Plain(node.electronicAddress) /\ Plain(node.vatId)
<1>1. party.siret \in Seq(Int) /\ party.siren \in Seq(Int) /\ party.vatId \in Seq(Int)
  BY DEF PartyRead
<1>2. PICK l : l = partyNode(party).legalId /\ Plain(l)
  BY <1>1, LegalIdPlain
<1>3. partyNode(party).electronicAddress = digitsOnly(party.siret)
  BY DEF partyNode, nodeOf
<1>4. partyNode(party).vatId = partyVatId(party, l)
  BY <1>2 DEF partyNode, nodeOf
<1>5. Plain(stripFormatting(party.vatId)) /\ Plain(NoId)
  BY <1>1, StripIsPlain, NoIdPlain
<1>6. Plain(vatNumberFromSiren(l))
  <2>1. CASE validateSiren(l) = "ok"
    BY <1>2, <2>1, VatMade
  <2>2. CASE validateSiren(l) # "ok"
    BY <1>5, <2>2 DEF vatNumberFromSiren
  <2> QED BY <2>1, <2>2
<1>7. Plain(partyVatId(party, l))
  BY <1>5, <1>6 DEF partyVatId
<1> QED BY <1>1, <1>2, <1>3, <1>4, <1>7, DigitsPlain

(* One digit typed wrong in a number that a document states is refused: the keys catch *)
(* every such slip, in any number (identifiers.ts, check-draft.ts).                    *)
THEOREM EverySlipCaught == InputsRead /\ PartiesRead /\ Spec => []SlipsAreCaught
<1> SUFFICES ASSUME InputsRead, PartiesRead PROVE Spec => []SlipsAreCaught
  OBVIOUS
<1>1. FormTyped /\ GeneratedInv /\ FormRead => SlipsAreCaught
  <2> SUFFICES ASSUME FormTyped, GeneratedInv, FormRead, generated # Nothing
               PROVE  SlipsAreCaught
    BY SMTT(30) DEF SlipsAreCaught, JustGenerated
  <2>1. generated.cii = serialiseCii(draft, computeInvoice(draft)) /\ DraftTyped(draft)
    BY GeneratedAccepted
  <2>2. generated.cii.seller = partyNode(draft.seller)
    BY <2>1 DEF serialiseCii
  <2>3. generated.cii.iban = IF Given(draft.iban) THEN stripFormatting(draft.iban) ELSE NoId
    BY <2>1 DEF serialiseCii
  <2>4. PartyRead(draft.seller)
    BY PartyOfDraft
  <2>5. PICK l, a, v, b : /\ l = generated.cii.seller.legalId /\ v = generated.cii.seller.vatId
                          /\ a = generated.cii.seller.electronicAddress /\ b = generated.cii.iban
    OBVIOUS
  <2>6. Plain(l) /\ Plain(a) /\ Plain(v)
    BY <2>2, <2>4, <2>5, NodePlain
  <2>7. Plain(b)
    <3>1. draft.iban \in Seq(Int)
      BY <2>1 DEF DraftTyped
    <3>2. Plain(stripFormatting(draft.iban)) /\ Plain(NoId)
      BY <3>1, StripIsPlain, NoIdPlain
    <3> QED BY <2>3, <2>5, <3>2
  <2>8. 1 \in Nat \ {0} /\ 3 \in Nat \ {0} /\ 5 \in Nat \ {0}
    OBVIOUS
  <2>9. validateSiren(l) = "ok" => \A u \in Slips(l, 1) : validateSiren(u) # "ok"
    BY <2>6, <2>8, SlipOf, SirenSlip
  <2>10. validateSiret(a) = "ok" /\ ~IsPrefix(LA_POSTE_SIREN, a) =>
           \A u \in Slips(a, 1) : ~(validateSiret(u) = "ok" /\ ~IsPrefix(LA_POSTE_SIREN, u))
    BY <2>6, <2>8, SlipOf, SiretSlip
  <2>11. validateFrenchVatNumber(v) = "ok" /\ AllDigits(SubSeq(v, 3, 4)) =>
           \A u \in Slips(v, 3) : validateFrenchVatNumber(u) # "ok"
    <3> SUFFICES ASSUME validateFrenchVatNumber(v) = "ok", AllDigits(SubSeq(v, 3, 4)),
                        NEW u \in Slips(v, 3)
                 PROVE  validateFrenchVatNumber(u) # "ok"
      OBVIOUS
    <3>1. PICK i : Slip(v, u, i) /\ i >= 3
      BY <2>6, <2>8, SlipOf
    <3> QED BY <2>6, <3>1, VatSlip
  <2>12. validateFrenchVatNumber(v) = "ok" =>
           \A u \in Slips(v, 5) : validateFrenchVatNumber(u) # "ok"
    <3> SUFFICES ASSUME validateFrenchVatNumber(v) = "ok",
                        NEW u \in Slips(v, 5)
                 PROVE  validateFrenchVatNumber(u) # "ok"
      OBVIOUS
    <3>1. PICK i : Slip(v, u, i) /\ i >= 5
      BY <2>6, <2>8, SlipOf
    <3> QED BY <2>6, <3>1, VatSlip
  <2>13. isValidIban(b) => \A u \in Slips(b, 1) : ~isValidIban(u)
    BY <2>7, <2>8, SlipOf, IbanSlip
  <2> QED BY <2>5, <2>9, <2>10, <2>11, <2>12, <2>13, SMTT(30) DEF SlipsAreCaught, Slips
<1> QED BY <1>1, GeneratedHolds, ReadHolds, PTL

---------------------------------------------------------------------------
(* A stable sort: each element comes after those of a lower rank, and after those of *)
(* its own that it followed.                                                         *)
Precedes(R, j, i) == R[j] < R[i] \/ (R[j] = R[i] /\ j < i)

Preceding(R, n, i) == {j \in 1..n : Precedes(R, j, i)}

PlacesIn(R, n) == [i \in 1..n |-> Cardinality(Preceding(R, n, i)) + 1]

(* Every place is taken, once, and the places are in order. *)
LEMMA PlacesAreTaken ==
  ASSUME NEW n \in Nat, NEW R \in [1..n -> Nat]
  PROVE  /\ PlacesIn(R, n) \in Bijection(1..n, 1..n)
         /\ \A i, j \in 1..n : Precedes(R, j, i) => PlacesIn(R, n)[j] < PlacesIn(R, n)[i]
<1> DEFINE at == PlacesIn(R, n)
<1>1. IsFiniteSet(1..n) /\ Cardinality(1..n) = n
  BY FS_Interval
<1>2. ASSUME NEW i \in 1..n
      PROVE  /\ IsFiniteSet(Preceding(R, n, i)) /\ at[i] = Cardinality(Preceding(R, n, i)) + 1
             /\ at[i] \in 1..n
  <2>1. Preceding(R, n, i) \in SUBSET ((1..n) \ {i})
    BY DEF Preceding, Precedes
  <2>2. IsFiniteSet((1..n) \ {i}) /\ Cardinality((1..n) \ {i}) = n - 1
    BY <1>1, FS_RemoveElement
  <2>3. /\ IsFiniteSet(Preceding(R, n, i)) /\ Cardinality(Preceding(R, n, i)) \in Nat
        /\ Cardinality(Preceding(R, n, i)) <= n - 1
    BY <2>1, <2>2, FS_Subset, FS_CardinalityType
  <2>4. at[i] = Cardinality(Preceding(R, n, i)) + 1
    BY DEF PlacesIn
  <2> QED BY <2>3, <2>4
<1>3. ASSUME NEW i \in 1..n, NEW j \in 1..n, Precedes(R, j, i)
      PROVE  at[j] < at[i]
  <2>1. Preceding(R, n, j) \in SUBSET Preceding(R, n, i)
    BY <1>3 DEF Preceding, Precedes
  <2>2. j \in Preceding(R, n, i) /\ j \notin Preceding(R, n, j)
    BY <1>3 DEF Preceding, Precedes
  <2>3. /\ Cardinality(Preceding(R, n, j)) <= Cardinality(Preceding(R, n, i))
        /\ Cardinality(Preceding(R, n, j)) # Cardinality(Preceding(R, n, i))
    BY <1>2, <2>1, <2>2, FS_Subset
  <2>4. Cardinality(Preceding(R, n, j)) \in Nat /\ Cardinality(Preceding(R, n, i)) \in Nat
    BY <1>2, FS_CardinalityType
  <2> QED BY <1>2, <2>3, <2>4
<1>4. ASSUME NEW i \in 1..n, NEW j \in 1..n, at[i] = at[j] PROVE i = j
  <2>1. i = j \/ Precedes(R, i, j) \/ Precedes(R, j, i)
    <3>1. R[i] \in Nat /\ R[j] \in Nat
      OBVIOUS
    <3> QED BY <3>1 DEF Precedes
  <2>2. at[i] \in 1..n /\ at[j] \in 1..n
    BY <1>2
  <2> QED BY <1>3, <1>4, <2>1, <2>2
<1>5. at \in [1..n -> 1..n]
  BY <1>2 DEF PlacesIn
<1> HIDE DEF at
<1>6. at \in Injection(1..n, 1..n)
  BY <1>4, <1>5 DEF Injection, IsInjective
<1>7. at \in Surjection(1..n, 1..n)
  BY <1>1, <1>6, FS_Injection
<1>8. at \in Bijection(1..n, 1..n)
  BY <1>6, <1>7 DEF Bijection
<1> QED BY <1>3, <1>8 DEF at

(* As many of a list are selected as there are positions to select. *)
LEMMA SelectedCount ==
  ASSUME NEW T, NEW s \in Seq(T), NEW I \in SUBSET DOMAIN s
  PROVE  IsFiniteSet(I) /\ Len(Selected(s, I)) = Cardinality(I)
<1>1. Len(s) \in Nat /\ DOMAIN s = 1..Len(s)
  BY LenProperties
<1>2. IsFiniteSet(I)
  <2>1. IsFiniteSet(1..Len(s))
    <3>1. Len(s) \in Int /\ 1 \in Int
      BY <1>1
    <3> QED BY ONLY <3>1, FS_Interval
  <2>2. I \in SUBSET (1..Len(s))
    BY <1>1
  <2> QED BY <2>1, <2>2, FS_Subset
<1>20. Positioned(Selected(s, I), s, I)
  BY SelectedPositions
<1>3. PICK m \in 0..Len(s) : \E at \in [1..m -> (1..Len(s)) \cap I] :
        /\ Len(Selected(s, I)) = m /\ Rises(at, m)
        /\ \A p \in (1..Len(s)) \cap I : \E k \in 1..m : at[k] = p
  BY <1>20 DEF Positioned
<1>4. PICK at \in [1..m -> (1..Len(s)) \cap I] :
        /\ Len(Selected(s, I)) = m /\ Rises(at, m)
        /\ \A p \in (1..Len(s)) \cap I : \E k \in 1..m : at[k] = p
  BY <1>3
<1>5. (1..Len(s)) \cap I = I
  BY <1>1
<1>6. m \in Nat
  BY <1>1
<1>7. at \in Injection(1..m, I)
  <2>1. \A j, k \in 1..m : j < k => at[j] < at[k]
    BY <1>4 DEF Rises
  <2>2. \A k \in 1..m : at[k] \in Int
    BY <1>1, <1>4
  <2>3. \A j, k \in 1..m : at[j] = at[k] => j = k
    <3> SUFFICES ASSUME NEW j \in 1..m, NEW k \in 1..m, at[j] = at[k], j # k PROVE FALSE
      OBVIOUS
    <3>1. j < k \/ k < j
      BY <1>6
    <3>2. at[j] < at[k] \/ at[k] < at[j]
      BY <2>1, <3>1
    <3> QED BY <2>2, <3>2
  <2> QED BY <1>4, <1>5, <2>3 DEF Injection, IsInjective
<1>8. at \in Surjection(1..m, I)
  BY <1>4, <1>5 DEF Surjection
<1>9. ExistsBijection(1..m, I)
  BY <1>7, <1>8 DEF ExistsBijection, Bijection
<1>10. IsFiniteSet(1..m) /\ Cardinality(1..m) = m
  BY <1>6, FS_Interval
<1>11. Cardinality(I) = m
  BY <1>9, <1>10, FS_Bijection
<1> QED BY <1>2, <1>4, <1>11

---------------------------------------------------------------------------
(* Where a finding ranks. *)
Rank(f) == 3 * SEVERITY_ORDER[f.severity] + rulesetRank(f)

LEMMA Ranks ==
  ASSUME NEW f, f.severity \in SEVERITY_BY_ELEMENT
  PROVE  SEVERITY_ORDER[f.severity] \in 0..4 /\ rulesetRank(f) \in 0..2 /\ Rank(f) \in Nat
<1>1. SEVERITY_ORDER[f.severity] \in 0..4
  BY DEF SEVERITY_ORDER, SEVERITY_BY_ELEMENT, Errors
<1>2. rulesetRank(f) \in 0..2
  BY DEF rulesetRank
<1> QED BY <1>1, <1>2 DEF Rank

LEMMA Compares ==
  ASSUME NEW f, NEW g, f.severity \in SEVERITY_BY_ELEMENT, g.severity \in SEVERITY_BY_ELEMENT
  PROVE  compareFindings(f, g) <=> Rank(f) < Rank(g)
<1>1. /\ SEVERITY_ORDER[f.severity] \in 0..4 /\ rulesetRank(f) \in 0..2
      /\ SEVERITY_ORDER[g.severity] \in 0..4 /\ rulesetRank(g) \in 0..2
  BY Ranks
<1> QED BY <1>1 DEF compareFindings, Rank

(* What is sorted is what there was, each finding once, in the order of the ranks and, *)
(* of one rank, in the order there was.                                                *)
THEOREM SortedPermutes ==
  ASSUME NEW s, NEW n \in Nat, DOMAIN s = 1..n,
         \A i \in 1..n : s[i].severity \in SEVERITY_BY_ELEMENT
  PROVE  \E p \in Bijection(1..n, 1..n) :
           /\ sorted(s) = [k \in 1..n |-> s[p[k]]]
           /\ \A k, l \in 1..n :
                k < l => \/ Rank(s[p[k]]) < Rank(s[p[l]])
                         \/ Rank(s[p[k]]) = Rank(s[p[l]]) /\ p[k] < p[l]
<1> DEFINE R == [i \in 1..n |-> Rank(s[i])]
           before(j, i) == \/ compareFindings(s[j], s[i])
                           \/ j < i /\ ~compareFindings(s[i], s[j])
           place(i) == Cardinality({j \in DOMAIN s : before(j, i)}) + 1
           p == [k \in 1..n |-> CHOOSE i \in DOMAIN s : place(i) = k]
           at == PlacesIn(R, n)
<1>1. sorted(s) = [k \in 1..n |-> s[p[k]]]
  <2>1. sorted(s) = [k \in DOMAIN s |-> s[CHOOSE i \in DOMAIN s : place(i) = k]]
    BY DEF sorted
  <2> HIDE DEF place
  <2> QED BY <2>1
<1>2. R \in [1..n -> Nat]
  BY Ranks
<1>3. at \in Bijection(1..n, 1..n) /\ \A i, j \in 1..n : Precedes(R, j, i) => at[j] < at[i]
  <2> HIDE DEF R
  <2> QED BY <1>2, PlacesAreTaken
<1>4. ASSUME NEW i \in 1..n PROVE place(i) = at[i]
  <2>1. ASSUME NEW j \in 1..n PROVE before(j, i) <=> Precedes(R, j, i)
    <3>1. /\ s[i].severity \in SEVERITY_BY_ELEMENT /\ s[j].severity \in SEVERITY_BY_ELEMENT
          /\ R[i] = Rank(s[i]) /\ R[j] = Rank(s[j])
      OBVIOUS
    <3>2. Rank(s[i]) \in Nat /\ Rank(s[j]) \in Nat
      BY <3>1, Ranks
    <3>3. /\ compareFindings(s[j], s[i]) <=> Rank(s[j]) < Rank(s[i])
          /\ compareFindings(s[i], s[j]) <=> Rank(s[i]) < Rank(s[j])
      BY <3>1, Compares
    <3> HIDE DEF R
    <3> QED BY <3>1, <3>2, <3>3 DEF Precedes
  <2> HIDE DEF R, before
  <2>2. {j \in DOMAIN s : before(j, i)} = Preceding(R, n, i)
    BY <2>1 DEF Preceding
  <2>3. at[i] = Cardinality(Preceding(R, n, i)) + 1
    BY DEF PlacesIn
  <2> QED BY <2>2, <2>3
<1>10. \A i \in 1..n : R[i] = Rank(s[i]) /\ R[i] \in Nat
  BY <1>2
<1> HIDE DEF at, R, place
<1>5. ASSUME NEW k \in 1..n PROVE p[k] \in 1..n /\ at[p[k]] = k
  <2>1. PICK i \in 1..n : at[i] = k
    BY <1>3 DEF Bijection, Surjection
  <2>2. \E j \in DOMAIN s : place(j) = k
    BY <1>4, <2>1
  <2>3. p[k] \in DOMAIN s /\ place(p[k]) = k
    BY <2>2
  <2> HIDE DEF p
  <2> QED BY <1>4, <2>3
<1>6. p \in [1..n -> 1..n]
  <2>1. p = [k \in 1..n |-> p[k]]
    OBVIOUS
  <2> HIDE DEF p
  <2> QED BY <1>5, <2>1
<1> HIDE DEF p
<1>7. p \in Injection(1..n, 1..n)
  <2>1. \A k, l \in 1..n : p[k] = p[l] => k = l
    BY <1>5
  <2> QED BY <1>6, <2>1 DEF Injection, IsInjective
<1>8. p \in Surjection(1..n, 1..n)
  <2>1. IsFiniteSet(1..n) /\ Cardinality(1..n) = n
    BY FS_Interval
  <2> QED BY <1>7, <2>1, FS_Injection
<1>9. p \in Bijection(1..n, 1..n)
  BY <1>7, <1>8 DEF Bijection
<1>11. ASSUME NEW k \in 1..n, NEW l \in 1..n, k < l
       PROVE  \/ Rank(s[p[k]]) < Rank(s[p[l]])
              \/ Rank(s[p[k]]) = Rank(s[p[l]]) /\ p[k] < p[l]
  <2>1. /\ p[k] \in 1..n /\ p[l] \in 1..n /\ at[p[k]] = k /\ at[p[l]] = l
    BY <1>5
  <2>2. ~Precedes(R, p[l], p[k])
    <3>1. ~(at[p[l]] < at[p[k]])
      BY <1>11, <2>1
    <3> QED BY <1>3, <2>1, <3>1
  <2>3. p[k] # p[l]
    BY <1>11, <2>1
  <2>4. /\ R[p[k]] = Rank(s[p[k]]) /\ R[p[k]] \in Nat
        /\ R[p[l]] = Rank(s[p[l]]) /\ R[p[l]] \in Nat
    BY <1>10, <2>1
  <2>5. ~(R[p[l]] < R[p[k]]) /\ ~(R[p[l]] = R[p[k]] /\ p[l] < p[k])
    BY <2>2 DEF Precedes
  <2> QED BY <2>1, <2>3, <2>4, <2>5
<1> QED BY <1>1, <1>9, <1>11

---------------------------------------------------------------------------
(* How many findings of a list have one of the severities. *)
At(s, severities) == {i \in DOMAIN s : s[i].severity \in severities}

HowMany(s, severities) == Cardinality(At(s, severities))

LEMMA Grouped ==
  ASSUME NEW T, NEW s \in Seq(T), NEW severities
  PROVE  /\ Named(s, severities) \in Seq(T) /\ Len(Named(s, severities)) = HowMany(s, severities)
         /\ IsFiniteSet(At(s, severities)) /\ HowMany(s, severities) \in Nat
<1>1. Named(s, severities) = Selected(s, At(s, severities))
  BY DEF Named, filter, At
<1>2. At(s, severities) \in SUBSET DOMAIN s
  BY DEF At
<1>3. Selected(s, At(s, severities)) \in Seq(T)
  <2> DEFINE I == At(s, severities)
  <2> HIDE DEF I
  <2>1. Selected(s, I) \in Seq(T)
    BY SelectedKept
  <2> QED BY <2>1 DEF I
<1>4. /\ IsFiniteSet(At(s, severities))
      /\ Len(Selected(s, At(s, severities))) = Cardinality(At(s, severities))
  BY <1>2, SelectedCount
<1>5. Cardinality(At(s, severities)) \in Nat
  BY <1>4, FS_CardinalityType
<1> QED BY <1>1, <1>3, <1>4, <1>5 DEF HowMany

(* A list put in another order has as many of each. *)
LEMMA AsMany ==
  ASSUME NEW n \in Nat, NEW s, DOMAIN s = 1..n, NEW t, DOMAIN t = 1..n,
         NEW p \in Bijection(1..n, 1..n), \A k \in 1..n : t[k].severity = s[p[k]].severity,
         NEW severities, IsFiniteSet(At(t, severities))
  PROVE  HowMany(t, severities) = HowMany(s, severities)
<1> DEFINE A == At(t, severities)
           B == At(s, severities)
           q == [k \in A |-> p[k]]
<1>1. /\ p \in [1..n -> 1..n] /\ \A k, l \in 1..n : p[k] = p[l] => k = l
      /\ \A i \in 1..n : \E k \in 1..n : p[k] = i
  BY DEF Bijection, Injection, Surjection, IsInjective
<1>2. A \subseteq 1..n /\ B \subseteq 1..n /\ \A k \in 1..n : k \in A <=> p[k] \in B
  BY <1>1 DEF At
<1>3. q \in [A -> B]
  BY <1>2
<1>4. \A k, l \in A : q[k] = q[l] => k = l
  BY <1>1, <1>2
<1>5. \A i \in B : \E k \in A : q[k] = i
  <2> SUFFICES ASSUME NEW i \in B PROVE \E k \in A : q[k] = i
    OBVIOUS
  <2>1. PICK k \in 1..n : p[k] = i
    BY <1>1, <1>2
  <2>2. k \in A
    BY <1>2, <2>1
  <2> QED BY <2>1, <2>2
<1>6. q \in Bijection(A, B)
  <2> HIDE DEF q, A, B
  <2>1. q \in Injection(A, B)
    BY <1>3, <1>4 DEF Injection, IsInjective
  <2>2. q \in Surjection(A, B)
    BY <1>3, <1>5 DEF Surjection
  <2> QED BY <2>1, <2>2 DEF Bijection
<1>7. ExistsBijection(A, B)
  BY <1>6 DEF ExistsBijection
<1>8. IsFiniteSet(A)
  OBVIOUS
<1> HIDE DEF A, B
<1>9. Cardinality(B) = Cardinality(A)
  BY <1>7, <1>8, FS_Bijection
<1> QED BY <1>9 DEF A, B, HowMany

LEMMA Apart ==
  ASSUME NEW A, NEW B, IsFiniteSet(A), IsFiniteSet(B), A \cap B = {}
  PROVE  /\ IsFiniteSet(A \cup B) /\ Cardinality(A) \in Nat /\ Cardinality(B) \in Nat
         /\ Cardinality(A \cup B) = Cardinality(A) + Cardinality(B)
<1>1. /\ IsFiniteSet(A \cup B)
      /\ Cardinality(A \cup B) = Cardinality(A) + Cardinality(B) - Cardinality(A \cap B)
  BY FS_Union
<1>2. Cardinality(A \cap B) = 0
  BY FS_EmptySet
<1>3. Cardinality(A) \in Nat /\ Cardinality(B) \in Nat
  BY FS_CardinalityType
<1> QED BY <1>1, <1>2, <1>3

(* Each is of one of three kinds. *)
LEMMA EachIsCounted ==
  ASSUME NEW T, NEW s \in Seq(T), \A i \in DOMAIN s : s[i].severity \in SEVERITY_BY_ELEMENT
  PROVE  HowMany(s, Errors) + HowMany(s, {"warning"}) + HowMany(s, {"notice"}) = Len(s)
<1> DEFINE E == At(s, Errors)
           W == At(s, {"warning"})
           N == At(s, {"notice"})
<1>1. IsFiniteSet(E) /\ IsFiniteSet(W) /\ IsFiniteSet(N)
  BY Grouped
<1>2. E \cap W = {} /\ (E \cup W) \cap N = {}
  BY DEF At, Errors
<1>3. (E \cup W) \cup N = DOMAIN s
  BY DEF At, SEVERITY_BY_ELEMENT, Errors
<1>4. DOMAIN s = 1..Len(s) /\ Len(s) \in Nat
  BY LenProperties
<1>5. Cardinality(1..Len(s)) = Len(s)
  <2>1. PICK n \in Nat : n = Len(s)
    BY <1>4
  <2>2. Cardinality(1..n) = n
    BY ONLY n \in Nat, FS_Interval
  <2> QED BY <2>1, <2>2
<1>6. /\ Cardinality(E) \in Nat /\ Cardinality(W) \in Nat /\ IsFiniteSet(E \cup W)
      /\ Cardinality(E \cup W) = Cardinality(E) + Cardinality(W)
  <2> HIDE DEF E, W, N
  <2> QED BY <1>1, <1>2, Apart
<1>7. /\ Cardinality(N) \in Nat
      /\ Cardinality((E \cup W) \cup N) = Cardinality(E \cup W) + Cardinality(N)
  <2> HIDE DEF E, W, N
  <2> QED BY <1>1, <1>2, <1>6, Apart
<1>8. Cardinality(E) + Cardinality(W) + Cardinality(N) = Len(s)
  <2>1. PICK w : w = Cardinality((E \cup W) \cup N)
    OBVIOUS
  <2>2. w = Len(s)
    BY <1>3, <1>4, <1>5, <2>1
  <2> HIDE DEF E, W, N
  <2> QED BY <1>6, <1>7, <2>1, <2>2
<1> QED BY <1>8 DEF HowMany

LEMMA FindingsAreSaid ==
  ASSUME NEW f \in Findings
  PROVE  f.severity \in SEVERITY_BY_ELEMENT
<1>1. CASE f = PdfaFinding
  BY <1>1 DEF PdfaFinding, SEVERITY_BY_ELEMENT, Errors
<1>2. CASE f # PdfaFinding
  <2>1. PICK m \in Said, part \in Parts : f = toFinding(m, part)
    BY <1>2 DEF Findings
  <2> QED BY <2>1 DEF toFinding, Said
<1> QED BY <1>1, <1>2

---------------------------------------------------------------------------
(* What is shown of the findings that apply: each of them, ranked. *)
ShownOf(s) == [i \in DOMAIN sorted(s) |-> findingDto(sorted(s)[i])]

LEMMA ShownCounts ==
  ASSUME NEW s \in Seq(Findings)
  PROVE  /\ ShownOf(s) \in Seq({ShownOf(s)[k] : k \in 1..Len(s)}) /\ Len(ShownOf(s)) = Len(s)
         /\ \A i \in DOMAIN ShownOf(s) : ShownOf(s)[i].severity \in SEVERITY_BY_ELEMENT
         /\ \A severities : HowMany(ShownOf(s), severities) = HowMany(s, severities)
<1>1. PICK n \in Nat : n = Len(s) /\ DOMAIN s = 1..n
  BY LenProperties
<1>2. \A i \in 1..n : s[i].severity \in SEVERITY_BY_ELEMENT
  <2> TAKE i \in 1..n
  <2>1. s[i] \in Findings
    BY <1>1, ElementOfSeq
  <2> QED BY <2>1, FindingsAreSaid
<1>3. PICK p \in Bijection(1..n, 1..n) : sorted(s) = [k \in 1..n |-> s[p[k]]]
  <2>1. DOMAIN s = 1..n
    BY <1>1
  <2> QED BY ONLY n \in Nat, <1>2, <2>1, SortedPermutes
<1>4. \A k \in 1..n : p[k] \in 1..n
  BY DEF Bijection, Injection
<1>5. PICK t : t = ShownOf(s)
  OBVIOUS
<1>6. t = [k \in 1..n |-> findingDto(s[p[k]])]
  BY <1>3, <1>5 DEF ShownOf
<1>7. DOMAIN t = 1..n /\ t = [k \in 1..n |-> t[k]]
  BY <1>6
<1>8. \A k \in 1..n : t[k].severity = s[p[k]].severity
  BY <1>6 DEF findingDto
<1>9. \A k \in 1..n : t[k].severity \in SEVERITY_BY_ELEMENT
  BY <1>2, <1>4, <1>8
<1>10. t \in Seq({t[k] : k \in 1..n}) /\ Len(t) = n
  BY ONLY n \in Nat, <1>7, LengthOf
<1>11. ASSUME NEW severities PROVE HowMany(t, severities) = HowMany(s, severities)
  <2>1. IsFiniteSet(At(t, severities))
    BY <1>10, Grouped
  <2>2. DOMAIN s = 1..n /\ DOMAIN t = 1..n
    BY <1>1, <1>7
  <2> QED BY ONLY n \in Nat, p \in Bijection(1..n, 1..n), <1>8, <2>1, <2>2, AsMany
<1> QED BY <1>1, <1>5, <1>7, <1>9, <1>10, <1>11

(* What the engine reported, if it did. *)
Reported(a) == IF validate(a).report = Nothing THEN <<>> ELSE validate(a).report.findings

LEMMA ReportedTyped ==
  ASSUME NEW a, AnswerFits(a)
  PROVE  Reported(a) \in Seq(Findings) /\ filter(Reported(a), Applies) \in Seq(Findings)
<1>1. Reported(a) \in Seq(Findings)
  <2>1. CASE validate(a).report = Nothing
    BY <2>1, EmptySeq DEF Reported
  <2>2. CASE validate(a).report # Nothing
    <3>1. a \notin EngineErrors /\ validate(a).report = parseMustangReport(a)
      BY <2>2 DEF validate
    <3>2. parseMustangReport(a).findings \in Seq(Findings)
      BY <3>1, EveryPartCollected
    <3> QED BY <2>2, <3>1, <3>2 DEF Reported
  <2> QED BY <2>1, <2>2
<1> DEFINE I == {i \in DOMAIN Reported(a) : Applies(Reported(a)[i])}
<1>2. filter(Reported(a), Applies) = Selected(Reported(a), I)
  BY DEF filter
<1>3. Selected(Reported(a), I) \in Seq(Findings)
  <2> HIDE DEF I
  <2> QED BY <1>1, SelectedKept
<1> QED BY <1>1, <1>2, <1>3

LEMMA CountsAre ==
  ASSUME NEW T, NEW s \in Seq(T)
  PROVE  countsOf(s) = [errors |-> HowMany(s, Errors), warnings |-> HowMany(s, {"warning"}),
                        notices |-> HowMany(s, {"notice"})]
<1>1. \A S : /\ Named(s, S) = filter(s, LAMBDA f : f.severity \in S)
             /\ Len(Named(s, S)) = HowMany(s, S)
  BY Grouped DEF Named
<1> QED BY <1>1 DEF countsOf

(* What an analysis says of the findings. *)
LEMMA FindingsRead ==
  ASSUME NEW file, NEW a, AnswerFits(a), NEW dto, dto = toAnalysisDto(analyze(file, a))
  PROVE  LET s == filter(Reported(a), Applies)
         IN /\ dto.findings = ShownOf(s) /\ dto.counts = countsOf(s)
            /\ dto.verdict = "conforme" => HowMany(s, Errors) = 0
<1> DEFINE s == filter(Reported(a), Applies)
<1>1. PICK result : result = analyze(file, a)
  OBVIOUS
<1>2. PICK kind, pdf, invoice, error : result = joined(kind, pdf, invoice, error, validate(a))
  BY <1>1 DEF analyze, analyzeExtracted, analyzeBytes
<1>3. /\ result.findings = sorted(s) /\ result.counts = countsOf(s)
      /\ result.verdict = verdictOf(validate(a).report)
  BY <1>2 DEF joined, Reported
<1>4. /\ dto.findings = [i \in DOMAIN result.findings |-> findingDto(result.findings[i])]
      /\ dto.counts = result.counts /\ dto.verdict = result.verdict
  BY <1>1 DEF toAnalysisDto
<1>5. ASSUME dto.verdict = "conforme" PROVE HowMany(s, Errors) = 0
  <2>1. validate(a).report # Nothing /\ countsOf(filter(validate(a).report.findings, Applies)).errors = 0
    BY <1>3, <1>4, <1>5 DEF verdictOf
  <2>2. s = filter(validate(a).report.findings, Applies)
    BY <2>1 DEF Reported
  <2>3. s \in Seq(Findings)
    BY ReportedTyped
  <2> HIDE DEF s
  <2>4. countsOf(s).errors = HowMany(s, Errors)
    BY <2>3, CountsAre
  <2> QED BY <2>1, <2>2, <2>4
<1> QED BY <1>3, <1>4, <1>5 DEF ShownOf

---------------------------------------------------------------------------
LEMMA GroupShown ==
  ASSUME NEW T, NEW s \in Seq(T), NEW severities
  PROVE  /\ Len(FindingGroup(Named(s, severities))) = HowMany(s, severities)
         /\ HowMany(s, severities) = 0 => FindingGroup(Named(s, severities)) = <<>>
         /\ Leads(Named(s, severities))
              = [i \in DOMAIN FindingGroup(Named(s, severities)) |->
                   FindingGroup(Named(s, severities))[i].lead]
<1>1. PICK x : x = Named(s, severities)
  OBVIOUS
<1>2. x \in Seq(T) /\ Len(x) = HowMany(s, severities)
  BY <1>1, Grouped
<1>3. PICK n \in Nat : n = Len(x) /\ DOMAIN x = 1..n
  BY <1>2, LenProperties
<1>4. PICK g : g = FindingGroup(x)
  OBVIOUS
<1>5. DOMAIN g = 1..n /\ g = [k \in 1..n |-> g[k]] /\ \A k \in 1..n : g[k] = FindingCard(x[k])
  BY <1>3, <1>4 DEF FindingGroup
<1>6. g \in Seq({g[k] : k \in 1..n}) /\ Len(g) = n
  BY ONLY n \in Nat, <1>5, LengthOf
<1>7. n = 0 => g = <<>>
  BY <1>6, EmptySeq
<1>8. Leads(x) = [i \in DOMAIN g |-> g[i].lead]
  BY <1>3, <1>5 DEF Leads, FindingCard
<1> QED BY <1>1, <1>2, <1>3, <1>4, <1>6, <1>7, <1>8

(* Each finding is in one group of the page, the same in the report, and is counted. *)
LEMMA FindingsListed ==
  ASSUME NEW file, NEW a, AnswerFits(a), analysis = toAnalysisDto(analyze(file, a)),
         NEW page, page = ResultView(analysis), NEW report, report = buildTextReport(analysis)
  PROVE  /\ FindingsAreListed(page, report)
         /\ page.banner.verdict = "conforme" => page.blocking = <<>>
<1> DEFINE s == filter(Reported(a), Applies)
           t == analysis.findings
<1>1. /\ t = ShownOf(s) /\ analysis.counts = countsOf(s)
      /\ analysis.verdict = "conforme" => HowMany(s, Errors) = 0
  BY FindingsRead
<1>2. s \in Seq(Findings)
  BY ReportedTyped
<1> HIDE DEF s
<1>3. /\ t \in Seq({ShownOf(s)[k] : k \in 1..Len(s)})
      /\ \A i \in DOMAIN t : t[i].severity \in SEVERITY_BY_ELEMENT
      /\ \A severities : HowMany(t, severities) = HowMany(s, severities)
  BY <1>1, <1>2, ShownCounts
<1> HIDE DEF t
<1>4. analysis.counts = [errors |-> HowMany(t, Errors), warnings |-> HowMany(t, {"warning"}),
                         notices |-> HowMany(t, {"notice"})]
  BY <1>1, <1>2, <1>3, CountsAre
<1>5. HowMany(t, Errors) + HowMany(t, {"warning"}) + HowMany(t, {"notice"}) = Len(t)
  BY <1>3, EachIsCounted
<1>6. {"error", "fatal", "exception"} = Errors
  BY DEF Errors
<1>7. /\ page.blocking = FindingGroup(Named(t, Errors))
      /\ page.warnings = FindingGroup(Named(t, {"warning"}))
      /\ page.notices = FindingGroup(Named(t, {"notice"}))
      /\ page.banner.counts = analysis.counts
      /\ page.banner.verdict = "conforme" => analysis.verdict = "conforme"
  BY <1>6 DEF ResultView, VerdictBanner, blocking, t
<1>8. report.groups = [blocking |-> Named(t, Errors), warnings |-> Named(t, {"warning"}),
                       notices |-> Named(t, {"notice"})]
  BY <1>6 DEF buildTextReport, ReportGroups, t
<1>9. \A severities :
        /\ Len(FindingGroup(Named(t, severities))) = HowMany(t, severities)
        /\ HowMany(t, severities) = 0 => FindingGroup(Named(t, severities)) = <<>>
        /\ Leads(Named(t, severities))
             = [i \in DOMAIN FindingGroup(Named(t, severities)) |->
                  FindingGroup(Named(t, severities))[i].lead]
  BY <1>3, GroupShown
<1>10. /\ Len(page.blocking) = HowMany(t, Errors)
       /\ Len(page.warnings) = HowMany(t, {"warning"})
       /\ Len(page.notices) = HowMany(t, {"notice"})
  BY <1>7, <1>9
<1>11. \A g \in DOMAIN report.groups : Leads(report.groups[g]) = [i \in DOMAIN page[g] |-> page[g][i].lead]
  <2>1. /\ Leads(Named(t, Errors)) = [i \in DOMAIN page.blocking |-> page.blocking[i].lead]
        /\ Leads(Named(t, {"warning"})) = [i \in DOMAIN page.warnings |-> page.warnings[i].lead]
        /\ Leads(Named(t, {"notice"})) = [i \in DOMAIN page.notices |-> page.notices[i].lead]
    <3>1. \A severities, group : group = FindingGroup(Named(t, severities)) =>
            Leads(Named(t, severities)) = [i \in DOMAIN group |-> group[i].lead]
      BY ONLY <1>9
    <3> QED BY ONLY <1>7, <3>1
  <2> QED BY <1>8, <2>1
<1>12. page.banner.counts = [errors |-> Len(page.blocking), warnings |-> Len(page.warnings),
                             notices |-> Len(page.notices)]
  BY <1>4, <1>7, <1>10
<1>13. Len(page.blocking) + Len(page.warnings) + Len(page.notices) = Len(analysis.findings)
  BY <1>5, <1>10 DEF t
<1>14. FindingsAreListed(page, report)
  BY <1>11, <1>12, <1>13 DEF FindingsAreListed
<1>15. page.banner.verdict = "conforme" => page.blocking = <<>>
  BY <1>1, <1>3, <1>7, <1>9
<1> QED BY <1>14, <1>15

(* Where the engine did not answer, there is no verdict, and no finding. *)
LEMMA NothingWithoutAnswer ==
  ASSUME NEW file, NEW a, a \in EngineErrors, analysis = toAnalysisDto(analyze(file, a)),
         NEW page, page = ResultView(analysis), NEW report, report = buildTextReport(analysis)
  PROVE  /\ page.banner.verdict = "indetermine" /\ page.unavailable /\ report.unavailable
         /\ analysis.findings = <<>>
<1>1. validate(a) = [code |-> a.code, report |-> Nothing]
  BY DEF validate
<1>10. a.code # ""
  <2>1. PICK c \in {"unavailable", "timeout", "too_large", "bad_request", "engine_failure"} :
          a = [code |-> c]
    BY DEF EngineErrors
  <2>2. a.code = c
    BY <2>1
  <2>3. c # ""
    OBVIOUS
  <2> QED BY <2>2, <2>3
<1>11. validate(a).code = a.code /\ validate(a).report = Nothing
  BY <1>1
<1>2. PICK result : result = analyze(file, a)
  OBVIOUS
<1>3. PICK kind, pdf, invoice, error : result = joined(kind, pdf, invoice, error, validate(a))
  BY <1>2 DEF analyze, analyzeExtracted, analyzeBytes
<1>4. result.engineError = a.code /\ result.verdict = "indetermine"
  BY <1>3, <1>11 DEF joined, verdictOf
<1>5. analysis.engineError = result.engineError /\ analysis.verdict = result.verdict
  BY <1>2 DEF toAnalysisDto
<1>6. /\ page.banner.verdict = "indetermine" /\ page.unavailable /\ report.unavailable
  BY <1>4, <1>5, <1>10 DEF ResultView, VerdictBanner, buildTextReport
<1>7. analysis.findings = <<>>
  <2>1. AnswerFits(a)
    BY DEF AnswerFits
  <2>2. Reported(a) = <<>>
    BY <1>11 DEF Reported
  <2>3. PICK s \in Seq(Findings) : s = filter(Reported(a), Applies) /\ analysis.findings = ShownOf(s)
    BY <2>1, FindingsRead, ReportedTyped
  <2>4. Len(s) = 0
    <3> DEFINE I == {i \in DOMAIN Reported(a) : Applies(Reported(a)[i])}
    <3>1. s = Selected(Reported(a), I)
      BY <2>3 DEF filter
    <3>2. Reported(a) \in Seq(Findings) /\ Len(Reported(a)) = 0
      BY <2>2, EmptySeq
    <3>3. Len(Selected(Reported(a), I)) \in 0..Len(Reported(a))
      <4> HIDE DEF I
      <4> QED BY <3>2, SelectedElements
    <3> QED BY <3>1, <3>2, <3>3
  <2>5. Len(ShownOf(s)) = 0 /\ ShownOf(s) \in Seq({ShownOf(s)[k] : k \in 1..Len(s)})
    BY <2>4, ShownCounts
  <2>6. ShownOf(s) = <<>>
    BY <2>5, EmptySeq
  <2> QED BY <2>3, <2>6
<1> QED BY <1>6, <1>7

---------------------------------------------------------------------------
(* What was read is shown, or why nothing was. *)
LEMMA ReadOrWhyNot ==
  ASSUME NothingIsNone, NEW file, NEW a, analysis = toAnalysisDto(analyze(file, a)),
         NEW page, page = ResultView(analysis), NEW report, report = buildTextReport(analysis)
  PROVE  /\ page.invoice = Nothing <=> page.unread # ""
         /\ report.unread = page.unread
<1>1. PICK result : result = analyze(file, a)
  OBVIOUS
<1>2. PICK pdf, bytes, invoice, kind :
        result = joined(kind, pdf, invoice, parseErrorOf(file, pdf, bytes, invoice), validate(a))
  BY <1>1 DEF analyze, analyzeExtracted, analyzeBytes
<1>3. result.invoice = invoice /\ result.parseError = parseErrorOf(file, pdf, bytes, invoice)
  BY <1>2 DEF joined
<1>4. invoice = Nothing <=> parseErrorOf(file, pdf, bytes, invoice) # ""
  BY DEF parseErrorOf
<1>5. \A x : invoiceDto(x) # Nothing /\ InvoiceSummary(x) # Nothing
  <2>1. \A x : "totals" \in DOMAIN invoiceDto(x) /\ "totals" \in DOMAIN InvoiceSummary(x)
    BY DEF invoiceDto, InvoiceSummary
  <2> QED BY <2>1 DEF NothingIsNone
<1>6. /\ analysis.invoice = IF result.invoice = Nothing THEN Nothing ELSE invoiceDto(result.invoice)
      /\ analysis.parseError = result.parseError
  BY <1>1 DEF toAnalysisDto
<1>7. /\ page.invoice = IF analysis.invoice = Nothing THEN Nothing ELSE InvoiceSummary(analysis.invoice)
      /\ page.unread = analysis.parseError /\ report.unread = analysis.parseError
  BY DEF ResultView, buildTextReport
<1>8. page.invoice = Nothing <=> invoice = Nothing
  BY <1>3, <1>5, <1>6, <1>7
<1> QED BY <1>3, <1>4, <1>6, <1>7, <1>8

(* The amounts shown of a document are its own. *)
LEMMA AmountShown ==
  ASSUME NEW t \in MoneyTexts
  PROVE  Cents(amountDto(amount(t))) = Cents(t)
<1>1. PICK d \in Monies : d = amount(t) /\ d.value = Cents(t) /\ IsKnown(amount(t))
  BY ReadAgain
<1>2. amountDto(d) = Written(d)
  BY <1>1, MoneyIsItself DEF amountDto, Written
<1>3. Cents(Written(d)) = d.value
  BY CentsWritten
<1> QED BY <1>1, <1>2, <1>3

LEMMA ShownOfDocument ==
  ASSUME NothingIsNone, DocumentInv, document # Nothing,
         NEW page, page = ResultView(analysis), NEW report, report = buildTextReport(analysis)
  PROVE  DocumentIsShown(page, report)
<1>1. /\ ReadableDocument(document)
      /\ analysis.failedChecks = checkArithmetic(parseCii(document))
      /\ analysis.invoice = invoiceDto(parseCii(document))
  BY ReadOfDocument
<1>2. checkArithmetic(parseCii(document)) = BrokenArithmetic(document)
  BY <1>1, ChecksReadAgain
<1>3. PICK n, m : n \in Nat \ {0} /\ m \in Nat \ {0} /\ ReadableParts(document, n, m)
  BY <1>1 DEF ReadableDocument
<1>4. PICK invoice : invoice = parseCii(document)
  OBVIOUS
<1>5. /\ \A f \in DOMAIN document.totals : invoice.totals[f] = amount(document.totals[f])
      /\ DOMAIN invoice.lines = DOMAIN document.lines
      /\ \A i \in DOMAIN document.lines : invoice.lines[i].netAmount = amount(document.lines[i].lineTotal)
  BY <1>4 DEF parseCii, parseLine
<1>6. PICK dto : dto = analysis.invoice
  OBVIOUS
<1>7. /\ \A f \in ShownTotals : dto.totals[f] = amountDto(invoice.totals[f])
      /\ DOMAIN dto.lines = DOMAIN invoice.lines
      /\ \A i \in DOMAIN invoice.lines : dto.lines[i].netAmount = amountDto(invoice.lines[i].netAmount)
      /\ "totals" \in DOMAIN dto
  BY <1>1, <1>4, <1>6 DEF invoiceDto
<1>8. dto # Nothing
  BY <1>7 DEF NothingIsNone
<1>9. /\ page.invoice = InvoiceSummary(dto) /\ page.checks.allGood = (analysis.failedChecks = {})
      /\ report.ko = analysis.failedChecks /\ \A f \in TotalsRead : report.totals[f] = dto.totals[f]
  BY <1>6, <1>8 DEF ResultView, buildTextReport, ChecksPanel
<1>10. /\ \A f \in TotalsRead : page.invoice.totals[f] = dto.totals[f]
       /\ \A i \in DOMAIN dto.lines : page.invoice.lines[i].netAmount = dto.lines[i].netAmount
  BY <1>9 DEF InvoiceSummary
<1>11. \A f \in TotalsRead : /\ Cents(page.invoice.totals[f]) = Cents(document.totals[f])
                             /\ report.totals[f] = page.invoice.totals[f]
  <2> TAKE f \in TotalsRead
  <2>1. f \in ShownTotals /\ f \in DOMAIN document.totals /\ document.totals[f] \in MoneyTexts
    BY <1>3 DEF TotalsRead, ShownTotals, StatedTotals, ReadableParts
  <2> QED BY <1>5, <1>7, <1>9, <1>10, <2>1, AmountShown
<1>12. \A i \in DOMAIN document.lines :
         Cents(page.invoice.lines[i].netAmount) = Cents(document.lines[i].lineTotal)
  <2> TAKE i \in DOMAIN document.lines
  <2>1. document.lines[i].lineTotal \in MoneyTexts
    BY <1>3 DEF ReadableParts
  <2> QED BY <1>5, <1>7, <1>10, <2>1, AmountShown
<1> QED BY <1>1, <1>2, <1>9, <1>11, <1>12 DEF DocumentIsShown

(* The page and the report kept of it say the same of any file and any answer: every *)
(* finding in one group, as many as are announced; nothing blocking where a document *)
(* is said to conform; no verdict and no finding where the engine did not answer;    *)
(* what was read, or why nothing was; and of a document of ours, its own amounts     *)
(* (analyze.ts, serialize.ts, report.ts).                                            *)
THEOREM ShownAsJudged == InputsRead /\ NothingIsNone /\ Spec => []ReadAsJudged
<1> SUFFICES ASSUME InputsRead, NothingIsNone PROVE Spec => []ReadAsJudged
  OBVIOUS
<1>1. JudgedInv /\ DocumentInv => ReadAsJudged
  <2> SUFFICES ASSUME JudgedInv, DocumentInv, analysis # Nothing,
                      NEW page, page = ResultView(analysis),
                      NEW report, report = buildTextReport(analysis)
               PROVE  ReadAs(page, report)
    BY DEF ReadAsJudged
  <2>1. PICK file : AnswerFits(answer) /\ analysis = toAnalysisDto(analyze(file, answer))
    BY DEF JudgedInv
  <2>2. /\ FindingsAreListed(page, report)
        /\ page.banner.verdict = "conforme" => page.blocking = <<>>
    BY <2>1, FindingsListed
  <2>3. answer \in EngineErrors =>
          /\ page.banner.verdict = "indetermine" /\ page.unavailable /\ report.unavailable
          /\ analysis.findings = <<>>
    BY <2>1, NothingWithoutAnswer
  <2>4. (page.invoice = Nothing) = (page.unread # "") /\ report.unread = page.unread
    BY <2>1, ReadOrWhyNot
  <2>5. document # Nothing => DocumentIsShown(page, report)
    BY ShownOfDocument
  <2> QED BY <2>2, <2>3, <2>4, <2>5 DEF ReadAs
<1> QED BY <1>1, JudgedHolds, DocumentHolds, PTL
=============================================================================

------------------------------ MODULE PdfPage ------------------------------
(***************************************************************************)
(* The page a person reads (generate/pdf.ts): where its rows fall and      *)
(* where a page ends, and the amounts it prints.  Heights are in points;   *)
(* that of a sheet is rounded down, which no comparison below can tell.    *)
(* The pen is the page it is on, how far up it is, and what it has drawn.  *)
(***************************************************************************)
EXTENDS Draft

CONSTANT LongRows                 \* the rows a long name or description wraps to
ASSUME LongRowsAssumption == LongRows \in Nat \ {0}

SheetHeight == 841
MARGIN == 50
FOOTER_HEIGHT == 74
Foot == MARGIN + FOOTER_HEIGHT

\* A text is wrapped to its column: one row, unless it is a long one.
wrap(t) == IF t = "long" THEN LongRows ELSE 1

FirstPage == [page |-> 1, y |-> SheetHeight - MARGIN, drawn |-> {}]
newPage(pen) == [pen EXCEPT !.page = @ + 1, !.y = SheetHeight - MARGIN]
Down(pen, points) == [pen EXCEPT !.y = @ - points]
Mark(pen, what) ==
    [pen EXCEPT !.drawn = @ \cup {[page |-> pen.page, y |-> pen.y, what |-> what]}]

drawHeader(pen) == Down(pen, 72)
drawTableHead(pen) == Down(pen, 18)

\* What a new sheet has for rows, between the head of its table and its foot.
SheetRoom == SheetHeight - MARGIN - 72 - 18 - Foot

\* A block has its name, its street, its town, and the numbers it states.
PartyRows(party) ==
    Cardinality({f \in {"line1", "city", "siret", "vatId"} :
                   IF f \in {"siret", "vatId"} THEN Given(party[f]) ELSE IsStated(party[f])})

drawParties(pen, draft) ==
    LET rows == Max({PartyRows(draft.seller), PartyRows(draft.buyer)})
        references == Cardinality({f \in {"buyerReference", "purchaseOrderReference"} : IsStated(draft[f])})
    IN Down(pen, 37 + 11 * rows + (IF references = 0 THEN 0 ELSE 11 * references + 6))

DescriptionRows(line) ==
    IF IsStated(line.source.description) THEN wrap(line.source.description) ELSE 0

\* Mutation: the height of a row forgets the description under the name.
NameHeight(line) == 11 * wrap(line.source.name) + 7

RowHeight(line) == 11 * wrap(line.source.name) + 9 * DescriptionRows(line) + 7

\* A row that would reach the foot starts the next page, and is drawn there whole,
\* whatever its height.
drawLine(pen, line) ==
    LET names == wrap(line.source.name)
        descriptions == DescriptionRows(line)
        height == RowHeight(line)
        top == IF pen.y - height < Foot THEN drawTableHead(drawHeader(newPage(pen))) ELSE pen
        drop == IF descriptions = 0 THEN 11 * (names - 1) ELSE 11 * names + 9 * (descriptions - 1)
        last == Mark(Down(Mark(top, line.lineId), drop), line.lineId)
    IN Down(last, height - drop)

\* The rows of the totals, a row of VAT for each group.
TotalRows(computed) ==
    <<computed.totals.lineTotalAmount>>
    \o [k \in DOMAIN computed.taxGroups |-> computed.taxGroups[k].calculatedAmount]
    \o <<computed.totals.grandTotalAmount>>
    \o (IF IsZero(computed.totals.prepaidAmount) THEN <<>> ELSE <<computed.totals.prepaidAmount>>)
    \o <<computed.totals.duePayableAmount>>

Reasons(computed) ==
    {computed.taxGroups[k].exemptionReason : k \in DOMAIN computed.taxGroups} \ {Absent, ""}

TotalsStart(pen, computed) ==
    IF pen.y - (15 * Len(TotalRows(computed)) + 30) < Foot THEN drawHeader(newPage(pen)) ELSE pen

\* Rows of so many points, from the pen down.
drawRows(pen, count, points) ==
    [pen EXCEPT !.y = @ - points * count,
                !.drawn = @ \cup {[page |-> pen.page, y |-> pen.y - points * i, what |-> 0] :
                                     i \in 0..(count - 1)}]

\* The last row of the totals is 18 points high, the others 14; a reason is 11 points
\* high, 4 below what is above it.
drawTotals(pen, draft, computed) ==
    LET totals == Down(drawRows(Down(TotalsStart(pen, computed), 12), Len(TotalRows(computed)), 14), 4)
        reasons == Down(drawRows(Down(totals, 4), Cardinality(Reasons(computed)), 15), 4)
        account == IF Given(draft.iban) THEN Down(Mark(reasons, 0), 11) ELSE reasons
    IN IF IsStated(draft.paymentTerms) THEN Down(Mark(account, 0), 11) ELSE account

renderPage(draft, computed) ==
    drawTotals(FoldLeft(drawLine, drawTableHead(drawParties(drawHeader(FirstPage), draft)), computed.lines),
               draft, computed)

\* The notes are on every page, from the top of its foot down.
drawFooters(pages, notes) ==
    [page \in 1..pages |-> [i \in DOMAIN notes |-> Foot - 24 - 9 * (i - 1)]]

\* What is printed: where, the amounts at two decimals, and the notes of the draft.
renderPdfA3(draft, computed) ==
    LET last == renderPage(draft, computed)
    IN [drawn |-> last.drawn,
        lineAmounts |-> [i \in DOMAIN computed.lines |-> Written(computed.lines[i].netAmount)],
        totals |-> [i \in DOMAIN TotalRows(computed) |-> Written(TotalRows(computed)[i])],
        footers |-> drawFooters(last.page, draft.notes)]
=============================================================================

----------------------------- MODULE Arithmetic ----------------------------
(***************************************************************************)
(* The arithmetic checks made on an invoice that was read (checks.ts): the *)
(* totals against what they should add up to, the VAT of each rate, and    *)
(* the lines a wrong total points at.  A check one of whose amounts is     *)
(* missing passes: the missing amount is the engine's to report.           *)
(***************************************************************************)
EXTENDS Cii

IsKnown(d) == d # NoAmount

\* Mutation: a cent of difference is tolerated.
checkLoosely(declared, computed) ==
    IsKnown(declared) /\ IsKnown(computed) => ~Less(Dec(1, 2), Abs(Minus(declared, computed)))

\* The scale of an amount may be anything: amounts agree once rounded.
check(declared, computed) ==
    IsKnown(declared) /\ IsKnown(computed) => SameMoney(declared, computed)

KnownAmounts(invoice) ==
    filter([i \in DOMAIN invoice.lines |-> invoice.lines[i].netAmount], IsKnown)

OrZero(d) == IF IsKnown(d) THEN d ELSE Zero

lineTotalCheck(invoice) ==
    check(invoice.totals.lineTotalAmount,
          IF invoice.lines = <<>> THEN NoAmount ELSE Total(KnownAmounts(invoice)))

taxBasisCheck(totals) ==
    check(totals.taxBasisTotalAmount,
          IF ~IsKnown(totals.lineTotalAmount) THEN NoAmount
          ELSE Plus(Minus(totals.lineTotalAmount, OrZero(totals.allowanceTotalAmount)),
                    OrZero(totals.chargeTotalAmount)))

taxTotalCheck(invoice) ==
    LET taxes == filter([k \in DOMAIN invoice.taxBreakdown |->
                           invoice.taxBreakdown[k].calculatedAmount], IsKnown)
    IN check(invoice.totals.taxTotalAmount,
             IF invoice.taxBreakdown = <<>> THEN NoAmount ELSE Total(taxes))

grandTotalCheck(totals) ==
    check(totals.grandTotalAmount,
          IF IsKnown(totals.taxBasisTotalAmount) /\ IsKnown(totals.taxTotalAmount)
          THEN Plus(totals.taxBasisTotalAmount, totals.taxTotalAmount) ELSE NoAmount)

\* MINIMUM cannot state what was paid already, so the amount due is not checked.
dueCheck(invoice) ==
    check(invoice.totals.duePayableAmount,
          IF profileCanExpressPrepaidAmount(invoice.profile) /\ IsKnown(invoice.totals.grandTotalAmount)
          THEN Minus(invoice.totals.grandTotalAmount, OrZero(invoice.totals.prepaidAmount))
          ELSE NoAmount)

vatRateCheck(entry) ==
    IsKnown(entry.basisAmount) /\ IsKnown(entry.ratePercent) =>
       check(entry.calculatedAmount,
             LET product == Times(entry.basisAmount, entry.ratePercent)
             IN Rescale(Dec(product.value, product.scale + 2), MonetaryScale))

\* The rules an invoice fails.
checkArithmetic(invoice) ==
    {r \in {"BR-CO-10", "BR-CO-13", "BR-CO-14", "BR-CO-15", "BR-CO-16", "BR-CO-17"} :
       \/ r = "BR-CO-10" /\ ~lineTotalCheck(invoice)
       \/ r = "BR-CO-13" /\ ~taxBasisCheck(invoice.totals)
       \/ r = "BR-CO-14" /\ ~taxTotalCheck(invoice)
       \/ r = "BR-CO-15" /\ ~grandTotalCheck(invoice.totals)
       \/ r = "BR-CO-16" /\ ~dueCheck(invoice)
       \/ r = "BR-CO-17" /\ \E k \in DOMAIN invoice.taxBreakdown : ~vatRateCheck(invoice.taxBreakdown[k])}

\* Mutation: the sign of the line's amount is kept.
IsWholeSigned(netAmount, difference) == SameMoney(netAmount, Abs(difference))

IsWhole(netAmount, difference) == SameMoney(Abs(netAmount), Abs(difference))

\* A line whose amount is the whole difference was left out, or counted twice.
suspectLinesForLineTotal(invoice) ==
    LET difference == Minus(Total(KnownAmounts(invoice)), invoice.totals.lineTotalAmount)
    IN IF ~IsKnown(invoice.totals.lineTotalAmount) \/ KnownAmounts(invoice) = <<>> THEN {}
       ELSE IF IsZero(difference) THEN {}
       ELSE {invoice.lines[i].id :
               i \in {j \in DOMAIN invoice.lines :
                        /\ IsKnown(invoice.lines[j].netAmount)
                        /\ IsWhole(invoice.lines[j].netAmount, difference)}}
=============================================================================

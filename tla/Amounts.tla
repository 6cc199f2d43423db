------------------------------- MODULE Amounts -------------------------------
(***************************************************************************)
(* Numbers as invoices write them and as parse_decimal reads them, and the *)
(* two checks on what was read: the gate on the lines and the              *)
(* reconciliation of the totals (documents/common.py,                      *)
(* documents/extraction_quality.py, utils/money.py).  Amounts are whole    *)
(* thousandths.                                                            *)
(***************************************************************************)
EXTENDS Integers, FiniteSets, SequencesExt, FiniteSetsExt

CONSTANTS
    None,        \* a cell that is empty, an amount that is absent
    Malformed    \* a cell without a digit; the ValueError of parse_decimal

One == 1000
Tolerance == One \div 100       \* MONEY_QUANTUM
Near(a, b, distance) == a - b <= distance /\ b - a <= distance

\* A written number is its sign, its groups of digits, each with a width and a
\* value, and the marks between them.
Mark == {",", "."}
Widths == 0..5      \* bound: on the digits of a group, TLC's integers have 32 bits
Group == [width : Widths, value : Nat]
Numeral == [negative : BOOLEAN, groups : Seq(Group) \ {<<>>}, marks : Seq(Mark)]
Cell == {None, Malformed} \cup Numeral
Amount == Int \cup {None}

ASSUME AmountAssumption ==
    None # Malformed /\ \A absent \in {None, Malformed} : absent \notin Int /\ absent \notin Numeral

-----------------------------------------------------------------------------
(* parse_decimal *)

Number(groups) == FoldLeft(LAMBDA n, group : n * 10^group.width + group.value, 0, groups)

\* The digits behind the decimal mark.
Fraction(group) == (One * group.value) \div 10^group.width

Signed(numeral, amount) == IF numeral.negative THEN -amount ELSE amount

\* Mutant: a comma always separates thousands.
ThousandsByComma(numeral) == Len(numeral.marks) > 0 /\ ToSet(numeral.marks) = {","}

\* One kind of mark, at least twice, and three digits after each.
Thousands(numeral) ==
    /\ Len(numeral.marks) > 1
    /\ ToSet(numeral.marks) = {Last(numeral.marks)}
    /\ \A i \in 2..Len(numeral.groups) : numeral.groups[i].width = 3

\* The right-most mark is the decimal mark, if it occurs once.
Decimal(numeral) ==
    Cardinality({i \in DOMAIN numeral.marks : numeral.marks[i] = Last(numeral.marks)}) = 1

\* 1,234: a thousand to one partner and a fraction to another.
LoneThousands(numeral) == Len(numeral.marks) = 1 /\ Last(numeral.groups).width = 3

ParseDecimal(cell) ==
    IF cell \in {None, Malformed} THEN cell
    ELSE IF cell.marks = <<>> \/ Thousands(cell) THEN Signed(cell, One * Number(cell.groups))
    ELSE IF Decimal(cell)
         THEN Signed(cell, One * Number(Front(cell.groups)) + Fraction(Last(cell.groups)))
         ELSE Malformed

\* How a number is meant: one mark between thousands, three digits behind each, and the
\* other before a fraction, if there is one.
Legible(cell, amount) ==
    /\ cell \in Numeral
    /\ Len(cell.groups) = Len(cell.marks) + 1
    /\ \E thousands, decimal \in Mark :
          LET last == Len(cell.marks)
              Grouped(n) == \A i \in 1..n :
                               cell.marks[i] = thousands /\ cell.groups[i + 1].width = 3
          IN \/ Grouped(last) /\ amount = Signed(cell, One * Number(cell.groups))
             \/ /\ last > 0 /\ thousands # decimal
                /\ Grouped(last - 1) /\ cell.marks[last] = decimal
                /\ amount = Signed(cell, One * Number(Front(cell.groups)) + Fraction(Last(cell.groups)))

\* Digits that only a space separates are one number.
Joined(a, b) ==
    LET left == Last(a.groups)
        right == Head(b.groups)
    IN [negative |-> a.negative,
        groups   |-> Front(a.groups) \o
                     << [width |-> left.width + right.width,
                         value |-> left.value * 10^right.width + right.value] >> \o
                     Tail(b.groups),
        marks    |-> a.marks \o b.marks]

-----------------------------------------------------------------------------
(* validate_extraction_quality *)

\* To the thousandth; the code multiplies exactly.
Times(a, b) == (a \div One) * b + ((a % One) * b) \div One

\* Half-up to the cent.
Money(amount) ==
    LET half == Tolerance \div 2 IN
    IF amount >= 0 THEN ((amount + half) \div Tolerance) * Tolerance
                   ELSE -(((half - amount) \div Tolerance) * Tolerance)

WithTotal(lines) == {i \in DOMAIN lines : lines[i].total # None}
Complete(lines) ==
    {i \in WithTotal(lines) : lines[i].quantity # None /\ lines[i].unit_price # None}
Invalid(lines) ==
    {i \in Complete(lines) :
        ~Near(Times(lines[i].quantity, lines[i].unit_price), lines[i].total, Tolerance)}
Sum(lines) == MapThenSumSet(LAMBDA i : lines[i].total, WithTotal(lines))

\* Mutant: the difference is compared without its absolute value.
OneSidedMismatch(lines, declared) ==
    /\ declared # None
    /\ WithTotal(lines) # {}
    /\ Money(Sum(lines)) - declared > Tolerance

\* subtotal_matches is False.
SubtotalMismatch(lines, declared) ==
    /\ declared # None
    /\ WithTotal(lines) # {}
    /\ ~Near(Money(Sum(lines)), declared, Tolerance)

Quality(lines, declared) ==
    IF lines = <<>> \/ Invalid(lines) # {} \/ SubtotalMismatch(lines, declared) THEN "FAIL"
    ELSE IF Complete(lines) = {} THEN "WARN" ELSE "PASS"

-----------------------------------------------------------------------------
(* validate_financial_quality: f is the InvoiceFinancials of the document *)

OrZero(amount) == IF amount = None THEN 0 ELSE amount

\* What a document must state for a check, and whether it then holds.
Stated(f, fields) == \A field \in fields : f[field] # None

DiscountStated(f) == Stated(f, {"subtotal", "discount", "after"})
DiscountHolds(f) == Near(f.subtotal - f.discount, f.after, Tolerance)

TaxStated(f) == Stated(f, {"after", "rate", "tax"})
TaxHolds(f) == Near(Times(f.rate, f.after) \div 100, f.tax, Tolerance)

DueStated(f) == Stated(f, {"due", "tax"}) /\ (f.after # None \/ f.subtotal # None)
Base(f) == IF f.after # None THEN f.after ELSE f.subtotal - OrZero(f.discount)

\* Mutant: shipping is left out of the amount due.
DueWithoutShipping(f) == Near(Base(f) + f.tax, f.due, Tolerance)
DueHolds(f) == Near(Base(f) + f.tax + OrZero(f.shipping), f.due, Tolerance)

FinancialQuality(f) ==
    IF \/ DiscountStated(f) /\ ~DiscountHolds(f)
       \/ TaxStated(f) /\ ~TaxHolds(f)
       \/ DueStated(f) /\ ~DueHolds(f)
    THEN "FAIL"
    ELSE IF DiscountStated(f) \/ TaxStated(f) \/ DueStated(f) THEN "PASS" ELSE "WARN"
=============================================================================

------------------------------ MODULE MCReading ------------------------------
(* Small instances of Reading. *)
EXTENDS Reading

\* A number of up to six digits before the mark and two behind it.
Write(amount, thousands, decimal) ==
    LET whole  == amount \div One
        groups == IF whole < One THEN << [width |-> 1, value |-> whole] >>
                  ELSE << [width |-> 1, value |-> whole \div One],
                          [width |-> 3, value |-> whole % One] >>
        cents  == (amount % One) \div 10
    IN [negative |-> FALSE,
        groups   |-> groups \o IF decimal = "none" THEN <<>>
                               ELSE << [width |-> 2, value |-> cents] >>,
        marks    |-> [i \in 1..Len(groups) - 1 |-> thousands] \o
                     IF decimal = "none" THEN <<>> ELSE << decimal >>]
American(amount) == Write(amount, ",", ".")
European(amount) == Write(amount, ".", ",")
\* Without cents.
Short(amount) == Write(amount, ",", "none")
\* Two decimal marks.
Damaged(amount) == Write(amount, ".", ".")
\* A leading digit that a scanner took for a letter is dropped.
Smudged(amount) == American(amount % (100 * One))
Negative(numeral) == [numeral EXCEPT !.negative = TRUE]
\* 1.000.005
Million == [negative |-> FALSE, marks |-> <<".", ".">>,
            groups |-> << [width |-> 1, value |-> 1], [width |-> 3, value |-> 0],
                          [width |-> 3, value |-> 5] >>]

RowOf(label, q, u, t, cells, clean) ==
    [label |-> label, clean |-> clean,
     meant |-> [quantity |-> q * One, unit_price |-> u, total |-> t],
     cells |-> [quantity |-> cells[1], unit_price |-> cells[2], total |-> cells[3]]]

Header == RowOf("header", 0, 0, 0, <<None, None, None>>, TRUE)
Stop == RowOf("stop", 0, 0, 0, <<None, None, American(5000)>>, TRUE)
Big(way(_)) == RowOf("plain", 2, 617250, 1234500,
                     <<Short(2000), way(617250), way(1234500)>>, TRUE)
Whole == RowOf("plain", 1, 1234000, 1234000,
               <<Short(1000), Short(1234000), Short(1234000)>>, TRUE)
Broken(total) == RowOf("plain", 2, 617250, 1234500,
                       <<Short(2000), American(617250), total>>, FALSE)
Credit == RowOf("plain", 1, -5000, -5000,
                <<Short(1000), Negative(American(5000)), Negative(American(5000))>>, TRUE)
Five(label) == RowOf(label, 1, 5000, 5000,
                     <<Short(1000), American(5000), American(5000)>>, TRUE)
\* Two sold, one of them back: a negative quantity after a number.
Returned == RowOf("numbered", -1, 5000, -5000,
                  <<Negative(Short(1000)), American(5000), Negative(American(5000))>>, TRUE)
Unpriced == RowOf("plain", 0, 0, 5000, <<None, None, American(5000)>>, TRUE)
Lump == RowOf("plain", 0, 0, 1000005000, <<None, None, Million>>, TRUE)

RowsOf == [format \in Formats |->
    {Big(American), Broken(Damaged(1234500)), Five("shipping_box")} \cup
    CASE format = "delimited" -> {Header, Broken(Malformed), Broken(Smudged(1234500)), Big(European), Whole, Lump}
      [] format = "sheet"     -> {Credit, Unpriced, Stop}
      [] format = "json"      -> {Big(European), Whole, Lump}
      [] format = "text"      -> {Header, Broken(Smudged(1234500)), Five("numbered"), Returned}
      [] format = "column"    -> {Header, Unpriced, Five("numbered")}]
MCRows(format) == RowsOf[format]

\* A PDF needs a row for its header.
MCMaxRows(format) == IF format \in {"text", "column"} THEN 4 ELSE 3

MCWritten(amount) == {American(amount), Damaged(amount)}

\* The products of a document as they are written, or some of them, in its
\* order; with the last of them twice; with one that is not there; or written
\* anew.  The subtotal is none, the right one or that of these lines.
MCAnswers(document) ==
    LET products == {i \in DOMAIN document.rows : IsProduct(document.rows[i])}
        Cells(some) == LET at == SetToSortSeq(some, <) IN
                       [i \in DOMAIN at |-> document.rows[at[i]].cells]
        Anew(amount) == IF amount < 0 THEN Negative(American(-amount)) ELSE American(amount)
        all == Cells(products)
        meant == LET at == SetToSortSeq(products, <) IN
                 [i \in DOMAIN at |-> [field \in Fields |-> Anew(document.rows[at[i]].meant[field])]]
        answers == {Cells(some) : some \in SUBSET products} \cup
                   {meant, Append(all, Five("plain").cells)} \cup
                   (IF all = <<>> THEN {} ELSE {Append(all, Last(all))})
        Amounts(cells) == {i \in DOMAIN cells : ParseDecimal(cells[i].total) \in Int}
        Added(cells) == MapThenSumSet(LAMBDA i : ParseDecimal(cells[i].total), Amounts(cells))
    IN UNION {{[lines |-> cells, subtotal |-> subtotal] :
                  subtotal \in {None, document.owed, Added(cells)}} : cells \in answers \ {<<>>}}

Totals(discount, after, rate, tax, shipping, due) ==
    [subtotal |-> None, discount |-> discount, after |-> after, rate |-> rate, tax |-> tax,
     shipping |-> shipping, due |-> due]

Unstated == Totals(None, None, None, None, None, None)

\* Around a subtotal of 5.00: all of it, right, then with a shipping that was
\* forgotten; a cent off twice; and without the discounted subtotal.
MCFinancials(subtotal) ==
    IF subtotal # 5000 THEN {Unstated}
    ELSE {Unstated,
          Totals(1000, 4000, 10000, 400, 2000, 6400),
          Totals(1000, 4000, 10000, 400, 2000, 4400),
          Totals(1010, 4000, 10000, 400, None, 4410),
          Totals(1000, None, None, 400, 2000, 6400)}
=============================================================================

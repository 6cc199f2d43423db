------------------------------- MODULE Reading -------------------------------
(***************************************************************************)
(* How an invoice that a partner wrote becomes the lines that are          *)
(* canonicalized: a parser reads its rows one after another, the gate      *)
(* checks what it read, and when either refuses a model is asked for the   *)
(* lines if one is configured (the parsers of infrastructure/documents and *)
(* IngestionService._parse_with_fallback).  The partner's side is modelled *)
(* with it, so that what was read can be compared with what was written.   *)
(***************************************************************************)
EXTENDS Amounts

CONSTANTS
    Format,         \* those of this instance, out of Formats
    Rows(_),        \* the rows other than subtotals a document of that format may have
    Written(_),     \* the ways a partner may write an amount
    Answers(_),     \* what a model may answer when it is asked about a document
    Financials(_),  \* the other totals that may stand beside a subtotal
    MaxRows(_),     \* the most rows of a document of that format
    MaxOwed         \* bound on the sum of the rows: TLC's integers have 32 bits

\* delimited: CSV and TXT; sheet: XLSX and DOCX; text: PDF, one row per line
\* of text; column: PDF, one cell per line of text.
Formats == {"delimited", "sheet", "json", "text", "column"}
ASSUME FormatAssumption == Format \subseteq Formats
ASSUME BoundAssumption == MaxOwed \in Nat /\ \A format \in Format : MaxRows(format) \in Nat

VARIABLES
    page,       \* the document: its format, its rows, and what the rows add up to
    reader      \* the reading of it

vars == <<page, reader>>

Fields == {"quantity", "unit_price", "total"}

Names == {"subtotal", "discount", "after", "rate", "tax", "shipping", "due"}

\* plain, numbered (a description that ends in a number) and shipping_box (one
\* that begins with a stop word) are products; stop is a discount, tax or
\* shipping row.
Labels == {"header", "plain", "numbered", "shipping_box", "subtotal", "stop"}
IsProduct(row) == row.label \in {"plain", "numbered", "shipping_box"}
Stops(row) == row.label \in {"shipping_box", "subtotal", "stop"}

\* What is written in a row is a cell, and what is clean is legible.
ASSUME RowAssumption ==
    \A format \in Format : \A row \in Rows(format) :
        /\ row \in [label : Labels \ {"subtotal"}, clean : BOOLEAN,
                    cells : [Fields -> Cell], meant : [Fields -> Int]]
        /\ row.clean /\ IsProduct(row) =>
              \A field \in Fields :
                  row.cells[field] = None \/ Legible(row.cells[field], row.meant[field])

Products == {i \in DOMAIN page.rows : IsProduct(page.rows[i])}
Subtotals == {i \in DOMAIN page.rows : page.rows[i].label = "subtotal"}

\* A line that was read, and the row it was read from; 0 if a model says it.
LineOf(row, cells) ==
    [row |-> row, quantity |-> ParseDecimal(cells.quantity),
     unit_price |-> ParseDecimal(cells.unit_price), total |-> ParseDecimal(cells.total)]

\* Mutant: the total is taken as it comes.
RaisesOnFactors(line) == Malformed \in {line.quantity, line.unit_price}

\* The ValueError of parse_decimal.
Raises(line) == \E field \in Fields : line[field] = Malformed

NoTotals == [name \in Names |-> None]

\* by: who reads; at: the next row, or the next cell of a column; inside: past
\* the header of the table; ended: by a stop word.
Unread == [step |-> "writing", by |-> "parser", at |-> 1, inside |-> FALSE, ended |-> FALSE,
           declared |-> None, lines |-> <<>>, quality |-> "none",
           totals |-> NoTotals, financial |-> "none"]

Reads(step) == reader.step = step
Go(step) == reader' = [reader EXCEPT !.step = step]

-----------------------------------------------------------------------------
(* The partner *)

WriteRow(row) ==
    /\ Reads("writing")
    /\ Len(page.rows) < MaxRows(page.format)
    /\ page.owed + row.meant.total \in 0..MaxOwed
    /\ page' = [page EXCEPT !.rows = Append(@, row), !.owed = @ + row.meant.total]
    /\ UNCHANGED reader

\* A partner's subtotal is right, however it is written.
WriteSubtotal(cell) ==
    /\ Reads("writing")
    /\ Len(page.rows) < MaxRows(page.format)
    /\ page' = [page EXCEPT !.rows = Append(@,
                   [label |-> "subtotal", clean |-> TRUE,
                    cells |-> [quantity |-> None, unit_price |-> None, total |-> cell],
                    meant |-> [quantity |-> 0, unit_price |-> 0, total |-> 0]])]
    /\ UNCHANGED reader

-----------------------------------------------------------------------------
(* The subtotal a reader takes from the document *)

Declared(i) == ParseDecimal(page.rows[i].cells.total)

\* A table keeps the last row of a key, and its ValueError is not caught.
TableSubtotal == IF Subtotals = {} THEN None ELSE Declared(Max(Subtotals))

\* A text shows the first; what cannot be parsed is absent.
TextSubtotal ==
    IF Subtotals = {} \/ Declared(Min(Subtotals)) = Malformed THEN None
    ELSE Declared(Min(Subtotals))

\* extract_declared_subtotal_from_text: the first that can be parsed.
LineSubtotal ==
    LET parsed == {i \in Subtotals : Declared(i) # Malformed} IN
    IF parsed = {} THEN None ELSE Declared(Min(parsed))

\* What is in a context, and what the gate compares with: zero is as good as absent.
Either(subtotal, other) == IF subtotal \in {None, 0} THEN other ELSE subtotal

ContextForParser ==
    IF page.format \in {"text", "column"} THEN TextSubtotal ELSE TableSubtotal
DeclaredForParser ==
    CASE page.format = "text"   -> Either(ContextForParser, LineSubtotal)
      [] page.format = "column" -> Either(ContextForParser, None)
      [] OTHER                  -> ContextForParser

\* For the model the context is read from the raw text, where white space may
\* stand between a label and its amount, but neither the separators of a
\* delimited file nor the quotes of JSON.
ContextForModel == IF page.format \in {"delimited", "json"} THEN None ELSE TextSubtotal

\* A ValueError here is no DocumentExtractionError: nothing catches it.
Begin ==
    /\ Reads("writing")
    /\ page.rows # <<>>
    /\ reader' = IF DeclaredForParser = Malformed THEN [reader EXCEPT !.step = "escaped"]
                 ELSE [reader EXCEPT !.step = "reading", !.declared = DeclaredForParser]
    /\ UNCHANGED page

-----------------------------------------------------------------------------
(* The rows *)

Reading(format) ==
    /\ Reads("reading")
    /\ page.format = format
    /\ ~reader.ended
    /\ UNCHANGED page
RowLeft == reader.at <= Len(page.rows)
Row == page.rows[reader.at]

PassOver == reader' = [reader EXCEPT !.at = @ + 1]
EndTable == reader' = [reader EXCEPT !.ended = TRUE]
Take(line, cells) == reader' = [reader EXCEPT !.at = @ + cells, !.lines = Append(@, line)]

\* rows_to_invoice_lines: a row with an amount that cannot be parsed is left out.
ReadTableRow ==
    /\ Reading("delimited") \/ Reading("sheet")
    /\ RowLeft
    /\ LET line == LineOf(reader.at, Row.cells) IN
       IF Stops(Row) THEN EndTable
       ELSE IF Row.label = "header" \/ Raises(line) THEN PassOver
       ELSE Take(line, 1)

\* JsonInvoiceParser: such a line refuses the whole document.
ReadJsonLine ==
    /\ Reading("json")
    /\ RowLeft
    /\ LET line == LineOf(reader.at, Row.cells) IN
       IF ~IsProduct(Row) THEN PassOver
       ELSE IF Raises(line) THEN Go("failed") ELSE Take(line, 1)

\* The number in which a numbered description ends.
LabelNumber == [negative |-> FALSE, groups |-> <<[width |-> 2, value |-> 40]>>, marks |-> <<>>]

\* The cells of a row that are not empty.
Shown(row) ==
    LET Present(cell) == IF cell = None THEN <<>> ELSE <<cell>>
    IN Present(row.cells.quantity) \o Present(row.cells.unit_price) \o Present(row.cells.total)

\* The numbers at the end of a line of text.
Numerals(row) ==
    LET shown  == Shown(row)
        broken == {i \in DOMAIN shown : shown[i] = Malformed}
    IN IF broken # {} THEN SubSeq(shown, Max(broken) + 1, Len(shown))
       ELSE IF row.label = "numbered" THEN <<LabelNumber>> \o shown ELSE shown

\* Three of them make a line.  A fourth is read into the first of them that it
\* can follow, for a sign does not stand inside a number; if there is none, the
\* number before the quantity stays in the description.
ThreeOf(numerals) ==
    LET joins == {i \in 1..3 : ~numerals[i + 1].negative}
        first == Min(joins)
    IN IF Len(numerals) = 3 THEN numerals
       ELSE IF joins = {} THEN Tail(numerals)
       ELSE [k \in 1..3 |-> IF k < first THEN numerals[k]
                            ELSE IF k = first THEN Joined(numerals[k], numerals[k + 1])
                            ELSE numerals[k + 1]]

TextCells(numerals) ==
    LET three == ThreeOf(numerals)
    IN [quantity |-> three[1], unit_price |-> three[2], total |-> three[3]]

\* text_to_invoice_lines, first pass: an amount that cannot be parsed raises a
\* ValueError that nothing catches.
ReadTextLine ==
    /\ Reading("text")
    /\ RowLeft
    /\ IF Row.label = "header" THEN reader' = [reader EXCEPT !.at = @ + 1, !.inside = TRUE]
       ELSE IF ~reader.inside THEN PassOver
       ELSE IF Stops(Row) THEN EndTable
       ELSE IF Len(Numerals(Row)) < 3 THEN PassOver
       ELSE LET line == LineOf(reader.at, TextCells(Numerals(Row))) IN
            IF Raises(line) THEN Go("escaped") ELSE Take(line, 1)

\* The cells of a column: empty ones are not there, and of a description no
\* more is told than whether it is the header's, a stop word or a number.
Column ==
    LET CellsOf(row) ==
            LET shown == Shown(row) IN
            << [text   |-> IF Stops(row) THEN "stop" ELSE row.label,
                number |-> IF row.label = "numbered" THEN LabelNumber ELSE Malformed] >> \o
            [i \in DOMAIN shown |-> [text |-> "number", number |-> shown[i]]]
        Heading == <<[text |-> "header", number |-> Malformed]>> \o
                   [i \in 1..3 |-> [text |-> "heading", number |-> Malformed]]
    IN FlattenSeq([i \in DOMAIN page.rows |->
                      IF page.rows[i].label = "header" THEN Heading ELSE CellsOf(page.rows[i])])

\* Mutant: a cell that is no amount is tried again.
StayAtCell == UNCHANGED reader
\* The next cell may be a description.
NextCell == reader' = [reader EXCEPT !.at = @ + 1]

\* text_to_invoice_lines, second pass: after the header, a description and
\* three amounts, or else one cell further on.  (\E computes the cells once.)
ReadColumn ==
    /\ Reading("column")
    /\ \E cells \in {Column} :
       IF ~reader.inside
       THEN LET headers == {i \in DOMAIN cells : cells[i].text = "header"} IN
            IF headers = {} THEN Go("failed")
            ELSE reader' = [reader EXCEPT !.at = Min(headers) + 4, !.inside = TRUE]
       ELSE /\ reader.at <= Len(cells)
            /\ IF cells[reader.at].text = "stop" \/ reader.at + 3 > Len(cells) THEN EndTable
               ELSE LET line == LineOf(reader.at, [quantity   |-> cells[reader.at + 1].number,
                                                   unit_price |-> cells[reader.at + 2].number,
                                                   total      |-> cells[reader.at + 3].number])
                    IN IF Raises(line) THEN NextCell ELSE Take(line, 4)

-----------------------------------------------------------------------------
(* The gate, and the model behind it *)

TableRead ==
    \/ reader.ended
    \/ page.format = "column" /\ reader.inside /\ reader.at > Len(Column)
    \/ page.format # "column" /\ ~RowLeft

\* The other totals are checked as well and stop nothing.
Accept(by, lines, declared, subtotal) ==
    \E f \in Financials(subtotal) \cap [Names -> Amount] :
        reader' = [reader EXCEPT
            !.step = "accepted", !.by = by, !.lines = lines, !.declared = declared,
            !.totals = [f EXCEPT !.subtotal = subtotal],
            !.quality = Quality(lines, declared),
            !.financial = FinancialQuality([f EXCEPT !.subtotal = subtotal])]

\* Without lines every parser raises DocumentExtractionError; a failed quality
\* sends the document the same way.
FinishParsing ==
    /\ Reads("reading")
    /\ TableRead
    /\ IF Quality(reader.lines, reader.declared) = "FAIL" THEN Go("failed")
       ELSE Accept("parser", reader.lines, reader.declared, ContextForParser)
    /\ UNCHANGED page

\* No model extractor is configured, or it has no budget, no provider or no answer.
Refuse ==
    /\ Reads("failed")
    /\ Go("refused")
    /\ UNCHANGED page

\* Whatever lines and subtotal the model answers with, in its own words: left
\* out, repeated, rewritten or invented.
ModelAnswers(answer) ==
    /\ Reads("failed")
    /\ LET lines == [i \in DOMAIN answer.lines |-> LineOf(0, answer.lines[i])]
           declared == Either(ContextForModel, answer.subtotal)
       IN IF (\E i \in DOMAIN lines : Raises(lines[i])) \/ Quality(lines, declared) = "FAIL"
          THEN Go("refused")
          ELSE Accept("model", lines, declared, ContextForModel)
    /\ UNCHANGED page

-----------------------------------------------------------------------------
Init ==
    /\ page \in [format : Format, rows : {<<>>}, owed : {0}]
    /\ reader = Unread

Read ==
    \/ ReadTableRow \/ ReadJsonLine \/ ReadTextLine \/ ReadColumn \/ FinishParsing
    \/ Refuse

Next ==
    \/ \E row \in Rows(page.format) : WriteRow(row)
    \/ \E cell \in Written(page.owed) \cap Cell : WriteSubtotal(cell)
    \/ Begin
    \/ Read
    \/ /\ Reads("failed")
       /\ \E answer \in Answers(page) \cap [lines : Seq([Fields -> Cell]), subtotal : Amount] :
             ModelAnswers(answer)

Spec == Init /\ [][Next]_vars

\* The reader is a plain function call: it runs on.  Where a model may answer it
\* may refuse as well, so it does one of them.
FairSpec == Spec /\ WF_vars(Read)
-----------------------------------------------------------------------------
(* Properties *)

TypeOK ==
    /\ page.format \in Format
    /\ page.owed \in 0..MaxOwed
    /\ Len(page.rows) <= MaxRows(page.format)
    /\ \A i \in DOMAIN page.rows : page.rows[i].label \in Labels
    /\ reader.step \in {"writing", "reading", "failed", "accepted", "refused", "escaped"}
    /\ reader.by \in {"parser", "model"}
    /\ reader.declared \in Amount
    /\ \A i \in DOMAIN reader.lines : \A field \in Fields : reader.lines[i][field] \in Amount
    /\ reader.quality \in {"none", "PASS", "WARN"}
    /\ reader.financial \in {"none", "PASS", "WARN", "FAIL"}

\* The document states its subtotal once and in a way that can be read, and the
\* reader looks at it.
SubtotalIsClear ==
    /\ Cardinality(Subtotals) = 1
    /\ Declared(Min(Subtotals)) = page.owed
    /\ page.owed # 0
    /\ reader.by = "parser" \/ ContextForModel # None

\* Rows left out because an amount cannot be parsed, a table cut off by a
\* product whose name begins with a stop word, cells out of step in a column,
\* a number read into its neighbour: whatever the reader did, an accepted
\* reading with a total in it comes to the document's subtotal, within a cent
\* and a half (the gate of validate_extraction_quality, whoever read).
NothingIsLost ==
    Reads("accepted") /\ SubtotalIsClear /\ WithTotal(reader.lines) # {} =>
        Near(Sum(reader.lines), page.owed, Tolerance + Tolerance \div 2)

\* parse_decimal has to tell two conventions apart without knowing which the
\* partner uses.  What is legible is read at face value, with one exception:
\* a lone mark before three digits is taken for a decimal mark.
PlainAmountsAreRead ==
    reader.by = "parser" /\ page.format # "column" =>
        \A i \in DOMAIN reader.lines :
            LET row == page.rows[reader.lines[i].row] IN
            row.clean /\ ~(page.format = "text" /\ row.label = "numbered") =>
                \A field \in Fields :
                    LET cell == row.cells[field] IN
                    cell # None /\ ~LoneThousands(cell) =>
                        reader.lines[i][field] = row.meant[field]

\* A reconciled document is reconciled as a whole, although three checks look
\* at a part each and skip what is not stated (validate_financial_quality).
TotalsChain ==
    LET f == reader.totals IN
    reader.financial = "PASS" /\ Stated(f, {"subtotal", "discount", "tax", "due"}) =>
        Near(f.subtotal - f.discount + f.tax + OrZero(f.shipping), f.due, 2 * Tolerance)

\* The loop over the cells of a column moves its cursor itself: every document
\* that is read is accepted, refused or ends in an error.
ReadingEnds == Reads("reading") ~> reader.step \in {"accepted", "refused", "escaped"}
=============================================================================

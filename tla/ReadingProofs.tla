---------------------------- MODULE ReadingProofs ----------------------------
(***************************************************************************)
(* Proofs about Reading: its types; that what is legible is read at face   *)
(* value; that an accepted reading comes to the subtotal of its document;  *)
(* and that a reconciled document comes to its amount due.  First what its *)
(* operators return: numbers, cells and columns are folds over sequences,  *)
(* and what a fold returns is proved by induction over its parts.          *)
(***************************************************************************)
EXTENDS Reading, Induction, SequenceTheorems

-----------------------------------------------------------------------------
(* Numbers *)

\* The powers of ten that two groups of digits can come to are positive.
LEMMA Powers == \A w \in 0..10 : 10^w \in Nat \ {0}
  <1>1. \A w \in 0..10 : \/ w = 0 \/ w = 1 \/ w = 2 \/ w = 3 \/ w = 4 \/ w = 5
                         \/ w = 6 \/ w = 7 \/ w = 8 \/ w = 9 \/ w = 10
    OBVIOUS
  <1>2. /\ 10^0 \in Nat \ {0} /\ 10^1 \in Nat \ {0} /\ 10^2 \in Nat \ {0} /\ 10^3 \in Nat \ {0}
        /\ 10^4 \in Nat \ {0} /\ 10^5 \in Nat \ {0} /\ 10^6 \in Nat \ {0} /\ 10^7 \in Nat \ {0}
        /\ 10^8 \in Nat \ {0} /\ 10^9 \in Nat \ {0} /\ 10^10 \in Nat \ {0}
    OBVIOUS
  <1> QED BY <1>1, <1>2

\* A function on the first n positions is a sequence.
LEMMA FunctionIsSeq ==
    ASSUME NEW S, NEW n \in Nat, NEW f \in [1..n -> S]
    PROVE  f \in Seq(S) /\ Len(f) = n
  <1>1. f \in Seq(S)
    BY SeqDef
  <1>2. DOMAIN f = 1..Len(f) /\ Len(f) \in Nat
    BY <1>1, LenProperties
  <1>3. 1..n = 1..Len(f)
    BY <1>2
  <1> QED BY <1>1, <1>2, <1>3

\* A set of positions has a first and a last one.
LEMMA FirstAndLast ==
    ASSUME NEW n \in Nat, NEW S \in SUBSET (1..n), S # {}
    PROVE  /\ Min(S) \in S /\ \A i \in S : Min(S) <= i
           /\ Max(S) \in S /\ \A i \in S : i <= Max(S)
  <1>1. S \subseteq Nat
    OBVIOUS
  <1>2. PICK low \in S : \A i \in S : low <= i
    BY <1>1, Least
  <1> DEFINE after == {n - i : i \in S}
  <1>3. after \subseteq Nat /\ after # {}
    OBVIOUS
  <1> HIDE DEF after
  <1>4. PICK least \in after : \A i \in after : least <= i
    BY <1>3, Least
  <1>5. PICK high \in S : least = n - high
    BY DEF after
  <1>6. ASSUME NEW i \in S PROVE i <= high
    <2>1. n - high <= n - i
      BY <1>4, <1>5 DEF after
    <2> QED BY <1>1, <2>1
  <1>7. Min(S) \in S /\ \A i \in S : Min(S) <= i
    BY <1>2 DEF Min
  <1>8. Max(S) \in S /\ \A i \in S : i <= Max(S)
    <2>1. \A i \in S : high >= i
      BY <1>1, <1>6
    <2>2. Max(S) \in S /\ \A i \in S : Max(S) >= i
      BY <2>1 DEF Max
    <2> QED BY <1>1, <2>2
  <1> QED BY <1>7, <1>8

\* The number that groups of digits spell is a natural number.
LEMMA NumberIsNatural ==
    ASSUME NEW groups \in Seq([width : 0..10, value : Nat])
    PROVE  Number(groups) \in Nat
  <1> DEFINE S == DOMAIN groups
  <1> DEFINE Op(x, n) == n * 10^groups[x].width + groups[x].value
  <1> DEFINE pick == [s \in SUBSET S |-> Max(s)]
  <1> DEFINE step == [x \in S |-> [n \in Nat |-> Op(x, n)]]
  <1>1. S = 1..Len(groups) /\ Len(groups) \in Nat /\ IsFiniteSet(S)
    BY FS_Interval
  <1>2. Picks(pick, S)
    BY <1>1, FirstAndLast DEF Picks
  <1>3. ASSUME NEW x \in S, NEW n \in Nat PROVE Op(x, n) \in Nat
    <2> DEFINE power == 10^groups[x].width
    <2>1. groups[x].width \in 0..10 /\ groups[x].value \in Nat
      <3>1. groups[x] \in [width : 0..10, value : Nat]
        BY <1>1, ElementOfSeq
      <3> QED BY <3>1
    <2>2. power \in Nat
      BY <2>1, Powers
    <2> HIDE DEF power
    <2>3. n * power + groups[x].value \in Nat
      BY <2>1, <2>2
    <2> QED BY <2>3 DEF power
  <1>4. Steps(step, S, Nat)
    BY <1>3 DEF Steps
  <1> HIDE DEF S, Op, pick, step
  <1>5. PICK g : IsFold(g, S, Nat, 0, pick, step)
    BY <1>1, <1>2, <1>4, FoldExists
  <1> DEFINE R(h) == h = [s \in SUBSET S |->
                            IF s = {} THEN 0 ELSE Op(Max(s), h[s \ {Max(s)}])]
  <1>6. R(g)
    <2>1. g \in [SUBSET S -> Nat]
      BY <1>5 DEF IsFold
    <2>2. ASSUME NEW s \in SUBSET S
          PROVE  g[s] = IF s = {} THEN 0 ELSE Op(Max(s), g[s \ {Max(s)}])
      <3>1. CASE s = {}
        BY <1>5, <3>1 DEF IsFold
      <3>2. CASE s # {}
        <4>1. pick[s] = Max(s) /\ Max(s) \in S
          BY <1>2, <3>2 DEF pick, Picks
        <4>2. g[s \ {Max(s)}] \in Nat
          BY <2>1
        <4>3. g[s] = step[Max(s)][g[s \ {Max(s)}]]
          BY <1>5, <3>2, <4>1 DEF IsFold
        <4> QED BY <3>2, <4>1, <4>2, <4>3 DEF step
      <3> QED BY <3>1, <3>2
    <2> QED BY <2>1, <2>2
  <1> DEFINE c == CHOOSE h : R(h)
  <1>7. R(c)
    <2> HIDE DEF R
    <2> QED BY <1>6
  <1>8. Number(groups) = c[S]
    BY DEF Number, FoldLeft, MapThenFoldSet, S, Op
  <1> HIDE DEF c
  <1>9. c[{}] \in Nat
    BY <1>7
  <1>10. ASSUME NEW s \in SUBSET S, s # {}, c[s \ {pick[s]}] \in Nat PROVE c[s] \in Nat
    <2>1. pick[s] = Max(s) /\ Max(s) \in S
      BY <1>2, <1>10 DEF pick, Picks
    <2>2. c[s] = Op(Max(s), c[s \ {Max(s)}])
      BY <1>7, <1>10
    <2> QED BY <1>3, <1>10, <2>1, <2>2
  <1> HIDE DEF R
  <1>11. c[S] \in Nat
    BY <1>1, <1>2, <1>9, <1>10, FoldHolds
  <1> QED BY <1>8, <1>11

\* The lines that were read.
Line == [row : Nat, quantity : Amount, unit_price : Amount, total : Amount]
Lines == Seq(Line)

\* The totals of some lines add up to an integer.
LEMMA SumIsInteger ==
    ASSUME NEW lines \in Lines
    PROVE  Sum(lines) \in Int
  <1> DEFINE S == WithTotal(lines)
  <1> DEFINE Op(x, n) == lines[x].total + n
  <1> DEFINE Chosen(s) == CHOOSE x \in s : TRUE
  <1> DEFINE pick == [s \in SUBSET S |-> Chosen(s)]
  <1> DEFINE step == [x \in S |-> [n \in Int |-> Op(x, n)]]
  <1>1. IsFiniteSet(S)
    <2>1. DOMAIN lines = 1..Len(lines) /\ Len(lines) \in Nat
      BY DEF Lines
    <2>2. S \subseteq 1..Len(lines)
      BY <2>1 DEF WithTotal
    <2>3. IsFiniteSet(1..Len(lines))
      BY <2>1, FS_Interval
    <2> HIDE DEF S
    <2> QED BY <2>2, <2>3, FS_Subset
  <1>2. Picks(pick, S)
    BY DEF Picks
  <1>3. ASSUME NEW x \in S, NEW n \in Int PROVE Op(x, n) \in Int
    <2>1. lines \in Seq(Line) /\ x \in 1..Len(lines) /\ lines[x].total # None
      BY DEF WithTotal, Lines
    <2>2. lines[x] \in Line
      <3> HIDE DEF S
      <3> QED BY <2>1, ElementOfSeq
    <2>3. lines[x].total \in Amount
      BY <2>2 DEF Line
    <2> QED BY <2>1, <2>3 DEF Amount
  <1>4. Steps(step, S, Int)
    <2> SUFFICES ASSUME NEW x \in S, NEW n \in Int PROVE step[x][n] \in Int
      BY DEF Steps
    <2>1. Op(x, n) \in Int
      BY <1>3
    <2> HIDE DEF S, Op
    <2> QED BY <2>1
  <1> HIDE DEF S, Op, pick, step
  <1>5. PICK g : IsFold(g, S, Int, 0, pick, step)
    <2>1. 0 \in Int
      OBVIOUS
    <2> QED BY <1>1, <1>2, <1>4, <2>1, FoldExists
  <1> DEFINE R(h) == h = [s \in SUBSET S |->
                            IF s = {} THEN 0 ELSE Op(Chosen(s), h[s \ {Chosen(s)}])]
  <1>6. R(g)
    <2>1. g \in [SUBSET S -> Int]
      BY <1>5 DEF IsFold
    <2>2. ASSUME NEW s \in SUBSET S
          PROVE  g[s] = IF s = {} THEN 0 ELSE Op(Chosen(s), g[s \ {Chosen(s)}])
      <3>1. CASE s = {}
        BY <1>5, <3>1 DEF IsFold
      <3>2. CASE s # {}
        <4>1. pick[s] = Chosen(s) /\ Chosen(s) \in S
          BY <1>2, <3>2 DEF pick, Picks
        <4>2. g[s \ {Chosen(s)}] \in Int
          BY <2>1
        <4>3. g[s] = step[Chosen(s)][g[s \ {Chosen(s)}]]
          BY <1>5, <3>2, <4>1 DEF IsFold
        <4> QED BY <3>2, <4>1, <4>2, <4>3 DEF step
      <3> QED BY <3>1, <3>2
    <2> QED BY <2>1, <2>2
  <1> DEFINE c == CHOOSE h : R(h)
  <1>7. R(c)
    <2> HIDE DEF R
    <2> QED BY <1>6
  <1>8. Sum(lines) = c[S]
    BY DEF Sum, MapThenSumSet, MapThenFoldSet, S, Op
  <1> HIDE DEF c
  <1>9. c[{}] \in Int
    BY <1>7
  <1>10. ASSUME NEW s \in SUBSET S, s # {}, c[s \ {pick[s]}] \in Int PROVE c[s] \in Int
    <2>1. pick[s] = Chosen(s) /\ Chosen(s) \in S
      BY <1>2, <1>10 DEF pick, Picks
    <2>2. c[s] = Op(Chosen(s), c[s \ {Chosen(s)}])
      BY <1>7, <1>10
    <2> QED BY <1>3, <1>10, <2>1, <2>2
  <1> HIDE DEF R
  <1>11. c[S] \in Int
    BY <1>1, <1>2, <1>9, <1>10, FoldHolds
  <1> QED BY <1>8, <1>11

\* Rounding to the cent moves an amount by at most half a cent.
LEMMA MoneyIsNear ==
    ASSUME NEW amount \in Int
    PROVE  Money(amount) \in Int /\ Near(Money(amount), amount, Tolerance \div 2)
  BY SMT DEF Money, Near, Tolerance, One

\* A cell whose groups of digits may be two groups that were read as one.
Spelled == [negative : BOOLEAN, groups : Seq([width : 0..10, value : Nat]) \ {<<>>}, marks : Seq(Mark)]

\* A sequence that is not empty has a last element, and the others before it.
LEMMA FrontAndLast ==
    ASSUME NEW S, NEW s \in Seq(S), s # <<>>
    PROVE  /\ Front(s) \in Seq(S) /\ Last(s) \in S
           /\ Len(Front(s)) = Len(s) - 1 /\ Len(s) \in Nat \ {0}
           /\ \A i \in 1..Len(s) - 1 : Front(s)[i] = s[i]
  <1>1. Len(s) \in Nat \ {0}
    BY EmptySeq
  <1>2. Last(s) \in S
    BY <1>1, ElementOfSeq DEF Last
  <1>3. /\ Front(s) \in Seq(S) /\ Len(Front(s)) = Len(s) - 1
        /\ \A i \in 1..Len(s) - 1 : Front(s)[i] = s[i]
    <2> DEFINE n == Len(s) - 1
    <2>1. n \in Int /\ 1 \in Int /\ \A i \in 1..n : s[i] \in S
      BY <1>1, ElementOfSeq
    <2> HIDE DEF n
    <2>2. /\ SubSeq(s, 1, n) \in Seq(S)
          /\ Len(SubSeq(s, 1, n)) = IF 1 <= n THEN n - 1 + 1 ELSE 0
          /\ \A i \in 1..n - 1 + 1 : SubSeq(s, 1, n)[i] = s[1 + i - 1]
      BY <2>1, SubSeqProperties
    <2>3. Front(s) = SubSeq(s, 1, n)
      BY DEF Front, n
    <2>4. n \in Nat
      BY <1>1 DEF n
    <2>5. Len(Front(s)) = n
      BY <2>2, <2>3, <2>4
    <2>6. \A i \in 1..n : Front(s)[i] = s[i]
      <3>1. n - 1 + 1 = n /\ \A i \in 1..n : 1 + i - 1 = i
        BY <2>4
      <3> QED BY <2>2, <2>3, <3>1
    <2> QED BY <2>2, <2>3, <2>5, <2>6 DEF n
  <1> QED BY <1>1, <1>2, <1>3

\* A number with a sign is an integer.
LEMMA SignedIsInteger ==
    ASSUME NEW n \in Int, NEW numeral
    PROVE  Signed(numeral, n) \in Int
  BY DEF Signed

\* parse_decimal returns an amount or raises.
LEMMA ParseIsTyped ==
    ASSUME NEW cell \in {None, Malformed} \cup Spelled
    PROVE  ParseDecimal(cell) \in Amount \cup {Malformed}
  <1>1. CASE cell \in {None, Malformed}
    BY <1>1 DEF ParseDecimal, Amount
  <1>2. CASE cell \notin {None, Malformed}
    <2> DEFINE G == [width : 0..10, value : Nat]
    <2>1. cell.groups \in Seq(G) /\ cell.groups # <<>>
      BY <1>2 DEF Spelled
    <2>2. Number(cell.groups) \in Nat
      BY <2>1, NumberIsNatural
    <2>3. Front(cell.groups) \in Seq(G) /\ Last(cell.groups) \in G
      BY <2>1, FrontAndLast
    <2>4. Number(Front(cell.groups)) \in Nat
      BY <2>3, NumberIsNatural
    <2>5. Fraction(Last(cell.groups)) \in Int
      <3> DEFINE power == 10^Last(cell.groups).width
      <3>1. Last(cell.groups).width \in 0..10 /\ Last(cell.groups).value \in Nat
        BY <2>3
      <3>2. power \in Nat \ {0}
        BY <3>1, Powers
      <3>3. Fraction(Last(cell.groups)) = (One * Last(cell.groups).value) \div power
        BY DEF Fraction
      <3> HIDE DEF power
      <3> QED BY <3>1, <3>2, <3>3 DEF One
    <2>6. One * Number(cell.groups) \in Int
      BY <2>2 DEF One
    <2>7. One * Number(Front(cell.groups)) + Fraction(Last(cell.groups)) \in Int
      BY <2>4, <2>5 DEF One
    <2>8. /\ Signed(cell, One * Number(cell.groups)) \in Int
          /\ Signed(cell, One * Number(Front(cell.groups)) + Fraction(Last(cell.groups))) \in Int
      BY <2>6, <2>7, SignedIsInteger
    <2> QED BY <1>2, <2>8 DEF ParseDecimal, Amount
  <1> QED BY <1>1, <1>2

\* Sequences in a row are a sequence.
LEMMA FlattenIsTyped ==
    ASSUME NEW U, NEW seqs \in Seq(Seq(U))
    PROVE  FlattenSeq(seqs) \in Seq(U)
  <1> DEFINE n == Len(seqs)
  <1>1. n \in Nat /\ \A i \in 1..n : seqs[i] \in Seq(U)
    BY ElementOfSeq
  <1>2. CASE n = 0
    BY <1>2, EmptySeq DEF FlattenSeq
  <1>3. CASE n # 0
    <2> DEFINE R(h) == h = [i \in 1..n |-> IF i = 1 THEN seqs[i] ELSE h[i-1] \o seqs[i]]
    <2> DEFINE S == 1..n
    <2> DEFINE pick == [s \in SUBSET S |-> Max(s)]
    <2> DEFINE step == [i \in S |-> [v \in Seq(U) |-> IF i = 1 THEN seqs[i] ELSE v \o seqs[i]]]
    <2>1. Picks(pick, S)
      BY <1>1, FirstAndLast DEF Picks
    <2>2. Steps(step, S, Seq(U))
      <3> SUFFICES ASSUME NEW i \in S, NEW v \in Seq(U)
                   PROVE  (IF i = 1 THEN seqs[i] ELSE v \o seqs[i]) \in Seq(U)
        BY DEF Steps
      <3>1. seqs[i] \in Seq(U)
        BY <1>1
      <3> QED BY <3>1, ConcatProperties
    <2>3. IsFiniteSet(S) /\ <<>> \in Seq(U)
      BY <1>1, FS_Interval, EmptySeq
    <2> HIDE DEF S, pick, step
    <2>4. PICK g : IsFold(g, S, Seq(U), <<>>, pick, step)
      BY <2>1, <2>2, <2>3, FoldExists
    <2> DEFINE h == [i \in 1..n |-> g[1..i]]
    <2>5. ASSUME NEW i \in 1..n
          PROVE  /\ g[1..i] \in Seq(U)
                 /\ g[1..i] = IF i = 1 THEN seqs[i] ELSE g[1..(i-1)] \o seqs[i]
      <3>1. 1..i \in SUBSET S /\ 1..(i-1) \in SUBSET S /\ 1..i # {}
        <4>1. 1 \in 1..i /\ \A j \in 1..i : j \in 1..n
          BY <1>1
        <4>2. \A j \in 1..(i-1) : j \in 1..n
          BY <1>1
        <4> QED BY <4>1, <4>2 DEF S
      <3>2. pick[1..i] = i
        <4>1. Max(1..i) \in 1..i /\ \A j \in 1..i : j <= Max(1..i)
          <5>1. i \in Nat
            BY <1>1
          <5>2. 1..i \in SUBSET (1..i)
            OBVIOUS
          <5> QED BY <3>1, <5>1, <5>2, FirstAndLast
        <4>2. Max(1..i) = i
          BY <4>1, <1>1
        <4> QED BY <4>2, <3>1 DEF pick
      <3>3. (1..i) \ {i} = 1..(i-1)
        BY <1>1
      <3>4. g[1..i] \in Seq(U) /\ g[1..(i-1)] \in Seq(U)
        BY <2>4, <3>1 DEF IsFold
      <3>5. g[1..i] = step[i][g[1..(i-1)]]
        BY <2>4, <3>1, <3>2, <3>3 DEF IsFold
      <3>6. i \in S
        BY DEF S
      <3> QED BY <3>4, <3>5, <3>6 DEF step
    <2>6. R(h)
      <3>1. \A i \in 1..n : i # 1 => i - 1 \in 1..n
        BY <1>1
      <3>2. \A i \in 1..n : h[i] = IF i = 1 THEN seqs[i] ELSE h[i-1] \o seqs[i]
        BY <2>5, <3>1
      <3> QED BY <3>2
    <2> DEFINE c == CHOOSE f : R(f)
    <2>7. R(c)
      <3> HIDE DEF R, h
      <3> QED BY <2>6
    <2>8. FlattenSeq(seqs) = c[n]
      BY <1>3 DEF FlattenSeq
    <2> DEFINE T == {k \in Nat : k \in 1..n => c[k] \in Seq(U)}
    <2> HIDE DEF c
    <2>9. ASSUME NEW k \in Nat, k \in 1..n => c[k] \in Seq(U), k + 1 \in 1..n
          PROVE  c[k+1] \in Seq(U)
      <3>1. seqs[k+1] \in Seq(U)
        BY <1>1, <2>9
      <3>2. c[k+1] = IF k + 1 = 1 THEN seqs[k+1] ELSE c[k+1-1] \o seqs[k+1]
        <4>1. \A i \in 1..n : c[i] = IF i = 1 THEN seqs[i] ELSE c[i-1] \o seqs[i]
          BY <2>7
        <4> QED BY <2>9, <4>1
      <3>3. CASE k = 0
        BY <3>1, <3>2, <3>3
      <3>4. CASE k # 0
        <4>1. k \in 1..n /\ k + 1 - 1 = k /\ k + 1 # 1
          BY <1>1, <2>9, <3>4
        <4>2. c[k] \in Seq(U) /\ c[k+1] = c[k] \o seqs[k+1]
          BY <2>9, <3>2, <4>1
        <4> QED BY <3>1, <4>2, ConcatProperties
      <3> QED BY <3>3, <3>4
    <2>10. 0 \in T /\ \A k \in T \cap Nat : k + 1 \in T
      BY <1>1, <2>9
    <2>11. Nat \subseteq T
      <3> HIDE DEF T
      <3> QED BY <2>10, Induct
    <2>12. n \in 1..n
      BY <1>1, <1>3
    <2> QED BY <1>1, <2>8, <2>11, <2>12
  <1> QED BY <1>2, <1>3

-----------------------------------------------------------------------------
(* Cells *)

\* Every number is one that may have been read.
LEMMA NumeralIsSpelled == Numeral \subseteq Spelled
  <1>1. Group \subseteq [width : 0..10, value : Nat]
    BY DEF Group, Widths
  <1>2. Seq(Group) \subseteq Seq([width : 0..10, value : Nat])
    BY <1>1, SeqMonotonic
  <1> QED BY <1>2 DEF Numeral, Spelled

\* The cells that are not empty, in the order of the fields.
LEMMA ShownCells ==
    ASSUME NEW row, \A field \in Fields : row.cells[field] \in Cell
    PROVE  /\ Shown(row) \in Seq(Cell \ {None})
           /\ Len(Shown(row)) \in 0..3
           /\ Len(Shown(row)) = 3 =>
                 /\ \A field \in Fields : row.cells[field] # None
                 /\ Shown(row)[1] = row.cells.quantity
                 /\ Shown(row)[2] = row.cells.unit_price
                 /\ Shown(row)[3] = row.cells.total
  <1> DEFINE C == Cell \ {None}
  <1> DEFINE P(cell) == IF cell = None THEN <<>> ELSE <<cell>>
  <1> DEFINE q == P(row.cells.quantity)
  <1> DEFINE u == P(row.cells.unit_price)
  <1> DEFINE t == P(row.cells.total)
  <1>1. ASSUME NEW cell \in Cell
        PROVE  /\ P(cell) \in Seq(C)
               /\ cell = None => Len(P(cell)) = 0
               /\ cell # None => Len(P(cell)) = 1 /\ P(cell)[1] = cell
    <2>1. <<>> \in Seq(C) /\ Len(<<>>) = 0
      BY EmptySeq
    <2>2. cell # None => cell \in C
      BY <1>1
    <2> HIDE DEF C
    <2>3. cell # None => <<cell>> \in Seq(C)
      BY <2>2
    <2>4. Len(<<cell>>) = 1 /\ <<cell>>[1] = cell
      OBVIOUS
    <2> QED BY <2>1, <2>3, <2>4
  <1>2. /\ row.cells.quantity \in Cell /\ row.cells.unit_price \in Cell /\ row.cells.total \in Cell
        /\ Fields = {"quantity", "unit_price", "total"}
    BY DEF Fields
  <1>3. /\ q \in Seq(C) /\ u \in Seq(C) /\ t \in Seq(C)
        /\ Len(q) \in 0..1 /\ Len(u) \in 0..1 /\ Len(t) \in 0..1
        /\ Len(q) = 1 => row.cells.quantity # None /\ q[1] = row.cells.quantity
        /\ Len(u) = 1 => row.cells.unit_price # None /\ u[1] = row.cells.unit_price
        /\ Len(t) = 1 => row.cells.total # None /\ t[1] = row.cells.total
    <2> HIDE DEF C, P
    <2> QED BY <1>1, <1>2
  <1>4. Shown(row) = q \o u \o t
    BY DEF Shown
  <1> HIDE DEF C, P, q, u, t
  <1>5. /\ q \o u \in Seq(C) /\ Len(q \o u) = Len(q) + Len(u)
        /\ \A i \in 1..Len(q) + Len(u) : (q \o u)[i] = IF i <= Len(q) THEN q[i] ELSE u[i - Len(q)]
    BY <1>3, ConcatProperties
  <1>6. /\ (q \o u) \o t \in Seq(C) /\ Len((q \o u) \o t) = Len(q \o u) + Len(t)
        /\ \A i \in 1..Len(q \o u) + Len(t) :
              ((q \o u) \o t)[i] = IF i <= Len(q \o u) THEN (q \o u)[i] ELSE t[i - Len(q \o u)]
    BY <1>3, <1>5, ConcatProperties
  <1>7. Shown(row) \in Seq(C) /\ Len(Shown(row)) \in 0..3
    BY <1>3, <1>4, <1>5, <1>6
  <1>8. ASSUME Len(Shown(row)) = 3
        PROVE  /\ \A field \in Fields : row.cells[field] # None
               /\ Shown(row)[1] = row.cells.quantity
               /\ Shown(row)[2] = row.cells.unit_price
               /\ Shown(row)[3] = row.cells.total
    <2>1. Len(q) = 1 /\ Len(u) = 1 /\ Len(t) = 1
      BY <1>3, <1>4, <1>5, <1>6, <1>8
    <2>2. (q \o u)[1] = q[1] /\ (q \o u)[2] = u[1]
      BY <1>5, <2>1
    <2>3. Len(q \o u) = 2
      BY <1>5, <2>1
    <2>4. /\ ((q \o u) \o t)[1] = (q \o u)[1] /\ ((q \o u) \o t)[2] = (q \o u)[2]
          /\ ((q \o u) \o t)[3] = t[1]
      BY <1>6, <2>1, <2>3
    <2> QED BY <1>2, <1>3, <1>4, <2>1, <2>2, <2>4
  <1> QED BY <1>7, <1>8 DEF C

\* What is shown of a row is one of its cells.
LEMMA ShownIsInRow ==
    ASSUME NEW row, \A field \in Fields : row.cells[field] \in Cell, NEW i \in DOMAIN Shown(row)
    PROVE  \E field \in Fields : Shown(row)[i] = row.cells[field]
  <1> DEFINE C == {row.cells[field] : field \in Fields}
  <1> DEFINE P(cell) == IF cell = None THEN <<>> ELSE <<cell>>
  <1> DEFINE q == P(row.cells.quantity)
  <1> DEFINE u == P(row.cells.unit_price)
  <1> DEFINE t == P(row.cells.total)
  <1>1. ASSUME NEW cell \in C PROVE P(cell) \in Seq(C)
    <2>1. <<>> \in Seq(C)
      BY EmptySeq
    <2> HIDE DEF C
    <2>2. <<cell>> \in Seq(C)
      BY <1>1
    <2> QED BY <2>1, <2>2
  <1>2. row.cells.quantity \in C /\ row.cells.unit_price \in C /\ row.cells.total \in C
    BY DEF Fields
  <1>3. Shown(row) = q \o u \o t
    BY DEF Shown
  <1> HIDE DEF C, P
  <1>4. q \in Seq(C) /\ u \in Seq(C) /\ t \in Seq(C)
    BY <1>1, <1>2
  <1> HIDE DEF q, u, t
  <1>5. Shown(row) \in Seq(C)
    <2>1. q \o u \in Seq(C)
      BY <1>4, ConcatProperties
    <2> QED BY <1>3, <1>4, <2>1, ConcatProperties
  <1>6. Shown(row)[i] \in C
    <2>1. i \in 1..Len(Shown(row))
      BY <1>5, LenProperties
    <2> QED BY <1>5, <2>1, ElementOfSeq
  <1> QED BY <1>6 DEF C

\* The number in which a numbered description ends is a number.
LEMMA LabelNumberIsNumeral == LabelNumber \in Numeral
  <1>1. [width |-> 2, value |-> 40] \in Group
    BY DEF Group, Widths
  <1>2. <<[width |-> 2, value |-> 40]>> \in Seq(Group) \ {<<>>} /\ <<>> \in Seq(Mark)
    BY <1>1
  <1> QED BY <1>2 DEF LabelNumber, Numeral

\* The numbers at the end of a line; if none is broken and no description ends in one, they
\* are the cells.
LEMMA NumeralsOfRow ==
    ASSUME NEW row, \A field \in Fields : row.cells[field] \in Cell
    PROVE  /\ Numerals(row) \in Seq(Numeral)
           /\ row.label # "numbered" /\ (\A field \in Fields : row.cells[field] # Malformed) =>
                 Numerals(row) = Shown(row)
  <1> DEFINE shown == Shown(row)
  <1> DEFINE broken == {i \in DOMAIN shown : shown[i] = Malformed}
  <1>1. /\ shown \in Seq(Cell \ {None}) /\ Len(shown) \in Nat /\ DOMAIN shown = 1..Len(shown)
        /\ \A i \in 1..Len(shown) : shown[i] \in Cell \ {None}
    BY ShownCells, ElementOfSeq, LenProperties
  <1>2. Numerals(row) = IF broken # {} THEN SubSeq(shown, Max(broken) + 1, Len(shown))
                        ELSE IF row.label = "numbered" THEN <<LabelNumber>> \o shown ELSE shown
    BY DEF Numerals
  <1>3. broken # {} => Max(broken) \in 1..Len(shown) /\ \A i \in broken : i <= Max(broken)
    <2>1. broken \in SUBSET (1..Len(shown))
      BY <1>1
    <2> HIDE DEF broken, shown
    <2> QED BY <1>1, <2>1, FirstAndLast
  <1>4. \A i \in 1..Len(shown) : i \notin broken => shown[i] \in Numeral
    BY <1>1 DEF Cell
  <1> HIDE DEF shown
  <1>5. CASE broken # {}
    <2> DEFINE m == Max(broken) + 1
    <2>1. m \in Int /\ Len(shown) \in Int
      BY <1>1, <1>3, <1>5
    <2>2. \A i \in m..Len(shown) : shown[i] \in Numeral
      <3> SUFFICES ASSUME NEW i \in m..Len(shown) PROVE shown[i] \in Numeral
        OBVIOUS
      <3>1. i \in 1..Len(shown) /\ ~(i <= Max(broken))
        BY <1>1, <1>3, <1>5, <2>1
      <3> HIDE DEF broken
      <3> QED BY <1>3, <1>4, <1>5, <3>1
    <2>3. SubSeq(shown, m, Len(shown)) \in Seq(Numeral)
      <3> HIDE DEF m
      <3> QED BY <2>1, <2>2, SubSeqProperties
    <2>4. Numerals(row) \in Seq(Numeral)
      BY <1>2, <1>5, <2>3
    <2>5. PICK i \in DOMAIN shown : shown[i] = Malformed
      BY <1>5
    <2>6. ~ \A field \in Fields : row.cells[field] # Malformed
      BY <2>5, ShownIsInRow DEF shown
    <2> QED BY <2>4, <2>6
  <1>6. CASE broken = {}
    <2>1. shown \in Seq(Numeral)
      <3>1. \A i \in 1..Len(shown) : shown[i] \in Numeral
        BY <1>4, <1>6
      <3>2. shown = [i \in 1..Len(shown) |-> shown[i]]
        BY <1>1, LenProperties
      <3> QED BY <1>1, <3>1, <3>2, SeqDef
    <2>2. <<LabelNumber>> \o shown \in Seq(Numeral)
      <3>1. <<LabelNumber>> \in Seq(Numeral)
        BY LabelNumberIsNumeral
      <3> QED BY <2>1, <3>1, ConcatProperties
    <2> QED BY <1>2, <1>6, <2>1, <2>2 DEF shown
  <1> QED BY <1>5, <1>6

\* What a line of text gives a line of the invoice is numbers, one of them perhaps two in one.
LEMMA TextCellsAreTyped ==
    ASSUME NEW numerals \in Seq(Numeral), Len(numerals) >= 3
    PROVE  \A field \in Fields : TextCells(numerals)[field] \in Spelled
  <1> DEFINE n == Len(numerals)
  <1>1. n \in Nat /\ \A i \in 1..n : numerals[i] \in Numeral
    BY ElementOfSeq, LenProperties
  <1>2. ASSUME NEW a \in Numeral, NEW b \in Numeral PROVE Joined(a, b) \in Spelled
    <2> DEFINE G == [width : 0..10, value : Nat]
    <2>1. /\ a.negative \in BOOLEAN /\ a.groups \in Seq(Group) /\ a.groups # <<>> /\ a.marks \in Seq(Mark)
          /\ b.groups \in Seq(Group) /\ b.groups # <<>> /\ b.marks \in Seq(Mark)
      BY DEF Numeral
    <2>2. Front(a.groups) \in Seq(Group) /\ Last(a.groups) \in Group
      BY <2>1, FrontAndLast
    <2>3. Head(b.groups) \in Group /\ Tail(b.groups) \in Seq(Group)
      BY <2>1, HeadTailProperties
    <2> DEFINE left == Last(a.groups)
    <2> DEFINE right == Head(b.groups)
    <2> DEFINE middle == [width |-> left.width + right.width,
                          value |-> left.value * 10^right.width + right.value]
    <2>4. middle \in G
      <3> DEFINE power == 10^right.width
      <3>1. left.width \in 0..5 /\ left.value \in Nat /\ right.width \in 0..5 /\ right.value \in Nat
        BY <2>2, <2>3 DEF Group, Widths
      <3>2. right.width \in 0..10
        BY <3>1
      <3>3. power \in Nat
        BY <3>2, Powers
      <3>4. left.width + right.width \in 0..10
        BY <3>1
      <3> HIDE DEF power
      <3>5. left.value * power + right.value \in Nat
        <4>1. \A k, m, r \in Nat : k * m + r \in Nat
          OBVIOUS
        <4> HIDE DEF left, right
        <4> QED BY <3>1, <3>3, <4>1
      <3> QED BY <3>4, <3>5 DEF power
    <2>5. Group \subseteq G
      BY DEF Group, Widths
    <2> HIDE DEF G, middle
    <2>6. Front(a.groups) \in Seq(G) /\ Tail(b.groups) \in Seq(G)
      BY <2>2, <2>3, <2>5, SeqMonotonic
    <2>7. <<middle>> \in Seq(G) /\ Len(<<middle>>) = 1
      BY <2>4
    <2>8. Front(a.groups) \o <<middle>> \in Seq(G) /\ Len(Front(a.groups) \o <<middle>>) # 0
      <3>1. Len(Front(a.groups)) \in Nat
        BY <2>6, LenProperties
      <3> QED BY <2>6, <2>7, <3>1, ConcatProperties
    <2>9. /\ (Front(a.groups) \o <<middle>>) \o Tail(b.groups) \in Seq(G)
          /\ Len((Front(a.groups) \o <<middle>>) \o Tail(b.groups)) # 0
      <3> DEFINE upto == Front(a.groups) \o <<middle>>
      <3> DEFINE rest == Tail(b.groups)
      <3>1. upto \in Seq(G) /\ rest \in Seq(G) /\ Len(upto) # 0
        BY <2>6, <2>8
      <3> HIDE DEF upto, rest
      <3>2. Len(upto) \in Nat /\ Len(rest) \in Nat
        BY <3>1, LenProperties
      <3>3. upto \o rest \in Seq(G) /\ Len(upto \o rest) = Len(upto) + Len(rest)
        BY <3>1, ConcatProperties
      <3>4. Len(upto \o rest) # 0
        BY <3>1, <3>2, <3>3
      <3> QED BY <3>3, <3>4 DEF upto, rest
    <2>10. (Front(a.groups) \o <<middle>>) \o Tail(b.groups) # <<>>
      BY <2>9, EmptySeq
    <2>11. a.marks \o b.marks \in Seq(Mark)
      BY <2>1, ConcatProperties
    <2>12. Joined(a, b) = [negative |-> a.negative,
                           groups   |-> (Front(a.groups) \o <<middle>>) \o Tail(b.groups),
                           marks    |-> a.marks \o b.marks]
      BY DEF Joined, middle
    <2> QED BY <2>1, <2>9, <2>10, <2>11, <2>12 DEF Spelled, G
  <1> HIDE DEF n
  <1>3. n = 3 \/ (n >= 4 /\ 4 \in 1..n)
    <2>1. n >= 3
      BY DEF n
    <2> QED BY <1>1, <2>1
  <1>4. \A k \in 1..3 : k \in 1..n /\ (n >= 4 => k + 1 \in 1..n)
    BY <1>1, <1>3
  <1>5. \A k \in 1..3 : numerals[k] \in Spelled /\ (n >= 4 => numerals[k + 1] \in Spelled)
    BY <1>1, <1>4, NumeralIsSpelled
  <1>6. \A k \in 1..3 : ThreeOf(numerals)[k] \in Spelled
    <2> DEFINE joins == {i \in 1..3 : ~numerals[i + 1].negative}
    <2> DEFINE first == Min(joins)
    <2>1. CASE n = 3
      <3>1. ThreeOf(numerals) = numerals
        BY <2>1 DEF ThreeOf, n
      <3> QED BY <1>5, <3>1
    <2>2. CASE n >= 4 /\ joins = {}
      <3>1. n # 3
        BY <2>2
      <3>2. ThreeOf(numerals) = Tail(numerals)
        BY <2>2, <3>1 DEF ThreeOf, n
      <3>3. numerals # <<>>
        BY <1>3, EmptySeq DEF n
      <3>4. \A k \in 1..3 : Tail(numerals)[k] = numerals[k + 1]
        <4>1. \A k \in 1..3 : k \in 1..n - 1
          BY <1>1, <2>2
        <4> QED BY <3>3, <4>1, HeadTailProperties DEF n
      <3> QED BY <1>5, <2>2, <3>2, <3>4
    <2>3. CASE n >= 4 /\ joins # {}
      <3>1. n # 3
        BY <2>3
      <3>2. ThreeOf(numerals) =
               [k \in 1..3 |-> IF k < first THEN numerals[k]
                               ELSE IF k = first THEN Joined(numerals[k], numerals[k + 1])
                               ELSE numerals[k + 1]]
        BY <2>3, <3>1 DEF ThreeOf, n
      <3>3. \A k \in 1..3 : Joined(numerals[k], numerals[k + 1]) \in Spelled
        BY <1>1, <1>2, <1>4, <2>3
      <3> HIDE DEF first
      <3> QED BY <1>5, <2>3, <3>2, <3>3
    <2> QED BY <1>3, <2>1, <2>2, <2>3
  <1>7. /\ TextCells(numerals).quantity = ThreeOf(numerals)[1]
        /\ TextCells(numerals).unit_price = ThreeOf(numerals)[2]
        /\ TextCells(numerals).total = ThreeOf(numerals)[3]
    BY DEF TextCells
  <1> QED BY <1>6, <1>7 DEF Fields

\* Cells that can be read make a line.
LEMMA LineIsTyped ==
    ASSUME NEW row \in Nat, NEW cells,
           \A field \in Fields : cells[field] \in {None, Malformed} \cup Spelled,
           ~Raises(LineOf(row, cells))
    PROVE  /\ LineOf(row, cells) \in Line
           /\ \A field \in Fields : LineOf(row, cells)[field] = ParseDecimal(cells[field])
  <1>1. \A field \in Fields : LineOf(row, cells)[field] = ParseDecimal(cells[field])
    BY DEF LineOf, Fields
  <1>2. \A field \in Fields : ParseDecimal(cells[field]) \in Amount
    BY <1>1, ParseIsTyped DEF Raises
  <1>3. /\ ParseDecimal(cells.quantity) \in Amount /\ ParseDecimal(cells.unit_price) \in Amount
        /\ ParseDecimal(cells.total) \in Amount
    BY <1>2 DEF Fields
  <1>4. LineOf(row, cells) \in Line
    BY <1>3 DEF LineOf, Line
  <1> QED BY <1>1, <1>4

\* A legible number is read as it is meant, unless its only mark stands before three digits.
LEMMA LegibleIsMeant ==
    ASSUME NEW amount, NEW cell, Legible(cell, amount), ~LoneThousands(cell)
    PROVE  ParseDecimal(cell) = amount
  <1> DEFINE n == Len(cell.marks)
  <1> DEFINE whole == Signed(cell, One * Number(cell.groups))
  <1> DEFINE split == Signed(cell, One * Number(Front(cell.groups)) + Fraction(Last(cell.groups)))
  <1>1. /\ cell.marks \in Seq(Mark) /\ n \in Nat /\ DOMAIN cell.marks = 1..n
        /\ cell.groups \in Seq(Group) /\ Len(cell.groups) = n + 1
    <2>1. cell.marks \in Seq(Mark) /\ cell.groups \in Seq(Group) /\ Len(cell.groups) = n + 1
      BY DEF Legible, Numeral
    <2> QED BY <2>1, LenProperties
  <1>2. cell \notin {None, Malformed}
    BY AmountAssumption DEF Legible
  <1>3. Last(cell.marks) = cell.marks[n] /\ Last(cell.groups) = cell.groups[n + 1]
    BY <1>1 DEF Last
  <1>4. PICK thousands \in Mark, decimal \in Mark :
           \/ /\ \A i \in 1..n : cell.marks[i] = thousands /\ cell.groups[i + 1].width = 3
              /\ amount = whole
           \/ /\ n > 0 /\ thousands # decimal /\ cell.marks[n] = decimal
              /\ \A i \in 1..n - 1 : cell.marks[i] = thousands /\ cell.groups[i + 1].width = 3
              /\ amount = split
    BY DEF Legible
  <1>5. ParseDecimal(cell) = IF cell.marks = <<>> \/ Thousands(cell) THEN whole
                             ELSE IF Decimal(cell) THEN split ELSE Malformed
    BY <1>2 DEF ParseDecimal
  <1> HIDE DEF whole, split
  <1>6. CASE /\ \A i \in 1..n : cell.marks[i] = thousands /\ cell.groups[i + 1].width = 3
             /\ amount = whole
    <2>1. CASE n = 0
      <3>1. cell.marks = <<>>
        BY <1>1, <2>1, EmptySeq
      <3> QED BY <1>5, <1>6, <3>1
    <2>2. CASE n = 1
      BY <1>3, <1>6, <2>2 DEF LoneThousands
    <2>3. CASE n > 1
      <3>1. ToSet(cell.marks) = {Last(cell.marks)}
        <4>1. n \in 1..n
          BY <1>1, <2>3
        <4> QED BY <1>1, <1>3, <1>6, <4>1 DEF ToSet
      <3>2. ASSUME NEW i \in 2..Len(cell.groups) PROVE cell.groups[i].width = 3
        <4>1. i - 1 \in 1..n /\ (i - 1) + 1 = i
          BY <1>1
        <4> QED BY <1>6, <4>1
      <3>3. Thousands(cell)
        BY <2>3, <3>1, <3>2 DEF Thousands
      <3> QED BY <1>5, <1>6, <3>3
    <2>4. n = 0 \/ n = 1 \/ n > 1
      <3>1. n \in Nat
        BY <1>1
      <3> HIDE DEF n
      <3> QED BY <3>1
    <2> QED BY <2>1, <2>2, <2>3, <2>4
  <1>7. CASE /\ n > 0 /\ thousands # decimal /\ cell.marks[n] = decimal
             /\ \A i \in 1..n - 1 : cell.marks[i] = thousands /\ cell.groups[i + 1].width = 3
             /\ amount = split
    <2>1. cell.marks # <<>>
      BY <1>7, EmptySeq
    <2>2. ~Thousands(cell)
      <3>1. SUFFICES ASSUME n > 1, ToSet(cell.marks) = {Last(cell.marks)} PROVE FALSE
        BY DEF Thousands
      <3>2. 1 \in 1..n /\ 1 \in 1..n - 1
        BY <1>1, <3>1
      <3>3. cell.marks[1] \in ToSet(cell.marks)
        BY <1>1, <3>2 DEF ToSet
      <3> QED BY <1>3, <1>7, <3>1, <3>2, <3>3
    <2>3. {i \in DOMAIN cell.marks : cell.marks[i] = Last(cell.marks)} = {n}
      <3>1. ASSUME NEW i \in 1..n PROVE cell.marks[i] = decimal <=> i = n
        <4>1. i # n => i \in 1..n - 1
          BY <1>1
        <4> QED BY <1>7, <4>1
      <3>2. n \in 1..n
        BY <1>1, <1>7
      <3> QED BY <1>1, <1>3, <1>7, <3>1, <3>2
    <2>4. Decimal(cell)
      BY <2>3, FS_Singleton DEF Decimal
    <2> QED BY <1>5, <1>7, <2>1, <2>2, <2>4
  <1> QED BY <1>4, <1>6, <1>7

-----------------------------------------------------------------------------
(* The inductive invariant *)

RowSet == [label : Labels, clean : BOOLEAN, cells : [Fields -> Cell], meant : [Fields -> Int]]

PageTyped ==
    /\ page \in [format : Format, rows : Seq(RowSet), owed : 0..MaxOwed]
    /\ Len(page.rows) <= MaxRows(page.format)
    /\ \A i \in DOMAIN page.rows :
          page.rows[i] \in Rows(page.format) \/ page.rows[i].label = "subtotal"

ReaderSet ==
    [step : {"writing", "reading", "failed", "accepted", "refused", "escaped"},
     by : {"parser", "model"}, at : Nat \ {0}, inside : BOOLEAN, ended : BOOLEAN,
     declared : Amount, lines : Lines, quality : {"none", "PASS", "WARN"},
     totals : [Names -> Amount], financial : {"none", "PASS", "WARN", "FAIL"}]

\* The subtotal that the lines were compared with is the one the document shows.
DeclaredAsFound ==
    /\ Reads("writing") => reader = Unread
    /\ Reads("reading") => reader.declared = DeclaredForParser
    /\ Reads("accepted") =>
          /\ reader.by = "parser" => reader.declared = DeclaredForParser
          /\ reader.by = "model" =>
                \E claim \in Amount : reader.declared = Either(ContextForModel, claim)
          /\ Quality(reader.lines, reader.declared) # "FAIL"

TotalsChecked ==
    /\ reader.by = "model" => Reads("accepted")
    /\ reader.financial # "none" => reader.financial = FinancialQuality(reader.totals)

\* A line says what the row it was read from means.
Meant(line) ==
    /\ line.row \in DOMAIN page.rows
    /\ LET row == page.rows[line.row] IN
       row.clean /\ ~(page.format = "text" /\ row.label = "numbered") =>
           \A field \in Fields :
               LET cell == row.cells[field] IN
               cell # None /\ ~LoneThousands(cell) => line[field] = row.meant[field]

LinesMeant ==
    reader.by = "parser" /\ page.format # "column" =>
        \A i \in DOMAIN reader.lines : Meant(reader.lines[i])

Inv == PageTyped /\ reader \in ReaderSet /\ DeclaredAsFound /\ TotalsChecked /\ LinesMeant

\* The rows of a document are typed, and the products among them are legible if clean.
LEMMA RowsAreTyped ==
    ASSUME PageTyped, NEW i \in DOMAIN page.rows
    PROVE  /\ DOMAIN page.rows = 1..Len(page.rows) /\ Len(page.rows) \in Nat
           /\ page.rows[i] \in RowSet
           /\ page.rows[i].clean /\ IsProduct(page.rows[i]) =>
                 \A field \in Fields :
                    page.rows[i].cells[field] = None \/
                    Legible(page.rows[i].cells[field], page.rows[i].meant[field])
  <1>1. page.rows \in Seq(RowSet) /\ page.format \in Format
    BY DEF PageTyped
  <1>2. DOMAIN page.rows = 1..Len(page.rows) /\ Len(page.rows) \in Nat
    BY <1>1, LenProperties
  <1>3. page.rows[i] \in RowSet
    BY <1>1, <1>2, ElementOfSeq
  <1>4. page.rows[i] \in Rows(page.format) \/ ~IsProduct(page.rows[i])
    BY DEF PageTyped, IsProduct
  <1> QED BY <1>1, <1>2, <1>3, <1>4, RowAssumption

\* What a row of the document gives is a cell.
LEMMA CellsAreTyped ==
    ASSUME PageTyped, NEW i \in DOMAIN page.rows, NEW field \in Fields
    PROVE  /\ page.rows[i].cells[field] \in Cell
           /\ Cell \subseteq {None, Malformed} \cup Spelled
  <1>1. page.rows[i].cells \in [Fields -> Cell]
    BY RowsAreTyped DEF RowSet
  <1> QED BY <1>1, NumeralIsSpelled DEF Cell

\* The subtotals that a document shows are amounts, or cannot be parsed.
LEMMA DeclaredIsTyped ==
    ASSUME PageTyped
    PROVE  /\ Subtotals \in SUBSET (1..Len(page.rows)) /\ Len(page.rows) \in Nat
           /\ \A i \in Subtotals : Declared(i) \in Amount \cup {Malformed}
  <1>1. DOMAIN page.rows = 1..Len(page.rows) /\ Len(page.rows) \in Nat
    BY LenProperties DEF PageTyped
  <1>2. ASSUME NEW i \in Subtotals PROVE Declared(i) \in Amount \cup {Malformed}
    <2>1. i \in DOMAIN page.rows /\ "total" \in Fields
      BY DEF Subtotals, Fields
    <2>2. page.rows[i].cells["total"] \in {None, Malformed} \cup Spelled
      BY <2>1, CellsAreTyped
    <2> QED BY <2>2, ParseIsTyped DEF Declared
  <1> QED BY <1>1, <1>2 DEF Subtotals

\* The subtotal a reader takes from the document is an amount, or cannot be parsed.
LEMMA ContextIsTyped ==
    ASSUME PageTyped
    PROVE  /\ ContextForParser \in Amount \cup {Malformed}
           /\ DeclaredForParser \in Amount \cup {Malformed}
           /\ DeclaredForParser \in Amount => ContextForParser \in Amount
           /\ ContextForModel \in Amount
  <1>1. TableSubtotal \in Amount \cup {Malformed}
    <2>1. CASE Subtotals = {}
      BY <2>1 DEF TableSubtotal, Amount
    <2>2. CASE Subtotals # {}
      <3>1. Max(Subtotals) \in Subtotals
        BY <2>2, DeclaredIsTyped, FirstAndLast
      <3> QED BY <2>2, <3>1, DeclaredIsTyped DEF TableSubtotal
    <2> QED BY <2>1, <2>2
  <1>2. TextSubtotal \in Amount
    <2>1. CASE Subtotals = {}
      BY <2>1 DEF TextSubtotal, Amount
    <2>2. CASE Subtotals # {}
      <3>1. Min(Subtotals) \in Subtotals
        BY <2>2, DeclaredIsTyped, FirstAndLast
      <3>2. Declared(Min(Subtotals)) \in Amount \cup {Malformed}
        BY <3>1, DeclaredIsTyped
      <3> QED BY <2>2, <3>2 DEF TextSubtotal, Amount
    <2> QED BY <2>1, <2>2
  <1>3. LineSubtotal \in Amount
    <2> DEFINE parsed == {i \in Subtotals : Declared(i) # Malformed}
    <2>1. CASE parsed = {}
      BY <2>1 DEF LineSubtotal, Amount
    <2>2. CASE parsed # {}
      <3>1. parsed \in SUBSET (1..Len(page.rows)) /\ Len(page.rows) \in Nat
        BY DeclaredIsTyped
      <3>2. Min(parsed) \in parsed
        <4> HIDE DEF parsed
        <4> QED BY <2>2, <3>1, FirstAndLast
      <3>3. LineSubtotal = Declared(Min(parsed))
        BY <2>2 DEF LineSubtotal
      <3>4. Declared(Min(parsed)) \in Amount \cup {Malformed} /\ Declared(Min(parsed)) # Malformed
        BY <3>2, DeclaredIsTyped
      <3> QED BY <3>3, <3>4
    <2> QED BY <2>1, <2>2
  <1>4. \A a, b \in Amount : Either(a, b) \in Amount
    BY DEF Either
  <1>5. None \in Amount
    BY DEF Amount
  <1>6. ContextForParser \in Amount \cup {Malformed} /\ ContextForModel \in Amount
    BY <1>1, <1>2, <1>5 DEF ContextForParser, ContextForModel
  <1>7. page.format \in {"text", "column"} =>
           ContextForParser = TextSubtotal /\ DeclaredForParser \in Amount
    BY <1>2, <1>3, <1>4, <1>5 DEF ContextForParser, DeclaredForParser
  <1>8. page.format \notin {"text", "column"} => DeclaredForParser = ContextForParser
    BY DEF DeclaredForParser
  <1> QED BY <1>2, <1>6, <1>7, <1>8

\* What is told from the page stays while the page does.
LEMMA SamePage ==
    ASSUME UNCHANGED page
    PROVE  /\ DeclaredForParser' = DeclaredForParser /\ ContextForModel' = ContextForModel
           /\ PageTyped' = PageTyped
           /\ \A line \in Line : Meant(line)' = Meant(line)
  BY DEF DeclaredForParser, ContextForModel, ContextForParser, TextSubtotal, TableSubtotal,
         LineSubtotal, Subtotals, Declared, PageTyped, Meant

-----------------------------------------------------------------------------
(* The steps *)

\* A reading that has not begun is typed.
LEMMA UnreadIsTyped == Unread \in ReaderSet
  <1>1. None \in Amount /\ <<>> \in Lines
    BY EmptySeq DEF Amount, Lines
  <1>2. NoTotals \in [Names -> Amount]
    BY <1>1 DEF NoTotals
  <1> QED BY <1>1, <1>2 DEF Unread, ReaderSet

\* The partner has not written anything, and the reader has not begun.
LEMMA InitInv == Init => Inv
  <1> SUFFICES ASSUME Init PROVE Inv
    OBVIOUS
  <1>1. page.format \in Format /\ page.rows = <<>> /\ page.owed = 0 /\ reader = Unread
    BY DEF Init
  <1>2. MaxRows(page.format) \in Nat /\ 0 \in 0..MaxOwed
    BY <1>1, BoundAssumption
  <1>3. PageTyped
    <2>1. page \in [format : Format, rows : Seq(RowSet), owed : 0..MaxOwed]
      BY <1>1, <1>2, EmptySeq DEF Init
    <2> QED BY <1>1, <1>2, <2>1, EmptySeq DEF PageTyped
  <1>4. reader \in ReaderSet
    BY <1>1, UnreadIsTyped
  <1>5. DeclaredAsFound /\ TotalsChecked /\ LinesMeant
    BY <1>1 DEF DeclaredAsFound, TotalsChecked, LinesMeant, Unread, Reads
  <1> QED BY <1>3, <1>4, <1>5 DEF Inv

\* The partner writes on while nothing is read.
LEMMA WritingKeeps ==
    ASSUME Inv, \/ \E row \in Rows(page.format) : WriteRow(row)
                \/ \E cell \in Written(page.owed) \cap Cell : WriteSubtotal(cell)
    PROVE  Inv'
  <1>1. /\ page.format \in Format /\ page.rows \in Seq(RowSet) /\ page.owed \in 0..MaxOwed
        /\ page \in [format : Format, rows : Seq(RowSet), owed : 0..MaxOwed]
    BY DEF Inv, PageTyped
  <1>2. reader = Unread /\ UNCHANGED reader
    BY DEF Inv, DeclaredAsFound, WriteRow, WriteSubtotal
  <1>3. PICK row : /\ row \in RowSet /\ Len(page.rows) < MaxRows(page.format)
                   /\ row \in Rows(page.format) \/ row.label = "subtotal"
                   /\ \E owed \in 0..MaxOwed :
                         page' = [page EXCEPT !.rows = Append(page.rows, row), !.owed = owed]
    <2>1. CASE \E row \in Rows(page.format) : WriteRow(row)
      <3>1. PICK row \in Rows(page.format) : WriteRow(row)
        BY <2>1
      <3>2. row \in RowSet
        BY <1>1, RowAssumption DEF RowSet
      <3> QED BY <3>1, <3>2 DEF WriteRow
    <2>2. CASE \E cell \in Written(page.owed) \cap Cell : WriteSubtotal(cell)
      <3>1. PICK cell \in Cell : WriteSubtotal(cell)
        BY <2>2
      <3> DEFINE row == [label |-> "subtotal", clean |-> TRUE,
                         cells |-> [quantity |-> None, unit_price |-> None, total |-> cell],
                         meant |-> [quantity |-> 0, unit_price |-> 0, total |-> 0]]
      <3>2. row \in RowSet
        BY DEF RowSet, Labels, Fields, Cell
      <3>3. page' = [page EXCEPT !.rows = Append(page.rows, row), !.owed = page.owed]
        BY <1>1, <3>1 DEF WriteSubtotal
      <3> QED BY <1>1, <3>1, <3>2, <3>3 DEF WriteSubtotal
    <2> QED BY <2>1, <2>2
  <1>4. PICK owed \in 0..MaxOwed :
           page' = [page EXCEPT !.rows = Append(page.rows, row), !.owed = owed]
    BY <1>3
  <1>5. /\ page'.format = page.format /\ page'.rows = Append(page.rows, row)
        /\ page' \in [format : Format, rows : Seq(RowSet), owed : 0..MaxOwed]
    <2>1. Append(page.rows, row) \in Seq(RowSet)
      BY <1>1, <1>3, AppendProperties
    <2> QED BY <1>1, <1>4, <2>1
  <1>6. PageTyped'
    <2>1. /\ Len(page.rows) \in Nat /\ DOMAIN page.rows = 1..Len(page.rows)
          /\ DOMAIN page'.rows = 1..Len(page.rows) + 1 /\ Len(page'.rows) = Len(page.rows) + 1
          /\ \A i \in 1..Len(page.rows) : page'.rows[i] = page.rows[i]
          /\ page'.rows[Len(page.rows) + 1] = row
      BY <1>1, <1>3, <1>5, AppendProperties, LenProperties
    <2>2. MaxRows(page.format) \in Nat
      BY <1>1, BoundAssumption
    <2>3. Len(page'.rows) <= MaxRows(page'.format)
      BY <1>3, <1>5, <2>1, <2>2
    <2>4. ASSUME NEW i \in DOMAIN page'.rows
          PROVE  page'.rows[i] \in Rows(page'.format) \/ page'.rows[i].label = "subtotal"
      <3>1. i \in 1..Len(page.rows) \/ i = Len(page.rows) + 1
        BY <2>1
      <3> QED BY <1>3, <1>5, <2>1, <3>1 DEF Inv, PageTyped
    <2> QED BY <1>5, <2>3, <2>4 DEF PageTyped
  <1>7. reader' \in ReaderSet /\ reader' = Unread
    BY <1>2 DEF Inv
  <1>8. DeclaredAsFound' /\ TotalsChecked' /\ LinesMeant'
    BY <1>7 DEF DeclaredAsFound, TotalsChecked, LinesMeant, Unread, Reads
  <1> QED BY <1>6, <1>7, <1>8 DEF Inv

\* A step that leaves the page, and of the reading the lines and what they were compared
\* with, keeps the invariant.
LEMMA MovingOnKeeps ==
    ASSUME Inv, UNCHANGED page, reader' \in ReaderSet,
           Reads("reading") \/ Reads("failed"),
           Reads("reading")' => Reads("reading"),
           reader'.step \in {"reading", "failed", "refused", "escaped"},
           reader'.by = reader.by, reader'.declared = reader.declared,
           reader'.totals = reader.totals, reader'.financial = reader.financial,
           reader'.lines = reader.lines
    PROVE  Inv'
  <1>1. PageTyped' /\ DeclaredForParser' = DeclaredForParser
    BY SamePage DEF Inv
  <1>2. DeclaredAsFound' /\ TotalsChecked'
    BY <1>1 DEF Inv, DeclaredAsFound, TotalsChecked, Reads
  <1>3. LinesMeant'
    BY DEF Inv, LinesMeant, Meant
  <1> QED BY <1>1, <1>2, <1>3 DEF Inv

\* A line that is taken is one more that says what is meant.
LEMMA TakingKeeps ==
    ASSUME Inv, UNCHANGED page, Reads("reading"),
           NEW line \in Line, NEW cells \in Nat, Take(line, cells),
           page.format # "column" => Meant(line)
    PROVE  Inv'
  <1>1. reader \in ReaderSet /\ reader.lines \in Seq(Line) /\ reader.at \in Nat \ {0}
    BY DEF Inv, ReaderSet, Lines
  <1>2. reader.at + cells \in Nat \ {0}
    BY <1>1
  <1>3. Append(reader.lines, line) \in Seq(Line)
    BY <1>1, AppendProperties
  <1>4. reader' \in ReaderSet
    BY <1>1, <1>2, <1>3 DEF Take, ReaderSet, Lines
  <1>5. /\ reader'.step = reader.step /\ reader'.by = reader.by /\ reader'.declared = reader.declared
        /\ reader'.totals = reader.totals /\ reader'.financial = reader.financial
        /\ reader'.lines = Append(reader.lines, line)
    BY <1>1 DEF Take, ReaderSet
  <1>6. PageTyped' /\ DeclaredForParser' = DeclaredForParser
    BY SamePage DEF Inv
  <1>7. DeclaredAsFound' /\ TotalsChecked'
    BY <1>5, <1>6 DEF Inv, DeclaredAsFound, TotalsChecked, Reads
  <1>8. LinesMeant'
    <2> SUFFICES ASSUME reader'.by = "parser", page'.format # "column",
                        NEW i \in DOMAIN reader'.lines
                 PROVE  Meant(reader.lines[i])'
      BY DEF LinesMeant
    <2>1. /\ Len(reader.lines) \in Nat /\ DOMAIN reader.lines = 1..Len(reader.lines)
          /\ DOMAIN reader'.lines = 1..Len(reader.lines) + 1
          /\ \A k \in 1..Len(reader.lines) : reader'.lines[k] = reader.lines[k]
          /\ reader'.lines[Len(reader.lines) + 1] = line
      BY <1>1, <1>3, <1>5, AppendProperties, LenProperties
    <2>2. CASE i \in 1..Len(reader.lines)
      <3>1. Meant(reader.lines[i])
        BY <1>5, <2>1, <2>2 DEF Inv, LinesMeant
      <3> QED BY <2>1, <2>2, <3>1 DEF Meant
    <2>3. CASE i = Len(reader.lines) + 1
      BY <2>1, <2>3 DEF Meant
    <2> QED BY <2>1, <2>2, <2>3
  <1> QED BY <1>4, <1>6, <1>7, <1>8 DEF Inv

\* The line read from the cells of a product says what they mean.
LEMMA LineIsMeant ==
    ASSUME PageTyped, NEW i \in DOMAIN page.rows, IsProduct(page.rows[i]), NEW cells,
           page.rows[i].clean /\ ~(page.format = "text" /\ page.rows[i].label = "numbered") =>
              \A field \in Fields : cells[field] = page.rows[i].cells[field]
    PROVE  Meant(LineOf(i, cells))
  <1> DEFINE row == page.rows[i]
  <1>1. LineOf(i, cells).row = i
    BY DEF LineOf
  <1>2. \A field \in Fields : LineOf(i, cells)[field] = ParseDecimal(cells[field])
    BY DEF LineOf, Fields
  <1>3. ASSUME row.clean, ~(page.format = "text" /\ row.label = "numbered"), NEW field \in Fields,
               row.cells[field] # None, ~LoneThousands(row.cells[field])
        PROVE  LineOf(i, cells)[field] = row.meant[field]
    <2>1. Legible(row.cells[field], row.meant[field])
      BY <1>3, RowsAreTyped
    <2>2. ParseDecimal(row.cells[field]) = row.meant[field]
      BY <1>3, <2>1, LegibleIsMeant
    <2> QED BY <1>2, <1>3, <2>2
  <1> QED BY <1>1, <1>3 DEF Meant

\* A cursor that moves on stands at a position.
LEMMA NextPosition == \A at \in Nat : at + 1 \in Nat \ {0}
  OBVIOUS

\* The cursor moves, the table begins or ends, or the reading does: no more than that.
LEMMA MovesAreTyped ==
    ASSUME reader \in ReaderSet,
           \/ PassOver \/ NextCell \/ EndTable \/ \E step \in {"failed", "escaped", "refused"} : Go(step)
           \/ \E at \in Nat \ {0} : reader' = [reader EXCEPT !.at = at, !.inside = TRUE]
    PROVE  reader' \in ReaderSet
  <1>1. reader.at + 1 \in Nat \ {0}
    <2>1. reader.at \in Nat
      BY DEF ReaderSet
    <2> QED BY <2>1, NextPosition
  <1>2. CASE PassOver \/ NextCell
    BY <1>1, <1>2 DEF PassOver, NextCell, ReaderSet
  <1>3. CASE EndTable
    BY <1>3 DEF EndTable, ReaderSet
  <1>4. CASE \E step \in {"failed", "escaped", "refused"} : Go(step)
    BY <1>4 DEF Go, ReaderSet
  <1>5. CASE \E at \in Nat \ {0} : reader' = [reader EXCEPT !.at = at, !.inside = TRUE]
    BY <1>5 DEF ReaderSet
  <1> QED BY <1>2, <1>3, <1>4, <1>5

\* The rows of a table are read, passed over, or end it.
LEMMA TableRowKeeps ==
    ASSUME Inv, ReadTableRow
    PROVE  Inv'
  <1> DEFINE line == LineOf(reader.at, Row.cells)
  <1>1. PageTyped /\ reader \in ReaderSet /\ UNCHANGED page /\ Reads("reading")
    BY DEF Inv, ReadTableRow, Reading
  <1>2. reader.at \in Nat \ {0} /\ reader.at \in DOMAIN page.rows /\ Row = page.rows[reader.at]
    <2>1. reader.at \in Nat \ {0} /\ reader.at <= Len(page.rows)
      BY <1>1 DEF ReadTableRow, RowLeft, ReaderSet
    <2>2. DOMAIN page.rows = 1..Len(page.rows) /\ Len(page.rows) \in Nat
      BY <1>1, LenProperties DEF PageTyped
    <2> QED BY <2>1, <2>2 DEF Row
  <1>3. CASE PassOver \/ EndTable
    <2>1. reader' \in ReaderSet
      BY <1>1, <1>3, MovesAreTyped
    <2> QED BY <1>1, <1>3, <2>1, MovingOnKeeps DEF PassOver, EndTable, ReaderSet, Reads
  <1>4. CASE Take(line, 1) /\ ~Stops(Row) /\ Row.label # "header" /\ ~Raises(line)
    <2>1. line \in Line
      BY <1>1, <1>2, <1>4, CellsAreTyped, LineIsTyped
    <2>2. IsProduct(page.rows[reader.at])
      BY <1>1, <1>2, <1>4, RowsAreTyped DEF Stops, IsProduct, RowSet, Labels
    <2>3. Meant(line)
      BY <1>1, <1>2, <2>2, LineIsMeant
    <2> HIDE DEF line
    <2> QED BY <1>1, <1>4, <2>1, <2>3, TakingKeeps
  <1> QED BY <1>3, <1>4 DEF ReadTableRow

\* The lines of a JSON document are read or passed over, or refuse it.
LEMMA JsonLineKeeps ==
    ASSUME Inv, ReadJsonLine
    PROVE  Inv'
  <1> DEFINE line == LineOf(reader.at, Row.cells)
  <1>1. PageTyped /\ reader \in ReaderSet /\ UNCHANGED page /\ Reads("reading")
    BY DEF Inv, ReadJsonLine, Reading
  <1>2. reader.at \in Nat \ {0} /\ reader.at \in DOMAIN page.rows /\ Row = page.rows[reader.at]
    <2>1. reader.at \in Nat \ {0} /\ reader.at <= Len(page.rows)
      BY <1>1 DEF ReadJsonLine, RowLeft, ReaderSet
    <2>2. DOMAIN page.rows = 1..Len(page.rows) /\ Len(page.rows) \in Nat
      BY <1>1, LenProperties DEF PageTyped
    <2> QED BY <2>1, <2>2 DEF Row
  <1>3. CASE PassOver \/ Go("failed")
    <2>1. reader' \in ReaderSet
      BY <1>1, <1>3, MovesAreTyped
    <2> QED BY <1>1, <1>3, <2>1, MovingOnKeeps DEF PassOver, Go, ReaderSet, Reads
  <1>4. CASE Take(line, 1) /\ IsProduct(Row) /\ ~Raises(line)
    <2>1. line \in Line
      BY <1>1, <1>2, <1>4, CellsAreTyped, LineIsTyped
    <2>2. Meant(line)
      BY <1>1, <1>2, <1>4, LineIsMeant
    <2> HIDE DEF line
    <2> QED BY <1>1, <1>4, <2>1, <2>2, TakingKeeps
  <1> QED BY <1>3, <1>4 DEF ReadJsonLine

\* The lines of a text are read or passed over, begin or end the table, or raise.
LEMMA TextLineKeeps ==
    ASSUME Inv, ReadTextLine
    PROVE  Inv'
  <1> DEFINE numerals == Numerals(Row)
  <1> DEFINE line == LineOf(reader.at, TextCells(numerals))
  <1>1. PageTyped /\ reader \in ReaderSet /\ UNCHANGED page /\ Reads("reading")
    BY DEF Inv, ReadTextLine, Reading
  <1>2. reader.at \in Nat \ {0} /\ reader.at \in DOMAIN page.rows /\ Row = page.rows[reader.at]
    <2>1. reader.at \in Nat \ {0} /\ reader.at <= Len(page.rows)
      BY <1>1 DEF ReadTextLine, RowLeft, ReaderSet
    <2>2. DOMAIN page.rows = 1..Len(page.rows) /\ Len(page.rows) \in Nat
      BY <1>1, LenProperties DEF PageTyped
    <2> QED BY <2>1, <2>2 DEF Row
  <1>3. CASE \/ PassOver \/ EndTable \/ Go("escaped")
             \/ reader' = [reader EXCEPT !.at = @ + 1, !.inside = TRUE]
    <2>1. reader' \in ReaderSet
      <3>1. reader.at + 1 \in Nat \ {0}
        BY <1>2
      <3> QED BY <1>1, <1>3, <3>1, MovesAreTyped
    <2> QED BY <1>1, <1>3, <2>1, MovingOnKeeps DEF PassOver, EndTable, Go, ReaderSet, Reads
  <1>4. CASE /\ Take(line, 1) /\ ~Stops(Row) /\ Row.label # "header" /\ ~Raises(line)
             /\ ~(Len(numerals) < 3)
    <2>1. \A field \in Fields : Row.cells[field] \in Cell
      BY <1>1, <1>2, CellsAreTyped
    <2>2. numerals \in Seq(Numeral) /\ Len(numerals) >= 3 /\ Len(numerals) \in Nat
      <3>1. numerals \in Seq(Numeral)
        BY <2>1, NumeralsOfRow
      <3>2. Len(numerals) \in Nat
        BY <3>1, LenProperties
      <3> HIDE DEF numerals
      <3> QED BY <1>4, <3>1, <3>2
    <2>3. \A field \in Fields : TextCells(numerals)[field] \in {None, Malformed} \cup Spelled
      <3> HIDE DEF numerals
      <3> QED BY <2>2, TextCellsAreTyped
    <2>4. line \in Line
      <3> HIDE DEF numerals
      <3> QED BY <1>2, <1>4, <2>3, LineIsTyped
    <2>5. IsProduct(page.rows[reader.at])
      BY <1>1, <1>2, <1>4, RowsAreTyped DEF Stops, IsProduct, RowSet, Labels
    <2>6. ASSUME Row.clean, Row.label # "numbered", NEW field \in Fields
          PROVE  TextCells(numerals)[field] = Row.cells[field]
      <3>1. \A f \in Fields : Row.cells[f] # Malformed
        <4>1. \A f \in Fields : Row.cells[f] = None \/ Row.cells[f] \in Numeral
          BY <1>1, <1>2, <2>5, <2>6, RowsAreTyped DEF Legible
        <4> QED BY <4>1, AmountAssumption
      <3>2. numerals = Shown(Row)
        BY <2>1, <2>6, <3>1, NumeralsOfRow
      <3>3. /\ Len(numerals) = 3 /\ numerals[1] = Row.cells.quantity
            /\ numerals[2] = Row.cells.unit_price /\ numerals[3] = Row.cells.total
        <4>1. Len(Shown(Row)) \in 0..3
          BY <2>1, ShownCells
        <4>2. Len(Shown(Row)) = 3
          <5>1. \A k \in 0..3 : k >= 3 => k = 3
            OBVIOUS
          <5> HIDE DEF numerals
          <5>2. Len(Shown(Row)) >= 3
            BY <2>2, <3>2
          <5> QED BY <4>1, <5>1, <5>2
        <4> QED BY <2>1, <3>2, <4>2, ShownCells
      <3> HIDE DEF numerals
      <3>4. TextCells(numerals) = [quantity |-> numerals[1], unit_price |-> numerals[2],
                                   total |-> numerals[3]]
        BY <3>3 DEF TextCells, ThreeOf
      <3> QED BY <3>3, <3>4 DEF Fields
    <2>7. Meant(line)
      <3> HIDE DEF numerals
      <3>1. page.format = "text"
        BY DEF ReadTextLine, Reading
      <3> QED BY <1>1, <1>2, <2>5, <2>6, <3>1, LineIsMeant
    <2> HIDE DEF line
    <2> QED BY <1>1, <1>4, <2>4, <2>7, TakingKeeps
  <1> QED BY <1>3, <1>4 DEF ReadTextLine

\* The cells of a column have a text and a number.
Spot == [text : Labels \cup {"stop", "number", "heading"}, number : Cell]

\* A column is a sequence of cells.
LEMMA ColumnIsTyped ==
    ASSUME PageTyped
    PROVE  Column \in Seq(Spot)
  <1> DEFINE first(row) == [text   |-> IF Stops(row) THEN "stop" ELSE row.label,
                            number |-> IF row.label = "numbered" THEN LabelNumber ELSE Malformed]
  <1> DEFINE others(row) ==
               [i \in DOMAIN Shown(row) |-> [text |-> "number", number |-> Shown(row)[i]]]
  <1> DEFINE heading == <<[text |-> "header", number |-> Malformed]>> \o
                        [i \in 1..3 |-> [text |-> "heading", number |-> Malformed]]
  <1> DEFINE parts == [i \in DOMAIN page.rows |->
                         IF page.rows[i].label = "header" THEN heading
                         ELSE <<first(page.rows[i])>> \o others(page.rows[i])]
  <1>1. Malformed \in Cell /\ LabelNumber \in Cell
    BY LabelNumberIsNumeral DEF Cell
  <1>2. heading \in Seq(Spot)
    <2>1. <<[text |-> "header", number |-> Malformed]>> \in Seq(Spot)
      <3>1. [text |-> "header", number |-> Malformed] \in Spot
        BY <1>1 DEF Spot, Labels
      <3> QED BY <3>1
    <2>2. [i \in 1..3 |-> [text |-> "heading", number |-> Malformed]] \in Seq(Spot)
      <3>1. [i \in 1..3 |-> [text |-> "heading", number |-> Malformed]] \in [1..3 -> Spot]
        BY <1>1 DEF Spot, Labels
      <3> QED BY <3>1, FunctionIsSeq
    <2> QED BY <2>1, <2>2, ConcatProperties
  <1>3. ASSUME NEW i \in DOMAIN page.rows
        PROVE  <<first(page.rows[i])>> \o others(page.rows[i]) \in Seq(Spot)
    <2> DEFINE row == page.rows[i]
    <2> DEFINE shown == Shown(row)
    <2>1. row \in RowSet /\ \A field \in Fields : row.cells[field] \in Cell
      BY RowsAreTyped, CellsAreTyped
    <2>2. <<first(row)>> \in Seq(Spot)
      <3>1. row.label \in Labels
        BY <2>1 DEF RowSet
      <3>2. first(row) \in Spot
        BY <1>1, <3>1 DEF Spot
      <3> HIDE DEF first
      <3> QED BY <3>2
    <2>3. /\ Len(shown) \in Nat /\ DOMAIN shown = 1..Len(shown)
          /\ \A k \in 1..Len(shown) : shown[k] \in Cell
      <3>1. shown \in Seq(Cell \ {None})
        BY <2>1, ShownCells
      <3> HIDE DEF shown
      <3> QED BY <3>1, LenProperties, ElementOfSeq
    <2>4. others(row) \in Seq(Spot)
      <3>1. others(row) \in [1..Len(shown) -> Spot]
        BY <2>3 DEF Spot
      <3> HIDE DEF others, shown
      <3> QED BY <2>3, <3>1, FunctionIsSeq
    <2> HIDE DEF first, others
    <2> QED BY <2>2, <2>4, ConcatProperties
  <1>4. Column = FlattenSeq(parts)
    BY DEF Column
  <1> HIDE DEF heading, first, others
  <1>5. parts \in Seq(Seq(Spot))
    <2>1. DOMAIN page.rows = 1..Len(page.rows) /\ Len(page.rows) \in Nat
      BY LenProperties DEF PageTyped
    <2>2. parts \in [1..Len(page.rows) -> Seq(Spot)]
      BY <1>2, <1>3, <2>1
    <2> HIDE DEF parts
    <2> QED BY <2>1, <2>2, FunctionIsSeq
  <1> HIDE DEF parts
  <1> QED BY <1>4, <1>5, FlattenIsTyped

\* The cells of a column are read four at a time, or passed over one at a time.
LEMMA ColumnKeeps ==
    ASSUME Inv, ReadColumn
    PROVE  Inv'
  <1> DEFINE cells == Column
  <1> DEFINE chosen == [quantity   |-> cells[reader.at + 1].number,
                        unit_price |-> cells[reader.at + 2].number,
                        total      |-> cells[reader.at + 3].number]
  <1> DEFINE line == LineOf(reader.at, chosen)
  <1> DEFINE headers == {i \in DOMAIN cells : cells[i].text = "header"}
  <1>1. /\ PageTyped /\ reader \in ReaderSet /\ UNCHANGED page /\ Reads("reading")
        /\ page.format = "column" /\ reader.at \in Nat \ {0}
    BY DEF Inv, ReadColumn, Reading, ReaderSet
  <1>2. cells \in Seq(Spot) /\ Len(cells) \in Nat /\ DOMAIN cells = 1..Len(cells)
    BY <1>1, ColumnIsTyped, LenProperties
  <1>3. \/ Go("failed") \/ EndTable \/ NextCell
        \/ headers # {} /\ reader' = [reader EXCEPT !.at = Min(headers) + 4, !.inside = TRUE]
        \/ Take(line, 4) /\ ~(reader.at + 3 > Len(cells)) /\ ~Raises(line)
    BY DEF ReadColumn
  <1> HIDE DEF cells
  <1>4. CASE \/ Go("failed") \/ EndTable \/ NextCell
             \/ headers # {} /\ reader' = [reader EXCEPT !.at = Min(headers) + 4, !.inside = TRUE]
    <2>1. headers # {} => Min(headers) + 4 \in Nat \ {0}
      <3>1. headers \in SUBSET (1..Len(cells))
        BY <1>2
      <3>2. headers # {} => Min(headers) \in 1..Len(cells)
        <4> HIDE DEF headers
        <4> QED BY <1>2, <3>1, FirstAndLast
      <3> HIDE DEF headers
      <3> QED BY <1>2, <3>2
    <2> HIDE DEF headers
    <2>2. reader' \in ReaderSet
      BY <1>1, <1>4, <2>1, MovesAreTyped
    <2> QED BY <1>1, <1>4, <2>2, MovingOnKeeps DEF Go, EndTable, NextCell, ReaderSet, Reads
  <1>5. CASE Take(line, 4) /\ ~(reader.at + 3 > Len(cells)) /\ ~Raises(line)
    <2>1. \A i \in 1..Len(cells) : cells[i].number \in Cell
      <3>1. \A i \in 1..Len(cells) : cells[i] \in Spot
        BY <1>2, ElementOfSeq
      <3> QED BY <3>1 DEF Spot
    <2>2. /\ reader.at + 1 \in 1..Len(cells) /\ reader.at + 2 \in 1..Len(cells)
          /\ reader.at + 3 \in 1..Len(cells)
      BY <1>1, <1>2, <1>5
    <2>3. chosen.quantity \in Cell /\ chosen.unit_price \in Cell /\ chosen.total \in Cell
      BY <2>1, <2>2
    <2>4. \A field \in Fields : chosen[field] \in {None, Malformed} \cup Spelled
      <3> HIDE DEF chosen
      <3> QED BY <2>3, NumeralIsSpelled DEF Fields, Cell
    <2> HIDE DEF chosen
    <2>5. line \in Line
      BY <1>1, <1>5, <2>4, LineIsTyped
    <2> HIDE DEF line
    <2> QED BY <1>1, <1>5, <2>5, TakingKeeps
  <1> QED BY <1>3, <1>4, <1>5

\* A document that is accepted was compared with the subtotal that was found.
LEMMA AcceptingKeeps ==
    ASSUME Inv, UNCHANGED page,
           NEW by \in {"parser", "model"}, NEW lines \in Lines,
           NEW declared \in Amount, NEW subtotal \in Amount,
           Accept(by, lines, declared, subtotal),
           Quality(lines, declared) # "FAIL",
           by = "parser" => declared = DeclaredForParser /\ reader.by = "parser" /\ lines = reader.lines,
           by = "model" => \E claim \in Amount : declared = Either(ContextForModel, claim)
    PROVE  Inv'
  <1>1. PICK f \in [Names -> Amount] :
           reader' = [reader EXCEPT
              !.step = "accepted", !.by = by, !.lines = lines, !.declared = declared,
              !.totals = [f EXCEPT !.subtotal = subtotal],
              !.quality = Quality(lines, declared),
              !.financial = FinancialQuality([f EXCEPT !.subtotal = subtotal])]
    BY DEF Accept
  <1> DEFINE totals == [f EXCEPT !.subtotal = subtotal]
  <1>2. totals \in [Names -> Amount]
    BY <1>1
  <1>3. FinancialQuality(totals) \in {"PASS", "WARN", "FAIL"}
    BY DEF FinancialQuality
  <1>4. Quality(lines, declared) \in {"PASS", "WARN"}
    BY DEF Quality
  <1> HIDE DEF totals
  <1>5. /\ reader' \in ReaderSet
        /\ reader'.step = "accepted" /\ reader'.by = by /\ reader'.lines = lines
        /\ reader'.declared = declared /\ reader'.totals = totals
        /\ reader'.financial = FinancialQuality(totals)
    <2>1. reader \in ReaderSet
      BY DEF Inv
    <2>2. reader' = [reader EXCEPT
              !.step = "accepted", !.by = by, !.lines = lines, !.declared = declared,
              !.totals = totals, !.quality = Quality(lines, declared),
              !.financial = FinancialQuality(totals)]
      BY <1>1 DEF totals
    <2> QED BY <1>2, <1>3, <1>4, <2>1, <2>2 DEF ReaderSet
  <1>6. /\ PageTyped' /\ DeclaredForParser' = DeclaredForParser
        /\ ContextForModel' = ContextForModel
    BY SamePage DEF Inv
  <1>7. DeclaredAsFound' /\ TotalsChecked'
    BY <1>5, <1>6 DEF DeclaredAsFound, TotalsChecked, Reads
  <1>8. LinesMeant'
    <2> SUFFICES ASSUME reader'.by = "parser", page.format # "column", NEW i \in DOMAIN reader.lines
                 PROVE  Meant(reader.lines[i])'
      BY <1>5 DEF LinesMeant
    <2>1. Meant(reader.lines[i])
      BY <1>5 DEF Inv, LinesMeant
    <2>2. reader'.lines = reader.lines
      BY <1>5
    <2> QED BY <2>1, <2>2 DEF Meant
  <1> QED BY <1>5, <1>6, <1>7, <1>8 DEF Inv

\* The reader begins with the subtotal it finds, or that subtotal cannot be parsed.
LEMMA BeginKeeps ==
    ASSUME Inv, Begin
    PROVE  Inv'
  <1>1. PageTyped /\ reader \in ReaderSet /\ reader = Unread /\ UNCHANGED page
    BY DEF Inv, DeclaredAsFound, Begin
  <1>2. PageTyped' /\ DeclaredForParser' = DeclaredForParser
    BY <1>1, SamePage
  <1>3. CASE reader' = [reader EXCEPT !.step = "escaped"]
    <2>1. reader' \in ReaderSet
      BY <1>1, <1>3 DEF ReaderSet
    <2>2. DeclaredAsFound' /\ TotalsChecked' /\ LinesMeant'
      BY <1>1, <1>3 DEF DeclaredAsFound, TotalsChecked, LinesMeant, Unread, Reads
    <2> QED BY <1>2, <2>1, <2>2 DEF Inv
  <1>4. CASE /\ DeclaredForParser # Malformed
             /\ reader' = [reader EXCEPT !.step = "reading", !.declared = DeclaredForParser]
    <2>1. DeclaredForParser \in Amount
      BY <1>1, <1>4, ContextIsTyped
    <2>2. reader' \in ReaderSet
      BY <1>1, <1>4, <2>1 DEF ReaderSet
    <2>3. /\ reader'.step = "reading" /\ reader'.by = "parser" /\ reader'.financial = "none"
          /\ reader'.declared = DeclaredForParser /\ reader'.lines = <<>>
      BY <1>1, <1>4 DEF Unread
    <2>4. DeclaredAsFound' /\ TotalsChecked' /\ LinesMeant'
      BY <1>2, <2>3 DEF DeclaredAsFound, TotalsChecked, LinesMeant, Reads
    <2> QED BY <1>2, <2>2, <2>4 DEF Inv
  <1> QED BY <1>3, <1>4 DEF Begin

\* What the parser has read is accepted, or it failed.
LEMMA FinishKeeps ==
    ASSUME Inv, FinishParsing
    PROVE  Inv'
  <1>1. PageTyped /\ reader \in ReaderSet /\ Reads("reading") /\ UNCHANGED page
    BY DEF Inv, FinishParsing
  <1>2. CASE Go("failed")
    <2>1. reader' \in ReaderSet
      BY <1>1, <1>2, MovesAreTyped
    <2> QED BY <1>1, <1>2, <2>1, MovingOnKeeps DEF Go, ReaderSet, Reads
  <1>3. CASE /\ Quality(reader.lines, reader.declared) # "FAIL"
             /\ Accept("parser", reader.lines, reader.declared, ContextForParser)
    <2>1. reader.lines \in Lines /\ reader.declared \in Amount /\ reader.by = "parser"
      BY <1>1 DEF ReaderSet, Inv, TotalsChecked, Reads
    <2>2. reader.declared = DeclaredForParser
      BY <1>1 DEF Inv, DeclaredAsFound
    <2>3. ContextForParser \in Amount
      BY <1>1, <2>1, <2>2, ContextIsTyped
    <2> QED BY <1>1, <1>3, <2>1, <2>2, <2>3, AcceptingKeeps
  <1> QED BY <1>2, <1>3 DEF FinishParsing

\* Nobody else is asked.
LEMMA RefuseKeeps ==
    ASSUME Inv, Refuse
    PROVE  Inv'
  <1>1. reader \in ReaderSet /\ Reads("failed") /\ UNCHANGED page /\ Go("refused")
    BY DEF Inv, Refuse
  <1>2. reader' \in ReaderSet
    BY <1>1, MovesAreTyped
  <1> QED BY <1>1, <1>2, MovingOnKeeps DEF Go, ReaderSet, Reads

\* What the model answers is accepted or refused.
LEMMA ModelKeeps ==
    ASSUME Inv, NEW answer \in [lines : Seq([Fields -> Cell]), subtotal : Amount],
           ModelAnswers(answer)
    PROVE  Inv'
  <1> DEFINE cells == answer.lines
  <1> DEFINE lines == [i \in DOMAIN cells |-> LineOf(0, cells[i])]
  <1> DEFINE declared == Either(ContextForModel, answer.subtotal)
  <1>1. PageTyped /\ reader \in ReaderSet /\ Reads("failed") /\ UNCHANGED page
    BY DEF Inv, ModelAnswers
  <1>2. CASE Go("refused")
    <2>1. reader' \in ReaderSet
      BY <1>1, <1>2, MovesAreTyped
    <2> QED BY <1>1, <1>2, <2>1, MovingOnKeeps DEF Go, ReaderSet, Reads
  <1>3. CASE /\ \A i \in DOMAIN lines : ~Raises(lines[i])
             /\ Quality(lines, declared) # "FAIL"
             /\ Accept("model", lines, declared, ContextForModel)
    <2>1. /\ Len(cells) \in Nat /\ DOMAIN cells = 1..Len(cells)
          /\ \A i \in 1..Len(cells) : cells[i] \in [Fields -> Cell]
      <3>1. cells \in Seq([Fields -> Cell])
        OBVIOUS
      <3> HIDE DEF cells
      <3> QED BY <3>1, LenProperties, ElementOfSeq
    <2> HIDE DEF cells
    <2>2. ASSUME NEW i \in 1..Len(cells) PROVE lines[i] \in Line
      <3>1. lines[i] = LineOf(0, cells[i]) /\ ~Raises(lines[i])
        BY <1>3, <2>1
      <3>2. \A field \in Fields : cells[i][field] \in {None, Malformed} \cup Spelled
        BY <2>1, NumeralIsSpelled DEF Cell
      <3>3. ~Raises(LineOf(0, cells[i]))
        BY <3>1
      <3> HIDE DEF lines
      <3> QED BY <3>1, <3>2, <3>3, LineIsTyped
    <2>3. lines \in Lines
      <3>1. lines \in [1..Len(cells) -> Line]
        <4>1. lines = [i \in 1..Len(cells) |-> lines[i]]
          BY <2>1
        <4> HIDE DEF lines
        <4> QED BY <2>2, <4>1
      <3> HIDE DEF lines
      <3> QED BY <2>1, <3>1, FunctionIsSeq DEF Lines
    <2> HIDE DEF lines
    <2>4. answer.subtotal \in Amount /\ ContextForModel \in Amount
      BY <1>1, ContextIsTyped
    <2>5. declared \in Amount
      BY <2>4 DEF Either
    <2>6. \E c \in Amount : declared = Either(ContextForModel, c)
      BY <2>4
    <2> HIDE DEF declared
    <2> QED BY <1>1, <1>3, <2>3, <2>4, <2>5, <2>6, AcceptingKeeps
  <1> QED BY <1>2, <1>3 DEF ModelAnswers

\* Every step keeps the invariant.
LEMMA NextKeeps == Inv /\ [Next]_vars => Inv'
  <1> SUFFICES ASSUME Inv, [Next]_vars PROVE Inv'
    OBVIOUS
  <1>1. CASE \/ \E row \in Rows(page.format) : WriteRow(row)
             \/ \E cell \in Written(page.owed) \cap Cell : WriteSubtotal(cell)
    BY <1>1, WritingKeeps
  <1>2. CASE Begin
    BY <1>2, BeginKeeps
  <1>3. CASE ReadTableRow
    BY <1>3, TableRowKeeps
  <1>4. CASE ReadJsonLine
    BY <1>4, JsonLineKeeps
  <1>5. CASE ReadTextLine
    BY <1>5, TextLineKeeps
  <1>6. CASE ReadColumn
    BY <1>6, ColumnKeeps
  <1>7. CASE FinishParsing
    BY <1>7, FinishKeeps
  <1>8. CASE Refuse
    BY <1>8, RefuseKeeps
  <1>9. CASE \E answer \in Answers(page) \cap [lines : Seq([Fields -> Cell]), subtotal : Amount] :
                ModelAnswers(answer)
    BY <1>9, ModelKeeps
  <1>10. CASE UNCHANGED vars
    <2>1. page' = page /\ reader' = reader
      BY <1>10 DEF vars
    <2>2. /\ PageTyped' /\ DeclaredForParser' = DeclaredForParser
          /\ ContextForModel' = ContextForModel
      BY <2>1, SamePage DEF Inv
    <2>3. DeclaredAsFound' /\ TotalsChecked' /\ LinesMeant'
      BY <2>1, <2>2 DEF Inv, DeclaredAsFound, TotalsChecked, LinesMeant, Meant, Reads
    <2> QED BY <2>1, <2>2, <2>3 DEF Inv
  <1> QED BY <1>1, <1>2, <1>3, <1>4, <1>5, <1>6, <1>7, <1>8, <1>9, <1>10 DEF Next, Read

\* The invariant always holds.
LEMMA Invariance == Spec => []Inv
  BY InitInv, NextKeeps, PTL DEF Spec

-----------------------------------------------------------------------------
(* What it says *)

\* The state of a document and of its reading is typed.
THEOREM ReadingTypes == Spec => []TypeOK
  <1>1. Inv => TypeOK
    <2> SUFFICES ASSUME Inv PROVE TypeOK
      OBVIOUS
    <2>1. PageTyped /\ reader \in ReaderSet
      BY DEF Inv
    <2>2. \A i \in DOMAIN page.rows : page.rows[i].label \in Labels
      BY <2>1, RowsAreTyped DEF RowSet
    <2>3. ASSUME NEW i \in DOMAIN reader.lines, NEW field \in Fields
          PROVE  reader.lines[i][field] \in Amount
      <3>1. reader.lines \in Seq(Line)
        BY <2>1 DEF ReaderSet, Lines
      <3>2. reader.lines[i] \in Line
        BY <3>1, LenProperties, ElementOfSeq
      <3> QED BY <3>2 DEF Line, Fields
    <2> QED BY <2>1, <2>2, <2>3 DEF TypeOK, PageTyped, ReaderSet
  <1> QED BY <1>1, Invariance, PTL

\* What is legible is read at face value by every parser that knows its rows, but for a lone
\* mark before three digits (parse_decimal).
THEOREM PlainAmounts == Spec => []PlainAmountsAreRead
  <1>1. Inv => PlainAmountsAreRead
    BY DEF Inv, LinesMeant, Meant, PlainAmountsAreRead
  <1> QED BY <1>1, Invariance, PTL

\* A subtotal that is clear is what the lines were compared with.
LEMMA ClearIsDeclared ==
    ASSUME Inv, Reads("accepted"), SubtotalIsClear
    PROVE  reader.declared = page.owed /\ page.owed \in Int /\ page.owed # None
  <1>1. PageTyped /\ reader \in ReaderSet
    BY DEF Inv
  <1>2. page.owed \in Int /\ page.owed # None /\ page.owed # Malformed /\ page.owed # 0
    <2>1. page.owed \in 0..MaxOwed /\ MaxOwed \in Nat
      BY <1>1, BoundAssumption DEF PageTyped
    <2>2. page.owed \in Int
      BY <2>1
    <2> QED BY <2>2, AmountAssumption DEF SubtotalIsClear
  <1>3. PICK i : Subtotals = {i}
    <2>1. IsFiniteSet(Subtotals)
      <3>1. IsFiniteSet(1..Len(page.rows)) /\ Subtotals \subseteq 1..Len(page.rows)
        BY <1>1, DeclaredIsTyped, FS_Interval
      <3> QED BY <3>1, FS_Subset
    <2> QED BY <2>1, FS_Singleton DEF SubtotalIsClear
  <1>4. Min(Subtotals) = i /\ Max(Subtotals) = i
    <2>1. Subtotals # {}
      BY <1>3
    <2>2. Min(Subtotals) \in Subtotals /\ Max(Subtotals) \in Subtotals
      BY <1>1, <2>1, DeclaredIsTyped, FirstAndLast
    <2> QED BY <1>3, <2>2
  <1>5. Declared(i) = page.owed /\ Subtotals # {}
    BY <1>3, <1>4 DEF SubtotalIsClear
  <1>6. TableSubtotal = page.owed /\ TextSubtotal = page.owed
    BY <1>2, <1>4, <1>5 DEF TableSubtotal, TextSubtotal
  <1>7. \A other : Either(page.owed, other) = page.owed
    BY <1>2 DEF Either
  <1>8. CASE reader.by = "parser"
    <2>1. reader.declared = DeclaredForParser
      BY <1>8 DEF Inv, DeclaredAsFound
    <2> QED BY <1>2, <1>6, <1>7, <2>1 DEF DeclaredForParser, ContextForParser
  <1>9. CASE reader.by = "model"
    <2>1. PICK claim : reader.declared = Either(ContextForModel, claim)
      BY <1>9 DEF Inv, DeclaredAsFound
    <2>2. ContextForModel # None
      BY <1>9 DEF SubtotalIsClear
    <2>3. ContextForModel = page.owed
      BY <1>6, <2>2 DEF ContextForModel
    <2> QED BY <1>2, <1>7, <2>1, <2>3
  <1> QED BY <1>1, <1>8, <1>9 DEF ReaderSet

\* Whatever was passed over, misread or cut off, and whoever read: an accepted reading comes to
\* the subtotal that the document states clearly, within a cent and a half
\* (validate_extraction_quality).
THEOREM NothingLost == Spec => []NothingIsLost
  <1>1. Inv => NothingIsLost
    <2> SUFFICES ASSUME Inv, Reads("accepted"), SubtotalIsClear, WithTotal(reader.lines) # {}
                 PROVE  Near(Sum(reader.lines), page.owed, Tolerance + Tolerance \div 2)
      BY DEF NothingIsLost
    <2>1. reader.declared = page.owed /\ page.owed \in Int /\ page.owed # None
      BY ClearIsDeclared
    <2>2. Near(Money(Sum(reader.lines)), page.owed, Tolerance)
      BY <2>1 DEF Inv, DeclaredAsFound, Quality, SubtotalMismatch
    <2>3. Sum(reader.lines) \in Int
      BY SumIsInteger DEF Inv, ReaderSet
    <2>4. /\ Money(Sum(reader.lines)) \in Int
          /\ Near(Money(Sum(reader.lines)), Sum(reader.lines), Tolerance \div 2)
      BY <2>3, MoneyIsNear
    <2>5. \A sum, rounded, owed \in Int :
             Near(rounded, owed, Tolerance) /\ Near(rounded, sum, Tolerance \div 2) =>
                Near(sum, owed, Tolerance + Tolerance \div 2)
      BY SMT DEF Near, Tolerance, One
    <2> QED BY <2>1, <2>2, <2>3, <2>4, <2>5
  <1> QED BY <1>1, Invariance, PTL

\* Three checks that each look at a part of the totals and skip what is not stated make them
\* one chain: a document that is reconciled comes to its amount due (validate_financial_quality).
THEOREM TotalsAreAChain == Spec => []TotalsChain
  <1>1. Inv => TotalsChain
    <2> DEFINE f == reader.totals
    <2> SUFFICES ASSUME Inv, reader.financial = "PASS",
                        Stated(f, {"subtotal", "discount", "tax", "due"})
                 PROVE  Near(f.subtotal - f.discount + f.tax + OrZero(f.shipping), f.due, 2 * Tolerance)
      BY DEF TotalsChain
    <2>1. f \in [Names -> Amount] /\ FinancialQuality(f) = "PASS"
      BY DEF Inv, TotalsChecked, ReaderSet
    <2> HIDE DEF f
    <2>2. /\ f.subtotal \in Int /\ f.discount \in Int /\ f.tax \in Int /\ f.due \in Int
          /\ f.subtotal # None /\ f.discount # None /\ f.tax # None /\ f.due # None
          /\ f.after \in Int \cup {None} /\ OrZero(f.shipping) \in Int
      BY <2>1 DEF Stated, Names, Amount, OrZero
    <2>3. (DiscountStated(f) => DiscountHolds(f)) /\ (DueStated(f) => DueHolds(f))
      BY <2>1 DEF FinancialQuality
    <2>4. DueHolds(f)
      BY <2>2, <2>3 DEF DueStated, Stated
    <2>5. CASE f.after = None
      <3>1. Near(f.subtotal - f.discount + f.tax + OrZero(f.shipping), f.due, Tolerance)
        BY <2>2, <2>4, <2>5 DEF DueHolds, Base, OrZero
      <3> QED BY <2>2, <3>1 DEF Near, Tolerance, One
    <2>6. CASE f.after # None
      <3>1. DiscountHolds(f)
        BY <2>2, <2>3, <2>6 DEF DiscountStated, Stated
      <3>2. Near(f.after + f.tax + OrZero(f.shipping), f.due, Tolerance)
        BY <2>4, <2>6 DEF DueHolds, Base
      <3>3. Near(f.subtotal - f.discount, f.after, Tolerance)
        BY <3>1 DEF DiscountHolds
      <3>4. f.after \in Int
        BY <2>2, <2>6
      <3> QED BY <2>2, <3>2, <3>3, <3>4 DEF Near, Tolerance, One
    <2> QED BY <2>5, <2>6
  <1> QED BY <1>1, Invariance, PTL
=============================================================================

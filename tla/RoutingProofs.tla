---------------------------- MODULE RoutingProofs ----------------------------
(***************************************************************************)
(* What Routing and Retrieval guarantee for every catalog, every table of  *)
(* similarities and every policy.                                          *)
(***************************************************************************)
EXTENDS Retrieval, Induction, SequenceTheorems

-----------------------------------------------------------------------------
(* Arithmetic *)

\* A clamped number lies between zero and the bound.
LEMMA ClampedBounds ==
    ASSUME NEW n \in Int, NEW top \in Nat
    PROVE  /\ Clamped(n, top) \in Nat
           /\ Clamped(n, top) <= top
           /\ n \in Nat => Clamped(n, top) <= n
  BY SMT DEF Clamped, Smaller, Larger

\* The unit of scores is a positive natural.
LEMMA OneIsPositive == One \in Nat \ {0}
  BY SMT DEF One

\* The quotient of a number below a bound.
LEMMA DivisionBounds ==
    ASSUME NEW n \in Nat, NEW d \in Nat \ {0}, NEW top \in Nat, n < (top + 1) * d
    PROVE  n \div d \in Nat /\ n \div d <= top
  <1> DEFINE q == n \div d
  <1>1. q \in Nat /\ q * d <= n
    BY SMT
  <1> HIDE DEF q
  <1>2. ASSUME q >= top + 1 PROVE FALSE
    <2>1. q * d >= (top + 1) * d
      BY <1>1, <1>2, SMT
    <2> QED BY <2>1, <1>1, SMT
  <1>3. q <= top
    BY <1>1, <1>2, SMT
  <1> QED BY <1>1, <1>3, SMT DEF q

\* Rounding a number of hundredths that is at most 100 scores gives a score.
LEMMA RoundedHundredths ==
    ASSUME NEW n \in Nat, n <= 100 * One
    PROVE  Rounded(n, 100) \in Scores
  <1>1. n + 100 \div 2 \in Nat /\ n + 100 \div 2 < (One + 1) * 100
    BY SMT DEF One
  <1>2. One \in Nat
    BY SMT DEF One
  <1> QED BY <1>1, <1>2, DivisionBounds, SMT DEF Rounded, Scores

\* With the penalty of 0.35 it is at most that.
LEMMA RoundedPenalty ==
    ASSUME NEW n \in Nat, n <= 100 * One
    PROVE  Rounded(7 * n, 2000) \in Nat /\ Rounded(7 * n, 2000) <= 350000
  <1>1. 7 * n + 2000 \div 2 \in Nat /\ 7 * n + 2000 \div 2 < (350000 + 1) * 2000
    BY SMT DEF One
  <1> QED BY <1>1, DivisionBounds, SMT DEF Rounded

\* A share of a finite whole is a score.
LEMMA RoundedShare ==
    ASSUME NEW n \in Nat, NEW d \in Nat \ {0}, n <= d
    PROVE  Rounded(One * n, d) \in Scores
  <1>1. d \div 2 \in Nat /\ d \div 2 < d
    BY SMT
  <1>2. /\ One * n \in Nat /\ One * d \in Nat /\ One \in Nat
        /\ One * n <= One * d
        /\ (One + 1) * d = One * d + d
    BY SMT DEF One
  <1>3. One * n + d \div 2 \in Nat /\ One * n + d \div 2 < (One + 1) * d
    BY <1>1, <1>2, SMT
  <1> QED BY <1>2, <1>3, DivisionBounds, SMT DEF Rounded, Scores

-----------------------------------------------------------------------------
(* Scores *)

\* Two texts share a fraction of their tokens.
LEMMA TokenOverlapBounds ==
    ASSUME NEW t \in Text, NEW x \in Text
    PROVE  TokenOverlap(t, x) \in Scores
  <1> DEFINE common == Tokens[t] \cap Tokens[x]
  <1> DEFINE all == Tokens[t] \cup Tokens[x]
  <1>1. IsFiniteSet(all) /\ IsFiniteSet(common)
    BY TextAssumption, FS_Union, FS_Intersection
  <1>2. Cardinality(common) <= Cardinality(all) /\ Cardinality(common) \in Nat /\ Cardinality(all) \in Nat
    BY <1>1, FS_Subset, FS_CardinalityType
  <1>3. CASE all = {}
    BY <1>3, OneIsPositive, SMT DEF TokenOverlap, Scores
  <1>4. CASE all # {}
    <2>1. Cardinality(all) \in Nat \ {0}
      BY <1>1, <1>2, <1>4, FS_EmptySet
    <2> QED BY <2>1, <1>2, <1>4, RoundedShare DEF TokenOverlap
  <1> QED BY <1>3, <1>4

\* The base score is capped at one.
LEMMA BaseScoreBounds ==
    ASSUME NEW t \in Text, NEW x \in Text, NEW p \in Product
    PROVE  BaseScore(t, x, p) \in 0 .. 10 * One
  <1>1. Lexical[t][x] \in Scores /\ Trigram[t][x] \in Scores
    BY SimilarityAssumption
  <1>2. AttributeScore(t, p) \in {0, One} /\ CategoryBonus(t, p) \in {0, One}
    BY DEF AttributeScore, CategoryBonus
  <1>3. TokenOverlap(t, x) \in Scores
    BY TokenOverlapBounds
  <1> QED BY <1>1, <1>2, <1>3, OneIsPositive, SMT DEF BaseScore, Smaller, Scores

\* A mean of two scores is a score, whatever the weight given to the reranker.
LEMMA MixedScoreBounds ==
    ASSUME NEW t \in Text, NEW x \in Text, NEW p \in Product
    PROVE  MixedScore(t, x, p) \in Nat /\ MixedScore(t, x, p) <= 100 * One
  <1> DEFINE weight == Clamped(SemanticWeight, 5)
  <1> DEFINE base == BaseScore(t, x, p)
  <1>1. weight \in Nat /\ weight <= 5
    BY PolicyAssumption, ClampedBounds
  <1>2. base \in 0 .. 10 * One
    BY BaseScoreBounds
  <1>3. CASE p \in DOMAIN Semantic[t]
    <2> DEFINE semantic == Clamped(Semantic[t][p], One)
    <2>1. semantic \in Nat /\ semantic <= One
      BY <1>3, TextAssumption, OneIsPositive, ClampedBounds
    <2>2. MixedScore(t, x, p) = (10 - weight) * base + 10 * weight * semantic
      BY <1>3 DEF MixedScore
    <2> HIDE DEF weight, base, semantic
    <2>3. /\ (10 - weight) * base \in Nat
          /\ (10 - weight) * base <= (10 - weight) * (10 * One)
      BY <1>1, <1>2, OneIsPositive, SMT
    <2>4. /\ 10 * weight * semantic \in Nat
          /\ 10 * weight * semantic <= 10 * weight * One
      BY <1>1, <2>1, OneIsPositive, SMT
    <2>5. (10 - weight) * (10 * One) + 10 * weight * One = 100 * One
      BY <1>1, OneIsPositive, SMT
    <2>6. (10 - weight) * (10 * One) \in Nat /\ 10 * weight * One \in Nat
      BY <1>1, OneIsPositive, SMT
    <2> QED BY <2>2, <2>3, <2>4, <2>5, <2>6, OneIsPositive, SMT
  <1>4. CASE p \notin DOMAIN Semantic[t]
    <2>1. MixedScore(t, x, p) = 10 * base
      BY <1>4 DEF MixedScore
    <2> HIDE DEF base
    <2> QED BY <2>1, <1>2, OneIsPositive, SMT
  <1> QED BY <1>3, <1>4

\* A candidate that contradicts the text scores at most 0.35, whatever its wording.
THEOREM ContradictionIsPenalised ==
    ASSUME NEW t \in Text, NEW x \in Text, NEW p \in Product, p \in Contradicting[t]
    PROVE  Score(t, x, p) \in Nat /\ Score(t, x, p) <= 350000
  <1>1. Score(t, x, p) = Rounded(7 * MixedScore(t, x, p), 2000)
    BY SMT DEF Score, Contradicting, Contradicts
  <1> QED BY <1>1, MixedScoreBounds, RoundedPenalty, SMT

\* Every alias scores between zero and one.
THEOREM ScoreBounds ==
    ASSUME NEW t \in Text, NEW x \in Text, NEW p \in Product
    PROVE  Score(t, x, p) \in Scores
  <1>1. CASE p \in Contradicting[t]
    <2>1. Score(t, x, p) \in Nat /\ Score(t, x, p) <= 350000
      BY <1>1, ContradictionIsPenalised, SMT
    <2>2. Score(t, x, p) <= One
      BY <2>1, SMT DEF One
    <2> QED BY <2>1, <2>2, OneIsPositive, SMT DEF Scores
  <1>2. CASE p \notin Contradicting[t]
    <2>1. Score(t, x, p) = Rounded(MixedScore(t, x, p), 100)
      BY <1>2, SMT DEF Score, Contradicting, Contradicts
    <2> QED BY <2>1, MixedScoreBounds, RoundedHundredths, SMT
  <1> QED BY <1>1, <1>2, SMT

\* What decides the policy score: twice the score, with the bonus of the margin.
LEMMA HalvesBounds ==
    ASSUME NEW score \in Nat, NEW margin \in Int
    PROVE  /\ 2 * score + Smaller(300000, Larger(0, margin)) \in Nat
           /\ 2 * score + Smaller(300000, Larger(0, margin)) <= 2 * score + 300000
  BY SMT DEF Smaller, Larger

\* The policy score of a candidate that contradicts the text is at most 0.25: no threshold
\* above that is met, even without the test for contradictions in can_auto_resolve.
THEOREM ContradictionNeverResolves ==
    ASSUME NEW score \in Nat, score <= 350000, NEW margin \in Int, NEW conflict, conflict = TRUE
    PROVE  RetrievalDecisionScore(score, margin, conflict) <= 250000
  <1> DEFINE halves == 2 * score + Smaller(300000, Larger(0, margin))
  <1>1. halves \in Nat /\ halves <= 1000000
    BY HalvesBounds, SMT
  <1>2. RetrievalDecisionScore(score, margin, conflict) = Clamped(Rounded(halves, 4), 999000)
    BY SMT DEF RetrievalDecisionScore
  <1> HIDE DEF halves
  <1>3. halves + 4 \div 2 \in Nat /\ halves + 4 \div 2 < (250000 + 1) * 4
    BY <1>1, SMT
  <1>4. Rounded(halves, 4) \in Nat /\ Rounded(halves, 4) <= 250000
    BY <1>3, DivisionBounds, SMT DEF Rounded
  <1> DEFINE rounded == Rounded(halves, 4)
  <1> HIDE DEF rounded
  <1>5. Clamped(rounded, 999000) <= 250000
    BY <1>4, SMT DEF Clamped, Smaller, Larger, rounded
  <1> QED BY <1>2, <1>5, SMT DEF rounded

\* A number clamped at most at one is a score.
LEMMA ClampedScore ==
    ASSUME NEW n \in Int, NEW top \in Nat, top <= One
    PROVE  Clamped(n, top) \in Scores
  BY ClampedBounds, OneIsPositive, SMT DEF Scores

\* A policy score never passes 0.999: an automatic resolution is less certain than an
\* approved alias.
LEMMA DecisionScoreBounds ==
    ASSUME NEW score \in Scores, NEW margin \in Int, NEW conflict
    PROVE  RetrievalDecisionScore(score, margin, conflict) \in Scores
  <1> DEFINE halves == 2 * score + Smaller(300000, Larger(0, margin))
  <1>1. halves \in Nat
    BY HalvesBounds, OneIsPositive, SMT DEF Scores
  <1> HIDE DEF halves
  <1>2. Rounded(halves, 4) \in Int /\ Rounded(halves, 2) \in Int
    BY <1>1, SMT DEF Rounded
  <1> DEFINE rounded == IF conflict THEN Rounded(halves, 4) ELSE Rounded(halves, 2)
  <1>3. rounded \in Int
    BY <1>2, SMT
  <1>4. RetrievalDecisionScore(score, margin, conflict) = Clamped(rounded, 999000)
    BY SMT DEF RetrievalDecisionScore, halves
  <1> HIDE DEF rounded
  <1>5. 999000 <= One
    BY SMT DEF One
  <1> QED BY <1>3, <1>4, <1>5, ClampedScore, SMT

\* The score a candidate is routed by is an integer.
LEMMA MeritIsInteger ==
    ASSUME NEW score \in Scores, NEW margin \in Int, NEW agrees
    PROVE  Merit(score, margin, agrees) \in Int
  BY OneIsPositive, SMT DEF Merit, Smaller, Scores

\* A generated proposal scores between zero and 0.95.
LEMMA GeneratedScoreBounds ==
    ASSUME NEW score \in Scores, NEW margin \in Int, NEW agrees, NEW flagged
    PROVE  GeneratedScore(score, margin, agrees, flagged) \in Scores
  <1> DEFINE merit == Merit(score, margin, agrees)
  <1> DEFINE tenths == IF flagged THEN merit - 3500000 ELSE merit
  <1>1. merit \in Int
    BY MeritIsInteger, SMT
  <1>2. GeneratedScore(score, margin, agrees, flagged) = Clamped(Rounded(tenths, 10), 950000)
    BY SMT DEF GeneratedScore
  <1> HIDE DEF merit
  <1>3. tenths \in Int
    BY <1>1, SMT
  <1> HIDE DEF tenths
  <1>4. Rounded(tenths, 10) \in Int
    BY <1>3, SMT DEF Rounded
  <1>5. 950000 <= One
    BY SMT DEF One
  <1> QED BY <1>2, <1>4, <1>5, ClampedScore, SMT

\* A flagged answer never scores more than the same answer unflagged, so its review is never
\* less urgent.
THEOREM FlagsLowerTheScore ==
    ASSUME NEW score \in Scores, NEW margin \in Int, NEW agrees,
           NEW flagged, flagged = TRUE, NEW clean, clean = FALSE
    PROVE  GeneratedScore(score, margin, agrees, flagged) <= GeneratedScore(score, margin, agrees, clean)
  <1> DEFINE merit == Merit(score, margin, agrees)
  <1> DEFINE low == Rounded(merit - 3500000, 10)
  <1> DEFINE high == Rounded(merit, 10)
  <1>1. merit \in Int
    BY MeritIsInteger, SMT
  <1>2. GeneratedScore(score, margin, agrees, flagged) = Clamped(low, 950000)
    BY SMT DEF GeneratedScore
  <1>3. GeneratedScore(score, margin, agrees, clean) = Clamped(high, 950000)
    BY SMT DEF GeneratedScore
  <1> HIDE DEF merit
  <1>4. low \in Int /\ high \in Int /\ low <= high
    BY <1>1, SMT DEF Rounded
  <1> HIDE DEF low, high
  <1> QED BY <1>2, <1>3, <1>4, SMT DEF Clamped, Smaller, Larger

-----------------------------------------------------------------------------
(* Ranking *)

\* Scores of some products.
ScoreTables == UNION {[S -> Scores] : S \in SUBSET Product}

\* A ranking is a sequence of all the products found, and the candidates are its prefix.
LEMMA RankingShape ==
    ASSUME NEW best \in ScoreTables, NEW r \in Rankings(best)
    PROVE  /\ DOMAIN best \subseteq Product
           /\ best \in [DOMAIN best -> Scores]
           /\ r \in Seq(DOMAIN best)
           /\ DOMAIN r = 1 .. Len(r)
           /\ Len(r) \in Nat /\ Len(r) = Cardinality(DOMAIN best)
           /\ \A i, j \in 1 .. Len(r) : i < j => Ahead(best, r[i], r[j])
           /\ \A p \in DOMAIN best : \E i \in 1 .. Len(r) : r[i] = p
  <1>1. DOMAIN best \subseteq Product /\ best \in [DOMAIN best -> Scores]
    BY DEF ScoreTables
  <1>2. IsFiniteSet(DOMAIN best) /\ Cardinality(DOMAIN best) \in Nat
    BY <1>1, ProductAssumption, FS_Subset, FS_CardinalityType
  <1>3. r \in [1 .. Cardinality(DOMAIN best) -> DOMAIN best]
    BY DEF Rankings
  <1>4. r \in Seq(DOMAIN best) /\ Len(r) = Cardinality(DOMAIN best)
    BY <1>2, <1>3
  <1>5. DOMAIN r = 1 .. Len(r)
    BY <1>3, <1>4
  <1> QED BY <1>1, <1>2, <1>4, <1>5 DEF Rankings

\* The candidates are the first TopK of the ranking.
LEMMA CandidatesShape ==
    ASSUME NEW best \in ScoreTables, NEW r \in Rankings(best),
           NEW c, c = SubSeq(r, 1, Smaller(TopK, Len(r)))
    PROVE  /\ c \in Seq(DOMAIN best)
           /\ Len(c) = Smaller(TopK, Len(r))
           /\ \A i \in 1 .. Len(c) : c[i] = r[i]
  <1>1. r \in Seq(DOMAIN best) /\ Len(r) \in Nat
    BY RankingShape
  <1>2. Smaller(TopK, Len(r)) \in Nat /\ Smaller(TopK, Len(r)) <= Len(r)
    BY <1>1, PolicyAssumption, SMT DEF Smaller
  <1> QED BY <1>1, <1>2, SubSeqProperties, SMT

\* No two products are each ahead of the other, and none is ahead of itself.
LEMMA AheadIsStrict ==
    ASSUME NEW best \in ScoreTables, NEW p \in DOMAIN best, NEW q \in DOMAIN best
    PROVE  ~(Ahead(best, p, q) /\ Ahead(best, q, p))
  <1>1. DOMAIN best \subseteq Nat /\ best \in [DOMAIN best -> Int]
    BY ProductAssumption, OneIsPositive DEF ScoreTables, Scores
  <1> QED BY <1>1, SMT DEF Ahead

\* Two rankings of one table name the same first product and the same second one.
LEMMA RankingsAgree ==
    ASSUME NEW best \in ScoreTables, NEW r \in Rankings(best), NEW s \in Rankings(best)
    PROVE  /\ Len(r) = Len(s)
           /\ Len(r) >= 1 => r[1] = s[1]
           /\ Len(r) >= 2 => r[2] = s[2]
  <1>1. Len(r) = Len(s) /\ Len(r) \in Nat
    BY RankingShape
  <1>2. r \in [1 .. Len(r) -> DOMAIN best] /\ s \in [1 .. Len(r) -> DOMAIN best]
    BY <1>1, RankingShape
  <1>3. /\ \A i, j \in 1 .. Len(r) : i < j => Ahead(best, r[i], r[j])
        /\ \A i, j \in 1 .. Len(r) : i < j => Ahead(best, s[i], s[j])
    BY <1>1, RankingShape
  <1>4. /\ \A p \in DOMAIN best : \E i \in 1 .. Len(r) : r[i] = p
        /\ \A p \in DOMAIN best : \E i \in 1 .. Len(r) : s[i] = p
    BY <1>1, RankingShape
  <1>5. ASSUME Len(r) >= 1, r[1] # s[1] PROVE FALSE
    <2>1. 1 \in 1 .. Len(r)
      BY <1>1, <1>5
    <2>2. r[1] \in DOMAIN best /\ s[1] \in DOMAIN best
      BY <1>2, <2>1
    <2>3. PICK i \in 1 .. Len(r) : r[i] = s[1]
      BY <1>4, <2>2
    <2>4. PICK j \in 1 .. Len(r) : s[j] = r[1]
      BY <1>4, <2>2
    <2>5. 1 < i /\ 1 < j
      BY <1>1, <1>5, <2>3, <2>4
    <2>6. Ahead(best, r[1], s[1]) /\ Ahead(best, s[1], r[1])
      BY <1>3, <2>1, <2>3, <2>4, <2>5, Zenon
    <2> QED BY <2>2, <2>6, AheadIsStrict, Zenon
  <1>6. ASSUME Len(r) >= 2, r[2] # s[2] PROVE FALSE
    <2>1. 1 \in 1 .. Len(r) /\ 2 \in 1 .. Len(r) /\ 1 < 2
      BY <1>1, <1>6
    <2>2. r[2] \in DOMAIN best /\ s[2] \in DOMAIN best /\ r[1] \in DOMAIN best /\ r[1] = s[1]
      BY <1>1, <1>2, <1>5, <1>6, <2>1
    <2>3. PICK i \in 1 .. Len(r) : r[i] = s[2]
      BY <1>4, <2>2
    <2>4. PICK j \in 1 .. Len(r) : s[j] = r[2]
      BY <1>4, <2>2
    <2>5. Ahead(best, r[1], r[2]) /\ Ahead(best, s[1], s[2])
      BY <1>3, <2>1, Zenon
    <2>6. i # 1 /\ j # 1
      BY <2>2, <2>3, <2>4, <2>5, AheadIsStrict, Zenon
    <2>7. 2 < i /\ 2 < j
      BY <1>1, <1>6, <2>3, <2>4, <2>6
    <2>8. Ahead(best, r[2], s[2]) /\ Ahead(best, s[2], r[2])
      BY <1>3, <2>1, <2>3, <2>4, <2>7, Zenon
    <2> QED BY <2>2, <2>8, AheadIsStrict, Zenon
  <1> QED BY <1>1, <1>5, <1>6

\* So the first candidate and its margin are functions of the table.
LEMMA CandidatesAgree ==
    ASSUME NEW best \in ScoreTables, NEW c \in Candidates(best), NEW d \in Candidates(best)
    PROVE  /\ Len(c) = Len(d)
           /\ Len(c) > 0 => c[1] = d[1]
           /\ Margin(best, c) = Margin(best, d)
  <1>1. PICK r \in Rankings(best) : c = SubSeq(r, 1, Smaller(TopK, Len(r)))
    BY DEF Candidates
  <1>2. PICK s \in Rankings(best) : d = SubSeq(s, 1, Smaller(TopK, Len(s)))
    BY DEF Candidates
  <1>3. Len(r) = Len(s) /\ Len(r) \in Nat /\ (Len(r) >= 1 => r[1] = s[1]) /\ (Len(r) >= 2 => r[2] = s[2])
    BY RankingsAgree, RankingShape
  <1>4. /\ Len(c) = Smaller(TopK, Len(r))
        /\ \A i \in 1 .. Len(c) : c[i] = r[i]
    BY <1>1, CandidatesShape
  <1>5. /\ Len(d) = Smaller(TopK, Len(s))
        /\ \A i \in 1 .. Len(d) : d[i] = s[i]
    BY <1>2, CandidatesShape
  <1>6. Len(c) = Len(d) /\ Len(c) \in Nat /\ Len(c) <= Len(r)
    BY <1>3, <1>4, <1>5, PolicyAssumption, SMT DEF Smaller
  <1>7. Len(c) > 0 => c[1] = d[1]
    BY <1>3, <1>4, <1>5, <1>6, SMT
  <1>8. Len(c) > 1 => c[2] = d[2]
    BY <1>3, <1>4, <1>5, <1>6, SMT
  <1>9. Margin(best, c) = Margin(best, d)
    BY <1>6, <1>7, <1>8, SMT DEF Margin
  <1> QED BY <1>6, <1>7, <1>9

\* The first candidate is ahead of every other product found by the margin, when the
\* runner-up is kept.
LEMMA FirstLeads ==
    ASSUME NEW best \in ScoreTables, NEW c \in Candidates(best), Len(c) > 0, TopK >= 2,
           NEW q \in DOMAIN best, q # c[1]
    PROVE  c[1] \in DOMAIN best /\ best[c[1]] >= best[q] + Margin(best, c)
  <1>1. PICK r \in Rankings(best) : c = SubSeq(r, 1, Smaller(TopK, Len(r)))
    BY DEF Candidates
  <1>2. /\ Len(c) = Smaller(TopK, Len(r))
        /\ \A i \in 1 .. Len(c) : c[i] = r[i]
    BY <1>1, CandidatesShape
  <1>3. Len(r) \in Nat /\ TopK \in Nat
    BY RankingShape, PolicyAssumption
  <1>4. c[1] = r[1] /\ Len(r) >= 1
    BY <1>2, <1>3, SMT DEF Smaller
  <1>5. PICK i \in 1 .. Len(r) : r[i] = q
    BY RankingShape
  <1>6. i >= 2 /\ Len(r) >= 2
    BY <1>3, <1>4, <1>5, SMT
  <1>7. Len(c) >= 2 /\ c[2] = r[2]
    BY <1>2, <1>3, <1>6, SMT DEF Smaller
  <1>8. Margin(best, c) = best[r[1]] - best[r[2]]
    BY <1>2, <1>3, <1>4, <1>7, SMT DEF Margin, Smaller
  <1>9. r[1] \in DOMAIN best /\ r[2] \in DOMAIN best
    BY <1>3, <1>6, RankingShape
  <1>10. best \in [DOMAIN best -> Int]
    BY OneIsPositive DEF ScoreTables, Scores
  <1>11. best[r[2]] >= best[q]
    <2>1. CASE i = 2
      BY <2>1, <1>5, <1>9, <1>10
    <2>2. CASE i > 2
      <3>1. \A j, k \in 1 .. Len(r) : j < k => Ahead(best, r[j], r[k])
        BY RankingShape
      <3>2. 2 \in 1 .. Len(r) /\ 2 < i
        BY <1>3, <1>6, <2>2
      <3>3. Ahead(best, r[2], q)
        BY <1>5, <3>1, <3>2, Zenon
      <3> QED BY <3>3, <1>9, <1>10, SMT DEF Ahead
    <2> QED BY <2>1, <2>2, <1>6
  <1> QED BY <1>4, <1>8, <1>9, <1>10, <1>11, SMT

\* The margin to the runner-up is an integer, and the first has a score.
LEMMA MarginIsInteger ==
    ASSUME NEW best \in ScoreTables, NEW c \in Candidates(best)
    PROVE  Margin(best, c) \in Int /\ (Len(c) > 0 => c[1] \in DOMAIN best /\ best[c[1]] \in Scores)
  <1>1. PICK r \in Rankings(best) : c = SubSeq(r, 1, Smaller(TopK, Len(r)))
    BY DEF Candidates
  <1>2. c \in Seq(DOMAIN best)
    BY <1>1, CandidatesShape
  <1>3. best \in [DOMAIN best -> Int] /\ best \in [DOMAIN best -> Scores]
    BY OneIsPositive DEF ScoreTables, Scores
  <1>4. Len(c) \in Nat /\ \A i \in 1 .. Len(c) : c[i] \in DOMAIN best
    BY <1>2
  <1> QED BY <1>3, <1>4, SMT DEF Margin

-----------------------------------------------------------------------------
(* The search *)

\* A search that is not routed has no route; one that is names the first candidate or none.
RouteFits ==
    /\ search.step # "routed" => search.route = NoRoute
    /\ search.step = "routed" => (search.route.kind = "auto" <=> Resolves)
    /\ search.route.kind = "auto" => search.route.product = Top
    /\ search.route.product # None =>
          /\ search.step = "routed"
          /\ Found
          /\ search.route.product = Top
          /\ Top \notin Contradicting[search.text]
          /\ TopMargin >= Smaller(AutoMargin, MarginThreshold)

\* TypeOK, with a set of score tables in place of the domain of the one at hand.
Typed ==
    /\ owner \in [Text -> OrNone(Product)]
    /\ active \subseteq Product
    /\ changes \in 0 .. MaxChanges
    /\ search \in [step : Step, text : OrNone(Text), rows : SUBSET Row, left : SUBSET Row,
                   best : ScoreTables, ranked : Seq(Product), route : Route]
    /\ search.left \subseteq search.rows

\* The typing used in the proofs implies that of the runs.
LEMMA TypedIsTypeOK == Typed => TypeOK
  BY DEF Typed, TypeOK, ScoreTables

\* The inductive invariant: what the scan has kept, and what is left of it when it ends.
SearchIsSound ==
    /\ Typed
    /\ LoopFindsBest
    /\ search.step # "idle" => search.text \in Text
    /\ search.step = "looked_up" => search.rows = {}
    /\ search.step \in {"ranked", "routed"} => search.left = {} /\ search.ranked \in Candidates(search.best)
    /\ RouteFits

\* The values a search starts from are typed.
LEMMA NothingTyped ==
    NoBest \in ScoreTables /\ NoRoute \in Route /\ <<>> \in Seq(Product)
  <1>1. 0 \in Scores
    BY OneIsPositive, SMT DEF Scores
  <1>2. NoRoute \in Route
    BY <1>1 DEF NoRoute, RouteOf, Route, OrNone
  <1>3. NoBest \in [{} -> Scores]
    BY DEF NoBest
  <1>4. NoBest \in ScoreTables
    BY <1>3 DEF ScoreTables
  <1> QED BY <1>2, <1>4

\* The initial states satisfy the invariant.
LEMMA InitIsSound == Init => SearchIsSound
  <1> SUFFICES ASSUME Init PROVE SearchIsSound
    OBVIOUS
  <1> USE DEF Init
  <1>1. NoBest \in ScoreTables /\ NoRoute \in Route /\ <<>> \in Seq(Product)
    BY NothingTyped
  <1>2. Typed
    BY <1>1, ChangesAssumption DEF Typed, Idle, Step, OrNone
  <1>3. LoopFindsBest
    BY DEF LoopFindsBest, Idle
  <1>4. RouteFits
    BY DEF RouteFits, Idle, NoRoute, RouteOf
  <1> QED BY <1>2, <1>3, <1>4 DEF SearchIsSound, Idle

\* The catalog changes and the search does not.
LEMMA ChangeKeepsSound ==
    ASSUME SearchIsSound, search' = search, Typed'
    PROVE  SearchIsSound'
  BY DEF SearchIsSound, LoopFindsBest, RouteFits, IsBest, RowsOf, Resolves, Found, Top, TopScore, TopMargin

\* The score of an alias for a text lies within bounds.
LEMMA ScoreTableBounds ==
    ASSUME NEW t \in Text, NEW x \in Text, NEW p \in Product
    PROVE  ScoreTable[t][x][p] \in Scores
  BY ScoreBounds DEF ScoreTable

\* One row more: the loop keeps the best of the rows read.
LEMMA ScanKeepsBest ==
    ASSUME NEW t \in Text, NEW R \in SUBSET Row, NEW row \in Row,
           NEW best \in ScoreTables, IsBest(t, R, best)
    PROVE  /\ KeepBetter(best, row[2], ScoreTable[t][row[1]][row[2]]) \in ScoreTables
           /\ IsBest(t, R \cup {row}, KeepBetter(best, row[2], ScoreTable[t][row[1]][row[2]]))
  <1> DEFINE p == row[2]
  <1> DEFINE score == ScoreTable[t][row[1]][row[2]]
  <1> DEFINE kept == KeepBetter(best, p, score)
  <1>1. row[1] \in Text /\ p \in Product /\ score \in Scores
    BY ScoreTableBounds DEF Row
  <1>2. DOMAIN best \subseteq Product /\ best \in [DOMAIN best -> Scores]
    BY DEF ScoreTables
  <1>3. kept \in [DOMAIN best \cup {p} -> Scores]
    BY <1>1, <1>2 DEF KeepBetter
  <1>4. kept \in ScoreTables
    BY <1>1, <1>2, <1>3 DEF ScoreTables
  <1>5. DOMAIN kept = DOMAIN best \cup {p}
    BY <1>3
  <1>6. DOMAIN kept = {r[2] : r \in R \cup {row}}
    BY <1>5 DEF IsBest
  <1>7. Scores \subseteq Int
    BY OneIsPositive DEF Scores
  <1>8. score = ScoreTable[t][row[1]][p] /\ p = row[2]
    OBVIOUS
  <1>9. \A q \in DOMAIN kept :
            kept[q] = IF q = p /\ (p \notin DOMAIN best \/ score > best[p]) THEN score ELSE best[q]
    BY <1>5 DEF KeepBetter
  <1>10. row \in Row
    OBVIOUS
  <1> HIDE DEF p, score, kept
  <1>11. ASSUME NEW q \in DOMAIN kept
        PROVE  /\ \E r \in RowsOf(R \cup {row}, q) : kept[q] = ScoreTable[t][r[1]][q]
               /\ \A r \in RowsOf(R \cup {row}, q) : ScoreTable[t][r[1]][q] <= kept[q]
    <2>1. CASE q # p
      <3>1. q \in DOMAIN best /\ kept[q] = best[q]
        BY <1>5, <1>11, <1>9, <2>1
      <3>2. RowsOf(R \cup {row}, q) = RowsOf(R, q)
        BY <1>8, <2>1 DEF RowsOf
      <3> QED BY <3>1, <3>2 DEF IsBest
    <2>2. CASE q = p /\ q \notin DOMAIN best
      <3>1. kept[q] = score
        BY <1>5, <1>11, <1>9, <2>2
      <3>2. RowsOf(R \cup {row}, q) = {row}
        BY <1>8, <2>2 DEF RowsOf, IsBest
      <3>3. ScoreTable[t][row[1]][q] = score /\ score <= score
        BY <1>1, <1>7, <1>8, <2>2
      <3> QED BY <3>1, <3>2, <3>3
    <2>3. CASE q = p /\ q \in DOMAIN best
      <3>1. kept[q] = IF score > best[q] THEN score ELSE best[q]
        BY <1>5, <1>11, <1>9, <2>3
      <3>2. RowsOf(R \cup {row}, q) = RowsOf(R, q) \cup {row}
        BY <1>8, <2>3 DEF RowsOf
      <3>3. /\ \E r \in RowsOf(R, q) : best[q] = ScoreTable[t][r[1]][q]
            /\ \A r \in RowsOf(R, q) : ScoreTable[t][r[1]][q] <= best[q]
        BY <2>3 DEF IsBest
      <3>4. best[q] \in Int /\ score \in Int
        BY <1>1, <1>2, <1>7, <2>3
      <3>5. \A r \in RowsOf(R, q) : ScoreTable[t][r[1]][q] \in Int
        BY <1>1, <1>7, <2>3, ScoreTableBounds DEF RowsOf, Row
      <3>6. CASE score > best[q]
        <4>1. kept[q] = score
          BY <3>1, <3>6
        <4>2. \A r \in RowsOf(R, q) : ScoreTable[t][r[1]][q] <= kept[q]
          BY <3>3, <3>4, <3>5, <3>6, <4>1
        <4>3. ScoreTable[t][row[1]][q] = score /\ score <= score
          BY <1>8, <2>3, <3>4
        <4> QED BY <4>1, <4>2, <4>3, <3>2
      <3>7. CASE ~(score > best[q])
        <4>1. kept[q] = best[q]
          BY <3>1, <3>7
        <4>2. ScoreTable[t][row[1]][q] <= best[q]
          BY <1>8, <2>3, <3>4, <3>7
        <4> QED BY <4>1, <4>2, <3>2, <3>3
      <3> QED BY <3>6, <3>7
    <2> QED BY <2>1, <2>2, <2>3
  <1> QED BY <1>4, <1>6, <1>11, <1>8 DEF IsBest, kept, p, score

\* The rows the query returns are rows of the catalog.
LEMMA ListedIsTyped ==
    ASSUME Typed
    PROVE  Listed \subseteq Row
  <1>1. \A x \in Text : owner[x] \in active => <<x, owner[x]>> \in Row
    BY DEF Typed, Row
  <1> QED BY <1>1 DEF Listed

\* What the first candidate brings to a route.
LEMMA TopIsTyped ==
    ASSUME SearchIsSound, search.step = "ranked"
    PROVE  /\ search.text \in Text
           /\ TopScore \in Scores /\ TopMargin \in Int
           /\ Found => Top \in Product
  <1>1. /\ search.best \in ScoreTables /\ search.ranked \in Seq(Product) /\ search.text \in Text
        /\ search.ranked \in Candidates(search.best)
    BY DEF SearchIsSound, Typed
  <1>2. TopMargin \in Int /\ (Found => Top \in DOMAIN search.best /\ search.best[Top] \in Scores)
    BY <1>1, MarginIsInteger DEF TopMargin, Found, Top
  <1>3. TopScore \in Scores
    BY <1>2, OneIsPositive DEF TopScore, Scores
  <1>4. Found => Top \in Product
    BY <1>1 DEF Found, Top
  <1> QED BY <1>1, <1>2, <1>3, <1>4

\* Every step keeps the invariant.
LEMMA NextKeepsSound == SearchIsSound /\ [Next]_vars => SearchIsSound'
  <1> SUFFICES ASSUME SearchIsSound, [Next]_vars PROVE SearchIsSound'
    OBVIOUS
  <1>1. Typed
    BY DEF SearchIsSound
  <1>2. ASSUME NEW x \in Text, NEW p \in Product, Approve(x, p) PROVE SearchIsSound'
    <2>1. Typed' /\ search' = search
      BY <1>1, <1>2, ChangesAssumption DEF Approve, Typed, OrNone
    <2> QED BY <2>1, ChangeKeepsSound
  <1>3. ASSUME NEW p \in Product, Withdraw(p) PROVE SearchIsSound'
    <2>1. Typed' /\ search' = search
      BY <1>1, <1>3, ChangesAssumption DEF Withdraw, Typed
    <2> QED BY <2>1, ChangeKeepsSound
  <1>4. ASSUME NEW t \in Text, LookUp(t) PROVE SearchIsSound'
    <2>1. search' = [Idle EXCEPT !.step = "looked_up", !.text = t]
          /\ UNCHANGED <<owner, active, changes>>
      BY <1>4 DEF LookUp
    <2>2. Typed'
      BY <1>1, <2>1, NothingTyped DEF Typed, Idle, Step, OrNone
    <2>3. LoopFindsBest'
      BY <2>1 DEF LoopFindsBest, Idle, IsBest, NoBest, RowsOf
    <2>4. RouteFits'
      BY <2>1 DEF RouteFits, Idle, NoRoute, RouteOf
    <2> QED BY <2>1, <2>2, <2>3, <2>4 DEF SearchIsSound, Idle
  <1>5. CASE List
    <2>1. /\ search.step = "looked_up"
          /\ search' = [search EXCEPT !.step = "scanning", !.rows = Listed, !.left = Listed]
          /\ UNCHANGED <<owner, active, changes>>
      BY <1>5 DEF List
    <2>2. Typed'
      BY <1>1, <2>1, ListedIsTyped DEF Typed, Step
    <2>3. LoopFindsBest'
      <3>1. IsBest(search.text, {}, search.best)
        <4>1. search.rows \ search.left = {}
          BY <2>1 DEF SearchIsSound
        <4> QED BY <2>1, <4>1 DEF SearchIsSound, LoopFindsBest
      <3>2. search'.text = search.text /\ search'.best = search.best /\ search'.rows \ search'.left = {}
        BY <1>1, <2>1 DEF Typed
      <3> QED BY <3>1, <3>2 DEF LoopFindsBest
    <2>4. RouteFits'
      BY <1>1, <2>1 DEF Typed, SearchIsSound, RouteFits, NoRoute, RouteOf
    <2> QED BY <1>1, <2>1, <2>2, <2>3, <2>4 DEF SearchIsSound, Typed
  <1>6. ASSUME NEW row \in search.left, Scan(row) PROVE SearchIsSound'
    <2> DEFINE kept == KeepBetter(search.best, row[2], ScoreTable[search.text][row[1]][row[2]])
    <2>1. /\ search.step = "scanning"
          /\ search' = [search EXCEPT !.left = search.left \ {row}, !.best = kept]
          /\ UNCHANGED <<owner, active, changes>>
      BY <1>6 DEF Scan
    <2>2. /\ search.text \in Text /\ row \in Row /\ search.rows \ search.left \in SUBSET Row
          /\ search.best \in ScoreTables /\ search.left \subseteq search.rows
      BY <1>1, <1>6, <2>1 DEF SearchIsSound, Typed
    <2>3. IsBest(search.text, search.rows \ search.left, search.best)
      BY <2>1 DEF SearchIsSound, LoopFindsBest
    <2>4. kept \in ScoreTables /\ IsBest(search.text, (search.rows \ search.left) \cup {row}, kept)
      BY <2>2, <2>3, ScanKeepsBest
    <2> HIDE DEF kept
    <2>5. Typed'
      BY <1>1, <2>1, <2>4 DEF Typed
    <2>6. /\ search'.text = search.text /\ search'.best = kept
          /\ search'.rows \ search'.left = (search.rows \ search.left) \cup {row}
      BY <1>1, <1>6, <2>1, <2>2 DEF Typed
    <2>7. LoopFindsBest'
      BY <2>4, <2>6 DEF LoopFindsBest
    <2>8. RouteFits'
      BY <1>1, <2>1 DEF Typed, SearchIsSound, RouteFits, NoRoute, RouteOf
    <2> QED BY <1>1, <2>1, <2>2, <2>5, <2>7, <2>8 DEF SearchIsSound, Typed
  <1>7. CASE Rank
    <2>1. /\ search.step = "scanning" /\ search.left = {}
          /\ UNCHANGED <<owner, active, changes>>
      BY <1>7 DEF Rank
    <2>2. PICK ranked \in Candidates(search.best) :
              search' = [search EXCEPT !.step = "ranked", !.ranked = ranked]
      BY <1>7 DEF Rank
    <2>3. ranked \in Seq(Product)
      <3>1. search.best \in ScoreTables /\ DOMAIN search.best \subseteq Product
        BY <1>1 DEF Typed, ScoreTables
      <3>2. PICK r \in Rankings(search.best) : ranked = SubSeq(r, 1, Smaller(TopK, Len(r)))
        BY <2>2 DEF Candidates
      <3>3. ranked \in Seq(DOMAIN search.best)
        BY <3>1, <3>2, CandidatesShape
      <3> QED BY <3>1, <3>3
    <2>4. Typed'
      BY <1>1, <2>1, <2>2, <2>3 DEF Typed, Step
    <2>5. /\ search'.text = search.text /\ search'.best = search.best
          /\ search'.rows = search.rows /\ search'.left = search.left
      BY <1>1, <2>2 DEF Typed
    <2>6. LoopFindsBest'
      BY <2>1, <2>5 DEF SearchIsSound, LoopFindsBest
    <2>7. RouteFits'
      BY <1>1, <2>1, <2>2 DEF Typed, SearchIsSound, RouteFits, NoRoute, RouteOf
    <2> QED BY <1>1, <2>1, <2>2, <2>4, <2>5, <2>6, <2>7 DEF SearchIsSound, Typed
  <1>8. ASSUME NEW route \in Route, search.step = "ranked",
               search' = [search EXCEPT !.step = "routed", !.route = route],
               UNCHANGED <<owner, active, changes>>,
               route.kind = "auto" <=> Resolves,
               route.kind = "auto" => route.product = Top,
               route.product # None => /\ Found /\ route.product = Top /\ Top \notin Contradicting[search.text]
                                       /\ TopMargin >= Smaller(AutoMargin, MarginThreshold)
        PROVE  SearchIsSound'
    <2>1. /\ search'.text = search.text /\ search'.best = search.best /\ search'.ranked = search.ranked
          /\ search'.rows = search.rows /\ search'.left = search.left
          /\ search'.route = route /\ search'.step = "routed"
      BY <1>1, <1>8 DEF Typed
    <2>2. Typed'
      BY <1>1, <1>8 DEF Typed, Step
    <2>3. LoopFindsBest'
      BY <1>8, <2>1 DEF SearchIsSound, LoopFindsBest
    <2>4. (Resolves <=> Resolves') /\ (Found <=> Found') /\ Top' = Top /\ TopMargin' = TopMargin
      BY <2>1 DEF Resolves, Found, Top, TopScore, TopMargin
    <2>5. RouteFits'
      BY <1>8, <2>1, <2>4 DEF RouteFits
    <2> QED BY <1>8, <2>1, <2>2, <2>3, <2>5 DEF SearchIsSound
  <1>9. Resolves => /\ Found /\ Top \notin Contradicting[search.text]
                    /\ TopMargin >= AutoMargin
    BY Zenon DEF Resolves, CanAutoResolve
  <1>10. ASSUME NEW margin \in Int
         PROVE  /\ margin >= AutoMargin => margin >= Smaller(AutoMargin, MarginThreshold)
                /\ margin >= MarginThreshold => margin >= Smaller(AutoMargin, MarginThreshold)
    BY PolicyAssumption, SMT DEF Smaller
  <1>11. CASE Resolve
    <2> DEFINE score == RetrievalDecisionScore(TopScore, TopMargin, Top \in Contradicting[search.text])
    <2>1. /\ search.step = "ranked" /\ Resolves /\ UNCHANGED <<owner, active, changes>>
          /\ search' = [search EXCEPT !.step = "routed", !.route = RouteOf("auto", Top, score)]
      BY <1>11 DEF Resolve
    <2>2. TopMargin \in Int /\ Top \in Product /\ score \in Scores
      BY <2>1, <1>9, TopIsTyped, DecisionScoreBounds
    <2> HIDE DEF score
    <2>3. RouteOf("auto", Top, score) \in Route
      BY <2>2 DEF RouteOf, Route, OrNone
    <2>4. RouteOf("auto", Top, score).kind = "auto" /\ RouteOf("auto", Top, score).product = Top
      BY DEF RouteOf
    <2>5. TopMargin >= Smaller(AutoMargin, MarginThreshold)
      BY <1>9, <1>10, <2>1, <2>2
    <2> QED BY <1>8, <1>9, <2>1, <2>3, <2>4, <2>5
  <1>12. ASSUME NEW answer \in Answers, Generate(answer) PROVE SearchIsSound'
    <2> DEFINE agrees == Found /\ Agrees(search.text, answer, Top, TopScore, TopMargin)
    <2> DEFINE flagged == OutputFlagged(search.text, answer)
    <2> DEFINE product == IF agrees /\ ~flagged THEN Top ELSE None
    <2> DEFINE score == GeneratedScore(TopScore, TopMargin, agrees, flagged)
    <2>1. /\ search.step = "ranked" /\ ~Resolves /\ UNCHANGED <<owner, active, changes>>
          /\ search' = [search EXCEPT !.step = "routed", !.route = RouteOf("generated", product, score)]
      BY <1>12 DEF Generate
    <2>2. TopMargin \in Int /\ (Found => Top \in Product) /\ score \in Scores
      BY <2>1, TopIsTyped, GeneratedScoreBounds
    <2>3. product # None => /\ Found /\ product = Top /\ Top \notin Contradicting[search.text]
                            /\ TopMargin >= MarginThreshold
      BY DEF Agrees, SupportsExisting
    <2>4. product \in OrNone(Product)
      BY <2>2 DEF OrNone
    <2> HIDE DEF score, product
    <2>5. RouteOf("generated", product, score) \in Route
      BY <2>2, <2>4 DEF RouteOf, Route
    <2>6. RouteOf("generated", product, score).kind = "generated" /\ RouteOf("generated", product, score).product = product
      BY DEF RouteOf
    <2>7. product # None => TopMargin >= Smaller(AutoMargin, MarginThreshold)
      BY <1>10, <2>2, <2>3
    <2> QED BY <1>8, <2>1, <2>3, <2>5, <2>6, <2>7
  <1>13. CASE Fail
    <2>1. /\ search.step = "ranked" /\ ~Resolves /\ UNCHANGED <<owner, active, changes>>
          /\ search' = [search EXCEPT !.step = "routed", !.route = RouteOf("failed", None, 0)]
      BY <1>13 DEF Fail
    <2>2. RouteOf("failed", None, 0) \in Route
      BY OneIsPositive DEF RouteOf, Route, OrNone, Scores
    <2>3. RouteOf("failed", None, 0).kind = "failed" /\ RouteOf("failed", None, 0).product = None
      BY DEF RouteOf
    <2> QED BY <1>8, <2>1, <2>2, <2>3
  <1>14. CASE Finish
    <2>1. search' = Idle /\ UNCHANGED <<owner, active, changes>>
      BY <1>14 DEF Finish
    <2>2. Typed'
      BY <1>1, <2>1, NothingTyped DEF Typed, Idle, Step, OrNone
    <2>3. LoopFindsBest'
      BY <2>1 DEF LoopFindsBest, Idle
    <2>4. RouteFits'
      BY <2>1 DEF RouteFits, Idle, NoRoute, RouteOf
    <2> QED BY <2>1, <2>2, <2>3, <2>4 DEF SearchIsSound, Idle
  <1>15. CASE UNCHANGED vars
    <2>1. Typed' /\ search' = search
      BY <1>1, <1>15 DEF Typed, vars
    <2> QED BY <2>1, ChangeKeepsSound
  <1> QED BY <1>2, <1>3, <1>4, <1>5, <1>6, <1>7, <1>11, <1>12, <1>13, <1>14, <1>15 DEF Next

\* The invariant holds in every state that can be reached.
LEMMA AlwaysSound == Spec => []SearchIsSound
  <1>1. Init => SearchIsSound
    BY InitIsSound
  <1>2. SearchIsSound /\ [Next]_vars => SearchIsSound'
    BY NextKeepsSound
  <1> QED BY <1>1, <1>2, PTL DEF Spec

\* Whatever is searched for and approved, tables and search keep their types.
THEOREM RetrievalTypes == Spec => []TypeOK
  <1>1. SearchIsSound => TypeOK
    BY TypedIsTypeOK DEF SearchIsSound
  <1> QED BY <1>1, AlwaysSound, PTL

\* The loop over the aliases keeps the best score of each product, for any catalog.
THEOREM RetrievalFindsBest == Spec => []LoopFindsBest
  <1>1. SearchIsSound => LoopFindsBest
    BY DEF SearchIsSound
  <1> QED BY <1>1, AlwaysSound, PTL

\* A table that holds the best scores of some rows is the one that is computed from them.
LEMMA BestIsUnique ==
    ASSUME NEW t \in Text, NEW R \in SUBSET Row, NEW best \in ScoreTables, IsBest(t, R, best)
    PROVE  best = BestOf(t, R)
  <1> DEFINE found == {row[2] : row \in R}
  <1> DEFINE ScoresOf(p) == {ScoreTable[t][row[1]][p] : row \in RowsOf(R, p)}
  <1> DEFINE Highest(p) == CHOOSE s \in ScoresOf(p) : \A other \in ScoresOf(p) : other <= s
  <1>1. best \in [found -> Scores]
    BY DEF ScoreTables, IsBest
  <1>2. ASSUME NEW p \in found PROVE best[p] = Highest(p)
    <2> DEFINE scores == ScoresOf(p)
    <2>1. scores \subseteq Int
      BY ScoreTableBounds, OneIsPositive DEF RowsOf, Row, Scores
    <2>2. best[p] \in scores /\ \A other \in scores : other <= best[p]
      BY <1>1, <1>2 DEF IsBest
    <2> HIDE DEF scores
    <2>3. ASSUME NEW s \in scores, \A other \in scores : other <= s
          PROVE  s = best[p]
      <3>1. s <= best[p] /\ best[p] <= s /\ s \in Int /\ best[p] \in Int
        BY <2>1, <2>2, <2>3
      <3> QED BY <3>1
    <2>4. best[p] = CHOOSE s \in scores : \A other \in scores : other <= s
      BY <2>2, <2>3
    <2> QED BY <2>4 DEF scores
  <1>3. BestOf(t, R) = [p \in found |-> Highest(p)]
    BY DEF BestOf
  <1> HIDE DEF found, Highest
  <1>4. best = [p \in found |-> Highest(p)]
    BY <1>1, <1>2
  <1> QED BY <1>3, <1>4

\* A routed search is routed as its rows say, whatever the order they were read in.
THEOREM RetrievalIgnoresRowOrder == Spec => []RouteIgnoresRowOrder
  <1>1. SearchIsSound => RouteIgnoresRowOrder
    <2> SUFFICES ASSUME SearchIsSound, search.step = "routed", NEW p \in Product
                 PROVE  (search.route.kind = "auto" /\ search.route.product = p)
                            <=> AutoFrom(search.text, BestOf(search.text, search.rows), p)
      BY DEF RouteIgnoresRowOrder
    <2>1. /\ search.text \in Text /\ search.rows \in SUBSET Row /\ search.best \in ScoreTables
          /\ search.left = {} /\ search.ranked \in Candidates(search.best)
      BY DEF SearchIsSound, Typed
    <2>2. search.best = BestOf(search.text, search.rows)
      <3>1. search.rows \ search.left = search.rows
        BY <2>1
      <3>2. IsBest(search.text, search.rows, search.best)
        BY <3>1 DEF SearchIsSound, LoopFindsBest
      <3> QED BY <2>1, <3>2, BestIsUnique
    <2>3. (search.route.kind = "auto" <=> Resolves) /\ (search.route.kind = "auto" => search.route.product = Top)
      BY DEF SearchIsSound, RouteFits
    <2>4. ASSUME Resolves, Top = p PROVE AutoFrom(search.text, search.best, p)
      BY <2>1, <2>4, Zenon DEF AutoFrom, Resolves, Found, Top, TopScore, TopMargin
    <2>5. ASSUME AutoFrom(search.text, search.best, p) PROVE Resolves /\ Top = p
      <3>1. PICK c \in Candidates(search.best) :
                Len(c) > 0 /\ c[1] = p /\ CanAutoResolve(search.text, p, search.best[p], Margin(search.best, c))
        BY <2>5, Zenon DEF AutoFrom
      <3>2. Found /\ Top = p /\ TopMargin = Margin(search.best, c) /\ TopScore = search.best[p]
        BY <2>1, <3>1, CandidatesAgree DEF Found, Top, TopScore, TopMargin
      <3> QED BY <3>1, <3>2, Zenon DEF Resolves
    <2> QED BY <2>2, <2>3, <2>4, <2>5
  <1> QED BY <1>1, AlwaysSound, PTL

\* Whatever product a search names, no other listed one is within the margin of it.
THEOREM RetrievalIsUnambiguous == Spec => []NamedProductIsUnambiguous
  <1>1. SearchIsSound => NamedProductIsUnambiguous
    <2> SUFFICES ASSUME SearchIsSound, search.route.product # None, TopK >= 2
                 PROVE  /\ search.route.product \notin Contradicting[search.text]
                        /\ \A rival \in search.rows : rival[2] # search.route.product =>
                              \E row \in RowsOf(search.rows, search.route.product) :
                                 ScoreTable[search.text][row[1]][row[2]]
                                    >= ScoreTable[search.text][rival[1]][rival[2]]
                                       + Smaller(AutoMargin, MarginThreshold)
      BY DEF NamedProductIsUnambiguous
    <2> DEFINE p == search.route.product
    <2>1. /\ search.step = "routed" /\ Found /\ p = Top /\ Top \notin Contradicting[search.text]
          /\ TopMargin >= Smaller(AutoMargin, MarginThreshold)
      BY DEF SearchIsSound, RouteFits
    <2>2. /\ search.text \in Text /\ search.rows \in SUBSET Row /\ search.best \in ScoreTables
          /\ search.left = {} /\ search.ranked \in Candidates(search.best)
      BY <2>1 DEF SearchIsSound, Typed
    <2>3. IsBest(search.text, search.rows, search.best)
      <3>1. search.rows \ search.left = search.rows
        BY <2>2
      <3> QED BY <2>1, <3>1 DEF SearchIsSound, LoopFindsBest
    <2>4. ASSUME NEW rival \in search.rows, rival[2] # p
          PROVE  \E row \in RowsOf(search.rows, p) :
                    ScoreTable[search.text][row[1]][row[2]]
                       >= ScoreTable[search.text][rival[1]][rival[2]] + Smaller(AutoMargin, MarginThreshold)
      <3> DEFINE q == rival[2]
      <3>1. q \in DOMAIN search.best /\ q # search.ranked[1] /\ Len(search.ranked) > 0
        BY <2>1, <2>3, <2>4 DEF IsBest, Found, Top
      <3>2. p \in DOMAIN search.best /\ search.best[p] >= search.best[q] + TopMargin
        BY <2>1, <2>2, <3>1, FirstLeads DEF Top, TopMargin
      <3>3. ScoreTable[search.text][rival[1]][q] <= search.best[q]
        BY <2>3, <2>4, <3>1 DEF IsBest, RowsOf
      <3>4. PICK row \in RowsOf(search.rows, p) : search.best[p] = ScoreTable[search.text][row[1]][p]
        BY <2>3, <3>2 DEF IsBest
      <3>5. search.best[p] \in Int /\ search.best[q] \in Int
        BY <2>2, <3>1, <3>2, OneIsPositive DEF ScoreTables, Scores
      <3>6. ScoreTable[search.text][rival[1]][q] \in Int
        BY <2>2, <2>4, ScoreTableBounds, OneIsPositive DEF Row, Scores
      <3>7. TopMargin \in Int /\ Smaller(AutoMargin, MarginThreshold) \in Int
        BY <2>2, MarginIsInteger, PolicyAssumption DEF TopMargin, Smaller
      <3>8. search.best[p] >= ScoreTable[search.text][rival[1]][q] + Smaller(AutoMargin, MarginThreshold)
        BY <2>1, <3>2, <3>3, <3>5, <3>6, <3>7, SMT
      <3>9. row[2] = p
        BY <3>4 DEF RowsOf
      <3> QED BY <3>4, <3>8, <3>9
    <2> QED BY <2>1, <2>4
  <1> QED BY <1>1, AlwaysSound, PTL

-----------------------------------------------------------------------------
(* Every table has a ranking *)

\* Of some products that were found, one is ahead of every other.
LEMMA SomeoneLeads ==
    ASSUME NEW best \in ScoreTables, DOMAIN best # {}
    PROVE  \E p \in DOMAIN best : \A q \in DOMAIN best : q # p => Ahead(best, p, q)
  <1> DEFINE missed == {One - best[p] : p \in DOMAIN best}
  <1>1. DOMAIN best \subseteq Nat /\ best \in [DOMAIN best -> Scores]
    BY ProductAssumption DEF ScoreTables
  <1>2. \A s \in Scores : s \in Int /\ One - s \in Nat
    BY OneIsPositive DEF Scores
  <1>3. missed \subseteq Nat /\ missed # {}
    BY <1>1, <1>2
  <1> HIDE DEF missed
  <1>4. PICK least \in missed : \A m \in missed : least <= m
    BY <1>3, Least
  <1> DEFINE leaders == {p \in DOMAIN best : One - best[p] = least}
  <1>5. leaders \subseteq Nat /\ leaders # {}
    BY <1>1, <1>4 DEF missed
  <1> HIDE DEF leaders
  <1>6. PICK p \in leaders : \A q \in leaders : p <= q
    BY <1>5, Least
  <1>7. p \in DOMAIN best /\ One - best[p] = least
    BY DEF leaders
  <1>8. ASSUME NEW q \in DOMAIN best, q # p PROVE Ahead(best, p, q)
    <2>1. One - best[p] <= One - best[q]
      BY <1>4, <1>7 DEF missed
    <2>2. best[p] \in Int /\ best[q] \in Int /\ p \in Nat /\ q \in Nat /\ One \in Nat
      BY <1>1, <1>2, <1>7, OneIsPositive
    <2>3. CASE best[p] = best[q]
      <3>1. p <= q
        BY <1>6, <1>7, <2>3 DEF leaders
      <3> QED BY <2>2, <2>3, <3>1, <1>8 DEF Ahead
    <2>4. CASE best[p] # best[q]
      <3>1. best[p] > best[q]
        BY <2>1, <2>2, <2>4, SMT
      <3> QED BY <3>1 DEF Ahead
    <2> QED BY <2>3, <2>4
  <1> QED BY <1>7, <1>8

\* The first product before a ranking of the others.
LEMMA FirstThenRest ==
    ASSUME NEW best \in ScoreTables,
           NEW p \in DOMAIN best, \A q \in DOMAIN best : q # p => Ahead(best, p, q),
           NEW r \in Rankings([q \in DOMAIN best \ {p} |-> best[q]])
    PROVE  Rankings(best) # {}
  <1> DEFINE D == DOMAIN best
  <1> DEFINE rest == [q \in D \ {p} |-> best[q]]
  <1> DEFINE n == Cardinality(D)
  <1>1. D \subseteq Product /\ best \in [D -> Scores]
    BY DEF ScoreTables
  <1>2. rest \in ScoreTables /\ DOMAIN rest = D \ {p}
    BY <1>1 DEF ScoreTables
  <1>3. IsFiniteSet(D) /\ n \in Nat /\ Cardinality(D \ {p}) = n - 1
    BY <1>1, ProductAssumption, FS_Subset, FS_CardinalityType, FS_RemoveElement
  <1>4. /\ Len(r) = n - 1 /\ Len(r) \in Nat
        /\ r \in Seq(D \ {p})
        /\ \A i, j \in 1 .. Len(r) : i < j => Ahead(rest, r[i], r[j])
        /\ \A q \in D \ {p} : \E i \in 1 .. Len(r) : r[i] = q
    BY <1>2, <1>3, RankingShape
  <1>5. \A i \in 1 .. n - 1 : r[i] \in D \ {p}
    BY <1>4
  <1>6. \A i, j \in 1 .. n - 1 : i < j => Ahead(best, r[i], r[j])
    BY <1>4, <1>5 DEF Ahead
  <1> HIDE DEF rest, n
  <1> DEFINE s == [i \in 1 .. n |-> IF i = 1 THEN p ELSE r[i - 1]]
  <1>7. \A i \in 1 .. n : i # 1 => i - 1 \in 1 .. n - 1
    BY <1>3
  <1>8. s \in [1 .. n -> D]
    BY <1>5, <1>7
  <1>9. ASSUME NEW i \in 1 .. n, NEW j \in 1 .. n, i < j PROVE Ahead(best, s[i], s[j])
    <2>1. j # 1 /\ j - 1 \in 1 .. n - 1 /\ s[j] = r[j - 1]
      BY <1>7, <1>9
    <2>2. CASE i = 1
      BY <2>1, <2>2, <1>5
    <2>3. CASE i # 1
      <3>1. i - 1 \in 1 .. n - 1 /\ s[i] = r[i - 1] /\ i - 1 < j - 1
        BY <1>7, <1>9, <2>3
      <3> QED BY <2>1, <3>1, <1>6
    <2> QED BY <2>2, <2>3
  <1>10. ASSUME NEW q \in D PROVE \E i \in 1 .. n : s[i] = q
    <2>1. CASE q = p
      <3>1. 1 \in 1 .. n
        BY <1>3, <1>4
      <3> QED BY <2>1, <3>1
    <2>2. CASE q # p
      <3>1. PICK i \in 1 .. n - 1 : r[i] = q
        BY <1>4, <2>2
      <3>2. i + 1 \in 1 .. n /\ i + 1 # 1 /\ (i + 1) - 1 = i
        BY <1>3
      <3>3. s[i + 1] = q
        BY <3>1, <3>2
      <3> QED BY <3>2, <3>3
    <2> QED BY <2>1, <2>2
  <1>11. DOMAIN s = 1 .. n
    OBVIOUS
  <1> HIDE DEF s
  <1>12. s \in Rankings(best)
    BY <1>8, <1>9, <1>10, <1>11 DEF Rankings, n
  <1> QED BY <1>12

\* Every table of scores can be ranked.
LEMMA RankingExists ==
    ASSUME NEW best \in ScoreTables
    PROVE  Rankings(best) # {}
  <1> DEFINE Ranked(S) == \A b \in ScoreTables : DOMAIN b = S => Rankings(b) # {}
  <1> DEFINE F == {S \in SUBSET Product : Ranked(S)}
  <1>1. {} \in F
    <2> SUFFICES ASSUME NEW b \in ScoreTables, DOMAIN b = {} PROVE Rankings(b) # {}
      OBVIOUS
    <2>1. Cardinality(DOMAIN b) = 0
      BY FS_EmptySet
    <2>2. [i \in 1 .. 0 |-> i] \in [1 .. 0 -> DOMAIN b]
      OBVIOUS
    <2>3. [i \in 1 .. 0 |-> i] \in Rankings(b)
      BY <2>1, <2>2 DEF Rankings
    <2> QED BY <2>3
  <1>2. ASSUME NEW S \in SUBSET Product, S # {}, \A x \in S : S \ {x} \in F
        PROVE  S \in F
    <2> SUFFICES ASSUME NEW b \in ScoreTables, DOMAIN b = S PROVE Rankings(b) # {}
      OBVIOUS
    <2>1. PICK p \in DOMAIN b : \A q \in DOMAIN b : q # p => Ahead(b, p, q)
      BY <1>2, SomeoneLeads
    <2>2. [q \in S \ {p} |-> b[q]] \in ScoreTables
      <3>1. b \in [S -> Scores]
        BY DEF ScoreTables
      <3>2. [q \in S \ {p} |-> b[q]] \in [S \ {p} -> Scores]
        BY <3>1
      <3>3. S \ {p} \in SUBSET Product
        OBVIOUS
      <3> QED BY <3>2, <3>3 DEF ScoreTables
    <2>3. Ranked(S \ {p})
      BY <1>2, <2>1
    <2>4. PICK r \in Rankings([q \in S \ {p} |-> b[q]]) : TRUE
      BY <2>2, <2>3
    <2> QED BY <2>1, <2>4, FirstThenRest
  <1> HIDE DEF F
  <1>3. \A S \in SUBSET Product : IsFiniteSet(S) => S \in F
    BY <1>1, <1>2, InductOverSets
  <1>4. DOMAIN best \in SUBSET Product
    BY DEF ScoreTables
  <1>5. IsFiniteSet(DOMAIN best)
    BY <1>4, ProductAssumption, FS_Subset
  <1>6. Ranked(DOMAIN best)
    BY <1>3, <1>4, <1>5 DEF F
  <1> QED BY <1>6

-----------------------------------------------------------------------------
(* What one more alias changes *)

\* The product ahead of all others is the first candidate, and no other is.
LEMMA LeaderIsFirst ==
    ASSUME NEW best \in ScoreTables, NEW c \in Candidates(best)
    PROVE  /\ Len(c) > 0 => /\ c[1] \in DOMAIN best
                           /\ \A q \in DOMAIN best : q # c[1] => Ahead(best, c[1], q)
           /\ \A p \in DOMAIN best :
                 (\A q \in DOMAIN best : q # p => Ahead(best, p, q)) => Len(c) > 0 /\ c[1] = p
  <1>1. PICK r \in Rankings(best) : c = SubSeq(r, 1, Smaller(TopK, Len(r)))
    BY DEF Candidates
  <1>2. /\ Len(c) = Smaller(TopK, Len(r))
        /\ \A i \in 1 .. Len(c) : c[i] = r[i]
    BY <1>1, CandidatesShape
  <1>3. /\ Len(r) \in Nat
        /\ \A i \in 1 .. Len(r) : r[i] \in DOMAIN best
        /\ \A i, j \in 1 .. Len(r) : i < j => Ahead(best, r[i], r[j])
        /\ \A q \in DOMAIN best : \E i \in 1 .. Len(r) : r[i] = q
    BY RankingShape
  <1>4. (Len(c) > 0 <=> Len(r) > 0) /\ (Len(c) > 0 => c[1] = r[1])
    BY <1>2, <1>3, PolicyAssumption, SMT DEF Smaller
  <1>5. ASSUME NEW q \in DOMAIN best, Len(r) > 0, q # r[1] PROVE Ahead(best, r[1], q)
    <2>1. PICK i \in 1 .. Len(r) : r[i] = q
      BY <1>3
    <2>2. 1 \in 1 .. Len(r) /\ 1 < i
      BY <1>3, <1>5, <2>1
    <2> QED BY <1>3, <2>1, <2>2, Zenon
  <1>6. ASSUME NEW p \in DOMAIN best, \A q \in DOMAIN best : q # p => Ahead(best, p, q)
        PROVE  Len(r) > 0 /\ r[1] = p
    <2>1. Len(r) > 0 /\ r[1] \in DOMAIN best
      BY <1>3, <1>6
    <2>2. ASSUME r[1] # p PROVE FALSE
      <3>1. Ahead(best, r[1], p) /\ Ahead(best, p, r[1])
        BY <1>5, <1>6, <2>1, <2>2
      <3> QED BY <2>1, <3>1, AheadIsStrict
    <2> QED BY <2>1, <2>2
  <1>7. Len(r) > 0 => r[1] \in DOMAIN best
    BY <1>3
  <1> QED BY <1>4, <1>5, <1>6, <1>7

\* The margin of the first candidate: its whole score when nobody else is seen, and else the
\* distance to some other product, which is at most that to any.
LEMMA MarginOfFirst ==
    ASSUME NEW best \in ScoreTables, NEW c \in Candidates(best), Len(c) > 0
    PROVE  /\ TopK = 1 => Margin(best, c) = best[c[1]]
           /\ DOMAIN best = {c[1]} => Margin(best, c) = best[c[1]]
           /\ TopK # 1 /\ DOMAIN best # {c[1]} =>
                 /\ \E q \in DOMAIN best \ {c[1]} : Margin(best, c) = best[c[1]] - best[q]
                 /\ \A q \in DOMAIN best \ {c[1]} : Margin(best, c) <= best[c[1]] - best[q]
  <1>1. PICK r \in Rankings(best) : c = SubSeq(r, 1, Smaller(TopK, Len(r)))
    BY DEF Candidates
  <1>2. /\ Len(c) = Smaller(TopK, Len(r))
        /\ \A i \in 1 .. Len(c) : c[i] = r[i]
    BY <1>1, CandidatesShape
  <1>3. /\ Len(r) \in Nat
        /\ \A i \in 1 .. Len(r) : r[i] \in DOMAIN best
        /\ \A i, j \in 1 .. Len(r) : i < j => Ahead(best, r[i], r[j])
        /\ \A q \in DOMAIN best : \E i \in 1 .. Len(r) : r[i] = q
    BY RankingShape
  <1>4. Len(c) \in Nat /\ Len(c) <= Len(r) /\ TopK \in Nat \ {0}
    BY <1>2, <1>3, PolicyAssumption, SMT DEF Smaller
  <1>5. c[1] = r[1] /\ c[1] \in DOMAIN best
    BY <1>2, <1>3, <1>4
  <1>6. CASE TopK = 1
    <2>1. Len(c) = 1
      BY <1>2, <1>4, <1>6 DEF Smaller
    <2> QED BY <1>6, <2>1 DEF Margin
  <1>7. ASSUME DOMAIN best = {c[1]}, Len(r) > 1 PROVE FALSE
    <2>1. r[1] = r[2] /\ Ahead(best, r[1], r[2])
      BY <1>3, <1>7
    <2> QED BY <1>5, <2>1, AheadIsStrict
  <1>8. CASE DOMAIN best = {c[1]}
    <2>1. ~(Len(r) > 1)
      BY <1>7, <1>8
    <2>2. Len(c) = 1
      BY <1>3, <1>4, <2>1
    <2> QED BY <1>8, <2>2 DEF Margin
  <1>9. CASE TopK # 1 /\ DOMAIN best # {c[1]}
    <2>1. PICK q \in DOMAIN best : q # c[1]
      BY <1>5, <1>9
    <2>2. TopK >= 2
      BY <1>4, <1>9
    <2>3. Len(r) > 1
      <3>1. PICK i \in 1 .. Len(r) : r[i] = q
        BY <1>3
      <3> QED BY <3>1, <2>1, <1>5, <1>3
    <2>4. Len(c) > 1 /\ c[2] = r[2]
      BY <1>2, <1>3, <2>2, <2>3 DEF Smaller
    <2>5. Margin(best, c) = best[c[1]] - best[r[2]] /\ r[2] \in DOMAIN best
      BY <1>3, <2>3, <2>4 DEF Margin
    <2>6. r[2] # c[1]
      <3>1. Ahead(best, r[1], r[2])
        BY <1>3, <2>3
      <3> QED BY <3>1, <1>5, <2>5, AheadIsStrict
    <2>7. ASSUME NEW p \in DOMAIN best \ {c[1]} PROVE Margin(best, c) <= best[c[1]] - best[p]
      <3>1. best[c[1]] >= best[p] + Margin(best, c)
        BY <2>2, FirstLeads
      <3>2. best[c[1]] \in Int /\ best[p] \in Int /\ Margin(best, c) \in Int
        BY <1>5, MarginIsInteger, OneIsPositive DEF ScoreTables, Scores
      <3> QED BY <3>1, <3>2
    <2> QED BY <1>9, <2>5, <2>6, <2>7
  <1> QED BY <1>6, <1>8, <1>9

\* A higher score and a wider margin resolve what a lower score and a narrower one do.
LEMMA BetterStillResolves ==
    ASSUME NEW t \in Text, NEW p \in Product,
           NEW low \in Scores, NEW high \in Scores, low <= high,
           NEW narrow \in Int, NEW wide \in Int, narrow <= wide,
           CanAutoResolve(t, p, low, narrow)
    PROVE  CanAutoResolve(t, p, high, wide)
  <1> DEFINE conflict == p \in Contradicting[t]
  <1> DEFINE Half(score, margin) == 2 * score + Smaller(300000, Larger(0, margin))
  <1> DEFINE a == Half(low, narrow)
  <1> DEFINE b == Half(high, wide)
  <1>1. low \in Int /\ high \in Int
    BY OneIsPositive DEF Scores
  <1>2. a \in Int /\ b \in Int /\ a <= b
    BY <1>1, SMT DEF Smaller, Larger
  <1>3. /\ RetrievalDecisionScore(low, narrow, conflict)
              = Clamped(IF conflict THEN Rounded(a, 4) ELSE Rounded(a, 2), 999000)
        /\ RetrievalDecisionScore(high, wide, conflict)
              = Clamped(IF conflict THEN Rounded(b, 4) ELSE Rounded(b, 2), 999000)
    BY DEF RetrievalDecisionScore
  <1> HIDE DEF a, b
  <1>4. /\ Rounded(a, 4) \in Int /\ Rounded(b, 4) \in Int /\ Rounded(a, 4) <= Rounded(b, 4)
        /\ Rounded(a, 2) \in Int /\ Rounded(b, 2) \in Int /\ Rounded(a, 2) <= Rounded(b, 2)
    BY <1>2, SMT DEF Rounded
  <1>5. \A m, n \in Int : m <= n => Clamped(m, 999000) \in Int /\ Clamped(n, 999000) \in Int
                                   /\ Clamped(m, 999000) <= Clamped(n, 999000)
    BY SMT DEF Clamped, Smaller, Larger
  <1>6. /\ RetrievalDecisionScore(low, narrow, conflict) \in Int
        /\ RetrievalDecisionScore(high, wide, conflict) \in Int
        /\ RetrievalDecisionScore(low, narrow, conflict) <= RetrievalDecisionScore(high, wide, conflict)
    <2>1. CASE conflict
      BY <2>1, <1>3, <1>4, <1>5
    <2>2. CASE ~conflict
      BY <2>2, <1>3, <1>4, <1>5
    <2> QED BY <2>1, <2>2
  <1>7. ~conflict /\ low >= ProposalThreshold /\ narrow >= AutoMargin
        /\ RetrievalDecisionScore(low, narrow, conflict) >= AutoThreshold
    BY DEF CanAutoResolve
  <1>8. {ProposalThreshold, AutoMargin, AutoThreshold} \subseteq Int
    BY PolicyAssumption
  <1> HIDE DEF conflict
  <1>9. /\ high >= ProposalThreshold /\ wide >= AutoMargin
        /\ RetrievalDecisionScore(high, wide, conflict) >= AutoThreshold
    BY <1>1, <1>6, <1>7, <1>8
  <1> QED BY <1>7, <1>9 DEF CanAutoResolve, conflict

\* Any rows have a best score for each of their products.
LEMMA BestExists ==
    ASSUME NEW t \in Text, NEW R \in SUBSET Row
    PROVE  BestOf(t, R) \in ScoreTables /\ IsBest(t, R, BestOf(t, R))
  <1> DEFINE found == {row[2] : row \in R}
  <1> DEFINE ScoresOf(p) == {ScoreTable[t][row[1]][p] : row \in RowsOf(R, p)}
  <1> DEFINE Highest(p) == CHOOSE s \in ScoresOf(p) : \A other \in ScoresOf(p) : other <= s
  <1>1. found \subseteq Product /\ \A row \in R : row[1] \in Text
    BY DEF Row
  <1>2. ASSUME NEW p \in found
        PROVE  /\ Highest(p) \in ScoresOf(p) /\ ScoresOf(p) \subseteq Scores
               /\ \A other \in ScoresOf(p) : other <= Highest(p)
    <2> DEFINE scores == ScoresOf(p)
    <2> DEFINE missed == {One - s : s \in scores}
    <2>1. scores # {}
      BY DEF RowsOf
    <2>2. scores \subseteq Scores
      BY <1>1, ScoreTableBounds DEF RowsOf
    <2> HIDE DEF scores
    <2>3. \A s \in scores : s \in Int /\ One - s \in Nat
      BY <2>2, OneIsPositive DEF Scores
    <2>4. missed \subseteq Nat /\ missed # {}
      BY <2>1, <2>3
    <2>5. PICK least \in missed : \A m \in missed : least <= m
      BY <2>4, Least
    <2>6. PICK s \in scores : least = One - s
      BY <2>5
    <2>7. ASSUME NEW other \in scores PROVE other <= s
      <3>1. One - s <= One - other
        BY <2>5, <2>6
      <3> QED BY <3>1, <2>3, OneIsPositive
    <2>8. Highest(p) \in scores /\ \A other \in scores : other <= Highest(p)
      BY <2>7 DEF scores
    <2> QED BY <2>2, <2>8 DEF scores
  <1>3. BestOf(t, R) = [p \in found |-> Highest(p)]
    BY DEF BestOf
  <1>4. ASSUME NEW p \in found
        PROVE  /\ \E row \in RowsOf(R, p) : Highest(p) = ScoreTable[t][row[1]][p]
               /\ \A row \in RowsOf(R, p) : ScoreTable[t][row[1]][p] <= Highest(p)
    <2> HIDE DEF Highest
    <2> QED BY <1>2
  <1>5. \A p \in found : Highest(p) \in Scores
    BY <1>2
  <1> HIDE DEF Highest, ScoresOf
  <1>6. BestOf(t, R) \in [found -> Scores]
    BY <1>3, <1>5
  <1>7. BestOf(t, R) \in ScoreTables
    BY <1>1, <1>6 DEF ScoreTables
  <1>8. IsBest(t, R, BestOf(t, R))
    BY <1>3, <1>4 DEF IsBest
  <1> QED BY <1>7, <1>8

\* A row of another product resolves nothing to p that was not resolved to it before.
LEMMA RivalHinders ==
    ASSUME NEW best \in ScoreTables, NEW more \in ScoreTables,
           NEW t \in Text, NEW p \in Product, NEW q \in Product, q # p,
           DOMAIN more = DOMAIN best \cup {q},
           \A r \in DOMAIN best : best[r] <= more[r] /\ (r # q => more[r] = best[r]),
           AutoFrom(t, more, p)
    PROVE  AutoFrom(t, best, p)
  <1>1. PICK d \in Candidates(more) :
           Len(d) > 0 /\ d[1] = p /\ CanAutoResolve(t, p, more[p], Margin(more, d))
    BY Zenon DEF AutoFrom
  <1>2. p \in DOMAIN more /\ \A r \in DOMAIN more : r # p => Ahead(more, p, r)
    BY <1>1, LeaderIsFirst
  <1>3. p \in DOMAIN best /\ more[p] = best[p]
    BY <1>2
  <1>4. /\ DOMAIN best \subseteq Nat
        /\ \A r \in DOMAIN best : best[r] \in Int /\ more[r] \in Int
    <2>1. DOMAIN best \subseteq Nat
      BY ProductAssumption DEF ScoreTables
    <2>2. Scores \subseteq Int
      BY OneIsPositive DEF Scores
    <2>3. \A r \in DOMAIN best : best[r] \in Scores /\ more[r] \in Scores
      BY DEF ScoreTables
    <2> QED BY <2>1, <2>2, <2>3
  <1>5. ASSUME NEW r \in DOMAIN best, r # p PROVE Ahead(best, p, r)
    <2>1. Ahead(more, p, r) /\ best[r] <= more[r]
      BY <1>2, <1>5
    <2> QED BY <1>3, <1>4, <2>1, SMT DEF Ahead
  <1>6. PICK c \in Candidates(best) : TRUE
    BY RankingExists DEF Candidates
  <1>7. Len(c) > 0 /\ c[1] = p
    BY <1>3, <1>5, LeaderIsFirst
  <1>8. Margin(best, c) \in Int /\ Margin(more, d) \in Int
    BY MarginIsInteger
  <1>9. Margin(more, d) <= Margin(best, c)
    <2>1. CASE TopK = 1
      BY <2>1, <1>1, <1>3, <1>4, <1>7, MarginOfFirst
    <2>2. CASE TopK # 1
      <3>1. q \in DOMAIN more \ {p} /\ DOMAIN more # {p}
        OBVIOUS
      <3>2. \A r \in DOMAIN more \ {p} : Margin(more, d) <= more[p] - more[r]
        BY <1>1, <2>2, <3>1, MarginOfFirst
      <3>3. CASE DOMAIN best = {p}
        <4>1. Margin(best, c) = best[p]
          BY <1>7, <3>3, MarginOfFirst
        <4>2. more[q] \in Nat
          BY <3>1, OneIsPositive DEF ScoreTables, Scores
        <4> QED BY <1>3, <1>4, <1>8, <3>1, <3>2, <4>1, <4>2
      <3>4. CASE DOMAIN best # {p}
        <4>1. PICK r \in DOMAIN best \ {p} : Margin(best, c) = best[p] - best[r]
          BY <1>7, <2>2, <3>4, MarginOfFirst
        <4>2. Margin(more, d) <= more[p] - more[r] /\ best[r] <= more[r]
          BY <3>2, <4>1
        <4> QED BY <1>3, <1>4, <1>8, <4>1, <4>2
      <3> QED BY <3>3, <3>4
    <2> QED BY <2>1, <2>2
  <1>10. best[p] \in Scores
    BY <1>3 DEF ScoreTables
  <1>11. best[p] <= best[p]
    BY <1>3, <1>4
  <1>12. CanAutoResolve(t, p, best[p], Margin(best, c))
    BY <1>1, <1>3, <1>8, <1>9, <1>10, <1>11, BetterStillResolves
  <1> QED BY <1>7, <1>12, Zenon DEF AutoFrom

\* A row more of product p leaves it what was resolved to it.
LEMMA LearningKeeps ==
    ASSUME NEW best \in ScoreTables, NEW more \in ScoreTables,
           NEW t \in Text, NEW p \in Product,
           DOMAIN more = DOMAIN best \cup {p},
           \A r \in DOMAIN best : best[r] <= more[r] /\ (r # p => more[r] = best[r]),
           AutoFrom(t, best, p)
    PROVE  AutoFrom(t, more, p)
  <1>1. PICK c \in Candidates(best) :
           Len(c) > 0 /\ c[1] = p /\ CanAutoResolve(t, p, best[p], Margin(best, c))
    BY Zenon DEF AutoFrom
  <1>2. p \in DOMAIN best /\ \A r \in DOMAIN best : r # p => Ahead(best, p, r)
    BY <1>1, LeaderIsFirst
  <1>3. DOMAIN more = DOMAIN best
    BY <1>2
  <1>4. \A r \in DOMAIN best : best[r] \in Int /\ more[r] \in Int
    BY <1>3, OneIsPositive DEF ScoreTables, Scores
  <1>5. ASSUME NEW r \in DOMAIN more, r # p PROVE Ahead(more, p, r)
    <2>1. Ahead(best, p, r) /\ best[p] <= more[p] /\ best[r] = more[r]
      BY <1>2, <1>3, <1>5
    <2> QED BY <1>2, <1>3, <1>4, <2>1, SMT DEF Ahead
  <1>6. PICK d \in Candidates(more) : TRUE
    BY RankingExists DEF Candidates
  <1>7. Len(d) > 0 /\ d[1] = p
    BY <1>2, <1>3, <1>5, LeaderIsFirst
  <1>8. Margin(best, c) \in Int /\ Margin(more, d) \in Int
    BY MarginIsInteger
  <1>9. Margin(best, c) <= Margin(more, d)
    <2>1. CASE TopK = 1 \/ DOMAIN best = {p}
      <3>1. Margin(best, c) = best[p] /\ Margin(more, d) = more[p]
        BY <2>1, <1>1, <1>3, <1>7, MarginOfFirst
      <3> QED BY <1>2, <3>1
    <2>2. CASE TopK # 1 /\ DOMAIN best # {p}
      <3>1. PICK r \in DOMAIN more \ {p} : Margin(more, d) = more[p] - more[r]
        BY <1>3, <1>7, <2>2, MarginOfFirst
      <3>2. Margin(best, c) <= best[p] - best[r] /\ best[r] = more[r] /\ best[p] <= more[p]
        BY <1>1, <1>2, <1>3, <2>2, <3>1, MarginOfFirst
      <3> QED BY <1>2, <1>3, <1>4, <1>8, <3>1, <3>2
    <2> QED BY <2>1, <2>2
  <1>10. best[p] \in Scores /\ more[p] \in Scores /\ best[p] <= more[p]
    BY <1>2, <1>3 DEF ScoreTables
  <1>11. CanAutoResolve(t, p, more[p], Margin(more, d))
    BY <1>1, <1>8, <1>9, <1>10, BetterStillResolves
  <1> QED BY <1>7, <1>11, Zenon DEF AutoFrom

\* A step that adds an alias of q lists one row more, or none when q is not active.
LEMMA AddedRow ==
    ASSUME Typed, NEW q \in Product, Adds(q)
    PROVE  /\ Listed \in SUBSET Row
           /\ Listed' = Listed \/ \E x \in Text : Listed' = Listed \cup {<<x, q>>}
  <1>1. PICK x \in Text : owner[x] = None /\ owner' = [owner EXCEPT ![x] = q] /\ active' = active
    BY DEF Adds
  <1>2. owner \in [Text -> OrNone(Product)] /\ active \subseteq Product /\ None \notin active
    BY ProductAssumption DEF Typed
  <1>3. Listed \in SUBSET Row
    BY <1>2 DEF Listed, Row
  <1>4. \A y \in Text : owner'[y] = IF y = x THEN q ELSE owner[y]
    BY <1>1, <1>2
  <1>5. {y \in Text : owner'[y] \in active'} =
           {y \in Text : owner[y] \in active} \cup (IF q \in active THEN {x} ELSE {})
    BY <1>1, <1>2, <1>4
  <1>6. CASE q \in active
    <2>1. Listed' = Listed \cup {<<x, q>>}
      BY <1>1, <1>2, <1>4, <1>5, <1>6 DEF Listed
    <2> QED BY <1>3, <2>1
  <1>7. CASE q \notin active
    <2>1. Listed' = Listed
      BY <1>1, <1>2, <1>4, <1>5, <1>7 DEF Listed
    <2> QED BY <1>3, <2>1
  <1> QED BY <1>6, <1>7

\* One row more of product q leaves it what the rows resolve to it, and resolves nothing more
\* to any other product.
LEMMA OneRowMore ==
    ASSUME NEW t \in Text, NEW R \in SUBSET Row, NEW x \in Text, NEW q \in Product
    PROVE  /\ AutoFrom(t, BestOf(t, R), q) => AutoFrom(t, BestOf(t, R \cup {<<x, q>>}), q)
           /\ \A p \in Product :
                 p # q /\ AutoFrom(t, BestOf(t, R \cup {<<x, q>>}), p)
                    => AutoFrom(t, BestOf(t, R), p)
  <1> DEFINE best == BestOf(t, R)
  <1> DEFINE row == <<x, q>>
  <1> DEFINE score == ScoreTable[t][row[1]][row[2]]
  <1> DEFINE more == KeepBetter(best, row[2], score)
  <1>1. row \in Row /\ row[1] = x /\ row[2] = q
    BY DEF Row
  <1>2. score \in Scores
    BY <1>1, ScoreTableBounds
  <1>3. best \in ScoreTables /\ IsBest(t, R, best)
    BY BestExists
  <1> HIDE DEF best, row
  <1>4. more \in ScoreTables /\ IsBest(t, R \cup {row}, more)
    BY <1>1, <1>3, ScanKeepsBest
  <1>5. more = BestOf(t, R \cup {row})
    <2> HIDE DEF more
    <2>1. R \cup {row} \in SUBSET Row
      BY <1>1
    <2> QED BY <1>4, <2>1, BestIsUnique
  <1> HIDE DEF score
  <1>6. /\ DOMAIN more = DOMAIN best \cup {q}
        /\ \A p \in DOMAIN best : best[p] <= more[p] /\ (p # q => more[p] = best[p])
    <2>1. \A p \in DOMAIN best : best[p] \in Int
      BY <1>3, OneIsPositive DEF ScoreTables, Scores
    <2>2. score \in Int
      BY <1>2, OneIsPositive DEF Scores
    <2>3. more = KeepBetter(best, q, score)
      BY <1>1
    <2> HIDE DEF more
    <2> QED BY <2>1, <2>2, <2>3 DEF KeepBetter
  <1> HIDE DEF more
  <1>7. AutoFrom(t, best, q) => AutoFrom(t, more, q)
    BY <1>3, <1>4, <1>6, LearningKeeps
  <1>8. ASSUME NEW p \in Product, p # q, AutoFrom(t, more, p) PROVE AutoFrom(t, best, p)
    BY <1>3, <1>4, <1>6, <1>8, RivalHinders
  <1> QED BY <1>5, <1>7, <1>8 DEF best, row

\* An alias of a rival never lets a product be resolved automatically, for any catalog and
\* any policy, a single candidate kept or many.
THEOREM RivalHindersAlways == Spec => RivalsOnlyHinder
  <1>1. SearchIsSound => \A t \in Text, p, q \in Product :
                            (Adds(q) /\ q # p /\ AutoNow(t, p)') => AutoNow(t, p)
    <2> SUFFICES ASSUME Typed, NEW t \in Text, NEW p \in Product, NEW q \in Product,
                        Adds(q), q # p, AutoFrom(t, BestOf(t, Listed'), p)
                 PROVE  AutoFrom(t, BestOf(t, Listed), p)
      BY DEF SearchIsSound, AutoNow
    <2>1. CASE Listed' = Listed
      BY <2>1
    <2>2. ASSUME NEW x \in Text, Listed' = Listed \cup {<<x, q>>}
          PROVE  AutoFrom(t, BestOf(t, Listed), p)
      BY <2>2, AddedRow, OneRowMore
    <2> QED BY <2>1, <2>2, AddedRow
  <1> QED BY <1>1, AlwaysSound, PTL DEF RivalsOnlyHinder

\* One more alias of a product takes no text away from it.
THEOREM LearningKeepsAlways == Spec => LearningKeepsRoutes
  <1>1. SearchIsSound => \A t \in Text, p \in Product :
                            (Adds(p) /\ AutoNow(t, p)) => AutoNow(t, p)'
    <2> SUFFICES ASSUME Typed, NEW t \in Text, NEW p \in Product,
                        Adds(p), AutoFrom(t, BestOf(t, Listed), p)
                 PROVE  AutoFrom(t, BestOf(t, Listed'), p)
      BY DEF SearchIsSound, AutoNow
    <2>1. CASE Listed' = Listed
      BY <2>1
    <2>2. ASSUME NEW x \in Text, Listed' = Listed \cup {<<x, p>>}
          PROVE  AutoFrom(t, BestOf(t, Listed'), p)
      <3>1. Listed \in SUBSET Row
        BY AddedRow
      <3>2. AutoFrom(t, BestOf(t, Listed \cup {<<x, p>>}), p)
        BY <2>2, <3>1, OneRowMore
      <3> QED BY <2>2, <3>2
    <2> QED BY <2>1, <2>2, AddedRow
  <1> QED BY <1>1, AlwaysSound, PTL DEF LearningKeepsRoutes
=============================================================================

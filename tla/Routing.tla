------------------------------- MODULE Routing -------------------------------
(***************************************************************************)
(* How a description nobody has approved is routed: the attributes read    *)
(* from it (domain/attributes.py), the score of an approved alias          *)
(* (infrastructure/retrieval/hybrid.py), the policy scores                 *)
(* (application/review_scoring.py), the automatic resolution and the       *)
(* checks on a model's answer (application/canonicalization.py,            *)
(* security/input_guard.py).  Operators only; Retrieval runs them.         *)
(*                                                                         *)
(* A score is an integer number of millionths: the code works on floats    *)
(* and rounds to six digits.                                               *)
(***************************************************************************)
EXTENDS Integers, Sequences, FiniteSets

CONSTANTS
    Text,                \* normalized descriptions, of lines and of aliases
    Product,             \* product identifiers, in the order they sort
    Tokens,              \* Text -> the set of its tokens
    Lexical,             \* Text -> Text -> sequence similarity
    Trigram,             \* Text -> Text -> trigram similarity
    Terms,               \* attribute -> the terms that name a value, in order
    Attributes,          \* Product -> its attributes
    Category,            \* Product -> its category
    Semantic,            \* Text -> the scores of the products a reranker knows
    SemanticWeight,      \* in tenths
    TopK,                \* candidates kept
    ProposalThreshold, MarginThreshold,
    AutoThreshold, AutoMargin,
    None

One == 1000000
Scores == 0 .. One

ASSUME ProductAssumption ==
    Product \subseteq Nat /\ IsFiniteSet(Product) /\ None \notin Product
ASSUME SimilarityAssumption ==
    /\ Lexical \in [Text -> [Text -> Scores]]
    /\ Trigram \in [Text -> [Text -> Scores]]
ASSUME TextAssumption ==
    \A t \in Text :
        /\ IsFiniteSet(Tokens[t])
        /\ \A p \in DOMAIN Semantic[t] : Semantic[t][p] \in Int
ASSUME PolicyAssumption ==
    /\ TopK \in Nat \ {0}
    /\ SemanticWeight \in Int
    /\ {ProposalThreshold, MarginThreshold, AutoThreshold, AutoMargin} \subseteq Nat

-----------------------------------------------------------------------------
(* Arithmetic on scores *)

Rounded(n, d) == (n + d \div 2) \div d

Smaller(a, b) == IF a <= b THEN a ELSE b
Larger(a, b) == IF a <= b THEN b ELSE a
Clamped(n, top) == Smaller(top, Larger(0, n))

-----------------------------------------------------------------------------
(* Attributes are partial functions from names to values *)

Protected == {"color", "material", "size", "model"}

\* The terms of attribute k that occur in text t, by their rank.
Hits(t, k) == {i \in DOMAIN Terms[k] : Terms[k][i][1] \in Tokens[t]}

\* Of several terms in one text, the first of the dictionary wins.
FirstHit(t, k) == CHOOSE i \in Hits(t, k) : \A j \in Hits(t, k) : i <= j

Extracted(t) ==
    [k \in {key \in DOMAIN Terms : Hits(t, key) # {}} |-> Terms[k][FirstHit(t, k)][2]]

Conflicts(source, candidate) ==
    {k \in Protected \cap DOMAIN source \cap DOMAIN candidate : source[k] # candidate[k]}

Unsupported(source, candidate) ==
    (Protected \cap DOMAIN candidate) \ DOMAIN source

-----------------------------------------------------------------------------
(* The score of alias text x of product p for a line with text t *)

Contradicts(t, p) == Conflicts(Extracted(t), Attributes[p]) # {}

TokenOverlap(t, x) ==
    IF Tokens[t] \cup Tokens[x] = {}
    THEN One
    ELSE Rounded(One * Cardinality(Tokens[t] \cap Tokens[x]), Cardinality(Tokens[t] \cup Tokens[x]))

CategoryBonus(t, p) ==
    IF "category_hint" \in DOMAIN Extracted(t) /\ Extracted(t)["category_hint"] = Category[p]
    THEN One ELSE 0

AttributeScore(t, p) == IF Contradicts(t, p) THEN 0 ELSE One

\* In tenths of a score.
BaseScore(t, x, p) ==
    Smaller(10 * One,
            4 * Lexical[t][x] + 3 * TokenOverlap(t, x) + 2 * Trigram[t][x]
            + AttributeScore(t, p) + CategoryBonus(t, p))

\* In hundredths of a score.  The weight is clipped by the constructor.
MixedScore(t, x, p) ==
    LET weight == Clamped(SemanticWeight, 5)
    IN  IF p \in DOMAIN Semantic[t]
        THEN (10 - weight) * BaseScore(t, x, p) + 10 * weight * Clamped(Semantic[t][p], One)
        ELSE 10 * BaseScore(t, x, p)

Score(t, x, p) ==
    IF Contradicts(t, p)
    THEN Rounded(7 * MixedScore(t, x, p), 2000)
    ELSE Rounded(MixedScore(t, x, p), 100)

\* The scores and contradictions as tables, which TLC computes once.
ScoreTable == [t \in Text |-> [x \in Text |-> [p \in Product |-> Score(t, x, p)]]]
Contradicting == [t \in Text |-> {p \in Product : Contradicts(t, p)}]

-----------------------------------------------------------------------------
(* Ranking *)

\* best is the score of every product found.
Ahead(best, p, q) == best[p] > best[q] \/ (best[p] = best[q] /\ p < q)

\* sorted(...): every product found, each ahead of the ones after it.
Rankings(best) ==
    {r \in [1 .. Cardinality(DOMAIN best) -> DOMAIN best] :
        /\ \A i, j \in DOMAIN r : i < j => Ahead(best, r[i], r[j])
        /\ \A p \in DOMAIN best : \E i \in DOMAIN r : r[i] = p}

Candidates(best) == {SubSeq(r, 1, Smaller(TopK, Len(r))) : r \in Rankings(best)}

\* Mutant: a candidate without a runner-up has no margin.
MarginWithoutDefault(best, ranked) ==
    IF Len(ranked) > 1 THEN best[ranked[1]] - best[ranked[2]] ELSE 0

Margin(best, ranked) ==
    IF Len(ranked) > 1 THEN best[ranked[1]] - best[ranked[2]]
    ELSE IF Len(ranked) = 1 THEN best[ranked[1]] ELSE 0

-----------------------------------------------------------------------------
(* Policy *)

\* Mutant: the score is not capped.
UncappedDecisionScore(score, margin, conflict) ==
    LET halves == 2 * score + Smaller(300000, Larger(0, margin))
    IN  IF conflict THEN Rounded(halves, 4) ELSE Rounded(halves, 2)

RetrievalDecisionScore(score, margin, conflict) ==
    LET halves == 2 * score + Smaller(300000, Larger(0, margin))
    IN  Clamped(IF conflict THEN Rounded(halves, 4) ELSE Rounded(halves, 2), 999000)

\* In tenths, before it is rounded and capped.
Merit(score, margin, agrees) ==
    4500000 + 3 * score + Smaller(One, 4 * margin) + (IF agrees THEN One ELSE 0)

GeneratedScore(score, margin, agrees, flagged) ==
    LET merit == Merit(score, margin, agrees)
    IN  Clamped(Rounded(IF flagged THEN merit - 3500000 ELSE merit, 10), 950000)

\* Mutant: the margin is not asked for.
AutoWithoutMargin(t, p, score, margin) ==
    /\ score >= ProposalThreshold
    /\ RetrievalDecisionScore(score, margin, p \in Contradicting[t]) >= AutoThreshold
    /\ p \notin Contradicting[t]

\* can_auto_resolve
CanAutoResolve(t, p, score, margin) ==
    /\ score >= ProposalThreshold
    /\ margin >= AutoMargin
    /\ RetrievalDecisionScore(score, margin, p \in Contradicting[t]) >= AutoThreshold
    /\ p \notin Contradicting[t]

SupportsExisting(t, p, score, margin) ==
    /\ score >= ProposalThreshold
    /\ margin >= MarginThreshold
    /\ p \notin Contradicting[t]

(* A model's answer: the products whose description it repeats, the flaws  *)
(* of its wording, and the attributes it claims.                           *)
Flaws == {"empty", "too_long", "url", "control_characters"}

OutputFlagged(t, answer) ==
    answer.flaws # {} \/ Unsupported(Extracted(t), answer.attributes) # {}

Agrees(t, answer, p, score, margin) ==
    SupportsExisting(t, p, score, margin) /\ p \in answer.repeats
=============================================================================

------------------------------ MODULE Retrieval ------------------------------
(***************************************************************************)
(* One search of the approved catalog, from the alias lookup that finds    *)
(* nothing to the route the line takes: the aliases are listed once, in    *)
(* an order SQL does not fix, scanned one row at a time, ranked, and the   *)
(* first candidate is resolved automatically or the line goes to a model   *)
(* (HybridRetriever.search and the second half of                          *)
(* CanonicalizationService.canonicalize).  Reviewers keep approving        *)
(* aliases meanwhile.  Two searches share nothing but the tables, so one   *)
(* search at a time is enough.                                             *)
(***************************************************************************)
EXTENDS Routing

CONSTANTS
    Answers,       \* what a model may answer
    MaxChanges     \* approvals and withdrawals of one behaviour

ASSUME AnswerAssumption == \A answer \in Answers : answer.repeats \subseteq Product
ASSUME ChangesAssumption == MaxChanges \in Nat
ASSUME NoneAssumption == None \notin Text

VARIABLES
    owner,      \* product_aliases: the product of an approved alias
    active,     \* canonical_products with active = 1
    search,     \* the search under way
    changes     \* approvals and withdrawals so far

vars == <<owner, active, search, changes>>

OrNone(S) == S \cup {None}
Row == Text \X Product
Step == {"idle", "looked_up", "scanning", "ranked", "routed"}
NoBest == [p \in {} |-> 0]

Route == [kind    : {"none", "auto", "generated", "failed"},
          product : OrNone(Product),     \* of the decision, or of the review's target
          score   : Scores]
RouteOf(kind, product, score) == [kind |-> kind, product |-> product, score |-> score]
NoRoute == RouteOf("none", None, 0)

Idle == [step |-> "idle", text |-> None, rows |-> {}, left |-> {}, best |-> NoBest,
         ranked |-> <<>>, route |-> NoRoute]

-----------------------------------------------------------------------------
(* The catalog *)

\* Mutant: the query groups by product and keeps one alias of each.
ListedByProduct ==
    {<<CHOOSE x \in Text : owner[x] = p, p>> : p \in {owner[x] : x \in Text} \cap active}

\* list_aliases
Listed == {<<x, owner[x]>> : x \in {y \in Text : owner[y] \in active}}

\* A review is approved: its text becomes an alias of an active product.
Approve(x, p) ==
    /\ changes < MaxChanges
    /\ p \in active
    /\ owner' = [owner EXCEPT ![x] = p]
    /\ changes' = changes + 1
    /\ UNCHANGED <<active, search>>

\* No code of the repository withdraws a product; every query allows for it.
Withdraw(p) ==
    /\ changes < MaxChanges
    /\ p \in active
    /\ active' = active \ {p}
    /\ changes' = changes + 1
    /\ UNCHANGED <<owner, search>>

-----------------------------------------------------------------------------
(* The search *)

\* find_approved_alias finds nothing for the text.
LookUp(t) ==
    /\ search.step = "idle"
    /\ owner[t] = None
    /\ search' = [Idle EXCEPT !.step = "looked_up", !.text = t]
    /\ UNCHANGED <<owner, active, changes>>

List ==
    /\ search.step = "looked_up"
    /\ search' = [search EXCEPT !.step = "scanning", !.rows = Listed, !.left = Listed]
    /\ UNCHANGED <<owner, active, changes>>

\* Mutant: the last row of a product replaces the ones before it.
KeepLast(best, p, score) ==
    [q \in DOMAIN best \cup {p} |-> IF q = p THEN score ELSE best[q]]

\* current is None or candidate.score > current.score
KeepBetter(best, p, score) ==
    [q \in DOMAIN best \cup {p} |->
        IF q = p /\ (p \notin DOMAIN best \/ score > best[p]) THEN score ELSE best[q]]

Scan(row) ==
    /\ search.step = "scanning"
    /\ row \in search.left
    /\ search' = [search EXCEPT
                     !.left = @ \ {row},
                     !.best = KeepBetter(@, row[2], ScoreTable[search.text][row[1]][row[2]])]
    /\ UNCHANGED <<owner, active, changes>>

\* Mutant: the rows are ranked before they are all read.
RankEarly ==
    /\ search.step = "scanning"
    /\ \E ranked \in Candidates(search.best) :
          search' = [search EXCEPT !.step = "ranked", !.ranked = ranked]
    /\ UNCHANGED <<owner, active, changes>>

Rank ==
    /\ search.step = "scanning"
    /\ search.left = {}
    /\ \E ranked \in Candidates(search.best) :
          search' = [search EXCEPT !.step = "ranked", !.ranked = ranked]
    /\ UNCHANGED <<owner, active, changes>>

Found == Len(search.ranked) > 0
Top == search.ranked[1]
TopScore == IF Found THEN search.best[Top] ELSE 0
TopMargin == Margin(search.best, search.ranked)

Resolves == Found /\ CanAutoResolve(search.text, Top, TopScore, TopMargin)

Resolve ==
    /\ search.step = "ranked"
    /\ Resolves
    /\ search' = [search EXCEPT
          !.step = "routed",
          !.route = RouteOf("auto", Top,
                            RetrievalDecisionScore(TopScore, TopMargin, Top \in Contradicting[search.text]))]
    /\ UNCHANGED <<owner, active, changes>>

Generate(answer) ==
    /\ search.step = "ranked"
    /\ ~Resolves
    /\ LET agrees == Found /\ Agrees(search.text, answer, Top, TopScore, TopMargin)
           flagged == OutputFlagged(search.text, answer)
       IN  search' = [search EXCEPT
              !.step = "routed",
              !.route = RouteOf("generated",
                                IF agrees /\ ~flagged THEN Top ELSE None,
                                GeneratedScore(TopScore, TopMargin, agrees, flagged))]
    /\ UNCHANGED <<owner, active, changes>>

\* BudgetExceededError or ProviderError
Fail ==
    /\ search.step = "ranked"
    /\ ~Resolves
    /\ search' = [search EXCEPT !.step = "routed", !.route = RouteOf("failed", None, 0)]
    /\ UNCHANGED <<owner, active, changes>>

Finish ==
    /\ search.step = "routed"
    /\ search' = Idle
    /\ UNCHANGED <<owner, active, changes>>

-----------------------------------------------------------------------------

Init ==
    /\ owner \in [Text -> OrNone(Product)]     \* any seed catalog
    /\ active = Product
    /\ search = Idle
    /\ changes = 0

Next ==
    \/ \E x \in Text, p \in Product : Approve(x, p)
    \/ \E p \in Product : Withdraw(p)
    \/ \E t \in Text : LookUp(t)
    \/ List
    \/ \E row \in search.left : Scan(row)
    \/ Rank
    \/ Resolve
    \/ \E answer \in Answers : Generate(answer)
    \/ Fail
    \/ Finish

Spec == Init /\ [][Next]_vars

-----------------------------------------------------------------------------
(* Properties *)

\* The tables and the search hold values of their types.
TypeOK ==
    /\ owner \in [Text -> OrNone(Product)]
    /\ active \subseteq Product
    /\ changes \in 0 .. MaxChanges
    /\ DOMAIN search.best \subseteq Product
    /\ search \in [step   : Step,
                   text   : OrNone(Text),
                   rows   : SUBSET Row,
                   left   : SUBSET Row,
                   best   : [DOMAIN search.best -> Scores],
                   ranked : Seq(Product),
                   route  : Route]
    /\ search.left \subseteq search.rows

\* The rows of product p, and whether a table of scores holds the best of each product.
RowsOf(R, p) == {row \in R : row[2] = p}
IsBest(t, R, best) ==
    /\ DOMAIN best = {row[2] : row \in R}
    /\ \A p \in DOMAIN best :
          /\ \E row \in RowsOf(R, p) : best[p] = ScoreTable[t][row[1]][p]
          /\ \A row \in RowsOf(R, p) : ScoreTable[t][row[1]][p] <= best[p]

\* At every row of the scan the table holds the best score of each product met so far:
\* what the loop over the aliases in HybridRetriever.search keeps, whatever their order.
LoopFindsBest ==
    search.step # "idle" => IsBest(search.text, search.rows \ search.left, search.best)

\* A table of best scores routes text t to product p automatically.
AutoFrom(t, best, p) ==
    \E ranked \in Candidates(best) :
        /\ Len(ranked) > 0
        /\ ranked[1] = p
        /\ CanAutoResolve(t, p, best[p], Margin(best, ranked))

BestOf(t, R) ==
    [p \in {row[2] : row \in R} |->
        LET scores == {ScoreTable[t][row[1]][p] : row \in RowsOf(R, p)}
        IN  CHOOSE s \in scores : \A other \in scores : other <= s]

\* What a search that lists the aliases now would do.
AutoNow(t, p) == AutoFrom(t, BestOf(t, Listed), p)

\* The route depends on the rows that were listed and not on the order they came in:
\* SQL fixes none, and ties between products are broken by their identifiers.
RouteIgnoresRowOrder ==
    search.step = "routed" =>
        \A p \in Product :
            (search.route.kind = "auto" /\ search.route.product = p)
                <=> AutoFrom(search.text, BestOf(search.text, search.rows), p)

\* A product that is named for a line, by an automatic resolution or as the target of its
\* review, contradicts nothing the text says and is ahead of every other listed product by
\* the margin of the policy.  With one candidate kept, the runner-up is not seen at all.
NamedProductIsUnambiguous ==
    (search.route.product # None /\ TopK >= 2) =>
        /\ search.route.product \notin Contradicting[search.text]
        /\ \A rival \in search.rows : rival[2] # search.route.product =>
              \E row \in RowsOf(search.rows, search.route.product) :
                  ScoreTable[search.text][row[1]][row[2]]
                      >= ScoreTable[search.text][rival[1]][rival[2]] + Smaller(AutoMargin, MarginThreshold)

\* A step that only adds an alias, to product p.
Adds(p) ==
    \E x \in Text : owner[x] = None /\ owner' = [owner EXCEPT ![x] = p] /\ active' = active

\* Approving an alias of one product never lets another one be resolved automatically: more
\* knowledge about a rival can only make a text more ambiguous.  It needs a single candidate
\* to be given the whole score as its margin.
RivalsOnlyHinder ==
    [][\A t \in Text, p, q \in Product : (Adds(q) /\ q # p /\ AutoNow(t, p)') => AutoNow(t, p)]_vars

\* Approving one more alias of a product never takes a text away from it: what was resolved
\* automatically before the review still is.
LearningKeepsRoutes ==
    [][\A t \in Text, p \in Product : (Adds(p) /\ AutoNow(t, p)) => AutoNow(t, p)']_vars
=============================================================================

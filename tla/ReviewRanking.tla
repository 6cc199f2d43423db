---------------------------- MODULE ReviewRanking ----------------------------
(***************************************************************************)
(* What a review row says about its urgency: how many lines wait for it,   *)
(* their amounts per currency, the score of the proposal, and the priority *)
(* computed from them, which three transactions write and the reviewers'   *)
(* list is sorted by (create_or_update_review, record_review_occurrence,   *)
(* update_pending_review and list_reviews of the SQLite repository, and    *)
(* review_priority_score).  A concept stands for a partner and a           *)
(* normalized description, the candidate_key of a review.                  *)
(***************************************************************************)
EXTENDS Integers, FiniteSets

CONSTANTS
    Tenant, Concept, ReviewId,
    Currency,       \* with Unspecified, for a line that names none
    Unspecified,
    Amount,         \* of a line; a credit is negative
    MaxAmount,      \* bound: on an amount, whatever its sign
    Score,          \* of a proposal; a placeholder has the least
    Placeholder,
    Rank(_, _, _),  \* review_priority_score of lines, comparable value and score
    MaxLines,       \* bound: invoice lines canonicalized in all
    Waiting,        \* line that a review has waited with since earlier, or None
    None

Abs(amount) == IF amount < 0 THEN -amount ELSE amount

ASSUME CurrencyAssumption ==
    /\ IsFiniteSet(Currency) /\ Unspecified \in Currency
    /\ {None, "MIXED"} \cap Currency = {} /\ None # "MIXED"
ASSUME ScoreAssumption == Placeholder \in Score /\ Score \subseteq Nat
ASSUME AmountAssumption ==
    MaxAmount \in Nat /\ 0 \in Amount /\ Amount \subseteq -MaxAmount .. MaxAmount
ASSUME LinesAssumption == MaxLines \in Nat \ {0}
\* frequency, impact and uncertainty: more lines, more money and less
\* certainty never make a review less urgent.
ASSUME RankAssumption ==
    \A m, n \in 1..(MaxLines + 1), s, t \in Score :
        \A v, w \in 0..((MaxLines + 1) * MaxAmount) :
            /\ Rank(m, v, s) \in Nat
            /\ m <= n /\ v <= w /\ t <= s => Rank(m, v, s) <= Rank(n, w, t)

VARIABLE rows      \* table reviews

Line == [tenant : Tenant, concept : Concept, amount : Amount, currency : Currency]

ASSUME WaitingAssumption == Waiting \in [ReviewId -> Line \cup {None}] /\ None \notin Line

NoAmounts == [k \in Currency |-> 0]
NoRow == [status |-> "absent", tenant |-> None, concept |-> None, lines |-> 0,
          amounts |-> NoAmounts, shown |-> 0, currency |-> None,
          score |-> Placeholder, priority |-> 0]

Waits(r) == rows[r].status = "pending"
PendingFor(tenant, concept) ==
    {r \in ReviewId : Waits(r) /\ rows[r].tenant = tenant /\ rows[r].concept = concept}

-----------------------------------------------------------------------------
(* The amount a row shows, and its priority *)

Stated(amounts) == {k \in Currency : amounts[k] # 0}

\* _display_value_currency: amounts of two currencies are not added up.
Shown(amounts) ==
    LET stated == Stated(amounts) IN
    IF Cardinality(stated) # 1 THEN 0 ELSE amounts[CHOOSE k \in stated : TRUE]
ShownCurrency(amounts) ==
    LET stated == Stated(amounts) IN
    IF stated \subseteq {Unspecified} THEN None
    ELSE IF Cardinality(stated) = 1 THEN CHOOSE k \in stated : TRUE ELSE "MIXED"

\* Mutant: a credit is taken off.
AddedSigned(amounts, line) == [amounts EXCEPT ![line.currency] = @ + line.amount]

Added(amounts, line) == [amounts EXCEPT ![line.currency] = @ + Abs(line.amount)]

\* A row after its lines or amounts have changed.
Ranked(row) ==
    LET shown == Shown(row.amounts) IN
    [row EXCEPT !.shown = shown, !.currency = ShownCurrency(row.amounts),
                !.priority = Rank(row.lines, shown, row.score)]

-----------------------------------------------------------------------------
(* The transactions *)

NewRow(line, score) ==
    Ranked([NoRow EXCEPT !.status = "pending", !.tenant = line.tenant,
                         !.concept = line.concept, !.lines = 1, !.score = score,
                         !.amounts = Added(NoAmounts, line)])

RankingInit ==
    rows = [r \in ReviewId |-> IF Waiting[r] = None THEN NoRow
                               ELSE NewRow(Waiting[r], Placeholder)]

\* The INSERT of create_or_update_review, under the unique index on pending rows.
InsertReview(r, line, score) ==
    /\ rows[r].status = "absent"
    /\ PendingFor(line.tenant, line.concept) = {}
    /\ rows' = [rows EXCEPT ![r] = NewRow(line, score)]

\* Mutant: a line replaces the amount of its currency.
RecordLastAmount(r, line) ==
    rows' = [rows EXCEPT ![r] = Ranked(
                [@ EXCEPT !.lines = @ + 1, !.amounts[line.currency] = Abs(line.amount)])]

\* record_review_occurrence of a row that still waits.
RecordOccurrence(r, line) ==
    LET more == [rows[r] EXCEPT !.lines = @ + 1, !.amounts = Added(@, line)] IN
    rows' = [rows EXCEPT ![r] = Ranked(more)]

\* Mutant: the priority is that of the placeholder the caller holds, of one line.
UpdateFromPlaceholder(r, score) ==
    rows' = [rows EXCEPT ![r].score = score, ![r].priority = Rank(1, rows[r].shown, score)]

\* update_pending_review takes lines and amount from the row, not from the caller.
UpdatePending(r, score) ==
    rows' = [rows EXCEPT
                ![r].score = score,
                ![r].priority = Rank(rows[r].lines,
                                     IF rows[r].currency = "MIXED" THEN 0 ELSE rows[r].shown,
                                     score)]

\* approve_review and reject_review; what the row says of its urgency is never
\* looked at again.
Resolve(r) == rows' = [rows EXCEPT ![r] = [NoRow EXCEPT !.status = "resolved",
                                                        !.tenant = rows[r].tenant]]

Before(p, q) ==
    \/ rows[p].priority > rows[q].priority
    \/ rows[p].priority = rows[q].priority /\ rows[p].lines > rows[q].lines

\* list_reviews of pending rows, without the oldest-first order among equals.
Listings(tenant, limit) ==
    LET waiting == {r \in ReviewId : Waits(r) /\ rows[r].tenant = tenant} IN
    {S \in SUBSET waiting :
        /\ Cardinality(S) = IF Cardinality(waiting) < limit THEN Cardinality(waiting) ELSE limit
        /\ \A p \in S, q \in waiting \ S : ~Before(q, p)}

-----------------------------------------------------------------------------
(* Properties *)

Row == [status : {"absent", "pending", "resolved"}, tenant : Tenant \cup {None},
        concept : Concept \cup {None}, lines : Nat, amounts : [Currency -> Nat],
        shown : Nat, currency : Currency \cup {None, "MIXED"}, score : Score, priority : Nat]
RowsTypeOK == rows \in [ReviewId -> Row]

\* How urgent a review is by what has arrived for it, whatever its row says.
Urgency(r) == Rank(rows[r].lines, Shown(rows[r].amounts), rows[r].score)

\* A list that ends early hides no review more urgent than one it shows
\* (list_reviews, sqlite_repository.py:654-673): the stored priority keeps up
\* with lines that are recorded while a model proposal is on its way to the
\* same row.
UrgentFirst ==
    \A tenant \in Tenant, limit \in 1..Cardinality(ReviewId) :
        \A S \in Listings(tenant, limit) : \A p \in S, q \in ReviewId \ S :
            Waits(q) /\ rows[q].tenant = tenant => ~(Urgency(q) > Urgency(p))

\* Another line never makes a review less urgent, credits included, with the
\* exception that _display_value_currency makes: its second currency leaves
\* only frequency and uncertainty.
LinesOnlyRaise ==
    [][\A r \in ReviewId :
          Waits(r) /\ rows'[r].lines > rows[r].lines
              /\ rows'[r].currency \notin {"MIXED"} \ {rows[r].currency}
          => rows'[r].priority >= rows[r].priority]_rows
=============================================================================

----------------------------- MODULE CatalogStore -----------------------------
(***************************************************************************)
(* The SQLite catalog of one tenant and business partner                   *)
(* (infrastructure/db/sqlite_repository.py): approved products and their   *)
(* aliases, cached decisions, reviews and the audit trail.  Every method   *)
(* of the repository opens a connection of its own, so each operator below *)
(* is one atomic transaction; the operators are actions on the tables they *)
(* write, and the caller's action leaves the other tables unchanged.       *)
(*                                                                         *)
(* A Concept is a normalized description.  line_hash, candidate_key and    *)
(* the normalized alias are all functions of tenant, partner and           *)
(* normalized description, so a concept is the key of all three tables.    *)
(***************************************************************************)
EXTENDS Naturals

CONSTANTS
    Concept,     \* normalized descriptions
    Product,     \* product identifiers
    ReviewId,    \* review identifiers (uuid4: never reused)
    Seed,        \* aliases loaded by seed_from_file: Concept -> Product or None
    None         \* SQL NULL and Python None

ASSUME NoneAssumption == None \notin Concept \cup Product \cup ReviewId
ASSUME SeedAssumption == Seed \in [Concept -> Product \cup {None}]

VARIABLES
    \* tables
    catalog,      \* canonical_products: absent, active or inactive
    alias,        \* product_aliases: the product an approved alias points at
    decisions,    \* decisions: the last decision saved for the concept
    reviews,      \* reviews
    trail,        \* audit_events, as a set of <<event_type, subject>>
    \* history
    everApproved  \* the products each concept's alias has ever pointed at

tables == <<catalog, alias, decisions, reviews, trail, everApproved>>

-----------------------------------------------------------------------------
(* Rows *)

OrNone(S) == S \cup {None}

Decision == [kind    : {"NONE", "EXACT_ALIAS", "AUTO_RETRIEVAL", "GENERATED_CANDIDATE",
                        "PENDING_REVIEW_REUSE", "ABSTAINED", "CACHED"},
             product : OrNone(Product),
             human   : BOOLEAN,           \* requires_human_review
             review  : OrNone(ReviewId)]

DecisionOf(kind, product, human, review) ==
    [kind |-> kind, product |-> product, human |-> human, review |-> review]

NoDecision == DecisionOf("NONE", None, FALSE, None)

Review == [status      : {"absent", "pending", "approved", "rejected"},
           concept     : OrNone(Concept),  \* candidate_key
           target      : OrNone(Product),  \* target_product_id
           blocks      : BOOLEAN,          \* blocks_transaction
           generating  : BOOLEAN,          \* risk flag generation_in_progress
           llm         : BOOLEAN,          \* llm_used
           occurrences : Nat]              \* occurrence_count

NoReview == [status |-> "absent", concept |-> None, target |-> None, blocks |-> FALSE,
             generating |-> FALSE, llm |-> FALSE, occurrences |-> 0]

Event == {"canonicalization_exact_alias", "canonicalization_auto_resolved_staged",
          "canonicalization_review_created", "review_approved", "review_rejected",
          "review_deferred", "review_action_applied"}

StoreTypeOK ==
    /\ catalog \in [Product -> {"absent", "active", "inactive"}]
    /\ alias \in [Concept -> OrNone(Product)]
    /\ decisions \in [Concept -> Decision]
    /\ reviews \in [ReviewId -> Review]
    /\ trail \subseteq Event \X (Concept \cup ReviewId)
    /\ everApproved \in [Concept -> SUBSET Product]

StoreInit ==
    /\ catalog = [p \in Product |->
                    IF \E c \in Concept : Seed[c] = p THEN "active" ELSE "absent"]
    /\ alias = Seed
    /\ decisions = [c \in Concept |-> NoDecision]
    /\ reviews = [r \in ReviewId |-> NoReview]
    /\ trail = {}
    /\ everApproved = [c \in Concept |-> {Seed[c]} \ {None}]

-----------------------------------------------------------------------------
(* Reads *)

Pending(r) == reviews[r].status = "pending"

\* find_pending_review_by_candidate_key
PendingOf(c) == {r \in ReviewId : Pending(r) /\ reviews[r].concept = c}

\* get_product returns active rows only
IsActive(p) == p \in Product /\ catalog[p] = "active"

\* list_aliases: products the retriever can rank
Retrievable == {p \in Product : IsActive(p) /\ \E c \in Concept : alias[c] = p}

-----------------------------------------------------------------------------
(* Transactions on reviews *)

\* Mutant: the partial unique index is missing.
InsertReviewUnindexed(r, row) ==
    /\ reviews[r].status = "absent"
    /\ reviews' = [reviews EXCEPT ![r] = row]

\* The INSERT of create_or_update_review; the partial unique index
\* uq_pending_candidate admits one pending row per concept.
InsertReview(r, row) ==
    /\ PendingOf(row.concept) = {}
    /\ reviews[r].status = "absent"
    /\ reviews' = [reviews EXCEPT ![r] = row]

\* record_review_occurrence on a row that is still pending
RecordOccurrence(r) ==
    /\ Pending(r)
    /\ reviews' = [reviews EXCEPT ![r].occurrences = @ + 1]

\* update_pending_review: machine proposal fields only; identity, status and
\* occurrence accounting stay as the row has them.
UpdatePending(r, target, llm) ==
    /\ Pending(r)
    /\ reviews' = [reviews EXCEPT ![r].target = target,
                                  ![r].blocks = TRUE,
                                  ![r].generating = FALSE,
                                  ![r].llm = llm]

\* approve_review: with a target the product must be active; without one a
\* new product is inserted under a fresh identifier.  The alias of the
\* concept is upserted to the product, whatever it pointed at before.
Promote(r, p) ==
    LET c == reviews[r].concept IN
    /\ alias' = [alias EXCEPT ![c] = p]
    /\ everApproved' = [everApproved EXCEPT ![c] = @ \cup {p}]
    /\ reviews' = [reviews EXCEPT ![r].status = "approved", ![r].target = p]

ApproveWithTarget(r, p) ==
    /\ Pending(r)
    /\ IsActive(p)
    /\ Promote(r, p)
    /\ UNCHANGED catalog

ApproveAsNew(r, p) ==
    /\ Pending(r)
    /\ catalog[p] = "absent"
    /\ catalog' = [catalog EXCEPT ![p] = "active"]
    /\ Promote(r, p)

\* Mutant: reject_review without its status check.
RejectUnchecked(r) == reviews' = [reviews EXCEPT ![r].status = "rejected"]

\* reject_review
Reject(r) ==
    /\ Pending(r)
    /\ reviews' = [reviews EXCEPT ![r].status = "rejected"]

-----------------------------------------------------------------------------
(* Other transactions *)

\* save_decision: insert or replace the cached result of the concept
Save(c, decision) == decisions' = [decisions EXCEPT ![c] = decision]

\* record_audit
Audit(event, subject) == trail' = trail \cup {<<event, subject>>}

\* A database operator clears the active flag every product query tests; no
\* code in the package does.
DeactivateProduct(p) ==
    /\ IsActive(p)
    /\ catalog' = [catalog EXCEPT ![p] = "inactive"]
    /\ UNCHANGED <<alias, decisions, reviews, trail, everApproved>>
=============================================================================

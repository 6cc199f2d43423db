---------------------------- MODULE ReviewService ----------------------------
(***************************************************************************)
(* Reviewers resolving reviews through ReviewService                       *)
(* (application/reviews.py), called from the /approve, /reject and /action *)
(* endpoints (api/app.py), the CLI and the CSV queue.  apply_action reads  *)
(* the review, resolves it and audits it in up to four transactions; the   *)
(* /approve and /reject endpoints start at the resolving transaction.      *)
(***************************************************************************)
EXTENDS CatalogStore

CONSTANTS
    Reviewer,
    Verdicts     \* verdicts reviewers reach: "approve", "reject", "defer"

ASSUME VerdictsAssumption == Verdicts \subseteq {"approve", "reject", "defer"}

VARIABLE desk      \* what each reviewer is doing

Desk == [pc     : {"idle", "approve", "reject", "defer", "audit", "note"},
         review : OrNone(ReviewId),
         target : OrNone(Product),   \* target_product_id handed to approve
         event  : OrNone(Event),     \* audit event still to be written
         action : BOOLEAN]           \* came through apply_action

Free == [pc |-> "idle", review |-> None, target |-> None, event |-> None, action |-> FALSE]

ReviewTypeOK == desk \in [Reviewer -> Desk]

ReviewInit == desk = [v \in Reviewer |-> Free]

Turn(v, next) == desk' = [desk EXCEPT ![v] = next]

-----------------------------------------------------------------------------
\* apply_action: get_review finds the row pending.  The target is the
\* reviewer's override (redirect, edit_and_approve), the override or the
\* row's own target (approve_existing), or none (approve_new).
TakeUpAction(v, r, verdict, target) ==
    /\ desk[v].pc = "idle"
    /\ Pending(r)
    /\ verdict # "approve" => target = None
    /\ Turn(v, [Free EXCEPT !.pc = verdict, !.review = r, !.target = target, !.action = TRUE])
    /\ UNCHANGED tables

\* POST /v1/reviews/{id}/approve and /reject act on any review unread.
TakeUpRequest(v, r, verdict, target) ==
    /\ desk[v].pc = "idle"
    /\ reviews[r].status # "absent"
    /\ verdict \in {"approve", "reject"}
    /\ verdict # "approve" => target = None
    /\ Turn(v, [Free EXCEPT !.pc = verdict, !.review = r, !.target = target])
    /\ UNCHANGED tables

\* A resolved review is audited next; the target is not looked at again.
Resolved(v, event) ==
    Turn(v, [desk[v] EXCEPT !.pc = "audit", !.event = event, !.target = None])

\* Mutant: the approval is not audited.
ApproveExistingUnaudited(v) ==
    /\ desk[v].pc = "approve"
    /\ desk[v].target # None
    /\ ApproveWithTarget(desk[v].review, desk[v].target)
    /\ Turn(v, Free)
    /\ UNCHANGED <<decisions, trail>>

ApproveExisting(v) ==
    /\ desk[v].pc = "approve"
    /\ desk[v].target # None
    /\ ApproveWithTarget(desk[v].review, desk[v].target)
    /\ Resolved(v, "review_approved")
    /\ UNCHANGED <<decisions, trail>>

\* Mutant: no product is inserted when no target was given.
ApproveNewUninserted(v) ==
    /\ desk[v].pc = "approve"
    /\ desk[v].target = None
    /\ Pending(desk[v].review)
    /\ Promote(desk[v].review, desk[v].target)
    /\ Resolved(v, "review_approved")
    /\ UNCHANGED <<catalog, decisions, trail>>

ApproveNew(v) ==
    /\ desk[v].pc = "approve"
    /\ desk[v].target = None
    /\ \E p \in Product : ApproveAsNew(desk[v].review, p)
    /\ Resolved(v, "review_approved")
    /\ UNCHANGED <<decisions, trail>>

RejectReview(v) ==
    /\ desk[v].pc = "reject"
    /\ Reject(desk[v].review)
    /\ Resolved(v, "review_rejected")
    /\ UNCHANGED <<catalog, alias, decisions, trail, everApproved>>

\* defer reads the review once more and writes nothing but its audit row.
DeferReview(v) ==
    /\ desk[v].pc = "defer"
    /\ Pending(desk[v].review)
    /\ Resolved(v, "review_deferred")
    /\ UNCHANGED tables

\* ReviewConflictError: someone else resolved the review first, or the
\* target is not an active product of the scope.
Conflict(v) ==
    /\ desk[v].pc \in {"approve", "reject", "defer"}
    /\ \/ ~Pending(desk[v].review)
       \/ desk[v].target # None /\ ~IsActive(desk[v].target)
    /\ Turn(v, Free)
    /\ UNCHANGED tables

\* record_audit of approve, reject and defer; apply_action adds a second
\* row after an approval.
AuditResolution(v) ==
    /\ desk[v].pc = "audit"
    /\ Audit(desk[v].event, desk[v].review)
    /\ Turn(v, IF desk[v].action /\ desk[v].event = "review_approved"
                 THEN [desk[v] EXCEPT !.pc = "note", !.event = "review_action_applied"]
                 ELSE Free)
    /\ UNCHANGED <<catalog, alias, decisions, reviews, everApproved>>

AuditAction(v) ==
    /\ desk[v].pc = "note"
    /\ Audit(desk[v].event, desk[v].review)
    /\ Turn(v, Free)
    /\ UNCHANGED <<catalog, alias, decisions, reviews, everApproved>>

\* The process dies or the database stays locked between two transactions.
AbandonReview(v) ==
    /\ desk[v].pc # "idle"
    /\ Turn(v, Free)
    /\ UNCHANGED tables

ProceedReview(v) ==
    \/ ApproveExisting(v) \/ ApproveNew(v) \/ RejectReview(v) \/ DeferReview(v)
    \/ Conflict(v) \/ AuditResolution(v) \/ AuditAction(v)

TakeUp(v) ==
    \E r \in ReviewId, verdict \in Verdicts, target \in OrNone(Product) :
        TakeUpAction(v, r, verdict, target) \/ TakeUpRequest(v, r, verdict, target)

ReviewNext == \E v \in Reviewer : TakeUp(v) \/ ProceedReview(v)
=============================================================================

----------------------- MODULE CanonicalizationService -----------------------
(***************************************************************************)
(* CanonicalizationService.canonicalize (application/canonicalization.py), *)
(* run by any number of workers: API threads and command-line processes    *)
(* that share the catalog and no lock.  A worker takes one repository      *)
(* transaction, retrieval or model call per step, and anything may happen  *)
(* between two steps of a worker.                                          *)
(***************************************************************************)
EXTENDS CatalogStore

CONSTANTS
    Worker,
    Incoming,    \* lines that arrive: <<concept, detect_untrusted_instruction flags it>>
    MaxLines     \* bound: invoice lines canonicalized in all

ASSUME IncomingAssumption == Incoming \subseteq Concept \X BOOLEAN
ASSUME MaxLinesAssumption == MaxLines \in Nat

VARIABLES
    call,        \* the worker's call of canonicalize, in progress or ended
    lines,       \* calls begun so far
    modelCalls   \* history: model calls made on behalf of each review

service == <<call, lines, modelCalls>>

Ended == {"idle", "answered", "failed"}

Route == {"reuse", "abstain", "auto", "generate"}

Outcome == {"none", "refused", "overrun", "provider_error", "agrees", "novel", "unsafe"}

Call == [pc       : Ended \cup {"alias", "product", "pending", "record", "search", "stage",
                                "lost", "reread", "reserve", "model", "settle",
                                "save", "saveaudited", "audit"},
         concept  : OrNone(Concept),
         flagged  : BOOLEAN,            \* flags of line 66, later orphan_alias too
         cached   : Decision,           \* what get_cached_decision returned
         product  : OrNone(Product),    \* exact alias, or top candidate that has support
         route    : Route,              \* who asked for the review
         review   : OrNone(ReviewId),   \* review the line is attached to
         claim    : OrNone(ReviewId),   \* review this call inserted
         outcome  : Outcome,            \* of the model call
         result   : Decision,
         recorded : Nat,                \* history: occurrences recorded by this call
         began    : OrNone(Product)]    \* history: the concept's alias when the call began

Resting == [pc |-> "idle", concept |-> None, flagged |-> FALSE, cached |-> NoDecision,
            product |-> None, route |-> "reuse", review |-> None, claim |-> None,
            outcome |-> "none", result |-> NoDecision, recorded |-> 0, began |-> None]

ServiceTypeOK ==
    /\ call \in [Worker -> Call]
    /\ lines \in 0..MaxLines
    /\ modelCalls \in [ReviewId -> Nat]

ServiceInit ==
    /\ call = [w \in Worker |-> Resting]
    /\ lines = 0
    /\ modelCalls = [r \in ReviewId |-> 0]

At(w, pc) == call[w].pc = pc

Continue(w, next) == call' = [call EXCEPT ![w] = next]

\* The call has its result; of its locals only what is still looked at is kept.
Conclude(w, pc, result) ==
    Continue(w, [Resting EXCEPT !.pc = pc, !.result = result,
                                !.concept = call[w].concept,
                                !.recorded = call[w].recorded,
                                !.began = call[w].began])

Answer(w, result) == Conclude(w, "answered", result)

\* A decision is built in memory; it is saved in a step of its own, and some
\* decisions are audited in another.
Decide(w, then, kind, product, human, review) ==
    Conclude(w, then, DecisionOf(kind, product, human, review))

\* The call raises to its caller; nothing it has written is undone.
Raise(w) == Continue(w, [Resting EXCEPT !.pc = "failed"])

-----------------------------------------------------------------------------
(* Cached and approved knowledge *)

Begin(c) == [Resting EXCEPT !.concept = c, !.began = alias[c]]

\* A cached decision that needs no human; a missing row is no decision.
Final(decision) == decision.kind # "NONE" /\ ~decision.human

AsCached(decision) == [decision EXCEPT !.kind = "CACHED"]

\* Mutant: any final decision is answered from the cache alone.
SafeWithReview(c) == Final(decisions[c])

\* A final decision to which no review is attached is answered from the cache
\* alone.
SafeInCache(c) == Final(decisions[c]) /\ decisions[c].review = None

CacheHit(w, c) ==
    /\ call[w].pc \in Ended
    /\ lines < MaxLines
    /\ SafeInCache(c)
    /\ lines' = lines + 1
    /\ Continue(w, [Begin(c) EXCEPT !.pc = "answered", !.result = AsCached(decisions[c])])
    /\ UNCHANGED <<tables, modelCalls>>

CacheMiss(w, c, flagged) ==
    /\ call[w].pc \in Ended
    /\ lines < MaxLines
    /\ ~SafeInCache(c)
    /\ lines' = lines + 1
    /\ Continue(w, [Begin(c) EXCEPT !.pc = "alias", !.flagged = flagged,
                                    !.cached = decisions[c]])
    /\ UNCHANGED <<tables, modelCalls>>

FindApprovedAlias(w) ==
    /\ At(w, "alias")
    /\ LET p == alias[call[w].concept] IN
       Continue(w, [call[w] EXCEPT !.product = p,
                                   !.pc = IF p = None THEN "pending" ELSE "product"])
    /\ UNCHANGED <<tables, lines, modelCalls>>

GetProduct(w) ==
    /\ At(w, "product")
    /\ IsActive(call[w].product)
    /\ Decide(w, "saveaudited", "EXACT_ALIAS", call[w].product, FALSE, None)
    /\ UNCHANGED <<tables, lines, modelCalls>>

OrphanAlias(w) ==
    /\ At(w, "product")
    /\ ~IsActive(call[w].product)
    /\ Continue(w, [call[w] EXCEPT !.pc = "pending", !.product = None, !.flagged = TRUE])
    /\ UNCHANGED <<tables, lines, modelCalls>>

-----------------------------------------------------------------------------
(* Pending knowledge: find_pending_review_by_candidate_key and what follows *)

\* Mutant: the query forgets candidate_key.
AttachToAnyPending(w) ==
    /\ At(w, "pending")
    /\ \E r \in {s \in ReviewId : Pending(s)} :
          Continue(w, [call[w] EXCEPT !.pc = "record", !.review = r, !.cached = NoDecision])
    /\ UNCHANGED <<tables, lines, modelCalls>>

AttachToPending(w) ==
    /\ At(w, "pending")
    /\ \E r \in PendingOf(call[w].concept) :
          Continue(w, [call[w] EXCEPT !.pc = "record", !.review = r, !.cached = NoDecision])
    /\ UNCHANGED <<tables, lines, modelCalls>>

ReuseFinalDecision(w) ==
    /\ At(w, "pending")
    /\ PendingOf(call[w].concept) = {}
    /\ Final(call[w].cached)
    /\ Answer(w, AsCached(call[w].cached))
    /\ UNCHANGED <<tables, lines, modelCalls>>

\* Flagged text is staged for a human and goes no further.
Abstain(w) ==
    /\ At(w, "pending")
    /\ PendingOf(call[w].concept) = {}
    /\ ~Final(call[w].cached)
    /\ call[w].flagged
    /\ Continue(w, [call[w] EXCEPT !.pc = "stage", !.route = "abstain", !.cached = NoDecision])
    /\ UNCHANGED <<tables, lines, modelCalls>>

\* Mutant: flagged text is searched for and generated like any other.
NothingKnownFlagged(w) ==
    /\ At(w, "pending")
    /\ PendingOf(call[w].concept) = {}
    /\ ~Final(call[w].cached)
    /\ Continue(w, [call[w] EXCEPT !.pc = "search", !.cached = NoDecision])
    /\ UNCHANGED <<tables, lines, modelCalls>>

NothingKnown(w) ==
    /\ At(w, "pending")
    /\ PendingOf(call[w].concept) = {}
    /\ ~Final(call[w].cached)
    /\ ~call[w].flagged
    /\ Continue(w, [call[w] EXCEPT !.pc = "search", !.cached = NoDecision])
    /\ UNCHANGED <<tables, lines, modelCalls>>

-----------------------------------------------------------------------------
(* Retrieval.  The scores are left open: any product that has an approved   *)
(* alias can be the top candidate, above the automatic thresholds, above    *)
(* the proposal thresholds only, or below both (product None).              *)

SearchAutoResolves(w) ==
    /\ At(w, "search")
    /\ \E p \in Retrievable :
          Continue(w, [call[w] EXCEPT !.pc = "stage", !.route = "auto", !.product = p])
    /\ UNCHANGED <<tables, lines, modelCalls>>

SearchIsUncertain(w) ==
    /\ At(w, "search")
    /\ \E p \in OrNone(Retrievable) :
          Continue(w, [call[w] EXCEPT !.pc = "stage", !.route = "generate", !.product = p])
    /\ UNCHANGED <<tables, lines, modelCalls>>

-----------------------------------------------------------------------------
(* create_or_update_review on behalf of _abstain, of the automatic          *)
(* resolution or of the claim placed before a model call                    *)

\* Mutant: an automatic resolution stages its review without a target.
StagedRowUntargeted(w) ==
    [status |-> "pending", concept |-> call[w].concept, target |-> None,
     blocks |-> call[w].route # "auto", generating |-> call[w].route = "generate",
     llm |-> FALSE, occurrences |-> 1]

StagedRow(w) ==
    [status |-> "pending", concept |-> call[w].concept,
     target |-> IF call[w].route = "auto" THEN call[w].product ELSE None,
     blocks |-> call[w].route # "auto", generating |-> call[w].route = "generate",
     llm |-> FALSE, occurrences |-> 1]

StageReview(w) ==
    /\ At(w, "stage")
    /\ \E r \in ReviewId :
          /\ InsertReview(r, StagedRow(w))
          /\ Continue(w, [call[w] EXCEPT !.pc = "reread", !.review = r, !.claim = r,
                                         !.recorded = @ + 1])
    /\ UNCHANGED <<catalog, alias, decisions, trail, everApproved, lines, modelCalls>>

\* IntegrityError: another call holds the pending row.
LoseClaim(w) ==
    /\ At(w, "stage")
    /\ PendingOf(call[w].concept) # {}
    /\ Continue(w, [call[w] EXCEPT !.pc = "lost"])
    /\ UNCHANGED <<tables, lines, modelCalls>>

FindWinner(w) ==
    /\ At(w, "lost")
    /\ \E r \in PendingOf(call[w].concept) :
          Continue(w, [call[w] EXCEPT !.pc = "record", !.review = r])
    /\ UNCHANGED <<tables, lines, modelCalls>>

\* The winner was resolved in between: the IntegrityError is raised again.
WinnerIsGone(w) ==
    /\ At(w, "lost")
    /\ PendingOf(call[w].concept) = {}
    /\ Raise(w)
    /\ UNCHANGED <<tables, lines, modelCalls>>

RecordReviewOccurrence(w) ==
    /\ At(w, "record")
    /\ RecordOccurrence(call[w].review)
    /\ Continue(w, [call[w] EXCEPT !.pc = "reread", !.recorded = @ + 1])
    /\ UNCHANGED <<catalog, alias, decisions, trail, everApproved, lines, modelCalls>>

\* ReviewNotFoundError: a reviewer resolved the row after it was found.
OccurrenceRefused(w) ==
    /\ At(w, "record")
    /\ ~Pending(call[w].review)
    /\ Raise(w)
    /\ UNCHANGED <<tables, lines, modelCalls>>

-----------------------------------------------------------------------------
(* get_review: the row is read back in a transaction of its own, and the    *)
(* decision is taken from what it holds by then                             *)

\* Mutant: the identifier of the review that came back is not compared.
OwnsAnyClaim(w) == call[w].route = "generate"

OwnsClaim(w) == call[w].route = "generate" /\ call[w].review = call[w].claim

ReadBackAbstention(w) ==
    /\ At(w, "reread")
    /\ call[w].route = "abstain"
    /\ Decide(w, "save", "ABSTAINED", None, TRUE, call[w].review)
    /\ UNCHANGED <<tables, lines, modelCalls>>

ReadBackAutoResolution(w) ==
    /\ At(w, "reread")
    /\ call[w].route = "auto"
    /\ Decide(w, "saveaudited", "AUTO_RETRIEVAL", call[w].product, FALSE, call[w].review)
    /\ UNCHANGED <<tables, lines, modelCalls>>

\* Mutant: the loser of the claim is counted again (record_occurrence=True).
ReuseCountingAgain(w) ==
    /\ At(w, "reread")
    /\ call[w].route \in {"reuse", "generate"}
    /\ ~OwnsClaim(w)
    /\ IF call[w].route = "generate"
         THEN Continue(w, [call[w] EXCEPT !.pc = "record", !.route = "reuse"])
         ELSE LET row == reviews[call[w].review] IN
              Decide(w, "save", "PENDING_REVIEW_REUSE", row.target, row.blocks, call[w].review)
    /\ UNCHANGED <<tables, lines, modelCalls>>

\* _reuse_pending_review, for a line that found the review and for a loser
\* of the claim, whose occurrence create_or_update_review has recorded
ReusePendingReview(w) ==
    /\ At(w, "reread")
    /\ call[w].route \in {"reuse", "generate"}
    /\ ~OwnsClaim(w)
    /\ LET row == reviews[call[w].review] IN
       Decide(w, "save", "PENDING_REVIEW_REUSE", row.target, row.blocks, call[w].review)
    /\ UNCHANGED <<tables, lines, modelCalls>>

OwnPlaceholder(w) ==
    /\ At(w, "reread")
    /\ OwnsClaim(w)
    /\ Continue(w, [call[w] EXCEPT !.pc = "reserve"])
    /\ UNCHANGED <<tables, lines, modelCalls>>

-----------------------------------------------------------------------------
(* The model call and the settlement of the placeholder *)

\* Mutant: a refused budget abstains and leaves the placeholder as it is.
BudgetRefusesUnsettled(w) ==
    /\ At(w, "reserve")
    /\ Decide(w, "save", "ABSTAINED", None, TRUE, call[w].review)
    /\ UNCHANGED <<tables, lines, modelCalls>>

\* reserve_call raises BudgetExceededError; the model is not called.
BudgetRefuses(w) ==
    /\ At(w, "reserve")
    /\ Continue(w, [call[w] EXCEPT !.pc = "settle", !.outcome = "refused"])
    /\ UNCHANGED <<tables, lines, modelCalls>>

CallModel(w) ==
    /\ At(w, "reserve")
    /\ modelCalls' = [modelCalls EXCEPT ![call[w].review] = @ + 1]
    /\ Continue(w, [call[w] EXCEPT !.pc = "model"])
    /\ UNCHANGED <<tables, lines>>

\* overrun: the answer came and register_actual_cost raised; agrees: the
\* proposal repeats the supported top candidate; unsafe: output flags.
ModelReturns(w) ==
    /\ At(w, "model")
    /\ \E o \in Outcome \ {"none", "refused"} :
          /\ o = "agrees" => call[w].product # None
          /\ Continue(w, [call[w] EXCEPT !.pc = "settle", !.outcome = o])
    /\ UNCHANGED <<tables, lines, modelCalls>>

Succeeded(w) == call[w].outcome \in {"agrees", "novel", "unsafe"}

SettleProposal(w) ==
    /\ At(w, "settle")
    /\ LET o == call[w].outcome
           target == IF o = "agrees" THEN call[w].product ELSE None
           kind == IF o \in {"agrees", "novel"} THEN "GENERATED_CANDIDATE" ELSE "ABSTAINED"
           then == IF Succeeded(w) THEN "saveaudited" ELSE "save"
       IN /\ UpdatePending(call[w].review, target, Succeeded(w) \/ o = "provider_error")
          /\ Decide(w, then, kind, target, TRUE, call[w].review)
    /\ UNCHANGED <<catalog, alias, decisions, trail, everApproved, lines, modelCalls>>

\* ReviewNotFoundError: a reviewer resolved the placeholder meanwhile.
SettlementRefused(w) ==
    /\ At(w, "settle")
    /\ ~Pending(call[w].review)
    /\ Raise(w)
    /\ UNCHANGED <<tables, lines, modelCalls>>

-----------------------------------------------------------------------------
(* save_decision and the audit row some decisions write after it *)

AuditEvent(decision) ==
    CASE decision.kind = "EXACT_ALIAS"    -> "canonicalization_exact_alias"
      [] decision.kind = "AUTO_RETRIEVAL" -> "canonicalization_auto_resolved_staged"
      [] OTHER                            -> "canonicalization_review_created"

SaveDecision(w) ==
    /\ At(w, "save")
    /\ Save(call[w].concept, call[w].result)
    /\ Answer(w, call[w].result)
    /\ UNCHANGED <<catalog, alias, reviews, trail, everApproved, lines, modelCalls>>

SaveAuditedDecision(w) ==
    /\ At(w, "saveaudited")
    /\ Save(call[w].concept, call[w].result)
    /\ Conclude(w, "audit", call[w].result)
    /\ UNCHANGED <<catalog, alias, reviews, trail, everApproved, lines, modelCalls>>

AuditDecision(w) ==
    /\ At(w, "audit")
    /\ LET result == call[w].result
           subject == IF result.review = None THEN call[w].concept ELSE result.review
       IN /\ Audit(AuditEvent(result), subject)
          /\ Answer(w, result)
    /\ UNCHANGED <<catalog, alias, decisions, reviews, everApproved, lines, modelCalls>>

\* The process dies, or the step raises something canonicalize does not
\* catch (a locked database, an unreadable prompt, a malformed response).
Abandon(w) ==
    /\ call[w].pc \notin Ended
    /\ Raise(w)
    /\ UNCHANGED <<tables, lines, modelCalls>>

-----------------------------------------------------------------------------
Proceed(w) ==
    \/ FindApprovedAlias(w) \/ GetProduct(w) \/ OrphanAlias(w)
    \/ AttachToPending(w) \/ ReuseFinalDecision(w) \/ Abstain(w) \/ NothingKnown(w)
    \/ SearchAutoResolves(w) \/ SearchIsUncertain(w)
    \/ StageReview(w) \/ LoseClaim(w) \/ FindWinner(w) \/ WinnerIsGone(w)
    \/ RecordReviewOccurrence(w) \/ OccurrenceRefused(w)
    \/ ReadBackAbstention(w) \/ ReadBackAutoResolution(w)
    \/ ReusePendingReview(w) \/ OwnPlaceholder(w)
    \/ BudgetRefuses(w) \/ CallModel(w) \/ ModelReturns(w)
    \/ SettleProposal(w) \/ SettlementRefused(w)
    \/ SaveDecision(w) \/ SaveAuditedDecision(w) \/ AuditDecision(w)

StartLine(w) == \E line \in Incoming : CacheHit(w, line[1]) \/ CacheMiss(w, line[1], line[2])

ServiceNext == \E w \in Worker : StartLine(w) \/ Proceed(w)
=============================================================================

-------------------------- MODULE KnowledgeWorkflow --------------------------
(***************************************************************************)
(* Workers, reviewers and a database operator on one catalog, and what the *)
(* whole of it is required to do.                                          *)
(***************************************************************************)
EXTENDS CanonicalizationService, ReviewService

CONSTANTS
    MaxFaults,       \* bound: calls and review actions abandoned half-way
    Deactivations    \* bound: products a database operator may deactivate

ASSUME MaxFaultsAssumption == MaxFaults \in Nat
ASSUME DeactivationsAssumption == Deactivations \subseteq Product

VARIABLE faults

vars == <<tables, service, desk, faults>>

Init == StoreInit /\ ServiceInit /\ ReviewInit /\ faults = 0

WorkerStep == ServiceNext /\ UNCHANGED <<desk, faults>>

ReviewerStep == ReviewNext /\ UNCHANGED <<service, faults>>

FaultStep ==
    /\ faults < MaxFaults
    /\ faults' = faults + 1
    /\ \/ \E w \in Worker : Abandon(w) /\ UNCHANGED desk
       \/ \E v \in Reviewer : AbandonReview(v) /\ UNCHANGED service

OperatorStep ==
    /\ \E p \in Deactivations : DeactivateProduct(p)
    /\ UNCHANGED <<service, desk, faults>>

Next == WorkerStep \/ ReviewerStep \/ FaultStep \/ OperatorStep

Spec == Init /\ [][Next]_vars

\* A call that has begun runs on, and so does a review action once it has been
\* taken up: both are straight-line code.  Nobody is obliged to send a line or
\* to take up a review.
FairSpec ==
    /\ Spec
    /\ \A w \in Worker : WF_vars(Proceed(w) /\ UNCHANGED <<desk, faults>>)
    /\ \A v \in Reviewer : WF_vars(ProceedReview(v) /\ UNCHANGED <<service, faults>>)

-----------------------------------------------------------------------------
(* Type correctness *)

\* Every variable holds a value of the type its declaration names.
TypeOK == StoreTypeOK /\ ServiceTypeOK /\ ReviewTypeOK /\ faults \in 0..MaxFaults

-----------------------------------------------------------------------------
(* Safety *)

\* Repeated and concurrent occurrences of one unknown share one pending
\* review, however creations, resolutions and failures interleave.
OnePendingPerConcept ==
    \A r, s \in ReviewId :
        Pending(r) /\ Pending(s) /\ reviews[r].concept = reviews[s].concept => r = s

\* A review costs at most one model call: only the call that inserted the
\* placeholder goes on to the model, and it never does so twice.
OneModelCallPerReview == \A r \in ReviewId : modelCalls[r] <= 1

\* A line is counted once in the review it ends up attached to, whichever of
\* the four ways it got there, and never when it was answered from approved
\* knowledge or from the cache; a call that fails has counted at most once.
LineCountedOnce ==
    \A w \in Worker :
        /\ call[w].recorded <= 1
        /\ At(w, "answered") =>
              (call[w].recorded = 1 <=>
                 call[w].result.kind \notin {"EXACT_ALIAS", "CACHED"})

\* No line slips between the automatic and the human path: a decision that
\* does not ask for a human names a product, in the cache and in an answer,
\* although it may be copied from a review row that others are changing.
NoUnownedLine ==
    /\ \A c \in Concept : Final(decisions[c]) => decisions[c].product # None
    /\ \A w \in Worker :
          At(w, "answered") /\ ~call[w].result.human => call[w].result.product # None

\* Once a concept has an approved alias, every call that begins afterwards is
\* answered from approved knowledge, although decisions cached before the
\* approval and reviews staged before it are still there.  The exception is
\* an alias whose product was deactivated.
ApprovedKnowledgeWins ==
    \A w \in Worker :
        LET c == call[w].concept IN
        At(w, "answered") /\ call[w].began # None =>
            \/ call[w].result.kind \in {"EXACT_ALIAS", "CACHED"}
               /\ call[w].result.product \in everApproved[c]
            \/ \E p \in everApproved[c] : ~IsActive(p)

\* Text flagged as an instruction, or whose approved alias lost its product,
\* is never sent to the model.
FlaggedTextStaysHome ==
    \A w \in Worker : call[w].pc \in {"reserve", "model"} => ~call[w].flagged

\* A decision saved for a concept refers to a review of that same concept,
\* which exists; no worker mixes up what it attached to and what it saves.
DecisionFitsReview ==
    \A c \in Concept :
        LET r == decisions[c].review IN
        r # None => reviews[r].status # "absent" /\ reviews[r].concept = c

-----------------------------------------------------------------------------
(* The abstract specification *)

Knowledge == INSTANCE ApprovedKnowledge WITH
    Question <- ReviewId,
    known    <- alias,
    question <- [r \in ReviewId |-> [status  |-> reviews[r].status,
                                     concept |-> reviews[r].concept]]

\* Nothing workers, reviewers or crashes do changes approved knowledge in any
\* other way than the review workflow allows.
KnowledgeIsReviewed == Knowledge!Spec

-----------------------------------------------------------------------------
(* Liveness, when no call or review action is abandoned *)

\* A placeholder staged before a model call does not stay "generation in
\* progress": the call settles it, on every outcome of budget and model, or a
\* reviewer resolves it first.
PlaceholderSettles ==
    \A r \in ReviewId :
        (Pending(r) /\ reviews[r].generating) ~> ~(Pending(r) /\ reviews[r].generating)

\* An approval reaches the audit trail.
ApprovalReachesTrail ==
    \A r \in ReviewId :
        reviews[r].status = "approved" ~> <<"review_approved", r>> \in trail

-----------------------------------------------------------------------------
(* What the documentation says and the code does not do *)

\* docs/scalability.md:16: stale decisions cannot override newly approved
\* knowledge.  A call that began when the alias already was what it still is
\* answers with that alias's product.
NewestApprovalWins ==
    \A w \in Worker :
        LET p == call[w].began IN
        (At(w, "answered") /\ p # None /\ alias[call[w].concept] = p /\ IsActive(p))
            => call[w].result.product = p

\* docs/threat_model.md:29: concurrent repeats reuse one candidate and one
\* model proposal.  A second review of a concept goes to the model only if a
\* reviewer rejected the first.
OneProposalPerUnknown ==
    \A r, s \in ReviewId :
        (r # s /\ modelCalls[r] > 0 /\ modelCalls[s] > 0 /\ reviews[r].concept = reviews[s].concept)
            => \E q \in {r, s} : reviews[q].status = "rejected"
=============================================================================

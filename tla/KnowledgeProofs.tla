---------------------------- MODULE KnowledgeProofs ----------------------------
(***************************************************************************)
(* Theorems of KnowledgeWorkflow for every choice of its constants, so for *)
(* any number of workers, reviewers, lines, reviews and faults: its types, *)
(* its safety invariants, and that it implements ApprovedKnowledge, every  *)
(* step of a worker, reviewer, crash or operator being a step the abstract *)
(* specification allows, or one that changes nothing it sees.              *)
(***************************************************************************)
EXTENDS KnowledgeWorkflow, ReviewProofs

-----------------------------------------------------------------------------
(* Type correctness *)

\* The rows and records the modules start from have the types they declare.
LEMMA StartingValues ==
    /\ NoDecision \in Decision
    /\ NoReview \in Review
    /\ Resting \in Call
    /\ Free \in Desk
BY StartingRows DEF NoDecision, DecisionOf, Decision, Resting, Call, OrNone, Ended, Route, Outcome

\* The initial states have the types the composition declares.
LEMMA InitTypeOK == Init => TypeOK
<1> SUFFICES ASSUME Init PROVE TypeOK
  OBVIOUS
<1> USE StartingValues
<1>1. StoreTypeOK
  BY NoneAssumption, SeedAssumption
     DEF Init, StoreInit, StoreTypeOK, OrNone
<1>2. ServiceTypeOK
  BY MaxLinesAssumption DEF Init, ServiceInit, ServiceTypeOK
<1>3. ReviewTypeOK
  BY DEF Init, ReviewInit, ReviewTypeOK
<1>4. faults \in 0..MaxFaults
  BY MaxFaultsAssumption DEF Init
<1>. QED  BY <1>1, <1>2, <1>3, <1>4 DEF TypeOK

\* What a call in progress has in hand at each of its steps.
SoundCall ==
    {k \in Call :
        /\ k.pc \notin {"idle", "failed"} => k.concept \in Concept
        /\ k.pc = "product" => k.product \in Product
        /\ k.pc \in {"record", "reread", "reserve", "model", "settle"} => k.review \in ReviewId}

\* The type invariant is not inductive: a step applies the tables to the
\* concept, review and product its call holds, which must not be None there.
TypeInv ==
    /\ TypeOK
    /\ call \in [Worker -> SoundCall]
    /\ desk \in [Reviewer -> SoundDesk]

\* The initial states satisfy the strengthened type invariant.
LEMMA InitTypeInv == Init => TypeInv
<1>1. Resting \in SoundCall /\ Free \in SoundDesk
  BY StartingValues DEF SoundCall, SoundDesk, Resting, Free
<1>. QED
  BY <1>1, InitTypeOK DEF Init, ServiceInit, ReviewInit, TypeInv

\* A worker that moves on to a sound record keeps the calls sound.
LEMMA ContinueSound ==
    ASSUME call \in [Worker -> SoundCall], NEW w \in Worker, NEW next \in SoundCall,
           Continue(w, next)
    PROVE  call' \in [Worker -> SoundCall]
BY DEF Continue

\* Ending a call with a sound outcome leaves a sound record.
LEMMA ConcludeSound ==
    ASSUME call \in [Worker -> SoundCall], NEW w \in Worker, call[w].concept \in Concept,
           NEW pc \in {"answered", "save", "saveaudited", "audit"}, NEW result \in Decision,
           Conclude(w, pc, result)
    PROVE  call' \in [Worker -> SoundCall]
<1> DEFINE next == [Resting EXCEPT !.pc = pc, !.result = result,
                                !.concept = call[w].concept,
                                !.recorded = call[w].recorded,
                                !.began = call[w].began]
<1>1. call[w] \in SoundCall
  OBVIOUS
<1>2. next \in SoundCall
  BY <1>1, StartingValues DEF SoundCall, Call, Ended, Resting
<1>3. Continue(w, next)
  BY DEF Conclude
<1>. QED  BY <1>2, <1>3, ContinueSound

\* Caching a decision and ending the call with it leaves a sound record.
LEMMA DecideSound ==
    ASSUME call \in [Worker -> SoundCall], NEW w \in Worker, call[w].concept \in Concept,
           NEW then \in {"save", "saveaudited"},
           NEW kind \in {"EXACT_ALIAS", "AUTO_RETRIEVAL", "GENERATED_CANDIDATE",
                         "PENDING_REVIEW_REUSE", "ABSTAINED"},
           NEW product \in OrNone(Product), NEW human \in BOOLEAN,
           NEW review \in OrNone(ReviewId),
           Decide(w, then, kind, product, human, review)
    PROVE  call' \in [Worker -> SoundCall]
<1>1. DecisionOf(kind, product, human, review) \in Decision
  BY DEF DecisionOf, Decision
<1>. QED  BY <1>1, ConcludeSound DEF Decide

\* Raising leaves a sound record, from whatever step it happens.
LEMMA RaiseSound ==
    ASSUME call \in [Worker -> SoundCall], NEW w \in Worker, Raise(w)
    PROVE  call' \in [Worker -> SoundCall]
<1>1. [Resting EXCEPT !.pc = "failed"] \in SoundCall
  BY StartingValues DEF SoundCall, Call, Ended, Resting
<1>. QED  BY <1>1, ContinueSound DEF Raise

\* A worker that takes a line starts from a sound record.
LEMMA StartLineSound ==
    ASSUME TypeInv, NEW w \in Worker, StartLine(w)
    PROVE  /\ call' \in [Worker -> SoundCall]
           /\ lines' \in 0..MaxLines
           /\ UNCHANGED <<tables, modelCalls>>
<1> USE DEF TypeInv, TypeOK
<1>1. PICK line \in Incoming : CacheHit(w, line[1]) \/ CacheMiss(w, line[1], line[2])
  BY DEF StartLine
<1>2. line[1] \in Concept /\ line[2] \in BOOLEAN
  BY IncomingAssumption
<1>3. Begin(line[1]) \in Call /\ decisions[line[1]] \in Decision
  BY <1>2, StartingValues DEF StoreTypeOK, Begin, Call, Resting, OrNone
<1>4. Begin(line[1]).concept = line[1]
  BY DEF Begin, Resting
<1>5. call' \in [Worker -> SoundCall]
  <2>1. CASE CacheHit(w, line[1])
    <3>1. AsCached(decisions[line[1]]) \in Decision
      BY <1>3 DEF AsCached, Decision
    <3>2. [Begin(line[1]) EXCEPT !.pc = "answered",
                                 !.result = AsCached(decisions[line[1]])] \in SoundCall
      BY <1>2, <1>3, <1>4, <3>1 DEF SoundCall, Call, Ended
    <3>. QED  BY <2>1, <3>2, ContinueSound DEF CacheHit
  <2>2. CASE CacheMiss(w, line[1], line[2])
    <3>1. [Begin(line[1]) EXCEPT !.pc = "alias", !.flagged = line[2],
                                 !.cached = decisions[line[1]]] \in SoundCall
      BY <1>2, <1>3, <1>4 DEF SoundCall, Call
    <3>. QED  BY <2>2, <3>1, ContinueSound DEF CacheMiss
  <2>. QED  BY <1>1, <2>1, <2>2
<1>. QED
  BY <1>1, <1>5, MaxLinesAssumption DEF CacheHit, CacheMiss, ServiceTypeOK

\* What a well-typed worker's record is known to hold at its step.
LEMMA CallFields ==
    ASSUME TypeInv, NEW w \in Worker
    PROVE  /\ call[w] \in SoundCall
           /\ call[w] \in Call
           /\ call[w].cached \in Decision
           /\ call[w].result \in Decision
           /\ call[w].product \in OrNone(Product)
           /\ call[w].pc \notin {"idle", "failed"} => call[w].concept \in Concept
           /\ call[w].pc \in {"record", "reread", "reserve", "model", "settle"} =>
                 call[w].review \in ReviewId
BY DEF TypeInv, SoundCall, Call

\* Each step's update of a record that is sound at that step gives a sound
\* record: stated for any record, so that the tables play no part in it.
LEMMA SoundUpdates ==
    ASSUME NEW k \in SoundCall
    PROVE  /\ \A p \in OrNone(Product) : k.pc = "alias" =>
                 [k EXCEPT !.product = p, !.pc = IF p = None THEN "pending" ELSE "product"]
                     \in SoundCall
           /\ k.pc = "product" =>
                 [k EXCEPT !.pc = "pending", !.product = None, !.flagged = TRUE] \in SoundCall
           /\ \A r \in ReviewId : k.pc = "pending" =>
                 [k EXCEPT !.pc = "record", !.review = r, !.cached = NoDecision] \in SoundCall
           /\ k.pc = "pending" =>
                 [k EXCEPT !.pc = "stage", !.route = "abstain", !.cached = NoDecision] \in SoundCall
           /\ k.pc = "pending" =>
                 [k EXCEPT !.pc = "search", !.cached = NoDecision] \in SoundCall
           /\ \A p \in OrNone(Product), route \in Route : k.pc = "search" =>
                 [k EXCEPT !.pc = "stage", !.route = route, !.product = p] \in SoundCall
           /\ \A r \in ReviewId : k.pc = "stage" =>
                 [k EXCEPT !.pc = "reread", !.review = r, !.claim = r, !.recorded = @ + 1]
                     \in SoundCall
           /\ k.pc = "stage" => [k EXCEPT !.pc = "lost"] \in SoundCall
           /\ \A r \in ReviewId : k.pc = "lost" =>
                 [k EXCEPT !.pc = "record", !.review = r] \in SoundCall
           /\ k.pc = "record" => [k EXCEPT !.pc = "reread", !.recorded = @ + 1] \in SoundCall
           /\ k.pc = "reread" => [k EXCEPT !.pc = "reserve"] \in SoundCall
           /\ \A o \in Outcome : k.pc \in {"reserve", "model"} =>
                 [k EXCEPT !.pc = "settle", !.outcome = o] \in SoundCall
           /\ k.pc = "reserve" => [k EXCEPT !.pc = "model"] \in SoundCall
<1> USE StartingValues
<1>1. ASSUME NEW p \in OrNone(Product), k.pc = "alias"
      PROVE  [k EXCEPT !.product = p, !.pc = IF p = None THEN "pending" ELSE "product"]
                 \in SoundCall
  <2> DEFINE pc == IF p = None THEN "pending" ELSE "product"
  <2>1. pc \in {"pending", "product"} /\ (pc = "product" => p \in Product)
    BY <1>1 DEF OrNone
  <2> HIDE DEF pc
  <2>2. k \in Call /\ k.concept \in Concept
    BY <1>1 DEF SoundCall
  <2>3. [k EXCEPT !.product = p, !.pc = pc] \in Call
    BY <1>1, <2>1, <2>2 DEF Call
  <2>4. [k EXCEPT !.product = p, !.pc = pc] \in SoundCall
    BY <1>1, <2>1, <2>2, <2>3 DEF SoundCall, Call
  <2>. QED  BY <2>4 DEF pc
<1>2. ASSUME k.pc = "product"
      PROVE  [k EXCEPT !.pc = "pending", !.product = None, !.flagged = TRUE] \in SoundCall
  <2>1. k \in Call /\ k.concept \in Concept
    BY <1>2 DEF SoundCall
  <2>2. [k EXCEPT !.pc = "pending", !.product = None, !.flagged = TRUE] \in Call
    BY <2>1 DEF Call, OrNone
  <2>. QED  BY <2>1, <2>2 DEF SoundCall, Call
<1>3. ASSUME NEW r \in ReviewId, k.pc = "pending"
      PROVE  [k EXCEPT !.pc = "record", !.review = r, !.cached = NoDecision] \in SoundCall
  BY <1>3 DEF SoundCall, Call, OrNone
<1>4. ASSUME k.pc = "pending"
      PROVE  /\ [k EXCEPT !.pc = "stage", !.route = "abstain", !.cached = NoDecision] \in SoundCall
             /\ [k EXCEPT !.pc = "search", !.cached = NoDecision] \in SoundCall
  BY <1>4 DEF SoundCall, Call, Route
<1>5. ASSUME NEW p \in OrNone(Product), NEW route \in Route, k.pc = "search"
      PROVE  [k EXCEPT !.pc = "stage", !.route = route, !.product = p] \in SoundCall
  BY <1>5 DEF SoundCall, Call
<1>6. ASSUME NEW r \in ReviewId, k.pc = "stage"
      PROVE  [k EXCEPT !.pc = "reread", !.review = r, !.claim = r, !.recorded = @ + 1]
                 \in SoundCall
  <2>1. k.recorded + 1 \in Nat /\ k \in Call /\ k.concept \in Concept
    BY <1>6 DEF SoundCall, Call
  <2> DEFINE n == k.recorded + 1
  <2> HIDE DEF n
  <2>2. n \in Nat
    BY <2>1 DEF n
  <2>3. [k EXCEPT !.pc = "reread", !.review = r, !.claim = r, !.recorded = n] \in Call
    BY <1>6, <2>1, <2>2 DEF Call, OrNone
  <2>4. [k EXCEPT !.pc = "reread", !.review = r, !.claim = r, !.recorded = n] \in SoundCall
    BY <1>6, <2>1, <2>2, <2>3 DEF SoundCall, Call
  <2>. QED  BY <2>4 DEF n
<1>7. ASSUME k.pc = "stage"
      PROVE  [k EXCEPT !.pc = "lost"] \in SoundCall
  BY <1>7 DEF SoundCall, Call
<1>8. ASSUME NEW r \in ReviewId, k.pc = "lost"
      PROVE  [k EXCEPT !.pc = "record", !.review = r] \in SoundCall
  BY <1>8 DEF SoundCall, Call, OrNone
<1>9. ASSUME k.pc = "record"
      PROVE  [k EXCEPT !.pc = "reread", !.recorded = @ + 1] \in SoundCall
  <2>1. k.recorded + 1 \in Nat /\ k \in Call /\ k.concept \in Concept /\ k.review \in ReviewId
    BY <1>9 DEF SoundCall, Call
  <2> DEFINE n == k.recorded + 1
  <2> HIDE DEF n
  <2>2. n \in Nat
    BY <2>1 DEF n
  <2>3. [k EXCEPT !.pc = "reread", !.recorded = n] \in Call
    BY <1>9, <2>1, <2>2 DEF Call
  <2>4. [k EXCEPT !.pc = "reread", !.recorded = n] \in SoundCall
    BY <1>9, <2>1, <2>2, <2>3 DEF SoundCall, Call
  <2>. QED  BY <2>4 DEF n
<1>10. ASSUME k.pc = "reread"
       PROVE  [k EXCEPT !.pc = "reserve"] \in SoundCall
  BY <1>10 DEF SoundCall, Call
<1>11. ASSUME NEW o \in Outcome, k.pc \in {"reserve", "model"}
       PROVE  [k EXCEPT !.pc = "settle", !.outcome = o] \in SoundCall
  BY <1>11 DEF SoundCall, Call
<1>12. ASSUME k.pc = "reserve"
       PROVE  [k EXCEPT !.pc = "model"] \in SoundCall
  BY <1>12 DEF SoundCall, Call
<1>. QED
  BY <1>1, <1>2, <1>3, <1>4, <1>5, <1>6, <1>7, <1>8, <1>9, <1>10, <1>11, <1>12

\* Every step of a call leaves its record sound.
LEMMA ProceedSound ==
    ASSUME TypeInv, NEW w \in Worker, Proceed(w)
    PROVE  call' \in [Worker -> SoundCall]
<1>0. call \in [Worker -> SoundCall] /\ call[w] \in SoundCall
  BY DEF TypeInv
<1>1. CASE FindApprovedAlias(w)
  <2>1. alias[call[w].concept] \in OrNone(Product)
    BY <1>1, CallFields DEF FindApprovedAlias, At, TypeInv, TypeOK, StoreTypeOK
  <2>. QED  BY <1>0, <1>1, <2>1, SoundUpdates, ContinueSound DEF FindApprovedAlias, At
<1>2. CASE GetProduct(w)
  BY <1>0, <1>2, CallFields, DecideSound DEF GetProduct, At, OrNone
<1>3. CASE OrphanAlias(w)
  BY <1>0, <1>3, SoundUpdates, ContinueSound DEF OrphanAlias, At
<1>4. CASE AttachToPending(w)
  BY <1>0, <1>4, SoundUpdates, ContinueSound DEF AttachToPending, At, PendingOf
<1>5. CASE ReuseFinalDecision(w)
  <2>1. AsCached(call[w].cached) \in Decision
    BY CallFields DEF AsCached, Decision
  <2>. QED  BY <1>0, <1>5, <2>1, CallFields, ConcludeSound DEF ReuseFinalDecision, Answer, At
<1>6. CASE Abstain(w)
  BY <1>0, <1>6, SoundUpdates, ContinueSound DEF Abstain, At
<1>7. CASE NothingKnown(w)
  BY <1>0, <1>7, SoundUpdates, ContinueSound DEF NothingKnown, At
<1>8. CASE SearchAutoResolves(w)
  BY <1>0, <1>8, SoundUpdates, ContinueSound
     DEF SearchAutoResolves, At, Retrievable, OrNone, Route
<1>9. CASE SearchIsUncertain(w)
  BY <1>0, <1>9, SoundUpdates, ContinueSound
     DEF SearchIsUncertain, At, Retrievable, OrNone, Route
<1>10. CASE StageReview(w)
  BY <1>0, <1>10, SoundUpdates, ContinueSound DEF StageReview, At
<1>11. CASE LoseClaim(w)
  BY <1>0, <1>11, SoundUpdates, ContinueSound DEF LoseClaim, At
<1>12. CASE FindWinner(w)
  BY <1>0, <1>12, SoundUpdates, ContinueSound DEF FindWinner, At, PendingOf
<1>13. CASE WinnerIsGone(w) \/ OccurrenceRefused(w) \/ SettlementRefused(w)
  BY <1>0, <1>13, RaiseSound DEF WinnerIsGone, OccurrenceRefused, SettlementRefused
<1>14. CASE RecordReviewOccurrence(w)
  BY <1>0, <1>14, SoundUpdates, ContinueSound DEF RecordReviewOccurrence, At
<1>15. CASE ReadBackAbstention(w)
  BY <1>0, <1>15, CallFields, DecideSound DEF ReadBackAbstention, At, OrNone
<1>16. CASE ReadBackAutoResolution(w)
  BY <1>0, <1>16, CallFields, DecideSound DEF ReadBackAutoResolution, At, OrNone
<1>17. CASE ReusePendingReview(w)
  <2>1. call[w].review \in ReviewId /\ call[w].concept \in Concept
    BY <1>17, CallFields DEF ReusePendingReview, At
  <2> DEFINE row == reviews[call[w].review]
  <2>2. row.target \in OrNone(Product) /\ row.blocks \in BOOLEAN
    BY <2>1 DEF TypeInv, TypeOK, StoreTypeOK, Review
  <2>3. Decide(w, "save", "PENDING_REVIEW_REUSE", row.target, row.blocks, call[w].review)
    BY <1>17 DEF ReusePendingReview
  <2> HIDE DEF row
  <2>. QED  BY <1>0, <2>1, <2>2, <2>3, DecideSound DEF OrNone
<1>18. CASE OwnPlaceholder(w)
  BY <1>0, <1>18, SoundUpdates, ContinueSound DEF OwnPlaceholder, At
<1>19. CASE BudgetRefuses(w)
  BY <1>0, <1>19, SoundUpdates, ContinueSound DEF BudgetRefuses, At, Outcome
<1>20. CASE CallModel(w)
  BY <1>0, <1>20, SoundUpdates, ContinueSound DEF CallModel, At
<1>21. CASE ModelReturns(w)
  BY <1>0, <1>21, SoundUpdates, ContinueSound DEF ModelReturns, At
<1>22. CASE SettleProposal(w)
  <2>1. call[w].review \in ReviewId /\ call[w].concept \in Concept
        /\ call[w].product \in OrNone(Product)
    BY <1>22, CallFields DEF SettleProposal, At
  <2>2. PICK then \in {"save", "saveaudited"}, kind \in {"GENERATED_CANDIDATE", "ABSTAINED"},
             target \in OrNone(Product) :
             Decide(w, then, kind, target, TRUE, call[w].review)
    BY <1>22, <2>1 DEF SettleProposal, OrNone
  <2>. QED  BY <1>0, <2>1, <2>2, DecideSound DEF OrNone
<1>23. CASE SaveDecision(w) \/ SaveAuditedDecision(w) \/ AuditDecision(w)
  BY <1>0, <1>23, CallFields, ConcludeSound
     DEF SaveDecision, SaveAuditedDecision, AuditDecision, Answer, At
<1>. QED
  BY <1>1, <1>2, <1>3, <1>4, <1>5, <1>6, <1>7, <1>8, <1>9, <1>10, <1>11, <1>12, <1>13,
     <1>14, <1>15, <1>16, <1>17, <1>18, <1>19, <1>20, <1>21, <1>22, <1>23 DEF Proceed

\* Every step of a call leaves the tables well typed.
LEMMA ProceedTables ==
    ASSUME TypeInv, NEW w \in Worker, Proceed(w)
    PROVE  StoreTypeOK' /\ lines' \in 0..MaxLines /\ modelCalls' \in [ReviewId -> Nat]
<1>0. /\ StoreTypeOK /\ lines \in 0..MaxLines /\ modelCalls \in [ReviewId -> Nat]
      /\ call[w] \in Call
  BY CallFields DEF TypeInv, TypeOK, ServiceTypeOK
<1>1. CASE UNCHANGED <<tables, lines, modelCalls>>
  BY <1>0, <1>1 DEF tables, StoreTypeOK
<1>2. CASE StageReview(w)
  <2>1. StagedRow(w) \in Review
    BY <1>0, <1>2, CallFields DEF StagedRow, StageReview, At, Review, OrNone
  <2>2. reviews' \in [ReviewId -> Review]
    BY <1>0, <1>2, <2>1, ReviewRowsTyped DEF StageReview
  <2>. QED  BY <1>0, <1>2, <2>2 DEF StageReview, StoreTypeOK
<1>3. CASE RecordReviewOccurrence(w)
  <2>1. reviews' \in [ReviewId -> Review]
    BY <1>0, <1>3, CallFields, ReviewRowsTyped DEF RecordReviewOccurrence, At
  <2>. QED  BY <1>0, <1>3, <2>1 DEF RecordReviewOccurrence, StoreTypeOK
<1>4. CASE CallModel(w)
  <2>1. modelCalls' \in [ReviewId -> Nat]
    BY <1>0, <1>4, CallFields DEF CallModel, At
  <2>. QED  BY <1>0, <1>4, <2>1 DEF CallModel, tables, StoreTypeOK
<1>5. CASE SettleProposal(w)
  <2>1. call[w].product \in OrNone(Product) /\ call[w].review \in ReviewId
    BY <1>5, CallFields DEF SettleProposal, At
  <2>2. PICK target \in OrNone(Product), llm \in BOOLEAN :
             UpdatePending(call[w].review, target, llm)
    BY <1>5, <2>1 DEF SettleProposal, OrNone
  <2>3. reviews' \in [ReviewId -> Review]
    BY <1>0, <2>1, <2>2, ReviewRowsTyped
  <2>. QED  BY <1>0, <1>5, <2>3 DEF SettleProposal, StoreTypeOK
<1>6. CASE SaveDecision(w) \/ SaveAuditedDecision(w)
  <2>1. decisions' \in [Concept -> Decision]
    BY <1>0, <1>6, CallFields DEF SaveDecision, SaveAuditedDecision, Save, StoreTypeOK
  <2>. QED  BY <1>0, <1>6, <2>1 DEF SaveDecision, SaveAuditedDecision, StoreTypeOK
<1>7. CASE AuditDecision(w)
  <2>1. call[w].concept \in Concept /\ call[w].result.review \in OrNone(ReviewId)
    BY <1>7, CallFields DEF AuditDecision, At, Decision
  <2>2. AuditEvent(call[w].result) \in Event
    BY DEF AuditEvent, Event
  <2>3. trail' \subseteq Event \X (Concept \cup ReviewId)
    BY <1>0, <1>7, <2>1, <2>2 DEF AuditDecision, Audit, StoreTypeOK, OrNone
  <2>. QED  BY <1>0, <1>7, <2>3 DEF AuditDecision, StoreTypeOK
<1>. QED
  BY <1>1, <1>2, <1>3, <1>4, <1>5, <1>6, <1>7
     DEF Proceed, FindApprovedAlias, GetProduct, OrphanAlias, AttachToPending,
         ReuseFinalDecision, Abstain, NothingKnown, SearchAutoResolves, SearchIsUncertain,
         LoseClaim, FindWinner, WinnerIsGone, OccurrenceRefused, ReadBackAbstention,
         ReadBackAutoResolution, ReusePendingReview, OwnPlaceholder, BudgetRefuses,
         ModelReturns, SettlementRefused

\* Taking up a review writes no table and gives the reviewer a review in hand.
LEMMA TakeUpSound ==
    ASSUME TypeInv, NEW v \in Reviewer, TakeUp(v)
    PROVE  desk' \in [Reviewer -> SoundDesk] /\ UNCHANGED tables
BY TakeUpTyped DEF TypeInv

\* Sound records are well typed.
LEMMA SoundIsTyped ==
    ASSUME call \in [Worker -> SoundCall], desk \in [Reviewer -> SoundDesk]
    PROVE  call \in [Worker -> Call] /\ desk \in [Reviewer -> Desk]
BY DEF SoundCall, SoundDesk

\* Every step of the system keeps the strengthened type invariant.
LEMMA NextTypeInv == TypeInv /\ [Next]_vars => TypeInv'
<1> SUFFICES ASSUME TypeInv, [Next]_vars PROVE TypeInv'
  OBVIOUS
<1>0. /\ StoreTypeOK /\ ServiceTypeOK /\ ReviewTypeOK /\ faults \in 0..MaxFaults
      /\ call \in [Worker -> SoundCall] /\ desk \in [Reviewer -> SoundDesk]
  BY DEF TypeInv, TypeOK
<1>1. SUFFICES /\ StoreTypeOK'
               /\ call' \in [Worker -> SoundCall]
               /\ desk' \in [Reviewer -> SoundDesk]
               /\ lines' \in 0..MaxLines
               /\ modelCalls' \in [ReviewId -> Nat]
               /\ faults' \in 0..MaxFaults
  BY <1>1, SoundIsTyped DEF TypeInv, TypeOK, ServiceTypeOK, ReviewTypeOK, SoundCall, SoundDesk
<1>2. CASE WorkerStep
  <2>1. PICK w \in Worker : StartLine(w) \/ Proceed(w)
    BY <1>2 DEF WorkerStep, ServiceNext
  <2>2. CASE StartLine(w)
    BY <1>0, <1>2, <2>2, StartLineSound DEF WorkerStep, tables, StoreTypeOK, ServiceTypeOK
  <2>3. CASE Proceed(w)
    BY <1>0, <1>2, <2>3, ProceedSound, ProceedTables DEF WorkerStep
  <2>. QED  BY <2>1, <2>2, <2>3
<1>3. CASE ReviewerStep
  <2>1. PICK v \in Reviewer : TakeUp(v) \/ ProceedReview(v)
    BY <1>3 DEF ReviewerStep, ReviewNext
  <2>2. UNCHANGED <<call, lines, modelCalls, faults>>
    BY <1>3 DEF ReviewerStep, service
  <2>3. StoreTypeOK' /\ desk' \in [Reviewer -> SoundDesk]
    BY <1>0, <2>1, TakeUpSound, ProceedReviewTyped DEF tables, StoreTypeOK
  <2>. QED  BY <1>0, <2>2, <2>3 DEF ServiceTypeOK
<1>4. CASE FaultStep
  <2>1. faults' \in 0..MaxFaults
    BY <1>0, <1>4, MaxFaultsAssumption DEF FaultStep
  <2>2. UNCHANGED <<tables, lines, modelCalls>>
    BY <1>4 DEF FaultStep, Abandon, AbandonReview, service
  <2>3. call' \in [Worker -> SoundCall]
    BY <1>0, <1>4, RaiseSound DEF FaultStep, Abandon, service
  <2>4. desk' \in [Reviewer -> SoundDesk]
    BY <1>0, <1>4, TurnSound, FreeSound DEF FaultStep, AbandonReview
  <2>. QED  BY <1>0, <2>1, <2>2, <2>3, <2>4 DEF tables, StoreTypeOK, ServiceTypeOK
<1>5. CASE OperatorStep
  <2>1. UNCHANGED <<call, lines, modelCalls, desk, faults>>
    BY <1>5 DEF OperatorStep, service
  <2>2. StoreTypeOK'
    BY <1>0, <1>5, DeactivationsAssumption
       DEF OperatorStep, DeactivateProduct, StoreTypeOK
  <2>. QED  BY <1>0, <2>1, <2>2 DEF ServiceTypeOK
<1>6. CASE UNCHANGED vars
  BY <1>0, <1>6 DEF vars, tables, service, StoreTypeOK, ServiceTypeOK
<1>. QED  BY <1>2, <1>3, <1>4, <1>5, <1>6 DEF Next

\* The strengthened type invariant holds in every reachable state.
THEOREM TypeInvariant == Spec => []TypeInv
<1>. QED  BY InitTypeInv, NextTypeInv, PTL DEF Spec

\* Every variable keeps its type, for any number of workers, reviewers, lines
\* and faults, although steps are taken from records read long before.
THEOREM TypeCorrect == Spec => []TypeOK
<1>1. TypeInv => TypeOK
  BY DEF TypeInv
<1>. QED  BY <1>1, TypeInvariant, PTL

-----------------------------------------------------------------------------
(* What a call knows about itself, whatever the tables hold *)

\* How often the call has counted its line, by its step and by its result.
Counted(k) ==
    /\ k.pc \in {"idle", "failed", "alias", "product", "pending", "record", "search",
                 "stage", "lost"} => k.recorded = 0
    /\ k.pc \in {"reread", "reserve", "model", "settle"} => k.recorded = 1
    /\ k.pc \in {"save", "saveaudited", "audit", "answered"} =>
          /\ k.result.kind # "NONE"
          /\ k.recorded = IF k.result.kind \in {"EXACT_ALIAS", "CACHED"} THEN 0 ELSE 1

\* Flagged text left the way to the model at the pending check; until then
\* nobody has asked for a review.
Screened(k) ==
    /\ k.pc \in {"alias", "product", "pending", "search"} => k.route = "reuse"
    /\ k.pc \in {"search", "reserve", "model"} => ~k.flagged
    /\ k.pc \in {"stage", "lost", "record", "reread"} /\ k.route = "generate" => ~k.flagged

\* A claim is the review in hand, from the insertion to the decision; an
\* automatic resolution has a product.
Claiming(k) ==
    /\ k.claim # None => k.pc \in {"reread", "reserve", "model", "settle"} /\ k.claim = k.review
    /\ k.pc \in {"reserve", "model", "settle"} => k.claim = k.review
    /\ k.pc \in {"stage", "lost", "record", "reread"} /\ k.route = "auto" => k.product # None

Local(k) == Counted(k) /\ Screened(k) /\ Claiming(k)

LocalInv == \A w \in Worker : Local(call[w])

\* The record a worker starts a line with is locally correct.
LEMMA StartLineLocal ==
    ASSUME TypeInv, NEW w \in Worker, StartLine(w)
    PROVE  Local(call'[w]) /\ \A x \in Worker \ {w} : call'[x] = call[x]
<1>0. call \in [Worker -> Call]
  BY DEF TypeInv, TypeOK, ServiceTypeOK
<1>1. PICK line \in Incoming : CacheHit(w, line[1]) \/ CacheMiss(w, line[1], line[2])
  BY DEF StartLine
<1> USE <1>0 DEF Begin, Continue, Resting, Local, Counted, Screened, Claiming
<1>2. CASE CacheHit(w, line[1])
  BY <1>2 DEF CacheHit, AsCached
<1>3. CASE CacheMiss(w, line[1], line[2])
  BY <1>3 DEF CacheMiss
<1>. QED  BY <1>1, <1>2, <1>3

\* A worker's step leaves its own record locally correct and touches no other.
LEMMA ProceedLocal ==
    ASSUME TypeInv, LocalInv, NEW w \in Worker, Proceed(w)
    PROVE  Local(call'[w]) /\ \A x \in Worker \ {w} : call'[x] = call[x]
<1> DEFINE k == call[w]
<1>0. k \in Call /\ Local(k) /\ call \in [Worker -> Call]
  BY CallFields DEF LocalInv, TypeInv, TypeOK, ServiceTypeOK
<1> USE <1>0 DEF At, Local, Counted, Screened, Claiming, Continue
<1>1. CASE FindApprovedAlias(w)
  BY <1>1 DEF FindApprovedAlias, Call
<1>2. CASE GetProduct(w)
  BY <1>2 DEF GetProduct, Decide, Conclude, Resting, DecisionOf
<1>3. CASE OrphanAlias(w)
  BY <1>3 DEF OrphanAlias, Call
<1>4. CASE AttachToPending(w)
  <2>1. PICK r \in PendingOf(k.concept) :
             Continue(w, [k EXCEPT !.pc = "record", !.review = r, !.cached = NoDecision])
    BY <1>4 DEF AttachToPending
  <2>. QED  BY <1>4, <2>1 DEF AttachToPending, Call
<1>5. CASE ReuseFinalDecision(w)
  BY <1>5 DEF ReuseFinalDecision, Answer, Conclude, Resting, AsCached
<1>6. CASE Abstain(w)
  BY <1>6 DEF Abstain, Call
<1>7. CASE NothingKnown(w)
  BY <1>7 DEF NothingKnown, Call
<1>8. CASE SearchAutoResolves(w)
  BY <1>8, NoneAssumption DEF SearchAutoResolves, Call, Retrievable
<1>9. CASE SearchIsUncertain(w)
  BY <1>9 DEF SearchIsUncertain, Call
<1>10. CASE StageReview(w)
  BY <1>10 DEF StageReview, Call
<1>11. CASE LoseClaim(w)
  BY <1>11 DEF LoseClaim, Call
<1>12. CASE FindWinner(w)
  BY <1>12 DEF FindWinner, Call
<1>13. CASE WinnerIsGone(w) \/ OccurrenceRefused(w) \/ SettlementRefused(w)
  BY <1>13 DEF WinnerIsGone, OccurrenceRefused, SettlementRefused, Raise, Resting
<1>14. CASE RecordReviewOccurrence(w)
  BY <1>14 DEF RecordReviewOccurrence, Call
<1>15. CASE ReadBackAbstention(w) \/ ReadBackAutoResolution(w) \/ ReusePendingReview(w)
  <2>1. CASE ReadBackAbstention(w)
    BY <2>1 DEF ReadBackAbstention, Decide, Conclude, Resting, DecisionOf
  <2>2. CASE ReadBackAutoResolution(w)
    BY <2>2 DEF ReadBackAutoResolution, Decide, Conclude, Resting, DecisionOf
  <2>3. CASE ReusePendingReview(w)
    BY <2>3 DEF ReusePendingReview, Decide, Conclude, Resting, DecisionOf
  <2>. QED  BY <1>15, <2>1, <2>2, <2>3
<1>16. CASE OwnPlaceholder(w)
  BY <1>16 DEF OwnPlaceholder, OwnsClaim, Call
<1>17. CASE BudgetRefuses(w) \/ CallModel(w)
  <2>1. CASE BudgetRefuses(w)
    BY <2>1 DEF BudgetRefuses, Call
  <2>2. CASE CallModel(w)
    BY <2>2 DEF CallModel, Call
  <2>. QED  BY <1>17, <2>1, <2>2
<1>18. CASE ModelReturns(w)
  BY <1>18 DEF ModelReturns, Call
<1>19. CASE SettleProposal(w)
  BY <1>19 DEF SettleProposal, Decide, Conclude, Resting, DecisionOf
<1>20. CASE SaveDecision(w) \/ SaveAuditedDecision(w) \/ AuditDecision(w)
  <2>1. CASE SaveDecision(w)
    BY <2>1 DEF SaveDecision, Answer, Conclude, Resting
  <2>2. CASE SaveAuditedDecision(w)
    BY <2>2 DEF SaveAuditedDecision, Conclude, Resting
  <2>3. CASE AuditDecision(w)
    BY <2>3 DEF AuditDecision, Answer, Conclude, Resting
  <2>. QED  BY <1>20, <2>1, <2>2, <2>3
<1>. QED
  BY <1>1, <1>2, <1>3, <1>4, <1>5, <1>6, <1>7, <1>8, <1>9, <1>10, <1>11, <1>12, <1>13,
     <1>14, <1>15, <1>16, <1>17, <1>18, <1>19, <1>20 DEF Proceed

\* Every step keeps every worker's record locally correct.
LEMMA NextLocal == TypeInv /\ LocalInv /\ [Next]_vars => LocalInv'
<1> SUFFICES ASSUME TypeInv, LocalInv, [Next]_vars PROVE LocalInv'
  OBVIOUS
<1>1. CASE WorkerStep
  <2>1. PICK w \in Worker : StartLine(w) \/ Proceed(w)
    BY <1>1 DEF WorkerStep, ServiceNext
  <2>2. Local(call'[w]) /\ \A x \in Worker \ {w} : call'[x] = call[x]
    BY <2>1, StartLineLocal, ProceedLocal
  <2>. QED  BY <2>2 DEF LocalInv
<1>2. CASE FaultStep
  <2>1. CASE call' = call
    BY <2>1 DEF LocalInv
  <2>2. ASSUME NEW w \in Worker, Abandon(w) PROVE LocalInv'
    <3>1. Local(call'[w]) /\ \A x \in Worker \ {w} : call'[x] = call[x]
      <4>1. call \in [Worker -> Call]
        BY DEF TypeInv, TypeOK, ServiceTypeOK
      <4>. QED
        BY <2>2, <4>1 DEF Abandon, Raise, Continue, Resting, Local, Counted, Screened, Claiming
    <3>. QED  BY <3>1 DEF LocalInv
  <2>. QED  BY <1>2, <2>1, <2>2 DEF FaultStep, service
<1>3. CASE call' = call
  BY <1>3 DEF LocalInv
<1>. QED
  BY <1>1, <1>2, <1>3 DEF Next, ReviewerStep, OperatorStep, vars, service

\* What a call has read so far agrees with the step it is at, always.
THEOREM LocallyCorrect == Spec => []LocalInv
<1>1. Init => LocalInv
  BY DEF Init, ServiceInit, LocalInv, Local, Counted, Screened, Claiming, Resting
<1>. QED  BY <1>1, NextLocal, TypeInvariant, PTL DEF Spec

\* A line is counted once in the review it ends up attached to and never when
\* it was answered from approved knowledge or from the cache.
THEOREM CountedOnce == Spec => []LineCountedOnce
<1>1. TypeInv /\ LocalInv => LineCountedOnce
  BY CallFields DEF LocalInv, Local, Counted, LineCountedOnce, At, Call, Ended
<1>. QED  BY <1>1, TypeInvariant, LocallyCorrect, PTL

\* Flagged text never reaches the model.
THEOREM FlaggedStaysHome == Spec => []FlaggedTextStaysHome
<1>1. LocalInv => FlaggedTextStaysHome
  BY DEF LocalInv, Local, Screened, FlaggedTextStaysHome
<1>. QED  BY <1>1, LocallyCorrect, PTL

-----------------------------------------------------------------------------
(* What a step may do to the tables *)

\* A review row changes in place: it is inserted once, keeps its concept, and
\* leaves the pending state for good.
ReviewsMove ==
    \/ reviews' = reviews
    \/ \E w \in Worker, r \in ReviewId :
          StageReview(w) /\ InsertReview(r, StagedRow(w)) /\ StagedRow(w).concept \in Concept
    \/ \E r \in ReviewId, row \in Review :
          /\ Pending(r)
          /\ row.status # "absent"
          /\ row.concept = reviews[r].concept
          /\ row.blocks \/ row.target # None \/ (row.blocks = reviews[r].blocks
                                                 /\ row.target = reviews[r].target)
          /\ reviews' = [reviews EXCEPT ![r] = row]

\* Rewriting one pending row in place is one of the moves ReviewsMove allows.
LEMMA RowRewritten ==
    ASSUME TypeInv, NEW r \in ReviewId, Pending(r), NEW row \in Review,
           row.status # "absent", row.concept = reviews[r].concept,
           row.blocks \/ row.target # None \/ (row.blocks = reviews[r].blocks
                                               /\ row.target = reviews[r].target),
           reviews' = [reviews EXCEPT ![r] = row]
    PROVE  ReviewsMove
BY DEF ReviewsMove

\* Every step of the system moves the reviews in this way or leaves them.
LEMMA StepMovesReviews == TypeInv /\ [Next]_vars => ReviewsMove
<1> SUFFICES ASSUME TypeInv, [Next]_vars PROVE ReviewsMove
  OBVIOUS
<1>0. reviews \in [ReviewId -> Review]
  BY DEF TypeInv, TypeOK, StoreTypeOK
<1>1. ASSUME NEW w \in Worker, StageReview(w) PROVE ReviewsMove
  <2>1. StagedRow(w).concept \in Concept
    BY <1>1, CallFields DEF StageReview, StagedRow, At
  <2>. QED  BY <1>1, <2>1 DEF StageReview, ReviewsMove
<1>2. ASSUME NEW w \in Worker, RecordReviewOccurrence(w) PROVE ReviewsMove
  <2> DEFINE r == call[w].review
  <2> DEFINE n == reviews[r].occurrences + 1
  <2>1. r \in ReviewId /\ Pending(r) /\ reviews[r] \in Review /\ n \in Nat
    BY <1>0, <1>2, CallFields DEF RecordReviewOccurrence, RecordOccurrence, At, Review
  <2>2. reviews' = [reviews EXCEPT ![r] = [reviews[r] EXCEPT !.occurrences = n]]
    BY <1>0, <1>2 DEF RecordReviewOccurrence, RecordOccurrence
  <2> HIDE DEF n, r
  <2>3. [reviews[r] EXCEPT !.occurrences = n] \in Review
    BY <2>1 DEF Review
  <2>. QED  BY <2>1, <2>2, <2>3, RowRewritten DEF Pending, Review
<1>3. ASSUME NEW w \in Worker, SettleProposal(w) PROVE ReviewsMove
  <2> DEFINE r == call[w].review
  <2>1. r \in ReviewId /\ call[w].product \in OrNone(Product)
    BY <1>3, CallFields DEF SettleProposal, At
  <2>2. PICK target \in OrNone(Product), llm \in BOOLEAN : UpdatePending(r, target, llm)
    BY <1>3, <2>1 DEF SettleProposal, OrNone
  <2> HIDE DEF r
  <2> DEFINE row == [reviews[r] EXCEPT !.target = target, !.blocks = TRUE,
                                       !.generating = FALSE, !.llm = llm]
  <2>3. row \in Review /\ row.blocks /\ row.status = "pending"
        /\ row.concept = reviews[r].concept
    BY <1>0, <2>1, <2>2 DEF Review, UpdatePending, Pending
  <2>4. reviews' = [reviews EXCEPT ![r] = row] /\ Pending(r)
    BY <1>0, <2>1, <2>2 DEF UpdatePending
  <2> HIDE DEF row
  <2>. QED  BY <2>1, <2>3, <2>4, RowRewritten
<1>4. ASSUME NEW r \in ReviewId, Pending(r), NEW p \in Product, Promote(r, p) PROVE ReviewsMove
  <2> DEFINE row == [reviews[r] EXCEPT !.status = "approved", !.target = p]
  <2>1. row \in Review /\ row.status = "approved" /\ row.target # None
        /\ row.concept = reviews[r].concept
    BY <1>0, NoneAssumption DEF Review, OrNone
  <2>2. reviews' = [reviews EXCEPT ![r] = row]
    BY <1>0, <1>4 DEF Promote
  <2> HIDE DEF row
  <2>. QED  BY <1>4, <2>1, <2>2, RowRewritten
<1>5. ASSUME NEW r \in ReviewId, Reject(r) PROVE ReviewsMove
  <2> DEFINE row == [reviews[r] EXCEPT !.status = "rejected"]
  <2>1. row \in Review /\ row.status = "rejected" /\ row.concept = reviews[r].concept
        /\ row.blocks = reviews[r].blocks /\ row.target = reviews[r].target
    BY <1>0 DEF Review
  <2>2. reviews' = [reviews EXCEPT ![r] = row] /\ Pending(r)
    BY <1>0, <1>5 DEF Reject
  <2> HIDE DEF row
  <2>. QED  BY <2>1, <2>2, RowRewritten
<1>6. CASE WorkerStep
  <2>1. PICK w \in Worker : StartLine(w) \/ Proceed(w)
    BY <1>6 DEF WorkerStep, ServiceNext
  <2>2. CASE StartLine(w)
    BY <2>2, StartLineSound DEF tables, ReviewsMove
  <2>3. CASE Proceed(w)
    <3>1. \/ reviews' = reviews \/ StageReview(w) \/ RecordReviewOccurrence(w)
          \/ SettleProposal(w)
      BY <2>3
         DEF Proceed, FindApprovedAlias, GetProduct, OrphanAlias, AttachToPending,
             ReuseFinalDecision, Abstain, NothingKnown, SearchAutoResolves,
             SearchIsUncertain, LoseClaim, FindWinner, WinnerIsGone, OccurrenceRefused,
             ReadBackAbstention, ReadBackAutoResolution, ReusePendingReview,
             OwnPlaceholder, BudgetRefuses, CallModel, ModelReturns, SettlementRefused,
             SaveDecision, SaveAuditedDecision, AuditDecision, tables
    <3>. QED  BY <1>1, <1>2, <1>3, <3>1 DEF ReviewsMove
  <2>. QED  BY <2>1, <2>2, <2>3
<1>7. CASE ReviewerStep
  <2>1. PICK v \in Reviewer : TakeUp(v) \/ ProceedReview(v)
    BY <1>7 DEF ReviewerStep, ReviewNext
  <2>2. desk[v] \in SoundDesk /\ desk[v] \in Desk
    BY DEF TypeInv, SoundDesk
  <2>3. CASE TakeUp(v)
    BY <2>3, TakeUpSound DEF tables, ReviewsMove
  <2>4. CASE ApproveExisting(v)
    <3>1. desk[v].review \in ReviewId /\ desk[v].target \in Product
      BY <2>2, <2>4 DEF ApproveExisting, SoundDesk, Desk, OrNone
    <3>. QED  BY <1>4, <2>4, <3>1 DEF ApproveExisting, ApproveWithTarget
  <2>5. CASE ApproveNew(v)
    <3>1. desk[v].review \in ReviewId
      BY <2>2, <2>5 DEF ApproveNew, SoundDesk
    <3>. QED  BY <1>4, <2>5, <3>1 DEF ApproveNew, ApproveAsNew
  <2>6. CASE RejectReview(v)
    <3>1. desk[v].review \in ReviewId
      BY <2>2, <2>6 DEF RejectReview, SoundDesk
    <3>. QED  BY <1>5, <2>6, <3>1 DEF RejectReview
  <2>7. CASE DeferReview(v) \/ Conflict(v) \/ AuditResolution(v) \/ AuditAction(v)
    BY <2>7 DEF DeferReview, Conflict, AuditResolution, AuditAction, tables, ReviewsMove
  <2>. QED  BY <2>1, <2>3, <2>4, <2>5, <2>6, <2>7 DEF ProceedReview
<1>8. CASE FaultStep \/ OperatorStep \/ UNCHANGED vars
  BY <1>8 DEF FaultStep, Abandon, AbandonReview, OperatorStep, DeactivateProduct, vars,
              tables, ReviewsMove
<1>. QED  BY <1>6, <1>7, <1>8 DEF Next

\* What is approved stays in the catalog's and the aliases' history: products
\* never leave the table, a deactivated one stays so, an alias is never
\* removed, and it points at a product it has been approved for.
KnowledgeGrows ==
    /\ \A c \in Concept : everApproved[c] \subseteq everApproved'[c]
    /\ \A c \in Concept : alias[c] # None => alias'[c] # None
    /\ \A p \in Product : catalog[p] # "absent" => catalog'[p] # "absent"
    /\ \A p \in Product : catalog[p] = "inactive" => catalog'[p] = "inactive"

\* An alias points at a product it was approved for, which is in the table.
AliasInv ==
    \A c \in Concept :
        /\ alias[c] # None => alias[c] \in everApproved[c]
        /\ \A p \in everApproved[c] : catalog[p] # "absent"

\* Every step only adds to what has ever been approved, and an alias always
\* points at a product it was approved for and that is in the catalog.
LEMMA StepGrowsKnowledge == TypeInv /\ AliasInv /\ [Next]_vars => KnowledgeGrows /\ AliasInv'
<1> SUFFICES ASSUME TypeInv, AliasInv, [Next]_vars PROVE KnowledgeGrows /\ AliasInv'
  OBVIOUS
<1>0. /\ alias \in [Concept -> OrNone(Product)]
      /\ everApproved \in [Concept -> SUBSET Product]
      /\ catalog \in [Product -> {"absent", "active", "inactive"}]
  BY DEF TypeInv, TypeOK, StoreTypeOK
<1>1. CASE UNCHANGED <<catalog, alias, everApproved>>
  BY <1>1 DEF KnowledgeGrows, AliasInv
<1>2. ASSUME NEW r \in ReviewId, NEW p \in Product, Promote(r, p),
             \/ IsActive(p) /\ UNCHANGED catalog
             \/ catalog[p] = "absent" /\ catalog' = [catalog EXCEPT ![p] = "active"]
      PROVE  KnowledgeGrows /\ AliasInv'
  <2> DEFINE c == reviews[r].concept
  <2>1. alias' = [alias EXCEPT ![c] = p]
        /\ everApproved' = [everApproved EXCEPT ![c] = @ \cup {p}]
    BY <1>2 DEF Promote
  <2> HIDE DEF c
  <2>2. \A q \in Product : catalog'[q] = IF q = p THEN "active" ELSE catalog[q]
    BY <1>0, <1>2 DEF IsActive
  <2>3. catalog[p] # "inactive"
    BY <1>2 DEF IsActive
  <2>4. KnowledgeGrows
    BY <1>0, <2>1, <2>2, <2>3, NoneAssumption DEF KnowledgeGrows
  <2>5. AliasInv'
    BY <1>0, <2>1, <2>2, NoneAssumption DEF AliasInv
  <2>. QED  BY <2>4, <2>5
<1>3. CASE WorkerStep
  <2>1. PICK w \in Worker : StartLine(w) \/ Proceed(w)
    BY <1>3 DEF WorkerStep, ServiceNext
  <2>2. UNCHANGED <<catalog, alias, everApproved>>
    BY <2>1, StartLineSound
       DEF Proceed, FindApprovedAlias, GetProduct, OrphanAlias, AttachToPending,
           ReuseFinalDecision, Abstain, NothingKnown, SearchAutoResolves, SearchIsUncertain,
           StageReview, LoseClaim, FindWinner, WinnerIsGone, RecordReviewOccurrence,
           OccurrenceRefused, ReadBackAbstention, ReadBackAutoResolution,
           ReusePendingReview, OwnPlaceholder, BudgetRefuses, CallModel, ModelReturns,
           SettleProposal, SettlementRefused, SaveDecision, SaveAuditedDecision,
           AuditDecision, tables
  <2>. QED  BY <1>1, <2>2
<1>4. CASE ReviewerStep
  <2>1. PICK v \in Reviewer : TakeUp(v) \/ ProceedReview(v)
    BY <1>4 DEF ReviewerStep, ReviewNext
  <2>2. desk[v] \in SoundDesk /\ desk[v] \in Desk
    BY DEF TypeInv, SoundDesk
  <2>3. CASE ApproveExisting(v)
    <3>1. desk[v].review \in ReviewId /\ desk[v].target \in Product
      BY <2>2, <2>3 DEF ApproveExisting, SoundDesk, Desk, OrNone
    <3>. QED  BY <1>2, <2>3, <3>1 DEF ApproveExisting, ApproveWithTarget
  <2>4. CASE ApproveNew(v)
    <3>1. desk[v].review \in ReviewId
      BY <2>2, <2>4 DEF ApproveNew, SoundDesk
    <3>. QED  BY <1>2, <2>4, <3>1 DEF ApproveNew, ApproveAsNew
  <2>5. CASE TakeUp(v) \/ RejectReview(v) \/ DeferReview(v) \/ Conflict(v)
             \/ AuditResolution(v) \/ AuditAction(v)
    BY <1>1, <2>5, TakeUpSound
       DEF RejectReview, DeferReview, Conflict, AuditResolution, AuditAction, tables
  <2>. QED  BY <2>1, <2>3, <2>4, <2>5 DEF ProceedReview
<1>5. CASE OperatorStep
  <2>1. PICK p \in Product : DeactivateProduct(p)
    BY <1>5, DeactivationsAssumption DEF OperatorStep
  <2>. QED  BY <1>0, <2>1 DEF DeactivateProduct, IsActive, KnowledgeGrows, AliasInv
<1>6. CASE FaultStep \/ UNCHANGED vars
  BY <1>1, <1>6 DEF FaultStep, Abandon, AbandonReview, vars, tables
<1>. QED  BY <1>3, <1>4, <1>5, <1>6 DEF Next

-----------------------------------------------------------------------------
(* Reviews: one pending row per concept, and no row that falls between the  *)
(* automatic and the human path                                             *)

\* A review that does not block the transaction names a product.
RowInv ==
    \A r \in ReviewId :
        IF reviews[r].status = "absent"
          THEN reviews[r].concept = None
          ELSE reviews[r].concept \in Concept /\ (reviews[r].blocks \/ reviews[r].target # None)

\* Every step keeps the rows of the review table correct.
LEMMA NextRow == TypeInv /\ LocalInv /\ RowInv /\ [Next]_vars => RowInv'
<1> SUFFICES ASSUME TypeInv, LocalInv, RowInv, [Next]_vars PROVE RowInv'
  OBVIOUS
<1>0. reviews \in [ReviewId -> Review] /\ ReviewsMove
  BY StepMovesReviews DEF TypeInv, TypeOK, StoreTypeOK
<1>1. CASE reviews' = reviews
  BY <1>1 DEF RowInv
<1>2. ASSUME NEW w \in Worker, NEW r \in ReviewId, StageReview(w),
             InsertReview(r, StagedRow(w)), StagedRow(w).concept \in Concept
      PROVE  RowInv'
  <2> DEFINE row == StagedRow(w)
  <2>1. row.status = "pending" /\ row.concept \in Concept /\ (row.blocks \/ row.target # None)
    BY <1>2 DEF StagedRow, StageReview, At, LocalInv, Local, Claiming
  <2>2. reviews' = [reviews EXCEPT ![r] = row]
    BY <1>2 DEF InsertReview
  <2> HIDE DEF row
  <2>. QED  BY <1>0, <2>1, <2>2 DEF RowInv
<1>3. ASSUME NEW r \in ReviewId, NEW row \in Review, Pending(r), row.status # "absent",
             row.concept = reviews[r].concept,
             row.blocks \/ row.target # None \/ (row.blocks = reviews[r].blocks
                                                 /\ row.target = reviews[r].target),
             reviews' = [reviews EXCEPT ![r] = row]
      PROVE  RowInv'
  BY <1>0, <1>3 DEF RowInv, Pending
<1>. QED  BY <1>0, <1>1, <1>2, <1>3 DEF ReviewsMove

\* Every step keeps at most one pending review for a concept.
LEMMA NextOnePending == TypeInv /\ OnePendingPerConcept /\ [Next]_vars => OnePendingPerConcept'
<1> SUFFICES ASSUME TypeInv, OnePendingPerConcept, [Next]_vars PROVE OnePendingPerConcept'
  OBVIOUS
<1>0. reviews \in [ReviewId -> Review] /\ ReviewsMove
  BY StepMovesReviews DEF TypeInv, TypeOK, StoreTypeOK
<1>1. CASE reviews' = reviews
  BY <1>1 DEF OnePendingPerConcept, Pending
<1>2. ASSUME NEW w \in Worker, NEW r \in ReviewId, InsertReview(r, StagedRow(w))
      PROVE  OnePendingPerConcept'
  <2> DEFINE row == StagedRow(w)
  <2>1. reviews' = [reviews EXCEPT ![r] = row] /\ PendingOf(row.concept) = {}
    BY <1>2 DEF InsertReview
  <2> HIDE DEF row
  <2>. QED  BY <1>0, <2>1 DEF OnePendingPerConcept, Pending, PendingOf
<1>3. ASSUME NEW r \in ReviewId, NEW row \in Review, Pending(r),
             row.concept = reviews[r].concept, reviews' = [reviews EXCEPT ![r] = row]
      PROVE  OnePendingPerConcept'
  BY <1>0, <1>3 DEF OnePendingPerConcept, Pending
<1>. QED  BY <1>0, <1>1, <1>2, <1>3 DEF ReviewsMove

\* Repeated and concurrent occurrences of one unknown share one pending review.
THEOREM OnePending == Spec => []OnePendingPerConcept
<1>1. Init => OnePendingPerConcept
  BY DEF Init, StoreInit, OnePendingPerConcept, Pending, NoReview
<1>. QED  BY <1>1, NextOnePending, TypeInvariant, PTL DEF Spec

\* A review that exists names its concept, and one that does not block the
\* transaction names a product, always.
THEOREM RowsCorrect == Spec => []RowInv
<1>1. Init => RowInv
  BY DEF Init, StoreInit, RowInv, NoReview
<1>. QED  BY <1>1, NextRow, TypeInvariant, LocallyCorrect, PTL DEF Spec

\* An alias points at a product approved for it, and an approved product is
\* never missing from the catalog, always.
THEOREM KnowledgeKept == Spec => []AliasInv
<1>1. Init => AliasInv
  <2> SUFFICES ASSUME StoreInit, NEW c \in Concept
               PROVE  /\ alias[c] # None => alias[c] \in everApproved[c]
                      /\ \A p \in everApproved[c] : catalog[p] # "absent"
    BY DEF Init, AliasInv
  <2>1. alias[c] = Seed[c] /\ everApproved[c] = {Seed[c]} \ {None}
    BY DEF StoreInit
  <2>2. Seed[c] # None => Seed[c] \in Product /\ catalog[Seed[c]] = "active"
    BY SeedAssumption DEF StoreInit
  <2>. QED  BY <2>1, <2>2
<1>. QED  BY <1>1, StepGrowsKnowledge, TypeInvariant, PTL DEF Spec

-----------------------------------------------------------------------------
(* Claims and model calls *)

\* Two calls never hold one claim, and a claim that is still to be decided on
\* has not been charged with a model call.
ClaimInv ==
    /\ \A r \in ReviewId : modelCalls[r] <= 1
    /\ \A r \in ReviewId : reviews[r].status = "absent" => modelCalls[r] = 0
    /\ \A w \in Worker : call[w].claim # None => reviews[call[w].claim].status # "absent"
    /\ \A w \in Worker : call[w].claim # None /\ call[w].pc \in {"reread", "reserve"} =>
                            modelCalls[call[w].claim] = 0
    /\ \A w, x \in Worker : call[w].claim = call[x].claim /\ call[w].claim # None => w = x

\* Only the insertion sets a claim, and a claim that is kept was on its way to
\* the model already.
LEMMA ClaimKept ==
    ASSUME TypeInv, LocalInv, NEW w \in Worker,
           StartLine(w) \/ (Proceed(w) /\ ~StageReview(w)) \/ Abandon(w)
    PROVE  /\ call'[w].claim \in {None, call[w].claim}
           /\ call'[w].claim # None /\ call'[w].pc \in {"reread", "reserve"} =>
                 call[w].pc \in {"reread", "reserve"}
<1> DEFINE k == call[w]
<1>0. k \in Call /\ Claiming(k) /\ call \in [Worker -> Call]
  BY CallFields DEF LocalInv, Local, TypeInv, TypeOK, ServiceTypeOK
<1> USE <1>0 DEF At, Continue
<1>1. ASSUME NEW pc, NEW result, Conclude(w, pc, result) PROVE call'[w].claim = None
  BY <1>1 DEF Conclude, Resting
<1>2. CASE StartLine(w)
  BY <1>2 DEF StartLine, CacheHit, CacheMiss, Begin, Resting
<1>3. CASE Abandon(w) \/ WinnerIsGone(w) \/ OccurrenceRefused(w) \/ SettlementRefused(w)
  BY <1>3 DEF Abandon, WinnerIsGone, OccurrenceRefused, SettlementRefused, Raise, Resting
<1>4. ASSUME FindApprovedAlias(w) \/ OrphanAlias(w) \/ AttachToPending(w) \/ Abstain(w)
             \/ NothingKnown(w) \/ SearchAutoResolves(w) \/ SearchIsUncertain(w)
             \/ LoseClaim(w) \/ FindWinner(w) \/ RecordReviewOccurrence(w)
      PROVE  call'[w].claim = None
  <2>1. CASE FindApprovedAlias(w)
    BY <2>1 DEF FindApprovedAlias, Claiming, Call
  <2>2. CASE OrphanAlias(w)
    BY <2>2 DEF OrphanAlias, Claiming, Call
  <2>3. CASE AttachToPending(w)
    BY <2>3 DEF AttachToPending, Claiming, Call
  <2>4. CASE Abstain(w)
    BY <2>4 DEF Abstain, Claiming, Call
  <2>5. CASE NothingKnown(w)
    BY <2>5 DEF NothingKnown, Claiming, Call
  <2>6. CASE SearchAutoResolves(w)
    BY <2>6 DEF SearchAutoResolves, Claiming, Call
  <2>7. CASE SearchIsUncertain(w)
    BY <2>7 DEF SearchIsUncertain, Claiming, Call
  <2>8. CASE LoseClaim(w)
    BY <2>8 DEF LoseClaim, Claiming, Call
  <2>9. CASE FindWinner(w)
    BY <2>9 DEF FindWinner, Claiming, Call
  <2>10. CASE RecordReviewOccurrence(w)
    BY <2>10 DEF RecordReviewOccurrence, Claiming, Call
  <2>. QED  BY <1>4, <2>1, <2>2, <2>3, <2>4, <2>5, <2>6, <2>7, <2>8, <2>9, <2>10
<1>5. CASE OwnPlaceholder(w) \/ BudgetRefuses(w) \/ CallModel(w) \/ ModelReturns(w)
  <2>1. CASE OwnPlaceholder(w)
    BY <2>1 DEF OwnPlaceholder, Call
  <2>2. CASE BudgetRefuses(w)
    BY <2>2 DEF BudgetRefuses, Call
  <2>3. CASE CallModel(w)
    BY <2>3 DEF CallModel, Call
  <2>4. CASE ModelReturns(w)
    BY <2>4 DEF ModelReturns, Call
  <2>. QED  BY <1>5, <2>1, <2>2, <2>3, <2>4
<1>6. CASE GetProduct(w) \/ ReuseFinalDecision(w) \/ ReadBackAbstention(w)
           \/ ReadBackAutoResolution(w) \/ ReusePendingReview(w) \/ SettleProposal(w)
           \/ SaveDecision(w) \/ SaveAuditedDecision(w) \/ AuditDecision(w)
  <2>1. call'[w].claim = None
    BY <1>1, <1>6
       DEF GetProduct, ReuseFinalDecision, ReadBackAbstention, ReadBackAutoResolution,
           ReusePendingReview, SettleProposal, SaveDecision, SaveAuditedDecision,
           AuditDecision, Decide, Answer
  <2>. QED  BY <2>1
<1>. QED
  BY <1>2, <1>3, <1>4, <1>5, <1>6 DEF Proceed

\* A review that exists goes on existing and keeps its concept.
LEMMA ReviewsPersist ==
    ASSUME TypeInv, [Next]_vars, NEW r \in ReviewId, reviews[r].status # "absent"
    PROVE  reviews'[r].status # "absent" /\ reviews'[r].concept = reviews[r].concept
<1>0. reviews \in [ReviewId -> Review] /\ ReviewsMove
  BY StepMovesReviews DEF TypeInv, TypeOK, StoreTypeOK
<1>. QED  BY <1>0 DEF ReviewsMove, InsertReview

\* Only a call of the model charges a review.
LEMMA OnlyCallModelCharges ==
    ASSUME TypeInv, [Next]_vars
    PROVE  modelCalls' = modelCalls \/ \E w \in Worker : CallModel(w)
<1>1. CASE WorkerStep
  <2>1. PICK w \in Worker : StartLine(w) \/ Proceed(w)
    BY <1>1 DEF WorkerStep, ServiceNext
  <2>. QED
    BY <2>1, StartLineSound
       DEF Proceed, FindApprovedAlias, GetProduct, OrphanAlias, AttachToPending,
           ReuseFinalDecision, Abstain, NothingKnown, SearchAutoResolves, SearchIsUncertain,
           StageReview, LoseClaim, FindWinner, WinnerIsGone, RecordReviewOccurrence,
           OccurrenceRefused, ReadBackAbstention, ReadBackAutoResolution,
           ReusePendingReview, OwnPlaceholder, BudgetRefuses, CallModel, ModelReturns,
           SettleProposal, SettlementRefused, SaveDecision, SaveAuditedDecision,
           AuditDecision
<1>. QED
  BY <1>1 DEF Next, ReviewerStep, FaultStep, Abandon, OperatorStep, vars, service

\* Every step keeps the claims on reviews exclusive and uncharged.
LEMMA NextClaim == TypeInv /\ LocalInv /\ ClaimInv /\ [Next]_vars => ClaimInv'
<1> SUFFICES ASSUME TypeInv, LocalInv, ClaimInv, [Next]_vars PROVE ClaimInv'
  OBVIOUS
<1>0. /\ reviews \in [ReviewId -> Review] /\ modelCalls \in [ReviewId -> Nat]
      /\ call \in [Worker -> Call] /\ call' \in [Worker -> Call]
      /\ \A w \in Worker : call[w].claim # None => call[w].claim \in ReviewId
  <2>1. TypeInv'
    BY NextTypeInv
  <2>. QED  BY <2>1 DEF TypeInv, TypeOK, StoreTypeOK, ServiceTypeOK, Call, OrNone
<1>1. \A r \in ReviewId : reviews'[r].status = "absent" => reviews[r].status = "absent"
  BY ReviewsPersist
\* A step in which no worker inserts a review or calls the model.
<1>2. ASSUME modelCalls' = modelCalls,
             \A w \in Worker :
                /\ call'[w].claim \in {None, call[w].claim}
                /\ call'[w].claim # None /\ call'[w].pc \in {"reread", "reserve"} =>
                      call[w].pc \in {"reread", "reserve"}
      PROVE  ClaimInv'
  <2>1. \A w \in Worker : call'[w].claim # None => reviews'[call'[w].claim].status # "absent"
    BY <1>0, <1>1, <1>2 DEF ClaimInv
  <2>. QED  BY <1>0, <1>1, <1>2, <2>1 DEF ClaimInv
<1>3. ASSUME NEW w \in Worker, StageReview(w) PROVE ClaimInv'
  <2>1. PICK r \in ReviewId :
             /\ InsertReview(r, StagedRow(w))
             /\ Continue(w, [call[w] EXCEPT !.pc = "reread", !.review = r, !.claim = r,
                                            !.recorded = @ + 1])
    BY <1>3 DEF StageReview
  <2>2. /\ reviews[r].status = "absent"
        /\ reviews'[r].status = "pending"
        /\ call'[w].claim = r
        /\ \A x \in Worker \ {w} : call'[x] = call[x]
    BY <1>0, <2>1 DEF InsertReview, StagedRow, Continue, Call
  <2>3. modelCalls' = modelCalls
    BY <1>3 DEF StageReview
  <2>4. \A x \in Worker \ {w} : call[x].claim # r
    BY <1>0, <2>2, NoneAssumption DEF ClaimInv
  <2>5. \A x \in Worker : call'[x].claim # None => reviews'[call'[x].claim].status # "absent"
    BY <1>0, <1>1, <2>2 DEF ClaimInv
  <2>6. \A x \in Worker : call'[x].claim # None /\ call'[x].pc \in {"reread", "reserve"} =>
                             modelCalls'[call'[x].claim] = 0
    BY <2>2, <2>3 DEF ClaimInv
  <2>7. \A x, y \in Worker : call'[x].claim = call'[y].claim /\ call'[x].claim # None => x = y
    BY <2>2, <2>4 DEF ClaimInv
  <2>. QED  BY <1>1, <2>3, <2>5, <2>6, <2>7 DEF ClaimInv
<1>4. ASSUME NEW w \in Worker, CallModel(w) PROVE ClaimInv'
  <2> DEFINE r == call[w].review
  <2>1. r \in ReviewId /\ call[w].claim = r /\ call[w].pc = "reserve"
    BY <1>4, CallFields DEF CallModel, At, LocalInv, Local, Claiming
  <2>2. modelCalls[r] = 0 /\ reviews[r].status # "absent"
    BY <2>1, NoneAssumption DEF ClaimInv
  <2>3. modelCalls' = [modelCalls EXCEPT ![r] = 1]
    BY <1>0, <1>4, <2>1, <2>2 DEF CallModel
  <2>4. /\ call'[w].claim = r /\ call'[w].pc = "model"
        /\ \A x \in Worker \ {w} : call'[x] = call[x]
    BY <1>0, <1>4, <2>1 DEF CallModel, Continue, Call
  <2>5. reviews' = reviews
    BY <1>4 DEF CallModel, tables
  <2> HIDE DEF r
  <2>6. \A x \in Worker \ {w} : call[x].claim # r
    BY <2>1, NoneAssumption DEF ClaimInv
  <2>7. \A q \in ReviewId : modelCalls'[q] <= 1 /\ (reviews'[q].status = "absent" => modelCalls'[q] = 0)
    BY <1>0, <2>1, <2>2, <2>3, <2>5 DEF ClaimInv
  <2>8. \A x \in Worker : call'[x].claim # None => reviews'[call'[x].claim].status # "absent"
    BY <2>2, <2>4, <2>5 DEF ClaimInv
  <2>9. \A x \in Worker : call'[x].claim # None /\ call'[x].pc \in {"reread", "reserve"} =>
                             modelCalls'[call'[x].claim] = 0
    BY <1>0, <2>3, <2>4, <2>6 DEF ClaimInv
  <2>10. \A x, y \in Worker : call'[x].claim = call'[y].claim /\ call'[x].claim # None => x = y
    BY <2>1, <2>4, <2>6 DEF ClaimInv
  <2>. QED  BY <2>7, <2>8, <2>9, <2>10 DEF ClaimInv
<1>5. CASE call' = call /\ modelCalls' = modelCalls
  BY <1>2, <1>5
<1>6. ASSUME NEW w \in Worker, StartLine(w) \/ (Proceed(w) /\ ~StageReview(w)) \/ Abandon(w),
             modelCalls' = modelCalls,
             \A x \in Worker \ {w} : call'[x] = call[x]
      PROVE  ClaimInv'
  BY <1>2, <1>6, ClaimKept
<1>7. CASE WorkerStep
  <2>1. PICK w \in Worker : StartLine(w) \/ Proceed(w)
    BY <1>7 DEF WorkerStep, ServiceNext
  <2>2. \A x \in Worker \ {w} : call'[x] = call[x]
    BY <2>1, StartLineLocal, ProceedLocal
  <2>. QED  BY <1>3, <1>4, <1>6, <2>1, <2>2, OnlyCallModelCharges
<1>8. CASE FaultStep
  <2>1. modelCalls' = modelCalls
    BY <1>8 DEF FaultStep, Abandon, service
  <2>2. ASSUME NEW w \in Worker, Abandon(w) PROVE ClaimInv'
    <3>1. \A x \in Worker \ {w} : call'[x] = call[x]
      BY <1>0, <2>2 DEF Abandon, Raise, Continue
    <3>. QED  BY <1>6, <2>1, <2>2, <3>1
  <2>. QED  BY <1>5, <1>8, <2>1, <2>2 DEF FaultStep, service
<1>. QED
  BY <1>5, <1>7, <1>8 DEF Next, ReviewerStep, OperatorStep, vars, service

\* A review on its way to the model is held by one call and not yet charged.
THEOREM ClaimsCorrect == Spec => []ClaimInv
<1>1. Init => ClaimInv
  BY NoneAssumption DEF Init, StoreInit, ServiceInit, ClaimInv, Resting
<1>. QED  BY <1>1, NextClaim, TypeInvariant, LocallyCorrect, PTL DEF Spec

\* A review costs at most one model call.
THEOREM OneModelCall == Spec => []OneModelCallPerReview
<1>1. ClaimInv => OneModelCallPerReview
  BY DEF ClaimInv, OneModelCallPerReview
<1>. QED  BY <1>1, ClaimsCorrect, PTL

-----------------------------------------------------------------------------
(* Decisions and what they rest on *)

\* Review r exists and is about c.
Exists(r, c) == reviews[r].status # "absent" /\ reviews[r].concept = c

\* What a decision about c rests on, wherever it was copied from: a final one
\* names a product, an attached review is one of c's, and a final decision
\* with no review names a product c has been approved for.
Backed(d, c) ==
    /\ Final(d) => d.product # None
    /\ d.review # None => Exists(d.review, c)
    /\ Final(d) /\ d.review = None => d.product \in everApproved[c]

DecisionsBacked == \A c \in Concept : Backed(decisions[c], c)

\* An approved product of c has been deactivated.
Orphaned(c) == \E p \in everApproved[c] : ~IsActive(p)

\* What a call in progress may rely on, although the tables have moved on since
\* it read them.
Knows(k) ==
    k.pc \notin {"idle", "failed"} =>
        /\ Backed(k.cached, k.concept) /\ Backed(k.result, k.concept)
        /\ k.pc \in {"record", "reread", "reserve", "model", "settle"} =>
              Exists(k.review, k.concept)
        /\ k.pc = "product" => k.product \in everApproved[k.concept]
        /\ k.began # None /\ k.pc = "alias" => alias[k.concept] # None
        /\ k.began # None /\ k.pc \in {"pending", "record", "search", "stage", "lost",
                                       "reread", "reserve", "model", "settle"} =>
              Orphaned(k.concept)
        /\ k.began # None /\ k.pc \in {"save", "saveaudited", "audit", "answered"} =>
              \/ Orphaned(k.concept)
              \/ /\ k.result.kind \in {"EXACT_ALIAS", "CACHED"}
                 /\ k.result.product \in everApproved[k.concept]

\* A decision that rests on approved knowledge or on a review goes on doing so.
LEMMA BackedKept ==
    ASSUME TypeInv, AliasInv, [Next]_vars, NEW c \in Concept, NEW d \in Decision, Backed(d, c)
    PROVE  Backed(d, c)'
<1>1. d.review \in ReviewId \cup {None}
  BY DEF Decision, OrNone
<1>2. everApproved[c] \subseteq everApproved'[c]
  BY StepGrowsKnowledge DEF KnowledgeGrows
<1>3. d.review # None => Exists(d.review, c)'
  BY <1>1, ReviewsPersist DEF Backed, Exists
<1>. QED  BY <1>2, <1>3 DEF Backed, Final

\* A call whose concept was approved before it began stays one.
LEMMA OrphanedKept ==
    ASSUME TypeInv, AliasInv, [Next]_vars, NEW c \in Concept, Orphaned(c)
    PROVE  Orphaned(c)'
<1>1. PICK p \in everApproved[c] : ~IsActive(p)
  BY DEF Orphaned
<1>2. p \in Product /\ catalog[p] = "inactive"
  BY <1>1 DEF IsActive, AliasInv, TypeInv, TypeOK, StoreTypeOK
<1>3. p \in everApproved'[c] /\ catalog'[p] = "inactive"
  BY <1>2, StepGrowsKnowledge DEF KnowledgeGrows
<1>. QED  BY <1>3 DEF Orphaned, IsActive

\* What a call relies on goes on being so while others take steps.
LEMMA KnowsKept ==
    ASSUME TypeInv, AliasInv, [Next]_vars, NEW k \in SoundCall, Knows(k)
    PROVE  Knows(k)'
<1> SUFFICES ASSUME k.pc \notin {"idle", "failed"} PROVE Knows(k)'
  BY DEF Knows
<1>1. /\ k.concept \in Concept /\ k.cached \in Decision /\ k.result \in Decision
      /\ k.pc \in {"record", "reread", "reserve", "model", "settle"} => k.review \in ReviewId
  BY DEF SoundCall, Call
<1>2. KnowledgeGrows
  BY StepGrowsKnowledge
<1>3. Backed(k.cached, k.concept)' /\ Backed(k.result, k.concept)'
  BY <1>1, BackedKept DEF Knows
<1>4. Orphaned(k.concept) => Orphaned(k.concept)'
  BY <1>1, OrphanedKept
<1>5. k.pc \in {"record", "reread", "reserve", "model", "settle"} => Exists(k.review, k.concept)'
  BY <1>1, ReviewsPersist DEF Knows, Exists
<1>6. /\ k.pc = "product" => k.product \in everApproved'[k.concept]
      /\ k.began # None /\ k.pc = "alias" => alias'[k.concept] # None
  BY <1>1, <1>2 DEF Knows, KnowledgeGrows
<1>7. everApproved[k.concept] \subseteq everApproved'[k.concept]
  BY <1>1, <1>2 DEF KnowledgeGrows
<1>. QED  BY <1>3, <1>4, <1>5, <1>6, <1>7 DEF Knows

\* A call that has reached its result, with what the result rests on.
LEMMA ConcludeKnows ==
    ASSUME TypeInv, NEW w \in Worker, NEW k \in SoundCall, call[w] = k,
           k.pc \notin {"idle", "failed"}, Knows(k)',
           NEW n \in SoundCall, call'[w] = n,
           NEW pc \in {"answered", "save", "saveaudited", "audit"}, NEW result \in Decision,
           Conclude(w, pc, result), Backed(result, k.concept)',
           k.began # None => \/ Orphaned(k.concept)'
                             \/ /\ result.kind \in {"EXACT_ALIAS", "CACHED"}
                                /\ result.product \in everApproved'[k.concept]
    PROVE  Knows(n)'
<1>1. call \in [Worker -> Call]
  BY DEF TypeInv, TypeOK, ServiceTypeOK
<1>2. /\ n.pc = pc /\ n.result = result /\ n.concept = k.concept /\ n.began = k.began
      /\ n.cached = NoDecision
  BY <1>1 DEF Conclude, Continue, Resting
<1>3. Backed(NoDecision, k.concept)'
  BY DEF Backed, Final, NoDecision, DecisionOf
<1>. QED  BY <1>2, <1>3 DEF Knows

\* The same for a decision built in this step.
LEMMA DecideKnows ==
    ASSUME TypeInv, NEW w \in Worker, NEW k \in SoundCall, call[w] = k,
           k.pc \notin {"idle", "failed"}, Knows(k)',
           NEW n \in SoundCall, call'[w] = n,
           NEW then \in {"save", "saveaudited"},
           NEW kind \in {"EXACT_ALIAS", "AUTO_RETRIEVAL", "GENERATED_CANDIDATE",
                         "PENDING_REVIEW_REUSE", "ABSTAINED"},
           NEW product \in OrNone(Product), NEW human \in BOOLEAN,
           NEW review \in OrNone(ReviewId),
           Decide(w, then, kind, product, human, review),
           Backed(DecisionOf(kind, product, human, review), k.concept)',
           k.began # None => \/ Orphaned(k.concept)'
                             \/ /\ kind \in {"EXACT_ALIAS", "CACHED"}
                                /\ product \in everApproved'[k.concept]
    PROVE  Knows(n)'
<1> DEFINE d == DecisionOf(kind, product, human, review)
<1>1. d \in Decision /\ d.kind = kind /\ d.product = product
  BY DEF DecisionOf, Decision
<1>2. Conclude(w, then, d) /\ Backed(d, k.concept)'
  BY DEF Decide
<1> HIDE DEF d
<1>. QED  BY <1>1, <1>2, ConcludeKnows

\* A decision that asks for a human and points at an existing review is
\* backed whatever it proposes.
LEMMA HumanBacked ==
    ASSUME NEW kind, NEW product, NEW r \in ReviewId, NEW c, Exists(r, c)'
    PROVE  Backed(DecisionOf(kind, product, TRUE, r), c)'
BY DEF Backed, Final, DecisionOf

\* A call's own step leaves it with a result that rests on something.
LEMMA ProceedKnows ==
    ASSUME TypeInv, LocalInv, RowInv, AliasInv, [Next]_vars,
           NEW w \in Worker, Proceed(w),
           NEW k \in SoundCall, call[w] = k, Knows(k),
           NEW n \in SoundCall, call'[w] = n
    PROVE  Knows(n)'
<1> DEFINE c == k.concept
<1>0. /\ k \in Call /\ k.cached \in Decision /\ k.result \in Decision
      /\ k.product \in OrNone(Product)
      /\ call \in [Worker -> Call] /\ Local(k)
      /\ alias \in [Concept -> OrNone(Product)]
      /\ reviews \in [ReviewId -> Review]
  BY DEF SoundCall, Call, LocalInv, TypeInv, TypeOK, ServiceTypeOK, StoreTypeOK
<1>1. Knows(k)'
  BY KnowsKept
<1>2. k.pc \notin {"idle", "failed"}
  BY DEF Proceed, FindApprovedAlias, GetProduct, OrphanAlias, AttachToPending,
         ReuseFinalDecision, Abstain, NothingKnown, SearchAutoResolves, SearchIsUncertain,
         StageReview, LoseClaim, FindWinner, WinnerIsGone, RecordReviewOccurrence,
         OccurrenceRefused, ReadBackAbstention, ReadBackAutoResolution, ReusePendingReview,
         OwnPlaceholder, BudgetRefuses, CallModel, ModelReturns, SettleProposal,
         SettlementRefused, SaveDecision, SaveAuditedDecision, AuditDecision, At
<1>3. c \in Concept
  BY <1>2 DEF SoundCall
<1>4. Backed(NoDecision, c)'
  BY DEF Backed, Final, NoDecision, DecisionOf
<1> HIDE DEF c
<1>5. \A next : Continue(w, next) => n = next
  BY <1>0 DEF Continue
<1>6. CASE FindApprovedAlias(w)
  <2>1. /\ n.concept = c /\ n.cached = k.cached /\ n.result = k.result /\ n.began = k.began
        /\ n.product = alias[c] /\ alias' = alias
        /\ n.pc = IF alias[c] = None THEN "pending" ELSE "product"
        /\ k.pc = "alias"
    BY <1>0, <1>6 DEF FindApprovedAlias, Continue, Call, At, tables, c
  <2>2. n.pc = "product" => n.product \in everApproved'[c]
    BY <1>3, <1>6, <2>1 DEF AliasInv, FindApprovedAlias, tables
  <2>3. n.pc = "pending" => k.began = None
    BY <1>1, <1>2, <2>1 DEF Knows, c
  <2>. QED  BY <1>1, <1>2, <2>1, <2>2, <2>3 DEF Knows, c
<1>7. CASE GetProduct(w)
  <2>1. k.pc = "product" /\ k.product \in Product /\ k.product \in everApproved'[c]
    BY <1>1, <1>7 DEF GetProduct, At, IsActive, Knows, c
  <2>2. Backed(DecisionOf("EXACT_ALIAS", k.product, FALSE, None), c)'
    BY <2>1, NoneAssumption DEF Backed, Final, DecisionOf
  <2>. QED
    BY <1>1, <1>2, <1>7, <2>1, <2>2, DecideKnows DEF GetProduct, OrNone, c
<1>8. CASE OrphanAlias(w)
  <2>1. /\ n.concept = c /\ n.cached = k.cached /\ n.result = k.result /\ n.began = k.began
        /\ n.pc = "pending" /\ k.pc = "product"
    BY <1>0, <1>8 DEF OrphanAlias, Continue, Call, At, c
  <2>2. k.product \in everApproved'[c] /\ ~IsActive(k.product)'
    BY <1>1, <1>8, <2>1 DEF Knows, OrphanAlias, tables, IsActive, c
  <2>3. Orphaned(c)'
    BY <2>2 DEF Orphaned
  <2>. QED  BY <1>1, <1>2, <2>1, <2>3 DEF Knows, c
<1>9. CASE AttachToPending(w)
  <2>1. PICK r \in PendingOf(c) :
             Continue(w, [k EXCEPT !.pc = "record", !.review = r, !.cached = NoDecision])
    BY <1>9 DEF AttachToPending, c
  <2>2. /\ n.concept = c /\ n.cached = NoDecision /\ n.result = k.result /\ n.began = k.began
        /\ n.pc = "record" /\ n.review = r /\ k.pc = "pending"
    BY <1>0, <1>9, <2>1 DEF AttachToPending, Continue, Call, At, c
  <2>3. Exists(r, c)'
    BY <1>9, <2>1 DEF AttachToPending, PendingOf, Pending, Exists, tables
  <2>. QED  BY <1>1, <1>2, <1>4, <2>2, <2>3 DEF Knows, c
<1>10. CASE ReuseFinalDecision(w)
  <2> DEFINE d == AsCached(k.cached)
  <2>1. d \in Decision /\ Conclude(w, "answered", d)
    BY <1>0, <1>10 DEF ReuseFinalDecision, Answer, AsCached, Decision
  <2>2. Backed(d, c)'
    BY <1>0, <1>1, <1>2 , <1>10 DEF Knows, Backed, Final, AsCached, Decision, ReuseFinalDecision, c
  <2>3. k.began # None => Orphaned(c)'
    BY <1>1, <1>2, <1>10 DEF Knows, ReuseFinalDecision, At, c
  <2> HIDE DEF d
  <2>. QED  BY <1>1, <1>2, <2>1, <2>2, <2>3, ConcludeKnows DEF c
<1>11. CASE Abstain(w)
  <2>1. /\ n.concept = c /\ n.cached = NoDecision /\ n.result = k.result /\ n.began = k.began
        /\ n.pc = "stage" /\ k.pc = "pending"
    BY <1>0, <1>11 DEF Abstain, Continue, Call, At, c
  <2>. QED  BY <1>1, <1>2, <1>4, <2>1 DEF Knows, c
<1>12. CASE NothingKnown(w)
  <2>1. /\ n.concept = c /\ n.cached = NoDecision /\ n.result = k.result /\ n.began = k.began
        /\ n.pc = "search" /\ k.pc = "pending"
    BY <1>0, <1>12 DEF NothingKnown, Continue, Call, At, c
  <2>. QED  BY <1>1, <1>2, <1>4, <2>1 DEF Knows, c
<1>13. CASE SearchAutoResolves(w)
  <2>0. PICK p \in Retrievable :
             Continue(w, [k EXCEPT !.pc = "stage", !.route = "auto", !.product = p])
    BY <1>13 DEF SearchAutoResolves
  <2>1. /\ n.concept = c /\ n.cached = k.cached /\ n.result = k.result /\ n.began = k.began
        /\ n.pc = "stage" /\ k.pc = "search"
    BY <1>0, <1>13, <2>0 DEF SearchAutoResolves, Continue, Call, At, c
  <2>. QED  BY <1>1, <1>2, <2>1 DEF Knows, c
<1>14. CASE SearchIsUncertain(w)
  <2>0. PICK p \in OrNone(Retrievable) :
             Continue(w, [k EXCEPT !.pc = "stage", !.route = "generate", !.product = p])
    BY <1>14 DEF SearchIsUncertain
  <2>1. /\ n.concept = c /\ n.cached = k.cached /\ n.result = k.result /\ n.began = k.began
        /\ n.pc = "stage" /\ k.pc = "search"
    BY <1>0, <1>14, <2>0 DEF SearchIsUncertain, Continue, Call, At, c
  <2>. QED  BY <1>1, <1>2, <2>1 DEF Knows, c
<1>15. CASE StageReview(w)
  <2>1. PICK r \in ReviewId :
             /\ InsertReview(r, StagedRow(w))
             /\ Continue(w, [k EXCEPT !.pc = "reread", !.review = r, !.claim = r,
                                      !.recorded = @ + 1])
    BY <1>15 DEF StageReview
  <2>2. /\ n.concept = c /\ n.cached = k.cached /\ n.result = k.result /\ n.began = k.began
        /\ n.pc = "reread" /\ n.review = r /\ k.pc = "stage"
    BY <1>0, <1>15, <2>1 DEF StageReview, Continue, Call, At, c
  <2>3. Exists(r, c)'
    BY <1>0, <2>1 DEF InsertReview, StagedRow, Exists, c
  <2>. QED  BY <1>1, <1>2, <2>2, <2>3 DEF Knows, c
<1>16. CASE LoseClaim(w)
  <2>1. /\ n.concept = c /\ n.cached = k.cached /\ n.result = k.result /\ n.began = k.began
        /\ n.pc = "lost" /\ k.pc = "stage"
    BY <1>0, <1>16 DEF LoseClaim, Continue, Call, At, c
  <2>. QED  BY <1>1, <1>2, <2>1 DEF Knows, c
<1>17. CASE FindWinner(w)
  <2>1. PICK r \in PendingOf(c) : Continue(w, [k EXCEPT !.pc = "record", !.review = r])
    BY <1>17 DEF FindWinner, c
  <2>2. /\ n.concept = c /\ n.cached = k.cached /\ n.result = k.result /\ n.began = k.began
        /\ n.pc = "record" /\ n.review = r /\ k.pc = "lost"
    BY <1>0, <1>17, <2>1 DEF FindWinner, Continue, Call, At, c
  <2>3. Exists(r, c)'
    BY <1>17, <2>1 DEF FindWinner, PendingOf, Pending, Exists, tables
  <2>. QED  BY <1>1, <1>2, <2>2, <2>3 DEF Knows, c
<1>18. CASE WinnerIsGone(w) \/ OccurrenceRefused(w) \/ SettlementRefused(w)
  <2>1. n.pc = "failed"
    BY <1>0, <1>18
       DEF WinnerIsGone, OccurrenceRefused, SettlementRefused, Raise, Continue, Resting
  <2>. QED  BY <2>1 DEF Knows
<1>19. CASE RecordReviewOccurrence(w)
  <2>1. /\ n.concept = c /\ n.cached = k.cached /\ n.result = k.result /\ n.began = k.began
        /\ n.pc = "reread" /\ k.pc = "record" /\ n.review = k.review
    BY <1>0, <1>19 DEF RecordReviewOccurrence, Continue, Call, At, c
  <2>. QED  BY <1>1, <1>2, <2>1 DEF Knows, c
<1>20. ASSUME k.pc \in {"reread", "settle"}
       PROVE  /\ k.review \in ReviewId /\ Exists(k.review, c) /\ Exists(k.review, c)'
              /\ k.began # None => Orphaned(c)'
  BY <1>1, <1>2, <1>20 DEF SoundCall, Knows, c
<1>21. CASE ReadBackAbstention(w)
  <2>1. k.pc = "reread" /\ Decide(w, "save", "ABSTAINED", None, TRUE, k.review)
    BY <1>21 DEF ReadBackAbstention, At
  <2>2. Backed(DecisionOf("ABSTAINED", None, TRUE, k.review), c)'
    BY <1>20, <2>1, HumanBacked
  <2>. QED  BY <1>1, <1>2, <1>20, <2>1, <2>2, DecideKnows DEF OrNone, c
<1>22. CASE ReadBackAutoResolution(w)
  <2>1. /\ k.pc = "reread" /\ k.product # None
        /\ Decide(w, "saveaudited", "AUTO_RETRIEVAL", k.product, FALSE, k.review)
    BY <1>0, <1>22 DEF ReadBackAutoResolution, At, Local, Claiming
  <2>2. Backed(DecisionOf("AUTO_RETRIEVAL", k.product, FALSE, k.review), c)'
    BY <1>20, <2>1, NoneAssumption DEF Backed, Final, DecisionOf
  <2>. QED  BY <1>0, <1>1, <1>2, <1>20, <2>1, <2>2, DecideKnows DEF OrNone, c
<1>23. CASE ReusePendingReview(w)
  <2> DEFINE row == reviews[k.review]
  <2>1. /\ k.pc = "reread"
        /\ Decide(w, "save", "PENDING_REVIEW_REUSE", row.target, row.blocks, k.review)
    BY <1>23 DEF ReusePendingReview, At
  <2>2. /\ row.target \in OrNone(Product) /\ row.blocks \in BOOLEAN
        /\ row.blocks \/ row.target # None
    BY <1>0, <1>20, <2>1 DEF Review, Exists, RowInv
  <2> HIDE DEF row
  <2>3. \E target \in OrNone(Product), blocks \in BOOLEAN :
           /\ blocks \/ target # None
           /\ Decide(w, "save", "PENDING_REVIEW_REUSE", target, blocks, k.review)
    <3>. USE <2>2
    <3>. WITNESS row.target \in OrNone(Product), row.blocks \in BOOLEAN
    <3>. QED  BY <2>1
  <2>4. PICK target \in OrNone(Product), blocks \in BOOLEAN :
             /\ blocks \/ target # None
             /\ Decide(w, "save", "PENDING_REVIEW_REUSE", target, blocks, k.review)
    BY <2>3
  <2>5. Backed(DecisionOf("PENDING_REVIEW_REUSE", target, blocks, k.review), c)'
    BY <1>20, <2>1, <2>4, NoneAssumption DEF Backed, Final, DecisionOf
  <2>. QED  BY <1>1, <1>2, <1>20, <2>1, <2>4, <2>5, DecideKnows DEF OrNone, c
<1>24. CASE OwnPlaceholder(w)
  <2>1. /\ n.concept = c /\ n.cached = k.cached /\ n.result = k.result /\ n.began = k.began
        /\ n.pc = "reserve" /\ k.pc = "reread" /\ n.review = k.review
    BY <1>0, <1>24 DEF OwnPlaceholder, Continue, Call, At, c
  <2>. QED  BY <1>1, <1>2, <2>1 DEF Knows, c
<1>25. CASE BudgetRefuses(w)
  <2>1. /\ n.concept = c /\ n.cached = k.cached /\ n.result = k.result /\ n.began = k.began
        /\ n.pc = "settle" /\ k.pc = "reserve" /\ n.review = k.review
    BY <1>0, <1>25 DEF BudgetRefuses, Continue, Call, At, c
  <2>. QED  BY <1>1, <1>2, <2>1 DEF Knows, c
<1>26. CASE CallModel(w)
  <2>1. /\ n.concept = c /\ n.cached = k.cached /\ n.result = k.result /\ n.began = k.began
        /\ n.pc = "model" /\ k.pc = "reserve" /\ n.review = k.review
    BY <1>0, <1>26 DEF CallModel, Continue, Call, At, c
  <2>. QED  BY <1>1, <1>2, <2>1 DEF Knows, c
<1>27. CASE ModelReturns(w)
  <2>0. PICK o \in Outcome : Continue(w, [k EXCEPT !.pc = "settle", !.outcome = o])
    BY <1>27 DEF ModelReturns
  <2>1. /\ n.concept = c /\ n.cached = k.cached /\ n.result = k.result /\ n.began = k.began
        /\ n.pc = "settle" /\ k.pc = "model" /\ n.review = k.review
    BY <1>0, <1>27, <2>0 DEF ModelReturns, Continue, Call, At, c
  <2>. QED  BY <1>1, <1>2, <2>1 DEF Knows, c
<1>28. CASE SettleProposal(w)
  <2>1. k.pc = "settle"
    BY <1>28 DEF SettleProposal, At
  <2>2. PICK then \in {"save", "saveaudited"}, kind \in {"GENERATED_CANDIDATE", "ABSTAINED"},
             target \in OrNone(Product) : Decide(w, then, kind, target, TRUE, k.review)
    BY <1>0, <1>28 DEF SettleProposal, OrNone
  <2>3. Backed(DecisionOf(kind, target, TRUE, k.review), c)'
    BY <1>20, <2>1, HumanBacked
  <2>. QED  BY <1>1, <1>2, <1>20, <2>1, <2>2, <2>3, DecideKnows DEF OrNone, c
<1>29. CASE SaveDecision(w) \/ SaveAuditedDecision(w) \/ AuditDecision(w)
  <2>1. k.pc \in {"save", "saveaudited", "audit"}
        /\ (Conclude(w, "answered", k.result) \/ Conclude(w, "audit", k.result))
    BY <1>29 DEF SaveDecision, SaveAuditedDecision, AuditDecision, Answer, At
  <2>2. /\ Backed(k.result, c)'
        /\ k.began # None => \/ Orphaned(c)'
                             \/ /\ k.result.kind \in {"EXACT_ALIAS", "CACHED"}
                                /\ k.result.product \in everApproved'[c]
    BY <1>1, <1>2, <2>1 DEF Knows, c
  <2>. QED  BY <1>0, <1>1, <1>2, <2>1, <2>2, ConcludeKnows DEF c
<1>. QED
  BY <1>6, <1>7, <1>8, <1>9, <1>10, <1>11, <1>12, <1>13, <1>14, <1>15, <1>16, <1>17, <1>18,
     <1>19, <1>21, <1>22, <1>23, <1>24, <1>25, <1>26, <1>27, <1>28, <1>29 DEF Proceed

\* A call that has just begun knows what it was begun with.
LEMMA StartLineKnows ==
    ASSUME TypeInv, AliasInv, DecisionsBacked, NEW w \in Worker, StartLine(w),
           NEW n \in SoundCall, call'[w] = n
    PROVE  Knows(n)'
<1>0. /\ call \in [Worker -> Call] /\ decisions \in [Concept -> Decision]
      /\ UNCHANGED tables
  BY StartLineSound DEF TypeInv, TypeOK, ServiceTypeOK, StoreTypeOK
<1>1. PICK line \in Incoming : CacheHit(w, line[1]) \/ CacheMiss(w, line[1], line[2])
  BY DEF StartLine
<1>2. PICK c \in Concept : c = line[1]
  BY IncomingAssumption
<1>3. Backed(NoDecision, c)'
  BY DEF Backed, Final, NoDecision, DecisionOf
<1>4. PICK d \in Decision : d = decisions[c]
  BY <1>0
<1>5. Backed(d, c)'
  BY <1>0, <1>4 DEF DecisionsBacked, Backed, Exists, Final, tables
<1>6. CASE CacheHit(w, line[1])
  <2>1. /\ n.pc = "answered" /\ n.concept = c /\ n.cached = NoDecision
        /\ n.result = AsCached(d)
    BY <1>0, <1>2, <1>4, <1>6 DEF CacheHit, Continue, Begin, Resting
  <2>2. Backed(AsCached(d), c)' /\ AsCached(d).kind = "CACHED"
    BY <1>2, <1>4, <1>5, <1>6 DEF Backed, Final, AsCached, Decision, CacheHit, SafeInCache
  <2>3. AsCached(d).product \in everApproved'[c]
    BY <1>2, <1>4, <1>5, <1>6 DEF Backed, Final, AsCached, Decision, CacheHit, SafeInCache
  <2>. QED  BY <1>3, <2>1, <2>2, <2>3 DEF Knows
<1>7. CASE CacheMiss(w, line[1], line[2])
  <2>1. /\ n.pc = "alias" /\ n.concept = c /\ n.cached = d /\ n.result = NoDecision
        /\ n.began = alias'[c]
    BY <1>0, <1>2, <1>4, <1>7 DEF CacheMiss, Continue, Begin, Resting, tables
  <2>. QED  BY <1>3, <1>5, <2>1 DEF Knows
<1>. QED  BY <1>1, <1>6, <1>7

BackedInv == DecisionsBacked /\ \A w \in Worker : Knows(call[w])

\* A decision that is saved was built by a call that knows what it rests on.
LEMMA NextDecisions ==
    ASSUME TypeInv, AliasInv, BackedInv, [Next]_vars
    PROVE  DecisionsBacked'
<1>0. decisions \in [Concept -> Decision]
  BY DEF TypeInv, TypeOK, StoreTypeOK
<1>1. \A c \in Concept : Backed(decisions[c], c)'
        \/ \E w \in Worker : (SaveDecision(w) \/ SaveAuditedDecision(w)) /\ c = call[w].concept
  <2> SUFFICES ASSUME NEW c \in Concept,
                      \A w \in Worker : ~((SaveDecision(w) \/ SaveAuditedDecision(w))
                                          /\ c = call[w].concept)
               PROVE  Backed(decisions[c], c)'
    OBVIOUS
  <2>1. PICK d \in Decision : d = decisions[c]
    BY <1>0
  <2>2. decisions'[c] = d
    <3>1. CASE WorkerStep
      <4>1. PICK w \in Worker : StartLine(w) \/ Proceed(w)
        BY <3>1 DEF WorkerStep, ServiceNext
      <4>2. CASE StartLine(w)
        BY <2>1, <4>2, StartLineSound DEF tables
      <4>3. CASE SaveDecision(w) \/ SaveAuditedDecision(w)
        BY <1>0, <2>1, <4>3 DEF SaveDecision, SaveAuditedDecision, Save
      <4>4. CASE Proceed(w) /\ ~SaveDecision(w) /\ ~SaveAuditedDecision(w)
        BY <2>1, <4>4
           DEF Proceed, FindApprovedAlias, GetProduct, OrphanAlias, AttachToPending,
               ReuseFinalDecision, Abstain, NothingKnown, SearchAutoResolves,
               SearchIsUncertain, StageReview, LoseClaim, FindWinner, WinnerIsGone,
               RecordReviewOccurrence, OccurrenceRefused, ReadBackAbstention,
               ReadBackAutoResolution, ReusePendingReview, OwnPlaceholder, BudgetRefuses,
               CallModel, ModelReturns, SettleProposal, SettlementRefused, AuditDecision,
               tables
      <4>. QED  BY <4>1, <4>2, <4>3, <4>4
    <3>2. CASE ReviewerStep
      BY <2>1, <3>2, TakeUpSound
         DEF ReviewerStep, ReviewNext, ProceedReview, ApproveExisting, ApproveNew,
             RejectReview, DeferReview, Conflict, AuditResolution, AuditAction, tables
    <3>3. CASE FaultStep \/ OperatorStep \/ UNCHANGED vars
      BY <2>1, <3>3
         DEF FaultStep, Abandon, AbandonReview, OperatorStep, DeactivateProduct, vars, tables
    <3>. QED  BY <3>1, <3>2, <3>3 DEF Next
  <2>3. Backed(d, c)'
    BY <2>1, BackedKept DEF BackedInv, DecisionsBacked
  <2>. QED  BY <2>2, <2>3 DEF Backed, Exists, Final
<1>2. ASSUME NEW w \in Worker, SaveDecision(w) \/ SaveAuditedDecision(w),
             NEW c \in Concept, c = call[w].concept
      PROVE  Backed(decisions[c], c)'
  <2>1. PICK k \in SoundCall : k = call[w]
    BY CallFields
  <2>2. Knows(k) /\ k.pc \in {"save", "saveaudited"}
    BY <1>2, <2>1 DEF BackedInv, SaveDecision, SaveAuditedDecision, At
  <2>3. Knows(k)'
    BY <2>2, KnowsKept
  <2>4. decisions'[c] = k.result
    BY <1>0, <1>2, <2>1 DEF SaveDecision, SaveAuditedDecision, Save
  <2>. QED  BY <1>2, <2>1, <2>2, <2>3, <2>4 DEF Knows, Backed, Exists, Final
<1>. QED  BY <1>1, <1>2 DEF DecisionsBacked

\* Every step keeps every decision, cached or in hand, backed.
LEMMA NextBacked ==
    TypeInv /\ LocalInv /\ RowInv /\ AliasInv /\ BackedInv /\ [Next]_vars => BackedInv'
<1> SUFFICES ASSUME TypeInv, LocalInv, RowInv, AliasInv, BackedInv, [Next]_vars
             PROVE  \A x \in Worker : Knows(call[x])'
  BY NextDecisions DEF BackedInv
<1> TAKE x \in Worker
<1>0. call \in [Worker -> SoundCall] /\ call' \in [Worker -> SoundCall]
  BY NextTypeInv DEF TypeInv
<1>1. PICK k \in SoundCall : k = call[x]
  BY <1>0
<1>2. PICK n \in SoundCall : n = call'[x]
  BY <1>0
<1>3. Knows(k) /\ Knows(k)'
  BY <1>1, KnowsKept DEF BackedInv
<1>4. SUFFICES Knows(n)'
  BY <1>2 DEF Knows, Backed, Exists, Final, Orphaned
<1>5. CASE n = k
  BY <1>3, <1>5
<1>6. CASE StartLine(x)
  BY <1>2, <1>6, StartLineKnows DEF BackedInv
<1>7. CASE Proceed(x)
  BY <1>1, <1>2, <1>3, <1>7, ProceedKnows
<1>8. CASE Abandon(x)
  <2>1. n.pc = "failed"
    BY <1>0, <1>2, <1>8 DEF Abandon, Raise, Continue, Resting
  <2>. QED  BY <2>1 DEF Knows
<1>9. CASE call'[x] = call[x]
  BY <1>1, <1>2, <1>3, <1>9
<1>10. call'[x] = call[x] \/ StartLine(x) \/ Proceed(x) \/ Abandon(x)
  <2>1. CASE WorkerStep
    BY <2>1, StartLineLocal, ProceedLocal DEF WorkerStep, ServiceNext
  <2>2. CASE FaultStep
    BY <1>0, <2>2 DEF FaultStep, Abandon, Raise, Continue, service
  <2>. QED
    BY <2>1, <2>2 DEF Next, ReviewerStep, OperatorStep, vars, service
<1>. QED  BY <1>6, <1>7, <1>8, <1>9, <1>10

\* Every decision, cached or in hand, rests on approved knowledge or on a
\* review that exists, always.
THEOREM AllBacked == Spec => []BackedInv
<1>1. Init => BackedInv
  <2> SUFFICES ASSUME Init PROVE BackedInv
    OBVIOUS
  <2>1. \A c \in Concept : Backed(decisions[c], c)
    BY DEF Init, StoreInit, Backed, Final, NoDecision, DecisionOf
  <2>2. \A w \in Worker : Knows(call[w])
    BY DEF Init, ServiceInit, Knows, Resting
  <2>. QED  BY <2>1, <2>2 DEF BackedInv, DecisionsBacked
<1>. QED
  BY <1>1, NextBacked, TypeInvariant, LocallyCorrect, RowsCorrect, KnowledgeKept, PTL DEF Spec

\* A decision that does not ask for a human names a product, in the cache and
\* in an answer.
THEOREM NoneUnowned == Spec => []NoUnownedLine
<1>1. LocalInv /\ BackedInv => NoUnownedLine
  <2> SUFFICES ASSUME LocalInv, BackedInv PROVE NoUnownedLine
    OBVIOUS
  <2>1. \A w \in Worker : At(w, "answered") => call[w].result.kind # "NONE"
    BY DEF LocalInv, Local, Counted, At
  <2>2. \A w \in Worker : At(w, "answered") /\ ~call[w].result.human =>
                             call[w].result.product # None
    BY <2>1 DEF BackedInv, Knows, Backed, Final, At
  <2>. QED  BY <2>2 DEF BackedInv, DecisionsBacked, Backed, NoUnownedLine
<1>. QED  BY <1>1, LocallyCorrect, AllBacked, PTL

\* A decision saved for a concept refers to a review of that same concept.
THEOREM DecisionsFit == Spec => []DecisionFitsReview
<1>1. BackedInv => DecisionFitsReview
  BY DEF BackedInv, DecisionsBacked, Backed, Exists, DecisionFitsReview
<1>. QED  BY <1>1, AllBacked, PTL

\* A call that begins after a concept has been approved is answered with a
\* product the concept has been approved for, unless one was deactivated.
THEOREM ApprovedWins == Spec => []ApprovedKnowledgeWins
<1>1. BackedInv => ApprovedKnowledgeWins
  BY DEF BackedInv, Knows, Orphaned, ApprovedKnowledgeWins, At
<1>. QED  BY <1>1, AllBacked, PTL

-----------------------------------------------------------------------------
(* The refinement *)

\* The questions ApprovedKnowledge sees.
Questions ==
    [r \in ReviewId |-> [status |-> reviews[r].status, concept |-> reviews[r].concept]]

\* A step on reviews that keeps every row's status and concept is not seen.
LEMMA UnseenRewrite ==
    ASSUME reviews \in [ReviewId -> Review], NEW r \in ReviewId, NEW row \in Review,
           reviews' = [reviews EXCEPT ![r] = row],
           row.status = reviews[r].status, row.concept = reviews[r].concept
    PROVE  Questions' = Questions
BY DEF Questions

\* A step that leaves the review table alone is not seen.
LEMMA UnseenRows ==
    ASSUME reviews' = reviews
    PROVE  Questions' = Questions
BY DEF Questions

\* Resolving a review changes the status of one question.
LEMMA SeenResolution ==
    ASSUME reviews \in [ReviewId -> Review], NEW r \in ReviewId, NEW row \in Review,
           reviews' = [reviews EXCEPT ![r] = row], row.concept = reviews[r].concept
    PROVE  Questions' = [Questions EXCEPT ![r].status = row.status]
BY DEF Questions

\* The initial states are initial states of ApprovedKnowledge.
LEMMA InitRefines == Init => Knowledge!Init
<1> SUFFICES ASSUME Init PROVE Knowledge!Init
  OBVIOUS
<1>1. alias \in [Concept -> Product \cup {None}]
  BY SeedAssumption DEF Init, StoreInit
<1>2. catalog \in [Product -> {"absent", "active"}]
  BY DEF Init, StoreInit
<1>3. \A c \in Concept : alias[c] # None => catalog[alias[c]] = "active"
  BY SeedAssumption DEF Init, StoreInit
<1>4. Questions = [r \in ReviewId |-> [status |-> "absent", concept |-> None]]
  BY DEF Init, StoreInit, Questions, NoReview
<1>. QED  BY <1>1, <1>2, <1>3, <1>4 DEF Knowledge!Init, Knowledge!Unasked, Questions

\* Staging a review asks a question nobody else has open.
LEMMA StagingAsks ==
    ASSUME TypeInv, RowInv, NEW w \in Worker, StageReview(w)
    PROVE  Knowledge!Next
<1>0. reviews \in [ReviewId -> Review]
  BY DEF TypeInv, TypeOK, StoreTypeOK
<1>1. PICK r \in ReviewId : InsertReview(r, StagedRow(w))
  BY DEF StageReview
<1>2. PICK c \in Concept : c = call[w].concept
  BY CallFields DEF StageReview, At
<1>3. StagedRow(w).concept = c /\ StagedRow(w).status = "pending"
  BY <1>2 DEF StagedRow
<1>4. Questions[r] = [status |-> "absent", concept |-> None]
  BY <1>0, <1>1 DEF Questions, InsertReview, RowInv
<1>5. \A other \in ReviewId : ~(Questions[other].status = "pending"
                               /\ Questions[other].concept = c)
  BY <1>1, <1>3 DEF Questions, InsertReview, PendingOf, Pending
<1>6. Questions' = [Questions EXCEPT ![r] = [status |-> "pending", concept |-> c]]
  BY <1>0, <1>1, <1>3 DEF Questions, InsertReview
<1>7. UNCHANGED <<alias, catalog>>
  BY DEF StageReview
<1>8. Knowledge!Ask(r, c)
  BY <1>4, <1>5, <1>6, <1>7 DEF Knowledge!Ask, Knowledge!Asked, Knowledge!Unasked, Questions
<1>. QED  BY <1>8 DEF Knowledge!Next

\* Approving a review answers its question with a product of the catalog.
LEMMA ApprovalAnswers ==
    ASSUME TypeInv, RowInv, NEW r \in ReviewId, Pending(r), NEW p \in Product, Promote(r, p),
           \/ IsActive(p) /\ UNCHANGED catalog
           \/ catalog[p] = "absent" /\ catalog' = [catalog EXCEPT ![p] = "active"]
    PROVE  Knowledge!Next
<1>0. /\ reviews \in [ReviewId -> Review] /\ reviews[r] \in Review
      /\ catalog \in [Product -> {"absent", "active", "inactive"}]
  BY DEF TypeInv, TypeOK, StoreTypeOK
<1>1. PICK c \in Concept : c = reviews[r].concept
  BY DEF RowInv, Pending
<1>2. catalog' = [catalog EXCEPT ![p] = "active"] /\ catalog[p] \in {"absent", "active"}
  BY <1>0 DEF IsActive
<1>3. alias' = [alias EXCEPT ![c] = p]
  BY <1>1 DEF Promote
<1>4. Questions' = [Questions EXCEPT ![r].status = "approved"]
  <2> DEFINE row == [reviews[r] EXCEPT !.status = "approved", !.target = p]
  <2>1. row \in Review /\ row.status = "approved" /\ row.concept = reviews[r].concept
    BY <1>0 DEF Review, OrNone
  <2>2. reviews' = [reviews EXCEPT ![r] = row]
    BY <1>0 DEF Promote
  <2> HIDE DEF row
  <2>. QED  BY <1>0, <2>1, <2>2, SeenResolution
<1>5. Questions[r].status = "pending" /\ Questions[r].concept = c
  BY <1>1 DEF Questions, Pending
<1>6. Knowledge!Answer(r, c, p)
  BY <1>2, <1>3, <1>4, <1>5 DEF Knowledge!Answer, Knowledge!Asked, Questions
<1>. QED  BY <1>6 DEF Knowledge!Next

\* Rejecting a review dismisses its question.
LEMMA RejectionDismisses ==
    ASSUME TypeInv, RowInv, NEW r \in ReviewId, Reject(r), UNCHANGED <<catalog, alias>>
    PROVE  Knowledge!Next
<1>0. reviews \in [ReviewId -> Review] /\ reviews[r] \in Review
  BY DEF TypeInv, TypeOK, StoreTypeOK
<1>1. PICK c \in Concept : c = reviews[r].concept
  BY DEF RowInv, Pending, Reject
<1>2. Questions' = [Questions EXCEPT ![r].status = "rejected"]
  <2> DEFINE row == [reviews[r] EXCEPT !.status = "rejected"]
  <2>1. row \in Review /\ row.status = "rejected" /\ row.concept = reviews[r].concept
    BY <1>0 DEF Review
  <2>2. reviews' = [reviews EXCEPT ![r] = row]
    BY <1>0 DEF Reject
  <2> HIDE DEF row
  <2>. QED  BY <1>0, <2>1, <2>2, SeenResolution
<1>3. Questions[r].status = "pending" /\ Questions[r].concept = c
  BY <1>1 DEF Questions, Pending, Reject
<1>4. Knowledge!Dismiss(r, c)
  BY <1>2, <1>3 DEF Knowledge!Dismiss, Knowledge!Asked, Questions
<1>. QED  BY <1>4 DEF Knowledge!Next

\* Every step is a step of ApprovedKnowledge or is not seen by it.
LEMMA StepRefines ==
    ASSUME TypeInv, RowInv, [Next]_vars
    PROVE  Knowledge!Next \/ UNCHANGED <<alias, catalog, Questions>>
<1>0. reviews \in [ReviewId -> Review]
  BY DEF TypeInv, TypeOK, StoreTypeOK
<1>1. CASE UNCHANGED <<alias, catalog, reviews>>
  BY <1>1, UnseenRows
<1>2. ASSUME NEW w \in Worker, RecordReviewOccurrence(w)
      PROVE  UNCHANGED <<alias, catalog, Questions>>
  <2> DEFINE r == call[w].review
  <2> DEFINE n == reviews[r].occurrences + 1
  <2>1. r \in ReviewId /\ reviews[r] \in Review /\ n \in Nat
    BY <1>0, <1>2, CallFields DEF RecordReviewOccurrence, At, Review
  <2>2. reviews' = [reviews EXCEPT ![r] = [reviews[r] EXCEPT !.occurrences = n]]
    BY <1>0, <1>2 DEF RecordReviewOccurrence, RecordOccurrence
  <2> HIDE DEF n, r
  <2>3. /\ [reviews[r] EXCEPT !.occurrences = n] \in Review
        /\ [reviews[r] EXCEPT !.occurrences = n].status = reviews[r].status
        /\ [reviews[r] EXCEPT !.occurrences = n].concept = reviews[r].concept
    BY <2>1 DEF Review
  <2>. QED  BY <1>0, <1>2, <2>1, <2>2, <2>3, UnseenRewrite DEF RecordReviewOccurrence
<1>3. ASSUME NEW w \in Worker, SettleProposal(w)
      PROVE  UNCHANGED <<alias, catalog, Questions>>
  <2> DEFINE r == call[w].review
  <2>1. r \in ReviewId /\ reviews[r] \in Review /\ call[w].product \in OrNone(Product)
    BY <1>0, <1>3, CallFields DEF SettleProposal, At
  <2>2. PICK target \in OrNone(Product), llm \in BOOLEAN : UpdatePending(r, target, llm)
    BY <1>3, <2>1 DEF SettleProposal, OrNone
  <2> HIDE DEF r
  <2> DEFINE row == [reviews[r] EXCEPT !.target = target, !.blocks = TRUE,
                                       !.generating = FALSE, !.llm = llm]
  <2>3. row \in Review /\ row.status = reviews[r].status /\ row.concept = reviews[r].concept
    BY <2>1 DEF Review
  <2>4. reviews' = [reviews EXCEPT ![r] = row]
    BY <1>0, <2>1, <2>2 DEF UpdatePending
  <2> HIDE DEF row
  <2>. QED  BY <1>0, <1>3, <2>1, <2>3, <2>4, UnseenRewrite DEF SettleProposal
<1>4. CASE WorkerStep
  <2>1. PICK w \in Worker : StartLine(w) \/ Proceed(w)
    BY <1>4 DEF WorkerStep, ServiceNext
  <2>2. \/ UNCHANGED <<alias, catalog, reviews>>
        \/ StageReview(w) \/ RecordReviewOccurrence(w) \/ SettleProposal(w)
    BY <2>1, StartLineSound
       DEF Proceed, FindApprovedAlias, GetProduct, OrphanAlias, AttachToPending,
           ReuseFinalDecision, Abstain, NothingKnown, SearchAutoResolves, SearchIsUncertain,
           LoseClaim, FindWinner, WinnerIsGone, OccurrenceRefused, ReadBackAbstention,
           ReadBackAutoResolution, ReusePendingReview, OwnPlaceholder, BudgetRefuses,
           CallModel, ModelReturns, SettlementRefused, SaveDecision, SaveAuditedDecision,
           AuditDecision, tables
  <2>. QED  BY <1>1, <1>2, <1>3, <2>2, StagingAsks
<1>5. CASE ReviewerStep
  <2>1. PICK v \in Reviewer : TakeUp(v) \/ ProceedReview(v)
    BY <1>5 DEF ReviewerStep, ReviewNext
  <2>2. desk[v] \in SoundDesk /\ desk[v] \in Desk
    BY DEF TypeInv, SoundDesk
  <2>3. CASE ApproveExisting(v)
    <3>1. desk[v].review \in ReviewId /\ desk[v].target \in Product
      BY <2>2, <2>3 DEF ApproveExisting, SoundDesk, Desk, OrNone
    <3>. QED  BY <2>3, <3>1, ApprovalAnswers DEF ApproveExisting, ApproveWithTarget
  <2>4. CASE ApproveNew(v)
    <3>1. desk[v].review \in ReviewId
      BY <2>2, <2>4 DEF ApproveNew, SoundDesk
    <3>. QED  BY <2>4, <3>1, ApprovalAnswers DEF ApproveNew, ApproveAsNew
  <2>5. CASE RejectReview(v)
    <3>1. desk[v].review \in ReviewId
      BY <2>2, <2>5 DEF RejectReview, SoundDesk
    <3>. QED  BY <2>5, <3>1, RejectionDismisses DEF RejectReview
  <2>6. CASE TakeUp(v) \/ DeferReview(v) \/ Conflict(v) \/ AuditResolution(v) \/ AuditAction(v)
    BY <1>1, <2>6, TakeUpSound DEF DeferReview, Conflict, AuditResolution, AuditAction, tables
  <2>. QED  BY <2>1, <2>3, <2>4, <2>5, <2>6 DEF ProceedReview
<1>6. CASE OperatorStep
  <2>1. PICK p \in Product : DeactivateProduct(p)
    BY <1>6, DeactivationsAssumption DEF OperatorStep
  <2>2. Questions' = Questions
    BY <2>1, UnseenRows DEF DeactivateProduct
  <2>3. Knowledge!Withdraw(p)
    BY <2>1, <2>2 DEF DeactivateProduct, IsActive, Knowledge!Withdraw, Questions
  <2>. QED  BY <2>3 DEF Knowledge!Next
<1>7. CASE FaultStep \/ UNCHANGED vars
  BY <1>1, <1>7 DEF FaultStep, Abandon, AbandonReview, vars, tables
<1>. QED  BY <1>4, <1>5, <1>6, <1>7 DEF Next

\* Approved knowledge changes only as ApprovedKnowledge allows.
THEOREM Refinement == Spec => KnowledgeIsReviewed
<1>1. TypeInv /\ RowInv /\ [Next]_vars =>
        [Knowledge!Next]_<<alias, catalog, Questions>>
  BY StepRefines
<1>. QED
  BY <1>1, InitRefines, TypeInvariant, RowsCorrect, PTL
     DEF Spec, KnowledgeIsReviewed, Knowledge!Spec, Questions
=============================================================================

----------------------------- MODULE ReviewProofs -----------------------------
(***************************************************************************)
(* What a step of a review action leaves well typed.  Reviewers appear in  *)
(* KnowledgeWorkflow next to workers and in ReviewQueue as commands; the   *)
(* proofs about both rest on these lemmas.                                 *)
(***************************************************************************)
EXTENDS ReviewService, TLAPS

-----------------------------------------------------------------------------
\* The rows and records the modules start from have the types they declare.
LEMMA StartingRows == NoDecision \in Decision /\ NoReview \in Review /\ Free \in Desk
BY DEF NoDecision, DecisionOf, Decision, NoReview, Review, Free, Desk, OrNone

\* What a reviewer has in hand.
SoundDesk ==
    {d \in Desk :
        /\ d.pc # "idle" => d.review \in ReviewId
        /\ d.pc \in {"audit", "note"} => d.event \in Event}

\* A transaction on a review leaves the table well typed.
LEMMA ReviewRowsTyped ==
    ASSUME StoreTypeOK, NEW r \in ReviewId
    PROVE  /\ \A row \in Review : InsertReview(r, row) => reviews' \in [ReviewId -> Review]
           /\ RecordOccurrence(r) => reviews' \in [ReviewId -> Review]
           /\ \A target \in OrNone(Product), llm \in BOOLEAN :
                 UpdatePending(r, target, llm) => reviews' \in [ReviewId -> Review]
           /\ Reject(r) => reviews' \in [ReviewId -> Review]
<1>0. reviews \in [ReviewId -> Review] /\ reviews[r] \in Review
  BY DEF StoreTypeOK
<1>1. \A row \in Review : InsertReview(r, row) => reviews' \in [ReviewId -> Review]
  BY <1>0 DEF InsertReview
<1>2. ASSUME RecordOccurrence(r) PROVE reviews' \in [ReviewId -> Review]
  <2> DEFINE n == reviews[r].occurrences + 1
  <2>1. n \in Nat
    BY <1>0 DEF Review
  <2>2. reviews' = [reviews EXCEPT ![r] = [reviews[r] EXCEPT !.occurrences = n]]
    BY <1>0, <1>2 DEF RecordOccurrence
  <2> HIDE DEF n
  <2>3. [reviews[r] EXCEPT !.occurrences = n] \in Review
    BY <1>0, <2>1 DEF Review
  <2>. QED  BY <1>0, <2>2, <2>3
<1>3. ASSUME NEW target \in OrNone(Product), NEW llm \in BOOLEAN, UpdatePending(r, target, llm)
      PROVE  reviews' \in [ReviewId -> Review]
  <2> DEFINE row == [reviews[r] EXCEPT !.target = target, !.blocks = TRUE,
                                       !.generating = FALSE, !.llm = llm]
  <2>1. row \in Review
    BY <1>0 DEF Review
  <2>2. reviews' = [reviews EXCEPT ![r] = row]
    BY <1>0, <1>3 DEF UpdatePending
  <2>. QED  BY <1>0, <2>1, <2>2
<1>4. ASSUME Reject(r) PROVE reviews' \in [ReviewId -> Review]
  <2>1. [reviews[r] EXCEPT !.status = "rejected"] \in Review
    BY <1>0 DEF Review
  <2>. QED  BY <1>0, <1>4, <2>1 DEF Reject
<1>. QED  BY <1>1, <1>2, <1>3, <1>4

\* Pointing an alias at a product leaves the tables well typed.
LEMMA PromoteTyped ==
    ASSUME StoreTypeOK, NEW r \in ReviewId, NEW p \in Product, Promote(r, p)
    PROVE  /\ alias' \in [Concept -> OrNone(Product)]
           /\ everApproved' \in [Concept -> SUBSET Product]
           /\ reviews' \in [ReviewId -> Review]
<1>0. reviews \in [ReviewId -> Review] /\ reviews[r] \in Review
  BY DEF StoreTypeOK
<1>1. [reviews[r] EXCEPT !.status = "approved", !.target = p] \in Review
  BY <1>0 DEF Review, OrNone
<1>2. reviews' = [reviews EXCEPT ![r] = [reviews[r] EXCEPT !.status = "approved", !.target = p]]
  BY <1>0 DEF Promote
<1>3. reviews' \in [ReviewId -> Review]
  BY <1>0, <1>1, <1>2
<1>4. alias' \in [Concept -> OrNone(Product)]
  BY DEF Promote, StoreTypeOK, OrNone
<1>5. everApproved' \in [Concept -> SUBSET Product]
  BY DEF Promote, StoreTypeOK
<1>. QED  BY <1>3, <1>4, <1>5

\* A reviewer who moves on to a sound record keeps the desks sound.
LEMMA TurnSound ==
    ASSUME desk \in [Reviewer -> SoundDesk], NEW v \in Reviewer, NEW next \in SoundDesk,
           Turn(v, next)
    PROVE  desk' \in [Reviewer -> SoundDesk]
BY DEF Turn

\* A reviewer with no action in progress has a sound record.
LEMMA FreeSound == Free \in SoundDesk
BY StartingRows DEF SoundDesk, Free

\* Taking up a review writes no table and gives the reviewer a review in hand.
LEMMA TakeUpTyped ==
    ASSUME desk \in [Reviewer -> SoundDesk], NEW v \in Reviewer, TakeUp(v)
    PROVE  desk' \in [Reviewer -> SoundDesk] /\ UNCHANGED tables
<1>1. PICK r \in ReviewId, verdict \in Verdicts, target \in OrNone(Product) :
           TakeUpAction(v, r, verdict, target) \/ TakeUpRequest(v, r, verdict, target)
  BY DEF TakeUp
<1>2. verdict \in {"approve", "reject", "defer"}
  BY VerdictsAssumption
<1>3. /\ [Free EXCEPT !.pc = verdict, !.review = r, !.target = target] \in SoundDesk
      /\ [Free EXCEPT !.pc = verdict, !.review = r, !.target = target, !.action = TRUE]
             \in SoundDesk
  BY <1>2, StartingRows DEF SoundDesk, Desk, Free, OrNone
<1>. QED
  BY <1>1, <1>3, TurnSound DEF TakeUpAction, TakeUpRequest

\* Every step of a review action leaves desk and tables well typed.
LEMMA ProceedReviewTyped ==
    ASSUME StoreTypeOK, desk \in [Reviewer -> SoundDesk], NEW v \in Reviewer, ProceedReview(v)
    PROVE  desk' \in [Reviewer -> SoundDesk] /\ StoreTypeOK'
<1>0. /\ StoreTypeOK /\ desk \in [Reviewer -> SoundDesk] /\ desk[v] \in SoundDesk
      /\ desk[v] \in Desk
  BY DEF SoundDesk
<1>1. \A event \in Event : desk[v].pc # "idle" =>
         [desk[v] EXCEPT !.pc = "audit", !.event = event, !.target = None] \in SoundDesk
  BY <1>0 DEF SoundDesk, Desk, OrNone
<1>2. CASE ApproveExisting(v)
  <2>1. desk[v].review \in ReviewId /\ desk[v].target \in Product
    BY <1>0, <1>2 DEF ApproveExisting, SoundDesk, Desk, OrNone
  <2>2. desk' \in [Reviewer -> SoundDesk]
    BY <1>0, <1>1, <1>2, TurnSound DEF ApproveExisting, Resolved, Event
  <2>3. /\ alias' \in [Concept -> OrNone(Product)]
        /\ everApproved' \in [Concept -> SUBSET Product]
        /\ reviews' \in [ReviewId -> Review]
    BY <1>0, <1>2, <2>1, PromoteTyped DEF ApproveExisting, ApproveWithTarget
  <2>. QED
    BY <1>0, <1>2, <2>2, <2>3 DEF ApproveExisting, ApproveWithTarget, StoreTypeOK
<1>3. CASE ApproveNew(v)
  <2>1. desk[v].review \in ReviewId
    BY <1>0, <1>3 DEF ApproveNew, SoundDesk
  <2>2. desk' \in [Reviewer -> SoundDesk]
    BY <1>0, <1>1, <1>3, TurnSound DEF ApproveNew, Resolved, Event
  <2>3. PICK p \in Product : ApproveAsNew(desk[v].review, p)
    BY <1>3 DEF ApproveNew
  <2>4. /\ alias' \in [Concept -> OrNone(Product)]
        /\ everApproved' \in [Concept -> SUBSET Product]
        /\ reviews' \in [ReviewId -> Review]
    BY <1>0, <2>1, <2>3, PromoteTyped DEF ApproveAsNew
  <2>5. catalog' \in [Product -> {"absent", "active", "inactive"}]
    BY <1>0, <2>3 DEF ApproveAsNew, StoreTypeOK
  <2>. QED  BY <1>0, <1>3, <2>2, <2>4, <2>5 DEF ApproveNew, StoreTypeOK
<1>4. CASE RejectReview(v)
  <2>1. desk[v].review \in ReviewId
    BY <1>0, <1>4 DEF RejectReview, SoundDesk
  <2>2. desk' \in [Reviewer -> SoundDesk]
    BY <1>0, <1>1, <1>4, TurnSound DEF RejectReview, Resolved, Event
  <2>3. reviews' \in [ReviewId -> Review]
    BY <1>0, <1>4, <2>1, ReviewRowsTyped DEF RejectReview
  <2>. QED  BY <1>0, <1>4, <2>2, <2>3 DEF RejectReview, StoreTypeOK
<1>5. CASE DeferReview(v)
  <2>1. desk' \in [Reviewer -> SoundDesk]
    BY <1>0, <1>1, <1>5, TurnSound DEF DeferReview, Resolved, Event
  <2>. QED  BY <1>0, <1>5, <2>1 DEF DeferReview, tables, StoreTypeOK
<1>6. CASE Conflict(v)
  BY <1>0, <1>6, TurnSound, FreeSound DEF Conflict, tables, StoreTypeOK
<1>7. CASE AuditResolution(v) \/ AuditAction(v)
  <2>1. desk[v].review \in ReviewId /\ desk[v].event \in Event
    BY <1>0, <1>7 DEF AuditResolution, AuditAction, SoundDesk
  <2>2. trail' \subseteq Event \X (Concept \cup ReviewId)
    BY <1>0, <1>7, <2>1 DEF AuditResolution, AuditAction, Audit, StoreTypeOK
  <2>3. [desk[v] EXCEPT !.pc = "note", !.event = "review_action_applied"] \in SoundDesk
    BY <1>0, <2>1 DEF SoundDesk, Desk, OrNone, Event
  <2>4. desk' \in [Reviewer -> SoundDesk]
    BY <1>0, <1>7, <2>3, TurnSound, FreeSound DEF AuditResolution, AuditAction
  <2>. QED  BY <1>0, <1>7, <2>2, <2>4 DEF AuditResolution, AuditAction, StoreTypeOK
<1>. QED
  BY <1>2, <1>3, <1>4, <1>5, <1>6, <1>7 DEF ProceedReview
=============================================================================

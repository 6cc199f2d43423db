----------------------------- MODULE QueueProofs -----------------------------
(***************************************************************************)
(* What ReviewQueue guarantees for every number of commands, reviewers,    *)
(* reviews, edits and faults: however often a command is run again, the    *)
(* file never resolves a review twice, nor against its archive, and a      *)
(* pending row is never lost by review-process.                            *)
(***************************************************************************)
EXTENDS ReviewQueue, ReviewProofs

-----------------------------------------------------------------------------
(* The invariant.  Its parts about one command are operators of the command *)
(* k, of the desk d it acts at and of the tables they depend on.            *)

Resolution == {"approve", "reject"}

Outcome(a) == IF a = "approve" THEN "approved" ELSE "rejected"

\* Every action in these rows was entered by a person, and every row is that
\* of a review.
RowsFit(rows, rev, ask) ==
    \A r \in ReviewId :
        /\ rows[r].action \in Acted => ask[r][rows[r].action] > 0
        /\ rows[r].action # "absent" => rev[r].status # "absent"

\* The action a of review r has taken effect, and the archive does not say so.
Owed(k, d, r, a) ==
    /\ k.row = r
    /\ k.rows[r].action = a
    /\ k.pc = "archive" \/ (k.pc = "apply" /\ d.pc \in {"audit", "note"})

\* What a command has in hand at each of its steps.
InHand(k, d) ==
    /\ k.pc \in {"apply", "archive"} => k.row \in ReviewId /\ k.rows[k.row].action \in Acted
    /\ k.pc = "apply" => d.review = k.row /\ d.pc \in {k.rows[k.row].action, "audit", "note"}
    /\ k.pc # "apply" => d.pc = "idle"

\* As many reviews of the tenant t are listed as a listing may hold.
Full(listed, rev, t) == Cardinality({r \in listed : Owner[rev[r].concept] = t}) = Limit

\* A listed row whose review is pending is among the reviews listed again, or
\* the list of its tenant is full, or that tenant is still to be listed; of a
\* tenant still to be listed nothing is listed yet.
Tracked(k, rev) ==
    /\ k.pc \in {"merge", "open", "write"} => k.tenants = {}
    /\ k.pc = "merge" => k.task = "export"
    /\ \A r \in k.pending : rev[r].status # "absent" /\ Owner[rev[r].concept] \notin k.tenants
    /\ k.task = "process" =>
        \A r \in Listed(k.rows) :
            rev[r].status = "pending" =>
                \/ Owner[rev[r].concept] \in k.tenants
                \/ r \in k.pending
                \/ Full(k.pending, rev, Owner[rev[r].concept])

CommandFits(k, d, rev, ask) ==
    /\ RowsFit(k.rows, rev, ask)
    /\ InHand(k, d)
    /\ Tracked(k, rev)
    /\ \A r \in ReviewId, a \in Resolution : Owed(k, d, r, a) => rev[r].status = Outcome(a)

CommandsFit == \A v \in Clerk : CommandFits(clerk[v], desk[v], reviews, asked)

FilesFit == RowsFit(file.rows, reviews, asked) /\ RowsFit(sheet.rows, reviews, asked)

\* Every review has a concept, and so a tenant.
Scoped == \A r \in ReviewId : reviews[r].status # "absent" => reviews[r].concept \in Concept

\* The command v has resolved r and is about to archive it.
Owes(v, r) == \E a \in Resolution : Owed(clerk[v], desk[v], r, a)

\* While a resolution is to be archived nothing is archived for that review,
\* and no other command is about to.
Ledger ==
    \A r \in ReviewId, v \in Clerk :
        Owes(v, r) => /\ archive[r]["approve"] + archive[r]["reject"] = 0
                      /\ \A u \in Clerk : Owes(u, r) => u = v

\* What was asked for is counted among the edits, which keeps the count in its bound.
QueueTyped ==
    /\ QueueTypeOK
    /\ desk \in [Reviewer -> SoundDesk]
    /\ \A r \in ReviewId, a \in Acted : asked[r][a] <= edits

QueueInv ==
    /\ QueueTyped
    /\ Scoped
    /\ FilesFit
    /\ CommandsFit
    /\ Ledger
    /\ ResolvedOnce

-----------------------------------------------------------------------------
(* Types *)

\* The rows, files and commands that steps start from have their types.
LEMMA StartingQueue ==
    /\ NoRows \in [ReviewId -> Row] /\ WaitingRow \in Row /\ NoRow \in Row
    /\ Done \in Command
    /\ Blank \in File
    /\ \A rows \in [ReviewId -> Row] : Table(rows) \in File
  BY DEF NoRows, NoRow, WaitingRow, Row, Done, Command, Blank, File, Table, OrNone

\* What a command writes has the type of rows.
LEMMA OutputTyped ==
    ASSUME QueueTyped, NEW v \in Clerk
    PROVE  /\ \A r \in ReviewId : RewrittenRow(v, r) \in Row
           /\ Output(v) \in [ReviewId -> Row]
  <1>1. clerk[v] \in Command /\ clerk[v].rows \in [ReviewId -> Row]
    BY DEF QueueTyped, QueueTypeOK, Command
  <1>2. ASSUME NEW r \in ReviewId PROVE RewrittenRow(v, r) \in Row
    <2>1. clerk[v].rows[r] \in Row
      BY <1>1
    <2>2. [clerk[v].rows[r] EXCEPT !.action = "waiting_for_approval"] \in Row
      BY <2>1 DEF Row
    <2> QED BY <2>1, <2>2, StartingQueue DEF RewrittenRow
  <1> QED BY <1>2, StartingQueue DEF Output

\* The tables and desks after a step of the person or of a reviewer at the API.
LEMMA OutsideTyped == ASSUME QueueTyped, Outside PROVE QueueTyped'
  <1> USE DEF QueueTyped, QueueTypeOK
  <1>1. ASSUME NEW r \in ReviewId, NEW c \in Concept, Arrive(r, c) PROVE QueueTyped'
    <2> DEFINE row == [NoReview EXCEPT !.status = "pending", !.concept = c, !.blocks = TRUE,
                                       !.occurrences = 1]
    <2>1. row \in Review
      BY StartingRows DEF Review, OrNone
    <2>2. reviews' \in [ReviewId -> Review]
      BY <1>1, <2>1, ReviewRowsTyped DEF Arrive
    <2> QED BY <1>1, <2>2 DEF Arrive, StoreTypeOK, ReviewTypeOK, queue
  <1>2. CASE AtTheApi
    <2>1. PICK v \in Reviewer \ Clerk : TakeUp(v) \/ ProceedReview(v)
      BY <1>2 DEF AtTheApi
    <2>2. desk' \in [Reviewer -> SoundDesk] /\ StoreTypeOK'
      BY <2>1, TakeUpTyped, ProceedReviewTyped DEF tables, StoreTypeOK
    <2>3. ReviewTypeOK'
      BY <2>2 DEF ReviewTypeOK, SoundDesk
    <2> QED BY <1>2, <2>2, <2>3 DEF AtTheApi, queue
  <1>3. CASE OpenSheet \/ SaveSheet
    BY <1>3 DEF OpenSheet, SaveSheet, tables, StoreTypeOK, ReviewTypeOK
  <1>4. ASSUME NEW r \in ReviewId, NEW row \in Editable, EditRow(r, row) PROVE QueueTyped'
    <2>1. row \in Row
      BY OverrideAssumption DEF Editable, Row, OrNone, Acted
    <2>2. sheet' \in File
      BY <1>4, <2>1 DEF EditRow, File
    <2>3. edits' \in 0..MaxEdits /\ edits' = edits + 1
      BY <1>4, MaxEditsAssumption DEF EditRow
    <2>4. ASSUME NEW s \in ReviewId, NEW a \in Acted
          PROVE  asked'[s][a] \in {asked[s][a], asked[s][a] + 1}
      BY <1>4 DEF EditRow
    <2>5. asked' \in [ReviewId -> [Acted -> Nat]]
      BY <1>4 DEF EditRow
    <2>6. \A s \in ReviewId, a \in Acted : asked'[s][a] <= edits' /\ asked'[s][a] \in 0..MaxEdits
      BY <2>3, <2>4, MaxEditsAssumption
    <2>7. asked' \in [ReviewId -> [Acted -> 0..MaxEdits]]
      BY <2>5, <2>6
    <2> QED BY <1>4, <2>2, <2>3, <2>6, <2>7 DEF EditRow, tables, StoreTypeOK, ReviewTypeOK
  <1> QED BY <1>1, <1>2, <1>3, <1>4 DEF Outside

\* A command that goes on to a typed record keeps the commands typed.
LEMMA GoTyped ==
    ASSUME QueueTyped, NEW v \in Clerk, NEW k \in Command, Go(v, k)
    PROVE  clerk' \in [Clerk -> Command]
  BY DEF Go, QueueTyped, QueueTypeOK

\* A step that moves one command and leaves tables, desks and counts alone.
LEMMA MoveTyped ==
    ASSUME QueueTyped, NEW v \in Clerk, NEW k \in Command, Go(v, k), file' \in File,
           begun' \in 0..MaxCommands, UNCHANGED <<tables, desk, archive, sheet, asked, edits, faults>>
    PROVE  QueueTyped'
  BY GoTyped DEF QueueTyped, QueueTypeOK, tables, StoreTypeOK, ReviewTypeOK

\* Starting a command.
LEMMA StartTyped ==
    ASSUME QueueInv, NEW v \in Clerk, Start(v) PROVE QueueTyped'
  <1> USE DEF QueueInv
  <1>1. begun' \in 0..MaxCommands
    <2>1. begun < MaxCommands /\ begun' = begun + 1
      BY DEF Start, StartProcess, StartExport
    <2> QED BY <2>1, MaxCommandsAssumption DEF QueueTyped, QueueTypeOK
  <1>2. ASSUME NEW t \in Tenant, StartExport(v, t) PROVE QueueTyped'
    <2>1. PICK listed \in ListPending(t) : Go(v, [Done EXCEPT !.pc = "merge", !.pending = listed])
      BY <1>2 DEF StartExport
    <2>2. [Done EXCEPT !.pc = "merge", !.pending = listed] \in Command
      BY StartingQueue DEF Command, ListPending, PendingIn
    <2> QED BY <1>1, <1>2, <2>1, <2>2, MoveTyped DEF StartExport, QueueTyped, QueueTypeOK
  <1>3. CASE StartProcess(v)
    <2>1. PICK tenants, todo, rows, k :
                /\ tenants = {TenantOf(r) : r \in Listed(file.rows)}
                /\ rows = file.rows /\ todo = Listed(rows)
                /\ k = [Done EXCEPT !.task = "process", !.pc = "rows", !.rows = rows, !.todo = todo,
                                    !.tenants = tenants]
      OBVIOUS
    <2>2. \A r \in Listed(file.rows) : TenantOf(r) \in Tenant
      BY OwnerAssumption DEF Listed, FilesFit, RowsFit, Scoped, TenantOf
    <2>3. file.rows \in [ReviewId -> Row] /\ Listed(file.rows) \subseteq ReviewId
      BY DEF QueueTyped, QueueTypeOK, File, Listed
    <2>4. k \in Command
      <3>1. tenants \in SUBSET Tenant /\ rows \in [ReviewId -> Row] /\ todo \in SUBSET ReviewId
        BY <2>1, <2>2, <2>3
      <3> QED BY <2>1, <3>1, StartingQueue DEF Command
    <2>5. Go(v, k)
      BY <1>3, <2>1 DEF StartProcess
    <2> QED BY <1>1, <1>3, <2>4, <2>5, MoveTyped DEF StartProcess, QueueTyped, QueueTypeOK
  <1> QED BY <1>2, <1>3 DEF Start

\* A command works through its rows, without touching a table.
LEMMA RowsTyped ==
    ASSUME QueueTyped, NEW v \in Clerk,
           \/ ReadForMerge(v) \/ RefuseFile(v) \/ AllListed(v) \/ OpenForWriting(v) \/ WriteRows(v)
           \/ \E r \in ReviewId : PassOver(v, r)
           \/ \E t \in Tenant : ListAgain(v, t)
    PROVE  QueueTyped'
  <1>1. PICK j : j = clerk[v]
    OBVIOUS
  <1>2. /\ j \in Command /\ file \in File /\ begun \in 0..MaxCommands
        /\ file.rows \in [ReviewId -> Row]
    BY <1>1 DEF QueueTyped, QueueTypeOK, File
  <1>3. CASE ReadForMerge(v)
    <2>1. PICK k : k = [j EXCEPT !.pc = "open", !.rows = file.rows]
      OBVIOUS
    <2>2. k \in Command
      BY <1>2, <2>1 DEF Command
    <2> QED BY <1>1, <1>2, <1>3, <2>1, <2>2, MoveTyped DEF ReadForMerge
  <1>4. CASE RefuseFile(v)
    BY <1>2, <1>4, StartingQueue, MoveTyped DEF RefuseFile
  <1>5. CASE AllListed(v)
    <2>1. PICK k : k = [j EXCEPT !.pc = "open"]
      OBVIOUS
    <2>2. k \in Command
      BY <1>2, <2>1 DEF Command
    <2> QED BY <1>1, <1>2, <1>5, <2>1, <2>2, MoveTyped DEF AllListed
  <1>6. CASE OpenForWriting(v)
    <2>1. PICK k : k = [j EXCEPT !.pc = "write"]
      OBVIOUS
    <2>2. k \in Command
      BY <1>2, <2>1 DEF Command
    <2>3. file' \in File
      BY <1>6, StartingQueue DEF OpenForWriting
    <2> QED BY <1>1, <1>2, <1>6, <2>1, <2>2, <2>3, MoveTyped DEF OpenForWriting
  <1>7. CASE WriteRows(v)
    <2>1. file' \in File
      BY <1>7, OutputTyped, StartingQueue DEF WriteRows
    <2> QED BY <1>2, <1>7, <2>1, StartingQueue, MoveTyped DEF WriteRows
  <1>8. ASSUME NEW r \in ReviewId, PassOver(v, r) PROVE QueueTyped'
    <2>1. PICK k : k = [j EXCEPT !.todo = j.todo \ {r}]
      OBVIOUS
    <2>2. k \in Command
      BY <1>2, <2>1 DEF Command
    <2>3. Go(v, k)
      BY <1>1, <1>8, <2>1 DEF PassOver, Looked
    <2> QED BY <1>2, <1>8, <2>2, <2>3, MoveTyped DEF PassOver
  <1>9. ASSUME NEW t \in Tenant, ListAgain(v, t) PROVE QueueTyped'
    <2>1. PICK listed \in ListPending(t) :
                Go(v, [j EXCEPT !.tenants = j.tenants \ {t}, !.pending = j.pending \cup listed])
      BY <1>1, <1>9 DEF ListAgain
    <2>2. [j EXCEPT !.tenants = j.tenants \ {t}, !.pending = j.pending \cup listed] \in Command
      BY <1>2 DEF Command, ListPending, PendingIn
    <2> QED BY <1>2, <1>9, <2>1, <2>2, MoveTyped DEF ListAgain
  <1> QED BY <1>3, <1>4, <1>5, <1>6, <1>7, <1>8, <1>9

\* A step that moves a command together with the desk it acts at.
LEMMA ActTyped ==
    ASSUME QueueTyped, NEW v \in Clerk, NEW k \in Command, Go(v, k), StoreTypeOK',
           desk' \in [Reviewer -> SoundDesk], archive' \in [ReviewId -> [Acted -> Nat]],
           file' \in File, faults' \in 0..MaxFaults, UNCHANGED <<sheet, asked, edits, begun>>
    PROVE  QueueTyped'
  <1>1. ReviewTypeOK'
    BY DEF ReviewTypeOK, SoundDesk
  <1> QED BY <1>1, GoTyped DEF QueueTyped, QueueTypeOK

\* Giving up an action leaves tables and desks typed.
LEMMA AbandonTyped ==
    ASSUME QueueTyped, NEW v \in Clerk, AbandonReview(v) \/ UNCHANGED <<tables, desk>>
    PROVE  StoreTypeOK' /\ desk' \in [Reviewer -> SoundDesk]
  <1>1. v \in Reviewer
    BY ClerkAssumption
  <1>2. UNCHANGED tables
    BY DEF AbandonReview
  <1> QED BY <1>1, <1>2, FreeSound, TurnSound
          DEF AbandonReview, QueueTyped, QueueTypeOK, tables, StoreTypeOK

\* A command that applies a row leaves everything typed.
LEMMA ApplyTyped ==
    ASSUME QueueInv, NEW v \in Clerk,
           \/ \E r \in ReviewId : TakeRow(v, r)
           \/ ApplyAction(v) \/ ActionApplied(v) \/ ActionRefused(v) \/ AppendArchive(v)
           \/ ActionFails(v) \/ Die(v)
    PROVE  QueueTyped'
  <1>0. QueueTyped /\ v \in Reviewer
    BY ClerkAssumption DEF QueueInv
  <1>1. PICK j : j = clerk[v]
    OBVIOUS
  <1>2. /\ j \in Command /\ file \in File /\ faults \in 0..MaxFaults
        /\ desk \in [Reviewer -> SoundDesk] /\ StoreTypeOK /\ archive \in [ReviewId -> [Acted -> Nat]]
        /\ j.pc \in {"apply", "archive"} => j.row \in ReviewId /\ j.rows[j.row].action \in Acted
    BY <1>0, <1>1 DEF QueueTyped, QueueTypeOK, QueueInv, CommandsFit, CommandFits, InHand
  <1>3. ASSUME NEW r \in ReviewId, TakeRow(v, r) PROVE QueueTyped'
    <2>1. PICK k : k = [j EXCEPT !.pc = "apply", !.row = r, !.todo = j.todo \ {r}]
      OBVIOUS
    <2>2. k \in Command
      BY <1>2, <2>1 DEF Command, OrNone
    <2>3. Go(v, k)
      <3>1. [[j EXCEPT !.todo = j.todo \ {r}] EXCEPT !.pc = "apply", !.row = r] = k
        BY <1>2, <2>1 DEF Command
      <3> QED BY <1>1, <1>3, <3>1 DEF TakeRow, Looked
    <2>4. PICK row : row = j.rows[r]
      OBVIOUS
    <2>5. /\ row \in Row /\ row.action \in Acted
          /\ TakeUpAction(v, r, row.action, IF row.action = "approve" THEN row.override ELSE None)
      BY <1>1, <1>2, <1>3, <2>4 DEF TakeRow, Command
    <2>6. PICK d : d = [Free EXCEPT !.pc = row.action, !.review = r, !.action = TRUE,
                                    !.target = IF row.action = "approve" THEN row.override ELSE None]
      OBVIOUS
    <2>7. d \in SoundDesk
      BY <2>5, <2>6, StartingRows DEF SoundDesk, Desk, Row, Acted, OrNone, Free
    <2>8. Turn(v, d) /\ UNCHANGED tables
      BY <2>5, <2>6 DEF TakeUpAction, Free
    <2>9. desk' \in [Reviewer -> SoundDesk] /\ StoreTypeOK'
      BY <1>0, <1>2, <2>7, <2>8, TurnSound DEF tables, StoreTypeOK
    <2> QED BY <1>0, <1>2, <1>3, <2>2, <2>3, <2>9, ActTyped DEF TakeRow
  <1>4. CASE ApplyAction(v)
    <2>1. Go(v, j)
      BY <1>0, <1>1, <1>4 DEF ApplyAction, queue, Go, QueueTyped, QueueTypeOK
    <2>2. desk' \in [Reviewer -> SoundDesk] /\ StoreTypeOK'
      BY <1>0, <1>2, <1>4, ProceedReviewTyped DEF ApplyAction
    <2> QED BY <1>0, <1>2, <1>4, <2>1, <2>2, ActTyped DEF ApplyAction, queue
  <1>5. CASE ActionApplied(v)
    <2>1. PICK k : k = [j EXCEPT !.pc = "archive"]
      OBVIOUS
    <2>2. k \in Command
      BY <1>2, <2>1 DEF Command
    <2>3. desk' \in [Reviewer -> SoundDesk] /\ StoreTypeOK'
      BY <1>0, <1>2, <1>5, ProceedReviewTyped DEF ActionApplied, ProceedReview
    <2> QED BY <1>0, <1>1, <1>2, <1>5, <2>1, <2>2, <2>3, ActTyped DEF ActionApplied
  <1>6. PICK next : next = [j EXCEPT !.pc = "rows", !.row = None]
    OBVIOUS
  <1>7. next \in Command
    BY <1>2, <1>6 DEF Command, OrNone
  <1>8. NextRow(v) <=> Go(v, next)
    BY <1>1, <1>6 DEF NextRow
  <1>9. CASE ActionRefused(v)
    <2>1. desk' \in [Reviewer -> SoundDesk] /\ StoreTypeOK'
      BY <1>0, <1>2, <1>9, ProceedReviewTyped DEF ActionRefused, ProceedReview
    <2> QED BY <1>0, <1>2, <1>7, <1>8, <1>9, <2>1, ActTyped DEF ActionRefused
  <1>10. CASE AppendArchive(v)
    <2>1. PICK r, a : r = j.row /\ a = j.rows[r].action
      OBVIOUS
    <2>2. r \in ReviewId /\ a \in Acted
      BY <1>1, <1>2, <1>10, <2>1 DEF AppendArchive, Running
    <2>3. archive' = [archive EXCEPT ![r][a] = archive[r][a] + 1]
      BY <1>1, <1>10, <2>1 DEF AppendArchive
    <2>4. archive' \in [ReviewId -> [Acted -> Nat]]
      BY <1>2, <2>2, <2>3
    <2>5. desk' \in [Reviewer -> SoundDesk] /\ StoreTypeOK'
      BY <1>2, <1>10 DEF AppendArchive, tables, StoreTypeOK
    <2> QED BY <1>0, <1>2, <1>7, <1>8, <1>10, <2>4, <2>5, ActTyped DEF AppendArchive
  <1>11. ASSUME faults < MaxFaults, faults' = faults + 1 PROVE faults' \in 0..MaxFaults
    BY <1>2, <1>11, QueueFaultsAssumption
  <1>12. CASE ActionFails(v)
    <2>1. desk' \in [Reviewer -> SoundDesk] /\ StoreTypeOK'
      BY <1>0, <1>12, AbandonTyped DEF ActionFails
    <2> QED BY <1>0, <1>2, <1>7, <1>8, <1>11, <1>12, <2>1, ActTyped DEF ActionFails
  <1>13. CASE Die(v)
    <2>1. desk' \in [Reviewer -> SoundDesk] /\ StoreTypeOK'
      BY <1>0, <1>13, AbandonTyped DEF Die
    <2>2. file' \in File
      <3>1. CASE UNCHANGED file
        BY <1>2, <3>1
      <3>2. ASSUME NEW written \in SUBSET clerk[v].pending,
                   file' = Table([r \in ReviewId |-> IF r \in written THEN Output(v)[r] ELSE NoRow])
            PROVE  file' \in File
        <4>1. [r \in ReviewId |-> IF r \in written THEN Output(v)[r] ELSE NoRow]
                  \in [ReviewId -> Row]
          BY <1>0, OutputTyped, StartingQueue
        <4> QED BY <3>2, <4>1, StartingQueue
      <3> QED BY <1>13, <3>1, <3>2 DEF Die
    <2>3. faults' \in 0..MaxFaults
      BY <1>11, <1>13 DEF Die
    <2> QED BY <1>0, <1>2, <1>13, <2>1, <2>2, <2>3, StartingQueue, ActTyped DEF Die
  <1> QED BY <1>3, <1>4, <1>5, <1>9, <1>10, <1>12, <1>13

\* Every step leaves everything typed.
LEMMA TypedStep == ASSUME QueueInv, [Next]_vars PROVE QueueTyped'
  <1>1. CASE UNCHANGED vars
    BY <1>1 DEF QueueInv, QueueTyped, QueueTypeOK, vars, queue, tables, StoreTypeOK, ReviewTypeOK
  <1>2. CASE Outside
    BY <1>2, OutsideTyped DEF QueueInv
  <1>3. ASSUME NEW v \in Clerk, Start(v) \/ Carry(v) \/ ActionFails(v) \/ Die(v) PROVE QueueTyped'
    BY <1>3, StartTyped, RowsTyped, ApplyTyped DEF Carry, QueueInv
  <1> QED BY <1>1, <1>2, <1>3 DEF Next

-----------------------------------------------------------------------------
(* What others do to the reviews a command relies on *)

\* A review never disappears nor changes its concept, and a resolution stays.
ReviewsMove ==
    \A r \in ReviewId :
        /\ reviews[r].status # "absent" =>
              reviews'[r].status # "absent" /\ reviews'[r].concept = reviews[r].concept
        /\ reviews[r].status \in {"approved", "rejected"} => reviews'[r].status = reviews[r].status
        /\ reviews'[r].status # "absent" =>
              reviews[r].status # "absent" \/ reviews'[r].concept \in Concept

AskedGrows == \A r \in ReviewId, a \in Acted : asked'[r][a] >= asked[r][a]

Moves == ReviewsMove /\ AskedGrows

\* The status of one pending review is set, and perhaps its target.
LEMMA ResolutionMoves ==
    ASSUME StoreTypeOK, NEW r \in ReviewId, Pending(r),
           \/ Reject(r)
           \/ \E p \in Product : Promote(r, p)
    PROVE  /\ ReviewsMove
           /\ \A s \in ReviewId : s # r => reviews'[s] = reviews[s]
           /\ Reject(r) => reviews'[r].status = "rejected"
           /\ ~Reject(r) => reviews'[r].status = "approved"
  <1>1. reviews \in [ReviewId -> Review] /\ reviews[r] \in Review
    BY DEF StoreTypeOK
  <1>2. CASE Reject(r)
    <2>1. PICK row : row = [reviews[r] EXCEPT !.status = "rejected"]
      OBVIOUS
    <2>2. row.concept = reviews[r].concept /\ row.status = "rejected"
      BY <1>1, <2>1 DEF Review
    <2>3. reviews' = [reviews EXCEPT ![r] = row]
      BY <1>2, <2>1 DEF Reject
    <2> QED BY <1>1, <1>2, <2>2, <2>3 DEF ReviewsMove, Pending
  <1>3. ASSUME NEW p \in Product, Promote(r, p), ~Reject(r)
        PROVE  /\ ReviewsMove
               /\ \A s \in ReviewId : s # r => reviews'[s] = reviews[s]
               /\ reviews'[r].status = "approved"
    <2>1. PICK row : row = [reviews[r] EXCEPT !.status = "approved", !.target = p]
      OBVIOUS
    <2>2. row.concept = reviews[r].concept /\ row.status = "approved"
      BY <1>1, <2>1 DEF Review
    <2>3. reviews' = [reviews EXCEPT ![r] = row]
      BY <1>1, <1>3, <2>1 DEF Promote
    <2> QED BY <1>1, <1>3, <2>2, <2>3 DEF ReviewsMove, Pending
  <1> QED BY <1>2, <1>3

\* A step of a review action: it resolves the review at the desk, which was
\* pending, as its verdict says; or no review changes.
LEMMA DeskStep ==
    ASSUME StoreTypeOK, desk \in [Reviewer -> SoundDesk], NEW v \in Reviewer, ProceedReview(v)
    PROVE  /\ ReviewsMove
           /\ \A u \in Reviewer : u # v => desk'[u] = desk[u]
           /\ \/ /\ UNCHANGED reviews
                 /\ DeferReview(v) \/ Conflict(v) \/ AuditResolution(v) \/ AuditAction(v)
              \/ /\ desk[v].pc \in Resolution
                 /\ desk[v].review \in ReviewId
                 /\ Pending(desk[v].review)
                 /\ reviews'[desk[v].review].status = Outcome(desk[v].pc)
                 /\ \A s \in ReviewId : s # desk[v].review => reviews'[s] = reviews[s]
                 /\ desk'[v].pc = "audit"
                 /\ desk'[v].review = desk[v].review
  <1>1. PICK d : d = desk[v]
    OBVIOUS
  <1>2. d \in SoundDesk /\ d \in Desk /\ (d.pc # "idle" => d.review \in ReviewId)
    BY <1>1 DEF SoundDesk
  <1>3. \A u \in Reviewer : u # v => desk'[u] = desk[u]
    BY DEF ProceedReview, ApproveExisting, ApproveNew, RejectReview, DeferReview, Conflict,
           AuditResolution, AuditAction, Resolved, Turn
  <1>4. CASE DeferReview(v) \/ Conflict(v) \/ AuditResolution(v) \/ AuditAction(v)
    <2>1. UNCHANGED reviews
      BY <1>4 DEF DeferReview, Conflict, AuditResolution, AuditAction, tables
    <2> QED BY <1>3, <1>4, <2>1 DEF ReviewsMove
  <1>5. ASSUME ApproveExisting(v) \/ ApproveNew(v) \/ RejectReview(v)
        PROVE  /\ d.pc \in Resolution /\ d.review \in ReviewId /\ Pending(d.review)
               /\ ReviewsMove
               /\ reviews'[d.review].status = Outcome(d.pc)
               /\ \A s \in ReviewId : s # d.review => reviews'[s] = reviews[s]
    <2>1. d.pc \in Resolution /\ d.review \in ReviewId /\ Pending(d.review)
      BY <1>1, <1>2, <1>5 DEF ApproveExisting, ApproveNew, RejectReview, Resolution,
                              ApproveWithTarget, ApproveAsNew, Reject
    <2>2. CASE RejectReview(v)
      BY <1>1, <2>1, <2>2, ResolutionMoves DEF RejectReview, Outcome
    <2>3. ASSUME ApproveExisting(v) \/ ApproveNew(v)
          PROVE  d.pc = "approve" /\ \E p \in Product : Promote(d.review, p)
      BY <1>1, <1>2, <2>3 DEF ApproveExisting, ApproveNew, ApproveWithTarget, ApproveAsNew,
                              IsActive
    <2>4. CASE ApproveExisting(v) \/ ApproveNew(v)
      <3>1. PICK p \in Product : Promote(d.review, p)
        BY <2>3, <2>4
      <3>2. PICK row : row = [reviews[d.review] EXCEPT !.status = "approved", !.target = p]
        OBVIOUS
      <3>3. reviews' = [reviews EXCEPT ![d.review] = row]
        BY <2>1, <3>1, <3>2 DEF Promote, StoreTypeOK
      <3>4. row.status = "approved"
        BY <2>1, <3>2 DEF StoreTypeOK, Review
      <3>5. reviews'[d.review].status = "approved"
        BY <2>1, <3>3, <3>4 DEF StoreTypeOK
      <3> QED BY <2>1, <2>3, <2>4, <3>1, <3>5, ResolutionMoves DEF Outcome
    <2> QED BY <1>5, <2>1, <2>2, <2>4
  <1>6. ASSUME ApproveExisting(v) \/ ApproveNew(v) \/ RejectReview(v)
        PROVE  desk'[v].pc = "audit" /\ desk'[v].review = d.review
    <2>1. PICK event : Resolved(v, event)
      BY <1>6 DEF ApproveExisting, ApproveNew, RejectReview
    <2>2. PICK next : next = [d EXCEPT !.pc = "audit", !.event = event, !.target = None]
      OBVIOUS
    <2>3. next.pc = "audit" /\ next.review = d.review
      BY <1>2, <2>2 DEF Desk
    <2>4. desk'[v] = next
      BY <1>1, <2>1, <2>2 DEF Resolved, Turn
    <2> QED BY <2>3, <2>4
  <1>7. CASE ApproveExisting(v) \/ ApproveNew(v) \/ RejectReview(v)
    BY <1>1, <1>3, <1>5, <1>6, <1>7
  <1> QED BY <1>4, <1>7 DEF ProceedReview

-----------------------------------------------------------------------------
(* What a command relies on survives the steps of others *)

\* Rows a command or a file holds are still those of reviews, and still asked for.
LEMMA RowsStayFit ==
    ASSUME QueueTyped, QueueTyped', Moves, NEW rows \in [ReviewId -> Row], RowsFit(rows, reviews, asked)
    PROVE  RowsFit(rows, reviews', asked')
  <1>1. ASSUME NEW r \in ReviewId
        PROVE  /\ rows[r].action \in Acted => asked'[r][rows[r].action] > 0
               /\ rows[r].action # "absent" => reviews'[r].status # "absent"
    <2>1. \A a \in Acted : asked[r][a] \in Nat /\ asked'[r][a] \in Nat /\ asked'[r][a] >= asked[r][a]
      BY DEF QueueTyped, QueueTypeOK, Moves, AskedGrows
    <2>2. /\ rows[r].action \in Acted => asked[r][rows[r].action] > 0
          /\ rows[r].action # "absent" => reviews[r].status # "absent"
      BY DEF RowsFit
    <2>3. rows[r].action # "absent" => reviews'[r].status # "absent"
      BY <2>2 DEF Moves, ReviewsMove
    <2> QED BY <2>1, <2>2, <2>3
  <1> QED BY <1>1 DEF RowsFit

\* What a command has in hand still fits.
LEMMA CommandStays ==
    ASSUME QueueTyped, QueueTyped', Moves, NEW k \in Command, NEW d \in SoundDesk,
           CommandFits(k, d, reviews, asked)
    PROVE  CommandFits(k, d, reviews', asked')
  <1>1. k.rows \in [ReviewId -> Row] /\ k.pending \subseteq ReviewId
    BY DEF Command
  <1>2. RowsFit(k.rows, reviews', asked')
    BY <1>1, RowsStayFit DEF CommandFits
  <1>3. ASSUME NEW r \in ReviewId, reviews[r].status # "absent"
        PROVE  /\ reviews'[r].status # "absent" /\ reviews'[r].concept = reviews[r].concept
               /\ reviews'[r].status = "pending" => reviews[r].status = "pending"
    <2>1. reviews[r].status \in {"absent", "pending", "approved", "rejected"}
      BY DEF QueueTyped, QueueTypeOK, StoreTypeOK, Review
    <2> QED BY <1>3, <2>1 DEF Moves, ReviewsMove
  <1>4. Tracked(k, reviews')
    <2>1. \A r \in Listed(k.rows) : r \in ReviewId /\ reviews[r].status # "absent"
      BY DEF Listed, CommandFits, RowsFit
    <2>2. Tracked(k, reviews)
      BY DEF CommandFits
    <2>3. \A r \in k.pending : reviews'[r].concept = reviews[r].concept
      BY <1>1, <1>3, <2>2 DEF Tracked
    <2>4. ASSUME NEW t, Full(k.pending, reviews, t) PROVE Full(k.pending, reviews', t)
      <3>1. {r \in k.pending : Owner[reviews'[r].concept] = t}
                = {r \in k.pending : Owner[reviews[r].concept] = t}
        BY <2>3
      <3> QED BY <2>4, <3>1 DEF Full
    <2> QED BY <1>1, <1>3, <2>1, <2>2, <2>4 DEF Tracked
  <1>5. ASSUME NEW r \in ReviewId, NEW a \in Resolution, Owed(k, d, r, a)
        PROVE  reviews'[r].status = Outcome(a)
    BY <1>5 DEF CommandFits, Outcome, Moves, ReviewsMove
  <1> QED BY <1>2, <1>4, <1>5 DEF CommandFits

\* The archive still agrees with the reviews.
LEMMA ArchiveStays ==
    ASSUME QueueTyped, QueueTyped', Moves, ResolvedOnce, UNCHANGED archive
    PROVE  ResolvedOnce'
  <1>1. ASSUME NEW r \in ReviewId, NEW a \in Acted, archive[r][a] > 0
        PROVE  asked'[r][a] > 0
    BY <1>1 DEF ResolvedOnce, QueueTyped, QueueTypeOK, Moves, AskedGrows
  <1>2. ASSUME NEW r \in ReviewId
        PROVE  /\ archive[r]["approve"] + archive[r]["reject"] <= 1
               /\ archive[r]["approve"] > 0 => reviews'[r].status = "approved"
               /\ archive[r]["reject"] > 0 => reviews'[r].status = "rejected"
    BY DEF ResolvedOnce, Moves, ReviewsMove
  <1> QED BY <1>1, <1>2 DEF ResolvedOnce

\* The commands fit after a step, if those that it moves do.
LEMMA CommandsStay ==
    ASSUME QueueInv, QueueTyped', Moves,
           \A u \in Clerk : \/ clerk'[u] = clerk[u] /\ desk'[u] = desk[u]
                            \/ CommandFits(clerk'[u], desk'[u], reviews', asked')
    PROVE  CommandsFit'
  <1>1. ASSUME NEW u \in Clerk PROVE CommandFits(clerk'[u], desk'[u], reviews', asked')
    <2>1. CASE clerk'[u] = clerk[u] /\ desk'[u] = desk[u]
      <3>1. PICK k, d : k = clerk[u] /\ d = desk[u]
        OBVIOUS
      <3>2. /\ k \in Command /\ d \in SoundDesk /\ CommandFits(k, d, reviews, asked)
            /\ QueueTyped
        BY <3>1, ClerkAssumption DEF QueueInv, CommandsFit, QueueTyped, QueueTypeOK
      <3>3. CommandFits(k, d, reviews', asked')
        BY <3>2, CommandStays
      <3> QED BY <2>1, <3>1, <3>3
    <2> QED BY <2>1
  <1> QED BY <1>1 DEF CommandsFit

\* The invariant is kept by a step that archives nothing, if each command that
\* it moves still fits, and owes no more to the archive than before.
LEMMA QuietStep ==
    ASSUME QueueInv, QueueTyped', Moves, UNCHANGED archive, FilesFit',
           \A u \in Clerk :
               \/ clerk'[u] = clerk[u] /\ desk'[u] = desk[u]
               \/ /\ CommandFits(clerk'[u], desk'[u], reviews', asked')
                  /\ \A r \in ReviewId, a \in Resolution :
                        Owed(clerk'[u], desk'[u], r, a) => Owed(clerk[u], desk[u], r, a)
    PROVE  QueueInv'
  <1>1. CommandsFit'
    BY CommandsStay
  <1>2. ASSUME NEW u \in Clerk, NEW r \in ReviewId, Owes(u, r)' PROVE Owes(u, r)
    BY <1>2 DEF Owes
  <1>3. Ledger'
    BY <1>2 DEF Ledger, QueueInv
  <1>4. Scoped'
    BY DEF QueueInv, Scoped, Moves, ReviewsMove
  <1>5. ResolvedOnce'
    BY ArchiveStays DEF QueueInv
  <1> QED BY <1>1, <1>3, <1>4, <1>5 DEF QueueInv

\* The same for the step of one command that changes no review and no file.
LEMMA LocalStep ==
    ASSUME QueueInv, QueueTyped', NEW v \in Clerk,
           UNCHANGED <<reviews, asked, archive>>, FilesFit', NEW k, NEW d,
           Go(v, k), d = desk'[v], \A u \in Clerk : u # v => desk'[u] = desk[u],
           CommandFits(k, d, reviews, asked),
           \A r \in ReviewId, a \in Resolution : Owed(k, d, r, a) => Owed(clerk[v], desk[v], r, a)
    PROVE  QueueInv'
  <1>1. Moves
    <2>1. asked \in [ReviewId -> [Acted -> Nat]]
      BY DEF QueueInv, QueueTyped, QueueTypeOK
    <2>2. AskedGrows
      BY <2>1 DEF AskedGrows
    <2> QED BY <2>2 DEF Moves, ReviewsMove
  <1>2. clerk'[v] = k /\ \A u \in Clerk : u # v => clerk'[u] = clerk[u]
    BY DEF Go, QueueInv, QueueTyped, QueueTypeOK
  <1> QED BY <1>1, <1>2, QuietStep

\* Files that no step touches still fit.
LEMMA FilesStay ==
    ASSUME QueueInv, QueueTyped', Moves, UNCHANGED <<file, sheet>> PROVE FilesFit'
  <1>1. PICK rows, shown : rows = file.rows /\ shown = sheet.rows
    OBVIOUS
  <1>2. /\ rows \in [ReviewId -> Row] /\ shown \in [ReviewId -> Row]
        /\ RowsFit(rows, reviews, asked) /\ RowsFit(shown, reviews, asked) /\ QueueTyped
    BY <1>1 DEF QueueInv, QueueTyped, QueueTypeOK, File, FilesFit
  <1>3. RowsFit(rows, reviews', asked') /\ RowsFit(shown, reviews', asked')
    BY <1>2, RowsStayFit
  <1> QED BY <1>1, <1>3 DEF FilesFit

-----------------------------------------------------------------------------
(* Steps of the person and of reviewers at the API *)

\* Reviews arrive and are resolved, rows are edited, and sheets are saved over
\* the file.
LEMMA OutsideStep == ASSUME QueueInv, QueueTyped', Outside PROVE QueueInv'
  <1>0. QueueTyped /\ FilesFit /\ Scoped
    BY DEF QueueInv
  <1>1. asked \in [ReviewId -> [Acted -> Nat]] /\ file \in File /\ sheet \in File
    BY <1>0 DEF QueueTyped, QueueTypeOK
  <1>2. ASSUME UNCHANGED asked PROVE AskedGrows
    BY <1>1, <1>2 DEF AskedGrows
  <1>3. ASSUME UNCHANGED reviews PROVE ReviewsMove
    BY <1>3 DEF ReviewsMove
  <1>4. ASSUME NEW r \in ReviewId, NEW c \in Concept, Arrive(r, c) PROVE QueueInv'
    <2>1. PICK row : row = [NoReview EXCEPT !.status = "pending", !.concept = c, !.blocks = TRUE,
                                            !.occurrences = 1]
      OBVIOUS
    <2>2. row.status = "pending" /\ row.concept = c
      BY <2>1 DEF NoReview
    <2>3. reviews[r].status = "absent" /\ reviews' = [reviews EXCEPT ![r] = row]
      BY <1>4, <2>1 DEF Arrive, InsertReview
    <2>4. ReviewsMove
      BY <1>0, <2>2, <2>3 DEF ReviewsMove, QueueTyped, QueueTypeOK, StoreTypeOK
    <2>5. Moves /\ UNCHANGED <<file, sheet, archive, clerk, desk>>
      BY <1>2, <1>4, <2>4 DEF Arrive, queue, Moves
    <2> QED BY <2>5, FilesStay, QuietStep
  <1>5. CASE AtTheApi
    <2>1. PICK v \in Reviewer \ Clerk : TakeUp(v) \/ ProceedReview(v)
      BY <1>5 DEF AtTheApi
    <2>2. ReviewsMove /\ \A u \in Reviewer : u # v => desk'[u] = desk[u]
      <3>1. CASE TakeUp(v)
        BY <1>0, <1>3, <3>1 DEF TakeUp, TakeUpAction, TakeUpRequest, Turn, tables,
                                QueueTyped
      <3>2. CASE ProceedReview(v)
        BY <1>0, <3>2, DeskStep DEF QueueTyped, QueueTypeOK
      <3> QED BY <2>1, <3>1, <3>2
    <2>3. Moves /\ UNCHANGED <<file, sheet, archive, clerk>>
      BY <1>2, <1>5, <2>2 DEF AtTheApi, queue, Moves
    <2>4. \A u \in Clerk : desk'[u] = desk[u]
      BY <2>1, <2>2, ClerkAssumption
    <2> QED BY <2>3, <2>4, FilesStay, QuietStep
  <1>6. CASE OpenSheet \/ SaveSheet
    <2>1. UNCHANGED <<reviews, asked, archive, clerk, desk>>
      BY <1>6 DEF OpenSheet, SaveSheet, tables
    <2>2. FilesFit'
      BY <1>0, <1>6, <2>1 DEF OpenSheet, SaveSheet, FilesFit
    <2> QED BY <1>2, <1>3, <2>1, <2>2, QuietStep DEF Moves
  <1>7. ASSUME NEW r \in ReviewId, NEW row \in Editable, EditRow(r, row) PROVE QueueInv'
    <2>1. UNCHANGED <<reviews, file, archive, clerk, desk>>
      BY <1>7 DEF EditRow, tables
    <2>2. ASSUME NEW s \in ReviewId, NEW a \in Acted
          PROVE  /\ asked'[s][a] >= asked[s][a]
                 /\ s = r /\ a = row.action => asked'[s][a] > 0
      BY <1>1, <1>7 DEF EditRow
    <2>3. Moves
      BY <1>3, <2>1, <2>2 DEF Moves, AskedGrows
    <2>4. PICK rows, shown : rows = file.rows /\ shown = sheet.rows
      OBVIOUS
    <2>5. /\ rows \in [ReviewId -> Row] /\ shown \in [ReviewId -> Row]
          /\ RowsFit(rows, reviews, asked) /\ RowsFit(shown, reviews, asked)
      BY <1>0, <1>1, <2>4 DEF File, FilesFit
    <2>6. RowsFit(rows, reviews', asked') /\ RowsFit(shown, reviews', asked')
      BY <1>0, <2>3, <2>5, RowsStayFit
    <2>7. sheet'.rows = [shown EXCEPT ![r] = row] /\ shown[r].action # "absent"
      BY <1>1, <1>7, <2>4 DEF EditRow, File, Listed
    <2>8. PICK edited : edited = [shown EXCEPT ![r] = row]
      OBVIOUS
    <2>9. RowsFit(edited, reviews', asked')
      BY <2>2, <2>5, <2>6, <2>7, <2>8 DEF RowsFit
    <2>10. FilesFit'
      BY <2>1, <2>4, <2>6, <2>7, <2>8, <2>9 DEF FilesFit
    <2> QED BY <2>1, <2>3, <2>10, QuietStep
  <1> QED BY <1>4, <1>5, <1>6, <1>7 DEF Outside

-----------------------------------------------------------------------------
(* Steps of a command *)

\* A command goes on to a record that applies no row and owes nothing.
LEMMA FreeStep ==
    ASSUME QueueInv, QueueTyped', NEW v \in Clerk, NEW k, Go(v, k),
           UNCHANGED <<reviews, asked, archive>>, FilesFit', desk'[v].pc = "idle",
           \A u \in Clerk : u # v => desk'[u] = desk[u],
           k.pc \notin {"apply", "archive"}, RowsFit(k.rows, reviews, asked), Tracked(k, reviews)
    PROVE  QueueInv'
  <1>1. PICK d : d = desk'[v]
    OBVIOUS
  <1>2. CommandFits(k, d, reviews, asked)
    BY <1>1 DEF CommandFits, InHand, Owed
  <1>3. \A r \in ReviewId, a \in Resolution : ~Owed(k, d, r, a)
    BY DEF Owed
  <1> QED BY <1>1, <1>2, <1>3, LocalStep

\* A command that is done fits.
LEMMA DoneFits ==
    /\ RowsFit(Done.rows, reviews, asked)
    /\ Tracked(Done, reviews)
    /\ Done.pc = "idle"
  BY DEF Done, RowsFit, NoRows, NoRow, Acted, Tracked, Listed

\* What is listed of a tenant: its pending reviews, all of them or as many as
\* the limit lets through.
LEMMA Listing ==
    ASSUME NEW t, NEW listed \in ListPending(t)
    PROVE  /\ listed \subseteq PendingIn(t)
           /\ listed = PendingIn(t) \/ Cardinality(listed) = Limit
  BY DEF ListPending

\* Starting a command.
LEMMA StartStep == ASSUME QueueInv, QueueTyped', NEW v \in Clerk, Start(v) PROVE QueueInv'
  <1>1. desk[v].pc = "idle"
    BY DEF Start, StartExport, StartProcess, Running, QueueInv, CommandsFit, CommandFits, InHand
  <1>2. /\ UNCHANGED <<reviews, asked, archive, desk>>
        /\ FilesFit'
    BY DEF Start, StartExport, StartProcess, tables, QueueInv, FilesFit
  <1>3. ASSUME NEW t \in Tenant, StartExport(v, t) PROVE QueueInv'
    <2>0. PICK listed \in ListPending(t) : Go(v, [Done EXCEPT !.pc = "merge", !.pending = listed])
      BY <1>3 DEF StartExport
    <2>1. PICK k : k = [Done EXCEPT !.pc = "merge", !.pending = listed] /\ Go(v, k)
      BY <2>0
    <2>2. /\ k.pc = "merge" /\ k.rows = Done.rows /\ k.tenants = {} /\ k.task = "export"
          /\ k.pending = listed
      BY <2>1 DEF Done
    <2>3. Tracked(k, reviews)
      BY <2>2, Listing DEF Tracked, PendingIn, Pending
    <2>4. Go(v, k)
      BY <2>1
    <2> QED BY <1>1, <1>2, <2>2, <2>3, <2>4, DoneFits, FreeStep
  <1>4. CASE StartProcess(v)
    <2>1. PICK k : k = [Done EXCEPT !.task = "process", !.pc = "rows",
                          !.rows = file.rows, !.todo = Listed(file.rows),
                          !.tenants = {TenantOf(r) : r \in Listed(file.rows)}]
      OBVIOUS
    <2>2. /\ k.pc = "rows" /\ k.rows = file.rows /\ k.pending = {}
          /\ k.tenants = {TenantOf(r) : r \in Listed(file.rows)}
      BY <2>1 DEF Done
    <2>3. Tracked(k, reviews)
      BY <2>2 DEF Tracked, TenantOf
    <2>4. RowsFit(k.rows, reviews, asked)
      BY <2>2 DEF QueueInv, FilesFit
    <2>5. Go(v, k)
      BY <1>4, <2>1 DEF StartProcess
    <2> QED BY <1>1, <1>2, <2>2, <2>3, <2>4, <2>5, FreeStep
  <1> QED BY <1>3, <1>4 DEF Start

\* What a command writes fits: the actions are those it has read, and the rows
\* those of reviews.
LEMMA OutputFits ==
    ASSUME QueueInv, NEW v \in Clerk
    PROVE  /\ RowsFit(Output(v), reviews, asked)
           /\ \A written \in SUBSET ReviewId :
                 RowsFit([r \in ReviewId |-> IF r \in written THEN Output(v)[r] ELSE NoRow],
                         reviews, asked)
  <1>1. PICK j : j = clerk[v]
    OBVIOUS
  <1>2. j \in Command /\ RowsFit(j.rows, reviews, asked) /\ Tracked(j, reviews)
    BY <1>1 DEF QueueInv, CommandsFit, CommandFits, QueueTyped, QueueTypeOK
  <1>3. ASSUME NEW r \in ReviewId
        PROVE  /\ Output(v)[r].action \in Acted => asked[r][Output(v)[r].action] > 0
               /\ Output(v)[r].action # "absent" => reviews[r].status # "absent"
    <2>1. CASE r \in j.pending
      <3>1. Output(v)[r] = RewrittenRow(v, r) /\ reviews[r].status # "absent"
        BY <1>1, <1>2, <2>1 DEF Output, Tracked
      <3>2. j.rows[r] \in Row
        BY <1>2 DEF Command
      <3>3. RewrittenRow(v, r).action \in Acted => RewrittenRow(v, r) = j.rows[r]
        BY <1>1, <3>2 DEF RewrittenRow, WaitingRow, Acted, Row
      <3> QED BY <1>2, <3>1, <3>3 DEF RowsFit
    <2>2. CASE r \notin j.pending
      BY <1>1, <2>2 DEF Output, NoRow, Acted
    <2> QED BY <2>1, <2>2
  <1>4. NoRow.action = "absent"
    BY DEF NoRow
  <1> QED BY <1>3, <1>4 DEF RowsFit, Acted

\* A command reads, passes over and lists.
LEMMA RowsStep ==
    ASSUME QueueInv, QueueTyped', NEW v \in Clerk,
           \/ ReadForMerge(v) \/ RefuseFile(v) \/ AllListed(v) \/ OpenForWriting(v) \/ WriteRows(v)
           \/ \E r \in ReviewId : PassOver(v, r)
           \/ \E t \in Tenant : ListAgain(v, t)
    PROVE  QueueInv'
  <1>1. PICK j : j = clerk[v]
    OBVIOUS
  <1>2. /\ j \in Command /\ RowsFit(j.rows, reviews, asked) /\ Tracked(j, reviews)
        /\ InHand(j, desk[v])
    BY <1>1 DEF QueueInv, CommandsFit, CommandFits, QueueTyped, QueueTypeOK
  <1>3. desk[v].pc = "idle"
    BY <1>1, <1>2 DEF InHand, ReadForMerge, RefuseFile, AllListed, OpenForWriting, WriteRows,
                      PassOver, ListAgain, Running
  <1>4. UNCHANGED <<reviews, asked, archive, desk, sheet>>
    BY DEF ReadForMerge, RefuseFile, AllListed, OpenForWriting, WriteRows, PassOver, ListAgain,
           tables
  <1>5. ASSUME UNCHANGED file PROVE FilesFit'
    BY <1>4, <1>5 DEF QueueInv, FilesFit
  <1>6. CASE ReadForMerge(v)
    <2>1. PICK k : k = [j EXCEPT !.pc = "open", !.rows = file.rows]
      OBVIOUS
    <2>2. /\ k.pc = "open" /\ k.rows = file.rows /\ k.tenants = j.tenants /\ k.pending = j.pending
          /\ k.task = j.task /\ j.pc = "merge"
      BY <1>1, <1>2, <1>6, <2>1 DEF Command, ReadForMerge, Running
    <2>3. Tracked(k, reviews)
      BY <1>2, <2>2 DEF Tracked
    <2>4. RowsFit(k.rows, reviews, asked)
      BY <2>2 DEF QueueInv, FilesFit
    <2>5. Go(v, k) /\ UNCHANGED file
      BY <1>1, <1>6, <2>1 DEF ReadForMerge
    <2> QED BY <1>3, <1>4, <1>5, <2>2, <2>3, <2>4, <2>5, FreeStep
  <1>7. CASE RefuseFile(v)
    <2>1. PICK k : k = Done
      OBVIOUS
    <2>2. Go(v, k) /\ UNCHANGED file
      BY <1>7, <2>1 DEF RefuseFile
    <2> QED BY <1>3, <1>4, <1>5, <2>1, <2>2, DoneFits, FreeStep
  <1>8. CASE AllListed(v)
    <2>1. PICK k : k = [j EXCEPT !.pc = "open"]
      OBVIOUS
    <2>2. /\ k.pc = "open" /\ k.rows = j.rows /\ k.tenants = {} /\ k.pending = j.pending
          /\ k.task = j.task /\ j.tenants = {}
      BY <1>1, <1>2, <1>8, <2>1 DEF Command, AllListed
    <2>3. Tracked(k, reviews)
      BY <1>2, <2>2 DEF Tracked
    <2>4. Go(v, k) /\ UNCHANGED file
      BY <1>1, <1>8, <2>1 DEF AllListed
    <2> QED BY <1>2, <1>3, <1>4, <1>5, <2>2, <2>3, <2>4, FreeStep
  <1>9. CASE OpenForWriting(v)
    <2>1. PICK k : k = [j EXCEPT !.pc = "write"]
      OBVIOUS
    <2>2. /\ k.pc = "write" /\ k.rows = j.rows /\ k.tenants = j.tenants /\ k.pending = j.pending
          /\ k.task = j.task /\ j.pc = "open"
      BY <1>1, <1>2, <1>9, <2>1 DEF Command, OpenForWriting, Running
    <2>3. Tracked(k, reviews)
      BY <1>2, <2>2 DEF Tracked
    <2>4. Go(v, k) /\ file' = Blank
      BY <1>1, <1>9, <2>1 DEF OpenForWriting
    <2>5. FilesFit'
      BY <1>4, <2>4 DEF QueueInv, FilesFit, Blank, RowsFit, NoRows, NoRow, Acted
    <2> QED BY <1>2, <1>3, <1>4, <2>2, <2>3, <2>4, <2>5, FreeStep
  <1>10. CASE WriteRows(v)
    <2>1. PICK k : k = Done
      OBVIOUS
    <2>2. Go(v, k) /\ file' = Table(Output(v))
      BY <1>10, <2>1 DEF WriteRows
    <2>3. FilesFit'
      BY <1>4, <2>2, OutputFits DEF QueueInv, FilesFit, Table
    <2> QED BY <1>3, <1>4, <2>1, <2>2, <2>3, DoneFits, FreeStep
  <1>11. ASSUME NEW r \in ReviewId, PassOver(v, r) PROVE QueueInv'
    <2>1. PICK k : k = [j EXCEPT !.todo = j.todo \ {r}]
      OBVIOUS
    <2>2. /\ k.pc = "rows" /\ k.rows = j.rows /\ k.tenants = j.tenants /\ k.pending = j.pending
          /\ k.task = j.task
      BY <1>1, <1>2, <1>11, <2>1 DEF Command, PassOver, Running
    <2>3. Tracked(k, reviews)
      BY <1>2, <2>2 DEF Tracked
    <2>4. Go(v, k) /\ UNCHANGED file
      BY <1>1, <1>11, <2>1 DEF PassOver, Looked
    <2> QED BY <1>2, <1>3, <1>4, <1>5, <2>2, <2>3, <2>4, FreeStep
  <1>12. ASSUME NEW t \in Tenant, ListAgain(v, t) PROVE QueueInv'
    <2>0. PICK listed \in ListPending(t) :
                Go(v, [j EXCEPT !.tenants = j.tenants \ {t}, !.pending = j.pending \cup listed])
      BY <1>1, <1>12 DEF ListAgain
    <2>1. PICK k :
                /\ k = [j EXCEPT !.tenants = j.tenants \ {t}, !.pending = j.pending \cup listed]
                /\ Go(v, k)
      BY <2>0
    <2>2. /\ k.pc = "rows" /\ k.rows = j.rows /\ k.tenants = j.tenants \ {t}
          /\ k.pending = j.pending \cup listed /\ k.task = j.task
      BY <1>1, <1>2, <1>12, <2>1 DEF Command, ListAgain, Running
    <2>3. \A r \in listed : Pending(r) /\ TenantOf(r) = t
      BY Listing DEF PendingIn
    <2>4. ASSUME NEW u, u # t, Full(j.pending, reviews, u) PROVE Full(k.pending, reviews, u)
      <3>1. {r \in k.pending : Owner[reviews[r].concept] = u}
                = {r \in j.pending : Owner[reviews[r].concept] = u}
        BY <2>2, <2>3, <2>4 DEF TenantOf
      <3> QED BY <2>4, <3>1 DEF Full
    <2>5. ASSUME Cardinality(listed) = Limit PROVE Full(k.pending, reviews, t)
      <3>1. \A r \in j.pending : Owner[reviews[r].concept] # t
        BY <1>1, <1>2, <1>12 DEF ListAgain, Tracked
      <3>2. {r \in k.pending : Owner[reviews[r].concept] = t} = listed
        BY <2>2, <2>3, <3>1 DEF TenantOf
      <3> QED BY <2>5, <3>2 DEF Full
    <2>6. Tracked(k, reviews)
      <3>1. ASSUME NEW r \in Listed(j.rows), k.task = "process", reviews[r].status = "pending"
            PROVE  \/ Owner[reviews[r].concept] \in k.tenants
                   \/ r \in k.pending
                   \/ Full(k.pending, reviews, Owner[reviews[r].concept])
        <4>1. CASE Owner[reviews[r].concept] = t
          <5>1. r \in PendingIn(t)
            BY <3>1, <4>1 DEF PendingIn, Pending, TenantOf, Listed
          <5> QED BY <2>2, <2>5, <4>1, <5>1, Listing
        <4>2. CASE Owner[reviews[r].concept] # t
          BY <1>2, <2>2, <2>4, <3>1, <4>2 DEF Tracked
        <4> QED BY <4>1, <4>2
      <3>2. \A r \in k.pending : reviews[r].status # "absent" /\ Owner[reviews[r].concept] \notin k.tenants
        BY <1>2, <2>2, <2>3 DEF Tracked, Pending, TenantOf
      <3> QED BY <2>2, <3>1, <3>2 DEF Tracked
    <2>7. UNCHANGED file
      BY <1>12 DEF ListAgain
    <2> QED BY <1>2, <1>3, <1>4, <1>5, <2>1, <2>2, <2>6, <2>7, FreeStep
  <1> QED BY <1>6, <1>7, <1>8, <1>9, <1>10, <1>11, <1>12

\* The reading of a row, the end of its action, and what goes wrong.
LEMMA ActionStep ==
    ASSUME QueueInv, QueueTyped', NEW v \in Clerk,
           \/ \E r \in ReviewId : TakeRow(v, r)
           \/ ActionApplied(v) \/ ActionRefused(v) \/ ActionFails(v) \/ Die(v)
    PROVE  QueueInv'
  <1>0. v \in Reviewer
    BY ClerkAssumption
  <1>1. PICK j, e : j = clerk[v] /\ e = desk[v]
    OBVIOUS
  <1>2. /\ j \in Command /\ CommandFits(j, e, reviews, asked) /\ e \in SoundDesk
        /\ desk \in [Reviewer -> SoundDesk]
    BY <1>0, <1>1 DEF QueueInv, CommandsFit, QueueTyped, QueueTypeOK
  <1>3. RowsFit(j.rows, reviews, asked) /\ InHand(j, e) /\ Tracked(j, reviews)
    BY <1>2 DEF CommandFits
  <1>4. UNCHANGED <<reviews, asked, archive, sheet>>
    BY DEF TakeRow, TakeUpAction, ActionApplied, AuditResolution, AuditAction, ActionRefused, Conflict,
           ActionFails, AbandonReview, Die, tables
  <1>5. \A u \in Clerk : u # v => desk'[u] = desk[u]
    BY <1>0, <1>2, ClerkAssumption
       DEF TakeRow, TakeUpAction, ActionApplied, AuditResolution, AuditAction, ActionRefused, Conflict,
           ActionFails, AbandonReview, Die, Turn
  <1>6. ASSUME UNCHANGED file PROVE FilesFit'
    BY <1>4, <1>6 DEF QueueInv, FilesFit
  <1>7. ASSUME NEW r \in ReviewId, TakeRow(v, r) PROVE QueueInv'
    <2>1. PICK k : k = [j EXCEPT !.pc = "apply", !.row = r, !.todo = j.todo \ {r}]
      OBVIOUS
    <2>2. /\ k.pc = "apply" /\ k.row = r /\ k.rows = j.rows /\ k.tenants = j.tenants
          /\ k.pending = j.pending /\ k.task = j.task
      BY <1>2, <2>1 DEF Command
    <2>3. Go(v, k)
      <3>1. [[j EXCEPT !.todo = j.todo \ {r}] EXCEPT !.pc = "apply", !.row = r] = k
        BY <1>2, <2>1 DEF Command
      <3> QED BY <1>1, <1>7, <3>1 DEF TakeRow, Looked
    <2>4. PICK d : d = desk'[v]
      OBVIOUS
    <2>5. d.pc = j.rows[r].action /\ d.review = r /\ d.pc \in Acted
      BY <1>0, <1>1, <1>2, <1>7, <2>4 DEF TakeRow, TakeUpAction, Turn, Free
    <2>6. CommandFits(k, d, reviews, asked) /\ \A s \in ReviewId, a \in Resolution : ~Owed(k, d, s, a)
      <3>1. Tracked(k, reviews)
        BY <1>3, <2>2 DEF Tracked
      <3>2. InHand(k, d)
        BY <2>2, <2>5 DEF InHand
      <3>3. \A s \in ReviewId, a \in Resolution : ~Owed(k, d, s, a)
        BY <2>2, <2>5 DEF Owed, Acted
      <3> QED BY <1>3, <2>2, <3>1, <3>2, <3>3 DEF CommandFits
    <2>7. FilesFit'
      BY <1>6, <1>7 DEF TakeRow
    <2> QED BY <1>4, <1>5, <2>3, <2>4, <2>6, <2>7, LocalStep
  <1>8. CASE ActionApplied(v)
    <2>1. PICK k : k = [j EXCEPT !.pc = "archive"]
      OBVIOUS
    <2>2. /\ k.pc = "archive" /\ k.row = j.row /\ k.rows = j.rows /\ k.tenants = j.tenants
          /\ k.pending = j.pending /\ k.task = j.task /\ j.pc = "apply"
      BY <1>1, <1>2, <1>8, <2>1 DEF Command, ActionApplied, Running
    <2>3. PICK d : d = desk'[v]
      OBVIOUS
    <2>4. d.pc = "idle" /\ e.pc \in {"audit", "note"}
      BY <1>1, <1>8, <2>3 DEF ActionApplied, AuditResolution, AuditAction, Free
    <2>5. \A s \in ReviewId, a \in Resolution : Owed(k, d, s, a) => Owed(j, e, s, a)
      BY <2>2, <2>4 DEF Owed
    <2>6. CommandFits(k, d, reviews, asked)
      <3>1. Tracked(k, reviews)
        BY <1>3, <2>2 DEF Tracked
      <3>2. InHand(k, d)
        BY <1>3, <2>2, <2>4 DEF InHand
      <3> QED BY <1>2, <1>3, <2>2, <2>5, <3>1, <3>2 DEF CommandFits
    <2>7. Go(v, k) /\ FilesFit'
      BY <1>1, <1>6, <1>8, <2>1 DEF ActionApplied
    <2> QED BY <1>1, <1>4, <1>5, <2>3, <2>5, <2>6, <2>7, LocalStep
  <1>9. CASE ActionRefused(v) \/ ActionFails(v)
    <2>1. PICK k : k = [j EXCEPT !.pc = "rows", !.row = None]
      OBVIOUS
    <2>2. /\ k.pc = "rows" /\ k.rows = j.rows /\ k.tenants = j.tenants
          /\ k.pending = j.pending /\ k.task = j.task
      BY <1>2, <2>1 DEF Command
    <2>3. Tracked(k, reviews)
      BY <1>2, <1>3, <1>9, <2>2 DEF Tracked
    <2>4. Go(v, k) /\ FilesFit'
      BY <1>1, <1>6, <1>9, <2>1 DEF ActionRefused, ActionFails, NextRow
    <2>5. desk'[v].pc = "idle"
      BY <1>0, <1>1, <1>2, <1>3, <1>9
         DEF ActionRefused, ActionFails, Conflict, AbandonReview, Turn, Free, InHand, Running
    <2> QED BY <1>3, <1>4, <1>5, <2>2, <2>3, <2>4, <2>5, FreeStep
  <1>10. CASE Die(v)
    <2>1. PICK k : k = Done
      OBVIOUS
    <2>2. Go(v, k)
      BY <1>10, <2>1 DEF Die
    <2>3. desk'[v].pc = "idle"
      BY <1>0, <1>2, <1>10 DEF Die, AbandonReview, Turn, Free
    <2>4. FilesFit'
      <3>1. ASSUME NEW written \in SUBSET clerk[v].pending,
                   file' = Table([r \in ReviewId |-> IF r \in written THEN Output(v)[r] ELSE NoRow])
            PROVE  FilesFit'
        <4>1. written \in SUBSET ReviewId
          BY <1>1, <1>2 DEF Command
        <4> QED BY <1>4, <3>1, <4>1, OutputFits DEF QueueInv, FilesFit, Table
      <3> QED BY <1>6, <1>10, <3>1 DEF Die
    <2> QED BY <1>4, <1>5, <2>1, <2>2, <2>3, <2>4, DoneFits, FreeStep
  <1> QED BY <1>7, <1>8, <1>9, <1>10

\* A step of the action itself: it resolves the review, which nobody had
\* resolved, or it changes none.
LEMMA ApplyStep == ASSUME QueueInv, QueueTyped', NEW v \in Clerk, ApplyAction(v) PROVE QueueInv'
  <1>0. v \in Reviewer /\ QueueTyped
    BY ClerkAssumption DEF QueueInv
  <1>1. PICK j, e, d : j = clerk[v] /\ e = desk[v] /\ d = desk'[v]
    OBVIOUS
  <1>2. /\ j \in Command /\ CommandFits(j, e, reviews, asked) /\ e \in SoundDesk /\ e \in Desk
        /\ desk \in [Reviewer -> SoundDesk] /\ StoreTypeOK /\ j.pc = "apply"
        /\ archive \in [ReviewId -> [Acted -> Nat]] /\ asked \in [ReviewId -> [Acted -> Nat]]
    BY <1>0, <1>1 DEF QueueInv, CommandsFit, QueueTyped, QueueTypeOK, SoundDesk, ApplyAction, Running
  <1>3. /\ RowsFit(j.rows, reviews, asked) /\ Tracked(j, reviews)
        /\ j.row \in ReviewId /\ j.rows[j.row].action \in Acted
        /\ e.review = j.row /\ e.pc \in {j.rows[j.row].action, "audit", "note"}
    BY <1>2 DEF CommandFits, InHand
  <1>4. UNCHANGED <<asked, archive, file, sheet, clerk>>
    BY DEF ApplyAction, queue
  <1>5. ReviewsMove /\ \A u \in Clerk : u # v => desk'[u] = desk[u]
    BY <1>0, <1>2, ClerkAssumption, DeskStep DEF ApplyAction
  <1>6. Moves
    BY <1>2, <1>4, <1>5 DEF Moves, AskedGrows
  <1>7. FilesFit'
    BY <1>4, <1>6, FilesStay
  <1>8. CASE /\ UNCHANGED reviews
             /\ DeferReview(v) \/ Conflict(v) \/ AuditResolution(v) \/ AuditAction(v)
    <2>1. DeferReview(v) \/ AuditResolution(v)
      BY <1>0, <1>2, <1>8 DEF ApplyAction, Conflict, AuditAction, Turn
    <2>2. /\ d.review = e.review /\ d.pc \in {"audit", "note"}
          /\ e.pc = "defer" \/ e.pc = "audit"
      <3>1. CASE DeferReview(v)
        <4>1. PICK next : next = [e EXCEPT !.pc = "audit", !.event = "review_deferred", !.target = None]
          OBVIOUS
        <4>2. next.pc = "audit" /\ next.review = e.review
          BY <1>2, <4>1 DEF Desk
        <4>3. d = next /\ e.pc = "defer"
          BY <1>0, <1>1, <1>2, <3>1, <4>1 DEF DeferReview, Resolved, Turn
        <4> QED BY <4>2, <4>3
      <3>2. CASE AuditResolution(v)
        <4>1. PICK next : next = [e EXCEPT !.pc = "note", !.event = "review_action_applied"]
          OBVIOUS
        <4>2. next.pc = "note" /\ next.review = e.review
          BY <1>2, <4>1 DEF Desk
        <4>3. d = next \/ d = Free
          BY <1>0, <1>1, <1>2, <3>2, <4>1 DEF AuditResolution, Turn
        <4>4. d # Free /\ e.pc = "audit"
          BY <1>1, <3>2 DEF ApplyAction, AuditResolution
        <4> QED BY <4>2, <4>3, <4>4
      <3> QED BY <2>1, <3>1, <3>2
    <2>3. \A r \in ReviewId, a \in Resolution : Owed(j, d, r, a) => Owed(j, e, r, a)
      BY <1>3, <2>2 DEF Owed, Resolution, Acted
    <2>4. CommandFits(j, d, reviews, asked)
      <3>1. InHand(j, d)
        BY <1>2, <1>3, <2>2 DEF InHand
      <3> QED BY <1>2, <1>3, <2>3, <3>1 DEF CommandFits
    <2>5. Go(v, j)
      BY <1>1, <1>4, <1>0 DEF Go, QueueTyped, QueueTypeOK
    <2> QED BY <1>1, <1>4, <1>5, <1>7, <1>8, <2>3, <2>4, <2>5, LocalStep
  <1>9. CASE /\ e.pc \in Resolution /\ Pending(j.row)
             /\ reviews'[j.row].status = Outcome(e.pc)
             /\ \A s \in ReviewId : s # j.row => reviews'[s] = reviews[s]
             /\ d.pc = "audit" /\ d.review = j.row
    <2>1. j.rows[j.row].action = e.pc
      BY <1>3, <1>9 DEF Resolution
    <2>2. \A r \in ReviewId, a \in Resolution : Owed(j, d, r, a) => r = j.row /\ a = e.pc
      BY <2>1 DEF Owed
    <2>3. CommandFits(j, d, reviews', asked')
      <3>1. CommandFits(j, e, reviews', asked')
        BY <1>0, <1>2, <1>6, CommandStays
      <3>2. InHand(j, d)
        BY <1>2, <1>3, <1>9 DEF InHand
      <3> QED BY <1>9, <2>2, <3>1, <3>2 DEF CommandFits
    <2>4. CommandsFit'
      BY <1>1, <1>4, <1>5, <1>6, <2>3, CommandsStay
    <2>5. ASSUME NEW u \in Clerk, Owes(u, j.row) PROVE FALSE
      <3>1. PICK a \in Resolution : Owed(clerk[u], desk[u], j.row, a)
        BY <2>5 DEF Owes
      <3>2. reviews[j.row].status = Outcome(a)
        BY <1>3, <3>1 DEF QueueInv, CommandsFit, CommandFits
      <3> QED BY <1>9, <3>2 DEF Pending, Outcome
    <2>6. archive[j.row]["approve"] + archive[j.row]["reject"] = 0
      <3>1. archive[j.row]["approve"] \in Nat /\ archive[j.row]["reject"] \in Nat
        BY <1>2, <1>3 DEF Acted
      <3>2. ~(archive[j.row]["approve"] > 0) /\ ~(archive[j.row]["reject"] > 0)
        BY <1>3, <1>9 DEF QueueInv, ResolvedOnce, Pending
      <3> QED BY <3>1, <3>2
    <2>7. ASSUME NEW u \in Clerk, NEW s \in ReviewId, Owes(u, s)'
          PROVE  Owes(u, s) \/ (u = v /\ s = j.row)
      <3>1. CASE u = v
        BY <1>1, <1>4, <2>2, <2>7, <3>1 DEF Owes
      <3>2. CASE u # v
        BY <1>4, <1>5, <2>7, <3>2 DEF Owes
      <3> QED BY <3>1, <3>2
    <2>8. Ledger'
      <3>1. ASSUME NEW s \in ReviewId, NEW u \in Clerk, Owes(u, s)'
            PROVE  /\ archive'[s]["approve"] + archive'[s]["reject"] = 0
                   /\ \A w \in Clerk : Owes(w, s)' => w = u
        <4>1. CASE s = j.row
          BY <1>4, <2>5, <2>6, <2>7, <3>1, <4>1
        <4>2. CASE s # j.row
          BY <1>4, <2>7, <3>1, <4>2 DEF QueueInv, Ledger
        <4> QED BY <4>1, <4>2
      <3> QED BY <3>1 DEF Ledger
    <2>9. Scoped'
      BY <1>5 DEF QueueInv, Scoped, ReviewsMove
    <2>10. ResolvedOnce'
      BY <1>4, <1>6, ArchiveStays DEF QueueInv
    <2> QED BY <1>7, <2>4, <2>8, <2>9, <2>10 DEF QueueInv
  <1> QED BY <1>0, <1>1, <1>2, <1>3, <1>8, <1>9, DeskStep DEF ApplyAction

\* The outcome is archived: the first one of its review.
LEMMA AppendStep == ASSUME QueueInv, QueueTyped', NEW v \in Clerk, AppendArchive(v) PROVE QueueInv'
  <1>0. QueueTyped
    BY DEF QueueInv
  <1>1. PICK j, e, r, a : j = clerk[v] /\ e = desk[v] /\ r = j.row /\ a = j.rows[r].action
    OBVIOUS
  <1>2. /\ j \in Command /\ CommandFits(j, e, reviews, asked) /\ j.pc = "archive"
        /\ archive \in [ReviewId -> [Acted -> Nat]] /\ asked \in [ReviewId -> [Acted -> Nat]]
    BY <1>0, <1>1 DEF QueueInv, CommandsFit, QueueTyped, QueueTypeOK, AppendArchive, Running
  <1>3. /\ RowsFit(j.rows, reviews, asked) /\ Tracked(j, reviews)
        /\ r \in ReviewId /\ a \in Acted /\ e.pc = "idle"
    BY <1>1, <1>2 DEF CommandFits, InHand
  <1>4. UNCHANGED <<reviews, asked, file, sheet, desk>>
    BY DEF AppendArchive, tables
  <1>5. archive' = [archive EXCEPT ![r][a] = archive[r][a] + 1]
    BY <1>1 DEF AppendArchive
  <1>6. Moves
    BY <1>2, <1>4 DEF Moves, AskedGrows, ReviewsMove
  <1>7. PICK k : k = [j EXCEPT !.pc = "rows", !.row = None]
    OBVIOUS
  <1>8. /\ k.pc = "rows" /\ k.rows = j.rows /\ k.tenants = j.tenants
        /\ k.pending = j.pending /\ k.task = j.task
    BY <1>2, <1>7 DEF Command
  <1>9. clerk'[v] = k /\ \A u \in Clerk : u # v => clerk'[u] = clerk[u]
    BY <1>0, <1>1, <1>7 DEF AppendArchive, NextRow, Go, QueueTyped, QueueTypeOK
  <1>10. CommandFits(k, e, reviews, asked) /\ \A s \in ReviewId, b \in Resolution : ~Owed(k, e, s, b)
    <2>1. Tracked(k, reviews)
      BY <1>2, <1>3, <1>8 DEF Tracked
    <2>2. InHand(k, e)
      BY <1>3, <1>8 DEF InHand
    <2> QED BY <1>3, <1>8, <2>1, <2>2 DEF CommandFits, Owed
  <1>11. CommandsFit'
    BY <1>1, <1>4, <1>6, <1>9, <1>10, CommandsStay
  <1>12. a \in Resolution => Owes(v, r)
    BY <1>1, <1>2 DEF Owes, Owed
  <1>13. ASSUME NEW u \in Clerk, NEW s \in ReviewId, Owes(u, s)'
         PROVE  Owes(u, s) /\ u # v
    BY <1>1, <1>4, <1>9, <1>10, <1>13 DEF Owes
  <1>14. ASSUME NEW s \in ReviewId, NEW b \in Acted, ~(s = r /\ b = a)
         PROVE  archive'[s][b] = archive[s][b]
    BY <1>2, <1>3, <1>5, <1>14
  <1>15. archive'[r][a] = archive[r][a] + 1
    BY <1>2, <1>3, <1>5
  <1>16. "approve" \in Acted /\ "reject" \in Acted /\ Resolution = {"approve", "reject"}
    BY DEF Acted, Resolution
  <1>17. Ledger'
    <2>1. ASSUME NEW s \in ReviewId, NEW u \in Clerk, Owes(u, s)'
          PROVE  /\ archive'[s]["approve"] + archive'[s]["reject"] = 0
                 /\ \A w \in Clerk : Owes(w, s)' => w = u
      <3>1. Owes(u, s) /\ u # v
        BY <1>13, <2>1
      <3>2. ~(s = r /\ a \in Resolution)
        BY <1>12, <3>1 DEF QueueInv, Ledger
      <3>3. archive'[s]["approve"] = archive[s]["approve"] /\ archive'[s]["reject"] = archive[s]["reject"]
        BY <1>14, <1>16, <3>2
      <3> QED BY <1>13, <3>1, <3>3 DEF QueueInv, Ledger
    <2> QED BY <2>1 DEF Ledger
  <1>18. ASSUME NEW s \in ReviewId
         PROVE  /\ archive'[s]["approve"] + archive'[s]["reject"] <= 1
                /\ archive'[s]["approve"] > 0 => reviews[s].status = "approved"
                /\ archive'[s]["reject"] > 0 => reviews[s].status = "rejected"
    <2>1. archive[s]["approve"] \in Nat /\ archive[s]["reject"] \in Nat
      BY <1>2, <1>16
    <2>2. CASE s = r /\ a \in Resolution
      <3>1. archive[r]["approve"] + archive[r]["reject"] = 0
        BY <1>3, <1>12, <2>2 DEF QueueInv, Ledger
      <3>2. archive[r]["approve"] = 0 /\ archive[r]["reject"] = 0
        BY <2>1, <2>2, <3>1
      <3>3. reviews[r].status = Outcome(a)
        BY <1>1, <1>2, <1>3, <2>2 DEF CommandFits, Owed
      <3> QED BY <1>14, <1>15, <1>16, <2>2, <3>2, <3>3 DEF Outcome
    <2>3. CASE ~(s = r /\ a \in Resolution)
      <3>1. archive'[s]["approve"] = archive[s]["approve"] /\ archive'[s]["reject"] = archive[s]["reject"]
        BY <1>14, <1>16, <2>3
      <3> QED BY <3>1 DEF QueueInv, ResolvedOnce
    <2> QED BY <2>2, <2>3
  <1>19. ASSUME NEW s \in ReviewId, NEW b \in Acted, archive'[s][b] > 0 PROVE asked[s][b] > 0
    <2>1. CASE s = r /\ b = a
      BY <1>1, <1>3, <2>1 DEF RowsFit
    <2>2. CASE ~(s = r /\ b = a)
      BY <1>14, <1>19, <2>2 DEF QueueInv, ResolvedOnce
    <2> QED BY <2>1, <2>2
  <1>20. ResolvedOnce'
    BY <1>4, <1>18, <1>19 DEF ResolvedOnce
  <1>21. FilesFit' /\ Scoped'
    BY <1>4 DEF QueueInv, FilesFit, Scoped
  <1> QED BY <1>11, <1>17, <1>20, <1>21 DEF QueueInv

-----------------------------------------------------------------------------
(* The invariant, and what follows from it *)

\* Nothing is listed, asked for or archived at the start.
LEMMA QueueStart == Init => QueueInv
  <1> SUFFICES ASSUME Init PROVE QueueInv
    OBVIOUS
  <1>1. StoreTypeOK
    BY NoneAssumption, SeedAssumption, StartingRows DEF Init, StoreInit, StoreTypeOK, OrNone
  <1>2. desk \in [Reviewer -> SoundDesk] /\ ReviewTypeOK
    BY FreeSound, StartingRows DEF Init, ReviewInit, ReviewTypeOK
  <1>3. QueueTyped
    <2>1. /\ archive \in [ReviewId -> [Acted -> Nat]]
          /\ asked \in [ReviewId -> [Acted -> 0..MaxEdits]]
          /\ \A r \in ReviewId, a \in Acted : asked[r][a] <= edits
      BY MaxEditsAssumption DEF Init, Nothing
    <2>2. edits \in 0..MaxEdits /\ begun \in 0..MaxCommands /\ faults \in 0..MaxFaults
      BY MaxEditsAssumption, MaxCommandsAssumption, QueueFaultsAssumption DEF Init
    <2>3. file \in File /\ sheet \in File /\ clerk \in [Clerk -> Command]
      BY StartingQueue DEF Init, File
    <2> QED BY <1>1, <1>2, <2>1, <2>2, <2>3 DEF QueueTyped, QueueTypeOK
  <1>4. FilesFit /\ Scoped
    BY DEF Init, StoreInit, FilesFit, RowsFit, NoRows, NoRow, Acted, Scoped, NoReview
  <1>5. ASSUME NEW v \in Clerk
        PROVE  /\ CommandFits(clerk[v], desk[v], reviews, asked)
               /\ \A r \in ReviewId : ~Owes(v, r)
    <2>1. clerk[v] = Done /\ desk[v] = Free
      BY ClerkAssumption DEF Init, ReviewInit
    <2>2. \A r \in ReviewId, a \in Resolution : ~Owed(clerk[v], desk[v], r, a)
      BY <2>1, DoneFits DEF Owed
    <2>3. InHand(Done, Free)
      BY DoneFits DEF InHand, Done, Free
    <2>4. CommandFits(Done, Free, reviews, asked)
      BY <2>3, DoneFits DEF CommandFits, Owed
    <2> QED BY <2>1, <2>2, <2>4 DEF Owes
  <1>6. ResolvedOnce
    BY DEF Init, Nothing, ResolvedOnce, Acted
  <1> QED BY <1>3, <1>4, <1>5, <1>6 DEF QueueInv, CommandsFit, Ledger

\* Every step keeps the invariant.
LEMMA QueueStep == ASSUME QueueInv, [Next]_vars PROVE QueueInv'
  <1>1. QueueTyped'
    BY TypedStep
  <1>2. CASE UNCHANGED vars
    BY <1>1, <1>2 DEF vars, queue, tables, QueueInv, Scoped, FilesFit, CommandsFit, Ledger, Owes,
                      ResolvedOnce
  <1>3. CASE Outside
    BY <1>1, <1>3, OutsideStep
  <1>4. ASSUME NEW v \in Clerk, Start(v) \/ Carry(v) \/ ActionFails(v) \/ Die(v) PROVE QueueInv'
    BY <1>1, <1>4, StartStep, RowsStep, ActionStep, ApplyStep, AppendStep DEF Carry
  <1> QED BY <1>2, <1>3, <1>4 DEF Next

\* The inductive invariant holds throughout.
THEOREM QueueIsSound == Spec => []QueueInv
  <1> QED BY QueueStart, QueueStep, PTL DEF Spec

\* File, archive, commands and spreadsheet keep their types.
THEOREM QueueTypes == Spec => []QueueTypeOK
  <1>1. QueueInv => QueueTypeOK
    BY DEF QueueInv, QueueTyped
  <1> QED BY <1>1, QueueIsSound, PTL

\* A review is resolved through the queue at most once, as the archive says and
\* as a person asked, for any number of commands, sheets and faults.
THEOREM OneResolution == Spec => []ResolvedOnce
  <1>1. QueueInv => ResolvedOnce
    BY DEF QueueInv
  <1> QED BY <1>1, QueueIsSound, PTL

\* What review-process writes back holds every pending row it has read, except
\* where the list of its tenant is full.
THEOREM RowsStay == Spec => []PendingRowsStay
  <1>1. ASSUME QueueInv PROVE PendingRowsStay
    <2>1. ASSUME NEW v \in Clerk, Running(v, "write"), clerk[v].task = "process",
                 NEW r \in Listed(clerk[v].rows), Pending(r)
          PROVE  Output(v)[r].action # "absent" \/ ListIsFull(v, TenantOf(r))
      <3>1. Tracked(clerk[v], reviews) /\ r \in ReviewId /\ clerk[v].rows[r].action # "absent"
        BY <1>1, <2>1 DEF QueueInv, CommandsFit, CommandFits, Listed
      <3>2. r \in clerk[v].pending \/ Full(clerk[v].pending, reviews, TenantOf(r))
        BY <2>1, <3>1 DEF Tracked, Pending, Running, TenantOf
      <3>3. CASE r \in clerk[v].pending
        <4>1. clerk[v].rows[r] \in Row
          BY <1>1, <3>1 DEF QueueInv, QueueTyped, QueueTypeOK, Command
        <4>2. RewrittenRow(v, r).action = "waiting_for_approval"
          BY <2>1, <3>1, <4>1 DEF RewrittenRow, Row
        <4> QED BY <3>1, <3>3, <4>2 DEF Output
      <3>4. CASE Full(clerk[v].pending, reviews, TenantOf(r))
        BY <3>4 DEF Full, ListIsFull, TenantOf
      <3> QED BY <3>2, <3>3, <3>4
    <2> QED BY <2>1 DEF PendingRowsStay
  <1> QED BY <1>1, QueueIsSound, PTL
=============================================================================

----------------------------- MODULE ReviewQueue -----------------------------
(***************************************************************************)
(* The weekly review queue: ReviewQueueService (application/               *)
(* review_queue.py) and CsvReviewQueueStore (infrastructure/review_queue/  *)
(* csv_queue.py).  Pending reviews are exported to a CSV file, a person    *)
(* edits the file in a spreadsheet, and a run of review-process applies    *)
(* the edited actions one by one through ReviewService, appends each       *)
(* outcome to an archive and rewrites the file from the pending reviews.   *)
(* Nothing locks the file: commands, the spreadsheet and reviewers at the  *)
(* API go on at the same time, and a command may die between two steps.    *)
(*                                                                         *)
(* A clerk is a command being run; it acts on reviews as one of the        *)
(* Reviewers of ReviewService.                                             *)
(***************************************************************************)
EXTENDS ReviewService, FiniteSets

CONSTANTS
    Clerk,        \* commands that may be running at once
    Tenant,
    Owner,        \* the tenant whose concept it is
    Override,     \* target_product_id_override a person may enter
    Limit,        \* reviews of a tenant that are listed at most (10,000)
    MaxEdits,     \* bound: rows a person edits in all
    MaxCommands,  \* bound: commands begun in all
    MaxFaults     \* bound: commands that die, actions and appends that fail

ASSUME ClerkAssumption == Clerk \subseteq Reviewer
ASSUME OwnerAssumption == Owner \in [Concept -> Tenant]
ASSUME OverrideAssumption == Override \subseteq Product \cup {None}
ASSUME LimitAssumption == Limit \in Nat \ {0}
ASSUME MaxEditsAssumption == MaxEdits \in Nat
ASSUME MaxCommandsAssumption == MaxCommands \in Nat
ASSUME QueueFaultsAssumption == MaxFaults \in Nat

VARIABLES
    file,       \* .runtime/review_queue.csv
    archive,    \* .runtime/review_archive.jsonl: outcomes per review and action
    clerk,      \* what each command is doing
    sheet,      \* the spreadsheet a person has the file open in
    asked,      \* history: how often a person entered each action for a review
    edits,      \* rows edited so far
    begun,      \* commands begun so far
    faults

queue == <<file, archive, clerk, sheet, asked, edits, begun, faults>>

vars == <<tables, desk, queue>>

-----------------------------------------------------------------------------
(* Rows, files and commands.  Of a row the action and the target override   *)
(* are kept; the evidence columns are rewritten from the review each time.  *)

Acted == {"approve", "reject", "defer"}

\* invalid: no action by that name, or one that lacks the target it requires
Row == [action   : Acted \cup {"absent", "waiting_for_approval", "invalid"},
        override : OrNone(Product)]

NoRow == [action |-> "absent", override |-> None]

WaitingRow == [action |-> "waiting_for_approval", override |-> None]

NoRows == [r \in ReviewId |-> NoRow]

Listed(rows) == {r \in ReviewId : rows[r].action # "absent"}

\* blank: opened for writing and not written, so without even a header
File == [kind : {"missing", "blank", "table"}, rows : [ReviewId -> Row]]

Table(rows) == [kind |-> "table", rows |-> rows]

Blank == [kind |-> "blank", rows |-> NoRows]

Command == [pc      : {"idle", "merge", "rows", "apply", "archive", "gather", "open", "write"},
            task    : {"export", "process"},
            rows    : [ReviewId -> Row],    \* the file as it was read
            todo    : SUBSET ReviewId,      \* rows not looked at yet
            row     : OrNone(ReviewId),     \* row whose action is being applied
            tenants : SUBSET Tenant,        \* tenants whose reviews are still to be listed
            pending : SUBSET ReviewId]      \* pending reviews listed

Done == [pc |-> "idle", task |-> "export", rows |-> NoRows, todo |-> {}, row |-> None,
         tenants |-> {}, pending |-> {}]

QueueTypeOK ==
    /\ StoreTypeOK
    /\ ReviewTypeOK
    /\ file \in File
    /\ archive \in [ReviewId -> [Acted -> Nat]]
    /\ clerk \in [Clerk -> Command]
    /\ sheet \in File
    /\ asked \in [ReviewId -> [Acted -> 0..MaxEdits]]
    /\ edits \in 0..MaxEdits
    /\ begun \in 0..MaxCommands
    /\ faults \in 0..MaxFaults

Nothing == [r \in ReviewId |-> [a \in Acted |-> 0]]

Init ==
    /\ StoreInit
    /\ ReviewInit
    /\ file = [kind |-> "missing", rows |-> NoRows]
    /\ archive = Nothing
    /\ clerk = [v \in Clerk |-> Done]
    /\ sheet = [kind |-> "missing", rows |-> NoRows]
    /\ asked = Nothing
    /\ edits = 0
    /\ begun = 0
    /\ faults = 0

Running(v, pc) == clerk[v].pc = pc

Go(v, next) == clerk' = [clerk EXCEPT ![v] = next]

TenantOf(r) == Owner[reviews[r].concept]

PendingIn(t) == {r \in ReviewId : Pending(r) /\ TenantOf(r) = t}

\* list_pending: the most urgent Limit reviews of the tenant.  Priorities move
\* with every line counted (ReviewRanking), so here any of them may be cut.
ListPending(t) ==
    {listed \in SUBSET PendingIn(t) :
        /\ Cardinality(listed) <= Limit
        /\ listed = PendingIn(t) \/ Cardinality(listed) = Limit}

-----------------------------------------------------------------------------
(* The world around the queue *)

\* canonicalize stages a review, here always one without a target of its own.
Arrive(r, c) ==
    /\ InsertReview(r, [NoReview EXCEPT !.status = "pending", !.concept = c, !.blocks = TRUE,
                                        !.occurrences = 1])
    /\ UNCHANGED <<catalog, alias, decisions, trail, everApproved, desk, queue>>

\* Reviewers at the API
AtTheApi ==
    /\ \E v \in Reviewer \ Clerk : TakeUp(v) \/ ProceedReview(v)
    /\ UNCHANGED queue

OpenSheet ==
    /\ file.kind = "table"
    /\ sheet' = file
    /\ UNCHANGED <<tables, desk, file, archive, clerk, asked, edits, begun, faults>>

EditRow(r, row) ==
    /\ edits < MaxEdits
    /\ r \in Listed(sheet.rows)
    /\ edits' = edits + 1
    /\ sheet' = [sheet EXCEPT !.rows[r] = row]
    /\ asked' = IF row.action \in Acted THEN [asked EXCEPT ![r][row.action] = @ + 1] ELSE asked
    /\ UNCHANGED <<tables, desk, file, archive, clerk, begun, faults>>

\* The file is replaced by what the spreadsheet holds, whoever wrote it since.
SaveSheet ==
    /\ sheet.kind = "table"
    /\ file' = sheet
    /\ UNCHANGED <<tables, desk, archive, clerk, sheet, asked, edits, begun, faults>>

Editable == [action : Acted \cup {"waiting_for_approval", "invalid"}, override : Override]

Outside ==
    \/ \E r \in ReviewId, c \in Concept : Arrive(r, c)
    \/ AtTheApi
    \/ OpenSheet \/ SaveSheet
    \/ \E r \in ReviewId, row \in Editable : EditRow(r, row)

-----------------------------------------------------------------------------
(* review-export: list the pending reviews, read the file, write the merge  *)

StartExport(v, t) ==
    /\ Running(v, "idle")
    /\ begun < MaxCommands
    /\ begun' = begun + 1
    /\ \E listed \in ListPending(t) :
            Go(v, [Done EXCEPT !.pc = "merge", !.pending = listed])
    /\ UNCHANGED <<tables, desk, file, archive, sheet, asked, edits, faults>>

ReadForMerge(v) ==
    /\ Running(v, "merge")
    /\ file.kind # "blank"
    /\ Go(v, [clerk[v] EXCEPT !.pc = "open", !.rows = file.rows])
    /\ UNCHANGED <<tables, desk, file, archive, sheet, asked, edits, begun, faults>>

\* A file without its header is refused, by every command from then on.
RefuseFile(v) ==
    /\ Running(v, "merge")
    /\ file.kind = "blank"
    /\ Go(v, Done)
    /\ UNCHANGED <<tables, desk, file, archive, sheet, asked, edits, begun, faults>>

-----------------------------------------------------------------------------
(* review-process: the rows one by one *)

\* Mutant: a row that waits is skipped before its tenant is noted.
StartProcessOfActed(v) ==
    /\ Running(v, "idle")
    /\ begun < MaxCommands
    /\ begun' = begun + 1
    /\ file.kind # "blank"
    /\ Go(v, [Done EXCEPT !.task = "process", !.pc = "rows",
                          !.rows = file.rows, !.todo = Listed(file.rows),
                          !.tenants = {TenantOf(r) : r \in {s \in Listed(file.rows) :
                                          file.rows[s].action # "waiting_for_approval"}}])
    /\ UNCHANGED <<tables, desk, file, archive, sheet, asked, edits, faults>>

StartProcess(v) ==
    /\ Running(v, "idle")
    /\ begun < MaxCommands
    /\ begun' = begun + 1
    /\ file.kind # "blank"
    /\ Go(v, [Done EXCEPT !.task = "process", !.pc = "rows",
                          !.rows = file.rows, !.todo = Listed(file.rows),
                          !.tenants = {TenantOf(r) : r \in Listed(file.rows)}])
    /\ UNCHANGED <<tables, desk, file, archive, sheet, asked, edits, faults>>

NextRow(v) == Go(v, [clerk[v] EXCEPT !.pc = "rows", !.row = None])

Looked(v, r) == [clerk[v] EXCEPT !.todo = @ \ {r}]

\* The rows are taken in any order, where the code follows the file.
\* waiting_for_approval, an unusable action, or a review that is resolved by now
PassOver(v, r) ==
    /\ Running(v, "rows")
    /\ r \in clerk[v].todo
    /\ clerk[v].rows[r].action \in Acted => ~Pending(r)
    /\ Go(v, Looked(v, r))
    /\ UNCHANGED <<tables, desk, file, archive, sheet, asked, edits, begun, faults>>

\* apply_action begins.
TakeRow(v, r) ==
    /\ Running(v, "rows")
    /\ r \in clerk[v].todo
    /\ LET row == clerk[v].rows[r] IN
       /\ row.action \in Acted
       /\ TakeUpAction(v, r, row.action, IF row.action = "approve" THEN row.override ELSE None)
    /\ Go(v, [Looked(v, r) EXCEPT !.pc = "apply", !.row = r])
    /\ UNCHANGED <<file, archive, sheet, asked, edits, begun, faults>>

ApplyAction(v) ==
    /\ Running(v, "apply")
    /\ ProceedReview(v)
    /\ desk'[v] # Free
    /\ UNCHANGED queue

ActionApplied(v) ==
    /\ Running(v, "apply")
    /\ AuditResolution(v) \/ AuditAction(v)
    /\ desk'[v] = Free
    /\ Go(v, [clerk[v] EXCEPT !.pc = "archive"])
    /\ UNCHANGED <<file, archive, sheet, asked, edits, begun, faults>>

\* An error is reported and the row is left for a person to correct.
ActionRefused(v) ==
    /\ Running(v, "apply")
    /\ Conflict(v)
    /\ NextRow(v)
    /\ UNCHANGED <<file, archive, sheet, asked, edits, begun, faults>>

AppendArchive(v) ==
    /\ Running(v, "archive")
    /\ LET r == clerk[v].row IN
       archive' = [archive EXCEPT ![r][clerk[v].rows[r].action] = @ + 1]
    /\ NextRow(v)
    /\ UNCHANGED <<tables, desk, file, sheet, asked, edits, begun, faults>>

\* Whatever apply_action or append_archive raises is caught per row: the
\* command goes on, with what the action has done so far left in place.
ActionFails(v) ==
    /\ faults < MaxFaults
    /\ faults' = faults + 1
    /\ \/ Running(v, "apply") /\ AbandonReview(v)
       \/ Running(v, "archive") /\ UNCHANGED <<tables, desk>>
    /\ NextRow(v)
    /\ UNCHANGED <<file, archive, sheet, asked, edits, begun>>

\* When all rows are done with, the pending reviews of their tenants are listed.
ListAgain(v, t) ==
    /\ Running(v, "rows")
    /\ clerk[v].todo = {}
    /\ t \in clerk[v].tenants
    /\ \E listed \in ListPending(t) :
            Go(v, [clerk[v] EXCEPT !.tenants = @ \ {t}, !.pending = @ \cup listed])
    /\ UNCHANGED <<tables, desk, file, archive, sheet, asked, edits, begun, faults>>

AllListed(v) ==
    /\ Running(v, "rows")
    /\ clerk[v].todo = {}
    /\ clerk[v].tenants = {}
    /\ Go(v, [clerk[v] EXCEPT !.pc = "open"])
    /\ UNCHANGED <<tables, desk, file, archive, sheet, asked, edits, begun, faults>>

-----------------------------------------------------------------------------
(* write_rows *)

\* Mutant: the action stays in the row.
RowWithItsAction(v, r) ==
    IF clerk[v].rows[r].action = "absent" THEN WaitingRow ELSE clerk[v].rows[r]

\* export keeps the editable columns of the file, process all but the action;
\* a review that was not in the file gets a fresh row.
RewrittenRow(v, r) ==
    IF clerk[v].rows[r].action = "absent" THEN WaitingRow
    ELSE IF clerk[v].task = "export" THEN clerk[v].rows[r]
    ELSE [clerk[v].rows[r] EXCEPT !.action = "waiting_for_approval"]

Output(v) == [r \in ReviewId |-> IF r \in clerk[v].pending THEN RewrittenRow(v, r) ELSE NoRow]

OpenForWriting(v) ==
    /\ Running(v, "open")
    /\ file' = Blank
    /\ Go(v, [clerk[v] EXCEPT !.pc = "write"])
    /\ UNCHANGED <<tables, desk, archive, sheet, asked, edits, begun, faults>>

WriteRows(v) ==
    /\ Running(v, "write")
    /\ file' = Table(Output(v))
    /\ Go(v, Done)
    /\ UNCHANGED <<tables, desk, archive, sheet, asked, edits, begun, faults>>

\* The command dies; a file it was writing is blank or holds some of the rows.
Die(v) ==
    /\ faults < MaxFaults
    /\ faults' = faults + 1
    /\ clerk[v].pc # "idle"
    /\ IF desk[v].pc = "idle" THEN UNCHANGED <<tables, desk>> ELSE AbandonReview(v)
    /\ \/ UNCHANGED file
       \/ /\ Running(v, "write")
          /\ \E written \in SUBSET clerk[v].pending :
                file' = Table([r \in ReviewId |-> IF r \in written THEN Output(v)[r] ELSE NoRow])
    /\ Go(v, Done)
    /\ UNCHANGED <<archive, sheet, asked, edits, begun>>

-----------------------------------------------------------------------------
Start(v) == StartProcess(v) \/ \E t \in Tenant : StartExport(v, t)

Carry(v) ==
    \/ ReadForMerge(v) \/ RefuseFile(v)
    \/ \E r \in ReviewId : PassOver(v, r) \/ TakeRow(v, r)
    \/ ApplyAction(v) \/ ActionApplied(v) \/ ActionRefused(v) \/ AppendArchive(v)
    \/ \E t \in Tenant : ListAgain(v, t)
    \/ AllListed(v) \/ OpenForWriting(v) \/ WriteRows(v)

Next == Outside \/ \E v \in Clerk : Start(v) \/ Carry(v) \/ ActionFails(v) \/ Die(v)

Spec == Init /\ [][Next]_vars

\* A command that has been started runs on.
FairSpec == Spec /\ \A v \in Clerk : WF_vars(Carry(v))

-----------------------------------------------------------------------------
(* Properties *)

\* However often a command dies and is run again, whatever stale sheet is
\* saved over the file and whoever resolves reviews meanwhile: a review is
\* resolved through the queue at most once, the way the archive says, and
\* only when a person entered that action for that review.
ResolvedOnce ==
    \A r \in ReviewId :
        LET resolved(a) == archive[r][a] > 0 IN
        /\ archive[r]["approve"] + archive[r]["reject"] <= 1
        /\ resolved("approve") => reviews[r].status = "approved"
        /\ resolved("reject") => reviews[r].status = "rejected"
        /\ \A a \in Acted : resolved(a) => asked[r][a] > 0

ListIsFull(v, t) == Cardinality({r \in clerk[v].pending : TenantOf(r) = t}) = Limit

\* Deferred, failed and untouched rows stay (operating_runbook.md:30), unless
\* the list of their tenant is full: what review-process read from the file it
\* writes back as long as the review is pending, whichever tenant it belongs to
\* and whatever happened to it since.
PendingRowsStay ==
    \A v \in Clerk : Running(v, "write") /\ clerk[v].task = "process" =>
        \A r \in Listed(clerk[v].rows) :
            Pending(r) => Output(v)[r].action # "absent" \/ ListIsFull(v, TenantOf(r))

\* An action that review-process has read is not left in the file to be
\* carried out again: in the end its review is resolved, or the file has the
\* row without the action or, cut at the limit, not at all.
ActionsAreReset ==
    \A r \in ReviewId :
        (\E v \in Clerk : clerk[v].task = "process" /\ clerk[v].rows[r].action \in Acted)
            ~> (~Pending(r) \/ /\ file.kind = "table"
                               /\ file.rows[r].action \in {"absent", "waiting_for_approval"})

=============================================================================

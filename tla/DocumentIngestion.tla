--------------------------- MODULE DocumentIngestion ---------------------------
(***************************************************************************)
(* IngestionService.process (application/ingestion.py) with the model      *)
(* extraction fallback (infrastructure/documents/model_extractor.py) and   *)
(* the invoice tables of the repository (sqlite_repository.py): a document *)
(* is read, its lines are saved, each line is canonicalized, and each      *)
(* decision is linked to its stored line.  Saving is one transaction and   *)
(* so is each link; documents are processed by threads and commands that   *)
(* share the tables, and the same file may arrive twice: its document_id   *)
(* is the hash of its content.                                             *)
(*                                                                         *)
(* What canonicalize decides is the subject of CanonicalizationService;    *)
(* here a decision is known by the text and the partner it was made for.   *)
(***************************************************************************)
EXTENDS ModelCalls

CONSTANTS
    Document,     \* files, by the hash of their content
    Partner,
    LineId,       \* source_line_id
    Text,         \* line descriptions
    None,
    Native,       \* what the parser reads in each file: Unread if it fails or the arithmetic does
    Readings,     \* lines a model may extract, sound or not
    Fallback,     \* a model extractor is configured
    MaxBegun      \* bound: documents begun in all

Reading == [LineId -> Text \cup {None}]

Unread == [l \in LineId |-> None]

ASSUME NoneAssumption == None \notin Text \cup Partner \cup Process
ASSUME NativeAssumption == Native \in [Document -> Reading]
ASSUME ReadingsAssumption == Readings \subseteq [lines : Reading, sound : BOOLEAN]
ASSUME FallbackAssumption == Fallback \in BOOLEAN
ASSUME MaxBegunAssumption == MaxBegun \in Nat

VARIABLES
    documents,    \* invoice_documents: the parser that read the document
    stored,       \* invoice_lines
    job,          \* what each process is doing
    begun,        \* documents begun so far
    savedBy       \* history: the process whose lines are stored

tables == <<documents, stored>>

vars == <<money, tables, job, begun, savedBy>>

Parser == {"absent", "native", "model"}

Line == [text : Text \cup {None},          \* None: no such row
         partner : Partner \cup {None},
         decided : [text : Text \cup {None}, partner : Partner \cup {None}]]

Undecided == [text |-> None, partner |-> None]

NoLine == [text |-> None, partner |-> None, decided |-> Undecided]

Job == [pc       : {"idle", "parse", "extract", "extracting", "save", "lines", "asking",
                    "link", "finished", "failed"},
        document : Document \cup {None},
        partner  : Partner \cup {None},
        parser   : Parser,
        reading  : Reading,
        todo     : SUBSET LineId]        \* lines not canonicalized, or not linked yet

Rest == [pc |-> "idle", document |-> None, partner |-> None, parser |-> "absent",
         reading |-> Unread, todo |-> {}]

TypeOK ==
    /\ MoneyTypeOK
    /\ documents \in [Document -> Parser]
    /\ stored \in [Document -> [LineId -> Line]]
    /\ job \in [Process -> Job]
    /\ begun \in 0..MaxBegun
    /\ savedBy \in [Document -> Process \cup {None}]

Init ==
    /\ MoneyInit
    /\ documents = [d \in Document |-> "absent"]
    /\ stored = [d \in Document |-> [l \in LineId |-> NoLine]]
    /\ job = [w \in Process |-> Rest]
    /\ begun = 0
    /\ savedBy = [d \in Document |-> None]

Doing(w, pc) == job[w].pc = pc

Go(w, next) == job' = [job EXCEPT ![w] = next]

LinesOf(reading) == {l \in LineId : reading[l] # None}

\* The process raises to its caller, or dies; what it has saved stays.
Fail(w) == Go(w, [Rest EXCEPT !.pc = "failed"])

-----------------------------------------------------------------------------
(* Reading the document *)

Begin(w, d, p) ==
    /\ job[w].pc \in {"idle", "finished", "failed"}
    /\ begun < MaxBegun
    /\ begun' = begun + 1
    /\ budget' = [budget EXCEPT ![w] = NoBudgetUsed]
    /\ modelCall' = [modelCall EXCEPT ![w] = NoCall]
    /\ bill' = [bill EXCEPT ![w] = NoBill]
    /\ Go(w, [Rest EXCEPT !.pc = "parse", !.document = d, !.partner = p])
    /\ UNCHANGED <<tables, savedBy>>

ParserSucceeds(w) ==
    /\ Doing(w, "parse")
    /\ Native[job[w].document] # Unread
    /\ Go(w, [job[w] EXCEPT !.pc = "save", !.parser = "native",
                            !.reading = Native[job[w].document]])
    /\ UNCHANGED <<money, tables, begun, savedBy>>

ParserFails(w) ==
    /\ Doing(w, "parse")
    /\ Native[job[w].document] = Unread
    /\ IF Fallback THEN Go(w, [job[w] EXCEPT !.pc = "extract"]) ELSE Fail(w)
    /\ UNCHANGED <<money, tables, begun, savedBy>>

AskForExtraction(w) ==
    /\ Doing(w, "extract")
    /\ ReserveCall(w) \/ RefuseCall(w)
    /\ Go(w, [job[w] EXCEPT !.pc = "extracting"])
    /\ UNCHANGED <<tables, begun, savedBy>>

\* Lines whose arithmetic fails are refused, and with them the document.
Extracted(w) ==
    /\ Doing(w, "extracting")
    /\ Calling(w, "answered")
    /\ \E r \in Readings :
          IF r.sound
            THEN Go(w, [job[w] EXCEPT !.pc = "save", !.parser = "model", !.reading = r.lines])
            ELSE Fail(w)
    /\ Ends(w, "none")
    /\ UNCHANGED <<budget, bill, tables, begun, savedBy>>

\* Every other outcome, an overrun budget included, fails the document.
ExtractionFails(w) ==
    /\ Doing(w, "extracting")
    /\ modelCall[w].pc \in Answers \ {"answered"}
    /\ Fail(w)
    /\ Ends(w, "none")
    /\ UNCHANGED <<budget, bill, tables, begun, savedBy>>

-----------------------------------------------------------------------------
(* save_invoice_document replaces header and lines in one transaction       *)

\* Mutant: a line that is there already keeps the decision linked to it.
FreshLineKept(w, l) ==
    [text |-> job[w].reading[l], partner |-> job[w].partner,
     decided |-> stored[job[w].document][l].decided]

FreshLine(w, l) ==
    [text |-> job[w].reading[l], partner |-> job[w].partner, decided |-> Undecided]

SaveInvoiceDocument(w) ==
    /\ Doing(w, "save")
    /\ LET d == job[w].document
           lines == LinesOf(job[w].reading)
       IN /\ documents' = [documents EXCEPT ![d] = job[w].parser]
          /\ stored' = [stored EXCEPT ![d] =
                          [l \in LineId |-> IF l \in lines THEN FreshLine(w, l) ELSE NoLine]]
          /\ savedBy' = [savedBy EXCEPT ![d] = w]
          /\ Go(w, [job[w] EXCEPT !.pc = "lines", !.todo = lines])
    /\ UNCHANGED <<money, begun>>

-----------------------------------------------------------------------------
(* canonicalize, line by line, all on the budget of the document            *)

\* The line is decided from what is known.
LineIsKnown(w, l) ==
    /\ Doing(w, "lines")
    /\ l \in job[w].todo
    /\ Go(w, [job[w] EXCEPT !.todo = @ \ {l}])
    /\ UNCHANGED <<money, tables, begun, savedBy>>

LineAsksModel(w, l) ==
    /\ Doing(w, "lines")
    /\ l \in job[w].todo
    /\ ReserveCall(w) \/ RefuseCall(w)
    /\ Go(w, [job[w] EXCEPT !.pc = "asking", !.todo = @ \ {l}])
    /\ UNCHANGED <<tables, begun, savedBy>>

\* Mutant: without an answer the lines are gone through again.
LinesAreAskedAgain(w) ==
    /\ Doing(w, "asking")
    /\ modelCall[w].pc \in Answers \ {"broken"}
    /\ Go(w, [job[w] EXCEPT !.pc = "lines",
                            !.todo = IF Calling(w, "answered") THEN @ ELSE LinesOf(job[w].reading)])
    /\ Ends(w, "none")
    /\ UNCHANGED <<budget, bill, tables, begun, savedBy>>

\* Answered, refused, overrun or failed: the line has its decision.
LineIsDecided(w) ==
    /\ Doing(w, "asking")
    /\ modelCall[w].pc \in Answers \ {"broken"}
    /\ Go(w, [job[w] EXCEPT !.pc = "lines"])
    /\ Ends(w, "none")
    /\ UNCHANGED <<budget, bill, tables, begun, savedBy>>

\* canonicalize raises: the connection broke, or a review was resolved under it.
LineFails(w) ==
    /\ \/ Doing(w, "asking") /\ modelCall[w].pc \in Answers
       \/ Doing(w, "lines") /\ job[w].todo # {}
    /\ Fail(w)
    /\ Ends(w, "none")
    /\ UNCHANGED <<budget, bill, tables, begun, savedBy>>

AllDecided(w) ==
    /\ Doing(w, "lines")
    /\ job[w].todo = {}
    /\ Go(w, [job[w] EXCEPT !.pc = "link", !.todo = LinesOf(job[w].reading)])
    /\ UNCHANGED <<money, tables, begun, savedBy>>

-----------------------------------------------------------------------------
\* Mutant: a line that is not there is inserted.
LinkInsertsLine(w, l) ==
    /\ Doing(w, "link")
    /\ l \in job[w].todo
    /\ LET decision == [text |-> job[w].reading[l], partner |-> job[w].partner] IN
       stored' = [stored EXCEPT ![job[w].document][l] =
                     IF @.text = None THEN [text |-> decision.text, partner |-> decision.partner, decided |-> decision]
                     ELSE [@ EXCEPT !.decided = decision]]
    /\ Go(w, [job[w] EXCEPT !.todo = @ \ {l}])
    /\ UNCHANGED <<money, documents, begun, savedBy>>

\* link_invoice_decision updates the row of that document and line, if there
\* is one, whoever stored it.
LinkInvoiceDecision(w, l) ==
    /\ Doing(w, "link")
    /\ l \in job[w].todo
    /\ LET d == job[w].document IN
       stored' = IF stored[d][l].text = None THEN stored
                 ELSE [stored EXCEPT ![d][l].decided =
                         [text |-> job[w].reading[l], partner |-> job[w].partner]]
    /\ Go(w, [job[w] EXCEPT !.todo = @ \ {l}])
    /\ UNCHANGED <<money, documents, begun, savedBy>>

\* Mutant: a link that is still to be made is given up.
FinishUnlinked(w) ==
    /\ Doing(w, "link")
    /\ Go(w, [Rest EXCEPT !.pc = "finished", !.document = job[w].document])
    /\ UNCHANGED <<money, tables, begun, savedBy>>

Finish(w) ==
    /\ Doing(w, "link")
    /\ job[w].todo = {}
    /\ Go(w, [Rest EXCEPT !.pc = "finished", !.document = job[w].document])
    /\ UNCHANGED <<money, tables, begun, savedBy>>

\* The process dies or raises: a locked database, too little text for a model
\* extraction, line identifiers that repeat, and whatever no one catches.
Crash(w) ==
    /\ job[w].pc \notin {"idle", "finished", "failed"}
    /\ Fail(w)
    /\ Ends(w, "none")
    /\ UNCHANGED <<budget, bill, tables, begun, savedBy>>

-----------------------------------------------------------------------------
Carry(w) ==
    \/ ParserSucceeds(w) \/ ParserFails(w)
    \/ AskForExtraction(w) \/ Extracted(w) \/ ExtractionFails(w)
    \/ SaveInvoiceDocument(w)
    \/ \E l \in LineId : LineIsKnown(w, l) \/ LineAsksModel(w, l) \/ LinkInvoiceDecision(w, l)
    \/ LineIsDecided(w) \/ LineFails(w) \/ AllDecided(w) \/ Finish(w)
    \/ Await(w) /\ UNCHANGED <<tables, job, begun, savedBy>>

Next ==
    \E w \in Process :
        \/ \E d \in Document, p \in Partner : Begin(w, d, p)
        \/ Carry(w)
        \/ Crash(w)

Spec == Init /\ [][Next]_vars

\* A process that has begun a document runs on, and so does the provider: it
\* answers, refuses or times out.
FairSpec == Spec /\ \A w \in Process : WF_vars(Carry(w))
-----------------------------------------------------------------------------
(* Properties *)

\* A stored line carries a decision that was made for its own description and
\* partner: what an earlier reading of the document was linked to does not
\* stay behind, and a decision is not linked to the line of another reading.
LinkedLineFits ==
    \A d \in Document, l \in LineId :
        LET line == stored[d][l] IN
        line.decided # Undecided =>
            line.decided = [text |-> line.text, partner |-> line.partner]

\* The parser reads that in the document; only of a document it cannot read a
\* model does, in lines whose arithmetic holds.
ReadAs(d, parser, reading) ==
    \/ parser = "absent" /\ reading = Unread
    \/ parser = "native" /\ reading = Native[d] /\ reading # Unread
    \/ parser = "model" /\ Native[d] = Unread /\ [lines |-> reading, sound |-> TRUE] \in Readings

\* Whatever several processes read in a document, save and link meanwhile: its
\* header and its lines are those of one reading that passed the checks, for one
\* partner, never a mixture of two.
OneReadingStored ==
    \A d \in Document :
        LET reading == [l \in LineId |-> stored[d][l].text] IN
        /\ ReadAs(d, documents[d], reading)
        /\ \A l, m \in LinesOf(reading) : stored[d][l].partner = stored[d][m].partner

\* When a document has been processed to the end and nobody has saved it
\* since, every stored line has its decision.
FinishedIsLinked ==
    \A w \in Process :
        LET d == job[w].document IN
        Doing(w, "finished") /\ savedBy[d] = w =>
            \A l \in LineId : stored[d][l].text # None => stored[d][l].decided # Undecided

\* docs/threat_model.md:48: model calls stop when the shared budget is
\* exhausted.  An answer may overrun the budget, but then neither extraction
\* nor any line begins another call.
BudgetStopsCalls == \A w \in Process : Calling(w, "send") => budget[w].cost <= MaxCost

\* docs/threat_model.md:31: only bounded retry.  Whatever fails, a document
\* costs at most so many requests.
RequestsAreBounded == \A w \in Process : bill[w].requests <= MaxCalls * (MaxRetries + 1)

\* A document that is begun is finished or fails.
DocumentEnds ==
    \A w \in Process : Doing(w, "parse") ~> job[w].pc \in {"finished", "failed"}

=============================================================================

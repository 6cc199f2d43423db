# Invoice canonicalization, in TLA+

This directory is a verification development for the invoice canonicalization
agent: TLA+ modules translated from the Python source, TLC configurations that
check them on small instances, and TLAPS proofs for every value of the
constants. Paths below are relative to the repository; `canonicalization.py:71`
and the like abbreviate `src/invoice_canonicalizer/application/...`.

`PROJECT.json` lists components, runs, mutants (one plausible bug for every
property, which the property must catch), the source lines every definition
stands for, findings, hazards and theorems.

## 1. The system

An invoice document is read into lines; each line description is resolved to a
product of the tenant's catalog. What is known is looked up, what is similar
enough is proposed, what is unknown is sent to a model on a budget; everything
that is not certain becomes a *review*, and only a person's approval turns a
proposal into an alias that later lines find.

| Component | State | Operations | Interacts with |
|---|---|---|---|
| Canonicalization service (`application/canonicalization.py`) | locals of one call | `canonicalize` | catalog store (5 to 8 transactions per call), retriever, budget, model provider |
| Catalog store (`infrastructure/db/sqlite_repository.py`) | products, aliases, decisions, reviews, audit events, invoice documents and lines | one connection and one transaction per method | everybody; processes share the file |
| Review service (`application/reviews.py`) | locals of one action | `apply_action`, `approve`, `reject`, `defer` | catalog store; called from the API, the CLI and the queue |
| Review queue (`application/review_queue.py`, `infrastructure/review_queue/csv_queue.py`) | a CSV file, a JSONL archive, a person's open spreadsheet | `export`, `process` | review service, the file system, the person |
| Document ingestion (`application/ingestion.py`, `documents/model_extractor.py`) | locals of one call | `process` | parsers, model extractor, catalog store, canonicalization |
| Cost budget (`application/budget.py`) | calls and dollars of one document | `reserve_call`, `register_actual_cost` | extraction and every line of the document |
| Model provider (`llm/openai_compatible.py`) | none | one request with bounded retries | an HTTP service that fails, times out and charges |
| Retrieval (`retrieval/hybrid.py`, `semantic.py`) | none | ranking by fused scores | catalog store |
| Review scoring (`review_scoring.py`) | none | priority of a review | queue order, `list_reviews` |
| Extraction quality, number parsing (`extraction_quality.py`, `common.py`, `utils/money.py`) | none | arithmetic checks on Decimals | ingestion |
| Attributes, output guard (`domain/attributes.py`, `security/input_guard.py`) | none | predicates on text | canonicalization |
| HTTP API, MCP server, authentication | none | scope of a caller, dispatch, error mapping | all services |
| Parsers, CLI, factory, configuration, metrics, migrations, scripts | none | text extraction, wiring, development tools | |

### What is hard here

* **No locks.** The repository opens a connection per method. `canonicalize`
  reads, decides, and writes in separate transactions, and other API processes,
  commands and reviewers act between any two of them. Only the partial unique
  index on pending reviews (`sqlite_repository.py:178`) serializes anybody.
  (`process_document` of one API process is `async def` around blocking code,
  so within one process documents are sequential; across processes they are not.)
* **Copies that outlive their origin.** Decisions are cached, copied from review
  rows, answered from memory after other reads, and linked to lines stored by
  someone else; the queue works on a file, and a person on a copy of the file.
* **Crashes and partial failures.** An approval, its audit row, its archive line
  and its row in the file are four writes; a model call sits between staging a
  placeholder and settling it; a retry follows a request that may have been paid.
* **Limits.** One budget for a whole document, checked before a call and
  registered after it; retries per request.

### What makes each component correct

* *Canonicalization*: at most one pending review per unknown and one model call
  per review; a line is counted once; it is answered with a product or handed to
  a human; approved knowledge beats what is cached; flagged text does not reach
  the model; placeholders do not stay unsettled.
* *Store and reviews*: approved knowledge changes only by approving a pending
  review, once; approvals are audited.
* *Queue*: a person's action is carried out once and only if it was entered; no
  pending row is lost; nothing is left in the file to be applied again.
* *Ingestion and budget*: decisions belong to the line they are linked to; a
  document ends; an exhausted budget stops calls; requests are bounded.
* *Retrieval and routing*: what is named without a human is unambiguous and
  contradicts nothing; the order of the catalog's rows does not decide; learning
  an alias does not undo a route.
* *Reading and quality gates*: an accepted reading adds up to what the document
  says, whatever the reader skipped, misread or cut off.
* *Access and urgency*: no caller with a key is told of another tenant or changes
  it; only reviewers resolve; the first reviews of a list are the most urgent.

## 2. The modules

```
CatalogStore                     tables and transactions
 |- CanonicalizationService      workers running canonicalize
 |- ReviewService                reviewers resolving reviews
 |    |- ReviewProofs            typing lemmas, for KnowledgeProofs too     TLAPS
 |    `- ReviewQueue             CSV file, archive, commands, spreadsheet   MCQueue
 |         `- QueueProofs                                                   TLAPS
 `- KnowledgeWorkflow            CanonicalizationService + ReviewService    MCKnowledge
      |- ApprovedKnowledge       abstract specification (INSTANCE)
      `- KnowledgeProofs        types, safety, refinement                   TLAPS
ModelCalls                       budget and provider
 |- DocumentIngestion            documents, lines, links                    MCIngestion
 `- IngestionProofs              (both modules)                             TLAPS
Routing                          scores, conflicts, thresholds: operators
 |- Retrieval                    the search of a growing catalog            MCRetrieval
 `- RoutingProofs                (both modules)                             TLAPS
Amounts                          numbers, quality gates: operators
 |- Reading                      rows of a document, parser or model        MCReading
 `- ReadingProofs                (both modules)                             TLAPS
ReviewRanking                    amounts and priority of review rows
 |- TenantAccess                 callers, roles, tenants, requests          MCAccess
 `- AccessProofs                 (both modules)                             TLAPS
Induction                        for RoutingProofs and ReadingProofs        TLAPS
```

**CatalogStore.** One operator per repository transaction (`InsertReview`,
`RecordOccurrence`, `UpdatePending`, `ApproveWithTarget`, `ApproveAsNew`,
`Reject`, `Save`, `Audit`), each an action on the tables it writes. A `Concept` is a normalized
description within one tenant and partner: `line_hash`, `candidate_key` and the
normalized alias are all functions of it, so it is the key of all three tables.
`everApproved` is a history variable. `DeactivateProduct` is external: queries
test `active`, but nothing in the package clears it.

**CanonicalizationService.** `call[w]` is a worker's call with its program
counter and locals; every action is one repository transaction, one retrieval
or one model call, in the order of `canonicalize`, `_reuse_pending_review`,
`_generate_candidate` and `_abstain`. Scores are left open: any retrievable
product may be above the automatic thresholds, above the proposal thresholds or
below them. A model call returns one of the outcomes the code tells apart
(budget refused, budget overrun, provider error, proposal equal to the top
candidate, new proposal, unsafe proposal). `Abandon` is a process that dies or
raises anywhere.

**ReviewService.** `desk[v]` is a review action in progress: taken up
(through `apply_action`, which reads the review, or through the `/approve` and
`/reject` endpoints, which do not), resolved in one transaction, audited in one
or two more. `waiting_for_approval` does nothing and is left out. The target of
`approve_existing` is read from the row in an earlier transaction; the model
lets it be any product, which includes that one.

**KnowledgeWorkflow.** Puts both on one catalog, with faults and a database
operator, and states the properties.

**ApprovedKnowledge.** What a reader of the README is promised: questions are
asked one at a time per concept, answered once, and an alias changes only in
the step that answers a question, to a product of the catalog. The refinement
mapping forgets workers, desks, decisions, audit and the fields of a review.

**ReviewQueue.** Extends ReviewService with the file, the archive, one `clerk`
per running command, and the person's `sheet`. `process` reads the file, applies
each row through the actions of ReviewService, appends to the archive, lists the
pending reviews of the tenants it noted, truncates the file and writes it.
`Blank` is the file between truncation and the first write; a file without
a header is refused by every later command. Rows are taken in any order, a torn file
holds some of the rows (never half a row), and evidence columns and notes are left out.
`Limit` is the 10,000 of `list_pending` in `export` and `process`: `ListPending` gives
all pending reviews of a tenant, or any `Limit` of them, since which come first depends
on priorities the queue does not keep.

**ModelCalls.** `CostBudget` and the retry loop of the provider. `bill` is
history: requests really sent and money really charged, which the program does
not see when an answer is late or malformed.

**DocumentIngestion.** `process`: parse or extract with a model, save header and
lines in one transaction, canonicalize line by line on one budget, link each decision. A decision
is known by the text and partner it was made for; how it is made is the subject
of CanonicalizationService, and the two are joined only by the budget outcomes. A file
its parser cannot read may be read by the model in another way each time (`Readings`).

**Routing.** Pure operators over scores in millionths: the fusion of lexical,
trigram and semantic similarity with attribute matches (`Fusion`), the penalty
of a contradiction, the extraction of attributes in the order of the
dictionaries, the score of a model's answer and its flaws, and the thresholds
and margins that choose a route. String similarities are tables of the instance. A
score is truncated to a millionth where the code rounds a float to six places or keeps it.

**Retrieval.** One search at a time, row by row over the aliases the query
returned: the loop keeps the best alias of each product, then ranks, cuts off at
`TopK` and routes. Between searches a reviewer approves another alias. The rows
come in any order, since the query states none. Facts of this code that the
properties leave room for: deactivating a rival may turn a proposal into an automatic
resolution; which alias the evidence quotes among equals depends on the order of
rows; with `top_k: 1` the runner-up is cut off before the margin is taken; of two
colours in a text the first of the dictionary counts; an answer of the model that
changes a colour the text states is not flagged for it.

**Amounts.** `parse_decimal` under its two separator conventions, rounding to
cents, and the two gates: lines against subtotal
(`validate_extraction_quality`) and the chain from subtotal to amount due. A
numeral is its groups of digits and the marks between them. `Legible` says what a
partner means by one (one mark between thousands, the other before a fraction);
it is defined by what is written, apart from `ParseDecimal`, and compared with it.

**Reading.** One document at a time, one row or cell per step, in five layouts
(delimited, sheet, JSON, PDF rows, PDF columns), by the parser and then, if it
raises `DocumentExtractionError` or the gate fails, by a model that may answer any
lines (`Answers`): rows left out, repeated, written anew or invented, with any subtotal. `page` is what the document means and says, `reader` what was
made of it. `RowAssumption` says what a row of a page is: cells, each of which is
empty, without digits or a numeral, and in a clean product row is legible with the
amount that is meant. Facts the properties are stated around: a lone mark before three
digits is a decimal mark (1,234 is 1.234); a PDF description that ends in a
number is read into the quantity, or if that is negative takes its place, while the
quantity is read into the price after it (`ThreeOf`); an item that begins with a stop word
("shipping box") ends the table; the cells of a column run out of step after one
that is missing; a `ValueError` escapes from a PDF row, from a subtotal row and
from a JSON subtotal, and such a document is never offered to the model; lines
a model reads from CSV or JSON are compared only with the subtotal the model
gives; a subtotal of 0 counts as absent, and lines without any total pass with a
warning. The header row of a PDF is written here without anything behind it; one with
more text in its line is not modelled.

**ReviewRanking.** What a review row says of its urgency (lines, amounts per
currency, displayed amount, score, priority) and the transactions that change it.
`create_or_update_review`, `record_review_occurrence` and `update_pending_review`
compute the priority each in its own way. `Rank` stands for `review_priority_score`,
of which only monotonicity is assumed, over the lines and sums there can be
(`RankAssumption`, `MaxAmount`). After resolution only
status and tenant are kept.

**TenantAccess.** Several requests at once to the HTTP API, to `/mcp` and to an
MCP server on stdio, by callers with keys, without authentication, or unbound.
A request of several transactions (`canonicalize`, `/action`) is a record with a
program counter; one of a single transaction is one step. What is refused
changes nothing and takes no step. The partner of a line is folded into its
concept, so the model lets an approval name any product of the tenant. The
decision cache and deactivation are in KnowledgeWorkflow and left out here;
headers and `_meta` of MCP messages are "well formed, or refused".

## 3. The runs

Every run but `access` sets `CHECK_DEADLOCK FALSE`: lines, commands and documents
run out and the system then really stops; in `access` a caller can always ask to read.
Names of bounds: `MaxLines`, `MaxFaults`, `MaxEdits`, `MaxCommands`, `MaxBegun`,
`MaxChanges`, `MaxRows` (all in guards), `MaxOwed` (documents considered), `MaxAmount`
(of a line), `Widths` (digits of a group: five, so that two groups read as one have
ten), and the sizes of `ReviewId`, `Product`. History counters are bounded by these.

| Run | Checks | Instance |
|---|---|---|
| `workflow` | `TypeOK`, `OnePendingPerConcept`, `OneModelCallPerReview`, `LineCountedOnce`, `NoUnownedLine` | 2 workers, 1 reviewer, 2 lines of one description, 2 reviews, 1 product, 1 fault |
| `history` | `ApprovedKnowledgeWins`, `FlaggedTextStaysHome`, `DecisionFitsReview`, `KnowledgeIsReviewed` (refinement), `PlaceholderSettles`, `ApprovalReachesTrail` | 1 worker, 1 reviewer, 2 lines (unknown, flagged, known), 2 products, a deactivation, fairness, no faults |
| `queue` | `QueueTypeOK`, `ResolvedOnce`, `PendingRowsStay` | 2 commands at a time of 3, 2 tenants, 2 reviews of 3 descriptions (2 of one tenant), lists of 1 review, 2 edits, 1 fault |
| `queue_reset` | `ActionsAreReset` | 1 command at a time of 2, lists of 1 review, an API reviewer, fairness, no faults |
| `ingest` | `TypeOK`, `LinkedLineFits`, `BudgetStopsCalls`, `RequestsAreBounded`, `DocumentEnds` | documents one after another, 2 partners, model fallback, fairness |
| `ingest_pair` | `OneReadingStored`, `FinishedIsLinked` | 2 processes on one file that only a model can read, differently each time, 2 partners, 4 attempts |
| `routing` | `TypeOK`, `LoopFindsBest`, `RouteIgnoresRowOrder`, `NamedProductIsUnambiguous`, `RivalsOnlyHinder`, `LearningKeepsRoutes` | 3 products, 4 wordings with the similarities the program computes for them, every seed catalog, 1 approval |
| `reading` | `TypeOK`, `NothingIsLost`, `PlainAmountsAreRead`, `TotalsChain`, `ReadingEnds` | every document of up to 3 rows (and the header row of a PDF) in 5 layouts, amounts in either convention, damaged or smudged; a model that answers some of the products, one of them twice, one more, or all in one convention; fairness |
| `access` | `TypeOK`, `TenantsStayApart`, `UrgentFirst`, `OnlyReviewersResolve`, `LinesOnlyRaise` | 2 callers at once, a processor's key of one tenant, a reviewer's of the other, both unbound callers, 2 lines, 2 reviews, 2 currencies and a credit |

Why the bounds are enough. The races in the service are between two calls or a
call and a reviewer on one concept; two reviews are needed to have one resolved
and one staged again, and two lines to have a decision cached, knowledge changed
and the concept asked for once more. `workflow` has two workers; `history` has one, with
more kinds of lines. `c2` is seeded with `p1` so that retrieval has a candidate. A
new product is approved in `history` and the queue runs, which have a second one.
In the queue, two commands overlap while a third follows a crash, and two edits
give two different actions for one review or one for each. With a list of one review a
tenant that has two of them exceeds it, as 10,001 exceed 10,000. A document has two lines, the budget two
or three calls and one retry each, which reaches refusal, overrun and exhaustion.
The four wordings of `routing` are two of one product in different order and
number, one of a rival colour and one between them: with them every route and
every tie occurs. The three rows of `reading` let a subtotal row stand before, among and
behind products and two rows be lost with errors that cancel. In `access` one
review already waits, so that a line joins it while the other line stages one and
waits for the model. What the bounds leave out (longer histories, more actors, longer
documents, larger catalogs) is what the proofs cover: every safety invariant and every
action property of the runs is a theorem.

Fairness. A call of `canonicalize`, a review action, a queue command and a
document run are straight-line code with finite loops, so weak fairness of the
next step of each (`Proceed`, `ProceedReview`, `Carry`) says only that the
process is scheduled and that the provider answers, refuses or times out (the
HTTP client has a timeout). Nobody is obliged to send a line, take up a review,
start a command or a document. A reader of `reading` is a function call, so its
next step is weakly fair; where a model is asked, it answers or the reader refuses,
and either ends the reading, so fairness need only name the refusal. `history` and `queue_reset` have no faults because
after a crash their properties are false: nothing in the code repairs a
placeholder, an audit row or a file that was left behind (section 5).

## 4. The proofs

Every module's theorems hold for arbitrary sets and bounds under its named
assumptions. For KnowledgeWorkflow: `None` is no concept, product or review; the
seed maps concepts to products or `None`; incoming lines, verdicts and
deactivations are subsets of the obvious sets; bounds are naturals. For Routing
and Retrieval: similarities lie between 0 and 1, thresholds are naturals, weights and the
scores of a reranker any integers, products a finite set of numbers (their order breaks ties). For TenantAccess: every key has a tenant and a role, seeded aliases
lead to products of their tenant, a product and a review never have one identifier,
currencies are finitely many and amounts at most `MaxAmount`, and (for `LinesRaise` and
`AccessTypes` only) `Rank` is monotonic. For Amounts and Reading: what is absent or
malformed is no number, bounds are naturals, and `RowAssumption`. How a partner writes a
subtotal, and what else stands beside it, is arbitrary.
For DocumentIngestion: limits are naturals, costs and estimates sets of naturals, `None` is no text, partner or process.

* **KnowledgeProofs**: `TypeInvariant` (`TypeInv`) and `TypeCorrect`. `TypeOK` is
  not inductive: a step uses the review, product or target read several steps
  earlier, so `TypeInv` adds what a call (`SoundCall`) and a reviewer
  (`SoundDesk`) have in hand at each program counter.
  Then safety, in this order:
  * `LocallyCorrect` (`LocalInv`): how far a call has counted, whether flagged
    text is still on its way, which review is the call's own claim. It gives
    `CountedOnce` and `FlaggedStaysHome`.
  * `StepMovesReviews`: the ways a step may change the review table. It
    gives `OnePending` and `RowsCorrect` (`RowInv`).
  * `KnowledgeKept` (`AliasInv`): products are never removed, an alias points at
    a product approved for it; the monotonicity lemma `StepGrowsKnowledge` is what lets facts read
    earlier survive the steps of others.
  * `ClaimsCorrect` (`ClaimInv`): a claim is held by one call and not charged
    before the model is called. It gives `OneModelCall`, whose own statement is
    far from inductive: a second worker could hold the same claim.
  * `AllBacked` (`BackedInv`): what every decision rests on, in the cache and in
    a worker's hands, and what a worker that began after an approval still knows
    at each step. It gives `NoneUnowned`, `DecisionsFit` and `ApprovedWins`.
  * `Refinement`: initial states map to initial states and every step to a step
    or a stutter of ApprovedKnowledge.

* **QueueProofs**, by the invariant `QueueInv`. `ResolvedOnce` alone is not
  inductive: a command archives an outcome steps after it took effect. `Ledger`
  adds that while such an outcome is owed nothing is archived for its review and no
  other command owes one; it holds because an action takes effect only on a
  pending review, and a resolved one stays so (`DeskStep`, `ReviewsMove`).
  `FilesFit` and `CommandFits` follow the rows from sheet to file to command: each
  is of a review, and its action was entered by a person. `Tracked` gives `RowsStay`: a
  row that is read and pending is listed again, or its tenant still to be and nothing of
  that tenant listed yet, or the list of its tenant is full (`Listing`). The last case is
  the code's (section 5); `RowsStay` holds for every `Limit` and does not deny it. The
  lemmas about reviewers, shared with KnowledgeProofs, are in **ReviewProofs**.
* **RoutingProofs**, first about the operators, whatever the similarities:
  `ScoreBounds`, `ContradictionIsPenalised` (a product that contradicts the text
  scores at most 35 in 100), `ContradictionNeverResolves` (the policy then gives it
  at most 25 in 100, far below the threshold of 92), `FlagsLowerTheScore`. Then about Retrieval, by the
  invariant `SearchIsSound`: while the loop is at row *i* it holds, for each
  product met so far, the best score of its rows up to *i*; the routes are
  functions of that. It gives `RetrievalTypes`, `RetrievalFindsBest`,
  `RetrievalIgnoresRowOrder` and `RetrievalIsUnambiguous`.
  Last, what one more alias changes. A text is resolved if some ranking resolves it, so
  first `RankingExists`: every finite table of scores can be ranked (one product
  leads, the rest is ranked by induction over the set).
  Then `MarginOfFirst`: the margin of the leader is its distance to the best of the
  others, or its own score if it is alone or the cut-off is 1. A new alias raises the
  score of one product and no other, so a rival's alias can only shrink the leader's
  margin (`RivalHindersAlways`), and the leader's own can only widen it
  (`LearningKeepsAlways`). Both hold for every cut-off, 1 included.
* **AccessProofs**, by the invariant `Access`. Its parts: `RowsAgree`
  (a waiting row shows what its amounts come to, and its priority is that of its
  lines), `AliasesAtHome`, `AnswerAtHome`, and `RequestsScoped`: what a request has
  read in earlier steps (its line, product and review) still belongs to the tenant
  it was admitted for, and one that is about to resolve was admitted as a
  reviewer. The last part is what makes it inductive: between the steps other
  requests insert, resolve and approve, and `RowsStay` and `ProductsStay` say that
  none of them moves a row or a product to another tenant. It gives `Separation`,
  `ReviewersResolve` and `Ranking`. No property of `Rank` is used: agreement of stored
  and true priority is enough. `LinesRaise` and `AccessTypes` do use monotonicity, and so
  need the numbers to stay where `Rank` is known: `Numbered` says that a line is carried
  by one request or counted in a row, never both, so the lines of a row are at most those
  admitted and no longer carried (`Room`), and its amounts at most `MaxAmount` for each.
  `ShownGrows`: the amount a row displays grows with each line, unless the line brings
  its second currency.
* **IngestionProofs**, by the invariant `Ingestion`. `MoneySound` says what a
  document's requests are covered by: each reserved call before the one under way
  pays for at most `MaxRetries + 1`, and the one under way for the attempts it has
  made, which makes `RequestsBounded` inductive; it also keeps a call from being
  sent past the cost limit (`BudgetStops`). `JobsSound` says which lines are
  linked by now, for a process whose rows are still the stored ones (`LinkedFor`):
  the lines of its reading that are no longer to do. Others may replace the
  rows, which ends the claim, or link the same lines, which keeps it
  (`FinishLinks`). `OneReading`: a row is linked in place and never inserted, so header and
  lines stay those that one process saved together. `OnePartnerFits` bounds the finding of run `ingest_mixed`:
  if there is one partner, and each file is read by its parser wherever a model
  could be asked instead, any number of processes may work on one file and every
  link still fits its line. `ApartFits` bounds it from the other side: for any
  partners and whatever a model reads, every link fits as long as no two processes
  have one file in hand (`Apart`), since the rows of a process's file are then those
  it saved itself (`OwnRows`). `AloneFits` is the case of one process, which run
  `ingest` checks. Nothing in the code keeps processes apart, so for several partners and
  processes on one file the property stays false (`ingest_mixed`).
* **ReadingProofs**, first about what the operators return. `NumberIsNatural`,
  `SumIsInteger` and `FlattenIsTyped` are about folds: that the recursive function
  behind a fold exists and what it returns follow from `FoldExists` and `FoldHolds`.
  `ParseIsTyped`: `parse_decimal` returns an amount or raises, for every numeral and for
  two that were read as one. `LegibleIsMeant`: a legible number is parsed as it is meant,
  whatever the convention and the number of its groups, unless its only mark stands
  before three digits. Then the invariant `Inv`: `DeclaredAsFound` remembers that the lines were
  compared with the subtotal the document shows (`Begin` reads it, several steps
  before the gate uses it), `LinesMeant` that each line says what its row means, and
  `TotalsChecked` where the financial verdict comes from. It gives `ReadingTypes`,
  `PlainAmounts`, `NothingLost` (a clear subtotal is the declared one, the gate lets a
  cent pass and rounding half a cent) and `TotalsAreAChain` (by adding up the checks of the
  chain, one case for each link that is not stated).
* **Induction**: a set of naturals that is not empty has a least element
  (`WFMin` of the library, which takes sets and no operators), hence induction over
  naturals and finite sets stated with a *set* of what the claim holds for, and the
  existence and typing of folds.

Only model-checked: the liveness properties (`PlaceholderSettles`,
`ApprovalReachesTrail`, `ActionsAreReset`, `DocumentEnds`, `ReadingEnds`; fairness and
`ENABLED` are beyond the prover). Every safety invariant and action property of the
passing runs is stated by a theorem.

## 5. Where documentation and code part

Three runs expect a violation; each trace is a behaviour of the code.

* `stale` / `NewestApprovalWins`: exact-alias decisions are cached without a
  review and answered before the alias is read, so a re-pointed alias is never
  seen for that description (`canonicalization.py:71`, `docs/scalability.md:16`).
* `second_proposal` / `OneProposalPerUnknown`: the claim protects an unknown only
  while its review is pending; a worker that looked before staging and inserts
  after approval pays for a second proposal (`docs/threat_model.md:29`).
* `ingest_mixed` / `LinkedLineFits`: the same file processed for two partners at
  once links one partner's decision to the other's line
  (`sqlite_repository.py:328`).

Plain consequences of several writes without a transaction, visible in the
models and listed as hazards: a crash leaves an approval without audit row or
archive line, a placeholder pending for good, a queue file without a header, a
deferral that the next command carries out again. `review-process` writes back
at most 10,000 pending reviews of a tenant, the most urgent (`review_queue.py:75`): with
a larger backlog others that were in the file leave it, a failed action among them, and
only the output of the command tells of it, although :68 says that failed actions must
never be dropped silently. Money charged for failed, late
or malformed answers is not registered (`bill` in ModelCalls exceeds the budget's
account).

## 6. Not modelled, and the plan

Left out for good: text extraction (third-party libraries, OCR, the unpacking of
files), parties, dates and header fields of a document, CLI and wiring, metrics,
migrations no code uses, scripts, the fixture provider and the prompt registry
(stateless lookups), file validation and redaction (functions of bytes and text),
the sums of `summary`, and the event loop: `process_document` and `/mcp` are
coroutines around blocking code, which delays other requests and reorders none.
Abstracted: text, evidence and prompts; tenants and partners in the core (one
scope, since every query carries both; TenantAccess checks that it does); the
language of an alias; identifiers of decisions; audit events as a set.

Next, in this order:

1. Compose Routing with CanonicalizationService: the open choice of a route in
   SearchAutoResolves and its neighbours refined by the routes of Retrieval.
2. Languages of aliases in CatalogStore: an approval writes the row for `en`, the
   lookup ignores the language.
3. `GET /v1/documents` as a reader of two transactions (`api/app.py:180`).
4. ReviewQueue composed with KnowledgeWorkflow, so that a review's occurrences
   change under the file.

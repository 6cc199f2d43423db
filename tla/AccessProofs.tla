---------------------------- MODULE AccessProofs ----------------------------
(***************************************************************************)
(* What TenantAccess guarantees for every set of tenants, keys, callers,   *)
(* lines, amounts and scores, and for every function that ranks reviews    *)
(* (where it says so, every one that is monotone).                         *)
(***************************************************************************)
EXTENDS TenantAccess, TLAPS, FiniteSetTheorems

-----------------------------------------------------------------------------
(* The rows.  Priorities are whatever Rank yields. *)

Ranks == {0} \cup {Rank(n, v, s) : n \in Nat, v \in Nat, s \in Score}
Entry == [status : {"absent", "pending", "resolved"}, tenant : OrNone(Tenant),
          concept : OrNone(Concept), lines : Nat, amounts : [Currency -> Nat],
          shown : Nat, currency : Currency \cup {None, "MIXED"}, score : Score,
          priority : Ranks]

\* A row shows what its amounts come to, and its priority is that of its lines.
Agrees(row) ==
    /\ row.shown = Shown(row.amounts)
    /\ row.currency = ShownCurrency(row.amounts)
    /\ row.priority = Rank(row.lines, Shown(row.amounts), row.score)

\* Amounts of one currency are shown, and none when there are several.
LEMMA ShownBounds ==
    ASSUME NEW amounts \in [Currency -> Nat]
    PROVE  /\ Shown(amounts) \in Nat
           /\ ShownCurrency(amounts) \in Currency \cup {None, "MIXED"}
           /\ ShownCurrency(amounts) = "MIXED" => Shown(amounts) = 0
  <1> DEFINE stated == Stated(amounts)
             only == CHOOSE k \in stated : TRUE
  <1>1. stated \subseteq Currency
    BY DEF Stated
  <1>2. ASSUME Cardinality(stated) = 1 PROVE only \in stated
    <2>1. stated # {}
      BY <1>2, FS_EmptySet
    <2> QED BY <2>1
  <1>3. Shown(amounts) \in Nat
    BY <1>1, <1>2 DEF Shown
  <1>4. ShownCurrency(amounts) \in Currency \cup {None, "MIXED"}
    BY <1>1, <1>2 DEF ShownCurrency
  <1>5. ASSUME ShownCurrency(amounts) = "MIXED" PROVE Shown(amounts) = 0
    <2>1. "MIXED" \notin Currency /\ None # "MIXED"
      BY CurrencyAssumption
    <2>2. Cardinality(stated) # 1
      BY <1>1, <1>2, <1>5, <2>1 DEF ShownCurrency
    <2> QED BY <2>2 DEF Shown
  <1> QED BY <1>3, <1>4, <1>5

\* An absolute amount is a natural.
LEMMA AbsBounds == ASSUME NEW amount \in Int PROVE Abs(amount) \in Nat
  BY DEF Abs

\* Adding the amount of a line keeps the totals naturals.
LEMMA AddedBounds ==
    ASSUME NEW amounts \in [Currency -> Nat], NEW line \in Line
    PROVE  Added(amounts, line) \in [Currency -> Nat]
  <1>1. line.currency \in Currency /\ line.amount \in Int
    <2>1. line.currency \in Currency /\ line.amount \in -MaxAmount .. MaxAmount
      BY AmountAssumption DEF Line
    <2> QED BY <2>1, AmountAssumption
  <1>2. Abs(line.amount) \in Nat
    BY <1>1, AbsBounds
  <1> QED BY <1>1, <1>2 DEF Added

\* Ranking a row makes it agree with its amounts and changes nothing else.
LEMMA RankedAgrees ==
    ASSUME NEW row \in Entry
    PROVE  /\ Ranked(row) \in Entry
           /\ Agrees(Ranked(row))
           /\ Ranked(row).status = row.status
           /\ Ranked(row).tenant = row.tenant
  <1>1. row.amounts \in [Currency -> Nat] /\ row.lines \in Nat /\ row.score \in Score
    BY DEF Entry
  <1>2. /\ Shown(row.amounts) \in Nat
        /\ ShownCurrency(row.amounts) \in Currency \cup {None, "MIXED"}
    BY <1>1, ShownBounds
  <1>3. Rank(row.lines, Shown(row.amounts), row.score) \in Ranks
    BY <1>1, <1>2 DEF Ranks
  <1> DEFINE ranked == [row EXCEPT !.shown = Shown(row.amounts),
                                   !.currency = ShownCurrency(row.amounts),
                                   !.priority = Rank(row.lines, Shown(row.amounts), row.score)]
  <1>4. Ranked(row) = ranked
    BY DEF Ranked
  <1>5. ranked \in Entry
    BY <1>2, <1>3 DEF Entry
  <1>6. /\ ranked.shown = Shown(row.amounts) /\ ranked.currency = ShownCurrency(row.amounts)
        /\ ranked.priority = Rank(row.lines, Shown(row.amounts), row.score)
        /\ ranked.amounts = row.amounts /\ ranked.lines = row.lines /\ ranked.score = row.score
        /\ ranked.status = row.status /\ ranked.tenant = row.tenant
    BY DEF Entry
  <1> QED BY <1>4, <1>5, <1>6 DEF Agrees

\* The absent row is an entry of the table.
LEMMA NoRowIsEntry == NoRow \in Entry
  <1>1. NoAmounts \in [Currency -> Nat]
    BY DEF NoAmounts
  <1>2. Placeholder \in Score
    BY ScoreAssumption
  <1> QED BY <1>1, <1>2 DEF NoRow, Entry, Ranks, OrNone

\* A row that is inserted shows what its first line comes to.
LEMMA NewRowAgrees ==
    ASSUME NEW line \in Line, NEW score \in Score
    PROVE  /\ NewRow(line, score) \in Entry
           /\ Agrees(NewRow(line, score))
           /\ NewRow(line, score).status = "pending"
           /\ NewRow(line, score).tenant = line.tenant
  <1> DEFINE row == [NoRow EXCEPT !.status = "pending", !.tenant = line.tenant,
                         !.concept = line.concept, !.lines = 1, !.score = score,
                         !.amounts = Added(NoAmounts, line)]
  <1>1. Added(NoAmounts, line) \in [Currency -> Nat]
    BY AddedBounds DEF NoAmounts
  <1>2. line.tenant \in Tenant /\ line.concept \in Concept
    BY DEF Line
  <1>3. row \in Entry /\ row.status = "pending" /\ row.tenant = line.tenant
    BY <1>1, <1>2, NoRowIsEntry DEF Entry, OrNone
  <1>4. NewRow(line, score) = Ranked(row)
    BY DEF NewRow
  <1> HIDE DEF row
  <1> QED BY <1>3, <1>4, RankedAgrees

-----------------------------------------------------------------------------
(* Steps on the rows *)

RowsAgree ==
    /\ rows \in [ReviewId -> Entry]
    /\ \A r \in ReviewId : Waits(r) => Agrees(rows[r])

\* A row that exists keeps its tenant.
RowsStay ==
    \A r \in ReviewId : rows[r].status # "absent" =>
        rows'[r].status # "absent" /\ rows'[r].tenant = rows[r].tenant

\* What waits for a reviewer goes on waiting.
StillWaiting == \A r \in ReviewId : Waits(r) => rows'[r].status = "pending"

\* Without rows there is nothing to disagree with.
LEMMA RankingInitAgrees == RankingInit => RowsAgree
  <1> SUFFICES ASSUME RankingInit PROVE RowsAgree
    OBVIOUS
  <1>1. ASSUME NEW r \in ReviewId
        PROVE  rows[r] \in Entry /\ (Waits(r) => Agrees(rows[r]))
    <2>1. rows[r] = IF Waiting[r] = None THEN NoRow ELSE NewRow(Waiting[r], Placeholder)
      BY DEF RankingInit
    <2>2. CASE Waiting[r] = None
      <3>1. NoRow.status = "absent"
        BY DEF NoRow
      <3> QED BY <2>1, <2>2, <3>1, NoRowIsEntry DEF Waits
    <2>3. CASE Waiting[r] # None
      <3>1. Waiting[r] \in Line /\ Placeholder \in Score
        BY <2>3, WaitingAssumption, ScoreAssumption
      <3> QED BY <2>1, <2>3, <3>1, NewRowAgrees
    <2> QED BY <2>2, <2>3
  <1>2. DOMAIN rows = ReviewId /\ rows = [r \in DOMAIN rows |-> rows[r]]
    BY DEF RankingInit
  <1> QED BY <1>1, <1>2 DEF RowsAgree

\* One row changes, to an entry that agrees with its amounts.
LEMMA RowStep ==
    ASSUME RowsAgree, NEW r \in ReviewId, NEW entry \in Entry,
           rows' = [rows EXCEPT ![r] = entry],
           entry.status = "pending" => Agrees(entry)
    PROVE  /\ RowsAgree'
           /\ rows'[r] = entry
           /\ \A x \in ReviewId \ {r} : rows'[x] = rows[x]
  <1>1. rows \in [ReviewId -> Entry]
    BY DEF RowsAgree
  <1>2. rows' \in [ReviewId -> Entry]
    BY <1>1
  <1>3. rows'[r] = entry /\ \A x \in ReviewId \ {r} : rows'[x] = rows[x]
    BY <1>1
  <1>4. \A x \in ReviewId : rows'[x].status = "pending" => Agrees(rows'[x])
    BY <1>3 DEF RowsAgree, Waits
  <1> QED BY <1>2, <1>3, <1>4 DEF RowsAgree, Waits

\* Inserting a row keeps rows in agreement and moves none.
LEMMA InsertStep ==
    ASSUME RowsAgree, NEW r \in ReviewId, NEW line \in Line, NEW score \in Score,
           InsertReview(r, line, score)
    PROVE  /\ RowsAgree' /\ RowsStay /\ StillWaiting
           /\ rows'[r].status = "pending" /\ rows'[r].tenant = line.tenant
  <1>1. /\ NewRow(line, score) \in Entry /\ Agrees(NewRow(line, score))
        /\ NewRow(line, score).status = "pending"
        /\ NewRow(line, score).tenant = line.tenant
    BY NewRowAgrees
  <1>2. rows' = [rows EXCEPT ![r] = NewRow(line, score)] /\ rows[r].status = "absent"
    BY DEF InsertReview
  <1>3. /\ RowsAgree' /\ rows'[r] = NewRow(line, score)
        /\ \A x \in ReviewId \ {r} : rows'[x] = rows[x]
    BY <1>1, <1>2, RowStep
  <1> QED BY <1>1, <1>2, <1>3 DEF RowsStay, StillWaiting, Waits

\* Counting a line on a row that waits keeps rows in agreement.
LEMMA RecordStep ==
    ASSUME RowsAgree, NEW r \in ReviewId, NEW line \in Line,
           Waits(r), RecordOccurrence(r, line)
    PROVE  RowsAgree' /\ RowsStay /\ StillWaiting
  <1> DEFINE more == [rows[r] EXCEPT !.lines = @ + 1, !.amounts = Added(@, line)]
  <1>1. rows[r] \in Entry /\ rows[r].status = "pending"
    BY DEF RowsAgree, Waits
  <1>2. Added(rows[r].amounts, line) \in [Currency -> Nat] /\ rows[r].lines + 1 \in Nat
    BY <1>1, AddedBounds DEF Entry
  <1>3. more \in Entry /\ more.status = "pending" /\ more.tenant = rows[r].tenant
    BY <1>1, <1>2 DEF Entry
  <1>4. rows' = [rows EXCEPT ![r] = Ranked(more)]
    BY DEF RecordOccurrence
  <1> HIDE DEF more
  <1>5. /\ Ranked(more) \in Entry /\ Agrees(Ranked(more))
        /\ Ranked(more).status = "pending" /\ Ranked(more).tenant = rows[r].tenant
    BY <1>3, RankedAgrees
  <1>6. /\ RowsAgree' /\ rows'[r] = Ranked(more)
        /\ \A x \in ReviewId \ {r} : rows'[x] = rows[x]
    BY <1>4, <1>5, RowStep
  <1> QED BY <1>1, <1>5, <1>6 DEF RowsStay, StillWaiting, Waits

\* A proposal leaves the amounts as they are; for a mixed currency 0 is shown.
LEMMA UpdateStep ==
    ASSUME RowsAgree, NEW r \in ReviewId, NEW score \in Score,
           Waits(r), UpdatePending(r, score)
    PROVE  RowsAgree' /\ RowsStay /\ StillWaiting
  <1> DEFINE shown == Shown(rows[r].amounts)
             entry == [rows[r] EXCEPT !.score = score,
                                      !.priority = Rank(rows[r].lines, shown, score)]
  <1>1. rows[r] \in Entry /\ rows[r].status = "pending" /\ Agrees(rows[r])
    BY DEF RowsAgree, Waits
  <1>2. rows[r].amounts \in [Currency -> Nat] /\ rows[r].lines \in Nat
    BY <1>1 DEF Entry
  <1>3. (IF rows[r].currency = "MIXED" THEN 0 ELSE rows[r].shown) = shown
    BY <1>1, <1>2, ShownBounds DEF Agrees
  <1>4. shown \in Nat
    BY <1>2, ShownBounds
  <1> HIDE DEF shown
  <1>5. Rank(rows[r].lines, shown, score) \in Ranks
    BY <1>2, <1>4 DEF Ranks
  <1>6. /\ entry \in Entry
        /\ entry.status = "pending" /\ entry.tenant = rows[r].tenant
        /\ entry.score = score /\ entry.priority = Rank(rows[r].lines, shown, score)
        /\ entry.shown = rows[r].shown /\ entry.currency = rows[r].currency
        /\ entry.amounts = rows[r].amounts /\ entry.lines = rows[r].lines
    BY <1>1, <1>5 DEF Entry
  <1>7. Agrees(entry)
    BY <1>1, <1>6 DEF Agrees, shown
  <1>8. rows' = [rows EXCEPT ![r] = entry]
    BY <1>1, <1>3 DEF UpdatePending, RowsAgree
  <1>9. /\ RowsAgree' /\ rows'[r] = entry
        /\ \A x \in ReviewId \ {r} : rows'[x] = rows[x]
    BY <1>6, <1>7, <1>8, RowStep
  <1> QED BY <1>1, <1>6, <1>9 DEF RowsStay, StillWaiting, Waits

\* Resolving a row keeps the others, and its tenant.
LEMMA ResolveStep ==
    ASSUME RowsAgree, NEW r \in ReviewId, Resolve(r)
    PROVE  RowsAgree' /\ RowsStay /\ rows'[r].tenant = rows[r].tenant
  <1> DEFINE entry == [NoRow EXCEPT !.status = "resolved", !.tenant = rows[r].tenant]
  <1>1. rows[r].tenant \in OrNone(Tenant)
    BY DEF RowsAgree, Entry
  <1>2. entry \in Entry /\ entry.status = "resolved" /\ entry.tenant = rows[r].tenant
    BY <1>1, NoRowIsEntry DEF Entry
  <1>3. rows' = [rows EXCEPT ![r] = entry]
    BY DEF Resolve
  <1>4. /\ RowsAgree' /\ rows'[r] = entry
        /\ \A x \in ReviewId \ {r} : rows'[x] = rows[x]
    BY <1>2, <1>3, RowStep
  <1> QED BY <1>2, <1>4 DEF RowsStay

\* The stored order is the order of what has arrived.
LEMMA AgreementIsUrgentFirst == RowsAgree => UrgentFirst
  <1> SUFFICES ASSUME RowsAgree, NEW tenant \in Tenant, NEW limit \in 1..Cardinality(ReviewId),
                      NEW S \in Listings(tenant, limit), NEW p \in S, NEW q \in ReviewId \ S,
                      Waits(q), rows[q].tenant = tenant
               PROVE  ~(Urgency(q) > Urgency(p))
    BY DEF UrgentFirst
  <1>1. p \in ReviewId /\ Waits(p) /\ ~Before(q, p)
    BY DEF Listings
  <1>2. rows[p].priority = Urgency(p) /\ rows[q].priority = Urgency(q)
    BY <1>1 DEF RowsAgree, Agrees, Urgency
  <1> QED BY <1>1, <1>2 DEF Before

-----------------------------------------------------------------------------
(* Callers and the scope of a request *)

\* Whoever gets in has the role of the endpoint and acts for one tenant, that
\* of its key if it has one.
LEMMA AdmittedScope ==
    ASSUME NEW at, NEW a \in Admitted(at)
    PROVE  /\ a.tenant \in Tenant /\ a.tenant # None
           /\ a.by \in Principal
           /\ a.by.tenant \in {None, a.tenant}
           /\ MayUse(a.by, at)
  <1>1. a \in [by : Callers, tenant : Tenant] /\ MayUse(a.by, at)
    BY DEF Admitted
  <1>2. a.by \in Principal
    <2>1. \A token \in Token : Keys[token] \in Principal
      BY KeysAssumption DEF Principal, OrNone
    <2>2. Disabled \in Principal /\ Host \in Principal
      BY DEF Disabled, Host, Principal, OrNone
    <2> QED BY <1>1, <2>1, <2>2 DEF Callers
  <1>3. PICK supplied \in OrNone(Tenant) : ResolveTenant(a.by, supplied) = a.tenant
    BY DEF Admitted
  <1>4. a.tenant \in Tenant /\ a.tenant # None
    BY <1>1, NoneAssumption
  <1>5. a.by.tenant \in {None, a.tenant}
    BY <1>3, <1>4 DEF ResolveTenant
  <1> QED BY <1>1, <1>2, <1>4, <1>5

\* The endpoints that resolve reviews admit reviewers only.
LEMMA ReviewersOnly ==
    ASSUME NEW by, NEW at \in {"approve", "reject", "action"}, MayUse(by, at)
    PROVE  "reviewer" \in by.roles
  BY DEF MayUse, Tools, RoleFor, Reviewing

\* A request under way works on what belongs to its tenant.
Scoped(q) ==
    q.pc # "idle" =>
        /\ q.tenant \in Tenant
        /\ q.by.tenant \in {None, q.tenant}
        /\ q.pc \notin {"approve", "reject"} =>
              /\ q.line \in Line /\ q.line.tenant = q.tenant
              /\ q.product # None => products[q.product] = q.tenant
        /\ q.pc \in {"record", "model", "approve", "reject"} =>
              q.review \in ReviewId /\ Has(q.tenant, q.review)
        /\ q.pc \in {"approve", "reject"} => "reviewer" \in q.by.roles

TablesOK ==
    /\ products \in [Product -> OrNone(Tenant)]
    /\ aliases \in [Tenant -> [Concept -> OrNone(Product)]]

AliasesAtHome ==
    \A t \in Tenant, k \in Concept :
        aliases[t][k] # None => products[aliases[t][k]] = t

RequestsScoped == req \in [Caller -> Request] /\ \A c \in Caller : Scoped(req[c])

AnswerAtHome ==
    answer.by.tenant # None => \A x \in answer.about : OwnerOf(x) = answer.by.tenant

Access == TablesOK /\ RowsAgree /\ AliasesAtHome /\ RequestsScoped /\ AnswerAtHome

\* A product keeps its tenant.
ProductsStay ==
    \A p \in Product : products[p] # None => products'[p] = products[p]

\* What a request holds stays in its tenant while others write.
LEMMA ScopeStays ==
    ASSUME NEW q \in Request, Scoped(q), RowsStay, ProductsStay
    PROVE  Scoped(q)'
  <1> SUFFICES ASSUME q.pc # "idle" PROVE Scoped(q)'
    BY DEF Scoped
  <1>1. q.tenant \in Tenant /\ q.tenant # None
    BY NoneAssumption DEF Scoped
  <1>2. ASSUME q.product # None, products[q.product] = q.tenant
        PROVE  products'[q.product] = q.tenant
    <2>1. q.product \in Product
      BY <1>2 DEF Request, OrNone
    <2> QED BY <1>1, <1>2, <2>1 DEF ProductsStay
  <1>3. ASSUME q.review \in ReviewId, Has(q.tenant, q.review)
        PROVE  Has(q.tenant, q.review)'
    BY <1>3 DEF Has, RowsStay
  <1> QED BY <1>2, <1>3 DEF Scoped

\* The request of one caller changes.
LEMMA RequestStep ==
    ASSUME RequestsScoped, RowsStay, ProductsStay, NEW c \in Caller, NEW next \in Request,
           Scoped(next)', req' = [req EXCEPT ![c] = next]
    PROVE  RequestsScoped'
  <1>1. req \in [Caller -> Request] /\ req' \in [Caller -> Request]
    BY DEF RequestsScoped
  <1>2. ASSUME NEW d \in Caller PROVE Scoped(req[d])'
    <2>1. CASE d = c
      <3>1. req'[d] = next
        BY <1>1, <2>1
      <3> QED BY <3>1 DEF Scoped, Has
    <2>2. CASE d # c
      <3>1. req'[d] = req[d] /\ req[d] \in Request /\ Scoped(req[d])
        BY <1>1, <2>2 DEF RequestsScoped
      <3> DEFINE q == req[d]
      <3>2. q \in Request /\ Scoped(q)
        BY <3>1
      <3> QED BY <3>1, <3>2, ScopeStays DEF Scoped, Has
    <2> QED BY <2>1, <2>2
  <1> QED BY <1>1, <1>2 DEF RequestsScoped

\* A caller without a request holds nothing.
LEMMA RestingScoped == Resting \in Request /\ Scoped(Resting)'
  BY DEF Resting, Request, Host, Principal, OrNone, Scoped

\* Requests that do not move stay scoped.
LEMMA NoRequestStep ==
    ASSUME RequestsScoped, RowsStay, ProductsStay, UNCHANGED req
    PROVE  RequestsScoped'
  <1>1. ASSUME NEW d \in Caller PROVE Scoped(req[d])'
    <2> DEFINE q == req[d]
    <2>1. q \in Request /\ Scoped(q) /\ req'[d] = q
      BY DEF RequestsScoped
    <2> QED BY <2>1, ScopeStays DEF Scoped, Has
  <1> QED BY <1>1 DEF RequestsScoped

\* What is told of one tenant, to a caller that may ask for it.
LEMMA TellAtHome ==
    ASSUME NEW by, NEW tenant, NEW about, by.tenant \in {None, tenant}, Tell(by, about),
           \A x \in about \ {None} : OwnerOf(x)' = tenant
    PROVE  AnswerAtHome'
  BY DEF Tell, AnswerAtHome

\* No answer tells nothing.
LEMMA SilenceAtHome == ASSUME answer' = NoAnswer PROVE AnswerAtHome'
  BY DEF NoAnswer, Host, AnswerAtHome

\* The owner of a review is the tenant of its row.
LEMMA OwnerOfReview ==
    ASSUME NEW r \in ReviewId PROVE OwnerOf(r)' = rows'[r].tenant
  BY IdentifierAssumption DEF OwnerOf

-----------------------------------------------------------------------------
(* The steps of a request *)

\* The action OnlyReviewersResolve allows.
ReviewersAct ==
    aliases' # aliases \/ (\E r \in ReviewId : Waits(r) /\ rows'[r].status # "pending")
    => "reviewer" \in answer'.by.roles

\* A step that leaves the tables alone, or changes the reviews only.
TablesKept ==
    /\ TablesOK' /\ RowsAgree' /\ AliasesAtHome'
    /\ RowsStay /\ StillWaiting /\ ProductsStay
    /\ UNCHANGED aliases

\* A step that writes no table keeps what the tables promise.
LEMMA SameTables ==
    ASSUME Access, UNCHANGED <<rows, products, aliases>> PROVE TablesKept
  <1>1. RowsAgree' /\ RowsStay /\ StillWaiting
    BY DEF Access, RowsAgree, Waits, RowsStay, StillWaiting
  <1>2. TablesOK' /\ AliasesAtHome' /\ ProductsStay
    BY DEF Access, TablesOK, AliasesAtHome, ProductsStay
  <1> QED BY <1>1, <1>2 DEF TablesKept

\* So does one that writes rows which stay and agree.
LEMMA OnlyRows ==
    ASSUME Access, RowsAgree', RowsStay, StillWaiting, UNCHANGED <<products, aliases>>
    PROVE  TablesKept
  <1>1. TablesOK' /\ AliasesAtHome' /\ ProductsStay
    BY DEF Access, TablesOK, AliasesAtHome, ProductsStay
  <1> QED BY <1>1 DEF TablesKept

\* A step that keeps the tables resolves nothing.
LEMMA KeptReviewersAct == ASSUME TablesKept PROVE ReviewersAct
  BY DEF TablesKept, StillWaiting, ReviewersAct

\* A request that goes on with what is scoped keeps the invariant.
LEMMA ContinueStep ==
    ASSUME Access, TablesKept, NEW c \in Caller, NEW next \in Request,
           Scoped(next)', Continue(c, next)
    PROVE  Access' /\ ReviewersAct
  <1>1. RequestsScoped'
    BY RequestStep DEF Access, TablesKept, Continue
  <1>2. AnswerAtHome'
    BY SilenceAtHome DEF Continue
  <1> QED BY <1>1, <1>2, KeptReviewersAct DEF Access, TablesKept

\* A request that fails keeps it.
LEMMA FailStep ==
    ASSUME Access, TablesKept, NEW c \in Caller, Fail(c)
    PROVE  Access' /\ ReviewersAct
  BY RestingScoped, ContinueStep DEF Fail

\* A request that answers with what its tenant owns keeps it.
LEMMA AnswerStep ==
    ASSUME Access, TablesKept, NEW c \in Caller, NEW about, req[c].pc # "idle",
           Answer(c, about), \A x \in about \ {None} : OwnerOf(x)' = req[c].tenant
    PROVE  Access' /\ ReviewersAct
  <1>1. RequestsScoped'
    BY RestingScoped, RequestStep DEF Access, TablesKept, Answer
  <1>2. req[c].by.tenant \in {None, req[c].tenant}
    BY DEF Access, RequestsScoped, Scoped
  <1>3. AnswerAtHome'
    BY <1>2 DEF Answer, Tell, AnswerAtHome
  <1> QED BY <1>1, <1>3, KeptReviewersAct DEF Access, TablesKept

\* A product of the request's tenant, or none, and a review of it.
LEMMA OwnProduct ==
    ASSUME Access, TablesKept, NEW q \in Request, Scoped(q),
           q.pc \notin {"idle", "approve", "reject"}, q.product # None
    PROVE  OwnerOf(q.product)' = q.tenant
  <1>1. q.product \in Product /\ products[q.product] = q.tenant
    BY DEF Request, OrNone, Scoped
  <1>2. q.tenant # None
    BY NoneAssumption DEF Scoped
  <1> QED BY <1>1, <1>2 DEF OwnerOf, TablesKept, ProductsStay

\* The request of caller c, as it stands.
LEMMA CurrentRequest ==
    ASSUME Access, NEW c \in Caller
    PROVE  req[c] \in Request /\ Scoped(req[c])
  BY DEF Access, RequestsScoped

\* Admitting a line gives the request the tenant of its caller.
LEMMA CanonicalizeStep ==
    ASSUME Access, NEW c \in Caller, Canonicalize(c)
    PROVE  Access' /\ ReviewersAct
  <1>1. PICK at \in {"canonicalize", "canonicalize_line"} :
          \E a \in Admitted(at) : \E given \in Arriving(a.tenant) :
             LET p == aliases[a.tenant][given[1]] IN
             Continue(c, [Resting EXCEPT
                 !.pc = IF p = None THEN "pending" ELSE "product", !.by = a.by,
                 !.tenant = a.tenant, !.line = LineFor(at, a.tenant, given), !.product = p])
    BY DEF Canonicalize
  <1>2. PICK a \in Admitted(at) : \E given \in Arriving(a.tenant) :
             LET p == aliases[a.tenant][given[1]] IN
             Continue(c, [Resting EXCEPT
                 !.pc = IF p = None THEN "pending" ELSE "product", !.by = a.by,
                 !.tenant = a.tenant, !.line = LineFor(at, a.tenant, given), !.product = p])
    BY <1>1
  <1>3. /\ a.tenant \in Tenant /\ a.by \in Principal
        /\ a.by.tenant \in {None, a.tenant}
    BY AdmittedScope
  <1>4. PICK given \in Arriving(a.tenant) :
          LET p == aliases[a.tenant][given[1]] IN
          Continue(c, [Resting EXCEPT
              !.pc = IF p = None THEN "pending" ELSE "product", !.by = a.by,
              !.tenant = a.tenant, !.line = LineFor(at, a.tenant, given), !.product = p])
    BY <1>2
  <1>5. given[1] \in Concept /\ given[2] \in Amount /\ given[3] \in Currency
    BY <1>3, ArrivingAssumption
  <1> DEFINE p == aliases[a.tenant][given[1]]
             line == LineFor(at, a.tenant, given)
  <1>6. line \in Line /\ line.tenant = a.tenant
    BY <1>3, <1>5, AmountAssumption, CurrencyAssumption DEF LineFor, Line
  <1>7. p \in OrNone(Product) /\ (p # None => products[p] = a.tenant)
    BY <1>3, <1>5 DEF Access, TablesOK, AliasesAtHome
  <1> HIDE DEF p, line
  <1>8. PICK next : next = [Resting EXCEPT
              !.pc = IF p = None THEN "pending" ELSE "product", !.by = a.by,
              !.tenant = a.tenant, !.line = line, !.product = p]
    OBVIOUS
  <1>9. Continue(c, next)
    BY <1>4, <1>8 DEF p, line
  <1>10. /\ next \in Request /\ next.pc \in {"pending", "product"} /\ next.by = a.by
        /\ next.tenant = a.tenant /\ next.line = line /\ next.product = p
    BY <1>3, <1>6, <1>7, <1>8 DEF Resting, Request, OrNone
  <1>11. Scoped(next)
    BY <1>3, <1>6, <1>7, <1>10 DEF Scoped
  <1>12. TablesKept
    BY SameTables DEF Canonicalize
  <1>13. Scoped(next)'
    BY <1>10, <1>11, <1>12, ScopeStays DEF TablesKept
  <1> QED BY <1>9, <1>10, <1>12, <1>13, ContinueStep

\* The product of an alias belongs to the tenant of the line.
LEMMA AnswerProductStep ==
    ASSUME Access, NEW c \in Caller, AnswerProduct(c)
    PROVE  Access' /\ ReviewersAct
  <1>1. TablesKept
    BY SameTables DEF AnswerProduct
  <1>2. PICK q : q = req[c]
    OBVIOUS
  <1>3. q \in Request /\ Scoped(q) /\ q.pc = "product" /\ Answer(c, {q.product})
    BY <1>2, CurrentRequest DEF AnswerProduct, At
  <1>4. \A x \in {q.product} \ {None} : OwnerOf(x)' = q.tenant
    BY <1>1, <1>3, OwnProduct
  <1> QED BY <1>1, <1>2, <1>3, <1>4, AnswerStep

\* A line is attached to a pending review of its own tenant.
LEMMA AttachStep ==
    ASSUME Access, NEW c \in Caller, Attach(c)
    PROVE  Access' /\ ReviewersAct
  <1>1. TablesKept
    BY SameTables DEF Attach
  <1>2. PICK q : q = req[c]
    OBVIOUS
  <1>3. q \in Request /\ Scoped(q) /\ q.pc \in {"pending", "lost"}
    BY <1>2, CurrentRequest DEF Attach, At
  <1>4. PICK r \in Pending(c) : Continue(c, [req[c] EXCEPT !.pc = "record", !.review = r])
    BY DEF Attach
  <1>5. PICK next : next = [q EXCEPT !.pc = "record", !.review = r]
    OBVIOUS
  <1>6. r \in ReviewId /\ Has(q.tenant, r)
    BY <1>2, <1>3, <1>4 DEF Pending, PendingFor, Has, Waits, Scoped
  <1>7. /\ next \in Request /\ next.pc = "record" /\ next.review = r /\ next.by = q.by
        /\ next.tenant = q.tenant /\ next.line = q.line /\ next.product = q.product
    BY <1>3, <1>5, <1>6 DEF Request, OrNone
  <1>8. Scoped(next)
    BY <1>3, <1>6, <1>7 DEF Scoped
  <1>9. Scoped(next)'
    BY <1>1, <1>7, <1>8, ScopeStays DEF TablesKept
  <1> QED BY <1>1, <1>2, <1>4, <1>5, <1>7, <1>9, ContinueStep

\* On to another place with the same line, and no review yet.
LEMMA GoStep ==
    ASSUME Access, UNCHANGED <<rows, products, aliases>>, NEW c \in Caller,
           NEW pc \in {"search", "lost"}, req[c].pc \in {"pending", "stage"}, Go(c, pc)
    PROVE  Access' /\ ReviewersAct
  <1>1. TablesKept
    BY SameTables
  <1>2. PICK q : q = req[c]
    OBVIOUS
  <1>3. q \in Request /\ Scoped(q) /\ q.pc \in {"pending", "stage"}
    BY <1>2, CurrentRequest
  <1>4. PICK next : next = [q EXCEPT !.pc = pc]
    OBVIOUS
  <1>5. /\ next \in Request /\ next.pc = pc /\ next.by = q.by /\ next.tenant = q.tenant
        /\ next.line = q.line /\ next.product = q.product
    BY <1>3, <1>4 DEF Request
  <1>6. Scoped(next)
    BY <1>3, <1>5 DEF Scoped
  <1>7. Scoped(next)'
    BY <1>1, <1>5, <1>6, ScopeStays DEF TablesKept
  <1> QED BY <1>1, <1>2, <1>4, <1>5, <1>7, ContinueStep DEF Go

\* The search ranks products of the tenant of the line.
LEMMA SearchStep ==
    ASSUME Access, NEW c \in Caller, Search(c)
    PROVE  Access' /\ ReviewersAct
  <1>1. TablesKept
    BY SameTables DEF Search
  <1>2. PICK q : q = req[c]
    OBVIOUS
  <1>3. q \in Request /\ Scoped(q) /\ q.pc = "search"
    BY <1>2, CurrentRequest DEF Search, At
  <1>4. PICK top \in OrNone(Known(req[c].tenant)) :
          Continue(c, [req[c] EXCEPT !.pc = "stage", !.product = top])
    BY DEF Search
  <1>5. top \in OrNone(Product) /\ (top # None => products[top] = q.tenant)
    BY <1>2, <1>4 DEF OrNone, Known
  <1>6. PICK next : next = [q EXCEPT !.pc = "stage", !.product = top]
    OBVIOUS
  <1>7. /\ next \in Request /\ next.pc = "stage" /\ next.by = q.by
        /\ next.tenant = q.tenant /\ next.line = q.line /\ next.product = top
    BY <1>3, <1>5, <1>6 DEF Request
  <1>8. Scoped(next)
    BY <1>3, <1>5, <1>7 DEF Scoped
  <1>9. Scoped(next)'
    BY <1>1, <1>7, <1>8, ScopeStays DEF TablesKept
  <1> QED BY <1>1, <1>2, <1>4, <1>6, <1>7, <1>9, ContinueStep

\* A review that needs no model call is staged in the tenant of its line.
LEMMA StageFinalStep ==
    ASSUME Access, NEW c \in Caller, StageFinal(c)
    PROVE  Access' /\ ReviewersAct
  <1>1. PICK q : q = req[c]
    OBVIOUS
  <1>2. q \in Request /\ Scoped(q) /\ q.pc = "stage"
    BY <1>1, CurrentRequest DEF StageFinal, At
  <1>3. PICK r \in ReviewId :
          /\ \E s \in IF q.product = None THEN {Placeholder} ELSE Score :
                InsertReview(r, q.line, s)
          /\ Answer(c, {r, q.product})
    BY <1>1 DEF StageFinal
  <1>4. PICK s \in Score : InsertReview(r, q.line, s)
    BY <1>3, ScoreAssumption
  <1>5. q.line \in Line /\ q.line.tenant = q.tenant
    BY <1>2 DEF Scoped
  <1>6. RowsAgree' /\ RowsStay /\ StillWaiting /\ rows'[r].tenant = q.tenant
    BY <1>4, <1>5, InsertStep DEF Access
  <1>7. TablesKept
    BY <1>6, OnlyRows DEF StageFinal
  <1>8. OwnerOf(r)' = q.tenant
    BY <1>6, OwnerOfReview
  <1>9. q.product # None => OwnerOf(q.product)' = q.tenant
    BY <1>2, <1>7, OwnProduct
  <1>10. \A x \in {r, q.product} \ {None} : OwnerOf(x)' = q.tenant
    BY <1>8, <1>9
  <1> QED BY <1>1, <1>2, <1>3, <1>7, <1>10, AnswerStep

\* So is the placeholder of a model call.
LEMMA StagePlaceholderStep ==
    ASSUME Access, NEW c \in Caller, StagePlaceholder(c)
    PROVE  Access' /\ ReviewersAct
  <1>1. PICK q : q = req[c]
    OBVIOUS
  <1>2. q \in Request /\ Scoped(q) /\ q.pc = "stage"
    BY <1>1, CurrentRequest DEF StagePlaceholder, At
  <1>3. PICK r \in ReviewId :
          /\ InsertReview(r, q.line, Placeholder)
          /\ Continue(c, [q EXCEPT !.pc = "model", !.review = r])
    BY <1>1 DEF StagePlaceholder
  <1>4. q.line \in Line /\ q.line.tenant = q.tenant
    BY <1>2 DEF Scoped
  <1>5. /\ RowsAgree' /\ RowsStay /\ StillWaiting
        /\ rows'[r].status = "pending" /\ rows'[r].tenant = q.tenant
    BY <1>3, <1>4, InsertStep, ScoreAssumption DEF Access
  <1>6. TablesKept
    BY <1>5, OnlyRows DEF StagePlaceholder
  <1>7. PICK next : next = [q EXCEPT !.pc = "model", !.review = r]
    OBVIOUS
  <1>8. /\ next \in Request /\ next.pc = "model" /\ next.review = r /\ next.by = q.by
        /\ next.tenant = q.tenant /\ next.line = q.line /\ next.product = q.product
    BY <1>2, <1>3, <1>7 DEF Request, OrNone
  <1>9. Has(q.tenant, r)'
    BY <1>5 DEF Has
  <1>10. Scoped(q)'
    BY <1>2, <1>6, ScopeStays DEF TablesKept
  <1>11. Scoped(next)'
    BY <1>2, <1>8, <1>9, <1>10 DEF Scoped
  <1> QED BY <1>3, <1>6, <1>7, <1>8, <1>11, ContinueStep

\* An answer about the review that the request works on.
LEMMA OwnReview ==
    ASSUME Access, TablesKept, NEW c \in Caller, req[c].pc \in {"record", "model"},
           Answer(c, {req[c].review, req[c].product})
    PROVE  Access' /\ ReviewersAct
  <1>1. PICK q : q = req[c]
    OBVIOUS
  <1>2. q \in Request /\ Scoped(q) /\ q.pc \in {"record", "model"}
    BY <1>1, CurrentRequest
  <1>3. q.review \in ReviewId /\ Has(q.tenant, q.review)
    BY <1>2 DEF Scoped
  <1>4. OwnerOf(q.review)' = q.tenant
    BY <1>3, OwnerOfReview DEF Has, TablesKept, RowsStay
  <1>5. q.product # None => OwnerOf(q.product)' = q.tenant
    BY <1>2, OwnProduct
  <1>6. \A x \in {q.review, q.product} \ {None} : OwnerOf(x)' = q.tenant
    BY <1>4, <1>5
  <1> QED BY <1>1, <1>2, <1>6, AnswerStep

\* A line is counted on a review of its tenant, and told of it.
LEMMA RecordAnswers ==
    ASSUME Access, NEW c \in Caller, Record(c)
    PROVE  Access' /\ ReviewersAct
  <1>1. PICK q : q = req[c]
    OBVIOUS
  <1>2. Scoped(q) /\ q.pc = "record" /\ Waits(q.review) /\ RecordOccurrence(q.review, q.line)
    BY <1>1, CurrentRequest DEF Record, At
  <1>3. RowsAgree' /\ RowsStay /\ StillWaiting
    BY <1>2, RecordStep DEF Scoped, Access
  <1>4. TablesKept
    BY <1>3, OnlyRows DEF Record
  <1> QED BY <1>1, <1>2, <1>4, OwnReview DEF Record

\* The proposal of the model goes to the review of its own request.
LEMMA ProposeAnswers ==
    ASSUME Access, NEW c \in Caller, Propose(c)
    PROVE  Access' /\ ReviewersAct
  <1>1. PICK q : q = req[c]
    OBVIOUS
  <1>2. PICK s \in Score : UpdatePending(q.review, s)
    BY <1>1 DEF Propose
  <1>3. Scoped(q) /\ q.pc = "model" /\ Waits(q.review)
    BY <1>1, CurrentRequest DEF Propose, At
  <1>4. RowsAgree' /\ RowsStay /\ StillWaiting
    BY <1>2, <1>3, UpdateStep DEF Scoped, Access
  <1>5. TablesKept
    BY <1>4, OnlyRows DEF Propose
  <1> QED BY <1>1, <1>3, <1>5, OwnReview DEF Propose

-----------------------------------------------------------------------------
(* Requests of one step, and the reviewers *)

\* A request of one transaction that only reads tells what its tenant owns.
LEMMA ReadStep ==
    ASSUME Access, UNCHANGED <<rows, products, aliases, req>>, NEW at, NEW a \in Admitted(at),
           NEW about, Tell(a.by, about), \A x \in about : OwnerOf(x) = a.tenant
    PROVE  Access' /\ ReviewersAct
  <1>1. TablesKept
    BY SameTables
  <1>2. RequestsScoped'
    BY <1>1, NoRequestStep DEF Access, TablesKept
  <1>3. a.by.tenant \in {None, a.tenant}
    BY AdmittedScope
  <1>4. \A x \in about : OwnerOf(x)' = a.tenant
    BY DEF OwnerOf
  <1>5. AnswerAtHome'
    BY <1>3, <1>4, TellAtHome
  <1> QED BY <1>1, <1>2, <1>5, KeptReviewersAct DEF Access, TablesKept

\* A review found in the scope of a tenant belongs to it.
LEMMA OwnReviewNow ==
    ASSUME NEW tenant, NEW r \in ReviewId, Has(tenant, r) PROVE OwnerOf(r) = tenant
  BY IdentifierAssumption DEF OwnerOf, Has

\* Products are looked up in the tenant of the caller.
LEMMA LookUpStep ==
    ASSUME Access, LookUpProduct PROVE Access' /\ ReviewersAct
  <1>1. PICK a \in Admitted("lookup_product"), p \in Product :
          products[p] = a.tenant /\ Tell(a.by, {p})
    BY DEF LookUpProduct
  <1>2. \A x \in {p} : OwnerOf(x) = a.tenant
    BY <1>1 DEF OwnerOf
  <1> QED BY <1>1, <1>2, ReadStep DEF LookUpProduct

\* So is the status of a review.
LEMMA StatusStep ==
    ASSUME Access, GetReviewStatus PROVE Access' /\ ReviewersAct
  <1>1. PICK a \in Admitted("get_review_status"), r \in ReviewId :
          Has(a.tenant, r) /\ Tell(a.by, {r})
    BY DEF GetReviewStatus
  <1>2. \A x \in {r} : OwnerOf(x) = a.tenant
    BY <1>1, OwnReviewNow
  <1> QED BY <1>1, <1>2, ReadStep DEF GetReviewStatus

\* Lists hold reviews of the tenant of the caller.
LEMMA ListStep ==
    ASSUME Access, ListPending PROVE Access' /\ ReviewersAct
  <1>1. PICK a \in Admitted("list"), limit \in 1..Cardinality(ReviewId) :
          \E S \in Listings(a.tenant, limit) : Tell(a.by, S)
    BY DEF ListPending
  <1>2. PICK S \in Listings(a.tenant, limit) : Tell(a.by, S)
    BY <1>1
  <1>3. \A x \in S : x \in ReviewId /\ Has(a.tenant, x)
    BY <1>2 DEF Listings, Waits, Has
  <1>4. \A x \in S : OwnerOf(x) = a.tenant
    BY <1>3, OwnReviewNow
  <1> QED BY <1>2, <1>4, ReadStep DEF ListPending

\* The tables after a resolution, and what the reviewer is told.
Resolved(by) ==
    /\ TablesOK' /\ RowsAgree' /\ AliasesAtHome'
    /\ RowsStay /\ ProductsStay
    /\ AnswerAtHome' /\ answer'.by = by

\* An approval changes rows, products and aliases of one tenant.
LEMMA ApproveTables ==
    ASSUME Access, NEW by, NEW tenant \in Tenant, by.tenant \in {None, tenant},
           NEW r \in ReviewId, NEW target \in OrNone(Product), NEW p \in Product,
           Approve(by, tenant, r, target, p)
    PROVE  Resolved(by)
  <1>1. tenant # None /\ p # None
    BY NoneAssumption
  <1>2. /\ Has(tenant, r) /\ Waits(r) /\ Resolve(r) /\ Tell(by, {r, p})
        /\ aliases' = [aliases EXCEPT ![tenant][rows[r].concept] = p]
        /\ \/ products[p] = None /\ products' = [products EXCEPT ![p] = tenant]
           \/ products[p] = tenant /\ products' = products
    BY DEF Approve
  <1>3. RowsAgree' /\ RowsStay /\ rows'[r].tenant = tenant
    BY <1>2, ResolveStep DEF Access, Has
  <1>4. /\ products \in [Product -> OrNone(Tenant)] /\ products' \in [Product -> OrNone(Tenant)]
        /\ products'[p] = tenant /\ ProductsStay
    BY <1>2 DEF Access, TablesOK, OrNone, ProductsStay
  <1>5. aliases \in [Tenant -> [Concept -> OrNone(Product)]]
    BY DEF Access, TablesOK
  <1>6. aliases' \in [Tenant -> [Concept -> OrNone(Product)]]
    BY <1>2, <1>5 DEF OrNone
  <1>7. ASSUME NEW t \in Tenant, NEW k \in Concept, aliases'[t][k] # None
        PROVE  products'[aliases'[t][k]] = t
    <2>1. CASE t = tenant /\ k = rows[r].concept
      <3>1. aliases'[t][k] = p
        BY <1>2, <1>5, <2>1
      <3> QED BY <1>4, <2>1, <3>1
    <2>2. CASE ~(t = tenant /\ k = rows[r].concept)
      <3>1. aliases'[t][k] = aliases[t][k]
        BY <1>2, <1>5, <2>2
      <3>2. aliases[t][k] \in Product /\ products[aliases[t][k]] = t /\ t # None
        BY <1>5, <1>7, <3>1, NoneAssumption DEF Access, AliasesAtHome, OrNone
      <3> QED BY <1>4, <3>1, <3>2 DEF ProductsStay
    <2> QED BY <2>1, <2>2
  <1>8. OwnerOf(r)' = tenant /\ OwnerOf(p)' = tenant
    BY <1>3, <1>4, OwnerOfReview DEF OwnerOf
  <1>9. AnswerAtHome' /\ answer'.by = by
    <2>1. answer'.by = by
      BY <1>2 DEF Tell
    <2>2. \A x \in {r, p} \ {None} : OwnerOf(x)' = tenant
      BY <1>8
    <2>3. AnswerAtHome'
      BY <1>2, <2>2, TellAtHome
    <2> QED BY <2>1, <2>3
  <1> QED BY <1>3, <1>4, <1>6, <1>7, <1>9 DEF Resolved, TablesOK, AliasesAtHome

\* A rejection changes one row of one tenant.
LEMMA RejectTables ==
    ASSUME Access, NEW by, NEW tenant \in Tenant, by.tenant \in {None, tenant},
           NEW r \in ReviewId, Reject(by, tenant, r)
    PROVE  Resolved(by)
  <1>1. /\ Has(tenant, r) /\ Resolve(r) /\ Tell(by, {r})
        /\ UNCHANGED <<products, aliases>>
    BY DEF Reject
  <1>2. RowsAgree' /\ RowsStay /\ rows'[r].tenant = tenant
    BY <1>1, ResolveStep DEF Access, Has
  <1>3. TablesOK' /\ AliasesAtHome' /\ ProductsStay
    BY <1>1 DEF Access, TablesOK, AliasesAtHome, ProductsStay
  <1>4. \A x \in {r} \ {None} : OwnerOf(x)' = tenant
    BY <1>2, OwnerOfReview
  <1>5. AnswerAtHome'
    BY <1>1, <1>4 DEF Tell, AnswerAtHome
  <1>6. answer'.by = by
    BY <1>1 DEF Tell
  <1> QED BY <1>2, <1>3, <1>5, <1>6 DEF Resolved

\* A reviewer who resolves a review of the own tenant keeps the invariant.
LEMMA ReviewerResolves ==
    ASSUME Access, NEW by, Resolved(by), "reviewer" \in by.roles, RequestsScoped'
    PROVE  Access' /\ ReviewersAct
  BY DEF Resolved, Access, ReviewersAct

\* POST /approve keeps the invariant.
LEMMA ApproveStep ==
    ASSUME Access, ApproveReview PROVE Access' /\ ReviewersAct
  <1>1. PICK a \in Admitted("approve"), r \in ReviewId, target \in OrNone(Product), p \in Product :
          Approve(a.by, a.tenant, r, target, p)
    BY DEF ApproveReview
  <1>2. /\ a.tenant \in Tenant /\ a.by.tenant \in {None, a.tenant}
        /\ "reviewer" \in a.by.roles
    BY AdmittedScope, ReviewersOnly
  <1>3. Resolved(a.by)
    BY <1>1, <1>2, ApproveTables
  <1>4. RequestsScoped'
    BY <1>3, NoRequestStep DEF Resolved, Access, ApproveReview
  <1> QED BY <1>2, <1>3, <1>4, ReviewerResolves

\* POST /reject keeps the invariant.
LEMMA RejectStep ==
    ASSUME Access, RejectReview PROVE Access' /\ ReviewersAct
  <1>1. PICK a \in Admitted("reject"), r \in ReviewId : Reject(a.by, a.tenant, r)
    BY DEF RejectReview
  <1>2. /\ a.tenant \in Tenant /\ a.by.tenant \in {None, a.tenant}
        /\ "reviewer" \in a.by.roles
    BY AdmittedScope, ReviewersOnly
  <1>3. Resolved(a.by)
    BY <1>1, <1>2, RejectTables
  <1>4. RequestsScoped'
    BY <1>3, NoRequestStep DEF Resolved, Access, RejectReview
  <1> QED BY <1>2, <1>3, <1>4, ReviewerResolves

\* Either it has read the review and goes on to resolve it, or it answers.
LEMMA ApplyActionStep ==
    ASSUME Access, NEW c \in Caller, ApplyAction(c)
    PROVE  Access' /\ ReviewersAct
  <1>1. TablesKept
    BY SameTables DEF ApplyAction
  <1>2. PICK a \in Admitted("action"), r \in ReviewId :
          /\ Has(a.tenant, r) /\ Waits(r)
          /\ \/ \E next \in {"approve", "reject"}, target \in OrNone(Product) :
                   /\ next = "reject" => target = None
                   /\ Continue(c, [Resting EXCEPT !.pc = next, !.by = a.by,
                          !.tenant = a.tenant, !.review = r, !.product = target])
             \/ Tell(a.by, {r}) /\ UNCHANGED req
    BY DEF ApplyAction
  <1>3. /\ a.tenant \in Tenant /\ a.by \in Principal /\ a.by.tenant \in {None, a.tenant}
        /\ "reviewer" \in a.by.roles
    BY AdmittedScope, ReviewersOnly
  <1>4. ASSUME NEW pc \in {"approve", "reject"}, NEW target \in OrNone(Product),
               Continue(c, [Resting EXCEPT !.pc = pc, !.by = a.by,
                          !.tenant = a.tenant, !.review = r, !.product = target])
        PROVE  Access' /\ ReviewersAct
    <2>1. PICK next : next = [Resting EXCEPT !.pc = pc, !.by = a.by,
                          !.tenant = a.tenant, !.review = r, !.product = target]
      OBVIOUS
    <2>2. /\ next \in Request /\ next.pc = pc /\ next.by = a.by
          /\ next.tenant = a.tenant /\ next.review = r
      BY <1>3, <2>1 DEF Resting, Request, OrNone
    <2>3. Scoped(next)
      BY <1>2, <1>3, <2>2 DEF Scoped
    <2>4. Scoped(next)'
      BY <1>1, <2>2, <2>3, ScopeStays DEF TablesKept
    <2> QED BY <1>1, <1>4, <2>1, <2>2, <2>4, ContinueStep
  <1>5. ASSUME Tell(a.by, {r}), UNCHANGED req PROVE Access' /\ ReviewersAct
    <2>1. \A x \in {r} : OwnerOf(x) = a.tenant
      BY <1>2, OwnReviewNow
    <2>2. UNCHANGED <<rows, products, aliases, req>>
      BY <1>5 DEF ApplyAction
    <2> QED BY <1>5, <2>1, <2>2, ReadStep
  <1> QED BY <1>2, <1>4, <1>5

\* An action resolves a review read in an earlier step, which is still its tenant's.
LEMMA ActionResolves ==
    ASSUME Access, NEW c \in Caller, ApproveByAction(c) \/ RejectByAction(c)
    PROVE  Access' /\ ReviewersAct
  <1>1. PICK q : q = req[c]
    OBVIOUS
  <1>2. q \in Request /\ Scoped(q) /\ q.pc \in {"approve", "reject"}
    BY <1>1, CurrentRequest DEF ApproveByAction, RejectByAction, At
  <1>3. /\ q.tenant \in Tenant /\ q.by.tenant \in {None, q.tenant} /\ q.review \in ReviewId
        /\ "reviewer" \in q.by.roles /\ q.product \in OrNone(Product)
    BY <1>2 DEF Scoped, Request
  <1>4. PICK by : by = q.by
    OBVIOUS
  <1>5. Resolved(by)
    <2>1. CASE ApproveByAction(c)
      <3>1. PICK p \in Product : Approve(q.by, q.tenant, q.review, q.product, p)
        BY <1>1, <2>1 DEF ApproveByAction
      <3> QED BY <1>3, <1>4, <3>1, ApproveTables
    <2>2. CASE RejectByAction(c)
      <3>1. Reject(q.by, q.tenant, q.review)
        BY <1>1, <2>2 DEF RejectByAction
      <3> QED BY <1>3, <1>4, <3>1, RejectTables
    <2> QED BY <2>1, <2>2
  <1>6. RequestsScoped'
    <2>1. req' = [req EXCEPT ![c] = Resting]
      BY DEF ApproveByAction, RejectByAction
    <2> QED BY <1>5, <2>1, RestingScoped, RequestStep DEF Resolved, Access
  <1> QED BY <1>3, <1>4, <1>5, <1>6, ReviewerResolves

\* A request that comes too late fails, and changes nothing.
LEMMA FailingStep ==
    ASSUME Access, NEW c \in Caller, WinnerIsGone(c) \/ RowIsResolved(c) \/ Conflict(c)
    PROVE  Access' /\ ReviewersAct
  <1>1. Fail(c) /\ UNCHANGED <<rows, products, aliases>>
    BY DEF WinnerIsGone, RowIsResolved, Conflict
  <1> QED BY <1>1, SameTables, FailStep

-----------------------------------------------------------------------------
(* The theorems *)

\* The initial states satisfy the invariant.
LEMMA AccessInit == Init => Access
  <1> SUFFICES ASSUME Init PROVE Access
    OBVIOUS
  <1>1. RowsAgree
    BY RankingInitAgrees DEF Init
  <1>2. TablesOK /\ AliasesAtHome
    BY SeedAssumption DEF Init, TablesOK, AliasesAtHome
  <1>3. RequestsScoped
    BY DEF Init, RequestsScoped, Resting, Request, Host, Principal, OrNone, Scoped
  <1>4. AnswerAtHome
    BY DEF Init, NoAnswer, Host, AnswerAtHome
  <1> QED BY <1>1, <1>2, <1>3, <1>4 DEF Access

\* Every step keeps the invariant, and knowledge changes for reviewers only.
LEMMA AccessStep == Access /\ [Next]_vars => Access' /\ ReviewersAct
  <1> SUFFICES ASSUME Access, [Next]_vars PROVE Access' /\ ReviewersAct
    OBVIOUS
  <1>1. ASSUME NEW c \in Caller, Canonicalize(c) PROVE Access' /\ ReviewersAct
    BY <1>1, CanonicalizeStep
  <1>2. ASSUME NEW c \in Caller, AnswerProduct(c) PROVE Access' /\ ReviewersAct
    BY <1>2, AnswerProductStep
  <1>3. ASSUME NEW c \in Caller, Attach(c) PROVE Access' /\ ReviewersAct
    BY <1>3, AttachStep
  <1>4. ASSUME NEW c \in Caller, NothingPending(c) \/ LoseClaim(c)
        PROVE  Access' /\ ReviewersAct
    BY <1>4, GoStep DEF NothingPending, LoseClaim, At
  <1>5. ASSUME NEW c \in Caller, Search(c) PROVE Access' /\ ReviewersAct
    BY <1>5, SearchStep
  <1>6. ASSUME NEW c \in Caller, StageFinal(c) PROVE Access' /\ ReviewersAct
    BY <1>6, StageFinalStep
  <1>7. ASSUME NEW c \in Caller, StagePlaceholder(c) PROVE Access' /\ ReviewersAct
    BY <1>7, StagePlaceholderStep
  <1>8. ASSUME NEW c \in Caller, Record(c) PROVE Access' /\ ReviewersAct
    BY <1>8, RecordAnswers
  <1>9. ASSUME NEW c \in Caller, Propose(c) PROVE Access' /\ ReviewersAct
    BY <1>9, ProposeAnswers
  <1>10. ASSUME NEW c \in Caller, WinnerIsGone(c) \/ RowIsResolved(c) \/ Conflict(c)
         PROVE  Access' /\ ReviewersAct
    BY <1>10, FailingStep
  <1>11. ASSUME NEW c \in Caller, ApplyAction(c) PROVE Access' /\ ReviewersAct
    BY <1>11, ApplyActionStep
  <1>12. ASSUME NEW c \in Caller, ApproveByAction(c) \/ RejectByAction(c)
         PROVE  Access' /\ ReviewersAct
    BY <1>12, ActionResolves
  <1>13. CASE LookUpProduct
    BY <1>13, LookUpStep
  <1>14. CASE GetReviewStatus
    BY <1>14, StatusStep
  <1>15. CASE ListPending
    BY <1>15, ListStep
  <1>16. CASE ApproveReview
    BY <1>16, ApproveStep
  <1>17. CASE RejectReview
    BY <1>17, RejectStep
  <1>18. CASE UNCHANGED vars
    <2>1. TablesKept /\ UNCHANGED <<req, answer>>
      BY <1>18, SameTables DEF vars
    <2>2. RequestsScoped'
      BY <2>1, NoRequestStep DEF Access, TablesKept
    <2>3. AnswerAtHome'
      BY <1>18 DEF vars, Access, AnswerAtHome, OwnerOf
    <2> QED BY <2>1, <2>2, <2>3, KeptReviewersAct DEF Access, TablesKept
  <1> QED
    BY <1>1, <1>2, <1>3, <1>4, <1>5, <1>6, <1>7, <1>8, <1>9, <1>10, <1>11, <1>12, <1>13,
       <1>14, <1>15, <1>16, <1>17, <1>18 DEF Next

\* Every request works on what belongs to its tenant, and every waiting row says
\* what has arrived for it, whatever the other requests do meanwhile.
THEOREM AccessInvariant == Spec => []Access
  <1>1. Init => Access
    BY AccessInit
  <1>2. Access /\ [Next]_vars => Access'
    BY AccessStep
  <1> QED BY <1>1, <1>2, PTL DEF Spec

\* For any tenants, keys, callers and lines, and in every order of their
\* requests: an answer to a caller with a key is about its own tenant, and
\* approved knowledge leads to products of its tenant.
THEOREM Separation == Spec => []TenantsStayApart
  <1>1. Access => TenantsStayApart
    BY DEF Access, AliasesAtHome, AnswerAtHome, TenantsStayApart
  <1> QED BY <1>1, AccessInvariant, PTL

\* Reviews are resolved, and approved knowledge changed, by reviewers only.
THEOREM ReviewersResolve == Spec => OnlyReviewersResolve
  <1>1. Access /\ [Next]_vars =>
          [aliases' # aliases \/ (\E r \in ReviewId : Waits(r) /\ rows'[r].status # "pending")
             => "reviewer" \in answer'.by.roles]_vars
    BY AccessStep DEF ReviewersAct
  <1> QED BY <1>1, AccessInvariant, PTL DEF Spec, OnlyReviewersResolve

\* However reviews are ranked, a list that ends early leaves out none that is
\* more urgent than one it shows.
THEOREM Ranking == Spec => []UrgentFirst
  <1>1. Access => UrgentFirst
    BY AgreementIsUrgentFirst DEF Access
  <1> QED BY <1>1, AccessInvariant, PTL

-----------------------------------------------------------------------------
(* How many lines wait: none is counted twice, so ranks stay in their range *)

\* Callers with a line that no review has counted yet.
Carriers == {c \in Caller : req[c].pc \in {"pending", "search", "stage", "lost", "record"}}

\* The lines admitted that no caller carries any more.
Room == lines - Cardinality(Carriers)
RoomFits ==
    /\ lines \in 0..MaxLines
    /\ IsFiniteSet(Carriers)
    /\ Cardinality(Carriers) <= lines

\* One more line may be in a row: the one it has waited with from the start.
Fits(row, room) ==
    /\ row.lines \in 1..(room + 1)
    /\ \A k \in Currency : row.amounts[k] <= row.lines * MaxAmount
RowsFit ==
    \A r \in ReviewId : IF Waits(r) THEN Fits(rows[r], Room) ELSE rows[r].priority = 0

AnswerTyped == answer \in [by : Principal, about : SUBSET (ReviewId \cup Product)]

Numbered == RoomFits /\ RowsFit /\ AnswerTyped

\* A caller takes up a line that is admitted now, or none.
LEMMA RoomKept ==
    ASSUME Access, RoomFits, NEW c \in Caller, NEW next, req' = [req EXCEPT ![c] = next],
           \/ lines < MaxLines /\ lines' = lines + 1
           \/ /\ lines' = lines
              /\ c \in Carriers \/ next.pc \in {"idle", "product", "model", "approve", "reject"}
    PROVE  RoomFits' /\ Room' >= Room
  <1>1. req \in [Caller -> Request]
    BY DEF Access, RequestsScoped
  <1>2. req'[c] = next /\ \A d \in Caller \ {c} : req'[d] = req[d]
    BY <1>1
  <1>3. Carriers' \subseteq Carriers \cup {c}
    BY <1>2 DEF Carriers
  <1>4. lines' = lines => Carriers' \subseteq Carriers
    BY <1>2, <1>3 DEF Carriers, RoomFits
  <1>5. /\ IsFiniteSet(Carriers \cup {c})
        /\ Cardinality(Carriers) \in Nat
        /\ Cardinality(Carriers \cup {c}) <= Cardinality(Carriers) + 1
    <2>1. IsFiniteSet(Carriers)
      BY DEF RoomFits
    <2>2. Cardinality(Carriers) \in Nat
      BY <2>1, FS_CardinalityType
    <2>3. /\ IsFiniteSet(Carriers \cup {c})
          /\ \/ Cardinality(Carriers \cup {c}) = Cardinality(Carriers)
             \/ Cardinality(Carriers \cup {c}) = Cardinality(Carriers) + 1
      BY <2>1, FS_AddElement
    <2> QED BY <2>2, <2>3
  <1>6. /\ IsFiniteSet(Carriers') /\ Cardinality(Carriers') \in Nat
        /\ Cardinality(Carriers') <= Cardinality(Carriers) + 1
    BY <1>3, <1>5, FS_Subset, FS_CardinalityType
  <1>7. lines' = lines => Cardinality(Carriers') <= Cardinality(Carriers)
    BY <1>4, FS_Subset DEF RoomFits
  <1> QED BY <1>5, <1>6, <1>7, LinesAssumption DEF RoomFits, Room

\* A caller puts its line down.
LEMMA RoomGrows ==
    ASSUME Access, RoomFits, NEW c \in Carriers, lines' = lines, req' = [req EXCEPT ![c] = Resting]
    PROVE  RoomFits' /\ Room' >= Room + 1
  <1>1. req \in [Caller -> Request] /\ c \in Caller
    BY DEF Access, RequestsScoped, Carriers
  <1>2. req'[c] = Resting /\ \A d \in Caller \ {c} : req'[d] = req[d]
    BY <1>1
  <1>3. Carriers' \subseteq Carriers \ {c}
    BY <1>2 DEF Carriers, Resting
  <1>4. /\ IsFiniteSet(Carriers \ {c})
        /\ Cardinality(Carriers) \in Nat
        /\ Cardinality(Carriers \ {c}) = Cardinality(Carriers) - 1
    BY FS_RemoveElement, FS_CardinalityType DEF RoomFits
  <1>5. /\ IsFiniteSet(Carriers') /\ Cardinality(Carriers') \in Nat
        /\ Cardinality(Carriers') <= Cardinality(Carriers) - 1
    BY <1>3, <1>4, FS_Subset, FS_CardinalityType
  <1> QED BY <1>4, <1>5, LinesAssumption DEF RoomFits, Room

\* Nobody moves.
LEMMA RoomSame ==
    ASSUME RoomFits, UNCHANGED <<req, lines>> PROVE RoomFits' /\ Room' >= Room
  <1>1. Carriers' = Carriers
    BY DEF Carriers
  <1>2. Cardinality(Carriers) \in Nat
    BY FS_CardinalityType DEF RoomFits
  <1> QED BY <1>1, <1>2 DEF RoomFits, Room

\* What a step does to the rows, and what it leaves room for.
Recorded == \E r \in ReviewId, line \in Line : Waits(r) /\ RecordOccurrence(r, line)
Moved ==
    \/ UNCHANGED rows
    \/ \E r \in ReviewId, line \in Line, s \in Score : InsertReview(r, line, s)
    \/ \E r \in ReviewId, s \in Score : Waits(r) /\ UpdatePending(r, s)
    \/ \E r \in ReviewId : Resolve(r)
Counts ==
    /\ RoomFits' /\ AnswerTyped'
    /\ \/ Moved /\ Room' >= Room
       \/ Recorded /\ Room' >= Room + 1

\* An answer of the right types.
LEMMA TellTyped ==
    ASSUME NEW by \in Principal, NEW about, about \subseteq ReviewId \cup Product \cup {None},
           Tell(by, about)
    PROVE  AnswerTyped'
  BY DEF Tell, AnswerTyped

\* No answer is one of the right types.
LEMMA SilenceTyped == ASSUME answer' = NoAnswer PROVE AnswerTyped'
  BY DEF NoAnswer, Host, Principal, OrNone, AnswerTyped

\* A request that goes on counts nothing.
LEMMA ContinueCounts ==
    ASSUME Access, RoomFits, NEW c \in Caller, NEW next, Continue(c, next), Moved,
           \/ lines < MaxLines /\ lines' = lines + 1
           \/ /\ lines' = lines
              /\ c \in Carriers \/ next.pc \in {"idle", "product", "model", "approve", "reject"}
    PROVE  Counts
  BY RoomKept, SilenceTyped DEF Continue, Counts

\* What a request under way holds has its type.
LEMMA HoldsTyped ==
    ASSUME Access, NEW c \in Caller
    PROVE  /\ req[c].by \in Principal
           /\ req[c].product \in Product \cup {None}
           /\ req[c].review \in ReviewId \cup {None}
           /\ req[c].pc \notin {"idle", "approve", "reject"} => req[c].line \in Line
           /\ req[c].pc \in {"pending", "search", "stage", "lost", "record"} => c \in Carriers
  <1>1. PICK q : q = req[c]
    OBVIOUS
  <1>2. q \in Request /\ Scoped(q)
    BY <1>1, CurrentRequest
  <1>3. /\ q.by \in Principal /\ q.product \in Product \cup {None}
        /\ q.review \in ReviewId \cup {None}
    BY <1>2 DEF Request, OrNone
  <1>4. q.pc \notin {"idle", "approve", "reject"} => q.line \in Line
    BY <1>2 DEF Scoped
  <1> QED BY <1>1, <1>3, <1>4 DEF Carriers

\* Before a line is in a review it is counted nowhere.
LEMMA LineSteps ==
    ASSUME Access, RoomFits, NEW c \in Caller,
           \/ Canonicalize(c) \/ Attach(c) \/ NothingPending(c) \/ Search(c) \/ LoseClaim(c)
           \/ WinnerIsGone(c) \/ RowIsResolved(c) \/ Conflict(c)
    PROVE  Counts
  <1>1. ASSUME Canonicalize(c) PROVE Counts
    <2>1. PICK next : Continue(c, next)
      BY <1>1 DEF Canonicalize
    <2> QED BY <1>1, <2>1, ContinueCounts DEF Canonicalize, Moved
  <1>2. ASSUME Attach(c) \/ NothingPending(c) \/ Search(c) \/ LoseClaim(c) PROVE Counts
    <2>1. PICK next : Continue(c, next)
      BY <1>2 DEF Attach, NothingPending, Search, LoseClaim, Go
    <2>2. c \in Carriers
      BY <1>2, HoldsTyped DEF Attach, NothingPending, Search, LoseClaim, At
    <2>3. Moved /\ lines' = lines
      BY <1>2 DEF Attach, NothingPending, Search, LoseClaim, Moved
    <2> QED BY <2>1, <2>2, <2>3, ContinueCounts
  <1>3. ASSUME WinnerIsGone(c) \/ RowIsResolved(c) \/ Conflict(c) PROVE Counts
    <2>1. Continue(c, Resting) /\ Moved /\ lines' = lines /\ Resting.pc = "idle"
      BY <1>3 DEF WinnerIsGone, RowIsResolved, Conflict, Fail, Moved, Resting
    <2> QED BY <2>1, ContinueCounts
  <1> QED BY <1>1, <1>2, <1>3

\* A review that is inserted counts the line of its request.
LEMMA StageCounts ==
    ASSUME Access, RoomFits, NEW c \in Caller, StageFinal(c) \/ StagePlaceholder(c)
    PROVE  Counts
  <1>1. /\ c \in Carriers /\ req[c].line \in Line /\ req[c].by \in Principal
        /\ req[c].product \in Product \cup {None} /\ lines' = lines
    BY HoldsTyped DEF StageFinal, StagePlaceholder, At
  <1>2. ASSUME StageFinal(c) PROVE Counts
    <2>1. PICK r \in ReviewId :
            /\ \E s \in IF req[c].product = None THEN {Placeholder} ELSE Score :
                  InsertReview(r, req[c].line, s)
            /\ Answer(c, {r, req[c].product})
      BY <1>2 DEF StageFinal
    <2>2. Moved
      BY <1>1, <2>1, ScoreAssumption DEF Moved
    <2>3. AnswerTyped'
      <3>1. Tell(req[c].by, {r, req[c].product})
        BY <2>1 DEF Answer
      <3> QED BY <1>1, <3>1, TellTyped
    <2>4. RoomFits' /\ Room' >= Room
      BY <1>1, <2>1, RoomKept DEF Answer
    <2> QED BY <2>2, <2>3, <2>4 DEF Counts
  <1>3. ASSUME StagePlaceholder(c) PROVE Counts
    <2>1. PICK r \in ReviewId :
            /\ InsertReview(r, req[c].line, Placeholder)
            /\ Continue(c, [req[c] EXCEPT !.pc = "model", !.review = r])
      BY <1>3 DEF StagePlaceholder
    <2>2. Moved
      BY <1>1, <2>1, ScoreAssumption DEF Moved
    <2> QED BY <1>1, <2>1, <2>2, ContinueCounts
  <1> QED BY <1>2, <1>3

\* An answer to a request that waits for no more.
LEMMA AnswerCounts ==
    ASSUME Access, RoomFits, NEW c \in Caller, AnswerProduct(c) \/ Propose(c) \/ Record(c)
    PROVE  Counts
  <1>1. /\ req[c].by \in Principal
        /\ {req[c].review, req[c].product} \subseteq ReviewId \cup Product \cup {None}
        /\ lines' = lines
    BY HoldsTyped DEF AnswerProduct, Propose, Record
  <1>2. AnswerTyped' /\ req' = [req EXCEPT ![c] = Resting]
    <2>1. \E about \in SUBSET (ReviewId \cup Product \cup {None}) : Answer(c, about)
      BY <1>1 DEF AnswerProduct, Propose, Record
    <2> QED BY <1>1, <2>1, TellTyped DEF Answer
  <1>3. RoomFits' /\ Room' >= Room
    BY <1>1, <1>2, RoomKept DEF Resting
  <1>4. ASSUME AnswerProduct(c) PROVE Moved
    BY <1>4 DEF AnswerProduct, Moved
  <1>5. ASSUME Propose(c) PROVE Moved
    <2>1. req[c].review \in ReviewId
      BY <1>5, CurrentRequest DEF Propose, At, Scoped
    <2> QED BY <1>5, <2>1 DEF Propose, Moved
  <1>6. ASSUME Record(c) PROVE Recorded /\ Room' >= Room + 1
    <2>1. c \in Carriers /\ req[c].line \in Line
      BY <1>6, HoldsTyped DEF Record, At
    <2>2. req[c].review \in ReviewId
      BY <1>6, CurrentRequest DEF Record, At, Scoped
    <2> QED BY <1>1, <1>2, <1>6, <2>1, <2>2, RoomGrows DEF Record, Recorded
  <1> QED BY <1>2, <1>3, <1>4, <1>5, <1>6 DEF Counts

\* What only reads, and what resolves, counts nothing.
LEMMA ResolvingCounts ==
    ASSUME Access, RoomFits,
           \/ LookUpProduct \/ GetReviewStatus \/ ListPending \/ ApproveReview \/ RejectReview
    PROVE  Counts
  <1>1. RoomFits' /\ Room' >= Room
    <2>1. UNCHANGED <<req, lines>>
      BY DEF LookUpProduct, GetReviewStatus, ListPending, ApproveReview, RejectReview,
             Approve, Reject
    <2> QED BY <2>1, RoomSame
  <1>2. Moved
    BY DEF LookUpProduct, GetReviewStatus, ListPending, ApproveReview, RejectReview,
           Approve, Reject, Moved
  <1> DEFINE Told == \E at \in Endpoint : \E a \in Admitted(at) :
          \E about \in SUBSET (ReviewId \cup Product \cup {None}) : Tell(a.by, about)
  <1>3. Told
    <2>1. {"approve", "reject", "list", "lookup_product", "get_review_status"} \subseteq Endpoint
      BY DEF Endpoint, Tools, Reviewing
    <2>2. ASSUME LookUpProduct PROVE Told
      BY <2>1, <2>2 DEF LookUpProduct
    <2>3. ASSUME GetReviewStatus PROVE Told
      BY <2>1, <2>3 DEF GetReviewStatus
    <2>4. ASSUME ListPending PROVE Told
      <3>1. PICK a \in Admitted("list"), limit \in 1..Cardinality(ReviewId) :
              \E S \in Listings(a.tenant, limit) : Tell(a.by, S)
        BY <2>4 DEF ListPending
      <3>2. PICK S \in Listings(a.tenant, limit) : Tell(a.by, S)
        BY <3>1
      <3>3. S \in SUBSET (ReviewId \cup Product \cup {None})
        BY <3>2 DEF Listings
      <3> QED BY <2>1, <3>2, <3>3
    <2>5. ASSUME ApproveReview PROVE Told
      BY <2>1, <2>5 DEF ApproveReview, Approve
    <2>6. ASSUME RejectReview PROVE Told
      BY <2>1, <2>6 DEF RejectReview, Reject
    <2> QED BY <2>2, <2>3, <2>4, <2>5, <2>6
  <1>4. AnswerTyped'
    BY <1>3, AdmittedScope, TellTyped
  <1> QED BY <1>1, <1>2, <1>4 DEF Counts

\* apply_action counts nothing, in its first step and in the one that resolves.
LEMMA ActionCounts ==
    ASSUME Access, RoomFits, NEW c \in Caller,
           ApplyAction(c) \/ ApproveByAction(c) \/ RejectByAction(c)
    PROVE  Counts
  <1>1. ASSUME ApplyAction(c) PROVE Counts
    <2>1. PICK a \in Admitted("action"), r \in ReviewId :
          \/ \E next \in {"approve", "reject"}, target \in OrNone(Product) :
                Continue(c, [Resting EXCEPT !.pc = next, !.by = a.by,
                       !.tenant = a.tenant, !.review = r, !.product = target])
          \/ Tell(a.by, {r}) /\ UNCHANGED req
      BY <1>1 DEF ApplyAction
    <2>2. Moved /\ lines' = lines
      BY <1>1 DEF ApplyAction, Moved
    <2>3. ASSUME NEW pc \in {"approve", "reject"}, NEW target \in OrNone(Product),
                 Continue(c, [Resting EXCEPT !.pc = pc, !.by = a.by,
                       !.tenant = a.tenant, !.review = r, !.product = target])
          PROVE  Counts
      <3>1. PICK next : next = [Resting EXCEPT !.pc = pc, !.by = a.by,
                       !.tenant = a.tenant, !.review = r, !.product = target]
        OBVIOUS
      <3>2. next.pc = pc
        BY <3>1 DEF Resting
      <3> QED BY <2>2, <2>3, <3>1, <3>2, ContinueCounts
    <2>4. ASSUME Tell(a.by, {r}), UNCHANGED req PROVE Counts
      <3>1. AnswerTyped'
        BY <2>4, AdmittedScope, TellTyped
      <3> QED BY <2>2, <2>4, <3>1, RoomSame DEF Counts
    <2> QED BY <2>1, <2>3, <2>4
  <1>2. ASSUME ApproveByAction(c) \/ RejectByAction(c) PROVE Counts
    <2>1. req[c].by \in Principal /\ req[c].review \in ReviewId
      BY <1>2, HoldsTyped, CurrentRequest DEF ApproveByAction, RejectByAction, At, Scoped
    <2>2. /\ Moved /\ lines' = lines /\ req' = [req EXCEPT ![c] = Resting]
          /\ \E about \in SUBSET (ReviewId \cup Product) : Tell(req[c].by, about)
      <3>1. ASSUME ApproveByAction(c) PROVE <2>2
        BY <2>1, <3>1 DEF ApproveByAction, Approve, Moved
      <3>2. ASSUME RejectByAction(c) PROVE <2>2
        BY <2>1, <3>2 DEF RejectByAction, Reject, Moved
      <3> QED BY <1>2, <3>1, <3>2
    <2>3. AnswerTyped'
      BY <2>1, <2>2, TellTyped
    <2>4. RoomFits' /\ Room' >= Room
      BY <2>2, RoomKept DEF Resting
    <2> QED BY <2>2, <2>3, <2>4 DEF Counts
  <1> QED BY <1>1, <1>2

\* Every step counts a line at most once.
LEMMA StepCounts == Access /\ RoomFits /\ AnswerTyped /\ [Next]_vars => Counts
  <1> SUFFICES ASSUME Access, RoomFits, AnswerTyped, [Next]_vars PROVE Counts
    OBVIOUS
  <1>1. CASE UNCHANGED vars
    BY <1>1, RoomSame DEF vars, Counts, Moved, AnswerTyped
  <1> QED BY <1>1, LineSteps, StageCounts, AnswerCounts, ResolvingCounts, ActionCounts DEF Next

\* A row that is ranked keeps its lines, amounts and score.
LEMMA RankedKeeps ==
    ASSUME NEW row \in Entry
    PROVE  /\ Ranked(row).lines = row.lines /\ Ranked(row).amounts = row.amounts
           /\ Ranked(row).score = row.score /\ Ranked(row).status = row.status
  BY DEF Ranked, Entry

\* An added amount is at most the bound more.
LEMMA AddedAmounts ==
    ASSUME NEW amounts \in [Currency -> Nat], NEW line \in Line, NEW k \in Currency
    PROVE  amounts[k] <= Added(amounts, line)[k] /\ Added(amounts, line)[k] <= amounts[k] + MaxAmount
  <1>1. line.currency \in Currency /\ line.amount \in -MaxAmount .. MaxAmount
    BY AmountAssumption DEF Line
  <1>2. Abs(line.amount) \in 0..MaxAmount
    BY <1>1, AmountAssumption DEF Abs
  <1>3. Added(amounts, line)[k] = amounts[k] + (IF k = line.currency THEN Abs(line.amount) ELSE 0)
    BY <1>1, <1>2 DEF Added
  <1> QED BY <1>2, <1>3, AmountAssumption

\* A new row has one line, and no more than its amount.
LEMMA NewRowFits ==
    ASSUME NEW line \in Line, NEW score \in Score, NEW room \in Nat
    PROVE  Fits(NewRow(line, score), room)
  <1> DEFINE row == [NoRow EXCEPT !.status = "pending", !.tenant = line.tenant,
                         !.concept = line.concept, !.lines = 1, !.score = score,
                         !.amounts = Added(NoAmounts, line)]
  <1>1. NoAmounts \in [Currency -> Nat] /\ \A k \in Currency : NoAmounts[k] = 0
    BY DEF NoAmounts
  <1>2. /\ Added(NoAmounts, line) \in [Currency -> Nat]
        /\ \A k \in Currency : Added(NoAmounts, line)[k] <= MaxAmount
    BY <1>1, AddedBounds, AddedAmounts, AmountAssumption
  <1>3. line.tenant \in Tenant /\ line.concept \in Concept
    BY DEF Line
  <1>4. row \in Entry /\ row.lines = 1 /\ row.amounts = Added(NoAmounts, line)
    BY <1>2, <1>3, NoRowIsEntry DEF Entry, OrNone
  <1>5. NewRow(line, score) = Ranked(row)
    BY DEF NewRow
  <1> HIDE DEF row
  <1>6. NewRow(line, score).lines = 1 /\ NewRow(line, score).amounts = Added(NoAmounts, line)
    BY <1>4, <1>5, RankedKeeps
  <1> QED BY <1>2, <1>6, AmountAssumption DEF Fits

\* More room does no harm.
LEMMA FitsMore ==
    ASSUME NEW row, NEW room \in Nat, NEW more \in Nat, more >= room, Fits(row, room)
    PROVE  Fits(row, more)
  BY DEF Fits

\* What a row shows is no more than any of its amounts may be.
LEMMA ShownAtMost ==
    ASSUME NEW amounts \in [Currency -> Nat], NEW top \in Nat,
           \A k \in Currency : amounts[k] <= top
    PROVE  Shown(amounts) \in 0..top
  <1>1. CASE Cardinality(Stated(amounts)) = 1
    <2>1. Stated(amounts) # {} /\ Stated(amounts) \subseteq Currency
      BY <1>1, FS_EmptySet DEF Stated
    <2> DEFINE only == CHOOSE k \in Stated(amounts) : TRUE
    <2>2. only \in Currency
      BY <2>1
    <2>3. Shown(amounts) = amounts[only]
      BY <1>1 DEF Shown
    <2> QED BY <2>2, <2>3
  <1>2. CASE Cardinality(Stated(amounts)) # 1
    BY <1>2 DEF Shown
  <1> QED BY <1>1, <1>2

\* Unless a second currency turns up, more of everything shows as more.
LEMMA ShownGrows ==
    ASSUME NEW a \in [Currency -> Nat], NEW b \in [Currency -> Nat],
           \A k \in Currency : a[k] <= b[k],
           ShownCurrency(b) \notin {"MIXED"} \ {ShownCurrency(a)}
    PROVE  Shown(a) <= Shown(b)
  <1>1. /\ Stated(a) \subseteq Stated(b) /\ Stated(b) \subseteq Currency
        /\ Shown(a) \in Nat /\ Shown(b) \in Nat
    BY ShownBounds DEF Stated
  <1>2. IsFiniteSet(Stated(b)) /\ IsFiniteSet({}) /\ Cardinality({}) = 0
    BY <1>1, CurrencyAssumption, FS_Subset, FS_EmptySet
  <1>3. CASE Cardinality(Stated(b)) = 1
    <2>1. PICK k : Stated(b) = {k}
      BY <1>2, <1>3, FS_Singleton
    <2>2. Shown(b) = b[k] /\ k \in Currency
      BY <1>1, <1>3, <2>1 DEF Shown
    <2>3. CASE Stated(a) = {}
      <3>1. Shown(a) = 0
        BY <1>2, <2>3 DEF Shown
      <3> QED BY <1>1, <3>1
    <2>4. CASE Stated(a) = {k}
      <3>1. Shown(a) = a[k]
        BY <2>4, FS_Singleton DEF Shown
      <3> QED BY <2>2, <3>1
    <2> QED BY <1>1, <2>1, <2>3, <2>4
  <1>4. CASE Cardinality(Stated(b)) # 1
    <2>1. CASE Stated(b) \subseteq {Unspecified}
      <3>1. Cardinality({Unspecified}) = 1
        BY FS_Singleton
      <3>2. Stated(b) = {}
        BY <1>4, <2>1, <3>1
      <3>3. Shown(a) = 0
        BY <1>1, <1>2, <3>2 DEF Shown
      <3> QED BY <1>1, <3>3
    <2>2. CASE ~(Stated(b) \subseteq {Unspecified})
      <3>1. ShownCurrency(b) = "MIXED"
        BY <1>4, <2>2 DEF ShownCurrency
      <3>2. Shown(a) = 0
        BY <3>1, ShownBounds
      <3> QED BY <1>1, <3>2
    <2> QED BY <2>1, <2>2
  <1> QED BY <1>3, <1>4

\* What fits is within the range Rank is known for.
LEMMA RankRange ==
    ASSUME NEW row \in Entry, NEW room \in 0..MaxLines, Fits(row, room)
    PROVE  /\ row.lines \in 1..(MaxLines + 1)
           /\ Shown(row.amounts) \in 0..((MaxLines + 1) * MaxAmount)
  <1>1. /\ row.amounts \in [Currency -> Nat] /\ row.lines \in 1..(MaxLines + 1)
        /\ MaxAmount \in Nat /\ MaxLines \in Nat
    BY LinesAssumption, AmountAssumption DEF Fits, Entry
  <1>2. row.lines * MaxAmount \in Nat /\ row.lines * MaxAmount <= (MaxLines + 1) * MaxAmount
    <2>1. \A m, n, v \in Nat : m <= n => m * v \in Nat /\ m * v <= n * v
      OBVIOUS
    <2>2. row.lines \in Nat /\ MaxLines + 1 \in Nat /\ row.lines <= MaxLines + 1
      BY <1>1
    <2> QED BY <1>1, <2>1, <2>2
  <1>3. Shown(row.amounts) \in 0..(row.lines * MaxAmount)
    BY <1>1, <1>2, ShownAtMost DEF Fits
  <1>4. (MaxLines + 1) * MaxAmount \in Nat
    BY <1>1
  <1> QED BY <1>1, <1>2, <1>3, <1>4

\* Counting a line on a row that fits needs room for one more.
LEMMA MoreFits ==
    ASSUME NEW row \in Entry, NEW room \in Nat, Fits(row, room), NEW line \in Line, NEW more,
           more = [row EXCEPT !.lines = @ + 1, !.amounts = Added(@, line)]
    PROVE  /\ more \in Entry /\ more.status = row.status
           /\ Ranked(more).lines = row.lines + 1 /\ Ranked(more).score = row.score
           /\ Ranked(more).amounts = Added(row.amounts, line)
           /\ Ranked(more).status = row.status
           /\ Fits(Ranked(more), room + 1)
  <1>1. /\ row.amounts \in [Currency -> Nat] /\ row.lines \in 1..(room + 1)
        /\ MaxAmount \in Nat /\ Added(row.amounts, line) \in [Currency -> Nat]
    BY AddedBounds, AmountAssumption DEF Fits, Entry
  <1> DEFINE n == row.lines + 1
             added == Added(row.amounts, line)
  <1>0. more = [row EXCEPT !.lines = n, !.amounts = added] /\ n \in Nat
    BY <1>1
  <1>2. /\ more \in Entry /\ more.lines = row.lines + 1 /\ more.score = row.score
        /\ more.amounts = Added(row.amounts, line) /\ more.status = row.status
    <2>1. added \in [Currency -> Nat] /\ n = row.lines + 1 /\ added = Added(row.amounts, line)
      BY <1>1
    <2> HIDE DEF n, added
    <2>2. more \in Entry /\ more.lines = n /\ more.score = row.score /\ more.amounts = added
          /\ more.status = row.status
      BY <1>0, <2>1 DEF Entry
    <2> QED BY <2>1, <2>2
  <1> HIDE DEF n, added
  <1>3. /\ Ranked(more).lines = row.lines + 1 /\ Ranked(more).score = row.score
        /\ Ranked(more).amounts = Added(row.amounts, line) /\ Ranked(more).status = row.status
    BY <1>2, RankedKeeps
  <1>4. ASSUME NEW k \in Currency
        PROVE  Added(row.amounts, line)[k] <= (row.lines + 1) * MaxAmount
    <2>1. row.amounts[k] <= row.lines * MaxAmount
      BY DEF Fits
    <2>2. Added(row.amounts, line)[k] <= row.amounts[k] + MaxAmount
      BY <1>1, AddedAmounts
    <2>3. row.amounts[k] \in Nat /\ Added(row.amounts, line)[k] \in Nat
      BY <1>1
    <2>4. \A l, m \in Nat : (l + 1) * m = l * m + m /\ l * m \in Nat
      OBVIOUS
    <2>5. /\ (row.lines + 1) * MaxAmount = row.lines * MaxAmount + MaxAmount
          /\ row.lines * MaxAmount \in Nat
      BY <1>1, <2>4
    <2> QED BY <1>1, <2>1, <2>2, <2>3, <2>5
  <1>5. row.lines + 1 \in 1..(room + 1 + 1)
    BY <1>1
  <1> QED BY <1>2, <1>3, <1>4, <1>5 DEF Fits

\* One more line, and no new second currency, makes a row no less urgent.
Raises(r) ==
    Waits(r) /\ rows'[r].lines > rows[r].lines
        /\ rows'[r].currency \notin {"MIXED"} \ {rows[r].currency}
    => rows'[r].priority >= rows[r].priority

\* One row changes, to one that fits.
LEMMA OneRowFits ==
    ASSUME RowsAgree, RowsFit, NEW r \in ReviewId, NEW entry, rows' = [rows EXCEPT ![r] = entry],
           IF entry.status = "pending" THEN Fits(entry, Room') ELSE entry.priority = 0,
           Room \in Nat, Room' \in Nat, Room' >= Room,
           Raises(r)
    PROVE  RowsFit' /\ \A x \in ReviewId : Raises(x)
  <1>1. rows \in [ReviewId -> Entry]
    BY DEF RowsAgree
  <1>2. rows'[r] = entry /\ \A x \in ReviewId \ {r} : rows'[x] = rows[x]
    BY <1>1
  <1>3. ASSUME NEW x \in ReviewId
        PROVE  IF rows'[x].status = "pending" THEN Fits(rows'[x], Room') ELSE rows'[x].priority = 0
    <2>1. CASE x = r
      BY <1>2, <2>1
    <2>2. CASE x # r
      <3>1. IF rows[x].status = "pending" THEN Fits(rows[x], Room) ELSE rows[x].priority = 0
        BY DEF RowsFit, Waits
      <3>2. Fits(rows[x], Room) => Fits(rows[x], Room')
        BY FitsMore
      <3> QED BY <1>2, <2>2, <3>1, <3>2
    <2> QED BY <2>1, <2>2
  <1>4. RowsFit'
    BY <1>3 DEF RowsFit, Waits, Fits
  <1>5. ASSUME NEW x \in ReviewId, x # r PROVE Raises(x)
    <2>1. rows'[x] = rows[x] /\ rows[x].lines \in Nat
      BY <1>1, <1>2, <1>5 DEF Entry
    <2>2. ~(rows'[x].lines > rows[x].lines)
      BY <2>1
    <2> QED BY <2>2 DEF Raises
  <1> QED BY <1>4, <1>5

\* The priority of a waiting row is the rank of what it shows.
LEMMA PriorityIsRank ==
    ASSUME Access, NEW r \in ReviewId, Waits(r)
    PROVE  /\ rows[r] \in Entry
           /\ rows[r].priority = Rank(rows[r].lines, Shown(rows[r].amounts), rows[r].score)
           /\ rows[r].currency = ShownCurrency(rows[r].amounts)
  BY DEF Access, RowsAgree, Agrees

\* Counting a line raises the row it is counted on.
LEMMA RecordedRaises ==
    ASSUME Access, RowsFit, RoomFits, NEW r \in ReviewId, NEW line \in Line, Waits(r),
           RecordOccurrence(r, line), RoomFits', Room' >= Room + 1
    PROVE  RowsFit' /\ \A x \in ReviewId : Raises(x)
  <1>1. PICK row : row = rows[r]
    OBVIOUS
  <1>2. /\ row \in Entry /\ row.currency = ShownCurrency(row.amounts)
        /\ row.priority = Rank(row.lines, Shown(row.amounts), row.score)
        /\ row.status = "pending"
    BY <1>1, PriorityIsRank DEF Waits
  <1>3. Room \in 0..MaxLines /\ Room' \in 0..MaxLines
    BY FS_CardinalityType, LinesAssumption DEF RoomFits, Room
  <1>4. PICK more : more = [row EXCEPT !.lines = @ + 1, !.amounts = Added(@, line)]
    OBVIOUS
  <1>5. PICK next : next = Ranked(more)
    OBVIOUS
  <1>6. Fits(row, Room)
    BY <1>1 DEF RowsFit
  <1>7. /\ more \in Entry /\ more.status = "pending" /\ next.lines = row.lines + 1
        /\ next.score = row.score /\ next.amounts = Added(row.amounts, line)
        /\ next.status = "pending" /\ Fits(next, Room + 1)
    <2>1. Room \in Nat
      BY <1>3
    <2>2. /\ more \in Entry /\ more.status = row.status
          /\ Ranked(more).lines = row.lines + 1 /\ Ranked(more).score = row.score
          /\ Ranked(more).amounts = Added(row.amounts, line)
          /\ Ranked(more).status = row.status
          /\ Fits(Ranked(more), Room + 1)
      <3>1. row \in Entry /\ Room \in Nat /\ Fits(row, Room) /\ line \in Line
        BY <1>2, <1>6, <2>1
      <3>2. \A m : m = [row EXCEPT !.lines = @ + 1, !.amounts = Added(@, line)] =>
              /\ m \in Entry /\ m.status = row.status
              /\ Ranked(m).lines = row.lines + 1 /\ Ranked(m).score = row.score
              /\ Ranked(m).amounts = Added(row.amounts, line)
              /\ Ranked(m).status = row.status
              /\ Fits(Ranked(m), Room + 1)
        BY <3>1, MoreFits
      <3> QED BY <1>4, <3>2
    <2> QED BY <1>2, <1>5, <2>2
  <1>8. /\ next \in Entry /\ next.currency = ShownCurrency(next.amounts)
        /\ next.priority = Rank(next.lines, Shown(next.amounts), next.score)
    BY <1>5, <1>7, RankedAgrees DEF Agrees
  <1>9. rows' = [rows EXCEPT ![r] = next] /\ rows'[r] = next
    BY <1>1, <1>4, <1>5 DEF RecordOccurrence, Access, RowsAgree
  <1>10. Fits(next, Room')
    <2>1. Room + 1 \in Nat /\ Room' \in Nat
      BY <1>3
    <2> QED BY <1>7, <2>1, FitsMore
  <1>11. ASSUME next.currency \notin {"MIXED"} \ {row.currency} PROVE next.priority >= row.priority
    <2>1. /\ row.lines \in 1..(MaxLines + 1) /\ next.lines \in 1..(MaxLines + 1)
          /\ Shown(row.amounts) \in 0..((MaxLines + 1) * MaxAmount)
          /\ Shown(next.amounts) \in 0..((MaxLines + 1) * MaxAmount)
      BY <1>2, <1>3, <1>6, <1>8, <1>10, RankRange
    <2>2. \A k \in Currency : row.amounts[k] <= next.amounts[k]
      BY <1>2, <1>7, AddedAmounts DEF Entry
    <2>3. Shown(row.amounts) <= Shown(next.amounts)
      BY <1>2, <1>8, <1>11, <2>2, ShownGrows DEF Entry
    <2>4. row.lines <= next.lines /\ row.score \in Score
      BY <1>2, <1>7, <2>1 DEF Entry
    <2>5. \A m, n \in 1..(MaxLines + 1), v, w \in 0..((MaxLines + 1) * MaxAmount), s \in Score :
             m <= n /\ v <= w => Rank(m, v, s) \in Nat /\ Rank(n, w, s) \in Nat
                                 /\ Rank(m, v, s) <= Rank(n, w, s)
      <3>1. \A s \in Score : s <= s
        BY ScoreAssumption
      <3> QED BY <3>1, RankAssumption
    <2>6. /\ Rank(row.lines, Shown(row.amounts), row.score) \in Nat
          /\ Rank(next.lines, Shown(next.amounts), row.score) \in Nat
          /\ Rank(row.lines, Shown(row.amounts), row.score)
                <= Rank(next.lines, Shown(next.amounts), row.score)
      BY <2>1, <2>3, <2>4, <2>5
    <2> QED BY <1>2, <1>7, <1>8, <2>6
  <1>12. Raises(r)
    BY <1>1, <1>9, <1>11 DEF Raises
  <1>13. Room \in Nat /\ Room' \in Nat /\ Room' >= Room
    BY <1>3
  <1> QED BY <1>7, <1>9, <1>10, <1>12, <1>13, OneRowFits DEF Access

\* Every step keeps the numbers in range, and lines only raise.
LEMMA NumberedStep == Access /\ Numbered /\ [Next]_vars => Numbered' /\ \A r \in ReviewId : Raises(r)
  <1> SUFFICES ASSUME Access, Numbered, [Next]_vars
               PROVE  Numbered' /\ \A r \in ReviewId : Raises(r)
    OBVIOUS
  <1>1. Counts /\ RoomFits'
    BY StepCounts DEF Numbered, Counts
  <1>2. Room \in Nat /\ Room' \in Nat
    <2>1. Cardinality(Carriers) \in Nat /\ Cardinality(Carriers') \in Nat
      BY <1>1, FS_CardinalityType DEF RoomFits, Numbered
    <2> QED BY <1>1, <2>1, LinesAssumption DEF RoomFits, Room, Numbered
  <1>3. RowsAgree /\ rows \in [ReviewId -> Entry] /\ RowsFit
    BY DEF Access, RowsAgree, Numbered
  <1>4. ASSUME Recorded, Room' >= Room + 1 PROVE RowsFit' /\ \A r \in ReviewId : Raises(r)
    BY <1>1, <1>4, RecordedRaises DEF Recorded, Numbered
  <1>5. ASSUME Moved, Room' >= Room PROVE RowsFit' /\ \A r \in ReviewId : Raises(r)
    <2>1. CASE UNCHANGED rows
      <3>1. \A r \in ReviewId : Raises(r)
        BY <1>3, <2>1 DEF Raises, Entry
      <3>2. \A r \in ReviewId : Fits(rows[r], Room) => Fits(rows[r], Room')
        BY <1>2, <1>5, FitsMore
      <3>3. RowsFit'
        BY <1>3, <2>1, <3>2 DEF RowsFit, Waits, Fits
      <3> QED BY <3>1, <3>3
    <2>2. ASSUME NEW r \in ReviewId, NEW line \in Line, NEW s \in Score, InsertReview(r, line, s)
          PROVE  RowsFit' /\ \A x \in ReviewId : Raises(x)
      <3>1. PICK entry : entry = NewRow(line, s)
        OBVIOUS
      <3>2. entry.status = "pending" /\ Fits(entry, Room')
        BY <1>2, <3>1, NewRowAgrees, NewRowFits
      <3>3. rows' = [rows EXCEPT ![r] = entry] /\ ~Waits(r)
        BY <2>2, <3>1 DEF InsertReview, Waits
      <3>4. Raises(r)
        BY <3>3 DEF Raises
      <3> QED BY <1>2, <1>3, <1>5, <3>2, <3>3, <3>4, OneRowFits
    <2>3. ASSUME NEW r \in ReviewId, NEW s \in Score, Waits(r), UpdatePending(r, s)
          PROVE  RowsFit' /\ \A x \in ReviewId : Raises(x)
      <3>1. PICK p : p = Rank(rows[r].lines, IF rows[r].currency = "MIXED" THEN 0 ELSE rows[r].shown, s)
        OBVIOUS
      <3>2. PICK entry : entry = [rows[r] EXCEPT !.score = s, !.priority = p]
        OBVIOUS
      <3>3. rows' = [rows EXCEPT ![r] = entry]
        BY <1>3, <2>3, <3>1, <3>2 DEF UpdatePending
      <3>4. /\ entry.status = "pending" /\ entry.lines = rows[r].lines
            /\ entry.amounts = rows[r].amounts /\ rows[r].lines \in Nat
        BY <1>3, <2>3, <3>2 DEF Entry, Waits
      <3>5. Fits(rows[r], Room')
        BY <1>2, <1>3, <1>5, <2>3, FitsMore DEF RowsFit
      <3>6. Fits(entry, Room')
        BY <3>4, <3>5 DEF Fits
      <3>7. rows'[r] = entry
        BY <1>3, <3>3
      <3>8. Raises(r)
        BY <3>4, <3>7 DEF Raises
      <3> QED BY <1>2, <1>3, <1>5, <3>3, <3>4, <3>6, <3>8, OneRowFits
    <2>4. ASSUME NEW r \in ReviewId, Resolve(r)
          PROVE  RowsFit' /\ \A x \in ReviewId : Raises(x)
      <3>1. PICK entry : entry = [NoRow EXCEPT !.status = "resolved", !.tenant = rows[r].tenant]
        OBVIOUS
      <3>2. entry.status = "resolved" /\ entry.lines = 0 /\ entry.priority = 0
        BY <3>1 DEF NoRow
      <3>3. rows' = [rows EXCEPT ![r] = entry] /\ rows'[r] = entry
        BY <1>3, <2>4, <3>1 DEF Resolve
      <3>4. rows[r].lines \in Nat
        BY <1>3 DEF Entry
      <3>5. Raises(r)
        BY <3>2, <3>3, <3>4 DEF Raises
      <3> QED BY <1>2, <1>3, <1>5, <3>2, <3>3, <3>5, OneRowFits
    <2> QED BY <1>5, <2>1, <2>2, <2>3, <2>4 DEF Moved
  <1> QED BY <1>1, <1>4, <1>5 DEF Numbered, Counts

\* At first nobody carries a line, and each waiting row has one.
LEMMA NumberedInit == Init => Numbered
  <1> SUFFICES ASSUME Init PROVE Numbered
    OBVIOUS
  <1>1. Carriers = {} /\ lines = 0
    BY DEF Init, Carriers, Resting
  <1>2. RoomFits /\ Room = 0
    BY <1>1, FS_EmptySet, LinesAssumption DEF RoomFits, Room
  <1>3. ASSUME NEW r \in ReviewId
        PROVE  IF Waits(r) THEN Fits(rows[r], Room) ELSE rows[r].priority = 0
    <2>1. rows[r] = IF Waiting[r] = None THEN NoRow ELSE NewRow(Waiting[r], Placeholder)
      BY DEF Init, RankingInit
    <2>2. CASE Waiting[r] = None
      BY <2>1, <2>2 DEF NoRow, Waits
    <2>3. CASE Waiting[r] # None
      <3>1. Waiting[r] \in Line /\ Placeholder \in Score
        BY <2>3, WaitingAssumption, ScoreAssumption
      <3>2. Fits(rows[r], Room) /\ Waits(r)
        BY <1>2, <2>1, <2>3, <3>1, NewRowFits, NewRowAgrees DEF Waits
      <3> QED BY <3>2
    <2> QED BY <2>2, <2>3
  <1>4. AnswerTyped
    BY DEF Init, NoAnswer, Host, Principal, OrNone, AnswerTyped
  <1> QED BY <1>2, <1>3, <1>4 DEF Numbered, RowsFit

\* What the tables, requests and answers hold has its type, priorities among them.
LEMMA NumberedTypes == Access /\ Numbered => TypeOK
  <1> SUFFICES ASSUME Access, Numbered PROVE TypeOK
    OBVIOUS
  <1>1. rows \in [ReviewId -> Entry]
    BY DEF Access, RowsAgree
  <1>2. ASSUME NEW r \in ReviewId PROVE rows[r].priority \in Nat
    <2>1. CASE Waits(r)
      <3>1. PICK row : row = rows[r]
        OBVIOUS
      <3>2. /\ row \in Entry /\ Fits(row, Room)
            /\ row.priority = Rank(row.lines, Shown(row.amounts), row.score)
        BY <2>1, <3>1, PriorityIsRank DEF Numbered, RowsFit
      <3>3. Room \in 0..MaxLines
        BY FS_CardinalityType, LinesAssumption DEF RoomFits, Room, Numbered
      <3>4. /\ row.lines \in 1..(MaxLines + 1) /\ row.score \in Score
            /\ Shown(row.amounts) \in 0..((MaxLines + 1) * MaxAmount)
        BY <3>2, <3>3, RankRange DEF Entry
      <3>5. Rank(row.lines, Shown(row.amounts), row.score) \in Nat
        BY <3>4, RankAssumption
      <3> QED BY <3>1, <3>2, <3>5
    <2>2. CASE ~Waits(r)
      BY <2>2 DEF Numbered, RowsFit
    <2> QED BY <2>1, <2>2
  <1>3. RowsTypeOK
    <2>1. ASSUME NEW r \in ReviewId PROVE rows[r] \in Row
      BY <1>1, <1>2 DEF Entry, Row, OrNone
    <2> QED BY <1>1, <2>1 DEF RowsTypeOK
  <1> QED BY <1>3 DEF TypeOK, Access, TablesOK, RequestsScoped, Numbered, RoomFits, AnswerTyped

\* The range of the numbers is an invariant together with the rest.
LEMMA AlwaysNumbered == Spec => [](Access /\ Numbered)
  <1>1. Init => Access /\ Numbered
    BY AccessInit, NumberedInit
  <1>2. Access /\ Numbered /\ [Next]_vars => (Access /\ Numbered)'
    BY AccessStep, NumberedStep
  <1> QED BY <1>1, <1>2, PTL DEF Spec

\* The tables, the requests under way and the answers keep their types: no line is
\* counted twice, so lines, amounts and priorities stay in the range that Rank is
\* known for.
THEOREM AccessTypes == Spec => []TypeOK
  <1>1. Access /\ Numbered => TypeOK
    BY NumberedTypes
  <1> QED BY <1>1, AlwaysNumbered, PTL

\* For every ranking that is monotone: whoever records a line meanwhile, and whatever
\* its amount, it never makes a review less urgent, unless it brings a second currency.
THEOREM LinesRaise == Spec => LinesOnlyRaise
  <1>1. Access /\ Numbered /\ [Next]_vars =>
          [\A r \in ReviewId :
              Waits(r) /\ rows'[r].lines > rows[r].lines
                  /\ rows'[r].currency \notin {"MIXED"} \ {rows[r].currency}
              => rows'[r].priority >= rows[r].priority]_rows
    BY NumberedStep DEF Raises
  <1> QED BY <1>1, AlwaysNumbered, PTL DEF Spec, LinesOnlyRaise
=============================================================================

---------------------------- MODULE TenantAccess ----------------------------
(***************************************************************************)
(* Who may do what to which tenant: requests to the HTTP API with API keys *)
(* or with authentication disabled (api/app.py, security/auth.py), to the  *)
(* /mcp endpoint and to an MCP server on stdio (mcp/server.py).  All of    *)
(* them may run at once on one catalog, one repository transaction, search *)
(* or model call per step.                                                 *)
(***************************************************************************)
EXTENDS ReviewRanking

CONSTANTS
    Caller,
    Token, Keys,   \* configured API keys, and the principal of each
    Arriving(_),   \* of a tenant's lines: <<concept, amount, currency>>
    Product,
    SeedProducts, SeedAliases

OrNone(S) == S \cup {None}

Role == {"processor", "reviewer"}
Principal == [tenant : OrNone(Tenant), roles : SUBSET Role]

\* ApiKeyAuthenticator.from_environment: a key has a tenant and a role.
ASSUME KeysAssumption ==
    Keys \in [Token -> [tenant : Tenant, roles : (SUBSET Role) \ {{}}]]
ASSUME ArrivingAssumption ==
    \A t \in Tenant : Arriving(t) \subseteq Concept \X Amount \X Currency
\* Seeded aliases lead to products of their tenant.
ASSUME SeedAssumption ==
    /\ SeedProducts \in [Product -> OrNone(Tenant)]
    /\ SeedAliases \in [Tenant -> [Concept -> OrNone(Product)]]
    /\ \A t \in Tenant, k \in Concept :
          SeedAliases[t][k] # None => SeedProducts[SeedAliases[t][k]] = t
ASSUME NoneAssumption == None \notin Tenant \cup Concept \cup ReviewId \cup Product \cup Token
\* A product is named product-<uuid>, a review by a uuid alone.
ASSUME IdentifierAssumption == ReviewId \cap Product = {}

VARIABLES
    products,  \* tenant of each canonical product, or None
    aliases,   \* product of a tenant's approved alias for a concept, or None
    lines,     \* lines admitted so far
    req,       \* a request of several steps that a caller has made
    answer     \* history: the answer given in this step, to whom and, for a
               \* caller with a key, about what

vars == <<rows, products, aliases, lines, req, answer>>

-----------------------------------------------------------------------------
(* Callers, roles and tenants *)

Tools == {"canonicalize_line", "lookup_product", "get_review_status"}
Reviewing == {"approve", "reject", "action", "list"}
Endpoint == {"canonicalize"} \cup Tools \cup Reviewing

\* Mutant: the action endpoint asks for a processor.
RoleForAction(e) == IF e \in Reviewing \ {"action"} THEN "reviewer" ELSE "processor"

RoleFor(e) == IF e \in Reviewing THEN "reviewer" ELSE "processor"

\* Who calls: a key's principal, anybody when authentication is disabled, or
\* the host of an MCP server on stdio, which asks nobody.
Disabled == [tenant |-> None, roles |-> Role]
Host == [tenant |-> None, roles |-> {}]
Callers == {Keys[token] : token \in Token} \cup {Disabled, Host}

\* The routes of the application ask for a role; stdio serves the tools.
MayUse(by, at) == IF by = Host THEN at \in Tools ELSE RoleFor(at) \in by.roles

\* Mutant: a tenant that the caller names wins over the authenticated one.
TenantAsSupplied(principal, supplied) ==
    IF supplied # None THEN supplied ELSE principal.tenant

\* resolve_tenant, and McpServer._tenant alike; None when the call is refused.
ResolveTenant(principal, supplied) ==
    IF principal.tenant = None THEN supplied
    ELSE IF supplied \in {None, principal.tenant} THEN principal.tenant
    ELSE None

-----------------------------------------------------------------------------
(* A request.  Its checks read nothing that is shared, so they are one step *)
(* with its first transaction; what fails them gets an error and changes    *)
(* nothing.                                                                 *)

Request == [pc      : {"idle", "product", "pending", "search", "stage", "lost",
                       "record", "model", "approve", "reject"},
            by      : Principal,
            tenant  : OrNone(Tenant),    \* tenant_id of every query of the request
            line    : OrNone(Line),
            review  : OrNone(ReviewId),
            product : OrNone(Product)]

Resting == [pc |-> "idle", by |-> Host, tenant |-> None, line |-> None,
            review |-> None, product |-> None]

NoAnswer == [by |-> Host, about |-> {}]

Init ==
    /\ RankingInit
    /\ products = SeedProducts
    /\ aliases = SeedAliases
    /\ lines = 0
    /\ req = [c \in Caller |-> Resting]
    /\ answer = NoAnswer

\* Who gets in at an endpoint, and with which tenant.
Admitted(at) ==
    {a \in [by : Callers, tenant : Tenant] :
        /\ MayUse(a.by, at)
        /\ \E supplied \in OrNone(Tenant) : ResolveTenant(a.by, supplied) = a.tenant}

At(c, pc) == req[c].pc = pc
Continue(c, next) == req' = [req EXCEPT ![c] = next] /\ answer' = NoAnswer
Go(c, pc) == Continue(c, [req[c] EXCEPT !.pc = pc])

Tell(by, about) ==
    answer' = [by |-> by, about |-> IF by.tenant = None THEN {} ELSE about \ {None}]
Answer(c, about) == req' = [req EXCEPT ![c] = Resting] /\ Tell(req[c].by, about)

\* An error instead of an answer: 409, 422 or the error of a tool.
Fail(c) == Continue(c, Resting)

-----------------------------------------------------------------------------
(* canonicalize, as far as tenants and urgency go: a line that knowledge   *)
(* answers, that joins a pending review, or that stages one                *)

\* A tool passes neither amount nor currency.
LineFor(at, tenant, given) ==
    [tenant |-> tenant, concept |-> given[1],
     amount |-> IF at = "canonicalize" THEN given[2] ELSE 0,
     currency |-> IF at = "canonicalize" THEN given[3] ELSE Unspecified]

Canonicalize(c) ==
    /\ At(c, "idle")
    /\ lines < MaxLines
    /\ lines' = lines + 1
    /\ \E at \in {"canonicalize", "canonicalize_line"} :
          \E a \in Admitted(at) : \E given \in Arriving(a.tenant) :
             LET p == aliases[a.tenant][given[1]] IN
             Continue(c, [Resting EXCEPT
                 !.pc = IF p = None THEN "pending" ELSE "product", !.by = a.by,
                 !.tenant = a.tenant, !.line = LineFor(at, a.tenant, given), !.product = p])
    /\ UNCHANGED <<rows, products, aliases>>

\* get_product, for an exact alias.
AnswerProduct(c) ==
    /\ At(c, "product")
    /\ products[req[c].product] = req[c].tenant
    /\ Answer(c, {req[c].product})
    /\ UNCHANGED <<rows, products, aliases, lines>>

Pending(c) == PendingFor(req[c].line.tenant, req[c].line.concept)

Attach(c) ==
    /\ At(c, "pending") \/ At(c, "lost")
    /\ \E r \in Pending(c) : Continue(c, [req[c] EXCEPT !.pc = "record", !.review = r])
    /\ UNCHANGED <<rows, products, aliases, lines>>

NothingPending(c) ==
    /\ At(c, "pending")
    /\ Pending(c) = {}
    /\ Go(c, "search")
    /\ UNCHANGED <<rows, products, aliases, lines>>

\* list_aliases: what retrieval may find.
Known(tenant) ==
    {p \in Product : products[p] = tenant /\ \E k \in Concept : aliases[tenant][k] = p}

Search(c) ==
    /\ At(c, "search")
    /\ \E top \in OrNone(Known(req[c].tenant)) :
          Continue(c, [req[c] EXCEPT !.pc = "stage", !.product = top])
    /\ UNCHANGED <<rows, products, aliases, lines>>

\* A review for a product retrieved with certainty, or one that asks a human.
StageFinal(c) ==
    /\ At(c, "stage")
    /\ \E r \in ReviewId :
          /\ \E s \in IF req[c].product = None THEN {Placeholder} ELSE Score :
                InsertReview(r, req[c].line, s)
          /\ Answer(c, {r, req[c].product})
    /\ UNCHANGED <<products, aliases, lines>>

StagePlaceholder(c) ==
    /\ At(c, "stage")
    /\ \E r \in ReviewId :
          /\ InsertReview(r, req[c].line, Placeholder)
          /\ Continue(c, [req[c] EXCEPT !.pc = "model", !.review = r])
    /\ UNCHANGED <<products, aliases, lines>>

LoseClaim(c) ==
    /\ At(c, "stage")
    /\ Pending(c) # {}
    /\ Go(c, "lost")
    /\ UNCHANGED <<rows, products, aliases, lines>>

\* The IntegrityError is raised again.
WinnerIsGone(c) ==
    /\ At(c, "lost")
    /\ Pending(c) = {}
    /\ Fail(c)
    /\ UNCHANGED <<rows, products, aliases, lines>>

\* An automatic resolution that lost its claim names its product all the same.
Record(c) ==
    /\ At(c, "record")
    /\ Waits(req[c].review)
    /\ RecordOccurrence(req[c].review, req[c].line)
    /\ Answer(c, {req[c].review, req[c].product})
    /\ UNCHANGED <<products, aliases, lines>>

\* The model answers, or fails and leaves the placeholder's score.
Propose(c) ==
    /\ At(c, "model")
    /\ Waits(req[c].review)
    /\ \E s \in Score : UpdatePending(req[c].review, s)
    /\ Answer(c, {req[c].review, req[c].product})
    /\ UNCHANGED <<products, aliases, lines>>

\* ReviewNotFoundError: a reviewer was faster.
RowIsResolved(c) ==
    /\ At(c, "record") \/ At(c, "model")
    /\ ~Waits(req[c].review)
    /\ Fail(c)
    /\ UNCHANGED <<rows, products, aliases, lines>>

-----------------------------------------------------------------------------
(* Reading *)

LookUpProduct ==
    /\ \E a \in Admitted("lookup_product"), p \in Product :
          products[p] = a.tenant /\ Tell(a.by, {p})
    /\ UNCHANGED <<rows, products, aliases, lines, req>>

\* The row of a review exists, and in this tenant.
Has(tenant, r) == rows[r].status # "absent" /\ rows[r].tenant = tenant

GetReviewStatus ==
    /\ \E a \in Admitted("get_review_status"), r \in ReviewId :
          Has(a.tenant, r) /\ Tell(a.by, {r})
    /\ UNCHANGED <<rows, products, aliases, lines, req>>

ListPending ==
    /\ \E a \in Admitted("list"), limit \in 1..Cardinality(ReviewId) :
          \E S \in Listings(a.tenant, limit) : Tell(a.by, S)
    /\ UNCHANGED <<rows, products, aliases, lines, req>>

-----------------------------------------------------------------------------
(* Resolving *)

\* The transaction of approve_review for product p: a new one, or the target.
Approve(by, tenant, r, target, p) ==
    /\ Has(tenant, r) /\ Waits(r)
    /\ IF target = None
         THEN products[p] = None /\ products' = [products EXCEPT ![p] = tenant]
         ELSE p = target /\ products[p] = tenant /\ UNCHANGED products
    /\ Resolve(r)
    /\ aliases' = [aliases EXCEPT ![tenant][rows[r].concept] = p]
    /\ Tell(by, {r, p})
    /\ UNCHANGED lines

\* The transaction of reject_review.
Reject(by, tenant, r) ==
    /\ Has(tenant, r) /\ Waits(r)
    /\ Resolve(r)
    /\ Tell(by, {r})
    /\ UNCHANGED <<products, aliases, lines>>

ApproveReview ==
    /\ \E a \in Admitted("approve"), r \in ReviewId, target \in OrNone(Product), p \in Product :
          Approve(a.by, a.tenant, r, target, p)
    /\ UNCHANGED req

RejectReview ==
    /\ \E a \in Admitted("reject"), r \in ReviewId : Reject(a.by, a.tenant, r)
    /\ UNCHANGED req

\* apply_action reads the review before it approves or rejects in a
\* transaction of its own; waiting and defer end here.
ApplyAction(c) ==
    /\ At(c, "idle")
    /\ \E a \in Admitted("action"), r \in ReviewId :
          /\ Has(a.tenant, r) /\ Waits(r)
          /\ \/ \E next \in {"approve", "reject"}, target \in OrNone(Product) :
                   /\ next = "reject" => target = None
                   /\ Continue(c, [Resting EXCEPT !.pc = next, !.by = a.by,
                          !.tenant = a.tenant, !.review = r, !.product = target])
             \/ Tell(a.by, {r}) /\ UNCHANGED req
    /\ UNCHANGED <<rows, products, aliases, lines>>

ApproveByAction(c) ==
    /\ At(c, "approve")
    /\ \E p \in Product :
          Approve(req[c].by, req[c].tenant, req[c].review, req[c].product, p)
    /\ req' = [req EXCEPT ![c] = Resting]

RejectByAction(c) ==
    /\ At(c, "reject")
    /\ Reject(req[c].by, req[c].tenant, req[c].review)
    /\ req' = [req EXCEPT ![c] = Resting]

\* Resolved since it was read, or a target out of scope.
Conflict(c) ==
    /\ \/ At(c, "approve") /\ req[c].product # None
            /\ products[req[c].product] # req[c].tenant
       \/ (At(c, "approve") \/ At(c, "reject")) /\ ~Waits(req[c].review)
    /\ Fail(c)
    /\ UNCHANGED <<rows, products, aliases, lines>>

Next ==
    \/ \E c \in Caller :
          \/ Canonicalize(c) \/ AnswerProduct(c)
          \/ Attach(c) \/ NothingPending(c) \/ Search(c)
          \/ StageFinal(c) \/ StagePlaceholder(c) \/ LoseClaim(c) \/ WinnerIsGone(c)
          \/ Record(c) \/ Propose(c) \/ RowIsResolved(c)
          \/ ApplyAction(c) \/ ApproveByAction(c) \/ RejectByAction(c) \/ Conflict(c)
    \/ LookUpProduct \/ GetReviewStatus \/ ListPending
    \/ ApproveReview \/ RejectReview

Spec == Init /\ [][Next]_vars

-----------------------------------------------------------------------------
(* Properties *)

TypeOK ==
    /\ RowsTypeOK
    /\ products \in [Product -> OrNone(Tenant)]
    /\ aliases \in [Tenant -> [Concept -> OrNone(Product)]]
    /\ lines \in 0..MaxLines
    /\ req \in [Caller -> Request]
    /\ answer \in [by : Principal, about : SUBSET (ReviewId \cup Product)]

OwnerOf(x) == IF x \in Product THEN products[x] ELSE rows[x].tenant

\* What a caller with a key is told of or changes belongs to the tenant of the
\* key, whatever tenant, review or target it names, and approved knowledge of
\* a tenant leads to its own products: resolve_tenant and the tenant_id of
\* every query (docs/threat_model.md:45).
TenantsStayApart ==
    /\ answer.by.tenant # None => \A x \in answer.about : OwnerOf(x) = answer.by.tenant
    /\ \A t \in Tenant, k \in Concept :
          aliases[t][k] # None => products[aliases[t][k]] = t

\* A pending review is resolved, and approved knowledge changed, only in the
\* answer to a reviewer, whatever other requests are under way: no tool and no
\* processor does (mcp/server.py:55, security/auth.py:103-105).
OnlyReviewersResolve ==
    [][aliases' # aliases \/ (\E r \in ReviewId : Waits(r) /\ rows'[r].status # "pending")
       => "reviewer" \in answer'.by.roles]_vars
=============================================================================

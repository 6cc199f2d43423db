------------------------------ MODULE ModelCalls ------------------------------
(***************************************************************************)
(* Model calls made on behalf of one document: CostBudget                  *)
(* (application/budget.py), which reserves a call before it is made and    *)
(* registers its cost afterwards, and OpenAICompatibleProvider             *)
(* (infrastructure/llm/openai_compatible.py), which sends one request and  *)
(* repeats it when it fails in a way worth repeating.  A budget belongs to *)
(* one call of IngestionService.process and is used by one thread.         *)
(***************************************************************************)
EXTENDS Naturals

CONSTANTS
    Process,      \* who processes documents
    MaxCalls,     \* max_model_calls_per_document
    MaxCost,      \* max_cost_usd_per_document
    MaxRetries,   \* of the provider, per call
    Estimates,    \* what estimate_cost may return
    Costs         \* what the provider may charge for one request

ASSUME LimitsAssumption == MaxCalls \in Nat /\ MaxCost \in Nat /\ MaxRetries \in Nat
ASSUME MoneyAssumption == Estimates \subseteq Nat /\ Costs \subseteq Nat

VARIABLES
    budget,       \* the CostBudget of each process
    modelCall,    \* the call it is making
    bill          \* history: requests sent, and what the provider charged

money == <<budget, modelCall, bill>>

Budget == [calls : 0..MaxCalls, cost : Nat]

\* refused: no call.  failed: ProviderError.  broken: an error of the
\* connection that _send_with_retry does not know.  overrun: the answer is
\* there, but its cost exceeds the budget.
ModelCall == [pc : {"none", "send", "register", "answered", "refused", "overrun", "failed", "broken"},
              attempt : Nat,
              cost : Nat]       \* of the answer, not registered yet

Bill == [requests : Nat, charged : Nat]

NoBudgetUsed == [calls |-> 0, cost |-> 0]

NoCall == [pc |-> "none", attempt |-> 0, cost |-> 0]

NoBill == [requests |-> 0, charged |-> 0]

MoneyTypeOK ==
    /\ budget \in [Process -> Budget]
    /\ modelCall \in [Process -> ModelCall]
    /\ bill \in [Process -> Bill]

MoneyInit ==
    /\ budget = [w \in Process |-> NoBudgetUsed]
    /\ modelCall = [w \in Process |-> NoCall]
    /\ bill = [w \in Process |-> NoBill]

Calling(w, pc) == modelCall[w].pc = pc

Ends(w, how) == modelCall' = [modelCall EXCEPT ![w] = [NoCall EXCEPT !.pc = how]]

Answers == {"answered", "refused", "overrun", "failed", "broken"}

-----------------------------------------------------------------------------
(* CostBudget *)

\* Mutant: the call being reserved is not counted.
AffordableOnceMore(w, estimate) ==
    /\ budget[w].calls <= MaxCalls
    /\ budget[w].cost + estimate <= MaxCost

\* Mutant: only the number of calls is looked at.
AffordableByNumber(w, estimate) == budget[w].calls + 1 <= MaxCalls

Affordable(w, estimate) ==
    /\ budget[w].calls + 1 <= MaxCalls
    /\ budget[w].cost + estimate <= MaxCost

ReserveCall(w) ==
    /\ Calling(w, "none")
    /\ \E estimate \in Estimates : Affordable(w, estimate)
    /\ budget' = [budget EXCEPT ![w].calls = @ + 1]
    /\ Ends(w, "send")
    /\ UNCHANGED bill

RefuseCall(w) ==
    /\ Calling(w, "none")
    /\ \E estimate \in Estimates : ~Affordable(w, estimate)
    /\ Ends(w, "refused")
    /\ UNCHANGED <<budget, bill>>

\* register_actual_cost adds the cost and only then compares.
RegisterCost(w) ==
    /\ Calling(w, "register")
    /\ LET cost == budget[w].cost + modelCall[w].cost IN
       /\ budget' = [budget EXCEPT ![w].cost = cost]
       /\ Ends(w, IF cost > MaxCost THEN "overrun" ELSE "answered")
    /\ UNCHANGED bill

-----------------------------------------------------------------------------
(* The provider *)

Charge(w, cost) ==
    bill' = [bill EXCEPT ![w].requests = @ + 1, ![w].charged = @ + cost]

\* Mutant: a repeated request is not counted as an attempt.
RetryUncounted(w) ==
    /\ Calling(w, "send")
    /\ \E cost \in Costs \cup {0} : Charge(w, cost)
    /\ UNCHANGED <<budget, modelCall>>

\* 429, 5xx, a time-out, no connection, or a body that is not JSON: the
\* provider may have charged for it, nothing here learns what.
Retry(w) ==
    /\ Calling(w, "send")
    /\ modelCall[w].attempt < MaxRetries
    /\ \E cost \in Costs \cup {0} : Charge(w, cost)
    /\ modelCall' = [modelCall EXCEPT ![w].attempt = @ + 1]
    /\ UNCHANGED budget

Respond(w) ==
    /\ Calling(w, "send")
    /\ \E cost \in Costs :
          /\ Charge(w, cost)
          /\ modelCall' = [modelCall EXCEPT ![w].pc = "register", ![w].cost = cost]
    /\ UNCHANGED budget

\* The last attempt fails, or one that is not repeated (another HTTP status),
\* or the answer breaks the JSON contract: its cost is known and dropped.
GiveUp(w) ==
    /\ Calling(w, "send")
    /\ \E cost \in Costs \cup {0} : Charge(w, cost)
    /\ Ends(w, "failed")
    /\ UNCHANGED budget

\* No credential is configured: no request is sent.
NoCredential(w) ==
    /\ Calling(w, "send")
    /\ modelCall[w].attempt = 0
    /\ Ends(w, "failed")
    /\ UNCHANGED <<budget, bill>>

\* The connection breaks while the answer is awaited or read.
Disconnect(w) ==
    /\ Calling(w, "send")
    /\ \E cost \in Costs \cup {0} : Charge(w, cost)
    /\ Ends(w, "broken")
    /\ UNCHANGED budget

Await(w) ==
    Retry(w) \/ Respond(w) \/ GiveUp(w) \/ NoCredential(w) \/ Disconnect(w) \/ RegisterCost(w)
=============================================================================

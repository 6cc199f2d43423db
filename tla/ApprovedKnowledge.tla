-------------------------- MODULE ApprovedKnowledge --------------------------
(***************************************************************************)
(* What the review workflow promises about approved knowledge, whatever    *)
(* the workers, reviewers and crashes do: a concept has at most one open   *)
(* question at a time, a question is answered once, and an alias changes   *)
(* only in the step that approves an open question about that concept, to  *)
(* a product that is in the catalog.  (README.md: "Unreviewed model output *)
(* never enters the approved catalog.")                                    *)
(***************************************************************************)
CONSTANTS Concept, Product, Question, None

VARIABLES
    known,      \* product each concept is known by, or None
    catalog,    \* products: absent, active or inactive
    question    \* status and concept of every question

Asked(q, c) == question[q].status = "pending" /\ question[q].concept = c

Unasked == [status |-> "absent", concept |-> None]

\* No question has been asked; what is known is in the catalog.
Init ==
    /\ known \in [Concept -> Product \cup {None}]
    /\ catalog \in [Product -> {"absent", "active"}]
    /\ \A c \in Concept : known[c] # None => catalog[known[c]] = "active"
    /\ question = [q \in Question |-> Unasked]

Ask(q, c) ==
    /\ question[q] = Unasked
    /\ \A other \in Question : ~Asked(other, c)
    /\ question' = [question EXCEPT ![q] = [status |-> "pending", concept |-> c]]
    /\ UNCHANGED <<known, catalog>>

Answer(q, c, p) ==
    /\ Asked(q, c)
    /\ catalog[p] \in {"absent", "active"}
    /\ catalog' = [catalog EXCEPT ![p] = "active"]
    /\ known' = [known EXCEPT ![c] = p]
    /\ question' = [question EXCEPT ![q].status = "approved"]

Dismiss(q, c) ==
    /\ Asked(q, c)
    /\ question' = [question EXCEPT ![q].status = "rejected"]
    /\ UNCHANGED <<known, catalog>>

Withdraw(p) ==
    /\ catalog[p] = "active"
    /\ catalog' = [catalog EXCEPT ![p] = "inactive"]
    /\ UNCHANGED <<known, question>>

Next ==
    \/ \E q \in Question, c \in Concept :
          \/ Ask(q, c)
          \/ \E p \in Product : Answer(q, c, p)
          \/ Dismiss(q, c)
    \/ \E p \in Product : Withdraw(p)

Spec == Init /\ [][Next]_<<known, catalog, question>>
=============================================================================

------------------------------ MODULE MCKnowledge ------------------------------
(* Small instances of KnowledgeWorkflow. *)
EXTENDS KnowledgeWorkflow, TLC

CONSTANTS c1, c2, p1

\* c2 comes with an approved alias, so that retrieval has a candidate.
MCSeed == [c \in Concept |-> IF c = c2 THEN p1 ELSE None]

\* Lines with the unknown description, read as plain text.
MCPlain == {<<c1, FALSE>>}

\* The unknown description, plain or flagged, and the known one.
MCMixed == {<<c1, FALSE>>, <<c1, TRUE>>, <<c2, FALSE>>}

\* Only the seeded product is told apart.
MCSymmetry == Permutations(Worker) \cup Permutations(ReviewId) \cup Permutations(Product \ {p1})
=============================================================================

-------------------------------- MODULE MCQueue --------------------------------
(* Small instances of ReviewQueue. *)
EXTENDS ReviewQueue, TLC

CONSTANTS c1, c2, c3, t1, t2, p1

MCSeed == [c \in Concept |-> IF c = c2 THEN p1 ELSE None]

\* One tenant has two concepts, the other the rest.
MCOwner == [c \in Concept |-> IF c = c3 THEN t2 ELSE t1]

MCSymmetry == Permutations(ReviewId) \cup Permutations(Clerk)
=============================================================================

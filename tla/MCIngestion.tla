------------------------------ MODULE MCIngestion ------------------------------
(* Small instances of DocumentIngestion. *)
EXTENDS DocumentIngestion, TLC

CONSTANTS d1, l1, l2, a, b

First(text) == [l \in LineId |-> IF l = l1 THEN text ELSE None]

Both == [l \in LineId |-> IF l = l1 THEN a ELSE b]

\* d1 has a parser that reads it; of any other document only a model can.
MCNative == [d \in Document |-> IF d = d1 THEN Both ELSE Unread]

MCReadings == {[lines |-> Both, sound |-> TRUE], [lines |-> First(b), sound |-> TRUE],
               [lines |-> First(a), sound |-> FALSE]}

MCSymmetry == Permutations(Process) \cup Permutations(Partner)
=============================================================================

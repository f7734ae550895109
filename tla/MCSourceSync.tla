--------------------------- MODULE MCSourceSync ---------------------------
(* Instances of SourceSync for TLC: a source that changes, beside one that *)
(* keeps its evidence and only comes to rest.                              *)
EXTENDS SourceSync, TLC

CONSTANTS p1, p2, s1, s2, f1, f2

ChangesOnce == [s \in Sources |-> IF s = s1 THEN 1 ELSE 0]
ChangesTwice == [s \in Sources |-> IF s = s1 THEN 2 ELSE 0]
EitherPoller == Permutations(Pollers)
============================================================================

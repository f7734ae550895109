--------------------------- MODULE MCVerifiedRead ---------------------------
(* Instances of VerifiedRead for TLC. *)
EXTENDS VerifiedRead, TLC

CONSTANTS m1, s1, s2, k1, t1, x1, x2, e1

Proposal(op, n, content) ==
  [scope |-> s1, op |-> op, base |-> IF op = "create" THEN None ELSE m1,
   baseRevision |-> n, semanticKey |-> k1, memoryType |-> t1, content |-> content,
   evidence |-> {e1}, producer |-> "user", proof |-> None, certain |-> TRUE]

(* One memory revised and tombstoned, another memory beside it. *)
RevisedInputs ==
  { Proposal("create", 0, x1), Proposal("update", 1, x1), Proposal("update", 1, x2),
    Proposal("tombstone", 1, x1), Proposal("tombstone", 2, x1), Proposal("merge", 1, x2),
    [Proposal("create", 0, x1) EXCEPT !.semanticKey = None] }

(* A memory tombstoned and restored; the restoring candidate has a text of *)
(* its own, as every candidate must.                                       *)
RestoredInputs ==
  { Proposal("create", 0, x1), Proposal("tombstone", 1, x1), Proposal("restore", 2, x2) }

Symmetry == Permutations(CandidateIds) \cup Permutations(Keys)
=============================================================================

------------------------ MODULE MCCanonicalAuthority ------------------------
(***************************************************************************)
(* Small instances of CanonicalAuthority for TLC.  The inputs are the      *)
(* candidates callers may submit.  Three of them make a chain of create,   *)
(* change and change, or a commit, its competitor and a retry.             *)
(***************************************************************************)
EXTENDS CanonicalRefinement, TLC

CONSTANTS m1, s1, s2, k1, k2, t1, t2, x1, x2, e1, e2

(* A user's candidate in s1 about the key k1. *)
UserInput(op, n, content, ev) ==
  [scope |-> s1, op |-> op, base |-> IF op = "create" THEN None ELSE m1,
   baseRevision |-> n, semanticKey |-> k1, memoryType |-> t1,
   content |-> content, evidence |-> {ev}, producer |-> "user",
   proof |-> None, certain |-> TRUE]

ByProvider(in, proof, certain) ==
  [in EXCEPT !.producer = "provider", !.proof = proof, !.certain = certain]

CommitInputs ==
  { UserInput("create", 0, x1, e1),
    ByProvider(UserInput("create", 0, x1, e2), "canonical_candidate", TRUE),
    ByProvider(UserInput("create", 0, x1, e2), "canonical_candidate", FALSE),
    [UserInput("create", 0, x2, e1) EXCEPT !.semanticKey = None, !.memoryType = None],
    UserInput("update", 1, x2, e1),
    [UserInput("update", 2, x2, e2) EXCEPT !.semanticKey = None, !.memoryType = None],
    [UserInput("update", 1, x2, e1) EXCEPT !.scope = s2],
    [UserInput("update", 1, x2, e2) EXCEPT !.memoryType = t2],
    ByProvider(UserInput("update", 1, x1, e2), "canonical_candidate", TRUE),
    UserInput("merge", 1, x2, e2),
    ByProvider(UserInput("merge", 1, x1, e2), "canonical_merge", TRUE),
    UserInput("tombstone", 1, x2, e2),
    UserInput("restore", 2, x2, e2),
    UserInput("supersede", 1, x2, e2) }

Symmetry ==
  Permutations(CandidateIds) \cup Permutations(Keys) \cup Permutations(Callers)
=============================================================================

-------------------------- MODULE MCPostgresCommit --------------------------
(***************************************************************************)
(* A small instance of PostgresCommit for TLC.                              *)
(***************************************************************************)
EXTENDS PostgresCommit, TLC

CONSTANTS m1, s1, k1, t1, x1, e1

Input(op, n) ==
  [scope |-> s1, op |-> op, base |-> IF op = "create" THEN None ELSE m1,
   baseRevision |-> n, semanticKey |-> k1, memoryType |-> t1,
   content |-> x1, evidence |-> {e1}, producer |-> "user",
   proof |-> None, certain |-> TRUE]

(* Candidates that race for an identity, for a base revision and, across  *)
(* identities, for the scope's sequence.                                  *)
PgInputs ==
  { Input("create", 0),
    [Input("create", 0) EXCEPT !.semanticKey = None, !.producer = "provider",
                               !.proof = "canonical_candidate"],
    Input("update", 1),
    Input("tombstone", 1) }

Symmetry ==
  Permutations(CandidateIds) \cup Permutations(Keys) \cup Permutations(Callers)
=============================================================================

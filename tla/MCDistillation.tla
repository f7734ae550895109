--------------------------- MODULE MCDistillation ---------------------------
(***************************************************************************)
(* Instances of Distillation for TLC: a source of two units run by one     *)
(* process that meets a fault, or a source of one unit run by two          *)
(* processes at once, all units of one semantic key.                       *)
(***************************************************************************)
EXTENDS Distillation, TLC

CONSTANTS s1, s2, s3, p1, p2, p3, p4, t1, t2, k

Hosting == (p1 :> s1) @@ (p2 :> s2) @@ (p3 :> s2) @@ (p4 :> s3)
AloneOrTwins ==
  {[running |-> {p1}, faults |-> 2], [running |-> {p2, p3}, faults |-> 0],
   [running |-> {p4}, faults |-> 1]}

Alone == p1 :> s1
AloneWithFault == {[running |-> {p1}, faults |-> 1]}

Symmetry == Permutations({p2, p3})

One == [s \in Sources |-> 1]
TwoThenOne == [s \in Sources |-> IF s = s1 THEN 2 ELSE 1]
OneKey == [u \in Units |-> k]
TextByUnit == [u \in Units |-> IF u = <<s1, 2>> THEN t2 ELSE t1]

(* The curator may change its mind about one unit. *)
Undecided == [u \in Units |-> IF u \in {<<s1, 1>>, <<s3, 1>>} THEN {"canonical_candidate", "pending_review"}
                              ELSE {"canonical_candidate"}]
AllCanonical == [u \in Units |-> {"canonical_candidate"}]

FirstUnit == {<<s1, 1>>}

(* A unit of text t1 contradicts a memory of text t2. *)
Merging == {<<t1, t1>>, <<t2, t2>>, <<t2, t1>>}
=============================================================================

---------------------------- MODULE VerifiedRead ----------------------------
(***************************************************************************)
(* VerifiedRetrievalService and CanonicalVerifier.verifyMany beside the    *)
(* commits of CanonicalAuthority.  A retrieval takes candidates from an    *)
(* untrusted provider and then makes three store reads, between which      *)
(* commits happen: the heads, the revisions they name, the heads again.    *)
(* It takes no lock.                                                       *)
(***************************************************************************)
EXTENDS CanonicalAuthority

CONSTANTS
  Readers,     \* concurrent retrievals
  MaxClaimed,  \* bound on the revision numbers a provider claims
  TopK,        \* the largest answer a retrieval accepts
  InForce      \* contents whose validity window holds the effective time

ASSUME ReadersAssumption ==
  MaxClaimed \in Nat \ {0} /\ TopK \in Nat /\ InForce \subseteq Contents

VARIABLE readers
readVars == <<vars, readers>>

(* claims is what the provider said: <<memory id, canonical revision>>. *)
Claims == MemoryIds \X (1 .. MaxClaimed)
NoRead == [phase |-> "idle", claims |-> {}, scope |-> None, heads |-> << >>,
           decisions |-> << >>]
Reasons == {"NOT_FOUND", "SCOPE_MISMATCH", "TOMBSTONED", "REVISION_MISMATCH",
            "REVISION_MISSING", "REVISION_INTEGRITY", "NOT_VALID", "HEAD_CHANGED"}
Allow(v) == [decision |-> "ALLOW", revision |-> v]
Suppress(why) == [decision |-> "SUPPRESS", reason |-> why]
Undecided == [decision |-> "UNDECIDED"]

ReadInit == Init /\ readers = [q \in Readers |-> NoRead]

SetReader(q, st) == readers' = [readers EXCEPT ![q] = st]
Requested(q) == {claim[1] : claim \in readers[q].claims}
Claimed(q, m) == CHOOSE n \in 1 .. MaxClaimed : <<m, n>> \in readers[q].claims

(* Candidates a retrieval goes on with: at most topK, and no two that      *)
(* disagree about the revision of a memory; duplicates are one.            *)
Consistent(claims) ==
  /\ Cardinality(claims) <= TopK
  /\ \A a, b \in claims : a[1] = b[1] => a[2] = b[2]

(* retrieve, up to the provider's answer; a timeout, a malformed answer    *)
(* and one that contradicts itself end the retrieval.                      *)
Search(q, claims, s) ==
  /\ readers[q].phase = "idle"
  /\ Consistent(claims) /\ claims # {}
  /\ SetReader(q, [NoRead EXCEPT !.phase = "searched", !.claims = claims, !.scope = s])
  /\ UNCHANGED vars

(* suppressHead, its tests in order. *)
SuppressHead(head, expected, s) ==
  IF head = None THEN Suppress("NOT_FOUND")
  ELSE IF head.scope # s THEN Suppress("SCOPE_MISMATCH")
  ELSE IF head.status = "tombstoned" THEN Suppress("TOMBSTONED")
  ELSE IF head.currentRevision # expected THEN Suppress("REVISION_MISMATCH")
  ELSE Undecided

(* The first getHeads, one statement for all ids. *)
ReadHeads(q) ==
  LET st == readers[q] IN
  /\ st.phase = "searched"
  /\ SetReader(q, [st EXCEPT !.phase = "headsRead",
       !.heads = [m \in Requested(q) |-> heads[m]],
       !.decisions = [m \in Requested(q) |->
                        SuppressHead(heads[m], Claimed(q, m), st.scope)]])
  /\ UNCHANGED vars

(* The integrity tests of verifyRevision that relate two pieces of state;  *)
(* the others are about the shape of one field.                            *)
Intact(head, v, s) ==
  /\ v.scope = s
  /\ v.status = head.status
  /\ v.memoryType = head.memoryType
  /\ v.semanticKey = head.semanticKey
  /\ v.candidateFingerprint = v.semanticFingerprint

VerifyRevision(head, rows, s) ==
  IF rows = {} THEN Suppress("REVISION_MISSING")
  ELSE LET v == CHOOSE v \in rows : TRUE IN
       IF ~Intact(head, v, s) THEN Suppress("REVISION_INTEGRITY")
       ELSE IF v.content \notin InForce THEN Suppress("NOT_VALID")
       ELSE Allow(v)

(* getRevisions for the heads that were not suppressed, one statement. *)
ReadRevisions(q) ==
  LET st == readers[q] IN
  /\ st.phase = "headsRead"
  /\ SetReader(q, [st EXCEPT !.phase = "verified",
       !.decisions = [m \in Requested(q) |->
         IF st.decisions[m] # Undecided THEN st.decisions[m]
         ELSE VerifyRevision(st.heads[m],
                             RevisionRows(m, st.heads[m].currentRevision), st.scope)]])
  /\ UNCHANGED vars

(* Mutant: the second look compares the status only. *)
SameHeadStatus(left, right) == left.status = right.status

SameHead(left, right) == left = right

(* The second getHeads: what moved in between is suppressed after all. *)
RereadHeads(q) ==
  LET st == readers[q] IN
  /\ st.phase = "verified"
  /\ SetReader(q, [st EXCEPT !.phase = "answered",
       !.decisions = [m \in Requested(q) |->
         IF /\ st.decisions[m].decision = "ALLOW"
            /\ ~SameHead(st.heads[m], heads[m])
         THEN Suppress("HEAD_CHANGED") ELSE st.decisions[m]]])
  /\ UNCHANGED vars

(* The caller has its answer, or has given up. *)
Finish(q) ==
  /\ readers[q].phase # "idle"
  /\ SetReader(q, NoRead)
  /\ UNCHANGED vars

ReadNext ==
  \/ Next /\ UNCHANGED readers
  \/ \E q \in Readers :
       \/ \E claims \in SUBSET Claims, s \in Scopes : Search(q, claims, s)
       \/ ReadHeads(q) \/ ReadRevisions(q) \/ RereadHeads(q) \/ Finish(q)

ReadSpec == ReadInit /\ [][ReadNext]_readVars

-----------------------------------------------------------------------------
Answers(q) == readers[q].phase = "verified" /\ readers'[q].phase = "answered"

(* Although no lock is held, all the items of one answer are right at one  *)
(* instant, the second reading of the heads: each is the current revision  *)
(* of an active memory of the requested scope, at the revision the         *)
(* provider claimed, in force, and carries the canonical text.             *)
AllowedIsCurrent ==
  [][\A q \in Readers : Answers(q) =>
       \A m \in Requested(q) :
         LET d == readers'[q].decisions[m] IN
         d.decision = "ALLOW" =>
           /\ heads[m] # None
           /\ heads[m].scope = readers[q].scope /\ heads[m].status = "active"
           /\ d.revision \in RevisionRows(m, heads[m].currentRevision)
           /\ d.revision.revision = Claimed(q, m)
           /\ d.revision.content \in InForce]_readVars

(* docs/dlfm-005b-verified-retrieval.md lists what is suppressed:          *)
(* "Tombstoned, superseded, cross-scope, missing, time-invalid, corrupt,   *)
(* stale, or concurrently changed candidates".  So a candidate that names  *)
(* the current revision of an active memory of the scope, in force and     *)
(* untouched during the retrieval, is in the answer.                       *)
NothingHidden ==
  [][\A q \in Readers : Answers(q) =>
       \A m \in Requested(q) :
         /\ heads[m] # None /\ heads[m] = readers[q].heads[m]
         /\ heads[m].scope = readers[q].scope /\ heads[m].status = "active"
         /\ heads[m].currentRevision = Claimed(q, m)
         /\ \E v \in RevisionRows(m, Claimed(q, m)) : v.content \in InForce
         => readers'[q].decisions[m].decision = "ALLOW"]_readVars
=============================================================================

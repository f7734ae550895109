---------------------- MODULE CanonicalAuthorityProofs ----------------------
(***************************************************************************)
(* Invariants of CanonicalAuthority, for any number of scopes, candidates, *)
(* memories, keys and concurrent callers.                                  *)
(***************************************************************************)
EXTENDS CanonicalAuthority, TLAPS

(* What ingest stores is a candidate, whatever head it takes defaults      *)
(* from.                                                                   *)
LEMMA NewCandidateType ==
  ASSUME TypeOK, NEW in \in CandidateInputs
  PROVE  NewCandidate(in) \in MemoryCandidates
<1>1. BaseHead(in) = None \/ BaseHead(in) \in Heads
  BY DEF BaseHead, TypeOK, CandidateInputs
<1>2. IngestType(in) \in MemoryTypes
  BY <1>1, DefaultTypeAssumption DEF IngestType, CandidateInputs, Heads
<1>3. IngestKey(in) \in SemanticKeys
  BY <1>1, <1>2 DEF IngestKey, SemanticKeys, ExactKeys, CandidateInputs, Heads
<1> QED
  BY <1>2, <1>3
     DEF NewCandidate, MemoryCandidates, CandidateInputs, CandidateStatuses

(* What a commit that the checks let through writes into the head, the     *)
(* revision, the change and the outbox tables are rows of those tables.    *)
LEMMA NewRowsType ==
  ASSUME TypeOK, NEW c \in CandidateIds, candidates[c] # None,
         NEW m \in MemoryIds, Allowed(candidates[c], m), NEW k \in Keys,
         NEW seq \in Nat \ {0}
  PROVE  /\ NewHead(candidates[c], m) \in Heads
         /\ NewRevision(c, candidates[c], m, seq) \in Revisions
         /\ NewChange(candidates[c], m, k, seq) \in Changes
         /\ NewOutboxRow(candidates[c], m, seq) \in OutboxRows
<1> DEFINE cand == candidates[c]
<1>1. cand \in MemoryCandidates
  BY DEF TypeOK
<1>2. NewStatus(cand) \in MemoryStatuses
  BY DEF NewStatus, MemoryStatuses
<1>3. NewHead(cand, m) \in Heads
  BY <1>1, <1>2 DEF NewHead, Heads, MemoryCandidates
<1>4. NewChange(cand, m, k, seq) \in Changes
  BY <1>1 DEF NewChange, Changes, MemoryCandidates
<1>5. NewOutboxRow(cand, m, seq) \in OutboxRows
  BY <1>1 DEF NewOutboxRow, OutboxRows, MemoryCandidates
<1>6. Fingerprint(cand) \in Fingerprints
  BY <1>1 DEF Fingerprint, Fingerprints, MemoryCandidates
<1>7. ~Rewrites(cand.op) => Prior(cand, m) \in Revisions
  BY <1>1 DEF Allowed, CreateAllowed, MutateAllowed, Rewrites, Prior, RevisionRows, TypeOK
<1>8. /\ NewContent(cand, m) \in Contents
      /\ NewEvidence(cand, m) \in SUBSET EvidenceIds
      /\ NewFingerprint(cand, m) \in Fingerprints
  BY <1>1, <1>6, <1>7
     DEF NewContent, NewEvidence, NewFingerprint, Rewrites, Revisions, MemoryCandidates
<1>9. NewRevision(c, cand, m, seq) \in Revisions
  BY <1>1, <1>2, <1>6, <1>8 DEF NewRevision, Revisions, MemoryCandidates
<1> QED
  BY <1>3, <1>4, <1>5, <1>9

(* The rows a step may write, and what it knows when it writes them.  Each *)
(* conjunct of the invariant below is preserved by each of the three.      *)
LEMMA TransactCases ==
  ASSUME TypeOK, NEW r \in Callers, Transact(r)
  PROVE  \E c \in CandidateIds, k \in Keys :
           /\ calls[r] \in VerifiedCalls
           /\ calls[r].candidateId = c /\ calls[r].key = k
           /\ \/ ReplayPrior(r, c, k)
              \/ /\ PriorChanges(candidates[c].scope, k) = {}
                 /\ \/ \E m \in MemoryIds : ApplyCommit(r, c, k, m)
                    \/ RecordConflict(r, c, k)
                    \/ RefuseCommit(r, c, k)
<1>1. calls[r] \in Calls /\ calls[r].phase = "verified"
  BY DEF TypeOK, Transact
<1>2. calls[r] \in VerifiedCalls
  BY <1>1 DEF Calls, Idle, VerifiedCalls, CommittedCalls, FailedCalls
<1>3. calls[r].candidateId \in CandidateIds /\ calls[r].key \in Keys
  BY <1>2 DEF VerifiedCalls
<1> QED
  BY <1>2, <1>3 DEF Transact, TransactNew

(* A request is only ever about a candidate that was ingested. *)
CallsKnown ==
  \A r \in Callers : calls[r] # Idle => candidates[calls[r].candidateId] # None

(* The step part of type correctness. *)
LEMMA TypeStep ==
  ASSUME TypeOK, CallsKnown, [Next]_vars
  PROVE  TypeOK' /\ CallsKnown'
<1> USE DEF CallsKnown
<1>1. ASSUME NEW c \in CandidateIds, NEW in \in Inputs, Ingest(c, in)
      PROVE  TypeOK' /\ CallsKnown'
  <2>1. NewCandidate(in) \in MemoryCandidates
    BY InputsAssumption, NewCandidateType
  <2>2. candidates' \in [CandidateIds -> MemoryCandidates \cup {None}]
    BY <1>1, <2>1 DEF Ingest, TypeOK
  <2>3. \A x \in CandidateIds : candidates[x] # None => candidates'[x] # None
    BY <1>1, <2>1, NoneAssumption DEF Ingest, TypeOK
  <2> QED
    BY <1>1, <2>2, <2>3 DEF Ingest, TypeOK, tables, Calls, Idle, VerifiedCalls,
       CommittedCalls, FailedCalls
<1>2. ASSUME NEW c \in CandidateIds, Curate(c)
      PROVE  TypeOK' /\ CallsKnown'
  BY <1>2 DEF Curate, TypeOK, tables, Admissions
<1>3. ASSUME NEW r \in Callers, NEW c \in CandidateIds, NEW k \in Keys, BeginCommit(r, c, k)
      PROVE  TypeOK' /\ CallsKnown'
  <2>1. calls' = [calls EXCEPT ![r] = calls'[r]]
    BY <1>3 DEF BeginCommit, SetCall, TypeOK
  <2>2. calls'[r] \in Calls /\ calls'[r].candidateId = c
    BY <1>3 DEF BeginCommit, SetCall, Answer, TypeOK, Calls, VerifiedCalls, FailedCalls
  <2> QED
    BY <1>3, <2>1, <2>2 DEF BeginCommit, TypeOK, tables
<1>4. ASSUME NEW r \in Callers, Transact(r)
      PROVE  TypeOK' /\ CallsKnown'
  <2>1. PICK c \in CandidateIds, k \in Keys :
           /\ calls[r] \in VerifiedCalls
           /\ calls[r].candidateId = c /\ calls[r].key = k
           /\ \/ ReplayPrior(r, c, k)
              \/ \E m \in MemoryIds : ApplyCommit(r, c, k, m)
              \/ RecordConflict(r, c, k)
              \/ RefuseCommit(r, c, k)
    BY <1>4, TransactCases
  <2>2. candidates[c] # None /\ candidates[c] \in MemoryCandidates
    BY <2>1 DEF TypeOK, VerifiedCalls, Idle
  <2>3. ASSUME ReplayPrior(r, c, k)
        PROVE  TypeOK' /\ CallsKnown'
    <3>1. PICK ch \in changes :
            SetCall(r, IF \A v \in RevisionRows(ch.memoryId, ch.newRevision) :
                            v.candidateId = c
                       THEN [phase |-> "committed", candidateId |-> c, key |-> k,
                             change |-> ch]
                       ELSE Answer("refused", c, k))
      BY <2>3 DEF ReplayPrior, PriorChanges
    <3>2. ch \in Changes
      BY DEF TypeOK
    <3>3. calls'[r] \in Calls /\ calls'[r].candidateId = c
          /\ calls' = [calls EXCEPT ![r] = calls'[r]]
      BY <3>1, <3>2 DEF SetCall, Answer, TypeOK, Calls, CommittedCalls, FailedCalls
    <3> QED
      BY <2>2, <2>3, <3>3 DEF ReplayPrior, TypeOK, tables
  <2>4. ASSUME NEW m \in MemoryIds, ApplyCommit(r, c, k, m)
        PROVE  TypeOK' /\ CallsKnown'
    <3> DEFINE seq == NextCommitSeq(candidates[c].scope)
               change == NewChange(candidates[c], m, k, seq)
    <3>1. candidates[c].scope \in Scopes /\ seq \in Nat \ {0}
      BY <2>2 DEF NextCommitSeq, TypeOK, MemoryCandidates
    <3> HIDE DEF seq
    <3>2. /\ NewHead(candidates[c], m) \in Heads
          /\ NewRevision(c, candidates[c], m, seq) \in Revisions
          /\ change \in Changes
          /\ NewOutboxRow(candidates[c], m, seq) \in OutboxRows
      BY <2>2, <2>4, <3>1, NewRowsType DEF ApplyCommit
    <3> HIDE DEF change
    <3>3. WriteCommit(r, c, candidates[c], k, m, seq)
      BY <2>4 DEF ApplyCommit, seq
    <3>4. /\ heads' \in [MemoryIds -> Heads \cup {None}]
          /\ revisions' \subseteq Revisions
          /\ changes' \subseteq Changes
          /\ outbox' \subseteq OutboxRows
          /\ lastSeq' \in [Scopes -> Nat]
      BY <3>1, <3>2, <3>3 DEF WriteCommit, TypeOK, change
    <3>5. /\ candidates' \in [CandidateIds -> MemoryCandidates \cup {None}]
          /\ \A x \in CandidateIds : candidates[x] # None => candidates'[x] # None
      <4>1. [candidates[c] EXCEPT !.status = "ACCEPTED"] \in MemoryCandidates
        BY <2>2 DEF MemoryCandidates, CandidateStatuses
      <4>2. candidates' = [candidates EXCEPT ![c] =
                              [candidates[c] EXCEPT !.status = "ACCEPTED"]]
        BY <3>3 DEF WriteCommit
      <4> QED
        BY <4>1, <4>2, NoneAssumption DEF TypeOK
    <3>6. calls' = [calls EXCEPT ![r] = [phase |-> "committed", candidateId |-> c,
                                         key |-> k, change |-> change]]
      BY <3>3 DEF WriteCommit, SetCall, change
    <3>7. calls' \in [Callers -> Calls] /\ CallsKnown'
      BY <2>2, <3>2, <3>5, <3>6 DEF TypeOK, Calls, CommittedCalls, VerifiedCalls, FailedCalls, Idle
    <3> QED
      BY <3>3, <3>4, <3>5, <3>7 DEF WriteCommit, TypeOK
  <2>5. ASSUME RecordConflict(r, c, k)
        PROVE  TypeOK' /\ CallsKnown'
    <3> DEFINE cand == candidates[c]
               row == [candidateId |-> c, memoryId |-> cand.base,
                       expectedRevision |-> cand.baseRevision,
                       currentRevision |-> heads[cand.base].currentRevision]
    <3>1. cand.base \in MemoryIds /\ heads[cand.base] \in Heads
      BY <2>2, <2>5 DEF RecordConflict, StaleBase, HeadInScope, TypeOK, MemoryCandidates
    <3>2. row \in Conflicts
      BY <2>2, <3>1 DEF Conflicts, Heads, MemoryCandidates
    <3>3. WriteConflict(r, c, cand, k, heads[cand.base].currentRevision)
      BY <2>5 DEF RecordConflict
    <3>4. conflicts' \subseteq Conflicts
      BY <3>2, <3>3 DEF WriteConflict, TypeOK
    <3>5. /\ candidates' \in [CandidateIds -> MemoryCandidates \cup {None}]
          /\ \A x \in CandidateIds : candidates[x] # None => candidates'[x] # None
      <4>1. [cand EXCEPT !.status = "CONFLICT"] \in MemoryCandidates
        BY <2>2 DEF MemoryCandidates, CandidateStatuses
      <4>2. candidates' = [candidates EXCEPT ![c] = [cand EXCEPT !.status = "CONFLICT"]]
        BY <3>3 DEF WriteConflict
      <4> QED
        BY <4>1, <4>2, NoneAssumption DEF TypeOK
    <3>6. calls' = [calls EXCEPT ![r] = Answer("conflict", c, k)]
      BY <3>3 DEF WriteConflict, SetCall
    <3>7. calls' \in [Callers -> Calls] /\ CallsKnown'
      BY <2>2, <3>5, <3>6 DEF TypeOK, Answer, Calls, FailedCalls, VerifiedCalls, CommittedCalls, Idle
    <3> QED
      BY <3>3, <3>4, <3>5, <3>7 DEF WriteConflict, TypeOK, tables
  <2>6. ASSUME RefuseCommit(r, c, k)
        PROVE  TypeOK' /\ CallsKnown'
    <3>1. calls' = [calls EXCEPT ![r] = Answer("refused", c, k)]
      BY <2>6 DEF RefuseCommit, SetCall
    <3> QED
      BY <2>2, <2>6, <3>1 DEF RefuseCommit, TypeOK, tables, Answer, Calls, FailedCalls
  <2> QED
    BY <2>1, <2>3, <2>4, <2>5, <2>6
<1>5. ASSUME NEW r \in Callers, Return(r)
      PROVE  TypeOK' /\ CallsKnown'
  BY <1>5 DEF Return, SetCall, TypeOK, tables, Calls
<1>6. CASE UNCHANGED vars
  BY <1>6 DEF vars, TypeOK
<1> QED
  BY <1>1, <1>2, <1>3, <1>4, <1>5, <1>6 DEF Next

(* Every table holds rows of its own shape in every reachable state: no    *)
(* commit, retry, conflict or crash writes a malformed row.                *)
THEOREM TypeCorrect == Spec => []TypeOK
<1>1. Init => TypeOK /\ CallsKnown
  BY DEF Init, TypeOK, CallsKnown, Admissions, Calls
<1>2. TypeOK /\ CallsKnown /\ [Next]_vars => TypeOK' /\ CallsKnown'
  BY TypeStep
<1> QED
  BY <1>1, <1>2, PTL DEF Spec

-----------------------------------------------------------------------------
(* A candidate is for a new memory exactly when it has no base revision,   *)
(* as validateInput requires.                                              *)
CreateFromNothing ==
  \A c \in CandidateIds : candidates[c] # None =>
    (candidates[c].op = "create" <=> candidates[c].baseRevision = 0)

(* The steps that publish nothing: the tables stay, and a candidate may    *)
(* appear or fall from PENDING to CONFLICT.                                *)
Quiet ==
  /\ UNCHANGED tables
  /\ \A c \in CandidateIds : candidates[c] # None =>
       /\ candidates'[c] # None
       /\ candidates'[c].op = candidates[c].op
       /\ candidates'[c].producer = candidates[c].producer
       /\ candidates'[c].proof = candidates[c].proof
       /\ candidates'[c].certain = candidates[c].certain
       /\ candidates'[c].status = "ACCEPTED" <=> candidates[c].status = "ACCEPTED"
  /\ \A c \in CandidateIds : candidates[c] = None /\ candidates'[c] # None =>
       candidates'[c].status = "PENDING"

(* The step that publishes a commit, of candidate c under key k as memory  *)
(* m.                                                                      *)
Commits(r, c, k, m) ==
  /\ candidates[c] # None
  /\ calls[r] \in VerifiedCalls /\ calls[r].candidateId = c
  /\ PriorChanges(candidates[c].scope, k) = {}
  /\ Allowed(candidates[c], m)
  /\ WriteCommit(r, c, candidates[c], k, m, lastSeq[candidates[c].scope] + 1)

(* Every step is one or the other. *)
LEMMA StepShape ==
  ASSUME TypeOK, CallsKnown, CreateFromNothing, [Next]_vars
  PROVE  /\ CreateFromNothing'
         /\ \/ Quiet
            \/ \E r \in Callers, c \in CandidateIds, k \in Keys, m \in MemoryIds :
                 Commits(r, c, k, m)
<1> USE DEF CreateFromNothing
<1>1. ASSUME NEW c \in CandidateIds, NEW in \in Inputs, Ingest(c, in)
      PROVE  CreateFromNothing' /\ Quiet
  <2>1. in \in CandidateInputs /\ (in.op = "create" <=> in.baseRevision = 0)
    BY <1>1, InputsAssumption DEF Ingest, ValidInput, CandidateInputs
  <2>2. candidates' = [candidates EXCEPT ![c] = NewCandidate(in)] /\ UNCHANGED tables
    BY <1>1 DEF Ingest
  <2>3. /\ NewCandidate(in).op = in.op
        /\ NewCandidate(in).baseRevision = in.baseRevision
        /\ NewCandidate(in).status = "PENDING"
    BY DEF NewCandidate
  <2>4. \A x \in CandidateIds :
          candidates'[x] = IF x = c THEN NewCandidate(in) ELSE candidates[x]
    BY <2>2 DEF TypeOK
  <2>5. candidates[c] = None
    BY <1>1 DEF Ingest
  <2> QED
    BY <2>1, <2>2, <2>3, <2>4, <2>5 DEF Quiet
<1>2. ASSUME UNCHANGED <<candidates, tables>>
      PROVE  CreateFromNothing' /\ Quiet
  BY <1>2 DEF Quiet
<1>3. ASSUME NEW r \in Callers, Transact(r)
      PROVE  /\ CreateFromNothing'
             /\ \/ Quiet
                \/ \E c \in CandidateIds, k \in Keys, m \in MemoryIds : Commits(r, c, k, m)
  <2>1. PICK c \in CandidateIds, k \in Keys :
           /\ calls[r] \in VerifiedCalls
           /\ calls[r].candidateId = c /\ calls[r].key = k
           /\ \/ ReplayPrior(r, c, k)
              \/ /\ PriorChanges(candidates[c].scope, k) = {}
                 /\ \/ \E m \in MemoryIds : ApplyCommit(r, c, k, m)
                    \/ RecordConflict(r, c, k)
                    \/ RefuseCommit(r, c, k)
    BY <1>3, TransactCases
  <2>2. candidates[c] # None /\ candidates[c] \in MemoryCandidates
    BY <2>1 DEF TypeOK, VerifiedCalls, Idle, CallsKnown
  <2>3. CASE ReplayPrior(r, c, k) \/ RefuseCommit(r, c, k)
    BY <2>3, <1>2 DEF ReplayPrior, RefuseCommit
  <2>4. ASSUME NEW st \in CandidateStatuses,
               candidates' = [candidates EXCEPT ![c].status = st]
        PROVE  /\ CreateFromNothing'
               /\ \A x \in CandidateIds : x # c => candidates'[x] = candidates[x]
               /\ candidates'[c] = [candidates[c] EXCEPT !.status = st]
               /\ candidates'[c] # None
    <3>1. [candidates[c] EXCEPT !.status = st] \in MemoryCandidates
      BY <2>2 DEF MemoryCandidates
    <3>2. /\ \A x \in CandidateIds : x # c => candidates'[x] = candidates[x]
          /\ candidates'[c] = [candidates[c] EXCEPT !.status = st]
      BY <2>4 DEF TypeOK
    <3>3. candidates'[c] # None
      BY <3>1, <3>2, NoneAssumption
    <3> QED
      BY <2>2, <3>2, <3>3 DEF MemoryCandidates
  <2>5. CASE RecordConflict(r, c, k)
    <3>1. /\ candidates' = [candidates EXCEPT ![c].status = "CONFLICT"]
          /\ candidates[c].status = "PENDING"
          /\ UNCHANGED tables
      BY <2>5 DEF RecordConflict, WriteConflict, StaleBase
    <3>2. /\ CreateFromNothing'
          /\ \A x \in CandidateIds : x # c => candidates'[x] = candidates[x]
          /\ candidates'[c] = [candidates[c] EXCEPT !.status = "CONFLICT"]
          /\ candidates'[c] # None
      BY <2>4, <3>1 DEF CandidateStatuses
    <3> QED
      BY <2>2, <3>1, <3>2 DEF Quiet, MemoryCandidates
  <2>6. ASSUME NEW m \in MemoryIds, ApplyCommit(r, c, k, m),
               PriorChanges(candidates[c].scope, k) = {}
        PROVE  CreateFromNothing' /\ Commits(r, c, k, m)
    <3>1. candidates' = [candidates EXCEPT ![c].status = "ACCEPTED"]
      BY <2>6 DEF ApplyCommit, WriteCommit
    <3>2. CreateFromNothing'
      BY <2>4, <3>1 DEF CandidateStatuses
    <3> QED
      BY <2>1, <2>2, <2>6, <3>2 DEF ApplyCommit, NextCommitSeq, Commits
  <2> QED
    BY <2>1, <2>3, <2>5, <2>6
<1> QED
  BY <1>1, <1>2, <1>3 DEF Next, Curate, BeginCommit, Return, vars, tables

-----------------------------------------------------------------------------
(* What a commit finds and what it leaves behind. *)
LEMMA CommitFacts ==
  ASSUME TypeOK, CreateFromNothing, NEW r \in Callers, NEW c \in CandidateIds,
         NEW k \in Keys, NEW m \in MemoryIds, Commits(r, c, k, m)
  PROVE  LET cand == candidates[c]
             seq == lastSeq[cand.scope] + 1
             rev == NewRevision(c, cand, m, seq)
             ch == NewChange(cand, m, k, seq)
         IN
         /\ cand \in MemoryCandidates /\ cand.status = "PENDING"
         /\ \/ /\ heads[m] = None /\ cand.op = "create" /\ cand.baseRevision = 0
               /\ \A x \in MemoryIds : heads[x] # None =>
                    ~(/\ heads[x].scope = cand.scope
                      /\ heads[x].semanticKey = cand.semanticKey)
            \/ /\ heads[m] \in Heads /\ heads[m] # None
               /\ heads[m].currentRevision = cand.baseRevision
               /\ heads[m].scope = cand.scope /\ SameIdentity(cand, heads[m])
               /\ RevisionRows(m, cand.baseRevision) # {}
               /\ cand.op # "create" /\ StatusAllows(cand.op, heads[m].status)
         /\ heads' = [heads EXCEPT ![m] = NewHead(cand, m)]
         /\ NewHead(cand, m) \in Heads /\ NewHead(cand, m) # None
         /\ rev \in Revisions /\ revisions' = revisions \cup {rev}
         /\ ch \in Changes /\ changes' = changes \cup {ch}
         /\ lastSeq' = [lastSeq EXCEPT ![cand.scope] = seq]
         /\ cand.scope \in Scopes /\ seq \in Nat
<1> DEFINE cand == candidates[c]
           seq == lastSeq[cand.scope] + 1
<1>1. cand \in MemoryCandidates /\ cand # None /\ Allowed(cand, m)
      /\ WriteCommit(r, c, cand, k, m, seq)
  BY DEF Commits, TypeOK
<1>2. cand.scope \in Scopes /\ seq \in Nat \ {0}
  BY <1>1 DEF TypeOK, MemoryCandidates
<1> HIDE DEF seq
<1>3. /\ NewHead(cand, m) \in Heads
      /\ NewRevision(c, cand, m, seq) \in Revisions
      /\ NewChange(cand, m, k, seq) \in Changes
  BY <1>1, <1>2, NewRowsType
<1>4. NewHead(cand, m) # None
  BY <1>3, NoneAssumption
<1>5. \/ /\ heads[m] = None /\ cand.op = "create" /\ cand.baseRevision = 0
         /\ \A x \in MemoryIds : heads[x] # None =>
              ~(heads[x].scope = cand.scope /\ heads[x].semanticKey = cand.semanticKey)
      \/ /\ heads[m] \in Heads /\ heads[m] # None
         /\ heads[m].currentRevision = cand.baseRevision
         /\ heads[m].scope = cand.scope /\ SameIdentity(cand, heads[m])
         /\ RevisionRows(m, cand.baseRevision) # {}
         /\ cand.op # "create" /\ StatusAllows(cand.op, heads[m].status)
  BY <1>1 DEF Allowed, CreateAllowed, MutateAllowed, HeadInScope, CreateFromNothing, TypeOK
<1> QED
  BY <1>1, <1>2, <1>3, <1>4, <1>5 DEF WriteCommit, Allowed, seq

(* RevisionChain is inductive: a step either leaves heads and revisions    *)
(* alone, starts a chain for a memory that has none, or extends one at its *)
(* current revision.                                                       *)
LEMMA RevisionChainStep ==
  ASSUME TypeOK, CallsKnown, CreateFromNothing, RevisionChain, [Next]_vars
  PROVE  RevisionChain'
<1>1. CASE Quiet
  BY <1>1 DEF Quiet, tables, RevisionChain, RevisionRows
<1>2. ASSUME NEW r \in Callers, NEW c \in CandidateIds, NEW k \in Keys,
             NEW m \in MemoryIds, Commits(r, c, k, m)
      PROVE  RevisionChain'
  <2> DEFINE cand == candidates[c]
             seq == lastSeq[cand.scope] + 1
             rev == NewRevision(c, cand, m, seq)
             new == NewHead(cand, m)
  <2>1. /\ cand \in MemoryCandidates
        /\ \/ heads[m] = None /\ cand.baseRevision = 0
           \/ /\ heads[m] \in Heads /\ heads[m] # None
              /\ heads[m].currentRevision = cand.baseRevision
              /\ heads[m].scope = cand.scope /\ SameIdentity(cand, heads[m])
        /\ heads' = [heads EXCEPT ![m] = new]
        /\ new \in Heads /\ new # None
        /\ rev \in Revisions /\ revisions' = revisions \cup {rev}
    BY <1>2, CommitFacts
  <2>2. /\ rev.memoryId = m /\ rev.revision = cand.baseRevision + 1
        /\ rev.scope = cand.scope /\ rev.memoryType = cand.memoryType
        /\ rev.semanticKey = cand.semanticKey /\ rev.status = NewStatus(cand)
        /\ new.currentRevision = cand.baseRevision + 1 /\ new.scope = cand.scope
        /\ new.memoryType = cand.memoryType /\ new.semanticKey = cand.semanticKey
        /\ new.status = NewStatus(cand)
    BY DEF NewRevision, NewHead
  <2>3. cand.baseRevision \in Nat
    BY <2>1 DEF MemoryCandidates
  <2> HIDE DEF rev, new, seq
  <2>4. heads'[m] = new /\ \A x \in MemoryIds : x # m => heads'[x] = heads[x]
    BY <2>1 DEF TypeOK
  <2>5. \A v \in revisions : v \in Revisions /\ v.memoryId \in MemoryIds /\ v.revision \in Nat
    BY DEF TypeOK, Revisions
  <2>6. \A v \in revisions : v.memoryId = m =>
          /\ v.revision <= cand.baseRevision
          /\ v.scope = cand.scope /\ v.memoryType = cand.memoryType
          /\ v.semanticKey = cand.semanticKey
    BY <2>1 DEF RevisionChain, SameIdentity
  <2>7. \A x \in MemoryIds : heads'[x] # None =>
          \A n \in 1 .. heads'[x].currentRevision : RevisionRows(x, n)' # {}
    <3> SUFFICES ASSUME NEW x \in MemoryIds, heads'[x] # None,
                        NEW n \in 1 .. heads'[x].currentRevision
                 PROVE  \E v \in revisions' : v.memoryId = x /\ v.revision = n
      BY DEF RevisionRows
    <3>1. CASE x # m
      BY <3>1, <2>1, <2>4 DEF RevisionChain, RevisionRows
    <3>2. CASE x = m /\ n = cand.baseRevision + 1
      BY <3>2, <2>1, <2>2
    <3>3. CASE x = m /\ n # cand.baseRevision + 1
      <4>1. n \in 1 .. cand.baseRevision
        BY <3>3, <2>2, <2>3, <2>4
      <4> QED
        BY <3>3, <4>1, <2>1 DEF RevisionChain, RevisionRows
    <3> QED
      BY <3>1, <3>2, <3>3
  <2>8. \A v \in revisions' :
          /\ heads'[v.memoryId] # None
          /\ v.revision <= heads'[v.memoryId].currentRevision
          /\ v.scope = heads'[v.memoryId].scope
          /\ v.memoryType = heads'[v.memoryId].memoryType
          /\ v.semanticKey = heads'[v.memoryId].semanticKey
          /\ v.revision = heads'[v.memoryId].currentRevision =>
               v.status = heads'[v.memoryId].status
    <3> SUFFICES ASSUME NEW v \in revisions'
                 PROVE  /\ heads'[v.memoryId] # None
                        /\ v.revision <= heads'[v.memoryId].currentRevision
                        /\ v.scope = heads'[v.memoryId].scope
                        /\ v.memoryType = heads'[v.memoryId].memoryType
                        /\ v.semanticKey = heads'[v.memoryId].semanticKey
                        /\ v.revision = heads'[v.memoryId].currentRevision =>
                             v.status = heads'[v.memoryId].status
      OBVIOUS
    <3>1. CASE v = rev
      BY <3>1, <2>1, <2>2, <2>3, <2>4
    <3>2. CASE v \in revisions /\ v.memoryId = m
      BY <3>2, <2>1, <2>2, <2>3, <2>4, <2>5, <2>6
    <3>3. CASE v \in revisions /\ v.memoryId # m
      BY <3>3, <2>4, <2>5 DEF RevisionChain
    <3> QED
      BY <3>1, <3>2, <3>3, <2>1
  <2>9. \A v, w \in revisions' :
          v.memoryId = w.memoryId /\ v.revision = w.revision => v = w
    BY <2>1, <2>2, <2>3, <2>5, <2>6 DEF RevisionChain
  <2> QED
    BY <2>7, <2>8, <2>9 DEF RevisionChain
<1> QED
  BY <1>1, <1>2, StepShape

(* FeedContiguous is inductive: the one row a commit adds takes the next   *)
(* number of its scope, and nothing else draws one.                        *)
LEMMA FeedContiguousStep ==
  ASSUME TypeOK, CallsKnown, CreateFromNothing, FeedContiguous, [Next]_vars
  PROVE  FeedContiguous'
<1>1. CASE Quiet
  BY <1>1 DEF Quiet, tables, FeedContiguous
<1>2. ASSUME NEW r \in Callers, NEW c \in CandidateIds, NEW k \in Keys,
             NEW m \in MemoryIds, Commits(r, c, k, m)
      PROVE  FeedContiguous'
  <2> DEFINE s == candidates[c].scope
             seq == lastSeq[s] + 1
             ch == NewChange(candidates[c], m, k, seq)
  <2>1. /\ ch \in Changes /\ changes' = changes \cup {ch}
        /\ lastSeq' = [lastSeq EXCEPT ![s] = seq] /\ s \in Scopes
    BY <1>2, CommitFacts
  <2>2. ch.scope = s /\ ch.commitSeq = seq
    BY DEF NewChange
  <2> HIDE DEF ch
  <2>3. lastSeq'[s] = seq /\ \A t \in Scopes : t # s => lastSeq'[t] = lastSeq[t]
    BY <2>1 DEF TypeOK
  <2>4. \A t \in Scopes : lastSeq[t] \in Nat
    BY DEF TypeOK
  <2>5. \A x \in changes : x.scope \in Scopes /\ x.commitSeq \in Nat
    BY DEF TypeOK, Changes
  <2>6. \A t \in Scopes : \A n \in 1 .. lastSeq'[t] :
          \E x \in changes' : x.scope = t /\ x.commitSeq = n
    <3> SUFFICES ASSUME NEW t \in Scopes, NEW n \in 1 .. lastSeq'[t]
                 PROVE  \E x \in changes' : x.scope = t /\ x.commitSeq = n
      OBVIOUS
    <3>1. CASE t = s /\ n = seq
      BY <3>1, <2>1, <2>2
    <3>2. CASE ~(t = s /\ n = seq)
      <4>1. n \in 1 .. lastSeq[t]
        BY <3>2, <2>3, <2>4
      <4> QED
        BY <4>1, <2>1 DEF FeedContiguous
    <3> QED
      BY <3>1, <3>2
  <2>7. \A x \in changes' : x.commitSeq <= lastSeq'[x.scope]
    BY <2>1, <2>2, <2>3, <2>4, <2>5 DEF FeedContiguous
  <2>8. \A x, y \in changes' : x.scope = y.scope /\ x.commitSeq = y.commitSeq => x = y
    BY <2>1, <2>2, <2>4, <2>5 DEF FeedContiguous
  <2> QED
    BY <2>6, <2>7, <2>8 DEF FeedContiguous
<1> QED
  BY <1>1, <1>2, StepShape

(* SemanticIdentityUnique is inductive: only a create brings a new key to  *)
(* a scope, and it looks for the key first.                                *)
LEMMA SemanticIdentityStep ==
  ASSUME TypeOK, CallsKnown, CreateFromNothing, SemanticIdentityUnique, [Next]_vars
  PROVE  SemanticIdentityUnique'
<1>1. CASE Quiet
  BY <1>1 DEF Quiet, tables, SemanticIdentityUnique
<1>2. ASSUME NEW r \in Callers, NEW c \in CandidateIds, NEW k \in Keys,
             NEW m \in MemoryIds, Commits(r, c, k, m)
      PROVE  SemanticIdentityUnique'
  <2> DEFINE cand == candidates[c]
             new == NewHead(cand, m)
  <2>1. /\ \/ /\ heads[m] = None
              /\ \A x \in MemoryIds : heads[x] # None =>
                   ~(heads[x].scope = cand.scope /\ heads[x].semanticKey = cand.semanticKey)
           \/ /\ heads[m] # None /\ heads[m].scope = cand.scope
              /\ SameIdentity(cand, heads[m])
        /\ heads' = [heads EXCEPT ![m] = new]
    BY <1>2, CommitFacts
  <2>2. new.scope = cand.scope /\ new.semanticKey = cand.semanticKey
    BY DEF NewHead
  <2>3. heads'[m] = new /\ \A x \in MemoryIds : x # m => heads'[x] = heads[x]
    BY <2>1 DEF TypeOK
  <2> QED
    BY <2>1, <2>2, <2>3 DEF SemanticIdentityUnique, SameIdentity
<1> QED
  BY <1>1, <1>2, StepShape

(* A revision names a candidate that exists. *)
RevisionsKnown == \A v \in revisions : candidates[v.candidateId] # None

(* CommitIsWhole is inductive together with RevisionsKnown: what a commit  *)
(* adds to the four tables matches, and a candidate that committed is no   *)
(* longer pending.                                                         *)
LEMMA CommitIsWholeStep ==
  ASSUME TypeOK, CallsKnown, CreateFromNothing, CommitIsWhole, RevisionsKnown, [Next]_vars
  PROVE  CommitIsWhole' /\ RevisionsKnown'
<1>0. \A v \in revisions : v.candidateId \in CandidateIds
  BY DEF TypeOK, Revisions
<1>1. CASE Quiet
  <2>1. RevisionsKnown'
    BY <1>0, <1>1 DEF Quiet, tables, RevisionsKnown
  <2>2. \A x \in CandidateIds : candidates'[x] # None =>
          (candidates'[x].status = "ACCEPTED" <=> \E v \in revisions' : v.candidateId = x)
    BY <1>1 DEF Quiet, tables, CommitIsWhole, RevisionsKnown
  <2> QED
    BY <1>1, <2>1, <2>2 DEF Quiet, tables, CommitIsWhole, RevisionRows
<1>2. ASSUME NEW r \in Callers, NEW c \in CandidateIds, NEW k \in Keys,
             NEW m \in MemoryIds, Commits(r, c, k, m)
      PROVE  CommitIsWhole' /\ RevisionsKnown'
  <2> DEFINE cand == candidates[c]
             seq == lastSeq[cand.scope] + 1
             rev == NewRevision(c, cand, m, seq)
             ch == NewChange(cand, m, k, seq)
             row(x) == [scope |-> x.scope, commitSeq |-> x.commitSeq,
                        memoryId |-> x.memoryId, revision |-> x.newRevision,
                        operation |-> x.operation]
  <2>1. /\ cand \in MemoryCandidates /\ cand # None
        /\ revisions' = revisions \cup {rev} /\ changes' = changes \cup {ch}
        /\ outbox' = outbox \cup {NewOutboxRow(cand, m, seq)}
        /\ candidates' = [candidates EXCEPT ![c].status = "ACCEPTED"]
    BY <1>2, CommitFacts DEF Commits, WriteCommit
  <2>2. /\ rev.memoryId = m /\ rev.revision = cand.baseRevision + 1
        /\ rev.scope = cand.scope /\ rev.commitSeq = seq /\ rev.candidateId = c
        /\ ch.memoryId = m /\ ch.newRevision = cand.baseRevision + 1
        /\ ch.scope = cand.scope /\ ch.commitSeq = seq
    BY DEF NewRevision, NewChange
  <2>3. NewOutboxRow(cand, m, seq) = row(ch)
    BY DEF NewOutboxRow, NewChange
  <2> HIDE DEF rev, ch, seq
  <2>4. \A x \in changes' : \E v \in RevisionRows(x.memoryId, x.newRevision)' :
          v.scope = x.scope /\ v.commitSeq = x.commitSeq
    BY <2>1, <2>2 DEF CommitIsWhole, RevisionRows
  <2>5. \A v \in revisions' : \E x \in changes' :
          /\ x.memoryId = v.memoryId /\ x.newRevision = v.revision
          /\ x.scope = v.scope /\ x.commitSeq = v.commitSeq
    BY <2>1, <2>2 DEF CommitIsWhole
  <2>6. outbox' = {row(x) : x \in changes'}
    <3>1. outbox = {row(x) : x \in changes}
      BY DEF CommitIsWhole
    <3> HIDE DEF row
    <3> QED
      BY <2>1, <2>3, <3>1
  <2>7. /\ \A x \in CandidateIds : x # c => candidates'[x] = candidates[x]
        /\ candidates'[c].status = "ACCEPTED" /\ candidates'[c] # None
    <3>1. [cand EXCEPT !.status = "ACCEPTED"] \in MemoryCandidates
      BY <2>1 DEF MemoryCandidates, CandidateStatuses
    <3>2. candidates'[c] = [cand EXCEPT !.status = "ACCEPTED"]
      BY <2>1 DEF TypeOK
    <3>3. candidates'[c].status = "ACCEPTED"
      BY <2>1, <3>2 DEF MemoryCandidates
    <3> QED
      BY <2>1, <3>1, <3>2, <3>3, NoneAssumption DEF TypeOK
  <2>8. \A x \in CandidateIds : candidates'[x] # None =>
          (candidates'[x].status = "ACCEPTED" <=> \E v \in revisions' : v.candidateId = x)
    BY <2>1, <2>2, <2>7 DEF CommitIsWhole
  <2>9. RevisionsKnown'
    BY <1>0, <2>1, <2>2, <2>7 DEF RevisionsKnown
  <2> QED
    BY <2>4, <2>5, <2>6, <2>8, <2>9 DEF CommitIsWhole
<1> QED
  BY <1>1, <1>2, StepShape

(* CommitOnce follows from the key lookup and from the candidate's status. *)
LEMMA CommitOnceStep ==
  ASSUME TypeOK, CallsKnown, CreateFromNothing, CommitIsWhole, CommitOnce, [Next]_vars
  PROVE  CommitOnce'
<1>1. CASE Quiet
  BY <1>1 DEF Quiet, tables, CommitOnce
<1>2. ASSUME NEW r \in Callers, NEW c \in CandidateIds, NEW k \in Keys,
             NEW m \in MemoryIds, Commits(r, c, k, m)
      PROVE  CommitOnce'
  <2> DEFINE cand == candidates[c]
             seq == lastSeq[cand.scope] + 1
             rev == NewRevision(c, cand, m, seq)
             ch == NewChange(cand, m, k, seq)
  <2>1. /\ cand # None /\ cand.status = "PENDING"
        /\ revisions' = revisions \cup {rev} /\ changes' = changes \cup {ch}
        /\ \A x \in changes : ~(x.scope = cand.scope /\ x.key = k)
    BY <1>2, CommitFacts DEF Commits, PriorChanges
  <2>2. rev.candidateId = c /\ ch.scope = cand.scope /\ ch.key = k
    BY DEF NewRevision, NewChange
  <2>3. \A v \in revisions : v.candidateId # c
    BY <2>1 DEF CommitIsWhole
  <2> HIDE DEF rev, ch
  <2> QED
    BY <2>1, <2>2, <2>3 DEF CommitOnce
<1> QED
  BY <1>1, <1>2, StepShape

(* FeedReplayable: the revision a commit builds on is in the chain, so its *)
(* change is in the same scope's feed, below the number just drawn.        *)
LEMMA FeedReplayableStep ==
  ASSUME TypeOK, CallsKnown, CreateFromNothing, RevisionChain, FeedContiguous,
         CommitIsWhole, FeedReplayable, [Next]_vars
  PROVE  FeedReplayable'
<1>1. CASE Quiet
  BY <1>1 DEF Quiet, tables, FeedReplayable
<1>2. ASSUME NEW r \in Callers, NEW c \in CandidateIds, NEW k \in Keys,
             NEW m \in MemoryIds, Commits(r, c, k, m)
      PROVE  FeedReplayable'
  <2> DEFINE cand == candidates[c]
             seq == lastSeq[cand.scope] + 1
             ch == NewChange(cand, m, k, seq)
  <2>1. /\ cand \in MemoryCandidates /\ cand # None
        /\ \/ cand.op = "create" /\ cand.baseRevision = 0
           \/ /\ heads[m] # None /\ heads[m].scope = cand.scope
              /\ RevisionRows(m, cand.baseRevision) # {} /\ cand.op # "create"
        /\ changes' = changes \cup {ch}
        /\ cand.scope \in Scopes /\ lastSeq[cand.scope] \in Nat
    BY <1>2, CommitFacts DEF Commits, TypeOK
  <2>2. /\ ch.operation = cand.op /\ ch.newRevision = cand.baseRevision + 1
        /\ ch.scope = cand.scope /\ ch.memoryId = m /\ ch.commitSeq = seq
    BY DEF NewChange
  <2> HIDE DEF ch
  <2>3. IF ch.newRevision = 1
          THEN ch.operation = "create"
          ELSE \E prev \in changes :
                 /\ prev.scope = ch.scope /\ prev.memoryId = ch.memoryId
                 /\ prev.newRevision = ch.newRevision - 1
                 /\ prev.commitSeq < ch.commitSeq
    <3>0. cand.baseRevision \in Nat /\ (cand.op = "create" <=> cand.baseRevision = 0)
      BY <2>1 DEF MemoryCandidates, CreateFromNothing
    <3>1. CASE cand.op = "create"
      BY <3>0, <3>1, <2>2
    <3>2. CASE cand.op # "create"
      <4>1. PICK v \in revisions : v.memoryId = m /\ v.revision = cand.baseRevision
        BY <3>2, <2>1 DEF RevisionRows
      <4>2. v.scope = cand.scope
        BY <3>2, <4>1, <2>1 DEF RevisionChain
      <4>3. PICK prev \in changes :
              /\ prev.memoryId = m /\ prev.newRevision = cand.baseRevision
              /\ prev.scope = cand.scope
        BY <4>1, <4>2 DEF CommitIsWhole
      <4>4. prev.commitSeq <= lastSeq[cand.scope] /\ prev.commitSeq \in Nat
        BY <4>3 DEF FeedContiguous, TypeOK, Changes
      <4> QED
        BY <3>0, <3>2, <4>3, <4>4, <2>1, <2>2
    <3> QED
      BY <3>1, <3>2
  <2> QED
    BY <2>1, <2>3 DEF FeedReplayable
<1> QED
  BY <1>1, <1>2, StepShape

(* ContentLineage: what does not rewrite the text takes it, and at least   *)
(* the evidence, from the row of the base revision.                        *)
LEMMA ContentLineageStep ==
  ASSUME TypeOK, CallsKnown, CreateFromNothing, RevisionsKnown, ContentLineage, [Next]_vars
  PROVE  ContentLineage'
<1>0. \A v \in revisions : v.candidateId \in CandidateIds
  BY DEF TypeOK, Revisions
<1>1. CASE Quiet
  BY <1>0, <1>1 DEF Quiet, tables, RevisionsKnown, ContentLineage, RevisionRows
<1>2. ASSUME NEW r \in Callers, NEW c \in CandidateIds, NEW k \in Keys,
             NEW m \in MemoryIds, Commits(r, c, k, m)
      PROVE  ContentLineage'
  <2> DEFINE cand == candidates[c]
             seq == lastSeq[cand.scope] + 1
             rev == NewRevision(c, cand, m, seq)
  <2>1. /\ cand \in MemoryCandidates
        /\ \/ cand.op = "create" /\ cand.baseRevision = 0
           \/ cand.op # "create" /\ RevisionRows(m, cand.baseRevision) # {}
        /\ revisions' = revisions \cup {rev}
    BY <1>2, CommitFacts
  <2>2. /\ rev.memoryId = m /\ rev.revision = cand.baseRevision + 1
        /\ rev.candidateId = c
        /\ rev.content = NewContent(cand, m) /\ rev.evidence = NewEvidence(cand, m)
    BY DEF NewRevision
  <2>3. \A x \in CandidateIds : candidates[x] # None => candidates'[x].op = candidates[x].op
    <3>1. candidates' = [candidates EXCEPT ![c].status = "ACCEPTED"]
      BY <1>2 DEF Commits, WriteCommit
    <3>2. candidates'[c].op = cand.op
      BY <2>1, <3>1 DEF TypeOK, MemoryCandidates
    <3> QED
      BY <3>1, <3>2 DEF TypeOK
  <2>4. cand.op \notin {"create", "update"} =>
          /\ Prior(cand, m) \in RevisionRows(m, cand.baseRevision)
          /\ rev.content = Prior(cand, m).content
          /\ Prior(cand, m).evidence \subseteq rev.evidence
    BY <2>1, <2>2 DEF Prior, Rewrites, NewContent, NewEvidence
  <2>5. cand.baseRevision \in Nat /\ cand # None
    BY <1>2, <2>1 DEF MemoryCandidates, Commits
  <2> HIDE DEF rev
  <2>6. \/ rev.revision = 1 \/ candidates'[rev.candidateId].op = "update"
        \/ \E w \in revisions' :
             /\ w.memoryId = rev.memoryId /\ w.revision = rev.revision - 1
             /\ w.content = rev.content /\ w.evidence \subseteq rev.evidence
    <3>1. CASE cand.op = "create"
      BY <3>1, <2>1, <2>2
    <3>2. CASE cand.op = "update"
      BY <3>2, <2>2, <2>3, <2>5
    <3>3. CASE cand.op \notin {"create", "update"}
      <4>1. rev.revision - 1 = cand.baseRevision
        BY <2>2, <2>5
      <4>2. /\ Prior(cand, m) \in revisions'
            /\ Prior(cand, m).memoryId = rev.memoryId
            /\ Prior(cand, m).revision = rev.revision - 1
        BY <3>3, <4>1, <2>1, <2>2, <2>4 DEF RevisionRows
      <4> QED
        BY <3>3, <4>2, <2>4
    <3> QED
      BY <3>1, <3>2, <3>3
  <2>7. \A v \in revisions :
          \/ v.revision = 1 \/ candidates'[v.candidateId].op = "update"
          \/ \E w \in revisions' :
               /\ w.memoryId = v.memoryId /\ w.revision = v.revision - 1
               /\ w.content = v.content /\ w.evidence \subseteq v.evidence
    BY <1>0, <2>1, <2>3 DEF ContentLineage, RevisionRows, RevisionsKnown
  <2> QED
    BY <2>1, <2>6, <2>7 DEF ContentLineage, RevisionRows
<1> QED
  BY <1>1, <1>2, StepShape

(* A call that passed phase one was backed by a curation record then; the  *)
(* record may be replaced before the transaction, but not withdrawn.       *)
CallsVerified ==
  \A r \in Callers : calls[r].phase = "verified" =>
    LET c == calls[r].candidateId IN
    candidates[c].producer = "provider" =>
      ProofFits(candidates[c]) /\ admission[c] # "absent"

(* The fields phase one looked at do not change, and an admission is never *)
(* forgotten.                                                              *)
LEMMA CandidatesKeep ==
  ASSUME TypeOK, CallsKnown, CreateFromNothing, [Next]_vars
  PROVE  \A c \in CandidateIds : candidates[c] # None =>
           /\ candidates'[c].producer = candidates[c].producer
           /\ ProofFits(candidates[c])' = ProofFits(candidates[c])
           /\ admission[c] # "absent" => admission'[c] # "absent"
<1>1. \A c \in CandidateIds : admission[c] # "absent" => admission'[c] # "absent"
  BY DEF Next, Ingest, Curate, BeginCommit, Transact, TransactNew, ReplayPrior, ApplyCommit,
         WriteCommit, RecordConflict, WriteConflict, RefuseCommit, Return, vars, TypeOK
<1>2. CASE Quiet
  BY <1>1, <1>2 DEF Quiet, ProofFits
<1>3. ASSUME NEW r \in Callers, NEW c \in CandidateIds, NEW k \in Keys,
             NEW m \in MemoryIds, Commits(r, c, k, m)
      PROVE  \A x \in CandidateIds : candidates[x] # None =>
               /\ candidates'[x].producer = candidates[x].producer
               /\ ProofFits(candidates[x])' = ProofFits(candidates[x])
  <2>1. candidates[c] \in MemoryCandidates
        /\ candidates' = [candidates EXCEPT ![c].status = "ACCEPTED"]
    BY <1>3, CommitFacts DEF Commits, WriteCommit
  <2>2. candidates'[c] = [candidates[c] EXCEPT !.status = "ACCEPTED"]
        /\ \A x \in CandidateIds : x # c => candidates'[x] = candidates[x]
    BY <2>1 DEF TypeOK
  <2> QED
    BY <2>1, <2>2 DEF MemoryCandidates, ProofFits
<1> QED
  BY <1>1, <1>2, <1>3, StepShape

(* ProviderGate is inductive together with CallsVerified. *)
LEMMA ProviderGateStep ==
  ASSUME TypeOK, CallsKnown, CreateFromNothing, RevisionsKnown, CallsVerified,
         ProviderGate, [Next]_vars
  PROVE  CallsVerified' /\ ProviderGate'
<1>0. \A v \in revisions : v.candidateId \in CandidateIds
  BY DEF TypeOK, Revisions
<1>1. \A c \in CandidateIds : candidates[c] # None =>
        /\ candidates'[c].producer = candidates[c].producer
        /\ ProofFits(candidates[c])' = ProofFits(candidates[c])
        /\ admission[c] # "absent" => admission'[c] # "absent"
  BY CandidatesKeep
<1>2. CallsVerified'
  <2> SUFFICES ASSUME NEW r \in Callers, calls'[r].phase = "verified",
                      candidates'[calls'[r].candidateId].producer = "provider"
               PROVE  /\ ProofFits(candidates[calls[r].candidateId])'
                      /\ admission'[calls'[r].candidateId] # "absent"
    BY DEF CallsVerified
  <2>1. CASE calls'[r] = calls[r]
    <3>1. calls[r] \in VerifiedCalls
      BY <2>1 DEF TypeOK, Calls, Idle, VerifiedCalls, CommittedCalls, FailedCalls
    <3>2. calls[r].candidateId \in CandidateIds /\ candidates[calls[r].candidateId] # None
      BY <3>1 DEF VerifiedCalls, CallsKnown, Idle
    <3> QED
      BY <1>1, <2>1, <3>2 DEF CallsVerified, ProofFits
  <2>2. ASSUME NEW c \in CandidateIds, NEW k \in Keys, BeginCommit(r, c, k)
        PROVE  /\ ProofFits(candidates[calls[r].candidateId])'
               /\ admission'[calls'[r].candidateId] # "absent"
    <3>1. calls'[r] = Answer(IF Admissible(c, candidates[c]) THEN "verified" ELSE "refused", c, k)
      BY <2>2 DEF BeginCommit, SetCall, TypeOK
    <3>2. calls'[r].candidateId = c /\ Admissible(c, candidates[c])
      BY <3>1 DEF Answer
    <3>3. candidates' = candidates /\ admission' = admission
      BY <2>2 DEF BeginCommit
    <3> QED
      BY <3>2, <3>3 DEF Admissible, ProofFits
  <2>3. calls'[r] = calls[r] \/ \E c \in CandidateIds, k \in Keys : BeginCommit(r, c, k)
    <3>1. ASSUME NEW q \in Callers, Transact(q)
          PROVE  calls'[r] = calls[r]
      <4>1. q # r => calls'[r] = calls[r]
        BY <3>1 DEF Transact, TransactNew, ReplayPrior, ApplyCommit, WriteCommit,
           RecordConflict, WriteConflict, RefuseCommit, SetCall, TypeOK
      <4>2. calls'[q].phase # "verified"
        <5>1. PICK c \in CandidateIds, k \in Keys :
                 \/ ReplayPrior(q, c, k)
                 \/ \E m \in MemoryIds : ApplyCommit(q, c, k, m)
                 \/ RecordConflict(q, c, k)
                 \/ RefuseCommit(q, c, k)
          BY <3>1, TransactCases
        <5>2. CASE ReplayPrior(q, c, k)
          BY <5>2 DEF ReplayPrior, SetCall, Answer, TypeOK
        <5>3. ASSUME NEW m \in MemoryIds, ApplyCommit(q, c, k, m)
              PROVE  calls'[q].phase # "verified"
          BY <5>3 DEF ApplyCommit, WriteCommit, SetCall, TypeOK
        <5>4. CASE RecordConflict(q, c, k) \/ RefuseCommit(q, c, k)
          BY <5>4 DEF RecordConflict, WriteConflict, RefuseCommit, SetCall, Answer, TypeOK
        <5> QED
          BY <5>1, <5>2, <5>3, <5>4
      <4> QED
        BY <4>1, <4>2
    <3>2. ASSUME NEW q \in Callers, Return(q)
          PROVE  calls'[r] = calls[r]
      BY <3>2 DEF Return, SetCall, Idle, TypeOK
    <3>3. ASSUME NEW q \in Callers, NEW c \in CandidateIds, NEW k \in Keys,
                 BeginCommit(q, c, k)
          PROVE  calls'[r] = calls[r] \/ BeginCommit(r, c, k)
      BY <3>3 DEF BeginCommit, SetCall, TypeOK
    <3>4. ASSUME NEW c \in CandidateIds, NEW in \in Inputs, Ingest(c, in)
          PROVE  calls'[r] = calls[r]
      BY <3>4 DEF Ingest
    <3>5. CASE UNCHANGED vars
      BY <3>5 DEF vars
    <3>6. ASSUME NEW c \in CandidateIds, Curate(c)
          PROVE  calls'[r] = calls[r]
      BY <3>6 DEF Curate
    <3> QED
      BY <3>1, <3>2, <3>3, <3>4, <3>5, <3>6 DEF Next
  <2> QED
    BY <2>1, <2>2, <2>3
<1>3. ProviderGate'
  <2>1. CASE Quiet
    BY <1>0, <1>1, <2>1 DEF Quiet, tables, RevisionsKnown, ProviderGate
  <2>2. ASSUME NEW r \in Callers, NEW c \in CandidateIds, NEW k \in Keys,
               NEW m \in MemoryIds, Commits(r, c, k, m)
        PROVE  ProviderGate'
    <3> DEFINE rev == NewRevision(c, candidates[c], m, lastSeq[candidates[c].scope] + 1)
    <3>1. revisions' = revisions \cup {rev} /\ candidates[c] # None
      BY <2>2 DEF Commits, WriteCommit
    <3>2. rev.candidateId = c
      BY DEF NewRevision
    <3>3. candidates[c].producer = "provider" =>
            ProofFits(candidates[c]) /\ admission[c] # "absent"
      BY <2>2 DEF Commits, CallsVerified, VerifiedCalls
    <3> HIDE DEF rev
    <3> QED
      BY <1>0, <1>1, <3>1, <3>2, <3>3 DEF ProviderGate, RevisionsKnown
  <2> QED
    BY <2>1, <2>2, StepShape
<1> QED
  BY <1>2, <1>3

(* The tables only grow. *)
LEMMA TablesGrow ==
  ASSUME TypeOK, CallsKnown, CreateFromNothing, [Next]_vars
  PROVE  revisions \subseteq revisions' /\ changes \subseteq changes'
<1>1. CASE Quiet
  BY <1>1 DEF Quiet, tables
<1>2. ASSUME NEW r \in Callers, NEW c \in CandidateIds, NEW k \in Keys,
             NEW m \in MemoryIds, Commits(r, c, k, m)
      PROVE  revisions \subseteq revisions' /\ changes \subseteq changes'
  BY <1>2 DEF Commits, WriteCommit
<1> QED
  BY <1>1, <1>2, StepShape

(* AnswersAreTrue: a replayed answer is the change stored under the key,   *)
(* whose revision exists because commits are whole, and names the caller's *)
(* candidate because that was compared.                                    *)
LEMMA AnswersAreTrueStep ==
  ASSUME TypeOK, CallsKnown, CreateFromNothing, CommitIsWhole, AnswersAreTrue, [Next]_vars
  PROVE  AnswersAreTrue'
<1> DEFINE True(r) ==
      /\ calls'[r].change \in changes'
      /\ calls'[r].change.key = calls'[r].key
      /\ \E v \in revisions' : /\ v.memoryId = calls'[r].change.memoryId
                               /\ v.revision = calls'[r].change.newRevision
                               /\ v.candidateId = calls'[r].candidateId
<1> SUFFICES ASSUME NEW r \in Callers, calls'[r].phase = "committed"
             PROVE  True(r)
  BY DEF AnswersAreTrue, RevisionRows
<1>1. CASE calls'[r] = calls[r]
  BY <1>1, TablesGrow DEF AnswersAreTrue, RevisionRows
<1>2. CASE Transact(r)
  <2>1. PICK c \in CandidateIds, k \in Keys :
           \/ ReplayPrior(r, c, k)
           \/ \E m \in MemoryIds : ApplyCommit(r, c, k, m)
           \/ RecordConflict(r, c, k)
           \/ RefuseCommit(r, c, k)
    BY <1>2, TransactCases
  <2>2. CASE ReplayPrior(r, c, k)
    <3>1. PICK ch \in changes :
            /\ ch.key = k
            /\ calls' = [calls EXCEPT ![r] =
                 IF \A v \in RevisionRows(ch.memoryId, ch.newRevision) : v.candidateId = c
                 THEN [phase |-> "committed", candidateId |-> c, key |-> k, change |-> ch]
                 ELSE Answer("refused", c, k)]
            /\ UNCHANGED tables
      BY <2>2 DEF ReplayPrior, PriorChanges, SetCall
    <3>2. /\ \A v \in RevisionRows(ch.memoryId, ch.newRevision) : v.candidateId = c
          /\ calls'[r] = [phase |-> "committed", candidateId |-> c, key |-> k, change |-> ch]
      BY <3>1 DEF Answer, TypeOK
    <3>3. \E v \in revisions : v.memoryId = ch.memoryId /\ v.revision = ch.newRevision
                               /\ v.candidateId = c
      BY <3>1, <3>2 DEF CommitIsWhole, RevisionRows
    <3> QED
      BY <3>1, <3>2, <3>3 DEF tables
  <2>3. ASSUME NEW m \in MemoryIds, ApplyCommit(r, c, k, m)
        PROVE  True(r)
    <3> DEFINE seq == NextCommitSeq(candidates[c].scope)
               ch == NewChange(candidates[c], m, k, seq)
               rev == NewRevision(c, candidates[c], m, seq)
    <3>1. /\ calls' = [calls EXCEPT ![r] = [phase |-> "committed", candidateId |-> c,
                                            key |-> k, change |-> ch]]
          /\ ch \in changes' /\ rev \in revisions'
      BY <2>3 DEF ApplyCommit, WriteCommit, SetCall
    <3>2. /\ ch.key = k /\ rev.memoryId = ch.memoryId /\ rev.revision = ch.newRevision
          /\ rev.candidateId = c
      BY DEF NewChange, NewRevision
    <3> HIDE DEF ch, rev
    <3>3. calls'[r] = [phase |-> "committed", candidateId |-> c, key |-> k, change |-> ch]
      BY <3>1 DEF TypeOK
    <3> QED
      BY <3>1, <3>2, <3>3
  <2>4. CASE RecordConflict(r, c, k) \/ RefuseCommit(r, c, k)
    BY <2>4 DEF RecordConflict, WriteConflict, RefuseCommit, SetCall, Answer, TypeOK
  <2> QED
    BY <2>1, <2>2, <2>3, <2>4
<1>3. calls'[r] = calls[r] \/ Transact(r)
  <2>1. ASSUME NEW q \in Callers, Transact(q)
        PROVE  calls'[r] = calls[r] \/ q = r
    BY <2>1 DEF Transact, TransactNew, ReplayPrior, ApplyCommit, WriteCommit,
       RecordConflict, WriteConflict, RefuseCommit, SetCall, TypeOK
  <2>2. ASSUME NEW q \in Callers, Return(q)
        PROVE  calls'[r] = calls[r]
    BY <2>2 DEF Return, SetCall, Idle, TypeOK
  <2>3. ASSUME NEW q \in Callers, NEW c \in CandidateIds, NEW k \in Keys, BeginCommit(q, c, k)
        PROVE  calls'[r] = calls[r]
    BY <2>3 DEF BeginCommit, SetCall, Answer, TypeOK
  <2>4. ASSUME NEW c \in CandidateIds, NEW in \in Inputs, Ingest(c, in)
        PROVE  calls'[r] = calls[r]
    BY <2>4 DEF Ingest
  <2>5. ASSUME NEW c \in CandidateIds, Curate(c)
        PROVE  calls'[r] = calls[r]
    BY <2>5 DEF Curate
  <2>6. CASE UNCHANGED vars
    BY <2>6 DEF vars
  <2> QED
    BY <2>1, <2>2, <2>3, <2>4, <2>5, <2>6 DEF Next
<1> QED
  BY <1>1, <1>2, <1>3

(* TombstoneHolds, one step of it: a commit to a tombstoned memory is a    *)
(* restore.                                                                *)
LEMMA TombstoneStep ==
  ASSUME TypeOK, CallsKnown, CreateFromNothing, FeedContiguous, [Next]_vars
  PROVE  \A m \in MemoryIds :
           heads[m] # None /\ heads[m].status = "tombstoned" =>
             \/ heads'[m] = heads[m]
             \/ \E ch \in changes' \ changes : ch.memoryId = m /\ ch.operation = "restore"
<1>1. CASE Quiet
  BY <1>1 DEF Quiet, tables
<1>2. ASSUME NEW r \in Callers, NEW c \in CandidateIds, NEW k \in Keys,
             NEW x \in MemoryIds, Commits(r, c, k, x), NEW m \in MemoryIds,
             heads[m] # None, heads[m].status = "tombstoned", heads'[m] # heads[m]
      PROVE  \E ch \in changes' \ changes : ch.memoryId = m /\ ch.operation = "restore"
  <2> DEFINE cand == candidates[c]
             seq == lastSeq[cand.scope] + 1
             ch == NewChange(cand, x, k, seq)
  <2>1. /\ \/ heads[x] = None
           \/ StatusAllows(cand.op, heads[x].status)
        /\ heads' = [heads EXCEPT ![x] = NewHead(cand, x)]
        /\ changes' = changes \cup {ch}
        /\ cand.scope \in Scopes /\ lastSeq[cand.scope] \in Nat
    BY <1>2, CommitFacts DEF TypeOK
  <2>2. x = m
    BY <1>2, <2>1 DEF TypeOK
  <2>3. ch.memoryId = m /\ ch.operation = cand.op /\ ch.scope = cand.scope /\ ch.commitSeq = seq
    BY <2>2 DEF NewChange
  <2>4. cand.op = "restore"
    BY <1>2, <2>1, <2>2 DEF StatusAllows
  <2> HIDE DEF ch
  <2>5. ch \notin changes
    BY <2>1, <2>3 DEF FeedContiguous, TypeOK, Changes
  <2> QED
    BY <2>1, <2>3, <2>4, <2>5
<1> QED
  BY <1>1, <1>2, StepShape

-----------------------------------------------------------------------------
(* The inductive invariant.  RevisionChain, FeedContiguous and             *)
(* SemanticIdentityUnique stand on the types alone; CommitOnce and         *)
(* AnswersAreTrue need CommitIsWhole; FeedReplayable needs the first two   *)
(* and CommitIsWhole; ProviderGate needs what a verified call remembers.   *)
Inv ==
  /\ TypeOK /\ CallsKnown /\ CreateFromNothing /\ RevisionsKnown /\ CallsVerified
  /\ RevisionChain /\ FeedContiguous /\ FeedReplayable /\ SemanticIdentityUnique
  /\ CommitIsWhole /\ CommitOnce /\ AnswersAreTrue /\ ContentLineage /\ ProviderGate

(* The empty tables satisfy Inv. *)
LEMMA InvInit == Init => Inv
<1> SUFFICES ASSUME Init PROVE Inv
  OBVIOUS
<1>1. TypeOK /\ CallsKnown
  BY DEF Init, TypeOK, CallsKnown, Admissions, Calls
<1>2. CreateFromNothing /\ RevisionsKnown /\ CallsVerified /\ AnswersAreTrue
  BY DEF Init, CreateFromNothing, RevisionsKnown, CallsVerified, AnswersAreTrue, Idle
<1>3. RevisionChain /\ FeedReplayable /\ SemanticIdentityUnique
  BY DEF Init, RevisionChain, FeedReplayable, SemanticIdentityUnique
<1>4. FeedContiguous
  BY DEF Init, FeedContiguous
<1>5. CommitIsWhole /\ CommitOnce /\ ContentLineage /\ ProviderGate
  BY DEF Init, CommitIsWhole, CommitOnce, ContentLineage, ProviderGate
<1> QED
  BY <1>1, <1>2, <1>3, <1>4, <1>5 DEF Inv

(* Every step of the write path keeps Inv. *)
LEMMA InvStep ==
  ASSUME Inv, [Next]_vars
  PROVE  Inv'
<1> USE DEF Inv
<1>1. TypeOK' /\ CallsKnown'
  BY TypeStep
<1>2. CreateFromNothing'
  BY StepShape
<1>3. CommitIsWhole' /\ RevisionsKnown'
  BY CommitIsWholeStep
<1>4. RevisionChain' /\ FeedContiguous' /\ SemanticIdentityUnique'
  BY RevisionChainStep, FeedContiguousStep, SemanticIdentityStep
<1>5. FeedReplayable' /\ CommitOnce' /\ AnswersAreTrue'
  BY FeedReplayableStep, CommitOnceStep, AnswersAreTrueStep
<1>6. ContentLineage' /\ CallsVerified' /\ ProviderGate'
  BY ContentLineageStep, ProviderGateStep
<1> QED
  BY <1>1, <1>2, <1>3, <1>4, <1>5, <1>6

(* Inv holds in every reachable state, whatever races, retries and crashes *)
(* of callers led to it.                                                   *)
THEOREM Invariance == Spec => []Inv
BY InvInit, InvStep, PTL DEF Spec

(* The optimistic revision check keeps every memory's revisions a chain    *)
(* without gap, fork or change of identity.                                *)
THEOREM RevisionChainHolds == Spec => []RevisionChain
BY Invariance, PTL DEF Inv

(* The feed of every scope is gapless and without duplicates, and replays  *)
(* each memory from its create.                                            *)
THEOREM FeedIsSound == Spec => []FeedSound
BY Invariance, PTL DEF Inv, FeedSound

(* A commit is all of its rows or none, and happens once per key and once  *)
(* per candidate, however often it is retried; what a caller is told about *)
(* it is true.                                                             *)
THEOREM CommitExactlyOnce == Spec => []ExactlyOnce
BY Invariance, PTL DEF Inv, ExactlyOnce

(* A semantic key names one memory of its scope. *)
THEOREM IdentityIsUnique == Spec => []SemanticIdentityUnique
BY Invariance, PTL DEF Inv

(* Tombstones, restores and merges keep the text and lose no evidence. *)
THEOREM LineageHolds == Spec => []ContentLineage
BY Invariance, PTL DEF Inv

(* No provider's candidate becomes canonical without a fitting proof that  *)
(* a curation record has backed.                                           *)
THEOREM ProviderGateHolds == Spec => []ProviderGate
BY Invariance, PTL DEF Inv

(* A tombstoned memory comes back by a committed restore only. *)
THEOREM TombstonesHold == Spec => TombstoneHolds
<1>1. Inv /\ [Next]_vars =>
        [\A m \in MemoryIds :
           heads[m] # None /\ heads[m].status = "tombstoned" =>
             \/ heads'[m] = heads[m]
             \/ \E ch \in changes' \ changes :
                  ch.memoryId = m /\ ch.operation = "restore"]_vars
  BY TombstoneStep DEF Inv
<1> QED
  BY <1>1, Invariance, PTL DEF Spec, TombstoneHolds
=============================================================================

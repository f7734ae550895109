------------------------- MODULE CanonicalAuthority -------------------------
(***************************************************************************)
(* The canonical write path of the memory fabric: candidate ingestion      *)
(* (MemoryCandidateService.ingest) and the two phases of                   *)
(* CanonicalMemoryAuthority.commit, over the canonical tables that both    *)
(* stores keep.  Phase one reads the candidate and asks the curation store *)
(* about a provider's admission proof, outside any transaction.  Phase two *)
(* is one store transaction: copy-on-write behind a write barrier in the   *)
(* in-memory store, BEGIN/COMMIT under row locks in PostgreSQL.  Here the  *)
(* transaction is one atomic step; PostgresCommit splits it into its       *)
(* statements.                                                             *)
(*                                                                         *)
(* Tables are sets of rows (memory_revisions, memory_changes,              *)
(* memory_outbox, memory_conflicts) or functions from the primary key      *)
(* (memory_candidates, memory_heads, memory_namespace_sequences).  Hashes  *)
(* are the value they are computed from; clocks, authors and the fields    *)
(* that are only carried along are left out.                               *)
(***************************************************************************)
EXTENDS Integers, FiniteSets

CONSTANTS
  Scopes,        \* (tenant_id, life_did, memory_namespace)
  CandidateIds,  \* ids the candidate service may hand out
  MemoryIds,     \* ids RandomIdFactory.memoryId may hand out
  Keys,          \* idempotency keys of commit requests
  NamedKeys,     \* semantic keys a caller supplies
  MemoryTypes,   \* the semantic types of memories
  DefaultType,   \* the type a candidate gets when nothing names one
  Contents,      \* proposed and canonical content
  EvidenceIds,   \* evidence and source-experience references
  Inputs,        \* the CandidateInput values callers submit
  Callers,       \* concurrent callers of commit
  None           \* undefined, or no row

Operations == {"create", "update", "supersede", "tombstone", "restore", "merge"}
CandidateStatuses == {"PENDING", "ACCEPTED", "CONFLICT"}
MemoryStatuses == {"active", "tombstoned"}
Producers == {"user", "provider"}
Proofs == {None, "canonical_candidate", "canonical_merge"}

Admissions == {"absent", "admitted", "replaced"}

(* A semantic key is supplied by the caller, or "exact" and derived from   *)
(* the candidate's own fingerprint.                                        *)
ExactKeys == {"exact"} \X MemoryTypes \X Contents \X BOOLEAN
SemanticKeys == NamedKeys \cup ExactKeys
Fingerprints == Scopes \X MemoryTypes \X SemanticKeys \X Contents \X BOOLEAN

CandidateInputs ==
  [scope : Scopes, op : Operations, base : MemoryIds \cup {None},
   baseRevision : Nat, semanticKey : NamedKeys \cup {None},
   memoryType : MemoryTypes \cup {None}, content : Contents,
   evidence : SUBSET EvidenceIds, producer : Producers, proof : Proofs,
   certain : BOOLEAN]

MemoryCandidates ==
  [scope : Scopes, op : Operations, base : MemoryIds \cup {None},
   baseRevision : Nat, semanticKey : SemanticKeys,
   memoryType : MemoryTypes, content : Contents,
   evidence : SUBSET EvidenceIds, producer : Producers, proof : Proofs,
   certain : BOOLEAN, status : CandidateStatuses]

Heads ==
  [scope : Scopes, memoryType : MemoryTypes, semanticKey : SemanticKeys,
   currentRevision : Nat \ {0}, status : MemoryStatuses]

Revisions ==
  [memoryId : MemoryIds, revision : Nat \ {0}, scope : Scopes,
   memoryType : MemoryTypes, semanticKey : SemanticKeys,
   status : MemoryStatuses, content : Contents,
   evidence : SUBSET EvidenceIds, semanticFingerprint : Fingerprints,
   candidateId : CandidateIds, candidateFingerprint : Fingerprints,
   commitSeq : Nat \ {0}]

Changes ==
  [scope : Scopes, commitSeq : Nat \ {0}, memoryId : MemoryIds,
   operation : Operations, baseRevision : Nat, newRevision : Nat \ {0},
   key : Keys]

OutboxRows ==
  [scope : Scopes, commitSeq : Nat \ {0}, memoryId : MemoryIds,
   revision : Nat \ {0}, operation : Operations]

Conflicts ==
  [candidateId : CandidateIds, memoryId : MemoryIds,
   expectedRevision : Nat, currentRevision : Nat \ {0}]

(* What one caller of commit is doing, and the answer it last got. *)
Idle == [phase |-> "idle"]
VerifiedCalls == [phase : {"verified"}, candidateId : CandidateIds, key : Keys]
CommittedCalls ==
  [phase : {"committed"}, candidateId : CandidateIds, key : Keys, change : Changes]
FailedCalls ==
  [phase : {"conflict", "refused"}, candidateId : CandidateIds, key : Keys]
Calls == {Idle} \cup VerifiedCalls \cup CommittedCalls \cup FailedCalls

ASSUME InputsAssumption == Inputs \subseteq CandidateInputs

ASSUME NoneAssumption ==
  /\ None \notin CandidateInputs \cup MemoryCandidates \cup Heads
  /\ None \notin MemoryIds
  /\ None \notin NamedKeys
  /\ None \notin MemoryTypes

ASSUME DefaultTypeAssumption == DefaultType \in MemoryTypes

VARIABLES
  candidates,  \* memory_candidates by candidate_id
  admission,   \* the curation record behind each candidate
  heads,       \* memory_heads by memory_id
  revisions,   \* memory_revisions
  changes,     \* memory_changes
  outbox,      \* memory_outbox as the commit writes it
  conflicts,   \* memory_conflicts
  lastSeq,     \* memory_namespace_sequences
  calls        \* callers of commit

tables == <<heads, revisions, changes, outbox, lastSeq>>
vars == <<candidates, admission, heads, revisions, changes, outbox,
          conflicts, lastSeq, calls>>

Init ==
  /\ candidates = [c \in CandidateIds |-> None]
  /\ admission = [c \in CandidateIds |-> "absent"]
  /\ heads = [m \in MemoryIds |-> None]
  /\ revisions = {}
  /\ changes = {}
  /\ outbox = {}
  /\ conflicts = {}
  /\ lastSeq = [s \in Scopes |-> 0]
  /\ calls = [r \in Callers |-> Idle]

-----------------------------------------------------------------------------
(* Candidate ingestion. *)

(* MemoryCandidateService.validateInput: the checks that throw. *)
ValidInput(in) ==
  /\ in.evidence # {}
  /\ in.proof # None => (in.proof = "canonical_merge" <=> in.op = "merge")
  /\ IF in.op = "create"
       THEN in.base = None /\ in.baseRevision = 0
       ELSE in.base # None /\ in.baseRevision >= 1

(* The head ingest reads for the defaults, if it exists by now. *)
BaseHead(in) == IF in.base = None THEN None ELSE heads[in.base]

IngestType(in) ==
  IF in.memoryType # None THEN in.memoryType
  ELSE IF BaseHead(in) # None THEN BaseHead(in).memoryType ELSE DefaultType

IngestKey(in) ==
  IF in.semanticKey # None THEN in.semanticKey
  ELSE IF BaseHead(in) # None THEN BaseHead(in).semanticKey
  ELSE <<"exact", IngestType(in), in.content, in.certain>>

NewCandidate(in) ==
  [scope |-> in.scope, op |-> in.op, base |-> in.base,
   baseRevision |-> in.baseRevision, semanticKey |-> IngestKey(in),
   memoryType |-> IngestType(in), content |-> in.content,
   evidence |-> in.evidence, producer |-> in.producer, proof |-> in.proof,
   certain |-> in.certain, status |-> "PENDING"]

(* candidateSemanticFingerprint; the one caller that supplies a fingerprint *)
(* computes it the same way.                                               *)
Fingerprint(cand) ==
  <<cand.scope, cand.memoryType, cand.semanticKey, cand.content, cand.certain>>

(* The base head is read before the transaction that stores the candidate; *)
(* nobody knows the candidate in between, and a head's type and key never  *)
(* change, so the two are one step.                                        *)
Ingest(c, in) ==
  /\ candidates[c] = None
  /\ ValidInput(in)
  /\ candidates' = [candidates EXCEPT ![c] = NewCandidate(in)]
  /\ UNCHANGED <<admission, tables, conflicts, calls>>

(* put() on the curation store: the record the proof refers to comes to    *)
(* back the candidate, or is replaced by one that does not.                *)
Curate(c) ==
  /\ candidates[c] # None
  /\ candidates[c].proof # None
  /\ admission' = [admission EXCEPT ![c] =
                     IF @ = "admitted" THEN "replaced" ELSE "admitted"]
  /\ UNCHANGED <<candidates, tables, conflicts, calls>>

-----------------------------------------------------------------------------
(* CanonicalMemoryAuthority.commit, phase one. *)

(* providerAdmissionStateFingerprint: the proof fits the operation and the *)
(* claim needs no explicit review.                                         *)
ProofFits(cand) ==
  /\ \/ cand.proof = "canonical_candidate" /\ cand.op = "create"
     \/ cand.proof = "canonical_merge" /\ cand.op = "merge"
  /\ cand.certain

(* Mutant: the shape of the proof is trusted, the record is not looked up. *)
AdmissibleWithoutRecord(c, cand) ==
  cand.producer = "provider" => ProofFits(cand)

(* requireProviderAdmission: only provider candidates are gated. *)
Admissible(c, cand) ==
  cand.producer = "provider" => ProofFits(cand) /\ admission[c] = "admitted"

SetCall(r, call) == calls' = [calls EXCEPT ![r] = call]

Answer(phase, c, k) == [phase |-> phase, candidateId |-> c, key |-> k]

BeginCommit(r, c, k) ==
  /\ calls[r] = Idle
  /\ candidates[c] # None
  /\ SetCall(r, Answer(IF Admissible(c, candidates[c]) THEN "verified" ELSE "refused",
                       c, k))
  /\ UNCHANGED <<candidates, admission, tables, conflicts>>

-----------------------------------------------------------------------------
(* Phase two: commitInTransaction. *)

(* Mutant: an idempotency key is only looked up while it is the last one. *)
PriorChangesLatest(s, k) ==
  {ch \in changes : ch.scope = s /\ ch.key = k /\ ch.commitSeq = lastSeq[s]}

PriorChanges(s, k) == {ch \in changes : ch.scope = s /\ ch.key = k}

RevisionRows(m, n) == {v \in revisions : v.memoryId = m /\ v.revision = n}

(* Mutant: a used key answers whoever sends it. *)
ReplayToAnyone(r, c, k) ==
  \E ch \in PriorChanges(candidates[c].scope, k) :
    /\ SetCall(r, [phase |-> "committed", candidateId |-> c, key |-> k,
                   change |-> ch])
    /\ UNCHANGED <<candidates, admission, tables, conflicts>>

(* The key was used before: replay its result, to the same candidate only. *)
ReplayPrior(r, c, k) ==
  \E ch \in PriorChanges(candidates[c].scope, k) :
    /\ SetCall(r, IF \A v \in RevisionRows(ch.memoryId, ch.newRevision) :
                       v.candidateId = c
                    THEN [phase |-> "committed", candidateId |-> c, key |-> k,
                          change |-> ch]
                    ELSE Answer("refused", c, k))
    /\ UNCHANGED <<candidates, admission, tables, conflicts>>

(* Mutant: sameScope is not asked. *)
HeadInAnyScope(cand) ==
  /\ cand.base # None
  /\ heads[cand.base] # None

HeadInScope(cand) ==
  /\ cand.base # None
  /\ heads[cand.base] # None
  /\ heads[cand.base].scope = cand.scope

StaleBase(cand) ==
  /\ cand.status = "PENDING"
  /\ cand.op \notin {"create", "supersede"}
  /\ HeadInScope(cand)
  /\ heads[cand.base].currentRevision # cand.baseRevision

SameIdentity(cand, head) ==
  cand.memoryType = head.memoryType /\ cand.semanticKey = head.semanticKey

(* Mutant: update only makes sure the memory is not superseded. *)
StatusAllowsUpdateOfTombstone(op, status) ==
  \/ op \in {"update", "merge"}
  \/ op = "tombstone" /\ status # "tombstoned"
  \/ op = "restore" /\ status = "tombstoned"

StatusAllows(op, status) ==
  \/ op \in {"update", "merge"} /\ status = "active"
  \/ op = "tombstone" /\ status # "tombstoned"
  \/ op = "restore" /\ status = "tombstoned"

(* Mutant: a tombstone frees its semantic key. *)
CreateAllowedOverTombstone(cand, m) ==
  /\ cand.op = "create"
  /\ heads[m] = None
  /\ \A x \in MemoryIds :
       heads[x] # None =>
         ~(/\ heads[x].scope = cand.scope
           /\ heads[x].semanticKey = cand.semanticKey
           /\ heads[x].status = "active")

(* putHead at revision 1: neither the memory id nor, in the scope, the     *)
(* semantic key is taken.                                                  *)
CreateAllowed(cand, m) ==
  /\ cand.op = "create"
  /\ heads[m] = None
  /\ \A x \in MemoryIds :
       heads[x] # None =>
         ~(heads[x].scope = cand.scope /\ heads[x].semanticKey = cand.semanticKey)

(* Mutant: any base revision the memory has had will do. *)
MutateAllowedFromOldBase(cand, m) ==
  /\ cand.op \notin {"create", "supersede"}
  /\ HeadInScope(cand)
  /\ m = cand.base
  /\ heads[m].currentRevision >= cand.baseRevision
  /\ SameIdentity(cand, heads[m])
  /\ StatusAllows(cand.op, heads[m].status)

MutateAllowed(cand, m) ==
  /\ cand.op \notin {"create", "supersede"}
  /\ HeadInScope(cand)
  /\ m = cand.base
  /\ heads[m].currentRevision = cand.baseRevision
  /\ SameIdentity(cand, heads[m])
  /\ RevisionRows(m, heads[m].currentRevision) # {}
  /\ StatusAllows(cand.op, heads[m].status)

Allowed(cand, m) ==
  /\ cand.status = "PENDING"
  /\ CreateAllowed(cand, m) \/ MutateAllowed(cand, m)

NewStatus(cand) == IF cand.op = "tombstone" THEN "tombstoned" ELSE "active"

NewHead(cand, m) ==
  [scope |-> cand.scope, memoryType |-> cand.memoryType,
   semanticKey |-> cand.semanticKey,
   currentRevision |-> cand.baseRevision + 1, status |-> NewStatus(cand)]

(* The revision a commit builds on. *)
Prior(cand, m) == CHOOSE v \in RevisionRows(m, cand.baseRevision) : TRUE

(* What the new revision carries.  Create and update take the candidate's  *)
(* content; merge keeps the content and unites the evidence; tombstone and *)
(* restore carry the current revision on, its semantic fingerprint         *)
(* included, while the provenance names the candidate and its fingerprint. *)
Rewrites(op) == op \in {"create", "update"}

NewContent(cand, m) ==
  IF Rewrites(cand.op) THEN cand.content ELSE Prior(cand, m).content

NewEvidence(cand, m) ==
  IF Rewrites(cand.op) THEN cand.evidence
  ELSE IF cand.op = "merge" THEN Prior(cand, m).evidence \cup cand.evidence
  ELSE Prior(cand, m).evidence

(* Mutant: merge keeps the fingerprint of the revision it adds to. *)
NewFingerprintOfPriorOnMerge(cand, m) ==
  IF Rewrites(cand.op) THEN Fingerprint(cand) ELSE Prior(cand, m).semanticFingerprint

NewFingerprint(cand, m) ==
  IF cand.op \in {"tombstone", "restore"} THEN Prior(cand, m).semanticFingerprint
  ELSE Fingerprint(cand)

(* Mutant: every operation writes the text it was proposed with. *)
NewRevisionOfProposal(c, cand, m, seq) ==
  [memoryId |-> m, revision |-> cand.baseRevision + 1,
   scope |-> cand.scope, memoryType |-> cand.memoryType,
   semanticKey |-> cand.semanticKey, status |-> NewStatus(cand),
   content |-> cand.content, evidence |-> cand.evidence,
   semanticFingerprint |-> Fingerprint(cand),
   candidateId |-> c, candidateFingerprint |-> Fingerprint(cand),
   commitSeq |-> seq]

NewRevision(c, cand, m, seq) ==
  [memoryId |-> m, revision |-> cand.baseRevision + 1,
   scope |-> cand.scope, memoryType |-> cand.memoryType,
   semanticKey |-> cand.semanticKey, status |-> NewStatus(cand),
   content |-> NewContent(cand, m), evidence |-> NewEvidence(cand, m),
   semanticFingerprint |-> NewFingerprint(cand, m),
   candidateId |-> c, candidateFingerprint |-> Fingerprint(cand),
   commitSeq |-> seq]

NewChange(cand, m, k, seq) ==
  [scope |-> cand.scope, commitSeq |-> seq, memoryId |-> m,
   operation |-> cand.op, baseRevision |-> cand.baseRevision,
   newRevision |-> cand.baseRevision + 1, key |-> k]

NewOutboxRow(cand, m, seq) ==
  [scope |-> cand.scope, commitSeq |-> seq, memoryId |-> m,
   revision |-> cand.baseRevision + 1, operation |-> cand.op]

(* The rows of one commit, published together. *)
WriteCommit(r, c, cand, k, m, seq) ==
  /\ lastSeq' = [lastSeq EXCEPT ![cand.scope] = seq]
  /\ heads' = [heads EXCEPT ![m] = NewHead(cand, m)]
  /\ revisions' = revisions \cup {NewRevision(c, cand, m, seq)}
  /\ changes' = changes \cup {NewChange(cand, m, k, seq)}
  /\ outbox' = outbox \cup {NewOutboxRow(cand, m, seq)}
  /\ candidates' = [candidates EXCEPT ![c].status = "ACCEPTED"]
  /\ SetCall(r, [phase |-> "committed", candidateId |-> c, key |-> k,
                 change |-> NewChange(cand, m, k, seq)])
  /\ UNCHANGED <<admission, conflicts>>

(* nextCommitSeq: the sequence of the candidate's scope, advanced by one. *)
NextCommitSeq(s) == lastSeq[s] + 1

ApplyCommit(r, c, k, m) ==
  /\ Allowed(candidates[c], m)
  /\ WriteCommit(r, c, candidates[c], k, m, NextCommitSeq(candidates[c].scope))

WriteConflict(r, c, cand, k, current) ==
  /\ candidates' = [candidates EXCEPT ![c].status = "CONFLICT"]
  /\ conflicts' = conflicts \cup
       {[candidateId |-> c, memoryId |-> cand.base,
         expectedRevision |-> cand.baseRevision, currentRevision |-> current]}
  /\ SetCall(r, Answer("conflict", c, k))
  /\ UNCHANGED <<admission, tables>>

RecordConflict(r, c, k) ==
  LET cand == candidates[c] IN
  /\ StaleBase(cand)
  /\ WriteConflict(r, c, cand, k, heads[cand.base].currentRevision)

(* Every other path throws and the transaction rolls back; a create also   *)
(* rolls back when the drawn memory id collides.                           *)
RefuseCommit(r, c, k) ==
  /\ ~StaleBase(candidates[c])
  /\ \E m \in MemoryIds : ~Allowed(candidates[c], m)
  /\ candidates[c].op = "create" \/ \A m \in MemoryIds : ~Allowed(candidates[c], m)
  /\ SetCall(r, Answer("refused", c, k))
  /\ UNCHANGED <<candidates, admission, tables, conflicts>>

TransactNew(r, c, k) ==
  /\ PriorChanges(candidates[c].scope, k) = {}
  /\ \/ \E m \in MemoryIds : ApplyCommit(r, c, k, m)
     \/ RecordConflict(r, c, k)
     \/ RefuseCommit(r, c, k)

Transact(r) ==
  /\ calls[r].phase = "verified"
  /\ LET c == calls[r].candidateId
         k == calls[r].key
     IN ReplayPrior(r, c, k) \/ TransactNew(r, c, k)

(* The caller takes its answer, or crashes and loses it: either way it may *)
(* send the same request again.                                            *)
Return(r) ==
  /\ calls[r] # Idle
  /\ SetCall(r, Idle)
  /\ UNCHANGED <<candidates, admission, tables, conflicts>>

Next ==
  \/ \E c \in CandidateIds, in \in Inputs : Ingest(c, in)
  \/ \E c \in CandidateIds : Curate(c)
  \/ \E r \in Callers, c \in CandidateIds, k \in Keys : BeginCommit(r, c, k)
  \/ \E r \in Callers : Transact(r)
  \/ \E r \in Callers : Return(r)

Spec == Init /\ [][Next]_vars

-----------------------------------------------------------------------------
(* Properties. *)

(* Every table holds rows of its own shape, and every caller is in a state *)
(* of commit.                                                              *)
TypeOK ==
  /\ candidates \in [CandidateIds -> MemoryCandidates \cup {None}]
  /\ admission \in [CandidateIds -> Admissions]
  /\ heads \in [MemoryIds -> Heads \cup {None}]
  /\ revisions \subseteq Revisions
  /\ changes \subseteq Changes
  /\ outbox \subseteq OutboxRows
  /\ conflicts \subseteq Conflicts
  /\ lastSeq \in [Scopes -> Nat]
  /\ calls \in [Callers -> Calls]

(* The optimistic revision check: whatever callers race, the revisions of  *)
(* a memory are exactly 1 .. currentRevision, one row each, all of the     *)
(* head's scope and identity, and the last one has the head's status.      *)
RevisionChain ==
  /\ \A m \in MemoryIds : heads[m] # None =>
       \A n \in 1 .. heads[m].currentRevision : RevisionRows(m, n) # {}
  /\ \A v \in revisions :
       /\ heads[v.memoryId] # None
       /\ v.revision <= heads[v.memoryId].currentRevision
       /\ v.scope = heads[v.memoryId].scope
       /\ v.memoryType = heads[v.memoryId].memoryType
       /\ v.semanticKey = heads[v.memoryId].semanticKey
       /\ v.revision = heads[v.memoryId].currentRevision =>
            v.status = heads[v.memoryId].status
  /\ \A v, w \in revisions :
       v.memoryId = w.memoryId /\ v.revision = w.revision => v = w

(* The change feed of a scope is 1 .. lastSeq with neither a gap nor a     *)
(* duplicate: what nextCommitSeq hands out is used up by the commit it was *)
(* drawn for, and a conflict or a refusal draws nothing.                   *)
FeedContiguous ==
  /\ \A s \in Scopes : \A n \in 1 .. lastSeq[s] :
       \E ch \in changes : ch.scope = s /\ ch.commitSeq = n
  /\ \A ch \in changes : ch.commitSeq <= lastSeq[ch.scope]
  /\ \A x, y \in changes :
       x.scope = y.scope /\ x.commitSeq = y.commitSeq => x = y

(* Replaying one scope's feed in commitSeq order rebuilds each memory: a   *)
(* change to revision n > 1 follows, in the same scope, the change to      *)
(* revision n - 1, and revision 1 is the create.                           *)
FeedReplayable ==
  \A ch \in changes :
    IF ch.newRevision = 1
      THEN ch.operation = "create"
      ELSE \E prev \in changes :
             /\ prev.scope = ch.scope
             /\ prev.memoryId = ch.memoryId
             /\ prev.newRevision = ch.newRevision - 1
             /\ prev.commitSeq < ch.commitSeq

(* The feed of a scope is gapless, without duplicates, and replayable.     *)
FeedSound == FeedContiguous /\ FeedReplayable

(* A commit is all of its rows: each change has its revision and its       *)
(* outbox row, none exists without the others, and a candidate is ACCEPTED *)
(* exactly when it has a revision.                                         *)
CommitIsWhole ==
  /\ \A ch \in changes :
       \E v \in RevisionRows(ch.memoryId, ch.newRevision) :
         v.scope = ch.scope /\ v.commitSeq = ch.commitSeq
  /\ \A v \in revisions : \E ch \in changes :
       /\ ch.memoryId = v.memoryId /\ ch.newRevision = v.revision
       /\ ch.scope = v.scope /\ ch.commitSeq = v.commitSeq
  /\ outbox = {[scope |-> ch.scope, commitSeq |-> ch.commitSeq,
                memoryId |-> ch.memoryId, revision |-> ch.newRevision,
                operation |-> ch.operation] : ch \in changes}
  /\ \A c \in CandidateIds : candidates[c] # None =>
       (candidates[c].status = "ACCEPTED" <=>
          \E v \in revisions : v.candidateId = c)

(* However often a request is retried, and whatever keys it is retried     *)
(* under: an idempotency key names one change of its scope, and a          *)
(* candidate makes one revision.                                           *)
CommitOnce ==
  /\ \A x, y \in changes : x.scope = y.scope /\ x.key = y.key => x = y
  /\ \A v, w \in revisions : v.candidateId = w.candidateId => v = w

(* A caller told that its request committed is told the truth: the change  *)
(* it was given is in the feed, under its key, and is its candidate's.     *)
AnswersAreTrue ==
  \A r \in Callers : calls[r].phase = "committed" =>
    /\ calls[r].change \in changes
    /\ calls[r].change.key = calls[r].key
    /\ \E v \in RevisionRows(calls[r].change.memoryId, calls[r].change.newRevision) :
         v.candidateId = calls[r].candidateId

(* A request is committed exactly once: whole, once per key and candidate  *)
(* however it is retried, and as its caller is told.                       *)
ExactlyOnce == CommitIsWhole /\ CommitOnce /\ AnswersAreTrue

(* One memory per semantic key and scope, tombstoned memories included.    *)
SemanticIdentityUnique ==
  \A m, x \in MemoryIds :
    /\ heads[m] # None /\ heads[x] # None
    /\ heads[m].scope = heads[x].scope
    /\ heads[m].semanticKey = heads[x].semanticKey
    => m = x

(* Across any chain of tombstones, restores and merges a memory keeps the  *)
(* text of its last create or update, and no evidence is lost.             *)
ContentLineage ==
  \A v \in revisions : v.revision = 1 \/
    candidates[v.candidateId].op = "update" \/
      \E w \in RevisionRows(v.memoryId, v.revision - 1) :
        w.content = v.content /\ w.evidence \subseteq v.evidence

(* A provider's candidate becomes canonical only with a proof that fits    *)
(* its operation and that an admitted curation record has backed; the      *)
(* record may have been replaced since.                                    *)
ProviderGate ==
  \A v \in revisions : candidates[v.candidateId].producer = "provider" =>
    /\ ProofFits(candidates[v.candidateId])
    /\ admission[v.candidateId] # "absent"

(* A tombstoned memory stays so until a restore commits: no update, merge  *)
(* or second create brings it back.                                        *)
TombstoneHolds ==
  [][\A m \in MemoryIds :
       heads[m] # None /\ heads[m].status = "tombstoned" =>
         \/ heads'[m] = heads[m]
         \/ \E ch \in changes' \ changes :
              ch.memoryId = m /\ ch.operation = "restore"]_vars
=============================================================================

--------------------------- MODULE PostgresCommit ---------------------------
(***************************************************************************)
(* commitInTransaction against PostgresCanonicalMemoryStore, one action    *)
(* per SQL statement that can wait or decide, at the READ COMMITTED        *)
(* isolation the pool runs with: a statement sees what was committed when  *)
(* it starts, and what a transaction writes stays its own until COMMIT.    *)
(* Row locks, the advisory lock of an idempotency key and the pending      *)
(* entries of unique indexes are names in the set each transaction holds;  *)
(* a statement that needs a name another transaction holds waits.          *)
(* ROLLBACK, a lost connection and a crashed process all drop the          *)
(* transaction with its locks.                                             *)
(*                                                                         *)
(* The variables of CanonicalAuthority are the committed tables, so its    *)
(* Spec is what this module has to implement.                              *)
(***************************************************************************)
EXTENDS CanonicalAuthority

VARIABLE tx  \* the open transaction of each caller

pgVars == <<vars, tx>>

(* A transaction is the statement it stands before, the names it holds,    *)
(* and what it has read: its candidate, the change it replays, the drawn   *)
(* memory id or the base, the sequence number.                             *)
NoTx == [step |-> "none", held |-> {}, cand |-> None, prior |-> None,
         memoryId |-> None, seq |-> 0]

CandidateLock(c) == <<"candidate", c>>
KeyLock(s, k) == <<"key", s, k>>
HeadLock(m) == <<"head", m>>
SequenceLock(s) == <<"sequence", s>>
IdentityLock(s, sk) == <<"identity", s, sk>>

PgInit == Init /\ tx = [r \in Callers |-> NoTx]

IdentityTaken(cand, m) == ~CreateAllowed(cand, m)

(* The names a caller's next statement needs.  A SELECT ... FOR UPDATE     *)
(* finds only committed rows, so it does not wait for a pending INSERT;    *)
(* INSERT ... ON CONFLICT DO NOTHING waits for pending INSERTs only.       *)
Wanted(r) ==
  LET t == tx[r] IN
  CASE t.step = "none" /\ calls[r].phase = "verified" ->
         {CandidateLock(calls[r].candidateId)}
    [] t.step = "key" -> {KeyLock(t.cand.scope, calls[r].key)}
    [] t.step = "replay" -> {HeadLock(t.prior.memoryId)}
    [] t.step = "head" /\ heads[t.memoryId] # None -> {HeadLock(t.memoryId)}
    [] t.step = "sequence" -> {SequenceLock(t.cand.scope)}
    [] t.step = "putHead" /\ t.cand.op = "create" /\ ~IdentityTaken(t.cand, t.memoryId) ->
         {HeadLock(t.memoryId), IdentityLock(t.cand.scope, t.cand.semanticKey)}
    [] OTHER -> {}

Waits(r, q) == q # r /\ Wanted(r) \cap tx[q].held # {}

(* The statement runs: no other transaction is in its way. *)
Statement(r, step) ==
  /\ tx[r].step = step
  /\ \A q \in Callers : ~Waits(r, q)

(* On to the next statement, with the names this one needed. *)
Proceed(r, t) == tx' = [tx EXCEPT ![r] = [t EXCEPT !.held = @ \cup Wanted(r)]]

End(r) == tx' = [tx EXCEPT ![r] = NoTx]

(* A thrown error: ROLLBACK, and the caller gets the error. *)
Rollback(r) ==
  /\ End(r)
  /\ SetCall(r, Answer("refused", calls[r].candidateId, calls[r].key))
  /\ UNCHANGED <<candidates, admission, tables, conflicts>>

(* Mutant: a tombstone draws its sequence number before it locks the head. *)
FollowingTombstoneEarlySeq(cand, step) ==
  CASE step = "lookup" ->
         IF cand.op \in {"create", "tombstone"} THEN "sequence" ELSE "head"
    [] step = "head" -> IF cand.op = "tombstone" THEN "putHead" ELSE "sequence"
    [] step = "sequence" -> IF cand.op = "tombstone" THEN "head" ELSE "putHead"

(* The order commitInTransaction issues the locking statements in. *)
Following(cand, step) ==
  CASE step = "lookup" -> IF cand.op = "create" THEN "sequence" ELSE "head"
    [] step = "head" -> "sequence"
    [] step = "sequence" -> "putHead"

-----------------------------------------------------------------------------
(* BEGIN, then getCandidate: SELECT ... FOR UPDATE. *)
ReadCandidate(r) ==
  /\ Statement(r, "none")
  /\ calls[r].phase = "verified"
  /\ Proceed(r, [tx[r] EXCEPT !.step = "key",
                              !.cand = candidates[calls[r].candidateId]])
  /\ UNCHANGED vars

(* getCommitResultByIdempotencyKey: pg_advisory_xact_lock. *)
LockKey(r) ==
  /\ Statement(r, "key")
  /\ Proceed(r, [tx[r] EXCEPT !.step = "lookup"])
  /\ UNCHANGED vars

(* The change under the key, if there is one; otherwise the checks that    *)
(* need no other row, and for a create the new memory id.                  *)
LookupKey(r) ==
  LET cand == tx[r].cand
      prior == PriorChanges(cand.scope, calls[r].key)
  IN
  /\ Statement(r, "lookup")
  /\ \/ /\ prior # {}
        /\ \E ch \in prior : Proceed(r, [tx[r] EXCEPT !.step = "replay", !.prior = ch])
        /\ UNCHANGED vars
     \/ /\ prior = {}
        /\ cand.status # "PENDING" \/ cand.op = "supersede"
        /\ Rollback(r)
     \/ /\ prior = {}
        /\ cand.status = "PENDING" /\ cand.op # "supersede"
        /\ \E m \in IF cand.op = "create" THEN MemoryIds ELSE {cand.base} :
             Proceed(r, [tx[r] EXCEPT !.step = Following(cand, "lookup"),
                                      !.memoryId = m])
        /\ UNCHANGED vars

(* The rest of the replay: the head FOR UPDATE, the revision, the outbox   *)
(* row, and COMMIT of a transaction that wrote nothing.                    *)
Replay(r) ==
  LET ch == tx[r].prior
      c == calls[r].candidateId
      mine == \A v \in RevisionRows(ch.memoryId, ch.newRevision) : v.candidateId = c
  IN
  /\ Statement(r, "replay")
  /\ \/ ~mine /\ Rollback(r)
     \/ /\ mine
        /\ End(r)
        /\ SetCall(r, [phase |-> "committed", candidateId |-> c,
                       key |-> calls[r].key, change |-> ch])
        /\ UNCHANGED <<candidates, admission, tables, conflicts>>

(* getHead FOR UPDATE and getRevision: the checks on them, and for a stale *)
(* base the conflict row, the candidate's status and COMMIT.               *)
ReadHead(r) ==
  LET cand == tx[r].cand
      head == heads[tx[r].memoryId]
      stale == HeadInScope(cand) /\ head.currentRevision # cand.baseRevision
  IN
  /\ Statement(r, "head")
  /\ \/ /\ stale
        /\ End(r)
        /\ WriteConflict(r, calls[r].candidateId, cand, calls[r].key,
                         head.currentRevision)
     \/ /\ ~stale /\ ~MutateAllowed(cand, tx[r].memoryId)
        /\ Rollback(r)
     \/ /\ ~stale /\ MutateAllowed(cand, tx[r].memoryId)
        /\ Proceed(r, [tx[r] EXCEPT !.step = Following(cand, "head")])
        /\ UNCHANGED vars

(* Mutant: the number comes from a counter that does not lock its row. *)
DrawSequenceUnlocked(r) ==
  /\ tx[r].step = "sequence"
  /\ tx' = [tx EXCEPT ![r].step = Following(tx[r].cand, "sequence"),
                      ![r].seq = NextCommitSeq(tx[r].cand.scope)]
  /\ UNCHANGED vars

(* next_memory_commit_seq: the upsert keeps the scope's row locked. *)
DrawSequence(r) ==
  /\ Statement(r, "sequence")
  /\ Proceed(r, [tx[r] EXCEPT !.step = Following(tx[r].cand, "sequence"),
                              !.seq = NextCommitSeq(tx[r].cand.scope)])
  /\ UNCHANGED vars

(* putHead: the INSERT must make a row; the guarded UPDATE must find one. *)
PutHead(r) ==
  LET cand == tx[r].cand
      m == tx[r].memoryId
      done == IF cand.op = "create" THEN ~IdentityTaken(cand, m)
              ELSE /\ heads[m].scope = cand.scope
                   /\ SameIdentity(cand, heads[m])
                   /\ heads[m].currentRevision = cand.baseRevision
  IN
  /\ Statement(r, "putHead")
  /\ \/ ~done /\ Rollback(r)
     \/ done /\ Proceed(r, [tx[r] EXCEPT !.step = "rows"]) /\ UNCHANGED vars

(* The unique constraints of memory_revisions, memory_changes and          *)
(* memory_outbox on the rows about to be inserted.                         *)
RowsFit(r) ==
  LET cand == tx[r].cand IN
  /\ RevisionRows(tx[r].memoryId, cand.baseRevision + 1) = {}
  /\ PriorChanges(cand.scope, calls[r].key) = {}
  /\ \A ch \in changes : ch.scope = cand.scope => ch.commitSeq # tx[r].seq

(* appendRevision, appendChange, appendOutbox, setCandidateStatus, COMMIT. *)
Commit(r) ==
  /\ Statement(r, "rows")
  /\ \/ ~RowsFit(r) /\ Rollback(r)
     \/ /\ RowsFit(r)
        /\ End(r)
        /\ WriteCommit(r, calls[r].candidateId, tx[r].cand, calls[r].key,
                       tx[r].memoryId, tx[r].seq)

(* The connection or the process is lost before COMMIT. *)
Crash(r) ==
  /\ tx[r].step # "none"
  /\ End(r)
  /\ SetCall(r, Idle)
  /\ UNCHANGED <<candidates, admission, tables, conflicts>>

Outside(r) ==
  /\ tx[r].step = "none"
  /\ (\E c \in CandidateIds, k \in Keys : BeginCommit(r, c, k)) \/ Return(r)
  /\ UNCHANGED tx

Run(r) ==
  \/ ReadCandidate(r) \/ LockKey(r) \/ LookupKey(r) \/ Replay(r)
  \/ ReadHead(r) \/ DrawSequence(r) \/ PutHead(r) \/ Commit(r)

PgNext ==
  \/ \E c \in CandidateIds, in \in Inputs : Ingest(c, in) /\ UNCHANGED tx
  \/ \E c \in CandidateIds : Curate(c) /\ UNCHANGED tx
  \/ \E r \in Callers : Outside(r) \/ Run(r) \/ Crash(r)

PgSpec == PgInit /\ [][PgNext]_pgVars

-----------------------------------------------------------------------------
(* No set of transactions waits for one another: candidate, key, head,     *)
(* sequence row and the indexes of memory_heads are always taken in an     *)
(* order that has no cycle.                                                *)
NoWaitCycle ==
  ~ \E stuck \in (SUBSET Callers) \ {{}} :
      \A r \in stuck : \E q \in stuck : Waits(r, q)

(* The statements, whatever their interleaving and wherever they stop,     *)
(* amount to the atomic commit of CanonicalAuthority: each COMMIT is one   *)
(* Transact step on the committed tables, and a lost transaction leaves    *)
(* them as they were.                                                      *)
ImplementsAtomicCommit == Spec
=============================================================================

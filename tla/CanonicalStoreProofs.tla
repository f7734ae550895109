----------------------- MODULE CanonicalStoreProofs ------------------------
(***************************************************************************)
(* What the canonical tables promise and what keeps the promise, for every *)
(* value of the constants: they implement the ledger of MemoryLedger, the  *)
(* statements of the PostgreSQL store implement the atomic commit of       *)
(* CanonicalAuthority and never wait in a circle, and what a verified      *)
(* retrieval lets through is current.                                      *)
(***************************************************************************)
EXTENDS CanonicalRefinement, PostgresCommit, VerifiedRead, CanonicalAuthorityProofs, Sequences

-----------------------------------------------------------------------------
(* The ledger *)

(* What the invariant of the write path leaves unsaid and the ledger       *)
(* needs: the feed names a memory's revisions in their order, and a change *)
(* is a tombstone exactly when the revision it wrote is tombstoned.        *)
FeedOrdered ==
  /\ \A x, y \in changes :
       x.memoryId = y.memoryId /\ x.newRevision < y.newRevision =>
         x.commitSeq < y.commitSeq
  /\ \A ch \in changes, v \in revisions :
       ch.memoryId = v.memoryId /\ ch.newRevision = v.revision =>
         (v.status = "tombstoned" <=> ch.operation = "tombstone")

(* A commit puts its change after all changes of the scope, and the        *)
(* revision it writes after all revisions of the memory.                   *)
LEMMA FeedOrderedStep ==
  ASSUME Inv, FeedOrdered, [Next]_vars
  PROVE  FeedOrdered'
<1> USE DEF Inv
<1>1. CASE Quiet
  BY <1>1 DEF Quiet, tables, FeedOrdered
<1>2. ASSUME NEW r \in Callers, NEW c \in CandidateIds, NEW k \in Keys,
             NEW m \in MemoryIds, Commits(r, c, k, m)
      PROVE  FeedOrdered'
  <2> DEFINE cand == candidates[c]
             seq == lastSeq[cand.scope] + 1
             rev == NewRevision(c, cand, m, seq)
             ch == NewChange(cand, m, k, seq)
  <2>1. /\ cand \in MemoryCandidates
        /\ \/ heads[m] = None
           \/ /\ heads[m] \in Heads /\ heads[m] # None
              /\ heads[m].currentRevision = cand.baseRevision
              /\ heads[m].scope = cand.scope
        /\ rev \in Revisions /\ revisions' = revisions \cup {rev}
        /\ ch \in Changes /\ changes' = changes \cup {ch}
        /\ cand.scope \in Scopes /\ seq \in Nat
    BY <1>2, CommitFacts
  <2>2. /\ rev.memoryId = m /\ rev.revision = cand.baseRevision + 1
        /\ rev.status = NewStatus(cand)
        /\ ch.memoryId = m /\ ch.newRevision = cand.baseRevision + 1
        /\ ch.operation = cand.op /\ ch.commitSeq = seq
    BY DEF NewRevision, NewChange
  <2>3. \A v \in revisions : v.memoryId = m => v.revision < cand.baseRevision + 1
    BY <2>1 DEF RevisionChain, TypeOK, Revisions, MemoryCandidates, Heads
  <2>4. \A x \in changes : x.memoryId = m =>
          x.newRevision < cand.baseRevision + 1 /\ x.commitSeq < seq
    <3> SUFFICES ASSUME NEW x \in changes, x.memoryId = m
                 PROVE  x.newRevision < cand.baseRevision + 1 /\ x.commitSeq < seq
      OBVIOUS
    <3>1. PICK v \in revisions : v.memoryId = m /\ v.revision = x.newRevision
                                 /\ v.scope = x.scope
      BY DEF CommitIsWhole, RevisionRows
    <3>2. x.scope = cand.scope
      BY <2>1, <3>1 DEF RevisionChain
    <3>3. x.commitSeq <= lastSeq[cand.scope]
      BY <3>2 DEF FeedContiguous
    <3> QED
      BY <2>1, <2>3, <3>1, <3>3 DEF TypeOK, Changes
  <2>5. rev.status = "tombstoned" <=> ch.operation = "tombstone"
    BY <2>2 DEF NewStatus
  <2> HIDE DEF ch, rev, seq, cand
  <2>6. \A x, y \in changes' :
       x.memoryId = y.memoryId /\ x.newRevision < y.newRevision =>
         x.commitSeq < y.commitSeq
    BY <2>1, <2>2, <2>4 DEF FeedOrdered, TypeOK, Changes
  <2>7. \A x \in changes', v \in revisions' :
       x.memoryId = v.memoryId /\ x.newRevision = v.revision =>
         (v.status = "tombstoned" <=> x.operation = "tombstone")
    BY <2>1, <2>2, <2>3, <2>4, <2>5 DEF FeedOrdered, TypeOK, Changes, Revisions
  <2> QED
    BY <2>6, <2>7 DEF FeedOrdered
<1> QED
  BY <1>1, <1>2, StepShape

(* The entry the feed shows at a position is the change recorded there,    *)
(* with the text of the revision it wrote.                                 *)
EntriesAreChanges ==
  \A ch \in changes : \E v \in revisions :
    /\ v.memoryId = ch.memoryId /\ v.revision = ch.newRevision
    /\ v.scope = ch.scope
    /\ EntryAt(ch.scope, ch.commitSeq) =
         [memoryId |-> ch.memoryId, operation |-> ch.operation,
          revision |-> ch.newRevision, key |-> ch.key, content |-> v.content]

(* Positions of a scope name one change each, and changes one revision.    *)
LEMMA EntryOfChange == Inv => EntriesAreChanges
<1> SUFFICES ASSUME Inv, NEW ch \in changes
             PROVE  \E v \in revisions :
           /\ v.memoryId = ch.memoryId /\ v.revision = ch.newRevision
           /\ v.scope = ch.scope
           /\ EntryAt(ch.scope, ch.commitSeq) =
                [memoryId |-> ch.memoryId, operation |-> ch.operation,
                 revision |-> ch.newRevision, key |-> ch.key, content |-> v.content]
  BY DEF EntriesAreChanges
<1>1. ChangeAt(ch.scope, ch.commitSeq) = ch
  BY DEF ChangeAt, Inv, FeedContiguous
<1>2. PICK v \in RevisionRows(ch.memoryId, ch.newRevision) : v.scope = ch.scope
  BY DEF Inv, CommitIsWhole
<1>3. v \in revisions /\ v.memoryId = ch.memoryId /\ v.revision = ch.newRevision
  BY DEF RevisionRows
<1>4. (CHOOSE w \in RevisionRows(ch.memoryId, ch.newRevision) : TRUE) = v
  BY <1>2, <1>3 DEF Inv, RevisionChain, RevisionRows
<1> QED
  BY <1>1, <1>2, <1>3, <1>4 DEF EntryAt

(* The same of the state after a step. *)
LEMMA EntryOfChangeNext == Inv' => EntriesAreChanges'
BY EntryOfChange, PTL

(* A commit appends the entry of its change to the ledger of its scope and *)
(* leaves the other entries as they are.                                   *)
LEMMA CommitAppends ==
  ASSUME Inv, Inv', NEW r \in Callers, NEW c \in CandidateIds, NEW k \in Keys,
         NEW m \in MemoryIds, Commits(r, c, k, m)
  PROVE  Ledger!LedgerAppend(candidates[c].scope,
           [memoryId |-> m, operation |-> candidates[c].op,
            revision |-> candidates[c].baseRevision + 1,
            content |-> NewContent(candidates[c], m), key |-> k])
<1> DEFINE cand == candidates[c]
<1>0. PICK s \in Scopes, seq \in Nat : s = cand.scope /\ seq = lastSeq[s] + 1
  BY CommitFacts DEF Inv
<1> DEFINE rev == NewRevision(c, cand, m, seq)
           new == NewChange(cand, m, k, seq)
           e == [memoryId |-> m, operation |-> cand.op,
                 revision |-> cand.baseRevision + 1,
                 content |-> NewContent(cand, m), key |-> k]
<1>1. /\ rev \in Revisions /\ revisions' = revisions \cup {rev}
      /\ new \in Changes /\ changes' = changes \cup {new}
      /\ lastSeq' = [lastSeq EXCEPT ![s] = seq]
      /\ lastSeq[s] \in Nat
  BY <1>0, CommitFacts DEF Inv, TypeOK
<1>2. /\ rev.memoryId = m /\ rev.revision = cand.baseRevision + 1
      /\ rev.content = NewContent(cand, m)
      /\ new.memoryId = m /\ new.newRevision = cand.baseRevision + 1
      /\ new.operation = cand.op /\ new.commitSeq = seq /\ new.scope = s
      /\ new.key = k
  BY <1>0 DEF NewRevision, NewChange
<1>3. \A t \in Scopes : lastSeq'[t] = IF t = s THEN seq ELSE lastSeq[t]
  BY <1>1 DEF Inv, TypeOK
<1>4. EntriesAreChanges /\ EntriesAreChanges'
  BY EntryOfChange, EntryOfChangeNext
<1> HIDE DEF cand, rev, new
<1>5. ASSUME NEW t \in Scopes, NEW n \in 1 .. lastSeq[t]
      PROVE  EntryAt(t, n)' = EntryAt(t, n)
  <2>1. PICK ch \in changes : ch.scope = t /\ ch.commitSeq = n
    BY DEF Inv, FeedContiguous
  <2>2. PICK v \in revisions :
          /\ v.memoryId = ch.memoryId /\ v.revision = ch.newRevision
          /\ EntryAt(t, n) =
               [memoryId |-> ch.memoryId, operation |-> ch.operation,
                revision |-> ch.newRevision, key |-> ch.key, content |-> v.content]
    BY <1>4, <2>1 DEF EntriesAreChanges
  <2>3. PICK w \in revisions' :
          /\ w.memoryId = ch.memoryId /\ w.revision = ch.newRevision
          /\ EntryAt(t, n)' =
               [memoryId |-> ch.memoryId, operation |-> ch.operation,
                revision |-> ch.newRevision, key |-> ch.key, content |-> w.content]
    BY <1>1, <1>4, <2>1 DEF EntriesAreChanges
  <2>4. v = w
    BY <1>1, <2>2, <2>3 DEF Inv, RevisionChain
  <2> QED
    BY <2>2, <2>3, <2>4
<1>6. EntryAt(s, seq)' = e
  <2>1. new \in changes' /\ rev \in revisions'
    BY <1>1
  <2>2. PICK w \in revisions' :
          /\ w.memoryId = m /\ w.revision = cand.baseRevision + 1
          /\ EntryAt(s, seq)' =
               [memoryId |-> m, operation |-> cand.op,
                revision |-> cand.baseRevision + 1, key |-> k, content |-> w.content]
    BY <1>2, <1>4, <2>1 DEF EntriesAreChanges
  <2>3. w = rev
    BY <1>2, <2>1, <2>2 DEF Inv, RevisionChain
  <2> QED
    BY <1>2, <2>2, <2>3
<1> HIDE DEF e
<1>7. ASSUME NEW t \in Scopes, t # s
      PROVE  feed'[t] = feed[t]
  BY <1>3, <1>5, <1>7 DEF feed
<1>8. feed'[s] = Append(feed[s], e)
  <2>1. feed[s] = [n \in 1 .. lastSeq[s] |-> EntryAt(s, n)]
    BY <1>1 DEF feed
  <2>2. feed'[s] = [n \in 1 .. seq |-> EntryAt(s, n)']
    BY <1>1, <1>3 DEF feed
  <2>3. Append(feed[s], e) = [n \in 1 .. lastSeq[s] + 1 |->
                                IF n = lastSeq[s] + 1 THEN e ELSE feed[s][n]]
    BY <1>1, <2>1
  <2> QED
    BY <1>1, <1>5, <1>6, <2>1, <2>2, <2>3, <1>0
<1>9. feed' = [feed EXCEPT ![s] = Append(feed[s], e)]
  <2>1. DOMAIN feed' = Scopes /\ DOMAIN feed = Scopes
    BY DEF feed
  <2>2. feed' = [t \in Scopes |-> feed'[t]] /\ feed = [t \in Scopes |-> feed[t]]
    BY DEF feed
  <2> QED
    BY <1>1, <1>7, <1>8, <2>1, <2>2
<1> QED
  BY <1>0, <1>9 DEF Ledger!LedgerAppend, e, cand

(* What stands at a position of a ledger is a change of that scope. *)
LEMMA PositionIsChange ==
  ASSUME Inv, NEW t \in Scopes, NEW n \in DOMAIN feed[t]
  PROVE  \E ch \in changes, v \in revisions :
           /\ ch.scope = t /\ ch.commitSeq = n
           /\ v.memoryId = ch.memoryId /\ v.revision = ch.newRevision
           /\ v.scope = t
           /\ feed[t][n].memoryId = ch.memoryId /\ feed[t][n].key = ch.key
<1>1. n \in 1 .. lastSeq[t] /\ feed[t][n] = EntryAt(t, n)
  BY DEF feed
<1>2. PICK ch \in changes : ch.scope = t /\ ch.commitSeq = n
  BY <1>1 DEF Inv, FeedContiguous
<1>3. PICK v \in revisions :
        /\ v.memoryId = ch.memoryId /\ v.revision = ch.newRevision /\ v.scope = t
        /\ feed[t][n] =
             [memoryId |-> ch.memoryId, operation |-> ch.operation,
              revision |-> ch.newRevision, key |-> ch.key, content |-> v.content]
  BY <1>1, <1>2, EntryOfChange DEF EntriesAreChanges
<1> QED
  BY <1>2, <1>3

(* A commit takes a key that its scope's ledger has not seen. *)
LEMMA KeyIsUnused ==
  ASSUME Inv, NEW s \in Scopes, NEW k \in Keys, PriorChanges(s, k) = {}
  PROVE  k \in Ledger!UnusedKeys(feed[s])
<1> SUFFICES ASSUME NEW n \in DOMAIN feed[s], feed[s][n].key = k
             PROVE  FALSE
  BY DEF Ledger!UnusedKeys
<1>1. PICK ch \in changes : ch.scope = s /\ feed[s][n].key = ch.key
  BY PositionIsChange
<1> QED
  BY <1>1 DEF PriorChanges

(* A commit that creates a memory is the ledger's create. *)
LEMMA CreateIsLedgerCreate ==
  ASSUME Inv, Inv', NEW r \in Callers, NEW c \in CandidateIds, NEW k \in Keys,
         NEW m \in MemoryIds, Commits(r, c, k, m), candidates[c].op = "create"
  PROVE  Ledger!LedgerCreate(candidates[c].scope, m)
<1> DEFINE cand == candidates[c]
           s == cand.scope
<1>1. /\ cand \in MemoryCandidates /\ s \in Scopes
      /\ heads[m] = None /\ cand.baseRevision = 0
  BY CommitFacts DEF Inv
<1>2. NewContent(cand, m) = cand.content /\ cand.content \in Contents
  BY <1>1 DEF NewContent, Rewrites, MemoryCandidates
<1>3. ASSUME NEW t \in Scopes, NEW n \in DOMAIN feed[t], feed[t][n].memoryId = m
      PROVE  FALSE
  <2>1. PICK v \in revisions : v.memoryId = feed[t][n].memoryId
    BY PositionIsChange
  <2> QED
    BY <1>1, <1>3, <2>1 DEF Inv, RevisionChain
<1>4. k \in Ledger!UnusedKeys(feed[s])
  BY <1>1, KeyIsUnused DEF Commits
<1>5. Ledger!LedgerAppend(s, [memoryId |-> m, operation |-> "create", revision |-> 1,
                              content |-> cand.content, key |-> k])
  BY <1>1, <1>2, CommitAppends
<1> QED
  BY <1>1, <1>2, <1>3, <1>4, <1>5 DEF Ledger!LedgerCreate, Ledger!Positions

(* Any other commit is the successor of the memory's last entry. *)
LEMMA MutateIsLedgerRevise ==
  ASSUME Inv, Inv', FeedOrdered, NEW r \in Callers, NEW c \in CandidateIds,
         NEW k \in Keys, NEW m \in MemoryIds, Commits(r, c, k, m),
         candidates[c].op # "create"
  PROVE  Ledger!LedgerRevise(candidates[c].scope, m)
<1> DEFINE cand == candidates[c]
           s == cand.scope
           entry(ch, v) == [memoryId |-> ch.memoryId, operation |-> ch.operation,
                            revision |-> ch.newRevision, key |-> ch.key,
                            content |-> v.content]
<1>1. /\ cand \in MemoryCandidates /\ s \in Scopes
      /\ heads[m] \in Heads /\ heads[m] # None
      /\ heads[m].currentRevision = cand.baseRevision
      /\ heads[m].scope = s
      /\ RevisionRows(m, cand.baseRevision) # {}
      /\ StatusAllows(cand.op, heads[m].status)
  BY CommitFacts DEF Inv
<1>2. PICK v \in revisions : v.memoryId = m /\ v.revision = cand.baseRevision
  BY <1>1 DEF RevisionRows
<1>3. v.scope = s /\ v.status = heads[m].status
  BY <1>1, <1>2 DEF Inv, RevisionChain
<1>4. PICK ch \in changes : /\ ch.memoryId = m /\ ch.newRevision = cand.baseRevision
                            /\ ch.scope = s /\ ch.commitSeq = v.commitSeq
  BY <1>2, <1>3 DEF Inv, CommitIsWhole
<1> DEFINE i == ch.commitSeq
<1>5. i \in DOMAIN feed[s] /\ feed[s][i] = entry(ch, v)
  <2>1. i \in 1 .. lastSeq[s] /\ i \in DOMAIN feed[s] /\ feed[s][i] = EntryAt(s, i)
    BY <1>1, <1>4 DEF Inv, FeedContiguous, TypeOK, Changes, feed
  <2>2. PICK w \in revisions : /\ w.memoryId = m /\ w.revision = cand.baseRevision
                               /\ EntryAt(s, i) = entry(ch, w)
    BY <1>4, EntryOfChange DEF EntriesAreChanges
  <2>3. w = v
    BY <1>2, <2>2 DEF Inv, RevisionChain
  <2> QED
    BY <2>1, <2>2, <2>3
<1>6. ASSUME NEW j \in DOMAIN feed[s], feed[s][j].memoryId = m
      PROVE  j <= i
  <2>1. PICK x \in changes, w \in revisions :
           /\ x.commitSeq = j /\ x.memoryId = m /\ x.scope = s
           /\ w.memoryId = m /\ w.revision = x.newRevision
    BY <1>1, <1>6, PositionIsChange
  <2>2. x.newRevision < cand.baseRevision \/ x.newRevision = cand.baseRevision
    <3>1. x.newRevision <= cand.baseRevision
      BY <1>1, <2>1 DEF Inv, RevisionChain
    <3>2. x.newRevision \in Nat /\ cand.baseRevision \in Nat
      BY <1>1 DEF Inv, TypeOK, Changes, MemoryCandidates
    <3> HIDE DEF cand
    <3> QED
      BY <3>1, <3>2
  <2>3. CASE x.newRevision < cand.baseRevision
    BY <1>4, <2>1, <2>3 DEF FeedOrdered, Inv, TypeOK, Changes
  <2>4. CASE x.newRevision = cand.baseRevision
    <3>1. PICK u \in revisions : /\ u.memoryId = m /\ u.revision = x.newRevision
                                 /\ u.commitSeq = x.commitSeq
      BY <2>1 DEF Inv, CommitIsWhole, RevisionRows
    <3>2. u = v
      BY <1>2, <2>4, <3>1 DEF Inv, RevisionChain
    <3> QED
      BY <1>4, <2>1, <3>1, <3>2 DEF Inv, TypeOK, Changes
  <2> QED
    BY <2>2, <2>3, <2>4
<1>7. cand.op \in Ledger!Followers(entry(ch, v))
  <2>1. v.status = "tombstoned" <=> ch.operation = "tombstone"
    BY <1>2, <1>4 DEF FeedOrdered
  <2>2. heads[m].status \in {"active", "tombstoned"}
    BY <1>1 DEF Heads, MemoryStatuses
  <2> QED
    BY <1>1, <1>3, <2>1, <2>2 DEF StatusAllows, Ledger!Followers
<1>8. NewContent(cand, m) \in IF cand.op = "update" THEN Contents ELSE {v.content}
  <2>1. Prior(cand, m) = v
    BY <1>2 DEF Prior, RevisionRows, Inv, RevisionChain
  <2> QED
    BY <1>1, <2>1 DEF NewContent, Rewrites, MemoryCandidates
<1>9. k \in Ledger!UnusedKeys(feed[s])
  BY <1>1, KeyIsUnused DEF Commits
<1>10. Ledger!LedgerAppend(s, [memoryId |-> m, operation |-> cand.op,
                               revision |-> cand.baseRevision + 1,
                               content |-> NewContent(cand, m), key |-> k])
  BY CommitAppends
<1> DEFINE prev == feed[s][i]
<1>11. /\ prev.revision = cand.baseRevision /\ prev.content = v.content
       /\ prev.memoryId = m
       /\ cand.op \in Ledger!Followers(prev)
  BY <1>4, <1>5, <1>7
<1>12. i \in Ledger!Positions(feed[s], m)
       /\ \A j \in Ledger!Positions(feed[s], m) : j <= i
  BY <1>5, <1>6, <1>11 DEF Ledger!Positions
<1>13. /\ NewContent(cand, m) \in IF cand.op = "update" THEN Contents ELSE {prev.content}
       /\ Ledger!LedgerAppend(s, [memoryId |-> m, operation |-> cand.op,
                               revision |-> prev.revision + 1,
                               content |-> NewContent(cand, m), key |-> k])
  BY <1>8, <1>10, <1>11
<1> HIDE DEF i, s, cand
<1> SUFFICES Ledger!LedgerRevise(s, m)
  BY DEF s, cand
<1> QED
  BY <1>9, <1>11, <1>12, <1>13 DEF Ledger!LedgerRevise

(* Every step of the write path is a step of the ledger or leaves it. *)
LEMMA LedgerStep ==
  ASSUME Inv, Inv', FeedOrdered, [Next]_vars
  PROVE  UNCHANGED tables \/ Ledger!LedgerNext
<1>1. ASSUME NEW r \in Callers, NEW c \in CandidateIds, NEW k \in Keys,
             NEW m \in MemoryIds, Commits(r, c, k, m)
      PROVE  Ledger!LedgerNext
  <2>1. candidates[c].scope \in Scopes
    BY <1>1, CommitFacts DEF Inv
  <2>2. Ledger!LedgerCreate(candidates[c].scope, m) \/ Ledger!LedgerRevise(candidates[c].scope, m)
    BY <1>1, CreateIsLedgerCreate, MutateIsLedgerRevise
  <2> QED
    BY <2>1, <2>2 DEF Ledger!LedgerNext
<1> QED
  BY <1>1, StepShape DEF Inv, Quiet

(* The feed that the tables show is a MemoryLedger: it starts empty, and   *)
(* whatever callers race, retry or crash, each step appends one legal      *)
(* entry, under a fresh key, to one scope's ledger or leaves all of them   *)
(* alone.                                                                  *)
THEOREM LedgerIsImplemented == Spec => ImplementsLedger
<1>1. Init => Ledger!LedgerInit /\ FeedOrdered
  BY DEF Init, Ledger!LedgerInit, FeedOrdered, feed
<1>2. Inv /\ FeedOrdered /\ [Next]_vars => FeedOrdered'
  BY FeedOrderedStep
<1>3. Inv /\ Inv' /\ FeedOrdered /\ [Next]_vars =>
        [UNCHANGED tables \/ Ledger!LedgerNext]_feed
  BY LedgerStep
<1> QED
  BY <1>1, <1>2, <1>3, Invariance, PTL DEF Spec, ImplementsLedger

(* The feed is read from the tables alone, so a step that leaves them      *)
(* stutters, and the write path implements the ledger's specification.     *)
THEOREM LedgerSpecIsImplemented == Spec => Ledger!LedgerSpec
<1>1. [UNCHANGED tables \/ Ledger!LedgerNext]_feed => [Ledger!LedgerNext]_feed
  <2> SUFFICES ASSUME UNCHANGED tables PROVE feed' = feed
    OBVIOUS
  <2>1. ASSUME NEW s, NEW n PROVE ChangeAt(s, n)' = ChangeAt(s, n)
    BY DEF tables, ChangeAt
  <2>2. ASSUME NEW a, NEW n PROVE RevisionRows(a, n)' = RevisionRows(a, n)
    BY DEF tables, RevisionRows
  <2>3. ASSUME NEW s, NEW n PROVE EntryAt(s, n)' = EntryAt(s, n)
    BY <2>1, <2>2 DEF EntryAt
  <2> QED
    BY <2>3 DEF tables, feed
<1> QED
  BY <1>1, LedgerIsImplemented, PTL DEF ImplementsLedger, Ledger!LedgerSpec

-----------------------------------------------------------------------------
(* The statements of the PostgreSQL store *)

(* The names of the locks. *)
Locks ==
  {CandidateLock(c) : c \in CandidateIds} \cup
  {KeyLock(s, k) : s \in Scopes, k \in Keys} \cup
  {HeadLock(m) : m \in MemoryIds} \cup
  {SequenceLock(s) : s \in Scopes} \cup
  {IdentityLock(s, sk) : s \in Scopes, sk \in SemanticKeys}

Steps == {"none", "key", "lookup", "replay", "head", "sequence", "putHead", "rows"}

Transactions ==
  [step : Steps, held : SUBSET Locks, cand : MemoryCandidates \cup {None},
   prior : Changes \cup {None}, memoryId : MemoryIds \cup {None}, seq : Nat]

TxTypeOK == tx \in [Callers -> Transactions]

(* No name is held twice. *)
LocksExclusive ==
  \A r, q \in Callers : r # q => tx[r].held \cap tx[q].held = {}

(* Who holds a lock stands behind the statement that takes it.  A head     *)
(* that does not exist yet is locked by its INSERT only, the last          *)
(* statement that waits.                                                   *)
Ordered(t) ==
  /\ t.step = "none" => t = NoTx
  /\ \A s \in Scopes, k \in Keys : KeyLock(s, k) \in t.held =>
       t.step \notin {"none", "key"}
  /\ \A m \in MemoryIds : HeadLock(m) \in t.held =>
       /\ t.step \in {"sequence", "putHead", "rows"}
       /\ t.step = "rows" \/ heads[m] # None
  /\ \A s \in Scopes : SequenceLock(s) \in t.held => t.step \in {"putHead", "rows"}
  /\ \A s \in Scopes, sk \in SemanticKeys : IdentityLock(s, sk) \in t.held =>
       t.step = "rows"

LocksOrdered == \A r \in Callers : Ordered(tx[r])

(* What a transaction has read is still so, and it holds the locks that    *)
(* keep every other transaction from changing it: the candidate's row, ... *)
ReadsCandidate(t, call) ==
  t.step # "none" =>
    /\ call.phase = "verified"
    /\ t.cand = candidates[call.candidateId]
    /\ CandidateLock(call.candidateId) \in t.held

(* ... the advisory lock of the key, ... *)
ReadsKey(t, call) ==
  /\ t.step \notin {"none", "key"} => KeyLock(t.cand.scope, call.key) \in t.held
  /\ t.step = "replay" => t.prior \in PriorChanges(t.cand.scope, call.key)

(* ... under which a key that was free stays free, ... *)
ReadsNew(t, call) ==
  t.step \in {"head", "sequence", "putHead", "rows"} =>
    /\ PriorChanges(t.cand.scope, call.key) = {}
    /\ t.cand.status = "PENDING"
    /\ t.cand.op # "supersede"
    /\ t.memoryId \in MemoryIds
    /\ t.cand.op # "create" => t.memoryId = t.cand.base
    /\ t.step = "head" => t.cand.op # "create"

(* ... the head's row, ... *)
ReadsHead(t) ==
  t.step \in {"sequence", "putHead", "rows"} /\ t.cand.op # "create" =>
    /\ HeadLock(t.memoryId) \in t.held
    /\ MutateAllowed(t.cand, t.memoryId)

(* ... the scope's sequence row, ... *)
ReadsSequence(t) ==
  t.step \in {"putHead", "rows"} =>
    /\ SequenceLock(t.cand.scope) \in t.held
    /\ t.seq = lastSeq[t.cand.scope] + 1

(* ... and the pending index entries of an inserted head. *)
ReadsInsert(t) ==
  t.step = "rows" /\ t.cand.op = "create" =>
    /\ HeadLock(t.memoryId) \in t.held
    /\ IdentityLock(t.cand.scope, t.cand.semanticKey) \in t.held
    /\ CreateAllowed(t.cand, t.memoryId)

Reads(t, call) ==
  /\ ReadsCandidate(t, call) /\ ReadsKey(t, call) /\ ReadsNew(t, call)
  /\ ReadsHead(t) /\ ReadsSequence(t) /\ ReadsInsert(t)

ReadsHold == \A r \in Callers : Reads(tx[r], calls[r])

(* A candidate that is not for a new memory names its base, and none is    *)
(* decided before there is a memory id.                                    *)
CandidatesSound ==
  \A c \in CandidateIds : candidates[c] # None =>
    /\ candidates[c].op # "create" => candidates[c].base # None
    /\ candidates[c].status # "PENDING" => MemoryIds # {}

PgInv == TxTypeOK /\ LocksExclusive /\ LocksOrdered /\ ReadsHold /\ CandidatesSound

-----------------------------------------------------------------------------
(* Locks of different kinds have different names, and within a kind the    *)
(* name tells what is locked.                                              *)
LEMMA LockNames ==
  /\ \A c, d : CandidateLock(c) = CandidateLock(d) => c = d
  /\ \A s, k, z, j : KeyLock(s, k) = KeyLock(z, j) => s = z /\ k = j
  /\ \A m, x : HeadLock(m) = HeadLock(x) => m = x
  /\ \A s, z : SequenceLock(s) = SequenceLock(z) => s = z
  /\ \A s, k, z, j : IdentityLock(s, k) = IdentityLock(z, j) => s = z /\ k = j
  /\ \A c, s, k : CandidateLock(c) # KeyLock(s, k)
  /\ \A c, m : CandidateLock(c) # HeadLock(m)
  /\ \A c, s : CandidateLock(c) # SequenceLock(s)
  /\ \A c, s, k : CandidateLock(c) # IdentityLock(s, k)
  /\ \A s, k, m : KeyLock(s, k) # HeadLock(m)
  /\ \A s, k, z : KeyLock(s, k) # SequenceLock(z)
  /\ \A s, k, z, j : KeyLock(s, k) # IdentityLock(z, j)
  /\ \A m, s : HeadLock(m) # SequenceLock(s)
  /\ \A m, s, k : HeadLock(m) # IdentityLock(s, k)
  /\ \A z, s, k : SequenceLock(z) # IdentityLock(s, k)
BY DEF CandidateLock, KeyLock, HeadLock, SequenceLock, IdentityLock

(* The names a statement needs, by the statement. *)
LEMMA WantedByStep ==
  ASSUME NEW r \in Callers
  PROVE  /\ tx[r].step = "none" /\ calls[r].phase = "verified" =>
              Wanted(r) = {CandidateLock(calls[r].candidateId)}
         /\ tx[r].step = "none" /\ calls[r].phase # "verified" => Wanted(r) = {}
         /\ tx[r].step = "key" => Wanted(r) = {KeyLock(tx[r].cand.scope, calls[r].key)}
         /\ tx[r].step = "lookup" => Wanted(r) = {}
         /\ tx[r].step = "replay" => Wanted(r) = {HeadLock(tx[r].prior.memoryId)}
         /\ tx[r].step = "head" =>
              Wanted(r) = IF heads[tx[r].memoryId] # None THEN {HeadLock(tx[r].memoryId)} ELSE {}
         /\ tx[r].step = "sequence" => Wanted(r) = {SequenceLock(tx[r].cand.scope)}
         /\ tx[r].step = "putHead" =>
              Wanted(r) = IF tx[r].cand.op = "create" /\ ~IdentityTaken(tx[r].cand, tx[r].memoryId)
                            THEN {HeadLock(tx[r].memoryId),
                                  IdentityLock(tx[r].cand.scope, tx[r].cand.semanticKey)}
                            ELSE {}
         /\ tx[r].step = "rows" => Wanted(r) = {}
BY DEF Wanted


(* An open transaction works on a known candidate for a verified call. *)
LEMMA TxTypes ==
  ASSUME Inv, PgInv, NEW r \in Callers, tx[r].step # "none"
  PROVE  /\ calls[r] \in VerifiedCalls
         /\ calls[r].candidateId \in CandidateIds /\ calls[r].key \in Keys
         /\ calls[r].phase = "verified"
         /\ tx[r] \in Transactions
         /\ tx[r].cand = candidates[calls[r].candidateId]
         /\ tx[r].cand # None
         /\ tx[r].cand \in MemoryCandidates
         /\ tx[r].cand.scope \in Scopes /\ tx[r].cand.semanticKey \in SemanticKeys
         /\ tx[r].step = "replay" =>
              tx[r].prior \in Changes /\ tx[r].prior.memoryId \in MemoryIds
<1>1. ReadsCandidate(tx[r], calls[r]) /\ ReadsKey(tx[r], calls[r]) /\ tx[r] \in Transactions
  BY DEF PgInv, ReadsHold, Reads, TxTypeOK
<1>2. calls[r].phase = "verified" /\ tx[r].cand = candidates[calls[r].candidateId]
  BY <1>1 DEF ReadsCandidate
<1>3. calls[r] \in VerifiedCalls
  BY <1>2 DEF Inv, TypeOK, Calls, Idle, CommittedCalls, FailedCalls
<1>4. calls[r].candidateId \in CandidateIds /\ calls[r].key \in Keys /\ calls[r] # Idle
  BY <1>3 DEF VerifiedCalls, Idle
<1>5. tx[r].cand # None /\ tx[r].cand \in MemoryCandidates
  BY <1>2, <1>4 DEF Inv, TypeOK, CallsKnown
<1>6. tx[r].cand.scope \in Scopes /\ tx[r].cand.semanticKey \in SemanticKeys
  BY <1>5 DEF MemoryCandidates
<1>7. tx[r].step = "replay" => tx[r].prior \in Changes /\ tx[r].prior.memoryId \in MemoryIds
  BY <1>1 DEF ReadsKey, PriorChanges, Inv, TypeOK, Changes
<1> QED
  BY <1>1, <1>2, <1>3, <1>4, <1>5, <1>6, <1>7

(* How far a transaction has come in the lock order. *)
Rank(t) ==
  CASE t.step = "none" -> 0
    [] t.step = "key" -> 1
    [] t.step = "lookup" -> 2
    [] t.step \in {"replay", "head"} -> 3
    [] t.step = "sequence" -> 4
    [] t.step = "putHead" -> 5
    [] t.step = "rows" -> 6

(* Who waits, waits for a transaction that has come further. *)
LEMMA WaitsForLater ==
  ASSUME Inv, PgInv, NEW r \in Callers, NEW q \in Callers, Waits(r, q)
  PROVE  Rank(tx[r]) < Rank(tx[q])
<1>1. tx[r].step \in Steps /\ tx[q].step \in Steps
  BY DEF PgInv, TxTypeOK, Transactions
<1>2. Ordered(tx[q])
  BY DEF PgInv, LocksOrdered
<1>3. PICK x : x \in Wanted(r) /\ x \in tx[q].held
  BY DEF Waits
<1>4. tx[q].step # "none"
  BY <1>2, <1>3 DEF Ordered, NoTx
<1>5. CASE tx[r].step = "none"
  BY <1>1, <1>4, <1>5 DEF Rank, Steps
<1>6. CASE tx[r].step = "key"
  <2>1. tx[q].step \notin {"none", "key"}
    BY <1>2, <1>3, <1>6, TxTypes, WantedByStep DEF Ordered
  <2> QED
    BY <2>1, <1>1, <1>6 DEF Rank, Steps
<1>7. CASE tx[r].step = "replay"
  <2>1. tx[q].step \in {"sequence", "putHead", "rows"}
    BY <1>2, <1>3, <1>7, TxTypes, WantedByStep DEF Ordered
  <2> QED
    BY <2>1, <1>1, <1>7 DEF Rank, Steps
<1>8. CASE tx[r].step = "head"
  <2>1. tx[r].memoryId \in MemoryIds
    BY <1>8 DEF PgInv, ReadsHold, Reads, ReadsNew
  <2>2. tx[q].step \in {"sequence", "putHead", "rows"}
    BY <1>2, <1>3, <1>8, <2>1, WantedByStep DEF Ordered
  <2> QED
    BY <2>2, <1>1, <1>8 DEF Rank, Steps
<1>9. CASE tx[r].step = "sequence"
  <2>1. tx[q].step \in {"putHead", "rows"}
    BY <1>2, <1>3, <1>9, TxTypes, WantedByStep DEF Ordered
  <2> QED
    BY <2>1, <1>1, <1>9 DEF Rank, Steps
<1>10. CASE tx[r].step = "putHead"
  <2>1. tx[r].memoryId \in MemoryIds
    BY <1>10 DEF PgInv, ReadsHold, Reads, ReadsNew
  <2>2. /\ heads[tx[r].memoryId] = None
        /\ x \in {HeadLock(tx[r].memoryId), IdentityLock(tx[r].cand.scope, tx[r].cand.semanticKey)}
    BY <1>3, <1>10, WantedByStep DEF IdentityTaken, CreateAllowed
  <2>3. tx[q].step = "rows"
    BY <1>2, <1>3, <1>10, <2>1, <2>2, TxTypes DEF Ordered
  <2> QED
    BY <2>3, <1>1, <1>10 DEF Rank, Steps
<1>11. CASE tx[r].step \in {"lookup", "rows"}
  BY <1>3, <1>11, WantedByStep
<1> QED
  BY <1>1, <1>5, <1>6, <1>7, <1>8, <1>9, <1>10, <1>11 DEF Steps

(* So nobody waits in a circle: from any member of a set of transactions   *)
(* that wait within the set one would come, rank by rank, to a seventh.    *)
LEMMA OrderExcludesCycles == Inv /\ PgInv => NoWaitCycle
<1> SUFFICES ASSUME Inv, PgInv, NEW stuck \in SUBSET Callers, stuck # {},
                    \A r \in stuck : \E q \in stuck : Waits(r, q)
             PROVE  FALSE
  BY DEF NoWaitCycle
<1>1. \A r \in stuck : Rank(tx[r]) \in 0 .. 6
  <2> SUFFICES ASSUME NEW r \in stuck PROVE Rank(tx[r]) \in 0 .. 6
    OBVIOUS
  <2>1. tx[r].step \in Steps
    BY DEF PgInv, TxTypeOK, Transactions
  <2> QED
    BY <2>1 DEF Rank, Steps
<1>2. \A r \in stuck : \E q \in stuck : Rank(tx[r]) < Rank(tx[q])
  BY WaitsForLater
<1>3. PICK r0 \in stuck : TRUE
  OBVIOUS
<1>4. PICK r1 \in stuck : Rank(tx[r0]) < Rank(tx[r1])
  BY <1>2
<1>5. PICK r2 \in stuck : Rank(tx[r1]) < Rank(tx[r2])
  BY <1>2
<1>6. PICK r3 \in stuck : Rank(tx[r2]) < Rank(tx[r3])
  BY <1>2
<1>7. PICK r4 \in stuck : Rank(tx[r3]) < Rank(tx[r4])
  BY <1>2
<1>8. PICK r5 \in stuck : Rank(tx[r4]) < Rank(tx[r5])
  BY <1>2
<1>9. PICK r6 \in stuck : Rank(tx[r5]) < Rank(tx[r6])
  BY <1>2
<1>10. PICK r7 \in stuck : Rank(tx[r6]) < Rank(tx[r7])
  BY <1>2
<1> QED
  BY <1>1, <1>4, <1>5, <1>6, <1>7, <1>8, <1>9, <1>10


-----------------------------------------------------------------------------
(* A step of another transaction leaves alone what caller q's locks cover. *)
Undisturbed(q) ==
  /\ tx'[q] = tx[q] /\ calls'[q] = calls[q]
  /\ tx[q].step # "none" =>
       candidates'[calls[q].candidateId] = candidates[calls[q].candidateId]
  /\ \A s \in Scopes, k \in Keys : KeyLock(s, k) \in tx[q].held =>
       PriorChanges(s, k)' = PriorChanges(s, k)
  /\ \A m \in MemoryIds : HeadLock(m) \in tx[q].held => heads'[m] = heads[m]
  /\ \A s \in Scopes : SequenceLock(s) \in tx[q].held => lastSeq'[s] = lastSeq[s]
  /\ \A s \in Scopes, sk \in SemanticKeys, x \in MemoryIds :
       IdentityLock(s, sk) \in tx[q].held /\ heads'[x] # None
         /\ heads'[x].scope = s /\ heads'[x].semanticKey = sk =>
       heads[x] # None /\ heads[x].scope = s /\ heads[x].semanticKey = sk
  /\ \A m \in MemoryIds : heads[m] # None => heads'[m] # None
  /\ revisions \subseteq revisions'

(* So what q knows is still so. *)
LEMMA UndisturbedReads ==
  ASSUME Inv, PgInv, NEW q \in Callers, Undisturbed(q)
  PROVE  Ordered(tx[q])' /\ Reads(tx[q], calls[q])'
<1>1. Ordered(tx[q]) /\ Reads(tx[q], calls[q])
  BY DEF PgInv, LocksOrdered, ReadsHold
<1>2. Ordered(tx[q])'
  BY <1>1 DEF Undisturbed, Ordered, NoTx
<1>3. ReadsCandidate(tx[q], calls[q])'
  BY <1>1 DEF Undisturbed, Reads, ReadsCandidate
<1>4. tx[q].step \notin {"none", "key"} =>
        PriorChanges(tx[q].cand.scope, calls[q].key)' = PriorChanges(tx[q].cand.scope, calls[q].key)
  BY <1>1, TxTypes DEF Undisturbed, Reads, ReadsKey
<1>5. ReadsKey(tx[q], calls[q])' /\ ReadsNew(tx[q], calls[q])'
  <2>1. tx'[q] = tx[q] /\ calls'[q] = calls[q]
    BY DEF Undisturbed
  <2> QED
    BY <1>1, <1>4, <2>1 DEF Reads, ReadsKey, ReadsNew
<1>6. ReadsHead(tx[q])'
  <2> SUFFICES ASSUME tx[q].step \in {"sequence", "putHead", "rows"}, tx[q].cand.op # "create"
               PROVE  HeadLock(tx[q].memoryId) \in tx[q].held /\ MutateAllowed(tx[q].cand, tx[q].memoryId)'
    BY DEF Undisturbed, ReadsHead
  <2>1. /\ HeadLock(tx[q].memoryId) \in tx[q].held
        /\ MutateAllowed(tx[q].cand, tx[q].memoryId)
        /\ tx[q].memoryId \in MemoryIds
    BY <1>1 DEF Reads, ReadsHead, ReadsNew
  <2>2. heads'[tx[q].memoryId] = heads[tx[q].memoryId] /\ tx[q].memoryId = tx[q].cand.base
    BY <2>1 DEF Undisturbed, MutateAllowed
  <2>3. tx'[q] = tx[q] /\ revisions \subseteq revisions'
    BY DEF Undisturbed
  <2> QED
    BY <2>1, <2>2, <2>3 DEF MutateAllowed, HeadInScope, RevisionRows
<1>7. ReadsSequence(tx[q])'
  <2>1. tx[q].step \in {"putHead", "rows"} => tx[q].cand.scope \in Scopes
    BY TxTypes
  <2> QED
    BY <1>1, <2>1 DEF Undisturbed, Reads, ReadsSequence
<1>8. ReadsInsert(tx[q])'
  <2> SUFFICES ASSUME tx[q].step = "rows", tx[q].cand.op = "create"
               PROVE  /\ HeadLock(tx[q].memoryId) \in tx[q].held
                      /\ IdentityLock(tx[q].cand.scope, tx[q].cand.semanticKey) \in tx[q].held
                      /\ CreateAllowed(tx[q].cand, tx[q].memoryId)'
    BY DEF Undisturbed, ReadsInsert
  <2>1. /\ HeadLock(tx[q].memoryId) \in tx[q].held
        /\ IdentityLock(tx[q].cand.scope, tx[q].cand.semanticKey) \in tx[q].held
        /\ CreateAllowed(tx[q].cand, tx[q].memoryId)
        /\ tx[q].memoryId \in MemoryIds
    BY <1>1 DEF Reads, ReadsInsert, ReadsNew
  <2>2. tx[q].cand.scope \in Scopes /\ tx[q].cand.semanticKey \in SemanticKeys
    BY TxTypes
  <2>3. tx'[q] = tx[q]
    BY DEF Undisturbed
  <2> QED
    BY <2>1, <2>2, <2>3 DEF CreateAllowed, Undisturbed
<1> QED
  BY <1>2, <1>3, <1>5, <1>6, <1>7, <1>8 DEF Reads

(* A step that changes one transaction to t and disturbs no other keeps    *)
(* the invariant, if t is sound.                                           *)
LEMMA OneTransactionStep ==
  ASSUME Inv, PgInv, NEW r \in Callers, NEW t \in Transactions,
         tx' = [tx EXCEPT ![r] = t],
         \A q \in Callers \ {r} : Undisturbed(q) /\ t.held \cap tx[q].held = {},
         Ordered(tx[r])', Reads(tx[r], calls[r])', CandidatesSound'
  PROVE  PgInv'
<1>1. tx \in [Callers -> Transactions]
  BY DEF PgInv, TxTypeOK
<1>2. TxTypeOK'
  BY <1>1 DEF TxTypeOK
<1>3. LocksExclusive'
  BY <1>1 DEF PgInv, LocksExclusive
<1>4. LocksOrdered' /\ ReadsHold'
  BY UndisturbedReads DEF LocksOrdered, ReadsHold
<1> QED
  BY <1>2, <1>3, <1>4 DEF PgInv

(* A statement that runs and goes on, writing nothing that others see. *)
LEMMA ProceedStep ==
  ASSUME Inv, PgInv, NEW r \in Callers, \A q \in Callers : ~Waits(r, q),
         NEW t \in Transactions, t.held = tx[r].held \cup Wanted(r),
         tx' = [tx EXCEPT ![r] = t], UNCHANGED vars,
         Ordered(t), Reads(t, calls[r])
  PROVE  PgInv'
<1>1. tx'[r] = t
  BY DEF PgInv, TxTypeOK
<1>2. Ordered(tx[r])' /\ Reads(tx[r], calls[r])'
  BY <1>1 DEF Ordered, Reads, ReadsCandidate, ReadsKey, ReadsNew, ReadsHead, ReadsSequence,
     ReadsInsert, PriorChanges, MutateAllowed, HeadInScope, RevisionRows, CreateAllowed, vars
<1>3. CandidatesSound'
  BY DEF PgInv, CandidatesSound, vars
<1>4. ASSUME NEW q \in Callers \ {r} PROVE Undisturbed(q) /\ t.held \cap tx[q].held = {}
  <2>1. Undisturbed(q)
    BY DEF Undisturbed, PriorChanges, vars
  <2>2. Wanted(r) \cap tx[q].held = {}
    BY DEF Waits
  <2>3. tx[r].held \cap tx[q].held = {}
    BY DEF PgInv, LocksExclusive
  <2> QED
    BY <2>1, <2>2, <2>3
<1> QED
  BY <1>2, <1>3, <1>4, OneTransactionStep

(* A transaction that is over holds nothing and has read nothing. *)
LEMMA EndStep ==
  ASSUME Inv, PgInv, NEW r \in Callers, End(r),
         \A q \in Callers \ {r} : Undisturbed(q), CandidatesSound'
  PROVE  PgInv'
<1>1. NoTx \in Transactions
  BY DEF NoTx, Transactions, Steps
<1>2. tx' = [tx EXCEPT ![r] = NoTx] /\ tx'[r] = NoTx
  BY DEF End, PgInv, TxTypeOK
<1>3. Ordered(tx[r])' /\ Reads(tx[r], calls[r])'
  BY <1>2 DEF NoTx, Ordered, Reads, ReadsCandidate, ReadsKey, ReadsNew, ReadsHead, ReadsSequence,
     ReadsInsert
<1>4. NoTx.held = {}
  BY DEF NoTx
<1> QED
  BY <1>1, <1>2, <1>3, <1>4, OneTransactionStep


-----------------------------------------------------------------------------
(* A statement only ever needs names of locks. *)
LEMMA WantedType ==
  ASSUME Inv, PgInv, NEW r \in Callers
  PROVE  Wanted(r) \in SUBSET Locks
<1>1. tx[r].step \in Steps
  BY DEF PgInv, TxTypeOK, Transactions
<1>2. CASE tx[r].step = "none"
  <2>1. calls[r].phase = "verified" => calls[r].candidateId \in CandidateIds
    BY DEF Inv, TypeOK, Calls, Idle, VerifiedCalls, CommittedCalls, FailedCalls
  <2> QED
    BY <1>2, <2>1, WantedByStep DEF Locks
<1>3. CASE tx[r].step # "none"
  <2>1. tx[r].step \in {"head", "putHead"} => tx[r].memoryId \in MemoryIds
    BY DEF PgInv, ReadsHold, Reads, ReadsNew
  <2> QED
    BY <1>1, <1>3, <2>1, TxTypes, WantedByStep DEF Locks, Steps
<1> QED
  BY <1>2, <1>3

(* BEGIN and the candidate's row. *)
LEMMA ReadCandidateStep ==
  ASSUME Inv, PgInv, NEW r \in Callers, ReadCandidate(r)
  PROVE  PgInv'
<1>1. /\ tx[r] = NoTx /\ calls[r].phase = "verified" /\ tx[r].step = "none"
      /\ \A q \in Callers : ~Waits(r, q)
  BY DEF ReadCandidate, Statement, PgInv, LocksOrdered, Ordered
<1>2. /\ calls[r].candidateId \in CandidateIds
      /\ candidates[calls[r].candidateId] \in MemoryCandidates
  BY <1>1 DEF Inv, TypeOK, Calls, CallsKnown, Idle, VerifiedCalls, CommittedCalls, FailedCalls
<1>3. Wanted(r) = {CandidateLock(calls[r].candidateId)} /\ Wanted(r) \in SUBSET Locks
  BY <1>1, WantedByStep, WantedType
<1>4. PICK t : t = [NoTx EXCEPT !.step = "key", !.cand = candidates[calls[r].candidateId],
                                !.held = Wanted(r)]
  OBVIOUS
<1>5. /\ t.step = "key" /\ t.cand = candidates[calls[r].candidateId] /\ t.held = Wanted(r)
      /\ t \in Transactions
  BY <1>2, <1>3, <1>4 DEF NoTx, Transactions, Steps
<1>6. tx' = [tx EXCEPT ![r] = t] /\ t.held = tx[r].held \cup Wanted(r)
  BY <1>1, <1>4, <1>5 DEF ReadCandidate, Proceed, NoTx
<1>7. Ordered(t)
  BY <1>3, <1>5, LockNames DEF Ordered
<1>8. Reads(t, calls[r])
  BY <1>1, <1>3, <1>5 DEF Reads, ReadsCandidate, ReadsKey, ReadsNew, ReadsHead, ReadsSequence,
     ReadsInsert
<1> QED
  BY <1>1, <1>5, <1>6, <1>7, <1>8, ProceedStep DEF ReadCandidate

(* The advisory lock. *)
LEMMA LockKeyStep ==
  ASSUME Inv, PgInv, NEW r \in Callers, LockKey(r)
  PROVE  PgInv'
<1>1. tx[r].step = "key" /\ (\A q \in Callers : ~Waits(r, q)) /\ tx[r] \in Transactions
  BY DEF LockKey, Statement, PgInv, TxTypeOK
<1>2. Ordered(tx[r]) /\ Reads(tx[r], calls[r])
  BY DEF PgInv, LocksOrdered, ReadsHold
<1>3. Wanted(r) = {KeyLock(tx[r].cand.scope, calls[r].key)} /\ Wanted(r) \in SUBSET Locks
  BY <1>1, WantedByStep, WantedType
<1>4. PICK t : t = [tx[r] EXCEPT !.step = "lookup", !.held = tx[r].held \cup Wanted(r)]
  OBVIOUS
<1>5. /\ t.step = "lookup" /\ t.cand = tx[r].cand /\ t.held = tx[r].held \cup Wanted(r)
      /\ t \in Transactions
  BY <1>1, <1>3, <1>4 DEF Transactions, Steps
<1>6. tx' = [tx EXCEPT ![r] = t]
  BY <1>1, <1>4 DEF LockKey, Proceed, Transactions
<1>7. Ordered(t)
  BY <1>1, <1>2, <1>3, <1>5, LockNames DEF Ordered
<1>8. Reads(t, calls[r])
  BY <1>1, <1>2, <1>3, <1>5 DEF Reads, ReadsCandidate, ReadsKey, ReadsNew, ReadsHead, ReadsSequence,
     ReadsInsert
<1> QED
  BY <1>1, <1>5, <1>6, <1>7, <1>8, ProceedStep DEF LockKey

(* A key that was used: on to the replay. *)
LEMMA LookupReplayStep ==
  ASSUME Inv, PgInv, NEW r \in Callers, Statement(r, "lookup"), UNCHANGED vars,
         NEW ch \in PriorChanges(tx[r].cand.scope, calls[r].key),
         Proceed(r, [tx[r] EXCEPT !.step = "replay", !.prior = ch])
  PROVE  PgInv'
<1>1. tx[r].step = "lookup" /\ (\A q \in Callers : ~Waits(r, q)) /\ tx[r] \in Transactions
  BY DEF Statement, PgInv, TxTypeOK
<1>2. Ordered(tx[r]) /\ Reads(tx[r], calls[r])
  BY DEF PgInv, LocksOrdered, ReadsHold
<1>3. Wanted(r) = {} /\ ch \in Changes
  BY <1>1, WantedByStep DEF PriorChanges, Inv, TypeOK
<1>4. PICK t : t = [tx[r] EXCEPT !.step = "replay", !.prior = ch,
                                 !.held = tx[r].held \cup Wanted(r)]
  OBVIOUS
<1>5. /\ t.step = "replay" /\ t.cand = tx[r].cand /\ t.held = tx[r].held /\ t.prior = ch
      /\ t \in Transactions
  BY <1>1, <1>3, <1>4 DEF Transactions, Steps
<1>6. tx' = [tx EXCEPT ![r] = t]
  BY <1>1, <1>4 DEF Proceed, Transactions
<1>7. Ordered(t)
  BY <1>1, <1>2, <1>5, LockNames DEF Ordered
<1>8. Reads(t, calls[r])
  BY <1>1, <1>2, <1>5 DEF Reads, ReadsCandidate, ReadsKey, ReadsNew, ReadsHead, ReadsSequence,
     ReadsInsert
<1> QED
  BY <1>1, <1>3, <1>5, <1>6, <1>7, <1>8, ProceedStep

(* A free key: on to the head, or for a create to the sequence. *)
LEMMA LookupNewStep ==
  ASSUME Inv, PgInv, NEW r \in Callers, Statement(r, "lookup"), UNCHANGED vars,
         PriorChanges(tx[r].cand.scope, calls[r].key) = {},
         tx[r].cand.status = "PENDING", tx[r].cand.op # "supersede",
         NEW m \in IF tx[r].cand.op = "create" THEN MemoryIds ELSE {tx[r].cand.base},
         Proceed(r, [tx[r] EXCEPT !.step = Following(tx[r].cand, "lookup"), !.memoryId = m])
  PROVE  PgInv'
<1>1. tx[r].step = "lookup" /\ (\A q \in Callers : ~Waits(r, q)) /\ tx[r] \in Transactions
  BY DEF Statement, PgInv, TxTypeOK
<1>2. Ordered(tx[r]) /\ Reads(tx[r], calls[r])
  BY DEF PgInv, LocksOrdered, ReadsHold
<1>3. Wanted(r) = {}
  BY <1>1, WantedByStep
<1>4. m \in MemoryIds
  BY <1>1, TxTypes DEF PgInv, CandidatesSound, MemoryCandidates
<1>5. PICK step : step = IF tx[r].cand.op = "create" THEN "sequence" ELSE "head"
  OBVIOUS
<1>6. Following(tx[r].cand, "lookup") = step
  BY <1>5 DEF Following
<1>7. PICK t : t = [tx[r] EXCEPT !.step = step, !.memoryId = m,
                                 !.held = tx[r].held \cup Wanted(r)]
  OBVIOUS
<1>8. /\ t.step = step /\ t.cand = tx[r].cand /\ t.held = tx[r].held /\ t.memoryId = m
      /\ t \in Transactions
  BY <1>1, <1>3, <1>4, <1>5, <1>7 DEF Transactions, Steps
<1>9. tx' = [tx EXCEPT ![r] = t]
  BY <1>1, <1>6, <1>7 DEF Proceed, Transactions
<1>10. Ordered(t)
  BY <1>1, <1>2, <1>5, <1>8, LockNames DEF Ordered
<1>11. Reads(t, calls[r])
  BY <1>1, <1>2, <1>4, <1>5, <1>8 DEF Reads, ReadsCandidate, ReadsKey, ReadsNew, ReadsHead,
     ReadsSequence, ReadsInsert
<1> QED
  BY <1>1, <1>3, <1>8, <1>9, <1>10, <1>11, ProceedStep


(* The head's row, and it allows the change: on to the sequence. *)
LEMMA ReadHeadStep ==
  ASSUME Inv, PgInv, NEW r \in Callers, Statement(r, "head"), UNCHANGED vars,
         MutateAllowed(tx[r].cand, tx[r].memoryId),
         Proceed(r, [tx[r] EXCEPT !.step = Following(tx[r].cand, "head")])
  PROVE  PgInv'
<1>1. tx[r].step = "head" /\ (\A q \in Callers : ~Waits(r, q)) /\ tx[r] \in Transactions
  BY DEF Statement, PgInv, TxTypeOK
<1>2. Ordered(tx[r]) /\ Reads(tx[r], calls[r])
  BY DEF PgInv, LocksOrdered, ReadsHold
<1>3. heads[tx[r].memoryId] # None
  BY DEF MutateAllowed, HeadInScope
<1>4. Wanted(r) = {HeadLock(tx[r].memoryId)} /\ Wanted(r) \in SUBSET Locks
  BY <1>1, <1>3, WantedByStep, WantedType
<1>5. Following(tx[r].cand, "head") = "sequence"
  BY DEF Following
<1>6. PICK t : t = [tx[r] EXCEPT !.step = "sequence", !.held = tx[r].held \cup Wanted(r)]
  OBVIOUS
<1>7. /\ t.step = "sequence" /\ t.cand = tx[r].cand /\ t.memoryId = tx[r].memoryId
      /\ t.held = tx[r].held \cup Wanted(r)
      /\ t \in Transactions
  BY <1>1, <1>4, <1>6 DEF Transactions, Steps
<1>8. tx' = [tx EXCEPT ![r] = t]
  BY <1>1, <1>5, <1>6 DEF Proceed, Transactions
<1>9. Ordered(t)
  BY <1>1, <1>2, <1>3, <1>4, <1>7, LockNames DEF Ordered
<1>10. Reads(t, calls[r])
  BY <1>1, <1>2, <1>4, <1>7 DEF Reads, ReadsCandidate, ReadsKey, ReadsNew, ReadsHead,
     ReadsSequence, ReadsInsert
<1> QED
  BY <1>1, <1>7, <1>8, <1>9, <1>10, ProceedStep

(* The scope's sequence row. *)
LEMMA DrawSequenceStep ==
  ASSUME Inv, PgInv, NEW r \in Callers, DrawSequence(r)
  PROVE  PgInv'
<1>1. tx[r].step = "sequence" /\ (\A q \in Callers : ~Waits(r, q)) /\ tx[r] \in Transactions
  BY DEF DrawSequence, Statement, PgInv, TxTypeOK
<1>2. Ordered(tx[r]) /\ Reads(tx[r], calls[r])
  BY DEF PgInv, LocksOrdered, ReadsHold
<1>3. Wanted(r) = {SequenceLock(tx[r].cand.scope)} /\ Wanted(r) \in SUBSET Locks
  BY <1>1, WantedByStep, WantedType
<1>4. Following(tx[r].cand, "sequence") = "putHead"
  BY DEF Following
<1>5. PICK seq \in Nat : seq = lastSeq[tx[r].cand.scope] + 1
  BY <1>1, TxTypes DEF Inv, TypeOK
<1>6. PICK t : t = [tx[r] EXCEPT !.step = "putHead", !.seq = seq,
                                 !.held = tx[r].held \cup Wanted(r)]
  OBVIOUS
<1>7. /\ t.step = "putHead" /\ t.cand = tx[r].cand /\ t.memoryId = tx[r].memoryId
      /\ t.held = tx[r].held \cup Wanted(r) /\ t.seq = seq
      /\ t \in Transactions
  BY <1>1, <1>3, <1>6 DEF Transactions, Steps
<1>8. tx' = [tx EXCEPT ![r] = t]
  BY <1>1, <1>4, <1>5, <1>6 DEF DrawSequence, Proceed, NextCommitSeq, Transactions
<1>9. Ordered(t)
  BY <1>1, <1>2, <1>3, <1>7, LockNames DEF Ordered
<1>10. Reads(t, calls[r])
  BY <1>1, <1>2, <1>3, <1>5, <1>7 DEF Reads, ReadsCandidate, ReadsKey, ReadsNew, ReadsHead,
     ReadsSequence, ReadsInsert
<1> QED
  BY <1>1, <1>7, <1>8, <1>9, <1>10, ProceedStep DEF DrawSequence

(* The head is written: a create also holds its index entries now. *)
LEMMA PutHeadStep ==
  ASSUME Inv, PgInv, NEW r \in Callers, Statement(r, "putHead"), UNCHANGED vars,
         tx[r].cand.op = "create" => ~IdentityTaken(tx[r].cand, tx[r].memoryId),
         Proceed(r, [tx[r] EXCEPT !.step = "rows"])
  PROVE  PgInv'
<1>1. tx[r].step = "putHead" /\ (\A q \in Callers : ~Waits(r, q)) /\ tx[r] \in Transactions
  BY DEF Statement, PgInv, TxTypeOK
<1>2. Ordered(tx[r]) /\ Reads(tx[r], calls[r])
  BY DEF PgInv, LocksOrdered, ReadsHold
<1>3. /\ tx[r].cand.op = "create" =>
           Wanted(r) = {HeadLock(tx[r].memoryId),
                        IdentityLock(tx[r].cand.scope, tx[r].cand.semanticKey)}
      /\ tx[r].cand.op # "create" => Wanted(r) = {}
      /\ Wanted(r) \in SUBSET Locks
  BY <1>1, WantedByStep, WantedType
<1>4. PICK t : t = [tx[r] EXCEPT !.step = "rows", !.held = tx[r].held \cup Wanted(r)]
  OBVIOUS
<1>5. /\ t.step = "rows" /\ t.cand = tx[r].cand /\ t.memoryId = tx[r].memoryId
      /\ t.held = tx[r].held \cup Wanted(r) /\ t.seq = tx[r].seq
      /\ t \in Transactions
  BY <1>1, <1>3, <1>4 DEF Transactions, Steps
<1>6. tx' = [tx EXCEPT ![r] = t]
  BY <1>1, <1>4 DEF Proceed, Transactions
<1>7. Ordered(t)
  BY <1>5 DEF Ordered
<1>8. Reads(t, calls[r])
  BY <1>1, <1>2, <1>3, <1>5 DEF Reads, ReadsCandidate, ReadsKey, ReadsNew, ReadsHead,
     ReadsSequence, ReadsInsert, IdentityTaken
<1> QED
  BY <1>1, <1>5, <1>6, <1>7, <1>8, ProceedStep

-----------------------------------------------------------------------------
(* A transaction that ends without writing: rolled back, replayed or lost. *)
LEMMA EndWithoutWriteStep ==
  ASSUME Inv, PgInv, NEW r \in Callers, End(r), NEW call, SetCall(r, call),
         UNCHANGED <<candidates, admission, tables, conflicts>>
  PROVE  PgInv'
<1>1. CandidatesSound'
  BY DEF PgInv, CandidatesSound
<1>2. ASSUME NEW q \in Callers \ {r} PROVE Undisturbed(q)
  <2>1. tx'[q] = tx[q] /\ calls'[q] = calls[q]
    BY DEF End, SetCall, PgInv, TxTypeOK, Inv, TypeOK
  <2> QED
    BY <2>1 DEF Undisturbed, PriorChanges, tables
<1> QED
  BY <1>1, <1>2, EndStep

(* Deciding a candidate changes nothing else about it. *)
LEMMA DecidedCandidate ==
  ASSUME Inv, PgInv, NEW c \in CandidateIds, candidates[c] # None, MemoryIds # {}, NEW status,
         candidates' = [candidates EXCEPT ![c].status = status]
  PROVE  CandidatesSound'
<1> SUFFICES ASSUME NEW d \in CandidateIds, candidates'[d] # None
             PROVE  candidates'[d].op # "create" => candidates'[d].base # None
  BY DEF CandidatesSound
<1>1. candidates \in [CandidateIds -> MemoryCandidates \cup {None}]
  BY DEF Inv, TypeOK
<1>2. CASE d # c
  BY <1>1, <1>2 DEF PgInv, CandidatesSound
<1>3. CASE d = c
  <2>1. candidates'[c] = [candidates[c] EXCEPT !.status = status]
    BY <1>1
  <2>2. candidates[c] \in MemoryCandidates
    BY <1>1
  <2>3. candidates'[c].op = candidates[c].op /\ candidates'[c].base = candidates[c].base
    BY <2>1, <2>2 DEF MemoryCandidates
  <2> QED
    BY <1>3, <2>3 DEF PgInv, CandidatesSound
<1> QED
  BY <1>2, <1>3

(* A conflict changes the status of the candidate whose row is locked. *)
LEMMA ConflictStep ==
  ASSUME Inv, PgInv, NEW r \in Callers, End(r), tx[r].step = "head", NEW current,
         WriteConflict(r, calls[r].candidateId, tx[r].cand, calls[r].key, current)
  PROVE  PgInv'
<1> DEFINE c == calls[r].candidateId
<1>1. /\ c \in CandidateIds /\ tx[r].cand = candidates[c] /\ candidates[c] \in MemoryCandidates
      /\ CandidateLock(c) \in tx[r].held
  BY TxTypes DEF PgInv, ReadsHold, Reads, ReadsCandidate
<1>2. /\ candidates' = [candidates EXCEPT ![c].status = "CONFLICT"]
      /\ UNCHANGED tables
  BY DEF WriteConflict
<1>3. MemoryIds # {}
  BY DEF PgInv, ReadsHold, Reads, ReadsNew
<1>4. CandidatesSound'
  BY <1>1, <1>2, <1>3, DecidedCandidate, TxTypes
<1>5. ASSUME NEW q \in Callers \ {r} PROVE Undisturbed(q)
  <2>1. tx'[q] = tx[q] /\ calls'[q] = calls[q]
    BY DEF End, WriteConflict, SetCall, PgInv, TxTypeOK, Inv, TypeOK
  <2>2. tx[q].step # "none" => calls[q].candidateId \in CandidateIds /\ calls[q].candidateId # c
    BY <1>1, TxTypes DEF PgInv, ReadsHold, Reads, ReadsCandidate, LocksExclusive
  <2>3. tx[q].step # "none" =>
          candidates'[calls[q].candidateId] = candidates[calls[q].candidateId]
    BY <1>2, <2>2 DEF Inv, TypeOK
  <2> QED
    BY <1>2, <2>1, <2>3 DEF Undisturbed, PriorChanges, tables
<1> QED
  BY <1>4, <1>5, EndStep


(* A commit writes only under its own locks: the candidate's, the key's,   *)
(* the head's or the new identity's, the sequence's.                       *)
LEMMA CommitStep ==
  ASSUME Inv, PgInv, NEW r \in Callers, End(r), tx[r].step = "rows",
         WriteCommit(r, calls[r].candidateId, tx[r].cand, calls[r].key,
                     tx[r].memoryId, tx[r].seq)
  PROVE  PgInv'
<1> DEFINE c == calls[r].candidateId
           k == calls[r].key
           m == tx[r].memoryId
           cand == tx[r].cand
           seq == tx[r].seq
           mine == tx[r].held
<1>1. /\ c \in CandidateIds /\ k \in Keys /\ m \in MemoryIds
      /\ cand = candidates[c] /\ cand \in MemoryCandidates /\ cand # None
      /\ cand.scope \in Scopes /\ cand.semanticKey \in SemanticKeys
  BY TxTypes DEF PgInv, ReadsHold, Reads, ReadsNew
<1>2. /\ CandidateLock(c) \in mine /\ KeyLock(cand.scope, k) \in mine
      /\ HeadLock(m) \in mine /\ SequenceLock(cand.scope) \in mine
      /\ cand.op = "create" => IdentityLock(cand.scope, cand.semanticKey) \in mine
  BY DEF PgInv, ReadsHold, Reads, ReadsCandidate, ReadsKey, ReadsHead, ReadsSequence, ReadsInsert
<1>3. cand.op # "create" =>
        /\ heads[m] # None
        /\ heads[m].scope = cand.scope /\ heads[m].semanticKey = cand.semanticKey
  BY DEF PgInv, ReadsHold, Reads, ReadsHead, MutateAllowed, HeadInScope, SameIdentity
<1>4. PICK head : head = NewHead(cand, m)
  OBVIOUS
<1>5. head # None /\ head.scope = cand.scope /\ head.semanticKey = cand.semanticKey
  <2>1. MutateAllowed(cand, m) \/ CreateAllowed(cand, m)
    BY DEF PgInv, ReadsHold, Reads, ReadsHead, ReadsInsert
  <2>2. cand.status = "PENDING"
    BY DEF PgInv, ReadsHold, Reads, ReadsNew
  <2>3. NewHead(cand, m) \in Heads
    <3>1. Allowed(cand, m)
      BY <2>1, <2>2 DEF Allowed
    <3>2. Inv => TypeOK
      BY DEF Inv
    <3>3. 1 \in Nat \ {0}
      OBVIOUS
    <3> QED
      BY <1>1, <3>1, <3>2, <3>3, NewRowsType
  <2> QED
    BY <1>4, <2>3, NoneAssumption DEF NewHead
<1>6. PICK ch : ch = NewChange(cand, m, k, seq)
  OBVIOUS
<1>7. ch.scope = cand.scope /\ ch.key = k
  BY <1>6 DEF NewChange
<1>8. /\ lastSeq' = [lastSeq EXCEPT ![cand.scope] = seq]
      /\ heads' = [heads EXCEPT ![m] = head]
      /\ revisions \subseteq revisions'
      /\ changes' = changes \cup {ch}
      /\ candidates' = [candidates EXCEPT ![c].status = "ACCEPTED"]
  BY <1>4, <1>6 DEF WriteCommit
<1>9. CandidatesSound'
  BY <1>1, <1>8, DecidedCandidate
<1>10. ASSUME NEW q \in Callers \ {r} PROVE Undisturbed(q)
  <2>1. tx'[q] = tx[q] /\ calls'[q] = calls[q]
    BY DEF End, WriteCommit, SetCall, PgInv, TxTypeOK, Inv, TypeOK
  <2>2. \A x \in mine : x \notin tx[q].held
    BY DEF PgInv, LocksExclusive
  <2>3. tx[q].step # "none" => calls[q].candidateId \in CandidateIds /\ calls[q].candidateId # c
    BY <1>2, <2>2, TxTypes DEF PgInv, ReadsHold, Reads, ReadsCandidate
  <2> HIDE DEF c, k, m, cand, seq, mine
  <2>4. tx[q].step # "none" =>
          candidates'[calls[q].candidateId] = candidates[calls[q].candidateId]
    BY <1>8, <2>3 DEF Inv, TypeOK
  <2>5. \A s \in Scopes, j \in Keys : KeyLock(s, j) \in tx[q].held =>
          PriorChanges(s, j)' = PriorChanges(s, j)
    BY <1>2, <1>7, <1>8, <2>2 DEF PriorChanges
  <2>6. \A x \in MemoryIds : HeadLock(x) \in tx[q].held => heads'[x] = heads[x]
    BY <1>2, <1>8, <2>2 DEF Inv, TypeOK
  <2>7. \A s \in Scopes : SequenceLock(s) \in tx[q].held => lastSeq'[s] = lastSeq[s]
    BY <1>2, <1>8, <2>2 DEF Inv, TypeOK
  <2>8. \A x \in MemoryIds : heads'[x] = IF x = m THEN head ELSE heads[x]
    BY <1>8 DEF Inv, TypeOK
  <2>9. \A s \in Scopes, sk \in SemanticKeys, x \in MemoryIds :
          IdentityLock(s, sk) \in tx[q].held /\ heads'[x] # None
            /\ heads'[x].scope = s /\ heads'[x].semanticKey = sk =>
          heads[x] # None /\ heads[x].scope = s /\ heads[x].semanticKey = sk
    BY <1>2, <1>3, <1>5, <2>2, <2>8
  <2>10. \A x \in MemoryIds : heads[x] # None => heads'[x] # None
    BY <1>5, <2>8
  <2> QED
    BY <1>8, <2>1, <2>4, <2>5, <2>6, <2>7, <2>9, <2>10 DEF Undisturbed
<1> QED
  BY <1>9, <1>10, EndStep


-----------------------------------------------------------------------------
(* An ingested candidate, a curation record and a request are no           *)
(* transaction's business.                                                 *)
LEMMA OutsideStep ==
  ASSUME Inv, PgInv, UNCHANGED tx, UNCHANGED tables,
         \A q \in Callers : tx[q].step # "none" => calls'[q] = calls[q],
         \A c \in CandidateIds : candidates[c] # None => candidates'[c] = candidates[c],
         CandidatesSound'
  PROVE  PgInv'
<1>1. ASSUME NEW q \in Callers, tx[q].step # "none"
      PROVE  Ordered(tx[q])' /\ Reads(tx[q], calls[q])'
  <2>1. candidates'[calls[q].candidateId] = candidates[calls[q].candidateId]
    BY <1>1, TxTypes
  <2>2. Undisturbed(q)
    BY <1>1, <2>1 DEF Undisturbed, PriorChanges, tables
  <2> QED
    BY <2>2, UndisturbedReads
<1>2. ASSUME NEW q \in Callers, tx[q].step = "none"
      PROVE  Ordered(tx[q])' /\ Reads(tx[q], calls[q])'
  <2>1. tx'[q] = NoTx
    BY <1>2 DEF PgInv, LocksOrdered, Ordered
  <2> QED
    BY <2>1 DEF NoTx, Ordered, Reads, ReadsCandidate, ReadsKey, ReadsNew, ReadsHead,
       ReadsSequence, ReadsInsert
<1> QED
  BY <1>1, <1>2 DEF PgInv, TxTypeOK, LocksExclusive, LocksOrdered, ReadsHold

(* Ingestion keeps every candidate there is, and the new one names its     *)
(* base.                                                                   *)
LEMMA IngestStep ==
  ASSUME Inv, PgInv, NEW c \in CandidateIds, NEW in \in Inputs, Ingest(c, in), UNCHANGED tx
  PROVE  PgInv'
<1>1. PICK new : new = NewCandidate(in)
  OBVIOUS
<1>2. (new.op # "create" => new.base # None) /\ new.status = "PENDING"
  BY <1>1 DEF Ingest, ValidInput, NewCandidate
<1>3. candidates' = [candidates EXCEPT ![c] = new] /\ candidates[c] = None
  BY <1>1 DEF Ingest
<1>4. \A d \in CandidateIds : candidates[d] # None => candidates'[d] = candidates[d]
  BY <1>3 DEF Inv, TypeOK
<1>5. \A d \in CandidateIds : candidates'[d] = IF d = c THEN new ELSE candidates[d]
  BY <1>3 DEF Inv, TypeOK
<1>6. CandidatesSound'
  BY <1>2, <1>5 DEF PgInv, CandidatesSound
<1> QED
  BY <1>4, <1>6, OutsideStep DEF Ingest

(* A refusal before any row was looked at is a refusal of the commit. *)
LEMMA LookupRefuses ==
  ASSUME Inv, PgInv, NEW r \in Callers, tx[r].step = "lookup",
         PriorChanges(tx[r].cand.scope, calls[r].key) = {},
         tx[r].cand.status # "PENDING" \/ tx[r].cand.op = "supersede", Rollback(r)
  PROVE  Transact(r)
<1> DEFINE c == calls[r].candidateId
           k == calls[r].key
<1>1. calls[r].phase = "verified" /\ tx[r].cand = candidates[c] /\ c \in CandidateIds
      /\ candidates[c] # None /\ candidates[c] \in MemoryCandidates
  BY TxTypes
<1>2. ~StaleBase(candidates[c]) /\ \A m \in MemoryIds : ~Allowed(candidates[c], m)
  BY <1>1 DEF StaleBase, Allowed, CreateAllowed, MutateAllowed
<1>3. MemoryIds # {}
  BY <1>1 DEF PgInv, CandidatesSound, MemoryCandidates
<1>4. RefuseCommit(r, c, k)
  BY <1>2, <1>3 DEF RefuseCommit, Rollback
<1> QED
  BY <1>1, <1>4 DEF Transact, TransactNew

(* The replay answers with the change under the key, or refuses. *)
LEMMA ReplayIsTransact ==
  ASSUME Inv, PgInv, NEW r \in Callers, Replay(r)
  PROVE  Transact(r)
<1>1. tx[r].step = "replay"
  BY DEF Replay, Statement
<1>2. calls[r].phase = "verified" /\ tx[r].cand = candidates[calls[r].candidateId]
  BY <1>1, TxTypes
<1>3. tx[r].prior \in PriorChanges(candidates[calls[r].candidateId].scope, calls[r].key)
  BY <1>1, <1>2 DEF PgInv, ReadsHold, Reads, ReadsKey
<1>4. ReplayPrior(r, calls[r].candidateId, calls[r].key)
  BY <1>3 DEF Replay, Rollback, ReplayPrior
<1> QED
  BY <1>2, <1>4 DEF Transact

(* The head's row decides: a conflict, a refusal, or on. *)
LEMMA ReadHeadIsTransact ==
  ASSUME Inv, PgInv, NEW r \in Callers, ReadHead(r)
  PROVE  Transact(r) \/ UNCHANGED vars
<1> DEFINE c == calls[r].candidateId
           k == calls[r].key
           cand == tx[r].cand
<1>1. tx[r].step = "head"
  BY DEF ReadHead, Statement
<1>2. calls[r].phase = "verified" /\ cand = candidates[c]
  BY <1>1, TxTypes
<1>3. /\ PriorChanges(cand.scope, k) = {} /\ cand.status = "PENDING"
      /\ cand.op \notin {"create", "supersede"}
      /\ tx[r].memoryId = cand.base /\ tx[r].memoryId \in MemoryIds
  BY <1>1 DEF PgInv, ReadsHold, Reads, ReadsNew
<1>4. CASE HeadInScope(cand) /\ heads[tx[r].memoryId].currentRevision # cand.baseRevision
  <2>1. RecordConflict(r, c, k)
    BY <1>2, <1>3, <1>4 DEF ReadHead, RecordConflict, StaleBase
  <2> QED
    BY <1>2, <1>3, <2>1 DEF Transact, TransactNew
<1>5. CASE ~(HeadInScope(cand) /\ heads[tx[r].memoryId].currentRevision # cand.baseRevision)
  <2>1. CASE MutateAllowed(cand, tx[r].memoryId)
    BY <1>5, <2>1 DEF ReadHead
  <2>2. CASE ~MutateAllowed(cand, tx[r].memoryId)
    <3>1. Rollback(r)
      BY <1>5, <2>2 DEF ReadHead
    <3>2. ~StaleBase(candidates[c])
      BY <1>2, <1>3, <1>5 DEF StaleBase
    <3>3. \A m \in MemoryIds : ~Allowed(candidates[c], m)
      BY <1>2, <1>3, <2>2 DEF Allowed, CreateAllowed, MutateAllowed
    <3>4. RefuseCommit(r, c, k)
      BY <1>3, <3>1, <3>2, <3>3 DEF RefuseCommit, Rollback
    <3> QED
      BY <1>2, <1>3, <3>4 DEF Transact, TransactNew
  <2> QED
    BY <2>1, <2>2
<1> QED
  BY <1>4, <1>5

(* The guarded UPDATE of putHead always finds its row, under its lock; the *)
(* INSERT finds none or the commit is refused.                             *)
LEMMA PutHeadIsTransact ==
  ASSUME Inv, PgInv, NEW r \in Callers, PutHead(r)
  PROVE  Transact(r) \/ UNCHANGED vars
<1> DEFINE c == calls[r].candidateId
           k == calls[r].key
           cand == tx[r].cand
<1>1. tx[r].step = "putHead"
  BY DEF PutHead, Statement
<1>2. calls[r].phase = "verified" /\ cand = candidates[c]
  BY <1>1, TxTypes
<1>3. PriorChanges(cand.scope, k) = {} /\ cand.status = "PENDING" /\ tx[r].memoryId \in MemoryIds
  BY <1>1 DEF PgInv, ReadsHold, Reads, ReadsNew
<1>4. CASE cand.op # "create"
  BY <1>1, <1>4 DEF PutHead, PgInv, ReadsHold, Reads, ReadsHead, MutateAllowed, HeadInScope
<1>5. CASE cand.op = "create" /\ ~IdentityTaken(cand, tx[r].memoryId)
  BY <1>5 DEF PutHead
<1>6. CASE cand.op = "create" /\ IdentityTaken(cand, tx[r].memoryId)
  <2>1. Rollback(r)
    BY <1>6 DEF PutHead
  <2>2. ~StaleBase(candidates[c]) /\ ~Allowed(candidates[c], tx[r].memoryId)
    BY <1>2, <1>6 DEF StaleBase, IdentityTaken, Allowed, MutateAllowed
  <2>3. RefuseCommit(r, c, k)
    BY <1>2, <1>3, <1>6, <2>1, <2>2 DEF RefuseCommit, Rollback
  <2> QED
    BY <1>2, <1>3, <2>3 DEF Transact, TransactNew
<1> QED
  BY <1>4, <1>5, <1>6

(* The last rows always fit, under the locks, and are the rows of the      *)
(* atomic commit.                                                          *)
LEMMA CommitIsTransact ==
  ASSUME Inv, PgInv, NEW r \in Callers, Commit(r)
  PROVE  /\ Transact(r) /\ End(r)
         /\ WriteCommit(r, calls[r].candidateId, tx[r].cand, calls[r].key,
                        tx[r].memoryId, tx[r].seq)
<1> DEFINE c == calls[r].candidateId
           k == calls[r].key
           m == tx[r].memoryId
           cand == tx[r].cand
<1>1. tx[r].step = "rows"
  BY DEF Commit, Statement
<1>2. /\ calls[r].phase = "verified" /\ cand = candidates[c] /\ cand \in MemoryCandidates
      /\ cand.scope \in Scopes /\ c \in CandidateIds /\ candidates[c] # None
  BY <1>1, TxTypes
<1>3. PriorChanges(cand.scope, k) = {} /\ cand.status = "PENDING" /\ m \in MemoryIds
  BY <1>1 DEF PgInv, ReadsHold, Reads, ReadsNew
<1>4. tx[r].seq = lastSeq[cand.scope] + 1
  BY <1>1 DEF PgInv, ReadsHold, Reads, ReadsSequence
<1>5. Allowed(cand, m)
  BY <1>1, <1>3 DEF PgInv, ReadsHold, Reads, ReadsHead, ReadsInsert, Allowed
<1>6. RevisionRows(m, cand.baseRevision + 1) = {}
  <2>1. \A v \in revisions : v.revision \in Nat \ {0} /\ v.memoryId \in MemoryIds
    BY DEF Inv, TypeOK, Revisions
  <2>2. cand.baseRevision \in Nat
    BY <1>2 DEF MemoryCandidates
  <2>3. CASE CreateAllowed(cand, m)
    BY <2>3 DEF CreateAllowed, RevisionRows, Inv, RevisionChain
  <2>4. CASE MutateAllowed(cand, m)
    <3>1. heads[m].currentRevision = cand.baseRevision
      BY <2>4 DEF MutateAllowed
    <3>2. \A v \in revisions : v.memoryId = m => v.revision <= heads[m].currentRevision
      BY DEF Inv, RevisionChain
    <3> QED
      BY <2>1, <2>2, <3>1, <3>2 DEF RevisionRows
  <2> QED
    BY <1>5, <2>3, <2>4 DEF Allowed
<1>7. \A ch \in changes : ch.scope = cand.scope => ch.commitSeq # tx[r].seq
  <2>1. \A ch \in changes : ch.commitSeq \in Nat /\ ch.commitSeq <= lastSeq[ch.scope]
    BY DEF Inv, TypeOK, Changes, FeedContiguous
  <2>2. lastSeq[cand.scope] \in Nat
    BY <1>2 DEF Inv, TypeOK
  <2> QED
    BY <1>4, <2>1, <2>2
<1>8. RowsFit(r)
  BY <1>3, <1>6, <1>7 DEF RowsFit
<1>9. End(r) /\ WriteCommit(r, c, cand, k, m, tx[r].seq)
  BY <1>8 DEF Commit
<1>10. ApplyCommit(r, c, k, m)
  BY <1>2, <1>4, <1>5, <1>9 DEF ApplyCommit, NextCommitSeq
<1> QED
  BY <1>2, <1>3, <1>9, <1>10 DEF Transact, TransactNew


-----------------------------------------------------------------------------
(* One statement of a transaction keeps the invariant, and is a commit or  *)
(* a stuttering step of the atomic write path.                             *)
LEMMA RunStep ==
  ASSUME Inv, PgInv, NEW r \in Callers, Run(r)
  PROVE  PgInv' /\ (Transact(r) \/ UNCHANGED vars)
<1>1. CASE ReadCandidate(r)
  BY <1>1, ReadCandidateStep DEF ReadCandidate
<1>2. CASE LockKey(r)
  BY <1>2, LockKeyStep DEF LockKey
<1>3. CASE LookupKey(r)
  <2>1. Statement(r, "lookup") /\ tx[r].step = "lookup"
    BY <1>3 DEF LookupKey, Statement
  <2>2. CASE PriorChanges(tx[r].cand.scope, calls[r].key) # {}
    <3>1. PICK ch \in PriorChanges(tx[r].cand.scope, calls[r].key) :
            Proceed(r, [tx[r] EXCEPT !.step = "replay", !.prior = ch])
      BY <1>3, <2>2 DEF LookupKey
    <3>2. UNCHANGED vars
      BY <1>3, <2>2 DEF LookupKey
    <3> QED
      BY <2>1, <3>1, <3>2, LookupReplayStep
  <2>3. CASE /\ PriorChanges(tx[r].cand.scope, calls[r].key) = {}
             /\ tx[r].cand.status # "PENDING" \/ tx[r].cand.op = "supersede"
    <3>1. Rollback(r)
      BY <1>3, <2>3 DEF LookupKey
    <3>2. PgInv'
      BY <3>1, EndWithoutWriteStep DEF Rollback
    <3> QED
      BY <2>1, <2>3, <3>1, <3>2, LookupRefuses
  <2>4. CASE /\ PriorChanges(tx[r].cand.scope, calls[r].key) = {}
             /\ tx[r].cand.status = "PENDING" /\ tx[r].cand.op # "supersede"
    <3>1. PICK m \in IF tx[r].cand.op = "create" THEN MemoryIds ELSE {tx[r].cand.base} :
            Proceed(r, [tx[r] EXCEPT !.step = Following(tx[r].cand, "lookup"), !.memoryId = m])
      BY <1>3, <2>4 DEF LookupKey
    <3>2. UNCHANGED vars
      BY <1>3, <2>4 DEF LookupKey
    <3> QED
      BY <2>1, <2>4, <3>1, <3>2, LookupNewStep
  <2> QED
    BY <2>2, <2>3, <2>4
<1>4. CASE Replay(r)
  <2>1. PICK call : SetCall(r, call)
    BY <1>4 DEF Replay, Rollback
  <2>2. End(r) /\ UNCHANGED <<candidates, admission, tables, conflicts>>
    BY <1>4 DEF Replay, Rollback
  <2> QED
    BY <1>4, <2>1, <2>2, EndWithoutWriteStep, ReplayIsTransact
<1>5. CASE ReadHead(r)
  <2>1. Statement(r, "head") /\ tx[r].step = "head"
    BY <1>5 DEF ReadHead, Statement
  <2>2. CASE Rollback(r)
    BY <1>5, <2>2, EndWithoutWriteStep, ReadHeadIsTransact DEF Rollback
  <2>3. CASE /\ End(r)
             /\ WriteConflict(r, calls[r].candidateId, tx[r].cand, calls[r].key,
                              heads[tx[r].memoryId].currentRevision)
    BY <1>5, <2>1, <2>3, ConflictStep, ReadHeadIsTransact
  <2>4. CASE /\ MutateAllowed(tx[r].cand, tx[r].memoryId) /\ UNCHANGED vars
             /\ Proceed(r, [tx[r] EXCEPT !.step = Following(tx[r].cand, "head")])
    BY <2>1, <2>4, ReadHeadStep
  <2> QED
    BY <1>5, <2>2, <2>3, <2>4 DEF ReadHead
<1>6. CASE DrawSequence(r)
  BY <1>6, DrawSequenceStep DEF DrawSequence
<1>7. CASE PutHead(r)
  <2>1. Statement(r, "putHead")
    BY <1>7 DEF PutHead
  <2>2. CASE Rollback(r)
    BY <1>7, <2>2, EndWithoutWriteStep, PutHeadIsTransact DEF Rollback
  <2>3. CASE ~Rollback(r)
    <3>1. /\ tx[r].cand.op = "create" => ~IdentityTaken(tx[r].cand, tx[r].memoryId)
          /\ Proceed(r, [tx[r] EXCEPT !.step = "rows"]) /\ UNCHANGED vars
      BY <1>7, <2>3 DEF PutHead
    <3> QED
      BY <2>1, <3>1, PutHeadStep
  <2> QED
    BY <2>2, <2>3
<1>8. CASE Commit(r)
  <2>1. tx[r].step = "rows"
    BY <1>8 DEF Commit, Statement
  <2> QED
    BY <1>8, <2>1, CommitIsTransact, CommitStep
<1> QED
  BY <1>1, <1>2, <1>3, <1>4, <1>5, <1>6, <1>7, <1>8 DEF Run

(* Every step of the statements is a step of the atomic write path, or     *)
(* none, and keeps the invariant.                                          *)
LEMMA PgStep ==
  ASSUME Inv, PgInv, [PgNext]_pgVars
  PROVE  PgInv' /\ [Next]_vars
<1>1. ASSUME NEW c \in CandidateIds, NEW in \in Inputs, Ingest(c, in), UNCHANGED tx
      PROVE  PgInv' /\ [Next]_vars
  BY <1>1, IngestStep DEF Next
<1>2. ASSUME NEW c \in CandidateIds, Curate(c), UNCHANGED tx
      PROVE  PgInv' /\ [Next]_vars
  <2>1. UNCHANGED <<candidates, tables, calls>>
    BY <1>2 DEF Curate
  <2>2. CandidatesSound'
    BY <2>1 DEF PgInv, CandidatesSound
  <2> QED
    BY <1>2, <2>1, <2>2, OutsideStep DEF Next
<1>3. ASSUME NEW r \in Callers, Outside(r)
      PROVE  PgInv' /\ [Next]_vars
  <2>1. /\ UNCHANGED <<candidates, tables, tx>> /\ tx[r].step = "none"
        /\ \E call : SetCall(r, call)
    BY <1>3 DEF Outside, BeginCommit, Return
  <2>2. CandidatesSound'
    BY <2>1 DEF PgInv, CandidatesSound
  <2>3. \A q \in Callers : tx[q].step # "none" => calls'[q] = calls[q]
    BY <2>1 DEF SetCall, Inv, TypeOK
  <2>4. PgInv'
    BY <2>1, <2>2, <2>3, OutsideStep
  <2> QED
    BY <1>3, <2>4 DEF Outside, Next
<1>4. ASSUME NEW r \in Callers, Run(r)
      PROVE  PgInv' /\ [Next]_vars
  BY <1>4, RunStep DEF Next
<1>5. ASSUME NEW r \in Callers, Crash(r)
      PROVE  PgInv' /\ [Next]_vars
  <2>1. calls[r] # Idle
    BY <1>5, TxTypes DEF Crash, Idle
  <2>2. Return(r)
    BY <1>5, <2>1 DEF Crash, Return
  <2> QED
    BY <1>5, <2>2, EndWithoutWriteStep DEF Crash, Next
<1>6. CASE UNCHANGED pgVars
  <2>1. UNCHANGED <<vars, tx>>
    BY <1>6 DEF pgVars
  <2>2. UNCHANGED <<candidates, tables, calls>> /\ CandidatesSound'
    BY <2>1 DEF vars, tables, PgInv, CandidatesSound
  <2> QED
    BY <2>1, <2>2, OutsideStep
<1> QED
  BY <1>1, <1>2, <1>3, <1>4, <1>5, <1>6 DEF PgNext

(* Before the first transaction. *)
LEMMA PgInvInit == PgInit => Inv /\ PgInv
<1> SUFFICES ASSUME PgInit PROVE PgInv
  BY InvInit DEF PgInit
<1>1. NoTx \in Transactions
  BY DEF NoTx, Transactions, Steps
<1>2. \A r \in Callers : tx[r] = NoTx
  BY DEF PgInit
<1>3. TxTypeOK /\ LocksExclusive
  BY <1>1, <1>2 DEF PgInit, TxTypeOK, LocksExclusive, NoTx
<1>4. LocksOrdered /\ ReadsHold
  BY <1>2 DEF LocksOrdered, ReadsHold, NoTx, Ordered, Reads, ReadsCandidate, ReadsKey, ReadsNew,
     ReadsHead, ReadsSequence, ReadsInsert
<1>5. CandidatesSound
  BY DEF PgInit, Init, CandidatesSound
<1> QED
  BY <1>3, <1>4, <1>5 DEF PgInv

(* Whatever statements of whatever transactions interleave: what each has  *)
(* read still holds under its locks, and the committed tables satisfy the  *)
(* invariant of the atomic write path.                                     *)
THEOREM PgInvariance == PgSpec => [](Inv /\ PgInv)
<1>1. Inv /\ PgInv /\ [PgNext]_pgVars => (Inv /\ PgInv)'
  BY PgStep, InvStep
<1> QED
  BY PgInvInit, <1>1, PTL DEF PgSpec

(* The transactions of any number of concurrent callers never wait for one *)
(* another in a circle, so PostgreSQL never has a deadlock to break.       *)
THEOREM NoDeadlock == PgSpec => []NoWaitCycle
BY PgInvariance, OrderExcludesCycles, PTL

(* The statements, at READ COMMITTED and whatever their interleaving,      *)
(* implement the atomic commit.                                            *)
THEOREM AtomicCommitIsImplemented == PgSpec => ImplementsAtomicCommit
<1>1. PgInit => Init
  BY DEF PgInit
<1>2. Inv /\ PgInv /\ [PgNext]_pgVars => [Next]_vars
  BY PgStep
<1> QED
  BY <1>1, <1>2, PgInvariance, PTL DEF PgSpec, Spec, ImplementsAtomicCommit


-----------------------------------------------------------------------------
(* The verified retrieval *)

(* The head that q has read names the candidate it asked for. *)
Named(q, m) ==
  /\ readers[q].heads[m] # None
  /\ readers[q].heads[m].scope = readers[q].scope
  /\ readers[q].heads[m].status = "active"
  /\ readers[q].heads[m].currentRevision = Claimed(q, m)

(* A revision of m is the one the head h was written with. *)
WrittenWith(v, h, m) ==
  /\ v.memoryId = m /\ v.revision = h.currentRevision
  /\ v.scope = h.scope /\ v.status = h.status
  /\ v.memoryType = h.memoryType /\ v.semanticKey = h.semanticKey

(* The revision q is about to answer with, or has to withhold. *)
RowOf(v, q, m) == v \in RevisionRows(m, readers[q].heads[m].currentRevision)

(* A head that q has read was backed by its revision, and still is: rows   *)
(* are never taken away, whatever happens to the head.                     *)
HeadBacked(q, m) ==
  \/ readers[q].heads[m] = None
  \/ /\ readers[q].heads[m] \in Heads
     /\ \E v \in revisions : WrittenWith(v, readers[q].heads[m], m)

(* After the first reading, exactly the named candidates are undecided. *)
FirstLook(q, m) ==
  /\ readers[q].decisions[m] = Undecided <=> Named(q, m)
  /\ readers[q].decisions[m].decision # "ALLOW"

(* After the second, the decision to allow names the revision, and a       *)
(* suppressed candidate was not named, not in force or not intact.         *)
SecondLook(q, m) ==
  /\ readers[q].decisions[m].decision = "ALLOW" =>
       /\ Named(q, m)
       /\ \E v \in revisions :
            RowOf(v, q, m) /\ v.content \in InForce /\ readers[q].decisions[m] = Allow(v)
  /\ readers[q].decisions[m].decision # "ALLOW" =>
       \/ ~Named(q, m)
       \/ \E v \in revisions :
            /\ RowOf(v, q, m)
            /\ v.content \in InForce => v.candidateFingerprint # v.semanticFingerprint

ReadFields == {"phase", "claims", "scope", "heads", "decisions"}

(* What a retrieval knows between its reads. *)
ReaderSound(q) ==
  /\ readers[q] = [f \in ReadFields |-> readers[q][f]]
  /\ readers[q].claims \subseteq Claims
  /\ readers[q].phase = "headsRead" =>
       \A m \in Requested(q) : HeadBacked(q, m) /\ FirstLook(q, m)
  /\ readers[q].phase = "verified" =>
       \A m \in Requested(q) : HeadBacked(q, m) /\ SecondLook(q, m)

ReadInv ==
  /\ readers = [q \in Readers |-> readers[q]]
  /\ \A q \in Readers : ReaderSound(q)

(* A candidate names a memory of the store. *)
LEMMA RequestedKnown ==
  ASSUME NEW q \in Readers, ReaderSound(q), NEW m \in Requested(q)
  PROVE  m \in MemoryIds
BY DEF ReaderSound, Requested, Claims

(* A retrieval that takes no step keeps what it knows while rows are added. *)
LEMMA ReaderKeeps ==
  ASSUME NEW q \in Readers, ReaderSound(q), readers'[q] = readers[q],
         revisions \subseteq revisions'
  PROVE  ReaderSound(q)'
<1> USE DEF Requested, Claimed
<1>1. \A m \in Requested(q) : (Named(q, m))' = Named(q, m)
  BY DEF Named
<1>2. \A m \in Requested(q) : HeadBacked(q, m) => HeadBacked(q, m)'
  BY DEF HeadBacked, WrittenWith
<1>3. \A m \in Requested(q) : FirstLook(q, m) => FirstLook(q, m)'
  BY <1>1 DEF FirstLook, Undecided
<1>4. \A m \in Requested(q), v \in revisions : RowOf(v, q, m) => RowOf(v, q, m)'
  BY DEF RowOf, RevisionRows
<1>5. \A m \in Requested(q) : SecondLook(q, m) => SecondLook(q, m)'
  BY <1>1, <1>4 DEF SecondLook, Allow
<1>6. Requested(q)' = Requested(q)
  OBVIOUS
<1> QED
  BY <1>2, <1>3, <1>5, <1>6 DEF ReaderSound

(* The step of one retrieval leaves the others and the tables alone. *)
LEMMA OthersKeep ==
  ASSUME ReadInv, NEW q \in Readers, NEW st, SetReader(q, st), UNCHANGED vars,
         ReaderSound(q)'
  PROVE  ReadInv'
<1>1. readers' = [x \in Readers |-> readers'[x]] /\ \A x \in Readers : x # q => readers'[x] = readers[x]
  BY DEF ReadInv, SetReader
<1>2. revisions' = revisions
  BY DEF vars
<1> QED
  BY <1>1, <1>2, ReaderKeeps DEF ReadInv

(* A head of the store is backed by its current revision. *)
LEMMA HeadHasRevision ==
  ASSUME TypeOK, RevisionChain, NEW m \in MemoryIds, heads[m] # None
  PROVE  heads[m] \in Heads /\ \E v \in revisions : WrittenWith(v, heads[m], m)
<1>1. heads[m] \in Heads /\ heads[m].currentRevision \in Nat \ {0}
  BY DEF TypeOK, Heads
<1>2. PICK v \in RevisionRows(m, heads[m].currentRevision) : TRUE
  BY <1>1 DEF RevisionChain
<1> QED
  BY <1>1, <1>2 DEF RevisionChain, RevisionRows, WrittenWith

(* The first reading of the heads. *)
LEMMA ReadHeadsStep ==
  ASSUME TypeOK, RevisionChain, ReadInv, NEW q \in Readers, ReadHeads(q)
  PROVE  ReadInv'
<1> DEFINE st == readers[q]
           seen == [m \in Requested(q) |-> heads[m]]
           first == [m \in Requested(q) |-> SuppressHead(heads[m], Claimed(q, m), st.scope)]
           next == [st EXCEPT !.phase = "headsRead", !.heads = seen, !.decisions = first]
<1>1. ReaderSound(q) /\ readers = [x \in Readers |-> readers[x]]
  BY DEF ReadInv
<1> HIDE DEF seen, first
<1>2. SetReader(q, next) /\ UNCHANGED vars
  BY DEF ReadHeads, seen, first
<1>3. readers'[q] = next
  BY <1>1, <1>2 DEF SetReader
<1>4. /\ next.phase = "headsRead" /\ next.claims = st.claims /\ next.scope = st.scope
      /\ next.heads = seen /\ next.decisions = first
      /\ next = [f \in ReadFields |-> next[f]]
  BY <1>1 DEF ReaderSound, ReadFields
<1> HIDE DEF next
<1>5. Requested(q)' = Requested(q) /\ \A m : Claimed(q, m)' = Claimed(q, m)
  BY <1>3, <1>4 DEF Requested, Claimed
<1>6. ASSUME NEW m \in Requested(q) PROVE (HeadBacked(q, m) /\ FirstLook(q, m))'
  <2>1. m \in MemoryIds /\ seen[m] = heads[m]
        /\ first[m] = SuppressHead(heads[m], Claimed(q, m), st.scope)
    BY <1>1, RequestedKnown DEF seen, first
  <2>2. \/ heads[m] = None
        \/ heads[m] \in Heads /\ \E v \in revisions : WrittenWith(v, heads[m], m)
    BY <2>1, HeadHasRevision
  <2>3. revisions' = revisions
    BY <1>2 DEF vars
  <2>4. HeadBacked(q, m)'
    BY <1>3, <1>4, <2>1, <2>2, <2>3 DEF HeadBacked, WrittenWith
  <2>5. heads[m] # None => heads[m].status \in {"active", "tombstoned"}
    BY <2>2 DEF Heads, MemoryStatuses
  <2>6. /\ first[m] = Undecided <=>
             /\ heads[m] # None /\ heads[m].scope = st.scope
             /\ heads[m].status = "active" /\ heads[m].currentRevision = Claimed(q, m)
        /\ first[m].decision # "ALLOW"
    BY <2>1, <2>5 DEF SuppressHead, Suppress, Undecided
  <2>7. FirstLook(q, m)'
    BY <1>3, <1>4, <1>5, <2>1, <2>6 DEF FirstLook, Named, Undecided
  <2> QED
    BY <2>4, <2>7
<1>7. ReaderSound(q)'
  BY <1>1, <1>3, <1>4, <1>5, <1>6 DEF ReaderSound
<1> QED
  BY <1>2, <1>7, OthersKeep

(* The reading of the revisions: a row is there for every named head, and  *)
(* only its integrity and its window are left to decide.                   *)
LEMMA ReadRevisionsStep ==
  ASSUME TypeOK, RevisionChain, ReadInv, NEW q \in Readers, ReadRevisions(q)
  PROVE  ReadInv'
<1> DEFINE st == readers[q]
           Rows(m) == RevisionRows(m, st.heads[m].currentRevision)
           second == [m \in Requested(q) |->
                        IF st.decisions[m] # Undecided THEN st.decisions[m]
                        ELSE VerifyRevision(st.heads[m], Rows(m), st.scope)]
           next == [st EXCEPT !.phase = "verified", !.decisions = second]
<1>1. ReaderSound(q) /\ readers = [x \in Readers |-> readers[x]] /\ st.phase = "headsRead"
  BY DEF ReadInv, ReadRevisions
<1> HIDE DEF second
<1>2. SetReader(q, next) /\ UNCHANGED vars
  BY DEF ReadRevisions, second
<1>3. readers'[q] = next
  BY <1>1, <1>2 DEF SetReader
<1>4. /\ next.phase = "verified" /\ next.claims = st.claims /\ next.scope = st.scope
      /\ next.heads = st.heads /\ next.decisions = second
      /\ next = [f \in ReadFields |-> next[f]]
  BY <1>1 DEF ReaderSound, ReadFields
<1> HIDE DEF next
<1>5. Requested(q)' = Requested(q) /\ \A m : Claimed(q, m)' = Claimed(q, m)
  BY <1>3, <1>4 DEF Requested, Claimed
<1>6. revisions' = revisions
  BY <1>2 DEF vars
<1>7. ASSUME NEW m \in Requested(q) PROVE (HeadBacked(q, m) /\ SecondLook(q, m))'
  <2>1. HeadBacked(q, m) /\ FirstLook(q, m)
    BY <1>1 DEF ReaderSound
  <2>2. HeadBacked(q, m)'
    BY <1>3, <1>4, <1>6, <2>1 DEF HeadBacked, WrittenWith
  <2>3. Named(q, m)' = Named(q, m)
    BY <1>3, <1>4, <1>5 DEF Named
  <2>4. \A v \in revisions : RowOf(v, q, m)' = (v \in Rows(m))
    BY <1>3, <1>4, <1>6 DEF RowOf, RevisionRows
  <2>5. readers'[q].decisions[m] = second[m]
    BY <1>3, <1>4
  <2>6. CASE ~Named(q, m)
    <3>1. second[m] = st.decisions[m] /\ second[m].decision # "ALLOW"
      BY <2>1, <2>6 DEF FirstLook, second
    <3> QED
      BY <2>2, <2>3, <2>5, <2>6, <3>1 DEF SecondLook
  <2>7. CASE Named(q, m)
    <3>1. second[m] = VerifyRevision(st.heads[m], Rows(m), st.scope)
      BY <2>1, <2>7 DEF FirstLook, second
    <3>2. PICK w \in revisions : WrittenWith(w, st.heads[m], m)
      BY <2>1, <2>7 DEF HeadBacked, Named
    <3>3. w \in Rows(m)
      BY <3>2 DEF WrittenWith, RevisionRows
    <3>4. PICK v \in Rows(m) : v = CHOOSE x \in Rows(m) : TRUE
      BY <3>3
    <3>5. v \in revisions /\ v = w
      BY <3>2, <3>3, <3>4 DEF RevisionRows, RevisionChain
    <3>6. Intact(st.heads[m], v, st.scope) <=> v.candidateFingerprint = v.semanticFingerprint
      BY <2>7, <3>2, <3>5 DEF Intact, WrittenWith, Named
    <3>7. \/ /\ second[m] = Allow(v) /\ v.content \in InForce
          \/ /\ second[m].decision # "ALLOW"
             /\ v.content \in InForce => v.candidateFingerprint # v.semanticFingerprint
      BY <3>1, <3>3, <3>4, <3>6 DEF VerifyRevision, Suppress
    <3>8. RowOf(v, q, m)' /\ v \in revisions' /\ Named(q, m)'
      BY <1>6, <2>3, <2>4, <2>7, <3>4, <3>5
    <3>9. Allow(v).decision = "ALLOW"
      BY DEF Allow
    <3> QED
      BY <2>2, <2>5, <3>7, <3>8, <3>9 DEF SecondLook, Allow
  <2> QED
    BY <2>6, <2>7
<1>8. ReaderSound(q)'
  BY <1>1, <1>3, <1>4, <1>5, <1>7 DEF ReaderSound
<1> QED
  BY <1>2, <1>8, OthersKeep

(* A retrieval that begins, has answered or has ended knows nothing. *)
LEMMA ReaderIdle ==
  ASSUME ReadInv, NEW q \in Readers, NEW st, SetReader(q, st), UNCHANGED vars,
         st = [f \in ReadFields |-> st[f]], st.claims \subseteq Claims,
         st.phase \in {"idle", "searched", "answered"}
  PROVE  ReadInv'
<1>1. readers'[q] = st
  BY DEF ReadInv, SetReader
<1>2. ReaderSound(q)'
  BY <1>1 DEF ReaderSound
<1> QED
  BY <1>2, OthersKeep

(* Commits and readings, however they interleave. *)
LEMMA ReadInvStep ==
  ASSUME Inv, ReadInv, [ReadNext]_readVars
  PROVE  ReadInv' /\ [Next]_vars
<1> USE DEF Inv
<1>1. CASE Next /\ UNCHANGED readers
  <2>1. revisions \subseteq revisions'
    BY <1>1, TablesGrow
  <2>2. \A q \in Readers : readers'[q] = readers[q]
    BY <1>1
  <2> QED
    BY <1>1, <2>1, <2>2, ReaderKeeps DEF ReadInv
<1>2. ASSUME NEW q \in Readers, NEW claims \in SUBSET Claims, NEW s \in Scopes,
             Search(q, claims, s)
      PROVE  ReadInv' /\ UNCHANGED vars
  <2> DEFINE st == [NoRead EXCEPT !.phase = "searched", !.claims = claims, !.scope = s]
  <2>1. /\ st = [f \in ReadFields |-> st[f]] /\ st.claims = claims
        /\ st.phase = "searched"
    BY DEF NoRead, ReadFields
  <2>2. SetReader(q, st) /\ UNCHANGED vars
    BY <1>2 DEF Search
  <2> HIDE DEF st
  <2> QED
    BY <2>1, <2>2, ReaderIdle
<1>3. ASSUME NEW q \in Readers, RereadHeads(q)
      PROVE  ReadInv' /\ UNCHANGED vars
  <2> DEFINE third == [m \in Requested(q) |->
               IF /\ readers[q].decisions[m].decision = "ALLOW"
                  /\ ~SameHead(readers[q].heads[m], heads[m])
               THEN Suppress("HEAD_CHANGED") ELSE readers[q].decisions[m]]
             st == [readers[q] EXCEPT !.phase = "answered", !.decisions = third]
  <2>1. SetReader(q, st) /\ UNCHANGED vars
    BY <1>3 DEF RereadHeads
  <2> HIDE DEF third
  <2>2. ReaderSound(q)
    BY DEF ReadInv
  <2>3. /\ st = [f \in ReadFields |-> st[f]] /\ st.claims \subseteq Claims
        /\ st.phase = "answered"
    BY <2>2 DEF ReaderSound, ReadFields
  <2> HIDE DEF st
  <2> QED
    BY <2>1, <2>3, ReaderIdle
<1>4. ASSUME NEW q \in Readers, Finish(q)
      PROVE  ReadInv' /\ UNCHANGED vars
  <2>1. /\ NoRead = [f \in ReadFields |-> NoRead[f]] /\ NoRead.claims \subseteq Claims
        /\ NoRead.phase = "idle"
    BY DEF NoRead, ReadFields
  <2> QED
    BY <1>4, <2>1, ReaderIdle DEF Finish
<1>5. ASSUME NEW q \in Readers, ReadHeads(q) \/ ReadRevisions(q)
      PROVE  ReadInv' /\ UNCHANGED vars
  BY <1>5, ReadHeadsStep, ReadRevisionsStep DEF ReadHeads, ReadRevisions
<1>6. CASE UNCHANGED readVars
  <2>1. UNCHANGED vars /\ readers' = readers
    BY <1>6 DEF readVars
  <2>2. revisions' = revisions
    BY <2>1 DEF vars
  <2> QED
    BY <2>1, <2>2, ReaderKeeps DEF ReadInv
<1> QED
  BY <1>1, <1>2, <1>3, <1>4, <1>5, <1>6 DEF ReadNext

(* Before the first retrieval. *)
LEMMA ReadInvInit == ReadInit => Inv /\ ReadInv
BY InvInit DEF ReadInit, ReadInv, ReaderSound, ReadFields, NoRead

(* Retrievals change no table, and what each knows between its reads stays *)
(* true beside any commits.                                                *)
THEOREM ReadInvariance == ReadSpec => [](Inv /\ ReadInv)
<1>1. Inv /\ ReadInv /\ [ReadNext]_readVars => (Inv /\ ReadInv)'
  BY ReadInvStep, InvStep
<1> QED
  BY ReadInvInit, <1>1, PTL DEF ReadSpec

(* What the second reading of the heads decides. *)
LEMMA AnswerShape ==
  ASSUME ReadInv, [ReadNext]_readVars, NEW q \in Readers, Answers(q)
  PROVE  \A m \in Requested(q) :
           readers'[q].decisions[m] =
             IF /\ readers[q].decisions[m].decision = "ALLOW"
                /\ readers[q].heads[m] # heads[m]
             THEN Suppress("HEAD_CHANGED") ELSE readers[q].decisions[m]
<1>1. /\ readers[q].phase = "verified" /\ readers'[q].phase = "answered"
      /\ readers[q] = [f \in ReadFields |-> readers[q][f]]
      /\ readers = [x \in Readers |-> readers[x]]
  BY DEF Answers, ReadInv, ReaderSound
<1>2. readers'[q] # readers[q]
  BY <1>1
<1>3. PICK x \in Readers :
        \/ \E claims \in SUBSET Claims, s \in Scopes : Search(x, claims, s)
        \/ ReadHeads(x) \/ ReadRevisions(x) \/ RereadHeads(x) \/ Finish(x)
  BY <1>2 DEF ReadNext, readVars
<1>4. \A y \in Readers : y # x => readers'[y] = readers[y]
  BY <1>1, <1>3 DEF Search, ReadHeads, ReadRevisions, RereadHeads, Finish, SetReader
<1>5. x = q
  BY <1>2, <1>4
<1>6. ~Finish(q)
  BY <1>1 DEF Finish, SetReader, NoRead
<1>7. RereadHeads(q)
  BY <1>1, <1>3, <1>5, <1>6 DEF Search, ReadHeads, ReadRevisions
<1> DEFINE third == [m \in Requested(q) |->
             IF /\ readers[q].decisions[m].decision = "ALLOW"
                /\ ~SameHead(readers[q].heads[m], heads[m])
             THEN Suppress("HEAD_CHANGED") ELSE readers[q].decisions[m]]
<1>8. readers'[q] = [readers[q] EXCEPT !.phase = "answered", !.decisions = third]
  BY <1>1, <1>7 DEF RereadHeads, SetReader
<1> HIDE DEF third
<1>9. readers'[q].decisions = third
  BY <1>1, <1>8 DEF ReadFields
<1> QED
  BY <1>9 DEF third, SameHead

(* Although a retrieval takes no lock, everything in its answer is current *)
(* at the second reading of the heads: in the scope, active, at the        *)
(* claimed revision and in force.                                          *)
THEOREM AllowedAreCurrent == ReadSpec => AllowedIsCurrent
<1>1. ASSUME Inv, ReadInv, [ReadNext]_readVars, NEW q \in Readers, Answers(q),
             NEW m \in Requested(q), readers'[q].decisions[m].decision = "ALLOW"
      PROVE  /\ heads[m] # None
             /\ heads[m].scope = readers[q].scope /\ heads[m].status = "active"
             /\ readers'[q].decisions[m].revision \in RevisionRows(m, heads[m].currentRevision)
             /\ readers'[q].decisions[m].revision.revision = Claimed(q, m)
             /\ readers'[q].decisions[m].revision.content \in InForce
  <2>1. /\ readers'[q].decisions[m] = readers[q].decisions[m]
        /\ readers[q].decisions[m].decision = "ALLOW" /\ readers[q].heads[m] = heads[m]
    BY <1>1, AnswerShape DEF Suppress
  <2>2. SecondLook(q, m)
    BY <1>1 DEF ReadInv, ReaderSound, Answers
  <2>3. PICK v \in revisions : /\ RowOf(v, q, m) /\ v.content \in InForce
                               /\ readers[q].decisions[m] = Allow(v)
    BY <2>1, <2>2 DEF SecondLook
  <2>4. readers'[q].decisions[m].revision = v
    BY <2>1, <2>3 DEF Allow
  <2>5. Named(q, m)
    BY <2>1, <2>2 DEF SecondLook
  <2> QED
    BY <2>1, <2>3, <2>4, <2>5 DEF RowOf, RevisionRows, Named
<1>2. Inv /\ ReadInv /\ [ReadNext]_readVars =>
        \A q \in Readers : Answers(q) =>
          \A m \in Requested(q) :
            LET d == readers'[q].decisions[m] IN
            d.decision = "ALLOW" =>
              /\ heads[m] # None
              /\ heads[m].scope = readers[q].scope /\ heads[m].status = "active"
              /\ d.revision \in RevisionRows(m, heads[m].currentRevision)
              /\ d.revision.revision = Claimed(q, m)
              /\ d.revision.content \in InForce
  BY <1>1
<1> QED
  BY <1>2, ReadInvariance, PTL DEF ReadSpec, AllowedIsCurrent

(* What restores break and nothing else does: without them no candidate    *)
(* carries on a revision it does not rewrite, except to tombstone it, so   *)
(* the fingerprints of an active revision agree.                           *)
FingerprintsAgree ==
  /\ \A c \in CandidateIds : candidates[c] # None => candidates[c].op # "restore"
  /\ \A v \in revisions :
       v.status = "active" => v.candidateFingerprint = v.semanticFingerprint

(* A write path that is never asked to restore keeps them so. *)
LEMMA FingerprintsAgreeStep ==
  ASSUME \A in \in Inputs : in.op # "restore", Inv, FingerprintsAgree, [Next]_vars
  PROVE  FingerprintsAgree'
<1> USE DEF Inv
<1>1. \A c \in CandidateIds : candidates'[c] # None => candidates'[c].op # "restore"
  <2>1. CASE UNCHANGED candidates
    BY <2>1 DEF FingerprintsAgree
  <2>2. ASSUME NEW c \in CandidateIds, NEW in \in Inputs, Ingest(c, in)
        PROVE  \A x \in CandidateIds : candidates'[x] # None => candidates'[x].op # "restore"
    <3>1. NewCandidate(in).op # "restore"
      BY DEF NewCandidate
    <3> HIDE DEF Inv
    <3>2. \A x \in CandidateIds : candidates'[x] = IF x = c THEN NewCandidate(in) ELSE candidates[x]
      BY <2>2 DEF Ingest, Inv, TypeOK
    <3> QED
      BY <3>1, <3>2 DEF FingerprintsAgree
  <2>3. ASSUME NEW r \in Callers, Transact(r)
        PROVE  \A x \in CandidateIds : candidates'[x] # None => candidates'[x].op # "restore"
    <3>1. PICK c, k : /\ c = calls[r].candidateId /\ k = calls[r].key
                      /\ ReplayPrior(r, c, k) \/ TransactNew(r, c, k)
      BY <2>3 DEF Transact
    <3>2. c \in CandidateIds /\ candidates[c] \in MemoryCandidates /\ candidates[c] # None
      BY <2>3, <3>1 DEF Transact, CallsKnown, TypeOK, Calls, VerifiedCalls, Idle,
         CommittedCalls, FailedCalls
    <3>3. \/ UNCHANGED candidates
          \/ \E st : candidates' = [candidates EXCEPT ![c].status = st]
      BY <3>1 DEF ReplayPrior, TransactNew, ApplyCommit, WriteCommit, RecordConflict,
         WriteConflict, RefuseCommit
    <3> QED
      BY <3>2, <3>3 DEF FingerprintsAgree, TypeOK, MemoryCandidates
  <2> QED
    BY <2>1, <2>2, <2>3 DEF Next, Curate, BeginCommit, Return, vars
<1>2. CASE Quiet
  BY <1>1, <1>2 DEF Quiet, tables, FingerprintsAgree
<1>3. ASSUME NEW r \in Callers, NEW c \in CandidateIds, NEW k \in Keys,
             NEW m \in MemoryIds, Commits(r, c, k, m)
      PROVE  FingerprintsAgree'
  <2> DEFINE cand == candidates[c]
             seq == lastSeq[cand.scope] + 1
             rev == NewRevision(c, cand, m, seq)
  <2>1. cand # None /\ revisions' = revisions \cup {rev}
    BY <1>3, CommitFacts DEF Commits
  <2>2. cand.op # "restore"
    BY <2>1 DEF FingerprintsAgree
  <2>3. rev.status = "active" => rev.candidateFingerprint = rev.semanticFingerprint
    BY <2>2 DEF NewRevision, NewStatus, NewFingerprint
  <2> HIDE DEF rev
  <2> QED
    BY <1>1, <2>1, <2>3 DEF FingerprintsAgree
<1> QED
  BY <1>2, <1>3, StepShape

(* Where nobody restores, a retrieval withholds only what the document     *)
(* lists: a candidate that names the current revision of an active memory  *)
(* of the scope, in force and untouched meanwhile, is in the answer.       *)
THEOREM HiddenByRestoreOnly ==
  ASSUME \A in \in Inputs : in.op # "restore"
  PROVE  ReadSpec => NothingHidden
<1>1. ASSUME Inv, ReadInv, FingerprintsAgree, [ReadNext]_readVars,
             NEW q \in Readers, Answers(q), NEW m \in Requested(q),
             heads[m] # None, heads[m] = readers[q].heads[m],
             heads[m].scope = readers[q].scope, heads[m].status = "active",
             heads[m].currentRevision = Claimed(q, m),
             NEW v \in RevisionRows(m, Claimed(q, m)), v.content \in InForce
      PROVE  readers'[q].decisions[m].decision = "ALLOW"
  <2>1. SecondLook(q, m) /\ ReaderSound(q)
    BY <1>1 DEF ReadInv, ReaderSound, Answers
  <2>2. v \in revisions /\ v.memoryId = m /\ v.revision = heads[m].currentRevision
    BY <1>1 DEF RevisionRows
  <2>3. v.status = "active" /\ v.candidateFingerprint = v.semanticFingerprint
    BY <1>1, <2>2 DEF Inv, RevisionChain, FingerprintsAgree
  <2>4. \A w \in revisions : RowOf(w, q, m) => w = v
    BY <1>1, <2>2 DEF Inv, RevisionChain, RowOf, RevisionRows
  <2>5. readers[q].decisions[m].decision = "ALLOW"
    BY <1>1, <2>1, <2>3, <2>4 DEF SecondLook, Named
  <2> QED
    BY <1>1, <2>5, AnswerShape
<1>2. Inv /\ ReadInv /\ FingerprintsAgree /\ [ReadNext]_readVars =>
        \A q \in Readers : Answers(q) =>
          \A m \in Requested(q) :
            /\ heads[m] # None /\ heads[m] = readers[q].heads[m]
            /\ heads[m].scope = readers[q].scope /\ heads[m].status = "active"
            /\ heads[m].currentRevision = Claimed(q, m)
            /\ \E v \in RevisionRows(m, Claimed(q, m)) : v.content \in InForce
            => readers'[q].decisions[m].decision = "ALLOW"
  BY <1>1
<1>3. ReadInit => FingerprintsAgree
  BY DEF ReadInit, Init, FingerprintsAgree
<1>4. Inv /\ ReadInv /\ FingerprintsAgree /\ [ReadNext]_readVars => FingerprintsAgree'
  BY ReadInvStep, FingerprintsAgreeStep
<1> QED
  BY <1>2, <1>3, <1>4, ReadInvariance, PTL DEF ReadSpec, NothingHidden
=============================================================================

--------------------------- MODULE OutboxDelivery ---------------------------
(***************************************************************************)
(* Materialization workers over the outbox of one scope: a worker claims   *)
(* the first due rows under a fresh token and a lease, delivers them one   *)
(* by one to a provider it cannot trust to answer, and settles each under  *)
(* the token.  Workers crash, leases run out under a slow batch, answers   *)
(* are lost, workers' clocks disagree, and commits go on appending rows.   *)
(*                                                                         *)
(* Time is kept as what is left of each timer (lease_expires_at,           *)
(* next_attempt_at, the delivery timeout), counted in ticks of a reference *)
(* clock; a worker whose clock is Skew[w] ticks fast sees an instant that  *)
(* is d ticks away as past when d <= Skew[w].                              *)
(***************************************************************************)
EXTENDS Integers, Sequences, FiniteSets, FiniteSetsExt

CONSTANTS
  Memories,   \* memory ids
  Providers,  \* provider names OmniHarness may resolve
  Workers,    \* worker processes
  WorkerId,   \* the worker id each process runs under; ids may be shared
  Tokens,     \* claim tokens, reused once nobody holds them
  NoOne,      \* no worker, token or provider
  Lease,      \* leaseMs
  Timeout,    \* deliveryTimeoutMs
  Retry,      \* retryDelayMs
  Skew,       \* how fast each worker's clock is
  MaxClaim,   \* the largest batch a worker asks for
  MaxRows,    \* bound on the rows commits append
  Punctual    \* TRUE: only waiting for a provider takes time

ASSUME TimersAssumption ==
  /\ Timeout \in Nat \ {0} /\ Retry \in Nat \ {0} /\ MaxClaim \in Nat \ {0}
  /\ Lease \in Nat /\ Timeout < Lease
  /\ Skew \in [Workers -> Nat] /\ MaxRows \in Nat /\ Punctual \in BOOLEAN
ASSUME TokensAssumption ==
  /\ NoOne \notin Tokens \cup Providers
  /\ \A w \in Workers : WorkerId[w] # NoOne

VARIABLES
  outbox,            \* memory_outbox of the scope, by commit_seq
  materializations,  \* provider_materializations, revision 0 where no row
  worker,            \* what each worker process is doing
  executed           \* deliveries a provider carried out (external)

vars == <<outbox, materializations, worker, executed>>

Rows == 1 .. Len(outbox)
Longest == Lease + Max({0} \cup {Skew[w] : w \in Workers})
LongestWait == Retry + Max({0} \cup {Skew[w] : w \in Workers})

Receipts == [provider : Providers \cup {NoOne}, current : BOOLEAN]
NoReceipt == [provider |-> NoOne, current |-> FALSE]
Idle == [phase |-> "idle", batch |-> {}, item |-> 0, token |-> NoOne,
         left |-> 0, live |-> FALSE, receipt |-> NoReceipt]

Init ==
  /\ outbox = << >>
  /\ materializations = [p \in Providers |-> [m \in Memories |->
                           [canonical |-> 0, materialized |-> 0, current |-> FALSE]]]
  /\ worker = [w \in Workers |-> Idle]
  /\ executed = {}

SetWorker(w, st) == worker' = [worker EXCEPT ![w] = st]

(* appendOutbox, from a canonical commit: the memory's next revision. *)
AppendOutbox(m) ==
  /\ Len(outbox) < MaxRows
  /\ outbox' = Append(outbox,
       [memory |-> m, revision |-> 1 + Cardinality({i \in Rows : outbox[i].memory = m}),
        status |-> "PENDING", claimedBy |-> NoOne, token |-> NoOne,
        lease |-> 0, wait |-> 0])
  /\ UNCHANGED <<materializations, worker, executed>>

(* Mutant: a later revision may overtake an unfinished earlier one. *)
EarlierDoneUnchecked(i) == TRUE

(* NOT EXISTS earlier: every earlier revision of the memory is settled. *)
EarlierDone(i) ==
  \A j \in Rows : outbox[j].memory = outbox[i].memory
                  /\ outbox[j].revision < outbox[i].revision => outbox[j].status = "DONE"

(* Mutant: a lease is never taken over. *)
ClaimableUnleased(w, i) ==
  /\ EarlierDone(i)
  /\ outbox[i].status \in {"PENDING", "FAILED"}
  /\ outbox[i].wait <= Skew[w]

(* A row is due when it is waiting for a first or a next attempt, or its   *)
(* lease has run out, by the clock of the worker that asks.                *)
Claimable(w, i) ==
  /\ EarlierDone(i)
  /\ \/ outbox[i].status \in {"PENDING", "FAILED"} /\ outbox[i].wait <= Skew[w]
     \/ outbox[i].status = "PROCESSING" /\ outbox[i].lease <= Skew[w]

(* ClaimTokenFactory.create: a token no row and no worker holds. *)
FreshToken ==
  CHOOSE t \in Tokens : /\ \A i \in Rows : outbox[i].token # t
                        /\ \A w \in Workers : worker[w].token # t

(* Rows a settlement has locked, which SKIP LOCKED passes over. *)
Settling == {worker[w].item : w \in {v \in Workers : worker[v].phase = "settling"}}

(* claimOutbox: the first due rows, oldest first, become this worker's     *)
(* under one token and one lease for the whole batch.                      *)
Claim(w) ==
  /\ worker[w].phase = "idle"
  /\ \E skipped \in SUBSET Settling, limit \in 1 .. MaxClaim :
       LET due == {i \in Rows \ skipped : Claimable(w, i)}
           batch == {i \in due : Cardinality({j \in due : j < i}) < limit}
       IN
       /\ batch # {}
       /\ outbox' = [i \in Rows |->
            IF i \in batch
            THEN [outbox[i] EXCEPT !.status = "PROCESSING", !.claimedBy = WorkerId[w],
                                   !.token = FreshToken, !.lease = Lease + Skew[w],
                                   !.wait = 0]
            ELSE outbox[i]]
       /\ SetWorker(w, [Idle EXCEPT !.phase = "claimed", !.batch = batch,
                                    !.token = FreshToken])
  /\ UNCHANGED <<materializations, executed>>

(* runOnce takes the next claimed row (RETURNING promises no order) and    *)
(* executeWithTimeout sends it; a worker that is not punctual may find the *)
(* timer gone off at any time.                                             *)
Deliver(w) ==
  /\ worker[w].phase = "claimed"
  /\ \E i \in worker[w].batch :
       SetWorker(w, [worker[w] EXCEPT !.phase = "delivering", !.item = i,
                                      !.left = IF Punctual THEN Timeout ELSE 0])
  /\ UNCHANGED <<outbox, materializations, executed>>

(* process, up to the clock reading in settleOutbox: whether the lease is  *)
(* still running is decided by settledAt, which is read here, before the   *)
(* store is called.                                                        *)
Receive(w, r) ==
  LET i == worker[w].item IN
  /\ worker[w].phase = "delivering"
  /\ SetWorker(w, [worker[w] EXCEPT !.phase = "settling", !.left = 0, !.receipt = r,
                                    !.live = outbox[i].lease > Skew[w]])
  /\ UNCHANGED <<outbox, materializations>>

(* A provider carried the event out and said so: SUCCESS, ALREADY_CURRENT  *)
(* or NOT_FOUND with a receipt that fits the event.                        *)
ReceiveCurrent(w) ==
  \E p \in Providers :
    /\ Receive(w, [provider |-> p, current |-> TRUE])
    /\ executed' = executed \cup {<<p, worker[w].item>>}

(* RETRYABLE_FAILURE from a known provider, or no usable receipt at all: a *)
(* timeout, a transport error, a receipt that does not fit, no eligible    *)
(* provider.  The provider may have carried the event out all the same.    *)
ReceiveFailure(w) ==
  \E p \in Providers \cup {NoOne} :
    /\ Receive(w, [provider |-> p, current |-> FALSE])
    /\ executed' \in {executed} \cup {executed \cup {<<q, worker[w].item>>} : q \in Providers}

(* The row is still claimed by this worker, under this token, and its      *)
(* lease had not run out at settledAt.                                     *)
ClaimHolds(w) ==
  LET row == outbox[worker[w].item] IN
  /\ row.status = "PROCESSING"
  /\ row.claimedBy = WorkerId[w]
  /\ row.token = worker[w].token
  /\ worker[w].live

(* The materialization of the receipt's provider is ahead of the row. *)
Backward(w) ==
  LET row == outbox[worker[w].item]
      p == worker[w].receipt.provider
  IN p # NoOne /\ materializations[p][row.memory].canonical > row.revision

(* Mutant: a failed attempt forgets what the provider holds. *)
UpsertForgets(old, row, current) ==
  [canonical |-> row.revision, materialized |-> IF current THEN row.revision ELSE 0,
   current |-> current]

(* Mutant: a failed attempt counts as materialized. *)
UpsertCounts(old, row, current) ==
  [canonical |-> row.revision, materialized |-> row.revision, current |-> current]

(* The upsert of provider_materializations; FAILED and UNAVAILABLE are     *)
(* both not current.                                                       *)
Upsert(old, row, current) ==
  [canonical |-> row.revision,
   materialized |-> IF current THEN row.revision ELSE old.materialized,
   current |-> current]

(* The outbox row after settlement: done, or failed and due again later. *)
SettledRow(row, w) ==
  [row EXCEPT !.status = IF worker[w].receipt.current THEN "DONE" ELSE "FAILED",
              !.claimedBy = NoOne, !.token = NoOne, !.lease = 0,
              !.wait = IF worker[w].receipt.current THEN 0 ELSE Retry + Skew[w]]

(* settleOutboxClaim commits: materialization and row in one transaction,  *)
(* and the worker goes on with its batch.                                  *)
Settle(w) ==
  LET st == worker[w]
      row == outbox[st.item]
      p == st.receipt.provider
  IN
  /\ st.phase = "settling"
  /\ ClaimHolds(w) /\ ~Backward(w)
  /\ outbox' = [outbox EXCEPT ![st.item] = SettledRow(row, w)]
  /\ materializations' =
       IF p = NoOne THEN materializations
       ELSE [materializations EXCEPT ![p][row.memory] =
               Upsert(@, row, st.receipt.current)]
  /\ SetWorker(w, IF st.batch = {st.item} THEN Idle
                  ELSE [Idle EXCEPT !.phase = "claimed", !.token = st.token,
                                    !.batch = st.batch \ {st.item}])
  /\ UNCHANGED executed

(* OutboxClaimConflictError, or the rollback of a step backward: runOnce   *)
(* throws and the rest of the batch waits for its lease to run out.        *)
SettleRefused(w) ==
  /\ worker[w].phase = "settling"
  /\ ~ClaimHolds(w) \/ Backward(w)
  /\ SetWorker(w, Idle)
  /\ UNCHANGED <<outbox, materializations, executed>>

(* The worker process dies, or the hydration of its batch fails. *)
Crash(w) ==
  /\ worker[w].phase # "idle"
  /\ SetWorker(w, Idle)
  /\ UNCHANGED <<outbox, materializations, executed>>

Down(n) == IF n = 0 THEN 0 ELSE n - 1

(* One tick.  A punctual worker takes no time but to wait for a provider,  *)
(* and for that at most Timeout: its timer aborts the delivery.            *)
Tick ==
  /\ Punctual => \A w \in Workers :
       worker[w].phase = "idle" \/ (worker[w].phase = "delivering" /\ worker[w].left > 0)
  /\ outbox' = [i \in Rows |-> [outbox[i] EXCEPT !.lease = Down(@), !.wait = Down(@)]]
  /\ worker' = [w \in Workers |-> [worker[w] EXCEPT !.left = Down(@)]]
  /\ UNCHANGED <<materializations, executed>>

Next ==
  \/ \E m \in Memories : AppendOutbox(m)
  \/ \E w \in Workers : \/ Claim(w) \/ Deliver(w) \/ ReceiveCurrent(w)
                        \/ ReceiveFailure(w) \/ Settle(w) \/ SettleRefused(w) \/ Crash(w)
  \/ Tick

Spec == Init /\ [][Next]_vars

(* Workers keep polling, time passes, and no row is so unlucky that every  *)
(* one of its deliveries is cut short by a crash or fails at the provider. *)
FairSpec ==
  /\ Spec
  /\ WF_vars(Tick)
  /\ \A w \in Workers : WF_vars(Claim(w)) /\ WF_vars(Settle(w)) /\ WF_vars(SettleRefused(w))
  /\ \A i \in 1 .. MaxRows :
       /\ SF_vars(\E w \in Workers : Deliver(w) /\ worker'[w].item = i)
       /\ SF_vars(\E w \in Workers : ReceiveCurrent(w) /\ worker[w].item = i)
       /\ SF_vars(\E w \in Workers : Settle(w) /\ worker[w].item = i
                                      /\ worker[w].receipt.current)

(***************************************************************************)
(* Properties                                                              *)
(***************************************************************************)
(* Types, and the memory_outbox_claim_lease_contract of the schema: a row  *)
(* has a claim and a lease exactly while it is PROCESSING.                 *)
TypeOK ==
  /\ \A i \in Rows :
       /\ outbox[i].memory \in Memories /\ outbox[i].revision \in 1 .. MaxRows
       /\ outbox[i].status \in {"PENDING", "PROCESSING", "FAILED", "DONE"}
       /\ outbox[i].lease \in 0 .. Longest /\ outbox[i].wait \in 0 .. LongestWait
       /\ IF outbox[i].status = "PROCESSING"
          THEN outbox[i].claimedBy # NoOne /\ outbox[i].token \in Tokens
          ELSE outbox[i].claimedBy = NoOne /\ outbox[i].token = NoOne
               /\ outbox[i].lease = 0
  /\ \A p \in Providers, m \in Memories :
       materializations[p][m] \in
         [canonical : 0 .. MaxRows, materialized : 0 .. MaxRows, current : BOOLEAN]
  /\ \A w \in Workers :
       /\ worker[w].phase \in {"idle", "claimed", "delivering", "settling"}
       /\ worker[w].batch \subseteq Rows
       /\ worker[w].phase \in {"delivering", "settling"} => worker[w].item \in worker[w].batch
       /\ worker[w].token \in Tokens \cup {NoOne}
       /\ worker[w].receipt \in Receipts
  /\ executed \subseteq Providers \X Rows

(* Provider effects follow revision order: nothing is attempted for a      *)
(* revision while an earlier one of the same memory is not settled as      *)
(* done, whichever workers, retries and takeovers were involved.           *)
RevisionOrder ==
  \A i, j \in Rows :
    /\ outbox[i].memory = outbox[j].memory
    /\ outbox[i].revision < outbox[j].revision
    /\ outbox[j].status # "PENDING"
    => outbox[i].status = "DONE"

(* provider_materializations tells the truth: materialized_revision is a   *)
(* revision that provider carried out, CURRENT means it is the latest one  *)
(* attempted there, and a row is DONE only if some provider carried it out *)
(* and is recorded at that revision or a later one.                        *)
MaterializationTruth ==
  /\ \A p \in Providers, m \in Memories :
       LET mat == materializations[p][m] IN
       /\ mat.current => mat.materialized = mat.canonical
       /\ mat.materialized > 0 =>
            \E i \in Rows : /\ outbox[i].memory = m /\ outbox[i].revision = mat.materialized
                            /\ outbox[i].status = "DONE" /\ <<p, i>> \in executed
  /\ \A i \in Rows : outbox[i].status = "DONE" =>
       \E p \in Providers :
         /\ <<p, i>> \in executed
         /\ materializations[p][outbox[i].memory].materialized >= outbox[i].revision

(* Neither revision of a materialization ever moves backward, and a row    *)
(* that is DONE stays DONE.                                                *)
NoRegress ==
  [][/\ \A p \in Providers, m \in Memories :
          /\ materializations'[p][m].canonical >= materializations[p][m].canonical
          /\ materializations'[p][m].materialized >= materializations[p][m].materialized
     /\ \A i \in Rows : outbox[i].status = "DONE" => outbox'[i].status = "DONE"]_vars

(* Every row is settled as DONE in the end, although workers crash in the  *)
(* middle of a batch and deliveries fail and are retried.                  *)
EventuallyDone ==
  \A i \in 1 .. MaxRows : (i \in Rows) ~> (i \in Rows /\ outbox[i].status = "DONE")
=============================================================================

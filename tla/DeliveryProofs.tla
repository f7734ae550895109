--------------------------- MODULE DeliveryProofs ---------------------------
(***************************************************************************)
(* How revisions leave the store.  Safety of OutboxDelivery for any        *)
(* memories, providers and workers, any clocks, timers and batch sizes,    *)
(* and an outbox of any length; nothing is assumed of tokens: what is      *)
(* proved here would hold if two claims were given the same one.  Safety   *)
(* of DeviceSync for every number of devices and sessions, any batch size  *)
(* and a feed of any length.                                               *)
(***************************************************************************)
EXTENDS OutboxDelivery, DeviceSync, FiniteSetTheorems, SequenceTheorems, TLAPS

-----------------------------------------------------------------------------
(* The outbox *)

RowFields == {"memory", "revision", "status", "claimedBy", "token", "lease", "wait"}
WorkerFields == {"phase", "batch", "item", "token", "left", "live", "receipt"}

RowSound(row) ==
  /\ row = [f \in RowFields |-> row[f]]
  /\ row.memory \in Memories /\ row.revision \in Nat \ {0}
  /\ row.status \in {"PENDING", "PROCESSING", "FAILED", "DONE"}

RowsOf(log, m) == {i \in 1 .. Len(log) : log[i].memory = m}

(* Rows have their shape, and a memory has no more revisions than rows: a  *)
(* row that is appended has a higher one than all the memory's rows.       *)
OutboxSound ==
  /\ outbox = [i \in Rows |-> outbox[i]] /\ Len(outbox) \in Nat
  /\ \A i \in Rows : RowSound(outbox[i])
  /\ \A i \in Rows : outbox[i].revision <= Cardinality(RowsOf(outbox, outbox[i].memory))

(* A worker works on rows there are, and goes to settle as current only    *)
(* what the provider it names has carried out.                             *)
WorkerSound(n, done, st) ==
  /\ st = [f \in WorkerFields |-> st[f]]
  /\ st.batch \subseteq 1 .. n
  /\ st.phase \in {"delivering", "settling"} => st.item \in st.batch
  /\ st.phase = "settling" =>
       /\ st.receipt \in Receipts
       /\ st.receipt.current =>
            st.receipt.provider \in Providers /\ <<st.receipt.provider, st.item>> \in done

WorkersSound ==
  /\ worker = [w \in Workers |-> worker[w]]
  /\ \A w \in Workers : WorkerSound(Len(outbox), executed, worker[w])

(* A provider never holds a revision past the one last attempted there. *)
MaterializationsSound ==
  /\ materializations \in [Providers -> [Memories ->
       [canonical : Nat, materialized : Nat, current : BOOLEAN]]]
  /\ \A p \in Providers, m \in Memories :
       materializations[p][m].materialized <= materializations[p][m].canonical

(* The inductive invariant. *)
DeliveryInv ==
  /\ OutboxSound /\ WorkersSound /\ MaterializationsSound
  /\ RevisionOrder /\ MaterializationTruth

(* What a step may not do to a row: it keeps its place, memory and         *)
(* revision, and stays DONE.                                               *)
RowsKept ==
  /\ Len(outbox) <= Len(outbox')
  /\ \A i \in Rows :
       /\ outbox'[i].memory = outbox[i].memory /\ outbox'[i].revision = outbox[i].revision
       /\ outbox[i].status = "DONE" => outbox'[i].status = "DONE"

MaterializationsKept ==
  \A p \in Providers, m \in Memories :
    /\ materializations'[p][m].canonical >= materializations[p][m].canonical
    /\ materializations'[p][m].materialized >= materializations[p][m].materialized

-----------------------------------------------------------------------------
(* A worker at rest holds no rows. *)
LEMMA IdleSound ==
  ASSUME NEW n \in Nat, NEW done PROVE WorkerSound(n, done, Idle)
<1>1. Idle = [f \in WorkerFields |-> Idle[f]]
  BY DEF Idle, WorkerFields
<1>2. Idle.batch = {} /\ Idle.phase = "idle"
  BY DEF Idle
<1> QED
  BY <1>1, <1>2 DEF WorkerSound

(* Nothing was appended, claimed or materialized yet. *)
LEMMA InitSound == Init => DeliveryInv
<1> SUFFICES ASSUME Init PROVE DeliveryInv
  OBVIOUS
<1>1. Rows = {} /\ Len(outbox) = 0
  BY DEF Init, Rows
<1>2. OutboxSound
  BY <1>1 DEF Init, OutboxSound
<1>3. WorkersSound
  BY <1>1, IdleSound DEF Init, WorkersSound
<1>4. materializations \in [Providers -> [Memories ->
        [canonical : Nat, materialized : Nat, current : BOOLEAN]]]
  BY DEF Init
<1>5. \A p \in Providers, m \in Memories : materializations[p][m] =
        [canonical |-> 0, materialized |-> 0, current |-> FALSE]
  BY DEF Init
<1>6. MaterializationsSound
  BY <1>4, <1>5 DEF MaterializationsSound
<1>7. RevisionOrder
  BY <1>1 DEF RevisionOrder
<1>8. MaterializationTruth
  BY <1>1, <1>5 DEF MaterializationTruth
<1> QED
  BY <1>2, <1>3, <1>6, <1>7, <1>8 DEF DeliveryInv

(* The rows of a memory are finitely many. *)
LEMMA RowsFinite ==
  ASSUME NEW log, Len(log) \in Nat, NEW m
  PROVE  IsFiniteSet(RowsOf(log, m)) /\ Cardinality(RowsOf(log, m)) \in Nat
<1>1. IsFiniteSet(1 .. Len(log))
  BY FS_Interval
<1>2. RowsOf(log, m) \in SUBSET (1 .. Len(log))
  BY DEF RowsOf
<1>3. IsFiniteSet(RowsOf(log, m))
  BY <1>1, <1>2, FS_Subset
<1> QED
  BY <1>3, FS_CardinalityType

(* Truth about materializations is kept by a step that neither touches     *)
(* them nor takes anything away.                                           *)
LEMMA TruthKept ==
  ASSUME OutboxSound, MaterializationTruth, RowsKept, UNCHANGED materializations,
         executed \subseteq executed',
         \A i \in 1 .. Len(outbox') : outbox'[i].status = "DONE" =>
           i \in Rows /\ outbox[i].status = "DONE"
  PROVE  MaterializationTruth'
<1>1. Len(outbox) \in Nat
  BY DEF OutboxSound
<1>2. ASSUME NEW p \in Providers, NEW m \in Memories,
             materializations[p][m].materialized > 0
      PROVE  \E i \in Rows' :
               /\ outbox'[i].memory = m /\ outbox'[i].revision = materializations[p][m].materialized
               /\ outbox'[i].status = "DONE" /\ <<p, i>> \in executed'
  <2>1. PICK i \in Rows :
          /\ outbox[i].memory = m /\ outbox[i].revision = materializations[p][m].materialized
          /\ outbox[i].status = "DONE" /\ <<p, i>> \in executed
    BY <1>2 DEF MaterializationTruth
  <2>2. i \in Rows'
    BY <1>1 DEF Rows, RowsKept
  <2> QED
    BY <2>1, <2>2 DEF RowsKept
<1>3. ASSUME NEW i \in Rows', outbox'[i].status = "DONE"
      PROVE  \E p \in Providers :
               /\ <<p, i>> \in executed'
               /\ materializations[p][outbox'[i].memory].materialized >= outbox'[i].revision
  <2>1. i \in Rows /\ outbox[i].status = "DONE"
    BY <1>3 DEF Rows
  <2>2. PICK p \in Providers :
          /\ <<p, i>> \in executed
          /\ materializations[p][outbox[i].memory].materialized >= outbox[i].revision
    BY <2>1 DEF MaterializationTruth
  <2> QED
    BY <2>1, <2>2 DEF RowsKept
<1>4. \A p \in Providers, m \in Memories : materializations[p][m].current =>
        materializations[p][m].materialized = materializations[p][m].canonical
  BY DEF MaterializationTruth
<1> QED
  BY <1>2, <1>3, <1>4 DEF MaterializationTruth

(* A worker that is sound stays so while rows and effects are only added. *)
LEMMA WorkerKept ==
  ASSUME NEW n \in Nat, NEW m \in Nat, n <= m, NEW done, NEW more, done \subseteq more,
         NEW st, WorkerSound(n, done, st)
  PROVE  WorkerSound(m, more, st)
BY DEF WorkerSound

(* The step of one worker that leaves the tables alone. *)
LEMMA WorkerStep ==
  ASSUME DeliveryInv, NEW w \in Workers, NEW st, SetWorker(w, st),
         UNCHANGED <<outbox, materializations>>, executed \subseteq executed',
         WorkerSound(Len(outbox), executed', st)
  PROVE  DeliveryInv' /\ RowsKept /\ MaterializationsKept
<1>1. OutboxSound' /\ MaterializationsSound' /\ RevisionOrder' /\ RowsKept
  BY DEF DeliveryInv, OutboxSound, MaterializationsSound, RevisionOrder, RowsKept, Rows
<1>2. MaterializationTruth'
  BY <1>1, TruthKept DEF DeliveryInv, Rows
<1>3. Len(outbox) \in Nat
  BY DEF DeliveryInv, OutboxSound
<1>4. WorkersSound'
  BY <1>3, WorkerKept DEF DeliveryInv, WorkersSound, SetWorker
<1>5. MaterializationsKept
  BY DEF DeliveryInv, MaterializationsSound, MaterializationsKept
<1> QED
  BY <1>1, <1>2, <1>4, <1>5 DEF DeliveryInv
(* A commit appends the next revision of a memory, which is PENDING. *)
LEMMA AppendStep ==
  ASSUME DeliveryInv, NEW m \in Memories, AppendOutbox(m)
  PROVE  DeliveryInv' /\ RowsKept /\ MaterializationsKept
<1> DEFINE n == Len(outbox)
           count == Cardinality(RowsOf(outbox, m))
           row == [memory |-> m, revision |-> 1 + count, status |-> "PENDING",
                   claimedBy |-> NoOne, token |-> NoOne, lease |-> 0, wait |-> 0]
<1>1. /\ n \in Nat /\ outbox = [i \in 1 .. n |-> outbox[i]]
      /\ \A i \in 1 .. n : RowSound(outbox[i])
                          /\ outbox[i].revision <= Cardinality(RowsOf(outbox, outbox[i].memory))
  BY DEF DeliveryInv, OutboxSound, Rows
<1>2. outbox' = Append(outbox, row) /\ UNCHANGED <<materializations, worker, executed>>
  BY DEF AppendOutbox, RowsOf, Rows
<1>3. count \in Nat
  BY <1>1, RowsFinite
<1>4. RowSound(row) /\ row.memory = m /\ row.revision = 1 + count /\ row.status = "PENDING"
  BY <1>3 DEF RowSound, RowFields
<1> HIDE DEF row
<1>5. /\ Len(outbox') = n + 1 /\ outbox'[n + 1] = row
      /\ \A i \in 1 .. n : outbox'[i] = outbox[i]
      /\ outbox' = [i \in 1 .. n + 1 |-> outbox'[i]]
  <2>1. outbox \in Seq({outbox[i] : i \in 1 .. n})
    BY <1>1
  <2>2. Append(outbox, row) \in Seq({outbox[i] : i \in 1 .. n} \cup {row})
    BY <2>1
  <2>3. /\ Len(Append(outbox, row)) = n + 1 /\ Append(outbox, row)[n + 1] = row
        /\ \A i \in 1 .. n : Append(outbox, row)[i] = outbox[i]
    BY <2>1
  <2>4. DOMAIN Append(outbox, row) = 1 .. n + 1
    BY <2>2, <2>3
  <2>5. Append(outbox, row) \in [1 .. n + 1 -> {outbox[i] : i \in 1 .. n} \cup {row}]
    BY <2>2, <2>3, LenProperties
  <2>6. Append(outbox, row) = [i \in 1 .. n + 1 |-> Append(outbox, row)[i]]
    BY <2>5
  <2> QED
    BY <1>2, <2>3, <2>6
<1>6. ASSUME NEW k \in Memories
      PROVE  Cardinality(RowsOf(outbox', k)) =
               IF k = m THEN Cardinality(RowsOf(outbox, k)) + 1
               ELSE Cardinality(RowsOf(outbox, k))
  <2>1. RowsOf(outbox', k) = IF k = m THEN RowsOf(outbox, k) \cup {n + 1} ELSE RowsOf(outbox, k)
    BY <1>1, <1>4, <1>5 DEF RowsOf
  <2>2. n + 1 \notin RowsOf(outbox, k)
    BY <1>1 DEF RowsOf
  <2>3. IsFiniteSet(RowsOf(outbox, k))
    BY <1>1, RowsFinite
  <2> QED
    BY <2>1, <2>2, <2>3, FS_AddElement
<1>7. OutboxSound'
  <2>1. \A i \in 1 .. n + 1 : RowSound(outbox'[i])
    BY <1>1, <1>4, <1>5
  <2>2. ASSUME NEW i \in 1 .. n + 1
        PROVE  outbox'[i].revision <= Cardinality(RowsOf(outbox', outbox'[i].memory))
    <3>1. CASE i = n + 1
      BY <1>3, <1>4, <1>5, <1>6, <3>1
    <3>2. CASE i \in 1 .. n
      <4>1. outbox'[i] = outbox[i] /\ outbox[i].memory \in Memories /\ outbox[i].revision \in Nat
        BY <1>1, <1>5, <3>2 DEF RowSound
      <4>2. Cardinality(RowsOf(outbox, outbox[i].memory)) \in Nat
        BY <1>1, RowsFinite
      <4> QED
        BY <1>1, <1>6, <3>2, <4>1, <4>2
    <3> QED
      BY <1>1, <3>1, <3>2
  <2> QED
    BY <1>1, <1>5, <2>1, <2>2 DEF OutboxSound, Rows
<1>8. RowsKept
  BY <1>1, <1>5 DEF RowsKept, Rows
<1>9. RevisionOrder'
  <2> SUFFICES ASSUME NEW i \in 1 .. n + 1, NEW j \in 1 .. n + 1,
                      outbox'[i].memory = outbox'[j].memory,
                      outbox'[i].revision < outbox'[j].revision, outbox'[j].status # "PENDING"
               PROVE  outbox'[i].status = "DONE"
    BY <1>5 DEF RevisionOrder, Rows
  <2>1. j \in 1 .. n
    BY <1>1, <1>4, <1>5
  <2>2. i \in 1 .. n
    <3>1. CASE i = n + 1
      <4>1. outbox[j].memory = m /\ outbox[j].revision > 1 + count
        BY <1>4, <1>5, <2>1, <3>1
      <4>2. outbox[j].revision <= count /\ outbox[j].revision \in Nat
        BY <1>1, <2>1, <4>1 DEF RowSound
      <4> QED
        BY <1>3, <4>1, <4>2
    <3> QED
      BY <1>1, <3>1
  <2> QED
    BY <1>5, <2>1, <2>2 DEF DeliveryInv, RevisionOrder, Rows
<1>10. MaterializationTruth'
  <2>1. \A i \in 1 .. Len(outbox') : outbox'[i].status = "DONE" =>
          i \in Rows /\ outbox[i].status = "DONE"
    BY <1>1, <1>4, <1>5 DEF Rows
  <2> QED
    BY <1>2, <1>8, <2>1, TruthKept DEF DeliveryInv
<1>11. WorkersSound'
  BY <1>1, <1>2, <1>5, WorkerKept DEF DeliveryInv, WorkersSound
<1>12. MaterializationsSound' /\ MaterializationsKept
  BY <1>2 DEF DeliveryInv, MaterializationsSound, MaterializationsKept
<1> QED
  BY <1>7, <1>8, <1>9, <1>10, <1>11, <1>12 DEF DeliveryInv

(* Rows are replaced one for one by rows of the same memory and revision. *)
LEMMA RowsReplaced ==
  ASSUME OutboxSound, outbox' = [i \in Rows |-> outbox'[i]],
         \A i \in Rows : /\ RowSound(outbox'[i])
                         /\ outbox'[i].memory = outbox[i].memory
                         /\ outbox'[i].revision = outbox[i].revision
  PROVE  OutboxSound' /\ Len(outbox') = Len(outbox) /\ Rows' = Rows
<1>1. Len(outbox) \in Nat
  BY DEF OutboxSound
<1>2. Len(outbox') = Len(outbox) /\ Rows' = Rows
  BY <1>1 DEF Rows
<1>3. \A m : RowsOf(outbox', m) = RowsOf(outbox, m)
  BY <1>2 DEF RowsOf, Rows
<1> QED
  BY <1>1, <1>2, <1>3 DEF OutboxSound, Rows

(* A claim takes rows whose earlier revisions are done. *)
LEMMA ClaimStep ==
  ASSUME DeliveryInv, NEW w \in Workers, Claim(w)
  PROVE  DeliveryInv' /\ RowsKept /\ MaterializationsKept
<1>0. PICK t : t = FreshToken
  OBVIOUS
<1>1. PICK batch \in SUBSET Rows :
        /\ \A i \in batch : Claimable(w, i)
        /\ outbox' = [i \in Rows |->
             IF i \in batch
             THEN [outbox[i] EXCEPT !.status = "PROCESSING", !.claimedBy = WorkerId[w],
                                    !.token = t, !.lease = Lease + Skew[w], !.wait = 0]
             ELSE outbox[i]]
        /\ SetWorker(w, [Idle EXCEPT !.phase = "claimed", !.batch = batch, !.token = t])
        /\ UNCHANGED <<materializations, executed>>
  BY <1>0 DEF Claim
<1>2. /\ OutboxSound /\ Len(outbox) \in Nat
      /\ \A i \in Rows : RowSound(outbox[i])
  BY DEF DeliveryInv, OutboxSound
<1>3. ASSUME NEW i \in Rows
      PROVE  /\ RowSound(outbox'[i])
             /\ outbox'[i].memory = outbox[i].memory /\ outbox'[i].revision = outbox[i].revision
             /\ outbox'[i].status = IF i \in batch THEN "PROCESSING" ELSE outbox[i].status
  <2>1. PICK old, row : old = outbox[i] /\ row = outbox'[i] /\ RowSound(old)
    BY ONLY <1>2, <1>3
  <2>2. row = IF i \in batch
              THEN [old EXCEPT !.status = "PROCESSING", !.claimedBy = WorkerId[w],
                               !.token = t, !.lease = Lease + Skew[w], !.wait = 0]
              ELSE old
    BY ONLY <1>1, <1>3, <2>1
  <2>3. /\ RowSound(row) /\ row.memory = old.memory /\ row.revision = old.revision
        /\ row.status = IF i \in batch THEN "PROCESSING" ELSE old.status
    <3>1. CASE i \in batch
      BY ONLY <2>1, <2>2, <3>1 DEF RowSound, RowFields
    <3>2. CASE i \notin batch
      BY ONLY <2>1, <2>2, <3>2
    <3> QED
      BY ONLY <3>1, <3>2
  <2> QED
    BY ONLY <2>1, <2>3
<1>4. \A i \in batch : EarlierDone(i) /\ outbox[i].status # "DONE"
  BY <1>1 DEF Claimable
<1>5. OutboxSound' /\ Len(outbox') = Len(outbox) /\ Rows' = Rows
  BY <1>1, <1>2, <1>3, RowsReplaced
<1>6. RowsKept
  BY <1>2, <1>3, <1>4, <1>5 DEF RowsKept
<1>7. RevisionOrder'
  <2> SUFFICES ASSUME NEW i \in Rows, NEW j \in Rows,
                      outbox[i].memory = outbox[j].memory,
                      outbox[i].revision < outbox[j].revision,
                      j \in batch \/ outbox[j].status # "PENDING"
               PROVE  outbox[i].status = "DONE" /\ i \notin batch
    BY <1>3, <1>5 DEF RevisionOrder
  <2>1. outbox[i].status = "DONE"
    BY <1>4 DEF EarlierDone, DeliveryInv, RevisionOrder
  <2> QED
    BY <1>4, <2>1
<1>8. MaterializationTruth'
  <2>1. \A i \in 1 .. Len(outbox') : outbox'[i].status = "DONE" =>
          i \in Rows /\ outbox[i].status = "DONE"
    BY <1>3, <1>5 DEF Rows
  <2> QED
    BY <1>1, <1>6, <2>1, TruthKept DEF DeliveryInv
<1>9. WorkersSound'
  <2> DEFINE st == [Idle EXCEPT !.phase = "claimed", !.batch = batch, !.token = t]
  <2>1. Idle = [f \in WorkerFields |-> Idle[f]]
    BY <1>2, IdleSound DEF WorkerSound
  <2>2. WorkerSound(Len(outbox), executed, st)
    BY <1>1, <2>1 DEF WorkerSound, WorkerFields, Rows
  <2> HIDE DEF st
  <2> QED
    BY <1>1, <1>5, <2>2 DEF DeliveryInv, WorkersSound, SetWorker, st
<1>10. MaterializationsSound' /\ MaterializationsKept
  <2>1. materializations' = materializations /\ MaterializationsSound
    BY <1>1 DEF DeliveryInv
  <2> QED
    BY <2>1 DEF MaterializationsSound, MaterializationsKept
<1> QED
  BY <1>5, <1>6, <1>7, <1>8, <1>9, <1>10 DEF DeliveryInv

(* A settlement moves one PROCESSING row, and with it the materialization  *)
(* of the provider that answered, never backward.                          *)
LEMMA SettleStep ==
  ASSUME DeliveryInv, NEW w \in Workers, Settle(w)
  PROVE  DeliveryInv' /\ RowsKept /\ MaterializationsKept
<1> DEFINE st == worker[w]
           k == st.item
           row == outbox[k]
           p == st.receipt.provider
           new == SettledRow(row, w)
           rest == IF st.batch = {k} THEN Idle
                   ELSE [Idle EXCEPT !.phase = "claimed", !.token = st.token,
                                     !.batch = st.batch \ {k}]
<1>1. /\ st.phase = "settling" /\ ClaimHolds(w) /\ ~Backward(w)
      /\ outbox' = [outbox EXCEPT ![k] = new]
      /\ materializations' =
           IF p = NoOne THEN materializations
           ELSE [materializations EXCEPT ![p][row.memory] =
                   Upsert(materializations[p][row.memory], row, st.receipt.current)]
      /\ SetWorker(w, rest) /\ UNCHANGED executed
  BY DEF Settle
<1>2. /\ OutboxSound /\ Len(outbox) \in Nat /\ outbox = [i \in Rows |-> outbox[i]]
      /\ \A i \in Rows : RowSound(outbox[i])
  BY DEF DeliveryInv, OutboxSound
<1>3. /\ WorkerSound(Len(outbox), executed, st)
      /\ k \in Rows /\ st.receipt \in Receipts
      /\ st.receipt.current => p \in Providers /\ <<p, k>> \in executed
  BY <1>1 DEF DeliveryInv, WorkersSound, WorkerSound, Rows
<1>4. row.status = "PROCESSING"
  BY <1>1 DEF ClaimHolds
<1>5. /\ RowSound(new) /\ new.memory = row.memory /\ new.revision = row.revision
      /\ new.status = IF st.receipt.current THEN "DONE" ELSE "FAILED"
  <2> DEFINE status == IF st.receipt.current THEN "DONE" ELSE "FAILED"
             wait == IF st.receipt.current THEN 0 ELSE Retry + Skew[w]
  <2>1. new = [row EXCEPT !.status = status, !.claimedBy = NoOne, !.token = NoOne, !.lease = 0,
                          !.wait = wait]
    BY DEF SettledRow
  <2>2. status \in {"PENDING", "PROCESSING", "FAILED", "DONE"} /\ RowSound(row)
    BY <1>2, <1>3
  <2> HIDE DEF new, wait, status, row
  <2>3. /\ RowSound(new) /\ new.status = status
        /\ new.memory = row.memory /\ new.revision = row.revision
    BY <2>1, <2>2 DEF RowSound, RowFields
  <2> QED
    BY <2>3 DEF status
<1> HIDE DEF new, rest
<1>6. ASSUME NEW i \in Rows
      PROVE  /\ RowSound(outbox'[i])
             /\ outbox'[i].memory = outbox[i].memory /\ outbox'[i].revision = outbox[i].revision
             /\ outbox'[i].status = IF i # k THEN outbox[i].status
                                    ELSE IF st.receipt.current THEN "DONE" ELSE "FAILED"
  BY <1>1, <1>2, <1>5
<1>7. OutboxSound' /\ Len(outbox') = Len(outbox) /\ Rows' = Rows
  <2>1. outbox' = [i \in Rows |-> outbox'[i]]
    BY <1>1, <1>2
  <2> QED
    BY <1>2, <1>6, <2>1, RowsReplaced
<1>8. RowsKept
  BY <1>2, <1>4, <1>6, <1>7 DEF RowsKept
<1>9. RevisionOrder'
  <2> SUFFICES ASSUME NEW i \in Rows, NEW j \in Rows,
                      outbox[i].memory = outbox[j].memory,
                      outbox[i].revision < outbox[j].revision,
                      outbox'[j].status # "PENDING"
               PROVE  outbox'[i].status = "DONE"
    BY <1>6, <1>7 DEF RevisionOrder
  <2>1. outbox[j].status # "PENDING"
    BY <1>4, <1>6
  <2>2. outbox[i].status = "DONE"
    BY <2>1 DEF DeliveryInv, RevisionOrder
  <2> QED
    BY <1>4, <1>6, <2>2
<1>10. WorkersSound'
  <2>1. Idle = [f \in WorkerFields |-> Idle[f]]
    BY <1>2, IdleSound DEF WorkerSound
  <2>2. WorkerSound(Len(outbox), executed, rest)
    <3>1. CASE st.batch = {k}
      BY <1>2, <3>1, IdleSound DEF rest
    <3>2. CASE st.batch # {k}
      BY <1>3, <2>1, <3>2 DEF WorkerSound, WorkerFields, rest
    <3> QED
      BY <3>1, <3>2
  <2> QED
    BY <1>1, <1>7, <2>2 DEF DeliveryInv, WorkersSound, SetWorker
<1>11. /\ MaterializationsSound
       /\ row.memory \in Memories /\ row.revision \in Nat \ {0}
       /\ p \in Providers \cup {NoOne} /\ st.receipt.current \in BOOLEAN
  BY <1>2, <1>3 DEF DeliveryInv, RowSound, Receipts
<1> DEFINE old == materializations[p][row.memory]
           upsert == Upsert(old, row, st.receipt.current)
<1>12. CASE p = NoOne
  <2>1. materializations' = materializations /\ ~st.receipt.current
    BY <1>1, <1>3, <1>12, TokensAssumption
  <2>2. MaterializationsSound' /\ MaterializationsKept
    BY <1>11, <2>1 DEF MaterializationsSound, MaterializationsKept
  <2>3. MaterializationTruth'
    <3>1. \A i \in 1 .. Len(outbox') : outbox'[i].status = "DONE" =>
            i \in Rows /\ outbox[i].status = "DONE"
      BY <1>6, <1>7, <2>1 DEF Rows
    <3> QED
      BY <1>1, <1>8, <2>1, <3>1, TruthKept DEF DeliveryInv
  <2> QED
    BY <1>7, <1>8, <1>9, <1>10, <2>2, <2>3 DEF DeliveryInv
<1>13. CASE p # NoOne
  <2>1. /\ p \in Providers
        /\ old \in [canonical : Nat, materialized : Nat, current : BOOLEAN]
        /\ old.materialized <= old.canonical
    BY <1>11, <1>13 DEF MaterializationsSound
  <2>2. old.canonical <= row.revision
    <3>1. ~(old.canonical > row.revision)
      BY <1>1, <1>13 DEF Backward
    <3>2. old.canonical \in Nat /\ row.revision \in Nat
      BY <1>11, <2>1
    <3> HIDE DEF old, row
    <3> QED
      BY <3>1, <3>2
  <2>3. /\ upsert \in [canonical : Nat, materialized : Nat, current : BOOLEAN]
        /\ upsert.canonical = row.revision /\ upsert.current = st.receipt.current
        /\ upsert.materialized = IF st.receipt.current THEN row.revision ELSE old.materialized
    <3>1. CASE st.receipt.current = TRUE
      BY <1>11, <2>1, <3>1 DEF Upsert
    <3>2. CASE st.receipt.current = FALSE
      BY <1>11, <2>1, <3>2 DEF Upsert
    <3> HIDE DEF upsert
    <3> QED
      BY <1>11, <3>1, <3>2
  <2>4. /\ upsert.canonical >= old.canonical /\ upsert.materialized >= old.materialized
        /\ upsert.materialized <= upsert.canonical
    <3> HIDE DEF upsert, old
    <3> QED
      BY <1>11, <2>1, <2>2, <2>3
  <2> HIDE DEF upsert
  <2>5. /\ materializations' \in [Providers -> [Memories ->
             [canonical : Nat, materialized : Nat, current : BOOLEAN]]]
        /\ \A q \in Providers, m \in Memories : materializations'[q][m] =
             IF q = p /\ m = row.memory THEN upsert ELSE materializations[q][m]
    <3>1. materializations' = [materializations EXCEPT ![p][row.memory] = upsert]
      BY <1>1, <1>13 DEF upsert
    <3> QED
      BY <1>11, <2>1, <2>3, <3>1 DEF MaterializationsSound
  <2>6. MaterializationsSound' /\ MaterializationsKept
    <3>1. \A q \in Providers, m \in Memories :
            /\ materializations[q][m].canonical \in Nat /\ materializations[q][m].materialized \in Nat
            /\ materializations[q][m].materialized <= materializations[q][m].canonical
      BY <1>11 DEF MaterializationsSound
    <3>2. ASSUME NEW q \in Providers, NEW m \in Memories
          PROVE  /\ materializations'[q][m].materialized <= materializations'[q][m].canonical
                 /\ materializations'[q][m].canonical >= materializations[q][m].canonical
                 /\ materializations'[q][m].materialized >= materializations[q][m].materialized
      <4>1. CASE q = p /\ m = row.memory
        <5>1. materializations'[q][m] = upsert /\ materializations[q][m] = old
          BY <2>5, <4>1
        <5> HIDE DEF old
        <5> QED
          BY <2>4, <5>1
      <4>2. CASE ~(q = p /\ m = row.memory)
        <5>1. materializations'[q][m] = materializations[q][m]
          BY <2>5, <4>2
        <5> QED
          BY <3>1, <5>1
      <4> QED
        BY <4>1, <4>2
    <3> QED
      BY <2>5, <3>2 DEF MaterializationsSound, MaterializationsKept
  <2>7. MaterializationTruth'
    <3>1. ASSUME NEW q \in Providers, NEW m \in Memories
          PROVE  /\ materializations'[q][m].current =>
                      materializations'[q][m].materialized = materializations'[q][m].canonical
                 /\ materializations'[q][m].materialized > 0 =>
                      \E i \in Rows : /\ outbox'[i].memory = m
                                      /\ outbox'[i].revision = materializations'[q][m].materialized
                                      /\ outbox'[i].status = "DONE" /\ <<q, i>> \in executed
      <4>1. /\ materializations[q][m].current =>
                 materializations[q][m].materialized = materializations[q][m].canonical
            /\ materializations[q][m].materialized > 0 =>
                 \E i \in Rows : /\ outbox[i].memory = m
                                 /\ outbox[i].revision = materializations[q][m].materialized
                                 /\ outbox[i].status = "DONE" /\ <<q, i>> \in executed
        BY DEF DeliveryInv, MaterializationTruth
      <4>2. /\ materializations[q][m].materialized > 0 =>
                 \E i \in Rows : /\ outbox'[i].memory = m
                                 /\ outbox'[i].revision = materializations[q][m].materialized
                                 /\ outbox'[i].status = "DONE" /\ <<q, i>> \in executed
        BY <1>8, <4>1 DEF RowsKept
      <4>3. CASE q = p /\ m = row.memory /\ st.receipt.current
        BY <1>3, <1>6, <2>3, <2>5, <4>3
      <4>4. CASE q = p /\ m = row.memory /\ ~st.receipt.current
        <5>1. materializations'[q][m] = upsert /\ materializations[q][m] = old
          BY <2>5, <4>4
        <5>2. ~upsert.current /\ upsert.materialized = old.materialized
          BY <2>3, <4>4
        <5> HIDE DEF old
        <5> QED
          BY <4>2, <5>1, <5>2
      <4>5. CASE ~(q = p /\ m = row.memory)
        <5>1. materializations'[q][m] = materializations[q][m]
          BY <2>5, <4>5
        <5> QED
          BY <4>1, <4>2, <5>1
      <4> QED
        BY <4>3, <4>4, <4>5
    <3>2. ASSUME NEW i \in Rows, outbox'[i].status = "DONE"
          PROVE  \E q \in Providers :
                   /\ <<q, i>> \in executed
                   /\ materializations'[q][outbox'[i].memory].materialized >= outbox'[i].revision
      <4>1. CASE i = k
        <5>1. st.receipt.current
          BY <1>6, <3>2, <4>1
        <5>2. p \in Providers /\ <<p, k>> \in executed
          BY <1>3, <5>1
        <5>3. outbox'[k].memory = row.memory /\ outbox'[k].revision = row.revision
          BY <1>3, <1>6
        <5>4. materializations'[p][row.memory] = upsert
          BY <1>11, <2>1, <2>5
        <5>5. upsert.materialized = row.revision
          BY <2>3, <5>1
        <5> QED
          BY <1>11, <4>1, <5>2, <5>3, <5>4, <5>5
      <4>2. CASE i # k
        <5>1. PICK q \in Providers :
                /\ <<q, i>> \in executed
                /\ materializations[q][outbox[i].memory].materialized >= outbox[i].revision
          BY <1>6, <3>2, <4>2 DEF DeliveryInv, MaterializationTruth
        <5>2. outbox[i].memory \in Memories /\ outbox[i].revision \in Nat
          BY <1>2 DEF RowSound
        <5>3. /\ materializations'[q][outbox[i].memory].materialized \in Nat
              /\ materializations[q][outbox[i].memory].materialized \in Nat
          BY <1>11, <2>5, <5>2 DEF MaterializationsSound
        <5>4. materializations'[q][outbox[i].memory].materialized
                >= materializations[q][outbox[i].memory].materialized
          BY <2>6, <5>2 DEF MaterializationsKept
        <5> QED
          BY <1>6, <5>1, <5>2, <5>3, <5>4
      <4> QED
        BY <4>1, <4>2
    <3>3. Rows' = Rows /\ executed' = executed
      BY ONLY <1>1, <1>7
    <3>4. \A q \in Providers, m \in Memories :
            /\ materializations'[q][m].current =>
                 materializations'[q][m].materialized = materializations'[q][m].canonical
            /\ materializations'[q][m].materialized > 0 =>
                 \E i \in Rows' : /\ outbox'[i].memory = m
                                  /\ outbox'[i].revision = materializations'[q][m].materialized
                                  /\ outbox'[i].status = "DONE" /\ <<q, i>> \in executed'
      BY ONLY <3>1, <3>3
    <3>5. \A i \in Rows' : outbox'[i].status = "DONE" =>
            \E q \in Providers :
              /\ <<q, i>> \in executed'
              /\ materializations'[q][outbox'[i].memory].materialized >= outbox'[i].revision
      BY ONLY <3>2, <3>3
    <3> QED
      BY ONLY <3>4, <3>5 DEF MaterializationTruth
  <2> QED
    BY <1>7, <1>8, <1>9, <1>10, <2>6, <2>7 DEF DeliveryInv
<1> QED
  BY <1>12, <1>13

(* Time passes: nothing but timers changes. *)
LEMMA TickStep ==
  ASSUME DeliveryInv, Tick
  PROVE  DeliveryInv' /\ RowsKept /\ MaterializationsKept
<1>1. /\ outbox' = [i \in Rows |-> [outbox[i] EXCEPT !.lease = Down(@), !.wait = Down(@)]]
      /\ worker' = [w \in Workers |-> [worker[w] EXCEPT !.left = Down(@)]]
      /\ UNCHANGED <<materializations, executed>>
  BY DEF Tick
<1>2. OutboxSound /\ Len(outbox) \in Nat
  BY DEF DeliveryInv, OutboxSound
<1>3. \A i \in Rows : /\ RowSound(outbox'[i]) /\ outbox'[i].status = outbox[i].status
                      /\ outbox'[i].memory = outbox[i].memory
                      /\ outbox'[i].revision = outbox[i].revision
  BY <1>1, <1>2 DEF OutboxSound, RowSound, RowFields
<1>4. OutboxSound' /\ Len(outbox') = Len(outbox) /\ Rows' = Rows
  BY <1>1, <1>2, <1>3, RowsReplaced
<1>5. RowsKept
  BY <1>2, <1>3, <1>4 DEF RowsKept
<1>6. RevisionOrder'
  BY <1>3, <1>4 DEF DeliveryInv, RevisionOrder
<1>7. MaterializationTruth'
  <2>1. \A i \in 1 .. Len(outbox') : outbox'[i].status = "DONE" =>
          i \in Rows /\ outbox[i].status = "DONE"
    BY <1>3, <1>4 DEF Rows
  <2> QED
    BY <1>1, <1>5, <2>1, TruthKept DEF DeliveryInv
<1>8. WorkersSound'
  <2>1. ASSUME NEW w \in Workers PROVE WorkerSound(Len(outbox), executed, worker'[w])
    <3>1. WorkerSound(Len(outbox), executed, worker[w])
      BY DEF DeliveryInv, WorkersSound
    <3>2. worker'[w] = [worker[w] EXCEPT !.left = Down(worker[w].left)]
      BY <1>1
    <3> QED
      BY <3>1, <3>2 DEF WorkerSound, WorkerFields
  <2> QED
    BY <1>1, <1>4, <2>1 DEF WorkersSound
<1>9. MaterializationsSound' /\ MaterializationsKept
  <2>1. materializations' = materializations /\ MaterializationsSound
    BY <1>1 DEF DeliveryInv
  <2> QED
    BY <2>1 DEF MaterializationsSound, MaterializationsKept
<1> QED
  BY <1>4, <1>5, <1>6, <1>7, <1>8, <1>9 DEF DeliveryInv

(* A delivery is answered, and the worker goes to settle. *)
LEMMA ReceiveStep ==
  ASSUME DeliveryInv, NEW w \in Workers, NEW r \in Receipts, Receive(w, r),
         executed \subseteq executed',
         r.current => r.provider \in Providers /\ <<r.provider, worker[w].item>> \in executed'
  PROVE  DeliveryInv' /\ RowsKept /\ MaterializationsKept
<1> DEFINE live == outbox[worker[w].item].lease > Skew[w]
           st == [worker[w] EXCEPT !.phase = "settling", !.left = 0, !.receipt = r, !.live = live]
<1>1. SetWorker(w, st) /\ UNCHANGED <<outbox, materializations>> /\ worker[w].phase = "delivering"
  BY DEF Receive
<1>2. WorkerSound(Len(outbox), executed, worker[w])
  BY DEF DeliveryInv, WorkersSound
<1> HIDE DEF live
<1>3. /\ st = [f \in WorkerFields |-> st[f]] /\ st.phase = "settling" /\ st.receipt = r
      /\ st.batch = worker[w].batch /\ st.item = worker[w].item
  BY <1>2 DEF WorkerSound, WorkerFields
<1> HIDE DEF st
<1>4. WorkerSound(Len(outbox), executed', st)
  BY <1>1, <1>2, <1>3 DEF WorkerSound
<1> QED
  BY <1>1, <1>4, WorkerStep

(* Every step keeps the invariant, the rows and the revisions held. *)
LEMMA NextSound ==
  ASSUME DeliveryInv, [Next]_vars
  PROVE  DeliveryInv' /\ RowsKept /\ MaterializationsKept
<1>1. Len(outbox) \in Nat
  BY DEF DeliveryInv, OutboxSound
<1>2. \A w \in Workers : WorkerSound(Len(outbox), executed, worker[w])
  BY DEF DeliveryInv, WorkersSound
<1>3. ASSUME NEW w \in Workers, Deliver(w)
      PROVE  DeliveryInv' /\ RowsKept /\ MaterializationsKept
  <2>1. PICK i \in worker[w].batch :
          SetWorker(w, [worker[w] EXCEPT !.phase = "delivering", !.item = i,
                                         !.left = IF Punctual THEN Timeout ELSE 0])
    BY <1>3 DEF Deliver
  <2> DEFINE left == IF Punctual THEN Timeout ELSE 0
             st == [worker[w] EXCEPT !.phase = "delivering", !.item = i, !.left = left]
  <2> HIDE DEF left
  <2>2. WorkerSound(Len(outbox), executed, st)
    BY <1>2 DEF WorkerSound, WorkerFields
  <2>3. executed' = executed /\ UNCHANGED <<outbox, materializations>>
    BY <1>3 DEF Deliver
  <2>4. SetWorker(w, st)
    BY <2>1 DEF left
  <2> HIDE DEF st
  <2> QED
    BY <2>2, <2>3, <2>4, WorkerStep
<1>4. ASSUME NEW w \in Workers, ReceiveCurrent(w)
      PROVE  DeliveryInv' /\ RowsKept /\ MaterializationsKept
  <2>1. PICK p \in Providers : /\ Receive(w, [provider |-> p, current |-> TRUE])
                               /\ executed' = executed \cup {<<p, worker[w].item>>}
    BY <1>4 DEF ReceiveCurrent
  <2> DEFINE r == [provider |-> p, current |-> TRUE]
  <2>2. r \in Receipts /\ r.provider = p
    BY DEF Receipts
  <2> HIDE DEF r
  <2> QED
    BY <2>1, <2>2, ReceiveStep DEF r
<1>5. ASSUME NEW w \in Workers, ReceiveFailure(w)
      PROVE  DeliveryInv' /\ RowsKept /\ MaterializationsKept
  <2>1. PICK p \in Providers \cup {NoOne} :
          /\ Receive(w, [provider |-> p, current |-> FALSE])
          /\ executed' \in {executed} \cup {executed \cup {<<q, worker[w].item>>} : q \in Providers}
    BY <1>5 DEF ReceiveFailure
  <2> DEFINE r == [provider |-> p, current |-> FALSE]
  <2>2. r \in Receipts /\ r.current = FALSE
    BY DEF Receipts
  <2>3. executed \subseteq executed'
    BY <2>1
  <2> HIDE DEF r
  <2> QED
    BY <2>1, <2>2, <2>3, ReceiveStep DEF r
<1>6. ASSUME NEW w \in Workers, SettleRefused(w) \/ Crash(w)
      PROVE  DeliveryInv' /\ RowsKept /\ MaterializationsKept
  <2>1. SetWorker(w, Idle) /\ executed' = executed /\ UNCHANGED <<outbox, materializations>>
    BY <1>6 DEF SettleRefused, Crash
  <2> QED
    BY <1>1, <2>1, IdleSound, WorkerStep
<1>7. CASE UNCHANGED vars
  <2>1. DeliveryInv'
    BY <1>7 DEF vars, DeliveryInv, OutboxSound, WorkersSound, MaterializationsSound, RevisionOrder,
                MaterializationTruth, Rows
  <2> QED
    BY <1>1, <1>7, <2>1
       DEF vars, RowsKept, MaterializationsKept, DeliveryInv, MaterializationsSound
<1> QED
  BY <1>3, <1>4, <1>5, <1>6, <1>7, AppendStep, ClaimStep, SettleStep, TickStep DEF Next

(* Whichever workers claim, retry and take over: no revision of a memory   *)
(* is attempted before all earlier ones are done.                          *)
THEOREM RevisionsInOrder == Spec => []RevisionOrder
<1>1. DeliveryInv => RevisionOrder
  BY DEF DeliveryInv
<1>2. DeliveryInv /\ [Next]_vars => DeliveryInv'
  BY NextSound
<1> QED
  BY <1>1, <1>2, InitSound, PTL DEF Spec

(* What provider_materializations says of a provider, the provider did,    *)
(* and a row is DONE only where a provider holds its revision.             *)
THEOREM MaterializationsTrue == Spec => []MaterializationTruth
<1>1. DeliveryInv => MaterializationTruth
  BY DEF DeliveryInv
<1>2. DeliveryInv /\ [Next]_vars => DeliveryInv'
  BY NextSound
<1> QED
  BY <1>1, <1>2, InitSound, PTL DEF Spec

(* A late settlement takes nothing back: revisions recorded of a provider  *)
(* only grow, and a row that is DONE stays so.                             *)
THEOREM NothingRegresses == Spec => NoRegress
<1>1. DeliveryInv /\ [Next]_vars => DeliveryInv'
  BY NextSound
<1>2. ASSUME DeliveryInv, [Next]_vars
      PROVE  /\ \A p \in Providers, m \in Memories :
                  /\ materializations'[p][m].canonical >= materializations[p][m].canonical
                  /\ materializations'[p][m].materialized >= materializations[p][m].materialized
             /\ \A i \in Rows : outbox[i].status = "DONE" => outbox'[i].status = "DONE"
  BY <1>2, NextSound DEF RowsKept, MaterializationsKept
<1>3. DeliveryInv /\ [Next]_vars =>
        [/\ \A p \in Providers, m \in Memories :
              /\ materializations'[p][m].canonical >= materializations[p][m].canonical
              /\ materializations'[p][m].materialized >= materializations[p][m].materialized
         /\ \A i \in Rows : outbox[i].status = "DONE" => outbox'[i].status = "DONE"]_vars
  BY <1>2
<1> QED
  BY <1>1, <1>3, InitSound, PTL DEF Spec, NoRegress

-----------------------------------------------------------------------------
(* Device synchronisation *)

(* What a session has read lies in the feed right after its base, and what *)
(* it is about to acknowledge is applied and within one batch of the base. *)
SessionSound(log, n, st) ==
  /\ st.base + Len(st.page) <= Len(log)
  /\ \A i \in 1 .. Len(st.page) : st.page[i] = log[st.base + i]
  /\ st.phase = "checked" =>
       st.through <= n /\ st.through \in st.base .. st.base + MaxBatch

(* The inductive invariant. *)
SyncInv ==
  /\ SyncTypeOK
  /\ NothingSkipped
  /\ \A p \in Sessions : SessionSound(feed, Len(local[DeviceOf[p]]), session[p])

(* No entry of a ledger is ever replaced. *)
Extends(long, short) ==
  Len(short) <= Len(long) /\ \A i \in 1 .. Len(short) : long[i] = short[i]

(* A change of the ledgers appends one legal entry to one of them. *)
LEMMA LedgerGrows ==
  ASSUME LedgerTypeOK, LedgerNext
  PROVE  LedgerTypeOK' /\ \A s \in Scopes : Extends(ledger'[s], ledger[s])
<1>1. PICK s \in Scopes, m \in MemoryIds : LedgerCreate(s, m) \/ LedgerRevise(s, m)
  BY DEF LedgerNext
<1>2. PICK e \in Entries : LedgerAppend(s, e)
  <2>1. CASE LedgerCreate(s, m)
    BY <2>1 DEF LedgerCreate, UnusedKeys, Entries, LedgerOps
  <2>2. CASE LedgerRevise(s, m)
    <3>0. PICK i \in Positions(ledger[s], m) :
            \E op \in Followers(ledger[s][i]), k \in UnusedKeys(ledger[s]) :
            \E x \in IF op = "update" THEN Contents ELSE {ledger[s][i].content} :
              LedgerAppend(s, [memoryId |-> m, operation |-> op,
                               revision |-> ledger[s][i].revision + 1,
                               content |-> x, key |-> k])
      BY <2>2 DEF LedgerRevise
    <3>1. PICK op \in Followers(ledger[s][i]), k \in UnusedKeys(ledger[s]) :
            \E x \in IF op = "update" THEN Contents ELSE {ledger[s][i].content} :
              LedgerAppend(s, [memoryId |-> m, operation |-> op,
                               revision |-> ledger[s][i].revision + 1,
                               content |-> x, key |-> k])
      BY <3>0
    <3>2. ledger[s][i] \in Entries
      BY DEF Positions, LedgerTypeOK
    <3>3. op \in LedgerOps
      BY DEF Followers, LedgerOps
    <3>4. ledger[s][i].revision + 1 \in Nat \ {0} /\ ledger[s][i].content \in Contents
      BY <3>2 DEF Entries
    <3>5. PICK x \in Contents :
            LedgerAppend(s, [memoryId |-> m, operation |-> op,
                             revision |-> ledger[s][i].revision + 1,
                             content |-> x, key |-> k])
      BY <3>1, <3>4
    <3> QED
      BY <3>3, <3>4, <3>5 DEF UnusedKeys, Entries
  <2> QED
    BY <1>1, <2>1, <2>2
<1>3. ledger[s] \in Seq(Entries) /\ Append(ledger[s], e) \in Seq(Entries)
  BY DEF LedgerTypeOK
<1>4. Extends(Append(ledger[s], e), ledger[s])
  BY <1>3 DEF Extends
<1>5. \A t \in Scopes : Extends(ledger[t], ledger[t])
  BY DEF LedgerTypeOK, Extends
<1> QED
  BY <1>2, <1>3, <1>4, <1>5 DEF LedgerAppend, LedgerTypeOK

(* A page holds the entries right after a position, as far as there are    *)
(* any.                                                                    *)
LEMMA PageIsFeed ==
  ASSUME SyncTypeOK, NEW after \in Nat, after <= Len(feed), NEW limit \in Nat
  PROVE  /\ Page(after, limit) \in Seq(Entries)
         /\ after + Len(Page(after, limit)) <= Len(feed)
         /\ \A i \in 1 .. Len(Page(after, limit)) : Page(after, limit)[i] = feed[after + i]
<1> DEFINE last == IF after + limit < Len(feed) THEN after + limit ELSE Len(feed)
<1>1. feed \in Seq(Entries)
  BY ScopeAssumption DEF SyncTypeOK, LedgerTypeOK, feed
<1>2. Len(feed) \in Nat /\ last \in Nat /\ last <= Len(feed) /\ after <= last
  BY <1>1
<1>3. \A i \in after + 1 .. last : feed[i] \in Entries
  BY <1>1, <1>2
<1>4. Page(after, limit) = SubSeq(feed, after + 1, last)
  BY DEF Page
<1>5. /\ SubSeq(feed, after + 1, last) \in Seq(Entries)
      /\ Len(SubSeq(feed, after + 1, last)) =
           IF after + 1 <= last THEN last - (after + 1) + 1 ELSE 0
      /\ \A i \in 1 .. last - (after + 1) + 1 :
           SubSeq(feed, after + 1, last)[i] = feed[after + 1 + i - 1]
  BY <1>2, <1>3, SubSeqProperties
<1>6. Len(Page(after, limit)) = last - after
  BY <1>2, <1>4, <1>5
<1> HIDE DEF last
<1>7. after + Len(Page(after, limit)) <= Len(feed)
  BY <1>2, <1>6
<1>8. ASSUME NEW i \in 1 .. Len(Page(after, limit))
      PROVE  Page(after, limit)[i] = feed[after + i]
  <2>1. i \in 1 .. last - (after + 1) + 1 /\ after + 1 + i - 1 = after + i
    BY <1>2, <1>6
  <2>2. SubSeq(feed, after + 1, last)[i] = feed[after + 1 + i - 1]
    BY <1>5, <2>1
  <2> QED
    BY <1>4, <2>1, <2>2
<1>9. Page(after, limit) \in Seq(Entries)
  BY <1>4, <1>5
<1> QED
  BY <1>7, <1>8, <1>9

(* At the start there is nothing to skip. *)
LEMMA SyncInitSound == SyncInit => SyncInv
<1> SUFFICES ASSUME SyncInit PROVE SyncInv
  OBVIOUS
<1>1. LedgerTypeOK /\ feed = << >>
  BY ScopeAssumption DEF SyncInit, LedgerInit, LedgerTypeOK, feed
<1>2. IdleSession \in SessionStates
  BY DEF IdleSession, SessionStates
<1>3. SyncTypeOK
  BY <1>1, <1>2 DEF SyncInit, SyncTypeOK
<1>4. NothingSkipped
  BY <1>1 DEF SyncInit, NothingSkipped
<1>5. \A p \in Sessions : SessionSound(feed, Len(local[DeviceOf[p]]), session[p])
  BY <1>1, DevicesAssumption DEF SyncInit, SessionSound, IdleSession
<1> QED
  BY <1>3, <1>4, <1>5 DEF SyncInv

(* What was sound stays so when the feed and the device's copy grow. *)
LEMMA SessionKeeps ==
  ASSUME NEW log \in Seq(Entries), NEW longer \in Seq(Entries), Extends(longer, log),
         NEW n \in Nat, NEW m \in Nat, n <= m,
         NEW st \in SessionStates, SessionSound(log, n, st)
  PROVE  SessionSound(longer, m, st)
<1>1. st.base \in Nat /\ st.page \in Seq(Entries) /\ st.through \in Nat
  BY DEF SessionStates
<1>2. Len(log) \in Nat /\ Len(longer) \in Nat /\ Len(st.page) \in Nat /\ Len(log) <= Len(longer)
  BY <1>1 DEF Extends
<1>3. \A i \in 1 .. Len(st.page) : st.base + i \in 1 .. Len(log)
  BY <1>1, <1>2 DEF SessionSound
<1>4. st.base + Len(st.page) <= Len(longer)
  BY <1>1, <1>2 DEF SessionSound
<1>5. \A i \in 1 .. Len(st.page) : st.page[i] = longer[st.base + i]
  BY <1>1, <1>2, <1>3 DEF SessionSound, Extends
<1>6. st.phase = "checked" => st.through <= m /\ st.through \in st.base .. st.base + MaxBatch
  <2>1. st.phase = "checked" => st.through <= n /\ st.through \in st.base .. st.base + MaxBatch
    BY DEF SessionSound
  <2>2. st.through <= n => st.through <= m
    BY <1>1
  <2> QED
    BY <2>1, <2>2
<1> QED
  BY <1>4, <1>5, <1>6 DEF SessionSound

(* One session goes on to a sound state; nothing else changes but possibly *)
(* the checkpoint of its device, which stays within what was applied.      *)
LEMMA SessionStep ==
  ASSUME SyncInv, NEW p \in Sessions, NEW st \in SessionStates, SetSession(p, st),
         UNCHANGED <<ledger, local>>,
         checkpoint' \in [Devices -> Nat],
         \A d \in Devices : checkpoint'[d] <= Len(local[d]),
         SessionSound(feed, Len(local[DeviceOf[p]]), st)
  PROVE  SyncInv'
<1>1. SyncTypeOK'
  BY DEF SyncInv, SyncTypeOK, LedgerTypeOK, SetSession
<1>2. NothingSkipped'
  BY DEF SyncInv, NothingSkipped, feed
<1>3. \A q \in Sessions : SessionSound(feed, Len(local[DeviceOf[q]]), session'[q])
  BY DEF SyncInv, SyncTypeOK, SetSession
<1> QED
  BY <1>1, <1>2, <1>3 DEF SyncInv, feed

(* Every step keeps the invariant. *)
LEMMA SyncNextSound == SyncInv /\ [SyncNext]_syncVars => SyncInv'
<1> SUFFICES ASSUME SyncInv, [SyncNext]_syncVars PROVE SyncInv'
  OBVIOUS
<1> USE ScopeAssumption, DevicesAssumption, MaxBatchAssumption
<1>1. /\ SyncTypeOK /\ NothingSkipped
      /\ checkpoint \in [Devices -> Nat] /\ local \in [Devices -> Seq(Entries)]
      /\ session \in [Sessions -> SessionStates]
      /\ feed \in Seq(Entries) /\ Len(feed) \in Nat
  BY DEF SyncInv, SyncTypeOK, LedgerTypeOK, feed
<1>2. \A d \in Devices : /\ checkpoint[d] \in Nat /\ local[d] \in Seq(Entries)
                         /\ Len(local[d]) \in Nat /\ checkpoint[d] <= Len(local[d])
                         /\ Len(local[d]) <= Len(feed)
                         /\ \A i \in 1 .. Len(local[d]) : local[d][i] = feed[i]
  BY <1>1 DEF NothingSkipped
<1>3. \A p \in Sessions :
        /\ DeviceOf[p] \in Devices /\ session[p] \in SessionStates
        /\ session[p].base \in Nat /\ session[p].page \in Seq(Entries)
        /\ Len(session[p].page) \in Nat /\ session[p].through \in Nat
        /\ SessionSound(feed, Len(local[DeviceOf[p]]), session[p])
  BY <1>1 DEF SyncInv, SessionStates
<1>4. IdleSession \in SessionStates /\ \A n \in Nat : SessionSound(feed, n, IdleSession)
  BY <1>1 DEF IdleSession, SessionStates, SessionSound
<1>5. CASE Grow
  <2>1. LedgerTypeOK' /\ Extends(feed', feed)
    BY <1>5, LedgerGrows DEF Grow, SyncInv, SyncTypeOK, feed
  <2>2. feed' \in Seq(Entries) /\ Len(feed') \in Nat
    BY <2>1 DEF LedgerTypeOK, feed
  <2>3. SyncTypeOK'
    BY <1>1, <1>5, <2>1 DEF Grow, SyncTypeOK
  <2>4. NothingSkipped'
    <3>1. local' = local /\ checkpoint' = checkpoint
      BY <1>5 DEF Grow
    <3> SUFFICES ASSUME NEW d \in Devices
                 PROVE  /\ Len(local[d]) <= Len(feed')
                        /\ \A i \in 1 .. Len(local[d]) : local[d][i] = feed'[i]
      <4>1. \A d \in Devices : DOMAIN local[d] = 1 .. Len(local[d])
        BY <1>2
      <4> QED
        BY <1>2, <3>1, <4>1 DEF NothingSkipped
    <3>2. Len(feed) <= Len(feed') /\ \A i \in 1 .. Len(feed) : feed'[i] = feed[i]
      BY <2>1 DEF Extends
    <3> QED
      BY <1>1, <1>2, <2>2, <3>2
  <2>5. \A p \in Sessions : SessionSound(feed', Len(local[DeviceOf[p]]), session[p])
    BY <1>1, <1>2, <1>3, <2>1, <2>2, SessionKeeps
  <2> QED
    BY <1>5, <2>3, <2>4, <2>5 DEF Grow, SyncInv
<1>6. ASSUME NEW p \in Sessions, StartPull(p) PROVE SyncInv'
  <2> DEFINE st == [IdleSession EXCEPT !.phase = "pulling", !.base = checkpoint[DeviceOf[p]]]
  <2>1. st \in SessionStates /\ SessionSound(feed, Len(local[DeviceOf[p]]), st)
    <3>0. IdleSession.page = << >>
      BY DEF IdleSession
    <3>1. /\ st.base = checkpoint[DeviceOf[p]] /\ st.page = << >> /\ st.phase = "pulling"
          /\ st \in SessionStates
      BY <1>2, <1>3, <1>4, <3>0 DEF SessionStates
    <3>2. st.base \in Nat /\ st.base <= Len(feed)
      BY <1>1, <1>2, <1>3, <3>1
    <3> HIDE DEF st
    <3> QED
      BY <1>1, <3>1, <3>2 DEF SessionSound
  <2> QED
    BY <1>1, <1>2, <1>6, <2>1, SessionStep DEF StartPull
<1>7. ASSUME NEW p \in Sessions, ReadPage(p) PROVE SyncInv'
  <2> DEFINE old == session[p]
  <2>1. PICK limit \in 1 .. MaxBatch :
          SetSession(p, [old EXCEPT !.phase = "pulled",
                                    !.page = @ \o Page(old.base + Len(@), limit)])
    BY <1>7 DEF ReadPage
  <2> DEFINE after == old.base + Len(old.page)
             page == Page(after, limit)
             new == [old EXCEPT !.phase = "pulled", !.page = old.page \o page]
  <2>2. after \in Nat /\ after <= Len(feed) /\ limit \in Nat
    BY <1>3 DEF SessionSound
  <2>3. /\ page \in Seq(Entries) /\ after + Len(page) <= Len(feed)
        /\ \A i \in 1 .. Len(page) : page[i] = feed[after + i]
    BY <1>1, <2>2, PageIsFeed
  <2> HIDE DEF page
  <2>4. /\ old.page \o page \in Seq(Entries)
        /\ Len(old.page \o page) = Len(old.page) + Len(page)
        /\ \A i \in 1 .. Len(old.page) + Len(page) : (old.page \o page)[i] =
             IF i <= Len(old.page) THEN old.page[i] ELSE page[i - Len(old.page)]
    BY <1>3, <2>3, ConcatProperties
  <2>5. new \in SessionStates /\ new.base = old.base /\ new.page = old.page \o page
        /\ new.phase = "pulled"
    BY <1>3, <2>4 DEF SessionStates
  <2>6. \A i \in 1 .. Len(old.page \o page) : (old.page \o page)[i] = feed[old.base + i]
    <3> TAKE i \in 1 .. Len(old.page \o page)
    <3>1. CASE i <= Len(old.page)
      BY <1>3, <2>3, <2>4, <3>1 DEF SessionSound
    <3>2. CASE i > Len(old.page)
      <4>1. i - Len(old.page) \in 1 .. Len(page) /\ after + (i - Len(old.page)) = old.base + i
        BY <1>3, <2>3, <2>4, <3>2
      <4>2. (old.page \o page)[i] = page[i - Len(old.page)]
        BY <1>3, <2>3, <2>4, <3>2
      <4> QED
        BY <2>3, <4>1, <4>2
    <3> QED
      BY <1>3, <2>3, <2>4, <3>1, <3>2
  <2>7. SessionSound(feed, Len(local[DeviceOf[p]]), new)
    <3>1. old.base \in Nat /\ Len(old.page) \in Nat /\ Len(page) \in Nat
      BY <1>3, <2>3
    <3>2. old.base + Len(old.page \o page) <= Len(feed)
      BY <1>1, <2>3, <2>4, <3>1
    <3> HIDE DEF new
    <3> QED
      BY <2>5, <2>6, <3>2 DEF SessionSound
  <2> QED
    BY <1>1, <1>2, <1>7, <2>1, <2>5, <2>7, SessionStep DEF ReadPage, page
<1>8. ASSUME NEW p \in Sessions, Apply(p) PROVE SyncInv'
  <2> DEFINE d == DeviceOf[p]
             next == Len(local[d]) + 1
             e == session[p].page[next - session[p].base]
  <2>1. /\ next \in session[p].base + 1 .. session[p].base + Len(session[p].page)
        /\ local' = [local EXCEPT ![d] = Append(local[d], e)]
        /\ UNCHANGED <<ledger, checkpoint, session>>
    BY <1>8 DEF Apply
  <2>2. next - session[p].base \in 1 .. Len(session[p].page)
    <3>1. next \in Nat /\ session[p].base \in Nat /\ Len(session[p].page) \in Nat
      BY <1>2, <1>3
    <3> HIDE DEF next
    <3> QED
      BY <2>1, <3>1
  <2>3. e \in Entries /\ e = feed[next] /\ next <= Len(feed)
    <3> DEFINE st == session[p]
               i == next - st.base
    <3>1. /\ st.base \in Nat /\ st.page \in Seq(Entries) /\ Len(st.page) \in Nat
          /\ next \in Nat /\ i \in 1 .. Len(st.page)
          /\ next <= st.base + Len(st.page)
      <4>1. st.base \in Nat /\ st.page \in Seq(Entries) /\ Len(st.page) \in Nat /\ next \in Nat
        BY <1>2, <1>3
      <4> HIDE DEF next
      <4> QED
        BY <2>1, <2>2, <4>1
    <3>2. st.base + i = next
      BY <3>1
    <3>3. /\ st.base + Len(st.page) <= Len(feed)
          /\ \A n \in 1 .. Len(st.page) : st.page[n] = feed[st.base + n]
      BY <1>3 DEF SessionSound
    <3>4. e = st.page[i]
      OBVIOUS
    <3> HIDE DEF st, i, next, e
    <3> QED
      BY <1>1, <3>1, <3>2, <3>3, <3>4
  <2> HIDE DEF e
  <2>4. Append(local[d], e) \in Seq(Entries) /\ Len(Append(local[d], e)) = next
    BY <1>2, <1>3, <2>3
  <2>5. local' \in [Devices -> Seq(Entries)] /\ \A c \in Devices : Len(local[c]) <= Len(local'[c])
    BY <1>1, <1>2, <1>3, <2>1, <2>4
  <2>6. SyncTypeOK'
    BY <1>1, <2>1, <2>5 DEF SyncTypeOK, LedgerTypeOK
  <2>7. NothingSkipped'
    BY <1>1, <1>2, <1>3, <2>1, <2>3, <2>4, <2>5 DEF NothingSkipped, feed
  <2>8. \A q \in Sessions : SessionSound(feed, Len(local'[DeviceOf[q]]), session[q])
    <3>1. Extends(feed, feed)
      BY <1>1 DEF Extends
    <3>2. \A c \in Devices : Len(local'[c]) \in Nat
      BY <2>5
    <3> QED
      BY <1>1, <1>2, <1>3, <2>5, <3>1, <3>2, SessionKeeps
  <2> QED
    BY <2>1, <2>6, <2>7, <2>8 DEF SyncInv, feed
<1>9. ASSUME NEW p \in Sessions, CheckAck(p) PROVE SyncInv'
  <2>1. PICK n \in session[p].base .. session[p].base + Len(session[p].page) :
          /\ n <= Len(local[DeviceOf[p]])
          /\ AckFits(session[p].base, n)
          /\ SetSession(p, [session[p] EXCEPT !.phase = "checked", !.through = n])
    BY <1>9 DEF CheckAck
  <2> DEFINE st == [session[p] EXCEPT !.phase = "checked", !.through = n]
  <2>2. n \in Nat /\ n \in session[p].base .. session[p].base + MaxBatch
    BY <1>3, <2>1 DEF AckFits
  <2>3. st \in SessionStates /\ SessionSound(feed, Len(local[DeviceOf[p]]), st)
    BY <1>3, <2>1, <2>2 DEF SessionStates, SessionSound
  <2> QED
    BY <1>1, <1>2, <1>9, <2>1, <2>3, SessionStep DEF CheckAck
<1>10. ASSUME NEW p \in Sessions, CompareAndSet(p) PROVE SyncInv'
  <2> DEFINE st == session[p]
             retry == [st EXCEPT !.phase = "pulled", !.through = 0]
  <2>1. st.through \in Nat /\ st.through <= Len(local[DeviceOf[p]])
    BY <1>3, <1>10 DEF SessionSound, CompareAndSet
  <2>2. retry \in SessionStates /\ SessionSound(feed, Len(local[DeviceOf[p]]), retry)
    BY <1>3 DEF SessionStates, SessionSound
  <2>3. checkpoint' \in [Devices -> Nat] /\ \A d \in Devices : checkpoint'[d] <= Len(local[d])
    BY <1>1, <1>2, <1>3, <1>10, <2>1 DEF CompareAndSet
  <2>4. SetSession(p, IdleSession) \/ SetSession(p, retry)
    BY <1>10 DEF CompareAndSet
  <2>5. UNCHANGED <<ledger, local>>
    BY <1>10 DEF CompareAndSet
  <2> QED
    BY <1>2, <1>3, <1>4, <2>2, <2>3, <2>4, <2>5, SessionStep
<1>11. ASSUME NEW p \in Sessions, Stop(p) PROVE SyncInv'
  BY <1>1, <1>2, <1>3, <1>4, <1>11, SessionStep DEF Stop
<1>12. CASE UNCHANGED syncVars
  BY <1>12 DEF syncVars, SyncInv, SyncTypeOK, LedgerTypeOK, NothingSkipped, feed
<1> QED
  BY <1>5, <1>6, <1>7, <1>8, <1>9, <1>10, <1>11, <1>12 DEF SyncNext

(* Sessions, devices and ledgers keep their shape. *)
THEOREM SyncTypeCorrect == SyncSpec => []SyncTypeOK
<1>1. SyncInv => SyncTypeOK
  BY DEF SyncInv
<1> QED
  BY <1>1, SyncInitSound, SyncNextSound, PTL DEF SyncSpec

(* However many sessions pull, apply and acknowledge for a device at once, *)
(* it holds a prefix of the feed and its checkpoint stays within it.       *)
THEOREM NothingIsSkipped == SyncSpec => []NothingSkipped
<1>1. SyncInv => NothingSkipped
  BY DEF SyncInv
<1> QED
  BY <1>1, SyncInitSound, SyncNextSound, PTL DEF SyncSpec

(* No acknowledgement, repeated or late, moves a checkpoint back, or by    *)
(* more than a batch.                                                      *)
THEOREM CheckpointOnlyAdvances == SyncSpec => CheckpointAdvances
<1>1. ASSUME SyncInv, [SyncNext]_syncVars, NEW d \in Devices
      PROVE  checkpoint'[d] \in checkpoint[d] .. checkpoint[d] + MaxBatch
  <2> USE MaxBatchAssumption
  <2>1. checkpoint \in [Devices -> Nat]
    BY <1>1 DEF SyncInv, SyncTypeOK
  <2>2. CASE \E p \in Sessions : CompareAndSet(p)
    <3>1. PICK p \in Sessions : CompareAndSet(p)
      BY <2>2
    <3>2. session[p].through \in session[p].base .. session[p].base + MaxBatch
          /\ session[p].base \in Nat
      BY <1>1, <3>1 DEF SyncInv, SyncTypeOK, SessionSound, SessionStates, CompareAndSet
    <3> QED
      BY <2>1, <3>1, <3>2 DEF CompareAndSet
  <2>3. CASE UNCHANGED checkpoint
    BY <2>1, <2>3
  <2> QED
    BY <1>1, <2>2, <2>3
       DEF SyncNext, syncVars, Grow, StartPull, ReadPage, Apply, CheckAck, Stop
<1>2. SyncInv /\ [SyncNext]_syncVars =>
        [\A d \in Devices : checkpoint'[d] \in checkpoint[d] .. checkpoint[d] + MaxBatch]_syncVars
  BY <1>1
<1> QED
  BY <1>2, SyncInitSound, SyncNextSound, PTL DEF SyncSpec, CheckpointAdvances
=============================================================================

------------------------- MODULE DistillationProofs -------------------------
(***************************************************************************)
(* Invariants of Distillation, for any sources, units, policies and number *)
(* of processes, however they interleave, fail and are run again.          *)
(***************************************************************************)
EXTENDS Distillation, TLAPS

Admitting == {"record", "ingest", "bind", "govern", "commit", "refused", "collided"}
Holding == {"bind", "govern", "commit", "refused", "collided"}
Mid == Admitting \cup {"settle"}
Loop == Mid \cup {"unit"}
Phases == Loop \cup {"idle", "absent", "stages", "close", "closed"}
Running == Loop \cup {"stages", "close"}

PriorLists == {<< >>} \cup UNION {[1 .. n -> CurationRecord \cup {None}] : n \in Nat}

ProcessStates ==
  [phase : Phases, receipt : DistillationReceipts, stage : 0 .. 5, unit : Nat,
   counts : [Outcomes -> Nat], duplicates : Nat, prior : PriorLists,
   decision : Outcomes \cup {None}, op : {"create", "merge", None}, base : Nat,
   text : Texts \cup {None}, cand : CandidateIds \cup {None},
   previous : CandidateIds \cup {None}, memory : SemanticKeys \cup {None}, attempt : Nat]

Refreshes ==
  [source : Sources, eligible : BOOLEAN, receipt : DistillationReceipts \cup {None}]

Types ==
  /\ TypeOK
  /\ process \in [Processes -> ProcessStates]
  /\ refresh \in Refreshes \cup {None}
  /\ refresh # None /\ refresh.receipt # None =>
       \A o \in Outcomes : refresh.receipt.counts[o] <= UnitCount[refresh.source]

Indices(p) == 1 .. UnitCount[SourceOf[p]]
UnitOf(p, st) == <<SourceOf[p], st.unit>>
CanonicalOutcome(op) == IF op = "merge" THEN "canonical_merge" ELSE "canonical_candidate"

(* Where a run is: the unit in hand is one of the source, and a unit that  *)
(* is to become canonical has an operation, a text, and for a merge a      *)
(* memory.                                                                 *)
Placed(p, st) ==
  /\ st.phase = "stages" => \A o \in Outcomes : st.counts[o] = 0
  /\ st.phase \in Loop => /\ st.unit \in 1 .. UnitCount[SourceOf[p]] + 1
                          /\ \A o \in Outcomes : st.counts[o] < st.unit
  /\ st.phase \in Mid => st.unit \in Indices(p) /\ st.decision \in Outcomes
  /\ st.phase \in Admitting =>
       /\ st.op \in {"create", "merge"} /\ st.text \in Texts
       /\ st.decision = CanonicalOutcome(st.op)
       /\ st.op = "merge" \/ st.phase \in {"refused", "collided"} =>
            heads[KeyOf[UnitOf(p, st)]] # None
  /\ \A o \in Outcomes : st.receipt.counts[o] <= UnitCount[SourceOf[p]]
  /\ st.stage >= 3 \/ st.phase \in Loop \cup {"close", "closed"} => st.receipt.archived

(* A run and its candidates: the one it is about to commit is its own and  *)
(* in no commit, the one a retry replaced is closed, and a memory it has   *)
(* committed is that of its unit, candidate and receipt.                   *)
Owned(p, st) ==
  /\ st.phase \in Holding =>
       /\ st.cand # None /\ candidates[st.cand] # None /\ candidates[st.cand].op = st.op
       /\ st.cand # st.previous /\ \A x \in commits : x.cand # st.cand
  /\ st.phase = "collided" => candidates[st.cand].status = "CONFLICT"
  /\ st.phase \in {"record", "ingest"} => st.cand \in {None, st.previous}
  /\ st.phase \notin Mid => st.cand = None /\ st.previous = None
  /\ st.previous # None =>
       candidates[st.previous].status = "CONFLICT" /\ \A x \in commits : x.cand # st.previous
  /\ st.phase # "settle" => st.memory = None
  /\ st.phase = "settle" /\ st.decision \in {"canonical_candidate", "canonical_merge"} =>
       st.memory # None
  /\ st.memory # None =>
       /\ st.cand # None /\ candidates[st.cand].status = "ACCEPTED"
       /\ st.decision = CanonicalOutcome(candidates[st.cand].op)
       /\ st.memory = KeyOf[UnitOf(p, st)] /\ st.memory \in st.receipt.memories
       /\ \E x \in commits : x.unit = UnitOf(p, st) /\ x.cand = st.cand /\ x.memory = st.memory

(* No two runs hold the same candidate, nor does one hold what another     *)
(* has replaced.                                                           *)
Distinct ==
  \A p, q \in Processes : p # q /\ process[p].cand # None =>
    process[p].cand # process[q].cand /\ process[p].cand # process[q].previous

(* RecordsBound of one unit, whose memory is that of its key. *)
RecordSound(u, r) ==
  Canonicalized(r) =>
    /\ r.memory = KeyOf[u]
    /\ r.cand # None /\ candidates[r.cand].status = "ACCEPTED" /\ Backs(r, r.cand)
    /\ \E x \in commits : x.unit = u /\ x.cand = r.cand /\ x.memory = r.memory

Bound ==
  /\ \A p \in Processes : Placed(p, process[p]) /\ Owned(p, process[p])
  /\ Distinct
  /\ \A u \in Units : RecordSound(u, records[u])

(* The memories a receipt lists were committed for its source, and what a  *)
(* run was told of earlier records still holds.                            *)
Committed(s, k) == \E x \in commits : x.unit[1] = s /\ x.memory = k
Noted(p, st) ==
  /\ \A k \in st.receipt.memories : Committed(SourceOf[p], k)
  /\ st.phase \in Loop => \A i \in Indices(p) : Canonicalized(st.prior[i]) =>
       /\ Canonicalized(records[<<SourceOf[p], i>>])
       /\ st.prior[i].memory = records[<<SourceOf[p], i>>].memory
Ledger ==
  /\ \A p \in Processes : Noted(p, process[p])
  /\ \A s \in Sources : receipts[s] # None => \A k \in receipts[s].memories : Committed(s, k)
  /\ refresh # None /\ refresh.receipt # None =>
       \A k \in refresh.receipt.memories : Committed(refresh.source, k)

(* A run that no other run of its source meets: its receipt is not         *)
(* complete, the units before the one in hand are settled unless one is    *)
(* for review, and their memories are noted.                               *)
Single(p) == \A q \in Processes : SourceOf[q] = SourceOf[p] => q = p
Listed(u, rec) == Canonicalized(records[u]) => records[u].memory \in rec.memories
RunSound(p, st) ==
  LET s == SourceOf[p] IN
  /\ st.phase \in Running => ~st.receipt.prune
  /\ Single(p) /\ st.phase \in Running =>
       /\ receipts[s] # None => receipts[s].status # "complete"
       /\ st.phase \in Loop => \A i \in Indices(p) :
            IF i < st.unit
            THEN /\ st.counts["pending_review"] = 0 => Settled(<<s, i>>)
                 /\ Listed(<<s, i>>, st.receipt)
            ELSE Canonicalized(records[<<s, i>>]) => Canonicalized(st.prior[i])
       /\ st.phase \in Mid => ~Canonicalized(st.prior[st.unit])
       /\ st.phase = "close" => \A i \in Indices(p) :
            (st.receipt.admitted => Settled(<<s, i>>)) /\ Listed(<<s, i>>, st.receipt)

(* What the two invariants about receipts say of one source. *)
ReceiptSound(s) ==
  LET rec == receipts[s] IN
  OneHost(s) /\ rec # None =>
    /\ rec.status = "complete" => \A i \in 1 .. UnitCount[s] :
         Settled(<<s, i>>) /\ Listed(<<s, i>>, rec)
    /\ rec.prune => rec.status = "complete" /\ rec.archived

(* A receipt that the refresh found complete still is, and what was found  *)
(* eligible is archived in the table and in what was read again.           *)
RefreshSound ==
  refresh # None /\ OneHost(refresh.source) =>
    LET rec == receipts[refresh.source] IN
    /\ refresh.eligible \/ (refresh.receipt # None /\ refresh.receipt.status = "complete") =>
         rec # None /\ rec.status = "complete"
    /\ refresh.eligible =>
         /\ rec.archived
         /\ refresh.receipt # None => refresh.receipt.status = "complete" /\ refresh.receipt.archived

Runs ==
  /\ \A p \in Processes : RunSound(p, process[p])
  /\ \A s \in Sources : ReceiptSound(s)
  /\ RefreshSound

DistillationInv == Types /\ Bound /\ Ledger /\ Runs

-----------------------------------------------------------------------------
(* What the records the service writes come to, field by field.            *)

(* An idle process, and one that is not there. *)
LEMMA IdleFacts ==
  /\ NewReceipt \in DistillationReceipts /\ NewReceipt.memories = {} /\ ~NewReceipt.prune
  /\ NewReceipt.counts = NoCounts /\ NoCounts \in [Outcomes -> Nat]
  /\ \A o \in Outcomes : NoCounts[o] = 0
  /\ Idle \in ProcessStates /\ Absent \in ProcessStates
  /\ Idle.phase = "idle" /\ Absent.phase = "absent"
  /\ Idle.receipt = NewReceipt /\ Idle.stage = 0 /\ Idle.cand = None /\ Idle.previous = None
  /\ Idle.memory = None /\ Idle.counts = NoCounts
  /\ Absent.receipt = NewReceipt /\ Absent.stage = 0 /\ Absent.cand = None
  /\ Absent.previous = None /\ Absent.memory = None
<1>1. /\ NoCounts \in [Outcomes -> Nat] /\ \A o \in Outcomes : NoCounts[o] = 0
  BY DEF NoCounts
<1>2. /\ NewReceipt \in DistillationReceipts /\ NewReceipt.memories = {} /\ ~NewReceipt.prune
      /\ NewReceipt.counts = NoCounts
  BY <1>1 DEF NewReceipt, DistillationReceipts, Statuses
<1>3. /\ Idle \in ProcessStates
      /\ Idle.phase = "idle" /\ Idle.receipt = NewReceipt /\ Idle.stage = 0 /\ Idle.cand = None
      /\ Idle.previous = None /\ Idle.memory = None /\ Idle.counts = NoCounts
  BY <1>1, <1>2 DEF Idle, ProcessStates, Phases, Loop, Mid, Admitting, PriorLists
<1>4. /\ Absent \in ProcessStates
      /\ Absent.phase = "absent" /\ Absent.receipt = Idle.receipt /\ Absent.stage = Idle.stage
      /\ Absent.cand = Idle.cand /\ Absent.previous = Idle.previous /\ Absent.memory = Idle.memory
  BY <1>3 DEF Absent, ProcessStates, Phases
<1> QED
  BY <1>1, <1>2, <1>3, <1>4

(* The loop goes on. *)
LEMMA NextUnitFacts ==
  ASSUME NEW st \in ProcessStates, NEW outcome \in Outcomes
  PROVE  LET n == NextUnit(st, outcome) IN
         /\ n \in ProcessStates /\ n.phase = "unit" /\ n.unit = st.unit + 1
         /\ n.prior = st.prior /\ n.receipt = st.receipt /\ n.cand = None /\ n.previous = None
         /\ n.memory = None /\ n.stage = 5
         /\ n.counts[outcome] = st.counts[outcome] + 1
         /\ \A o \in Outcomes \ {outcome} : n.counts[o] = st.counts[o]
<1>1. /\ st.unit \in Nat /\ st.counts \in [Outcomes -> Nat] /\ st.prior \in PriorLists
      /\ st.receipt \in DistillationReceipts /\ st.duplicates \in Nat
  BY DEF ProcessStates
<1>2. PICK u \in Nat : u = st.unit + 1
  BY <1>1
<1>3. PICK c \in [Outcomes -> Nat] : c = [st.counts EXCEPT ![outcome] = st.counts[outcome] + 1]
  <2>1. PICK m \in Nat : m = st.counts[outcome] + 1
    BY <1>1
  <2>2. [st.counts EXCEPT ![outcome] = m] \in [Outcomes -> Nat]
    BY <1>1
  <2> QED
    BY <2>1, <2>2
<1>4. /\ c[outcome] = st.counts[outcome] + 1
      /\ \A o \in Outcomes \ {outcome} : c[o] = st.counts[o]
  BY <1>1, <1>3
<1> DEFINE n == [Idle EXCEPT !.phase = "unit", !.stage = 5, !.unit = u, !.prior = st.prior,
                   !.receipt = st.receipt, !.duplicates = st.duplicates, !.counts = c]
<1>5. n = NextUnit(st, outcome)
  BY <1>2, <1>3 DEF NextUnit
<1>6. Idle \in ProcessStates /\ Idle.cand = None /\ Idle.previous = None /\ Idle.memory = None
  BY IdleFacts
<1>7. n \in ProcessStates
  <2>1. "unit" \in Phases /\ 5 \in 0 .. 5
    BY DEF Phases, Loop
  <2> DEFINE m == [Idle EXCEPT !.phase = "unit", !.stage = 5, !.unit = u]
  <2>2. m \in ProcessStates
    BY <1>6, <2>1 DEF ProcessStates
  <2>3. n = [m EXCEPT !.prior = st.prior, !.receipt = st.receipt, !.duplicates = st.duplicates,
                      !.counts = c]
    OBVIOUS
  <2> HIDE DEF m, n
  <2> QED
    BY <1>1, <2>2, <2>3 DEF ProcessStates
<1>8. /\ n.phase = "unit" /\ n.unit = u
      /\ n.prior = st.prior /\ n.receipt = st.receipt /\ n.cand = None /\ n.previous = None
      /\ n.memory = None /\ n.stage = 5 /\ n.counts = c
  BY <1>6 DEF ProcessStates
<1> HIDE DEF n
<1> QED
  BY <1>2, <1>4, <1>5, <1>7, <1>8

(* What configureMerge makes of the unit in hand. *)
LEMMA TargetFacts ==
  ASSUME NEW st \in ProcessStates, NEW text, NEW head \in Heads
  PROVE  LET t == Target(st, text, head) IN
         /\ t \in ProcessStates /\ t.unit = st.unit /\ t.prior = st.prior
         /\ t.receipt = st.receipt /\ t.cand = st.cand /\ t.previous = st.previous
         /\ t.memory = st.memory /\ t.counts = st.counts /\ t.stage = st.stage
         /\ \/ /\ t.phase = "settle"
               /\ t.decision \in {"supporting_evidence_only", "pending_review"}
            \/ /\ t.phase = "record" /\ t.decision = "canonical_merge" /\ t.op = "merge"
               /\ t.text \in Texts
<1> DEFINE t1 == [st EXCEPT !.phase = "settle", !.decision = "supporting_evidence_only",
                            !.duplicates = @ + 1]
           t2 == [st EXCEPT !.phase = "settle", !.decision = "pending_review"]
           t3 == [st EXCEPT !.phase = "record", !.decision = "canonical_merge", !.op = "merge",
                            !.base = head.revision, !.text = head.text]
           Kept(t) == /\ t \in ProcessStates /\ t.unit = st.unit /\ t.prior = st.prior
                      /\ t.receipt = st.receipt /\ t.cand = st.cand /\ t.previous = st.previous
                      /\ t.memory = st.memory /\ t.counts = st.counts /\ t.stage = st.stage
<1>1. Kept(t1) /\ t1.phase = "settle" /\ t1.decision = "supporting_evidence_only"
  <2>1. PICK n \in Nat : n = st.duplicates + 1
    BY DEF ProcessStates
  <2>2. t1 = [st EXCEPT !.phase = "settle", !.decision = "supporting_evidence_only", !.duplicates = n]
    BY <2>1 DEF ProcessStates
  <2> QED
    BY <2>2 DEF ProcessStates, Phases, Loop, Mid, Outcomes
<1>2. Kept(t2) /\ t2.phase = "settle" /\ t2.decision = "pending_review"
  BY DEF ProcessStates, Phases, Loop, Mid, Outcomes
<1>3. /\ Kept(t3) /\ t3.phase = "record" /\ t3.decision = "canonical_merge"
      /\ t3.op = "merge" /\ t3.text \in Texts
  <2>1. head.revision \in Nat /\ head.text \in Texts
    BY DEF Heads
  <2> QED
    BY <2>1 DEF ProcessStates, Phases, Loop, Mid, Admitting, Outcomes
<1>4. Target(st, text, head) \in {t1, t2, t3}
  BY DEF Target
<1> HIDE DEF t1, t2, t3
<1> QED
  BY <1>1, <1>2, <1>3, <1>4

(* What a put leaves of a receipt. *)
LEMMA UpsertReceiptFacts ==
  ASSUME NEW old \in DistillationReceipts \cup {None}, NEW new \in DistillationReceipts
  PROVE  LET r == UpsertReceipt(old, new) IN
         /\ r \in DistillationReceipts /\ r # None
         /\ r.archived = new.archived /\ r.prune = new.prune
         /\ r.counts = new.counts \/ (old # None /\ r.counts = old.counts)
         /\ \A k : k \in r.memories <=> k \in new.memories \/ (old # None /\ k \in old.memories)
         /\ r.status = IF old # None /\ old.status = "complete" /\ new.status # "awaiting_review"
                       THEN "complete" ELSE new.status
<1>1. CASE old = None
  BY <1>1, NoneAssumption DEF UpsertReceipt
<1>2. CASE old # None
  <2> DEFINE keep == old.outcome = "committed" /\ new.outcome = "superseded"
  <2>1. PICK counted \in {old, new} : counted = IF keep THEN old ELSE new
    OBVIOUS
  <2>2. PICK status \in Statuses :
          status = IF old.status = "complete" /\ new.status # "awaiting_review"
                   THEN "complete" ELSE new.status
    BY DEF DistillationReceipts, Statuses
  <2>3. PICK memories \in SUBSET SemanticKeys : memories = new.memories \cup old.memories
    BY <1>2 DEF DistillationReceipts
  <2> DEFINE r == [new EXCEPT !.status = status, !.memories = memories,
                     !.outcome = counted.outcome, !.counts = counted.counts,
                     !.covered = counted.covered, !.admitted = counted.admitted]
  <2>4. UpsertReceipt(old, new) = r
    BY <1>2, <2>1, <2>2, <2>3 DEF UpsertReceipt, DistillationReceipts
  <2>5. counted \in DistillationReceipts
    BY <1>2, <2>1
  <2>6. /\ r \in DistillationReceipts /\ r.archived = new.archived /\ r.prune = new.prune
        /\ r.counts = counted.counts /\ r.memories = memories /\ r.status = status
    BY <2>5 DEF DistillationReceipts
  <2> HIDE DEF r
  <2> QED
    BY <1>2, <2>1, <2>2, <2>3, <2>4, <2>6, NoneAssumption
<1> QED
  BY <1>1, <1>2

(* What a put leaves of a curation record. *)
LEMMA UpsertRecordFacts ==
  ASSUME NEW old \in CurationRecord \cup {None}, NEW new \in CurationRecord
  PROVE  LET r == UpsertRecord(old, new) IN
         /\ r \in CurationRecord /\ r # None
         /\ \/ Canonicalized(old) /\ new.memory = None /\ r = old
            \/ /\ ~Canonicalized(old) \/ new.memory # None
               /\ r.outcome = new.outcome /\ r.memory = new.memory
               /\ new.cand # None => r.cand = new.cand
<1>1. CASE Canonicalized(old) /\ new.memory = None
  BY <1>1, NoneAssumption DEF UpsertRecord, Canonicalized
<1>2. CASE ~(Canonicalized(old) /\ new.memory = None)
  <2>1. PICK cand \in CandidateIds \cup {None} :
          cand = IF new.cand = None /\ old # None THEN old.cand ELSE new.cand
    BY DEF CurationRecord
  <2> DEFINE r == [new EXCEPT !.cand = cand]
  <2>2. UpsertRecord(old, new) = r
    BY <1>2, <2>1 DEF UpsertRecord, Canonicalized
  <2>3. r \in CurationRecord /\ r.outcome = new.outcome /\ r.memory = new.memory /\ r.cand = cand
    BY DEF CurationRecord
  <2> HIDE DEF r
  <2> QED
    BY <1>2, <2>1, <2>2, <2>3, NoneAssumption
<1> QED
  BY <1>1, <1>2

(* The units of a run's source. *)
LEMMA UnitFacts ==
  ASSUME NEW p \in Processes, NEW n \in Indices(p)
  PROVE  /\ <<SourceOf[p], n>> \in Units /\ SourceOf[p] \in Sources
         /\ KeyOf[<<SourceOf[p], n>>] \in SemanticKeys /\ TextOf[<<SourceOf[p], n>>] \in Texts
<1>1. SourceOf[p] \in Sources
  BY UnitsAssumption
<1>2. <<SourceOf[p], n>> \in Units
  BY <1>1 DEF Units, Indices
<1> QED
  BY <1>1, <1>2, UnitsAssumption

-----------------------------------------------------------------------------
(* A step of process p, to state st, and what it leaves alone: memories    *)
(* stay, only the candidate in hand changes or unused ones, only it can be *)
(* committed, and of records and receipts only those of p's source change. *)
Frame(p, st) ==
  /\ process' = [process EXCEPT ![p] = st]
  /\ process[p].phase # "absent" /\ st.phase # "absent"
  /\ \A k \in SemanticKeys : heads[k] # None => heads'[k] # None
  /\ \A d \in CandidateIds :
       \/ candidates'[d] = candidates[d] \/ Unused(d)
       \/ process[p].phase \in Holding /\ d = process[p].cand
  /\ commits \subseteq commits'
  /\ \A x \in commits' :
       x \in commits \/ (process[p].phase \in Holding /\ x.cand = process[p].cand)
  /\ st.cand \in {None, process[p].cand} \/ Unused(st.cand)
  /\ st.previous \in {None, process[p].previous, process[p].cand}
  /\ \A u \in Units : u # Unit(p) => records'[u] = records[u]
  /\ \A s \in Sources : s # SourceOf[p] => receipts'[s] = receipts[s]
  /\ UNCHANGED refresh

(* Other runs keep their places and what they hold. *)
LEMMA OthersKeep ==
  ASSUME Types, Bound, NEW p \in Processes, NEW st \in ProcessStates, Frame(p, st),
         NEW q \in Processes, q # p
  PROVE  (Placed(q, process[q]) /\ Owned(q, process[q]))'
<1>1. PICK t \in ProcessStates : t = process[q]
  BY DEF Types
<1>2. process'[q] = t
  BY <1>1 DEF Frame, Types
<1>3. Placed(q, t) /\ Owned(q, t)
  BY <1>1 DEF Bound
<1>4. Placed(q, t)'
  <2>1. t.phase \in Admitting => KeyOf[UnitOf(q, t)] \in SemanticKeys
    <3>1. t.phase \in Admitting => t.unit \in Indices(q)
      BY <1>3 DEF Placed, Mid
    <3> QED
      BY <3>1, UnitFacts DEF UnitOf
  <2> QED
    BY <1>3, <2>1 DEF Placed, Frame, UnitOf
<1>5. ASSUME NEW d \in CandidateIds, d = t.cand \/ d = t.previous
      PROVE  candidates'[d] = candidates[d]
  <2>1. ~Unused(d)
    BY <1>1, <1>5 DEF Unused
  <2>2. process[p].phase \in Holding => d # process[p].cand
    BY <1>1, <1>5 DEF Bound, Distinct, Owned
  <2> QED
    BY <2>1, <2>2 DEF Frame
<1>6. ASSUME NEW d \in CandidateIds, d = t.cand \/ d = t.previous, NEW x \in commits', x.cand = d
      PROVE  x \in commits
  BY <1>1, <1>6 DEF Bound, Distinct, Owned, Frame
<1>7. t.cand \in CandidateIds \cup {None} /\ t.previous \in CandidateIds \cup {None}
  BY DEF ProcessStates
<1>8. Owned(q, t)'
  <2>1. t.phase \in Holding =>
       /\ t.cand # None /\ candidates'[t.cand] # None /\ candidates'[t.cand].op = t.op
       /\ t.cand # t.previous /\ \A x \in commits' : x.cand # t.cand
    BY <1>3, <1>5, <1>6, <1>7 DEF Owned
  <2>2. t.phase = "collided" => candidates'[t.cand].status = "CONFLICT"
    BY <1>3, <1>5, <1>7 DEF Owned, Holding
  <2>3. t.previous # None =>
       candidates'[t.previous].status = "CONFLICT" /\ \A x \in commits' : x.cand # t.previous
    BY <1>3, <1>5, <1>6, <1>7 DEF Owned
  <2>4. t.memory # None =>
       /\ t.cand # None /\ candidates'[t.cand].status = "ACCEPTED"
       /\ t.decision = CanonicalOutcome(candidates'[t.cand].op)
       /\ t.memory = KeyOf[UnitOf(q, t)] /\ t.memory \in t.receipt.memories
       /\ \E x \in commits' : x.unit = UnitOf(q, t) /\ x.cand = t.cand /\ x.memory = t.memory
    BY <1>3, <1>5, <1>7 DEF Owned, Frame
  <2> QED
    BY <1>3, <2>1, <2>2, <2>3, <2>4 DEF Owned, UnitOf, CanonicalOutcome
<1> QED
  BY <1>2, <1>4, <1>8

(* A record that stays as it is stays true. *)
LEMMA RecordsKeep ==
  ASSUME Types, Bound, NEW p \in Processes, NEW st \in ProcessStates, Frame(p, st),
         NEW u \in Units, records'[u] = records[u]
  PROVE  RecordSound(u, records[u])'
<1>1. PICK r \in CurationRecord \cup {None} : r = records[u]
  BY DEF Types, TypeOK
<1>2. RecordSound(u, r)
  BY <1>1 DEF Bound
<1>3. CASE Canonicalized(r)
  <2>1. PICK x \in commits : x.unit = u /\ x.cand = r.cand /\ x.memory = r.memory
    BY <1>2, <1>3 DEF RecordSound
  <2>2. r.cand \in CandidateIds /\ r # None
    BY <1>1, <1>2, <1>3 DEF RecordSound, CurationRecord, Canonicalized
  <2>3. ~Unused(r.cand)
    BY <1>1, <2>2 DEF Unused
  <2>4. process[p].phase \in Holding => r.cand # process[p].cand
    BY <2>1 DEF Bound, Owned
  <2>5. candidates'[r.cand] = candidates[r.cand] /\ x \in commits'
    BY <2>1, <2>2, <2>3, <2>4 DEF Frame
  <2>6. RecordSound(u, r)'
    BY <1>2, <1>3, <2>1, <2>5 DEF RecordSound, Backs
  <2> QED
    BY <1>1, <2>6
<1>4. CASE ~Canonicalized(r)
  BY <1>1, <1>4 DEF RecordSound
<1> QED
  BY <1>3, <1>4

(* Runs, candidates and records stay bound if the step's own are. *)
LEMMA BoundStep ==
  ASSUME Types, Bound, NEW p \in Processes, NEW st \in ProcessStates, Frame(p, st),
         Placed(p, st)', Owned(p, st)',
         \A u \in Units : u = Unit(p) /\ records'[u] # records[u] => RecordSound(u, records[u])'
  PROVE  Bound'
<1>1. process'[p] = st /\ \A q \in Processes : q # p => process'[q] = process[q]
  BY DEF Frame, Types
<1>2. \A q \in Processes : (Placed(q, process[q]) /\ Owned(q, process[q]))'
  BY <1>1, OthersKeep
<1>3. Distinct'
  <2>1. \A q \in Processes : q # p =>
          /\ st.cand # None => st.cand # process[q].cand /\ st.cand # process[q].previous
          /\ process[q].cand # None => process[q].cand # st.cand /\ process[q].cand # st.previous
    <3> SUFFICES ASSUME NEW q \in Processes, q # p
                 PROVE  /\ st.cand # None => st.cand # process[q].cand /\ st.cand # process[q].previous
                        /\ process[q].cand # None =>
                             process[q].cand # st.cand /\ process[q].cand # st.previous
      OBVIOUS
    <3>1. process[p].cand # None =>
            process[p].cand # process[q].cand /\ process[p].cand # process[q].previous
      BY DEF Bound, Distinct
    <3>2. process[q].cand # None =>
            process[q].cand # process[p].cand /\ process[q].cand # process[p].previous
      BY DEF Bound, Distinct
    <3>3. Unused(st.cand) => st.cand # process[q].cand /\ st.cand # process[q].previous
      BY DEF Unused
    <3> QED
      BY <3>1, <3>2, <3>3 DEF Frame
  <2>2. \A q, r \in Processes : q # p /\ r # p /\ q # r /\ process[q].cand # None =>
          process[q].cand # process[r].cand /\ process[q].cand # process[r].previous
    BY DEF Bound, Distinct
  <2> QED
    BY <1>1, <2>1, <2>2 DEF Distinct
<1>4. \A u \in Units : RecordSound(u, records[u])'
  <2> SUFFICES ASSUME NEW u \in Units PROVE RecordSound(u, records[u])'
    OBVIOUS
  <2>1. CASE records'[u] = records[u]
    BY <2>1, RecordsKeep
  <2>2. CASE records'[u] # records[u]
    BY <2>2 DEF Frame
  <2> QED
    BY <2>1, <2>2
<1> QED
  BY <1>2, <1>3, <1>4 DEF Bound

(* Receipts and runs list what was committed, if the step's own do. *)
LEMMA LedgerStep ==
  ASSUME Types, Ledger, NEW p \in Processes, NEW st \in ProcessStates, Frame(p, st),
         Noted(p, st)',
         NEW s \in Sources, s = SourceOf[p],
         receipts'[s] # None => \A k \in receipts'[s].memories : Committed(s, k)',
         \A u \in Units : u = Unit(p) /\ Canonicalized(records[u]) =>
           Canonicalized(records'[u]) /\ records'[u].memory = records[u].memory
  PROVE  Ledger'
<1>1. process'[p] = st /\ \A q \in Processes : q # p => process'[q] = process[q]
  BY DEF Frame, Types
<1>2. \A t, k : Committed(t, k) => Committed(t, k)'
  BY DEF Committed, Frame
<1>3. \A u \in Units : Canonicalized(records[u]) =>
        Canonicalized(records'[u]) /\ records'[u].memory = records[u].memory
  BY DEF Frame
<1>4. ASSUME NEW q \in Processes, q # p PROVE Noted(q, process[q])'
  <2>1. PICK t \in ProcessStates : t = process[q]
    BY DEF Types
  <2>2. Noted(q, t) /\ process'[q] = t
    BY <1>1, <1>4, <2>1 DEF Ledger
  <2>3. \A i \in Indices(q) : <<SourceOf[q], i>> \in Units
    BY UnitFacts
  <2>4. Noted(q, t)'
    BY <1>2, <1>3, <2>2, <2>3 DEF Noted
  <2> QED
    BY <2>2, <2>4
<1>5. \A q \in Processes : Noted(q, process[q])'
  BY <1>1, <1>4
<1>6. \A t \in Sources : receipts'[t] # None => \A k \in receipts'[t].memories : Committed(t, k)'
  <2>1. ASSUME NEW t \in Sources, t # s, receipts'[t] # None, NEW k \in receipts'[t].memories
        PROVE  Committed(t, k)'
    BY <1>2, <2>1 DEF Frame, Ledger
  <2> QED
    BY <2>1
<1>7. (refresh # None /\ refresh.receipt # None =>
        \A k \in refresh.receipt.memories : Committed(refresh.source, k))'
  <2>1. UNCHANGED refresh
    BY DEF Frame
  <2>2. ASSUME NEW t, t = refresh.source, refresh # None /\ refresh.receipt # None,
               NEW k \in refresh.receipt.memories
        PROVE  Committed(t, k)'
    BY <1>2, <2>2 DEF Ledger
  <2> QED
    BY <2>1, <2>2 DEF Committed
<1> QED
  BY <1>5, <1>6, <1>7 DEF Ledger

-----------------------------------------------------------------------------
(* Which processes are there does not change. *)
LEMMA HostsStay ==
  ASSUME Types, NEW p \in Processes, NEW st \in ProcessStates, Frame(p, st), NEW s
  PROVE  OneHost(s)' <=> OneHost(s)
<1>1. \A q \in Processes : (process'[q].phase = "absent") <=> (process[q].phase = "absent")
  BY DEF Frame, Types
<1> QED
  BY <1>1 DEF OneHost

(* One that is there is the only one of its source, where there is one. *)
LEMMA HostIsSingle ==
  ASSUME NEW p \in Processes, process[p].phase # "absent", OneHost(SourceOf[p])
  PROVE  Single(p)
BY DEF OneHost, Single

(* A single run is not disturbed by the runs of other sources. *)
LEMMA OthersRun ==
  ASSUME Types, Runs, NEW p \in Processes, NEW st \in ProcessStates, Frame(p, st),
         NEW q \in Processes, q # p
  PROVE  RunSound(q, process[q])'
<1>1. PICK t \in ProcessStates : t = process[q]
  BY DEF Types
<1>2. RunSound(q, t) /\ process'[q] = t
  BY <1>1 DEF Runs, Frame, Types
<1>3. CASE Single(q)
  <2>1. SourceOf[p] # SourceOf[q] /\ SourceOf[q] \in Sources
    BY <1>3, UnitsAssumption DEF Single
  <2>2. receipts'[SourceOf[q]] = receipts[SourceOf[q]]
    BY <2>1 DEF Frame
  <2>3. \A i \in Indices(q) : records'[<<SourceOf[q], i>>] = records[<<SourceOf[q], i>>]
    BY <2>1, UnitFacts DEF Frame, Unit
  <2>4. RunSound(q, t)'
    BY <1>2, <2>2, <2>3 DEF RunSound, Settled, Listed
  <2> QED
    BY <1>2, <2>4
<1>4. CASE ~Single(q)
  <2>1. RunSound(q, t)'
    BY <1>2, <1>4 DEF RunSound
  <2> QED
    BY <1>2, <2>1
<1> QED
  BY <1>3, <1>4

(* Receipts stay true if the step's own does. *)
LEMMA RunsStep ==
  ASSUME Types, Runs, NEW p \in Processes, NEW st \in ProcessStates, Frame(p, st),
         RunSound(p, st)', NEW s \in Sources, s = SourceOf[p], ReceiptSound(s)', RefreshSound'
  PROVE  Runs'
<1>1. process'[p] = st
  BY DEF Frame, Types
<1>2. \A q \in Processes : RunSound(q, process[q])'
  BY <1>1, OthersRun
<1>3. ASSUME NEW t \in Sources, t # s PROVE ReceiptSound(t)'
  <2>1. receipts'[t] = receipts[t] /\ ReceiptSound(t) /\ (OneHost(t)' <=> OneHost(t))
    BY <1>3, HostsStay DEF Frame, Runs
  <2>2. \A i \in 1 .. UnitCount[t] : records'[<<t, i>>] = records[<<t, i>>]
    <3> SUFFICES ASSUME NEW i \in 1 .. UnitCount[t] PROVE records'[<<t, i>>] = records[<<t, i>>]
      OBVIOUS
    <3>1. <<t, i>> \in Units
      BY DEF Units
    <3> QED
      BY <1>3, <3>1 DEF Frame, Unit
  <2> QED
    BY <2>1, <2>2 DEF ReceiptSound, Settled, Listed
<1> QED
  BY <1>2, <1>3 DEF Runs

(* A step that does not put a receipt. *)
LEMMA QuietRuns ==
  ASSUME Types, Runs, NEW p \in Processes, NEW st \in ProcessStates, Frame(p, st),
         UNCHANGED receipts, UNCHANGED records \/ process[p].phase \in Running,
         RunSound(p, st)'
  PROVE  Runs'
<1>1. PICK s \in Sources : s = SourceOf[p]
  BY UnitsAssumption
<1>2. \A t : OneHost(t)' <=> OneHost(t)
  BY HostsStay
<1>3. ReceiptSound(s) /\ RefreshSound
  BY DEF Runs
<1>4. RefreshSound'
  <2>1. UNCHANGED <<refresh, receipts>>
    BY DEF Frame
  <2>2. refresh # None => (OneHost(refresh.source)' <=> OneHost(refresh.source))
    BY <1>2, <2>1
  <2> QED
    BY <1>3, <2>1, <2>2 DEF RefreshSound
<1>5. ReceiptSound(s)'
  <2>1. CASE UNCHANGED records
    BY <1>2, <1>3, <2>1 DEF ReceiptSound, Settled, Listed
  <2>2. CASE process[p].phase \in Running /\ OneHost(s)
    <3>1. receipts[s] # None => receipts[s].status # "complete"
      BY <1>1, <2>2, HostIsSingle DEF Frame, Runs, RunSound
    <3> QED
      BY <1>2, <1>3, <2>2, <3>1 DEF ReceiptSound
  <2>3. CASE ~OneHost(s)
    BY <1>2, <2>3 DEF ReceiptSound
  <2> QED
    BY <2>1, <2>2, <2>3
<1> QED
  BY <1>1, <1>4, <1>5, RunsStep

(* A step that puts one. *)
LEMMA PutRuns ==
  ASSUME Types, Runs, NEW p \in Processes, NEW st \in ProcessStates, Frame(p, st),
         NEW rec \in DistillationReceipts, PutReceipt(p, rec), UNCHANGED records, ~rec.prune,
         process[p].phase \in Running \/ (rec.archived /\ rec.status # "awaiting_review"),
         rec.status = "complete" /\ Single(p) => \A i \in Indices(p) :
           Settled(<<SourceOf[p], i>>) /\ Listed(<<SourceOf[p], i>>, rec),
         RunSound(p, st)'
  PROVE  Runs'
<1>1. PICK s \in Sources : s = SourceOf[p]
  BY UnitsAssumption
<1>2. \A t : OneHost(t)' <=> OneHost(t)
  BY HostsStay
<1>3. ReceiptSound(s) /\ RefreshSound
  BY DEF Runs
<1>4. PICK old \in DistillationReceipts \cup {None} : old = receipts[s]
  BY DEF Types, TypeOK
<1>5. PICK new \in DistillationReceipts : new = UpsertReceipt(old, rec)
  BY UpsertReceiptFacts
<1>6. receipts'[s] = new
  BY <1>1, <1>4, <1>5 DEF PutReceipt, Types, TypeOK
<1>7. /\ new # None /\ new.archived = rec.archived /\ ~new.prune
      /\ \A k : k \in new.memories <=> k \in rec.memories \/ (old # None /\ k \in old.memories)
      /\ new.status = IF old # None /\ old.status = "complete" /\ rec.status # "awaiting_review"
                      THEN "complete" ELSE rec.status
  BY <1>5, UpsertReceiptFacts
<1>8. OneHost(s) => Single(p)
  BY <1>1, HostIsSingle DEF Frame
<1>9. process[p].phase \in Running /\ OneHost(s) => (old # None => old.status # "complete")
  BY <1>1, <1>4, <1>8 DEF Runs, RunSound
<1>10. ReceiptSound(s)'
  <2>1. CASE OneHost(s) /\ new.status = "complete"
    <3>1. CASE rec.status = "complete"
      <4>1. \A i \in 1 .. UnitCount[s] : Settled(<<s, i>>) /\ Listed(<<s, i>>, rec)
        BY <1>1, <1>8, <2>1, <3>1 DEF Indices
      <4>2. \A i \in 1 .. UnitCount[s] : Settled(<<s, i>>) /\ Listed(<<s, i>>, new)
        BY <1>7, <4>1 DEF Listed
      <4>3. \A i \in 1 .. UnitCount[s] : Settled(<<s, i>>)' /\ Listed(<<s, i>>, new)'
        BY <4>2 DEF Settled, Listed
      <4> QED
        BY <1>6, <1>7, <4>3 DEF ReceiptSound, Listed
    <3>2. CASE rec.status # "complete"
      <4>1. old # None /\ old.status = "complete"
        BY <1>7, <2>1, <3>2
      <4>2. \A i \in 1 .. UnitCount[s] : Settled(<<s, i>>) /\ Listed(<<s, i>>, old)
        BY <1>3, <1>4, <2>1, <4>1 DEF ReceiptSound
      <4>3. \A i \in 1 .. UnitCount[s] : Settled(<<s, i>>) /\ Listed(<<s, i>>, new)
        BY <1>7, <4>1, <4>2 DEF Listed
      <4>4. \A i \in 1 .. UnitCount[s] : Settled(<<s, i>>)' /\ Listed(<<s, i>>, new)'
        BY <4>3 DEF Settled, Listed
      <4> QED
        BY <1>6, <1>7, <4>4 DEF ReceiptSound, Listed
    <3> QED
      BY <3>1, <3>2
  <2>2. CASE ~(OneHost(s) /\ new.status = "complete")
    BY <1>2, <1>6, <1>7, <2>2 DEF ReceiptSound
  <2> QED
    BY <2>1, <2>2
<1>11. RefreshSound'
  <2>1. UNCHANGED refresh /\ \A t \in Sources : t # s => receipts'[t] = receipts[t]
    BY <1>1 DEF Frame
  <2>2. CASE refresh = None
    BY <2>1, <2>2 DEF RefreshSound
  <2>3. CASE refresh # None
    <3>1. PICK t \in Sources : t = refresh.source
      BY <2>3 DEF Types, Refreshes
    <3>2. OneHost(refresh.source)' <=> OneHost(t)
      BY <1>2, <2>1, <3>1
    <3>3. CASE t # s
      BY <1>3, <2>1, <3>1, <3>2, <3>3 DEF RefreshSound
    <3>4. CASE t = s /\ OneHost(s) /\ old # None /\ old.status = "complete"
      <4>1. rec.archived /\ new.status = "complete"
        BY <1>7, <1>9, <3>4
      <4> QED
        BY <1>3, <1>4, <1>6, <1>7, <2>1, <3>1, <3>2, <3>4, <4>1 DEF RefreshSound
    <3>5. CASE t = s /\ OneHost(s) /\ ~(old # None /\ old.status = "complete")
      BY <1>3, <1>4, <2>1, <3>1, <3>2, <3>5 DEF RefreshSound
    <3>6. CASE ~OneHost(t)
      BY <3>2, <3>6 DEF RefreshSound
    <3> QED
      BY <3>3, <3>4, <3>5, <3>6
  <2> QED
    BY <2>2, <2>3
<1> QED
  BY <1>1, <1>10, <1>11, RunsStep


-----------------------------------------------------------------------------
(* What a run does outside its own variables, one lemma for each table     *)
(* that it writes: what has to be shown of the new state st.               *)
Steps(p, st) ==
  /\ process' = [process EXCEPT ![p] = st]
  /\ process[p].phase # "absent" /\ st.phase # "absent"
  /\ st.cand \in {None, process[p].cand} \/ Unused(st.cand)
  /\ st.previous \in {None, process[p].previous, process[p].cand}
  /\ faults' \in Nat
  /\ UNCHANGED refresh

(* It writes no more than candidates. *)
LEMMA CandidateStep ==
  ASSUME DistillationInv, NEW p \in Processes, NEW st \in ProcessStates, Steps(p, st),
         UNCHANGED <<heads, commits, records, receipts>>,
         candidates' \in [CandidateIds -> Candidates \cup {None}],
         \A d \in CandidateIds :
           \/ candidates'[d] = candidates[d] \/ Unused(d)
           \/ process[p].phase \in Holding /\ d = process[p].cand,
         Placed(p, st), Owned(p, st)', Noted(p, st), RunSound(p, st)
  PROVE  DistillationInv'
<1> USE DEF DistillationInv
<1>1. Frame(p, st)
  BY DEF Frame, Steps
<1>2. Types'
  BY DEF Types, TypeOK, Steps
<1>3. Placed(p, st)' /\ Noted(p, st)' /\ RunSound(p, st)'
  BY DEF Placed, Noted, Committed, RunSound, Settled, Listed
<1>4. Bound'
  BY <1>1, <1>3, BoundStep
<1>5. Ledger'
  <2>1. PICK s \in Sources : s = SourceOf[p]
    BY UnitsAssumption
  <2>2. receipts'[s] # None => \A k \in receipts'[s].memories : Committed(s, k)'
    BY DEF Ledger, Committed
  <2> QED
    BY <1>1, <1>3, <2>1, <2>2, LedgerStep
<1>6. Runs'
  BY <1>1, <1>3, QuietRuns
<1> QED
  BY <1>2, <1>4, <1>5, <1>6

(* It writes nothing. *)
LEMMA QuietStep ==
  ASSUME DistillationInv, NEW p \in Processes, NEW st \in ProcessStates, Steps(p, st),
         UNCHANGED store, Placed(p, st), Owned(p, st), Noted(p, st), RunSound(p, st)
  PROVE  DistillationInv'
<1>1. UNCHANGED <<heads, commits, records, receipts, candidates>>
  BY DEF store
<1>2. Owned(p, st)'
  BY <1>1 DEF Owned
<1>3. candidates' \in [CandidateIds -> Candidates \cup {None}]
  BY <1>1 DEF DistillationInv, Types, TypeOK
<1> QED
  BY <1>1, <1>2, <1>3, CandidateStep

(* It puts a receipt. *)
LEMMA PutStep ==
  ASSUME DistillationInv, NEW p \in Processes, NEW st \in ProcessStates, Steps(p, st),
         UNCHANGED <<heads, commits, candidates, records>>,
         NEW rec \in DistillationReceipts, PutReceipt(p, rec), ~rec.prune,
         \A o \in Outcomes : rec.counts[o] <= UnitCount[SourceOf[p]],
         \A k \in rec.memories : Committed(SourceOf[p], k),
         process[p].phase \in Running \/ (rec.archived /\ rec.status # "awaiting_review"),
         rec.status = "complete" /\ Single(p) => \A i \in Indices(p) :
           Settled(<<SourceOf[p], i>>) /\ Listed(<<SourceOf[p], i>>, rec),
         st.phase \in Running => process[p].phase \in Running /\ rec.status # "complete",
         Placed(p, st), Owned(p, st), Noted(p, st), RunSound(p, st)
  PROVE  DistillationInv'
<1> USE DEF DistillationInv
<1>1. PICK s \in Sources : s = SourceOf[p]
  BY UnitsAssumption
<1>2. PICK old \in DistillationReceipts \cup {None} : old = receipts[s]
  BY DEF Types, TypeOK
<1>3. PICK new \in DistillationReceipts : new = UpsertReceipt(old, rec)
  BY UpsertReceiptFacts
<1>4. receipts' = [receipts EXCEPT ![s] = new]
  BY <1>1, <1>2, <1>3 DEF PutReceipt, Types, TypeOK
<1>5. receipts'[s] = new /\ \A t \in Sources : t # s => receipts'[t] = receipts[t]
  BY <1>4 DEF Types, TypeOK
<1>6. /\ new # None
      /\ \A k : k \in new.memories <=> k \in rec.memories \/ (old # None /\ k \in old.memories)
      /\ new.status = IF old # None /\ old.status = "complete" /\ rec.status # "awaiting_review"
                      THEN "complete" ELSE rec.status
  BY <1>3, UpsertReceiptFacts
<1>14. new.counts = rec.counts \/ (old # None /\ new.counts = old.counts)
  BY <1>3, UpsertReceiptFacts
<1>7. Frame(p, st)
  BY <1>1, <1>5 DEF Frame, Steps
<1>8. Types'
  <2>1. receipts' \in [Sources -> DistillationReceipts \cup {None}]
    BY <1>4 DEF Types, TypeOK
  <2>2. \A t \in Sources : receipts'[t] # None =>
          \A o \in Outcomes : receipts'[t].counts[o] <= UnitCount[t]
    BY <1>1, <1>2, <1>5, <1>14 DEF Types, TypeOK
  <2> QED
    BY <2>1, <2>2 DEF Types, TypeOK, Steps
<1>9. Placed(p, st)' /\ Owned(p, st)' /\ Noted(p, st)'
  BY DEF Placed, Owned, Noted, Committed
<1>10. RunSound(p, st)'
  <2>1. Single(p) /\ st.phase \in Running => receipts'[s].status # "complete"
    BY <1>1, <1>2, <1>5, <1>6 DEF Runs, RunSound
  <2> QED
    BY <1>1, <2>1 DEF RunSound, Settled, Listed
<1>11. Bound'
  BY <1>7, <1>9, BoundStep
<1>12. Ledger'
  <2>1. \A k \in new.memories : Committed(s, k)
    BY <1>1, <1>2, <1>6 DEF Ledger
  <2>2. receipts'[s] # None => \A k \in receipts'[s].memories : Committed(s, k)'
    BY <1>5, <2>1 DEF Committed
  <2> QED
    BY <1>1, <1>7, <1>9, <2>2, LedgerStep
<1>13. Runs'
  BY <1>7, <1>10, PutRuns
<1> QED
  BY <1>8, <1>11, <1>12, <1>13

(* It puts the record of the unit in hand. *)
LEMMA RecordStep ==
  ASSUME DistillationInv, NEW p \in Processes, NEW st \in ProcessStates, Steps(p, st),
         UNCHANGED <<heads, commits, candidates, receipts>>,
         process[p].phase \in Mid, NEW outcome \in Outcomes, NEW cand \in CandidateIds \cup {None},
         NEW memory \in {None, process[p].memory}, PutRecord(p, outcome, cand, memory),
         memory # None => cand = process[p].cand /\ outcome = process[p].decision,
         Placed(p, st), Owned(p, st), Noted(p, st), RunSound(p, st)'
  PROVE  DistillationInv'
<1> USE DEF DistillationInv
<1>1. PICK t \in ProcessStates : t = process[p]
  BY DEF Types
<1>2. Placed(p, t) /\ Owned(p, t) /\ RunSound(p, t)
  BY <1>1 DEF Bound, Runs
<1>3. PICK u \in Units : u = Unit(p) /\ u = UnitOf(p, t)
  BY <1>1, <1>2, UnitFacts DEF Placed, Unit, UnitOf
<1>4. PICK new \in CurationRecord : new = [outcome |-> outcome, cand |-> cand, memory |-> memory]
  BY <1>1 DEF CurationRecord, ProcessStates
<1>5. PICK old \in CurationRecord \cup {None} : old = records[u]
  BY DEF Types, TypeOK
<1>6. PICK r \in CurationRecord : r = UpsertRecord(old, new)
  BY UpsertRecordFacts
<1>7. records' = [records EXCEPT ![u] = r]
  BY <1>3, <1>4, <1>5, <1>6 DEF PutRecord, Types, TypeOK
<1>8. records'[u] = r /\ \A v \in Units : v # u => records'[v] = records[v]
  BY <1>7 DEF Types, TypeOK
<1>9. new.outcome = outcome /\ new.cand = cand /\ new.memory = memory
  BY <1>4
<1>10. \/ Canonicalized(old) /\ memory = None /\ r = old
       \/ /\ ~Canonicalized(old) \/ memory # None
          /\ r.outcome = outcome /\ r.memory = memory
          /\ cand # None => r.cand = cand
  BY <1>6, <1>9, UpsertRecordFacts
<1>11. Frame(p, st)
  BY <1>3, <1>8 DEF Frame, Steps
<1>12. Types'
  <2>1. records' \in [Units -> CurationRecord \cup {None}]
    BY <1>7 DEF Types, TypeOK
  <2> QED
    BY <2>1 DEF Types, TypeOK, Steps
<1>13. RecordSound(u, old)
  BY <1>5 DEF Bound
<1>14. RecordSound(u, r)
  <2>1. CASE r = old
    BY <1>13, <2>1
  <2>2. CASE r.memory # None /\ r.outcome = outcome /\ r.memory = memory /\ (cand # None => r.cand = cand)
    <3>1. t.memory # None /\ memory = t.memory /\ cand = t.cand /\ outcome = t.decision
      BY <1>1, <2>2
    <3>2. /\ t.cand # None /\ candidates[t.cand].status = "ACCEPTED"
          /\ t.decision = CanonicalOutcome(candidates[t.cand].op)
          /\ t.memory = KeyOf[u]
          /\ \E x \in commits : x.unit = u /\ x.cand = t.cand /\ x.memory = t.memory
      BY <1>2, <1>3, <3>1 DEF Owned
    <3> QED
      BY <2>2, <3>1, <3>2, NoneAssumption DEF RecordSound, Backs, CanonicalOutcome
  <2>3. CASE r.memory = None
    BY <2>3 DEF RecordSound, Canonicalized
  <2> QED
    BY <1>10, <2>1, <2>2, <2>3
<1>15. Canonicalized(old) => Canonicalized(r) /\ r.memory = old.memory
  <2>1. CASE memory # None
    <3>1. memory = KeyOf[u]
      BY <1>1, <1>2, <1>3, <2>1 DEF Owned
    <3> QED
      BY <1>10, <1>13, <2>1, <3>1, NoneAssumption DEF RecordSound, Canonicalized
  <2>2. CASE memory = None
    BY <1>10, <2>2
  <2> QED
    BY <2>1, <2>2
<1>16. Placed(p, st)' /\ Owned(p, st)'
  BY DEF Placed, Owned
<1>17. \A v \in Units : Canonicalized(records[v]) =>
         Canonicalized(records'[v]) /\ records'[v].memory = records[v].memory
  BY <1>5, <1>8, <1>15
<1>18. Noted(p, st)'
  <2>1. \A i \in Indices(p) : <<SourceOf[p], i>> \in Units
    BY UnitFacts
  <2> QED
    BY <1>17, <2>1 DEF Noted, Committed
<1>19. RecordSound(u, r)'
  BY <1>14 DEF RecordSound, Backs
<1>20. Bound'
  BY <1>3, <1>8, <1>11, <1>16, <1>19, BoundStep
<1>21. Ledger'
  <2>1. PICK s \in Sources : s = SourceOf[p]
    BY UnitsAssumption
  <2>2. receipts'[s] # None => \A k \in receipts'[s].memories : Committed(s, k)'
    BY DEF Ledger, Committed
  <2> QED
    BY <1>11, <1>17, <1>18, <2>1, <2>2, LedgerStep
<1>22. Runs'
  BY <1>11, QuietRuns DEF Running, Loop
<1> QED
  BY <1>12, <1>20, <1>21, <1>22


-----------------------------------------------------------------------------
(* A run that ends, as it should or not. *)
LEMMA IdleSound ==
  ASSUME NEW p \in Processes
  PROVE  Placed(p, Idle) /\ Owned(p, Idle) /\ Noted(p, Idle) /\ RunSound(p, Idle)
<1>1. UnitCount[SourceOf[p]] \in Nat
  BY UnitsAssumption
<1>2. "idle" \notin Running /\ "idle" \notin Loop \cup {"close", "closed"}
  BY DEF Running, Loop, Mid, Admitting
<1>3. Placed(p, Idle)
  BY <1>1, <1>2, IdleFacts DEF Placed, Loop, Mid
<1>4. Owned(p, Idle)
  BY <1>2, IdleFacts DEF Owned, Loop, Mid, Admitting, Holding
<1>5. Noted(p, Idle) /\ RunSound(p, Idle)
  BY <1>2, IdleFacts DEF Noted, RunSound, Running
<1> QED
  BY <1>3, <1>4, <1>5

(* Nothing is written, *)
LEMMA StopStep ==
  ASSUME DistillationInv, NEW p \in Processes, SetProcess(p, Idle), UNCHANGED <<store, refresh>>,
         process[p].phase # "absent", faults' \in Nat
  PROVE  DistillationInv'
<1>1. Steps(p, Idle)
  BY IdleFacts DEF Steps, SetProcess
<1> QED
  BY <1>1, IdleFacts, IdleSound, QuietStep

(* or the receipt says failed. *)
LEMMA FailStep ==
  ASSUME DistillationInv, NEW p \in Processes, Fail(p),
         UNCHANGED <<heads, commits, candidates, records, refresh>>,
         process[p].phase \notin {"idle", "absent"}, faults' \in Nat
  PROVE  DistillationInv'
<1>1. PICK t \in ProcessStates : t = process[p] /\ Placed(p, t) /\ Noted(p, t)
  BY DEF DistillationInv, Types, Bound, Ledger
<1>2. t.receipt \in DistillationReceipts
  BY DEF ProcessStates
<1> DEFINE rec == [t.receipt EXCEPT !.status = "failed", !.admitted = FALSE, !.prune = FALSE]
<1>3. /\ rec \in DistillationReceipts /\ rec.status = "failed" /\ ~rec.prune
      /\ rec.counts = t.receipt.counts /\ rec.memories = t.receipt.memories
      /\ rec.archived = t.receipt.archived
  BY <1>2 DEF DistillationReceipts, Statuses
<1>4. PutReceipt(p, rec) /\ SetProcess(p, Idle)
  BY <1>1 DEF Fail
<1> HIDE DEF rec
<1>5. Steps(p, Idle)
  BY <1>4, IdleFacts DEF Steps, SetProcess
<1>6. t.phase \in Running \/ rec.archived
  BY <1>1, <1>3 DEF Placed, ProcessStates, Phases, Running
<1>7. /\ \A o \in Outcomes : rec.counts[o] <= UnitCount[SourceOf[p]]
      /\ \A k \in rec.memories : Committed(SourceOf[p], k)
  BY <1>1, <1>3 DEF Placed, Noted
<1>8. Idle.phase \notin Running
  BY IdleFacts DEF Running, Loop, Mid, Admitting
<1>9. process[p].phase \in Running \/ (rec.archived /\ rec.status # "awaiting_review")
  BY <1>1, <1>3, <1>6
<1>10. rec.status # "complete"
  BY <1>3
<1> QED
  BY <1>3, <1>4, <1>5, <1>7, <1>8, <1>9, <1>10, IdleFacts, IdleSound, PutStep

(* A fault may strike any run after its first put, and a process may die. *)
LEMMA FaultStep ==
  ASSUME DistillationInv, NEW p \in Processes, Throws(p) \/ Crash(p) \/ Return(p)
  PROVE  DistillationInv'
<1>1. faults \in Nat
  BY DEF DistillationInv, Types, TypeOK
<1>2. faults' \in Nat
  BY <1>1 DEF Throws, Crash, Return
<1>3. CASE Throws(p)
  BY <1>2, <1>3, FailStep DEF Throws
<1>4. CASE Crash(p) \/ Return(p)
  BY <1>2, <1>4, StopStep DEF Crash, Return
<1> QED
  BY <1>3, <1>4

-----------------------------------------------------------------------------
(* The stages before the units. *)
LEMMA StartStep ==
  ASSUME DistillationInv, NEW p \in Processes, Start(p)
  PROVE  DistillationInv'
<1>1. PICK s \in Sources : s = SourceOf[p]
  BY UnitsAssumption
<1>2. PICK old \in DistillationReceipts \cup {None} : old = receipts[s]
  BY DEF DistillationInv, Types, TypeOK
<1> DEFINE again == [old EXCEPT !.status = "pending", !.covered = FALSE, !.admitted = FALSE,
                                !.prune = FALSE]
<1>3. PICK rec : rec = IF old = None THEN NewReceipt ELSE again
  OBVIOUS
<1>4. /\ rec \in DistillationReceipts /\ ~rec.prune
      /\ \A o \in Outcomes : rec.counts[o] <= UnitCount[s]
      /\ \A k \in rec.memories : Committed(s, k)
  <2>1. CASE old = None
    BY <1>3, <2>1, IdleFacts, UnitsAssumption
  <2>2. CASE old # None
    <3>1. /\ again \in DistillationReceipts /\ ~again.prune /\ again.counts = old.counts
          /\ again.memories = old.memories
      BY <2>2 DEF DistillationReceipts, Statuses
    <3>2. /\ \A o \in Outcomes : old.counts[o] <= UnitCount[s]
          /\ \A k \in old.memories : Committed(s, k)
      BY <1>2, <2>2 DEF DistillationInv, Types, TypeOK, Ledger
    <3> QED
      BY <1>3, <2>2, <3>1, <3>2
  <2> QED
    BY <2>1, <2>2
<1> DEFINE st == [Idle EXCEPT !.phase = "stages", !.receipt = rec]
<1>5. SetProcess(p, st)
  BY <1>1, <1>2, <1>3 DEF Start
<1>6. st \in ProcessStates
  BY <1>4, IdleFacts DEF ProcessStates, Phases
<1>7. /\ st.phase = "stages" /\ st.receipt = rec /\ st.stage = 0 /\ st.counts = NoCounts
      /\ st.cand = None /\ st.previous = None /\ st.memory = None
  BY IdleFacts DEF ProcessStates
<1> HIDE DEF st
<1>8. process[p].phase = "idle" /\ ~Closed(old) /\ UNCHANGED <<store, refresh, faults>>
  BY <1>1, <1>2 DEF Start
<1>9. Steps(p, st)
  BY <1>5, <1>7, <1>8 DEF Steps, SetProcess, DistillationInv, Types, TypeOK
<1>10. "stages" \notin Loop
  BY DEF Loop, Mid, Admitting
<1>11. Placed(p, st)
  BY <1>1, <1>4, <1>7, <1>10, IdleFacts DEF Placed, Loop, Mid
<1>12. Owned(p, st)
  BY <1>7, <1>10 DEF Owned, Loop, Mid, Admitting, Holding
<1>13. Noted(p, st)
  BY <1>1, <1>4, <1>7, <1>10 DEF Noted
<1>14. RunSound(p, st)
  BY <1>1, <1>2, <1>4, <1>7, <1>8, <1>10 DEF RunSound, Closed, Loop
<1>15. UNCHANGED store
  BY <1>8
<1> QED
  BY <1>6, <1>9, <1>11, <1>12, <1>13, <1>14, <1>15, QuietStep

(* The stage is put and the receipt at hand follows it; nothing is closed  *)
(* yet.                                                                    *)
LEMMA AdvanceStep ==
  ASSUME DistillationInv, NEW p \in Processes, Advance(p)
  PROVE  DistillationInv'
<1>1. PICK t \in ProcessStates :
        t = process[p] /\ Placed(p, t) /\ Owned(p, t) /\ Noted(p, t) /\ RunSound(p, t)
  BY DEF DistillationInv, Types, Bound, Ledger, Runs
<1>2. t.phase = "stages" /\ t.stage \in 0 .. 4 /\ t.receipt \in DistillationReceipts
  BY <1>1 DEF Advance, ProcessStates
<1>3. PICK n \in 1 .. 5 : n = t.stage + 1
  BY <1>2
<1>4. Stages[n] \in Statuses \ {"complete", "awaiting_review"}
  BY DEF Stages, Statuses
<1>5. PICK archived \in BOOLEAN : archived = (t.receipt.archived \/ n >= 3)
  OBVIOUS
<1>6. PICK covered \in BOOLEAN : covered = (t.receipt.covered \/ n = 5)
  OBVIOUS
<1> DEFINE rec == [t.receipt EXCEPT !.status = Stages[n], !.archived = archived,
                                    !.covered = covered]
           st == [t EXCEPT !.stage = n, !.receipt = rec]
<1>7. /\ rec \in DistillationReceipts /\ rec.status = Stages[n] /\ rec.archived = archived
      /\ rec.counts = t.receipt.counts /\ rec.memories = t.receipt.memories
      /\ rec.prune = t.receipt.prune
  BY <1>2, <1>4 DEF DistillationReceipts
<1>8. PutReceipt(p, rec) /\ SetProcess(p, st)
  BY <1>1, <1>2, <1>3, <1>5, <1>6 DEF Advance, DistillationReceipts
<1> HIDE DEF rec
<1>9. st \in ProcessStates
  <2>1. n \in 0 .. 5
    OBVIOUS
  <2> QED
    BY <1>7, <2>1 DEF ProcessStates
<1>10. /\ st.phase = t.phase /\ st.receipt = rec /\ st.stage = n /\ st.counts = t.counts
       /\ st.cand = t.cand /\ st.previous = t.previous /\ st.memory = t.memory
       /\ st.decision = t.decision
  BY DEF ProcessStates
<1> HIDE DEF st
<1>11. "stages" \notin Loop /\ "stages" \in Running
  BY DEF Loop, Mid, Admitting, Running
<1>12. Placed(p, st)
  <2>1. /\ \A o \in Outcomes : st.counts[o] = 0
        /\ \A o \in Outcomes : st.receipt.counts[o] <= UnitCount[SourceOf[p]]
    BY ONLY <1>1, <1>2, <1>7, <1>10 DEF Placed
  <2>2. st.phase \notin Loop /\ st.phase \notin Mid /\ st.phase \notin Admitting
    BY ONLY <1>2, <1>10, <1>11 DEF Loop, Mid, Admitting
  <2>3. st.stage >= 3 \/ st.phase \in Loop \cup {"close", "closed"} => st.receipt.archived
    BY ONLY <1>2, <1>3, <1>5, <1>7, <1>10, <2>2
  <2> QED
    BY ONLY <2>1, <2>2, <2>3 DEF Placed
<1>13. Owned(p, st)
  BY <1>1, <1>2, <1>10, <1>11 DEF Owned, Loop, Mid, Admitting, Holding
<1>14. Noted(p, st)
  BY <1>1, <1>2, <1>7, <1>10, <1>11 DEF Noted
<1>15. RunSound(p, st)
  BY <1>1, <1>2, <1>7, <1>10, <1>11 DEF RunSound, Loop
<1>16. Steps(p, st)
  BY <1>1, <1>2, <1>8, <1>10 DEF Steps, SetProcess, Advance, DistillationInv, Types, TypeOK
<1>17. UNCHANGED <<heads, commits, candidates, records>>
  BY DEF Advance
<1>18. /\ ~rec.prune /\ rec.status # "complete"
       /\ \A o \in Outcomes : rec.counts[o] <= UnitCount[SourceOf[p]]
       /\ \A k \in rec.memories : Committed(SourceOf[p], k)
  BY <1>1, <1>2, <1>4, <1>7, <1>11 DEF RunSound, Placed, Noted
<1>19. process[p].phase \in Running
  BY <1>1, <1>2, <1>11
<1> QED
  BY <1>7, <1>8, <1>9, <1>12, <1>13, <1>14, <1>15, <1>16, <1>17, <1>18, <1>19, PutStep

(* What listByReceipt says is what the records are, before the first       *)
(* unit.                                                                   *)
LEMMA ListRecordsStep ==
  ASSUME DistillationInv, NEW p \in Processes, ListRecords(p)
  PROVE  DistillationInv'
<1>1. PICK t \in ProcessStates :
        t = process[p] /\ Placed(p, t) /\ Owned(p, t) /\ Noted(p, t) /\ RunSound(p, t)
  BY DEF DistillationInv, Types, Bound, Ledger, Runs
<1>2. t.phase = "stages" /\ t.stage = 5 /\ UNCHANGED <<store, refresh, faults>>
  BY <1>1 DEF ListRecords
<1>3. PICK prior \in PriorLists : prior = [i \in Indices(p) |-> records[<<SourceOf[p], i>>]]
  <2>1. PICK m \in Nat : m = UnitCount[SourceOf[p]]
    BY UnitsAssumption
  <2>2. \A i \in Indices(p) : records[<<SourceOf[p], i>>] \in CurationRecord \cup {None}
    BY UnitFacts DEF DistillationInv, Types, TypeOK
  <2>3. [i \in Indices(p) |-> records[<<SourceOf[p], i>>]] \in [1 .. m -> CurationRecord \cup {None}]
    BY <2>1, <2>2 DEF Indices
  <2>4. [1 .. m -> CurationRecord \cup {None}] \subseteq PriorLists
    BY DEF PriorLists
  <2> QED
    BY <2>3, <2>4
<1> DEFINE st == [t EXCEPT !.phase = "unit", !.unit = 1, !.prior = prior]
<1>4. SetProcess(p, st)
  BY <1>1, <1>3 DEF ListRecords, Indices
<1>5. st \in ProcessStates
  BY DEF ProcessStates, Phases, Loop
<1>6. /\ st.phase = "unit" /\ st.unit = 1 /\ st.prior = prior
      /\ st.receipt = t.receipt /\ st.stage = t.stage /\ st.counts = t.counts
      /\ st.cand = t.cand /\ st.previous = t.previous /\ st.memory = t.memory
  BY DEF ProcessStates
<1> HIDE DEF st
<1>7. /\ "unit" \in Loop /\ "unit" \in Running /\ "unit" \notin Mid
      /\ "stages" \in Running /\ "stages" \notin Loop /\ "stages" \notin Mid
  BY DEF Loop, Mid, Admitting, Running
<1>8. Placed(p, st)
  BY <1>1, <1>2, <1>6, <1>7, UnitsAssumption DEF Placed, Mid
<1>9. Owned(p, st)
  BY <1>1, <1>2, <1>6, <1>7 DEF Owned, Mid, Admitting, Holding
<1>10. Noted(p, st)
  BY <1>1, <1>3, <1>6 DEF Noted
<1>11. RunSound(p, st)
  BY <1>1, <1>2, <1>3, <1>6, <1>7 DEF RunSound, Indices
<1>12. Steps(p, st)
  BY <1>1, <1>2, <1>4, <1>6 DEF Steps, SetProcess, DistillationInv, Types, TypeOK
<1>13. UNCHANGED store
  BY <1>2
<1> QED
  BY <1>5, <1>8, <1>9, <1>10, <1>11, <1>12, <1>13, QuietStep


-----------------------------------------------------------------------------
(* The units. *)
SameUnit(st, t) ==
  /\ st.unit = t.unit /\ st.prior = t.prior /\ st.receipt = t.receipt
  /\ st.counts = t.counts /\ st.stage = t.stage

(* A step within a unit keeps the run's place and what it has noted. *)
LEMMA WithinUnit ==
  ASSUME NEW p \in Processes, NEW t \in ProcessStates, NEW st \in ProcessStates, SameUnit(st, t),
         Placed(p, t), Noted(p, t), RunSound(p, t), t.phase \in Loop, st.phase \in Mid,
         t.unit \in Indices(p), st.decision \in Outcomes,
         ~Canonicalized(t.prior[t.unit]) \/ t.phase \in Mid,
         st.phase \in Admitting =>
           /\ st.op \in {"create", "merge"} /\ st.text \in Texts
           /\ st.decision = CanonicalOutcome(st.op)
           /\ st.op = "merge" \/ st.phase \in {"refused", "collided"} =>
                heads[KeyOf[UnitOf(p, t)]] # None
  PROVE  Placed(p, st) /\ Noted(p, st) /\ RunSound(p, st)
<1>1. st.phase \in Loop /\ st.phase \in Running /\ t.phase \in Running /\ st.phase \notin {"stages", "close"}
  BY DEF Loop, Running, Mid, Admitting
<1>2. Placed(p, st)
  BY <1>1 DEF Placed, SameUnit, UnitOf
<1>3. Noted(p, st)
  BY <1>1 DEF Noted, SameUnit
<1>4. RunSound(p, st)
  BY <1>1 DEF RunSound, SameUnit
<1> QED
  BY <1>2, <1>3, <1>4

(* A reused unit is settled, and its memory was committed for the source. *)
LEMMA ReuseUnitStep ==
  ASSUME DistillationInv, NEW p \in Processes, ReuseUnit(p)
  PROVE  DistillationInv'
<1>1. PICK t \in ProcessStates :
        t = process[p] /\ Placed(p, t) /\ Owned(p, t) /\ Noted(p, t) /\ RunSound(p, t)
  BY DEF DistillationInv, Types, Bound, Ledger, Runs
<1>2. PICK old : old = t.prior[t.unit]
  OBVIOUS
<1>3. /\ t.phase = "unit" /\ t.unit <= UnitCount[SourceOf[p]] /\ Canonicalized(old)
      /\ UNCHANGED <<heads, commits, candidates, records, refresh, faults>>
  BY <1>1, <1>2 DEF ReuseUnit, AtUnit
<1>4. "unit" \in Loop /\ "unit" \in Running /\ "unit" \notin Mid
  BY DEF Loop, Mid, Admitting, Running
<1>5. t.unit \in Indices(p) /\ UnitCount[SourceOf[p]] \in Nat
  BY <1>1, <1>3, <1>4, UnitsAssumption DEF Placed, Indices
<1>6. PICK u \in Units : u = <<SourceOf[p], t.unit>>
  BY <1>5, UnitFacts
<1>7. faults' \in Nat
  BY <1>3 DEF DistillationInv, Types, TypeOK
<1>8. CASE Reusable(p, old)
  <2>1. Canonicalized(records[u]) /\ old.memory = records[u].memory /\ RecordSound(u, records[u])
    BY <1>1, <1>2, <1>3, <1>4, <1>5, <1>6 DEF Noted, DistillationInv, Bound
  <2>2. Settled(u)
    BY <2>1 DEF RecordSound, Backs, Settled, Canonicalized
  <2>3. Committed(SourceOf[p], old.memory) /\ old.memory \in SemanticKeys
    <3>1. PICK x \in commits : x.unit = u /\ x.memory = old.memory
      BY <2>1 DEF RecordSound
    <3>2. old.memory = KeyOf[u]
      BY <2>1 DEF RecordSound
    <3> QED
      BY <1>6, <3>1, <3>2, UnitsAssumption DEF Committed
  <2>4. PICK outcome \in Outcomes \ {"pending_review"} : outcome = old.outcome
    BY <1>8 DEF Reusable, Outcomes
  <2>5. PICK memories \in SUBSET SemanticKeys : memories = t.receipt.memories \cup {old.memory}
    BY <2>3 DEF ProcessStates, DistillationReceipts
  <2>6. t.receipt \in DistillationReceipts
    BY DEF ProcessStates
  <2> DEFINE rec == [t.receipt EXCEPT !.memories = memories]
             m == [t EXCEPT !.receipt = rec]
  <2>7. /\ rec \in DistillationReceipts /\ rec.memories = memories /\ rec.counts = t.receipt.counts
        /\ rec.prune = t.receipt.prune /\ rec.archived = t.receipt.archived
    BY <2>6 DEF DistillationReceipts
  <2>8. m = [t EXCEPT !.receipt.memories = t.receipt.memories \cup {old.memory}]
    BY <2>5 DEF ProcessStates
  <2> HIDE DEF rec
  <2>9. /\ m \in ProcessStates /\ m.receipt = rec /\ m.unit = t.unit /\ m.prior = t.prior
        /\ m.counts = t.counts
    BY <2>7 DEF ProcessStates
  <2> HIDE DEF m
  <2>10. PICK st : st = NextUnit(m, outcome)
    OBVIOUS
  <2>11. /\ st \in ProcessStates /\ st.phase = "unit" /\ st.unit = t.unit + 1
         /\ st.prior = t.prior /\ st.receipt = rec /\ st.cand = None /\ st.previous = None
         /\ st.memory = None /\ st.stage = 5
         /\ st.counts[outcome] = t.counts[outcome] + 1
         /\ \A o \in Outcomes \ {outcome} : st.counts[o] = t.counts[o]
    BY <2>9, <2>10, NextUnitFacts
  <2>12. SetProcess(p, st) /\ UNCHANGED store
    BY <1>1, <1>2, <1>3, <1>8, <2>4, <2>8, <2>10 DEF ReuseUnit, store
  <2>13. Steps(p, st)
    BY <1>1, <1>3, <1>7, <2>11, <2>12 DEF Steps, SetProcess
  <2>14. Placed(p, st)
    <3>1. \A o \in Outcomes : t.counts[o] \in Nat
      BY DEF ProcessStates
    <3>2. \A o \in Outcomes : st.counts[o] < st.unit
      BY <1>1, <1>3, <1>4, <1>5, <2>11, <3>1 DEF Placed, Indices
    <3>3. rec.archived /\ \A o \in Outcomes : rec.counts[o] <= UnitCount[SourceOf[p]]
      BY <1>1, <1>3, <1>4, <2>7 DEF Placed
    <3> QED
      BY <1>4, <1>5, <2>11, <3>2, <3>3 DEF Placed, Indices, Mid
  <2>15. Owned(p, st)
    BY <1>4, <2>11 DEF Owned, Mid, Admitting, Holding
  <2>16. Noted(p, st)
    BY <1>1, <1>3, <1>4, <2>3, <2>5, <2>7, <2>11 DEF Noted
  <2>17. RunSound(p, st)
    <3>1. ~st.receipt.prune
      BY <1>1, <1>3, <1>4, <2>7, <2>11 DEF RunSound
    <3> SUFFICES ASSUME Single(p)
                 PROVE  /\ receipts[SourceOf[p]] # None => receipts[SourceOf[p]].status # "complete"
                        /\ \A i \in Indices(p) :
                             IF i < st.unit
                             THEN /\ st.counts["pending_review"] = 0 => Settled(<<SourceOf[p], i>>)
                                  /\ Listed(<<SourceOf[p], i>>, st.receipt)
                             ELSE Canonicalized(records[<<SourceOf[p], i>>]) =>
                                    Canonicalized(st.prior[i])
      BY <1>4, <2>11, <3>1 DEF RunSound
    <3>2. receipts[SourceOf[p]] # None => receipts[SourceOf[p]].status # "complete"
      BY <1>1, <1>3, <1>4 DEF RunSound
    <3> SUFFICES ASSUME NEW i \in Indices(p)
                 PROVE  IF i < st.unit
                        THEN /\ st.counts["pending_review"] = 0 => Settled(<<SourceOf[p], i>>)
                             /\ Listed(<<SourceOf[p], i>>, st.receipt)
                        ELSE Canonicalized(records[<<SourceOf[p], i>>]) => Canonicalized(st.prior[i])
      BY <3>2
    <3>3. IF i < t.unit
          THEN /\ t.counts["pending_review"] = 0 => Settled(<<SourceOf[p], i>>)
               /\ Listed(<<SourceOf[p], i>>, t.receipt)
          ELSE Canonicalized(records[<<SourceOf[p], i>>]) => Canonicalized(t.prior[i])
      BY <1>1, <1>3, <1>4 DEF RunSound
    <3>4. st.counts["pending_review"] = t.counts["pending_review"]
      BY <2>11 DEF Outcomes
    <3>5. CASE i = t.unit
      <4>1. Settled(<<SourceOf[p], i>>) /\ Listed(<<SourceOf[p], i>>, st.receipt)
        BY <1>6, <2>1, <2>2, <2>5, <2>7, <2>11, <3>5 DEF Listed
      <4>2. i < st.unit
        BY <2>11, <3>5 DEF ProcessStates
      <4> QED
        BY <4>1, <4>2
    <3>6. CASE i # t.unit
      <4>1. i < st.unit <=> i < t.unit
        BY <1>5, <2>11, <3>6 DEF Indices
      <4>2. Listed(<<SourceOf[p], i>>, t.receipt) => Listed(<<SourceOf[p], i>>, st.receipt)
        BY <2>5, <2>7, <2>11 DEF Listed
      <4> QED
        BY <2>11, <3>3, <3>4, <4>1, <4>2
    <3> QED
      BY <3>5, <3>6
  <2> QED
    BY <2>11, <2>12, <2>13, <2>14, <2>15, <2>16, <2>17, QuietStep
<1>9. CASE ~Reusable(p, old)
  <2>1. Fail(p)
    BY <1>1, <1>2, <1>9 DEF ReuseUnit
  <2>2. process[p].phase \notin {"idle", "absent"}
    BY <1>1, <1>3
  <2> QED
    BY <1>3, <1>7, <2>1, <2>2, FailStep
<1> QED
  BY <1>8, <1>9

(* A unit enters the loop body only if no earlier run was seen to commit   *)
(* it.                                                                     *)
LEMMA DecideUnitStep ==
  ASSUME DistillationInv, NEW p \in Processes, DecideUnit(p)
  PROVE  DistillationInv'
<1>1. PICK t \in ProcessStates :
        t = process[p] /\ Placed(p, t) /\ Owned(p, t) /\ Noted(p, t) /\ RunSound(p, t)
  BY DEF DistillationInv, Types, Bound, Ledger, Runs
<1>2. /\ t.phase = "unit" /\ t.unit <= UnitCount[SourceOf[p]] /\ ~Canonicalized(t.prior[t.unit])
      /\ UNCHANGED <<store, refresh, faults>>
  BY <1>1 DEF DecideUnit, AtUnit
<1>3. "unit" \in Loop /\ "unit" \notin Mid /\ "settle" \in Mid /\ "record" \in Mid
  BY DEF Loop, Mid, Admitting
<1>4. t.unit \in Indices(p)
  BY <1>1, <1>2, <1>3, UnitsAssumption DEF Placed, Indices
<1>5. PICK u \in Units : u = Unit(p) /\ u = UnitOf(p, t)
  BY <1>1, <1>4, UnitFacts DEF Unit, UnitOf
<1>6. PICK h \in Heads \cup {None} : h = heads[KeyOf[u]]
  BY UnitsAssumption DEF DistillationInv, Types, TypeOK
<1>7. PICK d \in Outcomes \ {"canonical_merge"} :
        SetProcess(p,
         IF d # "canonical_candidate" THEN [t EXCEPT !.phase = "settle", !.decision = d]
         ELSE IF h = None
           THEN [t EXCEPT !.phase = "record", !.decision = d, !.op = "create",
                          !.text = TextOf[u], !.attempt = 1]
         ELSE Target([t EXCEPT !.attempt = 1], TextOf[u], h))
  BY <1>1, <1>5, <1>6, UnitsAssumption DEF DecideUnit, AdmissionOutcomes, Key
<1>8. PICK st : st = IF d # "canonical_candidate" THEN [t EXCEPT !.phase = "settle", !.decision = d]
                     ELSE IF h = None
                       THEN [t EXCEPT !.phase = "record", !.decision = d, !.op = "create",
                                      !.text = TextOf[u], !.attempt = 1]
                     ELSE Target([t EXCEPT !.attempt = 1], TextOf[u], h)
  OBVIOUS
<1>9. /\ st \in ProcessStates /\ SameUnit(st, t) /\ st.decision \in Outcomes
      /\ st.cand = t.cand /\ st.previous = t.previous /\ st.memory = t.memory
      /\ \/ st.phase = "settle" /\ st.decision \notin {"canonical_candidate", "canonical_merge"}
         \/ /\ st.phase = "record" /\ st.text \in Texts
            /\ \/ st.op = "create" /\ st.decision = "canonical_candidate"
               \/ st.op = "merge" /\ st.decision = "canonical_merge" /\ h # None
  <2>1. CASE d # "canonical_candidate"
    <3>1. st = [t EXCEPT !.phase = "settle", !.decision = d]
      BY <1>8, <2>1
    <3>2. st \in ProcessStates
      BY <3>1 DEF ProcessStates, Phases, Loop, Mid
    <3>3. SameUnit(st, t) /\ st.phase = "settle" /\ st.decision = d
      BY <3>1 DEF ProcessStates, SameUnit
    <3>4. st.cand = t.cand /\ st.previous = t.previous /\ st.memory = t.memory
      BY <3>1 DEF ProcessStates
    <3> QED
      BY <2>1, <3>2, <3>3, <3>4
  <2>2. CASE d = "canonical_candidate" /\ h = None
    <3>1. st = [t EXCEPT !.phase = "record", !.decision = d, !.op = "create",
                         !.text = TextOf[u], !.attempt = 1]
      BY <1>8, <2>2
    <3>2. TextOf[u] \in Texts
      BY UnitsAssumption
    <3>3. st \in ProcessStates
      BY <3>1, <3>2 DEF ProcessStates, Phases, Loop, Mid, Admitting
    <3>4. SameUnit(st, t) /\ st.phase = "record" /\ st.decision = d /\ st.op = "create"
      BY <3>1 DEF ProcessStates, SameUnit
    <3>5. st.cand = t.cand /\ st.previous = t.previous /\ st.memory = t.memory /\ st.text \in Texts
      BY <3>1, <3>2 DEF ProcessStates
    <3> QED
      BY <2>2, <3>3, <3>4, <3>5
  <2>3. CASE d = "canonical_candidate" /\ h # None
    <3> DEFINE m == [t EXCEPT !.attempt = 1]
    <3>1. /\ m \in ProcessStates /\ SameUnit(m, t) /\ m.cand = t.cand /\ m.previous = t.previous
          /\ m.memory = t.memory
      BY DEF ProcessStates, SameUnit
    <3>2. st = Target(m, TextOf[u], h)
      BY <1>8, <2>3
    <3>3. h \in Heads
      BY <2>3
    <3> HIDE DEF m
    <3> QED
      BY <2>3, <3>1, <3>2, <3>3, TargetFacts DEF SameUnit, Outcomes
  <2> QED
    BY <2>1, <2>2, <2>3
<1>10. SetProcess(p, st)
  BY <1>7, <1>8
<1>11. Steps(p, st)
  BY <1>1, <1>2, <1>9, <1>10 DEF Steps, SetProcess, DistillationInv, Types, TypeOK
<1>12. st.phase \in Admitting =>
           /\ st.op \in {"create", "merge"} /\ st.text \in Texts
           /\ st.decision = CanonicalOutcome(st.op)
           /\ st.op = "merge" \/ st.phase \in {"refused", "collided"} =>
                heads[KeyOf[UnitOf(p, t)]] # None
  BY <1>5, <1>6, <1>9 DEF Admitting, CanonicalOutcome
<1>13. Placed(p, st) /\ Noted(p, st) /\ RunSound(p, st)
  <2>1. st.phase \in Mid /\ t.phase \in Loop
    BY <1>2, <1>3, <1>9
  <2> QED
    BY <1>1, <1>2, <1>4, <1>9, <1>12, <2>1, WithinUnit
<1>14. Owned(p, st)
  <2>1. t.cand = None /\ t.previous = None /\ t.memory = None
    BY <1>1, <1>2, <1>3 DEF Owned
  <2> QED
    BY <1>9, <2>1 DEF Owned, Holding, Mid, Admitting
<1>15. UNCHANGED store
  BY <1>2
<1> QED
  BY <1>9, <1>11, <1>13, <1>14, <1>15, QuietStep


(* A precanonical record names no memory: if the unit's record names one   *)
(* afterwards, it did before.                                              *)
LEMMA PrecanonicalStep ==
  ASSUME DistillationInv, NEW p \in Processes, NEW st \in ProcessStates, Steps(p, st),
         UNCHANGED <<heads, commits, candidates, receipts>>,
         process[p].phase \in Mid, st.phase \in Mid, SameUnit(st, process[p]),
         NEW outcome \in Outcomes, NEW cand \in CandidateIds \cup {None},
         PutRecord(p, outcome, cand, None),
         Placed(p, st), Owned(p, st), Noted(p, st), RunSound(p, st)
  PROVE  DistillationInv'
<1>1. PICK u \in Units : u = Unit(p) /\ u = <<SourceOf[p], st.unit>>
  <2>1. st.unit \in Indices(p) /\ st.unit = process[p].unit
    BY DEF Placed, SameUnit
  <2> QED
    BY <2>1, UnitFacts DEF Unit
<1>2. PICK new \in CurationRecord : new = [outcome |-> outcome, cand |-> cand, memory |-> None]
  BY DEF CurationRecord
<1>3. PICK old \in CurationRecord \cup {None} : old = records[u]
  BY DEF DistillationInv, Types, TypeOK
<1>4. /\ records'[u] = UpsertRecord(old, new)
      /\ \A v \in Units : v # u => records'[v] = records[v]
  BY <1>1, <1>2, <1>3 DEF PutRecord, DistillationInv, Types, TypeOK
<1>5. Canonicalized(records'[u]) => Canonicalized(records[u])
  <2>1. new.memory = None
    BY <1>2
  <2> QED
    BY <1>3, <1>4, <2>1, UpsertRecordFacts DEF Canonicalized
<1>6. \A i \in Indices(p) :
        /\ i # st.unit => records'[<<SourceOf[p], i>>] = records[<<SourceOf[p], i>>]
        /\ Canonicalized(records'[<<SourceOf[p], i>>]) => Canonicalized(records[<<SourceOf[p], i>>])
  BY <1>1, <1>4, <1>5, UnitFacts
<1>7. st.unit \in Nat /\ st.phase \in Loop /\ st.phase \notin {"stages", "close"}
  BY DEF ProcessStates, Loop, Mid, Admitting
<1>8. \A i \in Indices(p) : i < st.unit =>
        records'[<<SourceOf[p], i>>] = records[<<SourceOf[p], i>>]
  BY <1>6, <1>7 DEF Indices
<1>9. RunSound(p, st)'
  BY <1>6, <1>7, <1>8 DEF RunSound, Settled, Listed
<1>10. None \in {None, process[p].memory}
  OBVIOUS
<1> QED
  BY <1>9, <1>10, RecordStep

(* The record before the candidate. *)
LEMMA RecordActionStep ==
  ASSUME DistillationInv, NEW p \in Processes, Record(p)
  PROVE  DistillationInv'
<1>1. PICK t \in ProcessStates :
        t = process[p] /\ Placed(p, t) /\ Owned(p, t) /\ Noted(p, t) /\ RunSound(p, t)
  BY DEF DistillationInv, Types, Bound, Ledger, Runs
<1>2. /\ t.phase = "record" /\ PutRecord(p, t.decision, None, None)
      /\ UNCHANGED <<heads, commits, candidates, receipts, refresh, faults>>
  BY <1>1 DEF Record
<1>3. /\ "record" \in Mid /\ "ingest" \in Mid /\ "record" \in Admitting /\ "ingest" \in Admitting
      /\ "record" \in Loop
  BY DEF Mid, Admitting, Loop
<1> DEFINE st == [t EXCEPT !.phase = "ingest"]
<1>4. st \in ProcessStates
  BY DEF ProcessStates, Phases, Loop, Mid, Admitting
<1>5. SameUnit(st, t) /\ st.phase = "ingest" /\ st.decision = t.decision
  BY DEF ProcessStates, SameUnit
<1>6. /\ st.cand = t.cand /\ st.previous = t.previous /\ st.memory = t.memory
      /\ st.op = t.op /\ st.text = t.text
  BY DEF ProcessStates
<1>7. SetProcess(p, st)
  BY <1>1 DEF Record
<1> HIDE DEF st
<1>8. Placed(p, st) /\ Noted(p, st) /\ RunSound(p, st)
  <2>1. t.unit \in Indices(p) /\ t.decision \in Outcomes
    BY <1>1, <1>2, <1>3 DEF Placed
  <2>2. /\ st.op \in {"create", "merge"} /\ st.text \in Texts
        /\ st.decision = CanonicalOutcome(st.op)
        /\ st.op = "merge" \/ st.phase \in {"refused", "collided"} =>
             heads[KeyOf[UnitOf(p, t)]] # None
    BY <1>1, <1>2, <1>3, <1>5, <1>6 DEF Placed
  <2> QED
    BY <1>1, <1>2, <1>3, <1>4, <1>5, <2>1, <2>2, WithinUnit
<1>9. Owned(p, st)
  BY <1>1, <1>2, <1>3, <1>5, <1>6 DEF Owned, Holding
<1>10. Steps(p, st)
  BY <1>1, <1>2, <1>5, <1>6, <1>7 DEF Steps, SetProcess, DistillationInv, Types, TypeOK
<1>11. t.decision \in Outcomes /\ SameUnit(st, process[p]) /\ process[p].phase \in Mid /\ st.phase \in Mid
  BY <1>1, <1>2, <1>3, <1>5 DEF Placed
<1> QED
  BY <1>2, <1>4, <1>8, <1>9, <1>10, <1>11, PrecanonicalStep

(* The record that names the candidate. *)
LEMMA BindStep ==
  ASSUME DistillationInv, NEW p \in Processes, Bind(p)
  PROVE  DistillationInv'
<1>1. PICK t \in ProcessStates :
        t = process[p] /\ Placed(p, t) /\ Owned(p, t) /\ Noted(p, t) /\ RunSound(p, t)
  BY DEF DistillationInv, Types, Bound, Ledger, Runs
<1>2. /\ t.phase = "bind" /\ PutRecord(p, t.decision, t.cand, None)
      /\ UNCHANGED <<heads, commits, candidates, receipts, refresh, faults>>
  BY <1>1 DEF Bind
<1>3. /\ "bind" \in Mid /\ "govern" \in Mid /\ "bind" \in Admitting /\ "govern" \in Admitting
      /\ "bind" \in Loop /\ "bind" \in Holding /\ "govern" \in Holding
  BY DEF Mid, Admitting, Loop, Holding
<1> DEFINE st == [t EXCEPT !.phase = "govern"]
<1>4. st \in ProcessStates
  BY DEF ProcessStates, Phases, Loop, Mid, Admitting
<1>5. SameUnit(st, t) /\ st.phase = "govern" /\ st.decision = t.decision
  BY DEF ProcessStates, SameUnit
<1>6. /\ st.cand = t.cand /\ st.previous = t.previous /\ st.memory = t.memory
      /\ st.op = t.op /\ st.text = t.text
  BY DEF ProcessStates
<1>7. SetProcess(p, st)
  BY <1>1 DEF Bind
<1> HIDE DEF st
<1>8. Placed(p, st) /\ Noted(p, st) /\ RunSound(p, st)
  <2>1. t.unit \in Indices(p) /\ t.decision \in Outcomes
    BY <1>1, <1>2, <1>3 DEF Placed
  <2>2. /\ st.op \in {"create", "merge"} /\ st.text \in Texts
        /\ st.decision = CanonicalOutcome(st.op)
        /\ st.op = "merge" \/ st.phase \in {"refused", "collided"} =>
             heads[KeyOf[UnitOf(p, t)]] # None
    BY <1>1, <1>2, <1>3, <1>5, <1>6 DEF Placed
  <2> QED
    BY <1>1, <1>2, <1>3, <1>4, <1>5, <2>1, <2>2, WithinUnit
<1>9. Owned(p, st)
  BY <1>1, <1>2, <1>3, <1>5, <1>6 DEF Owned
<1>10. Steps(p, st)
  BY <1>1, <1>2, <1>5, <1>6, <1>7 DEF Steps, SetProcess, DistillationInv, Types, TypeOK
<1>11. t.decision \in Outcomes /\ SameUnit(st, process[p]) /\ process[p].phase \in Mid /\ st.phase \in Mid
  BY <1>1, <1>2, <1>3, <1>5 DEF Placed
<1>12. t.cand \in CandidateIds \cup {None}
  BY DEF ProcessStates
<1> QED
  BY <1>2, <1>4, <1>8, <1>9, <1>10, <1>11, <1>12, PrecanonicalStep

(* The candidate takes an id that nothing refers to. *)
LEMMA IngestStep ==
  ASSUME DistillationInv, NEW p \in Processes, Ingest(p)
  PROVE  DistillationInv'
<1>1. PICK t \in ProcessStates :
        t = process[p] /\ Placed(p, t) /\ Owned(p, t) /\ Noted(p, t) /\ RunSound(p, t)
  BY DEF DistillationInv, Types, Bound, Ledger, Runs
<1>2. PICK c \in CandidateIds : c = (CHOOSE d \in CandidateIds : Unused(d)) /\ Unused(c)
  BY DEF Ingest
<1>3. /\ t.phase = "ingest" /\ UNCHANGED <<heads, commits, records, receipts, refresh, faults>>
      /\ candidates' = [d \in CandidateIds |->
           IF d = c THEN [op |-> t.op, text |-> t.text, status |-> "PENDING"]
           ELSE IF Unused(d) THEN None ELSE candidates[d]]
  BY <1>1, <1>2 DEF Ingest
<1>4. /\ "ingest" \in Mid /\ "bind" \in Mid /\ "ingest" \in Admitting /\ "bind" \in Admitting
      /\ "ingest" \in Loop /\ "bind" \in Holding
  BY DEF Mid, Admitting, Loop, Holding
<1>5. /\ t.op \in {"create", "merge"} /\ t.text \in Texts /\ t.decision = CanonicalOutcome(t.op)
      /\ t.op = "merge" => heads[KeyOf[UnitOf(p, t)]] # None
      /\ t.unit \in Indices(p) /\ t.decision \in Outcomes
  BY <1>1, <1>3, <1>4 DEF Placed
<1>6. PICK new \in Candidates : new = [op |-> t.op, text |-> t.text, status |-> "PENDING"]
  BY <1>5 DEF Candidates
<1>7. new # None /\ new.op = t.op /\ c # None
  BY <1>6, NoneAssumption
<1>8. /\ candidates' \in [CandidateIds -> Candidates \cup {None}] /\ candidates'[c] = new
      /\ \A d \in CandidateIds : candidates'[d] = candidates[d] \/ Unused(d)
  BY <1>2, <1>3, <1>6 DEF DistillationInv, Types, TypeOK
<1> DEFINE st == [t EXCEPT !.phase = "bind", !.cand = c]
<1>9. st \in ProcessStates
  BY DEF ProcessStates, Phases, Loop, Mid, Admitting
<1>10. SameUnit(st, t) /\ st.phase = "bind" /\ st.decision = t.decision
  BY DEF ProcessStates, SameUnit
<1>11. /\ st.cand = c /\ st.previous = t.previous /\ st.memory = t.memory
       /\ st.op = t.op /\ st.text = t.text
  BY DEF ProcessStates
<1>12. SetProcess(p, st)
  BY <1>1, <1>2 DEF Ingest
<1> HIDE DEF st
<1>13. Placed(p, st) /\ Noted(p, st) /\ RunSound(p, st)
  <2>1. st.op = "merge" \/ st.phase \in {"refused", "collided"} => heads[KeyOf[UnitOf(p, t)]] # None
    BY <1>5, <1>10, <1>11
  <2> QED
    BY <1>1, <1>3, <1>4, <1>5, <1>9, <1>10, <1>11, <2>1, WithinUnit
<1>14. Owned(p, st)'
  <2>1. t.memory = None
    BY <1>1, <1>3 DEF Owned
  <2>2. t.previous # None =>
          /\ candidates[t.previous].status = "CONFLICT" /\ \A x \in commits : x.cand # t.previous
          /\ t.previous \in CandidateIds
    BY <1>1 DEF Owned, ProcessStates
  <2>3. t.previous # None => ~Unused(t.previous)
    BY <1>1 DEF Unused
  <2>4. t.previous # None => candidates'[t.previous].status = "CONFLICT"
    BY <1>8, <2>2, <2>3
  <2>5. c # t.previous /\ \A x \in commits : x.cand # c
    BY <1>1, <1>2 DEF Unused
  <2> QED
    BY <1>3, <1>4, <1>7, <1>8, <1>10, <1>11, <2>1, <2>2, <2>4, <2>5 DEF Owned
<1>15. Steps(p, st)
  BY <1>1, <1>2, <1>3, <1>10, <1>11, <1>12 DEF Steps, SetProcess, DistillationInv, Types, TypeOK
<1>16. UNCHANGED <<heads, commits, records, receipts>>
  BY <1>3
<1> QED
  BY <1>8, <1>9, <1>13, <1>14, <1>15, <1>16, CandidateStep


(* The candidate in hand gets a status. *)
LEMMA StatusFacts ==
  ASSUME DistillationInv, NEW p \in Processes, process[p].phase \in Holding,
         NEW status \in {"ACCEPTED", "REJECTED", "CONFLICT"},
         candidates' = SetStatus(process[p].cand, status)
  PROVE  /\ candidates' \in [CandidateIds -> Candidates \cup {None}]
         /\ process[p].cand \in CandidateIds
         /\ \A d \in CandidateIds : d # process[p].cand => candidates'[d] = candidates[d]
         /\ candidates'[process[p].cand] # None
         /\ candidates'[process[p].cand].op = candidates[process[p].cand].op
         /\ candidates'[process[p].cand].status = status
<1>1. PICK c : c = process[p].cand
  OBVIOUS
<1>2. c \in CandidateIds /\ candidates[c] # None
  BY <1>1 DEF DistillationInv, Types, ProcessStates, Bound, Owned
<1>3. PICK old \in Candidates : old = candidates[c]
  BY <1>2 DEF DistillationInv, Types, TypeOK
<1>4. PICK new \in Candidates : new = [old EXCEPT !.status = status]
  BY DEF Candidates
<1>5. new # None /\ new.op = old.op /\ new.status = status
  BY <1>4, NoneAssumption DEF Candidates
<1>6. candidates' = [candidates EXCEPT ![c] = new]
  BY <1>1, <1>3, <1>4 DEF SetStatus
<1> QED
  BY <1>1, <1>2, <1>3, <1>5, <1>6 DEF DistillationInv, Types, TypeOK

(* A rejected candidate is in no commit and settles its unit as rejected. *)
LEMMA VetoStep ==
  ASSUME DistillationInv, NEW p \in Processes, Veto(p)
  PROVE  DistillationInv'
<1>1. PICK t \in ProcessStates :
        t = process[p] /\ Placed(p, t) /\ Owned(p, t) /\ Noted(p, t) /\ RunSound(p, t)
  BY DEF DistillationInv, Types, Bound, Ledger, Runs
<1>2. /\ t.phase = "govern" /\ candidates' = SetStatus(t.cand, "REJECTED")
      /\ UNCHANGED <<heads, commits, records, receipts, refresh, faults>>
  BY <1>1 DEF Veto
<1>3. /\ "govern" \in Mid /\ "govern" \in Loop /\ "govern" \in Holding
      /\ "settle" \in Mid /\ "settle" \notin Admitting /\ "settle" \notin Holding
  BY DEF Mid, Admitting, Loop, Holding
<1>4. /\ candidates' \in [CandidateIds -> Candidates \cup {None}]
      /\ \A d \in CandidateIds : d # t.cand => candidates'[d] = candidates[d]
  BY <1>1, <1>2, <1>3, StatusFacts
<1> DEFINE st == [t EXCEPT !.phase = "settle", !.decision = "rejected"]
<1>5. st \in ProcessStates
  BY DEF ProcessStates, Phases, Loop, Mid, Outcomes
<1>6. SameUnit(st, t) /\ st.phase = "settle" /\ st.decision = "rejected"
  BY DEF ProcessStates, SameUnit
<1>7. st.cand = t.cand /\ st.previous = t.previous /\ st.memory = t.memory
  BY DEF ProcessStates
<1>8. SetProcess(p, st)
  BY <1>1 DEF Veto
<1> HIDE DEF st
<1>9. Placed(p, st) /\ Noted(p, st) /\ RunSound(p, st)
  <2>1. t.unit \in Indices(p) /\ st.decision \in Outcomes
    BY <1>1, <1>2, <1>3, <1>6 DEF Placed, Outcomes
  <2> QED
    BY <1>1, <1>2, <1>3, <1>5, <1>6, <2>1, WithinUnit
<1>10. Owned(p, st)'
  <2>1. t.memory = None /\ t.cand # t.previous
    BY <1>1, <1>2, <1>3 DEF Owned
  <2>2. t.previous # None =>
          /\ candidates'[t.previous].status = "CONFLICT" /\ \A x \in commits : x.cand # t.previous
    BY <1>1, <1>4, <2>1 DEF Owned, ProcessStates
  <2> QED
    BY <1>2, <1>3, <1>6, <1>7, <2>1, <2>2 DEF Owned
<1>11. Steps(p, st)
  BY <1>1, <1>2, <1>6, <1>7, <1>8 DEF Steps, SetProcess, DistillationInv, Types, TypeOK
<1>12. UNCHANGED <<heads, commits, records, receipts>> /\ process[p].phase \in Holding
  BY <1>1, <1>2, <1>3
<1> QED
  BY <1>1, <1>4, <1>5, <1>9, <1>10, <1>11, <1>12, CandidateStep

(* From one phase that holds the candidate to another. *)
LEMMA HoldStep ==
  ASSUME DistillationInv, NEW p \in Processes, NEW phase \in Holding, process[p].phase \in Holding,
         SetProcess(p, [process[p] EXCEPT !.phase = phase]),
         UNCHANGED <<heads, commits, records, receipts, refresh, faults>>,
         \/ UNCHANGED candidates /\ phase # "collided"
         \/ candidates' = SetStatus(process[p].cand, "CONFLICT"),
         phase \in {"refused", "collided"} => heads[Key(p)] # None
  PROVE  DistillationInv'
<1>1. PICK t \in ProcessStates :
        t = process[p] /\ Placed(p, t) /\ Owned(p, t) /\ Noted(p, t) /\ RunSound(p, t)
  BY DEF DistillationInv, Types, Bound, Ledger, Runs
<1>2. /\ Holding \subseteq Admitting /\ Admitting \subseteq Mid /\ Mid \subseteq Loop
      /\ Loop \subseteq Phases /\ "settle" \notin Holding /\ "record" \notin Holding
      /\ "ingest" \notin Holding /\ "absent" \notin Holding
  BY DEF Holding, Admitting, Mid, Loop, Phases
<1>3. /\ t.cand # None /\ t.cand # t.previous /\ t.cand \in CandidateIds
      /\ candidates[t.cand] # None /\ candidates[t.cand].op = t.op
      /\ t.memory = None /\ \A x \in commits : x.cand # t.cand
  BY <1>1, <1>2 DEF Owned, ProcessStates
<1>4. /\ candidates' \in [CandidateIds -> Candidates \cup {None}]
      /\ \A d \in CandidateIds : d # t.cand => candidates'[d] = candidates[d]
      /\ candidates'[t.cand] # None /\ candidates'[t.cand].op = t.op
      /\ phase = "collided" => candidates'[t.cand].status = "CONFLICT"
  <2>1. CASE UNCHANGED candidates /\ phase # "collided"
    BY <1>3, <2>1 DEF DistillationInv, Types, TypeOK
  <2>2. CASE candidates' = SetStatus(process[p].cand, "CONFLICT")
    BY <1>1, <1>3, <2>2, StatusFacts
  <2> QED
    BY <2>1, <2>2
<1> DEFINE st == [t EXCEPT !.phase = phase]
<1>5. st \in ProcessStates
  BY <1>2 DEF ProcessStates
<1>6. SameUnit(st, t) /\ st.phase = phase /\ st.decision = t.decision
  BY DEF ProcessStates, SameUnit
<1>7. /\ st.cand = t.cand /\ st.previous = t.previous /\ st.memory = t.memory
      /\ st.op = t.op /\ st.text = t.text
  BY DEF ProcessStates
<1>8. SetProcess(p, st)
  BY <1>1
<1> HIDE DEF st
<1>9. Placed(p, st) /\ Noted(p, st) /\ RunSound(p, st)
  <2>1. t.unit \in Indices(p) /\ st.decision \in Outcomes /\ st.phase \in Mid /\ t.phase \in Mid
    BY <1>1, <1>2, <1>6 DEF Placed
  <2>2. /\ st.op \in {"create", "merge"} /\ st.text \in Texts
        /\ st.decision = CanonicalOutcome(st.op)
        /\ st.op = "merge" => heads[KeyOf[UnitOf(p, t)]] # None
    BY <1>1, <1>2, <1>6, <1>7 DEF Placed
  <2>3. phase \in {"refused", "collided"} => heads[KeyOf[UnitOf(p, t)]] # None
    BY <1>1 DEF Key, Unit, UnitOf
  <2> QED
    BY <1>1, <1>2, <1>5, <1>6, <2>1, <2>2, <2>3, WithinUnit
<1>10. Owned(p, st)'
  <2>1. t.previous # None =>
          /\ candidates'[t.previous].status = "CONFLICT" /\ \A x \in commits : x.cand # t.previous
    BY <1>1, <1>3, <1>4 DEF Owned, ProcessStates
  <2> QED
    BY <1>2, <1>3, <1>4, <1>6, <1>7, <2>1 DEF Owned
<1>11. Steps(p, st)
  BY <1>1, <1>2, <1>6, <1>7, <1>8 DEF Steps, SetProcess, DistillationInv, Types, TypeOK
<1> QED
  BY <1>1, <1>4, <1>5, <1>9, <1>10, <1>11, CandidateStep

(* The way to the authority. *)
LEMMA AuthorityStep ==
  ASSUME DistillationInv, NEW p \in Processes,
         VerifyAdmission(p) \/ CommitRefused(p) \/ CommitCollides(p) \/ Supersede(p)
  PROVE  DistillationInv'
<1>1. /\ "govern" \in Holding /\ "commit" \in Holding /\ "refused" \in Holding
      /\ "collided" \in Holding /\ "commit" \in Admitting /\ "refused" \in Admitting
  BY DEF Holding, Admitting
<1>2. faults \in Nat /\ process[p] \in ProcessStates /\ Placed(p, process[p])
  BY DEF DistillationInv, Types, TypeOK, Bound
<1>3. CASE VerifyAdmission(p)
  <2>1. CASE Backs(records[Unit(p)], process[p].cand)
    BY <1>1, <1>3, <2>1, HoldStep DEF VerifyAdmission
  <2>2. CASE ~Backs(records[Unit(p)], process[p].cand)
    BY <1>2, <1>3, <2>2, FailStep DEF VerifyAdmission
  <2> QED
    BY <2>1, <2>2
<1>4. CASE CommitRefused(p)
  BY <1>2, <1>4, FailStep DEF CommitRefused
<1>5. CASE CommitCollides(p)
  <2>1. heads[Key(p)] # None
    <3>1. process[p].op = "merge" => heads[Key(p)] # None
      BY <1>1, <1>2, <1>5 DEF CommitCollides, Placed, Key, Unit, UnitOf
    <3>2. process[p].op \in {"create", "merge"}
      BY <1>1, <1>2, <1>5 DEF CommitCollides, Placed
    <3> QED
      BY <1>5, <3>1, <3>2 DEF CommitCollides, Collides
  <2> QED
    BY <1>1, <1>5, <2>1, HoldStep DEF CommitCollides
<1>6. CASE Supersede(p)
  <2>1. heads[Key(p)] # None
    BY <1>1, <1>2, <1>6 DEF Supersede, Placed, Key, Unit, UnitOf
  <2> QED
    BY <1>1, <1>6, <2>1, HoldStep DEF Supersede
<1> QED
  BY <1>3, <1>4, <1>5, <1>6

(* A retry replaces a candidate that is closed and was never committed. *)
LEMMA RetryStep ==
  ASSUME DistillationInv, NEW p \in Processes, Retry(p)
  PROVE  DistillationInv'
<1>1. PICK t \in ProcessStates :
        t = process[p] /\ Placed(p, t) /\ Owned(p, t) /\ Noted(p, t) /\ RunSound(p, t)
  BY DEF DistillationInv, Types, Bound, Ledger, Runs
<1>2. t.phase = "collided" /\ UNCHANGED <<heads, commits, candidates, records, refresh, faults>>
  BY <1>1 DEF Retry
<1>3. /\ "collided" \in Holding /\ "collided" \in Admitting /\ "collided" \in Mid /\ "collided" \in Loop
      /\ "settle" \in Mid /\ "settle" \notin Admitting /\ "record" \in Mid /\ "record" \in Admitting
      /\ "settle" \notin Holding /\ "record" \notin Holding
  BY DEF Holding, Admitting, Mid, Loop
<1>4. faults' \in Nat
  BY <1>2 DEF DistillationInv, Types, TypeOK
<1>5. CASE t.attempt = MaxSemanticAttempts
  <2>1. Fail(p) /\ process[p].phase \notin {"idle", "absent"}
    BY <1>1, <1>2, <1>5 DEF Retry
  <2> QED
    BY <1>2, <1>4, <2>1, FailStep
<1>6. CASE t.attempt # MaxSemanticAttempts
  <2>1. t.unit \in Indices(p) /\ heads[KeyOf[UnitOf(p, t)]] # None
    BY <1>1, <1>2, <1>3 DEF Placed
  <2>2. PICK h \in Heads : h = heads[Key(p)]
    <3>1. Key(p) = KeyOf[UnitOf(p, t)] /\ Key(p) \in SemanticKeys
      BY <1>1, <2>1, UnitFacts DEF Key, Unit, UnitOf
    <3> QED
      BY <2>1, <3>1 DEF DistillationInv, Types, TypeOK
  <2>3. PICK n \in Nat : n = t.attempt + 1
    BY DEF ProcessStates
  <2> DEFINE m == [t EXCEPT !.attempt = n, !.previous = t.cand]
  <2>4. m = [t EXCEPT !.attempt = @ + 1, !.previous = t.cand]
    BY <2>3 DEF ProcessStates
  <2>5. /\ m \in ProcessStates /\ SameUnit(m, t) /\ m.cand = t.cand /\ m.previous = t.cand
        /\ m.memory = t.memory
    BY DEF ProcessStates, SameUnit
  <2>6. PICK st : st = Target(m, TextOf[Unit(p)], h)
    OBVIOUS
  <2>7. SetProcess(p, st) /\ UNCHANGED store
    BY <1>1, <1>2, <1>6, <2>2, <2>4, <2>6 DEF Retry, store
  <2> HIDE DEF m
  <2>8. /\ st \in ProcessStates /\ SameUnit(st, t) /\ st.decision \in Outcomes
        /\ st.cand = t.cand /\ st.previous = t.cand /\ st.memory = t.memory
        /\ \/ st.phase = "settle" /\ st.decision \notin {"canonical_candidate", "canonical_merge"}
           \/ /\ st.phase = "record" /\ st.text \in Texts
              /\ st.op = "merge" /\ st.decision = "canonical_merge"
    BY <2>5, <2>6, TargetFacts DEF SameUnit, Outcomes
  <2>9. Placed(p, st) /\ Noted(p, st) /\ RunSound(p, st)
    <3>1. st.phase \in Admitting =>
            /\ st.op \in {"create", "merge"} /\ st.text \in Texts
            /\ st.decision = CanonicalOutcome(st.op)
      BY <1>3, <2>8 DEF CanonicalOutcome
    <3>2. st.phase \in Mid
      BY <1>3, <2>8
    <3> QED
      BY <1>1, <1>2, <1>3, <2>1, <2>8, <3>1, <3>2, WithinUnit
  <2>10. Owned(p, st)
    <3>1. /\ t.memory = None /\ candidates[t.cand].status = "CONFLICT"
          /\ \A x \in commits : x.cand # t.cand
      BY <1>1, <1>2, <1>3 DEF Owned
    <3> QED
      BY <1>3, <2>8, <3>1 DEF Owned
  <2>11. Steps(p, st)
    BY <1>1, <1>2, <1>4, <2>7, <2>8 DEF Steps, SetProcess
  <2> QED
    BY <2>7, <2>8, <2>9, <2>10, <2>11, QuietStep
<1> QED
  BY <1>5, <1>6

(* Only a unit that holds no candidate is remediated. *)
LEMMA RemediateStep ==
  ASSUME DistillationInv, NEW p \in Processes, Remediate(p)
  PROVE  DistillationInv'
<1>1. PICK t \in ProcessStates :
        t = process[p] /\ Placed(p, t) /\ Owned(p, t) /\ Noted(p, t) /\ RunSound(p, t)
  BY DEF DistillationInv, Types, Bound, Ledger, Runs
<1>2. /\ t.phase = "settle" /\ t.decision = "pending_review"
      /\ UNCHANGED <<heads, commits, candidates, records, refresh, faults>>
  BY <1>1 DEF Remediate
<1>3. "settle" \in Mid /\ "settle" \in Loop /\ "settle" \notin Admitting /\ "settle" \notin Holding
  BY DEF Mid, Loop, Admitting, Holding
<1>4. faults' \in Nat
  BY <1>2 DEF DistillationInv, Types, TypeOK
<1>5. CASE t.cand # None
  <2>1. Fail(p) /\ process[p].phase \notin {"idle", "absent"}
    BY <1>1, <1>2, <1>5 DEF Remediate
  <2> QED
    BY <1>2, <1>4, <2>1, FailStep
<1>6. CASE t.cand = None
  <2> DEFINE st == [t EXCEPT !.decision = "rejected"]
  <2>1. SetProcess(p, st) /\ UNCHANGED store
    BY <1>1, <1>2, <1>6 DEF Remediate, store
  <2>2. st \in ProcessStates
    BY DEF ProcessStates, Outcomes
  <2>3. SameUnit(st, t) /\ st.phase = "settle" /\ st.decision = "rejected"
    BY <1>2 DEF ProcessStates, SameUnit
  <2>4. st.cand = t.cand /\ st.previous = t.previous /\ st.memory = t.memory
    BY DEF ProcessStates
  <2> HIDE DEF st
  <2>5. Placed(p, st) /\ Noted(p, st) /\ RunSound(p, st)
    <3>1. t.unit \in Indices(p) /\ st.decision \in Outcomes
      BY <1>1, <1>2, <1>3, <2>3 DEF Placed, Outcomes
    <3> QED
      BY <1>1, <1>2, <1>3, <2>2, <2>3, <3>1, WithinUnit
  <2>6. Owned(p, st)
    BY <1>1, <1>2, <1>3, <1>6, <2>3, <2>4 DEF Owned
  <2>7. Steps(p, st)
    BY <1>1, <1>2, <1>4, <2>1, <2>3, <2>4 DEF Steps, SetProcess
  <2> QED
    BY <2>1, <2>2, <2>5, <2>6, <2>7, QuietStep
<1> QED
  BY <1>5, <1>6


(* The final record of a unit settles it, unless it is for review. *)
LEMMA SettleStep ==
  ASSUME DistillationInv, NEW p \in Processes, Settle(p)
  PROVE  DistillationInv'
<1>1. PICK t \in ProcessStates :
        t = process[p] /\ Placed(p, t) /\ Owned(p, t) /\ Noted(p, t) /\ RunSound(p, t)
  BY DEF DistillationInv, Types, Bound, Ledger, Runs
<1>2. /\ t.phase = "settle" /\ PutRecord(p, t.decision, t.cand, t.memory)
      /\ UNCHANGED <<heads, commits, candidates, receipts, refresh, faults>>
  BY <1>1 DEF Settle
<1>3. /\ "settle" \in Mid /\ "settle" \in Loop /\ "settle" \in Running
      /\ "unit" \in Loop /\ "unit" \in Running /\ "unit" \notin Mid /\ "unit" \notin Holding
  BY DEF Loop, Mid, Admitting, Running, Holding
<1>4. /\ t.unit \in Indices(p) /\ t.decision \in Outcomes /\ UnitCount[SourceOf[p]] \in Nat
      /\ t.cand \in CandidateIds \cup {None}
  BY <1>1, <1>2, <1>3, UnitsAssumption DEF Placed, ProcessStates
<1>5. PICK st : st = NextUnit(t, t.decision)
  OBVIOUS
<1>6. /\ st \in ProcessStates /\ st.phase = "unit" /\ st.unit = t.unit + 1
      /\ st.prior = t.prior /\ st.receipt = t.receipt /\ st.cand = None /\ st.previous = None
      /\ st.memory = None /\ st.stage = 5
      /\ st.counts[t.decision] = t.counts[t.decision] + 1
      /\ \A o \in Outcomes \ {t.decision} : st.counts[o] = t.counts[o]
  BY <1>4, <1>5, NextUnitFacts
<1>7. Steps(p, st)
  BY <1>1, <1>2, <1>5, <1>6 DEF Settle, Steps, SetProcess, DistillationInv, Types, TypeOK
<1>8. \A o \in Outcomes : t.counts[o] \in Nat
  BY DEF ProcessStates
<1>9. Placed(p, st)
  <2>1. \A o \in Outcomes : st.counts[o] < st.unit
    BY <1>1, <1>2, <1>3, <1>4, <1>6, <1>8 DEF Placed, Indices
  <2>2. t.receipt.archived /\ \A o \in Outcomes : t.receipt.counts[o] <= UnitCount[SourceOf[p]]
    BY <1>1, <1>2, <1>3 DEF Placed
  <2> QED
    BY <1>3, <1>4, <1>6, <2>1, <2>2 DEF Placed, Indices, Mid
<1>10. Owned(p, st)
  BY <1>3, <1>6 DEF Owned
<1>11. Noted(p, st)
  BY <1>1, <1>2, <1>3, <1>6 DEF Noted
<1>12. RunSound(p, st)'
  <2>1. ~st.receipt.prune
    BY <1>1, <1>2, <1>3, <1>6 DEF RunSound
  <2>2. CASE ~Single(p)
    BY <1>3, <1>6, <2>1, <2>2 DEF RunSound
  <2>3. CASE Single(p)
    <3>1. PICK u \in Units : u = Unit(p) /\ u = <<SourceOf[p], t.unit>>
      BY <1>1, <1>4, UnitFacts DEF Unit
    <3>2. PICK new \in CurationRecord :
            new = [outcome |-> t.decision, cand |-> t.cand, memory |-> t.memory]
      BY <1>4 DEF CurationRecord, ProcessStates
    <3>3. PICK old \in CurationRecord \cup {None} : old = records[u]
      BY DEF DistillationInv, Types, TypeOK
    <3>4. PICK r \in CurationRecord : r = UpsertRecord(old, new)
      BY UpsertRecordFacts
    <3>5. /\ records'[u] = r
          /\ \A v \in Units : v # u => records'[v] = records[v]
      BY <1>2, <3>1, <3>2, <3>3, <3>4 DEF PutRecord, DistillationInv, Types, TypeOK
    <3>6. ~Canonicalized(old)
      BY <1>1, <1>2, <1>3, <1>4, <2>3, <3>1, <3>3 DEF RunSound, Indices
    <3>7. r # None /\ r.outcome = t.decision /\ r.memory = t.memory
      <4>1. new.outcome = t.decision /\ new.memory = t.memory
        BY <3>2
      <4> QED
        BY <3>4, <3>6, <4>1, UpsertRecordFacts
    <3>8. st.counts["pending_review"] = 0 =>
            t.decision # "pending_review" /\ t.counts["pending_review"] = 0
      <4>1. "pending_review" \in Outcomes
        BY DEF Outcomes
      <4> QED
        BY <1>6, <1>8, <4>1
    <3>9. (st.counts["pending_review"] = 0 => Settled(u)') /\ Listed(u, st.receipt)'
      <4>1. st.counts["pending_review"] = 0 => Settled(u)'
        BY <1>1, <1>2, <3>5, <3>7, <3>8 DEF Settled, Owned
      <4>2. Listed(u, st.receipt)'
        BY <1>1, <1>6, <3>5, <3>7 DEF Listed, Canonicalized, Owned
      <4> QED
        BY <4>1, <4>2
    <3>10. ASSUME NEW i \in Indices(p)
           PROVE  IF i < st.unit
                  THEN /\ st.counts["pending_review"] = 0 => Settled(<<SourceOf[p], i>>)'
                       /\ Listed(<<SourceOf[p], i>>, st.receipt)'
                  ELSE Canonicalized(records'[<<SourceOf[p], i>>]) => Canonicalized(st.prior[i])
      <4>1. CASE i = t.unit
        <5>1. i < st.unit
          BY <1>6, <4>1 DEF ProcessStates
        <5> QED
          BY <3>1, <3>9, <4>1, <5>1
      <4>2. CASE i # t.unit
        <5>1. i < st.unit <=> i < t.unit
          BY <1>4, <1>6, <4>2 DEF Indices
        <5>2. records'[<<SourceOf[p], i>>] = records[<<SourceOf[p], i>>]
          BY <3>1, <3>5, <4>2, UnitFacts
        <5>3. IF i < t.unit
              THEN /\ t.counts["pending_review"] = 0 => Settled(<<SourceOf[p], i>>)
                   /\ Listed(<<SourceOf[p], i>>, t.receipt)
              ELSE Canonicalized(records[<<SourceOf[p], i>>]) => Canonicalized(t.prior[i])
          BY <1>1, <1>2, <1>3, <2>3 DEF RunSound
        <5> QED
          BY <1>6, <3>8, <5>1, <5>2, <5>3 DEF Settled, Listed
      <4> QED
        BY <4>1, <4>2
    <3>11. receipts'[SourceOf[p]] # None => receipts'[SourceOf[p]].status # "complete"
      BY <1>1, <1>2, <1>3, <2>3 DEF RunSound
    <3> QED
      BY <1>3, <1>6, <2>1, <3>10, <3>11 DEF RunSound
  <2> QED
    BY <2>2, <2>3
<1>13. t.memory \in {None, process[p].memory} /\ process[p].phase \in Mid
  BY <1>1, <1>2, <1>3
<1>14. t.memory # None => t.cand = process[p].cand /\ t.decision = process[p].decision
  BY <1>1
<1>15. UNCHANGED <<heads, commits, candidates, receipts>>
  BY <1>2
<1> QED
  BY <1>2, <1>4, <1>6, <1>7, <1>9, <1>10, <1>11, <1>12, <1>13, <1>14, <1>15, RecordStep

(* The commit binds candidate and memory, and the receipt notes it. *)
LEMMA CommitUnitStep ==
  ASSUME DistillationInv, NEW p \in Processes, CommitUnit(p)
  PROVE  DistillationInv'
<1>1. PICK t \in ProcessStates :
        t = process[p] /\ Placed(p, t) /\ Owned(p, t) /\ Noted(p, t) /\ RunSound(p, t)
  BY DEF DistillationInv, Types, Bound, Ledger, Runs
<1>2. /\ "commit" \in Holding /\ "commit" \in Admitting /\ "commit" \in Mid /\ "commit" \in Loop
      /\ "commit" \in Running
      /\ "settle" \in Mid /\ "settle" \in Loop /\ "settle" \notin Admitting /\ "settle" \notin Holding
      /\ "settle" \in Running
  BY DEF Holding, Admitting, Mid, Loop, Running
<1>3. /\ t.phase = "commit" /\ UNCHANGED <<records, receipts, refresh, faults>>
      /\ candidates' = SetStatus(t.cand, "ACCEPTED")
  BY <1>1 DEF CommitUnit
<1>4. PICK u \in Units : u = Unit(p) /\ u = UnitOf(p, t) /\ t.unit \in Indices(p)
  BY <1>1, <1>2, <1>3, UnitFacts DEF Placed, Unit, UnitOf
<1>5. PICK k \in SemanticKeys : k = KeyOf[u] /\ k = Key(p)
  BY <1>4, UnitsAssumption DEF Key
<1>6. k # None
  BY NoneAssumption
<1>7. PICK h \in Heads : h = [revision |-> t.base + 1, status |-> "active", text |-> t.text]
  <2>1. t.text \in Texts /\ t.base \in Nat
    BY <1>1, <1>2, <1>3 DEF Placed, ProcessStates
  <2>2. PICK n \in Nat \ {0} : n = t.base + 1
    BY <2>1
  <2>3. [revision |-> n, status |-> "active", text |-> t.text] \in Heads
    BY <2>1 DEF Heads
  <2> QED
    BY <2>2, <2>3
<1>8. heads' = [heads EXCEPT ![k] = h]
  BY <1>1, <1>5, <1>7 DEF CommitUnit
<1>9. PICK y : y = [unit |-> u, text |-> t.text, op |-> t.op, cand |-> t.cand, memory |-> k]
  OBVIOUS
<1>10. commits' = commits \cup {y} /\ y.unit = u /\ y.cand = t.cand /\ y.memory = k
  BY <1>1, <1>4, <1>5, <1>9 DEF CommitUnit
<1>11. /\ candidates' \in [CandidateIds -> Candidates \cup {None}]
       /\ t.cand \in CandidateIds /\ t.cand # None
       /\ \A d \in CandidateIds : d # t.cand => candidates'[d] = candidates[d]
       /\ candidates'[t.cand].op = t.op /\ candidates'[t.cand].status = "ACCEPTED"
  BY <1>1, <1>2, <1>3, StatusFacts DEF Owned
<1>12. PICK memories \in SUBSET SemanticKeys : memories = t.receipt.memories \cup {k}
  BY DEF ProcessStates, DistillationReceipts
<1> DEFINE rec == [t.receipt EXCEPT !.memories = memories]
           m == [t EXCEPT !.receipt = rec]
           st == [m EXCEPT !.phase = "settle", !.memory = k]
<1>13. /\ rec \in DistillationReceipts /\ rec.memories = memories /\ rec.counts = t.receipt.counts
       /\ rec.prune = t.receipt.prune /\ rec.archived = t.receipt.archived
  BY DEF DistillationReceipts, ProcessStates
<1>14. st = [t EXCEPT !.phase = "settle", !.memory = k,
                      !.receipt.memories = t.receipt.memories \cup {k}]
  BY <1>12 DEF ProcessStates
<1>15. SetProcess(p, st)
  BY <1>1, <1>5, <1>14 DEF CommitUnit
<1> HIDE DEF rec
<1>16. m \in ProcessStates
  BY <1>13 DEF ProcessStates
<1>17. /\ m.receipt = rec /\ m.unit = t.unit /\ m.prior = t.prior /\ m.counts = t.counts
       /\ m.stage = t.stage /\ m.cand = t.cand /\ m.previous = t.previous
       /\ m.decision = t.decision
  BY DEF ProcessStates
<1> HIDE DEF m
<1>18. st \in ProcessStates
  BY <1>16 DEF ProcessStates, Phases, Loop, Mid
<1>19. /\ st.receipt = rec /\ st.unit = t.unit /\ st.prior = t.prior /\ st.counts = t.counts
       /\ st.stage = t.stage /\ st.cand = t.cand /\ st.previous = t.previous
       /\ st.decision = t.decision /\ st.phase = "settle" /\ st.memory = k
  BY <1>16, <1>17 DEF ProcessStates
<1> HIDE DEF st
<1>20. Frame(p, st)
  <2>1. \A j \in SemanticKeys : heads[j] # None => heads'[j] # None
    BY <1>8, NoneAssumption DEF DistillationInv, Types, TypeOK
  <2>2. process' = [process EXCEPT ![p] = st]
    BY <1>15 DEF SetProcess
  <2>3. UNCHANGED <<records, receipts, refresh>>
    BY <1>3
  <2> QED
    BY <1>1, <1>2, <1>3, <1>10, <1>11, <1>19, <2>1, <2>2, <2>3 DEF Frame
<1>21. Types'
  <2>1. heads' \in [SemanticKeys -> Heads \cup {None}]
    BY <1>8 DEF DistillationInv, Types, TypeOK
  <2>2. process' \in [Processes -> ProcessStates]
    BY <1>15, <1>18 DEF SetProcess, DistillationInv, Types
  <2> QED
    BY <1>3, <1>11, <2>1, <2>2 DEF DistillationInv, Types, TypeOK
<1>22. Placed(p, st)'
  <2>1. /\ t.unit \in 1 .. UnitCount[SourceOf[p]] + 1 /\ \A o \in Outcomes : t.counts[o] < t.unit
        /\ t.decision \in Outcomes /\ t.receipt.archived
        /\ \A o \in Outcomes : t.receipt.counts[o] <= UnitCount[SourceOf[p]]
    BY <1>1, <1>2, <1>3 DEF Placed
  <2> QED
    BY <1>2, <1>4, <1>13, <1>19, <2>1 DEF Placed
<1>23. Owned(p, st)'
  <2>1. t.decision = CanonicalOutcome(t.op) /\ t.cand # t.previous
    BY <1>1, <1>2, <1>3 DEF Owned, Placed
  <2>2. t.previous # None =>
          candidates'[t.previous].status = "CONFLICT" /\ \A x \in commits' : x.cand # t.previous
    <3>1. t.previous # None =>
            /\ candidates[t.previous].status = "CONFLICT" /\ \A x \in commits : x.cand # t.previous
            /\ t.previous \in CandidateIds
      BY <1>1 DEF Owned, ProcessStates
    <3> QED
      BY <1>10, <1>11, <2>1, <3>1
  <2>3. UnitOf(p, st) = u
    BY <1>4, <1>19 DEF UnitOf
  <2>4. \E x \in commits' : x.unit = u /\ x.cand = t.cand /\ x.memory = k
    BY <1>10
  <2>5. k \in rec.memories
    BY <1>12, <1>13
  <2>6. st.memory # None =>
          /\ st.cand # None /\ candidates'[st.cand].status = "ACCEPTED"
          /\ st.decision = CanonicalOutcome(candidates'[st.cand].op)
          /\ st.memory = KeyOf[UnitOf(p, st)] /\ st.memory \in st.receipt.memories
          /\ \E x \in commits' : x.unit = UnitOf(p, st) /\ x.cand = st.cand /\ x.memory = st.memory
    BY <1>5, <1>11, <1>19, <2>1, <2>3, <2>4, <2>5
  <2> QED
    BY <1>2, <1>6, <1>19, <2>2, <2>6 DEF Owned
<1>24. Noted(p, st)'
  <2>1. \A s, j : Committed(s, j) => Committed(s, j)'
    BY <1>10 DEF Committed
  <2>2. Committed(SourceOf[p], k)'
    BY <1>4, <1>10 DEF Committed, UnitOf
  <2> QED
    BY <1>1, <1>2, <1>3, <1>12, <1>13, <1>19, <2>1, <2>2 DEF Noted
<1>25. RunSound(p, st)'
  <2>1. \A i \in Indices(p) : Listed(<<SourceOf[p], i>>, t.receipt) => Listed(<<SourceOf[p], i>>, rec)
    BY <1>12, <1>13 DEF Listed
  <2>2. RunSound(p, st)
    BY <1>1, <1>2, <1>3, <1>13, <1>19, <2>1 DEF RunSound
  <2> QED
    BY <1>3, <2>2 DEF RunSound, Settled, Listed
<1>26. Bound'
  BY <1>3, <1>18, <1>20, <1>22, <1>23, BoundStep DEF DistillationInv
<1>27. Ledger'
  <2>1. PICK s \in Sources : s = SourceOf[p]
    BY UnitsAssumption
  <2>2. receipts'[s] # None => \A j \in receipts'[s].memories : Committed(s, j)'
    BY <1>3, <1>10 DEF DistillationInv, Ledger, Committed
  <2> QED
    BY <1>3, <1>18, <1>20, <1>24, <2>1, <2>2, LedgerStep DEF DistillationInv
<1>28. Runs'
  BY <1>3, <1>18, <1>20, <1>25, QuietRuns DEF DistillationInv
<1> QED
  BY <1>21, <1>26, <1>27, <1>28 DEF DistillationInv

-----------------------------------------------------------------------------
(* The closing of the receipt. *)
LEMMA CanonicalizeStep ==
  ASSUME DistillationInv, NEW p \in Processes, Canonicalize(p)
  PROVE  DistillationInv'
<1>1. PICK t \in ProcessStates :
        t = process[p] /\ Placed(p, t) /\ Owned(p, t) /\ Noted(p, t) /\ RunSound(p, t)
  BY DEF DistillationInv, Types, Bound, Ledger, Runs
<1>2. PICK units \in Nat : units = UnitCount[SourceOf[p]]
  BY UnitsAssumption
<1>3. t.phase = "unit" /\ t.unit > units /\ UNCHANGED <<heads, commits, candidates, records, refresh, faults>>
  BY <1>1, <1>2 DEF Canonicalize
<1>4. PICK covered \in BOOLEAN : covered = (t.receipt.covered /\ Total(t.counts) = units)
  OBVIOUS
<1>5. PICK admitted \in BOOLEAN : admitted = (covered /\ t.counts["pending_review"] = 0)
  OBVIOUS
<1>6. PICK outcome \in {"pending_review", "committed", "superseded", "rejected",
                        "no_memory_worthy_content"} : outcome = Outcome(t, units)
  BY DEF Outcome
<1>7. t.receipt \in DistillationReceipts /\ t.counts \in [Outcomes -> Nat] /\ t.unit \in Nat
  BY DEF ProcessStates
<1> DEFINE rec == [t.receipt EXCEPT
                    !.status = "canonicalized", !.counts = t.counts, !.covered = covered,
                    !.admitted = admitted, !.outcome = outcome]
           st == [Idle EXCEPT !.phase = "close", !.stage = 5, !.receipt = rec]
<1>8. PutReceipt(p, rec) /\ SetProcess(p, st)
  BY <1>1, <1>2, <1>4, <1>5, <1>6 DEF Canonicalize
<1>9. /\ rec \in DistillationReceipts /\ rec.status = "canonicalized" /\ rec.counts = t.counts
      /\ rec.memories = t.receipt.memories /\ rec.prune = t.receipt.prune
      /\ rec.archived = t.receipt.archived /\ rec.admitted = admitted
  BY <1>7 DEF DistillationReceipts, Statuses
<1> HIDE DEF rec
<1>10. st \in ProcessStates
  <2>1. Idle \in ProcessStates /\ "close" \in Phases /\ 5 \in 0 .. 5
    BY IdleFacts DEF Phases
  <2> QED
    BY <1>9, <2>1 DEF ProcessStates
<1>11. /\ st.phase = "close" /\ st.receipt = rec /\ st.stage = 5
       /\ st.cand = None /\ st.previous = None /\ st.memory = None
  BY IdleFacts DEF ProcessStates
<1> HIDE DEF st
<1>12. /\ "unit" \in Loop /\ "unit" \in Running /\ "close" \in Running /\ "close" \notin Loop
       /\ "close" \notin Mid /\ "close" \notin Holding /\ "close" \notin Admitting
  BY DEF Loop, Mid, Admitting, Running, Holding
<1>13. /\ \A o \in Outcomes : rec.counts[o] <= UnitCount[SourceOf[p]]
       /\ rec.archived /\ ~rec.prune
  BY <1>1, <1>2, <1>3, <1>7, <1>9, <1>12 DEF Placed, RunSound
<1>14. \A k \in rec.memories : Committed(SourceOf[p], k)
  BY <1>1, <1>9 DEF Noted
<1>15. Placed(p, st)
  BY <1>11, <1>12, <1>13 DEF Placed
<1>16. Owned(p, st)
  BY <1>11, <1>12 DEF Owned
<1>17. Noted(p, st)
  BY <1>11, <1>12, <1>14 DEF Noted
<1>18. RunSound(p, st)
  <2>1. ASSUME Single(p), NEW i \in Indices(p)
        PROVE  (rec.admitted => Settled(<<SourceOf[p], i>>)) /\ Listed(<<SourceOf[p], i>>, rec)
    <3>1. i < t.unit
      BY <1>2, <1>3, <1>7 DEF Indices
    <3>2. /\ t.counts["pending_review"] = 0 => Settled(<<SourceOf[p], i>>)
          /\ Listed(<<SourceOf[p], i>>, t.receipt)
      BY <1>1, <1>3, <1>12, <2>1, <3>1 DEF RunSound
    <3> QED
      BY <1>5, <1>9, <3>2 DEF Listed
  <2>2. Single(p) => (receipts[SourceOf[p]] # None => receipts[SourceOf[p]].status # "complete")
    BY <1>1, <1>3, <1>12 DEF RunSound
  <2> QED
    BY <1>11, <1>12, <1>13, <2>1, <2>2 DEF RunSound
<1>19. Steps(p, st)
  BY <1>1, <1>3, <1>8, <1>11 DEF Steps, SetProcess, DistillationInv, Types, TypeOK
<1>20. process[p].phase \in Running /\ rec.status # "complete"
  BY <1>1, <1>3, <1>9, <1>12
<1>21. UNCHANGED <<heads, commits, candidates, records>>
  BY <1>3
<1> QED
  BY <1>8, <1>9, <1>10, <1>13, <1>14, <1>15, <1>16, <1>17, <1>18, <1>19, <1>20, <1>21, PutStep

(* The receipt is closed as complete only where every unit is settled and  *)
(* listed.                                                                 *)
LEMMA CloseStep ==
  ASSUME DistillationInv, NEW p \in Processes, Close(p)
  PROVE  DistillationInv'
<1>1. PICK t \in ProcessStates :
        t = process[p] /\ Placed(p, t) /\ Owned(p, t) /\ Noted(p, t) /\ RunSound(p, t)
  BY DEF DistillationInv, Types, Bound, Ledger, Runs
<1>2. t.phase = "close" /\ UNCHANGED <<heads, commits, candidates, records, refresh, faults>>
  BY <1>1 DEF Close
<1>3. t.receipt \in DistillationReceipts
  BY DEF ProcessStates
<1>4. PICK status \in {"complete", "awaiting_review"} : status = ClosingStatus(t.receipt)
  BY DEF ClosingStatus
<1> DEFINE rec == [t.receipt EXCEPT !.prune = FALSE, !.status = status]
           st == [t EXCEPT !.phase = "closed", !.receipt = rec]
<1>5. PutReceipt(p, rec) /\ SetProcess(p, st)
  BY <1>1, <1>4 DEF Close
<1>6. /\ rec \in DistillationReceipts /\ rec.status = status /\ rec.counts = t.receipt.counts
      /\ rec.memories = t.receipt.memories /\ ~rec.prune /\ rec.archived = t.receipt.archived
  BY <1>3 DEF DistillationReceipts, Statuses
<1> HIDE DEF rec
<1>7. st \in ProcessStates
  BY <1>6 DEF ProcessStates, Phases
<1>8. /\ st.phase = "closed" /\ st.receipt = rec /\ st.stage = t.stage
      /\ st.cand = t.cand /\ st.previous = t.previous /\ st.memory = t.memory
  BY DEF ProcessStates
<1> HIDE DEF st
<1>9. /\ "close" \in Running /\ "close" \notin Mid /\ "closed" \notin Running /\ "closed" \notin Loop
      /\ "closed" \notin Mid /\ "closed" \notin Holding /\ "closed" \notin Admitting
  BY DEF Loop, Mid, Admitting, Running, Holding
<1>10. /\ \A o \in Outcomes : rec.counts[o] <= UnitCount[SourceOf[p]]
       /\ rec.archived
       /\ \A k \in rec.memories : Committed(SourceOf[p], k)
  BY <1>1, <1>2, <1>6 DEF Placed, Noted
<1>11. Placed(p, st)
  BY <1>8, <1>9, <1>10 DEF Placed
<1>12. Owned(p, st)
  BY <1>1, <1>2, <1>8, <1>9 DEF Owned
<1>13. Noted(p, st) /\ RunSound(p, st)
  BY <1>8, <1>9, <1>10 DEF Noted, RunSound
<1>14. rec.status = "complete" /\ Single(p) => \A i \in Indices(p) :
         Settled(<<SourceOf[p], i>>) /\ Listed(<<SourceOf[p], i>>, rec)
  <2>1. status = "complete" => t.receipt.admitted
    BY <1>4 DEF ClosingStatus
  <2> QED
    BY <1>1, <1>2, <1>6, <1>9, <2>1 DEF RunSound, Listed
<1>15. Steps(p, st)
  BY <1>1, <1>2, <1>5, <1>8 DEF Steps, SetProcess, DistillationInv, Types, TypeOK
<1>16. process[p].phase \in Running /\ st.phase \notin Running
  BY <1>1, <1>2, <1>8, <1>9
<1>17. UNCHANGED <<heads, commits, candidates, records>>
  BY <1>2
<1> QED
  BY <1>5, <1>6, <1>7, <1>10, <1>11, <1>12, <1>13, <1>14, <1>15, <1>16, <1>17, PutStep


-----------------------------------------------------------------------------
(* Other callers of the authority never take a memory away. *)
LEMMA OtherCommitStep ==
  ASSUME DistillationInv, NEW k \in SemanticKeys, OtherCommit(k)
  PROVE  DistillationInv'
<1>1. UNCHANGED <<commits, candidates, records, receipts, process, refresh, faults>>
  BY DEF OtherCommit
<1>2. PICK h \in Heads : heads' = [heads EXCEPT ![k] = h]
  <2>1. CASE heads[k] = None
    <3>1. PICK t \in Texts : heads' = [heads EXCEPT ![k] = [revision |-> 1, status |-> "active", text |-> t]]
      BY <2>1 DEF OtherCommit
    <3>2. [revision |-> 1, status |-> "active", text |-> t] \in Heads
      BY DEF Heads
    <3> QED
      BY <3>1, <3>2
  <2>2. CASE heads[k] # None
    <3>1. PICK t \in Texts, status \in {"active", "tombstoned"} :
            heads' = [heads EXCEPT ![k] =
                        [revision |-> heads[k].revision + 1, status |-> status, text |-> t]]
      BY <2>2 DEF OtherCommit
    <3>2. PICK n \in Nat \ {0} : n = heads[k].revision + 1
      BY <2>2 DEF DistillationInv, Types, TypeOK, Heads
    <3>3. [revision |-> n, status |-> status, text |-> t] \in Heads
      BY DEF Heads
    <3> QED
      BY <3>1, <3>2, <3>3
  <2> QED
    BY <2>1, <2>2
<1>3. \A j \in SemanticKeys : heads[j] # None => heads'[j] # None
  BY <1>2, NoneAssumption DEF DistillationInv, Types, TypeOK
<1>4. Types'
  <2>1. heads' \in [SemanticKeys -> Heads \cup {None}]
    BY <1>2 DEF DistillationInv, Types, TypeOK
  <2> QED
    BY <1>1, <2>1 DEF DistillationInv, Types, TypeOK
<1>5. Bound'
  <2>1. ASSUME NEW p \in Processes PROVE (Placed(p, process[p]) /\ Owned(p, process[p]))'
    <3>1. PICK t \in ProcessStates : t = process[p] /\ Placed(p, t) /\ Owned(p, t)
      BY DEF DistillationInv, Types, Bound
    <3>2. t.phase \in Admitting => KeyOf[UnitOf(p, t)] \in SemanticKeys
      <4>1. t.phase \in Admitting => t.unit \in Indices(p)
        BY <3>1 DEF Placed, Mid
      <4> QED
        BY <4>1, UnitFacts DEF UnitOf
    <3>3. Placed(p, t)'
      BY <1>3, <3>1, <3>2 DEF Placed, UnitOf
    <3>4. Owned(p, t)'
      BY <1>1, <3>1 DEF Owned
    <3>5. process'[p] = t
      BY <1>1, <3>1
    <3> QED
      BY <3>3, <3>4, <3>5
  <2>2. Distinct'
    BY <1>1 DEF DistillationInv, Bound, Distinct
  <2>3. \A u \in Units : RecordSound(u, records[u])'
    BY <1>1 DEF DistillationInv, Bound, RecordSound, Backs
  <2> QED
    BY <2>1, <2>2, <2>3 DEF Bound
<1>6. Ledger'
  BY <1>1 DEF DistillationInv, Ledger, Noted, Committed
<1>7. Runs'
  BY <1>1 DEF DistillationInv, Runs, RunSound, ReceiptSound, RefreshSound, OneHost, Settled, Listed
<1> QED
  BY <1>4, <1>5, <1>6, <1>7 DEF DistillationInv

(* The refresh reads the receipt twice, *)
LEMMA RefreshReads ==
  ASSUME DistillationInv, (\E s \in Sources : Evaluate(s)) \/ Reread
  PROVE  DistillationInv'
<1>1. UNCHANGED <<store, process, faults>>
  BY DEF Evaluate, Reread
<1>2. UNCHANGED <<heads, commits, candidates, records, receipts, process, faults>>
  BY <1>1 DEF store
<1>3. \A s : OneHost(s)' <=> OneHost(s)
  BY <1>2 DEF OneHost
<1>4. /\ refresh' \in Refreshes
      /\ refresh'.receipt # None =>
           refresh'.source \in Sources /\ refresh'.receipt = receipts[refresh'.source]
      /\ OneHost(refresh'.source) =>
           /\ refresh'.eligible \/ (refresh'.receipt # None /\ refresh'.receipt.status = "complete") =>
                receipts[refresh'.source] # None /\ receipts[refresh'.source].status = "complete"
           /\ refresh'.eligible => receipts[refresh'.source].archived
  <2>1. CASE \E s \in Sources : Evaluate(s)
    <3>1. PICK s \in Sources : Evaluate(s)
      BY <2>1
    <3>2. PICK e \in BOOLEAN : e = Eligible(s, receipts[s])
      BY DEF Eligible
    <3>3. refresh' = [source |-> s, eligible |-> e, receipt |-> None] /\ receipts[s] # None
      BY <3>1, <3>2 DEF Evaluate
    <3>4. e => receipts[s].status = "complete" /\ receipts[s].archived
      BY <3>2 DEF Eligible
    <3> QED
      BY <3>3, <3>4 DEF Refreshes
  <2>2. CASE Reread
    <3>1. refresh \in Refreshes /\ refresh.receipt = None
      BY <2>2 DEF Reread, DistillationInv, Types
    <3>2. PICK s \in Sources : s = refresh.source
      BY <3>1 DEF Refreshes
    <3>3. PICK r \in DistillationReceipts \cup {None} : r = receipts[s]
      BY DEF DistillationInv, Types, TypeOK
    <3>4. refresh' = [refresh EXCEPT !.receipt = r]
      BY <2>2, <3>2, <3>3 DEF Reread
    <3>5. /\ refresh' \in Refreshes /\ refresh'.receipt = r /\ refresh'.source = s
          /\ refresh'.eligible = refresh.eligible
      BY <3>1, <3>2, <3>4 DEF Refreshes
    <3>6. OneHost(s) /\ refresh.eligible => r # None /\ r.status = "complete" /\ r.archived
      BY <2>2, <3>2, <3>3 DEF Reread, DistillationInv, Runs, RefreshSound
    <3> QED
      BY <3>3, <3>5, <3>6
  <2> QED
    BY <2>1, <2>2
<1>5. Types'
  BY <1>2, <1>4 DEF DistillationInv, Types, TypeOK
<1>6. Bound'
  BY <1>2 DEF DistillationInv, Bound, Placed, Owned, Distinct, RecordSound, Backs
<1>7. Ledger'
  <2>1. \A p \in Processes : Noted(p, process[p])'
    BY <1>2 DEF DistillationInv, Ledger, Noted, Committed
  <2>2. \A s \in Sources : receipts'[s] # None => \A k \in receipts'[s].memories : Committed(s, k)'
    BY <1>2 DEF DistillationInv, Ledger, Committed
  <2> QED
    BY <1>2, <1>4, <2>1, <2>2 DEF Ledger, Committed
<1>8. Runs'
  <2>1. \A p \in Processes : RunSound(p, process[p])'
    BY <1>2 DEF DistillationInv, Runs, RunSound, Settled, Listed
  <2>2. \A s \in Sources : ReceiptSound(s)'
    BY <1>2 DEF DistillationInv, Runs, ReceiptSound, OneHost, Settled, Listed
  <2>3. RefreshSound'
    BY <1>2, <1>3, <1>4 DEF RefreshSound
  <2> QED
    BY <2>1, <2>2, <2>3 DEF Runs
<1> QED
  BY <1>5, <1>6, <1>7, <1>8 DEF DistillationInv

(* and puts the second reading back. *)
LEMMA WritePruneStep ==
  ASSUME DistillationInv, WritePrune
  PROVE  DistillationInv'
<1>1. UNCHANGED <<heads, commits, candidates, records, process, faults>> /\ refresh' = None
  BY DEF WritePrune
<1>2. refresh \in Refreshes /\ refresh.receipt # None
  BY DEF WritePrune, DistillationInv, Types
<1>3. PICK s \in Sources : s = refresh.source
  BY <1>2 DEF Refreshes
<1>4. PICK read \in DistillationReceipts : read = refresh.receipt
  BY <1>2 DEF Refreshes
<1>5. PICK eligible \in BOOLEAN : eligible = refresh.eligible
  BY <1>2 DEF Refreshes
<1>6. PICK old \in DistillationReceipts \cup {None} : old = receipts[s]
  BY DEF DistillationInv, Types, TypeOK
<1> DEFINE rec == [read EXCEPT !.prune = eligible]
<1>7. /\ rec \in DistillationReceipts /\ rec.prune = eligible /\ rec.status = read.status
      /\ rec.archived = read.archived /\ rec.counts = read.counts /\ rec.memories = read.memories
  BY DEF DistillationReceipts
<1> HIDE DEF rec
<1>8. PICK new \in DistillationReceipts : new = UpsertReceipt(old, rec)
  BY <1>7, UpsertReceiptFacts
<1>9. receipts' = [receipts EXCEPT ![s] = new]
  BY <1>3, <1>4, <1>5, <1>6, <1>8 DEF WritePrune, rec
<1>10. receipts'[s] = new /\ \A t \in Sources : t # s => receipts'[t] = receipts[t]
  BY <1>9 DEF DistillationInv, Types, TypeOK
<1>11. /\ new # None /\ new.archived = rec.archived /\ new.prune = rec.prune
       /\ \A k : k \in new.memories <=> k \in rec.memories \/ (old # None /\ k \in old.memories)
       /\ new.status = IF old # None /\ old.status = "complete" /\ rec.status # "awaiting_review"
                       THEN "complete" ELSE rec.status
  BY <1>7, <1>8, UpsertReceiptFacts
<1>12. new.counts = rec.counts \/ (old # None /\ new.counts = old.counts)
  BY <1>7, <1>8, UpsertReceiptFacts
<1>13. OneHost(s) =>
         /\ eligible \/ read.status = "complete" => old # None /\ old.status = "complete"
         /\ eligible => read.status = "complete" /\ read.archived
  BY <1>2, <1>3, <1>4, <1>5, <1>6 DEF WritePrune, DistillationInv, Runs, RefreshSound
<1>14. OneHost(s) =>
         /\ new.status = "complete" => old # None /\ old.status = "complete"
         /\ new.prune => new.status = "complete" /\ new.archived
  BY <1>7, <1>11, <1>13
<1>15. Types'
  <2>1. receipts' \in [Sources -> DistillationReceipts \cup {None}]
    BY <1>9 DEF DistillationInv, Types, TypeOK
  <2>2. \A o \in Outcomes : new.counts[o] <= UnitCount[s]
    BY <1>2, <1>3, <1>4, <1>6, <1>7, <1>12 DEF WritePrune, DistillationInv, Types, TypeOK
  <2>3. \A t \in Sources : receipts'[t] # None =>
          \A o \in Outcomes : receipts'[t].counts[o] <= UnitCount[t]
    BY <1>10, <2>2 DEF DistillationInv, Types, TypeOK
  <2> QED
    BY <1>1, <2>1, <2>3 DEF DistillationInv, Types, TypeOK
<1>16. Bound'
  BY <1>1 DEF DistillationInv, Bound, Placed, Owned, Distinct, RecordSound, Backs
<1>17. Ledger'
  <2>1. \A p \in Processes : Noted(p, process[p])'
    BY <1>1 DEF DistillationInv, Ledger, Noted, Committed
  <2>2. \A k \in new.memories : Committed(s, k)
    BY <1>2, <1>3, <1>4, <1>6, <1>7, <1>11 DEF WritePrune, DistillationInv, Ledger
  <2>3. \A t \in Sources : receipts'[t] # None => \A k \in receipts'[t].memories : Committed(t, k)
    BY <1>10, <2>2 DEF DistillationInv, Ledger
  <2> QED
    BY <1>1, <2>1, <2>3 DEF Ledger, Committed
<1>18. Runs'
  <2>1. ASSUME NEW p \in Processes PROVE RunSound(p, process[p])'
    <3>1. PICK t : t = process[p] /\ t = process'[p] /\ RunSound(p, t)
      BY <1>1 DEF DistillationInv, Runs
    <3>2. CASE SourceOf[p] # s
      <4>1. receipts'[SourceOf[p]] = receipts[SourceOf[p]]
        BY <1>10, <3>2, UnitsAssumption
      <4>2. RunSound(p, t)'
        BY <1>1, <3>1, <4>1 DEF RunSound, Settled, Listed
      <4> QED
        BY <3>1, <4>2
    <3>3. CASE SourceOf[p] = s
      <4>1. Single(p) => OneHost(s)
        BY <3>3 DEF Single, OneHost
      <4>2. Single(p) /\ t.phase \in Running => new.status # "complete"
        BY <1>6, <1>14, <3>1, <3>3, <4>1 DEF RunSound
      <4>3. RunSound(p, t)'
        BY <1>1, <1>10, <3>1, <3>3, <4>2 DEF RunSound, Settled, Listed
      <4> QED
        BY <3>1, <4>3
    <3> QED
      BY <3>2, <3>3
  <2>2. \A t : OneHost(t)' <=> OneHost(t)
    BY <1>1 DEF OneHost
  <2>3. ASSUME NEW t \in Sources PROVE ReceiptSound(t)'
    <3>1. ReceiptSound(t)
      BY DEF DistillationInv, Runs
    <3>2. CASE t # s
      <4>1. receipts'[t] = receipts[t]
        BY <1>10, <3>2
      <4> QED
        BY <1>1, <2>2, <3>1, <4>1 DEF ReceiptSound, Settled, Listed
    <3>3. CASE t = s /\ OneHost(s)
      <4>1. new.status = "complete" =>
              \A i \in 1 .. UnitCount[s] : Settled(<<s, i>>) /\ Listed(<<s, i>>, new)
        BY <1>6, <1>11, <1>14, <3>1, <3>3 DEF ReceiptSound, Listed
      <4>2. new.status = "complete" =>
              \A i \in 1 .. UnitCount[s] : Settled(<<s, i>>)' /\ Listed(<<s, i>>, new)'
        BY <1>1, <4>1 DEF Settled, Listed
      <4> QED
        BY <1>10, <1>14, <3>3, <4>2 DEF ReceiptSound, Listed
    <3>4. CASE ~OneHost(t)
      BY <2>2, <3>4 DEF ReceiptSound
    <3> QED
      BY <3>2, <3>3, <3>4
  <2>4. RefreshSound'
    BY <1>1 DEF RefreshSound
  <2> QED
    BY <2>1, <2>3, <2>4 DEF Runs
<1> QED
  BY <1>15, <1>16, <1>17, <1>18 DEF DistillationInv

-----------------------------------------------------------------------------
(* Initially there is nothing but idle processes. *)
LEMMA InitStep ==
  ASSUME Init
  PROVE  DistillationInv
<1>1. /\ heads = [k \in SemanticKeys |-> None] /\ commits = {}
      /\ candidates = [c \in CandidateIds |-> None] /\ records = [u \in Units |-> None]
      /\ receipts = [s \in Sources |-> None] /\ refresh = None
  BY DEF Init
<1>2. PICK d \in Deployments :
        /\ process = [p \in Processes |-> IF p \in d.running THEN Idle ELSE Absent]
        /\ faults = d.faults
  BY DEF Init
<1>3. Types
  BY <1>1, <1>2, IdleFacts, UnitsAssumption DEF Types, TypeOK
<1>4. ASSUME NEW p \in Processes
      PROVE  /\ Placed(p, process[p]) /\ Owned(p, process[p]) /\ Noted(p, process[p])
             /\ RunSound(p, process[p]) /\ process[p].cand = None
  <2>1. CASE process[p] = Idle
    BY <2>1, IdleSound, IdleFacts
  <2>2. CASE process[p] = Absent
    <3>1. UnitCount[SourceOf[p]] \in Nat
      BY UnitsAssumption
    <3>2. /\ "absent" \notin Running /\ "absent" \notin Loop \cup {"close", "closed"}
          /\ "absent" \notin Mid /\ "absent" \notin Admitting /\ "absent" \notin Holding
      BY DEF Running, Loop, Mid, Admitting, Holding
    <3>3. Placed(p, Absent)
      BY <3>1, <3>2, IdleFacts DEF Placed
    <3>4. Owned(p, Absent)
      BY <3>2, IdleFacts DEF Owned
    <3>5. Noted(p, Absent) /\ RunSound(p, Absent)
      BY <3>2, IdleFacts DEF Noted, RunSound
    <3> QED
      BY <2>2, <3>3, <3>4, <3>5, IdleFacts
  <2> QED
    BY <1>2, <2>1, <2>2
<1>5. Bound
  <2>1. Distinct
    BY <1>4 DEF Distinct
  <2>2. \A u \in Units : RecordSound(u, records[u])
    BY <1>1 DEF RecordSound, Canonicalized
  <2> QED
    BY <1>4, <2>1, <2>2 DEF Bound
<1>6. Ledger /\ Runs
  BY <1>1, <1>4 DEF Ledger, Runs, ReceiptSound, RefreshSound
<1> QED
  BY <1>3, <1>5, <1>6 DEF DistillationInv

(* Every step keeps the invariant. *)
LEMMA NextStep ==
  ASSUME DistillationInv, [Next]_vars
  PROVE  DistillationInv'
<1>1. ASSUME NEW p \in Processes, Run(p) \/ Throws(p) \/ Crash(p) PROVE DistillationInv'
  BY <1>1, FaultStep, StartStep, AdvanceStep, ListRecordsStep, ReuseUnitStep, DecideUnitStep,
     RecordActionStep, IngestStep, BindStep, VetoStep, AuthorityStep, CommitUnitStep, RetryStep,
     RemediateStep, SettleStep, CanonicalizeStep, CloseStep DEF Run
<1>2. ASSUME NEW k \in SemanticKeys, OtherCommit(k) PROVE DistillationInv'
  BY <1>2, OtherCommitStep
<1>3. ASSUME NEW s \in Refreshed, Evaluate(s) PROVE DistillationInv'
  BY <1>3, RefreshReads, UnitsAssumption
<1>4. CASE Reread
  BY <1>4, RefreshReads
<1>5. CASE WritePrune
  BY <1>5, WritePruneStep
<1>6. CASE UNCHANGED vars
  <2>1. UNCHANGED <<heads, commits, candidates, records, receipts, process, refresh, faults>>
    BY <1>6 DEF vars, store
  <2>2. Types' /\ Bound'
    BY <2>1 DEF DistillationInv, Types, TypeOK, Bound, Placed, Owned, Distinct, RecordSound, Backs
  <2>3. Ledger'
    BY <2>1 DEF DistillationInv, Ledger, Noted, Committed
  <2>4. Runs'
    BY <2>1 DEF DistillationInv, Runs, RunSound, ReceiptSound, RefreshSound, OneHost, Settled, Listed
  <2> QED
    BY <2>2, <2>3, <2>4 DEF DistillationInv
<1> QED
  BY <1>1, <1>2, <1>3, <1>4, <1>5, <1>6 DEF Next


(* The invariant of the distillation, whatever interleaves and fails. *)
THEOREM DistillationInvariance == Spec => []DistillationInv
<1>1. Init => DistillationInv
  BY InitStep
<1>2. DistillationInv /\ [Next]_vars => DistillationInv'
  BY NextStep
<1> QED
  BY <1>1, <1>2, PTL DEF Spec

(* Rows keep the shapes of their tables, and no receipt ever counts more   *)
(* than the units of its source, however runs of it, their failures and    *)
(* the stale write of a refresh follow each other.                         *)
THEOREM TypeCorrect == Spec => []TypeOK
<1>1. DistillationInv => TypeOK
  BY DEF DistillationInv, Types
<1> QED
  BY <1>1, DistillationInvariance, PTL

(* The record that lets a later run skip a unit names the accepted         *)
(* candidate that committed its memory, however many runs of the source    *)
(* there are; and a candidate that a retry replaced is closed.             *)
THEOREM RecordsAreBound == Spec => []RecordsBound
<1>1. DistillationInv => RecordsBound
  BY DEF DistillationInv, Bound, Owned, RecordSound, RecordsBound
<1> QED
  BY <1>1, DistillationInvariance, PTL

(* A complete receipt leaves no unit of its source undecided, and only an  *)
(* archived source with a complete receipt may be pruned.                  *)
THEOREM PrunableArePreserved == Spec => []PrunableIsPreserved
<1>1. DistillationInv => PrunableIsPreserved
  BY DEF DistillationInv, Runs, ReceiptSound, PrunableIsPreserved
<1> QED
  BY <1>1, DistillationInvariance, PTL

(* The memories a receipt lists were committed for its source, and a       *)
(* complete one lists every memory that its records name.                  *)
THEOREM ReceiptsAreTrue == Spec => []ReceiptTruth
<1>1. DistillationInv => ReceiptTruth
  BY DEF DistillationInv, Ledger, Committed, Runs, ReceiptSound, Listed, ReceiptTruth
<1> QED
  BY <1>1, DistillationInvariance, PTL

(* A put never takes the memory out of a record. *)
LEMMA MemoryIsKept ==
  ASSUME DistillationInv, [Next]_vars
  PROVE  \A u \in Units : Canonicalized(records[u]) => Canonicalized(records'[u])
<1>1. CASE UNCHANGED records
  BY <1>1
<1>2. ASSUME NEW p \in Processes, Record(p) \/ Bind(p) \/ Settle(p)
      PROVE  \A u \in Units : Canonicalized(records[u]) => Canonicalized(records'[u])
  <2>1. PICK t \in ProcessStates : t = process[p] /\ Placed(p, t)
    BY DEF DistillationInv, Types, Bound
  <2>2. t.phase \in Mid
    BY <1>2, <2>1 DEF Record, Bind, Settle, Mid, Admitting
  <2>3. PICK outcome \in Outcomes, cand \in CandidateIds \cup {None}, memory \in SemanticKeys \cup {None} :
          PutRecord(p, outcome, cand, memory)
    <3>1. /\ t.decision \in Outcomes /\ t.cand \in CandidateIds \cup {None}
          /\ t.memory \in SemanticKeys \cup {None}
      BY <2>1, <2>2 DEF Placed, ProcessStates
    <3> QED
      BY <1>2, <2>1, <3>1 DEF Record, Bind, Settle
  <2>4. PICK v \in Units : v = Unit(p)
    BY <2>1, <2>2, UnitFacts DEF Placed, Unit
  <2>5. PICK new \in CurationRecord : new = [outcome |-> outcome, cand |-> cand, memory |-> memory]
    BY DEF CurationRecord
  <2>6. PICK old \in CurationRecord \cup {None} : old = records[v]
    BY DEF DistillationInv, Types, TypeOK
  <2>7. /\ records'[v] = UpsertRecord(old, new)
        /\ \A u \in Units : u # v => records'[u] = records[u]
    BY <2>3, <2>4, <2>5, <2>6 DEF PutRecord, DistillationInv, Types, TypeOK
  <2>8. Canonicalized(old) => Canonicalized(UpsertRecord(old, new))
    BY UpsertRecordFacts DEF Canonicalized
  <2> QED
    BY <2>6, <2>7, <2>8
<1>3. UNCHANGED records \/ \E p \in Processes : Record(p) \/ Bind(p) \/ Settle(p)
  BY ZenonT(20) DEF Next, Run, Start, Advance, ListRecords, ReuseUnit, DecideUnit, Ingest, Veto,
         VerifyAdmission, CommitUnit, CommitRefused, CommitCollides, Supersede, Retry, Remediate,
         Canonicalize, Close, Return, Throws, Crash, OtherCommit, Evaluate, Reread, WritePrune,
         vars, store
<1> QED
  BY <1>1, <1>2, <1>3

(* A memory once recorded for a unit stays recorded, whatever a slower run *)
(* of the same source still puts.                                          *)
THEOREM RecordedMemoryStays == Spec => MemoryStaysRecorded
<1>1. DistillationInv /\ [Next]_vars =>
        [\A u \in Units : Canonicalized(records[u]) => Canonicalized(records'[u])]_vars
  BY MemoryIsKept
<1> QED
  BY <1>1, DistillationInvariance, PTL DEF Spec, MemoryStaysRecorded
=============================================================================

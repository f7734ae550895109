----------------------- MODULE InsightPromotionProofs -----------------------
(***************************************************************************)
(* Safety of InsightPromotion for any insights, keys, reviewers and number *)
(* of promoters, however often the lock is lost and an attempt repeated.   *)
(***************************************************************************)
EXTENDS InsightPromotion, FiniteSetTheorems, TLAPS

Fields == {"phase", "approval", "insight", "key", "plan", "before", "replay", "prior",
           "record", "op", "base"}

(* The phases of promoteLocked, in which the lock is held unless it was    *)
(* lost, and those among them after the record and the acceptance.         *)
Accepted == {"propose", "ingest", "link", "commit", "record"}
Recorded == Accepted \cup {"accept"}
Held == Recorded \cup {"prior", "governed", "verify", "assess", "approve", "done"}

(* A record a promoter holds or the store has: its candidate exists, and   *)
(* only an eligible insight is approved.                                   *)
Extant(cands, r) ==
  /\ r \in Records
  /\ r.candidate # None => cands[r.candidate] # None
  /\ r.status # "rejected" => r.insight \in Eligible

(* What a promoter may rely on in each phase, whatever the others do: the  *)
(* record it read or wrote is still there, with the same insight and, once *)
(* linked, the same candidate.                                             *)
ProcessSound(recs, ins, cands, coms, st) ==
  LET row == recs[st.key] IN
  /\ st = [f \in Fields |-> st[f]]
  /\ st.phase \notin {"idle", "plan"} =>
       st.insight \in Insights /\ st.key \in Keys /\ st.approval \in Approvals
  /\ st.phase \in {"governed", "verify", "assess"} /\ st.prior # None =>
       Extant(cands, st.prior) /\ row # None
  /\ st.phase \in {"verify", "assess"} /\ st.prior # None =>
       st.prior.insight = st.insight /\ st.prior.status = "approved"
  /\ st.phase = "approve" =>
       /\ Extant(cands, st.record) /\ st.record.insight = st.insight
       /\ st.record.status = Assessment(st.insight)
       /\ st.record.candidate # None => row # None
  /\ st.phase \in Recorded =>
       /\ Extant(cands, st.record) /\ st.record.insight = st.insight
       /\ st.record.status = "approved"
       /\ row # None /\ row.insight = st.insight /\ row.status # "rejected"
  /\ st.phase \in Accepted => ins[st.insight] = "accepted"
  /\ st.phase = "ingest" => st.op \in {"create", "merge"} /\ st.base \in Nat
  /\ st.phase \in {"link", "commit", "record"} => st.record.candidate # None
  /\ st.phase \in {"accept", "commit", "record"} /\ st.record.candidate # None =>
       row.candidate = st.record.candidate
  /\ st.phase = "record" => \E x \in coms : x.key = st.key /\ x.insight = st.insight

(* One record per insight. *)
RecordsSound(recs, cands) ==
  /\ recs = [k \in Keys |-> recs[k]]
  /\ \A k \in Keys : recs[k] = None \/ Extant(cands, recs[k])
  /\ \A k, l \in Keys : recs[k] # None /\ recs[l] # None /\ recs[k].insight = recs[l].insight
                        => k = l

(* One commit per record, of its insight and candidate. *)
CommitsSound(recs, ins, coms) ==
  /\ \A x \in coms : /\ x.key \in Keys /\ x.candidate # None /\ x.insight \in Insights
                     /\ recs[x.key] # None /\ recs[x.key].insight = x.insight
                     /\ recs[x.key].candidate = x.candidate
                     /\ ins[x.insight] = "accepted"
  /\ \A x, y \in coms : x.key = y.key => x = y

(* The types of the events a record has. *)
Trail(rec) ==
  IF rec = None THEN {}
  ELSE IF rec.status = "rejected" THEN {"rejected"}
  ELSE {"approved"} \cup (IF rec.candidate # None THEN {"candidate_linked"} ELSE {})
                    \cup (IF rec.status = "committed" THEN {"committed"} ELSE {})

(* RecordTruth of one record. *)
RowTruth(coms, evs, k, rec) ==
  /\ rec # None /\ rec.status = "committed" =>
       \E x \in coms : x.key = k /\ x.insight = rec.insight
  /\ {e.type : e \in {x \in evs : x.key = k}} = Trail(rec)
  /\ \A e \in evs : e.key = k => e.candidate \in {None, rec.candidate}

(* A lock that is held is held by a promoter at work on its insight. *)
LocksSound(procs, held) ==
  /\ held = [i \in Insights |-> held[i]]
  /\ \A i \in Insights : held[i] # None =>
       held[i] \in Promoters /\ procs[held[i]].phase \in Held /\ procs[held[i]].insight = i

CanonicalSound ==
  /\ heads = [m \in Memories |-> heads[m]]
  /\ \A m \in Memories : heads[m] = None \/ heads[m] \in Heads
  /\ candidates = [c \in CandidateIds |-> candidates[c]]
  /\ \A c \in CandidateIds : candidates[c] = None \/ candidates[c] \in Proposals

(* The inductive invariant. *)
PromotionInv ==
  /\ CanonicalSound
  /\ insights \in [Insights -> {"pending", "accepted"}]
  /\ RecordsSound(records, candidates) /\ CommitsSound(records, insights, commits)
  /\ \A k \in Keys : RowTruth(commits, events, k, records[k])
  /\ process = [p \in Promoters |-> process[p]]
  /\ \A p \in Promoters : ProcessSound(records, insights, candidates, commits, process[p])
  /\ LocksSound(process, locks)


-----------------------------------------------------------------------------
(* Records, acceptances, candidates and commits are not taken back. *)
Kept(recs, ins, cands, coms, recs2, ins2, cands2, coms2) ==
  /\ \A k \in Keys : recs[k] # None =>
       /\ recs2[k] # None /\ recs2[k].insight = recs[k].insight
       /\ recs[k].status # "rejected" => recs2[k].status # "rejected"
       /\ recs[k].candidate # None => recs2[k].candidate = recs[k].candidate
  /\ \A i \in Insights : ins[i] = "accepted" => ins2[i] = "accepted"
  /\ \A c \in CandidateIds : cands[c] # None => cands2[c] # None
  /\ coms \subseteq coms2

(* A held record stays extant while the candidates do. *)
LEMMA ExtantKeeps ==
  ASSUME NEW cands, NEW cands2, NEW r, Extant(cands, r),
         \A c \in CandidateIds : cands[c] # None => cands2[c] # None
  PROVE  Extant(cands2, r)
BY DEF Extant, Records

(* What a promoter relies on stays true. *)
LEMMA ProcessKeeps ==
  ASSUME NEW recs, NEW ins, NEW cands, NEW coms, NEW recs2, NEW ins2, NEW cands2, NEW coms2,
         Kept(recs, ins, cands, coms, recs2, ins2, cands2, coms2),
         NEW st, ProcessSound(recs, ins, cands, coms, st)
  PROVE  ProcessSound(recs2, ins2, cands2, coms2, st)
<1>1. /\ st = [f \in Fields |-> st[f]]
      /\ st.phase \notin {"idle", "plan"} =>
           st.insight \in Insights /\ st.key \in Keys /\ st.approval \in Approvals
      /\ st.phase = "ingest" => st.op \in {"create", "merge"} /\ st.base \in Nat
      /\ st.phase \in {"link", "commit", "record"} => st.record.candidate # None
      /\ st.phase \in {"verify", "assess"} /\ st.prior # None =>
           st.prior.insight = st.insight /\ st.prior.status = "approved"
  BY DEF ProcessSound
<1>2. \A r : Extant(cands, r) => Extant(cands2, r)
  BY ExtantKeeps DEF Kept
<1>3. st.phase \in {"governed", "verify", "assess"} /\ st.prior # None =>
        Extant(cands2, st.prior) /\ recs2[st.key] # None
  BY <1>1, <1>2 DEF ProcessSound, Kept
<1>4. st.phase = "approve" =>
        /\ Extant(cands2, st.record) /\ st.record.insight = st.insight
        /\ st.record.status = Assessment(st.insight)
        /\ st.record.candidate # None => recs2[st.key] # None
  BY <1>1, <1>2 DEF ProcessSound, Kept
<1>5. st.phase \in Recorded =>
        /\ Extant(cands2, st.record) /\ st.record.insight = st.insight
        /\ st.record.status = "approved"
        /\ recs2[st.key] # None /\ recs2[st.key].insight = st.insight
        /\ recs2[st.key].status # "rejected"
  BY <1>1, <1>2 DEF ProcessSound, Kept, Recorded, Accepted
<1>6. st.phase \in Accepted => ins2[st.insight] = "accepted"
  BY <1>1 DEF ProcessSound, Kept, Accepted
<1>7. st.phase \in {"accept", "commit", "record"} /\ st.record.candidate # None =>
        recs2[st.key].candidate = st.record.candidate
  BY <1>1 DEF ProcessSound, Kept, Recorded, Accepted
<1>8. st.phase = "record" => \E x \in coms2 : x.key = st.key /\ x.insight = st.insight
  BY DEF ProcessSound, Kept
<1> QED
  BY <1>1, <1>3, <1>4, <1>5, <1>6, <1>7, <1>8 DEF ProcessSound

(* A promoter at rest relies on nothing. *)
LEMMA IdleSound ==
  ASSUME NEW recs, NEW ins, NEW cands, NEW coms
  PROVE  ProcessSound(recs, ins, cands, coms, Idle)
<1>1. Idle = [f \in Fields |-> Idle[f]] /\ Idle.phase = "idle"
  BY DEF Idle, Fields
<1> HIDE DEF Idle
<1> QED
  BY <1>1 DEF ProcessSound, Recorded, Accepted

(* The locks when one promoter moves on: it gave its locks back, or held   *)
(* none, or goes on working on the same insight.                           *)
LEMMA LocksStep ==
  ASSUME NEW procs, NEW held, NEW p \in Promoters, NEW new, NEW held2,
         LocksSound(procs, held), procs = [q \in Promoters |-> procs[q]],
         \/ held2 = [i \in Insights |-> IF held[i] = p THEN None ELSE held[i]]
         \/ /\ held2 = held
            /\ \/ procs[p].phase \notin Held
               \/ new.phase \in Held /\ new.insight = procs[p].insight
  PROVE  LocksSound([procs EXCEPT ![p] = new], held2)
<1> DEFINE procs2 == [procs EXCEPT ![p] = new]
<1>1. /\ held = [i \in Insights |-> held[i]]
      /\ \A i \in Insights : held[i] # None =>
           held[i] \in Promoters /\ procs[held[i]].phase \in Held /\ procs[held[i]].insight = i
  BY DEF LocksSound
<1>2. procs2[p] = new /\ \A q \in Promoters : q # p => procs2[q] = procs[q]
  OBVIOUS
<1> HIDE DEF procs2
<1>3. held2 = [i \in Insights |-> held2[i]]
  BY <1>1
<1>4. ASSUME NEW i \in Insights, held2[i] # None
      PROVE  held2[i] \in Promoters /\ procs2[held2[i]].phase \in Held
             /\ procs2[held2[i]].insight = i
  <2>1. held2[i] = held[i]
    BY <1>4
  <2>2. CASE held[i] # p
    BY <1>1, <1>2, <1>4, <2>1, <2>2
  <2>3. CASE held[i] = p
    <3>1. held2 = held /\ procs[p].phase \in Held /\ procs[p].insight = i
      BY <1>1, <1>4, <2>1, <2>3
    <3> QED
      BY <1>2, <1>4, <2>1, <2>3, <3>1
  <2> QED
    BY <2>2, <2>3
<1>5. LocksSound(procs2, held2)
  BY <1>3, <1>4 DEF LocksSound
<1> QED
  BY <1>5 DEF procs2

(* What the promoters know, and the locks, when one of them moves on.      *)
LEMMA ProcessesStep ==
  ASSUME PromotionInv, NEW p \in Promoters, NEW new,
         process' = [process EXCEPT ![p] = new],
         Kept(records, insights, candidates, commits, records', insights', candidates', commits'),
         ProcessSound(records', insights', candidates', commits', new),
         \/ Unlock(p)
         \/ /\ UNCHANGED locks
            /\ \/ process[p].phase \notin Held
               \/ new.phase \in Held /\ new.insight = process[p].insight
  PROVE  /\ process' = [q \in Promoters |-> process'[q]]
         /\ \A q \in Promoters :
              ProcessSound(records', insights', candidates', commits', process'[q])
         /\ LocksSound(process', locks')
<1>1. process = [q \in Promoters |-> process[q]] /\ LocksSound(process, locks)
  BY DEF PromotionInv
<1>2. process' = [q \in Promoters |-> process'[q]]
  BY <1>1
<1>3. ASSUME NEW q \in Promoters
      PROVE  ProcessSound(records', insights', candidates', commits', process'[q])
  <2>1. CASE q = p
    <3>1. process'[q] = new
      BY <1>1, <2>1
    <3> QED
      BY <3>1
  <2>2. CASE q # p
    <3>1. process'[q] = process[q]
      BY <1>1, <2>2
    <3>2. ProcessSound(records, insights, candidates, commits, process[q])
      BY DEF PromotionInv
    <3> QED
      BY <3>1, <3>2, ProcessKeeps
  <2> QED
    BY <2>1, <2>2
<1>4. LocksSound([process EXCEPT ![p] = new], locks')
  BY <1>1, LocksStep DEF Unlock
<1> QED
  BY <1>2, <1>3, <1>4

(* A step of one promoter that writes nothing. *)
LEMMA LocalStep ==
  ASSUME PromotionInv, NEW p \in Promoters, NEW new,
         process' = [process EXCEPT ![p] = new],
         UNCHANGED <<canonical, governed>>,
         ProcessSound(records, insights, candidates, commits, new),
         \/ Unlock(p)
         \/ /\ UNCHANGED locks
            /\ \/ process[p].phase \notin Held
               \/ new.phase \in Held /\ new.insight = process[p].insight
  PROVE  PromotionInv'
<1>1. /\ heads' = heads /\ commits' = commits /\ candidates' = candidates
      /\ insights' = insights /\ records' = records /\ events' = events
  BY DEF canonical, governed
<1>2. Kept(records, insights, candidates, commits, records', insights', candidates', commits')
  BY <1>1 DEF Kept
<1>3. /\ process' = [q \in Promoters |-> process'[q]]
      /\ \A q \in Promoters :
           ProcessSound(records', insights', candidates', commits', process'[q])
      /\ LocksSound(process', locks')
  BY <1>1, <1>2, ProcessesStep
<1>4. /\ CanonicalSound' /\ (insights \in [Insights -> {"pending", "accepted"}])'
      /\ RecordsSound(records, candidates)' /\ CommitsSound(records, insights, commits)'
  BY <1>1 DEF PromotionInv, CanonicalSound
<1>5. \A k \in Keys : RowTruth(commits, events, k, records[k])'
  BY <1>1 DEF PromotionInv
<1> QED
  BY <1>3, <1>4, <1>5 DEF PromotionInv

-----------------------------------------------------------------------------
(* A first version of a record has one event ... *)
LEMMA FirstEvent ==
  ASSUME NEW new \in Records, new.status # "committed", new.candidate = None
  PROVE  Trail(new) = {EventType(new)}
BY NoneAssumption DEF Trail, EventType, Records

(* ... and a later one that of the transition, unless it has it already.   *)
LEMMA LaterEvent ==
  ASSUME NEW old \in Records, NEW new \in Records,
         old.status = new.status \/ (old.status = "approved" /\ new.status = "committed"),
         old.candidate \in {None, new.candidate},
         new.status = "committed" => old.candidate = new.candidate
  PROVE  Trail(new) = Trail(old) \cup {EventType(new)}
<1>1. old # None /\ new # None
  BY NoneAssumption
<1>2. CASE new.status = "rejected"
  BY <1>1, <1>2 DEF Trail, EventType
<1>3. CASE new.status = "approved"
  BY <1>1, <1>3 DEF Trail, EventType
<1>4. CASE new.status = "committed"
  BY <1>1, <1>4 DEF Trail, EventType
<1> QED
  BY <1>2, <1>3, <1>4 DEF Records

(* The invariant gives the properties. *)
LEMMA InvGives == PromotionInv => TypeOK /\ PromotedOnce /\ RecordTruth
<1> SUFFICES ASSUME PromotionInv PROVE TypeOK /\ PromotedOnce /\ RecordTruth
  OBVIOUS
<1>1. TypeOK
  <2>1. \A i \in Insights : locks[i] = None \/
          (process[locks[i]].insight = i /\ process[locks[i]].phase \notin {"idle", "lock"})
    BY DEF PromotionInv, LocksSound, Held, Recorded, Accepted
  <2>2. \A k \in Keys : records[k] = None \/ records[k] \in Records
    BY DEF PromotionInv, RecordsSound, Extant
  <2> QED
    BY <2>1, <2>2 DEF TypeOK, PromotionInv, CanonicalSound
<1>2. PromotedOnce
  <2> SUFFICES ASSUME NEW x \in commits, NEW y \in commits, x.insight = y.insight PROVE x = y
    BY DEF PromotedOnce
  <2>1. x.key = y.key
    BY DEF PromotionInv, CommitsSound, RecordsSound
  <2> QED
    BY <2>1 DEF PromotionInv, CommitsSound
<1>3. RecordTruth
  <2>1. \A k \in Keys :
          LET trail == {e \in events : e.key = k}
              rec == records[k]
          IN /\ rec # None /\ rec.status = "committed" =>
                  \E x \in commits : x.key = k /\ x.insight = rec.insight
             /\ {e.type : e \in trail} =
                  IF rec = None THEN {}
                  ELSE IF rec.status = "rejected" THEN {"rejected"}
                  ELSE {"approved"}
                       \cup (IF rec.candidate # None THEN {"candidate_linked"} ELSE {})
                       \cup (IF rec.status = "committed" THEN {"committed"} ELSE {})
             /\ \A e \in trail : e.candidate \in {None, rec.candidate}
    <3> SUFFICES ASSUME NEW k \in Keys
                 PROVE  LET trail == {e \in events : e.key = k}
                            rec == records[k]
                        IN /\ rec # None /\ rec.status = "committed" =>
                                \E x \in commits : x.key = k /\ x.insight = rec.insight
                           /\ {e.type : e \in trail} = Trail(rec)
                           /\ \A e \in trail : e.candidate \in {None, rec.candidate}
      BY DEF Trail
    <3>1. RowTruth(commits, events, k, records[k])
      BY DEF PromotionInv
    <3> QED
      BY <3>1 DEF RowTruth
  <2>2. \A x \in commits :
          /\ records[x.key] # None
          /\ records[x.key].candidate = x.candidate
          /\ insights[x.insight] = "accepted"
    BY DEF PromotionInv, CommitsSound
  <2> QED
    BY <2>1, <2>2 DEF RecordTruth
<1> QED
  BY <1>1, <1>2, <1>3

(* At the start there is nothing. *)
LEMMA InitSound == Init => PromotionInv
<1> SUFFICES ASSUME Init PROVE PromotionInv
  OBVIOUS
<1>1. CanonicalSound
  BY DEF Init, CanonicalSound, Heads
<1>2. insights \in [Insights -> {"pending", "accepted"}]
  BY DEF Init
<1>3. RecordsSound(records, candidates) /\ CommitsSound(records, insights, commits)
  BY DEF Init, RecordsSound, CommitsSound
<1>4. \A k \in Keys : RowTruth(commits, events, k, records[k])
  BY DEF Init, RowTruth, Trail
<1>5. /\ process = [p \in Promoters |-> process[p]]
      /\ \A p \in Promoters : ProcessSound(records, insights, candidates, commits, process[p])
  BY IdleSound DEF Init
<1>6. LocksSound(process, locks)
  BY DEF Init, LocksSound
<1> QED
  BY <1>1, <1>2, <1>3, <1>4, <1>5, <1>6 DEF PromotionInv

-----------------------------------------------------------------------------
(* A write the store lets through: links and insight stay, and the events  *)
(* follow the record.                                                      *)
LEMMA PutSound ==
  ASSUME PromotionInv, NEW k \in Keys, NEW new, Extant(candidates, new),
         PutAllowed(k, new),
         records' = [records EXCEPT ![k] = new],
         events' = AppendEvent(k, records[k], new),
         UNCHANGED <<canonical, insights>>,
         records[k] = None => new.candidate = None /\ new.status # "committed",
         new.status = "committed" =>
           /\ records[k].candidate = new.candidate
           /\ \E x \in commits : x.key = k /\ x.insight = new.insight
  PROVE  /\ RecordsSound(records', candidates')
         /\ CommitsSound(records', insights', commits')
         /\ \A l \in Keys : RowTruth(commits', events', l, records'[l])
         /\ Kept(records, insights, candidates, commits,
                 records', insights', candidates', commits')
<1> DEFINE old == records[k]
<1>1. /\ heads' = heads /\ commits' = commits /\ candidates' = candidates
      /\ insights' = insights
  BY DEF canonical
<1>2. /\ records = [l \in Keys |-> records[l]]
      /\ \A l \in Keys : records[l] = None \/ Extant(candidates, records[l])
      /\ \A l, m \in Keys : records[l] # None /\ records[m] # None
                              /\ records[l].insight = records[m].insight => l = m
  BY DEF PromotionInv, RecordsSound
<1>3. /\ records' = [l \in Keys |-> records'[l]] /\ records'[k] = new
      /\ \A l \in Keys : l # k => records'[l] = records[l]
  BY <1>2
<1>4. new \in Records /\ new # None /\ (old # None => old \in Records)
  BY <1>2, NoneAssumption DEF Extant
<1>5. old # None =>
        /\ old.insight = new.insight
        /\ old.status = new.status \/ (old.status = "approved" /\ new.status = "committed")
        /\ old.candidate \in {None, new.candidate}
  BY DEF PutAllowed
<1>6. old = None => \A l \in Keys : records[l] # None => records[l].insight # new.insight
  BY DEF PutAllowed, RecordOf
<1>7. RecordsSound(records', candidates')
  <2>1. \A l \in Keys : records'[l] = None \/ Extant(candidates, records'[l])
    BY <1>2, <1>3
  <2>2. ASSUME NEW l \in Keys, NEW m \in Keys, records'[l] # None, records'[m] # None,
               records'[l].insight = records'[m].insight
        PROVE  l = m
    <3> HIDE DEF old
    <3>1. CASE old = None
      BY <1>2, <1>3, <1>6, <2>2, <3>1
    <3>2. CASE old # None
      <4>1. \A n \in Keys : records'[n] # None =>
              records[n] # None /\ records[n].insight = records'[n].insight
        BY <1>3, <1>5, <3>2 DEF old
      <4> QED
        BY <1>2, <2>2, <4>1
    <3> QED
      BY <3>1, <3>2
  <2> QED
    BY <1>1, <1>3, <2>1, <2>2 DEF RecordsSound
<1>8. Kept(records, insights, candidates, commits, records', insights', candidates', commits')
  <2>1. ASSUME NEW l \in Keys, records[l] # None
        PROVE  /\ records'[l] # None /\ records'[l].insight = records[l].insight
               /\ records[l].status # "rejected" => records'[l].status # "rejected"
               /\ records[l].candidate # None => records'[l].candidate = records[l].candidate
    <3>1. CASE l = k
      BY <1>3, <1>4, <1>5, <2>1, <3>1
    <3>2. CASE l # k
      BY <1>3, <2>1, <3>2
    <3> QED
      BY <3>1, <3>2
  <2> QED
    BY <1>1, <2>1 DEF Kept
<1>9. CommitsSound(records', insights', commits')
  BY <1>1, <1>8 DEF PromotionInv, CommitsSound, Kept
<1>10. events' \in {events, events \cup {[key |-> k, type |-> EventType(new),
                                          candidate |-> new.candidate]}}
  BY DEF AppendEvent
<1>11. ASSUME NEW l \in Keys, l # k
       PROVE  RowTruth(commits', events', l, records'[l])
  <2>1. {x \in events' : x.key = l} = {x \in events : x.key = l}
    BY <1>10, <1>11
  <2>2. RowTruth(commits, events, l, records[l])
    BY DEF PromotionInv
  <2>3. \A e \in events' : e.key = l => e \in events
    BY <2>1
  <2> QED
    BY <1>1, <1>3, <1>11, <2>1, <2>2, <2>3 DEF RowTruth
<1>12. RowTruth(commits', events', k, records'[k])
  <2> DEFINE was == {x \in events : x.key = k}
             now == {x \in events' : x.key = k}
             added == [key |-> k, type |-> EventType(new), candidate |-> new.candidate]
  <2>1. /\ old # None /\ old.status = "committed" =>
             \E x \in commits : x.key = k /\ x.insight = old.insight
        /\ {e.type : e \in was} = Trail(old)
        /\ \A e \in was : e.candidate \in {None, old.candidate}
    BY DEF PromotionInv, RowTruth
  <2>2. added.key = k /\ added.type = EventType(new) /\ added.candidate = new.candidate
    OBVIOUS
  <2> HIDE DEF added, old
  <2>3. now = was \/ now = was \cup {added}
    BY <1>10, <2>2 DEF added
  <2>4. now = was => \/ old # None /\ old.status = new.status /\ old.candidate = new.candidate
                     \/ EventType(new) \in {e.type : e \in was}
    <3>1. CASE events' = events
      <4>1. \/ old # None /\ old.status = new.status /\ old.candidate = new.candidate
            \/ \E e \in events : e.key = k /\ e.type = EventType(new)
            \/ events' = events \cup {added}
        BY DEF AppendEvent, old, added
      <4> QED
        BY <2>2, <3>1, <4>1
    <3>2. CASE events' = events \cup {added}
      BY <2>2, <3>2
    <3> QED
      BY <1>10, <3>1, <3>2 DEF added
  <2> HIDE DEF was, now
  <2>5. {e.type : e \in now} = Trail(new)
    <3>1. now = was \cup {added} => {e.type : e \in now} = {e.type : e \in was} \cup {EventType(new)}
      BY <2>2
    <3>2. CASE old = None
      <4>1. Trail(old) = {} /\ Trail(new) = {EventType(new)}
        BY <1>4, <3>2, FirstEvent DEF Trail, old
      <4>2. now = was \cup {added}
        BY <2>1, <2>3, <2>4, <3>2, <4>1
      <4> QED
        BY <2>1, <3>1, <4>1, <4>2
    <3>3. CASE old # None
      <4>1. Trail(new) = Trail(old) \cup {EventType(new)}
        BY <1>4, <1>5, <3>3, LaterEvent DEF old
      <4>2. old.status = new.status /\ old.candidate = new.candidate => Trail(new) = Trail(old)
        BY <1>4, <3>3 DEF Trail
      <4> QED
        BY <2>1, <2>3, <2>4, <3>1, <3>3, <4>1, <4>2
    <3> QED
      BY <3>2, <3>3
  <2>6. \A e \in now : e.candidate \in {None, new.candidate}
    <3>1. CASE old = None
      <4>1. was = {}
        BY <2>1, <3>1 DEF Trail
      <4> QED
        BY <2>2, <2>3, <4>1
    <3>2. CASE old # None
      BY <1>5, <2>1, <2>2, <2>3, <3>2
    <3> QED
      BY <3>1, <3>2
  <2> QED
    BY <1>1, <1>3, <2>5, <2>6 DEF RowTruth, now
<1> QED
  BY <1>7, <1>8, <1>9, <1>11, <1>12

(* put(), refused or not, by a promoter that then goes on or stops.        *)
LEMMA PutStep ==
  ASSUME PromotionInv, NEW p \in Promoters, NEW new, NEW phase \in Held \cup {"idle"},
         process[p].phase \in Held, process[p].key \in Keys,
         Put(p, new, phase), UNCHANGED <<canonical, insights>>,
         Extant(candidates, new),
         records[process[p].key] = None => new.candidate = None /\ new.status # "committed",
         new.status = "committed" =>
           /\ records[process[p].key].candidate = new.candidate
           /\ \E x \in commits : x.key = process[p].key /\ x.insight = new.insight,
         records'[process[p].key] = new /\ phase # "idle" =>
           ProcessSound(records', insights', candidates', commits',
                        [process[p] EXCEPT !.phase = phase, !.record = new])
  PROVE  PromotionInv'
<1> DEFINE st == process[p]
           next == IF phase = "idle" THEN Idle ELSE [st EXCEPT !.phase = phase, !.record = new]
<1>1. CASE ~PutAllowed(st.key, new)
  <2>1. /\ process' = [process EXCEPT ![p] = Idle] /\ Unlock(p) /\ UNCHANGED <<records, events>>
    BY <1>1 DEF Put, Fail, SetProcess
  <2> QED
    BY <2>1, IdleSound, LocalStep DEF governed
<1>2. CASE PutAllowed(st.key, new)
  <2>1. /\ records' = [records EXCEPT ![st.key] = new]
        /\ events' = AppendEvent(st.key, records[st.key], new)
        /\ process' = [process EXCEPT ![p] = next]
        /\ IF phase = "idle" THEN Unlock(p) ELSE UNCHANGED locks
    BY <1>2 DEF Put, Fail, SetProcess
  <2>2. /\ RecordsSound(records', candidates')
        /\ CommitsSound(records', insights', commits')
        /\ \A l \in Keys : RowTruth(commits', events', l, records'[l])
        /\ Kept(records, insights, candidates, commits,
                records', insights', candidates', commits')
    BY <1>2, <2>1, PutSound
  <2>3. records'[st.key] = new
    BY <2>1 DEF PromotionInv, RecordsSound
  <2>4. /\ ProcessSound(records', insights', candidates', commits', next)
        /\ phase # "idle" => next.phase \in Held /\ next.insight = st.insight
    <3>1. CASE phase = "idle"
      BY <3>1, IdleSound
    <3>2. CASE phase # "idle"
      <4>1. st = [f \in Fields |-> st[f]]
        BY DEF PromotionInv, ProcessSound
      <4> QED
        BY <2>3, <3>2, <4>1 DEF Fields
    <3> QED
      BY <3>1, <3>2
  <2>5. /\ process' = [q \in Promoters |-> process'[q]]
        /\ \A q \in Promoters :
             ProcessSound(records', insights', candidates', commits', process'[q])
        /\ LocksSound(process', locks')
    BY <2>1, <2>2, <2>4, ProcessesStep
  <2>6. CanonicalSound' /\ (insights \in [Insights -> {"pending", "accepted"}])'
    BY DEF PromotionInv, CanonicalSound, canonical
  <2> QED
    BY <2>2, <2>5, <2>6 DEF PromotionInv
<1> QED
  BY <1>1, <1>2

-----------------------------------------------------------------------------
(* In the other phases a promoter relies on its request alone. *)
LEMMA PlainSound ==
  ASSUME NEW recs, NEW ins, NEW cands, NEW coms, NEW st,
         st = [f \in Fields |-> st[f]],
         st.phase \notin Recorded \cup {"governed", "verify", "assess", "approve"},
         st.phase \notin {"idle", "plan"} =>
           st.insight \in Insights /\ st.key \in Keys /\ st.approval \in Approvals
  PROVE  ProcessSound(recs, ins, cands, coms, st)
BY DEF ProcessSound, Recorded, Accepted

(* What the invariant says of one promoter. *)
LEMMA Shape ==
  ASSUME PromotionInv, NEW p \in Promoters
  PROVE  /\ process[p] = [f \in Fields |-> process[p][f]]
         /\ ProcessSound(records, insights, candidates, commits, process[p])
         /\ process[p].phase \notin {"idle", "plan"} =>
              process[p].insight \in Insights /\ process[p].key \in Keys
              /\ process[p].approval \in Approvals
BY DEF PromotionInv, ProcessSound

(* A promoter at rest. *)
LEMMA IdleFacts == Idle = [f \in Fields |-> Idle[f]] /\ Idle.phase = "idle"
BY DEF Idle, Fields

(* An attempt that ends, with its locks given back or none held. *)
LEMMA EndStep ==
  ASSUME PromotionInv, NEW p \in Promoters, process' = [process EXCEPT ![p] = Idle],
         UNCHANGED <<canonical, governed>>,
         Unlock(p) \/ (UNCHANGED locks /\ process[p].phase \notin Held)
  PROVE  PromotionInv'
BY IdleSound, LocalStep

(* The operator's steps. *)
LEMMA OperateStep ==
  ASSUME PromotionInv, NEW p \in Promoters, Operate(p)
  PROVE  PromotionInv'
<1> DEFINE st == process[p]
<1>1. /\ st = [f \in Fields |-> st[f]]
      /\ st.phase \notin {"idle", "plan"} =>
           st.insight \in Insights /\ st.key \in Keys /\ st.approval \in Approvals
  BY Shape
<1>2. CASE SealPlan(p)
  BY <1>2, EndStep DEF SealPlan, SetProcess, Held, Recorded, Accepted
<1>3. CASE Lookup(p)
  <2>1. PICK replay, phase :
          /\ process' = [process EXCEPT ![p] = [st EXCEPT !.replay = replay, !.phase = phase]]
          /\ phase \in {"lock", "validate"}
    BY <1>3 DEF Lookup, SetProcess
  <2> DEFINE new == [st EXCEPT !.replay = replay, !.phase = phase]
  <2>2. st.phase = "lookup" /\ UNCHANGED <<canonical, governed, locks>>
    BY <1>3 DEF Lookup
  <2>3. /\ new = [f \in Fields |-> new[f]] /\ new.phase = phase /\ new.insight = st.insight
        /\ new.key = st.key /\ new.approval = st.approval
    BY <1>1 DEF Fields
  <2> HIDE DEF new
  <2>4. ProcessSound(records, insights, candidates, commits, new)
    BY <1>1, <2>1, <2>2, <2>3, PlainSound DEF Recorded, Accepted
  <2> QED
    BY <2>1, <2>2, <2>4, LocalStep DEF Held, Recorded, Accepted, new
<1>4. ASSUME NEW phase \in {"lock", "events", "reported"}, Goto(p, phase),
             st.phase \in {"validate", "audit", "events"},
             UNCHANGED <<canonical, governed, locks>>
      PROVE  PromotionInv'
  <2> DEFINE new == [st EXCEPT !.phase = phase]
  <2>1. /\ new = [f \in Fields |-> new[f]] /\ new.phase = phase /\ new.insight = st.insight
        /\ new.key = st.key /\ new.approval = st.approval
    BY <1>1 DEF Fields
  <2>2. process' = [process EXCEPT ![p] = new]
    BY <1>4 DEF Goto, SetProcess
  <2> HIDE DEF new
  <2>3. ProcessSound(records, insights, candidates, commits, new)
    BY <1>1, <1>4, <2>1, PlainSound DEF Recorded, Accepted
  <2> QED
    BY <1>4, <2>2, <2>3, LocalStep DEF Held, Recorded, Accepted
<1>5. CASE Validate(p)
  <2>1. \/ Goto(p, "lock") /\ UNCHANGED locks
        \/ Fail(p)
    BY <1>5 DEF Validate
  <2>2. CASE Goto(p, "lock") /\ UNCHANGED locks
    BY <1>4, <1>5, <2>2 DEF Validate
  <2>3. CASE Fail(p)
    BY <1>5, <2>3, EndStep DEF Validate, Fail, SetProcess
  <2> QED
    BY <2>1, <2>2, <2>3
<1>6. CASE Audit(p)
  <2>1. Goto(p, "events") \/ SetProcess(p, Idle)
    BY <1>6 DEF Audit
  <2>2. CASE Goto(p, "events")
    BY <1>4, <1>6, <2>2 DEF Audit
  <2>3. CASE SetProcess(p, Idle)
    BY <1>6, <2>3, EndStep DEF Audit, SetProcess, Held, Recorded, Accepted
  <2> QED
    BY <2>1, <2>2, <2>3
<1>7. CASE CheckEvents(p)
  <2>1. Goto(p, "reported") \/ SetProcess(p, Idle)
    BY <1>7 DEF CheckEvents
  <2>2. CASE Goto(p, "reported")
    BY <1>4, <1>7, <2>2 DEF CheckEvents
  <2>3. CASE SetProcess(p, Idle)
    BY <1>7, <2>3, EndStep DEF CheckEvents, SetProcess, Held, Recorded, Accepted
  <2> QED
    BY <2>1, <2>2, <2>3
<1>8. CASE Finish(p)
  BY <1>8, EndStep DEF Finish, SetProcess, Held, Recorded, Accepted
<1> QED
  BY <1>2, <1>3, <1>5, <1>6, <1>7, <1>8 DEF Operate

(* A plan drafted, and a promotion begun by the operator or a caller. *)
LEMMA BeginStep ==
  ASSUME PromotionInv, NEW p \in Promoters,
         \/ \E a \in Approvals, i \in Insights, k \in Keys : BeginPromote(p, a, i, k)
         \/ \E a \in Planned, i \in Insights : DraftPlan(p, a, i)
         \/ \E a \in Planned, k \in Keys : BeginApply(p, a, k)
  PROVE  PromotionInv'
<1>1. ASSUME NEW new, process[p] = Idle, process' = [process EXCEPT ![p] = new],
             UNCHANGED <<canonical, governed, locks>>,
             new = [f \in Fields |-> new[f]], new.phase \in {"plan", "lookup", "lock"},
             new.phase # "plan" =>
               new.insight \in Insights /\ new.key \in Keys /\ new.approval \in Approvals
      PROVE  PromotionInv'
  <2>1. ProcessSound(records, insights, candidates, commits, new)
    BY <1>1, PlainSound DEF Recorded, Accepted
  <2>2. process[p].phase \notin Held
    BY <1>1, IdleFacts DEF Held, Recorded, Accepted
  <2> QED
    BY <1>1, <2>1, <2>2, LocalStep
<1>2. ASSUME NEW a \in Approvals, NEW i \in Insights, NEW k \in Keys, BeginPromote(p, a, i, k)
      PROVE  PromotionInv'
  <2> DEFINE new == [Idle EXCEPT !.phase = "lock", !.approval = a, !.insight = i, !.key = k]
  <2>1. /\ new = [f \in Fields |-> new[f]] /\ new.phase = "lock"
        /\ new.insight = i /\ new.key = k /\ new.approval = a
    BY DEF Fields, Idle
  <2>2. /\ process[p] = Idle /\ process' = [process EXCEPT ![p] = new]
        /\ UNCHANGED <<canonical, governed, locks>>
    BY <1>2 DEF BeginPromote, SetProcess
  <2> HIDE DEF new
  <2> QED
    BY <1>1, <2>1, <2>2
<1>3. ASSUME NEW a \in Planned, NEW i \in Insights, DraftPlan(p, a, i)
      PROVE  PromotionInv'
  <2>1. PICK plan : plan = [insight |-> i, preflight |-> Preflight(i)]
    OBVIOUS
  <2> DEFINE new == [Idle EXCEPT !.phase = "plan", !.approval = a, !.insight = i, !.plan = plan]
  <2>2. new = [f \in Fields |-> new[f]] /\ new.phase = "plan"
    BY DEF Fields, Idle
  <2>3. /\ process[p] = Idle /\ process' = [process EXCEPT ![p] = new]
        /\ UNCHANGED <<canonical, governed, locks>>
    BY <1>3, <2>1 DEF DraftPlan, SetProcess
  <2> HIDE DEF new
  <2> QED
    BY <1>1, <2>2, <2>3
<1>4. ASSUME NEW a \in Planned, NEW k \in Keys, BeginApply(p, a, k)
      PROVE  PromotionInv'
  <2>1. PICK plan, before, i : plan = plans[a] /\ before = Snapshot /\ i = plans[a].insight
    OBVIOUS
  <2>2. a \in Approvals /\ i \in Insights
    BY <1>4, <2>1, PromotionAssumption DEF BeginApply
  <2> DEFINE new == [Idle EXCEPT !.phase = "lookup", !.approval = a, !.insight = i,
                                 !.key = k, !.plan = plan, !.before = before]
  <2>3. /\ new = [f \in Fields |-> new[f]] /\ new.phase = "lookup"
        /\ new.insight = i /\ new.key = k /\ new.approval = a
    BY DEF Fields, Idle
  <2>4. /\ process[p] = Idle /\ process' = [process EXCEPT ![p] = new]
        /\ UNCHANGED <<canonical, governed, locks>>
    BY <1>4, <2>1 DEF BeginApply, SetProcess
  <2> HIDE DEF new
  <2> QED
    BY <1>1, <2>2, <2>3, <2>4
<1> QED
  BY <1>2, <1>3, <1>4

-----------------------------------------------------------------------------
(* The promoteLocked steps that write nothing. *)
LEMMA ReadStep ==
  ASSUME PromotionInv, NEW p \in Promoters,
         ReadPrior(p) \/ ReadGoverned(p) \/ Verify(p) \/ Assess(p) \/ Propose(p)
  PROVE  PromotionInv'
<1> DEFINE st == process[p]
           k == st.key
<1>1. /\ st = [f \in Fields |-> st[f]]
      /\ ProcessSound(records, insights, candidates, commits, st)
      /\ st.phase \notin {"idle", "plan"} =>
           st.insight \in Insights /\ k \in Keys /\ st.approval \in Approvals
  BY Shape
<1>2. \A l \in Keys : records[l] = None \/ Extant(candidates, records[l])
  BY DEF PromotionInv, RecordsSound
<1>3. ASSUME Fail(p), UNCHANGED <<canonical, governed>> PROVE PromotionInv'
  BY <1>3, EndStep DEF Fail, SetProcess
<1>4. ASSUME NEW new, process' = [process EXCEPT ![p] = new],
             UNCHANGED <<canonical, governed, locks>>,
             ProcessSound(records, insights, candidates, commits, new),
             new.phase \in Held, new.insight = st.insight
      PROVE  PromotionInv'
  BY <1>4, LocalStep
<1>5. CASE ReadPrior(p)
  <2> DEFINE new == [st EXCEPT !.phase = "governed", !.prior = records[k]]
  <2>1. /\ st.phase = "prior" /\ process' = [process EXCEPT ![p] = new]
        /\ UNCHANGED <<canonical, governed, locks>>
    BY <1>5 DEF ReadPrior, SetProcess
  <2>2. /\ new = [f \in Fields |-> new[f]] /\ new.phase = "governed" /\ new.prior = records[k]
        /\ new.insight = st.insight /\ new.key = k /\ new.approval = st.approval
    BY <1>1 DEF Fields
  <2> HIDE DEF new
  <2>3. ProcessSound(records, insights, candidates, commits, new)
    BY <1>1, <1>2, <2>1, <2>2 DEF ProcessSound, Recorded, Accepted
  <2> QED
    BY <1>4, <2>1, <2>2, <2>3 DEF Held
<1>6. CASE ReadGoverned(p)
  <2>1. st.phase = "governed" /\ UNCHANGED <<canonical, governed>>
    BY <1>6 DEF ReadGoverned
  <2>2. CASE Fail(p)
    BY <1>3, <2>1, <2>2
  <2>3. CASE st.prior = None /\ Goto(p, "verify") /\ UNCHANGED locks
    <3> DEFINE new == [st EXCEPT !.phase = "verify"]
    <3>1. /\ new = [f \in Fields |-> new[f]] /\ new.phase = "verify" /\ new.prior = st.prior
          /\ new.insight = st.insight /\ new.key = k /\ new.approval = st.approval
      BY <1>1 DEF Fields
    <3>2. process' = [process EXCEPT ![p] = new]
      BY <2>3 DEF Goto, SetProcess
    <3> HIDE DEF new
    <3>3. ProcessSound(records, insights, candidates, commits, new)
      BY <1>1, <2>1, <2>3, <3>1 DEF ProcessSound, Recorded, Accepted
    <3> QED
      BY <1>4, <2>1, <2>3, <3>1, <3>2, <3>3 DEF Held
  <2>4. CASE /\ st.prior # None /\ st.prior.insight = st.insight /\ st.prior.status # "rejected"
             /\ SetProcess(p, [st EXCEPT !.record = st.prior,
                       !.phase = IF st.prior.status = "committed" THEN "done" ELSE "verify"])
             /\ UNCHANGED locks
    <3>1. PICK phase : phase = IF st.prior.status = "committed" THEN "done" ELSE "verify"
      OBVIOUS
    <3> DEFINE new == [st EXCEPT !.record = st.prior, !.phase = phase]
    <3>2. /\ new = [f \in Fields |-> new[f]] /\ new.phase = phase /\ new.prior = st.prior
          /\ new.insight = st.insight /\ new.key = k /\ new.approval = st.approval
      BY <1>1 DEF Fields
    <3>3. process' = [process EXCEPT ![p] = new]
      BY <2>4, <3>1 DEF SetProcess
    <3> HIDE DEF new
    <3>4. Extant(candidates, st.prior) /\ records[k] # None
      BY <1>1, <2>1, <2>4 DEF ProcessSound
    <3>5. ProcessSound(records, insights, candidates, commits, new)
      <4>1. CASE phase = "done"
        BY <1>1, <2>1, <3>2, <4>1, PlainSound DEF Recorded, Accepted
      <4>2. CASE phase = "verify"
        <5>1. st.prior.status = "approved"
          BY <2>4, <3>1, <3>4, <4>2 DEF Extant, Records
        <5> QED
          BY <1>1, <2>1, <2>4, <3>2, <3>4, <4>2, <5>1 DEF ProcessSound, Recorded, Accepted
      <4> QED
        BY <3>1, <4>1, <4>2
    <3> QED
      BY <1>4, <2>1, <2>4, <3>1, <3>2, <3>3, <3>5 DEF Held
  <2> QED
    BY <1>6, <2>2, <2>3, <2>4 DEF ReadGoverned
<1>7. CASE Verify(p)
  <2>1. st.phase = "verify" /\ UNCHANGED <<canonical, governed>>
    BY <1>7 DEF Verify
  <2>2. CASE Fail(p)
    BY <1>3, <2>1, <2>2
  <2>3. CASE Goto(p, "assess") /\ UNCHANGED locks
    <3> DEFINE new == [st EXCEPT !.phase = "assess"]
    <3>1. /\ new = [f \in Fields |-> new[f]] /\ new.phase = "assess" /\ new.prior = st.prior
          /\ new.insight = st.insight /\ new.key = k /\ new.approval = st.approval
      BY <1>1 DEF Fields
    <3>2. process' = [process EXCEPT ![p] = new]
      BY <2>3 DEF Goto, SetProcess
    <3> HIDE DEF new
    <3>3. ProcessSound(records, insights, candidates, commits, new)
      BY <1>1, <2>1, <3>1 DEF ProcessSound, Recorded, Accepted
    <3> QED
      BY <1>4, <2>1, <2>3, <3>1, <3>2, <3>3 DEF Held
  <2> QED
    BY <1>7, <2>2, <2>3 DEF Verify
<1>8. CASE Assess(p)
  <2>1. st.phase = "assess" /\ UNCHANGED <<canonical, governed>>
    BY <1>8 DEF Assess
  <2>2. CASE Fail(p)
    BY <1>3, <2>1, <2>2
  <2>3. CASE ~Fail(p)
    <3>1. UNCHANGED locks
      BY <1>8, <2>3 DEF Assess
    <3>2. PICK rec :
            /\ \E t \in Stamps : rec =
                 IF st.prior # None THEN st.prior
                 ELSE [insight |-> st.insight, approval |-> st.approval, created |-> t,
                       status |-> Assessment(st.insight), candidate |-> None, memory |-> None]
            /\ process' = [process EXCEPT ![p] =
                 [st EXCEPT !.phase = "approve", !.prior = None, !.record = rec]]
      BY <1>8, <2>3 DEF Assess, SetProcess, Approval
    <3> DEFINE new == [st EXCEPT !.phase = "approve", !.prior = None, !.record = rec]
    <3>3. /\ new = [f \in Fields |-> new[f]] /\ new.phase = "approve" /\ new.record = rec
          /\ new.insight = st.insight /\ new.key = k /\ new.approval = st.approval
      BY <1>1 DEF Fields
    <3> HIDE DEF new
    <3>4. /\ Extant(candidates, rec) /\ rec.insight = st.insight
          /\ rec.status = Assessment(st.insight)
          /\ rec.candidate # None => records[k] # None
      <4>1. CASE st.prior # None
        BY <1>1, <2>1, <3>2, <4>1 DEF ProcessSound, Extant, Assessment
      <4>2. CASE st.prior = None
        BY <1>1, <2>1, <3>2, <4>2 DEF Extant, Records, Assessment
      <4> QED
        BY <4>1, <4>2
    <3>5. ProcessSound(records, insights, candidates, commits, new)
      BY <1>1, <2>1, <3>3, <3>4 DEF ProcessSound, Recorded, Accepted
    <3> QED
      BY <1>4, <2>1, <3>1, <3>2, <3>3, <3>5 DEF Held, new
  <2> QED
    BY <2>2, <2>3
<1>9. CASE Propose(p)
  <2>1. st.phase = "propose" /\ UNCHANGED <<canonical, governed>>
    BY <1>9 DEF Propose
  <2>2. CASE Fail(p)
    BY <1>3, <2>1, <2>2
  <2>3. CASE ~Fail(p)
    <3>1. PICK to : to = Target(st.insight)
      OBVIOUS
    <3> DEFINE new == [st EXCEPT !.phase = "ingest", !.op = to.op, !.base = to.base]
    <3>2. UNCHANGED locks /\ process' = [process EXCEPT ![p] = new]
      BY <1>9, <2>3, <3>1 DEF Propose, SetProcess
    <3>3. /\ new = [f \in Fields |-> new[f]] /\ new.phase = "ingest" /\ new.record = st.record
          /\ new.insight = st.insight /\ new.key = k /\ new.approval = st.approval
          /\ new.op = to.op /\ new.base = to.base
      BY <1>1 DEF Fields
    <3> HIDE DEF new
    <3>4. to.op \in {"create", "merge"} /\ to.base \in Nat
      <4>1. /\ st.insight \in Insights /\ MemoryOf[st.insight] \in Memories
            /\ heads[MemoryOf[st.insight]] # None => heads[MemoryOf[st.insight]].revision \in Nat
        BY <1>1, <2>1, PromotionAssumption DEF PromotionInv, CanonicalSound, Heads
      <4> QED
        BY <3>1, <4>1 DEF Target
    <3>5. ProcessSound(records, insights, candidates, commits, new)
      BY <1>1, <2>1, <3>3, <3>4 DEF ProcessSound, Recorded, Accepted
    <3> QED
      BY <1>4, <2>1, <3>2, <3>3, <3>5 DEF Held, Recorded, Accepted
  <2> QED
    BY <2>2, <2>3
<1> QED
  BY <1>5, <1>6, <1>7, <1>8, <1>9

(* The record is approved or rejected, linked, and committed. *)
LEMMA WriteRecordStep ==
  ASSUME PromotionInv, NEW p \in Promoters, Approve(p) \/ Link(p) \/ RecordCommit(p)
  PROVE  PromotionInv'
<1> DEFINE st == process[p]
           k == st.key
<1>1. /\ st = [f \in Fields |-> st[f]]
      /\ ProcessSound(records, insights, candidates, commits, st)
      /\ st.phase \notin {"idle", "plan"} =>
           st.insight \in Insights /\ k \in Keys /\ st.approval \in Approvals
  BY Shape
<1>2. UNCHANGED <<canonical, insights>> /\ insights' = insights /\ candidates' = candidates
      /\ commits' = commits
  BY DEF Approve, Link, RecordCommit, canonical
<1>3. CASE Approve(p)
  <2>1. st.phase = "approve"
    BY <1>3 DEF Approve
  <2>2. /\ Extant(candidates, st.record) /\ st.record.insight = st.insight
        /\ st.record.status = Assessment(st.insight)
        /\ st.record.candidate # None => records[k] # None
        /\ st.record # None
    BY <1>1, <2>1, NoneAssumption DEF ProcessSound, Extant
  <2>3. CASE st.insight \in Eligible
    <3> DEFINE next == [st EXCEPT !.phase = "accept", !.record = st.record]
    <3>1. Put(p, st.record, "accept") /\ st.record.status = "approved"
      BY <1>3, <2>2, <2>3 DEF Approve, Assessment
    <3>2. ASSUME records'[k] = st.record
          PROVE  ProcessSound(records', insights', candidates', commits', next)
      <4>1. /\ next = [f \in Fields |-> next[f]] /\ next.phase = "accept"
            /\ next.record = st.record
            /\ next.insight = st.insight /\ next.key = k /\ next.approval = st.approval
        BY <1>1 DEF Fields
      <4> HIDE DEF next
      <4> QED
        BY <1>1, <1>2, <2>1, <2>2, <3>1, <3>2, <4>1 DEF ProcessSound, Recorded, Accepted
    <3> QED
      BY <1>1, <1>2, <2>1, <2>2, <3>1, <3>2, PutStep DEF Held, Recorded
  <2>4. CASE st.insight \notin Eligible
    <3>1. Put(p, st.record, "idle") /\ st.record.status = "rejected"
      BY <1>3, <2>2, <2>4 DEF Approve, Assessment
    <3> QED
      BY <1>1, <1>2, <2>1, <2>2, <3>1, PutStep DEF Held, Recorded
  <2> QED
    BY <2>3, <2>4
<1>4. CASE Link(p)
  <2>1. st.phase = "link" /\ Put(p, st.record, "commit")
    BY <1>4 DEF Link
  <2>2. /\ Extant(candidates, st.record) /\ st.record.insight = st.insight
        /\ st.record.status = "approved" /\ st.record.candidate # None /\ st.record # None
        /\ records[k] # None /\ insights[st.insight] = "accepted"
    BY <1>1, <2>1, NoneAssumption DEF ProcessSound, Recorded, Accepted, Extant
  <2> DEFINE next == [st EXCEPT !.phase = "commit", !.record = st.record]
  <2>3. ASSUME records'[k] = st.record
        PROVE  ProcessSound(records', insights', candidates', commits', next)
    <3>1. /\ next = [f \in Fields |-> next[f]] /\ next.phase = "commit"
          /\ next.record = st.record
          /\ next.insight = st.insight /\ next.key = k /\ next.approval = st.approval
      BY <1>1 DEF Fields
    <3> HIDE DEF next
    <3> QED
      BY <1>1, <1>2, <2>1, <2>2, <2>3, <3>1 DEF ProcessSound, Recorded, Accepted
  <2> QED
    BY <1>1, <1>2, <2>1, <2>2, <2>3, PutStep DEF Held, Recorded, Accepted
<1>5. CASE RecordCommit(p)
  <2>1. PICK new : new = [st.record EXCEPT !.status = "committed",
                                           !.memory = MemoryOf[st.insight]]
    OBVIOUS
  <2>2. st.phase = "record" /\ Put(p, new, "done")
    BY <1>5, <2>1 DEF RecordCommit
  <2>3. /\ Extant(candidates, st.record) /\ st.record.insight = st.insight
        /\ st.record.status = "approved" /\ st.record.candidate # None
        /\ records[k] # None /\ records[k].candidate = st.record.candidate
        /\ \E x \in commits : x.key = k /\ x.insight = st.insight
    BY <1>1, <2>2 DEF ProcessSound, Recorded, Accepted
  <2>4. /\ new \in Records /\ new.status = "committed" /\ new.insight = st.insight
        /\ new.candidate = st.record.candidate
    BY <1>1, <2>1, <2>2, <2>3, PromotionAssumption DEF Extant, Records
  <2>5. Extant(candidates, new)
    BY <2>3, <2>4 DEF Extant
  <2> DEFINE next == [st EXCEPT !.phase = "done", !.record = new]
  <2>6. ProcessSound(records', insights', candidates', commits', next)
    <3>1. /\ next = [f \in Fields |-> next[f]] /\ next.phase = "done"
          /\ next.insight = st.insight /\ next.key = k /\ next.approval = st.approval
      BY <1>1 DEF Fields
    <3> HIDE DEF next
    <3> QED
      BY <1>1, <2>2, <3>1, PlainSound DEF Recorded, Accepted
  <2> QED
    BY <1>1, <1>2, <2>2, <2>3, <2>4, <2>5, <2>6, PutStep DEF Held, Recorded, Accepted
<1> QED
  BY <1>3, <1>4, <1>5

(* The insight is accepted. *)
LEMMA AcceptStep ==
  ASSUME PromotionInv, NEW p \in Promoters, Accept(p)
  PROVE  PromotionInv'
<1> DEFINE st == process[p]
           k == st.key
<1>1. /\ st = [f \in Fields |-> st[f]]
      /\ ProcessSound(records, insights, candidates, commits, st)
      /\ st.phase = "accept" /\ UNCHANGED <<canonical, records, events>>
      /\ st.insight \in Insights /\ k \in Keys /\ st.approval \in Approvals
  BY Shape DEF Accept
<1>2. CASE Fail(p) /\ UNCHANGED insights
  BY <1>1, <1>2, EndStep DEF Fail, SetProcess, governed
<1>3. CASE ~(Fail(p) /\ UNCHANGED insights)
  <2>1. PICK phase : phase = IF st.record.candidate = None THEN "propose" ELSE "commit"
    OBVIOUS
  <2> DEFINE new == [st EXCEPT !.phase = phase]
  <2>2. /\ insights' = [insights EXCEPT ![st.insight] = "accepted"]
        /\ process' = [process EXCEPT ![p] = new] /\ UNCHANGED locks
    BY <1>3, <2>1 DEF Accept, Goto, SetProcess
  <2>3. /\ new = [f \in Fields |-> new[f]] /\ new.phase = phase /\ new.record = st.record
        /\ new.insight = st.insight /\ new.key = k /\ new.approval = st.approval
    BY <1>1 DEF Fields
  <2> HIDE DEF new
  <2>4. /\ insights' \in [Insights -> {"pending", "accepted"}]
        /\ insights'[st.insight] = "accepted"
        /\ \A i \in Insights : insights[i] = "accepted" => insights'[i] = "accepted"
    BY <1>1, <2>2 DEF PromotionInv
  <2>5. /\ heads' = heads /\ commits' = commits /\ candidates' = candidates
        /\ records' = records /\ events' = events
    BY <1>1 DEF canonical
  <2>6. Kept(records, insights, candidates, commits, records', insights', candidates', commits')
    BY <2>4, <2>5 DEF Kept
  <2>7. ProcessSound(records', insights', candidates', commits', new)
    BY <1>1, <2>1, <2>3, <2>4, <2>5 DEF ProcessSound, Recorded, Accepted
  <2>8. new.phase \in Held
    BY <2>1, <2>3 DEF Held, Recorded, Accepted
  <2>9. /\ process' = [q \in Promoters |-> process'[q]]
        /\ \A q \in Promoters :
             ProcessSound(records', insights', candidates', commits', process'[q])
        /\ LocksSound(process', locks')
    BY <2>2, <2>3, <2>6, <2>7, <2>8, ProcessesStep
  <2>10. CanonicalSound' /\ RecordsSound(records', candidates')
         /\ \A l \in Keys : RowTruth(commits', events', l, records'[l])
    BY <2>5 DEF PromotionInv, CanonicalSound
  <2>11. CommitsSound(records', insights', commits')
    BY <2>4, <2>5 DEF PromotionInv, CommitsSound
  <2> QED
    BY <2>4, <2>9, <2>10, <2>11 DEF PromotionInv
<1> QED
  BY <1>2, <1>3

-----------------------------------------------------------------------------
(* A step on the canonical side that takes back no candidate or commit. *)
LEMMA CanonicalStep ==
  ASSUME PromotionInv, NEW p \in Promoters, NEW new,
         process' = [process EXCEPT ![p] = new], UNCHANGED governed,
         CanonicalSound', commits \subseteq commits',
         \A c \in CandidateIds : candidates[c] # None => candidates'[c] # None,
         CommitsSound(records, insights, commits'),
         ProcessSound(records, insights, candidates', commits', new),
         \/ Unlock(p)
         \/ UNCHANGED locks /\ new.phase \in Held /\ new.insight = process[p].insight
  PROVE  PromotionInv'
<1>1. insights' = insights /\ records' = records /\ events' = events
  BY DEF governed
<1>2. Kept(records, insights, candidates, commits, records', insights', candidates', commits')
  BY <1>1 DEF Kept
<1>3. /\ process' = [q \in Promoters |-> process'[q]]
      /\ \A q \in Promoters :
           ProcessSound(records', insights', candidates', commits', process'[q])
      /\ LocksSound(process', locks')
  BY <1>1, <1>2, ProcessesStep
<1>4. RecordsSound(records', candidates')
  <2>1. \A k \in Keys : records[k] = None \/ Extant(candidates', records[k])
    BY ExtantKeeps DEF PromotionInv, RecordsSound
  <2> QED
    BY <1>1, <2>1 DEF PromotionInv, RecordsSound
<1>5. \A k \in Keys : RowTruth(commits', events', k, records'[k])
  BY <1>1 DEF PromotionInv, RowTruth
<1> QED
  BY <1>1, <1>3, <1>4, <1>5 DEF PromotionInv

(* The candidate is proposed. *)
LEMMA IngestStep ==
  ASSUME PromotionInv, NEW p \in Promoters, Ingest(p)
  PROVE  PromotionInv'
<1> DEFINE st == process[p]
<1>1. /\ st = [f \in Fields |-> st[f]]
      /\ ProcessSound(records, insights, candidates, commits, st)
      /\ st.phase = "ingest"
      /\ st.insight \in Insights /\ st.key \in Keys /\ st.approval \in Approvals
  BY Shape DEF Ingest
<1>2. PICK c \in CandidateIds :
        /\ candidates[c] = None
        /\ candidates' = [candidates EXCEPT ![c] =
             [insight |-> st.insight, op |-> st.op, base |-> st.base, status |-> "PENDING"]]
        /\ SetProcess(p, [st EXCEPT !.phase = "link", !.record.candidate = c,
                                    !.op = None, !.base = 0])
  BY DEF Ingest
<1>3. PICK rec : rec = [st.record EXCEPT !.candidate = c]
  OBVIOUS
<1> DEFINE new == [st EXCEPT !.phase = "link", !.record = rec, !.op = None, !.base = 0]
<1>4. process' = [process EXCEPT ![p] = new]
  BY <1>2, <1>3 DEF SetProcess
<1>5. /\ new = [f \in Fields |-> new[f]] /\ new.phase = "link" /\ new.record = rec
      /\ new.insight = st.insight /\ new.key = st.key /\ new.approval = st.approval
  BY <1>1 DEF Fields
<1> HIDE DEF new
<1>6. /\ Extant(candidates, st.record) /\ st.record.insight = st.insight
      /\ st.record.status = "approved"
      /\ records[st.key] # None /\ records[st.key].insight = st.insight
      /\ records[st.key].status # "rejected" /\ insights[st.insight] = "accepted"
      /\ st.op \in {"create", "merge"} /\ st.base \in Nat
  BY <1>1 DEF ProcessSound, Recorded, Accepted
<1>7. /\ candidates' = [x \in CandidateIds |-> candidates'[x]]
      /\ candidates'[c] \in Proposals
      /\ \A x \in CandidateIds : x # c => candidates'[x] = candidates[x]
  BY <1>1, <1>2, <1>6 DEF PromotionInv, CanonicalSound, Proposals
<1>8. CanonicalSound' /\ \A x \in CandidateIds : candidates[x] # None => candidates'[x] # None
  BY <1>2, <1>7 DEF PromotionInv, CanonicalSound, Ingest
<1>9. /\ rec \in Records /\ rec.candidate = c /\ rec.insight = st.insight
      /\ rec.status = "approved"
  BY <1>3, <1>6 DEF Extant, Records
<1>10. Extant(candidates', rec) /\ c # None
  BY <1>6, <1>7, <1>9, NoneAssumption DEF Extant
<1>11. ProcessSound(records, insights, candidates', commits, new)
  BY <1>1, <1>5, <1>6, <1>9, <1>10 DEF ProcessSound, Recorded, Accepted
<1>12. /\ commits' = commits /\ UNCHANGED governed /\ UNCHANGED locks
       /\ CommitsSound(records, insights, commits)
  BY DEF Ingest, PromotionInv
<1> QED
  BY <1>4, <1>5, <1>8, <1>11, <1>12, CanonicalStep DEF Held, Recorded, Accepted

(* The candidate is committed, found committed, or refused. *)
LEMMA CommitStep ==
  ASSUME PromotionInv, NEW p \in Promoters, Commit(p) \/ Replay(p) \/ Refused(p)
  PROVE  PromotionInv'
<1> DEFINE st == process[p]
           c == st.record.candidate
<1>1. /\ st = [f \in Fields |-> st[f]]
      /\ ProcessSound(records, insights, candidates, commits, st)
      /\ st.phase = "commit" /\ UNCHANGED governed
      /\ st.insight \in Insights /\ st.key \in Keys /\ st.approval \in Approvals
  BY Shape DEF Commit, Replay, Refused
<1>2. /\ Extant(candidates, st.record) /\ st.record.insight = st.insight
      /\ st.record.status = "approved"
      /\ records[st.key] # None /\ records[st.key].insight = st.insight
      /\ records[st.key].status # "rejected" /\ insights[st.insight] = "accepted"
      /\ c # None /\ records[st.key].candidate = c
  BY <1>1 DEF ProcessSound, Recorded, Accepted
<1>3. c \in CandidateIds /\ candidates[c] \in Proposals
  BY <1>2 DEF Extant, Records, PromotionInv, CanonicalSound
<1>4. CommitsSound(records, insights, commits) /\ CanonicalSound
  BY DEF PromotionInv
<1>5. ASSUME NEW status \in {"ACCEPTED", "CONFLICT"},
             candidates' = [candidates EXCEPT ![c].status = status]
      PROVE  /\ candidates' = [x \in CandidateIds |-> candidates'[x]]
             /\ \A x \in CandidateIds : candidates'[x] = None \/ candidates'[x] \in Proposals
             /\ \A x \in CandidateIds : candidates[x] # None => candidates'[x] # None
  <2>1. candidates = [x \in CandidateIds |-> candidates[x]]
    BY <1>4 DEF CanonicalSound
  <2>2. PICK row : row = [candidates[c] EXCEPT !.status = status]
    OBVIOUS
  <2>3. row \in Proposals /\ row # None
    BY <1>3, <2>2, NoneAssumption DEF Proposals
  <2>4. candidates' = [candidates EXCEPT ![c] = row]
    BY <1>5, <2>2
  <2> QED
    BY <1>4, <2>1, <2>3, <2>4 DEF CanonicalSound
<1> DEFINE new == [st EXCEPT !.phase = "record"]
<1>6. /\ new = [f \in Fields |-> new[f]] /\ new.phase = "record" /\ new.record = st.record
      /\ new.insight = st.insight /\ new.key = st.key /\ new.approval = st.approval
  BY <1>1 DEF Fields
<1> HIDE DEF new
<1>7. ASSUME NEW cands, NEW coms, Extant(cands, st.record),
             \E x \in coms : x.key = st.key /\ x.insight = st.insight
      PROVE  ProcessSound(records, insights, cands, coms, new)
  BY <1>1, <1>2, <1>6, <1>7 DEF ProcessSound, Recorded, Accepted
<1>8. CASE Commit(p)
  <2>1. PICK cand, x : /\ cand = candidates[c]
                       /\ x = [key |-> st.key, insight |-> st.insight, candidate |-> c,
                               op |-> cand.op, base |-> cand.base]
    OBVIOUS
  <2>2. /\ Used(p) = {} /\ commits' = commits \cup {x} /\ UNCHANGED locks
        /\ candidates' = [candidates EXCEPT ![c].status = "ACCEPTED"]
        /\ heads' = [heads EXCEPT ![MemoryOf[st.insight]] =
                       [revision |-> cand.base + 1, status |-> "active", agrees |-> TRUE]]
        /\ process' = [process EXCEPT ![p] = new]
    BY <1>8, <2>1 DEF Commit, Candidate, Goto, SetProcess, new
  <2>3. cand.base + 1 \in Nat /\ MemoryOf[st.insight] \in Memories
    BY <1>1, <1>3, <2>1, PromotionAssumption DEF Proposals
  <2>4. /\ heads' = [m \in Memories |-> heads'[m]]
        /\ \A m \in Memories : heads'[m] = None \/ heads'[m] \in Heads
    BY <1>4, <2>2, <2>3 DEF CanonicalSound, Heads
  <2>5. CanonicalSound' /\ \A y \in CandidateIds : candidates[y] # None => candidates'[y] # None
    BY <1>5, <2>2, <2>4 DEF CanonicalSound
  <2>6. x.key = st.key /\ x.insight = st.insight /\ x.candidate = c
    BY <2>1
  <2>7. \A y \in commits : y.key # st.key
    BY <2>2 DEF Used
  <2>8. CommitsSound(records, insights, commits')
    <3>1. /\ x.key \in Keys /\ x.candidate # None /\ x.insight \in Insights
          /\ records[x.key] # None /\ records[x.key].insight = x.insight
          /\ records[x.key].candidate = x.candidate /\ insights[x.insight] = "accepted"
      BY ONLY <1>1, <1>2, <2>6
    <3>2. CommitsSound(records, insights, commits) /\ commits' = commits \cup {x}
      BY ONLY <1>4, <2>2
    <3>3. \A y \in commits : y.key # x.key
      BY ONLY <2>6, <2>7
    <3> HIDE DEF st, c
    <3> QED
      BY ONLY <3>1, <3>2, <3>3, Zenon DEF CommitsSound
  <2>9. ProcessSound(records, insights, candidates', commits', new)
    <3>1. Extant(candidates', st.record)
      BY <1>2, <2>5, ExtantKeeps
    <3>2. x \in commits'
      BY <2>2
    <3> QED
      BY <1>7, <2>6, <3>1, <3>2
  <2> QED
    BY <1>1, <1>6, <2>2, <2>5, <2>8, <2>9, CanonicalStep DEF Held, Recorded, Accepted
<1>9. CASE Replay(p)
  <2>1. /\ UNCHANGED <<canonical, locks>> /\ process' = [process EXCEPT ![p] = new]
        /\ \E x \in commits : x.key = st.key
    BY <1>9 DEF Replay, Used, Goto, SetProcess, new
  <2>2. \E x \in commits : x.key = st.key /\ x.insight = st.insight
    BY <1>2, <1>4, <2>1 DEF CommitsSound
  <2>3. ProcessSound(records, insights, candidates, commits, new)
    BY <1>2, <1>7, <2>2
  <2> QED
    BY <1>1, <1>6, <2>1, <2>3, LocalStep DEF Held, Recorded, Accepted
<1>10. CASE Refused(p)
  <2>1. /\ \/ candidates' = candidates
           \/ candidates' = [candidates EXCEPT ![c].status = "CONFLICT"]
        /\ heads' = heads /\ commits' = commits
        /\ process' = [process EXCEPT ![p] = Idle] /\ Unlock(p)
    BY <1>10 DEF Refused, Fail, SetProcess
  <2>2. CanonicalSound' /\ \A x \in CandidateIds : candidates[x] # None => candidates'[x] # None
    BY <1>4, <1>5, <2>1 DEF CanonicalSound
  <2> QED
    BY <1>1, <1>4, <2>1, <2>2, IdleSound, CanonicalStep
<1> QED
  BY <1>8, <1>9, <1>10

(* The lock is taken, and given back in the end. *)
LEMMA LockStep ==
  ASSUME PromotionInv, NEW p \in Promoters, TakeLock(p) \/ Done(p)
  PROVE  PromotionInv'
<1> DEFINE st == process[p]
<1>1. /\ st = [f \in Fields |-> st[f]] /\ st.phase \in {"lock", "done"}
      /\ UNCHANGED <<canonical, governed>>
      /\ st.insight \in Insights /\ st.key \in Keys /\ st.approval \in Approvals
  BY Shape DEF TakeLock, Done
<1>2. ASSUME NEW phase \in {"prior", "audit"}
      PROVE  /\ ProcessSound(records, insights, candidates, commits, [st EXCEPT !.phase = phase])
             /\ [st EXCEPT !.phase = phase].phase = phase
             /\ [st EXCEPT !.phase = phase].insight = st.insight
  <2> DEFINE new == [st EXCEPT !.phase = phase]
  <2>1. /\ new = [f \in Fields |-> new[f]] /\ new.phase = phase
        /\ new.insight = st.insight /\ new.key = st.key /\ new.approval = st.approval
    BY <1>1 DEF Fields
  <2> HIDE DEF new
  <2>2. ProcessSound(records, insights, candidates, commits, new)
    BY <1>1, <2>1, PlainSound DEF Recorded, Accepted
  <2> QED
    BY <2>1, <2>2 DEF new
<1>3. CASE Done(p)
  <2>1. \/ process' = [process EXCEPT ![p] = Idle]
        \/ process' = [process EXCEPT ![p] = [st EXCEPT !.phase = "audit"]]
    BY <1>3 DEF Done, Goto, SetProcess
  <2>2. Unlock(p)
    BY <1>3 DEF Done
  <2> QED
    BY <1>1, <1>2, <2>1, <2>2, EndStep, LocalStep
<1>4. CASE TakeLock(p)
  <2> DEFINE new == [st EXCEPT !.phase = "prior"]
             i == st.insight
  <2>1. /\ st.phase = "lock" /\ locks[i] = None /\ locks' = [locks EXCEPT ![i] = p]
        /\ process' = [process EXCEPT ![p] = new]
    BY <1>4 DEF TakeLock, Goto, SetProcess
  <2>2. /\ ProcessSound(records, insights, candidates, commits, new)
        /\ new.phase = "prior" /\ new.insight = i
    BY <1>2
  <2> HIDE DEF new
  <2>3. /\ process = [q \in Promoters |-> process[q]] /\ LocksSound(process, locks)
        /\ st.phase \notin Held
    BY <2>1 DEF PromotionInv, Held, Recorded, Accepted
  <2>4. LocksSound(process', locks)
    BY <2>1, <2>3, LocksStep
  <2>5. /\ heads' = heads /\ commits' = commits /\ candidates' = candidates
        /\ insights' = insights /\ records' = records /\ events' = events
    BY <1>1 DEF canonical, governed
  <2>6. Kept(records, insights, candidates, commits, records', insights', candidates', commits')
    BY <2>5 DEF Kept
  <2>7. /\ process' = [q \in Promoters |-> process'[q]] /\ process'[p] = new
        /\ \A q \in Promoters : q # p => process'[q] = process[q]
    BY <2>1, <2>3
  <2>8. \A q \in Promoters : ProcessSound(records', insights', candidates', commits', process'[q])
    BY <2>2, <2>5, <2>7 DEF PromotionInv
  <2>9. LocksSound(process', locks')
    <3>1. /\ locks' = [j \in Insights |-> locks'[j]] /\ locks'[i] = p
          /\ \A j \in Insights : j # i => locks'[j] = locks[j]
      BY <1>1, <2>1, <2>3 DEF LocksSound
    <3> QED
      BY <2>2, <2>4, <2>7, <3>1 DEF LocksSound, Held
  <2>10. /\ CanonicalSound' /\ insights' \in [Insights -> {"pending", "accepted"}]
         /\ RecordsSound(records', candidates') /\ CommitsSound(records', insights', commits')
         /\ \A k \in Keys : RowTruth(commits', events', k, records'[k])
    BY <2>5 DEF PromotionInv, CanonicalSound
  <2> QED
    BY <2>7, <2>8, <2>9, <2>10 DEF PromotionInv
<1> QED
  BY <1>3, <1>4

(* Failures, other callers, and the passing of a plan's time. *)
LEMMA OutsideStep ==
  ASSUME PromotionInv,
         \/ \E p \in Promoters : Break(p)
         \/ \E a \in Planned : Expire(a)
         \/ \E i \in Insights : LoseLock(i)
         \/ \E m \in Memories : OtherCommit(m)
         \/ UNCHANGED vars
  PROVE  PromotionInv'
<1>1. ASSUME NEW p \in Promoters, Break(p) PROVE PromotionInv'
  BY <1>1, EndStep DEF Break, Fail, SetProcess
<1>2. ASSUME UNCHANGED <<commits, candidates, governed, process>>, CanonicalSound',
             LocksSound(process, locks')
      PROVE  PromotionInv'
  <2>1. /\ commits' = commits /\ candidates' = candidates /\ process' = process
        /\ insights' = insights /\ records' = records /\ events' = events
    BY <1>2 DEF governed
  <2> QED
    BY <1>2, <2>1 DEF PromotionInv
<1>3. CanonicalSound /\ LocksSound(process, locks)
  BY DEF PromotionInv
<1>4. ASSUME NEW a \in Planned, Expire(a) PROVE PromotionInv'
  <2>1. UNCHANGED <<canonical, governed, locks, process>>
    BY <1>4 DEF Expire
  <2> QED
    BY <1>2, <1>3, <2>1 DEF canonical, CanonicalSound
<1>5. ASSUME NEW i \in Insights, LoseLock(i) PROVE PromotionInv'
  <2>1. UNCHANGED <<canonical, governed, process>> /\ locks' = [locks EXCEPT ![i] = None]
    BY <1>5 DEF LoseLock
  <2>2. LocksSound(process, locks')
    BY <1>3, <2>1 DEF LocksSound
  <2> QED
    BY <1>2, <1>3, <2>1, <2>2 DEF canonical, CanonicalSound
<1>6. ASSUME NEW m \in Memories, OtherCommit(m) PROVE PromotionInv'
  <2> DEFINE h == heads[m]
  <2>1. PICK agrees \in BOOLEAN, status \in {"active", "tombstoned"} :
          heads' = [heads EXCEPT ![m] =
                      [revision |-> IF h = None THEN 1 ELSE h.revision + 1,
                       status |-> status, agrees |-> agrees]]
    BY <1>6 DEF OtherCommit
  <2>2. PICK n : n = IF h = None THEN 1 ELSE h.revision + 1
    OBVIOUS
  <2>3. n \in Nat
    BY <1>3, <2>2 DEF CanonicalSound, Heads
  <2>4. [revision |-> n, status |-> status, agrees |-> agrees] \in Heads
    BY <2>3 DEF Heads
  <2>5. /\ heads' = [x \in Memories |-> heads'[x]]
        /\ \A x \in Memories : heads'[x] = None \/ heads'[x] \in Heads
    BY <1>3, <2>1, <2>2, <2>4 DEF CanonicalSound
  <2>6. UNCHANGED <<commits, candidates, governed, locks, process>>
    BY <1>6 DEF OtherCommit
  <2> QED
    BY <1>2, <1>3, <2>5, <2>6 DEF CanonicalSound
<1>7. CASE UNCHANGED vars
  BY <1>2, <1>3, <1>7 DEF vars, canonical, CanonicalSound
<1> QED
  BY <1>1, <1>4, <1>5, <1>6, <1>7

-----------------------------------------------------------------------------
(* The invariant holds in every reachable state: what a promoter relies on *)
(* between two awaits is kept by the record store's triggers, not by the   *)
(* lock, which may be gone.                                                *)
THEOREM PromotionInvariance == Spec => []PromotionInv
<1>1. PromotionInv /\ [Next]_vars => PromotionInv'
  <2> SUFFICES ASSUME PromotionInv, [Next]_vars PROVE PromotionInv'
    OBVIOUS
  <2>1. ASSUME NEW p \in Promoters, Promote(p) PROVE PromotionInv'
    BY <2>1, ReadStep, WriteRecordStep, AcceptStep, IngestStep, CommitStep, LockStep DEF Promote
  <2> QED
    BY <2>1, OperateStep, BeginStep, LockStep, OutsideStep DEF Next
<1> QED
  BY <1>1, InitSound, PTL DEF Spec

(* Rows keep the shape of their tables, and a lock is held by a promoter   *)
(* at work on its insight.                                                 *)
THEOREM TypeCorrect == Spec => []TypeOK
BY PromotionInvariance, InvGives, PTL

(* DR-SG-037 for any keys and promoters: an insight is committed once.     *)
THEOREM InsightPromotedOnce == Spec => []PromotedOnce
BY PromotionInvariance, InvGives, PTL

(* Commits, records and the audit trail agree in every state, between the  *)
(* separate writes of a promotion and after any break-off.                 *)
THEOREM RecordsAreTrue == Spec => []RecordTruth
BY PromotionInvariance, InvGives, PTL

-----------------------------------------------------------------------------
(* The counts of the operator's audit.  The sum of revisions is one of the *)
(* library's folds: that it is well defined, and what one memory adds to   *)
(* it, is shown by induction over the subsets of a finite set.             *)

(* Induction over the subsets of a finite set: its minimal counterexample  *)
(* has none below it.                                                      *)
LEMMA SubsetInduction ==
  ASSUME NEW S, IsFiniteSet(S), NEW B,
         \A T \in SUBSET S : (\A x \in T : T \ {x} \in B) => T \in B
  PROVE  \A T \in SUBSET S : T \in B
<1> DEFINE Bad == (SUBSET S) \ B
<1>1. FiniteSubsetsOf(S) = SUBSET S
  BY FS_FiniteSubsetsOfFinite
<1>2. SUFFICES ASSUME Bad # {} PROVE FALSE
  OBVIOUS
<1>3. IsWellFoundedOn(StrictSubsetOrdering(S), SUBSET S)
  BY <1>1, FS_StrictSubsetOrderingWellFounded
<1>4. PICK T \in Bad : \A y \in Bad : ~(<<y, T>> \in StrictSubsetOrdering(S))
  BY <1>2, <1>3, WFMin
<1>5. \A x \in T : T \ {x} \in B
  <2> SUFFICES ASSUME NEW x \in T, T \ {x} \notin B PROVE FALSE
    OBVIOUS
  <2>1. T \ {x} \in Bad /\ T \ {x} \subseteq T /\ T \ {x} # T
    BY <1>4
  <2> QED
    BY <2>1, <1>4 DEF StrictSubsetOrdering
<1> QED
  BY <1>4, <1>5

(* What MapThenSumSet adds up, one chosen element after the other. *)
AnElement(T) == CHOOSE y \in T : TRUE
Add(hs, g, T) ==
  IF T = {} THEN 0 ELSE hs[AnElement(T)].revision + g[T \ {AnElement(T)}]
Adds(hs, g, S) == g = [T \in SUBSET S |-> Add(hs, g, T)]
RevisionSum(hs, S) == MapThenSumSet(LAMBDA m : hs[m].revision, S)

(* The sum is the value of a recursive function on the subsets. *)
LEMMA SumUnfolds ==
  ASSUME NEW S, NEW hs
  PROVE  RevisionSum(hs, S) = (CHOOSE g : Adds(hs, g, S))[S]
BY DEF RevisionSum, MapThenSumSet, MapThenFoldSet, Adds, Add, AnElement

(* The recursion has a solution ... *)
LEMMA SumExists ==
  ASSUME NEW S, IsFiniteSet(S), NEW hs
  PROVE  \E g : Adds(hs, g, S)
<1> DEFINE Upto(g, n) == \A T \in SUBSET S : Cardinality(T) <= n => g[T] = Add(hs, g, T)
           Good == {n \in Nat : \E g : g = [T \in SUBSET S |-> g[T]] /\ Upto(g, n)}
<1>1. \A T \in SUBSET S : /\ IsFiniteSet(T) /\ Cardinality(T) \in Nat
                          /\ Cardinality(T) <= Cardinality(S)
  BY FS_Subset, FS_CardinalityType
<1>2. \A T \in SUBSET S : \A x \in T : Cardinality(T \ {x}) = Cardinality(T) - 1
  BY <1>1, FS_RemoveElement
<1>3. \A T \in SUBSET S : T # {} => AnElement(T) \in T
  BY DEF AnElement
<1>4. 0 \in Good
  <2> DEFINE g == [T \in SUBSET S |-> 0]
  <2>1. Upto(g, 0)
    BY <1>1, FS_EmptySet DEF Add
  <2> QED
    BY <2>1
<1>5. ASSUME NEW n \in Good PROVE n + 1 \in Good
  <2>1. PICK g : g = [T \in SUBSET S |-> g[T]] /\ Upto(g, n)
    OBVIOUS
  <2> DEFINE h == [T \in SUBSET S |-> Add(hs, g, T)]
  <2>2. ASSUME NEW T \in SUBSET S, Cardinality(T) <= n + 1 PROVE h[T] = Add(hs, h, T)
    <3>1. CASE T = {}
      BY <3>1 DEF Add
    <3>2. CASE T # {}
      <4> DEFINE x == AnElement(T)
      <4>1. Cardinality(T \ {x}) <= n /\ T \ {x} \in SUBSET S
        BY <1>1, <1>2, <1>3, <2>2, <3>2
      <4>2. g[T \ {x}] = h[T \ {x}]
        BY <4>1, <2>1
      <4> HIDE DEF h
      <4>3. Add(hs, g, T) = Add(hs, h, T)
        BY <3>2, <4>2 DEF Add
      <4> QED
        BY <4>3 DEF h
    <3> QED
      BY <3>1, <3>2
  <2>3. h = [T \in SUBSET S |-> h[T]]
    OBVIOUS
  <2>4. Upto(h, n + 1)
    BY <2>2
  <2>5. \E f : f = [T \in SUBSET S |-> f[T]] /\ Upto(f, n + 1)
    <3> HIDE DEF h, Upto
    <3> QED
      BY <2>3, <2>4
  <2>6. n + 1 \in Nat
    OBVIOUS
  <2> HIDE DEF Upto
  <2> QED
    BY <2>5, <2>6
<1>6. Good = Nat
  <2> SUFFICES ASSUME Nat \ Good # {} PROVE FALSE
    OBVIOUS
  <2>1. PICK m \in Nat \ Good : \A y \in Nat \ Good : ~(<<y, m>> \in OpToRel(<, Nat))
    BY NatLessThanWellFounded, WFMin, Zenon
  <2>3. \A y \in Nat \ Good : ~(y < m)
    BY <2>1 DEF OpToRel
  <2> HIDE DEF Good
  <2>2. m # 0 /\ m - 1 \in Nat /\ (m - 1) + 1 = m /\ m - 1 < m
    BY <1>4
  <2>4. m - 1 \in Good
    BY <2>2, <2>3
  <2> QED
    BY <1>5, <2>2, <2>4
<1>7. PICK g : g = [T \in SUBSET S |-> g[T]] /\ Upto(g, Cardinality(S))
  BY <1>6, <1>1
<1>8. \A T \in SUBSET S : g[T] = Add(hs, g, T)
  BY <1>1, <1>7
<1> QED
  BY <1>7, <1>8 DEF Adds

(* ... and one only. *)
LEMMA SumUnique ==
  ASSUME NEW S, IsFiniteSet(S), NEW hs, NEW U \in SUBSET S,
         NEW g, Adds(hs, g, S), NEW h, Adds(hs, h, U)
  PROVE  g[U] = h[U]
<1> DEFINE B == {T \in SUBSET U : g[T] = h[T]}
<1>1. IsFiniteSet(U)
  BY FS_Subset
<1>2. ASSUME NEW T \in SUBSET U, \A x \in T : T \ {x} \in B PROVE T \in B
  <2>1. g[T] = Add(hs, g, T) /\ h[T] = Add(hs, h, T)
    BY DEF Adds
  <2>2. T # {} => T \ {AnElement(T)} \in B
    BY <1>2 DEF AnElement
  <2>3. Add(hs, g, T) = Add(hs, h, T)
    BY <2>2 DEF Add
  <2> QED
    BY <2>1, <2>3
<1>3. \A T \in SUBSET U : T \in B
  <2> HIDE DEF B
  <2> QED
    BY ONLY <1>1, <1>2, SubsetInduction
<1> QED
  BY <1>3

(* The recursion holds of the sum itself. *)
LEMMA SumStep ==
  ASSUME NEW S, IsFiniteSet(S), NEW hs
  PROVE  /\ S = {} => RevisionSum(hs, S) = 0
         /\ S # {} => /\ AnElement(S) \in S
                      /\ RevisionSum(hs, S) =
                           hs[AnElement(S)].revision + RevisionSum(hs, S \ {AnElement(S)})
<1> DEFINE gS == CHOOSE g : Adds(hs, g, S)
<1>1. Adds(hs, gS, S)
  BY SumExists
<1>2. RevisionSum(hs, S) = gS[S]
  BY SumUnfolds
<1> HIDE DEF gS
<1>3. gS[S] = Add(hs, gS, S)
  BY <1>1 DEF Adds
<1>4. CASE S = {}
  BY <1>2, <1>3, <1>4 DEF Add
<1>5. CASE S # {}
  <2> DEFINE x == AnElement(S)
             T == S \ {x}
             gT == CHOOSE g : Adds(hs, g, T)
  <2>1. x \in S
    BY <1>5 DEF AnElement
  <2>2. IsFiniteSet(T) /\ T \in SUBSET S
    BY FS_Subset
  <2>3. Adds(hs, gT, T)
    BY <2>2, SumExists
  <2>4. RevisionSum(hs, T) = gT[T]
    BY SumUnfolds
  <2> HIDE DEF gT
  <2>5. gS[T] = gT[T]
    BY <1>1, <2>2, <2>3, SumUnique
  <2> QED
    BY <1>2, <1>3, <1>5, <2>1, <2>4, <2>5 DEF Add
<1> QED
  BY <1>4, <1>5

(* A sum of naturals. *)
LEMMA SumType ==
  ASSUME NEW S, IsFiniteSet(S), NEW hs, \A m \in S : hs[m].revision \in Nat
  PROVE  RevisionSum(hs, S) \in Nat
<1> DEFINE B == {T \in SUBSET S : RevisionSum(hs, T) \in Nat}
<1>1. ASSUME NEW T \in SUBSET S, \A x \in T : T \ {x} \in B PROVE T \in B
  <2>1. IsFiniteSet(T)
    BY FS_Subset
  <2>2. CASE T = {}
    <3>1. RevisionSum(hs, T) = 0
      BY ONLY <2>1, <2>2, SumStep
    <3> QED
      BY <3>1
  <2>3. CASE T # {}
    <3> DEFINE x == AnElement(T)
    <3>1. x \in T /\ RevisionSum(hs, T) = hs[x].revision + RevisionSum(hs, T \ {x})
      BY <2>1, <2>3, SumStep
    <3>2. RevisionSum(hs, T \ {x}) \in Nat /\ hs[x].revision \in Nat
      BY <1>1, <3>1
    <3> QED
      BY <3>1, <3>2
  <2> QED
    BY <2>2, <2>3
<1>2. \A T \in SUBSET S : T \in B
  <2> HIDE DEF B
  <2> QED
    BY ONLY IsFiniteSet(S), <1>1, SubsetInduction
<1> QED
  BY <1>2

(* Only the elements count. *)
LEMMA SumAgrees ==
  ASSUME NEW S, IsFiniteSet(S), NEW hs, NEW hs2, \A m \in S : hs[m] = hs2[m]
  PROVE  RevisionSum(hs, S) = RevisionSum(hs2, S)
<1> DEFINE B == {T \in SUBSET S : RevisionSum(hs, T) = RevisionSum(hs2, T)}
<1>1. ASSUME NEW T \in SUBSET S, \A x \in T : T \ {x} \in B PROVE T \in B
  <2>1. IsFiniteSet(T)
    BY FS_Subset
  <2> QED
    BY <1>1, <2>1, SumStep
<1>2. \A T \in SUBSET S : T \in B
  <2> HIDE DEF B
  <2> QED
    BY ONLY IsFiniteSet(S), <1>1, SubsetInduction
<1> QED
  BY <1>2

(* Whatever element is taken out first. *)
LEMMA SumRemove ==
  ASSUME NEW S, IsFiniteSet(S), NEW hs, \A m \in S : hs[m].revision \in Nat, NEW e \in S
  PROVE  RevisionSum(hs, S) = hs[e].revision + RevisionSum(hs, S \ {e})
<1> DEFINE Sum(T) == RevisionSum(hs, T)
           B == {T \in SUBSET S : \A y \in T : Sum(T) = hs[y].revision + Sum(T \ {y})}
<1>1. ASSUME NEW T \in SUBSET S, \A x \in T : T \ {x} \in B PROVE T \in B
  <2> SUFFICES ASSUME NEW y \in T PROVE Sum(T) = hs[y].revision + Sum(T \ {y})
    OBVIOUS
  <2> DEFINE x == AnElement(T)
             R == T \ {x}
  <2>1. IsFiniteSet(T) /\ IsFiniteSet(R \ {y})
    BY FS_Subset
  <2>2. x \in T /\ Sum(T) = hs[x].revision + Sum(R)
    BY <2>1, SumStep
  <2>3. CASE x = y
    BY <2>2, <2>3
  <2>4. CASE x # y
    <3>1. Sum(R) = hs[y].revision + Sum(R \ {y})
      BY <1>1, <2>2, <2>4
    <3>2. Sum(T \ {y}) = hs[x].revision + Sum((T \ {y}) \ {x})
      BY <1>1, <2>2, <2>4
    <3>3. R \ {y} = (T \ {y}) \ {x}
      OBVIOUS
    <3>4. Sum(R \ {y}) \in Nat
      BY <2>1, SumType
    <3>5. hs[x].revision \in Nat /\ hs[y].revision \in Nat
      BY <2>2
    <3>6. \A a, b, c \in Nat : a + (b + c) = b + (a + c)
      OBVIOUS
    <3>7. hs[x].revision + (hs[y].revision + Sum(R \ {y}))
            = hs[y].revision + (hs[x].revision + Sum(R \ {y}))
      BY ONLY <3>4, <3>5, <3>6
    <3>8. Sum(T \ {y}) = hs[x].revision + Sum(R \ {y})
      BY ONLY <3>2, <3>3
    <3> QED
      BY ONLY <2>2, <3>1, <3>7, <3>8
  <2> QED
    BY <2>3, <2>4
<1>2. \A T \in SUBSET S : T \in B
  <2> HIDE DEF B
  <2> QED
    BY ONLY IsFiniteSet(S), <1>1, SubsetInduction
<1> QED
  BY <1>2

-----------------------------------------------------------------------------
(* The revision of a memory, and how many revisions there are in all. *)
Rev(hs, m) == IF hs[m] = None THEN 0 ELSE hs[m].revision
Total(hs) == RevisionSum(hs, {m \in Memories : hs[m] # None})

(* An operation and its base. *)
TargetSound(t) == t.op \in {"create", "merge"} /\ t.base \in Nat /\ (t.op = "create" <=> t.base = 0)

(* A linked candidate is there and of the record's insight. *)
LinkSound(cands, r) ==
  r.candidate # None =>
    /\ r.candidate \in CandidateIds
    /\ cands[r.candidate] # None /\ cands[r.candidate].insight = r.insight

(* A plan was made before any commit of its insight: what it saw of the    *)
(* target is not ahead of the target nor of the commits since.             *)
Foreseen(hs, coms, plan) ==
  LET t == plan.preflight.target IN
  /\ plan.insight \in Insights /\ t = [op |-> t.op, base |-> t.base] /\ TargetSound(t)
  /\ t.base <= Rev(hs, MemoryOf[plan.insight])
  /\ \A x \in coms : x.insight = plan.insight => t.base <= x.base

(* The commit that a promoter made or found. *)
CommitOf(coms, st) == {x \in coms : x.key = st.key /\ x.insight = st.insight}

Applying(st) == st.approval \in Planned

(* What a promoter knows of candidates and commits. *)
LinksSound(cands, coms, st) ==
  /\ st.phase \in {"governed", "verify", "assess"} /\ st.prior # None =>
       LinkSound(cands, st.prior)
  /\ st.phase = "governed" /\ st.prior # None /\ st.prior.status = "committed" =>
       \E x \in coms : x.key = st.key /\ x.insight = st.prior.insight
  /\ st.phase \in Recorded \cup {"approve"} => LinkSound(cands, st.record)
  /\ st.phase = "ingest" => TargetSound(st)
  /\ st.phase \in {"done", "audit"} => CommitOf(coms, st) # {}

(* What one that applies a plan knows: the target has not moved further    *)
(* since the plan was validated than the count of all revisions has.       *)
PlanSound(hs, coms, st) ==
  /\ st.phase \in {"plan", "lookup", "validate", "audit", "events", "reported"} => Applying(st)
  /\ st.phase # "idle" /\ Applying(st) => Foreseen(hs, coms, st.plan)
  /\ st.phase \notin {"idle", "plan"} /\ Applying(st) =>
       /\ st.plan.insight = st.insight
       /\ st.before.revisions \in Nat /\ st.before.revisions <= Total(hs)
  /\ st.phase \in Held \cup {"lock", "audit"} /\ Applying(st) /\ ~st.replay =>
       Rev(hs, MemoryOf[st.insight]) - st.plan.preflight.target.base
         <= Total(hs) - st.before.revisions
  /\ st.phase \in {"events", "reported"} /\ ~st.replay =>
       \E x \in CommitOf(coms, st) :
         [op |-> x.op, base |-> x.base] = st.plan.preflight.target

ReportInv ==
  /\ \A m \in Memories : heads[m] # None => heads[m].revision > 0
  /\ \A c \in CandidateIds : candidates[c] # None => TargetSound(candidates[c])
  /\ \A k \in Keys : records[k] # None => LinkSound(candidates, records[k])
  /\ \A x \in commits : TargetSound(x) /\ x.base < Rev(heads, MemoryOf[x.insight])
  /\ \A a \in Planned : plans[a] # None => Foreseen(heads, commits, plans[a])
  /\ \A p \in Promoters : /\ LinksSound(candidates, commits, process[p])
                          /\ PlanSound(heads, commits, process[p])

-----------------------------------------------------------------------------
(* Canonical rows are what they are, or not there. *)
HeadsSound(hs) ==
  /\ hs = [m \in Memories |-> hs[m]]
  /\ \A m \in Memories : hs[m] = None \/ (hs[m] # None /\ hs[m].revision \in Nat)

(* Counts are naturals. *)
LEMMA CountsType ==
  ASSUME NEW hs, HeadsSound(hs)
  PROVE  Total(hs) \in Nat /\ \A m \in Memories : Rev(hs, m) \in Nat
<1>1. IsFiniteSet({m \in Memories : hs[m] # None})
  BY PromotionAssumption, FS_Subset
<1>2. Total(hs) \in Nat
  BY <1>1, SumType DEF Total, HeadsSound
<1> QED
  BY <1>2 DEF HeadsSound, Rev

(* The counts when one memory gets a revision. *)
LEMMA CountsMove ==
  ASSUME NEW hs, HeadsSound(hs), NEW hs2, HeadsSound(hs2), NEW m \in Memories, hs2[m] # None,
         \A x \in Memories : x # m => hs2[x] = hs[x]
  PROVE  /\ Total(hs2) - Total(hs) = Rev(hs2, m) - Rev(hs, m)
         /\ \A x \in Memories : x # m => Rev(hs2, x) = Rev(hs, x)
<1> DEFINE known == {x \in Memories : hs[x] # None}
           known2 == {x \in Memories : hs2[x] # None}
           rest == known \ {m}
<1>1. PICK n : n = hs2[m].revision
  OBVIOUS
<1>2. IsFiniteSet(known) /\ IsFiniteSet(known2) /\ IsFiniteSet(rest)
  BY PromotionAssumption, FS_Subset
<1>3. known2 \ {m} = rest /\ m \in known2 /\ n \in Nat /\ Rev(hs2, m) = n
  BY <1>1 DEF HeadsSound, Rev
<1>4. RevisionSum(hs2, known2) = n + RevisionSum(hs2, rest)
  <2>1. \A x \in known2 : hs2[x].revision \in Nat
    BY DEF HeadsSound
  <2>2. RevisionSum(hs2, known2) = hs2[m].revision + RevisionSum(hs2, known2 \ {m})
    BY ONLY <1>2, <1>3, <2>1, SumRemove
  <2> QED
    BY ONLY <1>1, <1>3, <2>2
<1>5. RevisionSum(hs2, rest) = RevisionSum(hs, rest)
  <2>1. \A x \in rest : hs2[x] = hs[x]
    OBVIOUS
  <2> QED
    BY <1>2, <2>1, SumAgrees
<1>6. RevisionSum(hs, known) = Rev(hs, m) + RevisionSum(hs, rest)
  <2>1. \A x \in known : hs[x].revision \in Nat
    BY DEF HeadsSound
  <2>2. CASE m \in known
    <3>1. RevisionSum(hs, known) = hs[m].revision + RevisionSum(hs, known \ {m})
      BY ONLY <1>2, <2>1, <2>2, SumRemove
    <3> QED
      BY <2>2, <3>1 DEF Rev
  <2>3. CASE m \notin known
    <3>1. rest = known /\ Rev(hs, m) = 0
      BY <2>3 DEF Rev
    <3>2. RevisionSum(hs, known) \in Nat
      BY <1>2, <2>1, SumType
    <3> QED
      BY <3>1, <3>2
  <2> QED
    BY <2>2, <2>3
<1>7. RevisionSum(hs, rest) \in Nat /\ Rev(hs, m) \in Nat
  <2>1. \A x \in rest : hs[x].revision \in Nat
    BY DEF HeadsSound
  <2> QED
    BY <1>2, <2>1, SumType, CountsType
<1>8. Total(hs) = RevisionSum(hs, known) /\ Total(hs2) = RevisionSum(hs2, known2)
  BY DEF Total
<1> HIDE DEF known, known2, rest
<1>9. Total(hs2) - Total(hs) = n - Rev(hs, m)
  BY <1>3, <1>4, <1>5, <1>6, <1>7, <1>8
<1> QED
  BY <1>3, <1>9 DEF Rev

(* The operator counts the revisions of all memories. *)
LEMMA SnapshotRevisions == Snapshot.revisions = Total(heads)
BY DEF Snapshot, Total, RevisionSum, MapThenSumSet, MapThenFoldSet

(* What commits do to the rows: nothing goes, and the counts tell every    *)
(* revision.                                                               *)
Grown(hs, cands, coms, hs2, cands2, coms2) ==
  /\ \A c \in CandidateIds : cands[c] # None =>
       cands2[c] # None /\ cands2[c].insight = cands[c].insight
  /\ coms \subseteq coms2
  /\ \A m \in Memories : Rev(hs, m) <= Rev(hs2, m)
                         /\ Rev(hs2, m) - Rev(hs, m) <= Total(hs2) - Total(hs)
  /\ Total(hs) <= Total(hs2)
  /\ \A x \in coms2 : x \in coms \/ Rev(hs, MemoryOf[x.insight]) <= x.base

(* A linked candidate stays. *)
LEMMA LinkKeeps ==
  ASSUME NEW cands, NEW cands2, NEW r, LinkSound(cands, r),
         \A c \in CandidateIds : cands[c] # None =>
           cands2[c] # None /\ cands2[c].insight = cands[c].insight
  PROVE  LinkSound(cands2, r)
BY DEF LinkSound

(* A plan stays behind the target and the commits made since. *)
LEMMA ForeseenKeeps ==
  ASSUME NEW hs, NEW hs2, NEW cands, NEW cands2, NEW coms, NEW coms2, NEW plan,
         HeadsSound(hs), HeadsSound(hs2), Grown(hs, cands, coms, hs2, cands2, coms2),
         \A x \in coms2 : TargetSound(x),
         Foreseen(hs, coms, plan)
  PROVE  Foreseen(hs2, coms2, plan)
<1> DEFINE t == plan.preflight.target
           m == MemoryOf[plan.insight]
<1>1. /\ plan.insight \in Insights /\ t = [op |-> t.op, base |-> t.base] /\ TargetSound(t)
      /\ t.base <= Rev(hs, m) /\ \A x \in coms : x.insight = plan.insight => t.base <= x.base
  BY DEF Foreseen
<1>2. m \in Memories /\ Rev(hs, m) \in Nat /\ Rev(hs2, m) \in Nat /\ t.base \in Nat
  BY <1>1, PromotionAssumption, CountsType DEF TargetSound
<1>3. t.base <= Rev(hs2, m)
  <2> HIDE DEF t, m
  <2> QED
    BY <1>1, <1>2 DEF Grown
<1>4. ASSUME NEW x \in coms2, x.insight = plan.insight PROVE t.base <= x.base
  <2>1. CASE x \in coms
    BY <1>1, <1>4, <2>1
  <2>2. CASE x \notin coms
    <3>1. Rev(hs, m) <= x.base /\ x.base \in Nat
      BY <1>4, <2>2 DEF Grown, TargetSound
    <3> HIDE DEF t, m
    <3> QED
      BY <1>1, <1>2, <3>1
  <2> QED
    BY <2>1, <2>2
<1> QED
  BY <1>1, <1>3, <1>4 DEF Foreseen

(* What a promoter knows of candidates, commits and its plan stays true.  *)
LEMMA ReporterKeeps ==
  ASSUME NEW hs, NEW hs2, NEW cands, NEW cands2, NEW coms, NEW coms2, NEW st,
         HeadsSound(hs), HeadsSound(hs2), Grown(hs, cands, coms, hs2, cands2, coms2),
         \A x \in coms2 : TargetSound(x),
         LinksSound(cands, coms, st), PlanSound(hs, coms, st)
  PROVE  LinksSound(cands2, coms2, st) /\ PlanSound(hs2, coms2, st)
<1>1. coms \subseteq coms2 /\ CommitOf(coms, st) \subseteq CommitOf(coms2, st)
  BY DEF Grown, CommitOf
<1>2. \A r : LinkSound(cands, r) => LinkSound(cands2, r)
  BY LinkKeeps DEF Grown
<1>3. LinksSound(cands2, coms2, st)
  BY <1>1, <1>2 DEF LinksSound
<1>4. \A plan : Foreseen(hs, coms, plan) => Foreseen(hs2, coms2, plan)
  BY ForeseenKeeps
<1>5. /\ st.phase \in {"plan", "lookup", "validate", "audit", "events", "reported"} => Applying(st)
      /\ st.phase # "idle" /\ Applying(st) => Foreseen(hs2, coms2, st.plan)
  BY <1>4 DEF PlanSound
<1>6. Total(hs) \in Nat /\ Total(hs2) \in Nat /\ Total(hs) <= Total(hs2)
  BY CountsType DEF Grown
<1>7. ASSUME st.phase \notin {"idle", "plan"}, Applying(st)
      PROVE  /\ st.plan.insight = st.insight
             /\ st.before.revisions \in Nat /\ st.before.revisions <= Total(hs2)
  BY <1>6, <1>7 DEF PlanSound
<1>8. ASSUME st.phase \in Held \cup {"lock", "audit"}, Applying(st), ~st.replay
      PROVE  Rev(hs2, MemoryOf[st.insight]) - st.plan.preflight.target.base
               <= Total(hs2) - st.before.revisions
  <2> DEFINE m == MemoryOf[st.insight]
             b == st.plan.preflight.target.base
  <2>1. st.phase \notin {"idle", "plan"}
    BY <1>8 DEF Held, Recorded, Accepted
  <2>2. /\ Foreseen(hs, coms, st.plan) /\ st.plan.insight = st.insight
        /\ st.before.revisions \in Nat
        /\ Rev(hs, m) - b <= Total(hs) - st.before.revisions
    BY <1>8, <2>1 DEF PlanSound
  <2>3. m \in Memories /\ b \in Nat
    BY <2>2, PromotionAssumption DEF Foreseen, TargetSound
  <2>4. /\ Rev(hs, m) \in Nat /\ Rev(hs2, m) \in Nat
        /\ Rev(hs2, m) - Rev(hs, m) <= Total(hs2) - Total(hs)
    BY <2>3, CountsType DEF Grown
  <2> HIDE DEF m, b
  <2> QED
    BY <1>6, <2>2, <2>3, <2>4 DEF m, b
<1>9. ASSUME st.phase \in {"events", "reported"}, ~st.replay
      PROVE  \E x \in CommitOf(coms2, st) :
               [op |-> x.op, base |-> x.base] = st.plan.preflight.target
  BY <1>1, <1>9 DEF PlanSound
<1> QED
  BY <1>3, <1>5, <1>7, <1>8, <1>9 DEF PlanSound

(* What the invariants say of one promoter. *)
LEMMA PromoterFacts ==
  ASSUME PromotionInv, ReportInv, NEW p \in Promoters
  PROVE  /\ process[p] = [f \in Fields |-> process[p][f]]
         /\ ProcessSound(records, insights, candidates, commits, process[p])
         /\ LinksSound(candidates, commits, process[p])
         /\ PlanSound(heads, commits, process[p])
         /\ process[p].phase \notin {"idle", "plan"} =>
              process[p].insight \in Insights /\ process[p].key \in Keys
BY Shape DEF ReportInv

(* The heads are rows of their table. *)
LEMMA HeadsAreSound == ASSUME PromotionInv PROVE HeadsSound(heads)
BY NoneAssumption DEF PromotionInv, CanonicalSound, HeadsSound, Heads

(* A step that makes no commit. *)
LEMMA StillGrown ==
  ASSUME PromotionInv, heads' = heads, commits' = commits,
         \A c \in CandidateIds : candidates[c] # None =>
           candidates'[c] # None /\ candidates'[c].insight = candidates[c].insight
  PROVE  Grown(heads, candidates, commits, heads', candidates', commits')
<1>1. Total(heads) \in Nat /\ \A m \in Memories : Rev(heads, m) \in Nat
  BY HeadsAreSound, CountsType
<1> QED
  BY <1>1 DEF Grown

(* One promoter moves on. *)
LEMMA ReportStep ==
  ASSUME PromotionInv, PromotionInv', ReportInv, NEW p \in Promoters, NEW new,
         process' = [process EXCEPT ![p] = new],
         Grown(heads, candidates, commits, heads', candidates', commits'),
         \A m \in Memories : heads'[m] # None => heads'[m].revision > 0,
         \A c \in CandidateIds : candidates'[c] # None => TargetSound(candidates'[c]),
         \A k \in Keys : records'[k] # None => LinkSound(candidates', records'[k]),
         \A x \in commits' : TargetSound(x) /\ x.base < Rev(heads', MemoryOf[x.insight]),
         \A a \in Planned : plans'[a] # None => Foreseen(heads', commits', plans'[a]),
         LinksSound(candidates', commits', new), PlanSound(heads', commits', new)
  PROVE  ReportInv'
<1>1. ASSUME NEW q \in Promoters
      PROVE  LinksSound(candidates', commits', process'[q]) /\ PlanSound(heads', commits', process'[q])
  <2>1. CASE q = p
    <3>1. process'[q] = new
      BY <2>1 DEF PromotionInv
    <3> QED
      BY <3>1
  <2>2. CASE q # p
    <3>1. process'[q] = process[q]
      BY <2>2 DEF PromotionInv
    <3>2. HeadsSound(heads) /\ HeadsSound(heads')
      BY HeadsAreSound, NoneAssumption DEF PromotionInv, CanonicalSound, HeadsSound, Heads
    <3>3. LinksSound(candidates, commits, process[q]) /\ PlanSound(heads, commits, process[q])
      BY DEF ReportInv
    <3> QED
      BY <3>1, <3>2, <3>3, ReporterKeeps
  <2> QED
    BY <2>1, <2>2
<1> QED
  BY <1>1 DEF ReportInv

(* One promoter moves on and writes no row of the canonical side, nor a    *)
(* record.                                                                 *)
LEMMA QuietReport ==
  ASSUME PromotionInv, PromotionInv', ReportInv, NEW p \in Promoters, NEW new,
         process' = [process EXCEPT ![p] = new],
         UNCHANGED <<canonical, records>>,
         \A a \in Planned : plans'[a] # None => Foreseen(heads, commits, plans'[a]),
         LinksSound(candidates, commits, new), PlanSound(heads, commits, new)
  PROVE  ReportInv'
<1>1. heads' = heads /\ commits' = commits /\ candidates' = candidates /\ records' = records
  BY DEF canonical
<1>2. Grown(heads, candidates, commits, heads', candidates', commits')
  BY <1>1, StillGrown
<1>3. /\ \A m \in Memories : heads'[m] # None => heads'[m].revision > 0
      /\ \A c \in CandidateIds : candidates'[c] # None => TargetSound(candidates'[c])
      /\ \A k \in Keys : records'[k] # None => LinkSound(candidates', records'[k])
      /\ \A x \in commits' : TargetSound(x) /\ x.base < Rev(heads', MemoryOf[x.insight])
      /\ \A a \in Planned : plans'[a] # None => Foreseen(heads', commits', plans'[a])
      /\ LinksSound(candidates', commits', new) /\ PlanSound(heads', commits', new)
  BY <1>1 DEF ReportInv
<1> QED
  BY <1>2, <1>3, ReportStep

(* A promoter at rest knows nothing. *)
LEMMA RestSound ==
  ASSUME NEW hs, NEW cands, NEW coms
  PROVE  LinksSound(cands, coms, Idle) /\ PlanSound(hs, coms, Idle)
<1> HIDE DEF Idle
<1> QED
  BY IdleFacts DEF LinksSound, PlanSound, Held, Recorded, Accepted

(* An attempt that ends. *)
LEMMA RestReport ==
  ASSUME PromotionInv, PromotionInv', ReportInv, NEW p \in Promoters,
         process' = [process EXCEPT ![p] = Idle],
         UNCHANGED <<canonical, records>>,
         \A a \in Planned : plans'[a] # None => Foreseen(heads, commits, plans'[a])
  PROVE  ReportInv'
BY RestSound, QuietReport

(* The plan goes on with the promotion. *)
LEMMA PlanCarries ==
  ASSUME NEW hs, NEW coms, NEW st, PlanSound(hs, coms, st), st.phase \in Held \cup {"lock"},
         NEW new, new.phase \in Held \cup {"lock"} \/ (new.phase = "audit" /\ Applying(new)),
         new.approval = st.approval, new.plan = st.plan, new.before = st.before,
         new.replay = st.replay, new.insight = st.insight
  PROVE  PlanSound(hs, coms, new)
<1>1. st.phase \notin {"idle", "plan"} /\ new.phase \notin {"idle", "plan", "lookup", "validate", "events", "reported"}
  BY DEF Held, Recorded, Accepted
<1>2. Applying(new) <=> Applying(st)
  BY DEF Applying
<1>3. new.phase # "idle" /\ Applying(new) => Foreseen(hs, coms, new.plan)
  BY <1>1, <1>2 DEF PlanSound
<1>4. new.phase \in {"plan", "lookup", "validate", "audit", "events", "reported"} => Applying(new)
  BY <1>1 DEF Held, Recorded, Accepted
<1>5. Applying(new) =>
        /\ new.plan.insight = new.insight
        /\ new.before.revisions \in Nat /\ new.before.revisions <= Total(hs)
  BY <1>1, <1>2 DEF PlanSound
<1>6. Applying(new) /\ ~new.replay =>
        Rev(hs, MemoryOf[new.insight]) - new.plan.preflight.target.base
          <= Total(hs) - new.before.revisions
  BY <1>1, <1>2 DEF PlanSound
<1> QED
  BY <1>1, <1>3, <1>4, <1>5, <1>6 DEF PlanSound

-----------------------------------------------------------------------------
(* The operator. *)
LEMMA OperateReport ==
  ASSUME PromotionInv, PromotionInv', ReportInv, NEW p \in Promoters, Operate(p)
  PROVE  ReportInv'
<1> DEFINE st == process[p]
<1>1. /\ st = [f \in Fields |-> st[f]]
      /\ ProcessSound(records, insights, candidates, commits, st)
      /\ LinksSound(candidates, commits, st) /\ PlanSound(heads, commits, st)
      /\ st.phase \notin {"idle", "plan"} => st.insight \in Insights /\ st.key \in Keys
  BY PromoterFacts
<1>2. \A a \in Planned : plans[a] # None => Foreseen(heads, commits, plans[a])
  BY DEF ReportInv
<1>3. CASE SealPlan(p)
  <2>1. /\ st.phase = "plan" /\ process' = [process EXCEPT ![p] = Idle]
        /\ UNCHANGED <<canonical, records>>
    BY <1>3 DEF SealPlan, SetProcess, governed
  <2>2. Foreseen(heads, commits, st.plan)
    BY <1>1, <2>1 DEF PlanSound
  <2>3. PICK new : new = [insight |-> st.plan.insight, preflight |-> st.plan.preflight,
                          state |-> Snapshot, live |-> TRUE]
    OBVIOUS
  <2>4. plans' = [plans EXCEPT ![st.approval] = IF @ # None THEN @ ELSE new]
    BY <1>3, <2>3 DEF SealPlan, Approval
  <2>5. new.insight = st.plan.insight /\ new.preflight = st.plan.preflight
    BY <2>3
  <2>6. Foreseen(heads, commits, new)
    BY <2>2, <2>5 DEF Foreseen
  <2>7. \A a \in Planned : plans'[a] = plans[a] \/ plans'[a] = new
    BY <2>4 DEF PromotionInv
  <2>8. \A a \in Planned : plans'[a] # None => Foreseen(heads, commits, plans'[a])
    BY <1>2, <2>6, <2>7
  <2> QED
    BY <2>1, <2>8, RestReport
<1>4. ASSUME NEW new, process' = [process EXCEPT ![p] = new], UNCHANGED <<canonical, governed, plans>>,
             new = [f \in Fields |-> new[f]], new.phase \in {"lock", "validate", "events", "reported"},
             PlanSound(heads, commits, new)
      PROVE  ReportInv'
  <2>1. LinksSound(candidates, commits, new)
    BY <1>4 DEF LinksSound, Recorded, Accepted
  <2> QED
    BY <1>2, <1>4, <2>1, QuietReport DEF governed
<1>5. CASE Lookup(p)
  <2>1. PICK replay \in BOOLEAN :
          process' = [process EXCEPT ![p] =
            [st EXCEPT !.replay = replay, !.phase = IF replay THEN "lock" ELSE "validate"]]
    BY <1>5 DEF Lookup, SetProcess
  <2>2. PICK phase : phase = IF replay THEN "lock" ELSE "validate"
    OBVIOUS
  <2> DEFINE new == [st EXCEPT !.replay = replay, !.phase = phase]
  <2>3. st.phase = "lookup" /\ UNCHANGED <<canonical, governed, plans>>
    BY <1>5 DEF Lookup
  <2>4. /\ new = [f \in Fields |-> new[f]] /\ new.phase = phase /\ new.insight = st.insight
        /\ new.plan = st.plan /\ new.approval = st.approval /\ new.before = st.before
        /\ new.replay = replay
    BY <1>1 DEF Fields
  <2>5. process' = [process EXCEPT ![p] = new]
    BY <2>1, <2>2
  <2> HIDE DEF new
  <2>6. Applying(new) <=> Applying(st)
    BY <2>4 DEF Applying
  <2>7. PlanSound(heads, commits, new)
    BY <1>1, <2>2, <2>3, <2>4, <2>6 DEF PlanSound, Held, Recorded, Accepted
  <2> QED
    BY <1>4, <2>2, <2>3, <2>4, <2>5, <2>7
<1>6. ASSUME NEW phase \in {"lock", "events", "reported"}
      PROVE  LET new == [st EXCEPT !.phase = phase] IN
             /\ new = [f \in Fields |-> new[f]] /\ new.phase = phase /\ new.insight = st.insight
             /\ new.plan = st.plan /\ new.approval = st.approval /\ new.before = st.before
             /\ new.replay = st.replay /\ new.key = st.key
             /\ Applying(new) <=> Applying(st)
  BY <1>1 DEF Fields, Applying
<1>7. CASE Validate(p)
  <2>1. CASE Fail(p)
    BY <1>2, <1>7, <2>1, RestReport DEF Validate, Fail, SetProcess, governed
  <2>2. CASE ~Fail(p)
    <3> DEFINE new == [st EXCEPT !.phase = "lock"]
    <3>1. /\ st.phase = "validate" /\ UNCHANGED <<canonical, governed, plans>>
          /\ process' = [process EXCEPT ![p] = new]
          /\ Preflight(st.insight) = st.plan.preflight
      BY <1>7, <2>2 DEF Validate, Goto, SetProcess
    <3>2. /\ new = [f \in Fields |-> new[f]] /\ new.phase = "lock" /\ new.insight = st.insight
          /\ new.plan = st.plan /\ new.approval = st.approval /\ new.before = st.before
          /\ new.replay = st.replay /\ (Applying(new) <=> Applying(st))
      BY <1>6
    <3>3. st.plan.preflight.target = Target(st.insight)
      BY <3>1 DEF Preflight
    <3>4. st.plan.preflight.target.base = Rev(heads, MemoryOf[st.insight])
      BY <3>3 DEF Target, Rev
    <3> HIDE DEF new
    <3>5. /\ Applying(st) /\ Foreseen(heads, commits, st.plan) /\ st.plan.insight = st.insight
          /\ st.before.revisions \in Nat /\ st.before.revisions <= Total(heads)
      BY <1>1, <3>1 DEF PlanSound
    <3>6. Total(heads) \in Nat /\ Rev(heads, MemoryOf[st.insight]) \in Nat
      BY <1>1, <3>1, HeadsAreSound, CountsType, PromotionAssumption
    <3>7. Foreseen(heads, commits, new.plan) /\ Applying(new)
      BY <3>2, <3>5
    <3>8. /\ new.before.revisions \in Nat /\ new.before.revisions <= Total(heads)
          /\ new.plan.insight = new.insight
      BY <3>2, <3>5
    <3>9. Rev(heads, MemoryOf[new.insight]) - new.plan.preflight.target.base
            <= Total(heads) - new.before.revisions
      BY <3>2, <3>4, <3>6, <3>8
    <3>10. PlanSound(heads, commits, new)
      BY <3>2, <3>7, <3>8, <3>9 DEF PlanSound
    <3> QED
      BY <1>4, <3>1, <3>2, <3>10
  <2> QED
    BY <2>1, <2>2
<1>8. CASE Audit(p)
  <2>1. CASE SetProcess(p, Idle)
    BY <1>2, <1>8, <2>1, RestReport DEF Audit, SetProcess, governed
  <2>2. CASE ~SetProcess(p, Idle)
    <3> DEFINE new == [st EXCEPT !.phase = "events"]
               t == st.plan.preflight.target
               m == MemoryOf[st.insight]
    <3>1. /\ st.phase = "audit" /\ UNCHANGED <<canonical, governed, plans>>
          /\ process' = [process EXCEPT ![p] = new] /\ DeltaExpected(st, Snapshot)
      BY <1>8, <2>2 DEF Audit, Goto, SetProcess
    <3>2. /\ new = [f \in Fields |-> new[f]] /\ new.phase = "events" /\ new.insight = st.insight
          /\ new.plan = st.plan /\ new.approval = st.approval /\ new.before = st.before
          /\ new.replay = st.replay /\ new.key = st.key /\ (Applying(new) <=> Applying(st))
      BY <1>6
    <3> HIDE DEF new
    <3>3. /\ Applying(st) /\ Foreseen(heads, commits, st.plan) /\ st.plan.insight = st.insight
          /\ st.before.revisions \in Nat /\ st.before.revisions <= Total(heads)
          /\ ~st.replay => Rev(heads, m) - t.base <= Total(heads) - st.before.revisions
      BY <1>1, <3>1 DEF PlanSound
    <3>4. PICK x \in commits : x.key = st.key /\ x.insight = st.insight
      BY <1>1, <3>1 DEF LinksSound, CommitOf
    <3>5. ASSUME ~st.replay PROVE [op |-> x.op, base |-> x.base] = t
      <4>1. Snapshot.revisions = st.before.revisions + 1
        BY <3>1, <3>5 DEF DeltaExpected
      <4>2. Total(heads) = st.before.revisions + 1
        BY <4>1, SnapshotRevisions
      <4>3. /\ t = [op |-> t.op, base |-> t.base] /\ TargetSound(t) /\ t.base <= x.base
            /\ TargetSound(x) /\ x.base < Rev(heads, m)
        BY <3>3, <3>4 DEF Foreseen, ReportInv
      <4>4. Rev(heads, m) \in Nat /\ t.base \in Nat /\ x.base \in Nat
        BY <1>1, <3>1, <4>3, HeadsAreSound, CountsType, PromotionAssumption DEF TargetSound
      <4>5. x.base = t.base
        <5> HIDE DEF t, m
        <5> QED
          BY <3>3, <3>5, <4>2, <4>3, <4>4
      <4>6. x.op = t.op
        BY <4>3, <4>5 DEF TargetSound
      <4> QED
        BY <4>3, <4>5, <4>6
    <3>6. x \in CommitOf(commits, new)
      BY <3>2, <3>4 DEF CommitOf
    <3>7. PlanSound(heads, commits, new)
      BY <3>2, <3>3, <3>5, <3>6 DEF PlanSound, Held, Recorded, Accepted
    <3> QED
      BY <1>4, <3>1, <3>2, <3>7
  <2> QED
    BY <2>1, <2>2
<1>9. CASE CheckEvents(p)
  <2>1. CASE SetProcess(p, Idle)
    BY <1>2, <1>9, <2>1, RestReport DEF CheckEvents, SetProcess, governed
  <2>2. CASE ~SetProcess(p, Idle)
    <3> DEFINE new == [st EXCEPT !.phase = "reported"]
    <3>1. /\ st.phase = "events" /\ UNCHANGED <<canonical, governed, plans>>
          /\ process' = [process EXCEPT ![p] = new]
      BY <1>9, <2>2 DEF CheckEvents, Goto, SetProcess
    <3>2. /\ new = [f \in Fields |-> new[f]] /\ new.phase = "reported" /\ new.insight = st.insight
          /\ new.plan = st.plan /\ new.approval = st.approval /\ new.before = st.before
          /\ new.replay = st.replay /\ new.key = st.key /\ (Applying(new) <=> Applying(st))
      BY <1>6
    <3> HIDE DEF new
    <3>3. CommitOf(commits, new) = CommitOf(commits, st)
      BY <3>2 DEF CommitOf
    <3>4. PlanSound(heads, commits, new)
      BY <1>1, <3>1, <3>2, <3>3 DEF PlanSound, Held, Recorded, Accepted
    <3> QED
      BY <1>4, <3>1, <3>2, <3>4
  <2> QED
    BY <2>1, <2>2
<1>10. CASE Finish(p)
  BY <1>2, <1>10, RestReport DEF Finish, SetProcess, governed
<1> QED
  BY <1>3, <1>5, <1>7, <1>8, <1>9, <1>10 DEF Operate

(* A plan drafted, and a promotion begun by the operator or a caller. *)
LEMMA BeginReport ==
  ASSUME PromotionInv, PromotionInv', ReportInv, NEW p \in Promoters,
         \/ \E a \in Approvals, i \in Insights, k \in Keys : BeginPromote(p, a, i, k)
         \/ \E a \in Planned, i \in Insights : DraftPlan(p, a, i)
         \/ \E a \in Planned, k \in Keys : BeginApply(p, a, k)
  PROVE  ReportInv'
<1>1. \A a \in Planned : plans[a] # None => Foreseen(heads, commits, plans[a])
  BY DEF ReportInv
<1>2. ASSUME NEW new, process' = [process EXCEPT ![p] = new],
             UNCHANGED <<canonical, governed>>,
             \A a \in Planned : plans'[a] = plans[a],
             new = [f \in Fields |-> new[f]], new.phase \in {"plan", "lookup", "lock"},
             PlanSound(heads, commits, new)
      PROVE  ReportInv'
  <2>1. LinksSound(candidates, commits, new)
    BY <1>2 DEF LinksSound, Recorded, Accepted
  <2> QED
    BY <1>1, <1>2, <2>1, QuietReport DEF governed
<1>3. ASSUME NEW a \in Approvals, NEW i \in Insights, NEW k \in Keys, BeginPromote(p, a, i, k)
      PROVE  ReportInv'
  <2> DEFINE new == [Idle EXCEPT !.phase = "lock", !.approval = a, !.insight = i, !.key = k]
  <2>1. /\ new = [f \in Fields |-> new[f]] /\ new.phase = "lock" /\ new.approval = a
    BY DEF Fields, Idle
  <2>2. /\ process' = [process EXCEPT ![p] = new] /\ a \notin Planned
        /\ UNCHANGED <<canonical, governed, plans>>
    BY <1>3 DEF BeginPromote, SetProcess
  <2> HIDE DEF new
  <2>3. PlanSound(heads, commits, new)
    BY <2>1, <2>2 DEF PlanSound, Applying
  <2> QED
    BY <1>2, <2>1, <2>2, <2>3
<1>4. ASSUME NEW a \in Planned, NEW i \in Insights, DraftPlan(p, a, i)
      PROVE  ReportInv'
  <2>1. PICK plan : plan = [insight |-> i, preflight |-> Preflight(i)]
    OBVIOUS
  <2> DEFINE new == [Idle EXCEPT !.phase = "plan", !.approval = a, !.insight = i, !.plan = plan]
             m == MemoryOf[i]
             t == plan.preflight.target
  <2>2. /\ new = [f \in Fields |-> new[f]] /\ new.phase = "plan" /\ new.approval = a
        /\ new.plan = plan
    BY DEF Fields, Idle
  <2>3. /\ process' = [process EXCEPT ![p] = new] /\ RecordOf(i) = {}
        /\ UNCHANGED <<canonical, governed, plans>>
    BY <1>4, <2>1 DEF DraftPlan, SetProcess
  <2>4. plan.insight = i /\ t = Target(i)
    BY <2>1 DEF Preflight
  <2>5. m \in Memories /\ (heads[m] # None => heads[m].revision \in Nat /\ heads[m].revision > 0)
    BY HeadsAreSound, PromotionAssumption DEF HeadsSound, ReportInv
  <2>6. t = [op |-> t.op, base |-> t.base] /\ TargetSound(t) /\ t.base <= Rev(heads, m)
    BY <2>4, <2>5 DEF Target, TargetSound, Rev
  <2>7. \A x \in commits : x.insight # i
    BY <2>3 DEF RecordOf, PromotionInv, CommitsSound
  <2>8. Foreseen(heads, commits, plan)
    BY <2>4, <2>6, <2>7 DEF Foreseen
  <2> HIDE DEF new
  <2>9. PlanSound(heads, commits, new)
    BY <2>2, <2>8 DEF PlanSound, Applying, Held, Recorded, Accepted
  <2> QED
    BY <1>2, <2>2, <2>3, <2>9
<1>5. ASSUME NEW a \in Planned, NEW k \in Keys, BeginApply(p, a, k)
      PROVE  ReportInv'
  <2>1. PICK plan, before, i : plan = plans[a] /\ before = Snapshot /\ i = plans[a].insight
    OBVIOUS
  <2> DEFINE new == [Idle EXCEPT !.phase = "lookup", !.approval = a, !.insight = i,
                                 !.key = k, !.plan = plan, !.before = before]
  <2>2. /\ new = [f \in Fields |-> new[f]] /\ new.phase = "lookup" /\ new.approval = a
        /\ new.insight = i /\ new.plan = plan /\ new.before = before
    BY DEF Fields, Idle
  <2>3. /\ process' = [process EXCEPT ![p] = new] /\ plan # None
        /\ UNCHANGED <<canonical, governed, plans>>
    BY <1>5, <2>1 DEF BeginApply, SetProcess
  <2>4. Foreseen(heads, commits, plan) /\ plan.insight = i
    BY <1>1, <2>1, <2>3
  <2>5. before.revisions = Total(heads) /\ Total(heads) \in Nat
    BY <2>1, SnapshotRevisions, HeadsAreSound, CountsType
  <2> HIDE DEF new
  <2>6. /\ Foreseen(heads, commits, new.plan) /\ new.plan.insight = new.insight
        /\ new.before.revisions \in Nat /\ new.before.revisions <= Total(heads)
        /\ Applying(new)
    BY <2>2, <2>4, <2>5 DEF Applying
  <2>7. PlanSound(heads, commits, new)
    BY <2>2, <2>6 DEF PlanSound, Held, Recorded, Accepted
  <2> QED
    BY <1>2, <2>2, <2>3, <2>7
<1> QED
  BY <1>3, <1>4, <1>5

(* A step of promoteLocked that writes neither record nor canonical row.   *)
LEMMA HeldReport ==
  ASSUME PromotionInv, PromotionInv', ReportInv, NEW p \in Promoters, NEW new,
         process' = [process EXCEPT ![p] = new], UNCHANGED <<canonical, records, plans>>,
         process[p].phase \in Held \cup {"lock"},
         new.phase \in Held \/ (new.phase = "audit" /\ Applying(new)),
         new.approval = process[p].approval, new.plan = process[p].plan,
         new.before = process[p].before, new.replay = process[p].replay,
         new.insight = process[p].insight,
         LinksSound(candidates, commits, new)
  PROVE  ReportInv'
<1>1. PlanSound(heads, commits, new)
  BY PromoterFacts, PlanCarries
<1>2. \A a \in Planned : plans'[a] # None => Foreseen(heads, commits, plans'[a])
  BY DEF ReportInv
<1> QED
  BY <1>1, <1>2, QuietReport

(* An attempt that ends and leaves the plans alone. *)
LEMMA EndReport ==
  ASSUME PromotionInv, PromotionInv', ReportInv, NEW p \in Promoters,
         process' = [process EXCEPT ![p] = Idle], UNCHANGED <<canonical, records, plans>>
  PROVE  ReportInv'
<1>1. \A a \in Planned : plans'[a] # None => Foreseen(heads, commits, plans'[a])
  BY DEF ReportInv
<1> QED
  BY <1>1, RestReport

(* The steps of promoteLocked that write neither record nor canonical row. *)
LEMMA ReadReport ==
  ASSUME PromotionInv, PromotionInv', ReportInv, NEW p \in Promoters,
         \/ ReadPrior(p) \/ ReadGoverned(p) \/ Verify(p) \/ Assess(p) \/ Accept(p)
         \/ Propose(p) \/ TakeLock(p) \/ Done(p)
  PROVE  ReportInv'
<1> DEFINE st == process[p]
<1>1. /\ st = [f \in Fields |-> st[f]]
      /\ ProcessSound(records, insights, candidates, commits, st)
      /\ LinksSound(candidates, commits, st)
      /\ st.phase \notin {"idle", "plan"} => st.insight \in Insights /\ st.key \in Keys
  BY PromoterFacts
<1>2. UNCHANGED <<canonical, records, plans>>
  BY DEF ReadPrior, ReadGoverned, Verify, Assess, Accept, Propose, TakeLock, Done, governed
<1>3. ASSUME NEW phase, process' = [process EXCEPT ![p] = [st EXCEPT !.phase = phase]],
             st.phase \in Held \cup {"lock"},
             phase \in Held \/ (phase = "audit" /\ Applying(st)),
             phase \notin {"governed", "ingest", "done"},
             phase \in {"verify", "assess"} /\ st.prior # None => LinkSound(candidates, st.prior),
             phase \in Recorded \cup {"approve"} => LinkSound(candidates, st.record),
             phase = "audit" => CommitOf(commits, st) # {}
      PROVE  ReportInv'
  <2> DEFINE new == [st EXCEPT !.phase = phase]
  <2>1. /\ new.phase = phase /\ new.insight = st.insight /\ new.key = st.key
        /\ new.plan = st.plan /\ new.approval = st.approval /\ new.before = st.before
        /\ new.replay = st.replay /\ new.prior = st.prior /\ new.record = st.record
    BY <1>1 DEF Fields
  <2>2. process' = [process EXCEPT ![p] = new]
    BY <1>3
  <2> HIDE DEF new
  <2>3. (Applying(new) <=> Applying(st)) /\ CommitOf(commits, new) = CommitOf(commits, st)
    BY <2>1 DEF Applying, CommitOf
  <2>4. LinksSound(candidates, commits, new)
    BY <1>3, <2>1, <2>3 DEF LinksSound
  <2> QED
    BY <1>2, <1>3, <2>1, <2>2, <2>3, <2>4, HeldReport
<1>4. ASSUME Fail(p) PROVE ReportInv'
  BY <1>2, <1>4, EndReport DEF Fail, SetProcess
<1>5. CASE ReadPrior(p)
  <2>1. PICK prior : prior = records[st.key]
    OBVIOUS
  <2> DEFINE new == [st EXCEPT !.phase = "governed", !.prior = prior]
  <2>2. st.phase = "prior" /\ process' = [process EXCEPT ![p] = new]
    BY <1>5, <2>1 DEF ReadPrior, SetProcess
  <2>3. /\ new.phase = "governed" /\ new.insight = st.insight /\ new.key = st.key
        /\ new.plan = st.plan /\ new.approval = st.approval /\ new.before = st.before
        /\ new.replay = st.replay /\ new.prior = prior
    BY <1>1 DEF Fields
  <2> HIDE DEF new
  <2>4. st.key \in Keys
    BY <1>1, <2>2
  <2>5. prior # None => LinkSound(candidates, prior)
    BY <2>1, <2>4 DEF ReportInv
  <2>6. RowTruth(commits, events, st.key, prior)
    BY <2>1, <2>4 DEF PromotionInv
  <2>7. prior # None /\ prior.status = "committed" =>
          \E x \in commits : x.key = st.key /\ x.insight = prior.insight
    BY <2>6 DEF RowTruth
  <2>8. LinksSound(candidates, commits, new)
    BY <2>3, <2>5, <2>7 DEF LinksSound, Recorded, Accepted
  <2> QED
    BY <1>2, <2>2, <2>3, <2>8, HeldReport DEF Held
<1>6. CASE ReadGoverned(p)
  <2> DEFINE rec == st.prior
  <2>1. st.phase = "governed"
    BY <1>6 DEF ReadGoverned
  <2>2. CASE rec = None /\ ~Fail(p)
    <3>1. PICK phase \in {"verify"} :
            process' = [process EXCEPT ![p] = [st EXCEPT !.phase = phase]]
      BY <1>6, <2>2 DEF ReadGoverned, Goto, SetProcess
    <3> QED
      BY <1>3, <2>1, <2>2, <3>1 DEF Held, Recorded, Accepted
  <2>3. CASE rec # None /\ ~Fail(p)
    <3>1. PICK phase : phase = IF rec.status = "committed" THEN "done" ELSE "verify"
      OBVIOUS
    <3> DEFINE new == [st EXCEPT !.record = rec, !.phase = phase]
    <3>2. process' = [process EXCEPT ![p] = new] /\ rec.insight = st.insight
      BY <1>6, <2>3, <3>1 DEF ReadGoverned, SetProcess
    <3>3. /\ new.phase = phase /\ new.insight = st.insight /\ new.key = st.key
          /\ new.plan = st.plan /\ new.approval = st.approval /\ new.before = st.before
          /\ new.replay = st.replay /\ new.prior = rec
      BY <1>1 DEF Fields
    <3> HIDE DEF new
    <3>4. LinkSound(candidates, rec)
      BY <1>1, <2>1, <2>3 DEF LinksSound
    <3>5. phase = "done" => \E x \in commits : x.key = st.key /\ x.insight = st.insight
      BY <1>1, <2>1, <2>3, <3>1, <3>2 DEF LinksSound
    <3>6. phase = "done" => CommitOf(commits, new) # {}
      BY <3>3, <3>5 DEF CommitOf
    <3>7. LinksSound(candidates, commits, new)
      BY <3>1, <3>3, <3>4, <3>6 DEF LinksSound, Recorded, Accepted
    <3> QED
      BY <1>2, <2>1, <3>1, <3>2, <3>3, <3>7, HeldReport DEF Held
  <2> QED
    BY <1>4, <2>2, <2>3
<1>7. CASE Verify(p)
  <2>1. CASE ~Fail(p)
    <3>1. st.phase = "verify"
      BY <1>7 DEF Verify
    <3>3. PICK phase \in {"assess"} :
            process' = [process EXCEPT ![p] = [st EXCEPT !.phase = phase]]
      BY <1>7, <2>1 DEF Verify, Goto, SetProcess
    <3>2. st.prior # None => LinkSound(candidates, st.prior)
      BY <1>1, <3>1 DEF LinksSound
    <3> QED
      BY <1>3, <3>3, <3>1, <3>2 DEF Held, Recorded, Accepted
  <2> QED
    BY <1>4, <2>1
<1>8. CASE Assess(p)
  <2>1. CASE ~Fail(p)
    <3>1. PICK t \in Stamps :
            process' = [process EXCEPT ![p] =
              [st EXCEPT !.phase = "approve", !.prior = None,
                 !.record = IF st.prior # None THEN st.prior
                            ELSE [insight |-> st.insight, approval |-> Approval(p), created |-> t,
                                  status |-> Assessment(st.insight), candidate |-> None,
                                  memory |-> None]]]
      BY <1>8, <2>1 DEF Assess, SetProcess
    <3>2. PICK record : record = IF st.prior # None THEN st.prior
                            ELSE [insight |-> st.insight, approval |-> Approval(p), created |-> t,
                                  status |-> Assessment(st.insight), candidate |-> None,
                                  memory |-> None]
      OBVIOUS
    <3> DEFINE new == [st EXCEPT !.phase = "approve", !.prior = None, !.record = record]
    <3>3. process' = [process EXCEPT ![p] = new]
      BY <3>1, <3>2
    <3>4. st.phase = "assess" /\ LinkSound(candidates, record)
      BY <1>1, <1>8, <3>2 DEF LinksSound, LinkSound, Assess
    <3>5. /\ new.phase = "approve" /\ new.insight = st.insight /\ new.key = st.key
          /\ new.plan = st.plan /\ new.approval = st.approval /\ new.before = st.before
          /\ new.replay = st.replay /\ new.record = record
      BY <1>1 DEF Fields
    <3> HIDE DEF new
    <3>6. LinksSound(candidates, commits, new)
      BY <3>4, <3>5 DEF LinksSound, Recorded, Accepted
    <3> QED
      BY <1>2, <3>3, <3>4, <3>5, <3>6, HeldReport DEF Held
  <2> QED
    BY <1>4, <2>1
<1>9. CASE Accept(p)
  <2>1. CASE ~Fail(p)
    <3>1. PICK phase \in {"propose", "commit"} :
            process' = [process EXCEPT ![p] = [st EXCEPT !.phase = phase]]
      BY <1>9, <2>1 DEF Accept, Goto, SetProcess
    <3>2. st.phase = "accept" /\ LinkSound(candidates, st.record)
      BY <1>1, <1>9 DEF Accept, LinksSound, Recorded, Accepted
    <3> QED
      BY <1>3, <3>1, <3>2 DEF Held, Recorded, Accepted
  <2> QED
    BY <1>4, <2>1
<1>10. CASE Propose(p)
  <2>1. CASE ~Fail(p)
    <3>1. PICK op, base : op = Target(st.insight).op /\ base = Target(st.insight).base
      OBVIOUS
    <3> DEFINE new == [st EXCEPT !.phase = "ingest", !.op = op, !.base = base]
    <3>2. process' = [process EXCEPT ![p] = new] /\ st.phase = "propose"
      BY <1>10, <2>1, <3>1 DEF Propose, SetProcess
    <3>3. LinkSound(candidates, st.record)
      BY <1>1, <3>2 DEF LinksSound, Recorded, Accepted
    <3>4. MemoryOf[st.insight] \in Memories
      BY <1>1, <3>2, PromotionAssumption
    <3>5. op \in {"create", "merge"} /\ base \in Nat /\ (op = "create" <=> base = 0)
      BY <3>1, <3>4, HeadsAreSound DEF Target, HeadsSound, ReportInv
    <3>6. /\ new.phase = "ingest" /\ new.insight = st.insight /\ new.key = st.key
          /\ new.plan = st.plan /\ new.approval = st.approval /\ new.before = st.before
          /\ new.replay = st.replay /\ new.record = st.record /\ new.op = op /\ new.base = base
      BY <1>1 DEF Fields
    <3> HIDE DEF new
    <3>7. LinksSound(candidates, commits, new)
      BY <3>3, <3>5, <3>6 DEF LinksSound, TargetSound
    <3> QED
      BY <1>2, <3>2, <3>6, <3>7, HeldReport DEF Held, Recorded, Accepted
  <2> QED
    BY <1>4, <2>1
<1>11. CASE TakeLock(p)
  <2>1. st.phase = "lock"
    BY <1>11 DEF TakeLock
  <2>2. PICK phase \in {"prior"} :
          process' = [process EXCEPT ![p] = [st EXCEPT !.phase = phase]]
    BY <1>11 DEF TakeLock, Goto, SetProcess
  <2> QED
    BY <1>3, <2>1, <2>2 DEF Held, Recorded, Accepted
<1>12. CASE Done(p)
  <2>1. CASE process' = [process EXCEPT ![p] = Idle]
    BY <1>2, <2>1, EndReport
  <2>2. CASE process' # [process EXCEPT ![p] = Idle]
    <3>1. st.phase = "done" /\ Applying(st)
      BY <1>12, <2>2 DEF Done, Goto, SetProcess, Applying, Approval
    <3>3. PICK phase \in {"audit"} :
            process' = [process EXCEPT ![p] = [st EXCEPT !.phase = phase]]
      BY <1>12, <2>2 DEF Done, Goto, SetProcess
    <3>2. CommitOf(commits, st) # {}
      BY <1>1, <3>1 DEF LinksSound
    <3> QED
      BY <1>3, <3>3, <3>1, <3>2 DEF Held, Recorded, Accepted
  <2> QED
    BY <2>1, <2>2
<1> QED
  BY <1>5, <1>6, <1>7, <1>8, <1>9, <1>10, <1>11, <1>12

-----------------------------------------------------------------------------
(* The record is approved or rejected, linked, and committed. *)
LEMMA PutReport ==
  ASSUME PromotionInv, PromotionInv', ReportInv, NEW p \in Promoters,
         Approve(p) \/ Link(p) \/ RecordCommit(p)
  PROVE  ReportInv'
<1> DEFINE st == process[p]
<1>1. /\ st = [f \in Fields |-> st[f]]
      /\ ProcessSound(records, insights, candidates, commits, st)
      /\ LinksSound(candidates, commits, st) /\ PlanSound(heads, commits, st)
      /\ st.phase \notin {"idle", "plan"} => st.insight \in Insights /\ st.key \in Keys
  BY PromoterFacts
<1>2. UNCHANGED <<canonical, plans>> /\ st.phase \in {"approve", "link", "record"}
  BY DEF Approve, Link, RecordCommit
<1>3. /\ heads' = heads /\ commits' = commits /\ candidates' = candidates /\ plans' = plans
      /\ st.key \in Keys /\ st.phase \in Held
  BY <1>1, <1>2 DEF canonical, Held, Recorded, Accepted
<1>4. ASSUME NEW r, NEW phase \in {"accept", "commit", "done", "idle"}, Put(p, r, phase),
             LinkSound(candidates, r), phase = "done" => CommitOf(commits, st) # {}
      PROVE  ReportInv'
  <2>1. CASE ~PutAllowed(st.key, r)
    <3>1. process' = [process EXCEPT ![p] = Idle] /\ UNCHANGED records
      BY <1>4, <2>1 DEF Put, Fail, SetProcess
    <3> QED
      BY <1>2, <3>1, EndReport
  <2>2. CASE PutAllowed(st.key, r)
    <3> DEFINE next == IF phase = "idle" THEN Idle ELSE [st EXCEPT !.phase = phase, !.record = r]
    <3>1. /\ records' = [records EXCEPT ![st.key] = r]
          /\ process' = [process EXCEPT ![p] = next]
      BY <1>4, <2>2 DEF Put, Fail, SetProcess
    <3>2. \A k \in Keys : records'[k] # None => LinkSound(candidates', records'[k])
      BY <1>3, <1>4, <3>1 DEF ReportInv, PromotionInv, RecordsSound
    <3>3. LinksSound(candidates, commits, next) /\ PlanSound(heads, commits, next)
      <4>1. CASE phase = "idle"
        BY <4>1, RestSound
      <4>2. CASE phase # "idle"
        <5>1. /\ next.phase = phase /\ next.insight = st.insight /\ next.key = st.key
              /\ next.plan = st.plan /\ next.approval = st.approval /\ next.before = st.before
              /\ next.replay = st.replay /\ next.record = r
          BY <1>1, <4>2 DEF Fields
        <5> HIDE DEF next
        <5>2. CommitOf(commits, next) = CommitOf(commits, st)
          BY <5>1 DEF CommitOf
        <5>3. LinksSound(candidates, commits, next)
          BY <1>4, <4>2, <5>1, <5>2 DEF LinksSound
        <5>4. next.phase \in Held
          BY <4>2, <5>1 DEF Held, Recorded, Accepted
        <5> QED
          BY <1>1, <1>3, <5>1, <5>3, <5>4, PlanCarries
      <4> QED
        BY <4>1, <4>2
    <3> HIDE DEF next
    <3>4. Grown(heads, candidates, commits, heads', candidates', commits')
      BY <1>3, StillGrown
    <3>5. /\ \A m \in Memories : heads'[m] # None => heads'[m].revision > 0
          /\ \A c \in CandidateIds : candidates'[c] # None => TargetSound(candidates'[c])
          /\ \A x \in commits' : TargetSound(x) /\ x.base < Rev(heads', MemoryOf[x.insight])
          /\ \A a \in Planned : plans'[a] # None => Foreseen(heads', commits', plans'[a])
          /\ LinksSound(candidates', commits', next) /\ PlanSound(heads', commits', next)
      BY <1>3, <3>3 DEF ReportInv
    <3> QED
      BY <3>1, <3>2, <3>4, <3>5, ReportStep
  <2> QED
    BY <2>1, <2>2
<1>5. CASE Approve(p)
  <2>1. /\ st.phase = "approve"
        /\ Put(p, st.record, "accept") \/ Put(p, st.record, "idle")
    BY <1>5 DEF Approve
  <2>2. LinkSound(candidates, st.record)
    BY <1>1, <2>1 DEF LinksSound
  <2> QED
    BY <1>4, <2>1, <2>2
<1>6. CASE Link(p)
  <2>1. st.phase = "link" /\ Put(p, st.record, "commit")
    BY <1>6 DEF Link
  <2>2. LinkSound(candidates, st.record)
    BY <1>1, <2>1 DEF LinksSound, Recorded, Accepted
  <2> QED
    BY <1>4, <2>1, <2>2
<1>7. CASE RecordCommit(p)
  <2>1. PICK r : r = [st.record EXCEPT !.status = "committed", !.memory = MemoryOf[st.insight]]
    OBVIOUS
  <2>2. st.phase = "record" /\ Put(p, r, "done")
    BY <1>7, <2>1 DEF RecordCommit
  <2>3. LinkSound(candidates, st.record) /\ st.record \in Records
        /\ CommitOf(commits, st) # {}
    BY <1>1, <2>2 DEF LinksSound, ProcessSound, Extant, CommitOf, Recorded, Accepted
  <2>4. LinkSound(candidates, r)
    BY <2>1, <2>3 DEF LinkSound, Records
  <2> QED
    BY <1>4, <2>2, <2>3, <2>4
<1> QED
  BY <1>5, <1>6, <1>7

(* The candidate is proposed as the memory was last seen. *)
LEMMA IngestReport ==
  ASSUME PromotionInv, PromotionInv', ReportInv, NEW p \in Promoters, Ingest(p)
  PROVE  ReportInv'
<1> DEFINE st == process[p]
<1>1. /\ st = [f \in Fields |-> st[f]] /\ st.phase = "ingest"
      /\ ProcessSound(records, insights, candidates, commits, st)
      /\ LinksSound(candidates, commits, st) /\ PlanSound(heads, commits, st)
      /\ heads' = heads /\ commits' = commits /\ records' = records /\ plans' = plans
  BY PromoterFacts DEF Ingest, governed
<1>2. PICK c \in CandidateIds :
        /\ candidates[c] = None
        /\ candidates' = [candidates EXCEPT ![c] =
             [insight |-> st.insight, op |-> st.op, base |-> st.base, status |-> "PENDING"]]
        /\ SetProcess(p, [st EXCEPT !.phase = "link", !.record.candidate = c,
                                    !.op = None, !.base = 0])
  BY DEF Ingest
<1>3. PICK rec, row : /\ rec = [st.record EXCEPT !.candidate = c]
                      /\ row = [insight |-> st.insight, op |-> st.op, base |-> st.base,
                                status |-> "PENDING"]
  OBVIOUS
<1> DEFINE new == [st EXCEPT !.phase = "link", !.record = rec, !.op = None, !.base = 0]
<1>4. process' = [process EXCEPT ![p] = new]
  BY <1>2, <1>3 DEF SetProcess
<1>5. /\ new.phase = "link" /\ new.insight = st.insight /\ new.record = rec
      /\ new.plan = st.plan /\ new.approval = st.approval /\ new.before = st.before
      /\ new.replay = st.replay
  BY <1>1 DEF Fields
<1> HIDE DEF new
<1>6. /\ st.record \in Records /\ st.record.insight = st.insight /\ TargetSound(st)
  BY <1>1 DEF ProcessSound, Extant, LinksSound, Recorded, Accepted
<1>7. /\ rec.candidate = c /\ rec.insight = st.insight
      /\ row.insight = st.insight /\ row.op = st.op /\ row.base = st.base
  BY <1>3, <1>6 DEF Records
<1>8. /\ candidates'[c] = row
      /\ \A x \in CandidateIds : x # c => candidates'[x] = candidates[x]
  BY <1>2, <1>3 DEF PromotionInv, CanonicalSound
<1>9. row # None
  <2>1. row \in Proposals
    BY <1>1, <1>3 DEF ProcessSound, Proposals
  <2> QED
    BY <2>1, NoneAssumption
<1>10. \A x \in CandidateIds : candidates[x] # None =>
         candidates'[x] # None /\ candidates'[x].insight = candidates[x].insight
  BY <1>2, <1>8
<1>11. Grown(heads, candidates, commits, heads', candidates', commits')
  BY <1>1, <1>10, StillGrown
<1>12. \A x \in CandidateIds : candidates'[x] # None => TargetSound(candidates'[x])
  <2>1. TargetSound(row)
    BY <1>6, <1>7 DEF TargetSound
  <2> QED
    BY <1>8, <2>1 DEF ReportInv
<1>13. \A k \in Keys : records'[k] # None => LinkSound(candidates', records'[k])
  BY <1>1, <1>10, LinkKeeps DEF ReportInv
<1>14. LinkSound(candidates', rec)
  BY <1>7, <1>8, <1>9 DEF LinkSound
<1>15. LinksSound(candidates', commits', new)
  BY <1>5, <1>14 DEF LinksSound
<1>16. PlanSound(heads, commits, new)
  BY <1>1, <1>5, PlanCarries DEF Held, Recorded, Accepted
<1>17. /\ \A m \in Memories : heads'[m] # None => heads'[m].revision > 0
       /\ \A x \in commits' : TargetSound(x) /\ x.base < Rev(heads', MemoryOf[x.insight])
       /\ \A a \in Planned : plans'[a] # None => Foreseen(heads', commits', plans'[a])
       /\ PlanSound(heads', commits', new)
  BY <1>1, <1>16 DEF ReportInv
<1> QED
  BY <1>4, <1>11, <1>12, <1>13, <1>15, <1>17, ReportStep

-----------------------------------------------------------------------------
(* One memory gets its next revision, by a commit of a promotion or of     *)
(* another caller.                                                         *)
LEMMA RevisionAdded ==
  ASSUME PromotionInv, ReportInv, NEW m \in Memories, NEW new \in Heads,
         new.revision = Rev(heads, m) + 1, heads' = [heads EXCEPT ![m] = new],
         commits \subseteq commits',
         \A x \in commits' : x \in commits \/
           (TargetSound(x) /\ x.base = Rev(heads, m) /\ MemoryOf[x.insight] = m),
         \A c \in CandidateIds : candidates[c] # None =>
           candidates'[c] # None /\ candidates'[c].insight = candidates[c].insight
  PROVE  /\ Grown(heads, candidates, commits, heads', candidates', commits')
         /\ HeadsSound(heads')
         /\ \A y \in Memories : heads'[y] # None => heads'[y].revision > 0
         /\ \A x \in commits' : TargetSound(x) /\ x.base < Rev(heads', MemoryOf[x.insight])
<1>1. HeadsSound(heads) /\ new # None /\ new.revision \in Nat
  BY HeadsAreSound, NoneAssumption DEF Heads
<1>2. /\ HeadsSound(heads') /\ heads'[m] = new
      /\ \A x \in Memories : x # m => heads'[x] = heads[x]
  BY <1>1 DEF HeadsSound
<1>3. /\ Total(heads) \in Nat /\ Total(heads') \in Nat
      /\ \A x \in Memories : Rev(heads, x) \in Nat
  BY <1>1, <1>2, CountsType
<1>4. /\ Total(heads') = Total(heads) + 1 /\ Rev(heads', m) = Rev(heads, m) + 1
      /\ \A x \in Memories : x # m => Rev(heads', x) = Rev(heads, x)
  <2>1. /\ Total(heads') - Total(heads) = Rev(heads', m) - Rev(heads, m)
        /\ \A x \in Memories : x # m => Rev(heads', x) = Rev(heads, x)
    BY ONLY <1>1, <1>2, m \in Memories, new \in Heads, CountsMove
  <2>2. Rev(heads', m) = Rev(heads, m) + 1
    BY <1>1, <1>2 DEF Rev
  <2>3. Rev(heads, m) \in Nat /\ Total(heads) \in Nat /\ Total(heads') \in Nat
    BY <1>3
  <2>4. Total(heads') = Total(heads) + 1
    BY ONLY <2>1, <2>2, <2>3
  <2> QED
    BY <2>1, <2>2, <2>4
<1>5. /\ \A x \in Memories : Rev(heads, x) <= Rev(heads', x)
                             /\ Rev(heads', x) - Rev(heads, x) <= Total(heads') - Total(heads)
      /\ Total(heads) <= Total(heads')
  <2>1. ASSUME NEW x \in Memories
        PROVE  Rev(heads, x) <= Rev(heads', x) /\ Rev(heads', x) - Rev(heads, x) <= 1
    <3>1. Rev(heads', x) = Rev(heads, x) \/ Rev(heads', x) = Rev(heads, x) + 1
      BY <1>4
    <3>2. Rev(heads, x) \in Nat
      BY <1>3
    <3> QED
      BY <3>1, <3>2
  <2>2. Total(heads') - Total(heads) = 1 /\ Total(heads) <= Total(heads')
    BY <1>3, <1>4
  <2> QED
    BY <2>1, <2>2
<1>6. Grown(heads, candidates, commits, heads', candidates', commits')
  <2>1. \A x \in commits' : x \in commits \/ Rev(heads, MemoryOf[x.insight]) <= x.base
    BY <1>3
  <2> QED
    BY <1>5, <2>1 DEF Grown
<1>7. \A y \in Memories : heads'[y] # None => heads'[y].revision > 0
  BY <1>3 DEF ReportInv, PromotionInv, CanonicalSound
<1>8. ASSUME NEW x \in commits'
      PROVE  TargetSound(x) /\ x.base < Rev(heads', MemoryOf[x.insight])
  <2>1. CASE x \in commits
    <3>1. TargetSound(x) /\ x.base < Rev(heads, MemoryOf[x.insight])
      BY <2>1 DEF ReportInv
    <3>2. MemoryOf[x.insight] \in Memories /\ x.base \in Nat
      BY <2>1, <3>1, PromotionAssumption DEF PromotionInv, CommitsSound, TargetSound
    <3>3. PICK y \in Memories : y = MemoryOf[x.insight]
      BY <3>2
    <3>4. Rev(heads, y) <= Rev(heads', y) /\ Rev(heads, y) \in Nat /\ Rev(heads', y) \in Nat
      BY <1>2, <1>3, <1>5, CountsType
    <3>5. x.base < Rev(heads', y)
      BY <3>1, <3>2, <3>3, <3>4
    <3> QED
      BY <3>1, <3>3, <3>5
  <2>2. CASE x \notin commits
    BY <1>3, <1>4, <2>2
  <2> QED
    BY <2>1, <2>2
<1> QED
  BY <1>2, <1>6, <1>7, <1>8

(* The plans, the records and what the promoters know, as rows are added.  *)
LEMMA GrownReport ==
  ASSUME PromotionInv, ReportInv, HeadsSound(heads'),
         Grown(heads, candidates, commits, heads', candidates', commits'),
         \A x \in commits' : TargetSound(x)
  PROVE  /\ \A plan : Foreseen(heads, commits, plan) => Foreseen(heads', commits', plan)
         /\ \A r : LinkSound(candidates, r) => LinkSound(candidates', r)
         /\ \A q \in Promoters : LinksSound(candidates', commits', process[q])
                                 /\ PlanSound(heads', commits', process[q])
<1>1. HeadsSound(heads)
  BY HeadsAreSound
<1>2. ASSUME NEW plan, Foreseen(heads, commits, plan) PROVE Foreseen(heads', commits', plan)
  BY <1>1, <1>2, ForeseenKeeps
<1>3. ASSUME NEW r, LinkSound(candidates, r) PROVE LinkSound(candidates', r)
  BY <1>3, LinkKeeps DEF Grown
<1>4. ASSUME NEW q \in Promoters
      PROVE  LinksSound(candidates', commits', process[q]) /\ PlanSound(heads', commits', process[q])
  <2>1. LinksSound(candidates, commits, process[q]) /\ PlanSound(heads, commits, process[q])
    BY DEF ReportInv
  <2> QED
    BY <1>1, <2>1, ReporterKeeps
<1> QED
  BY <1>2, <1>3, <1>4

(* A proposal whose status changes is otherwise what it was. *)
LEMMA StatusReport ==
  ASSUME PromotionInv, ReportInv, NEW c \in CandidateIds, candidates[c] # None,
         NEW status \in {"ACCEPTED", "CONFLICT"},
         candidates' = [candidates EXCEPT ![c].status = status]
  PROVE  /\ \A x \in CandidateIds : candidates[x] # None =>
              candidates'[x] # None /\ candidates'[x].insight = candidates[x].insight
         /\ \A x \in CandidateIds : candidates'[x] # None => TargetSound(candidates'[x])
<1>1. candidates[c] \in Proposals /\ candidates = [x \in CandidateIds |-> candidates[x]]
  BY DEF PromotionInv, CanonicalSound
<1>2. PICK row : row = [candidates[c] EXCEPT !.status = status]
  OBVIOUS
<1>3. /\ candidates'[c] = row /\ \A x \in CandidateIds : x # c => candidates'[x] = candidates[x]
  BY <1>1, <1>2
<1>4. row.insight = candidates[c].insight /\ row.op = candidates[c].op
      /\ row.base = candidates[c].base
  BY <1>1, <1>2 DEF Proposals
<1>5. row # None
  BY <1>1, <1>2, NoneAssumption DEF Proposals
<1>6. TargetSound(row)
  BY <1>1, <1>4, NoneAssumption DEF TargetSound, ReportInv
<1> QED
  BY <1>3, <1>4, <1>5, <1>6 DEF ReportInv

(* The candidate is committed, found committed, or refused. *)
LEMMA CommitReport ==
  ASSUME PromotionInv, PromotionInv', ReportInv, NEW p \in Promoters,
         Commit(p) \/ Replay(p) \/ Refused(p)
  PROVE  ReportInv'
<1> DEFINE st == process[p]
           c == st.record.candidate
           new == [st EXCEPT !.phase = "record"]
<1>1. /\ st = [f \in Fields |-> st[f]] /\ st.phase = "commit"
      /\ ProcessSound(records, insights, candidates, commits, st)
      /\ LinksSound(candidates, commits, st) /\ PlanSound(heads, commits, st)
      /\ st.insight \in Insights
      /\ records' = records /\ plans' = plans
  BY PromoterFacts DEF Commit, Replay, Refused, governed
<1>2. /\ new.phase = "record" /\ new.insight = st.insight /\ new.record = st.record
      /\ new.plan = st.plan /\ new.approval = st.approval /\ new.before = st.before
      /\ new.replay = st.replay
  BY <1>1 DEF Fields
<1>3. /\ c # None /\ LinkSound(candidates, st.record) /\ st.record.insight = st.insight
  BY <1>1 DEF ProcessSound, LinksSound, Recorded, Accepted
<1>4. c \in CandidateIds /\ candidates[c] # None /\ candidates[c].insight = st.insight
  BY <1>3 DEF LinkSound
<1>5. TargetSound(candidates[c])
  BY <1>4 DEF ReportInv
<1> HIDE DEF new
<1>6. ASSUME NEW cands, NEW coms, LinkSound(cands, st.record)
      PROVE  LinksSound(cands, coms, new)
  BY <1>2, <1>6 DEF LinksSound
<1>7. CASE Commit(p)
  <2>1. PICK cand, m, x, h :
          /\ cand = candidates[c] /\ m = MemoryOf[st.insight]
          /\ x = [key |-> st.key, insight |-> st.insight, candidate |-> c,
                  op |-> cand.op, base |-> cand.base]
          /\ h = [revision |-> cand.base + 1, status |-> "active", agrees |-> TRUE]
    OBVIOUS
  <2>2. /\ Committable(cand) /\ heads' = [heads EXCEPT ![m] = h]
        /\ commits' = commits \cup {x}
        /\ candidates' = [candidates EXCEPT ![c].status = "ACCEPTED"]
        /\ process' = [process EXCEPT ![p] = new]
    BY <1>7, <2>1 DEF Commit, Candidate, Goto, SetProcess, new
  <2>3. /\ cand.insight = st.insight /\ TargetSound(cand) /\ cand.base \in Nat
        /\ x.insight = st.insight /\ x.op = cand.op /\ x.base = cand.base
    BY <1>4, <1>5, <2>1 DEF TargetSound
  <2>4. Rev(heads, m) = cand.base
    BY <2>1, <2>2, <2>3 DEF Committable, Rev, TargetSound
  <2>5. m \in Memories /\ h \in Heads /\ h.revision = cand.base + 1
    <3>1. m \in Memories
      BY ONLY <1>1, <2>1, PromotionAssumption
    <3>2. cand.base + 1 \in Nat
      BY ONLY <2>3
    <3> QED
      BY ONLY <2>1, <3>1, <3>2 DEF Heads
  <2>6. /\ \A y \in CandidateIds : candidates[y] # None =>
             candidates'[y] # None /\ candidates'[y].insight = candidates[y].insight
        /\ \A y \in CandidateIds : candidates'[y] # None => TargetSound(candidates'[y])
    BY <1>4, <2>2, StatusReport
  <2>7. \A y \in commits' : y \in commits \/
          (TargetSound(y) /\ y.base = Rev(heads, m) /\ MemoryOf[y.insight] = m)
    BY <2>1, <2>2, <2>3, <2>4 DEF TargetSound
  <2>8. /\ Grown(heads, candidates, commits, heads', candidates', commits')
        /\ HeadsSound(heads')
        /\ \A y \in Memories : heads'[y] # None => heads'[y].revision > 0
        /\ \A y \in commits' : TargetSound(y) /\ y.base < Rev(heads', MemoryOf[y.insight])
    BY <2>2, <2>4, <2>5, <2>6, <2>7, RevisionAdded
  <2>9. /\ \A plan : Foreseen(heads, commits, plan) => Foreseen(heads', commits', plan)
        /\ \A r : LinkSound(candidates, r) => LinkSound(candidates', r)
        /\ PlanSound(heads', commits', st)
    BY <2>8, GrownReport
  <2>10. PlanSound(heads', commits', new)
    BY <1>1, <1>2, <2>9, PlanCarries DEF Held, Recorded, Accepted
  <2>11. LinksSound(candidates', commits', new)
    BY <1>3, <1>6, <2>9
  <2>12. /\ \A k \in Keys : records'[k] # None => LinkSound(candidates', records'[k])
         /\ \A a \in Planned : plans'[a] # None => Foreseen(heads', commits', plans'[a])
    BY <1>1, <2>9 DEF ReportInv
  <2> QED
    BY <2>2, <2>6, <2>8, <2>10, <2>11, <2>12, ReportStep
<1>8. CASE Replay(p)
  <2>1. UNCHANGED <<canonical, records, plans>> /\ process' = [process EXCEPT ![p] = new]
    BY <1>8 DEF Replay, Goto, SetProcess, new, governed
  <2>2. LinksSound(candidates, commits, new)
    BY <1>3, <1>6
  <2> QED
    BY <1>1, <1>2, <2>1, <2>2, HeldReport DEF Held, Recorded, Accepted
<1>9. CASE Refused(p)
  <2>1. /\ \/ candidates' = candidates
           \/ candidates' = [candidates EXCEPT ![c].status = "CONFLICT"]
        /\ heads' = heads /\ commits' = commits
        /\ process' = [process EXCEPT ![p] = Idle]
    BY <1>9 DEF Refused, Fail, SetProcess
  <2>2. /\ \A y \in CandidateIds : candidates[y] # None =>
             candidates'[y] # None /\ candidates'[y].insight = candidates[y].insight
        /\ \A y \in CandidateIds : candidates'[y] # None => TargetSound(candidates'[y])
    BY <1>4, <2>1, StatusReport DEF ReportInv
  <2>3. Grown(heads, candidates, commits, heads', candidates', commits')
    BY <2>1, <2>2, StillGrown
  <2>4. \A k \in Keys : records'[k] # None => LinkSound(candidates', records'[k])
    BY <1>1, <2>2, LinkKeeps DEF ReportInv
  <2>5. LinksSound(candidates', commits', Idle) /\ PlanSound(heads', commits', Idle)
    BY RestSound
  <2>6. /\ \A m \in Memories : heads'[m] # None => heads'[m].revision > 0
        /\ \A x \in commits' : TargetSound(x) /\ x.base < Rev(heads', MemoryOf[x.insight])
        /\ \A a \in Planned : plans'[a] # None => Foreseen(heads', commits', plans'[a])
    BY <1>1, <2>1 DEF ReportInv
  <2> QED
    BY <2>1, <2>2, <2>3, <2>4, <2>5, <2>6, ReportStep
<1> QED
  BY <1>7, <1>8, <1>9

(* Failures, other callers, and the passing of a plan's time. *)
LEMMA OutsideReport ==
  ASSUME PromotionInv, PromotionInv', ReportInv,
         \/ \E p \in Promoters : Break(p)
         \/ \E a \in Planned : Expire(a)
         \/ \E i \in Insights : LoseLock(i)
         \/ \E m \in Memories : OtherCommit(m)
         \/ UNCHANGED vars
  PROVE  ReportInv'
<1>1. ASSUME NEW p \in Promoters, Break(p) PROVE ReportInv'
  BY <1>1, EndReport DEF Break, Fail, SetProcess, governed
<1>2. ASSUME UNCHANGED <<canonical, records, process>>,
             \A a \in Planned : plans'[a] # None => Foreseen(heads, commits, plans'[a])
      PROVE  ReportInv'
  <2>1. /\ heads' = heads /\ commits' = commits /\ candidates' = candidates
        /\ records' = records /\ process' = process
    BY <1>2 DEF canonical
  <2> QED
    BY <1>2, <2>1 DEF ReportInv
<1>3. \A a \in Planned : plans[a] # None => Foreseen(heads, commits, plans[a])
  BY DEF ReportInv
<1>4. ASSUME NEW a \in Planned, Expire(a) PROVE ReportInv'
  <2>1. /\ UNCHANGED <<canonical, records, process>> /\ plans[a] # None
        /\ plans' = [plans EXCEPT ![a].live = FALSE]
    BY <1>4 DEF Expire, governed
  <2>2. PICK plan : plan = [plans[a] EXCEPT !.live = FALSE]
    OBVIOUS
  <2>3. plan.insight = plans[a].insight /\ plan.preflight = plans[a].preflight
    BY <2>2
  <2>4. Foreseen(heads, commits, plan)
    BY <1>3, <2>1, <2>3 DEF Foreseen
  <2>5. \A b \in Planned : plans'[b] = plans[b] \/ plans'[b] = plan
    BY <2>1, <2>2
  <2> QED
    BY <1>2, <1>3, <2>1, <2>4, <2>5
<1>5. ASSUME NEW i \in Insights, LoseLock(i) PROVE ReportInv'
  BY <1>2, <1>3, <1>5 DEF LoseLock, governed
<1>6. ASSUME NEW m \in Memories, OtherCommit(m) PROVE ReportInv'
  <2>1. /\ commits' = commits /\ candidates' = candidates /\ records' = records
        /\ plans' = plans /\ process' = process
    BY <1>6 DEF OtherCommit, governed
  <2>2. PICK agrees \in BOOLEAN, status \in {"active", "tombstoned"} :
          heads' = [heads EXCEPT ![m] =
                      [revision |-> IF heads[m] = None THEN 1 ELSE heads[m].revision + 1,
                       status |-> status, agrees |-> agrees]]
    BY <1>6 DEF OtherCommit
  <2>3. PICK n, h : n = Rev(heads, m) + 1
                    /\ h = [revision |-> n, status |-> status, agrees |-> agrees]
    OBVIOUS
  <2>4. n \in Nat
    BY <2>3, HeadsAreSound, CountsType
  <2>5. h \in Heads /\ h.revision = n
    BY <2>3, <2>4 DEF Heads
  <2>6. n = IF heads[m] = None THEN 1 ELSE heads[m].revision + 1
    BY <2>3 DEF Rev
  <2>7. heads' = [heads EXCEPT ![m] = h]
    BY <2>2, <2>3, <2>6
  <2>8. /\ Grown(heads, candidates, commits, heads', candidates', commits')
        /\ HeadsSound(heads')
        /\ \A y \in Memories : heads'[y] # None => heads'[y].revision > 0
        /\ \A y \in commits' : TargetSound(y) /\ y.base < Rev(heads', MemoryOf[y.insight])
    BY <2>1, <2>3, <2>5, <2>7, RevisionAdded
  <2>9. /\ \A plan : Foreseen(heads, commits, plan) => Foreseen(heads', commits', plan)
        /\ \A q \in Promoters : LinksSound(candidates', commits', process[q])
                                /\ PlanSound(heads', commits', process[q])
    BY <2>8, GrownReport
  <2> QED
    BY <1>3, <2>1, <2>8, <2>9 DEF ReportInv
<1>7. CASE UNCHANGED vars
  BY <1>2, <1>3, <1>7 DEF vars, canonical, governed
<1> QED
  BY <1>1, <1>4, <1>5, <1>6, <1>7

-----------------------------------------------------------------------------
(* At the start there is no plan, and every head has a first revision. *)
LEMMA InitReport == Init => ReportInv
<1> SUFFICES ASSUME Init PROVE ReportInv
  OBVIOUS
<1>1. /\ \A m \in Memories : heads[m] # None => heads[m].revision > 0
      /\ \A c \in CandidateIds : candidates[c] = None
      /\ \A k \in Keys : records[k] = None
      /\ commits = {} /\ \A a \in Planned : plans[a] = None
  BY DEF Init
<1>2. \A p \in Promoters : LinksSound(candidates, commits, process[p])
                           /\ PlanSound(heads, commits, process[p])
  BY RestSound DEF Init
<1> QED
  BY <1>1, <1>2 DEF ReportInv

(* What the operator reports as applied is the commit its plan describes,  *)
(* whatever commits, lost locks and other attempts came between the        *)
(* validation and the promotion: a commit's base is at least the plan's,   *)
(* and were it higher, the audit would have counted more than one          *)
(* revision.                                                               *)
THEOREM ReportsArePlanned == Spec => []ReportIsPlanned
<1>1. PromotionInv /\ PromotionInv' /\ ReportInv /\ [Next]_vars => ReportInv'
  <2> SUFFICES ASSUME PromotionInv, PromotionInv', ReportInv, [Next]_vars PROVE ReportInv'
    OBVIOUS
  <2>1. ASSUME NEW p \in Promoters, Promote(p) PROVE ReportInv'
    BY <2>1, ReadReport, PutReport, IngestReport, CommitReport DEF Promote
  <2> QED
    BY <2>1, OperateReport, BeginReport, ReadReport, OutsideReport DEF Next
<1>2. ReportInv => ReportIsPlanned
  BY DEF ReportInv, PlanSound, CommitOf, ReportIsPlanned
<1> QED
  BY <1>1, <1>2, InitReport, PromotionInvariance, PTL DEF Spec
=============================================================================

---------------------------- MODULE Distillation ----------------------------
(***************************************************************************)
(* TranscriptDistillationService: a run takes one source experience        *)
(* through ingestion, archive, provider and curation, then decides unit by *)
(* unit what becomes canonical, and closes the source's receipt.  Every    *)
(* await is the end of a step; a process may die at any of them and the    *)
(* source is then run again from the start.  Runs of other sources compete *)
(* for the same semantic keys, and other callers of the authority revise   *)
(* and forget memories meanwhile.                                          *)
(*                                                                         *)
(* The canonical side is what CanonicalAuthority promises: one memory per  *)
(* semantic key, so a memory is named by its key, and a commit is atomic.  *)
(* Texts stand for all that candidateSemanticFingerprint hashes besides    *)
(* the scope and the key.  Receipts and curation records are upserted as   *)
(* the PostgreSQL stores do it.                                            *)
(***************************************************************************)
EXTENDS Integers, FiniteSetsExt

CONSTANTS
  Sources,      \* source experiences, one receipt each
  Processes,    \* runs of the service that may be under way at once
  SourceOf,     \* the source each process works on
  UnitCount,    \* provider units of each source
  KeyOf,        \* the semantic key the DLMF policy gives a unit
  TextOf,       \* the text of a unit
  Policy,       \* the outcomes admission policy and curator may give a unit
  Refreshed,    \* sources for which PruneEligibilityService.refresh is called
  Vetoed,       \* candidate texts the governance rejects
  Mergeable,    \* <<unit text, canonical text>> that relate() lets merge
  Remediable,   \* units a reviewer has bound an invalid-candidate decision to
  SemanticKeys,
  Texts,
  CandidateIds, \* reused once nothing refers to them
  MaxSemanticAttempts,
  MaxRevision,  \* bound on what other callers commit
  Deployments,  \* which processes there are, and how many faults they meet
  None

Units == UNION {{s} \X (1 .. UnitCount[s]) : s \in Sources}

Outcomes == {"supporting_evidence_only", "rejected", "pending_review",
             "canonical_candidate", "canonical_merge"}
Stages == <<"pending", "ingested", "archived", "distilled", "curated">>

ASSUME UnitsAssumption ==
  /\ UnitCount \in [Sources -> Nat]
  /\ SourceOf \in [Processes -> Sources]
  /\ KeyOf \in [Units -> SemanticKeys] /\ TextOf \in [Units -> Texts]
  /\ Policy \in [Units -> SUBSET (Outcomes \ {"canonical_merge"})]
  /\ Refreshed \subseteq Sources /\ Vetoed \subseteq Texts /\ Mergeable \subseteq Texts \X Texts
  /\ Remediable \subseteq Units
  /\ MaxSemanticAttempts \in Nat \ {0}
  /\ Deployments \subseteq [running : SUBSET Processes, faults : Nat]

Statuses == {"pending", "ingested", "archived", "distilled", "curated", "canonicalized",
             "complete", "awaiting_review", "failed"}

DistillationReceipts ==
  [status : Statuses, archived : BOOLEAN, covered : BOOLEAN, admitted : BOOLEAN,
   outcome : {"pending", "pending_review", "committed", "superseded", "rejected",
              "no_memory_worthy_content"},
   counts : [Outcomes -> Nat], memories : SUBSET SemanticKeys, prune : BOOLEAN]

CurationRecord ==
  [outcome : Outcomes, cand : CandidateIds \cup {None}, memory : SemanticKeys \cup {None}]

Heads == [revision : Nat \ {0}, status : {"active", "tombstoned"}, text : Texts]

Candidates ==
  [op : {"create", "merge"}, text : Texts,
   status : {"PENDING", "ACCEPTED", "REJECTED", "CONFLICT"}]

ASSUME NoneAssumption ==
  None \notin CandidateIds \cup SemanticKeys \cup CurationRecord \cup DistillationReceipts
              \cup Heads \cup Candidates

VARIABLES
  heads,       \* the memory of each semantic key, with its current text
  commits,     \* what this service committed, by idempotency key
  candidates,  \* memory_candidates
  records,     \* memory_curation_records, one per unit
  receipts,    \* memory_distillation_receipts, one per source
  process,     \* what each process is doing
  refresh,     \* PruneEligibilityService.refresh under way
  faults       \* crashes and transient failures still to come

store == <<heads, commits, candidates, records, receipts>>
vars == <<store, process, refresh, faults>>

NoCounts == [o \in Outcomes |-> 0]
Total(counts) == MapThenSumSet(LAMBDA o : counts[o], Outcomes)

NewReceipt ==
  [status |-> "pending", archived |-> FALSE, covered |-> FALSE, admitted |-> FALSE,
   outcome |-> "pending", counts |-> NoCounts, memories |-> {}, prune |-> FALSE]

(* A run's own variables: receipt is its copy, counts and duplicates are   *)
(* outcomeCounts and exactDuplicates, prior is what listByReceipt said;    *)
(* from decision on they belong to the unit in hand.                       *)
Idle == [phase |-> "idle", receipt |-> NewReceipt, stage |-> 0, unit |-> 0,
         counts |-> NoCounts, duplicates |-> 0, prior |-> << >>, decision |-> None,
         op |-> None, base |-> 0, text |-> None, cand |-> None, previous |-> None,
         memory |-> None, attempt |-> 0]
Absent == [Idle EXCEPT !.phase = "absent"]

Init ==
  /\ heads = [k \in SemanticKeys |-> None]
  /\ commits = {}
  /\ candidates = [c \in CandidateIds |-> None]
  /\ records = [u \in Units |-> None]
  /\ receipts = [s \in Sources |-> None]
  /\ refresh = None
  /\ \E d \in Deployments :
       /\ process = [p \in Processes |-> IF p \in d.running THEN Idle ELSE Absent]
       /\ faults = d.faults

SetProcess(p, st) == process' = [process EXCEPT ![p] = st]
Unit(p) == <<SourceOf[p], process[p].unit>>
Key(p) == KeyOf[Unit(p)]

-----------------------------------------------------------------------------
(* The stores. *)

(* ON CONFLICT DO UPDATE of memory_distillation_receipts: a complete       *)
(* receipt only ever changes its status to awaiting_review, memory ids     *)
(* accumulate, a superseded run does not replace what a committed one      *)
(* counted, and everything else is taken from the new value.               *)
UpsertReceipt(old, new) ==
  IF old = None THEN new
  ELSE LET keep == old.outcome = "committed" /\ new.outcome = "superseded"
           counted == IF keep THEN old ELSE new
       IN [new EXCEPT
            !.status = IF old.status = "complete" /\ @ # "awaiting_review"
                       THEN "complete" ELSE @,
            !.memories = @ \cup old.memories,
            !.outcome = counted.outcome, !.counts = counted.counts,
            !.covered = counted.covered, !.admitted = counted.admitted]

PutReceipt(p, rec) ==
  receipts' = [receipts EXCEPT ![SourceOf[p]] = UpsertReceipt(@, rec)]

(* Mutant: the last writer of a curation record wins. *)
UpsertRecordBlind(old, new) == new

(* ON CONFLICT DO UPDATE of memory_curation_records: a record that names a *)
(* memory is only replaced by one that does, a candidate id is kept until  *)
(* there is another.                                                       *)
UpsertRecord(old, new) ==
  IF old # None /\ old.memory # None /\ new.memory = None THEN old
  ELSE [new EXCEPT !.cand = IF @ = None /\ old # None THEN old.cand ELSE @]

PutRecord(p, outcome, cand, memory) ==
  records' = [records EXCEPT ![Unit(p)] =
    UpsertRecord(@, [outcome |-> outcome, cand |-> cand, memory |-> memory])]

(* curationRecordBacksCanonicalAdmission *)
Backs(record, c) ==
  /\ record # None
  /\ record.cand = c
  /\ record.outcome =
       IF candidates[c].op = "merge" THEN "canonical_merge" ELSE "canonical_candidate"

SetStatus(c, status) == [candidates EXCEPT ![c].status = status]

(* A candidate id that nothing refers to. *)
Unused(c) ==
  /\ \A u \in Units : records[u] # None => records[u].cand # c
  /\ \A x \in commits : x.cand # c
  /\ \A p \in Processes : process[p].cand # c /\ process[p].previous # c

-----------------------------------------------------------------------------
Closed(receipt) == receipt # None /\ receipt.status \in {"complete", "awaiting_review"}

(* The outcome of a run that throws: the receipt says failed. *)
Fail(p) ==
  /\ PutReceipt(p, [process[p].receipt EXCEPT !.status = "failed", !.admitted = FALSE,
                                              !.prune = FALSE])
  /\ SetProcess(p, Idle)

(* run(): a closed receipt is returned as it is, any other is reopened. *)
Start(p) ==
  LET old == receipts[SourceOf[p]] IN
  /\ process[p].phase = "idle"
  /\ ~Closed(old)
  /\ SetProcess(p, [Idle EXCEPT !.phase = "stages", !.receipt =
       IF old = None THEN NewReceipt
       ELSE [old EXCEPT !.status = "pending", !.covered = FALSE, !.admitted = FALSE,
                        !.prune = FALSE]])
  /\ UNCHANGED <<store, refresh, faults>>

(* Ingestion, archive, provider and curation, each closed by a put. *)
Advance(p) ==
  LET n == process[p].stage + 1
      rec == [process[p].receipt EXCEPT !.status = Stages[n],
                                        !.archived = @ \/ n >= 3,
                                        !.covered = @ \/ n = 5]
  IN
  /\ process[p].phase = "stages" /\ process[p].stage < 5
  /\ PutReceipt(p, rec)
  /\ SetProcess(p, [process[p] EXCEPT !.stage = n, !.receipt = rec])
  /\ UNCHANGED <<heads, commits, candidates, records, refresh, faults>>

(* One of the awaits after the first put throws: a store, the archive, the *)
(* provider, the curator or the review queue.                              *)
Throws(p) ==
  /\ process[p].phase \notin {"idle", "absent"} /\ process[p].stage > 0
  /\ faults > 0 /\ faults' = faults - 1
  /\ Fail(p)
  /\ UNCHANGED <<heads, commits, candidates, records, refresh>>

(* listByReceipt, before the first unit. *)
ListRecords(p) ==
  /\ process[p].phase = "stages" /\ process[p].stage = 5
  /\ SetProcess(p, [process[p] EXCEPT !.phase = "unit", !.unit = 1,
       !.prior = [i \in 1 .. UnitCount[SourceOf[p]] |-> records[<<SourceOf[p], i>>]]])
  /\ UNCHANGED <<store, refresh, faults>>

AtUnit(p) ==
  process[p].phase = "unit" /\ process[p].unit <= UnitCount[SourceOf[p]]

(* The outcome is counted and the loop goes on. *)
NextUnit(st, outcome) ==
  [Idle EXCEPT !.phase = "unit", !.stage = 5, !.unit = st.unit + 1, !.prior = st.prior,
     !.receipt = st.receipt, !.duplicates = st.duplicates,
     !.counts = [st.counts EXCEPT ![outcome] = @ + 1]]

Canonicalized(record) == record # None /\ record.memory # None

(* A unit whose record names a memory is taken as done, if its candidate   *)
(* was accepted and is still backed by the record.                         *)
Reusable(p, record) ==
  /\ record.cand # None
  /\ record.outcome \in {"canonical_candidate", "canonical_merge"}
  /\ candidates[record.cand].status = "ACCEPTED"
  /\ Backs(records[Unit(p)], record.cand)
  /\ heads[record.memory] # None

(* Mutant: a reused unit is counted, its memory left out of the receipt. *)
ReuseUnitForgets(p) ==
  LET st == process[p]
      old == st.prior[st.unit]
  IN
  /\ AtUnit(p) /\ Canonicalized(old)
  /\ IF Reusable(p, old)
     THEN SetProcess(p, NextUnit(st, old.outcome)) /\ UNCHANGED receipts
     ELSE Fail(p)
  /\ UNCHANGED <<heads, commits, candidates, records, refresh, faults>>

ReuseUnit(p) ==
  LET st == process[p]
      old == st.prior[st.unit]
  IN
  /\ AtUnit(p) /\ Canonicalized(old)
  /\ IF Reusable(p, old)
     THEN /\ SetProcess(p, NextUnit([st EXCEPT !.receipt.memories = @ \cup {old.memory}],
                                    old.outcome))
          /\ UNCHANGED receipts
     ELSE Fail(p)
  /\ UNCHANGED <<heads, commits, candidates, records, refresh, faults>>

(* The policies, each as the answers it may give: the admission policy on   *)
(* the curator's proposal, the governance on a candidate, relate() on the  *)
(* unit and the memory of its key (TRUE unless contradicts or unrelated).  *)
AdmissionOutcomes(u) == Policy[u]
Rejects(text) == text \in Vetoed
Relates(text, current) == <<text, current>> \in Mergeable

(* configureMerge on the memory found for the unit's key, or the outcomes  *)
(* that leave the canonical side alone; the result is a process about to   *)
(* put a precanonical record, or about to settle the unit.                 *)
Target(st, text, head) ==
  IF head.status = "tombstoned"
    THEN [st EXCEPT !.phase = "settle", !.decision = "supporting_evidence_only",
                    !.duplicates = @ + 1]
  ELSE IF ~Relates(text, head.text)
    THEN [st EXCEPT !.phase = "settle", !.decision = "pending_review"]
  ELSE [st EXCEPT !.phase = "record", !.decision = "canonical_merge", !.op = "merge",
                  !.base = head.revision, !.text = head.text]

(* Admission, and for a canonical candidate the lookup of the memory. *)
DecideUnit(p) ==
  LET st == process[p] IN
  /\ AtUnit(p) /\ ~Canonicalized(st.prior[st.unit])
  /\ \E d \in AdmissionOutcomes(Unit(p)) :
       SetProcess(p,
         IF d # "canonical_candidate" THEN [st EXCEPT !.phase = "settle", !.decision = d]
         ELSE IF heads[Key(p)] = None
           THEN [st EXCEPT !.phase = "record", !.decision = d, !.op = "create",
                           !.text = TextOf[Unit(p)], !.attempt = 1]
         ELSE Target([st EXCEPT !.attempt = 1], TextOf[Unit(p)], heads[Key(p)]))
  /\ UNCHANGED <<store, refresh, faults>>

(* The record before the candidate, *)
Record(p) ==
  /\ process[p].phase = "record"
  /\ PutRecord(p, process[p].decision, None, None)
  /\ SetProcess(p, [process[p] EXCEPT !.phase = "ingest"])
  /\ UNCHANGED <<heads, commits, candidates, receipts, refresh, faults>>

(* the candidate, under an id that nothing refers to (CandidateIds bounds  *)
(* how many are in use at once),                                           *)
Ingest(p) ==
  LET c == CHOOSE d \in CandidateIds : Unused(d) IN
  /\ process[p].phase = "ingest" /\ \E d \in CandidateIds : Unused(d)
  /\ candidates' = [d \in CandidateIds |->
       IF d = c THEN [op |-> process[p].op, text |-> process[p].text, status |-> "PENDING"]
       ELSE IF Unused(d) THEN None ELSE candidates[d]]
  /\ SetProcess(p, [process[p] EXCEPT !.phase = "bind", !.cand = c])
  /\ UNCHANGED <<heads, commits, records, receipts, refresh, faults>>

(* and the record again, now naming it. *)
Bind(p) ==
  /\ process[p].phase = "bind"
  /\ PutRecord(p, process[p].decision, process[p].cand, None)
  /\ SetProcess(p, [process[p] EXCEPT !.phase = "govern"])
  /\ UNCHANGED <<heads, commits, candidates, receipts, refresh, faults>>

(* The governance rejects the candidate, *)
Veto(p) ==
  /\ process[p].phase = "govern" /\ Rejects(process[p].text)
  /\ candidates' = SetStatus(process[p].cand, "REJECTED")
  /\ SetProcess(p, [process[p] EXCEPT !.phase = "settle", !.decision = "rejected"])
  /\ UNCHANGED <<heads, commits, records, receipts, refresh, faults>>

(* or it goes to the authority, whose first phase asks for the record. *)
VerifyAdmission(p) ==
  /\ process[p].phase = "govern" /\ ~Rejects(process[p].text)
  /\ IF Backs(records[Unit(p)], process[p].cand)
     THEN SetProcess(p, [process[p] EXCEPT !.phase = "commit"]) /\ UNCHANGED receipts
     ELSE Fail(p)
  /\ UNCHANGED <<heads, commits, candidates, records, refresh, faults>>

(* The idempotency key of a commit: receipt, unit, fingerprint, operation. *)
SameKey(p, x) ==
  x.unit = Unit(p) /\ x.text = process[p].text /\ x.op = process[p].op

KeyUsed(p) == \E x \in commits : SameKey(p, x)

(* putHead or the optimistic revision check says no. *)
Collides(p) ==
  IF process[p].op = "create" THEN heads[Key(p)] # None
  ELSE heads[Key(p)].revision # process[p].base

(* Mutant: the candidate stays as it was. *)
CommitUnitLeavesCandidate(p) ==
  LET st == process[p]
      n == st.base + 1
  IN
  /\ st.phase = "commit" /\ ~KeyUsed(p) /\ ~Collides(p)
  /\ heads' = [heads EXCEPT ![Key(p)] =
                 [revision |-> n, status |-> "active", text |-> st.text]]
  /\ commits' = commits \cup {[unit |-> Unit(p), text |-> st.text, op |-> st.op,
                               cand |-> st.cand, memory |-> Key(p)]}
  /\ SetProcess(p, [st EXCEPT !.phase = "settle", !.memory = Key(p),
                              !.receipt.memories = @ \cup {Key(p)}])
  /\ UNCHANGED <<candidates, records, receipts, refresh, faults>>

(* The authority's commit, and the memory noted in the receipt at hand. *)
CommitUnit(p) ==
  LET st == process[p]
      n == st.base + 1
  IN
  /\ st.phase = "commit" /\ ~KeyUsed(p) /\ ~Collides(p)
  /\ heads' = [heads EXCEPT ![Key(p)] =
                 [revision |-> n, status |-> "active", text |-> st.text]]
  /\ commits' = commits \cup {[unit |-> Unit(p), text |-> st.text, op |-> st.op,
                               cand |-> st.cand, memory |-> Key(p)]}
  /\ candidates' = SetStatus(st.cand, "ACCEPTED")
  /\ SetProcess(p, [st EXCEPT !.phase = "settle", !.memory = Key(p),
                              !.receipt.memories = @ \cup {Key(p)}])
  /\ UNCHANGED <<records, receipts, refresh, faults>>

(* The key was used by the candidate of an earlier attempt. *)
CommitRefused(p) ==
  /\ process[p].phase = "commit" /\ KeyUsed(p)
  /\ Fail(p)
  /\ UNCHANGED <<heads, commits, candidates, records, refresh, faults>>

(* SemanticIdentityConflictError leaves the candidate alone, the           *)
(* RevisionConflictError of the authority has closed it.                   *)
CommitCollides(p) ==
  /\ process[p].phase = "commit" /\ ~KeyUsed(p) /\ Collides(p)
  /\ candidates' = IF process[p].op = "merge" THEN SetStatus(process[p].cand, "CONFLICT")
                   ELSE candidates
  /\ SetProcess(p, [process[p] EXCEPT !.phase = "refused"])
  /\ UNCHANGED <<heads, commits, records, receipts, refresh, faults>>

(* The service closes the superseded candidate in either case. *)
Supersede(p) ==
  /\ process[p].phase = "refused"
  /\ candidates' = SetStatus(process[p].cand, "CONFLICT")
  /\ SetProcess(p, [process[p] EXCEPT !.phase = "collided"])
  /\ UNCHANGED <<heads, commits, records, receipts, refresh, faults>>

(* The bounded retry against the memory that won. *)
Retry(p) ==
  LET st == process[p] IN
  /\ st.phase = "collided"
  /\ IF st.attempt = MaxSemanticAttempts THEN Fail(p)
     ELSE /\ SetProcess(p, Target([st EXCEPT !.attempt = @ + 1, !.previous = st.cand],
                                  TextOf[Unit(p)], heads[Key(p)]))
          /\ UNCHANGED receipts
  /\ UNCHANGED <<heads, commits, candidates, records, refresh, faults>>

(* resolveInvalidCandidate: a unit that would go to review because of the  *)
(* memory it met may be bound to a decision that rejects it.  A binding is *)
(* of one memory and relation; whether it fits is left open.               *)
Remediate(p) ==
  LET st == process[p] IN
  /\ st.phase = "settle" /\ st.decision = "pending_review" /\ st.attempt > 0
  /\ Unit(p) \in Remediable
  /\ IF st.cand # None THEN Fail(p)
     ELSE SetProcess(p, [st EXCEPT !.decision = "rejected"]) /\ UNCHANGED receipts
  /\ UNCHANGED <<heads, commits, candidates, records, refresh, faults>>

(* The final record of the unit; a unit for review is also enqueued. *)
Settle(p) ==
  LET st == process[p] IN
  /\ st.phase = "settle"
  /\ PutRecord(p, st.decision, st.cand, st.memory)
  /\ SetProcess(p, NextUnit(st, st.decision))
  /\ UNCHANGED <<heads, commits, candidates, receipts, refresh, faults>>

(* canonicalizationOutcome *)
Outcome(st, units) ==
  IF st.counts["pending_review"] > 0 THEN "pending_review"
  ELSE IF st.receipt.memories # {} THEN "committed"
  ELSE IF st.duplicates > 0 /\ st.counts["supporting_evidence_only"] = units THEN "superseded"
  ELSE IF units > 0 /\ st.counts["rejected"] = units THEN "rejected"
  ELSE "no_memory_worthy_content"

(* The receipt with its counts; then, in a put of its own, closed. *)
Canonicalize(p) ==
  LET st == process[p]
      units == UnitCount[SourceOf[p]]
      covered == st.receipt.covered /\ Total(st.counts) = units
      rec == [st.receipt EXCEPT
        !.status = "canonicalized", !.counts = st.counts, !.covered = covered,
        !.admitted = covered /\ st.counts["pending_review"] = 0,
        !.outcome = Outcome(st, units)]
  IN
  /\ st.phase = "unit" /\ st.unit > units
  /\ PutReceipt(p, rec)
  /\ SetProcess(p, [Idle EXCEPT !.phase = "close", !.stage = 5, !.receipt = rec])
  /\ UNCHANGED <<heads, commits, candidates, records, refresh, faults>>

ClosingStatus(rec) == IF rec.admitted THEN "complete" ELSE "awaiting_review"

Close(p) ==
  LET rec == [process[p].receipt EXCEPT !.prune = FALSE,
                !.status = ClosingStatus(process[p].receipt)] IN
  /\ process[p].phase = "close"
  /\ PutReceipt(p, rec)
  /\ SetProcess(p, [process[p] EXCEPT !.phase = "closed", !.receipt = rec])
  /\ UNCHANGED <<heads, commits, candidates, records, refresh, faults>>

(* The receipt is read once more to be returned. *)
Return(p) ==
  /\ process[p].phase = "closed"
  /\ SetProcess(p, Idle)
  /\ UNCHANGED <<store, refresh, faults>>

Crash(p) ==
  /\ process[p].phase \notin {"idle", "absent"}
  /\ faults > 0 /\ faults' = faults - 1
  /\ SetProcess(p, Idle)
  /\ UNCHANGED <<store, refresh>>

-----------------------------------------------------------------------------
(* Other callers of the authority: create, update, tombstone, restore. *)
OtherCommit(k) ==
  LET h == heads[k] IN
  /\ \/ h = None /\ \E t \in Texts :
          heads' = [heads EXCEPT ![k] = [revision |-> 1, status |-> "active", text |-> t]]
     \/ /\ h # None /\ h.revision < MaxRevision
        /\ \E t \in Texts, status \in {"active", "tombstoned"} :
             /\ t = h.text \/ (h.status = "active" /\ status = "active")
             /\ h.status = "tombstoned" => status = "active"
             /\ heads' = [heads EXCEPT ![k] =
                            [revision |-> h.revision + 1, status |-> status, text |-> t]]
  /\ UNCHANGED <<commits, candidates, records, receipts, process, refresh, faults>>

-----------------------------------------------------------------------------
(* PruneEligibilityService *)

(* Mutant: a receipt may be evaluated before it is closed. *)
EligibleUnclosed(s, rec) ==
  /\ rec.outcome \notin {"pending", "pending_review"}
  /\ rec.archived /\ rec.covered /\ rec.admitted
  /\ Total(rec.counts) = UnitCount[s] /\ rec.counts["pending_review"] = 0

(* PreservationCompleteRetentionPolicy; the archive verifies. *)
Eligible(s, rec) ==
  /\ rec.status = "complete"
  /\ rec.outcome \notin {"pending", "pending_review"}
  /\ rec.archived /\ rec.covered /\ rec.admitted
  /\ Total(rec.counts) = UnitCount[s] /\ rec.counts["pending_review"] = 0

(* refresh decides on one reading of the receipt, *)
Evaluate(s) ==
  /\ refresh = None /\ receipts[s] # None
  /\ refresh' = [source |-> s, eligible |-> Eligible(s, receipts[s]), receipt |-> None]
  /\ UNCHANGED <<store, process, faults>>

(* reads it again, *)
Reread ==
  /\ refresh # None /\ refresh.receipt = None
  /\ refresh' = [refresh EXCEPT !.receipt = receipts[refresh.source]]
  /\ UNCHANGED <<store, process, faults>>

(* and puts the whole of that reading back with the decision. *)
WritePrune ==
  /\ refresh # None /\ refresh.receipt # None
  /\ receipts' = [receipts EXCEPT ![refresh.source] =
       UpsertReceipt(@, [refresh.receipt EXCEPT !.prune = refresh.eligible])]
  /\ refresh' = None
  /\ UNCHANGED <<heads, commits, candidates, records, process, faults>>

-----------------------------------------------------------------------------
Run(p) ==
  \/ Start(p) \/ Advance(p) \/ ListRecords(p) \/ ReuseUnit(p) \/ DecideUnit(p)
  \/ Record(p) \/ Ingest(p) \/ Bind(p) \/ Veto(p) \/ VerifyAdmission(p)
  \/ CommitUnit(p) \/ CommitRefused(p) \/ CommitCollides(p) \/ Supersede(p)
  \/ Retry(p) \/ Remediate(p) \/ Settle(p) \/ Canonicalize(p) \/ Close(p) \/ Return(p)

Next ==
  \/ \E p \in Processes : Run(p) \/ Throws(p) \/ Crash(p)
  \/ \E k \in SemanticKeys : OtherCommit(k)
  \/ \E s \in Refreshed : Evaluate(s)
  \/ Reread \/ WritePrune

Spec == Init /\ [][Next]_vars

(* The caller runs a source again until its receipt is closed. *)
FairSpec == Spec /\ \A p \in Processes : WF_vars(Run(p))

-----------------------------------------------------------------------------
(* Type invariant: rows have the shapes of their tables, and no receipt     *)
(* counts more than the units of its source.                               *)
TypeOK ==
  /\ heads \in [SemanticKeys -> Heads \cup {None}]
  /\ records \in [Units -> CurationRecord \cup {None}]
  /\ receipts \in [Sources -> DistillationReceipts \cup {None}]
  /\ \A s \in Sources : receipts[s] # None =>
       \A o \in Outcomes : receipts[s].counts[o] <= UnitCount[s]
  /\ candidates \in [CandidateIds -> Candidates \cup {None}]
  /\ faults \in Nat

(* A curation record that names a memory names the accepted candidate that *)
(* committed it, and still backs that candidate's admission: the record a  *)
(* later run relies on to skip the unit is true.  And "every superseded    *)
(* candidate reaches a terminal state for either retryable collision       *)
(* class": what a retry replaced is not left PENDING.                      *)
RecordsBound ==
  /\ \A u \in Units : Canonicalized(records[u]) =>
       LET r == records[u] IN
       /\ r.cand # None /\ candidates[r.cand].status = "ACCEPTED" /\ Backs(r, r.cand)
       /\ \E x \in commits : x.unit = u /\ x.cand = r.cand /\ x.memory = r.memory
  /\ \A p \in Processes :
       process[p].previous # None => candidates[process[p].previous].status = "CONFLICT"

(* A memory once recorded for a unit stays recorded, whatever a slower run *)
(* of the same source still puts: later runs skip the unit for good.       *)
MemoryStaysRecorded ==
  [][\A u \in Units : Canonicalized(records[u]) => Canonicalized(records'[u])]_vars

(* A unit is settled when its record is final: a memory where the outcome  *)
(* is canonical, and nothing left for a reviewer.                          *)
Settled(u) ==
  /\ records[u] # None /\ records[u].outcome # "pending_review"
  /\ records[u].outcome \in {"canonical_candidate", "canonical_merge"}
       => records[u].memory # None

(* A source that one process at a time runs. *)
OneHost(s) ==
  \A p, q \in Processes :
    SourceOf[p] = s /\ SourceOf[q] = s /\ p # q => process[p].phase = "absent"

(* A complete receipt, which no run ever opens again, leaves no unit of    *)
(* its source undecided; and the raw source may be pruned only when it was *)
(* archived and its receipt is complete, although refresh evaluates and    *)
(* writes on different readings while runs go on.                          *)
PrunableIsPreserved ==
  \A s \in {t \in Sources : OneHost(t) /\ receipts[t] # None} :
    /\ receipts[s].status = "complete" => \A i \in 1 .. UnitCount[s] : Settled(<<s, i>>)
    /\ receipts[s].prune => receipts[s].status = "complete" /\ receipts[s].archived

(* The memories a receipt lists were committed for its own source, and     *)
(* once it is complete it lists every memory its records name.             *)
ReceiptTruth ==
  \A s \in {t \in Sources : OneHost(t) /\ receipts[t] # None} :
    /\ \A k \in receipts[s].memories : \E x \in commits : x.unit[1] = s /\ x.memory = k
    /\ receipts[s].status = "complete" =>
         \A i \in 1 .. UnitCount[s] :
           Canonicalized(records[<<s, i>>]) => records[<<s, i>>].memory \in receipts[s].memories

(* A source that was started comes to a closed receipt, run again as often *)
(* as it takes: partial canonicalization is resumable.                     *)
Resumable ==
  \A s \in Sources : receipts[s] # None ~> Closed(receipts[s])
=============================================================================

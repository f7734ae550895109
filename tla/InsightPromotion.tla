-------------------------- MODULE InsightPromotion --------------------------
(***************************************************************************)
(* ReflectiveInsightPromotionService and InsightPromotionOperator: an      *)
(* insight a provider derived becomes a canonical memory when a reviewer   *)
(* approves it.  A promotion writes its record, the insight, a candidate,  *)
(* the record, the canonical commit and the record again; nothing spans    *)
(* these writes but a lock on the insight, which is held by a database     *)
(* connection of its own and may be lost while the work goes on.  An await *)
(* ends a step; only the reads of one preflight are taken together, for    *)
(* the promotion looks again before it writes.                             *)
(*                                                                         *)
(* The canonical side is what CanonicalAuthority promises: one memory per  *)
(* semantic key, so a memory is named by its key, and a commit is atomic.  *)
(* The record store is the PostgreSQL one with its triggers.               *)
(***************************************************************************)
EXTENDS Integers, FiniteSetsExt

CONSTANTS
  Insights,      \* reflective insights of one scope
  Eligible,      \* those the promotion gate lets pass
  MemoryOf,      \* the memory (semantic key) an insight is about
  SupportOf,     \* the memory that supports it
  Memories,
  Promoters,     \* processes that call the service or run the operator
  Approvals,     \* reviewer and evidence a request presents
  Planned,       \* approvals that are manifests sealed to an operator's plan
  Authentic,     \* approvals the service callers' verifier accepts
  Requests,      \* <<approval, insight, idempotency key>> that are made
  Keys,          \* idempotency keys; a key determines its promotion id
  Stamps,        \* creation times
  CandidateIds,  \* numbered in the order of their ingestion
  MaxOthers,     \* bound on the commits of other callers
  MaxFaults,     \* bound on crashes, errors and lost locks
  None

(* The rows of insight_promotion_records and, of promotions alone, those   *)
(* of memory_candidates and of the heads of memories.                      *)
Records ==
  [insight : Insights, approval : Approvals, created : Stamps,
   status : {"approved", "committed", "rejected"},
   candidate : CandidateIds \cup {None}, memory : Memories \cup {None}]
Proposals ==
  [insight : Insights, op : {"create", "merge"}, base : Nat,
   status : {"PENDING", "ACCEPTED", "CONFLICT"}]
Heads == [revision : Nat, status : {"active", "tombstoned"}, agrees : BOOLEAN]

ASSUME PromotionAssumption ==
  /\ Eligible \subseteq Insights
  /\ MemoryOf \in [Insights -> Memories] /\ SupportOf \in [Insights -> Memories]
  /\ IsFiniteSet(Memories)
  /\ Planned \subseteq Approvals /\ Authentic \subseteq Approvals
  /\ Requests \subseteq Approvals \X Insights \X Keys
  /\ MaxOthers \in Nat /\ CandidateIds \subseteq Nat /\ MaxFaults \in Nat
ASSUME NoneAssumption ==
  None \notin Promoters \cup CandidateIds \cup Records \cup Proposals \cup Heads

VARIABLES
  heads,       \* memories: revision, status, and whether their text agrees
  commits,     \* the canonical commits of promotions
  candidates,  \* memory_candidates of promotions
  insights,    \* reflective_insights.status
  records,     \* insight_promotion_records by idempotency key
  events,      \* insight_promotion_events
  locks,       \* who holds the advisory lock of an insight
  plans,       \* the operator's plan a manifest is sealed to
  process,     \* what each promoter is doing
  faults,
  others       \* commits of other callers so far

canonical == <<heads, commits, candidates, others>>
governed == <<insights, records, events>>
vars == <<canonical, governed, locks, plans, process, faults>>

(* A promoter's own variables: plan, before and replay are the operator's. *)
Idle == [phase |-> "idle", approval |-> None, insight |-> None, key |-> None, plan |-> None,
         before |-> None, replay |-> FALSE, prior |-> None, record |-> None,
         op |-> None, base |-> 0]

Init ==
  /\ heads = [m \in Memories |->
                IF \E i \in Insights : SupportOf[i] = m
                  THEN [revision |-> 1, status |-> "active", agrees |-> TRUE]
                  ELSE None]
  /\ commits = {}
  /\ candidates = [c \in CandidateIds |-> None]
  /\ insights = [i \in Insights |-> "pending"]
  /\ records = [k \in Keys |-> None]
  /\ events = {}
  /\ locks = [i \in Insights |-> None]
  /\ plans = [a \in Planned |-> None]
  /\ process = [p \in Promoters |-> Idle]
  /\ faults = 0 /\ others = 0

SetProcess(p, st) == process' = [process EXCEPT ![p] = st]
Goto(p, phase) == SetProcess(p, [process[p] EXCEPT !.phase = phase])
Approval(p) == process[p].approval

(* withInsightLock, finally: the lock goes whatever the work came to. *)
Unlock(p) ==
  locks' = [i \in Insights |-> IF locks[i] = p THEN None ELSE locks[i]]

(* An exception on the way. *)
Fail(p) == SetProcess(p, Idle) /\ Unlock(p)

-----------------------------------------------------------------------------
(* The record store. *)

RecordOf(i) == {k \in Keys : records[k] # None /\ records[k].insight = i}

(* Mutant: insight_id is not unique. *)
PutAllowedTwice(k, new) ==
  LET old == records[k] IN
  old # None =>
    /\ old.insight = new.insight /\ old.approval = new.approval
    /\ old.created = new.created
    /\ old.status = new.status \/ (old.status = "approved" /\ new.status = "committed")
    /\ old.candidate \in {None, new.candidate}
    /\ old.memory \in {None, new.memory}

(* Mutant: a candidate link may be replaced. *)
PutAllowedRelink(k, new) ==
  LET old == records[k] IN
  IF old = None THEN RecordOf(new.insight) = {}
  ELSE /\ old.insight = new.insight /\ old.approval = new.approval
       /\ old.created = new.created
       /\ old.status = new.status \/ (old.status = "approved" /\ new.status = "committed")
       /\ old.memory \in {None, new.memory}

(* What ON CONFLICT DO UPDATE ... WHERE, the unique index on insight_id    *)
(* and the transition trigger let through: immutable fields stay, the      *)
(* status goes from approved to committed only, links are not replaced.    *)
(* The trigger also refuses an update time that goes back, between hosts   *)
(* whose clocks differ; to the promoter that is an error like any other    *)
(* (Break).                                                                *)
PutAllowed(k, new) ==
  LET old == records[k] IN
  IF old = None THEN RecordOf(new.insight) = {}
  ELSE /\ old.insight = new.insight /\ old.approval = new.approval
       /\ old.created = new.created
       /\ old.status = new.status \/ (old.status = "approved" /\ new.status = "committed")
       /\ old.candidate \in {None, new.candidate}
       /\ old.memory \in {None, new.memory}

EventType(rec) ==
  IF rec.status # "approved" THEN rec.status
  ELSE IF rec.candidate # None THEN "candidate_linked" ELSE "approved"

(* append_insight_promotion_event: one event of a type and promotion, when *)
(* status or links change.                                                 *)
AppendEvent(k, old, new) ==
  IF \/ old # None /\ old.status = new.status /\ old.candidate = new.candidate
                   /\ old.memory = new.memory
     \/ \E e \in events : e.key = k /\ e.type = EventType(new)
    THEN events
    ELSE events \cup {[key |-> k, type |-> EventType(new), candidate |-> new.candidate]}

(* put(): the record is written and the promoter goes on, or it throws. *)
Put(p, new, phase) ==
  LET k == process[p].key IN
  IF PutAllowed(k, new)
    THEN /\ records' = [records EXCEPT ![k] = new]
         /\ events' = AppendEvent(k, records[k], new)
         /\ IF phase = "idle" THEN Fail(p)
            ELSE SetProcess(p, [process[p] EXCEPT !.phase = phase, !.record = new])
                 /\ UNCHANGED locks
    ELSE Fail(p) /\ UNCHANGED <<records, events>>

-----------------------------------------------------------------------------
(* Preflight: support and target as they are now. *)

Supported(i) ==
  heads[SupportOf[i]] # None /\ heads[SupportOf[i]].status = "active"

(* relate() does not find a contradiction nor another subject. *)
Related(i) == heads[MemoryOf[i]] # None => heads[MemoryOf[i]].agrees

Target(i) ==
  LET h == heads[MemoryOf[i]] IN
  IF h = None THEN [op |-> "create", base |-> 0]
  ELSE [op |-> "merge", base |-> h.revision]

Preflight(i) ==
  [status |-> insights[i], target |-> Target(i),
   support |-> heads[SupportOf[i]].revision]

(* PostgresInsightPromotionStateReader.snapshot: the rows of the scope.    *)
(* Every commit of another caller has a candidate of its own.              *)
Snapshot ==
  LET known == {m \in Memories : heads[m] # None}
      revisions == MapThenSumSet(LAMBDA m : heads[m].revision, known)
      proposed == Cardinality({c \in CandidateIds : candidates[c] # None})
  IN [candidates |-> proposed + revisions - Cardinality(commits),
      heads |-> Cardinality(known), revisions |-> revisions,
      promotions |-> Cardinality({k \in Keys : records[k] # None}),
      events |-> Cardinality(events)]

-----------------------------------------------------------------------------
(* InsightPromotionOperator *)

(* createPlan: no promotion yet, a pending and eligible insight ... *)
DraftPlan(p, a, i) ==
  /\ process[p] = Idle
  /\ a \in Planned /\ plans[a] = None
  /\ \E k \in Keys : <<a, i, k>> \in Requests
  /\ RecordOf(i) = {} /\ Supported(i) /\ Related(i)
  /\ insights[i] = "pending" /\ i \in Eligible
  /\ SetProcess(p, [Idle EXCEPT !.phase = "plan", !.approval = a, !.insight = i,
                                !.plan = [insight |-> i, preflight |-> Preflight(i)]])
  /\ UNCHANGED <<canonical, governed, locks, plans, faults>>

(* ... then the counts; the reviewer seals a manifest to the plan. *)
SealPlan(p) ==
  LET plan == process[p].plan IN
  /\ process[p].phase = "plan"
  /\ plans' = [plans EXCEPT ![Approval(p)] =
                 IF @ # None THEN @
                 ELSE [insight |-> plan.insight, preflight |-> plan.preflight,
                       state |-> Snapshot, live |-> TRUE]]
  /\ SetProcess(p, Idle)
  /\ UNCHANGED <<canonical, governed, locks, faults>>

(* Plan and manifest run out. *)
Expire(a) ==
  /\ plans[a] # None /\ plans[a].live
  /\ plans' = [plans EXCEPT ![a].live = FALSE]
  /\ UNCHANGED <<canonical, governed, locks, process, faults>>

(* apply: validateDocuments and the counts before. *)
BeginApply(p, a, k) ==
  LET plan == plans[a] IN
  /\ process[p] = Idle
  /\ plan # None /\ plan.live
  /\ <<a, plan.insight, k>> \in Requests
  /\ SetProcess(p, [Idle EXCEPT !.phase = "lookup", !.approval = a, !.insight = plan.insight,
                                !.key = k, !.plan = plan, !.before = Snapshot])
  /\ UNCHANGED <<canonical, governed, locks, plans, faults>>

Lookup(p) ==
  LET rec == records[process[p].key]
      replay == rec # None /\ rec.status = "committed"
  IN
  /\ process[p].phase = "lookup"
  /\ SetProcess(p, [process[p] EXCEPT !.replay = replay,
                                      !.phase = IF replay THEN "lock" ELSE "validate"])
  /\ UNCHANGED <<canonical, governed, locks, plans, faults>>

(* validateCurrent: counts and preflight are the plan's. *)
Validate(p) ==
  LET st == process[p] IN
  /\ st.phase = "validate"
  /\ IF /\ plans[Approval(p)].live
        /\ st.before = st.plan.state
        /\ Supported(st.insight) /\ Related(st.insight)
        /\ Preflight(st.insight) = st.plan.preflight
       THEN Goto(p, "lock") /\ UNCHANGED locks
       ELSE Fail(p)
  /\ UNCHANGED <<canonical, governed, plans, faults>>

(* Mutant: only the rows of the promotion itself are compared. *)
DeltaExpectedOfGovernance(st, after) ==
  LET fresh == IF st.replay THEN 0 ELSE 1 IN
  /\ after.promotions = st.before.promotions + fresh
  /\ after.events = st.before.events + 3 * fresh

(* expectedDelta: one of each, no head for a merge, nothing for a replay. *)
DeltaExpected(st, after) ==
  LET fresh == IF st.replay THEN 0 ELSE 1
      head == IF st.plan.preflight.target.op = "create" THEN fresh ELSE 0
  IN after = [candidates |-> st.before.candidates + fresh,
              heads |-> st.before.heads + head,
              revisions |-> st.before.revisions + fresh,
              promotions |-> st.before.promotions + fresh,
              events |-> st.before.events + 3 * fresh]

(* The counts after; the report is written or the evidence gate throws. *)
Audit(p) ==
  LET st == process[p] IN
  /\ st.phase = "audit"
  /\ IF DeltaExpected(st, Snapshot) THEN Goto(p, "events") ELSE SetProcess(p, Idle)
  /\ UNCHANGED <<canonical, governed, locks, plans, faults>>

CheckEvents(p) ==
  LET st == process[p] IN
  /\ st.phase = "events"
  /\ IF {e.type : e \in {x \in events : x.key = st.key}}
          = {"approved", "candidate_linked", "committed"}
       THEN Goto(p, "reported") ELSE SetProcess(p, Idle)
  /\ UNCHANGED <<canonical, governed, locks, plans, faults>>

Finish(p) ==
  /\ process[p].phase = "reported"
  /\ SetProcess(p, Idle)
  /\ UNCHANGED <<canonical, governed, locks, plans, faults>>

-----------------------------------------------------------------------------
(* ReflectiveInsightPromotionService.promote *)

BeginPromote(p, a, i, k) ==
  /\ process[p] = Idle
  /\ a \notin Planned
  /\ <<a, i, k>> \in Requests
  /\ SetProcess(p, [Idle EXCEPT !.phase = "lock", !.approval = a, !.insight = i, !.key = k])
  /\ UNCHANGED <<canonical, governed, locks, plans, faults>>

TakeLock(p) ==
  LET i == process[p].insight IN
  /\ process[p].phase = "lock" /\ locks[i] = None
  /\ locks' = [locks EXCEPT ![i] = p]
  /\ Goto(p, "prior")
  /\ UNCHANGED <<canonical, governed, plans, faults>>

(* getByIdempotencyKey *)
ReadPrior(p) ==
  /\ process[p].phase = "prior"
  /\ SetProcess(p, [process[p] EXCEPT !.phase = "governed",
                                      !.prior = records[process[p].key]])
  /\ UNCHANGED <<canonical, governed, locks, plans, faults>>

(* getByInsightId, validateReplay, and what an earlier attempt came to. *)
ReadGoverned(p) ==
  LET st == process[p]
      rec == st.prior
  IN
  /\ st.phase = "governed"
  /\ IF rec = None
       THEN IF RecordOf(st.insight) = {} THEN Goto(p, "verify") /\ UNCHANGED locks
            ELSE Fail(p)
     ELSE IF \/ RecordOf(st.insight) # {st.key}
             \/ rec.insight # st.insight \/ rec.approval # Approval(p)
             \/ rec.status = "rejected"
       THEN Fail(p)
     ELSE /\ SetProcess(p, [st EXCEPT !.record = rec,
                              !.phase = IF rec.status = "committed" THEN "done" ELSE "verify"])
          /\ UNCHANGED locks
  /\ UNCHANGED <<canonical, governed, plans, faults>>

(* The insight is read and the approval verified; the operator's verifier  *)
(* compares the insight, its status included, with the plan's.             *)
Verify(p) ==
  LET st == process[p] IN
  /\ st.phase = "verify"
  /\ IF IF Approval(p) \in Planned THEN insights[st.insight] = st.plan.preflight.status
                                   ELSE Approval(p) \in Authentic
       THEN Goto(p, "assess") /\ UNCHANGED locks
       ELSE Fail(p)
  /\ UNCHANGED <<canonical, governed, plans, faults>>

(* ReflectiveInsightPromotionGate.assess as the status it leads to. *)
Assessment(i) == IF i \in Eligible THEN "approved" ELSE "rejected"

(* buildPreflight and requireEvidenceClosure; the record of a first        *)
(* attempt is made here.                                                   *)
Assess(p) ==
  LET st == process[p]
      i == st.insight
  IN
  /\ st.phase = "assess"
  /\ IF ~Supported(i) \/ ~Related(i) THEN Fail(p)
     ELSE /\ \E t \in Stamps :
               SetProcess(p, [st EXCEPT !.phase = "approve", !.prior = None,
                 !.record = IF st.prior # None THEN st.prior
                            ELSE [insight |-> i, approval |-> Approval(p), created |-> t,
                                  status |-> Assessment(i), candidate |-> None, memory |-> None]])
          /\ UNCHANGED locks
  /\ UNCHANGED <<canonical, governed, plans, faults>>

Approve(p) ==
  LET st == process[p] IN
  /\ st.phase = "approve"
  /\ Put(p, st.record, IF st.insight \in Eligible THEN "accept" ELSE "idle")
  /\ UNCHANGED <<canonical, insights, plans, faults>>

(* The trigger on reflective_insights asks for a governed promotion. *)
AcceptAllowed(i) == \E k \in RecordOf(i) : records[k].status # "rejected"

(* insightStore.put(acceptedInsight) *)
Accept(p) ==
  LET st == process[p]
      i == st.insight
  IN
  /\ st.phase = "accept"
  /\ IF AcceptAllowed(i)
       THEN /\ insights' = [insights EXCEPT ![i] = "accepted"]
            /\ Goto(p, IF st.record.candidate = None THEN "propose" ELSE "commit")
            /\ UNCHANGED locks
       ELSE Fail(p) /\ UNCHANGED insights
  /\ UNCHANGED <<canonical, records, events, plans, faults>>

(* candidateInput looks at the memory again. *)
Propose(p) ==
  LET st == process[p]
      to == Target(st.insight)
  IN
  /\ st.phase = "propose"
  /\ IF Related(st.insight)
       THEN SetProcess(p, [st EXCEPT !.phase = "ingest", !.op = to.op, !.base = to.base])
            /\ UNCHANGED locks
       ELSE Fail(p)
  /\ UNCHANGED <<canonical, governed, plans, faults>>

Ingest(p) ==
  LET st == process[p] IN
  /\ st.phase = "ingest"
  /\ \E c \in CandidateIds :
       /\ candidates[c] = None
       /\ \A x \in CandidateIds : candidates[x] = None => c <= x
       /\ candidates' = [candidates EXCEPT ![c] =
                           [insight |-> st.insight, op |-> st.op, base |-> st.base,
                            status |-> "PENDING"]]
       /\ SetProcess(p, [st EXCEPT !.phase = "link", !.record.candidate = c,
                                           !.op = None, !.base = 0])
  /\ UNCHANGED <<heads, commits, others, governed, locks, plans, faults>>

Link(p) ==
  /\ process[p].phase = "link"
  /\ Put(p, process[p].record, "commit")
  /\ UNCHANGED <<canonical, insights, plans, faults>>

(* CanonicalMemoryAuthority.commit under the key of the promotion. *)
Candidate(p) == candidates[process[p].record.candidate]
Used(p) == {x \in commits : x.key = process[p].key}

Committable(cand) ==
  LET h == heads[MemoryOf[cand.insight]] IN
  /\ cand.status = "PENDING"
  /\ IF cand.op = "create" THEN h = None
     ELSE h # None /\ h.revision = cand.base /\ h.status = "active"

Commit(p) ==
  LET st == process[p]
      cand == Candidate(p)
      m == MemoryOf[st.insight]
  IN
  /\ st.phase = "commit"
  /\ Used(p) = {} /\ Committable(cand)
  /\ heads' = [heads EXCEPT ![m] = [revision |-> cand.base + 1, status |-> "active",
                                    agrees |-> TRUE]]
  /\ commits' = commits \cup {[key |-> st.key, insight |-> st.insight,
                               candidate |-> st.record.candidate,
                               op |-> cand.op, base |-> cand.base]}
  /\ candidates' = [candidates EXCEPT ![st.record.candidate].status = "ACCEPTED"]
  /\ Goto(p, "record")
  /\ UNCHANGED <<others, governed, locks, plans, faults>>

(* A used key answers its own candidate. *)
Replay(p) ==
  /\ process[p].phase = "commit"
  /\ \E x \in Used(p) : x.candidate = process[p].record.candidate
  /\ Goto(p, "record")
  /\ UNCHANGED <<canonical, governed, locks, plans, faults>>

(* A stale base closes the candidate, all other refusals leave it. *)
Refused(p) ==
  LET c == process[p].record.candidate
      stale == /\ Candidate(p).status = "PENDING" /\ Candidate(p).op = "merge"
               /\ heads[MemoryOf[process[p].insight]].revision # Candidate(p).base
  IN
  /\ process[p].phase = "commit"
  /\ \/ Used(p) = {} /\ ~Committable(Candidate(p))
     \/ \E x \in Used(p) : x.candidate # c
  /\ candidates' = IF Used(p) = {} /\ stale
                     THEN [candidates EXCEPT ![c].status = "CONFLICT"] ELSE candidates
  /\ Fail(p)
  /\ UNCHANGED <<heads, commits, others, governed, plans, faults>>

RecordCommit(p) ==
  LET st == process[p] IN
  /\ st.phase = "record"
  /\ Put(p, [st.record EXCEPT !.status = "committed", !.memory = MemoryOf[st.insight]],
         "done")
  /\ UNCHANGED <<canonical, insights, plans, faults>>

(* The lock is given back; where it was lost the ROLLBACK throws. *)
Done(p) ==
  LET st == process[p] IN
  /\ st.phase = "done"
  /\ Unlock(p)
  /\ IF Approval(p) \in Planned /\ locks[st.insight] = p
       THEN Goto(p, "audit") ELSE SetProcess(p, Idle)
  /\ UNCHANGED <<canonical, governed, plans, faults>>

-----------------------------------------------------------------------------
(* Failures and other callers. *)

Fault == faults < MaxFaults /\ faults' = faults + 1

(* An awaited call throws, or the process dies and its connection with it. *)
Break(p) ==
  /\ process[p] # Idle
  /\ Fault /\ Fail(p)
  /\ UNCHANGED <<canonical, governed, plans>>

(* The connection that holds the lock is lost; the work goes on. *)
LoseLock(i) ==
  /\ locks[i] # None
  /\ Fault
  /\ locks' = [locks EXCEPT ![i] = None]
  /\ UNCHANGED <<canonical, governed, plans, process>>

Targets == {MemoryOf[i] : i \in Insights}

OtherCommit(m) ==
  LET h == heads[m] IN
  /\ others < MaxOthers /\ others' = others + 1
  /\ \E agrees \in IF m \in Targets THEN BOOLEAN ELSE {TRUE}, status \in {"active", "tombstoned"} :
       /\ h = None => status = "active"
       /\ h # None /\ (h.status = "tombstoned" \/ status = "tombstoned") =>
            h.status # status /\ agrees = h.agrees
       /\ heads' = [heads EXCEPT ![m] =
                      [revision |-> IF h = None THEN 1 ELSE h.revision + 1,
                       status |-> status, agrees |-> agrees]]
  /\ UNCHANGED <<commits, candidates, governed, locks, plans, process, faults>>

-----------------------------------------------------------------------------
Operate(p) == SealPlan(p) \/ Lookup(p) \/ Validate(p) \/ Audit(p) \/ CheckEvents(p) \/ Finish(p)

Promote(p) ==
  \/ ReadPrior(p) \/ ReadGoverned(p) \/ Verify(p) \/ Assess(p) \/ Approve(p) \/ Accept(p)
  \/ Propose(p) \/ Ingest(p) \/ Link(p) \/ Commit(p) \/ Replay(p) \/ Refused(p)
  \/ RecordCommit(p) \/ Done(p)

Next ==
  \/ \E p \in Promoters : Operate(p) \/ Promote(p) \/ TakeLock(p) \/ Break(p)
  \/ \E p \in Promoters, a \in Approvals, i \in Insights, k \in Keys : BeginPromote(p, a, i, k)
  \/ \E p \in Promoters, a \in Planned, i \in Insights : DraftPlan(p, a, i)
  \/ \E p \in Promoters, a \in Planned, k \in Keys : BeginApply(p, a, k)
  \/ \E a \in Planned : Expire(a)
  \/ \E i \in Insights : LoseLock(i)
  \/ \E m \in Memories : OtherCommit(m)

Spec == Init /\ [][Next]_vars

-----------------------------------------------------------------------------
(* Properties. *)

(* Rows have the shape of their tables, and a lock is held by a promoter   *)
(* that works on the insight.                                              *)
TypeOK ==
  /\ \A m \in Memories : heads[m] = None \/ heads[m] \in Heads
  /\ \A c \in CandidateIds : candidates[c] = None \/ candidates[c] \in Proposals
  /\ insights \in [Insights -> {"pending", "accepted"}]
  /\ \A k \in Keys : records[k] = None \/ records[k] \in Records
  /\ \A i \in Insights : locks[i] = None \/
       (process[locks[i]].insight = i /\ process[locks[i]].phase \notin {"idle", "lock"})

(* DR-SG-037, one insight has one governed promotion: whatever keys are    *)
(* tried, locks lost and attempts repeated, an insight is committed once.  *)
PromotedOnce == \A x, y \in commits : x.insight = y.insight => x = y

(* A commit is that of the candidate its record links, and a record says   *)
(* committed only of a commit that was made.  The audit trail closes: a    *)
(* record has exactly the events of the transitions it went through, and   *)
(* they name its candidate.                                                *)
RecordTruth ==
  /\ \A x \in commits :
       /\ records[x.key] # None
       /\ records[x.key].candidate = x.candidate
       /\ insights[x.insight] = "accepted"
  /\ \A k \in Keys :
       LET trail == {e \in events : e.key = k}
           rec == records[k]
       IN /\ rec # None /\ rec.status = "committed" =>
               \E x \in commits : x.key = k /\ x.insight = rec.insight
          /\ {e.type : e \in trail} =
               IF rec = None THEN {}
               ELSE IF rec.status = "rejected" THEN {"rejected"}
               ELSE {"approved"} \cup (IF rec.candidate # None THEN {"candidate_linked"} ELSE {})
                                \cup (IF rec.status = "committed" THEN {"committed"} ELSE {})
          /\ \A e \in trail : e.candidate \in {None, rec.candidate}

(* What the operator reports as applied is what the reviewer approved: the *)
(* commit had the plan's operation and base.  Apply validates the plan     *)
(* before the lock and the promotion reads everything again, so a change   *)
(* in between is caught by the counts alone.                               *)
ReportIsPlanned ==
  \A p \in Promoters : LET st == process[p] IN
    st.phase = "reported" /\ ~st.replay =>
      \E x \in commits :
        /\ x.key = st.key /\ x.insight = st.insight
        /\ [op |-> x.op, base |-> x.base] = st.plan.preflight.target
=============================================================================

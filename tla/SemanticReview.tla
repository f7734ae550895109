--------------------------- MODULE SemanticReview ---------------------------
(***************************************************************************)
(* The semantic review queue of one distillation receipt: the host that    *)
(* records an outcome per unit and enqueues what needs a reviewer, the     *)
(* reviewers who decide cases through SemanticReviewQueueService.resolve,  *)
(* the two operator tools that decide or judge whole receipts (the         *)
(* semantic-v8 closure and the canary gate), and the remediation that      *)
(* turns a decision into a rejection of a later candidate.  They share     *)
(* only the tables; every await is the end of a step.                      *)
(*                                                                         *)
(* The id of a case is derived from its curation record and that from the  *)
(* unit, so a unit names both.  Facts stand for the semantic key, policy   *)
(* version, memory type, relation and reason codes that a record has and   *)
(* its case copies.  Evidence and reasons of a decision are part of what   *)
(* its request is; that they name the record is taken as validated.        *)
(***************************************************************************)
EXTENDS Integers, Sequences, FiniteSets

CONSTANTS
  ReviewUnits,    \* number of units of the receipt
  Judgements,     \* for each unit the records the policies may produce
  Reviewers,      \* callers of resolve
  Requests,       \* what reviewers may submit, and submit again
  Manifest,       \* the decisions the canary tool is given, in order
  Closing,        \* for each unit what the closure was told of its case
  Remediation,    \* the decision the remediation is told of
  MaxHostFaults,  \* bound on deaths of the host
  NoValue

U == 1 .. ReviewUnits

PendingDispositions ==
  {"confirmed_contradiction", "confirmed_unrelated", "invalid_candidate",
   "needs_more_evidence", "policy_superseded"}
SampleDispositions == {"approved_as_classified", "misclassified", "needs_more_evidence"}
Canonical == {"canonical_candidate", "canonical_merge"}
ClosingDispositions == {"policy_superseded", "confirmed_unrelated"}
Tools == {"closure", "canary"}

ReviewRecords == UNION {Judgements[u] : u \in U}
ReviewFacts == {j.facts : j \in ReviewRecords}

(* The decisions callers may send: those of reviewers and of the canary    *)
(* tool's manifest, and those the closure makes up.                        *)
Submitted == Requests \cup {Manifest[i] : i \in DOMAIN Manifest}
ClosureKeys == {"closure"} \X U \X Nat \X ClosingDispositions
ReviewRequests ==
  Submitted \cup [key : ClosureKeys, unit : U, disposition : ClosingDispositions,
                 version : Nat, by : {"operator"}]
ReviewDecisions ==
  [key : {r.key : r \in Submitted} \cup ClosureKeys,
   disposition : PendingDispositions \cup SampleDispositions,
   by : {r.by : r \in Submitted} \cup {"operator"}]

CaseStates == [status : {"pending", "deferred", "resolved"}, version : Nat \ {0}]
Cases ==
  [trigger : {"pending_review", "canary_sample"}, facts : ReviewFacts,
   status : {"pending", "deferred", "resolved"}, version : Nat \ {0},
   decision : ReviewDecisions \cup {NoValue}]
CaseEvents ==
  [unit : U, type : {"enqueued", "deferred", "resolved"}, version : Nat \ {0},
   decision : ReviewDecisions \cup {NoValue}]

ASSUME ReviewAssumption ==
  /\ ReviewUnits \in Nat /\ Len(Manifest) \in Nat
  /\ \A j \in ReviewRecords :
       j.outcome \in {"pending_review", "canonical_candidate", "canonical_merge", "rejected",
                      "supporting_evidence_only"}
  /\ \A r \in Submitted :
       r.unit \in U /\ r.disposition \in PendingDispositions \cup SampleDispositions

(* The closure makes up one of two dispositions, and the tools are no      *)
(* reviewers.                                                              *)
ASSUME ToolsAssumption ==
  /\ \A u \in U : Closing[u] # NoValue => Closing[u].disposition \in ClosingDispositions
  /\ Reviewers \cap Tools = {}

ASSUME NoValueAssumption == NoValue \notin ReviewRecords \cup Cases \cup ReviewDecisions

VARIABLES
  curation,     \* memory_curation_records of the receipt, by unit
  reviewCases,  \* semantic_review_cases, by unit
  reviewEvents, \* semantic_review_events
  receiptOpen,  \* the receipt is not closed yet
  reviewHost,   \* the distilling host
  calls,        \* resolve calls under way, by caller
  closure,      \* the closure tool
  canary,       \* the canary tool
  bindings,     \* what the remediation rejects from now on
  hostFaults

tables == <<curation, reviewCases, reviewEvents, receiptOpen>>
tools == <<closure, canary>>
reviewVars == <<tables, reviewHost, calls, tools, bindings, hostFaults>>

HostIdle == [phase |-> "idle", unit |-> 0, record |-> NoValue, sample |-> 0]
NoCall == [phase |-> "none", request |-> NoValue, current |-> NoValue]
ToolIdle == [phase |-> "idle", unit |-> 0, plan |-> << >>, known |-> {}, records |-> << >>]

ReviewInit ==
  /\ curation = [u \in U |-> NoValue]
  /\ reviewCases = [u \in U |-> NoValue]
  /\ reviewEvents = {}
  /\ receiptOpen = TRUE
  /\ reviewHost = HostIdle
  /\ calls = [a \in Reviewers \cup Tools |-> NoCall]
  /\ closure = ToolIdle /\ canary = ToolIdle
  /\ bindings = {}
  /\ hostFaults = 0

-----------------------------------------------------------------------------
(* SemanticReviewStore.enqueue *)

TriggerFits(trigger, record) == (trigger = "pending_review") = (record.outcome = "pending_review")

immutableCase(c) == <<c.trigger, c.facts>>

(* The transaction goes through: the row in the table is what the case was *)
(* built from, and a case of the record already there was the same.        *)
Enqueues(u, record, trigger) ==
  /\ TriggerFits(trigger, record)
  /\ curation[u] # NoValue /\ TriggerFits(trigger, curation[u])
  /\ curation[u].facts = record.facts
  /\ reviewCases[u] # NoValue => immutableCase(reviewCases[u]) = <<trigger, record.facts>>

Enqueue(u, record, trigger) ==
  IF reviewCases[u] # NoValue THEN UNCHANGED <<reviewCases, reviewEvents>>
  ELSE /\ reviewCases' = [reviewCases EXCEPT ![u] =
            [trigger |-> trigger, facts |-> record.facts, status |-> "pending",
             version |-> 1, decision |-> NoValue]]
       /\ reviewEvents' = reviewEvents \cup
            {[unit |-> u, type |-> "enqueued", version |-> 1, decision |-> NoValue]}

-----------------------------------------------------------------------------
(* The distilling host. *)

(* run() on a receipt that is not closed; on a closed one the caller goes  *)
(* on to the canary sample.                                                *)
HostStart ==
  /\ reviewHost.phase = "idle"
  /\ reviewHost' = IF receiptOpen THEN [HostIdle EXCEPT !.phase = "unit", !.unit = 1]
                   ELSE [HostIdle EXCEPT !.phase = "sample"]
  /\ UNCHANGED <<tables, calls, tools, bindings, hostFaults>>

NextReviewUnit ==
  [reviewHost EXCEPT !.phase = "unit", !.unit = reviewHost.unit + 1, !.record = NoValue]

(* A unit that became a memory in an earlier run is skipped, any other is  *)
(* judged again and its record put; one for review goes to the queue.      *)
HostPut ==
  LET u == reviewHost.unit IN
  /\ reviewHost.phase = "unit" /\ u \in U
  /\ IF curation[u] # NoValue /\ curation[u].outcome \in Canonical
     THEN reviewHost' = NextReviewUnit /\ UNCHANGED curation
     ELSE \E j \in Judgements[u] :
            /\ curation' = [curation EXCEPT ![u] = j]
            /\ reviewHost' = IF j.outcome = "pending_review"
                 THEN [reviewHost EXCEPT !.phase = "enqueue", !.record = j]
                 ELSE NextReviewUnit
  /\ UNCHANGED <<reviewCases, reviewEvents, receiptOpen, calls, tools, bindings, hostFaults>>

(* Mutant: a refused enqueue is taken as already queued. *)
HostEnqueueGoesOn ==
  LET u == reviewHost.unit IN
  /\ reviewHost.phase = "enqueue"
  /\ IF Enqueues(u, reviewHost.record, "pending_review")
     THEN Enqueue(u, reviewHost.record, "pending_review")
     ELSE UNCHANGED <<reviewCases, reviewEvents>>
  /\ reviewHost' = NextReviewUnit
  /\ UNCHANGED <<curation, receiptOpen, calls, tools, bindings, hostFaults>>

(* A refusal fails the run, which leaves the receipt open. *)
HostEnqueue ==
  LET u == reviewHost.unit IN
  /\ reviewHost.phase = "enqueue"
  /\ IF Enqueues(u, reviewHost.record, "pending_review")
     THEN /\ Enqueue(u, reviewHost.record, "pending_review")
          /\ reviewHost' = NextReviewUnit
     ELSE reviewHost' = HostIdle /\ UNCHANGED <<reviewCases, reviewEvents>>
  /\ UNCHANGED <<curation, receiptOpen, calls, tools, bindings, hostFaults>>

HostClose ==
  /\ reviewHost.phase = "unit" /\ reviewHost.unit \notin U
  /\ receiptOpen' = FALSE
  /\ reviewHost' = [HostIdle EXCEPT !.phase = "sample"]
  /\ UNCHANGED <<curation, reviewCases, reviewEvents, calls, tools, bindings, hostFaults>>

(* The sample: the first canonical record, else the first not for review. *)
SampleOf(records) ==
  LET canonical == {u \in U : records[u].outcome \in Canonical}
      decided == {u \in U : records[u].outcome # "pending_review"}
      pick == IF canonical # {} THEN canonical ELSE decided
  IN IF pick = {} THEN 0 ELSE CHOOSE u \in pick : \A v \in pick : u <= v

HostSample ==
  /\ reviewHost.phase = "sample"
  /\ reviewHost' = [HostIdle EXCEPT !.phase = "queue", !.unit = 1, !.sample = SampleOf(curation)]
  /\ UNCHANGED <<tables, calls, tools, bindings, hostFaults>>

(* enqueueReceipt: every pending record and the sample. *)
HostQueue ==
  LET u == reviewHost.unit
      trigger == IF curation[u].outcome = "pending_review" THEN "pending_review" ELSE "canary_sample"
      onward == [reviewHost EXCEPT !.unit = @ + 1]
  IN
  /\ reviewHost.phase = "queue" /\ u \in U
  /\ IF trigger = "canary_sample" /\ u # reviewHost.sample
       THEN reviewHost' = onward /\ UNCHANGED <<reviewCases, reviewEvents>>
     ELSE IF Enqueues(u, curation[u], trigger)
       THEN Enqueue(u, curation[u], trigger) /\ reviewHost' = onward
     ELSE reviewHost' = HostIdle /\ UNCHANGED <<reviewCases, reviewEvents>>
  /\ UNCHANGED <<curation, receiptOpen, calls, tools, bindings, hostFaults>>

HostQueued ==
  /\ reviewHost.phase = "queue" /\ reviewHost.unit \notin U
  /\ reviewHost' = HostIdle
  /\ UNCHANGED <<tables, calls, tools, bindings, hostFaults>>

HostDies ==
  /\ reviewHost.phase # "idle"
  /\ hostFaults < MaxHostFaults /\ hostFaults' = hostFaults + 1
  /\ reviewHost' = HostIdle
  /\ UNCHANGED <<tables, calls, tools, bindings>>

Host ==
  \/ HostStart \/ HostPut \/ HostEnqueue \/ HostClose \/ HostSample \/ HostQueue \/ HostQueued
  \/ HostDies

-----------------------------------------------------------------------------
(* SemanticReviewQueueService.resolve, one call per caller at a time.      *)

(* How a call ends: a tool looks at the result, a reviewer is free again.  *)
Ended(a, result) == [NoCall EXCEPT !.phase = IF a \in Tools THEN result ELSE "none"]
EndCall(a, result) == calls' = [calls EXCEPT ![a] = Ended(a, result)]
BeginCall(a, r) == calls' = [calls EXCEPT ![a] = [NoCall EXCEPT !.phase = "get", !.request = r]]

Submit(a, r) ==
  /\ calls[a].phase = "none"
  /\ BeginCall(a, r)
  /\ UNCHANGED <<tables, reviewHost, tools, bindings, hostFaults>>

GetCase(a) ==
  LET c == reviewCases[calls[a].request.unit] IN
  /\ calls[a].phase = "get"
  /\ IF c = NoValue THEN EndCall(a, "failed")
     ELSE calls' = [calls EXCEPT ![a].phase = "prior",
                                 ![a].current = [status |-> c.status, version |-> c.version]]
  /\ UNCHANGED <<tables, reviewHost, tools, bindings, hostFaults>>

PriorEvents(r) == {e \in reviewEvents : e.decision # NoValue /\ e.decision.key = r.key}

DecisionOf(r) == [key |-> r.key, disposition |-> r.disposition, by |-> r.by]
sameDecision(e, r) == e.unit = r.unit /\ e.decision = DecisionOf(r)
StatusAfter(r) == IF r.disposition = "needs_more_evidence" THEN "deferred" ELSE "resolved"

Allowed(r) ==
  r.disposition \in IF reviewCases[r.unit].trigger = "pending_review" THEN PendingDispositions
                    ELSE SampleDispositions

(* A key that decided before answers the same request once more and        *)
(* refuses any other; the checks that follow are on the case read before.  *)
CheckPrior(a) ==
  LET r == calls[a].request
      prior == PriorEvents(r)
  IN
  /\ calls[a].phase = "prior"
  /\ IF prior # {}
       THEN EndCall(a, IF \A e \in prior : sameDecision(e, r) THEN "done" ELSE "failed")
     ELSE IF calls[a].current.status = "resolved" \/ ~Allowed(r) THEN EndCall(a, "failed")
     ELSE calls' = [calls EXCEPT ![a].phase = "store"]
  /\ UNCHANGED <<tables, reviewHost, tools, bindings, hostFaults>>

(* Mutant: the row is updated whatever its version. *)
VersionHoldsAlways(current, expected) == TRUE

VersionHolds(current, expected) == current.version = expected

(* The next version is that of the case read before, and must be the one   *)
(* after the version the caller expects.                                   *)
validateResolutionBinding(next, expected) == next = expected + 1

sameEventIntent(e, f) == e = f

(* SemanticReviewStore.resolve asks for the key and the version again; it  *)
(* does not look at the status.                                            *)
Refuses(r, event) ==
  LET prior == PriorEvents(r) IN
  \/ ~validateResolutionBinding(event.version, r.version)
  \/ prior = {} /\ ~VersionHolds(reviewCases[r.unit], r.version)
  \/ \E e \in prior : ~sameEventIntent(e, event)

(* The transaction, which locks the row of the case. *)
StoreResolve(a) ==
  LET r == calls[a].request
      event == [unit |-> r.unit, type |-> StatusAfter(r),
                version |-> calls[a].current.version + 1, decision |-> DecisionOf(r)]
      refused == Refuses(r, event)
  IN
  /\ calls[a].phase = "store"
  /\ IF refused \/ PriorEvents(r) # {} THEN UNCHANGED <<reviewCases, reviewEvents>>
     ELSE /\ reviewCases' = [reviewCases EXCEPT ![r.unit] =
               [@ EXCEPT !.status = event.type, !.version = event.version,
                         !.decision = event.decision]]
          /\ reviewEvents' = reviewEvents \cup {event}
  /\ EndCall(a, IF refused THEN "failed" ELSE "done")
  /\ UNCHANGED <<curation, receiptOpen, reviewHost, tools, bindings, hostFaults>>

(* An await fails, or the store finds the caller's clock behind the case.  *)
CallBreaks(a) ==
  /\ calls[a].phase \in {"get", "prior", "store"}
  /\ EndCall(a, "failed")
  /\ UNCHANGED <<tables, reviewHost, tools, bindings, hostFaults>>

Resolve(a) == GetCase(a) \/ CheckPrior(a) \/ StoreResolve(a) \/ CallBreaks(a)

-----------------------------------------------------------------------------
(* resolve-semantic-v8-review-closure *)

SetClosure(t) == closure' = t /\ UNCHANGED <<tables, reviewHost, canary, bindings, hostFaults>>
ClosureStep(t) == SetClosure(t) /\ UNCHANGED calls
ClosureOnward == [closure EXCEPT !.unit = @ + 1]

(* The plan, case by case: refused when the case is not the one that was   *)
(* reevaluated, is deferred, or was resolved with another disposition.     *)
ClosurePlan ==
  LET u == closure.unit + 1
      c == reviewCases[u]
      fits == /\ c # NoValue /\ c.facts = Closing[u].facts
              /\ c.status \in {"pending", "resolved"}
              /\ c.status = "resolved" => c.decision.disposition = Closing[u].disposition
  IN
  /\ closure.phase = "idle" /\ u \in U
  /\ IF Closing[u] = NoValue THEN ClosureStep([ClosureOnward EXCEPT !.plan = Append(@, 0)])
     ELSE IF fits THEN ClosureStep([ClosureOnward EXCEPT !.plan = Append(@, c.version)])
     ELSE ClosureStep(ToolIdle)

ClosurePlanned ==
  /\ closure.phase = "idle" /\ closure.unit = ReviewUnits
  /\ ClosureStep([closure EXCEPT !.phase = "apply", !.unit = 1])

(* Mutant: a case that is resolved counts as closed, however. *)
ClosedAlreadyAnyhow(u) == reviewCases[u].status = "resolved"

ClosedAlready(u) ==
  /\ reviewCases[u].status = "resolved"
  /\ reviewCases[u].decision.disposition = Closing[u].disposition

(* A case is read again; unless it is resolved it is decided at the        *)
(* version just read, under the key of the version planned.                *)
ClosureApply ==
  LET u == closure.unit IN
  /\ closure.phase = "apply" /\ u \in U
  /\ IF Closing[u] = NoValue \/ ClosedAlready(u) THEN ClosureStep(ClosureOnward)
     ELSE IF reviewCases[u].status = "resolved" THEN ClosureStep(ToolIdle)
     ELSE /\ BeginCall("closure",
               [key |-> <<"closure", u, closure.plan[u], Closing[u].disposition>>, unit |-> u,
                disposition |-> Closing[u].disposition, version |-> reviewCases[u].version,
                by |-> "operator"])
          /\ SetClosure([closure EXCEPT !.phase = "resolving"])

(* What resolve answered; an error ends the tool. *)
ClosureAnswered ==
  /\ closure.phase = "resolving" /\ calls["closure"].phase \in {"done", "failed"}
  /\ calls' = [calls EXCEPT !["closure"] = NoCall]
  /\ SetClosure(IF calls["closure"].phase = "failed" THEN ToolIdle
                ELSE [ClosureOnward EXCEPT !.phase = "apply"])

OpenCases(status) == {u \in U : reviewCases[u] # NoValue /\ reviewCases[u].status = status}

(* list pending, then list deferred: the report says that nothing is open. *)
ClosureListPending ==
  /\ closure.phase = "apply" /\ closure.unit \notin U
  /\ ClosureStep(IF OpenCases("pending") # {} THEN ToolIdle
                 ELSE [closure EXCEPT !.phase = "deferred",
                                      !.known = {u \in U : reviewCases[u] # NoValue}])

ClosureListDeferred ==
  /\ closure.phase = "deferred"
  /\ ClosureStep(IF OpenCases("deferred") # {} THEN ToolIdle
                 ELSE [closure EXCEPT !.phase = "reported"])

(* The tool dies, or finds the canonical counts changed at the end. *)
ClosureDies ==
  /\ closure.phase \notin {"reported"} /\ closure # ToolIdle
  /\ closure' = ToolIdle /\ calls' = [calls EXCEPT !["closure"] = NoCall]
  /\ UNCHANGED <<tables, reviewHost, canary, bindings, hostFaults>>

Closure ==
  \/ ClosurePlan \/ ClosurePlanned \/ ClosureApply \/ ClosureAnswered \/ ClosureListPending
  \/ ClosureListDeferred \/ ClosureDies

-----------------------------------------------------------------------------
(* semantic-review-canary *)

SetCanary(t) == canary' = t /\ UNCHANGED <<tables, reviewHost, closure, bindings, hostFaults>>
CanaryStep(t) == SetCanary(t) /\ UNCHANGED calls

validateManifest(decisions) ==
  /\ decisions # << >>
  /\ \A i, j \in DOMAIN decisions : decisions[i].unit = decisions[j].unit => i = j

(* The cases the tool knows of are listed before the first decision;       *)
(* without a manifest it only assesses.                                    *)
CanaryStart ==
  /\ canary.phase = "idle"
  /\ \E first \in {1, Len(Manifest) + 1} :
       /\ first \in DOMAIN Manifest => validateManifest(Manifest)
       /\ CanaryStep([ToolIdle EXCEPT !.phase = "decide", !.unit = first,
                                      !.known = {u \in U : reviewCases[u] # NoValue}])

CanaryDecide ==
  /\ canary.phase = "decide" /\ canary.unit \in DOMAIN Manifest
  /\ IF Manifest[canary.unit].unit \notin canary.known THEN CanaryStep(ToolIdle)
     ELSE BeginCall("canary", Manifest[canary.unit])
          /\ SetCanary([canary EXCEPT !.phase = "resolving"])

CanaryAnswered ==
  /\ canary.phase = "resolving" /\ calls["canary"].phase \in {"done", "failed"}
  /\ calls' = [calls EXCEPT !["canary"] = NoCall]
  /\ SetCanary(IF calls["canary"].phase = "failed" THEN ToolIdle
               ELSE [canary EXCEPT !.phase = "decide", !.unit = @ + 1])

CanaryRecords ==
  /\ canary.phase = "decide" /\ canary.unit \notin DOMAIN Manifest
  /\ CanaryStep([canary EXCEPT !.phase = "cases", !.unit = 0, !.known = {}, !.records = curation])

(* Mutant: a pending outcome is left to the state of its case. *)
HoldsGateNever(record) == FALSE

HoldsGate(record) == record.outcome = "pending_review"

(* SemanticCanaryGate.assess *)
assess(records, cases) ==
  LET queued == {u \in U : cases[u] # NoValue} IN
  /\ \A u \in U : records[u] # NoValue /\ ~HoldsGate(records[u])
  /\ \A u \in queued : /\ cases[u].facts = records[u].facts
                       /\ TriggerFits(cases[u].trigger, records[u])
                       /\ cases[u].status = "resolved"
                       /\ cases[u].decision = NoValue
                            \/ cases[u].decision.disposition # "misclassified"
  /\ \E u \in queued : /\ cases[u].trigger = "canary_sample" /\ cases[u].status = "resolved"
                       /\ cases[u].decision.disposition = "approved_as_classified"

CanaryAssess ==
  /\ canary.phase = "cases"
  /\ CanaryStep(IF assess(canary.records, reviewCases) THEN [ToolIdle EXCEPT !.phase = "eligible"]
                ELSE ToolIdle)

(* The same here. *)
CanaryDies ==
  /\ canary.phase \notin {"idle", "eligible"}
  /\ canary' = ToolIdle /\ calls' = [calls EXCEPT !["canary"] = NoCall]
  /\ UNCHANGED <<tables, reviewHost, closure, bindings, hostFaults>>

Canary ==
  \/ CanaryStart \/ CanaryDecide \/ CanaryAnswered \/ CanaryRecords \/ CanaryAssess \/ CanaryDies

-----------------------------------------------------------------------------
(* Mutant: the join asks for the record, not for what was reviewed of it. *)
ReviewedAsRecordedById(u) == curation[u] # NoValue

(* The join of the case with its curation record. *)
ReviewedAsRecorded(u) == curation[u] # NoValue /\ curation[u].facts = reviewCases[u].facts

(* What a later candidate is looked up by: the unit and all its facts. *)
bindingMatchKey(u, record) == [unit |-> u, facts |-> record.facts]
resolveInvalidCandidate(u, record) == bindingMatchKey(u, record) \in bindings

(* verifiedInvalidCandidateRemediation: one query over case, latest event  *)
(* and record; the binding takes the facts of the record.                  *)
Remediates ==
  LET r == Remediation
      c == reviewCases[r.unit]
      event == [unit |-> r.unit, type |-> "resolved", version |-> r.version + 1,
                decision |-> DecisionOf(r)]
  IN
  /\ c # NoValue /\ ReviewedAsRecorded(r.unit)
  /\ c.status = "resolved" /\ c.version = r.version + 1 /\ c.trigger = "pending_review"
  /\ c.decision = DecisionOf(r) /\ r.disposition = "invalid_candidate"
  /\ event \in reviewEvents
  /\ curation[r.unit].outcome = "pending_review"
  /\ bindings' = bindings \cup {bindingMatchKey(r.unit, curation[r.unit])}
  /\ UNCHANGED <<tables, reviewHost, calls, tools, hostFaults>>

-----------------------------------------------------------------------------
ReviewNext ==
  \/ Host \/ Closure \/ Canary \/ Remediates
  \/ \E a \in Reviewers, r \in Requests : Submit(a, r)
  \/ \E a \in Reviewers \cup Tools : Resolve(a)

ReviewSpec == ReviewInit /\ [][ReviewNext]_reviewVars

-----------------------------------------------------------------------------
(* Type invariant: the tables hold rows of their shape, and the host, the  *)
(* calls and the tools are in states of their programs.                    *)
ReviewTypeOK ==
  /\ curation \in [U -> ReviewRecords \cup {NoValue}]
  /\ reviewCases \in [U -> Cases \cup {NoValue}]
  /\ reviewEvents \subseteq CaseEvents
  /\ receiptOpen \in BOOLEAN
  /\ reviewHost \in [phase : {"idle", "unit", "enqueue", "sample", "queue"}, unit : Nat,
                     record : ReviewRecords \cup {NoValue}, sample : 0 .. ReviewUnits]
  /\ calls \in [Reviewers \cup Tools ->
                  [phase : {"none", "get", "prior", "store", "done", "failed"},
                   request : ReviewRequests \cup {NoValue},
                   current : CaseStates \cup {NoValue}]]
  /\ closure \in [phase : {"idle", "apply", "resolving", "deferred", "reported"},
                  unit : Nat, plan : Seq(Nat), known : SUBSET U, records : {<< >>}]
  /\ canary \in [phase : {"idle", "decide", "resolving", "cases", "eligible"},
                 unit : Nat, plan : {<< >>}, known : SUBSET U,
                 records : {<< >>} \cup [U -> ReviewRecords \cup {NoValue}]]
  /\ hostFaults \in Nat

(* The history of a case is whole and final: one event for every version,  *)
(* the first its enqueueing and the last what the case now says, nothing   *)
(* after a resolution, and no idempotency key decided twice, although      *)
(* reviewers and tools decide on versions they read earlier, answers get   *)
(* lost and calls are repeated, and the store never looks at the status.   *)
ReviewHistory ==
  /\ \A u \in U :
       LET events == {e \in reviewEvents : e.unit = u}
           c == reviewCases[u]
       IN IF c = NoValue THEN events = {}
          ELSE /\ {e.version : e \in events} = 1 .. c.version
               /\ Cardinality(events) = c.version
               /\ \A e \in events :
                    /\ (e.version = 1) = (e.type = "enqueued")
                    /\ e.type = "resolved" => e.version = c.version
                    /\ e.version = c.version =>
                         /\ e.decision = c.decision
                         /\ c.status = IF e.type = "enqueued" THEN "pending" ELSE e.type
  /\ \A e, f \in reviewEvents :
       e.decision # NoValue /\ f.decision # NoValue /\ e.decision.key = f.decision.key => e = f

(* "Pending outcomes enter the queue before completion": a closed receipt  *)
(* has, for every record left for review, a case about that very record,   *)
(* although a host died between the two writes and was run again, or found *)
(* the case of an earlier judgement in its way.                            *)
PendingIsQueued ==
  ~receiptOpen => \A u \in U : curation[u].outcome = "pending_review" =>
    /\ reviewCases[u] # NoValue
    /\ reviewCases[u].trigger = "pending_review" /\ reviewCases[u].facts = curation[u].facts

(* The closure's report is true and stays true: every case it planned has  *)
(* the disposition planned, although reviewers decided and deferred cases  *)
(* between its reading and its writing, and no case it could see is open.  *)
ClosureTruth ==
  closure.phase = "reported" =>
    /\ \A u \in U : Closing[u] # NoValue =>
         reviewCases[u].status = "resolved"
           /\ reviewCases[u].decision.disposition = Closing[u].disposition
    /\ \A u \in closure.known : reviewCases[u].status = "resolved"

(* A receipt reported eligible is reviewed: nothing in it awaits review,   *)
(* every case is resolved, none as misclassified, and a sample of it was   *)
(* approved, although records and cases were listed one after the other    *)
(* with the host and reviewers at work.                                    *)
EligibleIsReviewed ==
  canary.phase = "eligible" =>
    /\ \A u \in U : curation[u] # NoValue /\ curation[u].outcome # "pending_review"
    /\ \A u \in U : reviewCases[u] # NoValue =>
         /\ reviewCases[u].status = "resolved"
         /\ reviewCases[u].decision.disposition # "misclassified"
         /\ reviewCases[u].facts = curation[u].facts
    /\ \E u \in U : reviewCases[u] # NoValue /\ reviewCases[u].trigger = "canary_sample"

(* A later candidate that the remediation rejects without asking, was      *)
(* rejected by a reviewer as it is: the resolved case has the very facts   *)
(* of the candidate, and not those of another judgement of the same unit.  *)
RemediationIsReviewed ==
  \A u \in U : \A j \in Judgements[u] : resolveInvalidCandidate(u, j) =>
    /\ reviewCases[u] # NoValue /\ reviewCases[u].facts = j.facts
    /\ \E e \in reviewEvents : /\ e.unit = u /\ e.type = "resolved"
                               /\ e.decision.disposition = "invalid_candidate"
=============================================================================

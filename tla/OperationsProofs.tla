-------------------------- MODULE OperationsProofs --------------------------
(***************************************************************************)
(* What runs around the canonical core, for every value of the constants:  *)
(* the provider's extraction for every number of hosts and any chunking,   *)
(* the semantic review for any number of units, judgements, reviewers and  *)
(* requests, any manifest and any plan of the closure, and the migration   *)
(* of historical sessions for every number of hosts, faults and edits.     *)
(***************************************************************************)
EXTENDS ProviderExtraction, SemanticReview, HistoricalMigration, ContextCaptureProofs,
        FiniteSetTheorems, SequenceTheorems, WellFoundedInduction, TLAPS

-----------------------------------------------------------------------------
(* The provider's extraction *)

(* A binding that an artifact backs. *)
Backed(arts, b) ==
  b = Unbound \/ /\ b.ref \in Experiences
                 /\ b.checksum # NoArtifact
                 /\ arts[b.ref] = b.checksum

(* A run is a record of these fields. *)
RunFields ==
  {"phase", "stored", "puts", "bound", "experience", "run", "document", "listed", "items",
   "result"}
RunShape(st) == st = [f \in RunFields |-> st[f]]

Distilling == {"preflight", "retain", "wait", "list", "store"}

(* What a host knows is so: its copy of the binding is backed, it only     *)
(* asks the provider while that is empty, and what it takes to curation    *)
(* with a binding is the result the binding names.                         *)
RunSound(arts, st) ==
  /\ RunShape(st)
  /\ Backed(arts, st.bound)
  /\ st.phase # "rest" => st.experience \in Experiences
  /\ st.phase \in Distilling => st.bound = Unbound /\ st.run \in Nat \ {0}
  /\ st.phase \in {"bind", "distilled", "curate"} /\ st.bound # Unbound =>
       st.result = st.bound.checksum

CuratedSound ==
  \A c \in curated : c.binding # Unbound => c.binding = binding /\ c.result = binding.checksum

(* The inductive invariant: OneExtraction with the copies of the hosts.    *)
ExtractionInv ==
  /\ DOMAIN artifacts = Experiences /\ artifacts = [e \in Experiences |-> artifacts[e]]
  /\ archiveFile \in Experiences \cup {NoExperience}
  /\ distills \in Nat
  /\ Backed(artifacts, binding)
  /\ extracting = [h \in ExtractionHosts |-> extracting[h]]
  /\ \A h \in ExtractionHosts : RunSound(artifacts, extracting[h])
  /\ CuratedSound

(* A host at rest holds nothing. *)
LEMMA RestIsSound ==
  ASSUME NEW arts PROVE RunSound(arts, AtRest)
BY DEF RunSound, RunShape, RunFields, Backed, AtRest, Distilling

(* Before the first run there is neither artifact nor binding. *)
LEMMA InitSound == ExtractionInit => ExtractionInv
BY RestIsSound DEF ExtractionInit, ExtractionInv, Backed, CuratedSound

(* A put goes through only on an empty or the same binding. *)
LEMMA PutKeeps ==
  ASSUME Backed(artifacts, binding), NEW b, Backed(artifacts, b), NEW status,
         PutExtraction(b, status)
  PROVE  /\ Backed(artifacts, binding')
         /\ binding # Unbound => binding' = binding
BY DEF PutExtraction, BindingHolds

(* One host goes on to a sound run and no artifact changes. *)
LEMMA HostStep ==
  ASSUME ExtractionInv, NEW h \in ExtractionHosts, NEW st, Extracting(h, st),
         RunSound(artifacts, st), UNCHANGED <<artifacts, curated>>,
         archiveFile' \in Experiences \cup {NoExperience}, distills' \in Nat,
         Backed(artifacts, binding'), binding # Unbound => binding' = binding
  PROVE  ExtractionInv'
<1>1. /\ extracting' = [k \in ExtractionHosts |-> extracting'[k]]
      /\ \A k \in ExtractionHosts : RunSound(artifacts', extracting'[k])
  BY DEF ExtractionInv, Extracting
<1>2. CuratedSound'
  BY DEF ExtractionInv, CuratedSound
<1> QED
  BY <1>1, <1>2 DEF ExtractionInv

(* A run that fails puts its own copy of the binding. *)
LEMMA FailingStep ==
  ASSUME ExtractionInv, NEW h \in ExtractionHosts, RunFails(h),
         UNCHANGED <<artifacts, curated>>,
         archiveFile' \in Experiences \cup {NoExperience}, distills' \in Nat
  PROVE  ExtractionInv'
<1>1. Backed(artifacts, binding') /\ (binding # Unbound => binding' = binding)
  BY PutKeeps DEF RunFails, ExtractionInv, RunSound
<1> QED
  BY <1>1, HostStep, RestIsSound DEF RunFails

(* A put of the run's receipt, which may be refused. *)
LEMMA PuttingStep ==
  ASSUME ExtractionInv, NEW h \in ExtractionHosts, NEW st, RunSound(artifacts, st), NEW status,
         PutOrFail(h, st, status), UNCHANGED <<artifacts, curated, archiveFile, distills>>
  PROVE  ExtractionInv'
<1>1. Backed(artifacts, binding') /\ (binding # Unbound => binding' = binding)
  BY PutKeeps DEF PutOrFail, ExtractionInv, RunSound
<1>2. Extracting(h, IF BindingHolds(st.bound) THEN st ELSE AtRest)
  BY DEF PutOrFail
<1>3. RunSound(artifacts, IF BindingHolds(st.bound) THEN st ELSE AtRest)
  BY RestIsSound
<1> QED
  BY <1>1, <1>2, <1>3, HostStep DEF ExtractionInv

(* An artifact appears where there was none. *)
LEMMA StoringStep ==
  ASSUME ExtractionInv, NEW h \in ExtractionHosts, StoreArtifact(h)
  PROVE  ExtractionInv'
<1> DEFINE st == extracting[h]
           result == DistillationResult(st)
<1>1. /\ RunSound(artifacts, st) /\ st.phase = "store" /\ st.experience \in Experiences
      /\ st.bound = Unbound /\ st.run \in Nat \ {0}
  BY DEF ExtractionInv, StoreArtifact, At, RunSound, Distilling
<1>2. result # NoArtifact
  BY <1>1 DEF DistillationResult, NoArtifact
<1>3. CASE RunFails(h) /\ UNCHANGED artifacts
  BY <1>3, FailingStep DEF StoreArtifact, ExtractionInv
<1>4. CASE /\ Extracting(h, [st EXCEPT !.phase = "distilled", !.result = result])
           /\ UNCHANGED <<artifacts, binding>>
  <2>1. RunSound(artifacts, [st EXCEPT !.phase = "distilled", !.result = result])
    BY <1>1 DEF RunSound, RunShape, RunFields, Distilling
  <2> QED
    BY <1>4, <2>1, HostStep DEF StoreArtifact, ExtractionInv
<1>5. CASE /\ ~Collision(st)
           /\ artifacts' = [artifacts EXCEPT ![st.experience] = result]
           /\ Extracting(h, Replay(st, result)) /\ UNCHANGED binding
  <2>1. /\ DOMAIN artifacts' = Experiences
        /\ artifacts' = [e \in Experiences |-> artifacts'[e]]
        /\ artifacts'[st.experience] = result
        /\ \A e \in Experiences : artifacts[e] # NoArtifact => artifacts'[e] = artifacts[e]
    BY <1>1, <1>5 DEF ExtractionInv, Collision
  <2>2. ASSUME NEW b, Backed(artifacts, b) PROVE Backed(artifacts', b)
    BY <2>1, <2>2 DEF Backed
  <2>3. ASSUME NEW r, RunSound(artifacts, r) PROVE RunSound(artifacts', r)
    BY <2>2, <2>3 DEF RunSound
  <2>4. RunSound(artifacts', Replay(st, result))
    <3>1. /\ RunShape(Replay(st, result))
          /\ Replay(st, result).bound = Bound(st.experience, result)
          /\ Replay(st, result).phase = "bind"
          /\ Replay(st, result).experience = st.experience
          /\ Replay(st, result).result = result
      BY <1>1 DEF RunSound, RunShape, RunFields, Replay
    <3>2. Bound(st.experience, result).ref = st.experience
          /\ Bound(st.experience, result).checksum = result
      BY DEF Bound
    <3> HIDE DEF result, st
    <3> QED
      BY <1>1, <1>2, <2>1, <3>1, <3>2 DEF RunSound, Backed, Distilling
  <2>5. /\ extracting' = [k \in ExtractionHosts |-> extracting'[k]]
        /\ \A k \in ExtractionHosts : RunSound(artifacts', extracting'[k])
    BY <1>5, <2>3, <2>4 DEF ExtractionInv, Extracting
  <2>6. Backed(artifacts', binding')
    BY <1>5, <2>2 DEF ExtractionInv
  <2>7. archiveFile' = archiveFile /\ distills' = distills /\ curated' = curated
    BY DEF StoreArtifact
  <2> QED
    BY <1>5, <2>1, <2>5, <2>6, <2>7 DEF ExtractionInv, CuratedSound
<1> QED
  BY <1>3, <1>4, <1>5 DEF StoreArtifact

(* Only the units of a sound run go on to curation. *)
LEMMA CuratingStep ==
  ASSUME ExtractionInv, NEW h \in ExtractionHosts, PutDistilled(h)
  PROVE  ExtractionInv'
<1> DEFINE st == extracting[h]
           next == [st EXCEPT !.phase = "curate"]
<1>1. RunSound(artifacts, st) /\ st.phase = "distilled"
  BY DEF ExtractionInv, PutDistilled, At
<1>2. RunSound(artifacts, next) /\ next.bound = st.bound
  BY <1>1 DEF RunSound, RunShape, RunFields, Distilling
<1>3. /\ PutOrFail(h, next, "open")
      /\ UNCHANGED <<artifacts, archiveFile, distills>>
      /\ curated' = IF BindingHolds(st.bound)
                    THEN curated \cup {[result |-> st.result, binding |-> binding']} ELSE curated
  BY DEF PutDistilled
<1>4. Backed(artifacts, binding') /\ (binding # Unbound => binding' = binding)
  BY <1>2, <1>3, PutKeeps DEF PutOrFail, ExtractionInv, RunSound
<1>5. BindingHolds(st.bound) => binding' = st.bound
  BY <1>2, <1>3 DEF PutOrFail, PutExtraction
<1>6. CuratedSound'
  BY <1>1, <1>3, <1>4, <1>5 DEF ExtractionInv, CuratedSound, RunSound
<1>7. /\ extracting' = [k \in ExtractionHosts |-> extracting'[k]]
      /\ \A k \in ExtractionHosts : RunSound(artifacts', extracting'[k])
  BY <1>2, <1>3, RestIsSound DEF ExtractionInv, PutOrFail, Extracting
<1> QED
  BY <1>3, <1>4, <1>6, <1>7 DEF ExtractionInv

(* Going on to a document leaves the rest of a run as it is. *)
LEMMA TurnIsSound ==
  ASSUME NEW arts, NEW st, RunSound(arts, st), NEW d,
         st.bound = Unbound, st.run \in Nat \ {0}, st.experience \in Experiences
  PROVE  RunSound(arts, Turn(st, d))
<1> DEFINE phase == IF d > Len(Documents) THEN "store"
                    ELSE IF Documents[d].user THEN "preflight" ELSE "retain"
           turned == [st EXCEPT !.document = d, !.listed = 0, !.phase = phase]
<1>1. phase \in Distilling
  BY DEF Distilling
<1>2. Turn(st, d) = turned
  BY DEF Turn
<1> HIDE DEF phase
<1>3. /\ RunShape(turned) /\ turned.bound = st.bound /\ turned.run = st.run
      /\ turned.experience = st.experience /\ turned.phase = phase
  BY DEF RunSound, RunShape, RunFields
<1>4. phase \notin {"rest", "bind", "distilled", "curate"}
  BY <1>1 DEF Distilling
<1> HIDE DEF turned
<1> QED
  BY <1>1, <1>2, <1>3, <1>4 DEF RunSound

(* The steps of a host. *)
LEMMA HostIsSound ==
  ASSUME ExtractionInv, NEW h \in ExtractionHosts, ExtractionStep(h)
  PROVE  ExtractionInv'
<1> DEFINE st == extracting[h]
<1>0. /\ RunSound(artifacts, st) /\ Backed(artifacts, binding) /\ distills \in Nat
      /\ archiveFile \in Experiences \cup {NoExperience}
      /\ \A e \in Experiences : e # NoExperience
  BY ExtractionAssumption DEF ExtractionInv
<1>1. ASSUME NEW calling \in Callings, BeginRun(h, calling) PROVE ExtractionInv'
  <2> DEFINE next == [AtRest EXCEPT !.phase = "open", !.bound = binding,
                                    !.experience = calling[1], !.stored = calling[2]]
  <2>1. calling[1] \in Experiences
    BY ExtractionAssumption
  <2>2. RunSound(artifacts, next)
    BY <1>0, <2>1 DEF RunSound, RunShape, RunFields, AtRest, Distilling
  <2> QED
    BY <1>0, <1>1, <2>2, HostStep DEF BeginRun
<1>2. CASE OpenReceipt(h)
  <2> DEFINE phase == IF st.puts = 0 THEN "open" ELSE "archive"
             next == [st EXCEPT !.puts = @ + 1, !.phase = phase]
  <2>1. phase \in {"open", "archive"} /\ st.phase = "open"
    BY <1>2 DEF OpenReceipt, At
  <2>2. PutOrFail(h, next, "open")
    BY <1>2 DEF OpenReceipt
  <2> HIDE DEF phase
  <2>3. RunSound(artifacts, next)
    BY <1>0, <2>1 DEF RunSound, RunShape, RunFields, Distilling
  <2> QED
    BY <1>2, <2>2, <2>3, PuttingStep DEF OpenReceipt
<1>3. CASE Archive(h)
  <2>1. st.phase = "archive" /\ st.experience \in Experiences
    BY <1>0, <1>3 DEF Archive, At, RunSound
  <2>2. CASE /\ archiveFile' = st.experience /\ UNCHANGED binding
             /\ Extracting(h, [st EXCEPT !.phase = "archived"])
    <3>1. RunSound(artifacts, [st EXCEPT !.phase = "archived"])
      BY <1>0, <2>1 DEF RunSound, RunShape, RunFields, Distilling
    <3> QED
      BY <1>0, <1>3, <2>1, <2>2, <3>1, HostStep DEF Archive
  <2>3. CASE RunFails(h) /\ UNCHANGED archiveFile
    BY <1>0, <1>3, <2>3, FailingStep DEF Archive
  <2>4. CASE /\ archiveFile # NoExperience /\ UNCHANGED <<archiveFile, binding>>
             /\ Extracting(h, [st EXCEPT !.phase = "archived", !.experience = archiveFile])
    <3>1. RunSound(artifacts, [st EXCEPT !.phase = "archived", !.experience = archiveFile])
      BY <1>0, <2>1, <2>4 DEF RunSound, RunShape, RunFields, Distilling
    <3> QED
      BY <1>0, <1>3, <2>4, <3>1, HostStep DEF Archive
  <2> QED
    BY <1>3, <2>2, <2>3, <2>4 DEF Archive
<1>4. CASE PutArchived(h)
  <2>1. st.phase = "archived"
    BY <1>4 DEF PutArchived, At
  <2>2. RunSound(artifacts, [st EXCEPT !.phase = "artifact"])
    BY <1>0, <2>1 DEF RunSound, RunShape, RunFields, Distilling
  <2> QED
    BY <1>4, <2>2, PuttingStep DEF PutArchived
<1>5. CASE TakeArtifact(h)
  <2>1. st.phase = "artifact" /\ st.experience \in Experiences
    BY <1>0, <1>5 DEF TakeArtifact, At, RunSound
  <2>2. CASE RunFails(h) /\ UNCHANGED distills
    BY <1>0, <1>5, <2>2, FailingStep DEF TakeArtifact
  <2>3. CASE /\ artifacts[st.experience] # NoArtifact
             /\ Extracting(h, Replay(st, artifacts[st.experience]))
             /\ UNCHANGED <<distills, binding>>
    <3> DEFINE result == artifacts[st.experience]
               next == Replay(st, result)
    <3>1. /\ RunShape(next) /\ next.bound = Bound(st.experience, result) /\ next.phase = "bind"
          /\ next.experience = st.experience /\ next.result = result
      BY <1>0 DEF RunSound, RunShape, RunFields, Replay
    <3>2. /\ Bound(st.experience, result).ref = st.experience
          /\ Bound(st.experience, result).checksum = result
      BY DEF Bound
    <3> HIDE DEF next
    <3>3. RunSound(artifacts, next)
      BY <2>1, <2>3, <3>1, <3>2 DEF RunSound, Backed, Distilling
    <3> QED
      BY <1>0, <1>5, <2>3, <3>3, HostStep DEF TakeArtifact, next
  <2>4. CASE /\ st.bound = Unbound \/ (st.stored /\ Verified(st))
             /\ ~(st.stored /\ artifacts[st.experience] # NoArtifact)
             /\ distills' = distills + 1 /\ UNCHANGED binding
             /\ Extracting(h, Turn([st EXCEPT !.run = distills'], 1))
    <3>1. st.bound = Unbound
      BY <1>0, <2>1, <2>4 DEF RunSound, Backed, Verified, Bound
    <3> DEFINE asking == [st EXCEPT !.run = distills']
    <3>2. /\ RunShape(asking) /\ asking.bound = st.bound /\ asking.phase = st.phase
          /\ asking.experience = st.experience /\ asking.run = distills'
          /\ asking.result = st.result
      BY <1>0 DEF RunSound, RunShape, RunFields
    <3>3. distills' \in Nat \ {0}
      BY <1>0, <2>4
    <3> HIDE DEF asking
    <3>4. RunSound(artifacts, asking)
      BY <1>0, <2>1, <3>1, <3>2, <3>3 DEF RunSound
    <3>5. RunSound(artifacts, Turn(asking, 1))
      BY <2>1, <3>1, <3>2, <3>3, <3>4, TurnIsSound
    <3> QED
      BY <1>0, <1>5, <2>4, <3>3, <3>5, HostStep DEF TakeArtifact, asking
  <2> QED
    BY <1>5, <2>2, <2>3, <2>4 DEF TakeArtifact
<1>6. CASE Preflight(h)
  <2> DEFINE status == operations[st.document].status
             phase == CASE status = "completed" -> "list"
                        [] status = "pending" -> "wait"
                        [] OTHER -> "retain"
  <2>1. phase \in {"list", "wait", "retain"} /\ st.phase = "preflight"
    BY <1>6 DEF Preflight, At
  <2>2. Extracting(h, [st EXCEPT !.phase = phase])
    BY <1>6 DEF Preflight
  <2> HIDE DEF phase
  <2>3. RunSound(artifacts, [st EXCEPT !.phase = phase])
    BY <1>0, <2>1 DEF RunSound, RunShape, RunFields, Distilling
  <2> QED
    BY <1>0, <1>6, <2>2, <2>3, HostStep DEF Preflight
<1>7. CASE Retain(h)
  <2>1. st.phase = "retain"
    BY <1>7 DEF Retain, At
  <2>2. RunSound(artifacts, [st EXCEPT !.phase = "wait"])
    BY <1>0, <2>1 DEF RunSound, RunShape, RunFields, Distilling
  <2> QED
    BY <1>0, <1>7, <2>2, HostStep DEF Retain
<1>8. CASE RetainFails(h)
  BY <1>0, <1>8, FailingStep DEF RetainFails
<1>9. CASE waitForAsyncRetain(h)
  <2>1. st.phase = "wait"
    BY <1>9 DEF waitForAsyncRetain, At
  <2>2. RunSound(artifacts, [st EXCEPT !.phase = "list"])
    BY <1>0, <2>1 DEF RunSound, RunShape, RunFields, Distilling
  <2>3. CASE Extracting(h, [st EXCEPT !.phase = "list"]) /\ UNCHANGED binding
    BY <1>0, <1>9, <2>2, <2>3, HostStep DEF waitForAsyncRetain
  <2>4. CASE RunFails(h)
    BY <1>0, <1>9, <2>4, FailingStep DEF waitForAsyncRetain
  <2> QED
    BY <1>9, <2>3, <2>4 DEF waitForAsyncRetain
<1>10. CASE listDocumentMemories(h)
  <2>1. /\ st.phase = "list" /\ st.bound = Unbound /\ st.run \in Nat \ {0}
        /\ st.experience \in Experiences
    BY <1>0, <1>10 DEF listDocumentMemories, At, RunSound, Distilling
  <2>2. CASE RunFails(h)
    BY <1>0, <1>10, <2>2, FailingStep DEF listDocumentMemories
  <2>3. ASSUME NEW items, NEW listed, UNCHANGED binding,
               LET more == [st EXCEPT !.items = items, !.listed = listed]
               IN Extracting(h, more) \/ Extracting(h, Turn(more, st.document + 1))
        PROVE  ExtractionInv'
    <3> DEFINE more == [st EXCEPT !.items = items, !.listed = listed]
    <3>1. /\ RunShape(more) /\ more.bound = st.bound /\ more.phase = st.phase
          /\ more.experience = st.experience /\ more.run = st.run /\ more.result = st.result
      BY <1>0 DEF RunSound, RunShape, RunFields
    <3>2. Extracting(h, more) \/ Extracting(h, Turn(more, st.document + 1))
      BY <2>3
    <3> HIDE DEF more
    <3>3. RunSound(artifacts, more)
      BY <1>0, <2>1, <3>1 DEF RunSound
    <3>4. RunSound(artifacts, Turn(more, st.document + 1))
      BY <2>1, <3>1, <3>3, TurnIsSound
    <3> QED
      BY <1>0, <1>10, <2>3, <3>2, <3>3, <3>4, HostStep DEF listDocumentMemories
  <2> QED
    BY <1>10, <2>2, <2>3 DEF listDocumentMemories
<1>11. CASE BindReceipt(h)
  <2>1. st.phase = "bind"
    BY <1>11 DEF BindReceipt, At
  <2>2. RunSound(artifacts, [st EXCEPT !.phase = "distilled"])
    BY <1>0, <2>1 DEF RunSound, RunShape, RunFields, Distilling
  <2> QED
    BY <1>11, <2>2, PuttingStep DEF BindReceipt
<1>12. CASE CloseRun(h)
  BY <1>12, PuttingStep, RestIsSound DEF CloseRun
<1>13. CASE RunThrows(h)
  BY <1>0, <1>13, FailingStep DEF RunThrows
<1>14. CASE ExtractionDies(h)
  BY <1>0, <1>14, HostStep, RestIsSound DEF ExtractionDies
<1> QED
  BY <1>1, <1>2, <1>3, <1>4, <1>5, <1>6, <1>7, <1>8, <1>9, <1>10, <1>11, <1>12, <1>13, <1>14,
     StoringStep, CuratingStep DEF ExtractionStep

(* Every step keeps the invariant: the provider's steps touch nothing it   *)
(* speaks of.                                                              *)
LEMMA NextSound == ExtractionInv /\ [ExtractionNext]_extractionVars => ExtractionInv'
<1> SUFFICES ASSUME ExtractionInv, [ExtractionNext]_extractionVars PROVE ExtractionInv'
  OBVIOUS
<1>1. CASE UNCHANGED <<archiveFile, artifacts, binding, extracting, curated, distills>>
  BY <1>1 DEF ExtractionInv, CuratedSound
<1>2. ASSUME NEW h \in ExtractionHosts, ExtractionStep(h) PROVE ExtractionInv'
  BY <1>2, HostIsSound
<1>3. ASSUME NEW d \in DOMAIN Documents, ExtractFragment(d) \/ EndOperation(d)
      PROVE  ExtractionInv'
  BY <1>1, <1>3 DEF ExtractFragment, EndOperation
<1>4. CASE UNCHANGED extractionVars
  BY <1>1, <1>4 DEF extractionVars
<1> QED
  BY <1>2, <1>3, <1>4 DEF ExtractionNext

(* Whatever hosts, sources and faults there are: once a receipt names an   *)
(* artifact it can be resolved, and everything that goes on to curation    *)
(* under it is that artifact's result.                                     *)
THEOREM OneExtractionHolds == ExtractionSpec => []OneExtraction
<1>1. ExtractionInv => OneExtraction
  BY DEF ExtractionInv, Backed, CuratedSound, OneExtraction
<1> QED
  BY <1>1, InitSound, NextSound, PTL DEF ExtractionSpec

-----------------------------------------------------------------------------
(* The semantic review *)

HostStates ==
  [phase : {"idle", "unit", "enqueue", "sample", "queue"}, unit : Nat,
   record : ReviewRecords \cup {NoValue}, sample : 0 .. ReviewUnits]
CallStates ==
  [phase : {"none", "get", "prior", "store", "done", "failed"},
   request : ReviewRequests \cup {NoValue}, current : CaseStates \cup {NoValue}]
ClosureStates ==
  [phase : {"idle", "apply", "resolving", "deferred", "reported"},
   unit : Nat, plan : Seq(Nat), known : SUBSET U, records : {<< >>}]
CanaryStates ==
  [phase : {"idle", "decide", "resolving", "cases", "eligible"},
   unit : Nat, plan : {<< >>}, known : SUBSET U,
   records : {<< >>} \cup [U -> ReviewRecords \cup {NoValue}]]
Callers == Reviewers \cup Tools

(* The states in which the host, a call and the tools start. *)
LEMMA IdleStates ==
  /\ HostIdle \in HostStates /\ HostIdle.phase = "idle"
  /\ NoCall \in CallStates /\ NoCall.phase = "none"
  /\ ToolIdle \in ClosureStates /\ ToolIdle.phase = "idle" /\ ToolIdle.unit = 0
  /\ ToolIdle.plan = << >>
  /\ ToolIdle \in CanaryStates
BY ReviewAssumption DEF HostIdle, NoCall, ToolIdle, HostStates, CallStates, ClosureStates, CanaryStates

(* The sample is a unit of the receipt, or there is none. *)
LEMMA SampleType ==
  ASSUME NEW records
  PROVE  SampleOf(records) \in 0 .. ReviewUnits
<1> DEFINE canonical == {u \in U : records[u].outcome \in Canonical}
           decided == {u \in U : records[u].outcome # "pending_review"}
           pick == IF canonical # {} THEN canonical ELSE decided
<1>1. pick \subseteq U
  OBVIOUS
<1> HIDE DEF pick
<1>2. pick # {} => \E x \in pick : \A y \in pick : x <= y
  BY <1>1, ReviewAssumption, LeastMember DEF U
<1>3. pick # {} => (CHOOSE u \in pick : \A v \in pick : u <= v) \in U
  BY <1>1, <1>2
<1>4. SampleOf(records) = IF pick = {} THEN 0 ELSE CHOOSE u \in pick : \A v \in pick : u <= v
  BY DEF SampleOf, pick
<1> QED
  BY <1>3, <1>4, ReviewAssumption DEF U

-----------------------------------------------------------------------------
(* What the types leave open of the programs' states: the host enqueues a  *)
(* record of a unit, a call past its first read has a case, and the        *)
(* closure's plan is as long as it has got and about cases that exist.     *)
HostAt ==
  reviewHost.phase = "enqueue" => reviewHost.unit \in U /\ reviewHost.record \in ReviewRecords
CallsAt ==
  \A a \in Callers :
    /\ calls[a].phase \in {"get", "prior", "store"} => calls[a].request \in ReviewRequests
    /\ calls[a].phase \in {"prior", "store"} =>
         calls[a].current \in CaseStates /\ reviewCases[calls[a].request.unit] # NoValue
PlanAt ==
  /\ closure.phase = "idle" => Len(closure.plan) = closure.unit
  /\ closure.phase \in {"apply", "resolving"} => Len(closure.plan) = ReviewUnits
  /\ \A u \in U :
       /\ Closing[u] # NoValue
       /\ closure.phase # "idle" \/ u <= closure.unit
       => reviewCases[u] # NoValue

Shape == ReviewTypeOK /\ HostAt /\ CallsAt /\ PlanAt

(* A request is about a unit of the receipt, and what it decides is a      *)
(* decision.                                                               *)
LEMMA RequestFacts ==
  ASSUME NEW r \in ReviewRequests
  PROVE  r.unit \in U /\ DecisionOf(r) \in ReviewDecisions
<1>1. CASE r \in Submitted
  <2>1. r.disposition \in PendingDispositions \cup SampleDispositions /\ r.unit \in U
    BY <1>1, ReviewAssumption
  <2> QED
    BY <1>1, <2>1 DEF DecisionOf, ReviewDecisions
<1>2. CASE r \notin Submitted
  BY <1>2 DEF ReviewRequests, DecisionOf, ReviewDecisions, ClosingDispositions, PendingDispositions
<1> QED
  BY <1>1, <1>2

(* An enqueue that goes through leaves the case of the unit as it is, or   *)
(* makes it where there was none.                                          *)
LEMMA EnqueueFacts ==
  ASSUME ReviewTypeOK, NEW u \in U, NEW record \in ReviewRecords,
         NEW trigger \in {"pending_review", "canary_sample"}, Enqueue(u, record, trigger)
  PROVE  /\ reviewCases' \in [U -> Cases \cup {NoValue}]
         /\ reviewEvents' \subseteq CaseEvents
         /\ \/ UNCHANGED <<reviewCases, reviewEvents>> /\ reviewCases[u] # NoValue
            \/ /\ reviewCases[u] = NoValue
               /\ \A v \in U : v # u => reviewCases'[v] = reviewCases[v]
               /\ reviewCases'[u] # NoValue
               /\ reviewCases'[u] = [trigger |-> trigger, facts |-> record.facts,
                    status |-> "pending", version |-> 1, decision |-> NoValue]
               /\ reviewEvents' = reviewEvents \cup
                    {[unit |-> u, type |-> "enqueued", version |-> 1, decision |-> NoValue]}
<1>1. CASE reviewCases[u] # NoValue
  BY <1>1 DEF ReviewTypeOK, Enqueue
<1>2. CASE reviewCases[u] = NoValue
  <2> DEFINE row == [trigger |-> trigger, facts |-> record.facts, status |-> "pending",
                     version |-> 1, decision |-> NoValue]
             event == [unit |-> u, type |-> "enqueued", version |-> 1, decision |-> NoValue]
  <2>1. reviewCases' = [reviewCases EXCEPT ![u] = row] /\ reviewEvents' = reviewEvents \cup {event}
    BY <1>2 DEF Enqueue
  <2>2. row \in Cases
    BY DEF Cases, ReviewFacts
  <2>3. event \in CaseEvents
    BY DEF CaseEvents
  <2>4. row # NoValue
    BY <2>2, NoValueAssumption
  <2> SUFFICES /\ reviewCases' \in [U -> Cases \cup {NoValue}]
               /\ reviewEvents' \subseteq CaseEvents
               /\ \A v \in U : v # u => reviewCases'[v] = reviewCases[v]
               /\ reviewCases'[u] = row
    BY <1>2, <2>1, <2>4
  <2> HIDE DEF row, event
  <2> QED
    BY <2>1, <2>2, <2>3 DEF ReviewTypeOK
<1> QED
  BY <1>1, <1>2

(* The host keeps its state and the tables in their shapes. *)
LEMMA HostShape ==
  ASSUME Shape, Host
  PROVE  Shape'
<1> USE DEF Shape
<1>1. reviewHost \in HostStates /\ curation \in [U -> ReviewRecords \cup {NoValue}]
  BY DEF ReviewTypeOK, HostStates
<1>2. NextReviewUnit \in HostStates /\ NextReviewUnit.phase = "unit"
  <2>1. PICK n \in Nat : n = reviewHost.unit + 1
    BY <1>1 DEF HostStates
  <2>2. [reviewHost EXCEPT !.phase = "unit", !.unit = n, !.record = NoValue] \in HostStates
    BY <1>1 DEF HostStates
  <2> QED
    BY <1>1, <2>1, <2>2 DEF NextReviewUnit, HostStates
<1> DEFINE Rest == UNCHANGED <<calls, tools, bindings>> /\ hostFaults' \in Nat
           Typed == /\ reviewHost' \in HostStates
                    /\ reviewHost'.phase = "enqueue" =>
                         reviewHost'.unit \in U /\ reviewHost'.record \in ReviewRecords
           Same == UNCHANGED <<reviewCases, reviewEvents, curation>>
<1>3. ASSUME Rest, Typed, curation' \in [U -> ReviewRecords \cup {NoValue}],
             receiptOpen' \in BOOLEAN,
             reviewCases' \in [U -> Cases \cup {NoValue}], reviewEvents' \subseteq CaseEvents,
             \A u \in U : reviewCases[u] # NoValue => reviewCases'[u] # NoValue
      PROVE  Shape'
  <2>1. ReviewTypeOK'
    BY <1>3 DEF HostStates, ReviewTypeOK, tools
  <2>2. HostAt' /\ PlanAt'
    BY <1>3 DEF HostAt, PlanAt, tools
  <2>3. CallsAt'
    BY <1>3, RequestFacts DEF CallsAt
  <2> QED
    BY <2>1, <2>2, <2>3
<1>4. ASSUME Rest, Typed, Same, receiptOpen' \in BOOLEAN
      PROVE  Shape'
  BY <1>1, <1>3, <1>4 DEF ReviewTypeOK
<1> USE IdleStates
<1>5. CASE HostStart
  <2>1. /\ [HostIdle EXCEPT !.phase = "unit", !.unit = 1] \in HostStates
        /\ [HostIdle EXCEPT !.phase = "unit", !.unit = 1].phase = "unit"
        /\ [HostIdle EXCEPT !.phase = "sample"] \in HostStates
        /\ [HostIdle EXCEPT !.phase = "sample"].phase = "sample"
    BY DEF HostStates
  <2> QED
    BY <1>5, <2>1, <1>4 DEF HostStart, ReviewTypeOK, tables
<1>6. CASE HostPut
  <2>1. CASE reviewHost' = NextReviewUnit /\ UNCHANGED curation
    BY <1>2, <1>4, <1>6, <2>1 DEF HostPut, ReviewTypeOK
  <2>2. ASSUME NEW j \in Judgements[reviewHost.unit], reviewHost.unit \in U,
               curation' = [curation EXCEPT ![reviewHost.unit] = j],
               reviewHost' = IF j.outcome = "pending_review"
                 THEN [reviewHost EXCEPT !.phase = "enqueue", !.record = j]
                 ELSE NextReviewUnit
        PROVE  Shape'
    <3>1. j \in ReviewRecords
      BY <2>2 DEF ReviewRecords
    <3>2. curation' \in [U -> ReviewRecords \cup {NoValue}]
      BY <1>1, <2>2, <3>1
    <3> DEFINE h == [reviewHost EXCEPT !.phase = "enqueue", !.record = j]
    <3>3. h \in HostStates /\ h.unit = reviewHost.unit /\ h.record = j
      BY <1>1, <3>1 DEF HostStates
    <3>4. Typed
      BY <1>2, <2>2, <3>1, <3>3
    <3> QED
      BY <1>3, <1>6, <3>2, <3>4 DEF HostPut, ReviewTypeOK
  <2> QED
    BY <1>6, <2>1, <2>2 DEF HostPut
<1>7. CASE HostEnqueue
  <2>1. reviewHost.unit \in U /\ reviewHost.record \in ReviewRecords
    BY <1>7 DEF HostEnqueue, HostAt
  <2>2. Typed
    BY <1>2, <1>7 DEF HostEnqueue
  <2>3. CASE UNCHANGED <<reviewCases, reviewEvents>>
    BY <1>4, <1>7, <2>2, <2>3 DEF HostEnqueue, ReviewTypeOK
  <2>4. CASE Enqueue(reviewHost.unit, reviewHost.record, "pending_review")
    <3>1. /\ reviewCases' \in [U -> Cases \cup {NoValue}] /\ reviewEvents' \subseteq CaseEvents
          /\ \A u \in U : reviewCases[u] # NoValue => reviewCases'[u] # NoValue
      BY <2>1, <2>4, EnqueueFacts
    <3> QED
      BY <1>1, <1>3, <1>7, <2>2, <3>1 DEF HostEnqueue, ReviewTypeOK
  <2> QED
    BY <1>7, <2>3, <2>4 DEF HostEnqueue
<1>8. CASE HostClose
  <2>1. /\ [HostIdle EXCEPT !.phase = "sample"] \in HostStates
        /\ [HostIdle EXCEPT !.phase = "sample"].phase = "sample"
    BY DEF HostStates
  <2> QED
    BY <1>8, <2>1, <1>4 DEF HostClose, ReviewTypeOK
<1>9. CASE HostSample
  <2>1. SampleOf(curation) \in 0 .. ReviewUnits
    BY SampleType
  <2> DEFINE h == [HostIdle EXCEPT !.phase = "queue", !.unit = 1, !.sample = SampleOf(curation)]
  <2>2. h \in HostStates /\ h.phase = "queue"
    BY <2>1 DEF HostStates
  <2> QED
    BY <1>9, <2>2, <1>4 DEF HostSample, ReviewTypeOK, tables
<1>10. CASE HostQueue
  <2> DEFINE u == reviewHost.unit
             trigger == IF curation[u].outcome = "pending_review" THEN "pending_review" ELSE "canary_sample"
             onward == [reviewHost EXCEPT !.unit = @ + 1]
  <2>1. onward \in HostStates /\ onward.phase = "queue"
    BY <1>1, <1>10 DEF HostStates, HostQueue
  <2> HIDE DEF onward
  <2>2. Typed
    BY <1>10, <2>1 DEF HostQueue, onward
  <2>3. CASE UNCHANGED <<reviewCases, reviewEvents>>
    BY <1>4, <1>10, <2>2, <2>3 DEF HostQueue, ReviewTypeOK
  <2>4. CASE Enqueues(u, curation[u], trigger) /\ Enqueue(u, curation[u], trigger)
    <3>1. u \in U /\ curation[u] \in ReviewRecords
      BY <1>1, <1>10, <2>4 DEF HostQueue, Enqueues
    <3>2. trigger \in {"pending_review", "canary_sample"}
      OBVIOUS
    <3> HIDE DEF trigger
    <3>3. /\ reviewCases' \in [U -> Cases \cup {NoValue}] /\ reviewEvents' \subseteq CaseEvents
          /\ \A v \in U : reviewCases[v] # NoValue => reviewCases'[v] # NoValue
      BY <2>4, <3>1, <3>2, EnqueueFacts
    <3> QED
      BY <1>1, <1>3, <1>10, <2>2, <3>3 DEF HostQueue, ReviewTypeOK
  <2> QED
    BY <1>10, <2>3, <2>4 DEF HostQueue
<1>11. CASE HostQueued
  BY <1>11, <1>4 DEF HostQueued, ReviewTypeOK, tables
<1>12. CASE HostDies
  BY <1>12, <1>4 DEF HostDies, ReviewTypeOK, tables
<1> QED
  BY <1>5, <1>6, <1>7, <1>8, <1>9, <1>10, <1>11, <1>12 DEF Host

(* What the transaction of resolve finds when it writes: no event has the  *)
(* key, and the case still has the version that the call read.             *)
Decides(a, r) ==
  LET c == reviewCases[r.unit]
      d == reviewCases'[r.unit]
  IN
  /\ calls[a].phase = "store" /\ r = calls[a].request /\ r \in ReviewRequests
  /\ PriorEvents(r) = {}
  /\ c \in Cases /\ c # NoValue /\ c.version = calls[a].current.version
  /\ \A v \in U : v # r.unit => reviewCases'[v] = reviewCases[v]
  /\ d \in Cases /\ d # NoValue
  /\ d.trigger = c.trigger /\ d.facts = c.facts
  /\ d.status = StatusAfter(r) /\ d.version = c.version + 1 /\ d.decision = DecisionOf(r)
  /\ reviewEvents' = reviewEvents \cup
       {[unit |-> r.unit, type |-> StatusAfter(r), version |-> c.version + 1,
         decision |-> DecisionOf(r)]}

(* The transaction of resolve writes that, or nothing. *)
LEMMA StoreFacts ==
  ASSUME Shape, NEW a \in Callers, StoreResolve(a)
  PROVE  /\ reviewCases' \in [U -> Cases \cup {NoValue}] /\ reviewEvents' \subseteq CaseEvents
         /\ UNCHANGED <<reviewCases, reviewEvents>> \/ Decides(a, calls[a].request)
<1> DEFINE r == calls[a].request
           c == reviewCases[r.unit]
           n == calls[a].current.version
           event == [unit |-> r.unit, type |-> StatusAfter(r), version |-> n + 1,
                     decision |-> DecisionOf(r)]
<1> USE DEF Shape
<1>1. CASE UNCHANGED <<reviewCases, reviewEvents>>
  BY <1>1 DEF ReviewTypeOK
<1>2. CASE ~UNCHANGED <<reviewCases, reviewEvents>>
  <2>1. /\ calls[a].phase = "store" /\ PriorEvents(r) = {} /\ ~Refuses(r, event)
        /\ reviewCases' = [reviewCases EXCEPT ![r.unit] =
             [c EXCEPT !.status = event.type, !.version = event.version,
                       !.decision = event.decision]]
        /\ reviewEvents' = reviewEvents \cup {event}
    BY <1>2 DEF StoreResolve
  <2>2. r \in ReviewRequests /\ r.unit \in U /\ DecisionOf(r) \in ReviewDecisions
        /\ c # NoValue /\ calls[a].current \in CaseStates
    BY <2>1, RequestFacts DEF CallsAt
  <2>3. c \in Cases /\ n \in Nat \ {0}
    BY <2>2 DEF ReviewTypeOK, CaseStates
  <2>4. n + 1 = r.version + 1 /\ c.version = r.version
    BY <2>1 DEF Refuses, validateResolutionBinding, VersionHolds
  <2>5. c.version = n
    BY <2>3, <2>4 DEF Cases
  <2>6. StatusAfter(r) \in {"deferred", "resolved"}
    BY DEF StatusAfter
  <2>7. event \in CaseEvents
    BY <2>2, <2>3, <2>6 DEF CaseEvents
  <2>8. PICK k \in Nat \ {0} : k = n + 1
    BY <2>3
  <2> DEFINE d == [c EXCEPT !.status = StatusAfter(r), !.version = k, !.decision = DecisionOf(r)]
  <2>9. /\ d \in Cases /\ d.trigger = c.trigger /\ d.facts = c.facts
        /\ d.status = StatusAfter(r) /\ d.version = k /\ d.decision = DecisionOf(r)
    BY <2>2, <2>3, <2>6 DEF Cases
  <2>10. d # NoValue
    BY <2>9, NoValueAssumption
  <2>11. reviewCases' = [reviewCases EXCEPT ![r.unit] = d]
    BY <2>1, <2>8
  <2>12. reviewEvents' = reviewEvents \cup
       {[unit |-> r.unit, type |-> StatusAfter(r), version |-> c.version + 1,
         decision |-> DecisionOf(r)]}
    BY <2>1, <2>5
  <2> HIDE DEF d, event, n
  <2>13. /\ reviewCases'[r.unit] = d /\ \A v \in U : v # r.unit => reviewCases'[v] = reviewCases[v]
         /\ reviewCases' \in [U -> Cases \cup {NoValue}]
    BY <2>2, <2>9, <2>11 DEF ReviewTypeOK
  <2>14. reviewEvents' \subseteq CaseEvents
    BY <2>1, <2>7 DEF ReviewTypeOK
  <2>15. c.version = calls[a].current.version /\ k = c.version + 1
    BY <2>5, <2>8 DEF n
  <2> HIDE DEF c, r
  <2>16. Decides(a, r)
    BY <2>1, <2>2, <2>3, <2>9, <2>10, <2>12, <2>13, <2>15 DEF Decides, c, r
  <2> QED
    BY <2>13, <2>14, <2>16 DEF r
<1> QED
  BY <1>1, <1>2

(* How a call ends. *)
LEMMA EndedType ==
  ASSUME NEW a, NEW x \in {"done", "failed"}
  PROVE  Ended(a, x) \in CallStates
         /\ Ended(a, x).phase = IF a \in Tools THEN x ELSE "none"
<1>1. CASE a \in Tools
  <2>1. Ended(a, x) = [NoCall EXCEPT !.phase = x]
    BY <1>1 DEF Ended
  <2> QED
    BY <1>1, <2>1, IdleStates DEF CallStates
<1>2. CASE a \notin Tools
  <2>1. Ended(a, x) = [NoCall EXCEPT !.phase = "none"]
    BY <1>2 DEF Ended
  <2> QED
    BY <1>2, <2>1, IdleStates DEF CallStates
<1> QED
  BY <1>1, <1>2

(* A call that begins is about a request. *)
LEMMA BeginType ==
  ASSUME NEW r \in ReviewRequests
  PROVE  LET call == [NoCall EXCEPT !.phase = "get", !.request = r]
         IN  call \in CallStates /\ call.phase = "get" /\ call.request = r
BY IdleStates DEF CallStates

(* Calls in new states are in order when the one that changed is. *)
LEMMA CallsShape ==
  ASSUME ReviewTypeOK, CallsAt, NEW a \in Callers, NEW x \in CallStates,
         calls' = [calls EXCEPT ![a] = x],
         reviewCases' \in [U -> Cases \cup {NoValue}],
         \A u \in U : reviewCases[u] # NoValue => reviewCases'[u] # NoValue,
         x.phase \in {"get", "prior", "store"} => x.request \in ReviewRequests,
         x.phase \in {"prior", "store"} =>
           x.current \in CaseStates /\ reviewCases'[x.request.unit] # NoValue
  PROVE  calls' \in [Callers -> CallStates] /\ CallsAt'
<1>1. calls \in [Callers -> CallStates]
  BY DEF ReviewTypeOK, Callers, CallStates
<1>2. calls' \in [Callers -> CallStates] /\ \A b \in Callers : calls'[b] = IF b = a THEN x ELSE calls[b]
  BY <1>1
<1>3. CallsAt'
  BY <1>2, RequestFacts DEF CallsAt
<1> QED
  BY <1>2, <1>3

(* Calls keep their shapes and those of the tables they write. *)
LEMMA ResolveShape ==
  ASSUME Shape, NEW a \in Callers, Resolve(a)
  PROVE  Shape'
<1> USE DEF Shape
<1>1. ASSUME UNCHANGED <<curation, receiptOpen, reviewHost, tools, bindings, hostFaults>>,
             calls' \in [Callers -> CallStates], CallsAt',
             reviewCases' \in [U -> Cases \cup {NoValue}], reviewEvents' \subseteq CaseEvents,
             \A u \in U : reviewCases[u] # NoValue => reviewCases'[u] # NoValue
      PROVE  Shape'
  BY <1>1 DEF ReviewTypeOK, HostAt, PlanAt, tools, Callers, CallStates
<1>2. ASSUME UNCHANGED <<tables, reviewHost, tools, bindings, hostFaults>>,
             calls' \in [Callers -> CallStates], CallsAt'
      PROVE  Shape'
  BY <1>1, <1>2 DEF tables, ReviewTypeOK
<1>3. ASSUME NEW x \in {"done", "failed"}, EndCall(a, x),
             reviewCases' \in [U -> Cases \cup {NoValue}],
             \A u \in U : reviewCases[u] # NoValue => reviewCases'[u] # NoValue
      PROVE  calls' \in [Callers -> CallStates] /\ CallsAt'
  <2>1. Ended(a, x) \in CallStates /\ Ended(a, x).phase \in {"done", "failed", "none"}
    BY EndedType
  <2> QED
    BY <1>3, <2>1, CallsShape DEF EndCall
<1>4. ASSUME NEW x \in {"done", "failed"}, EndCall(a, x),
             UNCHANGED <<tables, reviewHost, tools, bindings, hostFaults>>
      PROVE  Shape'
  <2>1. UNCHANGED reviewCases /\ reviewCases \in [U -> Cases \cup {NoValue}]
    BY <1>4 DEF tables, ReviewTypeOK
  <2> QED
    BY <1>2, <1>3, <1>4, <2>1
<1>5. calls[a] \in CallStates
  BY DEF ReviewTypeOK, Callers, CallStates
<1>6. CASE GetCase(a)
  <2> DEFINE c == reviewCases[calls[a].request.unit]
             now == [status |-> c.status, version |-> c.version]
             call == [calls[a] EXCEPT !.phase = "prior", !.current = now]
  <2>1. CASE c = NoValue
    BY <1>4, <1>6, <2>1 DEF GetCase
  <2>2. CASE c # NoValue
    <3>1. calls' = [calls EXCEPT ![a] = call]
      <4>1. calls' = [calls EXCEPT ![a].phase = "prior", ![a].current = now]
        BY <1>6, <2>2 DEF GetCase
      <4> QED
        BY <4>1, <1>5 DEF ReviewTypeOK, Callers
    <3>2. calls[a].request \in ReviewRequests /\ c \in Cases
      BY <1>6, <2>2, RequestFacts DEF GetCase, CallsAt, ReviewTypeOK
    <3>3. now \in CaseStates
      BY <3>2 DEF Cases, CaseStates
    <3> HIDE DEF now
    <3>4. call \in CallStates /\ call.phase = "prior" /\ call.request = calls[a].request
          /\ call.current = now
      BY <1>5, <3>3 DEF CallStates
    <3>5. UNCHANGED reviewCases /\ reviewCases \in [U -> Cases \cup {NoValue}]
      BY <1>6 DEF tables, ReviewTypeOK, GetCase
    <3> HIDE DEF call
    <3>6. calls' \in [Callers -> CallStates] /\ CallsAt'
      BY <2>2, <3>1, <3>2, <3>3, <3>4, <3>5, CallsShape
    <3> QED
      BY <1>2, <1>6, <3>6 DEF GetCase
  <2> QED
    BY <2>1, <2>2
<1>7. CASE CheckPrior(a)
  <2>1. CASE \E x \in {"done", "failed"} : EndCall(a, x)
    BY <1>4, <1>7, <2>1 DEF CheckPrior
  <2>2. CASE calls' = [calls EXCEPT ![a].phase = "store"]
    <3> DEFINE call == [calls[a] EXCEPT !.phase = "store"]
    <3>1. call \in CallStates /\ call.phase = "store" /\ call.request = calls[a].request
          /\ call.current = calls[a].current
      BY <1>5 DEF CallStates
    <3>2. calls' = [calls EXCEPT ![a] = call]
      BY <2>2
    <3>3. /\ calls[a].request \in ReviewRequests /\ calls[a].current \in CaseStates
          /\ reviewCases[calls[a].request.unit] # NoValue
      BY <1>7 DEF CheckPrior, CallsAt
    <3>4. UNCHANGED reviewCases /\ reviewCases \in [U -> Cases \cup {NoValue}]
      BY <1>7 DEF tables, ReviewTypeOK, CheckPrior
    <3> HIDE DEF call
    <3>5. calls' \in [Callers -> CallStates] /\ CallsAt'
      BY <3>1, <3>2, <3>3, <3>4, CallsShape
    <3> QED
      BY <1>2, <1>7, <3>5 DEF CheckPrior
  <2> QED
    BY <1>7, <2>1, <2>2 DEF CheckPrior
<1>8. CASE StoreResolve(a)
  <2>1. /\ reviewCases' \in [U -> Cases \cup {NoValue}] /\ reviewEvents' \subseteq CaseEvents
        /\ \A u \in U : reviewCases[u] # NoValue => reviewCases'[u] # NoValue
    BY <1>8, StoreFacts DEF Decides
  <2>2. EndCall(a, "failed") \/ EndCall(a, "done")
    BY <1>8 DEF StoreResolve
  <2>3. calls' \in [Callers -> CallStates] /\ CallsAt'
    BY <1>3, <2>1, <2>2
  <2> QED
    BY <1>1, <1>8, <2>1, <2>3 DEF StoreResolve
<1>9. CASE CallBreaks(a)
  BY <1>4, <1>9 DEF CallBreaks
<1> QED
  BY <1>6, <1>7, <1>8, <1>9 DEF Resolve

(* The closure keeps its state in shape, its plan included. *)
LEMMA ClosureShape ==
  ASSUME Shape, Closure
  PROVE  Shape'
<1> USE DEF Shape
<1>1. closure \in ClosureStates /\ calls \in [Callers -> CallStates] /\ "closure" \in Callers
  BY DEF ReviewTypeOK, ClosureStates, Callers, CallStates, Tools
<1>2. ASSUME UNCHANGED <<tables, reviewHost, canary, bindings, hostFaults>>,
             closure' \in ClosureStates, PlanAt', calls' \in [Callers -> CallStates], CallsAt'
      PROVE  Shape'
  BY <1>2 DEF ReviewTypeOK, HostAt, tables, Callers, CallStates, ClosureStates
<1>3. UNCHANGED <<reviewCases, calls>> => calls' \in [Callers -> CallStates] /\ CallsAt'
  BY <1>1 DEF CallsAt
<1>4. ASSUME NEW t \in ClosureStates, ClosureStep(t),
             t.phase = "idle" => Len(t.plan) = t.unit,
             t.phase \in {"apply", "resolving"} => Len(t.plan) = ReviewUnits,
             \A u \in U : /\ Closing[u] # NoValue
                          /\ t.phase # "idle" \/ u <= t.unit
                          => reviewCases[u] # NoValue
      PROVE  Shape'
  BY <1>2, <1>3, <1>4 DEF ClosureStep, SetClosure, PlanAt, tables
<1>5. ASSUME ClosureStep(ToolIdle) PROVE Shape'
  BY <1>4, <1>5, IdleStates, ReviewAssumption DEF U
<1>6. ASSUME NEW x \in CallStates, calls' = [calls EXCEPT !["closure"] = x],
             x.phase \in {"get", "prior", "store"} => x.request \in ReviewRequests,
             x.phase \notin {"prior", "store"}, UNCHANGED reviewCases
      PROVE  calls' \in [Callers -> CallStates] /\ CallsAt'
  BY <1>1, <1>6, CallsShape DEF ReviewTypeOK
<1> DEFINE onward == ClosureOnward
<1>7. /\ onward \in ClosureStates /\ onward.phase = closure.phase /\ onward.plan = closure.plan
      /\ onward.unit = closure.unit + 1
  BY <1>1 DEF ClosureOnward, ClosureStates
<1> HIDE DEF onward
<1>8. CASE ClosurePlan
  <2> DEFINE u == closure.unit + 1
  <2>1. ASSUME NEW n \in Nat, Closing[u] # NoValue => reviewCases[u] # NoValue
        PROVE  ClosureStep([onward EXCEPT !.plan = Append(@, n)]) => Shape'
    <3> DEFINE t == [onward EXCEPT !.plan = Append(@, n)]
    <3>1. closure.plan \in Seq(Nat) /\ Len(closure.plan) = closure.unit
          /\ closure.phase = "idle" /\ closure.unit \in Nat
      BY <1>1, <1>8 DEF ClosurePlan, PlanAt, ClosureStates
    <3>2. Append(closure.plan, n) \in Seq(Nat) /\ Len(Append(closure.plan, n)) = closure.unit + 1
      BY <3>1
    <3>3. t = [onward EXCEPT !.plan = Append(closure.plan, n)]
      BY <1>7
    <3>4. t \in ClosureStates /\ t.phase = "idle" /\ Len(t.plan) = t.unit
      BY <1>7, <3>1, <3>2, <3>3 DEF ClosureStates
    <3>5. \A v \in U : Closing[v] # NoValue /\ v <= t.unit => reviewCases[v] # NoValue
      <4>1. t.unit = closure.unit + 1
        BY <1>7 DEF ClosureStates
      <4>2. \A v \in U : v \in Nat /\ (v <= closure.unit + 1 => v <= closure.unit \/ v = u)
        BY <3>1 DEF U
      <4> QED
        BY <2>1, <3>1, <4>1, <4>2 DEF PlanAt
    <3> HIDE DEF t
    <3> QED
      BY <1>4, <3>4, <3>5 DEF t
  <2>2. u \in U => reviewCases[u] = NoValue \/ reviewCases[u].version \in Nat
    BY DEF ReviewTypeOK, Cases
  <2> QED
    BY <1>5, <1>8, <2>1, <2>2 DEF ClosurePlan, onward
<1>9. CASE ClosurePlanned
  <2> DEFINE t == [closure EXCEPT !.phase = "apply", !.unit = 1]
  <2>1. t \in ClosureStates /\ t.phase = "apply" /\ t.plan = closure.plan
    BY <1>1 DEF ClosureStates
  <2>2. Len(t.plan) = ReviewUnits /\ \A v \in U : Closing[v] # NoValue => reviewCases[v] # NoValue
    BY <1>9, <2>1, ReviewAssumption DEF ClosurePlanned, PlanAt, U
  <2> HIDE DEF t
  <2> QED
    BY <1>4, <1>9, <2>1, <2>2 DEF ClosurePlanned, t
<1>10. closure.phase # "idle" => \A v \in U : Closing[v] # NoValue => reviewCases[v] # NoValue
  BY DEF PlanAt
<1>11. CASE ClosureApply
  <2> DEFINE u == closure.unit
             r == [key |-> <<"closure", u, closure.plan[u], Closing[u].disposition>>, unit |-> u,
                   disposition |-> Closing[u].disposition, version |-> reviewCases[u].version,
                   by |-> "operator"]
             t == [closure EXCEPT !.phase = "resolving"]
  <2>1. closure.phase = "apply" /\ u \in U /\ Len(closure.plan) = ReviewUnits
    BY <1>11 DEF ClosureApply, PlanAt
  <2>2. CASE ClosureStep(onward)
    BY <1>4, <1>7, <1>10, <2>1, <2>2
  <2>3. CASE ClosureStep(ToolIdle)
    BY <1>5, <2>3
  <2>4. CASE /\ Closing[u] # NoValue /\ reviewCases[u].status # "resolved"
             /\ BeginCall("closure", r) /\ SetClosure(t)
    <3>1. t \in ClosureStates /\ t.phase = "resolving" /\ t.plan = closure.plan
      BY <1>1 DEF ClosureStates
    <3>2. closure.plan[u] \in Nat
      BY <1>1, <2>1 DEF ClosureStates, U
    <3>3. Closing[u].disposition \in ClosingDispositions
      BY <2>1, <2>4, ToolsAssumption
    <3>4. reviewCases[u].version \in Nat
      BY <1>10, <2>1, <2>4 DEF ReviewTypeOK, Cases
    <3>5. r \in ReviewRequests
      BY <2>1, <3>2, <3>3, <3>4 DEF ReviewRequests, ClosureKeys
    <3> HIDE DEF r, t
    <3> DEFINE call == [NoCall EXCEPT !.phase = "get", !.request = r]
    <3>6. call \in CallStates /\ call.phase = "get" /\ call.request = r
      BY <3>5, BeginType
    <3>7. calls' = [calls EXCEPT !["closure"] = call] /\ UNCHANGED reviewCases
      BY <2>4 DEF BeginCall, SetClosure, tables
    <3> HIDE DEF call
    <3>8. calls' \in [Callers -> CallStates] /\ CallsAt'
      BY <1>6, <3>5, <3>6, <3>7
    <3> QED
      BY <1>2, <1>10, <2>1, <2>4, <3>1, <3>7, <3>8 DEF SetClosure, PlanAt
  <2> QED
    BY <1>11, <2>2, <2>3, <2>4 DEF ClosureApply, onward
<1>12. CASE ClosureAnswered
  <2> DEFINE t == [onward EXCEPT !.phase = "apply"]
  <2>1. t \in ClosureStates /\ t.phase = "apply" /\ t.plan = closure.plan
    BY <1>7 DEF ClosureStates
  <2>2. Len(closure.plan) = ReviewUnits
    BY <1>12 DEF ClosureAnswered, PlanAt
  <2> HIDE DEF t
  <2>3. SetClosure(ToolIdle) \/ SetClosure(t)
    BY <1>12 DEF ClosureAnswered, t, onward
  <2>4. calls' \in [Callers -> CallStates] /\ CallsAt'
    BY <1>6, <1>12, <2>3, IdleStates DEF ClosureAnswered, SetClosure, tables
  <2>5. closure' \in ClosureStates /\ PlanAt'
    <3>1. closure.phase # "idle" /\ UNCHANGED reviewCases
      BY <1>12, <2>3 DEF ClosureAnswered, SetClosure, tables
    <3>2. CASE closure' = ToolIdle
      <4>1. \A v \in U : ~(v <= 0)
        BY ReviewAssumption DEF U
      <4> QED
        BY <3>2, <4>1, IdleStates DEF PlanAt
    <3>3. CASE closure' = t
      BY <1>10, <2>1, <2>2, <3>1, <3>3 DEF PlanAt
    <3> QED
      BY <2>3, <3>2, <3>3 DEF SetClosure
  <2> QED
    BY <1>2, <2>3, <2>4, <2>5 DEF SetClosure
<1>13. CASE ClosureListPending
  <2> DEFINE t == [closure EXCEPT !.phase = "deferred",
                                  !.known = {u \in U : reviewCases[u] # NoValue}]
  <2>1. t \in ClosureStates /\ t.phase = "deferred"
    BY <1>1 DEF ClosureStates
  <2> HIDE DEF t
  <2> QED
    BY <1>4, <1>5, <1>13, <1>10, <2>1 DEF ClosureListPending, t
<1>14. CASE ClosureListDeferred
  <2> DEFINE t == [closure EXCEPT !.phase = "reported"]
  <2>1. t \in ClosureStates /\ t.phase = "reported"
    BY <1>1 DEF ClosureStates
  <2> HIDE DEF t
  <2> QED
    BY <1>4, <1>5, <1>14, <1>10, <2>1 DEF ClosureListDeferred, t
<1>15. CASE ClosureDies
  <2>1. calls' \in [Callers -> CallStates] /\ CallsAt'
    BY <1>6, <1>15, IdleStates DEF ClosureDies, tables
  <2>2. closure' \in ClosureStates /\ PlanAt'
    BY <1>15, IdleStates, ReviewAssumption DEF ClosureDies, PlanAt, U
  <2> QED
    BY <1>2, <1>15, <2>1, <2>2 DEF ClosureDies
<1> QED
  BY <1>8, <1>9, <1>11, <1>12, <1>13, <1>14, <1>15 DEF Closure

(* So does the canary tool. *)
LEMMA CanaryShape ==
  ASSUME Shape, Canary
  PROVE  Shape'
<1> USE DEF Shape
<1>1. canary \in CanaryStates /\ calls \in [Callers -> CallStates] /\ "canary" \in Callers
  BY DEF ReviewTypeOK, CanaryStates, Callers, CallStates, Tools
<1>2. ASSUME UNCHANGED <<tables, reviewHost, closure, bindings, hostFaults>>,
             canary' \in CanaryStates, calls' \in [Callers -> CallStates], CallsAt'
      PROVE  Shape'
  BY <1>2 DEF ReviewTypeOK, HostAt, PlanAt, tables, Callers, CallStates, CanaryStates
<1>3. UNCHANGED <<reviewCases, calls>> => calls' \in [Callers -> CallStates] /\ CallsAt'
  BY <1>1 DEF CallsAt
<1>4. ASSUME NEW t \in CanaryStates, CanaryStep(t)
      PROVE  Shape'
  BY <1>2, <1>3, <1>4 DEF CanaryStep, SetCanary, tables
<1>5. ASSUME CanaryStep(ToolIdle) PROVE Shape'
  BY <1>4, <1>5, IdleStates
<1>6. ASSUME NEW x \in CallStates, calls' = [calls EXCEPT !["canary"] = x],
             x.phase \in {"get", "prior", "store"} => x.request \in ReviewRequests,
             x.phase \notin {"prior", "store"}, UNCHANGED reviewCases
      PROVE  calls' \in [Callers -> CallStates] /\ CallsAt'
  BY <1>1, <1>6, CallsShape DEF ReviewTypeOK
<1>7. CASE CanaryStart
  <2>1. PICK first \in {1, Len(Manifest) + 1} :
          CanaryStep([ToolIdle EXCEPT !.phase = "decide", !.unit = first,
                                      !.known = {u \in U : reviewCases[u] # NoValue}])
    BY <1>7 DEF CanaryStart
  <2>2. first \in Nat
    BY ReviewAssumption
  <2> DEFINE t == [ToolIdle EXCEPT !.phase = "decide", !.unit = first,
                                   !.known = {u \in U : reviewCases[u] # NoValue}]
  <2>3. t \in CanaryStates
    BY <2>2, IdleStates DEF CanaryStates
  <2> QED
    BY <1>4, <2>1, <2>3
<1>8. CASE CanaryDecide
  <2> DEFINE t == [canary EXCEPT !.phase = "resolving"]
             r == Manifest[canary.unit]
  <2>1. CASE CanaryStep(ToolIdle)
    BY <1>5, <2>1
  <2>2. CASE BeginCall("canary", r) /\ SetCanary(t)
    <3>1. t \in CanaryStates
      BY <1>1 DEF CanaryStates
    <3>2. r \in ReviewRequests
      BY <1>8 DEF CanaryDecide, ReviewRequests, Submitted
    <3> HIDE DEF r, t
    <3> DEFINE call == [NoCall EXCEPT !.phase = "get", !.request = r]
    <3>3. call \in CallStates /\ call.phase = "get" /\ call.request = r
      BY <3>2, BeginType
    <3>4. calls' = [calls EXCEPT !["canary"] = call] /\ UNCHANGED reviewCases
      BY <2>2 DEF BeginCall, SetCanary, tables
    <3> HIDE DEF call
    <3>5. calls' \in [Callers -> CallStates] /\ CallsAt'
      BY <1>6, <3>2, <3>3, <3>4
    <3> QED
      BY <1>2, <2>2, <3>1, <3>5 DEF SetCanary
  <2> QED
    BY <1>8, <2>1, <2>2 DEF CanaryDecide
<1>9. CASE CanaryAnswered
  <2> DEFINE t == [canary EXCEPT !.phase = "decide", !.unit = @ + 1]
  <2>1. PICK n \in Nat : n = canary.unit + 1
    BY <1>1 DEF CanaryStates
  <2>2. t = [canary EXCEPT !.phase = "decide", !.unit = n]
    BY <1>1, <2>1 DEF CanaryStates
  <2>3. t \in CanaryStates
    BY <1>1, <2>2 DEF CanaryStates
  <2> HIDE DEF t
  <2>4. SetCanary(ToolIdle) \/ SetCanary(t)
    BY <1>9 DEF CanaryAnswered, t
  <2>5. calls' \in [Callers -> CallStates] /\ CallsAt'
    BY <1>6, <1>9, <2>4, IdleStates DEF CanaryAnswered, SetCanary, tables
  <2> QED
    BY <1>2, <2>3, <2>4, <2>5, IdleStates DEF SetCanary
<1>10. CASE CanaryRecords
  <2> DEFINE t == [canary EXCEPT !.phase = "cases", !.unit = 0, !.known = {}, !.records = curation]
  <2>1. t \in CanaryStates
    BY <1>1 DEF CanaryStates, ReviewTypeOK
  <2> HIDE DEF t
  <2> QED
    BY <1>4, <1>10, <2>1 DEF CanaryRecords, t
<1>11. CASE CanaryAssess
  <2>1. [ToolIdle EXCEPT !.phase = "eligible"] \in CanaryStates
    BY IdleStates DEF CanaryStates
  <2> QED
    BY <1>4, <1>5, <1>11, <2>1 DEF CanaryAssess
<1>12. CASE CanaryDies
  <2>1. calls' \in [Callers -> CallStates] /\ CallsAt'
    BY <1>6, <1>12, IdleStates DEF CanaryDies, tables
  <2> QED
    BY <1>2, <1>12, <2>1, IdleStates DEF CanaryDies
<1> QED
  BY <1>7, <1>8, <1>9, <1>10, <1>11, <1>12 DEF Canary

(* Every step keeps the shapes. *)
LEMMA ShapeStep ==
  ASSUME Shape, [ReviewNext]_reviewVars
  PROVE  Shape'
<1>1. ASSUME NEW a \in Reviewers, NEW r \in Requests, Submit(a, r)
      PROVE  Shape'
  <2>1. r \in ReviewRequests /\ a \in Callers
    BY DEF ReviewRequests, Submitted, Callers
  <2> DEFINE call == [NoCall EXCEPT !.phase = "get", !.request = r]
  <2>2. call \in CallStates /\ call.phase = "get" /\ call.request = r
    BY <2>1, BeginType
  <2>3. calls' = [calls EXCEPT ![a] = call] /\ UNCHANGED reviewCases
    BY <1>1 DEF Submit, BeginCall, tables
  <2> HIDE DEF call
  <2>4. calls' \in [Callers -> CallStates] /\ CallsAt'
    BY <2>1, <2>2, <2>3, CallsShape DEF Shape, ReviewTypeOK
  <2> QED
    BY <1>1, <2>4 DEF Submit, Shape, ReviewTypeOK, HostAt, PlanAt, tables, tools, Callers, CallStates
<1>2. CASE Remediates
  BY <1>2 DEF Remediates, Shape, ReviewTypeOK, HostAt, CallsAt, PlanAt, tables, tools
<1>3. CASE UNCHANGED reviewVars
  BY <1>3 DEF reviewVars, Shape, ReviewTypeOK, HostAt, CallsAt, PlanAt, tables, tools
<1> QED
  BY <1>1, <1>2, <1>3, HostShape, ClosureShape, CanaryShape, ResolveShape DEF ReviewNext, Callers

(* At the start the tables are empty and nobody is at work. *)
LEMMA ShapeInit ==
  ASSUME ReviewInit
  PROVE  Shape
<1>1. ReviewTypeOK
  BY IdleStates DEF ReviewInit, ReviewTypeOK, HostStates, CallStates, ClosureStates, CanaryStates
<1>2. HostAt /\ CallsAt
  BY IdleStates DEF ReviewInit, HostAt, CallsAt, Callers
<1>3. PlanAt
  BY IdleStates, ReviewAssumption DEF ReviewInit, PlanAt, U
<1> QED
  BY <1>1, <1>2, <1>3 DEF Shape

-----------------------------------------------------------------------------
(* The host makes a case: none was there, and the record in the table is   *)
(* the one the case is built from.                                         *)
Enters(u, record, trigger) ==
  /\ Enqueues(u, record, trigger)
  /\ reviewCases[u] = NoValue
  /\ \A v \in U : v # u => reviewCases'[v] = reviewCases[v]
  /\ reviewCases'[u] # NoValue
  /\ reviewCases'[u] = [trigger |-> trigger, facts |-> record.facts,
       status |-> "pending", version |-> 1, decision |-> NoValue]
  /\ reviewEvents' = reviewEvents \cup
       {[unit |-> u, type |-> "enqueued", version |-> 1, decision |-> NoValue]}
  /\ UNCHANGED <<curation, receiptOpen, calls>>
  /\ trigger = "canary_sample" => reviewHost.phase = "queue" /\ u = reviewHost.sample

Triggers == {"pending_review", "canary_sample"}

(* A step leaves the cases and their events alone, makes a case, or        *)
(* decides one.                                                            *)
LEMMA CaseSteps ==
  ASSUME Shape, [ReviewNext]_reviewVars
  PROVE  \/ UNCHANGED <<reviewCases, reviewEvents>>
         \/ \E u \in U, record \in ReviewRecords, trigger \in Triggers : Enters(u, record, trigger)
         \/ \E a \in Callers : Decides(a, calls[a].request) /\ StoreResolve(a)
<1> USE DEF Shape
<1>1. CASE HostEnqueue
  <2>1. reviewHost.unit \in U /\ reviewHost.record \in ReviewRecords
    BY <1>1 DEF HostEnqueue, HostAt
  <2>2. CASE UNCHANGED <<reviewCases, reviewEvents>>
    BY <2>2
  <2>3. CASE /\ Enqueue(reviewHost.unit, reviewHost.record, "pending_review")
             /\ Enqueues(reviewHost.unit, reviewHost.record, "pending_review")
             /\ ~UNCHANGED <<reviewCases, reviewEvents>>
    <3>1. Enters(reviewHost.unit, reviewHost.record, "pending_review")
      BY <1>1, <2>1, <2>3, EnqueueFacts DEF Enters, HostEnqueue
    <3> QED
      BY <2>1, <3>1 DEF Triggers
  <2> QED
    BY <1>1, <2>2, <2>3 DEF HostEnqueue
<1>2. CASE HostQueue
  <2> DEFINE u == reviewHost.unit
             trigger == IF curation[u].outcome = "pending_review" THEN "pending_review" ELSE "canary_sample"
  <2>1. u \in U /\ reviewHost.phase = "queue" /\ trigger \in Triggers
    BY <1>2 DEF HostQueue, Triggers
  <2>2. CASE UNCHANGED <<reviewCases, reviewEvents>>
    BY <2>2
  <2>3. CASE /\ Enqueue(u, curation[u], trigger) /\ Enqueues(u, curation[u], trigger)
             /\ trigger = "canary_sample" => u = reviewHost.sample
             /\ ~UNCHANGED <<reviewCases, reviewEvents>>
    <3>1. curation[u] \in ReviewRecords
      BY <2>1, <2>3 DEF Enqueues, ReviewTypeOK
    <3> HIDE DEF trigger
    <3>2. Enters(u, curation[u], trigger)
      BY <1>2, <2>1, <2>3, <3>1, EnqueueFacts DEF Enters, HostQueue, Triggers
    <3> QED
      BY <2>1, <3>1, <3>2
  <2> QED
    BY <1>2, <2>2, <2>3 DEF HostQueue
<1>3. ASSUME NEW a \in Callers, Resolve(a)
      PROVE  \/ UNCHANGED <<reviewCases, reviewEvents>>
             \/ Decides(a, calls[a].request) /\ StoreResolve(a)
  BY <1>3, StoreFacts DEF Resolve, GetCase, CheckPrior, CallBreaks, tables
<1>4. Closure \/ Canary => UNCHANGED <<reviewCases, reviewEvents>>
  BY DEF Closure, Canary, ClosurePlan, ClosurePlanned, ClosureApply, ClosureAnswered,
     ClosureListPending, ClosureListDeferred, ClosureDies, CanaryStart, CanaryDecide,
     CanaryAnswered, CanaryRecords, CanaryAssess, CanaryDies, ClosureStep, SetClosure,
     CanaryStep, SetCanary, tables
<1>5. CASE Host
  BY <1>1, <1>2, <1>5 DEF Host, HostStart, HostPut, HostClose, HostSample, HostQueued, HostDies, tables
<1> QED
  BY <1>3, <1>4, <1>5 DEF ReviewNext, Submit, Remediates, Callers, tables, reviewVars

(* What a call in progress knows: the case has not gone back behind what   *)
(* was read, and is as it was read while it has that version.              *)
CallsSound ==
  \A a \in Callers :
    /\ calls[a].phase \in {"prior", "store"} =>
         LET c == reviewCases[calls[a].request.unit] IN
         /\ calls[a].current.version <= c.version
         /\ calls[a].current.version = c.version => calls[a].current.status = c.status
    /\ calls[a].phase = "store" => calls[a].current.status # "resolved"

(* Cases stay, about the same facts; their versions only grow, and a       *)
(* resolved case is final: the store does not look at the status, but a    *)
(* call that got past the check has a version older than the resolution.   *)
LEMMA CasesStay ==
  ASSUME Shape, CallsSound, [ReviewNext]_reviewVars
  PROVE  /\ reviewEvents \subseteq reviewEvents'
         /\ \A u \in U : reviewCases[u] # NoValue =>
              /\ reviewCases'[u] # NoValue
              /\ reviewCases'[u].trigger = reviewCases[u].trigger
              /\ reviewCases'[u].facts = reviewCases[u].facts
              /\ reviewCases'[u].version >= reviewCases[u].version
              /\ reviewCases'[u].version = reviewCases[u].version =>
                   reviewCases'[u] = reviewCases[u]
              /\ reviewCases'[u].status = "pending" => reviewCases'[u] = reviewCases[u]
              /\ reviewCases[u].status = "resolved" => reviewCases'[u] = reviewCases[u]
<1>1. CASE UNCHANGED <<reviewCases, reviewEvents>>
  BY <1>1 DEF Shape, ReviewTypeOK, Cases
<1>2. ASSUME NEW u \in U, NEW record \in ReviewRecords, NEW trigger \in Triggers,
             Enters(u, record, trigger)
      PROVE  /\ reviewEvents \subseteq reviewEvents'
             /\ \A v \in U : reviewCases[v] # NoValue => reviewCases'[v] = reviewCases[v]
  BY <1>2 DEF Enters
<1>3. ASSUME NEW a \in Callers, Decides(a, calls[a].request)
      PROVE  /\ reviewEvents \subseteq reviewEvents'
             /\ \A u \in U : reviewCases[u] # NoValue =>
                  \/ reviewCases'[u] = reviewCases[u]
                  \/ /\ reviewCases'[u] # NoValue
                     /\ reviewCases'[u].trigger = reviewCases[u].trigger
                     /\ reviewCases'[u].facts = reviewCases[u].facts
                     /\ reviewCases'[u].version > reviewCases[u].version
                     /\ reviewCases'[u].version >= reviewCases[u].version
                     /\ reviewCases'[u].status # "pending"
                     /\ reviewCases[u].status # "resolved"
  <2> DEFINE r == calls[a].request
  <2>1. reviewCases[r.unit].status # "resolved"
    BY <1>3 DEF Decides, CallsSound
  <2>2. reviewCases[r.unit].version \in Nat
    BY <1>3 DEF Decides, Cases
  <2>3. StatusAfter(r) # "pending"
    BY DEF StatusAfter
  <2> QED
    BY <1>3, <2>1, <2>2, <2>3 DEF Decides
<1>4. \A u \in U : reviewCases[u] # NoValue => reviewCases[u].version \in Nat
  BY DEF Shape, ReviewTypeOK, Cases
<1>5. \A u \in U : reviewCases'[u] # NoValue => reviewCases'[u].version \in Nat
  BY ShapeStep DEF Shape, ReviewTypeOK, Cases
<1> QED
  BY <1>1, <1>2, <1>3, <1>4, <1>5, CaseSteps

(* How a call moves on to a phase in which it holds a case it has read. *)
LEMMA CallSteps ==
  ASSUME Shape, [ReviewNext]_reviewVars, NEW a \in Callers
  PROVE  \/ calls'[a] = calls[a]
         \/ calls'[a].phase \notin {"prior", "store"}
         \/ LET c == reviewCases[calls[a].request.unit] IN
            /\ calls'[a].phase = "prior"
            /\ calls'[a].request = calls[a].request
            /\ calls'[a].current = [status |-> c.status, version |-> c.version]
            /\ c # NoValue /\ UNCHANGED reviewCases
         \/ /\ calls'[a].phase = "store" /\ calls[a].phase = "prior"
            /\ calls'[a].request = calls[a].request /\ calls'[a].current = calls[a].current
            /\ calls[a].current.status # "resolved" /\ UNCHANGED reviewCases
<1> DEFINE Goal ==
         \/ calls'[a] = calls[a]
         \/ calls'[a].phase \notin {"prior", "store"}
         \/ LET c == reviewCases[calls[a].request.unit] IN
            /\ calls'[a].phase = "prior"
            /\ calls'[a].request = calls[a].request
            /\ calls'[a].current = [status |-> c.status, version |-> c.version]
            /\ c # NoValue /\ UNCHANGED reviewCases
         \/ /\ calls'[a].phase = "store" /\ calls[a].phase = "prior"
            /\ calls'[a].request = calls[a].request /\ calls'[a].current = calls[a].current
            /\ calls[a].current.status # "resolved" /\ UNCHANGED reviewCases
<1>1. calls \in [Callers -> CallStates]
  BY DEF Shape, ReviewTypeOK, Callers, CallStates
<1>2. ASSUME UNCHANGED calls PROVE Goal
  BY <1>2
<1>3. ASSUME NEW b \in Callers, NEW x \in CallStates, calls' = [calls EXCEPT ![b] = x],
             x.phase \notin {"prior", "store"}
      PROVE  Goal
  BY <1>1, <1>3
<1>4. ASSUME NEW b \in Callers, NEW x \in {"done", "failed"}, EndCall(b, x) PROVE Goal
  <2>1. Ended(b, x) \in CallStates /\ Ended(b, x).phase \notin {"prior", "store"}
    BY EndedType
  <2> QED
    BY <1>3, <1>4, <2>1 DEF EndCall
<1>5. ASSUME NEW b \in Callers, NEW r \in ReviewRequests, BeginCall(b, r) PROVE Goal
  <2> DEFINE call == [NoCall EXCEPT !.phase = "get", !.request = r]
  <2>1. call \in CallStates /\ call.phase = "get"
    BY BeginType
  <2>2. calls' = [calls EXCEPT ![b] = call]
    BY <1>5 DEF BeginCall
  <2> HIDE DEF call
  <2> QED
    BY <1>3, <2>1, <2>2
<1>6. ASSUME NEW b \in Callers, calls' = [calls EXCEPT ![b] = NoCall] PROVE Goal
  BY <1>3, <1>6, IdleStates
<1>7. ASSUME NEW b \in Callers, GetCase(b) PROVE Goal
  <2> DEFINE c == reviewCases[calls[b].request.unit]
             now == [status |-> c.status, version |-> c.version]
             call == [calls[b] EXCEPT !.phase = "prior", !.current = now]
  <2>1. CASE c = NoValue
    BY <1>4, <1>7, <2>1 DEF GetCase
  <2>2. CASE c # NoValue
    <3>1. calls' = [calls EXCEPT ![b].phase = "prior", ![b].current = now]
      BY <1>7, <2>2 DEF GetCase
    <3> HIDE DEF now
    <3>2. calls'[b] = call /\ (a # b => calls'[a] = calls[a])
      BY <1>1, <3>1
    <3>3. call.phase = "prior" /\ call.current = now /\ call.request = calls[b].request
      BY <1>1 DEF CallStates
    <3> HIDE DEF call
    <3> QED
      BY <1>7, <2>2, <3>2, <3>3 DEF GetCase, tables, now
  <2> QED
    BY <2>1, <2>2
<1>8. ASSUME NEW b \in Callers, CheckPrior(b) PROVE Goal
  <2>1. CASE \E x \in {"done", "failed"} : EndCall(b, x)
    BY <1>4, <2>1
  <2>2. CASE calls' = [calls EXCEPT ![b].phase = "store"] /\ calls[b].current.status # "resolved"
    <3> DEFINE call == [calls[b] EXCEPT !.phase = "store"]
    <3>1. calls'[b] = call /\ (a # b => calls'[a] = calls[a])
      BY <1>1, <2>2
    <3>2. /\ call.phase = "store" /\ call.current = calls[b].current
          /\ call.request = calls[b].request
      BY <1>1 DEF CallStates
    <3> HIDE DEF call
    <3> QED
      BY <1>8, <2>2, <3>1, <3>2 DEF CheckPrior, tables
  <2> QED
    BY <1>8, <2>1, <2>2 DEF CheckPrior
<1>9. ASSUME NEW b \in Callers, StoreResolve(b) \/ CallBreaks(b) PROVE Goal
  BY <1>4, <1>9 DEF StoreResolve, CallBreaks
<1>10. "closure" \in Callers /\ "canary" \in Callers
  BY DEF Callers, Tools
<1>11. ASSUME Closure PROVE Goal
  <2>1. CASE ClosureApply
    <3>1. PICK r : BeginCall("closure", r) \/ UNCHANGED calls
      BY <2>1 DEF ClosureApply, ClosureStep
    <3> DEFINE call == [NoCall EXCEPT !.phase = "get", !.request = r]
    <3>2. call.phase = "get"
      BY IdleStates DEF CallStates
    <3>3. calls' = [calls EXCEPT !["closure"] = call] \/ UNCHANGED calls
      BY <3>1 DEF BeginCall
    <3> HIDE DEF call
    <3> QED
      BY <1>1, <1>10, <3>2, <3>3
  <2> QED
    BY <1>2, <1>6, <1>10, <1>11, <2>1 DEF Closure, ClosurePlan, ClosurePlanned, ClosureAnswered,
     ClosureListPending, ClosureListDeferred, ClosureDies, ClosureStep
<1>12. ASSUME Canary PROVE Goal
  <2>1. CASE CanaryDecide
    <3>1. canary.unit \in DOMAIN Manifest /\ Manifest[canary.unit] \in ReviewRequests
      BY <2>1 DEF CanaryDecide, ReviewRequests, Submitted
    <3> QED
      BY <1>2, <1>5, <1>10, <2>1, <3>1 DEF CanaryDecide, CanaryStep
  <2> QED
    BY <1>2, <1>6, <1>10, <1>12, <2>1 DEF Canary, CanaryStart, CanaryAnswered, CanaryRecords,
       CanaryAssess, CanaryDies, CanaryStep
<1>13. ASSUME Host \/ Remediates \/ UNCHANGED reviewVars PROVE Goal
  BY <1>2, <1>13 DEF Host, HostStart, HostPut, HostEnqueue, HostClose, HostSample, HostQueue,
     HostQueued, HostDies, Remediates, reviewVars
<1>14. ASSUME NEW b \in Reviewers, NEW r \in Requests, Submit(b, r) PROVE Goal
  BY <1>5, <1>14 DEF Submit, Callers, ReviewRequests, Submitted
<1> HIDE DEF Goal
<1>15. ASSUME NEW b \in Callers, Resolve(b) PROVE Goal
  BY <1>7, <1>8, <1>9, <1>15 DEF Resolve
<1>16. ASSUME ReviewNext
       PROVE  \/ Host \/ Closure \/ Canary \/ Remediates
              \/ \E b \in Reviewers, r \in Requests : Submit(b, r)
              \/ \E b \in Callers : Resolve(b)
  BY <1>16 DEF ReviewNext, Callers
<1>17. Goal
  BY <1>11, <1>12, <1>13, <1>14, <1>15, <1>16
<1> QED
  BY <1>17 DEF Goal

(* What calls know stays true while cases are decided behind their backs. *)
LEMMA CallsSoundStep ==
  ASSUME Shape, CallsSound, [ReviewNext]_reviewVars
  PROVE  CallsSound'
<1> SUFFICES ASSUME NEW a \in Callers, calls'[a].phase \in {"prior", "store"}
             PROVE  LET c == reviewCases'[calls'[a].request.unit] IN
                    /\ calls'[a].current.version <= c.version
                    /\ calls'[a].current.version = c.version => calls'[a].current.status = c.status
                    /\ calls'[a].phase = "store" => calls'[a].current.status # "resolved"
  BY DEF CallsSound
<1>1. Shape'
  BY ShapeStep
<1>2. calls'[a].request.unit \in U /\ calls'[a].current \in CaseStates
      /\ reviewCases'[calls'[a].request.unit] \in Cases
  BY <1>1, RequestFacts DEF Shape, CallsAt, ReviewTypeOK
<1>3. CASE calls'[a] = calls[a]
  <2> DEFINE u == calls[a].request.unit
  <2>1. u \in U /\ reviewCases[u] # NoValue /\ reviewCases[u] \in Cases
    BY <1>2, <1>3 DEF Shape, CallsAt, ReviewTypeOK
  <2>2. /\ reviewCases'[u].version >= reviewCases[u].version
        /\ reviewCases'[u].version = reviewCases[u].version => reviewCases'[u] = reviewCases[u]
    BY <2>1, CasesStay
  <2>3. /\ reviewCases'[u].version \in Nat /\ reviewCases[u].version \in Nat
        /\ calls[a].current.version \in Nat
    BY <1>2, <1>3, <2>1 DEF Cases, CaseStates
  <2>4. /\ calls[a].current.version <= reviewCases[u].version
        /\ calls[a].current.version = reviewCases[u].version => calls[a].current.status = reviewCases[u].status
        /\ calls[a].phase = "store" => calls[a].current.status # "resolved"
    BY <1>3 DEF CallsSound
  <2> HIDE DEF u
  <2>5. /\ calls[a].current.version <= reviewCases'[u].version
        /\ calls[a].current.version = reviewCases'[u].version => reviewCases'[u].version = reviewCases[u].version
    BY <2>2, <2>3, <2>4
  <2> QED
    BY <1>3, <2>2, <2>4, <2>5 DEF u
<1>4. CASE LET c == reviewCases[calls[a].request.unit] IN
            /\ calls'[a].phase = "prior"
            /\ calls'[a].request = calls[a].request
            /\ calls'[a].current = [status |-> c.status, version |-> c.version]
            /\ c # NoValue /\ UNCHANGED reviewCases
  BY <1>2, <1>4 DEF Cases
<1>5. CASE /\ calls'[a].phase = "store" /\ calls[a].phase = "prior"
           /\ calls'[a].request = calls[a].request /\ calls'[a].current = calls[a].current
           /\ calls[a].current.status # "resolved" /\ UNCHANGED reviewCases
  BY <1>5 DEF CallsSound
<1> QED
  BY <1>3, <1>4, <1>5, CallSteps

-----------------------------------------------------------------------------
EventsOf(u) == {e \in reviewEvents : e.unit = u}

UnitHistory(u) ==
  LET c == reviewCases[u] IN
  IF c = NoValue THEN EventsOf(u) = {}
  ELSE /\ {e.version : e \in EventsOf(u)} = 1 .. c.version
       /\ Cardinality(EventsOf(u)) = c.version
       /\ \A e \in EventsOf(u) :
            /\ (e.version = 1) = (e.type = "enqueued")
            /\ e.type = "resolved" => e.version = c.version
            /\ e.version = c.version =>
                 /\ e.decision = c.decision
                 /\ c.status = IF e.type = "enqueued" THEN "pending" ELSE e.type

KeysOnce ==
  \A e, f \in reviewEvents :
    e.decision # NoValue /\ f.decision # NoValue /\ e.decision.key = f.decision.key => e = f

(* ReviewHistory, with what it takes to count events and to tell from an   *)
(* event what was decided.                                                 *)
History ==
  /\ \A u \in U : UnitHistory(u) /\ IsFiniteSet(EventsOf(u))
  /\ KeysOnce
  /\ \A e \in reviewEvents :
       \/ e.type = "enqueued" /\ e.decision = NoValue
       \/ /\ e.decision \in ReviewDecisions
          /\ e.type = IF e.decision.disposition = "needs_more_evidence" THEN "deferred" ELSE "resolved"

(* The history of a unit that a step does not touch. *)
LEMMA UntouchedHistory ==
  ASSUME NEW u \in U, UnitHistory(u) /\ IsFiniteSet(EventsOf(u)),
         reviewCases'[u] = reviewCases[u], EventsOf(u)' = EventsOf(u)
  PROVE  (UnitHistory(u) /\ IsFiniteSet(EventsOf(u)))'
<1> DEFINE E == EventsOf(u)
           F == EventsOf(u)'
<1>1. F = E
  OBVIOUS
<1>2. UnitHistory(u)'
  BY DEF UnitHistory
<1> QED
  BY <1>2

(* An enqueue starts a history with one event. *)
LEMMA EnteredHistory ==
  ASSUME Shape, History, NEW u \in U, NEW record \in ReviewRecords, NEW trigger \in Triggers,
         Enters(u, record, trigger)
  PROVE  History'
<1> DEFINE event == [unit |-> u, type |-> "enqueued", version |-> 1, decision |-> NoValue]
<1>1. /\ event.unit = u /\ event.type = "enqueued" /\ event.version = 1 /\ event.decision = NoValue
      /\ reviewEvents' = reviewEvents \cup {event}
  BY DEF Enters
<1>2. /\ reviewCases[u] = NoValue /\ reviewCases'[u] # NoValue
      /\ reviewCases'[u].status = "pending" /\ reviewCases'[u].version = 1
      /\ reviewCases'[u].decision = NoValue
      /\ \A v \in U : v # u => reviewCases'[v] = reviewCases[v]
  BY DEF Enters
<1> HIDE DEF event
<1>3. EventsOf(u)' = {event}
  <2>1. EventsOf(u) = {}
    BY <1>2 DEF History, UnitHistory
  <2> QED
    BY <1>1, <2>1 DEF EventsOf
<1>4. ASSUME NEW v \in U, v # u
      PROVE  (UnitHistory(v) /\ IsFiniteSet(EventsOf(v)))'
  <2>1. EventsOf(v)' = EventsOf(v)
    BY <1>1, <1>4 DEF EventsOf
  <2>2. UnitHistory(v) /\ IsFiniteSet(EventsOf(v))
    BY DEF History
  <2>3. reviewCases'[v] = reviewCases[v]
    BY <1>2, <1>4
  <2> QED
    BY <2>1, <2>2, <2>3, UntouchedHistory
<1>5. (UnitHistory(u) /\ IsFiniteSet(EventsOf(u)))'
  <2>1. Cardinality(EventsOf(u)') = 1 /\ IsFiniteSet(EventsOf(u)')
    BY <1>3, FS_Singleton
  <2>2. {e.version : e \in EventsOf(u)'} = 1 .. 1
    BY <1>1, <1>3
  <2>3. \A e \in EventsOf(u)' : e = event
    BY <1>3
  <2> QED
    BY <1>1, <1>2, <2>1, <2>2, <2>3 DEF UnitHistory
<1>6. KeysOnce'
  BY <1>1 DEF History, KeysOnce
<1> QED
  BY <1>1, <1>4, <1>5, <1>6 DEF History

(* A decision goes after the last event, under a key of its own, and none  *)
(* was a resolution.                                                       *)
LEMMA DecidedHistory ==
  ASSUME Shape, CallsSound, History, NEW a \in Callers, Decides(a, calls[a].request)
  PROVE  History'
<1>1. PICK r \in ReviewRequests : r = calls[a].request
  BY DEF Decides
<1>2. r.unit \in U /\ DecisionOf(r) \in ReviewDecisions
  BY RequestFacts
<1>3. PICK u \in U : u = r.unit
  BY <1>2
<1>4. PICK n \in Nat \ {0} : n = reviewCases[u].version
  BY <1>1, <1>3 DEF Decides, Cases
<1> DEFINE event == [unit |-> u, type |-> StatusAfter(r), version |-> n + 1,
                     decision |-> DecisionOf(r)]
<1>5. /\ event.unit = u /\ event.type = StatusAfter(r) /\ event.version = n + 1
      /\ event.decision = DecisionOf(r) /\ event.decision.key = r.key
      /\ event.decision.disposition = r.disposition
      /\ reviewEvents' = reviewEvents \cup {event}
  BY <1>1, <1>3, <1>4 DEF Decides, DecisionOf
<1>6. /\ reviewCases[u] # NoValue /\ reviewCases'[u] # NoValue
      /\ reviewCases'[u].status = StatusAfter(r) /\ reviewCases'[u].version = n + 1
      /\ reviewCases'[u].decision = DecisionOf(r)
      /\ reviewCases[u].status # "resolved"
      /\ \A v \in U : v # u => reviewCases'[v] = reviewCases[v]
      /\ PriorEvents(r) = {}
  BY <1>1, <1>3, <1>4 DEF Decides, CallsSound
<1>7. StatusAfter(r) \in {"deferred", "resolved"}
  BY DEF StatusAfter
<1> HIDE DEF event
<1>8. EventsOf(u)' = EventsOf(u) \cup {event}
  BY <1>5 DEF EventsOf
<1>9. /\ {e.version : e \in EventsOf(u)} = 1 .. n
      /\ Cardinality(EventsOf(u)) = n /\ IsFiniteSet(EventsOf(u))
      /\ \A e \in EventsOf(u) :
            /\ (e.version = 1) = (e.type = "enqueued")
            /\ e.type # "resolved"
  BY <1>4, <1>6 DEF History, UnitHistory
<1>10. \A e \in EventsOf(u) : e.version \in 1 .. n /\ e # event
  BY <1>5, <1>9
<1>11. (UnitHistory(u) /\ IsFiniteSet(EventsOf(u)))'
  <2>1. Cardinality(EventsOf(u)') = n + 1 /\ IsFiniteSet(EventsOf(u)')
    <3> DEFINE E == EventsOf(u)
    <3>1. event \notin E /\ IsFiniteSet(E) /\ Cardinality(E) = n
      BY <1>9, <1>10
    <3> HIDE DEF E
    <3>2. Cardinality(E \cup {event}) = n + 1 /\ IsFiniteSet(E \cup {event})
      BY <3>1, FS_AddElement
    <3> QED
      BY <1>8, <3>2 DEF E
  <2>2. {e.version : e \in EventsOf(u)'} = 1 .. n + 1
    <3>1. {e.version : e \in EventsOf(u)'} = {e.version : e \in EventsOf(u)} \cup {n + 1}
      BY <1>5, <1>8
    <3>2. (1 .. n) \cup {n + 1} = 1 .. n + 1
      OBVIOUS
    <3> QED
      BY <1>9, <3>1, <3>2
  <2>3. \A e \in EventsOf(u)' :
            /\ (e.version = 1) = (e.type = "enqueued")
            /\ e.type = "resolved" => e.version = n + 1
            /\ e.version = n + 1 =>
                 /\ e.decision = DecisionOf(r)
                 /\ StatusAfter(r) = IF e.type = "enqueued" THEN "pending" ELSE e.type
    <3>1. ASSUME NEW e \in EventsOf(u)
          PROVE  /\ (e.version = 1) = (e.type = "enqueued")
                 /\ e.type # "resolved" /\ e.version # n + 1
      BY <1>9, <1>10
    <3>2. event.version # 1 /\ event.type # "enqueued"
      BY <1>5, <1>7
    <3>3. \A e \in EventsOf(u)' : e \in EventsOf(u) \/ e = event
      BY <1>8
    <3> QED
      BY <1>5, <3>1, <3>2, <3>3
  <2> QED
    BY <1>6, <2>1, <2>2, <2>3 DEF UnitHistory
<1>12. ASSUME NEW v \in U, v # u
       PROVE  (UnitHistory(v) /\ IsFiniteSet(EventsOf(v)))'
  <2>1. EventsOf(v)' = EventsOf(v)
    BY <1>5, <1>12 DEF EventsOf
  <2>2. UnitHistory(v) /\ IsFiniteSet(EventsOf(v))
    BY DEF History
  <2>3. reviewCases'[v] = reviewCases[v]
    BY <1>6, <1>12
  <2> QED
    BY <2>1, <2>2, <2>3, UntouchedHistory
<1>13. KeysOnce'
  BY <1>5, <1>6 DEF History, KeysOnce, PriorEvents
<1>14. \A e \in reviewEvents' :
       \/ e.type = "enqueued" /\ e.decision = NoValue
       \/ /\ e.decision \in ReviewDecisions
          /\ e.type = IF e.decision.disposition = "needs_more_evidence" THEN "deferred" ELSE "resolved"
  BY <1>2, <1>5 DEF History, StatusAfter
<1> QED
  BY <1>11, <1>12, <1>13, <1>14 DEF History

(* Histories stay whole. *)
LEMMA HistoryStep ==
  ASSUME Shape, CallsSound, History, [ReviewNext]_reviewVars
  PROVE  History'
<1>1. CASE UNCHANGED <<reviewCases, reviewEvents>>
  <2>1. ASSUME NEW u \in U PROVE (UnitHistory(u) /\ IsFiniteSet(EventsOf(u)))'
    <3>1. EventsOf(u)' = EventsOf(u) /\ reviewCases'[u] = reviewCases[u]
      BY <1>1 DEF EventsOf
    <3> QED
      BY <3>1, UntouchedHistory DEF History
  <2>2. KeysOnce'
    BY <1>1 DEF History, KeysOnce
  <2> QED
    BY <1>1, <2>1, <2>2 DEF History
<1> QED
  BY <1>1, EnteredHistory, DecidedHistory, CaseSteps

-----------------------------------------------------------------------------
(* A unit the host is done with: it has a record, and a record for review  *)
(* has a case of its own.                                                  *)
Recorded(u) ==
  /\ curation[u] # NoValue
  /\ curation[u].outcome = "pending_review" =>
       /\ reviewCases[u] # NoValue
       /\ reviewCases[u].trigger = "pending_review" /\ reviewCases[u].facts = curation[u].facts

(* The host judges only while the receipt is open, has recorded the units  *)
(* before the one it is at, and samples only what is closed.               *)
HostSound ==
  /\ reviewHost.phase \in {"unit", "enqueue"} =>
       /\ receiptOpen /\ reviewHost.unit >= 1
       /\ \A u \in U : u < reviewHost.unit => Recorded(u)
  /\ reviewHost.phase = "enqueue" =>
       reviewHost.record = curation[reviewHost.unit]
         /\ reviewHost.record.outcome = "pending_review"
  /\ reviewHost.phase \in {"sample", "queue"} => ~receiptOpen
  /\ reviewHost.phase = "queue" => reviewHost.sample = SampleOf(curation)
  /\ ~receiptOpen => \A u \in U : Recorded(u)

(* The one case that is no outcome's is the sample of the closed receipt. *)
SamplesSound ==
  \A u \in U : reviewCases[u] # NoValue /\ reviewCases[u].trigger = "canary_sample" =>
    ~receiptOpen /\ u = SampleOf(curation) /\ reviewCases[u].facts = curation[u].facts

(* Only the host touches the records and the receipt. *)
LEMMA NotTheHost ==
  ASSUME [ReviewNext]_reviewVars, ~Host
  PROVE  UNCHANGED <<curation, receiptOpen, reviewHost>>
BY DEF ReviewNext, reviewVars, Closure, Canary, Remediates, Submit, Resolve, GetCase, CheckPrior,
   StoreResolve, CallBreaks, ClosurePlan, ClosurePlanned, ClosureApply, ClosureAnswered,
   ClosureListPending, ClosureListDeferred, ClosureDies, CanaryStart, CanaryDecide,
   CanaryAnswered, CanaryRecords, CanaryAssess, CanaryDies, ClosureStep, SetClosure,
   CanaryStep, SetCanary, tables

(* The records of a closed receipt are final. *)
LEMMA ClosedIsFinal ==
  ASSUME HostSound, [ReviewNext]_reviewVars, ~receiptOpen
  PROVE  UNCHANGED <<curation, receiptOpen>>
<1>1. CASE Host
  BY <1>1 DEF Host, HostStart, HostPut, HostEnqueue, HostClose, HostSample, HostQueue,
     HostQueued, HostDies, HostSound, tables
<1> QED
  BY <1>1, NotTheHost

(* A unit stays recorded while its record is not judged again. *)
LEMMA RecordedStays ==
  ASSUME Shape, CallsSound, [ReviewNext]_reviewVars, NEW u \in U, Recorded(u),
         curation'[u] = curation[u]
  PROVE  Recorded(u)'
BY CasesStay DEF Recorded

(* The host, step by step. *)
LEMMA HostSoundStep ==
  ASSUME Shape, CallsSound, HostSound, [ReviewNext]_reviewVars
  PROVE  HostSound'
<1> USE DEF Shape
<1>1. reviewHost \in HostStates /\ curation \in [U -> ReviewRecords \cup {NoValue}]
  BY DEF ReviewTypeOK, HostStates
<1>2. ASSUME UNCHANGED curation, NEW u \in U, Recorded(u)
      PROVE  Recorded(u)'
  BY <1>2, RecordedStays
<1>3. CASE ~Host
  <2>1. UNCHANGED <<curation, receiptOpen, reviewHost>>
    BY <1>3, NotTheHost
  <2> QED
    BY <1>2, <2>1 DEF HostSound
<1>4. ASSUME reviewHost' = HostIdle, UNCHANGED <<curation, receiptOpen>>
      PROVE  HostSound'
  BY <1>2, <1>4, IdleStates DEF HostSound
<1>5. /\ NextReviewUnit.phase = "unit" /\ NextReviewUnit.unit = reviewHost.unit + 1
      /\ reviewHost.unit \in Nat
  BY <1>1 DEF NextReviewUnit, HostStates
<1>6. ASSUME NEW n \in U, n = reviewHost.unit, n >= 1,
             reviewHost' = NextReviewUnit, receiptOpen, UNCHANGED receiptOpen,
             \A u \in U : u < n => Recorded(u)', Recorded(n)'
      PROVE  HostSound'
  <2>1. \A u \in U : u \in Nat /\ (u < n + 1 => u < n \/ u = n)
    BY <1>5, <1>6 DEF U
  <2> QED
    BY <1>5, <1>6, <2>1 DEF HostSound
<1>7. CASE HostStart
  <2> DEFINE h == [HostIdle EXCEPT !.phase = "unit", !.unit = 1]
             g == [HostIdle EXCEPT !.phase = "sample"]
  <2>1. h.phase = "unit" /\ h.unit = 1 /\ g.phase = "sample"
    BY IdleStates DEF HostStates
  <2>2. reviewHost' = (IF receiptOpen THEN h ELSE g) /\ UNCHANGED <<curation, receiptOpen>>
    BY <1>7 DEF HostStart, tables
  <2>3. \A u \in U : ~(u < 1)
    BY ReviewAssumption DEF U
  <2>4. ~receiptOpen => \A u \in U : Recorded(u)'
    BY <1>2, <2>2 DEF HostSound
  <2> HIDE DEF h, g
  <2>5. CASE receiptOpen
    BY <2>1, <2>2, <2>3, <2>5 DEF HostSound
  <2>6. CASE ~receiptOpen
    BY <2>1, <2>2, <2>4, <2>6 DEF HostSound
  <2> QED
    BY <2>5, <2>6
<1>8. CASE HostPut
  <2>1. PICK n \in U :
          /\ n = reviewHost.unit /\ receiptOpen /\ n >= 1
          /\ UNCHANGED <<receiptOpen, reviewCases>>
          /\ \A u \in U : u < n => Recorded(u)
    BY <1>8 DEF HostPut, HostSound
  <2>2. CASE /\ curation[n] # NoValue /\ curation[n].outcome \in Canonical
             /\ reviewHost' = NextReviewUnit /\ UNCHANGED curation
    <3>1. Recorded(n)
      BY <2>2 DEF Recorded, Canonical
    <3> QED
      BY <1>2, <1>6, <2>1, <2>2, <3>1
  <2>3. ASSUME NEW j \in Judgements[n], curation' = [curation EXCEPT ![n] = j],
               reviewHost' = IF j.outcome = "pending_review"
                 THEN [reviewHost EXCEPT !.phase = "enqueue", !.record = j]
                 ELSE NextReviewUnit
        PROVE  HostSound'
    <3>1. j \in ReviewRecords /\ j # NoValue
      BY <2>1, NoValueAssumption DEF ReviewRecords
    <3>2. curation'[n] = j /\ \A u \in U : u # n => curation'[u] = curation[u]
      BY <1>1, <2>1, <2>3
    <3>3. \A u \in U : u < n => Recorded(u)'
      BY <2>1, <3>2, RecordedStays DEF U
    <3>4. CASE j.outcome # "pending_review"
      <4>1. Recorded(n)'
        BY <3>1, <3>2, <3>4 DEF Recorded
      <4> QED
        BY <1>6, <2>1, <2>3, <3>3, <3>4, <4>1
    <3>5. CASE j.outcome = "pending_review"
      <4> DEFINE h == [reviewHost EXCEPT !.phase = "enqueue", !.record = j]
      <4>1. h.phase = "enqueue" /\ h.record = j /\ h.unit = n
        BY <1>1, <2>1 DEF HostStates
      <4>2. reviewHost' = h
        BY <2>3, <3>5
      <4> HIDE DEF h
      <4> QED
        BY <2>1, <3>2, <3>3, <3>5, <4>1, <4>2 DEF HostSound
    <3> QED
      BY <3>4, <3>5
  <2> QED
    BY <1>8, <2>1, <2>2, <2>3 DEF HostPut
<1>9. CASE HostEnqueue
  <2>1. PICK n \in U, record \in ReviewRecords :
        /\ n = reviewHost.unit /\ record = reviewHost.record
        /\ receiptOpen /\ n >= 1 /\ UNCHANGED <<receiptOpen, curation>>
        /\ record = curation[n] /\ record \in ReviewRecords /\ record # NoValue
        /\ \A u \in U : u < n => Recorded(u)
    BY <1>9, NoValueAssumption DEF HostEnqueue, HostSound, HostAt
  <2>2. CASE reviewHost' = HostIdle
    BY <1>4, <2>1, <2>2
  <2>3. CASE /\ Enqueues(n, record, "pending_review") /\ Enqueue(n, record, "pending_review")
             /\ reviewHost' = NextReviewUnit
    <3>1. /\ reviewCases'[n] # NoValue /\ reviewCases'[n].trigger = "pending_review"
          /\ reviewCases'[n].facts = record.facts
      <4>1. reviewCases[n] # NoValue =>
              reviewCases[n].trigger = "pending_review" /\ reviewCases[n].facts = record.facts
        BY <2>3 DEF Enqueues, immutableCase
      <4>2. \/ UNCHANGED <<reviewCases, reviewEvents>> /\ reviewCases[n] # NoValue
            \/ /\ reviewCases'[n] # NoValue
               /\ reviewCases'[n] = [trigger |-> "pending_review", facts |-> record.facts,
                    status |-> "pending", version |-> 1, decision |-> NoValue]
        BY <2>3, EnqueueFacts
      <4> QED
        BY <4>1, <4>2
    <3>2. Recorded(n)'
      BY <2>1, <3>1 DEF Recorded
    <3> QED
      BY <1>2, <1>6, <2>1, <2>3, <3>2
  <2> QED
    BY <1>9, <2>1, <2>2, <2>3 DEF HostEnqueue
<1>10. CASE HostClose
  <2> DEFINE g == [HostIdle EXCEPT !.phase = "sample"]
  <2>1. g.phase = "sample"
    BY IdleStates DEF HostStates
  <2>2. reviewHost' = g /\ UNCHANGED curation /\ ~receiptOpen'
    BY <1>10 DEF HostClose
  <2>3. \A u \in U : u < reviewHost.unit
    BY <1>5, <1>10, ReviewAssumption DEF HostClose, HostSound, U
  <2>4. \A u \in U : Recorded(u)'
    BY <1>2, <1>10, <2>2, <2>3 DEF HostClose, HostSound
  <2> HIDE DEF g
  <2> QED
    BY <2>1, <2>2, <2>4 DEF HostSound
<1>11. CASE HostSample
  <2> DEFINE h == [HostIdle EXCEPT !.phase = "queue", !.unit = 1, !.sample = SampleOf(curation)]
  <2>1. h.phase = "queue" /\ h.sample = SampleOf(curation)
    BY IdleStates DEF HostStates
  <2>2. reviewHost' = h /\ UNCHANGED <<curation, receiptOpen>> /\ ~receiptOpen
    BY <1>11 DEF HostSample, tables, HostSound
  <2>3. \A u \in U : Recorded(u)'
    BY <1>2, <2>2 DEF HostSound
  <2> HIDE DEF h
  <2> QED
    BY <2>1, <2>2, <2>3 DEF HostSound
<1>12. CASE HostQueue
  <2> DEFINE h == [reviewHost EXCEPT !.unit = @ + 1]
  <2>1. h.phase = "queue" /\ h.sample = reviewHost.sample
    BY <1>1, <1>12 DEF HostStates, HostQueue
  <2>2. /\ reviewHost' = h \/ reviewHost' = HostIdle
        /\ UNCHANGED <<curation, receiptOpen>> /\ ~receiptOpen
        /\ reviewHost.sample = SampleOf(curation)
    BY <1>12 DEF HostQueue, HostSound
  <2>3. \A u \in U : Recorded(u)'
    BY <1>2, <2>2 DEF HostSound
  <2> HIDE DEF h
  <2> QED
    BY <1>4, <2>1, <2>2, <2>3 DEF HostSound
<1>13. CASE HostQueued \/ HostDies
  BY <1>4, <1>13 DEF HostQueued, HostDies, tables
<1> QED
  BY <1>3, <1>7, <1>8, <1>9, <1>10, <1>11, <1>12, <1>13 DEF Host

(* The sample of a receipt is enqueued once it is closed. *)
LEMMA SamplesSoundStep ==
  ASSUME Shape, CallsSound, HostSound, SamplesSound, [ReviewNext]_reviewVars
  PROVE  SamplesSound'
<1>1. ASSUME NEW u \in U, reviewCases'[u] # NoValue, reviewCases'[u].trigger = "canary_sample",
             reviewCases[u] # NoValue
      PROVE  ~receiptOpen' /\ u = SampleOf(curation)' /\ reviewCases'[u].facts = curation'[u].facts
  <2>1. ~receiptOpen /\ u = SampleOf(curation) /\ reviewCases[u].facts = curation[u].facts
        /\ reviewCases'[u].facts = reviewCases[u].facts
    BY <1>1, CasesStay DEF SamplesSound
  <2> QED
    BY <2>1, ClosedIsFinal
<1>2. ASSUME NEW u \in U, reviewCases'[u] # NoValue, reviewCases'[u].trigger = "canary_sample",
             reviewCases[u] = NoValue
      PROVE  ~receiptOpen' /\ u = SampleOf(curation)' /\ reviewCases'[u].facts = curation'[u].facts
  <2>1. PICK record \in ReviewRecords, trigger \in Triggers : Enters(u, record, trigger)
    BY <1>2, CaseSteps DEF Enters, Decides
  <2>2. trigger = "canary_sample" /\ reviewCases'[u].facts = record.facts
    BY <1>2, <2>1 DEF Enters
  <2> QED
    BY <2>1, <2>2 DEF Enters, Enqueues, HostSound
<1> QED
  BY <1>1, <1>2 DEF SamplesSound

-----------------------------------------------------------------------------
(* What the remediation rejects was resolved as invalid, with those facts. *)
BindingsSound ==
  \A b \in bindings : b.unit \in U =>
    /\ reviewCases[b.unit] # NoValue /\ reviewCases[b.unit].facts = b.facts
    /\ \E e \in reviewEvents : /\ e.unit = b.unit /\ e.type = "resolved"
                               /\ e.decision.disposition = "invalid_candidate"

(* Cases keep their facts, and events are never taken back. *)
LEMMA BindingsSoundStep ==
  ASSUME Shape, CallsSound, BindingsSound, [ReviewNext]_reviewVars
  PROVE  BindingsSound'
<1>1. CASE Remediates
  <2> DEFINE r == Remediation
             b == bindingMatchKey(r.unit, curation[r.unit])
             event == [unit |-> r.unit, type |-> "resolved", version |-> r.version + 1,
                       decision |-> DecisionOf(r)]
  <2>1. /\ reviewCases[r.unit] # NoValue /\ curation[r.unit].facts = reviewCases[r.unit].facts
        /\ r.disposition = "invalid_candidate" /\ event \in reviewEvents
        /\ bindings' = bindings \cup {b} /\ UNCHANGED <<reviewCases, reviewEvents>>
    BY <1>1 DEF Remediates, ReviewedAsRecorded, tables
  <2>2. b.unit = r.unit /\ b.facts = curation[r.unit].facts
    BY DEF bindingMatchKey
  <2>3. event.unit = r.unit /\ event.type = "resolved"
        /\ event.decision.disposition = "invalid_candidate"
    BY <2>1 DEF DecisionOf
  <2> HIDE DEF b, event
  <2> QED
    BY <2>1, <2>2, <2>3 DEF BindingsSound
<1>2. CASE ~Remediates
  <2>1. UNCHANGED bindings
    BY <1>2 DEF ReviewNext, reviewVars, Host, HostStart, HostPut, HostEnqueue, HostClose,
       HostSample, HostQueue, HostQueued, HostDies, Closure, Canary, Submit, Resolve, GetCase,
       CheckPrior, StoreResolve, CallBreaks, ClosurePlan, ClosurePlanned, ClosureApply,
       ClosureAnswered, ClosureListPending, ClosureListDeferred, ClosureDies, CanaryStart,
       CanaryDecide, CanaryAnswered, CanaryRecords, CanaryAssess, CanaryDies, ClosureStep,
       SetClosure, CanaryStep, SetCanary
  <2> QED
    BY <2>1, CasesStay DEF BindingsSound
<1> QED
  BY <1>1, <1>2

(* A receipt found eligible is closed, and all its cases are samples that  *)
(* were resolved.                                                          *)
EligibleSound ==
  canary.phase = "eligible" =>
    /\ ~receiptOpen
    /\ \A u \in U : reviewCases[u] # NoValue =>
         /\ reviewCases[u].trigger = "canary_sample" /\ reviewCases[u].status = "resolved"
         /\ reviewCases[u].decision.disposition # "misclassified"
    /\ \E u \in U : reviewCases[u] # NoValue

(* A resolved case has a decision. *)
LEMMA ResolvedIsDecided ==
  ASSUME Shape, History, NEW u \in U, reviewCases[u] # NoValue, reviewCases[u].status = "resolved"
  PROVE  reviewCases[u].decision \in ReviewDecisions /\ reviewCases[u].decision # NoValue
<1> DEFINE c == reviewCases[u]
<1>1. c.version \in Nat \ {0}
  BY DEF Shape, ReviewTypeOK, Cases
<1>2. c.version \in 1 .. c.version
  BY <1>1
<1>3. c.version \in {e.version : e \in EventsOf(u)}
  BY <1>2 DEF History, UnitHistory
<1>4. PICK e \in EventsOf(u) : e.version = c.version
  BY <1>3
<1>5. e.decision = c.decision /\ "resolved" = IF e.type = "enqueued" THEN "pending" ELSE e.type
  BY <1>4 DEF History, UnitHistory
<1>6. e \in reviewEvents /\ e.type # "enqueued"
  BY <1>5 DEF EventsOf
<1>7. e.decision \in ReviewDecisions
  BY <1>6 DEF History
<1> QED
  BY <1>5, <1>7, NoValueAssumption

(* The gate asks for a resolved sample, and samples exist only of closed   *)
(* receipts: what was listed before the close no longer matters.           *)
LEMMA EligibleSoundStep ==
  ASSUME Shape, CallsSound, History, HostSound, SamplesSound, EligibleSound,
         [ReviewNext]_reviewVars
  PROVE  EligibleSound'
<1>1. CASE canary.phase = "eligible"
  <2>1. UNCHANGED <<curation, receiptOpen>> /\ ~receiptOpen
    BY <1>1, ClosedIsFinal DEF EligibleSound
  <2>2. ASSUME NEW u \in U, reviewCases[u] # NoValue
        PROVE  reviewCases'[u] = reviewCases[u]
    BY <1>1, <2>2, CasesStay DEF EligibleSound
  <2>3. ASSUME NEW u \in U, NEW record \in ReviewRecords, NEW trigger \in Triggers,
               Enters(u, record, trigger)
        PROVE  FALSE
    <3>1. /\ reviewCases[u] = NoValue /\ TriggerFits(trigger, curation[u])
          /\ trigger = "canary_sample" => u = SampleOf(curation)
      BY <2>3 DEF Enters, Enqueues, HostSound
    <3>2. CASE trigger = "pending_review"
      BY <2>1, <3>1, <3>2 DEF TriggerFits, HostSound, Recorded
    <3>3. CASE trigger = "canary_sample"
      BY <1>1, <3>1, <3>3 DEF EligibleSound, SamplesSound
    <3> QED
      BY <3>2, <3>3 DEF Triggers
  <2>4. ASSUME NEW u \in U, reviewCases'[u] # NoValue
        PROVE  reviewCases[u] # NoValue
    BY <2>3, <2>4, CaseSteps DEF Decides
  <2> QED
    BY <1>1, <2>1, <2>2, <2>4 DEF EligibleSound
<1>2. CASE canary.phase # "eligible" /\ canary'.phase = "eligible"
  <2>1. UNCHANGED tables /\ assess(canary.records, reviewCases)
    <3>1. canary' # canary
      BY <1>2
    <3>2. CASE CanaryAssess
      BY <1>2, <3>2, IdleStates DEF CanaryAssess, CanaryStep, SetCanary
    <3>3. CASE CanaryStart
      <4>1. PICK first \in {1, Len(Manifest) + 1} :
          canary' = [ToolIdle EXCEPT !.phase = "decide", !.unit = first,
                                     !.known = {u \in U : reviewCases[u] # NoValue}]
        BY <3>3 DEF CanaryStart, CanaryStep, SetCanary
      <4> QED
        BY <1>2, <4>1, IdleStates DEF CanaryStates
    <3>4. canary \in CanaryStates
      BY DEF Shape, ReviewTypeOK, CanaryStates
    <3>5. CASE CanaryDecide \/ CanaryAnswered \/ CanaryRecords \/ CanaryDies
      BY <1>2, <3>4, <3>5, IdleStates DEF CanaryDecide, CanaryAnswered, CanaryRecords, CanaryDies,
         CanaryStep, SetCanary, CanaryStates
    <3>6. Canary
      BY <3>1 DEF ReviewNext, reviewVars, tools, Host, HostStart, HostPut, HostEnqueue, HostClose,
       HostSample, HostQueue, HostQueued, HostDies, Closure, Submit, Resolve, GetCase, Remediates,
       CheckPrior, StoreResolve, CallBreaks, ClosurePlan, ClosurePlanned, ClosureApply,
       ClosureAnswered, ClosureListPending, ClosureListDeferred, ClosureDies, ClosureStep,
       SetClosure
    <3> QED
      BY <3>2, <3>3, <3>5, <3>6 DEF Canary
  <2>2. ASSUME NEW u \in U, reviewCases[u] # NoValue
        PROVE  /\ reviewCases[u].trigger = "canary_sample" /\ reviewCases[u].status = "resolved"
               /\ reviewCases[u].decision.disposition # "misclassified"
    <3>1. /\ TriggerFits(reviewCases[u].trigger, canary.records[u])
          /\ ~HoldsGate(canary.records[u])
          /\ reviewCases[u].status = "resolved"
          /\ \/ reviewCases[u].decision = NoValue
             \/ reviewCases[u].decision.disposition # "misclassified"
      BY <2>1, <2>2 DEF assess
    <3>2. reviewCases[u].trigger # "pending_review"
      BY <3>1 DEF TriggerFits, HoldsGate
    <3>3. reviewCases[u] \in Cases
      BY <2>2 DEF Shape, ReviewTypeOK
    <3>4. reviewCases[u].trigger = "canary_sample"
      BY <3>2, <3>3 DEF Cases
    <3> QED
      BY <2>2, <3>1, <3>4, ResolvedIsDecided
  <2>3. PICK u \in U : reviewCases[u] # NoValue
    BY <2>1 DEF assess
  <2>4. ~receiptOpen
    BY <2>2, <2>3 DEF SamplesSound
  <2> QED
    BY <2>1, <2>2, <2>3, <2>4 DEF tables, EligibleSound
<1> QED
  BY <1>1, <1>2 DEF EligibleSound

-----------------------------------------------------------------------------
(* A case the closure was told of has the disposition planned. *)
Closed(u) ==
  Closing[u] # NoValue =>
    reviewCases[u].status = "resolved" /\ reviewCases[u].decision.disposition = Closing[u].disposition

(* The closure has closed the cases before the one it is at; its call is   *)
(* about that one, and when the call is done that one is closed, too.      *)
ClosureCall(u) ==
  /\ calls["closure"].phase \in {"get", "prior", "store"} =>
       /\ calls["closure"].request.unit = u
       /\ calls["closure"].request.disposition = Closing[u].disposition
  /\ calls["closure"].phase = "done" => Closed(u)
ClosureSound ==
  /\ closure.phase \in {"apply", "resolving"} =>
       closure.unit >= 1 /\ \A u \in U : u < closure.unit => Closed(u)
  /\ closure.phase = "resolving" =>
       \A u \in U : u = closure.unit => Closing[u] # NoValue /\ ClosureCall(u)
  /\ closure.phase \in {"deferred", "reported"} =>
       /\ \A u \in U : Closed(u)
       /\ \A u \in closure.known : reviewCases[u] # NoValue /\ reviewCases[u].status # "pending"
  /\ closure.phase = "reported" => \A u \in closure.known : reviewCases[u].status = "resolved"

(* Resolved cases are final, so what is closed stays closed. *)
LEMMA ClosedStays ==
  ASSUME Shape, CallsSound, [ReviewNext]_reviewVars, closure.phase # "idle", NEW u \in U, Closed(u)
  PROVE  Closed(u)'
BY CasesStay DEF Closed, Shape, PlanAt

(* A decision that does not defer its case is what the case says. *)
LEMMA DecidedIsFinal ==
  ASSUME History, NEW e \in reviewEvents, NEW u \in U, e.unit = u, e.decision # NoValue,
         e.decision.disposition # "needs_more_evidence"
  PROVE  reviewCases[u].status = "resolved" /\ reviewCases[u].decision = e.decision
<1>1. e.type = "resolved"
  BY DEF History
<1>2. e \in EventsOf(u)
  BY DEF EventsOf
<1>3. UnitHistory(u) /\ EventsOf(u) # {}
  BY <1>2 DEF History
<1> QED
  BY <1>1, <1>2, <1>3 DEF UnitHistory

(* What others do is no answer to the closure. *)
LEMMA OthersSteps ==
  ASSUME Shape, [ReviewNext]_reviewVars, ~Closure
  PROVE  UNCHANGED closure /\ (calls'["closure"] = calls["closure"] \/ Resolve("closure"))
<1>1. calls \in [Callers -> CallStates] /\ "closure" \in Callers
  BY DEF Shape, ReviewTypeOK, Callers, CallStates, Tools
<1>2. ASSUME NEW a, a # "closure", NEW x, calls' = [calls EXCEPT ![a] = x]
      PROVE  calls'["closure"] = calls["closure"]
  BY <1>1, <1>2
<1>3. CASE Host \/ Remediates \/ UNCHANGED reviewVars
  BY <1>3 DEF Host, HostStart, HostPut, HostEnqueue, HostClose, HostSample, HostQueue,
     HostQueued, HostDies, Remediates, reviewVars, tools
<1>4. CASE Canary
  <2>1. UNCHANGED closure /\ (UNCHANGED calls \/ \E x : calls' = [calls EXCEPT !["canary"] = x])
    BY <1>4 DEF Canary, CanaryStart, CanaryDecide, CanaryAnswered, CanaryRecords, CanaryAssess,
       CanaryDies, CanaryStep, SetCanary, BeginCall
  <2> QED
    BY <1>2, <2>1
<1>5. ASSUME NEW a \in Reviewers, NEW r \in Requests, Submit(a, r)
      PROVE  UNCHANGED closure /\ calls'["closure"] = calls["closure"]
  <2>1. a # "closure"
    BY ToolsAssumption DEF Tools
  <2> QED
    BY <1>2, <1>5, <2>1 DEF Submit, BeginCall, tools
<1>6. ASSUME NEW a \in Callers, Resolve(a), a # "closure"
      PROVE  UNCHANGED closure /\ calls'["closure"] = calls["closure"]
  <2>1. CASE GetCase(a) /\ ~EndCall(a, "failed")
    <3>1. \E x, y : calls' = [calls EXCEPT ![a].phase = x, ![a].current = y]
      BY <2>1 DEF GetCase
    <3> QED
      BY <1>1, <1>6, <2>1, <3>1 DEF GetCase, tools
  <2>2. CASE CheckPrior(a) /\ calls' = [calls EXCEPT ![a].phase = "store"]
    BY <1>1, <1>6, <2>2 DEF CheckPrior, tools
  <2>3. CASE \E x : EndCall(a, x)
    BY <1>2, <1>6, <2>3 DEF EndCall, Resolve, GetCase, CheckPrior, StoreResolve, CallBreaks, tools
  <2> QED
    BY <1>6, <2>1, <2>2, <2>3 DEF Resolve, GetCase, CheckPrior, StoreResolve, CallBreaks
<1>7. CASE Resolve("closure")
  BY <1>7 DEF Resolve, GetCase, CheckPrior, StoreResolve, CallBreaks, tools
<1> QED
  BY <1>3, <1>4, <1>5, <1>6, <1>7 DEF ReviewNext, Callers

(* The closure's call goes on about its case; it is done when the key has  *)
(* decided that case before, or decides it now.                            *)
LEMMA ClosureCallStep ==
  ASSUME Shape, CallsSound, History, [ReviewNext]_reviewVars, Resolve("closure"), NEW u \in U,
         Closing[u] # NoValue, ClosureCall(u)
  PROVE  ClosureCall(u)'
<1> DEFINE a == "closure"
<1>1. /\ calls \in [Callers -> CallStates] /\ a \in Callers /\ a \in Tools /\ calls[a] \in CallStates
  BY DEF Shape, ReviewTypeOK, Callers, CallStates, Tools
<1>2. calls[a].phase \in {"get", "prior", "store"}
  BY DEF Resolve, GetCase, CheckPrior, StoreResolve, CallBreaks
<1>3. PICK r \in ReviewRequests : r = calls[a].request
  BY <1>1, <1>2 DEF Shape, CallsAt
<1>4. /\ r.unit = u /\ r.disposition = Closing[u].disposition
      /\ r.disposition # "needs_more_evidence"
  BY <1>2, <1>3, ToolsAssumption DEF ClosureCall, ClosingDispositions
<1>5. DecisionOf(r) \in ReviewDecisions /\ DecisionOf(r) # NoValue
      /\ DecisionOf(r).disposition = Closing[u].disposition
  BY <1>4, RequestFacts, NoValueAssumption DEF DecisionOf
<1>6. ASSUME EndCall(a, "failed") PROVE ClosureCall(u)'
  <2>1. calls'[a] = Ended(a, "failed")
    BY <1>1, <1>6 DEF EndCall
  <2> QED
    BY <1>1, <2>1, EndedType DEF ClosureCall
<1>7. ASSUME EndCall(a, "done"), Closed(u)' PROVE ClosureCall(u)'
  <2>1. calls'[a] = Ended(a, "done")
    BY <1>1, <1>7 DEF EndCall
  <2>2. calls'[a].phase = "done"
    BY <1>1, <2>1, EndedType
  <2> QED
    BY <1>7, <2>2 DEF ClosureCall
<1>8. ASSUME NEW e \in reviewEvents, e.unit = u, e.decision = DecisionOf(r), UNCHANGED reviewCases
      PROVE  Closed(u)'
  <2>1. reviewCases[u].status = "resolved" /\ reviewCases[u].decision = DecisionOf(r)
    BY <1>4, <1>5, <1>8, DecidedIsFinal
  <2> QED
    BY <1>5, <1>8, <2>1 DEF Closed
<1>9. ASSUME calls'[a].request = r, calls'[a].phase \in {"prior", "store"}
      PROVE  ClosureCall(u)'
  BY <1>4, <1>9 DEF ClosureCall
<1>10. CASE GetCase(a)
  <2>1. CASE EndCall(a, "failed")
    BY <1>6, <2>1
  <2>2. CASE \E y : calls' = [calls EXCEPT ![a].phase = "prior", ![a].current = y]
    <3>1. calls'[a].request = calls[a].request /\ calls'[a].phase = "prior"
      BY <1>1, <2>2 DEF CallStates
    <3> QED
      BY <1>3, <1>9, <3>1
  <2> QED
    BY <1>10, <2>1, <2>2 DEF GetCase
<1>11. CASE CheckPrior(a)
  <2>1. CASE EndCall(a, "failed")
    BY <1>6, <2>1
  <2>2. CASE calls' = [calls EXCEPT ![a].phase = "store"]
    <3>1. calls'[a].request = calls[a].request /\ calls'[a].phase = "store"
      BY <1>1, <2>2 DEF CallStates
    <3> QED
      BY <1>3, <1>9, <3>1
  <2>3. CASE /\ PriorEvents(r) # {} /\ \A e \in PriorEvents(r) : sameDecision(e, r)
             /\ EndCall(a, "done")
    <3>1. PICK e \in reviewEvents : sameDecision(e, r)
      BY <2>3 DEF PriorEvents
    <3>2. Closed(u)'
      BY <1>4, <1>8, <1>11, <3>1 DEF sameDecision, CheckPrior, tables
    <3> QED
      BY <1>7, <2>3, <3>2
  <2> QED
    BY <1>3, <1>11, <2>1, <2>2, <2>3 DEF CheckPrior
<1>12. CASE StoreResolve(a)
  <2> DEFINE event == [unit |-> r.unit, type |-> StatusAfter(r),
                       version |-> calls[a].current.version + 1, decision |-> DecisionOf(r)]
  <2>1. CASE EndCall(a, "failed")
    BY <1>6, <2>1
  <2>2. CASE /\ UNCHANGED <<reviewCases, reviewEvents>> /\ PriorEvents(r) # {}
             /\ ~Refuses(r, event) /\ EndCall(a, "done")
    <3>1. PICK e \in reviewEvents : e = event
      BY <2>2 DEF PriorEvents, Refuses, sameEventIntent
    <3>2. e.unit = u /\ e.decision = DecisionOf(r)
      BY <1>4, <3>1
    <3> QED
      BY <1>7, <1>8, <2>2, <3>2
  <2>3. CASE Decides(a, r) /\ EndCall(a, "done")
    <3>1. reviewCases'[u].status = "resolved" /\ reviewCases'[u].decision = DecisionOf(r)
      BY <1>4, <2>3 DEF Decides, StatusAfter
    <3> QED
      BY <1>5, <1>7, <2>3, <3>1 DEF Closed
  <2>4. UNCHANGED <<reviewCases, reviewEvents>> \/ Decides(a, r)
    BY <1>1, <1>3, <1>12, StoreFacts
  <2>5. CASE UNCHANGED <<reviewCases, reviewEvents>> /\ PriorEvents(r) = {} /\ EndCall(a, "done")
    <3>1. ~Refuses(r, event) \/ EndCall(a, "failed")
      BY <1>3, <1>12 DEF StoreResolve
    <3>2. CASE ~Refuses(r, event)
      <4>1. reviewEvents' = reviewEvents \cup {event}
        BY <1>3, <1>12, <2>5, <3>2 DEF StoreResolve
      <4>2. event \in reviewEvents /\ event.unit = u /\ event.decision = DecisionOf(r)
        BY <1>4, <2>5, <4>1
      <4> QED
        BY <1>7, <1>8, <2>5, <4>2
    <3> QED
      BY <1>6, <3>1, <3>2
  <2> QED
    BY <1>3, <1>12, <2>1, <2>2, <2>3, <2>4, <2>5 DEF StoreResolve
<1>13. CASE CallBreaks(a)
  BY <1>6, <1>13 DEF CallBreaks
<1> QED
  BY <1>10, <1>11, <1>12, <1>13 DEF Resolve

(* The closure, step by step. *)
LEMMA ClosureSoundStep ==
  ASSUME Shape, CallsSound, History, ClosureSound, [ReviewNext]_reviewVars
  PROVE  ClosureSound'
<1>1. /\ closure \in ClosureStates /\ closure.known \subseteq U /\ closure.unit \in Nat
      /\ calls \in [Callers -> CallStates] /\ "closure" \in Callers
  BY DEF Shape, ReviewTypeOK, ClosureStates, Callers, CallStates, Tools
<1>2. ASSUME NEW u \in U, closure.phase # "idle", Closed(u) PROVE Closed(u)'
  BY <1>2, ClosedStays
<1>3. CASE ~Closure
  <2>1. UNCHANGED closure /\ (calls'["closure"] = calls["closure"] \/ Resolve("closure"))
    BY <1>3, OthersSteps
  <2>2. ASSUME NEW u \in U, Closing[u] # NoValue, closure.phase # "idle", ClosureCall(u)
        PROVE  ClosureCall(u)'
    <3>1. CASE Resolve("closure")
      BY <2>2, <3>1, ClosureCallStep
    <3>2. CASE calls'["closure"] = calls["closure"]
      BY <1>2, <2>2, <3>2 DEF ClosureCall
    <3> QED
      BY <2>1, <3>1, <3>2
  <2>3. ASSUME NEW u \in closure.known, reviewCases[u] # NoValue, reviewCases[u].status # "pending"
        PROVE  reviewCases'[u] # NoValue /\ reviewCases'[u].status # "pending"
               /\ (reviewCases[u].status = "resolved" => reviewCases'[u].status = "resolved")
    BY <1>1, <2>3, CasesStay
  <2> QED
    BY <1>2, <2>1, <2>2, <2>3 DEF ClosureSound
<1>4. ASSUME closure'.phase = "idle" PROVE ClosureSound'
  BY <1>4 DEF ClosureSound
<1>5. ASSUME closure' = ToolIdle PROVE ClosureSound'
  BY <1>4, <1>5, IdleStates
<1>6. /\ ClosureOnward \in ClosureStates /\ ClosureOnward.phase = closure.phase
      /\ ClosureOnward.unit = closure.unit + 1
  BY <1>1 DEF ClosureOnward, ClosureStates
<1>7. ASSUME closure.phase \in {"apply", "resolving"}, NEW n \in U, n = closure.unit, Closed(n)',
             closure'.phase = "apply", closure'.unit = n + 1
      PROVE  ClosureSound'
  <2>1. \A u \in U : u \in Nat /\ (u < n + 1 => u < n \/ u = n)
    BY DEF U
  <2>2. n >= 1 /\ n + 1 >= 1 /\ \A u \in U : u < n => Closed(u)'
    BY <1>2, <1>7 DEF ClosureSound, U
  <2> QED
    BY <1>7, <2>1, <2>2 DEF ClosureSound
<1>8. CASE ClosurePlan
  <2>1. closure.phase = "idle"
    BY <1>8 DEF ClosurePlan
  <2>2. ASSUME NEW n PROVE [ClosureOnward EXCEPT !.plan = Append(@, n)].phase = "idle"
    BY <1>6, <2>1 DEF ClosureStates
  <2> QED
    BY <1>4, <1>5, <1>8, <2>2 DEF ClosurePlan, ClosureStep, SetClosure
<1>9. CASE ClosurePlanned
  <2>1. closure'.phase = "apply" /\ closure'.unit = 1
    BY <1>1, <1>9 DEF ClosurePlanned, ClosureStep, SetClosure, ClosureStates
  <2>2. \A u \in U : ~(u < 1)
    BY ReviewAssumption DEF U
  <2> QED
    BY <2>1, <2>2 DEF ClosureSound
<1>10. CASE ClosureApply
  <2>1. PICK n \in U : n = closure.unit /\ closure.phase = "apply"
    BY <1>10 DEF ClosureApply
  <2>2. CASE ClosureStep(ToolIdle)
    BY <1>5, <2>2 DEF ClosureStep, SetClosure
  <2>3. CASE (Closing[n] = NoValue \/ ClosedAlready(n)) /\ ClosureStep(ClosureOnward)
    <3>1. Closed(n)
      BY <2>3 DEF Closed, ClosedAlready
    <3>2. Closed(n)'
      BY <1>2, <2>1, <3>1
    <3> QED
      BY <1>6, <1>7, <2>1, <2>3, <3>2 DEF ClosureStep, SetClosure
  <2>4. CASE /\ Closing[n] # NoValue /\ SetClosure([closure EXCEPT !.phase = "resolving"])
             /\ BeginCall("closure",
                  [key |-> <<"closure", n, closure.plan[n], Closing[n].disposition>>, unit |-> n,
                   disposition |-> Closing[n].disposition, version |-> reviewCases[n].version,
                   by |-> "operator"])
    <3> DEFINE r == [key |-> <<"closure", n, closure.plan[n], Closing[n].disposition>>, unit |-> n,
                     disposition |-> Closing[n].disposition, version |-> reviewCases[n].version,
                     by |-> "operator"]
               call == [NoCall EXCEPT !.phase = "get", !.request = r]
    <3>1. r.unit = n /\ r.disposition = Closing[n].disposition
      OBVIOUS
    <3> HIDE DEF r
    <3>2. calls' = [calls EXCEPT !["closure"] = call]
      BY <2>4 DEF BeginCall, r
    <3>3. call.phase = "get" /\ call.request = r
      BY IdleStates DEF CallStates
    <3> HIDE DEF call
    <3>4. calls'["closure"] = call
      BY <1>1, <3>2
    <3>5. ClosureCall(n)'
      BY <3>1, <3>3, <3>4 DEF ClosureCall
    <3>6. closure'.phase = "resolving" /\ closure'.unit = n
      BY <1>1, <2>1, <2>4 DEF SetClosure, ClosureStates
    <3>7. n >= 1 /\ \A u \in U : u < n => Closed(u)'
      BY <1>2, <2>1 DEF ClosureSound
    <3> QED
      BY <2>4, <3>5, <3>6, <3>7 DEF ClosureSound
  <2> QED
    BY <1>10, <2>1, <2>2, <2>3, <2>4 DEF ClosureApply
<1>11. CASE ClosureAnswered
  <2>1. CASE closure' = ToolIdle
    BY <1>5, <2>1
  <2>2. CASE calls["closure"].phase = "done" /\ closure' = [ClosureOnward EXCEPT !.phase = "apply"]
    <3>1. closure'.phase = "apply" /\ closure'.unit = closure.unit + 1 /\ closure.phase = "resolving"
      BY <1>6, <1>11, <2>2 DEF ClosureStates, ClosureAnswered
    <3>2. CASE closure.unit \in U
      <4>1. PICK n \in U : n = closure.unit
        BY <3>2
      <4>2. Closed(n)
        BY <2>2, <3>1, <4>1 DEF ClosureSound, ClosureCall
      <4> QED
        BY <1>2, <1>7, <3>1, <4>1, <4>2
    <3>3. CASE closure.unit \notin U
      <4>1. PICK n \in Nat : n = closure.unit /\ n >= 1 /\ n \notin U
        BY <1>1, <3>1, <3>3 DEF ClosureSound
      <4>2. \A u \in U : u < n
        BY <4>1, ReviewAssumption DEF U
      <4>3. \A u \in U : Closed(u)'
        BY <1>2, <3>1, <4>1, <4>2 DEF ClosureSound
      <4> QED
        BY <3>1, <4>1, <4>3 DEF ClosureSound
    <3> QED
      BY <3>2, <3>3
  <2> QED
    BY <1>11, <2>1, <2>2 DEF ClosureAnswered, SetClosure
<1>12. CASE ClosureListPending
  <2> DEFINE t == [closure EXCEPT !.phase = "deferred",
                                  !.known = {u \in U : reviewCases[u] # NoValue}]
  <2>1. t.phase = "deferred" /\ t.known = {u \in U : reviewCases[u] # NoValue}
    BY <1>1 DEF ClosureStates
  <2> HIDE DEF t
  <2>2. CASE closure' = ToolIdle
    BY <1>5, <2>2
  <2>3. CASE OpenCases("pending") = {} /\ closure' = t
    <3>1. /\ closure.phase = "apply" /\ closure.unit >= 1 /\ closure.unit \notin U
          /\ UNCHANGED reviewCases
      BY <1>12 DEF ClosureListPending, ClosureStep, SetClosure, ClosureSound, tables
    <3>2. \A u \in U : u < closure.unit
      BY <1>1, <3>1, ReviewAssumption DEF U
    <3>3. \A u \in U : Closed(u)'
      BY <1>2, <3>1, <3>2 DEF ClosureSound
    <3>4. \A u \in t.known : reviewCases[u] # NoValue /\ reviewCases[u].status # "pending"
      BY <2>1, <2>3 DEF OpenCases
    <3> QED
      BY <2>1, <2>3, <3>1, <3>3, <3>4 DEF ClosureSound
  <2> QED
    BY <1>12, <2>2, <2>3 DEF ClosureListPending, ClosureStep, SetClosure, t
<1>13. CASE ClosureListDeferred
  <2> DEFINE t == [closure EXCEPT !.phase = "reported"]
  <2>1. t.phase = "reported" /\ t.known = closure.known
    BY <1>1 DEF ClosureStates
  <2> HIDE DEF t
  <2>2. CASE closure' = ToolIdle
    BY <1>5, <2>2
  <2>3. CASE OpenCases("deferred") = {} /\ closure' = t
    <3>1. closure.phase = "deferred" /\ UNCHANGED reviewCases
      BY <1>13 DEF ClosureListDeferred, ClosureStep, SetClosure, tables
    <3>2. \A u \in U : Closed(u)'
      BY <1>2, <3>1 DEF ClosureSound
    <3>3. \A u \in closure.known :
            /\ u \in U /\ reviewCases[u] # NoValue
            /\ reviewCases[u].status # "pending" /\ reviewCases[u].status # "deferred"
      BY <1>1, <2>3, <3>1 DEF OpenCases, ClosureSound
    <3>4. \A u \in closure.known : reviewCases[u].status = "resolved"
      BY <3>3 DEF Shape, ReviewTypeOK, Cases
    <3> QED
      BY <2>1, <2>3, <3>1, <3>2, <3>3, <3>4 DEF ClosureSound
  <2> QED
    BY <1>13, <2>2, <2>3 DEF ClosureListDeferred, ClosureStep, SetClosure, t
<1>14. CASE ClosureDies
  BY <1>5, <1>14 DEF ClosureDies
<1> QED
  BY <1>3, <1>8, <1>9, <1>10, <1>11, <1>12, <1>13, <1>14 DEF Closure

-----------------------------------------------------------------------------
(* The inductive invariant of the review queue. *)
ReviewInv ==
  /\ Shape /\ CallsSound /\ History
  /\ HostSound /\ SamplesSound /\ BindingsSound
  /\ ClosureSound /\ EligibleSound

(* It holds at the start, with empty tables and nobody at work. *)
LEMMA ReviewInvInit == ReviewInit => ReviewInv
<1> SUFFICES ASSUME ReviewInit PROVE ReviewInv
  OBVIOUS
<1>1. Shape
  BY ShapeInit
<1>2. CallsSound
  BY IdleStates DEF ReviewInit, CallsSound, Callers
<1>3. History
  <2>1. \A u \in U : EventsOf(u) = {} /\ reviewCases[u] = NoValue
    BY DEF ReviewInit, EventsOf
  <2>2. \A u \in U : UnitHistory(u) /\ IsFiniteSet(EventsOf(u))
    BY <2>1, FS_EmptySet DEF UnitHistory
  <2> QED
    BY <2>2 DEF ReviewInit, History, KeysOnce
<1>4. HostSound /\ SamplesSound /\ BindingsSound
  BY IdleStates DEF ReviewInit, HostSound, SamplesSound, BindingsSound
<1>5. ClosureSound /\ EligibleSound
  BY IdleStates DEF ReviewInit, ClosureSound, EligibleSound
<1> QED
  BY <1>1, <1>2, <1>3, <1>4, <1>5 DEF ReviewInv

(* Every step of every actor keeps the invariant. *)
THEOREM ReviewInvariance == ReviewSpec => []ReviewInv
<1>1. ReviewInv /\ [ReviewNext]_reviewVars => ReviewInv'
  BY ShapeStep, CallsSoundStep, HistoryStep, HostSoundStep, SamplesSoundStep, BindingsSoundStep,
     ClosureSoundStep, EligibleSoundStep DEF ReviewInv
<1> QED
  BY <1>1, ReviewInvInit, PTL DEF ReviewSpec

(* The queue and the tools are in states of their programs, and the tables *)
(* hold rows of their shapes, whoever dies or breaks off.                  *)
THEOREM ReviewTypeCorrect == ReviewSpec => []ReviewTypeOK
<1>1. ReviewInv => ReviewTypeOK
  BY DEF ReviewInv, Shape
<1> QED
  BY <1>1, ReviewInvariance, PTL

(* The history of every case is whole and final, and no idempotency key    *)
(* decides twice, whatever callers read before they decide: resolve checks *)
(* the key and the status on what it read, the store only the version.     *)
THEOREM HistoriesAreWhole == ReviewSpec => []ReviewHistory
<1>1. ReviewInv => ReviewHistory
  BY DEF ReviewInv, History, ReviewHistory, UnitHistory, EventsOf, KeysOnce
<1> QED
  BY <1>1, ReviewInvariance, PTL

(* Pending outcomes are in the queue, as they are, before the receipt is   *)
(* closed, however often the host died and judged them again.              *)
THEOREM PendingAreQueued == ReviewSpec => []PendingIsQueued
<1>1. ReviewInv => PendingIsQueued
  BY DEF ReviewInv, HostSound, Recorded, PendingIsQueued
<1> QED
  BY <1>1, ReviewInvariance, PTL

(* The closure's report is true: what it planned is decided as planned and *)
(* nothing it knew of is open, whatever reviewers did meanwhile.           *)
THEOREM ClosuresAreTrue == ReviewSpec => []ClosureTruth
<1>1. ReviewInv => ClosureTruth
  BY DEF ReviewInv, ClosureSound, Closed, ClosureTruth
<1> QED
  BY <1>1, ReviewInvariance, PTL

(* A receipt the canary gate found eligible is reviewed and stays so.      *)
THEOREM EligibleAreReviewed == ReviewSpec => []EligibleIsReviewed
<1>1. ASSUME ReviewInv, canary.phase = "eligible" PROVE EligibleIsReviewed
  <2>1. /\ ~receiptOpen /\ \A u \in U : Recorded(u)
        /\ \A u \in U : reviewCases[u] # NoValue =>
             /\ reviewCases[u].trigger = "canary_sample" /\ reviewCases[u].status = "resolved"
             /\ reviewCases[u].decision.disposition # "misclassified"
             /\ reviewCases[u].facts = curation[u].facts
        /\ \E u \in U : reviewCases[u] # NoValue
    BY <1>1 DEF ReviewInv, EligibleSound, HostSound, SamplesSound
  <2>2. \A u \in U : curation[u] # NoValue /\ curation[u].outcome # "pending_review"
    BY <2>1 DEF Recorded
  <2> QED
    BY <2>1, <2>2 DEF EligibleIsReviewed
<1>2. ReviewInv => EligibleIsReviewed
  BY <1>1 DEF EligibleIsReviewed
<1> QED
  BY <1>2, ReviewInvariance, PTL

(* A candidate the remediation rejects was rejected by a reviewer as it    *)
(* is.                                                                     *)
THEOREM RemediationsAreReviewed == ReviewSpec => []RemediationIsReviewed
<1>1. ASSUME ReviewInv, NEW u \in U, NEW j \in Judgements[u], resolveInvalidCandidate(u, j)
      PROVE  /\ reviewCases[u] # NoValue /\ reviewCases[u].facts = j.facts
             /\ \E e \in reviewEvents : /\ e.unit = u /\ e.type = "resolved"
                                        /\ e.decision.disposition = "invalid_candidate"
  <2> DEFINE b == bindingMatchKey(u, j)
  <2>1. b \in bindings /\ b.unit = u /\ b.facts = j.facts
    BY <1>1 DEF resolveInvalidCandidate, bindingMatchKey
  <2> HIDE DEF b
  <2> QED
    BY <1>1, <2>1 DEF ReviewInv, BindingsSound
<1>2. ReviewInv => RemediationIsReviewed
  BY <1>1 DEF RemediationIsReviewed
<1> QED
  BY <1>2, ReviewInvariance, PTL

-----------------------------------------------------------------------------
(* The migration of historical sessions *)

Outcomes == {"ingested", "skipped"}
UnitStates == {"found", "read", "verified", "ingested", "skipped", "failed"}
WindowEntries ==
  [unit : Positions, next : 0 .. SourceUnits, status : UnitStates,
   read : Versions \cup {0}, fingerprint : Versions \cup {0}]
HostFields ==
  {"phase", "state", "exists", "cursor", "window", "exhausted", "failed", "saved", "processed"}

(* The units the source still has. *)
Live == {u \in Positions : source[u] > 0}

PassedBy(s, live) == {u \in live : u <= s.last \/ s.complete}

(* A state some host saved or is about to go on from: it counts no unit    *)
(* twice, leaves no unit behind, and where it is not complete the next     *)
(* window starts at the unit after its last.                               *)
Checkpointed(s, live, done) ==
  /\ s \in MigrationState /\ s.ingested + s.skipped = s.processed
  /\ ~s.complete => s.cursor = s.last
  /\ \A u \in PassedBy(s, live) : u > Inherited =>
       \E v \in Versions : \E o \in Outcomes : <<u, v, o>> \in done
  /\ Cardinality(PassedBy(s, live)) <= s.processed /\ s.processed <= s.last
  /\ s.last > Inherited => \E o \in Outcomes : <<s.last, s.version, o>> \in done

StateSound(s, live, done) == s = NoState \/ Checkpointed(s, live, done)

LastOf(s) == IF s = NoState THEN 0 ELSE s.last
TailOf(w, s) == IF w = << >> THEN LastOf(s) ELSE w[Len(w)].unit

(* The unit before the i-th of the window, k of which are saved in s. *)
Before(w, s, k, i) == IF i = k + 1 THEN LastOf(s) ELSE w[i - 1].unit

(* A unit's receipt is of the content whose fingerprint is kept. *)
EntrySound(e, done) ==
  /\ e.next \in {0, e.unit}
  /\ e.status \in {"read", "verified"} => e.read \in Versions
  /\ e.status \in {"verified", "ingested", "skipped"} => e.fingerprint = e.read
  /\ Fulfilled(e) => \E o \in Outcomes : <<e.unit, e.read, o>> \in done

(* The window goes on from the state without leaving out a unit, and only  *)
(* the last unit of the source comes without a cursor.                     *)
WindowSound(w, s, k, live, done) ==
  /\ w \in Seq(WindowEntries)
  /\ \A i \in 1 .. Len(w) : EntrySound(w[i], done)
  /\ \A i \in 1 .. Len(w) : w[i].next = 0 =>
       i = Len(w) /\ \A u \in live : u <= w[i].unit
  /\ \A i \in k + 1 .. Len(w) :
       /\ Before(w, s, k, i) < w[i].unit
       /\ \A u \in live : u <= Before(w, s, k, i) \/ w[i].unit <= u

NoneLast(w) == \A i \in 1 .. Len(w) : w[i].next # 0

Discovering(st, bound, live) ==
  /\ st.saved = 0 /\ st.processed < bound
  /\ st.state = NoState \/ ~st.state.complete
  /\ IF st.exhausted THEN \A u \in live : u <= TailOf(st.window, st.state)
     ELSE st.cursor = TailOf(st.window, st.state) /\ NoneLast(st.window)

Saving(st, live) ==
  /\ st.saved \in 0 .. Len(st.window)
  /\ \A i \in 1 .. Len(st.window) : Fulfilled(st.window[i])
  /\ ~st.failed => st.window # << >>
  /\ st.exhausted /\ ~st.failed => \A u \in live : u <= TailOf(st.window, st.state)
  /\ st.saved > 0 => st.state # NoState /\ st.state.last = st.window[st.saved].unit
  /\ ~st.exhausted => NoneLast(st.window) /\ (st.state = NoState \/ ~st.state.complete)

HostSoundIn(st, bound, live, done) ==
  /\ st = [f \in HostFields |-> st[f]]
  /\ st.phase \in {"off", "seed", "lock", "load", "discover", "save"}
  /\ st.exhausted \in BOOLEAN /\ st.failed \in BOOLEAN /\ st.processed \in Nat
  /\ st.phase = "load" => st.processed = 0
  /\ StateSound(st.state, live, done)
  /\ st.phase \in {"discover", "save"} =>
       WindowSound(st.window, st.state, st.saved, live, done)
  /\ st.phase = "discover" => Discovering(st, bound, live)
  /\ st.phase = "save" => Saving(st, live)

MigrationInv ==
  /\ source \in [Positions -> Versions \cup {0}]
  /\ settledUnits \subseteq Positions \X Versions \X Outcomes
  /\ StateSound(stateFile, Live, settledUnits)
  /\ migrating = [h \in MigrationHosts |-> migrating[h]]
  /\ \A h \in MigrationHosts :
       HostSoundIn(migrating[h], MaxUnits[h], Live, settledUnits)

(* The units passed are a finite set, and fewer when the source has less. *)
LEMMA PassedCounts ==
  ASSUME NEW live \in SUBSET Positions, NEW less \in SUBSET live, NEW s
  PROVE  /\ IsFiniteSet(PassedBy(s, live)) /\ Cardinality(PassedBy(s, live)) \in Nat
         /\ PassedBy(s, less) \subseteq PassedBy(s, live)
         /\ Cardinality(PassedBy(s, less)) \in Nat
         /\ Cardinality(PassedBy(s, less)) <= Cardinality(PassedBy(s, live))
<1>1. IsFiniteSet(Positions)
  BY MigrationAssumption, FS_Interval DEF Positions
<1>2. PassedBy(s, live) \in SUBSET Positions /\ PassedBy(s, less) \in SUBSET PassedBy(s, live)
  BY DEF PassedBy
<1>3. IsFiniteSet(PassedBy(s, live)) /\ IsFiniteSet(PassedBy(s, less))
  BY <1>1, <1>2, FS_Subset
<1> QED
  BY <1>2, <1>3, FS_Subset, FS_CardinalityType

(* Deletions, edits and further receipts leave a sound state sound. *)
LEMMA StateKeeps ==
  ASSUME NEW live \in SUBSET Positions, NEW less \in SUBSET live, NEW done, NEW more,
         done \subseteq more, NEW s, StateSound(s, live, done)
  PROVE  StateSound(s, less, more)
<1> SUFFICES ASSUME Checkpointed(s, live, done) PROVE Checkpointed(s, less, more)
  BY DEF StateSound
<1>1. s \in MigrationState /\ s.processed \in Nat
  BY MigrationAssumption DEF Checkpointed, MigrationState
<1>2. Cardinality(PassedBy(s, less)) <= s.processed
  <2>1. PICK a, b \in Nat :
          a = Cardinality(PassedBy(s, less)) /\ b = Cardinality(PassedBy(s, live)) /\ a <= b
    BY PassedCounts
  <2>2. b <= s.processed
    BY <2>1 DEF Checkpointed
  <2> QED
    BY <1>1, <2>1, <2>2
<1> QED
  BY <1>1, <1>2, PassedCounts DEF Checkpointed

(* They leave a window that goes on from a state one that does. *)
LEMMA WindowKeeps ==
  ASSUME NEW live \in SUBSET Positions, NEW less \in SUBSET live, NEW done, NEW more,
         done \subseteq more, NEW w, NEW s, NEW k,
         WindowSound(w, s, k, live, done)
  PROVE  WindowSound(w, s, k, less, more)
BY DEF WindowSound, EntrySound

(* So a host that takes no step keeps what it knows. *)
LEMMA HostKeeps ==
  ASSUME NEW live \in SUBSET Positions, NEW less \in SUBSET live, NEW done, NEW more,
         done \subseteq more, NEW st, NEW bound, HostSoundIn(st, bound, live, done)
  PROVE  HostSoundIn(st, bound, less, more)
<1>1. StateSound(st.state, less, more)
  BY StateKeeps DEF HostSoundIn
<1>2. st.phase \in {"discover", "save"} =>
        WindowSound(st.window, st.state, st.saved, less, more)
  BY WindowKeeps DEF HostSoundIn
<1>3. st.phase = "discover" => Discovering(st, bound, less)
  BY DEF HostSoundIn, Discovering
<1>4. st.phase = "save" => Saving(st, less)
  BY DEF HostSoundIn, Saving
<1> QED
  BY <1>1, <1>2, <1>3, <1>4 DEF HostSoundIn

(* The predecessor's state counts every unit up to its cursor. *)
LEMMA SeedSound ==
  ASSUME Predecessor # NoState, NEW live \in SUBSET Positions, NEW done
  PROVE  StateSound(Predecessor, live, done)
<1>0. PICK s : s = Predecessor
  OBVIOUS
<1>1. /\ s \in MigrationState /\ s.complete = FALSE /\ s.cursor \in Positions
      /\ s.last = s.cursor /\ s.processed = s.cursor /\ Inherited = s.cursor
      /\ s.ingested + s.skipped = s.processed
  BY <1>0, MigrationAssumption DEF MigrationState, Inherited
<1>2. PICK c \in Nat : c = s.cursor /\ c > 0
  BY <1>1, MigrationAssumption DEF Positions
<1>3. \A u \in live : u \in Nat /\ u > 0
  BY MigrationAssumption DEF Positions
<1>4. PassedBy(s, live) \in SUBSET (1 .. c)
  BY <1>1, <1>2, <1>3 DEF PassedBy
<1>5. IsFiniteSet(1 .. c) /\ Cardinality(1 .. c) = c
  <2>1. 1 \in Int /\ c \in Int /\ ~(1 > c) /\ c - 1 + 1 = c
    BY <1>2
  <2>2. IsFiniteSet(1 .. c) /\ Cardinality(1 .. c) = IF 1 > c THEN 0 ELSE c - 1 + 1
    BY ONLY <2>1, FS_Interval
  <2> QED
    BY <2>1, <2>2
<1>6. Cardinality(PassedBy(s, live)) <= c
  BY <1>4, <1>5, FS_Subset
<1> QED
  BY <1>0, <1>1, <1>2, <1>4, <1>6 DEF StateSound, Checkpointed

(* A state may be completed when the source has nothing after its last unit. *)
LEMMA CompletedSound ==
  ASSUME NEW live \in SUBSET Positions, NEW done, NEW s, StateSound(s, live, done),
         \A u \in live : u <= LastOf(s)
  PROVE  Checkpointed(completedState(s), live, done)
<1>1. CASE s = NoState
  <2> DEFINE c == [cursor |-> 0, last |-> 0, version |-> 0, processed |-> 0, ingested |-> 0,
                   skipped |-> 0, complete |-> TRUE]
  <2>1. completedState(s) = c
    BY <1>1 DEF completedState
  <2>2. live = {}
    BY <1>1, MigrationAssumption DEF LastOf, Positions
  <2>3. PassedBy(c, live) = {} /\ Cardinality(PassedBy(c, live)) = 0
    BY <2>2, FS_EmptySet DEF PassedBy
  <2>4. c \in MigrationState
    BY MigrationAssumption DEF MigrationState
  <2>5. ~(c.last > Inherited)
    BY MigrationAssumption DEF Inherited, Positions
  <2> QED
    BY <2>1, <2>3, <2>4, <2>5 DEF Checkpointed
<1>2. CASE s # NoState
  <2>1. Checkpointed(s, live, done) /\ s \in MigrationState
    BY <1>2 DEF StateSound, Checkpointed
  <2>2. PICK c : c = [s EXCEPT !.complete = TRUE]
    OBVIOUS
  <2>3. c = completedState(s)
    BY <1>2, <2>2 DEF completedState
  <2>4. /\ c \in MigrationState
        /\ c.last = s.last /\ c.processed = s.processed
        /\ c.ingested = s.ingested /\ c.skipped = s.skipped
        /\ c.version = s.version /\ c.complete
    BY <2>1, <2>2 DEF MigrationState
  <2>5. PassedBy(c, live) = PassedBy(s, live)
    BY <1>2, <2>4 DEF PassedBy, LastOf
  <2> QED
    BY <2>1, <2>3, <2>4, <2>5 DEF Checkpointed
<1> QED
  BY <1>1, <1>2

(* A fulfilled unit right after the state's last may be checkpointed. *)
LEMMA AdvancedSound ==
  ASSUME NEW live \in SUBSET Positions, NEW done, NEW s, StateSound(s, live, done),
         done \subseteq Positions \X Versions \X Outcomes,
         NEW e \in WindowEntries, EntrySound(e, done), Fulfilled(e), LastOf(s) < e.unit,
         \A u \in live : u <= LastOf(s) \/ e.unit <= u,
         e.next = 0 => \A u \in live : u <= e.unit
  PROVE  /\ Checkpointed(advancedState(s, e), live, done)
         /\ advancedState(s, e).last = e.unit
         /\ advancedState(s, e).complete <=> e.next = 0
<1> DEFINE prior == IF s = NoState THEN [processed |-> 0, ingested |-> 0, skipped |-> 0] ELSE s
           n == advancedState(s, e)
<1>1. PICK p, i, k \in Nat :
        /\ p = prior.processed /\ i = prior.ingested /\ k = prior.skipped
        /\ i + k = p /\ p <= LastOf(s)
  BY MigrationAssumption DEF StateSound, Checkpointed, MigrationState, LastOf
<1>2. /\ n.cursor = e.next /\ n.last = e.unit /\ n.version = e.fingerprint
      /\ n.processed = p + 1 /\ n.complete \in BOOLEAN /\ (n.complete <=> e.next = 0)
      /\ n.ingested = i + (IF e.status = "ingested" THEN 1 ELSE 0)
      /\ n.skipped = k + (IF e.status = "ingested" THEN 0 ELSE 1)
      /\ n = [cursor |-> n.cursor, last |-> n.last, version |-> n.version,
              processed |-> n.processed, ingested |-> n.ingested, skipped |-> n.skipped,
              complete |-> n.complete]
  BY <1>1 DEF advancedState
<1> HIDE DEF n
<1>3. e.unit \in 1 .. SourceUnits /\ e.next \in {0, e.unit} /\ LastOf(s) \in Nat
  BY MigrationAssumption DEF WindowEntries, Positions, EntrySound, StateSound, Checkpointed,
     MigrationState, LastOf
<1>4. n.ingested + n.skipped = n.processed /\ n.ingested \in Nat /\ n.skipped \in Nat
  <2>1. \/ n.ingested = i + 1 /\ n.skipped = k + 0
        \/ n.ingested = i + 0 /\ n.skipped = k + 1
    BY <1>2
  <2> QED
    BY <1>1, <1>2, <2>1
<1>5. n.processed <= n.last /\ n.processed \in Nat
  BY <1>1, <1>2, <1>3
<1>6. n \in MigrationState
  <2>1. n.processed \in 0 .. SourceUnits /\ n.ingested \in 0 .. SourceUnits
        /\ n.skipped \in 0 .. SourceUnits /\ n.last \in 0 .. SourceUnits
        /\ n.cursor \in 0 .. SourceUnits
    BY <1>2, <1>3, <1>4, <1>5, MigrationAssumption
  <2>2. n.version \in Versions \cup {0} /\ n.complete \in BOOLEAN
    BY <1>2 DEF WindowEntries
  <2> QED
    BY <1>2, <2>1, <2>2 DEF MigrationState
<1>7. \E o \in Outcomes : <<n.last, n.version, o>> \in done
  BY <1>2 DEF EntrySound, Fulfilled
<1> DEFINE old == IF s = NoState THEN {} ELSE PassedBy(s, live)
<1>8. PassedBy(n, live) \subseteq old \cup {e.unit}
  <2> SUFFICES ASSUME NEW u \in live, u <= n.last \/ n.complete, u # e.unit
               PROVE  u \in old
    BY DEF PassedBy
  <2>1. u \in Nat /\ u > 0
    BY MigrationAssumption DEF Positions
  <2>2. u <= LastOf(s)
    BY <1>2, <1>3, <2>1
  <2> QED
    BY <2>1, <2>2 DEF PassedBy, LastOf
<1>9. \A u \in PassedBy(n, live) : u > Inherited =>
        \E v \in Versions : \E o \in Outcomes : <<u, v, o>> \in done
  <2>1. \A u \in old : u > Inherited =>
          \E v \in Versions : \E o \in Outcomes : <<u, v, o>> \in done
    BY DEF StateSound, Checkpointed
  <2>2. \E v \in Versions : \E o \in Outcomes : <<e.unit, v, o>> \in done
    BY <1>2, <1>7
  <2> QED
    BY <1>8, <2>1, <2>2
<1>10. Cardinality(PassedBy(n, live)) <= n.processed
  <2>1. IsFiniteSet(old) /\ Cardinality(old) \in Nat /\ Cardinality(old) <= p
    <3>1. CASE s = NoState
      BY <1>1, <3>1, FS_EmptySet
    <3>2. CASE s # NoState
      BY <1>1, <3>2, PassedCounts DEF StateSound, Checkpointed
    <3> QED
      BY <3>1, <3>2
  <2> HIDE DEF old
  <2>2. IsFiniteSet(old \cup {e.unit}) /\ Cardinality(old \cup {e.unit}) <= p + 1
    <3>1. /\ IsFiniteSet(old \cup {e.unit})
          /\ \/ Cardinality(old \cup {e.unit}) = Cardinality(old)
             \/ Cardinality(old \cup {e.unit}) = Cardinality(old) + 1
      BY <2>1, FS_AddElement
    <3> QED
      BY <1>1, <2>1, <3>1
  <2>3. Cardinality(old \cup {e.unit}) \in Nat
    BY <2>2, FS_CardinalityType
  <2>4. Cardinality(PassedBy(n, live)) <= Cardinality(old \cup {e.unit})
    BY <1>8, <2>2, FS_Subset
  <2>5. Cardinality(PassedBy(n, live)) \in Nat
    BY PassedCounts
  <2> QED
    BY <1>1, <1>2, <2>2, <2>3, <2>4, <2>5
<1>11. ~n.complete => n.cursor = n.last
  BY <1>2, <1>3
<1>12. Checkpointed(n, live, done)
  BY <1>4, <1>5, <1>6, <1>7, <1>9, <1>10, <1>11 DEF Checkpointed
<1> QED
  BY <1>2, <1>12 DEF n

(* The next unit of the source goes on the window. *)
LEMMA AppendSound ==
  ASSUME NEW live \in SUBSET Positions, NEW done, NEW w, NEW s, StateSound(s, live, done),
         NoneLast(w), WindowSound(w, s, 0, live, done),
         NEW e \in WindowEntries, e.unit \in live, e.status = "found",
         TailOf(w, s) < e.unit, \A u \in live : u <= TailOf(w, s) \/ e.unit <= u,
         e.next \in {0, e.unit}, e.next = 0 => \A u \in live : u <= e.unit
  PROVE  /\ WindowSound(Append(w, e), s, 0, live, done)
         /\ TailOf(Append(w, e), s) = e.unit
<1>1. w \in Seq(WindowEntries) /\ Len(w) \in Nat
  BY DEF WindowSound
<1>2. PICK n \in Seq(WindowEntries) : n = Append(w, e)
  BY <1>1, AppendProperties
<1>3. /\ Len(n) = Len(w) + 1 /\ n[Len(w) + 1] = e /\ n # << >>
      /\ \A i \in 1 .. Len(w) : n[i] = w[i]
  BY <1>1, <1>2, AppendProperties
<1>4. TailOf(n, s) = e.unit
  BY <1>3 DEF TailOf
<1>5. \A i \in 1 .. Len(n) : EntrySound(n[i], done)
  <2>1. EntrySound(e, done)
    BY DEF EntrySound, Fulfilled
  <2>2. \A i \in 1 .. Len(w) : EntrySound(n[i], done)
    BY <1>3 DEF WindowSound
  <2> QED
    BY <1>1, <1>3, <2>1, <2>2
<1>6. \A i \in 1 .. Len(n) : n[i].next = 0 =>
        i = Len(n) /\ \A u \in live : u <= n[i].unit
  <2>1. \A i \in 1 .. Len(w) : n[i].next # 0
    BY <1>3 DEF NoneLast
  <2> QED
    BY <1>1, <1>3, <2>1
<1>7. ASSUME NEW i \in 1 .. Len(n)
      PROVE  /\ Before(n, s, 0, i) < n[i].unit
             /\ \A u \in live : u <= Before(n, s, 0, i) \/ n[i].unit <= u
  <2>1. CASE i \in 1 .. Len(w)
    <3>1. n[i] = w[i] /\ (i = 0 + 1 \/ n[i - 1] = w[i - 1])
      BY <1>1, <1>3, <2>1
    <3>2. Before(n, s, 0, i) = Before(w, s, 0, i)
      BY <3>1 DEF Before
    <3> QED
      BY <1>1, <2>1, <3>1, <3>2 DEF WindowSound
  <2>2. CASE i = Len(w) + 1
    <3>1. n[i] = e /\ Before(n, s, 0, i) = TailOf(w, s)
      <4>1. CASE w = << >>
        BY <1>3, <2>2, <4>1 DEF Before, TailOf
      <4>2. CASE w # << >>
        <5>1. Len(w) \in 1 .. Len(w) /\ i # 1 /\ i - 1 = Len(w)
          BY <1>1, <2>2, <4>2
        <5> QED
          BY <1>3, <2>2, <4>2, <5>1 DEF Before, TailOf
      <4> QED
        BY <4>1, <4>2
    <3> QED
      BY <3>1
  <2> QED
    BY <1>1, <1>3, <2>1, <2>2
<1>8. \A i \in 0 + 1 .. Len(n) : i \in 1 .. Len(n)
  OBVIOUS
<1> QED
  BY <1>2, <1>4, <1>5, <1>6, <1>7, <1>8 DEF WindowSound

(* A unit of the window moves on; its place in the source stays. *)
LEMMA ReplaceSound ==
  ASSUME NEW live \in SUBSET Positions, NEW done, NEW w, NEW s,
         WindowSound(w, s, 0, live, done), NEW i \in 1 .. Len(w),
         NEW e \in WindowEntries, e.unit = w[i].unit, e.next = w[i].next,
         EntrySound(e, done)
  PROVE  /\ WindowSound([w EXCEPT ![i] = e], s, 0, live, done)
         /\ TailOf([w EXCEPT ![i] = e], s) = TailOf(w, s)
         /\ NoneLast(w) => NoneLast([w EXCEPT ![i] = e])
<1>1. w \in Seq(WindowEntries) /\ Len(w) \in Nat
  BY DEF WindowSound
<1>2. PICK n \in Seq(WindowEntries) : n = [w EXCEPT ![i] = e]
  BY <1>1, ExceptSeq
<1>3. /\ Len(n) = Len(w) /\ \A j \in 1 .. Len(w) : n[j] = IF j = i THEN e ELSE w[j]
      /\ n = << >> <=> w = << >>
  BY <1>1, <1>2, ExceptSeq
<1>4. \A j \in 1 .. Len(w) : n[j].unit = w[j].unit /\ n[j].next = w[j].next
  BY <1>3
<1>5. TailOf(n, s) = TailOf(w, s)
  BY <1>1, <1>3, <1>4 DEF TailOf
<1>6. \A j \in 1 .. Len(n) : EntrySound(n[j], done)
  BY <1>1, <1>3 DEF WindowSound
<1>7. \A j \in 1 .. Len(n) : Before(n, s, 0, j) = Before(w, s, 0, j)
  BY <1>1, <1>3, <1>4 DEF Before
<1>8. \A j \in 1 .. Len(n) : n[j].next = 0 =>
        j = Len(n) /\ \A u \in live : u <= n[j].unit
  BY <1>3, <1>4 DEF WindowSound
<1>9. \A j \in 0 + 1 .. Len(n) :
        /\ Before(n, s, 0, j) < n[j].unit
        /\ \A u \in live : u <= Before(n, s, 0, j) \/ n[j].unit <= u
  BY <1>1, <1>3, <1>4, <1>7 DEF WindowSound
<1>10. NoneLast(w) => NoneLast(n)
  BY <1>3, <1>4 DEF NoneLast
<1> QED
  BY <1>2, <1>5, <1>6, <1>8, <1>9, <1>10 DEF WindowSound

(* What commitPrefix keeps: the window up to the first failure, all of it  *)
(* where nothing failed.                                                   *)
LEMMA PrefixShape ==
  ASSUME NEW w \in Seq(WindowEntries)
  PROVE  \E n \in 0 .. Len(w) :
           /\ commitPrefix(w) \in Seq(WindowEntries) /\ Len(commitPrefix(w)) = n
           /\ \A i \in 1 .. n : commitPrefix(w)[i] = w[i] /\ Fulfilled(w[i])
           /\ (\A i \in 1 .. Len(w) : Fulfilled(w[i])) => n = Len(w)
<1> DEFINE failed == {i \in DOMAIN w : ~Fulfilled(w[i])}
<1>1. Len(w) \in Nat /\ DOMAIN w = 1 .. Len(w)
  OBVIOUS
<1>2. CASE failed = {}
  <2>1. commitPrefix(w) = w
    BY <1>2 DEF commitPrefix
  <2>2. \A i \in 1 .. Len(w) : Fulfilled(w[i])
    BY <1>1, <1>2
  <2>3. Len(w) \in 0 .. Len(w)
    BY <1>1
  <2> QED
    BY <2>1, <2>2, <2>3
<1>3. CASE failed # {}
  <2>1. failed \in SUBSET Nat
    BY <1>1
  <2>2. \E i \in failed : \A j \in failed : i <= j
    BY <1>3, <2>1, LeastMember
  <2>3. PICK first \in failed : /\ first = CHOOSE i \in failed : \A j \in failed : i <= j
                                /\ \A j \in failed : first <= j
    BY <2>2
  <2>4. commitPrefix(w) = SubSeq(w, 1, first - 1)
    BY <1>3, <2>3 DEF commitPrefix
  <2>5. first \in 1 .. Len(w) /\ ~Fulfilled(w[first])
    BY <1>1, <2>3
  <2>6. \A i \in 1 .. first - 1 : i \in 1 .. Len(w) /\ Fulfilled(w[i])
    BY <1>1, <2>3, <2>5
  <2>7. PICK n \in Nat : n = first - 1 /\ n \in 0 .. Len(w)
    BY <1>1, <2>5
  <2>8. /\ SubSeq(w, 1, n) \in Seq(WindowEntries) /\ Len(SubSeq(w, 1, n)) = n
        /\ \A i \in 1 .. n : SubSeq(w, 1, n)[i] = w[i]
    BY <1>1, <2>7
  <2> QED
    BY <2>4, <2>5, <2>6, <2>7, <2>8
<1> QED
  BY <1>2, <1>3

(* A prefix of the window goes on from the state as well. *)
LEMMA PrefixSound ==
  ASSUME NEW live \in SUBSET Positions, NEW done, NEW w, NEW s,
         WindowSound(w, s, 0, live, done), NEW p \in Seq(WindowEntries),
         Len(p) <= Len(w), \A i \in 1 .. Len(p) : p[i] = w[i]
  PROVE  WindowSound(p, s, 0, live, done)
<1>1. Len(w) \in Nat /\ Len(p) \in Nat /\ \A i \in 1 .. Len(p) : i \in 1 .. Len(w)
  BY DEF WindowSound
<1>2. \A i \in 1 .. Len(p) : Before(p, s, 0, i) = Before(w, s, 0, i)
  BY <1>1 DEF Before
<1>3. \A i \in 1 .. Len(p) : EntrySound(p[i], done)
  BY <1>1 DEF WindowSound
<1>4. \A i \in 1 .. Len(p) : p[i].next = 0 =>
        i = Len(p) /\ \A u \in live : u <= p[i].unit
  BY <1>1 DEF WindowSound
<1>5. \A i \in 0 + 1 .. Len(p) :
        /\ Before(p, s, 0, i) < p[i].unit
        /\ \A u \in live : u <= Before(p, s, 0, i) \/ p[i].unit <= u
  BY <1>1, <1>2 DEF WindowSound
<1> QED
  BY <1>3, <1>4, <1>5 DEF WindowSound

(* After a save the window goes on from the state just saved. *)
LEMMA SavedSound ==
  ASSUME NEW live \in SUBSET Positions, NEW done, NEW w, NEW s, NEW n,
         NEW k \in Nat, k < Len(w), WindowSound(w, s, k, live, done),
         LastOf(n) = w[k + 1].unit
  PROVE  WindowSound(w, n, k + 1, live, done)
<1>1. w \in Seq(WindowEntries) /\ Len(w) \in Nat
  BY DEF WindowSound
<1>2. \A i \in (k + 1) + 1 .. Len(w) :
        i \in k + 1 .. Len(w) /\ Before(w, n, k + 1, i) = Before(w, s, k, i)
  BY <1>1 DEF Before
<1>3. \A i \in (k + 1) + 1 .. Len(w) :
        /\ Before(w, n, k + 1, i) < w[i].unit
        /\ \A u \in live : u <= Before(w, n, k + 1, i) \/ w[i].unit <= u
  BY <1>2 DEF WindowSound
<1> QED
  BY <1>3 DEF WindowSound

(* One host moves on, may save a state, and may add receipts; the others   *)
(* keep what they know.                                                    *)
LEMMA HostMoves ==
  ASSUME MigrationInv, NEW h \in MigrationHosts, NEW st, SetHost(h, st), source' = source,
         settledUnits \subseteq settledUnits',
         settledUnits' \subseteq Positions \X Versions \X Outcomes,
         HostSoundIn(st, MaxUnits[h], Live, settledUnits'),
         StateSound(stateFile', Live, settledUnits')
  PROVE  MigrationInv'
<1>1. Live' = Live /\ Live \in SUBSET Positions
  BY DEF Live
<1>2. /\ migrating' = [x \in MigrationHosts |-> migrating'[x]]
      /\ migrating'[h] = st
      /\ \A x \in MigrationHosts : x # h => migrating'[x] = migrating[x]
  BY DEF MigrationInv, SetHost
<1>3. \A x \in MigrationHosts : x # h =>
        HostSoundIn(migrating[x], MaxUnits[x], Live, settledUnits')
  BY <1>1, HostKeeps DEF MigrationInv
<1>4. \A x \in MigrationHosts : HostSoundIn(migrating'[x], MaxUnits[x], Live, settledUnits')
  BY <1>2, <1>3
<1>5. source' \in [Positions -> Versions \cup {0}]
  BY DEF MigrationInv
<1> QED
  BY <1>1, <1>2, <1>4, <1>5 DEF MigrationInv

(* A host that is off, or has not loaded a state yet. *)
LEMMA OutsideSound ==
  ASSUME NEW live, NEW done, NEW bound, NEW phase \in {"seed", "lock", "load"}, NEW seen
  PROVE  /\ HostSoundIn(Off, bound, live, done)
         /\ HostSoundIn([Off EXCEPT !.phase = phase], bound, live, done)
         /\ HostSoundIn([Off EXCEPT !.phase = "seed", !.exists = seen], bound, live, done)
<1>1. HostSoundIn(Off, bound, live, done)
  BY DEF HostSoundIn, HostFields, Off, StateSound
<1>2. HostSoundIn([Off EXCEPT !.phase = phase], bound, live, done)
  <2>1. PICK st : st = [Off EXCEPT !.phase = phase]
    OBVIOUS
  <2>2. /\ st = [f \in HostFields |-> st[f]] /\ st.phase = phase /\ st.processed = 0
        /\ st.state = NoState /\ st.exhausted \in BOOLEAN /\ st.failed \in BOOLEAN
    BY <2>1 DEF Off, HostFields
  <2>3. HostSoundIn(st, bound, live, done)
    BY <2>2 DEF HostSoundIn, StateSound
  <2> QED
    BY <2>1, <2>3
<1>3. HostSoundIn([Off EXCEPT !.phase = "seed", !.exists = seen], bound, live, done)
  <2>1. PICK st : st = [Off EXCEPT !.phase = "seed", !.exists = seen]
    OBVIOUS
  <2>2. /\ st = [f \in HostFields |-> st[f]] /\ st.phase = "seed" /\ st.processed = 0
        /\ st.state = NoState /\ st.exhausted \in BOOLEAN /\ st.failed \in BOOLEAN
    BY <2>1 DEF Off, HostFields
  <2>3. HostSoundIn(st, bound, live, done)
    BY <2>2 DEF HostSoundIn, StateSound
  <2> QED
    BY <2>1, <2>3
<1> QED
  BY <1>1, <1>2, <1>3

(* A run, or its next window, starts at the state's last unit. *)
LEMMA AgainSound ==
  ASSUME NEW live \in SUBSET Positions, NEW done, NEW bound, NEW st,
         st = [f \in HostFields |-> st[f]], StateSound(st.state, live, done),
         st.state = NoState \/ ~st.state.complete, st.processed \in Nat, st.processed < bound
  PROVE  HostSoundIn(Again(st), bound, live, done)
<1>1. PICK n : n = Again(st)
  OBVIOUS
<1>2. /\ n = [f \in HostFields |-> n[f]] /\ n.phase = "discover" /\ n.state = st.state
      /\ n.cursor = CursorOf(st.state) /\ n.window = << >> /\ n.exhausted = FALSE
      /\ n.failed = FALSE /\ n.saved = 0 /\ n.processed = st.processed
  BY <1>1 DEF Again, HostFields
<1>3. CursorOf(st.state) = LastOf(st.state)
  BY DEF CursorOf, LastOf, StateSound, Checkpointed
<1>4. WindowSound(<< >>, st.state, 0, live, done)
  BY DEF WindowSound
<1>5. Discovering(n, bound, live)
  BY <1>2, <1>3 DEF Discovering, TailOf, NoneLast
<1> QED
  BY <1>1, <1>2, <1>4, <1>5 DEF HostSoundIn

(* One unit of the window moves on. *)
LEMMA EntryMoves ==
  ASSUME NEW live \in SUBSET Positions, NEW done, NEW more, done \subseteq more,
         NEW bound, NEW st, HostSoundIn(st, bound, live, done), st.phase = "discover",
         NEW i \in DOMAIN st.window, NEW e \in WindowEntries,
         e.unit = st.window[i].unit, e.next = st.window[i].next, EntrySound(e, more)
  PROVE  HostSoundIn([st EXCEPT !.window[i] = e], bound, live, more)
<1>1. HostSoundIn(st, bound, live, more)
  BY HostKeeps
<1>2. WindowSound(st.window, st.state, 0, live, more) /\ st.saved = 0
  BY <1>1 DEF HostSoundIn, Discovering
<1>3. i \in 1 .. Len(st.window)
  BY <1>2 DEF WindowSound
<1>4. PICK w : w = [st.window EXCEPT ![i] = e]
  OBVIOUS
<1>5. /\ WindowSound(w, st.state, 0, live, more)
      /\ TailOf(w, st.state) = TailOf(st.window, st.state)
      /\ NoneLast(st.window) => NoneLast(w)
  <2>1. PICK old, s : old = st.window /\ s = st.state
    OBVIOUS
  <2>2. WindowSound(old, s, 0, live, more) /\ i \in 1 .. Len(old) /\ e.unit = old[i].unit
        /\ e.next = old[i].next
    BY <1>2, <1>3, <2>1
  <2>3. /\ WindowSound([old EXCEPT ![i] = e], s, 0, live, more)
        /\ TailOf([old EXCEPT ![i] = e], s) = TailOf(old, s)
        /\ NoneLast(old) => NoneLast([old EXCEPT ![i] = e])
    BY <2>2, ReplaceSound
  <2>4. w = [old EXCEPT ![i] = e]
    BY <1>4, <2>1
  <2> QED
    BY <2>1, <2>3, <2>4
<1>6. PICK n : n = [st EXCEPT !.window[i] = e]
  OBVIOUS
<1>7. st = [f \in HostFields |-> st[f]]
  BY <1>1 DEF HostSoundIn
<1>8. /\ n = [f \in HostFields |-> n[f]] /\ n.phase = st.phase /\ n.state = st.state
      /\ n.cursor = st.cursor /\ n.window = w /\ n.exhausted = st.exhausted
      /\ n.failed = st.failed /\ n.saved = st.saved /\ n.processed = st.processed
  BY <1>4, <1>6, <1>7 DEF HostFields
<1>9. Discovering(n, bound, live)
  BY <1>1, <1>5, <1>8 DEF HostSoundIn, Discovering
<1> QED
  BY <1>1, <1>2, <1>5, <1>6, <1>8, <1>9 DEF HostSoundIn

(* Nothing is migrated yet. *)
LEMMA MigrationInvInit == MigrationInit => MigrationInv
<1> SUFFICES ASSUME MigrationInit PROVE MigrationInv
  OBVIOUS
<1>1. source \in [Positions -> Versions \cup {0}]
  BY MigrationAssumption DEF MigrationInit, Versions
<1>2. \A h \in MigrationHosts : HostSoundIn(migrating[h], MaxUnits[h], Live, settledUnits)
  BY OutsideSound DEF MigrationInit
<1> QED
  BY <1>1, <1>2 DEF MigrationInit, MigrationInv, StateSound

(* Up to the lock a host writes nothing but the seed. *)
LEMMA PilotStep ==
  ASSUME MigrationInv, NEW h \in MigrationHosts,
         Examine(h) \/ SaveSeed(h) \/ TryLock(h)
  PROVE  MigrationInv'
<1>1. /\ source' = source /\ settledUnits' = settledUnits
      /\ settledUnits \subseteq Positions \X Versions \X Outcomes
      /\ Live \in SUBSET Positions /\ StateSound(stateFile, Live, settledUnits)
  BY DEF Examine, SaveSeed, TryLock, Outside, MigrationInv, Live
<1>2. CASE Examine(h)
  <2>1. PICK st : /\ st = [Off EXCEPT !.phase = "seed", !.exists = stateFile # NoState]
                  /\ SetHost(h, st) /\ stateFile' = stateFile
    BY <1>2 DEF Examine
  <2>2. HostSoundIn(st, MaxUnits[h], Live, settledUnits')
    BY <2>1, OutsideSound
  <2> QED
    BY <1>1, <2>1, <2>2, HostMoves
<1>3. CASE SaveSeed(h)
  <2>1. PICK st : /\ st = [Off EXCEPT !.phase = "lock"] /\ SetHost(h, st)
                  /\ \/ stateFile' = stateFile
                     \/ Predecessor # NoState /\ stateFile' = Predecessor
    BY <1>3 DEF SaveSeed, Save
  <2>2. HostSoundIn(st, MaxUnits[h], Live, settledUnits')
    BY <2>1, OutsideSound
  <2>3. StateSound(stateFile', Live, settledUnits')
    BY <1>1, <2>1, SeedSound
  <2> QED
    BY <1>1, <2>1, <2>2, <2>3, HostMoves
<1>4. CASE TryLock(h)
  <2>1. PICK st : /\ st = Off \/ st = [Off EXCEPT !.phase = "load"]
                  /\ SetHost(h, st) /\ stateFile' = stateFile
    BY <1>4 DEF TryLock
  <2>2. /\ HostSoundIn(Off, MaxUnits[h], Live, settledUnits')
        /\ HostSoundIn([Off EXCEPT !.phase = "load"], MaxUnits[h], Live, settledUnits')
    BY OutsideSound
  <2> QED
    BY <1>1, <2>1, <2>2, HostMoves
<1> QED
  BY <1>2, <1>3, <1>4

(* Loading: a complete state ends the run, any other is gone on from. *)
LEMMA LoadStep ==
  ASSUME MigrationInv, NEW h \in MigrationHosts, Load(h)
  PROVE  MigrationInv'
<1>1. /\ source' = source /\ settledUnits' = settledUnits /\ stateFile' = stateFile
      /\ settledUnits \subseteq Positions \X Versions \X Outcomes
      /\ Live \in SUBSET Positions /\ StateSound(stateFile, Live, settledUnits)
  BY DEF Load, Outside, MigrationInv, Live
<1>2. CASE SetHost(h, Off)
  BY <1>1, <1>2, OutsideSound, HostMoves
<1>3. CASE ~(stateFile # NoState /\ stateFile.complete)
  <2>1. PICK st : st = [migrating[h] EXCEPT !.state = stateFile]
    OBVIOUS
  <2>2. SetHost(h, Again(st))
    BY <1>3, <2>1 DEF Load
  <2>3. PICK o : o = migrating[h] /\ o = [f \in HostFields |-> o[f]] /\ o.processed = 0
    BY DEF Load, MigrationInv, HostSoundIn
  <2>4. st = [f \in HostFields |-> st[f]] /\ st.state = stateFile /\ st.processed = 0
    BY <2>1, <2>3 DEF HostFields
  <2>5. st.processed \in Nat /\ st.processed < MaxUnits[h]
    BY <2>4, MigrationAssumption
  <2>6. HostSoundIn(Again(st), MaxUnits[h], Live, settledUnits)
    BY <1>1, <1>3, <2>4, <2>5, AgainSound
  <2> QED
    BY <1>1, <2>2, <2>6, HostMoves
<1> QED
  BY <1>2, <1>3 DEF Load, Stop

(* Discovering: the next page is the first unit after the window. *)
LEMMA DiscoverStep ==
  ASSUME MigrationInv, NEW h \in MigrationHosts, Discover(h)
  PROVE  MigrationInv'
<1>1. /\ source' = source /\ settledUnits' = settledUnits /\ stateFile' = stateFile
      /\ settledUnits \subseteq Positions \X Versions \X Outcomes
      /\ Live \in SUBSET Positions /\ StateSound(stateFile, Live, settledUnits)
  BY DEF Discover, Outside, MigrationInv, Live
<1>2. PICK st : /\ st = migrating[h] /\ st.phase = "discover" /\ st.exhausted = FALSE
                /\ HostSoundIn(st, MaxUnits[h], Live, settledUnits)
  BY DEF Discover, MigrationInv, HostSoundIn
<1>3. /\ st = [f \in HostFields |-> st[f]] /\ Discovering(st, MaxUnits[h], Live)
      /\ st.saved = 0 /\ st.cursor = TailOf(st.window, st.state) /\ NoneLast(st.window)
      /\ WindowSound(st.window, st.state, 0, Live, settledUnits)
      /\ StateSound(st.state, Live, settledUnits)
  BY <1>2 DEF HostSoundIn, Discovering
<1>4. PICK page : page = After(st.cursor)
  OBVIOUS
<1>5. page = {u \in Live : u > st.cursor}
  BY <1>4 DEF After, Live
<1>6. \A u \in Live : u \in Nat /\ u > 0
  BY MigrationAssumption DEF Live, Positions
<1>7. st.cursor \in Nat
  <2>1. LastOf(st.state) \in Nat
    BY <1>3, MigrationAssumption DEF LastOf, StateSound, Checkpointed, MigrationState
  <2>2. st.window # << >> => st.window[Len(st.window)].unit \in Nat
    <3>1. PICK w \in Seq(WindowEntries) : w = st.window
      BY <1>3 DEF WindowSound
    <3>2. w # << >> => w[Len(w)] \in WindowEntries
      OBVIOUS
    <3> QED
      BY <3>1, <3>2, MigrationAssumption DEF WindowEntries, Positions
  <2> QED
    BY <1>3, <2>1, <2>2 DEF TailOf
<1>8. CASE page = {}
  <2>1. PICK n : n = [st EXCEPT !.exhausted = TRUE]
    OBVIOUS
  <2>2. SetHost(h, n)
    BY <1>2, <1>4, <1>8, <2>1 DEF Discover
  <2>3. /\ n = [f \in HostFields |-> n[f]] /\ n.phase = "discover" /\ n.state = st.state
        /\ n.window = st.window /\ n.exhausted = TRUE
        /\ n.failed = st.failed /\ n.saved = 0 /\ n.processed = st.processed
    BY <1>2, <1>3, <2>1 DEF HostFields
  <2>4. \A u \in Live : u <= TailOf(st.window, st.state)
    BY <1>3, <1>5, <1>6, <1>7, <1>8
  <2>5. WindowSound(st.window, st.state, 0, Live, settledUnits)
    BY <1>3 DEF WindowSound
  <2>6. Discovering(n, MaxUnits[h], Live)
    BY <1>3, <2>3, <2>4 DEF Discovering
  <2>7. HostSoundIn(n, MaxUnits[h], Live, settledUnits)
    BY <1>2, <1>3, <2>3, <2>5, <2>6 DEF HostSoundIn
  <2> QED
    BY <1>1, <2>2, <2>7, HostMoves
<1>9. CASE page # {}
  <2>1. page \in SUBSET Nat
    BY <1>5, <1>6
  <2>2. PICK u \in page : /\ u = CHOOSE v \in page : \A w \in page : v <= w
                          /\ \A w \in page : u <= w
    BY <1>9, <2>1, LeastMember
  <2>3. PICK next : next = IF page = {u} THEN 0 ELSE u
    OBVIOUS
  <2>4. PICK e : e = [unit |-> u, next |-> next, status |-> "found", read |-> 0,
                      fingerprint |-> 0]
    OBVIOUS
  <2>6. PICK n : n = [st EXCEPT !.window = Append(@, e), !.cursor = next, !.exhausted = next = 0]
    OBVIOUS
  <2>7. SetHost(h, n)
    BY <1>2, <1>4, <1>9, <2>2, <2>3, <2>4, <2>6 DEF Discover
  <2>8. PICK w : w = Append(st.window, e)
    OBVIOUS
  <2>9. /\ n = [f \in HostFields |-> n[f]] /\ n.phase = "discover" /\ n.state = st.state
        /\ n.window = w /\ n.cursor = next /\ n.exhausted \in BOOLEAN
        /\ n.exhausted <=> next = 0
        /\ n.failed = st.failed /\ n.saved = 0 /\ n.processed = st.processed
    BY <1>2, <1>3, <2>6, <2>8 DEF HostFields
  <2>10. u \in Live /\ u \in Positions /\ u \in Nat /\ u > 0 /\ u > st.cursor
    BY <1>1, <1>5, <1>6
  <2>11. e \in WindowEntries /\ e.unit = u /\ e.next = next /\ e.status = "found"
    BY <2>3, <2>4, <2>10, MigrationAssumption DEF WindowEntries, UnitStates, Positions
  <2>12. \A v \in Live : v <= st.cursor \/ u <= v
    BY <1>5, <1>6, <1>7, <2>2
  <2>13. next \in {0, u} /\ (next = 0 => \A v \in Live : v <= u)
    BY <1>5, <1>6, <1>7, <2>3, <2>10
  <2>14. /\ WindowSound(w, st.state, 0, Live, settledUnits)
         /\ TailOf(w, st.state) = u /\ (next # 0 => NoneLast(w))
    <3>1. PICK old, s : old = st.window /\ s = st.state
      OBVIOUS
    <3>2. /\ StateSound(s, Live, settledUnits) /\ WindowSound(old, s, 0, Live, settledUnits)
          /\ NoneLast(old) /\ TailOf(old, s) = st.cursor
      BY <1>2, <1>3, <3>1
    <3>3. /\ TailOf(old, s) < e.unit /\ e.unit \in Live /\ e.next \in {0, e.unit}
          /\ \A v \in Live : v <= TailOf(old, s) \/ e.unit <= v
          /\ e.next = 0 => \A v \in Live : v <= e.unit
      BY <1>7, <2>10, <2>11, <2>12, <2>13, <3>2
    <3>4. /\ WindowSound(Append(old, e), s, 0, Live, settledUnits)
          /\ TailOf(Append(old, e), s) = e.unit
      BY <1>1, <2>11, <3>2, <3>3, AppendSound
    <3>5. next # 0 => NoneLast(Append(old, e))
      <4>1. old \in Seq(WindowEntries)
        BY <3>2 DEF WindowSound
      <4> QED
        BY <2>11, <3>2, <4>1, AppendProperties DEF NoneLast
    <3> QED
      BY <2>8, <2>11, <3>1, <3>4, <3>5
  <2>15. Discovering(n, MaxUnits[h], Live)
    BY <1>3, <2>9, <2>13, <2>14 DEF Discovering
  <2>16. HostSoundIn(n, MaxUnits[h], Live, settledUnits)
    BY <1>2, <1>3, <2>9, <2>14, <2>15 DEF HostSoundIn
  <2> QED
    BY <1>1, <2>7, <2>16, HostMoves
<1> QED
  BY <1>8, <1>9

(* Nothing was found, although there was room for it. *)
LEMMA NothingLeftStep ==
  ASSUME MigrationInv, NEW h \in MigrationHosts, NothingLeft(h)
  PROVE  MigrationInv'
<1>1. /\ source' = source /\ settledUnits' = settledUnits
      /\ settledUnits \subseteq Positions \X Versions \X Outcomes
      /\ Live \in SUBSET Positions /\ SetHost(h, Off)
  BY DEF NothingLeft, Stop, Outside, MigrationInv, Live
<1>2. PICK st : /\ st = migrating[h] /\ st.phase = "discover" /\ st.window = << >>
                /\ HostSoundIn(st, MaxUnits[h], Live, settledUnits)
                /\ st.exhausted \/ Len(st.window) = Capacity(h)
                /\ stateFile' = completedState(st.state)
  BY DEF NothingLeft, Discovered, Save, MigrationInv
<1>3. Capacity(h) # 0
  <2>1. PICK p \in Nat : p = migrating[h].processed /\ p < MaxUnits[h]
    BY <1>2 DEF HostSoundIn, Discovering
  <2> QED
    BY <2>1, MigrationAssumption DEF Capacity
<1>4. st.exhausted
  BY <1>2, <1>3
<1>5. \A u \in Live : u <= LastOf(st.state)
  BY <1>2, <1>4 DEF HostSoundIn, Discovering, TailOf
<1>6. StateSound(st.state, Live, settledUnits)
  BY <1>2 DEF HostSoundIn
<1>7. Checkpointed(completedState(st.state), Live, settledUnits)
  BY <1>1, <1>5, <1>6, CompletedSound
<1>8. StateSound(stateFile', Live, settledUnits)
  BY <1>2, <1>7 DEF StateSound
<1> QED
  BY <1>1, <1>8, OutsideSound, HostMoves

(* What an entry step finds. *)
LEMMA EntryFacts ==
  ASSUME MigrationInv, NEW h \in MigrationHosts, Discovered(h),
         NEW i \in DOMAIN migrating[h].window
  PROVE  /\ migrating[h].window[i] \in WindowEntries
         /\ EntrySound(migrating[h].window[i], settledUnits)
         /\ source[migrating[h].window[i].unit] \in Versions \cup {0}
<1>1. PICK w : w = migrating[h].window
  OBVIOUS
<1>2. w \in Seq(WindowEntries) /\ \A j \in 1 .. Len(w) : EntrySound(w[j], settledUnits)
  BY <1>1 DEF MigrationInv, HostSoundIn, WindowSound, Discovered
<1>3. w[i] \in WindowEntries /\ EntrySound(w[i], settledUnits)
  BY <1>1, <1>2
<1>4. w[i].unit \in Positions
  BY <1>3 DEF WindowEntries
<1> QED
  BY <1>1, <1>3, <1>4 DEF MigrationInv

(* A step of one unit: reading, verifying, ingesting, failing. *)
LEMMA UnitMoves ==
  ASSUME MigrationInv, NEW h \in MigrationHosts, Discovered(h),
         NEW i \in DOMAIN migrating[h].window, NEW e \in WindowEntries,
         e.unit = migrating[h].window[i].unit, e.next = migrating[h].window[i].next,
         EntrySound(e, settledUnits'), SetEntry(h, i, e),
         settledUnits \subseteq settledUnits',
         settledUnits' \subseteq Positions \X Versions \X Outcomes,
         UNCHANGED <<stateFile, source>>
  PROVE  MigrationInv'
<1>1. PICK st : /\ st = migrating[h] /\ st.phase = "discover"
                /\ HostSoundIn(st, MaxUnits[h], Live, settledUnits)
  BY DEF MigrationInv, Discovered
<1>2. Live \in SUBSET Positions /\ StateSound(stateFile, Live, settledUnits)
  BY DEF Live, MigrationInv
<1>3. PICK more : more = settledUnits'
  OBVIOUS
<1>4. HostSoundIn([st EXCEPT !.window[i] = e], MaxUnits[h], Live, more)
  BY <1>1, <1>2, <1>3, EntryMoves
<1>5. StateSound(stateFile, Live, more)
  BY <1>2, <1>3, StateKeeps
<1>6. SetHost(h, [st EXCEPT !.window[i] = e])
  BY <1>1 DEF SetEntry
<1> QED
  BY <1>3, <1>4, <1>5, <1>6, HostMoves

(* A unit is read, or is no longer there. *)
LEMMA ReadUnitStep ==
  ASSUME MigrationInv, NEW h \in MigrationHosts, NEW i \in DOMAIN migrating[h].window,
         ReadUnit(h, i)
  PROVE  MigrationInv'
<1>1. PICK e : e = migrating[h].window[i]
  OBVIOUS
<1>2. /\ e \in WindowEntries /\ EntrySound(e, settledUnits)
      /\ source[e.unit] \in Versions \cup {0} /\ Discovered(h)
  BY <1>1, EntryFacts DEF ReadUnit
<1>3. PICK v : v = source[e.unit]
  OBVIOUS
<1>4. PICK n, status : /\ status = IF v > 0 THEN "read" ELSE "failed"
                       /\ n = [e EXCEPT !.status = status, !.read = v]
  OBVIOUS
<1>5. /\ n \in WindowEntries /\ n.unit = e.unit /\ n.next = e.next /\ n.read = v
      /\ n.status = status
  BY <1>2, <1>3, <1>4 DEF WindowEntries, UnitStates
<1>6. EntrySound(n, settledUnits)
  BY <1>2, <1>3, <1>4, <1>5, MigrationAssumption DEF EntrySound, Fulfilled, Versions
<1>7. SetEntry(h, i, n) /\ UNCHANGED <<stateFile, source, settledUnits>>
  BY <1>1, <1>3, <1>4 DEF ReadUnit, Outside
<1>8. settledUnits \subseteq Positions \X Versions \X Outcomes
  BY DEF MigrationInv
<1> QED
  BY <1>1, <1>2, <1>5, <1>6, <1>7, <1>8, UnitMoves

(* The fingerprint a unit keeps is that of what was read. *)
LEMMA VerifyUnitStep ==
  ASSUME MigrationInv, NEW h \in MigrationHosts, NEW i \in DOMAIN migrating[h].window,
         VerifyUnit(h, i)
  PROVE  MigrationInv'
<1>1. PICK e : e = migrating[h].window[i]
  OBVIOUS
<1>2. /\ e \in WindowEntries /\ EntrySound(e, settledUnits) /\ e.status = "read"
      /\ source[e.unit] \in Versions \cup {0} /\ Discovered(h)
  BY <1>1, EntryFacts DEF VerifyUnit
<1>3. PICK v, status :
        /\ v = source[e.unit]
        /\ status = IF v # e.read THEN "failed"
                    ELSE IF migrationEligibility(e.unit, e.read) THEN "verified" ELSE "skipped"
  OBVIOUS
<1>4. PICK n : n = [e EXCEPT !.fingerprint = v, !.status = status]
  OBVIOUS
<1>5. /\ SetEntry(h, i, n) /\ UNCHANGED <<stateFile, source>>
      /\ IF v = e.read /\ ~migrationEligibility(e.unit, e.read)
         THEN settledUnits' = settledUnits \cup {<<e.unit, e.read, "skipped">>}
         ELSE settledUnits' = settledUnits
  BY <1>1, <1>3, <1>4 DEF VerifyUnit, Outside, sameFingerprint
<1>6. /\ n \in WindowEntries /\ n.unit = e.unit /\ n.next = e.next /\ n.read = e.read
      /\ n.fingerprint = v /\ n.status = status
  BY <1>2, <1>3, <1>4 DEF WindowEntries, UnitStates
<1>7. e.unit \in Positions /\ e.read \in Versions
  BY <1>2 DEF WindowEntries, EntrySound
<1>8. /\ settledUnits \subseteq settledUnits'
      /\ settledUnits' \subseteq Positions \X Versions \X Outcomes
  BY <1>5, <1>7 DEF MigrationInv, Outcomes
<1>9. EntrySound(n, settledUnits')
  <2>1. n.next \in {0, n.unit}
    BY <1>2, <1>6 DEF EntrySound
  <2>2. n.status # "failed" => n.fingerprint = n.read
    BY <1>3, <1>6
  <2>3. n.status = "skipped" => <<n.unit, n.read, "skipped">> \in settledUnits'
    BY <1>3, <1>5, <1>6
  <2>4. n.status \in {"failed", "verified", "skipped"}
    BY <1>3, <1>6
  <2> QED
    BY <1>6, <1>7, <2>1, <2>2, <2>3, <2>4 DEF EntrySound, Fulfilled, Outcomes
<1> QED
  BY <1>1, <1>2, <1>5, <1>6, <1>8, <1>9, UnitMoves

(* A unit's receipt is of the version that was read. *)
LEMMA IngestUnitStep ==
  ASSUME MigrationInv, NEW h \in MigrationHosts, NEW i \in DOMAIN migrating[h].window,
         IngestUnit(h, i)
  PROVE  MigrationInv'
<1>1. PICK e : e = migrating[h].window[i]
  OBVIOUS
<1>2. /\ e \in WindowEntries /\ EntrySound(e, settledUnits) /\ e.status = "verified"
      /\ Discovered(h)
  BY <1>1, EntryFacts DEF IngestUnit
<1>3. PICK n : n = [e EXCEPT !.status = "ingested"]
  OBVIOUS
<1>4. /\ SetEntry(h, i, n) /\ UNCHANGED <<stateFile, source>>
      /\ settledUnits' = settledUnits \cup {<<e.unit, e.read, "ingested">>}
  BY <1>1, <1>3 DEF IngestUnit, Outside
<1>5. /\ n \in WindowEntries /\ n.unit = e.unit /\ n.next = e.next /\ n.read = e.read
      /\ n.fingerprint = e.fingerprint /\ n.status = "ingested"
  BY <1>2, <1>3 DEF WindowEntries, UnitStates
<1>6. /\ e.unit \in Positions /\ e.read \in Versions /\ e.fingerprint = e.read
      /\ e.next \in {0, e.unit}
  BY <1>2 DEF WindowEntries, EntrySound
<1>7. /\ settledUnits \subseteq settledUnits'
      /\ settledUnits' \subseteq Positions \X Versions \X Outcomes
  BY <1>4, <1>6 DEF MigrationInv, Outcomes
<1>8. EntrySound(n, settledUnits')
  BY <1>4, <1>5, <1>6 DEF EntrySound, Fulfilled, Outcomes
<1> QED
  BY <1>1, <1>2, <1>4, <1>5, <1>7, <1>8, UnitMoves

(* A unit that fails keeps its place in the window. *)
LEMMA FailUnitStep ==
  ASSUME MigrationInv, NEW h \in MigrationHosts, NEW i \in DOMAIN migrating[h].window,
         FailUnit(h, i)
  PROVE  MigrationInv'
<1>1. PICK e : e = migrating[h].window[i]
  OBVIOUS
<1>2. e \in WindowEntries /\ EntrySound(e, settledUnits) /\ Discovered(h)
  BY <1>1, EntryFacts DEF FailUnit
<1>3. PICK n : n = [e EXCEPT !.status = "failed"]
  OBVIOUS
<1>4. SetEntry(h, i, n) /\ UNCHANGED <<stateFile, source, settledUnits>>
  BY <1>1, <1>3 DEF FailUnit, Outside
<1>5. n \in WindowEntries /\ n.unit = e.unit /\ n.next = e.next /\ n.status = "failed"
  BY <1>2, <1>3 DEF WindowEntries, UnitStates
<1>6. EntrySound(n, settledUnits)
  BY <1>2, <1>5 DEF EntrySound, Fulfilled
<1>7. settledUnits \subseteq Positions \X Versions \X Outcomes
  BY DEF MigrationInv
<1> QED
  BY <1>1, <1>2, <1>4, <1>5, <1>6, <1>7, UnitMoves

(* The window is settled: what is left of it is fulfilled. *)
LEMMA SettleWindowStep ==
  ASSUME MigrationInv, NEW h \in MigrationHosts, SettleWindow(h)
  PROVE  MigrationInv'
<1>1. /\ source' = source /\ settledUnits' = settledUnits /\ stateFile' = stateFile
      /\ settledUnits \subseteq Positions \X Versions \X Outcomes
      /\ Live \in SUBSET Positions /\ StateSound(stateFile, Live, settledUnits)
  BY DEF SettleWindow, Outside, MigrationInv, Live
<1>2. PICK st : /\ st = migrating[h] /\ st.phase = "discover" /\ st.window # << >>
                /\ HostSoundIn(st, MaxUnits[h], Live, settledUnits)
  BY DEF SettleWindow, Discovered, MigrationInv
<1>3. PICK w, s : /\ w = st.window /\ s = st.state /\ w # << >>
                  /\ WindowSound(w, s, 0, Live, settledUnits) /\ w \in Seq(WindowEntries)
  BY <1>2 DEF HostSoundIn, Discovering, WindowSound
<1>4. /\ st = [f \in HostFields |-> st[f]] /\ Discovering(st, MaxUnits[h], Live)
      /\ StateSound(s, Live, settledUnits) /\ st.processed \in Nat
      /\ st.exhausted \in BOOLEAN
  BY <1>2, <1>3 DEF HostSoundIn
<1>5. \A i \in 1 .. Len(w) : Fulfilled(w[i]) \/ w[i].status = "failed"
  BY <1>2, <1>3 DEF SettleWindow
<1>6. PICK p, len : /\ p = commitPrefix(w) /\ p \in Seq(WindowEntries)
                    /\ len \in 0 .. Len(w) /\ Len(p) = len
                    /\ \A i \in 1 .. len : p[i] = w[i] /\ Fulfilled(w[i])
                    /\ (\A i \in 1 .. Len(w) : Fulfilled(w[i])) => len = Len(w)
  BY <1>3, PrefixShape
<1>7. PICK failed \in BOOLEAN : failed = \E i \in DOMAIN w : w[i].status = "failed"
  OBVIOUS
<1>8. PICK n : n = [st EXCEPT !.phase = "save", !.window = p, !.saved = 0, !.failed = failed]
  OBVIOUS
<1>9. SetHost(h, n)
  BY <1>2, <1>3, <1>6, <1>7, <1>8 DEF SettleWindow
<1>10. /\ n = [f \in HostFields |-> n[f]] /\ n.phase = "save" /\ n.state = s
       /\ n.window = p /\ n.exhausted = st.exhausted
       /\ n.failed = failed /\ n.saved = 0 /\ n.processed = st.processed
  BY <1>3, <1>4, <1>8 DEF HostFields
<1>11. WindowSound(p, s, 0, Live, settledUnits)
  <2>1. Len(w) \in Nat /\ Len(p) \in Nat /\ Len(p) <= Len(w) /\ \A i \in 1 .. Len(p) : p[i] = w[i]
    BY ONLY <1>3, <1>6
  <2> QED
    BY ONLY <1>1, <1>3, <1>6, <2>1, PrefixSound
<1>12. ~n.failed => p = w
  <2> SUFFICES ASSUME ~n.failed PROVE p = w
    OBVIOUS
  <2>1. \A i \in 1 .. Len(w) : Fulfilled(w[i])
    <3>1. ~(\E i \in DOMAIN w : w[i].status = "failed")
      BY <1>7, <1>10, Zenon
    <3>2. DOMAIN w = 1 .. Len(w)
      BY <1>3
    <3> QED
      BY <1>5, <3>1, <3>2
  <2>2. Len(p) = Len(w) /\ \A i \in 1 .. Len(p) : p[i] = w[i]
    BY <1>6, <2>1
  <2> QED
    BY <1>3, <1>6, <2>2, SeqEqual
<1>13. NoneLast(w) => NoneLast(p)
  BY <1>3, <1>6 DEF NoneLast
<1>14. Saving(n, Live)
  <2>1. n.saved \in 0 .. Len(n.window) /\ \A i \in 1 .. Len(n.window) : Fulfilled(n.window[i])
    BY <1>6, <1>10
  <2>2. ~n.failed => n.window # << >>
    BY <1>3, <1>10, <1>12
  <2>3. n.exhausted /\ ~n.failed => \A u \in Live : u <= TailOf(n.window, n.state)
    BY <1>3, <1>4, <1>10, <1>12 DEF Discovering
  <2>4. ~n.exhausted => NoneLast(n.window)
    BY <1>3, <1>4, <1>10, <1>13 DEF Discovering
  <2>5. n.state = NoState \/ ~n.state.complete
    BY <1>3, <1>4, <1>10 DEF Discovering
  <2>6. ~(n.saved > 0)
    BY <1>10
  <2> QED
    BY <2>1, <2>2, <2>3, <2>4, <2>5, <2>6 DEF Saving
<1>15. HostSoundIn(n, MaxUnits[h], Live, settledUnits)
  BY <1>4, <1>10, <1>11, <1>14 DEF HostSoundIn
<1> QED
  BY <1>1, <1>9, <1>15, HostMoves

(* One save: the state advances over the first unit not yet saved. *)
LEMMA SaveUnitStep ==
  ASSUME MigrationInv, NEW h \in MigrationHosts, SaveUnit(h)
  PROVE  MigrationInv'
<1>1. /\ source' = source /\ settledUnits' = settledUnits
      /\ settledUnits \subseteq Positions \X Versions \X Outcomes
      /\ Live \in SUBSET Positions
  BY DEF SaveUnit, Outside, MigrationInv, Live
<1>2. PICK st : /\ st = migrating[h] /\ st.phase = "save" /\ st.saved < Len(st.window)
                /\ HostSoundIn(st, MaxUnits[h], Live, settledUnits)
  BY DEF SaveUnit, MigrationInv
<1>3. PICK w, s, k : /\ w = st.window /\ s = st.state /\ k = st.saved
  OBVIOUS
<1>4. /\ WindowSound(w, s, k, Live, settledUnits) /\ w \in Seq(WindowEntries)
      /\ Len(w) \in Nat /\ k \in Nat /\ k < Len(w) /\ StateSound(s, Live, settledUnits)
      /\ \A i \in 1 .. Len(w) : Fulfilled(w[i])
      /\ st.failed \in BOOLEAN /\ st.exhausted \in BOOLEAN /\ st.processed \in Nat
      /\ st = [f \in HostFields |-> st[f]] /\ Saving(st, Live)
  <2>1. /\ WindowSound(w, s, k, Live, settledUnits) /\ StateSound(s, Live, settledUnits)
        /\ st.failed \in BOOLEAN /\ st.exhausted \in BOOLEAN /\ st.processed \in Nat
        /\ st = [f \in HostFields |-> st[f]] /\ Saving(st, Live)
    BY <1>2, <1>3 DEF HostSoundIn
  <2>2. w \in Seq(WindowEntries) /\ Len(w) \in Nat
    BY <2>1 DEF WindowSound
  <2>3. k \in 0 .. Len(w) /\ \A i \in 1 .. Len(w) : Fulfilled(w[i])
    BY <1>3, <2>1, Zenon DEF Saving
  <2>4. k \in Nat /\ k < Len(w)
    BY <1>2, <1>3, <2>2, <2>3
  <2> QED
    BY <2>1, <2>2, <2>3, <2>4, Zenon
<1>5. PICK e : e = w[k + 1]
  OBVIOUS
<1>6. /\ e \in WindowEntries /\ EntrySound(e, settledUnits) /\ Fulfilled(e)
      /\ LastOf(s) < e.unit /\ \A u \in Live : u <= LastOf(s) \/ e.unit <= u
      /\ e.next = 0 => \A u \in Live : u <= e.unit
  <2>1. k + 1 \in 1 .. Len(w) /\ k + 1 \in k + 1 .. Len(w)
    BY <1>4
  <2>2. Before(w, s, k, k + 1) = LastOf(s)
    BY DEF Before
  <2> QED
    BY <1>4, <1>5, <2>1, <2>2 DEF WindowSound
<1>7. PICK new : new = advancedState(s, e)
  OBVIOUS
<1>8. /\ Checkpointed(new, Live, settledUnits) /\ new.last = e.unit
      /\ new.complete <=> e.next = 0
  BY <1>1, <1>4, <1>6, <1>7, AdvancedSound
<1>9. new # NoState
  BY <1>8, MigrationAssumption DEF Checkpointed
<1>10. PICK n : n = [st EXCEPT !.state = new, !.saved = @ + 1, !.processed = @ + 1]
  OBVIOUS
<1>11. SetHost(h, n) /\ stateFile' = new
  BY <1>2, <1>3, <1>5, <1>7, <1>10 DEF SaveUnit, Save
<1>12. /\ n = [f \in HostFields |-> n[f]] /\ n.phase = "save" /\ n.state = new
       /\ n.window = w /\ n.exhausted = st.exhausted /\ n.failed = st.failed
       /\ n.saved = k + 1 /\ n.processed = st.processed + 1
  BY <1>2, <1>3, <1>4, <1>10 DEF HostFields
<1>13. LastOf(new) = w[k + 1].unit
  BY <1>5, <1>8, <1>9 DEF LastOf
<1>14. WindowSound(w, new, k + 1, Live, settledUnits)
  BY <1>1, <1>4, <1>13, SavedSound
<1>15. Saving(n, Live)
  <2>1. n.saved \in 0 .. Len(n.window) /\ \A i \in 1 .. Len(n.window) : Fulfilled(n.window[i])
    BY <1>4, <1>12
  <2>2. ~n.failed => n.window # << >>
    BY <1>3, <1>4, <1>12 DEF Saving
  <2>3. TailOf(w, new) = TailOf(w, s)
    BY <1>4 DEF TailOf
  <2>4. n.exhausted /\ ~n.failed => \A u \in Live : u <= TailOf(n.window, n.state)
    BY <1>3, <1>4, <1>12, <2>3 DEF Saving
  <2>5. n.state # NoState /\ n.state.last = n.window[n.saved].unit
    BY <1>5, <1>8, <1>9, <1>12
  <2>6. ~n.exhausted => NoneLast(n.window) /\ ~n.state.complete
    <3>1. ~n.exhausted => NoneLast(w)
      BY <1>3, <1>4, <1>12 DEF Saving
    <3>2. NoneLast(w) => e.next # 0
      BY <1>4, <1>5 DEF NoneLast
    <3> QED
      BY <1>8, <1>12, <3>1, <3>2
  <2> QED
    BY <2>1, <2>2, <2>4, <2>5, <2>6 DEF Saving
<1>16. StateSound(new, Live, settledUnits)
  BY <1>8 DEF StateSound
<1>17. HostSoundIn(n, MaxUnits[h], Live, settledUnits)
  BY <1>4, <1>12, <1>14, <1>15, <1>16 DEF HostSoundIn
<1> QED
  BY <1>1, <1>11, <1>16, <1>17, HostMoves

(* The end of a window. *)
LEMMA EndWindowStep ==
  ASSUME MigrationInv, NEW h \in MigrationHosts, EndWindow(h)
  PROVE  MigrationInv'
<1>1. /\ source' = source /\ settledUnits' = settledUnits
      /\ settledUnits \subseteq Positions \X Versions \X Outcomes
      /\ Live \in SUBSET Positions /\ StateSound(stateFile, Live, settledUnits)
  BY DEF EndWindow, Outside, MigrationInv, Live
<1>2. PICK st : /\ st = migrating[h] /\ st.phase = "save" /\ st.saved = Len(st.window)
                /\ HostSoundIn(st, MaxUnits[h], Live, settledUnits)
  BY DEF EndWindow, MigrationInv
<1>3. /\ StateSound(st.state, Live, settledUnits) /\ Saving(st, Live)
      /\ st = [f \in HostFields |-> st[f]] /\ st.processed \in Nat
      /\ st.window \in Seq(WindowEntries)
  BY <1>2 DEF HostSoundIn, WindowSound
<1>4. CASE SetHost(h, Off) /\ stateFile' = stateFile
  BY <1>1, <1>4, OutsideSound, HostMoves
<1>5. CASE /\ ~st.failed /\ st.exhausted /\ SetHost(h, Off)
           /\ stateFile' = completedState(st.state)
  <2>1. st.window # << >> /\ \A u \in Live : u <= TailOf(st.window, st.state)
    BY <1>3, <1>5 DEF Saving
  <2>2. st.saved > 0 /\ TailOf(st.window, st.state) = st.window[st.saved].unit
    BY <1>2, <1>3, <2>1 DEF TailOf
  <2>3. TailOf(st.window, st.state) = LastOf(st.state)
    BY <1>3, <2>2 DEF Saving, LastOf
  <2>4. Checkpointed(completedState(st.state), Live, settledUnits)
    BY <1>1, <1>3, <2>1, <2>3, CompletedSound
  <2>5. StateSound(stateFile', Live, settledUnits)
    BY <1>5, <2>4 DEF StateSound
  <2> QED
    BY <1>1, <1>5, <2>5, OutsideSound, HostMoves
<1>6. CASE /\ ~st.exhausted /\ st.processed < MaxUnits[h]
           /\ SetHost(h, Again(st)) /\ stateFile' = stateFile
  <2>1. st.state = NoState \/ ~st.state.complete
    BY <1>3, <1>6 DEF Saving
  <2>2. HostSoundIn(Again(st), MaxUnits[h], Live, settledUnits)
    BY <1>1, <1>3, <1>6, <2>1, AgainSound
  <2> QED
    BY <1>1, <1>6, <2>2, HostMoves
<1> QED
  BY <1>2, <1>4, <1>5, <1>6 DEF EndWindow, Stop, Save

(* Sessions change and go, but none comes back. *)
LEMMA EditStep ==
  ASSUME MigrationInv, NEW u \in Positions, NEW v \in Versions \cup {0}, EditUnit(u, v)
  PROVE  MigrationInv'
<1>1. /\ source' \in [Positions -> Versions \cup {0}]
      /\ \A x \in Positions : x # u => source'[x] = source[x]
      /\ source[u] > 0
      /\ UNCHANGED <<stateFile, settledUnits, migrating>>
  BY DEF EditUnit, MigrationInv
<1>2. Live \in SUBSET Positions /\ Live' \in SUBSET Live
  BY <1>1 DEF Live
<1>3. StateSound(stateFile, Live', settledUnits)
  BY <1>2, StateKeeps DEF MigrationInv
<1>4. \A h \in MigrationHosts : HostSoundIn(migrating[h], MaxUnits[h], Live', settledUnits)
  BY <1>2, HostKeeps DEF MigrationInv
<1> QED
  BY <1>1, <1>3, <1>4 DEF MigrationInv

(* A step of any host, a death, a lost lock, an edit. *)
LEMMA MigrationInvStep ==
  ASSUME MigrationInv, [MigrationNext]_migrationVars
  PROVE  MigrationInv'
<1>1. ASSUME NEW h \in MigrationHosts, RunnerStep(h)
      PROVE  MigrationInv'
  BY <1>1, PilotStep, LoadStep, DiscoverStep, NothingLeftStep, SettleWindowStep, SaveUnitStep,
     EndWindowStep, ReadUnitStep, VerifyUnitStep, IngestUnitStep, FailUnitStep DEF RunnerStep
<1>2. ASSUME NEW h \in MigrationHosts, MigrationDies(h)
      PROVE  MigrationInv'
  <2>1. /\ SetHost(h, Off) /\ UNCHANGED <<source, settledUnits, stateFile>>
        /\ settledUnits \subseteq Positions \X Versions \X Outcomes
        /\ StateSound(stateFile, Live, settledUnits)
    BY <1>2 DEF MigrationDies, Stop, MigrationInv
  <2> QED
    BY <2>1, OutsideSound, HostMoves
<1>3. CASE LockDropped \/ UNCHANGED migrationVars
  <2>1. UNCHANGED <<source, settledUnits, stateFile, migrating>>
    BY <1>3 DEF LockDropped, migrationVars
  <2>2. Live' = Live
    BY <2>1 DEF Live
  <2> QED
    BY <2>1, <2>2 DEF MigrationInv
<1>4. ASSUME NEW u \in Positions, NEW v \in Versions \cup {0}, EditUnit(u, v)
      PROVE  MigrationInv'
  BY <1>4, EditStep
<1> QED
  BY <1>1, <1>2, <1>3, <1>4 DEF MigrationNext

(* What every host knows of its window and its state, whoever holds the    *)
(* lock and however many hosts write.                                      *)
THEOREM MigrationInvariance == MigrationSpec => []MigrationInv
BY MigrationInvInit, MigrationInvStep, PTL DEF MigrationSpec

(* The checkpoint of a migration never leaves a unit of the source behind, *)
(* counts each once, and keeps the fingerprint of what was ingested, for   *)
(* any number of hosts, units, edits and faults.  The lock is not needed   *)
(* for it.                                                                 *)
THEOREM CheckpointCoversAll == MigrationSpec => []CheckpointCovers
<1>1. MigrationInv => CheckpointCovers
  <2> SUFFICES ASSUME MigrationInv, stateFile # NoState PROVE CheckpointCovers
    BY DEF CheckpointCovers
  <2>1. Checkpointed(stateFile, Live, settledUnits)
    BY DEF MigrationInv, StateSound
  <2>2. Passed = PassedBy(stateFile, Live)
    BY DEF Passed, PassedBy, Live
  <2> QED
    BY <2>1, <2>2 DEF CheckpointCovers, Checkpointed, Outcomes
<1> QED
  BY <1>1, MigrationInvariance, PTL

-----------------------------------------------------------------------------
(* The fragments of a source and their chunks *)

(* The lesser of two numbers. *)
LEMMA LeastOfTwo ==
  ASSUME NEW a \in Int, NEW b \in Int
  PROVE  Min({a, b}) = IF a <= b THEN a ELSE b
<1> DEFINE m == IF a <= b THEN a ELSE b
<1>1. m \in {a, b} /\ \A y \in {a, b} : m <= y
  OBVIOUS
<1>2. \A x \in {a, b} : (\A y \in {a, b} : x <= y) => x = m
  OBVIOUS
<1> HIDE DEF m
<1> QED
  BY <1>1, <1>2 DEF Min

(* The greatest of finitely many numbers. *)
LEMMA GreatestMember ==
  ASSUME NEW n \in Nat, NEW S \in SUBSET (1 .. n), S # {}
  PROVE  Max(S) \in S /\ \A x \in S : x <= Max(S)
<1> DEFINE T == {k \in 0 .. n : \A x \in S : x <= k}
<1>1. T \in SUBSET Nat /\ n \in T
  OBVIOUS
<1>2. PICK k \in T : \A j \in T : k <= j
  <2> HIDE DEF T
  <2> QED
    BY <1>1, LeastMember
<1>3. k \in S
  <2> SUFFICES ASSUME k \notin S PROVE FALSE
    OBVIOUS
  <2>1. PICK y \in S : TRUE
    OBVIOUS
  <2>2. k \in Nat /\ k > 0 /\ \A x \in S : x <= k - 1
    BY <1>2, <2>1
  <2>3. k - 1 \in T
    BY <1>2, <2>2
  <2> QED
    BY <1>2, <2>2, <2>3
<1>4. \E x \in S : \A y \in S : x >= y
  BY <1>2, <1>3
<1>5. Max(S) \in S /\ \A y \in S : Max(S) >= y
  BY <1>4 DEF Max
<1> QED
  BY <1>5

(* What the fold of AddFragment goes through, one fragment at a time. *)
ChunkStep(s, f, S) ==
  IF S = {} THEN << >> ELSE AddFragment(f[S \ {Max(S)}], s[Max(S)])
Chunked(s, f) == f = [S \in SUBSET DOMAIN s |-> ChunkStep(s, f, S)]

(* The fold is the value of such a function at all of its places, *)
LEMMA ChunkedUnfolds ==
  ASSUME NEW s
  PROVE  FoldLeft(AddFragment, << >>, s) = (CHOOSE f : Chunked(s, f))[DOMAIN s]
BY DEF FoldLeft, MapThenFoldSet, Chunked, ChunkStep

(* there is one, *)
LEMMA ChunkedExists ==
  ASSUME NEW s, NEW n \in Nat, DOMAIN s = 1 .. n
  PROVE  \E f : Chunked(s, f)
<1> DEFINE D == SUBSET (1 .. n)
           Upto(f, m) == \A S \in D : S \subseteq 1 .. m => f[S] = ChunkStep(s, f, S)
           B == {m \in 0 .. n : \E f : f = [S \in D |-> f[S]] /\ Upto(f, m)}
<1>1. 0 \in B
  <2> DEFINE f == [S \in D |-> << >>]
  <2>1. Upto(f, 0)
    <3> SUFFICES ASSUME NEW S \in D, S \subseteq 1 .. 0 PROVE f[S] = ChunkStep(s, f, S)
      OBVIOUS
    <3>1. S = {}
      OBVIOUS
    <3> QED
      BY <3>1 DEF ChunkStep
  <2>2. f = [S \in D |-> f[S]] /\ 0 \in 0 .. n
    OBVIOUS
  <2> HIDE DEF f, Upto, D
  <2> QED
    BY <2>1, <2>2
<1>2. ASSUME NEW m \in 0 .. n - 1, m \in B PROVE m + 1 \in B
  <2>1. PICK f : f = [S \in D |-> f[S]] /\ Upto(f, m)
    BY <1>2
  <2> DEFINE g == [S \in D |-> ChunkStep(s, f, S)]
  <2>2. \A S \in D : S \subseteq 1 .. m => g[S] = f[S]
    BY <2>1
  <2>3. ASSUME NEW S \in D, S \subseteq 1 .. m + 1 PROVE g[S] = ChunkStep(s, g, S)
    <3>1. CASE S = {}
      BY <3>1 DEF ChunkStep
    <3>2. CASE S # {}
      <4>1. Max(S) \in S /\ \A x \in S : x <= Max(S)
        BY <3>2, GreatestMember
      <4>2. S \ {Max(S)} \in D /\ S \ {Max(S)} \subseteq 1 .. m
        <5>1. PICK top : top = Max(S)
          OBVIOUS
        <5>2. \A x \in S : x \in 1 .. m + 1 /\ x <= top /\ top \in 1 .. m + 1
          BY <2>3, <4>1, <5>1
        <5>3. \A x \in S \ {top} : x \in 1 .. m
          BY ONLY <5>2, m \in 0 .. n - 1, n \in Nat
        <5> QED
          BY <5>1, <5>3
      <4>3. g[S \ {Max(S)}] = f[S \ {Max(S)}]
        BY <2>2, <4>2
      <4>4. g[S] = ChunkStep(s, f, S)
        OBVIOUS
      <4> HIDE DEF g
      <4> QED
        BY <3>2, <4>3, <4>4 DEF ChunkStep
    <3> QED
      BY <3>1, <3>2
  <2>4. g = [S \in D |-> g[S]]
    OBVIOUS
  <2> HIDE DEF g
  <2>5. Upto(g, m + 1)
    BY <2>3
  <2>6. m + 1 \in 0 .. n
    OBVIOUS
  <2> HIDE DEF Upto, D
  <2> QED
    BY <2>4, <2>5, <2>6
<1>3. n \in B
  <2> HIDE DEF B
  <2>1. \A i \in 0 .. n : i \in B
    BY ONLY n \in Nat, <1>1, <1>2, CountingUp
  <2> QED
    BY <2>1
<1>4. PICK f : f = [S \in D |-> f[S]] /\ Upto(f, n)
  BY <1>3
<1>5. \A S \in D : f[S] = ChunkStep(s, f, S)
  BY <1>4
<1>6. f = [S \in D |-> ChunkStep(s, f, S)]
  BY <1>4, <1>5
<1> QED
  BY <1>6 DEF Chunked

(* and it goes from one fragment to the next. *)
LEMMA ChunkSteps ==
  ASSUME NEW s, NEW n \in Nat, DOMAIN s = 1 .. n
  PROVE  \E g : /\ g[0] = << >> /\ FoldLeft(AddFragment, << >>, s) = g[n]
                /\ \A k \in 0 .. n - 1 : g[k + 1] = AddFragment(g[k], s[k + 1])
<1> DEFINE f == CHOOSE f : Chunked(s, f)
           g == [k \in 0 .. n |-> f[1 .. k]]
<1>1. Chunked(s, f)
  BY ChunkedExists
<1>2. FoldLeft(AddFragment, << >>, s) = f[1 .. n]
  BY ChunkedUnfolds
<1> HIDE DEF f
<1>3. \A k \in 0 .. n : f[1 .. k] = ChunkStep(s, f, 1 .. k)
  BY <1>1 DEF Chunked
<1>4. f[1 .. 0] = << >>
  <2>1. 0 \in 0 .. n /\ 1 .. 0 = {}
    OBVIOUS
  <2> QED
    BY <1>3, <2>1 DEF ChunkStep
<1>5. ASSUME NEW k \in 0 .. n - 1 PROVE f[1 .. k + 1] = AddFragment(f[1 .. k], s[k + 1])
  <2>1. /\ 1 .. k + 1 \in SUBSET (1 .. n) /\ 1 .. k + 1 # {} /\ k + 1 \in 1 .. k + 1
        /\ k + 1 \in 0 .. n /\ (1 .. k + 1) \ {k + 1} = 1 .. k
    <3>1. k \in Nat /\ k + 1 <= n
      OBVIOUS
    <3>2. \A x : x \in 1 .. k + 1 => x \in 1 .. n
      BY ONLY <3>1, n \in Nat
    <3>3. \A x : x \in (1 .. k + 1) \ {k + 1} <=> x \in 1 .. k
      BY ONLY <3>1
    <3> QED
      BY <3>1, <3>2, <3>3
  <2>2. Max(1 .. k + 1) = k + 1
    <3>1. Max(1 .. k + 1) \in 1 .. k + 1 /\ \A x \in 1 .. k + 1 : x <= Max(1 .. k + 1)
      BY <2>1, GreatestMember
    <3> QED
      BY <2>1, <3>1
  <2> QED
    BY <1>3, <2>1, <2>2 DEF ChunkStep
<1>6. /\ g[0] = << >> /\ g[n] = f[1 .. n]
      /\ \A k \in 0 .. n - 1 : g[k + 1] = AddFragment(g[k], s[k + 1])
  BY <1>4, <1>5
<1> QED
  BY <1>2, <1>6

(* The length of a chunk of one fragment is that of the fragment. *)
LEMMA JoinedOne ==
  ASSUME NEW f, f.size \in Int
  PROVE  Joined(<<f>>) = f.size
<1> DEFINE Step(g, S) == IF S = {} THEN -2 ELSE g[S \ {Max(S)}] + <<f>>[Max(S)].size + 2
           Is(g) == g = [S \in SUBSET DOMAIN <<f>> |-> Step(g, S)]
           h == CHOOSE g : Is(g)
           w == [S \in SUBSET {1} |-> IF S = {} THEN -2 ELSE f.size]
<1>1. Joined(<<f>>) = h[DOMAIN <<f>>]
  BY DEF Joined, FoldLeft, MapThenFoldSet
<1>2. DOMAIN <<f>> = {1} /\ <<f>>[1] = f
  OBVIOUS
<1>3. Max({1}) = 1
  BY DEF Max
<1>4. Is(w)
  <2>1. \A S \in SUBSET {1} : S = {} \/ S = {1}
    OBVIOUS
  <2>2. w[{}] = -2 /\ w[{1}] = f.size /\ {1} \ {1} = {} /\ {} \in SUBSET {1}
    OBVIOUS
  <2>3. w = [S \in SUBSET {1} |-> w[S]]
    OBVIOUS
  <2> HIDE DEF w
  <2>4. Step(w, {}) = w[{}] /\ Step(w, {1}) = w[{1}]
    BY <1>2, <1>3, <2>2
  <2> HIDE DEF Step
  <2>5. \A S \in SUBSET {1} : w[S] = Step(w, S)
    BY <2>1, <2>4
  <2> QED
    BY <1>2, <2>3, <2>5
<1> HIDE DEF w
<1>5. Is(h)
  BY <1>4
<1> HIDE DEF h
<1>6. h[{1}] = Step(h, {1}) /\ h[{}] = -2
  BY <1>2, <1>5
<1> QED
  BY <1>1, <1>2, <1>3, <1>6

-----------------------------------------------------------------------------
(* Sequences flattened. *)
LEMMA AppendIsJoined ==
  ASSUME NEW s, Sequence(s), NEW x
  PROVE  Append(s, x) = s \o <<x>>
<1> DEFINE S == ToSet(s) \cup {x}
<1>1. s \in Seq(S) /\ x \in S
  BY SeqMonotonic DEF Sequence
<1> HIDE DEF S
<1> QED
  BY <1>1

(* Joining is associative. *)
LEMMA JoinedTwice ==
  ASSUME NEW s, NEW t, NEW u, Sequence(s), Sequence(t), Sequence(u)
  PROVE  (s \o t) \o u = s \o (t \o u)
<1> DEFINE S == ToSet(s) \cup ToSet(t) \cup ToSet(u)
<1>1. s \in Seq(S) /\ t \in Seq(S) /\ u \in Seq(S)
  BY SeqMonotonic DEF Sequence
<1> HIDE DEF S
<1> QED
  BY <1>1, ConcatAssociative

(* Joining nothing changes nothing. *)
LEMMA JoinedNone ==
  ASSUME NEW s, Sequence(s)
  PROVE  Sequence(<< >>) /\ << >> \o s = s /\ s \o << >> = s
<1>1. << >> \in Seq({})
  OBVIOUS
<1>2. Sequence(<< >>)
  BY <1>1, SequenceOf
<1> QED
  BY <1>2 DEF Sequence

(* One sequence more, and it is put behind the rest. *)
LEMMA FlattenOneMore ==
  ASSUME NEW n \in Nat, NEW c, NEW d, Len(c) = n, Len(d) = n + 1,
         \A i \in 1 .. n : d[i] = c[i]
  PROVE  FlattenSeq(d) = IF n = 0 THEN d[1] ELSE FlattenSeq(c) \o d[n + 1]
<1>1. PICK g : /\ FlattenSeq(d) = g[n + 1] /\ g[1] = d[1]
               /\ \A i \in 1 .. n : g[i + 1] = g[i] \o d[i + 1]
  <2>1. Len(d) \in Nat /\ Len(d) # 0 /\ Len(d) - 1 = n
    OBVIOUS
  <2>2. \E g : /\ FlattenSeq(d) = g[Len(d)] /\ g[1] = d[1]
               /\ \A i \in 1 .. Len(d) - 1 : g[i + 1] = g[i] \o d[i + 1]
    BY ONLY <2>1, FlattenSteps
  <2> QED
    BY <2>1, <2>2
<1>2. CASE n = 0
  BY <1>1, <1>2
<1>3. CASE n # 0
  <2>1. PICK f : /\ FlattenSeq(c) = f[n] /\ f[1] = c[1]
                 /\ \A i \in 1 .. n - 1 : f[i + 1] = f[i] \o c[i + 1]
    <3>1. Len(c) \in Nat /\ Len(c) # 0 /\ Len(c) = n
      BY <1>3
    <3>2. \E f : /\ FlattenSeq(c) = f[Len(c)] /\ f[1] = c[1]
                 /\ \A i \in 1 .. Len(c) - 1 : f[i + 1] = f[i] \o c[i + 1]
      BY ONLY <3>1, FlattenSteps
    <3> QED
      BY ONLY <3>1, <3>2
  <2> DEFINE B == {i \in 1 .. n : g[i] = f[i]}
  <2>2. 1 \in B
    BY <1>1, <1>3, <2>1
  <2>3. ASSUME NEW i \in 1 .. n - 1, i \in B PROVE i + 1 \in B
    <3>1. i \in 1 .. n /\ i + 1 \in 1 .. n
      OBVIOUS
    <3> QED
      BY <1>1, <2>1, <2>3, <3>1
  <2>4. n \in B
    <3> HIDE DEF B
    <3>1. \A i \in 1 .. n : i \in B
      BY ONLY n \in Nat, 1 \in Nat, <2>2, <2>3, CountingUp
    <3> QED
      BY <1>3, <3>1
  <2>5. g[n + 1] = g[n] \o d[n + 1]
    <3>1. n \in 1 .. n
      BY <1>3
    <3> QED
      BY ONLY <1>1, <3>1
  <2> QED
    BY <1>1, <1>3, <2>1, <2>4, <2>5
<1> QED
  BY <1>2, <1>3

(* Sequences of sequences. *)
Nested(c) == Sequence(c) /\ \A i \in 1 .. Len(c) : Sequence(c[i])

(* Nothing flattened, *)
LEMMA FlattenNone == FlattenSeq(<< >>) = << >>
BY DEF FlattenSeq

(* one sequence more at the end, *)
LEMMA FlattenAppended ==
  ASSUME NEW c, Sequence(c), NEW x, Sequence(x)
  PROVE  FlattenSeq(c \o <<x>>) = FlattenSeq(c) \o x
<1>1. Len(c) \in Nat /\ Sequence(<<x>>) /\ Len(<<x>>) = 1 /\ <<x>>[1] = x
  BY SequenceShape, OnePlace
<1>2. /\ Len(c \o <<x>>) = Len(c) + 1 /\ (c \o <<x>>)[Len(c) + 1] = x
      /\ \A i \in 1 .. Len(c) : (c \o <<x>>)[i] = c[i]
  <2>1. /\ Len(c \o <<x>>) = Len(c) + Len(<<x>>)
        /\ \A i \in 1 .. Len(c) : (c \o <<x>>)[i] = c[i]
        /\ \A i \in 1 .. Len(<<x>>) : (c \o <<x>>)[Len(c) + i] = <<x>>[i]
    BY ONLY <1>1, Sequence(c), JoinedShape
  <2> QED
    BY ONLY <1>1, <2>1
<1>3. FlattenSeq(c \o <<x>>) = IF Len(c) = 0 THEN x ELSE FlattenSeq(c) \o x
  <2>1. FlattenSeq(c \o <<x>>) = IF Len(c) = 0 THEN (c \o <<x>>)[1]
                                ELSE FlattenSeq(c) \o (c \o <<x>>)[Len(c) + 1]
    BY ONLY <1>1, <1>2, FlattenOneMore
  <2> QED
    BY ONLY <1>1, <1>2, <2>1
<1>4. CASE Len(c) = 0
  <2>1. c = << >>
    <3>1. << >> \in Seq({}) /\ Len(<< >>) = 0
      OBVIOUS
    <3>2. Sequence(<< >>)
      BY <3>1, SequenceOf
    <3>3. \A i \in 1 .. Len(c) : c[i] = << >>[i]
      BY ONLY <1>4
    <3> QED
      BY ONLY <1>4, <3>1, <3>2, <3>3, Sequence(c), SamePlaces
  <2> QED
    BY <1>3, <1>4, <2>1, FlattenNone, JoinedNone
<1>5. CASE Len(c) # 0
  BY <1>3, <1>5
<1> QED
  BY <1>4, <1>5

(* and what comes of it is a sequence. *)
LEMMA FlattenIsSequence ==
  ASSUME NEW c, Nested(c)
  PROVE  Sequence(FlattenSeq(c))
<1>1. Len(c) \in Nat
  BY SequenceShape DEF Nested
<1>2. CASE Len(c) = 0
  BY <1>2 DEF FlattenSeq, Nested
<1>3. CASE Len(c) # 0
  <2>1. PICK f : /\ FlattenSeq(c) = f[Len(c)] /\ f[1] = c[1]
                 /\ \A i \in 1 .. Len(c) - 1 : f[i + 1] = f[i] \o c[i + 1]
    BY <1>1, <1>3, FlattenSteps
  <2> DEFINE B == {i \in 1 .. Len(c) : Sequence(f[i])}
  <2>2. 1 \in B
    BY <1>1, <1>3, <2>1 DEF Nested
  <2>3. ASSUME NEW i \in 1 .. Len(c) - 1, i \in B PROVE i + 1 \in B
    <3>1. i + 1 \in 1 .. Len(c)
      BY <1>1
    <3>2. Sequence(f[i]) /\ Sequence(c[i + 1])
      BY <2>3, <3>1 DEF Nested
    <3>3. f[i + 1] = f[i] \o c[i + 1]
      BY <2>1
    <3>4. Sequence(f[i] \o c[i + 1])
      BY ONLY <3>2, JoinedShape
    <3> QED
      BY <3>1, <3>3, <3>4
  <2>4. Len(c) \in B
    <3> HIDE DEF B
    <3>1. 1 \in Nat
      OBVIOUS
    <3>2. \A i \in 1 .. Len(c) : i \in B
      BY ONLY <1>1, <3>1, <2>2, <2>3, CountingUp
    <3> QED
      BY <1>1, <1>3, <3>2
  <2> QED
    BY <2>1, <2>4
<1> QED
  BY <1>2, <1>3

(* A sequence but for its last. *)
LEMMA FrontAndLast ==
  ASSUME NEW s, Sequence(s), s # << >>
  PROVE  /\ s = Front(s) \o <<Last(s)>> /\ Sequence(Front(s)) /\ Len(s) \in Nat \ {0}
         /\ Len(Front(s)) = Len(s) - 1 /\ Last(s) = s[Len(s)]
         /\ \A i \in 1 .. Len(s) - 1 : Front(s)[i] = s[i]
<1>1. s \in Seq(ToSet(s)) /\ Len(s) \in Nat \ {0}
  BY DEF Sequence
<1>2. /\ Sequence(Front(s)) /\ Len(Front(s)) = Len(s) - 1
      /\ \A i \in 1 .. Len(s) - 1 : Front(s)[i] = s[i]
  <2>1. 1 \in 1 .. Len(s) + 1 /\ Len(s) - 1 \in 1 - 1 .. Len(s)
    BY <1>1
  <2>2. /\ Sequence(SubSeq(s, 1, Len(s) - 1)) /\ Len(SubSeq(s, 1, Len(s) - 1)) = (Len(s) - 1) - 1 + 1
        /\ \A k \in 1 .. (Len(s) - 1) - 1 + 1 : SubSeq(s, 1, Len(s) - 1)[k] = s[1 + k - 1]
    BY ONLY <2>1, Sequence(s), PartShape
  <2> QED
    BY <1>1, <2>2 DEF Front
<1>3. s = Front(s) \o <<Last(s)>>
  BY <1>1 DEF Front, Last
<1> QED
  BY <1>1, <1>2, <1>3 DEF Last

-----------------------------------------------------------------------------
(* The chunks: what they hold of the fragments, and that they are bounded. *)
ChunksHold(c, slices) ==
  /\ Nested(c) /\ FlattenSeq(c) = slices
  /\ \A i \in 1 .. Len(c) :
       /\ c[i] # << >> /\ Joined(c[i]) <= Chunking.maxChars
       /\ Len(c[i]) <= Chunking.maxSegments

(* A fragment more keeps the chunks in bounds and in order. *)
LEMMA AddFragmentHolds ==
  ASSUME Chunking # Unchunked, NEW c, NEW slices, Sequence(slices), ChunksHold(c, slices),
         NEW f, f.size \in Int, f.size <= Chunking.maxChars
  PROVE  ChunksHold(AddFragment(c, f), slices \o <<f>>)
<1> DEFINE d == AddFragment(c, f)
           front == Front(c)
           longer == Last(c) \o <<f>>
<1>1. /\ Sequence(c) /\ \A i \in 1 .. Len(c) : Sequence(c[i])
      /\ Len(c) \in Nat /\ Sequence(<<f>>) /\ Len(<<f>>) = 1 /\ FlattenSeq(c) = slices
      /\ \A i \in 1 .. Len(c) : /\ c[i] # << >> /\ Joined(c[i]) <= Chunking.maxChars
                               /\ Len(c[i]) <= Chunking.maxSegments
      /\ Chunking.maxSegments \in Nat \ {0} /\ Chunking.maxChars \in Nat
  BY SequenceShape, OnePlace, ExtractionAssumption DEF ChunksHold, Nested
<1>2. CASE c # << >> /\ Joined(Append(Last(c), f)) <= Chunking.maxChars
                     /\ Len(Last(c)) < Chunking.maxSegments
  <2>1. /\ c = front \o <<Last(c)>> /\ Sequence(front) /\ Len(c) \in Nat \ {0}
        /\ Len(front) = Len(c) - 1 /\ Last(c) = c[Len(c)]
        /\ \A i \in 1 .. Len(c) - 1 : front[i] = c[i]
    BY ONLY <1>1, <1>2, FrontAndLast
  <2>2. /\ Len(c) \in 1 .. Len(c) /\ \A i \in 1 .. Len(front) : i \in 1 .. Len(c) /\ front[i] = c[i]
    BY ONLY <2>1
  <2>3. Sequence(Last(c)) /\ Len(Last(c)) \in Nat
    BY ONLY <1>1, <2>1, <2>2, SequenceShape
  <2>4. Append(Last(c), f) = longer
    BY ONLY <2>3, AppendIsJoined
  <2>5. Sequence(longer) /\ Len(longer) = Len(Last(c)) + 1
    BY ONLY <1>1, <2>3, JoinedShape
  <2>6. d = front \o <<longer>>
    <3>1. d = Append(front, longer)
      BY <1>2, <2>4 DEF AddFragment
    <3> HIDE DEF d, front, longer
    <3> QED
      BY <2>1, <3>1, AppendIsJoined
  <2> HIDE DEF d, front, longer
  <2>7. /\ Sequence(d) /\ Len(d) = Len(c) /\ d[Len(c)] = longer
        /\ \A i \in 1 .. Len(c) - 1 : d[i] = c[i]
    <3>1. Sequence(<<longer>>) /\ Len(<<longer>>) = 1 /\ <<longer>>[1] = longer
      BY OnePlace
    <3>2. /\ Sequence(d) /\ Len(d) = Len(front) + Len(<<longer>>)
          /\ \A i \in 1 .. Len(front) : d[i] = front[i]
          /\ \A i \in 1 .. Len(<<longer>>) : d[Len(front) + i] = <<longer>>[i]
      BY ONLY <2>1, <2>6, <3>1, JoinedShape
    <3>3. (Len(c) - 1) + 1 = Len(c) /\ 1 \in 1 .. 1
      BY ONLY <1>1
    <3> QED
      BY ONLY <2>1, <2>2, <3>1, <3>2, <3>3
  <2>8. FlattenSeq(d) = slices \o <<f>>
    <3>1. Nested(front)
      BY ONLY <1>1, <2>1, <2>2 DEF Nested
    <3>2. FlattenSeq(d) = FlattenSeq(front) \o longer
      BY ONLY <2>1, <2>5, <2>6, FlattenAppended
    <3>3. FlattenSeq(c) = FlattenSeq(front) \o Last(c)
      BY ONLY <2>1, <2>3, FlattenAppended
    <3>4. Sequence(FlattenSeq(front))
      BY ONLY <3>1, FlattenIsSequence
    <3>5. (FlattenSeq(front) \o Last(c)) \o <<f>> = FlattenSeq(front) \o (Last(c) \o <<f>>)
      <4>1. PICK x, y, z : x = FlattenSeq(front) /\ y = Last(c) /\ z = <<f>>
        OBVIOUS
      <4>2. Sequence(x) /\ Sequence(y) /\ Sequence(z)
        BY ONLY <1>1, <2>3, <3>4, <4>1
      <4>3. (x \o y) \o z = x \o (y \o z)
        BY ONLY <4>2, JoinedTwice
      <4> QED
        BY ONLY <4>1, <4>3
    <3> QED
      BY <1>1, <3>2, <3>3, <3>5 DEF longer
  <2>9. /\ longer # << >> /\ Joined(longer) <= Chunking.maxChars
        /\ Len(longer) <= Chunking.maxSegments
    <3>1. longer # << >>
      BY <2>3, <2>5
    <3> QED
      BY <1>1, <1>2, <2>3, <2>4, <2>5, <3>1
  <2>10. ASSUME NEW i \in 1 .. Len(d)
         PROVE  /\ Sequence(d[i]) /\ d[i] # << >> /\ Joined(d[i]) <= Chunking.maxChars
                /\ Len(d[i]) <= Chunking.maxSegments
    <3>1. CASE i = Len(c)
      BY ONLY <2>5, <2>7, <2>9, <3>1
    <3>2. CASE i # Len(c)
      <4>1. i \in 1 .. Len(c) /\ i \in 1 .. Len(c) - 1
        BY <1>1, <2>7, <3>2
      <4> QED
        BY ONLY <1>1, <2>7, <4>1
    <3> QED
      BY <3>1, <3>2
  <2> QED
    BY <2>7, <2>8, <2>10 DEF ChunksHold, Nested, d
<1>3. CASE ~(c # << >> /\ Joined(Append(Last(c), f)) <= Chunking.maxChars
                       /\ Len(Last(c)) < Chunking.maxSegments)
  <2>1. d = c \o <<<<f>>>>
    <3>1. d = Append(c, <<f>>)
      BY <1>3 DEF AddFragment
    <3> HIDE DEF d
    <3> QED
      BY <1>1, <3>1, AppendIsJoined
  <2> HIDE DEF d
  <2>2. /\ Sequence(d) /\ Len(d) = Len(c) + 1 /\ d[Len(c) + 1] = <<f>>
        /\ \A i \in 1 .. Len(c) : d[i] = c[i]
    <3>1. Sequence(<<<<f>>>>) /\ Len(<<<<f>>>>) = 1 /\ <<<<f>>>>[1] = <<f>> /\ 1 \in 1 .. 1
      BY OnePlace
    <3>2. /\ Sequence(d) /\ Len(d) = Len(c) + Len(<<<<f>>>>)
          /\ \A i \in 1 .. Len(c) : d[i] = c[i]
          /\ \A i \in 1 .. Len(<<<<f>>>>) : d[Len(c) + i] = <<<<f>>>>[i]
      BY ONLY <1>1, <2>1, <3>1, JoinedShape
    <3> QED
      BY ONLY <3>1, <3>2
  <2>3. FlattenSeq(d) = slices \o <<f>>
    BY <1>1, <2>1, FlattenAppended
  <2>4. /\ <<f>> # << >> /\ Joined(<<f>>) <= Chunking.maxChars
        /\ Len(<<f>>) <= Chunking.maxSegments
    BY <1>1, JoinedOne
  <2>5. ASSUME NEW i \in 1 .. Len(d)
        PROVE  /\ Sequence(d[i]) /\ d[i] # << >> /\ Joined(d[i]) <= Chunking.maxChars
               /\ Len(d[i]) <= Chunking.maxSegments
    <3>1. CASE i = Len(c) + 1
      BY ONLY <1>1, <2>2, <2>4, <3>1
    <3>2. CASE i # Len(c) + 1
      <4>1. i \in 1 .. Len(c)
        BY <1>1, <2>2, <3>2
      <4> QED
        BY ONLY <1>1, <2>2, <4>1
    <3> QED
      BY <3>1, <3>2
  <2> QED
    BY <2>2, <2>3, <2>5 DEF ChunksHold, Nested, d
<1> QED
  BY <1>2, <1>3

(* All the fragments are in the chunks, in their order. *)
LEMMA ChunksOfFragments ==
  ASSUME Chunking # Unchunked, NEW s, Sequence(s),
         \A i \in 1 .. Len(s) : s[i].size \in Int /\ s[i].size <= Chunking.maxChars
  PROVE  ChunksHold(FoldLeft(AddFragment, << >>, s), s)
<1> DEFINE n == Len(s)
<1>1. n \in Nat /\ DOMAIN s = 1 .. n
  BY SequenceShape
<1>2. PICK g : /\ g[0] = << >> /\ FoldLeft(AddFragment, << >>, s) = g[n]
               /\ \A k \in 0 .. n - 1 : g[k + 1] = AddFragment(g[k], s[k + 1])
  BY <1>1, ChunkSteps
<1> DEFINE A == {k \in 0 .. n : ChunksHold(g[k], SubSeq(s, 1, k))}
<1>3. 0 \in A
  <2>1. SubSeq(s, 1, 0) = << >> /\ Nested(<< >>) /\ Len(<< >>) = 0
    <3>1. SubSeq(s, 1, 0) = << >>
      BY SubSeqEmpty
    <3>2. << >> \in Seq({})
      OBVIOUS
    <3>3. Sequence(<< >>)
      BY <3>2, SequenceOf
    <3> QED
      BY <3>1, <3>3 DEF Nested
  <2>2. ChunksHold(<< >>, << >>)
    BY <2>1, FlattenNone DEF ChunksHold
  <2>3. ChunksHold(g[0], SubSeq(s, 1, 0))
    <3>1. g[0] = << >> /\ SubSeq(s, 1, 0) = << >>
      BY ONLY <1>2, <2>1
    <3> QED
      BY ONLY <2>2, <3>1, Zenon
  <2>4. 0 \in 0 .. n
    BY <1>1
  <2> HIDE DEF n
  <2> QED
    BY <2>3, <2>4
<1>4. ASSUME NEW k \in 0 .. n - 1, k \in A PROVE k + 1 \in A
  <2>1. /\ k + 1 \in 1 .. n /\ k + 1 \in 0 .. n /\ k \in 0 .. n /\ k + 1 \in k .. n
        /\ k \in 1 - 1 .. n /\ 1 \in 1 .. n + 1
    BY <1>1
  <2>2. SubSeq(s, 1, k + 1) = SubSeq(s, 1, k) \o <<s[k + 1]>>
    <3>1. s \in Seq(ToSet(s)) /\ 1 \in 1 .. n /\ k + 1 \in 1 .. n /\ (k + 1) - 1 = k
      BY <1>1, <2>1 DEF Sequence
    <3>2. SubSeq(s, 1, k + 1) = SubSeq(s, 1, (k + 1) - 1) \o <<s[k + 1]>>
      BY ONLY <3>1, SubSeqRecursiveSecond
    <3> QED
      BY ONLY <3>1, <3>2
  <2>3. Sequence(SubSeq(s, 1, k))
    BY <2>1, PartShape
  <2>4. ChunksHold(AddFragment(g[k], s[k + 1]), SubSeq(s, 1, k) \o <<s[k + 1]>>)
    BY <1>4, <2>1, <2>3, AddFragmentHolds
  <2> QED
    BY <1>2, <2>1, <2>2, <2>4
<1>5. n \in A
  <2> HIDE DEF A
  <2>1. 0 \in Nat /\ n \in 0 .. n
    BY <1>1
  <2>2. \A k \in 0 .. n : k \in A
    BY ONLY <1>1, <2>1, <1>3, <1>4, CountingUp
  <2> QED
    BY <2>1, <2>2
<1>6. SubSeq(s, 1, n) = s
  BY <1>1, SubSeqFull DEF Sequence
<1> QED
  BY <1>2, <1>5, <1>6

-----------------------------------------------------------------------------
(* The fragments of a segment. *)
LEMMA TimesKeepsOrder ==
  ASSUME NEW a \in Int, NEW b \in Int, NEW p \in Nat, a <= b
  PROVE  a * p <= b * p
<1>1. (b - a) * p >= 0
  OBVIOUS
<1>2. (b - a) * p = b * p - a * p /\ a * p \in Int /\ b * p \in Int
  OBVIOUS
<1> QED
  BY <1>1, <1>2

(* Parts of p characters cover n of them, and the last is not empty. *)
LEMMA PartsCover ==
  ASSUME NEW n \in Nat, NEW p \in Nat \ {0}, NEW q, q = (n + p - 1) \div p
  PROVE  /\ q \in Int /\ q * p >= n /\ (q - 1) * p <= n - 1 /\ (n > 0 => q >= 1)
<1>1. q \in Int /\ q * p <= n + p - 1 /\ n + p - 1 < q * p + p
  OBVIOUS
<1>2. (q - 1) * p = q * p - p /\ q * p \in Int
  BY <1>1
<1>3. n > 0 => q >= 1
  <2> SUFFICES ASSUME n > 0, q <= 0 PROVE FALSE
    BY <1>1
  <2>1. q * p <= 0 * p /\ 0 * p = 0
    BY <1>1, TimesKeepsOrder
  <2> QED
    BY <1>1, <1>2, <2>1
<1> QED
  BY <1>1, <1>2, <1>3

(* The fragments of segment i, of n characters, go from its first          *)
(* character to its last, and each fits a chunk.                           *)
SegmentTiled(i, n, f) ==
  /\ Sequence(f) /\ Len(f) \in Nat \ {0} /\ f[1].from = 0 /\ f[Len(f)].to = n
  /\ \A k \in 1 .. Len(f) :
       /\ f[k].segment = i /\ f[k].from <= f[k].to
       /\ f[k].size \in Int /\ f[k].size <= Chunking.maxChars
  /\ \A k \in 1 .. Len(f) - 1 : f[k + 1].from = f[k].to

(* A slice with its header and label is no longer than a chunk may be. *)
LEMMA SliceBounds ==
  ASSUME NEW c \in Nat, NEW h \in Nat, NEW label \in 1 .. 39, NEW n \in Nat,
         NEW p \in Nat \ {0}, p = c - h - 40,
         NEW a \in Int, a <= n - 1, NEW b \in Int, b = a + p,
         NEW t, t = (IF b <= n THEN b ELSE n)
  PROVE  a <= t /\ h + label + 1 + t - a \in Int /\ h + label + 1 + t - a <= c
OBVIOUS

(* A segment is tiled by its fragments, whole or in parts. *)
LEMMA SegmentIsTiled ==
  ASSUME Chunking # Unchunked, NEW i, NEW n \in Nat
  PROVE  SegmentTiled(i, n, renderSegmentFragments(i, n))
<1> DEFINE f == renderSegmentFragments(i, n)
           c == Chunking.maxChars
           h == HeaderSize
<1>1. c \in Nat /\ h \in Nat /\ c > h + 40 /\ PartLabel \in 1 .. 39
  BY ExtractionAssumption
<1>2. CASE h + 1 + n <= c
  <2>1. f = <<Slice(i, 0, n, 0)>>
    BY <1>2 DEF renderSegmentFragments
  <2>2. PICK s : s = Slice(i, 0, n, 0)
    OBVIOUS
  <2>3. /\ s.segment = i /\ s.from = 0 /\ s.to = n /\ s.size \in Int /\ s.size <= c
    BY <1>1, <1>2, <2>2 DEF Slice
  <2> HIDE DEF f, c, h
  <2>4. f = <<s>> /\ Sequence(f) /\ Len(f) = 1 /\ f[1] = s
    BY <2>1, <2>2, OnePlace
  <2>5. /\ \A k \in 1 .. Len(f) : f[k] = s
        /\ \A k \in 1 .. Len(f) - 1 : f[k + 1].from = f[k].to
        /\ f[1].from = 0 /\ f[Len(f)].to = n /\ 0 <= n /\ Len(f) \in Nat \ {0}
    BY ONLY <2>3, <2>4, n \in Nat
  <2>6. SegmentTiled(i, n, f)
    BY <2>3, <2>4, <2>5 DEF SegmentTiled, c
  <2> QED
    BY <2>6 DEF f
<1>3. CASE ~(h + 1 + n <= c)
  <2>1. PICK p \in Nat \ {0} : p = c - h - 40
    BY <1>1
  <2>2. PICK q : q = (n + p - 1) \div p
    OBVIOUS
  <2>3. f = [k \in 1 .. q |-> Slice(i, (k - 1) * p, Min({k * p, n}), PartLabel)]
    BY <1>3, <2>1, <2>2 DEF renderSegmentFragments
  <2> HIDE DEF f, c, h
  <2>4. /\ n > 0 /\ q \in Nat \ {0} /\ q * p >= n /\ (q - 1) * p <= n - 1
    <3>1. n > 0
      BY <1>1, <1>3
    <3>2. q \in Int /\ q * p >= n /\ (q - 1) * p <= n - 1 /\ (n > 0 => q >= 1)
      BY <2>2, PartsCover
    <3> QED
      BY <3>1, <3>2
  <2>5. ASSUME NEW k \in 1 .. q
        PROVE  /\ k \in Int /\ (k - 1) * p \in Int /\ k * p \in Int
               /\ (k - 1) * p <= n - 1 /\ k * p = (k - 1) * p + p
    <3>1. k - 1 \in Int /\ q - 1 \in Int /\ k - 1 <= q - 1
      BY <2>4
    <3>2. (k - 1) * p <= (q - 1) * p
      BY <3>1, TimesKeepsOrder
    <3>3. (k - 1) * p \in Int /\ k * p \in Int /\ (q - 1) * p \in Int /\ k * p = (k - 1) * p + p
      BY <2>4, <3>1
    <3> QED
      BY <2>4, <3>1, <3>2, <3>3
  <2>6. \A a \in Int : Min({a, n}) = IF a <= n THEN a ELSE n
    BY LeastOfTwo
  <2>7. /\ Sequence(f) /\ Len(f) = q /\ DOMAIN f = 1 .. q
    <3>1. f = [k \in 1 .. q |-> f[k]]
      BY <2>3
    <3> QED
      BY <2>4, <3>1, SequenceFrom
  <2>8. ASSUME NEW k \in 1 .. q
        PROVE  /\ f[k].segment = i /\ f[k].from = (k - 1) * p
               /\ f[k].to = (IF k * p <= n THEN k * p ELSE n)
               /\ f[k].size = h + PartLabel + 1 + f[k].to - f[k].from
    <3>1. f[k] = Slice(i, (k - 1) * p, Min({k * p, n}), PartLabel)
      BY <2>3
    <3>2. Min({k * p, n}) = IF k * p <= n THEN k * p ELSE n
      BY <2>5, <2>6
    <3> QED
      BY <3>1, <3>2 DEF Slice, h
  <2>9. ASSUME NEW k \in 1 .. q
        PROVE  /\ f[k].from <= f[k].to /\ f[k].size \in Int /\ f[k].size <= c
    <3>1. PICK a \in Int, b \in Int : a = (k - 1) * p /\ b = k * p /\ a <= n - 1 /\ b = a + p
      BY <2>5
    <3>2. f[k].from = a /\ f[k].to = (IF b <= n THEN b ELSE n)
      BY <2>8, <3>1
    <3>3. PICK t : t = (IF b <= n THEN b ELSE n)
      OBVIOUS
    <3>4. f[k].from = a /\ f[k].to = t /\ f[k].size = h + PartLabel + 1 + t - a
      BY <2>8, <3>2, <3>3
    <3>5. /\ a <= t /\ h + PartLabel + 1 + t - a \in Int
          /\ h + PartLabel + 1 + t - a <= c
      BY ONLY <1>1, <2>1, <3>1, <3>3, n \in Nat, p \in Nat \ {0}, SliceBounds
    <3> QED
      BY ONLY <3>4, <3>5
  <2>10. f[1].from = 0 /\ f[q].to = n
    <3>1. 1 \in 1 .. q /\ q \in 1 .. q /\ (1 - 1) * p = 0
      BY <2>4
    <3>2. f[1].from = (1 - 1) * p /\ f[q].to = (IF q * p <= n THEN q * p ELSE n)
      BY <2>8, <3>1
    <3> QED
      BY <2>4, <3>1, <3>2
  <2>11. ASSUME NEW k \in 1 .. q - 1 PROVE f[k + 1].from = f[k].to
    <3>1. k \in 1 .. q /\ k + 1 \in 1 .. q /\ (k + 1) - 1 = k
      BY <2>4
    <3>2. k * p <= n - 1 /\ k * p \in Int
      BY <2>5, <3>1
    <3>3. f[k + 1].from = k * p /\ f[k].to = (IF k * p <= n THEN k * p ELSE n)
      BY <2>8, <3>1
    <3> QED
      BY <3>2, <3>3
  <2>12. SegmentTiled(i, n, f)
    BY ONLY <2>4, <2>7, <2>8, <2>9, <2>10, <2>11 DEF SegmentTiled, c
  <2> QED
    BY <2>12 DEF f
<1> QED
  BY <1>2, <1>3

(* The fragments of the first m segments. *)
Tiled(segments, m, s) ==
  /\ Sequence(s) /\ Len(s) \in Nat \ {0} /\ s[1].segment = 1 /\ s[1].from = 0
  /\ s[Len(s)].segment = m /\ s[Len(s)].to = segments[m].size
  /\ \A k \in 1 .. Len(s) :
       s[k].from <= s[k].to /\ s[k].size \in Int /\ s[k].size <= Chunking.maxChars
  /\ \A k \in 1 .. Len(s) - 1 : Follows(segments, s[k], s[k + 1])

(* The next segment's fragments go on where the last ended. *)
LEMMA TiledFurther ==
  ASSUME NEW segments, NEW m, NEW s, Tiled(segments, m, s), NEW f,
         SegmentTiled(m + 1, segments[m + 1].size, f)
  PROVE  Tiled(segments, m + 1, s \o f)
<1> DEFINE t == s \o f
<1>1. /\ Sequence(t) /\ Len(t) = Len(s) + Len(f)
      /\ \A k \in 1 .. Len(s) : t[k] = s[k]
      /\ \A k \in 1 .. Len(f) : t[Len(s) + k] = f[k]
  BY JoinedShape DEF Tiled, SegmentTiled
<1> HIDE DEF t
<1>2. Len(s) \in Nat \ {0} /\ Len(f) \in Nat \ {0}
  BY DEF Tiled, SegmentTiled
<1>3. /\ t[1] = s[1] /\ t[Len(t)] = f[Len(f)] /\ t[Len(s)] = s[Len(s)] /\ t[Len(s) + 1] = f[1]
  BY ONLY <1>1, <1>2
<1>4. ASSUME NEW k \in 1 .. Len(t)
      PROVE  \/ k \in 1 .. Len(s) /\ t[k] = s[k]
             \/ \E j \in 1 .. Len(f) : k = Len(s) + j /\ t[k] = f[j]
  <2>1. CASE k <= Len(s)
    BY <1>1, <1>2, <2>1
  <2>2. CASE ~(k <= Len(s))
    <3>1. k - Len(s) \in 1 .. Len(f) /\ k = Len(s) + (k - Len(s))
      BY ONLY <1>1, <1>2, <2>2, k \in 1 .. Len(t)
    <3>2. t[Len(s) + (k - Len(s))] = f[k - Len(s)]
      BY ONLY <1>1, <3>1
    <3> QED
      BY <3>1, <3>2
  <2> QED
    BY <2>1, <2>2
<1>5. \A k \in 1 .. Len(t) :
        t[k].from <= t[k].to /\ t[k].size \in Int /\ t[k].size <= Chunking.maxChars
  BY <1>4 DEF Tiled, SegmentTiled
<1>6. ASSUME NEW k \in 1 .. Len(t) - 1 PROVE Follows(segments, t[k], t[k + 1])
  <2>1. CASE k < Len(s)
    <3>1. k \in 1 .. Len(s) - 1 /\ k \in 1 .. Len(s) /\ k + 1 \in 1 .. Len(s)
      BY <1>2, <2>1
    <3>2. t[k] = s[k] /\ t[k + 1] = s[k + 1]
      BY ONLY <1>1, <3>1
    <3> QED
      BY <3>1, <3>2 DEF Tiled
  <2>2. CASE k = Len(s)
    <3>1. t[k] = s[Len(s)] /\ t[k + 1] = f[1]
      BY <1>3, <2>2
    <3>2. s[Len(s)].segment = m /\ s[Len(s)].to = segments[m].size
      BY DEF Tiled
    <3>3. f[1].segment = m + 1 /\ f[1].from = 0
      BY <1>2 DEF SegmentTiled
    <3> QED
      BY <3>1, <3>2, <3>3 DEF Follows
  <2>3. CASE k > Len(s)
    <3>1. PICK j \in 1 .. Len(f) - 1 : k = Len(s) + j
      <4>1. k - Len(s) \in 1 .. Len(f) - 1 /\ k = Len(s) + (k - Len(s))
        BY <1>1, <1>2, <2>3
      <4> QED
        BY <4>1
    <3>2. j \in 1 .. Len(f) /\ j + 1 \in 1 .. Len(f) /\ k + 1 = Len(s) + (j + 1)
      BY <1>2, <3>1
    <3>3. t[k] = f[j] /\ t[k + 1] = f[j + 1]
      BY ONLY <1>1, <3>1, <3>2
    <3>4. f[j].segment = f[j + 1].segment /\ f[j + 1].from = f[j].to
      BY <3>1, <3>2 DEF SegmentTiled
    <3> QED
      BY <3>3, <3>4 DEF Follows
  <2> QED
    BY <1>1, <1>2, <2>1, <2>2, <2>3
<1>7. /\ t[1].segment = 1 /\ t[1].from = 0 /\ t[Len(t)].segment = m + 1
      /\ t[Len(t)].to = segments[m + 1].size
  BY <1>2, <1>3 DEF Tiled, SegmentTiled
<1>8. Len(t) \in Nat \ {0}
  BY <1>1, <1>2
<1> QED
  BY <1>1, <1>5, <1>6, <1>7, <1>8 DEF Tiled, t

(* The first segment's begin at its first character. *)
LEMMA TiledFirst ==
  ASSUME NEW segments, NEW f, SegmentTiled(1, segments[1].size, f)
  PROVE  Tiled(segments, 1, f)
<1>1. \A k \in 1 .. Len(f) - 1 : Follows(segments, f[k], f[k + 1])
  <2> SUFFICES ASSUME NEW k \in 1 .. Len(f) - 1 PROVE Follows(segments, f[k], f[k + 1])
    OBVIOUS
  <2>1. k \in 1 .. Len(f) /\ k + 1 \in 1 .. Len(f)
    BY DEF SegmentTiled
  <2>2. f[k].segment = f[k + 1].segment /\ f[k + 1].from = f[k].to
    BY <2>1 DEF SegmentTiled
  <2> QED
    BY <2>2 DEF Follows
<1>2. 1 \in 1 .. Len(f) /\ Len(f) \in 1 .. Len(f)
  BY DEF SegmentTiled
<1> QED
  BY <1>1, <1>2 DEF Tiled, SegmentTiled

(* The fragments of all the segments of a source tile it. *)
LEMMA FragmentsTile ==
  ASSUME Chunking # Unchunked, NEW segments \in OtherSegments \cup {Segments}
  PROVE  Tiled(segments, Len(segments),
           FlattenSeq([i \in DOMAIN segments |->
                         renderSegmentFragments(i, segments[i].size)]))
<1> DEFINE n == Len(segments)
           r == [i \in DOMAIN segments |-> renderSegmentFragments(i, segments[i].size)]
<1>1. /\ n \in Nat \ {0} /\ DOMAIN segments = 1 .. n
      /\ \A i \in 1 .. n : segments[i].size \in Nat
  BY ExtractionAssumption
<1>2. \A i \in 1 .. n : SegmentTiled(i, segments[i].size, r[i])
  BY <1>1, SegmentIsTiled
<1>3. r = [i \in 1 .. n |-> r[i]]
  BY <1>1
<1> HIDE DEF r, n
<1>4. Len(r) = n
  BY <1>1, <1>3, SequenceFrom
<1>5. PICK f : /\ FlattenSeq(r) = f[n] /\ f[1] = r[1]
               /\ \A i \in 1 .. n - 1 : f[i + 1] = f[i] \o r[i + 1]
  BY <1>1, <1>4, FlattenSteps
<1> DEFINE B == {m \in 1 .. n : Tiled(segments, m, f[m])}
<1>6. 1 \in B
  <2>1. 1 \in 1 .. n
    BY <1>1
  <2> QED
    BY <1>2, <1>5, <2>1, TiledFirst
<1>7. ASSUME NEW m \in 1 .. n - 1, m \in B PROVE m + 1 \in B
  <2>1. m + 1 \in 1 .. n
    BY <1>1
  <2>2. Tiled(segments, m + 1, f[m] \o r[m + 1])
    BY <1>2, <1>7, <2>1, TiledFurther
  <2> QED
    BY <1>5, <2>1, <2>2
<1>8. n \in B
  <2> HIDE DEF B
  <2>1. 1 \in Nat /\ n \in Nat /\ n \in 1 .. n
    BY <1>1
  <2>2. \A m \in 1 .. n : m \in B
    BY ONLY <2>1, <1>6, <1>7, CountingUp
  <2> QED
    BY <2>1, <2>2
<1>9. Tiled(segments, n, FlattenSeq(r))
  BY <1>5, <1>8
<1> QED
  BY <1>9 DEF n, r

(* Every character of a source is in its chunks. *)
LEMMA SourcesAreTiled ==
  ASSUME Chunking # Unchunked, NEW segments \in OtherSegments \cup {Segments}
  PROVE  ChunksTile(segments) /\ Sequence(fullSourceEvidenceChunks(segments))
<1> DEFINE fragments == FlattenSeq([i \in DOMAIN segments |->
                          renderSegmentFragments(i, segments[i].size)])
           chunks == fullSourceEvidenceChunks(segments)
<1>1. Tiled(segments, Len(segments), fragments)
  BY FragmentsTile
<1>2. chunks = FoldLeft(AddFragment, << >>, fragments)
  BY DEF fullSourceEvidenceChunks
<1> HIDE DEF fragments, chunks
<1>3. ChunksHold(chunks, fragments)
  BY <1>1, <1>2, ChunksOfFragments DEF Tiled
<1>4. /\ Sequence(fragments) /\ Len(fragments) \in Nat \ {0} /\ FlattenSeq(chunks) = fragments
      /\ DOMAIN fragments = 1 .. Len(fragments) /\ DOMAIN chunks = 1 .. Len(chunks)
  BY <1>1, <1>3, SequenceShape DEF Tiled, ChunksHold, Nested
<1>5. fragments # << >>
  BY <1>4
<1>6. \A k \in 2 .. Len(fragments) : Follows(segments, fragments[k - 1], fragments[k])
  <2> SUFFICES ASSUME NEW k \in 2 .. Len(fragments)
               PROVE  Follows(segments, fragments[k - 1], fragments[k])
    OBVIOUS
  <2>1. k - 1 \in 1 .. Len(fragments) - 1 /\ (k - 1) + 1 = k
    BY <1>4
  <2> QED
    BY <1>1, <2>1 DEF Tiled
<1>7. ChunksTile(segments)
  BY <1>1, <1>3, <1>4, <1>5, <1>6 DEF ChunksTile, Tiled, ChunksHold, Last, chunks
<1> QED
  BY <1>3, <1>7 DEF ChunksHold, Nested, chunks

(* So nothing of any source is left out. *)
LEMMA NothingIsUnread == NothingUnread
BY SourcesAreTiled DEF NothingUnread

-----------------------------------------------------------------------------
(* What the lists of the documents come to *)

LastDocument == Len(Documents)
OperationFields == {"status", "take", "done"}
Settled(ops, d) ==
  ops[d].status = "completed" /\ ops[d].done = Len(Documents[d].fragments)
SettledTo(ops, k) == \A d \in 1 .. k : Settled(ops, d)

(* The units of the first documents. *)
UnitsTo(mem, k) == FlattenSeq([d \in 1 .. k |-> mem[d]])

BankSound ==
  /\ operations = [d \in 1 .. LastDocument |-> operations[d]]
  /\ memories = [d \in 1 .. LastDocument |-> memories[d]]
  /\ \A d \in 1 .. LastDocument :
       /\ operations[d] = [f \in OperationFields |-> operations[d][f]]
       /\ Sequence(memories[d])
       /\ operations[d].status = "completed" => Settled(operations, d)

(* A run that lists has all of the documents before, which are settled,    *)
(* and the first units of the one in hand.                                 *)
Gathered(ops, mem, st) ==
  /\ st.phase \in {"open", "archive", "archived", "artifact"} => st.items = << >>
  /\ st.phase \in {"preflight", "retain", "wait"} =>
       /\ st.document \in 1 .. LastDocument /\ SettledTo(ops, st.document - 1)
       /\ st.listed = 0 /\ st.items = UnitsTo(mem, st.document - 1)
  /\ st.phase = "list" =>
       /\ st.document \in 1 .. LastDocument /\ SettledTo(ops, st.document)
       /\ st.listed \in 0 .. Len(mem[st.document])
       /\ st.items = UnitsTo(mem, st.document - 1) \o SubSeq(mem[st.document], 1, st.listed)
  /\ st.phase = "store" =>
       SettledTo(ops, LastDocument) /\ st.items = UnitsTo(mem, LastDocument)

Complete(ops, mem, artifact) ==
  artifact # NoArtifact =>
    SettledTo(ops, LastDocument) /\ artifact.units = Filled(UnitsTo(mem, LastDocument))

GatheredSound ==
  /\ \A h \in ExtractionHosts : Gathered(operations, memories, extracting[h])
  /\ \A e \in Experiences : Complete(operations, memories, artifacts[e])

(* The inductive invariant of ExtractionIsWhole. *)
WholeInv == ExtractionInv /\ BankSound /\ GatheredSound

(* The documents are a sequence. *)
LEMMA DocumentsAreSequence ==
  Sequence(Documents) /\ LastDocument \in Nat /\ DOMAIN Documents = 1 .. LastDocument
<1>1. Sequence(FullSource)
  <2>1. CASE ProjectionMode = "source_actor_only"
    <3>1. << >> \in Seq({})
      OBVIOUS
    <3> QED
      BY <2>1, <3>1, SequenceOf DEF FullSource
  <2>2. CASE ProjectionMode # "source_actor_only" /\ Chunking = Unchunked
    BY <2>2, OnePlace DEF FullSource
  <2>3. CASE ProjectionMode # "source_actor_only" /\ Chunking # Unchunked
    <3> DEFINE chunks == fullSourceEvidenceChunks(Segments)
               n == Len(chunks)
    <3>1. n \in Nat /\ DOMAIN chunks = 1 .. n
      BY <2>3, SourcesAreTiled, SequenceShape
    <3>2. FullSource = [k \in 1 .. n |-> Document(FALSE, chunks[k])]
      BY <2>3, <3>1 DEF FullSource
    <3> HIDE DEF n, chunks
    <3>3. FullSource = [k \in 1 .. n |-> FullSource[k]]
      BY <3>2
    <3> QED
      BY <3>1, <3>3, SequenceFrom
  <2> QED
    BY <2>1, <2>2, <2>3
<1>2. Sequence(UserProjection)
  <2>1. << >> \in Seq({})
    OBVIOUS
  <2>2. Sequence(<< >>)
    BY <2>1, SequenceOf
  <2>3. Sequence(<<Document(TRUE, userSegments)>>)
    BY OnePlace
  <2> QED
    BY <2>2, <2>3 DEF UserProjection
<1>3. Sequence(Documents)
  BY <1>1, <1>2, JoinedShape DEF Documents
<1> QED
  BY <1>3, SequenceShape DEF LastDocument

(* One document more. *)
LEMMA UnitsToNone == ASSUME NEW mem PROVE UnitsTo(mem, 0) = << >>
<1>1. [d \in 1 .. 0 |-> mem[d]] = << >>
  OBVIOUS
<1> QED
  BY <1>1, FlattenNone DEF UnitsTo

(* The units of one document more are put behind, *)
LEMMA UnitsToNext ==
  ASSUME NEW mem, NEW k \in Nat, Sequence(mem[k + 1])
  PROVE  UnitsTo(mem, k + 1) = UnitsTo(mem, k) \o mem[k + 1]
<1> DEFINE c == [d \in 1 .. k |-> mem[d]]
           e == [d \in 1 .. k + 1 |-> mem[d]]
<1>1. Len(c) = k /\ Len(e) = k + 1
  <2>1. c = [d \in 1 .. k |-> c[d]] /\ e = [d \in 1 .. k + 1 |-> e[d]] /\ k + 1 \in Nat
    OBVIOUS
  <2> HIDE DEF c, e
  <2> QED
    BY <2>1, SequenceFrom
<1>2. (\A i \in 1 .. k : e[i] = c[i]) /\ e[k + 1] = mem[k + 1]
  OBVIOUS
<1>3. UnitsTo(mem, k) = FlattenSeq(c) /\ UnitsTo(mem, k + 1) = FlattenSeq(e)
  BY DEF UnitsTo
<1> HIDE DEF c, e
<1>4. FlattenSeq(e) = IF k = 0 THEN e[1] ELSE FlattenSeq(c) \o e[k + 1]
  BY <1>1, <1>2, FlattenOneMore
<1>5. CASE k = 0
  <2>1. UnitsTo(mem, k) = << >> /\ k + 1 = 1
    BY <1>5, UnitsToNone
  <2>2. << >> \o mem[k + 1] = mem[k + 1]
    BY JoinedNone
  <2> QED
    BY <1>2, <1>3, <1>4, <1>5, <2>1, <2>2
<1>6. CASE k # 0
  BY <1>2, <1>3, <1>4, <1>6
<1> QED
  BY <1>5, <1>6

(* so that they are a sequence. *)
LEMMA UnitsToIsSequence ==
  ASSUME NEW mem, NEW k \in Nat, \A d \in 1 .. k : Sequence(mem[d])
  PROVE  Sequence(UnitsTo(mem, k))
<1> DEFINE B == {j \in 0 .. k : Sequence(UnitsTo(mem, j))}
<1>1. 0 \in B
  <2>1. << >> \in Seq({})
    OBVIOUS
  <2>2. Sequence(<< >>)
    BY <2>1, SequenceOf
  <2>3. 0 \in 0 .. k
    OBVIOUS
  <2> QED
    BY <2>2, <2>3, UnitsToNone
<1>2. ASSUME NEW j \in 0 .. k - 1, j \in B PROVE j + 1 \in B
  <2>1. j \in Nat /\ j + 1 \in 1 .. k /\ j + 1 \in 0 .. k
    OBVIOUS
  <2>2. UnitsTo(mem, j + 1) = UnitsTo(mem, j) \o mem[j + 1]
    BY <2>1, UnitsToNext
  <2>3. Sequence(UnitsTo(mem, j)) /\ Sequence(mem[j + 1])
    BY <1>2, <2>1
  <2>4. Sequence(UnitsTo(mem, j) \o mem[j + 1])
    BY <2>3, JoinedShape
  <2> QED
    BY <2>1, <2>2, <2>4
<1>3. \A j \in 0 .. k : j \in B
  <2> HIDE DEF B
  <2> QED
    BY ONLY k \in Nat, <1>1, <1>2, CountingUp
<1> QED
  BY <1>3

(* What is settled stays as it is, so a run keeps what it has. *)
Undisturbed(ops, mem, opsNext, memNext) ==
  \A d \in 1 .. LastDocument :
    Settled(ops, d) => Settled(opsNext, d) /\ memNext[d] = mem[d]

(* The units of settled documents stay, *)
LEMMA UnitsStay ==
  ASSUME NEW ops, NEW mem, NEW opsNext, NEW memNext, Undisturbed(ops, mem, opsNext, memNext),
         NEW k \in 0 .. LastDocument, SettledTo(ops, k)
  PROVE  SettledTo(opsNext, k) /\ UnitsTo(memNext, k) = UnitsTo(mem, k)
<1>1. \A d \in 1 .. k : Settled(opsNext, d) /\ memNext[d] = mem[d]
  BY DocumentsAreSequence DEF Undisturbed, SettledTo
<1>2. [d \in 1 .. k |-> memNext[d]] = [d \in 1 .. k |-> mem[d]]
  BY <1>1
<1> QED
  BY <1>1, <1>2 DEF SettledTo, UnitsTo

(* what a run has gathered, *)
LEMMA GatheredStays ==
  ASSUME NEW ops, NEW mem, NEW opsNext, NEW memNext, Undisturbed(ops, mem, opsNext, memNext),
         NEW st, Gathered(ops, mem, st)
  PROVE  Gathered(opsNext, memNext, st)
<1>0. LastDocument \in Nat
  BY DocumentsAreSequence
<1>1. ASSUME st.phase \in {"preflight", "retain", "wait"}
      PROVE  /\ st.document \in 1 .. LastDocument /\ SettledTo(opsNext, st.document - 1)
             /\ st.listed = 0 /\ st.items = UnitsTo(memNext, st.document - 1)
  <2>1. /\ st.document \in 1 .. LastDocument /\ SettledTo(ops, st.document - 1)
        /\ st.listed = 0 /\ st.items = UnitsTo(mem, st.document - 1)
    BY <1>1 DEF Gathered
  <2>2. st.document - 1 \in 0 .. LastDocument
    BY <1>0, <2>1
  <2> QED
    BY <2>1, <2>2, UnitsStay
<1>2. ASSUME st.phase = "list"
      PROVE  /\ st.document \in 1 .. LastDocument /\ SettledTo(opsNext, st.document)
             /\ st.listed \in 0 .. Len(memNext[st.document])
             /\ st.items = UnitsTo(memNext, st.document - 1)
                             \o SubSeq(memNext[st.document], 1, st.listed)
  <2>1. /\ st.document \in 1 .. LastDocument /\ SettledTo(ops, st.document)
        /\ st.listed \in 0 .. Len(mem[st.document])
        /\ st.items = UnitsTo(mem, st.document - 1) \o SubSeq(mem[st.document], 1, st.listed)
    BY <1>2 DEF Gathered
  <2>2. st.document \in 0 .. LastDocument /\ st.document - 1 \in 0 .. LastDocument
    BY <1>0, <2>1
  <2>3. SettledTo(ops, st.document - 1) /\ Settled(ops, st.document)
    BY <2>1 DEF SettledTo
  <2>4. memNext[st.document] = mem[st.document]
    BY <2>1, <2>3 DEF Undisturbed
  <2>5. SettledTo(opsNext, st.document)
        /\ UnitsTo(memNext, st.document - 1) = UnitsTo(mem, st.document - 1)
    BY <2>1, <2>2, <2>3, UnitsStay
  <2> QED
    BY <2>1, <2>4, <2>5
<1>3. ASSUME st.phase = "store"
      PROVE  SettledTo(opsNext, LastDocument) /\ st.items = UnitsTo(memNext, LastDocument)
  BY <1>0, <1>3, UnitsStay DEF Gathered
<1> QED
  BY <1>1, <1>2, <1>3 DEF Gathered

(* and what an artifact has. *)
LEMMA CompleteStays ==
  ASSUME NEW ops, NEW mem, NEW opsNext, NEW memNext, Undisturbed(ops, mem, opsNext, memNext),
         NEW artifact, Complete(ops, mem, artifact)
  PROVE  Complete(opsNext, memNext, artifact)
BY DocumentsAreSequence, UnitsStay DEF Complete

(* A bank that rests disturbs nothing. *)
LEMMA NothingDisturbed == ASSUME NEW ops, NEW mem PROVE Undisturbed(ops, mem, ops, mem)
BY DEF Undisturbed

(* The bank takes on an operation that is not under way or completed. *)
LEMMA AcceptKeeps ==
  ASSUME BankSound, NEW d \in 1 .. LastDocument, Accept(d)
  PROVE  BankSound' /\ Undisturbed(operations, memories, operations', memories')
<1>1. CASE UNCHANGED bank
  BY <1>1, NothingDisturbed DEF bank, BankSound, Settled
<1>2. CASE /\ operations[d].status \notin {"pending", "completed"}
           /\ operations' = [operations EXCEPT ![d] =
                [status |-> "pending", take |-> @.take + 1, done |-> 0]]
           /\ memories' = [memories EXCEPT ![d] = << >>]
  <2>1. Sequence(<< >>)
    <3>1. << >> \in Seq({})
      OBVIOUS
    <3> QED
      BY <3>1, SequenceOf
  <2>2. /\ operations' = [k \in 1 .. LastDocument |-> operations'[k]]
        /\ memories' = [k \in 1 .. LastDocument |-> memories'[k]]
        /\ operations'[d].status = "pending" /\ memories'[d] = << >>
        /\ operations'[d] = [f \in OperationFields |-> operations'[d][f]]
        /\ \A k \in 1 .. LastDocument : k # d =>
             operations'[k] = operations[k] /\ memories'[k] = memories[k]
    BY <1>2 DEF BankSound, OperationFields
  <2>3. BankSound'
    BY <2>1, <2>2 DEF BankSound, Settled
  <2>4. ~Settled(operations, d)
    BY <1>2 DEF Settled
  <2>5. Undisturbed(operations, memories, operations', memories')
    BY <2>2, <2>4 DEF Undisturbed, Settled
  <2> QED
    BY <2>3, <2>5
<1> QED
  BY <1>1, <1>2 DEF Accept

(* The provider works on an operation that is pending, *)
LEMMA ExtractFragmentKeeps ==
  ASSUME BankSound, NEW d \in 1 .. LastDocument, ExtractFragment(d)
  PROVE  BankSound' /\ Undisturbed(operations, memories, operations', memories')
<1>1. /\ operations[d].status = "pending"
      /\ operations' = [operations EXCEPT ![d].done = @ + 1]
  BY DEF ExtractFragment
<1>2. PICK texts \in Yields :
        memories' = [memories EXCEPT ![d] = @ \o
          [k \in DOMAIN texts |-> [id |-> <<d, operations[d].take, operations[d].done, k>>,
                                   blank |-> texts[k] = "blank"]]]
  BY DEF ExtractFragment
<1> DEFINE found == [k \in DOMAIN texts |->
                       [id |-> <<d, operations[d].take, operations[d].done, k>>,
                        blank |-> texts[k] = "blank"]]
<1>3. Sequence(found)
  <2> DEFINE n == Len(texts)
  <2>1. n \in Nat /\ DOMAIN texts = 1 .. n
    BY ExtractionAssumption, SequenceShape DEF Sequence
  <2>2. found = [k \in 1 .. n |-> found[k]]
    BY <2>1
  <2> HIDE DEF n, found
  <2> QED
    BY <2>1, <2>2, SequenceFrom
<1> HIDE DEF found
<1>4. memories' = [memories EXCEPT ![d] = @ \o found]
  BY <1>2 DEF found
<1>5. /\ operations' = [k \in 1 .. LastDocument |-> operations'[k]]
      /\ memories' = [k \in 1 .. LastDocument |-> memories'[k]]
      /\ operations'[d].status = "pending" /\ memories'[d] = memories[d] \o found
      /\ operations'[d] = [f \in OperationFields |-> operations'[d][f]]
      /\ \A k \in 1 .. LastDocument : k # d =>
           operations'[k] = operations[k] /\ memories'[k] = memories[k]
  BY <1>1, <1>4 DEF BankSound, OperationFields
<1>6. Sequence(memories'[d])
  <2>1. Sequence(memories[d])
    BY DEF BankSound
  <2>2. Sequence(memories[d] \o found)
    BY <1>3, <2>1, JoinedShape
  <2> QED
    BY <1>5, <2>2
<1>7. BankSound'
  BY <1>5, <1>6 DEF BankSound, Settled
<1>8. ~Settled(operations, d)
  BY <1>1 DEF Settled
<1>9. Undisturbed(operations, memories, operations', memories')
  BY <1>5, <1>8 DEF Undisturbed, Settled
<1> QED
  BY <1>7, <1>9

(* and ends it as completed only when it has done every fragment. *)
LEMMA EndOperationKeeps ==
  ASSUME BankSound, NEW d \in 1 .. LastDocument, EndOperation(d)
  PROVE  BankSound' /\ Undisturbed(operations, memories, operations', memories')
<1>1. PICK status \in {"completed", "failed"} :
        /\ operations' = [operations EXCEPT ![d].status = status]
        /\ status = "completed" => operations[d].done = Len(Documents[d].fragments)
  BY DEF EndOperation
<1>2. operations[d].status = "pending" /\ memories' = memories
  BY DEF EndOperation
<1>3. /\ operations' = [k \in 1 .. LastDocument |-> operations'[k]]
      /\ operations'[d].status = status /\ operations'[d].done = operations[d].done
      /\ operations'[d] = [f \in OperationFields |-> operations'[d][f]]
      /\ \A k \in 1 .. LastDocument : k # d => operations'[k] = operations[k]
  BY <1>1 DEF BankSound, OperationFields
<1>4. BankSound'
  BY <1>1, <1>2, <1>3 DEF BankSound, Settled
<1>5. ~Settled(operations, d)
  BY <1>2 DEF Settled
<1>6. Undisturbed(operations, memories, operations', memories')
  BY <1>2, <1>3, <1>5 DEF Undisturbed, Settled
<1> QED
  BY <1>4, <1>6

(* A host goes on to a run that has gathered what it should, and nothing   *)
(* that was settled is disturbed.                                          *)
LEMMA GatheringStep ==
  ASSUME WholeInv, ExtractionInv', BankSound',
         Undisturbed(operations, memories, operations', memories'),
         NEW h \in ExtractionHosts, NEW st, Extracting(h, st),
         Gathered(operations', memories', st), UNCHANGED artifacts
  PROVE  WholeInv'
<1>1. \A k \in ExtractionHosts : Gathered(operations', memories', extracting[k])
  BY GatheredStays DEF WholeInv, GatheredSound
<1>2. \A k \in ExtractionHosts : extracting'[k] = IF k = h THEN st ELSE extracting[k]
  BY DEF Extracting, WholeInv, ExtractionInv
<1>3. \A k \in ExtractionHosts : Gathered(operations', memories', extracting'[k])
  BY <1>1, <1>2
<1>4. \A e \in Experiences : Complete(operations', memories', artifacts'[e])
  BY CompleteStays DEF WholeInv, GatheredSound
<1> QED
  BY <1>3, <1>4 DEF WholeInv, GatheredSound

(* A step that leaves the bank alone keeps what it has. *)
LEMMA BankRests ==
  ASSUME BankSound, UNCHANGED bank
  PROVE  BankSound' /\ Undisturbed(operations, memories, operations', memories')
BY NothingDisturbed DEF bank, BankSound, Settled

(* A run that neither lists nor is about to has nothing to show. *)
LEMMA OthersGather ==
  ASSUME NEW ops, NEW mem, NEW st,
         st.phase \in {"rest", "bind", "distilled", "curate"}
  PROVE  Gathered(ops, mem, st)
BY DEF Gathered

(* Nor has a host at rest. *)
LEMMA RestGathers == ASSUME NEW ops, NEW mem PROVE Gathered(ops, mem, AtRest)
BY OthersGather DEF AtRest

(* A run goes on to the next document, or has them all. *)
LEMMA TurnGathers ==
  ASSUME NEW ops, NEW mem, NEW st, RunShape(st), NEW d \in 1 .. LastDocument + 1,
         SettledTo(ops, d - 1), st.items = UnitsTo(mem, d - 1)
  PROVE  Gathered(ops, mem, Turn(st, d))
<1> DEFINE phase == IF d > Len(Documents) THEN "store"
                    ELSE IF Documents[d].user THEN "preflight" ELSE "retain"
           turned == [st EXCEPT !.document = d, !.listed = 0, !.phase = phase]
<1>0. LastDocument \in Nat
  BY DocumentsAreSequence
<1>1. \/ phase = "store" /\ d = LastDocument + 1
      \/ phase \in {"preflight", "retain"} /\ d \in 1 .. LastDocument
  BY <1>0 DEF LastDocument
<1>2. Turn(st, d) = turned
  BY DEF Turn
<1> HIDE DEF phase
<1>3. turned.phase = phase /\ turned.document = d /\ turned.listed = 0 /\ turned.items = st.items
  BY DEF RunShape, RunFields
<1> HIDE DEF turned
<1>4. CASE phase = "store" /\ d = LastDocument + 1
  <2>1. d - 1 = LastDocument
    BY <1>0, <1>4
  <2> QED
    BY <1>2, <1>3, <1>4, <2>1 DEF Gathered
<1>5. CASE phase \in {"preflight", "retain"} /\ d \in 1 .. LastDocument
  BY <1>2, <1>3, <1>5 DEF Gathered
<1> QED
  BY <1>1, <1>4, <1>5

(* Nothing of a sequence as a part of it. *)
LEMMA PartEmpty ==
  ASSUME NEW s, Sequence(s)
  PROVE  SubSeq(s, 1, 0) = << >>
<1>1. Len(s) \in Nat
  BY SequenceShape
<1>2. 1 \in 1 .. Len(s) + 1 /\ 0 \in 1 - 1 .. Len(s) /\ 0 - 1 + 1 = 0
  BY <1>1
<1>3. Sequence(SubSeq(s, 1, 0)) /\ Len(SubSeq(s, 1, 0)) = 0
  BY <1>2, PartShape
<1> QED
  BY <1>3 DEF Sequence

(* All of a sequence is the sequence. *)
LEMMA PartWhole ==
  ASSUME NEW s, Sequence(s)
  PROVE  SubSeq(s, 1, Len(s)) = s
<1>1. Len(s) \in Nat
  BY SequenceShape
<1>2. /\ 1 \in 1 .. Len(s) + 1 /\ Len(s) \in 1 - 1 .. Len(s) /\ Len(s) - 1 + 1 = Len(s)
      /\ \A k \in 1 .. Len(s) : 1 + k - 1 = k
  BY <1>1
<1>3. /\ Sequence(SubSeq(s, 1, Len(s))) /\ Len(SubSeq(s, 1, Len(s))) = Len(s)
      /\ \A k \in 1 .. Len(s) : SubSeq(s, 1, Len(s))[k] = s[k]
  BY <1>2, PartShape
<1> QED
  BY <1>3, SamePlaces

(* What the bank has of a document once its operation has completed. *)
LEMMA ListingBegins ==
  ASSUME BankSound, NEW st, RunShape(st), Gathered(operations, memories, st),
         st.phase \in {"preflight", "wait"}, operations[st.document].status = "completed"
  PROVE  Gathered(operations, memories, [st EXCEPT !.phase = "list"])
<1> DEFINE d == st.document
           next == [st EXCEPT !.phase = "list"]
<1>0. LastDocument \in Nat
  BY DocumentsAreSequence
<1>1. /\ d \in 1 .. LastDocument /\ SettledTo(operations, d - 1) /\ st.listed = 0
      /\ st.items = UnitsTo(memories, d - 1)
  BY DEF Gathered
<1>2. Settled(operations, d)
  BY <1>1 DEF BankSound
<1>3. SettledTo(operations, d)
  BY <1>0, <1>1, <1>2 DEF SettledTo
<1>4. Sequence(memories[d]) /\ Len(memories[d]) \in Nat
  BY <1>1, SequenceShape DEF BankSound
<1>5. SubSeq(memories[d], 1, 0) = << >>
  BY <1>4, PartEmpty
<1>6. UnitsTo(memories, d - 1) \o << >> = UnitsTo(memories, d - 1)
  <2>1. d - 1 \in Nat /\ \A k \in 1 .. d - 1 : k \in 1 .. LastDocument
    BY <1>0, <1>1
  <2>2. Sequence(UnitsTo(memories, d - 1))
    BY <2>1, UnitsToIsSequence DEF BankSound
  <2> QED
    BY <2>2, JoinedNone
<1>7. /\ next.phase = "list" /\ next.document = d /\ next.listed = 0 /\ next.items = st.items
  BY <1>1 DEF RunShape, RunFields
<1> HIDE DEF next, d
<1>8. Gathered(operations, memories, next)
  <2>1. next.items = UnitsTo(memories, d - 1) \o SubSeq(memories[d], 1, next.listed)
    BY <1>1, <1>5, <1>6, <1>7
  <2>2. next.listed \in 0 .. Len(memories[d])
    BY <1>4, <1>7
  <2> QED
    BY <1>1, <1>3, <1>7, <2>1, <2>2 DEF Gathered
<1> QED
  BY <1>8 DEF next

(* A page is put behind what was listed, and the last one ends the list.   *)
LEMMA PageGathers ==
  ASSUME BankSound, NEW st, RunShape(st), Gathered(operations, memories, st), st.phase = "list",
         NEW left, left = Len(memories[st.document]) - st.listed,
         NEW n \in Min({1, left}) .. Min({left, DISTILLATION_MEMORY_PAGE_SIZE}),
         NEW more,
         more = [st EXCEPT !.items = @ \o SubSeq(memories[st.document], st.listed + 1,
                                                 st.listed + n),
                           !.listed = @ + n]
  PROVE  /\ Gathered(operations, memories, more)
         /\ (more.listed >= Len(memories[st.document]) \/ n = 0) =>
              Gathered(operations, memories, Turn(more, st.document + 1))
<1>0. LastDocument \in Nat /\ DISTILLATION_MEMORY_PAGE_SIZE \in Nat \ {0}
  BY DocumentsAreSequence, ExtractionAssumption
<1> DEFINE d == st.document
           k == st.listed
           units == memories[d]
           prior == UnitsTo(memories, d - 1)
<1>1. /\ d \in 1 .. LastDocument /\ SettledTo(operations, d) /\ k \in 0 .. Len(units)
      /\ st.items = prior \o SubSeq(units, 1, k)
  BY DEF Gathered
<1>2. Sequence(units) /\ Len(units) \in Nat
  BY <1>1, SequenceShape DEF BankSound
<1>3. Sequence(prior)
  <2>1. PICK e : e = d /\ e \in 1 .. LastDocument
    BY <1>1
  <2>2. e - 1 \in Nat /\ \A j \in 1 .. e - 1 : j \in 1 .. LastDocument
    BY ONLY <1>0, <2>1
  <2>3. \A j \in 1 .. LastDocument : Sequence(memories[j])
    BY DEF BankSound
  <2>4. \A j \in 1 .. e - 1 : Sequence(memories[j])
    BY ONLY <2>2, <2>3
  <2>5. Sequence(UnitsTo(memories, e - 1))
    BY ONLY <2>2, <2>4, UnitsToIsSequence
  <2> QED
    BY <2>1, <2>5
<1>4. /\ RunShape(more) /\ more.phase = "list" /\ more.document = d /\ more.listed = k + n
      /\ more.items = st.items \o SubSeq(units, k + 1, k + n)
  BY DEF RunShape, RunFields
<1>5. left = Len(units) - k
  OBVIOUS
<1>6. SettledTo(operations, (d + 1) - 1) /\ d + 1 \in 1 .. LastDocument + 1
  <2>1. PICK e : e = d /\ e \in 1 .. LastDocument
    BY <1>1
  <2>2. (e + 1) - 1 = e /\ e + 1 \in 1 .. LastDocument + 1
    BY ONLY <1>0, <2>1
  <2> QED
    BY <1>1, <2>1, <2>2
<1>7. UnitsTo(memories, (d + 1) - 1) = prior \o units
  <2>1. PICK e : e = d /\ e \in 1 .. LastDocument
    BY <1>1
  <2>2. e - 1 \in Nat /\ (e - 1) + 1 = e /\ (e + 1) - 1 = e
    BY ONLY <1>0, <2>1
  <2>3. Sequence(memories[(e - 1) + 1])
    BY <1>2, <2>1, <2>2
  <2>4. UnitsTo(memories, (e - 1) + 1) = UnitsTo(memories, e - 1) \o memories[(e - 1) + 1]
    BY ONLY <2>2, <2>3, UnitsToNext
  <2> QED
    BY <2>1, <2>2, <2>4
<1> HIDE DEF units, prior, d, k
<1>8. left \in Nat /\ n \in 0 .. left /\ (n = 0 => left = 0)
  <2>1. left \in Nat /\ 1 \in Int /\ DISTILLATION_MEMORY_PAGE_SIZE \in Int
    BY <1>0, <1>1, <1>2, <1>5
  <2>2. Min({1, left}) = IF 1 <= left THEN 1 ELSE left
    BY ONLY <2>1, LeastOfTwo
  <2>3. Min({left, DISTILLATION_MEMORY_PAGE_SIZE})
          = IF left <= DISTILLATION_MEMORY_PAGE_SIZE THEN left
            ELSE DISTILLATION_MEMORY_PAGE_SIZE
    BY ONLY <2>1, LeastOfTwo
  <2>4. n \in (IF 1 <= left THEN 1 ELSE left)
               .. (IF left <= DISTILLATION_MEMORY_PAGE_SIZE THEN left
                   ELSE DISTILLATION_MEMORY_PAGE_SIZE)
    BY <2>2, <2>3
  <2> QED
    BY ONLY <1>0, <2>1, <2>4
<1>9. k + n \in k .. Len(units) /\ k + n \in 0 .. Len(units)
  BY ONLY <1>1, <1>2, <1>5, <1>8
<1>10. more.items = prior \o SubSeq(units, 1, k + n)
  <2>1. SubSeq(units, 1, k + n) = SubSeq(units, 1, k) \o SubSeq(units, k + 1, k + n)
    BY <1>1, <1>2, <1>9, PartsJoined
  <2>2. Sequence(SubSeq(units, 1, k)) /\ Sequence(SubSeq(units, k + 1, k + n))
    <3>1. /\ 1 \in 1 .. Len(units) + 1 /\ k \in 1 - 1 .. Len(units)
          /\ k + 1 \in 1 .. Len(units) + 1 /\ k + n \in (k + 1) - 1 .. Len(units)
      BY <1>1, <1>2, <1>9
    <3> QED
      BY <1>2, <3>1, PartShape
  <2>3. PICK a, b : a = SubSeq(units, 1, k) /\ b = SubSeq(units, k + 1, k + n)
    OBVIOUS
  <2>4. Sequence(a) /\ Sequence(b)
    BY <2>2, <2>3
  <2>5. (prior \o a) \o b = prior \o (a \o b)
    BY ONLY <1>3, <2>4, JoinedTwice
  <2> QED
    BY <1>1, <1>4, <2>1, <2>3, <2>5
<1>11. Gathered(operations, memories, more)
  BY <1>1, <1>4, <1>9, <1>10 DEF Gathered, units, prior
<1>12. ASSUME more.listed >= Len(units) \/ n = 0
       PROVE  Gathered(operations, memories, Turn(more, d + 1))
  <2>1. k + n = Len(units)
    BY <1>1, <1>2, <1>4, <1>5, <1>8, <1>9, <1>12
  <2>2. SubSeq(units, 1, Len(units)) = units
    BY <1>2, PartWhole
  <2>3. more.items = UnitsTo(memories, (d + 1) - 1)
    BY <1>7, <1>10, <2>1, <2>2
  <2> QED
    BY <1>4, <1>6, <2>3, TurnGathers
<1> QED
  BY <1>11, <1>12 DEF units, d

(* Steps of a host that leave the documents in hand as they are. *)
LEMMA QuietStep ==
  ASSUME WholeInv, ExtractionInv', UNCHANGED bank, UNCHANGED artifacts,
         NEW h \in ExtractionHosts, NEW st, Extracting(h, st), Gathered(operations, memories, st)
  PROVE  WholeInv'
<1>1. BankSound' /\ Undisturbed(operations, memories, operations', memories')
  BY BankRests DEF WholeInv
<1>2. Gathered(operations', memories', st)
  BY DEF bank
<1> QED
  BY <1>1, <1>2, GatheringStep

(* A run that fails is at rest. *)
LEMMA FailureGathers ==
  ASSUME WholeInv, ExtractionInv', UNCHANGED bank, UNCHANGED artifacts,
         NEW h \in ExtractionHosts, RunFails(h)
  PROVE  WholeInv'
BY QuietStep, RestGathers DEF RunFails

(* A put leaves the run it was of, or one at rest. *)
LEMMA PutGathers ==
  ASSUME WholeInv, ExtractionInv', UNCHANGED bank, UNCHANGED artifacts,
         NEW h \in ExtractionHosts, NEW st, NEW status, PutOrFail(h, st, status),
         Gathered(operations, memories, st)
  PROVE  WholeInv'
<1>1. Gathered(operations, memories, IF BindingHolds(st.bound) THEN st ELSE AtRest)
  BY RestGathers
<1>2. Extracting(h, IF BindingHolds(st.bound) THEN st ELSE AtRest)
  BY DEF PutOrFail
<1> QED
  BY <1>1, <1>2, QuietStep

(* The result of a run that has every document is complete. *)
LEMMA StoreGathers ==
  ASSUME WholeInv, ExtractionInv', NEW h \in ExtractionHosts, StoreArtifact(h)
  PROVE  WholeInv'
<1> DEFINE st == extracting[h]
           result == DistillationResult(st)
<1>1. /\ RunSound(artifacts, st) /\ st.phase = "store" /\ st.experience \in Experiences
      /\ SettledTo(operations, LastDocument) /\ st.items = UnitsTo(memories, LastDocument)
  BY DEF WholeInv, ExtractionInv, GatheredSound, Gathered, StoreArtifact, At, RunSound
<1>2. UNCHANGED bank
  BY DEF StoreArtifact
<1>3. CASE RunFails(h) /\ UNCHANGED artifacts
  BY <1>2, <1>3, FailureGathers
<1>4. CASE /\ Extracting(h, [st EXCEPT !.phase = "distilled", !.result = result])
           /\ UNCHANGED artifacts
  <2> DEFINE next == [st EXCEPT !.phase = "distilled", !.result = result]
  <2>1. next.phase = "distilled"
    BY <1>1 DEF RunSound, RunShape, RunFields
  <2>2. Extracting(h, next)
    BY <1>4
  <2> HIDE DEF next
  <2>3. Gathered(operations, memories, next)
    BY <2>1, OthersGather
  <2> QED
    BY <1>2, <1>4, <2>2, <2>3, QuietStep
<1>5. CASE /\ artifacts' = [artifacts EXCEPT ![st.experience] = result]
           /\ Extracting(h, Replay(st, result))
  <2>1. Replay(st, result).phase = "bind"
    BY <1>1 DEF RunSound, RunShape, RunFields, Replay
  <2>2. Gathered(operations, memories, Replay(st, result))
    BY <2>1, OthersGather
  <2>3. result.units = Filled(UnitsTo(memories, LastDocument))
    BY <1>1 DEF DistillationResult
  <2>4. Complete(operations, memories, result)
    BY <1>1, <2>3 DEF Complete
  <2> HIDE DEF result
  <2>5. \A e \in Experiences : artifacts'[e] = IF e = st.experience THEN result ELSE artifacts[e]
    BY <1>1, <1>5 DEF WholeInv, ExtractionInv
  <2>6. \A e \in Experiences : Complete(operations, memories, artifacts'[e])
    BY <2>4, <2>5 DEF WholeInv, GatheredSound
  <2>7. \A k \in ExtractionHosts : Gathered(operations, memories, extracting'[k])
    <3>1. \A k \in ExtractionHosts :
            extracting'[k] = IF k = h THEN Replay(st, result) ELSE extracting[k]
      BY <1>5 DEF Extracting, WholeInv, ExtractionInv
    <3> QED
      BY <2>2, <3>1 DEF WholeInv, GatheredSound
  <2>8. operations' = operations /\ memories' = memories
    BY <1>2 DEF bank
  <2>9. BankSound'
    BY <1>2, BankRests DEF WholeInv
  <2> QED
    BY <2>6, <2>7, <2>8, <2>9 DEF WholeInv, GatheredSound
<1> QED
  BY <1>3, <1>4, <1>5 DEF StoreArtifact

(* The steps of a host. *)
LEMMA HostGathers ==
  ASSUME WholeInv, ExtractionInv', NEW h \in ExtractionHosts, ExtractionStep(h)
  PROVE  WholeInv'
<1> DEFINE st == extracting[h]
<1>0. /\ RunShape(st) /\ RunSound(artifacts, st) /\ Gathered(operations, memories, st)
      /\ BankSound
  BY DEF WholeInv, ExtractionInv, RunSound, GatheredSound
<1>1. ASSUME NEW calling \in Callings, BeginRun(h, calling) PROVE WholeInv'
  <2> DEFINE next == [AtRest EXCEPT !.phase = "open", !.bound = binding,
                                    !.experience = calling[1], !.stored = calling[2]]
  <2>1. next.phase = "open" /\ next.items = << >>
    BY DEF AtRest
  <2>2. Extracting(h, next) /\ UNCHANGED bank /\ UNCHANGED artifacts
    BY <1>1 DEF BeginRun
  <2> HIDE DEF next
  <2>3. Gathered(operations, memories, next)
    BY <2>1 DEF Gathered
  <2> QED
    BY <2>2, <2>3, QuietStep
<1>2. CASE OpenReceipt(h)
  <2> DEFINE phase == IF st.puts = 0 THEN "open" ELSE "archive"
             next == [st EXCEPT !.puts = @ + 1, !.phase = phase]
  <2>1. phase \in {"open", "archive"} /\ st.phase = "open" /\ st.items = << >>
    BY <1>0, <1>2 DEF OpenReceipt, At, Gathered
  <2>2. PutOrFail(h, next, "open") /\ UNCHANGED bank /\ UNCHANGED artifacts
    BY <1>2 DEF OpenReceipt
  <2> HIDE DEF phase
  <2>3. next.phase = phase /\ next.items = << >>
    BY <1>0, <2>1 DEF RunShape, RunFields
  <2> HIDE DEF next
  <2>4. Gathered(operations, memories, next)
    BY <2>1, <2>3 DEF Gathered
  <2> QED
    BY <2>2, <2>4, PutGathers
<1>3. CASE Archive(h)
  <2>1. st.items = << >> /\ UNCHANGED bank /\ UNCHANGED artifacts
    BY <1>0, <1>3 DEF Archive, At, Gathered
  <2>2. CASE RunFails(h)
    BY <2>1, <2>2, FailureGathers
  <2>3. ASSUME NEW next, Extracting(h, next), next.phase = "archived", next.items = st.items
        PROVE  WholeInv'
    <3>1. Gathered(operations, memories, next)
      BY <2>1, <2>3 DEF Gathered
    <3> QED
      BY <2>1, <2>3, <3>1, QuietStep
  <2>4. /\ [st EXCEPT !.phase = "archived"].phase = "archived"
        /\ [st EXCEPT !.phase = "archived"].items = st.items
        /\ [st EXCEPT !.phase = "archived", !.experience = archiveFile].phase = "archived"
        /\ [st EXCEPT !.phase = "archived", !.experience = archiveFile].items = st.items
    BY <1>0 DEF RunShape, RunFields
  <2>5. \/ RunFails(h)
        \/ Extracting(h, [st EXCEPT !.phase = "archived"])
        \/ Extracting(h, [st EXCEPT !.phase = "archived", !.experience = archiveFile])
    BY <1>3 DEF Archive
  <2> QED
    BY <2>2, <2>3, <2>4, <2>5
<1>4. CASE PutArchived(h)
  <2> DEFINE next == [st EXCEPT !.phase = "artifact"]
  <2>1. next.phase = "artifact" /\ next.items = << >>
    BY <1>0, <1>4 DEF PutArchived, At, Gathered, RunShape, RunFields
  <2>2. PutOrFail(h, next, "open") /\ UNCHANGED bank /\ UNCHANGED artifacts
    BY <1>4 DEF PutArchived
  <2> HIDE DEF next
  <2>3. Gathered(operations, memories, next)
    BY <2>1 DEF Gathered
  <2> QED
    BY <2>2, <2>3, PutGathers
<1>5. CASE TakeArtifact(h)
  <2>1. st.items = << >> /\ UNCHANGED bank /\ UNCHANGED artifacts
    BY <1>0, <1>5 DEF TakeArtifact, At, Gathered
  <2>2. CASE RunFails(h)
    BY <2>1, <2>2, FailureGathers
  <2>3. CASE Extracting(h, Replay(st, artifacts[st.experience]))
    <3>1. Replay(st, artifacts[st.experience]).phase = "bind"
      BY <1>0 DEF RunShape, RunFields, Replay
    <3>2. Gathered(operations, memories, Replay(st, artifacts[st.experience]))
      BY <3>1, OthersGather
    <3> QED
      BY <2>1, <2>3, <3>2, QuietStep
  <2>4. CASE Extracting(h, Turn([st EXCEPT !.run = distills'], 1))
    <3> DEFINE asking == [st EXCEPT !.run = distills']
    <3>1. RunShape(asking) /\ asking.items = << >>
      BY <1>0, <2>1 DEF RunShape, RunFields
    <3> HIDE DEF asking
    <3>2. /\ 1 \in 1 .. LastDocument + 1 /\ SettledTo(operations, 1 - 1)
          /\ UnitsTo(memories, 1 - 1) = << >>
      <4>1. 1 - 1 = 0 /\ 1 .. 0 = {}
        OBVIOUS
      <4>2. 1 \in 1 .. LastDocument + 1
        BY DocumentsAreSequence
      <4> QED
        BY <4>1, <4>2, UnitsToNone DEF SettledTo
    <3>3. Gathered(operations, memories, Turn(asking, 1))
      BY <3>1, <3>2, TurnGathers
    <3>4. Extracting(h, Turn(asking, 1))
      BY <2>4 DEF asking
    <3> QED
      BY <2>1, <3>3, <3>4, QuietStep
  <2> QED
    BY <1>5, <2>2, <2>3, <2>4 DEF TakeArtifact
<1>6. CASE Preflight(h)
  <2> DEFINE status == operations[st.document].status
             phase == CASE status = "completed" -> "list"
                        [] status = "pending" -> "wait"
                        [] OTHER -> "retain"
             next == [st EXCEPT !.phase = phase]
  <2>1. st.phase = "preflight" /\ UNCHANGED bank /\ UNCHANGED artifacts /\ Extracting(h, next)
    BY <1>6 DEF Preflight, At
  <2>2. CASE status = "completed"
    BY <1>0, <2>1, <2>2, ListingBegins, QuietStep
  <2>3. CASE status # "completed"
    <3>1. phase \in {"wait", "retain"}
      BY <2>3
    <3> HIDE DEF phase
    <3>2. /\ next.phase = phase /\ next.document = st.document /\ next.listed = st.listed
          /\ next.items = st.items
      BY <1>0 DEF RunShape, RunFields
    <3> HIDE DEF next
    <3>3. Gathered(operations, memories, next)
      BY <1>0, <2>1, <3>1, <3>2 DEF Gathered
    <3> QED
      BY <2>1, <3>3, QuietStep
  <2> QED
    BY <2>2, <2>3
<1>7. CASE Retain(h)
  <2> DEFINE next == [st EXCEPT !.phase = "wait"]
  <2>1. /\ st.phase = "retain" /\ Accept(st.document) /\ UNCHANGED artifacts /\ Extracting(h, next)
        /\ st.document \in 1 .. LastDocument
    BY <1>0, <1>7 DEF Retain, At, Gathered
  <2>2. BankSound' /\ Undisturbed(operations, memories, operations', memories')
    BY <1>0, <2>1, AcceptKeeps
  <2>3. /\ next.phase = "wait" /\ next.document = st.document /\ next.listed = st.listed
        /\ next.items = st.items
    BY <1>0 DEF RunShape, RunFields
  <2> HIDE DEF next
  <2>4. Gathered(operations, memories, next)
    BY <1>0, <2>1, <2>3 DEF Gathered
  <2>5. Gathered(operations', memories', next)
    BY <2>2, <2>4, GatheredStays
  <2> QED
    BY <2>1, <2>2, <2>5, GatheringStep
<1>8. CASE RetainFails(h)
  <2>1. UNCHANGED artifacts /\ Extracting(h, AtRest) /\ st.document \in 1 .. LastDocument
    BY <1>0, <1>8 DEF RetainFails, RunFails, At, Gathered
  <2>2. Accept(st.document) \/ UNCHANGED bank
    BY <1>8 DEF RetainFails
  <2>3. BankSound' /\ Undisturbed(operations, memories, operations', memories')
    BY <1>0, <2>1, <2>2, AcceptKeeps, BankRests
  <2> QED
    BY <2>1, <2>3, RestGathers, GatheringStep
<1>9. CASE waitForAsyncRetain(h)
  <2>1. st.phase = "wait" /\ UNCHANGED bank /\ UNCHANGED artifacts
    BY <1>9 DEF waitForAsyncRetain, At
  <2>2. CASE RunFails(h)
    BY <2>1, <2>2, FailureGathers
  <2>3. CASE /\ operations[st.document].status = "completed"
             /\ Extracting(h, [st EXCEPT !.phase = "list"])
    BY <1>0, <2>1, <2>3, ListingBegins, QuietStep
  <2> QED
    BY <1>9, <2>2, <2>3 DEF waitForAsyncRetain
<1>10. CASE listDocumentMemories(h)
  <2> DEFINE left == Len(memories[st.document]) - st.listed
  <2>1. st.phase = "list" /\ UNCHANGED bank /\ UNCHANGED artifacts
    BY <1>10 DEF listDocumentMemories, At
  <2>2. CASE RunFails(h)
    BY <2>1, <2>2, FailureGathers
  <2>3. ASSUME NEW n \in Min({1, left}) .. Min({left, DISTILLATION_MEMORY_PAGE_SIZE}),
               LET more == [st EXCEPT !.items = @ \o SubSeq(memories[st.document],
                                                            st.listed + 1, st.listed + n),
                                      !.listed = @ + n]
               IN Extracting(h, IF more.listed >= Len(memories[st.document]) \/ n = 0
                                THEN Turn(more, st.document + 1) ELSE more)
        PROVE  WholeInv'
    <3> DEFINE more == [st EXCEPT !.items = @ \o SubSeq(memories[st.document],
                                                        st.listed + 1, st.listed + n),
                                  !.listed = @ + n]
               next == IF more.listed >= Len(memories[st.document]) \/ n = 0
                       THEN Turn(more, st.document + 1) ELSE more
    <3>1. /\ Gathered(operations, memories, more)
          /\ (more.listed >= Len(memories[st.document]) \/ n = 0) =>
               Gathered(operations, memories, Turn(more, st.document + 1))
      BY <1>0, <2>1, PageGathers
    <3>2. Extracting(h, next)
      BY <2>3
    <3>3. Gathered(operations, memories, next)
      <4> HIDE DEF more
      <4> QED
        BY <3>1
    <3> HIDE DEF next
    <3> QED
      BY <2>1, <3>2, <3>3, QuietStep
  <2> QED
    BY <1>10, <2>2, <2>3 DEF listDocumentMemories
<1>11. CASE StoreArtifact(h)
  BY <1>11, StoreGathers
<1>12. CASE BindReceipt(h)
  <2> DEFINE next == [st EXCEPT !.phase = "distilled"]
  <2>1. /\ PutOrFail(h, next, "open") /\ UNCHANGED bank /\ UNCHANGED artifacts
        /\ next.phase = "distilled"
    BY <1>0, <1>12 DEF BindReceipt, RunShape, RunFields
  <2> HIDE DEF next
  <2>2. Gathered(operations, memories, next)
    BY <2>1, OthersGather
  <2> QED
    BY <2>1, <2>2, PutGathers
<1>13. CASE PutDistilled(h)
  <2> DEFINE next == [st EXCEPT !.phase = "curate"]
  <2>1. /\ PutOrFail(h, next, "open") /\ UNCHANGED bank /\ UNCHANGED artifacts
        /\ next.phase = "curate"
    BY <1>0, <1>13 DEF PutDistilled, RunShape, RunFields
  <2> HIDE DEF next
  <2>2. Gathered(operations, memories, next)
    BY <2>1, OthersGather
  <2> QED
    BY <2>1, <2>2, PutGathers
<1>14. CASE CloseRun(h)
  BY <1>14, RestGathers, PutGathers DEF CloseRun
<1>15. CASE RunThrows(h)
  BY <1>15, FailureGathers DEF RunThrows
<1>16. CASE ExtractionDies(h)
  BY <1>16, RestGathers, QuietStep DEF ExtractionDies
<1> QED
  BY <1>1, <1>2, <1>3, <1>4, <1>5, <1>6, <1>7, <1>8, <1>9, <1>10, <1>11, <1>12, <1>13, <1>14,
     <1>15, <1>16 DEF ExtractionStep

(* Before the first run the bank has nothing and no run has listed. *)
LEMMA WholeInvInit == ExtractionInit => WholeInv
<1> SUFFICES ASSUME ExtractionInit PROVE WholeInv
  OBVIOUS
<1>1. DOMAIN Documents = 1 .. LastDocument
  BY DocumentsAreSequence
<1>2. Sequence(<< >>)
  <2>1. << >> \in Seq({})
    OBVIOUS
  <2> QED
    BY <2>1, SequenceOf
<1>3. BankSound
  BY <1>1, <1>2 DEF ExtractionInit, BankSound, NoOperation, OperationFields, Settled
<1>4. GatheredSound
  BY RestGathers DEF ExtractionInit, GatheredSound, Complete
<1> QED
  BY <1>3, <1>4, InitSound DEF WholeInv

(* Every step keeps the invariant. *)
LEMMA WholeInvStep == WholeInv /\ [ExtractionNext]_extractionVars => WholeInv'
<1> SUFFICES ASSUME WholeInv, [ExtractionNext]_extractionVars PROVE WholeInv'
  OBVIOUS
<1>1. ExtractionInv'
  BY NextSound DEF WholeInv
<1>2. ASSUME NEW h \in ExtractionHosts, ExtractionStep(h) PROVE WholeInv'
  BY <1>1, <1>2, HostGathers
<1>3. ASSUME BankSound', Undisturbed(operations, memories, operations', memories'),
             UNCHANGED <<extracting, artifacts>>
      PROVE  WholeInv'
  BY <1>1, <1>3, GatheredStays, CompleteStays DEF WholeInv, GatheredSound
<1>4. ASSUME NEW d \in DOMAIN Documents, ExtractFragment(d) PROVE WholeInv'
  <2>1. d \in 1 .. LastDocument /\ UNCHANGED <<extracting, artifacts>>
    BY <1>4, DocumentsAreSequence DEF ExtractFragment
  <2> QED
    BY <1>3, <1>4, <2>1, ExtractFragmentKeeps DEF WholeInv
<1>5. ASSUME NEW d \in DOMAIN Documents, EndOperation(d) PROVE WholeInv'
  <2>1. d \in 1 .. LastDocument /\ UNCHANGED <<extracting, artifacts>>
    BY <1>5, DocumentsAreSequence DEF EndOperation
  <2> QED
    BY <1>3, <1>5, <2>1, EndOperationKeeps DEF WholeInv
<1>6. CASE UNCHANGED extractionVars
  BY <1>3, <1>6, BankRests DEF extractionVars, WholeInv
<1> QED
  BY <1>2, <1>4, <1>5, <1>6 DEF ExtractionNext

(* Whatever the source, its chunking and the faults: every character of it *)
(* is in a document that is sent, and an artifact has everything the       *)
(* provider found in all of them, once and in order.                       *)
THEOREM ExtractionsAreWhole == ExtractionSpec => []ExtractionIsWhole
<1>1. WholeInv => ExtractionIsWhole
  <2> SUFFICES ASSUME WholeInv PROVE ExtractionIsWhole
    OBVIOUS
  <2>1. DOMAIN Documents = 1 .. LastDocument
    BY DocumentsAreSequence
  <2>2. ASSUME NEW e \in Experiences, artifacts[e] # NoArtifact
        PROVE  /\ \A d \in DOMAIN Documents :
                    operations[d].status = "completed"
                    /\ operations[d].done = Len(Documents[d].fragments)
               /\ artifacts[e].units =
                    SelectSeq(FlattenSeq([d \in DOMAIN Documents |-> memories[d]]),
                              LAMBDA u : ~u.blank)
    <3>1. /\ SettledTo(operations, LastDocument)
          /\ artifacts[e].units = Filled(UnitsTo(memories, LastDocument))
      BY <2>2 DEF WholeInv, GatheredSound, Complete
    <3>2. artifacts[e].units = Filled(FlattenSeq([d \in DOMAIN Documents |-> memories[d]]))
      BY <2>1, <3>1 DEF UnitsTo
    <3>3. artifacts[e].units =
            SelectSeq(FlattenSeq([d \in DOMAIN Documents |-> memories[d]]),
                      LAMBDA u : ~u.blank)
      BY <3>2 DEF Filled
    <3> QED
      BY <2>1, <3>1, <3>3 DEF SettledTo, Settled
  <2> QED
    BY <2>2, NothingIsUnread DEF ExtractionIsWhole
<1> QED
  BY <1>1, WholeInvInit, WholeInvStep, PTL DEF ExtractionSpec
=============================================================================

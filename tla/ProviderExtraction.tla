------------------------- MODULE ProviderExtraction -------------------------
(***************************************************************************)
(* The archive and provider stages of a distillation run on one source,    *)
(* which the module Distillation takes as single steps: the raw experience *)
(* is archived, HindsightMemoryAdapter.distill hands its projections to    *)
(* the provider document by document, waits for each asynchronous          *)
(* operation and lists what came of it page by page; the result becomes an *)
(* immutable artifact and the receipt is bound to it, so that a retry      *)
(* replays it instead of asking the provider again.  Several hosts may run *)
(* the source at once and die at any await.                                *)
(*                                                                         *)
(* Digests are taken as injective: an operation id stands for its document *)
(* and content, an artifact reference for the provider-visible experience, *)
(* a checksum for the result.  The text of the source does not change, as  *)
(* its segments are part of the receipt's key; what else the experience    *)
(* carries (times, metadata) may differ from call to call.  The provider   *)
(* is external: it is asked once for an operation id that is under way or  *)
(* completed, and a document's units are those of its last operation.      *)
(***************************************************************************)
EXTENDS Integers, SequencesExt, FiniteSetsExt

CONSTANTS
  ExtractionHosts, \* processes that distill
  Experiences,     \* provider-visible forms of the source
  Callings,        \* experiences a run may get, and whether with a store
  Segments,        \* actor and length of each segment of the source
  OtherSegments,   \* segments of other sources, for the chunking alone
  ProjectionMode,
  Chunking,        \* fullSourceChunking, or Unchunked
  HeaderSize,      \* length of a fragment's header
  PartLabel,       \* and of what it says of the part
  Yields,          \* what the provider may find in a fragment: texts or blanks
  DISTILLATION_MEMORY_PAGE_SIZE, DISTILLATION_MEMORY_MAX_UNITS,
  MaxDistills,     \* bound on calls of distill
  MaxExtractionFaults, \* bound on errors, timeouts and deaths
  Unchunked, NoExperience

ASSUME ExtractionAssumption ==
  /\ NoExperience \notin Experiences
  /\ Callings \subseteq Experiences \X BOOLEAN
  /\ \A segments \in OtherSegments \cup {Segments} :
       /\ segments \in Seq(ToSet(segments)) /\ segments # << >>
       /\ \A i \in DOMAIN segments : segments[i].size \in Nat
  /\ ProjectionMode \in {"full_plus_source_actor", "source_actor_only", "full_source_only"}
  /\ Chunking # Unchunked =>
       /\ Chunking.maxSegments \in Nat \ {0}
       /\ Chunking.maxChars \in Nat /\ Chunking.maxChars > HeaderSize + 40
  /\ HeaderSize \in Nat /\ PartLabel \in 1 .. 39
  /\ \A texts \in Yields : texts \in Seq(ToSet(texts))
  /\ DISTILLATION_MEMORY_PAGE_SIZE \in Nat \ {0}

VARIABLES
  archiveFile,  \* the experience the archived record was written with
  operations,   \* asynchronous retain operations, by document
  memories,     \* memory units the bank has of each document
  artifacts,    \* extraction artifacts, by experience
  binding,      \* providerExtractionRef and -Checksum of the receipt
  receiptState, \* "open", "awaiting_review" or "complete"
  extracting,   \* the run of each host
  curated,      \* what went on to curation, and the binding then
  distills, extractionFaults

bank == <<operations, memories>>
extractionVars == <<archiveFile, bank, artifacts, binding, receiptState, extracting, curated,
                    distills, extractionFaults>>

-----------------------------------------------------------------------------
(* The documents of the source.  A fragment is a slice of a segment; size  *)
(* is the length of its rendering.                                         *)

Slice(i, from, to, label) ==
  [segment |-> i, from |-> from, to |-> to, size |-> HeaderSize + label + 1 + to - from]

renderSegmentFragments(i, n) ==
  LET payload == Chunking.maxChars - HeaderSize - 40
      parts == (n + payload - 1) \div payload
  IN IF HeaderSize + 1 + n <= Chunking.maxChars THEN <<Slice(i, 0, n, 0)>>
     ELSE [k \in 1 .. parts |->
             Slice(i, (k - 1) * payload, Min({k * payload, n}), PartLabel)]

(* Length of fragments joined by two newlines. *)
Joined(fragments) == FoldLeft(LAMBDA n, f : n + f.size + 2, -2, fragments)

(* A fragment joins the last chunk if it fits, or starts another. *)
AddFragment(chunks, f) ==
  IF chunks # << >> /\ Joined(Append(Last(chunks), f)) <= Chunking.maxChars
                    /\ Len(Last(chunks)) < Chunking.maxSegments
  THEN Append(Front(chunks), Append(Last(chunks), f))
  ELSE Append(chunks, <<f>>)

fullSourceEvidenceChunks(segments) ==
  FoldLeft(AddFragment, << >>,
    FlattenSeq([i \in DOMAIN segments |-> renderSegmentFragments(i, segments[i].size)]))

Document(user, fragments) == [user |-> user, fragments |-> fragments]
WholeSegments == [i \in DOMAIN Segments |-> Slice(i, 0, Segments[i].size, 0)]

FullSource ==
  IF ProjectionMode = "source_actor_only" THEN << >>
  ELSE IF Chunking = Unchunked THEN <<Document(FALSE, WholeSegments)>>
  ELSE [k \in DOMAIN fullSourceEvidenceChunks(Segments) |->
          Document(FALSE, fullSourceEvidenceChunks(Segments)[k])]

userSegments ==
  SelectSeq(WholeSegments, LAMBDA s : Segments[s.segment].actor = "user" /\ s.to > 0)

UserProjection ==
  IF ProjectionMode = "full_source_only" \/ userSegments = << >> THEN << >>
  ELSE <<Document(TRUE, userSegments)>>

Documents == FullSource \o UserProjection

-----------------------------------------------------------------------------
(* A pending operation may be in process, a failed one cancelled. *)
NoOperation == [status |-> "not_found", take |-> 0, done |-> 0]

(* A result has the run that extracted it and the units; a receipt is      *)
(* bound to an artifact by its reference and its checksum.                 *)
NoArtifact == [run |-> 0, units |-> << >>]
Bound(e, result) == [ref |-> e, checksum |-> result]
Unbound == Bound(NoExperience, NoArtifact)

(* A run: bound is its copy of the receipt's binding, items are the        *)
(* documentMemories listed so far, the last listed of them of the document *)
(* in hand.                                                                *)
AtRest == [phase |-> "rest", stored |-> FALSE, puts |-> 0, bound |-> Unbound,
           experience |-> NoExperience, run |-> 0, document |-> 0, listed |-> 0,
           items |-> << >>, result |-> NoArtifact]

ExtractionInit ==
  /\ archiveFile = NoExperience
  /\ operations = [d \in DOMAIN Documents |-> NoOperation]
  /\ memories = [d \in DOMAIN Documents |-> << >>]
  /\ artifacts = [e \in Experiences |-> NoArtifact]
  /\ binding = Unbound /\ receiptState = "open"
  /\ extracting = [h \in ExtractionHosts |-> AtRest]
  /\ curated = {} /\ distills = 0 /\ extractionFaults = 0

Extracting(h, st) == extracting' = [extracting EXCEPT ![h] = st]
At(h, phase) == extracting[h].phase = phase
ExtractionFault ==
  extractionFaults < MaxExtractionFaults /\ extractionFaults' = extractionFaults + 1

(* Mutant: no trigger guards the binding. *)
BindingHoldsNot(bound) == TRUE

(* The trigger provider_extraction_immutable lets the put of a receipt go. *)
BindingHolds(bound) == binding = Unbound \/ bound = binding

(* receiptStore.put. *)
PutExtraction(bound, status) ==
  IF BindingHolds(bound)
  THEN /\ binding' = bound
       /\ receiptState' = IF receiptState = "complete" /\ status # "awaiting_review"
                          THEN "complete" ELSE status
  ELSE UNCHANGED <<binding, receiptState>>

(* The run throws and its handler puts the receipt as failed; when that is *)
(* refused too, the error is the caller's.                                 *)
RunFails(h) ==
  PutExtraction(extracting[h].bound, "open") /\ Extracting(h, AtRest)

(* A put of the run's receipt; refused, it ends the run. *)
PutOrFail(h, st, status) ==
  /\ PutExtraction(st.bound, status)
  /\ Extracting(h, IF BindingHolds(st.bound) THEN st ELSE AtRest)

(* getByIdempotencyKey: a closed receipt is returned as it is. *)
BeginRun(h, calling) ==
  /\ At(h, "rest") /\ receiptState = "open"
  /\ Extracting(h, [AtRest EXCEPT !.phase = "open", !.bound = binding,
                                  !.experience = calling[1], !.stored = calling[2]])
  /\ UNCHANGED <<archiveFile, bank, artifacts, binding, receiptState, curated, distills,
                 extractionFaults>>

(* The receipt is put as pending and as ingested, *)
OpenReceipt(h) ==
  LET st == extracting[h] IN
  /\ At(h, "open")
  /\ PutOrFail(h, [st EXCEPT !.puts = @ + 1,
                             !.phase = IF st.puts = 0 THEN "open" ELSE "archive"], "open")
  /\ UNCHANGED <<archiveFile, bank, artifacts, curated, distills, extractionFaults>>

(* the experience is archived: a temporary file is renamed.  When that     *)
(* fails and a record of the content is there, the run goes on with that.  *)
Archive(h) ==
  LET st == extracting[h] IN
  /\ At(h, "archive")
  /\ \/ /\ archiveFile' = st.experience
        /\ Extracting(h, [st EXCEPT !.phase = "archived"])
        /\ UNCHANGED <<binding, receiptState, extractionFaults>>
     \/ /\ ExtractionFault
        /\ IF archiveFile = NoExperience THEN RunFails(h)
           ELSE /\ Extracting(h, [st EXCEPT !.phase = "archived",
                                            !.experience = archiveFile])
                /\ UNCHANGED <<binding, receiptState>>
        /\ UNCHANGED archiveFile
  /\ UNCHANGED <<bank, artifacts, curated, distills>>

(* and the receipt is put as archived. *)
PutArchived(h) ==
  /\ At(h, "archived")
  /\ PutOrFail(h, [extracting[h] EXCEPT !.phase = "artifact"], "open")
  /\ UNCHANGED <<archiveFile, bank, artifacts, curated, distills, extractionFaults>>

-----------------------------------------------------------------------------
(* The provider stage. *)

(* The call that comes first for a document: the operation of the user     *)
(* projection is looked up before it is asked for.                         *)
Turn(st, d) ==
  [st EXCEPT !.document = d, !.listed = 0,
             !.phase = IF d > Len(Documents) THEN "store"
                       ELSE IF Documents[d].user THEN "preflight" ELSE "retain"]

(* The run goes on with a result and, from here on, a receipt that names   *)
(* the artifact.                                                           *)
Replay(st, result) ==
  [st EXCEPT !.phase = "bind", !.result = result,
             !.bound = Bound(st.experience, result)]

(* validateProviderResult: no unit comes twice. *)
validateProviderResult(units) ==
  \A i, j \in DOMAIN units : units[i].id = units[j].id => i = j

(* assertProviderExtractionArtifact: what the receipt names is of this     *)
(* experience, and as it was.                                              *)
Verified(st) == st.bound = Bound(st.experience, artifacts[st.experience])

(* A receipt that names an artifact is replayed from it or fails; any      *)
(* other takes the artifact of its experience, if there is one.            *)
TakeArtifact(h) ==
  LET st == extracting[h]
      artifact == artifacts[st.experience]
  IN
  /\ At(h, "artifact")
  /\ IF st.bound # Unbound /\ ~(st.stored /\ Verified(st))
     THEN RunFails(h) /\ UNCHANGED distills
     ELSE /\ IF st.stored /\ artifact # NoArtifact
             THEN Extracting(h, Replay(st, artifact)) /\ UNCHANGED distills
             ELSE /\ distills < MaxDistills /\ distills' = distills + 1
                  /\ Extracting(h, Turn([st EXCEPT !.run = distills'], 1))
          /\ UNCHANGED <<binding, receiptState>>
  /\ UNCHANGED <<archiveFile, bank, artifacts, curated, extractionFaults>>

(* getOperationStatus of the user projection. *)
Preflight(h) ==
  LET st == extracting[h]
      status == operations[st.document].status
  IN
  /\ At(h, "preflight")
  /\ Extracting(h, [st EXCEPT !.phase = CASE status = "completed" -> "list"
                                          [] status = "pending" -> "wait"
                                          [] OTHER -> "retain"])
  /\ UNCHANGED <<archiveFile, bank, artifacts, binding, receiptState, curated, distills,
                 extractionFaults>>

(* The bank takes an operation on: one that is under way or completed is   *)
(* not done again, one that ended otherwise starts the document afresh.    *)
Accept(d) ==
  IF operations[d].status \in {"pending", "completed"} THEN UNCHANGED bank
  ELSE /\ operations' = [operations EXCEPT ![d] =
            [status |-> "pending", take |-> @.take + 1, done |-> 0]]
       /\ memories' = [memories EXCEPT ![d] = << >>]

Retain(h) ==
  /\ At(h, "retain")
  /\ Accept(extracting[h].document)
  /\ Extracting(h, [extracting[h] EXCEPT !.phase = "wait"])
  /\ UNCHANGED <<archiveFile, artifacts, binding, receiptState, curated, distills,
                 extractionFaults>>

(* The request is refused, or its answer is lost or not what               *)
(* assertAsyncRetainAccepted wants.                                        *)
RetainFails(h) ==
  /\ At(h, "retain") /\ ExtractionFault
  /\ Accept(extracting[h].document) \/ UNCHANGED bank
  /\ RunFails(h)
  /\ UNCHANGED <<archiveFile, artifacts, curated, distills>>

(* Mutant: the wait ends at the deadline, whatever the status. *)
waitForAsyncRetainAtMost(h) ==
  /\ At(h, "wait")
  /\ Extracting(h, [extracting[h] EXCEPT !.phase = "list"])
  /\ UNCHANGED <<archiveFile, bank, artifacts, binding, receiptState, curated, distills,
                 extractionFaults>>

(* The operation is polled until it completed, ended otherwise, or the     *)
(* deadline has passed.                                                    *)
waitForAsyncRetain(h) ==
  LET status == operations[extracting[h].document].status IN
  /\ At(h, "wait")
  /\ \/ /\ status = "completed"
        /\ Extracting(h, [extracting[h] EXCEPT !.phase = "list"])
        /\ UNCHANGED <<binding, receiptState, extractionFaults>>
     \/ /\ status \in {"failed", "not_found"}
        /\ RunFails(h) /\ UNCHANGED extractionFaults
     \/ status = "pending" /\ ExtractionFault /\ RunFails(h)
  /\ UNCHANGED <<archiveFile, bank, artifacts, curated, distills>>

(* A page of the document's units: of the size asked for or shorter.       *)
listDocumentMemories(h) ==
  LET st == extracting[h]
      units == memories[st.document]
      left == Len(units) - st.listed
  IN
  /\ At(h, "list")
  /\ IF Len(units) > DISTILLATION_MEMORY_MAX_UNITS
     THEN RunFails(h)
     ELSE /\ \E n \in Min({1, left}) .. Min({left, DISTILLATION_MEMORY_PAGE_SIZE}) :
               LET page == SubSeq(units, st.listed + 1, st.listed + n)
                   more == [st EXCEPT !.items = @ \o page, !.listed = @ + n]
               IN Extracting(h, IF more.listed >= Len(units) \/ n = 0
                                THEN Turn(more, st.document + 1) ELSE more)
          /\ UNCHANGED <<binding, receiptState>>
  /\ UNCHANGED <<archiveFile, bank, artifacts, curated, distills, extractionFaults>>

(* What distill returns: blank units are left out. *)
Filled(units) == SelectSeq(units, LAMBDA u : ~u.blank)
DistillationResult(st) == [run |-> st.run, units |-> Filled(st.items)]

(* An artifact is never replaced, and a result of another run is not its.  *)
Collision(st) == artifacts[st.experience] # NoArtifact

(* artifactStore.put links a temporary file to the artifact's name. *)
StoreArtifact(h) ==
  LET st == extracting[h]
      result == DistillationResult(st)
  IN
  /\ At(h, "store")
  /\ IF ~validateProviderResult(result.units) \/ (st.stored /\ Collision(st))
     THEN RunFails(h) /\ UNCHANGED artifacts
     ELSE /\ IF st.stored
             THEN /\ artifacts' = [artifacts EXCEPT ![st.experience] = result]
                  /\ Extracting(h, Replay(st, result))
             ELSE /\ Extracting(h, [st EXCEPT !.phase = "distilled", !.result = result])
                  /\ UNCHANGED artifacts
          /\ UNCHANGED <<binding, receiptState>>
  /\ UNCHANGED <<archiveFile, bank, curated, distills, extractionFaults>>

(* The receipt is put with the reference and the checksum, *)
BindReceipt(h) ==
  /\ At(h, "bind")
  /\ PutOrFail(h, [extracting[h] EXCEPT !.phase = "distilled"], "open")
  /\ UNCHANGED <<archiveFile, bank, artifacts, curated, distills, extractionFaults>>

(* and put as distilled; then the units are curated. *)
PutDistilled(h) ==
  LET st == extracting[h] IN
  /\ At(h, "distilled")
  /\ PutOrFail(h, [st EXCEPT !.phase = "curate"], "open")
  /\ curated' = IF BindingHolds(st.bound)
                THEN curated \cup {[result |-> st.result, binding |-> binding']}
                ELSE curated
  /\ UNCHANGED <<archiveFile, bank, artifacts, distills, extractionFaults>>

(* The rest of the run closes the receipt. *)
CloseRun(h) ==
  /\ At(h, "curate")
  /\ \E status \in {"awaiting_review", "complete"} : PutOrFail(h, AtRest, status)
  /\ UNCHANGED <<archiveFile, bank, artifacts, curated, distills, extractionFaults>>

(* A later stage or a store throws, once the first put has gone through.   *)
RunThrows(h) ==
  /\ ~At(h, "rest") /\ extracting[h].puts > 0 /\ ExtractionFault
  /\ RunFails(h)
  /\ UNCHANGED <<archiveFile, bank, artifacts, curated, distills>>

ExtractionDies(h) ==
  /\ ~At(h, "rest") /\ ExtractionFault
  /\ Extracting(h, AtRest)
  /\ UNCHANGED <<archiveFile, bank, artifacts, binding, receiptState, curated, distills>>

-----------------------------------------------------------------------------
(* The provider at work on an operation. *)

ExtractFragment(d) ==
  LET op == operations[d] IN
  /\ op.status = "pending" /\ op.done < Len(Documents[d].fragments)
  /\ operations' = [operations EXCEPT ![d].done = @ + 1]
  /\ \E texts \in Yields :
       memories' = [memories EXCEPT ![d] = @ \o
         [k \in DOMAIN texts |-> [id |-> <<d, op.take, op.done, k>>,
                                  blank |-> texts[k] = "blank"]]]
  /\ UNCHANGED <<archiveFile, artifacts, binding, receiptState, extracting, curated, distills,
                 extractionFaults>>

EndOperation(d) ==
  /\ operations[d].status = "pending"
  /\ \/ /\ operations[d].done = Len(Documents[d].fragments)
        /\ operations' = [operations EXCEPT ![d].status = "completed"]
        /\ UNCHANGED extractionFaults
     \/ /\ operations' = [operations EXCEPT ![d].status = "failed"]
        /\ ExtractionFault
  /\ UNCHANGED <<archiveFile, memories, artifacts, binding, receiptState, extracting, curated,
                 distills>>

ExtractionStep(h) ==
  \/ \E calling \in Callings : BeginRun(h, calling)
  \/ OpenReceipt(h) \/ Archive(h) \/ PutArchived(h) \/ TakeArtifact(h)
  \/ Preflight(h) \/ Retain(h) \/ RetainFails(h) \/ waitForAsyncRetain(h)
  \/ listDocumentMemories(h) \/ StoreArtifact(h) \/ BindReceipt(h) \/ PutDistilled(h) \/ CloseRun(h)
  \/ RunThrows(h) \/ ExtractionDies(h)

ExtractionNext ==
  \/ \E h \in ExtractionHosts : ExtractionStep(h)
  \/ \E d \in DOMAIN Documents : ExtractFragment(d) \/ EndOperation(d)

ExtractionSpec == ExtractionInit /\ [][ExtractionNext]_extractionVars

-----------------------------------------------------------------------------
(* Type invariant. *)
ExtractionTypeOK ==
  /\ archiveFile \in Experiences \cup {NoExperience}
  /\ \A d \in DOMAIN Documents :
       operations[d].status \in {"not_found", "pending", "completed", "failed"}
  /\ binding # Unbound => binding.ref \in Experiences
  /\ receiptState \in {"open", "awaiting_review", "complete"}
  /\ distills \in 0 .. MaxDistills /\ extractionFaults \in 0 .. MaxExtractionFaults

(* A slice goes on in the segment of the one before, or begins the next. *)
Follows(segments, before, slice) ==
  \/ slice.segment = before.segment /\ slice.from = before.to
  \/ /\ before.to = segments[before.segment].size
     /\ slice.segment = before.segment + 1 /\ slice.from = 0

(* The chunks of a source tile its segments from the first character to    *)
(* the last, in order and within the bounds of the chunking.               *)
ChunksTile(segments) ==
  LET chunks == fullSourceEvidenceChunks(segments)
      slices == FlattenSeq(chunks)
  IN
  /\ slices # << >> /\ slices[1].segment = 1 /\ slices[1].from = 0
  /\ Last(slices).segment = Len(segments) /\ Last(slices).to = segments[Len(segments)].size
  /\ \A k \in 2 .. Len(slices) : Follows(segments, slices[k - 1], slices[k])
  /\ \A k \in DOMAIN slices : slices[k].from <= slices[k].to
  /\ \A k \in DOMAIN chunks :
       Joined(chunks[k]) <= Chunking.maxChars /\ Len(chunks[k]) <= Chunking.maxSegments
NothingUnread ==
  Chunking # Unchunked => \A segments \in OtherSegments \cup {Segments} : ChunksTile(segments)

(* Every character of a source is in a document it is sent in, and         *)
(* everything the provider found in them is in its artifact, once and in   *)
(* order, although operations fail, are taken over by other hosts and      *)
(* complete after their caller has given up, and lists come in pages.      *)
ExtractionIsWhole ==
  /\ NothingUnread
  /\ \A e \in Experiences : artifacts[e] # NoArtifact =>
       /\ \A d \in DOMAIN Documents :
            operations[d].status = "completed"
            /\ operations[d].done = Len(Documents[d].fragments)
       /\ artifacts[e].units =
            SelectSeq(FlattenSeq([d \in DOMAIN Documents |-> memories[d]]),
                      LAMBDA u : ~u.blank)

(* "retry must resolve and verify that exact artifact; any                 *)
(* identity/checksum drift fails closed": once a receipt names an artifact *)
(* it can be resolved and whatever goes on to curation is that artifact's  *)
(* result, although hosts run the source at once with other metadata or    *)
(* without a store, and die between the artifact and the receipt.          *)
OneExtraction ==
  /\ binding # Unbound => artifacts[binding.ref] = binding.checksum
  /\ \A c \in curated : c.binding # Unbound =>
       c.binding = binding /\ c.result = binding.checksum
=============================================================================

----------------------------- MODULE SourceSync -----------------------------
(***************************************************************************)
(* GenericIncrementalSourceSyncService over the checkpoint file: pollers   *)
(* baseline or scan mutable sources, act on what the source policy         *)
(* decides, and record a source version as processed only after that.      *)
(* Every await is a point where the source may change, a call may throw,   *)
(* the process may die or the machine may lose power.                      *)
(***************************************************************************)
EXTENDS CheckpointFile, FiniteSets

CONSTANTS
  UserText,     \* fingerprints of evidence with user-authored text
  IdleGated,    \* TRUE: the Codex policy, FALSE: the ChatGPT policy
  MaxVersion,   \* bound on the versions of each source
  MaxFaults     \* bound on errors, refused receipts, deaths and power losses

ASSUME BoundsAssumption ==
  /\ UserText \subseteq Prints /\ IdleGated \in BOOLEAN
  /\ MaxVersion \in [Sources -> Nat] /\ MaxFaults \in Nat
ASSUME NamesAssumption ==
  /\ None \notin Prints \cup Pollers \cup Checkpoints \cup {Stale}
  /\ Stale \notin Pollers

VARIABLES
  source,      \* each source: its evidence, its version key, still open
  run,         \* what each poller is doing
  faults,      \* faults so far
  ingested,    \* history: source versions with a terminal receipt
  referenced,  \* history: source versions settled, per mode
  claimed      \* history: fingerprints the store may answer, per source

vars == <<files, source, run, faults, ingested, referenced, claimed>>
history == <<ingested, referenced, claimed>>

Samples == [print : Prints, version : Nat, open : BOOLEAN]
Idle == [pc |-> "idle", mode |-> "distillation", kind |-> "poll", copy |-> Nothing,
         todo |-> {}, unit |-> None, sample |-> None, decision |-> "none", moved |-> FALSE]

Init ==
  /\ InitFiles
  /\ source \in [Sources -> {[print |-> f, version |-> 0, open |-> TRUE] : f \in Prints}]
  /\ run = [p \in Pollers |-> Idle]
  /\ faults = 0
  /\ ingested = {} /\ referenced = {}
  /\ claimed = [s \in Sources |-> {None}]

At(p, pc) == run[p].pc = pc
Goto(p, pc) == run' = [run EXCEPT ![p].pc = pc]
Fail(p) == run' = [run EXCEPT ![p].pc = "unlock", ![p].kind = "failed"]

-----------------------------------------------------------------------------
(* Taking the lock and loading *)

(* runOnce or baselineCurrent enters runExclusive. *)
Begin(p, mode, kind) ==
  /\ At(p, "idle")
  /\ TakeLock(p)
  /\ run' = [run EXCEPT ![p] = [Idle EXCEPT !.pc = "load", !.mode = mode, !.kind = kind]]
  /\ UNCHANGED <<source, faults, history>>

(* A caller of the store loads a checkpoint to save it back later. *)
BeginBorrow(p) ==
  /\ At(p, "idle") /\ snapshot # None
  /\ TakeLock(p)
  /\ run' = [run EXCEPT ![p] = [Idle EXCEPT !.pc = "load", !.kind = "borrow"]]
  /\ UNCHANGED <<source, faults, history>>

(* save outside a run: the checkpoint must be of the same identity and     *)
(* hold every fingerprint the store holds.                                 *)
Savable(p) ==
  snapshot = None \/ /\ snapshot.mode = run[p].mode
                     /\ \A s \in Sources : Progress[s] # None => Progress[s] = run[p].copy[s]

(* The caller's save takes the lock, ... *)
BeginSave(p) ==
  /\ At(p, "holding")
  /\ TakeLock(p)
  /\ Goto(p, "compare")
  /\ UNCHANGED <<source, faults, history>>

(* ... loads, and compares before it writes. *)
Compare(p) ==
  /\ At(p, "compare")
  /\ IF Unreadable(snapshot, journal.lines) \/ ~Savable(p) THEN Fail(p) ELSE Goto(p, "save")
  /\ RecoverTail
  /\ UNCHANGED <<lock, source, faults, history>>

(* assertCompatible; a baseline wants an empty store. *)
Compatible(p) ==
  CASE run[p].kind = "poll" -> snapshot = None \/ snapshot.mode = run[p].mode
    [] run[p].kind = "baseline" -> snapshot = None
    [] run[p].kind = "borrow" -> TRUE

(* loadUnlocked, after the tail of the journal has been recovered. *)
Load(p) ==
  /\ At(p, "load")
  /\ IF Unreadable(snapshot, journal.lines) \/ ~Compatible(p) THEN Fail(p)
     ELSE run' = [run EXCEPT ![p].copy = Progress,
                             ![p].mode = IF run[p].kind = "borrow" THEN snapshot.mode ELSE @,
                             ![p].pc = IF run[p].kind = "borrow" THEN "unlock" ELSE "scan",
                             ![p].todo = IF run[p].kind = "borrow" THEN {} ELSE Sources]
  /\ RecoverTail
  /\ UNCHANGED <<lock, source, faults, history>>

-----------------------------------------------------------------------------
(* One source of the scan *)

(* Mutant: a source is taken once and for all. *)
KnownAtAll(p, s) == run[p].kind = "poll" /\ run[p].copy[s] # None

(* The checkpoint holds the fingerprint just read. *)
Known(p, s) == run[p].kind = "poll" /\ run[p].copy[s] = source[s].print

(* A unit comes up and its fingerprint is read.  A poll skips what the     *)
(* checkpoint holds already; a baseline without a policy takes it as it is.*)
Consider(p) ==
  /\ At(p, "scan")
  /\ \E s \in run[p].todo :
       LET rest == run[p].todo \ {s}
           f == source[s].print
       IN IF run[p].kind = "baseline" /\ run[p].mode = "reference_only"
          THEN /\ run' = [run EXCEPT ![p].todo = rest, ![p].copy[s] = f]
               /\ referenced' = referenced \cup {<<run[p].mode, s, f, "observed">>}
          ELSE /\ run' = IF Known(p, s)
                         THEN [run EXCEPT ![p].todo = rest]
                         ELSE [run EXCEPT ![p].todo = rest, ![p].unit = s, ![p].pc = "read"]
               /\ UNCHANGED referenced
  /\ UNCHANGED <<files, source, faults, ingested, claimed>>

(* adapter.read and normalize: one sample of evidence and lifecycle. *)
Read(p) ==
  /\ At(p, "read")
  /\ run' = [run EXCEPT ![p].sample = source[run[p].unit], ![p].moved = FALSE,
                        ![p].pc = IF run[p].kind = "poll" THEN "verify" ELSE "decide"]
  /\ UNCHANGED <<files, source, faults, history>>

(* The fingerprint is read again and must be that of the sample. *)
Verify(p) ==
  /\ At(p, "verify")
  /\ IF source[run[p].unit].print # run[p].sample.print THEN Fail(p)
     ELSE run' = [run EXCEPT ![p].decision = IF run[p].mode = "reference_only"
                                             THEN "source_only" ELSE "none",
                             ![p].pc = IF run[p].mode = "reference_only" THEN "persist"
                                       ELSE "decide"]
  /\ UNCHANGED <<files, source, faults, history>>

(* Mutant: only the evidence is compared. *)
UnchangedPrint(p) == source[run[p].unit].print = run[p].sample.print

(* revalidateEligibilityState: a new sample has the evidence and the       *)
(* version key of the first.                                               *)
Unchanged(p) ==
  LET now == source[run[p].unit]
  IN now.print = run[p].sample.print /\ now.version = run[p].sample.version

(* decide of the Codex service: a journal whose last line is incomplete    *)
(* waits, one without user text is passed by, one not idle waits.          *)
DecideCodex(sample) ==
  (IF sample.open THEN {"defer"} ELSE {})
  \cup (IF sample.print \notin UserText THEN {"source_only"} ELSE {})
  \cup (IF ~sample.open /\ sample.print \in UserText THEN {"distill"} ELSE {})

(* decide of the ChatGPT service. *)
DecideChatGpt(sample) ==
  IF sample.open THEN {"defer"}
  ELSE IF sample.print \notin UserText THEN {"source_only"} ELSE {"distill"}

Decisions(sample) == IF IdleGated THEN DecideCodex(sample) ELSE DecideChatGpt(sample)

(* The first revalidation and the decision on its sample. *)
DecideUnit(p) ==
  /\ At(p, "decide")
  /\ \/ ~Unchanged(p) /\ Fail(p)
     \/ /\ Unchanged(p)
        /\ \E decision \in Decisions(source[run[p].unit]) :
             run' = [run EXCEPT ![p].sample = source[run[p].unit],
                                ![p].decision = decision,
                                ![p].pc = IF decision = "defer" THEN "scan" ELSE "final"]
  /\ UNCHANGED <<files, source, faults, history>>

(* The second revalidation; a baseline then takes the version as observed. *)
Revalidate(p) ==
  /\ At(p, "final")
  /\ IF ~Unchanged(p) THEN Fail(p) /\ UNCHANGED referenced
     ELSE IF run[p].kind = "baseline"
     THEN /\ run' = [run EXCEPT ![p].copy[run[p].unit] = run[p].sample.print, ![p].pc = "scan"]
          /\ referenced' = referenced \cup
               {<<run[p].mode, run[p].unit, run[p].sample.print, "observed">>}
     ELSE /\ Goto(p, IF run[p].decision = "distill" THEN "ingest" ELSE "persist")
          /\ UNCHANGED referenced
  /\ UNCHANGED <<files, source, faults, ingested, claimed>>

(* Mutant: any receipt lets the source advance. *)
IngestAnyReceipt(p) ==
  /\ At(p, "ingest")
  /\ \/ ingested' = ingested \cup {<<run[p].unit, run[p].sample.print>>} /\ UNCHANGED faults
     \/ UNCHANGED ingested /\ faults < MaxFaults /\ faults' = faults + 1
  /\ Goto(p, "persist")
  /\ UNCHANGED <<files, source, referenced, claimed>>

(* ingest answers with a receipt (external): terminal, or one that leaves  *)
(* the source for the next scan.                                           *)
Ingest(p) ==
  /\ At(p, "ingest")
  /\ \/ /\ ingested' = ingested \cup {<<run[p].unit, run[p].sample.print>>}
        /\ Goto(p, "persist")
        /\ UNCHANGED faults
     \/ /\ faults < MaxFaults /\ faults' = faults + 1
        /\ Goto(p, "scan")
        /\ UNCHANGED ingested
  /\ UNCHANGED <<files, source, referenced, claimed>>

(* persistBeforeCheckpoint, then the fingerprint is set in the checkpoint  *)
(* in memory.                                                              *)
Persist(p) ==
  /\ At(p, "persist")
  /\ referenced' = referenced \cup
       {<<run[p].mode, run[p].unit, run[p].sample.print, run[p].decision>>}
  /\ run' = [run EXCEPT ![p].copy[run[p].unit] = run[p].sample.print, ![p].pc = "append"]
  /\ UNCHANGED <<files, source, faults, ingested, claimed>>

-----------------------------------------------------------------------------
(* appendFingerprint *)

Delta(p) == [mode |-> run[p].mode, source |-> run[p].unit, print |-> run[p].sample.print]

(* The tail is recovered; without a snapshot an empty one is put in place. *)
AppendOpen(p) ==
  /\ At(p, "append")
  /\ RecoverTail
  /\ Goto(p, IF snapshot = None THEN "base" ELSE "line")
  /\ UNCHANGED <<lock, source, faults, history>>

BaseRename(p) ==
  /\ At(p, "base")
  /\ RenameSnapshot([mode |-> run[p].mode, prints |-> Nothing])
  /\ Goto(p, "base-sync")
  /\ UNCHANGED <<lock, source, faults, history>>

BaseSync(p) ==
  /\ At(p, "base-sync")
  /\ SyncDirectory
  /\ Goto(p, "line")
  /\ UNCHANGED <<lock, source, faults, history>>

LineBegin(p) ==
  /\ At(p, "line")
  /\ BeginLine
  /\ claimed' = [claimed EXCEPT ![run[p].unit] = @ \cup {run[p].sample.print}]
  /\ Goto(p, "line-end")
  /\ UNCHANGED <<lock, source, faults, ingested, referenced>>

LineEnd(p) ==
  /\ At(p, "line-end")
  /\ EndLine(Delta(p))
  /\ Goto(p, "line-sync")
  /\ UNCHANGED <<lock, source, faults, history>>

LineSync(p) ==
  /\ At(p, "line-sync")
  /\ SyncJournal
  /\ Goto(p, "dir-sync")
  /\ UNCHANGED <<lock, source, faults, history>>

(* The append returns: from here on the version counts as processed. *)
AppendDone(p) ==
  /\ At(p, "dir-sync")
  /\ SyncDirectory
  /\ claimed' = [claimed EXCEPT ![run[p].unit] = {run[p].sample.print}]
  /\ Goto(p, "scan")
  /\ UNCHANGED <<lock, source, faults, ingested, referenced>>

-----------------------------------------------------------------------------
(* save at the end of a scan, and the end of runExclusive *)

ScanDone(p) ==
  /\ At(p, "scan") /\ run[p].todo = {}
  /\ Goto(p, "save")
  /\ UNCHANGED <<files, source, faults, history>>

SaveRename(p) ==
  /\ At(p, "save")
  /\ RenameSnapshot([mode |-> run[p].mode, prints |-> run[p].copy])
  /\ claimed' = IF run[p].kind = "save" THEN claimed
                ELSE [s \in Sources |-> claimed[s] \cup {run[p].copy[s]}]
  /\ Goto(p, "save-sync")
  /\ UNCHANGED <<lock, source, faults, ingested, referenced>>

(* Mutant: the journal goes before the snapshot's entry is durable. *)
SaveSyncLate(p) ==
  /\ At(p, "save-sync")
  /\ Goto(p, "retire")
  /\ UNCHANGED <<files, source, faults, history>>

SaveSync(p) ==
  /\ At(p, "save-sync")
  /\ SyncDirectory
  /\ Goto(p, "retire")
  /\ UNCHANGED <<lock, source, faults, history>>

SaveRetire(p) ==
  /\ At(p, "retire")
  /\ RemoveJournal
  /\ Goto(p, "retire-sync")
  /\ UNCHANGED <<lock, source, faults, history>>

SaveDone(p) ==
  /\ At(p, "retire-sync")
  /\ SyncDirectory
  /\ claimed' = IF run[p].kind = "save" THEN claimed
                ELSE [s \in Sources |-> {run[p].copy[s]}]
  /\ Goto(p, "unlock")
  /\ UNCHANGED <<lock, source, faults, ingested, referenced>>

Unlock(p) ==
  /\ At(p, "unlock")
  /\ DropLock
  /\ run' = [run EXCEPT ![p] =
       IF run[p].kind = "borrow"
       THEN [run[p] EXCEPT !.pc = "holding", !.kind = "save"] ELSE Idle]
  /\ UNCHANGED <<source, faults, history>>

(* The operator removes a lock file left behind. *)
ClearLock ==
  /\ ClearStaleLock
  /\ UNCHANGED <<disk, source, run, faults, history>>

-----------------------------------------------------------------------------
(* The sources and the faults *)

Sampling == {"verify", "decide", "final"}
Running(p) == run[p].pc \notin {"idle", "holding"}

(* A source gets new evidence or a new lifecycle state (external). *)
Change(s) ==
  /\ source[s].version < MaxVersion[s]
  /\ \E f \in Prints, open \in BOOLEAN :
       source' = [source EXCEPT ![s] =
         [print |-> f, version |-> source[s].version + 1, open |-> open]]
  /\ run' = [p \in Pollers |-> IF run[p].unit = s /\ run[p].pc \in Sampling
                               THEN [run[p] EXCEPT !.moved = TRUE] ELSE run[p]]
  /\ UNCHANGED <<files, faults, history>>

(* Time passes and an untouched journal counts as idle (external). *)
FallIdle(s) ==
  /\ IdleGated /\ source[s].open
  /\ source' = [source EXCEPT ![s].open = FALSE]
  /\ UNCHANGED <<files, run, faults, history>>

(* A call the run awaits throws: runExclusive's finally follows. *)
Throw(p) ==
  /\ Running(p) /\ ~At(p, "unlock") /\ faults < MaxFaults
  /\ faults' = faults + 1
  /\ Fail(p)
  /\ UNCHANGED <<files, source, history>>

Die(p) ==
  /\ Running(p) /\ faults < MaxFaults
  /\ faults' = faults + 1
  /\ OrphanLock(p)
  /\ run' = [run EXCEPT ![p] = Idle]
  /\ UNCHANGED <<disk, source, history>>

PowerLoss ==
  /\ faults < MaxFaults
  /\ faults' = faults + 1
  /\ LosePower
  /\ run' = [p \in Pollers |-> Idle]
  /\ UNCHANGED <<source, history>>

Step(p) ==
  \/ Load(p) \/ Compare(p) \/ Consider(p) \/ Read(p) \/ Verify(p) \/ DecideUnit(p) \/ Revalidate(p)
  \/ Ingest(p) \/ Persist(p) \/ AppendOpen(p) \/ BaseRename(p) \/ BaseSync(p)
  \/ LineBegin(p) \/ LineEnd(p) \/ LineSync(p) \/ AppendDone(p)
  \/ ScanDone(p) \/ SaveRename(p) \/ SaveSync(p) \/ SaveRetire(p) \/ SaveDone(p)
  \/ Unlock(p)

BeginPoll(mode) == \E p \in Pollers : Begin(p, mode, "poll")

Next ==
  \/ \E p \in Pollers :
       \/ \E mode \in Modes, kind \in {"poll", "baseline"} : Begin(p, mode, kind)
       \/ BeginBorrow(p) \/ BeginSave(p)
       \/ Step(p) \/ Throw(p) \/ Die(p)
  \/ \E s \in Sources : Change(s) \/ FallIdle(s)
  \/ ClearLock \/ PowerLoss

Spec == Init /\ [][Next]_vars

(* Runs do not stop half way, each mode is polled again and again, a       *)
(* checkpoint held is saved back, and the operator deals with a lock file  *)
(* left behind.                                                            *)
FairSpec ==
  /\ Spec
  /\ \A p \in Pollers : WF_vars(Step(p)) /\ SF_vars(BeginSave(p))
  /\ \A mode \in Modes : SF_vars(BeginPoll(mode))
  /\ \A s \in Sources : WF_vars(FallIdle(s))
  /\ WF_vars(ClearLock)

-----------------------------------------------------------------------------
(* Properties *)

TypeOK ==
  /\ FilesTypeOK
  /\ source \in [Sources -> Samples]
  /\ \A p \in Pollers : run[p].copy \in Fingerprints /\ run[p].todo \subseteq Sources
  /\ faults \in 0 .. MaxFaults
  /\ \A s \in Sources : claimed[s] \subseteq Prints \cup {None}

(* Progress that appendFingerprint or save has acknowledged is neither     *)
(* lost nor set back by a crash, a power loss, the retirement of the       *)
(* journal or a save of an old copy: whatever is left of snapshot and      *)
(* journal, load reads it and answers the last acknowledged fingerprint or *)
(* one that was being written after it.                                    *)
ProgressKept ==
  /\ ~Unreadable(snapshot, journal.lines)
  /\ \A s \in Sources : Progress[s] \in claimed[s]

(* A version the checkpoint holds was brought to a safe end first, in the  *)
(* mode the checkpoint is of: seen by a baseline, its reference persisted, *)
(* and distilled with a terminal receipt if that is what was decided.      *)
CheckpointIsSettled ==
  \A s \in Sources : Progress[s] # None =>
    \E how \in {"observed", "source_only", "distill"} :
      /\ <<snapshot.mode, s, Progress[s], how>> \in referenced
      /\ how = "distill" => <<s, Progress[s]>> \in ingested

(* Nothing is distilled, settled or baselined on a decision the source has *)
(* outrun: between the first sample and the last one it did not change,    *)
(* and what is distilled was closed.                                       *)
ActsUndisturbed ==
  [][\A s \in Sources, f \in Prints, how \in {"observed", "source_only", "distill"} :
       <<"distillation", s, f, how>> \in referenced' \ referenced
       => \E p \in Pollers :
            /\ run[p].unit = s /\ run[p].sample.print = f
            /\ ~run[p].moved
            /\ run[p].decision = "distill" => ~run[p].sample.open]_vars

(* A source that has come to rest is processed in the end: deferring it    *)
(* does not bury it, and no fault leaves it behind.                        *)
CatchesUp ==
  \A s \in Sources : <>[](~source[s].open => Progress[s] = source[s].print)
=============================================================================

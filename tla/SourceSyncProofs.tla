------------------------- MODULE SourceSyncProofs --------------------------
(***************************************************************************)
(* The checkpoint of the incremental source sync: what was acknowledged    *)
(* survives every crash and power loss, and nothing is in it that was not  *)
(* brought to a safe end, for every number of sources, pollers, versions   *)
(* and faults.                                                             *)
(***************************************************************************)
EXTENDS SourceSync, SequenceTheorems, TLAPS

(* The lines a power loss may leave in the journal. *)
LinesLeft ==
  {SubSeq(journal.lines, 1, k) : k \in journal.synced .. Len(journal.lines)}
  \cup (IF journalKept.same THEN {} ELSE {journalKept.lines})

(* What load answers from a snapshot and the lines of a journal. *)
LoadAnswer(snap, lines) == IF snap = None THEN Nothing ELSE Replay(snap.prints, lines)

(* A source version was brought to a safe end in a mode. *)
SettledIn(mode, s, f) ==
  \E how \in {"observed", "source_only", "distill"} :
    /\ <<mode, s, f, how>> \in referenced
    /\ how = "distill" => <<s, f>> \in ingested

(* A source that has lines has a last one. *)
HasLast(lines) ==
  \A s \in Sources : (\E i \in 1 .. Len(lines) : lines[i].source = s) =>
    \E i \in 1 .. Len(lines) :
      /\ lines[i].source = s
      /\ \A j \in 1 .. Len(lines) : lines[j].source = s => j <= i

(* A snapshot and a journal that may be left together are readable, answer *)
(* nothing that was not claimed, and hold settled versions only.           *)
Fine(snap, lines) ==
  /\ ~Unreadable(snap, lines)
  /\ HasLast(lines)
  /\ \A s \in Sources :
       /\ LoadAnswer(snap, lines)[s] \in claimed[s]
       /\ LoadAnswer(snap, lines)[s] # None =>
            SettledIn(snap.mode, s, LoadAnswer(snap, lines)[s])

(* Every combination a power loss may leave is fine, the files as they are *)
(* seen among them.                                                        *)
DiskFine == \A snap \in {snapshot, snapshotKept}, lines \in LinesLeft : Fine(snap, lines)

(* Only the creator of the lock file runs. *)
LockHeld == \A p \in Pollers : Running(p) <=> lock = p

(* No directory entry waits for its synchronisation. *)
Clean == snapshotKept = snapshot /\ journalKept = Same

Scanning == {"scan", "read", "verify", "decide", "final", "ingest", "persist"}
Appending == {"append", "base", "base-sync", "line", "line-end", "line-sync", "dir-sync"}
Saving == {"save", "save-sync", "retire", "retire-sync"}
Points == {"idle", "holding", "load", "compare", "unlock"} \cup Scanning \cup Appending \cup Saving

(* What a poller knows of the files at each point of its run r. *)
FilesAt(r) ==
  /\ r.pc \in {"load", "compare", "append", "base", "line", "save", "retire"} \cup Scanning => Clean
  /\ r.pc \in Scanning \cup {"append", "base", "save"} => snapshot = None \/ snapshot.mode = r.mode
  /\ r.pc = "base" => snapshot = None
  /\ r.pc = "base-sync" => snapshot = [mode |-> r.mode, prints |-> Nothing]
  /\ r.pc \in {"base", "base-sync", "line"} => ~journal.torn
  /\ r.pc \in {"line", "line-end", "line-sync", "dir-sync"} =>
       snapshot # None /\ snapshot.mode = r.mode /\ snapshotKept = snapshot
  /\ r.pc \in {"line-end", "line-sync", "dir-sync"} => r.sample.print \in claimed[r.unit]
  /\ r.pc = "line-end" => journal.there
  /\ r.pc \in {"line-sync", "dir-sync"} =>
       /\ journal.lines # << >>
       /\ journal.lines[Len(journal.lines)] =
            [mode |-> r.mode, source |-> r.unit, print |-> r.sample.print]
  /\ r.pc = "dir-sync" => journal.synced = Len(journal.lines)
  /\ r.pc \in {"save-sync", "retire", "retire-sync"} =>
       /\ snapshot = [mode |-> r.mode, prints |-> r.copy]
       /\ \A s \in Sources : r.copy[s] \in claimed[s]
  /\ r.pc = "save-sync" => journalKept = Same
  /\ r.pc = "retire-sync" =>
       snapshotKept = snapshot /\ journal.lines = << >> /\ journal.synced = 0

(* What it holds in memory: settled versions; all the store holds, once it *)
(* has loaded; and, for a caller that means to save it back, no source the *)
(* store does not hold.                                                    *)
CopyAt(r) ==
  /\ \A s \in Sources : r.copy[s] # None => SettledIn(r.mode, s, r.copy[s])
  /\ r.pc \in Scanning \cup Appending \cup Saving =>
       \A s \in Sources : Progress[s] # None => r.copy[s] # None
  /\ r.kind \in {"borrow", "save"} =>
       snapshot # None /\ \A s \in Sources : r.copy[s] # None => Progress[s] # None
  /\ r.kind = "save" /\ r.pc = "save" => \A s \in Sources : r.copy[s] = Progress[s]
  /\ r.pc = "load" => r.kind \in {"poll", "baseline", "borrow"}
  /\ r.pc \in Scanning \cup Appending => r.kind \in {"poll", "baseline"}

(* The unit in work, its sample and the decision on it. *)
UnitAt(r) ==
  /\ r.pc \in (Scanning \ {"scan"}) \cup Appending => r.unit \in Sources
  /\ r.pc \in (Scanning \ {"scan", "read"}) \cup Appending => r.sample \in Samples
  /\ r.pc \in {"final", "ingest", "persist"} => r.decision \in {"source_only", "distill"}
  /\ r.pc = "persist" /\ r.decision = "distill" => <<r.unit, r.sample.print>> \in ingested
  /\ r.pc \in Appending =>
       SettledIn(r.mode, r.unit, r.sample.print) /\ r.copy[r.unit] = r.sample.print
  /\ r.pc \in Sampling =>
       /\ r.sample.version <= source[r.unit].version
       /\ r.moved => r.sample.version < source[r.unit].version
  /\ r.pc \in {"ingest", "persist"} /\ r.mode = "distillation" => ~r.moved
  /\ r.pc \in {"final", "ingest", "persist"} /\ r.decision = "distill" => ~r.sample.open

Sound(r) == FilesAt(r) /\ CopyAt(r) /\ UnitAt(r)

Runs ==
  [pc : Points, mode : Modes, kind : {"poll", "baseline", "borrow", "save", "failed"},
   copy : Fingerprints, todo : SUBSET Sources, unit : Sources \cup {None},
   sample : Samples \cup {None}, decision : {"none", "source_only", "distill", "defer"},
   moved : BOOLEAN]

Journals == [there : BOOLEAN, lines : Seq(Deltas), synced : Nat, torn : BOOLEAN]
KeptJournals == [same : BOOLEAN, there : BOOLEAN, lines : Seq(Deltas)]

FilesType ==
  /\ snapshot \in Checkpoints \cup {None} /\ snapshotKept \in Checkpoints \cup {None}
  /\ journal \in Journals /\ journal.synced <= Len(journal.lines)
  /\ journalKept \in KeptJournals
  /\ journal.there \/ journal.lines = << >>
  /\ journalKept.there \/ journalKept.lines = << >>
  /\ lock \in Pollers \cup {None, Stale}

RunType ==
  /\ source \in [Sources -> Samples]
  /\ run \in [Pollers -> Runs]
  /\ faults \in 0 .. MaxFaults
  /\ claimed \in [Sources -> SUBSET (Prints \cup {None})]

(* The inductive invariant. *)
SyncInv ==
  /\ FilesType /\ RunType /\ LockHeld /\ DiskFine
  /\ \A p \in Pollers : Sound(run[p])

-----------------------------------------------------------------------------
(* A source without lines keeps what the snapshot says. *)
LEMMA ReplayNone ==
  ASSUME NEW prints, NEW lines, NEW s \in Sources,
         \A i \in 1 .. Len(lines) : lines[i].source # s
  PROVE  Replay(prints, lines)[s] = prints[s]
BY DEF Replay

(* The last line of a source decides. *)
LEMMA ReplayLast ==
  ASSUME NEW prints, NEW lines \in Seq(Deltas), NEW s \in Sources,
         NEW i \in 1 .. Len(lines), lines[i].source = s,
         \A j \in 1 .. Len(lines) : lines[j].source = s => j <= i
  PROVE  Replay(prints, lines)[s] = lines[i].print
<1>1. PICK mine : mine = {j \in 1 .. Len(lines) : lines[j].source = s}
  OBVIOUS
<1>2. \A j \in mine : j \in Int /\ j <= i
  BY <1>1
<1>3. i \in mine /\ i \in Int
  BY <1>1
<1>4. (CHOOSE n \in mine : \A j \in mine : j <= n) = i
  <2>1. \A n \in mine : (\A j \in mine : j <= n) => n = i
    BY <1>2, <1>3
  <2> QED
    BY <1>2, <1>3, <2>1
<1> QED
  BY <1>1, <1>3, <1>4 DEF Replay

(* An empty journal leaves the snapshot as it is. *)
LEMMA ReplayEmpty ==
  ASSUME NEW prints, NEW s \in Sources
  PROVE  Replay(prints, << >>)[s] = prints[s]
BY ReplayNone

(* An appended line decides for its source and for no other. *)
LEMMA ReplayAppend ==
  ASSUME NEW prints, NEW lines \in Seq(Deltas), HasLast(lines), NEW d \in Deltas
  PROVE  /\ HasLast(Append(lines, d))
         /\ \A s \in Sources :
              Replay(prints, Append(lines, d))[s] =
                IF s = d.source THEN d.print ELSE Replay(prints, lines)[s]
<1>1. PICK more : more = Append(lines, d)
  OBVIOUS
<1>2. /\ more \in Seq(Deltas) /\ Len(more) = Len(lines) + 1 /\ Len(lines) \in Nat
      /\ more[Len(lines) + 1] = d
      /\ \A i \in 1 .. Len(lines) : more[i] = lines[i]
  BY <1>1
<1>3. ASSUME NEW s \in Sources, s = d.source
      PROVE  /\ Replay(prints, more)[s] = d.print
             /\ \E i \in 1 .. Len(more) : /\ more[i].source = s
                  /\ \A j \in 1 .. Len(more) : more[j].source = s => j <= i
  <2>1. Len(more) \in 1 .. Len(more) /\ more[Len(more)] = d
    BY <1>2
  <2>2. \A j \in 1 .. Len(more) : more[j].source = s => j <= Len(more)
    BY <1>2
  <2> QED
    BY <1>2, <1>3, <2>1, <2>2, ReplayLast
<1>4. ASSUME NEW s \in Sources, s # d.source, \A i \in 1 .. Len(lines) : lines[i].source # s
      PROVE  /\ Replay(prints, more)[s] = Replay(prints, lines)[s]
             /\ ~\E i \in 1 .. Len(more) : more[i].source = s
  <2>1. \A i \in 1 .. Len(more) : more[i].source # s
    BY <1>2, <1>4
  <2> QED
    BY <1>4, <2>1, ReplayNone
<1>5. ASSUME NEW s \in Sources, s # d.source, \E i \in 1 .. Len(lines) : lines[i].source = s
      PROVE  /\ Replay(prints, more)[s] = Replay(prints, lines)[s]
             /\ \E i \in 1 .. Len(more) : /\ more[i].source = s
                  /\ \A j \in 1 .. Len(more) : more[j].source = s => j <= i
  <2>1. PICK i \in 1 .. Len(lines) : /\ lines[i].source = s
          /\ \A j \in 1 .. Len(lines) : lines[j].source = s => j <= i
    BY <1>5 DEF HasLast
  <2>2. /\ i \in 1 .. Len(more) /\ more[i] = lines[i]
        /\ \A j \in 1 .. Len(more) : more[j].source = s => j <= i
    BY <1>2, <1>5, <2>1
  <2> QED
    BY <1>2, <2>1, <2>2, ReplayLast
<1>6. \A s \in Sources : Replay(prints, more)[s] =
        IF s = d.source THEN d.print ELSE Replay(prints, lines)[s]
  BY <1>3, <1>4, <1>5
<1>7. HasLast(more)
  BY <1>3, <1>4, <1>5 DEF HasLast
<1> QED
  BY <1>1, <1>6, <1>7

(* Over another snapshot a journal answers the same for the sources it     *)
(* names, and the other snapshot for the rest.                             *)
LEMMA ReplayOver ==
  ASSUME NEW prints, NEW other, NEW lines, NEW s \in Sources
  PROVE  Replay(other, lines)[s] = Replay(prints, lines)[s] \/ Replay(other, lines)[s] = other[s]
BY DEF Replay


-----------------------------------------------------------------------------
(* What may be left are journals, and the one seen is among them. *)
LEMMA LinesLeftType ==
  ASSUME FilesType
  PROVE  /\ \A lines \in LinesLeft : lines \in Seq(Deltas)
         /\ journal.lines \in LinesLeft
         /\ journal.lines \in Seq(Deltas) /\ Len(journal.lines) \in Nat
         /\ journal.synced \in Nat /\ journal.synced <= Len(journal.lines)
<1>1. /\ journal.lines \in Seq(Deltas) /\ Len(journal.lines) \in Nat
      /\ journal.synced \in Nat /\ journal.synced <= Len(journal.lines)
      /\ journalKept.lines \in Seq(Deltas)
  BY DEF FilesType, Journals, KeptJournals
<1>2. \A k \in journal.synced .. Len(journal.lines) : SubSeq(journal.lines, 1, k) \in Seq(Deltas)
  BY <1>1
<1>3. SubSeq(journal.lines, 1, Len(journal.lines)) = journal.lines
  BY <1>1, SubSeqFull
<1>4. Len(journal.lines) \in journal.synced .. Len(journal.lines)
  BY <1>1
<1> QED
  BY <1>1, <1>2, <1>3, <1>4 DEF LinesLeft

(* The files as they are seen are fine. *)
LEMMA SeenIsFine ==
  ASSUME SyncInv
  PROVE  Fine(snapshot, journal.lines) /\ Progress = LoadAnswer(snapshot, journal.lines)
BY LinesLeftType DEF SyncInv, DiskFine, Progress, LoadAnswer

(* Progress is a fingerprint or nothing for each source. *)
LEMMA ProgressType ==
  ASSUME SyncInv
  PROVE  Progress \in Fingerprints
<1>1. \A s \in Sources : Progress[s] \in Prints \cup {None}
  BY SeenIsFine DEF Fine, SyncInv, RunType
<1>2. CASE snapshot = None
  BY <1>2 DEF Progress, Nothing, Fingerprints
<1>3. CASE snapshot # None
  <2>1. PICK f : f = Replay(snapshot.prints, journal.lines)
    OBVIOUS
  <2>2. f = [s \in Sources |-> f[s]]
    BY <2>1 DEF Replay
  <2>3. Progress = f
    BY <1>3, <2>1 DEF Progress
  <2> QED
    BY <1>1, <2>2, <2>3 DEF Fingerprints
<1> QED
  BY <1>2, <1>3

(* The history of settled versions only grows, so that what was settled    *)
(* stays so.                                                               *)
SettledGrows == referenced \subseteq referenced' /\ ingested \subseteq ingested'

(* What was settled stays so. *)
LEMMA SettledStays ==
  ASSUME SettledGrows
  PROVE  \A mode, s, f : SettledIn(mode, s, f) => SettledIn(mode, s, f)'
BY DEF SettledGrows, SettledIn

(* What was fine stays so while claims are added. *)
LEMMA FineStays ==
  ASSUME SettledGrows, \A s \in Sources : claimed[s] \subseteq claimed'[s],
         NEW snap, NEW lines, Fine(snap, lines)
  PROVE  Fine(snap, lines)'
BY SettledStays DEF Fine, LoadAnswer, Replay, HasLast, Unreadable, Nothing

(* Fewer combinations that may be left are still fine. *)
LEMMA DiskShrinks ==
  ASSUME DiskFine, SettledGrows, \A s \in Sources : claimed[s] \subseteq claimed'[s],
         {snapshot', snapshotKept'} \subseteq {snapshot, snapshotKept},
         LinesLeft' \subseteq LinesLeft
  PROVE  DiskFine'
<1> SUFFICES ASSUME NEW snap \in {snapshot', snapshotKept'}, NEW lines \in LinesLeft'
             PROVE  Fine(snap, lines)'
  BY DEF DiskFine
<1>1. Fine(snap, lines)
  BY DEF DiskFine
<1> QED
  BY <1>1, FineStays

(* A poller that does not run knows nothing of the files but that the      *)
(* store still holds its sources.                                          *)
LEMMA OthersKeep ==
  ASSUME SyncInv, NEW q \in Pollers, ~Running(q), run'[q] = run[q], SettledGrows,
         snapshot # None => snapshot' # None,
         \A s \in Sources : Progress[s] # None => Progress'[s] # None
  PROVE  Sound(run[q])'
<1>1. run[q].pc \in {"idle", "holding"} /\ Sound(run[q])
  BY DEF Running, SyncInv
<1>2. FilesAt(run[q])'
  BY <1>1 DEF FilesAt, Scanning
<1>3. UnitAt(run[q])'
  BY <1>1 DEF UnitAt, Scanning, Appending, Sampling
<1>4. CopyAt(run[q])'
  BY <1>1, SettledStays DEF Sound, CopyAt, Scanning, Appending, Saving
<1> QED
  BY <1>2, <1>3, <1>4 DEF Sound

(* A step of the poller that runs, to its state r. *)
LEMMA HolderStep ==
  ASSUME SyncInv, NEW p \in Pollers, Running(p), NEW r \in Runs,
         r.pc \notin {"idle", "holding"}, run' = [run EXCEPT ![p] = r],
         UNCHANGED <<lock, source>>, faults' \in 0 .. MaxFaults,
         claimed' \in [Sources -> SUBSET (Prints \cup {None})],
         FilesType', SettledGrows, snapshot # None => snapshot' # None,
         \A s \in Sources : Progress[s] # None => Progress'[s] # None,
         DiskFine', Sound(run[p])'
  PROVE  SyncInv'
<1>1. run \in [Pollers -> Runs] /\ run'[p] = r
  BY DEF SyncInv, RunType
<1>2. RunType'
  BY <1>1 DEF SyncInv, RunType
<1>3. \A q \in Pollers \ {p} : run'[q] = run[q] /\ ~Running(q)
  BY <1>1 DEF SyncInv, LockHeld
<1>4. LockHeld'
  BY <1>1, <1>3 DEF SyncInv, LockHeld, Running
<1>5. \A q \in Pollers : Sound(run[q])'
  BY <1>3, OthersKeep
<1> QED
  BY <1>2, <1>4, <1>5 DEF SyncInv

(* The sound states of a run stay so when nothing but it changes. *)
LEMMA SoundStays ==
  ASSUME NEW r, Sound(r), UNCHANGED <<snapshot, snapshotKept, journal, journalKept, source,
                                      ingested, referenced, claimed>>
  PROVE  Sound(r)'
<1>1. Progress' = Progress /\ Clean' = Clean
  BY DEF Progress, Replay, Nothing, Clean, Same
<1>2. \A mode, s, f : SettledIn(mode, s, f)' = SettledIn(mode, s, f)
  BY DEF SettledIn
<1>3. FilesAt(r)'
  BY <1>1 DEF Sound, FilesAt, Nothing, Same
<1>4. CopyAt(r)'
  BY <1>1, <1>2 DEF Sound, CopyAt
<1>5. UnitAt(r)'
  BY <1>2 DEF Sound, UnitAt
<1> QED
  BY <1>3, <1>4, <1>5 DEF Sound

(* A step that touches no file and adds nothing to the history. *)
LEMMA QuietStep ==
  ASSUME SyncInv, NEW p \in Pollers, Running(p), NEW r \in Runs,
         r.pc \notin {"idle", "holding"}, run' = [run EXCEPT ![p] = r],
         UNCHANGED <<files, source, history>>, faults' \in 0 .. MaxFaults, Sound(r)
  PROVE  SyncInv'
<1>1. /\ UNCHANGED <<snapshot, snapshotKept, journal, journalKept, lock>>
      /\ UNCHANGED <<ingested, referenced, claimed>>
  BY DEF files, history
<1>2. run'[p] = r
  BY DEF SyncInv, RunType
<1>3. FilesType' /\ claimed' \in [Sources -> SUBSET (Prints \cup {None})]
  BY <1>1 DEF SyncInv, FilesType, RunType
<1>4. SettledGrows /\ Progress' = Progress /\ LinesLeft' = LinesLeft
  BY <1>1 DEF SettledGrows, Progress, Replay, Nothing, LinesLeft
<1>5. DiskFine'
  BY <1>1, <1>4, DiskShrinks DEF SyncInv
<1>6. Sound(run[p])'
  BY <1>1, <1>2, SoundStays
<1> QED
  BY <1>1, <1>3, <1>4, <1>5, <1>6, HolderStep


-----------------------------------------------------------------------------
(* A run that breaks off keeps its copy and goes to its finally. *)
LEMMA FailStep ==
  ASSUME SyncInv, NEW p \in Pollers, Running(p), Fail(p),
         UNCHANGED <<files, source, history>>, faults' \in 0 .. MaxFaults
  PROVE  SyncInv'
<1>1. run[p] \in Runs /\ Sound(run[p])
  BY DEF SyncInv, RunType
<1>2. PICK r : r = [run[p] EXCEPT !.pc = "unlock", !.kind = "failed"]
  OBVIOUS
<1>3. /\ r \in Runs /\ r.pc = "unlock" /\ r.kind = "failed"
      /\ r.copy = run[p].copy /\ r.mode = run[p].mode
  BY <1>1, <1>2 DEF Runs, Points
<1>4. run' = [run EXCEPT ![p] = r]
  BY <1>2 DEF Fail, SyncInv, RunType
<1>5. Sound(r)
  BY <1>1, <1>3 DEF Sound, FilesAt, CopyAt, UnitAt, Scanning, Appending, Saving, Sampling
<1> QED
  BY <1>3, <1>4, <1>5, QuietStep

(* A scan that goes on to another point with its copy as it was. *)
LEMMA ScanStep ==
  ASSUME SyncInv, NEW p \in Pollers, run[p].pc \in Scanning, NEW r \in Runs,
         r.pc \in Scanning \cup {"save"}, r.copy = run[p].copy, r.mode = run[p].mode,
         r.kind = run[p].kind, UnitAt(r), run' = [run EXCEPT ![p] = r],
         UNCHANGED <<files, source, history>>, faults' \in 0 .. MaxFaults
  PROVE  SyncInv'
<1>1. Sound(run[p]) /\ Running(p)
  BY DEF SyncInv, Scanning, Running
<1>2. FilesAt(r)
  BY <1>1 DEF Sound, FilesAt, Scanning
<1>3. CopyAt(r)
  BY <1>1 DEF Sound, CopyAt, Scanning, Appending, Saving
<1>4. r.pc \notin {"idle", "holding"}
  BY DEF Scanning
<1> QED
  BY <1>1, <1>2, <1>3, <1>4, QuietStep DEF Sound

(* adapter.read. *)
LEMMA ReadStep ==
  ASSUME SyncInv, NEW p \in Pollers, Read(p)
  PROVE  SyncInv'
<1>1. run[p] \in Runs /\ UnitAt(run[p]) /\ run[p].pc = "read" /\ run[p].pc \in Scanning
  BY DEF SyncInv, RunType, Sound, Read, At, Scanning
<1>2. run[p].unit \in Sources /\ source[run[p].unit] \in Samples
  BY <1>1 DEF UnitAt, Scanning, SyncInv, RunType
<1>3. PICK pc : pc = IF run[p].kind = "poll" THEN "verify" ELSE "decide"
  OBVIOUS
<1>4. PICK r : r = [run[p] EXCEPT !.sample = source[run[p].unit], !.moved = FALSE, !.pc = pc]
  OBVIOUS
<1>5. /\ r \in Runs /\ r.pc = pc /\ r.sample = source[run[p].unit] /\ ~r.moved
      /\ r.copy = run[p].copy /\ r.mode = run[p].mode /\ r.kind = run[p].kind
      /\ r.unit = run[p].unit
  BY <1>1, <1>2, <1>3, <1>4 DEF Runs, Points, Scanning
<1>6. run' = [run EXCEPT ![p] = r]
  BY <1>3, <1>4 DEF Read, SyncInv, RunType
<1>7. UnitAt(r)
  BY <1>2, <1>3, <1>5 DEF UnitAt, Scanning, Appending, Sampling, Samples
<1>8. faults' \in 0 .. MaxFaults
  BY DEF Read, SyncInv, RunType
<1> QED
  BY <1>1, <1>3, <1>5, <1>6, <1>7, <1>8, ScanStep DEF Read, Scanning

(* The fingerprint read again. *)
LEMMA VerifyStep ==
  ASSUME SyncInv, NEW p \in Pollers, Verify(p)
  PROVE  SyncInv'
<1>1. run[p] \in Runs /\ UnitAt(run[p]) /\ run[p].pc = "verify" /\ run[p].pc \in Scanning
  BY DEF SyncInv, RunType, Sound, Verify, At, Scanning
<1>2. faults' \in 0 .. MaxFaults /\ UNCHANGED <<files, source, history>>
  BY DEF Verify, SyncInv, RunType
<1>3. CASE Fail(p)
  BY <1>1, <1>2, <1>3, FailStep DEF Running
<1>4. CASE ~Fail(p)
  <2>1. PICK r : r = [run[p] EXCEPT
          !.decision = IF run[p].mode = "reference_only" THEN "source_only" ELSE "none",
          !.pc = IF run[p].mode = "reference_only" THEN "persist" ELSE "decide"]
    OBVIOUS
  <2>2. /\ r \in Runs
        /\ r.copy = run[p].copy /\ r.mode = run[p].mode /\ r.kind = run[p].kind
        /\ r.unit = run[p].unit /\ r.sample = run[p].sample /\ r.moved = run[p].moved
        /\ \/ r.mode = "reference_only" /\ r.pc = "persist" /\ r.decision = "source_only"
           \/ r.mode # "reference_only" /\ r.pc = "decide" /\ r.decision = "none"
    BY <1>1, <2>1 DEF Runs, Points, Scanning
  <2>3. run' = [run EXCEPT ![p] = r]
    BY <1>4, <2>1 DEF Verify, SyncInv, RunType
  <2>4. UnitAt(r)
    BY <1>1, <2>2 DEF UnitAt, Scanning, Appending, Sampling
  <2>5. r.pc \in Scanning
    BY <2>2 DEF Scanning
  <2> QED
    BY <1>1, <1>2, <2>2, <2>3, <2>4, <2>5, ScanStep
<1> QED
  BY <1>3, <1>4

(* A decision to distill is about a closed sample, under either policy. *)
LEMMA DecisionsType ==
  ASSUME NEW sample, NEW d \in Decisions(sample)
  PROVE  /\ d \in {"defer", "source_only", "distill"}
         /\ d = "distill" => ~sample.open
BY DEF Decisions, DecideCodex, DecideChatGpt

(* The first revalidation: the sample is as old as the source, so it has   *)
(* not moved.                                                              *)
LEMMA DecideStep ==
  ASSUME SyncInv, NEW p \in Pollers, DecideUnit(p)
  PROVE  SyncInv'
<1>1. run[p] \in Runs /\ UnitAt(run[p]) /\ run[p].pc = "decide" /\ run[p].pc \in Scanning
  BY DEF SyncInv, RunType, Sound, DecideUnit, At, Scanning
<1>2. faults' \in 0 .. MaxFaults /\ UNCHANGED <<files, source, history>>
  BY DEF DecideUnit, SyncInv, RunType
<1>3. CASE Fail(p)
  BY <1>1, <1>2, <1>3, FailStep DEF Running
<1>4. CASE ~Fail(p)
  <2>1. PICK d \in Decisions(source[run[p].unit]) :
          run' = [run EXCEPT ![p].sample = source[run[p].unit], ![p].decision = d,
                             ![p].pc = IF d = "defer" THEN "scan" ELSE "final"]
    BY <1>4 DEF DecideUnit
  <2>2. Unchanged(p)
    BY <1>4 DEF DecideUnit
  <2>3. run[p].unit \in Sources /\ source[run[p].unit] \in Samples
    BY <1>1 DEF UnitAt, Scanning, SyncInv, RunType
  <2>4. ~run[p].moved
    <3>1. run[p].sample \in Samples /\ run[p].sample.version \in Nat
      BY <1>1 DEF UnitAt, Scanning, Samples
    <3>2. source[run[p].unit].version = run[p].sample.version
      BY <2>2 DEF Unchanged
    <3> QED
      BY <1>1, <3>1, <3>2 DEF UnitAt, Sampling
  <2>5. d \in {"defer", "source_only", "distill"} /\ (d = "distill" => ~source[run[p].unit].open)
    BY DecisionsType
  <2>6. PICK pc : pc = IF d = "defer" THEN "scan" ELSE "final"
    OBVIOUS
  <2>7. PICK r : r = [run[p] EXCEPT !.sample = source[run[p].unit], !.decision = d, !.pc = pc]
    OBVIOUS
  <2>8. /\ r \in Runs /\ r.pc = pc /\ r.decision = d /\ r.sample = source[run[p].unit]
        /\ r.copy = run[p].copy /\ r.mode = run[p].mode /\ r.kind = run[p].kind
        /\ r.unit = run[p].unit /\ r.moved = run[p].moved
    BY <1>1, <2>3, <2>5, <2>6, <2>7 DEF Runs, Points, Scanning
  <2>9. run' = [run EXCEPT ![p] = r]
    BY <2>1, <2>6, <2>7 DEF SyncInv, RunType
  <2>10. UnitAt(r)
    BY <2>3, <2>4, <2>5, <2>6, <2>8 DEF UnitAt, Scanning, Appending, Sampling, Samples
  <2>11. r.pc \in Scanning
    BY <2>6, <2>8 DEF Scanning
  <2> QED
    BY <1>1, <1>2, <2>8, <2>9, <2>10, <2>11, ScanStep
<1> QED
  BY <1>3, <1>4

(* The scan is over. *)
LEMMA ScanDoneStep ==
  ASSUME SyncInv, NEW p \in Pollers, ScanDone(p)
  PROVE  SyncInv'
<1>1. run[p] \in Runs /\ run[p].pc \in Scanning
  BY DEF SyncInv, RunType, ScanDone, At, Scanning
<1>2. PICK r : r = [run[p] EXCEPT !.pc = "save"]
  OBVIOUS
<1>3. /\ r \in Runs /\ r.pc = "save"
      /\ r.copy = run[p].copy /\ r.mode = run[p].mode /\ r.kind = run[p].kind
  BY <1>1, <1>2 DEF Runs, Points, Saving
<1>4. run' = [run EXCEPT ![p] = r] /\ faults' \in 0 .. MaxFaults
  BY <1>2 DEF ScanDone, Goto, SyncInv, RunType
<1>5. UnitAt(r)
  BY <1>3 DEF UnitAt, Scanning, Appending, Sampling
<1> QED
  BY <1>1, <1>3, <1>4, <1>5, ScanStep DEF ScanDone


(* A step of a scan that settles source versions: what it newly holds is   *)
(* settled with it.                                                        *)
LEMMA SettleStep ==
  ASSUME SyncInv, NEW p \in Pollers, run[p].pc \in Scanning, NEW r \in Runs,
         r.pc \in Scanning \cup {"append"}, r.mode = run[p].mode, r.kind = run[p].kind,
         run' = [run EXCEPT ![p] = r], UNCHANGED <<files, source, claimed>>,
         faults' \in 0 .. MaxFaults, SettledGrows,
         \A s \in Sources : \/ r.copy[s] = run[p].copy[s]
                            \/ r.copy[s] # None /\ SettledIn(r.mode, s, r.copy[s])',
         UnitAt(run[p])'
  PROVE  SyncInv'
<1>1. Sound(run[p]) /\ Running(p) /\ run'[p] = r /\ r.pc \notin {"idle", "holding"}
  BY DEF SyncInv, RunType, Scanning, Running
<1>2. UNCHANGED <<snapshot, snapshotKept, journal, journalKept, lock>>
  BY DEF files
<1>3. FilesType' /\ claimed' \in [Sources -> SUBSET (Prints \cup {None})]
  BY <1>2 DEF SyncInv, FilesType, RunType
<1>4. Progress' = Progress /\ LinesLeft' = LinesLeft /\ Clean' = Clean
  BY <1>2 DEF Progress, Replay, Nothing, LinesLeft, Clean, Same
<1>5. DiskFine'
  BY <1>2, <1>4, DiskShrinks DEF SyncInv
<1>6. FilesAt(run[p])'
  <2>1. FilesAt(r)
    BY <1>1 DEF Sound, FilesAt, Scanning
  <2> QED
    BY <1>1, <1>2, <1>4, <2>1 DEF FilesAt, Scanning
<1>7. CopyAt(run[p])'
  <2>1. \A s \in Sources : r.copy[s] # None => SettledIn(r.mode, s, r.copy[s])'
    BY <1>1, SettledStays DEF Sound, CopyAt
  <2>2. \A s \in Sources : Progress[s] # None => r.copy[s] # None
    BY <1>1 DEF Sound, CopyAt
  <2>3. r.kind \in {"poll", "baseline"}
    BY <1>1 DEF Sound, CopyAt
  <2>4. r.pc # "load"
    BY DEF Scanning
  <2> QED
    BY <1>1, <1>4, <2>1, <2>2, <2>3, <2>4 DEF CopyAt
<1> QED
  BY <1>1, <1>2, <1>3, <1>4, <1>5, <1>6, <1>7, HolderStep DEF Sound

(* A unit comes up: known, to be read, or observed by a baseline. *)
LEMMA ConsiderStep ==
  ASSUME SyncInv, NEW p \in Pollers, Consider(p)
  PROVE  SyncInv'
<1>1. /\ run[p] \in Runs /\ UnitAt(run[p]) /\ run[p].pc = "scan" /\ run[p].pc \in Scanning
      /\ run \in [Pollers -> Runs]
  BY DEF SyncInv, RunType, Sound, Consider, At, Scanning
<1>2. faults' \in 0 .. MaxFaults /\ UNCHANGED <<files, source, claimed, ingested>>
  BY DEF Consider, SyncInv, RunType
<1>3. PICK s \in run[p].todo :
        IF run[p].kind = "baseline" /\ run[p].mode = "reference_only"
        THEN /\ run' = [run EXCEPT ![p].todo = run[p].todo \ {s}, ![p].copy[s] = source[s].print]
             /\ referenced' = referenced \cup {<<run[p].mode, s, source[s].print, "observed">>}
        ELSE /\ run' = IF Known(p, s)
                       THEN [run EXCEPT ![p].todo = run[p].todo \ {s}]
                       ELSE [run EXCEPT ![p].todo = run[p].todo \ {s}, ![p].unit = s, ![p].pc = "read"]
             /\ UNCHANGED referenced
  BY DEF Consider
<1>4. /\ s \in Sources /\ run[p].todo \ {s} \in SUBSET Sources
      /\ source[s].print \in Prints /\ run[p].copy \in Fingerprints
  BY <1>1 DEF Runs, SyncInv, RunType, Samples
<1>5. CASE run[p].kind = "baseline" /\ run[p].mode = "reference_only"
  <2>1. PICK copy : copy = [run[p].copy EXCEPT ![s] = source[s].print]
    OBVIOUS
  <2>2. copy \in Fingerprints /\ copy[s] = source[s].print
        /\ \A t \in Sources \ {s} : copy[t] = run[p].copy[t]
    BY <1>4, <2>1 DEF Fingerprints
  <2>3. PICK r : r = [run[p] EXCEPT !.todo = run[p].todo \ {s}, !.copy = copy]
    OBVIOUS
  <2>4. /\ r \in Runs /\ r.pc = "scan" /\ r.copy = copy
        /\ r.mode = run[p].mode /\ r.kind = run[p].kind
    BY <1>1, <1>4, <2>2, <2>3 DEF Runs
  <2>5. run' = [run EXCEPT ![p] = r]
    BY <1>1, <1>3, <1>5, <2>1, <2>3 DEF Runs
  <2>6. SettledGrows /\ SettledIn(r.mode, s, copy[s])'
    BY <1>2, <1>3, <1>5, <2>2, <2>4 DEF SettledGrows, SettledIn
  <2>7. copy[s] # None
    BY <1>4, <2>2, NamesAssumption
  <2>8. UnitAt(run[p])'
    BY <1>1, <2>4, <2>5 DEF UnitAt, Scanning, Appending, Sampling
  <2> QED
    <3>1. r.pc \in Scanning /\ run[p].pc \in Scanning /\ UNCHANGED <<files, source, claimed>>
      BY ONLY <1>1, <1>2, <2>4
    <3>2. \A t \in Sources : \/ r.copy[t] = run[p].copy[t]
                             \/ r.copy[t] # None /\ SettledIn(r.mode, t, r.copy[t])'
      <4>1. SettledIn(r.mode, s, r.copy[s])'
        BY ONLY <2>4, <2>6
      <4>2. \A t \in Sources : t = s \/ r.copy[t] = run[p].copy[t]
        BY ONLY <2>2, <2>4
      <4> QED
        BY ONLY <2>4, <2>7, <4>1, <4>2
    <3> QED
      BY ONLY <1>2, <2>4, <2>5, <2>6, <2>8, <3>1, <3>2, SyncInv, p \in Pollers, SettleStep
<1>6. CASE ~(run[p].kind = "baseline" /\ run[p].mode = "reference_only") /\ Known(p, s)
  <2>1. PICK r : r = [run[p] EXCEPT !.todo = run[p].todo \ {s}]
    OBVIOUS
  <2>2. /\ r \in Runs /\ r.pc = "scan" /\ r.copy = run[p].copy
        /\ r.mode = run[p].mode /\ r.kind = run[p].kind
    BY <1>1, <1>4, <2>1 DEF Runs
  <2>3. run' = [run EXCEPT ![p] = r] /\ UNCHANGED history
    BY <1>1, <1>2, <1>3, <1>6, <2>1 DEF Runs, history
  <2>4. UnitAt(r)
    BY <2>2 DEF UnitAt, Scanning, Appending, Sampling
  <2> QED
    BY <1>1, <1>2, <2>2, <2>3, <2>4, ScanStep
<1>7. CASE ~(run[p].kind = "baseline" /\ run[p].mode = "reference_only") /\ ~Known(p, s)
  <2>1. PICK r : r = [run[p] EXCEPT !.todo = run[p].todo \ {s}, !.unit = s, !.pc = "read"]
    OBVIOUS
  <2>2. /\ r \in Runs /\ r.pc = "read" /\ r.copy = run[p].copy /\ r.unit = s
        /\ r.mode = run[p].mode /\ r.kind = run[p].kind
    BY <1>1, <1>4, <2>1 DEF Runs, Points, Scanning
  <2>3. run' = [run EXCEPT ![p] = r] /\ UNCHANGED history
    BY <1>1, <1>2, <1>3, <1>7, <2>1 DEF Runs, history
  <2>4. UnitAt(r) /\ r.pc \in Scanning
    BY <1>4, <2>2 DEF UnitAt, Scanning, Appending, Sampling
  <2> QED
    BY <1>1, <1>2, <2>2, <2>3, <2>4, ScanStep
<1> QED
  BY <1>5, <1>6, <1>7

(* The second revalidation: on to the action, or a baseline's observation. *)
LEMMA RevalidateStep ==
  ASSUME SyncInv, NEW p \in Pollers, Revalidate(p)
  PROVE  SyncInv'
<1>1. /\ run[p] \in Runs /\ UnitAt(run[p]) /\ run[p].pc = "final" /\ run[p].pc \in Scanning
      /\ run \in [Pollers -> Runs]
  BY DEF SyncInv, RunType, Sound, Revalidate, At, Scanning
<1>2. faults' \in 0 .. MaxFaults /\ UNCHANGED <<files, source, claimed, ingested>>
  BY DEF Revalidate, SyncInv, RunType
<1>3. /\ run[p].unit \in Sources /\ run[p].sample \in Samples
      /\ run[p].sample.print \in Prints /\ run[p].sample.version \in Nat
  BY <1>1 DEF UnitAt, Scanning, Samples
<1>4. CASE Fail(p) /\ UNCHANGED referenced
  BY <1>1, <1>2, <1>4, FailStep DEF Running, history
<1>5. CASE Unchanged(p) /\ run[p].kind = "baseline"
  <2>1. PICK copy : copy = [run[p].copy EXCEPT ![run[p].unit] = run[p].sample.print]
    OBVIOUS
  <2>2. copy \in Fingerprints /\ copy[run[p].unit] = run[p].sample.print
        /\ \A t \in Sources \ {run[p].unit} : copy[t] = run[p].copy[t]
    BY <1>1, <1>3, <2>1 DEF Runs, Fingerprints
  <2>3. PICK r : r = [run[p] EXCEPT !.copy = copy, !.pc = "scan"]
    OBVIOUS
  <2>4. /\ r \in Runs /\ r.pc = "scan" /\ r.copy = copy
        /\ r.mode = run[p].mode /\ r.kind = run[p].kind
    BY <1>1, <2>2, <2>3 DEF Runs, Points, Scanning
  <2>5. run' = [run EXCEPT ![p] = r]
    BY <1>1, <1>5, <2>1, <2>3 DEF Revalidate, Runs
  <2>6. PICK u \in Sources, f \in Prints : u = run[p].unit /\ f = run[p].sample.print
    BY <1>3
  <2>7. /\ SettledGrows
        /\ \A s \in Sources : \/ r.copy[s] = run[p].copy[s]
                              \/ r.copy[s] # None /\ SettledIn(r.mode, s, r.copy[s])'
    <3>1. referenced' = referenced \cup {<<r.mode, u, f, "observed">>}
      BY <1>5, <2>4, <2>6 DEF Revalidate
    <3>2. SettledGrows /\ SettledIn(r.mode, u, f)'
      BY <1>2, <3>1 DEF SettledGrows, SettledIn
    <3> QED
      BY <2>2, <2>4, <2>6, <3>2, NamesAssumption
  <2>8. UnitAt(run[p])'
    BY <1>1, <2>4, <2>5 DEF UnitAt, Scanning, Appending, Sampling
  <2> QED
    BY <1>1, <1>2, <2>2, <2>4, <2>5, <2>6, <2>7, <2>8, SettleStep DEF Scanning
<1>6. CASE Unchanged(p) /\ run[p].kind # "baseline"
  <2>1. PICK pc : pc = IF run[p].decision = "distill" THEN "ingest" ELSE "persist"
    OBVIOUS
  <2>2. PICK r : r = [run[p] EXCEPT !.pc = pc]
    OBVIOUS
  <2>3. /\ r \in Runs /\ r.pc = pc /\ r.copy = run[p].copy
        /\ r.mode = run[p].mode /\ r.kind = run[p].kind /\ r.unit = run[p].unit
        /\ r.sample = run[p].sample /\ r.decision = run[p].decision /\ r.moved = run[p].moved
    BY <1>1, <2>1, <2>2 DEF Runs, Points, Scanning
  <2>4. run' = [run EXCEPT ![p] = r] /\ UNCHANGED history
    BY <1>1, <1>2, <1>6, <2>1, <2>2 DEF Revalidate, Goto, Runs, history
  <2>5. ~run[p].moved
    <3>1. source[run[p].unit].version = run[p].sample.version
      BY <1>6 DEF Unchanged
    <3> QED
      BY <1>1, <1>3, <3>1 DEF UnitAt, Sampling
  <2>6. UnitAt(r) /\ r.pc \in Scanning
    BY <1>1, <1>3, <2>1, <2>3, <2>5 DEF UnitAt, Scanning, Appending, Sampling
  <2> QED
    BY <1>1, <1>2, <2>3, <2>4, <2>6, ScanStep
<1> QED
  BY <1>4, <1>5, <1>6 DEF Revalidate

(* The receipt. *)
LEMMA IngestStep ==
  ASSUME SyncInv, NEW p \in Pollers, Ingest(p)
  PROVE  SyncInv'
<1>1. /\ run[p] \in Runs /\ UnitAt(run[p]) /\ run[p].pc = "ingest" /\ run[p].pc \in Scanning
      /\ run \in [Pollers -> Runs]
  BY DEF SyncInv, RunType, Sound, Ingest, At, Scanning
<1>2. faults' \in 0 .. MaxFaults
  BY BoundsAssumption DEF Ingest, SyncInv, RunType
<1>3. UNCHANGED <<files, source, claimed, referenced>>
  BY DEF Ingest
<1>4. CASE ingested' = ingested \cup {<<run[p].unit, run[p].sample.print>>} /\ Goto(p, "persist")
  <2>1. PICK r : r = [run[p] EXCEPT !.pc = "persist"]
    OBVIOUS
  <2>2. /\ r \in Runs /\ r.pc = "persist" /\ r.copy = run[p].copy
        /\ r.mode = run[p].mode /\ r.kind = run[p].kind /\ r.unit = run[p].unit
        /\ r.sample = run[p].sample /\ r.decision = run[p].decision /\ r.moved = run[p].moved
    BY <1>1, <2>1 DEF Runs, Points, Scanning
  <2>3. run' = [run EXCEPT ![p] = r] /\ run'[p] = r
    BY <1>1, <1>4, <2>1 DEF Goto
  <2>4. SettledGrows
    BY <1>3, <1>4 DEF SettledGrows
  <2>5. UnitAt(run[p])'
    BY <1>1, <1>4, <2>2, <2>3 DEF UnitAt, Scanning, Appending, Sampling
  <2> QED
    BY <1>1, <1>2, <1>3, <2>2, <2>3, <2>4, <2>5, SettleStep DEF Scanning
<1>5. CASE Goto(p, "scan") /\ UNCHANGED ingested
  <2>1. PICK r : r = [run[p] EXCEPT !.pc = "scan"]
    OBVIOUS
  <2>2. /\ r \in Runs /\ r.pc = "scan" /\ r.copy = run[p].copy
        /\ r.mode = run[p].mode /\ r.kind = run[p].kind
    BY <1>1, <2>1 DEF Runs, Points, Scanning
  <2>3. run' = [run EXCEPT ![p] = r] /\ UNCHANGED history
    BY <1>3, <1>5, <2>1 DEF Goto, history
  <2>4. UnitAt(r) /\ r.pc \in Scanning
    BY <2>2 DEF UnitAt, Scanning, Appending, Sampling
  <2> QED
    BY <1>1, <1>2, <1>3, <2>2, <2>3, <2>4, ScanStep
<1> QED
  BY <1>4, <1>5 DEF Ingest

(* The reference is persisted and the fingerprint set in memory. *)
LEMMA PersistStep ==
  ASSUME SyncInv, NEW p \in Pollers, Persist(p)
  PROVE  SyncInv'
<1>1. /\ run[p] \in Runs /\ UnitAt(run[p]) /\ run[p].pc = "persist" /\ run[p].pc \in Scanning
      /\ run \in [Pollers -> Runs]
  BY DEF SyncInv, RunType, Sound, Persist, At, Scanning
<1>2. faults' \in 0 .. MaxFaults /\ UNCHANGED <<files, source, claimed, ingested>>
  BY DEF Persist, SyncInv, RunType
<1>3. /\ run[p].unit \in Sources /\ run[p].sample \in Samples /\ run[p].sample.print \in Prints
      /\ run[p].decision \in {"source_only", "distill"}
  BY <1>1 DEF UnitAt, Scanning, Samples
<1>4. PICK copy : copy = [run[p].copy EXCEPT ![run[p].unit] = run[p].sample.print]
  OBVIOUS
<1>5. copy \in Fingerprints /\ copy[run[p].unit] = run[p].sample.print
      /\ \A t \in Sources \ {run[p].unit} : copy[t] = run[p].copy[t]
  BY <1>1, <1>3, <1>4 DEF Runs, Fingerprints
<1>6. PICK r : r = [run[p] EXCEPT !.copy = copy, !.pc = "append"]
  OBVIOUS
<1>7. /\ r \in Runs /\ r.pc = "append" /\ r.copy = copy /\ r.unit = run[p].unit
      /\ r.mode = run[p].mode /\ r.kind = run[p].kind /\ r.sample = run[p].sample
  BY <1>1, <1>5, <1>6 DEF Runs, Points, Appending
<1>8. run' = [run EXCEPT ![p] = r] /\ run'[p] = r
  BY <1>1, <1>4, <1>6 DEF Persist, Runs
<1>9. SettledGrows /\ SettledIn(r.mode, r.unit, r.sample.print)'
  <2>1. referenced' = referenced \cup {<<r.mode, r.unit, r.sample.print, run[p].decision>>}
    BY <1>7 DEF Persist
  <2>2. run[p].decision = "distill" => <<r.unit, r.sample.print>> \in ingested
    BY <1>1, <1>7 DEF UnitAt
  <2> QED
    BY <1>2, <1>3, <2>1, <2>2 DEF SettledGrows, SettledIn
<1>10. \A s \in Sources : \/ r.copy[s] = run[p].copy[s]
                          \/ r.copy[s] # None /\ SettledIn(r.mode, s, r.copy[s])'
  <2>1. r.unit \in Sources /\ r.copy[r.unit] = r.sample.print /\ r.sample.print # None
    BY <1>3, <1>5, <1>7, NamesAssumption
  <2>2. \A s \in Sources \ {r.unit} : r.copy[s] = run[p].copy[s]
    BY <1>5, <1>7
  <2> QED
    BY <1>9, <2>1, <2>2
<1>11. UnitAt(run[p])'
  BY <1>3, <1>5, <1>7, <1>8, <1>9 DEF UnitAt, Scanning, Appending, Sampling
<1> QED
  BY <1>1, <1>2, <1>7, <1>8, <1>9, <1>10, <1>11, SettleStep


-----------------------------------------------------------------------------
(* Recovering the tail changes no line and leaves less to be lost. *)
LEMMA RecoverTailKeeps ==
  ASSUME FilesType, Clean, RecoverTail, UNCHANGED lock
  PROVE  /\ FilesType' /\ Clean' /\ snapshot' = snapshot
         /\ journal'.lines = journal.lines /\ ~journal'.torn
         /\ LinesLeft' \subseteq LinesLeft
<1>1. /\ journal \in Journals /\ journal.lines \in Seq(Deltas) /\ Len(journal.lines) \in Nat
      /\ journal.synced \in Nat /\ journal.synced <= Len(journal.lines)
  BY DEF FilesType, Journals
<1>2. CASE journal.torn
  <2>1. /\ journal' = [journal EXCEPT !.torn = FALSE, !.synced = Len(journal.lines)]
        /\ snapshotKept' = snapshot /\ journalKept' = Same /\ snapshot' = snapshot
    BY <1>2 DEF RecoverTail
  <2>2. /\ journal' \in Journals /\ journal'.lines = journal.lines /\ ~journal'.torn
        /\ journal'.synced = Len(journal.lines)
    BY <1>1, <2>1 DEF Journals
  <2>3. Same.same /\ Same \in KeptJournals
    BY DEF Same, KeptJournals
  <2>4. FilesType' /\ Clean'
    BY <1>1, <2>1, <2>2, <2>3 DEF FilesType, Clean, Same
  <2>5. LinesLeft' \subseteq LinesLeft
    BY <1>1, <2>1, <2>2, <2>3 DEF LinesLeft
  <2> QED
    BY <2>1, <2>2, <2>4, <2>5
<1>3. CASE ~journal.torn
  BY <1>3 DEF RecoverTail, disk, FilesType, Clean, Same, LinesLeft
<1> QED
  BY <1>2, <1>3

(* A step of the poller that runs, on files that keep their content. *)
LEMMA SyncStep ==
  ASSUME SyncInv, NEW p \in Pollers, Running(p), NEW r \in Runs,
         r.pc \notin {"idle", "holding"}, run' = [run EXCEPT ![p] = r],
         UNCHANGED <<lock, source, faults, history>>, FilesType',
         snapshot' = snapshot, snapshotKept' \in {snapshot, snapshotKept},
         journal'.lines = journal.lines, LinesLeft' \subseteq LinesLeft,
         Sound(run[p])'
  PROVE  SyncInv'
<1>1. UNCHANGED <<ingested, referenced, claimed>>
  BY DEF history
<1>2. SettledGrows /\ Progress' = Progress
  BY <1>1 DEF SettledGrows, Progress, Replay, Nothing
<1>3. DiskFine'
  BY <1>1, <1>2, DiskShrinks DEF SyncInv
<1>4. faults' \in 0 .. MaxFaults /\ claimed' \in [Sources -> SUBSET (Prints \cup {None})]
  BY <1>1 DEF SyncInv, RunType
<1> QED
  BY <1>2, <1>3, <1>4, HolderStep

(* A run that breaks off after its first look at the files. *)
LEMMA FailAfterRecovery ==
  ASSUME SyncInv, NEW p \in Pollers, Running(p), Clean, Fail(p), RecoverTail,
         UNCHANGED <<lock, source, faults, history>>
  PROVE  SyncInv'
<1>1. run[p] \in Runs /\ Sound(run[p])
  BY DEF SyncInv, RunType
<1>2. PICK r : r = [run[p] EXCEPT !.pc = "unlock", !.kind = "failed"]
  OBVIOUS
<1>3. /\ r \in Runs /\ r.pc = "unlock" /\ r.kind = "failed"
      /\ r.copy = run[p].copy /\ r.mode = run[p].mode
  BY <1>1, <1>2 DEF Runs, Points
<1>4. run' = [run EXCEPT ![p] = r] /\ run'[p] = r
  BY <1>2 DEF Fail, SyncInv, RunType
<1>5. /\ FilesType' /\ Clean' /\ snapshot' = snapshot /\ journal'.lines = journal.lines
      /\ LinesLeft' \subseteq LinesLeft
  BY RecoverTailKeeps DEF SyncInv
<1>6. SettledGrows
  BY DEF history, SettledGrows
<1>7. Sound(run[p])'
  BY <1>1, <1>3, <1>4, <1>6, SettledStays DEF Sound, FilesAt, CopyAt, UnitAt, Scanning, Appending,
     Saving, Sampling
<1> QED
  BY <1>3, <1>4, <1>5, <1>7, SyncStep DEF Clean

(* load under the lock. *)
LEMMA LoadStep ==
  ASSUME SyncInv, NEW p \in Pollers, Load(p)
  PROVE  SyncInv'
<1>1. /\ run[p] \in Runs /\ Sound(run[p]) /\ run[p].pc = "load"
      /\ run \in [Pollers -> Runs] /\ Running(p)
  BY DEF SyncInv, RunType, Load, At, Running
<1>2. UNCHANGED <<lock, source, faults, history>> /\ RecoverTail /\ Clean
  BY <1>1 DEF Load, Sound, FilesAt
<1>3. CASE Fail(p)
  BY <1>1, <1>2, <1>3, FailAfterRecovery
<1>4. CASE ~Fail(p)
  <2>1. PICK borrow \in BOOLEAN : borrow = (run[p].kind = "borrow")
    OBVIOUS
  <2>2. PICK mode : mode = IF borrow THEN snapshot.mode ELSE run[p].mode
    OBVIOUS
  <2>3. Compatible(p)
    BY <1>4 DEF Load
  <2>4. borrow => snapshot # None
    BY <1>1, <2>1 DEF Sound, CopyAt
  <2>5. mode \in Modes /\ (snapshot # None => snapshot.mode = mode)
    <3>1. snapshot # None => snapshot.mode \in Modes
      BY DEF SyncInv, FilesType, Checkpoints
    <3>2. run[p].mode \in Modes
      BY <1>1 DEF Runs
    <3>3. run[p].kind \in {"poll", "baseline", "borrow"}
      BY <1>1 DEF Sound, CopyAt
    <3> QED
      BY <2>1, <2>2, <2>3, <2>4, <3>1, <3>2, <3>3 DEF Compatible
  <2>6. PICK r : r = [run[p] EXCEPT !.copy = Progress, !.mode = mode,
                        !.pc = IF borrow THEN "unlock" ELSE "scan",
                        !.todo = IF borrow THEN {} ELSE Sources]
    OBVIOUS
  <2>7. /\ r \in Runs /\ r.copy = Progress /\ r.mode = mode /\ r.kind = run[p].kind
        /\ r.pc = IF borrow THEN "unlock" ELSE "scan"
    BY <1>1, <2>5, <2>6, ProgressType DEF Runs, Points, Scanning
  <2>8. run' = [run EXCEPT ![p] = r] /\ run'[p] = r
    BY <1>1, <1>4, <2>1, <2>2, <2>6 DEF Load, Runs
  <2>9. /\ FilesType' /\ Clean' /\ snapshot' = snapshot /\ journal'.lines = journal.lines
        /\ LinesLeft' \subseteq LinesLeft
    BY <1>2, RecoverTailKeeps DEF SyncInv
  <2>10. SettledGrows /\ Progress' = Progress
    BY <1>2, <2>9 DEF history, SettledGrows, Progress, Replay, Nothing
  <2>11. \A s \in Sources : Progress[s] # None => SettledIn(mode, s, Progress[s])
    <3>1. CASE snapshot = None
      BY <3>1 DEF Progress, Nothing
    <3>2. CASE snapshot # None
      BY <2>5, <3>2, SeenIsFine DEF Fine
    <3> QED
      BY <3>1, <3>2
  <2>12. PICK prog : prog = Progress
    OBVIOUS
  <2>13. CopyAt(run[p])'
    <3>1. \A s \in Sources : prog[s] # None => SettledIn(mode, s, prog[s])'
      BY <2>10, <2>11, <2>12, SettledStays
    <3>2. run[p].kind \in {"poll", "baseline", "borrow"}
      BY <1>1 DEF Sound, CopyAt
    <3> QED
      BY <2>1, <2>4, <2>7, <2>8, <2>9, <2>10, <2>12, <3>1, <3>2 DEF CopyAt, Scanning, Appending, Saving
  <2>14. FilesAt(run[p])'
    BY <2>5, <2>7, <2>8, <2>9 DEF FilesAt, Scanning
  <2>15. UnitAt(run[p])'
    BY <2>7, <2>8 DEF UnitAt, Scanning, Appending, Sampling
  <2> QED
    BY <1>1, <1>2, <2>7, <2>8, <2>9, <2>13, <2>14, <2>15, SyncStep DEF Sound, Clean
<1> QED
  BY <1>3, <1>4

(* A caller's save compares before it writes: what it would write is what  *)
(* the store holds.                                                        *)
LEMMA CompareStep ==
  ASSUME SyncInv, NEW p \in Pollers, Compare(p)
  PROVE  SyncInv'
<1>1. /\ run[p] \in Runs /\ Sound(run[p]) /\ run[p].pc = "compare"
      /\ run \in [Pollers -> Runs] /\ Running(p)
  BY DEF SyncInv, RunType, Compare, At, Running
<1>2. UNCHANGED <<lock, source, faults, history>> /\ RecoverTail /\ Clean
  BY <1>1 DEF Compare, Sound, FilesAt
<1>3. CASE Fail(p)
  BY <1>1, <1>2, <1>3, FailAfterRecovery
<1>4. CASE ~Fail(p)
  <2>1. Savable(p) /\ Goto(p, "save")
    BY <1>4 DEF Compare
  <2>2. PICK r : r = [run[p] EXCEPT !.pc = "save"]
    OBVIOUS
  <2>3. /\ r \in Runs /\ r.copy = run[p].copy /\ r.mode = run[p].mode /\ r.kind = run[p].kind
        /\ r.pc = "save"
    BY <1>1, <2>2 DEF Runs, Points, Saving
  <2>4. run' = [run EXCEPT ![p] = r] /\ run'[p] = r
    BY <1>1, <2>1, <2>2 DEF Goto
  <2>5. /\ FilesType' /\ Clean' /\ snapshot' = snapshot /\ journal'.lines = journal.lines
        /\ LinesLeft' \subseteq LinesLeft
    BY <1>2, RecoverTailKeeps DEF SyncInv
  <2>6. SettledGrows /\ Progress' = Progress
    BY <1>2, <2>5 DEF history, SettledGrows, Progress, Replay, Nothing
  <2>7. \A s \in Sources : Progress[s] # None => Progress[s] = run[p].copy[s]
    BY <2>1 DEF Savable, Progress, Nothing
  <2>8. CopyAt(run[p])'
    <3>1. \A s \in Sources : r.copy[s] # None => SettledIn(r.mode, s, r.copy[s])'
      BY <1>1, <2>3, <2>6, SettledStays DEF Sound, CopyAt
    <3>2. r.kind \in {"borrow", "save"} =>
            snapshot # None /\ \A s \in Sources : r.copy[s] # None => Progress[s] # None
      BY <1>1, <2>3 DEF Sound, CopyAt
    <3> QED
      BY <2>3, <2>4, <2>5, <2>6, <2>7, <3>1, <3>2 DEF CopyAt, Scanning, Appending, Saving
  <2>9. FilesAt(run[p])'
    BY <2>1, <2>3, <2>4, <2>5 DEF FilesAt, Scanning, Savable
  <2>10. UnitAt(run[p])'
    BY <2>3, <2>4 DEF UnitAt, Scanning, Appending, Sampling
  <2> QED
    BY <1>1, <1>2, <2>3, <2>4, <2>5, <2>8, <2>9, <2>10, SyncStep DEF Sound, Clean
<1> QED
  BY <1>3, <1>4


-----------------------------------------------------------------------------
(* Going on changes the point of the run and nothing else of it. *)
LEMMA GotoIs ==
  ASSUME SyncInv, NEW p \in Pollers, NEW pc \in Points, Goto(p, pc)
  PROVE  \E r \in Runs :
           /\ run' = [run EXCEPT ![p] = r] /\ run'[p] = r
           /\ r.pc = pc /\ r.mode = run[p].mode /\ r.kind = run[p].kind
           /\ r.copy = run[p].copy /\ r.todo = run[p].todo /\ r.unit = run[p].unit
           /\ r.sample = run[p].sample /\ r.decision = run[p].decision /\ r.moved = run[p].moved
<1>1. run \in [Pollers -> Runs] /\ run[p] \in Runs
  BY DEF SyncInv, RunType
<1>2. PICK r : r = [run[p] EXCEPT !.pc = pc]
  OBVIOUS
<1>3. /\ r \in Runs
      /\ r.pc = pc /\ r.mode = run[p].mode /\ r.kind = run[p].kind
      /\ r.copy = run[p].copy /\ r.todo = run[p].todo /\ r.unit = run[p].unit
      /\ r.sample = run[p].sample /\ r.decision = run[p].decision /\ r.moved = run[p].moved
  BY <1>1, <1>2 DEF Runs
<1>4. run' = [run EXCEPT ![p] = r]
  BY <1>1, <1>2 DEF Goto
<1> QED
  BY <1>1, <1>3, <1>4

(* Within an append the copy and the unit stay as they were; the copy      *)
(* covers what the store holds, for it has the new fingerprint already.    *)
LEMMA AppendKeeps ==
  ASSUME SyncInv, NEW p \in Pollers, run[p].pc \in Appending, NEW r \in Runs,
         run'[p] = r, r.pc \in Appending \cup {"scan"}, r.mode = run[p].mode,
         r.kind = run[p].kind, r.copy = run[p].copy, r.unit = run[p].unit,
         r.sample = run[p].sample, SettledGrows,
         \A s \in Sources : Progress'[s] # None => Progress[s] # None \/ s = run[p].unit
  PROVE  CopyAt(run[p])' /\ UnitAt(run[p])'
<1>1. CopyAt(run[p]) /\ UnitAt(run[p])
  BY DEF SyncInv, Sound
<1>2. /\ r.unit \in Sources /\ r.sample \in Samples /\ r.sample.print # None
      /\ r.copy[r.unit] = r.sample.print
  BY <1>1, NamesAssumption DEF UnitAt, Samples
<1>3. UnitAt(run[p])'
  <2>1. SettledIn(r.mode, r.unit, r.sample.print)'
    BY <1>1, SettledStays DEF UnitAt
  <2> QED
    BY <1>2, <2>1 DEF UnitAt, Scanning, Appending, Sampling
<1>4. CopyAt(run[p])'
  <2>1. \A s \in Sources : r.copy[s] # None => SettledIn(r.mode, s, r.copy[s])'
    BY <1>1, SettledStays DEF CopyAt
  <2>2. \A s \in Sources : Progress'[s] # None => r.copy[s] # None
    BY <1>1, <1>2 DEF CopyAt
  <2>3. r.kind \in {"poll", "baseline"} /\ r.pc \notin {"load", "save"}
    BY <1>1 DEF CopyAt, Appending
  <2> QED
    BY <2>1, <2>2, <2>3 DEF CopyAt
<1> QED
  BY <1>3, <1>4

(* The append recovers the tail. *)
LEMMA AppendOpenStep ==
  ASSUME SyncInv, NEW p \in Pollers, AppendOpen(p)
  PROVE  SyncInv'
<1>1. run[p].pc = "append" /\ run[p].pc \in Appending /\ Running(p) /\ FilesAt(run[p])
  BY DEF SyncInv, Sound, AppendOpen, At, Running, Appending
<1>2. Clean /\ (snapshot = None \/ snapshot.mode = run[p].mode)
  BY <1>1 DEF FilesAt
<1>3. PICK pc : pc = IF snapshot = None THEN "base" ELSE "line"
  OBVIOUS
<1>4. pc \in Points /\ pc \in Appending /\ pc \notin {"idle", "holding"}
  BY <1>3 DEF Points, Appending
<1>5. PICK r \in Runs :
           /\ run' = [run EXCEPT ![p] = r] /\ run'[p] = r
           /\ r.pc = pc /\ r.mode = run[p].mode /\ r.kind = run[p].kind
           /\ r.copy = run[p].copy /\ r.unit = run[p].unit /\ r.sample = run[p].sample
  BY <1>3, <1>4, GotoIs DEF AppendOpen
<1>6. /\ FilesType' /\ Clean' /\ snapshot' = snapshot /\ journal'.lines = journal.lines
      /\ LinesLeft' \subseteq LinesLeft /\ ~journal'.torn
  BY <1>2, RecoverTailKeeps DEF SyncInv, AppendOpen
<1>7. SettledGrows /\ Progress' = Progress
  BY <1>6 DEF AppendOpen, history, SettledGrows, Progress, Replay, Nothing
<1>8. CopyAt(run[p])' /\ UnitAt(run[p])'
  BY <1>1, <1>4, <1>5, <1>7, AppendKeeps
<1>9. FilesAt(run[p])'
  BY <1>2, <1>3, <1>5, <1>6 DEF FilesAt, Scanning, Clean
<1> QED
  BY <1>1, <1>4, <1>5, <1>6, <1>8, <1>9, SyncStep DEF Sound, Clean, AppendOpen

(* An empty snapshot goes in place of none: there were no lines either. *)
LEMMA BaseRenameStep ==
  ASSUME SyncInv, NEW p \in Pollers, BaseRename(p)
  PROVE  SyncInv'
<1>1. run[p].pc = "base" /\ run[p].pc \in Appending /\ Running(p) /\ FilesAt(run[p])
  BY DEF SyncInv, Sound, BaseRename, At, Running, Appending
<1>2. Clean /\ snapshot = None /\ ~journal.torn
  BY <1>1 DEF FilesAt
<1>3. "base-sync" \in Points /\ "base-sync" \in Appending
  BY DEF Points, Appending
<1>4. PICK r \in Runs :
           /\ run' = [run EXCEPT ![p] = r] /\ run'[p] = r
           /\ r.pc = "base-sync" /\ r.mode = run[p].mode /\ r.kind = run[p].kind
           /\ r.copy = run[p].copy /\ r.unit = run[p].unit /\ r.sample = run[p].sample
  BY <1>3, GotoIs DEF BaseRename
<1>5. PICK base : base = [mode |-> r.mode, prints |-> Nothing]
  OBVIOUS
<1>6. /\ base \in Checkpoints /\ base # None /\ base.mode = r.mode /\ base.prints = Nothing
  <2>1. r.mode \in Modes /\ Nothing \in Fingerprints
    BY DEF Runs, Nothing, Fingerprints
  <2>2. base \in Checkpoints /\ base.mode = r.mode /\ base.prints = Nothing
    BY <1>5, <2>1 DEF Checkpoints
  <2> QED
    BY <2>2, NamesAssumption
<1>7. /\ snapshot' = base
      /\ UNCHANGED <<snapshotKept, journal, journalKept, lock, source, faults, ingested, referenced, claimed>>
  BY <1>4, <1>5 DEF BaseRename, RenameSnapshot, history
<1>8. FilesType'
  BY <1>6, <1>7 DEF SyncInv, FilesType
<1>9. SettledGrows /\ LinesLeft' = LinesLeft
  BY <1>7 DEF SettledGrows, LinesLeft
<1>10. \A s \in Sources : Nothing[s] = None /\ Progress[s] = None
  BY <1>2 DEF Progress, Nothing
<1>11. \A lines \in LinesLeft : lines = << >> /\ \A s \in Sources : None \in claimed[s]
  <2> SUFFICES ASSUME NEW lines \in LinesLeft
               PROVE  lines = << >> /\ \A s \in Sources : None \in claimed[s]
    OBVIOUS
  <2>1. Fine(None, lines)
    BY <1>2 DEF SyncInv, DiskFine
  <2> QED
    BY <2>1, <1>10 DEF Fine, Unreadable, LoadAnswer
<1>12. journal.lines = << >>
  BY <1>11, LinesLeftType DEF SyncInv
<1>13. Fine(base, << >>)'
  <2>1. \A s \in Sources : Replay(base.prints, << >>)[s] = None
    BY <1>6, <1>10, ReplayEmpty
  <2>2. \A s \in Sources : LoadAnswer(base, << >>)[s] = None
    BY <1>6, <2>1 DEF LoadAnswer
  <2>3. \A s \in Sources : None \in claimed[s]
    BY <1>11, LinesLeftType DEF SyncInv
  <2>4. Fine(base, << >>)
    BY <1>6, <2>2, <2>3 DEF Fine, Unreadable, HasLast
  <2> QED
    BY <1>7, <1>9, <2>4, FineStays
<1>14. DiskFine'
  <2> SUFFICES ASSUME NEW snap \in {base, None}, NEW lines \in LinesLeft
               PROVE  Fine(snap, lines)'
    BY <1>2, <1>7, <1>9 DEF DiskFine, Clean
  <2>1. Fine(None, lines)
    BY <1>2 DEF SyncInv, DiskFine
  <2> QED
    BY <1>7, <1>9, <1>11, <1>13, <2>1, FineStays
<1>15. \A s \in Sources : Progress'[s] = None
  BY <1>6, <1>7, <1>10, <1>12, ReplayEmpty DEF Progress
<1>16. CopyAt(run[p])' /\ UnitAt(run[p])'
  BY <1>1, <1>3, <1>4, <1>9, <1>15, AppendKeeps
<1>17. FilesAt(run[p])'
  BY <1>2, <1>4, <1>5, <1>7 DEF FilesAt, Scanning
<1>18. faults' \in 0 .. MaxFaults /\ claimed' \in [Sources -> SUBSET (Prints \cup {None})]
  BY <1>7 DEF SyncInv, RunType
<1>19. r.pc \notin {"idle", "holding"}
  BY <1>4
<1> QED
  BY <1>1, <1>2, <1>4, <1>7, <1>8, <1>9, <1>10, <1>14, <1>16, <1>17, <1>18, <1>19, HolderStep DEF Sound


(* Synchronising the directory leaves the files as seen, and less to lose. *)
LEMMA SyncDirectoryKeeps ==
  ASSUME FilesType, SyncDirectory, lock' \in Pollers \cup {None, Stale}
  PROVE  /\ FilesType' /\ Clean' /\ snapshot' = snapshot /\ journal' = journal
         /\ LinesLeft' \subseteq LinesLeft
<1>1. Same \in KeptJournals /\ Same.same
  BY DEF Same, KeptJournals
<1>2. snapshotKept' = snapshot /\ journalKept' = Same /\ snapshot' = snapshot /\ journal' = journal
  BY DEF SyncDirectory
<1> QED
  BY <1>1, <1>2 DEF FilesType, Clean, Same, LinesLeft

(* The empty snapshot is durable. *)
LEMMA BaseSyncStep ==
  ASSUME SyncInv, NEW p \in Pollers, BaseSync(p)
  PROVE  SyncInv'
<1>1. run[p].pc = "base-sync" /\ run[p].pc \in Appending /\ Running(p) /\ FilesAt(run[p])
  BY DEF SyncInv, Sound, BaseSync, At, Running, Appending
<1>2. "line" \in Points /\ "line" \in Appending
  BY DEF Points, Appending
<1>3. PICK r \in Runs :
           /\ run' = [run EXCEPT ![p] = r] /\ run'[p] = r
           /\ r.pc = "line" /\ r.mode = run[p].mode /\ r.kind = run[p].kind
           /\ r.copy = run[p].copy /\ r.unit = run[p].unit /\ r.sample = run[p].sample
  BY <1>2, GotoIs DEF BaseSync
<1>4. /\ FilesType' /\ Clean' /\ snapshot' = snapshot /\ journal' = journal
      /\ LinesLeft' \subseteq LinesLeft
  BY SyncDirectoryKeeps DEF SyncInv, FilesType, BaseSync
<1>5. SettledGrows /\ Progress' = Progress
  BY <1>4 DEF BaseSync, history, SettledGrows, Progress, Replay, Nothing
<1>6. CopyAt(run[p])' /\ UnitAt(run[p])'
  BY <1>1, <1>2, <1>3, <1>5, AppendKeeps
<1>7. snapshot = [mode |-> r.mode, prints |-> Nothing] /\ ~journal.torn
  BY <1>1, <1>3 DEF FilesAt
<1>8. snapshot.mode = r.mode /\ snapshot # None
  <2>1. snapshot \in Checkpoints
    BY <1>7 DEF Runs, Checkpoints, Nothing, Fingerprints
  <2> QED
    BY <1>7, <2>1, NamesAssumption
<1>9. FilesAt(run[p])'
  BY <1>3, <1>4, <1>7, <1>8 DEF FilesAt, Scanning, Clean
<1> QED
  BY <1>1, <1>3, <1>4, <1>6, <1>9, SyncStep DEF Sound, Clean, BaseSync

(* The journal is opened and a line begun: nothing is lost or added, and   *)
(* what is about to be written is claimed.                                 *)
LEMMA LineBeginStep ==
  ASSUME SyncInv, NEW p \in Pollers, LineBegin(p)
  PROVE  SyncInv'
<1>1. run[p].pc = "line" /\ run[p].pc \in Appending /\ Running(p) /\ Sound(run[p])
  BY DEF SyncInv, LineBegin, At, Running, Appending
<1>2. ~journal.torn /\ Clean /\ snapshot # None /\ snapshot.mode = run[p].mode
  BY <1>1 DEF Sound, FilesAt
<1>3. "line-end" \in Points /\ "line-end" \in Appending
  BY DEF Points, Appending
<1>4. PICK r \in Runs :
           /\ run' = [run EXCEPT ![p] = r] /\ run'[p] = r
           /\ r.pc = "line-end" /\ r.mode = run[p].mode /\ r.kind = run[p].kind
           /\ r.copy = run[p].copy /\ r.unit = run[p].unit /\ r.sample = run[p].sample
  BY <1>3, GotoIs DEF LineBegin
<1>5. journal \in Journals /\ Len(journal.lines) \in Nat
  BY DEF SyncInv, FilesType, Journals
<1>6. /\ journal' \in Journals /\ journal'.lines = journal.lines
      /\ journal'.synced = journal.synced
  BY <1>2, <1>5 DEF LineBegin, BeginLine, Journals
<1>7. /\ UNCHANGED <<snapshot, snapshotKept, lock, source, faults, ingested, referenced>>
  BY DEF LineBegin, BeginLine
<1>8. /\ journalKept' \in KeptJournals
      /\ journalKept'.there \/ journalKept'.lines = << >>
      /\ journalKept'.same \/ (journalKept'.lines = << >> /\ journal.lines = << >>)
  <2>1. journalKept = Same /\ Same.same /\ Same \in KeptJournals /\ Same.lines = << >>
    BY <1>2 DEF Clean, Same, KeptJournals
  <2>2. CASE journal.there
    <3>1. journalKept' = Same
      BY <2>1, <2>2 DEF LineBegin, BeginLine
    <3> QED
      BY <2>1, <3>1
  <2>3. CASE ~journal.there
    <3>1. journalKept' = [Same EXCEPT !.same = FALSE]
      BY <2>1, <2>3 DEF LineBegin, BeginLine
    <3>2. journalKept' \in KeptJournals /\ journalKept'.lines = << >>
      BY <2>1, <3>1 DEF KeptJournals
    <3>3. journal.lines = << >>
      BY <2>3 DEF SyncInv, FilesType
    <3> QED
      BY <3>2, <3>3
  <2> QED
    BY <2>2, <2>3
<1>9. FilesType' /\ journal'.there
  <2>1. journal'.there /\ journal'.synced <= Len(journal'.lines)
    BY <1>5, <1>6 DEF LineBegin, BeginLine, Journals, SyncInv, FilesType
  <2> QED
    BY <1>6, <1>7, <1>8, <2>1 DEF SyncInv, FilesType
<1>10. LinesLeft' \subseteq LinesLeft
  <2>1. journal.lines \in LinesLeft
    BY LinesLeftType DEF SyncInv
  <2> QED
    BY <1>6, <1>8, <2>1 DEF LinesLeft
<1>11. PICK u \in Sources, f \in Prints : u = run[p].unit /\ f = run[p].sample.print
  BY <1>1 DEF Sound, UnitAt, Samples
<1>12. claimed' = [claimed EXCEPT ![u] = @ \cup {f}]
  BY <1>11 DEF LineBegin
<1>13. /\ claimed' \in [Sources -> SUBSET (Prints \cup {None})]
       /\ \A s \in Sources : claimed[s] \subseteq claimed'[s]
       /\ f \in claimed'[u]
  BY <1>12 DEF SyncInv, RunType
<1>14. SettledGrows /\ Progress' = Progress
  BY <1>6, <1>7 DEF SettledGrows, Progress, Replay, Nothing
<1>15. DiskFine'
  BY <1>7, <1>10, <1>13, <1>14, DiskShrinks DEF SyncInv
<1>16. CopyAt(run[p])' /\ UnitAt(run[p])'
  BY <1>1, <1>3, <1>4, <1>14, AppendKeeps
<1>17. FilesAt(run[p])'
  BY <1>2, <1>4, <1>7, <1>9, <1>11, <1>13 DEF FilesAt, Scanning, Clean
<1>18. faults' \in 0 .. MaxFaults /\ r.pc \notin {"idle", "holding"}
  BY <1>4, <1>7 DEF SyncInv, RunType
<1> QED
  BY <1>1, <1>2, <1>4, <1>7, <1>9, <1>13, <1>14, <1>15, <1>16, <1>17, <1>18, HolderStep DEF Sound

(* The line is complete: it may survive a power loss or not, and either    *)
(* way what load answers was claimed.                                      *)
LEMMA LineEndStep ==
  ASSUME SyncInv, NEW p \in Pollers, LineEnd(p)
  PROVE  SyncInv'
<1>1. run[p].pc = "line-end" /\ run[p].pc \in Appending /\ Running(p) /\ Sound(run[p])
  BY DEF SyncInv, LineEnd, At, Running, Appending
<1>2. "line-sync" \in Points /\ "line-sync" \in Appending
  BY DEF Points, Appending
<1>3. PICK r \in Runs :
           /\ run' = [run EXCEPT ![p] = r] /\ run'[p] = r
           /\ r.pc = "line-sync" /\ r.mode = run[p].mode /\ r.kind = run[p].kind
           /\ r.copy = run[p].copy /\ r.unit = run[p].unit /\ r.sample = run[p].sample
  BY <1>2, GotoIs DEF LineEnd
<1>4. /\ snapshot # None /\ snapshot.mode = r.mode /\ snapshotKept = snapshot
      /\ r.sample.print \in claimed[r.unit] /\ r.sample.print \in Prints /\ r.unit \in Sources
      /\ SettledIn(r.mode, r.unit, r.sample.print) /\ journal.there
  BY <1>1, <1>3 DEF Sound, FilesAt, UnitAt, Samples
<1>5. PICK d : d = [mode |-> r.mode, source |-> r.unit, print |-> r.sample.print]
  OBVIOUS
<1>6. /\ d \in Deltas /\ d.mode = r.mode /\ d.source = r.unit /\ d.print = r.sample.print
      /\ d = Delta(p)
  BY <1>3, <1>4, <1>5 DEF Deltas, Runs, Delta
<1>7. PICK old, new : old = journal.lines /\ new = Append(old, d)
  OBVIOUS
<1>8. /\ journal \in Journals /\ old \in Seq(Deltas) /\ Len(old) \in Nat /\ old \in LinesLeft
      /\ journal.synced \in Nat /\ journal.synced <= Len(old)
      /\ journal' = [journal EXCEPT !.torn = FALSE, !.lines = new]
      /\ new \in Seq(Deltas) /\ Len(new) = Len(old) + 1 /\ new[Len(new)] = d
  BY <1>6, <1>7, LinesLeftType DEF SyncInv, FilesType, LineEnd, EndLine
<1>9. /\ journal' \in Journals /\ journal'.lines = new /\ journal'.synced = journal.synced
      /\ journal'.there = journal.there
  BY <1>8 DEF Journals
<1>10. UNCHANGED <<snapshot, snapshotKept, journalKept, lock, source, faults, ingested, referenced, claimed>>
  BY DEF LineEnd, EndLine, history
<1>11. FilesType'
  BY <1>4, <1>8, <1>9, <1>10 DEF SyncInv, FilesType
<1>12. LinesLeft' \subseteq LinesLeft \cup {new}
  <2>1. ASSUME NEW k \in journal.synced .. Len(new)
        PROVE  SubSeq(new, 1, k) \in LinesLeft \cup {new}
    <3>1. CASE k = Len(new)
      BY <1>8, <3>1, SubSeqFull
    <3>2. CASE k # Len(new)
      <4>1. k \in journal.synced .. Len(old) /\ k \in Nat
        BY <1>8, <3>2
      <4>2. SubSeq(new, 1, k) = SubSeq(old, 1, k)
        BY <1>6, <1>7, <1>8, <4>1
      <4> QED
        BY <1>7, <4>1, <4>2 DEF LinesLeft
    <3> QED
      BY <3>1, <3>2
  <2> QED
    BY <1>9, <1>10, <2>1 DEF LinesLeft
<1>13. /\ Fine(snapshot, old) /\ HasLast(old)
       /\ \A s \in Sources : LoadAnswer(snapshot, old)[s] = Replay(snapshot.prints, old)[s]
       /\ \A s \in Sources : Progress[s] = Replay(snapshot.prints, old)[s]
  BY <1>4, <1>7, SeenIsFine DEF Fine, LoadAnswer, Progress
<1>14. /\ HasLast(new)
       /\ \A s \in Sources : Replay(snapshot.prints, new)[s] =
            IF s = d.source THEN d.print ELSE Replay(snapshot.prints, old)[s]
  BY <1>6, <1>7, <1>8, <1>13, ReplayAppend
<1>15. Fine(snapshot, new)
  <2>1. ~Unreadable(snapshot, new)
    <3>1. \A i \in 1 .. Len(old) : old[i].mode = snapshot.mode
      BY <1>4, <1>13 DEF Fine, Unreadable
    <3>2. \A i \in 1 .. Len(new) : new[i].mode = snapshot.mode
      BY <1>4, <1>6, <1>7, <1>8, <3>1
    <3> QED
      BY <1>4, <3>2 DEF Unreadable
  <2>2. \A s \in Sources : LoadAnswer(snapshot, new)[s] =
            IF s = d.source THEN d.print ELSE LoadAnswer(snapshot, old)[s]
    BY <1>4, <1>13, <1>14 DEF LoadAnswer
  <2>3. \A s \in Sources :
          /\ LoadAnswer(snapshot, new)[s] \in claimed[s]
          /\ LoadAnswer(snapshot, new)[s] # None =>
               SettledIn(snapshot.mode, s, LoadAnswer(snapshot, new)[s])
    <3> SUFFICES ASSUME NEW s \in Sources, NEW a, a = LoadAnswer(snapshot, new)[s]
                 PROVE  a \in claimed[s] /\ (a # None => SettledIn(snapshot.mode, s, a))
      OBVIOUS
    <3>1. CASE s = d.source
      <4>1. a = r.sample.print /\ s = r.unit
        BY <1>6, <2>2, <3>1
      <4> QED
        BY <1>4, <4>1
    <3>2. CASE s # d.source
      <4>1. a = LoadAnswer(snapshot, old)[s]
        BY <2>2, <3>2
      <4> QED
        BY <1>13, <4>1 DEF Fine
    <3> QED
      BY <3>1, <3>2
  <2> QED
    BY <1>14, <2>1, <2>3 DEF Fine
<1>16. SettledGrows
  BY <1>10 DEF SettledGrows
<1>17. DiskFine'
  <2> SUFFICES ASSUME NEW lines \in LinesLeft \cup {new}
               PROVE  Fine(snapshot, lines)'
    BY <1>4, <1>10, <1>12 DEF DiskFine
  <2>1. PICK snap : snap = snapshot
    OBVIOUS
  <2>2. Fine(snap, lines)
    BY <1>15, <2>1 DEF SyncInv, DiskFine
  <2>3. Fine(snap, lines)'
    BY <1>10, <1>16, <2>2, FineStays
  <2> QED
    BY <1>10, <2>1, <2>3
<1>18. \A s \in Sources : Progress'[s] = IF s = d.source THEN d.print ELSE Progress[s]
  <2>1. Progress' = Replay(snapshot.prints, new)
    BY <1>4, <1>9, <1>10 DEF Progress
  <2> QED
    BY <1>13, <1>14, <2>1
<1>19. d.print # None
  BY <1>4, <1>6, NamesAssumption
<1>20. CopyAt(run[p])' /\ UnitAt(run[p])'
  BY <1>1, <1>2, <1>3, <1>6, <1>16, <1>18, AppendKeeps
<1>21. FilesAt(run[p])'
  <2>1. new # << >>
    BY <1>8
  <2> QED
    BY <1>3, <1>4, <1>5, <1>8, <1>9, <1>10, <2>1 DEF FilesAt, Scanning
<1>22. /\ faults' \in 0 .. MaxFaults /\ r.pc \notin {"idle", "holding"}
       /\ claimed' \in [Sources -> SUBSET (Prints \cup {None})]
  BY <1>3, <1>10 DEF SyncInv, RunType
<1> QED
  BY <1>1, <1>3, <1>4, <1>10, <1>11, <1>16, <1>17, <1>18, <1>19, <1>20, <1>21, <1>22, HolderStep DEF Sound

(* The line is synchronised. *)
LEMMA LineSyncStep ==
  ASSUME SyncInv, NEW p \in Pollers, LineSync(p)
  PROVE  SyncInv'
<1>1. run[p].pc = "line-sync" /\ run[p].pc \in Appending /\ Running(p) /\ FilesAt(run[p])
  BY DEF SyncInv, Sound, LineSync, At, Running, Appending
<1>2. "dir-sync" \in Points /\ "dir-sync" \in Appending
  BY DEF Points, Appending
<1>3. PICK r \in Runs :
           /\ run' = [run EXCEPT ![p] = r] /\ run'[p] = r
           /\ r.pc = "dir-sync" /\ r.mode = run[p].mode /\ r.kind = run[p].kind
           /\ r.copy = run[p].copy /\ r.unit = run[p].unit /\ r.sample = run[p].sample
  BY <1>2, GotoIs DEF LineSync
<1>4. /\ journal \in Journals /\ Len(journal.lines) \in Nat /\ journal.lines \in LinesLeft
      /\ journal.synced \in Nat /\ journal.synced <= Len(journal.lines)
  BY LinesLeftType DEF SyncInv, FilesType
<1>5. /\ journal' \in Journals /\ journal'.lines = journal.lines /\ journal'.there = journal.there
      /\ journal'.synced = Len(journal.lines)
  BY <1>4 DEF LineSync, SyncJournal, Journals
<1>6. UNCHANGED <<snapshot, snapshotKept, journalKept, lock, source, faults, ingested, referenced, claimed>>
  BY DEF LineSync, SyncJournal, history
<1>7. FilesType'
  BY <1>4, <1>5, <1>6 DEF SyncInv, FilesType
<1>8. LinesLeft' \subseteq LinesLeft
  BY <1>4, <1>5, <1>6 DEF LinesLeft
<1>9. SettledGrows /\ Progress' = Progress
  BY <1>5, <1>6 DEF SettledGrows, Progress, Replay, Nothing
<1>10. CopyAt(run[p])' /\ UnitAt(run[p])'
  BY <1>1, <1>2, <1>3, <1>9, AppendKeeps
<1>11. FilesAt(run[p])'
  BY <1>1, <1>3, <1>5, <1>6 DEF FilesAt, Scanning
<1>12. r.pc \notin {"idle", "holding"} /\ UNCHANGED history
  BY <1>3, <1>6 DEF history
<1> QED
  BY <1>1, <1>3, <1>5, <1>6, <1>7, <1>8, <1>10, <1>11, <1>12, SyncStep DEF Sound


(* The append is acknowledged: its line is the last one and cannot be lost *)
(* any more, so that nothing but its fingerprint can be answered.          *)
LEMMA AppendDoneStep ==
  ASSUME SyncInv, NEW p \in Pollers, AppendDone(p)
  PROVE  SyncInv'
<1>1. run[p].pc = "dir-sync" /\ run[p].pc \in Appending /\ Running(p) /\ Sound(run[p])
  BY DEF SyncInv, AppendDone, At, Running, Appending
<1>2. "scan" \in Points
  BY DEF Points, Scanning
<1>3. PICK r \in Runs :
           /\ run' = [run EXCEPT ![p] = r] /\ run'[p] = r
           /\ r.pc = "scan" /\ r.mode = run[p].mode /\ r.kind = run[p].kind
           /\ r.copy = run[p].copy /\ r.unit = run[p].unit /\ r.sample = run[p].sample
  BY <1>2, GotoIs DEF AppendDone
<1>4. PICK lines, snap, u, f :
        /\ lines = journal.lines /\ snap = snapshot /\ u = r.unit /\ f = r.sample.print
        /\ u \in Sources /\ f \in Prints
  BY <1>1, <1>3 DEF Sound, UnitAt, Samples
<1>5. /\ snap # None /\ snap.mode = r.mode /\ journal.synced = Len(lines)
      /\ lines # << >> /\ lines[Len(lines)] = [mode |-> r.mode, source |-> u, print |-> f]
  BY <1>1, <1>3, <1>4 DEF Sound, FilesAt
<1>6. lines \in Seq(Deltas) /\ Len(lines) \in Nat
  BY <1>4, LinesLeftType DEF SyncInv
<1>7. /\ FilesType' /\ Clean' /\ snapshot' = snapshot /\ journal' = journal
  BY SyncDirectoryKeeps DEF SyncInv, FilesType, AppendDone
<1>8. UNCHANGED <<lock, source, faults, ingested, referenced>>
  BY DEF AppendDone
<1>9. claimed' = [claimed EXCEPT ![u] = {f}]
  BY <1>3, <1>4 DEF AppendDone
<1>10. /\ claimed' \in [Sources -> SUBSET (Prints \cup {None})]
       /\ claimed'[u] = {f} /\ \A s \in Sources \ {u} : claimed'[s] = claimed[s]
  BY <1>4, <1>9 DEF SyncInv, RunType
<1>11. SettledGrows /\ Progress' = Progress
  BY <1>7, <1>8 DEF SettledGrows, Progress, Replay, Nothing
<1>12. LinesLeft' = {lines}
  <2>1. journalKept'.same
    BY <1>7 DEF Clean, Same
  <2>2. SubSeq(lines, 1, Len(lines)) = lines
    BY <1>6, SubSeqFull
  <2>3. Len(lines) .. Len(lines) = {Len(lines)}
    BY <1>6
  <2> QED
    BY <1>4, <1>5, <1>7, <2>1, <2>2, <2>3 DEF LinesLeft
<1>13. Fine(snap, lines)
  BY <1>4, SeenIsFine
<1>14. LoadAnswer(snap, lines)[u] = f
  <2>1. Len(lines) \in 1 .. Len(lines) /\ \A j \in 1 .. Len(lines) : j <= Len(lines)
    BY <1>5, <1>6
  <2>2. Replay(snap.prints, lines)[u] = lines[Len(lines)].print
    BY <1>4, <1>5, <1>6, <2>1, ReplayLast
  <2> QED
    BY <1>5, <2>2 DEF LoadAnswer
<1>15. Fine(snap, lines)'
  <2>1. PICK answer : answer = LoadAnswer(snap, lines)
    OBVIOUS
  <2>2. \A s \in Sources : answer[s] # None => SettledIn(snap.mode, s, answer[s])'
    BY <1>11, <1>13, <2>1, SettledStays DEF Fine
  <2>3. \A s \in Sources : answer[s] \in claimed'[s]
    BY <1>10, <1>13, <1>14, <2>1 DEF Fine
  <2>4. answer = LoadAnswer(snap, lines)'
    BY <2>1 DEF LoadAnswer, Replay, Nothing
  <2>5. ~Unreadable(snap, lines)' /\ HasLast(lines)'
    BY <1>13 DEF Fine, Unreadable, HasLast
  <2> QED
    BY <2>2, <2>3, <2>4, <2>5 DEF Fine
<1>16. DiskFine'
  BY <1>4, <1>7, <1>12, <1>15 DEF DiskFine, Clean
<1>17. CopyAt(run[p])' /\ UnitAt(run[p])'
  BY <1>1, <1>3, <1>11, AppendKeeps
<1>18. FilesAt(run[p])'
  BY <1>3, <1>4, <1>5, <1>7 DEF FilesAt, Scanning
<1>19. faults' \in 0 .. MaxFaults /\ r.pc \notin {"idle", "holding"}
  BY <1>3, <1>8 DEF SyncInv, RunType
<1> QED
  BY <1>1, <1>3, <1>4, <1>5, <1>7, <1>8, <1>10, <1>11, <1>16, <1>17, <1>18, <1>19, HolderStep DEF Sound

-----------------------------------------------------------------------------
(* A copy to be saved, over no line: what load answers is the copy. *)
LEMMA CopyIsFine ==
  ASSUME NEW r \in Runs, NEW ck, ck = [mode |-> r.mode, prints |-> r.copy],
         \A s \in Sources : r.copy[s] # None => SettledIn(r.mode, s, r.copy[s]),
         \A s \in Sources : r.copy[s] \in claimed[s]
  PROVE  /\ ck \in Checkpoints /\ ck # None /\ ck.mode = r.mode /\ ck.prints = r.copy
         /\ \A s \in Sources : Replay(ck.prints, << >>)[s] = r.copy[s]
         /\ Fine(ck, << >>)
<1>1. ck \in Checkpoints /\ ck.mode = r.mode /\ ck.prints = r.copy
  BY DEF Runs, Checkpoints
<1>2. ck # None
  BY <1>1, NamesAssumption
<1>3. \A s \in Sources : Replay(ck.prints, << >>)[s] = r.copy[s]
  BY <1>1, ReplayEmpty
<1>4. \A s \in Sources : LoadAnswer(ck, << >>)[s] = r.copy[s]
  BY <1>2, <1>3 DEF LoadAnswer
<1> QED
  BY <1>1, <1>2, <1>3, <1>4 DEF Fine, Unreadable, HasLast

(* Within a save the copy stays as it was and covers what the store holds. *)
LEMMA SaveKeeps ==
  ASSUME SyncInv, NEW p \in Pollers, run[p].pc \in Saving, NEW r \in Runs,
         run'[p] = r, r.pc \in {"save-sync", "retire", "retire-sync", "unlock"}, r.mode = run[p].mode,
         r.kind = run[p].kind, r.copy = run[p].copy, SettledGrows, snapshot' # None,
         \A s \in Sources : Progress'[s] = Progress[s] \/ Progress'[s] = r.copy[s]
  PROVE  /\ CopyAt(run[p])' /\ UnitAt(run[p])'
         /\ \A s \in Sources : Progress[s] # None => Progress'[s] # None
<1>1. CopyAt(run[p])
  BY DEF SyncInv, Sound
<1>2. UnitAt(run[p])'
  BY DEF UnitAt, Scanning, Appending, Sampling
<1>3. \A s \in Sources : Progress[s] # None => r.copy[s] # None
  BY <1>1 DEF CopyAt
<1>4. CopyAt(run[p])'
  <2>1. \A s \in Sources : r.copy[s] # None => SettledIn(r.mode, s, r.copy[s])'
    BY <1>1, SettledStays DEF CopyAt
  <2>2. \A s \in Sources : Progress'[s] # None => r.copy[s] # None
    BY <1>3
  <2>3. r.kind \in {"borrow", "save"} => \A s \in Sources : r.copy[s] # None => Progress'[s] # None
    BY <1>1 DEF CopyAt
  <2> QED
    BY <2>1, <2>2, <2>3 DEF CopyAt, Scanning, Appending
<1> QED
  BY <1>2, <1>3, <1>4


(* The copy goes in place, with the old journal over it for a while: each  *)
(* line is of a version the store answered before.                         *)
LEMMA SaveRenameStep ==
  ASSUME SyncInv, NEW p \in Pollers, SaveRename(p)
  PROVE  SyncInv'
<1>1. /\ run[p].pc = "save" /\ run[p].pc \in Saving /\ Running(p)
      /\ FilesAt(run[p]) /\ CopyAt(run[p])
  BY DEF SyncInv, Sound, SaveRename, At, Running, Saving
<1>2. "save-sync" \in Points
  BY DEF Points, Saving
<1>3. PICK r \in Runs :
           /\ run' = [run EXCEPT ![p] = r] /\ run'[p] = r
           /\ r.pc = "save-sync" /\ r.mode = run[p].mode /\ r.kind = run[p].kind
           /\ r.copy = run[p].copy /\ r.unit = run[p].unit /\ r.sample = run[p].sample
  BY <1>2, GotoIs DEF SaveRename
<1>4. /\ Clean /\ (snapshot = None \/ snapshot.mode = r.mode)
      /\ \A s \in Sources : r.copy[s] # None => SettledIn(r.mode, s, r.copy[s])
      /\ r.kind = "save" => \A s \in Sources : r.copy[s] = Progress[s]
  BY <1>1, <1>3 DEF FilesAt, CopyAt
<1>5. PICK ck : ck = [mode |-> r.mode, prints |-> r.copy]
  OBVIOUS
<1>6. snapshot' = ck /\ UNCHANGED <<snapshotKept, journal, journalKept, lock, source, faults, ingested, referenced>>
  BY <1>3, <1>5 DEF SaveRename, RenameSnapshot
<1>7. r.copy \in Fingerprints
  BY DEF Runs
<1>8. /\ claimed' \in [Sources -> SUBSET (Prints \cup {None})]
      /\ \A s \in Sources : claimed[s] \subseteq claimed'[s] /\ r.copy[s] \in claimed'[s]
  <2>1. claimed \in [Sources -> SUBSET (Prints \cup {None})]
    BY DEF SyncInv, RunType
  <2>2. CASE r.kind = "save"
    <3>1. \A s \in Sources : Progress[s] \in claimed[s]
      BY SeenIsFine DEF Fine
    <3>2. claimed' = claimed
      BY <1>3, <2>2 DEF SaveRename
    <3> QED
      BY <1>4, <2>1, <2>2, <3>1, <3>2
  <2>3. CASE r.kind # "save"
    <3>1. claimed' = [s \in Sources |-> claimed[s] \cup {r.copy[s]}]
      BY <1>3, <2>3 DEF SaveRename
    <3> QED
      BY <1>7, <2>1, <3>1 DEF Fingerprints
  <2> QED
    BY <2>2, <2>3
<1>9. SettledGrows /\ LinesLeft' = LinesLeft
  BY <1>6 DEF SettledGrows, LinesLeft
<1>10. /\ ck \in Checkpoints /\ ck # None /\ ck.mode = r.mode /\ ck.prints = r.copy
  <2>1. ck \in Checkpoints /\ ck.mode = r.mode /\ ck.prints = r.copy
    BY <1>5 DEF Runs, Checkpoints
  <2> QED
    BY <2>1, NamesAssumption
<1>11. FilesType'
  BY <1>6, <1>10 DEF SyncInv, FilesType
<1>12. PICK snap : snap = snapshot
  OBVIOUS
<1>13. ASSUME NEW lines \in LinesLeft
       PROVE  /\ Fine(snap, lines)
              /\ \A s \in Sources : \/ LoadAnswer(ck, lines)[s] = r.copy[s]
                                    \/ LoadAnswer(ck, lines)[s] = LoadAnswer(snap, lines)[s]
  <2>1. Fine(snap, lines)
    BY <1>12 DEF SyncInv, DiskFine
  <2>2. CASE snap = None
    <3>1. lines = << >>
      BY <2>1, <2>2 DEF Fine, Unreadable
    <3> QED
      BY <1>10, <2>1, <3>1, ReplayEmpty DEF LoadAnswer
  <2>3. CASE snap # None
    BY <1>10, <2>1, <2>3, ReplayOver DEF LoadAnswer
  <2> QED
    BY <2>2, <2>3
<1>14. ASSUME NEW lines \in LinesLeft
       PROVE  Fine(ck, lines)'
  <2>1. Fine(snap, lines)
    BY <1>13
  <2>2. ~Unreadable(ck, lines)
    BY <1>4, <1>10, <1>12, <2>1 DEF Fine, Unreadable
  <2>3. PICK answer : answer = LoadAnswer(ck, lines)
    OBVIOUS
  <2>4. ASSUME NEW s \in Sources
        PROVE  /\ answer[s] \in claimed'[s]
               /\ answer[s] # None => SettledIn(ck.mode, s, answer[s])'
    <3>1. CASE answer[s] = r.copy[s]
      <4>1. r.copy[s] # None => SettledIn(r.mode, s, r.copy[s])'
        BY <1>4, <1>9, SettledStays
      <4> QED
        BY <1>8, <1>10, <3>1, <4>1
    <3>2. CASE answer[s] # r.copy[s]
      <4>1. PICK a : a = answer[s] /\ a = LoadAnswer(snap, lines)[s]
        BY <1>13, <2>3, <3>2
      <4>2. snap # None \/ a = None
        BY <4>1 DEF LoadAnswer, Nothing
      <4>3. a \in claimed[s] /\ (a # None => SettledIn(snap.mode, s, a))
        BY <2>1, <4>1 DEF Fine
      <4>4. a # None => SettledIn(ck.mode, s, a)
        BY <1>4, <1>10, <1>12, <4>2, <4>3
      <4>5. a # None => SettledIn(ck.mode, s, a)'
        BY <1>9, <4>4, SettledStays
      <4> QED
        BY <1>8, <4>1, <4>3, <4>5
    <3> QED
      BY <3>1, <3>2
  <2>5. answer = LoadAnswer(ck, lines)'
    BY <2>3 DEF LoadAnswer, Replay, Nothing
  <2>6. ~Unreadable(ck, lines)' /\ HasLast(lines)'
    BY <2>1, <2>2 DEF Fine, Unreadable, HasLast
  <2> QED
    BY <2>4, <2>5, <2>6 DEF Fine
<1>15. DiskFine'
  <2> SUFFICES ASSUME NEW it \in {ck, snap}, NEW lines \in LinesLeft
               PROVE  Fine(it, lines)'
    BY <1>4, <1>6, <1>9, <1>12 DEF DiskFine, Clean
  <2>1. CASE it = ck
    BY <1>14, <2>1
  <2>2. CASE it = snap
    BY <1>8, <1>9, <1>13, <2>2, FineStays
  <2> QED
    BY <2>1, <2>2
<1>16. \A s \in Sources : Progress'[s] = Progress[s] \/ Progress'[s] = r.copy[s]
  <2>1. journal.lines \in LinesLeft
    BY LinesLeftType DEF SyncInv
  <2>2. Progress' = LoadAnswer(ck, journal.lines) /\ Progress = LoadAnswer(snap, journal.lines)
    BY <1>6, <1>10, <1>12 DEF Progress, LoadAnswer
  <2> QED
    BY <1>13, <2>1, <2>2
<1>17. /\ CopyAt(run[p])' /\ UnitAt(run[p])'
       /\ \A s \in Sources : Progress[s] # None => Progress'[s] # None
  BY <1>1, <1>3, <1>6, <1>9, <1>10, <1>16, SaveKeeps
<1>18. FilesAt(run[p])'
  BY <1>3, <1>4, <1>5, <1>6, <1>8 DEF FilesAt, Scanning, Clean, Same
<1>19. faults' \in 0 .. MaxFaults /\ r.pc \notin {"idle", "holding"}
  BY <1>3, <1>6 DEF SyncInv, RunType
<1> QED
  BY <1>1, <1>3, <1>6, <1>8, <1>9, <1>10, <1>11, <1>15, <1>17, <1>18, <1>19, HolderStep DEF Sound

(* The copy's entry is durable. *)
LEMMA SaveSyncStep ==
  ASSUME SyncInv, NEW p \in Pollers, SaveSync(p)
  PROVE  SyncInv'
<1>1. run[p].pc = "save-sync" /\ run[p].pc \in Saving /\ Running(p) /\ FilesAt(run[p])
  BY DEF SyncInv, Sound, SaveSync, At, Running, Saving
<1>2. "retire" \in Points
  BY DEF Points, Saving
<1>3. PICK r \in Runs :
           /\ run' = [run EXCEPT ![p] = r] /\ run'[p] = r
           /\ r.pc = "retire" /\ r.mode = run[p].mode /\ r.kind = run[p].kind
           /\ r.copy = run[p].copy /\ r.unit = run[p].unit /\ r.sample = run[p].sample
  BY <1>2, GotoIs DEF SaveSync
<1>4. /\ FilesType' /\ Clean' /\ snapshot' = snapshot /\ journal' = journal
      /\ LinesLeft' \subseteq LinesLeft
  BY SyncDirectoryKeeps DEF SyncInv, FilesType, SaveSync
<1>5. SettledGrows /\ Progress' = Progress /\ claimed' = claimed
  BY <1>4 DEF SaveSync, history, SettledGrows, Progress, Replay, Nothing
<1>6. /\ snapshot = [mode |-> r.mode, prints |-> r.copy]
      /\ \A s \in Sources : r.copy[s] \in claimed[s]
  BY <1>1, <1>3 DEF FilesAt
<1>7. snapshot \in Checkpoints /\ snapshot # None
  BY <1>6, NamesAssumption DEF Runs, Checkpoints
<1>8. CopyAt(run[p])' /\ UnitAt(run[p])'
  BY <1>1, <1>3, <1>4, <1>5, <1>7, SaveKeeps
<1>9. FilesAt(run[p])'
  BY <1>3, <1>4, <1>5, <1>6 DEF FilesAt, Scanning
<1> QED
  BY <1>1, <1>3, <1>4, <1>8, <1>9, SyncStep DEF Sound, Clean, SaveSync


(* The journal is removed: the copy stands alone, or with the part of the  *)
(* journal that a power loss may bring back.                               *)
LEMMA SaveRetireStep ==
  ASSUME SyncInv, NEW p \in Pollers, SaveRetire(p)
  PROVE  SyncInv'
<1>1. /\ run[p].pc = "retire" /\ run[p].pc \in Saving /\ Running(p)
      /\ FilesAt(run[p]) /\ CopyAt(run[p])
  BY DEF SyncInv, Sound, SaveRetire, At, Running, Saving
<1>2. "retire-sync" \in Points
  BY DEF Points, Saving
<1>3. PICK r \in Runs :
           /\ run' = [run EXCEPT ![p] = r] /\ run'[p] = r
           /\ r.pc = "retire-sync" /\ r.mode = run[p].mode /\ r.kind = run[p].kind
           /\ r.copy = run[p].copy /\ r.unit = run[p].unit /\ r.sample = run[p].sample
  BY <1>2, GotoIs DEF SaveRetire
<1>4. PICK ck : ck = snapshot
  OBVIOUS
<1>5. /\ Clean /\ ck = [mode |-> r.mode, prints |-> r.copy] /\ snapshotKept = ck
      /\ \A s \in Sources : r.copy[s] \in claimed[s]
      /\ \A s \in Sources : r.copy[s] # None => SettledIn(r.mode, s, r.copy[s])
  BY <1>1, <1>3, <1>4 DEF FilesAt, CopyAt, Clean
<1>6. /\ ck # None /\ ck.prints = r.copy
      /\ \A s \in Sources : Replay(ck.prints, << >>)[s] = r.copy[s]
      /\ Fine(ck, << >>)
  BY <1>5, CopyIsFine
<1>7. /\ UNCHANGED <<snapshot, snapshotKept, lock, source, faults, ingested, referenced, claimed>>
      /\ journal' = NoJournal
  BY DEF SaveRetire, RemoveJournal, history
<1>8. /\ journal' \in Journals /\ journal'.lines = << >> /\ journal'.synced = 0
      /\ Len(journal'.lines) = 0
  BY <1>7 DEF NoJournal, Journals
<1>9. /\ journalKept' \in KeptJournals
      /\ journalKept'.there \/ journalKept'.lines = << >>
      /\ journalKept'.same \/ journalKept'.lines \in LinesLeft
  <2>1. journalKept = Same /\ Same.same /\ Same \in KeptJournals /\ Same.lines = << >>
    BY <1>5 DEF Clean, Same, KeptJournals
  <2>2. CASE ~journal.there
    BY <2>1, <2>2 DEF SaveRetire, RemoveJournal
  <2>3. CASE journal.there
    <3>1. PICK k \in journal.synced .. Len(journal.lines) :
            journalKept' = [same |-> FALSE, there |-> TRUE, lines |-> SubSeq(journal.lines, 1, k)]
      BY <2>1, <2>3 DEF SaveRetire, RemoveJournal
    <3>2. SubSeq(journal.lines, 1, k) \in LinesLeft
      BY DEF LinesLeft
    <3>3. SubSeq(journal.lines, 1, k) \in Seq(Deltas)
      BY <3>2, LinesLeftType DEF SyncInv
    <3> QED
      BY <3>1, <3>2, <3>3 DEF KeptJournals
  <2> QED
    BY <2>2, <2>3
<1>10. FilesType'
  BY <1>7, <1>8, <1>9 DEF SyncInv, FilesType
<1>11. LinesLeft' \subseteq LinesLeft \cup {<< >>}
  <2>1. \A k \in 0 .. 0 : SubSeq(<< >>, 1, k) = << >>
    OBVIOUS
  <2> QED
    BY <1>8, <1>9, <2>1 DEF LinesLeft
<1>12. SettledGrows
  BY <1>7 DEF SettledGrows
<1>13. DiskFine'
  <2> SUFFICES ASSUME NEW lines \in LinesLeft \cup {<< >>}
               PROVE  Fine(ck, lines)'
    BY <1>4, <1>5, <1>7, <1>11 DEF DiskFine
  <2>1. Fine(ck, lines)
    BY <1>4, <1>6 DEF SyncInv, DiskFine
  <2> QED
    BY <1>7, <1>12, <2>1, FineStays
<1>14. \A s \in Sources : Progress'[s] = r.copy[s]
  BY <1>4, <1>6, <1>7, <1>8 DEF Progress
<1>15. /\ CopyAt(run[p])' /\ UnitAt(run[p])'
       /\ \A s \in Sources : Progress[s] # None => Progress'[s] # None
  BY <1>1, <1>3, <1>4, <1>6, <1>7, <1>12, <1>14, SaveKeeps
<1>16. FilesAt(run[p])'
  BY <1>3, <1>4, <1>5, <1>7, <1>8 DEF FilesAt, Scanning
<1>17. /\ faults' \in 0 .. MaxFaults /\ r.pc \notin {"idle", "holding"}
       /\ claimed' \in [Sources -> SUBSET (Prints \cup {None})]
  BY <1>3, <1>7 DEF SyncInv, RunType
<1> QED
  BY <1>1, <1>3, <1>7, <1>10, <1>12, <1>13, <1>15, <1>16, <1>17, HolderStep DEF Sound

(* The save is acknowledged: the copy, and nothing else, can be answered. *)
LEMMA SaveDoneStep ==
  ASSUME SyncInv, NEW p \in Pollers, SaveDone(p)
  PROVE  SyncInv'
<1>1. /\ run[p].pc = "retire-sync" /\ run[p].pc \in Saving /\ Running(p)
      /\ FilesAt(run[p]) /\ CopyAt(run[p])
  BY DEF SyncInv, Sound, SaveDone, At, Running, Saving
<1>2. "unlock" \in Points
  BY DEF Points
<1>3. PICK r \in Runs :
           /\ run' = [run EXCEPT ![p] = r] /\ run'[p] = r
           /\ r.pc = "unlock" /\ r.mode = run[p].mode /\ r.kind = run[p].kind
           /\ r.copy = run[p].copy /\ r.unit = run[p].unit /\ r.sample = run[p].sample
  BY <1>2, GotoIs DEF SaveDone
<1>4. PICK ck : ck = snapshot
  OBVIOUS
<1>5. /\ ck = [mode |-> r.mode, prints |-> r.copy]
      /\ journal.lines = << >> /\ journal.synced = 0
      /\ \A s \in Sources : r.copy[s] \in claimed[s]
      /\ \A s \in Sources : r.copy[s] # None => SettledIn(r.mode, s, r.copy[s])
  BY <1>1, <1>3, <1>4 DEF FilesAt, CopyAt
<1>6. /\ FilesType' /\ Clean' /\ snapshot' = snapshot /\ journal' = journal
  BY SyncDirectoryKeeps DEF SyncInv, FilesType, SaveDone
<1>7. UNCHANGED <<lock, source, faults, ingested, referenced>>
  BY DEF SaveDone
<1>8. SettledGrows /\ Progress' = Progress
  BY <1>6, <1>7 DEF SettledGrows, Progress, Replay, Nothing
<1>9. /\ claimed' \in [Sources -> SUBSET (Prints \cup {None})]
      /\ \A s \in Sources : r.copy[s] \in claimed'[s]
  <2>1. claimed \in [Sources -> SUBSET (Prints \cup {None})] /\ r.copy \in Fingerprints
    BY DEF SyncInv, RunType, Runs
  <2>2. claimed' = IF r.kind = "save" THEN claimed ELSE [s \in Sources |-> {r.copy[s]}]
    BY <1>3 DEF SaveDone
  <2>3. CASE r.kind = "save"
    BY <1>5, <2>1, <2>2, <2>3
  <2>4. CASE r.kind # "save"
    BY <2>1, <2>2, <2>4 DEF Fingerprints
  <2> QED
    BY <2>3, <2>4
<1>10. \A s \in Sources : r.copy[s] # None => SettledIn(r.mode, s, r.copy[s])'
  BY <1>5, <1>8, SettledStays
<1>11. ck # None /\ Fine(ck, << >>)'
  <2>1. /\ ck # None /\ ck.mode = r.mode
        /\ \A s \in Sources : Replay(ck.prints, << >>)[s] = r.copy[s]
    BY <1>5, CopyIsFine
  <2>2. \A s \in Sources : LoadAnswer(ck, << >>)[s] = r.copy[s]
    BY <2>1 DEF LoadAnswer
  <2>3. PICK answer : answer = LoadAnswer(ck, << >>)
    OBVIOUS
  <2>4. answer = LoadAnswer(ck, << >>)'
    BY <2>3 DEF LoadAnswer, Replay, Nothing
  <2>5. \A s \in Sources : /\ answer[s] \in claimed'[s]
                           /\ answer[s] # None => SettledIn(ck.mode, s, answer[s])'
    BY <1>9, <1>10, <2>1, <2>2, <2>3
  <2>6. ~Unreadable(ck, << >>)' /\ HasLast(<< >>)'
    BY <2>1 DEF Unreadable, HasLast
  <2> QED
    BY <2>1, <2>4, <2>5, <2>6 DEF Fine
<1>12. LinesLeft' = {<< >>}
  <2>1. journalKept'.same
    BY <1>6 DEF Clean, Same
  <2>2. 0 .. Len(<< >>) = {0} /\ SubSeq(<< >>, 1, 0) = << >>
    OBVIOUS
  <2> QED
    BY <1>5, <1>6, <2>1, <2>2 DEF LinesLeft
<1>13. DiskFine'
  BY <1>4, <1>6, <1>11, <1>12 DEF DiskFine, Clean
<1>14. CopyAt(run[p])' /\ UnitAt(run[p])'
  BY <1>1, <1>3, <1>4, <1>6, <1>8, <1>11, SaveKeeps
<1>15. FilesAt(run[p])'
  BY <1>3 DEF FilesAt, Scanning
<1>16. faults' \in 0 .. MaxFaults /\ r.pc \notin {"idle", "holding"}
  BY <1>3, <1>7 DEF SyncInv, RunType
<1> QED
  BY <1>1, <1>3, <1>4, <1>6, <1>7, <1>8, <1>9, <1>11, <1>13, <1>14, <1>15, <1>16, HolderStep DEF Sound

-----------------------------------------------------------------------------
(* Idle is a run about which nothing has to hold. *)
LEMMA IdleIsSound ==
  /\ Idle \in Runs /\ Idle.pc = "idle" /\ Idle.copy = Nothing /\ Idle.kind = "poll"
  /\ Nothing \in Fingerprints /\ \A s \in Sources : Nothing[s] = None
BY DEF Idle, Runs, Points, Nothing, Fingerprints, Modes

(* A poller without the lock takes it. *)
LEMMA EnterStep ==
  ASSUME SyncInv, NEW p \in Pollers, NEW r \in Runs,
         r.pc \in {"load", "compare"}, run' = [run EXCEPT ![p] = r], TakeLock(p),
         UNCHANGED <<source, faults, history>>, CopyAt(r)
  PROVE  SyncInv'
<1>1. lock = None /\ lock' = p /\ None \notin Pollers
  BY NamesAssumption DEF TakeLock, LockFree
<1>2. run \in [Pollers -> Runs] /\ run'[p] = r /\ \A q \in Pollers \ {p} : run'[q] = run[q]
  BY DEF SyncInv, RunType
<1>3. \A q \in Pollers : ~Running(q)
  BY <1>1 DEF SyncInv, LockHeld
<1>4. /\ FilesType' /\ Clean' /\ snapshot' = snapshot /\ journal' = journal
      /\ LinesLeft' \subseteq LinesLeft
  BY <1>1, SyncDirectoryKeeps DEF SyncInv, TakeLock
<1>5. SettledGrows /\ Progress' = Progress /\ claimed' = claimed
  BY <1>4 DEF history, SettledGrows, Progress, Replay, Nothing
<1>6. RunType'
  BY <1>2, <1>5 DEF SyncInv, RunType
<1>7. LockHeld'
  BY <1>1, <1>2, <1>3 DEF LockHeld, Running
<1>8. DiskFine'
  BY <1>4, <1>5, DiskShrinks DEF SyncInv, Clean
<1>9. Sound(run[p])'
  <2>1. FilesAt(run[p])'
    BY <1>2, <1>4 DEF FilesAt, Scanning
  <2>2. UnitAt(run[p])'
    BY <1>2 DEF UnitAt, Scanning, Appending, Sampling
  <2>3. CopyAt(run[p])'
    BY <1>2, <1>4, <1>5, SettledStays DEF CopyAt
  <2> QED
    BY <2>1, <2>2, <2>3 DEF Sound
<1>10. \A q \in Pollers \ {p} : Sound(run[q])'
  BY <1>2, <1>3, <1>4, <1>5, OthersKeep
<1> QED
  BY <1>4, <1>6, <1>7, <1>8, <1>9, <1>10 DEF SyncInv

(* The poller that runs stops, whether or not the directory is             *)
(* synchronised.                                                           *)
LEMMA LeaveStep ==
  ASSUME SyncInv, NEW p \in Pollers, Running(p), NEW r \in Runs,
         r.pc \in {"idle", "holding"}, run' = [run EXCEPT ![p] = r], lock' \in {None, Stale},
         SyncDirectory \/ UNCHANGED disk, UNCHANGED <<source, history>>,
         faults' \in 0 .. MaxFaults, CopyAt(r)
  PROVE  SyncInv'
<1>1. None \notin Pollers /\ Stale \notin Pollers
  BY NamesAssumption
<1>2. run \in [Pollers -> Runs] /\ run'[p] = r /\ \A q \in Pollers \ {p} : run'[q] = run[q]
  BY DEF SyncInv, RunType
<1>3. \A q \in Pollers \ {p} : ~Running(q)
  BY DEF SyncInv, LockHeld
<1>4. /\ FilesType' /\ snapshot' = snapshot /\ journal' = journal
      /\ snapshotKept' \in {snapshot, snapshotKept}
      /\ LinesLeft' \subseteq LinesLeft
  <2>1. CASE SyncDirectory
    BY <2>1, SyncDirectoryKeeps DEF SyncInv, Clean
  <2>2. CASE UNCHANGED disk
    BY <2>2 DEF SyncInv, FilesType, disk, LinesLeft
  <2> QED
    BY <2>1, <2>2
<1>5. SettledGrows /\ Progress' = Progress /\ claimed' = claimed
  BY <1>4 DEF history, SettledGrows, Progress, Replay, Nothing
<1>6. RunType'
  BY <1>2, <1>5 DEF SyncInv, RunType
<1>7. LockHeld'
  BY <1>1, <1>2, <1>3 DEF LockHeld, Running
<1>8. DiskFine'
  BY <1>4, <1>5, DiskShrinks DEF SyncInv
<1>9. Sound(run[p])'
  <2>1. FilesAt(run[p])'
    BY <1>2 DEF FilesAt, Scanning
  <2>2. UnitAt(run[p])'
    BY <1>2 DEF UnitAt, Scanning, Appending, Sampling
  <2>3. CopyAt(run[p])'
    BY <1>2, <1>4, <1>5, SettledStays DEF CopyAt
  <2> QED
    BY <2>1, <2>2, <2>3 DEF Sound
<1>10. \A q \in Pollers \ {p} : Sound(run[q])'
  BY <1>2, <1>3, <1>4, <1>5, OthersKeep
<1> QED
  BY <1>4, <1>6, <1>7, <1>8, <1>9, <1>10 DEF SyncInv


(* A poll or a baseline begins. *)
LEMMA BeginStep ==
  ASSUME SyncInv, NEW p \in Pollers, NEW mode \in Modes, NEW kind \in {"poll", "baseline"},
         Begin(p, mode, kind)
  PROVE  SyncInv'
<1>1. PICK r : r = [Idle EXCEPT !.pc = "load", !.mode = mode, !.kind = kind]
  OBVIOUS
<1>2. /\ r \in Runs /\ r.pc = "load" /\ r.kind = kind /\ r.copy = Nothing
      /\ \A s \in Sources : Nothing[s] = None
  BY <1>1, IdleIsSound DEF Runs, Points
<1>3. run' = [run EXCEPT ![p] = r]
  BY <1>1 DEF Begin
<1>4. CopyAt(r)
  BY <1>2 DEF CopyAt, Scanning, Appending, Saving
<1> QED
  BY <1>2, <1>3, <1>4, EnterStep DEF Begin

(* A caller begins to load a checkpoint. *)
LEMMA BeginBorrowStep ==
  ASSUME SyncInv, NEW p \in Pollers, BeginBorrow(p)
  PROVE  SyncInv'
<1>1. PICK r : r = [Idle EXCEPT !.pc = "load", !.kind = "borrow"]
  OBVIOUS
<1>2. /\ r \in Runs /\ r.pc = "load" /\ r.kind = "borrow" /\ r.copy = Nothing
      /\ \A s \in Sources : Nothing[s] = None
  BY <1>1, IdleIsSound DEF Runs, Points
<1>3. run' = [run EXCEPT ![p] = r]
  BY <1>1 DEF BeginBorrow
<1>4. CopyAt(r)
  BY <1>2 DEF CopyAt, Scanning, Appending, Saving, BeginBorrow
<1> QED
  BY <1>2, <1>3, <1>4, EnterStep DEF BeginBorrow

(* The caller begins to save it back. *)
LEMMA BeginSaveStep ==
  ASSUME SyncInv, NEW p \in Pollers, BeginSave(p)
  PROVE  SyncInv'
<1>1. "compare" \in Points /\ run[p].pc = "holding" /\ CopyAt(run[p])
  BY DEF Points, BeginSave, At, SyncInv, Sound
<1>2. PICK r \in Runs :
           /\ run' = [run EXCEPT ![p] = r]
           /\ r.pc = "compare" /\ r.mode = run[p].mode /\ r.kind = run[p].kind
           /\ r.copy = run[p].copy
  BY <1>1, GotoIs DEF BeginSave
<1>3. CopyAt(r)
  BY <1>1, <1>2 DEF CopyAt, Scanning, Appending, Saving
<1> QED
  BY <1>2, <1>3, EnterStep DEF BeginSave

(* runExclusive's finally. *)
LEMMA UnlockStep ==
  ASSUME SyncInv, NEW p \in Pollers, Unlock(p)
  PROVE  SyncInv'
<1>1. /\ run[p] \in Runs /\ run[p].pc = "unlock" /\ CopyAt(run[p]) /\ Running(p)
  BY DEF SyncInv, RunType, Sound, Unlock, At, Running
<1>2. PICK r : r = IF run[p].kind = "borrow"
                   THEN [run[p] EXCEPT !.pc = "holding", !.kind = "save"] ELSE Idle
  OBVIOUS
<1>3. run' = [run EXCEPT ![p] = r] /\ faults' \in 0 .. MaxFaults
  BY <1>2 DEF Unlock, SyncInv, RunType
<1>4. r \in Runs /\ r.pc \in {"idle", "holding"} /\ CopyAt(r)
  <2>1. CASE run[p].kind = "borrow"
    <3>1. /\ r \in Runs /\ r.pc = "holding" /\ r.kind = "save"
          /\ r.copy = run[p].copy /\ r.mode = run[p].mode
      BY <1>1, <1>2, <2>1 DEF Runs, Points
    <3> QED
      BY <1>1, <2>1, <3>1 DEF CopyAt, Scanning, Appending, Saving
  <2>2. CASE run[p].kind # "borrow"
    <3>1. r = Idle
      BY <1>2, <2>2
    <3> QED
      BY <3>1, IdleIsSound DEF CopyAt, Scanning, Appending, Saving
  <2> QED
    BY <2>1, <2>2
<1> QED
  BY <1>1, <1>3, <1>4, LeaveStep DEF Unlock, DropLock

(* An awaited call throws. *)
LEMMA ThrowStep ==
  ASSUME SyncInv, NEW p \in Pollers, Throw(p)
  PROVE  SyncInv'
<1>1. faults' \in 0 .. MaxFaults
  BY BoundsAssumption DEF Throw, SyncInv, RunType
<1> QED
  BY <1>1, FailStep DEF Throw

(* The process dies. *)
LEMMA DieStep ==
  ASSUME SyncInv, NEW p \in Pollers, Die(p)
  PROVE  SyncInv'
<1>1. faults' \in 0 .. MaxFaults
  BY BoundsAssumption DEF Die, SyncInv, RunType
<1>2. lock' = Stale
  BY DEF Die, OrphanLock, SyncInv, LockHeld
<1>3. CopyAt(Idle)
  BY IdleIsSound DEF CopyAt, Scanning, Appending, Saving
<1> QED
  BY <1>1, <1>2, <1>3, IdleIsSound, LeaveStep DEF Die

(* What a power loss leaves of the journal is one of the lines left. *)
LEMMA SurvivorKeeps ==
  ASSUME FilesType, JournalSurvives, journalKept' = Same
  PROVE  /\ journal' \in Journals /\ journal'.synced <= Len(journal'.lines)
         /\ journal'.there \/ journal'.lines = << >>
         /\ LinesLeft' \subseteq LinesLeft
<1>1. /\ journal \in Journals /\ journal.lines \in Seq(Deltas) /\ Len(journal.lines) \in Nat
      /\ journal.synced \in Nat /\ journal.synced <= Len(journal.lines)
  BY LinesLeftType DEF FilesType
<1>2. PICK lines : lines = journal'.lines
  OBVIOUS
<1>3. /\ lines \in LinesLeft /\ lines \in Seq(Deltas) /\ journal' \in Journals
      /\ journal'.synced = Len(lines) /\ (journal'.there \/ lines = << >>)
  <2>1. CASE \E k \in journal.synced .. Len(journal.lines), t \in BOOLEAN :
               journal' = [journal EXCEPT !.lines = SubSeq(@, 1, k), !.synced = k, !.torn = t]
    <3>1. PICK k \in journal.synced .. Len(journal.lines), t \in BOOLEAN :
               journal' = [journal EXCEPT !.lines = SubSeq(@, 1, k), !.synced = k, !.torn = t]
      BY <2>1
    <3>2. k \in Nat /\ k <= Len(journal.lines)
      BY <1>1
    <3>3. SubSeq(journal.lines, 1, k) \in Seq(Deltas) /\ Len(SubSeq(journal.lines, 1, k)) = k
      BY <1>1, <3>2
    <3>4. SubSeq(journal.lines, 1, k) \in LinesLeft
      BY DEF LinesLeft
    <3>5. /\ journal' \in Journals /\ journal'.synced = k /\ journal'.there = journal.there
          /\ journal'.lines = SubSeq(journal.lines, 1, k)
      BY <1>1, <3>1, <3>2, <3>3 DEF Journals
    <3>6. ~journal.there => SubSeq(journal.lines, 1, k) = << >>
      <4> SUFFICES ASSUME ~journal.there  PROVE SubSeq(journal.lines, 1, k) = << >>
        OBVIOUS
      <4>1. journal.lines = << >> /\ Len(journal.lines) = 0
        BY DEF FilesType
      <4>2. k = 0
        BY <3>2, <4>1
      <4> QED
        BY <4>1, <4>2
    <3> QED
      BY <1>2, <3>3, <3>4, <3>5, <3>6
  <2>2. CASE ~journalKept.same /\
             journal' = [there |-> journalKept.there, lines |-> journalKept.lines,
                         synced |-> Len(journalKept.lines), torn |-> FALSE]
    <3>1. /\ journalKept.there \in BOOLEAN /\ journalKept.lines \in Seq(Deltas)
          /\ Len(journalKept.lines) \in Nat /\ (journalKept.there \/ journalKept.lines = << >>)
      BY DEF FilesType, KeptJournals
    <3> QED
      BY <1>2, <2>2, <3>1 DEF Journals, LinesLeft
  <2> QED
    BY <2>1, <2>2 DEF JournalSurvives
<1>4. Len(lines) \in Nat /\ SubSeq(lines, 1, Len(lines)) = lines
  BY <1>3, SubSeqFull
<1>5. Len(lines) .. Len(lines) = {Len(lines)} /\ Len(lines) <= Len(lines)
  BY <1>4
<1>6. Same.same
  BY DEF Same
<1> QED
  BY <1>2, <1>3, <1>4, <1>5, <1>6 DEF LinesLeft

(* The power fails: what is left was fine before. *)
LEMMA PowerLossStep ==
  ASSUME SyncInv, PowerLoss
  PROVE  SyncInv'
<1>1. faults' \in 0 .. MaxFaults
  BY BoundsAssumption DEF PowerLoss, SyncInv, RunType
<1>2. /\ snapshot' \in {snapshot, snapshotKept} /\ snapshotKept' = snapshot'
      /\ JournalSurvives /\ journalKept' = Same
      /\ lock' \in {None, Stale} /\ UNCHANGED <<source, ingested, referenced, claimed>>
  BY DEF PowerLoss, LosePower, history
<1>3. Same \in KeptJournals /\ Same.lines = << >>
  BY DEF Same, KeptJournals
<1>4. /\ journal' \in Journals /\ journal'.synced <= Len(journal'.lines)
      /\ journal'.there \/ journal'.lines = << >>
      /\ LinesLeft' \subseteq LinesLeft
  BY <1>2, SurvivorKeeps DEF SyncInv
<1>5. FilesType'
  BY <1>2, <1>3, <1>4 DEF SyncInv, FilesType
<1>6. SettledGrows
  BY <1>2 DEF SettledGrows
<1>7. DiskFine'
  BY <1>2, <1>4, <1>6, DiskShrinks DEF SyncInv
<1>8. \A q \in Pollers : run'[q] = Idle
  BY DEF PowerLoss
<1>9. RunType'
  BY <1>1, <1>2, IdleIsSound DEF PowerLoss, SyncInv, RunType
<1>10. LockHeld'
  BY <1>2, <1>8, IdleIsSound, NamesAssumption DEF LockHeld, Running
<1>11. ASSUME NEW q \in Pollers
       PROVE  Sound(run[q])'
  <2>1. PICK r : r = run'[q] /\ r.pc = "idle" /\ r.kind = "poll" /\ \A s \in Sources : r.copy[s] = None
    BY <1>8, IdleIsSound
  <2>2. FilesAt(run[q])'
    BY <2>1 DEF FilesAt, Scanning
  <2>3. UnitAt(run[q])'
    BY <2>1 DEF UnitAt, Scanning, Appending, Sampling
  <2>4. CopyAt(run[q])'
    BY <2>1 DEF CopyAt, Scanning, Appending, Saving
  <2> QED
    BY <2>2, <2>3, <2>4 DEF Sound
<1> QED
  BY <1>5, <1>7, <1>9, <1>10, <1>11 DEF SyncInv


(* A step that changes no file, no history and of the runs only whether    *)
(* their sources have moved.                                               *)
LEMMA OutsideStep ==
  ASSUME SyncInv, UNCHANGED <<files, faults, history>>, source' \in [Sources -> Samples],
         run' \in [Pollers -> Runs],
         \A q \in Pollers : run'[q] = run[q] \/ run'[q] = [run[q] EXCEPT !.moved = TRUE],
         \A q \in Pollers : UnitAt(run[q])'
  PROVE  SyncInv'
<1>1. UNCHANGED <<snapshot, snapshotKept, journal, journalKept, lock, ingested, referenced, claimed>>
  BY DEF files, history
<1>2. FilesType' /\ RunType'
  BY <1>1 DEF SyncInv, FilesType, RunType
<1>3. SettledGrows /\ Progress' = Progress /\ LinesLeft' = LinesLeft /\ Clean' = Clean
  BY <1>1 DEF SettledGrows, Progress, Replay, Nothing, LinesLeft, Clean, Same
<1>4. DiskFine'
  BY <1>1, <1>3, DiskShrinks DEF SyncInv
<1>5. ASSUME NEW q \in Pollers
      PROVE  /\ run'[q].pc = run[q].pc /\ run'[q].mode = run[q].mode
             /\ run'[q].kind = run[q].kind /\ run'[q].copy = run[q].copy
             /\ run'[q].unit = run[q].unit /\ run'[q].sample = run[q].sample
  <2>1. run[q] \in Runs
    BY DEF SyncInv, RunType
  <2> QED
    BY <2>1 DEF Runs
<1>6. LockHeld'
  BY <1>1, <1>5 DEF SyncInv, LockHeld, Running
<1>7. ASSUME NEW q \in Pollers
      PROVE  Sound(run[q])'
  <2>1. PICK r : r = run'[q]
    OBVIOUS
  <2>2. FilesAt(run[q]) /\ CopyAt(run[q])
    BY DEF SyncInv, Sound
  <2>3. FilesAt(r)
    BY <1>5, <2>1, <2>2 DEF FilesAt
  <2>4. FilesAt(run[q])'
    BY <1>1, <1>3, <2>1, <2>3 DEF FilesAt, Nothing, Same
  <2>5. CopyAt(r)
    BY <1>5, <2>1, <2>2 DEF CopyAt
  <2>6. \A s \in Sources : r.copy[s] # None => SettledIn(r.mode, s, r.copy[s])'
    BY <1>3, <2>5, SettledStays DEF CopyAt
  <2>7. CopyAt(run[q])'
    BY <1>1, <1>3, <2>1, <2>5, <2>6 DEF CopyAt
  <2> QED
    BY <2>4, <2>7 DEF Sound
<1> QED
  BY <1>2, <1>4, <1>6, <1>7 DEF SyncInv

(* A source changes: every run that has sampled it lags behind. *)
LEMMA ChangeStep ==
  ASSUME SyncInv, NEW s \in Sources, Change(s)
  PROVE  SyncInv'
<1>1. PICK f \in Prints, open \in BOOLEAN :
        source' = [source EXCEPT ![s] =
          [print |-> f, version |-> source[s].version + 1, open |-> open]]
  BY DEF Change
<1>2. /\ source \in [Sources -> Samples] /\ run \in [Pollers -> Runs]
      /\ \A t \in Sources : source[t].version \in Nat
  BY DEF SyncInv, RunType, Samples
<1>3. /\ source' \in [Sources -> Samples] /\ source'[s].version = source[s].version + 1
      /\ \A t \in Sources \ {s} : source'[t] = source[t]
  BY <1>1, <1>2 DEF Samples
<1>4. \A q \in Pollers :
        run'[q] = IF run[q].unit = s /\ run[q].pc \in Sampling
                  THEN [run[q] EXCEPT !.moved = TRUE] ELSE run[q]
  BY DEF Change
<1>5. \A q \in Pollers : [run[q] EXCEPT !.moved = TRUE] \in Runs
  BY <1>2 DEF Runs
<1>6. run' \in [Pollers -> Runs]
  BY <1>2, <1>5 DEF Change
<1>7. UNCHANGED <<ingested, referenced>>
  BY DEF Change, history
<1>8. ASSUME NEW q \in Pollers
      PROVE  UnitAt(run[q])'
  <2>1. UnitAt(run[q]) /\ run[q] \in Runs
    BY <1>2 DEF SyncInv, Sound
  <2>2. SettledIn(run[q].mode, run[q].unit, run[q].sample.print) =>
          \A m, u, g : m = run[q].mode /\ u = run[q].unit /\ g = run[q].sample.print =>
            SettledIn(m, u, g)'
    BY <1>7, SettledStays DEF SettledGrows
  <2>3. PICK r : r = run'[q]
    OBVIOUS
  <2>4. /\ r.pc = run[q].pc /\ r.mode = run[q].mode /\ r.copy = run[q].copy
        /\ r.unit = run[q].unit /\ r.sample = run[q].sample /\ r.decision = run[q].decision
        /\ r.moved = run[q].moved \/ (run[q].unit = s /\ run[q].pc \in Sampling)
    BY <1>4, <2>1, <2>3 DEF Runs
  <2>5. r.pc \in Sampling => /\ r.sample.version <= source'[r.unit].version
                             /\ r.moved => r.sample.version < source'[r.unit].version
    <3> SUFFICES ASSUME r.pc \in Sampling
                 PROVE  /\ r.sample.version <= source'[r.unit].version
                        /\ r.moved => r.sample.version < source'[r.unit].version
      OBVIOUS
    <3>1. r.unit \in Sources /\ r.sample.version \in Nat
      BY <2>1, <2>4 DEF UnitAt, Sampling, Scanning, Samples
    <3>2. /\ r.sample.version <= source[r.unit].version
          /\ run[q].moved => r.sample.version < source[r.unit].version
      BY <2>1, <2>4 DEF UnitAt
    <3>3. CASE r.unit = s
      BY <1>2, <1>3, <3>1, <3>2, <3>3
    <3>4. CASE r.unit # s
      BY <1>3, <2>4, <3>1, <3>2, <3>4
    <3> QED
      BY <3>3, <3>4
  <2>6. r.pc \in {"ingest", "persist"} => r.moved = run[q].moved
    BY <2>4 DEF Sampling
  <2>7. /\ r.pc \in (Scanning \ {"scan"}) \cup Appending => r.unit \in Sources
        /\ r.pc \in (Scanning \ {"scan", "read"}) \cup Appending => r.sample \in Samples
        /\ r.pc \in {"final", "ingest", "persist"} => r.decision \in {"source_only", "distill"}
        /\ r.pc = "persist" /\ r.decision = "distill" => <<r.unit, r.sample.print>> \in ingested
        /\ r.pc \in Appending => r.copy[r.unit] = r.sample.print
        /\ r.pc \in {"ingest", "persist"} /\ r.mode = "distillation" => ~r.moved
        /\ r.pc \in {"final", "ingest", "persist"} /\ r.decision = "distill" => ~r.sample.open
    BY <2>1, <2>4, <2>6 DEF UnitAt
  <2>8. r.pc \in Appending => SettledIn(r.mode, r.unit, r.sample.print)'
    BY <2>1, <2>2, <2>4 DEF UnitAt
  <2> QED
    BY <1>7, <2>3, <2>5, <2>7, <2>8 DEF UnitAt
<1> QED
  BY <1>3, <1>4, <1>6, <1>8, OutsideStep DEF Change

(* A source comes to count as idle: its version stays. *)
LEMMA FallIdleStep ==
  ASSUME SyncInv, NEW s \in Sources, FallIdle(s)
  PROVE  SyncInv'
<1>1. source \in [Sources -> Samples] /\ run \in [Pollers -> Runs]
  BY DEF SyncInv, RunType
<1>2. /\ source' \in [Sources -> Samples]
      /\ \A t \in Sources : source'[t].version = source[t].version
  BY <1>1 DEF FallIdle, Samples
<1>3. UNCHANGED <<run, ingested, referenced>>
  BY DEF FallIdle, history
<1>4. ASSUME NEW q \in Pollers
      PROVE  UnitAt(run[q])'
  <2>1. PICK r : r = run[q] /\ UnitAt(r)
    BY DEF SyncInv, Sound
  <2>2. r.pc \in Sampling => source'[r.unit].version = source[r.unit].version
    BY <1>2, <2>1 DEF UnitAt, Sampling, Scanning
  <2>3. r.pc \in Appending => SettledIn(r.mode, r.unit, r.sample.print)'
    BY <1>3, <2>1, SettledStays DEF UnitAt, SettledGrows
  <2>4. run'[q] = r
    BY <1>3, <2>1
  <2> QED
    BY <1>3, <2>1, <2>2, <2>3, <2>4 DEF UnitAt
<1>5. \A q \in Pollers : run'[q] = run[q]
  BY <1>3
<1> QED
  BY <1>1, <1>2, <1>3, <1>4, <1>5, OutsideStep DEF FallIdle

(* The operator removes a lock file left behind: nobody ran. *)
LEMMA ClearLockStep ==
  ASSUME SyncInv, ClearLock
  PROVE  SyncInv'
<1>1. /\ lock = Stale /\ lock' = None /\ None \notin Pollers /\ Stale \notin Pollers
      /\ UNCHANGED <<snapshot, snapshotKept, journal, journalKept, source, run, faults,
                     ingested, referenced, claimed>>
  BY NamesAssumption DEF ClearLock, ClearStaleLock, disk, history
<1>2. FilesType' /\ RunType'
  BY <1>1 DEF SyncInv, FilesType, RunType
<1>3. LockHeld'
  BY <1>1 DEF SyncInv, LockHeld, Running
<1>4. SettledGrows /\ LinesLeft' = LinesLeft
  BY <1>1 DEF SettledGrows, LinesLeft
<1>5. DiskFine'
  BY <1>1, <1>4, DiskShrinks DEF SyncInv
<1>6. ASSUME NEW q \in Pollers
      PROVE  Sound(run[q])'
  <2>1. PICK r : r = run[q] /\ Sound(r)
    BY DEF SyncInv
  <2>2. Sound(r)' /\ run'[q] = r
    BY <1>1, <2>1, SoundStays
  <2> QED
    BY <2>2
<1> QED
  BY <1>2, <1>3, <1>5, <1>6 DEF SyncInv


-----------------------------------------------------------------------------
(* No files, no run, nothing claimed but that there is nothing. *)
LEMMA SyncInit == Init => SyncInv
<1> SUFFICES ASSUME Init PROVE SyncInv
  OBVIOUS
<1>1. /\ snapshot = None /\ snapshotKept = None /\ journal = NoJournal /\ journalKept = Same
      /\ lock = None /\ faults = 0 /\ run = [p \in Pollers |-> Idle]
      /\ claimed = [s \in Sources |-> {None}]
  BY DEF Init, InitFiles
<1>2. /\ NoJournal \in Journals /\ NoJournal.lines = << >> /\ NoJournal.synced = 0
      /\ Same \in KeptJournals /\ Same.same /\ Same.lines = << >> /\ Len(<< >>) = 0
  BY DEF NoJournal, Journals, Same, KeptJournals
<1>3. FilesType
  BY <1>1, <1>2 DEF FilesType
<1>4. RunType
  <2>1. PICK S : S = {[print |-> f, version |-> 0, open |-> TRUE] : f \in Prints}
    OBVIOUS
  <2>2. \A f \in Prints : [print |-> f, version |-> 0, open |-> TRUE] \in Samples
    BY DEF Samples
  <2>3. source \in [Sources -> S]
    BY <2>1 DEF Init
  <2>4. source \in [Sources -> Samples]
    <3>1. S \subseteq Samples
      BY <2>1, <2>2, Zenon
    <3> QED
      BY <2>3, <3>1
  <2> QED
    BY <1>1, <2>4, IdleIsSound, BoundsAssumption DEF RunType
<1>5. LockHeld
  BY <1>1, IdleIsSound, NamesAssumption DEF LockHeld, Running
<1>6. LinesLeft = {<< >>}
  <2>1. 0 .. 0 = {0} /\ SubSeq(<< >>, 1, 0) = << >>
    OBVIOUS
  <2> QED
    BY <1>1, <1>2, <2>1 DEF LinesLeft
<1>7. Fine(None, << >>)
  <2>1. \A s \in Sources : LoadAnswer(None, << >>)[s] = None
    BY IdleIsSound DEF LoadAnswer
  <2> QED
    BY <1>1, <2>1 DEF Fine, Unreadable, HasLast
<1>8. DiskFine
  BY <1>1, <1>6, <1>7 DEF DiskFine
<1>9. ASSUME NEW q \in Pollers
      PROVE  Sound(run[q])
  <2>1. PICK r : r = run[q] /\ r.pc = "idle" /\ r.kind = "poll" /\ \A s \in Sources : r.copy[s] = None
    BY <1>1, IdleIsSound
  <2>2. FilesAt(r) /\ UnitAt(r) /\ CopyAt(r)
    BY <2>1 DEF FilesAt, UnitAt, CopyAt, Scanning, Appending, Saving, Sampling
  <2> QED
    BY <2>1, <2>2 DEF Sound
<1> QED
  BY <1>3, <1>4, <1>5, <1>8, <1>9 DEF SyncInv

(* Every step keeps the invariant. *)
LEMMA SyncKept == SyncInv /\ [Next]_vars => SyncInv'
<1> SUFFICES ASSUME SyncInv, [Next]_vars PROVE SyncInv'
  OBVIOUS
<1>1. ASSUME NEW p \in Pollers, Step(p)
      PROVE  SyncInv'
  <2>1. CASE Load(p) \/ Compare(p) \/ Consider(p) \/ Read(p) \/ Verify(p) \/ DecideUnit(p)
    BY <2>1, LoadStep, CompareStep, ConsiderStep, ReadStep, VerifyStep, DecideStep
  <2>2. CASE Revalidate(p) \/ Ingest(p) \/ Persist(p) \/ AppendOpen(p) \/ BaseRename(p) \/ BaseSync(p)
    BY <2>2, RevalidateStep, IngestStep, PersistStep, AppendOpenStep, BaseRenameStep, BaseSyncStep
  <2>3. CASE LineBegin(p) \/ LineEnd(p) \/ LineSync(p) \/ AppendDone(p) \/ ScanDone(p)
    BY <2>3, LineBeginStep, LineEndStep, LineSyncStep, AppendDoneStep, ScanDoneStep
  <2>4. CASE SaveRename(p) \/ SaveSync(p) \/ SaveRetire(p) \/ SaveDone(p) \/ Unlock(p)
    BY <2>4, SaveRenameStep, SaveSyncStep, SaveRetireStep, SaveDoneStep, UnlockStep
  <2> QED
    BY <1>1, <2>1, <2>2, <2>3, <2>4 DEF Step
<1>2. ASSUME NEW p \in Pollers, BeginBorrow(p) \/ BeginSave(p) \/ Throw(p) \/ Die(p)
      PROVE  SyncInv'
  BY <1>2, BeginBorrowStep, BeginSaveStep, ThrowStep, DieStep
<1>3. ASSUME NEW s \in Sources, Change(s) \/ FallIdle(s)
      PROVE  SyncInv'
  BY <1>3, ChangeStep, FallIdleStep
<1>4. CASE UNCHANGED vars
  <2>1. UNCHANGED <<files, source, run, faults, history>>
    BY <1>4 DEF vars, history
  <2>2. source' \in [Sources -> Samples] /\ run' \in [Pollers -> Runs]
    BY <2>1 DEF SyncInv, RunType
  <2>3. UNCHANGED <<ingested, referenced>>
    BY <2>1 DEF history
  <2>4. ASSUME NEW q \in Pollers
        PROVE  run'[q] = run[q] /\ UnitAt(run[q])'
    <3>1. PICK r : r = run[q] /\ run'[q] = r /\ UnitAt(r)
      BY <2>1 DEF SyncInv, Sound
    <3>2. r.pc \in Appending => SettledIn(r.mode, r.unit, r.sample.print)'
      BY <2>3, <3>1, SettledStays DEF UnitAt, SettledGrows
    <3> QED
      BY <2>1, <2>3, <3>1, <3>2 DEF UnitAt
  <2> QED
    BY <2>1, <2>2, <2>4, OutsideStep
<1>5. CASE Next
  BY <1>1, <1>2, <1>3, <1>5, BeginStep, ClearLockStep, PowerLossStep DEF Next
<1> QED
  BY <1>4, <1>5

(* The invariant of the source sync. *)
THEOREM SyncInvariance == Spec => []SyncInv
BY SyncInit, SyncKept, PTL DEF Spec

(* For every number of sources, pollers, versions and faults: whatever is  *)
(* left of the checkpoint file and its journal, load reads it and answers  *)
(* the last fingerprint appendFingerprint or save has acknowledged, or one *)
(* that was being written after it.                                        *)
THEOREM ProgressIsKept == Spec => []ProgressKept
<1>1. SyncInv => ProgressKept
  BY SeenIsFine DEF ProgressKept, Fine
<1> QED
  BY <1>1, SyncInvariance, PTL

(* What the checkpoint holds was brought to a safe end before, in the mode *)
(* the checkpoint is of, across every crash, power loss and late save.     *)
THEOREM HeldIsSettled == Spec => []CheckpointIsSettled
<1>1. ASSUME SyncInv PROVE CheckpointIsSettled
  BY <1>1, SeenIsFine DEF CheckpointIsSettled, Fine, SettledIn
<1> QED
  BY <1>1, SyncInvariance, PTL

(* The steps that settle a version act on a sample the source has not      *)
(* outrun: revalidateEligibilityState compares the version key, which      *)
(* every change of the source raises.                                      *)
THEOREM SettlesUndisturbed == Spec => ActsUndisturbed
<1> DEFINE Act == \A s \in Sources, f \in Prints, how \in {"observed", "source_only", "distill"} :
       <<"distillation", s, f, how>> \in referenced' \ referenced
       => \E p \in Pollers :
            /\ run[p].unit = s /\ run[p].sample.print = f
            /\ ~run[p].moved
            /\ run[p].decision = "distill" => ~run[p].sample.open
<1>1. SyncInv /\ [Next]_vars => [Act]_vars
  <2> SUFFICES ASSUME SyncInv, Next PROVE Act
    OBVIOUS
  <2>1. ASSUME referenced' \subseteq referenced PROVE Act
    BY <2>1
  <2>2. ASSUME NEW p \in Pollers, Consider(p) PROVE Act
    <3>1. \/ referenced' = referenced
          \/ \E s, f : referenced' = referenced \cup {<<"reference_only", s, f, "observed">>}
      BY <2>2 DEF Consider
    <3> QED
      BY <3>1
  <2>3. ASSUME NEW p \in Pollers, Revalidate(p) PROVE Act
    <3>1. run[p].pc = "final" /\ UnitAt(run[p])
      BY <2>3 DEF Revalidate, At, SyncInv, Sound
    <3>2. run[p].unit \in Sources /\ run[p].sample.version \in Nat
      BY <3>1 DEF UnitAt, Scanning, Samples
    <3>3. CASE ~Unchanged(p) \/ run[p].kind # "baseline"
      BY <2>1, <2>3, <3>3 DEF Revalidate
    <3>4. CASE Unchanged(p) /\ run[p].kind = "baseline"
      <4>1. source[run[p].unit].version = run[p].sample.version
        BY <3>4 DEF Unchanged
      <4>2. ~run[p].moved
        BY <3>1, <3>2, <4>1 DEF UnitAt, Sampling
      <4>3. run[p].decision = "distill" => ~run[p].sample.open
        BY <3>1 DEF UnitAt
      <4>4. referenced' = referenced \cup
              {<<run[p].mode, run[p].unit, run[p].sample.print, "observed">>}
        BY <2>3, <3>4 DEF Revalidate
      <4> QED
        BY <4>2, <4>3, <4>4
    <3> QED
      BY <3>3, <3>4
  <2>4. ASSUME NEW p \in Pollers, Persist(p) PROVE Act
    <3>1. run[p].pc = "persist" /\ UnitAt(run[p])
      BY <2>4 DEF Persist, At, SyncInv, Sound
    <3>2. /\ run[p].mode = "distillation" => ~run[p].moved
          /\ run[p].decision = "distill" => ~run[p].sample.open
      BY <3>1 DEF UnitAt
    <3>3. referenced' = referenced \cup
            {<<run[p].mode, run[p].unit, run[p].sample.print, run[p].decision>>}
      BY <2>4 DEF Persist
    <3> QED
      BY <3>2, <3>3
  <2>5. ASSUME NEW p \in Pollers, Step(p) PROVE Act
    <3>1. CASE Consider(p) \/ Revalidate(p) \/ Persist(p)
      BY <2>2, <2>3, <2>4, <3>1
    <3>2. CASE \/ Load(p) \/ Compare(p) \/ Read(p) \/ Verify(p) \/ DecideUnit(p) \/ Ingest(p)
               \/ AppendOpen(p) \/ BaseRename(p) \/ BaseSync(p) \/ LineBegin(p) \/ LineEnd(p)
      BY <2>1, <3>2 DEF Load, Compare, Read, Verify, DecideUnit, Ingest, AppendOpen, BaseRename,
         BaseSync, LineBegin, LineEnd, history
    <3>3. CASE \/ LineSync(p) \/ AppendDone(p) \/ ScanDone(p) \/ SaveRename(p) \/ SaveSync(p)
               \/ SaveRetire(p) \/ SaveDone(p) \/ Unlock(p)
      BY <2>1, <3>3 DEF LineSync, AppendDone, ScanDone, SaveRename, SaveSync, SaveRetire,
         SaveDone, Unlock, history
    <3> QED
      BY <2>5, <3>1, <3>2, <3>3 DEF Step
  <2>6. ASSUME NEW p \in Pollers, NEW mode, NEW kind,
               Begin(p, mode, kind) \/ BeginBorrow(p) \/ BeginSave(p) \/ Throw(p) \/ Die(p)
        PROVE  Act
    BY <2>1, <2>6 DEF Begin, BeginBorrow, BeginSave, Throw, Die, history
  <2>7. ASSUME NEW s \in Sources, Change(s) \/ FallIdle(s) PROVE Act
    BY <2>1, <2>7 DEF Change, FallIdle, history
  <2>8. CASE ClearLock \/ PowerLoss
    BY <2>1, <2>8 DEF ClearLock, PowerLoss, history
  <2> QED
    BY <2>5, <2>6, <2>7, <2>8 DEF Next
<1> QED
  BY <1>1, SyncInvariance, PTL DEF Spec, ActsUndisturbed
=============================================================================

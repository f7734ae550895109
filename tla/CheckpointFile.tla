--------------------------- MODULE CheckpointFile ---------------------------
(***************************************************************************)
(* FileIncrementalSourceCheckpointStore: a snapshot of every source's      *)
(* fingerprint, a journal of the deltas since, and a lock file beside      *)
(* them.  A process sees the files as last written; a power loss leaves    *)
(* what was synchronised and any part of what was not.  A snapshot is      *)
(* synchronised before it is renamed into place, so that only its          *)
(* directory entry can be lost; a journal's lines are lost from the end,   *)
(* the last one possibly torn, and so is its directory entry.              *)
(*                                                                         *)
(* The operators below are the store's file operations; each is one step   *)
(* between two awaits, and SourceSync says in which order they are taken.  *)
(***************************************************************************)
EXTENDS Integers, Sequences

CONSTANTS
  Sources,   \* source ids
  Prints,    \* evidence fingerprints
  Pollers,   \* processes that open the store
  None,      \* no fingerprint, no snapshot, no lock
  Stale      \* a lock file whose creator is gone

(* What a checkpoint belongs to: of the adapter, scope, mode and policy in *)
(* its identity, the mode is the one that varies here.                     *)
Modes == {"distillation", "reference_only"}

VARIABLES
  snapshot,      \* the checkpoint file as seen
  snapshotKept,  \* the checkpoint file a power loss leaves
  journal,       \* the journal as seen, and how many of its lines are synchronised
  journalKept,   \* the journal a power loss leaves, where that is another file
  lock           \* the process that created the lock file

files == <<snapshot, snapshotKept, journal, journalKept, lock>>
disk == <<snapshot, snapshotKept, journal, journalKept>>

Fingerprints == [Sources -> Prints \cup {None}]
Nothing == [s \in Sources |-> None]
Checkpoints == [mode : Modes, prints : Fingerprints]
Deltas == [mode : Modes, source : Sources, print : Prints]
Garbled == [mode |-> "garbled"]

NoJournal == [there |-> FALSE, lines |-> << >>, synced |-> 0, torn |-> FALSE]
(* The directory entry that would survive is the one seen. *)
Same == [same |-> TRUE, there |-> FALSE, lines |-> << >>]

InitFiles ==
  /\ snapshot = None /\ snapshotKept = None
  /\ journal = NoJournal /\ journalKept = Same
  /\ lock = None

-----------------------------------------------------------------------------
(* Reading *)

(* load fails: deltas without a snapshot, a line that does not parse, or   *)
(* a delta of another identity.                                            *)
Unreadable(snap, lines) ==
  IF snap = None THEN lines # << >>
  ELSE \E i \in 1 .. Len(lines) : lines[i].mode # snap.mode

(* The deltas over the snapshot, the last one of a source deciding. *)
Replay(prints, lines) ==
  [s \in Sources |->
     LET mine == {i \in 1 .. Len(lines) : lines[i].source = s}
     IN IF mine = {} THEN prints[s]
        ELSE lines[CHOOSE i \in mine : \A j \in mine : j <= i].print]

(* What load answers from the files as seen. *)
Progress ==
  IF snapshot = None THEN Nothing ELSE Replay(snapshot.prints, journal.lines)

(* readRecoverableJournal: an unterminated last line is cut off, and the   *)
(* cut is synchronised together with everything before it.                 *)
RecoverTail ==
  IF journal.torn
  THEN /\ journal' = [journal EXCEPT !.torn = FALSE, !.synced = Len(journal.lines)]
       /\ snapshotKept' = snapshot
       /\ journalKept' = Same
       /\ UNCHANGED snapshot
  ELSE UNCHANGED disk

-----------------------------------------------------------------------------
(* Writing *)

(* syncDirectory: the entries as seen survive from now on. *)
SyncDirectory ==
  /\ snapshotKept' = snapshot
  /\ journalKept' = Same
  /\ UNCHANGED <<snapshot, journal>>

(* writeSnapshot up to its rename; the bytes are synchronised before. *)
RenameSnapshot(checkpoint) ==
  /\ snapshot' = checkpoint
  /\ UNCHANGED <<snapshotKept, journal, journalKept>>

(* The append is opened, creating the journal where there is none, and     *)
(* part of the line is written.  A line begun behind a torn one makes one  *)
(* line of the two that does not parse.                                    *)
BeginLine ==
  /\ journal' = [journal EXCEPT
       !.there = TRUE, !.torn = TRUE,
       !.lines = IF journal.torn THEN Append(@, Garbled) ELSE @]
  /\ journalKept' = IF journal.there \/ ~journalKept.same THEN journalKept
                    ELSE [Same EXCEPT !.same = FALSE]
  /\ UNCHANGED <<snapshot, snapshotKept>>

(* The rest of the line, with its newline. *)
EndLine(delta) ==
  /\ journal' = [journal EXCEPT !.torn = FALSE, !.lines = Append(@, delta)]
  /\ UNCHANGED <<snapshot, snapshotKept, journalKept>>

SyncJournal ==
  /\ journal' = [journal EXCEPT !.synced = Len(journal.lines)]
  /\ UNCHANGED <<snapshot, snapshotKept, journalKept>>

(* rm of the journal: until the directory is synchronised a power loss     *)
(* brings back the file with at least its synchronised lines.              *)
RemoveJournal ==
  /\ journal' = NoJournal
  /\ IF ~journal.there \/ ~journalKept.same THEN UNCHANGED journalKept
     ELSE \E k \in journal.synced .. Len(journal.lines) :
            journalKept' = [same |-> FALSE, there |-> TRUE,
                            lines |-> SubSeq(journal.lines, 1, k)]
  /\ UNCHANGED <<snapshot, snapshotKept>>

-----------------------------------------------------------------------------
(* The lock file and the faults *)

(* open wx succeeds only where there is no lock file. *)
LockFree == lock = None

(* runExclusive creates the lock file and synchronises the directory, with *)
(* every entry a writer before may have left unsynchronised.               *)
TakeLock(p) ==
  /\ LockFree
  /\ lock' = p
  /\ SyncDirectory

(* runExclusive's finally removes the lock file, whoever created it; the   *)
(* synchronisation after it may fail unnoticed.                            *)
DropLock ==
  /\ lock' = None
  /\ SyncDirectory \/ UNCHANGED disk

(* The journal file a power loss leaves: the one seen, cut off behind any  *)
(* line that is not synchronised and perhaps within the next one, or the   *)
(* one whose directory entry is the durable one.                           *)
JournalSurvives ==
  \/ \E k \in journal.synced .. Len(journal.lines), torn \in BOOLEAN :
       /\ torn => journal.torn \/ journal.synced < Len(journal.lines)
       /\ journal' = [journal EXCEPT !.lines = SubSeq(@, 1, k), !.synced = k, !.torn = torn]
  \/ /\ ~journalKept.same
     /\ journal' = [there |-> journalKept.there, lines |-> journalKept.lines,
                    synced |-> Len(journalKept.lines), torn |-> FALSE]

(* A power loss (external).  A lock file taken stays; one removed may come *)
(* back, for the synchronisation of its removal is allowed to fail.        *)
LosePower ==
  /\ snapshot' \in {snapshot, snapshotKept}
  /\ snapshotKept' = snapshot'
  /\ JournalSurvives
  /\ journalKept' = Same
  /\ lock' \in IF lock = None THEN {None, Stale} ELSE {Stale}

(* A process dies and leaves its lock file behind (external). *)
OrphanLock(p) == lock' = IF lock = p THEN Stale ELSE lock

(* The operator removes a lock file after making sure that its creator is  *)
(* gone (external).                                                        *)
ClearStaleLock ==
  /\ lock = Stale
  /\ lock' = None

FilesTypeOK ==
  /\ snapshot \in Checkpoints \cup {None} /\ snapshotKept \in Checkpoints \cup {None}
  /\ journal.lines \in Seq(Deltas) /\ journal.synced \in 0 .. Len(journal.lines)
  /\ journal.there \in BOOLEAN /\ journal.torn \in BOOLEAN
  /\ journalKept.lines \in Seq(Deltas) /\ journalKept.same \in BOOLEAN
  /\ lock \in Pollers \cup {None, Stale}
=============================================================================

------------------------ MODULE HistoricalMigration ------------------------
(***************************************************************************)
(* HistoricalExperienceMigrationRunner under the bounded pilot that hosts  *)
(* it: a host examines the state file, writes a successor's seed, takes    *)
(* the advisory lock of the destination, and migrates source units in      *)
(* windows.  The units of a window are processed concurrently, and only    *)
(* the prefix before the first failure is checkpointed, save by save.      *)
(* Meanwhile sessions change and are deleted, a second host is started,    *)
(* hosts die, and the server may drop the session that holds the lock.     *)
(*                                                                         *)
(* A unit is its position in source order, a cursor the position it        *)
(* follows; a version stands for a unit's content and for its fingerprint. *)
(***************************************************************************)
EXTENDS Integers, Sequences, FiniteSets

CONSTANTS
  MigrationHosts, \* processes of the pilot
  SourceUnits,    \* units the source has at first
  MaxEdits,       \* bound on changes and deletions in the source
  Eligible,       \* <<unit, version>> the eligibility policy lets in
  Concurrency,
  MaxUnits,       \* how many units a run of each host is asked for
  Predecessor,    \* the state a successor migration starts from, or NoState
  MaxMigrationFaults, \* bound on deaths and lost lock sessions
  NoState

Positions == 1 .. SourceUnits
Versions == 1 .. MaxEdits + 1

MigrationState ==
  [cursor : 0 .. SourceUnits, last : 0 .. SourceUnits, version : Versions \cup {0},
   processed : 0 .. SourceUnits, ingested : 0 .. SourceUnits, skipped : 0 .. SourceUnits,
   complete : BOOLEAN]

ASSUME MigrationAssumption ==
  /\ SourceUnits \in Nat /\ MaxEdits \in Nat /\ Eligible \subseteq Positions \X Versions
  /\ Concurrency \in Nat \ {0} /\ \A h \in MigrationHosts : MaxUnits[h] \in Nat \ {0}
  /\ NoState \notin MigrationState
  /\ Predecessor # NoState =>
       /\ Predecessor \in MigrationState
       /\ ~Predecessor.complete /\ Predecessor.cursor \in Positions
       /\ Predecessor.last = Predecessor.cursor
       /\ Predecessor.processed = Predecessor.cursor
       /\ Predecessor.ingested + Predecessor.skipped = Predecessor.processed

VARIABLES
  source,          \* the version of each unit, 0 when it was deleted
  stateFile,       \* state.json
  writerLock,      \* who holds pg_try_advisory_lock on the destination
  settledUnits,    \* <<unit, version, outcome>>: terminal receipts and skips
  migrating,       \* what each host is doing
  edits, migrationFaults

migrationVars ==
  <<source, stateFile, writerLock, settledUnits, migrating, edits, migrationFaults>>

Off == [phase |-> "off", state |-> NoState, exists |-> FALSE, cursor |-> 0, window |-> << >>,
        exhausted |-> FALSE, failed |-> FALSE, saved |-> 0, processed |-> 0]

MigrationInit ==
  /\ source = [u \in Positions |-> 1]
  /\ stateFile = NoState
  /\ writerLock = NoState
  /\ settledUnits = {}
  /\ migrating = [h \in MigrationHosts |-> Off]
  /\ edits = 0 /\ migrationFaults = 0

SetHost(h, st) == migrating' = [migrating EXCEPT ![h] = st]
Outside == <<source, edits, migrationFaults>>

(* The finally of the pilot: unlock, and the process is gone. *)
Release(h) == writerLock' = IF writerLock = h THEN NoState ELSE writerLock
Stop(h) == SetHost(h, Off) /\ Release(h)

(* The state file is replaced as a whole. *)
Save(state) == stateFile' = state

-----------------------------------------------------------------------------
(* The pilot around the runner. *)

(* existsSync, *)
Examine(h) ==
  /\ migrating[h].phase = "off"
  /\ SetHost(h, [Off EXCEPT !.phase = "seed", !.exists = stateFile # NoState])
  /\ UNCHANGED <<stateFile, writerLock, settledUnits, Outside>>

(* the seed of a successor, on what was seen then and before the lock, *)
SaveSeed(h) ==
  /\ migrating[h].phase = "seed"
  /\ Save(IF ~migrating[h].exists /\ Predecessor # NoState THEN Predecessor ELSE stateFile)
  /\ SetHost(h, [Off EXCEPT !.phase = "lock"])
  /\ UNCHANGED <<writerLock, settledUnits, Outside>>

(* and the lock: a host that does not get it ends. *)
TryLock(h) ==
  /\ migrating[h].phase = "lock"
  /\ IF writerLock = NoState
     THEN writerLock' = h /\ SetHost(h, [Off EXCEPT !.phase = "load"])
     ELSE SetHost(h, Off) /\ UNCHANGED writerLock
  /\ UNCHANGED <<stateFile, settledUnits, Outside>>

-----------------------------------------------------------------------------
(* HistoricalExperienceMigrationRunner.run *)

CursorOf(state) == IF state = NoState THEN 0 ELSE state.cursor

(* The loop from its top. *)
Again(st) ==
  [st EXCEPT !.phase = "discover", !.cursor = CursorOf(st.state), !.window = << >>,
             !.exhausted = FALSE, !.failed = FALSE, !.saved = 0]

Load(h) ==
  /\ migrating[h].phase = "load"
  /\ IF stateFile # NoState /\ stateFile.complete THEN Stop(h)
     ELSE SetHost(h, Again([migrating[h] EXCEPT !.state = stateFile])) /\ UNCHANGED writerLock
  /\ UNCHANGED <<stateFile, settledUnits, Outside>>

Capacity(h) ==
  LET left == MaxUnits[h] - migrating[h].processed IN
  IF Concurrency < left THEN Concurrency ELSE left

After(c) == {u \in Positions : u > c /\ source[u] > 0}

(* One page of one unit; the last unit comes without a next cursor. *)
Discover(h) ==
  LET st == migrating[h]
      page == After(st.cursor)
      u == CHOOSE v \in page : \A w \in page : v <= w
      next == IF page = {u} THEN 0 ELSE u
      entry == [unit |-> u, next |-> next, status |-> "found", read |-> 0, fingerprint |-> 0]
  IN
  /\ st.phase = "discover" /\ ~st.exhausted /\ Len(st.window) < Capacity(h)
  /\ SetHost(h, IF page = {} THEN [st EXCEPT !.exhausted = TRUE]
                ELSE [st EXCEPT !.window = Append(@, entry), !.cursor = next,
                                !.exhausted = next = 0])
  /\ UNCHANGED <<stateFile, writerLock, settledUnits, Outside>>

Discovered(h) ==
  /\ migrating[h].phase = "discover"
  /\ migrating[h].exhausted \/ Len(migrating[h].window) = Capacity(h)

completedState(state) ==
  IF state = NoState
  THEN [cursor |-> 0, last |-> 0, version |-> 0, processed |-> 0, ingested |-> 0, skipped |-> 0,
        complete |-> TRUE]
  ELSE [state EXCEPT !.complete = TRUE]

(* Nothing at all was found. *)
NothingLeft(h) ==
  /\ Discovered(h) /\ migrating[h].window = << >>
  /\ Save(completedState(migrating[h].state))
  /\ Stop(h)
  /\ UNCHANGED <<settledUnits, Outside>>

SetEntry(h, i, e) == SetHost(h, [migrating[h] EXCEPT !.window[i] = e])

(* processUnit: read and normalize, *)
ReadUnit(h, i) ==
  LET e == migrating[h].window[i] IN
  /\ Discovered(h) /\ e.status = "found"
  /\ SetEntry(h, i, [e EXCEPT !.status = IF source[e.unit] > 0 THEN "read" ELSE "failed",
                              !.read = source[e.unit]])
  /\ UNCHANGED <<stateFile, writerLock, settledUnits, Outside>>

sameFingerprint(current, read) == current = read
migrationEligibility(u, version) == <<u, version>> \in Eligible

(* the fingerprint of the unit as it is by now, the eligibility, *)
VerifyUnit(h, i) ==
  LET e == migrating[h].window[i]
      eligible == migrationEligibility(e.unit, e.read)
      same == sameFingerprint(source[e.unit], e.read)
  IN
  /\ Discovered(h) /\ e.status = "read"
  /\ SetEntry(h, i, [e EXCEPT !.fingerprint = source[e.unit],
       !.status = IF ~same THEN "failed" ELSE IF eligible THEN "verified" ELSE "skipped"])
  /\ settledUnits' = IF same /\ ~eligible THEN settledUnits \cup {<<e.unit, e.read, "skipped">>}
                     ELSE settledUnits
  /\ UNCHANGED <<stateFile, writerLock, Outside>>

(* and the ingestion of what was read, which ends in a terminal receipt, *)
IngestUnit(h, i) ==
  LET e == migrating[h].window[i] IN
  /\ Discovered(h) /\ e.status = "verified"
  /\ settledUnits' = settledUnits \cup {<<e.unit, e.read, "ingested">>}
  /\ SetEntry(h, i, [e EXCEPT !.status = "ingested"])
  /\ UNCHANGED <<stateFile, writerLock, Outside>>

(* or in none; any of the awaits may throw. *)
FailUnit(h, i) ==
  LET e == migrating[h].window[i] IN
  /\ Discovered(h) /\ e.status \in {"found", "read", "verified"}
  /\ SetEntry(h, i, [e EXCEPT !.status = "failed"])
  /\ UNCHANGED <<stateFile, writerLock, settledUnits, Outside>>

Fulfilled(e) == e.status \in {"ingested", "skipped"}

(* Mutant: what failed is left out, what came after it counts. *)
commitPrefixWithGaps(window) == SelectSeq(window, Fulfilled)

(* The window before its first failure. *)
commitPrefix(window) ==
  LET failed == {i \in DOMAIN window : ~Fulfilled(window[i])}
      first == CHOOSE i \in failed : \A j \in failed : i <= j
  IN IF failed = {} THEN window ELSE SubSeq(window, 1, first - 1)

(* allSettled *)
SettleWindow(h) ==
  LET st == migrating[h] IN
  /\ Discovered(h) /\ st.window # << >>
  /\ \A i \in DOMAIN st.window : Fulfilled(st.window[i]) \/ st.window[i].status = "failed"
  /\ SetHost(h, [st EXCEPT !.phase = "save", !.window = commitPrefix(st.window), !.saved = 0,
       !.failed = \E i \in DOMAIN st.window : st.window[i].status = "failed"])
  /\ UNCHANGED <<stateFile, writerLock, settledUnits, Outside>>

advancedState(state, e) ==
  LET prior == IF state = NoState THEN [processed |-> 0, ingested |-> 0, skipped |-> 0] ELSE state IN
  [cursor |-> e.next, last |-> e.unit, version |-> e.fingerprint,
   processed |-> prior.processed + 1,
   ingested |-> prior.ingested + (IF e.status = "ingested" THEN 1 ELSE 0),
   skipped |-> prior.skipped + (IF e.status = "ingested" THEN 0 ELSE 1),
   complete |-> e.next = 0]

(* One save per unit of the prefix, in source order. *)
SaveUnit(h) ==
  LET st == migrating[h]
      new == advancedState(st.state, st.window[st.saved + 1])
  IN
  /\ st.phase = "save" /\ st.saved < Len(st.window)
  /\ Save(new)
  /\ SetHost(h, [st EXCEPT !.state = new, !.saved = @ + 1, !.processed = @ + 1])
  /\ UNCHANGED <<writerLock, settledUnits, Outside>>

(* After the saves: a failure ends the run, an exhausted source completes  *)
(* the state, and otherwise there is another window or the bound.          *)
EndWindow(h) ==
  LET st == migrating[h] IN
  /\ st.phase = "save" /\ st.saved = Len(st.window)
  /\ IF st.failed THEN Stop(h) /\ UNCHANGED stateFile
     ELSE IF st.exhausted
       THEN Stop(h) /\ Save(IF st.state.complete THEN stateFile ELSE completedState(st.state))
     ELSE IF st.processed < MaxUnits[h]
       THEN SetHost(h, Again(st)) /\ UNCHANGED <<stateFile, writerLock>>
     ELSE Stop(h) /\ UNCHANGED stateFile
  /\ UNCHANGED <<settledUnits, Outside>>

-----------------------------------------------------------------------------
(* What happens around the hosts. *)

HostFault == migrationFaults < MaxMigrationFaults /\ migrationFaults' = migrationFaults + 1

MigrationDies(h) ==
  /\ migrating[h].phase # "off" /\ HostFault
  /\ Stop(h)
  /\ UNCHANGED <<stateFile, settledUnits, source, edits>>

(* The server ends the session that holds the lock; the host goes on. *)
LockDropped ==
  /\ writerLock # NoState /\ HostFault
  /\ writerLock' = NoState
  /\ UNCHANGED <<stateFile, settledUnits, migrating, source, edits>>

(* A session is written to, or deleted. *)
EditUnit(u, version) ==
  /\ source[u] > 0 /\ version \in {0, source[u] + 1}
  /\ edits < MaxEdits /\ edits' = edits + 1
  /\ source' = [source EXCEPT ![u] = version]
  /\ UNCHANGED <<stateFile, writerLock, settledUnits, migrating, migrationFaults>>

RunnerStep(h) ==
  \/ Examine(h) \/ SaveSeed(h) \/ TryLock(h) \/ Load(h) \/ Discover(h) \/ NothingLeft(h)
  \/ SettleWindow(h) \/ SaveUnit(h) \/ EndWindow(h)
  \/ \E i \in DOMAIN migrating[h].window :
       ReadUnit(h, i) \/ VerifyUnit(h, i) \/ IngestUnit(h, i) \/ FailUnit(h, i)

MigrationNext ==
  \/ \E h \in MigrationHosts : RunnerStep(h) \/ MigrationDies(h)
  \/ LockDropped
  \/ \E u \in Positions, version \in Versions \cup {0} : EditUnit(u, version)

MigrationSpec == MigrationInit /\ [][MigrationNext]_migrationVars

-----------------------------------------------------------------------------
(* Type invariant. *)
MigrationTypeOK ==
  /\ source \in [Positions -> Versions \cup {0}]
  /\ stateFile \in MigrationState \cup {NoState}
  /\ writerLock \in MigrationHosts \cup {NoState}
  /\ settledUnits \subseteq Positions \X Versions \X {"ingested", "skipped"}
  /\ edits \in 0 .. MaxEdits /\ migrationFaults \in 0 .. MaxMigrationFaults

Inherited == IF Predecessor = NoState THEN 0 ELSE Predecessor.cursor

(* The units a checkpoint has left behind; all of them once it is complete. *)
Passed == {u \in Positions : source[u] > 0 /\ (u <= stateFile.last \/ stateFile.complete)}

(* "It can never move the source checkpoint past the failure": whatever    *)
(* unit of the source the state file has passed was ingested to a terminal *)
(* receipt, skipped by the policy, or passed by the predecessor, and was   *)
(* counted once; and the fingerprint kept with it is that of the content   *)
(* that was ingested or skipped.  A session that changes between being     *)
(* read and ingested, a window that failed in part, a host that died       *)
(* between two saves, a seed written late and a second writer after a lost *)
(* lock may set the checkpoint back, but never leave a unit behind.        *)
CheckpointCovers ==
  stateFile # NoState =>
    /\ \A u \in Passed : u > Inherited =>
         \E v \in Versions : \E o \in {"ingested", "skipped"} : <<u, v, o>> \in settledUnits
    /\ Cardinality(Passed) <= stateFile.processed /\ stateFile.processed <= stateFile.last
    /\ stateFile.last > Inherited =>
         \E o \in {"ingested", "skipped"} : <<stateFile.last, stateFile.version, o>> \in settledUnits
=============================================================================

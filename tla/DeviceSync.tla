----------------------------- MODULE DeviceSync -----------------------------
(***************************************************************************)
(* MemorySyncService over the ledger the canonical store promises: pages   *)
(* of the change feed, and the compare-and-set of a device's checkpoint.   *)
(* A device may run several sessions at once (a retry next to the call it  *)
(* gave up on, two processes of one device); a session reads the           *)
(* checkpoint and then one or more pages, the device applies entries in    *)
(* order, the session acknowledges.  Every store call is a step, a reply   *)
(* can be lost, and a session can stop anywhere.                           *)
(*                                                                         *)
(* All of it is about one scope: feed, checkpoint and watermark are always *)
(* looked up under the same scope key.                                     *)
(***************************************************************************)
EXTENDS MemoryLedger, FiniteSets

CONSTANTS
  Scope,      \* the scope being synchronised
  Devices,    \* device ids
  Sessions,   \* concurrent clients
  DeviceOf,   \* the device each session acts for
  MaxBatch    \* MAX_SYNC_BATCH_SIZE

ASSUME ScopeAssumption == Scope \in Scopes
ASSUME DevicesAssumption == DeviceOf \in [Sessions -> Devices]
ASSUME MaxBatchAssumption == MaxBatch \in Nat \ {0}

VARIABLES
  checkpoint,  \* device_checkpoints, 0 where there is no row
  local,       \* the entries a device has applied
  session      \* what each session has read and is about to do

syncVars == <<ledger, checkpoint, local, session>>

feed == ledger[Scope]

(* base is the checkpoint a session works from, page what it has read      *)
(* beyond it, through what it is acknowledging.                            *)
IdleSession == [phase |-> "idle", base |-> 0, page |-> << >>, through |-> 0]
SessionStates ==
  [phase : {"idle", "pulling", "pulled", "checked"}, base : Nat,
   page : Seq(Entries), through : Nat]

SyncInit ==
  /\ LedgerInit
  /\ checkpoint = [d \in Devices |-> 0]
  /\ local = [d \in Devices |-> << >>]
  /\ session = [p \in Sessions |-> IdleSession]

SetSession(p, st) == session' = [session EXCEPT ![p] = st]

(* The canonical side: any legal entry is appended, at any time. *)
Grow == LedgerNext /\ UNCHANGED <<checkpoint, local, session>>

(* pullForDevice: the checkpoint is read first, *)
StartPull(p) ==
  /\ session[p].phase = "idle"
  /\ SetSession(p, [IdleSession EXCEPT !.phase = "pulling", !.base = checkpoint[DeviceOf[p]]])
  /\ UNCHANGED <<ledger, checkpoint, local>>

(* Mutant: the page ends one short of its limit. *)
PageShort(after, limit) ==
  SubSeq(feed, after + 1,
         IF after + limit - 1 < Len(feed) THEN after + limit - 1 ELSE Len(feed))

(* listChangesAfter and the slice to the limit: the entries after a        *)
(* commit_seq, at most limit of them.  Revisions are immutable, so reading *)
(* them one call later changes nothing.                                    *)
Page(after, limit) ==
  SubSeq(feed, after + 1,
         IF after + limit < Len(feed) THEN after + limit ELSE Len(feed))

(* Mutant: handing out a page moves the checkpoint. *)
ReadPageAdvances(p) ==
  LET st == session[p] IN
  /\ st.phase \in {"pulling", "pulled"}
  /\ \E limit \in 1 .. MaxBatch :
       LET page == st.page \o Page(st.base + Len(st.page), limit) IN
       /\ SetSession(p, [st EXCEPT !.phase = "pulled", !.page = page])
       /\ checkpoint' = [checkpoint EXCEPT ![DeviceOf[p]] = st.base + Len(page)]
  /\ UNCHANGED <<ledger, local>>

(* and then the page; readChanges goes on from nextCommitSeq. *)
ReadPage(p) ==
  LET st == session[p] IN
  /\ st.phase \in {"pulling", "pulled"}
  /\ \E limit \in 1 .. MaxBatch :
       SetSession(p, [st EXCEPT !.phase = "pulled",
                                !.page = @ \o Page(st.base + Len(@), limit)])
  /\ UNCHANGED <<ledger, checkpoint, local>>

(* The device applies its next entry if the session has pulled it. *)
Apply(p) ==
  LET st == session[p]
      d == DeviceOf[p]
      next == Len(local[d]) + 1
  IN
  /\ st.phase = "pulled"
  /\ next \in st.base + 1 .. st.base + Len(st.page)
  /\ local' = [local EXCEPT ![d] = Append(@, st.page[next - st.base])]
  /\ UNCHANGED <<ledger, checkpoint, session>>

(* What acknowledgeDeviceChanges accepts before the compare-and-set: no    *)
(* step back, at most one batch, and a full contiguous run of changes.     *)
AckFits(expected, through) ==
  /\ through >= expected
  /\ through - expected <= MaxBatch
  /\ Len(Page(expected, through - expected)) = through - expected

(* A session acknowledges what its device has applied of what it pulled. *)
CheckAck(p) ==
  LET st == session[p] IN
  /\ st.phase = "pulled"
  /\ \E n \in st.base .. st.base + Len(st.page) :
       /\ n <= Len(local[DeviceOf[p]])
       /\ n > st.base \/ st.page = << >>
       /\ AckFits(st.base, n)
       /\ SetSession(p, [st EXCEPT !.phase = "checked", !.through = n])
  /\ UNCHANGED <<ledger, checkpoint, local>>

(* Mutant: the upsert does not compare the stored value. *)
CompareAndSetBlind(p) ==
  LET st == session[p] IN
  /\ st.phase = "checked"
  /\ checkpoint' = [checkpoint EXCEPT ![DeviceOf[p]] = st.through]
  /\ SetSession(p, IdleSession)
  /\ UNCHANGED <<ledger, local>>

(* compareAndSetDeviceCheckpoint.  When it succeeds the session goes on    *)
(* from the new checkpoint, or its reply is lost and it still believes in  *)
(* the old one; when the stored value is another it gets                   *)
(* DEVICE_CHECKPOINT_CONFLICT and starts over.                             *)
CompareAndSet(p) ==
  LET st == session[p]
      d == DeviceOf[p]
  IN
  /\ st.phase = "checked"
  /\ \/ /\ checkpoint[d] = st.base
        /\ st.through <= Len(feed)
        /\ checkpoint' = [checkpoint EXCEPT ![d] = st.through]
        /\ \/ SetSession(p, IdleSession)
           \/ SetSession(p, [st EXCEPT !.phase = "pulled", !.through = 0])
     \/ /\ checkpoint[d] # st.base
        /\ SetSession(p, IdleSession)
        /\ UNCHANGED checkpoint
  /\ UNCHANGED <<ledger, local>>

Stop(p) ==
  /\ session[p].phase # "idle"
  /\ SetSession(p, IdleSession)
  /\ UNCHANGED <<ledger, checkpoint, local>>

SyncNext ==
  \/ Grow
  \/ \E p \in Sessions :
       \/ StartPull(p) \/ ReadPage(p) \/ Apply(p)
       \/ CheckAck(p) \/ CompareAndSet(p) \/ Stop(p)

SyncSpec == SyncInit /\ [][SyncNext]_syncVars

(* A device that keeps synchronising: it always starts again, and not      *)
(* every attempt at a step is cut off.                                     *)
FairSyncSpec ==
  /\ SyncSpec
  /\ \A p \in Sessions :
       /\ WF_syncVars(StartPull(p))
       /\ SF_syncVars(ReadPage(p) /\ session'[p] # session[p])
       /\ SF_syncVars(Apply(p))
       /\ SF_syncVars(CheckAck(p))
       /\ SF_syncVars(CompareAndSet(p))

-----------------------------------------------------------------------------
(* The state of every session and device has its shape. *)
SyncTypeOK ==
  /\ LedgerTypeOK
  /\ checkpoint \in [Devices -> Nat]
  /\ local \in [Devices -> Seq(Entries)]
  /\ session \in [Sessions -> SessionStates]

(* What a device has applied is a prefix of the feed, nothing doubled or   *)
(* reordered; and its checkpoint never runs ahead of that, so no change is *)
(* skipped by the next pull.                                               *)
NothingSkipped ==
  \A d \in Devices :
    /\ Len(local[d]) <= Len(feed)
    /\ \A i \in DOMAIN local[d] : local[d][i] = feed[i]
    /\ checkpoint[d] <= Len(local[d])

(* A checkpoint never moves back, whatever acknowledgements are repeated,  *)
(* delayed or sent by a second session, and never by more than one batch.  *)
CheckpointAdvances ==
  [][\A d \in Devices :
       checkpoint'[d] \in checkpoint[d] .. checkpoint[d] + MaxBatch]_syncVars

(* A device that keeps synchronising catches up with the feed. *)
CatchesUp ==
  \A d \in Devices : \A n \in 1 .. Cardinality(Keys) :
    Len(feed) >= n ~> checkpoint[d] >= n
=============================================================================

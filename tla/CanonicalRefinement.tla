------------------------ MODULE CanonicalRefinement -------------------------
(***************************************************************************)
(* The canonical tables, read through the change feed, are a MemoryLedger. *)
(***************************************************************************)
EXTENDS CanonicalAuthority

ChangeAt(s, n) == CHOOSE ch \in changes : ch.scope = s /\ ch.commitSeq = n

EntryAt(s, n) ==
  LET ch == ChangeAt(s, n) IN
  [memoryId |-> ch.memoryId, operation |-> ch.operation,
   revision |-> ch.newRevision, key |-> ch.key,
   content |-> (CHOOSE v \in RevisionRows(ch.memoryId, ch.newRevision) : TRUE).content]

feed == [s \in Scopes |-> [n \in 1 .. lastSeq[s] |-> EntryAt(s, n)]]

Ledger == INSTANCE MemoryLedger WITH ledger <- feed

(* Every step of the write path appends one legal entry to one scope's     *)
(* ledger, or leaves all the ledgers alone.  This is Ledger!LedgerSpec: a  *)
(* step that changes none of the tables the feed is read from stutters.    *)
ImplementsLedger ==
  Ledger!LedgerInit /\ [][UNCHANGED tables \/ Ledger!LedgerNext]_feed
=============================================================================

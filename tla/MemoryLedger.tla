---------------------------- MODULE MemoryLedger ----------------------------
(***************************************************************************)
(* What the canonical store promises its readers, whichever store it is:   *)
(* each scope has one append-only ledger of memory changes, and the        *)
(* position of a change in it is its commit_seq.  A device that applies    *)
(* the entries of a scope in order holds every memory of it.               *)
(***************************************************************************)
EXTENDS Integers, Sequences

CONSTANTS Scopes, MemoryIds, Keys, Contents

LedgerOps == {"create", "update", "merge", "tombstone", "restore"}

Entries ==
  [memoryId : MemoryIds, operation : LedgerOps, revision : Nat \ {0},
   content : Contents, key : Keys]

VARIABLE ledger

LedgerTypeOK == ledger \in [Scopes -> Seq(Entries)]

LedgerInit == ledger = [s \in Scopes |-> << >>]

(* Positions of a memory's entries in one ledger. *)
Positions(log, m) == {i \in DOMAIN log : log[i].memoryId = m}

(* A ledger takes every key once. *)
UnusedKeys(log) == Keys \ {log[i].key : i \in DOMAIN log}

(* What may follow a memory's last entry.  The one operation a tombstone   *)
(* leaves is restore, and only a tombstone can be restored.                *)
Followers(prev) ==
  IF prev.operation = "tombstone"
    THEN {"restore"}
    ELSE {"update", "merge", "tombstone"}

LedgerAppend(s, e) == ledger' = [ledger EXCEPT ![s] = Append(ledger[s], e)]

(* The first entry of a memory that no ledger knows. *)
LedgerCreate(s, m) ==
  /\ \A t \in Scopes : Positions(ledger[t], m) = {}
  /\ \E x \in Contents, k \in UnusedKeys(ledger[s]) :
       LedgerAppend(s, [memoryId |-> m, operation |-> "create",
                        revision |-> 1, content |-> x, key |-> k])

(* The successor of a memory's last entry; all but update keep the text. *)
LedgerRevise(s, m) ==
  \E i \in Positions(ledger[s], m) :
    LET prev == ledger[s][i] IN
    /\ \A j \in Positions(ledger[s], m) : j <= i
    /\ \E op \in Followers(prev), k \in UnusedKeys(ledger[s]) :
       \E x \in IF op = "update" THEN Contents ELSE {prev.content} :
         LedgerAppend(s, [memoryId |-> m, operation |-> op,
                          revision |-> prev.revision + 1,
                          content |-> x, key |-> k])

LedgerNext ==
  \E s \in Scopes, m \in MemoryIds : LedgerCreate(s, m) \/ LedgerRevise(s, m)

LedgerSpec == LedgerInit /\ [][LedgerNext]_ledger
=============================================================================

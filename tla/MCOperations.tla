---------------------------- MODULE MCOperations ----------------------------
(***************************************************************************)
(* Operations on a small instance: a receipt of two units whose first may  *)
(* be judged again differently, a source of four sessions of which one     *)
(* changes, a conversation with messages that repeat, and a source sent to *)
(* the provider in two documents.                                          *)
(***************************************************************************)
EXTENDS Operations, TLC

CONSTANTS f1, f2,     \* facts of records
          h1, h2,     \* migration hosts
          m1, m2, m3, mx  \* messages

(* The host may find three judgements for the first unit, run after run.   *)
SomeJudgements ==
  <<{[outcome |-> "pending_review", facts |-> f1], [outcome |-> "pending_review", facts |-> f2],
     [outcome |-> "canonical_candidate", facts |-> f2]},
    {[outcome |-> "rejected", facts |-> f2]}>>

Rq(k, u, d, v) ==
  [key |-> <<k>>, unit |-> u, disposition |-> d, version |-> v, by |-> "reviewer"]

(* A deferral and a closing decision after it, a decision that races both, *)
(* and a key used for two cases.                                           *)
SomeRequests ==
  {Rq("defer", 1, "needs_more_evidence", 1), Rq("close", 1, "confirmed_unrelated", 2),
   Rq("invalid", 1, "invalid_candidate", 1), Rq("close", 2, "misclassified", 1)}
OneApproval == <<Rq("approve", 2, "approved_as_classified", 1)>>
CloseFirst == <<[facts |-> f1, disposition |-> "confirmed_unrelated"], NoValue>>
InvalidFirst == Rq("invalid", 1, "invalid_candidate", 1)

OneAndThree == h1 :> 1 @@ h2 :> 3

(* Everything but the second session as it was at first. *)
MostSessions == (Positions \X Versions) \ {<<2, 1>>}
AfterOne == [cursor |-> 1, last |-> 1, version |-> 1, processed |-> 1, ingested |-> 1,
             skipped |-> 0, complete |-> FALSE]

(* Windows and gaps of a conversation, one with a message that repeats. *)
SomeContexts == {<<m1, m2>>, <<m2, m1>>, <<m2, m3>>, <<m1>>, <<m1, m2, m1>>, <<m1, m3, m2>>}
OnePost == {[time |-> 2, messages |-> <<[id |-> <<"x">>, text |-> mx]>>, count |-> 0,
             owned |-> FALSE, status |-> "active"]}

(* A chunk of two fragments and a user projection; and for the chunking    *)
(* segments at both sides of its bounds.                                   *)
Segment(actor, size) == [actor |-> actor, size |-> size]
TwoSegments == <<Segment("user", 10), Segment("assistant", 20)>>
SizesAtBounds ==
  UNION {[1 .. n -> [actor : {"user"}, size : {0, 40, 197, 198, 400}]] : n \in 1 .. 3}
SmallChunks == [maxChars |-> 200, maxSegments |-> 2]
SomeCallings == {<<"e1", TRUE>>, <<"e2", TRUE>>, <<"e1", FALSE>>}
NothingOrMuch == {<< >>, <<"text", "blank", "text">>}
=============================================================================

--------------------------- MODULE ContextCapture ---------------------------
(***************************************************************************)
(* The ChatGPT capture inbox and the context publisher that writes to it:  *)
(* one conversation, one file.  Publishers of several server processes     *)
(* merge what a model sees of the conversation into what was captured      *)
(* before and put it back under the revision they read; the HTTP ingress   *)
(* puts whole captures of other transports without one.  Every put holds   *)
(* the inbox's lock file, which a process that dies leaves behind.         *)
(*                                                                         *)
(* A message stands for its role and text.  Ids are digests and taken as   *)
(* injective: a message id is what newMessageId hashes, a revision is the  *)
(* time and what the capture digest covers, where the count of the visible *)
(* messages stands for completeness and title too.  In one process the     *)
(* queue of the conversation lets one publish go at a time.                *)
(***************************************************************************)
EXTENDS Integers, SequencesExt, FiniteSetsExt

CONSTANTS
  Publishers,      \* server processes with a context publisher
  HttpWriters,     \* server processes with captures posted to them
  Contexts,        \* what a model may see of the conversation
  Posts,           \* captures of other transports
  Clock,           \* what the clock of a server may say
  MAX_CAS_ATTEMPTS,
  MAX_MESSAGES,    \* how many messages a context and a capture may have
  MaxPublishes, MaxDeaths  \* bounds on calls and on deaths

Servers == Publishers \cup HttpWriters

(* What a reader of an empty inbox has. *)
Nothing == [time |-> 0, messages |-> << >>, count |-> 0, owned |-> FALSE, status |-> "none"]

ASSUME CaptureAssumption ==
  /\ Publishers \cap HttpWriters = {} /\ Servers \cap {"none", "stale"} = {}
  /\ \A c \in Contexts : c \in Seq(ToSet(c))
  /\ \A s \in Posts : ~s.owned /\ s.time \in Nat /\ s # Nothing
  /\ Clock \subseteq Nat /\ MAX_CAS_ATTEMPTS \in Nat \ {0} /\ MAX_MESSAGES \in Nat

VARIABLES
  capture,      \* the snapshot in the inbox
  lockFile,     \* .inbox-write.lock: "none", the process it names, or "stale"
  recovery,     \* an operator's .inbox-write.lock.recovery is there
  servers,      \* the put each server has under way
  acknowledged, \* contexts whose publish returned
  publishes, deaths

captureVars == <<capture, lockFile, recovery, servers, acknowledged, publishes, deaths>>

Free == [phase |-> "free", context |-> << >>, attempt |-> 0, prior |-> Nothing,
         snapshot |-> Nothing, result |-> "none"]

CaptureInit ==
  /\ capture = Nothing /\ lockFile = "none" /\ recovery = FALSE
  /\ servers = [p \in Servers |-> Free]
  /\ acknowledged = {} /\ publishes = 0 /\ deaths = 0

-----------------------------------------------------------------------------
(* mergeVisibleContext *)

validateMessageSet(messages) == Len(messages) \in 1 .. MAX_MESSAGES

visible(messages) == [i \in DOMAIN messages |-> messages[i].text]

newCapturedMessages(context, direction, anchor) ==
  [i \in DOMAIN context |->
     [id |-> <<direction, anchor, i, context[i]>>, text |-> context[i]]]

(* Lengths of the longest common subsequence of the first i and j, *)
forward(p, q) ==
  LET f[x \in (0 .. Len(p)) \X (0 .. Len(q))] ==
        LET i == x[1]
            j == x[2]
        IN IF i = 0 \/ j = 0 THEN 0
           ELSE IF p[i] = q[j] THEN f[<<i - 1, j - 1>>] + 1
           ELSE Max({f[<<i - 1, j>>], f[<<i, j - 1>>]})
  IN f

(* and of what follows the first i and j. *)
backward(p, q) ==
  LET f[x \in (0 .. Len(p)) \X (0 .. Len(q))] ==
        LET i == x[1]
            j == x[2]
        IN IF i = Len(p) \/ j = Len(q) THEN 0
           ELSE IF p[i + 1] = q[j + 1] THEN f[<<i + 1, j + 1>>] + 1
           ELSE Max({f[<<i + 1, j>>], f[<<i, j + 1>>]})
  IN f

(* The pairs that some longest common subsequence matches. *)
AlignedPairs(p, q) ==
  LET f == forward(p, q)
      b == backward(p, q)
  IN {x \in (1 .. Len(p)) \X (1 .. Len(q)) :
        /\ p[x[1]] = q[x[2]]
        /\ f[<<x[1] - 1, x[2] - 1>>] + 1 + b[x] = f[<<Len(p), Len(q)>>]}

(* There is one such subsequence, matched in one way. *)
UniquelyAligned(p, q) ==
  LET pairs == AlignedPairs(p, q) IN
  /\ pairs # {} /\ Cardinality(pairs) = forward(p, q)[<<Len(p), Len(q)>>]
  /\ \A x, y \in pairs : x[1] < y[1] => x[2] < y[2]
  /\ \A x, y \in pairs : x # y => x[1] # y[1]

(* Where q may lie on p as a window, overlapping it without a difference.  *)
legalAlignmentOffsets(p, q) ==
  {o \in 1 - Len(q) .. Len(p) - 1 :
     \A i \in DOMAIN p : i - o \in DOMAIN q => p[i] = q[i - o]}

(* The pair before a pair, and the last one; <<0, 0>> when there is none.  *)
LastPair(pairs) ==
  IF pairs = {} THEN <<0, 0>> ELSE CHOOSE x \in pairs : \A y \in pairs : y[1] <= x[1]
PairBefore(pairs, x) == LastPair({y \in pairs : y[1] < x[1]})

(* Mutant: messages of both in one place are taken in some order. *)
OrderableAnyhow(p, q) == TRUE

(* Nowhere do both have messages of their own. *)
Orderable(p, q) ==
  LET pairs == AlignedPairs(p, q) IN
  \A x \in pairs \cup {<<Len(p) + 1, Len(q) + 1>>} :
    LET y == PairBefore(pairs, x) IN x[1] = y[1] + 1 \/ x[2] = y[2] + 1

FitsOnce(p, q) == Cardinality(legalAlignmentOffsets(p, q)) <= 1

(* The merge goes through. *)
Mergeable(p, q) ==
  \/ p = << >> \/ p = q
  \/ /\ FitsOnce(p, q)
     /\ UniquelyAligned(p, q)
     /\ IF Cardinality(AlignedPairs(p, q)) = Len(q)
        THEN \A o \in legalAlignmentOffsets(p, q) : o >= 0 /\ o + Len(q) <= Len(p)
        ELSE Orderable(p, q)

(* What is new goes before the message it was seen before, or after the    *)
(* last one matched.                                                       *)
mergeVisibleContext(prior, context) ==
  LET p == visible(prior)
      pairs == AlignedPairs(p, context)
      last == LastPair(pairs)
      Piece(i) ==
        LET x == CHOOSE y \in pairs : y[1] = i IN
        IF \A y \in pairs : y[1] # i THEN <<prior[i]>>
        ELSE newCapturedMessages(SubSeq(context, PairBefore(pairs, x)[2] + 1, x[2] - 1),
                                 "before", prior[i].id) \o <<prior[i]>>
  IN IF prior = << >> THEN newCapturedMessages(context, "initial", << >>)
     ELSE IF p = context THEN prior
     ELSE FlattenSeq([i \in DOMAIN prior |-> Piece(i)])
          \o newCapturedMessages(SubSeq(context, last[2] + 1, Len(context)), "after",
                                 prior[last[1]].id)

-----------------------------------------------------------------------------
(* ChatGptContextPublisher.publish *)

SetServer(p, st) == servers' = [servers EXCEPT ![p] = st]

(* The conversation's queue and the inbox's let one call go at a time. *)
Exclusive(p) == servers[p].phase = "free"

Publish(p, context) ==
  /\ Exclusive(p) /\ validateMessageSet(context)
  /\ publishes < MaxPublishes /\ publishes' = publishes + 1
  /\ SetServer(p, [Free EXCEPT !.phase = "read", !.context = context, !.attempt = 1])
  /\ UNCHANGED <<capture, lockFile, recovery, acknowledged, deaths>>

revision(s) == IF s = Nothing THEN << >> ELSE <<s.time, s.messages, s.count>>

(* The snapshot of a merge; one that says what the prior said keeps its    *)
(* time, any other gets a later one.                                       *)
SnapshotOf(prior, context, now) ==
  LET merged == mergeVisibleContext(prior.messages, context)
      same == prior # Nothing /\ prior.messages = merged /\ prior.count = Len(context)
  IN [time |-> IF same THEN prior.time
               ELSE IF prior = Nothing THEN now ELSE Max({now, prior.time + 1}),
      messages |-> merged, count |-> Len(context), owned |-> TRUE, status |-> "completed"]

(* A capture of another transport is never written over. *)
assertOwnedSnapshot(s) == s = Nothing \/ s.owned

(* readCurrentSnapshot, and the merge on it.  The file is never removed,   *)
(* so the snapshot kept in memory is never needed.                         *)
ReadAndMerge(p) ==
  LET st == servers[p]
      merges == /\ assertOwnedSnapshot(capture)
                /\ Mergeable(visible(capture.messages), st.context)
                /\ validateMessageSet(mergeVisibleContext(capture.messages, st.context))
  IN
  /\ st.phase = "read"
  /\ IF ~merges THEN SetServer(p, Free)
     ELSE \E now \in Clock :
            SetServer(p, [st EXCEPT !.phase = "put", !.prior = capture,
                                    !.snapshot = SnapshotOf(capture, st.context, now)])
  /\ UNCHANGED <<capture, lockFile, recovery, acknowledged, publishes, deaths>>

(* A capture posted to the HTTP ingress. *)
Post(p, s) ==
  /\ Exclusive(p)
  /\ publishes < MaxPublishes /\ publishes' = publishes + 1
  /\ SetServer(p, [Free EXCEPT !.phase = "put", !.snapshot = s])
  /\ UNCHANGED <<capture, lockFile, recovery, acknowledged, deaths>>

-----------------------------------------------------------------------------
(* ChatGptCaptureInboxStore.put *)

DistinctIds(messages) == \A i, j \in DOMAIN messages : messages[i].id = messages[j].id => i = j

(* The snapshot is validated; a recovery under way or left behind refuses. *)
Inspect(p) ==
  /\ servers[p].phase = "put"
  /\ SetServer(p, IF ~DistinctIds(servers[p].snapshot.messages) \/ recovery THEN Free
                  ELSE [servers[p] EXCEPT !.phase = "link"])
  /\ UNCHANGED <<capture, lockFile, recovery, acknowledged, publishes, deaths>>

(* Mutant: a lock file that is there is taken over. *)
LinkReclaims(p) ==
  /\ servers[p].phase = "link"
  /\ SetServer(p, [servers[p] EXCEPT !.phase = "compare"])
  /\ lockFile' = p
  /\ UNCHANGED <<capture, recovery, acknowledged, publishes, deaths>>

(* link() publishes the lock only where there is none.  A lock that is     *)
(* there is never reclaimed, stale or not: the put fails.                  *)
Link(p) ==
  /\ servers[p].phase = "link"
  /\ IF lockFile = "none"
     THEN lockFile' = p /\ SetServer(p, [servers[p] EXCEPT !.phase = "compare"])
     ELSE SetServer(p, Free) /\ UNCHANGED lockFile
  /\ UNCHANGED <<capture, recovery, acknowledged, publishes, deaths>>

statusRank(s) == CASE s.status = "active" -> 0 [] s.status = "completed" -> 1
                   [] s.status = "archived" -> 2

(* expectedRevision, which the HTTP ingress does not give. *)
Precondition(p) == p \in Publishers => revision(capture) = revision(servers[p].prior)

(* Same time, earlier time, same revision or an earlier status: refused. *)
Supersedes(new, old) ==
  /\ new.time > old.time /\ revision(new) # revision(old)
  /\ statusRank(new) >= statusRank(old)

(* The file is read under the lock. *)
Compare(p) ==
  LET st == servers[p] IN
  /\ st.phase = "compare"
  /\ SetServer(p,
       IF ~Precondition(p) THEN [st EXCEPT !.phase = "release", !.result = "retry"]
       ELSE IF capture = st.snapshot THEN [st EXCEPT !.phase = "release", !.result = "done"]
       ELSE IF capture = Nothing \/ Supersedes(st.snapshot, capture)
         THEN [st EXCEPT !.phase = "write"]
       ELSE [st EXCEPT !.phase = "release", !.result = "failed"])
  /\ UNCHANGED <<capture, lockFile, recovery, acknowledged, publishes, deaths>>

(* writeAtomic: a synced temporary file is renamed. *)
Write(p) ==
  /\ servers[p].phase = "write"
  /\ capture' = servers[p].snapshot
  /\ SetServer(p, [servers[p] EXCEPT !.phase = "release", !.result = "done"])
  /\ UNCHANGED <<lockFile, recovery, acknowledged, publishes, deaths>>

(* publish goes around again when its precondition failed, some times. *)
GoesAround(st) == st.result = "retry" /\ st.attempt < MAX_CAS_ATTEMPTS

(* The lock is removed if it is still this one, and put returns.           *)
ReleaseLock(p) ==
  LET st == servers[p]
      kept == lockFile = p
  IN
  /\ st.phase = "release"
  /\ lockFile' = IF kept THEN "none" ELSE lockFile
  /\ SetServer(p, IF kept /\ GoesAround(st)
                  THEN [Free EXCEPT !.phase = "read", !.context = st.context,
                                    !.attempt = st.attempt + 1]
                  ELSE Free)
  /\ acknowledged' = IF kept /\ st.result = "done" /\ p \in Publishers
                     THEN acknowledged \cup {st.context} ELSE acknowledged
  /\ UNCHANGED <<capture, recovery, publishes, deaths>>

(* A server dies, and the lock it has names a process that is no more. *)
ServerDies(p) ==
  /\ servers[p].phase # "free" /\ deaths < MaxDeaths /\ deaths' = deaths + 1
  /\ SetServer(p, Free)
  /\ lockFile' = IF lockFile = p THEN "stale" ELSE lockFile
  /\ UNCHANGED <<capture, recovery, acknowledged, publishes>>

(* The operator's review of a stale lock, behind a recovery lock. *)
RecoveryBegins ==
  /\ lockFile = "stale" /\ ~recovery
  /\ recovery' = TRUE
  /\ UNCHANGED <<capture, lockFile, servers, acknowledged, publishes, deaths>>

RecoveryEnds ==
  /\ recovery
  /\ lockFile' = "none" /\ recovery' = FALSE
  /\ UNCHANGED <<capture, servers, acknowledged, publishes, deaths>>

PutStep(p) == Inspect(p) \/ Link(p) \/ Compare(p) \/ Write(p) \/ ReleaseLock(p) \/ ServerDies(p)

CaptureNext ==
  \/ \E p \in Publishers : ReadAndMerge(p) \/ \E c \in Contexts : Publish(p, c)
  \/ \E p \in HttpWriters, s \in Posts : Post(p, s)
  \/ \E p \in Servers : PutStep(p)
  \/ RecoveryBegins \/ RecoveryEnds

CaptureSpec == CaptureInit /\ [][CaptureNext]_captureVars

-----------------------------------------------------------------------------
(* Type invariant. *)
CaptureTypeOK ==
  /\ capture # Nothing => capture.time \in Nat /\ capture.owned \in BOOLEAN
  /\ lockFile \in Servers \cup {"none", "stale"} /\ recovery \in BOOLEAN
  /\ acknowledged \subseteq Contexts
  /\ publishes \in 0 .. MaxPublishes /\ deaths \in 0 .. MaxDeaths

Texts(s) == visible(s.messages)

(* s appears in t in order, other elements of t in between. *)
InOrder(s, t) ==
  \E place \in [DOMAIN s -> DOMAIN t] :
    /\ \A i, j \in DOMAIN s : i < j => place[i] < place[j]
    /\ \A i \in DOMAIN s : t[place[i]] = s[i]

(* The sequences of n messages that have both p and q in order. *)
Conversations(p, q, n) ==
  {w \in [1 .. n -> ToSet(p) \cup ToSet(q)] : InOrder(p, w) /\ InOrder(q, w)}

(* "It must never guess between repeated-message alignments": what a merge *)
(* puts is the one shortest conversation that has what was captured and    *)
(* what is visible now in order, with every message captured before still  *)
(* there under its id.                                                     *)
MergeIsSound ==
  \A p \in Publishers :
    LET st == servers[p]
        old == st.prior.messages
        merged == Texts(st.snapshot)
    IN st.phase = "put" =>
         /\ Conversations(visible(old), st.context, Len(merged)) = {merged}
         /\ Conversations(visible(old), st.context, Len(merged) - 1) = {}
         /\ InOrder(old, st.snapshot.messages)

(* "monotonic_visible_context": a publisher only ever adds to the capture, *)
(* although servers put at once, die with the lock and are recovered.  It  *)
(* replaces its own older capture only, all of whose messages stay; and a  *)
(* context whose publish returned stays in the capture, in order, as long  *)
(* as no other transport takes the conversation over.                      *)
NothingDropped ==
  [][/\ capture' # capture /\ capture'.owned => capture = Nothing \/
          /\ capture.owned /\ capture.time < capture'.time
          /\ InOrder(capture.messages, capture'.messages)
     /\ capture' # Nothing /\ capture'.owned =>
          \A c \in acknowledged' : InOrder(c, Texts(capture'))]_captureVars
=============================================================================

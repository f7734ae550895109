------------------------ MODULE ContextCaptureProofs ------------------------
(***************************************************************************)
(* Safety of ContextCapture for any servers, contexts, posts and clocks,   *)
(* and the facts about sequences it takes: what is in order in what, what  *)
(* flattening does, and longest common subsequences.                       *)
(***************************************************************************)
EXTENDS ContextCapture, FiniteSetTheorems, SequenceTheorems, WellFoundedInduction, TLAPS

(* A set of naturals has a least member. *)
LEMMA LeastMember ==
  ASSUME NEW S \in SUBSET Nat, S # {}
  PROVE  \E x \in S : \A y \in S : x <= y
<1>1. PICK x \in S : \A y \in S : ~(<<y, x>> \in OpToRel(<, Nat))
  BY NatLessThanWellFounded, WFMin
<1>2. \A y \in S : ~(y < x)
  BY <1>1 DEF OpToRel
<1> QED
  BY <1>2

-----------------------------------------------------------------------------
(* The capture of a conversation *)

(* Induction up to a number, of a property given by the set that has it. *)
LEMMA CountingUp ==
  ASSUME NEW a \in Nat, NEW N \in Nat, NEW B, a \in B,
         \A n \in a .. N - 1 : n \in B => n + 1 \in B
  PROVE  \A n \in a .. N : n \in B
<1> DEFINE A == {n \in a .. N : n \notin B}
<1>1. SUFFICES ASSUME A # {} PROVE FALSE
  OBVIOUS
<1>2. A \in SUBSET Nat
  OBVIOUS
<1>3. PICK x \in A : \A n \in A : x <= n
  <2> HIDE DEF A
  <2> QED
    BY <1>1, <1>2, LeastMember
<1>4. x # a /\ x \in a .. N
  OBVIOUS
<1>5. x - 1 \in a .. N - 1 /\ x - 1 \notin A
  BY <1>3, <1>4
<1> QED
  BY <1>3, <1>4, <1>5

(* Sequences of anything. *)
Sequence(s) == s \in Seq(ToSet(s))

LEMMA SequenceShape ==
  ASSUME NEW s, Sequence(s)
  PROVE  Len(s) \in Nat /\ DOMAIN s = 1 .. Len(s)
BY DEF Sequence

LEMMA SequenceOf ==
  ASSUME NEW S, NEW s \in Seq(S)
  PROVE  Sequence(s)
<1>1. \A i \in 1 .. Len(s) : s[i] \in ToSet(s)
  BY DEF ToSet
<1>2. s \in [1 .. Len(s) -> ToSet(s)] /\ Len(s) \in Nat
  BY <1>1
<1> QED
  BY <1>2 DEF Sequence

LEMMA SequenceFrom ==
  ASSUME NEW n \in Nat, NEW s, s = [i \in 1 .. n |-> s[i]]
  PROVE  Sequence(s) /\ Len(s) = n
<1>1. \A i \in 1 .. n : s[i] \in ToSet(s)
  BY DEF ToSet
<1>2. s \in [1 .. n -> ToSet(s)]
  BY <1>1
<1>3. s \in Seq(ToSet(s))
  BY <1>2
<1> QED
  BY <1>2, <1>3 DEF Sequence

LEMMA JoinedShape ==
  ASSUME NEW s, NEW t, Sequence(s), Sequence(t)
  PROVE  /\ Sequence(s \o t) /\ Len(s \o t) = Len(s) + Len(t)
         /\ DOMAIN (s \o t) = 1 .. Len(s) + Len(t)
         /\ \A i \in 1 .. Len(s) : (s \o t)[i] = s[i]
         /\ \A i \in 1 .. Len(t) : (s \o t)[Len(s) + i] = t[i]
<1> DEFINE S == ToSet(s) \cup ToSet(t)
<1>1. s \in Seq(S) /\ t \in Seq(S)
  BY SeqMonotonic DEF Sequence
<1> HIDE DEF S
<1>2. /\ s \o t \in Seq(S) /\ Len(s \o t) = Len(s) + Len(t)
      /\ \A i \in 1 .. Len(s) + Len(t) :
           (s \o t)[i] = IF i <= Len(s) THEN s[i] ELSE t[i - Len(s)]
  BY <1>1, ConcatProperties
<1>3. Sequence(s \o t)
  BY <1>2, SequenceOf
<1>4. Len(s) \in Nat /\ Len(t) \in Nat
  BY SequenceShape
<1>5. \A i \in 1 .. Len(t) :
        /\ Len(s) + i \in 1 .. Len(s) + Len(t) /\ ~(Len(s) + i <= Len(s))
        /\ (Len(s) + i) - Len(s) = i
  BY ONLY <1>4
<1>6. \A i \in 1 .. Len(t) : (s \o t)[Len(s) + i] = t[i]
  BY <1>2, <1>5
<1>7. \A i \in 1 .. Len(s) : (s \o t)[i] = s[i]
  BY <1>2, <1>4
<1>8. DOMAIN (s \o t) = 1 .. Len(s) + Len(t)
  BY <1>2, <1>3, SequenceShape
<1> QED
  BY <1>2, <1>3, <1>6, <1>7, <1>8

LEMMA SamePlaces ==
  ASSUME NEW s, NEW t, Sequence(s), Sequence(t), Len(s) = Len(t),
         \A i \in 1 .. Len(s) : s[i] = t[i]
  PROVE  s = t
<1> DEFINE S == ToSet(s) \cup ToSet(t)
<1>1. s \in Seq(S) /\ t \in Seq(S)
  BY SeqMonotonic DEF Sequence
<1> HIDE DEF S
<1> QED
  BY <1>1

LEMMA OnePlace ==
  ASSUME NEW x
  PROVE  Sequence(<<x>>) /\ Len(<<x>>) = 1 /\ <<x>>[1] = x
<1>1. <<x>> \in Seq({x})
  OBVIOUS
<1> QED
  BY <1>1, SequenceOf

-----------------------------------------------------------------------------
(* Sequences in order. *)
LEMMA InOrderItself ==
  ASSUME NEW s, Sequence(s)
  PROVE  InOrder(s, s)
<1> DEFINE place == [i \in DOMAIN s |-> i]
<1>1. /\ place \in [DOMAIN s -> DOMAIN s]
      /\ \A i, j \in DOMAIN s : i < j => place[i] < place[j]
      /\ \A i \in DOMAIN s : s[place[i]] = s[i]
  OBVIOUS
<1> HIDE DEF place
<1> QED
  BY <1>1 DEF InOrder

LEMMA NoneInOrder ==
  ASSUME NEW t
  PROVE  InOrder(<< >>, t)
<1> DEFINE place == [i \in DOMAIN << >> |-> i]
<1>1. /\ place \in [DOMAIN << >> -> DOMAIN t]
      /\ \A i, j \in DOMAIN << >> : i < j => place[i] < place[j]
      /\ \A i \in DOMAIN << >> : t[place[i]] = << >>[i]
  OBVIOUS
<1> HIDE DEF place
<1> QED
  BY <1>1 DEF InOrder

LEMMA InOrderThrough ==
  ASSUME NEW s, NEW t, NEW u, InOrder(s, t), InOrder(t, u)
  PROVE  InOrder(s, u)
<1>1. PICK e \in [DOMAIN s -> DOMAIN t] :
        /\ \A i, j \in DOMAIN s : i < j => e[i] < e[j]
        /\ \A i \in DOMAIN s : t[e[i]] = s[i]
  BY DEF InOrder
<1>2. PICK f \in [DOMAIN t -> DOMAIN u] :
        /\ \A i, j \in DOMAIN t : i < j => f[i] < f[j]
        /\ \A i \in DOMAIN t : u[f[i]] = t[i]
  BY DEF InOrder
<1> DEFINE place == [i \in DOMAIN s |-> f[e[i]]]
<1>3. /\ place \in [DOMAIN s -> DOMAIN u]
      /\ \A i, j \in DOMAIN s : i < j => place[i] < place[j]
      /\ \A i \in DOMAIN s : u[place[i]] = s[i]
  BY <1>1, <1>2
<1> HIDE DEF place
<1> QED
  BY <1>3 DEF InOrder

LEMMA InOrderTexts ==
  ASSUME NEW s, NEW t, InOrder(s, t)
  PROVE  InOrder(visible(s), visible(t))
<1>1. PICK e \in [DOMAIN s -> DOMAIN t] :
        /\ \A i, j \in DOMAIN s : i < j => e[i] < e[j]
        /\ \A i \in DOMAIN s : t[e[i]] = s[i]
  BY DEF InOrder
<1>2. DOMAIN visible(s) = DOMAIN s /\ DOMAIN visible(t) = DOMAIN t
  BY DEF visible
<1>3. \A i \in DOMAIN s : visible(t)[e[i]] = visible(s)[i]
  BY <1>1 DEF visible
<1> QED
  BY <1>1, <1>2, <1>3 DEF InOrder

(* Ends that are put together. *)
LEMMA InOrderJoined ==
  ASSUME NEW s, NEW t, NEW u, NEW v, Sequence(s), Sequence(t), Sequence(u), Sequence(v),
         InOrder(s, t), InOrder(u, v)
  PROVE  InOrder(s \o u, t \o v)
<1>1. /\ Len(s) \in Nat /\ Len(t) \in Nat /\ Len(u) \in Nat /\ Len(v) \in Nat
      /\ DOMAIN s = 1 .. Len(s) /\ DOMAIN t = 1 .. Len(t)
      /\ DOMAIN u = 1 .. Len(u) /\ DOMAIN v = 1 .. Len(v)
  BY SequenceShape
<1>2. PICK e \in [1 .. Len(s) -> 1 .. Len(t)] :
        /\ \A i, j \in 1 .. Len(s) : i < j => e[i] < e[j]
        /\ \A i \in 1 .. Len(s) : t[e[i]] = s[i]
  BY <1>1 DEF InOrder
<1>3. PICK f \in [1 .. Len(u) -> 1 .. Len(v)] :
        /\ \A i, j \in 1 .. Len(u) : i < j => f[i] < f[j]
        /\ \A i \in 1 .. Len(u) : v[f[i]] = u[i]
  BY <1>1 DEF InOrder
<1>4. PICK k \in Nat, l \in Nat, m \in Nat, n \in Nat :
        k = Len(s) /\ l = Len(t) /\ m = Len(u) /\ n = Len(v)
  BY <1>1
<1> DEFINE a == s \o u
           b == t \o v
           place == [i \in 1 .. k + m |-> IF i <= k THEN e[i] ELSE l + f[i - k]]
<1>5. /\ DOMAIN a = 1 .. k + m /\ DOMAIN b = 1 .. l + n
      /\ \A i \in 1 .. k : a[i] = s[i]
      /\ \A i \in 1 .. m : a[k + i] = u[i]
      /\ \A i \in 1 .. l : b[i] = t[i]
      /\ \A i \in 1 .. n : b[l + i] = v[i]
  BY <1>4, JoinedShape
<1> HIDE DEF a, b
<1>6. /\ e \in [1 .. k -> 1 .. l] /\ f \in [1 .. m -> 1 .. n]
      /\ \A i, j \in 1 .. k : i < j => e[i] < e[j]
      /\ \A i, j \in 1 .. m : i < j => f[i] < f[j]
      /\ \A i \in 1 .. k : t[e[i]] = s[i]
      /\ \A i \in 1 .. m : v[f[i]] = u[i]
  BY <1>2, <1>3, <1>4
<1>7. k \in Nat /\ l \in Nat /\ m \in Nat /\ n \in Nat
  OBVIOUS
<1>8. \A i \in 1 .. k : place[i] = e[i] /\ e[i] \in 1 .. l
  <2>1. \A i \in 1 .. k : i \in 1 .. k + m /\ i <= k
    BY ONLY <1>7
  <2>2. \A i \in 1 .. k : place[i] = e[i]
    BY ONLY <2>1
  <2> HIDE DEF place
  <2> QED
    BY ONLY <1>6, <2>2
<1>9. ASSUME NEW i \in 1 .. k + m, ~(i <= k)
      PROVE  i - k \in 1 .. m /\ place[i] = l + f[i - k] /\ f[i - k] \in 1 .. n
  <2>1. i - k \in 1 .. m
    BY ONLY <1>9, <1>7
  <2> QED
    BY ONLY <1>9, <1>6, <2>1
<1>10. place \in [1 .. k + m -> 1 .. l + n]
  <2>1. ASSUME NEW i \in 1 .. k + m PROVE place[i] \in 1 .. l + n
    <3>1. CASE i <= k
      <4>1. i \in 1 .. k
        BY ONLY <3>1, <1>7, i \in 1 .. k + m
      <4>2. place[i] \in 1 .. l
        BY <1>8, <4>1
      <4> HIDE DEF place
      <4> QED
        BY ONLY <4>2, <1>7
    <3>2. CASE ~(i <= k)
      <4>1. place[i] = l + f[i - k] /\ f[i - k] \in 1 .. n
        BY <1>9, <3>2
      <4> HIDE DEF place
      <4> QED
        BY ONLY <4>1, <1>7
    <3> QED
      BY <3>1, <3>2
  <2> QED
    BY <2>1
<1>11. ASSUME NEW i \in 1 .. k + m, NEW j \in 1 .. k + m, i < j PROVE place[i] < place[j]
  <2>1. CASE j <= k
    <3>1. i \in 1 .. k /\ j \in 1 .. k
      BY <1>11, <1>7, <2>1
    <3>2. e[i] < e[j]
      BY ONLY <1>11, <1>6, <3>1
    <3> QED
      BY <1>8, <3>1, <3>2
  <2>2. CASE i <= k /\ ~(j <= k)
    <3>1. i \in 1 .. k
      BY ONLY <1>7, <2>2, i \in 1 .. k + m
    <3>2. place[i] \in 1 .. l
      BY <1>8, <3>1
    <3>3. place[j] = l + f[j - k] /\ f[j - k] \in 1 .. n
      BY <1>9, <2>2
    <3> HIDE DEF place
    <3> QED
      BY ONLY <1>7, <3>2, <3>3
  <2>3. CASE ~(i <= k) /\ ~(j <= k)
    <3>1. /\ i - k \in 1 .. m /\ j - k \in 1 .. m
          /\ place[i] = l + f[i - k] /\ place[j] = l + f[j - k]
          /\ f[i - k] \in 1 .. n /\ f[j - k] \in 1 .. n
      BY <1>9, <2>3
    <3>2. i - k < j - k
      BY <1>11, <1>7
    <3>3. f[i - k] < f[j - k]
      BY ONLY <1>6, <3>1, <3>2
    <3> HIDE DEF place
    <3> QED
      BY ONLY <1>7, <3>1, <3>3
  <2> QED
    BY <1>11, <1>7, <2>1, <2>2, <2>3
<1>12. ASSUME NEW i \in 1 .. k + m PROVE b[place[i]] = a[i]
  <2>1. CASE i <= k
    <3>1. i \in 1 .. k
      BY ONLY <1>7, <2>1, i \in 1 .. k + m
    <3>2. place[i] = e[i] /\ e[i] \in 1 .. l
      BY <1>8, <3>1
    <3> HIDE DEF place
    <3>3. b[e[i]] = t[e[i]]
      BY ONLY <1>5, <3>2
    <3>4. a[i] = s[i] /\ t[e[i]] = s[i]
      BY ONLY <1>5, <1>6, <3>1
    <3> QED
      BY ONLY <3>2, <3>3, <3>4
  <2>2. CASE ~(i <= k)
    <3>1. i - k \in 1 .. m /\ place[i] = l + f[i - k] /\ f[i - k] \in 1 .. n
      BY <1>9, <2>2
    <3>2. k + (i - k) = i
      BY ONLY <1>7, i \in 1 .. k + m
    <3> HIDE DEF place
    <3>3. b[place[i]] = v[f[i - k]]
      <4>1. b[l + f[i - k]] = v[f[i - k]]
        BY ONLY <1>5, <3>1
      <4> QED
        BY ONLY <3>1, <4>1
    <3>4. a[k + (i - k)] = u[i - k]
      BY ONLY <1>5, <3>1
    <3>5. v[f[i - k]] = u[i - k]
      BY ONLY <1>6, <3>1
    <3> QED
      BY ONLY <3>2, <3>3, <3>4, <3>5
  <2> QED
    BY <2>1, <2>2
<1> HIDE DEF place
<1>13. InOrder(a, b)
  <2>1. DOMAIN a = 1 .. k + m /\ DOMAIN b = 1 .. l + n
    BY ONLY <1>5
  <2> QED
    BY ONLY <1>10, <1>11, <1>12, <2>1 DEF InOrder
<1> QED
  BY <1>13 DEF a, b

(* What is in order stays so when something comes after. *)
LEMMA InOrderLonger ==
  ASSUME NEW s, NEW t, NEW v, Sequence(s), Sequence(t), Sequence(v), InOrder(s, t)
  PROVE  InOrder(s, t \o v)
<1>1. << >> \in Seq({})
  OBVIOUS
<1>2. Sequence(<< >>)
  BY <1>1, SequenceOf
<1>3. s \o << >> = s
  BY DEF Sequence
<1>4. InOrder(s \o << >>, t \o v)
  BY <1>2, NoneInOrder, InOrderJoined
<1> QED
  BY <1>3, <1>4

-----------------------------------------------------------------------------
(* FlattenSeq puts its pieces one after the other. *)
Flattened(seqs, n, f) ==
  f = [i \in 1 .. n |-> IF i = 1 THEN seqs[i] ELSE f[i - 1] \o seqs[i]]

LEMMA FlattenedExists ==
  ASSUME NEW n \in Nat, NEW seqs
  PROVE  \E f : Flattened(seqs, n, f)
<1> DEFINE Next1(f, i) == IF i = 1 THEN seqs[i] ELSE f[i - 1] \o seqs[i]
           Upto(f, m) == \A i \in 1 .. n : i <= m => f[i] = Next1(f, i)
           B == {m \in 0 .. n : \E f : f = [i \in 1 .. n |-> f[i]] /\ Upto(f, m)}
<1>1. 0 \in B
  <2> DEFINE f == [i \in 1 .. n |-> 0]
  <2> HIDE DEF Next1
  <2>1. f = [i \in 1 .. n |-> f[i]] /\ Upto(f, 0)
    OBVIOUS
  <2>2. 0 \in 0 .. n
    OBVIOUS
  <2> HIDE DEF f, Upto
  <2> QED
    BY <2>1, <2>2
<1>2. ASSUME NEW m \in 0 .. n - 1, m \in B PROVE m + 1 \in B
  <2>1. PICK f : f = [i \in 1 .. n |-> f[i]] /\ Upto(f, m)
    BY <1>2
  <2> DEFINE g == [i \in 1 .. n |-> Next1(f, i)]
  <2>2. \A i \in 1 .. n : i <= m => g[i] = f[i]
    BY <2>1
  <2>3. ASSUME NEW i \in 1 .. n, i <= m + 1 PROVE g[i] = Next1(g, i)
    <3>1. CASE i = 1
      BY <3>1
    <3>2. CASE i # 1
      <4>1. i - 1 \in 1 .. n /\ i - 1 <= m
        BY <2>3, <3>2
      <4>2. g[i - 1] = f[i - 1]
        BY <2>2, <4>1
      <4>3. g[i] = Next1(f, i)
        OBVIOUS
      <4> HIDE DEF g
      <4> QED
        BY <3>2, <4>2, <4>3
    <3> QED
      BY <3>1, <3>2
  <2>4. g = [i \in 1 .. n |-> g[i]]
    OBVIOUS
  <2> HIDE DEF g
  <2>5. Upto(g, m + 1)
    BY <2>3
  <2>6. m + 1 \in 0 .. n
    OBVIOUS
  <2> HIDE DEF Upto
  <2> QED
    BY <2>4, <2>5, <2>6
<1>3. n \in B
  <2> HIDE DEF B
  <2>1. \A i \in 0 .. n : i \in B
    BY ONLY n \in Nat, <1>1, <1>2, CountingUp
  <2> QED
    BY <2>1
<1>4. PICK f : f = [i \in 1 .. n |-> f[i]] /\ Upto(f, n)
  BY <1>3
<1>5. \A i \in 1 .. n : f[i] = Next1(f, i)
  <2> HIDE DEF Next1
  <2> QED
    BY <1>4
<1>6. Flattened(seqs, n, f)
  BY <1>4, <1>5 DEF Flattened
<1> QED
  BY <1>6

LEMMA FlattenSteps ==
  ASSUME NEW seqs, Len(seqs) \in Nat, Len(seqs) # 0
  PROVE  \E f : /\ FlattenSeq(seqs) = f[Len(seqs)] /\ f[1] = seqs[1]
                /\ \A i \in 1 .. Len(seqs) - 1 : f[i + 1] = f[i] \o seqs[i + 1]
<1> DEFINE f == CHOOSE f : Flattened(seqs, Len(seqs), f)
<1>1. Flattened(seqs, Len(seqs), f)
  BY FlattenedExists
<1>2. FlattenSeq(seqs) = f[Len(seqs)]
  BY DEF FlattenSeq, Flattened
<1> HIDE DEF f
<1>3. f[1] = seqs[1]
  BY <1>1 DEF Flattened
<1>4. ASSUME NEW i \in 1 .. Len(seqs) - 1 PROVE f[i + 1] = f[i] \o seqs[i + 1]
  <2>1. i + 1 \in 1 .. Len(seqs) /\ i + 1 # 1 /\ (i + 1) - 1 = i
    OBVIOUS
  <2> QED
    BY <1>1, <2>1 DEF Flattened
<1> QED
  BY <1>2, <1>3, <1>4

-----------------------------------------------------------------------------
(* Messages and parts of a sequence. *)
LEMMA VisibleShape ==
  ASSUME NEW s, Sequence(s)
  PROVE  /\ Sequence(visible(s)) /\ Len(visible(s)) = Len(s)
         /\ \A i \in 1 .. Len(s) : visible(s)[i] = s[i].text
<1>1. visible(s) = [i \in 1 .. Len(s) |-> s[i].text] /\ Len(s) \in Nat
  BY SequenceShape DEF visible
<1>2. visible(s) = [i \in 1 .. Len(s) |-> visible(s)[i]]
  BY <1>1
<1> QED
  BY <1>1, <1>2, SequenceFrom

LEMMA VisibleJoined ==
  ASSUME NEW s, NEW t, Sequence(s), Sequence(t)
  PROVE  visible(s \o t) = visible(s) \o visible(t)
<1>1. Len(s) \in Nat /\ Len(t) \in Nat
  BY SequenceShape
<1>2. /\ Sequence(visible(s)) /\ Len(visible(s)) = Len(s)
      /\ Sequence(visible(t)) /\ Len(visible(t)) = Len(t)
      /\ \A i \in 1 .. Len(s) : visible(s)[i] = s[i].text
      /\ \A i \in 1 .. Len(t) : visible(t)[i] = t[i].text
  BY VisibleShape
<1> DEFINE a == s \o t
           b == visible(s) \o visible(t)
<1>3. /\ Sequence(a) /\ Len(a) = Len(s) + Len(t)
      /\ \A i \in 1 .. Len(s) : a[i] = s[i]
      /\ \A i \in 1 .. Len(t) : a[Len(s) + i] = t[i]
  BY JoinedShape
<1>4. /\ Sequence(b) /\ Len(b) = Len(s) + Len(t)
      /\ \A i \in 1 .. Len(s) : b[i] = visible(s)[i]
      /\ \A i \in 1 .. Len(t) : b[Len(s) + i] = visible(t)[i]
  <2>1. PICK u, v : u = visible(s) /\ v = visible(t)
    OBVIOUS
  <2>2. b = u \o v
    BY ONLY <2>1
  <2>3. Sequence(u) /\ Sequence(v) /\ Len(u) = Len(s) /\ Len(v) = Len(t)
    BY ONLY <1>2, <2>1
  <2>4. /\ Sequence(u \o v) /\ Len(u \o v) = Len(u) + Len(v)
        /\ \A i \in 1 .. Len(u) : (u \o v)[i] = u[i]
        /\ \A i \in 1 .. Len(v) : (u \o v)[Len(u) + i] = v[i]
    BY ONLY <2>3, JoinedShape
  <2> HIDE DEF b
  <2> QED
    BY ONLY <2>1, <2>2, <2>3, <2>4
<1> HIDE DEF a, b
<1>5. /\ Sequence(visible(a)) /\ Len(visible(a)) = Len(a)
      /\ \A i \in 1 .. Len(a) : visible(a)[i] = a[i].text
  BY <1>3, VisibleShape
<1>6. ASSUME NEW i \in 1 .. Len(s) + Len(t) PROVE visible(a)[i] = b[i]
  <2>1. CASE i <= Len(s)
    <3>1. i \in 1 .. Len(s)
      BY <1>1, <2>1
    <3> QED
      BY <1>2, <1>3, <1>4, <1>5, <3>1
  <2>2. CASE ~(i <= Len(s))
    <3>1. PICK j \in 1 .. Len(t) : i = Len(s) + j
      <4>1. i - Len(s) \in 1 .. Len(t) /\ i = Len(s) + (i - Len(s))
        BY <1>1, <2>2
      <4> QED
        BY <4>1
    <3>2. visible(a)[i] = a[i].text /\ a[i] = t[j] /\ b[i] = visible(t)[j]
      BY <1>3, <1>4, <1>5, <3>1
    <3> QED
      BY <1>2, <3>2
  <2> QED
    BY <2>1, <2>2
<1>7. visible(a) = b
  BY <1>3, <1>4, <1>5, <1>6, SamePlaces
<1> QED
  BY <1>7 DEF a, b

LEMMA NewMessages ==
  ASSUME NEW context, Sequence(context), NEW direction, NEW anchor
  PROVE  /\ Sequence(newCapturedMessages(context, direction, anchor))
         /\ visible(newCapturedMessages(context, direction, anchor)) = context
<1> DEFINE s == newCapturedMessages(context, direction, anchor)
<1>1. /\ Len(context) \in Nat
      /\ s = [i \in 1 .. Len(context) |->
                [id |-> <<direction, anchor, i, context[i]>>, text |-> context[i]]]
  BY SequenceShape DEF newCapturedMessages
<1>2. s = [i \in 1 .. Len(context) |-> s[i]]
  BY <1>1
<1>3. \A i \in 1 .. Len(context) : s[i].text = context[i]
  BY <1>1
<1> HIDE DEF s
<1>4. Sequence(s) /\ Len(s) = Len(context)
  BY <1>1, <1>2, SequenceFrom
<1>5. visible(s) = context
  BY <1>3, <1>4, VisibleShape, SamePlaces
<1> QED
  BY <1>4, <1>5 DEF s

LEMMA PartShape ==
  ASSUME NEW s, Sequence(s), NEW i \in 1 .. Len(s) + 1, NEW j \in i - 1 .. Len(s)
  PROVE  /\ Sequence(SubSeq(s, i, j)) /\ Len(SubSeq(s, i, j)) = j - i + 1
         /\ \A k \in 1 .. j - i + 1 : SubSeq(s, i, j)[k] = s[i + k - 1]
<1>1. Len(s) \in Nat
  BY SequenceShape
<1>2. i - 1 \in 0 .. Len(s)
  BY <1>1
<1>3. j - i + 1 \in Nat
  BY <1>1
<1>4. SubSeq(s, i, j) = [k \in 1 .. j - i + 1 |-> s[i + k - 1]]
  BY <1>1 DEF Sequence
<1>5. SubSeq(s, i, j) = [k \in 1 .. j - i + 1 |-> SubSeq(s, i, j)[k]]
  BY <1>4
<1> QED
  BY <1>3, <1>4, <1>5, SequenceFrom

LEMMA PartsJoined ==
  ASSUME NEW s, Sequence(s), NEW i \in 0 .. Len(s), NEW j \in i .. Len(s)
  PROVE  SubSeq(s, 1, j) = SubSeq(s, 1, i) \o SubSeq(s, i + 1, j)
<1> DEFINE a == SubSeq(s, 1, i)
           b == SubSeq(s, i + 1, j)
           c == SubSeq(s, 1, j)
<1>1. Len(s) \in Nat
  BY SequenceShape
<1>2. /\ Sequence(a) /\ Len(a) = i /\ \A k \in 1 .. i : a[k] = s[k]
  BY <1>1, PartShape
<1>3. /\ Sequence(b) /\ Len(b) = j - i
      /\ \A k \in 1 .. j - i : b[k] = s[i + k]
  <2>1. i + 1 \in 1 .. Len(s) + 1 /\ j \in (i + 1) - 1 .. Len(s) /\ j - (i + 1) + 1 = j - i
    BY <1>1
  <2>2. \A k \in 1 .. j - i : (i + 1) + k - 1 = i + k
    BY <1>1
  <2> QED
    BY <2>1, <2>2, PartShape
<1>4. /\ Sequence(c) /\ Len(c) = j /\ \A k \in 1 .. j : c[k] = s[k]
  BY <1>1, PartShape
<1> HIDE DEF a, b, c
<1>5. /\ Sequence(a \o b) /\ Len(a \o b) = i + (j - i)
      /\ \A k \in 1 .. i : (a \o b)[k] = a[k]
      /\ \A k \in 1 .. j - i : (a \o b)[i + k] = b[k]
  BY <1>2, <1>3, JoinedShape
<1>6. i + (j - i) = j
  BY <1>1
<1>7. ASSUME NEW k \in 1 .. j PROVE c[k] = (a \o b)[k]
  <2>1. CASE k <= i
    <3>1. k \in 1 .. i
      BY <1>1, <2>1
    <3> QED
      BY <1>2, <1>4, <1>5, <3>1
  <2>2. CASE ~(k <= i)
    <3>1. k - i \in 1 .. j - i /\ i + (k - i) = k
      BY <1>1, <2>2
    <3>2. (a \o b)[i + (k - i)] = b[k - i] /\ b[k - i] = s[i + (k - i)]
      BY <1>3, <1>5, <3>1
    <3> QED
      BY <1>4, <3>1, <3>2
  <2> QED
    BY <2>1, <2>2
<1>8. c = a \o b
  BY <1>4, <1>5, <1>6, <1>7, SamePlaces
<1> QED
  BY <1>8 DEF a, b, c

-----------------------------------------------------------------------------
(* Matched pairs of two sequences, as a unique alignment has them. *)
Matching(pairs, p, q) ==
  /\ pairs \subseteq (1 .. Len(p)) \X (1 .. Len(q))
  /\ \A x \in pairs : p[x[1]] = q[x[2]]
  /\ \A x, y \in pairs : x[1] < y[1] => x[2] < y[2]
  /\ \A x, y \in pairs : x # y => x[1] # y[1]

(* How much of the second is matched or passed with i of the first. *)
Seen(pairs, i) == LastPair({y \in pairs : y[1] <= i})[2]

LEMMA LastPairFacts ==
  ASSUME NEW n \in Nat, NEW m, NEW T \in SUBSET ((1 .. n) \X (1 .. m)), T # {}
  PROVE  LastPair(T) \in T /\ \A y \in T : y[1] <= LastPair(T)[1]
<1> DEFINE A == {n - y[1] : y \in T}
<1>1. \A y \in T : y[1] \in 1 .. n
  OBVIOUS
<1>2. A \in SUBSET Nat /\ A # {}
  BY <1>1
<1>3. PICK a \in A : \A b \in A : a <= b
  <2> HIDE DEF A
  <2> QED
    BY <1>2, LeastMember
<1>4. PICK x \in T : a = n - x[1]
  BY <1>3
<1>5. \A y \in T : n - x[1] <= n - y[1]
  BY <1>3, <1>4
<1>6. \A y \in T : y[1] <= x[1]
  BY <1>1, <1>5
<1> HIDE DEF A
<1> QED
  BY <1>6 DEF LastPair

LEMMA SeenSteps ==
  ASSUME NEW p, NEW q, Len(p) \in Nat, Len(q) \in Nat, NEW pairs, Matching(pairs, p, q)
  PROVE  /\ Seen(pairs, 0) = 0
         /\ Seen(pairs, Len(p)) = LastPair(pairs)[2]
         /\ \A i \in 0 .. Len(p) : Seen(pairs, i) \in 0 .. Len(q)
         /\ \A i \in 1 .. Len(p) :
              (\A y \in pairs : y[1] # i) => Seen(pairs, i) = Seen(pairs, i - 1)
         /\ \A x \in pairs :
              /\ Seen(pairs, x[1]) = x[2]
              /\ Seen(pairs, x[1] - 1) = PairBefore(pairs, x)[2]
              /\ Seen(pairs, x[1] - 1) \in 0 .. x[2] - 1
<1> DEFINE Upto(i) == {y \in pairs : y[1] <= i}
<1>1. \A y \in pairs : y[1] \in 1 .. Len(p) /\ y[2] \in 1 .. Len(q)
  BY DEF Matching
<1>2. LastPair({})[2] = 0
  BY DEF LastPair
<1>3. ASSUME NEW i \in 0 .. Len(p)
      PROVE  \/ Upto(i) = {} /\ Seen(pairs, i) = 0
             \/ \E y \in Upto(i) : Seen(pairs, i) = y[2] /\ \A z \in Upto(i) : z[1] <= y[1]
  <2>1. CASE Upto(i) = {}
    BY <1>2, <2>1 DEF Seen
  <2>2. CASE Upto(i) # {}
    <3>1. Upto(i) \in SUBSET ((1 .. Len(p)) \X (1 .. Len(q)))
      BY DEF Matching
    <3>2. Seen(pairs, i) = LastPair(Upto(i))[2]
      BY DEF Seen
    <3> HIDE DEF Upto
    <3> QED
      BY <2>2, <3>1, <3>2, LastPairFacts
  <2> QED
    BY <2>1, <2>2
<1>4. Seen(pairs, 0) = 0
  <2>1. Upto(0) = {}
    BY <1>1
  <2> QED
    BY <1>3, <2>1
<1>5. Seen(pairs, Len(p)) = LastPair(pairs)[2]
  <2>1. Upto(Len(p)) = pairs
    BY <1>1
  <2> QED
    BY <2>1 DEF Seen
<1>6. ASSUME NEW i \in 0 .. Len(p) PROVE Seen(pairs, i) \in 0 .. Len(q)
  BY <1>1, <1>3
<1>7. ASSUME NEW i \in 1 .. Len(p), \A y \in pairs : y[1] # i
      PROVE  Seen(pairs, i) = Seen(pairs, i - 1)
  <2>1. \A y \in pairs : y[1] <= i <=> y[1] <= i - 1
    BY <1>1, <1>7
  <2>2. Upto(i) = Upto(i - 1)
    BY <2>1
  <2> QED
    BY <2>2 DEF Seen
<1>8. ASSUME NEW x \in pairs
      PROVE  /\ Seen(pairs, x[1]) = x[2]
             /\ Seen(pairs, x[1] - 1) = PairBefore(pairs, x)[2]
             /\ Seen(pairs, x[1] - 1) \in 0 .. x[2] - 1
  <2>1. x[1] \in 1 .. Len(p) /\ x[2] \in 1 .. Len(q)
    BY <1>1
  <2>2. Seen(pairs, x[1]) = x[2]
    <3>1. x \in Upto(x[1]) /\ x[1] \in 0 .. Len(p)
      BY <2>1
    <3>2. PICK y \in Upto(x[1]) :
            Seen(pairs, x[1]) = y[2] /\ \A z \in Upto(x[1]) : z[1] <= y[1]
      BY <1>3, <3>1
    <3>3. y \in pairs /\ y[1] <= x[1] /\ x[1] <= y[1]
      BY <3>1, <3>2
    <3>4. y[1] = x[1]
      BY <1>1, <3>3
    <3>5. y = x
      BY <3>3, <3>4 DEF Matching
    <3> QED
      BY <3>2, <3>5
  <2>3. \A y \in pairs : y[1] < x[1] <=> y[1] <= x[1] - 1
    BY <1>1, <2>1
  <2>4. {y \in pairs : y[1] < x[1]} = Upto(x[1] - 1)
    BY <2>3
  <2>5. Seen(pairs, x[1] - 1) = PairBefore(pairs, x)[2]
    BY <2>4 DEF Seen, PairBefore
  <2>6. x[1] - 1 \in 0 .. Len(p)
    BY <2>1
  <2>7. CASE Upto(x[1] - 1) = {}
    <3>1. Seen(pairs, x[1] - 1) = 0
      BY <1>3, <2>6, <2>7
    <3> QED
      BY <2>1, <2>2, <2>5, <3>1
  <2>8. CASE Upto(x[1] - 1) # {}
    <3>1. PICK y \in Upto(x[1] - 1) : Seen(pairs, x[1] - 1) = y[2]
      BY <1>3, <2>6, <2>8
    <3>2. y \in pairs /\ y[1] < x[1]
      BY <2>3
    <3>3. y[2] < x[2] /\ y[2] \in 1 .. Len(q)
      BY <1>1, <3>2 DEF Matching
    <3> QED
      BY <2>1, <2>2, <2>5, <3>1, <3>3
  <2> QED
    BY <2>7, <2>8
<1> QED
  BY <1>4, <1>5, <1>6, <1>7, <1>8

LEMMA UniqueIsMatching ==
  ASSUME NEW p, NEW q, UniquelyAligned(p, q)
  PROVE  Matching(AlignedPairs(p, q), p, q)
<1>1. /\ AlignedPairs(p, q) \subseteq (1 .. Len(p)) \X (1 .. Len(q))
      /\ \A x \in AlignedPairs(p, q) : p[x[1]] = q[x[2]]
  BY ONLY DEF AlignedPairs
<1> DEFINE pairs == AlignedPairs(p, q)
<1>2. \A x, y \in pairs : x[1] < y[1] => x[2] < y[2]
  BY ONLY UniquelyAligned(p, q), Zenon DEF UniquelyAligned
<1>3. \A x, y \in pairs : x # y => x[1] # y[1]
  BY ONLY UniquelyAligned(p, q), Zenon DEF UniquelyAligned
<1> HIDE DEF pairs
<1>4. pairs \subseteq (1 .. Len(p)) \X (1 .. Len(q)) /\ \A x \in pairs : p[x[1]] = q[x[2]]
  BY <1>1 DEF pairs
<1>5. Matching(pairs, p, q)
  BY ONLY <1>2, <1>3, <1>4, Zenon DEF Matching
<1> QED
  BY <1>5 DEF pairs

-----------------------------------------------------------------------------
(* mergeVisibleContext keeps what was captured, and has the context. *)
PieceOf(prior, context, pairs, i) ==
  LET x == CHOOSE y \in pairs : y[1] = i IN
  IF \A y \in pairs : y[1] # i THEN <<prior[i]>>
  ELSE newCapturedMessages(SubSeq(context, PairBefore(pairs, x)[2] + 1, x[2] - 1),
                           "before", prior[i].id) \o <<prior[i]>>

(* A piece has its message and what of the context is new before it. *)
LEMMA PieceFacts ==
  ASSUME NEW prior, Sequence(prior), NEW context, Sequence(context),
         NEW pairs, Matching(pairs, visible(prior), context),
         NEW i \in 1 .. Len(prior)
  PROVE  LET s == PieceOf(prior, context, pairs, i) IN
         /\ Sequence(s)
         /\ InOrder(SubSeq(prior, i, i), s)
         /\ Seen(pairs, i - 1) <= Seen(pairs, i)
         /\ InOrder(SubSeq(context, Seen(pairs, i - 1) + 1, Seen(pairs, i)), visible(s))
<1>1. /\ Len(prior) \in Nat /\ Len(context) \in Nat
      /\ Len(visible(prior)) = Len(prior)
      /\ \A j \in 1 .. Len(prior) : visible(prior)[j] = prior[j].text
  BY SequenceShape, VisibleShape
<1> DEFINE one == <<prior[i]>>
           s == PieceOf(prior, context, pairs, i)
<1>2. Sequence(one) /\ Len(one) = 1 /\ one[1] = prior[i]
  BY OnePlace
<1>3. SubSeq(prior, i, i) = one
  <2>1. i \in 1 .. Len(prior) + 1 /\ i \in i - 1 .. Len(prior) /\ i - i + 1 = 1 /\ i + 1 - 1 = i
    BY <1>1
  <2>2. /\ Sequence(SubSeq(prior, i, i)) /\ Len(SubSeq(prior, i, i)) = 1
        /\ SubSeq(prior, i, i)[1] = prior[i]
    BY <2>1, PartShape
  <2> HIDE DEF one
  <2>3. \A j \in 1 .. 1 : SubSeq(prior, i, i)[j] = one[j]
    BY <1>2, <2>2
  <2> QED
    BY <1>2, <2>2, <2>3, SamePlaces
<1>4. Seen(pairs, i) \in 0 .. Len(context) /\ Seen(pairs, i - 1) \in 0 .. Len(context)
  <2>1. i \in 0 .. Len(prior) /\ i - 1 \in 0 .. Len(prior)
    BY <1>1
  <2> QED
    BY <1>1, <2>1, SeenSteps
<1>5. CASE \A y \in pairs : y[1] # i
  <2>1. s = one
    BY <1>5 DEF PieceOf
  <2>2. Seen(pairs, i) = Seen(pairs, i - 1)
    BY <1>1, <1>5, SeenSteps
  <2>3. SubSeq(context, Seen(pairs, i - 1) + 1, Seen(pairs, i)) = << >>
    <3>1. PICK k \in 0 .. Len(context) : k = Seen(pairs, i - 1)
      BY <1>4
    <3>2. Len(SubSeq(context, k + 1, k)) = 0 /\ Sequence(SubSeq(context, k + 1, k))
      <4>1. k + 1 \in 1 .. Len(context) + 1 /\ k \in (k + 1) - 1 .. Len(context)
            /\ k - (k + 1) + 1 = 0
        BY <1>1
      <4> QED
        BY <4>1, PartShape
    <3>3. SubSeq(context, k + 1, k) = << >>
      BY <3>2 DEF Sequence
    <3> QED
      BY <2>2, <3>1, <3>3
  <2> HIDE DEF s, one
  <2>4. Sequence(s) /\ InOrder(SubSeq(prior, i, i), s)
    BY <1>2, <1>3, <2>1, InOrderItself
  <2>5. InOrder(SubSeq(context, Seen(pairs, i - 1) + 1, Seen(pairs, i)), visible(s))
    BY <2>3, NoneInOrder
  <2>6. Seen(pairs, i - 1) <= Seen(pairs, i)
    BY <1>4, <2>2
  <2> QED
    BY <2>4, <2>5, <2>6 DEF s
<1>6. CASE ~(\A y \in pairs : y[1] # i)
  <2> DEFINE x == CHOOSE y \in pairs : y[1] = i
             before == PairBefore(pairs, x)[2]
             part == SubSeq(context, before + 1, x[2] - 1)
             new == newCapturedMessages(part, "before", prior[i].id)
  <2>1. x \in pairs /\ x[1] = i
    BY <1>6
  <2>2. s = new \o one
    BY <1>6 DEF PieceOf
  <2> HIDE DEF x, s, one
  <2>3. /\ Seen(pairs, i) = x[2] /\ Seen(pairs, i - 1) = before /\ before \in 0 .. x[2] - 1
    BY <1>1, <2>1, SeenSteps
  <2>4. x[2] \in 1 .. Len(context) /\ prior[i].text = context[x[2]]
    BY <1>1, <2>1 DEF Matching
  <2> HIDE DEF before
  <2>5. PICK k \in Nat, l \in Nat : k = before /\ l = x[2] /\ k < l /\ l <= Len(context)
    <3>1. x[2] \in Nat /\ x[2] <= Len(context)
      BY ONLY <1>1, <2>4
    <3>2. before \in Nat /\ before < x[2]
      BY ONLY <2>3, <3>1
    <3> QED
      BY <3>1, <3>2
  <2>6. /\ Sequence(part) /\ Len(part) = (l - 1) - k
        /\ \A j \in 1 .. (l - 1) - k : part[j] = context[k + j]
    <3>1. /\ k + 1 \in 1 .. Len(context) + 1 /\ l - 1 \in (k + 1) - 1 .. Len(context)
          /\ (l - 1) - (k + 1) + 1 = (l - 1) - k
          /\ \A j \in 1 .. (l - 1) - k : (k + 1) + j - 1 = k + j
      BY <1>1, <2>5
    <3>2. part = SubSeq(context, k + 1, l - 1)
      BY <2>5
    <3> HIDE DEF part
    <3>3. /\ Sequence(part) /\ Len(part) = (l - 1) - (k + 1) + 1
          /\ \A j \in 1 .. (l - 1) - (k + 1) + 1 : part[j] = context[(k + 1) + j - 1]
      BY ONLY Sequence(context), <3>1, <3>2, PartShape
    <3> QED
      BY ONLY <3>1, <3>3
  <2> HIDE DEF part
  <2>7. Sequence(new) /\ visible(new) = part
    BY <2>6, NewMessages
  <2> HIDE DEF new
  <2>8. /\ Sequence(s) /\ InOrder(one, s)
    <3>1. InOrder(<< >>, new) /\ InOrder(one, one)
      BY <1>2, NoneInOrder, InOrderItself
    <3>2. << >> \in Seq({})
      OBVIOUS
    <3>3. Sequence(<< >>)
      BY <3>2, SequenceOf
    <3>4. InOrder(<< >> \o one, new \o one)
      BY <1>2, <2>7, <3>1, <3>3, InOrderJoined
    <3>5. << >> \o one = one
      BY <1>2 DEF Sequence
    <3> QED
      BY <1>2, <2>2, <2>7, <3>4, <3>5, JoinedShape
  <2>9. InOrder(SubSeq(context, k + 1, l), visible(s))
    <3> DEFINE c == SubSeq(context, k + 1, l)
    <3>1. visible(s) = part \o visible(one)
      BY <1>2, <2>2, <2>7, VisibleJoined
    <3>2. Sequence(visible(one)) /\ Len(visible(one)) = 1 /\ visible(one)[1] = context[l]
      <4>1. visible(one)[1] = one[1].text
        BY <1>2, VisibleShape
      <4> QED
        BY <1>2, <2>4, <2>5, <4>1, VisibleShape
    <3>3. /\ Sequence(c) /\ Len(c) = l - k /\ \A j \in 1 .. l - k : c[j] = context[k + j]
      <4>1. /\ k + 1 \in 1 .. Len(context) + 1 /\ l \in (k + 1) - 1 .. Len(context)
            /\ l - (k + 1) + 1 = l - k
            /\ \A j \in 1 .. l - k : (k + 1) + j - 1 = k + j
        BY <1>1, <2>5
      <4> QED
        BY <4>1, PartShape
    <3> DEFINE d == part \o visible(one)
    <3>4. /\ Sequence(d) /\ Len(d) = ((l - 1) - k) + 1
          /\ \A j \in 1 .. (l - 1) - k : d[j] = part[j]
          /\ \A j \in 1 .. 1 : d[((l - 1) - k) + j] = visible(one)[j]
      <4>1. /\ Sequence(d) /\ Len(d) = Len(part) + Len(visible(one))
            /\ \A j \in 1 .. Len(part) : d[j] = part[j]
            /\ \A j \in 1 .. Len(visible(one)) : d[Len(part) + j] = visible(one)[j]
        <5>1. Sequence(part) /\ Sequence(visible(one))
          BY <2>6, <3>2
        <5> QED
          BY ONLY <5>1, JoinedShape
      <4>2. Len(part) = (l - 1) - k /\ Len(visible(one)) = 1
        BY <2>6, <3>2
      <4> HIDE DEF d
      <4> QED
        BY ONLY <4>1, <4>2
    <3> HIDE DEF c, d
    <3>5. ((l - 1) - k) + 1 = l - k
      BY <2>5
    <3>6. ASSUME NEW j \in 1 .. l - k PROVE c[j] = d[j]
      <4>1. CASE j = l - k
        <5>1. /\ k + (l - k) = l /\ l - k \in 1 .. l - k
              /\ ((l - 1) - k) + 1 = l - k /\ 1 \in 1 .. 1
          <6>1. k < l
            BY ONLY <2>5
          <6> QED
            BY ONLY <6>1, k \in Nat, l \in Nat
        <5>2. d[((l - 1) - k) + 1] = visible(one)[1]
          BY ONLY <3>4, <5>1
        <5>3. d[l - k] = context[l]
          BY ONLY <3>2, <5>1, <5>2
        <5> QED
          BY ONLY <3>3, <4>1, <5>1, <5>3
      <4>2. CASE j # l - k
        <5>1. j \in 1 .. (l - 1) - k
          BY <2>5, <4>2
        <5> QED
          BY <2>6, <3>3, <3>4, <5>1
      <4> QED
        BY <4>1, <4>2
    <3>7. c = d
      BY <3>3, <3>4, <3>5, <3>6, SamePlaces
    <3> QED
      BY <3>1, <3>3, <3>7, InOrderItself DEF c, d
  <2>10. k <= l
    BY <2>5
  <2> QED
    BY <1>3, <2>3, <2>5, <2>8, <2>9, <2>10 DEF s
<1> QED
  BY <1>5, <1>6

(* So have the pieces up to any message. *)
LEMMA PiecesFacts ==
  ASSUME NEW prior, Sequence(prior), prior # << >>, NEW context, Sequence(context),
         NEW pairs, Matching(pairs, visible(prior), context)
  PROVE  LET s == FlattenSeq([i \in DOMAIN prior |-> PieceOf(prior, context, pairs, i)]) IN
         /\ Sequence(s)
         /\ InOrder(prior, s)
         /\ InOrder(SubSeq(context, 1, LastPair(pairs)[2]), visible(s))
<1> DEFINE n == Len(prior)
           seqs == [i \in DOMAIN prior |-> PieceOf(prior, context, pairs, i)]
           seen(i) == Seen(pairs, i)
<1>1. n \in Nat /\ DOMAIN prior = 1 .. n /\ Len(context) \in Nat /\ Len(visible(prior)) = n
  BY SequenceShape, VisibleShape
<1>2. n # 0
  BY DEF Sequence
<1>3. Len(seqs) = n /\ \A i \in 1 .. n : seqs[i] = PieceOf(prior, context, pairs, i)
  <2>1. seqs = [i \in 1 .. n |-> seqs[i]] /\ \A i \in 1 .. n : seqs[i] = PieceOf(prior, context, pairs, i)
    BY <1>1
  <2> HIDE DEF seqs
  <2> QED
    BY <1>1, <2>1, SequenceFrom
<1> HIDE DEF seqs
<1>4. PICK f : /\ FlattenSeq(seqs) = f[n] /\ f[1] = seqs[1]
               /\ \A i \in 1 .. n - 1 : f[i + 1] = f[i] \o seqs[i + 1]
  <2>1. Len(seqs) \in Nat /\ Len(seqs) # 0 /\ Len(seqs) = n
    BY <1>1, <1>2, <1>3
  <2>2. \E f : /\ FlattenSeq(seqs) = f[Len(seqs)] /\ f[1] = seqs[1]
               /\ \A i \in 1 .. Len(seqs) - 1 : f[i + 1] = f[i] \o seqs[i + 1]
    BY <2>1, FlattenSteps
  <2> HIDE DEF n
  <2> QED
    BY ONLY <2>1, <2>2
<1>5. /\ seen(0) = 0 /\ seen(n) = LastPair(pairs)[2]
      /\ \A i \in 0 .. n : seen(i) \in 0 .. Len(context)
  BY <1>1, SeenSteps
<1>6. ASSUME NEW i \in 1 .. n
      PROVE  /\ Sequence(seqs[i])
             /\ InOrder(SubSeq(prior, i, i), seqs[i])
             /\ seen(i - 1) <= seen(i)
             /\ InOrder(SubSeq(context, seen(i - 1) + 1, seen(i)), visible(seqs[i]))
  BY <1>3, PieceFacts
<1> HIDE DEF seen
<1> DEFINE Has(i) == /\ Sequence(f[i]) /\ InOrder(SubSeq(prior, 1, i), f[i])
                     /\ InOrder(SubSeq(context, 1, seen(i)), visible(f[i]))
           B == {i \in 1 .. n : Has(i)}
<1>7. 1 \in B
  <2>1. 1 \in 1 .. n /\ 1 - 1 = 0 /\ 0 + 1 = 1
    BY <1>1, <1>2
  <2>2. /\ Sequence(seqs[1]) /\ InOrder(SubSeq(prior, 1, 1), seqs[1])
        /\ InOrder(SubSeq(context, seen(1 - 1) + 1, seen(1)), visible(seqs[1]))
    BY <1>6, <2>1
  <2>3. seen(1 - 1) + 1 = 1
    BY ONLY <1>5, <2>1
  <2>4. Has(1)
    BY ONLY <1>4, <2>2, <2>3
  <2> QED
    BY <2>1, <2>4
<1>8. ASSUME NEW i \in 1 .. n - 1, i \in B PROVE i + 1 \in B
  <2>1. i + 1 \in 1 .. n /\ i \in 1 .. n /\ i \in 0 .. n /\ i + 1 \in 0 .. n /\ (i + 1) - 1 = i
    BY <1>1
  <2>2. Has(i)
    BY <1>8
  <2>3. /\ Sequence(seqs[i + 1]) /\ InOrder(SubSeq(prior, i + 1, i + 1), seqs[i + 1])
        /\ seen(i) <= seen(i + 1)
        /\ InOrder(SubSeq(context, seen(i) + 1, seen(i + 1)), visible(seqs[i + 1]))
    BY <1>6, <2>1
  <2>4. seen(i) \in 0 .. Len(context) /\ seen(i + 1) \in seen(i) .. Len(context)
    <3>1. seen(i) \in 0 .. Len(context) /\ seen(i + 1) \in 0 .. Len(context)
      BY <1>5, <2>1
    <3> QED
      BY <1>1, <2>3, <3>1
  <2>5. /\ SubSeq(prior, 1, i + 1) = SubSeq(prior, 1, i) \o SubSeq(prior, i + 1, i + 1)
        /\ SubSeq(context, 1, seen(i + 1))
             = SubSeq(context, 1, seen(i)) \o SubSeq(context, seen(i) + 1, seen(i + 1))
    <3>1. i \in 0 .. n /\ i + 1 \in i .. n
      BY <1>1
    <3> QED
      BY <2>4, <3>1, PartsJoined
  <2>6. /\ Sequence(SubSeq(prior, 1, i)) /\ Sequence(SubSeq(prior, i + 1, i + 1))
        /\ Sequence(SubSeq(context, 1, seen(i)))
        /\ Sequence(SubSeq(context, seen(i) + 1, seen(i + 1)))
    <3>1. /\ 1 \in 1 .. n + 1 /\ i \in 1 - 1 .. n
          /\ i + 1 \in 1 .. n + 1 /\ i + 1 \in (i + 1) - 1 .. n
      BY <1>1
    <3>2. PICK a \in Nat, b \in Nat : a = seen(i) /\ b = seen(i + 1)
      BY <1>1, <2>4
    <3>3. /\ 1 \in 1 .. Len(context) + 1 /\ a \in 1 - 1 .. Len(context)
          /\ a + 1 \in 1 .. Len(context) + 1 /\ b \in (a + 1) - 1 .. Len(context)
      BY <1>1, <2>4, <3>2
    <3> QED
      BY <3>1, <3>2, <3>3, PartShape
  <2>7. f[i + 1] = f[i] \o seqs[i + 1]
    BY <1>4
  <2>8. Sequence(f[i + 1])
    BY <2>2, <2>3, <2>7, JoinedShape
  <2>9. InOrder(SubSeq(prior, 1, i + 1), f[i + 1])
    BY <2>2, <2>3, <2>5, <2>6, <2>7, InOrderJoined
  <2>10. InOrder(SubSeq(context, 1, seen(i + 1)), visible(f[i + 1]))
    <3>1. visible(f[i + 1]) = visible(f[i]) \o visible(seqs[i + 1])
      BY <2>2, <2>3, <2>7, VisibleJoined
    <3>2. Sequence(visible(f[i])) /\ Sequence(visible(seqs[i + 1]))
      BY <2>2, <2>3, VisibleShape
    <3> QED
      BY <2>2, <2>3, <2>5, <2>6, <3>1, <3>2, InOrderJoined
  <2> QED
    BY <2>1, <2>8, <2>9, <2>10
<1>9. Has(n)
  <2> HIDE DEF Has
  <2>1. n \in B
    <3> HIDE DEF B
    <3>1. 1 \in Nat /\ n \in Nat /\ n \in 1 .. n
      BY <1>1, <1>2
    <3>2. \A i \in 1 .. n : i \in B
      <4> HIDE DEF n
      <4> QED
        BY ONLY <3>1, <1>7, <1>8, CountingUp
    <3> QED
      BY <3>1, <3>2
  <2> QED
    BY <2>1
<1>10. SubSeq(prior, 1, n) = prior
  BY SubSeqFull DEF Sequence
<1> QED
  BY <1>4, <1>5, <1>9, <1>10 DEF seqs

LEMMA MergeKeeps ==
  ASSUME NEW prior, Sequence(prior), NEW context, Sequence(context),
         Mergeable(visible(prior), context)
  PROVE  LET s == mergeVisibleContext(prior, context) IN
         Sequence(s) /\ InOrder(prior, s) /\ InOrder(context, visible(s))
<1> DEFINE s == mergeVisibleContext(prior, context)
           p == visible(prior)
           pairs == AlignedPairs(p, context)
           last == LastPair(pairs)
           seqs == [i \in DOMAIN prior |-> PieceOf(prior, context, pairs, i)]
           rest == SubSeq(context, last[2] + 1, Len(context))
           new == newCapturedMessages(rest, "after", prior[last[1]].id)
<1>1. CASE prior = << >>
  <2>1. s = newCapturedMessages(context, "initial", << >>)
    BY <1>1 DEF mergeVisibleContext
  <2> HIDE DEF s
  <2>2. Sequence(s) /\ visible(s) = context
    BY <2>1, NewMessages
  <2>3. InOrder(prior, s) /\ InOrder(context, visible(s))
    BY <1>1, <2>2, NoneInOrder, InOrderItself
  <2> QED
    BY <2>2, <2>3 DEF s
<1>2. CASE prior # << >> /\ p = context
  <2>1. s = prior
    BY <1>2 DEF mergeVisibleContext
  <2> HIDE DEF s
  <2>2. InOrder(prior, s) /\ InOrder(context, visible(s))
    BY <1>2, <2>1, InOrderItself
  <2> QED
    BY <2>1, <2>2 DEF s
<1>3. CASE prior # << >> /\ p # context
  <2>1. s = FlattenSeq(seqs) \o new
    BY <1>3 DEF mergeVisibleContext, PieceOf
  <2>2. Len(p) = Len(prior) /\ Len(prior) \in Nat /\ Len(context) \in Nat
    BY SequenceShape, VisibleShape
  <2>3. p # << >>
    BY <1>3, <2>2 DEF Sequence
  <2>4. Matching(pairs, p, context)
    BY <1>3, <2>3, UniqueIsMatching DEF Mergeable
  <2> HIDE DEF s, pairs
  <2>5. last[2] \in 0 .. Len(context)
    <3>1. Len(prior) \in 0 .. Len(prior)
      BY <2>2
    <3> QED
      BY <2>2, <2>4, <3>1, SeenSteps
  <2> DEFINE flat == FlattenSeq(seqs)
  <2>6. /\ Sequence(flat) /\ InOrder(prior, flat)
        /\ InOrder(SubSeq(context, 1, last[2]), visible(flat))
    BY <1>3, <2>4, PiecesFacts
  <2> HIDE DEF flat, last
  <2>7. /\ context = SubSeq(context, 1, last[2]) \o rest
        /\ Sequence(SubSeq(context, 1, last[2])) /\ Sequence(rest)
    <3>1. PICK k \in Nat : k = last[2] /\ k <= Len(context)
      BY <2>2, <2>5
    <3>2. /\ k \in 0 .. Len(context) /\ Len(context) \in k .. Len(context)
          /\ 1 \in 1 .. Len(context) + 1 /\ k \in 1 - 1 .. Len(context)
          /\ k + 1 \in 1 .. Len(context) + 1 /\ Len(context) \in (k + 1) - 1 .. Len(context)
      BY <2>2, <3>1
    <3>3. SubSeq(context, 1, Len(context)) = context
      BY SubSeqFull DEF Sequence
    <3> QED
      BY <3>1, <3>2, <3>3, PartsJoined, PartShape
  <2> HIDE DEF rest
  <2>8. Sequence(new) /\ visible(new) = rest
    BY <2>7, NewMessages
  <2> HIDE DEF new
  <2>9. s = flat \o new
    BY <2>1 DEF flat
  <2>10. Sequence(s) /\ InOrder(prior, s)
    BY <2>6, <2>8, <2>9, JoinedShape, InOrderLonger
  <2>11. InOrder(context, visible(s))
    <3>1. visible(s) = visible(flat) \o rest
      BY <2>6, <2>8, <2>9, VisibleJoined
    <3>2. InOrder(SubSeq(context, 1, last[2]) \o rest, visible(flat) \o rest)
      BY <2>6, <2>7, VisibleShape, InOrderItself, InOrderJoined
    <3> QED
      BY <2>7, <3>1, <3>2
  <2> QED
    BY <2>10, <2>11 DEF s
<1> QED
  BY <1>1, <1>2, <1>3

-----------------------------------------------------------------------------
(* What a put under way knows. *)
ServerFields == {"phase", "context", "attempt", "prior", "snapshot", "result"}
Putting == {"put", "link", "compare", "write", "release"}
Holding == {"compare", "write", "release"}

(* A publisher's snapshot has what it saw and the context. *)
OwnSnapshot(st) ==
  /\ st.snapshot # Nothing /\ st.snapshot.owned /\ st.snapshot.time \in Nat
  /\ Sequence(st.snapshot.messages)
  /\ InOrder(st.prior.messages, st.snapshot.messages)
  /\ InOrder(st.context, Texts(st.snapshot))

(* What it saw was a capture of a publisher, and is still there or older.  *)
PriorSound(st, cap) ==
  st.prior # Nothing =>
    /\ st.prior.owned /\ st.prior.time \in Nat
    /\ cap # Nothing /\ (cap.time > st.prior.time \/ cap = st.prior)

(* A server between the comparison and the release has the lock, what it   *)
(* may write is later than the capture, which a publisher's precondition   *)
(* has found to be what it saw, and what it has put is the capture.        *)
ServerSound(p, st, cap, lock) ==
  /\ st = [f \in ServerFields |-> st[f]]
  /\ st.phase \in {"free", "read"} \cup Putting
  /\ st.phase \in Holding => lock = p
  /\ p \in Publishers => st.phase = "free" \/ Sequence(st.context)
  /\ p \in Publishers /\ st.phase \in Putting => OwnSnapshot(st) /\ PriorSound(st, cap)
  /\ p \notin Publishers => /\ st.phase # "read" /\ st.result # "retry"
                            /\ st.phase \in Putting => st.snapshot \in Posts
  /\ st.phase = "write" =>
       /\ cap = Nothing \/ st.snapshot.time > cap.time
       /\ p \in Publishers => cap = st.prior
  /\ st.phase = "release" /\ st.result = "done" => cap = st.snapshot

(* A publisher's capture has every context that was acknowledged. *)
CaptureSound(cap, contexts) ==
  /\ cap.time \in Nat
  /\ cap = Nothing => contexts = {}
  /\ cap.owned => Sequence(cap.messages) /\ \A c \in contexts : InOrder(c, Texts(cap))

CaptureInv ==
  /\ servers = [p \in Servers |-> servers[p]]
  /\ recovery \in BOOLEAN /\ (recovery => lockFile = "stale")
  /\ CaptureSound(capture, acknowledged)
  /\ \A p \in Servers : ServerSound(p, servers[p], capture, lockFile)

LEMMA NothingFacts ==
  /\ Nothing.time = 0 /\ Nothing.messages = << >> /\ Nothing.owned = FALSE
  /\ Nothing.status = "none"
BY DEF Nothing

LEMMA FreeSound ==
  ASSUME NEW p, NEW cap, NEW lock
  PROVE  ServerSound(p, Free, cap, lock)
BY DEF ServerSound, Free, ServerFields, Putting, Holding

LEMMA CaptureInitSound == CaptureInit => CaptureInv
<1> SUFFICES ASSUME CaptureInit PROVE CaptureInv
  OBVIOUS
<1>1. /\ servers = [p \in Servers |-> servers[p]] /\ \A p \in Servers : servers[p] = Free
      /\ capture = Nothing /\ acknowledged = {} /\ recovery = FALSE
  BY DEF CaptureInit
<1>2. CaptureSound(capture, acknowledged)
  BY <1>1, NothingFacts DEF CaptureSound
<1> QED
  BY <1>1, <1>2, FreeSound DEF CaptureInv

(* A server moves while the capture stays and the lock of another does.    *)
LEMMA ServerMoves ==
  ASSUME CaptureInv, NEW p \in Servers, NEW st, SetServer(p, st),
         capture' = capture, CaptureSound(capture, acknowledged'),
         recovery' = recovery, recovery => lockFile' = "stale",
         \A q \in Servers \ {p} : lockFile = q => lockFile' = q,
         ServerSound(p, st, capture, lockFile')
  PROVE  CaptureInv'
<1>1. servers' = [q \in Servers |-> IF q = p THEN st ELSE servers[q]]
  BY DEF SetServer, CaptureInv
<1>2. servers' = [q \in Servers |-> servers'[q]]
  BY <1>1
<1>3. ASSUME NEW q \in Servers PROVE ServerSound(q, servers'[q], capture, lockFile')
  <2>1. CASE q = p
    BY <1>1, <2>1
  <2>2. CASE q # p
    <3>1. servers'[q] = servers[q] /\ (lockFile = q => lockFile' = q)
      BY <1>1, <2>2
    <3>2. ServerSound(q, servers[q], capture, lockFile)
      BY DEF CaptureInv
    <3>3. servers[q].phase \in Holding => lockFile' = q
      BY <3>1, <3>2 DEF ServerSound
    <3>4. ServerSound(q, servers[q], capture, lockFile')
      BY <3>2, <3>3 DEF ServerSound
    <3> QED
      BY <3>1, <3>4
  <2> QED
    BY <2>1, <2>2
<1>4. recovery' \in BOOLEAN /\ (recovery' => lockFile' = "stale")
  BY DEF CaptureInv
<1> QED
  BY <1>2, <1>3, <1>4 DEF CaptureInv

LEMMA PublishStep ==
  ASSUME CaptureInv, NEW p \in Publishers, NEW c \in Contexts, Publish(p, c)
  PROVE  CaptureInv'
<1> DEFINE st == [Free EXCEPT !.phase = "read", !.context = c, !.attempt = 1]
<1>1. /\ SetServer(p, st) /\ p \in Servers
      /\ UNCHANGED <<capture, lockFile, recovery, acknowledged>>
  BY DEF Publish, Servers
<1>2. Sequence(c)
  BY CaptureAssumption DEF Sequence
<1>3. ServerSound(p, st, capture, lockFile)
  BY <1>2 DEF ServerSound, Free, ServerFields, Putting, Holding
<1> HIDE DEF st
<1> QED
  BY <1>1, <1>3, ServerMoves DEF CaptureInv

LEMMA PostStep ==
  ASSUME CaptureInv, NEW p \in HttpWriters, NEW s \in Posts, Post(p, s)
  PROVE  CaptureInv'
<1> DEFINE st == [Free EXCEPT !.phase = "put", !.snapshot = s]
<1>1. /\ SetServer(p, st) /\ p \in Servers /\ p \notin Publishers
      /\ UNCHANGED <<capture, lockFile, recovery, acknowledged>>
  BY CaptureAssumption DEF Post, Servers
<1>2. ServerSound(p, st, capture, lockFile)
  BY <1>1 DEF ServerSound, Free, ServerFields, Putting, Holding
<1> HIDE DEF st
<1> QED
  BY <1>1, <1>2, ServerMoves DEF CaptureInv

(* The snapshot of a merge that goes through. *)
LEMMA SnapshotSound ==
  ASSUME NEW prior, Sequence(prior.messages), prior.time \in Nat, NEW context,
         Sequence(context), Mergeable(visible(prior.messages), context), NEW now \in Clock
  PROVE  LET s == SnapshotOf(prior, context, now) IN
         /\ s # Nothing /\ s.owned /\ s.time \in Nat /\ Sequence(s.messages)
         /\ InOrder(prior.messages, s.messages) /\ InOrder(context, Texts(s))
<1> DEFINE s == SnapshotOf(prior, context, now)
           merged == mergeVisibleContext(prior.messages, context)
           times == {now, prior.time + 1}
<1>1. now \in Nat
  BY CaptureAssumption
<1>2. Max(times) \in Nat
  <2>1. \E x \in times : \A y \in times : x >= y
    BY <1>1
  <2>2. Max(times) \in times
    <3> HIDE DEF times
    <3> QED
      BY <2>1 DEF Max
  <2> QED
    BY <1>1, <2>2
<1>3. /\ s.messages = merged /\ s.owned = TRUE /\ s.status = "completed"
      /\ s.time \in {prior.time, now, Max(times)}
  BY DEF SnapshotOf
<1>4. Sequence(merged) /\ InOrder(prior.messages, merged) /\ InOrder(context, visible(merged))
  BY MergeKeeps
<1>5. s # Nothing
  BY <1>3, NothingFacts
<1> HIDE DEF s, merged, times
<1>6. s.time \in Nat
  BY <1>1, <1>2, <1>3
<1> QED
  BY <1>3, <1>4, <1>5, <1>6 DEF Texts, s

LEMMA ReadAndMergeStep ==
  ASSUME CaptureInv, NEW p \in Publishers, ReadAndMerge(p)
  PROVE  CaptureInv'
<1>1. /\ p \in Servers /\ servers[p].phase = "read"
      /\ UNCHANGED <<capture, lockFile, recovery, acknowledged>>
  BY DEF ReadAndMerge, Servers
<1>2. PICK old : old = servers[p]
  OBVIOUS
<1>3. ServerSound(p, old, capture, lockFile) /\ Sequence(old.context)
  BY <1>1, <1>2 DEF CaptureInv, ServerSound
<1>4. CASE SetServer(p, Free)
  BY <1>1, <1>4, FreeSound, ServerMoves DEF CaptureInv
<1>5. ASSUME NEW now \in Clock, assertOwnedSnapshot(capture),
             Mergeable(visible(capture.messages), old.context),
             SetServer(p, [old EXCEPT !.phase = "put", !.prior = capture,
                                      !.snapshot = SnapshotOf(capture, old.context, now)])
      PROVE  CaptureInv'
  <2> DEFINE new == SnapshotOf(capture, old.context, now)
             st == [old EXCEPT !.phase = "put", !.prior = capture, !.snapshot = new]
  <2>1. Sequence(capture.messages) /\ capture.time \in Nat /\ (capture = Nothing \/ capture.owned)
    <3>1. << >> \in Seq({})
      OBVIOUS
    <3>2. Sequence(<< >>)
      BY <3>1, SequenceOf
    <3> QED
      BY <1>5, <3>2, NothingFacts DEF assertOwnedSnapshot, CaptureInv, CaptureSound
  <2>2. /\ new # Nothing /\ new.owned /\ new.time \in Nat /\ Sequence(new.messages)
        /\ InOrder(capture.messages, new.messages) /\ InOrder(old.context, Texts(new))
    BY <1>3, <1>5, <2>1, SnapshotSound
  <2> HIDE DEF new
  <2>3. /\ st = [f \in ServerFields |-> st[f]] /\ st.phase = "put" /\ st.prior = capture
        /\ st.snapshot = new /\ st.context = old.context
    BY <1>3 DEF ServerSound, ServerFields
  <2> HIDE DEF st
  <2>4. OwnSnapshot(st) /\ PriorSound(st, capture)
    BY <2>1, <2>2, <2>3 DEF OwnSnapshot, PriorSound
  <2>5. ServerSound(p, st, capture, lockFile)
    BY <1>3, <2>3, <2>4 DEF ServerSound, Putting, Holding
  <2>6. SetServer(p, st)
    BY <1>5 DEF st, new
  <2> QED
    BY <1>1, <2>5, <2>6, ServerMoves DEF CaptureInv
<1> QED
  BY <1>2, <1>4, <1>5 DEF ReadAndMerge

LEMMA ServerNames ==
  ASSUME NEW p \in Servers
  PROVE  p # "none" /\ p # "stale"
BY CaptureAssumption

LEMMA InspectStep ==
  ASSUME CaptureInv, NEW p \in Servers, Inspect(p)
  PROVE  CaptureInv'
<1> DEFINE st == [servers[p] EXCEPT !.phase = "link"]
<1>1. /\ servers[p].phase = "put" /\ (SetServer(p, Free) \/ SetServer(p, st))
      /\ UNCHANGED <<capture, lockFile, recovery, acknowledged>>
  BY DEF Inspect
<1>2. ServerSound(p, servers[p], capture, lockFile)
  BY DEF CaptureInv
<1>3. ServerSound(p, st, capture, lockFile)
  <2>1. /\ st = [f \in ServerFields |-> st[f]] /\ st.phase = "link"
        /\ \A f \in ServerFields \ {"phase"} : st[f] = servers[p][f]
    BY <1>2 DEF ServerSound, ServerFields
  <2>2. st.context = servers[p].context /\ st.prior = servers[p].prior
        /\ st.snapshot = servers[p].snapshot
    BY <2>1 DEF ServerFields
  <2>3. st.result = servers[p].result
    BY <2>1 DEF ServerFields
  <2> HIDE DEF st
  <2> QED
    BY <1>1, <1>2, <2>1, <2>2, <2>3 DEF ServerSound, OwnSnapshot, PriorSound, Putting, Holding
<1> HIDE DEF st
<1> QED
  BY <1>1, <1>3, FreeSound, ServerMoves DEF CaptureInv

LEMMA LinkStep ==
  ASSUME CaptureInv, NEW p \in Servers, Link(p)
  PROVE  CaptureInv'
<1> DEFINE st == [servers[p] EXCEPT !.phase = "compare"]
<1>1. /\ servers[p].phase = "link"
      /\ UNCHANGED <<capture, recovery, acknowledged>>
      /\ \/ lockFile = "none" /\ lockFile' = p /\ SetServer(p, st)
         \/ lockFile' = lockFile /\ SetServer(p, Free)
  BY DEF Link
<1>2. ServerSound(p, servers[p], capture, lockFile)
  BY DEF CaptureInv
<1>3. CASE lockFile' = lockFile /\ SetServer(p, Free)
  BY <1>1, <1>3, FreeSound, ServerMoves DEF CaptureInv
<1>4. CASE lockFile = "none" /\ lockFile' = p /\ SetServer(p, st)
  <2>1. /\ st = [f \in ServerFields |-> st[f]] /\ st.phase = "compare"
        /\ \A f \in ServerFields \ {"phase"} : st[f] = servers[p][f]
    BY <1>2 DEF ServerSound, ServerFields
  <2>2. st.context = servers[p].context /\ st.prior = servers[p].prior
        /\ st.snapshot = servers[p].snapshot
    BY <2>1 DEF ServerFields
  <2>3. st.result = servers[p].result
    BY <2>1 DEF ServerFields
  <2> HIDE DEF st
  <2>4. ServerSound(p, st, capture, lockFile')
    BY <1>1, <1>2, <1>4, <2>1, <2>2, <2>3
       DEF ServerSound, OwnSnapshot, PriorSound, Putting, Holding
  <2>5. ~recovery
    BY <1>4 DEF CaptureInv
  <2>6. \A q \in Servers \ {p} : lockFile # q
    BY <1>4, ServerNames
  <2> QED
    BY <1>1, <1>4, <2>5, <2>6, <2>4, ServerMoves DEF CaptureInv
<1> QED
  BY <1>1, <1>3, <1>4

(* A publisher's precondition holds only where the capture is what it saw. *)
LEMMA PreconditionMeans ==
  ASSUME CaptureInv, NEW p \in Publishers, Precondition(p), PriorSound(servers[p], capture)
  PROVE  capture = servers[p].prior
<1> DEFINE prior == servers[p].prior
<1>1. revision(capture) = revision(prior)
  BY DEF Precondition
<1>2. \A s : s # Nothing => revision(s) # << >> /\ revision(s)[1] = s.time
  BY DEF revision
<1>3. revision(Nothing) = << >>
  BY DEF revision
<1>4. CASE prior = Nothing
  BY <1>1, <1>2, <1>3, <1>4
<1>5. CASE prior # Nothing
  <2>1. /\ capture # Nothing /\ capture.time \in Nat /\ prior.time \in Nat
        /\ capture.time > prior.time \/ capture = prior
    BY <1>5 DEF PriorSound, CaptureInv, CaptureSound
  <2>2. capture.time = prior.time
    BY <1>1, <1>2, <1>5, <2>1
  <2> QED
    BY <2>1, <2>2
<1> QED
  BY <1>4, <1>5

LEMMA CompareStep ==
  ASSUME CaptureInv, NEW p \in Servers, Compare(p)
  PROVE  CaptureInv'
<1> DEFINE old == servers[p]
           write == [old EXCEPT !.phase = "write"]
           Released(result) == [old EXCEPT !.phase = "release", !.result = result]
<1>1. /\ old.phase = "compare"
      /\ UNCHANGED <<capture, lockFile, recovery, acknowledged>>
      /\ \/ p \in Publishers /\ SetServer(p, Released("retry"))
         \/ SetServer(p, Released("failed"))
         \/ capture = old.snapshot /\ SetServer(p, Released("done"))
         \/ /\ Precondition(p) /\ SetServer(p, write)
            /\ capture = Nothing \/ Supersedes(old.snapshot, capture)
  BY DEF Compare, Precondition
<1>2. ServerSound(p, old, capture, lockFile)
  BY DEF CaptureInv
<1>3. ASSUME NEW result, result = "done" => capture = old.snapshot,
             p \notin Publishers => result # "retry"
      PROVE  ServerSound(p, Released(result), capture, lockFile)
  <2> DEFINE st == Released(result)
  <2>1. /\ st = [f \in ServerFields |-> st[f]] /\ st.phase = "release"
        /\ st.context = old.context /\ st.prior = old.prior /\ st.snapshot = old.snapshot
        /\ st.result = result
    BY <1>2 DEF ServerSound, ServerFields
  <2> HIDE DEF st, old
  <2>2. ServerSound(p, st, capture, lockFile)
    BY <1>1, <1>2, <1>3, <2>1 DEF ServerSound, OwnSnapshot, PriorSound, Putting, Holding
  <2> QED
    BY <2>2 DEF st
<1>4. ASSUME Precondition(p), capture = Nothing \/ Supersedes(old.snapshot, capture)
      PROVE  ServerSound(p, write, capture, lockFile)
  <2>1. /\ write = [f \in ServerFields |-> write[f]] /\ write.phase = "write"
        /\ write.context = old.context /\ write.prior = old.prior
        /\ write.snapshot = old.snapshot /\ write.result = old.result
    BY <1>2 DEF ServerSound, ServerFields
  <2>2. p \in Publishers => capture = old.prior
    <3> SUFFICES ASSUME p \in Publishers PROVE capture = old.prior
      OBVIOUS
    <3>1. PriorSound(old, capture)
      BY <1>1, <1>2 DEF ServerSound, Putting
    <3> QED
      BY <1>4, <3>1, PreconditionMeans
  <2>3. capture = Nothing \/ old.snapshot.time > capture.time
    BY <1>4 DEF Supersedes
  <2> HIDE DEF write, old
  <2> QED
    BY <1>1, <1>2, <2>1, <2>2, <2>3 DEF ServerSound, OwnSnapshot, PriorSound, Putting, Holding
<1>5. CaptureSound(capture, acknowledged') /\ (recovery => lockFile' = "stale")
  BY <1>1 DEF CaptureInv
<1> HIDE DEF old, write, Released
<1>6. CASE p \in Publishers /\ SetServer(p, Released("retry"))
  BY <1>1, <1>3, <1>5, <1>6, ServerMoves
<1>7. CASE SetServer(p, Released("failed"))
  BY <1>1, <1>3, <1>5, <1>7, ServerMoves
<1>8. CASE capture = old.snapshot /\ SetServer(p, Released("done"))
  BY <1>1, <1>3, <1>5, <1>8, ServerMoves
<1>9. CASE /\ Precondition(p) /\ SetServer(p, write)
           /\ capture = Nothing \/ Supersedes(old.snapshot, capture)
  BY <1>1, <1>4, <1>5, <1>9, ServerMoves
<1> QED
  BY <1>1, <1>6, <1>7, <1>8, <1>9

(* What a write makes of the capture: a publisher keeps what was there and *)
(* with it every acknowledged context.                                     *)
LEMMA WriteFacts ==
  ASSUME CaptureInv, NEW p \in Servers, Write(p)
  PROVE  /\ capture' # Nothing
         /\ capture = Nothing \/ capture.time < capture'.time
         /\ capture'.owned => /\ capture = Nothing \/ capture.owned
                              /\ InOrder(capture.messages, capture'.messages)
         /\ CaptureSound(capture', acknowledged)
<1>1. capture' = servers[p].snapshot /\ servers[p].phase = "write"
  BY DEF Write
<1>2. ServerSound(p, servers[p], capture, lockFile) /\ CaptureSound(capture, acknowledged)
  BY DEF CaptureInv
<1>3. CASE p \in Publishers
  <2>1. /\ OwnSnapshot(servers[p]) /\ PriorSound(servers[p], capture)
        /\ capture = servers[p].prior
        /\ capture = Nothing \/ capture'.time > capture.time
    BY <1>1, <1>2, <1>3 DEF ServerSound, Putting
  <2>2. /\ capture' # Nothing /\ capture'.owned /\ capture'.time \in Nat
        /\ Sequence(capture'.messages) /\ InOrder(capture.messages, capture'.messages)
    BY <1>1, <2>1 DEF OwnSnapshot
  <2>3. capture = Nothing \/ capture.owned
    BY <2>1 DEF PriorSound
  <2>4. capture = Nothing \/ capture.time < capture'.time
    BY <1>2, <2>1, <2>2 DEF CaptureSound
  <2>5. ASSUME NEW c \in acknowledged PROVE InOrder(c, Texts(capture'))
    <3>1. capture.owned /\ InOrder(c, Texts(capture))
      BY <1>2, <2>3 DEF CaptureSound
    <3>2. InOrder(Texts(capture), Texts(capture'))
      BY <2>2, InOrderTexts DEF Texts
    <3> QED
      BY <3>1, <3>2, InOrderThrough
  <2>6. CaptureSound(capture', acknowledged)
    BY <2>2, <2>5 DEF CaptureSound
  <2> QED
    BY <2>2, <2>3, <2>4, <2>6
<1>4. CASE p \notin Publishers
  <2>1. capture' \in Posts /\ (capture = Nothing \/ capture'.time > capture.time)
    BY <1>1, <1>2, <1>4 DEF ServerSound, Putting
  <2>2. ~capture'.owned /\ capture'.time \in Nat /\ capture' # Nothing
    BY <2>1, CaptureAssumption
  <2> QED
    BY <1>2, <2>1, <2>2 DEF CaptureSound
<1> QED
  BY <1>3, <1>4

LEMMA WriteStep ==
  ASSUME CaptureInv, NEW p \in Servers, Write(p)
  PROVE  CaptureInv'
<1> DEFINE old == servers[p]
           st == [old EXCEPT !.phase = "release", !.result = "done"]
<1>1. /\ old.phase = "write" /\ capture' = old.snapshot /\ SetServer(p, st)
      /\ UNCHANGED <<lockFile, recovery, acknowledged>>
  BY DEF Write
<1>2. ServerSound(p, old, capture, lockFile) /\ lockFile = p
  BY <1>1 DEF CaptureInv, ServerSound, Holding
<1>3. /\ capture' # Nothing /\ capture'.time \in Nat
      /\ capture = Nothing \/ capture.time < capture'.time
      /\ CaptureSound(capture', acknowledged)
  BY WriteFacts DEF CaptureSound
<1>4. ServerSound(p, st, capture', lockFile)
  <2>1. /\ st = [f \in ServerFields |-> st[f]] /\ st.phase = "release"
        /\ st.context = old.context /\ st.prior = old.prior /\ st.snapshot = old.snapshot
        /\ st.result = "done"
    BY <1>2 DEF ServerSound, ServerFields
  <2>2. p \in Publishers => OwnSnapshot(old) /\ PriorSound(old, capture) /\ capture = old.prior
    BY <1>1, <1>2 DEF ServerSound, Putting
  <2>3. p \in Publishers => PriorSound(st, capture')
    BY <1>1, <1>3, <2>1, <2>2 DEF PriorSound
  <2> HIDE DEF st, old
  <2>4. p \in Publishers => OwnSnapshot(st)
    BY <2>1, <2>2 DEF OwnSnapshot
  <2> QED
    BY <1>1, <1>2, <2>1, <2>3, <2>4 DEF ServerSound, Putting, Holding
<1>5. servers' = [q \in Servers |-> IF q = p THEN st ELSE servers[q]]
  BY <1>1 DEF SetServer, CaptureInv
<1>6. servers' = [q \in Servers |-> servers'[q]]
  BY <1>5
<1> HIDE DEF st, old
<1>7. ASSUME NEW q \in Servers PROVE ServerSound(q, servers'[q], capture', lockFile)
  <2>1. CASE q = p
    BY <1>4, <1>5, <2>1
  <2>2. CASE q # p
    <3>1. PICK other : other = servers[q]
      OBVIOUS
    <3>2. servers'[q] = other
      BY <1>5, <2>2, <3>1
    <3>3. ServerSound(q, other, capture, lockFile)
      BY <3>1 DEF CaptureInv
    <3>4. other.phase \notin Holding
      BY <1>2, <2>2, <3>3 DEF ServerSound
    <3>5. q \in Publishers /\ other.phase \in Putting => PriorSound(other, capture')
      <4> SUFFICES ASSUME q \in Publishers, other.phase \in Putting, other.prior # Nothing
                   PROVE  /\ other.prior.owned /\ other.prior.time \in Nat
                          /\ capture'.time > other.prior.time
        BY <1>3 DEF PriorSound
      <4>1. PriorSound(other, capture) /\ capture.time \in Nat
        BY <3>3 DEF ServerSound, CaptureInv, CaptureSound
      <4>2. /\ other.prior.owned /\ other.prior.time \in Nat /\ capture # Nothing
            /\ capture.time > other.prior.time \/ capture = other.prior
        BY <4>1 DEF PriorSound
      <4> QED
        BY <1>3, <4>1, <4>2
    <3>6. ServerSound(q, other, capture', lockFile)
      BY <3>3, <3>4, <3>5 DEF ServerSound, Holding
    <3> QED
      BY <3>2, <3>6
  <2> QED
    BY <2>1, <2>2
<1>8. recovery' \in BOOLEAN /\ (recovery' => lockFile' = "stale")
  BY <1>1 DEF CaptureInv
<1>9. CaptureSound(capture', acknowledged')
  BY <1>1, <1>3
<1> QED
  BY <1>1, <1>6, <1>7, <1>8, <1>9 DEF CaptureInv

LEMMA ReleaseLockStep ==
  ASSUME CaptureInv, NEW p \in Servers, ReleaseLock(p)
  PROVE  CaptureInv'
<1> DEFINE old == servers[p]
           again == [Free EXCEPT !.phase = "read", !.context = old.context,
                                 !.attempt = old.attempt + 1]
<1>1. ServerSound(p, old, capture, lockFile) /\ old.phase = "release" /\ lockFile = p
  BY DEF CaptureInv, ReleaseLock, ServerSound, Holding
<1>2. /\ SetServer(p, Free) \/ (old.result = "retry" /\ SetServer(p, again))
      /\ lockFile' = "none" /\ UNCHANGED <<capture, recovery>>
      /\ acknowledged' = IF old.result = "done" /\ p \in Publishers
                         THEN acknowledged \cup {old.context} ELSE acknowledged
  BY <1>1 DEF ReleaseLock, GoesAround
<1>3. ~recovery
  BY <1>1, ServerNames DEF CaptureInv
<1>4. CaptureSound(capture, acknowledged')
  <2>1. CaptureSound(capture, acknowledged)
    BY DEF CaptureInv
  <2>2. CASE old.result = "done" /\ p \in Publishers
    <3>1. OwnSnapshot(old) /\ capture = old.snapshot
      BY <1>1, <2>2 DEF ServerSound, Putting
    <3>2. InOrder(old.context, Texts(capture)) /\ capture # Nothing
      BY <3>1 DEF OwnSnapshot
    <3> QED
      BY <1>2, <2>1, <2>2, <3>2 DEF CaptureSound
  <2>3. CASE ~(old.result = "done" /\ p \in Publishers)
    BY <1>2, <2>1, <2>3
  <2> QED
    BY <2>2, <2>3
<1>5. \A q \in Servers \ {p} : lockFile # q
  BY <1>1
<1>6. CASE SetServer(p, Free)
  BY <1>2, <1>3, <1>4, <1>5, <1>6, FreeSound, ServerMoves
<1>7. CASE old.result = "retry" /\ SetServer(p, again)
  <2>1. again = [f \in ServerFields |-> again[f]] /\ again.phase = "read"
        /\ again.context = old.context
    BY DEF Free, ServerFields
  <2> HIDE DEF again, old
  <2>2. p \in Publishers /\ Sequence(old.context)
    BY <1>1, <1>7 DEF ServerSound
  <2>3. ServerSound(p, again, capture, lockFile')
    BY <2>1, <2>2 DEF ServerSound, Putting, Holding
  <2> QED
    BY <1>2, <1>3, <1>4, <1>5, <1>7, <2>3, ServerMoves
<1> QED
  BY <1>2, <1>6, <1>7

LEMMA ServerDiesStep ==
  ASSUME CaptureInv, NEW p \in Servers, ServerDies(p)
  PROVE  CaptureInv'
<1>1. /\ SetServer(p, Free) /\ UNCHANGED <<capture, recovery, acknowledged>>
      /\ lockFile' = IF lockFile = p THEN "stale" ELSE lockFile
  BY DEF ServerDies
<1>2. recovery => lockFile' = "stale"
  BY <1>1 DEF CaptureInv
<1>3. \A q \in Servers \ {p} : lockFile = q => lockFile' = q
  BY <1>1
<1> QED
  BY <1>1, <1>2, <1>3, FreeSound, ServerMoves DEF CaptureInv

LEMMA RecoverySteps ==
  ASSUME CaptureInv, RecoveryBegins \/ RecoveryEnds
  PROVE  CaptureInv'
<1>1. /\ UNCHANGED <<capture, servers, acknowledged>> /\ lockFile = "stale"
      /\ recovery' \in BOOLEAN /\ (recovery' => lockFile' = "stale")
  BY DEF CaptureInv, RecoveryBegins, RecoveryEnds
<1>2. ASSUME NEW q \in Servers PROVE ServerSound(q, servers[q], capture, lockFile')
  <2>1. ServerSound(q, servers[q], capture, lockFile) /\ q # "stale"
    BY ServerNames DEF CaptureInv
  <2>2. servers[q].phase \notin Holding
    BY <1>1, <2>1 DEF ServerSound
  <2> QED
    BY <2>1, <2>2 DEF ServerSound
<1> QED
  BY <1>1, <1>2 DEF CaptureInv

(* Only a write touches the capture. *)
CaptureMoves ==
  capture' = capture \/ \E p \in Servers : Write(p)

LEMMA CaptureStep ==
  CaptureInv /\ [CaptureNext]_captureVars => CaptureInv' /\ CaptureMoves
<1> SUFFICES ASSUME CaptureInv, [CaptureNext]_captureVars PROVE CaptureInv' /\ CaptureMoves
  OBVIOUS
<1>1. CASE UNCHANGED captureVars
  <2>1. UNCHANGED <<capture, lockFile, recovery, servers, acknowledged>>
    BY <1>1 DEF captureVars
  <2> QED
    BY <2>1 DEF CaptureInv, CaptureMoves
<1>2. ASSUME NEW p \in Publishers, ReadAndMerge(p) PROVE CaptureInv' /\ CaptureMoves
  BY <1>2, ReadAndMergeStep DEF CaptureMoves, ReadAndMerge
<1>3. ASSUME NEW p \in Publishers, NEW c \in Contexts, Publish(p, c)
      PROVE  CaptureInv' /\ CaptureMoves
  BY <1>3, PublishStep DEF CaptureMoves, Publish
<1>4. ASSUME NEW p \in HttpWriters, NEW s \in Posts, Post(p, s)
      PROVE  CaptureInv' /\ CaptureMoves
  BY <1>4, PostStep DEF CaptureMoves, Post
<1>5. ASSUME NEW p \in Servers, PutStep(p) PROVE CaptureInv' /\ CaptureMoves
  <2>1. CASE Inspect(p)
    BY <2>1, InspectStep DEF CaptureMoves, Inspect
  <2>2. CASE Link(p)
    BY <2>2, LinkStep DEF CaptureMoves, Link
  <2>3. CASE Compare(p)
    BY <2>3, CompareStep DEF CaptureMoves, Compare
  <2>4. CASE Write(p)
    BY <2>4, WriteStep DEF CaptureMoves
  <2>5. CASE ReleaseLock(p)
    BY <2>5, ReleaseLockStep DEF CaptureMoves, ReleaseLock
  <2>6. CASE ServerDies(p)
    BY <2>6, ServerDiesStep DEF CaptureMoves, ServerDies
  <2> QED
    BY <1>5, <2>1, <2>2, <2>3, <2>4, <2>5, <2>6 DEF PutStep
<1>6. CASE RecoveryBegins \/ RecoveryEnds
  BY <1>6, RecoverySteps DEF CaptureMoves, RecoveryBegins, RecoveryEnds
<1> QED
  BY <1>1, <1>2, <1>3, <1>4, <1>5, <1>6 DEF CaptureNext

(* Publishers only ever add to a capture, and a context whose publish      *)
(* returned stays in it, whatever servers put at once, die with the lock   *)
(* and are recovered.                                                      *)
THEOREM NothingIsDropped == CaptureSpec => NothingDropped
<1>1. CaptureInv /\ [CaptureNext]_captureVars => CaptureInv'
  BY CaptureStep
<1>2. CaptureInv /\ CaptureInv' /\ [CaptureNext]_captureVars =>
        [/\ capture' # capture /\ capture'.owned => capture = Nothing \/
              /\ capture.owned /\ capture.time < capture'.time
              /\ InOrder(capture.messages, capture'.messages)
         /\ capture' # Nothing /\ capture'.owned =>
              \A c \in acknowledged' : InOrder(c, Texts(capture'))]_captureVars
  <2> SUFFICES ASSUME CaptureInv, CaptureInv', [CaptureNext]_captureVars
               PROVE  /\ capture' # capture /\ capture'.owned => capture = Nothing \/
                           /\ capture.owned /\ capture.time < capture'.time
                           /\ InOrder(capture.messages, capture'.messages)
                      /\ capture' # Nothing /\ capture'.owned =>
                           \A c \in acknowledged' : InOrder(c, Texts(capture'))
    OBVIOUS
  <2>1. capture'.owned => \A c \in acknowledged' : InOrder(c, Texts(capture'))
    BY DEF CaptureInv, CaptureSound
  <2>2. capture' = capture \/ \E p \in Servers : Write(p)
    BY CaptureStep DEF CaptureMoves
  <2> QED
    BY <2>1, <2>2, WriteFacts
<1> QED
  BY <1>1, <1>2, CaptureInitSound, PTL DEF CaptureSpec, NothingDropped

-----------------------------------------------------------------------------
(* The table of longest common subsequences *)

(* The greater of two numbers. *)
LEMMA GreaterOfTwo ==
  ASSUME NEW a \in Int, NEW b \in Int
  PROVE  Max({a, b}) = IF a >= b THEN a ELSE b
<1> DEFINE m == IF a >= b THEN a ELSE b
<1>1. m \in {a, b} /\ \A y \in {a, b} : m >= y
  OBVIOUS
<1>2. \A x \in {a, b} : (\A y \in {a, b} : x >= y) => x = m
  OBVIOUS
<1> HIDE DEF m
<1> QED
  BY <1>1, <1>2 DEF Max

(* One entry of the table of forward, and the whole of it. *)
ForwardEntry(p, q, f, i, j) ==
  IF i = 0 \/ j = 0 THEN 0
  ELSE IF p[i] = q[j] THEN f[<<i - 1, j - 1>>] + 1
  ELSE Max({f[<<i - 1, j>>], f[<<i, j - 1>>]})
ForwardTable(p, q, f) ==
  f = [x \in (0 .. Len(p)) \X (0 .. Len(q)) |-> ForwardEntry(p, q, f, x[1], x[2])]

LEMMA ForwardUnfolds ==
  ASSUME NEW p, NEW q
  PROVE  forward(p, q) = CHOOSE f : ForwardTable(p, q, f)
BY DEF forward, ForwardTable, ForwardEntry

(* There is such a table: it is filled along the sums of the indices. *)
LEMMA ForwardExists ==
  ASSUME NEW p, NEW q, NEW m \in Nat, NEW l \in Nat, Len(p) = m, Len(q) = l
  PROVE  \E f : ForwardTable(p, q, f)
<1> DEFINE D == (0 .. m) \X (0 .. l)
           Upto(f, s) == \A i \in 0 .. m, j \in 0 .. l :
                           i + j <= s => f[<<i, j>>] = ForwardEntry(p, q, f, i, j)
           B == {s \in 0 .. m + l : \E f : f = [x \in D |-> f[x]] /\ Upto(f, s)}
<1>1. 0 \in B
  <2> DEFINE f == [x \in D |-> 0]
  <2>1. Upto(f, 0)
    <3> SUFFICES ASSUME NEW i \in 0 .. m, NEW j \in 0 .. l, i + j <= 0
                 PROVE  f[<<i, j>>] = ForwardEntry(p, q, f, i, j)
      OBVIOUS
    <3>1. i = 0
      OBVIOUS
    <3>2. f[<<i, j>>] = 0
      OBVIOUS
    <3> QED
      BY <3>1, <3>2 DEF ForwardEntry
  <2>2. f = [x \in D |-> f[x]] /\ 0 \in 0 .. m + l
    OBVIOUS
  <2> HIDE DEF f, Upto
  <2> QED
    BY <2>1, <2>2
<1>2. ASSUME NEW s \in 0 .. (m + l) - 1, s \in B PROVE s + 1 \in B
  <2>1. PICK f : f = [x \in D |-> f[x]] /\ Upto(f, s)
    BY <1>2
  <2> DEFINE g == [x \in D |-> ForwardEntry(p, q, f, x[1], x[2])]
  <2>2. \A i \in 0 .. m, j \in 0 .. l : g[<<i, j>>] = ForwardEntry(p, q, f, i, j)
    OBVIOUS
  <2>3. g = [x \in D |-> g[x]]
    OBVIOUS
  <2> HIDE DEF g
  <2>4. ASSUME NEW i \in 0 .. m, NEW j \in 0 .. l, i + j <= s
        PROVE  g[<<i, j>>] = f[<<i, j>>]
    <3>1. f[<<i, j>>] = ForwardEntry(p, q, f, i, j)
      BY <2>1, <2>4
    <3> QED
      BY <2>2, <3>1
  <2>5. Upto(g, s + 1)
    <3> SUFFICES ASSUME NEW i \in 0 .. m, NEW j \in 0 .. l, i + j <= s + 1
                 PROVE  g[<<i, j>>] = ForwardEntry(p, q, g, i, j)
      OBVIOUS
    <3>1. CASE i = 0 \/ j = 0
      BY <2>2, <3>1 DEF ForwardEntry
    <3>2. CASE i # 0 /\ j # 0
      <4>1. /\ i - 1 \in 0 .. m /\ j - 1 \in 0 .. l
            /\ (i - 1) + (j - 1) <= s /\ (i - 1) + j <= s /\ i + (j - 1) <= s
        BY ONLY <3>2, i \in 0 .. m, j \in 0 .. l, i + j <= s + 1, m \in Nat, l \in Nat,
                s \in 0 .. (m + l) - 1
      <4>2. /\ g[<<i - 1, j - 1>>] = f[<<i - 1, j - 1>>] /\ g[<<i - 1, j>>] = f[<<i - 1, j>>]
            /\ g[<<i, j - 1>>] = f[<<i, j - 1>>]
        BY <2>4, <4>1
      <4>3. ForwardEntry(p, q, f, i, j) = ForwardEntry(p, q, g, i, j)
        BY ONLY <3>2, <4>2 DEF ForwardEntry
      <4> QED
        BY <2>2, <4>3
    <3> QED
      BY <3>1, <3>2
  <2>6. s + 1 \in 0 .. m + l
    OBVIOUS
  <2> HIDE DEF Upto
  <2> QED
    BY <2>3, <2>5, <2>6
<1>3. m + l \in B
  <2> HIDE DEF B
  <2>1. m + l \in Nat
    OBVIOUS
  <2>2. \A s \in 0 .. m + l : s \in B
    BY ONLY <2>1, <1>1, <1>2, CountingUp
  <2> QED
    BY <2>1, <2>2
<1>4. PICK f : f = [x \in D |-> f[x]] /\ Upto(f, m + l)
  BY <1>3
<1>5. ASSUME NEW i \in 0 .. m, NEW j \in 0 .. l PROVE f[<<i, j>>] = ForwardEntry(p, q, f, i, j)
  <2>1. i + j <= m + l
    OBVIOUS
  <2> HIDE DEF D
  <2> QED
    BY <1>4, <2>1
<1>6. \A x \in D : f[x] = ForwardEntry(p, q, f, x[1], x[2])
  <2> SUFFICES ASSUME NEW x \in D PROVE f[x] = ForwardEntry(p, q, f, x[1], x[2])
    OBVIOUS
  <2>1. PICK i \in 0 .. m, j \in 0 .. l : x = <<i, j>>
    OBVIOUS
  <2> QED
    BY <1>5, <2>1
<1>7. f = [x \in D |-> ForwardEntry(p, q, f, x[1], x[2])]
  BY <1>4, <1>6
<1> QED
  BY <1>7 DEF ForwardTable

(* The same for backward. *)
BackwardEntry(p, q, f, i, j) ==
  IF i = Len(p) \/ j = Len(q) THEN 0
  ELSE IF p[i + 1] = q[j + 1] THEN f[<<i + 1, j + 1>>] + 1
  ELSE Max({f[<<i + 1, j>>], f[<<i, j + 1>>]})
BackwardTable(p, q, f) ==
  f = [x \in (0 .. Len(p)) \X (0 .. Len(q)) |-> BackwardEntry(p, q, f, x[1], x[2])]

LEMMA BackwardUnfolds ==
  ASSUME NEW p, NEW q
  PROVE  backward(p, q) = CHOOSE f : BackwardTable(p, q, f)
BY DEF backward, BackwardTable, BackwardEntry

(* There is such a table: filled from the other end. *)
LEMMA BackwardExists ==
  ASSUME NEW p, NEW q, NEW m \in Nat, NEW l \in Nat, Len(p) = m, Len(q) = l
  PROVE  \E f : BackwardTable(p, q, f)
<1> DEFINE D == (0 .. m) \X (0 .. l)
           Upto(f, s) == \A i \in 0 .. m, j \in 0 .. l :
                           (m - i) + (l - j) <= s => f[<<i, j>>] = BackwardEntry(p, q, f, i, j)
           B == {s \in 0 .. m + l : \E f : f = [x \in D |-> f[x]] /\ Upto(f, s)}
<1>1. 0 \in B
  <2> DEFINE f == [x \in D |-> 0]
  <2>1. Upto(f, 0)
    <3> SUFFICES ASSUME NEW i \in 0 .. m, NEW j \in 0 .. l, (m - i) + (l - j) <= 0
                 PROVE  f[<<i, j>>] = BackwardEntry(p, q, f, i, j)
      OBVIOUS
    <3>1. i = m
      OBVIOUS
    <3>2. f[<<i, j>>] = 0
      OBVIOUS
    <3> QED
      BY <3>1, <3>2 DEF BackwardEntry
  <2>2. f = [x \in D |-> f[x]] /\ 0 \in 0 .. m + l
    OBVIOUS
  <2> HIDE DEF f, Upto
  <2> QED
    BY <2>1, <2>2
<1>2. ASSUME NEW s \in 0 .. (m + l) - 1, s \in B PROVE s + 1 \in B
  <2>1. PICK f : f = [x \in D |-> f[x]] /\ Upto(f, s)
    BY <1>2
  <2> DEFINE g == [x \in D |-> BackwardEntry(p, q, f, x[1], x[2])]
  <2>2. \A i \in 0 .. m, j \in 0 .. l : g[<<i, j>>] = BackwardEntry(p, q, f, i, j)
    OBVIOUS
  <2>3. g = [x \in D |-> g[x]]
    OBVIOUS
  <2> HIDE DEF g
  <2>4. ASSUME NEW i \in 0 .. m, NEW j \in 0 .. l, (m - i) + (l - j) <= s
        PROVE  g[<<i, j>>] = f[<<i, j>>]
    <3>1. f[<<i, j>>] = BackwardEntry(p, q, f, i, j)
      BY <2>1, <2>4
    <3> QED
      BY <2>2, <3>1
  <2>5. Upto(g, s + 1)
    <3> SUFFICES ASSUME NEW i \in 0 .. m, NEW j \in 0 .. l, (m - i) + (l - j) <= s + 1
                 PROVE  g[<<i, j>>] = BackwardEntry(p, q, g, i, j)
      OBVIOUS
    <3>1. CASE i = m \/ j = l
      BY <2>2, <3>1 DEF BackwardEntry
    <3>2. CASE i # m /\ j # l
      <4>1. /\ i + 1 \in 0 .. m /\ j + 1 \in 0 .. l
            /\ (m - (i + 1)) + (l - (j + 1)) <= s /\ (m - (i + 1)) + (l - j) <= s
            /\ (m - i) + (l - (j + 1)) <= s
        BY ONLY <3>2, i \in 0 .. m, j \in 0 .. l, (m - i) + (l - j) <= s + 1, m \in Nat, l \in Nat,
                s \in 0 .. (m + l) - 1
      <4>2. /\ g[<<i + 1, j + 1>>] = f[<<i + 1, j + 1>>] /\ g[<<i + 1, j>>] = f[<<i + 1, j>>]
            /\ g[<<i, j + 1>>] = f[<<i, j + 1>>]
        BY <2>4, <4>1
      <4>3. BackwardEntry(p, q, f, i, j) = BackwardEntry(p, q, g, i, j)
        BY ONLY <3>2, <4>2, Len(p) = m, Len(q) = l DEF BackwardEntry
      <4> QED
        BY <2>2, <4>3
    <3> QED
      BY <3>1, <3>2
  <2>6. s + 1 \in 0 .. m + l
    OBVIOUS
  <2> HIDE DEF Upto
  <2> QED
    BY <2>3, <2>5, <2>6
<1>3. m + l \in B
  <2> HIDE DEF B
  <2>1. m + l \in Nat
    OBVIOUS
  <2>2. \A s \in 0 .. m + l : s \in B
    BY ONLY <2>1, <1>1, <1>2, CountingUp
  <2> QED
    BY <2>1, <2>2
<1>4. PICK f : f = [x \in D |-> f[x]] /\ Upto(f, m + l)
  BY <1>3
<1>5. ASSUME NEW i \in 0 .. m, NEW j \in 0 .. l PROVE f[<<i, j>>] = BackwardEntry(p, q, f, i, j)
  <2>1. (m - i) + (l - j) <= m + l
    OBVIOUS
  <2> HIDE DEF D
  <2> QED
    BY <1>4, <2>1
<1>6. \A x \in D : f[x] = BackwardEntry(p, q, f, x[1], x[2])
  <2> SUFFICES ASSUME NEW x \in D PROVE f[x] = BackwardEntry(p, q, f, x[1], x[2])
    OBVIOUS
  <2>1. PICK i \in 0 .. m, j \in 0 .. l : x = <<i, j>>
    OBVIOUS
  <2> QED
    BY <1>5, <2>1
<1>7. f = [x \in D |-> BackwardEntry(p, q, f, x[1], x[2])]
  BY <1>4, <1>6
<1> QED
  BY <1>7 DEF BackwardTable

(* What the tables have. *)
Counting(p, q, f) ==
  /\ \A i \in 0 .. Len(p), j \in 0 .. Len(q) :
       f[<<i, j>>] \in Nat /\ (i = 0 \/ j = 0 => f[<<i, j>>] = 0)
  /\ \A i \in 1 .. Len(p), j \in 1 .. Len(q) :
       IF p[i] = q[j] THEN f[<<i, j>>] = f[<<i - 1, j - 1>>] + 1
       ELSE /\ f[<<i, j>>] >= f[<<i - 1, j>>] /\ f[<<i, j>>] >= f[<<i, j - 1>>]
            /\ f[<<i, j>>] = f[<<i - 1, j>>] \/ f[<<i, j>>] = f[<<i, j - 1>>]

CountingBack(p, q, f) ==
  /\ \A i \in 0 .. Len(p), j \in 0 .. Len(q) :
       f[<<i, j>>] \in Nat /\ (i = Len(p) \/ j = Len(q) => f[<<i, j>>] = 0)
  /\ \A i \in 0 .. Len(p) - 1, j \in 0 .. Len(q) - 1 :
       IF p[i + 1] = q[j + 1] THEN f[<<i, j>>] = f[<<i + 1, j + 1>>] + 1
       ELSE /\ f[<<i, j>>] >= f[<<i + 1, j>>] /\ f[<<i, j>>] >= f[<<i, j + 1>>]
            /\ f[<<i, j>>] = f[<<i + 1, j>>] \/ f[<<i, j>>] = f[<<i, j + 1>>]

LEMMA ForwardCounts ==
  ASSUME NEW p, NEW q, Sequence(p), Sequence(q)
  PROVE  Counting(p, q, forward(p, q))
<1> DEFINE m == Len(p)
           l == Len(q)
<1>0. m \in Nat /\ l \in Nat
  BY SequenceShape
<1>1. PICK f : f = forward(p, q)
  OBVIOUS
<1>2. ForwardTable(p, q, f)
  <2>1. \E g : ForwardTable(p, q, g)
    BY <1>0, ForwardExists
  <2> QED
    BY <1>1, <2>1, ForwardUnfolds
<1> HIDE DEF m, l
<1>3. ASSUME NEW i \in 0 .. m, NEW j \in 0 .. l
      PROVE  f[<<i, j>>] = ForwardEntry(p, q, f, i, j)
  <2>1. f = [x \in (0 .. m) \X (0 .. l) |-> ForwardEntry(p, q, f, x[1], x[2])]
    BY <1>2 DEF ForwardTable, m, l
  <2>2. <<i, j>> \in (0 .. m) \X (0 .. l) /\ <<i, j>>[1] = i /\ <<i, j>>[2] = j
    OBVIOUS
  <2> QED
    BY <2>1, <2>2
<1> DEFINE B == {s \in 0 .. m + l : \A i \in 0 .. m, j \in 0 .. l :
                                       i + j <= s => f[<<i, j>>] \in Nat}
<1>4. 0 \in B
  <2> SUFFICES ASSUME NEW i \in 0 .. m, NEW j \in 0 .. l, i + j <= 0 PROVE f[<<i, j>>] \in Nat
    BY <1>0
  <2>1. i = 0
    BY <1>0
  <2>2. f[<<i, j>>] = ForwardEntry(p, q, f, i, j)
    BY <1>3
  <2>3. ForwardEntry(p, q, f, i, j) = 0
    BY ONLY <2>1 DEF ForwardEntry
  <2> QED
    BY ONLY <2>2, <2>3
<1>5. ASSUME NEW s \in 0 .. (m + l) - 1, s \in B PROVE s + 1 \in B
  <2> SUFFICES ASSUME NEW i \in 0 .. m, NEW j \in 0 .. l, i + j <= s + 1
               PROVE  f[<<i, j>>] \in Nat
    BY <1>0
  <2>1. CASE i = 0 \/ j = 0
    <3>1. f[<<i, j>>] = ForwardEntry(p, q, f, i, j)
      BY <1>3
    <3>2. ForwardEntry(p, q, f, i, j) = 0
      BY ONLY <2>1 DEF ForwardEntry
    <3> QED
      BY ONLY <3>1, <3>2
  <2>2. CASE i # 0 /\ j # 0
    <3>1. /\ i - 1 \in 0 .. m /\ j - 1 \in 0 .. l
          /\ (i - 1) + (j - 1) <= s /\ (i - 1) + j <= s /\ i + (j - 1) <= s
      BY ONLY <1>0, <2>2, i \in 0 .. m, j \in 0 .. l, i + j <= s + 1, s \in 0 .. (m + l) - 1
    <3>2. /\ f[<<i - 1, j - 1>>] \in Nat /\ f[<<i - 1, j>>] \in Nat /\ f[<<i, j - 1>>] \in Nat
      <4>1. \A a \in 0 .. m, b \in 0 .. l : a + b <= s => f[<<a, b>>] \in Nat
        BY <1>5
      <4> HIDE DEF B
      <4> QED
        BY ONLY <3>1, <4>1
    <3>3. Max({f[<<i - 1, j>>], f[<<i, j - 1>>]}) \in Nat
      BY <3>2, GreaterOfTwo
    <3>4. f[<<i, j>>] = ForwardEntry(p, q, f, i, j)
      BY <1>3
    <3>5. ForwardEntry(p, q, f, i, j) \in Nat
      BY ONLY <2>2, <3>2, <3>3 DEF ForwardEntry
    <3> QED
      BY ONLY <3>4, <3>5
  <2> QED
    BY <2>1, <2>2
<1>6. m + l \in B
  <2> HIDE DEF B
  <2>1. m + l \in Nat
    BY <1>0
  <2>2. \A s \in 0 .. m + l : s \in B
    BY ONLY <2>1, <1>4, <1>5, CountingUp
  <2> QED
    BY <2>1, <2>2
<1>7. ASSUME NEW i \in 0 .. m, NEW j \in 0 .. l
      PROVE  f[<<i, j>>] \in Nat /\ (i = 0 \/ j = 0 => f[<<i, j>>] = 0)
  <2>1. i + j <= m + l
    BY <1>0
  <2> QED
    BY <1>3, <1>6, <2>1 DEF ForwardEntry
<1>8. ASSUME NEW i \in 1 .. m, NEW j \in 1 .. l
      PROVE  IF p[i] = q[j] THEN f[<<i, j>>] = f[<<i - 1, j - 1>>] + 1
             ELSE /\ f[<<i, j>>] >= f[<<i - 1, j>>] /\ f[<<i, j>>] >= f[<<i, j - 1>>]
                  /\ f[<<i, j>>] = f[<<i - 1, j>>] \/ f[<<i, j>>] = f[<<i, j - 1>>]
  <2>1. i \in 0 .. m /\ j \in 0 .. l /\ i - 1 \in 0 .. m /\ j - 1 \in 0 .. l /\ i # 0 /\ j # 0
    BY <1>0
  <2>2. PICK u, v : u = f[<<i - 1, j>>] /\ v = f[<<i, j - 1>>]
    OBVIOUS
  <2>3. u \in Int /\ v \in Int
    BY <1>7, <2>1, <2>2
  <2>4. Max({u, v}) = IF u >= v THEN u ELSE v
    BY ONLY <2>3, GreaterOfTwo
  <2>5. f[<<i, j>>] = IF p[i] = q[j] THEN f[<<i - 1, j - 1>>] + 1 ELSE Max({u, v})
    BY <1>3, <2>1, <2>2 DEF ForwardEntry
  <2>6. p[i] # q[j] => f[<<i, j>>] >= u /\ f[<<i, j>>] >= v
                       /\ (f[<<i, j>>] = u \/ f[<<i, j>>] = v)
    BY ONLY <2>3, <2>4, <2>5
  <2> QED
    BY <2>2, <2>5, <2>6
<1> QED
  BY <1>1, <1>7, <1>8 DEF Counting, m, l

(* The same for backward. *)
LEMMA BackwardCounts ==
  ASSUME NEW p, NEW q, Sequence(p), Sequence(q)
  PROVE  CountingBack(p, q, backward(p, q))
<1> DEFINE m == Len(p)
           l == Len(q)
<1>0. m \in Nat /\ l \in Nat
  BY SequenceShape
<1>1. PICK f : f = backward(p, q)
  OBVIOUS
<1>2. BackwardTable(p, q, f)
  <2>1. \E g : BackwardTable(p, q, g)
    BY <1>0, BackwardExists
  <2> QED
    BY <1>1, <2>1, BackwardUnfolds
<1> HIDE DEF m, l
<1>3. ASSUME NEW i \in 0 .. m, NEW j \in 0 .. l
      PROVE  f[<<i, j>>] = BackwardEntry(p, q, f, i, j)
  <2>1. f = [x \in (0 .. m) \X (0 .. l) |-> BackwardEntry(p, q, f, x[1], x[2])]
    BY <1>2 DEF BackwardTable, m, l
  <2>2. <<i, j>> \in (0 .. m) \X (0 .. l) /\ <<i, j>>[1] = i /\ <<i, j>>[2] = j
    OBVIOUS
  <2> QED
    BY <2>1, <2>2
<1> DEFINE B == {s \in 0 .. m + l : \A i \in 0 .. m, j \in 0 .. l :
                                       (m - i) + (l - j) <= s => f[<<i, j>>] \in Nat}
<1>4. 0 \in B
  <2> SUFFICES ASSUME NEW i \in 0 .. m, NEW j \in 0 .. l, (m - i) + (l - j) <= 0
               PROVE  f[<<i, j>>] \in Nat
    BY <1>0
  <2>1. i = m
    BY <1>0
  <2>2. f[<<i, j>>] = BackwardEntry(p, q, f, i, j)
    BY <1>3
  <2>3. BackwardEntry(p, q, f, i, j) = 0
    BY ONLY <2>1 DEF BackwardEntry, m, l
  <2> QED
    BY ONLY <2>2, <2>3
<1>5. ASSUME NEW s \in 0 .. (m + l) - 1, s \in B PROVE s + 1 \in B
  <2> SUFFICES ASSUME NEW i \in 0 .. m, NEW j \in 0 .. l, (m - i) + (l - j) <= s + 1
               PROVE  f[<<i, j>>] \in Nat
    BY <1>0
  <2>1. CASE i = m \/ j = l
    <3>1. f[<<i, j>>] = BackwardEntry(p, q, f, i, j)
      BY <1>3
    <3>2. BackwardEntry(p, q, f, i, j) = 0
      BY ONLY <2>1 DEF BackwardEntry, m, l
    <3> QED
      BY ONLY <3>1, <3>2
  <2>2. CASE i # m /\ j # l
    <3>1. /\ i + 1 \in 0 .. m /\ j + 1 \in 0 .. l
          /\ (m - (i + 1)) + (l - (j + 1)) <= s /\ (m - (i + 1)) + (l - j) <= s
          /\ (m - i) + (l - (j + 1)) <= s
      BY ONLY <1>0, <2>2, i \in 0 .. m, j \in 0 .. l, (m - i) + (l - j) <= s + 1,
              s \in 0 .. (m + l) - 1
    <3>2. /\ f[<<i + 1, j + 1>>] \in Nat /\ f[<<i + 1, j>>] \in Nat /\ f[<<i, j + 1>>] \in Nat
      <4>1. \A a \in 0 .. m, b \in 0 .. l : (m - a) + (l - b) <= s => f[<<a, b>>] \in Nat
        BY <1>5
      <4> HIDE DEF B
      <4> QED
        BY ONLY <3>1, <4>1
    <3>3. Max({f[<<i + 1, j>>], f[<<i, j + 1>>]}) \in Nat
      BY <3>2, GreaterOfTwo
    <3>4. f[<<i, j>>] = BackwardEntry(p, q, f, i, j)
      BY <1>3
    <3>5. BackwardEntry(p, q, f, i, j) \in Nat
      BY ONLY <2>2, <3>2, <3>3 DEF BackwardEntry, m, l
    <3> QED
      BY ONLY <3>4, <3>5
  <2> QED
    BY <2>1, <2>2
<1>6. m + l \in B
  <2> HIDE DEF B
  <2>1. m + l \in Nat
    BY <1>0
  <2>2. \A s \in 0 .. m + l : s \in B
    BY ONLY <2>1, <1>4, <1>5, CountingUp
  <2> QED
    BY <2>1, <2>2
<1>7. ASSUME NEW i \in 0 .. m, NEW j \in 0 .. l
      PROVE  f[<<i, j>>] \in Nat /\ (i = m \/ j = l => f[<<i, j>>] = 0)
  <2>1. (m - i) + (l - j) <= m + l
    BY <1>0
  <2> QED
    BY <1>3, <1>6, <2>1 DEF BackwardEntry, m, l
<1>8. ASSUME NEW i \in 0 .. m - 1, NEW j \in 0 .. l - 1
      PROVE  IF p[i + 1] = q[j + 1] THEN f[<<i, j>>] = f[<<i + 1, j + 1>>] + 1
             ELSE /\ f[<<i, j>>] >= f[<<i + 1, j>>] /\ f[<<i, j>>] >= f[<<i, j + 1>>]
                  /\ f[<<i, j>>] = f[<<i + 1, j>>] \/ f[<<i, j>>] = f[<<i, j + 1>>]
  <2>1. i \in 0 .. m /\ j \in 0 .. l /\ i + 1 \in 0 .. m /\ j + 1 \in 0 .. l /\ i # m /\ j # l
    BY <1>0
  <2>2. PICK u, v : u = f[<<i + 1, j>>] /\ v = f[<<i, j + 1>>]
    OBVIOUS
  <2>3. u \in Int /\ v \in Int
    BY <1>7, <2>1, <2>2
  <2>4. Max({u, v}) = IF u >= v THEN u ELSE v
    BY ONLY <2>3, GreaterOfTwo
  <2>5. f[<<i, j>>] = IF p[i + 1] = q[j + 1] THEN f[<<i + 1, j + 1>>] + 1 ELSE Max({u, v})
    BY <1>3, <2>1, <2>2 DEF BackwardEntry, m, l
  <2>6. p[i + 1] # q[j + 1] => f[<<i, j>>] >= u /\ f[<<i, j>>] >= v
                       /\ (f[<<i, j>>] = u \/ f[<<i, j>>] = v)
    BY ONLY <2>3, <2>4, <2>5
  <2> QED
    BY <2>2, <2>5, <2>6
<1> QED
  BY <1>1, <1>7, <1>8 DEF CountingBack, m, l

(* Along either sequence the table grows by one or not at all. *)
GrowsAt(f, i, j) ==
  /\ i >= 1 => f[<<i, j>>] = f[<<i - 1, j>>] \/ f[<<i, j>>] = f[<<i - 1, j>>] + 1
  /\ j >= 1 => f[<<i, j>>] = f[<<i, j - 1>>] \/ f[<<i, j>>] = f[<<i, j - 1>>] + 1

LEMMA ForwardGrows ==
  ASSUME NEW p, NEW q, NEW f, NEW m \in Nat, NEW l \in Nat, Len(p) = m, Len(q) = l,
         Counting(p, q, f)
  PROVE  \A i \in 0 .. m, j \in 0 .. l : GrowsAt(f, i, j)
<1>1. \A i \in 0 .. m, j \in 0 .. l :
        f[<<i, j>>] \in Nat /\ (i = 0 \/ j = 0 => f[<<i, j>>] = 0)
  BY DEF Counting
<1>2. \A i \in 1 .. m, j \in 1 .. l :
        IF p[i] = q[j] THEN f[<<i, j>>] = f[<<i - 1, j - 1>>] + 1
        ELSE /\ f[<<i, j>>] >= f[<<i - 1, j>>] /\ f[<<i, j>>] >= f[<<i, j - 1>>]
             /\ f[<<i, j>>] = f[<<i - 1, j>>] \/ f[<<i, j>>] = f[<<i, j - 1>>]
  BY DEF Counting
<1>3. ASSUME NEW i \in 0 .. m, NEW j \in 0 .. l, i = 0 \/ j = 0 PROVE GrowsAt(f, i, j)
  <2>1. f[<<i, j>>] = 0
    BY <1>1, <1>3
  <2>2. i >= 1 => f[<<i - 1, j>>] = 0
    <3> SUFFICES ASSUME i >= 1 PROVE f[<<i - 1, j>>] = 0
      OBVIOUS
    <3>1. i - 1 \in 0 .. m /\ j = 0
      BY <1>3
    <3> QED
      BY <1>1, <3>1
  <2>3. j >= 1 => f[<<i, j - 1>>] = 0
    <3> SUFFICES ASSUME j >= 1 PROVE f[<<i, j - 1>>] = 0
      OBVIOUS
    <3>1. j - 1 \in 0 .. l /\ i = 0
      BY <1>3
    <3> QED
      BY <1>1, <3>1
  <2> QED
    BY <2>1, <2>2, <2>3 DEF GrowsAt
<1> DEFINE B == {s \in 0 .. m + l : \A i \in 0 .. m, j \in 0 .. l : i + j <= s => GrowsAt(f, i, j)}
<1>4. 0 \in B
  <2> SUFFICES ASSUME NEW i \in 0 .. m, NEW j \in 0 .. l, i + j <= 0 PROVE GrowsAt(f, i, j)
    OBVIOUS
  <2>1. i = 0
    OBVIOUS
  <2> QED
    BY <1>3, <2>1
<1>5. ASSUME NEW s \in 0 .. (m + l) - 1, s \in B PROVE s + 1 \in B
  <2> SUFFICES ASSUME NEW i \in 0 .. m, NEW j \in 0 .. l, i + j <= s + 1,
                      i # 0, j # 0
               PROVE  GrowsAt(f, i, j)
    BY <1>3
  <2>1. /\ i \in 1 .. m /\ j \in 1 .. l /\ i - 1 \in 0 .. m /\ j - 1 \in 0 .. l
        /\ (i - 1) + j <= s /\ i + (j - 1) <= s
    BY ONLY i \in 0 .. m, j \in 0 .. l, i + j <= s + 1, i # 0, j # 0, m \in Nat, l \in Nat,
            s \in 0 .. (m + l) - 1
  <2>2. GrowsAt(f, i - 1, j) /\ GrowsAt(f, i, j - 1)
    <3>1. \A a \in 0 .. m, b \in 0 .. l : a + b <= s => GrowsAt(f, a, b)
      BY <1>5
    <3> QED
      BY ONLY <2>1, <3>1
  <2>3. PICK a, u, v, c : /\ a = f[<<i - 1, j - 1>>] /\ u = f[<<i - 1, j>>]
                          /\ v = f[<<i, j - 1>>] /\ c = f[<<i, j>>]
    OBVIOUS
  <2>4. a \in Nat /\ u \in Nat /\ v \in Nat /\ c \in Nat
    BY <1>1, <2>1, <2>3
  <2>5. (u = a \/ u = a + 1) /\ (v = a \/ v = a + 1)
    <3>1. j >= 1 /\ i >= 1
      BY ONLY <2>1, m \in Nat, l \in Nat
    <3> QED
      BY ONLY <2>2, <2>3, <3>1 DEF GrowsAt
  <2>6. IF p[i] = q[j] THEN c = a + 1 ELSE c >= u /\ c >= v /\ (c = u \/ c = v)
    BY <1>2, <2>1, <2>3
  <2>7. (c = u \/ c = u + 1) /\ (c = v \/ c = v + 1)
    BY ONLY <2>4, <2>5, <2>6
  <2> QED
    BY ONLY <2>3, <2>7 DEF GrowsAt
<1>6. m + l \in B
  <2> HIDE DEF B
  <2>1. m + l \in Nat
    OBVIOUS
  <2>2. \A s \in 0 .. m + l : s \in B
    BY ONLY <2>1, <1>4, <1>5, CountingUp
  <2> QED
    BY <2>1, <2>2
<1>7. \A i \in 0 .. m, j \in 0 .. l : i + j <= m + l
  OBVIOUS
<1> QED
  BY <1>6, <1>7

(* Towards either end the table of backward falls by one or not at all. *)
FallsAt(f, m, l, i, j) ==
  /\ i < m => f[<<i, j>>] = f[<<i + 1, j>>] \/ f[<<i, j>>] = f[<<i + 1, j>>] + 1
  /\ j < l => f[<<i, j>>] = f[<<i, j + 1>>] \/ f[<<i, j>>] = f[<<i, j + 1>>] + 1

LEMMA BackwardFalls ==
  ASSUME NEW p, NEW q, NEW f, NEW m \in Nat, NEW l \in Nat, Len(p) = m, Len(q) = l,
         CountingBack(p, q, f)
  PROVE  \A i \in 0 .. m, j \in 0 .. l : FallsAt(f, m, l, i, j)
<1>1. \A i \in 0 .. m, j \in 0 .. l :
        f[<<i, j>>] \in Nat /\ (i = m \/ j = l => f[<<i, j>>] = 0)
  BY DEF CountingBack
<1>2. \A i \in 0 .. m - 1, j \in 0 .. l - 1 :
        IF p[i + 1] = q[j + 1] THEN f[<<i, j>>] = f[<<i + 1, j + 1>>] + 1
        ELSE /\ f[<<i, j>>] >= f[<<i + 1, j>>] /\ f[<<i, j>>] >= f[<<i, j + 1>>]
             /\ f[<<i, j>>] = f[<<i + 1, j>>] \/ f[<<i, j>>] = f[<<i, j + 1>>]
  BY DEF CountingBack
<1>3. ASSUME NEW i \in 0 .. m, NEW j \in 0 .. l, i = m \/ j = l PROVE FallsAt(f, m, l, i, j)
  <2>1. f[<<i, j>>] = 0
    BY <1>1, <1>3
  <2>2. i < m => f[<<i + 1, j>>] = 0
    <3> SUFFICES ASSUME i < m PROVE f[<<i + 1, j>>] = 0
      OBVIOUS
    <3>1. i + 1 \in 0 .. m /\ j = l
      BY <1>3
    <3> QED
      BY <1>1, <3>1
  <2>3. j < l => f[<<i, j + 1>>] = 0
    <3> SUFFICES ASSUME j < l PROVE f[<<i, j + 1>>] = 0
      OBVIOUS
    <3>1. j + 1 \in 0 .. l /\ i = m
      BY <1>3
    <3> QED
      BY <1>1, <3>1
  <2> QED
    BY <2>1, <2>2, <2>3 DEF FallsAt
<1> DEFINE B == {s \in 0 .. m + l : \A i \in 0 .. m, j \in 0 .. l :
                                     (m - i) + (l - j) <= s => FallsAt(f, m, l, i, j)}
<1>4. 0 \in B
  <2> SUFFICES ASSUME NEW i \in 0 .. m, NEW j \in 0 .. l, (m - i) + (l - j) <= 0
               PROVE  FallsAt(f, m, l, i, j)
    OBVIOUS
  <2>1. i = m
    OBVIOUS
  <2> QED
    BY <1>3, <2>1
<1>5. ASSUME NEW s \in 0 .. (m + l) - 1, s \in B PROVE s + 1 \in B
  <2> SUFFICES ASSUME NEW i \in 0 .. m, NEW j \in 0 .. l, (m - i) + (l - j) <= s + 1,
                      i # m, j # l
               PROVE  FallsAt(f, m, l, i, j)
    BY <1>3
  <2>1. /\ i \in 0 .. m - 1 /\ j \in 0 .. l - 1 /\ i + 1 \in 0 .. m /\ j + 1 \in 0 .. l
        /\ (m - (i + 1)) + (l - j) <= s /\ (m - i) + (l - (j + 1)) <= s
    BY ONLY i \in 0 .. m, j \in 0 .. l, (m - i) + (l - j) <= s + 1, i # m, j # l,
            m \in Nat, l \in Nat,
            s \in 0 .. (m + l) - 1
  <2>2. FallsAt(f, m, l, i + 1, j) /\ FallsAt(f, m, l, i, j + 1)
    <3>1. \A a \in 0 .. m, b \in 0 .. l : (m - a) + (l - b) <= s => FallsAt(f, m, l, a, b)
      BY <1>5
    <3> QED
      BY ONLY <2>1, <3>1
  <2>3. PICK a, u, v, c : /\ a = f[<<i + 1, j + 1>>] /\ u = f[<<i + 1, j>>]
                          /\ v = f[<<i, j + 1>>] /\ c = f[<<i, j>>]
    OBVIOUS
  <2>4. a \in Nat /\ u \in Nat /\ v \in Nat /\ c \in Nat
    BY <1>1, <2>1, <2>3
  <2>5. (u = a \/ u = a + 1) /\ (v = a \/ v = a + 1)
    <3>1. j < l /\ i < m
      BY ONLY <2>1, m \in Nat, l \in Nat
    <3> QED
      BY ONLY <2>2, <2>3, <3>1 DEF FallsAt
  <2>6. IF p[i + 1] = q[j + 1] THEN c = a + 1 ELSE c >= u /\ c >= v /\ (c = u \/ c = v)
    BY <1>2, <2>1, <2>3
  <2>7. (c = u \/ c = u + 1) /\ (c = v \/ c = v + 1)
    BY ONLY <2>4, <2>5, <2>6
  <2> QED
    BY ONLY <2>3, <2>7 DEF FallsAt
<1>6. m + l \in B
  <2> HIDE DEF B
  <2>1. m + l \in Nat
    OBVIOUS
  <2>2. \A s \in 0 .. m + l : s \in B
    BY ONLY <2>1, <1>4, <1>5, CountingUp
  <2> QED
    BY <2>1, <2>2
<1>7. \A i \in 0 .. m, j \in 0 .. l : (m - i) + (l - j) <= m + l
  OBVIOUS
<1> QED
  BY <1>6, <1>7

(* What is matched before and after a place is no more than the whole. *)
LEMMA ThroughAPlace ==
  ASSUME NEW p, NEW q, NEW f, NEW b, NEW m \in Nat, NEW l \in Nat, Len(p) = m, Len(q) = l,
         Counting(p, q, f), CountingBack(p, q, b)
  PROVE  \A i \in 0 .. m, j \in 0 .. l : f[<<i, j>>] + b[<<i, j>>] <= f[<<m, l>>]
<1>1. /\ \A i \in 0 .. m, j \in 0 .. l : f[<<i, j>>] \in Nat /\ b[<<i, j>>] \in Nat
      /\ \A i \in 0 .. m, j \in 0 .. l : i = m \/ j = l => b[<<i, j>>] = 0
  BY DEF Counting, CountingBack
<1>2. \A i \in 0 .. m, j \in 0 .. l : GrowsAt(f, i, j)
  BY ForwardGrows
<1> DEFINE Through(i, j) == f[<<i, j>>] + b[<<i, j>>] <= f[<<m, l>>]
           B == {s \in 0 .. m + l : \A i \in 0 .. m, j \in 0 .. l :
                                      (m - i) + (l - j) <= s => Through(i, j)}
<1>3. 0 \in B
  <2>1. Through(m, l)
    <3>1. b[<<m, l>>] = 0 /\ f[<<m, l>>] \in Nat
      BY <1>1
    <3> QED
      BY <3>1
  <2>2. \A i \in 0 .. m, j \in 0 .. l : (m - i) + (l - j) <= 0 => i = m /\ j = l
    OBVIOUS
  <2>3. 0 \in 0 .. m + l
    OBVIOUS
  <2> HIDE DEF Through
  <2> QED
    BY <2>1, <2>2, <2>3
<1>4. ASSUME NEW s \in 0 .. (m + l) - 1, s \in B PROVE s + 1 \in B
  <2> HIDE DEF Through
  <2>1. \A c \in 0 .. m, d \in 0 .. l : (m - c) + (l - d) <= s => Through(c, d)
    BY <1>4
  <2> SUFFICES ASSUME NEW i \in 0 .. m, NEW j \in 0 .. l, (m - i) + (l - j) <= s + 1
               PROVE  Through(i, j)
    OBVIOUS
  <2>2. PICK a \in Nat : a = f[<<i, j>>]
    BY <1>1
  <2>3. PICK d \in Nat : d = b[<<i, j>>]
    BY <1>1
  <2>4. PICK t \in Nat : t = f[<<m, l>>]
    BY <1>1
  <2>5. CASE i < m /\ (b[<<i, j>>] = b[<<i + 1, j>>] \/ j = l)
    <3>1. i + 1 \in 0 .. m /\ (m - (i + 1)) + (l - j) <= s /\ (i + 1) - 1 = i /\ i + 1 >= 1
      BY <2>5
    <3>2. Through(i + 1, j) /\ GrowsAt(f, i + 1, j)
      BY <1>2, <2>1, <3>1
    <3>3. PICK a2 \in Nat : a2 = f[<<i + 1, j>>]
      BY <1>1, <3>1
    <3>4. a2 = a \/ a2 = a + 1
      BY ONLY <2>2, <3>1, <3>2, <3>3 DEF GrowsAt
    <3>5. b[<<i + 1, j>>] = d
      BY <1>1, <2>3, <2>5, <3>1
    <3>6. a2 + d <= t
      BY ONLY <2>4, <3>2, <3>3, <3>5 DEF Through
    <3>7. a + d <= t
      BY ONLY <3>4, <3>6, a \in Nat, d \in Nat, t \in Nat
    <3> QED
      BY ONLY <2>2, <2>3, <2>4, <3>7 DEF Through
  <2>6. CASE j < l /\ (b[<<i, j>>] = b[<<i, j + 1>>] \/ i = m)
    <3>1. j + 1 \in 0 .. l /\ (m - i) + (l - (j + 1)) <= s /\ (j + 1) - 1 = j /\ j + 1 >= 1
      BY <2>6
    <3>2. Through(i, j + 1) /\ GrowsAt(f, i, j + 1)
      BY <1>2, <2>1, <3>1
    <3>3. PICK a2 \in Nat : a2 = f[<<i, j + 1>>]
      BY <1>1, <3>1
    <3>4. a2 = a \/ a2 = a + 1
      BY ONLY <2>2, <3>1, <3>2, <3>3 DEF GrowsAt
    <3>5. b[<<i, j + 1>>] = d
      BY <1>1, <2>3, <2>6, <3>1
    <3>6. a2 + d <= t
      BY ONLY <2>4, <3>2, <3>3, <3>5 DEF Through
    <3>7. a + d <= t
      BY ONLY <3>4, <3>6, a \in Nat, d \in Nat, t \in Nat
    <3> QED
      BY ONLY <2>2, <2>3, <2>4, <3>7 DEF Through
  <2>7. CASE i < m /\ j < l /\ p[i + 1] = q[j + 1]
    <3>1. /\ i + 1 \in 1 .. m /\ j + 1 \in 1 .. l /\ i + 1 \in 0 .. m /\ j + 1 \in 0 .. l
          /\ i \in 0 .. m - 1 /\ j \in 0 .. l - 1
          /\ (m - (i + 1)) + (l - (j + 1)) <= s /\ (i + 1) - 1 = i /\ (j + 1) - 1 = j
      BY <2>7
    <3>2. Through(i + 1, j + 1)
      BY <2>1, <3>1
    <3>3. f[<<i + 1, j + 1>>] = a + 1
      <4>1. f[<<i + 1, j + 1>>] = f[<<(i + 1) - 1, (j + 1) - 1>>] + 1
        BY <2>7, <3>1 DEF Counting
      <4> QED
        BY ONLY <2>2, <3>1, <4>1
    <3>4. PICK d2 \in Nat : d2 = b[<<i + 1, j + 1>>]
      BY <1>1, <3>1
    <3>5. d = d2 + 1
      <4>1. b[<<i, j>>] = b[<<i + 1, j + 1>>] + 1
        BY <2>7, <3>1 DEF CountingBack
      <4> QED
        BY ONLY <2>3, <3>4, <4>1
    <3>6. (a + 1) + d2 <= t
      BY ONLY <2>4, <3>2, <3>3, <3>4 DEF Through
    <3>7. a + d <= t
      BY ONLY <3>5, <3>6, a \in Nat, d2 \in Nat, t \in Nat
    <3> QED
      BY ONLY <2>2, <2>3, <2>4, <3>7 DEF Through
  <2>8. CASE i = m /\ j = l
    <3>1. a = t /\ d = 0
      BY ONLY <1>1, <2>2, <2>3, <2>4, <2>8, i \in 0 .. m, j \in 0 .. l
    <3>2. a + d <= t
      BY ONLY <3>1, a \in Nat
    <3> QED
      BY ONLY <2>2, <2>3, <2>4, <3>2 DEF Through
  <2>9. i < m /\ j < l /\ p[i + 1] # q[j + 1] =>
          b[<<i, j>>] = b[<<i + 1, j>>] \/ b[<<i, j>>] = b[<<i, j + 1>>]
    <3> SUFFICES ASSUME i < m, j < l, p[i + 1] # q[j + 1]
                 PROVE  b[<<i, j>>] = b[<<i + 1, j>>] \/ b[<<i, j>>] = b[<<i, j + 1>>]
      OBVIOUS
    <3>1. i \in 0 .. m - 1 /\ j \in 0 .. l - 1
      OBVIOUS
    <3> QED
      BY <3>1 DEF CountingBack
  <2>10. (i < m \/ i = m) /\ (j < l \/ j = l)
    OBVIOUS
  <2> QED
    BY ONLY <2>5, <2>6, <2>7, <2>8, <2>9, <2>10
<1>5. m + l \in B
  <2> HIDE DEF B
  <2>1. m + l \in Nat
    OBVIOUS
  <2>2. \A s \in 0 .. m + l : s \in B
    BY ONLY <2>1, <1>3, <1>4, CountingUp
  <2> QED
    BY <2>1, <2>2
<1>6. \A i \in 0 .. m, j \in 0 .. l : (m - i) + (l - j) <= m + l
  OBVIOUS
<1> QED
  BY <1>5, <1>6

-----------------------------------------------------------------------------
(* No matching has more pairs than the table counts *)
Within(pairs, i, j) == {x \in pairs : x[1] <= i /\ x[2] <= j}
Beyond(pairs, i, j) == {x \in pairs : x[1] > i /\ x[2] > j}

LEMMA MatchingIsFinite ==
  ASSUME NEW p, NEW q, NEW m \in Nat, NEW l \in Nat, Len(p) = m, Len(q) = l,
         NEW pairs, Matching(pairs, p, q)
  PROVE  \A S \in SUBSET pairs : IsFiniteSet(S) /\ Cardinality(S) \in Nat
<1>1. IsFiniteSet(1 .. m) /\ IsFiniteSet(1 .. l)
  BY FS_Interval
<1>2. IsFiniteSet((1 .. m) \X (1 .. l))
  BY <1>1, FS_Product
<1>3. \A S \in SUBSET pairs : S \in SUBSET ((1 .. m) \X (1 .. l))
  BY DEF Matching
<1> QED
  BY <1>2, <1>3, FS_Subset, FS_CardinalityType

LEMMA WithinIsCounted ==
  ASSUME NEW p, NEW q, NEW f, NEW m \in Nat, NEW l \in Nat, Len(p) = m, Len(q) = l,
         Counting(p, q, f), NEW pairs, Matching(pairs, p, q)
  PROVE  \A i \in 0 .. m, j \in 0 .. l : Cardinality(Within(pairs, i, j)) <= f[<<i, j>>]
<1>1. \A i \in 0 .. m, j \in 0 .. l : f[<<i, j>>] \in Nat /\ GrowsAt(f, i, j)
  BY ForwardGrows DEF Counting
<1>2. \A x \in pairs : /\ x = <<x[1], x[2]>> /\ x[1] \in 1 .. m /\ x[2] \in 1 .. l
                       /\ p[x[1]] = q[x[2]]
  BY DEF Matching
<1>3. /\ \A x, y \in pairs : x[1] < y[1] => x[2] < y[2]
      /\ \A x, y \in pairs : x # y => x[1] # y[1]
  BY DEF Matching
<1>4. \A S \in SUBSET pairs : IsFiniteSet(S) /\ Cardinality(S) \in Nat
  BY MatchingIsFinite
<1> DEFINE Counted(i, j) == Cardinality(Within(pairs, i, j)) <= f[<<i, j>>]
           B == {s \in 0 .. m + l : \A i \in 0 .. m, j \in 0 .. l : i + j <= s => Counted(i, j)}
<1>5. ASSUME NEW i \in 0 .. m, NEW j \in 0 .. l, i = 0 \/ j = 0 PROVE Counted(i, j)
  <2>1. Within(pairs, i, j) = {}
    BY <1>2, <1>5 DEF Within
  <2>2. f[<<i, j>>] \in Nat
    BY <1>1
  <2> QED
    BY <2>1, <2>2, FS_EmptySet
<1>6. 0 \in B
  <2> SUFFICES ASSUME NEW i \in 0 .. m, NEW j \in 0 .. l, i + j <= 0 PROVE Counted(i, j)
    OBVIOUS
  <2>1. i = 0
    OBVIOUS
  <2> QED
    BY <1>5, <2>1
<1>7. ASSUME NEW s \in 0 .. (m + l) - 1, s \in B PROVE s + 1 \in B
  <2>1. \A c \in 0 .. m, d \in 0 .. l : c + d <= s => Counted(c, d)
    BY <1>7
  <2> HIDE DEF Counted
  <2> SUFFICES ASSUME NEW i \in 0 .. m, NEW j \in 0 .. l, i + j <= s + 1, i # 0, j # 0
               PROVE  Counted(i, j)
    BY <1>5
  <2>2. /\ i \in 1 .. m /\ j \in 1 .. l /\ i - 1 \in 0 .. m /\ j - 1 \in 0 .. l
        /\ (i - 1) + j <= s /\ i + (j - 1) <= s /\ (i - 1) + (j - 1) <= s /\ i >= 1 /\ j >= 1
    BY ONLY i \in 0 .. m, j \in 0 .. l, i + j <= s + 1, i # 0, j # 0, m \in Nat, l \in Nat,
            s \in 0 .. (m + l) - 1
  <2>3. PICK W : W = Within(pairs, i, j)
    OBVIOUS
  <2>4. PICK c \in Nat, u \in Nat, v \in Nat, a \in Nat :
          /\ c = f[<<i, j>>] /\ u = f[<<i - 1, j>>] /\ v = f[<<i, j - 1>>]
          /\ a = f[<<i - 1, j - 1>>]
    BY <1>1, <2>2
  <2>5. c >= u /\ c >= v
    <3>1. GrowsAt(f, i, j)
      BY <1>1
    <3>2. (c = u \/ c = u + 1) /\ (c = v \/ c = v + 1)
      BY ONLY <2>2, <2>4, <3>1 DEF GrowsAt
    <3> QED
      BY ONLY <3>2, c \in Nat, u \in Nat, v \in Nat
  <2>6. /\ Cardinality(Within(pairs, i - 1, j)) <= u
        /\ Cardinality(Within(pairs, i, j - 1)) <= v
        /\ Cardinality(Within(pairs, i - 1, j - 1)) <= a
    BY ONLY <2>1, <2>2, <2>4 DEF Counted
  <2>7. /\ W \in SUBSET pairs /\ Within(pairs, i - 1, j) \in SUBSET pairs
        /\ Within(pairs, i, j - 1) \in SUBSET pairs /\ Within(pairs, i - 1, j - 1) \in SUBSET pairs
    BY <2>3 DEF Within
  <2>8. Cardinality(W) <= c
    <3>1. CASE <<i, j>> \in pairs
      <4>1. W = Within(pairs, i - 1, j - 1) \cup {<<i, j>>}
        <5>1. ASSUME NEW x \in W, x # <<i, j>> PROVE x \in Within(pairs, i - 1, j - 1)
          <6>1. x \in pairs /\ x[1] <= i /\ x[2] <= j
            BY <2>3, <5>1 DEF Within
          <6>2. x[1] # i
            BY <1>3, <3>1, <5>1, <6>1
          <6>3. x[1] \in 1 .. m /\ x[2] \in 1 .. l
            BY <1>2, <6>1
          <6>4. x[1] < i
            BY <6>1, <6>2, <6>3
          <6>5. x[2] < j
            BY <1>3, <3>1, <6>1, <6>4
          <6>6. x[1] <= i - 1 /\ x[2] <= j - 1
            BY ONLY <6>3, <6>4, <6>5, m \in Nat, l \in Nat, i \in 0 .. m, j \in 0 .. l
          <6> QED
            BY <6>1, <6>6 DEF Within
        <5>2. ASSUME NEW x \in Within(pairs, i - 1, j - 1) PROVE x \in W
          <6>1. x \in pairs /\ x[1] <= i - 1 /\ x[2] <= j - 1 /\ x[1] \in 1 .. m /\ x[2] \in 1 .. l
            BY <1>2 DEF Within
          <6>2. x[1] <= i /\ x[2] <= j
            BY ONLY <6>1, m \in Nat, l \in Nat, i \in 0 .. m, j \in 0 .. l
          <6> QED
            BY <2>3, <6>1, <6>2 DEF Within
        <5>3. <<i, j>> \in W
          BY <2>3, <3>1 DEF Within
        <5> QED
          BY <5>1, <5>2, <5>3
      <4>2. PICK V : V = Within(pairs, i - 1, j - 1)
        OBVIOUS
      <4>3. IsFiniteSet(V) /\ Cardinality(V) \in Nat
        BY <1>4, <2>7, <4>2
      <4>4. Cardinality(W) <= Cardinality(V) + 1
        <5>1. W = V \cup {<<i, j>>}
          BY <4>1, <4>2
        <5>2. Cardinality(V \cup {<<i, j>>})
                = IF <<i, j>> \in V THEN Cardinality(V) ELSE Cardinality(V) + 1
          BY ONLY <4>3, FS_AddElement
        <5> QED
          BY ONLY <4>3, <5>1, <5>2
      <4>5. p[i] = q[j]
        BY <1>2, <3>1
      <4>6. c = a + 1
        BY <2>2, <2>4, <4>5 DEF Counting
      <4>7. Cardinality(V) <= a /\ Cardinality(W) \in Nat
        BY <1>4, <2>6, <2>7, <4>2
      <4> QED
        BY ONLY <4>3, <4>4, <4>6, <4>7, a \in Nat
    <3>2. CASE <<i, j>> \notin pairs
      <4>1. (\A x \in W : x[1] # i) \/ (\A x \in W : x[2] # j)
        <5> SUFFICES ASSUME NEW x \in W, NEW y \in W, x[1] = i, y[2] = j
                     PROVE  FALSE
          OBVIOUS
        <5>1. /\ x \in pairs /\ y \in pairs /\ x[2] <= j /\ y[1] <= i
              /\ x = <<x[1], x[2]>> /\ y = <<y[1], y[2]>>
              /\ x[2] \in 1 .. l /\ y[1] \in 1 .. m
          BY <1>2, <2>3 DEF Within
        <5>2. x[2] # j /\ y[1] # i
          BY <3>2, <5>1
        <5>3. y[1] < x[1] /\ x[2] < y[2]
          BY ONLY <5>1, <5>2, x[1] = i, y[2] = j, m \in Nat, l \in Nat, i \in 0 .. m, j \in 0 .. l
        <5>4. y[2] < x[2]
          BY <1>3, <5>1, <5>3
        <5> QED
          BY ONLY <5>1, <5>3, <5>4, y[2] = j, j \in 0 .. l, l \in Nat
      <4>2. CASE \A x \in W : x[1] # i
        <5>1. W = Within(pairs, i - 1, j)
          <6>1. \A x \in pairs : x[1] <= i - 1 => x[1] <= i
            BY <1>2
          <6>2. \A x \in W : x \in pairs /\ x[1] <= i - 1 /\ x[2] <= j
            BY <1>2, <2>3, <4>2 DEF Within
          <6> QED
            BY <2>3, <6>1, <6>2 DEF Within
        <5> QED
          BY ONLY <1>4, <2>5, <2>6, <2>7, <5>1, c \in Nat, u \in Nat
      <4>3. CASE \A x \in W : x[2] # j
        <5>1. W = Within(pairs, i, j - 1)
          <6>1. \A x \in pairs : x[2] <= j - 1 => x[2] <= j
            BY <1>2
          <6>2. \A x \in W : x \in pairs /\ x[1] <= i /\ x[2] <= j - 1
            BY <1>2, <2>3, <4>3 DEF Within
          <6> QED
            BY <2>3, <6>1, <6>2 DEF Within
        <5> QED
          BY ONLY <1>4, <2>5, <2>6, <2>7, <5>1, c \in Nat, v \in Nat
      <4> QED
        BY <4>1, <4>2, <4>3
    <3> QED
      BY <3>1, <3>2
  <2> QED
    BY ONLY <2>3, <2>4, <2>8 DEF Counted
<1>8. m + l \in B
  <2> HIDE DEF B
  <2>1. m + l \in Nat
    OBVIOUS
  <2>2. \A s \in 0 .. m + l : s \in B
    BY ONLY <2>1, <1>6, <1>7, CountingUp
  <2> QED
    BY <2>1, <2>2
<1>9. \A i \in 0 .. m, j \in 0 .. l : i + j <= m + l
  OBVIOUS
<1> QED
  BY <1>8, <1>9

(* The same for backward and what comes after a place. *)
LEMMA BeyondIsCounted ==
  ASSUME NEW p, NEW q, NEW f, NEW m \in Nat, NEW l \in Nat, Len(p) = m, Len(q) = l,
         CountingBack(p, q, f), NEW pairs, Matching(pairs, p, q)
  PROVE  \A i \in 0 .. m, j \in 0 .. l : Cardinality(Beyond(pairs, i, j)) <= f[<<i, j>>]
<1>1. \A i \in 0 .. m, j \in 0 .. l : f[<<i, j>>] \in Nat /\ FallsAt(f, m, l, i, j)
  BY BackwardFalls DEF CountingBack
<1>2. \A x \in pairs : /\ x = <<x[1], x[2]>> /\ x[1] \in 1 .. m /\ x[2] \in 1 .. l
                       /\ p[x[1]] = q[x[2]]
  BY DEF Matching
<1>3. /\ \A x, y \in pairs : x[1] < y[1] => x[2] < y[2]
      /\ \A x, y \in pairs : x # y => x[1] # y[1]
  BY DEF Matching
<1>4. \A S \in SUBSET pairs : IsFiniteSet(S) /\ Cardinality(S) \in Nat
  BY MatchingIsFinite
<1> DEFINE Counted(i, j) == Cardinality(Beyond(pairs, i, j)) <= f[<<i, j>>]
           B == {s \in 0 .. m + l : \A i \in 0 .. m, j \in 0 .. l :
                                     (m - i) + (l - j) <= s => Counted(i, j)}
<1>5. ASSUME NEW i \in 0 .. m, NEW j \in 0 .. l, i = m \/ j = l PROVE Counted(i, j)
  <2>1. Beyond(pairs, i, j) = {}
    BY <1>2, <1>5 DEF Beyond
  <2>2. f[<<i, j>>] \in Nat
    BY <1>1
  <2> QED
    BY <2>1, <2>2, FS_EmptySet
<1>6. 0 \in B
  <2> SUFFICES ASSUME NEW i \in 0 .. m, NEW j \in 0 .. l, (m - i) + (l - j) <= 0 PROVE Counted(i, j)
    OBVIOUS
  <2>1. i = m
    OBVIOUS
  <2> QED
    BY <1>5, <2>1
<1>7. ASSUME NEW s \in 0 .. (m + l) - 1, s \in B PROVE s + 1 \in B
  <2>1. \A c \in 0 .. m, d \in 0 .. l : (m - c) + (l - d) <= s => Counted(c, d)
    BY <1>7
  <2> HIDE DEF Counted
  <2> SUFFICES ASSUME NEW i \in 0 .. m, NEW j \in 0 .. l, (m - i) + (l - j) <= s + 1, i # m, j # l
               PROVE  Counted(i, j)
    BY <1>5
  <2>2. /\ i \in 0 .. m - 1 /\ j \in 0 .. l - 1 /\ i + 1 \in 0 .. m /\ j + 1 \in 0 .. l
        /\ (m - (i + 1)) + (l - j) <= s /\ (m - i) + (l - (j + 1)) <= s
        /\ (m - (i + 1)) + (l - (j + 1)) <= s /\ i < m /\ j < l
    BY ONLY i \in 0 .. m, j \in 0 .. l, (m - i) + (l - j) <= s + 1, i # m, j # l,
            m \in Nat, l \in Nat,
            s \in 0 .. (m + l) - 1
  <2>3. PICK W : W = Beyond(pairs, i, j)
    OBVIOUS
  <2>4. PICK c \in Nat, u \in Nat, v \in Nat, a \in Nat :
          /\ c = f[<<i, j>>] /\ u = f[<<i + 1, j>>] /\ v = f[<<i, j + 1>>]
          /\ a = f[<<i + 1, j + 1>>]
    BY <1>1, <2>2
  <2>5. c >= u /\ c >= v
    <3>1. FallsAt(f, m, l, i, j)
      BY <1>1
    <3>2. (c = u \/ c = u + 1) /\ (c = v \/ c = v + 1)
      BY ONLY <2>2, <2>4, <3>1 DEF FallsAt
    <3> QED
      BY ONLY <3>2, c \in Nat, u \in Nat, v \in Nat
  <2>6. /\ Cardinality(Beyond(pairs, i + 1, j)) <= u
        /\ Cardinality(Beyond(pairs, i, j + 1)) <= v
        /\ Cardinality(Beyond(pairs, i + 1, j + 1)) <= a
    BY ONLY <2>1, <2>2, <2>4 DEF Counted
  <2>7. /\ W \in SUBSET pairs /\ Beyond(pairs, i + 1, j) \in SUBSET pairs
        /\ Beyond(pairs, i, j + 1) \in SUBSET pairs /\ Beyond(pairs, i + 1, j + 1) \in SUBSET pairs
    BY <2>3 DEF Beyond
  <2>8. Cardinality(W) <= c
    <3>1. CASE <<i + 1, j + 1>> \in pairs
      <4>1. W = Beyond(pairs, i + 1, j + 1) \cup {<<i + 1, j + 1>>}
        <5>1. ASSUME NEW x \in W, x # <<i + 1, j + 1>> PROVE x \in Beyond(pairs, i + 1, j + 1)
          <6>1. x \in pairs /\ x[1] > i /\ x[2] > j
            BY <2>3, <5>1 DEF Beyond
          <6>2. x[1] # i + 1
            BY <1>3, <3>1, <5>1, <6>1
          <6>3. x[1] \in 1 .. m /\ x[2] \in 1 .. l
            BY <1>2, <6>1
          <6>4. x[1] > i + 1
            BY <6>1, <6>2, <6>3
          <6>5. x[2] > j + 1
            BY <1>3, <3>1, <6>1, <6>4
          <6>6. x[1] > i + 1 /\ x[2] > j + 1
            BY ONLY <6>3, <6>4, <6>5, m \in Nat, l \in Nat, i \in 0 .. m, j \in 0 .. l
          <6> QED
            BY <6>1, <6>6 DEF Beyond
        <5>2. ASSUME NEW x \in Beyond(pairs, i + 1, j + 1) PROVE x \in W
          <6>1. x \in pairs /\ x[1] > i + 1 /\ x[2] > j + 1 /\ x[1] \in 1 .. m /\ x[2] \in 1 .. l
            BY <1>2 DEF Beyond
          <6>2. x[1] > i /\ x[2] > j
            BY ONLY <6>1, m \in Nat, l \in Nat, i \in 0 .. m, j \in 0 .. l
          <6> QED
            BY <2>3, <6>1, <6>2 DEF Beyond
        <5>3. <<i + 1, j + 1>> \in W
          BY <2>3, <3>1 DEF Beyond
        <5> QED
          BY <5>1, <5>2, <5>3
      <4>2. PICK V : V = Beyond(pairs, i + 1, j + 1)
        OBVIOUS
      <4>3. IsFiniteSet(V) /\ Cardinality(V) \in Nat
        BY <1>4, <2>7, <4>2
      <4>4. Cardinality(W) <= Cardinality(V) + 1
        <5>1. W = V \cup {<<i + 1, j + 1>>}
          BY <4>1, <4>2
        <5>2. Cardinality(V \cup {<<i + 1, j + 1>>})
                = IF <<i + 1, j + 1>> \in V THEN Cardinality(V) ELSE Cardinality(V) + 1
          BY ONLY <4>3, FS_AddElement
        <5> QED
          BY ONLY <4>3, <5>1, <5>2
      <4>5. p[i + 1] = q[j + 1]
        BY <1>2, <3>1
      <4>6. c = a + 1
        BY <2>2, <2>4, <4>5 DEF CountingBack
      <4>7. Cardinality(V) <= a /\ Cardinality(W) \in Nat
        BY <1>4, <2>6, <2>7, <4>2
      <4> QED
        BY ONLY <4>3, <4>4, <4>6, <4>7, a \in Nat
    <3>2. CASE <<i + 1, j + 1>> \notin pairs
      <4>1. (\A x \in W : x[1] # i + 1) \/ (\A x \in W : x[2] # j + 1)
        <5> SUFFICES ASSUME NEW x \in W, NEW y \in W, x[1] = i + 1, y[2] = j + 1
                     PROVE  FALSE
          OBVIOUS
        <5>1. /\ x \in pairs /\ y \in pairs /\ x[2] > j /\ y[1] > i
              /\ x = <<x[1], x[2]>> /\ y = <<y[1], y[2]>>
              /\ x[2] \in 1 .. l /\ y[1] \in 1 .. m
          BY <1>2, <2>3 DEF Beyond
        <5>2. x[2] # j + 1 /\ y[1] # i + 1
          BY <3>2, <5>1
        <5>3. x[1] < y[1] /\ y[2] < x[2]
          BY ONLY <5>1, <5>2, x[1] = i + 1, y[2] = j + 1, m \in Nat, l \in Nat,
                  i \in 0 .. m, j \in 0 .. l
        <5>4. x[2] < y[2]
          BY <1>3, <5>1, <5>3
        <5> QED
          BY ONLY <5>1, <5>3, <5>4, y[2] = j + 1, j \in 0 .. l, l \in Nat
      <4>2. CASE \A x \in W : x[1] # i + 1
        <5>1. W = Beyond(pairs, i + 1, j)
          <6>1. ASSUME NEW x \in pairs, x[1] > i + 1 PROVE x[1] > i
            <7>1. x[1] \in 1 .. m
              BY <1>2
            <7> QED
              BY ONLY <6>1, <7>1, i \in 0 .. m, m \in Nat
          <6>2. ASSUME NEW x \in W PROVE x \in pairs /\ x[1] > i + 1 /\ x[2] > j
            <7>1. x \in pairs /\ x[1] > i /\ x[2] > j /\ x[1] # i + 1
              BY <2>3, <4>2 DEF Beyond
            <7>2. x[1] \in 1 .. m
              BY <1>2, <7>1
            <7> QED
              BY ONLY <7>1, <7>2, m \in Nat, i \in 0 .. m
          <6> QED
            BY <2>3, <6>1, <6>2 DEF Beyond
        <5> QED
          BY ONLY <1>4, <2>5, <2>6, <2>7, <5>1, c \in Nat, u \in Nat
      <4>3. CASE \A x \in W : x[2] # j + 1
        <5>1. W = Beyond(pairs, i, j + 1)
          <6>1. ASSUME NEW x \in pairs, x[2] > j + 1 PROVE x[2] > j
            <7>1. x[2] \in 1 .. l
              BY <1>2
            <7> QED
              BY ONLY <6>1, <7>1, j \in 0 .. l, l \in Nat
          <6>2. ASSUME NEW x \in W PROVE x \in pairs /\ x[1] > i /\ x[2] > j + 1
            <7>1. x \in pairs /\ x[1] > i /\ x[2] > j /\ x[2] # j + 1
              BY <2>3, <4>3 DEF Beyond
            <7>2. x[2] \in 1 .. l
              BY <1>2, <7>1
            <7> QED
              BY ONLY <7>1, <7>2, l \in Nat, j \in 0 .. l
          <6> QED
            BY <2>3, <6>1, <6>2 DEF Beyond
        <5> QED
          BY ONLY <1>4, <2>5, <2>6, <2>7, <5>1, c \in Nat, v \in Nat
      <4> QED
        BY <4>1, <4>2, <4>3
    <3> QED
      BY <3>1, <3>2
  <2> QED
    BY ONLY <2>3, <2>4, <2>8 DEF Counted
<1>8. m + l \in B
  <2> HIDE DEF B
  <2>1. m + l \in Nat
    OBVIOUS
  <2>2. \A s \in 0 .. m + l : s \in B
    BY ONLY <2>1, <1>6, <1>7, CountingUp
  <2> QED
    BY <2>1, <2>2
<1>9. \A i \in 0 .. m, j \in 0 .. l : (m - i) + (l - j) <= m + l
  OBVIOUS
<1> QED
  BY <1>8, <1>9

(* A matching with as many pairs as the table counts has aligned pairs. *)
LEMMA MatchingsAreAligned ==
  ASSUME NEW p, NEW q, Sequence(p), Sequence(q), NEW pairs, Matching(pairs, p, q)
  PROVE  LET size == forward(p, q)[<<Len(p), Len(q)>>] IN
         /\ size \in Nat /\ IsFiniteSet(pairs) /\ Cardinality(pairs) <= size
         /\ Cardinality(pairs) = size => pairs \subseteq AlignedPairs(p, q)
<1>1. PICK m \in Nat, l \in Nat : m = Len(p) /\ l = Len(q)
  BY SequenceShape
<1>2. PICK f, b : f = forward(p, q) /\ b = backward(p, q)
  OBVIOUS
<1>3. Counting(p, q, f) /\ CountingBack(p, q, b)
  BY <1>2, ForwardCounts, BackwardCounts
<1>4. m \in 0 .. m /\ l \in 0 .. l
  OBVIOUS
<1>5. PICK size \in Nat : size = f[<<m, l>>]
  BY <1>1, <1>3, <1>4 DEF Counting
<1>6. \A S \in SUBSET pairs : IsFiniteSet(S) /\ Cardinality(S) \in Nat
  BY <1>1, MatchingIsFinite
<1>7. \A x \in pairs : /\ x = <<x[1], x[2]>> /\ x[1] \in 1 .. m /\ x[2] \in 1 .. l
                       /\ p[x[1]] = q[x[2]] /\ x \in (1 .. m) \X (1 .. l)
  BY <1>1 DEF Matching
<1>8. Cardinality(pairs) <= size
  <2>1. Within(pairs, m, l) = pairs
    BY <1>7 DEF Within
  <2>2. Cardinality(Within(pairs, m, l)) <= f[<<m, l>>]
    BY <1>1, <1>3, <1>4, WithinIsCounted
  <2> QED
    BY <1>5, <2>1, <2>2
<1>9. ASSUME Cardinality(pairs) = size, NEW x \in pairs PROVE x \in AlignedPairs(p, q)
  <2>1. PICK i, j : i = x[1] /\ j = x[2]
    OBVIOUS
  <2>2. i \in 1 .. m /\ j \in 1 .. l /\ x = <<i, j>>
    BY <1>7, <2>1
  <2>3. i - 1 \in 0 .. m /\ j - 1 \in 0 .. l /\ i \in 0 .. m /\ j \in 0 .. l
    BY <2>2
  <2>4. PICK low, high : low = Within(pairs, i - 1, j - 1) /\ high = Beyond(pairs, i, j)
    OBVIOUS
  <2>5. low \in SUBSET pairs /\ high \in SUBSET pairs
    BY <2>4 DEF Within, Beyond
  <2>6. pairs = low \cup {x} \cup high
    <3>1. ASSUME NEW y \in pairs, y # x PROVE y \in low \cup high
      <4>1. y[1] # i /\ y[1] \in 1 .. m /\ y[2] \in 1 .. l
        BY <1>7, <2>1, <3>1 DEF Matching
      <4>2. CASE y[1] < i
        <5>1. y[2] < j
          BY <2>1, <4>2 DEF Matching
        <5>2. y[1] <= i - 1 /\ y[2] <= j - 1
          BY ONLY <2>2, <4>1, <4>2, <5>1, m \in Nat, l \in Nat
        <5> QED
          BY <2>4, <5>2 DEF Within
      <4>3. CASE y[1] > i
        <5>1. i < y[1]
          BY ONLY <2>2, <4>1, <4>3, m \in Nat
        <5>2. j < y[2]
          BY <2>1, <5>1 DEF Matching
        <5>3. y[2] > j
          BY ONLY <2>2, <4>1, <5>2, l \in Nat
        <5> QED
          BY <2>4, <4>3, <5>3 DEF Beyond
      <4>4. y[1] < i \/ y[1] > i
        BY ONLY <2>2, <4>1, m \in Nat
      <4> QED
        BY <4>2, <4>3, <4>4
    <3> QED
      BY <2>5, <3>1
  <2>7. Cardinality(pairs) <= Cardinality(low) + 1 + Cardinality(high)
    <3>1. /\ IsFiniteSet(low) /\ IsFiniteSet(high)
          /\ Cardinality(low) \in Nat /\ Cardinality(high) \in Nat
      BY <1>6, <2>5
    <3>2. PICK S : S = low \cup {x}
      OBVIOUS
    <3>3. IsFiniteSet(S) /\ Cardinality(S) <= Cardinality(low) + 1 /\ Cardinality(S) \in Nat
      <4>1. IsFiniteSet(low \cup {x})
            /\ Cardinality(low \cup {x}) = IF x \in low THEN Cardinality(low)
                                           ELSE Cardinality(low) + 1
        BY ONLY <3>1, FS_AddElement
      <4> QED
        BY ONLY <3>1, <3>2, <4>1
    <3>4. Cardinality(S \cup high) = Cardinality(S) + Cardinality(high) - Cardinality(S \cap high)
          /\ IsFiniteSet(S \cap high)
      BY ONLY <3>1, <3>3, FS_Union, FS_Intersection
    <3>5. Cardinality(S \cap high) \in Nat
      BY ONLY <3>4, FS_CardinalityType
    <3>6. pairs = S \cup high
      BY ONLY <2>6, <3>2
    <3> QED
      BY ONLY <3>1, <3>3, <3>4, <3>5, <3>6
  <2>8. PICK a \in Nat, d \in Nat : a = f[<<i - 1, j - 1>>] /\ d = b[<<i, j>>]
    BY <1>1, <1>3, <2>3 DEF Counting, CountingBack
  <2>9. Cardinality(low) <= a
    BY <1>1, <1>3, <2>3, <2>4, <2>8, WithinIsCounted
  <2>10. Cardinality(high) <= d
    BY <1>1, <1>3, <2>3, <2>4, <2>8, BeyondIsCounted
  <2>11. a + 1 + d <= size
    <3>1. f[<<i, j>>] + b[<<i, j>>] <= f[<<m, l>>]
      BY <1>1, <1>3, <2>3, ThroughAPlace
    <3>2. p[i] = q[j]
      BY <1>7, <2>1
    <3>3. f[<<i, j>>] = a + 1
      BY <1>1, <1>3, <2>2, <2>8, <3>2 DEF Counting
    <3> QED
      BY ONLY <1>5, <2>8, <3>1, <3>3
  <2>12. a + 1 + d = size
    <3>1. Cardinality(low) \in Nat /\ Cardinality(high) \in Nat
      BY <1>6, <2>5
    <3> QED
      BY ONLY <1>9, <2>7, <2>9, <2>10, <2>11, <3>1, a \in Nat, d \in Nat, size \in Nat
  <2>13. /\ x \in (1 .. Len(p)) \X (1 .. Len(q)) /\ p[x[1]] = q[x[2]]
         /\ f[<<x[1] - 1, x[2] - 1>>] + 1 + b[x] = f[<<Len(p), Len(q)>>]
    BY <1>1, <1>5, <1>7, <2>1, <2>2, <2>8, <2>12
  <2> QED
    BY <1>2, <2>13 DEF AlignedPairs
<1> QED
  BY <1>1, <1>2, <1>5, <1>6, <1>8, <1>9

-----------------------------------------------------------------------------
(* Two sequences that are in order in a third. *)
Increasing(e, m, n) == e \in [1 .. m -> 1 .. n] /\ \A i, j \in 1 .. m : i < j => e[i] < e[j]

Placed(p, q, w, e, g) ==
  /\ Increasing(e, Len(p), Len(w)) /\ \A i \in 1 .. Len(p) : w[e[i]] = p[i]
  /\ Increasing(g, Len(q), Len(w)) /\ \A j \in 1 .. Len(q) : w[g[j]] = q[j]

(* The pairs that are in one place, and that every place has one of them.  *)
Common(e, g, m, l) == {x \in (1 .. m) \X (1 .. l) : e[x[1]] = g[x[2]]}
Covers(e, g, m, l, n) ==
  \A k \in 1 .. n : (\E i \in 1 .. m : e[i] = k) \/ (\E j \in 1 .. l : g[j] = k)

LEMMA PlacesOf ==
  ASSUME NEW p, NEW q, NEW w, Sequence(p), Sequence(q), Sequence(w),
         InOrder(p, w), InOrder(q, w)
  PROVE  \E e, g : Placed(p, q, w, e, g)
<1>1. DOMAIN p = 1 .. Len(p) /\ DOMAIN q = 1 .. Len(q) /\ DOMAIN w = 1 .. Len(w)
  BY SequenceShape
<1>2. PICK e \in [1 .. Len(p) -> 1 .. Len(w)] :
        /\ \A i, j \in 1 .. Len(p) : i < j => e[i] < e[j]
        /\ \A i \in 1 .. Len(p) : w[e[i]] = p[i]
  BY <1>1 DEF InOrder
<1>3. PICK g \in [1 .. Len(q) -> 1 .. Len(w)] :
        /\ \A i, j \in 1 .. Len(q) : i < j => g[i] < g[j]
        /\ \A i \in 1 .. Len(q) : w[g[i]] = q[i]
  BY <1>1 DEF InOrder
<1>4. Placed(p, q, w, e, g)
  BY ONLY <1>2, <1>3, e \in [1 .. Len(p) -> 1 .. Len(w)], g \in [1 .. Len(q) -> 1 .. Len(w)]
     DEF Placed, Increasing
<1> QED
  BY <1>4

(* An increasing function has as many values as places. *)
Values(e, m) == {e[i] : i \in 1 .. m}

LEMMA IncreasingCounts ==
  ASSUME NEW m \in Nat, NEW n \in Nat, NEW e, Increasing(e, m, n)
  PROVE  /\ \A i, j \in 1 .. m : e[i] = e[j] => i = j
         /\ \A i, j \in 1 .. m : i <= j => e[i] <= e[j]
         /\ Values(e, m) \subseteq 1 .. n
         /\ IsFiniteSet(Values(e, m)) /\ Cardinality(Values(e, m)) = m
<1>1. e \in [1 .. m -> 1 .. n] /\ \A i, j \in 1 .. m : i < j => e[i] < e[j]
  BY DEF Increasing
<1>2. \A i \in 1 .. m : e[i] \in 1 .. n
  BY <1>1
<1>3. ASSUME NEW i \in 1 .. m, NEW j \in 1 .. m PROVE e[i] = e[j] => i = j
  <2>1. e[i] \in Int /\ e[j] \in Int
    BY <1>2
  <2>2. i < j \/ j < i \/ i = j
    OBVIOUS
  <2>3. (i < j => e[i] < e[j]) /\ (j < i => e[j] < e[i])
    BY <1>1
  <2> QED
    BY ONLY <2>1, <2>2, <2>3
<1>4. ASSUME NEW i \in 1 .. m, NEW j \in 1 .. m, i <= j PROVE e[i] <= e[j]
  <2>1. e[i] \in Int /\ e[j] \in Int
    BY <1>2
  <2>2. i < j \/ i = j
    BY <1>4
  <2>3. i < j => e[i] < e[j]
    BY <1>1
  <2> QED
    BY ONLY <2>1, <2>2, <2>3
<1>5. PICK A : A = Values(e, m)
  OBVIOUS
<1>6. A \subseteq 1 .. n
  BY <1>2, <1>5 DEF Values
<1>7. e \in Bijection(1 .. m, A)
  <2>1. e \in [1 .. m -> A] /\ \A t \in A : \E i \in 1 .. m : e[i] = t
    BY <1>1, <1>5 DEF Values
  <2> QED
    BY <1>3, <2>1 DEF Bijection, Injection, Surjection, IsInjective
<1>8. IsFiniteSet(1 .. m) /\ Cardinality(1 .. m) = m
  BY FS_Interval
<1>9. IsFiniteSet(A) /\ Cardinality(A) = m
  <2>1. ExistsBijection(1 .. m, A)
    BY <1>7 DEF ExistsBijection
  <2> QED
    BY <1>8, <2>1, FS_Bijection
<1> QED
  BY <1>3, <1>4, <1>5, <1>6, <1>9

(* What is in one place counts once. *)
LEMMA CommonCounts ==
  ASSUME NEW m \in Nat, NEW l \in Nat, NEW n \in Nat, NEW e, NEW g,
         Increasing(e, m, n), Increasing(g, l, n)
  PROVE  LET N == Common(e, g, m, l) IN
         /\ IsFiniteSet(N) /\ Cardinality(N) \in Nat /\ m + l - Cardinality(N) <= n
         /\ m + l - Cardinality(N) = n => Covers(e, g, m, l, n)
<1>1. PICK A, C : A = Values(e, m) /\ C = Values(g, l)
  OBVIOUS
<1>2. /\ A \subseteq 1 .. n /\ IsFiniteSet(A) /\ Cardinality(A) = m
      /\ C \subseteq 1 .. n /\ IsFiniteSet(C) /\ Cardinality(C) = l
      /\ \A i, j \in 1 .. m : e[i] = e[j] => i = j
      /\ \A i, j \in 1 .. l : g[i] = g[j] => i = j
  BY <1>1, IncreasingCounts
<1>3. PICK N : N = Common(e, g, m, l)
  OBVIOUS
<1>4. IsFiniteSet(N)
  <2>1. IsFiniteSet(1 .. m) /\ IsFiniteSet(1 .. l)
    BY FS_Interval
  <2>2. IsFiniteSet((1 .. m) \X (1 .. l))
    BY <2>1, FS_Product
  <2>3. N \in SUBSET ((1 .. m) \X (1 .. l))
    BY <1>3 DEF Common
  <2> QED
    BY <2>2, <2>3, FS_Subset
<1>5. Cardinality(A \cap C) = Cardinality(N)
  <2> DEFINE h == [x \in N |-> e[x[1]]]
  <2>1. \A x \in N : /\ x[1] \in 1 .. m /\ x[2] \in 1 .. l /\ x = <<x[1], x[2]>>
                     /\ e[x[1]] = g[x[2]]
    BY <1>3 DEF Common
  <2>2. \A x \in N : h[x] \in A \cap C
    BY <1>1, <2>1 DEF Values
  <2>3. \A x, y \in N : h[x] = h[y] => x = y
    <3> SUFFICES ASSUME NEW x \in N, NEW y \in N, h[x] = h[y] PROVE x = y
      OBVIOUS
    <3>1. e[x[1]] = e[y[1]] /\ g[x[2]] = g[y[2]]
      BY <2>1
    <3>2. x[1] = y[1] /\ x[2] = y[2]
      BY <1>2, <2>1, <3>1
    <3> QED
      BY <2>1, <3>2
  <2>4. ASSUME NEW t \in A \cap C PROVE \E x \in N : h[x] = t
    <3>1. PICK i \in 1 .. m, j \in 1 .. l : t = e[i] /\ t = g[j]
      BY <1>1 DEF Values
    <3>2. <<i, j>> \in N
      BY <1>3, <3>1 DEF Common
    <3> QED
      BY <3>1, <3>2
  <2>5. h \in [N -> A \cap C]
    BY <2>2
  <2> HIDE DEF h
  <2>6. h \in Bijection(N, A \cap C)
    BY <2>3, <2>4, <2>5 DEF Bijection, Injection, Surjection, IsInjective
  <2>7. ExistsBijection(N, A \cap C)
    BY <2>6 DEF ExistsBijection
  <2> QED
    BY <1>4, <2>7, FS_Bijection
<1>6. Cardinality(N) \in Nat
  BY <1>4, FS_CardinalityType
<1>7. IsFiniteSet(A \cup C) /\ Cardinality(A \cup C) = m + l - Cardinality(N)
  BY <1>2, <1>5, FS_Union
<1>8. IsFiniteSet(1 .. n) /\ Cardinality(1 .. n) = n /\ A \cup C \in SUBSET (1 .. n)
  BY <1>2, FS_Interval
<1>9. m + l - Cardinality(N) <= n
  BY <1>7, <1>8, FS_Subset
<1>10. ASSUME m + l - Cardinality(N) = n PROVE Covers(e, g, m, l, n)
  <2>1. A \cup C = 1 .. n
    BY <1>7, <1>8, <1>10, FS_Subset
  <2> QED
    BY <1>1, <2>1 DEF Covers, Values
<1> QED
  BY <1>3, <1>4, <1>6, <1>9, <1>10

LEMMA CommonIsMatching ==
  ASSUME NEW p, NEW q, NEW w, Len(p) \in Nat, Len(q) \in Nat, Len(w) \in Nat,
         NEW e, NEW g, Placed(p, q, w, e, g)
  PROVE  Matching(Common(e, g, Len(p), Len(q)), p, q)
<1>1. PICK m \in Nat, l \in Nat, n \in Nat : m = Len(p) /\ l = Len(q) /\ n = Len(w)
  OBVIOUS
<1>2. PICK N : N = Common(e, g, m, l)
  OBVIOUS
<1>3. /\ Increasing(e, m, n) /\ \A i \in 1 .. m : w[e[i]] = p[i]
      /\ Increasing(g, l, n) /\ \A j \in 1 .. l : w[g[j]] = q[j]
  BY <1>1 DEF Placed
<1>4. \A x \in N : /\ x[1] \in 1 .. m /\ x[2] \in 1 .. l /\ x = <<x[1], x[2]>>
                   /\ e[x[1]] = g[x[2]]
  BY <1>2 DEF Common
<1>5. /\ e \in [1 .. m -> 1 .. n] /\ \A i, j \in 1 .. m : i < j => e[i] < e[j]
      /\ g \in [1 .. l -> 1 .. n]
      /\ \A i, j \in 1 .. m : e[i] = e[j] => i = j
      /\ \A i, j \in 1 .. l : i <= j => g[i] <= g[j]
      /\ \A i, j \in 1 .. l : g[i] = g[j] => i = j
  <2>1. /\ e \in [1 .. m -> 1 .. n] /\ \A i, j \in 1 .. m : i < j => e[i] < e[j]
        /\ g \in [1 .. l -> 1 .. n]
    BY <1>3 DEF Increasing
  <2>2. /\ \A i, j \in 1 .. m : e[i] = e[j] => i = j
        /\ \A i, j \in 1 .. l : i <= j => g[i] <= g[j]
        /\ \A i, j \in 1 .. l : g[i] = g[j] => i = j
    BY <1>3, IncreasingCounts
  <2> QED
    BY <2>1, <2>2
<1>6. \A x \in N : p[x[1]] = q[x[2]]
  BY <1>3, <1>4
<1>7. ASSUME NEW x \in N, NEW y \in N, x[1] < y[1] PROVE x[2] < y[2]
  <2>1. e[x[1]] < e[y[1]] /\ e[x[1]] \in 1 .. n /\ e[y[1]] \in 1 .. n
    BY <1>4, <1>5, <1>7
  <2>2. g[x[2]] < g[y[2]] /\ g[x[2]] \in 1 .. n /\ g[y[2]] \in 1 .. n
    BY <1>4, <2>1
  <2>3. x[2] \in 1 .. l /\ y[2] \in 1 .. l
    BY <1>4
  <2>4. y[2] <= x[2] => g[y[2]] <= g[x[2]]
    BY <1>5, <2>3
  <2> QED
    BY ONLY <2>2, <2>3, <2>4, l \in Nat, n \in Nat
<1>8. ASSUME NEW x \in N, NEW y \in N, x[1] = y[1] PROVE x = y
  <2>1. g[x[2]] = g[y[2]]
    BY <1>4, <1>8
  <2>2. x[2] = y[2]
    BY <1>4, <1>5, <2>1
  <2> QED
    BY <1>4, <1>8, <2>2
<1>9. N \subseteq (1 .. m) \X (1 .. l)
  BY <1>2 DEF Common
<1>10. Matching(N, p, q)
  BY <1>1, <1>6, <1>7, <1>8, <1>9 DEF Matching
<1> QED
  BY <1>1, <1>2, <1>10

(* Where both have no messages of their own between two pairs, some pair   *)
(* tells which of two messages comes first.                                *)
Told(pairs, m, l) ==
  \A i \in 1 .. m, j \in 1 .. l :
    \E x \in pairs : (x[1] <= i /\ j <= x[2]) \/ (i <= x[1] /\ x[2] <= j)

LEMMA PairsTell ==
  ASSUME NEW p, NEW q, NEW m \in Nat, NEW l \in Nat, Len(p) = m, Len(q) = l,
         Matching(AlignedPairs(p, q), p, q), Orderable(p, q)
  PROVE  Told(AlignedPairs(p, q), m, l)
<1>1. PICK M : M = AlignedPairs(p, q)
  OBVIOUS
<1>2. PICK e : e = <<m + 1, l + 1>>
  OBVIOUS
<1>3. \A x \in M \cup {e} : x[1] = PairBefore(M, x)[1] + 1 \/ x[2] = PairBefore(M, x)[2] + 1
  <2>1. \A x \in AlignedPairs(p, q) \cup {<<Len(p) + 1, Len(q) + 1>>} :
          \/ x[1] = PairBefore(AlignedPairs(p, q), x)[1] + 1
          \/ x[2] = PairBefore(AlignedPairs(p, q), x)[2] + 1
    BY DEF Orderable
  <2> QED
    BY <1>1, <1>2, <2>1
<1>4. /\ \A x \in M : x[1] \in 1 .. m /\ x[2] \in 1 .. l
      /\ \A x, y \in M : x[1] < y[1] => x[2] < y[2]
      /\ M \in SUBSET ((1 .. m) \X (1 .. l))
  BY <1>1 DEF Matching
<1> SUFFICES ASSUME NEW i \in 1 .. m, NEW j \in 1 .. l,
                    \A x \in M : ~((x[1] <= i /\ j <= x[2]) \/ (i <= x[1] /\ x[2] <= j))
             PROVE  FALSE
  BY <1>1 DEF Told
<1>5. ASSUME NEW x \in M PROVE (x[1] < i /\ x[2] < j) \/ (x[1] > i /\ x[2] > j)
  <2>1. ~((x[1] <= i /\ j <= x[2]) \/ (i <= x[1] /\ x[2] <= j))
    OBVIOUS
  <2>2. x[1] \in 1 .. m /\ x[2] \in 1 .. l
    BY <1>4
  <2> QED
    BY ONLY <2>1, <2>2, m \in Nat, l \in Nat, i \in 1 .. m, j \in 1 .. l
<1> DEFINE A == {x[1] : x \in {y \in M \cup {e} : y[1] > i}}
<1>6. e[1] = m + 1 /\ e[2] = l + 1 /\ e[1] > i /\ e[2] > j
  BY <1>2
<1>7. \A x \in M \cup {e} : x[1] \in Nat /\ x[2] \in Nat
  BY <1>4, <1>6
<1>8. PICK a \in A : \A b \in A : a <= b
  <2>1. A \in SUBSET Nat
    BY <1>7
  <2>2. e[1] \in A
    BY <1>6
  <2> HIDE DEF A
  <2> QED
    BY <2>1, <2>2, LeastMember
<1>9. PICK x \in M \cup {e} : x[1] > i /\ x[1] = a
  BY <1>8
<1>10. \A y \in M : y[1] > i => x[1] <= y[1]
  BY <1>8, <1>9
<1>11. x[2] > j
  <2>1. CASE x \in M
    <3>1. x[1] \in 1 .. m
      BY <1>4, <2>1
    <3>2. ~(x[1] < i)
      BY ONLY <1>9, <3>1, i \in 1 .. m, m \in Nat
    <3> QED
      BY <1>5, <2>1, <3>2
  <2>2. CASE x = e
    BY <1>6, <2>2
  <2> QED
    BY <2>1, <2>2
<1> HIDE DEF A
<1> DEFINE T == {y \in M : y[1] < x[1]}
<1>12. \A y \in T : y[1] < i /\ y[2] < j
  <2> SUFFICES ASSUME NEW y \in T PROVE y[1] < i /\ y[2] < j
    OBVIOUS
  <2>1. y \in M /\ y[1] < x[1]
    OBVIOUS
  <2>2. ~(y[1] > i)
    BY <1>7, <1>10, <2>1
  <2> QED
    BY <1>5, <2>1, <2>2
<1>13. PairBefore(M, x) = LastPair(T)
  BY DEF PairBefore
<1>14. PICK z : z = PairBefore(M, x)
  OBVIOUS
<1>15. z[1] \in Nat /\ z[2] \in Nat /\ z[1] < i /\ z[2] < j
  <2>1. CASE T = {}
    <3>1. z = <<0, 0>>
      BY <1>13, <1>14, <2>1 DEF LastPair
    <3> QED
      BY <3>1
  <2>2. CASE T # {}
    <3>1. T \in SUBSET ((1 .. m) \X (1 .. l)) /\ T \in SUBSET M
      BY <1>4
    <3> HIDE DEF T
    <3>2. LastPair(T) \in T
      BY ONLY <2>2, <3>1, m \in Nat, l \in Nat, LastPairFacts
    <3>3. z \in T
      BY ONLY <1>13, <1>14, <3>2
    <3> QED
      BY <1>7, <1>12, <3>1, <3>3
  <2> QED
    BY <2>1, <2>2
<1>16. x[1] = z[1] + 1 \/ x[2] = z[2] + 1
  BY <1>3, <1>14
<1>17. x[1] \in Nat /\ x[2] \in Nat
  BY <1>7
<1> QED
  BY ONLY <1>9, <1>11, <1>15, <1>16, <1>17, i \in 1 .. m, j \in 1 .. l, m \in Nat, l \in Nat

(* Two ways to place the sequences have the same order then. *)
LEMMA SameOrder ==
  ASSUME NEW m \in Nat, NEW l \in Nat, NEW n \in Nat, NEW e, NEW g, NEW e2, NEW g2,
         Increasing(e, m, n), Increasing(g, l, n), Increasing(e2, m, n), Increasing(g2, l, n),
         NEW M, M \subseteq (1 .. m) \X (1 .. l), Told(M, m, l),
         Common(e, g, m, l) = M, Common(e2, g2, m, l) = M
  PROVE  \A i \in 1 .. m, j \in 1 .. l :
           (e[i] <= g[j] <=> e2[i] <= g2[j]) /\ (g[j] <= e[i] <=> g2[j] <= e2[i])
<1> SUFFICES ASSUME NEW i \in 1 .. m, NEW j \in 1 .. l
             PROVE  (e[i] <= g[j] <=> e2[i] <= g2[j]) /\ (g[j] <= e[i] <=> g2[j] <= e2[i])
  OBVIOUS
<1>1. PICK x \in M : (x[1] <= i /\ j <= x[2]) \/ (i <= x[1] /\ x[2] <= j)
  BY DEF Told
<1>2. x[1] \in 1 .. m /\ x[2] \in 1 .. l /\ e[x[1]] = g[x[2]] /\ e2[x[1]] = g2[x[2]]
  BY DEF Common
<1>3. e[i] = g[j] <=> e2[i] = g2[j]
  <2>1. (e[i] = g[j] <=> <<i, j>> \in Common(e, g, m, l))
        /\ (e2[i] = g2[j] <=> <<i, j>> \in Common(e2, g2, m, l))
    BY DEF Common
  <2> QED
    BY <2>1
<1>4. /\ \A a, b \in 1 .. m : a <= b => e[a] <= e[b]
      /\ \A a, b \in 1 .. l : a <= b => g[a] <= g[b]
      /\ \A a, b \in 1 .. m : a <= b => e2[a] <= e2[b]
      /\ \A a, b \in 1 .. l : a <= b => g2[a] <= g2[b]
  BY IncreasingCounts
<1>5. /\ e[i] \in Int /\ g[j] \in Int /\ e2[i] \in Int /\ g2[j] \in Int
      /\ e[x[1]] \in Int /\ e2[x[1]] \in Int
  BY <1>2 DEF Increasing
<1>6. CASE x[1] <= i /\ j <= x[2]
  <2>1. g[j] <= g[x[2]] /\ e[x[1]] <= e[i] /\ g2[j] <= g2[x[2]] /\ e2[x[1]] <= e2[i]
    BY <1>2, <1>4, <1>6
  <2> QED
    BY ONLY <1>2, <1>3, <1>5, <2>1
<1>7. CASE i <= x[1] /\ x[2] <= j
  <2>1. g[x[2]] <= g[j] /\ e[i] <= e[x[1]] /\ g2[x[2]] <= g2[j] /\ e2[i] <= e2[x[1]]
    BY <1>2, <1>4, <1>7
  <2> QED
    BY ONLY <1>2, <1>3, <1>5, <2>1
<1> QED
  BY <1>1, <1>6, <1>7

(* Functions onto 1 .. n that order their arguments alike are equal. *)
Ranks(h, T, n) == h \in [T -> 1 .. n] /\ \A k \in 1 .. n : \E t \in T : h[t] = k

LEMMA RanksAgree ==
  ASSUME NEW T, NEW n \in Nat, NEW h, NEW h2, Ranks(h, T, n), Ranks(h2, T, n),
         \A s, t \in T : h[s] <= h[t] <=> h2[s] <= h2[t]
  PROVE  \A t \in T : h[t] = h2[t]
<1> DEFINE B == {k \in 0 .. n : \A t \in T : h[t] <= k \/ h2[t] <= k => h[t] = h2[t]}
<1>1. \A t \in T : h[t] \in 1 .. n /\ h2[t] \in 1 .. n
  BY DEF Ranks
<1>2. 0 \in B
  BY <1>1
<1>3. ASSUME NEW k \in 0 .. n - 1, k \in B PROVE k + 1 \in B
  <2>1. \A t \in T : h[t] <= k \/ h2[t] <= k => h[t] = h2[t]
    BY <1>3
  <2>2. k + 1 \in 1 .. n /\ k + 1 \in 0 .. n
    OBVIOUS
  <2>3. ASSUME NEW t \in T, h[t] = k + 1 PROVE h2[t] = k + 1
    <3>1. PICK s \in T : h2[s] = k + 1
      BY <2>2 DEF Ranks
    <3>2. h2[t] > k /\ h[s] > k
      BY <1>1, <2>1, <2>3, <3>1
    <3>3. h[t] <= h[s] /\ h2[s] <= h2[t]
      BY <1>1, <2>3, <3>1, <3>2
    <3>4. h[s] <= h[t] /\ h2[t] <= h2[s]
      BY <3>3
    <3> QED
      BY <1>1, <3>1, <3>3, <3>4
  <2>4. ASSUME NEW t \in T, h2[t] = k + 1 PROVE h[t] = k + 1
    <3>1. PICK s \in T : h[s] = k + 1
      BY <2>2 DEF Ranks
    <3>2. h2[s] = k + 1
      BY <2>3, <3>1
    <3>3. h[s] <= h[t] /\ h[t] <= h[s]
      BY <1>1, <2>4, <3>2
    <3> QED
      BY <1>1, <3>1, <3>3
  <2>5. ASSUME NEW t \in T, h[t] <= k + 1 \/ h2[t] <= k + 1 PROVE h[t] = h2[t]
    <3>1. h[t] \in Int /\ h2[t] \in Int
      BY <1>1
    <3>2. h[t] = k + 1 \/ h2[t] = k + 1 \/ h[t] <= k \/ h2[t] <= k
      BY <2>5, <3>1
    <3> QED
      BY <2>1, <2>3, <2>4, <3>2
  <2> QED
    BY <2>2, <2>5
<1>4. n \in B
  <2> HIDE DEF B
  <2>1. \A k \in 0 .. n : k \in B
    BY ONLY <1>2, <1>3, n \in Nat, CountingUp
  <2> QED
    BY <2>1
<1> QED
  BY <1>1, <1>4

(* Two conversations of which every place has a message of one or the      *)
(* other, in the same order, are the same.                                 *)
LEMMA OneConversation ==
  ASSUME NEW p, NEW q, NEW w, NEW v, Sequence(p), Sequence(q), Sequence(w), Sequence(v),
         Len(v) = Len(w), NEW e, NEW g, NEW e2, NEW g2,
         Placed(p, q, w, e, g), Placed(p, q, v, e2, g2),
         Covers(e, g, Len(p), Len(q), Len(w)), Covers(e2, g2, Len(p), Len(q), Len(w)),
         NEW M, Common(e, g, Len(p), Len(q)) = M, Common(e2, g2, Len(p), Len(q)) = M,
         Told(M, Len(p), Len(q))
  PROVE  v = w
<1>1. PICK m \in Nat, l \in Nat, n \in Nat : m = Len(p) /\ l = Len(q) /\ n = Len(w)
  BY SequenceShape
<1>2. /\ Increasing(e, m, n) /\ Increasing(g, l, n)
      /\ Increasing(e2, m, n) /\ Increasing(g2, l, n)
      /\ \A i \in 1 .. m : w[e[i]] = p[i] /\ v[e2[i]] = p[i]
      /\ \A j \in 1 .. l : w[g[j]] = q[j] /\ v[g2[j]] = q[j]
  BY <1>1 DEF Placed
<1>3. M \subseteq (1 .. m) \X (1 .. l)
  BY <1>1 DEF Common
<1>4. \A i \in 1 .. m, j \in 1 .. l :
        (e[i] <= g[j] <=> e2[i] <= g2[j]) /\ (g[j] <= e[i] <=> g2[j] <= e2[i])
  BY <1>1, <1>2, <1>3, SameOrder
<1>5. \A i, j \in 1 .. m : (i <= j <=> e[i] <= e[j]) /\ (i <= j <=> e2[i] <= e2[j])
  <2>1. /\ e \in [1 .. m -> 1 .. n] /\ \A i, j \in 1 .. m : i < j => e[i] < e[j]
        /\ e2 \in [1 .. m -> 1 .. n] /\ \A i, j \in 1 .. m : i < j => e2[i] < e2[j]
    BY <1>2 DEF Increasing
  <2> SUFFICES ASSUME NEW i \in 1 .. m, NEW j \in 1 .. m
               PROVE  (i <= j <=> e[i] <= e[j]) /\ (i <= j <=> e2[i] <= e2[j])
    OBVIOUS
  <2>2. e[i] \in Int /\ e[j] \in Int /\ e2[i] \in Int /\ e2[j] \in Int
    BY <2>1
  <2>3. i < j \/ i = j \/ j < i
    OBVIOUS
  <2>4. (i < j => e[i] < e[j] /\ e2[i] < e2[j]) /\ (j < i => e[j] < e[i] /\ e2[j] < e2[i])
    BY <2>1
  <2> QED
    BY ONLY <2>2, <2>3, <2>4, i \in 1 .. m, j \in 1 .. m, m \in Nat
<1>6. \A i, j \in 1 .. l : (i <= j <=> g[i] <= g[j]) /\ (i <= j <=> g2[i] <= g2[j])
  <2>1. /\ g \in [1 .. l -> 1 .. n] /\ \A i, j \in 1 .. l : i < j => g[i] < g[j]
        /\ g2 \in [1 .. l -> 1 .. n] /\ \A i, j \in 1 .. l : i < j => g2[i] < g2[j]
    BY <1>2 DEF Increasing
  <2> SUFFICES ASSUME NEW i \in 1 .. l, NEW j \in 1 .. l
               PROVE  (i <= j <=> g[i] <= g[j]) /\ (i <= j <=> g2[i] <= g2[j])
    OBVIOUS
  <2>2. g[i] \in Int /\ g[j] \in Int /\ g2[i] \in Int /\ g2[j] \in Int
    BY <2>1
  <2>3. i < j \/ i = j \/ j < i
    OBVIOUS
  <2>4. (i < j => g[i] < g[j] /\ g2[i] < g2[j]) /\ (j < i => g[j] < g[i] /\ g2[j] < g2[i])
    BY <2>1
  <2> QED
    BY ONLY <2>2, <2>3, <2>4, i \in 1 .. l, j \in 1 .. l, l \in Nat
<1> DEFINE T == ({1} \X (1 .. m)) \cup ({2} \X (1 .. l))
           h == [t \in T |-> IF t[1] = 1 THEN e[t[2]] ELSE g[t[2]]]
           h2 == [t \in T |-> IF t[1] = 1 THEN e2[t[2]] ELSE g2[t[2]]]
<1>7. \A t \in T : (\E i \in 1 .. m : t = <<1, i>>) \/ (\E j \in 1 .. l : t = <<2, j>>)
  OBVIOUS
<1>8. /\ \A i \in 1 .. m : <<1, i>> \in T /\ h[<<1, i>>] = e[i] /\ h2[<<1, i>>] = e2[i]
      /\ \A j \in 1 .. l : <<2, j>> \in T /\ h[<<2, j>>] = g[j] /\ h2[<<2, j>>] = g2[j]
  OBVIOUS
<1>9. h = [t \in T |-> h[t]] /\ h2 = [t \in T |-> h2[t]]
  OBVIOUS
<1> HIDE DEF T, h, h2
<1>10. /\ \A i \in 1 .. m : e[i] \in 1 .. n /\ e2[i] \in 1 .. n
       /\ \A j \in 1 .. l : g[j] \in 1 .. n /\ g2[j] \in 1 .. n
  BY <1>2 DEF Increasing
<1>11. h \in [T -> 1 .. n] /\ h2 \in [T -> 1 .. n]
  <2>1. ASSUME NEW t \in T PROVE h[t] \in 1 .. n /\ h2[t] \in 1 .. n
    <3>1. CASE \E i \in 1 .. m : t = <<1, i>>
      BY ONLY <1>8, <1>10, <3>1
    <3>2. CASE \E j \in 1 .. l : t = <<2, j>>
      BY ONLY <1>8, <1>10, <3>2
    <3> QED
      BY ONLY <1>7, <3>1, <3>2, t \in T
  <2> QED
    BY <1>9, <2>1
<1>12. \A k \in 1 .. n : (\E t \in T : h[t] = k) /\ (\E t \in T : h2[t] = k)
  <2>1. \A k \in 1 .. n : (\E i \in 1 .. m : e[i] = k) \/ (\E j \in 1 .. l : g[j] = k)
    BY <1>1 DEF Covers
  <2>2. \A k \in 1 .. n : (\E i \in 1 .. m : e2[i] = k) \/ (\E j \in 1 .. l : g2[j] = k)
    BY <1>1 DEF Covers
  <2>3. ASSUME NEW k \in 1 .. n PROVE \E t \in T : h[t] = k
    <3>1. CASE \E i \in 1 .. m : e[i] = k
      BY ONLY <1>8, <3>1
    <3>2. CASE \E j \in 1 .. l : g[j] = k
      BY ONLY <1>8, <3>2
    <3> QED
      BY ONLY <2>1, <3>1, <3>2, k \in 1 .. n
  <2>4. ASSUME NEW k \in 1 .. n PROVE \E t \in T : h2[t] = k
    <3>1. CASE \E i \in 1 .. m : e2[i] = k
      BY ONLY <1>8, <3>1
    <3>2. CASE \E j \in 1 .. l : g2[j] = k
      BY ONLY <1>8, <3>2
    <3> QED
      BY ONLY <2>2, <3>1, <3>2, k \in 1 .. n
  <2> QED
    BY <2>3, <2>4
<1>13. ASSUME NEW s \in T, NEW t \in T PROVE h[s] <= h[t] <=> h2[s] <= h2[t]
  <2>1. CASE \E i, j \in 1 .. m : s = <<1, i>> /\ t = <<1, j>>
    BY <1>5, <1>8, <2>1
  <2>2. CASE \E i \in 1 .. m, j \in 1 .. l : s = <<1, i>> /\ t = <<2, j>>
    BY <1>4, <1>8, <2>2
  <2>3. CASE \E j \in 1 .. l, i \in 1 .. m : s = <<2, j>> /\ t = <<1, i>>
    BY <1>4, <1>8, <2>3
  <2>4. CASE \E i, j \in 1 .. l : s = <<2, i>> /\ t = <<2, j>>
    BY <1>6, <1>8, <2>4
  <2> QED
    BY <1>7, <2>1, <2>2, <2>3, <2>4
<1>14. \A t \in T : h[t] = h2[t]
  <2>1. Ranks(h, T, n)
    BY <1>11, <1>12 DEF Ranks
  <2>2. Ranks(h2, T, n)
    BY <1>11, <1>12 DEF Ranks
  <2>3. \A s, t \in T : h[s] <= h[t] <=> h2[s] <= h2[t]
    BY <1>13
  <2> QED
    BY ONLY n \in Nat, <2>1, <2>2, <2>3, RanksAgree
<1>15. (\A i \in 1 .. m : e[i] = e2[i]) /\ (\A j \in 1 .. l : g[j] = g2[j])
  BY <1>8, <1>14
<1>16. ASSUME NEW k \in 1 .. n PROVE v[k] = w[k]
  <2>1. CASE \E i \in 1 .. m : e[i] = k
    BY ONLY <1>2, <1>15, <2>1
  <2>2. CASE \E j \in 1 .. l : g[j] = k
    BY ONLY <1>2, <1>15, <2>2
  <2>3. (\E i \in 1 .. m : e[i] = k) \/ (\E j \in 1 .. l : g[j] = k)
    BY <1>1 DEF Covers
  <2> QED
    BY <2>1, <2>2, <2>3
<1> QED
  BY <1>1, <1>16, SamePlaces

(* A conversation with both is no shorter than both without what the table *)
(* counts; where there is one alignment, one that short has it.            *)
LEMMA NoneShorter ==
  ASSUME NEW p, NEW q, NEW w, Sequence(p), Sequence(q), Sequence(w),
         NEW e, NEW g, Placed(p, q, w, e, g)
  PROVE  LET size == forward(p, q)[<<Len(p), Len(q)>>] IN
         /\ size \in Nat /\ Len(p) + Len(q) - size <= Len(w)
         /\ Len(p) + Len(q) - size = Len(w) /\ UniquelyAligned(p, q) =>
              /\ Covers(e, g, Len(p), Len(q), Len(w))
              /\ Common(e, g, Len(p), Len(q)) = AlignedPairs(p, q)
<1>1. PICK m \in Nat, l \in Nat, n \in Nat : m = Len(p) /\ l = Len(q) /\ n = Len(w)
  BY SequenceShape
<1>2. PICK N : N = Common(e, g, m, l)
  OBVIOUS
<1>3. PICK size : size = forward(p, q)[<<Len(p), Len(q)>>]
  OBVIOUS
<1>4. Matching(N, p, q)
  BY <1>1, <1>2, CommonIsMatching
<1>5. /\ size \in Nat /\ IsFiniteSet(N) /\ Cardinality(N) <= size
      /\ Cardinality(N) = size => N \subseteq AlignedPairs(p, q)
  BY <1>3, <1>4, MatchingsAreAligned
<1>6. /\ Cardinality(N) \in Nat /\ m + l - Cardinality(N) <= n
      /\ m + l - Cardinality(N) = n => Covers(e, g, m, l, n)
  <2>1. Increasing(e, m, n) /\ Increasing(g, l, n)
    BY <1>1 DEF Placed
  <2> QED
    BY <1>2, <2>1, CommonCounts
<1>7. m + l - size <= n
  BY ONLY <1>5, <1>6, m \in Nat, l \in Nat, n \in Nat
<1>8. ASSUME m + l - size = n, UniquelyAligned(p, q)
      PROVE  Covers(e, g, m, l, n) /\ N = AlignedPairs(p, q)
  <2>1. Cardinality(N) = size
    BY ONLY <1>5, <1>6, <1>8, m \in Nat, l \in Nat, n \in Nat
  <2>2. PICK M : M = AlignedPairs(p, q)
    OBVIOUS
  <2>3. Cardinality(M) = size
    BY <1>3, <1>8, <2>2 DEF UniquelyAligned
  <2>4. IsFiniteSet(M)
    <3>1. Matching(M, p, q)
      BY <1>8, <2>2, UniqueIsMatching
    <3> QED
      BY <1>1, <3>1, MatchingIsFinite
  <2>5. N \in SUBSET M
    BY <1>5, <2>1, <2>2
  <2>6. N = M
    BY ONLY <2>1, <2>3, <2>4, <2>5, FS_Subset
  <2> QED
    BY <1>6, <1>8, <2>1, <2>2, <2>6
<1> QED
  BY <1>1, <1>2, <1>3, <1>5, <1>7, <1>8

-----------------------------------------------------------------------------
(* How long a merge is *)

(* Of a matching, the pairs up to one place more. *)
PairsTo(pairs, i) == {y \in pairs : y[1] <= i}

LEMMA PairsToSteps ==
  ASSUME NEW p, NEW q, NEW m \in Nat, NEW l \in Nat, Len(p) = m, Len(q) = l,
         NEW pairs, Matching(pairs, p, q), NEW i \in 1 .. m
  PROVE  /\ Cardinality(PairsTo(pairs, i)) \in Nat /\ Cardinality(PairsTo(pairs, i - 1)) \in Nat
         /\ (\A y \in pairs : y[1] # i) =>
              Cardinality(PairsTo(pairs, i)) = Cardinality(PairsTo(pairs, i - 1))
         /\ (\E y \in pairs : y[1] = i) =>
              Cardinality(PairsTo(pairs, i)) = Cardinality(PairsTo(pairs, i - 1)) + 1
<1>1. \A y \in pairs : y[1] \in 1 .. m
  BY DEF Matching
<1>2. PICK S, T : S = PairsTo(pairs, i) /\ T = PairsTo(pairs, i - 1)
  OBVIOUS
<1>3. S \in SUBSET pairs /\ T \in SUBSET pairs
  BY <1>2 DEF PairsTo
<1>4. IsFiniteSet(S) /\ Cardinality(S) \in Nat /\ IsFiniteSet(T) /\ Cardinality(T) \in Nat
  BY <1>3, MatchingIsFinite
<1>5. \A y \in pairs : y \in S <=> y \in T \/ y[1] = i
  <2> SUFFICES ASSUME NEW y \in pairs PROVE y \in S <=> y \in T \/ y[1] = i
    OBVIOUS
  <2>1. y[1] <= i <=> y[1] <= i - 1 \/ y[1] = i
    BY <1>1
  <2> QED
    BY <1>2, <2>1 DEF PairsTo
<1>6. ASSUME \A y \in pairs : y[1] # i PROVE S = T
  BY <1>3, <1>5, <1>6
<1>7. ASSUME NEW y \in pairs, y[1] = i PROVE Cardinality(S) = Cardinality(T) + 1
  <2>1. y \notin T
    BY <1>2, <1>7 DEF PairsTo
  <2>2. S = T \cup {y}
    <3>1. \A z \in pairs : z[1] = i => z = y
      BY <1>7 DEF Matching
    <3> QED
      BY <1>3, <1>5, <1>7, <3>1
  <2>3. Cardinality(T \cup {y}) = IF y \in T THEN Cardinality(T) ELSE Cardinality(T) + 1
    BY ONLY <1>4, FS_AddElement
  <2> QED
    BY ONLY <2>1, <2>2, <2>3
<1> QED
  BY <1>2, <1>4, <1>6, <1>7

(* A piece is a message, and what it adds of the context. *)
LEMMA PieceLength ==
  ASSUME NEW prior, Sequence(prior), NEW context, Sequence(context),
         NEW pairs, Matching(pairs, visible(prior), context),
         NEW i \in 1 .. Len(prior)
  PROVE  Len(PieceOf(prior, context, pairs, i)) + Cardinality(PairsTo(pairs, i))
           = 1 + Seen(pairs, i) - Seen(pairs, i - 1) + Cardinality(PairsTo(pairs, i - 1))
<1>1. /\ Len(prior) \in Nat /\ Len(context) \in Nat /\ Len(visible(prior)) = Len(prior)
  BY SequenceShape, VisibleShape
<1>2. PICK s : s = PieceOf(prior, context, pairs, i)
  OBVIOUS
<1>3. PICK one : one = <<prior[i]>>
  OBVIOUS
<1>4. Sequence(one) /\ Len(one) = 1
  BY <1>3, OnePlace
<1>5. PICK c, d : c = Cardinality(PairsTo(pairs, i)) /\ d = Cardinality(PairsTo(pairs, i - 1))
  OBVIOUS
<1>6. /\ c \in Nat /\ d \in Nat
      /\ (\A y \in pairs : y[1] # i) => c = d
      /\ (\E y \in pairs : y[1] = i) => c = d + 1
  <2> DEFINE p == visible(prior)
  <2>1. PICK m \in Nat, l \in Nat : m = Len(prior) /\ l = Len(context)
    BY <1>1
  <2>2. Len(p) = m /\ Len(context) = l /\ Matching(pairs, p, context) /\ i \in 1 .. m
    BY <1>1, <2>1
  <2> HIDE DEF p
  <2>3. /\ Cardinality(PairsTo(pairs, i)) \in Nat /\ Cardinality(PairsTo(pairs, i - 1)) \in Nat
        /\ (\A y \in pairs : y[1] # i) =>
             Cardinality(PairsTo(pairs, i)) = Cardinality(PairsTo(pairs, i - 1))
        /\ (\E y \in pairs : y[1] = i) =>
             Cardinality(PairsTo(pairs, i)) = Cardinality(PairsTo(pairs, i - 1)) + 1
    BY ONLY <2>2, m \in Nat, l \in Nat, PairsToSteps
  <2> QED
    BY ONLY <1>5, <2>3
<1>7. PICK a, b : a = Seen(pairs, i - 1) /\ b = Seen(pairs, i)
  OBVIOUS
<1>8. a \in 0 .. Len(context) /\ b \in 0 .. Len(context)
  <2>1. i \in 0 .. Len(prior) /\ i - 1 \in 0 .. Len(prior)
    BY <1>1
  <2> QED
    BY <1>1, <1>7, <2>1, SeenSteps
<1>9. CASE \A y \in pairs : y[1] # i
  <2>1. s = one
    BY <1>2, <1>3, <1>9 DEF PieceOf
  <2>2. a = b
    BY <1>1, <1>7, <1>9, SeenSteps
  <2>3. Len(s) = 1 /\ c = d /\ c \in Nat /\ a \in Int
    BY <1>1, <1>4, <1>6, <1>8, <1>9, <2>1
  <2>4. Len(s) + c = 1 + b - a + d
    BY ONLY <2>2, <2>3
  <2> QED
    BY ONLY <1>2, <1>5, <1>7, <2>4
<1>10. CASE ~(\A y \in pairs : y[1] # i)
  <2>1. PICK x : x = CHOOSE y \in pairs : y[1] = i
    OBVIOUS
  <2>2. x \in pairs /\ x[1] = i
    BY <1>10, <2>1
  <2>3. PICK before, part : /\ before = PairBefore(pairs, x)[2]
                            /\ part = SubSeq(context, before + 1, x[2] - 1)
    OBVIOUS
  <2>4. PICK new : new = newCapturedMessages(part, "before", prior[i].id)
    OBVIOUS
  <2>5. s = new \o one
    BY <1>2, <1>3, <1>10, <2>1, <2>3, <2>4 DEF PieceOf
  <2>6. b = x[2] /\ a = before /\ a \in 0 .. b - 1
    BY <1>1, <1>7, <2>2, <2>3, SeenSteps
  <2>7. Sequence(part) /\ Len(part) = (b - 1) - a
    <3>1. /\ a + 1 \in 1 .. Len(context) + 1 /\ b - 1 \in (a + 1) - 1 .. Len(context)
          /\ (b - 1) - (a + 1) + 1 = (b - 1) - a
      BY ONLY <1>1, <1>8, <2>6
    <3>2. part = SubSeq(context, a + 1, b - 1)
      BY <2>3, <2>6
    <3> QED
      BY <3>1, <3>2, PartShape
  <2>8. Sequence(new) /\ Len(new) = (b - 1) - a
    <3>1. Sequence(new) /\ visible(new) = part
      BY <2>4, <2>7, NewMessages
    <3> QED
      BY <2>7, <3>1, VisibleShape
  <2>9. Len(s) = ((b - 1) - a) + 1
    <3>1. Len(new \o one) = Len(new) + Len(one)
      BY ONLY <1>4, <2>8, JoinedShape
    <3> QED
      BY ONLY <1>4, <2>5, <2>8, <3>1
  <2>10. c = d + 1
    BY <1>6, <1>10
  <2>11. Len(s) + c = 1 + b - a + d
    BY ONLY <1>1, <1>6, <1>8, <2>9, <2>10
  <2> QED
    BY ONLY <1>2, <1>5, <1>7, <2>11
<1> QED
  BY <1>9, <1>10

LEMMA PiecesLength ==
  ASSUME NEW prior, Sequence(prior), prior # << >>, NEW context, Sequence(context),
         NEW pairs, Matching(pairs, visible(prior), context)
  PROVE  LET s == FlattenSeq([i \in DOMAIN prior |-> PieceOf(prior, context, pairs, i)]) IN
         Len(s) + Cardinality(pairs) = Len(prior) + LastPair(pairs)[2]
<1> DEFINE pieces == [i \in DOMAIN prior |-> PieceOf(prior, context, pairs, i)]
<1>1. PICK n \in Nat : n = Len(prior)
  BY SequenceShape
<1>2. DOMAIN prior = 1 .. n /\ Len(context) \in Nat /\ Len(visible(prior)) = n
  BY <1>1, SequenceShape, VisibleShape
<1>3. n # 0
  BY <1>1 DEF Sequence
<1>4. PICK seqs : seqs = pieces
  OBVIOUS
<1>5. Len(seqs) = n /\ \A i \in 1 .. n : seqs[i] = PieceOf(prior, context, pairs, i)
  <2>1. /\ seqs = [i \in 1 .. n |-> seqs[i]]
        /\ \A i \in 1 .. n : seqs[i] = PieceOf(prior, context, pairs, i)
    BY <1>2, <1>4
  <2> HIDE DEF pieces
  <2> QED
    BY <2>1, SequenceFrom
<1> HIDE DEF pieces
<1>6. PICK f : /\ FlattenSeq(seqs) = f[n] /\ f[1] = seqs[1]
               /\ \A i \in 1 .. n - 1 : f[i + 1] = f[i] \o seqs[i + 1]
  <2>1. Len(seqs) \in Nat /\ Len(seqs) # 0 /\ Len(seqs) = n
    BY <1>3, <1>5
  <2>2. \E f : /\ FlattenSeq(seqs) = f[Len(seqs)] /\ f[1] = seqs[1]
               /\ \A i \in 1 .. Len(seqs) - 1 : f[i + 1] = f[i] \o seqs[i + 1]
    BY <2>1, FlattenSteps
  <2> QED
    BY ONLY <2>1, <2>2
<1> DEFINE size(i) == Cardinality(PairsTo(pairs, i))
           seen(i) == Seen(pairs, i)
<1>7. /\ seen(0) = 0 /\ seen(n) = LastPair(pairs)[2]
      /\ \A i \in 0 .. n : seen(i) \in 0 .. Len(context)
  BY <1>2, SeenSteps
<1>8. size(0) = 0 /\ PairsTo(pairs, n) = pairs
  <2>1. \A y \in pairs : y[1] \in 1 .. n
    BY <1>2 DEF Matching
  <2>2. PairsTo(pairs, 0) = {} /\ PairsTo(pairs, n) = pairs
    BY <2>1 DEF PairsTo
  <2> QED
    BY <2>2, FS_EmptySet
<1>9. ASSUME NEW i \in 1 .. n
      PROVE  /\ Sequence(seqs[i]) /\ size(i) \in Nat
             /\ Len(seqs[i]) + size(i) = 1 + seen(i) - seen(i - 1) + size(i - 1)
  <2>1. Sequence(seqs[i])
    BY <1>1, <1>5, PieceFacts
  <2>2. size(i) \in Nat
    BY <1>2, PairsToSteps
  <2>3. Len(seqs[i]) + size(i) = 1 + seen(i) - seen(i - 1) + size(i - 1)
    BY <1>1, <1>5, PieceLength
  <2> QED
    BY <2>1, <2>2, <2>3
<1> HIDE DEF size, seen
<1> DEFINE Has(i) == Sequence(f[i]) /\ Len(f[i]) + size(i) = i + seen(i)
           B == {i \in 1 .. n : Has(i)}
<1>10. 1 \in B
  <2>1. 1 \in 1 .. n /\ 1 - 1 = 0 /\ 1 \in 0 .. n
    BY <1>3
  <2>2. /\ Sequence(seqs[1]) /\ Len(seqs[1]) \in Nat /\ size(1) \in Nat
        /\ Len(seqs[1]) + size(1) = 1 + seen(1) - seen(0) + size(0)
    BY <1>9, <2>1, SequenceShape
  <2>3. seen(1) \in Nat
    BY <1>2, <1>7, <2>1
  <2>4. Len(f[1]) + size(1) = 1 + seen(1)
    BY ONLY <1>6, <1>7, <1>8, <2>2, <2>3
  <2> QED
    BY <1>6, <2>1, <2>2, <2>4
<1>11. ASSUME NEW i \in 1 .. n - 1, i \in B PROVE i + 1 \in B
  <2>1. i + 1 \in 1 .. n /\ i \in 1 .. n /\ i \in 0 .. n /\ i + 1 \in 0 .. n /\ (i + 1) - 1 = i
    OBVIOUS
  <2>2. Sequence(f[i]) /\ Len(f[i]) + size(i) = i + seen(i)
    BY <1>11
  <2>3. /\ Sequence(seqs[i + 1]) /\ size(i + 1) \in Nat /\ size(i) \in Nat
        /\ Len(seqs[i + 1]) + size(i + 1) = 1 + seen(i + 1) - seen(i) + size(i)
    <3>1. size(i) \in Nat
      BY <1>9, <2>1
    <3>2. /\ Sequence(seqs[i + 1]) /\ size(i + 1) \in Nat
          /\ Len(seqs[i + 1]) + size(i + 1)
               = 1 + seen(i + 1) - seen((i + 1) - 1) + size((i + 1) - 1)
      BY <1>9, <2>1
    <3> QED
      BY ONLY <2>1, <3>1, <3>2
  <2>4. seen(i) \in Nat /\ seen(i + 1) \in Nat
    BY <1>2, <1>7, <2>1
  <2>5. f[i + 1] = f[i] \o seqs[i + 1]
    BY <1>6
  <2>6. Sequence(f[i + 1]) /\ Len(f[i + 1]) = Len(f[i]) + Len(seqs[i + 1])
    BY <2>2, <2>3, <2>5, JoinedShape
  <2>7. Len(f[i]) \in Nat /\ Len(seqs[i + 1]) \in Nat
    BY <2>2, <2>3, SequenceShape
  <2>8. Len(f[i + 1]) + size(i + 1) = (i + 1) + seen(i + 1)
    <3>1. PICK a, b, c, d, e, x, y, z :
            /\ a = Len(f[i]) /\ b = Len(seqs[i + 1]) /\ c = Len(f[i + 1]) /\ d = size(i)
            /\ e = size(i + 1) /\ x = seen(i) /\ y = seen(i + 1) /\ z = i
      OBVIOUS
    <3>2. a \in Nat /\ b \in Nat /\ d \in Nat /\ e \in Nat /\ x \in Nat /\ y \in Nat /\ z \in Nat
      BY <2>3, <2>4, <2>7, <3>1
    <3>3. a + d = z + x /\ b + e = 1 + y - x + d /\ c = a + b
      BY ONLY <2>2, <2>3, <2>6, <3>1
    <3>4. c + e = (z + 1) + y
      BY ONLY <3>2, <3>3
    <3> QED
      BY ONLY <3>1, <3>4
  <2> QED
    BY <2>1, <2>6, <2>8
<1>12. Has(n)
  <2> HIDE DEF Has
  <2>1. n \in B
    <3> HIDE DEF B
    <3>1. 1 \in Nat /\ n \in Nat /\ n \in 1 .. n
      BY <1>3
    <3>2. \A i \in 1 .. n : i \in B
      BY ONLY <3>1, <1>10, <1>11, CountingUp
    <3> QED
      BY <3>1, <3>2
  <2> QED
    BY <2>1
<1>13. Len(FlattenSeq(seqs)) + Cardinality(pairs) = n + LastPair(pairs)[2]
  BY <1>6, <1>7, <1>8, <1>12 DEF size
<1> QED
  BY <1>1, <1>4, <1>13 DEF pieces

(* A merge has the messages of both, and those aligned once. *)
LEMMA MergeLength ==
  ASSUME NEW prior, Sequence(prior), NEW context, Sequence(context),
         Mergeable(visible(prior), context), prior # << >>, visible(prior) # context
  PROVE  Len(mergeVisibleContext(prior, context))
           + Cardinality(AlignedPairs(visible(prior), context))
           = Len(prior) + Len(context)
<1> DEFINE p == visible(prior)
           pairs == AlignedPairs(p, context)
           last == LastPair(pairs)
           seqs == [i \in DOMAIN prior |-> PieceOf(prior, context, pairs, i)]
           rest == SubSeq(context, last[2] + 1, Len(context))
           new == newCapturedMessages(rest, "after", prior[last[1]].id)
<1>1. PICK s : s = mergeVisibleContext(prior, context)
  OBVIOUS
<1>2. s = FlattenSeq(seqs) \o new
  BY <1>1 DEF mergeVisibleContext, PieceOf
<1>3. Len(p) = Len(prior) /\ Len(prior) \in Nat /\ Len(context) \in Nat
  BY SequenceShape, VisibleShape
<1>4. p # << >>
  BY <1>3 DEF Sequence
<1>5. Matching(pairs, p, context)
  BY <1>4, UniqueIsMatching DEF Mergeable
<1> HIDE DEF pairs
<1>6. last[2] \in 0 .. Len(context)
  <2>1. Len(prior) \in 0 .. Len(prior)
    BY <1>3
  <2> QED
    BY <1>3, <1>5, <2>1, SeenSteps
<1>7. PICK flat : flat = FlattenSeq(seqs)
  OBVIOUS
<1>8. Sequence(flat) /\ Len(flat) + Cardinality(pairs) = Len(prior) + last[2]
  BY <1>5, <1>7, PiecesFacts, PiecesLength
<1> HIDE DEF seqs, last
<1>9. PICK k \in Nat : k = last[2] /\ k <= Len(context)
  BY <1>3, <1>6
<1>10. Sequence(rest) /\ Len(rest) = Len(context) - k
  <2>1. /\ k + 1 \in 1 .. Len(context) + 1 /\ Len(context) \in (k + 1) - 1 .. Len(context)
        /\ Len(context) - (k + 1) + 1 = Len(context) - k
    BY <1>3, <1>9
  <2> QED
    BY <1>9, <2>1, PartShape
<1> HIDE DEF rest
<1>11. Sequence(new) /\ Len(new) = Len(context) - k
  <2>1. Sequence(new) /\ visible(new) = rest
    BY <1>10, NewMessages
  <2> QED
    BY <1>10, <2>1, VisibleShape
<1> HIDE DEF new
<1>12. Len(s) = Len(flat) + (Len(context) - k)
  <2>1. Len(flat \o new) = Len(flat) + Len(new)
    BY ONLY <1>8, <1>11, JoinedShape
  <2> QED
    BY ONLY <1>2, <1>7, <1>11, <2>1
<1>13. Cardinality(pairs) \in Nat /\ Len(flat) \in Nat
  <2>1. pairs \in SUBSET pairs
    OBVIOUS
  <2> QED
    BY <1>3, <1>5, <1>8, <2>1, MatchingIsFinite, SequenceShape
<1>14. Len(s) + Cardinality(pairs) = Len(prior) + Len(context)
  <2>1. PICK a, b, c, x, y : /\ a = Len(flat) /\ b = Cardinality(pairs) /\ c = Len(s)
                             /\ x = Len(prior) /\ y = Len(context)
    OBVIOUS
  <2>2. a \in Nat /\ b \in Nat /\ x \in Nat /\ y \in Nat /\ k \in Nat
    BY <1>3, <1>13, <2>1
  <2>3. a + b = x + k /\ c = a + (y - k)
    BY ONLY <1>8, <1>9, <1>12, <2>1
  <2>4. c + b = x + y
    BY ONLY <2>2, <2>3
  <2> QED
    BY ONLY <2>1, <2>4
<1> QED
  BY <1>1, <1>14 DEF pairs

(* What has a sequence in order is no shorter, and if no longer is it. *)
LEMMA OnlyItself ==
  ASSUME NEW s, NEW w, Sequence(s), Sequence(w), InOrder(s, w)
  PROVE  Len(s) <= Len(w) /\ (Len(s) = Len(w) => w = s)
<1>1. PICK m \in Nat, n \in Nat : m = Len(s) /\ n = Len(w)
  BY SequenceShape
<1>2. PICK e : Increasing(e, m, n) /\ \A i \in 1 .. m : w[e[i]] = s[i]
  <2>1. \E f, g : Placed(s, s, w, f, g)
    BY PlacesOf
  <2> QED
    BY <1>1, <2>1 DEF Placed
<1>3. PICK A : A = Values(e, m)
  OBVIOUS
<1>4. /\ A \subseteq 1 .. n /\ IsFiniteSet(A) /\ Cardinality(A) = m
      /\ \A i, j \in 1 .. m : i <= j => e[i] <= e[j]
      /\ \A i, j \in 1 .. m : e[i] = e[j] => i = j
  <2>1. Increasing(e, m, n)
    BY <1>2
  <2>2. A \subseteq 1 .. n /\ IsFiniteSet(A) /\ Cardinality(A) = m
    BY <1>3, <2>1, IncreasingCounts
  <2>3. \A i, j \in 1 .. m : i <= j => e[i] <= e[j]
    BY <2>1, IncreasingCounts
  <2>4. \A i, j \in 1 .. m : e[i] = e[j] => i = j
    BY <2>1, IncreasingCounts
  <2> QED
    BY ONLY <2>2, <2>3, <2>4
<1>5. IsFiniteSet(1 .. n) /\ Cardinality(1 .. n) = n /\ A \in SUBSET (1 .. n)
  BY <1>4, FS_Interval
<1>6. m <= n
  <2>1. Cardinality(A) <= Cardinality(1 .. n)
    BY <1>5, FS_Subset
  <2> QED
    BY ONLY <1>4, <1>5, <2>1
<1>7. ASSUME m = n PROVE w = s
  <2>1. A = 1 .. n
    BY ONLY <1>4, <1>5, <1>7, FS_Subset
  <2>2. e \in [1 .. m -> 1 .. m]
    BY <1>2, <1>7 DEF Increasing
  <2>3. Ranks(e, 1 .. m, m)
    BY <1>3, <1>7, <2>1, <2>2 DEF Ranks, Values
  <2> DEFINE h == [i \in 1 .. m |-> i]
  <2>4. Ranks(h, 1 .. m, m) /\ \A i \in 1 .. m : h[i] = i
    BY DEF Ranks
  <2> HIDE DEF h
  <2>5. ASSUME NEW i \in 1 .. m, NEW j \in 1 .. m PROVE e[i] <= e[j] <=> h[i] <= h[j]
    <3>1. e[i] \in Int /\ e[j] \in Int
      BY <2>2
    <3>2. (i <= j => e[i] <= e[j]) /\ (j <= i => e[j] <= e[i]) /\ (e[i] = e[j] => i = j)
      BY <1>4
    <3> QED
      BY ONLY <2>4, <3>1, <3>2, i \in 1 .. m, j \in 1 .. m, m \in Nat
  <2>6. \A i, j \in 1 .. m : e[i] <= e[j] <=> h[i] <= h[j]
    BY <2>5
  <2>7. \A i \in 1 .. m : e[i] = h[i]
    BY ONLY m \in Nat, <2>3, <2>4, <2>6, RanksAgree
  <2>8. \A i \in 1 .. m : w[i] = s[i]
    BY <1>2, <2>4, <2>7
  <2> QED
    BY <1>1, <1>7, <2>8, SamePlaces
<1> QED
  BY <1>1, <1>6, <1>7

(* One sequence is all there is of a length, and none is one shorter. *)
LEMMA OnlyConversation ==
  ASSUME NEW p, NEW q, NEW u, Sequence(u), Len(u) # 0, InOrder(p, u), InOrder(q, u),
         \A i \in 1 .. Len(u) : u[i] \in ToSet(p) \cup ToSet(q),
         \A w : Sequence(w) /\ InOrder(p, w) /\ InOrder(q, w) =>
                  Len(w) # Len(u) - 1 /\ (Len(w) = Len(u) => w = u)
  PROVE  /\ Conversations(p, q, Len(u)) = {u}
         /\ Conversations(p, q, Len(u) - 1) = {}
<1>1. PICK n \in Nat : n = Len(u)
  BY SequenceShape
<1>2. n - 1 \in Nat
  BY <1>1
<1>3. \A k \in Nat : \A w \in Conversations(p, q, k) :
        Sequence(w) /\ Len(w) = k /\ InOrder(p, w) /\ InOrder(q, w)
  <2> SUFFICES ASSUME NEW k \in Nat, NEW w \in Conversations(p, q, k)
               PROVE  Sequence(w) /\ Len(w) = k /\ InOrder(p, w) /\ InOrder(q, w)
    OBVIOUS
  <2>1. w \in [1 .. k -> ToSet(p) \cup ToSet(q)] /\ InOrder(p, w) /\ InOrder(q, w)
    BY DEF Conversations
  <2>2. w = [i \in 1 .. k |-> w[i]]
    BY <2>1
  <2> QED
    BY <2>1, <2>2, SequenceFrom
<1>4. \A w \in Conversations(p, q, n) : w = u
  BY <1>1, <1>3
<1>5. \A w \in Conversations(p, q, n - 1) : FALSE
  BY <1>1, <1>2, <1>3
<1>6. u \in Conversations(p, q, n)
  <2>1. u \in [1 .. n -> ToSet(p) \cup ToSet(q)]
    <3>1. u \in [1 .. n -> ToSet(u)]
      BY <1>1 DEF Sequence
    <3> QED
      BY <1>1, <3>1
  <2> QED
    BY <2>1 DEF Conversations
<1> QED
  BY <1>1, <1>4, <1>5, <1>6

(* What a merge makes of the texts. *)
LEMMA MergesAreSound ==
  ASSUME NEW prior, Sequence(prior), NEW context, Sequence(context), Len(context) # 0,
         Mergeable(visible(prior), context)
  PROVE  LET merged == visible(mergeVisibleContext(prior, context)) IN
         /\ Conversations(visible(prior), context, Len(merged)) = {merged}
         /\ Conversations(visible(prior), context, Len(merged) - 1) = {}
<1>1. PICK p : p = visible(prior)
  OBVIOUS
<1>2. PICK s : s = mergeVisibleContext(prior, context)
  OBVIOUS
<1>3. PICK u : u = visible(s)
  OBVIOUS
<1>4. Sequence(p) /\ Len(p) = Len(prior)
  BY <1>1, VisibleShape
<1>5. Sequence(s) /\ InOrder(prior, s) /\ InOrder(context, visible(s))
  BY <1>2, MergeKeeps
<1>6. Sequence(u) /\ Len(u) = Len(s) /\ InOrder(p, u) /\ InOrder(context, u)
  BY <1>1, <1>3, <1>5, VisibleShape, InOrderTexts
<1>7. Len(context) <= Len(u) /\ Len(u) \in Nat /\ Len(context) \in Nat /\ Len(u) # 0
  <2>1. Len(context) <= Len(u)
    BY <1>6, OnlyItself
  <2>2. Len(u) \in Nat /\ Len(context) \in Nat
    BY <1>6, SequenceShape
  <2> QED
    BY <2>1, <2>2
<1>8. CASE u = context
  <2>1. \A i \in 1 .. Len(u) : u[i] \in ToSet(p) \cup ToSet(context)
    BY <1>8, SequenceShape DEF ToSet
  <2>2. ASSUME NEW w, Sequence(w), InOrder(p, w), InOrder(context, w)
        PROVE  Len(w) # Len(u) - 1 /\ (Len(w) = Len(u) => w = u)
    <3>1. Len(context) <= Len(w) /\ (Len(context) = Len(w) => w = context)
      BY <2>2, OnlyItself
    <3> QED
      BY <1>7, <1>8, <2>2, <3>1, SequenceShape
  <2>3. /\ Conversations(p, context, Len(u)) = {u}
        /\ Conversations(p, context, Len(u) - 1) = {}
    BY <1>6, <1>7, <2>1, <2>2, OnlyConversation
  <2> QED
    BY <1>1, <1>2, <1>3, <2>3
<1>9. CASE prior = << >>
  <2>1. s = newCapturedMessages(context, "initial", << >>)
    BY <1>2, <1>9 DEF mergeVisibleContext
  <2>2. u = context
    BY <1>3, <2>1, NewMessages
  <2> QED
    BY <1>8, <2>2
<1>10. CASE prior # << >> /\ p = context
  <2>1. s = prior
    BY <1>1, <1>2, <1>10 DEF mergeVisibleContext
  <2>2. u = context
    BY <1>1, <1>3, <1>10, <2>1
  <2> QED
    BY <1>8, <2>2
<1>11. CASE prior # << >> /\ p # context
  <2>1. p # << >>
    BY <1>4, <1>11 DEF Sequence
  <2>2. PICK M : M = AlignedPairs(p, context)
    OBVIOUS
  <2>3. PICK m \in Nat, l \in Nat, n \in Nat : m = Len(p) /\ l = Len(context) /\ n = Len(u)
    BY <1>4, <1>7, SequenceShape
  <2>4. PICK size : size = forward(p, context)[<<m, l>>]
    OBVIOUS
  <2>5. /\ UniquelyAligned(p, context)
        /\ Cardinality(M) = Len(context) \/ Orderable(p, context)
    BY <1>1, <1>11, <2>1, <2>2 DEF Mergeable
  <2>6. Cardinality(M) = size
    BY <2>2, <2>3, <2>4, <2>5 DEF UniquelyAligned
  <2>7. Matching(M, p, context)
    BY <2>2, <2>5, UniqueIsMatching
  <2>8. PICK e, g : Placed(p, context, u, e, g)
    BY <1>4, <1>6, PlacesOf
  <2>9. size \in Nat
    BY <1>4, <1>6, <2>3, <2>4, <2>8, NoneShorter
  <2>10. m + l - size = n
    <3>1. Len(s) + Cardinality(M) = Len(prior) + Len(context)
      BY <1>1, <1>2, <1>11, <2>2, MergeLength
    <3> QED
      BY ONLY <1>4, <1>6, <2>3, <2>6, <2>9, <3>1, m \in Nat, l \in Nat, n \in Nat
  <2>11. Covers(e, g, m, l, n) /\ Common(e, g, m, l) = M
    BY <1>4, <1>6, <2>2, <2>3, <2>4, <2>5, <2>8, <2>10, NoneShorter
  <2>12. \A k \in 1 .. Len(u) : u[k] \in ToSet(p) \cup ToSet(context)
    <3>1. DOMAIN p = 1 .. m /\ DOMAIN context = 1 .. l
      BY <1>4, <2>3, SequenceShape
    <3>2. /\ \A i \in 1 .. m : u[e[i]] = p[i]
          /\ \A j \in 1 .. l : u[g[j]] = context[j]
      BY <2>3, <2>8 DEF Placed
    <3>3. \A i \in 1 .. m : p[i] \in ToSet(p)
      BY <3>1 DEF ToSet
    <3>4. \A j \in 1 .. l : context[j] \in ToSet(context)
      BY <3>1 DEF ToSet
    <3>5. ASSUME NEW k \in 1 .. n PROVE u[k] \in ToSet(p) \cup ToSet(context)
      BY <2>11, <3>2, <3>3, <3>4 DEF Covers
    <3> QED
      BY <2>3, <3>5
  <2>13. ASSUME NEW w, Sequence(w), InOrder(p, w), InOrder(context, w)
         PROVE  Len(w) # Len(u) - 1 /\ (Len(w) = Len(u) => w = u)
    <3>1. PICK e2, g2 : Placed(p, context, w, e2, g2)
      BY <1>4, <2>13, PlacesOf
    <3>2. /\ m + l - size <= Len(w)
          /\ m + l - size = Len(w) => Covers(e2, g2, m, l, Len(w)) /\ Common(e2, g2, m, l) = M
      BY <1>4, <2>2, <2>3, <2>4, <2>5, <2>13, <3>1, NoneShorter
    <3>3. Len(w) \in Nat
      BY <2>13, SequenceShape
    <3>4. Len(w) # Len(u) - 1
      BY ONLY <2>3, <2>10, <3>2, <3>3, n \in Nat
    <3>5. ASSUME Len(w) = n PROVE w = u
      <4>1. CASE Cardinality(M) = Len(context)
        <5>1. m = n
          BY ONLY <2>3, <2>6, <2>10, <4>1, m \in Nat, l \in Nat
        <5> QED
          BY <1>4, <1>6, <2>3, <2>13, <3>5, <5>1, OnlyItself
      <4>2. CASE Orderable(p, context)
        <5>1. Told(M, m, l)
          BY <2>2, <2>3, <2>7, <4>2, PairsTell
        <5>2. Covers(e2, g2, m, l, n) /\ Common(e2, g2, m, l) = M
          BY ONLY <2>10, <3>2, <3>5
        <5> QED
          BY <1>4, <1>6, <2>3, <2>8, <2>11, <2>13, <3>1, <3>5, <5>1, <5>2, OneConversation
      <4> QED
        BY <2>5, <4>1, <4>2
    <3> QED
      BY <2>3, <3>4, <3>5
  <2>14. /\ Conversations(p, context, Len(u)) = {u}
         /\ Conversations(p, context, Len(u) - 1) = {}
    BY <1>6, <1>7, <2>12, <2>13, OnlyConversation
  <2> QED
    BY <1>1, <1>2, <1>3, <2>14
<1> QED
  BY <1>9, <1>10, <1>11

(* A publisher reads for a context, and puts the merge of what it read. *)
MergeIn(st) ==
  /\ st.phase = "read" => Len(st.context) # 0
  /\ st.phase = "put" =>
       /\ Len(st.context) # 0
       /\ Sequence(st.prior.messages) /\ Mergeable(visible(st.prior.messages), st.context)
       /\ st.snapshot.messages = mergeVisibleContext(st.prior.messages, st.context)
  /\ st.phase \in Putting => Len(st.context) # 0

MergesIn == \A p \in Publishers : MergeIn(servers[p])

LEMMA MergeMoves ==
  ASSUME CaptureInv, MergesIn, NEW p \in Servers, NEW st, SetServer(p, st),
         p \in Publishers => MergeIn(st)
  PROVE  MergesIn'
<1>1. servers' = [q \in Servers |-> IF q = p THEN st ELSE servers[q]]
  BY DEF SetServer, CaptureInv
<1>2. Publishers \subseteq Servers
  BY DEF Servers
<1>3. ASSUME NEW q \in Publishers PROVE MergeIn(servers'[q])
  <2>1. MergeIn(servers[q]) /\ q \in Servers
    BY <1>2 DEF MergesIn
  <2> QED
    BY <1>1, <2>1
<1> QED
  BY <1>3 DEF MergesIn

(* A put that goes on, or goes around, has its context. *)
LEMMA MergeGoesOn ==
  ASSUME NEW old, NEW st, MergeIn(old), old.phase \in Putting,
         st.phase \in {"free", "read"} \cup (Putting \ {"put"}),
         st.phase # "free" => st.context = old.context
  PROVE  MergeIn(st)
BY DEF MergeIn, Putting

LEMMA FreeMerges == MergeIn(Free)
BY DEF MergeIn, Free, Putting

LEMMA ReadMerges ==
  ASSUME CaptureInv, MergesIn, NEW p \in Publishers, ReadAndMerge(p)
  PROVE  MergesIn'
<1>1. p \in Servers /\ servers[p].phase = "read"
  BY DEF ReadAndMerge, Servers
<1>2. PICK old : old = servers[p]
  OBVIOUS
<1>3. /\ ServerSound(p, old, capture, lockFile) /\ MergeIn(old) /\ old.phase = "read"
      /\ Len(old.context) # 0
  BY <1>1, <1>2 DEF CaptureInv, MergesIn, MergeIn
<1>4. CASE SetServer(p, Free)
  BY <1>1, <1>4, FreeMerges, MergeMoves
<1>5. ASSUME NEW now \in Clock, assertOwnedSnapshot(capture),
             Mergeable(visible(capture.messages), old.context),
             SetServer(p, [old EXCEPT !.phase = "put", !.prior = capture,
                                      !.snapshot = SnapshotOf(capture, old.context, now)])
      PROVE  MergesIn'
  <2> DEFINE new == SnapshotOf(capture, old.context, now)
             st == [old EXCEPT !.phase = "put", !.prior = capture, !.snapshot = new]
  <2>1. Sequence(capture.messages)
    <3>1. << >> \in Seq({})
      OBVIOUS
    <3>2. Sequence(<< >>)
      BY <3>1, SequenceOf
    <3> QED
      BY <1>5, <3>2, NothingFacts DEF assertOwnedSnapshot, CaptureInv, CaptureSound
  <2>2. new.messages = mergeVisibleContext(capture.messages, old.context)
    BY DEF SnapshotOf
  <2> HIDE DEF new
  <2>3. /\ st.phase = "put" /\ st.prior = capture /\ st.snapshot = new
        /\ st.context = old.context
    BY <1>3 DEF ServerSound, ServerFields
  <2> HIDE DEF st
  <2>4. MergeIn(st)
    BY <1>3, <1>5, <2>1, <2>2, <2>3 DEF MergeIn, Putting
  <2>5. SetServer(p, st)
    BY <1>5 DEF st, new
  <2> QED
    BY <1>1, <2>4, <2>5, MergeMoves
<1> QED
  BY <1>2, <1>4, <1>5 DEF ReadAndMerge

LEMMA PutMerges ==
  ASSUME CaptureInv, MergesIn, NEW p \in Servers, PutStep(p)
  PROVE  MergesIn'
<1>1. PICK old : old = servers[p]
  OBVIOUS
<1>2. /\ ServerSound(p, old, capture, lockFile) /\ old = [f \in ServerFields |-> old[f]]
      /\ p \in Publishers => MergeIn(old)
  BY <1>1 DEF CaptureInv, MergesIn, ServerSound
<1>3. CASE SetServer(p, Free)
  BY <1>3, FreeMerges, MergeMoves
<1>4. ASSUME NEW phase \in Putting \ {"put"}, old.phase \in Putting,
             SetServer(p, [old EXCEPT !.phase = phase])
      PROVE  MergesIn'
  <2> DEFINE st == [old EXCEPT !.phase = phase]
  <2>1. st.phase = phase /\ st.context = old.context
    BY <1>2 DEF ServerFields
  <2> HIDE DEF st
  <2>2. p \in Publishers => MergeIn(st)
    BY <1>2, <1>4, <2>1, MergeGoesOn
  <2> QED
    BY <1>4, <2>2, MergeMoves DEF st
<1>5. ASSUME NEW result, old.phase \in Putting,
             SetServer(p, [old EXCEPT !.phase = "release", !.result = result])
      PROVE  MergesIn'
  <2> DEFINE st == [old EXCEPT !.phase = "release", !.result = result]
  <2>1. st.phase = "release" /\ st.context = old.context
    BY <1>2 DEF ServerFields
  <2> HIDE DEF st
  <2>2. p \in Publishers => MergeIn(st)
    BY <1>2, <1>5, <2>1, MergeGoesOn DEF Putting
  <2> QED
    BY <1>5, <2>2, MergeMoves DEF st
<1>6. ASSUME old.phase \in Putting,
             SetServer(p, [Free EXCEPT !.phase = "read", !.context = old.context,
                                       !.attempt = old.attempt + 1])
      PROVE  MergesIn'
  <2> DEFINE st == [Free EXCEPT !.phase = "read", !.context = old.context,
                                !.attempt = old.attempt + 1]
  <2>1. st.phase = "read" /\ st.context = old.context
    BY DEF Free
  <2> HIDE DEF st
  <2>2. p \in Publishers => MergeIn(st)
    BY <1>2, <1>6, <2>1, MergeGoesOn
  <2> QED
    BY <1>6, <2>2, MergeMoves DEF st
<1>7. CASE Inspect(p)
  BY <1>1, <1>3, <1>4, <1>7 DEF Inspect, Putting
<1>8. CASE Link(p)
  BY <1>1, <1>3, <1>4, <1>8 DEF Link, Putting
<1>9. CASE Compare(p)
  <2>1. old.phase = "compare"
    BY <1>1, <1>9 DEF Compare
  <2>2. \/ \E r \in {"retry", "done", "failed"} :
            SetServer(p, [old EXCEPT !.phase = "release", !.result = r])
        \/ SetServer(p, [old EXCEPT !.phase = "write"])
    <3>1. \/ SetServer(p, [old EXCEPT !.phase = "release", !.result = "retry"])
          \/ SetServer(p, [old EXCEPT !.phase = "release", !.result = "done"])
          \/ SetServer(p, [old EXCEPT !.phase = "release", !.result = "failed"])
          \/ SetServer(p, [old EXCEPT !.phase = "write"])
      BY <1>1, <1>9 DEF Compare
    <3> QED
      BY <3>1
  <2>3. old.phase \in Putting /\ "write" \in Putting \ {"put"}
    BY <2>1 DEF Putting
  <2>4. CASE SetServer(p, [old EXCEPT !.phase = "write"])
    BY <1>4, <2>3, <2>4
  <2>5. ASSUME NEW r, SetServer(p, [old EXCEPT !.phase = "release", !.result = r])
        PROVE  MergesIn'
    BY <1>5, <2>3, <2>5
  <2> QED
    BY <2>2, <2>4, <2>5
<1>10. CASE Write(p)
  <2>1. old.phase = "write"
        /\ SetServer(p, [old EXCEPT !.phase = "release", !.result = "done"])
    BY <1>1, <1>10 DEF Write
  <2>2. old.phase \in Putting
    BY <2>1 DEF Putting
  <2> QED
    BY <1>5, <2>1, <2>2
<1>11. CASE ReleaseLock(p)
  BY <1>1, <1>3, <1>6, <1>11 DEF ReleaseLock, Putting
<1>12. CASE ServerDies(p)
  BY <1>3, <1>12 DEF ServerDies
<1> QED
  BY <1>7, <1>8, <1>9, <1>10, <1>11, <1>12 DEF PutStep

LEMMA MergesStep ==
  ASSUME CaptureInv, MergesIn, [CaptureNext]_captureVars
  PROVE  MergesIn'
<1>1. CASE servers' = servers
  BY <1>1 DEF MergesIn
<1>2. ASSUME NEW p \in Publishers, NEW c \in Contexts, Publish(p, c) PROVE MergesIn'
  <2> DEFINE st == [Free EXCEPT !.phase = "read", !.context = c, !.attempt = 1]
  <2>1. SetServer(p, st) /\ p \in Servers /\ Len(c) \in 1 .. MAX_MESSAGES
    BY <1>2 DEF Publish, Servers, validateMessageSet
  <2>2. Len(c) # 0
    BY <2>1, CaptureAssumption
  <2>3. MergeIn(st)
    BY <2>2 DEF MergeIn, Free, Putting
  <2> HIDE DEF st
  <2> QED
    BY <2>1, <2>3, MergeMoves
<1>3. ASSUME NEW p \in HttpWriters, NEW s \in Posts, Post(p, s) PROVE MergesIn'
  <2>1. SetServer(p, [Free EXCEPT !.phase = "put", !.snapshot = s])
        /\ p \in Servers /\ p \notin Publishers
    BY <1>3, CaptureAssumption DEF Post, Servers
  <2> QED
    BY <2>1, MergeMoves
<1>4. ASSUME NEW p \in Publishers, ReadAndMerge(p) PROVE MergesIn'
  BY <1>4, ReadMerges
<1>5. ASSUME NEW p \in Servers, PutStep(p) PROVE MergesIn'
  BY <1>5, PutMerges
<1>6. CASE UNCHANGED captureVars \/ RecoveryBegins \/ RecoveryEnds
  BY <1>1, <1>6 DEF captureVars, RecoveryBegins, RecoveryEnds
<1> QED
  BY <1>2, <1>3, <1>4, <1>5, <1>6 DEF CaptureNext

(* What a publisher puts is the one shortest conversation that has what    *)
(* was captured and what is visible in order, whatever was captured and    *)
(* whatever is visible: a merge that could be done in two ways is refused. *)
THEOREM MergesAreUnambiguous == CaptureSpec => []MergeIsSound
<1>1. CaptureInit => CaptureInv /\ MergesIn
  <2> SUFFICES ASSUME CaptureInit PROVE MergesIn
    BY CaptureInitSound
  <2>1. \A p \in Publishers : servers[p] = Free
    BY DEF CaptureInit, Servers
  <2> QED
    BY <2>1, FreeMerges DEF MergesIn
<1>2. CaptureInv /\ MergesIn /\ [CaptureNext]_captureVars => (CaptureInv /\ MergesIn)'
  BY CaptureStep, MergesStep
<1>3. CaptureInv /\ MergesIn => MergeIsSound
  <2> SUFFICES ASSUME CaptureInv, MergesIn, NEW p \in Publishers, servers[p].phase = "put"
               PROVE  LET st == servers[p]
                          old == st.prior.messages
                          merged == Texts(st.snapshot)
                      IN /\ Conversations(visible(old), st.context, Len(merged)) = {merged}
                         /\ Conversations(visible(old), st.context, Len(merged) - 1) = {}
                         /\ InOrder(old, st.snapshot.messages)
    BY DEF MergeIsSound
  <2>1. PICK st : st = servers[p]
    OBVIOUS
  <2>2. ServerSound(p, st, capture, lockFile) /\ MergeIn(st) /\ st.phase = "put"
    BY <2>1 DEF CaptureInv, MergesIn, Servers
  <2>3. InOrder(st.prior.messages, st.snapshot.messages) /\ Sequence(st.context)
    BY <2>2 DEF ServerSound, OwnSnapshot, Putting
  <2>4. PICK old, context : old = st.prior.messages /\ context = st.context
    OBVIOUS
  <2>5. /\ Sequence(old) /\ Sequence(context) /\ Len(context) # 0
        /\ Mergeable(visible(old), context)
        /\ st.snapshot.messages = mergeVisibleContext(old, context)
    BY <2>2, <2>3, <2>4 DEF MergeIn
  <2>6. PICK merged : merged = visible(mergeVisibleContext(old, context))
    OBVIOUS
  <2>7. /\ Conversations(visible(old), context, Len(merged)) = {merged}
        /\ Conversations(visible(old), context, Len(merged) - 1) = {}
    BY <2>5, <2>6, MergesAreSound
  <2>8. Texts(st.snapshot) = merged
    BY <2>5, <2>6 DEF Texts
  <2> QED
    BY <2>1, <2>3, <2>4, <2>7, <2>8
<1> QED
  BY <1>1, <1>2, <1>3, PTL DEF CaptureSpec
=============================================================================

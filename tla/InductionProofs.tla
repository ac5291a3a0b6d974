-------------------------- MODULE InductionProofs --------------------------
(***************************************************************************)
(* Induction over the naturals as a fact about sets, and what the folds of  *)
(* SequencesExt need: that their recursive functions exist.                 *)
(***************************************************************************)
EXTENDS SequencesExt, SequenceTheorems, WellFoundedInduction, TLAPS

\* Every non-empty set of naturals has a least element.
LEMMA LeastNatural ==
    ASSUME NEW S \in SUBSET Nat, S # {}
    PROVE  \E n \in S : \A m \in S : n <= m
<1> DEFINE R == {p \in Nat \X Nat : p[1] < p[2]}
<1>1. IsWellFoundedOn(R, Nat)
  BY NatLessThanWellFounded DEF OpToRel
<1> HIDE DEF R
<1>2. PICK n \in S : \A m \in S : ~(<<m, n>> \in R)
  BY <1>1, WFMin
<1>3. \A m \in S : m \in Nat /\ n \in Nat /\ ~(m < n)
  BY <1>2 DEF R
<1> QED  BY <1>3

\* A set that has 0 and with each number the next has every natural.
LEMMA SetInduction ==
    ASSUME NEW S, 0 \in S, \A n \in Nat : n \in S => n + 1 \in S
    PROVE  Nat \subseteq S
<1> SUFFICES ASSUME Nat \ S # {} PROVE FALSE
  OBVIOUS
<1>1. PICK n \in Nat \ S : \A m \in Nat \ S : n <= m
  BY LeastNatural
<1>2. n - 1 \in Nat /\ (n - 1) + 1 = n /\ ~(n <= n - 1)
  BY <1>1
<1>3. n - 1 \in S
  BY <1>1, <1>2
<1> QED  BY <1>1, <1>2, <1>3

LEMMA MaxOfSet ==
    ASSUME NEW n \in Nat, NEW T \in SUBSET (1 .. n), T # {}
    PROVE  Max(T) \in T /\ \A m \in T : m <= Max(T)
<1> DEFINE S == {n - m : m \in T}
<1>1. S \in SUBSET Nat /\ S # {}
  <2>1. \A m \in T : m \in 1 .. n /\ n - m \in Nat
    OBVIOUS
  <2> QED  BY <2>1
<1>2. PICK k \in S : \A m \in S : k <= m
  BY <1>1, LeastNatural
<1>3. PICK t \in T : k = n - t
  BY <1>2
<1>4. \A m \in T : n - m \in S /\ m \in Nat
  OBVIOUS
<1>5. \A m \in T : t >= m
  BY <1>2, <1>3, <1>4
<1>6. Max(T) \in T /\ \A m \in T : Max(T) >= m
  BY <1>5 DEF Max
<1>7. \A m \in T : m \in Int
  OBVIOUS
<1> QED  BY <1>6, <1>7

\* h is the function by which FoldLeft goes through 1 .. n, from the last element.
IsFold(h, n, X, base, step) ==
    /\ h \in [SUBSET (1 .. n) -> X]
    /\ \A T \in SUBSET (1 .. n) :
          h[T] = IF T = {} THEN base ELSE step[<<h[T \ {Max(T)}], Max(T)>>]

LEMMA FoldExists ==
    ASSUME NEW n \in Nat, NEW X, NEW base \in X, NEW step \in [X \X (1 .. n) -> X]
    PROVE  \E h : IsFold(h, n, X, base, step)
<1> DEFINE Good(m, h) ==
              \A T \in SUBSET (1 .. m) :
                 h[T] = IF T = {} THEN base ELSE step[<<h[T \ {Max(T)}], Max(T)>>]
           Exists(m) == \E h \in [SUBSET (1 .. m) -> X] : Good(m, h)
           S == {m \in Nat : m <= n => Exists(m)}
<1> HIDE DEF Good, Exists
<1>1. 0 \in S
  <2>1. 1 .. 0 = {} /\ SUBSET {} = {{}}
    OBVIOUS
  <2>2. [T \in SUBSET (1 .. 0) |-> base] \in [SUBSET (1 .. 0) -> X]
    OBVIOUS
  <2>3. Good(0, [T \in SUBSET (1 .. 0) |-> base])
    BY <2>1 DEF Good
  <2> QED  BY <2>2, <2>3 DEF Exists
<1>2. ASSUME NEW m \in Nat, m \in S PROVE m + 1 \in S
  <2>1. SUFFICES ASSUME m + 1 <= n
                 PROVE  Exists(m + 1)
    OBVIOUS
  <2>2. PICK h \in [SUBSET (1 .. m) -> X] : Good(m, h)
    <3>1. Exists(m)
      BY <1>2, <2>1
    <3> QED  BY <3>1 DEF Exists
  <2> DEFINE g == [T \in SUBSET (1 .. m + 1) |->
                      IF m + 1 \in T THEN step[<<h[T \ {m + 1}], m + 1>>] ELSE h[T]]
  <2>3. \A T \in SUBSET (1 .. m + 1) :
           /\ T \ {m + 1} \in SUBSET (1 .. m)
           /\ m + 1 \in T => Max(T) = m + 1
    <3>1. TAKE T \in SUBSET (1 .. m + 1)
    <3>2. T \ {m + 1} \in SUBSET (1 .. m)
      OBVIOUS
    <3>3. ASSUME m + 1 \in T PROVE Max(T) = m + 1
      <4>1. m + 1 \in Nat /\ T # {}
        BY <3>3
      <4>2. Max(T) \in T /\ m + 1 <= Max(T)
        BY <3>3, <4>1, MaxOfSet
      <4>3. Max(T) \in 1 .. m + 1
        BY <4>2
      <4> QED  BY <4>2, <4>3
    <3> QED  BY <3>2, <3>3
  <2>4. g \in [SUBSET (1 .. m + 1) -> X]
    <3>1. m + 1 \in 1 .. n
      BY <2>1
    <3>2. ASSUME NEW T \in SUBSET (1 .. m + 1) PROVE g[T] \in X
      <4>1. CASE m + 1 \in T
        BY <2>3, <3>1, <4>1
      <4>2. CASE m + 1 \notin T
        BY <2>3, <4>2
      <4> QED  BY <4>1, <4>2
    <3> QED  BY <3>2
  <2>5. ASSUME NEW T \in SUBSET (1 .. m + 1)
        PROVE  g[T] = IF T = {} THEN base ELSE step[<<g[T \ {Max(T)}], Max(T)>>]
    <3>1. CASE m + 1 \in T
      <4>1. T \ {m + 1} \in SUBSET (1 .. m) /\ Max(T) = m + 1
        BY <2>3, <3>1
      <4>2. g[T \ {m + 1}] = h[T \ {m + 1}]
        BY <4>1
      <4> QED  BY <3>1, <4>1, <4>2
    <3>2. CASE m + 1 \notin T
      <4>1. T \in SUBSET (1 .. m) /\ g[T] = h[T]
        BY <3>2, <2>3
      <4>2. CASE T = {}
        BY <4>1, <4>2, <2>2 DEF Good
      <4>3. CASE T # {}
        <5>1. Max(T) \in T
          BY <4>1, <4>3, MaxOfSet
        <5>2. T \ {Max(T)} \in SUBSET (1 .. m) /\ m + 1 \notin T \ {Max(T)}
          BY <4>1, <3>2
        <5>3. g[T \ {Max(T)}] = h[T \ {Max(T)}]
          BY <5>2
        <5>4. h[T] = step[<<h[T \ {Max(T)}], Max(T)>>]
          BY <2>2, <4>1, <4>3 DEF Good
        <5> QED  BY <4>1, <4>3, <5>3, <5>4
      <4> QED  BY <4>2, <4>3
    <3> QED  BY <3>1, <3>2
  <2>6. Good(m + 1, g)
    BY <2>5 DEF Good
  <2> QED  BY <2>4, <2>6 DEF Exists
<1>3. n \in S
  BY <1>1, <1>2, SetInduction
<1>4. Exists(n)
  BY <1>3
<1> QED  BY <1>4 DEF Exists, Good, IsFold

\* A non-empty set of positions has a first one.
LEMMA MinOfSet ==
    ASSUME NEW S \in SUBSET Nat, S # {}
    PROVE  Min(S) \in S /\ \A m \in S : Min(S) <= m
<1>1. \E n \in S : \A m \in S : n <= m
  BY LeastNatural
<1>2. Min(S) \in S /\ \A m \in S : Min(S) <= m
  BY <1>1 DEF Min
<1> QED  BY <1>2

\* The positions up to k, from the last one.
LEMMA UpToLast ==
    ASSUME NEW n \in Nat, NEW k \in 1 .. n
    PROVE  /\ 1 .. k \in SUBSET (1 .. n) /\ 1 .. k # {}
           /\ Max(1 .. k) = k /\ (1 .. k) \ {k} = 1 .. k - 1
<1>1. 1 .. k \in SUBSET (1 .. n) /\ k \in 1 .. k
  OBVIOUS
<1>2. Max(1 .. k) \in 1 .. k /\ k <= Max(1 .. k)
  BY <1>1, MaxOfSet
<1>3. Max(1 .. k) = k
  BY <1>2
<1>4. (1 .. k) \ {k} = 1 .. k - 1
  OBVIOUS
<1> QED  BY <1>1, <1>3, <1>4

\* Two sequences of values that start alike and go on alike are the same.
GoAlike(g, h, n) ==
    g[0] = h[0] /\ \A k \in 1 .. n : g[k - 1] = h[k - 1] => g[k] = h[k]

LEMMA SameTrace ==
    ASSUME NEW n \in Nat, NEW g, NEW h, GoAlike(g, h, n)
    PROVE  \A k \in 0 .. n : g[k] = h[k]
<1> USE DEF GoAlike
<1> DEFINE S == {k \in Nat : k <= n => g[k] = h[k]}
<1>1. 0 \in S
  OBVIOUS
<1>2. ASSUME NEW k \in Nat, k \in S PROVE k + 1 \in S
  <2>1. k + 1 <= n => k + 1 \in 1 .. n /\ (k + 1) - 1 = k /\ k <= n
    OBVIOUS
  <2> QED  BY <1>2, <2>1
<1>3. Nat \subseteq S
  <2> HIDE DEF S
  <2> QED  BY <1>1, <1>2, SetInduction
<1> QED  BY <1>3

\* A set that has the empty sequence and with each sequence the one with a
\* further element has every sequence.
LEMMA SeqInduction ==
    ASSUME NEW E, NEW S, <<>> \in S,
           \A p \in Seq(E) : \A x \in E : p \in S => Append(p, x) \in S
    PROVE  Seq(E) \subseteq S
<1> DEFINE N == {n \in Nat : \A p \in Seq(E) : Len(p) = n => p \in S}
<1>1. 0 \in N
  <2>1. \A p \in Seq(E) : Len(p) = 0 => p = <<>>
    OBVIOUS
  <2> QED  BY <2>1
<1>2. ASSUME NEW n \in Nat, n \in N PROVE n + 1 \in N
  <2>1. SUFFICES ASSUME NEW p \in Seq(E), Len(p) = n + 1 PROVE p \in S
    OBVIOUS
  <2>2. /\ SubSeq(p, 1, n) \in Seq(E) /\ Len(SubSeq(p, 1, n)) = n /\ p[n + 1] \in E
    BY <2>1
  <2>3. p = Append(SubSeq(p, 1, n), p[n + 1])
    BY <2>1, <2>2
  <2>4. SubSeq(p, 1, n) \in S
    BY <1>2, <2>2
  <2> QED  BY <2>2, <2>3, <2>4
<1>3. Nat \subseteq N
  <2> HIDE DEF N
  <2> QED  BY <1>1, <1>2, SetInduction
<1>4. \A p \in Seq(E) : Len(p) \in Nat
  OBVIOUS
<1> QED  BY <1>3, <1>4

\* A sequence of which every element is in a set is a sequence over this set.
LEMMA SeqOfElements ==
    ASSUME NEW E, NEW p \in Seq(E), NEW F, \A k \in 1 .. Len(p) : p[k] \in F
    PROVE  p \in Seq(F)
<1>1. Len(p) \in Nat /\ p = [k \in 1 .. Len(p) |-> p[k]]
  OBVIOUS
<1> QED  BY <1>1

LEMMA RangeOfAppend ==
    ASSUME NEW E, NEW p \in Seq(E), NEW x
    PROVE  Range(Append(p, x)) = Range(p) \cup {x}
<1>1. /\ DOMAIN p = 1 .. Len(p) /\ Len(p) \in Nat
      /\ DOMAIN Append(p, x) = 1 .. Len(p) + 1
      /\ \A k \in 1 .. Len(p) : Append(p, x)[k] = p[k]
      /\ Append(p, x)[Len(p) + 1] = x
  OBVIOUS
<1>2. 1 .. Len(p) + 1 = (1 .. Len(p)) \cup {Len(p) + 1}
  BY <1>1
<1> QED  BY <1>1, <1>2 DEF Range

=============================================================================

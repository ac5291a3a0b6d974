--------------------------- MODULE QuickFixProofs ---------------------------
(***************************************************************************)
(* Theorems about QuickFixWindows for every number of windows.             *)
(***************************************************************************)
EXTENDS QuickFixWindows, InductionProofs, FiniteSetTheorems, FunctionTheorems

(***************************************************************************)
(* Sequences without repetition.                                           *)
(***************************************************************************)
Distinct(q) == \A i, j \in 1 .. Len(q) : q[i] = q[j] => i = j

LEMMA SubSeqElements ==
    ASSUME NEW E, NEW q \in Seq(E), NEW p \in 1 .. Len(q) + 1, NEW n \in p - 1 .. Len(q)
    PROVE  /\ SubSeq(q, p, n) \in Seq(E) /\ Len(SubSeq(q, p, n)) = n - p + 1
           /\ \A k \in 1 .. n - p + 1 : SubSeq(q, p, n)[k] = q[k + p - 1]
<1>1. /\ Len(q) \in Nat /\ p \in Int /\ n \in Int
      /\ \A i \in p .. n : i \in 1 .. Len(q) /\ q[i] \in E
  OBVIOUS
<1>2. /\ SubSeq(q, p, n) \in Seq(E)
      /\ Len(SubSeq(q, p, n)) = IF p <= n THEN n - p + 1 ELSE 0
      /\ \A k \in 1 .. n - p + 1 : SubSeq(q, p, n)[k] = q[p + k - 1]
  BY <1>1, SubSeqProperties
<1>3. (IF p <= n THEN n - p + 1 ELSE 0) = n - p + 1
  BY <1>1
<1>4. \A k \in 1 .. n - p + 1 : p + k - 1 = k + p - 1
  BY <1>1
<1> QED  BY <1>2, <1>3, <1>4

LEMMA RemoveAtResult ==
    ASSUME NEW E, NEW q \in Seq(E), Distinct(q), NEW p \in 1 .. Len(q)
    PROVE  LET r == RemoveAt(q, p)
           IN  /\ r \in Seq(E) /\ Len(r) = Len(q) - 1 /\ Distinct(r)
               /\ \A k \in 1 .. Len(r) : r[k] = IF k < p THEN q[k] ELSE q[k + 1]
               /\ Range(r) = Range(q) \ {q[p]}
<1> DEFINE r == RemoveAt(q, p)
<1>1. Len(q) \in Nat /\ p \in Nat /\ DOMAIN q = 1 .. Len(q)
  OBVIOUS
<1>2. r = SubSeq(q, 1, p - 1) \o SubSeq(q, p + 1, Len(q))
  BY DEF RemoveAt
<1> HIDE DEF r
<1>3. /\ r \in Seq(E) /\ Len(r) = Len(q) - 1
      /\ \A k \in 1 .. Len(r) : r[k] = IF k < p THEN q[k] ELSE q[k + 1]
  <2> DEFINE a == SubSeq(q, 1, p - 1)
             c == SubSeq(q, p + 1, Len(q))
  <2>1. /\ a \in Seq(E) /\ Len(a) = p - 1 /\ \A k \in 1 .. p - 1 : a[k] = q[k]
        /\ c \in Seq(E) /\ Len(c) = Len(q) - p
        /\ \A k \in 1 .. Len(q) - p : c[k] = q[k + p]
    <3>1. /\ 1 \in 1 .. Len(q) + 1 /\ p - 1 \in 1 - 1 .. Len(q) /\ (p - 1) - 1 + 1 = p - 1
          /\ p + 1 \in 1 .. Len(q) + 1 /\ Len(q) \in (p + 1) - 1 .. Len(q)
          /\ Len(q) - (p + 1) + 1 = Len(q) - p
          /\ \A k \in Nat : k + 1 - 1 = k /\ k + (p + 1) - 1 = k + p
      BY <1>1
    <3>2. /\ a \in Seq(E) /\ Len(a) = (p - 1) - 1 + 1
          /\ \A k \in 1 .. (p - 1) - 1 + 1 : a[k] = q[k + 1 - 1]
      BY <3>1, SubSeqElements
    <3>3. \A m \in 1 .. Len(q) + 1, n \in 0 .. Len(q) : n >= m - 1 =>
             /\ SubSeq(q, m, n) \in Seq(E) /\ Len(SubSeq(q, m, n)) = n - m + 1
             /\ \A k \in 1 .. n - m + 1 : SubSeq(q, m, n)[k] = q[k + m - 1]
      BY SubSeqElements
    <3> PICK m \in 1 .. Len(q) + 1 : m = p + 1
      BY <3>1
    <3>4. /\ c \in Seq(E) /\ Len(c) = Len(q) - m + 1
          /\ \A k \in 1 .. Len(q) - m + 1 : c[k] = q[k + m - 1]
      <4>1. c = SubSeq(q, m, Len(q)) /\ Len(q) \in 0 .. Len(q) /\ Len(q) >= m - 1
        BY <1>1
      <4> QED  BY <3>3, <4>1
    <3> HIDE DEF a, c
    <3> QED  BY <1>1, <3>1, <3>2, <3>4
  <2> HIDE DEF a, c
  <2>2. /\ r \in Seq(E) /\ Len(r) = Len(q) - 1
        /\ \A k \in 1 .. Len(q) - 1 : r[k] = IF k <= p - 1 THEN a[k] ELSE c[k - (p - 1)]
    <3>1. r = a \o c
      BY <1>2 DEF a, c
    <3>2. Len(a) + Len(c) = Len(q) - 1 /\ Len(a) = p - 1
      BY <1>1, <2>1
    <3>3. a \o c \in Seq(E) /\ Len(a \o c) = Len(a) + Len(c)
          /\ \A k \in 1 .. Len(a) + Len(c) :
                (a \o c)[k] = IF k <= Len(a) THEN a[k] ELSE c[k - Len(a)]
      BY <2>1, ConcatProperties
    <3> QED  BY <3>1, <3>2, <3>3
  <2>3. ASSUME NEW k \in 1 .. Len(r)
        PROVE  r[k] = IF k < p THEN q[k] ELSE q[k + 1]
    <3>1. CASE k < p
      <4>1. k \in 1 .. p - 1 /\ k <= p - 1 /\ k \in 1 .. Len(q) - 1
        BY <1>1, <2>2, <3>1
      <4> QED  BY <2>1, <2>2, <3>1, <4>1
    <3>2. CASE ~(k < p)
      <4>1. /\ k - (p - 1) \in 1 .. Len(q) - p /\ ~(k <= p - 1)
            /\ (k - (p - 1)) + p = k + 1 /\ k \in 1 .. Len(q) - 1
        BY <1>1, <2>2, <3>2
      <4> QED  BY <2>1, <2>2, <3>2, <4>1
    <3> QED  BY <3>1, <3>2
  <2> QED  BY <2>2, <2>3
<1>4. Distinct(r)
  <2>1. ASSUME NEW k \in 1 .. Len(r)
        PROVE  \E m \in 1 .. Len(q) : r[k] = q[m] /\ m = IF k < p THEN k ELSE k + 1
    <3> PICK m : m = IF k < p THEN k ELSE k + 1
      OBVIOUS
    <3>1. m \in 1 .. Len(q)
      BY <1>1, <1>3
    <3> QED  BY <1>3, <3>1
  <2>2. ASSUME NEW i \in 1 .. Len(r), NEW j \in 1 .. Len(r), r[i] = r[j] PROVE i = j
    <3>1. PICK a \in 1 .. Len(q) : r[i] = q[a] /\ a = IF i < p THEN i ELSE i + 1
      BY <2>1
    <3>2. PICK b \in 1 .. Len(q) : r[j] = q[b] /\ b = IF j < p THEN j ELSE j + 1
      BY <2>1
    <3>3. a = b
      BY <2>2, <3>1, <3>2 DEF Distinct
    <3> QED  BY <1>1, <3>1, <3>2, <3>3
  <2> QED  BY <2>2 DEF Distinct
<1>5. DOMAIN r = 1 .. Len(r)
  BY <1>3
<1>6. ASSUME NEW x \in Range(r) PROVE x \in Range(q) \ {q[p]}
  <2>1. PICK k \in 1 .. Len(r) : x = r[k]
    BY <1>5 DEF Range
  <2>2. PICK m \in 1 .. Len(q) : x = q[m] /\ m # p
    <3>1. CASE k < p
      BY <1>1, <1>3, <2>1, <3>1
    <3>2. CASE ~(k < p)
      <4>1. k + 1 \in 1 .. Len(q) /\ k + 1 # p /\ x = q[k + 1]
        BY <1>1, <1>3, <2>1, <3>2
      <4> QED  BY <4>1
    <3> QED  BY <3>1, <3>2
  <2> QED  BY <1>1, <2>2 DEF Range, Distinct
<1>7. ASSUME NEW x \in Range(q) \ {q[p]} PROVE x \in Range(r)
  <2>1. PICK m \in 1 .. Len(q) : x = q[m] /\ m # p
    BY <1>1 DEF Range
  <2>2. PICK k \in 1 .. Len(r) : x = r[k]
    <3>1. CASE m < p
      BY <1>1, <1>3, <2>1, <3>1
    <3>2. CASE m > p
      <4>1. m - 1 \in 1 .. Len(r) /\ ~(m - 1 < p) /\ (m - 1) + 1 = m
        BY <1>1, <1>3, <2>1, <3>2
      <4> QED  BY <1>3, <2>1, <4>1
    <3> QED  BY <1>1, <2>1, <3>1, <3>2
  <2> QED  BY <1>5, <2>2 DEF Range
<1> QED  BY <1>3, <1>4, <1>6, <1>7 DEF r

LEMMA InsertAtResult ==
    ASSUME NEW E, NEW q \in Seq(E), Distinct(q), NEW w \in E, w \notin Range(q),
           NEW p \in 1 .. Len(q) + 1
    PROVE  LET r == InsertAt(q, p, w)
           IN  /\ r \in Seq(E) /\ Len(r) = Len(q) + 1 /\ Distinct(r)
               /\ \A k \in 1 .. Len(r) : r[k] = IF k < p THEN q[k] ELSE
                                                IF k = p THEN w ELSE q[k - 1]
               /\ Range(r) = Range(q) \cup {w}
<1> DEFINE r == InsertAt(q, p, w)
           one == <<w>>
<1>1. Len(q) \in Nat /\ p \in Nat /\ DOMAIN q = 1 .. Len(q)
  OBVIOUS
<1>2. r = SubSeq(q, 1, p - 1) \o one \o SubSeq(q, p, Len(q))
  BY DEF InsertAt
<1>3. one \in Seq(E) /\ Len(one) = 1 /\ one[1] = w
  OBVIOUS
<1> HIDE DEF r, one
<1>4. /\ r \in Seq(E) /\ Len(r) = Len(q) + 1
      /\ \A k \in 1 .. Len(r) : r[k] = IF k < p THEN q[k] ELSE
                                       IF k = p THEN w ELSE q[k - 1]
  <2> DEFINE a == SubSeq(q, 1, p - 1)
             c == SubSeq(q, p, Len(q))
  <2>1. /\ a \in Seq(E) /\ Len(a) = p - 1 /\ \A k \in 1 .. p - 1 : a[k] = q[k]
        /\ c \in Seq(E) /\ Len(c) = Len(q) - p + 1
        /\ \A k \in 1 .. Len(q) - p + 1 : c[k] = q[k + p - 1]
    BY <1>1
  <2> HIDE DEF a, c
  <2>2. /\ a \o one \in Seq(E) /\ Len(a \o one) = p
        /\ \A k \in 1 .. p : (a \o one)[k] = IF k < p THEN q[k] ELSE w
    <3>1. Len(a) + Len(one) = p /\ Len(a) = p - 1
      BY <1>1, <1>3, <2>1
    <3>2. /\ a \o one \in Seq(E) /\ Len(a \o one) = p
          /\ \A k \in 1 .. p : (a \o one)[k] = IF k <= p - 1 THEN a[k] ELSE one[k - (p - 1)]
      <4>1. a \o one \in Seq(E) /\ Len(a \o one) = Len(a) + Len(one)
          /\ \A k \in 1 .. Len(a) + Len(one) :
                (a \o one)[k] = IF k <= Len(a) THEN a[k] ELSE one[k - Len(a)]
        BY <1>3, <2>1, ConcatProperties
      <4> QED  BY <3>1, <4>1
    <3>3. ASSUME NEW k \in 1 .. p
          PROVE  (a \o one)[k] = IF k < p THEN q[k] ELSE w
      <4>1. CASE k < p
        <5>1. k \in 1 .. p - 1 /\ k <= p - 1
          BY <1>1, <4>1
        <5> QED  BY <2>1, <3>2, <4>1, <5>1
      <4>2. CASE k = p
        <5>1. ~(k <= p - 1) /\ k - (p - 1) = 1
          BY <1>1, <4>2
        <5>2. (a \o one)[k] = one[k - (p - 1)]
          BY <3>2, <5>1
        <5>3. one[k - (p - 1)] = w /\ ~(k < p)
          BY <1>1, <1>3, <4>2, <5>1
        <5> QED  BY <5>2, <5>3
      <4>3. k < p \/ k = p
        BY <1>1
      <4> QED  BY <4>1, <4>2, <4>3
    <3> QED  BY <3>2, <3>3
  <2> DEFINE d == a \o one
  <2>3. r = d \o c /\ d \in Seq(E) /\ Len(d) = p
        /\ \A k \in 1 .. p : d[k] = IF k < p THEN q[k] ELSE w
    BY <1>2, <2>2 DEF a, c
  <2> HIDE DEF d
  <2>4. /\ r \in Seq(E) /\ Len(r) = Len(q) + 1
        /\ \A k \in 1 .. Len(r) : r[k] = IF k <= p THEN d[k] ELSE c[k - p]
    <3>1. Len(d) + Len(c) = Len(q) + 1
      BY <1>1, <2>1, <2>3
    <3>2. d \o c \in Seq(E) /\ Len(d \o c) = Len(q) + 1
          /\ \A k \in 1 .. Len(q) + 1 : (d \o c)[k] = IF k <= p THEN d[k] ELSE c[k - p]
      <4>1. d \o c \in Seq(E) /\ Len(d \o c) = Len(d) + Len(c)
          /\ \A k \in 1 .. Len(d) + Len(c) :
                (d \o c)[k] = IF k <= Len(d) THEN d[k] ELSE c[k - Len(d)]
        <5>1. d \in Seq(E) /\ c \in Seq(E)
          BY <2>1, <2>3
        <5> QED  BY <5>1, ConcatProperties
      <4> QED  BY <2>3, <3>1, <4>1
    <3> QED  BY <2>3, <3>2
  <2>5. ASSUME NEW k \in 1 .. Len(r)
        PROVE  r[k] = IF k < p THEN q[k] ELSE IF k = p THEN w ELSE q[k - 1]
    <3>1. CASE k <= p
      BY <1>1, <2>3, <2>4, <3>1
    <3>2. CASE ~(k <= p)
      <4>1. k - p \in 1 .. Len(q) - p + 1 /\ (k - p) + p - 1 = k - 1
        BY <1>1, <2>4, <3>2
      <4>2. c[k - p] = q[k - 1]
        BY <2>1, <4>1
      <4> QED  BY <1>1, <2>4, <3>2, <4>2
    <3> QED  BY <3>1, <3>2
  <2> QED  BY <2>4, <2>5
<1>5. DOMAIN r = 1 .. Len(r)
  BY <1>4
<1>6. \A k \in 1 .. Len(q) : q[k] \in Range(q) /\ q[k] # w
  BY <1>1 DEF Range
<1>7. Distinct(r)
  <2>1. ASSUME NEW k \in 1 .. Len(r), k # p
        PROVE  \E m \in 1 .. Len(q) : r[k] = q[m] /\ m = IF k < p THEN k ELSE k - 1
    <3> PICK m : m = IF k < p THEN k ELSE k - 1
      OBVIOUS
    <3>1. m \in 1 .. Len(q)
      BY <1>1, <1>4, <2>1
    <3> QED  BY <1>4, <2>1, <3>1
  <2>2. ASSUME NEW k \in 1 .. Len(r) PROVE r[k] = w <=> k = p
    <3>1. CASE k = p
      BY <1>1, <1>4, <3>1
    <3>2. CASE k # p
      BY <1>6, <2>1, <3>2
    <3> QED  BY <3>1, <3>2
  <2>3. ASSUME NEW i \in 1 .. Len(r), NEW j \in 1 .. Len(r), r[i] = r[j] PROVE i = j
    <3>1. CASE i = p \/ j = p
      BY <2>2, <2>3, <3>1
    <3>2. CASE i # p /\ j # p
      <4>1. PICK a \in 1 .. Len(q) : r[i] = q[a] /\ a = IF i < p THEN i ELSE i - 1
        BY <2>1, <3>2
      <4>2. PICK b \in 1 .. Len(q) : r[j] = q[b] /\ b = IF j < p THEN j ELSE j - 1
        BY <2>1, <3>2
      <4>3. a = b
        BY <2>3, <4>1, <4>2 DEF Distinct
      <4> QED  BY <1>1, <3>2, <4>1, <4>2, <4>3
    <3> QED  BY <3>1, <3>2
  <2> QED  BY <2>3 DEF Distinct
<1>8. ASSUME NEW x \in Range(r) PROVE x \in Range(q) \cup {w}
  <2>1. PICK k \in 1 .. Len(r) : x = r[k]
    BY <1>5 DEF Range
  <2>2. x = w \/ \E m \in 1 .. Len(q) : x = q[m]
    BY <1>1, <1>4, <2>1
  <2> QED  BY <1>6, <2>2
<1>9. ASSUME NEW x \in Range(q) \cup {w} PROVE x \in Range(r)
  <2>1. CASE x = w
    BY <1>1, <1>4, <1>5, <2>1 DEF Range
  <2>2. CASE x \in Range(q)
    <3>1. PICK m \in 1 .. Len(q) : x = q[m]
      BY <1>1, <2>2 DEF Range
    <3>2. PICK k \in 1 .. Len(r) : x = r[k]
      <4>1. CASE m < p
        BY <1>1, <1>4, <3>1, <4>1
      <4>2. CASE m >= p
        <5>1. m + 1 \in 1 .. Len(r) /\ ~(m + 1 < p) /\ m + 1 # p /\ (m + 1) - 1 = m
          BY <1>1, <1>4, <3>1, <4>2
        <5> QED  BY <1>4, <3>1, <5>1
      <4> QED  BY <1>1, <4>1, <4>2
    <3> QED  BY <1>5, <3>2 DEF Range
  <2> QED  BY <2>1, <2>2
<1> QED  BY <1>4, <1>7, <1>8, <1>9 DEF r

\* Removing what was inserted leaves the sequence there was.
LEMMA RemoveInserted ==
    ASSUME NEW E, NEW q \in Seq(E), Distinct(q), NEW w \in E, w \notin Range(q),
           NEW p \in 1 .. Len(q) + 1
    PROVE  RemoveAt(InsertAt(q, p, w), p) = q
<1> DEFINE r == InsertAt(q, p, w)
           s == RemoveAt(r, p)
<1>1. /\ r \in Seq(E) /\ Len(r) = Len(q) + 1 /\ Distinct(r)
      /\ \A k \in 1 .. Len(r) : r[k] = IF k < p THEN q[k] ELSE
                                       IF k = p THEN w ELSE q[k - 1]
  BY InsertAtResult
<1>2. Len(q) \in Nat /\ p \in 1 .. Len(r)
  BY <1>1
<1> HIDE DEF r
<1>3. /\ s \in Seq(E) /\ Len(s) = Len(r) - 1
      /\ \A k \in 1 .. Len(s) : s[k] = IF k < p THEN r[k] ELSE r[k + 1]
  BY <1>1, <1>2, RemoveAtResult
<1> HIDE DEF s
<1>4. Len(s) = Len(q)
  BY <1>1, <1>2, <1>3
<1>5. ASSUME NEW k \in 1 .. Len(q) PROVE s[k] = q[k]
  <2>1. k \in 1 .. Len(r) /\ k + 1 \in 1 .. Len(r) /\ k \in 1 .. Len(s)
    BY <1>1, <1>2, <1>4
  <2>2. CASE k < p
    BY <1>1, <1>3, <2>1, <2>2
  <2>3. CASE ~(k < p)
    <3>1. ~(k + 1 < p) /\ k + 1 # p /\ (k + 1) - 1 = k
      BY <1>2, <2>3
    <3>2. s[k] = r[k + 1]
      BY <1>3, <2>1, <2>3
    <3>3. r[k + 1] = q[(k + 1) - 1]
      BY <1>1, <2>1, <3>1
    <3> QED  BY <3>1, <3>2, <3>3
  <2> QED  BY <2>2, <2>3
<1> QED  BY <1>3, <1>4, <1>5, SeqEqual DEF s, r

-----------------------------------------------------------------------------
(***************************************************************************)
(* The inductive invariant.  Windows are listed once, the current one is    *)
(* listed and so is the previous one unless it was closed; a list has one   *)
(* window at most, so that closing "the" window of a list closes every one. *)
(***************************************************************************)
Kinds == {"file", "quickfix", "location"}

Vim == [order : Seq(Windows), kind : [Windows -> Kinds],
        list : [Windows -> Windows \cup {NoList}],
        cur : Windows, prev : Windows \cup {NoWin}]

OneWindowPerList(s) ==
    \A v, w \in Range(s.order) :
        /\ s.kind[v] = "location" => s.list[v] # NoList
        /\ s.kind[v] = "location" /\ s.kind[w] = "location" /\ s.list[v] = s.list[w]
              => v = w

Sound(s) ==
    /\ s \in Vim
    /\ Distinct(s.order)
    /\ s.cur \in Range(s.order)
    /\ s.prev \in Range(s.order) \cup {NoWin}
    /\ OneWindowPerList(s)

\* The same windows, each of its kind and with its list.
Alike(s, t) ==
    /\ t.order = s.order
    /\ \A w \in Range(s.order) : t.kind[w] = s.kind[w] /\ t.list[w] = s.list[w]

LEMMA WindowsAssumed ==
    /\ Windows \subseteq Nat /\ NoWin \notin Windows /\ NoList \notin Windows
    /\ Global \notin Windows /\ NoList # Global
  BY MaxWinsAssumption DEF Windows, NoWin, NoList, Global

LEMMA OrderResult ==
    ASSUME NEW s, Sound(s)
    PROVE  /\ s.order \in Seq(Windows) /\ Len(s.order) \in Nat \ {0}
           /\ DOMAIN s.order = 1 .. Len(s.order)
           /\ Range(s.order) \subseteq Windows
<1>1. s.order \in Seq(Windows) /\ s.cur \in Range(s.order)
  BY DEF Sound, Vim
<1>2. DOMAIN s.order = 1 .. Len(s.order) /\ Len(s.order) \in Nat
      /\ \A k \in 1 .. Len(s.order) : s.order[k] \in Windows
  BY <1>1
<1> QED  BY <1>1, <1>2 DEF Range

LEMMA PlaceResult ==
    ASSUME NEW s, Sound(s), NEW w \in Range(s.order)
    PROVE  /\ Place(s, w) \in 1 .. Len(s.order) /\ s.order[Place(s, w)] = w
           /\ \A k \in 1 .. Len(s.order) : s.order[k] = w => k = Place(s, w)
<1>1. DOMAIN s.order = 1 .. Len(s.order) /\ Distinct(s.order)
  BY OrderResult DEF Sound
<1>2. \E k \in DOMAIN s.order : s.order[k] = w
  BY DEF Range
<1>3. Place(s, w) \in DOMAIN s.order /\ s.order[Place(s, w)] = w
  BY <1>2 DEF Place
<1> QED  BY <1>1, <1>3 DEF Distinct

LEMMA OrderWithoutResult ==
    ASSUME NEW s, Sound(s), NEW w \in Range(s.order)
    PROVE  /\ OrderWithout(s, w) \in Seq(Windows)
           /\ Len(OrderWithout(s, w)) = Len(s.order) - 1
           /\ Distinct(OrderWithout(s, w))
           /\ Range(OrderWithout(s, w)) = Range(s.order) \ {w}
<1>1. s.order \in Seq(Windows) /\ Distinct(s.order)
  BY OrderResult DEF Sound
<1> PICK p : p = Place(s, w)
  OBVIOUS
<1> PICK q : q = s.order
  OBVIOUS
<1>2. q \in Seq(Windows) /\ Distinct(q) /\ p \in 1 .. Len(q) /\ q[p] = w
  BY <1>1, PlaceResult
<1> PICK r : r = RemoveAt(q, p)
  OBVIOUS
<1>3. /\ r \in Seq(Windows) /\ Len(r) = Len(q) - 1 /\ Distinct(r)
      /\ Range(r) = Range(q) \ {q[p]}
  BY <1>2, RemoveAtResult
<1> QED  BY <1>2, <1>3 DEF OrderWithout

\* CTRL-W w changes the current and the previous window, nothing else.
LEMMA GotoResult ==
    ASSUME NEW s, Sound(s), NEW w \in Range(s.order)
    PROVE  /\ Sound(Goto(s, w)) /\ Alike(s, Goto(s, w))
           /\ Goto(s, w).cur = w
           /\ Goto(s, w).prev = IF w = s.cur THEN s.prev ELSE s.cur
<1>1. CASE w = s.cur
  BY <1>1 DEF Goto, Alike
<1>2. CASE w # s.cur
  <2>1. Goto(s, w) = [order |-> s.order, kind |-> s.kind, list |-> s.list,
                      cur |-> w, prev |-> s.cur]
    BY <1>2 DEF Goto, Sound, Vim
  <2>2. w \in Windows /\ s.cur \in Windows
    BY OrderResult DEF Sound
  <2> QED  BY <1>2, <2>1, <2>2 DEF Sound, Vim, OneWindowPerList, Alike
<1> QED  BY <1>1, <1>2

LEMMA BackResult ==
    ASSUME NEW s, Sound(s)
    PROVE  /\ Sound(Back(s)) /\ Alike(s, Back(s))
           /\ s.prev # NoWin => Back(s).cur = s.prev
<1>1. CASE s.prev = NoWin
  BY <1>1 DEF Back, Alike
<1>2. CASE s.prev # NoWin
  <2>1. s.prev \in Range(s.order)
    BY <1>2 DEF Sound
  <2> QED  BY <1>2, <2>1, GotoResult DEF Back
<1> QED  BY <1>1, <1>2

\* What closing window w of s leaves.
Closed(s, w, t) ==
    /\ Range(s.order) = {w} => t = s
    /\ Range(s.order) # {w} =>
          /\ t.order = OrderWithout(s, w)
          /\ Len(t.order) = Len(s.order) - 1
          /\ Range(t.order) = Range(s.order) \ {w}
          /\ \A v \in Range(t.order) : t.kind[v] = s.kind[v] /\ t.list[v] = s.list[v]
          /\ w # s.cur => t.cur = s.cur

\* What opening window w of s at place i leaves.
OpenedAt(s, i, w, kind, list, t) ==
    /\ w \in Windows \ Range(s.order)
    /\ t.order = InsertAt(s.order, i, w)
    /\ Len(t.order) = Len(s.order) + 1
    /\ t.order[i] = w
    /\ Range(t.order) = Range(s.order) \cup {w}
    /\ t.cur = w /\ t.prev = s.cur
    /\ t.kind[w] = kind /\ t.list[w] = list
    /\ \A v \in Range(s.order) : t.kind[v] = s.kind[v] /\ t.list[v] = s.list[v]

\* A window that can be opened: its list, if it is a location window, has none.
MayOpen(s, w, kind, list) ==
    /\ w \in Windows \ Range(s.order)
    /\ kind \in Kinds /\ list \in Windows \cup {NoList}
    /\ kind = "location" =>
          /\ list # NoList
          /\ \A v \in Range(s.order) : s.kind[v] = "location" => s.list[v] # list

LEMMA OpenedResult ==
    ASSUME NEW s, Sound(s), NEW i \in 1 .. Len(s.order) + 1, NEW w, NEW kind, NEW list,
           MayOpen(s, w, kind, list)
    PROVE  /\ Sound(Opened(s, i, w, kind, list))
           /\ OpenedAt(s, i, w, kind, list, Opened(s, i, w, kind, list))
<1> DEFINE t == Opened(s, i, w, kind, list)
           r == InsertAt(s.order, i, w)
<1>1. t = [order |-> r, kind |-> [s.kind EXCEPT ![w] = kind],
           list |-> [s.list EXCEPT ![w] = list], cur |-> w, prev |-> s.cur]
  <2>1. s \in Vim
    BY DEF Sound
  <2>2. t = [s EXCEPT !.order = r, !.kind[w] = kind, !.list[w] = list,
                      !.cur = w, !.prev = s.cur]
    BY DEF Opened
  <2> HIDE DEF r, t
  <2> QED  BY <2>1, <2>2 DEF Vim
<1>2. /\ s.order \in Seq(Windows) /\ Distinct(s.order) /\ w \in Windows
      /\ w \notin Range(s.order)
  BY OrderResult DEF Sound, MayOpen
<1>3. /\ r \in Seq(Windows) /\ Len(r) = Len(s.order) + 1 /\ Distinct(r)
      /\ \A k \in 1 .. Len(r) : r[k] = IF k < i THEN s.order[k] ELSE
                                       IF k = i THEN w ELSE s.order[k - 1]
      /\ Range(r) = Range(s.order) \cup {w}
  BY <1>2, InsertAtResult
<1>4. t.order = r /\ t.cur = w /\ t.prev = s.cur
  BY <1>1
<1> HIDE DEF r
<1>5. r[i] = w
  <2>1. i \in 1 .. Len(r) /\ ~(i < i)
    BY <1>3, OrderResult
  <2> QED  BY <1>3, <2>1
<1>6. /\ t.kind \in [Windows -> Kinds] /\ t.list \in [Windows -> Windows \cup {NoList}]
      /\ t.kind[w] = kind /\ t.list[w] = list
      /\ \A v \in Range(s.order) : t.kind[v] = s.kind[v] /\ t.list[v] = s.list[v]
  <2>1. /\ s.kind \in [Windows -> Kinds] /\ s.list \in [Windows -> Windows \cup {NoList}]
        /\ Range(s.order) \subseteq Windows
    BY OrderResult DEF Sound, Vim
  <2>2. kind \in Kinds /\ list \in Windows \cup {NoList}
    BY DEF MayOpen
  <2>3. t.kind = [s.kind EXCEPT ![w] = kind] /\ t.list = [s.list EXCEPT ![w] = list]
    BY <1>1
  <2> HIDE DEF t
  <2> QED  BY <1>2, <2>1, <2>2, <2>3
<1>7. t \in Vim
  <2>1. s.cur \in Windows
    BY DEF Sound, Vim
  <2> HIDE DEF Kinds
  <2> QED  BY <1>1, <1>2, <1>3, <1>4, <1>6, <2>1 DEF Vim
<1> HIDE DEF t
<1>8. OneWindowPerList(t)
  <2>1. \A v \in Range(s.order) \cup {w}, x \in Range(s.order) \cup {w} :
           /\ t.kind[v] = "location" => t.list[v] # NoList
           /\ t.kind[v] = "location" /\ t.kind[x] = "location" /\ t.list[v] = t.list[x]
                 => v = x
    BY <1>6 DEF MayOpen, Sound, OneWindowPerList
  <2> QED  BY <1>3, <1>4, <2>1 DEF OneWindowPerList
<1>9. Sound(t)
  BY <1>3, <1>4, <1>7, <1>8 DEF Sound
<1>10. OpenedAt(s, i, w, kind, list, t)
  BY <1>2, <1>3, <1>4, <1>5, <1>6 DEF OpenedAt, r
<1> QED  BY <1>9, <1>10 DEF t

\* Closing a window, unless it is the only one.
LEMMA CloseResult ==
    ASSUME NEW s, Sound(s), NEW w \in Range(s.order), NEW t \in Close(s, w)
    PROVE  Sound(t) /\ Closed(s, w, t)
<1> DEFINE left == Range(s.order) \ {w}
           r == OrderWithout(s, w)
           kinds == [s.kind EXCEPT ![w] = "file"]
           lists == [s.list EXCEPT ![w] = NoList]
<1>1. CASE left = {}
  <2>1. t = s /\ Range(s.order) = {w}
    BY <1>1 DEF Close
  <2> QED  BY <2>1 DEF Closed
<1>2. CASE left # {}
  <2>1. Range(s.order) # {w}
    BY <1>2
  <2>2. /\ r \in Seq(Windows) /\ Len(r) = Len(s.order) - 1 /\ Distinct(r)
        /\ Range(r) = left
    BY OrderWithoutResult
  <2>3. s \in Vim /\ Range(s.order) \subseteq Windows /\ left \subseteq Windows
    BY OrderResult DEF Sound
  <2>4. PICK c, p : /\ t = [order |-> r, kind |-> kinds, list |-> lists, cur |-> c, prev |-> p]
                    /\ c \in left /\ p \in left \cup {NoWin}
                    /\ w # s.cur => c = s.cur
    <3> HIDE DEF r
    <3>1. CASE w = s.cur
      <4>1. PICK c \in left, p \in left \cup {NoWin} :
               t = [[s EXCEPT !.order = r, !.kind[w] = "file", !.list[w] = NoList]
                       EXCEPT !.cur = c, !.prev = p]
        <5> DEFINE rest == [s EXCEPT !.order = OrderWithout(s, w),
                                     !.kind[w] = "file", !.list[w] = NoList]
        <5>1. t \in UNION {{[rest EXCEPT !.cur = c, !.prev = p]
                               : p \in left \cup {NoWin}} : c \in left}
          BY <1>2, <3>1 DEF Close
        <5> HIDE DEF rest
        <5>2. \E c \in left, p \in left \cup {NoWin} : t = [rest EXCEPT !.cur = c, !.prev = p]
          BY <5>1
        <5> QED  BY <5>2 DEF rest, r
      <4>2. t = [order |-> r, kind |-> kinds, list |-> lists, cur |-> c, prev |-> p]
        BY <2>3, <4>1 DEF Vim
      <4> QED  BY <3>1, <4>1, <4>2
    <3>2. CASE w # s.cur
      <4>1. t = [[s EXCEPT !.order = r, !.kind[w] = "file", !.list[w] = NoList]
                    EXCEPT !.prev = IF @ = w THEN NoWin ELSE @]
        BY <1>2, <3>2 DEF Close, r
      <4>2. t = [order |-> r, kind |-> kinds, list |-> lists, cur |-> s.cur,
                 prev |-> IF s.prev = w THEN NoWin ELSE s.prev]
        BY <2>3, <4>1 DEF Vim
      <4>3. s.cur \in left /\ (IF s.prev = w THEN NoWin ELSE s.prev) \in left \cup {NoWin}
        BY <3>2 DEF Sound
      <4> QED  BY <4>2, <4>3
    <3> QED  BY <3>1, <3>2
  <2> HIDE DEF r
  <2>5. t.order = r /\ t.cur = c /\ t.prev = p /\ t.kind = kinds /\ t.list = lists
    BY <2>4
  <2>6. /\ kinds \in [Windows -> Kinds] /\ lists \in [Windows -> Windows \cup {NoList}]
        /\ \A v \in left : kinds[v] = s.kind[v] /\ lists[v] = s.list[v]
    BY <2>3 DEF Vim, Kinds
  <2> HIDE DEF kinds, lists
  <2>7. t \in Vim
    <3> HIDE DEF Kinds, left
    <3> QED  BY <2>2, <2>3, <2>4, <2>6 DEF Vim
  <2>8. \A v \in left : t.kind[v] = s.kind[v] /\ t.list[v] = s.list[v]
    BY <2>5, <2>6
  <2>9. OneWindowPerList(t)
    BY <2>2, <2>5, <2>8 DEF Sound, OneWindowPerList
  <2>10. Sound(t)
    BY <2>2, <2>4, <2>5, <2>7, <2>9 DEF Sound
  <2> QED  BY <2>1, <2>2, <2>4, <2>5, <2>8, <2>10 DEF Closed, r
<1> QED  BY <1>1, <1>2

LEMMA IntervalSize ==
    ASSUME NEW m \in Nat
    PROVE  IsFiniteSet(1 .. m) /\ Cardinality(1 .. m) = m
<1>1. IsFiniteSet(1 .. m) /\ Cardinality(1 .. m) = IF 1 > m THEN 0 ELSE m - 1 + 1
  <2>1. 1 \in Int /\ m \in Int
    OBVIOUS
  <2> QED  BY <2>1, FS_Interval
<1> QED  BY <1>1

\* There is room for a window more: each open window takes one id, and the list
\* it uses another one at most.
LEMMA FreeResult ==
    ASSUME NEW s, Sound(s), Len(s.order) < MaxWins
    PROVE  FreeWindow(s) \in Windows \ (Range(s.order) \cup LiveLists(s))
<1> DEFINE used == Range(s.order) \cup LiveLists(s)
           n == Len(s.order)
           f == [k \in 1 .. n + n |-> IF k <= n THEN s.order[k] ELSE s.list[s.order[k - n]]]
<1>1. n \in Nat /\ DOMAIN s.order = 1 .. n /\ n < MaxWins /\ MaxWins \in Nat
  BY OrderResult, MaxWinsAssumption
<1>2. f \in Surjection(1 .. n + n, used)
  <2>1. ASSUME NEW k \in 1 .. n + n PROVE f[k] \in used
    <3>1. CASE k <= n
      <4>1. k \in DOMAIN s.order
        BY <1>1, <3>1
      <4> QED  BY <3>1, <4>1 DEF Range
    <3>2. CASE ~(k <= n)
      <4>1. k - n \in DOMAIN s.order
        BY <1>1, <3>2
      <4>2. s.order[k - n] \in Range(s.order)
        BY <4>1 DEF Range
      <4> QED  BY <3>2, <4>2 DEF LiveLists
    <3> QED  BY <3>1, <3>2
  <2>2. ASSUME NEW x \in used PROVE \E k \in 1 .. n + n : f[k] = x
    <3>1. CASE x \in Range(s.order)
      <4>1. PICK k \in 1 .. n : x = s.order[k]
        BY <1>1, <3>1 DEF Range
      <4>2. k \in 1 .. n + n /\ k <= n
        BY <1>1
      <4> QED  BY <4>1, <4>2
    <3>2. CASE x \in LiveLists(s)
      <4>1. PICK k \in 1 .. n : x = s.list[s.order[k]]
        BY <1>1, <3>2 DEF LiveLists, Range
      <4>2. k + n \in 1 .. n + n /\ ~(k + n <= n) /\ (k + n) - n = k
        BY <1>1
      <4> QED  BY <4>1, <4>2
    <3> QED  BY <3>1, <3>2
  <2>3. f \in [1 .. n + n -> used]
    <3> HIDE DEF used
    <3> QED  BY <2>1
  <2> HIDE DEF f, used
  <2> QED  BY <2>2, <2>3, Fun_IsSurj
<1> HIDE DEF f
<1>3. IsFiniteSet(1 .. n + n) /\ Cardinality(1 .. n + n) = n + n
  <2> PICK m \in Nat : m = n + n
    BY <1>1
  <2> QED  BY IntervalSize
<1>4. IsFiniteSet(used) /\ Cardinality(used) <= n + n
  <2> HIDE DEF used
  <2> QED  BY <1>2, <1>3, FS_Surjection
<1>5. IsFiniteSet(Windows) /\ Cardinality(Windows) = 2 * MaxWins
  <2> PICK m \in Nat : m = 2 * MaxWins
    BY MaxWinsAssumption
  <2> QED  BY IntervalSize DEF Windows
<1>6. Windows \ used # {}
  <2>1. SUFFICES ASSUME Windows \subseteq used PROVE FALSE
    OBVIOUS
  <2>2. Cardinality(Windows) <= Cardinality(used)
    <3> HIDE DEF used
    <3> QED  BY <1>4, <2>1, FS_Subset
  <2>3. Cardinality(used) \in Nat
    <3> HIDE DEF used
    <3> QED  BY <1>4, FS_CardinalityType
  <2> QED  BY <1>1, <1>4, <1>5, <2>2, <2>3
<1>7. Windows \ used \in SUBSET Nat
  BY WindowsAssumed
<1>8. Min(Windows \ used) \in Windows \ used
  <2> HIDE DEF used
  <2> QED  BY <1>6, <1>7, MinOfSet
<1> QED  BY <1>8 DEF FreeWindow

(***************************************************************************)
(* Going through windows changes nothing but the current and previous one. *)
(***************************************************************************)
LEMMA AlikeTransitive ==
    ASSUME NEW s, NEW t, NEW u, Alike(s, t), Alike(t, u)
    PROVE  Alike(s, u)
  BY DEF Alike

LEMMA AlikeLists ==
    ASSUME NEW s, NEW t, Alike(s, t)
    PROVE  /\ QuickFixWins(t) = QuickFixWins(s) /\ LiveLists(t) = LiveLists(s)
           /\ t.list[t.cur] = s.list[s.cur] =>
                 HasLocList(t) = HasLocList(s) /\ LocWins(t) = LocWins(s)
<1>1. QuickFixWins(t) = QuickFixWins(s)
  BY DEF Alike, QuickFixWins
<1>2. LiveLists(t) = LiveLists(s)
  BY DEF Alike, LiveLists
<1>3. ASSUME t.list[t.cur] = s.list[s.cur]
      PROVE  HasLocList(t) = HasLocList(s) /\ LocWins(t) = LocWins(s)
  BY <1>3 DEF Alike, HasLocList, LocWins
<1> QED  BY <1>1, <1>2, <1>3

Visit(s, q) == FoldLeft(Goto, s, q)

LEMMA VisitResult ==
    ASSUME NEW s, Sound(s), NEW q \in Seq(Range(s.order))
    PROVE  Sound(Visit(s, q)) /\ Alike(s, Visit(s, q))
<1> DEFINE n == Len(q)
           X == {t \in Vim : Sound(t) /\ Alike(s, t)}
           step == [a \in X \X (1 .. n) |-> Goto(a[1], q[a[2]])]
<1>1. n \in Nat /\ DOMAIN q = 1 .. n /\ \A k \in 1 .. n : q[k] \in Range(s.order)
  OBVIOUS
<1>2. s \in X
  BY DEF Alike, Sound
<1>3. ASSUME NEW t \in X, NEW w \in Range(s.order) PROVE Goto(t, w) \in X
  <2>1. Sound(t) /\ Alike(s, t) /\ w \in Range(t.order)
    BY DEF Alike
  <2>2. Sound(Goto(t, w)) /\ Alike(t, Goto(t, w))
    BY <2>1, GotoResult
  <2> QED  BY <2>1, <2>2, AlikeTransitive DEF Sound
<1> HIDE DEF X
<1>4. step \in [X \X (1 .. n) -> X]
  <2>1. ASSUME NEW a \in X \X (1 .. n) PROVE Goto(a[1], q[a[2]]) \in X
    BY <1>1, <1>3
  <2> QED  BY <2>1
<1>5. PICK h : IsFold(h, n, X, s, step)
  <2> HIDE DEF step, n
  <2> QED  BY <1>1, <1>2, <1>4, FoldExists
<1>6. ASSUME NEW T \in SUBSET (1 .. n), T # {}
      PROVE  h[T] = Goto(h[T \ {Max(T)}], q[Max(T)])
  <2>1. Max(T) \in 1 .. n /\ T \ {Max(T)} \in SUBSET (1 .. n)
    BY <1>1, <1>6, MaxOfSet
  <2>2. h[T \ {Max(T)}] \in X
    BY <1>5, <2>1 DEF IsFold
  <2>3. <<h[T \ {Max(T)}], Max(T)>> \in X \X (1 .. n)
    BY <2>1, <2>2
  <2> QED  BY <1>5, <1>6, <2>3 DEF IsFold
<1>7. h = [T \in SUBSET (DOMAIN q) |->
              IF T = {} THEN s ELSE Goto(h[T \ {Max(T)}], q[Max(T)])]
  BY <1>1, <1>5, <1>6 DEF IsFold
<1> DEFINE iter == CHOOSE i : i = [T \in SUBSET (DOMAIN q) |->
              IF T = {} THEN s ELSE Goto(i[T \ {Max(T)}], q[Max(T)])]
<1>8. iter = [T \in SUBSET (DOMAIN q) |->
              IF T = {} THEN s ELSE Goto(iter[T \ {Max(T)}], q[Max(T)])]
  BY <1>7, Zenon
<1>9. Visit(s, q) = iter[DOMAIN q]
  BY Zenon DEF Visit, FoldLeft, MapThenFoldSet
<1> HIDE DEF iter, step
<1> DEFINE g == [k \in 0 .. n |-> iter[1 .. k]]
           e == [k \in 0 .. n |-> h[1 .. k]]
<1>10. g[0] = e[0]
  BY <1>7, <1>8
<1>11. ASSUME NEW k \in 1 .. n, g[k - 1] = e[k - 1] PROVE g[k] = e[k]
  <2>1. /\ 1 .. k \in SUBSET (DOMAIN q) /\ 1 .. k # {}
        /\ Max(1 .. k) = k /\ (1 .. k) \ {k} = 1 .. k - 1
    BY <1>1, UpToLast
  <2>2. /\ g[k] = iter[1 .. k] /\ g[k - 1] = iter[1 .. k - 1]
        /\ e[k] = h[1 .. k] /\ e[k - 1] = h[1 .. k - 1]
    BY <1>1
  <2>3. iter[1 .. k] = Goto(iter[1 .. k - 1], q[k])
    BY <1>8, <2>1
  <2>4. h[1 .. k] = Goto(h[1 .. k - 1], q[k])
    BY <1>7, <2>1
  <2> QED  BY <1>11, <2>2, <2>3, <2>4
<1>12. g[n] = e[n]
  <2> HIDE DEF g, e, n
  <2>1. \A k \in 1 .. n : g[k - 1] = e[k - 1] => g[k] = e[k]
    BY <1>11
  <2>2. n \in Nat /\ g[0] = e[0]
    BY <1>1, <1>10
  <2>3. GoAlike(g, e, n)
    BY <2>1, <2>2 DEF GoAlike
  <2>4. \A k \in 0 .. n : g[k] = e[k]
    BY <2>2, <2>3, SameTrace
  <2> QED  BY <2>2, <2>4
<1>13. Visit(s, q) = h[1 .. n]
  BY <1>1, <1>9, <1>12
<1>14. Visit(s, q) \in X
  BY <1>5, <1>13 DEF IsFold
<1> QED  BY <1>14 DEF X

\* GetQuickFixWinNum, and WinDo with a command that changes no window, return to
\* where they started.
LEMMA AfterScanResult ==
    ASSUME NEW s, Sound(s)
    PROVE  Sound(AfterScan(s)) /\ Alike(s, AfterScan(s)) /\ AfterScan(s).cur = s.cur
<1> DEFINE n == GetQuickFixWinNum(s)
           m == IF n = 0 THEN Len(s.order) ELSE n
           q == SubSeq(s.order, 1, m)
<1>1. s.order \in Seq(Windows) /\ Len(s.order) \in Nat /\ DOMAIN s.order = 1 .. Len(s.order)
  BY OrderResult
<1>2. n \in 0 .. Len(s.order)
  <2>1. CASE QuickFixWins(s) = {}
    BY <1>1, <2>1 DEF GetQuickFixWinNum
  <2>2. CASE QuickFixWins(s) # {}
    <3>1. QuickFixWins(s) \in SUBSET Nat /\ QuickFixWins(s) \subseteq Range(s.order)
      BY OrderResult, WindowsAssumed DEF QuickFixWins
    <3>2. Min(QuickFixWins(s)) \in Range(s.order)
      BY <2>2, <3>1, MinOfSet
    <3>3. Place(s, Min(QuickFixWins(s))) \in 1 .. Len(s.order)
      BY <3>2, PlaceResult
    <3> QED  BY <1>1, <2>2, <3>3 DEF GetQuickFixWinNum
  <2> QED  BY <2>1, <2>2
<1>3. m \in 0 .. Len(s.order)
  BY <1>1, <1>2
<1> HIDE DEF m, n
<1>4. q \in Seq(Range(s.order))
  <2>1. \A k \in 1 .. m : s.order[k] \in Range(s.order)
    BY <1>1, <1>3 DEF Range
  <2> QED  BY <1>1, <1>3, <2>1, SubSeqProperties
<1> DEFINE t == Visit(s, q)
<1>5. Sound(t) /\ Alike(s, t)
  <2> HIDE DEF q
  <2> QED  BY <1>4, VisitResult
<1>6. AfterScan(s) = Goto(t, s.cur)
  BY Zenon DEF AfterScan, Visit, m, n
<1> HIDE DEF t
<1>7. s.cur \in Range(t.order)
  BY <1>5 DEF Alike, Sound
<1> QED  BY <1>5, <1>6, <1>7, GotoResult, AlikeTransitive

LEMMA WinDoResult ==
    ASSUME NEW s, Sound(s)
    PROVE  Sound(WinDo(s)) /\ Alike(s, WinDo(s)) /\ WinDo(s).cur = s.cur
<1>1. s.order \in Seq(Range(s.order))
  <2>1. s.order \in Seq(Windows) /\ \A k \in 1 .. Len(s.order) : s.order[k] \in Range(s.order)
    BY OrderResult DEF Range
  <2> QED  BY <2>1, SeqOfElements
<1> DEFINE t == Visit(s, s.order)
<1>2. Sound(t) /\ Alike(s, t)
  BY <1>1, VisitResult
<1>3. WinDo(s) = Goto(t, s.cur)
  BY Zenon DEF WinDo, Visit
<1> HIDE DEF t
<1>4. s.cur \in Range(t.order)
  BY <1>2 DEF Alike, Sound
<1> QED  BY <1>2, <1>3, <1>4, GotoResult, AlikeTransitive

-----------------------------------------------------------------------------
(***************************************************************************)
(* The commands of Vim that open and close the window of a list.           *)
(***************************************************************************)
LEMMA LocWinsResult ==
    ASSUME NEW s, Sound(s), LocWins(s) # {}
    PROVE  \E w \in Range(s.order) : LocWins(s) = {w} /\ Min(LocWins(s)) = w
<1>1. LocWins(s) \in SUBSET Nat /\ LocWins(s) \subseteq Range(s.order)
  BY OrderResult, WindowsAssumed DEF LocWins
<1>2. Min(LocWins(s)) \in LocWins(s)
  BY <1>1, MinOfSet
<1>3. \A v, w \in LocWins(s) : v = w
  BY DEF LocWins, Sound, OneWindowPerList
<1> QED  BY <1>1, <1>2, <1>3

LEMMA QuickFixWinsResult ==
    ASSUME NEW s, Sound(s), QuickFixWins(s) # {}
    PROVE  Min(QuickFixWins(s)) \in QuickFixWins(s)
<1>1. QuickFixWins(s) \in SUBSET Nat
  BY OrderResult, WindowsAssumed DEF QuickFixWins
<1> QED  BY <1>1, MinOfSet

LEMMA CurrentList ==
    ASSUME NEW s, Sound(s)
    PROVE  /\ s.cur \in Range(s.order) /\ s.cur \in Windows
           /\ s.list[s.cur] \in Windows \cup {NoList}
           /\ HasLocList(s) => s.list[s.cur] \in Windows
  BY OrderResult DEF Sound, Vim, HasLocList

LEMMA LopenCmdResult ==
    ASSUME NEW s, Sound(s), Len(s.order) < MaxWins
    PROVE  LET t == LopenCmd(s)
           IN  /\ Sound(t)
               /\ ~HasLocList(s) => t = s
               /\ HasLocList(s) /\ LocWins(s) # {} => Alike(s, t) /\ t.cur \in LocWins(s)
               /\ HasLocList(s) /\ LocWins(s) = {} =>
                     \E w \in Windows \ Range(s.order) :
                        OpenedAt(s, Place(s, s.cur) + 1, w, "location", s.list[s.cur], t)
<1>1. CASE ~HasLocList(s)
  BY <1>1 DEF LopenCmd
<1>2. CASE HasLocList(s) /\ LocWins(s) # {}
  <2>1. PICK w \in Range(s.order) : LocWins(s) = {w} /\ Min(LocWins(s)) = w
    BY <1>2, LocWinsResult
  <2>2. LopenCmd(s) = Goto(s, w)
    BY <1>2, <2>1 DEF LopenCmd
  <2> QED  BY <1>2, <2>1, <2>2, GotoResult
<1>3. CASE HasLocList(s) /\ LocWins(s) = {}
  <2> PICK i : i = Place(s, s.cur) + 1
    OBVIOUS
  <2> PICK w : w = FreeWindow(s)
    OBVIOUS
  <2> PICK list : list = s.list[s.cur]
    OBVIOUS
  <2>1. i \in 1 .. Len(s.order) + 1
    BY CurrentList, PlaceResult, OrderResult
  <2>2. w \in Windows \ Range(s.order)
    BY FreeResult
  <2>3. MayOpen(s, w, "location", list)
    <3>1. list \in Windows /\ NoList \notin Windows
      BY <1>3, CurrentList, WindowsAssumed
    <3>2. \A v \in Range(s.order) : s.kind[v] = "location" => s.list[v] # list
      BY <1>3 DEF LocWins
    <3> QED  BY <2>2, <3>1, <3>2 DEF MayOpen, Kinds
  <2>4. LopenCmd(s) = Opened(s, i, w, "location", list)
    BY <1>3 DEF LopenCmd
  <2> PICK t : t = Opened(s, i, w, "location", list)
    OBVIOUS
  <2>5. Sound(t) /\ OpenedAt(s, i, w, "location", list, t)
    BY <2>1, <2>2, <2>3, OpenedResult
  <2> QED  BY <1>3, <2>2, <2>4, <2>5
<1> QED  BY <1>1, <1>2, <1>3

LEMMA LcloseCmdResult ==
    ASSUME NEW s, Sound(s), NEW t \in LcloseCmd(s)
    PROVE  /\ Sound(t)
           /\ ~(HasLocList(s) /\ LocWins(s) # {}) => t = s
           /\ HasLocList(s) => \A w : LocWins(s) = {w} => Closed(s, w, t)
<1>1. CASE ~(HasLocList(s) /\ LocWins(s) # {})
  BY <1>1 DEF LcloseCmd
<1>2. CASE HasLocList(s) /\ LocWins(s) # {}
  <2>1. PICK w \in Range(s.order) : LocWins(s) = {w} /\ Min(LocWins(s)) = w
    BY <1>2, LocWinsResult
  <2>2. t \in Close(s, w)
    BY <1>2, <2>1 DEF LcloseCmd
  <2>3. Sound(t) /\ Closed(s, w, t)
    BY <2>2, CloseResult
  <2>4. \A v : LocWins(s) = {v} => v = w
    BY <2>1
  <2> QED  BY <1>2, <2>3, <2>4
<1> QED  BY <1>1, <1>2

LEMMA CcloseCmdResult ==
    ASSUME NEW s, Sound(s), NEW t \in CcloseCmd(s)
    PROVE  /\ Sound(t)
           /\ QuickFixWins(s) = {} => t = s
           /\ QuickFixWins(s) # {} => \E w \in QuickFixWins(s) : Closed(s, w, t)
<1>1. CASE QuickFixWins(s) = {}
  BY <1>1 DEF CcloseCmd
<1>2. CASE QuickFixWins(s) # {}
  <2> PICK w : w = Min(QuickFixWins(s))
    OBVIOUS
  <2>1. w \in QuickFixWins(s) /\ w \in Range(s.order)
    BY <1>2, QuickFixWinsResult DEF QuickFixWins
  <2>2. t \in Close(s, w)
    BY <1>2 DEF CcloseCmd
  <2>3. Sound(t) /\ Closed(s, w, t)
    BY <2>1, <2>2, CloseResult
  <2> QED  BY <1>2, <2>1, <2>3
<1> QED  BY <1>1, <1>2

\* Closing the window that was opened brings the windows back.
LEMMA CloseOpened ==
    ASSUME NEW s, Sound(s), NEW i \in 1 .. Len(s.order) + 1, NEW w, NEW kind, NEW list,
           NEW t, OpenedAt(s, i, w, kind, list, t), Sound(t),
           NEW b, Sound(b), Alike(t, b), b.cur = s.cur,
           NEW u, Sound(u), Closed(b, w, u)
    PROVE  Alike(s, u) /\ u.cur = s.cur /\ Len(u.order) # Len(b.order)
<1>1. /\ b.order = InsertAt(s.order, i, w) /\ Range(b.order) = Range(s.order) \cup {w}
      /\ b.order[i] = w /\ Len(b.order) = Len(s.order) + 1 /\ w \in Windows \ Range(s.order)
      /\ \A v \in Range(s.order) : b.kind[v] = s.kind[v] /\ b.list[v] = s.list[v]
  BY DEF OpenedAt, Alike
<1>2. s.cur \in Range(s.order) /\ s.order \in Seq(Windows) /\ Distinct(s.order)
      /\ Len(s.order) \in Nat
  BY OrderResult DEF Sound
<1>3. Range(b.order) # {w} /\ w # b.cur
  BY <1>1, <1>2
<1>4. /\ u.order = OrderWithout(b, w) /\ Len(u.order) = Len(b.order) - 1
      /\ Range(u.order) = Range(b.order) \ {w} /\ u.cur = s.cur
      /\ \A v \in Range(u.order) : u.kind[v] = b.kind[v] /\ u.list[v] = b.list[v]
  BY <1>3 DEF Closed
<1>5. Place(b, w) = i
  <2>1. i \in 1 .. Len(b.order) /\ w \in Range(b.order)
    BY <1>1, <1>2
  <2> QED  BY <1>1, <2>1, PlaceResult
<1>6. u.order = s.order
  <2> PICK q : q = s.order
    OBVIOUS
  <2>1. RemoveAt(InsertAt(q, i, w), i) = q
    BY <1>1, <1>2, RemoveInserted
  <2> QED  BY <1>1, <1>4, <1>5, <2>1 DEF OrderWithout
<1>7. \A v \in Range(s.order) : u.kind[v] = s.kind[v] /\ u.list[v] = s.list[v]
  BY <1>1, <1>4, <1>6
<1>8. Len(u.order) # Len(b.order)
  BY <1>1, <1>2, <1>4
<1> QED  BY <1>4, <1>6, <1>7, <1>8 DEF Alike

-----------------------------------------------------------------------------
(***************************************************************************)
(* The functions of the vimrc.                                             *)
(***************************************************************************)
LEMMA CopenResult ==
    ASSUME NEW s, Sound(s), Len(s.order) < MaxWins
    PROVE  /\ Sound(Copen(s))
           /\ QuickFixWins(s) = {} =>
                 \E w \in Windows \ Range(s.order) :
                    OpenedAt(s, Len(s.order) + 1, w, "quickfix", NoList, Copen(s))
<1> PICK a : a = AfterScan(s)
  OBVIOUS
<1>1. Sound(a) /\ Alike(s, a) /\ a.cur = s.cur /\ QuickFixWins(a) = QuickFixWins(s)
      /\ a.order = s.order
  BY AfterScanResult, AlikeLists DEF Alike
<1>2. Copen(s) = BotrightCopen(a)
  BY DEF Copen
<1>3. CASE QuickFixWins(s) # {}
  <2> PICK q : q = Min(QuickFixWins(a))
    OBVIOUS
  <2>1. q \in Range(a.order)
    BY <1>1, <1>3, QuickFixWinsResult DEF QuickFixWins
  <2>2. BotrightCopen(a) = Goto(a, q)
    BY <1>1, <1>3 DEF BotrightCopen
  <2> QED  BY <1>1, <1>2, <1>3, <2>1, <2>2, GotoResult
<1>4. CASE QuickFixWins(s) = {}
  <2> PICK i : i = Len(a.order) + 1
    OBVIOUS
  <2> PICK w : w = FreeWindow(a)
    OBVIOUS
  <2>1. i \in 1 .. Len(a.order) + 1
    BY <1>1, OrderResult
  <2>2. w \in Windows \ Range(a.order)
    BY <1>1, FreeResult
  <2>3. MayOpen(a, w, "quickfix", NoList)
    BY <2>2 DEF MayOpen, Kinds
  <2> PICK t : t = Opened(a, i, w, "quickfix", NoList)
    OBVIOUS
  <2>4. Copen(s) = t
    BY <1>1, <1>2, <1>4 DEF BotrightCopen
  <2>5. Sound(t) /\ OpenedAt(a, i, w, "quickfix", NoList, t)
    BY <1>1, <2>1, <2>3, OpenedResult
  <2>6. OpenedAt(s, i, w, "quickfix", NoList, t)
    BY <1>1, <2>5 DEF OpenedAt, Alike
  <2> QED  BY <1>1, <2>2, <2>4, <2>5, <2>6
<1> QED  BY <1>3, <1>4

LEMMA LocListWinIsOpenResult ==
    ASSUME NEW s, Sound(s), Len(s.order) < MaxWins, NEW r \in LocListWinIsOpen(s)
    PROVE  /\ Sound(r.vim) /\ Alike(s, r.vim) /\ r.is \in BOOLEAN
           /\ r.is <=> HasLocList(s) /\ LocWins(s) # {}
           /\ IF r.is THEN r.vim.cur \in LocWins(s) ELSE r.vim.cur = s.cur
<1> PICK tried : tried = LopenCmd(s)
  OBVIOUS
<1>1. /\ Sound(tried)
      /\ ~HasLocList(s) => tried = s
      /\ HasLocList(s) /\ LocWins(s) # {} => Alike(s, tried) /\ tried.cur \in LocWins(s)
      /\ HasLocList(s) /\ LocWins(s) = {} =>
            \E w \in Windows \ Range(s.order) :
               OpenedAt(s, Place(s, s.cur) + 1, w, "location", s.list[s.cur], tried)
  BY LopenCmdResult
<1>2. IF Len(tried.order) # Len(s.order)
      THEN r \in {[vim |-> t, is |-> FALSE] : t \in LcloseCmd(Back(tried))}
      ELSE r = [vim |-> tried, is |-> HasLocList(s)]
  BY DEF LocListWinIsOpen
<1>3. CASE ~HasLocList(s)
  <2>1. r = [vim |-> s, is |-> FALSE]
    BY <1>1, <1>2, <1>3
  <2> QED  BY <1>3, <2>1 DEF Alike
<1>4. CASE HasLocList(s) /\ LocWins(s) # {}
  <2>1. r = [vim |-> tried, is |-> TRUE]
    BY <1>1, <1>2, <1>4 DEF Alike
  <2> QED  BY <1>1, <1>4, <2>1
<1>5. CASE HasLocList(s) /\ LocWins(s) = {}
  <2> PICK i, list : i = Place(s, s.cur) + 1 /\ list = s.list[s.cur]
    OBVIOUS
  <2>1. PICK w \in Windows \ Range(s.order) : OpenedAt(s, i, w, "location", list, tried)
    BY <1>1, <1>5
  <2>2. /\ i \in 1 .. Len(s.order) + 1 /\ Len(s.order) \in Nat
        /\ s.cur \in Range(s.order) /\ list \in Windows
    BY <1>5, CurrentList, PlaceResult, OrderResult
  <2>3. Len(tried.order) # Len(s.order)
    BY <2>1, <2>2 DEF OpenedAt
  <2> PICK b : b = Back(tried)
    OBVIOUS
  <2>4. PICK u \in LcloseCmd(b) : r = [vim |-> u, is |-> FALSE]
    BY <1>2, <2>3
  <2>5. Sound(b) /\ Alike(tried, b) /\ b.cur = s.cur
    <3>1. tried.prev = s.cur /\ s.cur # NoWin
      BY <2>1, CurrentList, WindowsAssumed DEF OpenedAt
    <3> QED  BY <1>1, <3>1, BackResult
  <2>6. /\ b.kind[w] = "location" /\ b.list[w] = list /\ b.list[b.cur] = list
        /\ w \in Range(b.order)
    BY <2>1, <2>2, <2>5 DEF OpenedAt, Alike
  <2>7. HasLocList(b) /\ w \in LocWins(b)
    BY <2>2, <2>6, WindowsAssumed DEF HasLocList, LocWins
  <2>8. LocWins(b) = {w}
    BY <2>5, <2>7, LocWinsResult
  <2>9. Sound(u) /\ Closed(b, w, u)
    BY <2>5, <2>7, <2>8, LcloseCmdResult
  <2>10. Alike(s, u) /\ u.cur = s.cur
    BY <1>1, <2>1, <2>2, <2>5, <2>9, CloseOpened
  <2> QED  BY <1>5, <2>4, <2>9, <2>10
<1> QED  BY <1>3, <1>4, <1>5

LEMMA LopenResult ==
    ASSUME NEW s, Sound(s), Len(s.order) < MaxWins, NEW t \in Lopen(s)
    PROVE  /\ Sound(t)
           /\ HasLocList(s) /\ LocWins(s) = {} =>
                 \E w \in Windows \ Range(s.order) :
                    OpenedAt(s, Place(s, s.cur) + 1, w, "location", s.list[s.cur], t)
<1>1. PICK r \in LocListWinIsOpen(s) : t = LopenCmd(r.vim)
  BY DEF Lopen
<1> PICK m : m = r.vim
  OBVIOUS
<1>2. /\ Sound(m) /\ Alike(s, m) /\ Len(m.order) < MaxWins
      /\ HasLocList(s) /\ LocWins(s) = {} => m.cur = s.cur
  BY LocListWinIsOpenResult DEF Alike
<1>3. Sound(t)
  BY <1>1, <1>2, LopenCmdResult
<1>4. ASSUME HasLocList(s), LocWins(s) = {}
      PROVE  \E w \in Windows \ Range(s.order) :
                OpenedAt(s, Place(s, s.cur) + 1, w, "location", s.list[s.cur], t)
  <2>1. m.cur = s.cur /\ m.list[m.cur] = s.list[s.cur] /\ m.order = s.order
    BY <1>2, <1>4, CurrentList DEF Alike
  <2>2. HasLocList(m) /\ LocWins(m) = {}
    BY <1>2, <1>4, <2>1, AlikeLists
  <2>3. PICK w \in Windows \ Range(m.order) :
           OpenedAt(m, Place(m, m.cur) + 1, w, "location", m.list[m.cur], t)
    BY <1>1, <1>2, <2>2, LopenCmdResult
  <2>4. Place(m, m.cur) = Place(s, s.cur)
    BY <2>1 DEF Place
  <2> PICK i, list : i = Place(s, s.cur) + 1 /\ list = s.list[s.cur]
    OBVIOUS
  <2>5. OpenedAt(m, i, w, "location", list, t)
    BY <2>1, <2>3, <2>4
  <2>6. OpenedAt(s, i, w, "location", list, t)
    BY <1>2, <2>1, <2>5 DEF OpenedAt, Alike
  <2> QED  BY <2>1, <2>6
<1> QED  BY <1>3, <1>4

LEMMA LocListIsPreferredResult ==
    ASSUME NEW s, Sound(s), Len(s.order) < MaxWins, NEW r \in LocListIsPreferred(s)
    PROVE  /\ Sound(r.vim) /\ Alike(s, r.vim)
           /\ NoList \notin messages /\ r.loc => HasLocList(r.vim)
<1>1. PICK o \in LocListWinIsOpen(s) :
         r = [vim |-> AfterScan(o.vim),
              loc |-> IF o.is # (GetQuickFixWinNum(o.vim) > 0) THEN o.is
                      ELSE o.vim.list[o.vim.cur] \in messages]
  BY DEF LocListIsPreferred
<1> PICK m, n : m = o.vim /\ n = AfterScan(m)
  OBVIOUS
<1>2. /\ Sound(m) /\ Alike(s, m)
      /\ o.is => HasLocList(s) /\ m.cur \in LocWins(s)
  BY LocListWinIsOpenResult
<1>3. Sound(n) /\ Alike(m, n) /\ n.cur = m.cur
  BY <1>2, AfterScanResult
<1>4. n.list[n.cur] = m.list[m.cur]
  BY <1>2, <1>3, CurrentList DEF Alike
<1>5. r.vim = n /\ (r.loc => o.is \/ m.list[m.cur] \in messages)
  BY <1>1
<1>6. o.is => HasLocList(n)
  BY <1>2, <1>4 DEF HasLocList, LocWins, Alike
<1>7. NoList \notin messages /\ m.list[m.cur] \in messages => HasLocList(n)
  BY <1>4 DEF HasLocList
<1> QED  BY <1>2, <1>3, <1>5, <1>6, <1>7, AlikeTransitive

LEMMA JumpResult ==
    ASSUME NEW s, Sound(s), Len(s.order) < MaxWins, NEW t \in Jump(s)
    PROVE  Sound(t)
<1> DEFINE files == {w \in Range(s.order) : s.kind[w] = "file"}
<1>1. CASE s.kind[s.cur] = "file"
  BY <1>1 DEF Jump
<1>2. CASE s.kind[s.cur] # "file" /\ files # {}
  <2>1. PICK w \in files : t = Goto(s, w)
    BY <1>2 DEF Jump
  <2> QED  BY <2>1, GotoResult
<1>3. CASE s.kind[s.cur] # "file" /\ files = {}
  <2> PICK w : w = FreeWindow(s)
    OBVIOUS
  <2>1. w \in Windows \ Range(s.order)
    BY FreeResult
  <2>2. MayOpen(s, w, "file", NoList)
    BY <2>1 DEF MayOpen, Kinds
  <2>3. t = Opened(s, 1, w, "file", NoList)
    BY <1>3 DEF Jump
  <2>4. 1 \in 1 .. Len(s.order) + 1
    BY OrderResult
  <2> QED  BY <2>2, <2>3, <2>4, OpenedResult
<1> QED  BY <1>1, <1>2, <1>3

LEMMA GotoMessageResult ==
    ASSUME NEW s, Sound(s), Len(s.order) < MaxWins, NEW loc, NEW t \in GotoMessage(s, loc)
    PROVE  Sound(t)
<1> DEFINE closed == IF loc THEN LcloseCmd(s) ELSE CcloseCmd(s)
<1>1. (\E c \in closed : t = c \/ t \in Jump(c)) \/ t \in Jump(s)
  BY DEF GotoMessage
<1>2. ASSUME NEW c \in closed PROVE Sound(c) /\ Len(c.order) < MaxWins
  <2>1. Sound(c) /\ (c = s \/ \E w : Closed(s, w, c))
    <3>1. CASE loc
      <4>1. c \in LcloseCmd(s)
        BY <3>1
      <4>2. LocWins(s) # {} => \E w : LocWins(s) = {w}
        BY LocWinsResult
      <4> QED  BY <4>1, <4>2, LcloseCmdResult
    <3>2. CASE ~loc
      <4>1. c \in CcloseCmd(s)
        BY <3>2
      <4> QED  BY <4>1, CcloseCmdResult
    <3> QED  BY <3>1, <3>2
  <2>2. Len(s.order) \in Nat /\ MaxWins \in Nat
    BY OrderResult, MaxWinsAssumption
  <2> QED  BY <2>1, <2>2 DEF Closed
<1>3. CASE t \in Jump(s)
  BY <1>3, JumpResult
<1>4. CASE \E c \in closed : t = c \/ t \in Jump(c)
  <2>1. PICK c \in closed : t = c \/ t \in Jump(c)
    BY <1>4
  <2> QED  BY <1>2, <2>1, JumpResult
<1> QED  BY <1>1, <1>3, <1>4

LEMMA F4Result ==
    ASSUME NEW s, Sound(s), Len(s.order) < MaxWins, NEW t \in F4(s)
    PROVE  Sound(t)
<1>1. PICK r \in LocListIsPreferred(s) : t \in GotoMessage(r.vim, r.loc)
  BY DEF F4
<1> PICK m, loc : m = r.vim /\ loc = r.loc
  OBVIOUS
<1>2. Sound(m) /\ Len(m.order) < MaxWins
  BY LocListIsPreferredResult DEF Alike
<1> QED  BY <1>1, <1>2, GotoMessageResult

\* Opened by the toggle, the QuickFix window is the only one of its kind; the
\* next toggle closes it and returns to where the first one was used.
LEMMA QuickFixWinToggleResult ==
    ASSUME NEW s, Sound(s), Len(s.order) < MaxWins, NEW t \in QuickFixWinToggle(s)
    PROVE  /\ Sound(t)
           /\ QuickFixWins(s) = {} =>
                 \E w \in Windows \ Range(s.order) :
                    OpenedAt(s, Len(s.order) + 1, w, "quickfix", NoList, t)
           /\ IsQuickFixWin(s) =>
                 \E w \in QuickFixWins(s) :
                    Range(s.order) # {w} => Closed(Back(s), w, t)
<1> PICK from : from = IF IsQuickFixWin(s) THEN Back(s) ELSE s
  OBVIOUS
<1>1. PICK c \in CcloseCmd(from) :
         t = IF Len(c.order) = Len(s.order) THEN Copen(c) ELSE c
  BY DEF QuickFixWinToggle
<1>2. /\ Sound(from) /\ Alike(s, from) /\ QuickFixWins(from) = QuickFixWins(s)
      /\ from.order = s.order /\ Len(s.order) \in Nat /\ MaxWins \in Nat
  <2>1. Sound(Back(s)) /\ Alike(s, Back(s))
    BY BackResult
  <2>2. Sound(from) /\ Alike(s, from)
    BY <2>1 DEF Alike
  <2>3. QuickFixWins(from) = QuickFixWins(s) /\ from.order = s.order
    BY <2>2, AlikeLists DEF Alike
  <2> QED  BY <2>2, <2>3, OrderResult, MaxWinsAssumption
<1>3. /\ Sound(c)
      /\ QuickFixWins(from) = {} => c = from
      /\ QuickFixWins(from) # {} => \E w \in QuickFixWins(from) : Closed(from, w, c)
  BY <1>1, <1>2, CcloseCmdResult
<1>4. Len(c.order) < MaxWins
  BY <1>2, <1>3 DEF Closed
<1>5. Sound(t)
  BY <1>1, <1>3, <1>4, CopenResult
<1>6. ASSUME QuickFixWins(s) = {}
      PROVE  \E w \in Windows \ Range(s.order) :
                OpenedAt(s, Len(s.order) + 1, w, "quickfix", NoList, t)
  <2>1. ~IsQuickFixWin(s)
    BY <1>6 DEF IsQuickFixWin, QuickFixWins, Sound
  <2>2. c = s
    BY <1>2, <1>3, <1>6, <2>1
  <2>3. t = Copen(s)
    BY <1>1, <2>2
  <2> QED  BY <1>6, <2>3, CopenResult
<1>7. ASSUME IsQuickFixWin(s)
      PROVE  \E w \in QuickFixWins(s) : Range(s.order) # {w} => Closed(Back(s), w, t)
  <2>1. QuickFixWins(s) # {}
    BY <1>7 DEF IsQuickFixWin, QuickFixWins, Sound
  <2>2. PICK w \in QuickFixWins(s) : Closed(from, w, c)
    BY <1>2, <1>3, <2>1
  <2>3. ASSUME Range(s.order) # {w} PROVE t = c
    BY <1>1, <1>2, <2>2, <2>3 DEF Closed
  <2> QED  BY <1>7, <2>2, <2>3
<1> QED  BY <1>5, <1>6, <1>7

LEMMA LocListWinToggleResult ==
    ASSUME NEW s, Sound(s), Len(s.order) < MaxWins, NEW t \in LocListWinToggle(s)
    PROVE  /\ Sound(t)
           /\ HasLocList(s) /\ LocWins(s) = {} =>
                 \E w \in Windows \ Range(s.order) :
                    OpenedAt(s, Place(s, s.cur) + 1, w, "location", s.list[s.cur], t)
           /\ HasLocList(s) =>
                 \A w : LocWins(s) = {w} /\ Range(s.order) # {w} => Closed(s, w, t)
<1>1. PICK c \in LcloseCmd(s) :
         t \in IF Len(c.order) = Len(s.order) THEN Lopen(c) ELSE {c}
  BY DEF LocListWinToggle
<1>2. /\ Sound(c)
      /\ ~(HasLocList(s) /\ LocWins(s) # {}) => c = s
      /\ HasLocList(s) => \A w : LocWins(s) = {w} => Closed(s, w, c)
  BY LcloseCmdResult
<1>3. Len(s.order) \in Nat /\ MaxWins \in Nat
  BY OrderResult, MaxWinsAssumption
<1>4. Sound(t)
  <2>1. CASE Len(c.order) = Len(s.order)
    BY <1>1, <1>2, <2>1, LopenResult
  <2>2. CASE Len(c.order) # Len(s.order)
    BY <1>1, <1>2, <2>2
  <2> QED  BY <2>1, <2>2
<1>5. ASSUME HasLocList(s), LocWins(s) = {}
      PROVE  \E w \in Windows \ Range(s.order) :
                OpenedAt(s, Place(s, s.cur) + 1, w, "location", s.list[s.cur], t)
  <2>1. t \in Lopen(s)
    BY <1>1, <1>2, <1>5
  <2> QED  BY <1>5, <2>1, LopenResult
<1>6. ASSUME HasLocList(s), NEW w, LocWins(s) = {w}, Range(s.order) # {w}
      PROVE  Closed(s, w, t)
  <2>1. Closed(s, w, c)
    BY <1>2, <1>6
  <2>2. Len(c.order) # Len(s.order)
    BY <1>3, <1>6, <2>1 DEF Closed
  <2> QED  BY <1>1, <2>1, <2>2
<1> QED  BY <1>4, <1>5, <1>6

\* The same windows, in another order perhaps, and the same current one.
Kept(s, t) ==
    /\ Range(t.order) = Range(s.order) /\ t.cur = s.cur
    /\ \A w \in Range(s.order) : t.kind[w] = s.kind[w] /\ t.list[w] = s.list[w]

LEMMA KeptWins ==
    ASSUME NEW s, NEW t, Kept(s, t)
    PROVE  QuickFixWins(t) = QuickFixWins(s)
  BY DEF Kept, QuickFixWins

LEMMA KeptSound ==
    ASSUME NEW s, Sound(s), NEW q \in Seq(Windows), Distinct(q), Range(q) = Range(s.order)
    PROVE  Sound([s EXCEPT !.order = q]) /\ Kept(s, [s EXCEPT !.order = q])
<1> PICK t : t = [s EXCEPT !.order = q]
  OBVIOUS
<1>1. t = [order |-> q, kind |-> s.kind, list |-> s.list, cur |-> s.cur, prev |-> s.prev]
  BY DEF Sound, Vim
<1>2. t \in Vim
  BY <1>1 DEF Sound, Vim
<1>3. Kept(s, t)
  BY <1>1 DEF Kept
<1>4. Sound(t)
  BY <1>1, <1>2 DEF Sound, OneWindowPerList
<1> QED  BY <1>3, <1>4

LEMMA MoveResult ==
    ASSUME NEW s, Sound(s)
    PROVE  /\ Sound(MoveTop(s)) /\ Kept(s, MoveTop(s))
           /\ Sound(MoveBottom(s)) /\ Kept(s, MoveBottom(s))
           /\ MoveBottom(s).order # <<>> /\ Last(MoveBottom(s).order) = s.cur
           /\ MoveBottom(s).prev = s.prev
<1> PICK r : r = OrderWithout(s, s.cur)
  OBVIOUS
<1> PICK w : w = s.cur
  OBVIOUS
<1>1. /\ r \in Seq(Windows) /\ Len(r) \in Nat /\ DOMAIN r = 1 .. Len(r) /\ Distinct(r)
      /\ Range(r) = Range(s.order) \ {w} /\ w \in Range(s.order) /\ w \in Windows
      /\ \A k \in 1 .. Len(r) : r[k] # w
  <2>1. r \in Seq(Windows) /\ Distinct(r) /\ Range(r) = Range(s.order) \ {w}
    BY CurrentList, OrderWithoutResult
  <2>2. Len(r) \in Nat /\ DOMAIN r = 1 .. Len(r)
    BY <2>1
  <2>3. \A k \in 1 .. Len(r) : r[k] \in Range(r)
    BY <2>2 DEF Range
  <2>4. w \in Range(s.order) /\ w \in Windows
    BY CurrentList
  <2> QED  BY <2>1, <2>2, <2>3, <2>4
<1> DEFINE one == <<w>>
           top == one \o r
           low == Append(r, w)
<1>2. /\ top \in Seq(Windows) /\ Len(top) = Len(r) + 1 /\ top[1] = w
      /\ \A k \in 1 .. Len(r) : top[k + 1] = r[k]
  <2>1. one \in Seq(Windows) /\ Len(one) = 1 /\ one[1] = w
    BY <1>1
  <2> HIDE DEF one
  <2>2. top \in Seq(Windows) /\ Len(top) = Len(one) + Len(r)
        /\ \A k \in 1 .. Len(one) + Len(r) :
              top[k] = IF k <= Len(one) THEN one[k] ELSE r[k - Len(one)]
    <3>1. r \in Seq(Windows)
      BY <1>1
    <3> QED  BY <2>1, <3>1, ConcatProperties
  <2>3. Len(one) + Len(r) = Len(r) + 1
    BY <1>1, <2>1
  <2> HIDE DEF top
  <2>4. top[1] = w
    BY <1>1, <2>1, <2>2, <2>3
  <2>5. ASSUME NEW k \in 1 .. Len(r) PROVE top[k + 1] = r[k]
    <3>1. k + 1 \in 1 .. Len(one) + Len(r) /\ ~(k + 1 <= Len(one)) /\ (k + 1) - Len(one) = k
      BY <1>1, <2>1
    <3> QED  BY <2>2, <3>1
  <2> QED  BY <2>2, <2>3, <2>4, <2>5
<1>3. /\ low \in Seq(Windows) /\ Len(low) = Len(r) + 1 /\ low[Len(r) + 1] = w
      /\ \A k \in 1 .. Len(r) : low[k] = r[k]
  BY <1>1
<1> HIDE DEF top, low
<1>4. Distinct(top) /\ Range(top) = Range(s.order)
  <2>1. \A k \in 1 .. Len(top) : k = 1 \/ \E m \in 1 .. Len(r) : k = m + 1
    <3>1. \A k \in 1 .. Len(top) : k = 1 \/ (k - 1 \in 1 .. Len(r) /\ k = (k - 1) + 1)
      BY <1>1, <1>2
    <3> QED  BY <3>1
  <2>2. Distinct(top)
    <3>1. ASSUME NEW i \in 1 .. Len(top), NEW j \in 1 .. Len(top), top[i] = top[j]
          PROVE  i = j
      <4>1. CASE i = 1 \/ j = 1
        BY <1>1, <1>2, <2>1, <3>1, <4>1
      <4>2. CASE i # 1 /\ j # 1
        <5>1. PICK m \in 1 .. Len(r) : i = m + 1
          BY <2>1, <4>2
        <5>2. PICK n \in 1 .. Len(r) : j = n + 1
          BY <2>1, <4>2
        <5>3. r[m] = r[n]
          BY <1>2, <3>1, <5>1, <5>2
        <5>4. m = n
          BY <1>1, <5>3 DEF Distinct
        <5> QED  BY <5>1, <5>2, <5>4
      <4> QED  BY <4>1, <4>2
    <3> QED  BY <3>1 DEF Distinct
  <2>3. DOMAIN top = 1 .. Len(top)
    BY <1>2
  <2>4. ASSUME NEW x \in Range(top) PROVE x = w \/ x \in Range(r)
    <3>1. PICK k \in 1 .. Len(top) : x = top[k]
      BY <2>3 DEF Range
    <3>2. CASE k = 1
      BY <1>2, <3>1, <3>2
    <3>3. CASE \E m \in 1 .. Len(r) : k = m + 1
      <4>1. PICK m \in 1 .. Len(r) : k = m + 1
        BY <3>3
      <4>2. x = r[m] /\ m \in DOMAIN r
        BY <1>1, <1>2, <3>1, <4>1
      <4> QED  BY <4>2 DEF Range
    <3> QED  BY <2>1, <3>2, <3>3
  <2>5. w \in Range(top)
    BY <1>1, <1>2, <2>3 DEF Range
  <2>6. \A x \in Range(r) : x \in Range(top)
    <3>1. \A m \in 1 .. Len(r) : m + 1 \in DOMAIN top
      BY <1>1, <1>2, <2>3
    <3> QED  BY <1>1, <1>2, <3>1 DEF Range
  <2>7. Range(top) = Range(r) \cup {w}
    BY <2>4, <2>5, <2>6
  <2> QED  BY <1>1, <2>2, <2>7
<1>5. Distinct(low) /\ Range(low) = Range(s.order)
  <2>1. Distinct(low)
    <3>1. ASSUME NEW i \in 1 .. Len(low), NEW j \in 1 .. Len(low), low[i] = low[j]
          PROVE  i = j
      <4>1. \A k \in 1 .. Len(low) : k = Len(r) + 1 \/ k \in 1 .. Len(r)
        BY <1>1, <1>3
      <4>2. CASE i = Len(r) + 1 \/ j = Len(r) + 1
        BY <1>1, <1>3, <3>1, <4>1, <4>2
      <4>3. CASE i \in 1 .. Len(r) /\ j \in 1 .. Len(r)
        <5>1. r[i] = r[j]
          BY <1>3, <3>1, <4>3
        <5> QED  BY <1>1, <4>3, <5>1 DEF Distinct
      <4> QED  BY <4>1, <4>2, <4>3
    <3> QED  BY <3>1 DEF Distinct
  <2>2. Range(low) = Range(r) \cup {w}
    BY <1>1, RangeOfAppend DEF low
  <2> QED  BY <1>1, <2>1, <2>2
<1>6. MoveTop(s) = [s EXCEPT !.order = top]
  BY DEF MoveTop, top
<1>7. MoveBottom(s) = [s EXCEPT !.order = low]
  BY DEF MoveBottom, low
<1>8. /\ Sound(MoveTop(s)) /\ Kept(s, MoveTop(s))
      /\ Sound(MoveBottom(s)) /\ Kept(s, MoveBottom(s))
  BY <1>2, <1>3, <1>4, <1>5, <1>6, <1>7, KeptSound
<1>9. MoveBottom(s).order = low /\ MoveBottom(s).prev = s.prev
  BY <1>7 DEF Sound, Vim
<1>10. low # <<>> /\ Last(low) = w
  BY <1>1, <1>3 DEF Last
<1> QED  BY <1>8, <1>9, <1>10

LEMMA PushQuickFixResult ==
    ASSUME NEW s, Sound(s)
    PROVE  /\ Sound(PushQuickFix(s)) /\ Kept(s, PushQuickFix(s))
           /\ QuickFixWins(s) # {} => Last(PushQuickFix(s).order) \in QuickFixWins(s)
<1> PICK n : n = GetQuickFixWinNum(s)
  OBVIOUS
<1> PICK t : t = AfterScan(s)
  OBVIOUS
<1>1. Sound(t) /\ Alike(s, t) /\ t.cur = s.cur /\ t.order = s.order /\ Kept(s, t)
  BY AfterScanResult DEF Alike, Kept
<1>2. Len(s.order) \in Nat /\ DOMAIN s.order = 1 .. Len(s.order)
  BY OrderResult
<1>3. CASE QuickFixWins(s) = {}
  <2>1. n = 0
    BY <1>3 DEF GetQuickFixWinNum
  <2>2. PushQuickFix(s) = t
    BY <2>1 DEF PushQuickFix
  <2> QED  BY <1>1, <1>3, <2>2
<1>4. CASE QuickFixWins(s) # {}
  <2> PICK q : q = Min(QuickFixWins(s))
    OBVIOUS
  <2>1. q \in QuickFixWins(s) /\ q \in Range(s.order)
    BY <1>4, QuickFixWinsResult DEF QuickFixWins
  <2>2. n = Place(s, q)
    BY <1>4 DEF GetQuickFixWinNum
  <2>3. n \in 1 .. Len(s.order) /\ s.order[n] = q
    BY <2>1, <2>2, PlaceResult
  <2>4. n # 0 /\ t.order[n] = q
    BY <1>1, <1>2, <2>3
  <2>5. CASE q = t.cur
    <3>1. PushQuickFix(s) = MoveBottom(t)
      BY <2>4, <2>5 DEF PushQuickFix
    <3>2. Sound(MoveBottom(t)) /\ Kept(t, MoveBottom(t)) /\ Last(MoveBottom(t).order) = q
      BY <1>1, <2>5, MoveResult
    <3>3. Kept(s, MoveBottom(t))
      BY <1>1, <3>2 DEF Kept
    <3> QED  BY <2>1, <3>1, <3>2, <3>3
  <2>6. CASE q # t.cur
    <3> PICK g : g = Goto(t, q)
      OBVIOUS
    <3> PICK m : m = MoveBottom(g)
      OBVIOUS
    <3> PICK b : b = Back(m)
      OBVIOUS
    <3>1. PushQuickFix(s) = b
      BY <2>4, <2>6 DEF PushQuickFix
    <3>2. Sound(g) /\ Alike(t, g) /\ g.cur = q /\ g.prev = s.cur
      BY <1>1, <2>1, <2>6, GotoResult
    <3>3. Sound(m) /\ Kept(g, m) /\ Last(m.order) = q /\ m.prev = s.cur
      BY <3>2, MoveResult
    <3>4. Sound(b) /\ Alike(m, b) /\ b.cur = s.cur
      BY <3>3, BackResult, CurrentList, WindowsAssumed
    <3>5. Kept(s, b) /\ Last(b.order) = q
      BY <1>1, <3>2, <3>3, <3>4 DEF Kept, Alike
    <3> QED  BY <2>1, <3>1, <3>4, <3>5
  <2> QED  BY <2>5, <2>6
<1> QED  BY <1>3, <1>4

LEMMA LayoutResult ==
    ASSUME NEW s, Sound(s), NEW columns
    PROVE  /\ Sound(LayoutWindows(s, columns)) /\ Kept(s, LayoutWindows(s, columns))
           /\ QuickFixWins(s) # {} =>
                 Last(LayoutWindows(s, columns).order) \in QuickFixWins(s)
<1> PICK d : d = WinDo(s)
  OBVIOUS
<1> PICK top : top = IF columns = 0 THEN s ELSE IF columns = 1 THEN MoveTop(d) ELSE d
  OBVIOUS
<1> PICK p : p = PushQuickFix(top)
  OBVIOUS
<1> PICK e : e = WinDo(p)
  OBVIOUS
<1>1. LayoutWindows(s, columns) = e
  BY DEF LayoutWindows
<1>2. Sound(d) /\ Kept(s, d)
  BY WinDoResult DEF Kept, Alike
<1>3. Sound(top) /\ Kept(s, top)
  <2>1. Sound(MoveTop(d)) /\ Kept(d, MoveTop(d))
    BY <1>2, MoveResult
  <2>2. Kept(s, MoveTop(d)) /\ Kept(s, s)
    BY <1>2, <2>1 DEF Kept
  <2> QED  BY <1>2, <2>1, <2>2
<1>4. QuickFixWins(top) = QuickFixWins(s)
  BY <1>3, KeptWins
<1>5. /\ Sound(p) /\ Kept(top, p)
      /\ QuickFixWins(s) # {} => Last(p.order) \in QuickFixWins(s)
  BY <1>3, <1>4, PushQuickFixResult
<1>6. Sound(e) /\ e.order = p.order /\ Kept(p, e)
  BY <1>5, WinDoResult DEF Kept, Alike
<1>7. Kept(s, e)
  BY <1>3, <1>5, <1>6 DEF Kept
<1> QED  BY <1>1, <1>5, <1>6, <1>7

-----------------------------------------------------------------------------
\* The lists that are not empty are lists.
QInv == Sound(vim) /\ messages \subseteq Windows \cup {Global}

LEMMA QInit == Init => QInv
<1> SUFFICES ASSUME Init PROVE QInv
  OBVIOUS
<1> DEFINE one == <<1>>
<1>1. one \in Seq(Windows) /\ Len(one) = 1 /\ one[1] = 1 /\ 1 \in Windows /\ Range(one) = {1}
  <2>1. 1 \in Windows
    BY MaxWinsAssumption DEF Windows
  <2> QED  BY <2>1 DEF Range
<1>2. Distinct(one)
  BY <1>1 DEF Distinct
<1> HIDE DEF one
<1>3. vim = [order |-> one, kind |-> [w \in Windows |-> "file"],
             list |-> [w \in Windows |-> NoList], cur |-> 1, prev |-> NoWin]
  BY DEF Init, one
<1> PICK kinds, lists : /\ kinds = [w \in Windows |-> "file"]
                        /\ lists = [w \in Windows |-> NoList]
  OBVIOUS
<1>4. /\ vim.order = one /\ vim.cur = 1 /\ vim.prev = NoWin
      /\ vim.kind = kinds /\ vim.list = lists
      /\ vim = [order |-> one, kind |-> kinds, list |-> lists, cur |-> 1, prev |-> NoWin]
  BY <1>3
<1>5. /\ kinds \in [Windows -> Kinds] /\ lists \in [Windows -> Windows \cup {NoList}]
      /\ kinds[1] = "file"
  BY <1>1 DEF Kinds
<1>6. vim \in Vim
  BY <1>1, <1>4, <1>5 DEF Vim
<1>7. OneWindowPerList(vim)
  BY <1>1, <1>4, <1>5 DEF OneWindowPerList
<1>8. Sound(vim)
  BY <1>1, <1>2, <1>4, <1>6, <1>7 DEF Sound
<1> QED  BY <1>8 DEF QInv, Init

\* A location list made for the current window has no location window yet.
LEMMA FillResult ==
    ASSUME NEW s, Sound(s), s.kind[s.cur] # "quickfix",
           NEW list, list = IF HasLocList(s) THEN s.list[s.cur] ELSE s.cur
    PROVE  Sound([s EXCEPT !.list[s.cur] = list]) /\ list \in Windows
<1> PICK w, t, lists : /\ w = s.cur /\ t = [s EXCEPT !.list[s.cur] = list]
                       /\ lists = [s.list EXCEPT ![w] = list]
  OBVIOUS
<1>1. /\ w \in Range(s.order) /\ w \in Windows /\ list \in Windows
      /\ Range(s.order) \subseteq Windows
  BY CurrentList, OrderResult
<1>2. t = [order |-> s.order, kind |-> s.kind, list |-> lists, cur |-> s.cur, prev |-> s.prev]
  BY DEF Sound, Vim
<1>3. /\ lists \in [Windows -> Windows \cup {NoList}] /\ lists[w] = list
      /\ \A v \in Windows : v # w => lists[v] = s.list[v]
  BY <1>1 DEF Sound, Vim
<1>4. t \in Vim
  BY <1>2, <1>3 DEF Sound, Vim
<1>5. OneWindowPerList(t)
  <2>1. CASE HasLocList(s)
    <3>1. lists[w] = s.list[w]
      BY <1>3, <2>1
    <3>2. \A v \in Range(s.order) : t.list[v] = s.list[v]
      BY <1>1, <1>2, <1>3, <3>1
    <3> QED  BY <1>2, <3>2 DEF Sound, OneWindowPerList
  <2>2. CASE ~HasLocList(s)
    <3>1. s.kind[w] # "location"
      BY <1>1, <2>2 DEF Sound, OneWindowPerList, HasLocList
    <3>2. \A v \in Range(s.order) : t.kind[v] = "location" => t.list[v] = s.list[v] /\ v # w
      BY <1>1, <1>2, <1>3, <3>1
    <3> QED  BY <1>2, <3>2 DEF Sound, OneWindowPerList
  <2> QED  BY <2>1, <2>2
<1>6. Sound(t)
  BY <1>2, <1>4, <1>5 DEF Sound
<1> QED  BY <1>1, <1>6

LEMMA BecomeKeeps ==
    ASSUME QInv, NEW states, \A t \in states : Sound(t), Become(states)
    PROVE  QInv'
  BY DEF QInv, Become

LEMMA QNext == QInv /\ [Next]_vars => QInv'
<1> SUFFICES ASSUME QInv, [Next]_vars PROVE QInv'
  OBVIOUS
<1> PICK s : s = vim
  OBVIOUS
<1>1. Sound(s) /\ s.cur \in Range(s.order)
  BY DEF QInv, Sound
<1>2. CASE CopenCommand
  <2>1. Len(s.order) < MaxWins /\ Become({Copen(s)})
    BY <1>2 DEF CopenCommand, Room
  <2>2. Sound(Copen(s))
    BY <1>1, <2>1, CopenResult
  <2> QED  BY <2>1, <2>2, BecomeKeeps
<1>3. CASE LopenCommand
  <2>1. Len(s.order) < MaxWins /\ Become(Lopen(s))
    BY <1>3 DEF LopenCommand, Room
  <2>2. \A t \in Lopen(s) : Sound(t)
    BY <1>1, <2>1, LopenResult
  <2> QED  BY <2>1, <2>2, BecomeKeeps
<1>4. CASE ToggleQuickFix
  <2>1. Len(s.order) < MaxWins /\ Become(QuickFixWinToggle(s))
    BY <1>4 DEF ToggleQuickFix, Room
  <2>2. \A t \in QuickFixWinToggle(s) : Sound(t)
    BY <1>1, <2>1, QuickFixWinToggleResult
  <2> QED  BY <2>1, <2>2, BecomeKeeps
<1>5. CASE ToggleLocList
  <2>1. Len(s.order) < MaxWins /\ Become(LocListWinToggle(s))
    BY <1>5 DEF ToggleLocList, Room
  <2>2. \A t \in LocListWinToggle(s) : Sound(t)
    BY <1>1, <2>1, LocListWinToggleResult
  <2> QED  BY <2>1, <2>2, BecomeKeeps
<1>6. CASE Browse
  <2>1. Len(s.order) < MaxWins /\ Become(F4(s))
    BY <1>6 DEF Browse, Room
  <2>2. \A t \in F4(s) : Sound(t)
    BY <1>1, <2>1, F4Result
  <2> QED  BY <2>1, <2>2, BecomeKeeps
<1>7. CASE Layout
  <2>1. PICK columns \in 0 .. 2 : Become({LayoutWindows(s, columns)})
    BY <1>7 DEF Layout
  <2>2. Sound(LayoutWindows(s, columns))
    BY <1>1, LayoutResult
  <2> QED  BY <2>1, <2>2, BecomeKeeps
<1>8. CASE GoToWindow
  <2>1. PICK w \in Range(s.order) : Become({Goto(s, w)})
    BY <1>8 DEF GoToWindow
  <2>2. Sound(Goto(s, w))
    BY <1>1, GotoResult
  <2> QED  BY <2>1, <2>2, BecomeKeeps
<1>9. CASE CloseWindow
  <2>1. PICK w \in Range(s.order) : Become(Close(s, w))
    BY <1>9 DEF CloseWindow
  <2>2. \A t \in Close(s, w) : Sound(t)
    BY <1>1, CloseResult
  <2> QED  BY <2>1, <2>2, BecomeKeeps
<1>10. CASE MoveWindow
  <2>1. Become({MoveTop(s), MoveBottom(s)})
    BY <1>10 DEF MoveWindow
  <2>2. Sound(MoveTop(s)) /\ Sound(MoveBottom(s))
    BY <1>1, MoveResult
  <2> QED  BY <2>1, <2>2, BecomeKeeps
<1>11. CASE SplitFile
  <2> PICK new, i, list : /\ new = FreeWindow(s) /\ i = Place(s, s.cur)
                          /\ list = IF s.list[s.cur] = NoList THEN NoList ELSE new
    OBVIOUS
  <2>1. /\ Len(s.order) < MaxWins
        /\ vim' = Opened(s, i, new, "file", list)
        /\ messages' \subseteq messages \cup {new}
    BY <1>11 DEF SplitFile, Room
  <2>2. new \in Windows \ Range(s.order)
    BY <1>1, <2>1, FreeResult
  <2>3. MayOpen(s, new, "file", list)
    BY <2>2 DEF MayOpen, Kinds
  <2>4. i \in 1 .. Len(s.order) + 1
    BY <1>1, PlaceResult, OrderResult
  <2>5. Sound(Opened(s, i, new, "file", list))
    BY <1>1, <2>3, <2>4, OpenedResult
  <2> QED  BY <2>1, <2>2, <2>5 DEF QInv
<1>12. CASE FillQuickFix
  BY <1>12 DEF FillQuickFix, QInv
<1>13. CASE FillLocList
  <2> PICK list : list = IF HasLocList(s) THEN s.list[s.cur] ELSE s.cur
    OBVIOUS
  <2>1. /\ s.kind[s.cur] # "quickfix"
        /\ vim' = [s EXCEPT !.list[s.cur] = list]
        /\ messages' \subseteq messages \cup {list}
    BY <1>13 DEF FillLocList
  <2>2. Sound([s EXCEPT !.list[s.cur] = list]) /\ list \in Windows
    BY <1>1, <2>1, FillResult
  <2> QED  BY <2>1, <2>2 DEF QInv
<1>14. CASE UNCHANGED vars
  BY <1>14 DEF QInv, vars
<1> QED  BY <1>2, <1>3, <1>4, <1>5, <1>6, <1>7, <1>8, <1>9, <1>10, <1>11, <1>12,
            <1>13, <1>14 DEF Next

\* The inductive invariant, of every instance.
THEOREM QuickFixInvariant == Spec => []QInv
<1>1. QInv /\ [Next]_vars => QInv'
  BY QNext
<1> QED  BY QInit, <1>1, PTL DEF Spec

-----------------------------------------------------------------------------
\* The windows are always listed with what they are, and the functions that go
\* through them leave the current window an open one: TypeOK.
THEOREM WindowsTypeCorrect == Spec => []TypeOK
<1>1. QInv => TypeOK
  <2> SUFFICES ASSUME QInv PROVE TypeOK
    OBVIOUS
  <2>1. Sound(vim) /\ messages \subseteq Windows \cup {Global}
    BY DEF QInv
  <2>2. /\ vim.order \in Seq(Windows) /\ vim.kind \in [Windows -> Kinds]
        /\ vim.list \in [Windows -> Windows \cup {NoList}]
    BY <2>1 DEF Sound, Vim
  <2>3. /\ vim.cur \in Range(vim.order)
        /\ vim.prev = NoWin \/ vim.prev \in Range(vim.order)
    BY <2>1 DEF Sound
  <2> QED  BY <2>1, <2>2, <2>3 DEF TypeOK, IsOpen, Kinds
<1> QED  BY QuickFixInvariant, <1>1, PTL

\* QuickFixWinToggle, pressed to open the QuickFix window and again to close it,
\* brings back the windows and the current one: ToggleTwice.
THEOREM ToggleTwiceRestores == Spec => []ToggleTwice
<1>1. QInv => ToggleTwice
  <2> SUFFICES ASSUME QInv, Room, QuickFixWins(vim) = {},
                      NEW on \in QuickFixWinToggle(vim)
               PROVE  /\ QuickFixWins(on) # {}
                      /\ \A off \in QuickFixWinToggle(on) :
                            off.order = vim.order /\ off.cur = vim.cur
    BY DEF ToggleTwice
  <2> PICK s : s = vim
    OBVIOUS
  <2>1. Sound(s) /\ Len(s.order) < MaxWins /\ QuickFixWins(s) = {}
    BY DEF QInv, Room
  <2>2. Sound(on)
    BY <2>1, QuickFixWinToggleResult
  <2> PICK i : i = Len(s.order) + 1
    OBVIOUS
  <2>3. PICK w \in Windows \ Range(s.order) : OpenedAt(s, i, w, "quickfix", NoList, on)
    BY <2>1, QuickFixWinToggleResult
  <2>4. s.cur \in Range(s.order) /\ s.cur \in Windows /\ i \in 1 .. Len(s.order) + 1
    BY <2>1, CurrentList, OrderResult
  <2>5. QuickFixWins(on) = {w} /\ IsQuickFixWin(on) /\ Range(on.order) # {w}
    BY <2>1, <2>3, <2>4 DEF OpenedAt, QuickFixWins, IsQuickFixWin
  <2> PICK b : b = Back(on)
    OBVIOUS
  <2>6. Sound(b) /\ Alike(on, b) /\ b.cur = s.cur
    <3>1. on.prev = s.cur /\ s.cur # NoWin
      BY <2>3, <2>4, WindowsAssumed DEF OpenedAt
    <3> QED  BY <2>2, <3>1, BackResult
  <2>7. ASSUME NEW off \in QuickFixWinToggle(on)
        PROVE  off.order = s.order /\ off.cur = s.cur
    <3>1. PICK r \in CcloseCmd(b) : off = IF Len(r.order) = Len(on.order) THEN Copen(r) ELSE r
      BY <2>5 DEF QuickFixWinToggle
    <3>2. QuickFixWins(b) = {w} /\ b.order = on.order
      BY <2>5, <2>6, AlikeLists DEF Alike
    <3>3. Sound(r) /\ Closed(b, w, r)
      BY <2>6, <3>2, CcloseCmdResult
    <3>4. Alike(s, r) /\ r.cur = s.cur /\ Len(r.order) # Len(b.order)
      BY <2>1, <2>2, <2>3, <2>4, <2>6, <3>3, CloseOpened
    <3> QED  BY <3>1, <3>2, <3>4 DEF Alike
  <2> QED  BY <2>5, <2>7
<1> QED  BY QuickFixInvariant, <1>1, PTL

\* LocListWinToggle opens the location window of the current window's list, or
\* closes it, and touches no other window: LocToggleFlips.
THEOREM LocToggleAlwaysFlips == Spec => []LocToggleFlips
<1>1. QInv => LocToggleFlips
  <2> SUFFICES ASSUME QInv, Room, HasLocList(vim),
                      Len(vim.order) > 1 \/ LocWins(vim) = {},
                      NEW t \in LocListWinToggle(vim)
               PROVE  IF LocWins(vim) = {}
                      THEN \E w \in Range(t.order) :
                              /\ Range(t.order) = Range(vim.order) \cup {w}
                              /\ w \notin Range(vim.order)
                              /\ LocWins(t) = {w} /\ t.list[t.cur] = vim.list[vim.cur]
                      ELSE Range(t.order) = Range(vim.order) \ LocWins(vim)
    BY DEF LocToggleFlips
  <2> PICK s : s = vim
    OBVIOUS
  <2>1. Sound(s) /\ Len(s.order) < MaxWins /\ HasLocList(s)
    BY DEF QInv, Room
  <2>2. Sound(t)
    BY <2>1, LocListWinToggleResult
  <2>3. CASE LocWins(s) = {}
    <3> PICK i, list : i = Place(s, s.cur) + 1 /\ list = s.list[s.cur]
      OBVIOUS
    <3>1. PICK w \in Windows \ Range(s.order) : OpenedAt(s, i, w, "location", list, t)
      BY <2>1, <2>3, LocListWinToggleResult
    <3>2. /\ Range(t.order) = Range(s.order) \cup {w} /\ t.cur = w
          /\ t.kind[w] = "location" /\ t.list[w] = list
      BY <3>1 DEF OpenedAt
    <3>3. w \in LocWins(t)
      BY <3>2 DEF LocWins
    <3>4. LocWins(t) = {w}
      BY <2>2, <3>3, LocWinsResult
    <3> QED  BY <2>3, <3>2, <3>4
  <2>4. CASE LocWins(s) # {}
    <3>1. PICK w \in Range(s.order) : LocWins(s) = {w}
      BY <2>1, <2>4, LocWinsResult
    <3>2. Range(s.order) # {w}
      <4>1. /\ s.order[1] \in Range(s.order) /\ s.order[2] \in Range(s.order)
            /\ s.order[1] # s.order[2]
        <5>1. /\ Len(s.order) \in Nat /\ Len(s.order) > 1 /\ DOMAIN s.order = 1 .. Len(s.order)
              /\ Distinct(s.order)
          BY <2>1, <2>4, OrderResult DEF Sound
        <5>2. 1 \in 1 .. Len(s.order) /\ 2 \in 1 .. Len(s.order) /\ 1 # 2
          BY <5>1
        <5> QED  BY <5>1, <5>2 DEF Distinct, Range
      <4> QED  BY <4>1
    <3>3. Closed(s, w, t)
      BY <2>1, <3>1, <3>2, LocListWinToggleResult
    <3> QED  BY <2>4, <3>1, <3>2, <3>3 DEF Closed
  <2> QED  BY <2>3, <2>4
<1> QED  BY QuickFixInvariant, <1>1, PTL

\* LocListWinIsOpen answers right, whatever it opened and closed to find out, and
\* leaves the windows and, unless the window is open, the user: AskingIsHarmless.
THEOREM AskingAlwaysHarmless == Spec => []AskingIsHarmless
<1>1. QInv => AskingIsHarmless
  <2> SUFFICES ASSUME QInv, Room, NEW r \in LocListWinIsOpen(vim)
               PROVE  /\ r.is <=> HasLocList(vim) /\ LocWins(vim) # {}
                      /\ r.vim.order = vim.order
                      /\ r.vim.cur \in {vim.cur} \cup IF r.is THEN LocWins(vim) ELSE {}
    BY DEF AskingIsHarmless
  <2> PICK s : s = vim
    OBVIOUS
  <2>1. Sound(s) /\ Len(s.order) < MaxWins
    BY DEF QInv, Room
  <2>2. /\ r.is <=> HasLocList(s) /\ LocWins(s) # {}
        /\ r.vim.order = s.order
        /\ IF r.is THEN r.vim.cur \in LocWins(s) ELSE r.vim.cur = s.cur
    BY <2>1, LocListWinIsOpenResult DEF Alike
  <2> QED  BY <2>2
<1> QED  BY QuickFixInvariant, <1>1, PTL

\* When F4 decides for the location list, the window it is in by then has one:
\* PreferredExists.
THEOREM PreferredAlwaysExists == Spec => []PreferredExists
<1>1. QInv => PreferredExists
  <2> SUFFICES ASSUME QInv, Room, NEW r \in LocListIsPreferred(vim), r.loc
               PROVE  HasLocList(r.vim)
    BY DEF PreferredExists
  <2> PICK s : s = vim
    OBVIOUS
  <2>1. Sound(s) /\ Len(s.order) < MaxWins
    BY DEF QInv, Room
  <2>2. NoList \notin messages
    BY WindowsAssumed DEF QInv
  <2> QED  BY <2>1, <2>2, LocListIsPreferredResult
<1> QED  BY QuickFixInvariant, <1>1, PTL

\* :L leaves the user in his window, keeps every window and puts a QuickFix window
\* at the bottom if there is one: LayoutKeepsPlace.
THEOREM LayoutAlwaysKeepsPlace == Spec => []LayoutKeepsPlace
<1>1. QInv => LayoutKeepsPlace
  <2> SUFFICES ASSUME QInv, NEW columns \in 0 .. 2
               PROVE  LET t == LayoutWindows(vim, columns)
                      IN  /\ t.cur = vim.cur
                          /\ Range(t.order) = Range(vim.order)
                          /\ QuickFixWins(vim) # {} => Last(t.order) \in QuickFixWins(vim)
    BY DEF LayoutKeepsPlace
  <2> PICK s : s = vim
    OBVIOUS
  <2>1. Sound(s)
    BY DEF QInv
  <2> QED  BY <2>1, LayoutResult DEF Kept
<1> QED  BY QuickFixInvariant, <1>1, PTL
=============================================================================

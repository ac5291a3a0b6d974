------------------------------ MODULE VenvProofs ------------------------------
(***************************************************************************)
(* What switching virtual environments does to PATH, for every PATH, every *)
(* set of environments and every order of commands.                        *)
(***************************************************************************)
EXTENDS Venv, InductionProofs

(***************************************************************************)
(* Selecting parts of a PATH.                                              *)
(***************************************************************************)
\* Select goes through the parts from the first to the last.
Selecting(g, p, S) ==
    /\ g[0] = <<>>
    /\ \A k \in 1 .. Len(p) :
          g[k] = IF p[k] \in S THEN Append(g[k - 1], p[k]) ELSE g[k - 1]

LEMMA Select_Trace ==
    ASSUME NEW E, NEW p \in Seq(E), NEW S
    PROVE  \E g : Selecting(g, p, S) /\ Select(p, S) = g[Len(p)]
<1> DEFINE n == Len(p)
           step == [a \in Seq(E) \X (1 .. n) |->
                       IF p[a[2]] \in S THEN Append(a[1], p[a[2]]) ELSE a[1]]
<1>1. n \in Nat /\ DOMAIN p = 1 .. n /\ \A k \in 1 .. n : p[k] \in E
  OBVIOUS
<1>2. step \in [Seq(E) \X (1 .. n) -> Seq(E)]
  <2>1. ASSUME NEW a \in Seq(E) \X (1 .. n)
        PROVE  (IF p[a[2]] \in S THEN Append(a[1], p[a[2]]) ELSE a[1]) \in Seq(E)
    BY <1>1
  <2> QED  BY <2>1
<1>3. <<>> \in Seq(E)
  OBVIOUS
<1>4. PICK h : IsFold(h, n, Seq(E), <<>>, step)
  <2> HIDE DEF step, n
  <2> QED  BY <1>1, <1>2, <1>3, FoldExists
<1>5. h = [T \in SUBSET (DOMAIN p) |->
              IF T = {} THEN <<>>
              ELSE IF p[Max(T)] \in S THEN Append(h[T \ {Max(T)}], p[Max(T)])
                   ELSE h[T \ {Max(T)}]]
  <2>1. ASSUME NEW T \in SUBSET (1 .. n), T # {}
        PROVE  h[T] = IF p[Max(T)] \in S THEN Append(h[T \ {Max(T)}], p[Max(T)])
                      ELSE h[T \ {Max(T)}]
    <3>1. Max(T) \in 1 .. n /\ T \ {Max(T)} \in SUBSET (1 .. n)
      BY <1>1, <2>1, MaxOfSet
    <3>2. h[T \ {Max(T)}] \in Seq(E)
      BY <1>4, <3>1 DEF IsFold
    <3>3. <<h[T \ {Max(T)}], Max(T)>> \in Seq(E) \X (1 .. n)
      BY <3>1, <3>2
    <3> QED  BY <1>4, <2>1, <3>3 DEF IsFold
  <2> QED  BY <1>1, <1>4, <2>1 DEF IsFold
<1> DEFINE iter == CHOOSE i : i = [T \in SUBSET (DOMAIN p) |->
              IF T = {} THEN <<>>
              ELSE IF p[Max(T)] \in S THEN Append(i[T \ {Max(T)}], p[Max(T)])
                   ELSE i[T \ {Max(T)}]]
<1>6. iter = [T \in SUBSET (DOMAIN p) |->
              IF T = {} THEN <<>>
              ELSE IF p[Max(T)] \in S THEN Append(iter[T \ {Max(T)}], p[Max(T)])
                   ELSE iter[T \ {Max(T)}]]
  BY <1>5, Zenon
<1>7. Select(p, S) = iter[DOMAIN p]
  BY Zenon DEF Select, FoldLeft, MapThenFoldSet
<1> DEFINE g == [k \in 0 .. n |-> iter[1 .. k]]
<1> HIDE DEF iter, step
<1>8. g[0] = <<>>
  BY <1>6
<1>9. ASSUME NEW k \in 1 .. n
      PROVE  g[k] = IF p[k] \in S THEN Append(g[k - 1], p[k]) ELSE g[k - 1]
  <2>1. /\ 1 .. k \in SUBSET (DOMAIN p) /\ 1 .. k # {}
        /\ Max(1 .. k) = k /\ (1 .. k) \ {k} = 1 .. k - 1
    BY <1>1, UpToLast
  <2>2. g[k] = iter[1 .. k] /\ g[k - 1] = iter[1 .. k - 1]
    BY <1>1
  <2>3. iter[1 .. k] = IF p[k] \in S THEN Append(iter[1 .. k - 1], p[k])
                       ELSE iter[1 .. k - 1]
    BY <1>6, <2>1
  <2> QED  BY <2>2, <2>3
<1>10. Select(p, S) = g[n]
  BY <1>1, <1>7
<1>11. Selecting(g, p, S)
  BY <1>8, <1>9 DEF Selecting
<1> HIDE DEF g
<1> QED  BY <1>10, <1>11

LEMMA Select_Empty == ASSUME NEW S PROVE Select(<<>>, S) = <<>>
<1>1. <<>> \in Seq({}) /\ Len(<<>>) = 0
  OBVIOUS
<1>2. \E g : Selecting(g, <<>>, S) /\ Select(<<>>, S) = g[Len(<<>>)]
  BY <1>1, Select_Trace
<1> QED  BY <1>1, <1>2 DEF Selecting

LEMMA Select_Append ==
    ASSUME NEW E, NEW p \in Seq(E), NEW x \in E, NEW S
    PROVE  Select(Append(p, x), S) =
              IF x \in S THEN Append(Select(p, S), x) ELSE Select(p, S)
<1> DEFINE n == Len(p)
           q == Append(p, x)
<1>1. /\ n \in Nat /\ q \in Seq(E) /\ Len(q) = n + 1 /\ q[n + 1] = x
      /\ \A k \in 1 .. n : q[k] = p[k]
  OBVIOUS
<1>2. PICK g : Selecting(g, p, S) /\ Select(p, S) = g[n]
  BY Select_Trace
<1>3. PICK h : Selecting(h, q, S) /\ Select(q, S) = h[Len(q)]
  <2> HIDE DEF q
  <2> QED  BY <1>1, Select_Trace
<1> HIDE DEF q, n
<1>4. \A k \in 1 .. n : g[k - 1] = h[k - 1] => g[k] = h[k]
  <2>1. \A k \in 1 .. n : k \in 1 .. Len(q) /\ q[k] = p[k]
    BY <1>1
  <2> QED  BY <1>2, <1>3, <2>1 DEF Selecting, n
<1>5. \A k \in 0 .. n : g[k] = h[k]
  <2>1. n \in Nat /\ g[0] = h[0]
    BY <1>1, <1>2, <1>3 DEF Selecting
  <2>2. GoAlike(g, h, n)
    BY <1>4, <2>1 DEF GoAlike
  <2> QED  BY <2>1, <2>2, SameTrace
<1>6. h[n + 1] = IF x \in S THEN Append(h[n], x) ELSE h[n]
  <2>1. n + 1 \in 1 .. Len(q) /\ (n + 1) - 1 = n
    BY <1>1
  <2> QED  BY <1>1, <1>3, <2>1 DEF Selecting
<1>7. g[n] = h[n]
  BY <1>1, <1>5
<1> QED  BY <1>1, <1>2, <1>3, <1>6, <1>7 DEF q

LEMMA Select_Range ==
    ASSUME NEW E, NEW p \in Seq(E), NEW S
    PROVE  Select(p, S) \in Seq(E \cap S) /\ Range(Select(p, S)) \subseteq Range(p)
<1> DEFINE Q == {q \in Seq(E) : /\ Select(q, S) \in Seq(E \cap S)
                               /\ Range(Select(q, S)) \subseteq Range(q)}
<1>1. <<>> \in Q
  <2>1. <<>> \in Seq(E) /\ <<>> \in Seq(E \cap S)
    OBVIOUS
  <2> QED  BY <2>1, Select_Empty
<1>2. ASSUME NEW q \in Seq(E), NEW x \in E, q \in Q PROVE Append(q, x) \in Q
  <2>1. /\ Append(q, x) \in Seq(E)
        /\ Range(Append(q, x)) = Range(q) \cup {x}
    BY RangeOfAppend
  <2>2. CASE x \in S
    <3>1. Select(Append(q, x), S) = Append(Select(q, S), x)
      BY <2>2, Select_Append
    <3>2. Append(Select(q, S), x) \in Seq(E \cap S)
      BY <1>2, <2>2
    <3>3. Range(Append(Select(q, S), x)) = Range(Select(q, S)) \cup {x}
      BY <1>2, RangeOfAppend
    <3> QED  BY <1>2, <2>1, <3>1, <3>2, <3>3
  <2>3. CASE x \notin S
    <3>1. Select(Append(q, x), S) = Select(q, S)
      BY <2>3, Select_Append
    <3> QED  BY <1>2, <2>1, <3>1
  <2> QED  BY <2>2, <2>3
<1> HIDE DEF Q
<1>3. p \in Q
  BY <1>1, <1>2, SeqInduction
<1> QED  BY <1>3 DEF Q

LEMMA Select_None ==
    ASSUME NEW E, NEW p \in Seq(E), NEW S, E \cap S = {}
    PROVE  Select(p, S) = <<>>
<1>1. Select(p, S) \in Seq({})
  BY Select_Range
<1> QED  BY <1>1

LEMMA Select_Select ==
    ASSUME NEW E, NEW p \in Seq(E), NEW S, NEW T \in SUBSET S
    PROVE  Select(Select(p, S), T) = Select(p, T)
<1> DEFINE Q == {q \in Seq(E) : Select(Select(q, S), T) = Select(q, T)}
<1>1. <<>> \in Q
  BY Select_Empty
<1>2. ASSUME NEW q \in Seq(E), NEW x \in E, q \in Q PROVE Append(q, x) \in Q
  <2>1. Append(q, x) \in Seq(E) /\ Select(q, S) \in Seq(E)
    <3>1. Select(q, S) \in Seq(E \cap S)
      BY Select_Range
    <3> QED  BY <3>1
  <2>2. Select(Append(q, x), T) =
           IF x \in T THEN Append(Select(q, T), x) ELSE Select(q, T)
    BY Select_Append
  <2>3. CASE x \in S
    <3>1. Select(Append(q, x), S) = Append(Select(q, S), x)
      BY <2>3, Select_Append
    <3>2. Select(Append(Select(q, S), x), T) =
             IF x \in T THEN Append(Select(Select(q, S), T), x)
             ELSE Select(Select(q, S), T)
      BY <2>1, Select_Append
    <3> QED  BY <1>2, <2>1, <2>2, <3>1, <3>2
  <2>4. CASE x \notin S
    <3>1. Select(Append(q, x), S) = Select(q, S) /\ x \notin T
      BY <2>4, Select_Append
    <3> QED  BY <1>2, <2>1, <2>2, <3>1
  <2> QED  BY <2>3, <2>4
<1> HIDE DEF Q
<1>3. p \in Q
  BY <1>1, <1>2, SeqInduction
<1> QED  BY <1>3 DEF Q

LEMMA Select_Concat ==
    ASSUME NEW E, NEW p \in Seq(E), NEW r \in Seq(E), NEW S
    PROVE  Select(p \o r, S) = Select(p, S) \o Select(r, S)
<1> DEFINE Q == {q \in Seq(E) : Select(p \o q, S) = Select(p, S) \o Select(q, S)}
<1>1. <<>> \in Q
  <2>1. Select(p, S) \in Seq(E \cap S)
    BY Select_Range
  <2> QED  BY <2>1, Select_Empty
<1>2. ASSUME NEW q \in Seq(E), NEW x \in E, q \in Q PROVE Append(q, x) \in Q
  <2>1. /\ Append(q, x) \in Seq(E) /\ p \o q \in Seq(E)
        /\ p \o Append(q, x) = Append(p \o q, x)
    OBVIOUS
  <2>2. /\ Select(Append(p \o q, x), S) =
              IF x \in S THEN Append(Select(p \o q, S), x) ELSE Select(p \o q, S)
        /\ Select(Append(q, x), S) =
              IF x \in S THEN Append(Select(q, S), x) ELSE Select(q, S)
    BY <2>1, Select_Append
  <2>3. Select(p, S) \in Seq(E) /\ Select(q, S) \in Seq(E)
    <3>1. Select(p, S) \in Seq(E \cap S) /\ Select(q, S) \in Seq(E \cap S)
      BY Select_Range
    <3> QED  BY <3>1
  <2>4. Append(Select(p, S) \o Select(q, S), x) = Select(p, S) \o Append(Select(q, S), x)
    <3>1. \A a, b \in Seq(E) : a \o Append(b, x) = Append(a \o b, x)
      OBVIOUS
    <3> QED  BY <2>3, <3>1
  <2> QED  BY <1>2, <2>1, <2>2, <2>4
<1> HIDE DEF Q
<1>3. r \in Q
  BY <1>1, <1>2, SeqInduction
<1> QED  BY <1>3 DEF Q

(***************************************************************************)
(* The multi-path functions.                                               *)
(***************************************************************************)
LEMMA NamesApart ==
    /\ Empty \notin Bins /\ Empty \notin Dirs /\ Bins \cap Dirs = {}
    /\ None \notin Candidates
    /\ \A v, w : BinPath(v) = BinPath(w) => v = w
    /\ \A v \in Candidates : BinPath(v) \in Bins
<1>1. None \notin Candidates
  BY VenvAssumption DEF None
<1>2. Empty \notin Bins
  BY DEF Empty, Bins, BinPath
<1>3. \A v, w : BinPath(v) = BinPath(w) => v = w
  BY DEF BinPath
<1> QED  BY <1>1, <1>2, <1>3, DirsAssumption DEF Bins

LEMMA OthersApart ==
    /\ Others \subseteq Dirs /\ Empty \notin Others /\ Others \cap Bins = {}
    /\ \A x \in Others, part \in Bins : ~SameDir(x, part)
BY NamesApart DEF Others, Bins

\* Split leaves out some of the empty parts, and nothing else.
LEMMA Split_Parts ==
    ASSUME NEW p \in Seq(Parts)
    PROVE  /\ Split(p) \in Seq(Parts) /\ Range(Split(p)) \subseteq Range(p)
           /\ \A S : Empty \notin S => Select(Split(p), S) = Select(p, S)
<1> DEFINE I == {i \in 1 .. Len(p) : p[i] # Empty}
           first == IF I # {} THEN Min(I) ELSE 0
           q == SubSeq(p, first, Len(p))
<1>1. Split(p) = IF first = 0 THEN <<>> ELSE IF Last(q) = Empty THEN Front(q) ELSE q
  BY DEF Split, SelectInSeq
<1>2. I \in SUBSET Nat /\ \A i \in I : i \in 1 .. Len(p)
  OBVIOUS
<1>3. CASE I = {}
  <2>1. p \in Seq({Empty})
    <3>1. Len(p) \in Nat /\ p = [i \in 1 .. Len(p) |-> p[i]]
      OBVIOUS
    <3>2. \A i \in 1 .. Len(p) : p[i] \in {Empty}
      BY <1>3
    <3> QED  BY <3>1, <3>2
  <2>2. Split(p) = <<>>
    BY <1>1, <1>3
  <2>3. ASSUME NEW S, Empty \notin S PROVE Select(p, S) = <<>>
    <3>1. {Empty} \cap S = {}
      BY <2>3
    <3> QED  BY <2>1, <3>1, Select_None
  <2> QED  BY <2>2, <2>3, Select_Empty DEF Range
<1>4. CASE I # {}
  <2>1. /\ first \in 1 .. Len(p) /\ first # 0
        /\ \A i \in 1 .. first - 1 : p[i] = Empty
    <3>1. first \in I /\ \A m \in I : first <= m
      <4> HIDE DEF I
      <4> QED  BY <1>2, <1>4, MinOfSet
    <3>2. first \in 1 .. Len(p) /\ Len(p) \in Nat
      <4> HIDE DEF first
      <4> QED  BY <1>2, <3>1
    <3>3. \A i \in 1 .. first - 1 : i \in 1 .. Len(p) /\ ~(first <= i)
      <4> HIDE DEF first
      <4> QED  BY <3>2
    <3> HIDE DEF first
    <3>4. \A i \in 1 .. first - 1 : i \notin I
      BY <3>1, <3>3
    <3> QED  BY <3>2, <3>3, <3>4
  <2> HIDE DEF first
  <2> DEFINE a == SubSeq(p, 1, first - 1)
  <2>2. /\ q \in Seq(Parts) /\ Len(q) = Len(p) - first + 1
        /\ a \in Seq(Parts) /\ Len(a) = first - 1
        /\ p = a \o q
    BY <2>1
  <2>3. a \in Seq({Empty})
    <3>1. \A i \in 1 .. Len(a) : a[i] \in {Empty}
      BY <2>1
    <3> HIDE DEF a
    <3> QED  BY <2>2, <3>1, SeqOfElements
  <2> HIDE DEF a, q
  <2>4. \A S : Empty \notin S => Select(p, S) = Select(q, S)
    <3>1. SUFFICES ASSUME NEW S, Empty \notin S PROVE Select(p, S) = Select(q, S)
      OBVIOUS
    <3>2. Select(p, S) = Select(a, S) \o Select(q, S)
      BY <2>2, Select_Concat
    <3>3. {Empty} \cap S = {}
      BY <3>1
    <3>4. Select(a, S) = <<>>
      BY <2>3, <3>3, Select_None
    <3>5. Select(q, S) \in Seq(Parts \cap S)
      BY <2>2, Select_Range
    <3> QED  BY <3>2, <3>4, <3>5
  <2>5. Range(q) \subseteq Range(p)
    BY <2>2, RangeConcatenation
  <2>6. CASE Last(q) # Empty
    BY <1>1, <2>1, <2>2, <2>4, <2>5, <2>6
  <2>7. CASE Last(q) = Empty
    <3>1. /\ Front(q) \in Seq(Parts) /\ Last(q) \in Parts
          /\ q = Append(Front(q), Last(q))
      BY <2>1, <2>2 DEF Front, Last
    <3>2. PICK f \in Seq(Parts) : f = Front(q) /\ q = Append(f, Empty)
      BY <2>7, <3>1
    <3>3. Empty \in Parts
      BY DEF Parts
    <3>4. Range(Append(f, Empty)) = Range(f) \cup {Empty}
      BY RangeOfAppend
    <3>5. \A S : Empty \notin S => Select(Append(f, Empty), S) = Select(f, S)
      BY <3>3, Select_Append
    <3>6. Split(p) = f
      BY <1>1, <2>1, <2>7, <3>2
    <3> QED  BY <2>4, <2>5, <3>2, <3>4, <3>5, <3>6
  <2> QED  BY <2>6, <2>7
<1> QED  BY <1>3, <1>4

LEMMA Join_Parts ==
    ASSUME NEW q \in Seq(Parts)
    PROVE  /\ Join(q) \in Seq(Parts) /\ Range(Join(q)) \subseteq Range(q) \cup {Empty}
           /\ \A S : Empty \notin S => Select(Join(q), S) = Select(q, S)
<1>1. CASE q # <<>>
  BY <1>1 DEF Join
<1>2. CASE q = <<>>
  <2>1. Join(q) = <<Empty>>
    BY <1>2 DEF Join
  <2>2. <<Empty>> \in Seq({Empty}) /\ <<Empty>> \in Seq(Parts)
    BY DEF Parts
  <2>3. Range(<<Empty>>) \subseteq {Empty}
    BY DEF Range
  <2>4. ASSUME NEW S, Empty \notin S PROVE Select(<<Empty>>, S) = <<>>
    <3>1. {Empty} \cap S = {}
      BY <2>4
    <3> QED  BY <2>2, <3>1, Select_None
  <2> QED  BY <1>2, <2>1, <2>2, <2>3, <2>4, Select_Empty
<1> QED  BY <1>1, <1>2

\* Every copy of the part is gone, and of the other directories none.
LEMMA Remove_Parts ==
    ASSUME NEW p \in Seq(Parts), NEW part \in Bins
    PROVE  /\ MpathRemove(p, part) \in Seq(Parts)
           /\ Range(MpathRemove(p, part)) \subseteq (Range(p) \ {part}) \cup {Empty}
           /\ Select(MpathRemove(p, part), Others) = Select(p, Others)
<1> DEFINE unlike == {x \in Parts : ~SameDir(x, part)}
           kept == Select(Split(p), unlike)
<1>1. /\ Split(p) \in Seq(Parts) /\ Range(Split(p)) \subseteq Range(p)
      /\ Select(Split(p), Others) = Select(p, Others)
  BY Split_Parts, OthersApart
<1>2. part \notin unlike /\ Others \in SUBSET unlike
  BY OthersApart DEF SameDir, Parts
<1>3. MpathRemove(p, part) = Join(kept)
  BY DEF MpathRemove
<1> HIDE DEF unlike
<1>4. kept \in Seq(Parts \cap unlike) /\ Range(kept) \subseteq Range(Split(p))
  BY <1>1, Select_Range
<1>5. kept \in Seq(Parts) /\ part \notin Range(kept)
  <2> HIDE DEF kept
  <2>1. Range(kept) \subseteq Parts \cap unlike
    BY <1>4, RangeOfSeq
  <2> QED  BY <1>2, <1>4, <2>1
<1>6. Select(kept, Others) = Select(Split(p), Others)
  BY <1>1, <1>2, Select_Select
<1> HIDE DEF kept
<1>7. /\ Join(kept) \in Seq(Parts) /\ Range(Join(kept)) \subseteq Range(kept) \cup {Empty}
      /\ Select(Join(kept), Others) = Select(kept, Others)
  BY <1>5, Join_Parts, OthersApart
<1> QED  BY <1>1, <1>3, <1>4, <1>5, <1>6, <1>7

(***************************************************************************)
(* The environments.                                                       *)
(***************************************************************************)
\* What is found holds an environment, wherever the search looks.
LEMMA Probe_Found ==
    ASSUME TypeOK, NEW dir
    PROVE  Probe(dir) \in Candidates \cup {None}
<1> DEFINE I == {i \in 1 .. Len(Subdirs) : <<dir, Subdirs[i]>> \in valid}
<1>1. CASE I = {}
  BY <1>1 DEF Probe, SelectInSeq
<1>2. CASE I # {}
  <2>1. Min(I) \in I
    <3>1. I \in SUBSET Nat
      BY DEF Subdirs
    <3> HIDE DEF I
    <3> QED  BY <1>2, <3>1, MinOfSet
  <2>2. <<dir, Subdirs[Min(I)]>> \in valid /\ Min(I) # 0
    BY <2>1
  <2>3. Probe(dir) = <<dir, Subdirs[Min(I)]>>
    BY <1>2, <2>2 DEF Probe, SelectInSeq
  <2> QED  BY <2>2, <2>3 DEF TypeOK
<1> QED  BY <1>1, <1>2

IInv == TypeOK /\ ActiveFirst /\ InactiveOff /\ OthersKept /\ ServersFollow

\* The PATH without the active environment, to which the next one is added.
Rest == IF venv = None THEN path ELSE MpathRemove(path, BinPath(venv))

LEMMA Rest_Parts ==
    ASSUME IInv
    PROVE  /\ Rest \in Seq(Parts)
           /\ Select(Rest, Others) = Select(shellPath, Others)
           /\ \A v \in Candidates :
                 BinPath(v) \in Range(Rest) => BinPath(v) \in Range(shellPath)
<1>1. CASE venv = None
  BY <1>1, NamesApart DEF Rest, IInv, TypeOK, OthersKept, InactiveOff
<1>2. CASE venv # None
  <2>1. venv \in Candidates /\ BinPath(venv) \in Bins
    BY <1>2, NamesApart DEF IInv, TypeOK
  <2>2. /\ Rest \in Seq(Parts)
        /\ Range(Rest) \subseteq (Range(path) \ {BinPath(venv)}) \cup {Empty}
        /\ Select(Rest, Others) = Select(path, Others)
    BY <1>2, <2>1, Remove_Parts DEF Rest, IInv, TypeOK
  <2>3. ASSUME NEW v \in Candidates, BinPath(v) \in Range(Rest)
        PROVE  BinPath(v) \in Range(shellPath)
    <3>1. BinPath(v) # Empty
      BY NamesApart
    <3>2. BinPath(v) \in Range(path) /\ v # venv
      BY <2>2, <2>3, <3>1
    <3> QED  BY <3>2 DEF IInv, InactiveOff
  <2> QED  BY <2>2, <2>3 DEF IInv, OthersKept
<1> QED  BY <1>1, <1>2

\* The directory of an environment in front is on PATH, and the others stay.
LEMMA First_Parts ==
    ASSUME NEW b \in Parts \ Others, NEW r \in Seq(Parts)
    PROVE  /\ Range(<<b>> \o r) = {b} \cup Range(r)
           /\ Select(<<b>> \o r, Others) = Select(r, Others)
<1> DEFINE a == <<b>>
<1>1. a \in Seq(Parts) /\ a \in Seq({b}) /\ Range(a) = {b}
  BY DEF Range
<1> HIDE DEF a
<1>2. Range(a \o r) = {b} \cup Range(r)
  BY <1>1, RangeConcatenation
<1>3. {b} \cap Others = {}
  OBVIOUS
<1>4. Select(a \o r, Others) = Select(a, Others) \o Select(r, Others) /\ Select(a, Others) = <<>>
  BY <1>1, <1>3, Select_Concat, Select_None
<1>5. Select(r, Others) \in Seq(Parts \cap Others)
  BY Select_Range
<1>6. Select(a \o r, Others) = Select(r, Others)
  BY <1>4, <1>5
<1> QED  BY <1>2, <1>6 DEF a

\* Of the servers that are not told to stop each is spared, and in Vim only.
LEMMA Stop_Servers ==
    ASSUME TypeOK, StopLsp
    PROVE  /\ server' \in [Servers -> {"none", "starting", "running", "stopping"}]
           /\ DOMAIN serverEnv' = Servers
           /\ \A i \in Servers : i \notin Alive' <=> serverEnv'[i] = None
           /\ spared' \subseteq Alive'
           /\ \A i \in Alive' : editor = "vim" /\ i \in spared'
<1>1. PICK here \in SUBSET Servers :
          LET stopped == IF editor = "nvim" THEN Alive
                         ELSE {i \in here : server[i] = "running"}
          IN  /\ server' = [i \in Servers |->
                                IF i \in stopped THEN "stopping" ELSE server[i]]
              /\ serverEnv' = [i \in Servers |->
                                   IF i \in stopped THEN None ELSE serverEnv[i]]
              /\ spared' = IF editor = "nvim" THEN {}
                           ELSE {i \in Alive : i \notin here \/ server[i] = "starting"}
                                  \cup (spared \ stopped)
  BY DEF StopLsp
<1>2. CASE editor = "nvim"
  BY <1>1, <1>2 DEF TypeOK, Alive
<1>3. CASE editor = "vim"
  BY <1>1, <1>3 DEF TypeOK, Alive
<1> QED  BY <1>2, <1>3 DEF TypeOK

LEMMA Switch_IInv ==
    ASSUME IInv, NEW new \in Candidates, Switch(new), UNCHANGED <<valid, fixed>>
    PROVE  IInv'
<1>1. /\ path' = Join(<<BinPath(new)>> \o Rest) /\ venv' = new
      /\ StopLsp /\ UNCHANGED <<valid, shellPath, editor>>
  BY DEF Switch, Rest, fixed
<1>2. /\ Rest \in Seq(Parts)
      /\ Select(Rest, Others) = Select(shellPath, Others)
      /\ \A v \in Candidates :
            BinPath(v) \in Range(Rest) => BinPath(v) \in Range(shellPath)
  BY Rest_Parts
<1>3. BinPath(new) \in Bins /\ new # None /\ BinPath(new) \notin Others
  BY NamesApart, OthersApart
<1>4. /\ path' = <<BinPath(new)>> \o Rest
      /\ path' \in Seq(Parts)
      /\ path'[1] = BinPath(new) /\ Tail(path') = Rest
  <2> HIDE DEF Rest
  <2> DEFINE b == BinPath(new)
             q == <<b>> \o Rest
  <2>1. b \in Parts
    BY <1>3 DEF Parts
  <2> HIDE DEF b
  <2>2. q \in Seq(Parts) /\ q # <<>> /\ q[1] = b /\ Tail(q) = Rest
    BY <1>2, <2>1
  <2>3. path' = q
    <3>1. path' = Join(q)
      BY <1>1 DEF b
    <3> HIDE DEF q
    <3> QED  BY <2>2, <3>1 DEF Join
  <2> QED  BY <2>2, <2>3 DEF b
<1>5. /\ Range(path') = {BinPath(new)} \cup Range(Rest)
      /\ Select(path', Others) = Select(Rest, Others)
  BY <1>2, <1>3, <1>4, First_Parts DEF Parts
<1>6. TypeOK'
  <2>1. path' \in Seq(Parts) /\ venv' \in Candidates
    BY <1>1, <1>4
  <2>2. spared' \subseteq Alive' /\ TypeOK
    BY <1>1, Stop_Servers DEF IInv
  <2> QED  BY <1>1, <2>1, <2>2, Stop_Servers DEF TypeOK
<1>7. ActiveFirst'
  BY <1>1, <1>2, <1>4 DEF ActiveFirst
<1>8. InactiveOff'
  <2>1. ASSUME NEW v \in Candidates, v # new, BinPath(v) \in Range(path')
        PROVE  BinPath(v) \in Range(shellPath)
    <3>1. BinPath(v) # BinPath(new)
      BY <2>1, NamesApart
    <3> QED  BY <1>2, <1>5, <2>1, <3>1
  <2> QED  BY <1>1, <2>1 DEF InactiveOff
<1>9. OthersKept'
  BY <1>1, <1>2, <1>5 DEF OthersKept
<1>10. ServersFollow'
  BY <1>1, Stop_Servers DEF IInv, ServersFollow
<1> QED  BY <1>6, <1>7, <1>8, <1>9, <1>10 DEF IInv

LEMMA Deactivate_IInv == ASSUME IInv, Deactivate PROVE IInv'
<1>1. /\ venv # None /\ path' = Rest /\ venv' = None
      /\ StopLsp /\ UNCHANGED <<valid, shellPath, editor>>
  BY DEF Deactivate, Rest, fixed
<1>2. TypeOK'
  <2>1. path' \in Seq(Parts) /\ TypeOK
    BY <1>1, Rest_Parts DEF IInv
  <2> QED  BY <1>1, <2>1, Stop_Servers DEF TypeOK
<1>3. ActiveFirst' /\ ServersFollow'
  BY <1>1, Stop_Servers DEF ActiveFirst, IInv, ServersFollow
<1>4. InactiveOff' /\ OthersKept'
  BY <1>1, Rest_Parts DEF InactiveOff, OthersKept
<1> QED  BY <1>2, <1>3, <1>4 DEF IInv

LEMMA Init_IInv == Init => IInv
<1> SUFFICES ASSUME Init PROVE IInv
  OBVIOUS
<1>1. PICK p \in BoundedSeq(Parts, MaxPath), v \in Candidates \cup {None} :
          /\ venv = v
          /\ path = IF v = None THEN Join(p) ELSE <<BinPath(v)>> \o p
  BY DEF Init
<1>2. /\ shellPath = path /\ valid \in SUBSET Candidates
      /\ editor \in {"vim", "nvim"} /\ spared = {}
      /\ server = [i \in Servers |-> "none"] /\ serverEnv = [i \in Servers |-> None]
  BY DEF Init
<1>3. p \in Seq(Parts)
  BY VenvAssumption DEF BoundedSeq, SeqOf
<1>4. path \in Seq(Parts) /\ (v # None => path[1] = BinPath(v) /\ path # <<>>)
  <2>1. CASE v = None
    BY <1>1, <1>3, <2>1, Join_Parts
  <2>2. CASE v # None
    <3> DEFINE b == BinPath(v)
    <3>1. b \in Parts
      BY <2>2, NamesApart DEF Parts
    <3> HIDE DEF b
    <3>2. <<b>> \o p \in Seq(Parts) /\ (<<b>> \o p)[1] = b /\ <<b>> \o p # <<>>
      BY <1>3, <3>1
    <3> QED  BY <1>1, <2>2, <3>2 DEF b
  <2> QED  BY <2>1, <2>2
<1>5. v # None => BinPath(v) \in Range(shellPath)
  BY <1>2, <1>4 DEF Range
<1> QED
  BY <1>1, <1>2, <1>4, <1>5
  DEF IInv, TypeOK, Alive, ActiveFirst, InactiveOff, OthersKept, ServersFollow

\* What the servers do by themselves.
LEMMA Server_IInv ==
    ASSUME IInv, NEW i \in Servers, StartServer(i) \/ ServerUp(i) \/ ServerEnds(i)
    PROVE  IInv'
<1>1. /\ UNCHANGED <<path, venv, valid, shellPath, editor>>
      /\ ActiveFirst' /\ InactiveOff' /\ OthersKept'
  BY DEF StartServer, ServerUp, ServerEnds, fixed, IInv, ActiveFirst, InactiveOff, OthersKept
<1>2. \A j \in Servers \ {i} : server'[j] = server[j] /\ serverEnv'[j] = serverEnv[j]
  BY DEF StartServer, ServerUp, ServerEnds, IInv, TypeOK
<1>3. \A j \in Servers \ {i} : j \in Alive' <=> j \in Alive
  BY <1>2 DEF Alive
<1>4. /\ server' \in [Servers -> {"none", "starting", "running", "stopping"}]
      /\ DOMAIN serverEnv' = Servers
  BY DEF StartServer, ServerUp, ServerEnds, IInv, TypeOK
<1>5. TypeOK /\ Alive \subseteq Servers /\ Alive' \subseteq Servers
  BY DEF IInv, Alive
<1>6. ASSUME spared' \subseteq Alive', i \notin Alive' <=> serverEnv'[i] = None
      PROVE  TypeOK'
  <2>1. \A j \in Servers : j \notin Alive' <=> serverEnv'[j] = None
    BY <1>2, <1>3, <1>6, <1>5 DEF TypeOK
  <2> QED  BY <1>1, <1>4, <1>6, <1>5, <2>1 DEF TypeOK
<1>7. CASE StartServer(i)
  <2>1. /\ server'[i] = "starting" /\ serverEnv'[i] = <<venv, path>>
        /\ spared' = spared /\ i \notin Alive
    BY <1>7 DEF StartServer, IInv, TypeOK, Alive
  <2>2. i \in Alive' /\ serverEnv'[i] # None
    BY <2>1 DEF Alive, None
  <2>3. TypeOK'
    BY <1>3, <1>6, <1>5, <2>1, <2>2 DEF TypeOK
  <2>4. ServersFollow'
    BY <1>1, <1>2, <1>3, <2>1 DEF IInv, ServersFollow, Alive
  <2> QED  BY <1>1, <2>3, <2>4 DEF IInv
<1>8. CASE ServerUp(i)
  <2>1. /\ server'[i] = "running" /\ server[i] = "starting"
        /\ UNCHANGED <<serverEnv, spared>>
    BY <1>8 DEF ServerUp, IInv, TypeOK
  <2>2. i \in Alive' /\ i \in Alive
    BY <2>1 DEF Alive
  <2>3. TypeOK'
    BY <1>3, <1>6, <1>5, <2>1, <2>2 DEF TypeOK
  <2>4. ServersFollow'
    BY <1>1, <1>3, <2>1, <2>2 DEF IInv, ServersFollow, Alive
  <2> QED  BY <1>1, <2>3, <2>4 DEF IInv
<1>9. CASE ServerEnds(i)
  <2>1. /\ server'[i] = "none" /\ serverEnv'[i] = None /\ spared' = spared \ {i}
    BY <1>9 DEF ServerEnds, IInv, TypeOK
  <2>2. i \notin Alive'
    BY <2>1 DEF Alive
  <2>3. TypeOK'
    BY <1>3, <1>6, <1>5, <2>1, <2>2 DEF TypeOK
  <2>4. ServersFollow'
    BY <1>1, <1>2, <1>3, <2>1, <2>2 DEF IInv, ServersFollow, Alive
  <2> QED  BY <1>1, <2>3, <2>4 DEF IInv
<1> QED  BY <1>7, <1>8, <1>9

LEMMA Step_IInv == IInv /\ [Next]_vars => IInv'
<1> SUFFICES ASSUME IInv, [Next]_vars PROVE IInv'
  OBVIOUS
<1>1. CASE Activate
  <2>1. PICK new \in {Probe(d) : d \in 0 .. Deepest} \cup {Search} :
            \/ new # None /\ Switch(new)
            \/ new = None /\ UNCHANGED <<path, venv, servers>>
    BY <1>1 DEF Activate
  <2>2. UNCHANGED <<valid, fixed>>
    BY <1>1 DEF Activate
  <2>3. new \in Candidates \cup {None}
    <3>1. Search \in Candidates \cup {None}
      BY Probe_Found DEF Search, IInv
    <3>2. \A d \in 0 .. Deepest : Probe(d) \in Candidates \cup {None}
      BY Probe_Found DEF IInv
    <3> QED  BY <3>1, <3>2
  <2>4. CASE new # None /\ Switch(new)
    BY <2>2, <2>3, <2>4, Switch_IInv
  <2>5. CASE UNCHANGED <<path, venv, servers>>
    BY <2>2, <2>5
    DEF fixed, servers, IInv, TypeOK, Alive, ActiveFirst, InactiveOff, OthersKept, ServersFollow
  <2> QED  BY <2>1, <2>4, <2>5
<1>2. CASE Deactivate
  BY <1>2, Deactivate_IInv
<1>3. CASE FilesChange
  BY <1>3
  DEF FilesChange, fixed, servers, IInv, TypeOK, Alive, ActiveFirst, InactiveOff, OthersKept, ServersFollow
<1>4. CASE \E i \in Servers : StartServer(i) \/ ServerUp(i) \/ ServerEnds(i)
  BY <1>4, Server_IInv
<1>5. CASE UNCHANGED vars
  BY <1>5
  DEF vars, fixed, servers, IInv, TypeOK, Alive, ActiveFirst, InactiveOff, OthersKept, ServersFollow
<1> QED  BY <1>1, <1>2, <1>3, <1>4, <1>5 DEF Next

LEMMA Always_IInv == Spec => []IInv
BY Init_IInv, Step_IInv, PTL DEF Spec

\* The environment variables, the environments and the servers have their types.
THEOREM VenvTypeCorrect == Spec => []TypeOK
<1>1. IInv => TypeOK
  BY DEF IInv
<1> QED  BY <1>1, Always_IInv, PTL

\* Whatever PATH Vim was started with and whichever environments were switched
\* to, the active one's directory is first on PATH and is there once, unless the
\* shell had put it there.
THEOREM ActiveAlwaysFirst == Spec => []ActiveFirst
<1>1. IInv => ActiveFirst
  BY DEF IInv
<1> QED  BY <1>1, Always_IInv, PTL

\* The directory of an environment that is not active is on PATH only where Vim
\* was started with it.
THEOREM InactiveAlwaysOff == Spec => []InactiveOff
<1>1. IInv => InactiveOff
  BY DEF IInv
<1> QED  BY <1>1, Always_IInv, PTL

\* No sequence of commands loses, adds or moves one of the other directories,
\* those that are spelled unlike any environment's.
THEOREM OthersAlwaysKept == Spec => []OthersKept
<1>1. IInv => OthersKept
  BY DEF IInv
<1> QED  BY <1>1, Always_IInv, PTL

\* A language server works in an environment that was left only in Vim, and
\* only if it was of another buffer or not yet up when that was done.
THEOREM ServersAlwaysFollow == Spec => []ServersFollow
<1>1. IInv => ServersFollow
  BY DEF IInv
<1> QED  BY <1>1, Always_IInv, PTL
=============================================================================

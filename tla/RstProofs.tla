------------------------------ MODULE RstProofs ------------------------------
(***************************************************************************)
(* RstSections in documents of any length, with lines of any width and any *)
(* set of adornments.  That no line is part of two titles needs what the   *)
(* blanking of lines is for: a line that is still there is not behind or   *)
(* within a title (Fresh).  That levels are those of styles needs that     *)
(* level_values knows the styles in use, and no others (Known).  That      *)
(* titles are found needs the converse of Fresh: what was not part of a    *)
(* title is still there (Unspoilt).                                        *)
(***************************************************************************)
EXTENDS RstSections, SequenceTheorems, TLAPS

(***************************************************************************)
(* Why a stack of sections is enough to find parents: what is not on it is *)
(* hidden by something later on it.  The facts are about one AddSection,   *)
(* and hold for both programs that have it.                                *)
(***************************************************************************)
SectionsOf(Kinds) ==
    [level : Nat, line : Nat, style : Kinds, parent : Nat]

Splits(k, lev) ==
    /\ k = 0 \/ sections[previous[k]].level < lev
    /\ \A j \in k + 1 .. Len(previous) : sections[previous[j]].level >= lev

\* A section between two of the stack is not below the level of a later one.
StackInv ==
    /\ previous \in Seq(Nat)
    /\ \A a \in 1 .. Len(previous) : previous[a] \in 1 .. Len(sections)
    /\ \A a, b \in 1 .. Len(previous) : a < b => previous[a] < previous[b]
    /\ \A k \in 1 .. Len(sections) : \E a \in 1 .. Len(previous) :
        /\ previous[a] >= k
        /\ sections[previous[a]].level <= sections[k].level
    /\ \A lev \in Nat : \E k \in 0 .. Len(previous) : Splits(k, lev)

LEMMA BoundedSeq ==
    ASSUME NEW n \in Nat, NEW s \in Seq(Nat), \A a \in 1 .. Len(s) : s[a] \in 1 .. n
    PROVE  s \in Seq(1 .. n)
<1>1. Len(s) \in Nat /\ s \in [1 .. Len(s) -> Nat]
  BY LenProperties
<1>2. s \in [1 .. Len(s) -> 1 .. n]
  BY <1>1
<1> QED BY <1>1, <1>2, SeqDef

\* pop_sections stops somewhere, and there.
LEMMA KeptSplits ==
    ASSUME StackInv, NEW lev \in Nat
    PROVE  Kept(lev) \in 0 .. Len(previous) /\ Splits(Kept(lev), lev)
<1>1. \E k \in 0 .. Len(previous) : Splits(k, lev)
  BY DEF StackInv
<1> QED
  BY <1>1 DEF Kept, Splits

LEMMA StackInit_Inv ==
    ASSUME StackInit
    PROVE  StackInv /\ NearestParent
BY DEF StackInit, StackInv, Splits, NearestParent

\* The stack stays as it should be, the new section gets the parent that its
\* level asks for, and the others keep theirs.
LEMMA AddSection_Step ==
    ASSUME NEW Kinds, sections \in Seq(SectionsOf(Kinds)), StackInv, NearestParent,
           NEW lev \in Nat, NEW line \in Nat, NEW style \in Kinds,
           AddSection(lev, line, style)
    PROVE  /\ sections' \in Seq(SectionsOf(Kinds)) /\ StackInv' /\ NearestParent'
           /\ previous' \in Seq(1 .. Len(sections'))
<1>n. PICK n \in Nat : n = Len(sections)
  OBVIOUS
<1>m. PICK m \in Nat : m = Len(previous)
  <2>1. previous \in Seq(Nat)
    BY DEF StackInv
  <2> QED BY <2>1
<1>k. PICK k \in 0 .. m : k = Kept(lev)
  BY KeptSplits, <1>m
<1>z. PICK r : r = NewSection(lev, line, style, k)
  OBVIOUS
<1>e. /\ sections' \in Seq(SectionsOf(Kinds))
      /\ Len(sections') = n + 1 /\ sections'[n + 1] = r
      /\ \A j \in 1 .. n : sections'[j] = sections[j]
      /\ previous' \in Seq(Nat) /\ Len(previous') = k + 1
      /\ \A a \in 1 .. k : previous'[a] = previous[a]
      /\ previous'[k + 1] = n + 1
  <2>1. previous \in Seq(Nat)
    BY DEF StackInv
  <2>2. r \in SectionsOf(Kinds)
    BY <2>1, <1>m, <1>z DEF SectionsOf, NoParent, NewSection
  <2>3. sections' = Append(sections, r) /\ previous' = Append(SubSeq(previous, 1, k), n + 1)
    BY <1>n, <1>k, <1>z DEF AddSection
  <2>4. /\ Len(sections') = n + 1 /\ sections'[n + 1] = r
        /\ \A j \in 1 .. n : sections'[j] = sections[j]
        /\ sections' \in Seq(SectionsOf(Kinds))
    BY <2>2, <2>3, <1>n
  <2>5. PICK s : s = SubSeq(previous, 1, k)
    OBVIOUS
  <2>6. s \in Seq(Nat) /\ Len(s) = k
    BY <2>1, <2>5, <1>m
  <2>7. \A a \in 1 .. k : s[a] = previous[a]
    BY <2>1, <2>5, <1>m
  <2>8. /\ previous' \in Seq(Nat) /\ Len(previous') = k + 1
        /\ previous'[k + 1] = n + 1
        /\ \A a \in 1 .. k : previous'[a] = s[a]
    BY <2>3, <2>5, <2>6
  <2> QED BY <2>4, <2>7, <2>8
<1>q. /\ k = 0 \/ sections[previous[k]].level < lev
      /\ \A j \in k + 1 .. m : sections[previous[j]].level >= lev
  BY KeptSplits, <1>k, <1>m DEF Splits
<1>r. \A a \in 1 .. m : previous[a] \in 1 .. n
  BY <1>n, <1>m DEF StackInv
<1>i. \A a, b \in 1 .. m : a < b => previous[a] < previous[b]
  BY <1>n, <1>m DEF StackInv
<1>d. \A j \in 1 .. n : \E a \in 1 .. m :
        previous[a] >= j /\ sections[previous[a]].level <= sections[j].level
  BY <1>n, <1>m DEF StackInv
<1>l. \A j \in 1 .. n : sections[j].level \in Nat
  <2>1. \A j \in 1 .. n : sections[j] \in SectionsOf(Kinds)
    BY <1>n
  <2> QED BY <2>1 DEF SectionsOf
<1>t. r.level = lev /\ r.parent = IF k = 0 THEN NoParent ELSE previous[k]
  BY <1>z DEF NewSection
<1>f. Len(sections') = n + 1 /\ sections'[n + 1] = r
  BY <1>e
<1>a. Len(sections') = n + 1 /\ sections'[n + 1].level = lev
  BY <1>f, <1>t
<1>o. \A j \in 1 .. n : sections'[j] = sections[j]
  BY <1>e
<1>b. Len(previous') = k + 1 /\ previous'[k + 1] = n + 1
  BY <1>e
<1>c. \A a \in 1 .. k : previous'[a] = previous[a]
  BY <1>e
<1>3. \A a \in 1 .. k + 1 : previous'[a] \in 1 .. n + 1
  <2> TAKE a \in 1 .. k + 1
  <2>1. CASE a = k + 1
    BY <2>1, <1>b
  <2>2. CASE a \in 1 .. k
    BY <2>2, <1>c, <1>r
  <2> QED BY <2>1, <2>2
<1>4. \A a, b \in 1 .. k + 1 : a < b => previous'[a] < previous'[b]
  <2> SUFFICES ASSUME NEW a \in 1 .. k, NEW b \in 1 .. k + 1, a < b
               PROVE  previous'[a] < previous'[b]
    OBVIOUS
  <2>1. a \in 1 .. m /\ previous'[a] = previous[a] /\ previous[a] \in 1 .. n
    BY <1>c, <1>r
  <2>2. CASE b = k + 1
    BY <2>1, <2>2, <1>b
  <2>3. CASE b \in 1 .. k
    <3>1. b \in 1 .. m /\ previous'[b] = previous[b]
      BY <2>3, <1>c
    <3> QED BY <2>1, <3>1, <1>i
  <2> QED BY <2>2, <2>3
<1>5. ASSUME NEW j \in 1 .. n + 1
      PROVE  \E a \in 1 .. k + 1 :
                /\ previous'[a] >= j
                /\ sections'[previous'[a]].level <= sections'[j].level
  <2>0. k + 1 \in 1 .. k + 1 /\ previous'[k + 1] >= j
        /\ sections'[previous'[k + 1]].level = lev
    BY <1>a, <1>b
  <2>1. CASE j = n + 1
    BY <2>0, <2>1, <1>a
  <2>2. CASE j \in 1 .. n
    <3>1. PICK a \in 1 .. m :
            previous[a] >= j /\ sections[previous[a]].level <= sections[j].level
      BY <2>2, <1>d
    <3>2. previous[a] \in 1 .. n
      BY <1>r
    <3>3. sections'[j] = sections[j] /\ sections'[previous[a]] = sections[previous[a]]
      BY <2>2, <3>2, <1>o
    <3>4. CASE a \in 1 .. k
      <4>1. a \in 1 .. k + 1 /\ previous'[a] = previous[a]
        BY <3>4, <1>c
      <4> QED BY <4>1, <3>1, <3>3
    <3>5. CASE a \in k + 1 .. m
      <4>1. sections[previous[a]].level >= lev
        BY <3>5, <1>q
      <4>2. sections[j].level >= lev
        BY <4>1, <3>1, <3>2, <2>2, <1>l
      <4> QED BY <4>2, <2>0, <3>3
    <3> QED BY <3>4, <3>5
  <2> QED BY <2>1, <2>2
<1>6. ASSUME NEW l \in Nat
      PROVE  \E h \in 0 .. k + 1 :
                /\ h = 0 \/ sections'[previous'[h]].level < l
                /\ \A j \in h + 1 .. k + 1 : sections'[previous'[j]].level >= l
  <2>0. sections'[previous'[k + 1]].level = lev
    BY <1>a, <1>b
  <2>1. CASE lev < l
    <3>1. k + 1 \in 0 .. k + 1 /\ \A j \in (k + 1) + 1 .. k + 1 : FALSE
      OBVIOUS
    <3> QED BY <3>1, <2>0, <2>1
  <2>2. CASE lev >= l
    <3>1. PICK h \in 0 .. m :
            /\ h = 0 \/ sections[previous[h]].level < l
            /\ \A j \in h + 1 .. m : sections[previous[j]].level >= l
      BY <1>m DEF StackInv, Splits
    <3>2. h <= k
      <4> SUFFICES ASSUME h \in k + 1 .. m PROVE FALSE
        OBVIOUS
      <4>1. sections[previous[h]].level < l /\ sections[previous[h]].level >= lev
        BY <3>1, <1>q
      <4>2. sections[previous[h]].level \in Nat
        BY <1>r, <1>l
      <4> QED BY <4>1, <4>2, <2>2
    <3>3. \A j \in 1 .. k : sections'[previous'[j]].level = sections[previous[j]].level
      <4> TAKE j \in 1 .. k
      <4>1. previous'[j] = previous[j] /\ previous[j] \in 1 .. n
        BY <1>c, <1>r
      <4> QED BY <4>1, <1>o
    <3>4. h = 0 \/ sections'[previous'[h]].level < l
      BY <3>1, <3>2, <3>3
    <3>5. ASSUME NEW j \in h + 1 .. k + 1
          PROVE  sections'[previous'[j]].level >= l
      <4>1. CASE j = k + 1
        BY <4>1, <2>0, <2>2
      <4>2. CASE j \in 1 .. k
        BY <4>2, <3>1, <3>3
      <4> QED BY <4>1, <4>2
    <3>6. h \in 0 .. k + 1
      BY <3>2
    <3> QED BY <3>4, <3>5, <3>6
  <2> QED BY <2>1, <2>2
<1>7. \A a \in 1 .. Len(previous') : previous'[a] \in 1 .. Len(sections')
  BY <1>3, <1>a, <1>b
<1>8. \A a, b \in 1 .. Len(previous') : a < b => previous'[a] < previous'[b]
  BY <1>4, <1>b
<1>9. \A j \in 1 .. Len(sections') : \E a \in 1 .. Len(previous') :
        /\ previous'[a] >= j
        /\ sections'[previous'[a]].level <= sections'[j].level
  BY <1>5, <1>a, <1>b
<1>10. \A l \in Nat : \E h \in 0 .. Len(previous') : Splits(h, l)'
  <2> TAKE l \in Nat
  <2>1. PICK h \in 0 .. k + 1 :
          /\ h = 0 \/ sections'[previous'[h]].level < l
          /\ \A j \in h + 1 .. k + 1 : sections'[previous'[j]].level >= l
    BY <1>6
  <2>2. Splits(h, l)'
    BY <2>1, <1>b DEF Splits
  <2>3. h \in 0 .. Len(previous')
    BY <1>b
  <2> QED BY <2>2, <2>3
<1>11. previous' \in Seq(Nat)
  BY <1>e
<1>s. StackInv'
  BY <1>7, <1>8, <1>9, <1>10, <1>11 DEF StackInv
<1>p. sections'[n + 1].parent = IF k = 0 THEN NoParent ELSE previous[k]
  BY <1>f, <1>t
\* What the stack says of every section, on it or not.
<1>12. ASSUME NEW x \in 1 .. n, k = 0 \/ x > previous[k]
      PROVE  sections[x].level >= lev
  <2>1. PICK a \in 1 .. m :
          previous[a] >= x /\ sections[previous[a]].level <= sections[x].level
    BY <1>d
  <2>2. previous[a] \in 1 .. n
    BY <1>r
  <2>3. a \in k + 1 .. m
    <3> SUFFICES ASSUME a \in 1 .. k PROVE FALSE
      OBVIOUS
    <3>1. k # 0 /\ k \in 1 .. m /\ previous[k] \in 1 .. n
      BY <1>r
    <3>2. previous[a] <= previous[k]
      BY <1>i, <3>1, <2>2
    <3> QED BY <3>1, <3>2, <2>1, <2>2, <1>12
  <2>4. sections[previous[a]].level >= lev
    BY <2>3, <1>q
  <2> QED BY <2>1, <2>2, <2>4, <1>l
<1> DEFINE Right(j, p) ==
        IF p = NoParent
        THEN \A x \in 1 .. j - 1 : ~Encloses(x, j)
        ELSE p \in 1 .. j - 1 /\ Encloses(p, j)
<1>13. ASSUME NEW j \in 1 .. n, NEW p, p = sections'[j].parent
      PROVE  Right(j, p)'
  <2>1. p = sections[j].parent
    BY <1>o, <1>13
  <2>2. ASSUME NEW x \in 1 .. j - 1 PROVE Encloses(x, j)' <=> Encloses(x, j)
    <3>1. x \in 1 .. n /\ \A y \in x + 1 .. j - 1 : y \in 1 .. n
      OBVIOUS
    <3>2. /\ sections'[x] = sections[x] /\ sections'[j] = sections[j]
          /\ \A y \in x + 1 .. j - 1 : sections'[y] = sections[y]
      BY <1>o, <3>1
    <3> QED BY <3>2 DEF Encloses
  <2>3. Right(j, p)
    BY <2>1, <1>n DEF NearestParent
  <2>4. NoParent' = NoParent
    BY DEF NoParent
  <2> QED BY <2>2, <2>3, <2>4
<1>14. ASSUME k = 0, NEW p, p = sections'[n + 1].parent
      PROVE  Right(n + 1, p)'
  <2>1. p = NoParent' /\ (n + 1) - 1 = n
    BY <1>14, <1>p DEF NoParent
  <2>2. ASSUME NEW x \in 1 .. n PROVE ~Encloses(x, n + 1)'
    <3>1. sections[x].level >= lev /\ sections[x].level \in Nat /\ sections'[x] = sections[x]
      BY <1>12, <1>14, <1>l, <1>o
    <3> QED BY <3>1, <1>a DEF Encloses
  <2> QED BY <2>1, <2>2
<1>15. ASSUME k # 0, NEW p, p = sections'[n + 1].parent
      PROVE  Right(n + 1, p)'
  <2>1. p = previous[k] /\ p \in 1 .. n
    BY <1>15, <1>p, <1>r
  <2>2. p # NoParent' /\ p \in 1 .. (n + 1) - 1
    BY <2>1 DEF NoParent
  <2>3. sections[p].level < lev
    BY <1>15, <2>1, <1>q
  <2>4. Encloses(p, n + 1)'
    <3>1. p < n + 1 /\ sections'[p].level < sections'[n + 1].level
      BY <2>1, <2>3, <1>a, <1>o
    <3>2. ASSUME NEW x \in p + 1 .. (n + 1) - 1
          PROVE  sections'[x].level >= sections'[n + 1].level
      <4>1. x \in 1 .. n /\ x > previous[k]
        BY <2>1
      <4> QED BY <4>1, <1>12, <1>a, <1>o
    <3> QED BY <3>1, <3>2 DEF Encloses
  <2> QED BY <2>2, <2>4
<1>16. ASSUME NEW j \in 1 .. n + 1, NEW p, p = sections'[j].parent
      PROVE  Right(j, p)'
  <2>1. CASE j \in 1 .. n
    BY <2>1, <1>13, <1>16
  <2>2. CASE j = n + 1
    BY <2>2, <1>14, <1>15, <1>16
  <2> QED BY <2>1, <2>2
<1>17. NearestParent'
  BY <1>16, <1>a DEF NearestParent
<1>18. previous' \in Seq(1 .. Len(sections'))
  <2>1. Len(sections') \in Nat
    BY <1>a
  <2> QED BY <2>1, <1>7, <1>11, BoundedSeq
<1> QED BY <1>e, <1>s, <1>17, <1>18

-----------------------------------------------------------------------------
(***************************************************************************)
(* find_sections.                                                          *)
(***************************************************************************)
RstSection == [level : Nat \ {0}, line : Nat \ {0}, style : Styles, parent : Nat]

Fresh ==
    \A k \in 1 .. Len(sections) :
        /\ sections[k].line + 1 <= i
        /\ before # Blank => sections[k].line + 1 < i
        /\ top_line # Blank => sections[k].line + 1 < i - 1

Known ==
    /\ \A k \in 1 .. Len(sections) : sections[k].level = level_values[sections[k].style]
    /\ \A key \in Styles : level_values[key] # 0 =>
        \E k \in 1 .. Len(sections) : sections[k].style = key
    /\ IF sections = <<>> THEN level = 0 ELSE level = sections[Len(sections)].level

IInv ==
    /\ TypeOK /\ StackInv /\ NearestParent
    /\ Fresh /\ TitlesDisjoint
    /\ Known /\ StylesMakeLevels

LEMMA SectionsTyped ==
    ASSUME TypeOK
    PROVE  sections \in Seq(SectionsOf(Styles))
<1>1. sections \in Seq(RstSection)
  BY DEF TypeOK, RstSection
<1>2. RstSection \subseteq SectionsOf(Styles)
  BY DEF RstSection, SectionsOf
<1> QED BY <1>1, <1>2

LEMMA Init_IInv == Init => IInv
<1> SUFFICES ASSUME Init PROVE IInv
  OBVIOUS
<1>1. StackInv /\ NearestParent
  BY StackInit_Inv DEF Init
<1>2. TypeOK
  <2>1. Blank \in Lines
    BY DEF Lines
  <2> QED BY <2>1, EmptySeq DEF Init, StackInit, TypeOK
<1>3. sections = <<>> /\ Len(sections) = 0 /\ DOMAIN sections = {}
  BY DEF Init, StackInit
<1>4. Fresh /\ TitlesDisjoint /\ StylesMakeLevels
  BY <1>3 DEF Fresh, TitlesDisjoint, StylesMakeLevels
<1>5. Known
  BY <1>3 DEF Init, Known
<1> QED BY <1>1, <1>2, <1>4, <1>5 DEF IInv

\* What a title changes, with its parameters named.
LEMMA Title_Effect ==
    ASSUME IInv, NEW line \in Lines, ReadLine(line), Title(line)
    PROVE  \E key \in Styles, lev \in Nat \ {0}, n \in Nat, s \in RstSection :
        /\ key = <<line.ch, Overlined>>
        /\ lev = IF level_values[key] = 0 THEN level + 1 ELSE level_values[key]
        /\ n = Len(sections)
        /\ s.level = lev /\ s.line = i /\ s.style = key
        /\ i \in Nat \ {0} /\ i' = i + 1
        /\ AddSection(lev, i, key)
        /\ sections' = Append(sections, s)
        /\ Len(sections') = n + 1 /\ sections'[n + 1] = s
        /\ \A k \in 1 .. n : sections'[k] = sections[k]
        /\ level_values' = [level_values EXCEPT ![key] = lev]
        /\ level' = lev
        /\ before' = Blank /\ top_line' = Blank
        /\ doc' \in Seq(Lines)
<1>1. /\ doc \in Seq(Lines) /\ sections \in Seq(RstSection)
      /\ level_values \in [Styles -> Nat] /\ level \in Nat
  BY DEF IInv, TypeOK, RstSection
<1>2. PICK key : key = <<line.ch, Overlined>>
  OBVIOUS
<1>3. key \in Styles
  <2>1. line.kind = "adornment"
    BY DEF Title, IsTitle, Heading
  <2>2. line.ch \in Chars
    BY <2>1 DEF Lines, Blank, Indented, Texts, Adornments
  <2>3. Overlined \in BOOLEAN
    BY DEF Overlined, Heading
  <2> QED BY <1>2, <2>2, <2>3 DEF Styles
<1>4. PICK lev : lev = IF level_values[key] = 0 THEN level + 1 ELSE level_values[key]
  OBVIOUS
<1>5. lev \in Nat \ {0} /\ lev = NewLevel(key)
  BY <1>1, <1>3, <1>4 DEF NewLevel
<1>6. i \in Nat \ {0}
  <2>1. i \in Nat /\ i >= 1
    BY <1>1 DEF Title, IsTitle, i
  <2> QED BY <2>1
<1>7. doc' \in Seq(Lines) /\ i' = i + 1
  BY <1>1, AppendProperties DEF ReadLine, i
<1>8. /\ level_values' = [level_values EXCEPT ![key] = lev] /\ level' = lev
      /\ AddSection(lev, i, key)
      /\ before' = Blank /\ top_line' = Blank
  BY <1>2, <1>5 DEF Title, BlankTitle
<1>9. PICK s : s = NewSection(lev, i, key, Kept(lev))
  OBVIOUS
<1>10. s \in RstSection /\ s.level = lev /\ s.line = i /\ s.style = key
  <2>1. Kept(lev) \in 0 .. Len(previous) /\ previous \in Seq(Nat)
    BY <1>5, KeptSplits DEF IInv, StackInv
  <2> QED BY <2>1, <1>3, <1>5, <1>6, <1>9 DEF NewSection, RstSection, NoParent
<1>11. sections' = Append(sections, s)
  BY <1>8, <1>9 DEF AddSection
<1>12. PICK n \in Nat : n = Len(sections)
  BY <1>1
<1>13. /\ Len(sections') = n + 1 /\ sections'[n + 1] = s
       /\ \A k \in 1 .. n : sections'[k] = sections[k]
  BY <1>1, <1>10, <1>11, <1>12
<1> QED BY <1>2, <1>3, <1>4, <1>5, <1>6, <1>7, <1>8, <1>10, <1>11, <1>12, <1>13

LEMMA Title_IInv ==
    ASSUME IInv, NEW line \in Lines, ReadLine(line), Title(line)
    PROVE  IInv'
<1>1. PICK key \in Styles, lev \in Nat \ {0}, n \in Nat, s \in RstSection :
        /\ key = <<line.ch, Overlined>>
        /\ lev = IF level_values[key] = 0 THEN level + 1 ELSE level_values[key]
        /\ n = Len(sections)
        /\ s.level = lev /\ s.line = i /\ s.style = key
        /\ i \in Nat \ {0} /\ i' = i + 1
        /\ AddSection(lev, i, key)
        /\ sections' = Append(sections, s)
        /\ Len(sections') = n + 1 /\ sections'[n + 1] = s
        /\ \A k \in 1 .. n : sections'[k] = sections[k]
        /\ level_values' = [level_values EXCEPT ![key] = lev]
        /\ level' = lev
        /\ before' = Blank /\ top_line' = Blank
        /\ doc' \in Seq(Lines)
  BY Title_Effect
<1>2. sections \in Seq(RstSection)
  BY DEF IInv, TypeOK, RstSection
<1>n. n = Len(sections) /\ DOMAIN sections = 1 .. n
  BY <1>1, <1>2
<1>o. /\ sections'[n + 1] = s /\ s.level = lev /\ s.style = key
      /\ \A k \in 1 .. n : sections'[k] = sections[k]
  BY <1>1
<1>l. lev = IF level_values[key] = 0 THEN level + 1 ELSE level_values[key]
  BY <1>1
<1>3. \A k \in 1 .. n : sections[k] \in RstSection
  BY <1>1, <1>2
<1>4. StackInv' /\ NearestParent' /\ previous' \in Seq(1 .. Len(sections'))
  <2>1. sections \in Seq(SectionsOf(Styles)) /\ StackInv /\ NearestParent
    BY SectionsTyped DEF IInv
  <2>2. lev \in Nat /\ i \in Nat /\ AddSection(lev, i, key)
    BY <1>1
  <2> QED BY <2>1, <2>2, AddSection_Step
<1>5. TypeOK'
  <2>1. sections' \in Seq(RstSection)
    BY <1>1, <1>2, AppendProperties
  <2>2. Blank \in Lines
    BY DEF Lines
  <2>3. level_values' \in [Styles -> Nat] /\ level' \in Nat
    BY <1>1 DEF IInv, TypeOK
  <2> QED BY <2>1, <2>2, <2>3, <1>1, <1>4 DEF TypeOK, RstSection
\* No line of the title is one of another title.
<1>6. \A k \in 1 .. n : sections[k].line + 1 <= i
  BY <1>1 DEF IInv, Fresh
<1>7. Fresh'
  BY <1>1, <1>3, <1>6 DEF Fresh, RstSection
<1>8. \A k \in 1 .. n : sections[k].line + 1 < i
  <2>1. before # Blank
    BY DEF Title, IsTitle, Subject, Blank
  <2> QED BY <2>1, <1>1 DEF IInv, Fresh
<1>9. Overlined => \A k \in 1 .. n : sections[k].line + 1 < i - 1
  <2>1. Overlined => top_line # Blank
    BY DEF Overlined, Heading, Blank
  <2> QED BY <2>1, <1>1 DEF IInv, Fresh
<1>10. TitlesDisjoint'
  <2> DEFINE Of(r) == r.line .. r.line + 1 \cup (IF r.style[2] THEN {r.line - 1} ELSE {})
  <2>1. \A j, k \in 1 .. n : j # k => Of(sections[j]) \cap Of(sections[k]) = {}
    BY <1>n DEF IInv, TitlesDisjoint, LinesOf
  <2>2. ASSUME NEW k \in 1 .. n
        PROVE  Of(sections[k]) \cap Of(s) = {}
    <3>1. sections[k].line \in Nat \ {0} /\ sections[k].line + 1 < i
      BY <1>3, <1>8 DEF RstSection
    <3>2. \A x \in Of(sections[k]) : x \in Int /\ x <= sections[k].line + 1
      BY <3>1
    <3>3. s.style[2] => sections[k].line + 1 < i - 1
      BY <1>1, <1>9
    <3>4. \A x \in Of(s) : x \in Int /\ x > sections[k].line + 1
      BY <1>1, <3>1, <3>3
    <3> HIDE DEF Of
    <3> QED BY <3>1, <3>2, <3>4
  <2>3. ASSUME NEW j \in 1 .. n + 1, NEW k \in 1 .. n + 1, j # k
        PROVE  Of(sections'[j]) \cap Of(sections'[k]) = {}
    <3> HIDE DEF Of
    <3>1. CASE j \in 1 .. n /\ k \in 1 .. n
      BY <3>1, <2>1, <2>3, <1>1
    <3>2. CASE j = n + 1 /\ k \in 1 .. n
      BY <3>2, <2>2, <1>1
    <3>3. CASE k = n + 1 /\ j \in 1 .. n
      BY <3>3, <2>2, <1>1
    <3> QED BY <3>1, <3>2, <3>3, <2>3
  <2>4. DOMAIN sections' = 1 .. n + 1
    BY <1>1, <1>2
  <2> QED BY <2>3, <2>4 DEF TitlesDisjoint, LinesOf
\* Levels.
<1>11. /\ level_values \in [Styles -> Nat] /\ level \in Nat
       /\ level_values'[key] = lev
       /\ \A other \in Styles \ {key} : level_values'[other] = level_values[other]
  BY <1>1 DEF IInv, TypeOK
<1>12. /\ \A k \in 1 .. n : sections[k].level = level_values[sections[k].style]
       /\ \A other \in Styles : level_values[other] # 0 =>
            \E k \in 1 .. n : sections[k].style = other
       /\ IF n = 0 THEN level = 0 ELSE level = sections[n].level
  BY <1>1, <1>2 DEF IInv, Known
<1>13. \A k \in 1 .. n : sections[k].style = key => sections[k].level = lev
  <2> TAKE k \in 1 .. n
  <2>1. sections[k].level # 0
    BY <1>3 DEF RstSection
  <2>2. sections[k].level = level_values[sections[k].style]
    BY <1>12
  <2> QED BY <2>1, <2>2, <1>l
<1>14. Known'
  <2>1. \A k \in 1 .. n + 1 : sections'[k].level = level_values'[sections'[k].style]
    <3> TAKE k \in 1 .. n + 1
    <3>1. CASE k = n + 1
      BY <3>1, <1>1, <1>11
    <3>2. CASE k \in 1 .. n /\ sections[k].style = key
      BY <3>2, <1>1, <1>11, <1>13
    <3>3. CASE k \in 1 .. n /\ sections[k].style # key
      <4>1. sections[k].style \in Styles \ {key} /\ sections'[k] = sections[k]
        BY <3>3, <1>1, <1>3 DEF RstSection
      <4> QED BY <4>1, <3>3, <1>11, <1>12
    <3> QED BY <3>1, <3>2, <3>3
  <2>2. ASSUME NEW other \in Styles, level_values'[other] # 0
        PROVE  \E k \in 1 .. n + 1 : sections'[k].style = other
    <3>1. CASE other = key
      <4>1. n + 1 \in 1 .. n + 1
        OBVIOUS
      <4> QED BY <4>1, <3>1, <1>o
    <3>2. CASE other # key
      <4>1. PICK k \in 1 .. n : sections[k].style = other
        BY <3>2, <2>2, <1>11, <1>12
      <4> QED BY <4>1, <1>1
    <3> QED BY <3>1, <3>2
  <2>3. sections' # <<>> /\ level' = sections'[Len(sections')].level
    BY <1>1
  <2> QED BY <2>1, <2>2, <2>3, <1>1 DEF Known
<1>15. StylesMakeLevels'
  <2>1. /\ \A j, k \in 1 .. n :
            sections[j].style = sections[k].style => sections[j].level = sections[k].level
        /\ \A k \in 1 .. n : sections[k].level > 1 =>
            \E j \in 1 .. k - 1 : sections[j].level = sections[k].level - 1
    BY <1>n DEF IInv, StylesMakeLevels
  <2>2. ASSUME NEW j \in 1 .. n + 1, NEW k \in 1 .. n + 1,
               sections'[j].style = sections'[k].style
        PROVE  sections'[j].level = sections'[k].level
    <3>1. CASE j = n + 1 /\ k = n + 1
      BY <3>1
    <3>2. CASE j \in 1 .. n /\ k \in 1 .. n
      BY <3>2, <2>1, <2>2, <1>o
    <3>3. CASE j = n + 1 /\ k \in 1 .. n
      BY <3>3, <2>2, <1>o, <1>13
    <3>4. CASE j \in 1 .. n /\ k = n + 1
      BY <3>4, <2>2, <1>o, <1>13
    <3> QED BY <3>1, <3>2, <3>3, <3>4
  <2>3. lev > 1 => \E j \in 1 .. n : sections[j].level = lev - 1
    <3> SUFFICES ASSUME lev > 1 PROVE \E j \in 1 .. n : sections[j].level = lev - 1
      OBVIOUS
    <3>1. CASE level_values[key] = 0
      <4>1. n # 0 /\ sections[n].level = lev - 1
        BY <3>1, <1>1, <1>11, <1>12
      <4> QED BY <4>1
    <3>2. CASE level_values[key] # 0
      <4>1. PICK k \in 1 .. n : sections[k].style = key
        BY <3>2, <1>12
      <4>2. sections[k].level = lev
        BY <4>1, <1>13
      <4>3. PICK j \in 1 .. k - 1 : sections[j].level = lev - 1
        BY <4>2, <2>1
      <4> QED BY <4>3
    <3> QED BY <3>1, <3>2
  <2>4. ASSUME NEW k \in 1 .. n + 1, sections'[k].level > 1
        PROVE  \E j \in 1 .. k - 1 : sections'[j].level = sections'[k].level - 1
    <3>1. CASE k = n + 1
      <4>1. PICK j \in 1 .. n : sections[j].level = lev - 1
        BY <3>1, <2>3, <2>4, <1>1
      <4> QED BY <4>1, <3>1, <1>1
    <3>2. CASE k \in 1 .. n
      <4>1. PICK j \in 1 .. k - 1 : sections[j].level = sections[k].level - 1
        BY <3>2, <2>1, <2>4, <1>1
      <4>2. sections'[j] = sections[j] /\ sections'[k] = sections[k]
        BY <3>2, <1>1
      <4> QED BY <4>1, <4>2
    <3> QED BY <3>1, <3>2
  <2>5. DOMAIN sections' = 1 .. n + 1
    BY <1>1, <1>2
  <2> QED BY <2>2, <2>4, <2>5 DEF StylesMakeLevels
<1> QED BY <1>4, <1>5, <1>7, <1>10, <1>14, <1>15 DEF IInv

LEMMA Same_IInv ==
    ASSUME IInv, UNCHANGED <<stackVars, level_values, level>>
    PROVE  StackInv' /\ NearestParent' /\ TitlesDisjoint' /\ Known' /\ StylesMakeLevels'
BY DEF IInv, stackVars, StackInv, Splits, NearestParent, Encloses,
       TitlesDisjoint, LinesOf, Known, StylesMakeLevels

LEMMA Step_IInv == IInv /\ [Next]_vars => IInv'
<1> SUFFICES ASSUME IInv, [Next]_vars PROVE IInv'
  OBVIOUS
<1>1. ASSUME NEW line \in Lines, ReadLine(line), NoTitle(line) PROVE IInv'
  <2>1. UNCHANGED <<sections, previous, level_values, level>> /\ UNCHANGED stackVars
    BY <1>1 DEF NoTitle, stackVars
  <2>2. before' = line /\ top_line' = before
    BY <1>1 DEF NoTitle
  <2>3. doc' \in Seq(Lines) /\ i \in Nat /\ i' = i + 1
    BY <1>1, AppendProperties DEF ReadLine, i, IInv, TypeOK
  <2>4. TypeOK'
    BY <2>1, <2>2, <2>3 DEF IInv, TypeOK
  <2>5. Fresh'
    <3>1. \A k \in 1 .. Len(sections) : sections[k].line \in Nat
      <4>1. \A k \in 1 .. Len(sections) : sections[k] \in SectionsOf(Styles)
        <5>1. sections \in Seq(SectionsOf(Styles))
          BY SectionsTyped DEF IInv
        <5> QED BY <5>1, ElementOfSeq
      <4> QED BY <4>1 DEF SectionsOf
    <3> QED BY <3>1, <2>1, <2>2, <2>3 DEF IInv, Fresh
  <2>6. StackInv' /\ NearestParent' /\ TitlesDisjoint' /\ Known' /\ StylesMakeLevels'
    BY <2>1, Same_IInv
  <2> QED BY <2>4, <2>5, <2>6 DEF IInv
<1>2. CASE UNCHANGED vars
  <2>1. UNCHANGED <<stackVars, level_values, level>>
    BY <1>2 DEF vars
  <2>2. TypeOK' /\ Fresh'
    BY <1>2 DEF vars, stackVars, IInv, TypeOK, Fresh, i
  <2> QED BY <2>1, <2>2, Same_IInv DEF IInv
<1> QED BY <1>1, <1>2, Title_IInv DEF Next, ReadLine

LEMMA Always_IInv == Spec => []IInv
BY Init_IInv, Step_IInv, PTL DEF Spec

\* The variables of find_sections have their types, whatever the document.
THEOREM RstTypeCorrect == Spec => []TypeOK
<1>1. IInv => TypeOK
  BY DEF IInv
<1> QED BY <1>1, Always_IInv, PTL

\* In every document, each section that rst2ctags finds gets the nearest earlier
\* one of a lower level as its parent, and none if there is no such.
THEOREM RstParents == Spec => []NearestParent
<1>1. IInv => NearestParent
  BY DEF IInv
<1> QED BY <1>1, Always_IInv, PTL

\* No line of any document is taken for a part of two titles.
THEOREM RstTitlesDisjoint == Spec => []TitlesDisjoint
<1>1. IInv => TitlesDisjoint
  BY DEF IInv
<1> QED BY <1>1, Always_IInv, PTL

\* Sections of one style are on one level in every document, and a section is
\* never on a level without one on the level above before it.
THEOREM RstLevels == Spec => []StylesMakeLevels
<1>1. IInv => StylesMakeLevels
  BY DEF IInv
<1> QED BY <1>1, Always_IInv, PTL

-----------------------------------------------------------------------------
(***************************************************************************)
(* Titles that stand for themselves.                                       *)
(***************************************************************************)
\* Of the last two lines the loop sees what was read, or a blank line; a text is
\* blanked by the title it belongs to only, and that ends one line later.
Unspoilt ==
    /\ before # Blank => i >= 1 /\ before = doc[i]
    /\ i >= 1 /\ doc[i].kind = "text" => before = doc[i]
    /\ top_line # Blank => i >= 2 /\ top_line = doc[i - 1]

\* Reading a line leaves the ones before as they are.
LEMMA DocGrows ==
    ASSUME TypeOK, NEW line \in Lines, ReadLine(line)
    PROVE  /\ i \in Nat /\ i' = i + 1 /\ doc'[i + 1] = line
           /\ \A n \in 1 .. i : doc'[n] = doc[n] /\ doc[n] \in Lines
<1>1. doc \in Seq(Lines) /\ doc' = Append(doc, line)
  BY DEF TypeOK, ReadLine
<1> QED BY <1>1 DEF i

LEMMA Unspoilt_Step ==
    ASSUME IInv, Unspoilt, NEW line \in Lines, ReadLine(line)
    PROVE  Unspoilt'
<1>1. /\ i \in Nat /\ i' = i + 1 /\ doc'[i + 1] = line
      /\ \A n \in 1 .. i : doc'[n] = doc[n] /\ doc[n] \in Lines
  BY DocGrows DEF IInv
<1>2. CASE Title(line)
  <2>1. before' = Blank /\ top_line' = Blank /\ line.kind = "adornment"
    BY <1>2 DEF Title, BlankTitle, IsTitle, Heading
  <2> QED BY <1>1, <2>1 DEF Unspoilt, Blank
<1>3. CASE NoTitle(line)
  <2>1. before' = line /\ top_line' = before
    BY <1>3 DEF NoTitle
  <2>2. before # Blank => i \in 1 .. i /\ before = doc[i] /\ i + 1 >= 2 /\ (i + 1) - 1 = i
    BY <1>1 DEF Unspoilt
  <2>3. i + 1 >= 1
    BY <1>1
  <2> QED BY <1>1, <2>1, <2>2, <2>3 DEF Unspoilt
<1> QED BY <1>2, <1>3 DEF ReadLine

\* An underline behind such a text is taken for one.
LEMMA IsolatedIsTitle ==
    ASSUME IInv, Unspoilt, NEW line \in Lines, i \in Nat, i >= 1,
           doc[i].kind = "text", Heading(line), line.width >= doc[i].width,
           i > 1 => ~Heading(doc[i - 1])
    PROVE  IsTitle(line) /\ ~Overlined
<1>1. before = doc[i]
  BY DEF Unspoilt
<1>2. ~Overlined
  <2> SUFFICES ASSUME Overlined PROVE FALSE
    OBVIOUS
  <2>1. top_line # Blank
    BY DEF Overlined, Heading, Blank
  <2>2. i >= 2 /\ Heading(doc[i - 1])
    BY <2>1 DEF Unspoilt, Overlined
  <2> QED BY <2>2
<1> QED BY <1>1, <1>2 DEF IsTitle, Subject, LongEnough

\* A section of this style, without overline, starts on line n.
FoundIn(secs, n, ch) ==
    \E k \in DOMAIN secs : secs[k].line = n /\ secs[k].style = <<ch, FALSE>>

LEMMA Found_Stays ==
    ASSUME IInv, NEW line \in Lines, ReadLine(line), NEW n, NEW ch,
           FoundIn(sections, n, ch)
    PROVE  FoundIn(sections', n, ch)
<1>1. CASE Title(line)
  <2>1. sections \in Seq(RstSection)
    BY DEF IInv, TypeOK, RstSection
  <2>2. PICK m \in Nat, s \in RstSection :
            /\ m = Len(sections) /\ sections' = Append(sections, s)
            /\ \A k \in 1 .. m : sections'[k] = sections[k]
    BY <1>1, Title_Effect
  <2>3. DOMAIN sections = 1 .. m /\ DOMAIN sections' = 1 .. m + 1
    BY <2>1, <2>2
  <2>4. PICK k \in DOMAIN sections :
            sections[k].line = n /\ sections[k].style = <<ch, FALSE>>
    BY DEF FoundIn
  <2>5. k \in DOMAIN sections' /\ sections'[k] = sections[k]
    BY <2>2, <2>3
  <2> QED BY <2>4, <2>5 DEF FoundIn
<1>2. CASE NoTitle(line)
  <2>1. sections' = sections
    BY <1>2 DEF NoTitle, stackVars
  <2> QED BY <2>1
<1> QED BY <1>1, <1>2 DEF ReadLine

LEMMA Isolated_Step ==
    ASSUME IInv, Unspoilt, IsolatedFound, NEW line \in Lines, ReadLine(line)
    PROVE  IsolatedFound'
<1>1. /\ i \in Nat /\ i' = i + 1 /\ doc'[i + 1] = line
      /\ \A n \in 1 .. i : doc'[n] = doc[n] /\ doc[n] \in Lines
  BY DocGrows DEF IInv
<1>2. ASSUME NEW n \in IsolatedTitles'
      PROVE  FoundIn(sections', n, doc'[n + 1].ch)
  <2>1. /\ n \in 1 .. i
        /\ doc'[n].kind = "text" /\ Heading(doc'[n + 1])
        /\ doc'[n + 1].width >= doc'[n].width
        /\ n > 1 => ~Heading(doc'[n - 1])
    BY <1>1, <1>2 DEF IsolatedTitles, Heading
  <2>2. CASE n # i
    <3>1. n \in 1 .. i - 1 /\ n + 1 \in 1 .. i /\ (n > 1 => n - 1 \in 1 .. i)
      BY <1>1, <2>1, <2>2
    <3>2. /\ doc'[n] = doc[n] /\ doc'[n + 1] = doc[n + 1]
          /\ n > 1 => doc'[n - 1] = doc[n - 1]
      BY <1>1, <3>1
    <3>3. n \in IsolatedTitles
      BY <2>1, <3>1, <3>2 DEF IsolatedTitles
    <3>4. FoundIn(sections, n, doc[n + 1].ch)
      BY <3>3 DEF IsolatedFound, FoundIn
    <3> QED BY <3>2, <3>4, Found_Stays
  <2>3. CASE n = i
    <3>1. /\ doc'[i] = doc[i] /\ doc'[i + 1] = line
          /\ i > 1 => doc'[i - 1] = doc[i - 1]
      BY <1>1, <2>1, <2>3
    <3>2. IsTitle(line) /\ ~Overlined
      BY <1>1, <2>1, <2>3, <3>1, IsolatedIsTitle
    <3>3. Title(line)
      BY <3>2 DEF ReadLine, NoTitle
    <3>4. PICK key \in Styles, m \in Nat, s \in RstSection :
              /\ key = <<line.ch, Overlined>> /\ m = Len(sections)
              /\ s.line = i /\ s.style = key
              /\ sections' = Append(sections, s)
              /\ Len(sections') = m + 1 /\ sections'[m + 1] = s
      BY <3>3, Title_Effect
    <3>5. sections \in Seq(RstSection)
      BY DEF IInv, TypeOK, RstSection
    <3>6. m + 1 \in DOMAIN sections'
      BY <3>4, <3>5
    <3>7. Overlined = FALSE
      BY <3>2 DEF Overlined, Heading
    <3> QED BY <2>3, <3>1, <3>4, <3>6, <3>7 DEF FoundIn
  <2> QED BY <2>2, <2>3
<1>3. \A n \in IsolatedTitles' : FoundIn(sections', n, doc'[n + 1].ch)
  BY <1>2
<1> QED BY <1>3 DEF IsolatedFound, FoundIn

\* In every document, a text with a line of one character under it that is at
\* least as long, and no such line above, becomes a section of that style.
THEOREM RstIsolated == Spec => []IsolatedFound
<1> DEFINE TInv == IInv /\ Unspoilt /\ IsolatedFound
<1>1. Init => TInv
  <2>1. Init => doc = <<>> /\ before = Blank /\ top_line = Blank /\ i = 0
    BY DEF Init, i
  <2>2. Init => Unspoilt
    BY <2>1 DEF Unspoilt
  <2>3. Init => IsolatedFound
    BY <2>1 DEF IsolatedFound, IsolatedTitles
  <2> QED BY Init_IInv, <2>2, <2>3
<1>2. TInv /\ [Next]_vars => TInv'
  <2> SUFFICES ASSUME TInv, [Next]_vars PROVE TInv'
    OBVIOUS
  <2>1. IInv'
    BY Step_IInv
  <2>2. CASE Next
    <3>1. PICK line \in Lines : ReadLine(line)
      BY <2>2 DEF Next
    <3> QED BY <2>1, <3>1, Unspoilt_Step, Isolated_Step
  <2>3. CASE UNCHANGED vars
    <3>1. Unspoilt'
      BY <2>3 DEF vars, Unspoilt, i
    <3>2. IsolatedFound'
      BY <2>3 DEF vars, stackVars, IsolatedFound, IsolatedTitles, i
    <3> QED BY <2>1, <3>1, <3>2
  <2> QED BY <2>2, <2>3
<1>3. TInv => IsolatedFound
  OBVIOUS
<1> HIDE DEF TInv
<1> QED BY <1>1, <1>2, <1>3, PTL DEF Spec
=============================================================================

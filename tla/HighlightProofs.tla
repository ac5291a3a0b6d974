-------------------------- MODULE HighlightProofs --------------------------
(***************************************************************************)
(* Theorems about Highlight for every set of windows, buffers and items,   *)
(* every file type setup and every sequence of commands.                   *)
(***************************************************************************)
EXTENDS HighlightRefines, InductionProofs, FiniteSetTheorems, FunctionTheorems

(***************************************************************************)
(* The operators of BufMatch.                                              *)
(***************************************************************************)
(***************************************************************************)
(* s:NextBufMatchId returns an id not in use, the least one: all ids from  *)
(* FirstId up to it are taken, and there are no more of them than matches. *)
(***************************************************************************)
LEMMA NextBufMatchIdFree ==
    ASSUME NEW matches, IsFiniteSet(DOMAIN matches)
    PROVE  /\ NextBufMatchId(matches) \in Nat
           /\ NextBufMatchId(matches) >= FirstId
           /\ NextBufMatchId(matches) <= FirstId + Cardinality(DOMAIN matches)
           /\ NextBufMatchId(matches) \notin DOMAIN matches
<1> DEFINE S     == DOMAIN matches
           range == FirstId .. (FirstId + Cardinality(S))
           free  == range \ S
<1>1. Cardinality(S) \in Nat /\ FirstId \in Nat
  BY FS_CardinalityType, IdAssumption
<1>2. free # {}
  <2>1. SUFFICES ASSUME range \subseteq S PROVE FALSE
    OBVIOUS
  <2>2. Cardinality(range) <= Cardinality(S)
    BY <2>1, FS_Subset
  <2>3. Cardinality(range) = Cardinality(S) + 1
    BY <1>1, FS_Interval
  <2> QED  BY <1>1, <2>2, <2>3
<1>3. free \in SUBSET Nat
  BY <1>1
<1>4. PICK k \in free : \A m \in free : k <= m
  BY <1>2, <1>3, LeastNatural
<1>5. \A j \in FirstId .. (k - 1) : j \in S
  <2>1. SUFFICES ASSUME NEW j \in FirstId .. (k - 1), j \notin S PROVE FALSE
    OBVIOUS
  <2>2. k \in range /\ k \in Nat
    BY <1>3, <1>4
  <2>3. j \in range /\ ~(k <= j)
    BY <1>1, <2>2
  <2> QED  BY <1>4, <2>1, <2>3
<1>6. k \in range /\ k \notin S
  BY <1>4
<1>7. NextBufMatchId(matches) \in range /\ NextBufMatchId(matches) \notin S
  BY <1>5, <1>6 DEF NextBufMatchId
<1> QED  BY <1>1, <1>7

(***************************************************************************)
(* When only matches of other scripts are left in a window, the matches of *)
(* a buffer are added under the buffer's own ids, next to those.           *)
(***************************************************************************)
LEMMA AutoBaseIsFirst ==
    ASSUME NEW live \in SUBSET ForeignIds
    PROVE  AutoBase(live) = FirstId
<1> DEFINE ids == {FirstId} \cup {id + 1 : id \in live}
           ok(n) == n >= FirstId /\ \A id \in live : id < n
<1>1. FirstId \in Nat /\ \A id \in live : id \in Nat /\ id < FirstId
  BY IdAssumption
<1>2. FirstId \in ids /\ ok(FirstId)
  BY <1>1
<1>3. \A n \in ids : ok(n) => n = FirstId
  BY <1>1
<1>4. AutoBase(live) \in ids /\ ok(AutoBase(live))
  BY <1>2 DEF AutoBase
<1> QED  BY <1>3, <1>4

LEMMA MatchAddAllResult ==
    ASSUME NEW matches, DOMAIN matches \subseteq ForeignIds,
           NEW bm, DOMAIN bm \subseteq BufIds
    PROVE  /\ NewIds(DOMAIN matches, bm) = DOMAIN bm
           /\ DOMAIN matches \cap DOMAIN bm = {}
           /\ MatchAddAll(matches, bm) =
                [id \in DOMAIN matches \cup DOMAIN bm |->
                    IF id \in DOMAIN matches THEN matches[id] ELSE bm[id]]
<1>1. AutoBase(DOMAIN matches) = FirstId
  BY AutoBaseIsFirst
<1>2. \A n \in BufIds : FirstId + (n - FirstId) = n /\ (n - FirstId) + FirstId = n
  BY IdAssumption DEF BufIds
<1>3. NewIds(DOMAIN matches, bm) = DOMAIN bm
  BY <1>1, <1>2 DEF NewIds
<1>4. DOMAIN matches \cap DOMAIN bm = {}
  BY IdAssumption DEF BufIds
<1>5. MatchAddAll(matches, bm) =
        [id \in DOMAIN matches \cup DOMAIN bm |->
            IF id \in DOMAIN matches THEN matches[id]
                                     ELSE bm[(id - FirstId) + FirstId]]
  BY <1>1, <1>3, Zenon DEF MatchAddAll
<1>6. \A id \in DOMAIN matches \cup DOMAIN bm :
        id \notin DOMAIN matches => (id - FirstId) + FirstId = id
  BY <1>2
<1>7. MatchAddAll(matches, bm) =
        [id \in DOMAIN matches \cup DOMAIN bm |->
            IF id \in DOMAIN matches THEN matches[id] ELSE bm[id]]
  BY <1>5, <1>6
<1> QED  BY <1>3, <1>4, <1>7

-----------------------------------------------------------------------------
(***************************************************************************)
(* Types, the ownership of matches, and what follows from them.            *)
(***************************************************************************)
\* The inductive invariant: the three facts need each other.  An id can only
\* be shown free, and a window's new ids equal to its buffer's, when the matches
\* there are exactly the recorded ones.
IInv == TypeOK /\ GroupsOwnMatches /\ NoLeakedMatches

\* There are finitely many items, so a buffer has finitely many matches.
LEMMA ItemsFinite == IsFiniteSet(Items)
<1>1. HighlightItems \in [1 .. Len(HighlightItems) -> Items]
      /\ DOMAIN HighlightItems = 1 .. Len(HighlightItems)
      /\ Len(HighlightItems) \in Nat
  BY CommandAssumption, LenProperties
<1>2. HighlightItems \in Surjection(1 .. Len(HighlightItems), Items)
  BY <1>1, Fun_IsSurj DEF Items
<1> QED  BY <1>1, <1>2, FS_Surjection, FS_Interval

LEMMA BufMatchesFinite ==
    ASSUME BuffersTyped, GroupsOwnMatches, NEW b \in Bufs
    PROVE  IsFiniteSet(DOMAIN bufMatches[b])
<1>1. DOMAIN groups[b] \in SUBSET Items /\ groups[b] \in [DOMAIN groups[b] -> BufIds]
  BY DEF BuffersTyped, IsDicts
<1>2. Vals(groups[b]) = DOMAIN bufMatches[b]
  BY DEF GroupsOwnMatches
<1>3. groups[b] \in Surjection(DOMAIN groups[b], DOMAIN bufMatches[b])
  BY <1>1, <1>2, Fun_IsSurj DEF Vals
<1>4. IsFiniteSet(DOMAIN groups[b])
  BY <1>1, ItemsFinite, FS_Subset
<1> QED  BY <1>3, <1>4, FS_Surjection

(***************************************************************************)
(* SyncWindow gives the window the ids and matches of its buffer, keeps    *)
(* the matches of other scripts, and touches no other window.              *)
(***************************************************************************)
LEMMA SyncResult ==
    ASSUME WindowsTyped, NoLeakedMatches, NEW w \in Wins, NEW bm,
           DOMAIN bm \subseteq BufIds, bm \in [DOMAIN bm -> Match]
    PROVE  LET new   == MatchAddAll(Unsynced(w), bm)
               other == DOMAIN winMatches[w] \cap ForeignIds
           IN  /\ NewIds(DOMAIN Unsynced(w), bm) = DOMAIN bm
               /\ DOMAIN new = other \cup DOMAIN bm
               /\ DOMAIN new \ ForeignIds = DOMAIN bm
               /\ DOMAIN new \subseteq Nat
               /\ new \in [DOMAIN new -> Match \cup {ForeignMatch}]
               /\ \A id \in DOMAIN bm : new[id] = bm[id]
<1> DEFINE new   == MatchAddAll(Unsynced(w), bm)
           other == DOMAIN winMatches[w] \cap ForeignIds
<1>1. DOMAIN winMatches[w] \subseteq Nat
      /\ winMatches[w] \in [DOMAIN winMatches[w] -> Match \cup {ForeignMatch}]
  BY DEF WindowsTyped, IsDicts
<1>2. DOMAIN Unsynced(w) = other
  <2>1. DOMAIN winMatches[w] \ ForeignIds = winIds[w]
    BY DEF NoLeakedMatches
  <2> QED  BY <2>1 DEF Unsynced
<1>3. Unsynced(w) = [id \in other |-> winMatches[w][id]]
  BY <1>2 DEF Unsynced
<1>4. DOMAIN bm \cap ForeignIds = {}
  BY IdAssumption DEF BufIds
<1>5. /\ NewIds(DOMAIN Unsynced(w), bm) = DOMAIN bm
      /\ new = [id \in other \cup DOMAIN bm |->
                   IF id \in other THEN Unsynced(w)[id] ELSE bm[id]]
  <2> DEFINE u == Unsynced(w)
  <2>1. DOMAIN u = other /\ DOMAIN u \subseteq ForeignIds
    BY <1>2
  <2> HIDE DEF u
  <2>2. /\ NewIds(DOMAIN u, bm) = DOMAIN bm
        /\ MatchAddAll(u, bm) =
              [id \in DOMAIN u \cup DOMAIN bm |->
                  IF id \in DOMAIN u THEN u[id] ELSE bm[id]]
    BY <2>1, MatchAddAllResult
  <2> QED  BY <2>1, <2>2 DEF u
<1> HIDE DEF new
<1>6. DOMAIN new = other \cup DOMAIN bm
  BY <1>5
<1>7. \A id \in DOMAIN bm : new[id] = bm[id]
  BY <1>4, <1>5
<1>8. \A id \in DOMAIN new : new[id] \in Match \cup {ForeignMatch}
  BY <1>1, <1>3, <1>5
<1>9. DOMAIN new \subseteq Nat
  BY <1>1, <1>6 DEF BufIds
<1>10. new \in [DOMAIN new -> Match \cup {ForeignMatch}]
  BY <1>5, <1>8
<1> QED  BY <1>4, <1>5, <1>6, <1>7, <1>9, <1>10 DEF new

(***************************************************************************)
(* The patterns of the items are natural numbers of the match type.        *)
(***************************************************************************)
LEMMA PatternTyped ==
    ASSUME NEW i \in Items, NEW on \in BOOLEAN, NEW n \in TextWidths,
           PatternFor(i, on, n) # NoPattern
    PROVE  <<i, PatternFor(i, on, n)>> \in Match
BY DEF PatternFor, Pattern, NoPattern, Match

\* SyncWindow as an action: the windows stay typed and without leaks.
LEMMA SyncWindowSafe ==
    ASSUME WindowsTyped, NoLeakedMatches, NEW w \in Wins, NEW bm,
           DOMAIN bm \subseteq BufIds, bm \in [DOMAIN bm -> Match],
           SyncWindow(w, bm)
    PROVE  /\ IsDicts(winMatches, Wins, Nat, Match \cup {ForeignMatch})'
           /\ winIds' \in [Wins -> SUBSET BufIds]
           /\ NoLeakedMatches'
           /\ winIds'[w] = DOMAIN bm
           /\ \A id \in DOMAIN bm : winMatches'[w][id] = bm[id]
<1> DEFINE new == MatchAddAll(Unsynced(w), bm)
<1>1. /\ NewIds(DOMAIN Unsynced(w), bm) = DOMAIN bm
      /\ DOMAIN new \ ForeignIds = DOMAIN bm
      /\ DOMAIN new \subseteq Nat
      /\ new \in [DOMAIN new -> Match \cup {ForeignMatch}]
      /\ \A id \in DOMAIN bm : new[id] = bm[id]
  BY SyncResult
<1> HIDE DEF new
<1>2. winMatches' = [winMatches EXCEPT ![w] = new]
      /\ winIds' = [winIds EXCEPT ![w] = DOMAIN bm]
  BY <1>1 DEF SyncWindow, new
<1>3. winMatches = [v \in Wins |-> winMatches[v]] /\ winIds \in [Wins -> SUBSET BufIds]
  BY DEF WindowsTyped, IsDicts
<1>4. \A v \in Wins : /\ winMatches'[v] = IF v = w THEN new ELSE winMatches[v]
                      /\ winIds'[v] = IF v = w THEN DOMAIN bm ELSE winIds[v]
  BY <1>2, <1>3
<1>5. IsDicts(winMatches, Wins, Nat, Match \cup {ForeignMatch})'
  <2>1. winMatches' = [v \in Wins |-> winMatches'[v]]
    BY <1>2, <1>3
  <2>2. ASSUME NEW v \in Wins
        PROVE  /\ DOMAIN winMatches'[v] \subseteq Nat
               /\ winMatches'[v] \in [DOMAIN winMatches'[v] -> Match \cup {ForeignMatch}]
    BY <1>1, <1>4 DEF WindowsTyped, IsDicts
  <2> QED  BY <2>1, <2>2 DEF IsDicts, Match, ForeignMatch
<1>6. winIds' \in [Wins -> SUBSET BufIds]
  BY <1>2, <1>3
<1>7. NoLeakedMatches'
  BY <1>1, <1>4 DEF NoLeakedMatches
<1> QED  BY <1>1, <1>4, <1>5, <1>6, <1>7

(***************************************************************************)
(* HighlightSyntaxMatch: the old match of the item goes, the new one gets  *)
(* an id no other item's match has.                                        *)
(***************************************************************************)
LEMMA RemainingResult ==
    ASSUME BuffersTyped, GroupsOwnMatches, NEW b \in Bufs, NEW i \in Items
    PROVE  LET rest  == Remaining(b, i)
               names == Without(groups[b], i)
           IN  /\ DOMAIN rest \subseteq DOMAIN bufMatches[b]
               /\ DOMAIN rest \subseteq BufIds /\ rest \in [DOMAIN rest -> Match]
               /\ DOMAIN names = DOMAIN groups[b] \ {i}
               /\ names \in [DOMAIN names -> BufIds]
               /\ Vals(names) = DOMAIN rest
               /\ \A j \in DOMAIN names : /\ names[j] = groups[b][j]
                                          /\ rest[names[j]] = bufMatches[b][names[j]]
                                          /\ rest[names[j]][1] = j
<1> DEFINE rest  == Remaining(b, i)
           names == Without(groups[b], i)
           bm == bufMatches[b]
           g == groups[b]
<1>1. /\ DOMAIN bm \subseteq BufIds /\ bm \in [DOMAIN bm -> Match]
      /\ DOMAIN g \subseteq Items /\ g \in [DOMAIN g -> BufIds]
  BY DEF BuffersTyped, IsDicts
<1>2. Vals(g) = DOMAIN bm /\ \A j \in DOMAIN g : bm[g[j]][1] = j
  BY DEF GroupsOwnMatches
<1>3. rest = IF i \in DOMAIN g THEN Without(bm, g[i]) ELSE bm
  BY DEF Remaining
<1> HIDE DEF rest, bm, g
<1>4. /\ DOMAIN names = DOMAIN g \ {i}
      /\ names \in [DOMAIN names -> BufIds]
      /\ \A j \in DOMAIN names : names[j] = g[j]
  <2>1. names = [j \in DOMAIN g \ {i} |-> g[j]]
    BY DEF Without, g
  <2> HIDE DEF names
  <2> QED  BY <1>1, <2>1
<1> HIDE DEF names
<1>5. \A j \in DOMAIN names : names[j] \in DOMAIN bm /\ (i \in DOMAIN g => names[j] # g[i])
  <2>1. \A j, k \in DOMAIN g : g[j] = g[k] => j = k
    BY <1>2
  <2> QED  BY <1>2, <1>4, <2>1 DEF Vals
<1>6. CASE i \in DOMAIN g
  <2>1. rest = Without(bm, g[i])
    BY <1>3, <1>6
  <2>2. /\ DOMAIN rest = DOMAIN bm \ {g[i]}
        /\ DOMAIN rest \subseteq BufIds /\ rest \in [DOMAIN rest -> Match]
        /\ \A x \in DOMAIN rest : rest[x] = bm[x]
    <3>1. rest = [x \in DOMAIN bm \ {g[i]} |-> bm[x]]
      BY <2>1 DEF Without
    <3> QED  BY <1>1, <3>1
  <2>3. Vals(names) = DOMAIN rest
    BY <1>2, <1>4, <1>5, <1>6, <2>2 DEF Vals
  <2>4. \A j \in DOMAIN names : rest[names[j]] = bm[names[j]] /\ rest[names[j]][1] = j
    BY <1>2, <1>4, <1>5, <1>6, <2>2
  <2> QED  BY <1>4, <2>2, <2>3, <2>4 DEF rest, names, bm, g
<1>7. CASE i \notin DOMAIN g
  <2>1. rest = bm /\ DOMAIN names = DOMAIN g
    BY <1>3, <1>4, <1>7
  <2>2. Vals(names) = DOMAIN rest
    <3>1. names = g
      BY <1>1, <1>4, <2>1
    <3> QED  BY <1>2, <2>1, <3>1
  <2>3. \A j \in DOMAIN names : rest[names[j]] = bm[names[j]] /\ rest[names[j]][1] = j
    BY <1>2, <1>4, <2>1
  <2> QED  BY <1>1, <1>4, <2>1, <2>2, <2>3 DEF rest, names, bm, g
<1> QED  BY <1>6, <1>7

LEMMA HighlightSyntaxMatchSafe ==
    ASSUME IInv, NEW i \in Items, NEW on \in BOOLEAN, NEW n \in TextWidths,
           HighlightSyntaxMatch(curBuf, i, PatternFor(i, on, n)),
           UNCHANGED curWin
    PROVE  /\ IsDicts(bufMatches, Bufs, BufIds, Match)'
           /\ IsDicts(groups, Bufs, Items, BufIds)'
           /\ IsDicts(winMatches, Wins, Nat, Match \cup {ForeignMatch})'
           /\ winIds' \in [Wins -> SUBSET BufIds]
           /\ GroupsOwnMatches'
           /\ NoLeakedMatches'
<1> DEFINE b       == curBuf
           pattern == PatternFor(i, on, n)
           rest    == Remaining(b, i)
           names   == Without(groups[b], i)
           id      == NextBufMatchId(rest)
           add     == pattern # NoPattern
           now     == IF add THEN With(rest, id, <<i, pattern>>) ELSE rest
           named   == IF add THEN With(names, i, id) ELSE names
<1>1. b \in Bufs /\ curWin \in Wins
  BY DEF IInv, TypeOK, WindowsTyped, curBuf
<1>2. /\ DOMAIN rest \subseteq DOMAIN bufMatches[b]
      /\ DOMAIN rest \subseteq BufIds /\ rest \in [DOMAIN rest -> Match]
      /\ DOMAIN names = DOMAIN groups[b] \ {i}
      /\ names \in [DOMAIN names -> BufIds]
      /\ Vals(names) = DOMAIN rest
      /\ \A j \in DOMAIN names : rest[names[j]][1] = j
  BY <1>1, RemainingResult DEF IInv, TypeOK
<1>3. DOMAIN names \subseteq Items
  BY <1>1, <1>2 DEF IInv, TypeOK, BuffersTyped, IsDicts
<1>4. IsFiniteSet(DOMAIN rest)
  BY <1>1, <1>2, BufMatchesFinite, FS_Subset DEF IInv, TypeOK
<1>5. id \in BufIds /\ id \notin DOMAIN rest
  BY <1>4, NextBufMatchIdFree DEF BufIds
<1>6. add => <<i, pattern>> \in Match
  BY PatternTyped
<1>7. /\ bufMatches' = [bufMatches EXCEPT ![b] = now]
      /\ groups' = [groups EXCEPT ![b] = named]
      /\ \/ SyncWindow(curWin, now)
         \/ UNCHANGED <<winMatches, winIds>>
  BY DEF HighlightSyntaxMatch
<1> HIDE DEF b, pattern, rest, names, id
<1>8. /\ DOMAIN now \subseteq BufIds /\ now \in [DOMAIN now -> Match]
      /\ DOMAIN named \subseteq Items /\ named \in [DOMAIN named -> BufIds]
      /\ Vals(named) = DOMAIN now
      /\ \A j \in DOMAIN named : now[named[j]][1] = j
  <2>1. CASE ~add
    BY <1>2, <1>3, <2>1
  <2>2. CASE add
    <3>1. /\ DOMAIN now = DOMAIN rest \cup {id}
          /\ DOMAIN now \subseteq BufIds /\ now \in [DOMAIN now -> Match]
          /\ now[id] = <<i, pattern>>
          /\ \A x \in DOMAIN rest : now[x] = rest[x]
      <4>1. now = [x \in DOMAIN rest \cup {id} |->
                      IF x = id THEN <<i, pattern>> ELSE rest[x]]
        BY <2>2 DEF With
      <4> HIDE DEF now
      <4> QED  BY <1>2, <1>5, <1>6, <2>2, <4>1
    <3>2. /\ DOMAIN named = DOMAIN names \cup {i}
          /\ DOMAIN named \subseteq Items /\ named \in [DOMAIN named -> BufIds]
          /\ named[i] = id
          /\ \A j \in DOMAIN names : named[j] = names[j]
      <4>1. named = [j \in DOMAIN names \cup {i} |->
                        IF j = i THEN id ELSE names[j]]
        BY <2>2 DEF With
      <4> HIDE DEF named
      <4> QED  BY <1>2, <1>3, <1>5, <4>1
    <3> HIDE DEF now, named
    <3>3. Vals(named) = DOMAIN now
      BY <1>2, <3>1, <3>2 DEF Vals
    <3>4. ASSUME NEW j \in DOMAIN named PROVE now[named[j]][1] = j
      <4>1. CASE j = i
        BY <3>1, <3>2, <4>1
      <4>2. CASE j \in DOMAIN names
        <5>1. names[j] \in DOMAIN rest
          BY <1>2, <4>2 DEF Vals
        <5> QED  BY <1>2, <3>1, <3>2, <4>2, <5>1
      <4> QED  BY <3>2, <4>1, <4>2
    <3> QED  BY <3>1, <3>2, <3>3, <3>4
  <2> QED  BY <2>1, <2>2
<1> HIDE DEF now, named
<1>9. /\ bufMatches = [c \in Bufs |-> bufMatches[c]]
      /\ groups = [c \in Bufs |-> groups[c]]
  BY DEF IInv, TypeOK, BuffersTyped, IsDicts
<1>10. \A c \in Bufs : /\ bufMatches'[c] = IF c = b THEN now ELSE bufMatches[c]
                       /\ groups'[c] = IF c = b THEN named ELSE groups[c]
  BY <1>7, <1>9
<1>11. IsDicts(bufMatches, Bufs, BufIds, Match)'
  <2>1. bufMatches' = [c \in Bufs |-> bufMatches'[c]]
    BY <1>7, <1>9
  <2>2. ASSUME NEW c \in Bufs
        PROVE  /\ DOMAIN bufMatches'[c] \subseteq BufIds
               /\ bufMatches'[c] \in [DOMAIN bufMatches'[c] -> Match]
    BY <1>8, <1>10 DEF IInv, TypeOK, BuffersTyped, IsDicts
  <2> QED  BY <2>1, <2>2 DEF IsDicts, BufIds, Match
<1>12. IsDicts(groups, Bufs, Items, BufIds)'
  <2>1. groups' = [c \in Bufs |-> groups'[c]]
    BY <1>7, <1>9
  <2>2. ASSUME NEW c \in Bufs
        PROVE  /\ DOMAIN groups'[c] \subseteq Items
               /\ groups'[c] \in [DOMAIN groups'[c] -> BufIds]
    BY <1>8, <1>10 DEF IInv, TypeOK, BuffersTyped, IsDicts
  <2> QED  BY <2>1, <2>2 DEF IsDicts, BufIds, Items
<1>13. GroupsOwnMatches'
  BY <1>8, <1>10 DEF GroupsOwnMatches, Vals, IInv
<1>14. /\ IsDicts(winMatches, Wins, Nat, Match \cup {ForeignMatch})'
       /\ winIds' \in [Wins -> SUBSET BufIds]
       /\ NoLeakedMatches'
  <2>1. CASE SyncWindow(curWin, now)
    BY <1>1, <1>8, <2>1, SyncWindowSafe DEF IInv, TypeOK
  <2>2. CASE UNCHANGED <<winMatches, winIds>>
    BY <2>2 DEF IInv, TypeOK, WindowsTyped, IsDicts, NoLeakedMatches, Match,
                ForeignMatch, BufIds, Items
  <2> QED  BY <1>7, <2>1, <2>2
<1> QED  BY <1>11, <1>12, <1>13, <1>14

-----------------------------------------------------------------------------
(***************************************************************************)
(* The calls of a command are well typed.                                  *)
(***************************************************************************)
LEMMA PendingTyped ==
    ASSUME pending \in Seq(Call), pending # <<>>
    PROVE  /\ Head(pending) \in Call /\ Tail(pending) \in Seq(Call)
           /\ Running("item") => /\ Head(pending).item \in Items
                                 /\ Head(pending).on \in BOOLEAN
           /\ Running("keep") => Head(pending).item \in Items
           /\ Running("all") => Head(pending).on \in BOOLEAN
           /\ Running("enable") => Head(pending).on \in BOOLEAN
           /\ Running("tw") => Head(pending).tw \in TextWidths
<1>1. Head(pending) \in Call /\ Tail(pending) \in Seq(Call)
  BY HeadTailProperties
<1>2. ASSUME NEW c \in Call
      PROVE  /\ c.op = "item" => c.item \in Items /\ c.on \in BOOLEAN
             /\ c.op = "keep" => c.item \in Items
             /\ c.op = "all" => c.on \in BOOLEAN
             /\ c.op = "enable" => c.on \in BOOLEAN
             /\ c.op = "tw" => c.tw \in TextWidths
  BY DEF Call, Arg, Apply, BufWinEnter
<1> QED  BY <1>1, <1>2 DEF Running

LEMMA LoopTyped ==
    ASSUME NEW on \in BOOLEAN, NEW rest \in Seq(Call)
    PROVE  /\ [n \in DOMAIN HighlightItems |-> Item(HighlightItems[n], on)]
                 \o rest \in Seq(Call)
           /\ [n \in DOMAIN HighlightItems |-> Keep(HighlightItems[n])]
                 \o rest \in Seq(Call)
<1> DEFINE items == [n \in DOMAIN HighlightItems |-> Item(HighlightItems[n], on)]
           keeps == [n \in DOMAIN HighlightItems |-> Keep(HighlightItems[n])]
<1>1. /\ HighlightItems \in [1 .. Len(HighlightItems) -> Items]
      /\ DOMAIN HighlightItems = 1 .. Len(HighlightItems)
      /\ Len(HighlightItems) \in Nat
  BY CommandAssumption, LenProperties
<1>2. \A i \in Items : Item(i, on) \in Call /\ Keep(i) \in Call
  BY DEF Item, Keep, Call, Arg
<1>3. /\ items \in [1 .. Len(HighlightItems) -> Call]
      /\ keeps \in [1 .. Len(HighlightItems) -> Call]
  BY <1>1, <1>2
<1>4. items \in Seq(Call) /\ keeps \in Seq(Call)
  BY <1>1, <1>3, SeqDef
<1> QED  BY <1>4, ConcatProperties

\* One call to HighlightItem.
LEMMA HighlightItemSafe ==
    ASSUME IInv, NEW i \in Items, NEW on \in BOOLEAN, HighlightItem(i, on),
           pending' \in Seq(Call)
    PROVE  IInv'
<1>1. curBuf \in Bufs /\ tw[curBuf] \in TextWidths
      /\ bufEnabled[curBuf] \in {"unset", "on", "off"}
  BY DEF IInv, TypeOK, WindowsTyped, BuffersTyped, curBuf
<1>2. (on /\ HighlightBufferEnabled(bufEnabled[curBuf])) \in BOOLEAN
  BY DEF HighlightBufferEnabled
<1>3. /\ IsDicts(bufMatches, Bufs, BufIds, Match)'
      /\ IsDicts(groups, Bufs, Items, BufIds)'
      /\ IsDicts(winMatches, Wins, Nat, Match \cup {ForeignMatch})'
      /\ winIds' \in [Wins -> SUBSET BufIds]
      /\ GroupsOwnMatches'
      /\ NoLeakedMatches'
  BY <1>1, <1>2, HighlightSyntaxMatchSafe DEF HighlightItem
<1>4. configured' \in [Bufs -> SUBSET Items]
  BY DEF IInv, TypeOK, BuffersTyped, HighlightItem, Remember
<1>5. UNCHANGED <<winBuf, curWin, bufEnabled, tw>>
  BY DEF HighlightItem
<1> QED  BY <1>3, <1>4, <1>5 DEF IInv, TypeOK, WindowsTyped, BuffersTyped

LEMMA ContinueSafe ==
    ASSUME IInv, Continue
    PROVE  IInv'
<1>1. pending \in Seq(Call)
  BY DEF IInv, TypeOK
<1>2. CASE DoItem
  <2>1. Running("item") /\ pending # <<>> /\ Done
        /\ HighlightItem(Head(pending).item, Head(pending).on)
    BY <1>2 DEF DoItem, Running
  <2> QED  BY <1>1, <2>1, PendingTyped, HighlightItemSafe DEF Done
<1>3. CASE DoKeep
  <2>1. /\ Running("keep") /\ pending # <<>> /\ Done
        /\ HighlightItem(Head(pending).item, HighlightItemEnabled(Head(pending).item))
    BY <1>3 DEF DoKeep, Running
  <2>2. HighlightItemEnabled(Head(pending).item) \in BOOLEAN
    BY DEF HighlightItemEnabled
  <2> QED  BY <1>1, <2>1, <2>2, PendingTyped, HighlightItemSafe DEF Done
<1>4. CASE DoAll
  <2>1. pending' \in Seq(Call)
    BY <1>1, <1>4, PendingTyped, LoopTyped DEF DoAll, Running
  <2> QED  BY <1>4, <2>1 DEF DoAll, display, config, IInv, TypeOK, WindowsTyped,
             BuffersTyped, IsDicts, GroupsOwnMatches, NoLeakedMatches
<1>5. CASE DoApply
  <2>1. pending' \in Seq(Call)
    BY <1>1, <1>5, PendingTyped, LoopTyped DEF DoApply, Running
  <2> QED  BY <1>5, <2>1 DEF DoApply, display, config, IInv, TypeOK, WindowsTyped,
             BuffersTyped, IsDicts, GroupsOwnMatches, NoLeakedMatches
<1>6. CASE DoEnable
  <2>1. pending' \in Seq(Call)
    <3>1. Tail(pending) \in Seq(Call) /\ <<Apply>> \in Seq(Call)
      BY <1>1, <1>6, PendingTyped DEF DoEnable, Running, Call
    <3> QED  BY <1>6, <3>1, ConcatProperties DEF DoEnable
  <2>2. bufEnabled' \in [Bufs -> {"unset", "on", "off"}]
    BY <1>6 DEF DoEnable, IInv, TypeOK, BuffersTyped
  <2> QED  BY <1>6, <2>1, <2>2 DEF DoEnable, display, IInv, TypeOK, WindowsTyped,
             BuffersTyped, IsDicts, GroupsOwnMatches, NoLeakedMatches
<1>7. CASE DoSetTw
  <2>1. pending' \in Seq(Call) /\ Head(pending).tw \in TextWidths
    BY <1>1, <1>7, PendingTyped DEF DoSetTw, Running, Done
  <2>2. tw' \in [Bufs -> TextWidths]
    BY <1>7, <2>1 DEF DoSetTw, IInv, TypeOK, BuffersTyped
  <2> QED  BY <1>7, <2>1, <2>2 DEF DoSetTw, display, IInv, TypeOK, WindowsTyped,
             BuffersTyped, IsDicts, GroupsOwnMatches, NoLeakedMatches
<1>8. CASE DoBufWinEnter
  <2>1. pending' \in Seq(Call)
    BY <1>1, <1>8, PendingTyped DEF DoBufWinEnter, Running, Done
  <2>2. curWin \in Wins /\ curBuf \in Bufs
    BY DEF IInv, TypeOK, WindowsTyped, curBuf
  <2>3. /\ IsDicts(winMatches, Wins, Nat, Match \cup {ForeignMatch})'
        /\ winIds' \in [Wins -> SUBSET BufIds]
        /\ NoLeakedMatches'
    BY <1>8, <2>2, SyncWindowSafe
       DEF DoBufWinEnter, IInv, TypeOK, BuffersTyped, IsDicts
  <2> QED  BY <1>8, <2>1, <2>3 DEF DoBufWinEnter, config, IInv, TypeOK,
             WindowsTyped, BuffersTyped, IsDicts, GroupsOwnMatches
<1> QED  BY <1>2, <1>3, <1>4, <1>5, <1>6, <1>7, <1>8 DEF Continue

\* The commands and events that only put calls in pending.
LEMMA StartSafe ==
    ASSUME IInv, NEW calls \in Seq(Call), Start(calls)
    PROVE  IInv'
BY DEF Start, display, config, IInv, TypeOK, WindowsTyped, BuffersTyped, IsDicts,
       GroupsOwnMatches, NoLeakedMatches

LEMMA CommandsTyped ==
    /\ \A args \in Commands : args \in Seq(Call)
    /\ \A on \in BOOLEAN : <<Enable(on)>> \in Seq(Call)
    /\ <<Apply>> \in Seq(Call)
    /\ \A n \in TextWidths : <<SetTw(n), Apply>> \in Seq(Call)
    /\ <<BufWinEnter>> \in Seq(Call)
    /\ <<Apply, BufWinEnter>> \in Seq(Call)
<1>1. Apply \in Call /\ BufWinEnter \in Call
  BY DEF Call
<1>2. \A n \in TextWidths : SetTw(n) \in Call
  BY DEF SetTw, Call
<1>3. \A on \in BOOLEAN : Enable(on) \in Call
  BY DEF Enable, Call
<1>4. \A args \in Commands : args \in Seq(Call)
  <2>1. Arg \subseteq Call
    BY DEF Call
  <2> QED  BY <2>1, CommandAssumption, SeqMonotonic
<1> QED  BY <1>1, <1>2, <1>3, <1>4

LEMMA EditBufferSafe ==
    ASSUME IInv, NEW b \in Bufs, NEW setup \in Setups, EditBuffer(b, setup)
    PROVE  IInv'
<1>1. pending' \in Seq(Call)
  <2>1. setup \in Seq(Call)
    BY CommandAssumption
  <2>2. setup \o <<Apply, BufWinEnter>> \in Seq(Call)
    BY <2>1, CommandsTyped, ConcatProperties
  <2> QED  BY <2>2, CommandsTyped DEF EditBuffer
<1>2. winBuf' \in [Wins -> Bufs \cup {Closed}] /\ winBuf'[curWin'] # Closed
  BY ClosedAssumption DEF EditBuffer, IInv, TypeOK, WindowsTyped
<1> QED  BY <1>1, <1>2 DEF EditBuffer, config, IInv, TypeOK, WindowsTyped,
           BuffersTyped, IsDicts, GroupsOwnMatches, NoLeakedMatches

LEMMA DeleteBufferSafe ==
    ASSUME IInv, NEW b \in Bufs, DeleteBuffer(b)
    PROVE  IInv'
<1>1. /\ bufMatches = [c \in Bufs |-> bufMatches[c]]
      /\ groups = [c \in Bufs |-> groups[c]]
  BY DEF IInv, TypeOK, BuffersTyped, IsDicts
<1>2. \A c \in Bufs :
        /\ bufMatches'[c] = IF c = b THEN NoMap ELSE bufMatches[c]
        /\ groups'[c] = IF c = b THEN NoMap ELSE groups[c]
  BY <1>1 DEF DeleteBuffer
<1>3. DOMAIN NoMap = {} /\ \A V : NoMap \in [{} -> V]
  BY DEF NoMap
<1>4. IsDicts(bufMatches, Bufs, BufIds, Match)'
  <2>1. bufMatches' = [c \in Bufs |-> bufMatches'[c]]
    BY <1>1 DEF DeleteBuffer
  <2>2. ASSUME NEW c \in Bufs
        PROVE  /\ DOMAIN bufMatches'[c] \subseteq BufIds
               /\ bufMatches'[c] \in [DOMAIN bufMatches'[c] -> Match]
    BY <1>2, <1>3 DEF IInv, TypeOK, BuffersTyped, IsDicts
  <2> QED  BY <2>1, <2>2 DEF IsDicts, BufIds, Match
<1>5. IsDicts(groups, Bufs, Items, BufIds)'
  <2>1. groups' = [c \in Bufs |-> groups'[c]]
    BY <1>1 DEF DeleteBuffer
  <2>2. ASSUME NEW c \in Bufs
        PROVE  /\ DOMAIN groups'[c] \subseteq Items
               /\ groups'[c] \in [DOMAIN groups'[c] -> BufIds]
    BY <1>2, <1>3 DEF IInv, TypeOK, BuffersTyped, IsDicts
  <2> QED  BY <2>1, <2>2 DEF IsDicts, BufIds, Items
<1>6. GroupsOwnMatches'
  BY <1>2, <1>3 DEF IInv, GroupsOwnMatches, Vals
<1>7. /\ configured' \in [Bufs -> SUBSET Items]
      /\ bufEnabled' \in [Bufs -> {"unset", "on", "off"}]
      /\ tw' \in [Bufs -> TextWidths]
  BY CommandAssumption DEF DeleteBuffer, IInv, TypeOK, BuffersTyped
<1> QED  BY <1>4, <1>5, <1>6, <1>7 DEF DeleteBuffer, IInv, TypeOK, WindowsTyped,
           BuffersTyped, IsDicts, NoLeakedMatches

(***************************************************************************)
(* Window commands.                                                        *)
(***************************************************************************)
\* The matches a window is given when it is entered with buffer b.
LEMMA BufferDicts ==
    ASSUME IInv, NEW b \in Bufs
    PROVE  /\ DOMAIN bufMatches[b] \subseteq BufIds
           /\ bufMatches[b] \in [DOMAIN bufMatches[b] -> Match]
BY DEF IInv, TypeOK, BuffersTyped, IsDicts

LEMMA WindowCommandSafe ==
    ASSUME IInv, WindowCommand
    PROVE  IInv'
<1>1. /\ WindowsTyped /\ NoLeakedMatches /\ curWin \in Wins /\ curBuf \in Bufs
      /\ winBuf \in [Wins -> Bufs \cup {Closed}]
  BY DEF IInv, TypeOK, WindowsTyped, curBuf
<1>2. UNCHANGED <<bufMatches, config, pending>>
  BY DEF WindowCommand, Split, Focus, CloseCurrent, CloseOther
<1>3. BuffersTyped' /\ GroupsOwnMatches' /\ pending' \in Seq(Call)
  BY <1>2 DEF config, IInv, TypeOK, BuffersTyped, IsDicts, GroupsOwnMatches
<1>4. PICK w \in Wins : Split(w) \/ Focus(w) \/ CloseCurrent(w) \/ CloseOther(w)
  BY DEF WindowCommand
<1>5. CASE Split(w)
  <2>1. winBuf' \in [Wins -> Bufs \cup {Closed}] /\ winBuf'[w] # Closed /\ curWin' = w
    BY <1>1, <1>5, ClosedAssumption DEF Split
  <2>2. /\ IsDicts(winMatches, Wins, Nat, Match \cup {ForeignMatch})'
        /\ winIds' \in [Wins -> SUBSET BufIds]
        /\ NoLeakedMatches'
    BY <1>1, <1>5, BufferDicts, SyncWindowSafe DEF Split
  <2> QED  BY <1>3, <2>1, <2>2 DEF IInv, TypeOK, WindowsTyped
<1>6. CASE Focus(w)
  <2>1. winBuf' = winBuf /\ winBuf[w] \in Bufs /\ winBuf[w] # Closed /\ curWin' = w
    BY <1>1, <1>6, ClosedAssumption DEF Focus, Open
  <2>2. /\ IsDicts(winMatches, Wins, Nat, Match \cup {ForeignMatch})'
        /\ winIds' \in [Wins -> SUBSET BufIds]
        /\ NoLeakedMatches'
    BY <1>1, <1>6, <2>1, BufferDicts, SyncWindowSafe DEF Focus
  <2> QED  BY <1>1, <1>3, <2>1, <2>2 DEF IInv, TypeOK, WindowsTyped
<1>7. CASE CloseCurrent(w)
  <2> DEFINE bm  == bufMatches[winBuf[w]]
             new == MatchAddAll(Unsynced(w), bm)
  <2>1. /\ w # curWin /\ winBuf[w] \in Bufs /\ winBuf[w] # Closed /\ curWin' = w
        /\ winBuf' = [winBuf EXCEPT ![curWin] = Closed]
    BY <1>1, <1>7, ClosedAssumption DEF CloseCurrent, Open
  <2>2. /\ NewIds(DOMAIN Unsynced(w), bm) = DOMAIN bm
        /\ DOMAIN new \ ForeignIds = DOMAIN bm
        /\ DOMAIN new \subseteq Nat
        /\ new \in [DOMAIN new -> Match \cup {ForeignMatch}]
        /\ DOMAIN bm \subseteq BufIds
    BY <1>1, <2>1, BufferDicts, SyncResult
  <2>3. /\ winMatches' = [winMatches EXCEPT ![curWin] = NoMap, ![w] = new]
        /\ winIds' = [winIds EXCEPT ![curWin] = {}, ![w] = DOMAIN bm]
    BY <1>7, <2>2 DEF CloseCurrent
  <2> HIDE DEF bm, new
  <2>4. /\ winMatches = [v \in Wins |-> winMatches[v]]
        /\ winIds \in [Wins -> SUBSET BufIds]
    BY <1>1 DEF WindowsTyped, IsDicts
  <2>5. \A v \in Wins :
          /\ winMatches'[v] = IF v = w THEN new
                              ELSE IF v = curWin THEN NoMap ELSE winMatches[v]
          /\ winIds'[v] = IF v = w THEN DOMAIN bm
                          ELSE IF v = curWin THEN {} ELSE winIds[v]
    BY <1>1, <2>1, <2>3, <2>4
  <2>6. DOMAIN NoMap = {} /\ NoMap \in [{} -> Match \cup {ForeignMatch}]
    BY DEF NoMap
  <2>7. IsDicts(winMatches, Wins, Nat, Match \cup {ForeignMatch})'
    <3>1. winMatches' = [v \in Wins |-> winMatches'[v]]
      BY <2>3, <2>4
    <3>2. ASSUME NEW v \in Wins
          PROVE  /\ DOMAIN winMatches'[v] \subseteq Nat
                 /\ winMatches'[v] \in [DOMAIN winMatches'[v] -> Match \cup {ForeignMatch}]
      BY <1>1, <2>2, <2>5, <2>6 DEF WindowsTyped, IsDicts
    <3> QED  BY <3>1, <3>2 DEF IsDicts, Match, ForeignMatch
  <2>8. winIds' \in [Wins -> SUBSET BufIds]
    BY <2>2, <2>3, <2>4
  <2>9. NoLeakedMatches'
    BY <1>1, <2>2, <2>5, <2>6 DEF NoLeakedMatches
  <2>10. winBuf' \in [Wins -> Bufs \cup {Closed}] /\ winBuf'[w] # Closed
    BY <1>1, <2>1
  <2> QED  BY <1>3, <2>1, <2>7, <2>8, <2>9, <2>10 DEF IInv, TypeOK, WindowsTyped
<1>8. CASE CloseOther(w)
  <2>1. /\ w # curWin /\ curWin' = curWin
        /\ winBuf' = [winBuf EXCEPT ![w] = Closed]
        /\ winMatches' = [winMatches EXCEPT ![w] = NoMap]
        /\ winIds' = [winIds EXCEPT ![w] = {}]
    BY <1>8 DEF CloseOther
  <2>2. /\ winMatches = [v \in Wins |-> winMatches[v]]
        /\ winIds \in [Wins -> SUBSET BufIds]
    BY <1>1 DEF WindowsTyped, IsDicts
  <2>3. DOMAIN NoMap = {} /\ NoMap \in [{} -> Match \cup {ForeignMatch}]
    BY DEF NoMap
  <2>4. \A v \in Wins :
          /\ winMatches'[v] = IF v = w THEN NoMap ELSE winMatches[v]
          /\ winIds'[v] = IF v = w THEN {} ELSE winIds[v]
    BY <2>1, <2>2
  <2>5. IsDicts(winMatches, Wins, Nat, Match \cup {ForeignMatch})'
    <3>1. winMatches' = [v \in Wins |-> winMatches'[v]]
      BY <2>1, <2>2
    <3>2. ASSUME NEW v \in Wins
          PROVE  /\ DOMAIN winMatches'[v] \subseteq Nat
                 /\ winMatches'[v] \in [DOMAIN winMatches'[v] -> Match \cup {ForeignMatch}]
      BY <1>1, <2>3, <2>4 DEF WindowsTyped, IsDicts
    <3> QED  BY <3>1, <3>2 DEF IsDicts, Match, ForeignMatch
  <2>6. winIds' \in [Wins -> SUBSET BufIds]
    BY <2>1, <2>2
  <2>7. NoLeakedMatches'
    BY <1>1, <2>3, <2>4 DEF NoLeakedMatches
  <2>8. winBuf' \in [Wins -> Bufs \cup {Closed}] /\ winBuf'[curWin] # Closed
    BY <1>1, <2>1 DEF WindowsTyped
  <2> QED  BY <1>1, <1>3, <2>1, <2>5, <2>6, <2>7, <2>8 DEF IInv, TypeOK, WindowsTyped
<1> QED  BY <1>4, <1>5, <1>6, <1>7, <1>8

\* Matches of other scripts come and go under their own ids.
LEMMA OtherScriptSafe ==
    ASSUME IInv, OtherScript
    PROVE  IInv'
<1>1. PICK w \in Wins, id \in ForeignIds : ForeignAdd(w, id) \/ ForeignDelete(w, id)
  BY DEF OtherScript
<1>2. UNCHANGED <<winBuf, curWin, winIds, bufMatches, config, pending>>
  BY <1>1 DEF OtherScript, ForeignAdd, ForeignDelete
<1>3. /\ winMatches = [v \in Wins |-> winMatches[v]]
      /\ DOMAIN winMatches[w] \subseteq Nat
      /\ winMatches[w] \in [DOMAIN winMatches[w] -> Match \cup {ForeignMatch}]
      /\ id \in Nat
  BY IdAssumption DEF IInv, TypeOK, WindowsTyped, IsDicts
<1>4. PICK new :
        /\ winMatches' = [winMatches EXCEPT ![w] = new]
        /\ DOMAIN new \subseteq Nat
        /\ DOMAIN new \ ForeignIds = DOMAIN winMatches[w] \ ForeignIds
        /\ new \in [DOMAIN new -> Match \cup {ForeignMatch}]
  <2>1. CASE ForeignAdd(w, id)
    <3> DEFINE new == With(winMatches[w], id, ForeignMatch)
    <3>1. new = [x \in DOMAIN winMatches[w] \cup {id} |->
                    IF x = id THEN ForeignMatch ELSE winMatches[w][x]]
      BY DEF With
    <3>2. winMatches' = [winMatches EXCEPT ![w] = new]
      BY <2>1, <1>3 DEF ForeignAdd
    <3> HIDE DEF new
    <3>3. /\ DOMAIN new \subseteq Nat
          /\ DOMAIN new \ ForeignIds = DOMAIN winMatches[w] \ ForeignIds
          /\ new \in [DOMAIN new -> Match \cup {ForeignMatch}]
      BY <1>3, <3>1
    <3> QED  BY <3>2, <3>3, Zenon
  <2>2. CASE ForeignDelete(w, id)
    <3> DEFINE new == Without(winMatches[w], id)
    <3>1. new = [x \in DOMAIN winMatches[w] \ {id} |-> winMatches[w][x]]
      BY DEF Without
    <3>2. winMatches' = [winMatches EXCEPT ![w] = new]
      BY <2>2, <1>3 DEF ForeignDelete
    <3> HIDE DEF new
    <3>3. /\ DOMAIN new \subseteq Nat
          /\ DOMAIN new \ ForeignIds = DOMAIN winMatches[w] \ ForeignIds
          /\ new \in [DOMAIN new -> Match \cup {ForeignMatch}]
      BY <1>3, <3>1
    <3> QED  BY <3>2, <3>3, Zenon
  <2> QED  BY <1>1, <2>1, <2>2
<1>5. \A v \in Wins : winMatches'[v] = IF v = w THEN new ELSE winMatches[v]
  BY <1>3, <1>4
<1>6. IsDicts(winMatches, Wins, Nat, Match \cup {ForeignMatch})'
  <2>1. winMatches' = [v \in Wins |-> winMatches'[v]]
    BY <1>3, <1>4
  <2>2. ASSUME NEW v \in Wins
        PROVE  /\ DOMAIN winMatches'[v] \subseteq Nat
               /\ winMatches'[v] \in [DOMAIN winMatches'[v] -> Match \cup {ForeignMatch}]
    BY <1>4, <1>5 DEF IInv, TypeOK, WindowsTyped, IsDicts
  <2> QED  BY <2>1, <2>2 DEF IsDicts, Match, ForeignMatch
<1>7. NoLeakedMatches'
  BY <1>2, <1>4, <1>5 DEF IInv, NoLeakedMatches
<1> QED  BY <1>2, <1>6, <1>7 DEF config, IInv, TypeOK, WindowsTyped, BuffersTyped,
           IsDicts, GroupsOwnMatches

-----------------------------------------------------------------------------
LEMMA InitSafe == Init => IInv
<1> SUFFICES ASSUME Init PROVE IInv
  OBVIOUS
<1>1. DOMAIN NoMap = {} /\ \A V : NoMap \in [{} -> V]
  BY DEF NoMap
<1>2. PICK w \in Wins, b \in Bufs :
        /\ curWin = w
        /\ winBuf = [v \in Wins |-> IF v = w THEN b ELSE Closed]
  BY DEF Init
<1>3. /\ winBuf \in [Wins -> Bufs \cup {Closed}]
      /\ curWin \in Wins /\ winBuf[curWin] # Closed
  BY <1>2, ClosedAssumption
<1>4. WindowsTyped
  BY <1>1, <1>3 DEF Init, WindowsTyped, IsDicts
<1>5. BuffersTyped
  BY <1>1, CommandAssumption DEF Init, BuffersTyped, IsDicts
<1>6. GroupsOwnMatches /\ NoLeakedMatches
  BY <1>1 DEF Init, GroupsOwnMatches, NoLeakedMatches, Vals
<1>7. pending \in Seq(Call)
  BY EmptySeq DEF Init
<1> QED  BY <1>4, <1>5, <1>6, <1>7 DEF IInv, TypeOK

LEMMA NextSafe ==
    ASSUME IInv, [Next]_vars
    PROVE  IInv'
<1>1. CASE Continue
  BY <1>1, ContinueSafe
<1>2. CASE HighlightCommand
  BY <1>2, CommandsTyped, StartSafe DEF HighlightCommand
<1>3. CASE HighlightOnOff
  BY <1>3, CommandsTyped, StartSafe DEF HighlightOnOff
<1>4. CASE SyntaxEvent
  BY <1>4, CommandsTyped, StartSafe DEF SyntaxEvent
<1>5. CASE SetTextwidth
  BY <1>5, CommandsTyped, StartSafe DEF SetTextwidth
<1>6. CASE \E b \in Bufs, setup \in Setups : EditBuffer(b, setup)
  BY <1>6, EditBufferSafe
<1>7. CASE \E b \in Bufs : DeleteBuffer(b)
  BY <1>7, DeleteBufferSafe
<1>8. CASE WindowCommand
  BY <1>8, WindowCommandSafe
<1>9. CASE OtherScript
  BY <1>9, OtherScriptSafe
<1>10. CASE UNCHANGED vars
  BY <1>10 DEF vars, display, config, IInv, TypeOK, WindowsTyped, BuffersTyped,
       IsDicts, GroupsOwnMatches, NoLeakedMatches
<1> QED  BY <1>1, <1>2, <1>3, <1>4, <1>5, <1>6, <1>7, <1>8, <1>9, <1>10 DEF Next

\* What types, ownership and leaks of matches need of each other.
THEOREM Invariance == Spec => []IInv
<1>1. Init => IInv
  BY InitSafe
<1>2. IInv /\ [Next]_vars => IInv'
  BY NextSafe
<1> QED  BY <1>1, <1>2, PTL DEF Spec

(***************************************************************************)
(* The three properties, for every instance.                               *)
(***************************************************************************)
\* Every reachable state is well typed: the ids s:NextBufMatchId returns are
\* in range and one window is always open and current.
THEOREM TypeCorrect == Spec => []TypeOK
<1>1. IInv => TypeOK
  BY DEF IInv
<1> QED  BY <1>1, Invariance, PTL

\* b:highlight_groups and b:bufmatch_matches always agree: each match of a
\* buffer belongs to exactly one item.
THEOREM MatchesOwned == Spec => []GroupsOwnMatches
<1>1. IInv => GroupsOwnMatches
  BY DEF IInv
<1> QED  BY <1>1, Invariance, PTL

\* SyncWindow never leaves a match behind and never deletes one that is gone.
THEOREM NothingLeaked == Spec => []NoLeakedMatches
<1>1. IInv => NoLeakedMatches
  BY DEF IInv
<1> QED  BY <1>1, Invariance, PTL

-----------------------------------------------------------------------------
(***************************************************************************)
(* Ids are reused.  When item i is given a match, the others have at most  *)
(* one each, so among as many ids as there are items one is free.          *)
(***************************************************************************)
LEMMA NewIdWithinItems ==
    ASSUME BuffersTyped, GroupsOwnMatches, NEW b \in Bufs, NEW i \in Items
    PROVE  NextBufMatchId(Remaining(b, i)) \in
               FirstId .. (FirstId + Cardinality(Items) - 1)
<1> DEFINE rest  == Remaining(b, i)
           names == Without(groups[b], i)
<1>1. /\ Vals(names) = DOMAIN rest
      /\ DOMAIN names \subseteq Items \ {i}
      /\ names \in [DOMAIN names -> BufIds]
  <2>1. DOMAIN groups[b] \subseteq Items
    BY DEF BuffersTyped, IsDicts
  <2>2. /\ Vals(names) = DOMAIN rest
        /\ DOMAIN names = DOMAIN groups[b] \ {i}
        /\ names \in [DOMAIN names -> BufIds]
    BY RemainingResult
  <2> HIDE DEF rest, names
  <2> QED  BY <2>1, <2>2
<1> HIDE DEF rest, names
<1>2. /\ IsFiniteSet(Items \ {i})
      /\ Cardinality(Items \ {i}) = Cardinality(Items) - 1
      /\ Cardinality(Items) \in Nat
  BY ItemsFinite, FS_RemoveElement, FS_CardinalityType
<1>3. /\ IsFiniteSet(DOMAIN names)
      /\ Cardinality(DOMAIN names) <= Cardinality(Items) - 1
  BY <1>1, <1>2, FS_Subset
<1>4. names \in Surjection(DOMAIN names, DOMAIN rest)
  BY <1>1, Fun_IsSurj DEF Vals
<1>5. /\ IsFiniteSet(DOMAIN rest)
      /\ Cardinality(DOMAIN rest) <= Cardinality(DOMAIN names)
  BY <1>3, <1>4, FS_Surjection
<1>6. /\ Cardinality(DOMAIN rest) \in Nat /\ Cardinality(DOMAIN names) \in Nat
      /\ FirstId \in Nat
  BY <1>3, <1>5, FS_CardinalityType, IdAssumption
<1>7. /\ NextBufMatchId(rest) \in Nat
      /\ NextBufMatchId(rest) >= FirstId
      /\ NextBufMatchId(rest) <= FirstId + Cardinality(DOMAIN rest)
  BY <1>5, NextBufMatchIdFree
<1> QED  BY <1>2, <1>3, <1>5, <1>6, <1>7 DEF rest

\* A call to HighlightItem keeps all ids but the one it gives.
LEMMA HighlightItemReuses ==
    ASSUME IInv, IdsReused, NEW i \in Items, NEW on, HighlightItem(i, on)
    PROVE  IdsReused'
<1> DEFINE rest == Remaining(curBuf, i)
           id   == NextBufMatchId(rest)
           ids  == FirstId .. (FirstId + Cardinality(Items) - 1)
<1>1. curBuf \in Bufs
  BY DEF IInv, TypeOK, WindowsTyped, curBuf
<1>2. id \in ids /\ DOMAIN rest \subseteq DOMAIN bufMatches[curBuf]
  BY <1>1, NewIdWithinItems, RemainingResult DEF IInv, TypeOK
<1>3. PICK now :
        /\ bufMatches' = [bufMatches EXCEPT ![curBuf] = now]
        /\ DOMAIN now \subseteq DOMAIN rest \cup {id}
  <2> DEFINE pattern == PatternFor(i,
                 on /\ HighlightBufferEnabled(bufEnabled[curBuf]), tw[curBuf])
             added == With(rest, id, <<i, pattern>>)
             new   == IF pattern # NoPattern THEN added ELSE rest
  <2>1. bufMatches' = [bufMatches EXCEPT ![curBuf] = new]
    BY Zenon DEF HighlightItem, HighlightSyntaxMatch
  <2>2. DOMAIN added = DOMAIN rest \cup {id}
    BY DEF With
  <2> HIDE DEF added, rest, id
  <2>3. DOMAIN new \subseteq DOMAIN rest \cup {id}
    BY <2>2
  <2> QED  BY <2>1, <2>3
<1> HIDE DEF rest, id
<1>4. ASSUME NEW b \in Bufs PROVE DOMAIN bufMatches'[b] \subseteq ids
  <2>1. bufMatches = [c \in Bufs |-> bufMatches[c]]
    BY DEF IInv, TypeOK, BuffersTyped, IsDicts
  <2>2. bufMatches'[b] = IF b = curBuf THEN now ELSE bufMatches[b]
    BY <1>3, <2>1
  <2> QED  BY <1>1, <1>2, <1>3, <2>2 DEF IdsReused
<1> QED  BY <1>4 DEF IdsReused

\* However many commands were run, a buffer's ids stay within as many numbers
\* as there are items: matches that are deleted and added forever never use
\* ids up.
THEOREM IdsAlwaysReused == Spec => []IdsReused
<1>1. Init => IdsReused
  BY DEF Init, IdsReused, NoMap
<1>2. IInv /\ IdsReused /\ [Next]_vars => IdsReused'
  <2> SUFFICES ASSUME IInv, IdsReused, [Next]_vars PROVE IdsReused'
    OBVIOUS
  <2>1. CASE DoItem
    <3>1. Head(pending).item \in Items
      BY <2>1, PendingTyped DEF DoItem, Running, IInv, TypeOK
    <3> QED  BY <2>1, <3>1, HighlightItemReuses DEF DoItem
  <2>2. CASE DoKeep
    <3>1. Head(pending).item \in Items
      BY <2>2, PendingTyped DEF DoKeep, Running, IInv, TypeOK
    <3> QED  BY <2>2, <3>1, HighlightItemReuses DEF DoKeep
  <2>3. CASE \E b \in Bufs : DeleteBuffer(b)
    <3>1. PICK d \in Bufs : bufMatches' = [bufMatches EXCEPT ![d] = NoMap]
      BY <2>3 DEF DeleteBuffer
    <3>2. bufMatches = [c \in Bufs |-> bufMatches[c]] /\ DOMAIN NoMap = {}
      BY DEF NoMap, IInv, TypeOK, BuffersTyped, IsDicts
    <3>3. \A b \in Bufs : bufMatches'[b] = IF b = d THEN NoMap ELSE bufMatches[b]
      BY <3>1, <3>2
    <3> QED  BY <3>2, <3>3 DEF IdsReused
  <2>4. CASE UNCHANGED bufMatches
    BY <2>4 DEF IdsReused
  <2>5. DoItem \/ DoKeep \/ (\E b \in Bufs : DeleteBuffer(b)) \/ UNCHANGED bufMatches
    BY DEF Next, Continue, DoAll, DoApply, DoEnable, DoSetTw, DoBufWinEnter,
           HighlightCommand, HighlightOnOff, SyntaxEvent, SetTextwidth, Start,
           EditBuffer, WindowCommand, Split, Focus, CloseCurrent, CloseOther,
           OtherScript, ForeignAdd, ForeignDelete, display, vars
  <2> QED  BY <2>1, <2>2, <2>3, <2>4, <2>5
<1> QED  BY <1>1, <1>2, Invariance, PTL DEF Spec

-----------------------------------------------------------------------------
(***************************************************************************)
(* Matches of other scripts are kept.                                      *)
(***************************************************************************)
\* A window that is given the matches of a buffer keeps the other scripts'.
LEMMA SyncKeepsForeign ==
    ASSUME WindowsTyped, NoLeakedMatches, NEW w \in Wins, NEW bm,
           DOMAIN bm \subseteq BufIds, bm \in [DOMAIN bm -> Match],
           NEW v \in Wins,
           winMatches'[v] = IF v = w THEN MatchAddAll(Unsynced(w), bm)
                                     ELSE winMatches[v]
    PROVE  ForeignOf(v)' = ForeignOf(v)
<1> DEFINE new == MatchAddAll(Unsynced(w), bm)
<1>1. DOMAIN new = (DOMAIN winMatches[w] \cap ForeignIds) \cup DOMAIN bm
  BY SyncResult
<1>2. DOMAIN bm \cap ForeignIds = {}
  BY IdAssumption DEF BufIds
<1> HIDE DEF new
<1>3. winMatches'[v] = IF v = w THEN new ELSE winMatches[v]
  BY DEF new
<1> QED  BY <1>1, <1>2, <1>3 DEF ForeignOf

\* One call of SyncWindow, from whatever command.
LEMMA SyncWindowKeepsForeign ==
    ASSUME WindowsTyped, NoLeakedMatches, NEW w \in Wins, NEW bm,
           DOMAIN bm \subseteq BufIds, bm \in [DOMAIN bm -> Match],
           SyncWindow(w, bm)
    PROVE  \A v \in Wins : ForeignOf(v)' = ForeignOf(v)
<1> SUFFICES ASSUME NEW v \in Wins PROVE ForeignOf(v)' = ForeignOf(v)
  OBVIOUS
<1>1. winMatches = [u \in Wins |-> winMatches[u]]
  BY DEF WindowsTyped, IsDicts
<1>2. winMatches'[v] = IF v = w THEN MatchAddAll(Unsynced(w), bm)
                                ELSE winMatches[v]
  BY <1>1 DEF SyncWindow
<1> QED  BY <1>2, SyncKeepsForeign

\* One call to HighlightItem, which synchronizes the current window or not.
LEMMA HighlightItemKeepsForeign ==
    ASSUME IInv, NEW i \in Items, NEW on \in BOOLEAN, HighlightItem(i, on)
    PROVE  \A v \in Wins : ForeignOf(v)' = ForeignOf(v)
<1>1. curBuf \in Bufs /\ curWin \in Wins /\ tw[curBuf] \in TextWidths
  BY DEF IInv, TypeOK, WindowsTyped, BuffersTyped, curBuf
<1>2. IsDicts(bufMatches, Bufs, BufIds, Match)'
  <2>1. (on /\ HighlightBufferEnabled(bufEnabled[curBuf])) \in BOOLEAN
    BY DEF HighlightBufferEnabled, IInv, TypeOK, BuffersTyped
  <2> QED  BY <1>1, <2>1, HighlightSyntaxMatchSafe DEF HighlightItem
<1>3. PICK now :
        /\ bufMatches' = [bufMatches EXCEPT ![curBuf] = now]
        /\ SyncWindow(curWin, now) \/ UNCHANGED <<winMatches, winIds>>
  BY Zenon DEF HighlightItem, HighlightSyntaxMatch
<1>4. bufMatches'[curBuf] = now
  BY <1>1, <1>3 DEF IInv, TypeOK, BuffersTyped, IsDicts
<1>5. DOMAIN now \subseteq BufIds /\ now \in [DOMAIN now -> Match]
  BY <1>1, <1>2, <1>4 DEF IsDicts
<1>6. CASE SyncWindow(curWin, now)
  BY <1>1, <1>5, <1>6, SyncWindowKeepsForeign DEF IInv, TypeOK
<1>7. CASE UNCHANGED winMatches
  BY <1>7 DEF ForeignOf
<1> QED  BY <1>3, <1>6, <1>7

\* A window that is closed loses all its matches, and no other window any of
\* the other scripts'.
LEMMA WindowCommandKeepsForeign ==
    ASSUME IInv, WindowCommand, NEW v \in Wins,
           winBuf[v] # Closed, winBuf'[v] # Closed
    PROVE  ForeignOf(v)' = ForeignOf(v)
<1>1. /\ WindowsTyped /\ NoLeakedMatches /\ curWin \in Wins /\ curBuf \in Bufs
      /\ winBuf \in [Wins -> Bufs \cup {Closed}]
      /\ winMatches = [u \in Wins |-> winMatches[u]]
  BY DEF IInv, TypeOK, WindowsTyped, IsDicts, curBuf
<1>2. PICK w \in Wins : Split(w) \/ Focus(w) \/ CloseCurrent(w) \/ CloseOther(w)
  BY DEF WindowCommand
<1>3. CASE Split(w)
  BY <1>1, <1>3, BufferDicts, SyncWindowKeepsForeign DEF Split
<1>4. CASE Focus(w)
  <2>1. winBuf[w] \in Bufs
    BY <1>1, <1>4 DEF Focus, Open
  <2> QED  BY <1>1, <1>4, <2>1, BufferDicts, SyncWindowKeepsForeign DEF Focus
<1>5. CASE CloseCurrent(w)
  <2> DEFINE bm  == bufMatches[winBuf[w]]
             new == MatchAddAll(Unsynced(w), bm)
  <2>1. winBuf[w] \in Bufs /\ w # curWin
    BY <1>1, <1>5 DEF CloseCurrent, Open
  <2>2. DOMAIN bm \subseteq BufIds /\ bm \in [DOMAIN bm -> Match]
    BY <2>1, BufferDicts
  <2>3. v # curWin
    BY <1>1, <1>5 DEF CloseCurrent
  <2>4. winMatches' = [winMatches EXCEPT ![curWin] = NoMap, ![w] = new]
    BY <1>5 DEF CloseCurrent
  <2> HIDE DEF new
  <2>5. winMatches'[v] = IF v = w THEN new ELSE winMatches[v]
    BY <1>1, <2>1, <2>3, <2>4
  <2> HIDE DEF bm
  <2>6. winMatches'[v] = IF v = w THEN MatchAddAll(Unsynced(w), bm)
                                  ELSE winMatches[v]
    BY <2>5 DEF new
  <2> QED  BY <1>1, <2>2, <2>6, SyncKeepsForeign
<1>6. CASE CloseOther(w)
  <2>1. v # w
    BY <1>1, <1>6 DEF CloseOther
  <2>2. winMatches'[v] = winMatches[v]
    BY <1>1, <1>6, <2>1 DEF CloseOther
  <2> QED  BY <2>2 DEF ForeignOf
<1> QED  BY <1>2, <1>3, <1>4, <1>5, <1>6

\* The action of ForeignKept.
KeptStep ==
    ~OtherScript => \A w \in Wins : winBuf[w] # Closed /\ winBuf'[w] # Closed
                                       => ForeignOf(w)' = ForeignOf(w)

\* No command of this code, however windows are split, entered and closed
\* between, disturbs the matches of other scripts in a window that stays open.
THEOREM ForeignAlwaysKept == Spec => ForeignKept
<1>1. IInv /\ [Next]_vars => [KeptStep]_vars
  <2> SUFFICES ASSUME IInv, Next, ~OtherScript PROVE KeptStep
    BY DEF KeptStep
  <2>1. CASE DoItem
    <3>1. Head(pending).item \in Items /\ Head(pending).on \in BOOLEAN
      BY <2>1, PendingTyped DEF DoItem, Running, IInv, TypeOK
    <3> QED
      BY <2>1, <3>1, HighlightItemKeepsForeign DEF DoItem, KeptStep
  <2>2. CASE DoKeep
    <3>1. /\ Head(pending).item \in Items
          /\ HighlightItemEnabled(Head(pending).item) \in BOOLEAN
      BY <2>2, PendingTyped
         DEF DoKeep, Running, IInv, TypeOK, HighlightItemEnabled
    <3> QED
      BY <2>2, <3>1, HighlightItemKeepsForeign DEF DoKeep, KeptStep
  <2>3. CASE DoBufWinEnter
    <3>1. WindowsTyped /\ NoLeakedMatches /\ curWin \in Wins /\ curBuf \in Bufs
      BY DEF IInv, TypeOK, WindowsTyped, curBuf
    <3>2. \A w \in Wins : ForeignOf(w)' = ForeignOf(w)
      BY <2>3, <3>1, BufferDicts, SyncWindowKeepsForeign DEF DoBufWinEnter
    <3> QED  BY <3>2 DEF KeptStep
  <2>4. CASE WindowCommand
    BY <2>4, WindowCommandKeepsForeign DEF KeptStep
  <2>5. CASE UNCHANGED winMatches
    BY <2>5 DEF KeptStep, ForeignOf
  <2>6. DoItem \/ DoKeep \/ DoBufWinEnter \/ WindowCommand \/ UNCHANGED winMatches
    BY DEF Next, Continue, DoAll, DoApply, DoEnable, DoSetTw, DeleteBuffer,
           HighlightCommand, HighlightOnOff, SyntaxEvent, SetTextwidth, Start,
           EditBuffer, display
  <2> QED  BY <2>1, <2>2, <2>3, <2>4, <2>5, <2>6
<1> QED  BY <1>1, Invariance, PTL DEF Spec, ForeignKept, KeptStep

-----------------------------------------------------------------------------
(***************************************************************************)
(* The current window is always up to date: CurrentWindowFresh.            *)
(***************************************************************************)
\* Item i of buffer b has the match its settings call for, or none.
Right(b, i) ==
    LET p == PatternFor(i, i \in configured[b] /\ HighlightBufferEnabled(bufEnabled[b]),
                        tw[b])
    IN  IF p # NoPattern
        THEN i \in DOMAIN groups[b] /\ bufMatches[b][groups[b][i]] = <<i, p>>
        ELSE i \notin DOMAIN groups[b]

\* Call c will bring item i up to date.
Covers(c, i) == \/ c.op \in {"all", "apply", "enable"}
                \/ c.op \in {"item", "keep"} /\ c.item = i

WillBeRight(calls, i) == \E n \in DOMAIN calls : Covers(calls[n], i)

\* The window displays the matches of buffer b.
InSync(w, b) ==
    /\ winIds[w] = DOMAIN bufMatches[b]
    /\ \A id \in DOMAIN bufMatches[b] : winMatches[w][id] = bufMatches[b][id]

WillBeInSync(calls) == \E n \in DOMAIN calls : calls[n].op = "sync"

\* A change of 'textwidth' is followed by a re-application of all items.
WidthsApplied(calls) ==
    \A n \in DOMAIN calls : calls[n].op = "tw" =>
        \E m \in DOMAIN calls : m > n /\ calls[m].op \in {"apply", "enable"}

\* The inductive invariant: buffers that are not current are right; of the
\* current one, whatever is not right yet will be by a call still pending.
OthersRight  == \A b \in Bufs \ {curBuf} : \A i \in Items : Right(b, i)
CurrentRight == \A i \in Items : Right(curBuf, i) \/ WillBeRight(pending, i)
CurrentSync  == InSync(curWin, curBuf) \/ WillBeInSync(pending)

FInv == IInv /\ OthersRight /\ CurrentRight /\ CurrentSync /\ WidthsApplied(pending)

-----------------------------------------------------------------------------
(***************************************************************************)
(* What is still to come after the first call, and after calls are put in  *)
(* front.                                                                  *)
(***************************************************************************)
LEMMA TailOccurs ==
    ASSUME NEW calls \in Seq(Call), calls # <<>>
    PROVE  /\ \A i : WillBeRight(calls, i) =>
                        Covers(Head(calls), i) \/ WillBeRight(Tail(calls), i)
           /\ WillBeInSync(calls) =>
                        Head(calls).op = "sync" \/ WillBeInSync(Tail(calls))
           /\ WidthsApplied(calls) => WidthsApplied(Tail(calls))
           /\ WidthsApplied(calls) /\ Head(calls).op = "tw" =>
                        \A i : WillBeRight(Tail(calls), i)
<1> DEFINE rest == Tail(calls)
<1>1. /\ Len(calls) \in Nat /\ Len(calls) >= 1
      /\ DOMAIN calls = 1 .. Len(calls)
      /\ rest \in Seq(Call) /\ Len(rest) = Len(calls) - 1
      /\ DOMAIN rest = 1 .. (Len(calls) - 1)
      /\ Head(calls) = calls[1]
      /\ \A n \in 1 .. (Len(calls) - 1) : rest[n] = calls[n + 1]
  BY HeadTailProperties, LenProperties, EmptySeq
<1> HIDE DEF rest
<1>2. \A n \in DOMAIN calls : n # 1 => n - 1 \in DOMAIN rest /\ rest[n - 1] = calls[n]
  BY <1>1
<1>3. ASSUME NEW i, WillBeRight(calls, i), ~Covers(Head(calls), i)
      PROVE  WillBeRight(rest, i)
  BY <1>1, <1>2, <1>3 DEF WillBeRight
<1>4. ASSUME WillBeInSync(calls), Head(calls).op # "sync"
      PROVE  WillBeInSync(rest)
  BY <1>1, <1>2, <1>4 DEF WillBeInSync
<1>5. ASSUME WidthsApplied(calls)
      PROVE  WidthsApplied(rest)
  <2>1. SUFFICES ASSUME NEW n \in DOMAIN rest, rest[n].op = "tw"
                 PROVE  \E m \in DOMAIN rest :
                            m > n /\ rest[m].op \in {"apply", "enable"}
    BY DEF WidthsApplied
  <2>2. n + 1 \in DOMAIN calls /\ calls[n + 1].op = "tw" /\ n \in Nat
    BY <1>1, <2>1
  <2>3. PICK m \in DOMAIN calls :
            m > n + 1 /\ calls[m].op \in {"apply", "enable"}
    BY <1>5, <2>2 DEF WidthsApplied
  <2>4. m - 1 \in DOMAIN rest /\ rest[m - 1] = calls[m] /\ m - 1 > n
    BY <1>1, <1>2, <2>2, <2>3
  <2> QED  BY <2>3, <2>4
<1>6. ASSUME WidthsApplied(calls), Head(calls).op = "tw", NEW i
      PROVE  WillBeRight(rest, i)
  <2>1. PICK m \in DOMAIN calls : m > 1 /\ calls[m].op \in {"apply", "enable"}
    BY <1>1, <1>6 DEF WidthsApplied
  <2>2. m - 1 \in DOMAIN rest /\ rest[m - 1] = calls[m]
    BY <1>1, <1>2, <2>1
  <2> QED  BY <2>1, <2>2 DEF WillBeRight, Covers
<1> QED  BY <1>3, <1>4, <1>5, <1>6 DEF rest

LEMMA ConcatOccurs ==
    ASSUME NEW s \in Seq(Call), NEW t \in Seq(Call)
    PROVE  /\ \A i : WillBeRight(s, i) \/ WillBeRight(t, i) => WillBeRight(s \o t, i)
           /\ WillBeInSync(t) => WillBeInSync(s \o t)
           /\ WidthsApplied(t) /\ (\A n \in DOMAIN s : s[n].op # "tw")
                => WidthsApplied(s \o t)
           /\ (/\ \E m \in DOMAIN t : t[m].op = "apply"
               /\ \A n \in DOMAIN t : t[n].op # "tw") => WidthsApplied(s \o t)
<1> DEFINE st == s \o t
<1>1. /\ Len(s) \in Nat /\ Len(t) \in Nat
      /\ DOMAIN s = 1 .. Len(s) /\ DOMAIN t = 1 .. Len(t)
      /\ DOMAIN st = 1 .. (Len(s) + Len(t))
      /\ \A n \in 1 .. (Len(s) + Len(t)) :
            st[n] = IF n <= Len(s) THEN s[n] ELSE t[n - Len(s)]
  BY ConcatProperties, LenProperties
<1> HIDE DEF st
<1>2. \A n \in DOMAIN s : n \in DOMAIN st /\ st[n] = s[n]
  BY <1>1
<1>3. \A n \in DOMAIN t : n + Len(s) \in DOMAIN st /\ st[n + Len(s)] = t[n]
  BY <1>1
<1>4. \A n \in DOMAIN st : n \notin DOMAIN s =>
            n - Len(s) \in DOMAIN t /\ st[n] = t[n - Len(s)]
  BY <1>1
<1>5. ASSUME NEW i, WillBeRight(s, i) \/ WillBeRight(t, i) PROVE WillBeRight(st, i)
  BY <1>2, <1>3, <1>5 DEF WillBeRight
<1>6. ASSUME WillBeInSync(t) PROVE WillBeInSync(st)
  BY <1>3, <1>6 DEF WillBeInSync
<1>7. ASSUME WidthsApplied(t), \A n \in DOMAIN s : s[n].op # "tw"
      PROVE  WidthsApplied(st)
  <2>1. SUFFICES ASSUME NEW n \in DOMAIN st, st[n].op = "tw"
                 PROVE  \E m \in DOMAIN st :
                            m > n /\ st[m].op \in {"apply", "enable"}
    BY DEF WidthsApplied
  <2>2. n - Len(s) \in DOMAIN t /\ t[n - Len(s)].op = "tw"
    BY <1>2, <1>4, <1>7, <2>1
  <2>3. PICK m \in DOMAIN t :
            m > n - Len(s) /\ t[m].op \in {"apply", "enable"}
    BY <1>7, <2>2 DEF WidthsApplied
  <2>4. m + Len(s) \in DOMAIN st /\ st[m + Len(s)] = t[m] /\ m + Len(s) > n
    BY <1>1, <1>3, <2>3
  <2> QED  BY <2>3, <2>4
<1>8. ASSUME NEW m \in DOMAIN t, t[m].op = "apply", \A n \in DOMAIN t : t[n].op # "tw"
      PROVE  WidthsApplied(st)
  <2>1. SUFFICES ASSUME NEW n \in DOMAIN st, st[n].op = "tw"
                 PROVE  \E k \in DOMAIN st :
                            k > n /\ st[k].op \in {"apply", "enable"}
    BY DEF WidthsApplied
  <2>2. n \in DOMAIN s
    BY <1>4, <1>8, <2>1
  <2>3. m + Len(s) \in DOMAIN st /\ st[m + Len(s)] = t[m] /\ m + Len(s) > n
    BY <1>1, <1>3, <2>2
  <2> QED  BY <1>8, <2>3
<1> QED  BY <1>5, <1>6, <1>7, <1>8 DEF st

(***************************************************************************)
(* HighlightSyntaxMatch gives the item its match and leaves every other    *)
(* item, every other buffer and the display of the current window right.   *)
(***************************************************************************)
LEMMA HighlightSyntaxMatchEffect ==
    ASSUME IInv, NEW i \in Items, NEW on \in BOOLEAN, NEW n \in TextWidths,
           HighlightSyntaxMatch(curBuf, i, PatternFor(i, on, n)),
           UNCHANGED curWin
    PROVE  LET b == curBuf
               p == PatternFor(i, on, n)
           IN  /\ IF p # NoPattern
                  THEN /\ i \in DOMAIN groups'[b]
                       /\ bufMatches'[b][groups'[b][i]] = <<i, p>>
                  ELSE i \notin DOMAIN groups'[b]
               /\ \A j \in Items \ {i} :
                    /\ j \in DOMAIN groups'[b] <=> j \in DOMAIN groups[b]
                    /\ j \in DOMAIN groups[b] =>
                         bufMatches'[b][groups'[b][j]] = bufMatches[b][groups[b][j]]
               /\ \A c \in Bufs \ {b} : /\ bufMatches'[c] = bufMatches[c]
                                        /\ groups'[c] = groups[c]
               /\ InSync(curWin, b) =>
                    /\ winIds'[curWin] = DOMAIN bufMatches'[b]
                    /\ \A id \in DOMAIN bufMatches'[b] :
                         winMatches'[curWin][id] = bufMatches'[b][id]
<1> DEFINE b       == curBuf
           pattern == PatternFor(i, on, n)
           rest    == Remaining(b, i)
           names   == Without(groups[b], i)
           id      == NextBufMatchId(rest)
           add     == pattern # NoPattern
           now     == IF add THEN With(rest, id, <<i, pattern>>) ELSE rest
           named   == IF add THEN With(names, i, id) ELSE names
<1>1. b \in Bufs /\ curWin \in Wins
  BY DEF IInv, TypeOK, WindowsTyped, curBuf
<1>a. BuffersTyped /\ GroupsOwnMatches
  BY DEF IInv, TypeOK
<1> HIDE DEF b
<1>2. /\ DOMAIN rest \subseteq DOMAIN bufMatches[b]
      /\ DOMAIN rest \subseteq BufIds /\ rest \in [DOMAIN rest -> Match]
      /\ DOMAIN names = DOMAIN groups[b] \ {i}
      /\ Vals(names) = DOMAIN rest
      /\ \A j \in DOMAIN names : /\ names[j] = groups[b][j]
                                 /\ rest[names[j]] = bufMatches[b][names[j]]
  BY <1>1, <1>a, RemainingResult, ZenonT(30)
<1> USE DEF b
<1>3. IsFiniteSet(DOMAIN rest)
  BY <1>1, <1>2, BufMatchesFinite, FS_Subset DEF IInv, TypeOK
<1>4. id \in BufIds /\ id \notin DOMAIN rest
  BY <1>3, NextBufMatchIdFree DEF BufIds
<1>5. add => <<i, pattern>> \in Match
  BY PatternTyped
<1>6. /\ bufMatches' = [bufMatches EXCEPT ![b] = now]
      /\ groups' = [groups EXCEPT ![b] = named]
      /\ IF add \/ DOMAIN rest # DOMAIN bufMatches[b]
           THEN SyncWindow(curWin, now)
           ELSE UNCHANGED <<winMatches, winIds>>
  BY DEF HighlightSyntaxMatch
<1>7. DOMAIN rest = DOMAIN bufMatches[b] => rest = bufMatches[b]
  <2>1. bufMatches[b] \in [DOMAIN bufMatches[b] -> Match]
    BY <1>1 DEF IInv, TypeOK, BuffersTyped, IsDicts
  <2>2. rest = [x \in DOMAIN rest |-> bufMatches[b][x]]
    <3>1. CASE i \in DOMAIN groups[b]
      <4>1. rest = Without(bufMatches[b], groups[b][i])
        BY <3>1 DEF Remaining
      <4> QED  BY <4>1 DEF Without
    <3>2. CASE i \notin DOMAIN groups[b]
      <4>1. rest = bufMatches[b]
        BY <3>2 DEF Remaining
      <4> QED  BY <2>1, <4>1
    <3> QED  BY <3>1, <3>2
  <2> QED  BY <2>1, <2>2
<1> HIDE DEF b, pattern, rest, names, id
<1>8. add => /\ now = [x \in DOMAIN rest \cup {id} |->
                         IF x = id THEN <<i, pattern>> ELSE rest[x]]
             /\ named = [j \in DOMAIN names \cup {i} |->
                           IF j = i THEN id ELSE names[j]]
  BY DEF With
<1>9. ~add => now = rest /\ named = names
  OBVIOUS
<1> HIDE DEF now, named
<1>10. IF add THEN i \in DOMAIN named /\ now[named[i]] = <<i, pattern>>
              ELSE i \notin DOMAIN named
  BY <1>2, <1>8, <1>9
<1>11. ASSUME NEW j \in Items \ {i}
       PROVE  /\ j \in DOMAIN named <=> j \in DOMAIN groups[b]
              /\ j \in DOMAIN groups[b] => now[named[j]] = bufMatches[b][groups[b][j]]
  <2>1. j \in DOMAIN named <=> j \in DOMAIN groups[b]
    BY <1>2, <1>8, <1>9
  <2>2. ASSUME j \in DOMAIN groups[b]
        PROVE  now[named[j]] = bufMatches[b][groups[b][j]]
    <3>1. j \in DOMAIN names /\ named[j] = names[j]
      BY <1>2, <1>8, <1>9, <2>2
    <3>2. names[j] \in DOMAIN rest /\ now[names[j]] = rest[names[j]]
      BY <1>2, <1>4, <1>8, <1>9, <3>1 DEF Vals
    <3> QED  BY <1>2, <3>1, <3>2
  <2> QED  BY <2>1, <2>2
<1>12. /\ bufMatches = [c \in Bufs |-> bufMatches[c]]
       /\ groups = [c \in Bufs |-> groups[c]]
  BY DEF IInv, TypeOK, BuffersTyped, IsDicts
<1>13. \A c \in Bufs : /\ bufMatches'[c] = IF c = b THEN now ELSE bufMatches[c]
                       /\ groups'[c] = IF c = b THEN named ELSE groups[c]
  BY <1>6, <1>12
<1>14. ASSUME InSync(curWin, b)
       PROVE  /\ winIds'[curWin] = DOMAIN now
              /\ \A k \in DOMAIN now : winMatches'[curWin][k] = now[k]
  <2>1. CASE add \/ DOMAIN rest # DOMAIN bufMatches[b]
    <3>1. SyncWindow(curWin, now)
      BY <1>6, <2>1
    <3>2. DOMAIN now \subseteq BufIds /\ now \in [DOMAIN now -> Match]
      BY <1>2, <1>4, <1>5, <1>8, <1>9
    <3> QED  BY <1>1, <3>1, <3>2, SyncWindowSafe DEF IInv, TypeOK
  <2>2. CASE ~add /\ DOMAIN rest = DOMAIN bufMatches[b]
    BY <1>6, <1>7, <1>9, <1>14, <2>2 DEF InSync
  <2> QED  BY <2>1, <2>2
<1>15. /\ bufMatches'[b] = now /\ groups'[b] = named
       /\ \A c \in Bufs \ {b} : bufMatches'[c] = bufMatches[c] /\ groups'[c] = groups[c]
  BY <1>1, <1>13
<1> QED  BY <1>10, <1>11, <1>14, <1>15 DEF b, pattern

(***************************************************************************)
(* A call to HighlightItem makes its item right and keeps the others so.   *)
(***************************************************************************)
LEMMA HighlightItemEffect ==
    ASSUME IInv, NEW i \in Items, NEW on \in BOOLEAN, HighlightItem(i, on)
    PROVE  /\ curBuf' = curBuf /\ curWin' = curWin /\ curBuf \in Bufs
           /\ Right(curBuf, i)'
           /\ \A j \in Items \ {i} : Right(curBuf, j) => Right(curBuf, j)'
           /\ \A c \in Bufs \ {curBuf} : \A j \in Items : Right(c, j) => Right(c, j)'
           /\ InSync(curWin, curBuf) => InSync(curWin, curBuf)'
<1> DEFINE b == curBuf
           shown == on /\ HighlightBufferEnabled(bufEnabled[b])
           p == PatternFor(i, shown, tw[b])
<1>1. b \in Bufs /\ tw[b] \in TextWidths /\ bufEnabled[b] \in {"unset", "on", "off"}
  BY DEF IInv, TypeOK, WindowsTyped, BuffersTyped, curBuf
<1>2. shown \in BOOLEAN
  BY DEF HighlightBufferEnabled
<1>3. UNCHANGED <<winBuf, curWin, bufEnabled, tw>>
  BY DEF HighlightItem
<1>4. b' = b
  BY <1>3 DEF curBuf
<1>5. HighlightSyntaxMatch(curBuf, i, p)
  BY DEF HighlightItem
<1> HIDE DEF shown
<1>6. /\ IF p # NoPattern
         THEN i \in DOMAIN groups'[b] /\ bufMatches'[b][groups'[b][i]] = <<i, p>>
         ELSE i \notin DOMAIN groups'[b]
      /\ \A j \in Items \ {i} :
           /\ j \in DOMAIN groups'[b] <=> j \in DOMAIN groups[b]
           /\ j \in DOMAIN groups[b] =>
                bufMatches'[b][groups'[b][j]] = bufMatches[b][groups[b][j]]
      /\ \A c \in Bufs \ {b} : /\ bufMatches'[c] = bufMatches[c]
                               /\ groups'[c] = groups[c]
      /\ InSync(curWin, b) =>
           /\ winIds'[curWin] = DOMAIN bufMatches'[b]
           /\ \A id \in DOMAIN bufMatches'[b] :
                winMatches'[curWin][id] = bufMatches'[b][id]
  BY <1>1, <1>2, <1>3, <1>5, HighlightSyntaxMatchEffect
<1> USE DEF shown
<1>7. /\ i \in configured'[b] <=> on
      /\ \A j \in Items \ {i} : j \in configured'[b] <=> j \in configured[b]
      /\ \A c \in Bufs \ {b} : configured'[c] = configured[c]
  BY <1>1 DEF HighlightItem, Remember, IInv, TypeOK, BuffersTyped
<1> HIDE DEF b
<1>8. Right(b, i)'
  <2>1. PatternFor(i, i \in configured'[b] /\ HighlightBufferEnabled(bufEnabled'[b]),
                   tw'[b]) = p
    <3>1. bufEnabled' = bufEnabled /\ tw' = tw
      BY <1>3
    <3>2. (i \in configured'[b] /\ HighlightBufferEnabled(bufEnabled[b])) = shown
      BY <1>7
    <3> QED  BY <3>1, <3>2
  <2> HIDE DEF p
  <2> QED  BY <1>4, <1>6, <2>1 DEF Right
<1>9. ASSUME NEW j \in Items \ {i}, Right(b, j) PROVE Right(b, j)'
  <2> DEFINE q == PatternFor(j, j \in configured[b] /\ HighlightBufferEnabled(bufEnabled[b]),
                             tw[b])
  <2>1. PatternFor(j, j \in configured'[b] /\ HighlightBufferEnabled(bufEnabled'[b]),
                   tw'[b]) = q
    <3>1. bufEnabled' = bufEnabled /\ tw' = tw
      BY <1>3
    <3>2. (j \in configured'[b]) = (j \in configured[b])
      BY <1>7
    <3> QED  BY <3>1, <3>2
  <2>2. IF q # NoPattern
        THEN j \in DOMAIN groups[b] /\ bufMatches[b][groups[b][j]] = <<j, q>>
        ELSE j \notin DOMAIN groups[b]
    BY <1>9 DEF Right
  <2> HIDE DEF q, p
  <2>3. IF q # NoPattern
        THEN j \in DOMAIN groups'[b] /\ bufMatches'[b][groups'[b][j]] = <<j, q>>
        ELSE j \notin DOMAIN groups'[b]
    BY <1>6, <2>2
  <2> QED  BY <1>4, <2>1, <2>3 DEF Right
<1>10. ASSUME NEW c \in Bufs \ {b}, NEW j \in Items, Right(c, j) PROVE Right(c, j)'
  <2>1. /\ bufMatches'[c] = bufMatches[c] /\ groups'[c] = groups[c]
        /\ configured'[c] = configured[c] /\ bufEnabled' = bufEnabled /\ tw' = tw
    BY <1>3, <1>6, <1>7
  <2> QED  BY <1>10, <2>1 DEF Right
<1>11. InSync(curWin, b) => InSync(curWin, b)'
  <2> HIDE DEF p
  <2> QED  BY <1>3, <1>4, <1>6 DEF InSync
<1> QED  BY <1>1, <1>3, <1>4, <1>8, <1>9, <1>10, <1>11 DEF b

\* A step that runs HighlightItem for the first pending call.
LEMMA ItemStepFresh ==
    ASSUME FInv, NEW i \in Items, NEW on \in BOOLEAN, HighlightItem(i, on),
           pending # <<>>, pending' = Tail(pending),
           Head(pending).op \in {"item", "keep"}, Head(pending).item = i
    PROVE  OthersRight' /\ CurrentRight' /\ CurrentSync' /\ WidthsApplied(pending)'
<1>1. /\ curBuf' = curBuf /\ curWin' = curWin /\ curBuf \in Bufs
      /\ Right(curBuf, i)'
      /\ \A j \in Items \ {i} : Right(curBuf, j) => Right(curBuf, j)'
      /\ \A c \in Bufs \ {curBuf} : \A j \in Items : Right(c, j) => Right(c, j)'
      /\ InSync(curWin, curBuf) => InSync(curWin, curBuf)'
  BY HighlightItemEffect DEF FInv
<1>2. pending \in Seq(Call)
  BY DEF FInv, IInv, TypeOK
<1>3. OthersRight'
  BY <1>1 DEF FInv, OthersRight
<1>4. CurrentRight'
  <2>1. SUFFICES ASSUME NEW j \in Items, j # i
                 PROVE  Right(curBuf, j)' \/ WillBeRight(pending', j)
    BY <1>1 DEF CurrentRight
  <2>2. CASE Right(curBuf, j)
    BY <1>1, <2>1, <2>2
  <2>3. CASE WillBeRight(pending, j)
    <3>1. ~Covers(Head(pending), j)
      BY <2>1 DEF Covers
    <3> QED  BY <1>2, <2>3, <3>1, TailOccurs
  <2> QED  BY <2>2, <2>3 DEF FInv, CurrentRight
<1>5. CurrentSync'
  <2>1. CASE InSync(curWin, curBuf)
    BY <1>1, <2>1 DEF CurrentSync
  <2>2. CASE WillBeInSync(pending)
    BY <1>2, <2>2, TailOccurs DEF CurrentSync
  <2> QED  BY <2>1, <2>2 DEF FInv, CurrentSync
<1>6. WidthsApplied(pending')
  BY <1>2, TailOccurs DEF FInv
<1> QED  BY <1>3, <1>4, <1>5, <1>6

\* A step that changes neither settings nor display leaves every item as it is.
LEMMA UnchangedRight ==
    ASSUME UNCHANGED <<display, config>>
    PROVE  /\ curBuf' = curBuf /\ curWin' = curWin
           /\ \A b, i : Right(b, i)' = Right(b, i)
           /\ \A w, b : InSync(w, b)' = InSync(w, b)
BY DEF display, config, curBuf, Right, InSync

\* The loops of HighlightApply and of the argument * reach every item.
LEMMA LoopCovers ==
    ASSUME NEW on \in BOOLEAN
    PROVE  LET items == [n \in DOMAIN HighlightItems |-> Item(HighlightItems[n], on)]
               keeps == [n \in DOMAIN HighlightItems |-> Keep(HighlightItems[n])]
           IN  /\ items \in Seq(Call) /\ keeps \in Seq(Call)
               /\ \A i \in Items : WillBeRight(items, i) /\ WillBeRight(keeps, i)
               /\ \A n \in DOMAIN items : items[n].op # "tw"
               /\ \A n \in DOMAIN keeps : keeps[n].op # "tw"
<1> DEFINE items == [n \in DOMAIN HighlightItems |-> Item(HighlightItems[n], on)]
           keeps == [n \in DOMAIN HighlightItems |-> Keep(HighlightItems[n])]
<1>1. items \o <<>> \in Seq(Call) /\ keeps \o <<>> \in Seq(Call)
  BY LoopTyped, EmptySeq
<1>2. /\ HighlightItems \in [1 .. Len(HighlightItems) -> Items]
      /\ Len(HighlightItems) \in Nat
  BY CommandAssumption, LenProperties
<1>3. \A i \in Items : Item(i, on) \in Call /\ Keep(i) \in Call
  BY DEF Item, Keep, Call, Arg
<1>4. items \in Seq(Call) /\ keeps \in Seq(Call)
  <2>1. /\ items \in [1 .. Len(HighlightItems) -> Call]
        /\ keeps \in [1 .. Len(HighlightItems) -> Call]
    BY <1>2, <1>3
  <2> QED  BY <1>2, <2>1, SeqDef
<1>5. ASSUME NEW i \in Items PROVE WillBeRight(items, i) /\ WillBeRight(keeps, i)
  <2>1. PICK n \in DOMAIN HighlightItems : HighlightItems[n] = i
    BY DEF Items
  <2>2. items[n] = Item(i, on) /\ keeps[n] = Keep(i)
    BY <2>1
  <2>3. Covers(items[n], i) /\ Covers(keeps[n], i)
    BY <2>2 DEF Covers, Item, Keep
  <2> QED  BY <2>1, <2>3 DEF WillBeRight
<1>6. /\ \A n \in DOMAIN items : items[n].op # "tw"
      /\ \A n \in DOMAIN keeps : keeps[n].op # "tw"
  BY DEF Item, Keep
<1> QED  BY <1>4, <1>5, <1>6

\* A loop replaces its call: everything is covered again.
LEMMA ExpandFresh ==
    ASSUME FInv, pending # <<>>, Head(pending).op # "sync",
           NEW front \in Seq(Call), pending' = front \o Tail(pending),
           \A i \in Items : WillBeRight(front, i),
           \A n \in DOMAIN front : front[n].op # "tw"
    PROVE  /\ \A i \in Items : WillBeRight(pending', i)
           /\ WillBeInSync(pending) => WillBeInSync(pending')
           /\ WidthsApplied(pending')
<1>1. pending \in Seq(Call) /\ Tail(pending) \in Seq(Call)
  BY HeadTailProperties DEF FInv, IInv, TypeOK
<1>2. WidthsApplied(Tail(pending))
  BY <1>1, TailOccurs DEF FInv
<1>3. WillBeInSync(pending) => WillBeInSync(Tail(pending))
  BY <1>1, TailOccurs
<1> QED  BY <1>1, <1>2, <1>3, ConcatOccurs

LEMMA ContinueFresh ==
    ASSUME FInv, Continue
    PROVE  OthersRight' /\ CurrentRight' /\ CurrentSync' /\ WidthsApplied(pending)'
<1>1. pending \in Seq(Call)
  BY DEF FInv, IInv, TypeOK
<1>2. CASE DoItem
  <2>1. /\ Running("item") /\ pending # <<>> /\ pending' = Tail(pending)
        /\ HighlightItem(Head(pending).item, Head(pending).on)
        /\ Head(pending).op = "item"
    BY <1>2 DEF DoItem, Running, Done
  <2>2. Head(pending).item \in Items /\ Head(pending).on \in BOOLEAN
    BY <1>1, <2>1, PendingTyped
  <2> QED  BY <2>1, <2>2, ItemStepFresh
<1>3. CASE DoKeep
  <2>1. /\ Running("keep") /\ pending # <<>> /\ pending' = Tail(pending)
        /\ HighlightItem(Head(pending).item, HighlightItemEnabled(Head(pending).item))
        /\ Head(pending).op = "keep"
    BY <1>3 DEF DoKeep, Running, Done
  <2>2. /\ Head(pending).item \in Items
        /\ HighlightItemEnabled(Head(pending).item) \in BOOLEAN
    BY <1>1, <2>1, PendingTyped DEF HighlightItemEnabled
  <2> QED  BY <2>1, <2>2, ItemStepFresh
<1>4. CASE DoAll
  <2> DEFINE front == [n \in DOMAIN HighlightItems |->
                          Item(HighlightItems[n], Head(pending).on)]
  <2>1. /\ pending # <<>> /\ Running("all") /\ Head(pending).op # "sync"
        /\ pending' = front \o Tail(pending) /\ UNCHANGED <<display, config>>
    BY <1>4 DEF DoAll, Running
  <2>2. Head(pending).on \in BOOLEAN
    BY <1>1, <2>1, PendingTyped
  <2>3. /\ front \in Seq(Call) /\ \A i \in Items : WillBeRight(front, i)
        /\ \A n \in DOMAIN front : front[n].op # "tw"
    BY <2>2, LoopCovers
  <2> HIDE DEF front
  <2>4. /\ \A i \in Items : WillBeRight(pending', i)
        /\ WillBeInSync(pending) => WillBeInSync(pending')
        /\ WidthsApplied(pending')
    BY <2>1, <2>3, ExpandFresh
  <2> QED  BY <2>1, <2>4, UnchangedRight
           DEF FInv, OthersRight, CurrentRight, CurrentSync
<1>5. CASE DoApply
  <2> DEFINE front == [n \in DOMAIN HighlightItems |-> Keep(HighlightItems[n])]
  <2>1. /\ pending # <<>> /\ Head(pending).op # "sync"
        /\ pending' = front \o Tail(pending) /\ UNCHANGED <<display, config>>
    BY <1>5 DEF DoApply, Running
  <2>2. /\ front \in Seq(Call) /\ \A i \in Items : WillBeRight(front, i)
        /\ \A n \in DOMAIN front : front[n].op # "tw"
    BY LoopCovers
  <2> HIDE DEF front
  <2>3. /\ \A i \in Items : WillBeRight(pending', i)
        /\ WillBeInSync(pending) => WillBeInSync(pending')
        /\ WidthsApplied(pending')
    BY <2>1, <2>2, ExpandFresh
  <2> QED  BY <2>1, <2>3, UnchangedRight
           DEF FInv, OthersRight, CurrentRight, CurrentSync
<1>6. CASE DoEnable
  <2>1. /\ pending # <<>> /\ Head(pending).op # "sync"
        /\ pending' = <<Apply>> \o Tail(pending)
        /\ UNCHANGED <<display, groups, configured, tw>>
        /\ \A c \in Bufs \ {curBuf} : bufEnabled'[c] = bufEnabled[c]
    BY <1>6 DEF DoEnable, Running, FInv, IInv, TypeOK, BuffersTyped
  <2>2. /\ <<Apply>> \in Seq(Call) /\ \A i \in Items : WillBeRight(<<Apply>>, i)
        /\ \A n \in DOMAIN <<Apply>> : <<Apply>>[n].op # "tw"
    <3>1. <<Apply>>[1] = Apply /\ DOMAIN <<Apply>> = {1}
      OBVIOUS
    <3> HIDE DEF Apply
    <3>2. Apply.op = "apply"
      BY DEF Apply
    <3> QED  BY <3>1, <3>2, CommandsTyped DEF WillBeRight, Covers
  <2>3. /\ \A i \in Items : WillBeRight(pending', i)
        /\ WillBeInSync(pending) => WillBeInSync(pending')
        /\ WidthsApplied(pending')
    BY <2>1, <2>2, ExpandFresh
  <2>4. /\ curBuf' = curBuf /\ curWin' = curWin
        /\ InSync(curWin, curBuf)' = InSync(curWin, curBuf)
        /\ \A c \in Bufs \ {curBuf} : \A i : Right(c, i)' = Right(c, i)
    BY <2>1 DEF display, curBuf, Right, InSync
  <2> QED  BY <2>1, <2>3, <2>4 DEF FInv, OthersRight, CurrentRight, CurrentSync
<1>7. CASE DoSetTw
  <2>1. /\ pending # <<>> /\ Head(pending).op = "tw" /\ pending' = Tail(pending)
        /\ UNCHANGED <<display, groups, configured, bufEnabled>>
        /\ \A c \in Bufs \ {curBuf} : tw'[c] = tw[c]
    BY <1>7 DEF DoSetTw, Running, Done, FInv, IInv, TypeOK, BuffersTyped
  <2>2. /\ \A i \in Items : WillBeRight(pending', i)
        /\ WillBeInSync(pending) => WillBeInSync(pending')
        /\ WidthsApplied(pending')
    BY <1>1, <2>1, TailOccurs DEF FInv
  <2>3. /\ curBuf' = curBuf /\ curWin' = curWin
        /\ InSync(curWin, curBuf)' = InSync(curWin, curBuf)
        /\ \A c \in Bufs \ {curBuf} : \A i : Right(c, i)' = Right(c, i)
    BY <2>1 DEF display, curBuf, Right, InSync
  <2> QED  BY <2>2, <2>3 DEF FInv, OthersRight, CurrentRight, CurrentSync
<1>8. CASE DoBufWinEnter
  <2>1. /\ pending # <<>> /\ Head(pending).op = "sync" /\ pending' = Tail(pending)
        /\ SyncWindow(curWin, bufMatches[curBuf])
        /\ UNCHANGED <<winBuf, curWin, bufMatches, config>>
    BY <1>8 DEF DoBufWinEnter, Running, Done
  <2>2. curWin \in Wins /\ curBuf \in Bufs /\ curBuf' = curBuf
    BY <2>1 DEF FInv, IInv, TypeOK, WindowsTyped, curBuf
  <2>3. InSync(curWin, curBuf)'
    <3>1. /\ winIds'[curWin] = DOMAIN bufMatches[curBuf]
          /\ \A id \in DOMAIN bufMatches[curBuf] :
                winMatches'[curWin][id] = bufMatches[curBuf][id]
      BY <2>1, <2>2, BufferDicts, SyncWindowSafe DEF FInv, IInv, TypeOK
    <3> QED  BY <2>1, <2>2, <3>1 DEF InSync
  <2>4. \A c, i : Right(c, i)' = Right(c, i)
    BY <2>1 DEF config, Right
  <2>5. ASSUME NEW i \in Items PROVE Right(curBuf, i) \/ WillBeRight(pending', i)
    <3>1. ~Covers(Head(pending), i)
      BY <2>1 DEF Covers
    <3> QED  BY <1>1, <2>1, <3>1, TailOccurs DEF FInv, CurrentRight
  <2>6. WidthsApplied(pending')
    BY <1>1, <2>1, TailOccurs DEF FInv
  <2> QED  BY <2>1, <2>2, <2>3, <2>4, <2>5, <2>6
           DEF FInv, OthersRight, CurrentRight, CurrentSync
<1> QED  BY <1>2, <1>3, <1>4, <1>5, <1>6, <1>7, <1>8 DEF Continue

-----------------------------------------------------------------------------
\* Between two commands everything is right.
LEMMA IdleFresh ==
    ASSUME FInv, Idle
    PROVE  /\ \A b \in Bufs : \A i \in Items : Right(b, i)
           /\ InSync(curWin, curBuf)
<1>1. \A i : ~WillBeRight(pending, i)
  BY DEF Idle, WillBeRight
<1>2. ~WillBeInSync(pending)
  BY DEF Idle, WillBeInSync
<1> QED  BY <1>1, <1>2 DEF FInv, OthersRight, CurrentRight, CurrentSync

LEMMA StartFresh ==
    ASSUME FInv, NEW calls, WidthsApplied(calls), Start(calls)
    PROVE  OthersRight' /\ CurrentRight' /\ CurrentSync' /\ WidthsApplied(pending)'
<1>1. Idle /\ pending' = calls /\ UNCHANGED <<display, config>>
  BY DEF Start
<1>2. /\ \A b \in Bufs : \A i \in Items : Right(b, i)'
      /\ InSync(curWin, curBuf)'
  BY <1>1, IdleFresh, UnchangedRight
<1>3. curBuf' \in Bufs
  BY <1>1, UnchangedRight DEF FInv, IInv, TypeOK, WindowsTyped, curBuf
<1> QED  BY <1>1, <1>2, <1>3 DEF OthersRight, CurrentRight, CurrentSync

\* No command changes 'textwidth' without applying the items again.
LEMMA CommandsApplyWidths ==
    /\ \A args \in Commands : WidthsApplied(args)
    /\ \A on \in BOOLEAN : WidthsApplied(<<Enable(on)>>)
    /\ WidthsApplied(<<Apply>>)
    /\ \A n \in TextWidths : WidthsApplied(<<SetTw(n), Apply>>)
    /\ WidthsApplied(<<BufWinEnter>>)
<1>1. ASSUME NEW args \in Commands PROVE WidthsApplied(args)
  <2>1. args \in Seq(Arg)
    BY CommandAssumption
  <2>2. \A n \in DOMAIN args : args[n] \in Arg
    BY <2>1, LenProperties, ElementOfSeq
  <2>3. \A c \in Arg : c.op # "tw"
    BY DEF Arg
  <2> QED  BY <2>2, <2>3 DEF WidthsApplied
<1>2. ASSUME NEW c, c.op # "tw" PROVE WidthsApplied(<<c>>)
  BY <1>2 DEF WidthsApplied
<1>3. \A on \in BOOLEAN : Enable(on).op # "tw"
  BY DEF Enable
<1>4. Apply.op # "tw" /\ BufWinEnter.op # "tw" /\ Apply.op = "apply"
  BY DEF Apply, BufWinEnter
<1>5. ASSUME NEW n \in TextWidths PROVE WidthsApplied(<<SetTw(n), Apply>>)
  <2> DEFINE calls == <<SetTw(n), Apply>>
  <2>1. DOMAIN calls = 1 .. 2 /\ calls[2] = Apply
    OBVIOUS
  <2> HIDE DEF calls
  <2>2. calls[2].op = "apply"
    BY <1>4, <2>1
  <2>3. ASSUME NEW k \in DOMAIN calls, calls[k].op = "tw"
        PROVE  2 \in DOMAIN calls /\ 2 > k
    BY <2>1, <2>2, <2>3
  <2> QED  BY <2>2, <2>3 DEF WidthsApplied, calls
<1> QED  BY <1>1, <1>2, <1>3, <1>4, <1>5

\* A window that turns to another buffer: the setup of the file type and then
\* the Syntax and BufWinEnter events bring the buffer and the window up to date.
LEMMA EditBufferFresh ==
    ASSUME FInv, NEW b \in Bufs, NEW setup \in Setups, EditBuffer(b, setup)
    PROVE  OthersRight' /\ CurrentRight' /\ CurrentSync' /\ WidthsApplied(pending)'
<1>1. Idle /\ curWin \in Wins /\ curBuf' = b
  BY DEF EditBuffer, FInv, IInv, TypeOK, WindowsTyped, curBuf
<1>2. \A c \in Bufs : \A i \in Items : Right(c, i)'
  <2>1. \A c \in Bufs : \A i \in Items : Right(c, i)
    BY <1>1, IdleFresh
  <2>2. \A c, i : Right(c, i)' = Right(c, i)
    BY DEF EditBuffer, config, Right
  <2> QED  BY <2>1, <2>2
<1>3. WillBeInSync(pending') /\ WidthsApplied(pending')
  <2>1. CASE setup = <<>>
    <3>1. pending' = <<BufWinEnter>>
      BY <2>1 DEF EditBuffer
    <3>2. WillBeInSync(<<BufWinEnter>>)
      BY DEF WillBeInSync, BufWinEnter
    <3> QED  BY <3>1, <3>2, CommandsApplyWidths
  <2>2. CASE setup # <<>>
    <3> DEFINE last == <<Apply, BufWinEnter>>
    <3>1. pending' = setup \o last
      BY <2>2 DEF EditBuffer
    <3>2. setup \in Seq(Call) /\ last \in Seq(Call)
      BY CommandAssumption, CommandsTyped
    <3>3. DOMAIN last = 1 .. 2 /\ last[1] = Apply /\ last[2] = BufWinEnter
      OBVIOUS
    <3> HIDE DEF last
    <3>4. Apply.op = "apply" /\ BufWinEnter.op = "sync"
      BY DEF Apply, BufWinEnter
    <3>5. /\ WillBeInSync(last)
          /\ \E m \in DOMAIN last : last[m].op = "apply"
          /\ \A n \in DOMAIN last : last[n].op # "tw"
      BY <3>3, <3>4 DEF WillBeInSync
    <3> QED  BY <3>1, <3>2, <3>5, ConcatOccurs
  <2> QED  BY <2>1, <2>2
<1> QED  BY <1>1, <1>2, <1>3 DEF OthersRight, CurrentRight, CurrentSync

\* A forgotten buffer has no items and no matches.
LEMMA DeleteBufferFresh ==
    ASSUME FInv, NEW b \in Bufs, DeleteBuffer(b)
    PROVE  OthersRight' /\ CurrentRight' /\ CurrentSync' /\ WidthsApplied(pending)'
<1>1. /\ Idle /\ pending' = <<>> /\ curWin \in Wins /\ curBuf \in Bufs \ {b}
      /\ UNCHANGED <<winBuf, curWin, winMatches, winIds>>
      /\ curBuf' = curBuf /\ curWin' = curWin
  BY DEF DeleteBuffer, Idle, FInv, IInv, TypeOK, WindowsTyped, curBuf
<1>2. \A c \in Bufs \ {b} :
        /\ bufMatches'[c] = bufMatches[c] /\ groups'[c] = groups[c]
        /\ configured'[c] = configured[c] /\ bufEnabled'[c] = bufEnabled[c]
        /\ tw'[c] = tw[c]
  BY DEF DeleteBuffer, FInv, IInv, TypeOK, BuffersTyped, IsDicts
<1>3. configured'[b] = {} /\ groups'[b] = NoMap
  BY DEF DeleteBuffer, FInv, IInv, TypeOK, BuffersTyped, IsDicts
<1>4. \A c \in Bufs \ {b} : \A i \in Items : Right(c, i)'
  <2>1. \A c \in Bufs : \A i \in Items : Right(c, i)
    BY <1>1, IdleFresh
  <2> QED  BY <1>2, <2>1 DEF Right
<1>5. \A i \in Items : Right(b, i)'
  <2>1. SUFFICES ASSUME NEW i \in Items PROVE Right(b, i)'
    OBVIOUS
  <2>2. i \notin DOMAIN groups'[b]
    BY <1>3 DEF NoMap
  <2>3. PatternFor(i, i \in configured'[b] /\ HighlightBufferEnabled(bufEnabled'[b]),
                   tw'[b]) = NoPattern
    <3>1. (i \in configured'[b] /\ HighlightBufferEnabled(bufEnabled'[b])) = FALSE
      BY <1>3
    <3> QED  BY <3>1 DEF PatternFor
  <2> QED  BY <2>2, <2>3 DEF Right
<1>6. InSync(curWin, curBuf)'
  <2>1. InSync(curWin, curBuf)
    BY <1>1, IdleFresh
  <2> QED  BY <1>1, <1>2, <2>1 DEF InSync
<1>7. WidthsApplied(pending')
  BY <1>1 DEF WidthsApplied
<1> QED  BY <1>1, <1>4, <1>5, <1>6, <1>7 DEF OthersRight, CurrentRight, CurrentSync

\* The window that becomes current is synchronized, and a window that stays
\* current is not touched.
LEMMA WindowCommandFresh ==
    ASSUME FInv, WindowCommand
    PROVE  OthersRight' /\ CurrentRight' /\ CurrentSync' /\ WidthsApplied(pending)'
<1>1. /\ IInv /\ TypeOK /\ WindowsTyped /\ NoLeakedMatches
      /\ curWin \in Wins /\ curBuf \in Bufs
      /\ winBuf \in [Wins -> Bufs \cup {Closed}]
  BY DEF FInv, IInv, TypeOK, WindowsTyped, curBuf
<1>2. /\ Idle /\ pending' = <<>> /\ UNCHANGED <<bufMatches, config>>
  BY DEF WindowCommand, Idle, Split, Focus, CloseCurrent, CloseOther
<1>3. \A c \in Bufs : \A i \in Items : Right(c, i)'
  <2>1. \A c \in Bufs : \A i \in Items : Right(c, i)
    BY <1>2, IdleFresh
  <2>2. \A c, i : Right(c, i)' = Right(c, i)
    BY <1>2 DEF config, Right
  <2> QED  BY <2>1, <2>2
<1>4. InSync(curWin, curBuf)
  BY <1>2, IdleFresh
<1>5. PICK w \in Wins : Split(w) \/ Focus(w) \/ CloseCurrent(w) \/ CloseOther(w)
  BY DEF WindowCommand
<1>6. InSync(curWin, curBuf)' /\ curBuf' \in Bufs
  <2>1. CASE Split(w)
    <3>1. curWin' = w /\ curBuf' = curBuf /\ SyncWindow(w, bufMatches[curBuf])
      BY <1>1, <2>1 DEF Split, curBuf
    <3>2. /\ winIds'[w] = DOMAIN bufMatches[curBuf]
          /\ \A id \in DOMAIN bufMatches[curBuf] :
                winMatches'[w][id] = bufMatches[curBuf][id]
      BY <1>1, <3>1, BufferDicts, SyncWindowSafe
    <3> QED  BY <1>1, <1>2, <3>1, <3>2 DEF InSync
  <2>2. CASE Focus(w)
    <3> DEFINE b == winBuf[w]
    <3>1. b \in Bufs /\ curWin' = w /\ curBuf' = b /\ SyncWindow(w, bufMatches[b])
      BY <1>1, <2>2 DEF Focus, Open, curBuf
    <3> HIDE DEF b
    <3>2. /\ winIds'[w] = DOMAIN bufMatches[b]
          /\ \A id \in DOMAIN bufMatches[b] : winMatches'[w][id] = bufMatches[b][id]
      BY <1>1, <3>1, BufferDicts, SyncWindowSafe
    <3> QED  BY <1>2, <3>1, <3>2 DEF InSync
  <2>3. CASE CloseCurrent(w)
    <3> DEFINE b  == winBuf[w]
               bm == bufMatches[b]
               new == MatchAddAll(Unsynced(w), bm)
    <3>1. b \in Bufs /\ w # curWin /\ curWin' = w
      BY <1>1, <2>3 DEF CloseCurrent, Open
    <3>2. curBuf' = b
      BY <1>1, <2>3, <3>1 DEF CloseCurrent, curBuf
    <3>a. DOMAIN bm \subseteq BufIds /\ bm \in [DOMAIN bm -> Match]
      BY <1>1, <3>1, BufferDicts
    <3> HIDE DEF bm
    <3>3. NewIds(DOMAIN Unsynced(w), bm) = DOMAIN bm /\ \A id \in DOMAIN bm : new[id] = bm[id]
      BY <1>1, <3>a, SyncResult
    <3> USE DEF bm
    <3>4. /\ winMatches' = [winMatches EXCEPT ![curWin] = NoMap, ![w] = new]
          /\ winIds' = [winIds EXCEPT ![curWin] = {}, ![w] = DOMAIN bm]
      BY <2>3, <3>3 DEF CloseCurrent
    <3>5. winMatches = [v \in Wins |-> winMatches[v]] /\ winIds \in [Wins -> SUBSET BufIds]
      BY <1>1 DEF WindowsTyped, IsDicts
    <3> HIDE DEF new
    <3>6. winMatches'[w] = new /\ winIds'[w] = DOMAIN bm
      BY <3>4, <3>5
    <3>7. bufMatches'[b] = bm
      BY <1>2
    <3> HIDE DEF bm, b
    <3> QED  BY <3>1, <3>2, <3>3, <3>6, <3>7 DEF InSync
  <2>4. CASE CloseOther(w)
    <3>1. /\ w # curWin /\ curWin' = curWin
          /\ winBuf' = [winBuf EXCEPT ![w] = Closed]
          /\ winMatches' = [winMatches EXCEPT ![w] = NoMap]
          /\ winIds' = [winIds EXCEPT ![w] = {}]
      BY <2>4 DEF CloseOther
    <3>2. curBuf' = curBuf
      BY <1>1, <3>1 DEF curBuf
    <3>3. winMatches'[curWin] = winMatches[curWin] /\ winIds'[curWin] = winIds[curWin]
      BY <1>1, <3>1 DEF WindowsTyped, IsDicts
    <3> QED  BY <1>1, <1>2, <1>4, <3>1, <3>2, <3>3 DEF InSync
  <2> QED  BY <1>5, <2>1, <2>2, <2>3, <2>4
<1>7. WidthsApplied(pending')
  BY <1>2 DEF WidthsApplied
<1> QED  BY <1>3, <1>6, <1>7 DEF OthersRight, CurrentRight, CurrentSync

\* The ids of other scripts are never a buffer's.
LEMMA OtherScriptFresh ==
    ASSUME FInv, OtherScript
    PROVE  OthersRight' /\ CurrentRight' /\ CurrentSync' /\ WidthsApplied(pending)'
<1>1. PICK w \in Wins, id \in ForeignIds : ForeignAdd(w, id) \/ ForeignDelete(w, id)
  BY DEF OtherScript
<1>2. /\ UNCHANGED <<winBuf, curWin, winIds, bufMatches, config>>
      /\ Idle /\ pending' = <<>> /\ curBuf' = curBuf
      /\ curWin \in Wins /\ curBuf \in Bufs
  BY <1>1 DEF OtherScript, Idle, ForeignAdd, ForeignDelete, curBuf, FInv, IInv, TypeOK,
              WindowsTyped
<1>3. /\ \A c \in Bufs : \A i \in Items : Right(c, i)
      /\ InSync(curWin, curBuf)
  BY <1>2, IdleFresh
<1>4. \A c, i : Right(c, i)' = Right(c, i)
  BY <1>2 DEF config, Right
<1>5. \A k \in DOMAIN bufMatches[curBuf] : k # id
  BY <1>2, BufferDicts, IdAssumption DEF FInv, BufIds
<1>6. ASSUME NEW k \in DOMAIN bufMatches[curBuf]
      PROVE  winMatches'[curWin][k] = winMatches[curWin][k]
  <2>1. k # id /\ k \in DOMAIN winMatches[curWin]
    BY <1>2, <1>3, <1>5 DEF InSync, FInv, IInv, NoLeakedMatches
  <2>2. winMatches = [v \in Wins |-> winMatches[v]]
    BY DEF FInv, IInv, TypeOK, WindowsTyped, IsDicts
  <2>3. winMatches'[curWin] \in {winMatches[curWin],
                                  With(winMatches[curWin], id, ForeignMatch),
                                  Without(winMatches[curWin], id)}
    BY <1>1, <1>2, <2>2 DEF ForeignAdd, ForeignDelete
  <2>4. /\ With(winMatches[curWin], id, ForeignMatch)[k] = winMatches[curWin][k]
        /\ Without(winMatches[curWin], id)[k] = winMatches[curWin][k]
    BY <2>1 DEF With, Without
  <2> QED  BY <2>3, <2>4
<1>7. InSync(curWin, curBuf)'
  BY <1>2, <1>3, <1>6 DEF InSync
<1>8. WidthsApplied(pending')
  BY <1>2 DEF WidthsApplied
<1> QED  BY <1>2, <1>3, <1>4, <1>7, <1>8 DEF OthersRight, CurrentRight, CurrentSync

-----------------------------------------------------------------------------
LEMMA InitFresh == Init => FInv
<1> SUFFICES ASSUME Init PROVE FInv
  OBVIOUS
<1>1. IInv
  BY InitSafe
<1>2. curBuf \in Bufs /\ curWin \in Wins
  BY <1>1 DEF IInv, TypeOK, WindowsTyped, curBuf
<1>3. DOMAIN NoMap = {}
  BY DEF NoMap
<1>4. ASSUME NEW b \in Bufs, NEW i \in Items PROVE Right(b, i)
  <2>1. configured[b] = {} /\ i \notin DOMAIN groups[b]
    BY <1>3 DEF Init
  <2>2. PatternFor(i, i \in configured[b] /\ HighlightBufferEnabled(bufEnabled[b]), tw[b])
          = NoPattern
    <3>1. (i \in configured[b] /\ HighlightBufferEnabled(bufEnabled[b])) = FALSE
      BY <2>1
    <3> QED  BY <3>1 DEF PatternFor
  <2> QED  BY <2>1, <2>2 DEF Right
<1>5. InSync(curWin, curBuf)
  BY <1>2, <1>3 DEF Init, InSync
<1>6. WidthsApplied(pending)
  BY DEF Init, WidthsApplied
<1> QED  BY <1>1, <1>2, <1>4, <1>5, <1>6 DEF FInv, OthersRight, CurrentRight, CurrentSync

LEMMA NextFresh ==
    ASSUME FInv, [Next]_vars
    PROVE  FInv'
<1>1. IInv'
  BY NextSafe DEF FInv
<1> SUFFICES OthersRight' /\ CurrentRight' /\ CurrentSync' /\ WidthsApplied(pending)'
  BY <1>1 DEF FInv
<1>2. CASE Continue
  BY <1>2, ContinueFresh
<1>3. CASE HighlightCommand
  BY <1>3, CommandsApplyWidths, StartFresh DEF HighlightCommand
<1>4. CASE HighlightOnOff
  BY <1>4, CommandsApplyWidths, StartFresh DEF HighlightOnOff
<1>5. CASE SyntaxEvent
  BY <1>5, CommandsApplyWidths, StartFresh DEF SyntaxEvent
<1>6. CASE SetTextwidth
  BY <1>6, CommandsApplyWidths, StartFresh DEF SetTextwidth
<1>7. CASE \E b \in Bufs, setup \in Setups : EditBuffer(b, setup)
  BY <1>7, EditBufferFresh
<1>8. CASE \E b \in Bufs : DeleteBuffer(b)
  BY <1>8, DeleteBufferFresh
<1>9. CASE WindowCommand
  BY <1>9, WindowCommandFresh
<1>10. CASE OtherScript
  BY <1>10, OtherScriptFresh
<1>11. CASE UNCHANGED vars
  <2>1. UNCHANGED <<display, config>> /\ pending' = pending
    BY <1>11 DEF vars
  <2> QED  BY <2>1, UnchangedRight DEF FInv, OthersRight, CurrentRight, CurrentSync
<1> QED  BY <1>2, <1>3, <1>4, <1>5, <1>6, <1>7, <1>8, <1>9, <1>10, <1>11 DEF Next

\* The matches of a buffer that is right are those it asks for, one per item.
LEMMA RightMatches ==
    ASSUME BuffersTyped, GroupsOwnMatches, NEW b \in Bufs,
           \A i \in Items : Right(b, i)
    PROVE  /\ Vals(bufMatches[b]) = Wanted(b)
           /\ Cardinality(DOMAIN bufMatches[b]) = Cardinality(Wanted(b))
<1> DEFINE g  == groups[b]
           bm == bufMatches[b]
           on == {i \in configured[b] : /\ HighlightBufferEnabled(bufEnabled[b])
                                        /\ Pattern(i, tw[b]) # NoPattern}
<1>1. DOMAIN g \subseteq Items /\ configured[b] \subseteq Items
  BY DEF BuffersTyped, IsDicts
<1>2. Vals(g) = DOMAIN bm
  BY DEF GroupsOwnMatches
<1>3. ASSUME NEW i \in Items
      PROVE  /\ i \in DOMAIN g <=> i \in on
             /\ i \in DOMAIN g => bm[g[i]] = <<i, Pattern(i, tw[b])>>
  <2> DEFINE shown == i \in configured[b] /\ HighlightBufferEnabled(bufEnabled[b])
  <2>1. IF PatternFor(i, shown, tw[b]) # NoPattern
        THEN i \in DOMAIN g /\ bm[g[i]] = <<i, PatternFor(i, shown, tw[b])>>
        ELSE i \notin DOMAIN g
    BY DEF Right
  <2>2. CASE shown
    BY <2>1, <2>2 DEF PatternFor
  <2>3. CASE ~shown
    BY <2>1, <2>3 DEF PatternFor
  <2> QED  BY <2>2, <2>3
<1>4. Wanted(b) = {<<i, Pattern(i, tw[b])>> : i \in on}
  BY DEF Wanted, WantedFor
<1> HIDE DEF on
<1>5. DOMAIN g = on
  BY <1>1, <1>3 DEF on
<1>6. \A id \in DOMAIN bm : \E i \in on : id = g[i] /\ bm[id] = <<i, Pattern(i, tw[b])>>
  BY <1>1, <1>2, <1>3, <1>5 DEF Vals
<1>7. \A i \in on : g[i] \in DOMAIN bm /\ bm[g[i]] = <<i, Pattern(i, tw[b])>>
  BY <1>1, <1>2, <1>3, <1>5 DEF Vals
<1>8. bm = [id \in DOMAIN bm |-> bm[id]]
  BY DEF BuffersTyped, IsDicts
<1> HIDE DEF g, bm
<1>9. Vals(bm) = Wanted(b)
  BY <1>4, <1>6, <1>7 DEF Vals
<1>10. bm \in Bijection(DOMAIN bm, Wanted(b))
  <2>1. bm \in [DOMAIN bm -> Wanted(b)]
    BY <1>8, <1>9 DEF Vals
  <2>2. \A x, y \in DOMAIN bm : bm[x] = bm[y] => x = y
    <3>1. SUFFICES ASSUME NEW x \in DOMAIN bm, NEW y \in DOMAIN bm, bm[x] = bm[y]
                   PROVE  x = y
      OBVIOUS
    <3>2. PICK i \in on : x = g[i] /\ bm[x] = <<i, Pattern(i, tw[b])>>
      BY <1>6
    <3>3. PICK j \in on : y = g[j] /\ bm[y] = <<j, Pattern(j, tw[b])>>
      BY <1>6
    <3> QED  BY <3>1, <3>2, <3>3
  <2>3. \A v \in Wanted(b) : \E x \in DOMAIN bm : bm[x] = v
    BY <1>9 DEF Vals
  <2> QED  BY <2>1, <2>2, <2>3, Fun_IsBij
<1>11. IsFiniteSet(DOMAIN bm)
  BY BufMatchesFinite DEF bm
<1> QED  BY <1>9, <1>10, <1>11, FS_Bijection DEF bm, ExistsBijection

LEMMA FreshFromInvariant == FInv => CurrentWindowFresh
<1> SUFFICES ASSUME FInv, Idle
             PROVE  /\ Shown(curWin) = Wanted(curBuf)
                    /\ Cardinality(winIds[curWin]) = Cardinality(Wanted(curBuf))
  BY DEF CurrentWindowFresh
<1>1. curBuf \in Bufs /\ curWin \in Wins
  BY DEF FInv, IInv, TypeOK, WindowsTyped, curBuf
<1>2. (\A i \in Items : Right(curBuf, i)) /\ InSync(curWin, curBuf)
  BY <1>1, IdleFresh
<1>3. /\ Vals(bufMatches[curBuf]) = Wanted(curBuf)
      /\ Cardinality(DOMAIN bufMatches[curBuf]) = Cardinality(Wanted(curBuf))
  BY <1>1, <1>2, RightMatches DEF FInv, IInv, TypeOK
<1>4. DOMAIN winMatches[curWin] \ ForeignIds = DOMAIN bufMatches[curBuf]
  BY <1>1, <1>2 DEF InSync, FInv, IInv, NoLeakedMatches
<1>5. Shown(curWin) = Vals(bufMatches[curBuf])
  BY <1>2, <1>4 DEF Shown, Vals, InSync
<1> QED  BY <1>2, <1>3, <1>5 DEF InSync

\* The invariant that freshness needs.
THEOREM FreshInvariance == Spec => []FInv
<1>1. Init => FInv
  BY InitFresh
<1>2. FInv /\ [Next]_vars => FInv'
  BY NextFresh
<1> QED  BY <1>1, <1>2, PTL DEF Spec

\* Whenever no command is running, the current window displays exactly the
\* matches its buffer asks for, each once, for every set of windows, buffers,
\* items, commands and file type setups.
THEOREM CurrentWindowAlwaysFresh == Spec => []CurrentWindowFresh
<1>1. FInv => CurrentWindowFresh
  BY FreshFromInvariant
<1> QED  BY <1>1, FreshInvariance, PTL

-----------------------------------------------------------------------------
(***************************************************************************)
(* The refinement.  What a sequence of calls does to the settings of a     *)
(* buffer is the fold of Effect.                                           *)
(***************************************************************************)
Settings == [items : SUBSET Items, flag : {"unset", "on", "off"}, width : TextWidths]

LEMMA Effect_Typed ==
    ASSUME NEW s \in Settings, NEW call \in Call
    PROVE  Effect(s, call) \in Settings
  BY DEF Effect, Settings, Call, Arg, Apply, BufWinEnter

\* The settings after a sequence of calls.
Outcome(s, calls) == FoldLeft(Effect, s, calls)

Going(g, s, calls) ==
    /\ g[0] = s
    /\ \A k \in 1 .. Len(calls) : g[k] = Effect(g[k - 1], calls[k])

LEMMA Fold_Trace ==
    ASSUME NEW s \in Settings, NEW calls \in Seq(Call)
    PROVE  \E g : Going(g, s, calls) /\ Outcome(s, calls) = g[Len(calls)]
<1> DEFINE n == Len(calls)
           step == [a \in Settings \X (1 .. n) |-> Effect(a[1], calls[a[2]])]
<1>1. n \in Nat /\ DOMAIN calls = 1 .. n /\ \A k \in 1 .. n : calls[k] \in Call
  OBVIOUS
<1>2. step \in [Settings \X (1 .. n) -> Settings]
  <2>1. ASSUME NEW a \in Settings \X (1 .. n)
        PROVE  Effect(a[1], calls[a[2]]) \in Settings
    BY <1>1, Effect_Typed
  <2> QED  BY <2>1
<1>3. PICK h : IsFold(h, n, Settings, s, step)
  <2> HIDE DEF step, n
  <2> QED  BY <1>1, <1>2, FoldExists
<1>4. h = [T \in SUBSET (DOMAIN calls) |->
              IF T = {} THEN s ELSE Effect(h[T \ {Max(T)}], calls[Max(T)])]
  <2>1. ASSUME NEW T \in SUBSET (1 .. n), T # {}
        PROVE  h[T] = Effect(h[T \ {Max(T)}], calls[Max(T)])
    <3>1. Max(T) \in 1 .. n /\ T \ {Max(T)} \in SUBSET (1 .. n)
      BY <1>1, <2>1, MaxOfSet
    <3>2. h[T \ {Max(T)}] \in Settings
      BY <1>3, <3>1 DEF IsFold
    <3>3. <<h[T \ {Max(T)}], Max(T)>> \in Settings \X (1 .. n)
      BY <3>1, <3>2
    <3> QED  BY <1>3, <2>1, <3>3 DEF IsFold
  <2> QED  BY <1>1, <1>3, <2>1 DEF IsFold
<1> DEFINE iter == CHOOSE i : i = [T \in SUBSET (DOMAIN calls) |->
              IF T = {} THEN s ELSE Effect(i[T \ {Max(T)}], calls[Max(T)])]
<1>5. iter = [T \in SUBSET (DOMAIN calls) |->
              IF T = {} THEN s ELSE Effect(iter[T \ {Max(T)}], calls[Max(T)])]
  BY <1>4, Zenon
<1>6. Outcome(s, calls) = iter[DOMAIN calls]
  BY Zenon DEF Outcome, FoldLeft, MapThenFoldSet
<1> DEFINE g == [k \in 0 .. n |-> iter[1 .. k]]
<1> HIDE DEF iter, step
<1>7. g[0] = s
  BY <1>5
<1>8. ASSUME NEW k \in 1 .. n PROVE g[k] = Effect(g[k - 1], calls[k])
  <2>1. /\ 1 .. k \in SUBSET (DOMAIN calls) /\ 1 .. k # {}
        /\ Max(1 .. k) = k /\ (1 .. k) \ {k} = 1 .. k - 1
    BY <1>1, UpToLast
  <2>2. g[k] = iter[1 .. k] /\ g[k - 1] = iter[1 .. k - 1]
    BY <1>1
  <2>3. iter[1 .. k] = Effect(iter[1 .. k - 1], calls[k])
    BY <1>5, <2>1
  <2> QED  BY <2>2, <2>3
<1>9. Outcome(s, calls) = g[n]
  BY <1>1, <1>6
<1>10. Going(g, s, calls)
  BY <1>7, <1>8 DEF Going
<1> HIDE DEF g
<1> QED  BY <1>9, <1>10

LEMMA Fold_Empty ==
    ASSUME NEW s \in Settings
    PROVE  Outcome(s, <<>>) = s
<1>1. <<>> \in Seq(Call) /\ Len(<<>>) = 0
  OBVIOUS
<1>2. \E g : Going(g, s, <<>>) /\ Outcome(s, <<>>) = g[Len(<<>>)]
  BY <1>1, Fold_Trace
<1> QED  BY <1>1, <1>2 DEF Going

LEMMA Fold_Append ==
    ASSUME NEW s \in Settings, NEW calls \in Seq(Call), NEW c \in Call
    PROVE  Outcome(s, Append(calls, c)) = Effect(Outcome(s, calls), c)
<1> DEFINE n == Len(calls)
           more == Append(calls, c)
<1>1. /\ n \in Nat /\ more \in Seq(Call) /\ Len(more) = n + 1 /\ more[n + 1] = c
      /\ \A k \in 1 .. n : more[k] = calls[k]
  OBVIOUS
<1>2. PICK g : Going(g, s, calls) /\ Outcome(s, calls) = g[n]
  BY Fold_Trace
<1>3. PICK h : Going(h, s, more) /\ Outcome(s, more) = h[Len(more)]
  <2> HIDE DEF more
  <2> QED  BY <1>1, Fold_Trace
<1> HIDE DEF more, n
<1>4. \A k \in 1 .. n : g[k - 1] = h[k - 1] => g[k] = h[k]
  <2>1. \A k \in 1 .. n : k \in 1 .. Len(more) /\ more[k] = calls[k]
    BY <1>1
  <2> QED  BY <1>2, <1>3, <2>1 DEF Going, n
<1>5. \A k \in 0 .. n : g[k] = h[k]
  <2>1. n \in Nat /\ g[0] = h[0]
    BY <1>1, <1>2, <1>3 DEF Going
  <2>2. GoAlike(g, h, n)
    BY <1>4, <2>1 DEF GoAlike
  <2> QED  BY <2>1, <2>2, SameTrace
<1>6. h[n + 1] = Effect(h[n], c)
  <2>1. n + 1 \in 1 .. Len(more) /\ (n + 1) - 1 = n
    BY <1>1
  <2>2. h[n + 1] = Effect(h[(n + 1) - 1], more[n + 1])
    BY <1>3, <2>1 DEF Going
  <2> QED  BY <1>1, <2>1, <2>2
<1>7. g[n] = h[n]
  BY <1>1, <1>5
<1> QED  BY <1>1, <1>2, <1>3, <1>6, <1>7 DEF more

LEMMA Fold_Typed ==
    ASSUME NEW s \in Settings, NEW calls \in Seq(Call)
    PROVE  Outcome(s, calls) \in Settings
<1> DEFINE Q == {q \in Seq(Call) : Outcome(s, q) \in Settings}
<1>1. <<>> \in Q
  BY Fold_Empty
<1>2. ASSUME NEW q \in Seq(Call), NEW c \in Call, q \in Q PROVE Append(q, c) \in Q
  <2>1. Outcome(s, Append(q, c)) = Effect(Outcome(s, q), c)
    BY Fold_Append
  <2>2. Effect(Outcome(s, q), c) \in Settings
    BY <1>2, Effect_Typed
  <2> QED  BY <2>1, <2>2
<1> HIDE DEF Q
<1>3. calls \in Q
  BY <1>1, <1>2, SeqInduction
<1> QED  BY <1>3 DEF Q

LEMMA Fold_Concat ==
    ASSUME NEW s \in Settings, NEW p \in Seq(Call), NEW r \in Seq(Call)
    PROVE  Outcome(s, p \o r) = Outcome(Outcome(s, p), r)
<1> DEFINE t == Outcome(s, p)
           Q == {q \in Seq(Call) : Outcome(s, p \o q) = Outcome(t, q)}
<1>1. t \in Settings
  BY Fold_Typed
<1> HIDE DEF t
<1>2. <<>> \in Q
  BY <1>1, Fold_Empty DEF t
<1>3. ASSUME NEW q \in Seq(Call), NEW c \in Call, q \in Q PROVE Append(q, c) \in Q
  <2>1. /\ Append(q, c) \in Seq(Call) /\ p \o q \in Seq(Call)
        /\ p \o Append(q, c) = Append(p \o q, c)
    OBVIOUS
  <2>2. /\ Outcome(s, Append(p \o q, c)) = Effect(Outcome(s, p \o q), c)
        /\ Outcome(t, Append(q, c)) = Effect(Outcome(t, q), c)
    BY <1>1, <2>1, Fold_Append
  <2> QED  BY <1>3, <2>1, <2>2
<1> HIDE DEF Q
<1>4. r \in Q
  BY <1>2, <1>3, SeqInduction
<1> QED  BY <1>4 DEF Q, t

LEMMA Fold_One ==
    ASSUME NEW s \in Settings, NEW c \in Call
    PROVE  Outcome(s, <<c>>) = Effect(s, c)
<1>1. <<>> \in Seq(Call) /\ Append(<<>>, c) = <<c>>
  OBVIOUS
<1>2. Outcome(s, Append(<<>>, c)) = Effect(Outcome(s, <<>>), c)
  BY <1>1, Fold_Append
<1> QED  BY <1>1, <1>2, Fold_Empty

\* The first call takes effect, then the others.
LEMMA Fold_Head ==
    ASSUME NEW s \in Settings, NEW calls \in Seq(Call), calls # <<>>
    PROVE  /\ Head(calls) \in Call /\ Tail(calls) \in Seq(Call)
           /\ Outcome(s, calls) =
                 Outcome(Effect(s, Head(calls)), Tail(calls))
<1>1. /\ Head(calls) \in Call /\ Tail(calls) \in Seq(Call)
      /\ <<Head(calls)>> \in Seq(Call) /\ calls = <<Head(calls)>> \o Tail(calls)
  OBVIOUS
<1> DEFINE first == <<Head(calls)>>
           rest == Tail(calls)
<1>2. first \in Seq(Call) /\ rest \in Seq(Call) /\ calls = first \o rest
  BY <1>1
<1>3. Outcome(s, first) = Effect(s, Head(calls))
  BY <1>1, Fold_One
<1> HIDE DEF first, rest
<1>4. Outcome(s, calls) = Outcome(Outcome(s, first), rest)
  BY <1>2, Fold_Concat
<1> QED  BY <1>1, <1>3, <1>4 DEF rest

\* Calls that only bring the display up to date.
NoEffect == {c \in Call : c.op \in {"keep", "apply", "sync"}}

LEMMA Fold_NoEffect ==
    ASSUME NEW s \in Settings, NEW calls \in Seq(NoEffect)
    PROVE  Outcome(s, calls) = s
<1> DEFINE Q == {q \in Seq(NoEffect) : Outcome(s, q) = s}
<1>1. <<>> \in Q
  BY Fold_Empty
<1>2. ASSUME NEW q \in Seq(NoEffect), NEW c \in NoEffect, q \in Q PROVE Append(q, c) \in Q
  <2>1. q \in Seq(Call) /\ c \in Call
    <3>1. NoEffect \subseteq Call
      BY DEF NoEffect
    <3> QED  BY <3>1
  <2>2. Effect(s, c) = s
    BY DEF Effect, NoEffect
  <2>3. Outcome(s, Append(q, c)) = Effect(Outcome(s, q), c)
    BY <2>1, Fold_Append
  <2> QED  BY <1>2, <2>2, <2>3
<1> HIDE DEF Q
<1>3. calls \in Q
  BY <1>1, <1>2, SeqInduction
<1> QED  BY <1>3 DEF Q

\* The settings s with other items.
WithItems(s, set) == [items |-> set, flag |-> s.flag, width |-> s.width]

LEMMA Effect_Item ==
    ASSUME NEW s \in Settings, NEW i, NEW on \in BOOLEAN
    PROVE  Effect(s, Item(i, on)) =
              WithItems(s, IF on THEN s.items \cup {i} ELSE s.items \ {i})
<1>1. Item(i, on).op = "item" /\ Item(i, on).item = i /\ Item(i, on).on = on
  BY DEF Item
<1>2. Effect(s, Item(i, on)) =
         [s EXCEPT !.items = IF on THEN @ \cup {i} ELSE @ \ {i}]
  BY <1>1 DEF Effect
<1>3. CASE on
  BY <1>2, <1>3 DEF Settings, WithItems
<1>4. CASE ~on
  BY <1>2, <1>4 DEF Settings, WithItems
<1> QED  BY <1>3, <1>4

\* The loop of ":Highlight *": the calls for some items, one after the other.
LoopOf(names, on) == [n \in DOMAIN names |-> Item(names[n], on)]

LEMMA Fold_Items ==
    ASSUME NEW s \in Settings, NEW on \in BOOLEAN, NEW names \in Seq(Items)
    PROVE  Outcome(s, LoopOf(names, on)) =
              WithItems(s, IF on THEN s.items \cup Range(names) ELSE s.items \ Range(names))
<1> DEFINE After(q) == WithItems(s, IF on THEN s.items \cup Range(q) ELSE s.items \ Range(q))
           Q == {q \in Seq(Items) : /\ LoopOf(q, on) \in Seq(Call)
                                    /\ Outcome(s, LoopOf(q, on)) = After(q)}
<1>1. <<>> \in Q
  <2>1. LoopOf(<<>>, on) = <<>> /\ <<>> \in Seq(Call) /\ <<>> \in Seq(Items)
    BY DEF LoopOf
  <2>2. Range(<<>>) = {}
    BY DEF Range
  <2>3. After(<<>>) = s
    BY <2>2 DEF Settings, WithItems
  <2> QED  BY <2>1, <2>3, Fold_Empty
<1>2. ASSUME NEW q \in Seq(Items), NEW i \in Items, q \in Q PROVE Append(q, i) \in Q
  <2>1. LoopOf(Append(q, i), on) = Append(LoopOf(q, on), Item(i, on))
    <3>1. /\ Len(q) \in Nat /\ DOMAIN q = 1 .. Len(q)
          /\ DOMAIN Append(q, i) = 1 .. Len(q) + 1
          /\ \A n \in 1 .. Len(q) : Append(q, i)[n] = q[n]
          /\ Append(q, i)[Len(q) + 1] = i
      OBVIOUS
    <3> DEFINE l == LoopOf(q, on)
    <3>2. l \in Seq(Call) /\ Len(l) = Len(q) /\ \A n \in 1 .. Len(q) : l[n] = Item(q[n], on)
      BY <1>2, <3>1 DEF LoopOf
    <3> HIDE DEF l
    <3> DEFINE c == Item(i, on)
               m == Append(l, c)
    <3>3. c \in Call
      BY DEF Item, Call, Arg
    <3> HIDE DEF c
    <3>4. /\ m = [n \in 1 .. Len(q) + 1 |-> m[n]] /\ m[Len(q) + 1] = c
          /\ \A n \in 1 .. Len(q) : m[n] = l[n]
      <4>1. m \in Seq(Call) /\ Len(m) = Len(q) + 1 /\ m[Len(q) + 1] = c
        BY <3>2, <3>3, AppendProperties
      <4>2. \A n \in 1 .. Len(q) : m[n] = l[n]
        BY <3>2, <3>3, AppendProperties
      <4> HIDE DEF m
      <4> QED  BY <4>1, <4>2
    <3> HIDE DEF m
    <3>5. \A n \in 1 .. Len(q) + 1 : m[n] = Item(Append(q, i)[n], on)
      <4>1. \A n \in 1 .. Len(q) : m[n] = Item(Append(q, i)[n], on)
        BY <3>1, <3>2, <3>4
      <4>2. m[Len(q) + 1] = Item(Append(q, i)[Len(q) + 1], on)
        BY <3>1, <3>4 DEF c
      <4>3. \A n \in 1 .. Len(q) + 1 : n \in 1 .. Len(q) \/ n = Len(q) + 1
        BY <3>1
      <4> QED  BY <4>1, <4>2, <4>3
    <3>6. LoopOf(Append(q, i), on) = [n \in 1 .. Len(q) + 1 |-> Item(Append(q, i)[n], on)]
      BY <3>1 DEF LoopOf
    <3>7. LoopOf(Append(q, i), on) = m
      BY <3>4, <3>5, <3>6
    <3> QED  BY <3>7 DEF l, m, c
  <2>2. Item(i, on) \in Call
    BY DEF Item, Call, Arg
  <2>3. Effect(After(q), Item(i, on)) = After(Append(q, i))
    <3>1. Range(Append(q, i)) = Range(q) \cup {i}
      BY RangeOfAppend
    <3>2. Effect(After(q), Item(i, on)) =
             WithItems(After(q), IF on THEN After(q).items \cup {i} ELSE After(q).items \ {i})
      <4>1. After(q) \in Settings
        BY <1>2, Fold_Typed
      <4> HIDE DEF After
      <4> QED  BY <4>1, Effect_Item
    <3>3. /\ After(q).items = IF on THEN s.items \cup Range(q) ELSE s.items \ Range(q)
          /\ After(q).flag = s.flag /\ After(q).width = s.width
      BY DEF WithItems
    <3>4. (IF on THEN After(q).items \cup {i} ELSE After(q).items \ {i}) =
             IF on THEN s.items \cup Range(Append(q, i)) ELSE s.items \ Range(Append(q, i))
      BY <3>1, <3>3
    <3> QED  BY <3>2, <3>3, <3>4 DEF WithItems
  <2>4. Outcome(s, Append(LoopOf(q, on), Item(i, on))) =
           Effect(Outcome(s, LoopOf(q, on)), Item(i, on))
    BY <1>2, <2>2, Fold_Append
  <2>5. LoopOf(Append(q, i), on) \in Seq(Call)
    BY <1>2, <2>1, <2>2
  <2>6. Outcome(s, LoopOf(Append(q, i), on)) = After(Append(q, i))
    <3> HIDE DEF After
    <3> QED  BY <1>2, <2>1, <2>3, <2>4
  <2> QED  BY <2>5, <2>6
<1> HIDE DEF Q
<1>3. names \in Q
  BY <1>1, <1>2, SeqInduction
<1> QED  BY <1>3 DEF Q

(***************************************************************************)
(* The settings a buffer has, and those asked for: of a buffer that is not *)
(* current they are the same; of the current one, what the pending calls   *)
(* will have made of them.                                                 *)
(***************************************************************************)
Current(b) == [items |-> configured[b], flag |-> bufEnabled[b], width |-> tw[b]]

AskedKnown ==
    /\ asked \in [Bufs -> Settings]
    /\ \A b \in Bufs \ {curBuf} : asked[b] = Current(b)
    /\ asked[curBuf] = Outcome(Current(curBuf), pending)

LInv == FInv /\ AskedKnown

LEMMA CurrentTyped ==
    ASSUME IInv, NEW b \in Bufs
    PROVE  Current(b) \in Settings
  BY DEF IInv, TypeOK, BuffersTyped, Current, Settings

\* Synchronizing one window leaves the others.
LEMMA SyncOthers ==
    ASSUME IInv, NEW w \in Wins, NEW bm, SyncWindow(w, bm)
    PROVE  \A v \in Wins \ {w} : winMatches'[v] = winMatches[v]
<1>1. winMatches = [v \in Wins |-> winMatches[v]]
  BY DEF IInv, TypeOK, WindowsTyped, IsDicts
<1> DEFINE new == MatchAddAll(Unsynced(w), bm)
<1>2. winMatches' = [winMatches EXCEPT ![w] = new]
  BY DEF SyncWindow
<1> HIDE DEF new
<1> QED  BY <1>1, <1>2

\* One call to HighlightItem: what it remembers, and the windows it leaves.
LEMMA HighlightItemSettings ==
    ASSUME IInv, NEW i \in Items, NEW on \in BOOLEAN, HighlightItem(i, on)
    PROVE  /\ UNCHANGED <<winBuf, curWin>>
           /\ \A b \in Bufs \ {curBuf} : Current(b)' = Current(b)
           /\ \A b \in {curBuf} :
                 Current(b)' = WithItems(Current(b), IF on THEN configured[b] \cup {i}
                                                           ELSE configured[b] \ {i})
           /\ \A v \in Wins \ {curWin} : winMatches'[v] = winMatches[v]
<1>1. curBuf \in Bufs /\ curWin \in Wins /\ configured \in [Bufs -> SUBSET Items]
  BY DEF IInv, TypeOK, WindowsTyped, BuffersTyped, curBuf
<1>2. UNCHANGED <<winBuf, curWin, bufEnabled, tw>>
  BY DEF HighlightItem
<1>3. \A b \in Bufs : configured'[b] =
         IF b = curBuf THEN IF on THEN configured[b] \cup {i} ELSE configured[b] \ {i}
                       ELSE configured[b]
  BY <1>1 DEF HighlightItem, Remember
<1>4. \A v \in Wins \ {curWin} : winMatches'[v] = winMatches[v]
  <2> DEFINE p == PatternFor(i, on /\ HighlightBufferEnabled(bufEnabled[curBuf]),
                             tw[curBuf])
  <2>1. HighlightSyntaxMatch(curBuf, i, p)
    BY DEF HighlightItem
  <2> HIDE DEF p
  <2>2. (\E bm : SyncWindow(curWin, bm)) \/ UNCHANGED winMatches
    BY <2>1 DEF HighlightSyntaxMatch
  <2>3. ASSUME NEW bm, SyncWindow(curWin, bm)
        PROVE  \A v \in Wins \ {curWin} : winMatches'[v] = winMatches[v]
    BY <1>1, <2>3, SyncOthers
  <2> QED  BY <2>2, <2>3
<1> QED  BY <1>1, <1>2, <1>3, <1>4 DEF Current, WithItems

\* Calls that have no effect may be put in front of others.
LEMMA NoEffect_First ==
    ASSUME NEW s \in Settings, NEW calls \in Seq(NoEffect), NEW rest \in Seq(Call)
    PROVE  Outcome(s, calls \o rest) = Outcome(s, rest)
<1>1. calls \in Seq(Call)
  BY DEF NoEffect
<1> QED  BY <1>1, Fold_Concat, Fold_NoEffect

\* A step of the command in progress brings the settings of the current buffer
\* nearer to those asked for, which it does not change, and no other buffer or
\* window.
LEMMA ContinueSettings ==
    ASSUME IInv, Continue, NEW b \in Bufs, b = curBuf
    PROVE  /\ UNCHANGED <<winBuf, curWin>>
           /\ \A c \in Bufs \ {b} : Current(c)' = Current(c)
           /\ Outcome(Current(b)', pending') = Outcome(Current(b), pending)
           /\ \A v \in Wins \ {curWin} : winMatches'[v] = winMatches[v]
<1> DEFINE s == Current(b)
           c == Head(pending)
           rest == Tail(pending)
<1>1. /\ pending \in Seq(Call) /\ pending # <<>> /\ s \in Settings
      /\ curWin \in Wins
  BY CurrentTyped DEF IInv, TypeOK, WindowsTyped, Continue, DoItem, DoKeep, DoAll,
     DoApply, DoEnable, DoSetTw, DoBufWinEnter, Running
<1>2. c \in Call /\ rest \in Seq(Call) /\ Outcome(s, pending) = Outcome(Effect(s, c), rest)
  BY <1>1, Fold_Head
<1>3. s.items = configured[b] /\ s.flag = bufEnabled[b] /\ s.width = tw[b]
  BY DEF Current
<1>4. /\ configured \in [Bufs -> SUBSET Items] /\ tw \in [Bufs -> TextWidths]
      /\ bufEnabled \in [Bufs -> {"unset", "on", "off"}]
  BY DEF IInv, TypeOK, BuffersTyped
<1>5. CASE DoItem
  <2>1. /\ c.op = "item" /\ c.item \in Items /\ c.on \in BOOLEAN /\ pending' = rest
        /\ HighlightItem(c.item, c.on)
    BY <1>1, <1>5, PendingTyped DEF DoItem, Running, Done
  <2> DEFINE set == IF c.on THEN configured[b] \cup {c.item} ELSE configured[b] \ {c.item}
  <2>2. /\ Current(b)' = WithItems(s, set)
        /\ UNCHANGED <<winBuf, curWin>>
        /\ \A d \in Bufs \ {b} : Current(d)' = Current(d)
        /\ \A v \in Wins \ {curWin} : winMatches'[v] = winMatches[v]
    BY <2>1, HighlightItemSettings
  <2>3. Effect(s, c) = WithItems(s, set)
    <3>1. Effect(s, c) = [s EXCEPT !.items = set]
      BY <1>3, <2>1 DEF Effect
    <3> HIDE DEF set, s
    <3> QED  BY <1>1, <3>1 DEF Settings, WithItems
  <2> QED  BY <1>2, <2>1, <2>2, <2>3
<1>6. CASE DoKeep
  <2>1. /\ c.op = "keep" /\ c.item \in Items /\ pending' = rest
        /\ HighlightItem(c.item, c.item \in configured[b])
    BY <1>1, <1>6, PendingTyped DEF DoKeep, Running, Done, HighlightItemEnabled
  <2> DEFINE on == c.item \in configured[b]
             set == IF on THEN configured[b] \cup {c.item} ELSE configured[b] \ {c.item}
  <2>2. on \in BOOLEAN /\ set = configured[b]
    OBVIOUS
  <2>3. /\ Current(b)' = WithItems(s, set)
        /\ UNCHANGED <<winBuf, curWin>>
        /\ \A d \in Bufs \ {b} : Current(d)' = Current(d)
        /\ \A v \in Wins \ {curWin} : winMatches'[v] = winMatches[v]
    <3> HIDE DEF on
    <3> QED  BY <2>1, <2>2, HighlightItemSettings DEF on
  <2>4. Effect(s, c) = s /\ WithItems(s, set) = s
    BY <1>3, <2>1, <2>2 DEF Effect, WithItems, Current
  <2> QED  BY <1>2, <2>1, <2>3, <2>4
<1>7. CASE DoAll
  <2>1. /\ c.op = "all" /\ c.on \in BOOLEAN
        /\ pending' = LoopOf(HighlightItems, c.on) \o rest
        /\ UNCHANGED <<display, config>>
    BY <1>1, <1>7, PendingTyped DEF DoAll, Running, LoopOf
  <2>2. HighlightItems \in Seq(Items) /\ Range(HighlightItems) = Items
    BY CommandAssumption DEF Items, Range
  <2> DEFINE loop == LoopOf(HighlightItems, c.on)
             set == IF c.on THEN s.items \cup Items ELSE s.items \ Items
  <2>3. loop \in Seq(Call)
    <3>1. DOMAIN HighlightItems = 1 .. Len(HighlightItems)
          /\ \A n \in DOMAIN HighlightItems : Item(HighlightItems[n], c.on) \in Call
      BY <2>1, <2>2 DEF Item, Call, Arg
    <3> QED  BY <2>2, <3>1 DEF LoopOf
  <2>4. Outcome(s, loop) = WithItems(s, set)
    BY <1>1, <2>1, <2>2, Fold_Items
  <2>5. Effect(s, c) = WithItems(s, set)
    <3>1. set = IF c.on THEN Items ELSE {}
      BY <1>3, <1>4
    <3>2. Effect(s, c) = [s EXCEPT !.items = set]
      BY <2>1, <3>1 DEF Effect
    <3> HIDE DEF set, s
    <3> QED  BY <1>1, <3>2 DEF Settings, WithItems
  <2>6. Outcome(s, loop \o rest) = Outcome(Outcome(s, loop), rest)
    <3> HIDE DEF loop, s
    <3> QED  BY <1>1, <1>2, <2>3, Fold_Concat
  <2>7. \A d \in Bufs : Current(d)' = Current(d)
    BY <2>1 DEF config, Current
  <2> QED  BY <1>2, <2>1, <2>4, <2>5, <2>6, <2>7 DEF display
<1>8. CASE DoApply
  <2> DEFINE keeps == [n \in DOMAIN HighlightItems |-> Keep(HighlightItems[n])]
  <2>1. c.op = "apply" /\ pending' = keeps \o rest /\ UNCHANGED <<display, config>>
    BY <1>8 DEF DoApply, Running
  <2>2. keeps \in Seq(NoEffect)
    <3>1. HighlightItems \in Seq(Items)
      BY CommandAssumption
    <3>2. DOMAIN HighlightItems = 1 .. Len(HighlightItems)
          /\ \A n \in DOMAIN HighlightItems : Keep(HighlightItems[n]) \in NoEffect
      BY <3>1 DEF Keep, Call, NoEffect
    <3> QED  BY <3>1, <3>2
  <2>3. Outcome(s, keeps \o rest) = Outcome(s, rest)
    <3> HIDE DEF keeps, s
    <3> QED  BY <1>1, <1>2, <2>2, NoEffect_First
  <2>4. Effect(s, c) = s
    BY <2>1 DEF Effect
  <2>5. \A d \in Bufs : Current(d)' = Current(d)
    BY <2>1 DEF config, Current
  <2> QED  BY <1>2, <2>1, <2>3, <2>4, <2>5 DEF display
<1>9. CASE DoEnable
  <2> DEFINE flag == IF c.on THEN "on" ELSE "off"
             t == [items |-> s.items, flag |-> flag, width |-> s.width]
             first == <<Apply>>
  <2>1. /\ c.op = "enable" /\ c.on \in BOOLEAN /\ pending' = first \o rest
        /\ bufEnabled' = [bufEnabled EXCEPT ![b] = flag]
        /\ UNCHANGED <<display, groups, configured, tw>>
    BY <1>1, <1>9, PendingTyped DEF DoEnable, Running
  <2>2. Current(b)' = t /\ \A d \in Bufs \ {b} : Current(d)' = Current(d)
    BY <1>3, <1>4, <2>1 DEF Current
  <2>3. Effect(s, c) = t /\ t \in Settings
    <3>1. Effect(s, c) = [s EXCEPT !.flag = flag]
      BY <2>1 DEF Effect
    <3> HIDE DEF s
    <3> QED  BY <1>1, <3>1 DEF Settings
  <2>4. first \in Seq(NoEffect)
    <3>1. Apply \in NoEffect
      BY DEF Apply, NoEffect, Call
    <3> QED  BY <3>1
  <2>5. Outcome(t, first \o rest) = Outcome(t, rest)
    <3> HIDE DEF first, t
    <3> QED  BY <1>2, <2>3, <2>4, NoEffect_First
  <2> QED  BY <1>2, <2>1, <2>2, <2>3, <2>5 DEF display
<1>10. CASE DoSetTw
  <2> DEFINE t == [items |-> s.items, flag |-> s.flag, width |-> c.tw]
  <2>1. /\ c.op = "tw" /\ pending' = rest
        /\ tw' = [tw EXCEPT ![b] = c.tw]
        /\ UNCHANGED <<display, groups, configured, bufEnabled>>
    BY <1>10 DEF DoSetTw, Running, Done
  <2>2. Current(b)' = t /\ \A d \in Bufs \ {b} : Current(d)' = Current(d)
    BY <1>3, <1>4, <2>1 DEF Current
  <2>3. Effect(s, c) = t
    <3>1. Effect(s, c) = [s EXCEPT !.width = c.tw]
      BY <2>1 DEF Effect
    <3> HIDE DEF s
    <3> QED  BY <1>1, <3>1 DEF Settings
  <2> QED  BY <1>2, <2>1, <2>2, <2>3 DEF display
<1>11. CASE DoBufWinEnter
  <2>1. /\ c.op = "sync" /\ pending' = rest
        /\ SyncWindow(curWin, bufMatches[curBuf])
        /\ UNCHANGED <<winBuf, curWin, bufMatches, config>>
    BY <1>11 DEF DoBufWinEnter, Running, Done
  <2>2. \A v \in Wins \ {curWin} : winMatches'[v] = winMatches[v]
    BY <1>1, <2>1, SyncOthers
  <2>3. Effect(s, c) = s
    BY <2>1 DEF Effect
  <2>4. \A d \in Bufs : Current(d)' = Current(d)
    BY <2>1 DEF config, Current
  <2> QED  BY <1>2, <2>1, <2>2, <2>3, <2>4
<1> QED  BY <1>5, <1>6, <1>7, <1>8, <1>9, <1>10, <1>11 DEF Continue

(***************************************************************************)
(* What is asked for is known: AskedKnown is inductive with FInv.          *)
(***************************************************************************)
\* Between two commands what is asked for is what the buffers have.
LEMMA IdleAsked ==
    ASSUME IInv, AskedKnown, Idle
    PROVE  \A b \in Bufs : asked[b] = Current(b)
<1>1. curBuf \in Bufs
  BY DEF IInv, TypeOK, WindowsTyped, curBuf
<1>2. Current(curBuf) \in Settings
  BY <1>1, CurrentTyped
<1>3. Outcome(Current(curBuf), pending) = Current(curBuf)
  BY <1>2, Fold_Empty DEF Idle
<1> QED  BY <1>1, <1>3 DEF AskedKnown

\* A command or event starts: its calls become what is asked of the buffer that
\* is current then.
Asking(b, calls) == asked' = [asked EXCEPT ![b] = Outcome(@, calls)]

LEMMA AskingStarts ==
    ASSUME IInv, AskedKnown, Idle, NEW b \in Bufs, curBuf' = b, Asking(b, pending'),
           pending' \in Seq(Call), UNCHANGED config
    PROVE  AskedKnown'
<1>1. \A c \in Bufs : asked[c] = Current(c) /\ Current(c) \in Settings
  BY IdleAsked, CurrentTyped
<1>2. \A c \in Bufs : Current(c)' = Current(c)
  BY DEF config, Current
<1>3. Outcome(asked[b], pending') \in Settings
  BY <1>1, Fold_Typed
<1>4. asked \in [Bufs -> Settings]
  BY DEF AskedKnown
<1>5. /\ asked' \in [Bufs -> Settings]
      /\ \A c \in Bufs : asked'[c] = IF c = b THEN Outcome(asked[b], pending')
                                              ELSE asked[c]
  BY <1>3, <1>4 DEF Asking
<1> QED  BY <1>1, <1>2, <1>5 DEF AskedKnown

\* The commands and events of HNext that start calls.
Starts ==
    \/ HighlightCommand \/ HighlightOnOff \/ SyntaxEvent \/ SetTextwidth
    \/ \E b \in Bufs, setup \in Setups : EditBuffer(b, setup)

LEMMA StartsTyped ==
    ASSUME IInv, Starts
    PROVE  /\ Idle /\ UNCHANGED <<curWin, winMatches, config>>
           /\ pending' \in Seq(Call) /\ curBuf' \in Bufs
<1>1. CASE HighlightCommand \/ HighlightOnOff \/ SyntaxEvent \/ SetTextwidth
  <2>1. PICK calls \in Seq(Call) : Start(calls)
    BY <1>1, CommandsTyped DEF HighlightCommand, HighlightOnOff, SyntaxEvent, SetTextwidth
  <2> QED  BY <2>1 DEF Start, display, IInv, TypeOK, WindowsTyped, curBuf
<1>2. CASE \E b \in Bufs, setup \in Setups : EditBuffer(b, setup)
  <2>1. PICK b \in Bufs, setup \in Setups : EditBuffer(b, setup)
    BY <1>2
  <2>2. IInv'
    BY <2>1, EditBufferSafe
  <2>3. pending' \in Seq(Call) /\ curBuf' \in Bufs
    BY <2>2 DEF IInv, TypeOK, WindowsTyped, curBuf
  <2> QED  BY <2>1, <2>3 DEF EditBuffer
<1> QED  BY <1>1, <1>2 DEF Starts

LEMMA StartsAsk ==
    ASSUME asked' = [asked EXCEPT ![curBuf'] = FoldLeft(Effect, @, pending')]
    PROVE  Asking(curBuf', pending')
  BY Zenon DEF Asking, Outcome

LEMMA AskedInit == HInit => AskedKnown
<1> SUFFICES ASSUME HInit PROVE AskedKnown
  OBVIOUS
<1>1. IInv
  BY InitSafe DEF HInit
<1>2. \A b \in Bufs : Current(b) = Unconfigured
  BY DEF HInit, Init, Current, Unconfigured
<1>3. Idle /\ curBuf \in Bufs
  BY <1>1 DEF HInit, Init, Idle, IInv, TypeOK, WindowsTyped, curBuf
<1>4. \A b \in Bufs : Current(b) \in Settings
  BY <1>1, CurrentTyped
<1>5. Outcome(Current(curBuf), pending) = Current(curBuf)
  BY <1>3, <1>4, Fold_Empty DEF Idle
<1>6. asked = [b \in Bufs |-> Unconfigured]
  BY DEF HInit
<1> QED  BY <1>2, <1>3, <1>4, <1>5, <1>6 DEF AskedKnown

LEMMA AskedNext ==
    ASSUME LInv, [HNext]_<<vars, asked>>
    PROVE  AskedKnown'
<1>1. IInv /\ AskedKnown /\ curBuf \in Bufs
  BY DEF LInv, FInv, IInv, TypeOK, WindowsTyped, curBuf
<1>2. CASE /\ Starts
           /\ asked' = [asked EXCEPT ![curBuf'] = FoldLeft(Effect, @, pending')]
  BY <1>1, <1>2, StartsTyped, StartsAsk, AskingStarts
<1>3. CASE \E b \in Bufs : DeleteBuffer(b) /\ asked' = [asked EXCEPT ![b] = Unconfigured]
  <2>1. PICK b \in Bufs : DeleteBuffer(b) /\ asked' = [asked EXCEPT ![b] = Unconfigured]
    BY <1>3
  <2>2. /\ Idle /\ b # curBuf /\ curBuf' = curBuf /\ pending' = pending
        /\ \A c \in Bufs \ {b} : Current(c)' = Current(c)
        /\ Current(b)' = Unconfigured
    BY <1>1, <2>1 DEF DeleteBuffer, curBuf, Current, Unconfigured, IInv, TypeOK,
       WindowsTyped, BuffersTyped
  <2>3. Unconfigured \in Settings
    BY CommandAssumption DEF Unconfigured, Settings
  <2>4. asked \in [Bufs -> Settings]
    BY <1>1 DEF AskedKnown
  <2>5. /\ asked' \in [Bufs -> Settings]
        /\ \A c \in Bufs : asked'[c] = IF c = b THEN Unconfigured ELSE asked[c]
    BY <2>1, <2>3, <2>4
  <2> QED  BY <1>1, <2>2, <2>5 DEF AskedKnown
<1>4. CASE Continue /\ UNCHANGED asked
  <2> DEFINE b == curBuf
  <2>1. /\ UNCHANGED <<winBuf, curWin>>
        /\ \A c \in Bufs \ {b} : Current(c)' = Current(c)
        /\ \A d \in {b} : Outcome(Current(d)', pending') = Outcome(Current(d), pending)
    BY <1>1, <1>4, ContinueSettings
  <2>2. curBuf' = b
    BY <2>1 DEF curBuf
  <2> HIDE DEF b
  <2>3. b = curBuf
    BY DEF b
  <2> QED  BY <1>1, <1>4, <2>1, <2>2, <2>3 DEF AskedKnown
<1>5. CASE (WindowCommand \/ OtherScript) /\ UNCHANGED asked
  <2>1. Idle /\ UNCHANGED <<config, pending, asked>>
    BY <1>5 DEF WindowCommand, OtherScript
  <2>2. IInv'
    BY <1>1, <1>5, WindowCommandSafe, OtherScriptSafe
  <2>3. curBuf' \in Bufs
    BY <2>2 DEF IInv, TypeOK, WindowsTyped, curBuf
  <2>4. \A c \in Bufs : asked[c] = Current(c) /\ Current(c)' = Current(c)
    BY <1>1, <2>1, IdleAsked DEF config, Current
  <2>5. \A c \in Bufs : Outcome(Current(c), pending) = Current(c)
    BY <1>1, <2>1, CurrentTyped, Fold_Empty DEF Idle
  <2>6. asked' \in [Bufs -> Settings]
    BY <1>1, <2>1 DEF AskedKnown
  <2> QED  BY <2>1, <2>3, <2>4, <2>5, <2>6 DEF AskedKnown
<1>6. CASE UNCHANGED <<vars, asked>>
  <2>1. curBuf' = curBuf /\ pending' = pending /\ \A c : Current(c)' = Current(c)
    BY <1>6 DEF vars, display, config, curBuf, Current
  <2> QED  BY <1>1, <1>6, <2>1 DEF AskedKnown
<1>7. \/ /\ Starts
         /\ asked' = [asked EXCEPT ![curBuf'] = FoldLeft(Effect, @, pending')]
      \/ \E b \in Bufs : DeleteBuffer(b) /\ asked' = [asked EXCEPT ![b] = Unconfigured]
      \/ Continue /\ UNCHANGED asked
      \/ (WindowCommand \/ OtherScript) /\ UNCHANGED asked
      \/ UNCHANGED <<vars, asked>>
  BY Zenon DEF HNext, Starts
<1> QED  BY <1>2, <1>3, <1>4, <1>5, <1>6, <1>7

LEMMA HNextIsNext == [HNext]_<<vars, asked>> => [Next]_vars
  BY Zenon DEF HNext, Next

\* The inductive invariant of the refinement.
THEOREM AskedAlwaysKnown == HSpec => []LInv
<1>1. HInit => LInv
  BY InitFresh, AskedInit DEF HInit, LInv
<1>2. LInv /\ [HNext]_<<vars, asked>> => LInv'
  BY NextFresh, AskedNext, HNextIsNext DEF LInv
<1> QED  BY <1>1, <1>2, PTL DEF HSpec

-----------------------------------------------------------------------------
(***************************************************************************)
(* Every step is a step of HighlightDisplay, or changes nothing there.     *)
(***************************************************************************)
AskedFor(b) == WantedFor(asked[b].items, asked[b].flag, asked[b].width)

\* The current window of the abstract state always displays what is asked for,
\* while a command runs and after it.
BarFresh == shownBar = [w \in Wins |-> IF w = curWin THEN AskedFor(curBuf) ELSE Shown(w)]

LEMMA BarIsFresh == LInv => BarFresh
<1> SUFFICES ASSUME LInv PROVE BarFresh
  OBVIOUS
<1>1. CASE Idle
  <2>1. Shown(curWin) = Wanted(curBuf)
    BY <1>1, FreshFromInvariant DEF LInv, CurrentWindowFresh
  <2>2. curBuf \in Bufs
    BY DEF LInv, FInv, IInv, TypeOK, WindowsTyped, curBuf
  <2>3. asked[curBuf] = Current(curBuf)
    BY <1>1, <2>2, IdleAsked DEF LInv, FInv
  <2>4. AskedFor(curBuf) = Wanted(curBuf)
    BY <2>3 DEF AskedFor, Wanted, Current
  <2> QED  BY <1>1, <2>1, <2>4 DEF shownBar, BarFresh
<1>2. CASE ~Idle
  BY <1>2 DEF shownBar, BarFresh, AskedFor
<1> QED  BY <1>1, <1>2

LEMMA BarStaysFresh == LInv' => BarFresh'
  BY BarIsFresh, PTL

LEMMA DisplayWanted ==
    ASSUME NEW s \in Settings
    PROVE  Display!Wanted(s.items, s.flag, s.width) = WantedFor(s.items, s.flag, s.width)
  BY DEF Settings, Display!Wanted, Display!Pattern, WantedFor, Pattern, NoPattern,
     HighlightBufferEnabled

\* The commands given to :Highlight change items only.
LEMMA Fold_Args ==
    ASSUME NEW s \in Settings, NEW args \in Seq(Arg)
    PROVE  Outcome(s, args).flag = s.flag /\ Outcome(s, args).width = s.width
<1> DEFINE Q == {q \in Seq(Arg) : /\ Outcome(s, q).flag = s.flag
                                  /\ Outcome(s, q).width = s.width}
<1>1. <<>> \in Q
  BY Fold_Empty
<1>2. ASSUME NEW q \in Seq(Arg), NEW c \in Arg, q \in Q PROVE Append(q, c) \in Q
  <2>1. Arg \subseteq Call
    BY DEF Call
  <2>2. q \in Seq(Call) /\ c \in Call
    BY <2>1
  <2>3. Outcome(s, Append(q, c)) = Effect(Outcome(s, q), c) /\ Outcome(s, q) \in Settings
    BY <2>2, Fold_Append, Fold_Typed
  <2>4. ASSUME NEW r \in Settings PROVE Effect(r, c).flag = r.flag /\ Effect(r, c).width = r.width
    BY DEF Arg, Effect, Settings
  <2> QED  BY <1>2, <2>3, <2>4
<1> HIDE DEF Q
<1>3. args \in Q
  BY <1>1, <1>2, SeqInduction
<1> QED  BY <1>3 DEF Q

LEMMA FieldsChange ==
    ASSUME asked \in [Bufs -> Settings], NEW b \in Bufs, NEW s,
           asked' = [asked EXCEPT ![b] = s]
    PROVE  /\ [c \in Bufs |-> asked'[c].items]
                 = [[c \in Bufs |-> asked[c].items] EXCEPT ![b] = s.items]
           /\ [c \in Bufs |-> asked'[c].flag]
                 = [[c \in Bufs |-> asked[c].flag] EXCEPT ![b] = s.flag]
           /\ [c \in Bufs |-> asked'[c].width]
                 = [[c \in Bufs |-> asked[c].width] EXCEPT ![b] = s.width]
<1>1. \A c \in Bufs : asked'[c] = IF c = b THEN s ELSE asked[c]
  OBVIOUS
<1>2. [c \in Bufs |-> asked'[c].items] = [[c \in Bufs |-> asked[c].items] EXCEPT ![b] = s.items]
  BY <1>1
<1>3. [c \in Bufs |-> asked'[c].flag] = [[c \in Bufs |-> asked[c].flag] EXCEPT ![b] = s.flag]
  BY <1>1
<1>4. [c \in Bufs |-> asked'[c].width] = [[c \in Bufs |-> asked[c].width] EXCEPT ![b] = s.width]
  BY <1>1
<1> QED  BY <1>2, <1>3, <1>4

\* When what is asked of the current buffer changes, and the other windows are
\* left alone, the abstract state is reconfigured.
LEMMA AskReconfigures ==
    ASSUME LInv, BarFresh, BarFresh', NEW b \in Bufs, curBuf' = b, NEW s \in Settings,
           asked' = [asked EXCEPT ![b] = s], UNCHANGED <<curWin, winMatches>>
    PROVE  Display!Reconfigure(b, s.items, s.flag, s.width)
<1>1. asked \in [Bufs -> Settings] /\ curWin \in Wins
  BY DEF LInv, AskedKnown, FInv, IInv, TypeOK, WindowsTyped
<1>2. asked'[b] = s /\ \A c \in Bufs \ {b} : asked'[c] = asked[c]
  BY <1>1
<1>3. AskedFor(b)' = Display!Wanted(s.items, s.flag, s.width)
  BY <1>2, DisplayWanted DEF AskedFor
<1>4. \A w : Shown(w)' = Shown(w)
  BY DEF Shown
<1> DEFINE new == Display!Wanted(s.items, s.flag, s.width)
<1>5. AskedFor(curBuf)' = new
  BY <1>3
<1>6. shownBar' = [w \in Wins |-> IF w = curWin THEN new ELSE Shown(w)]
  <2> HIDE DEF new
  <2> QED  BY <1>4, <1>5 DEF BarFresh
<1>7. shownBar' = [shownBar EXCEPT ![curWin] = new]
  <2> HIDE DEF new
  <2> QED  BY <1>1, <1>6 DEF BarFresh
<1>8. /\ [c \in Bufs |-> asked[c].items]' = [[c \in Bufs |-> asked[c].items] EXCEPT ![b] = s.items]
      /\ [c \in Bufs |-> asked[c].flag]' = [[c \in Bufs |-> asked[c].flag] EXCEPT ![b] = s.flag]
      /\ [c \in Bufs |-> asked[c].width]' = [[c \in Bufs |-> asked[c].width] EXCEPT ![b] = s.width]
  BY <1>1, FieldsChange
<1> QED  BY <1>7, <1>8 DEF Display!Reconfigure

LEMMA AskWitness ==
    ASSUME asked \in [Bufs -> Settings], NEW k \in Bufs, k = winBuf[curWin],
           UNCHANGED <<winBuf, curWin>>,
           NEW s \in Settings, s.flag = asked[k].flag, s.width = asked[k].width,
           Display!Reconfigure(k, s.items, s.flag, s.width)
    PROVE  Display!Ask
<1> PICK set \in SUBSET Items : set = s.items
  BY DEF Settings
<1>1. Display!Reconfigure(winBuf[curWin], set,
         [b \in Bufs |-> asked[b].flag][winBuf[curWin]],
         [b \in Bufs |-> asked[b].width][winBuf[curWin]])
  BY DEF Display!Reconfigure
<1>2. \E more \in SUBSET Items :
         Display!Reconfigure(winBuf[curWin], more,
            [b \in Bufs |-> asked[b].flag][winBuf[curWin]],
            [b \in Bufs |-> asked[b].width][winBuf[curWin]])
  <2> WITNESS set \in SUBSET Items
  <2> QED  BY <1>1
<1> QED  BY <1>2, Zenon DEF Display!Ask

LEMMA StartsStep ==
    ASSUME LInv, BarFresh, BarFresh', Starts, Asking(curBuf', pending')
    PROVE  Display!Next
<1>1. /\ IInv /\ AskedKnown /\ Idle /\ UNCHANGED <<curWin, winMatches, config>>
      /\ pending' \in Seq(Call) /\ curBuf' \in Bufs /\ curBuf \in Bufs
      /\ asked \in [Bufs -> Settings]
  BY StartsTyped DEF LInv, FInv, IInv, TypeOK, WindowsTyped, curBuf, AskedKnown
<1> PICK b \in Bufs : b = curBuf'
  BY <1>1
<1> PICK t : t = asked[b]
  OBVIOUS
<1> PICK s : s = Outcome(t, pending')
  OBVIOUS
<1>2. t \in Settings /\ s \in Settings
  BY <1>1, Fold_Typed
<1>3. asked' = [asked EXCEPT ![b] = s]
  BY DEF Asking
<1>4. Display!Reconfigure(b, s.items, s.flag, s.width)
  BY <1>1, <1>2, <1>3, AskReconfigures
<1>5. CASE HighlightCommand \/ HighlightOnOff \/ SyntaxEvent \/ SetTextwidth
  <2>1. winBuf' = winBuf /\ b = winBuf[curWin]
    BY <1>1, <1>5 DEF HighlightCommand, HighlightOnOff, SyntaxEvent, SetTextwidth,
       Start, display, curBuf
  <2>2. /\ [c \in Bufs |-> asked[c].items][b] = t.items
        /\ [c \in Bufs |-> asked[c].flag][b] = t.flag
        /\ [c \in Bufs |-> asked[c].width][b] = t.width
    BY <1>1
  <2>3. /\ s.items \in SUBSET Items /\ s.flag \in {"unset", "on", "off"}
        /\ s.width \in TextWidths
    BY <1>2 DEF Settings
  <2>4. CASE s.flag = t.flag /\ s.width = t.width
    <3>1. Display!Ask
      BY <1>1, <1>2, <1>4, <2>1, <2>4, AskWitness
    <3> QED  BY <3>1 DEF Display!Next
  <2>5. CASE HighlightCommand
    <3>1. PICK args \in Commands : Start(args)
      BY <2>5 DEF HighlightCommand
    <3>2. args \in Seq(Arg) /\ pending' = args
      BY <3>1, CommandAssumption DEF Start
    <3> QED  BY <1>2, <2>4, <3>2, Fold_Args
  <2>6. CASE SyntaxEvent
    <3>1. pending' = <<Apply>> /\ Apply \in Call
      BY <2>6 DEF SyntaxEvent, Start, Call
    <3>2. s = Effect(t, Apply)
      BY <1>2, <3>1, Fold_One
    <3>3. Effect(t, Apply) = t
      BY DEF Effect, Apply
    <3> QED  BY <2>4, <3>2, <3>3
  <2>7. CASE HighlightOnOff
    <3>1. PICK on \in BOOLEAN : pending' = <<Enable(on)>> /\ Enable(on) \in Call
      BY <2>7 DEF HighlightOnOff, Start, Call, Enable
    <3>2. s = Effect(t, Enable(on))
      BY <1>2, <3>1, Fold_One
    <3>3. Effect(t, Enable(on)) = [t EXCEPT !.flag = IF on THEN "on" ELSE "off"]
      BY DEF Effect, Enable
    <3>4. s.items = t.items /\ s.flag \in {"on", "off"} /\ s.width = t.width
      BY <1>2, <3>2, <3>3 DEF Settings
    <3>5. Display!OnOff
      BY <1>1, <1>4, <2>1, <2>2, <3>4 DEF Display!OnOff, Display!Reconfigure
    <3> QED  BY <3>5 DEF Display!Next
  <2>8. CASE SetTextwidth
    <3>1. PICK n \in TextWidths : pending' = <<SetTw(n), Apply>>
      BY <2>8 DEF SetTextwidth, Start
    <3>2. SetTw(n) \in Call /\ Apply \in Call
      BY DEF SetTw, Call
    <3>3. pending' = Append(<<SetTw(n)>>, Apply) /\ <<SetTw(n)>> \in Seq(Call)
      BY <3>1, <3>2
    <3>4. s = Effect(Effect(t, SetTw(n)), Apply)
      <4>1. Outcome(t, <<SetTw(n)>>) = Effect(t, SetTw(n))
        BY <1>2, <3>2, Fold_One
      <4>2. Outcome(t, Append(<<SetTw(n)>>, Apply)) = Effect(Outcome(t, <<SetTw(n)>>), Apply)
        BY <1>2, <3>2, <3>3, Fold_Append
      <4> QED  BY <3>3, <4>1, <4>2
    <3>5. \A r : Effect(r, Apply) = r
      BY DEF Effect, Apply
    <3>6. Effect(t, SetTw(n)) = [t EXCEPT !.width = n]
      BY DEF Effect, SetTw
    <3>7. s.items = t.items /\ s.flag = t.flag /\ s.width \in TextWidths
      BY <1>2, <3>4, <3>5, <3>6 DEF Settings
    <3>8. Display!Reconfigure(winBuf[curWin],
             [c \in Bufs |-> asked[c].items][winBuf[curWin]],
             [c \in Bufs |-> asked[c].flag][winBuf[curWin]], s.width)
      BY <1>4, <2>1, <2>2, <3>7 DEF Display!Reconfigure
    <3>9. Display!SetWidth
      BY <1>1, <2>1, <3>7, <3>8 DEF Display!SetWidth
    <3> QED  BY <3>9 DEF Display!Next
  <2> QED  BY <1>5, <2>5, <2>6, <2>7, <2>8
<1>6. CASE \E c \in Bufs, setup \in Setups : EditBuffer(c, setup)
  <2>1. PICK c \in Bufs, setup \in Setups : EditBuffer(c, setup)
    BY <1>6
  <2>2. /\ curWin \in Wins /\ winBuf \in [Wins -> Bufs \cup {Closed}]
        /\ winBuf' = [winBuf EXCEPT ![curWin] = c] /\ curWin' = curWin
    BY <1>1, <2>1 DEF EditBuffer, IInv, TypeOK, WindowsTyped
  <2>3. b = c
    BY <2>2 DEF curBuf
  <2>4. /\ s.items \in SUBSET Items /\ s.flag \in {"unset", "on", "off"}
        /\ s.width \in TextWidths
    BY <1>2 DEF Settings
  <2>5. Display!Edit(c)
    BY <1>4, <2>2, <2>3, <2>4 DEF Display!Edit
  <2> QED  BY <2>1, <2>5 DEF Display!Next
<1> QED  BY <1>5, <1>6 DEF Starts

\* Deleting a buffer forgets its settings; no window displayed it.
LEMMA DeleteBufferStep ==
    ASSUME LInv, BarFresh, BarFresh', NEW b \in Bufs, DeleteBuffer(b),
           asked' = [asked EXCEPT ![b] = Unconfigured]
    PROVE  Display!Forget(b)
<1>1. /\ asked \in [Bufs -> Settings] /\ curWin \in Wins /\ curBuf \in Bufs /\ b # curBuf
      /\ UNCHANGED <<winBuf, curWin, winMatches>> /\ curBuf' = curBuf
  BY DEF LInv, AskedKnown, FInv, IInv, TypeOK, WindowsTyped, curBuf, DeleteBuffer
<1>2. asked'[b] = Unconfigured /\ \A c \in Bufs \ {b} : asked'[c] = asked[c]
  BY <1>1
<1>3. AskedFor(curBuf)' = AskedFor(curBuf) /\ \A w : Shown(w)' = Shown(w)
  BY <1>1, <1>2 DEF AskedFor, Shown
<1>4. shownBar' = shownBar
  BY <1>1, <1>3 DEF BarFresh
<1>5. /\ [c \in Bufs |-> asked[c].items]' = [[c \in Bufs |-> asked[c].items] EXCEPT ![b] = {}]
      /\ [c \in Bufs |-> asked[c].flag]' = [[c \in Bufs |-> asked[c].flag] EXCEPT ![b] = "unset"]
      /\ [c \in Bufs |-> asked[c].width]' = [[c \in Bufs |-> asked[c].width] EXCEPT ![b] = 0]
  <2>1. /\ Unconfigured.items = {} /\ Unconfigured.flag = "unset"
        /\ Unconfigured.width = 0
    BY DEF Unconfigured
  <2> QED  BY <1>1, <2>1, FieldsChange
<1>6. \A w \in Wins : winBuf[w] # b
  BY DEF DeleteBuffer
<1> QED  BY <1>1, <1>4, <1>5, <1>6 DEF Display!Forget

\* The steps of a command in progress are not seen.
LEMMA ContinueStep ==
    ASSUME LInv, BarFresh, BarFresh', Continue, UNCHANGED asked
    PROVE  UNCHANGED Display!vars
<1>1. /\ UNCHANGED <<winBuf, curWin>>
      /\ \A v \in Wins \ {curWin} : winMatches'[v] = winMatches[v]
  <2>1. curBuf \in Bufs
    BY DEF LInv, FInv, IInv, TypeOK, WindowsTyped, curBuf
  <2> QED  BY <2>1, ContinueSettings DEF LInv, FInv
<1>2. curBuf' = curBuf
  BY <1>1 DEF curBuf
<1>3. AskedFor(curBuf)' = AskedFor(curBuf)
  BY <1>2 DEF AskedFor
<1>4. \A v \in Wins \ {curWin} : Shown(v)' = Shown(v)
  BY <1>1 DEF Shown
<1>5. shownBar' = shownBar
  BY <1>1, <1>3, <1>4 DEF BarFresh
<1> QED  BY <1>1, <1>5 DEF Display!vars

\* Nor is what other scripts do.
LEMMA OtherScriptStep ==
    ASSUME LInv, OtherScript, UNCHANGED asked
    PROVE  UNCHANGED Display!vars
<1>1. PICK w \in Wins, id \in ForeignIds : ForeignAdd(w, id) \/ ForeignDelete(w, id)
  BY DEF OtherScript
<1>2. UNCHANGED <<winBuf, curWin, pending>>
  BY <1>1 DEF ForeignAdd, ForeignDelete, OtherScript
<1>3. winMatches = [v \in Wins |-> winMatches[v]]
  BY DEF LInv, FInv, IInv, TypeOK, WindowsTyped, IsDicts
<1>4. ASSUME NEW v \in Wins PROVE Shown(v)' = Shown(v)
  <2>1. /\ DOMAIN winMatches'[v] \ ForeignIds = DOMAIN winMatches[v] \ ForeignIds
        /\ \A k \in DOMAIN winMatches[v] \ ForeignIds : winMatches'[v][k] = winMatches[v][k]
    <3>1. CASE ForeignAdd(w, id)
      <4>1. winMatches'[v] = IF v = w THEN With(winMatches[w], id, ForeignMatch)
                                      ELSE winMatches[v]
        BY <1>3, <3>1 DEF ForeignAdd
      <4> QED  BY <4>1 DEF With
    <3>2. CASE ForeignDelete(w, id)
      <4>1. winMatches'[v] = IF v = w THEN Without(winMatches[w], id)
                                      ELSE winMatches[v]
        BY <1>3, <3>2 DEF ForeignDelete
      <4> QED  BY <4>1 DEF Without
    <3> QED  BY <1>1, <3>1, <3>2
  <2> QED  BY <2>1 DEF Shown
<1>5. Idle' = Idle /\ curBuf' = curBuf
  BY <1>2 DEF Idle, curBuf
<1>6. shownBar' = shownBar
  BY <1>2, <1>4, <1>5 DEF shownBar
<1> QED  BY <1>2, <1>6 DEF Display!vars

LEMMA WindowCommandStep ==
    ASSUME LInv, BarFresh', WindowCommand, UNCHANGED asked
    PROVE  Display!Next
<1>1. /\ IInv /\ AskedKnown /\ Idle /\ Idle' /\ curWin \in Wins /\ curBuf \in Bufs
      /\ winBuf \in [Wins -> Bufs \cup {Closed}] /\ asked \in [Bufs -> Settings]
      /\ winBuf[curWin] # Closed
  BY DEF LInv, FInv, IInv, TypeOK, WindowsTyped, WindowCommand, Idle, curBuf, AskedKnown
<1>2. PICK w \in Wins : Split(w) \/ Focus(w) \/ CloseCurrent(w) \/ CloseOther(w)
  BY DEF WindowCommand
<1>3. winMatches = [v \in Wins |-> winMatches[v]]
  BY <1>1 DEF IInv, TypeOK, WindowsTyped, IsDicts
<1>4. /\ shownBar = [v \in Wins |-> Shown(v)]
      /\ shownBar' = [v \in Wins |-> Shown(v)']
  BY <1>1 DEF shownBar
<1>8. \A b \in Bufs : Display!WantedBy(b) = AskedFor(b) /\ AskedFor(b)' = AskedFor(b)
  BY <1>1, DisplayWanted DEF Display!WantedBy, AskedFor
<1>5. \A v \in Wins, b \in Bufs :
         curWin' = v /\ curBuf' = b => Shown(v)' = Display!WantedBy(b)
  <2>1. ASSUME NEW v \in Wins, NEW b \in Bufs, curWin' = v, curBuf' = b
        PROVE  Shown(v)' = AskedFor(b)'
    BY <1>4, <2>1 DEF BarFresh, AskedFor
  <2> QED  BY <1>8, <2>1
<1>6. \A v : winMatches'[v] = winMatches[v] => Shown(v)' = Shown(v)
  BY DEF Shown
<1>7. \A v : winMatches'[v] = NoMap => Shown(v)' = {}
  BY DEF Shown, NoMap
<1>9. Display!Open = Open
  BY DEF Display!Open, Open
<1>10. CASE Split(w)
  <2>1. /\ w \notin Open /\ w # curWin /\ curWin' = w
        /\ winBuf' = [winBuf EXCEPT ![w] = curBuf]
        /\ \A v \in Wins \ {w} : winMatches'[v] = winMatches[v]
    BY <1>1, <1>10, SyncOthers DEF Split, Open
  <2>2. curBuf' = curBuf
    BY <1>1, <2>1 DEF curBuf
  <2>3. Shown(w)' = Display!WantedBy(curBuf)
    BY <1>1, <1>5, <2>1, <2>2
  <2>4. shownBar' = [shownBar EXCEPT ![w] = Display!WantedBy(curBuf)]
    BY <1>4, <1>6, <2>1, <2>3
  <2>5. Display!Enter(w)
    BY <1>9, <2>1, <2>4 DEF Display!Enter, curBuf
  <2> QED  BY <2>5 DEF Display!Next
<1>11. CASE Focus(w)
  <2>1. /\ w \in Open /\ w # curWin /\ curWin' = w /\ winBuf' = winBuf
        /\ \A v \in Wins \ {w} : winMatches'[v] = winMatches[v]
    BY <1>1, <1>11, SyncOthers DEF Focus
  <2>2. curBuf' = winBuf[w] /\ winBuf[w] \in Bufs /\ winBuf = [winBuf EXCEPT ![w] = winBuf[w]]
    BY <1>1, <2>1 DEF curBuf, Open
  <2>3. Shown(w)' = Display!WantedBy(winBuf[w])
    BY <1>5, <2>1, <2>2
  <2>4. shownBar' = [shownBar EXCEPT ![w] = Display!WantedBy(winBuf[w])]
    BY <1>4, <1>6, <2>1, <2>3
  <2>5. Display!Enter(w)
    BY <1>9, <2>1, <2>2, <2>4 DEF Display!Enter
  <2> QED  BY <2>5 DEF Display!Next
<1>12. CASE CloseCurrent(w)
  <2> DEFINE kept == MatchAddAll(Unsynced(w), bufMatches[winBuf[w]])
  <2>1. /\ w \in Open /\ w # curWin /\ curWin' = w
        /\ winBuf' = [winBuf EXCEPT ![curWin] = Closed]
        /\ winMatches' = [winMatches EXCEPT ![curWin] = NoMap, ![w] = kept]
    BY <1>12 DEF CloseCurrent
  <2> HIDE DEF kept
  <2>2. /\ winMatches'[curWin] = NoMap
        /\ \A v \in Wins \ {w, curWin} : winMatches'[v] = winMatches[v]
    BY <1>1, <1>3, <2>1
  <2>3. curBuf' = winBuf[w] /\ winBuf[w] \in Bufs
    BY <1>1, <2>1 DEF curBuf, Open
  <2>4. Shown(w)' = Display!WantedBy(winBuf[w])
    BY <1>5, <2>1, <2>3
  <2>5. shownBar' = [shownBar EXCEPT ![w] = Display!WantedBy(winBuf[w]), ![curWin] = {}]
    BY <1>1, <1>4, <1>6, <1>7, <2>1, <2>2, <2>4
  <2>6. Display!Enter(w)
    BY <1>9, <2>1, <2>5 DEF Display!Enter
  <2> QED  BY <2>6 DEF Display!Next
<1>13. CASE CloseOther(w)
  <2>1. /\ w \in Open \ {curWin} /\ curWin' = curWin
        /\ winBuf' = [winBuf EXCEPT ![w] = Closed]
        /\ winMatches' = [winMatches EXCEPT ![w] = NoMap]
    BY <1>13 DEF CloseOther
  <2>2. shownBar' = [shownBar EXCEPT ![w] = {}]
    BY <1>3, <1>4, <1>6, <1>7, <2>1
  <2>3. Display!CloseOther(w)
    BY <1>9, <2>1, <2>2 DEF Display!CloseOther
  <2> QED  BY <2>3 DEF Display!Next
<1> QED  BY <1>2, <1>10, <1>11, <1>12, <1>13

LEMMA DisplayInit == HInit => Display!Init
<1> SUFFICES ASSUME HInit PROVE Display!Init
  OBVIOUS
<1>1. Idle /\ \A w \in Wins : winMatches[w] = NoMap
  BY DEF HInit, Init, Idle
<1>2. shownBar = [w \in Wins |-> {}]
  BY <1>1 DEF shownBar, Shown, NoMap
<1>3. \E w \in Wins, b \in Bufs :
        /\ curWin = w
        /\ winBuf = [v \in Wins |-> IF v = w THEN b ELSE Closed]
  BY DEF HInit, Init
<1>4. \A b \in Bufs : asked[b].items = {} /\ asked[b].flag = "unset" /\ asked[b].width = 0
  BY DEF HInit, Unconfigured
<1> QED  BY <1>2, <1>3, <1>4 DEF Display!Init

LEMMA DisplayNext ==
    ASSUME LInv, BarFresh, BarFresh', [HNext]_<<vars, asked>>
    PROVE  [Display!Next]_(Display!vars)
<1>1. CASE /\ Starts
           /\ asked' = [asked EXCEPT ![curBuf'] = FoldLeft(Effect, @, pending')]
  BY <1>1, StartsAsk, StartsStep
<1>2. CASE \E b \in Bufs : DeleteBuffer(b) /\ asked' = [asked EXCEPT ![b] = Unconfigured]
  BY <1>2, DeleteBufferStep DEF Display!Next
<1>3. CASE Continue /\ UNCHANGED asked
  BY <1>3, ContinueStep
<1>4. CASE WindowCommand /\ UNCHANGED asked
  BY <1>4, WindowCommandStep
<1>5. CASE OtherScript /\ UNCHANGED asked
  BY <1>5, OtherScriptStep
<1>6. CASE UNCHANGED <<vars, asked>>
  <2>1. UNCHANGED <<winBuf, curWin, winMatches, pending, asked>>
    BY <1>6 DEF vars, display
  <2>2. shownBar' = shownBar
    BY <2>1 DEF shownBar, Shown, Idle, curBuf
  <2> QED  BY <2>1, <2>2 DEF Display!vars
<1>7. \/ /\ Starts
         /\ asked' = [asked EXCEPT ![curBuf'] = FoldLeft(Effect, @, pending')]
      \/ \E b \in Bufs : DeleteBuffer(b) /\ asked' = [asked EXCEPT ![b] = Unconfigured]
      \/ Continue /\ UNCHANGED asked
      \/ WindowCommand /\ UNCHANGED asked
      \/ OtherScript /\ UNCHANGED asked
      \/ UNCHANGED <<vars, asked>>
  BY Zenon DEF HNext, Starts
<1> QED  BY <1>1, <1>2, <1>3, <1>4, <1>5, <1>6, <1>7

\* Every :Highlight command, and every event that re-applies the items, is one
\* step of HighlightDisplay, for every set of windows, buffers, items, commands
\* and file type setups.
THEOREM RefinesDisplay == HSpec => CommandsAtomic
<1>1. HInit => Display!Init
  BY DisplayInit
<1>2. LInv /\ BarFresh /\ BarFresh' /\ [HNext]_<<vars, asked>>
         => [Display!Next]_(Display!vars)
  BY DisplayNext
<1>3. LInv => BarFresh
  BY BarIsFresh
<1> QED  BY <1>1, <1>2, <1>3, AskedAlwaysKnown, PTL
         DEF HSpec, CommandsAtomic, Display!Spec
=============================================================================

-------------------------- MODULE StatusCacheProofs --------------------------
(***************************************************************************)
(* However many Vims run at one time, whatever tags they require, wherever  *)
(* they crash and whatever they cannot delete or write, a status line that  *)
(* is not of a Vim's own settings has one of the named reasons.             *)
(***************************************************************************)
EXTENDS StatusCache, TLAPS

\* The cache files without a reason to be wrong are of these settings.
AllOf(t) == \A f \in Present : cache[f].excused \/ SameTag(cache[f].tag, t)

\* A Vim that has started, and that has no reason to be wrong.
Sound(v) == pc[v] \in {"enter", "up"} /\ v \notin excused

\* What such a Vim may rely on when it reads a cache file or makes one.
SoundInv ==
    /\ \A v \in Vims : Sound(v) =>
          /\ tagFile = NoTag \/ SameTag(tagFile, required[v])
          /\ AllOf(required[v])
    /\ \A v, w \in Vims : Sound(v) /\ Sound(w) => SameTag(required[v], required[w])

\* Whoever runs beside a Vim that replaces the cache has the same settings, or
\* is excused.
BesideInv ==
    \A v, w \in Vims :
        pc[v] # "off" /\ v \notin excused /\ Replacing(w)
            => SameTag(required[v], required[w])

\* What is not deleted yet is about to be, or is of the new settings.
WipeInv ==
    /\ \A v \in Vims : pc[v] = "wipe" =>
          \A f \in Present :
              \/ f \in toWipe[v]
              \/ cache[f].excused \/ SameTag(cache[f].tag, required[v])
    /\ \A v \in Vims : pc[v] = "write" => AllOf(required[v])

Unloaded == \A v \in Vims : pc[v] # "up" => shown[v] = Nothing

IInv ==
    /\ TypeOK /\ SoundInv /\ BesideInv /\ WipeInv /\ Unloaded
    /\ TagHonest /\ NothingStale

-----------------------------------------------------------------------------
(***************************************************************************)
(* Tags.                                                                   *)
(***************************************************************************)
LEMMA SameSelf == \A t : SameTag(t, t)
BY DEF SameTag

LEMMA SameSym == \A t, u : SameTag(t, u) => SameTag(u, t)
BY DEF SameTag

LEMMA SameTrans == \A t, u, x : SameTag(t, u) /\ SameTag(u, x) => SameTag(t, x)
<1>. SUFFICES ASSUME NEW t, NEW u, NEW x, SameTag(t, u), SameTag(u, x), t # u, u # x
              PROVE  SameTag(t, x)
  BY DEF SameTag
<1>1. PICK s \in Spellings : t \in s /\ u \in s
  BY DEF SameTag
<1>2. PICK r \in Spellings : u \in r /\ x \in r
  BY DEF SameTag
<1>3. s = r
  BY <1>1, <1>2, StatusCacheAssumption
<1>. QED  BY <1>1, <1>2, <1>3 DEF SameTag

LEMMA SameNoTag == \A t : SameTag(NoTag, t) => t = NoTag
BY StatusCacheAssumption DEF SameTag, Tags

LEMMA ExcusedLines == \A l \in Lines : [l EXCEPT !.excused = TRUE] \in Lines
BY DEF Lines

-----------------------------------------------------------------------------
(***************************************************************************)
(* The invariant.                                                          *)
(***************************************************************************)
LEMMA Init_IInv == Init => IInv
<1>. SUFFICES ASSUME Init PROVE IInv
  OBVIOUS
<1>1. cache \in [Files -> Lines]
  <2>1. Nothing \in Lines
    BY DEF Lines, Nothing
  <2>2. \A t \in Tags : [tag |-> t, excused |-> FALSE] \in Lines
    BY DEF Lines
  <2>. QED  BY <2>1, <2>2 DEF Init
<1>2. [v \in Vims |-> Nothing] \in [Vims -> Lines]
  BY DEF Lines, Nothing
<1>. QED
  BY <1>1, <1>2 DEF Init, IInv, TypeOK, SoundInv, Sound, BesideInv, Replacing, WipeInv,
                    Unloaded, TagHonest, NothingStale

\* Types, step by step.
LEMMA TypeOK_Step ==
    ASSUME TypeOK, NEW v \in Vims,
           \/ Start(v) \/ Check(v) \/ Glob(v) \/ Wipe(v) \/ WriteTag(v)
           \/ Load(v) \/ End(v)
    PROVE  TypeOK'
<1>1. CASE Start(v)
  <2>1. PICK t \in Tags : required' = [required EXCEPT ![v] = t]
    BY <1>1 DEF Start
  <2>2. excused' \in SUBSET Vims
    BY <1>1 DEF Start, TypeOK
  <2>. QED  BY <1>1, <2>1, <2>2 DEF Start, TypeOK
<1>2. CASE Check(v)
  BY <1>2 DEF Check, TypeOK
<1>3. CASE Glob(v)
  BY <1>3 DEF Glob, Present, TypeOK
<1>4. CASE Wipe(v)
  <2>1. cache' \in [Files -> Lines]
    <3>1. CASE cache' = cache
      BY <3>1 DEF TypeOK
    <3>2. CASE \E f \in toWipe[v] : cache' = [cache EXCEPT ![f] = Nothing]
      BY <3>2 DEF TypeOK, Lines, Nothing
    <3>3. CASE \E f \in toWipe[v] : cache' = [cache EXCEPT ![f].excused = TRUE]
      <4>1. PICK f \in toWipe[v] :
                cache' = [cache EXCEPT ![f] = [cache[f] EXCEPT !.excused = TRUE]]
        BY <3>3
      <4>2. f \in Files /\ cache[f] \in Lines
        BY <4>1 DEF TypeOK
      <4>3. [cache[f] EXCEPT !.excused = TRUE] \in Lines
        BY <4>2, ExcusedLines
      <4>. QED  BY <4>1, <4>2, <4>3 DEF TypeOK
    <3>. QED  BY <1>4, <3>1, <3>2, <3>3 DEF Wipe
  <2>. QED  BY <1>4, <2>1 DEF Wipe, TypeOK
<1>5. CASE WriteTag(v)
  BY <1>5 DEF WriteTag, TypeOK
<1>6. CASE Load(v)
  <2>. DEFINE own == [tag |-> required[v], excused |-> v \in excused]
  <2>1. own \in Lines
    BY <1>6 DEF TypeOK, Lines
  <2>2. PICK f \in Files :
            IF cache[f] # Nothing
            THEN shown' = [shown EXCEPT ![v] = cache[f]] /\ UNCHANGED cache
            ELSE /\ shown' = [shown EXCEPT ![v] = own]
                 /\ cache' \in {cache, [cache EXCEPT ![f] = own]}
    BY <1>6 DEF Load
  <2>. HIDE DEF own
  <2>3. cache' \in [Files -> Lines] /\ shown' \in [Vims -> Lines]
    BY <2>1, <2>2 DEF TypeOK
  <2>. QED  BY <1>6, <2>3 DEF Load, TypeOK
<1>7. CASE End(v)
  BY <1>7 DEF End, TypeOK, Lines, Nothing
<1>. QED  BY <1>1, <1>2, <1>3, <1>4, <1>5, <1>6, <1>7

LEMMA Start_IInv ==
    ASSUME IInv, NEW v \in Vims, Start(v)
    PROVE  IInv'
<1>1. TypeOK'
  BY TypeOK_Step DEF IInv
<1>2. PICK t \in Tags :
          /\ required' = [required EXCEPT ![v] = t]
          /\ excused' = IF \E w \in Vims : Replacing(w) /\ ~SameTag(required[w], t)
                        THEN excused \cup {v} ELSE excused \ {v}
  BY DEF Start
<1>3. /\ pc[v] = "off" /\ pc' = [pc EXCEPT ![v] = "check"]
      /\ UNCHANGED <<tagFile, cache, toWipe, shown>>
  BY DEF Start
<1>4. \A w \in Vims : w # v =>
          pc'[w] = pc[w] /\ required'[w] = required[w] /\ (w \in excused' <=> w \in excused)
  BY <1>2, <1>3 DEF IInv, TypeOK
<1>5. pc'[v] = "check" /\ required'[v] = t
  BY <1>2, <1>3 DEF IInv, TypeOK
<1>6. SoundInv' /\ WipeInv'
  BY <1>3, <1>4, <1>5 DEF IInv, SoundInv, Sound, WipeInv, AllOf, Present
<1>7. BesideInv'
  <2>. SUFFICES ASSUME NEW u \in Vims, NEW w \in Vims, pc'[u] # "off",
                       u \notin excused', Replacing(w)'
                PROVE  SameTag(required'[u], required'[w])
    BY DEF BesideInv
  <2>1. w # v /\ Replacing(w)
    BY <1>4, <1>5 DEF Replacing
  <2>2. CASE u = v
    <3>1. SameTag(required[w], t)
      BY <1>2, <2>1, <2>2 DEF IInv, TypeOK
    <3>. QED  BY <1>4, <1>5, <2>1, <2>2, <3>1, SameSym
  <2>3. CASE u # v
    BY <1>4, <2>1, <2>3 DEF IInv, BesideInv
  <2>. QED  BY <2>2, <2>3
<1>8. Unloaded' /\ TagHonest' /\ NothingStale'
  BY <1>3, <1>4, <1>5 DEF IInv, Unloaded, TagHonest, NothingStale, Present
<1>. QED  BY <1>1, <1>6, <1>7, <1>8 DEF IInv

LEMMA Check_IInv ==
    ASSUME IInv, NEW v \in Vims, Check(v)
    PROVE  IInv'
<1>1. TypeOK'
  BY TypeOK_Step DEF IInv
<1>2. /\ pc[v] = "check"
      /\ pc' = [pc EXCEPT ![v] = IF SameTag(tagFile, required[v]) THEN "enter" ELSE "glob"]
      /\ UNCHANGED <<tagFile, cache, required, toWipe, shown, excused>>
  BY DEF Check
<1>3. /\ pc'[v] = IF SameTag(tagFile, required[v]) THEN "enter" ELSE "glob"
      /\ \A w \in Vims : w # v => pc'[w] = pc[w]
  BY <1>2 DEF IInv, TypeOK
<1>4. tagFile # NoTag \/ pc'[v] = "glob"
  BY <1>2, <1>3, SameNoTag, StatusCacheAssumption DEF IInv, TypeOK
<1>5. SoundInv'
  <2>1. ASSUME NEW w \in Vims, Sound(w)'
        PROVE  (tagFile = NoTag \/ SameTag(tagFile, required[w])) /\ AllOf(required[w])
    <3>1. CASE w = v
      <4>1. SameTag(tagFile, required[v]) /\ tagFile # NoTag
        BY <1>3, <1>4, <2>1, <3>1 DEF Sound
      <4>2. AllOf(required[v])
        BY <4>1, SameTrans DEF IInv, TagHonest, AllOf
      <4>. QED  BY <3>1, <4>1, <4>2
    <3>2. CASE w # v
      BY <1>2, <1>3, <2>1, <3>2 DEF IInv, SoundInv, Sound
    <3>. QED  BY <3>1, <3>2
  <2>2. ASSUME NEW u \in Vims, NEW w \in Vims, Sound(u)', Sound(w)'
        PROVE  SameTag(required[u], required[w])
    <3>1. CASE u # v /\ w # v
      BY <1>2, <1>3, <2>2, <3>1 DEF IInv, SoundInv, Sound
    <3>2. CASE u = v \/ w = v
      <4>1. tagFile # NoTag
        BY <1>3, <1>4, <2>2, <3>2 DEF Sound
      <4>2. SameTag(tagFile, required[u]) /\ SameTag(tagFile, required[w])
        BY <4>1, <2>1, <2>2
      <4>. QED  BY <4>2, SameSym, SameTrans
    <3>. QED  BY <3>1, <3>2
  <2>3. \A w \in Vims : AllOf(required[w])' <=> AllOf(required[w])
    BY <1>2 DEF AllOf, Present
  <2>. QED  BY <1>2, <2>1, <2>2, <2>3 DEF SoundInv
<1>6. BesideInv' /\ WipeInv'
  BY <1>2, <1>3 DEF IInv, BesideInv, Replacing, WipeInv, AllOf, Present
<1>7. Unloaded' /\ TagHonest' /\ NothingStale'
  BY <1>2, <1>3 DEF IInv, Unloaded, TagHonest, NothingStale, Present
<1>. QED  BY <1>1, <1>5, <1>6, <1>7 DEF IInv

LEMMA Glob_IInv ==
    ASSUME IInv, NEW v \in Vims, Glob(v)
    PROVE  IInv'
<1>1. TypeOK'
  BY TypeOK_Step DEF IInv
<1>2. /\ pc[v] = "glob" /\ pc' = [pc EXCEPT ![v] = "wipe"]
      /\ toWipe' = [toWipe EXCEPT ![v] = Present]
      /\ excused' = excused \cup
             {w \in Vims : pc[w] # "off" /\ ~SameTag(required[w], required[v])}
      /\ UNCHANGED <<tagFile, cache, required, shown>>
  BY DEF Glob
<1>3. /\ pc'[v] = "wipe" /\ toWipe'[v] = Present
      /\ \A w \in Vims : w # v => pc'[w] = pc[w] /\ toWipe'[w] = toWipe[w]
      /\ \A w \in Vims : w \notin excused' =>
             w \notin excused /\ (pc[w] = "off" \/ SameTag(required[w], required[v]))
  BY <1>2 DEF IInv, TypeOK
<1>4. SoundInv'
  BY <1>2, <1>3 DEF IInv, SoundInv, Sound, AllOf, Present
<1>5. BesideInv'
  <2>. SUFFICES ASSUME NEW u \in Vims, NEW w \in Vims, pc'[u] # "off",
                       u \notin excused', Replacing(w)'
                PROVE  SameTag(required[u], required[w])
    BY <1>2 DEF BesideInv
  <2>1. pc[u] # "off" /\ u \notin excused
    BY <1>2, <1>3
  <2>. QED
    BY <1>3, <2>1 DEF IInv, BesideInv, Replacing
<1>6. WipeInv'
  BY <1>2, <1>3 DEF IInv, WipeInv, AllOf, Present
<1>7. Unloaded' /\ TagHonest' /\ NothingStale'
  BY <1>2, <1>3 DEF IInv, Unloaded, TagHonest, NothingStale, Present
<1>. QED  BY <1>1, <1>4, <1>5, <1>6, <1>7 DEF IInv

\* A file that is deleted, or that gets an excuse, breaks nothing.
LEMMA Wipe_IInv ==
    ASSUME IInv, NEW v \in Vims, Wipe(v)
    PROVE  IInv'
<1>1. TypeOK'
  BY TypeOK_Step DEF IInv
<1>2. pc[v] = "wipe" /\ UNCHANGED <<tagFile, required, shown, excused>>
  BY DEF Wipe
<1>3. CASE /\ toWipe[v] = {}
           /\ pc' = [pc EXCEPT ![v] = "write"]
           /\ UNCHANGED <<cache, toWipe>>
  <2>1. pc'[v] = "write" /\ \A w \in Vims : w # v => pc'[w] = pc[w]
    BY <1>3 DEF IInv, TypeOK
  <2>2. SoundInv' /\ BesideInv'
    BY <1>2, <1>3, <2>1 DEF IInv, SoundInv, Sound, AllOf, Present, BesideInv, Replacing
  <2>3. WipeInv'
    BY <1>2, <1>3, <2>1 DEF IInv, WipeInv, AllOf, Present
  <2>4. Unloaded' /\ TagHonest' /\ NothingStale'
    BY <1>2, <1>3, <2>1 DEF IInv, Unloaded, TagHonest, NothingStale, Present
  <2>. QED  BY <1>1, <2>2, <2>3, <2>4 DEF IInv
<1>4. CASE /\ \E f \in toWipe[v] :
                 /\ \/ cache' = [cache EXCEPT ![f] = Nothing]
                    \/ /\ cache[f] # Nothing
                       /\ cache' = [cache EXCEPT ![f].excused = TRUE]
                 /\ toWipe' = [toWipe EXCEPT ![v] = @ \ {f}]
           /\ UNCHANGED pc
  <2>1. PICK f \in toWipe[v] :
            /\ \/ cache' = [cache EXCEPT ![f] = Nothing]
               \/ cache' = [cache EXCEPT ![f] = [cache[f] EXCEPT !.excused = TRUE]]
            /\ toWipe' = [toWipe EXCEPT ![v] = @ \ {f}]
            /\ cache'[f] = Nothing \/ cache[f] # Nothing
    BY <1>4 DEF IInv, TypeOK
  <2>2. f \in Files
    BY <2>1 DEF IInv, TypeOK
  <2>3. \A g \in Files : g # f => cache'[g] = cache[g]
    BY <2>1, <2>2 DEF IInv, TypeOK
  <2>4. cache'[f] = Nothing \/ cache'[f].excused
    BY <2>1, <2>2 DEF IInv, TypeOK, Lines
  <2>5. \A g \in Present' : \/ cache'[g].excused
                            \/ g \in Present /\ g # f /\ cache'[g] = cache[g]
    BY <2>3, <2>4 DEF Present
  <2>6. \A w \in Vims : AllOf(required[w]) => AllOf(required[w])'
    BY <1>2, <2>5 DEF AllOf
  <2>7. SoundInv' /\ BesideInv'
    BY <1>2, <1>4, <2>6 DEF IInv, SoundInv, Sound, BesideInv, Replacing
  <2>8. WipeInv'
    <3>1. \A w \in Vims : toWipe[w] \ {f} \subseteq toWipe'[w]
      BY <2>1 DEF IInv, TypeOK
    <3>. QED  BY <1>2, <1>4, <2>5, <2>6, <3>1 DEF IInv, WipeInv
  <2>9. TagHonest'
    BY <1>2, <2>5 DEF IInv, TagHonest
  <2>10. Unloaded' /\ NothingStale'
    BY <1>2, <1>4 DEF IInv, Unloaded, NothingStale
  <2>. QED  BY <1>1, <2>7, <2>8, <2>9, <2>10 DEF IInv
<1>. QED  BY <1>3, <1>4 DEF Wipe

LEMMA WriteTag_IInv ==
    ASSUME IInv, NEW v \in Vims, WriteTag(v)
    PROVE  IInv'
<1>1. TypeOK'
  BY TypeOK_Step DEF IInv
<1>2. /\ pc[v] = "write" /\ pc' = [pc EXCEPT ![v] = "enter"]
      /\ tagFile' \in {required[v], tagFile, NoTag}
      /\ excused' = IF tagFile' = NoTag \/ SameTag(tagFile', required[v])
                    THEN excused ELSE excused \cup {v}
      /\ UNCHANGED <<cache, required, toWipe, shown>>
  BY DEF WriteTag
<1>3. /\ pc'[v] = "enter" /\ \A w \in Vims : w # v => pc'[w] = pc[w]
      /\ \A w \in Vims : w \notin excused' => w \notin excused
      /\ v \notin excused' => tagFile' = NoTag \/ SameTag(tagFile', required[v])
  BY <1>2 DEF IInv, TypeOK
<1>4. AllOf(required[v])
  BY <1>2 DEF IInv, WipeInv
<1>5. \A w \in Vims : pc[w] # "off" /\ w \notin excused
                        => SameTag(required[v], required[w])
  BY <1>2, SameSym DEF IInv, BesideInv, Replacing
<1>6. \A w \in Vims : AllOf(required[w])' <=> AllOf(required[w])
  BY <1>2 DEF AllOf, Present
<1>7. SoundInv'
  <2>1. ASSUME NEW w \in Vims, Sound(w)'
        PROVE  /\ tagFile' = NoTag \/ SameTag(tagFile', required[w])
               /\ AllOf(required[w])
    <3>1. CASE w = v
      BY <1>3, <1>4, <2>1, <3>1 DEF Sound
    <3>2. CASE w # v
      <4>1. Sound(w) /\ SameTag(required[v], required[w])
        BY <1>3, <1>5, <2>1, <3>2 DEF Sound
      <4>2. /\ AllOf(required[w])
            /\ tagFile = NoTag \/ SameTag(tagFile, required[w])
        BY <4>1 DEF IInv, SoundInv
      <4>. QED  BY <1>2, <4>1, <4>2
    <3>. QED  BY <3>1, <3>2
  <2>2. ASSUME NEW u \in Vims, NEW w \in Vims, Sound(u)', Sound(w)'
        PROVE  SameTag(required[u], required[w])
    <3>1. SameTag(required[v], required[u]) /\ SameTag(required[v], required[w])
      BY <1>2, <1>3, <1>5, <2>2, SameSelf DEF Sound
    <3>. QED  BY <3>1, SameSym, SameTrans
  <2>. QED  BY <1>2, <1>6, <2>1, <2>2 DEF SoundInv
<1>8. BesideInv' /\ WipeInv'
  BY <1>2, <1>3, <1>6 DEF IInv, BesideInv, Replacing, WipeInv, Present
<1>9. TagHonest'
  <2>1. CASE tagFile' = required[v]
    BY <1>2, <1>4, <2>1 DEF TagHonest, AllOf, Present
  <2>2. CASE tagFile' = tagFile \/ tagFile' = NoTag
    BY <1>2, <2>2 DEF IInv, TagHonest, Present
  <2>. QED  BY <1>2, <2>1, <2>2
<1>10. Unloaded' /\ NothingStale'
  BY <1>2, <1>3 DEF IInv, Unloaded, NothingStale
<1>. QED  BY <1>1, <1>7, <1>8, <1>9, <1>10 DEF IInv

LEMMA Load_IInv ==
    ASSUME IInv, NEW v \in Vims, Load(v)
    PROVE  IInv'
<1>. DEFINE own == [tag |-> required[v], excused |-> v \in excused]
<1>1. TypeOK'
  BY TypeOK_Step DEF IInv
<1>2. /\ pc[v] \in {"enter", "up"} /\ pc' = [pc EXCEPT ![v] = "up"]
      /\ UNCHANGED <<tagFile, required, toWipe, excused>>
  BY DEF Load
<1>3. PICK f \in Files :
          IF cache[f] # Nothing
          THEN shown' = [shown EXCEPT ![v] = cache[f]] /\ UNCHANGED cache
          ELSE /\ shown' = [shown EXCEPT ![v] = own]
               /\ cache' \in {cache, [cache EXCEPT ![f] = own]}
  BY DEF Load
<1>4. own.tag = required[v] /\ (own.excused <=> v \in excused)
  OBVIOUS
<1>. HIDE DEF own
<1>5. pc'[v] = "up" /\ \A w \in Vims : w # v => pc'[w] = pc[w]
  BY <1>2 DEF IInv, TypeOK
<1>6. \A w \in Vims : Sound(w)' <=> Sound(w)
  BY <1>2, <1>5 DEF Sound
<1>7. \A g \in Present' : cache'[g] = own \/ (g \in Present /\ cache'[g] = cache[g])
  BY <1>3 DEF IInv, TypeOK, Present
\* Whatever the Vim makes is of the same settings as what others rely on.
<1>8. ASSUME NEW t, AllOf(t), v \notin excused => SameTag(required[v], t)
      PROVE  \A g \in Present' : cache'[g].excused \/ SameTag(cache'[g].tag, t)
  BY <1>4, <1>7, <1>8 DEF AllOf
<1>9. SoundInv'
  <2>1. ASSUME NEW w \in Vims, Sound(w)
        PROVE  AllOf(required[w])'
    <3>1. AllOf(required[w]) /\ (v \notin excused => SameTag(required[v], required[w]))
      BY <1>2, <2>1 DEF IInv, SoundInv, Sound
    <3>2. \A g \in Present' : cache'[g].excused \/ SameTag(cache'[g].tag, required[w])
      BY <1>8, <3>1
    <3>. QED  BY <1>2, <3>2 DEF AllOf
  <2>. QED  BY <1>2, <1>6, <2>1 DEF IInv, SoundInv
<1>10. BesideInv'
  BY <1>2, <1>5 DEF IInv, BesideInv, Replacing
<1>11. WipeInv'
  <2>1. ASSUME NEW w \in Vims, Replacing(w)
        PROVE  v \notin excused => SameTag(required[v], required[w])
    BY <1>2, <2>1 DEF IInv, BesideInv
  <2>2. \A w \in Vims : pc'[w] \in {"wipe", "write"} => w # v /\ pc'[w] = pc[w]
    BY <1>5
  <2>3. ASSUME NEW w \in Vims, pc'[w] = "wipe", NEW g \in Present'
        PROVE  \/ g \in toWipe[w]
               \/ cache'[g].excused \/ SameTag(cache'[g].tag, required[w])
    <3>1. pc[w] = "wipe" /\ Replacing(w)
      BY <2>2, <2>3 DEF Replacing
    <3>2. CASE cache'[g] = own
      BY <1>4, <2>1, <3>1, <3>2
    <3>3. CASE g \in Present /\ cache'[g] = cache[g]
      BY <3>1, <3>3 DEF IInv, WipeInv
    <3>. QED  BY <1>7, <3>2, <3>3
  <2>4. ASSUME NEW w \in Vims, pc'[w] = "write"
        PROVE  AllOf(required[w])'
    <3>1. pc[w] = "write" /\ Replacing(w)
      BY <2>2, <2>4 DEF Replacing
    <3>2. AllOf(required[w])
      BY <3>1 DEF IInv, WipeInv
    <3>3. \A g \in Present' : cache'[g].excused \/ SameTag(cache'[g].tag, required[w])
      BY <1>8, <2>1, <3>1, <3>2
    <3>. QED  BY <1>2, <3>3 DEF AllOf
  <2>. QED  BY <1>2, <2>3, <2>4 DEF WipeInv
<1>12. TagHonest'
  <2>. SUFFICES ASSUME tagFile # NoTag
                PROVE  \A g \in Present' :
                           cache'[g].excused \/ SameTag(cache'[g].tag, tagFile)
    BY <1>2 DEF TagHonest
  <2>1. AllOf(tagFile)
    BY DEF IInv, TagHonest, AllOf
  <2>2. v \notin excused => SameTag(required[v], tagFile)
    BY <1>2, SameSym DEF IInv, SoundInv, Sound
  <2>. QED  BY <1>8, <2>1, <2>2
<1>13. Unloaded'
  BY <1>2, <1>3, <1>5 DEF IInv, TypeOK, Unloaded
<1>14. NothingStale'
  <2>1. \A w \in Vims : w # v => shown'[w] = shown[w]
    BY <1>3 DEF IInv, TypeOK
  <2>2. shown'[v] = own \/ (f \in Present /\ shown'[v] = cache[f])
    BY <1>3 DEF IInv, TypeOK, Present
  <2>3. v \in excused \/ shown'[v].excused \/ SameTag(shown'[v].tag, required[v])
    BY <1>2, <1>4, <2>2, SameSelf DEF IInv, SoundInv, Sound, AllOf
  <2>. QED  BY <1>2, <2>1, <2>3 DEF IInv, NothingStale
<1>. QED  BY <1>1, <1>9, <1>10, <1>11, <1>12, <1>13, <1>14 DEF IInv

LEMMA End_IInv ==
    ASSUME IInv, NEW v \in Vims, End(v)
    PROVE  IInv'
<1>1. TypeOK'
  BY TypeOK_Step DEF IInv
<1>2. /\ pc' = [pc EXCEPT ![v] = "off"] /\ tagFile' \in {tagFile, NoTag}
      /\ required' = [required EXCEPT ![v] = NoTag]
      /\ toWipe' = [toWipe EXCEPT ![v] = {}]
      /\ shown' = [shown EXCEPT ![v] = Nothing]
      /\ excused' = excused \ {v}
      /\ UNCHANGED cache
  BY DEF End
<1>3. /\ pc'[v] = "off" /\ shown'[v] = Nothing
      /\ \A w \in Vims : w # v =>
             /\ pc'[w] = pc[w] /\ required'[w] = required[w] /\ toWipe'[w] = toWipe[w]
             /\ shown'[w] = shown[w] /\ (w \in excused' <=> w \in excused)
  BY <1>2 DEF IInv, TypeOK
<1>4. SoundInv'
  BY <1>2, <1>3 DEF IInv, SoundInv, Sound, AllOf, Present
<1>5. BesideInv' /\ WipeInv'
  BY <1>2, <1>3 DEF IInv, BesideInv, Replacing, WipeInv, AllOf, Present
<1>6. Unloaded' /\ TagHonest' /\ NothingStale'
  BY <1>2, <1>3 DEF IInv, Unloaded, TagHonest, NothingStale, Present
<1>. QED  BY <1>1, <1>4, <1>5, <1>6 DEF IInv

LEMMA Next_IInv == IInv /\ [Next]_vars => IInv'
<1>. SUFFICES ASSUME IInv, [Next]_vars PROVE IInv'
  OBVIOUS
<1>1. CASE UNCHANGED vars
  BY <1>1 DEF vars, IInv, TypeOK, SoundInv, Sound, AllOf, Present, BesideInv, Replacing,
              WipeInv, Unloaded, TagHonest, NothingStale
<1>2. CASE Next
  <2>1. PICK v \in Vims : \/ Start(v) \/ Check(v) \/ Glob(v) \/ Wipe(v) \/ WriteTag(v)
                          \/ Load(v) \/ End(v)
    BY <1>2 DEF Next
  <2>. QED
    BY <2>1, Start_IInv, Check_IInv, Glob_IInv, Wipe_IInv, WriteTag_IInv, Load_IInv,
       End_IInv
<1>. QED  BY <1>1, <1>2

LEMMA Always_IInv == Spec => []IInv
BY Init_IInv, Next_IInv, PTL DEF Spec

-----------------------------------------------------------------------------
\* However many Vims share the cache, and wherever their starts are cut short or
\* overlap: what lies under a tag was made with its settings, or it could not be
\* deleted, or a Vim made it that had the tag of others in place or was overtaken.
THEOREM TagsAlwaysHonest == Spec => []TagHonest
<1>1. IInv => TagHonest
  BY DEF IInv
<1>. QED  BY <1>1, Always_IInv, PTL

\* A Vim that shows status lines of other settings read them from a file with
\* such a reason, or has one itself.
THEOREM NothingEverStale == Spec => []NothingStale
<1>1. IInv => NothingStale
  BY DEF IInv
<1>. QED  BY <1>1, Always_IInv, PTL

\* The tag file, the cache files and what each Vim holds have their types, and a
\* Vim has files left to delete in its deletion loop only, however many start.
THEOREM StatusCacheTypeCorrect == Spec => []TypeOK
<1>1. IInv => TypeOK
  BY DEF IInv
<1>. QED  BY <1>1, Always_IInv, PTL
=============================================================================

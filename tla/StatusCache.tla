----------------------------- MODULE StatusCache -----------------------------
(***************************************************************************)
(* Powerline's cache of status lines (src/vimrc, at "Powerline").  When a   *)
(* Vim starts it compares the tag file with the tag its settings require;   *)
(* if they differ it deletes the cache files one after the other and then   *)
(* writes the tag.  Later, at VimEnter, Powerline reads the cache file of   *)
(* its colour scheme or, when there is none, makes it                       *)
(* (src/bundle/powerline, external here).  Vims share the directory and are *)
(* not kept apart; any of them may crash at any step.  A deletion that      *)
(* fails and a tag that cannot be written are passed over in silence.       *)
(***************************************************************************)
EXTENDS Naturals

CONSTANTS
    Vims,        \* Vims, each of which may run again and again
    Spellings,   \* values of g:PowerlineRequiredCacheTag, together where only
                 \* their case differs
    Files        \* cache files, one for each colour scheme

NoTag == "no tag"
Tags  == UNION Spellings

ASSUME StatusCacheAssumption ==
    /\ NoTag \notin Tags
    /\ \A s, r \in Spellings : s \cap r # {} => s = r

\* Whose status lines a cache file has, and is there a reason why they may be
\* wrong?  (A history: the file could not be deleted, or an excused Vim made it.)
Lines   == [tag : Tags \cup {NoTag}, excused : BOOLEAN]
Nothing == [tag |-> NoTag, excused |-> FALSE]

VARIABLES
    tagFile,   \* what PowerlineCacheTagRead returns
    cache,     \* what is in the cache files
    pc,        \* where a Vim is
    required,  \* g:PowerlineRequiredCacheTag of a Vim
    toWipe,    \* cache files its loop has not tried to delete yet
    shown,     \* the status lines it shows
    excused    \* Vims that left the tag of other settings in place, or that ran
               \* while a Vim with other settings replaced the cache

vars == <<tagFile, cache, pc, required, toWipe, shown, excused>>

TypeOK ==
    /\ tagFile \in Tags \cup {NoTag}
    /\ cache \in [Files -> Lines]
    /\ pc \in [Vims -> {"off", "check", "glob", "wipe", "write", "enter", "up"}]
    /\ required \in [Vims -> Tags \cup {NoTag}]
    /\ toWipe \in [Vims -> SUBSET Files]
    /\ shown \in [Vims -> Lines]
    /\ excused \in SUBSET Vims
    /\ \A v \in Vims : pc[v] # "off" => required[v] \in Tags
    /\ \A v \in Vims : pc[v] # "wipe" => toWipe[v] = {}

-----------------------------------------------------------------------------
\* Vim's != ignores case: 'ignorecase' is set by then.
SameTag(t, u) == t = u \/ \E s \in Spellings : t \in s /\ u \in s

Present == {f \in Files : cache[f] # Nothing}

Replacing(w) == pc[w] \in {"wipe", "write"}

\* A Vim is started, with the settings there are now.
Start(v) ==
    /\ pc[v] = "off"
    /\ pc' = [pc EXCEPT ![v] = "check"]
    /\ \E t \in Tags :
          /\ required' = [required EXCEPT ![v] = t]
          /\ excused' = IF \E w \in Vims : Replacing(w) /\ ~SameTag(required[w], t)
                        THEN excused \cup {v} ELSE excused \ {v}
    /\ UNCHANGED <<tagFile, cache, toWipe, shown>>

\* Mutant: any tag will do.
CheckThere(v) ==
    /\ pc[v] = "check"
    /\ pc' = [pc EXCEPT ![v] = IF tagFile # NoTag THEN "enter" ELSE "glob"]
    /\ UNCHANGED <<tagFile, cache, required, toWipe, shown, excused>>

\* Mutant: the tag is written first, the files are deleted after it.
CheckTagFirst(v) ==
    /\ pc[v] = "check"
    /\ tagFile' = required[v]
    /\ pc' = [pc EXCEPT ![v] =
                  IF SameTag(tagFile, required[v]) THEN "enter" ELSE "glob"]
    /\ UNCHANGED <<cache, required, toWipe, shown, excused>>

\* PowerlineCacheTagRead and the comparison
Check(v) ==
    /\ pc[v] = "check"
    /\ pc' = [pc EXCEPT ![v] =
                  IF SameTag(tagFile, required[v]) THEN "enter" ELSE "glob"]
    /\ UNCHANGED <<tagFile, cache, required, toWipe, shown, excused>>

\* glob()
Glob(v) ==
    /\ pc[v] = "glob"
    /\ pc' = [pc EXCEPT ![v] = "wipe"]
    /\ toWipe' = [toWipe EXCEPT ![v] = Present]
    /\ excused' = excused \cup
           {w \in Vims : pc[w] # "off" /\ ~SameTag(required[w], required[v])}
    /\ UNCHANGED <<tagFile, cache, required, shown>>

\* Mutant: the loop ends after one file.
WipeOne(v) ==
    /\ pc[v] = "wipe"
    /\ \/ toWipe[v] = {} /\ UNCHANGED <<cache, toWipe>>
       \/ \E f \in toWipe[v] :
             /\ cache' = [cache EXCEPT ![f] = Nothing]
             /\ toWipe' = [toWipe EXCEPT ![v] = @ \ {f}]
    /\ pc' = [pc EXCEPT ![v] = "write"]
    /\ UNCHANGED <<tagFile, required, shown, excused>>

\* delete() of the next file that glob() gave; should it fail, the file stays
\* and the loop goes on.
Wipe(v) ==
    /\ pc[v] = "wipe"
    /\ \/ /\ \E f \in toWipe[v] :
                /\ \/ cache' = [cache EXCEPT ![f] = Nothing]
                   \/ /\ cache[f] # Nothing
                      /\ cache' = [cache EXCEPT ![f].excused = TRUE]
                /\ toWipe' = [toWipe EXCEPT ![v] = @ \ {f}]
          /\ UNCHANGED pc
       \/ /\ toWipe[v] = {}
          /\ pc' = [pc EXCEPT ![v] = "write"]
          /\ UNCHANGED <<cache, toWipe>>
    /\ UNCHANGED <<tagFile, required, shown, excused>>

\* PowerlineCacheTagWrite; should writefile() fail, the file is as it was or
\* empty, and Vim goes on.
WriteTag(v) ==
    /\ pc[v] = "write"
    /\ tagFile' \in {required[v], tagFile, NoTag}
    /\ excused' = IF tagFile' = NoTag \/ SameTag(tagFile', required[v])
                  THEN excused ELSE excused \cup {v}
    /\ pc' = [pc EXCEPT ![v] = "enter"]
    /\ UNCHANGED <<cache, required, toWipe, shown>>

\* VimEnter, or a change of the colour scheme later: Pl#Load reads the file,
\* or makes it, if it can, from the settings of this Vim.
Load(v) ==
    /\ pc[v] \in {"enter", "up"}
    /\ LET own == [tag |-> required[v], excused |-> v \in excused]
       IN  \E f \in Files :
              IF cache[f] # Nothing
              THEN shown' = [shown EXCEPT ![v] = cache[f]] /\ UNCHANGED cache
              ELSE /\ shown' = [shown EXCEPT ![v] = own]
                   /\ cache' \in {cache, [cache EXCEPT ![f] = own]}
    /\ pc' = [pc EXCEPT ![v] = "up"]
    /\ UNCHANGED <<tagFile, required, toWipe, excused>>

\* Vim ends, by a crash during the start too; one in writefile() leaves an
\* empty tag file.
End(v) ==
    /\ pc[v] # "off"
    /\ tagFile' \in {tagFile} \cup IF pc[v] = "write" THEN {NoTag} ELSE {}
    /\ pc' = [pc EXCEPT ![v] = "off"]
    /\ required' = [required EXCEPT ![v] = NoTag]
    /\ toWipe' = [toWipe EXCEPT ![v] = {}]
    /\ shown' = [shown EXCEPT ![v] = Nothing]
    /\ excused' = excused \ {v}
    /\ UNCHANGED cache

Init ==
    /\ tagFile = NoTag
    /\ cache \in [Files -> {Nothing} \cup {[tag |-> t, excused |-> FALSE] : t \in Tags}]
    /\ pc = [v \in Vims |-> "off"]
    /\ required = [v \in Vims |-> NoTag]
    /\ toWipe = [v \in Vims |-> {}]
    /\ shown = [v \in Vims |-> Nothing]
    /\ excused = {}

Next ==
    \E v \in Vims :
        \/ Start(v) \/ Check(v) \/ Glob(v) \/ Wipe(v) \/ WriteTag(v)
        \/ Load(v) \/ End(v)

Spec == Init /\ [][Next]_vars

-----------------------------------------------------------------------------
(* Properties *)

\* Wherever starts were cut short or overlapped, what lies under a tag was made
\* with the settings of that tag, up to case, or there is one of these reasons:
\* the deletion of that file failed, or it was made by a Vim that could not
\* write its own tag or that ran while other settings replaced the cache.
TagHonest ==
    tagFile # NoTag =>
        \A f \in Present : cache[f].excused \/ SameTag(cache[f].tag, tagFile)

\* The comment on g:PowerlineRequiredCacheTag: changing it ensures that stale
\* cached data is deleted.  A Vim shows status lines of its own settings, up to
\* case, without one of those reasons, of the file or of the Vim itself.
NothingStale ==
    \A v \in Vims :
        \/ shown[v] = Nothing \/ shown[v].excused \/ v \in excused
        \/ SameTag(shown[v].tag, required[v])

=============================================================================

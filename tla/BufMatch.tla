------------------------------ MODULE BufMatch ------------------------------
(***************************************************************************)
(* The bufmatch plugin (src/bundle/bufmatch): per-buffer matches simulated *)
(* on top of Vim's per-window matchadd().  A buffer keeps what should be   *)
(* highlighted in it (b:bufmatch_matches); a window keeps the ids of the   *)
(* matches it was given for its buffer (w:bufmatch_win_match_ids), and is  *)
(* brought up to date only when it is, or becomes, the current window.     *)
(*                                                                         *)
(* This module holds the state, the plugin's functions as operators on     *)
(* it, and the window and buffer commands that make its two autocommands   *)
(* run.  Module Highlight adds the client that adds and deletes matches.   *)
(***************************************************************************)
EXTENDS Naturals, FiniteSets

CONSTANTS
    Wins,        \* windows, open or not
    Bufs,        \* buffers
    Closed,      \* in winBuf: the window is not open
    ForeignIds,  \* explicit ids other scripts pass to matchadd()
    FirstId      \* the least id chosen automatically (1000 in the code)

ASSUME IdAssumption ==
    /\ FirstId \in Nat
    /\ ForeignIds \subseteq {n \in Nat : n < FirstId}

ASSUME ClosedAssumption == Closed \notin Bufs

VARIABLES
    winBuf,      \* window -> the buffer it displays, or Closed
    curWin,      \* the current window
    winMatches,  \* window -> its matches: match id -> what it highlights
    winIds,      \* window -> w:bufmatch_win_match_ids
    bufMatches   \* buffer -> b:bufmatch_matches: buf_match_id -> match

\* The ids s:NextBufMatchId and matchadd() may choose.
BufIds == {n \in Nat : n >= FirstId}

Open   == {w \in Wins : winBuf[w] # Closed}
curBuf == winBuf[curWin]
NoMap  == [x \in {} |-> x]

\* The dictionary d with key k added or replaced, or removed.
With(d, k, v) == [x \in DOMAIN d \cup {k} |-> IF x = k THEN v ELSE d[x]]
Without(d, k) == [x \in DOMAIN d \ {k} |-> d[x]]
Vals(d)       == {d[x] : x \in DOMAIN d}

(***************************************************************************)
(* s:NextBufMatchId: count up from FirstId to the first key not in use.    *)
(***************************************************************************)
\* Mutant: counts from one too low.
NextBufMatchIdLow(matches) ==
    CHOOSE k \in (FirstId - 1) .. (FirstId + Cardinality(DOMAIN matches)) :
        /\ k \notin DOMAIN matches
        /\ \A j \in (FirstId - 1) .. (k - 1) : j \in DOMAIN matches

\* Mutant: one more than the largest id in use instead of the first free one.
NextBufMatchIdAbove(matches) ==
    CHOOSE k \in {FirstId} \cup {id + 1 : id \in DOMAIN matches} :
        \A id \in DOMAIN matches : id < k

NextBufMatchId(matches) ==
    CHOOSE k \in FirstId .. (FirstId + Cardinality(DOMAIN matches)) :
        /\ k \notin DOMAIN matches
        /\ \A j \in FirstId .. (k - 1) : j \in DOMAIN matches

(***************************************************************************)
(* matchadd() without an id gives one that no match of the window has and  *)
(* that is at least FirstId.  The matches of dictionary bm get consecutive *)
(* ids from AutoBase on, above every id of the window's live matches.      *)
(***************************************************************************)
AutoBase(live) ==
    CHOOSE n \in {FirstId} \cup {id + 1 : id \in live} :
        n >= FirstId /\ \A id \in live : id < n

NewIds(live, bm) == {AutoBase(live) + (k - FirstId) : k \in DOMAIN bm}

MatchAddAll(matches, bm) ==
    LET live == DOMAIN matches
    IN  [id \in live \cup NewIds(live, bm) |->
            IF id \in live THEN matches[id]
                           ELSE bm[(id - AutoBase(live)) + FirstId]]

(***************************************************************************)
(* bufmatch#SyncWindow in window w whose buffer wants bm: matchdelete()    *)
(* every recorded id, matchadd() every match of bm, record the new ids.    *)
(***************************************************************************)
\* Mutant: the recorded matches are not deleted first.
UnsyncedNoDelete(w) == winMatches[w]

\* Mutant: clearmatches() instead of deleting the recorded ids.
UnsyncedClear(w) == NoMap

Unsynced(w) == [id \in DOMAIN winMatches[w] \ winIds[w] |-> winMatches[w][id]]

SyncWindow(w, bm) ==
    /\ winMatches' = [winMatches EXCEPT ![w] = MatchAddAll(Unsynced(w), bm)]
    /\ winIds' = [winIds EXCEPT ![w] = NewIds(DOMAIN Unsynced(w), bm)]

(***************************************************************************)
(* Window commands.  A new window has no w: variables and no matches; the  *)
(* WinEnter autocommand synchronizes the window that becomes current.      *)
(***************************************************************************)
Split(w) ==
    /\ w \notin Open
    /\ winBuf' = [winBuf EXCEPT ![w] = curBuf]
    /\ curWin' = w
    /\ SyncWindow(w, bufMatches[curBuf])
    /\ UNCHANGED bufMatches

Focus(w) ==
    /\ w \in Open \ {curWin}
    /\ curWin' = w
    /\ SyncWindow(w, bufMatches[winBuf[w]])
    /\ UNCHANGED <<winBuf, bufMatches>>

\* :close in the current window; Vim makes some other open window current.
CloseCurrent(w) ==
    /\ w \in Open \ {curWin}
    /\ curWin' = w
    /\ winBuf' = [winBuf EXCEPT ![curWin] = Closed]
    /\ LET kept == MatchAddAll(Unsynced(w), bufMatches[winBuf[w]])
       IN  winMatches' = [winMatches EXCEPT ![curWin] = NoMap, ![w] = kept]
    /\ winIds' = [winIds EXCEPT ![curWin] = {},
                    ![w] = NewIds(DOMAIN Unsynced(w), bufMatches[winBuf[w]])]
    /\ UNCHANGED bufMatches

\* :only, or closing another window by number: no window is entered.
CloseOther(w) ==
    /\ w \in Open \ {curWin}
    /\ winBuf' = [winBuf EXCEPT ![w] = Closed]
    /\ winMatches' = [winMatches EXCEPT ![w] = NoMap]
    /\ winIds' = [winIds EXCEPT ![w] = {}]
    /\ UNCHANGED <<curWin, bufMatches>>

(***************************************************************************)
(* Other scripts (matchparen, a syntax checker) add matches of their own   *)
(* to any window, with their own ids, and delete them.                     *)
(***************************************************************************)
ForeignMatch == <<"foreign", 1>>

ForeignAdd(w, id) ==
    /\ w \in Open /\ id \notin DOMAIN winMatches[w]
    /\ winMatches' = [winMatches EXCEPT ![w] = With(@, id, ForeignMatch)]
    /\ UNCHANGED <<winBuf, curWin, winIds, bufMatches>>

ForeignDelete(w, id) ==
    /\ w \in Open /\ id \in DOMAIN winMatches[w]
    /\ winMatches' = [winMatches EXCEPT ![w] = Without(@, id)]
    /\ UNCHANGED <<winBuf, curWin, winIds, bufMatches>>

=============================================================================

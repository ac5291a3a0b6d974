----------------------------- MODULE Highlight -----------------------------
(***************************************************************************)
(* The :Highlight commands of src/vimrc over the bufmatch plugin: which    *)
(* coding-style items a buffer highlights (b:Highlight_<item>), whether it *)
(* highlights at all (b:HighlightEnabled), and the match it owns for each  *)
(* item (b:highlight_groups).                                              *)
(*                                                                         *)
(* Vim runs one command or autocommand at a time, but one command calls    *)
(* HighlightItem once for every item.  "pending" is what is left to run of *)
(* the command in progress: each call is a step of its own, and nothing    *)
(* else happens until pending is empty.                                    *)
(***************************************************************************)
EXTENDS BufMatch, Sequences

CONSTANTS
    HighlightItems,  \* g:HighlightItems, a sequence of item names
    LongLines,       \* the item whose pattern is a function of 'textwidth'
    GlobalEnabled,   \* g:HighlightEnabled
    TextWidths,      \* the values 'textwidth' is given
    Commands,        \* argument lists of :Highlight
    Setups           \* what FileType autocommands run for a file type

VARIABLES
    groups,      \* buffer -> b:highlight_groups: item -> buf_match_id
    configured,  \* buffer -> the items i with b:Highlight_i set and non-zero
    bufEnabled,  \* buffer -> b:HighlightEnabled: "unset", "on" or "off"
    tw,          \* buffer -> 'textwidth'
    pending      \* calls left to run of the command in progress

Items == {HighlightItems[n] : n \in DOMAIN HighlightItems}

display == <<winBuf, curWin, winMatches, winIds, bufMatches>>
config  == <<groups, configured, bufEnabled, tw>>
vars    == <<display, config, pending>>

\* The calls a command is made of.
Item(i, on) == [op |-> "item", item |-> i, on |-> on]  \* HighlightItem(i, on)
All(on)     == [op |-> "all", on |-> on]               \* argument * or no*
Apply       == [op |-> "apply"]                        \* HighlightApply()
Keep(i)     == [op |-> "keep", item |-> i]             \* its loop body
Enable(on)  == [op |-> "enable", on |-> on]            \* HighlightEnable(on)
SetTw(n)    == [op |-> "tw", tw |-> n]                 \* setlocal tw=n
BufWinEnter == [op |-> "sync"]                         \* bufmatch's autocmd

Arg  == [op : {"item"}, item : Items, on : BOOLEAN]
            \cup [op : {"all"}, on : BOOLEAN]
Call == Arg \cup [op : {"keep"}, item : Items] \cup {Apply, BufWinEnter}
            \cup [op : {"enable"}, on : BOOLEAN]
            \cup [op : {"tw"}, tw : TextWidths]

ASSUME CommandAssumption ==
    /\ HighlightItems \in Seq(Items)
    /\ GlobalEnabled \in BOOLEAN
    /\ TextWidths \subseteq Nat /\ 0 \in TextWidths
    /\ Commands \subseteq Seq(Arg)
    /\ Setups \subseteq Seq(Call)

ASSUME DistinctItems ==
    \A m, n \in DOMAIN HighlightItems :
        HighlightItems[m] = HighlightItems[n] => m = n

\* HighlightBufferEnabled(), for the value flag of b:HighlightEnabled.
HighlightBufferEnabled(flag) ==
    IF flag = "unset" THEN GlobalEnabled ELSE flag = "on"

(***************************************************************************)
(* The pattern of an item: HighlightRegex_longlines() depends on           *)
(* 'textwidth' and is empty when that is 0; the others are fixed strings.  *)
(***************************************************************************)
NoPattern == 0

Pattern(i, width) == IF i = LongLines THEN width ELSE 1

PatternFor(i, on, width) == IF on THEN Pattern(i, width) ELSE NoPattern

(***************************************************************************)
(* HighlightSyntaxMatch in buffer b: the match the buffer has for item i   *)
(* is deleted, then one for the pattern is added unless that is empty.     *)
(* MatchDelete and MatchAdd synchronize the current window; when neither   *)
(* changes the buffer's matches the window is left as it is.               *)
(***************************************************************************)
\* Mutant: MatchDelete is not called for an existing match.
RemainingNoDelete(b, i) == bufMatches[b]

Remaining(b, i) ==
    IF i \in DOMAIN groups[b] THEN Without(bufMatches[b], groups[b][i])
                              ELSE bufMatches[b]

HighlightSyntaxMatch(b, i, pattern) ==
    LET rest  == Remaining(b, i)
        names == Without(groups[b], i)
        id    == NextBufMatchId(rest)
        add   == pattern # NoPattern
        now   == IF add THEN With(rest, id, <<i, pattern>>) ELSE rest
    IN  /\ bufMatches' = [bufMatches EXCEPT ![b] = now]
        /\ groups' = [groups EXCEPT ![b] =
                         IF add THEN With(names, i, id) ELSE names]
        /\ IF add \/ DOMAIN rest # DOMAIN bufMatches[b]
             THEN SyncWindow(curWin, now)
             ELSE UNCHANGED <<winMatches, winIds>>

\* b:Highlight_<item> keeps what was asked, also while the buffer is off.
\* Mutant: it keeps what is displayed.
RememberShown(i, on) ==
    configured' = [configured EXCEPT ![curBuf] =
        IF on /\ HighlightBufferEnabled(bufEnabled[curBuf]) THEN @ \cup {i}
                                                            ELSE @ \ {i}]

Remember(i, on) ==
    configured' = [configured EXCEPT ![curBuf] =
                      IF on THEN @ \cup {i} ELSE @ \ {i}]

HighlightItem(i, on) ==
    /\ Remember(i, on)
    /\ HighlightSyntaxMatch(curBuf, i,
           PatternFor(i, on /\ HighlightBufferEnabled(bufEnabled[curBuf]),
                      tw[curBuf]))
    /\ UNCHANGED <<winBuf, curWin, bufEnabled, tw>>

HighlightItemEnabled(i) == i \in configured[curBuf]

(***************************************************************************)
(* One step of the command in progress.                                    *)
(***************************************************************************)
Running(op) == pending # <<>> /\ Head(pending).op = op
Done        == pending' = Tail(pending)

\* A call to HighlightItem for an argument of :Highlight.
DoItem ==
    /\ Running("item") /\ Done
    /\ HighlightItem(Head(pending).item, Head(pending).on)

\* A call to HighlightItem from the loop of HighlightApply.
DoKeep ==
    /\ Running("keep") /\ Done
    /\ HighlightItem(Head(pending).item,
                     HighlightItemEnabled(Head(pending).item))

\* The argument * (or no*): a loop over g:HighlightItems.
DoAll ==
    /\ Running("all")
    /\ pending' = [n \in DOMAIN HighlightItems |->
                      Item(HighlightItems[n], Head(pending).on)] \o Tail(pending)
    /\ UNCHANGED <<display, config>>

\* HighlightApply: a loop over g:HighlightItems.
DoApply ==
    /\ Running("apply")
    /\ pending' = [n \in DOMAIN HighlightItems |-> Keep(HighlightItems[n])]
                      \o Tail(pending)
    /\ UNCHANGED <<display, config>>

\* HighlightEnable: set b:HighlightEnabled, then HighlightApply.
DoEnable ==
    /\ Running("enable")
    /\ bufEnabled' = [bufEnabled EXCEPT ![curBuf] =
                         IF Head(pending).on THEN "on" ELSE "off"]
    /\ pending' = <<Apply>> \o Tail(pending)
    /\ UNCHANGED <<display, groups, configured, tw>>

\* "setlocal tw=": when an autocommand does it, no OptionSet event follows.
DoSetTw ==
    /\ Running("tw") /\ Done
    /\ tw' = [tw EXCEPT ![curBuf] = Head(pending).tw]
    /\ UNCHANGED <<display, groups, configured, bufEnabled>>

DoBufWinEnter ==
    /\ Running("sync") /\ Done
    /\ SyncWindow(curWin, bufMatches[curBuf])
    /\ UNCHANGED <<winBuf, curWin, bufMatches, config>>

Continue ==
    \/ DoItem \/ DoKeep \/ DoAll \/ DoApply \/ DoEnable \/ DoSetTw
    \/ DoBufWinEnter

(***************************************************************************)
(* The commands and events that start a command.                           *)
(***************************************************************************)
Idle == pending = <<>>

Start(calls) ==
    /\ Idle
    /\ pending' = calls
    /\ UNCHANGED <<display, config>>

\* :Highlight args
HighlightCommand == \E args \in Commands : Start(args)

\* :HighlightOn and :HighlightOff
HighlightOnOff == \E on \in BOOLEAN : Start(<<Enable(on)>>)

\* autocmd Syntax * call HighlightApply()
SyntaxEvent == Start(<<Apply>>)

\* :set tw=, then autocmd OptionSet textwidth call HighlightApply()
\* Mutant: without the autocommand.
SetTextwidthNoEvent == \E n \in TextWidths : Start(<<SetTw(n)>>)

SetTextwidth == \E n \in TextWidths : Start(<<SetTw(n), Apply>>)

(***************************************************************************)
(* :edit and :buffer.  When the buffer is loaded, its FileType             *)
(* autocommands run first (the file type's setup, then the Syntax event    *)
(* that "syntax on" raises after it); BufWinEnter comes last.              *)
(***************************************************************************)
EditBuffer(b, setup) ==
    /\ Idle
    /\ winBuf' = [winBuf EXCEPT ![curWin] = b]
    /\ pending' = IF setup = <<>> THEN <<BufWinEnter>>
                  ELSE setup \o <<Apply, BufWinEnter>>
    /\ UNCHANGED <<curWin, winMatches, winIds, bufMatches, config>>

\* :bdelete of a hidden buffer: its b: variables and local options go.
DeleteBuffer(b) ==
    /\ Idle
    /\ \A w \in Wins : winBuf[w] # b
    /\ bufMatches' = [bufMatches EXCEPT ![b] = NoMap]
    /\ groups' = [groups EXCEPT ![b] = NoMap]
    /\ configured' = [configured EXCEPT ![b] = {}]
    /\ bufEnabled' = [bufEnabled EXCEPT ![b] = "unset"]
    /\ tw' = [tw EXCEPT ![b] = 0]
    /\ UNCHANGED <<winBuf, curWin, winMatches, winIds, pending>>

WindowCommand ==
    /\ Idle
    /\ \E w \in Wins :
        \/ Split(w)
        \/ Focus(w)
        \/ CloseCurrent(w)
        \/ CloseOther(w)
    /\ UNCHANGED <<config, pending>>

OtherScript ==
    /\ Idle
    /\ \E w \in Wins, id \in ForeignIds :
        \/ ForeignAdd(w, id)
        \/ ForeignDelete(w, id)
    /\ UNCHANGED <<config, pending>>

Init ==
    /\ \E w \in Wins, b \in Bufs :
        /\ curWin = w
        /\ winBuf = [v \in Wins |-> IF v = w THEN b ELSE Closed]
    /\ winMatches = [w \in Wins |-> NoMap]
    /\ winIds = [w \in Wins |-> {}]
    /\ bufMatches = [b \in Bufs |-> NoMap]
    /\ groups = [b \in Bufs |-> NoMap]
    /\ configured = [b \in Bufs |-> {}]
    /\ bufEnabled = [b \in Bufs |-> "unset"]
    /\ tw = [b \in Bufs |-> 0]
    /\ pending = <<>>

Next ==
    \/ Continue
    \/ HighlightCommand \/ HighlightOnOff \/ SyntaxEvent \/ SetTextwidth
    \/ \E b \in Bufs, setup \in Setups : EditBuffer(b, setup)
    \/ \E b \in Bufs : DeleteBuffer(b)
    \/ WindowCommand
    \/ OtherScript

Spec == Init /\ [][Next]_vars

-----------------------------------------------------------------------------
(***************************************************************************)
(* Properties.                                                             *)
(***************************************************************************)
Match == Items \X (TextWidths \cup {1})

\* f is a family of dictionaries, one for each x in X, from keys K to V.
IsDicts(f, X, K, V) ==
    /\ f = [x \in X |-> f[x]]
    /\ \A x \in X : /\ DOMAIN f[x] \subseteq K
                    /\ f[x] \in [DOMAIN f[x] -> V]

WindowsTyped ==
    /\ winBuf \in [Wins -> Bufs \cup {Closed}]
    /\ curWin \in Wins /\ winBuf[curWin] # Closed
    /\ IsDicts(winMatches, Wins, Nat, Match \cup {ForeignMatch})
    /\ winIds \in [Wins -> SUBSET BufIds]

BuffersTyped ==
    /\ IsDicts(bufMatches, Bufs, BufIds, Match)
    /\ IsDicts(groups, Bufs, Items, BufIds)
    /\ configured \in [Bufs -> SUBSET Items]
    /\ bufEnabled \in [Bufs -> {"unset", "on", "off"}]
    /\ tw \in [Bufs -> TextWidths]

\* Every variable has its type: matches and groups are dictionaries keyed by
\* ids from FirstId on, and one window is always open and current.
TypeOK == WindowsTyped /\ BuffersTyped /\ pending \in Seq(Call)

\* Each match of a buffer belongs to exactly one item, the one whose group
\* records its id: a match no group knows could never be deleted again, and an
\* id two groups share would let one item delete the other's match.
GroupsOwnMatches ==
    \A b \in Bufs :
        /\ Vals(groups[b]) = DOMAIN bufMatches[b]
        /\ \A i \in DOMAIN groups[b] : bufMatches[b][groups[b][i]][1] = i

\* Ids are reused: however many commands were run, a buffer's ids stay within
\* as many numbers as there are items.
IdsReused ==
    \A b \in Bufs : DOMAIN bufMatches[b] \subseteq
                        FirstId .. (FirstId + Cardinality(Items) - 1)

\* What bufmatch recorded for a window is what bufmatch put there: no match
\* is left behind for good, and no matchdelete() fails.
NoLeakedMatches ==
    \A w \in Wins : DOMAIN winMatches[w] \ ForeignIds = winIds[w]

\* The matches a buffer with these settings asks for: each item that is on,
\* with its pattern, if the buffer highlights at all.
WantedFor(items, flag, width) ==
    {<<i, Pattern(i, width)>> : i \in
        {j \in items : /\ HighlightBufferEnabled(flag)
                       /\ Pattern(j, width) # NoPattern}}

Wanted(b) == WantedFor(configured[b], bufEnabled[b], tw[b])

\* What window w displays of it.
Shown(w) == {winMatches[w][id] : id \in DOMAIN winMatches[w] \ ForeignIds}

\* Whenever no command is running, the current window displays exactly what
\* its buffer asks for, each match once, whatever the buffer and the window
\* went through before.
CurrentWindowFresh ==
    Idle => /\ Shown(curWin) = Wanted(curBuf)
            /\ Cardinality(winIds[curWin]) = Cardinality(Wanted(curBuf))

\* A command of this code never disturbs the matches other scripts put in a
\* window.
ForeignOf(w) == {id \in DOMAIN winMatches[w] : id \in ForeignIds}

ForeignKept ==
    [][~OtherScript => \A w \in Wins : winBuf[w] # Closed /\ winBuf'[w] # Closed
                          => ForeignOf(w)' = ForeignOf(w)]_vars

\* src/doc/notes.txt says that highlighting is done on a per-buffer basis: all
\* the windows on a buffer display the same matches.
PerBuffer ==
    Idle => \A v, w \in Open : winBuf[v] = winBuf[w] => Shown(v) = Shown(w)
=============================================================================

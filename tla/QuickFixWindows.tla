--------------------------- MODULE QuickFixWindows ---------------------------
(***************************************************************************)
(* The commands of src/vimrc that find, open, close and toggle the window   *)
(* of the QuickFix list and those of location lists, the browsing of F4,    *)
(* and :L.  None of them keeps a state of its own: each asks Vim which      *)
(* windows there are by going to them, and concludes from what happened.    *)
(*                                                                          *)
(* A command is a function from the state of Vim's windows to the set of    *)
(* states it may leave.  It is one step, as Vim runs nothing in between:    *)
(* what Vim itself does when asked is in the first section, from its        *)
(* documentation.                                                           *)
(***************************************************************************)
EXTENDS Integers, SequencesExt

CONSTANT MaxWins         \* bound: windows that can be open at once

ASSUME MaxWinsAssumption == MaxWins \in Nat \ {0}

Windows == 1 .. 2 * MaxWins   \* room for the ids of closed windows' lists
NoWin == 0
Global == -1                  \* the QuickFix list; others are named by the
                              \* window they were made for
NoList == 0

VARIABLES
    vim,       \* windows from the top, what each is, the list it uses, the
               \* current and the previous one
    messages   \* the lists that are not empty

vars == <<vim, messages>>

IsOpen(s, w) == w \in Range(s.order)

TypeOK ==
    /\ vim.order \in Seq(Windows)
    /\ vim.kind \in [Windows -> {"file", "quickfix", "location"}]
    /\ vim.list \in [Windows -> Windows \cup {NoList}]
    /\ IsOpen(vim, vim.cur)
    /\ vim.prev = NoWin \/ IsOpen(vim, vim.prev)
    /\ messages \subseteq Windows \cup {Global}

-----------------------------------------------------------------------------
(* What Vim does *)

LiveLists(s) == {s.list[w] : w \in Range(s.order)}

FreeWindow(s) == Min(Windows \ (Range(s.order) \cup LiveLists(s)))

\* N CTRL-W w, CTRL-W p
Goto(s, w) == IF w = s.cur THEN s ELSE [s EXCEPT !.cur = w, !.prev = s.cur]

Back(s) == IF s.prev = NoWin THEN s ELSE Goto(s, s.prev)

Place(s, w) == CHOOSE i \in DOMAIN s.order : s.order[i] = w

OrderWithout(s, w) == RemoveAt(s.order, Place(s, w))

\* A new window w at place i, of some kind, using some list.
Opened(s, i, w, kind, list) ==
    [s EXCEPT !.order = InsertAt(@, i, w), !.kind[w] = kind, !.list[w] = list,
              !.cur = w, !.prev = s.cur]

\* Mutant: the previous window is remembered although it was closed.
CloseKeepPrevious(s, w) ==
    LET left == Range(s.order) \ {w}
    IN  IF left = {} THEN {s}
        ELSE {[s EXCEPT !.order = OrderWithout(s, w), !.kind[w] = "file",
                        !.list[w] = NoList,
                        !.cur = IF @ = w THEN c ELSE @] : c \in left}

\* The last window is not closed.  When it is the current one that is, Vim
\* chooses where to go.
Close(s, w) ==
    LET rest == [s EXCEPT !.order = OrderWithout(s, w),
                          !.kind[w] = "file", !.list[w] = NoList]
        left == Range(s.order) \ {w}
    IN  IF left = {} THEN {s}
        ELSE IF w = s.cur
             THEN UNION {{[rest EXCEPT !.cur = c, !.prev = p]
                             : p \in left \cup {NoWin}} : c \in left}
             ELSE {[rest EXCEPT !.prev = IF @ = w THEN NoWin ELSE @]}

QuickFixWins(s) == {w \in Range(s.order) : s.kind[w] = "quickfix"}

HasLocList(s) == s.list[s.cur] # NoList

LocWins(s) ==
    {w \in Range(s.order) : /\ s.kind[w] = "location"
                            /\ s.list[w] = s.list[s.cur]}

\* :lopen, which fails with E776 without a list
LopenCmd(s) ==
    IF ~HasLocList(s) THEN s
    ELSE IF LocWins(s) # {} THEN Goto(s, Min(LocWins(s)))
    ELSE Opened(s, Place(s, s.cur) + 1, FreeWindow(s), "location", s.list[s.cur])

\* :lclose, :cclose
LcloseCmd(s) ==
    IF HasLocList(s) /\ LocWins(s) # {} THEN Close(s, Min(LocWins(s))) ELSE {s}

CcloseCmd(s) ==
    IF QuickFixWins(s) # {} THEN Close(s, Min(QuickFixWins(s))) ELSE {s}

\* Mutant: :copen, which first goes to the last window.
PlainCopen(s) ==
    IF QuickFixWins(s) # {} THEN Goto(s, Min(QuickFixWins(s)))
    ELSE Opened(Goto(s, Last(s.order)), Len(s.order) + 1, FreeWindow(s),
                "quickfix", NoList)

\* :botright copen
BotrightCopen(s) ==
    IF QuickFixWins(s) # {} THEN Goto(s, Min(QuickFixWins(s)))
    ELSE Opened(s, Len(s.order) + 1, FreeWindow(s), "quickfix", NoList)

-----------------------------------------------------------------------------
(* The functions of the vimrc *)

\* IsQuickFixWin, by getwininfo(); IsLocListWin
IsQuickFixWin(s) == s.kind[s.cur] = "quickfix"

\* GetQuickFixWinNum: visit the windows up to the one looked for, and return
\* to the number the current one had.  This changes what CTRL-W p means.
GetQuickFixWinNum(s) ==
    IF QuickFixWins(s) = {} THEN 0 ELSE Place(s, Min(QuickFixWins(s)))

AfterScan(s) ==
    LET n == GetQuickFixWinNum(s)
        visited == SubSeq(s.order, 1, IF n = 0 THEN Len(s.order) ELSE n)
    IN  Goto(FoldLeft(Goto, s, visited), s.cur)

\* Mutant: the window is closed from within.
LocListWinIsOpenNoBack(s) ==
    LET tried == LopenCmd(s)
    IN  IF Len(tried.order) # Len(s.order)
        THEN {[vim |-> t, is |-> FALSE] : t \in LcloseCmd(tried)}
        ELSE {[vim |-> tried, is |-> HasLocList(s)]}

\* Mutant: without a location list the first guess stays.
LocListWinIsOpenGuess(s) ==
    LET tried == LopenCmd(s)
    IN  IF Len(tried.order) # Len(s.order)
        THEN {[vim |-> t, is |-> FALSE] : t \in LcloseCmd(Back(tried))}
        ELSE {[vim |-> tried, is |-> TRUE]}

\* LocListWinIsOpen, its answer in "is": open it; if a window appeared, go
\* back and close it.
LocListWinIsOpen(s) ==
    LET tried == LopenCmd(s)
    IN  IF Len(tried.order) # Len(s.order)
        THEN {[vim |-> t, is |-> FALSE] : t \in LcloseCmd(Back(tried))}
        ELSE {[vim |-> tried, is |-> HasLocList(s)]}

Copen(s) == BotrightCopen(AfterScan(s))

Lopen(s) == {LopenCmd(r.vim) : r \in LocListWinIsOpen(s)}

\* LocListIsPreferred, its answer in "loc"
LocListIsPreferred(s) ==
    {[vim |-> AfterScan(r.vim),
      loc |-> IF r.is # (GetQuickFixWinNum(r.vim) > 0) THEN r.is
              ELSE r.vim.list[r.vim.cur] \in messages]
       : r \in LocListWinIsOpen(s)}

\* The jump of :lnext or :cnext: in this window, or from the window of a list
\* to one with a file, which is made if there is none.
Jump(s) ==
    LET files == {w \in Range(s.order) : s.kind[w] = "file"}
    IN  IF s.kind[s.cur] = "file" THEN {s}
        ELSE IF files # {} THEN {Goto(s, w) : w \in files}
        ELSE {Opened(s, 1, FreeWindow(s), "file", NoList)}

\* The list that :lnext and :ll use, or :cnext and :cc
ListOf(s, loc) == IF loc THEN s.list[s.cur] ELSE Global

\* GotoMessage: past the end of the list the window is closed, and :ll or :cc
\* shows the message again, of the list that is the current window's by then.
\* The error for not closing the last window ends the function, as does that
\* for having no location list.
GotoMessage(s, loc) ==
    LET closed == IF loc THEN LcloseCmd(s) ELSE CcloseCmd(s)
        stuck == Len(s.order) = 1 /\ s.kind[s.cur] # "file"
        Again(t) == IF ~stuck /\ ListOf(t, loc) \in messages THEN Jump(t) ELSE {t}
    IN  (UNION {Again(t) : t \in closed})
            \cup IF ListOf(s, loc) \in messages THEN Jump(s) ELSE {}

\* GotoNext and GotoPrev, outside diff mode
F4(s) == UNION {GotoMessage(r.vim, r.loc) : r \in LocListIsPreferred(s)}

\* Mutant: the window is closed from within.
QuickFixWinToggleInside(s) ==
    {IF Len(t.order) = Len(s.order) THEN Copen(t) ELSE t : t \in CcloseCmd(s)}

QuickFixWinToggle(s) ==
    LET from == IF IsQuickFixWin(s) THEN Back(s) ELSE s
    IN  {IF Len(t.order) = Len(s.order) THEN Copen(t) ELSE t : t \in CcloseCmd(from)}

\* Mutant: the number of windows is taken after closing.
LocListWinToggleLate(s) == UNION {Lopen(t) : t \in LcloseCmd(s)}

LocListWinToggle(s) ==
    UNION {IF Len(t.order) = Len(s.order) THEN Lopen(t) ELSE {t} : t \in LcloseCmd(s)}

\* WinDo, when the command changes no window
WinDo(s) == Goto(FoldLeft(Goto, s, s.order), s.cur)

\* CTRL-W K and CTRL-W J
MoveTop(s) == [s EXCEPT !.order = <<s.cur>> \o OrderWithout(s, s.cur)]
MoveBottom(s) == [s EXCEPT !.order = Append(OrderWithout(s, s.cur), s.cur)]

\* Mutant: back to the number the window had before.
PushQuickFixByNumber(s) ==
    LET n == GetQuickFixWinNum(s)
        t == AfterScan(s)
        m == MoveBottom(Goto(t, t.order[n]))
    IN  IF n = 0 THEN t
        ELSE IF t.order[n] = t.cur THEN MoveBottom(t)
        ELSE Goto(m, m.order[Place(s, s.cur)])

\* The middle of LayoutWindows: to the QuickFix window, to the bottom, back.
PushQuickFix(s) ==
    LET n == GetQuickFixWinNum(s)
        t == AfterScan(s)
    IN  IF n = 0 THEN t
        ELSE IF t.order[n] = t.cur THEN MoveBottom(t)
        ELSE Back(MoveBottom(Goto(t, t.order[n])))

\* LayoutWindows: GetWindowWidth visits all windows, one column moves the
\* current window to the top, and the location windows are resized last.
LayoutWindows(s, columns) ==
    LET top == IF columns = 0 THEN s
               ELSE IF columns = 1 THEN MoveTop(WinDo(s)) ELSE WinDo(s)
    IN  WinDo(PushQuickFix(top))

-----------------------------------------------------------------------------
Room == Len(vim.order) < MaxWins

Become(states) ==
    /\ vim' \in states
    /\ messages' = messages \cap (LiveLists(vim') \cup {Global})

CopenCommand == Room /\ Become({Copen(vim)})
LopenCommand == Room /\ Become(Lopen(vim))
ToggleQuickFix == Room /\ Become(QuickFixWinToggle(vim))
ToggleLocList == Room /\ Become(LocListWinToggle(vim))
Browse == Room /\ Become(F4(vim))
Layout == \E columns \in 0 .. 2 : Become({LayoutWindows(vim, columns)})

\* What the user does with Vim's own commands: go to a window, close one, move
\* one, split one with a file, whose copy of the list is a list of its own.
GoToWindow == \E w \in Range(vim.order) : Become({Goto(vim, w)})

CloseWindow == \E w \in Range(vim.order) : Become(Close(vim, w))

MoveWindow == Become({MoveTop(vim), MoveBottom(vim)})

SplitFile ==
    LET new == FreeWindow(vim)
        list == vim.list[vim.cur]
    IN  /\ Room
        /\ vim.kind[vim.cur] = "file"
        /\ vim' = Opened(vim, Place(vim, vim.cur), new, "file",
                         IF list = NoList THEN NoList ELSE new)
        /\ messages' = messages \cup IF list \in messages THEN {new} ELSE {}

\* A plugin or a grep fills or empties a list.
FillQuickFix ==
    /\ messages' \in {messages \cup {Global}, messages \ {Global}}
    /\ UNCHANGED vim

FillLocList ==
    LET list == IF HasLocList(vim) THEN vim.list[vim.cur] ELSE vim.cur
    IN  /\ vim.kind[vim.cur] # "quickfix"
        /\ vim' = [vim EXCEPT !.list[vim.cur] = list]
        /\ messages' \in {messages \cup {list}, messages \ {list}}

Init ==
    /\ vim = [order |-> <<1>>, kind |-> [w \in Windows |-> "file"],
              list |-> [w \in Windows |-> NoList], cur |-> 1, prev |-> NoWin]
    /\ messages = {}

Next ==
    \/ CopenCommand \/ LopenCommand \/ ToggleQuickFix \/ ToggleLocList
    \/ Browse \/ Layout
    \/ GoToWindow \/ CloseWindow \/ MoveWindow \/ SplitFile
    \/ FillQuickFix \/ FillLocList

Spec == Init /\ [][Next]_vars

-----------------------------------------------------------------------------
(* Properties *)

\* QuickFixWinToggle, pressed twice, first to open, leaves the windows that
\* were there and the user where he was.
ToggleTwice ==
    Room /\ QuickFixWins(vim) = {} =>
        \A on \in QuickFixWinToggle(vim) :
            /\ QuickFixWins(on) # {}
            /\ \A off \in QuickFixWinToggle(on) :
                  off.order = vim.order /\ off.cur = vim.cur

\* Where the current window has a location list, LocListWinToggle opens its
\* window or closes it, and no other, unless it is the only window.
LocToggleFlips ==
    Room /\ HasLocList(vim) /\ (Len(vim.order) > 1 \/ LocWins(vim) = {}) =>
        \A t \in LocListWinToggle(vim) :
            IF LocWins(vim) = {}
            THEN \E w \in Range(t.order) :
                    /\ Range(t.order) = Range(vim.order) \cup {w}
                    /\ w \notin Range(vim.order)
                    /\ LocWins(t) = {w} /\ t.list[t.cur] = vim.list[vim.cur]
            ELSE Range(t.order) = Range(vim.order) \ LocWins(vim)

\* LocListWinIsOpen answers whether the window is open.  It leaves the
\* windows as they were, and the user too unless that window is open.
AskingIsHarmless ==
    Room => \A r \in LocListWinIsOpen(vim) :
                /\ r.is <=> HasLocList(vim) /\ LocWins(vim) # {}
                /\ r.vim.order = vim.order
                /\ r.vim.cur \in {vim.cur} \cup IF r.is THEN LocWins(vim) ELSE {}

\* When F4 decides for the location list there is one: the error for none is
\* not among those that GotoMessage catches.
PreferredExists ==
    Room => \A r \in LocListIsPreferred(vim) : r.loc => HasLocList(r.vim)

\* :L puts the QuickFix window at the bottom and keeps the user's window,
\* although the number it had may now be another's.
LayoutKeepsPlace ==
    \A columns \in 0 .. 2 :
        LET t == LayoutWindows(vim, columns)
        IN  /\ t.cur = vim.cur
            /\ Range(t.order) = Range(vim.order)
            /\ QuickFixWins(vim) # {} => Last(t.order) \in QuickFixWins(vim)

=============================================================================

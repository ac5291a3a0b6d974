-------------------------- MODULE HighlightRefines --------------------------
(***************************************************************************)
(* Highlight implements HighlightDisplay.  A command of Highlight runs in  *)
(* many steps; the mapping lets all of it take effect when it starts.  The *)
(* history variable "asked" holds the settings of each buffer as the       *)
(* commands given so far determine them, whatever the code stored: it is   *)
(* changed by the start of a command only.  The current window of the      *)
(* abstract state displays what is asked while calls are pending, and what *)
(* it really displays once none is.                                        *)
(***************************************************************************)
EXTENDS Highlight, SequencesExt

VARIABLE asked

\* What one call is meant to do to the settings of the current buffer.
Effect(s, call) ==
    CASE call.op = "item" ->
            [s EXCEPT !.items = IF call.on THEN @ \cup {call.item}
                                           ELSE @ \ {call.item}]
      [] call.op = "all" -> [s EXCEPT !.items = IF call.on THEN Items ELSE {}]
      [] call.op = "enable" ->
            [s EXCEPT !.flag = IF call.on THEN "on" ELSE "off"]
      [] call.op = "tw" -> [s EXCEPT !.width = call.tw]
      [] OTHER -> s

Unconfigured == [items |-> {}, flag |-> "unset", width |-> 0]

\* Highlight with the history variable.
HInit == Init /\ asked = [b \in Bufs |-> Unconfigured]

HNext ==
    \/ /\ \/ HighlightCommand \/ HighlightOnOff \/ SyntaxEvent \/ SetTextwidth
          \/ \E b \in Bufs, setup \in Setups : EditBuffer(b, setup)
       /\ asked' = [asked EXCEPT ![curBuf'] = FoldLeft(Effect, @, pending')]
    \/ \E b \in Bufs :
        /\ DeleteBuffer(b)
        /\ asked' = [asked EXCEPT ![b] = Unconfigured]
    \/ (Continue \/ WindowCommand \/ OtherScript) /\ UNCHANGED asked

HSpec == HInit /\ [][HNext]_<<vars, asked>>

shownBar ==
    LET s == asked[curBuf]
    IN  [w \in Wins |-> IF w = curWin /\ ~Idle
                        THEN WantedFor(s.items, s.flag, s.width)
                        ELSE Shown(w)]

Display ==
    INSTANCE HighlightDisplay WITH
        Widths <- TextWidths, buf <- winBuf, cur <- curWin, shown <- shownBar,
        items <- [b \in Bufs |-> asked[b].items],
        enabled <- [b \in Bufs |-> asked[b].flag],
        width <- [b \in Bufs |-> asked[b].width]

\* A :Highlight command, and every event that re-applies the items, behaves as
\* if it were one step: the items last asked for are remembered through
\* HighlightOff, Syntax events and changes of 'textwidth', and the current
\* window displays exactly them while it is on.
CommandsAtomic == Display!Spec
=============================================================================

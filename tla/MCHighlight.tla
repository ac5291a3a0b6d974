---------------------------- MODULE MCHighlight ----------------------------
(***************************************************************************)
(* Highlight with two windows, two buffers, two items (longlines and one   *)
(* with a fixed pattern) and one match of another script.                  *)
(***************************************************************************)
EXTENDS Highlight, TLC

MCItems == <<"longlines", "tabs">>
MCWidths == {0, 80, 79}
MCForeign == {3}
MCFirstId == 1000

\* :Highlight tabs longlines, :Highlight no* longlines, :Highlight notabs.
MCCommands ==
    {<<Item("tabs", TRUE), Item("longlines", TRUE)>>,
     <<All(FALSE), Item("longlines", TRUE)>>, <<Item("tabs", FALSE)>>}

\* An already loaded buffer; SetupPython (SetupSource, then a narrower
\* 'textwidth'); SetupVader (SetupSource, then HighlightOff).
SetupSource == <<SetTw(80), Item("longlines", TRUE), Item("tabs", TRUE)>>
MCSetups ==
    {<<>>, SetupSource \o <<SetTw(79)>>, SetupSource \o <<Enable(FALSE)>>}

Symmetric == Permutations(Wins) \cup Permutations(Bufs)
=============================================================================

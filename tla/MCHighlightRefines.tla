------------------------- MODULE MCHighlightRefines -------------------------
(***************************************************************************)
(* The refinement with smaller sets, and with highlighting off by default  *)
(* (g:HighlightEnabled = 0).                                               *)
(***************************************************************************)
EXTENDS HighlightRefines

MCItems == <<"longlines", "tabs">>
MCWidths == {0, 80}
MCFirstId == 1000

MCCommands ==
    {<<Item("tabs", TRUE), Item("longlines", TRUE)>>,
     <<All(FALSE), Item("longlines", TRUE)>>, <<Item("tabs", FALSE)>>}

SetupSource == <<SetTw(80), Item("longlines", TRUE), Item("tabs", TRUE)>>
MCSetups == {<<>>, SetupSource, SetupSource \o <<Enable(FALSE)>>}

Symmetric == Permutations(Wins) \cup Permutations(Bufs)
=============================================================================

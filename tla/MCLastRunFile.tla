---------------------------- MODULE MCLastRunFile ---------------------------
(* Two uses of the menu, with selections that fit a buffer of five units,    *)
(* one that does not, an item without a path, none at all, and a path that   *)
(* text mode does not survive.                                               *)
EXTENDS LastRunFile, TLC

MCInvocations == {1, 2}
MCItems  == {"p", "q", "z", "virtual"}
MCPaths  == {"p", "q", "z"}
MCSize   == ("p" :> 1 @@ "q" :> 2 @@ "z" :> 1)
MCCtrlZ  == {"z"}
MCBuffer == 5
MCSelections == {NoSelection, <<"q">>, <<"virtual", "p">>, <<"p", "q">>, <<"p", "z">>}
=============================================================================

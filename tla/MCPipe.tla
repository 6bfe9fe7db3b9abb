------------------------------- MODULE MCPipe -------------------------------
(* One end sends, the other receives; the process of the sender may end.     *)
(* The threads of the other direction have nothing to do but to end.         *)
EXTENDS Pipe, TLC

MCEnds    == {"a", "b"}
MCSenders == {"a"}
MCResting == {<<"a", "server">>, <<"a", "in">>, <<"b", "out">>}
=============================================================================

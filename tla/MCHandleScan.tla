---------------------------- MODULE MCHandleScan ----------------------------
(* Values for the constants of HandleScan: three handles, of which the first *)
(* and the last belong to the same process.                                  *)
EXTENDS HandleScan, TLC

MCN     == 3
MCPids  == {"p", "q"}
MCOwner == (0 :> "p" @@ 1 :> "q" @@ 2 :> "p")

MCAllKinds == AllKinds

\* Without the timing assumption every query may be slow; those that never
\* return add nothing to that.
MCSlowKinds == AllKinds \ {"hangtype", "hangname"}
=============================================================================

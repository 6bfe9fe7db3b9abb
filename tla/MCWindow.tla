------------------------------ MODULE MCWindow ------------------------------
(* Three processes, of which b uses the path as a module and cannot be       *)
(* terminated and c cannot be waited for, and two ids.                       *)
EXTENDS Window, TLC

MCProcs  == {"a", "b", "c"}
MCPids   == {1, 2}
MCValues == {"h4"}
MCModule == "module"
MCWays   == ("a" :> {"h4"} @@ "b" :> {"module"} @@ "c" :> {"h4"})
MCSeen   == [p \in MCProcs |-> {}]
MCNobody == {}
MCOneB   == {"b"}
MCOneC   == {"c"}
=============================================================================

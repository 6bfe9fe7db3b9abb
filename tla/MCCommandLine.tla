---------------------------- MODULE MCCommandLine ---------------------------
(* Two or three processes with two ids, and command lines that use every     *)
(* option, alone and together, in the right and in the wrong way.            *)
EXTENDS CommandLine, TLC

MCProcs  == {"a", "b"}
MCPids   == {1, 2}
MCValues == {"h4", "h8"}
MCModule == "module"
MCWays   == ("a" :> {"h4"} @@ "b" :> {"module"})
MCSeen   == ("a" :> {} @@ "b" :> {})
MCValue  == ("0" :> 0 @@ "1" :> 1 @@ "-5" :> -5)
MCCap    == 2
MCNobody == {}
MCOneB   == {"b"}
MCOneA   == {"a"}
MCWaysA  == ("a" :> MCValues)
MCSeenA  == ("a" :> {})
MCWaysB  == ("b" :> {MCModule})
MCSeenB  == ("b" :> {})

Lines(ss) == {s \o <<"path">> : s \in ss}

MCFaulty == {<<>>, <<"--kill">>, <<"--help">>, <<"path", "--timeout">>, <<"--timeout", "--wait", "path">>,
             <<"path", "--help", "--timeout">>}
MCGood   == Lines({<<>>, <<"--json">>, <<"--kill">>, <<"--kill", "--json">>, <<"--wait">>, <<"--wait", "--kill", "--json">>,
             <<"--wait", "--timeout", "0">>, <<"--timeout", "1", "--wait", "--timeout", "-5">>,
             <<"--timeout", "1", "--wait">>})
MCAll    == MCFaulty \cup MCGood
MCWait   == Lines({<<"--wait">>})
MCKill   == Lines({<<"--kill">>, <<"--kill", "--json">>})
=============================================================================

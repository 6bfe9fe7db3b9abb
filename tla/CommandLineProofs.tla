------------------------- MODULE CommandLineProofs --------------------------
(***************************************************************************)
(* run_command for any command lines, processes and ids: the types of its  *)
(* state, and what it promises of --kill, --wait and --timeout whichever   *)
(* options the parsing comes to.                                           *)
(***************************************************************************)
EXTENDS CommandLine, SearchProofs, NatRecursion

\* The type invariant but for the options.
StateTypesOK ==
    /\ pc \in {"parse", "wait", "sleep", "list", "kill", "recheck", "exit"}
    /\ elapsed \in 0..Cap
    /\ victims \subseteq [pid : Pids, proc : Procs]
    /\ exitCode \in {-1, 0, 1} /\ (exitCode # -1 <=> pc = "exit")
    /\ terminated \subseteq {p \in Procs : pidOf[p] # NoPid} \ Protected

\* A search runs while finder.find is called; with --wait there is no other.
ModeInv ==
    /\ pc \notin {"wait", "list", "recheck"} => ~UnderWay
    /\ pc \in {"wait", "sleep"} => opts.wait
    /\ pc \in {"list", "kill", "recheck"} => ~opts.wait

\* Nothing is terminated, or meant to be, before the search is over.
BeforeInv ==
    pc \in {"parse", "wait", "sleep", "list"} => held = {} /\ victims = {} /\ terminated = {}

\* The ids that are to be terminated are those of users of the path.
VictimsInv ==
    /\ users \subseteq Procs
    /\ \A e \in victims : \E q \in users : pidOf[q] = e.pid
    /\ KillsOnlyTheirIds

\* What becomes of a process that kept a visible use throughout the search.
Dealt(p) ==
    \/ p \in terminated
    \/ p \notin alive
    \/ pc = "kill" /\ EntryOf(p) \in victims

DealtInv ==
    /\ held \subseteq {p \in Procs : pidOf[p] # NoPid}
    /\ pc \in {"kill", "recheck"} \/ (pc = "exit" /\ opts.kill) =>
           \A p \in held \ Protected : Dealt(p)

CommandInv ==
    /\ SearchInv /\ StateTypesOK
    /\ ModeInv /\ BeforeInv
    /\ VictimsInv /\ DealtInv
    /\ UnlockedUnlessHeld /\ TimeoutHonest

\* What the invariant says of the sets the actions read.
LEMMA CommandFacts ==
    ASSUME CommandInv
    PROVE  /\ sometime \subseteq Procs /\ Kept \subseteq alive
           /\ alive \subseteq {p \in Procs : pidOf[p] # NoPid}
           /\ \A e \in found : e.pid \in Pids /\ e.proc \in Procs
           /\ found \subseteq [pid : Pids, proc : Procs]
           /\ \A p \in terminated : p \in Procs /\ pidOf[p] # NoPid
<1>1. sometime \subseteq Procs /\ Kept \subseteq alive
  BY SearchFacts DEF CommandInv, SearchInv, SearchTypesOK, SearchTypeOK, CoveredInv, Kept
<1> QED
  BY <1>1 DEF CommandInv, StateTypesOK, SearchInv, SearchTypesOK, SearchTypeOK, TableTypeOK

-----------------------------------------------------------------------------
(* One lemma per action.                                                    *)

\* A new command line takes a mode and, in every mode but help, begins a search.
LEMMA CommandKeeps ==
    ASSUME CommandInv, NEW args \in Commands, Command(args)
    PROVE  CommandInv'
<1> USE DEF Command, CommandInv, searchVars, ghostVars
<1>0. pc = "parse" /\ UNCHANGED <<tableVars, elapsed, victims, terminated, held, users>>
  BY DEF Find, SearchBegin
<1>1. CASE opts'.error # "none"
  <2>1. /\ pc' = "exit" /\ exitCode' \in {0, 1}
        /\ UNCHANGED <<tableVars, searchVars, ghostVars>>
    BY <1>1 DEF Quit
  <2>2. SearchInv'
    BY <2>1, SearchStands
  <2>3. StateTypesOK'
    BY <1>0, <2>1 DEF StateTypesOK, tableVars
  <2>4. ModeInv'
    BY <1>0, <2>1 DEF ModeInv, UnderWay
  <2>5. BeforeInv' /\ VictimsInv' /\ DealtInv'
    BY <1>0, <2>1 DEF BeforeInv, VictimsInv, KillsOnlyTheirIds, DealtInv, tableVars
  <2>6. UnlockedUnlessHeld' /\ TimeoutHonest'
    BY <1>1 DEF UnlockedUnlessHeld, UnlockedSaid, TimeoutHonest
  <2> QED
    BY <2>2, <2>3, <2>4, <2>5, <2>6
<1>2. CASE opts'.error = "none"
  <2>1. /\ Find(IF opts'.wait THEN "wait" ELSE "list")
        /\ UNCHANGED exitCode
    BY <1>2
  <2>2. /\ pc' \in {"wait", "list"}
        /\ pc' = "wait" => opts'.wait
        /\ pc' = "list" => ~opts'.wait
    BY <2>1 DEF Find
  <2>3. SearchInv'
    BY <2>1, SearchBeginKeeps DEF Find
  <2>4. StateTypesOK'
    BY <1>0, <2>1, <2>2 DEF StateTypesOK, tableVars
  <2>5. ModeInv'
    BY <2>2 DEF ModeInv
  <2>6. BeforeInv' /\ VictimsInv' /\ DealtInv'
    BY <1>0, <2>2 DEF BeforeInv, VictimsInv, KillsOnlyTheirIds, DealtInv, tableVars
  <2>7. UnlockedUnlessHeld' /\ TimeoutHonest'
    BY <2>2 DEF UnlockedUnlessHeld, UnlockedSaid, TimeoutHonest
  <2> QED
    BY <2>3, <2>4, <2>5, <2>6, <2>7
<1> QED
  BY <1>1, <1>2

\* What a wait ends with is what its last search found.
LEMMA WaitCheckKeeps ==
    ASSUME CommandInv, WaitCheck
    PROVE  CommandInv'
<1> USE DEF WaitCheck, CommandInv, searchVars, ghostVars
<1>0. /\ pc = "wait" /\ phase = "done" /\ pc' \in {"exit", "sleep"}
      /\ UNCHANGED <<tableVars, searchVars, ghostVars, opts, elapsed, victims, terminated, held, users>>
  BY DEF Quit
<1>1. SearchInv'
  BY SearchStands
<1>2. StateTypesOK'
  BY <1>0 DEF StateTypesOK, tableVars, Quit
<1>3. ModeInv'
  BY <1>0 DEF ModeInv, UnderWay
<1>4. BeforeInv' /\ VictimsInv' /\ DealtInv'
  BY <1>0 DEF BeforeInv, VictimsInv, KillsOnlyTheirIds, DealtInv, tableVars
<1>5. UnlockedUnlessHeld'
  <2>1. CASE pc' = "exit" /\ exitCode' = 0 /\ ~failed
    <3>1. found = {}
      BY <2>1 DEF Quit, Outcome
    <3>2. Kept = {}
      BY <1>0, <2>1, <3>1 DEF SearchInv, CoveredInv, Kept
    <3> QED
      BY <1>0, <3>2 DEF UnlockedUnlessHeld, Kept
  <2> QED
    BY <1>0, <2>1 DEF UnlockedUnlessHeld, UnlockedSaid
<1>6. TimeoutHonest'
  <2> SUFFICES ASSUME pc' = "exit", exitCode' = 1
               PROVE  sometime # {} /\ elapsed > opts.timeout /\ opts.timeout >= 0
    BY <1>0 DEF TimeoutHonest
  <2>1. found # {} /\ TimeUp
    BY DEF Quit, Outcome
  <2> QED
    BY <2>1 DEF TimeUp, SearchInv, SoundInv
<1> QED
  BY <1>1, <1>2, <1>3, <1>4, <1>5, <1>6

\* After its sleep --wait begins the next search.
LEMMA WakeUpKeeps ==
    ASSUME CommandInv, WakeUp
    PROVE  CommandInv'
<1> USE DEF WakeUp, CommandInv
<1>0. /\ pc = "sleep" /\ pc' = "wait" /\ SearchBegin
      /\ UNCHANGED <<tableVars, opts, victims, exitCode, terminated, held, users>>
  BY DEF Find, SearchBegin
<1>1. SearchInv'
  BY <1>0, SearchBeginKeeps
<1>2. StateTypesOK'
  <2>1. elapsed' \in 0..Cap
    BY CommandAssumption DEF StateTypesOK
  <2> QED
    BY <1>0, <2>1 DEF StateTypesOK, tableVars
<1>3. ModeInv'
  BY <1>0 DEF ModeInv
<1>4. BeforeInv' /\ VictimsInv' /\ DealtInv'
  BY <1>0 DEF BeforeInv, VictimsInv, KillsOnlyTheirIds, DealtInv, tableVars
<1>5. UnlockedUnlessHeld' /\ TimeoutHonest'
  BY <1>0 DEF UnlockedUnlessHeld, UnlockedSaid, TimeoutHonest
<1> QED
  BY <1>1, <1>2, <1>3, <1>4, <1>5

\* Time goes on during a search of --wait, and touches nothing else.
LEMMA TickKeeps ==
    ASSUME CommandInv, Tick
    PROVE  CommandInv'
<1> USE DEF Tick, CommandInv, recVars
<1>1. SearchInv'
  BY SearchStands
<1>2. StateTypesOK'
  BY CommandAssumption DEF StateTypesOK, tableVars
<1>3. ModeInv'
  BY DEF ModeInv, UnderWay, searchVars
<1>4. BeforeInv' /\ VictimsInv' /\ DealtInv'
  BY DEF BeforeInv, VictimsInv, KillsOnlyTheirIds, DealtInv, tableVars
<1>5. UnlockedUnlessHeld' /\ TimeoutHonest'
  BY DEF UnlockedUnlessHeld, UnlockedSaid, TimeoutHonest
<1> QED
  BY <1>1, <1>2, <1>3, <1>4, <1>5

\* The search is complete: its result has every process that is to be ended.
LEMMA ListDoneKeeps ==
    ASSUME CommandInv, ListDone
    PROVE  CommandInv'
<1> USE DEF ListDone, CommandInv, Victims
<1>0. /\ pc = "list" /\ phase = "done" /\ pc' \in {"kill", "exit"} /\ terminated = {}
      /\ UNCHANGED <<tableVars, searchVars, ghostVars, opts, elapsed, terminated>>
      /\ victims' \subseteq found /\ (pc' = "kill" => victims' = found)
      /\ pc' = "exit" => ~opts.kill
  BY DEF Quit, BeforeInv
<1>1. SearchInv'
  BY SearchStands
<1>2. StateTypesOK'
  BY <1>0, CommandFacts DEF StateTypesOK, tableVars, Quit
<1>3. ModeInv'
  BY <1>0 DEF ModeInv, UnderWay, searchVars
<1>4. BeforeInv' /\ UnlockedUnlessHeld' /\ TimeoutHonest'
  BY <1>0 DEF BeforeInv, ModeInv, UnlockedUnlessHeld, UnlockedSaid, TimeoutHonest
<1>5. VictimsInv'
  <2>1. \A e \in found : \E q \in sometime : pidOf[q] = e.pid
    BY DEF SearchInv, SoundInv
  <2> QED
    BY <1>0, <2>1, CommandFacts DEF VictimsInv, KillsOnlyTheirIds, tableVars
<1>6. DealtInv'
  <2>1. held' \subseteq Kept /\ (held' # {} => ~failed)
    OBVIOUS
  <2>2. \A p \in held' : EntryOf(p) \in found
    BY <1>0, <2>1 DEF SearchInv, CoveredInv, Kept
  <2> QED
    BY <1>0, <2>1, <2>2, CommandFacts DEF DealtInv, Dealt, EntryOf, tableVars
<1> QED
  BY <1>1, <1>2, <1>3, <1>4, <1>5, <1>6

\* Whoever has the id is terminated; a victim that is not has exited, or may not
\* be terminated.
LEMMA TerminateKeeps ==
    ASSUME CommandInv, NEW e \in victims, Terminate(e)
    PROVE  CommandInv'
<1> USE DEF Terminate, CommandInv, NextVictims
<1> DEFINE hit == Named(e.pid) \ Protected
<1>0. /\ pc = "kill" /\ pc' = "kill" /\ victims' = victims \ {e}
      /\ terminated' = terminated \cup hit
      /\ UNCHANGED <<tableVars, searchVars, ghostVars, opts, elapsed, exitCode, held, users>>
  OBVIOUS
<1>1. SearchInv'
  BY SearchStands
<1>2. StateTypesOK'
  <2>1. hit \subseteq {p \in Procs : pidOf[p] # NoPid} \ Protected
    BY CommandFacts DEF Named
  <2> HIDE DEF hit
  <2> QED
    BY <1>0, <2>1 DEF StateTypesOK, tableVars
<1>3. ModeInv'
  BY <1>0 DEF ModeInv, UnderWay, searchVars
<1>4. BeforeInv' /\ UnlockedUnlessHeld' /\ TimeoutHonest'
  BY <1>0 DEF BeforeInv, UnlockedUnlessHeld, UnlockedSaid, TimeoutHonest
<1>5. VictimsInv'
  <2>1. \A p \in hit : pidOf[p] = e.pid
    BY DEF Named
  <2>2. \E q \in users : pidOf[q] = e.pid
    BY DEF VictimsInv
  <2> HIDE DEF hit
  <2> QED
    BY <1>0, <2>1, <2>2 DEF VictimsInv, KillsOnlyTheirIds, tableVars
<1>6. DealtInv'
  <2>1. ASSUME NEW p \in held \ Protected, Dealt(p) PROVE Dealt(p)'
    <3>1. CASE EntryOf(p) = e /\ p \in alive
      <4>1. p \in hit
        BY <3>1, <2>1 DEF Named, EntryOf
      <4> QED
        BY <1>0, <4>1 DEF Dealt
    <3>2. CASE EntryOf(p) # e \/ p \notin alive
      BY <1>0, <2>1, <3>2 DEF Dealt, EntryOf, tableVars
    <3> QED
      BY <3>1, <3>2
  <2> QED
    BY <1>0, <2>1 DEF DealtInv, tableVars
<1> QED
  BY <1>1, <1>2, <1>3, <1>4, <1>5, <1>6

\* After the first round of kills the path is searched for once more.
LEMMA RecheckKeeps ==
    ASSUME CommandInv, Recheck
    PROVE  CommandInv'
<1> USE DEF Recheck, CommandInv
<1>0. /\ pc = "kill" /\ pc' = "recheck" /\ SearchBegin /\ victims = {}
      /\ UNCHANGED <<tableVars, opts, elapsed, victims, exitCode, terminated, held, users>>
  BY DEF Find, SearchBegin
<1>1. SearchInv'
  BY <1>0, SearchBeginKeeps
<1>2. StateTypesOK'
  BY <1>0 DEF StateTypesOK, tableVars
<1>3. ModeInv'
  BY <1>0 DEF ModeInv
<1>4. BeforeInv' /\ VictimsInv' /\ DealtInv'
  BY <1>0 DEF BeforeInv, VictimsInv, KillsOnlyTheirIds, DealtInv, Dealt, tableVars
<1>5. UnlockedUnlessHeld' /\ TimeoutHonest'
  BY <1>0 DEF UnlockedUnlessHeld, UnlockedSaid, TimeoutHonest
<1> QED
  BY <1>1, <1>2, <1>3, <1>4, <1>5

\* What is said at the end is what the last search found.
LEMMA ReportKeeps ==
    ASSUME CommandInv, Report
    PROVE  CommandInv'
<1> USE DEF Report, CommandInv, recVars
<1>0. pc = "recheck" /\ phase = "done" /\ pc' = "exit" /\ exitCode' = 0
  BY DEF Quit, ExitCode
<1>1. SearchInv'
  BY SearchStands
<1>2. StateTypesOK'
  BY <1>0 DEF StateTypesOK, tableVars
<1>3. ModeInv'
  BY <1>0 DEF ModeInv, UnderWay, searchVars
<1>4. BeforeInv' /\ VictimsInv' /\ DealtInv'
  BY <1>0 DEF BeforeInv, VictimsInv, KillsOnlyTheirIds, DealtInv, Dealt, tableVars
<1>5. UnlockedUnlessHeld' /\ TimeoutHonest'
  BY <1>0 DEF ModeInv, UnlockedUnlessHeld, UnlockedSaid, TimeoutHonest
<1> QED
  BY <1>1, <1>2, <1>3, <1>4, <1>5

\* A step of the search under the command.
LEMMA SearchingKeeps ==
    ASSUME CommandInv, Searching
    PROVE  CommandInv'
<1> USE DEF Searching, CommandInv, progVars, recVars
<1>0. UnderWay /\ pc \in {"wait", "list", "recheck"}
  BY StepUnderWay DEF ModeInv
<1>1. SearchInv' /\ UNCHANGED tableVars
  BY SearchStepKeeps, SearchStepTypes DEF SearchInv
<1>2. StateTypesOK'
  BY <1>1 DEF StateTypesOK, tableVars
<1>3. ModeInv'
  BY <1>0 DEF ModeInv
<1>4. BeforeInv' /\ VictimsInv' /\ DealtInv'
  BY <1>1 DEF BeforeInv, VictimsInv, KillsOnlyTheirIds, DealtInv, Dealt, EntryOf, tableVars
<1>5. UnlockedUnlessHeld' /\ TimeoutHonest'
  BY <1>0 DEF UnlockedUnlessHeld, UnlockedSaid, TimeoutHonest
<1> QED
  BY <1>1, <1>2, <1>3, <1>4, <1>5

\* A process keeps its id, and one that has exited does not come back.
LEMMA OthersKeep ==
    ASSUME CommandInv, Others
    PROVE  CommandInv'
<1> USE DEF Others, CommandInv, progVars
<1>1. PICK pins \in SUBSET Procs : pins = opened
  BY DEF SearchInv, SearchTypesOK, SearchTypeOK
<1>2. ProcessesMove(pins)
  BY <1>1 DEF Environment, ProcessesMove, Start, Free
<1>3. SearchInv'
  BY <1>2, ProcessesMoveKeeps
<1>4. \A p \in Procs : pidOf[p] # NoPid => pidOf'[p] = pidOf[p]
  BY <1>2, MoveTable DEF SearchInv
<1>5. \A p \in alive' : p \in alive \/ pidOf[p] = NoPid
  BY <1>2 DEF ProcessesMove, Use, Release, Exit, Start
<1>6. /\ UNCHANGED <<phase, failed>> /\ \A p \in Procs : throughout'[p] \subseteq throughout[p]
      /\ ~UnderWay => sometime' = sometime
  BY <1>2 DEF ProcessesMove, searchVars, UnderWay
<1>7. StateTypesOK'
  BY <1>4, CommandFacts DEF StateTypesOK
<1>8. ModeInv' /\ BeforeInv'
  BY <1>6 DEF ModeInv, UnderWay, BeforeInv
<1>9. VictimsInv'
  <2>1. \A e \in victims : e.pid # NoPid
    BY PidAssumption DEF StateTypesOK
  <2>2. \A q \in users : pidOf[q] # NoPid => pidOf'[q] = pidOf[q]
    BY <1>4 DEF VictimsInv
  <2>3. \A e \in victims : \E q \in users : pidOf'[q] = e.pid
    BY <2>1, <2>2 DEF VictimsInv
  <2>4. \A p \in terminated : \E q \in users : pidOf'[q] = pidOf'[p]
    BY <1>4, <2>2, CommandFacts DEF VictimsInv, KillsOnlyTheirIds
  <2> QED
    BY <2>3, <2>4 DEF VictimsInv, KillsOnlyTheirIds
<1>10. DealtInv'
  <2>1. \A p \in held : p \in Procs /\ pidOf[p] # NoPid /\ pidOf'[p] = pidOf[p]
    BY <1>4 DEF DealtInv
  <2>2. \A p \in held : Dealt(p) => Dealt(p)'
    BY <1>5, <2>1 DEF Dealt, EntryOf
  <2> QED
    BY <2>1, <2>2 DEF DealtInv
<1>11. UnlockedUnlessHeld'
  <2>1. Kept' \subseteq Kept
    BY <1>6 DEF Kept
  <2> QED
    BY <1>6, <2>1 DEF UnlockedUnlessHeld, UnlockedSaid
<1>12. TimeoutHonest'
  BY <1>6 DEF ModeInv, TimeoutHonest
<1> QED
  BY <1>3, <1>7, <1>8, <1>9, <1>10, <1>11, <1>12

-----------------------------------------------------------------------------
\* The invariant holds in every behaviour of the command line.
LEMMA AlwaysCommandInv == CommandSpec => []CommandInv
<1>1. CommandInit => CommandInv
  <2> SUFFICES ASSUME CommandInit PROVE CommandInv
    OBVIOUS
  <2>1. SearchInv /\ phase = "idle"
    BY InitSearchInv DEF CommandInit, SearchInit
  <2>2. 0 \in 0..Cap
    BY CommandAssumption
  <2> QED
    BY <2>1, <2>2 DEF CommandInit, CommandInv, StateTypesOK, ModeInv, UnderWay, BeforeInv, VictimsInv,
       KillsOnlyTheirIds, DealtInv, UnlockedUnlessHeld, UnlockedSaid, Kept, TimeoutHonest
<1>2. CommandInv /\ [CommandNext]_cliVars => CommandInv'
  <2> SUFFICES ASSUME CommandInv, [CommandNext]_cliVars PROVE CommandInv'
    OBVIOUS
  <2>1. CASE Program
    BY <2>1, CommandKeeps, SearchingKeeps, WaitCheckKeeps, WakeUpKeeps, ListDoneKeeps,
       RecheckKeeps, ReportKeeps, TerminateKeeps DEF Program
  <2>2. CASE Tick
    BY <2>2, TickKeeps
  <2>3. CASE Others
    BY <2>3, OthersKeep
  <2>4. CASE UNCHANGED cliVars
    <3>1. SearchInv'
      BY <2>4, SearchStands DEF cliVars, CommandInv
    <3> QED
      BY <2>4, <3>1 DEF cliVars, tableVars, searchVars, ghostVars, progVars, recVars, CommandInv,
         StateTypesOK, ModeInv, UnderWay, BeforeInv, VictimsInv, KillsOnlyTheirIds, DealtInv, Dealt,
         EntryOf, UnlockedUnlessHeld, UnlockedSaid, Kept, TimeoutHonest
  <2> QED
    BY <2>1, <2>2, <2>3, <2>4 DEF CommandNext
<1> QED
  BY <1>1, <1>2, PTL DEF CommandSpec

\* A process that is terminated has the id of one that used the path at some time
\* of the search.
THEOREM KillsOnlyTheirIdsAlways == CommandSpec => []KillsOnlyTheirIds
<1>1. CommandInv => KillsOnlyTheirIds
  BY DEF CommandInv, VictimsInv
<1> QED
  BY <1>1, AlwaysCommandInv, PTL

\* When a run with --kill is over, every process that kept one use, which can be
\* seen, throughout its search, and may be terminated, is terminated or gone.
THEOREM KillCompleteAlways == CommandSpec => []KillComplete
<1>1. CommandInv => KillComplete
  <2> SUFFICES ASSUME CommandInv, pc = "exit", opts.kill, NEW p \in held \ Protected
               PROVE  p \in terminated \cup (Procs \ alive)
    BY DEF KillComplete
  <2> QED
    BY DEF CommandInv, DealtInv, Dealt
<1> QED
  BY <1>1, AlwaysCommandInv, PTL

\* "Unlocked" is not said of a path that a process kept by one use, which can be
\* seen, throughout the last search.
THEOREM UnlockedUnlessHeldAlways == CommandSpec => []UnlockedUnlessHeld
<1>1. CommandInv => UnlockedUnlessHeld
  BY DEF CommandInv
<1> QED
  BY <1>1, AlwaysCommandInv, PTL

\* The time is up, and somebody used the path in the last search, when --wait
\* says so.
THEOREM TimeoutHonestAlways == CommandSpec => []TimeoutHonest
<1>1. CommandInv => TimeoutHonest
  BY DEF CommandInv
<1> QED
  BY <1>1, AlwaysCommandInv, PTL

\* One argument keeps the options options.
LEMMA ParseArgumentKept ==
    ASSUME NEW o \in Options, NEW arg
    PROVE  ParseArgument(o, arg) \in Options
<1> DEFINE invalid == [o EXCEPT !.error = "invalid timeout"]
           valued(n) == [o EXCEPT !.pending = FALSE, !.timeout = n]
<1>1. invalid \in Options /\ \A n \in Int : valued(n) \in Options
  BY DEF Options
<1>2. /\ [o EXCEPT !.json = TRUE] \in Options
      /\ [o EXCEPT !.kill = TRUE] \in Options
      /\ [o EXCEPT !.wait = TRUE] \in Options
      /\ [o EXCEPT !.pending = TRUE] \in Options
      /\ [o EXCEPT !.error = "help"] \in Options
      /\ [o EXCEPT !.paths = TRUE] \in Options
  BY DEF Options
<1>3. arg \in DOMAIN Value => Value[arg] \in Int
  BY CommandAssumption
<1>4. CASE o.error # "none"
  BY <1>4 DEF ParseArgument
<1>5. CASE o.error = "none" /\ o.pending
  BY <1>1, <1>3, <1>5 DEF ParseArgument
<1>6. CASE o.error = "none" /\ ~o.pending
  <2> DEFINE set == CASE arg = "--json"    -> [o EXCEPT !.json = TRUE]
                      [] arg = "--kill"    -> [o EXCEPT !.kill = TRUE]
                      [] arg = "--wait"    -> [o EXCEPT !.wait = TRUE]
                      [] arg = "--timeout" -> [o EXCEPT !.pending = TRUE]
                      [] arg = "--help"    -> [o EXCEPT !.error = "help"]
                      [] OTHER             -> [o EXCEPT !.paths = TRUE]
  <2>1. ParseArgument(o, arg) = set
    BY <1>6 DEF ParseArgument
  <2>2. set \in Options
    BY <1>2
  <2> QED BY <2>1, <2>2
<1> QED BY <1>4, <1>5, <1>6

\* f is the function of the loop over argv, for k arguments.
Parses(args, k, f) ==
    f = [n \in 0..k |-> IF n = 0 THEN NoOptions ELSE ParseArgument(f[n - 1], args[n])]

\* The loop has such a function, however many arguments there are.
LEMMA ParsesExist ==
    ASSUME NEW args, NEW k \in Nat
    PROVE  \E f : Parses(args, k, f)
<1> DEFINE S == {n \in Nat : \E f : Parses(args, n, f)}
<1>1. 0 \in S
  <2>1. Parses(args, 0, [n \in 0..0 |-> NoOptions])
    BY DEF Parses
  <2> QED BY <2>1
<1>2. \A n \in S : n + 1 \in S
  <2> TAKE n \in S
  <2>1. PICK f : Parses(args, n, f)
    OBVIOUS
  <2> DEFINE next == ParseArgument(f[n], args[n + 1])
             g == [i \in 0..(n + 1) |-> IF i = n + 1 THEN next ELSE f[i]]
             body(i) == IF i = 0 THEN NoOptions ELSE ParseArgument(g[i - 1], args[i])
  <2>2. \A i \in 0..(n + 1) : g[i] = body(i)
    <3> TAKE i \in 0..(n + 1)
    <3>1. CASE i = n + 1
      <4>1. g[i - 1] = f[n] /\ i # 0 /\ g[i] = next
        BY <3>1
      <4> QED BY <3>1, <4>1
    <3>2. CASE i # n + 1
      <4>1. i \in 0..n /\ g[i] = f[i]
        BY <3>2
      <4>2. f[i] = IF i = 0 THEN NoOptions ELSE ParseArgument(f[i - 1], args[i])
        BY <2>1, <4>1 DEF Parses
      <4>3. i # 0 => i - 1 \in 0..(n + 1) /\ i - 1 # n + 1
        BY <4>1
      <4>4. i # 0 => g[i - 1] = f[i - 1]
        BY <4>3
      <4> QED BY <4>1, <4>2, <4>4
    <3> QED BY <3>1, <3>2
  <2>3. g = [i \in 0..(n + 1) |-> body(i)]
    <3> HIDE DEF body
    <3> QED BY <2>2
  <2>4. Parses(args, n + 1, g)
    BY <2>3 DEF Parses
  <2> QED BY <2>4
<1>3. S = Nat
  <2> HIDE DEF S
  <2>1. S \subseteq Nat
    BY DEF S
  <2> QED BY <1>1, <1>2, <2>1, NatInduct
<1> QED BY <1>3

\* Whatever the command line, parsing it comes to options.
LEMMA ParseIs ==
    ASSUME NEW args \in Commands
    PROVE  Parse(args) \in Options
<1> PICK k \in Nat : k = Len(args)
  BY CommandAssumption
<1> DEFINE f == CHOOSE x : Parses(args, k, x)
<1>1. Parses(args, k, f)
  BY ParsesExist
<1>2. ParseArguments(args) = f[k]
  BY DEF ParseArguments, Parses
<1> HIDE DEF f
<1> DEFINE S == {n \in Nat : n <= k => f[n] \in Options}
<1>3. 0 \in S
  BY <1>1 DEF Parses, NoOptions, Options
<1>4. \A n \in S : n + 1 \in S
  <2> SUFFICES ASSUME NEW n \in S, n + 1 <= k PROVE f[n + 1] \in Options
    OBVIOUS
  <2>1. f[n] \in Options /\ n + 1 \in 0..k /\ n + 1 # 0 /\ (n + 1) - 1 = n
    OBVIOUS
  <2>2. f[n + 1] = ParseArgument(f[n], args[n + 1])
    BY <1>1, <2>1 DEF Parses
  <2> QED BY <2>1, <2>2, ParseArgumentKept
<1>5. k \in S
  <2> HIDE DEF S
  <2>1. S \subseteq Nat
    BY DEF S
  <2> QED BY <1>3, <1>4, <2>1, NatInduct
<1> PICK o \in Options : o = ParseArguments(args)
  BY <1>2, <1>5
<1>6. /\ [o EXCEPT !.error = "usage"] \in Options
      /\ [o EXCEPT !.error = "timeout argument"] \in Options
      /\ [o EXCEPT !.error = "no paths"] \in Options
  BY DEF Options
<1> QED BY <1>6 DEF Parse

\* run_command's variables have the types they should.
THEOREM CommandTypesCorrect == CommandSpec => []CommandTypesOK
<1> DEFINE Typed == opts \in Options
<1>1. CommandInit => Typed
  BY DEF CommandInit, NoOptions, Options
<1>2. Typed /\ [CommandNext]_cliVars => Typed'
  <2> SUFFICES ASSUME Typed, [CommandNext]_cliVars PROVE Typed'
    OBVIOUS
  <2>1. ASSUME NEW args \in Commands, Command(args) PROVE Typed'
    BY <2>1, ParseIs DEF Command
  <2>2. CASE UNCHANGED opts
    BY <2>2
  <2> QED
    BY <2>1, <2>2 DEF CommandNext, Program, Searching, WaitCheck, WakeUp, ListDone, Terminate, Recheck,
       Report, Tick, Others, cliVars, progVars
<1>3. CommandInv /\ Typed => CommandTypesOK
  BY DEF CommandInv, StateTypesOK, SearchInv, CommandTypesOK
<1> QED
  BY <1>1, <1>2, <1>3, AlwaysCommandInv, PTL DEF CommandSpec

\* Ids that are never given again.
IdsDiffer == \A p, q \in Procs : p # q /\ pidOf[p] # NoPid => pidOf[p] # pidOf[q]

\* The reuse of ids is all that lets --kill terminate a process which never used
\* the path: where the system gives no id again, only users are terminated.
THEOREM KillsOnlyHoldersWithoutReuse == ~PidReuse => (CommandSpec => []KillsOnlyHolders)
<1> SUFFICES ASSUME ~PidReuse PROVE CommandSpec => []KillsOnlyHolders
  OBVIOUS
<1>1. CommandInit => IdsDiffer
  BY PidAssumption DEF CommandInit, TableInit, IdsDiffer
<1>2. CommandInv /\ IdsDiffer /\ [CommandNext]_cliVars => IdsDiffer'
  <2> SUFFICES ASSUME CommandInv, IdsDiffer, [CommandNext]_cliVars PROVE IdsDiffer'
    OBVIOUS
  <2>1. pidOf \in [Procs -> Pids \cup {NoPid}]
    BY DEF CommandInv, SearchInv, SearchTypesOK, TableTypeOK
  <2>2. CASE UNCHANGED pidOf
    BY <2>2 DEF IdsDiffer
  <2>3. ASSUME NEW p \in Procs, NEW pid \in Pids, Start(p, pid, opened) PROVE IdsDiffer'
    <3>1. /\ \A q \in Procs : pidOf[q] # pid
          /\ \A q \in Procs : pidOf'[q] = IF q = p THEN pid ELSE pidOf[q]
      BY <2>1, <2>3 DEF Start, Free
    <3> QED
      BY <3>1, PidAssumption DEF IdsDiffer
  <2>4. CASE Others
    BY <2>2, <2>3, <2>4 DEF Others, Environment, ProcessesMove, Use, Release, Exit
  <2>5. CASE Program
    <3>1. CASE Searching
      BY <2>2, <3>1, SearchStepTypes DEF Searching, CommandInv, SearchInv, tableVars
    <3> QED
      BY <2>2, <2>5, <3>1 DEF Program, Command, WaitCheck, WakeUp, ListDone, Terminate, Recheck,
         Report, Find, SearchBegin, tableVars
  <2>6. CASE Tick \/ UNCHANGED cliVars
    BY <2>2, <2>6 DEF Tick, cliVars, tableVars
  <2> QED
    BY <2>4, <2>5, <2>6 DEF CommandNext
<1>3. CommandInv /\ IdsDiffer => KillsOnlyHolders
  <2> SUFFICES ASSUME CommandInv, IdsDiffer, NEW p \in terminated PROVE p \in users
    BY DEF KillsOnlyHolders
  <2>1. PICK q \in users : pidOf[q] = pidOf[p]
    BY DEF CommandInv, VictimsInv, KillsOnlyTheirIds
  <2> QED
    BY <2>1, CommandFacts DEF IdsDiffer, CommandInv, VictimsInv
<1> QED
  BY <1>1, <1>2, <1>3, AlwaysCommandInv, PTL DEF CommandSpec
=============================================================================

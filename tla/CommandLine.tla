---------------------------- MODULE CommandLine -----------------------------
(***************************************************************************)
(* run_command of FileLocksmithCLI: it parses the arguments, and lists the *)
(* processes that use the paths, or terminates them by their ids and lists *)
(* what is left, or waits until a search finds nobody.  The searches are   *)
(* those of Search; the processes go on with what they do all the time.    *)
(***************************************************************************)
EXTENDS Search, Integers, Sequences

CONSTANTS
    Commands,   \* the command lines, sequences of arguments
    Value,      \* the numbers among the arguments that are not options
    Protected,  \* processes that OpenProcess(PROCESS_TERMINATE) refuses
    Cap         \* BOUND: time is not told apart beyond this many Sleeps

ASSUME CommandAssumption ==
    /\ Protected \subseteq Procs
    /\ Cap \in Nat
    /\ \A args \in Commands : args \in Seq(STRING)
    /\ \A a \in DOMAIN Value : Value[a] \in Int /\ Value[a] < Cap

VARIABLES
    pc,         \* where run_command is
    opts,       \* the options, and what parsing the arguments came to
    elapsed,    \* time since start_time, in Sleeps of 200 ms
    victims,    \* results kill_processes has not come to
    output,     \* what run_command has written, part by part
    exitCode,
    terminated, \* processes TerminateProcess has been called for
    held,       \* ghost: Kept, of the search that listed the victims, if it did
                \* not fail
    users,      \* ghost: sometime, of that search
    noticed,    \* ghost: ids found by the searches before any killing
    tried,      \* ghost: ids kill_processes has come to
    free        \* ghost: nobody used the path at some time of the search

progVars == <<pc, opts, elapsed, victims, output, exitCode, terminated>>
recVars  == <<held, users, noticed, tried, free>>
cliVars  == <<tableVars, searchVars, ghostVars, progVars, recVars>>

NoOptions == [json |-> FALSE, kill |-> FALSE, wait |-> FALSE, timeout |-> -1,
              pending |-> FALSE, paths |-> FALSE, error |-> "none"]

Options == [json : BOOLEAN, kill : BOOLEAN, wait : BOOLEAN, timeout : Int,
            pending : BOOLEAN, paths : BOOLEAN,
            error : {"none", "help", "usage", "invalid timeout", "timeout argument", "no paths"}]

CommandTypesOK ==
    /\ SearchTypesOK
    /\ pc \in {"parse", "wait", "sleep", "list", "kill", "recheck", "exit"}
    /\ opts \in Options
    /\ elapsed \in 0..Cap
    /\ victims \subseteq [pid : Pids, proc : Procs]
    /\ exitCode \in {-1, 0, 1} /\ (exitCode # -1 <=> pc = "exit")
    /\ terminated \subseteq {p \in Procs : pidOf[p] # NoPid} \ Protected

CommandInit ==
    /\ TableInit /\ SearchInit
    /\ pc = "parse" /\ opts = NoOptions
    /\ elapsed = 0 /\ victims = {} /\ output = <<>> /\ exitCode = -1
    /\ terminated = {}
    /\ held = {} /\ users = {} /\ noticed = {} /\ tried = {} /\ free = FALSE

-----------------------------------------------------------------------------
\* One turn of the loop over argv; "pending" is a --timeout whose number is the
\* next argument, whatever it looks like.
ParseArgument(o, arg) ==
    IF o.error # "none" THEN o
    ELSE IF o.pending THEN
        IF arg \in DOMAIN Value
          THEN [o EXCEPT !.pending = FALSE, !.timeout = Value[arg]]
          ELSE [o EXCEPT !.error = "invalid timeout"]
    ELSE CASE arg = "--json"    -> [o EXCEPT !.json = TRUE]
           [] arg = "--kill"    -> [o EXCEPT !.kill = TRUE]
           [] arg = "--wait"    -> [o EXCEPT !.wait = TRUE]
           [] arg = "--timeout" -> [o EXCEPT !.pending = TRUE]
           [] arg = "--help"    -> [o EXCEPT !.error = "help"]
           [] OTHER             -> [o EXCEPT !.paths = TRUE]

\* The loop over argv: parsed[n] is what the first n arguments come to.
ParseArguments(args) ==
    LET parsed[n \in 0..Len(args)] ==
            IF n = 0 THEN NoOptions ELSE ParseArgument(parsed[n - 1], args[n])
    IN  parsed[Len(args)]

Parse(args) ==
    LET o == ParseArguments(args)
    IN  IF args = <<>>              THEN [o EXCEPT !.error = "usage"]
        ELSE IF o.error # "none"    THEN o
        ELSE IF o.pending           THEN [o EXCEPT !.error = "timeout argument"]
        ELSE IF ~o.paths            THEN [o EXCEPT !.error = "no paths"]
        ELSE o

Quit(code, part) ==
    /\ pc' = "exit"
    /\ exitCode' = code
    /\ output' = Append(output, part)

\* finder.find(paths), for what comes next.
Find(next) == SearchBegin /\ pc' = next /\ free' = (Using = {})

Command(args) ==
    /\ pc = "parse"
    /\ opts' = Parse(args)
    /\ \/ /\ opts'.error # "none"
          /\ Quit(IF opts'.error = "help" THEN 0 ELSE 1, opts'.error)
          /\ UNCHANGED <<tableVars, searchVars, ghostVars, free>>
       \/ /\ opts'.error = "none"
          /\ Find(IF opts'.wait THEN "wait" ELSE "list")
          /\ output' = IF ~opts'.wait THEN <<>>
                         ELSE IF opts'.json THEN <<"warning", "waiting">> ELSE <<"waiting">>
          /\ UNCHANGED exitCode
    /\ UNCHANGED <<elapsed, victims, terminated, held, users, noticed, tried>>

-----------------------------------------------------------------------------
\* Mutant: a timeout of 0 is none.
TimeUpPositive == opts.timeout > 0 /\ elapsed > opts.timeout

TimeUp == opts.timeout >= 0 /\ elapsed > opts.timeout

\* Mutants: the time is looked at before the result; the loop is left alike
\* when the path is unlocked and when the time is up.
OutcomeTimeFirst == CASE TimeUp -> "timeout" [] ~TimeUp /\ found = {} -> "unlocked" [] OTHER -> "on"
OutcomeBreak     == IF found = {} \/ TimeUp THEN "unlocked" ELSE "on"

Outcome == CASE found = {} -> "unlocked" [] found # {} /\ TimeUp -> "timeout" [] OTHER -> "on"

\* The turn of the waiting loop after finder.find.
WaitCheck ==
    /\ pc = "wait" /\ phase = "done"
    /\ \/ Outcome = "unlocked" /\ Quit(0, "unlocked")
       \/ Outcome = "timeout" /\ Quit(1, "timeout")
       \/ Outcome = "on" /\ pc' = "sleep" /\ UNCHANGED <<exitCode, output>>
    /\ noticed' = noticed \cup {e.pid : e \in found}
    /\ UNCHANGED <<tableVars, searchVars, ghostVars, opts, elapsed, victims, terminated, held, users, tried, free>>

\* Mutant: the search is made once, before the loop.
WakeUpNoSearch ==
    /\ pc = "sleep"
    /\ pc' = "wait"
    /\ elapsed' = IF elapsed < Cap THEN elapsed + 1 ELSE Cap
    /\ UNCHANGED <<tableVars, searchVars, ghostVars, opts, victims, output, exitCode, terminated, recVars>>

\* Sleep(200) is over, and the next search begins.
WakeUp ==
    /\ pc = "sleep"
    /\ Find("wait")
    /\ elapsed' = IF elapsed < Cap THEN elapsed + 1 ELSE Cap
    /\ UNCHANGED <<opts, victims, output, exitCode, terminated, held, users, noticed, tried>>

\* A search may take as long as it likes, too.
Tick ==
    /\ pc = "wait" /\ phase # "done" /\ elapsed < Cap
    /\ elapsed' = elapsed + 1
    /\ UNCHANGED <<tableVars, searchVars, ghostVars, pc, opts, victims, output, exitCode, terminated, recVars>>

-----------------------------------------------------------------------------
Listing == IF opts.json THEN "json" ELSE "text"

\* Mutant: every process that was listed, not the ones found, is to be ended.
VictimsAll == listed

Victims == found

\* The search without --wait: list its result, or begin to kill.
ListDone ==
    /\ pc = "list" /\ phase = "done"
    /\ held' = IF failed THEN {} ELSE Kept
    /\ users' = sometime
    /\ noticed' = {e.pid : e \in found}
    /\ \/ /\ opts.kill
          /\ pc' = "kill" /\ victims' = Victims
          /\ UNCHANGED <<output, exitCode>>
       \/ /\ ~opts.kill
          /\ Quit(0, Listing)
          /\ UNCHANGED victims
    /\ UNCHANGED <<tableVars, searchVars, ghostVars, opts, elapsed, terminated, tried, free>>

\* Mutant: one that cannot be terminated ends the loop.
NextVictimsOrStop(e, hit) == IF hit = {} THEN {} ELSE victims \ {e}

NextVictims(e, hit) == victims \ {e}

\* kill_processes, one result: OpenProcess finds whoever has the id now, and
\* TerminateProcess only begins what ends in the exit of the process.
Terminate(e) ==
    LET hit == Named(e.pid) \ Protected
    IN  /\ pc = "kill" /\ e \in victims
        /\ victims' = NextVictims(e, hit)
        /\ tried' = tried \cup {e.pid}
        /\ terminated' = terminated \cup hit
        /\ output' = Append(output, IF hit = {} THEN "failed" ELSE "terminated")
        /\ UNCHANGED <<tableVars, searchVars, ghostVars, pc, opts, elapsed, exitCode, held, users, noticed, free>>

Recheck ==
    /\ pc = "kill" /\ victims = {}
    /\ Find("recheck")
    /\ UNCHANGED <<opts, elapsed, victims, output, exitCode, terminated, held, users, noticed, tried>>

\* Mutant: the exit code counts the processes that are left.
ExitCodeCount == Cardinality(found)

ExitCode == 0

Report ==
    /\ pc = "recheck" /\ phase = "done"
    /\ Quit(ExitCode, Listing)
    /\ UNCHANGED <<tableVars, searchVars, ghostVars, opts, elapsed, victims, terminated, recVars>>

-----------------------------------------------------------------------------
Searching == SearchStep /\ UNCHANGED <<progVars, recVars>>

Program ==
    \/ \E args \in Commands : Command(args)
    \/ Searching \/ WaitCheck \/ WakeUp
    \/ ListDone \/ Recheck \/ Report
    \/ \E e \in victims : Terminate(e)

Others ==
    /\ Environment
    /\ free' = (free \/ Using' = {})
    /\ UNCHANGED <<progVars, held, users, noticed, tried>>

CommandNext == Program \/ Tick \/ Others

CommandSpec ==
    /\ CommandInit
    /\ [][CommandNext]_cliVars
    /\ WF_cliVars(Program)

-----------------------------------------------------------------------------
\* A process --kill terminates used the path at some time of the search that
\* found it.
KillsOnlyHolders == terminated \subseteq users

\* ... or else it has been given the id of one that did.
KillsOnlyTheirIds ==
    \A p \in terminated : \E q \in users : pidOf[q] = pidOf[p]

\* When a run with --kill is over, each process that kept one visible use of the
\* path throughout the search, and that can be terminated, has been dealt with:
\* terminated, or gone by itself.
KillComplete ==
    (pc = "exit" /\ opts.kill) =>
        held \ Protected \subseteq terminated \cup (Procs \ alive)

UnlockedSaid == pc = "exit" /\ opts.wait /\ exitCode = 0 /\ opts.error = "none"

\* "Unlocked" is not said of a path that one process kept by one visible use all
\* through the last search, if no table was out of reach.
UnlockedUnlessHeld == (UnlockedSaid /\ ~failed) => Kept = {}

\* "Unlocked" is only said of a path that nobody used at some time of the last
\* search.  (The code does not keep to this: see the README.)
UnlockedWasFree == UnlockedSaid => free

\* Who is told that the time is up was right to wait: somebody used the path at
\* some time of the last search, and the time is up.
TimeoutHonest ==
    (pc = "exit" /\ opts.wait /\ exitCode = 1 /\ opts.error = "none") =>
        sometime # {} /\ elapsed > opts.timeout /\ opts.timeout >= 0

\* A wait with a timeout ends.
TimeoutEnds == (pc = "wait" /\ opts.timeout >= 0) ~> (pc = "exit")

\* A wait ends when the path is no more used, in a way that can be seen, for good.
UnlockEnds == <>[](\A p \in Procs : uses[p] \cap Visible(p) = {}) => <>(pc = "exit")
=============================================================================

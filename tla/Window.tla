------------------------------- MODULE Window -------------------------------
(***************************************************************************)
(* The scan window (MainViewModel): LoadProcesses fills the list from a    *)
(* search that runs beside the user interface, every row gets a watcher    *)
(* that takes it away when its process has exited, and EndTask terminates  *)
(* the process of a row.  Everything but the search runs on the thread of  *)
(* the user interface, one piece between two awaits at a time; the         *)
(* processes move on in between.                                           *)
(***************************************************************************)
EXTENDS Search

CONSTANTS
    Unwatchable,    \* processes that cannot be waited for
    Protected,      \* processes that cannot be terminated
    MaxLoads        \* BOUND: loads of the list

ASSUME WindowAssumption ==
    /\ Unwatchable \subseteq Procs /\ Protected \subseteq Procs
    /\ MaxLoads \in Nat

VARIABLES
    load,       \* "idle", or where LoadProcessesAsync is
    gen,        \* the number of the load, which is the identity of its CTS
    unshown,    \* results the loop has not come to
    rows,       \* Processes, the list that is shown
    watch,      \* the WatchProcess tasks that have not ended
    terminated  \* processes Kill has been called for

windowVars == <<load, gen, unshown, rows, watch, terminated>>
allVars    == <<tableVars, searchVars, ghostVars, windowVars>>

\* A row is a ProcessResult object: two with the same content are not the same.
Rows == [gen : 1..MaxLoads, pid : Pids, proc : Procs]

WindowTypesOK ==
    /\ SearchTypesOK
    /\ load \in {"idle", "searching", "adding"}
    /\ gen \in 0..MaxLoads
    /\ unshown \subseteq found /\ (unshown # {} => load = "adding")
    /\ rows \subseteq Rows
    /\ watch \subseteq [row : Rows, target : Procs, cancelled : BOOLEAN]
    /\ terminated \subseteq Procs \ Protected

WindowInit ==
    /\ TableInit /\ SearchInit
    /\ load = "idle" /\ gen = 0 /\ unshown = {}
    /\ rows = {} /\ watch = {} /\ terminated = {}

-----------------------------------------------------------------------------
\* Mutant: the watchers of the load before are left alone.
CancelNobody == watch

\* _cancelProcessWatching.Cancel(): the tasks go on when the thread is free.
Cancel == {[w EXCEPT !.cancelled = TRUE] : w \in watch}

\* LoadProcessesAsync up to the await.  The command is disabled as long as it
\* runs.
LoadProcesses ==
    /\ load = "idle"
    /\ gen < MaxLoads
    /\ load' = "searching"
    /\ gen' = gen + 1
    /\ rows' = {}
    /\ watch' = Cancel
    /\ SearchBegin
    /\ UNCHANGED <<unshown, terminated>>

\* Mutant: every process that was listed is shown.
FoundAll ==
    /\ load = "searching" /\ phase = "done"
    /\ load' = "adding"
    /\ unshown' = listed
    /\ UNCHANGED <<tableVars, searchVars, ghostVars, gen, rows, watch, terminated>>

\* The await is over: the loop over what was found begins.
Found ==
    /\ load = "searching" /\ phase = "done"
    /\ load' = "adding"
    /\ unshown' = found
    /\ UNCHANGED <<tableVars, searchVars, ghostVars, gen, rows, watch, terminated>>

\* Mutant: one that cannot be watched is shown all the same.
ShowRowAlways(e) ==
    LET row == [gen |-> gen, pid |-> e.pid, proc |-> e.proc]
    IN  /\ load = "adding"
        /\ e \in unshown
        /\ unshown' = unshown \ {e}
        /\ rows' = rows \cup {row}
        /\ watch' = watch \cup {[row |-> row, target |-> p, cancelled |-> FALSE] : p \in Named(e.pid) \ Unwatchable}
        /\ UNCHANGED <<tableVars, searchVars, ghostVars, load, gen, terminated>>

\* Processes.Add(p), and WatchProcess up to its await: GetProcessById finds the
\* process that has the id now; if there is none, or it cannot be waited for,
\* the row is taken away at once.
ShowRow(e) ==
    LET row     == [gen |-> gen, pid |-> e.pid, proc |-> e.proc]
        targets == Named(e.pid) \ Unwatchable
    IN  /\ load = "adding"
        /\ e \in unshown
        /\ unshown' = unshown \ {e}
        /\ rows' = IF targets = {} THEN rows ELSE rows \cup {row}
        /\ watch' = watch \cup {[row |-> row, target |-> p, cancelled |-> FALSE] : p \in targets}
        /\ UNCHANGED <<tableVars, searchVars, ghostVars, load, gen, terminated>>

\* IsLoading = false;
Loaded ==
    /\ load = "adding" /\ unshown = {}
    /\ load' = "idle"
    /\ UNCHANGED <<tableVars, searchVars, ghostVars, gen, unshown, rows, watch, terminated>>

\* Mutant: the task ends without a look at the process.
ResumeOnly(w) ==
    /\ load # "adding"
    /\ w.cancelled \/ w.target \notin alive
    /\ watch' = watch \ {w}
    /\ UNCHANGED <<tableVars, searchVars, ghostVars, load, gen, unshown, rows, terminated>>

\* WatchProcess behind its await: the process has exited, or the wait was
\* cancelled, or both.
Resume(w) ==
    /\ load # "adding"
    /\ w.cancelled \/ w.target \notin alive
    /\ watch' = watch \ {w}
    /\ rows' = IF w.target \notin alive THEN rows \ {w.row} ELSE rows
    /\ UNCHANGED <<tableVars, searchVars, ghostVars, load, gen, unshown, terminated>>

\* Mutant: the row is taken away at once, whether Kill succeeds or not.
EndTaskAtOnce(row) ==
    /\ load # "adding"
    /\ row \in rows
    /\ rows' = rows \ {row}
    /\ terminated' = terminated \cup (Named(row.pid) \ Protected)
    /\ UNCHANGED <<tableVars, searchVars, ghostVars, load, gen, unshown, watch>>

\* EndTask: whoever has the id is terminated, if that is allowed; the row stays
\* to be taken away by its watcher, unless nobody has the id.
EndTask(row) ==
    /\ load # "adding"
    /\ row \in rows
    /\ rows' = IF Named(row.pid) = {} THEN rows \ {row} ELSE rows
    /\ terminated' = terminated \cup (Named(row.pid) \ Protected)
    /\ UNCHANGED <<tableVars, searchVars, ghostVars, load, gen, unshown, watch>>

-----------------------------------------------------------------------------
\* Mutant: the watchers look for their ids from time to time.
WatchedNot == {}

\* A watcher keeps a handle to its process open.
Watched == {w.target : w \in watch}

Others ==
    /\ ProcessesMove(opened \cup Watched)
    /\ UNCHANGED windowVars

Dispatcher ==
    \/ Found \/ Loaded
    \/ \E e \in unshown : ShowRow(e)
    \/ \E w \in watch : Resume(w)

User == LoadProcesses \/ \E row \in rows : EndTask(row)

Background == SearchStep /\ UNCHANGED windowVars

Exits == Others /\ \E p \in terminated \cap alive : alive' = alive \ {p}

WindowNext == Dispatcher \/ Background \/ User \/ Others

\* The dispatcher runs what is posted to it, the thread pool runs the search,
\* and a process that is terminated does exit.  Nobody has to press a button.
WindowSpec ==
    /\ WindowInit
    /\ [][WindowNext]_allVars
    /\ WF_allVars(Dispatcher) /\ WF_allVars(Background) /\ WF_allVars(Exits)

-----------------------------------------------------------------------------
\* What is shown is of the last load, and has a watcher that was not cancelled.
RowsWatched ==
    \A r \in rows : r.gen = gen /\ \E w \in watch : w.row = r /\ ~w.cancelled

\* A row is only taken away by the next load, or because its process has exited
\* or cannot be waited for: no watcher of an earlier load, and no other process
\* that once had the id, takes it.
RowLeavesWithProcess ==
    [][\A r \in rows \ rows' :
          gen' # gen \/ r.proc \notin alive \/ r.proc \in Unwatchable]_allVars

\* EndTask terminates only the process whose exit the row waits for.
EndsWhatIsWatched ==
    [][\A r \in rows : EndTask(r) =>
          terminated' \ terminated \subseteq {w.target : w \in {v \in watch : v.row = r}}]_allVars

\* Again and again every row that is shown has a process with its id: those of
\* exited ones do not stay.
ExitedRowsGo == []<>(\A r \in rows : Named(r.pid) # {})

\* Again and again all watchers are those of the last load: what reloading
\* leaves behind, with its handles, goes.
StaleWatchersEnd == []<>(\A w \in watch : w.row.gen = gen)
=============================================================================

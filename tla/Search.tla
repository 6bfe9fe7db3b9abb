------------------------------- MODULE Search -------------------------------
(***************************************************************************)
(* find_processes_recursive: which processes use a path.  It looks twice:  *)
(* handles() copies the system's handle table and then asks for the name   *)
(* behind each entry, processes() copies the process list and then reads   *)
(* the modules of each entry.  What a process does in between shows: it    *)
(* may open the path by another handle and close the one in the table, and *)
(* an id may change hands.  A failure of either list is an empty list.     *)
(***************************************************************************)
EXTENDS ProcessTable

CONSTANTS
    Denied,     \* processes that OpenProcess(PROCESS_DUP_HANDLE) refuses
    Hidden,     \* Hidden[p]: the uses of p whose queries fail or hang (the handle
                \* cannot be duplicated, has no name or is skipped; the modules
                \* cannot be enumerated or opened)
    MayFail     \* TRUE: the system's tables, or the path, may be out of reach

ASSUME SearchAssumption ==
    /\ Denied \subseteq Procs
    /\ Hidden \in [Procs -> SUBSET Uses]
    /\ MayFail \in BOOLEAN

\* The uses of p that a search can see, if it looks while they last.
Visible(p) == {u \in Uses \ Hidden[p] : u = Module \/ p \notin Denied}

VARIABLES
    phase,      \* where the search is
    known,      \* path_to_kernel_name gave a name for the path
    opened,     \* processes handles() has open, so that their ids stay theirs
    entries,    \* handle table entries not yet examined: process ids and values
    pidFiles,   \* the keys of pid_files
    listed,     \* what processes() lists: ids and the processes behind them
    unread,     \* the listed processes whose modules have not been read
    found,      \* the result
    throughout, \* ghost: throughout[p] are the uses p has kept since the search
                \* began
    sometime,   \* ghost: processes that used the path at some time of the search
    failed      \* ghost: a table, or the path, was out of reach

searchVars == <<phase, known, opened, entries, pidFiles, listed, unread, found>>
ghostVars  == <<throughout, sometime, failed>>

Entries(ps) == {[pid |-> pidOf[p], proc |-> p] : p \in ps}

\* The entries of handles of the processes that are among the uses of us.
HandleEntries(us) == UNION {{pidOf[p]} \X (us[p] \cap Values) : p \in alive}

SearchTypeOK ==
    /\ phase \in {"idle", "table", "handles", "processes", "modules", "done"}
    /\ known \in BOOLEAN /\ failed \in BOOLEAN
    /\ opened \subseteq Procs /\ (opened # {} => phase = "handles")
    /\ entries \subseteq Pids \X Values /\ pidFiles \subseteq Pids
    /\ listed \subseteq [pid : Pids, proc : Procs]
    /\ unread \subseteq listed /\ found \subseteq listed
    /\ throughout \in [Procs -> SUBSET Uses] /\ sometime \subseteq Procs

SearchInit ==
    /\ phase = "idle"
    /\ known = FALSE /\ failed = FALSE
    /\ opened = {} /\ entries = {} /\ pidFiles = {}
    /\ listed = {} /\ unread = {} /\ found = {}
    /\ throughout = [p \in Procs |-> {}] /\ sometime = {}

-----------------------------------------------------------------------------
\* find_processes_recursive is called: the kernel names of the paths.
SearchBegin ==
    /\ phase \in {"idle", "done"}
    /\ \E ok \in {TRUE} \cup {~MayFail} :
         /\ known' = ok
         /\ failed' = ~ok
    /\ phase' = "table"
    /\ throughout' = uses
    /\ sometime' = Using
    /\ entries' = {} /\ pidFiles' = {}
    /\ listed' = {} /\ unread' = {} /\ found' = {}
    /\ UNCHANGED <<tableVars, opened>>

\* NtQuerySystemInformation(SystemExtendedHandleInformation): the handles that
\* name the path now, and any that name another file now.
TakeHandleTable ==
    /\ phase = "table"
    /\ \/ /\ \E others \in SUBSET (HandleEntries(Ways) \ HandleEntries(uses)) :
               entries' = HandleEntries(uses) \cup others
          /\ phase' = "handles"
          /\ UNCHANGED failed
       \/ /\ MayFail
          /\ phase' = "processes"
          /\ failed' = TRUE
          /\ UNCHANGED entries
    /\ UNCHANGED <<tableVars, known, opened, pidFiles, listed, unread, found, throughout, sometime>>

\* The handle is duplicated from whatever process has the id now, which stays
\* open to the end of handles(); its name is that of the path if the value still
\* names it there, and the queries answer.
ExamineHandle(e) ==
    LET owner == Named(e[1]) \ Denied
    IN  /\ phase = "handles"
        /\ e \in entries
        /\ entries' = entries \ {e}
        /\ opened' = opened \cup owner
        /\ pidFiles' = IF known /\ \E p \in owner : e[2] \in uses[p] \cap Visible(p)
                         THEN pidFiles \cup {e[1]} ELSE pidFiles
        /\ UNCHANGED <<tableVars, phase, known, listed, unread, found, ghostVars>>

\* Mutant: the last handle is not looked at.
HandlesDoneShort ==
    /\ phase = "handles"
    /\ Cardinality(entries) <= 1
    /\ phase' = "processes"
    /\ opened' = {}
    /\ UNCHANGED <<tableVars, known, entries, pidFiles, listed, unread, found, ghostVars>>

\* The end of handles(), which closes the processes it has opened.
HandlesDone ==
    /\ phase = "handles"
    /\ entries = {}
    /\ phase' = "processes"
    /\ opened' = {}
    /\ UNCHANGED <<tableVars, known, entries, pidFiles, listed, unread, found, ghostVars>>

\* NtQuerySystemInformation(SystemProcessInformation)
TakeProcessList ==
    /\ phase = "processes"
    /\ \/ /\ listed' = Entries(alive)
          /\ UNCHANGED failed
       \/ /\ MayFail
          /\ failed' = TRUE
          /\ UNCHANGED listed
    /\ unread' = listed'
    /\ phase' = "modules"
    /\ UNCHANGED <<tableVars, known, opened, entries, pidFiles, found, throughout, sometime>>

\* Mutant: a module without a kernel name matches every path.
ReadModulesAny(e) ==
    /\ phase = "modules"
    /\ e \in unread
    /\ unread' = unread \ {e}
    /\ pidFiles' = IF known /\ \E p \in Named(e.pid) : Module \in Ways[p]
                     THEN pidFiles \cup {e.pid} ELSE pidFiles
    /\ UNCHANGED <<tableVars, phase, known, opened, entries, listed, found, ghostVars>>

\* process_modules opens the process by its id, too; when it cannot, or gives up
\* on the modules, none are read.
ReadModules(e) ==
    /\ phase = "modules"
    /\ e \in unread
    /\ unread' = unread \ {e}
    /\ pidFiles' = IF known /\ \E p \in Named(e.pid) : Module \in uses[p] \cap Visible(p)
                     THEN pidFiles \cup {e.pid} ELSE pidFiles
    /\ UNCHANGED <<tableVars, phase, known, opened, entries, listed, found, ghostVars>>

SearchEnd ==
    /\ phase = "modules"
    /\ unread = {}
    /\ found' = {e \in listed : e.pid \in pidFiles}
    /\ phase' = "done"
    /\ UNCHANGED <<tableVars, known, opened, entries, pidFiles, listed, unread, ghostVars>>

SearchStep ==
    \/ TakeHandleTable \/ HandlesDone \/ TakeProcessList \/ SearchEnd
    \/ \E e \in entries : ExamineHandle(e)
    \/ \E e \in listed : ReadModules(e)

\* What the processes do meanwhile, and what the ghosts note of it.
ProcessesMove(pinned) ==
    /\ \E p \in Procs : \/ \E u \in Uses : Use(p, u) \/ Release(p, u)
                        \/ Exit(p)
                        \/ \E pid \in Pids : Start(p, pid, pinned)
    /\ throughout' = [p \in Procs |-> throughout[p] \cap uses'[p]]
    /\ sometime' = IF phase \in {"idle", "done"} THEN sometime ELSE sometime \cup Using'
    /\ UNCHANGED <<searchVars, failed>>

Environment == ProcessesMove(opened)

SearchNext == SearchBegin \/ SearchStep \/ Environment

\* Searches one after the other, by a caller that is not modelled.
SearchesInit == TableInit /\ SearchInit

SearchSpec ==
    /\ SearchesInit
    /\ [][SearchNext]_<<tableVars, searchVars, ghostVars>>
    /\ WF_<<tableVars, searchVars, ghostVars>>(SearchStep)

-----------------------------------------------------------------------------
\* The processes that have kept one and the same use, which the search can see,
\* since it began.
Kept == {p \in Procs : throughout[p] \cap Visible(p) # {}}

\* Every process that keeps one and the same use from the beginning of the search
\* to its end is in the result, under its own id.  Of one that goes from use to
\* use, though it has the path open all the time, nothing is said.
SearchComplete ==
    (phase = "done" /\ ~failed) =>
        \A p \in Kept : [pid |-> pidOf[p], proc |-> p] \in found

\* The table and its searches have the types they should.
SearchTypesOK == TableTypeOK /\ SearchTypeOK

\* An id in the result belonged to a process that used the path at some time of
\* the search.  (It need not be the process in the result when the system has
\* given the id again in between.)
SearchSoundById ==
    phase = "done" => \A e \in found : \E p \in sometime : pidOf[p] = e.pid
=============================================================================

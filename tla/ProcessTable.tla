---------------------------- MODULE ProcessTable ----------------------------
(***************************************************************************)
(* The processes of the machine, as the searches and terminations of File  *)
(* Locksmith find them: processes start and exit, open and close the       *)
(* searched path, and the system may give the process id of one that has   *)
(* exited to a later one.                                                  *)
(***************************************************************************)
EXTENDS Naturals, FiniteSets

CONSTANTS
    Procs,      \* processes, each started at most once
    Pids,       \* process ids
    Values,     \* handle values
    Module,     \* the use of a path that needs no handle: as a loaded module
    Ways,       \* Ways[p]: the handle values, or Module, p may use the path by
    PidReuse,   \* TRUE: an id may be given again after an exit
    NoPid       \* the id of a process that has not been started

Uses == Values \cup {Module}

ASSUME WaysAssumption == Module \notin Values /\ Ways \in [Procs -> SUBSET Uses]
ASSUME PidAssumption == PidReuse \in BOOLEAN /\ NoPid \notin Pids

VARIABLES
    alive,      \* the processes that run
    pidOf,      \* the id each process was started with
    uses        \* uses[p]: the handles p has the searched path open by, and
                \* Module if it has it loaded

tableVars == <<alive, pidOf, uses>>

\* The processes that use the path, in whatever way.
Using == {p \in Procs : uses[p] # {}}

TableTypeOK ==
    /\ pidOf \in [Procs -> Pids \cup {NoPid}]
    /\ alive \subseteq {p \in Procs : pidOf[p] # NoPid}
    /\ uses \in [Procs -> SUBSET Uses]
    /\ Using \subseteq alive

TableInit ==
    /\ pidOf \in [Procs -> Pids \cup {NoPid}]
    /\ alive = {p \in Procs : pidOf[p] # NoPid}
    /\ \A p, q \in alive : p # q => pidOf[p] # pidOf[q]
    /\ uses \in [Procs -> SUBSET Uses]
    /\ \A p \in Procs : uses[p] \subseteq IF p \in alive THEN Ways[p] ELSE {}

\* An id is free again when its process has exited and nobody has a handle to
\* that process open any more.
Free(pid, pinned) ==
    IF PidReuse THEN \A p \in alive \cup pinned : pidOf[p] # pid
                ELSE \A p \in Procs : pidOf[p] # pid

\* OpenProcess(pid), Process.GetProcessById(pid): the process that has the id
\* now, whoever had it when the id was noted.
Named(pid) == {p \in alive : pidOf[p] = pid}

Start(p, pid, pinned) ==
    /\ pidOf[p] = NoPid
    /\ Free(pid, pinned)
    /\ pidOf' = [pidOf EXCEPT ![p] = pid]
    /\ alive' = alive \cup {p}
    /\ UNCHANGED uses

\* The path is opened, or loaded, once more.  A value that names nothing, or
\* another file, comes to name the path.
Use(p, u) ==
    /\ p \in alive
    /\ u \in Ways[p] \ uses[p]
    /\ uses' = [uses EXCEPT ![p] = @ \cup {u}]
    /\ UNCHANGED <<alive, pidOf>>

Release(p, u) ==
    /\ u \in uses[p]
    /\ uses' = [uses EXCEPT ![p] = @ \ {u}]
    /\ UNCHANGED <<alive, pidOf>>

Exit(p) ==
    /\ p \in alive
    /\ alive' = alive \ {p}
    /\ uses' = [uses EXCEPT ![p] = {}]
    /\ UNCHANGED pidOf
=============================================================================

------------------------------ MODULE EtwTrace ------------------------------
(***************************************************************************)
(* ETWTrace, with which the shell extensions note how they are used: a     *)
(* session of the system that is started and stopped around each command,  *)
(* and a thread that flushes it every 30 seconds.  The thread shares the   *)
(* handle and the properties of the session with the caller.  m_mutex does *)
(* not protect them: only the thread locks it.  An exception leaves the    *)
(* caller's function, but ends the process in the thread and in the        *)
(* destructor.                                                             *)
(***************************************************************************)
EXTENDS Naturals

CONSTANT MaxSessions    \* BOUND: sessions that are asked for

VARIABLES
    tracing,    \* m_tracing
    session,    \* m_traceHandle and m_eventTracePropertiesBuffer; 0 is none
    joinable,   \* m_flushing_thread is a thread
    caller,     \* where the caller is
    worker,     \* where the thread is
    destroying, \* the caller is in the destructor
    running,    \* the sessions the system runs for us
    opened,     \* how many were asked for
    ended,      \* std::terminate has been called
    refused     \* ghost: the system has refused something

callerVars == <<session, joinable, destroying, opened>>
traceVars == <<tracing, callerVars, caller, worker, running, ended, refused>>

\* The steps of Start, Flush and Stop, in the order they are taken.
Stopping    == {"reset", "clear", "notify", "join"}
CallerSteps == {"idle", "open", "enable", "begin", "spawn", "flush",
                "disable", "stop", "destroyed"} \cup Stopping
WorkerSteps == {"none", "test", "predicate", "block", "wait", "flush", "control", "returned"}

EtwInit ==
    /\ tracing = FALSE /\ session = 0 /\ joinable = FALSE
    /\ caller = "idle" /\ worker = "none" /\ destroying = FALSE
    /\ running = {} /\ opened = 0 /\ ended = FALSE /\ refused = FALSE

-----------------------------------------------------------------------------
CallerAt(s) == caller = s
WorkerAt(s) == worker = s

\* A call that the system refuses throws.
Throw ==
    /\ refused' = TRUE
    /\ IF destroying THEN ended' = TRUE /\ UNCHANGED caller
                     ELSE caller' = "idle" /\ UNCHANGED ended

\* UpdateState(true), when diagnostics are enabled in the registry.
Start ==
    /\ CallerAt("idle") /\ ~tracing
    /\ opened < MaxSessions
    /\ caller' = "open"
    /\ UNCHANGED <<tracing, callerVars, worker, running, ended, refused>>

\* StartTrace, with a name that is new in each second.
OpenSession ==
    /\ CallerAt("open")
    /\ opened' = opened + 1
    /\ \/ /\ session' = opened + 1
          /\ running' = running \cup {opened + 1}
          /\ caller' = "enable"
          /\ UNCHANGED <<ended, refused>>
       \/ Throw /\ UNCHANGED <<session, running>>
    /\ UNCHANGED <<tracing, joinable, destroying, worker>>

\* EnableTraceEx2; nobody stops the session that was opened if this is refused.
EnableProvider ==
    /\ CallerAt("enable")
    /\ \/ caller' = "begin" /\ UNCHANGED <<ended, refused>>
       \/ Throw
    /\ UNCHANGED <<tracing, callerVars, worker, running>>

Begin ==
    /\ CallerAt("begin")
    /\ tracing' = TRUE
    /\ caller' = "spawn"
    /\ UNCHANGED <<callerVars, worker, running, ended, refused>>

\* A std::thread that is assigned over a joinable one terminates the process.
Spawn ==
    /\ CallerAt("spawn")
    /\ IF joinable
         THEN ended' = TRUE /\ UNCHANGED <<joinable, worker, caller>>
         ELSE joinable' = TRUE /\ worker' = "test" /\ caller' = "idle" /\ UNCHANGED ended
    /\ UNCHANGED <<tracing, session, destroying, opened, running, refused>>

Flush ==
    /\ CallerAt("idle") /\ tracing
    /\ caller' = "flush"
    /\ UNCHANGED <<tracing, callerVars, worker, running, ended, refused>>

\* ControlTrace, which fails without the session; the destructor goes on to Stop.
FlushSession ==
    /\ CallerAt("flush")
    /\ \/ /\ session \in running
          /\ caller' = IF destroying THEN "disable" ELSE "idle"
          /\ UNCHANGED <<ended, refused>>
       \/ Throw
    /\ UNCHANGED <<tracing, callerVars, worker, running>>

\* UpdateState(false)
Stop ==
    /\ CallerAt("idle") /\ tracing
    /\ caller' = "disable"
    /\ UNCHANGED <<tracing, callerVars, worker, running, ended, refused>>

DisableProvider ==
    /\ CallerAt("disable")
    /\ \/ caller' = "stop" /\ UNCHANGED <<ended, refused>>
       \/ Throw
    /\ UNCHANGED <<tracing, callerVars, worker, running>>

StopSession ==
    /\ CallerAt("stop")
    /\ \/ /\ running' = running \ {session}
          /\ caller' = "reset"
          /\ UNCHANGED <<ended, refused>>
       \/ Throw /\ UNCHANGED running
    /\ UNCHANGED <<tracing, callerVars, worker>>

Reset ==
    /\ CallerAt("reset")
    /\ session' = 0
    /\ caller' = "clear"
    /\ UNCHANGED <<tracing, joinable, destroying, opened, worker, running, ended, refused>>

Clear ==
    /\ CallerAt("clear")
    /\ tracing' = FALSE
    /\ caller' = "notify"
    /\ UNCHANGED <<callerVars, worker, running, ended, refused>>

\* notify_one, of which a thread that does not wait yet hears nothing.
Notify ==
    /\ CallerAt("notify")
    /\ worker' = IF WorkerAt("wait") THEN "predicate" ELSE worker
    /\ caller' = "join"
    /\ UNCHANGED <<tracing, callerVars, running, ended, refused>>

Join ==
    /\ CallerAt("join") /\ WorkerAt("returned")
    /\ joinable' = FALSE /\ worker' = "none"
    /\ caller' = IF destroying THEN "destroyed" ELSE "idle"
    /\ UNCHANGED <<tracing, session, destroying, opened, running, ended, refused>>

\* ~ETWTrace: Flush and Stop.
Destroy ==
    /\ CallerAt("idle")
    /\ destroying' = TRUE
    /\ caller' = IF tracing THEN "flush" ELSE "destroyed"
    /\ UNCHANGED <<tracing, session, joinable, opened, worker, running, ended, refused>>

-----------------------------------------------------------------------------
\* FlushWorker: while (m_tracing)
Test ==
    /\ WorkerAt("test")
    /\ worker' = IF tracing THEN "predicate" ELSE "returned"
    /\ UNCHANGED <<tracing, callerVars, caller, running, ended, refused>>

\* wait_for asks the predicate before it waits, and when it is notified.
Predicate ==
    /\ WorkerAt("predicate")
    /\ worker' = IF tracing THEN "block" ELSE "flush"
    /\ UNCHANGED <<tracing, callerVars, caller, running, ended, refused>>

Block ==
    /\ WorkerAt("block")
    /\ worker' = "wait"
    /\ UNCHANGED <<tracing, callerVars, caller, running, ended, refused>>

\* 30 seconds are over.
TimeOut ==
    /\ WorkerAt("wait")
    /\ worker' = "flush"
    /\ UNCHANGED <<tracing, callerVars, caller, running, ended, refused>>

WorkerFlush ==
    /\ WorkerAt("flush")
    /\ worker' = IF tracing THEN "control" ELSE "test"
    /\ UNCHANGED <<tracing, callerVars, caller, running, ended, refused>>

\* ControlTrace in the thread: an exception has nowhere to go.
Control ==
    /\ WorkerAt("control")
    /\ \/ session \in running /\ worker' = "test" /\ UNCHANGED <<ended, refused>>
       \/ session \notin running /\ ended' = TRUE /\ UNCHANGED <<worker, refused>>
       \/ session \in running /\ ended' = TRUE /\ refused' = TRUE /\ UNCHANGED worker
    /\ UNCHANGED <<tracing, callerVars, caller, running>>

Caller ==
    \/ Start \/ OpenSession \/ EnableProvider \/ Begin \/ Spawn \/ Flush \/ FlushSession
    \/ Stop \/ DisableProvider \/ StopSession \/ Reset \/ Clear \/ Notify \/ Join \/ Destroy

Worker == Test \/ Predicate \/ Block \/ TimeOut \/ WorkerFlush \/ Control

EtwNext == ~ended /\ (Caller \/ Worker)

\* The thread is scheduled and its wait runs out; the caller goes on in a call.
EtwSpec ==
    /\ EtwInit
    /\ [][EtwNext]_traceVars
    /\ WF_traceVars(~ended /\ Worker)
    /\ WF_traceVars(~ended /\ ~CallerAt("idle") /\ Caller)

-----------------------------------------------------------------------------
(* Every variable has its type, and a session is one that was asked for.     *)
EtwTypesOK ==
    /\ tracing \in BOOLEAN /\ joinable \in BOOLEAN /\ destroying \in BOOLEAN
    /\ ended \in BOOLEAN /\ refused \in BOOLEAN
    /\ caller \in CallerSteps /\ worker \in WorkerSteps
    /\ opened \in Nat /\ session \in 0..opened /\ running \subseteq 1..opened

(* Start never assigns a thread over one that was not joined, and the        *)
(* destructor leaves none behind, although Stop may throw half way.          *)
OneThread == (CallerAt("spawn") \/ CallerAt("destroyed")) => ~joinable

(* The thread flushes the session it was made for, unless the caller is in   *)
(* the part of Stop that comes after the session was stopped.                *)
FlushHasSession ==
    /\ WorkerAt("control") => (session \in running \/ caller \in Stopping)
    /\ CallerAt("flush") => session \in running

(* When the caller is done no session is left running, unless a call was     *)
(* refused on the way.                                                       *)
NoSessionLeft ==
    (caller \in {"idle", "destroyed"} /\ ~tracing /\ ~refused) => running = {}

(* The process is ended only where the system has refused a call, or where   *)
(* the thread comes to its flush while Stop is taking the session away.      *)
EndsInStop == [][ended' => (refused' \/ caller \in Stopping)]_traceVars

(* Stop returns: a notification that is missed costs 30 seconds, no more.    *)
StopReturns == CallerAt("disable") ~> (caller \in {"idle", "destroyed"} \/ ended)
=============================================================================

----------------------------- MODULE HandleScan -----------------------------
(***************************************************************************)
(* NtdllExtensions::handles(): the enumeration of every open handle of the *)
(* system.  The queries it makes about a handle may hang for ever, so they *)
(* are made by a worker thread; the calling thread (the supervisor) looks  *)
(* every 200 ms whether the worker moved on, and otherwise asks for it to  *)
(* be terminated, closes its duplicate, skips the handle and starts        *)
(* another worker.  The request has no effect (see Kill): what keeps the   *)
(* old worker out of the way of the new one is only that it hangs.         *)
(*                                                                         *)
(* The two threads share i, process_handle, handle_copy, pid_to_handle and *)
(* result by reference.  Each access to one of them that another thread    *)
(* could see in between is a step of its own.  That allocations take the   *)
(* lock of the process heap is left out: a thread that owns it never stops *)
(* there, so it only delays the other one.                                 *)
(***************************************************************************)
EXTENDS Integers, Sequences, FiniteSets

CONSTANTS
    N,          \* info_ptr->NumberOfHandles
    Pids,       \* the processes that own handles
    Owner,      \* Owner[h]: handle_info->UniqueProcessId of entry h
    Kinds,      \* the ways the system may answer about a handle
    NULL,       \* the null HANDLE
    Prompt      \* TRUE: a query that returns at all returns within Sleep(200)

Handles == 0 .. N-1
Workers == 1 .. N          \* a worker is started at most once per index
Copies  == Workers \X Handles   \* the handle worker w duplicated from entry h

AllKinds ==
    { "gone",       \* its process can be neither opened nor duplicated from
      "nodup",      \* DuplicateHandle fails
      "badtype",    \* NtQueryObject(ObjectTypeInformation) fails
      "hangtype",   \* NtQueryObject(ObjectTypeInformation) never returns
      "other",      \* not a "File"
      "nameless",   \* a "File" that is no disk file, or whose name query fails
      "file",       \* a "File" whose name is obtained
      "hangname" }  \* a "File" whose GetFileType or name query never returns

\* What goes into the vector: every "File" whose queries return.
Files == {"nameless", "file"}

ASSUME NAssumption == N \in Nat \ {0}
ASSUME OwnerAssumption == Owner \in [Handles -> Pids]
ASSUME KindsAssumption == Kinds \subseteq AllKinds
ASSUME NullAssumption == NULL \notin Copies /\ NULL \notin Pids
ASSUME ModeAssumption == Prompt \in BOOLEAN

VARIABLES
    kind,           \* what the system will answer about each handle
    i,              \* shared: the index being examined
    processHandle,  \* shared: process_handle, the pid it is open on
    handleCopy,     \* shared: handle_copy
    cached,         \* shared: the pids in pid_to_handle
    result,         \* shared: the vector that is returned
    sup,            \* where the supervisor is
    prev,           \* supervisor: previous_i
    nw,             \* how many workers it has started
    pc,             \* where each worker is
    at,             \* worker: the index its handle_info points to
    named,          \* worker: the copy file_name was read from, NULL when it is empty
    openCopies,     \* duplicated handles this process has open
    openProcs,      \* number of handles it has open on each process
    badClose        \* CloseHandle was called on a handle not open (any more)

shared == <<i, processHandle, handleCopy, cached, result>>
kernel == <<openCopies, openProcs, badClose>>
local  == <<pc, at, named>>
vars   == <<kind, shared, sup, prev, nw, local, kernel>>

SupPCs == { "query", "loop", "spawn", "sleep", "compare", "remember", "kill",
            "linger", "bump", "cleanup", "returned", "failed" }
WorkerPCs == { "none", "test", "reset", "find", "open", "cache", "dup",
               "publish", "type", "name", "push", "close", "null", "inc",
               "exited", "wild" }

-----------------------------------------------------------------------------
Init ==
    /\ kind \in [Handles -> Kinds]
    /\ i = 0
    /\ processHandle = NULL
    /\ handleCopy = NULL
    /\ cached = {}
    /\ result = <<>>
    /\ sup = "query"
    /\ prev = 0
    /\ nw = 0
    /\ pc = [w \in Workers |-> "none"]
    /\ at = [w \in Workers |-> 0]
    /\ named = [w \in Workers |-> NULL]
    /\ openCopies = {}
    /\ openProcs = [p \in Pids |-> 0]
    /\ badClose = FALSE

Goto(w, l) == pc' = [pc EXCEPT ![w] = l]

\* A call that never returns: the worker takes no further step by itself.
Stuck(w) == \/ pc[w] = "type" /\ kind[at[w]] = "hangtype"
            \/ pc[w] = "name" /\ kind[at[w]] = "hangname"

Stopped(w) == pc[w] \in {"none", "exited", "wild"}

\* CloseHandle(c) on a duplicated handle.
Close(c) ==
    /\ openCopies' = openCopies \ {c}
    /\ badClose' = (badClose \/ (c # NULL /\ c \notin openCopies))
    /\ UNCHANGED openProcs

-----------------------------------------------------------------------------
(* The worker: the body of offload_function.                               *)

\* Mutant: "i < handle_count - 1".
WorkerTestShort(w) ==
    /\ pc[w] = "test"
    /\ Goto(w, IF i + 1 < N THEN "reset" ELSE "exited")
    /\ UNCHANGED <<kind, shared, sup, prev, nw, at, named, kernel>>

WorkerTest(w) ==
    /\ pc[w] = "test"
    /\ Goto(w, IF i < N THEN "reset" ELSE "exited")
    /\ UNCHANGED <<kind, shared, sup, prev, nw, at, named, kernel>>

WorkerReset(w) ==
    /\ pc[w] = "reset"
    /\ processHandle' = NULL
    /\ handleCopy' = NULL
    /\ Goto(w, "find")
    /\ UNCHANGED <<kind, i, cached, result, sup, prev, nw, at, named, kernel>>

\* handle_info = Handles + i, then the lookup in pid_to_handle.  Past the end
\* of the table ("wild") what is read is arbitrary: nothing more is said.
WorkerFind(w) ==
    /\ pc[w] = "find"
    /\ IF i >= N
         THEN /\ Goto(w, "wild")
              /\ UNCHANGED <<at, processHandle>>
         ELSE /\ at' = [at EXCEPT ![w] = i]
              /\ IF Owner[i] \in cached
                   THEN processHandle' = Owner[i] /\ Goto(w, "dup")
                   ELSE UNCHANGED processHandle /\ Goto(w, "open")
    /\ UNCHANGED <<kind, i, handleCopy, cached, result, sup, prev, nw, named, kernel>>

WorkerOpen(w) ==
    /\ pc[w] = "open"
    /\ LET pid == Owner[at[w]] IN
         IF kind[at[w]] = "gone"
           THEN /\ processHandle' = NULL
                /\ Goto(w, "inc")
                /\ UNCHANGED openProcs
           ELSE /\ processHandle' = pid
                /\ openProcs' = [openProcs EXCEPT ![pid] = @ + 1]
                /\ Goto(w, "cache")
    /\ UNCHANGED <<kind, i, handleCopy, cached, result, sup, prev, nw, at, named,
                   openCopies, badClose>>

\* pid_to_handle[pid] = process_handle
WorkerCache(w) ==
    /\ pc[w] = "cache"
    /\ cached' = cached \cup {Owner[at[w]]}
    /\ Goto(w, "dup")
    /\ UNCHANGED <<kind, i, processHandle, handleCopy, result, sup, prev, nw, at, named, kernel>>

\* DuplicateHandle into the local variable.  With another worker's
\* process_handle the outcome is whatever that process has under this value.
WorkerDuplicate(w) ==
    /\ pc[w] = "dup"
    /\ \E ok \in BOOLEAN :
         /\ processHandle = Owner[at[w]] => ok = (kind[at[w]] \notin {"gone", "nodup"})
         /\ processHandle = NULL => ~ok
         /\ openCopies' = IF ok THEN openCopies \cup {<<w, at[w]>>} ELSE openCopies
         /\ Goto(w, IF ok THEN "publish" ELSE "inc")
    /\ UNCHANGED <<kind, shared, sup, prev, nw, at, named, openProcs, badClose>>

\* Mutant: the duplicate stays in the local variable only.
WorkerPublishLost(w) ==
    /\ pc[w] = "publish"
    /\ Goto(w, "type")
    /\ UNCHANGED <<kind, shared, sup, prev, nw, at, named, kernel>>

\* handle_copy = local_handle_copy
WorkerPublish(w) ==
    /\ pc[w] = "publish"
    /\ handleCopy' = <<w, at[w]>>
    /\ Goto(w, "type")
    /\ UNCHANGED <<kind, i, processHandle, cached, result, sup, prev, nw, at, named, kernel>>

WorkerType(w) ==
    /\ pc[w] = "type"
    /\ ~Stuck(w)
    /\ Goto(w, IF kind[at[w]] \in Files \cup {"hangname"} THEN "name" ELSE "close")
    /\ UNCHANGED <<kind, shared, sup, prev, nw, at, named, kernel>>

\* file_handle_to_kernel_name(handle_copy): the name, or an empty string.
WorkerName(w) ==
    /\ pc[w] = "name"
    /\ ~Stuck(w)
    /\ named' = [named EXCEPT ![w] = IF kind[at[w]] = "nameless" THEN NULL ELSE handleCopy]
    /\ Goto(w, "push")
    /\ UNCHANGED <<kind, shared, sup, prev, nw, at, kernel>>

\* result.push_back(...)
WorkerPush(w) ==
    /\ pc[w] = "push"
    /\ result' = Append(result, [handle |-> at[w], name |-> named[w]])
    /\ Goto(w, "close")
    /\ UNCHANGED <<kind, i, processHandle, handleCopy, cached, sup, prev, nw, at, named, kernel>>

\* Mutant: the duplicate is not closed.
WorkerCloseMissing(w) ==
    /\ pc[w] = "close"
    /\ Goto(w, "null")
    /\ UNCHANGED <<kind, shared, sup, prev, nw, at, named, kernel>>

WorkerClose(w) ==
    /\ pc[w] = "close"
    /\ Close(handleCopy)
    /\ Goto(w, "null")
    /\ UNCHANGED <<kind, shared, sup, prev, nw, at, named>>

WorkerNull(w) ==
    /\ pc[w] = "null"
    /\ handleCopy' = NULL
    /\ Goto(w, "inc")
    /\ UNCHANGED <<kind, i, processHandle, cached, result, sup, prev, nw, at, named, kernel>>

WorkerNext(w) ==
    /\ pc[w] = "inc"
    /\ i' = i + 1
    /\ Goto(w, "test")
    /\ UNCHANGED <<kind, processHandle, handleCopy, cached, result, sup, prev, nw, at,
                   named, kernel>>

Worker(w) ==
    \/ WorkerTest(w)       \/ WorkerReset(w)    \/ WorkerFind(w)
    \/ WorkerOpen(w)       \/ WorkerCache(w)    \/ WorkerDuplicate(w)
    \/ WorkerPublish(w)    \/ WorkerType(w)     \/ WorkerName(w)
    \/ WorkerPush(w)       \/ WorkerClose(w)    \/ WorkerNull(w)
    \/ WorkerNext(w)

-----------------------------------------------------------------------------
(* The supervisor: the rest of handles().                                  *)

\* NtQuerySystemInformationMemoryLoop; on an error {} is returned.
QueryTable(ok) ==
    /\ sup = "query"
    /\ sup' = IF ok THEN "loop" ELSE "failed"
    /\ UNCHANGED <<kind, shared, prev, nw, local, kernel>>

\* Mutant: the last handle is not worth another worker.
LoopTestShort ==
    /\ sup = "loop"
    /\ IF i + 1 < N THEN sup' = "spawn" /\ prev' = i
                    ELSE sup' = "cleanup" /\ UNCHANGED prev
    /\ UNCHANGED <<kind, shared, nw, local, kernel>>

\* while (i < handle_count) previous_i = i;
LoopTest ==
    /\ sup = "loop"
    /\ IF i < N THEN sup' = "spawn" /\ prev' = i
                ELSE sup' = "cleanup" /\ UNCHANGED prev
    /\ UNCHANGED <<kind, shared, nw, local, kernel>>

\* std::thread, then detach().
Spawn ==
    /\ sup = "spawn"
    /\ nw' = nw + 1
    /\ Goto(nw + 1, "test")
    /\ sup' = "sleep"
    /\ UNCHANGED <<kind, shared, prev, at, named, kernel>>

\* What the timeout is trusted to mean: 200 ms are enough for a worker that
\* is not stuck to finish an index, or to leave its loop.
SleepOver == Prompt => \/ i > prev
                       \/ \A w \in Workers : Stopped(w) \/ Stuck(w)

\* Sleep(200); if (i >= handle_count) break;
Wake ==
    /\ sup = "sleep"
    /\ SleepOver
    /\ sup' = IF i >= N THEN "loop" ELSE "compare"
    /\ UNCHANGED <<kind, shared, prev, nw, local, kernel>>

\* Mutant: one finished index is not progress enough.
CompareOffByOne ==
    /\ sup = "compare"
    /\ sup' = IF prev + 1 >= i THEN "kill" ELSE "remember"
    /\ UNCHANGED <<kind, shared, prev, nw, local, kernel>>

\* if (previous_i >= i)
Compare ==
    /\ sup = "compare"
    /\ sup' = IF prev >= i THEN "kill" ELSE "remember"
    /\ UNCHANGED <<kind, shared, prev, nw, local, kernel>>

\* previous_i = i;
Remember ==
    /\ sup = "remember"
    /\ prev' = i
    /\ sup' = "sleep"
    /\ UNCHANGED <<kind, shared, nw, local, kernel>>

\* TerminateThread(offload_function.native_handle(), 1).  detach() has emptied
\* the std::thread (Visual C++ assigns it a null handle), so the call fails and
\* the worker stays where it is.
Kill ==
    /\ sup = "kill"
    /\ sup' = "linger"
    /\ UNCHANGED <<kind, shared, prev, nw, local, kernel>>

\* Mutant: the lingering handle is not closed.
CloseLingeringMissing ==
    /\ sup = "linger"
    /\ sup' = "bump"
    /\ UNCHANGED <<kind, shared, prev, nw, local, kernel>>

\* if (handle_copy != NULL) CloseHandle(handle_copy);
CloseLingering ==
    /\ sup = "linger"
    /\ Close(handleCopy)
    /\ sup' = "bump"
    /\ UNCHANGED <<kind, shared, prev, nw, local>>

\* Mutant: the next worker starts with the handle that hung.
SkipHandleRetry ==
    /\ sup = "bump"
    /\ sup' = "loop"
    /\ UNCHANGED <<kind, shared, prev, nw, local, kernel>>

\* i++; break;
SkipHandle ==
    /\ sup = "bump"
    /\ i' = i + 1
    /\ sup' = "loop"
    /\ UNCHANGED <<kind, processHandle, handleCopy, cached, result, prev, nw, local, kernel>>

\* for (auto [pid, handle] : pid_to_handle) CloseHandle(handle); return result;
CleanUp ==
    /\ sup = "cleanup"
    /\ openProcs' = [p \in Pids |-> IF p \in cached THEN openProcs[p] - 1 ELSE openProcs[p]]
    /\ sup' = "returned"
    /\ UNCHANGED <<kind, shared, prev, nw, local, openCopies, badClose>>

Supervisor ==
    \/ \E ok \in BOOLEAN : QueryTable(ok)
    \/ LoopTest \/ Spawn \/ Wake \/ Compare \/ Remember
    \/ Kill \/ CloseLingering \/ SkipHandle \/ CleanUp

Returned == sup \in {"returned", "failed"}

\* The caller has its result; what is left of the workers may still run.
Idle == Returned /\ UNCHANGED vars

Next == Supervisor \/ Idle \/ \E w \in Workers : Worker(w)

Spec == Init /\ [][Next]_vars

\* The operating system schedules both threads.
Fairness == WF_vars(Supervisor) /\ \A w \in Workers : WF_vars(Worker(w))
FairSpec == Spec /\ Fairness

-----------------------------------------------------------------------------
TypeOK ==
    /\ kind \in [Handles -> Kinds]
    /\ i \in Nat
    /\ processHandle \in Pids \cup {NULL}
    /\ handleCopy \in Copies \cup {NULL}
    /\ cached \subseteq Pids
    /\ result \in Seq([handle : Handles, name : Copies \cup {NULL}])
    /\ sup \in SupPCs
    /\ prev \in Nat
    /\ nw \in 0 .. N
    /\ pc \in [Workers -> WorkerPCs]
    /\ at \in [Workers -> Handles]
    /\ named \in [Workers -> Copies \cup {NULL}]
    /\ openCopies \subseteq Copies
    /\ openProcs \in [Pids -> Int]
    /\ badClose \in BOOLEAN

-----------------------------------------------------------------------------
(* Safety. *)

\* No handle is reported twice, and the vector keeps the order of the system's
\* table, although several workers fill it one after the other.  (It is part of
\* ImplementsEnumeration, which the runs check.)
InTableOrder ==
    \A a, b \in DOMAIN result : a < b => result[a].handle < result[b].handle

\* The name in a HandleInfo was read through the duplicate of that very handle
\* (handle_copy is shared, and read again for each call), and is empty just for
\* the files without one; nothing but files gets into the vector.
NameIsOwn ==
    \A a \in DOMAIN result :
        LET h == result[a].handle IN
          /\ kind[h] \in Files
          /\ kind[h] = "file" => result[a].name # NULL /\ result[a].name[2] = h
          /\ kind[h] = "nameless" => result[a].name = NULL

\* "Let's kill it and resume": a new worker is started only when the previous
\* one cannot take another step, so two never run the block, which shares
\* everything, together.  It rests on Prompt alone.
OneRunner ==
    \A v, w \in Workers : v # w => \/ Stopped(v) \/ Stuck(v)
                                   \/ Stopped(w) \/ Stuck(w)

\* Every handle passed over that is a file has been reported: what
\* the supervisor skips is only ever a handle some query hangs on.
NothingMissed ==
    \A h \in Handles :
        (h < i /\ kind[h] \in Files) => \E a \in DOMAIN result : result[a].handle = h

\* Neither thread closes a handle the other one has closed already (the value
\* may by then name something else).
NoDoubleClose == ~badClose

\* When the caller gets its list every duplicate and every process handle has
\* been closed, those of the workers that hung included.
NothingLeaked ==
    sup = "returned" => /\ openCopies = {}
                        /\ \A p \in Pids : openProcs[p] = 0

(* What the caller sees of it. *)

Enumeration == INSTANCE HandleEnumeration
    WITH files <- {h \in Handles : kind[h] \in Files},
         reported <- [a \in DOMAIN result |-> result[a].handle],
         done <- Returned

\* With timely queries the two threads together are the enumeration of
\* HandleEnumeration: every file handle whose queries return, once, then the return.
ImplementsEnumeration == Enumeration!FairSpec
=============================================================================

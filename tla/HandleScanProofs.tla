-------------------------- MODULE HandleScanProofs --------------------------
(***************************************************************************)
(* Facts about handles() that hold for every table of handles.             *)
(***************************************************************************)
EXTENDS HandleScan, TLAPS

\* A worker is started only after the previous start's index has been passed,
\* so there are never more workers than handles.
SpawnBound ==
    /\ sup \in {"query", "loop"} => nw <= i
    /\ sup = "spawn" => nw <= prev /\ prev < N
    /\ sup \notin {"cleanup", "returned", "failed"} => nw <= i + 1
    /\ prev <= i

TypeInv == TypeOK /\ SpawnBound

\* The numbers of the entries and of the workers.
LEMMA HandleFacts ==
    /\ 0 \in Handles
    /\ \A n \in Nat : n < N => n \in Handles
    /\ \A n \in 0 .. N : n < N => n + 1 \in Workers /\ n + 1 \in 0 .. N
    /\ \A w \in Workers, h \in Handles : <<w, h>> \in Copies
  BY NAssumption DEF Handles, Workers, Copies

\* The types hold at first.
LEMMA InitTypeInv == Init => TypeInv
<1> SUFFICES ASSUME Init PROVE TypeInv
  OBVIOUS
<1> USE DEF Init
<1>1. /\ pc \in [Workers -> WorkerPCs]
      /\ at \in [Workers -> Handles]
      /\ named \in [Workers -> Copies \cup {NULL}]
  BY HandleFacts DEF WorkerPCs
<1>2. openProcs \in [Pids -> Int]
  OBVIOUS
<1>3. nw \in 0 .. N /\ SpawnBound
  BY NAssumption DEF SpawnBound
<1>4. result \in Seq([handle : Handles, name : Copies \cup {NULL}])
  OBVIOUS
<1> QED
  BY <1>1, <1>2, <1>3, <1>4 DEF TypeInv, TypeOK, SupPCs

\* No step of a worker leaves the types or starts a worker.
LEMMA WorkerTypeInv ==
    ASSUME TypeInv, NEW w \in Workers, Worker(w)
    PROVE  TypeInv'
<1> USE DEF TypeInv, TypeOK, SpawnBound, SupPCs, WorkerPCs, shared, kernel, Goto
<1>1. CASE WorkerTest(w)
  BY <1>1 DEF WorkerTest
<1>2. CASE WorkerReset(w)
  BY <1>2 DEF WorkerReset
<1>3. CASE WorkerFind(w)
  <2>1. CASE i >= N
    BY <1>3, <2>1, SMTT(30) DEF WorkerFind
  <2>2. CASE ~(i >= N)
    <3>1. i \in Handles /\ Owner[i] \in Pids
      BY <2>2, NAssumption, OwnerAssumption DEF Handles
    <3>2. /\ at' \in [Workers -> Handles]
          /\ pc' \in [Workers -> WorkerPCs]
          /\ processHandle' \in Pids \cup {NULL}
      BY <1>3, <2>2, <3>1 DEF WorkerFind
    <3> QED
      BY <1>3, <3>2 DEF WorkerFind
  <2> QED
    BY <2>1, <2>2
<1>4. CASE WorkerOpen(w)
  <2>1. Owner[at[w]] \in Pids
    BY OwnerAssumption
  <2>2. /\ openProcs' \in [Pids -> Int]
        /\ pc' \in [Workers -> WorkerPCs]
        /\ processHandle' \in Pids \cup {NULL}
    <3>1. CASE kind[at[w]] = "gone"
      BY <1>4, <3>1 DEF WorkerOpen
    <3>2. CASE kind[at[w]] # "gone"
      <4>1. openProcs[Owner[at[w]]] + 1 \in Int
        BY <2>1
      <4>2. openProcs' = [openProcs EXCEPT ![Owner[at[w]]] = @ + 1]
        BY <1>4, <3>2 DEF WorkerOpen
      <4>3. openProcs' \in [Pids -> Int]
        BY <4>1, <4>2
      <4> QED
        BY <1>4, <2>1, <3>2, <4>3 DEF WorkerOpen
    <3> QED
      BY <3>1, <3>2
  <2> QED
    BY <1>4, <2>2 DEF WorkerOpen
<1>6. CASE WorkerCache(w)
  BY <1>6, OwnerAssumption DEF WorkerCache
<1>7. CASE WorkerDuplicate(w)
  BY <1>7, HandleFacts DEF WorkerDuplicate
<1>8. CASE WorkerPublish(w)
  BY <1>8, HandleFacts DEF WorkerPublish
<1>9. CASE WorkerType(w)
  BY <1>9 DEF WorkerType
<1>10. CASE WorkerName(w)
  BY <1>10 DEF WorkerName
<1>12. CASE WorkerPush(w)
  BY <1>12 DEF WorkerPush
<1>13. CASE WorkerClose(w)
  BY <1>13 DEF WorkerClose, Close
<1>14. CASE WorkerNull(w)
  BY <1>14 DEF WorkerNull
<1>15. CASE WorkerNext(w)
  BY <1>15 DEF WorkerNext
<1> QED
  BY <1>1, <1>2, <1>3, <1>4, <1>6, <1>7, <1>8, <1>9, <1>10, <1>12, <1>13, <1>14, <1>15 DEF Worker

\* The supervisor keeps the types.
LEMMA SupervisorTypeInv ==
    ASSUME TypeInv, Supervisor
    PROVE  TypeInv'
<1> USE DEF TypeInv, TypeOK, SpawnBound, SupPCs, WorkerPCs, shared, kernel, local, Goto
<1>1. CASE \E ok \in BOOLEAN : QueryTable(ok)
  BY <1>1 DEF QueryTable
<1>2. CASE LoopTest
  BY <1>2 DEF LoopTest
<1>3. CASE Spawn
  BY <1>3, HandleFacts, NAssumption DEF Spawn
<1>4. CASE Wake
  BY <1>4, NAssumption DEF Wake
<1>5. CASE Compare
  BY <1>5 DEF Compare
<1>6. CASE Remember
  BY <1>6 DEF Remember
<1>7. CASE Kill
  BY <1>7 DEF Kill
<1>8. CASE CloseLingering
  BY <1>8 DEF CloseLingering, Close
<1>9. CASE SkipHandle
  BY <1>9 DEF SkipHandle
<1>10. CASE CleanUp
  BY <1>10 DEF CleanUp
<1> QED
  BY <1>1, <1>2, <1>3, <1>4, <1>5, <1>6, <1>7, <1>8, <1>9, <1>10 DEF Supervisor

\* Every step keeps the types.
LEMMA StepTypeInv == TypeInv /\ [Next]_vars => TypeInv'
<1> SUFFICES ASSUME TypeInv, [Next]_vars PROVE TypeInv'
  OBVIOUS
<1>1. CASE Supervisor
  BY <1>1, SupervisorTypeInv
<1>2. ASSUME NEW w \in Workers, Worker(w) PROVE TypeInv'
  BY <1>2, WorkerTypeInv
<1>3. CASE UNCHANGED vars
  BY <1>3 DEF vars, shared, kernel, local, TypeInv, TypeOK, SpawnBound
<1> QED
  BY <1>1, <1>2, <1>3 DEF Next, Idle

\* Every variable keeps its type; in particular i never runs so far ahead that
\* the supervisor starts more workers than there are handles.
THEOREM TypeCorrect == Spec => []TypeOK
<1>1. Init => TypeInv
  BY InitTypeInv
<1>2. TypeInv /\ [Next]_vars => TypeInv'
  BY StepTypeInv
<1>3. TypeInv => TypeOK
  BY DEF TypeInv
<1> QED
  BY <1>1, <1>2, <1>3, PTL DEF Spec

-----------------------------------------------------------------------------
(* One worker at a time, and what it may find in the shared variables.      *)

Quiet(w) == Stopped(w) \/ Stuck(w)

\* Where the supervisor relies on the workers standing still.  With timely
\* queries that is so from the moment it finds no progress.
Parked ==
    \/ sup \in {"query", "spawn", "linger", "bump"}
    \/ sup = "loop" /\ i < N
    \/ Prompt /\ (sup = "kill" \/ (sup = "compare" /\ prev >= i))

Examining == { "open", "cache", "dup", "publish", "type", "name",
               "push", "close", "null", "inc" }

RunnerInv ==
    /\ \A w \in Workers : w > nw => pc[w] = "none"
    /\ \A w \in Workers : w < nw => Quiet(w)
    /\ Parked => \A w \in Workers : Quiet(w)

\* The worker that runs examines entry i.
IndexInv ==
    \A w \in Workers : ~Quiet(w) =>
        /\ pc[w] \in {"reset", "find"} => i < N
        /\ pc[w] \in Examining => at[w] = i

\* Everything in the vector lies before the entry being examined, or is it.
OrderInv ==
    /\ InTableOrder
    /\ \A a \in DOMAIN result : result[a].handle <= i
    /\ sup \in {"query", "loop", "spawn"} =>
          \A a \in DOMAIN result : result[a].handle < i
    /\ \A w \in Workers :
          (~Quiet(w) /\ pc[w] \notin {"close", "null", "inc"}) =>
              \A a \in DOMAIN result : result[a].handle < i

\* The shared handle_copy and process_handle are those of the worker that runs.
CopyInv ==
    /\ NameIsOwn
    /\ \A w \in Workers : ~Quiet(w) =>
          /\ pc[w] \in {"cache", "dup"} => processHandle = Owner[at[w]]
          /\ pc[w] \in {"type", "name", "push", "close", "null"} =>
                handleCopy = <<w, at[w]>>
          /\ pc[w] = "name" => kind[at[w]] \in Files \cup {"hangname"}
          /\ pc[w] = "push" =>
                /\ kind[at[w]] \in Files
                /\ named[w] = IF kind[at[w]] = "nameless" THEN NULL ELSE <<w, at[w]>>

SafeInv == TypeInv /\ RunnerInv /\ IndexInv /\ OrderInv /\ CopyInv

(* With timely queries nothing is missed. *)

ReportedHandle(h) == \E a \in DOMAIN result : result[a].handle = h

\* While the supervisor watches, the last worker is in its loop, or has left it
\* at the end of the table.
WatchedInv ==
    sup \in {"sleep", "compare", "remember", "kill"} =>
        /\ nw \in Workers
        /\ pc[nw] \notin {"none", "wild"}
        /\ pc[nw] = "exited" => i >= N
        /\ pc[nw] \in Examining => at[nw] = i

MissedInv ==
    /\ NothingMissed
    /\ \A w \in Workers :
          (~Quiet(w) /\ pc[w] \in {"close", "null", "inc"} /\ kind[at[w]] \in Files) =>
              ReportedHandle(at[w])
    /\ (\/ sup \in {"kill", "linger", "bump"}
        \/ sup = "compare" /\ prev >= i) => (i >= N \/ kind[i] \notin Files)

CompleteInv == SafeInv /\ WatchedInv /\ MissedInv

-----------------------------------------------------------------------------
(* What a step of a worker leaves alone. *)

\* A step of worker w moves w only, and i by one at most.
Frame(w) ==
    /\ ~Quiet(w)
    /\ \A v \in Workers : v # w => /\ pc'[v] = pc[v]
                                   /\ at'[v] = at[v]
                                   /\ named'[v] = named[v]
    /\ UNCHANGED <<kind, sup, prev, nw>>
    /\ IF pc[w] = "inc" THEN i' = i + 1 ELSE i' = i
    /\ pc[w] # "push" => result' = result

\* What a worker leaves alone: the supervisor, and the other workers.
LEMMA WorkerFrame ==
    ASSUME TypeInv, NEW w \in Workers, Worker(w)
    PROVE  Frame(w)
<1> USE DEF TypeInv, TypeOK, shared, kernel, Goto, Frame, Quiet, Stopped
<1>1. CASE WorkerTest(w)
  BY <1>1 DEF WorkerTest, Stuck
<1>2. CASE WorkerReset(w)
  BY <1>2 DEF WorkerReset, Stuck
<1>3. CASE WorkerFind(w)
  <2>1. \A v \in Workers : v # w => pc'[v] = pc[v] /\ at'[v] = at[v]
    BY <1>3 DEF WorkerFind
  <2> QED
    BY <1>3, <2>1 DEF WorkerFind, Stuck
<1>4. CASE WorkerOpen(w)
  <2>1. \A v \in Workers : v # w => pc'[v] = pc[v]
    BY <1>4 DEF WorkerOpen
  <2> QED
    BY <1>4, <2>1 DEF WorkerOpen, Stuck
<1>6. CASE WorkerCache(w)
  BY <1>6 DEF WorkerCache, Stuck
<1>7. CASE WorkerDuplicate(w)
  BY <1>7 DEF WorkerDuplicate, Stuck
<1>8. CASE WorkerPublish(w)
  BY <1>8 DEF WorkerPublish, Stuck
<1>9. CASE WorkerType(w)
  BY <1>9 DEF WorkerType
<1>10. CASE WorkerName(w)
  BY <1>10 DEF WorkerName
<1>12. CASE WorkerPush(w)
  BY <1>12 DEF WorkerPush, Stuck
<1>13. CASE WorkerClose(w)
  BY <1>13 DEF WorkerClose, Close, Stuck
<1>14. CASE WorkerNull(w)
  BY <1>14 DEF WorkerNull, Stuck
<1>15. CASE WorkerNext(w)
  BY <1>15 DEF WorkerNext, Stuck
<1> QED
  BY <1>1, <1>2, <1>3, <1>4, <1>6, <1>7, <1>8, <1>9, <1>10, <1>12, <1>13, <1>14, <1>15 DEF Worker

\* The worker that moves is the last one started; the others stand still before
\* and after its step, and the supervisor does not count on it standing still.
LEMMA WorkerAlone ==
    ASSUME TypeInv, TypeInv', RunnerInv, NEW w \in Workers, Worker(w)
    PROVE  /\ w = nw
           /\ \A v \in Workers : v # w => Quiet(v) /\ Quiet(v)'
           /\ ~Parked /\ ~Parked'
<1>1. Frame(w)
  BY WorkerFrame
<1>2. i \in Nat /\ i' \in Nat /\ prev \in Nat /\ nw \in Int /\ N \in Nat /\ w \in Int
  BY NAssumption DEF TypeInv, TypeOK, Workers
<1>3. ~Parked
  BY <1>1 DEF RunnerInv, Frame
<1>4. \A v \in Workers : v \in Int
  BY DEF Workers
<1>5. pc[w] # "none"
  BY <1>1 DEF Frame, Quiet, Stopped
<1>6. w = nw
  BY <1>1, <1>2, <1>5 DEF RunnerInv, Frame
<1>7. ASSUME NEW v \in Workers, v # w PROVE Quiet(v) /\ Quiet(v)'
  <2>1. Quiet(v)
    <3>1. CASE v < nw
      BY <3>1 DEF RunnerInv
    <3>2. CASE v > nw
      BY <3>2 DEF RunnerInv, Quiet, Stopped
    <3> QED
      BY <1>2, <1>4, <1>6, <1>7, <3>1, <3>2
  <2>2. Quiet(v)'
    BY <1>1, <1>7, <2>1 DEF Frame, Quiet, Stopped, Stuck
  <2> QED
    BY <2>1, <2>2
<1>8. ~Parked'
  BY <1>1, <1>2, <1>3 DEF Frame, Parked
<1> QED
  BY <1>3, <1>6, <1>7, <1>8

\* A worker starts no other one, and the others stay quiet.
LEMMA WorkerRunnerInv ==
    ASSUME TypeInv, TypeInv', RunnerInv, NEW w \in Workers, Worker(w)
    PROVE  RunnerInv'
<1>1. Frame(w) /\ w = nw /\ ~Parked'
  BY WorkerFrame, WorkerAlone
<1>2. nw' = nw /\ nw \in Int
  BY <1>1 DEF Frame, TypeInv, TypeOK
<1>3. \A v \in Workers : v < nw' => Quiet(v)'
  BY <1>1, <1>2, WorkerAlone DEF Workers
<1>4. \A v \in Workers : v > nw' => pc'[v] = "none"
  BY <1>1, <1>2 DEF RunnerInv, Frame, Workers
<1> QED
  BY <1>1, <1>3, <1>4 DEF RunnerInv

\* Where a worker that takes a step gets to.
LEMMA WorkerIndex ==
    ASSUME TypeInv, TypeInv', IndexInv, NEW w \in Workers, Worker(w)
    PROVE  /\ pc'[w] \in {"reset", "find"} => i' < N
           /\ pc'[w] \in Examining => at'[w] = i'
           /\ pc'[w] \notin {"none", "wild"}
           /\ pc'[w] = "exited" => i' >= N
<1>0. /\ pc[w] \in {"reset", "find"} => i < N
      /\ pc[w] \in Examining => at[w] = i
      /\ i \in Nat /\ N \in Nat
  BY WorkerFrame, NAssumption DEF IndexInv, Frame, TypeInv, TypeOK
<1> USE <1>0 DEF TypeInv, TypeOK, Goto, shared, Examining
<1>1. CASE WorkerTest(w)
  BY <1>1 DEF WorkerTest
<1>2. CASE WorkerReset(w)
  BY <1>2 DEF WorkerReset
<1>3. CASE WorkerFind(w)
  <2>1. i < N /\ ~(i >= N)
    BY <1>3, NAssumption DEF WorkerFind
  <2>2. at'[w] = i /\ i' = i /\ pc'[w] \in {"dup", "open"}
    BY <1>3, <2>1 DEF WorkerFind
  <2> QED
    BY <2>2
<1>4. CASE WorkerOpen(w)
  BY <1>4 DEF WorkerOpen
<1>6. CASE WorkerCache(w)
  BY <1>6 DEF WorkerCache
<1>7. CASE WorkerDuplicate(w)
  BY <1>7 DEF WorkerDuplicate
<1>8. CASE WorkerPublish(w)
  BY <1>8 DEF WorkerPublish
<1>9. CASE WorkerType(w)
  BY <1>9 DEF WorkerType
<1>10. CASE WorkerName(w)
  BY <1>10 DEF WorkerName
<1>12. CASE WorkerPush(w)
  BY <1>12 DEF WorkerPush
<1>13. CASE WorkerClose(w)
  BY <1>13 DEF WorkerClose
<1>14. CASE WorkerNull(w)
  BY <1>14 DEF WorkerNull
<1>15. CASE WorkerNext(w)
  BY <1>15 DEF WorkerNext
<1> QED
  BY <1>1, <1>2, <1>3, <1>4, <1>6, <1>7, <1>8, <1>9, <1>10, <1>12, <1>13, <1>14, <1>15 DEF Worker

\* The only worker there is moves the shared index together with its own entry.
LEMMA WorkerIndexInv ==
    ASSUME TypeInv, TypeInv', RunnerInv, IndexInv, NEW w \in Workers, Worker(w)
    PROVE  IndexInv'
<1>1. \A v \in Workers : v # w => Quiet(v)'
  BY WorkerAlone
<1>2. /\ pc'[w] \in {"reset", "find"} => i' < N
      /\ pc'[w] \in Examining => at'[w] = i'
  BY WorkerIndex
<1> QED
  BY <1>1, <1>2 DEF IndexInv

Entry == [handle : Handles, name : Copies \cup {NULL}]

\* What push_back keeps and what it adds.
LEMMA AppendFacts ==
    ASSUME NEW S, NEW s \in Seq(S), NEW e \in S
    PROVE  /\ Len(s) \in Nat
           /\ DOMAIN s = 1 .. Len(s)
           /\ \A a \in DOMAIN s : s[a] \in S
           /\ DOMAIN Append(s, e) = 1 .. Len(s) + 1
           /\ \A a \in DOMAIN s : Append(s, e)[a] = s[a]
           /\ Append(s, e)[Len(s) + 1] = e
  OBVIOUS

\* What push_back does to the vector.
LEMMA PushFacts ==
    ASSUME TypeInv, NEW w \in Workers, WorkerPush(w)
    PROVE  /\ Len(result) \in Nat
           /\ DOMAIN result = 1 .. Len(result)
           /\ DOMAIN result' = 1 .. Len(result) + 1
           /\ \A a \in DOMAIN result : result'[a] = result[a] /\ result[a] \in Entry
           /\ result'[Len(result) + 1] = [handle |-> at[w], name |-> named[w]]
<1>1. result \in Seq(Entry)
  BY DEF TypeInv, TypeOK, Entry
<1>2. [handle |-> at[w], name |-> named[w]] \in Entry
  BY DEF TypeInv, TypeOK, Entry
<1>3. result' = Append(result, [handle |-> at[w], name |-> named[w]])
  BY DEF WorkerPush
<1> QED
  BY <1>1, <1>2, <1>3, AppendFacts

\* The handle of an entry of the result is a number.
LEMMA EntryTypes ==
    ASSUME TypeInv, NEW a \in DOMAIN result
    PROVE  result[a].handle \in Handles /\ result[a].handle \in Int
<1>1. result \in Seq(Entry)
  BY DEF TypeInv, TypeOK, Entry
<1>2. result[a] \in Entry
  BY <1>1
<1> QED
  BY <1>2 DEF Entry, Handles

\* A worker adds only the entry it is on, which is behind those of the result.
LEMMA WorkerOrderInv ==
    ASSUME TypeInv, TypeInv', RunnerInv, IndexInv, OrderInv, NEW w \in Workers, Worker(w)
    PROVE  OrderInv'
<1>0. /\ Frame(w) /\ ~Quiet(w)
      /\ pc[w] \in Examining => at[w] = i
      /\ i \in Int /\ N \in Int
  BY WorkerFrame, NAssumption DEF IndexInv, Frame, TypeInv, TypeOK
<1>1. CASE pc[w] = "push"
  <2>1. WorkerPush(w)
    BY <1>1 DEF Worker, WorkerTest, WorkerReset, WorkerFind, WorkerOpen, WorkerCache,
       WorkerDuplicate, WorkerPublish, WorkerType, WorkerName,
       WorkerClose, WorkerNull, WorkerNext
  <2>2. \A a \in DOMAIN result : result[a].handle < i
    BY <1>0, <1>1 DEF OrderInv
  <2>3. at[w] = i /\ i' = i /\ i < N
    BY <1>0, <1>1 DEF Examining, Frame, TypeInv, TypeOK, Handles
  <2>4. DEFINE l == Len(result) + 1
  <2>5. /\ result'[l].handle = i
        /\ \A a \in DOMAIN result' : a = l \/ (a \in DOMAIN result /\ a < l)
        /\ \A a \in DOMAIN result : result'[a] = result[a]
        /\ \A a \in DOMAIN result' : a \in Int /\ a <= l
    <3>1. /\ Len(result) \in Nat
          /\ DOMAIN result = 1 .. Len(result)
          /\ DOMAIN result' = 1 .. Len(result) + 1
          /\ \A a \in DOMAIN result : result'[a] = result[a]
          /\ result'[Len(result) + 1] = [handle |-> at[w], name |-> named[w]]
      BY <2>1, PushFacts
    <3> QED
      BY <2>3, <3>1
  <2>6. InTableOrder'
    <3> SUFFICES ASSUME NEW a \in DOMAIN result', NEW b \in DOMAIN result', a < b
                 PROVE  result'[a].handle < result'[b].handle
      BY DEF InTableOrder
    <3>1. a \in DOMAIN result
      BY <2>5
    <3>2. CASE b = l
      BY <2>2, <2>5, <3>1, <3>2
    <3>3. CASE b \in DOMAIN result
      BY <2>5, <3>1, <3>3 DEF OrderInv, InTableOrder
    <3> QED
      BY <2>5, <3>2, <3>3
  <2>7. \A a \in DOMAIN result' : result'[a].handle <= i'
    <3> SUFFICES ASSUME NEW a \in DOMAIN result' PROVE result'[a].handle <= i
      BY <2>3
    <3>1. CASE a = l
      BY <1>0, <2>5, <3>1
    <3>2. CASE a \in DOMAIN result
      BY <1>0, <2>2, <2>5, <3>2, EntryTypes
    <3> QED
      BY <2>5, <3>1, <3>2
  <2>8. sup' \notin {"query", "loop", "spawn"}
    BY <1>0, <2>3, WorkerAlone DEF Parked, Frame
  <2>9. \A v \in Workers : ~Quiet(v)' => pc'[v] \in {"close", "null", "inc"}
    <3>1. pc'[w] = "close"
      BY <2>1 DEF WorkerPush, Goto, TypeInv, TypeOK
    <3> QED
      BY <3>1, WorkerAlone
  <2> HIDE DEF l
  <2> QED
    BY <2>6, <2>7, <2>8, <2>9 DEF OrderInv
<1>2. CASE pc[w] # "push"
  <2>1. result' = result /\ (i' = i \/ (pc[w] = "inc" /\ i' = i + 1)) /\ sup' = sup
    BY <1>0, <1>2 DEF Frame
  <2>2. InTableOrder' /\ \A a \in DOMAIN result' : result'[a].handle <= i'
    BY <1>0, <2>1, EntryTypes DEF OrderInv, InTableOrder
  <2>3. sup' \in {"query", "loop", "spawn"} =>
          \A a \in DOMAIN result' : result'[a].handle < i'
    BY <1>0, <2>1, EntryTypes DEF OrderInv
  <2>4. ASSUME ~Quiet(w)', pc'[w] \notin {"close", "null", "inc"}
        PROVE  \A a \in DOMAIN result' : result'[a].handle < i'
    <3>1. CASE pc[w] \in {"close", "null"}
      BY <2>4, <3>1 DEF Worker, WorkerTest, WorkerReset, WorkerFind, WorkerOpen,
         WorkerCache, WorkerDuplicate, WorkerPublish, WorkerType,
         WorkerName, WorkerPush, WorkerClose, WorkerNull, WorkerNext,
         Goto, TypeInv, TypeOK
    <3>2. CASE pc[w] = "inc"
      BY <1>0, <2>1, <3>2, EntryTypes DEF OrderInv, Frame
    <3>3. CASE pc[w] \notin {"close", "null", "inc"}
      BY <1>0, <2>1, <3>3 DEF OrderInv
    <3> QED
      BY <3>1, <3>2, <3>3
  <2>5. \A v \in Workers : (~Quiet(v)' /\ pc'[v] \notin {"close", "null", "inc"}) =>
              \A a \in DOMAIN result' : result'[a].handle < i'
    BY <2>4, WorkerAlone
  <2> QED
    BY <2>2, <2>3, <2>5 DEF OrderInv
<1> QED
  BY <1>1, <1>2

\* A worker publishes its own copy of a handle, and uses no other.
LEMMA WorkerCopyInv ==
    ASSUME TypeInv, TypeInv', RunnerInv, CopyInv, NEW w \in Workers, Worker(w)
    PROVE  CopyInv'
<1> DEFINE Own(v) ==
      /\ pc[v] \in {"cache", "dup"} => processHandle = Owner[at[v]]
      /\ pc[v] \in {"type", "name", "push", "close", "null"} =>
            handleCopy = <<v, at[v]>>
      /\ pc[v] = "name" => kind[at[v]] \in Files \cup {"hangname"}
      /\ pc[v] = "push" =>
            /\ kind[at[v]] \in Files
            /\ named[v] = IF kind[at[v]] = "nameless" THEN NULL ELSE <<v, at[v]>>
<1>0. Frame(w) /\ Own(w)
  BY WorkerFrame DEF CopyInv, Frame
<1>a. ASSUME pc[w] # "push" PROVE NameIsOwn'
  BY <1>0, <1>a DEF CopyInv, NameIsOwn, Frame
<1>b. SUFFICES NameIsOwn' /\ Own(w)'
  BY WorkerAlone DEF CopyInv
<1> USE <1>0 DEF TypeInv, TypeOK, Goto, shared
<1>1. CASE WorkerTest(w)
  BY <1>1, <1>a DEF WorkerTest
<1>2. CASE WorkerReset(w)
  BY <1>2, <1>a DEF WorkerReset
<1>3. CASE WorkerFind(w)
  <2>1. pc'[w] \in {"wild", "open"} \/ (pc'[w] = "dup" /\ processHandle' = Owner[at'[w]])
    <3>1. CASE i >= N
      BY <1>3, <3>1 DEF WorkerFind
    <3>2. CASE ~(i >= N)
      <4>1. at'[w] = i
        BY <1>3, <3>2 DEF WorkerFind
      <4> QED
        BY <1>3, <3>2, <4>1 DEF WorkerFind
    <3> QED
      BY <3>1, <3>2
  <2> QED
    BY <1>3, <2>1, <1>a DEF WorkerFind
<1>4. CASE WorkerOpen(w)
  <2>1. pc'[w] = "inc" \/ (pc'[w] = "cache" /\ processHandle' = Owner[at'[w]])
    BY <1>4 DEF WorkerOpen
  <2> QED
    BY <1>4, <2>1, <1>a DEF WorkerOpen
<1>6. CASE WorkerCache(w)
  BY <1>6, <1>a DEF WorkerCache
<1>7. CASE WorkerDuplicate(w)
  BY <1>7, <1>a DEF WorkerDuplicate
<1>8. CASE WorkerPublish(w)
  BY <1>8, <1>a DEF WorkerPublish
<1>9. CASE WorkerType(w)
  BY <1>9, <1>a DEF WorkerType
<1>10. CASE WorkerName(w)
  BY <1>10, <1>a DEF WorkerName, Stuck
<1>12. CASE WorkerPush(w)
  <2>1. /\ kind[at[w]] \in Files /\ handleCopy = <<w, at[w]>>
        /\ named[w] = IF kind[at[w]] = "nameless" THEN NULL ELSE <<w, at[w]>>
    BY <1>12 DEF WorkerPush
  <2>2. /\ kind[at[w]] = "file" => named[w] # NULL /\ named[w][2] = at[w]
        /\ kind[at[w]] = "nameless" => named[w] = NULL
    BY <2>1, HandleFacts, NullAssumption
  <2>3. /\ DOMAIN result = 1 .. Len(result) /\ Len(result) \in Nat
        /\ DOMAIN result' = 1 .. Len(result) + 1
        /\ \A a \in DOMAIN result : result'[a] = result[a]
        /\ result'[Len(result) + 1] = [handle |-> at[w], name |-> named[w]]
    BY <1>12, PushFacts
  <2>4. kind' = kind /\ at' = at /\ named' = named /\ handleCopy' = handleCopy /\ pc'[w] = "close"
    BY <1>12 DEF WorkerPush
  <2> DEFINE Fine(e) == /\ kind[e.handle] \in Files
                        /\ kind[e.handle] = "file" => e.name # NULL /\ e.name[2] = e.handle
                        /\ kind[e.handle] = "nameless" => e.name = NULL
  <2>5. ASSUME NEW a \in DOMAIN result'
        PROVE  Fine(result'[a])
    <3>1. CASE a = Len(result) + 1
      BY <2>1, <2>2, <2>3, <3>1
    <3>2. CASE a \in DOMAIN result
      <4>1. Fine(result[a])
        BY <3>2 DEF CopyInv, NameIsOwn
      <4> QED
        BY <2>3, <3>2, <4>1
    <3> QED
      BY <2>3, <2>5, <3>1, <3>2
  <2>6. NameIsOwn'
    BY <2>4, <2>5 DEF NameIsOwn
  <2> QED
    BY <2>1, <2>4, <2>6
<1>13. CASE WorkerClose(w)
  BY <1>13, <1>a DEF WorkerClose
<1>14. CASE WorkerNull(w)
  BY <1>14, <1>a DEF WorkerNull
<1>15. CASE WorkerNext(w)
  BY <1>15, <1>a DEF WorkerNext
<1> QED
  BY <1>1, <1>2, <1>3, <1>4, <1>6, <1>7, <1>8, <1>9, <1>10, <1>12, <1>13, <1>14, <1>15 DEF Worker

-----------------------------------------------------------------------------
(* The supervisor's steps.  Spawn, Kill and SkipHandle are the ones to see. *)

\* The steps of the supervisor that move neither a worker nor i.
LEMMA SupervisorFrame ==
    ASSUME TypeInv, Supervisor, ~Spawn, ~Kill, ~SkipHandle
    PROVE  UNCHANGED <<kind, i, processHandle, handleCopy, result, nw, pc, at, named>>
<1> USE DEF shared, local, kernel
<1>1. CASE \E ok \in BOOLEAN : QueryTable(ok)
  BY <1>1 DEF QueryTable
<1>2. CASE LoopTest
  BY <1>2 DEF LoopTest
<1>3. CASE Wake
  BY <1>3 DEF Wake
<1>4. CASE Compare
  BY <1>4 DEF Compare
<1>5. CASE Remember
  BY <1>5 DEF Remember
<1>6. CASE CloseLingering
  BY <1>6 DEF CloseLingering
<1>7. CASE CleanUp
  BY <1>7 DEF CleanUp
<1> QED
  BY <1>1, <1>2, <1>3, <1>4, <1>5, <1>6, <1>7 DEF Supervisor

\* The request to terminate the last worker moves none.
LEMMA KillFacts ==
    ASSUME TypeInv, Kill
    PROVE  /\ UNCHANGED <<kind, i, processHandle, handleCopy, result, nw, pc, at, named>>
           /\ sup = "kill" /\ sup' = "linger"
  BY DEF Kill, shared, local

\* The worker that is started is the only one whose place changes.
LEMMA SpawnFacts ==
    ASSUME TypeInv, Spawn
    PROVE  /\ nw + 1 \in Workers
           /\ nw' = nw + 1
           /\ pc'[nw + 1] = "test"
           /\ \A w \in Workers : w # nw + 1 => pc'[w] = pc[w]
           /\ UNCHANGED <<kind, i, processHandle, handleCopy, result, at, named, prev>>
           /\ sup = "spawn" /\ sup' = "sleep"
<1>1. nw + 1 \in Workers
  BY HandleFacts, NAssumption DEF Spawn, TypeInv, TypeOK, SpawnBound
<1> QED
  BY <1>1 DEF Spawn, Goto, TypeInv, TypeOK, shared

\* What the supervisor changes when it skips an entry.
LEMMA SkipFacts ==
    ASSUME TypeInv, SkipHandle
    PROVE  /\ i' = i + 1
           /\ UNCHANGED <<kind, processHandle, handleCopy, result, nw, pc, at, named>>
           /\ sup = "bump" /\ sup' = "loop"
  BY DEF SkipHandle, local

\* A new worker is started only when the one before it has ended.
LEMMA SupervisorRunnerInv ==
    ASSUME Prompt, TypeInv, TypeInv', RunnerInv, IndexInv, Supervisor
    PROVE  RunnerInv'
<1>0. i \in Nat /\ prev \in Nat /\ nw \in Nat /\ N \in Nat /\ i' \in Nat /\ nw' \in Nat /\ prev' \in Nat
      /\ \A w \in Workers : w \in Nat
  BY NAssumption DEF TypeInv, TypeOK, Workers
<1>1. CASE Spawn
  <2>1. \A w \in Workers : Quiet(w)
    BY <1>1 DEF Spawn, RunnerInv, Parked
  <2>2. \A w \in Workers : w # nw + 1 => pc'[w] = pc[w] /\ Quiet(w)'
    BY <1>1, <2>1, SpawnFacts DEF Quiet, Stopped, Stuck
  <2>3. ~Parked'
    BY <1>1, SpawnFacts DEF Parked
  <2> QED
    BY <1>0, <1>1, <2>2, <2>3, SpawnFacts DEF RunnerInv
<1>2. CASE Kill
  <2>1. \A w \in Workers : Quiet(w) => Quiet(w)'
    BY <1>2, KillFacts DEF Quiet, Stopped, Stuck
  <2>2. \A w \in Workers : w < nw => Quiet(w)'
    BY <2>1 DEF RunnerInv
  <2>3. \A w \in Workers : w > nw => pc'[w] = "none" /\ Quiet(w)'
    BY <1>0, <1>2, <2>1, KillFacts DEF RunnerInv, Quiet, Stopped
  <2>4. \A w \in Workers : w = nw => Quiet(w)'
    BY <1>2, <2>1, KillFacts DEF RunnerInv, Parked, Quiet
  <2>5. \A w \in Workers : Quiet(w)'
    BY <1>0, <2>2, <2>3, <2>4
  <2> QED
    BY <1>2, <2>3, <2>5, KillFacts DEF RunnerInv
<1>3. CASE SkipHandle
  <2>1. \A w \in Workers : Quiet(w)'
    BY <1>3, SkipFacts DEF RunnerInv, Parked, Quiet, Stopped, Stuck
  <2> QED
    BY <1>3, <2>1, SkipFacts DEF RunnerInv
<1>4. CASE ~Spawn /\ ~Kill /\ ~SkipHandle
  <2>1. UNCHANGED <<kind, i, nw, pc, at>>
    BY <1>4, SupervisorFrame
  <2>2. \A w \in Workers : Quiet(w)' <=> Quiet(w)
    BY <2>1 DEF Quiet, Stopped, Stuck
  <2>3. Parked' => \A w \in Workers : Quiet(w)
    <3>1. CASE \E ok \in BOOLEAN : QueryTable(ok)
      BY <3>1 DEF QueryTable, RunnerInv, Parked
    <3>2. CASE LoopTest
      BY <2>1, <3>2 DEF LoopTest, RunnerInv, Parked
    <3>3. CASE Wake
      BY <1>0, <2>1, <3>3 DEF Wake, SleepOver, Parked, Quiet
    <3>4. CASE Compare
      BY <2>1, <3>4 DEF Compare, RunnerInv, Parked
    <3>5. CASE Remember
      BY <3>5 DEF Remember, Parked
    <3>6. CASE CloseLingering
      BY <3>6 DEF CloseLingering, RunnerInv, Parked
    <3>7. CASE CleanUp
      BY <3>7 DEF CleanUp, Parked
    <3> QED
      BY <1>4, <3>1, <3>2, <3>3, <3>4, <3>5, <3>6, <3>7 DEF Supervisor
  <2> QED
    BY <2>1, <2>2, <2>3 DEF RunnerInv
<1> QED
  BY <1>1, <1>2, <1>3, <1>4

\* The supervisor moves the index only when no worker uses it.
LEMMA SupervisorSafe ==
    ASSUME Prompt, SafeInv, TypeInv', RunnerInv', Supervisor
    PROVE  IndexInv' /\ OrderInv' /\ CopyInv'
<1> USE DEF SafeInv
<1>0. i \in Nat /\ N \in Nat
  BY NAssumption DEF TypeInv, TypeOK
<1>1. CASE Spawn
  <2>1. \A w \in Workers : w # nw + 1 => Quiet(w)'
    BY <1>1, SpawnFacts DEF Spawn, RunnerInv, Parked, Quiet, Stopped, Stuck
  <2>2. IndexInv'
    BY <1>1, <2>1, SpawnFacts DEF IndexInv, Examining
  <2>3. OrderInv'
    BY <1>1, <2>1, SpawnFacts DEF OrderInv, InTableOrder
  <2>4. CopyInv'
    BY <1>1, <2>1, SpawnFacts DEF CopyInv, NameIsOwn
  <2> QED
    BY <2>2, <2>3, <2>4
<1>2. CASE Kill
  <2>1. \A w \in Workers : ~Quiet(w)' => ~Quiet(w) /\ pc'[w] = pc[w]
    BY <1>2, KillFacts DEF Quiet, Stopped, Stuck
  <2> QED
    BY <1>2, <2>1, KillFacts DEF IndexInv, OrderInv, CopyInv, InTableOrder, NameIsOwn
<1>3. CASE SkipHandle
  <2>1. \A w \in Workers : Quiet(w)'
    BY <1>3, SkipFacts DEF RunnerInv, Parked, Quiet, Stopped, Stuck
  <2>2. \A a \in DOMAIN result : result[a].handle < i + 1
    BY <1>0, EntryTypes DEF OrderInv
  <2>3. OrderInv'
    BY <1>0, <1>3, <2>1, <2>2, EntryTypes, SkipFacts DEF OrderInv, InTableOrder
  <2> QED
    BY <1>3, <2>1, <2>3, SkipFacts DEF IndexInv, CopyInv, NameIsOwn
<1>4. CASE ~Spawn /\ ~Kill /\ ~SkipHandle
  <2>1. UNCHANGED <<kind, i, processHandle, handleCopy, result, nw, pc, at, named>>
    BY <1>4, SupervisorFrame
  <2>2. \A w \in Workers : Quiet(w)' <=> Quiet(w)
    BY <2>1 DEF Quiet, Stopped, Stuck
  <2>3. IndexInv' /\ CopyInv'
    BY <2>1, <2>2 DEF IndexInv, CopyInv, NameIsOwn
  <2>4. sup' \in {"query", "loop", "spawn"} => \A a \in DOMAIN result : result[a].handle < i
    <3>1. CASE sup \in {"query", "loop", "spawn"}
      BY <3>1 DEF OrderInv
    <3>2. CASE Wake
      BY <1>0, <3>2, EntryTypes DEF Wake, Handles
    <3> QED
      BY <1>4, <3>1, <3>2 DEF Supervisor, QueryTable, LoopTest, Compare, Remember,
         CloseLingering, CleanUp
  <2>5. OrderInv'
    BY <2>1, <2>2, <2>4 DEF OrderInv, InTableOrder
  <2> QED
    BY <2>3, <2>5
<1> QED
  BY <1>1, <1>2, <1>3, <1>4

\* The strengthened invariant holds at first.
LEMMA InitSafeInv == Init => SafeInv
<1> SUFFICES ASSUME Init PROVE SafeInv
  OBVIOUS
<1>1. TypeInv /\ DOMAIN result = {}
  BY InitTypeInv DEF Init
<1>2. \A w \in Workers : Quiet(w) /\ pc[w] = "none"
  BY DEF Init, Quiet, Stopped
<1> QED
  BY <1>1, <1>2 DEF SafeInv, RunnerInv, IndexInv, OrderInv, CopyInv, InTableOrder, NameIsOwn

\* Every step keeps the strengthened invariant.
LEMMA StepSafeInv == Prompt /\ SafeInv /\ [Next]_vars => SafeInv'
<1> SUFFICES ASSUME Prompt, SafeInv, [Next]_vars PROVE SafeInv'
  OBVIOUS
<1>1. TypeInv'
  BY StepTypeInv DEF SafeInv
<1>2. CASE Supervisor
  BY <1>1, <1>2, SupervisorRunnerInv, SupervisorSafe DEF SafeInv
<1>3. ASSUME NEW w \in Workers, Worker(w) PROVE SafeInv'
  BY <1>1, <1>3, WorkerRunnerInv, WorkerIndexInv, WorkerOrderInv, WorkerCopyInv DEF SafeInv
<1>4. CASE UNCHANGED vars
  BY <1>1, <1>4 DEF vars, shared, kernel, local, SafeInv, RunnerInv, IndexInv, OrderInv, CopyInv,
     InTableOrder, NameIsOwn, Parked, Quiet, Stopped, Stuck
<1> QED
  BY <1>2, <1>3, <1>4 DEF Next, Idle

\* The strengthened invariant holds in every behaviour that is tamed.
LEMMA AlwaysSafeInv == Prompt => (Spec => []SafeInv)
<1> SUFFICES ASSUME Prompt PROVE Spec => []SafeInv
  OBVIOUS
<1>1. Init => SafeInv
  BY InitSafeInv
<1>2. SafeInv /\ [Next]_vars => SafeInv'
  BY StepSafeInv
<1> QED
  BY <1>1, <1>2, PTL DEF Spec

\* Of two workers one stands still for good: the block, which shares every
\* variable of handles(), is never run by two threads at a time.
THEOREM OneRunnerAlways == Prompt => (Spec => []OneRunner)
<1>1. SafeInv => OneRunner
  BY DEF SafeInv, TypeInv, TypeOK, RunnerInv, OneRunner, Quiet, Stopped, Workers
<1> QED
  BY <1>1, AlwaysSafeInv, PTL

\* Every entry of the list is a file with the name of that very handle.
THEOREM NameIsOwnAlways == Prompt => (Spec => []NameIsOwn)
<1>1. SafeInv => NameIsOwn
  BY DEF SafeInv, CopyInv
<1> QED
  BY <1>1, AlwaysSafeInv, PTL

-----------------------------------------------------------------------------
(* With timely queries no file is missed. *)

\* A worker that is watched stays in its loop or leaves it behind the table.
LEMMA WorkerWatchedInv ==
    ASSUME TypeInv, TypeInv', RunnerInv, IndexInv, WatchedInv, NEW w \in Workers, Worker(w)
    PROVE  WatchedInv'
<1>1. w = nw /\ sup' = sup /\ nw' = nw
  BY WorkerAlone, WorkerFrame DEF Frame
<1> QED
  BY <1>1, WorkerIndex DEF WatchedInv

\* The supervisor watches the worker it has started last.
LEMMA SupervisorWatchedInv ==
    ASSUME TypeInv, TypeInv', WatchedInv, Supervisor
    PROVE  WatchedInv'
<1>1. CASE Spawn
  BY <1>1, SpawnFacts DEF WatchedInv, Examining
<1>2. CASE Kill
  BY <1>2, KillFacts DEF WatchedInv
<1>3. CASE SkipHandle
  BY <1>3, SkipFacts DEF WatchedInv
<1>4. CASE ~Spawn /\ ~Kill /\ ~SkipHandle
  <2>1. UNCHANGED <<i, nw, pc, at>>
    BY <1>4, SupervisorFrame
  <2>2. sup' \in {"sleep", "compare", "remember", "kill"} =>
            sup \in {"sleep", "compare", "remember", "kill"}
    BY <1>4 DEF Supervisor, QueryTable, LoopTest, Wake, Compare, Remember, CloseLingering, CleanUp
  <2> QED
    BY <2>1, <2>2 DEF WatchedInv
<1> QED
  BY <1>1, <1>2, <1>3, <1>4

\* What is in the vector stays there.
LEMMA ReportedStays ==
    ASSUME TypeInv, NEW w \in Workers, Worker(w), NEW h, ReportedHandle(h)
    PROVE  \E a \in DOMAIN result' : result'[a].handle = h
<1>1. CASE pc[w] = "push"
  <2>1. WorkerPush(w)
    BY <1>1 DEF Worker, WorkerTest, WorkerReset, WorkerFind, WorkerOpen, WorkerCache,
       WorkerDuplicate, WorkerPublish, WorkerType, WorkerName,
       WorkerClose, WorkerNull, WorkerNext
  <2>2. /\ Len(result) \in Nat
        /\ DOMAIN result = 1 .. Len(result)
        /\ DOMAIN result' = 1 .. Len(result) + 1
        /\ \A a \in DOMAIN result : result'[a] = result[a]
    BY <2>1, PushFacts
  <2> QED
    BY <2>2 DEF ReportedHandle
<1>2. CASE pc[w] # "push"
  BY <1>2, WorkerFrame DEF Frame, ReportedHandle
<1> QED
  BY <1>1, <1>2

\* A worker gets behind the push with a file only by pushing it.
LEMMA WorkerReports ==
    ASSUME SafeInv, MissedInv, NEW w \in Workers, Worker(w),
           pc'[w] \in {"close", "null", "inc"}, kind'[at'[w]] \in Files
    PROVE  \E a \in DOMAIN result' : result'[a].handle = at'[w]
<1> USE DEF SafeInv, TypeInv, TypeOK, Goto
<1>0. Frame(w)
  BY WorkerFrame
<1>1. CASE WorkerTest(w) \/ WorkerReset(w) \/ WorkerFind(w)
           \/ WorkerCache(w) \/ WorkerPublish(w) \/ WorkerName(w)
           \/ WorkerNext(w)
  BY <1>1 DEF WorkerTest, WorkerReset, WorkerFind, WorkerCache,
     WorkerPublish, WorkerName, WorkerNext
<1>2. CASE WorkerOpen(w)
  BY <1>2 DEF WorkerOpen, Files
<1>3. CASE WorkerDuplicate(w)
  <2>1. processHandle = Owner[at[w]]
    BY <1>0, <1>3 DEF CopyInv, WorkerDuplicate, Frame
  <2> QED
    BY <1>3, <2>1 DEF WorkerDuplicate, Files
<1>4. CASE WorkerType(w)
  BY <1>4 DEF WorkerType
<1>5. CASE WorkerPush(w)
  <2>1. at'[w] = at[w]
    BY <1>5 DEF WorkerPush
  <2>2. /\ Len(result) \in Nat
        /\ DOMAIN result' = 1 .. Len(result) + 1
        /\ result'[Len(result) + 1] = [handle |-> at[w], name |-> named[w]]
    BY <1>5, PushFacts
  <2>3. Len(result) + 1 \in DOMAIN result' /\ result'[Len(result) + 1].handle = at'[w]
    BY <2>1, <2>2
  <2> QED
    BY <2>3
<1>6. CASE WorkerClose(w) \/ WorkerNull(w)
  <2>1. pc[w] \in {"close", "null"} /\ at'[w] = at[w] /\ kind' = kind
    BY <1>6 DEF WorkerClose, WorkerNull
  <2>2. ReportedHandle(at[w])
    BY <1>0, <2>1 DEF MissedInv, Frame
  <2> QED
    BY <2>1, <2>2, ReportedStays
<1> QED
  BY <1>1, <1>2, <1>3, <1>4, <1>5, <1>6 DEF Worker

\* A worker passes no file that it has not reported.
LEMMA WorkerMissedInv ==
    ASSUME Prompt, SafeInv, TypeInv', MissedInv, NEW w \in Workers, Worker(w)
    PROVE  MissedInv'
<1> USE DEF SafeInv
<1>0. Frame(w) /\ i \in Nat /\ prev \in Nat /\ N \in Nat
  BY WorkerFrame, NAssumption DEF TypeInv, TypeOK
<1>1. NothingMissed'
  <2> SUFFICES ASSUME NEW h \in Handles, h < i', kind'[h] \in Files
               PROVE  \E a \in DOMAIN result' : result'[a].handle = h
    BY DEF NothingMissed
  <2>1. kind[h] \in Files
    BY <1>0 DEF Frame
  <2>2. h < i \/ (h = i /\ pc[w] = "inc")
    BY <1>0 DEF Frame, Handles
  <2>3. ReportedHandle(h)
    <3>1. CASE h < i
      BY <2>1, <3>1 DEF MissedInv, NothingMissed, ReportedHandle
    <3>2. CASE h = i /\ pc[w] = "inc"
      BY <1>0, <2>1, <3>2 DEF MissedInv, IndexInv, Examining, Frame
    <3> QED
      BY <2>2, <3>1, <3>2
  <2> QED
    BY <2>3, ReportedStays
<1>2. \A v \in Workers :
          (~Quiet(v)' /\ pc'[v] \in {"close", "null", "inc"} /\ kind'[at'[v]] \in Files) =>
              \E a \in DOMAIN result' : result'[a].handle = at'[v]
  BY WorkerAlone, WorkerReports
<1>3. ~(sup' \in {"kill", "linger", "bump"} \/ (sup' = "compare" /\ prev' >= i'))
  BY WorkerAlone DEF Parked
<1> QED
  BY <1>1, <1>2, <1>3 DEF MissedInv, ReportedHandle

\* With timely queries the supervisor skips an entry only if its name cannot be had.
LEMMA SupervisorMissedInv ==
    ASSUME Prompt, SafeInv, TypeInv', WatchedInv, MissedInv, Supervisor
    PROVE  MissedInv'
<1> USE DEF SafeInv
<1>0. i \in Nat /\ prev \in Nat /\ N \in Nat
  BY NAssumption DEF TypeInv, TypeOK
<1>1. CASE Spawn
  <2>1. \A w \in Workers : w # nw + 1 => Quiet(w)'
    BY <1>1, SpawnFacts DEF Spawn, RunnerInv, Parked, Quiet, Stopped, Stuck
  <2> QED
    BY <1>1, <2>1, SpawnFacts DEF MissedInv, NothingMissed
<1>2. CASE Kill
  <2>1. \A w \in Workers : ~Quiet(w)' => ~Quiet(w) /\ pc'[w] = pc[w]
    BY <1>2, KillFacts DEF Quiet, Stopped, Stuck
  <2> QED
    BY <1>2, <2>1, KillFacts DEF MissedInv, NothingMissed, ReportedHandle
<1>3. CASE SkipHandle
  <2>1. \A w \in Workers : Quiet(w)'
    BY <1>3, SkipFacts DEF RunnerInv, Parked, Quiet, Stopped, Stuck
  <2>2. \A h \in Handles : h < i + 1 => h < i \/ h = i
    BY <1>0 DEF Handles
  <2>3. i >= N \/ kind[i] \notin Files
    BY <1>3, SkipFacts DEF MissedInv
  <2>4. NothingMissed'
    BY <1>0, <1>3, <2>2, <2>3, SkipFacts DEF MissedInv, NothingMissed, Handles
  <2> QED
    BY <1>3, <2>1, <2>4, SkipFacts DEF MissedInv
<1>4. CASE ~Spawn /\ ~Kill /\ ~SkipHandle
  <2>1. UNCHANGED <<kind, i, result, nw, pc, at>>
    BY <1>4, SupervisorFrame
  <2>2. \A w \in Workers : Quiet(w)' <=> Quiet(w)
    BY <2>1 DEF Quiet, Stopped, Stuck
  <2>3. ASSUME sup' \in {"kill", "linger", "bump"} \/ (sup' = "compare" /\ prev' >= i')
        PROVE  i >= N \/ kind[i] \notin Files
    <3>1. CASE Wake
      <4>1. prev >= i
        BY <2>1, <2>3, <3>1 DEF Wake
      <4>2. nw \in Workers /\ (Stopped(nw) \/ Stuck(nw))
        BY <1>0, <3>1, <4>1 DEF Wake, SleepOver, WatchedInv
      <4> QED
        BY <3>1, <4>2 DEF Wake, WatchedInv, Stopped, Stuck, Examining, Files
    <3>2. CASE Compare
      BY <2>1, <2>3, <3>2 DEF Compare, MissedInv
    <3>3. CASE CloseLingering
      BY <3>3 DEF CloseLingering, MissedInv
    <3>4. CASE (\E ok \in BOOLEAN : QueryTable(ok)) \/ LoopTest \/ Remember \/ CleanUp
      BY <2>3, <3>4 DEF QueryTable, LoopTest, Remember, CleanUp
    <3> QED
      BY <1>4, <3>1, <3>2, <3>3, <3>4 DEF Supervisor
  <2> QED
    BY <2>1, <2>2, <2>3 DEF MissedInv, NothingMissed, ReportedHandle
<1> QED
  BY <1>1, <1>2, <1>3, <1>4

\* With timely queries no file has been missed, at any time.
LEMMA AlwaysCompleteInv == Prompt => (Spec => []CompleteInv)
<1> SUFFICES ASSUME Prompt PROVE Spec => []CompleteInv
  OBVIOUS
<1>1. Init => CompleteInv
  <2> SUFFICES ASSUME Init PROVE CompleteInv
    OBVIOUS
  <2>1. SafeInv /\ sup = "query" /\ i = 0 /\ \A w \in Workers : Quiet(w)
    BY InitSafeInv DEF Init, Quiet, Stopped
  <2>2. \A h \in Handles : ~(h < i)
    BY <2>1 DEF Handles
  <2> QED
    BY <2>1, <2>2 DEF CompleteInv, WatchedInv, MissedInv, NothingMissed
<1>2. CompleteInv /\ [Next]_vars => CompleteInv'
  <2> SUFFICES ASSUME CompleteInv, [Next]_vars PROVE CompleteInv'
    OBVIOUS
  <2>1. SafeInv' /\ TypeInv' /\ TypeInv
    BY StepSafeInv DEF CompleteInv, SafeInv
  <2>2. CASE Supervisor
    BY <2>1, <2>2, SupervisorWatchedInv, SupervisorMissedInv DEF CompleteInv
  <2>3. ASSUME NEW w \in Workers, Worker(w) PROVE CompleteInv'
    BY <2>1, <2>3, WorkerWatchedInv, WorkerMissedInv DEF CompleteInv, SafeInv
  <2>4. CASE UNCHANGED vars
    BY <2>1, <2>4 DEF vars, shared, kernel, local, CompleteInv, WatchedInv, MissedInv,
       NothingMissed, ReportedHandle, Quiet, Stopped, Stuck
  <2> QED
    BY <2>2, <2>3, <2>4 DEF Next, Idle
<1> QED
  BY <1>1, <1>2, PTL DEF Spec

\* If every query that returns at all does so in time, each file the
\* scan has passed is in the list: the supervisor skips only what hangs.  This
\* needs no TerminateThread that works.
THEOREM NothingMissedAlways == Prompt => (Spec => []NothingMissed)
<1>1. CompleteInv => NothingMissed
  BY DEF CompleteInv, MissedInv
<1> QED
  BY <1>1, AlwaysCompleteInv, PTL
-----------------------------------------------------------------------------
(* With timely queries every handle of our own is closed once.              *)

\* Where a worker has a duplicate open.
Holding == { "publish", "type", "name", "push", "close" }

Watching == sup \in { "sleep", "compare", "remember", "kill" }

\* Nobody has come to the end of the table before the supervisor cleans up.
EndInv ==
    /\ sup \in {"query", "failed"} => nw = 0 /\ result = <<>>
    /\ sup = "compare" => prev < N
    /\ sup = "kill" => i < N
    /\ sup \in {"cleanup", "returned"} => i >= N

\* There is at most one duplicate: that of the worker which is watched or, from
\* when it is given up to CloseLingering, the one in handle_copy.
DuplicateInv ==
    /\ ~badClose
    /\ Watching =>
          /\ openCopies = IF pc[nw] \in Holding THEN {<<nw, at[nw]>>} ELSE {}
          /\ pc[nw] \in Holding \ {"publish"} => handleCopy = <<nw, at[nw]>>
    /\ sup = "linger" => handleCopy # NULL /\ openCopies = {handleCopy}
    /\ ~Watching /\ sup # "linger" => openCopies = {}

\* A worker has opened p and has yet to put it into pid_to_handle.
Opening(p) == \E w \in Workers : pc[w] = "cache" /\ Owner[at[w]] = p

\* A process is open once as long as it is in pid_to_handle, or on its way there.
ProcessInv ==
    /\ \A w \in Workers : pc[w] \in {"open", "cache"} => Owner[at[w]] \notin cached
    /\ \A p \in Pids :
          openProcs[p] = IF sup # "returned" /\ (p \in cached \/ Opening(p)) THEN 1 ELSE 0

ClosedInv == CompleteInv /\ EndInv /\ DuplicateInv /\ ProcessInv

\* A worker takes steps only while it is watched, but for the one by which it
\* finds out that the table has ended.
LEMMA WorkerWatched ==
    ASSUME SafeInv, EndInv, NEW w \in Workers, Worker(w)
    PROVE  /\ w = nw /\ ~Quiet(w)
           /\ \A v \in Workers : v # w => pc'[v] = pc[v] /\ at'[v] = at[v] /\ Quiet(v)
           /\ UNCHANGED <<sup, prev, nw>>
           /\ i' >= i
           /\ Watching \/ (pc[w] = "test" /\ i >= N)
<1> USE DEF SafeInv
<1>1. Frame(w) /\ TypeInv'
  BY WorkerFrame, WorkerTypeInv
<1>2. w = nw /\ ~Parked /\ \A v \in Workers : v # w => Quiet(v)
  BY <1>1, WorkerAlone
<1>3. i \in Nat /\ N \in Nat /\ w # 0 /\ sup \in SupPCs /\ pc[w] \in WorkerPCs
  BY NAssumption DEF TypeInv, TypeOK, Workers
<1>4. ASSUME i >= N PROVE pc[w] = "test"
  <2>1. pc[w] \notin {"reset", "find"}
    BY <1>1, <1>3, <1>4 DEF IndexInv, Frame
  <2>2. at[w] \in Handles
    BY DEF TypeInv, TypeOK
  <2>3. pc[w] \notin Examining
    BY <1>1, <1>3, <1>4, <2>2 DEF IndexInv, Frame, Handles
  <2> QED
    BY <1>1, <1>3, <2>1, <2>3 DEF Frame, Quiet, Stopped, WorkerPCs, Examining
<1>5. Watching \/ i >= N
  BY <1>2, <1>3 DEF EndInv, Parked, SupPCs, Watching
<1> QED
  BY <1>1, <1>2, <1>3, <1>4, <1>5 DEF Frame

\* A worker tells nobody that the table is done before it is.
LEMMA WorkerEndInv ==
    ASSUME Prompt, SafeInv, EndInv, TypeInv', NEW w \in Workers, Worker(w)
    PROVE  EndInv'
<1>1. i \in Nat /\ i' \in Nat /\ N \in Nat /\ w # 0
  BY NAssumption DEF SafeInv, TypeInv, TypeOK, Workers
<1>2. sup # "kill"
  BY WorkerAlone DEF SafeInv, Parked
<1> QED
  BY <1>1, <1>2, WorkerWatched DEF EndInv

\* A worker duplicates a handle into its own place, and closes it there.
LEMMA WorkerDuplicateInv ==
    ASSUME SafeInv, EndInv, DuplicateInv, NEW w \in Workers, Worker(w)
    PROVE  DuplicateInv'
<1> USE DEF SafeInv, TypeInv, TypeOK, Holding, Goto, shared, kernel
<1>1. w = nw /\ nw' = nw /\ sup' = sup /\ (Watching' <=> Watching)
  BY WorkerWatched DEF Watching
<1>2. pc[w] # "test" => Watching /\ sup # "linger"
  BY WorkerWatched DEF Watching
<1>3. Watching => openCopies = IF pc[w] \in Holding THEN {<<w, at[w]>>} ELSE {}
  BY <1>1 DEF DuplicateInv
<1>4. Watching /\ pc[w] \in Holding \ {"publish"} => handleCopy = <<w, at[w]>>
  BY <1>1 DEF DuplicateInv
<1>5. /\ ~badClose'
      /\ pc[w] = "test" => openCopies' = openCopies /\ handleCopy' = handleCopy /\ pc'[w] \notin Holding
      /\ pc[w] # "test" => openCopies' = IF pc'[w] \in Holding THEN {<<w, at'[w]>>} ELSE {}
      /\ pc[w] # "test" /\ pc'[w] \in Holding \ {"publish"} => handleCopy' = <<w, at'[w]>>
  <2> USE <1>2, <1>3, <1>4
  <2>0. ~badClose
    BY DEF DuplicateInv
  <2>1. CASE WorkerTest(w)
    BY <2>0, <2>1 DEF WorkerTest
  <2>2. CASE WorkerReset(w)
    BY <2>0, <2>2 DEF WorkerReset
  <2>3. CASE WorkerFind(w)
    BY <2>0, <2>3 DEF WorkerFind
  <2>4. CASE WorkerOpen(w)
    BY <2>0, <2>4 DEF WorkerOpen
  <2>6. CASE WorkerCache(w)
    BY <2>0, <2>6 DEF WorkerCache
  <2>7. CASE WorkerDuplicate(w)
    BY <2>0, <2>7 DEF WorkerDuplicate
  <2>8. CASE WorkerPublish(w)
    BY <2>0, <2>8 DEF WorkerPublish
  <2>9. CASE WorkerType(w)
    BY <2>0, <2>9 DEF WorkerType
  <2>10. CASE WorkerName(w)
    BY <2>0, <2>10 DEF WorkerName
  <2>12. CASE WorkerPush(w)
    BY <2>0, <2>12 DEF WorkerPush
  <2>13. CASE WorkerClose(w)
    BY <2>0, <2>13 DEF WorkerClose, Close
  <2>14. CASE WorkerNull(w)
    BY <2>0, <2>14 DEF WorkerNull
  <2>15. CASE WorkerNext(w)
    BY <2>0, <2>15 DEF WorkerNext
  <2> QED
    BY <2>1, <2>2, <2>3, <2>4, <2>6, <2>7, <2>8, <2>9, <2>10, <2>12, <2>13, <2>14,
       <2>15 DEF Worker
<1>6. pc[w] = "test" => (Watching => openCopies = {})
  BY <1>3
<1> QED
  BY <1>1, <1>2, <1>5, <1>6 DEF DuplicateInv, Watching

\* The others stand still, so that the worker that moves opens processes alone.
LEMMA WorkerProcessInv ==
    ASSUME SafeInv, EndInv, ProcessInv, NEW w \in Workers, Worker(w)
    PROVE  ProcessInv'
<1> USE DEF SafeInv, TypeInv, TypeOK, Goto, shared, kernel
<1> DEFINE Opens(p) == pc[w] = "cache" /\ Owner[at[w]] = p
<1>1. /\ \A v \in Workers : v # w => pc[v] \notin {"open", "cache"}
      /\ \A v \in Workers : v # w => pc'[v] = pc[v] /\ at'[v] = at[v]
      /\ sup' = sup
  BY WorkerWatched DEF Quiet, Stopped, Stuck
<1>2. \A p \in Pids : (Opening(p) <=> Opens(p)) /\ (Opening(p)' <=> Opens(p)')
  BY <1>1 DEF Opening
<1>3. pc[w] # "test" => sup # "returned"
  BY WorkerWatched DEF Watching
<1>4. /\ pc[w] \in {"open", "cache"} => Owner[at[w]] \notin cached
      /\ \A p \in Pids :
            openProcs[p] = IF sup # "returned" /\ (p \in cached \/ Opens(p)) THEN 1 ELSE 0
  BY <1>2 DEF ProcessInv
<1>5. Owner[at[w]] \in Pids
  BY OwnerAssumption
<1>6. /\ pc'[w] \in {"open", "cache"} => Owner[at'[w]] \notin cached'
      /\ \A p \in Pids :
            openProcs'[p] = IF sup' # "returned" /\ (p \in cached' \/ Opens(p)') THEN 1 ELSE 0
  <2> USE <1>1, <1>3, <1>4, <1>5
  <2>1. CASE WorkerTest(w)
    BY <2>1 DEF WorkerTest
  <2>2. CASE WorkerReset(w)
    BY <2>2 DEF WorkerReset
  <2>3. CASE WorkerFind(w)
    <3>1. CASE i >= N
      BY <2>3, <3>1 DEF WorkerFind
    <3>2. CASE ~(i >= N)
      BY <2>3, <3>2 DEF WorkerFind
    <3> QED
      BY <3>1, <3>2
  <2>4. CASE WorkerOpen(w)
    <3>1. CASE kind[at[w]] = "gone"
      BY <2>4, <3>1 DEF WorkerOpen
    <3>2. CASE kind[at[w]] # "gone"
      <4>1. /\ pc'[w] = "cache" /\ at' = at /\ cached' = cached
            /\ openProcs' = [openProcs EXCEPT ![Owner[at[w]]] = @ + 1]
        BY <2>4, <3>2 DEF WorkerOpen
      <4>2. openProcs[Owner[at[w]]] = 0
        BY <2>4 DEF WorkerOpen
      <4>3. \A p \in Pids : openProcs'[p] = IF p = Owner[at[w]] THEN 1 ELSE openProcs[p]
        BY <4>1, <4>2
      <4> QED
        BY <2>4, <4>1, <4>3 DEF WorkerOpen
    <3> QED
      BY <3>1, <3>2
  <2>6. CASE WorkerCache(w)
    BY <2>6 DEF WorkerCache
  <2>7. CASE WorkerDuplicate(w)
    BY <2>7 DEF WorkerDuplicate
  <2>8. CASE WorkerPublish(w)
    BY <2>8 DEF WorkerPublish
  <2>9. CASE WorkerType(w)
    BY <2>9 DEF WorkerType
  <2>10. CASE WorkerName(w)
    BY <2>10 DEF WorkerName
  <2>12. CASE WorkerPush(w)
    BY <2>12 DEF WorkerPush
  <2>13. CASE WorkerClose(w)
    BY <2>13 DEF WorkerClose, Close
  <2>14. CASE WorkerNull(w)
    BY <2>14 DEF WorkerNull
  <2>15. CASE WorkerNext(w)
    BY <2>15 DEF WorkerNext
  <2> QED
    BY <2>1, <2>2, <2>3, <2>4, <2>6, <2>7, <2>8, <2>9, <2>10, <2>12, <2>13, <2>14,
       <2>15 DEF Worker
<1> QED
  BY <1>1, <1>2, <1>6 DEF ProcessInv

\* With timely queries what is given up, or passed by at the end of the table,
\* is a worker that holds what the supervisor takes it for.
LEMMA SupervisorEndInv ==
    ASSUME Prompt, SafeInv, EndInv, Supervisor
    PROVE  EndInv'
<1>0. i \in Nat /\ prev \in Nat /\ N \in Nat /\ nw \in Nat /\ prev <= i
  BY NAssumption DEF SafeInv, TypeInv, TypeOK, SpawnBound
<1> USE DEF EndInv, shared
<1>1. CASE \E ok \in BOOLEAN : QueryTable(ok)
  BY <1>1 DEF QueryTable
<1>2. CASE LoopTest
  BY <1>0, <1>2 DEF LoopTest
<1>3. CASE Spawn
  BY <1>3 DEF Spawn
<1>4. CASE Wake
  BY <1>0, <1>4 DEF Wake
<1>5. CASE Compare
  BY <1>0, <1>5 DEF Compare
<1>6. CASE Remember
  BY <1>6 DEF Remember
<1>7. CASE Kill
  BY <1>7 DEF Kill
<1>8. CASE CloseLingering
  BY <1>8 DEF CloseLingering
<1>9. CASE SkipHandle
  BY <1>9 DEF SkipHandle
<1>10. CASE CleanUp
  BY <1>10 DEF CleanUp
<1> QED
  BY <1>1, <1>2, <1>3, <1>4, <1>5, <1>6, <1>7, <1>8, <1>9, <1>10 DEF Supervisor

\* Behind the end of the table no worker holds or opens anything.
LEMMA NothingHeldAtEnd ==
    ASSUME SafeInv, WatchedInv, i >= N
    PROVE  /\ Watching => pc[nw] \notin Holding
           /\ \A w \in Workers : pc[w] # "cache"
<1>1. i \in Nat /\ N \in Nat /\ \A w \in Workers : at[w] \in Handles
  BY NAssumption DEF SafeInv, TypeInv, TypeOK
<1>2. \A w \in Workers : at[w] # i
  BY <1>1 DEF Handles
<1>3. \A w \in Workers : pc[w] = "cache" => ~Quiet(w) /\ pc[w] \in Examining
  BY DEF Quiet, Stopped, Stuck, Examining
<1>4. \A w \in Workers : pc[w] # "cache"
  BY <1>2, <1>3 DEF SafeInv, IndexInv
<1> QED
  BY <1>2, <1>4 DEF WatchedInv, Watching, Holding, Examining

\* The supervisor closes the copy of a worker it gives up, once.
LEMMA SupervisorDuplicateInv ==
    ASSUME Prompt, CompleteInv, EndInv, DuplicateInv, Supervisor
    PROVE  DuplicateInv'
<1> USE DEF CompleteInv, SafeInv
<1>0. i \in Nat /\ prev \in Nat /\ N \in Nat
  BY NAssumption DEF TypeInv, TypeOK
<1>1. CASE Spawn
  <2>1. openCopies = {} /\ ~badClose /\ UNCHANGED <<openCopies, badClose>>
    BY <1>1 DEF Spawn, DuplicateInv, Watching, kernel
  <2> QED
    BY <1>1, <2>1, SpawnFacts DEF DuplicateInv, Watching, Holding
<1>2. CASE Kill
  <2>1. Quiet(nw) /\ nw \in Workers /\ i < N
    BY <1>2 DEF Kill, RunnerInv, Parked, WatchedInv, EndInv
  <2>2. pc[nw] \in {"type", "name"}
    BY <1>0, <1>2, <2>1 DEF Kill, WatchedInv, Quiet, Stopped, Stuck
  <2>3. openCopies = {<<nw, at[nw]>>} /\ handleCopy = <<nw, at[nw]>> /\ ~badClose
    BY <1>2, <2>2 DEF Kill, DuplicateInv, Watching, Holding
  <2>4. handleCopy # NULL
    BY <2>1, <2>3, HandleFacts, NullAssumption DEF TypeInv, TypeOK
  <2> QED
    BY <1>2, <2>3, <2>4, KillFacts DEF Kill, DuplicateInv, Watching, kernel
<1>3. CASE Wake
  <2>1. UNCHANGED <<i, nw, pc, at, handleCopy, openCopies, badClose>> /\ sup = "sleep"
    BY <1>3 DEF Wake, shared, local, kernel
  <2>2. i >= N => openCopies = {}
    BY <2>1, NothingHeldAtEnd DEF DuplicateInv, Watching
  <2> QED
    BY <1>3, <2>1, <2>2 DEF Wake, DuplicateInv, Watching
<1>4. CASE CloseLingering
  BY <1>4 DEF CloseLingering, Close, DuplicateInv, Watching
<1>5. CASE ~Spawn /\ ~Kill /\ ~Wake /\ ~CloseLingering
  <2>1. UNCHANGED <<nw, pc, at, handleCopy, openCopies, badClose>>
    BY <1>5 DEF Supervisor, QueryTable, LoopTest, Compare, Remember, SkipHandle, CleanUp,
       shared, local, kernel
  <2>2. Watching' => Watching
    BY <1>5 DEF Supervisor, QueryTable, LoopTest, Compare, Remember, SkipHandle, CleanUp, Watching
  <2>3. sup # "linger" /\ sup' # "linger"
    BY <1>5 DEF Supervisor, QueryTable, LoopTest, Compare, Remember, SkipHandle, CleanUp
  <2>4. Watching => Watching'
    BY <1>5 DEF Supervisor, QueryTable, LoopTest, Compare, Remember, SkipHandle, CleanUp, Watching
  <2> QED
    BY <2>1, <2>2, <2>3, <2>4 DEF DuplicateInv
<1> QED
  BY <1>1, <1>2, <1>3, <1>4, <1>5

\* The supervisor closes the handles of the processes at the end, and only then.
LEMMA SupervisorProcessInv ==
    ASSUME Prompt, CompleteInv, EndInv, ProcessInv, Supervisor
    PROVE  ProcessInv'
<1> USE DEF CompleteInv, SafeInv
<1>1. CASE Spawn
  <2>1. \A w \in Workers : pc'[w] \in {"open", "cache"} => pc[w] = pc'[w]
    BY <1>1, SpawnFacts
  <2>2. \A w \in Workers : pc[w] \in {"open", "cache"} => pc'[w] = pc[w]
    BY <1>1, SpawnFacts DEF Spawn, RunnerInv, Parked, Quiet, Stopped, Stuck
  <2>3. UNCHANGED <<at, openProcs, cached>> /\ sup # "returned" /\ sup' # "returned"
    BY <1>1 DEF Spawn, shared, kernel
  <2> QED
    BY <2>1, <2>2, <2>3 DEF ProcessInv, Opening
<1>2. CASE Kill
  <2>1. UNCHANGED <<pc, at, openProcs, cached>> /\ sup # "returned" /\ sup' # "returned"
    BY <1>2 DEF Kill, shared, kernel, local
  <2> QED
    BY <2>1 DEF ProcessInv, Opening
<1>3. CASE CleanUp
  <2>1. UNCHANGED <<cached, pc, at>> /\ sup' = "returned" /\ sup = "cleanup"
    BY <1>3 DEF CleanUp, shared, local
  <2>2. \A p \in Pids : ~Opening(p)
    BY <2>1, NothingHeldAtEnd DEF EndInv, Opening
  <2>3. \A p \in Pids : openProcs'[p] = IF p \in cached THEN openProcs[p] - 1 ELSE openProcs[p]
    BY <1>3 DEF CleanUp
  <2>4. \A p \in Pids : openProcs[p] = IF p \in cached THEN 1 ELSE 0
    BY <2>1, <2>2 DEF ProcessInv
  <2> QED
    BY <2>1, <2>3, <2>4 DEF ProcessInv
<1>4. CASE ~Spawn /\ ~Kill /\ ~CleanUp
  <2>1. UNCHANGED <<cached, pc, at, openProcs>> /\ sup # "returned" /\ sup' # "returned"
    BY <1>4 DEF Supervisor, QueryTable, LoopTest, Wake, Compare, Remember, CloseLingering, Close,
       SkipHandle, shared, local, kernel
  <2> QED
    BY <2>1 DEF ProcessInv, Opening
<1> QED
  BY <1>1, <1>2, <1>3, <1>4

\* With timely queries every handle is held by one who will close it, at any time.
LEMMA AlwaysClosedInv == Prompt => (Spec => []ClosedInv)
<1> SUFFICES ASSUME Prompt PROVE Spec => []ClosedInv
  OBVIOUS
<1>1. Init => EndInv /\ DuplicateInv /\ ProcessInv
  BY DEF Init, EndInv, DuplicateInv, ProcessInv, Watching, Opening
<1>2. CompleteInv /\ CompleteInv' /\ EndInv /\ DuplicateInv /\ ProcessInv /\ [Next]_vars
          => EndInv' /\ DuplicateInv' /\ ProcessInv'
  <2> SUFFICES ASSUME CompleteInv, CompleteInv', EndInv, DuplicateInv, ProcessInv, [Next]_vars
               PROVE  EndInv' /\ DuplicateInv' /\ ProcessInv'
    OBVIOUS
  <2>1. CASE Supervisor
    BY <2>1, SupervisorEndInv, SupervisorDuplicateInv, SupervisorProcessInv DEF CompleteInv
  <2>2. ASSUME NEW w \in Workers, Worker(w) PROVE EndInv' /\ DuplicateInv' /\ ProcessInv'
    BY <2>2, WorkerEndInv, WorkerDuplicateInv, WorkerProcessInv DEF CompleteInv, SafeInv
  <2>3. CASE UNCHANGED vars
    BY <2>3 DEF vars, shared, kernel, local, EndInv, DuplicateInv, ProcessInv, Watching, Opening
  <2> QED
    BY <2>1, <2>2, <2>3 DEF Next, Idle
<1> QED
  BY <1>1, <1>2, AlwaysCompleteInv, PTL DEF Spec, ClosedInv

\* Neither thread closes a duplicate that was closed already: with timely
\* queries a worker is given up only while it still holds the one in
\* handle_copy.
THEOREM NoDoubleCloseAlways == Prompt => (Spec => []NoDoubleClose)
<1>1. ClosedInv => NoDoubleClose
  BY DEF ClosedInv, DuplicateInv, NoDoubleClose
<1> QED
  BY <1>1, AlwaysClosedInv, PTL

\* The caller gets its list with every duplicate and every process closed, the
\* duplicates of the workers that hung included.
THEOREM NothingLeakedAlways == Prompt => (Spec => []NothingLeaked)
<1>1. ClosedInv => NothingLeaked
  BY DEF ClosedInv, DuplicateInv, ProcessInv, Watching, NothingLeaked
<1> QED
  BY <1>1, AlwaysClosedInv, PTL

-----------------------------------------------------------------------------
(* The two threads together are HandleEnumeration, step by step.            *)

FileHandles == {h \in Handles : kind[h] \in Files}
Listed == [a \in DOMAIN result |-> result[a].handle]

\* A step that leaves the list and the supervisor's end alone cannot be seen.
LEMMA Unseen ==
    ASSUME UNCHANGED <<kind, result>>, Returned' <=> Returned
    PROVE  UNCHANGED Enumeration!evars
<1>1. Returned' = Returned
  BY DEF Returned
<1> QED
  BY <1>1 DEF Enumeration!evars

\* What the abstract enumeration calls reported are the handles of the result.
LEMMA ReportedAre ==
    ASSUME TypeInv
    PROVE  Enumeration!Reported = {result[a].handle : a \in DOMAIN result}
  BY DEF Enumeration!Reported

\* push_back is the report of the next file.
LEMMA PushIsReport ==
    ASSUME ClosedInv, NEW w \in Workers, WorkerPush(w)
    PROVE  Enumeration!Next
<1> USE DEF ClosedInv, CompleteInv, SafeInv
<1>0. at[w] \in Handles
  BY DEF TypeInv, TypeOK
<1> PICK h \in Handles : h = at[w]
  BY <1>0
<1>1. Worker(w)
  BY DEF Worker
<1>2. w = nw /\ ~Quiet(w) /\ Watching
  BY <1>1, WorkerWatched DEF WorkerPush
<1>3. h = i /\ h \in 0 .. N-1 /\ kind[h] \in Files /\ h \in FileHandles
  BY <1>2 DEF WorkerPush, IndexInv, Examining, CopyInv, TypeInv, TypeOK, Handles, FileHandles
<1>4. ~Returned /\ Returned' = Returned
  BY <1>2 DEF Watching, Returned, WorkerPush
<1>5. h \notin Enumeration!Reported
  <2>1. \A a \in DOMAIN result : result[a].handle < i
    BY <1>2 DEF WorkerPush, OrderInv
  <2> QED
    BY <1>3, <2>1, EntryTypes, ReportedAre
<1>6. \A g \in FileHandles : g < h => g \in Enumeration!Reported
  BY <1>3, ReportedAre DEF MissedInv, NothingMissed, FileHandles
<1>7. Listed' = Append(Listed, h)
  <2>1. /\ Len(result) \in Nat
        /\ DOMAIN result = 1 .. Len(result)
        /\ DOMAIN result' = 1 .. Len(result) + 1
        /\ \A a \in DOMAIN result : result'[a] = result[a] /\ result[a] \in Entry
        /\ result'[Len(result) + 1] = [handle |-> at[w], name |-> named[w]]
    BY PushFacts
  <2>2. Listed \in Seq(Handles) /\ Len(Listed) = Len(result)
    BY <2>1 DEF Listed, Entry
  <2>3. /\ Append(Listed, h) \in Seq(Handles)
        /\ DOMAIN Append(Listed, h) = 1 .. Len(result) + 1
        /\ \A a \in 1 .. Len(result) : Append(Listed, h)[a] = Listed[a]
        /\ Append(Listed, h)[Len(result) + 1] = h
    BY <1>3, <2>2 DEF Handles
  <2>4. Listed' = [a \in 1 .. Len(result) + 1 |-> result'[a].handle]
    BY <2>1 DEF Listed
  <2>5. \A a \in 1 .. Len(result) + 1 : Append(Listed, h)[a] = result'[a].handle
    BY <2>1, <2>3 DEF Listed
  <2>6. Append(Listed, h) = [a \in 1 .. Len(result) + 1 |-> Append(Listed, h)[a]]
    BY <2>3
  <2> QED
    BY <2>4, <2>5, <2>6
<1>8. FileHandles' = FileHandles
  BY DEF WorkerPush, FileHandles
<1>9. Enumeration!Report(h)
  BY <1>3, <1>4, <1>5, <1>6, <1>7, <1>8 DEF Enumeration!Report, FileHandles, Listed
<1> QED
  BY <1>3, <1>9 DEF Enumeration!Next

\* The return from CleanUp is that of an enumeration which is complete.
LEMMA CleanUpIsReturn ==
    ASSUME ClosedInv, CleanUp
    PROVE  Enumeration!Next
<1> USE DEF ClosedInv, CompleteInv, SafeInv
<1>1. i >= N /\ UNCHANGED <<kind, result>>
  BY DEF CleanUp, EndInv, shared
<1>2. ~Returned /\ Returned'
  BY DEF CleanUp, Returned
<1>3. FileHandles \subseteq Enumeration!Reported
  <2>1. \A h \in Handles : h < i
    BY <1>1, NAssumption DEF Handles, TypeInv, TypeOK
  <2> QED
    BY <2>1, ReportedAre DEF MissedInv, NothingMissed, FileHandles
<1>4. Enumeration!Reported \subseteq FileHandles
  BY EntryTypes, ReportedAre DEF CopyInv, NameIsOwn, FileHandles
<1>5. Enumeration!Return
  BY <1>1, <1>2, <1>3, <1>4 DEF Enumeration!Return, FileHandles, Returned
<1> QED
  BY <1>5 DEF Enumeration!Next

\* A table that cannot be read makes an empty list.
LEMMA QueryIsFail ==
    ASSUME ClosedInv, NEW ok \in BOOLEAN, QueryTable(ok)
    PROVE  [Enumeration!Next]_(Enumeration!evars)
<1>1. UNCHANGED <<kind, result>> /\ ~Returned /\ result = <<>>
  BY DEF QueryTable, Returned, ClosedInv, EndInv, shared
<1>2. CASE ok
  BY <1>1, <1>2, Unseen DEF QueryTable, Returned
<1>3. CASE ~ok
  <2>1. Returned'
    BY <1>3 DEF QueryTable, Returned
  <2>2. Listed = <<>>
    BY <1>1 DEF Listed
  <2>3. Enumeration!Fail
    BY <1>1, <2>1, <2>2 DEF Enumeration!Fail, Listed, Returned
  <2> QED
    BY <2>3 DEF Enumeration!Next
<1> QED
  BY <1>2, <1>3

\* handles() with its two threads, whatever hangs and however they are scheduled,
\* is the enumeration its callers rely on: each step of either thread reports the
\* next file, or returns, or cannot be seen.  (That it does return is
\* the part of ImplementsEnumeration that is only model-checked.)
THEOREM EnumerationImplemented == Prompt => (Spec => Enumeration!Spec)
<1> SUFFICES ASSUME Prompt PROVE Spec => Enumeration!Spec
  OBVIOUS
<1>1. Init => Enumeration!Init
  <2> SUFFICES ASSUME Init PROVE Enumeration!Init
    OBVIOUS
  <2>1. Listed = <<>>
    BY DEF Init, Listed
  <2>2. FileHandles \in SUBSET (0 .. N-1)
    BY DEF FileHandles, Handles
  <2>3. Returned = FALSE
    BY DEF Init, Returned
  <2> QED
    BY <2>1, <2>2, <2>3 DEF Enumeration!Init, Listed, FileHandles
<1>2. ClosedInv /\ [Next]_vars => [Enumeration!Next]_(Enumeration!evars)
  <2> SUFFICES ASSUME ClosedInv, [Next]_vars PROVE [Enumeration!Next]_(Enumeration!evars)
    OBVIOUS
  <2> USE DEF ClosedInv, CompleteInv, SafeInv
  <2>1. ASSUME NEW ok \in BOOLEAN, QueryTable(ok) PROVE [Enumeration!Next]_(Enumeration!evars)
    BY <2>1, QueryIsFail
  <2>2. CASE CleanUp
    BY <2>2, CleanUpIsReturn
  <2>3. CASE Supervisor /\ (\A ok \in BOOLEAN : ~QueryTable(ok)) /\ ~CleanUp
    <3>1. Returned' <=> Returned
      BY <2>3 DEF Supervisor, LoopTest, Spawn, Wake, Compare, Remember, Kill, CloseLingering,
         SkipHandle, Returned
    <3>2. UNCHANGED <<kind, result>>
      BY <2>3 DEF Supervisor, LoopTest, Spawn, Wake, Compare, Remember, Kill, CloseLingering,
         SkipHandle, shared
    <3> QED
      BY <3>1, <3>2, Unseen
  <2>4. ASSUME NEW w \in Workers, Worker(w) PROVE [Enumeration!Next]_(Enumeration!evars)
    <3>1. CASE WorkerPush(w)
      BY <3>1, PushIsReport
    <3>2. CASE ~WorkerPush(w)
      <4>1. pc[w] # "push"
        BY <2>4, <3>2 DEF Worker, WorkerTest, WorkerReset, WorkerFind, WorkerOpen, WorkerCache,
           WorkerDuplicate, WorkerPublish, WorkerType, WorkerName,
           WorkerClose, WorkerNull, WorkerNext
      <4>2. UNCHANGED <<kind, result, sup>>
        BY <2>4, <4>1, WorkerFrame DEF Frame
      <4> QED
        BY <4>2, Unseen DEF Returned
    <3> QED
      BY <3>1, <3>2
  <2>5. CASE UNCHANGED vars
    BY <2>5, Unseen DEF vars, shared, Returned
  <2> QED
    BY <2>1, <2>2, <2>3, <2>4, <2>5 DEF Next, Idle, Supervisor
<1> QED
  BY <1>1, <1>2, AlwaysClosedInv, PTL DEF Spec, Enumeration!Spec
=============================================================================

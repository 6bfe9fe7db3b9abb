----------------------------- MODULE PipeProofs -----------------------------
(***************************************************************************)
(* The pipe for any messages, threads and crashes: the types of its state, *)
(* the order in which messages come when the handlers do not overlap, and  *)
(* that the direction of the sender is a Channel, step by step.            *)
(***************************************************************************)
EXTENDS Pipe, SequenceTheorems, NatRecursion, TLAPS

(***************************************************************************)
(* Type correctness.                                                       *)
(***************************************************************************)
Places == {"running", "cut in", "join in", "join out", "join server", "ended", "crashed", "test", "pop",
           "open", "wait", "write", "done", "create", "connect", "pending", "connected", "failed", "dispatch"}
Serving == {"connect", "pending", "connected", "failed"}

\* What the places p of an end's threads say about the message h in the hand of
\* the first, the one k that the last has taken, and the instance i.
EndOK(p, h, k, i) ==
    /\ p["owner"] \in {"running", "cut in", "join in", "join out", "join server", "ended", "crashed"}
    /\ p["out"] \in {"test", "pop", "open", "wait", "write", "done", "crashed"}
    /\ p["server"] \in {"test", "create", "done", "crashed"} \cup Serving
    /\ p["in"] \in {"test", "pop", "dispatch", "done", "crashed"}
    /\ h # None <=> p["out"] \in {"open", "wait", "write"}
    /\ k # None <=> p["in"] = "dispatch"
    /\ i # None <=> p["server"] \in Serving
    /\ p["server"] = "connected" => i # Free

PipeVarTypes ==
    /\ pc \in [Ends -> [Threads -> Places]]
    /\ closed \in [Ends -> BOOLEAN] /\ cut \in [Ends -> SUBSET {"in", "out"}]
    /\ outq \in [Ends -> Seq(Ids \cup {EmptyText})] /\ inq \in [Ends -> Seq(Texts)]
    /\ hand \in [Ends -> Ids \cup {None}] /\ taken \in [Ends -> Texts \cup {None}]
    /\ inst \in [Ends -> Ids \cup {None, Free}]
    /\ handlers \in [Ends -> SUBSET [client : Ids, next : {"read", "close"}]]
    /\ written \in [Ends -> SUBSET Ids]
    /\ sent \in [Ends -> Seq(Ids \cup {EmptyText})] /\ got \in [Ends -> Seq(Texts)]
    /\ missed \in [Ends -> BOOLEAN] /\ overlap \in [Ends -> BOOLEAN]

PipeTypesInv ==
    /\ PipeVarTypes
    /\ \A e \in Ends : EndOK(pc[e], hand[e], taken[e], inst[e])

\* These are the types that the runs check, and more.
LEMMA PipeTypesImplied == PipeTypesInv => PipeTypesOK
  BY DEF PipeTypesInv, PipeVarTypes, EndOK, Serving, PipeTypesOK, At

\* There are two ends, each the peer of the other.
LEMMA PeerIsOther ==
    ASSUME NEW e \in Ends
    PROVE  /\ Peer(e) \in Ends /\ Peer(e) # e /\ Peer(Peer(e)) = e
           /\ \A x \in Ends : x = e \/ x = Peer(e)
<1>1. PICK a \in Ends, b \in Ends : a # b /\ Ends = {a, b}
  BY PipeAssumption
<1>2. \A x \in Ends : \E p \in Ends : p # x
  BY <1>1
<1>3. \A x \in Ends : Peer(x) \in Ends /\ Peer(x) # x
  BY <1>2 DEF Peer
<1> QED BY <1>1, <1>3

\* The special values are no messages.
LEMMA Markers ==
    /\ EmptyText \notin Ids /\ Blank \notin Ids /\ None \notin Ids /\ Free \notin Ids
    /\ None # Free /\ None # Blank
  BY PipeAssumption

\* What Goes does to the places of all threads.
LEMMA GoesEffect ==
    ASSUME NEW e \in Ends, NEW t \in Threads, NEW to \in Places,
           pc \in [Ends -> [Threads -> Places]], Goes(e, t, to)
    PROVE  /\ pc' \in [Ends -> [Threads -> Places]]
           /\ pc'[e][t] = to
           /\ "owner" # t => pc'[e]["owner"] = pc[e]["owner"]
           /\ "out" # t => pc'[e]["out"] = pc[e]["out"]
           /\ "server" # t => pc'[e]["server"] = pc[e]["server"]
           /\ "in" # t => pc'[e]["in"] = pc[e]["in"]
           /\ \A x \in Ends : x # e => pc'[x] = pc[x]
<1>1. \A s \in Threads : s # t => pc'[e][s] = pc[e][s]
  BY DEF Goes
<1> QED BY <1>1 DEF Goes, Threads

\* The initial state has the right types.
LEMMA PipeTypesInit == PipeInit => PipeTypesInv
<1> SUFFICES ASSUME PipeInit PROVE PipeTypesInv
  OBVIOUS
<1> USE PipeAssumption, Markers
<1>1. \A e \in Ends : /\ pc[e]["owner"] = "running"
                      /\ pc[e]["out"] \in {"test", "pop"} /\ pc[e]["in"] \in {"test", "pop"}
                      /\ pc[e]["server"] = IF <<e, "server">> \in Resting THEN "pending" ELSE "test"
  BY DEF PipeInit, Threads, Begin, Rest
<1>2. pc \in [Ends -> [Threads -> Places]]
  <2>1. \A t \in Threads : Rest[t] \in Places /\ Begin[t] \in Places
    <3>1. /\ Rest["owner"] \in Places /\ Rest["out"] \in Places
          /\ Rest["server"] \in Places /\ Rest["in"] \in Places
      BY DEF Rest, Places
    <3>2. /\ Begin["owner"] \in Places /\ Begin["out"] \in Places
          /\ Begin["server"] \in Places /\ Begin["in"] \in Places
      BY DEF Begin, Places
    <3> QED BY <3>1, <3>2, Zenon DEF Threads
  <2> QED BY <2>1 DEF PipeInit
<1>3. /\ outq \in [Ends -> Seq(Ids \cup {EmptyText})] /\ inq \in [Ends -> Seq(Texts)]
      /\ sent \in [Ends -> Seq(Ids \cup {EmptyText})] /\ got \in [Ends -> Seq(Texts)]
  BY EmptySeq DEF PipeInit
<1>4. /\ closed \in [Ends -> BOOLEAN] /\ cut \in [Ends -> SUBSET {"in", "out"}]
      /\ hand \in [Ends -> Ids \cup {None}] /\ taken \in [Ends -> Texts \cup {None}]
      /\ inst \in [Ends -> Ids \cup {None, Free}]
      /\ handlers \in [Ends -> SUBSET [client : Ids, next : {"read", "close"}]]
      /\ written \in [Ends -> SUBSET Ids]
      /\ missed \in [Ends -> BOOLEAN] /\ overlap \in [Ends -> BOOLEAN]
  BY DEF PipeInit
<1>5. \A e \in Ends : hand[e] = None /\ taken[e] = None
                      /\ inst[e] = IF <<e, "server">> \in Resting THEN Free ELSE None
  BY DEF PipeInit
<1>6. ASSUME NEW e \in Ends
      PROVE  /\ pc[e]["owner"] = "running"
             /\ pc[e]["out"] \in {"test", "pop"} /\ pc[e]["in"] \in {"test", "pop"}
             /\ pc[e]["server"] \in {"test", "pending"}
             /\ pc[e]["server"] = "pending" <=> inst[e] # None
             /\ inst[e] \in {None, Free}
  BY <1>1, <1>5
<1> QED
  <2> HIDE PipeAssumption, Markers
  <2>1. ASSUME NEW e \in Ends
        PROVE  EndOK(pc[e], hand[e], taken[e], inst[e])
    BY <1>5, <1>6, Markers DEF EndOK, Serving
  <2>2. PipeVarTypes
    BY <1>2, <1>3, <1>4 DEF PipeVarTypes
  <2> QED BY <2>1, <2>2 DEF PipeTypesInv

\* Every step keeps them.
LEMMA PipeTypesStep == PipeTypesInv /\ [PipeNext]_vars => PipeTypesInv'
<1> SUFFICES ASSUME PipeTypesInv, [PipeNext]_vars PROVE PipeTypesInv'
  OBVIOUS
<1> USE Markers
<1>a. PipeVarTypes /\ \A x \in Ends : EndOK(pc[x], hand[x], taken[x], inst[x])
  BY DEF PipeTypesInv
<1>1. ASSUME NEW e \in Ends, NEW m \in Ids \cup {EmptyText}, SendText(e, m)
      PROVE  PipeTypesInv'
  <2>1. PipeVarTypes'
    BY <1>1, <1>a DEF SendText, PipeVarTypes, threadVars, pipeVars
  <2>2. \A x \in Ends : EndOK(pc[x], hand[x], taken[x], inst[x])'
    BY <1>1, <1>a DEF SendText, pipeVars
  <2> QED BY <2>1, <2>2 DEF PipeTypesInv
<1>2. ASSUME NEW e \in Ends, NEW t \in {"out", "server", "in"}, Test(e, t)
      PROVE  PipeTypesInv'
  <2> USE DEF Test, threadVars, queueVars, pipeVars, ghostVars
  <2> PICK to \in {"done", "create", "pop"} : Goes(e, t, to) /\ (to = "create" => t = "server") /\ (to = "pop" => t # "server")
    BY <1>2 DEF Goes
  <2>1. to \in Places /\ t \in Threads
    BY DEF Places, Threads
  <2>2. PipeVarTypes'
    BY <1>2, <1>a, <2>1, GoesEffect DEF PipeVarTypes
  <2>3. \A x \in Ends \ {e} : EndOK(pc[x], hand[x], taken[x], inst[x])'
    BY <1>2, <1>a, <2>1, GoesEffect DEF PipeVarTypes
  <2>4. EndOK(pc[e], hand[e], taken[e], inst[e])'
    <3>1. /\ pc[e][t] = "test"
          /\ hand'[e] = hand[e] /\ taken'[e] = taken[e] /\ inst'[e] = inst[e]
      BY <1>2 DEF At
    <3>2. EndOK(pc[e], hand[e], taken[e], inst[e])
      BY <1>a
    <3>3. /\ pc'[e][t] = to
          /\ "owner" # t => pc'[e]["owner"] = pc[e]["owner"]
          /\ "out" # t => pc'[e]["out"] = pc[e]["out"]
          /\ "server" # t => pc'[e]["server"] = pc[e]["server"]
          /\ "in" # t => pc'[e]["in"] = pc[e]["in"]
      BY <1>a, <2>1, GoesEffect DEF PipeVarTypes
    <3> QED BY <3>1, <3>2, <3>3 DEF EndOK, Serving
  <2> QED BY <2>2, <2>3, <2>4 DEF PipeTypesInv
<1>3. ASSUME NEW e \in Ends, PopOut(e)
      PROVE  PipeTypesInv'
  <2> USE DEF PopOut, threadVars, queueVars, pipeVars, ghostVars
  <2>a. outq[e] # <<>> => Head(outq[e]) \in Ids \cup {EmptyText} /\ Tail(outq[e]) \in Seq(Ids \cup {EmptyText})
    BY <1>a, HeadTailProperties DEF PipeVarTypes
  <2>1. /\ pc' \in [Ends -> [Threads -> Places]]
        /\ \A x \in Ends : x # e => pc'[x] = pc[x]
        /\ pc'[e]["owner"] = pc[e]["owner"] /\ pc'[e]["server"] = pc[e]["server"] /\ pc'[e]["in"] = pc[e]["in"]
    BY <1>3, <1>a, GoesEffect DEF PipeVarTypes, Threads, Places
  <2>2. PipeVarTypes'
    <3>1. outq' \in [Ends -> Seq(Ids \cup {EmptyText})]
      BY <1>3, <1>a, <2>a DEF PipeVarTypes
    <3>2. hand' \in [Ends -> Ids \cup {None}]
      BY <1>3, <1>a, <2>a DEF PipeVarTypes
    <3>3. UNCHANGED <<closed, cut, inq, taken, inst, handlers, written, sent, got, missed, overlap>>
      BY <1>3
    <3> HIDE <1>3, <2>a DEF PopOut
    <3> QED BY <1>a, <2>1, <3>1, <3>2, <3>3 DEF PipeVarTypes
  <2>3. \A x \in Ends \ {e} : EndOK(pc[x], hand[x], taken[x], inst[x])'
    BY <1>3, <1>a, <2>1 DEF PipeVarTypes
  <2>4. EndOK(pc[e], hand[e], taken[e], inst[e])'
    <3>1. /\ pc[e]["out"] = "pop" /\ taken'[e] = taken[e] /\ inst'[e] = inst[e]
          /\ \/ pc'[e]["out"] = "done" /\ hand'[e] = hand[e]
             \/ pc'[e]["out"] = "open" /\ hand'[e] # None
      <4>1. /\ Goes(e, "out", "done") => pc'[e]["out"] = "done"
            /\ Goes(e, "out", "open") => pc'[e]["out"] = "open"
        BY <1>a, GoesEffect DEF PipeVarTypes, Threads, Places
      <4>2. \/ Goes(e, "out", "done") /\ UNCHANGED hand
            \/ /\ Goes(e, "out", "open") /\ outq[e] # <<>> /\ Head(outq[e]) # EmptyText
               /\ hand' = [hand EXCEPT ![e] = Head(outq[e])]
        BY <1>3
      <4>3. hand \in [Ends -> Ids \cup {None}]
        BY <1>a DEF PipeVarTypes
      <4>4. Goes(e, "out", "open") /\ outq[e] # <<>> /\ Head(outq[e]) # EmptyText => Head(outq[e]) # None
        BY <2>a
      <4>5. pc[e]["out"] = "pop" /\ taken'[e] = taken[e] /\ inst'[e] = inst[e]
        BY <1>3 DEF At
      <4> HIDE <1>3, <1>a, <2>a DEF PopOut
      <4> QED BY <4>1, <4>2, <4>3, <4>4, <4>5
    <3>2. EndOK(pc[e], hand[e], taken[e], inst[e])
      BY <1>a
    <3> HIDE <1>3, <1>a
    <3> QED BY <2>1, <3>1, <3>2 DEF EndOK, Serving
  <2> QED BY <2>2, <2>3, <2>4 DEF PipeTypesInv
<1>4. ASSUME NEW e \in Ends, PopIn(e)
      PROVE  PipeTypesInv'
  <2> USE DEF PopIn, threadVars, queueVars, pipeVars, ghostVars
  <2>a. inq[e] # <<>> => Head(inq[e]) \in Texts /\ Tail(inq[e]) \in Seq(Texts)
    BY <1>a, HeadTailProperties DEF PipeVarTypes
  <2>b. None \notin Texts
    BY DEF Texts
  <2>1. /\ pc' \in [Ends -> [Threads -> Places]]
        /\ \A x \in Ends : x # e => pc'[x] = pc[x]
        /\ pc'[e]["owner"] = pc[e]["owner"] /\ pc'[e]["out"] = pc[e]["out"] /\ pc'[e]["server"] = pc[e]["server"]
    BY <1>4, <1>a, GoesEffect DEF PipeVarTypes, Threads, Places
  <2>2. PipeVarTypes'
    <3>1. inq' \in [Ends -> Seq(Texts)]
      BY <1>4, <1>a, <2>a DEF PipeVarTypes
    <3>2. taken' \in [Ends -> Texts \cup {None}]
      BY <1>4, <1>a, <2>a DEF PipeVarTypes
    <3> QED BY <1>4, <1>a, <2>1, <3>1, <3>2 DEF PipeVarTypes
  <2>3. \A x \in Ends \ {e} : EndOK(pc[x], hand[x], taken[x], inst[x])'
    BY <1>4, <1>a, <2>1 DEF PipeVarTypes
  <2>4. EndOK(pc[e], hand[e], taken[e], inst[e])'
    <3>1. /\ pc[e]["in"] = "pop" /\ hand'[e] = hand[e] /\ inst'[e] = inst[e]
          /\ \/ pc'[e]["in"] = "done" /\ taken'[e] = taken[e]
             \/ pc'[e]["in"] = "dispatch" /\ taken'[e] # None
      <4>1. /\ Goes(e, "in", "done") => pc'[e]["in"] = "done"
            /\ Goes(e, "in", "dispatch") => pc'[e]["in"] = "dispatch"
        BY <1>a, GoesEffect DEF PipeVarTypes, Threads, Places
      <4>2. \/ Goes(e, "in", "done") /\ UNCHANGED taken
            \/ /\ Goes(e, "in", "dispatch") /\ inq[e] # <<>>
               /\ taken' = [taken EXCEPT ![e] = Head(inq[e])]
        BY <1>4
      <4>3. taken \in [Ends -> Texts \cup {None}]
        BY <1>a DEF PipeVarTypes
      <4>4. inq[e] # <<>> => Head(inq[e]) # None
        BY <2>a, <2>b
      <4>5. pc[e]["in"] = "pop" /\ hand'[e] = hand[e] /\ inst'[e] = inst[e]
        BY <1>4 DEF At
      <4> HIDE <1>4, <1>a, <2>a DEF PopIn
      <4> QED BY <4>1, <4>2, <4>3, <4>4, <4>5
    <3>2. EndOK(pc[e], hand[e], taken[e], inst[e])
      BY <1>a
    <3> HIDE <1>4, <1>a
    <3> QED BY <2>1, <3>1, <3>2 DEF EndOK, Serving
  <2> QED BY <2>2, <2>3, <2>4 DEF PipeTypesInv
<1>5. ASSUME NEW e \in Ends, Dispatch(e)
      PROVE  PipeTypesInv'
  <2> USE DEF Dispatch, threadVars, queueVars, pipeVars, ghostVars
  <2>a. taken[e] \in Texts
    BY <1>5, <1>a DEF PipeVarTypes, EndOK, At
  <2>b. Append(got[e], taken[e]) \in Seq(Texts)
    BY <1>a, <2>a, AppendProperties DEF PipeVarTypes
  <2>1. /\ pc' \in [Ends -> [Threads -> Places]]
        /\ \A x \in Ends : x # e => pc'[x] = pc[x]
        /\ pc'[e]["owner"] = pc[e]["owner"] /\ pc'[e]["out"] = pc[e]["out"] /\ pc'[e]["server"] = pc[e]["server"]
    BY <1>5, <1>a, GoesEffect DEF PipeVarTypes, Threads, Places
  <2>2. PipeVarTypes'
    BY <1>5, <1>a, <2>1, <2>b DEF PipeVarTypes
  <2>3. \A x \in Ends \ {e} : EndOK(pc[x], hand[x], taken[x], inst[x])'
    BY <1>5, <1>a, <2>1 DEF PipeVarTypes
  <2>4. EndOK(pc[e], hand[e], taken[e], inst[e])'
    <3>1. /\ pc[e]["in"] = "dispatch" /\ hand'[e] = hand[e] /\ inst'[e] = inst[e]
          /\ pc'[e]["in"] = "test" /\ taken'[e] = None
      BY <1>5, <1>a, GoesEffect DEF PipeVarTypes, At, Threads, Places
    <3>2. EndOK(pc[e], hand[e], taken[e], inst[e])
      BY <1>a
    <3> HIDE <1>5, <1>a
    <3> QED BY <2>1, <3>1, <3>2 DEF EndOK, Serving
  <2> QED BY <2>2, <2>3, <2>4 DEF PipeTypesInv
<1>6. ASSUME NEW e \in Ends, Wait(e)
      PROVE  PipeTypesInv'
  <2> USE DEF Wait, threadVars, queueVars, pipeVars, ghostVars
  <2>1. /\ pc' \in [Ends -> [Threads -> Places]]
        /\ \A x \in Ends : x # e => pc'[x] = pc[x]
        /\ pc'[e]["owner"] = pc[e]["owner"] /\ pc'[e]["server"] = pc[e]["server"] /\ pc'[e]["in"] = pc[e]["in"]
    BY <1>6, <1>a, GoesEffect DEF PipeVarTypes, Threads, Places, Sent
  <2>2. PipeVarTypes'
    BY <1>6, <1>a, <2>1 DEF PipeVarTypes, Sent
  <2>3. \A x \in Ends \ {e} : EndOK(pc[x], hand[x], taken[x], inst[x])'
    BY <1>6, <1>a, <2>1 DEF PipeVarTypes, Sent
  <2>4. EndOK(pc[e], hand[e], taken[e], inst[e])'
    <3>1. /\ pc[e]["out"] = "wait" /\ taken'[e] = taken[e] /\ inst'[e] = inst[e]
          /\ \/ pc'[e]["out"] = "open" /\ hand'[e] = hand[e]
             \/ pc'[e]["out"] = "test" /\ hand'[e] = None
      BY <1>6, <1>a, GoesEffect DEF PipeVarTypes, At, Threads, Places, Sent
    <3>2. EndOK(pc[e], hand[e], taken[e], inst[e])
      BY <1>a
    <3> HIDE <1>6, <1>a
    <3> QED BY <2>1, <3>1, <3>2 DEF EndOK, Serving
  <2> QED BY <2>2, <2>3, <2>4 DEF PipeTypesInv
<1>7. ASSUME NEW e \in Ends, Create(e)
      PROVE  PipeTypesInv'
  <2> USE DEF Create, threadVars, queueVars, pipeVars, ghostVars
  <2>1. /\ pc' \in [Ends -> [Threads -> Places]]
        /\ \A x \in Ends : x # e => pc'[x] = pc[x]
        /\ pc'[e]["owner"] = pc[e]["owner"] /\ pc'[e]["out"] = pc[e]["out"] /\ pc'[e]["in"] = pc[e]["in"]
    BY <1>7, <1>a, GoesEffect DEF PipeVarTypes, Threads, Places
  <2>2. PipeVarTypes'
    BY <1>7, <1>a, <2>1 DEF PipeVarTypes
  <2>3. \A x \in Ends \ {e} : EndOK(pc[x], hand[x], taken[x], inst[x])'
    BY <1>7, <1>a, <2>1 DEF PipeVarTypes
  <2>4. EndOK(pc[e], hand[e], taken[e], inst[e])'
    <3>1. /\ pc[e]["server"] = "create" /\ hand'[e] = hand[e] /\ taken'[e] = taken[e]
          /\ \/ pc'[e]["server"] = "connect" /\ inst'[e] = Free
             \/ pc'[e]["server"] = "done" /\ inst'[e] = inst[e]
      BY <1>7, <1>a, GoesEffect DEF PipeVarTypes, At, Threads, Places
    <3>2. EndOK(pc[e], hand[e], taken[e], inst[e])
      BY <1>a
    <3> HIDE <1>7, <1>a
    <3> QED BY <2>1, <3>1, <3>2 DEF EndOK, Serving
  <2> QED BY <2>2, <2>3, <2>4 DEF PipeTypesInv
<1>8. ASSUME NEW e \in Ends, Connect(e)
      PROVE  PipeTypesInv'
  <2> USE DEF Connect, threadVars, queueVars, pipeVars, ghostVars
  <2>1. /\ pc' \in [Ends -> [Threads -> Places]]
        /\ \A x \in Ends : x # e => pc'[x] = pc[x]
        /\ pc'[e]["owner"] = pc[e]["owner"] /\ pc'[e]["out"] = pc[e]["out"] /\ pc'[e]["in"] = pc[e]["in"]
    BY <1>8, <1>a, GoesEffect DEF PipeVarTypes, Threads, Places
  <2>2. PipeVarTypes'
    BY <1>8, <1>a, <2>1 DEF PipeVarTypes
  <2>3. \A x \in Ends \ {e} : EndOK(pc[x], hand[x], taken[x], inst[x])'
    BY <1>8, <1>a, <2>1 DEF PipeVarTypes
  <2>4. EndOK(pc[e], hand[e], taken[e], inst[e])'
    <3>1. /\ pc[e]["server"] = "connect" /\ hand'[e] = hand[e] /\ taken'[e] = taken[e] /\ inst'[e] = inst[e]
          /\ \/ pc'[e]["server"] = "pending" /\ inst[e] = Free
             \/ pc'[e]["server"] = "connected" /\ inst[e] # Free
             \/ pc'[e]["server"] = "failed" /\ inst[e] # Free
      BY <1>8, <1>a, GoesEffect DEF PipeVarTypes, At, Threads, Places
    <3>2. EndOK(pc[e], hand[e], taken[e], inst[e])
      BY <1>a
    <3> HIDE <1>8, <1>a
    <3> QED BY <2>1, <3>1, <3>2 DEF EndOK, Serving
  <2> QED BY <2>2, <2>3, <2>4 DEF PipeTypesInv
<1>9. ASSUME NEW e \in Ends, Connected(e)
      PROVE  PipeTypesInv'
  <2> USE DEF Connected, threadVars, queueVars, pipeVars, ghostVars
  <2>1. /\ pc' \in [Ends -> [Threads -> Places]]
        /\ \A x \in Ends : x # e => pc'[x] = pc[x]
        /\ pc'[e]["owner"] = pc[e]["owner"] /\ pc'[e]["out"] = pc[e]["out"] /\ pc'[e]["in"] = pc[e]["in"]
    BY <1>9, <1>a, GoesEffect DEF PipeVarTypes, Threads, Places
  <2>2. PipeVarTypes'
    BY <1>9, <1>a, <2>1 DEF PipeVarTypes
  <2>3. \A x \in Ends \ {e} : EndOK(pc[x], hand[x], taken[x], inst[x])'
    BY <1>9, <1>a, <2>1 DEF PipeVarTypes
  <2>4. EndOK(pc[e], hand[e], taken[e], inst[e])'
    <3>1. /\ pc[e]["server"] = "pending" /\ hand'[e] = hand[e] /\ taken'[e] = taken[e] /\ inst'[e] = inst[e]
          /\ pc'[e]["server"] = "connected" /\ inst[e] # Free
      BY <1>9, <1>a, GoesEffect DEF PipeVarTypes, At, Threads, Places
    <3>2. EndOK(pc[e], hand[e], taken[e], inst[e])
      BY <1>a
    <3> HIDE <1>9, <1>a
    <3> QED BY <2>1, <3>1, <3>2 DEF EndOK, Serving
  <2> QED BY <2>2, <2>3, <2>4 DEF PipeTypesInv
<1>10. ASSUME NEW e \in Ends, HandOver(e)
      PROVE  PipeTypesInv'
  <2> USE DEF HandOver, threadVars, queueVars, pipeVars, ghostVars
  <2>a. At(e, "server", {"connected"}) => inst[e] \in Ids
    BY <1>10, <1>a DEF PipeVarTypes, EndOK, At, Serving
  <2>1. /\ pc' \in [Ends -> [Threads -> Places]]
        /\ \A x \in Ends : x # e => pc'[x] = pc[x]
        /\ pc'[e]["owner"] = pc[e]["owner"] /\ pc'[e]["out"] = pc[e]["out"] /\ pc'[e]["in"] = pc[e]["in"]
    BY <1>10, <1>a, GoesEffect DEF PipeVarTypes, Threads, Places
  <2>2. PipeVarTypes'
    <3>1. At(e, "server", {"connected"}) => [client |-> inst[e], next |-> "read"] \in [client : Ids, next : {"read", "close"}]
      BY <2>a
    <3>2. At(e, "server", {"connected", "failed"}) /\ ~ At(e, "server", {"failed"}) => At(e, "server", {"connected"})
      BY DEF At
    <3>3. handlers' \in [Ends -> SUBSET [client : Ids, next : {"read", "close"}]]
      BY <1>10, <1>a, <3>1, <3>2 DEF PipeVarTypes
    <3>4. overlap' \in [Ends -> BOOLEAN]
      <4> HIDE DEF HandOver
      <4> PICK busy \in BOOLEAN : overlap' = [overlap EXCEPT ![e] = busy]
        BY <1>10 DEF HandOver
      <4> QED BY <1>a DEF PipeVarTypes
    <3> QED BY <1>10, <1>a, <2>1, <3>3, <3>4 DEF PipeVarTypes
  <2>3. \A x \in Ends \ {e} : EndOK(pc[x], hand[x], taken[x], inst[x])'
    BY <1>10, <1>a, <2>1 DEF PipeVarTypes
  <2>4. EndOK(pc[e], hand[e], taken[e], inst[e])'
    <3>1. /\ pc[e]["server"] \in {"connected", "failed"} /\ hand'[e] = hand[e] /\ taken'[e] = taken[e]
          /\ pc'[e]["server"] = "test" /\ inst'[e] = None
      BY <1>10, <1>a, GoesEffect DEF PipeVarTypes, At, Threads, Places
    <3>2. EndOK(pc[e], hand[e], taken[e], inst[e])
      BY <1>a
    <3> HIDE <1>10, <1>a
    <3> QED BY <2>1, <3>1, <3>2 DEF EndOK, Serving
  <2> QED BY <2>2, <2>3, <2>4 DEF PipeTypesInv
<1>11. ASSUME NEW e \in Ends, End(e)
      PROVE  PipeTypesInv'
  <2> USE DEF End, threadVars, queueVars, pipeVars, ghostVars
  <2>1. /\ pc' \in [Ends -> [Threads -> Places]]
        /\ \A x \in Ends : x # e => pc'[x] = pc[x]
        /\ pc'[e]["out"] = pc[e]["out"] /\ pc'[e]["server"] = pc[e]["server"] /\ pc'[e]["in"] = pc[e]["in"]
    BY <1>11, <1>a, GoesEffect DEF PipeVarTypes, Threads, Places
  <2>2. PipeVarTypes'
    BY <1>11, <1>a, <2>1 DEF PipeVarTypes
  <2>3. \A x \in Ends \ {e} : EndOK(pc[x], hand[x], taken[x], inst[x])'
    BY <1>11, <1>a, <2>1 DEF PipeVarTypes
  <2>4. EndOK(pc[e], hand[e], taken[e], inst[e])'
    <3>1. /\ pc[e]["owner"] = "running" /\ hand'[e] = hand[e] /\ taken'[e] = taken[e] /\ inst'[e] = inst[e]
          /\ pc'[e]["owner"] = "cut in"
      BY <1>11, <1>a, GoesEffect DEF PipeVarTypes, At, Threads, Places
    <3>2. EndOK(pc[e], hand[e], taken[e], inst[e])
      BY <1>a
    <3> HIDE <1>11, <1>a
    <3> QED BY <2>1, <3>1, <3>2 DEF EndOK, Serving
  <2> QED BY <2>2, <2>3, <2>4 DEF PipeTypesInv
<1>12. ASSUME NEW e \in Ends, CutIn(e)
      PROVE  PipeTypesInv'
  <2> USE DEF CutIn, threadVars, queueVars, pipeVars, ghostVars
  <2>1. /\ pc' \in [Ends -> [Threads -> Places]]
        /\ \A x \in Ends : x # e => pc'[x] = pc[x]
        /\ pc'[e]["out"] = pc[e]["out"] /\ pc'[e]["server"] = pc[e]["server"] /\ pc'[e]["in"] = pc[e]["in"]
    BY <1>12, <1>a, GoesEffect DEF PipeVarTypes, Threads, Places
  <2>2. PipeVarTypes'
    BY <1>12, <1>a, <2>1 DEF PipeVarTypes
  <2>3. \A x \in Ends \ {e} : EndOK(pc[x], hand[x], taken[x], inst[x])'
    BY <1>12, <1>a, <2>1 DEF PipeVarTypes
  <2>4. EndOK(pc[e], hand[e], taken[e], inst[e])'
    <3>1. /\ pc[e]["owner"] = "cut in" /\ hand'[e] = hand[e] /\ taken'[e] = taken[e] /\ inst'[e] = inst[e]
          /\ pc'[e]["owner"] = "join in"
      BY <1>12, <1>a, GoesEffect DEF PipeVarTypes, At, Threads, Places
    <3>2. EndOK(pc[e], hand[e], taken[e], inst[e])
      BY <1>a
    <3> HIDE <1>12, <1>a
    <3> QED BY <2>1, <3>1, <3>2 DEF EndOK, Serving
  <2> QED BY <2>2, <2>3, <2>4 DEF PipeTypesInv
<1>13. ASSUME NEW e \in Ends, CutOut(e)
      PROVE  PipeTypesInv'
  <2> USE DEF CutOut, threadVars, queueVars, pipeVars, ghostVars
  <2>1. /\ pc' \in [Ends -> [Threads -> Places]]
        /\ \A x \in Ends : x # e => pc'[x] = pc[x]
        /\ pc'[e]["out"] = pc[e]["out"] /\ pc'[e]["server"] = pc[e]["server"] /\ pc'[e]["in"] = pc[e]["in"]
    BY <1>13, <1>a, GoesEffect DEF PipeVarTypes, Threads, Places
  <2>2. PipeVarTypes'
    BY <1>13, <1>a, <2>1 DEF PipeVarTypes
  <2>3. \A x \in Ends \ {e} : EndOK(pc[x], hand[x], taken[x], inst[x])'
    BY <1>13, <1>a, <2>1 DEF PipeVarTypes
  <2>4. EndOK(pc[e], hand[e], taken[e], inst[e])'
    <3>1. /\ pc[e]["owner"] = "join in" /\ hand'[e] = hand[e] /\ taken'[e] = taken[e] /\ inst'[e] = inst[e]
          /\ pc'[e]["owner"] = "join out"
      BY <1>13, <1>a, GoesEffect DEF PipeVarTypes, At, Threads, Places
    <3>2. EndOK(pc[e], hand[e], taken[e], inst[e])
      BY <1>a
    <3> HIDE <1>13, <1>a
    <3> QED BY <2>1, <3>1, <3>2 DEF EndOK, Serving
  <2> QED BY <2>2, <2>3, <2>4 DEF PipeTypesInv
<1>14. ASSUME NEW e \in Ends, Ended(e)
      PROVE  PipeTypesInv'
  <2> USE DEF Ended, threadVars, queueVars, pipeVars, ghostVars
  <2>1. /\ pc' \in [Ends -> [Threads -> Places]]
        /\ \A x \in Ends : x # e => pc'[x] = pc[x]
        /\ pc'[e]["out"] = pc[e]["out"] /\ pc'[e]["server"] = pc[e]["server"] /\ pc'[e]["in"] = pc[e]["in"]
    BY <1>14, <1>a, GoesEffect DEF PipeVarTypes, Threads, Places
  <2>2. PipeVarTypes'
    BY <1>14, <1>a, <2>1 DEF PipeVarTypes
  <2>3. \A x \in Ends \ {e} : EndOK(pc[x], hand[x], taken[x], inst[x])'
    BY <1>14, <1>a, <2>1 DEF PipeVarTypes
  <2>4. EndOK(pc[e], hand[e], taken[e], inst[e])'
    <3>1. /\ pc[e]["owner"] = "join server" /\ hand'[e] = hand[e] /\ taken'[e] = taken[e] /\ inst'[e] = inst[e]
          /\ pc'[e]["owner"] = "ended"
      BY <1>14, <1>a, GoesEffect DEF PipeVarTypes, At, Threads, Places
    <3>2. EndOK(pc[e], hand[e], taken[e], inst[e])
      BY <1>a
    <3> HIDE <1>14, <1>a
    <3> QED BY <2>1, <3>1, <3>2 DEF EndOK, Serving
  <2> QED BY <2>2, <2>3, <2>4 DEF PipeTypesInv
<1>15. ASSUME NEW e \in Ends, Open(e)
      PROVE  PipeTypesInv'
  <2> USE DEF Open, Sent, threadVars, queueVars, pipeVars, ghostVars
  <2> PICK p \in Ends : p = Peer(e) /\ p # e
    BY PeerIsOther
  <2>1. /\ pc' \in [Ends -> [Threads -> Places]]
        /\ \A x \in Ends : x # e => pc'[x] = pc[x]
        /\ pc'[e]["owner"] = pc[e]["owner"] /\ pc'[e]["server"] = pc[e]["server"] /\ pc'[e]["in"] = pc[e]["in"]
    BY <1>15, <1>a, GoesEffect DEF PipeVarTypes, Threads, Places
  <2>a. pc[e]["out"] = "open" /\ hand[e] \in Ids
    BY <1>15, <1>a DEF PipeVarTypes, EndOK, At
  <2>2. PipeVarTypes'
    BY <1>15, <1>a, <2>1, <2>a DEF PipeVarTypes
  <2>3. \A x \in Ends \ {e, p} : EndOK(pc[x], hand[x], taken[x], inst[x])'
    BY <1>15, <1>a, <2>1 DEF PipeVarTypes
  <2>4. EndOK(pc[p], hand[p], taken[p], inst[p])'
    <3>1. /\ pc'[p] = pc[p] /\ hand'[p] = hand[p] /\ taken'[p] = taken[p]
          /\ inst'[p] = inst[p] \/ (inst[p] = Free /\ inst'[p] \in Ids)
      BY <1>15, <1>a, <2>1, <2>a DEF PipeVarTypes
    <3>2. EndOK(pc[p], hand[p], taken[p], inst[p])
      BY <1>a
    <3> HIDE <1>15, <1>a
    <3> QED BY <3>1, <3>2 DEF EndOK, Serving
  <2>5. EndOK(pc[e], hand[e], taken[e], inst[e])'
    <3>1. /\ taken'[e] = taken[e] /\ inst'[e] = inst[e]
          /\ \/ pc'[e]["out"] \in {"write", "wait"} /\ hand'[e] = hand[e]
             \/ pc'[e]["out"] = "test" /\ hand'[e] = None
      <4>1. /\ Goes(e, "out", "write") => pc'[e]["out"] = "write"
            /\ Goes(e, "out", "wait") => pc'[e]["out"] = "wait"
            /\ Goes(e, "out", "test") => pc'[e]["out"] = "test"
        BY <1>a, GoesEffect DEF PipeVarTypes, Threads, Places
      <4>2. \/ Goes(e, "out", "write") /\ UNCHANGED hand
            \/ Goes(e, "out", "wait") /\ UNCHANGED hand
            \/ Goes(e, "out", "test") /\ hand' = [hand EXCEPT ![e] = None]
        BY <1>15
      <4>3. taken'[e] = taken[e] /\ inst'[e] = inst[e]
        BY <1>15, <1>a DEF PipeVarTypes
      <4>4. hand \in [Ends -> Ids \cup {None}]
        BY <1>a DEF PipeVarTypes
      <4> HIDE <1>15, <1>a DEF Open, Sent
      <4> QED BY <4>1, <4>2, <4>3, <4>4
    <3>2. EndOK(pc[e], hand[e], taken[e], inst[e])
      BY <1>a
    <3> HIDE <1>15, <1>a
    <3> QED BY <2>1, <2>a, <3>1, <3>2 DEF EndOK, Serving
  <2> QED BY <2>2, <2>3, <2>4, <2>5 DEF PipeTypesInv
<1>16. ASSUME NEW e \in Ends, Write(e)
      PROVE  PipeTypesInv'
  <2> USE DEF Write, Sent, threadVars, queueVars, pipeVars, ghostVars
  <2> PICK p \in Ends : p = Peer(e) /\ p # e
    BY PeerIsOther
  <2>1. /\ pc' \in [Ends -> [Threads -> Places]]
        /\ \A x \in Ends : x # e => pc'[x] = pc[x]
        /\ pc'[e]["owner"] = pc[e]["owner"] /\ pc'[e]["server"] = pc[e]["server"] /\ pc'[e]["in"] = pc[e]["in"]
    BY <1>16, <1>a, GoesEffect DEF PipeVarTypes, Threads, Places
  <2>a. pc[e]["out"] = "write" /\ hand[e] \in Ids
    BY <1>16, <1>a DEF PipeVarTypes, EndOK, At
  <2>2. PipeVarTypes'
    BY <1>16, <1>a, <2>1, <2>a DEF PipeVarTypes
  <2>3. \A x \in Ends \ {e} : EndOK(pc[x], hand[x], taken[x], inst[x])'
    BY <1>16, <1>a, <2>1 DEF PipeVarTypes
  <2>4. EndOK(pc[e], hand[e], taken[e], inst[e])'
    <3>1. /\ taken'[e] = taken[e] /\ inst'[e] = inst[e]
          /\ pc'[e]["out"] = "test" /\ hand'[e] = None
      BY <1>16, <1>a, GoesEffect, ZenonT(30) DEF PipeVarTypes, At, Threads, Places
    <3>2. EndOK(pc[e], hand[e], taken[e], inst[e])
      BY <1>a
    <3> HIDE <1>16, <1>a
    <3> QED BY <2>1, <2>a, <3>1, <3>2 DEF EndOK, Serving
  <2> QED BY <2>2, <2>3, <2>4 DEF PipeTypesInv
<1>17. ASSUME NEW e \in Ends, NEW h \in handlers[e], Read(e, h)
      PROVE  PipeTypesInv'
  <2> USE DEF Read, threadVars, ghostVars
  <2>1. h \in [client : Ids, next : {"read", "close"}] /\ h.client \in Ids
    BY <1>a DEF PipeVarTypes
  <2>2. [h EXCEPT !.next = "close"] \in [client : Ids, next : {"read", "close"}]
    BY <2>1
  <2>3. handlers' \in [Ends -> SUBSET [client : Ids, next : {"read", "close"}]]
    BY <1>17, <1>a, <2>2 DEF PipeVarTypes
  <2>4. inq' \in [Ends -> Seq(Texts)]
    <3> PICK u \in Texts : inq' = [inq EXCEPT ![e] = Append(@, u)]
      BY <1>17, <2>1 DEF Texts
    <3> QED BY <1>a, AppendProperties DEF PipeVarTypes
  <2> QED BY <1>17, <1>a, <2>3, <2>4 DEF PipeTypesInv, PipeVarTypes
<1>18. ASSUME NEW e \in Ends, NEW h \in handlers[e], CloseInstance(e, h)
      PROVE  PipeTypesInv'
  BY <1>18, <1>a DEF CloseInstance, PipeTypesInv, PipeVarTypes, threadVars, queueVars, ghostVars
<1>19. ASSUME NEW e \in Ends, Cancel(e)
      PROVE  PipeTypesInv'
  <2> USE DEF Cancel, threadVars, queueVars, pipeVars
  <2>1. /\ pc' \in [Ends -> [Threads -> Places]]
        /\ \A x \in Ends : x # e => pc'[x] = pc[x]
        /\ pc'[e]["owner"] = "join server" /\ pc'[e]["out"] = pc[e]["out"] /\ pc'[e]["in"] = pc[e]["in"]
        /\ \/ pc'[e]["server"] = pc[e]["server"]
           \/ pc[e]["server"] = "pending" /\ pc'[e]["server"] = "failed"
    <3>1. PICK q \in [Threads -> Places] : q = pc[e]
      BY <1>a DEF PipeVarTypes
    <3>2. PICK to \in Places :
            /\ pc' = [pc EXCEPT ![e] = [q EXCEPT !.owner = "join server", !.server = to]]
            /\ to = q["server"] \/ (q["server"] = "pending" /\ to = "failed")
      <4>1. q["server"] \in Places /\ "failed" \in Places
        BY <3>1 DEF Threads, Places
      <4> QED BY <1>19, <3>1, <4>1 DEF At
    <3>3. [q EXCEPT !.owner = "join server", !.server = to] \in [Threads -> Places]
      BY <3>1 DEF Places
    <3>4. PICK n \in [Threads -> Places] : n = [q EXCEPT !.owner = "join server", !.server = to]
      BY <3>3
    <3>5. /\ n["owner"] = "join server" /\ n["server"] = to /\ n["out"] = q["out"] /\ n["in"] = q["in"]
      BY <3>1, <3>4 DEF Threads
    <3>6. pc' = [pc EXCEPT ![e] = n]
      BY <3>2, <3>4
    <3>7. pc \in [Ends -> [Threads -> Places]]
      BY <1>a DEF PipeVarTypes
    <3>8. to = pc[e]["server"] \/ (pc[e]["server"] = "pending" /\ to = "failed")
      BY <3>1, <3>2
    <3>9. pc' \in [Ends -> [Threads -> Places]] /\ pc'[e] = n /\ \A x \in Ends : x # e => pc'[x] = pc[x]
      BY <3>6, <3>7
    <3> HIDE <1>19, <1>a, <3>2, <3>4, <3>6 DEF Cancel
    <3> QED BY <3>1, <3>5, <3>8, <3>9
  <2>2. PipeVarTypes'
    <3>1. At(e, "server", {"create", "connect"}) \in BOOLEAN
      BY DEF At
    <3>2. missed' \in [Ends -> BOOLEAN]
      BY <1>19, <1>a, <3>1, Zenon DEF PipeVarTypes
    <3> QED BY <1>19, <1>a, <2>1, <3>2 DEF PipeVarTypes
  <2>3. \A x \in Ends \ {e} : EndOK(pc[x], hand[x], taken[x], inst[x])'
    BY <1>19, <1>a, <2>1 DEF PipeVarTypes
  <2>4. EndOK(pc[e], hand[e], taken[e], inst[e])'
    <3>1. hand'[e] = hand[e] /\ taken'[e] = taken[e] /\ inst'[e] = inst[e]
      BY <1>19
    <3>2. EndOK(pc[e], hand[e], taken[e], inst[e])
      BY <1>a
    <3> HIDE <1>19, <1>a
    <3> QED BY <2>1, <3>1, <3>2 DEF EndOK, Serving
  <2> QED BY <2>2, <2>3, <2>4 DEF PipeTypesInv
<1>20. ASSUME NEW e \in Ends, Crash(e)
      PROVE  PipeTypesInv'
  <2> USE DEF Crash
  <2>1. /\ pc' \in [Ends -> [Threads -> Places]]
        /\ \A x \in Ends : x # e => pc'[x] = pc[x]
        /\ \A t \in Threads : pc'[e][t] = "crashed"
    BY <1>20, <1>a DEF PipeVarTypes, Places
  <2>2. PipeVarTypes'
    BY <1>20, <1>a, <2>1, EmptySeq DEF PipeVarTypes
  <2>3. \A x \in Ends \ {e} : EndOK(pc[x], hand[x], taken[x], inst[x])'
    BY <1>20, <1>a, <2>1 DEF PipeVarTypes
  <2>4. EndOK(pc[e], hand[e], taken[e], inst[e])'
    <3>1. hand'[e] = None /\ taken'[e] = None /\ inst'[e] = None
      BY <1>20, <1>a DEF PipeVarTypes
    <3> HIDE <1>20, <1>a
    <3> QED BY <2>1, <3>1 DEF EndOK, Serving, Threads
  <2> QED BY <2>2, <2>3, <2>4 DEF PipeTypesInv
<1>21. ASSUME NEW e \in Ends, SetModeFails(e)
      PROVE  PipeTypesInv'
  <2> USE DEF SetModeFails, Sent, threadVars, queueVars, pipeVars, ghostVars
  <2>1. /\ pc' \in [Ends -> [Threads -> Places]]
        /\ \A x \in Ends : x # e => pc'[x] = pc[x]
        /\ pc'[e]["owner"] = pc[e]["owner"] /\ pc'[e]["server"] = pc[e]["server"] /\ pc'[e]["in"] = pc[e]["in"]
    BY <1>21, <1>a, GoesEffect DEF PipeVarTypes, Threads, Places
  <2>2. PipeVarTypes'
    BY <1>21, <1>a, <2>1 DEF PipeVarTypes
  <2>3. \A x \in Ends \ {e} : EndOK(pc[x], hand[x], taken[x], inst[x])'
    BY <1>21, <1>a, <2>1 DEF PipeVarTypes
  <2>4. EndOK(pc[e], hand[e], taken[e], inst[e])'
    <3>1. /\ taken'[e] = taken[e] /\ inst'[e] = inst[e]
          /\ pc'[e]["out"] = "test" /\ hand'[e] = None
      BY <1>21, <1>a, GoesEffect, ZenonT(30) DEF PipeVarTypes, At, Threads, Places
    <3>2. EndOK(pc[e], hand[e], taken[e], inst[e])
      BY <1>a
    <3> HIDE <1>21, <1>a
    <3> QED BY <2>1, <3>1, <3>2 DEF EndOK, Serving
  <2> QED BY <2>2, <2>3, <2>4 DEF PipeTypesInv
<1>22. CASE UNCHANGED vars
  BY <1>22, <1>a DEF vars, threadVars, queueVars, pipeVars, ghostVars, PipeTypesInv, PipeVarTypes
<1> QED
  BY <1>1, <1>2, <1>3, <1>4, <1>5, <1>6, <1>7, <1>8, <1>9, <1>10, <1>11, <1>12, <1>13, <1>14, <1>15, <1>16,
     <1>17, <1>18, <1>19, <1>20, <1>21, <1>22
     DEF PipeNext, OutThread, InThread, Server, Handler, Ending, Owner

\* Every value keeps to its type, and the places of the threads agree with what
\* they hold: a message, what is handed to the callback, an instance of the pipe.
THEOREM PipeTypesCorrect == PipeSpec => []PipeTypesOK
<1>1. PipeSpec => []PipeTypesInv
  BY PipeTypesInit, PipeTypesStep, PTL DEF PipeSpec
<1> QED BY <1>1, PipeTypesImplied, PTL

(***************************************************************************)
(* Where the messages of a direction are.  A receiver e has the messages   *)
(* that have arrived in its queue or beyond, the clients of its handlers   *)
(* and of the instance its server waits with, and those that have written. *)
(***************************************************************************)
ReadingClients(e) == {h.client : h \in {g \in handlers[e] : g.next = "read"}}
Arrived(e) == InQueue(got[e]) \cup InQueue(inq[e]) \cup ({taken[e]} \cap Ids)
Visited(e) == Clients(e) \cup written[e] \cup ({inst[e]} \cap Ids)

Increasing(q) == \A i, j \in 1..Len(q) : (i < j /\ q[i] \in Ids /\ q[j] \in Ids) => q[i] < q[j]
Differing(q) == \A i, j \in 1..Len(q) : (i < j /\ q[i] \in Ids /\ q[j] \in Ids) => q[i] # q[j]

\* What has been sent (s), is queued (q) and in the hand (h) of an out thread at
\* a place (at), and what has visited (v) and arrived (a) at the other end, where
\* the clients of the handlers (c), those that wrote (w) and the instance (i) are.
Numbered(s, q, h, at, v, a, c, w, i) ==
    /\ \A n \in 1..Len(s) : s[n] \in {n, EmptyText}
    /\ Increasing(q)
    /\ \A m \in InQueue(q) : m <= Len(s) /\ (h \in Ids => h < m) /\ \A x \in a \cup v : x < m
    /\ h \in Ids => h <= Len(s) /\ h \notin a \cup w /\ \A x \in a \cup v : x <= h
    /\ h \in Ids /\ at \in {"open", "wait"} => h \notin c \cup {i}
    /\ \A x \in a \cup v : x <= Len(s)
    /\ i \in Ids => i \notin a \cup c

\* No message is twice on its way from a handler to the callback: the clients that
\* are read (r), the queue (q), what was taken from it (k).
NeverTwice(r, a, q, k) ==
    /\ r \cap a = {}
    /\ Differing(q) /\ k \notin InQueue(q)

\* With one handler (of hs) at a time all is in order.
Ordered(hs, r, i, a, g, k, q) ==
    /\ \A f, h \in hs : f.next = "read" /\ h.next = "read" => f = h
    /\ Increasing(g) /\ Increasing(q)
    /\ k \in Ids => \A x \in InQueue(g) : x < k
    /\ \A x \in InQueue(g) \cup ({k} \cap Ids), y \in InQueue(q) : x < y
    /\ \A x \in a, y \in r : x < y
    /\ i \in Ids => \A x \in a \cup r : x < i

NumberedAt(e) ==
    LET p == Peer(e)
    IN  Numbered(sent[p], outq[p], hand[p], pc[p]["out"], Visited(e), Arrived(e), Clients(e), written[e], inst[e])
NeverTwiceAt(e) == NeverTwice(ReadingClients(e), Arrived(e), inq[e], taken[e])
OrderedAt(e) == Ordered(handlers[e], ReadingClients(e), inst[e], Arrived(e), got[e], taken[e], inq[e])

PipeInv ==
    /\ PipeTypesInv
    /\ \A e \in Ends : NumberedAt(e) /\ NeverTwiceAt(e) /\ (~overlap[e] => OrderedAt(e))

\* Messages are natural numbers.
LEMMA IdsNat == \A m \in Ids : m \in Nat
  BY PipeAssumption DEF Ids

\* A message at the end of a queue.
LEMMA AppendQueue ==
    ASSUME NEW S, NEW q \in Seq(S), NEW m
    PROVE  /\ Append(q, m) \in Seq(S \cup {m})
           /\ InQueue(Append(q, m)) = InQueue(q) \cup ({m} \cap Ids)
           /\ Increasing(q) /\ (m \in Ids => \A x \in InQueue(q) : x < m) => Increasing(Append(q, m))
           /\ Differing(q) /\ m \notin InQueue(q) => Differing(Append(q, m))
<1>0. PICK n \in Nat : n = Len(q)
  OBVIOUS
<1>1. PICK r \in Seq(S \cup {m}) : r = Append(q, m)
  <2>1. q \in Seq(S \cup {m})
    BY SeqMonotonic, S \subseteq S \cup {m}
  <2> QED BY <2>1, AppendProperties
<1>2. Len(r) = n + 1 /\ r[n + 1] = m /\ \A i \in 1..n : r[i] = q[i]
  BY <1>0, <1>1, AppendProperties
<1>3. InQueue(r) = InQueue(q) \cup ({m} \cap Ids)
  BY <1>0, <1>2 DEF InQueue
<1>4. Increasing(q) /\ (m \in Ids => \A x \in InQueue(q) : x < m) => Increasing(r)
  BY <1>0, <1>2 DEF InQueue, Increasing
<1>5. Differing(q) /\ m \notin InQueue(q) => Differing(r)
  BY <1>0, <1>2 DEF InQueue, Differing
<1> QED BY <1>1, <1>3, <1>4, <1>5

\* A message taken from the front of a queue.
LEMMA TakeFirst ==
    ASSUME NEW S, NEW q \in Seq(S), q # <<>>
    PROVE  /\ Tail(q) \in Seq(S) /\ Head(q) \in S
           /\ InQueue(q) = InQueue(Tail(q)) \cup ({Head(q)} \cap Ids)
           /\ Increasing(q) => Increasing(Tail(q)) /\ (Head(q) \in Ids => \A x \in InQueue(Tail(q)) : Head(q) < x)
           /\ Differing(q) => Differing(Tail(q)) /\ Head(q) \notin InQueue(Tail(q))
<1>0. PICK n \in Nat : n + 1 = Len(q)
  <2> PICK l \in Nat : l = Len(q)
    OBVIOUS
  <2>1. l # 0
    BY EmptySeq
  <2> QED BY <2>1
<1>1. PICK r \in Seq(S) : r = Tail(q)
  BY HeadTailProperties
<1>2. Len(r) = n /\ Head(q) = q[1] /\ q[1] \in S /\ \A i \in 1..n : r[i] = q[i + 1]
  BY <1>0, <1>1, HeadTailProperties
<1>3. InQueue(q) = InQueue(r) \cup ({q[1]} \cap Ids)
  <2>1. \A i \in 1..(n + 1) : i = 1 \/ (i - 1 \in 1..n /\ q[i] = r[i - 1])
    BY <1>2
  <2>2. \A i \in 1..n : i + 1 \in 1..(n + 1)
    OBVIOUS
  <2> QED BY <1>0, <1>2, <2>1, <2>2 DEF InQueue
<1>4. Increasing(q) => Increasing(r) /\ (q[1] \in Ids => \A x \in InQueue(r) : q[1] < x)
  <2>1. ASSUME Increasing(q) PROVE Increasing(r)
    BY <1>0, <1>2, <2>1 DEF Increasing
  <2>2. ASSUME Increasing(q), q[1] \in Ids, NEW x \in InQueue(r) PROVE q[1] < x
    <3> PICK i \in 1..n : r[i] = x /\ x \in Ids
      BY <1>2 DEF InQueue
    <3>1. q[i + 1] = x /\ 1 < i + 1 /\ 1 \in 1..(n + 1) /\ i + 1 \in 1..(n + 1)
      BY <1>2
    <3> QED BY <1>0, <2>2, <3>1 DEF Increasing
  <2> QED BY <2>1, <2>2
<1>5. Differing(q) => Differing(r) /\ q[1] \notin InQueue(r)
  <2>1. ASSUME Differing(q) PROVE Differing(r)
    BY <1>0, <1>2, <2>1 DEF Differing
  <2>2. ASSUME Differing(q), q[1] \in InQueue(r) PROVE FALSE
    <3> PICK i \in 1..n : r[i] = q[1] /\ q[1] \in Ids
      BY <1>2, <2>2 DEF InQueue
    <3>1. q[i + 1] = q[1] /\ 1 < i + 1 /\ 1 \in 1..(n + 1) /\ i + 1 \in 1..(n + 1)
      BY <1>2
    <3> QED BY <1>0, <2>2, <3>1 DEF Differing
  <2> QED BY <2>1, <2>2
<1> QED BY <1>1, <1>2, <1>3, <1>4, <1>5

PairInv(e) == NumberedAt(e) /\ NeverTwiceAt(e) /\ (~overlap[e] => OrderedAt(e))

\* What a step leaves alone: the receiving side of an end, its sending side.
ReceiverRests(e) ==
    /\ got'[e] = got[e] /\ inq'[e] = inq[e] /\ taken'[e] = taken[e]
    /\ handlers'[e] = handlers[e] /\ written'[e] = written[e] /\ inst'[e] = inst[e]
    /\ overlap'[e] = overlap[e]
SenderRests(e) ==
    /\ sent'[e] = sent[e] /\ outq'[e] = outq[e] /\ hand'[e] = hand[e]
    /\ pc'[e]["out"] = pc[e]["out"]

\* With the receiver at rest its messages are where they were.
LEMMA ReceiverFrame ==
    ASSUME NEW e \in Ends, ReceiverRests(e)
    PROVE  /\ Arrived(e)' = Arrived(e) /\ Visited(e)' = Visited(e)
           /\ ReadingClients(e)' = ReadingClients(e) /\ Clients(e)' = Clients(e)
           /\ NeverTwiceAt(e) => NeverTwiceAt(e)'
           /\ OrderedAt(e) => OrderedAt(e)'
<1>1. /\ Arrived(e)' = Arrived(e) /\ Visited(e)' = Visited(e)
      /\ ReadingClients(e)' = ReadingClients(e) /\ Clients(e)' = Clients(e)
  BY DEF ReceiverRests, Arrived, Visited, ReadingClients, Clients
<1>2. NeverTwiceAt(e) => NeverTwiceAt(e)'
  BY <1>1 DEF NeverTwiceAt, ReceiverRests
<1>3. OrderedAt(e) => OrderedAt(e)'
  BY <1>1 DEF OrderedAt, ReceiverRests
<1> QED BY <1>1, <1>2, <1>3

\* With both at rest all stays as it is.
LEMMA PairFrame ==
    ASSUME NEW e \in Ends, ReceiverRests(e), SenderRests(Peer(e)), PairInv(e)
    PROVE  PairInv(e)'
<1> PICK p \in Ends : p = Peer(e)
  BY PeerIsOther
<1>1. NumberedAt(e)'
  <2>1. Numbered(sent[p], outq[p], hand[p], pc[p]["out"], Visited(e), Arrived(e), Clients(e), written[e], inst[e])
    BY DEF PairInv, NumberedAt
  <2>2. Numbered(sent'[p], outq'[p], hand'[p], pc'[p]["out"], Visited(e)', Arrived(e)', Clients(e)', written'[e], inst'[e])
    BY <2>1, ReceiverFrame DEF SenderRests, ReceiverRests
  <2>3. Peer(e)' = Peer(e)
    BY DEF Peer
  <2> QED BY <2>2, <2>3 DEF NumberedAt
<1> QED BY <1>1, ReceiverFrame DEF PairInv, ReceiverRests

\* A message is sent: its number is above all others.
LEMMA NumberedSend ==
    ASSUME NEW s \in Seq(Ids \cup {EmptyText}), NEW q \in Seq(Ids \cup {EmptyText}), NEW h, NEW at,
           NEW v \in SUBSET Ids, NEW a \in SUBSET Ids, NEW c, NEW w, NEW i, NEW m \in {Len(s) + 1, EmptyText},
           Numbered(s, q, h, at, v, a, c, w, i)
    PROVE  Numbered(Append(s, m), Append(q, m), h, at, v, a, c, w, i)
<1>0. PICK n \in Nat : n = Len(s)
  OBVIOUS
<1>a. m \in {n + 1, EmptyText} /\ \A x \in Ids : x \in Nat
  BY <1>0, IdsNat
<1>1. /\ Len(Append(s, m)) = n + 1 /\ Append(s, m)[n + 1] = m
      /\ \A k \in 1..n : Append(s, m)[k] = s[k]
  BY <1>0, AppendProperties
<1>2. PICK r : r = Append(s, m)
  OBVIOUS
<1>3. PICK u : u = Append(q, m)
  OBVIOUS
<1>4. \A k \in 1..Len(r) : r[k] \in {k, EmptyText}
  <2>1. \A k \in 1..(n + 1) : k \in 1..n \/ k = n + 1
    OBVIOUS
  <2> QED BY <1>0, <1>a, <1>1, <1>2, <2>1 DEF Numbered
<1>5. InQueue(u) = InQueue(q) \cup ({m} \cap Ids)
  BY <1>3, AppendQueue
<1>6. \A x \in InQueue(q) : x <= n /\ x \in Ids
  BY <1>0 DEF Numbered, InQueue
<1>7. Increasing(u)
  <2>1. m \in Ids => \A x \in InQueue(q) : x < m
    <3> SUFFICES ASSUME m \in Ids, NEW x \in InQueue(q) PROVE x < m
      OBVIOUS
    <3>1. m = n + 1
      BY <1>a, Markers
    <3>2. x <= n /\ x \in Nat
      BY <1>6, <1>a
    <3> QED BY <3>1, <3>2
  <2> QED BY <1>3, <2>1, AppendQueue DEF Numbered
<1>8. \A x \in a \cup v : x <= n /\ x \in Nat
  BY <1>0, <1>a DEF Numbered
<1>9. h \in Ids => h <= n /\ h \in Nat
  BY <1>0, <1>a DEF Numbered
<1>10. \A x \in InQueue(u) : x <= n + 1 /\ (h \in Ids => h < x) /\ \A y \in a \cup v : y < x
  <2>1. ASSUME NEW x \in InQueue(q) PROVE x <= n + 1 /\ (h \in Ids => h < x) /\ \A y \in a \cup v : y < x
    BY <1>6, <1>a DEF Numbered
  <2>2. ASSUME m \in Ids PROVE m <= n + 1 /\ (h \in Ids => h < m) /\ \A y \in a \cup v : y < m
    BY <1>a, <1>8, <1>9, <2>2, Markers
  <2> QED BY <1>5, <2>1, <2>2
<1>11. /\ h \in Ids => h <= n + 1
       /\ \A x \in a \cup v : x <= n + 1
  BY <1>8, <1>9
<1>12. Numbered(r, u, h, at, v, a, c, w, i)
  <2>1. Len(r) = n + 1
    BY <1>1, <1>2
  <2>2. /\ h \in Ids => h \notin a \cup w /\ \A x \in a \cup v : x <= h
        /\ h \in Ids /\ at \in {"open", "wait"} => h \notin c \cup {i}
        /\ i \in Ids => i \notin a \cup c
    BY DEF Numbered
  <2> QED BY <1>4, <1>7, <1>10, <1>11, <2>1, <2>2 DEF Numbered
<1> QED BY <1>2, <1>3, <1>12

\* A message is taken from the queue; it is above all that were sent before.
LEMMA NumberedPop ==
    ASSUME NEW s \in Seq(Ids \cup {EmptyText}), NEW q \in Seq(Ids \cup {EmptyText}), NEW h, NEW at, NEW to,
           NEW v \in SUBSET Ids, NEW a \in SUBSET Ids, NEW c \in SUBSET v, NEW w \in SUBSET v, NEW i,
           i \in Ids => i \in v, h \notin Ids, q # <<>>,
           Numbered(s, q, h, at, v, a, c, w, i)
    PROVE  /\ Numbered(s, Tail(q), Head(q), to, v, a, c, w, i)
           /\ Numbered(s, Tail(q), h, to, v, a, c, w, i)
<1>0. PICK n \in Nat : n = Len(s)
  OBVIOUS
<1>a. \A x \in Ids : x \in Nat
  BY IdsNat
<1>1. PICK m : m = Head(q)
  OBVIOUS
<1>2. PICK u : u = Tail(q)
  OBVIOUS
<1>3. /\ InQueue(q) = InQueue(u) \cup ({m} \cap Ids)
      /\ Increasing(u) /\ (m \in Ids => \A x \in InQueue(u) : m < x)
  BY <1>1, <1>2, TakeFirst DEF Numbered
<1>4. \A x \in InQueue(q) : x <= n /\ \A y \in a \cup v : y < x
  BY <1>0 DEF Numbered
<1>5. /\ \A k \in 1..Len(s) : s[k] \in {k, EmptyText}
      /\ \A x \in a \cup v : x <= Len(s)
      /\ i \in Ids => i \notin a \cup c
  BY DEF Numbered
<1>6. m \in Ids => /\ m <= n /\ m \notin a \cup w /\ m \notin c \cup {i}
                   /\ \A x \in a \cup v : x <= m
  <2> SUFFICES ASSUME m \in Ids PROVE /\ m <= n /\ m \notin a \cup v
                                      /\ \A x \in a \cup v : x <= m
    OBVIOUS
  <2>1. m <= n /\ \A y \in a \cup v : y < m
    BY <1>3, <1>4
  <2>2. m \in Nat /\ \A y \in a \cup v : y \in Nat
    BY <1>a
  <2> QED BY <2>1, <2>2
<1>7. Numbered(s, u, m, to, v, a, c, w, i)
  BY <1>0, <1>3, <1>4, <1>5, <1>6 DEF Numbered
<1>8. Numbered(s, u, h, to, v, a, c, w, i)
  BY <1>0, <1>3, <1>4, <1>5 DEF Numbered
<1> QED BY <1>1, <1>2, <1>7, <1>8

\* Without a message in the hand the place of the thread says nothing.
LEMMA NumberedDrop ==
    ASSUME NEW s, NEW q, NEW h, NEW k, NEW at, NEW to, NEW v, NEW a, NEW c, NEW w, NEW i,
           k \notin Ids, Numbered(s, q, h, at, v, a, c, w, i)
    PROVE  Numbered(s, q, k, to, v, a, c, w, i)
  BY DEF Numbered

\* The message becomes the client of the instance.
LEMMA NumberedOpen ==
    ASSUME NEW s, NEW q, NEW h \in Ids, NEW at \in {"open", "wait"}, NEW v, NEW u \in SUBSET (v \cup {h}),
           NEW a, NEW c, NEW w, NEW i, Len(s) \in Nat,
           Numbered(s, q, h, at, v, a, c, w, i)
    PROVE  Numbered(s, q, h, "write", u, a, c, w, h)
<1>1. h <= h /\ h \in Nat
  BY IdsNat
<1> QED BY <1>1 DEF Numbered

\* The message is written, or is not.
LEMMA NumberedWrite ==
    ASSUME NEW s, NEW q, NEW h \in Ids, NEW at, NEW to, NEW v, NEW u \in SUBSET (v \cup {h}),
           NEW a, NEW c, NEW w, NEW z, NEW i, NEW k, k \notin Ids,
           Numbered(s, q, h, at, v, a, c, w, i)
    PROVE  Numbered(s, q, k, to, u, a, c, z, i)
  BY DEF Numbered

\* What is at the receiver moves on, or is lost.
LEMMA NumberedLess ==
    ASSUME NEW s, NEW q, NEW h, NEW at, NEW v, NEW a, NEW c, NEW w, NEW i,
           NEW vv, NEW aa, NEW cc, NEW ww, NEW ii,
           aa \cup vv \subseteq a \cup v, aa \cup ww \subseteq a \cup w,
           (cc \cup {ii}) \cap Ids \subseteq c \cup {i}, ii \in Ids => ii \notin aa \cup cc,
           Numbered(s, q, h, at, v, a, c, w, i)
    PROVE  Numbered(s, q, h, at, vv, aa, cc, ww, ii)
  BY DEF Numbered

\* A handler queues what its client wrote, m.
LEMMA ArrivesOnce ==
    ASSUME NEW r, NEW a, NEW q \in Seq(Texts), NEW k, NEW m, NEW rr, NEW aa,
           rr \subseteq r, m \notin rr, aa = a \cup ({m} \cap Ids), m \in Ids => m \notin a,
           InQueue(q) \subseteq a, k \in Ids => k \in a, NeverTwice(r, a, q, k)
    PROVE  NeverTwice(rr, aa, Append(q, m), k)
<1>1. m \notin InQueue(q)
  BY DEF InQueue
<1>2. PICK u : u = Append(q, m)
  OBVIOUS
<1>3. InQueue(u) = InQueue(q) \cup ({m} \cap Ids) /\ Differing(u)
  BY <1>1, <1>2, AppendQueue DEF NeverTwice
<1>4. k \notin InQueue(u)
  BY <1>3 DEF NeverTwice, InQueue
<1>5. rr \cap aa = {}
  BY DEF NeverTwice
<1> QED BY <1>2, <1>3, <1>4, <1>5 DEF NeverTwice

\* The same, in order.
LEMMA ArrivesInOrder ==
    ASSUME NEW hs, NEW ht, NEW r \in SUBSET Ids, NEW i, NEW a \in SUBSET Ids, NEW g, NEW k, NEW q \in Seq(Texts), NEW m,
           NEW rr, NEW aa, rr = {}, aa = a \cup ({m} \cap Ids), m \in Ids => m \in r,
           \A f \in ht : f.next = "read" => f \in hs,
           InQueue(q) \subseteq a, InQueue(g) \subseteq a, k \in Ids => k \in a, Ordered(hs, r, i, a, g, k, q)
    PROVE  Ordered(ht, rr, i, aa, g, k, Append(q, m))
<1>1. m \in Ids => \A x \in a : x < m
  BY DEF Ordered
<1>2. PICK u : u = Append(q, m)
  OBVIOUS
<1>3. InQueue(u) = InQueue(q) \cup ({m} \cap Ids) /\ Increasing(u)
  BY <1>1, <1>2, AppendQueue DEF Ordered
<1>4. \A x \in InQueue(g) \cup ({k} \cap Ids), y \in InQueue(u) : x < y
  BY <1>1, <1>3 DEF Ordered
<1>5. i \in Ids => \A x \in aa \cup rr : x < i
  BY DEF Ordered
<1> QED BY <1>2, <1>3, <1>4, <1>5 DEF Ordered

\* The thread takes the first message from the queue.
LEMMA TakenOnce ==
    ASSUME NEW r, NEW a, NEW q \in Seq(Texts), q # <<>>, NEW k, NeverTwice(r, a, q, k)
    PROVE  NeverTwice(r, a, Tail(q), Head(q))
<1>1. PICK u : u = Tail(q)
  OBVIOUS
<1>2. PICK m : m = Head(q)
  OBVIOUS
<1>3. Differing(u) /\ m \notin InQueue(u)
  BY <1>1, <1>2, TakeFirst DEF NeverTwice
<1> QED BY <1>1, <1>2, <1>3 DEF NeverTwice

\* The same, in order.
LEMMA TakenInOrder ==
    ASSUME NEW hs, NEW r, NEW i, NEW a, NEW g, NEW k, NEW q \in Seq(Texts), q # <<>>, k \notin Ids,
           Ordered(hs, r, i, a, g, k, q)
    PROVE  Ordered(hs, r, i, a, g, Head(q), Tail(q))
<1>1. PICK u : u = Tail(q)
  OBVIOUS
<1>2. PICK m : m = Head(q)
  OBVIOUS
<1>3. /\ InQueue(q) = InQueue(u) \cup ({m} \cap Ids)
      /\ Increasing(u) /\ (m \in Ids => \A x \in InQueue(u) : m < x)
  BY <1>1, <1>2, TakeFirst DEF Ordered
<1>4. \A x \in InQueue(g), y \in InQueue(q) : x < y
  BY DEF Ordered
<1>5. \A x \in InQueue(g) \cup ({m} \cap Ids), y \in InQueue(u) : x < y
  BY <1>3, <1>4
<1>6. m \in Ids => \A x \in InQueue(g) : x < m
  BY <1>3, <1>4
<1> QED BY <1>1, <1>2, <1>3, <1>5, <1>6 DEF Ordered

\* The callback is called with it.
LEMMA GivenInOrder ==
    ASSUME NEW hs, NEW r, NEW i, NEW a, NEW g \in Seq(Texts), NEW k, NEW z, z \notin Ids, NEW q,
           Ordered(hs, r, i, a, g, k, q)
    PROVE  Ordered(hs, r, i, a, Append(g, k), z, q)
<1>1. PICK u : u = Append(g, k)
  OBVIOUS
<1>2. InQueue(u) = InQueue(g) \cup ({k} \cap Ids) /\ Increasing(u)
  BY <1>1, AppendQueue DEF Ordered
<1> QED BY <1>1, <1>2 DEF Ordered

\* All of these are messages.
LEMMA SetsOfIds ==
    ASSUME PipeVarTypes, NEW e \in Ends
    PROVE  /\ Arrived(e) \in SUBSET Ids /\ Visited(e) \in SUBSET Ids
           /\ Clients(e) \in SUBSET Visited(e) /\ written[e] \in SUBSET Visited(e)
           /\ ReadingClients(e) \in SUBSET Clients(e)
           /\ inst[e] \in Ids => inst[e] \in Visited(e)
           /\ InQueue(got[e]) \subseteq Arrived(e) /\ InQueue(inq[e]) \subseteq Arrived(e)
           /\ taken[e] \in Ids => taken[e] \in Arrived(e)
<1>1. Clients(e) \subseteq Ids
  BY DEF PipeVarTypes, Clients
<1>2. ReadingClients(e) \subseteq Clients(e)
  BY DEF ReadingClients, Clients
<1>3. written[e] \subseteq Ids
  BY DEF PipeVarTypes
<1> QED BY <1>1, <1>2, <1>3 DEF Arrived, Visited, InQueue

\* A step of the owner or the out thread of e, seen from the other end.
LEMMA SendStep ==
    ASSUME PipeVarTypes, NEW e \in Ends, NEW m \in Ids \cup {EmptyText}, SendText(e, m),
           PairInv(e), PairInv(Peer(e))
    PROVE  PairInv(e)' /\ PairInv(Peer(e))'
<1> USE DEF SendText, threadVars, pipeVars
<1> PICK p \in Ends : p = Peer(e) /\ p # e /\ Peer(p) = e
  BY PeerIsOther
<1>1. PairInv(e)'
  <2>1. ReceiverRests(e) /\ SenderRests(p)
    BY DEF ReceiverRests, SenderRests, PipeVarTypes
  <2> QED BY <2>1, PairFrame
<1>2. PairInv(p)'
  <2>1. ReceiverRests(p)
    BY DEF ReceiverRests
  <2>2. /\ sent'[e] = Append(sent[e], m) /\ outq'[e] = Append(outq[e], m)
        /\ hand'[e] = hand[e] /\ pc'[e]["out"] = pc[e]["out"] /\ m \in {Len(sent[e]) + 1, EmptyText}
        /\ sent[e] \in Seq(Ids \cup {EmptyText}) /\ outq[e] \in Seq(Ids \cup {EmptyText})
    BY DEF PipeVarTypes
  <2>3. Numbered(sent[e], outq[e], hand[e], pc[e]["out"], Visited(p), Arrived(p), Clients(p), written[p], inst[p])
    BY DEF PairInv, NumberedAt
  <2>4. Arrived(p) \in SUBSET Ids /\ Visited(p) \in SUBSET Ids
    BY SetsOfIds
  <2>5. Numbered(sent'[e], outq'[e], hand[e], pc[e]["out"], Visited(p), Arrived(p), Clients(p), written[p], inst[p])
    <3> PICK s \in Seq(Ids \cup {EmptyText}) : s = sent[e]
      BY <2>2
    <3> PICK q \in Seq(Ids \cup {EmptyText}) : q = outq[e]
      BY <2>2
    <3> PICK v \in SUBSET Ids : v = Visited(p)
      BY <2>4
    <3> PICK a \in SUBSET Ids : a = Arrived(p)
      BY <2>4
    <3>1. Numbered(s, q, hand[e], pc[e]["out"], v, a, Clients(p), written[p], inst[p])
      BY <2>3
    <3>2. m \in {Len(s) + 1, EmptyText}
      BY <2>2
    <3>3. Numbered(Append(s, m), Append(q, m), hand[e], pc[e]["out"], v, a, Clients(p), written[p], inst[p])
      BY <3>1, <3>2, NumberedSend
    <3> QED BY <2>2, <3>3
  <2>6. NumberedAt(p)'
    <3>1. Peer(p)' = e
      BY DEF Peer
    <3>2. Numbered(sent'[e], outq'[e], hand'[e], pc'[e]["out"], Visited(p)', Arrived(p)', Clients(p)', written'[p], inst'[p])
      BY <2>1, <2>2, <2>5, ReceiverFrame DEF ReceiverRests
    <3> QED BY <3>1, <3>2 DEF NumberedAt
  <2> QED BY <2>1, <2>6, ReceiverFrame DEF PairInv, ReceiverRests
<1> QED BY <1>1, <1>2

\* A step after which the receiver is at rest and the sender's messages are numbered.
LEMMA NumberedFrame ==
    ASSUME NEW e \in Ends, NEW p \in Ends, p = Peer(e), ReceiverRests(e), PairInv(e),
           Numbered(sent'[p], outq'[p], hand'[p], pc'[p]["out"], Visited(e), Arrived(e), Clients(e), written[e], inst[e])
    PROVE  PairInv(e)'
<1>1. Peer(e)' = p
  BY DEF Peer
<1>2. Numbered(sent'[p], outq'[p], hand'[p], pc'[p]["out"], Visited(e)', Arrived(e)', Clients(e)', written'[e], inst'[e])
  BY ReceiverFrame DEF ReceiverRests
<1> QED BY <1>1, <1>2, ReceiverFrame DEF PairInv, NumberedAt, ReceiverRests

\* A step of the out thread of e, which takes, sends or loses a message.
LEMMA OutStep ==
    ASSUME PipeTypesInv, NEW e \in Ends, OutThread(e), PairInv(e), PairInv(Peer(e))
    PROVE  PairInv(e)' /\ PairInv(Peer(e))'
<1> USE Markers
<1> PICK p \in Ends : p = Peer(e) /\ p # e /\ Peer(p) = e
  BY PeerIsOther
<1>a. PipeVarTypes /\ EndOK(pc[e], hand[e], taken[e], inst[e])
  BY DEF PipeTypesInv
<1>b. Numbered(sent[e], outq[e], hand[e], pc[e]["out"], Visited(p), Arrived(p), Clients(p), written[p], inst[p])
  BY DEF PairInv, NumberedAt
<1>c. /\ Arrived(p) \in SUBSET Ids /\ Visited(p) \in SUBSET Ids
      /\ Clients(p) \in SUBSET Visited(p) /\ written[p] \in SUBSET Visited(p)
      /\ inst[p] \in Ids => inst[p] \in Visited(p)
  BY <1>a, SetsOfIds
<1>d. /\ sent[e] \in Seq(Ids \cup {EmptyText}) /\ outq[e] \in Seq(Ids \cup {EmptyText})
      /\ pc \in [Ends -> [Threads -> Places]] /\ hand \in [Ends -> Ids \cup {None}]
      /\ outq \in [Ends -> Seq(Ids \cup {EmptyText})]
  BY <1>a DEF PipeVarTypes
<1>1. CASE Test(e, "out")
  <2> USE DEF Test, threadVars, queueVars, pipeVars, ghostVars
  <2>1. ReceiverRests(p) /\ ReceiverRests(e) /\ SenderRests(p) /\ PairInv(e)'
    <3>1. ReceiverRests(p) /\ ReceiverRests(e) /\ SenderRests(p)
      BY <1>1, <1>d DEF ReceiverRests, SenderRests, Goes
    <3> QED BY <3>1, PairFrame
  <2>2. hand[e] \notin Ids /\ hand'[e] = hand[e] /\ sent'[e] = sent[e] /\ outq'[e] = outq[e]
    BY <1>1, <1>a, <1>d DEF EndOK, At
  <2>3. Numbered(sent[e], outq[e], hand[e], pc'[e]["out"], Visited(p), Arrived(p), Clients(p), written[p], inst[p])
    BY <1>b, <2>2, NumberedDrop
  <2> QED BY <2>1, <2>2, <2>3, NumberedFrame
<1>2. CASE PopOut(e)
  <2> USE DEF PopOut, threadVars, queueVars, pipeVars, ghostVars
  <2>1. ReceiverRests(p) /\ ReceiverRests(e) /\ SenderRests(p) /\ PairInv(e)'
    <3>1. ReceiverRests(p) /\ ReceiverRests(e) /\ SenderRests(p)
      BY <1>2, <1>d DEF ReceiverRests, SenderRests, Goes
    <3> QED BY <3>1, PairFrame
  <2>2. hand[e] \notin Ids /\ sent'[e] = sent[e]
    BY <1>2, <1>a, <1>d DEF EndOK, At
  <2>3. \/ outq'[e] = outq[e] /\ hand'[e] = hand[e]
        \/ outq[e] # <<>> /\ outq'[e] = Tail(outq[e]) /\ hand'[e] \in {hand[e], Head(outq[e])}
    <3> HIDE DEF PopOut
    <3>1. \/ UNCHANGED <<outq, hand>>
          \/ outq[e] # <<>> /\ outq' = [outq EXCEPT ![e] = Tail(@)] /\ UNCHANGED hand
          \/ outq[e] # <<>> /\ outq' = [outq EXCEPT ![e] = Tail(@)] /\ hand' = [hand EXCEPT ![e] = Head(outq[e])]
      BY <1>2 DEF PopOut
    <3> QED BY <3>1, <1>d
  <2>4. Numbered(sent[e], outq'[e], hand'[e], pc'[e]["out"], Visited(p), Arrived(p), Clients(p), written[p], inst[p])
    <3>1. CASE outq'[e] = outq[e] /\ hand'[e] = hand[e]
      BY <3>1, <1>b, <2>2, NumberedDrop
    <3>2. CASE outq[e] # <<>> /\ outq'[e] = Tail(outq[e]) /\ hand'[e] \in {hand[e], Head(outq[e])}
      <4>1. /\ Numbered(sent[e], Tail(outq[e]), Head(outq[e]), pc'[e]["out"], Visited(p), Arrived(p), Clients(p), written[p], inst[p])
            /\ Numbered(sent[e], Tail(outq[e]), hand[e], pc'[e]["out"], Visited(p), Arrived(p), Clients(p), written[p], inst[p])
        <5> PICK v \in SUBSET Ids : v = Visited(p)
          BY <1>c
        <5> PICK a \in SUBSET Ids : a = Arrived(p)
          BY <1>c
        <5> PICK c \in SUBSET v : c = Clients(p)
          BY <1>c
        <5> PICK w \in SUBSET v : w = written[p]
          BY <1>c
        <5> PICK s \in Seq(Ids \cup {EmptyText}) : s = sent[e]
          BY <1>d
        <5> PICK q \in Seq(Ids \cup {EmptyText}) : q = outq[e]
          BY <1>d
        <5>1. Numbered(s, q, hand[e], pc[e]["out"], v, a, c, w, inst[p]) /\ (inst[p] \in Ids => inst[p] \in v) /\ q # <<>>
          BY <1>b, <1>c, <3>2
        <5> HIDE <1>2, <3>2, <2>3 DEF PopOut
        <5> PICK h, at, to, i : h = hand[e] /\ at = pc[e]["out"] /\ to = pc'[e]["out"] /\ i = inst[p]
          OBVIOUS
        <5>2. Numbered(s, q, h, at, v, a, c, w, i) /\ h \notin Ids /\ (i \in Ids => i \in v)
          BY <5>1, <2>2
        <5>3. /\ Numbered(s, Tail(q), Head(q), to, v, a, c, w, i)
              /\ Numbered(s, Tail(q), h, to, v, a, c, w, i)
          BY <5>1, <5>2, NumberedPop
        <5> QED BY <5>3
      <4> QED BY <4>1, <3>2
    <3> QED BY <2>3, <3>1, <3>2
  <2> QED BY <2>1, <2>2, <2>4, NumberedFrame
<1>3. CASE Wait(e)
  <2> USE DEF Wait, Sent, threadVars, queueVars, pipeVars, ghostVars
  <2>1. ReceiverRests(p) /\ ReceiverRests(e) /\ SenderRests(p) /\ PairInv(e)'
    <3>1. ReceiverRests(p) /\ ReceiverRests(e) /\ SenderRests(p)
      BY <1>3, <1>d DEF ReceiverRests, SenderRests, Goes
    <3> QED BY <3>1, PairFrame
  <2>2. /\ pc[e]["out"] = "wait" /\ sent'[e] = sent[e] /\ outq'[e] = outq[e]
        /\ \/ pc'[e]["out"] = "open" /\ hand'[e] = hand[e]
           \/ hand'[e] = None
    BY <1>3, <1>d DEF At, Goes, Threads
  <2>3. Numbered(sent[e], outq[e], hand'[e], pc'[e]["out"], Visited(p), Arrived(p), Clients(p), written[p], inst[p])
    <3>1. CASE pc'[e]["out"] = "open" /\ hand'[e] = hand[e]
      BY <1>b, <2>2, <3>1 DEF Numbered
    <3>2. CASE hand'[e] = None
      BY <1>b, <3>2, NumberedDrop
    <3> QED BY <2>2, <3>1, <3>2
  <2> QED BY <2>1, <2>2, <2>3, NumberedFrame
<1>4. CASE Open(e)
  <2> USE DEF Open, Sent, threadVars, queueVars, pipeVars, ghostVars
  <2>1. ReceiverRests(e) /\ SenderRests(p) /\ PairInv(e)'
    <3>1. ReceiverRests(e) /\ SenderRests(p)
      BY <1>4, <1>a, <1>d DEF ReceiverRests, SenderRests, Goes, PipeVarTypes
    <3> QED BY <3>1, PairFrame
  <2>2. pc[e]["out"] = "open" /\ hand[e] \in Ids /\ sent'[e] = sent[e] /\ outq'[e] = outq[e]
    BY <1>4, <1>a, <1>d DEF EndOK, At
  <2>3. \/ /\ inst[p] = Free /\ inst'[p] = hand[e] /\ pc'[e]["out"] = "write" /\ hand'[e] = hand[e]
        \/ inst' = inst /\ pc'[e]["out"] = "wait" /\ hand'[e] = hand[e]
        \/ inst' = inst /\ hand'[e] = None
    BY <1>4, <1>a, <1>d DEF Goes, Threads, PipeVarTypes
  <2>4. CASE inst' = inst
    <3>1. ReceiverRests(p)
      BY <1>4, <2>4 DEF ReceiverRests
    <3>2. Numbered(sent[e], outq[e], hand'[e], pc'[e]["out"], Visited(p), Arrived(p), Clients(p), written[p], inst[p])
      <4>1. CASE pc'[e]["out"] = "wait" /\ hand'[e] = hand[e]
        BY <1>b, <2>2, <4>1 DEF Numbered
      <4>2. CASE hand'[e] = None
        BY <1>b, <4>2, NumberedDrop
      <4>3. inst[p] # Free \/ inst'[p] # hand[e]
        BY <2>2, <2>4
      <4> QED BY <2>3, <4>1, <4>2, <4>3
    <3> QED BY <2>1, <2>2, <3>1, <3>2, NumberedFrame
  <2>5. CASE inst[p] = Free /\ inst'[p] = hand[e] /\ pc'[e]["out"] = "write" /\ hand'[e] = hand[e]
    <3>1. /\ got'[p] = got[p] /\ inq'[p] = inq[p] /\ taken'[p] = taken[p] /\ handlers'[p] = handlers[p]
          /\ written'[p] = written[p] /\ overlap'[p] = overlap[p]
      BY <1>4
    <3>2. /\ Arrived(p)' = Arrived(p) /\ Clients(p)' = Clients(p) /\ ReadingClients(p)' = ReadingClients(p)
          /\ Visited(p)' \in SUBSET (Visited(p) \cup {hand[e]})
      BY <2>5, <3>1 DEF Arrived, Clients, ReadingClients, Visited
    <3>3. Numbered(sent[e], outq[e], hand[e], "write", Visited(p)', Arrived(p), Clients(p), written[p], hand[e])
      <4> PICK n \in Nat : n = Len(sent[e])
        BY <1>d
      <4>1. Numbered(sent[e], outq[e], hand[e], "open", Visited(p), Arrived(p), Clients(p), written[p], inst[p])
        BY <1>b, <2>2
      <4> PICK v, u, h : v = Visited(p) /\ u = Visited(p)' /\ h = hand[e]
        OBVIOUS
      <4>2. h \in Ids /\ u \in SUBSET (v \cup {h}) /\ Len(sent[e]) \in Nat
        BY <2>2, <3>2
      <4>3. Numbered(sent[e], outq[e], h, "open", v, Arrived(p), Clients(p), written[p], inst[p])
        BY <4>1
      <4>4. Numbered(sent[e], outq[e], h, "write", u, Arrived(p), Clients(p), written[p], h)
        BY <4>2, <4>3, NumberedOpen
      <4> QED BY <4>4
    <3>4. NumberedAt(p)'
      <4>1. Peer(p)' = e
        BY DEF Peer
      <4> QED BY <2>2, <2>5, <3>1, <3>2, <3>3, <4>1 DEF NumberedAt
    <3>5. NeverTwiceAt(p)'
      BY <3>1, <3>2 DEF PairInv, NeverTwiceAt
    <3>6. ASSUME ~overlap'[p] PROVE OrderedAt(p)'
      <4>1. Ordered(handlers[p], ReadingClients(p), inst[p], Arrived(p), got[p], taken[p], inq[p])
        BY <3>1, <3>6 DEF PairInv, OrderedAt
      <4>2. \A x \in Arrived(p) \cup ReadingClients(p) : x < hand[e]
        <5>1. \A x \in Arrived(p) \cup Visited(p) : x <= hand[e]
          BY <1>b, <2>2 DEF Numbered
        <5>2. hand[e] \notin Arrived(p) \cup Clients(p)
          BY <1>b, <2>2 DEF Numbered
        <5>3. ReadingClients(p) \subseteq Clients(p)
          BY <1>a, SetsOfIds
        <5>4. \A x \in Arrived(p) \cup ReadingClients(p) : x \in Nat /\ x <= hand[e] /\ x # hand[e]
          BY <5>1, <5>2, <5>3, <1>c, IdsNat
        <5> QED BY <5>4, <2>2, IdsNat
      <4>3. Ordered(handlers[p], ReadingClients(p), hand[e], Arrived(p), got[p], taken[p], inq[p])
        BY <4>1, <4>2 DEF Ordered
      <4> QED BY <2>5, <3>1, <3>2, <4>3 DEF OrderedAt
    <3> QED BY <2>1, <3>4, <3>5, <3>6 DEF PairInv
  <2> QED BY <2>3, <2>4, <2>5
<1>5. CASE Write(e)
  <2> USE DEF Write, Sent, threadVars, queueVars, pipeVars, ghostVars
  <2>1. ReceiverRests(e) /\ SenderRests(p) /\ PairInv(e)'
    <3>1. ReceiverRests(e) /\ SenderRests(p)
      BY <1>5, <1>a, <1>d DEF ReceiverRests, SenderRests, Goes, PipeVarTypes
    <3> QED BY <3>1, PairFrame
  <2>2. hand[e] \in Ids /\ hand'[e] = None /\ sent'[e] = sent[e] /\ outq'[e] = outq[e]
    BY <1>5, <1>a, <1>d DEF EndOK, At
  <2>3. written'[p] \in SUBSET (written[p] \cup {hand[e]})
    BY <1>5, <1>a DEF PipeVarTypes
  <2>4. /\ got'[p] = got[p] /\ inq'[p] = inq[p] /\ taken'[p] = taken[p] /\ handlers'[p] = handlers[p]
        /\ inst'[p] = inst[p] /\ overlap'[p] = overlap[p]
    BY <1>5
  <2>5. /\ Arrived(p)' = Arrived(p) /\ Clients(p)' = Clients(p) /\ ReadingClients(p)' = ReadingClients(p)
        /\ Visited(p)' \in SUBSET (Visited(p) \cup {hand[e]})
    BY <2>3, <2>4 DEF Arrived, Clients, ReadingClients, Visited
  <2>6. NumberedAt(p)'
    <3>1. Peer(p)' = e
      BY DEF Peer
    <3> PICK v, u, h, at, to : v = Visited(p) /\ u = Visited(p)' /\ h = hand[e] /\ at = pc[e]["out"] /\ to = pc'[e]["out"]
      OBVIOUS
    <3>2. h \in Ids /\ u \in SUBSET (v \cup {h}) /\ Numbered(sent[e], outq[e], h, at, v, Arrived(p), Clients(p), written[p], inst[p])
      BY <1>b, <2>2, <2>5
    <3>3. Numbered(sent[e], outq[e], None, to, u, Arrived(p), Clients(p), written'[p], inst[p])
      BY <3>2, NumberedWrite
    <3> QED BY <2>2, <2>4, <2>5, <3>1, <3>3 DEF NumberedAt
  <2>7. NeverTwiceAt(p)' /\ (~overlap'[p] => OrderedAt(p)')
    BY <2>4, <2>5 DEF PairInv, NeverTwiceAt, OrderedAt
  <2> QED BY <2>1, <2>6, <2>7 DEF PairInv
<1>6. CASE SetModeFails(e)
  <2> USE DEF SetModeFails, Sent, threadVars, queueVars, pipeVars, ghostVars
  <2>1. ReceiverRests(p) /\ ReceiverRests(e) /\ SenderRests(p) /\ PairInv(e)'
    <3>1. ReceiverRests(p) /\ ReceiverRests(e) /\ SenderRests(p)
      BY <1>6, <1>d DEF ReceiverRests, SenderRests, Goes
    <3> QED BY <3>1, PairFrame
  <2>2. sent'[e] = sent[e] /\ outq'[e] = outq[e] /\ hand'[e] = None
    BY <1>6, <1>d DEF At, Goes, Threads
  <2>3. Numbered(sent[e], outq[e], hand'[e], pc'[e]["out"], Visited(p), Arrived(p), Clients(p), written[p], inst[p])
    BY <1>b, <2>2, NumberedDrop
  <2> QED BY <2>1, <2>2, <2>3, NumberedFrame
<1> QED BY <1>1, <1>2, <1>3, <1>4, <1>5, <1>6 DEF OutThread

\* Steps that move no message.
LEMMA QuietStep ==
    ASSUME PipeTypesInv, NEW e \in Ends,
           \/ Test(e, "in") \/ Test(e, "server") \/ Connect(e) \/ Connected(e)
           \/ End(e) \/ Ending(e) \/ UNCHANGED vars,
           PairInv(e), PairInv(Peer(e))
    PROVE  PairInv(e)' /\ PairInv(Peer(e))'
<1> PICK p \in Ends : p = Peer(e) /\ p # e /\ Peer(p) = e
  BY PeerIsOther
<1>a. pc \in [Ends -> [Threads -> Places]]
  BY DEF PipeTypesInv, PipeVarTypes
<1>1. /\ UNCHANGED <<queueVars, pipeVars, sent, got, overlap>>
      /\ \A x \in Ends : pc'[x]["out"] = pc[x]["out"]
  <2> USE DEF threadVars, queueVars, pipeVars, ghostVars
  <2>1. CASE \E t \in {"in", "server"} : Test(e, t)
    BY <1>a, <2>1 DEF Test, Goes, Threads
  <2>2. CASE Connect(e)
    BY <1>a, <2>2 DEF Connect, Goes, Threads
  <2>3. CASE Connected(e)
    BY <1>a, <2>3 DEF Connected, Goes, Threads
  <2>4. CASE End(e)
    BY <1>a, <2>4 DEF End, Goes, Threads
  <2>5. CASE CutIn(e) \/ CutOut(e)
    <3>1. CASE CutIn(e)
      BY <1>a, <3>1 DEF CutIn, Goes, Threads
    <3>2. CASE CutOut(e)
      BY <1>a, <3>2 DEF CutOut, Goes, Threads
    <3> QED BY <2>5, <3>1, <3>2
  <2>6. CASE Cancel(e)
    <3>1. PICK to : pc' = [pc EXCEPT ![e] = [pc[e] EXCEPT !.owner = "join server", !.server = to]]
      BY <2>6 DEF Cancel
    <3>2. [pc[e] EXCEPT !.owner = "join server", !.server = to]["out"] = pc[e]["out"]
      BY <1>a DEF Threads
    <3>3. pc'[e]["out"] = pc[e]["out"]
      BY <1>a, <3>1, <3>2
    <3>4. \A x \in Ends : x # e => pc'[x] = pc[x]
      BY <1>a, <3>1
    <3> QED BY <2>6, <3>3, <3>4 DEF Cancel
  <2>7. CASE Ended(e)
    BY <1>a, <2>7 DEF Ended, Goes, Threads
  <2>8. CASE UNCHANGED vars
    BY <2>8 DEF vars
  <2> QED BY <2>1, <2>2, <2>3, <2>4, <2>5, <2>6, <2>7, <2>8 DEF Ending
<1>2. /\ ReceiverRests(e) /\ SenderRests(e)
      /\ ReceiverRests(p) /\ SenderRests(p)
  BY <1>1 DEF ReceiverRests, SenderRests, queueVars, pipeVars
<1> QED BY <1>2, PairFrame

\* Steps of the receiving side of e.
LEMMA ReceiveStep ==
    ASSUME PipeTypesInv, NEW e \in Ends, PopIn(e) \/ Dispatch(e) \/ Create(e) \/ HandOver(e) \/ Handler(e),
           PairInv(e), PairInv(Peer(e))
    PROVE  PairInv(e)' /\ PairInv(Peer(e))'
<1> USE Markers
<1> PICK p \in Ends : p = Peer(e) /\ p # e /\ Peer(p) = e
  BY PeerIsOther
<1>a. PipeVarTypes /\ EndOK(pc[e], hand[e], taken[e], inst[e])
  BY DEF PipeTypesInv
<1>b. /\ pc \in [Ends -> [Threads -> Places]] /\ inq \in [Ends -> Seq(Texts)] /\ got \in [Ends -> Seq(Texts)]
      /\ taken \in [Ends -> Texts \cup {None}] /\ inst \in [Ends -> Ids \cup {None, Free}]
      /\ handlers \in [Ends -> SUBSET [client : Ids, next : {"read", "close"}]] /\ written \in [Ends -> SUBSET Ids]
      /\ overlap \in [Ends -> BOOLEAN]
  BY <1>a DEF PipeVarTypes
<1>c. Numbered(sent[p], outq[p], hand[p], pc[p]["out"], Visited(e), Arrived(e), Clients(e), written[e], inst[e])
  BY DEF PairInv, NumberedAt
<1>d. NeverTwice(ReadingClients(e), Arrived(e), inq[e], taken[e])
  BY DEF PairInv, NeverTwiceAt
<1>e. ~overlap[e] => Ordered(handlers[e], ReadingClients(e), inst[e], Arrived(e), got[e], taken[e], inq[e])
  BY DEF PairInv, OrderedAt
<1>f. Peer(e)' = p
  BY DEF Peer
<1>g. /\ Arrived(e) \in SUBSET Ids /\ Visited(e) \in SUBSET Ids
      /\ Clients(e) \in SUBSET Visited(e) /\ written[e] \in SUBSET Visited(e)
      /\ ReadingClients(e) \in SUBSET Clients(e)
      /\ InQueue(got[e]) \subseteq Arrived(e) /\ InQueue(inq[e]) \subseteq Arrived(e)
      /\ taken[e] \in Ids => taken[e] \in Arrived(e)
  BY <1>a, SetsOfIds
<1>1. /\ ReceiverRests(p) /\ SenderRests(e) /\ SenderRests(p)
      /\ PairInv(p)'
  <2>1. ReceiverRests(p) /\ SenderRests(e) /\ SenderRests(p)
    <3> USE DEF ReceiverRests, SenderRests, threadVars, queueVars, pipeVars, ghostVars
    <3>1. CASE PopIn(e)
      BY <1>b, <3>1 DEF PopIn, Goes, Threads
    <3>2. CASE Dispatch(e)
      BY <1>b, <3>2 DEF Dispatch, Goes, Threads
    <3>3. CASE Create(e)
      BY <1>b, <3>3 DEF Create, Goes, Threads
    <3>4. CASE HandOver(e)
      BY <1>b, <3>4 DEF HandOver, Goes, Threads
    <3>5. CASE Handler(e)
      BY <1>b, <3>5 DEF Handler, Read, CloseInstance
    <3> QED BY <3>1, <3>2, <3>3, <3>4, <3>5
  <2> QED BY <2>1, PairFrame
<1>h. ASSUME Numbered(sent[p], outq[p], hand[p], pc[p]["out"], Visited(e)', Arrived(e)', Clients(e)', written'[e], inst'[e])
      PROVE  NumberedAt(e)'
  BY <1>f, <1>h, <1>1 DEF NumberedAt, SenderRests
<1>2. CASE PopIn(e)
  <2>1. /\ got'[e] = got[e] /\ handlers'[e] = handlers[e] /\ written'[e] = written[e]
        /\ inst'[e] = inst[e] /\ overlap'[e] = overlap[e] /\ taken[e] = None
    BY <1>2, <1>a DEF PopIn, EndOK, At, threadVars, pipeVars, ghostVars
  <2>2. \/ inq'[e] = inq[e] /\ taken'[e] = taken[e]
        \/ inq[e] # <<>> /\ inq'[e] = Tail(inq[e]) /\ taken'[e] = Head(inq[e])
    BY <1>2, <1>b DEF PopIn
  <2>3. CASE inq'[e] = inq[e] /\ taken'[e] = taken[e]
    BY <2>1, <2>3, <1>1, PairFrame DEF ReceiverRests
  <2>4. CASE inq[e] # <<>> /\ inq'[e] = Tail(inq[e]) /\ taken'[e] = Head(inq[e])
    <3> PICK q \in Seq(Texts) : q = inq[e]
      BY <1>b
    <3>1. InQueue(q) = InQueue(Tail(q)) \cup ({Head(q)} \cap Ids)
      BY <2>4, TakeFirst
    <3>2. /\ Arrived(e)' = Arrived(e) /\ Clients(e)' = Clients(e)
          /\ ReadingClients(e)' = ReadingClients(e) /\ Visited(e)' = Visited(e)
      <4>1. Arrived(e)' = InQueue(got[e]) \cup InQueue(Tail(q)) \cup ({Head(q)} \cap Ids)
        BY <2>1, <2>4 DEF Arrived
      <4>2. Arrived(e) = InQueue(got[e]) \cup InQueue(q)
        BY <2>1 DEF Arrived
      <4> QED BY <2>1, <3>1, <4>1, <4>2 DEF Clients, ReadingClients, Visited
    <3>3. NumberedAt(e)'
      BY <1>c, <1>h, <2>1, <3>2
    <3>4. NeverTwiceAt(e)'
      <4>1. NeverTwice(ReadingClients(e), Arrived(e), q, taken[e])
        BY <1>d
      <4>2. NeverTwice(ReadingClients(e), Arrived(e), Tail(q), Head(q))
        BY <2>4, <4>1, TakenOnce
      <4> QED BY <2>4, <3>2, <4>2 DEF NeverTwiceAt
    <3>5. ASSUME ~overlap'[e] PROVE OrderedAt(e)'
      <4> PICK hs, r, i, a, g, k : /\ hs = handlers[e] /\ r = ReadingClients(e) /\ i = inst[e] /\ a = Arrived(e)
                                   /\ g = got[e] /\ k = taken[e]
        OBVIOUS
      <4>1. Ordered(hs, r, i, a, g, k, q) /\ k \notin Ids /\ q # <<>>
        BY <1>e, <2>1, <2>4, <3>5
      <4>2. Ordered(hs, r, i, a, g, Head(q), Tail(q))
        BY <4>1, TakenInOrder
      <4> QED BY <2>1, <2>4, <3>2, <4>2 DEF OrderedAt
    <3> QED BY <1>1, <3>3, <3>4, <3>5 DEF PairInv
  <2> QED BY <1>1, <2>2, <2>3, <2>4
<1>3. CASE Dispatch(e)
  <2>1. /\ got'[e] = Append(got[e], taken[e]) /\ taken'[e] = None /\ inq'[e] = inq[e] /\ handlers'[e] = handlers[e]
        /\ written'[e] = written[e] /\ inst'[e] = inst[e] /\ overlap'[e] = overlap[e]
    BY <1>3, <1>b DEF Dispatch, threadVars, pipeVars
  <2>2. taken[e] \in Texts
    BY <1>3, <1>a, <1>b DEF Dispatch, EndOK, At
  <2>3. /\ Arrived(e)' = Arrived(e) /\ Clients(e)' = Clients(e)
        /\ ReadingClients(e)' = ReadingClients(e) /\ Visited(e)' = Visited(e)
    <3>1. InQueue(Append(got[e], taken[e])) = InQueue(got[e]) \cup ({taken[e]} \cap Ids)
      <4> PICK g \in Seq(Texts) : g = got[e]
        BY <1>b
      <4> PICK k : k = taken[e]
        OBVIOUS
      <4>1. InQueue(Append(g, k)) = InQueue(g) \cup ({k} \cap Ids)
        BY AppendQueue
      <4> QED BY <4>1
    <3>2. InQueue(got[e])' = InQueue(Append(got[e], taken[e]))
      BY <2>1 DEF InQueue
    <3> QED BY <2>1, <3>1, <3>2 DEF Arrived, Clients, ReadingClients, Visited, InQueue
  <2>4. NumberedAt(e)'
    BY <1>c, <1>h, <2>1, <2>3
  <2>5. NeverTwiceAt(e)'
    <3>1. NeverTwice(ReadingClients(e), Arrived(e), inq[e], None)
      BY <1>d DEF NeverTwice, InQueue
    <3> QED BY <2>1, <2>3, <3>1 DEF NeverTwiceAt
  <2>6. ASSUME ~overlap'[e] PROVE OrderedAt(e)'
    <3> PICK hs, r, i, a, k, q : /\ hs = handlers[e] /\ r = ReadingClients(e) /\ i = inst[e] /\ a = Arrived(e)
                                 /\ k = taken[e] /\ q = inq[e]
      OBVIOUS
    <3> PICK g \in Seq(Texts) : g = got[e]
      BY <1>b
    <3>1. Ordered(hs, r, i, a, g, k, q)
      BY <1>e, <2>1, <2>6
    <3>2. Ordered(hs, r, i, a, Append(g, k), None, q)
      BY <3>1, GivenInOrder
    <3> QED BY <2>1, <2>3, <3>2 DEF OrderedAt
  <2> QED BY <1>1, <2>4, <2>5, <2>6 DEF PairInv
<1>4. CASE Create(e) /\ inst' # inst
  <2>1. /\ got'[e] = got[e] /\ taken'[e] = taken[e] /\ inq'[e] = inq[e] /\ handlers'[e] = handlers[e]
        /\ written'[e] = written[e] /\ inst'[e] = Free /\ overlap'[e] = overlap[e]
    BY <1>4, <1>b DEF Create, threadVars, queueVars, ghostVars
  <2>2. /\ Arrived(e)' = Arrived(e) /\ Clients(e)' = Clients(e)
        /\ ReadingClients(e)' = ReadingClients(e) /\ Visited(e)' \subseteq Visited(e)
    BY <2>1 DEF Arrived, Clients, ReadingClients, Visited
  <2>3. NumberedAt(e)'
    <3>1. Numbered(sent[p], outq[p], hand[p], pc[p]["out"], Visited(e)', Arrived(e), Clients(e), written[e], Free)
      <4> PICK v, u, a, c, w, i : /\ v = Visited(e) /\ u = Visited(e)' /\ a = Arrived(e) /\ c = Clients(e)
                                  /\ w = written[e] /\ i = inst[e]
        OBVIOUS
      <4>1. /\ a \cup u \subseteq a \cup v /\ a \cup w \subseteq a \cup w
            /\ (c \cup {Free}) \cap Ids \subseteq c \cup {i} /\ Free \notin Ids
        BY <2>2
      <4>2. Numbered(sent[p], outq[p], hand[p], pc[p]["out"], v, a, c, w, i)
        BY <1>c
      <4>3. Numbered(sent[p], outq[p], hand[p], pc[p]["out"], u, a, c, w, Free)
        BY <4>1, <4>2, NumberedLess
      <4> QED BY <4>3
    <3> QED BY <1>h, <2>1, <2>2, <3>1
  <2>4. NeverTwiceAt(e)'
    BY <1>d, <2>1, <2>2 DEF NeverTwiceAt
  <2>5. ASSUME ~overlap'[e] PROVE OrderedAt(e)'
    <3>1. Ordered(handlers[e], ReadingClients(e), Free, Arrived(e), got[e], taken[e], inq[e])
      BY <1>e, <2>1, <2>5 DEF Ordered
    <3> QED BY <2>1, <2>2, <3>1 DEF OrderedAt
  <2> QED BY <1>1, <2>3, <2>4, <2>5 DEF PairInv
<1>5. CASE HandOver(e)
  <2>1. /\ got'[e] = got[e] /\ taken'[e] = taken[e] /\ inq'[e] = inq[e] /\ written'[e] = written[e] /\ inst'[e] = None
        /\ overlap'[e] = (overlap[e] \/ \E h \in handlers[e] : h.next = "read")
    BY <1>5, <1>b DEF HandOver, threadVars, queueVars
  <2>2. inst[e] # None /\ (At(e, "server", {"connected"}) => inst[e] \in Ids)
    BY <1>5, <1>a, <1>b DEF HandOver, EndOK, At, Serving
  <2>3. \/ handlers'[e] = handlers[e]
        \/ inst[e] \in Ids /\ handlers'[e] = handlers[e] \cup {[client |-> inst[e], next |-> "read"]}
    BY <1>5, <1>b, <2>2 DEF HandOver, At
  <2>4. /\ Clients(e) \subseteq Clients(e)' /\ Clients(e)' \subseteq Clients(e) \cup ({inst[e]} \cap Ids)
        /\ ReadingClients(e)' \subseteq ReadingClients(e) \cup ({inst[e]} \cap Ids)
    <3>1. CASE handlers'[e] = handlers[e]
      BY <3>1 DEF Clients, ReadingClients
    <3>2. CASE inst[e] \in Ids /\ handlers'[e] = handlers[e] \cup {[client |-> inst[e], next |-> "read"]}
      BY <3>2 DEF Clients, ReadingClients
    <3> QED BY <2>3, <3>1, <3>2
  <2>5. Arrived(e)' = Arrived(e) /\ Visited(e)' \subseteq Visited(e)
    BY <2>1, <2>4 DEF Arrived, Visited
  <2>6. NumberedAt(e)'
    <3> PICK v, u, a, c, d, w, i : /\ v = Visited(e) /\ u = Visited(e)' /\ a = Arrived(e) /\ c = Clients(e)
                                   /\ d = Clients(e)' /\ w = written[e] /\ i = inst[e]
      OBVIOUS
    <3>1. /\ a \cup u \subseteq a \cup v /\ a \cup w \subseteq a \cup w
          /\ (d \cup {None}) \cap Ids \subseteq c \cup {i} /\ None \notin Ids
      BY <2>4, <2>5
    <3>2. Numbered(sent[p], outq[p], hand[p], pc[p]["out"], v, a, c, w, i)
      BY <1>c
    <3>3. Numbered(sent[p], outq[p], hand[p], pc[p]["out"], u, a, d, w, None)
      BY <3>1, <3>2, NumberedLess
    <3> QED BY <1>h, <2>1, <2>5, <3>3
  <2>7. NeverTwiceAt(e)'
    <3>1. inst[e] \in Ids => inst[e] \notin Arrived(e)
      BY <1>c DEF Numbered
    <3>2. NeverTwice(ReadingClients(e)', Arrived(e), inq[e], taken[e])
      BY <1>d, <2>4, <3>1 DEF NeverTwice
    <3> QED BY <2>1, <2>5, <3>2 DEF NeverTwiceAt
  <2>8. ASSUME ~overlap'[e] PROVE OrderedAt(e)'
    <3>1. ~overlap[e] /\ \A h \in handlers[e] : h.next # "read"
      BY <2>1, <2>8
    <3>2. Ordered(handlers[e], ReadingClients(e), inst[e], Arrived(e), got[e], taken[e], inq[e])
      BY <1>e, <3>1
    <3>3. ReadingClients(e) = {}
      BY <3>1 DEF ReadingClients
    <3>4. \A f, h \in handlers'[e] : f.next = "read" /\ h.next = "read" => f = h
      BY <2>3, <3>1
    <3>5. \A x \in Arrived(e), y \in ReadingClients(e)' : x < y
      BY <2>4, <3>2, <3>3 DEF Ordered
    <3>6. Ordered(handlers'[e], ReadingClients(e)', None, Arrived(e), got[e], taken[e], inq[e])
      BY <3>2, <3>4, <3>5 DEF Ordered
    <3> QED BY <2>1, <2>5, <3>6 DEF OrderedAt
  <2> QED BY <1>1, <2>6, <2>7, <2>8 DEF PairInv
<1>6. ASSUME NEW h \in handlers[e], Read(e, h)
      PROVE  PairInv(e)'
  <2>1. /\ got'[e] = got[e] /\ taken'[e] = taken[e] /\ written'[e] = written[e] /\ inst'[e] = inst[e]
        /\ overlap'[e] = overlap[e]
    BY <1>6 DEF Read, ghostVars
  <2>2. PICK m \in Ids \cup {Blank} :
          /\ inq'[e] = Append(inq[e], m)
          /\ m \in Ids => m = h.client /\ m \in written[e]
    BY <1>6, <1>b DEF Read
  <2>3. /\ h.next = "read" /\ h = [client |-> h.client, next |-> "read"] /\ h.client \in ReadingClients(e)
        /\ handlers'[e] = (handlers[e] \ {h}) \cup {[client |-> h.client, next |-> "close"]}
    BY <1>6, <1>b DEF Read, ReadingClients
  <2>4. /\ Clients(e)' = Clients(e) /\ ReadingClients(e)' \subseteq ReadingClients(e)
        /\ h.client \notin ReadingClients(e)'
    <3>1. \A g \in handlers[e] : g = [client |-> g.client, next |-> g.next]
      BY <1>b
    <3>2. Clients(e)' = {g.client : g \in handlers'[e]}
      BY DEF Clients
    <3>3. ReadingClients(e)' = {g.client : g \in {f \in handlers'[e] : f.next = "read"}}
      BY DEF ReadingClients
    <3>4. {g.client : g \in handlers'[e]} = {g.client : g \in handlers[e]}
      <4>1. \A g \in handlers'[e] : \E f \in handlers[e] : g.client = f.client
        BY <2>3
      <4>2. \A f \in handlers[e] : \E g \in handlers'[e] : f.client = g.client
        <5> TAKE f \in handlers[e]
        <5>1. CASE f = h
          <6>1. [client |-> h.client, next |-> "close"] \in handlers'[e]
            BY <2>3
          <6> QED BY <5>1, <6>1
        <5>2. CASE f # h
          BY <2>3, <5>2
        <5> QED BY <5>1, <5>2
      <4> QED BY <4>1, <4>2
    <3>5. \A g \in handlers'[e] : g.next = "read" => g \in handlers[e] /\ g # h
      BY <2>3
    <3>6. \A g \in handlers'[e] : g.next = "read" => g.client # h.client
      BY <2>3, <3>1, <3>5
    <3> QED BY <3>2, <3>3, <3>4, <3>5, <3>6 DEF Clients, ReadingClients
  <2>5. Arrived(e)' = Arrived(e) \cup ({m} \cap Ids)
    <3> PICK q \in Seq(Texts) : q = inq[e]
      BY <1>b
    <3>1. InQueue(Append(q, m)) = InQueue(q) \cup ({m} \cap Ids)
      BY AppendQueue
    <3>2. InQueue(inq[e])' = InQueue(Append(q, m))
      BY <2>2 DEF InQueue
    <3> QED BY <2>1, <3>1, <3>2 DEF Arrived, InQueue
  <2>6. Visited(e)' = Visited(e)
    BY <2>1, <2>4 DEF Visited
  <2>7. m \in Ids => m \in ReadingClients(e) /\ m \in Clients(e) /\ m \in written[e] /\ m \notin Arrived(e)
    BY <1>d, <1>g, <2>2, <2>3 DEF NeverTwice
  <2>8. NumberedAt(e)'
    <3> PICK v, a, b, c, w, i : /\ v = Visited(e) /\ a = Arrived(e) /\ b = Arrived(e)' /\ c = Clients(e)
                                /\ w = written[e] /\ i = inst[e]
      OBVIOUS
    <3>1. Numbered(sent[p], outq[p], hand[p], pc[p]["out"], v, a, c, w, i)
      BY <1>c
    <3>2. i \in Ids => i \notin a \cup c
      BY <3>1 DEF Numbered
    <3>3. /\ b \cup v \subseteq a \cup v /\ b \cup w \subseteq a \cup w
          /\ (c \cup {i}) \cap Ids \subseteq c \cup {i} /\ (i \in Ids => i \notin b \cup c)
      BY <2>5, <2>7, <3>2, <1>g
    <3>4. Numbered(sent[p], outq[p], hand[p], pc[p]["out"], v, b, c, w, i)
      BY <3>1, <3>3, NumberedLess
    <3> QED BY <1>h, <2>1, <2>4, <2>6, <3>4
  <2>9. NeverTwiceAt(e)'
    <3> PICK r, a, k, rr, aa : /\ r = ReadingClients(e) /\ a = Arrived(e) /\ k = taken[e]
                               /\ rr = ReadingClients(e)' /\ aa = Arrived(e)'
      OBVIOUS
    <3> PICK q \in Seq(Texts) : q = inq[e]
      BY <1>b
    <3>1. /\ rr \subseteq r /\ m \notin rr /\ aa = a \cup ({m} \cap Ids) /\ (m \in Ids => m \notin a)
          /\ InQueue(q) \subseteq a /\ (k \in Ids => k \in a) /\ NeverTwice(r, a, q, k)
      <4>1. m \notin rr
        <5>1. r \subseteq Ids
          BY <1>g
        <5> QED BY <2>2, <2>4, <5>1
      <4> QED BY <1>d, <1>g, <2>4, <2>5, <2>7, <4>1
    <3>2. NeverTwice(rr, aa, Append(q, m), k)
      BY <3>1, ArrivesOnce
    <3> QED BY <2>1, <2>2, <3>2 DEF NeverTwiceAt
  <2>10. ASSUME ~overlap'[e] PROVE OrderedAt(e)'
    <3> PICK hs, ht, r, i, a, g, k, rr, aa :
          /\ hs = handlers[e] /\ ht = handlers'[e] /\ r = ReadingClients(e) /\ i = inst[e] /\ a = Arrived(e)
          /\ g = got[e] /\ k = taken[e] /\ rr = ReadingClients(e)' /\ aa = Arrived(e)'
      OBVIOUS
    <3> PICK q \in Seq(Texts) : q = inq[e]
      BY <1>b
    <3>1. Ordered(hs, r, i, a, g, k, q)
      BY <1>e, <2>1, <2>10
    <3>2. \A f \in hs : f.next = "read" => f = h
      BY <2>3, <3>1 DEF Ordered
    <3>3. \A f \in ht : f.next # "read"
      BY <2>3, <3>2
    <3>4. rr = {}
      BY <3>3 DEF ReadingClients
    <3>5. /\ r \in SUBSET Ids /\ a \in SUBSET Ids /\ aa = a \cup ({m} \cap Ids) /\ (m \in Ids => m \in r)
          /\ InQueue(q) \subseteq a /\ InQueue(g) \subseteq a /\ (k \in Ids => k \in a)
      BY <1>g, <2>5, <2>7
    <3>6. \A f \in ht : f.next = "read" => f \in hs
      BY <3>3
    <3>7. Ordered(ht, rr, i, aa, g, k, Append(q, m))
      BY <3>1, <3>4, <3>5, <3>6, ArrivesInOrder
    <3> QED BY <2>1, <2>2, <3>7 DEF OrderedAt
  <2> QED BY <2>8, <2>9, <2>10 DEF PairInv
<1>7. ASSUME NEW h \in handlers[e], CloseInstance(e, h)
      PROVE  PairInv(e)'
  <2>1. /\ got'[e] = got[e] /\ taken'[e] = taken[e] /\ inq'[e] = inq[e] /\ inst'[e] = inst[e]
        /\ overlap'[e] = overlap[e] /\ written'[e] \subseteq written[e] /\ handlers'[e] = handlers[e] \ {h}
        /\ h.next = "close"
    BY <1>7, <1>b DEF CloseInstance, queueVars, ghostVars
  <2>2. /\ Clients(e)' \subseteq Clients(e) /\ ReadingClients(e)' = ReadingClients(e)
        /\ Arrived(e)' = Arrived(e) /\ Visited(e)' \subseteq Visited(e)
    BY <2>1 DEF Clients, ReadingClients, Arrived, Visited
  <2>3. NumberedAt(e)'
    <3> PICK v, u, a, c, d, w, z, i : /\ v = Visited(e) /\ u = Visited(e)' /\ a = Arrived(e) /\ c = Clients(e)
                                      /\ d = Clients(e)' /\ w = written[e] /\ z = written'[e] /\ i = inst[e]
      OBVIOUS
    <3>1. Numbered(sent[p], outq[p], hand[p], pc[p]["out"], v, a, c, w, i)
      BY <1>c
    <3>2. i \in Ids => i \notin a \cup c
      BY <3>1 DEF Numbered
    <3>3. /\ a \cup u \subseteq a \cup v /\ a \cup z \subseteq a \cup w
          /\ (d \cup {i}) \cap Ids \subseteq c \cup {i} /\ (i \in Ids => i \notin a \cup d)
      BY <2>1, <2>2, <3>2
    <3>4. Numbered(sent[p], outq[p], hand[p], pc[p]["out"], u, a, d, z, i)
      BY <3>1, <3>3, NumberedLess
    <3> QED BY <1>h, <2>1, <2>2, <3>4
  <2>4. NeverTwiceAt(e)'
    BY <1>d, <2>1, <2>2 DEF NeverTwiceAt
  <2>5. ASSUME ~overlap'[e] PROVE OrderedAt(e)'
    <3>1. Ordered(handlers'[e], ReadingClients(e), inst[e], Arrived(e), got[e], taken[e], inq[e])
      BY <1>e, <2>1, <2>5 DEF Ordered
    <3> QED BY <2>1, <2>2, <3>1 DEF OrderedAt
  <2> QED BY <2>3, <2>4, <2>5 DEF PairInv
<1>8. CASE Create(e) /\ inst' = inst
  <2>1. ReceiverRests(e)
    BY <1>8, <1>b DEF Create, ReceiverRests, queueVars, ghostVars
  <2> QED BY <1>1, <2>1, PairFrame
<1> QED BY <1>1, <1>2, <1>3, <1>4, <1>5, <1>6, <1>7, <1>8 DEF Handler

\* The process of e is gone with all that it held.
LEMMA CrashStep ==
    ASSUME PipeTypesInv, NEW e \in Ends, Crash(e), PairInv(e), PairInv(Peer(e))
    PROVE  PairInv(e)' /\ PairInv(Peer(e))'
<1> USE Markers
<1> PICK p \in Ends : p = Peer(e) /\ p # e /\ Peer(p) = e
  BY PeerIsOther
<1>a. PipeVarTypes
  BY DEF PipeTypesInv
<1>b. /\ outq'[e] = <<>> /\ inq'[e] = <<>> /\ hand'[e] = None /\ taken'[e] = None /\ inst'[e] = None
      /\ handlers'[e] = {} /\ written'[e] = {} /\ sent'[e] = sent[e] /\ got'[e] = got[e] /\ overlap'[e] = overlap[e]
      /\ pc'[e]["out"] = "crashed"
  BY <1>a DEF Crash, PipeVarTypes, Threads
<1>c. ReceiverRests(p) /\ SenderRests(p)
  BY <1>a DEF Crash, PipeVarTypes, ReceiverRests, SenderRests
<1>1. PairInv(e)'
  <2>1. /\ Arrived(e)' = InQueue(got[e]) /\ Visited(e)' = {} /\ Clients(e)' = {} /\ ReadingClients(e)' = {}
    BY <1>b DEF Arrived, Visited, Clients, ReadingClients, InQueue
  <2>2. InQueue(got[e]) \subseteq Arrived(e)
    BY DEF Arrived
  <2>3. NumberedAt(e)'
    <3> PICK v, a, b, c, w, i : /\ v = Visited(e) /\ a = Arrived(e) /\ b = InQueue(got[e]) /\ c = Clients(e)
                                /\ w = written[e] /\ i = inst[e]
      OBVIOUS
    <3>1. Numbered(sent[p], outq[p], hand[p], pc[p]["out"], v, a, c, w, i)
      BY DEF PairInv, NumberedAt
    <3>2. Numbered(sent[p], outq[p], hand[p], pc[p]["out"], {}, b, {}, {}, None)
      BY <2>2, <3>1, NumberedLess
    <3>3. Peer(e)' = p
      BY DEF Peer
    <3> QED BY <1>b, <1>c, <2>1, <3>2, <3>3 DEF NumberedAt, SenderRests
  <2>4. NeverTwiceAt(e)'
    BY <1>b, <2>1 DEF NeverTwiceAt, NeverTwice, Differing, InQueue
  <2>5. ASSUME ~overlap'[e] PROVE OrderedAt(e)'
    <3>1. Increasing(got[e])
      BY <1>b, <2>5 DEF PairInv, OrderedAt, Ordered
    <3>2. Ordered({}, {}, None, InQueue(got[e]), got[e], None, <<>>)
      BY <3>1 DEF Ordered, Increasing, InQueue
    <3> QED BY <1>b, <2>1, <3>2 DEF OrderedAt
  <2> QED BY <2>3, <2>4, <2>5 DEF PairInv
<1>2. PairInv(p)'
  <2>1. Numbered(sent[e], <<>>, None, "crashed", Visited(p), Arrived(p), Clients(p), written[p], inst[p])
    <3>1. Numbered(sent[e], outq[e], hand[e], pc[e]["out"], Visited(p), Arrived(p), Clients(p), written[p], inst[p])
      BY DEF PairInv, NumberedAt
    <3> QED BY <3>1 DEF Numbered, Increasing, InQueue
  <2> QED BY <1>b, <1>c, <2>1, NumberedFrame
<1> QED BY <1>1, <1>2

\* The pair of receivers that a step of e concerns is all there is.
LEMMA PairsAreAll ==
    ASSUME NEW e \in Ends, NEW x \in Ends
    PROVE  x = e \/ x = Peer(e)
  BY PeerIsOther, PipeAssumption

\* At the start there is nothing anywhere.
LEMMA PipeInvInit == PipeInit => PipeInv
<1> SUFFICES ASSUME PipeInit PROVE PipeInv
  OBVIOUS
<1> USE Markers
<1>1. PipeTypesInv
  BY PipeTypesInit
<1>2. ASSUME NEW e \in Ends PROVE PairInv(e)
  <2> PICK p \in Ends : p = Peer(e)
    BY PeerIsOther
  <2>1. /\ sent[p] = <<>> /\ outq[p] = <<>> /\ hand[p] = None /\ got[e] = <<>> /\ inq[e] = <<>> /\ taken[e] = None
        /\ handlers[e] = {} /\ written[e] = {} /\ inst[e] \notin Ids
    BY DEF PipeInit
  <2>2. Arrived(e) = {} /\ Visited(e) = {} /\ Clients(e) = {} /\ ReadingClients(e) = {}
    BY <2>1 DEF Arrived, Visited, Clients, ReadingClients, InQueue
  <2>3. NumberedAt(e)
    BY <2>1, <2>2 DEF NumberedAt, Numbered, Increasing, InQueue
  <2>4. NeverTwiceAt(e)
    BY <2>1, <2>2 DEF NeverTwiceAt, NeverTwice, Differing, InQueue
  <2>5. OrderedAt(e)
    BY <2>1, <2>2 DEF OrderedAt, Ordered, Increasing, InQueue
  <2> QED BY <2>3, <2>4, <2>5 DEF PairInv
<1> QED BY <1>1, <1>2 DEF PipeInv, PairInv

\* Every step keeps the messages where they may be, and in order.
LEMMA PipeInvStep == PipeInv /\ [PipeNext]_vars => PipeInv'
<1> SUFFICES ASSUME PipeInv, [PipeNext]_vars PROVE PipeInv'
  OBVIOUS
<1>1. PipeTypesInv /\ PipeTypesInv' /\ \A x \in Ends : PairInv(x)
  BY PipeTypesStep DEF PipeInv, PairInv
<1>2. \A x \in Ends : PairInv(x)'
  <2>1. ASSUME NEW e \in Ends, PairInv(e)' /\ PairInv(Peer(e))' PROVE \A x \in Ends : PairInv(x)'
    <3> TAKE x \in Ends
    <3> PICK p \in Ends : p = Peer(e)
      BY PeerIsOther
    <3>1. PairInv(p)'
      BY <2>1
    <3>2. x = e \/ x = p
      BY PairsAreAll
    <3> QED BY <2>1, <3>1, <3>2
  <2>2. ASSUME NEW e \in Ends PROVE PairInv(e) /\ PairInv(Peer(e))
    BY <1>1, PeerIsOther
  <2>3. CASE UNCHANGED vars
    <3> PICK e \in Ends : TRUE
      BY PipeAssumption
    <3> QED BY <1>1, <2>1, <2>2, <2>3, QuietStep
  <2>4. ASSUME NEW e \in Ends,
               OutThread(e) \/ InThread(e) \/ Server(e) \/ Handler(e) \/ Ending(e) \/ Owner(e)
        PROVE  PairInv(e)' /\ PairInv(Peer(e))'
    <3>1. CASE OutThread(e)
      BY <1>1, <2>2, <3>1, OutStep
    <3>2. CASE PopIn(e) \/ Dispatch(e) \/ Create(e) \/ HandOver(e) \/ Handler(e)
      BY <1>1, <2>2, <3>2, ReceiveStep
    <3>3. CASE Test(e, "in") \/ Test(e, "server") \/ Connect(e) \/ Connected(e) \/ End(e) \/ Ending(e)
      BY <1>1, <2>2, <3>3, QuietStep
    <3>4. CASE Crash(e)
      BY <1>1, <2>2, <3>4, CrashStep
    <3>5. ASSUME NEW m \in Ids \cup {EmptyText}, SendText(e, m) PROVE PairInv(e)' /\ PairInv(Peer(e))'
      BY <1>1, <2>2, <3>5, SendStep DEF PipeTypesInv
    <3> QED BY <2>4, <3>1, <3>2, <3>3, <3>4, <3>5 DEF InThread, Server, Owner
  <2> QED BY <2>1, <2>3, <2>4 DEF PipeNext
<1> QED BY <1>1, <1>2 DEF PipeInv, PairInv

\* As long as no two handlers were at work at one time, the callback is given
\* the messages in the order in which they were sent, whatever is lost.
THEOREM InOrderAlways == PipeSpec => []InOrder
<1>1. PipeInv => InOrder
  BY DEF PipeInv, OrderedAt, Ordered, Increasing, InOrder
<1>2. PipeSpec => []PipeInv
  BY PipeInvInit, PipeInvStep, PTL DEF PipeSpec
<1> QED BY <1>1, <1>2, PTL

(***************************************************************************)
(* A direction is a Channel: the messages that the callback gets are those *)
(* that were sent, each once.  What the refinement reads off the callback's *)
(* calls is a recursive function, which is shown to have values first.     *)
(***************************************************************************)
Reads(q, k, f) ==
    f = [n \in 0..k |-> IF n = 0 THEN <<>> ELSE IF q[n] \in Ids THEN Append(f[n - 1], q[n]) ELSE f[n - 1]]

Agree(q, r, k) == \A i \in 1..k : q[i] = r[i]

\* There is such a function, of any length.
LEMMA ReadsExist ==
    ASSUME NEW q, NEW k \in Nat
    PROVE  \E f : Reads(q, k, f)
<1> DEFINE S == {n \in Nat : \E f : Reads(q, n, f)}
<1>1. 0 \in S
  <2>1. Reads(q, 0, [n \in 0..0 |-> <<>>])
    BY DEF Reads
  <2> QED BY <2>1
<1>2. \A n \in S : n + 1 \in S
  <2> TAKE n \in S
  <2>1. PICK f : Reads(q, n, f)
    OBVIOUS
  <2> DEFINE next == IF q[n + 1] \in Ids THEN Append(f[n], q[n + 1]) ELSE f[n]
             g == [i \in 0..(n + 1) |-> IF i = n + 1 THEN next ELSE f[i]]
  <2> DEFINE body(i) == IF i = 0 THEN <<>> ELSE IF q[i] \in Ids THEN Append(g[i - 1], q[i]) ELSE g[i - 1]
  <2>2. \A i \in 0..(n + 1) : g[i] = body(i)
    <3> TAKE i \in 0..(n + 1)
    <3>1. CASE i = n + 1
      <4>1. g[i - 1] = f[n] /\ i # 0 /\ g[i] = next
        BY <3>1
      <4> QED BY <3>1, <4>1
    <3>2. CASE i # n + 1
      <4>1. i \in 0..n /\ g[i] = f[i]
        BY <3>2
      <4>2. f[i] = IF i = 0 THEN <<>> ELSE IF q[i] \in Ids THEN Append(f[i - 1], q[i]) ELSE f[i - 1]
        BY <2>1, <4>1 DEF Reads
      <4>3. i # 0 => i - 1 \in 0..(n + 1) /\ i - 1 # n + 1
        BY <4>1
      <4>4. i # 0 => g[i - 1] = f[i - 1]
        BY <4>3
      <4> QED BY <4>1, <4>2, <4>4
    <3> QED BY <3>1, <3>2
  <2>3. g = [i \in 0..(n + 1) |-> body(i)]
    <3> HIDE DEF body
    <3> QED BY <2>2
  <2>4. Reads(q, n + 1, g)
    BY <2>3 DEF Reads
  <2> QED BY <2>4
<1>3. S = Nat
  <2> HIDE DEF S
  <2>1. S \subseteq Nat
    BY DEF S
  <2> QED BY <1>1, <1>2, <2>1, NatInduct
<1> QED BY <1>3

\* Where two queues agree so do the functions.
LEMMA ReadsAgree ==
    ASSUME NEW q, NEW r, NEW k \in Nat, NEW l \in Nat, NEW f, NEW g, Reads(q, k, f), Reads(r, l, g),
           k <= l, Agree(q, r, k)
    PROVE  f[k] = g[k]
<1> DEFINE S == {n \in Nat : n <= k => f[n] = g[n]}
<1>1. 0 \in S
  BY DEF Reads
<1>2. \A n \in S : n + 1 \in S
  <2> SUFFICES ASSUME NEW n \in S, n + 1 <= k PROVE f[n + 1] = g[n + 1]
    OBVIOUS
  <2>1. f[n] = g[n] /\ n + 1 \in 0..k /\ n + 1 \in 0..l /\ n + 1 \in 1..k /\ n + 1 # 0 /\ (n + 1) - 1 = n
    OBVIOUS
  <2>2. f[n + 1] = IF q[n + 1] \in Ids THEN Append(f[n], q[n + 1]) ELSE f[n]
    BY <2>1 DEF Reads
  <2>3. g[n + 1] = IF r[n + 1] \in Ids THEN Append(g[n], r[n + 1]) ELSE g[n]
    BY <2>1 DEF Reads
  <2>4. q[n + 1] = r[n + 1]
    BY <2>1 DEF Agree
  <2> QED BY <2>1, <2>2, <2>3, <2>4
<1>3. S = Nat
  <2> HIDE DEF S
  <2>1. S \subseteq Nat
    BY DEF S
  <2> QED BY <1>1, <1>2, <2>1, NatInduct
<1> QED BY <1>3

\* Messages is the value of its recursive function at the end of the queue.
LEMMA MessagesValue ==
    ASSUME NEW q \in Seq(Texts)
    PROVE  \E f : Reads(q, Len(q), f) /\ Messages(q) = f[Len(q)]
<1> PICK l \in Nat : l = Len(q)
  OBVIOUS
<1> DEFINE up == CHOOSE f : Reads(q, l, f)
<1>1. Reads(q, l, up)
  BY ReadsExist
<1>2. Messages(q) = up[l]
  BY DEF Messages, Reads
<1> QED BY <1>1, <1>2

\* The messages of an empty queue, and of one that gets another text.
LEMMA MessagesAppend ==
    /\ Messages(<<>>) = <<>>
    /\ \A q \in Seq(Texts), m \in Texts :
         Messages(Append(q, m)) = IF m \in Ids THEN Append(Messages(q), m) ELSE Messages(q)
<1>1. Messages(<<>>) = <<>>
  <2>1. <<>> \in Seq(Texts) /\ Len(<<>>) = 0
    OBVIOUS
  <2> PICK q : q = <<>>
    OBVIOUS
  <2>2. PICK f : Reads(q, 0, f) /\ Messages(q) = f[0]
    BY <2>1, MessagesValue
  <2> QED BY <2>2 DEF Reads
<1>2. ASSUME NEW q \in Seq(Texts), NEW m \in Texts
      PROVE  Messages(Append(q, m)) = IF m \in Ids THEN Append(Messages(q), m) ELSE Messages(q)
  <2> PICK l \in Nat : l = Len(q)
    OBVIOUS
  <2> PICK u \in Seq(Texts) : u = Append(q, m)
    BY AppendProperties
  <2>1. Len(u) = l + 1 /\ u[l + 1] = m /\ \A i \in 1..l : q[i] = u[i]
    BY AppendProperties
  <2>2. PICK f : Reads(q, l, f) /\ Messages(q) = f[l]
    BY MessagesValue
  <2>3. PICK g : Reads(u, l + 1, g) /\ Messages(u) = g[l + 1]
    BY <2>1, MessagesValue
  <2>4. f[l] = g[l]
    <3> PICK n \in Nat : n = l + 1
      OBVIOUS
    <3>1. l <= n
      OBVIOUS
    <3>2. Reads(q, l, f)
      BY <2>2
    <3>3. Reads(u, n, g)
      BY <2>3
    <3>4. Agree(q, u, l)
      BY <2>1 DEF Agree
    <3> QED BY <3>1, <3>2, <3>3, <3>4, ReadsAgree
  <2>5. g[l + 1] = IF u[l + 1] \in Ids THEN Append(g[l], u[l + 1]) ELSE g[l]
    <3>1. l + 1 \in 0..(l + 1) /\ l + 1 # 0 /\ (l + 1) - 1 = l
      OBVIOUS
    <3> QED BY <2>3, <3>1 DEF Reads
  <2> QED BY <2>1, <2>2, <2>3, <2>4, <2>5
<1> QED BY <1>1, <1>2

\* What is in a queue (q), in the hand of a thread (h), in the other end's queue
\* (r), taken from it (k), or written (w) into the instance (i) or to a handler (c).
OnItsWay(q, h, r, k, w, i, c) == InQueue(q) \cup InQueue(r) \cup ({h, k} \cap Ids) \cup (w \cap ({i} \cup c))

\* That is where the messages of an end are.
LEMMA PendingIs ==
    ASSUME NEW e \in Ends, NEW p \in Ends, p = Peer(e)
    PROVE  /\ Pending(e) = OnItsWay(outq[e], hand[e], inq[p], taken[p], written[p], inst[p], ReadingClients(p))
           /\ Pending(e)' = OnItsWay(outq'[e], hand'[e], inq'[p], taken'[p], written'[p], inst'[p], ReadingClients(p)')
<1>1. Peer(e)' = p
  BY DEF Peer
<1> QED BY <1>1 DEF Pending, OnItsWay, ReadingClients

\* With the sender and the receiver at rest the messages are where they were.
LEMMA PendingFrame ==
    ASSUME NEW e \in Ends, NEW p \in Ends, p = Peer(e), SenderRests(e), ReceiverRests(p)
    PROVE  Pending(e)' = Pending(e)
<1>1. ReadingClients(p)' = ReadingClients(p)
  BY ReceiverFrame
<1> QED BY <1>1, PendingIs DEF SenderRests, ReceiverRests

\* The out thread loses messages, or moves them.
LEMMA PendingOut ==
    ASSUME PipeTypesInv, NEW e \in Ends, OutThread(e)
    PROVE  Pending(e)' \subseteq Pending(e) /\ Pending(Peer(e))' \subseteq Pending(Peer(e))
<1> USE Markers
<1> PICK p \in Ends : p = Peer(e) /\ p # e /\ Peer(p) = e
  BY PeerIsOther
<1>a. PipeVarTypes /\ EndOK(pc[e], hand[e], taken[e], inst[e])
  BY DEF PipeTypesInv
<1>b. /\ outq \in [Ends -> Seq(Ids \cup {EmptyText})] /\ hand \in [Ends -> Ids \cup {None}]
      /\ inst \in [Ends -> Ids \cup {None, Free}] /\ written \in [Ends -> SUBSET Ids]
      /\ pc \in [Ends -> [Threads -> Places]]
  BY <1>a DEF PipeVarTypes
<1>1. UNCHANGED <<inq, taken, handlers, got, sent, overlap>>
  BY DEF OutThread, Test, PopOut, Open, Wait, SetModeFails, Write, Sent, queueVars, pipeVars, ghostVars
<1>2. /\ outq'[p] = outq[p] /\ hand'[p] = hand[p] /\ written'[e] = written[e] /\ inst'[e] = inst[e]
  <2>1. CASE Test(e, "out")
    BY <2>1 DEF Test, queueVars, pipeVars
  <2>2. CASE PopOut(e)
    BY <1>b, <2>2 DEF PopOut, pipeVars
  <2>3. CASE Open(e)
    BY <1>b, <2>3 DEF Open, Sent
  <2>4. CASE Wait(e)
    BY <1>b, <2>4 DEF Wait, Sent, pipeVars
  <2>5. CASE Write(e)
    BY <1>b, <2>5 DEF Write, Sent
  <2>6. CASE SetModeFails(e)
    BY <1>b, <2>6 DEF SetModeFails, Sent, pipeVars
  <2> QED BY <2>1, <2>2, <2>3, <2>4, <2>5, <2>6 DEF OutThread
<1>3. ReadingClients(p)' = ReadingClients(p) /\ ReadingClients(e)' = ReadingClients(e)
  BY <1>1 DEF ReadingClients
<1>4. Pending(p)' = Pending(p)
  BY <1>1, <1>2, <1>3, PendingIs
<1>5. InQueue(outq'[e]) \cup ({hand'[e]} \cap Ids) \subseteq InQueue(outq[e]) \cup ({hand[e]} \cap Ids)
  <2>1. CASE outq'[e] = outq[e] /\ hand'[e] \in {hand[e], None}
    BY <2>1
  <2>2. CASE outq[e] # <<>> /\ outq'[e] = Tail(outq[e]) /\ hand'[e] \in {hand[e], Head(outq[e])}
    <3> PICK q \in Seq(Ids \cup {EmptyText}) : q = outq[e]
      BY <1>b
    <3>1. InQueue(q) = InQueue(Tail(q)) \cup ({Head(q)} \cap Ids)
      BY <2>2, TakeFirst
    <3> QED BY <2>2, <3>1
  <2>3. CASE Test(e, "out")
    BY <2>1, <2>3 DEF Test, queueVars
  <2>4. CASE PopOut(e)
    BY <1>b, <2>1, <2>2, <2>4 DEF PopOut
  <2>5. CASE Open(e) \/ Wait(e) \/ SetModeFails(e) \/ Write(e)
    BY <1>b, <2>1, <2>5 DEF Open, Wait, SetModeFails, Write, Sent
  <2> QED BY <2>3, <2>4, <2>5 DEF OutThread
<1>6. written'[p] \cap ({inst'[p]} \cup ReadingClients(p))
        \subseteq (written[p] \cap ({inst[p]} \cup ReadingClients(p))) \cup ({hand[e]} \cap Ids)
  <2>1. CASE written'[p] = written[p] /\ inst'[p] \in {inst[p], hand[e]}
    BY <1>b, <2>1
  <2>2. CASE inst'[p] = inst[p] /\ written'[p] \in {written[p], written[p] \cup {hand[e]}} /\ hand[e] \in Ids
    BY <1>b, <2>2
  <2>3. CASE Test(e, "out") \/ PopOut(e) \/ Wait(e) \/ SetModeFails(e)
    BY <2>1, <2>3 DEF Test, PopOut, Wait, SetModeFails, pipeVars
  <2>4. CASE Open(e)
    BY <1>b, <2>1, <2>4 DEF Open
  <2>5. CASE Write(e)
    <3>1. hand[e] \in Ids
      BY <1>a, <1>b, <2>5 DEF Write, EndOK, At
    <3> QED BY <1>b, <2>2, <2>5, <3>1 DEF Write
  <2> QED BY <2>3, <2>4, <2>5 DEF OutThread
<1>7. Pending(e)' \subseteq Pending(e)
  <2>1. Pending(e) = OnItsWay(outq[e], hand[e], inq[p], taken[p], written[p], inst[p], ReadingClients(p))
    BY PendingIs
  <2>2. Pending(e)' = OnItsWay(outq'[e], hand'[e], inq[p], taken[p], written'[p], inst'[p], ReadingClients(p))
    BY <1>1, <1>3, PendingIs
  <2> QED BY <1>5, <1>6, <2>1, <2>2 DEF OnItsWay
<1> QED BY <1>4, <1>7

\* The server, the handlers and the in thread up to the callback do so too.
LEMMA PendingIn ==
    ASSUME PipeTypesInv, NEW e \in Ends, PopIn(e) \/ Create(e) \/ HandOver(e) \/ Handler(e)
    PROVE  Pending(e)' \subseteq Pending(e) /\ Pending(Peer(e))' \subseteq Pending(Peer(e))
<1> USE Markers
<1> PICK p \in Ends : p = Peer(e) /\ p # e /\ Peer(p) = e
  BY PeerIsOther
<1>a. PipeVarTypes /\ EndOK(pc[e], hand[e], taken[e], inst[e])
  BY DEF PipeTypesInv
<1>b. /\ inq \in [Ends -> Seq(Texts)] /\ taken \in [Ends -> Texts \cup {None}]
      /\ inst \in [Ends -> Ids \cup {None, Free}] /\ written \in [Ends -> SUBSET Ids]
      /\ handlers \in [Ends -> SUBSET [client : Ids, next : {"read", "close"}]]
      /\ pc \in [Ends -> [Threads -> Places]]
  BY <1>a DEF PipeVarTypes
<1>1. UNCHANGED <<outq, hand>>
  BY DEF PopIn, Create, HandOver, Handler, Read, CloseInstance, queueVars
<1>2. /\ inq'[p] = inq[p] /\ taken'[p] = taken[p] /\ written'[p] = written[p] /\ inst'[p] = inst[p]
      /\ handlers'[p] = handlers[p]
  <2>1. CASE PopIn(e)
    BY <1>b, <2>1 DEF PopIn, pipeVars
  <2>2. CASE Create(e)
    BY <1>b, <2>2 DEF Create, queueVars
  <2>3. CASE HandOver(e)
    BY <1>b, <2>3 DEF HandOver, queueVars
  <2>4. CASE Handler(e)
    BY <1>b, <2>4 DEF Handler, Read, CloseInstance, queueVars
  <2> QED BY <2>1, <2>2, <2>3, <2>4
<1>3. ReadingClients(p)' = ReadingClients(p)
  BY <1>2 DEF ReadingClients
<1>4. Pending(e)' = Pending(e)
  BY <1>1, <1>2, <1>3, PendingIs
<1>5. /\ InQueue(inq'[e]) \cup ({taken'[e]} \cap Ids)
           \subseteq InQueue(inq[e]) \cup ({taken[e]} \cap Ids) \cup (written[e] \cap ReadingClients(e))
      /\ written'[e] \cap ({inst'[e]} \cup ReadingClients(e)') \subseteq written[e] \cap ({inst[e]} \cup ReadingClients(e))
  <2>1. CASE PopIn(e)
    <3>1. UNCHANGED <<written, inst, handlers>>
      BY <2>1 DEF PopIn, pipeVars
    <3>2. CASE inq'[e] = inq[e] /\ taken'[e] = taken[e]
      BY <3>1, <3>2 DEF ReadingClients
    <3>3. CASE inq[e] # <<>> /\ inq'[e] = Tail(inq[e]) /\ taken'[e] = Head(inq[e])
      <4> PICK q \in Seq(Texts) : q = inq[e]
        BY <1>b
      <4>1. InQueue(q) = InQueue(Tail(q)) \cup ({Head(q)} \cap Ids)
        BY <3>3, TakeFirst
      <4> QED BY <3>1, <3>3, <4>1 DEF ReadingClients
    <3> QED BY <1>b, <2>1, <3>2, <3>3 DEF PopIn
  <2>2. CASE Create(e)
    BY <1>b, <2>2 DEF Create, queueVars, ReadingClients
  <2>3. CASE HandOver(e)
    <3>1. UNCHANGED <<inq, taken, written>> /\ inst'[e] = None
      BY <1>b, <2>3 DEF HandOver, queueVars
    <3>2. handlers'[e] \subseteq handlers[e] \cup {[client |-> inst[e], next |-> "read"]}
      BY <1>b, <2>3 DEF HandOver
    <3>3. ReadingClients(e)' \subseteq ReadingClients(e) \cup {inst[e]}
      BY <3>2 DEF ReadingClients
    <3> QED BY <1>b, <3>1, <3>3
  <2>4. ASSUME NEW h \in handlers[e], Read(e, h)
        PROVE  /\ InQueue(inq'[e]) \cup ({taken'[e]} \cap Ids)
                    \subseteq InQueue(inq[e]) \cup ({taken[e]} \cap Ids) \cup (written[e] \cap ReadingClients(e))
               /\ written'[e] \cap ({inst'[e]} \cup ReadingClients(e)')
                    \subseteq written[e] \cap ({inst[e]} \cup ReadingClients(e))
    <3>1. UNCHANGED <<written, inst, taken>> /\ h.client \in ReadingClients(e)
      BY <2>4 DEF Read, ReadingClients
    <3>2. PICK m \in Texts : inq'[e] = Append(inq[e], m) /\ (m \in Ids => m = h.client /\ m \in written[e])
      BY <1>b, <2>4 DEF Read, Texts
    <3>3. handlers'[e] = (handlers[e] \ {h}) \cup {[h EXCEPT !.next = "close"]}
      BY <1>b, <2>4 DEF Read
    <3>4. ReadingClients(e)' \subseteq ReadingClients(e)
      <4>1. [h EXCEPT !.next = "close"].next # "read"
        BY <1>b
      <4> QED BY <3>3, <4>1 DEF ReadingClients
    <3>5. InQueue(inq'[e]) = InQueue(inq[e]) \cup ({m} \cap Ids)
      <4> PICK q \in Seq(Texts) : q = inq[e]
        BY <1>b
      <4>1. InQueue(Append(q, m)) = InQueue(q) \cup ({m} \cap Ids)
        BY AppendQueue
      <4> QED BY <3>2, <4>1
    <3> QED BY <3>1, <3>2, <3>4, <3>5
  <2>5. ASSUME NEW h \in handlers[e], CloseInstance(e, h)
        PROVE  /\ InQueue(inq'[e]) \cup ({taken'[e]} \cap Ids)
                    \subseteq InQueue(inq[e]) \cup ({taken[e]} \cap Ids) \cup (written[e] \cap ReadingClients(e))
               /\ written'[e] \cap ({inst'[e]} \cup ReadingClients(e)')
                    \subseteq written[e] \cap ({inst[e]} \cup ReadingClients(e))
    <3>1. UNCHANGED <<inq, taken, inst>> /\ written'[e] \subseteq written[e] /\ handlers'[e] \subseteq handlers[e]
      BY <1>b, <2>5 DEF CloseInstance, queueVars
    <3> QED BY <3>1 DEF ReadingClients
  <2> QED BY <2>1, <2>2, <2>3, <2>4, <2>5 DEF Handler
<1>6. Pending(p)' \subseteq Pending(p)
  <2>1. Pending(p) = OnItsWay(outq[p], hand[p], inq[e], taken[e], written[e], inst[e], ReadingClients(e))
    BY PendingIs
  <2>2. Pending(p)' = OnItsWay(outq[p], hand[p], inq'[e], taken'[e], written'[e], inst'[e], ReadingClients(e)')
    BY <1>1, PendingIs
  <2> QED BY <1>5, <2>1, <2>2 DEF OnItsWay
<1> QED BY <1>4, <1>6

\* What the process of an end held is lost.
LEMMA PendingCrash ==
    ASSUME PipeTypesInv, NEW e \in Ends, Crash(e)
    PROVE  Pending(e)' \subseteq Pending(e) /\ Pending(Peer(e))' \subseteq Pending(Peer(e))
<1> USE Markers
<1> PICK p \in Ends : p = Peer(e) /\ p # e /\ Peer(p) = e
  BY PeerIsOther
<1>a. PipeVarTypes
  BY DEF PipeTypesInv
<1>1. /\ outq'[e] = <<>> /\ hand'[e] = None /\ inq'[e] = <<>> /\ taken'[e] = None /\ inst'[e] = None
      /\ handlers'[e] = {} /\ written'[e] = {}
      /\ outq'[p] = outq[p] /\ hand'[p] = hand[p] /\ inq'[p] = inq[p] /\ taken'[p] = taken[p]
      /\ inst'[p] = inst[p] /\ handlers'[p] = handlers[p] /\ written'[p] = written[p]
  BY <1>a DEF Crash, PipeVarTypes
<1>2. ReadingClients(p)' = ReadingClients(p)
  BY <1>1 DEF ReadingClients
<1>3. InQueue(outq'[e]) = {} /\ InQueue(inq'[e]) = {}
  BY <1>1 DEF InQueue
<1>4. Pending(e)' \subseteq Pending(e)
  BY <1>1, <1>2, <1>3, PendingIs DEF OnItsWay
<1>5. Pending(p)' \subseteq Pending(p)
  BY <1>1, <1>3, PendingIs DEF OnItsWay
<1> QED BY <1>4, <1>5

\* An end that is gone does not come back, and one that was closed is gone or closed.
LEMMA EndsStay ==
    ASSUME PipeVarTypes, [PipeNext]_vars, NEW x \in Ends
    PROVE  /\ Crashed(x) => Crashed(x)'
           /\ closed[x] => closed'[x] \/ Crashed(x)'
<1>a. /\ pc \in [Ends -> [Threads -> Places]] /\ closed \in [Ends -> BOOLEAN]
  BY DEF PipeVarTypes
<1>1. CASE UNCHANGED vars
  BY <1>1 DEF vars, threadVars, Crashed, At
<1>2. ASSUME NEW e \in Ends, NEW t \in Threads, NEW to, Goes(e, t, to), t # "owner" \/ ~Crashed(e)
      PROVE  Crashed(x) => Crashed(x)'
  <2>1. CASE x = e
    BY <1>2, <1>a, <2>1 DEF Goes, Crashed, At, Threads
  <2>2. CASE x # e
    BY <1>2, <1>a, <2>2 DEF Goes, Crashed, At
  <2> QED BY <2>1, <2>2
<1>3. ASSUME NEW e \in Ends, OutThread(e) \/ InThread(e) \/ Server(e)
      PROVE  (Crashed(x) => Crashed(x)') /\ closed' = closed
  <2>1. closed' = closed
    BY <1>3 DEF OutThread, InThread, Server, Test, PopOut, Open, Wait, SetModeFails, Write, PopIn, Dispatch, Create, Connect,
                Connected, HandOver, threadVars
  <2>2. \E t \in {"out", "in", "server"} : \E to : Goes(e, t, to)
    <3>1. CASE OutThread(e)
      BY <3>1 DEF OutThread, Test, PopOut, Open, Wait, SetModeFails, Write, Sent
    <3>2. CASE InThread(e)
      BY <3>2 DEF InThread, Test, PopIn, Dispatch
    <3>3. CASE Server(e)
      BY <3>3 DEF Server, Test, Create, Connect, Connected, HandOver
    <3> QED BY <1>3, <3>1, <3>2, <3>3
  <2> QED BY <1>2, <2>1, <2>2 DEF Threads
<1>4. ASSUME NEW e \in Ends, Handler(e) \/ \E m \in Ids \cup {EmptyText} : SendText(e, m)
      PROVE  (Crashed(x) => Crashed(x)') /\ closed' = closed
  BY <1>4 DEF Handler, Read, CloseInstance, SendText, threadVars, Crashed, At
<1>5. ASSUME NEW e \in Ends, Ending(e)
      PROVE  (Crashed(x) => Crashed(x)') /\ closed' = closed
  <2>1. closed' = closed /\ ~Crashed(e)
    BY <1>5 DEF Ending, CutIn, CutOut, Cancel, Ended, threadVars, Crashed, At
  <2>2. CASE Cancel(e)
    <3>1. x # e => pc'[x] = pc[x]
      BY <1>a, <2>2 DEF Cancel
    <3> QED BY <2>1, <3>1 DEF Crashed, At
  <2>3. CASE \E to : Goes(e, "owner", to)
    BY <1>2, <2>1, <2>3 DEF Threads
  <2> QED BY <1>5, <2>1, <2>2, <2>3 DEF Ending, CutIn, CutOut, Ended
<1>6. ASSUME NEW e \in Ends, End(e)
      PROVE  (Crashed(x) => Crashed(x)') /\ (closed[x] => closed'[x])
  <2>1. Goes(e, "owner", "cut in") /\ ~Crashed(e) /\ closed' = [closed EXCEPT ![e] = TRUE]
    BY <1>6 DEF End, Crashed, At
  <2> QED BY <1>2, <1>a, <2>1 DEF Threads
<1>7. ASSUME NEW e \in Ends, Crash(e)
      PROVE  (Crashed(x) => Crashed(x)') /\ (closed[x] => closed'[x] \/ Crashed(x)')
  <2>1. CASE x = e
    BY <1>7, <1>a, <2>1 DEF Crash, Crashed, At, Threads
  <2>2. CASE x # e
    BY <1>7, <1>a, <2>2 DEF Crash, Crashed, At
  <2> QED BY <2>1, <2>2
<1> QED BY <1>1, <1>3, <1>4, <1>5, <1>6, <1>7 DEF PipeNext, Owner

\* What send is called with: SendText alone adds to it.
LEMMA OnlySends ==
    ASSUME NEW e \in Ends,
           OutThread(e) \/ InThread(e) \/ Server(e) \/ Handler(e) \/ Ending(e) \/ End(e) \/ Crash(e)
    PROVE  sent' = sent
  BY DEF OutThread, InThread, Server, Handler, Ending, Test, PopOut, Open, Wait, SetModeFails, Write, PopIn, Dispatch, Create, Connect,
         Connected, HandOver, Read, CloseInstance, CutIn, CutOut, Cancel, Ended, End, Crash, ghostVars

\* And Dispatch to what the callback is called with.
LEMMA OnlyDispatches ==
    ASSUME NEW e \in Ends,
           \/ OutThread(e) \/ Test(e, "in") \/ PopIn(e) \/ Server(e) \/ Handler(e) \/ Ending(e) \/ End(e) \/ Crash(e)
           \/ \E m \in Ids \cup {EmptyText} : SendText(e, m)
    PROVE  got' = got
  BY DEF OutThread, Server, Handler, Ending, Test, PopOut, Open, Wait, SetModeFails, Write, PopIn, Create, Connect,
         Connected, HandOver, Read, CloseInstance, CutIn, CutOut, Cancel, Ended, End, Crash, SendText, ghostVars

\* A direction that was stopped stays stopped.
LEMMA StoppedStays ==
    ASSUME PipeVarTypes, [PipeNext]_vars, NEW e \in Ends
    PROVE  Stopped(e) => Stopped(e)'
<1> PICK p \in Ends : p = Peer(e)
  BY PeerIsOther
<1>a. sent \in [Ends -> Seq(Ids \cup {EmptyText})]
  BY DEF PipeVarTypes
<1>1. Peer(e)' = p
  BY DEF Peer
<1>2. EmptyText \in {sent[e][i] : i \in 1..Len(sent[e])} => EmptyText \in {sent'[e][i] : i \in 1..Len(sent'[e])}
  <2>1. CASE sent'[e] = sent[e]
    BY <2>1
  <2>2. ASSUME NEW m \in Ids \cup {EmptyText}, SendText(e, m)
        PROVE  EmptyText \in {sent[e][i] : i \in 1..Len(sent[e])} => EmptyText \in {sent'[e][i] : i \in 1..Len(sent'[e])}
    <3> PICK s \in Seq(Ids \cup {EmptyText}) : s = sent[e]
      BY <1>a
    <3>1. sent'[e] = Append(s, m)
      BY <1>a, <2>2 DEF SendText
    <3>2. \A i \in 1..Len(s) : i \in 1..Len(Append(s, m)) /\ Append(s, m)[i] = s[i]
      BY AppendProperties
    <3> QED BY <3>1, <3>2
  <2>3. ASSUME NEW d \in Ends, NEW m \in Ids \cup {EmptyText}, SendText(d, m), d # e
        PROVE  sent'[e] = sent[e]
    BY <1>a, <2>3 DEF SendText
  <2>4. CASE UNCHANGED vars
    BY <2>1, <2>4 DEF vars, ghostVars
  <2>5. ASSUME NEW d \in Ends,
               OutThread(d) \/ InThread(d) \/ Server(d) \/ Handler(d) \/ Ending(d) \/ Owner(d)
        PROVE  EmptyText \in {sent[e][i] : i \in 1..Len(sent[e])} => EmptyText \in {sent'[e][i] : i \in 1..Len(sent'[e])}
    <3>1. CASE \E m \in Ids \cup {EmptyText} : SendText(d, m)
      BY <2>1, <2>2, <2>3, <3>1
    <3>2. CASE OutThread(d) \/ InThread(d) \/ Server(d) \/ Handler(d) \/ Ending(d) \/ End(d) \/ Crash(d)
      BY <2>1, <3>2, OnlySends
    <3> QED BY <2>5, <3>1, <3>2 DEF Owner
  <2> QED BY <2>4, <2>5 DEF PipeNext
<1>3. \A x \in {e, p} : (Crashed(x) => Crashed(x)') /\ (closed[x] => closed'[x] \/ Crashed(x)')
  BY EndsStay
<1> QED BY <1>1, <1>2, <1>3 DEF Stopped

\* The steps of a Channel, read off the direction from s to p.
Loses(s, p) ==
    /\ Pending(s)' \subseteq Pending(s) /\ (Stopped(s) => Stopped(s)')
    /\ InQueue(sent[s])' = InQueue(sent[s]) /\ Messages(got[p])' = Messages(got[p])
Sends(s, p, m) ==
    /\ m \notin InQueue(sent[s]) /\ InQueue(sent[s])' = InQueue(sent[s]) \cup {m}
    /\ Pending(s)' = Pending(s) \cup {m} /\ (Stopped(s)' <=> Stopped(s)) /\ Messages(got[p])' = Messages(got[p])
Delivers(s, p, m) ==
    /\ m \in Pending(s) /\ Pending(s)' = Pending(s) \ {m}
    /\ InQueue(sent[s])' = InQueue(sent[s]) /\ (Stopped(s)' <=> Stopped(s))
    /\ Messages(got[p])' = Append(Messages(got[p]), m)
AsChannel(s, p) == Loses(s, p) \/ \E m \in Ids : Sends(s, p, m) \/ Delivers(s, p, m)

\* A call of send is a new message, or the end of the thread.
LEMMA SendAsChannel ==
    ASSUME PipeInv, PipeInv', NEW e \in Ends, NEW m \in Ids \cup {EmptyText}, SendText(e, m), [PipeNext]_vars,
           NEW s \in Ends, NEW p \in Ends, p = Peer(s)
    PROVE  AsChannel(s, p)
<1> USE Markers
<1>a. /\ sent \in [Ends -> Seq(Ids \cup {EmptyText})] /\ outq \in [Ends -> Seq(Ids \cup {EmptyText})]
      /\ PipeVarTypes
  BY DEF PipeInv, PipeTypesInv, PipeVarTypes
<1>b. Peer(s)' = p
  BY DEF Peer
<1>1. /\ Messages(got[p])' = Messages(got[p])
      /\ hand' = hand /\ inq' = inq /\ taken' = taken /\ written' = written /\ inst' = inst
      /\ ReadingClients(p)' = ReadingClients(p) /\ pc' = pc /\ closed' = closed
  BY DEF SendText, pipeVars, threadVars, ReadingClients
<1>2. CASE s # e
  <2>1. sent'[s] = sent[s] /\ outq'[s] = outq[s]
    BY <1>a, <1>2 DEF SendText
  <2>2. Pending(s)' = Pending(s) /\ InQueue(sent[s])' = InQueue(sent[s])
    BY <1>1, <2>1, PendingIs DEF InQueue
  <2>3. Stopped(s) => Stopped(s)'
    BY <1>a, StoppedStays
  <2> QED BY <1>1, <2>2, <2>3 DEF AsChannel, Loses
<1>3. CASE s = e
  <2> PICK t \in Seq(Ids \cup {EmptyText}) : t = sent[s]
    BY <1>a
  <2> PICK q \in Seq(Ids \cup {EmptyText}) : q = outq[s]
    BY <1>a
  <2>1. sent'[s] = Append(t, m) /\ outq'[s] = Append(q, m) /\ m \in {Len(t) + 1, EmptyText}
    BY <1>a, <1>3 DEF SendText
  <2>2. InQueue(sent[s])' = InQueue(sent[s]) \cup ({m} \cap Ids)
    <3>1. InQueue(Append(t, m)) = InQueue(t) \cup ({m} \cap Ids)
      BY AppendQueue
    <3> QED BY <2>1, <3>1 DEF InQueue
  <2>3. Pending(s)' = Pending(s) \cup ({m} \cap Ids)
    <3> PICK u : u = Append(q, m)
      OBVIOUS
    <3>1. InQueue(u) = InQueue(q) \cup ({m} \cap Ids)
      BY AppendQueue
    <3>2. Pending(s) = OnItsWay(q, hand[s], inq[p], taken[p], written[p], inst[p], ReadingClients(p))
      BY PendingIs
    <3>3. Pending(s)' = OnItsWay(outq'[s], hand'[s], inq'[p], taken'[p], written'[p], inst'[p], ReadingClients(p)')
      BY PendingIs
    <3>4. outq'[s] = u
      BY <2>1
    <3>5. Pending(s)' = OnItsWay(u, hand[s], inq[p], taken[p], written[p], inst[p], ReadingClients(p))
      BY <1>1, <3>3, <3>4, Zenon
    <3> QED BY <3>1, <3>2, <3>5 DEF OnItsWay
  <2>4. CASE m \in Ids
    <3>1. m = Len(t) + 1 /\ Len(t) \in Nat
      BY <2>1, <2>4
    <3>2. \A n \in 1..Len(t) : t[n] \in {n, EmptyText}
      <4>1. PICK r \in Ends : r = Peer(s) /\ Peer(r) = s
        BY PeerIsOther
      <4>2. NumberedAt(r)
        BY DEF PipeInv
      <4> QED BY <4>1, <4>2 DEF NumberedAt, Numbered
    <3>3. m \notin InQueue(t)
      BY <2>4, <3>1, <3>2 DEF InQueue
    <3>4. EmptyText \in {sent'[s][i] : i \in 1..Len(sent'[s])} <=> EmptyText \in {t[i] : i \in 1..Len(t)}
      <4> PICK u, l : u = Append(t, m) /\ l = Len(t)
        OBVIOUS
      <4>1. l \in Nat /\ Len(u) = l + 1 /\ u[l + 1] = m /\ \A i \in 1..l : u[i] = t[i]
        BY AppendProperties
      <4>2. \A i \in 1..(l + 1) : i \in 1..l \/ i = l + 1
        BY <4>1
      <4>3. \A i \in 1..l : i \in 1..(l + 1)
        BY <4>1
      <4>4. sent'[s] = u /\ m # EmptyText
        BY <2>1, <2>4
      <4> QED BY <4>1, <4>2, <4>3, <4>4
    <3>5. Stopped(s)' <=> Stopped(s)
      BY <1>1, <1>b, <3>4 DEF Stopped, Crashed, At
    <3>6. Sends(s, p, m)
      BY <1>1, <2>2, <2>3, <2>4, <3>3, <3>5 DEF Sends
    <3> QED BY <2>4, <3>6 DEF AsChannel
  <2>5. CASE m \notin Ids
    <3>1. Stopped(s) => Stopped(s)'
      BY <1>a, StoppedStays
    <3>2. Loses(s, p)
      BY <1>1, <2>2, <2>3, <2>5, <3>1 DEF Loses
    <3> QED BY <3>2 DEF AsChannel
  <2> QED BY <2>4, <2>5
<1> QED BY <1>2, <1>3

\* A call of the callback is a delivery, unless the message is blank; that the message
\* is nowhere else, to be delivered again, is what the numbers are for.
LEMMA DispatchAsChannel ==
    ASSUME PipeInv, NEW e \in Ends, Dispatch(e),
           NEW s \in Ends, NEW p \in Ends, p = Peer(s)
    PROVE  AsChannel(s, p)
<1> USE Markers
<1>a. /\ got \in [Ends -> Seq(Texts)] /\ taken \in [Ends -> Texts \cup {None}] /\ pc \in [Ends -> [Threads -> Places]]
      /\ PipeVarTypes /\ PipeTypesInv
  BY DEF PipeInv, PipeTypesInv, PipeVarTypes
<1>b. Peer(s)' = p /\ s # p
  BY PeerIsOther DEF Peer
<1>1. /\ outq' = outq /\ hand' = hand /\ inq' = inq /\ written' = written /\ inst' = inst
      /\ ReadingClients(p)' = ReadingClients(p) /\ closed' = closed /\ sent' = sent
  BY DEF Dispatch, pipeVars, threadVars, ReadingClients
<1>2. InQueue(sent[s])' = InQueue(sent[s]) /\ (Stopped(s)' <=> Stopped(s))
  <2>1. \A x \in Ends : pc'[x]["owner"] = pc[x]["owner"]
    BY <1>a DEF Dispatch, Goes, Threads
  <2>2. s \in Ends /\ p \in Ends
    OBVIOUS
  <2> QED BY <1>1, <1>b, <2>1, <2>2 DEF Stopped, Crashed, At, InQueue
<1>3. CASE p # e
  <2>1. got'[p] = got[p] /\ taken'[p] = taken[p]
    BY <1>a, <1>3 DEF Dispatch
  <2>2. Pending(s)' = Pending(s) /\ Messages(got[p])' = Messages(got[p])
    BY <1>1, <2>1, PendingIs
  <2> QED BY <1>2, <2>2 DEF AsChannel, Loses
<1>4. CASE p = e
  <2>1. PICK m \in Texts : /\ m = taken[p] /\ taken'[p] = None
                           /\ got'[p] = Append(got[p], m)
    <3>1. taken[p] # None
      BY <1>4, <1>a DEF Dispatch, PipeTypesInv, EndOK, At
    <3> QED BY <1>a, <1>4, <3>1 DEF Dispatch
  <2>2. Messages(got[p])' = IF m \in Ids THEN Append(Messages(got[p]), m) ELSE Messages(got[p])
    <3> PICK g \in Seq(Texts) : g = got[p]
      BY <1>a
    <3>1. Messages(Append(g, m)) = IF m \in Ids THEN Append(Messages(g), m) ELSE Messages(g)
      BY MessagesAppend
    <3>2. Messages(got[p])' = Messages(Append(g, m))
      BY <2>1
    <3> QED BY <3>1, <3>2
  <2>3. /\ Pending(s) = OnItsWay(outq[s], hand[s], inq[p], m, written[p], inst[p], ReadingClients(p))
        /\ Pending(s)' = OnItsWay(outq[s], hand[s], inq[p], None, written[p], inst[p], ReadingClients(p))
    BY <1>1, <2>1, PendingIs
  <2>4. CASE m \notin Ids
    <3>1. Pending(s)' = Pending(s)
      BY <2>3, <2>4 DEF OnItsWay
    <3> QED BY <1>2, <2>2, <2>4, <3>1 DEF AsChannel, Loses
  <2>5. CASE m \in Ids
    <3>1. m \in Arrived(p)
      BY <2>1, <2>5 DEF Arrived
    <3>2. /\ Numbered(sent[s], outq[s], hand[s], pc[s]["out"], Visited(p), Arrived(p), Clients(p), written[p], inst[p])
          /\ NeverTwice(ReadingClients(p), Arrived(p), inq[p], m)
      <4>1. Peer(p) = s /\ NumberedAt(p) /\ NeverTwiceAt(p)
        BY PeerIsOther DEF PipeInv
      <4> QED BY <2>1, <4>1 DEF NumberedAt, NeverTwiceAt
    <3>3. m \notin InQueue(outq[s])
      <4>1. \A x \in InQueue(outq[s]) : m < x
        BY <3>1, <3>2 DEF Numbered
      <4>2. ~(m < m)
        BY <2>5, IdsNat
      <4> QED BY <4>1, <4>2
    <3>4. m # hand[s] /\ m # inst[p]
      BY <2>5, <3>1, <3>2 DEF Numbered
    <3>5. m \notin ReadingClients(p) /\ m \notin InQueue(inq[p])
      BY <3>1, <3>2 DEF NeverTwice
    <3>6. m \in Pending(s) /\ Pending(s)' = Pending(s) \ {m}
      BY <2>3, <2>5, <3>3, <3>4, <3>5 DEF OnItsWay
    <3>7. Delivers(s, p, m)
      BY <1>2, <2>2, <2>5, <3>6 DEF Delivers
    <3> QED BY <2>5, <3>7 DEF AsChannel
  <2> QED BY <2>4, <2>5
<1> QED BY <1>3, <1>4

\* All other steps move messages, lose them, or leave them alone.
LEMMA OthersAsChannel ==
    ASSUME PipeInv, NEW e \in Ends, [PipeNext]_vars,
           \/ OutThread(e) \/ Test(e, "in") \/ PopIn(e) \/ Server(e) \/ Handler(e) \/ Ending(e)
           \/ End(e) \/ Crash(e) \/ UNCHANGED vars,
           NEW s \in Ends, NEW p \in Ends, p = Peer(s)
    PROVE  AsChannel(s, p)
<1>a. PipeVarTypes /\ PipeTypesInv /\ pc \in [Ends -> [Threads -> Places]]
  BY DEF PipeInv, PipeTypesInv, PipeVarTypes
<1>1. sent' = sent /\ got' = got
  <2>1. CASE UNCHANGED vars
    BY <2>1 DEF vars, ghostVars
  <2>2. CASE ~UNCHANGED vars
    BY <2>2, OnlySends, OnlyDispatches DEF InThread
  <2> QED BY <2>1, <2>2
<1>2. Stopped(s) => Stopped(s)'
  BY <1>a, StoppedStays
<1>3. Pending(s)' \subseteq Pending(s)
  <2>1. s = e \/ s = Peer(e)
    BY PairsAreAll
  <2>2. CASE OutThread(e)
    BY <1>a, <2>1, <2>2, PendingOut
  <2>3. CASE PopIn(e) \/ Create(e) \/ HandOver(e) \/ Handler(e)
    BY <1>a, <2>1, <2>3, PendingIn
  <2>4. CASE Crash(e)
    BY <1>a, <2>1, <2>4, PendingCrash
  <2>5. CASE Test(e, "in") \/ Test(e, "server") \/ Connect(e) \/ Connected(e) \/ End(e) \/ Ending(e) \/ UNCHANGED vars
    <3>1. UNCHANGED <<outq, hand, inq, taken, written, inst, handlers>>
      BY <2>5 DEF Test, Connect, Connected, End, Ending, CutIn, CutOut, Cancel, Ended, vars, queueVars, pipeVars
    <3>2. ReadingClients(p)' = ReadingClients(p)
      BY <3>1 DEF ReadingClients
    <3> QED BY <3>1, <3>2, PendingIs
  <2> QED BY <2>2, <2>3, <2>4, <2>5 DEF Server
<1> QED BY <1>1, <1>2, <1>3 DEF AsChannel, Loses, InQueue

\* Every step of the pipe is a step of the Channel, or changes nothing of it.
LEMMA StepAsChannel ==
    ASSUME PipeInv, [PipeNext]_vars, NEW s \in Ends, NEW p \in Ends, p = Peer(s)
    PROVE  AsChannel(s, p)
<1>1. PipeInv'
  BY PipeInvStep
<1>2. CASE UNCHANGED vars
  <2> PICK e \in Ends : TRUE
    OBVIOUS
  <2> QED BY <1>2, OthersAsChannel
<1>3. CASE PipeNext
  <2> PICK e \in Ends : OutThread(e) \/ InThread(e) \/ Server(e) \/ Handler(e) \/ Ending(e) \/ Owner(e)
    BY <1>3 DEF PipeNext
  <2>1. CASE \E m \in Ids \cup {EmptyText} : SendText(e, m)
    BY <1>1, <2>1, SendAsChannel
  <2>2. CASE Dispatch(e)
    BY <2>2, DispatchAsChannel
  <2>3. CASE \/ OutThread(e) \/ Test(e, "in") \/ PopIn(e) \/ Server(e) \/ Handler(e) \/ Ending(e)
             \/ End(e) \/ Crash(e)
    BY <2>3, OthersAsChannel
  <2> QED BY <2>1, <2>2, <2>3 DEF InThread, Owner
<1> QED BY <1>2, <1>3

\* The direction from the sender is a Channel: whatever crashes, is cut off or is
\* lost, a message the callback gets was sent, and the callback gets it once.
THEOREM ImplementsChannelSafety == PipeSpec => Way!ChannelInit /\ [][Way!ChannelNext]_(Way!channelVars)
<1> PICK s \in Ends : s = From
  BY PipeAssumption DEF From
<1> PICK p \in Ends : p = Peer(s)
  BY PeerIsOther
<1>a. From = s /\ From' = s /\ Peer(From) = p
  BY DEF From
<1>1. PipeInit => Way!ChannelInit
  <2> SUFFICES ASSUME PipeInit PROVE Way!ChannelInit
    OBVIOUS
  <2> USE Markers
  <2>1. /\ sent[s] = <<>> /\ outq[s] = <<>> /\ hand[s] = None /\ got[p] = <<>> /\ inq[p] = <<>> /\ taken[p] = None
        /\ written[p] = {} /\ \A x \in Ends : ~closed[x] /\ sent[x] = <<>> /\ ~Crashed(x)
    BY DEF PipeInit, Crashed, At, Threads, Begin, Rest
  <2>2. InQueue(sent[s]) = {}
    BY <2>1 DEF InQueue
  <2>3. Pending(s) = {}
    BY <2>1, PendingIs DEF OnItsWay, InQueue
  <2>4. Messages(got[p]) = <<>>
    BY <2>1, MessagesAppend
  <2>5. ~Stopped(s)
    BY <2>1 DEF Stopped
  <2>6. Stopped(s) = FALSE
    BY <2>5 DEF Stopped
  <2> QED BY <1>a, <2>2, <2>3, <2>4, <2>6 DEF Way!ChannelInit
<1>2. PipeInv /\ [PipeNext]_vars => [Way!ChannelNext]_(Way!channelVars)
  <2> SUFFICES ASSUME PipeInv, [PipeNext]_vars PROVE Way!ChannelNext
    OBVIOUS
  <2>1. AsChannel(s, p)
    BY StepAsChannel
  <2>2. CASE Loses(s, p)
    <3>1. Stopped(s) \in {Stopped(s)', FALSE}
      BY <2>2 DEF Loses, Stopped
    <3> QED BY <1>a, <2>2, <3>1 DEF Loses, Way!ChannelNext, Way!Lose
  <2>3. ASSUME NEW m \in Ids, Sends(s, p, m) PROVE Way!ChannelNext
    <3>1. Stopped(s)' = Stopped(s)
      BY <2>3 DEF Sends, Stopped
    <3> QED BY <1>a, <2>3, <3>1 DEF Sends, Way!ChannelNext, Way!Send
  <2>4. ASSUME NEW m \in Ids, Delivers(s, p, m) PROVE Way!ChannelNext
    <3>1. Stopped(s)' = Stopped(s)
      BY <2>4 DEF Delivers, Stopped
    <3> QED BY <1>a, <2>4, <3>1 DEF Delivers, Way!ChannelNext, Way!Deliver
  <2> QED BY <2>1, <2>2, <2>3, <2>4 DEF AsChannel
<1>3. PipeSpec => []PipeInv
  BY PipeInvInit, PipeInvStep, PTL DEF PipeSpec
<1> QED BY <1>1, <1>2, <1>3, PTL DEF PipeSpec

=============================================================================

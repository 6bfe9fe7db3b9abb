-------------------------------- MODULE Pipe --------------------------------
(***************************************************************************)
(* TwoWayPipeMessageIPC at both of its ends.  Each end has a thread that   *)
(* takes messages from its output queue and writes each through a          *)
(* connection of its own to the other end's pipe, a server thread that     *)
(* creates the instances of its own pipe one after the other, a detached   *)
(* handler per connection, and a thread that takes what the handlers have  *)
(* queued to the callback.  end() stops all of them but the handlers.      *)
(***************************************************************************)
EXTENDS Integers, Sequences

CONSTANTS
    Ends,       \* the two objects, in two processes
    Senders,    \* those whose owner calls send
    MayCrash,   \* those whose process may end at any time
    EmptyText,  \* the empty string
    Blank,      \* what a handler makes of a client that has written nothing
    None,       \* no message, no instance
    Free,       \* an instance without a client
    Resting,    \* BOUND: <<end, thread>> that wait already when the others start
    MaxSends    \* BOUND: calls of send, per end

\* The messages of an end, numbered as they are sent.
Ids     == 1..MaxSends
Threads == {"owner", "out", "server", "in"}

ASSUME PipeAssumption ==
    /\ \E a, b \in Ends : a # b /\ Ends = {a, b}
    /\ Senders \subseteq Ends /\ Senders # {} /\ MayCrash \subseteq Ends
    /\ Resting \subseteq Ends \X {"out", "server", "in"}
    /\ MaxSends \in Nat
    /\ {EmptyText, Blank, None, Free} \cap Ids = {} /\ None \notin {Free, Blank}

VARIABLES
    pc,         \* where the threads of an end are: its owner, "out", "server", "in"
    closed, cut,            \* closed; the queues that were interrupted
    outq, inq, hand, taken, \* the queues, and what their threads have taken
    inst,       \* the instance the server waits with: None, Free, or its client
    handlers,   \* the handlers: the client of each, and what it is about to do
    written,    \* clients of an end whose message is in the pipe
    sent, got,  \* what send and the callback were called with
    missed,     \* ghost: end() found no connect to cancel
    overlap     \* ghost: two handlers had something to queue at one time

threadVars == <<closed, cut>>
queueVars  == <<outq, inq, hand, taken>>
pipeVars   == <<inst, handlers, written>>
ghostVars  == <<sent, got, missed, overlap>>
vars == <<pc, threadVars, queueVars, pipeVars, ghostVars>>

Peer(e) == CHOOSE p \in Ends : p # e

At(e, t, places) == pc[e][t] \in places
Goes(e, t, to)   == pc' = [pc EXCEPT ![e][t] = to]
Crashed(e)       == At(e, "owner", {"crashed"})

Begin == [owner |-> "running", out |-> "test", server |-> "test", in |-> "test"]
Rest  == [owner |-> "running", out |-> "pop", server |-> "pending", in |-> "pop"]
Texts == Ids \cup {Blank}

PipeTypesOK ==
    /\ \A e \in Ends :
         /\ At(e, "owner", {"running", "cut in", "join in", "join out", "join server", "ended", "crashed"})
         /\ At(e, "out", {"test", "pop", "open", "wait", "write", "done", "crashed"})
         /\ At(e, "server", {"test", "create", "connect", "pending", "connected", "failed", "done", "crashed"})
         /\ At(e, "in", {"test", "pop", "dispatch", "done", "crashed"})
         /\ hand[e] # None <=> At(e, "out", {"open", "wait", "write"})
         /\ taken[e] # None <=> At(e, "in", {"dispatch"})
         /\ inst[e] # None => At(e, "server", {"connect", "pending", "connected", "failed"})
    /\ closed \in [Ends -> BOOLEAN] /\ cut \in [Ends -> SUBSET {"in", "out"}]
    /\ outq \in [Ends -> Seq(Ids \cup {EmptyText})] /\ inq \in [Ends -> Seq(Texts)]
    /\ hand \in [Ends -> Ids \cup {None}] /\ taken \in [Ends -> Texts \cup {None}]
    /\ inst \in [Ends -> Ids \cup {None, Free}]
    /\ handlers \in [Ends -> SUBSET [client : Ids, next : {"read", "close"}]]
    /\ written \in [Ends -> SUBSET Ids]
    /\ sent \in [Ends -> Seq(Ids \cup {EmptyText})] /\ got \in [Ends -> Seq(Texts)]
    /\ missed \in [Ends -> BOOLEAN] /\ overlap \in [Ends -> BOOLEAN]

PipeInit ==
    /\ pc = [e \in Ends |-> [t \in Threads |-> IF <<e, t>> \in Resting THEN Rest[t] ELSE Begin[t]]]
    /\ closed = [e \in Ends |-> FALSE] /\ cut = [e \in Ends |-> {}]
    /\ outq = [e \in Ends |-> <<>>] /\ inq = [e \in Ends |-> <<>>]
    /\ hand = [e \in Ends |-> None] /\ taken = [e \in Ends |-> None]
    /\ inst = [e \in Ends |-> IF <<e, "server">> \in Resting THEN Free ELSE None]
    /\ handlers = [e \in Ends |-> {}]
    /\ written = [e \in Ends |-> {}]
    /\ sent = [e \in Ends |-> <<>>] /\ got = [e \in Ends |-> <<>>]
    /\ missed = [e \in Ends |-> FALSE] /\ overlap = [e \in Ends |-> FALSE]

-----------------------------------------------------------------------------
\* send: queue_message on the output queue.
SendText(e, m) ==
    /\ e \in Senders /\ At(e, "owner", {"running"})
    /\ Len(sent[e]) < MaxSends
    /\ m \in {Len(sent[e]) + 1, EmptyText}
    /\ sent' = [sent EXCEPT ![e] = Append(@, m)]
    /\ outq' = [outq EXCEPT ![e] = Append(@, m)]
    /\ UNCHANGED <<pc, threadVars, inq, hand, taken, pipeVars, got, missed, overlap>>

\* while (!closed), of all three threads.
Test(e, t) ==
    /\ At(e, t, {"test"}) /\ t # "owner"
    /\ Goes(e, t, IF closed[e] THEN "done" ELSE IF t = "server" THEN "create" ELSE "pop")
    /\ UNCHANGED <<threadVars, queueVars, pipeVars, ghostVars>>

\* pop_message, of which an interrupted queue, and an empty message, make an
\* empty string: the thread ends.
PopOut(e) ==
    /\ At(e, "out", {"pop"})
    /\ \/ /\ "out" \in cut[e]
          /\ Goes(e, "out", "done")
          /\ UNCHANGED <<outq, hand>>
       \/ /\ "out" \notin cut[e] /\ outq[e] # <<>>
          /\ outq' = [outq EXCEPT ![e] = Tail(@)]
          /\ IF Head(outq[e]) = EmptyText
               THEN Goes(e, "out", "done") /\ UNCHANGED hand
               ELSE Goes(e, "out", "open") /\ hand' = [hand EXCEPT ![e] = Head(outq[e])]
    /\ UNCHANGED <<threadVars, inq, taken, pipeVars, ghostVars>>

\* Mutant: the message stays in the queue.
PopInStays(e) ==
    /\ At(e, "in", {"pop"})
    /\ \/ /\ "in" \in cut[e]
          /\ Goes(e, "in", "done")
          /\ UNCHANGED <<inq, taken>>
       \/ /\ "in" \notin cut[e] /\ inq[e] # <<>>
          /\ Goes(e, "in", "dispatch") /\ taken' = [taken EXCEPT ![e] = Head(inq[e])]
          /\ UNCHANGED inq
    /\ UNCHANGED <<threadVars, outq, hand, pipeVars, ghostVars>>

\* Mutant: the message that came last is taken first.
PopInLast(e) ==
    /\ At(e, "in", {"pop"})
    /\ \/ /\ "in" \in cut[e]
          /\ Goes(e, "in", "done")
          /\ UNCHANGED <<inq, taken>>
       \/ /\ "in" \notin cut[e] /\ inq[e] # <<>>
          /\ inq' = [inq EXCEPT ![e] = SubSeq(@, 1, Len(@) - 1)]
          /\ Goes(e, "in", "dispatch") /\ taken' = [taken EXCEPT ![e] = inq[e][Len(inq[e])]]
    /\ UNCHANGED <<threadVars, outq, hand, pipeVars, ghostVars>>

PopIn(e) ==
    /\ At(e, "in", {"pop"})
    /\ \/ /\ "in" \in cut[e]
          /\ Goes(e, "in", "done")
          /\ UNCHANGED <<inq, taken>>
       \/ /\ "in" \notin cut[e] /\ inq[e] # <<>>
          /\ inq' = [inq EXCEPT ![e] = Tail(@)]
          /\ Goes(e, "in", "dispatch") /\ taken' = [taken EXCEPT ![e] = Head(inq[e])]
    /\ UNCHANGED <<threadVars, outq, hand, pipeVars, ghostVars>>

\* dispatch_inc_message_function
Dispatch(e) ==
    /\ At(e, "in", {"dispatch"})
    /\ Goes(e, "in", "test")
    /\ got' = [got EXCEPT ![e] = Append(@, taken[e])]
    /\ taken' = [taken EXCEPT ![e] = None]
    /\ UNCHANGED <<threadVars, outq, inq, hand, pipeVars, sent, missed, overlap>>

-----------------------------------------------------------------------------
Clients(e) == {h.client : h \in handlers[e]}

\* There are instances of the pipe, if only busy ones.
Exists(e) == inst[e] # None \/ handlers[e] # {}

\* send_pipe_message returns.
Sent(e) == Goes(e, "out", "test") /\ hand' = [hand EXCEPT ![e] = None]

\* CreateFile: an instance without a client is taken; if all are busy, it is
\* waited for; if there is none, the message is lost.
Open(e) ==
    LET p == Peer(e)
    IN  /\ At(e, "out", {"open"})
        /\ \/ /\ inst[p] = Free
              /\ inst' = [inst EXCEPT ![p] = hand[e]]
              /\ Goes(e, "out", "write")
              /\ UNCHANGED hand
           \/ /\ inst[p] # Free /\ Exists(p)
              /\ Goes(e, "out", "wait")
              /\ UNCHANGED <<inst, hand>>
           \/ /\ ~Exists(p)
              /\ Sent(e)
              /\ UNCHANGED inst
    /\ UNCHANGED <<threadVars, outq, inq, taken, handlers, written, ghostVars>>

\* Mutant: the thread keeps the message that is lost.
WaitKeeps(e) ==
    /\ At(e, "out", {"wait"})
    /\ \/ inst[Peer(e)] = Free /\ Goes(e, "out", "open")
       \/ Goes(e, "out", "test")
    /\ UNCHANGED <<threadVars, queueVars, pipeVars, ghostVars>>

\* WaitNamedPipe: until there is one, or the time is up.
Wait(e) ==
    /\ At(e, "out", {"wait"})
    /\ \/ /\ inst[Peer(e)] = Free
          /\ Goes(e, "out", "open")
          /\ UNCHANGED hand
       \/ Sent(e)
    /\ UNCHANGED <<threadVars, outq, inq, taken, pipeVars, ghostVars>>

\* SetNamedPipeHandleState fails: the message is lost, and the client stays open.
SetModeFails(e) ==
    /\ At(e, "out", {"write"})
    /\ Sent(e)
    /\ UNCHANGED <<threadVars, outq, inq, taken, pipeVars, ghostVars>>

\* WriteFile, which fails when the other end has closed the instance.
Write(e) ==
    LET p == Peer(e)
    IN  /\ At(e, "out", {"write"})
        /\ written' = IF hand[e] \in Clients(p) \cup {inst[p]}
                        THEN [written EXCEPT ![p] = @ \cup {hand[e]}] ELSE written
        /\ Sent(e)
        /\ UNCHANGED <<threadVars, outq, inq, taken, inst, handlers, ghostVars>>

-----------------------------------------------------------------------------
\* CreateNamedPipe, under the lock with current_connect_pipe_handle; when it
\* fails the thread ends, and no more clients are served.
Create(e) ==
    /\ At(e, "server", {"create"})
    /\ \/ /\ Goes(e, "server", "connect")
          /\ inst' = [inst EXCEPT ![e] = Free]
       \/ /\ Goes(e, "server", "done")
          /\ UNCHANGED inst
    /\ UNCHANGED <<threadVars, queueVars, handlers, written, ghostVars>>

\* A client is there as long as its thread has not written, or for ever if that
\* could not set the mode.
Stays(e) == inst[e] = hand[Peer(e)] \/ (inst[e] \notin written[e] /\ ~Crashed(Peer(e)))

\* ConnectNamedPipe is called: a client may have come before, which makes
\* ERROR_PIPE_CONNECTED, or have come and gone, which makes another error.
Connect(e) ==
    /\ At(e, "server", {"connect"})
    /\ Goes(e, "server", IF inst[e] = Free THEN "pending" ELSE IF Stays(e) THEN "connected" ELSE "failed")
    /\ UNCHANGED <<threadVars, queueVars, pipeVars, ghostVars>>

\* ConnectNamedPipe returns.
Connected(e) ==
    /\ At(e, "server", {"pending"}) /\ inst[e] # Free
    /\ Goes(e, "server", "connected")
    /\ UNCHANGED <<threadVars, queueVars, pipeVars, ghostVars>>

\* A thread for the client, or the end of the instance if there is none, even
\* when one has come since.
HandOver(e) ==
    /\ At(e, "server", {"connected", "failed"})
    /\ Goes(e, "server", "test")
    /\ handlers' = IF At(e, "server", {"failed"}) THEN handlers
                   ELSE [handlers EXCEPT ![e] = @ \cup {[client |-> inst[e], next |-> "read"]}]
    /\ overlap' = [overlap EXCEPT ![e] = @ \/ \E h \in handlers[e] : h.next = "read"]
    /\ inst' = [inst EXCEPT ![e] = None]
    /\ UNCHANGED <<threadVars, queueVars, written, sent, got, missed>>

\* handle_pipe_connection up to queue_message.  ReadFile returns when the client
\* has written, or is gone: then what is queued are the zeros of the buffer.
Read(e, h) ==
    /\ h \in handlers[e] /\ h.next = "read"
    /\ h.client \in written[e] \/ Crashed(Peer(e))
    /\ inq' = [inq EXCEPT ![e] = Append(@, IF h.client \in written[e] THEN h.client ELSE Blank)]
    /\ handlers' = [handlers EXCEPT ![e] = (@ \ {h}) \cup {[h EXCEPT !.next = "close"]}]
    /\ UNCHANGED <<pc, threadVars, outq, hand, taken, inst, written, ghostVars>>

\* DisconnectNamedPipe, CloseHandle
CloseInstance(e, h) ==
    /\ h \in handlers[e] /\ h.next = "close"
    /\ handlers' = [handlers EXCEPT ![e] = @ \ {h}]
    /\ written' = [written EXCEPT ![e] = @ \ {h.client}]
    /\ UNCHANGED <<pc, threadVars, queueVars, inst, ghostVars>>

-----------------------------------------------------------------------------
\* end(): one step up to each interrupt, join and cancel.
End(e) ==
    /\ At(e, "owner", {"running"})
    /\ Goes(e, "owner", "cut in")
    /\ closed' = [closed EXCEPT ![e] = TRUE]
    /\ UNCHANGED <<cut, queueVars, pipeVars, ghostVars>>

CutIn(e) ==
    /\ At(e, "owner", {"cut in"})
    /\ Goes(e, "owner", "join in")
    /\ cut' = [cut EXCEPT ![e] = @ \cup {"in"}]
    /\ UNCHANGED <<closed, queueVars, pipeVars, ghostVars>>

CutOut(e) ==
    /\ At(e, "owner", {"join in"}) /\ At(e, "in", {"done"})
    /\ Goes(e, "owner", "join out")
    /\ cut' = [cut EXCEPT ![e] = @ \cup {"out"}]
    /\ UNCHANGED <<closed, queueVars, pipeVars, ghostVars>>

\* Mutant: the connect is not cancelled.
CancelNot(e) ==
    /\ At(e, "owner", {"join out"}) /\ At(e, "out", {"done"})
    /\ Goes(e, "owner", "join server")
    /\ missed' = [missed EXCEPT ![e] = At(e, "server", {"create", "connect"})]
    /\ UNCHANGED <<threadVars, queueVars, pipeVars, sent, got, overlap>>

\* CancelIoEx ends a connect that is pending, and nothing else.
Cancel(e) ==
    /\ At(e, "owner", {"join out"}) /\ At(e, "out", {"done"})
    /\ LET to == IF At(e, "server", {"pending"}) /\ inst[e] = Free THEN "failed" ELSE pc[e].server
       IN  pc' = [pc EXCEPT ![e] = [@ EXCEPT !.owner = "join server", !.server = to]]
    /\ missed' = [missed EXCEPT ![e] = At(e, "server", {"create", "connect"})]
    /\ UNCHANGED <<threadVars, queueVars, pipeVars, sent, got, overlap>>

Ended(e) ==
    /\ At(e, "owner", {"join server"}) /\ At(e, "server", {"done"})
    /\ Goes(e, "owner", "ended")
    /\ UNCHANGED <<threadVars, queueVars, pipeVars, ghostVars>>

\* The process of an end is gone, with its threads and its side of the pipes.
Crash(e) ==
    /\ e \in MayCrash /\ ~Crashed(e)
    /\ pc' = [pc EXCEPT ![e] = [t \in Threads |-> "crashed"]]
    /\ outq' = [outq EXCEPT ![e] = <<>>] /\ inq' = [inq EXCEPT ![e] = <<>>]
    /\ hand' = [hand EXCEPT ![e] = None] /\ taken' = [taken EXCEPT ![e] = None]
    /\ inst' = [inst EXCEPT ![e] = None] /\ handlers' = [handlers EXCEPT ![e] = {}]
    /\ written' = [written EXCEPT ![e] = {}]
    /\ closed' = [closed EXCEPT ![e] = FALSE] /\ cut' = [cut EXCEPT ![e] = {}]
    /\ missed' = [missed EXCEPT ![e] = FALSE]
    /\ UNCHANGED <<sent, got, overlap>>

-----------------------------------------------------------------------------
OutThread(e) == Test(e, "out") \/ PopOut(e) \/ Open(e) \/ Wait(e) \/ SetModeFails(e) \/ Write(e)
InThread(e)  == Test(e, "in") \/ PopIn(e) \/ Dispatch(e)
Server(e)    == Test(e, "server") \/ Create(e) \/ Connect(e) \/ Connected(e) \/ HandOver(e)
Handler(e)   == \E h \in handlers[e] : Read(e, h) \/ CloseInstance(e, h)
Ending(e)    == CutIn(e) \/ CutOut(e) \/ Cancel(e) \/ Ended(e)
Owner(e)     == End(e) \/ Crash(e) \/ \E m \in Ids \cup {EmptyText} : SendText(e, m)

PipeNext ==
    \E e \in Ends : OutThread(e) \/ InThread(e) \/ Server(e) \/ Handler(e) \/ Ending(e) \/ Owner(e)

\* The threads are scheduled; nobody has to send, or to end.
PipeSpec ==
    /\ PipeInit
    /\ [][PipeNext]_vars
    /\ \A e \in Ends :
         WF_vars(OutThread(e)) /\ WF_vars(InThread(e)) /\ WF_vars(Server(e))
           /\ WF_vars(Handler(e)) /\ WF_vars(Ending(e))

-----------------------------------------------------------------------------
InQueue(q) == {q[i] : i \in 1..Len(q)} \cap Ids

\* Where a message of e is on its way: queued, in the hand of a thread, or in
\* the pipe.
Pending(e) ==
    LET p == Peer(e)
    IN  InQueue(outq[e]) \cup InQueue(inq[p]) \cup ({hand[e], taken[p]} \cap Ids)
          \cup (written[p] \cap ({inst[p]} \cup {h.client : h \in {g \in handlers[p] : g.next = "read"}}))

\* An end was told to stop, by end(), its process, or an empty message.
Stopped(e) == \E x \in {e, Peer(e)} : closed[x] \/ Crashed(x) \/ EmptyText \in {sent[e][i] : i \in 1..Len(sent[e])}

\* The messages of a queue, without the blank ones.
Messages(q) ==
    LET upTo[n \in 0..Len(q)] ==
          IF n = 0 THEN <<>> ELSE IF q[n] \in Ids THEN Append(upTo[n - 1], q[n]) ELSE upTo[n - 1]
    IN  upTo[Len(q)]

\* The direction that is compared with a Channel.
From == CHOOSE e \in Senders : TRUE

Way == INSTANCE Channel WITH
    sent <- InQueue(sent[From]), pending <- Pending(From),
    got <- Messages(got[Peer(From)]), stopped <- Stopped(From)

\* A direction is a Channel: what the callback gets was sent, is given to it
\* once, and no message lies about for ever while both ends are at work.
ImplementsChannel == Way!ChannelSpec

\* As long as no two handlers are at work at the same time the messages come in
\* the order in which they were sent, whatever is lost of them.
InOrder ==
    \A e \in Ends : ~overlap[e] =>
        \A i, j \in 1..Len(got[e]) :
            (i < j /\ got[e][i] \in Ids /\ got[e][j] \in Ids) => got[e][i] < got[e][j]

\* end() returns, unless it came between the server's test of closed and its
\* wait for a client, and no client ever comes.
EndReturns ==
    \A e \in Ends : closed[e] ~> (At(e, "owner", {"ended", "crashed"}) \/ missed[e])
=============================================================================

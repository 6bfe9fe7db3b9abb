------------------------------ MODULE Channel ------------------------------
(***************************************************************************)
(* What TwoWayPipeMessageIPC promises in one direction: a message that was *)
(* sent is handed to the other side's callback at most once, or lost, and  *)
(* does not lie about for ever unless one side has stopped.  It does not   *)
(* promise the order.                                                      *)
(***************************************************************************)
EXTENDS Sequences

CONSTANT Ids

VARIABLES sent, pending, got, stopped

channelVars == <<sent, pending, got, stopped>>

ChannelInit == sent = {} /\ pending = {} /\ got = <<>> /\ stopped = FALSE

Send(m) ==
    /\ m \notin sent
    /\ sent' = sent \cup {m} /\ pending' = pending \cup {m}
    /\ UNCHANGED <<got, stopped>>

Deliver(m) ==
    /\ m \in pending
    /\ pending' = pending \ {m} /\ got' = Append(got, m)
    /\ UNCHANGED <<sent, stopped>>

\* Messages are lost, alone or because a side stops.
Lose ==
    /\ pending' \subseteq pending
    /\ stopped \in {stopped', FALSE}
    /\ UNCHANGED <<sent, got>>

ChannelNext == Lose \/ \E m \in Ids : Send(m) \/ Deliver(m)

ChannelSpec ==
    /\ ChannelInit
    /\ [][ChannelNext]_channelVars
    /\ \A m \in Ids : m \in pending ~> (m \notin pending \/ stopped)
=============================================================================

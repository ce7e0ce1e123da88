---------------------------- MODULE PacketOrder ----------------------------
(***************************************************************************)
(* What the handlers of PacketProcess rely on the network for: in the queue*)
(* each session has a CONNECT, then the packets of its client, then a      *)
(* CLOSE, and so on, however the sessions' packets interleave. Nothing is  *)
(* promised about a session from when the handlers' own thread goes to     *)
(* close it, or its client itself sends a CONNECT or a CLOSE.              *)
(***************************************************************************)
EXTENDS Sequences

CONSTANT Slots

VARIABLES
    packets,    \* what the network has queued and nobody has taken
    open,       \* the sessions whose last packet queued is not a CLOSE
    void        \* the sessions nothing is promised about

orderVars == <<packets, open, void>>

Init == packets = <<>> /\ open = {} /\ void = {}

Put(id, s) == packets' = Append(packets, [id |-> id, session |-> s])

Connect(s) ==
    /\ s \notin open \cup void
    /\ Put("CONNECT", s) /\ open' = open \cup {s} /\ void' = void

Deliver(s) ==
    /\ s \in open
    /\ Put("PACKET", s) /\ UNCHANGED <<open, void>>

Close(s) ==
    /\ s \in open
    /\ Put("CLOSE", s) /\ open' = open \ {s} /\ void' = void

Waive(s) ==
    /\ void' = void \cup {s} /\ open' = open \ {s}
    /\ packets' = packets

\* The client's own CONNECT or CLOSE is what makes its session void.
PutAnything(s) ==
    /\ \E id \in {"CONNECT", "PACKET", "CLOSE"} : Put(id, s)
    /\ void' = void \cup {s} /\ open' = open \ {s}

Take ==
    /\ packets # <<>> /\ packets' = Tail(packets)
    /\ UNCHANGED <<open, void>>

Next ==
    \/ Take
    \/ \E s \in Slots : \/ Connect(s) \/ Deliver(s) \/ Close(s)
                        \/ Waive(s) \/ PutAnything(s)

Spec == Init /\ [][Next]_orderVars
=============================================================================

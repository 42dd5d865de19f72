---------------------------- MODULE NodeLifetime ----------------------------
(***************************************************************************)
(* What the node client promises the runtime and, through it, every guild: *)
(* the events it reports speak of one backend session at a time.  A session*)
(* other than the one that was announced is announced only after the old   *)
(* one was declared lost, and no message of a session is reported before   *)
(* its announcement or after its loss.                                     *)
(***************************************************************************)
EXTENDS Sequences

CONSTANTS
    Sessions,  \* session ids a backend may hand out
    None       \* no session, and none of Sessions

VARIABLES
    events,    \* reported and not yet taken by the runtime
    announced  \* the session the reported events speak of, or None

Connected(s) == [kind |-> "connected", session |-> s]
Invalidated == [kind |-> "invalidated", session |-> None]
Payload(s) == [kind |-> "payload", session |-> s]

Event == {Invalidated} \union {Connected(s) : s \in Sessions}
                       \union {Payload(s) : s \in Sessions}

Init == events = <<>> /\ announced = None

Report(event) == events' = Append(events, event)

Announce ==
    \E s \in Sessions :
        /\ announced \in {None, s}
        /\ announced' = s
        /\ Report(Connected(s))

Lose == announced' = None /\ Report(Invalidated)

Forward ==
    /\ announced # None
    /\ Report(Payload(announced))
    /\ UNCHANGED announced

Take ==
    /\ events # <<>>
    /\ events' = Tail(events)
    /\ UNCHANGED announced

Next == Announce \/ Lose \/ Forward \/ Take

Spec == Init /\ [][Next]_<<events, announced>>
=============================================================================

----------------------------- MODULE NodeClient -----------------------------
(***************************************************************************)
(* The connection to the backend (run in src/src/node.rs): one task that   *)
(* connects, resumes the session it had, reports events and announces the  *)
(* loss of a session, over a socket that may break and to a backend that   *)
(* keeps a session without a socket only if it was told to, and only for a *)
(* while.  NodeLifetime says what the runtime may rely on.                 *)
(*                                                                         *)
(* An action is the task up to its next await.  A request whose answer is  *)
(* lost may or may not have had its effect.                                *)
(***************************************************************************)
EXTENDS Naturals, Sequences

CONSTANTS
    Sessions,  \* session ids the backend may hand out
    None,      \* no session
    Capacity,  \* of the channel to the runtime, 128 in the code
    MaxUnread  \* bound on messages of the backend that wait in the socket

ASSUME NodeAssumption ==
    /\ None \notin Sessions
    /\ Capacity \in Nat \ {0}
    /\ MaxUnread \in Nat

VARIABLES
    pc,         \* where the task awaits
    state,      \* the local variable: session and ready
    outage,     \* the age of the outage: none, under or over 60 seconds
    health,     \* what was last published to Node::health
    events,     \* the channel to the runtime
    announced,  \* history: the session the reported events speak of
    socket,     \* the open or breaking connection
    backend,    \* sessions issued, still kept, and told to outlive a socket
    cancelled   \* NodeOwner::shutdown was called

vars == <<pc, state, outage, health, events, announced, socket, backend, cancelled>>

Lifetime == INSTANCE NodeLifetime WITH
    Sessions <- Sessions, None <- None, events <- events, announced <- announced

Health == [session: Sessions \union {None}, ready: BOOLEAN]

(***************************************************************************)
(* greeting is the ready message as long as it is unread, resumed or not;  *)
(* unread counts the messages behind it.                                   *)
(***************************************************************************)
Socket ==
    [session: Sessions \union {None}, open: BOOLEAN,
     greeting: {"none", "fresh", "resumed"}, unread: Nat]

NoSocket == [session |-> None, open |-> FALSE, greeting |-> "none", unread |-> 0]

Backend ==
    [issued: SUBSET Sessions, kept: SUBSET Sessions, resuming: SUBSET Sessions]

Init ==
    /\ pc = "connect"
    /\ state = [session |-> None, ready |-> FALSE]
    /\ outage = "none"
    /\ health = state
    /\ events = <<>>
    /\ announced = None
    /\ socket = NoSocket
    /\ backend = [issued |-> {}, kept |-> {}, resuming |-> {}]
    /\ cancelled = FALSE

-----------------------------------------------------------------------------
(* The backend's side of a connection.                                     *)

\* Without its socket a session lives on only if it was told to.
WithoutSocket(b, session) ==
    [b EXCEPT !.kept = IF session \in b.resuming THEN @ ELSE @ \ {session}]

\* The task gives up the socket and goes on behind the inner loop.
Break ==
    /\ pc' = "down"
    /\ socket' = NoSocket
    /\ backend' = WithoutSocket(backend, socket.session)

-----------------------------------------------------------------------------
(* The outer loop: connecting and waiting.                                 *)

Undisturbed == UNCHANGED <<health, events, announced, cancelled>>

\* The connection fails, or takes more than ten seconds.
ConnectFails ==
    /\ pc = "connect" /\ pc' = "down"
    /\ Undisturbed /\ UNCHANGED <<state, outage, socket, backend>>

Connects(session, greeting) ==
    /\ pc = "connect" /\ pc' = "listen"
    /\ socket' = [session |-> session, open |-> TRUE,
                  greeting |-> greeting, unread |-> 0]
    /\ Undisturbed /\ UNCHANGED <<state, outage>>

\* The Session-Id of the request names a session the backend still has.
ConnectResumes ==
    /\ state.session \in backend.kept
    /\ Connects(state.session, "resumed")
    /\ UNCHANGED backend

ConnectFresh ==
    /\ state.session \notin backend.kept
    /\ \E s \in Sessions \ backend.issued :
         /\ Connects(s, "fresh")
         /\ backend' = [backend EXCEPT !.issued = @ \union {s},
                                       !.kept = @ \union {s}]

\* Mutant: every failed round starts the clock of the outage again.
DownRestartsClock ==
    /\ pc = "down" /\ pc' = "rest"
    /\ outage' = IF state.session # None THEN "short" ELSE outage
    /\ state' = [state EXCEPT !.ready = FALSE]
    /\ health' = state'
    /\ UNCHANGED <<events, announced, socket, backend, cancelled>>

\* Mutant: who reads the health is not told that the connection is gone.
DownUnpublished ==
    LET old == state.session # None /\ outage = "long"
    IN  /\ pc = "down"
        /\ outage' = IF state.session # None /\ outage = "none" THEN "short" ELSE outage
        /\ state' = [session |-> IF old THEN None ELSE state.session, ready |-> FALSE]
        /\ health' = IF old THEN state' ELSE health
        /\ pc' = IF old THEN "expired" ELSE "rest"
        /\ UNCHANGED <<events, announced, socket, backend, cancelled>>

\* Behind the inner loop; an outage of 60 seconds gives the session up.
Down ==
    LET old == state.session # None /\ outage = "long"
    IN  /\ pc = "down"
        /\ outage' = IF state.session # None /\ outage = "none" THEN "short" ELSE outage
        /\ state' = [session |-> IF old THEN None ELSE state.session, ready |-> FALSE]
        /\ health' = state'
        /\ pc' = IF old THEN "expired" ELSE "rest"
        /\ UNCHANGED <<events, announced, socket, backend, cancelled>>

Rest ==
    /\ pc = "rest" /\ pc' = "connect"
    /\ Undisturbed /\ UNCHANGED <<state, outage, socket, backend>>

-----------------------------------------------------------------------------
(* Sending to the runtime waits for room in the channel.                   *)

\* Mutant: the channel is not bounded.
SendUnbounded(event) == Len(events) <= Capacity /\ events' = Append(events, event)

Send(event) == Len(events) < Capacity /\ events' = Append(events, event)

AnnounceExpired ==
    /\ pc = "expired" /\ pc' = "rest"
    /\ Send(Lifetime!Invalidated) /\ announced' = None
    /\ UNCHANGED <<state, outage, health, socket, backend, cancelled>>

AnnounceReplaced ==
    /\ pc = "replaced" /\ pc' = "configure"
    /\ Send(Lifetime!Invalidated) /\ announced' = None
    /\ UNCHANGED <<state, outage, health, socket, backend, cancelled>>

AnnounceConnected ==
    /\ pc = "serve" /\ pc' = "listen"
    /\ Send(Lifetime!Connected(state.session)) /\ announced' = state.session
    /\ UNCHANGED <<state, outage, health, socket, backend, cancelled>>

ForwardPayload ==
    /\ pc = "deliver" /\ pc' = "listen"
    /\ Send(Lifetime!Payload(socket.session))
    /\ UNCHANGED <<announced, state, outage, health, socket, backend, cancelled>>

-----------------------------------------------------------------------------
(* The inner loop: messages of one socket.                                 *)

\* Mutant: a new session is served without a word about the old one.
ReadReadySilently ==
    /\ pc = "listen" /\ socket.greeting # "none"
    /\ socket' = [socket EXCEPT !.greeting = "none"]
    /\ pc' = "configure"
    /\ Undisturbed /\ UNCHANGED <<state, outage, backend>>

ReadReady ==
    /\ pc = "listen" /\ socket.greeting # "none"
    /\ socket' = [socket EXCEPT !.greeting = "none"]
    /\ pc' = IF state.session # None /\ socket.greeting = "fresh"
             THEN "replaced" ELSE "configure"
    /\ Undisturbed /\ UNCHANGED <<state, outage, backend>>

ReadEvent ==
    /\ pc = "listen" /\ socket.greeting = "none" /\ socket.unread > 0
    /\ socket' = [socket EXCEPT !.unread = @ - 1]
    /\ pc' = "deliver"
    /\ Undisturbed /\ UNCHANGED <<state, outage, backend>>

\* The end of the stream, ninety silent seconds, a bad message, a lost pong.
StopListening ==
    /\ pc = "listen" /\ Break
    /\ Undisturbed /\ UNCHANGED <<state, outage>>

\* The PATCH that makes the session outlive its socket, if it still exists.
Configured ==
    [backend EXCEPT !.resuming = @ \union ({socket.session} \intersect backend.kept)]

Configure ==
    /\ pc = "configure" /\ socket.session \in backend.kept
    /\ backend' = Configured
    /\ state' = [session |-> socket.session, ready |-> TRUE]
    /\ health' = state'
    /\ outage' = "none"
    /\ pc' = "serve"
    /\ UNCHANGED <<events, announced, socket, cancelled>>

ConfigureFails ==
    /\ pc = "configure" /\ pc' = "down"
    /\ socket' = NoSocket
    /\ \E b \in {backend, Configured} :
         backend' = WithoutSocket(b, socket.session)
    /\ Undisturbed /\ UNCHANGED <<state, outage>>

-----------------------------------------------------------------------------
(* The end of the task.                                                    *)

Shutdown ==
    /\ ~cancelled /\ cancelled' = TRUE
    /\ UNCHANGED <<pc, state, outage, health, events, announced, socket, backend>>

\* Every await but the PATCH watches for it; there, shutdown aborts the task.
Stop ==
    /\ cancelled /\ pc \notin {"down", "stopped"}
    /\ pc' = "stopped"
    /\ socket' = NoSocket
    /\ backend' = WithoutSocket(backend, socket.session)
    /\ Undisturbed /\ UNCHANGED <<state, outage>>

-----------------------------------------------------------------------------
(* The surroundings.                                                       *)

OutageAges ==
    /\ outage = "short" /\ outage' = "long"
    /\ UNCHANGED <<pc, state, health, events, announced, socket, backend, cancelled>>

BackendReports ==
    /\ socket.open /\ socket.unread < MaxUnread
    /\ socket' = [socket EXCEPT !.unread = @ + 1]
    /\ Undisturbed /\ UNCHANGED <<pc, state, outage, backend>>

\* The connection breaks; of what was unread a beginning arrives.
SocketBreaks ==
    /\ socket.open
    /\ \E n \in 0..socket.unread, greeting \in {socket.greeting, "none"} :
         /\ n > 0 => greeting = socket.greeting
         /\ socket' = [socket EXCEPT !.open = FALSE, !.unread = n,
                                     !.greeting = greeting]
    /\ backend' = WithoutSocket(backend, socket.session)
    /\ Undisturbed /\ UNCHANGED <<pc, state, outage>>

\* The backend keeps a session without a socket for sixty seconds.
BackendForgets ==
    /\ \E s \in backend.kept :
         /\ ~(socket.open /\ socket.session = s)
         /\ backend' = [backend EXCEPT !.kept = @ \ {s}]
    /\ Undisturbed /\ UNCHANGED <<pc, state, outage, socket>>

Take ==
    /\ events # <<>> /\ events' = Tail(events)
    /\ UNCHANGED <<pc, state, outage, health, announced, socket, backend, cancelled>>

-----------------------------------------------------------------------------
Task ==
    \/ ConnectFails \/ ConnectResumes \/ ConnectFresh \/ Down \/ Rest
    \/ AnnounceExpired \/ AnnounceReplaced \/ AnnounceConnected \/ ForwardPayload
    \/ ReadReady \/ ReadEvent \/ StopListening \/ Configure \/ ConfigureFails
    \/ Stop

Surroundings ==
    \/ Shutdown \/ OutageAges \/ BackendReports \/ SocketBreaks
    \/ BackendForgets \/ Take

Next == Task \/ Surroundings

Spec == Init /\ [][Next]_vars

(***************************************************************************)
(* The task runs, its awaits have timeouts, the runtime drains its channel *)
(* and time passes.  Nothing is assumed of the backend: every connection   *)
(* and every PATCH may fail.                                               *)
(***************************************************************************)
FairSpec ==
    /\ Spec
    /\ WF_vars(Task) /\ WF_vars(OutageAges) /\ WF_vars(Take)

-----------------------------------------------------------------------------
(* Type invariant.                                                         *)
TypeOK ==
    /\ pc \in {"connect", "listen", "replaced", "configure", "serve", "deliver",
               "down", "expired", "rest", "stopped"}
    /\ state \in Health
    /\ outage \in {"none", "short", "long"}
    /\ health \in Health
    /\ events \in Seq(Lifetime!Event) /\ Len(events) <= Capacity
    /\ announced \in Sessions \union {None}
    /\ socket \in Socket
    /\ backend \in Backend
    /\ cancelled \in BOOLEAN

(* A caller that finds the node ready addresses the session the runtime    *)
(* was told of, or the one whose announcement is just being sent; and a    *)
(* node that is down or has given up a session is not ready for anybody.   *)
ReadyIsAnnounced ==
    health.ready /\ pc # "stopped" =>
        \/ pc = "serve" /\ announced \in {None, health.session}
        \/ pc \in {"listen", "deliver", "down"} /\ announced = health.session

(* The reported events keep the promise of NodeLifetime, although a ready  *)
(* message, the configuration of its session and the announcement are      *)
(* separate steps and the connection can be lost between any two of them.  *)
LifetimeKept == Lifetime!Spec

(* A session that was announced and that the backend no longer has is      *)
(* declared lost (or the service ends), also when no connection ever       *)
(* succeeds again.                                                         *)
LossIsAnnounced ==
    \A s \in Sessions :
        (announced = s /\ s \notin backend.kept) ~> (announced # s \/ pc = "stopped")
=============================================================================

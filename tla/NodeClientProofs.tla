-------------------------- MODULE NodeClientProofs --------------------------
(***************************************************************************)
(* For every set of session ids and every capacity of the channel, the     *)
(* node client keeps the promise of NodeLifetime, and a caller that finds  *)
(* the node ready addresses the session the runtime was told of.           *)
(*                                                                         *)
(* The promise is about what was announced, the code decides by what it    *)
(* remembers (state.session) and by what the socket says.  ClientInv ties  *)
(* the three together at every await of the task.                          *)
(***************************************************************************)
EXTENDS NodeClient, TLAPS

Awaits == {"connect", "listen", "replaced", "configure", "serve", "deliver",
           "down", "expired", "rest", "stopped"}

Types ==
    /\ pc \in Awaits
    /\ state \in Health
    /\ outage \in {"none", "short", "long"}
    /\ events \in Seq(Lifetime!Event) /\ Len(events) <= Capacity
    /\ announced \in Sessions \union {None}
    /\ socket \in Socket
    /\ backend \in Backend
    /\ cancelled \in BOOLEAN

\* What is announced is what the task remembers, until it has given it up.
Remembered ==
    /\ health = state
    /\ announced # None => announced = state.session \/ pc \in {"expired", "stopped"}

\* Ready only from the configuration of a session to the loss of its socket.
ReadyWhen ==
    state.ready =>
        \/ pc \in {"serve", "stopped"}
        \/ pc \in {"listen", "deliver", "down"} /\ announced = state.session

\* The socket a task listens to, before and after it has read the greeting.
Greeted ==
    pc = "listen" =>
        /\ socket.session \in Sessions
        /\ socket.greeting = "resumed" => socket.session = state.session
        /\ socket.greeting # "none" => ~state.ready
        /\ socket.greeting = "none" /\ (socket.open \/ socket.unread > 0)
             => announced = socket.session

\* Between the greeting and the announcement of its session.
Introduced ==
    /\ pc \in {"replaced", "configure", "serve", "deliver"} =>
         socket.session \in Sessions /\ socket.greeting = "none"
    /\ pc = "configure" => announced \in {None, socket.session}
    /\ pc = "serve" => socket.session = state.session
    /\ pc = "deliver" => announced = socket.session

ClientInv == Types /\ Remembered /\ ReadyWhen /\ Greeted /\ Introduced

-----------------------------------------------------------------------------
(* Types.                                                                  *)

LEMMA SendType ==
    ASSUME NEW event \in Lifetime!Event, Send(event),
           events \in Seq(Lifetime!Event), Capacity \in Nat
    PROVE  events' \in Seq(Lifetime!Event) /\ Len(events') <= Capacity
<1>. PICK n \in Nat : n = Len(events)
  OBVIOUS
<1>1. events' = Append(events, event) /\ n < Capacity
  BY DEF Send
<1>2. events' \in Seq(Lifetime!Event) /\ Len(events') = n + 1
  BY <1>1
<1>. QED  BY <1>1, <1>2

LEMMA TakeType ==
    ASSUME events \in Seq(Lifetime!Event), Len(events) <= Capacity, Take,
           Capacity \in Nat
    PROVE  events' \in Seq(Lifetime!Event) /\ Len(events') <= Capacity
<1>. PICK n \in Nat : n = Len(events)
  OBVIOUS
<1>1. events # <<>> /\ events' = Tail(events)
  BY DEF Take
<1>2. events' \in Seq(Lifetime!Event) /\ Len(events') = n - 1
  BY <1>1
<1>. QED  BY <1>2

LEMMA BackendType ==
    ASSUME NEW b \in Backend, NEW s
    PROVE  WithoutSocket(b, s) \in Backend
BY DEF WithoutSocket, Backend

LEMMA ConfiguredType ==
    ASSUME backend \in Backend
    PROVE  Configured \in Backend
BY DEF Configured, Backend

LEMMA NoSocketType == NoSocket \in Socket
BY DEF NoSocket, Socket

LEMMA EventTypes ==
    /\ Lifetime!Invalidated \in Lifetime!Event
    /\ \A s \in Sessions : /\ Lifetime!Connected(s) \in Lifetime!Event
                           /\ Lifetime!Payload(s) \in Lifetime!Event
BY DEF Lifetime!Event

-----------------------------------------------------------------------------
LEMMA Start == Init => ClientInv
<1>. SUFFICES ASSUME Init PROVE ClientInv
  OBVIOUS
<1>. USE NodeAssumption DEF Init
<1>1. socket \in Socket
  BY NoSocketType
<1>2. events \in Seq(Lifetime!Event)
  OBVIOUS
<1>3. Len(events) <= Capacity
  <2>1. Len(<<>>) = 0
    OBVIOUS
  <2>. QED  BY <2>1
<1>4. pc \in Awaits /\ state \in Health /\ backend \in Backend
  BY DEF Awaits, Health, Backend
<1>5. Types
  BY <1>1, <1>2, <1>3, <1>4 DEF Types
<1>. QED  BY <1>5 DEF ClientInv, Remembered, ReadyWhen, Greeted, Introduced, NoSocket
LEMMA Step == ClientInv /\ [Next]_vars => ClientInv'
<1>. SUFFICES ASSUME ClientInv, [Next]_vars PROVE ClientInv'
  OBVIOUS
<1>. USE NodeAssumption
         DEF ClientInv, Types, Awaits, Health, Remembered, ReadyWhen, Greeted, Introduced
<1>0. CASE UNCHANGED vars
  BY <1>0 DEF vars
<1>1. CASE ConnectFails
  BY <1>1 DEF Socket, ConnectFails, Undisturbed
<1>2. CASE ConnectResumes
  BY <1>2 DEF Socket, ConnectResumes, Undisturbed, Connects, Backend
<1>3. CASE ConnectFresh
  <2>1. PICK s \in Sessions \ backend.issued :
          /\ Connects(s, "fresh")
          /\ backend' = [backend EXCEPT !.issued = @ \union {s}, !.kept = @ \union {s}]
    BY <1>3 DEF ConnectFresh
  <2>2. backend' \in Backend
    BY <2>1 DEF Backend
  <2>3. socket' \in Socket
    BY <2>1 DEF Connects, Socket
  <2>. QED  BY <2>1, <2>2, <2>3 DEF Connects, Undisturbed
<1>4. CASE Down
  BY <1>4 DEF Socket, Down
<1>5. CASE Rest
  BY <1>5 DEF Socket, Rest, Undisturbed
<1>6. CASE AnnounceExpired
  <2>1. events' \in Seq(Lifetime!Event) /\ Len(events') <= Capacity
    BY <1>6, SendType, EventTypes DEF AnnounceExpired, Socket
  <2>. QED  BY <1>6, <2>1 DEF Socket, AnnounceExpired
<1>7. CASE AnnounceReplaced
  <2>1. events' \in Seq(Lifetime!Event) /\ Len(events') <= Capacity
    BY <1>7, SendType, EventTypes DEF AnnounceReplaced, Socket
  <2>. QED  BY <1>7, <2>1 DEF Socket, AnnounceReplaced
<1>8. CASE AnnounceConnected
  <2>1. events' \in Seq(Lifetime!Event) /\ Len(events') <= Capacity
    BY <1>8, SendType, EventTypes DEF AnnounceConnected, Socket
  <2>. QED  BY <1>8, <2>1 DEF Socket, AnnounceConnected
<1>9. CASE ForwardPayload
  <2>1. events' \in Seq(Lifetime!Event) /\ Len(events') <= Capacity
    BY <1>9, SendType, EventTypes DEF ForwardPayload, Socket
  <2>. QED  BY <1>9, <2>1 DEF Socket, ForwardPayload
<1>10. CASE ReadReady
  BY <1>10 DEF Socket, ReadReady, Undisturbed
<1>11. CASE ReadEvent
  BY <1>11 DEF Socket, ReadEvent, Undisturbed
<1>12. CASE StopListening
  BY <1>12, NoSocketType, BackendType DEF Socket, StopListening, Undisturbed, Break
<1>13. CASE Configure
  BY <1>13, ConfiguredType DEF Socket, Configure
<1>14. CASE ConfigureFails
  BY <1>14, NoSocketType, BackendType, ConfiguredType DEF Socket, ConfigureFails, Undisturbed
<1>15. CASE Stop
  <2>1. socket' \in Socket /\ backend' \in Backend
    BY <1>15, NoSocketType, BackendType DEF Stop
  <2>. QED  BY <1>15, <2>1 DEF Stop, Undisturbed
<1>16. CASE Shutdown
  BY <1>16 DEF Socket, Shutdown
<1>17. CASE OutageAges
  BY <1>17 DEF Socket, OutageAges
<1>18. CASE BackendReports
  BY <1>18 DEF Socket, BackendReports, Undisturbed
<1>19. CASE SocketBreaks
  <2>1. PICK n \in 0..socket.unread, greeting \in {socket.greeting, "none"} :
          /\ n > 0 => greeting = socket.greeting
          /\ socket' = [socket EXCEPT !.open = FALSE, !.unread = n, !.greeting = greeting]
    BY <1>19 DEF SocketBreaks
  <2>2. socket' \in Socket
    <3>1. n \in Nat /\ greeting \in {"none", "fresh", "resumed"}
      BY DEF Socket
    <3>. QED  BY <2>1, <3>1 DEF Socket
  <2>3. socket'.session = socket.session /\ socket'.open = FALSE
        /\ socket'.unread = n /\ socket'.greeting = greeting
    BY <2>1 DEF Socket
  <2>4. backend' \in Backend
    BY <1>19, BackendType DEF SocketBreaks
  <2>5. n > 0 => socket.unread > 0
    BY <2>1 DEF Socket
  <2>6. Greeted'
    BY <1>19, <2>1, <2>3, <2>5 DEF SocketBreaks, Undisturbed
  <2>. QED  BY <1>19, <2>2, <2>3, <2>4, <2>6 DEF SocketBreaks, Undisturbed
<1>20. CASE BackendForgets
  BY <1>20 DEF Socket, BackendForgets, Undisturbed, Backend
<1>21. CASE Take
  <2>1. events' \in Seq(Lifetime!Event) /\ Len(events') <= Capacity
    BY <1>21, TakeType
  <2>. QED  BY <1>21, <2>1 DEF Socket, Take
<1>. QED
  BY <1>0, <1>1, <1>2, <1>3, <1>4, <1>5, <1>6, <1>7, <1>8, <1>9, <1>10, <1>11, <1>12, <1>13, <1>14, <1>15, <1>16, <1>17, <1>18, <1>19, <1>20, <1>21
     DEF Next, Task, Surroundings
-----------------------------------------------------------------------------
LEMMA Invariance == Spec => []ClientInv
<1>1. Init => ClientInv
  BY Start
<1>2. ClientInv /\ [Next]_vars => ClientInv'
  BY Step
<1>. QED  BY <1>1, <1>2, PTL DEF Spec

(* The task, its socket and its channel keep their types, and the channel  *)
(* its capacity, whatever the backend does.                                *)
THEOREM TypeCorrect == Spec => []TypeOK
<1>1. ClientInv => TypeOK
  BY DEF ClientInv, Types, Awaits, Remembered, TypeOK
<1>. QED  BY <1>1, Invariance, PTL

(* Requests go to the session that was announced (Node::load, update,      *)
(* destroy and prepare read the published health): a ready node is one     *)
(* whose session the runtime was told of or is just being told of.         *)
THEOREM ReadyNodeIsAnnounced == Spec => []ReadyIsAnnounced
<1>1. ClientInv => ReadyIsAnnounced
  <2>. SUFFICES ASSUME ClientInv, health.ready, pc # "stopped"
                PROVE  \/ pc = "serve" /\ announced \in {None, health.session}
                       \/ pc \in {"listen", "deliver", "down"}
                          /\ announced = health.session
    BY DEF ReadyIsAnnounced
  <2>. QED  BY DEF ClientInv, Remembered, ReadyWhen
<1>. QED  BY <1>1, Invariance, PTL

-----------------------------------------------------------------------------
(* The refinement.                                                         *)

\* What a task does to the channel is a step of NodeLifetime or nothing.
LEMMA StepIsAllowed ==
    ClientInv /\ [Next]_vars => [Lifetime!Next]_<<events, announced>>
<1>. SUFFICES ASSUME ClientInv, [Next]_vars
              PROVE  [Lifetime!Next]_<<events, announced>>
  OBVIOUS
<1>. USE DEF ClientInv, Lifetime!Next, Lifetime!Report
<1>1. CASE AnnounceExpired \/ AnnounceReplaced
  BY <1>1 DEF AnnounceExpired, AnnounceReplaced, Send, Lifetime!Lose
<1>2. CASE AnnounceConnected
  <2>1. state.session \in Sessions /\ announced \in {None, state.session}
    BY <1>2 DEF AnnounceConnected, Introduced, Remembered
  <2>2. Lifetime!Announce
    BY <1>2, <2>1 DEF AnnounceConnected, Send, Lifetime!Announce
  <2>. QED  BY <2>2
<1>3. CASE ForwardPayload
  <2>1. announced = socket.session /\ announced # None
    BY <1>3, NodeAssumption DEF ForwardPayload, Introduced
  <2>2. Lifetime!Forward
    BY <1>3, <2>1 DEF ForwardPayload, Send, Lifetime!Forward
  <2>. QED  BY <2>2
<1>4. CASE Take
  BY <1>4 DEF Take, Lifetime!Take
<1>5. ASSUME UNCHANGED <<events, announced>>
      PROVE  [Lifetime!Next]_<<events, announced>>
  BY <1>5
<1>6. CASE UNCHANGED vars
  BY <1>5, <1>6 DEF vars
<1>7. CASE ConnectFails \/ ConnectResumes \/ ConnectFresh \/ Down \/ Rest
  BY <1>5, <1>7
     DEF ConnectFails, ConnectResumes, ConnectFresh, Connects, Down, Rest, Undisturbed
<1>8. CASE ReadReady \/ ReadEvent \/ StopListening \/ Configure \/ ConfigureFails
           \/ Stop
  BY <1>5, <1>8
     DEF ReadReady, ReadEvent, StopListening, Configure, ConfigureFails, Stop,
         Undisturbed
<1>9. CASE Shutdown \/ OutageAges \/ BackendReports \/ SocketBreaks \/ BackendForgets
  BY <1>5, <1>9
     DEF Shutdown, OutageAges, BackendReports, SocketBreaks, BackendForgets,
         Undisturbed
<1>. QED
  BY <1>1, <1>2, <1>3, <1>4, <1>6, <1>7, <1>8, <1>9
     DEF Next, Task, Surroundings

(* The connection loop implements NodeLifetime: the events the runtime     *)
(* passes on to the guilds speak of one session at a time, and a session   *)
(* is only served once the one before it was declared lost.                *)
THEOREM Refinement == Spec => LifetimeKept
<1>1. Init => Lifetime!Init
  BY DEF Init, Lifetime!Init
<1>2. ClientInv /\ [Next]_vars => [Lifetime!Next]_<<events, announced>>
  BY StepIsAllowed
<1>. QED  BY <1>1, <1>2, Invariance, PTL DEF Spec, LifetimeKept, Lifetime!Spec
=============================================================================

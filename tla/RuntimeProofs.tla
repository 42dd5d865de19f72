---------------------------- MODULE RuntimeProofs ----------------------------
(***************************************************************************)
(* The main loop, its mailboxes and the tasks that answer Discord, for all *)
(* servers, interactions, capacities and time limits: the types, the map   *)
(* of actors, the actor's wait for an acknowledgement, and the line of     *)
(* interactions that InteractionLine promises.                             *)
(***************************************************************************)
EXTENDS Runtime, FiniteSetTheorems, SequenceTheorems, WellFoundedInduction, TLAPS

Typed == LoopOK /\ ActorsOK /\ JobsOK

(***************************************************************************)
(* The actions, by what they change.                                       *)
(***************************************************************************)
LoopActions == Signal \/ LoopCancelled \/ SourceEnds \/ JobsJoined \/ JoinTimeout \/ Stop

Notices ==
    \/ Broadcast
    \/ \E g \in Guilds : \/ Payload(g) \/ GuildCreated(g) \/ GuildUnavailable(g)
                         \/ GuildDeleted(g) \/ VoiceEvent(g)

TaskActions == \E i \in Interactions : Task(i) \/ AbortJob(i)

TaskOver(g) == Ended(g) \/ Panics(g) \/ Kill(g)

Joins(g) == JoinActor(g) \/ JoinPanicked(g) \/ ActorJoined(g)

LEMMA EveryAction ==
    ASSUME Next
    PROVE  \/ LoopActions \/ Notices \/ TaskActions \/ Tick
           \/ \E i \in Interactions : Refused(i) \/ Suggest(i) \/ LateDeferral(i)
           \/ \E i \in Interactions, g \in Guilds : TakenOn(i, g)
           \/ \E g \in Guilds : \/ Receive(g) \/ Execute(g) \/ Discard(g) \/ Leave(g)
                                \/ HandlerEnds(g) \/ TaskOver(g) \/ Joins(g)
BY DEF Next, LoopActions, Notices, TaskActions, Task, TaskOver, Joins, Actor, Shutdown

-----------------------------------------------------------------------------
(* Types.                                                                  *)

LEMMA InitTypes == Init => Typed
<1>. SUFFICES ASSUME Init PROVE Typed
  OBVIOUS
<1>1. LoopOK
  BY DEF Init, LoopOK
<1>2. ActorsOK
  BY LimitsAssumption DEF Init, ActorsOK
<1>3. JobsOK
  BY DEF Init, JobsOK
<1>. QED  BY <1>1, <1>2, <1>3 DEF Typed

LEMMA LoopTypes ==
    ASSUME Typed, LoopActions
    PROVE  Typed'
<1>1. LoopOK'
  BY DEF Typed, LoopOK, LoopActions, Signal, LoopCancelled, SourceEnds, JobsJoined,
         JoinTimeout, Stop, End
<1>2. UNCHANGED <<actorvars, jobvars, fate, executed>>
  BY DEF LoopActions, Signal, LoopCancelled, SourceEnds, JobsJoined, JoinTimeout, Stop
<1>. QED  BY <1>1, <1>2 DEF Typed, ActorsOK, JobsOK, actorvars, jobvars

\* Notices fit where interactions fit.
LEMMA NotifyTypes ==
    ASSUME NEW T, mailbox \in [Guilds -> Seq(T \union {Notice})], NEW S, Notify(S)
    PROVE  mailbox' \in [Guilds -> Seq(T \union {Notice})]
BY DEF Notify

LEMMA NoticesOnlyNotify ==
    ASSUME Typed, Notices
    PROVE  /\ mailbox' = mailbox \/ \E S : Notify(S)
           /\ UNCHANGED <<guilds, actor, waits, patience, jobvars, fate, executed>>
           /\ LoopOK' /\ phase = "running"
<1>1. CASE Broadcast
  BY <1>1 DEF Broadcast, End, loopvars, jobvars, Typed, LoopOK
<1>2. CASE \E g \in Guilds : Payload(g)
  BY <1>2 DEF Payload, End, loopvars, jobvars, Typed, LoopOK
<1>3. ASSUME NEW g \in Guilds, NEW then \in {"absent", "unavailable", "available"},
             NEW tells, CacheEvent(g, then, tells)
      PROVE  /\ mailbox' = mailbox \/ \E S : Notify(S)
             /\ UNCHANGED <<guilds, actor, waits, patience, jobvars, fate, executed>>
             /\ LoopOK' /\ phase = "running"
  BY <1>3 DEF CacheEvent, loopvars, jobvars, Typed, LoopOK
<1>4. CASE \E g \in Guilds : GuildCreated(g) \/ GuildUnavailable(g) \/ GuildDeleted(g)
                              \/ VoiceEvent(g)
  BY <1>3, <1>4 DEF GuildCreated, GuildUnavailable, GuildDeleted, VoiceEvent, Typed, LoopOK
<1>. QED  BY <1>1, <1>2, <1>4 DEF Notices

LEMMA NoticesTypes ==
    ASSUME Typed, Notices
    PROVE  Typed'
<1>1. LoopOK' /\ mailbox' \in [Guilds -> Seq(Interactions \union {Notice})]
  BY NoticesOnlyNotify, NotifyTypes DEF Typed, ActorsOK
<1>. QED  BY <1>1, NoticesOnlyNotify DEF Typed, ActorsOK, JobsOK, jobvars

\* What a step of a task does to the task and to nothing else.
TaskStep(i) ==
    \/ job[i] = "deferring" /\ JobStep(i, "verifying", LOOKUP_TIME)
    \/ /\ job[i] \in {"deferring", "verifying"}
       /\ \E after \in {"confirmed", "unconfirmed", "refused"} : JobStep(i, after, 0)
    \/ job[i] \in {"suggesting", "rejecting"} /\ JobStep(i, "answered", 0)
    \/ i \in Jobs \union Rejections /\ JobStep(i, "aborted", 0)

Told(i) == told' = told \/ \E words \in {"deferred", "answer"} : Tell(i, words)

LEMMA TaskSteps ==
    ASSUME NEW i \in Interactions, Task(i) \/ AbortJob(i)
    PROVE  TaskStep(i) /\ Told(i)
<1>1. CASE Deferred(i) \/ DeferRefused(i) \/ DeferAmbiguous(i)
  BY <1>1 DEF Deferred, DeferRefused, DeferAmbiguous, TaskStep, Told
<1>2. CASE Verified(i) \/ Unverified(i)
  BY <1>2 DEF Verified, Unverified, TaskStep, Told
<1>3. CASE Replied(i) \/ AbortJob(i)
  BY <1>3 DEF Replied, AbortJob, TaskStep, Told, Reply
<1>. QED  BY <1>1, <1>2, <1>3 DEF Task

Afters == {"verifying", "confirmed", "unconfirmed", "refused", "answered", "aborted"}

LEMMA TaskTypes ==
    ASSUME Typed, TaskActions
    PROVE  Typed'
<1>1. PICK i \in Interactions : TaskStep(i) /\ Told(i)
  BY TaskSteps DEF TaskActions
<1>2. PICK after \in Afters, time \in Nat : JobStep(i, after, time)
  BY <1>1, LimitsAssumption DEF TaskStep, Afters
<1>3. UNCHANGED <<loopvars, cache, actorvars, fate, executed>>
  BY <1>2 DEF JobStep
<1>4. told' \in [Interactions -> {"nothing", "deferred", "answer"}]
  BY <1>1 DEF Told, Tell, Typed, JobsOK
<1>5. JobsOK'
  BY <1>2, <1>3, <1>4 DEF Typed, JobsOK, JobStep, Afters
<1>. QED  BY <1>3, <1>5 DEF Typed, LoopOK, ActorsOK, actorvars, loopvars

LEMMA RequestTypes ==
    ASSUME Typed, NEW i \in Interactions,
           Refused(i) \/ Suggest(i) \/ LateDeferral(i) \/ \E g \in Guilds : TakenOn(i, g)
    PROVE  Typed'
<1>1. CASE Refused(i) \/ Suggest(i)
  <2>1. UNCHANGED <<loopvars, cache, actorvars, left, told, executed>>
    BY <1>1 DEF Refused, Suggest
  <2>2. /\ fate' = [fate EXCEPT ![i] = "aside"]
        /\ job' = job \/ \E task \in {"rejecting", "suggesting"} : job' = [job EXCEPT ![i] = task]
    BY <1>1 DEF Refused, Suggest, Reject
  <2>3. JobsOK'
    BY <2>1, <2>2 DEF Typed, JobsOK
  <2>. QED  BY <2>1, <2>3 DEF Typed, LoopOK, ActorsOK, actorvars, loopvars
<1>2. CASE LateDeferral(i)
  BY <1>2 DEF LateDeferral, Tell, Typed, LoopOK, ActorsOK, JobsOK, actorvars, loopvars
<1>3. ASSUME NEW g \in Guilds, TakenOn(i, g)
      PROVE  Typed'
  <2>1. JobsOK'
    BY <1>3, LimitsAssumption DEF TakenOn, Typed, JobsOK
  <2>2. mailbox' \in [Guilds -> Seq(Interactions \union {Notice})]
    BY <1>3 DEF TakenOn, Typed, ActorsOK
  <2>3. ActorsOK'
    BY <1>3, <2>2 DEF TakenOn, Typed, ActorsOK
  <2>. QED  BY <1>3, <2>1, <2>3 DEF TakenOn, Typed, LoopOK, loopvars
<1>. QED  BY <1>1, <1>2, <1>3

LEMMA TickTypes ==
    ASSUME Typed, Tick
    PROVE  Typed'
<1>1. left' \in [Interactions -> Nat]
  BY DEF Tick, Typed, JobsOK, Requesting
<1>2. patience' \in [Guilds -> 0..ACK_WAIT]
  BY LimitsAssumption DEF Tick, Typed, ActorsOK, Patient
<1>. QED  BY <1>1, <1>2 DEF Tick, Typed, LoopOK, ActorsOK, JobsOK, loopvars

\* Only a message that fits is in a mailbox, and only such a one leaves it.
LEMMA FirstMessage ==
    ASSUME NEW T, NEW box \in Seq(T), box # <<>>
    PROVE  Head(box) \in T /\ Tail(box) \in Seq(T)
OBVIOUS

LEMMA ReceiveTypes ==
    ASSUME Typed, NEW g \in Guilds, Receive(g)
    PROVE  Typed'
<1>1. Head(mailbox[g]) \in Interactions \union {Notice}
        /\ Tail(mailbox[g]) \in Seq(Interactions \union {Notice})
  BY FirstMessage DEF Receive, Typed, ActorsOK
<1>2. mailbox' \in [Guilds -> Seq(Interactions \union {Notice})]
  BY <1>1 DEF Receive, Typed, ActorsOK
<1>3. UNCHANGED <<loopvars, cache, guilds, jobvars, fate, executed>>
  BY DEF Receive
<1>4. CASE Head(mailbox[g]) = Notice
  <2>1. actor' = [actor EXCEPT ![g] = "busy"] /\ UNCHANGED <<waits, patience>>
    BY <1>4 DEF Receive
  <2>2. ActorsOK'
    BY <1>2, <1>3, <2>1 DEF Typed, ActorsOK
  <2>. QED  BY <1>3, <2>2 DEF Typed, LoopOK, JobsOK, loopvars, jobvars
<1>5. CASE Head(mailbox[g]) # Notice
  <2>. DEFINE i == Head(mailbox[g])
  <2>1. /\ i \in Interactions
        /\ actor' = [actor EXCEPT ![g] = "waiting"]
        /\ waits' = [waits EXCEPT ![g] = i]
        /\ patience' = [patience EXCEPT ![g] = ACK_WAIT]
    BY <1>1, <1>5 DEF Receive
  <2>. HIDE DEF i
  <2>2. waits' \in [Guilds -> Interactions \union {None}]
    BY <2>1 DEF Typed, ActorsOK
  <2>3. patience' \in [Guilds -> 0..ACK_WAIT]
    BY <2>1, LimitsAssumption DEF Typed, ActorsOK
  <2>4. ActorsOK'
    BY <1>2, <1>3, <2>1, <2>2, <2>3 DEF Typed, ActorsOK
  <2>. QED  BY <1>3, <2>4 DEF Typed, LoopOK, JobsOK, loopvars, jobvars
<1>. QED  BY <1>4, <1>5

LEMMA DecisionTypes ==
    ASSUME Typed, NEW g \in Guilds, waits[g] \in Interactions, Execute(g) \/ Discard(g)
    PROVE  Typed'
<1>1. /\ \E after \in {"busy", "idle", "leaving"} : actor' = [actor EXCEPT ![g] = after]
      /\ waits' = [waits EXCEPT ![g] = None]
      /\ patience' = [patience EXCEPT ![g] = 0]
      /\ UNCHANGED <<loopvars, cache, guilds, mailbox, jobvars>>
  BY DEF Execute, Discard, AfterTurn
<1>2. \E outcome \in {"executed", "discarded"} : fate' = [fate EXCEPT ![waits[g]] = outcome]
  BY DEF Execute, Discard
<1>3. executed' = executed \/ executed' = Append(executed, waits[g])
  BY DEF Execute, Discard
<1>4. ActorsOK'
  BY <1>1, LimitsAssumption DEF Typed, ActorsOK
<1>5. JobsOK'
  <2>1. executed \in Seq(Interactions)
    BY DEF Typed, JobsOK
  <2>3. executed' \in Seq(Interactions)
    BY <1>3, <2>1
  <2>2. fate' \in [Interactions -> {"new", "aside", "queued", "executed", "discarded", "lost"}]
    BY <1>2 DEF Typed, JobsOK
  <2>. QED  BY <1>1, <2>2, <2>3 DEF Typed, JobsOK, jobvars
<1>. QED  BY <1>1, <1>4, <1>5 DEF Typed, LoopOK, loopvars

LEMMA OverTypes ==
    ASSUME Typed, NEW g \in Guilds, TaskOver(g)
    PROVE  Typed'
<1>1. PICK after \in {"ended", "panicked"} : TaskEnds(g, after)
  BY DEF TaskOver, Ended, Panics, Kill
<1>2. mailbox' \in [Guilds -> Seq(Interactions \union {Notice})]
  BY <1>1 DEF TaskEnds, Typed, ActorsOK
<1>3. ActorsOK'
  BY <1>1, <1>2, LimitsAssumption DEF TaskEnds, Typed, ActorsOK
<1>4. fate' \in [Interactions -> {"new", "aside", "queued", "executed", "discarded", "lost"}]
  BY <1>1 DEF TaskEnds, Typed, JobsOK
<1>. QED  BY <1>1, <1>3, <1>4 DEF TaskEnds, Typed, LoopOK, JobsOK, loopvars, jobvars

LEMMA TurnTypes ==
    ASSUME Typed, NEW g \in Guilds, Leave(g) \/ HandlerEnds(g) \/ Joins(g)
    PROVE  Typed'
<1>1. UNCHANGED <<cache, mailbox, waits, patience, jobvars, fate, executed>>
  BY DEF Leave, HandlerEnds, Joins, JoinActor, JoinPanicked, ActorJoined
<1>2. ActorsOK'
  BY <1>1 DEF Leave, HandlerEnds, AfterTurn, Joins, JoinActor, JoinPanicked, ActorJoined,
              Typed, ActorsOK
<1>3. LoopOK'
  BY <1>1 DEF Leave, HandlerEnds, Joins, JoinActor, JoinPanicked, ActorJoined, End,
              loopvars, Typed, LoopOK
<1>. QED  BY <1>1, <1>2, <1>3 DEF Typed, JobsOK, jobvars

-----------------------------------------------------------------------------
(* The map of actors.                                                      *)

LEMMA MapStep ==
    ASSUME Typed, MapMatchesActors, [Next]_vars
    PROVE  MapMatchesActors'
<1>1. CASE LoopActions
  BY <1>1 DEF LoopActions, Signal, LoopCancelled, SourceEnds, JobsJoined, JoinTimeout,
              Stop, End, actorvars, MapMatchesActors
<1>2. CASE Notices
  BY <1>2, NoticesOnlyNotify DEF MapMatchesActors
<1>3. CASE TaskActions
  <2>1. UNCHANGED <<loopvars, actorvars>>
    BY <1>3, TaskSteps DEF TaskActions, TaskStep, JobStep
  <2>. QED  BY <2>1 DEF loopvars, actorvars, MapMatchesActors
<1>4. CASE Tick
  BY <1>4 DEF Tick, loopvars, MapMatchesActors
<1>5. CASE \E i \in Interactions : Refused(i) \/ Suggest(i) \/ LateDeferral(i)
  BY <1>5 DEF Refused, Suggest, LateDeferral, loopvars, actorvars, MapMatchesActors
<1>6. ASSUME NEW i \in Interactions, NEW g \in Guilds, TakenOn(i, g)
      PROVE  MapMatchesActors'
  <2>1. /\ phase = "running" /\ guilds' = guilds \union {g}
        /\ actor' = [actor EXCEPT ![g] = IF g \in guilds THEN @ ELSE "idle"]
    BY <1>6 DEF TakenOn
  <2>. QED  BY <2>1 DEF MapMatchesActors, Typed, ActorsOK
<1>7. ASSUME NEW g \in Guilds,
             \/ Receive(g) \/ Execute(g) \/ Discard(g) \/ Leave(g) \/ HandlerEnds(g)
             \/ TaskOver(g)
      PROVE  MapMatchesActors'
  <2>1. UNCHANGED <<loopvars, guilds>>
    BY <1>7 DEF Receive, Execute, Discard, Leave, HandlerEnds, TaskOver, Ended, Panics,
                Kill, TaskEnds
  <2>2. /\ actor[g] # "none"
        /\ \E after \in {"busy", "waiting", "idle", "leaving", "ended", "panicked"} :
              actor' = [actor EXCEPT ![g] = after]
    BY <1>7 DEF Receive, Execute, Discard, AfterTurn, Leave, HandlerEnds, TaskOver, Ended,
                Panics, Kill, Alive, TaskEnds
  <2>. QED  BY <2>1, <2>2 DEF MapMatchesActors, Typed, ActorsOK, loopvars
<1>8. ASSUME NEW g \in Guilds, Joins(g)
      PROVE  MapMatchesActors'
  BY <1>8 DEF Joins, JoinActor, JoinPanicked, ActorJoined, End, loopvars,
              MapMatchesActors, Typed, ActorsOK
<1>9. CASE UNCHANGED vars
  BY <1>9 DEF vars, loopvars, actorvars, MapMatchesActors
<1>. QED  BY <1>1, <1>2, <1>3, <1>4, <1>5, <1>6, <1>7, <1>8, <1>9, EveryAction

-----------------------------------------------------------------------------
(* The acknowledgement.                                                    *)

\* The stages of a task whose result the actor awaits.
Acks == {"deferring", "verifying", "confirmed", "unconfirmed", "refused", "aborted"}

\* The interactions that were taken on.
Taken == {i \in Interactions : fate[i] # "new" /\ job[i] \in Acks}

\* A task has at most the deadline of its current request left.
Deadlines ==
    \A i \in Interactions :
        /\ job[i] = "deferring" => left[i] <= DEFER_TIME
        /\ job[i] = "verifying" => left[i] <= LOOKUP_TIME

\* An actor waits longer than the task may still take.
Patience ==
    \A g \in Guilds :
        actor[g] = "waiting" =>
            /\ waits[g] \in Taken
            /\ job[waits[g]] = "deferring" => left[waits[g]] + LOOKUP_TIME < patience[g]
            /\ job[waits[g]] = "verifying" => left[waits[g]] < patience[g]

AckInv ==
    /\ Deadlines /\ Patience
    /\ mailbox \in [Guilds -> Seq(Taken \union {Notice})]
    /\ OnlyUnconfirmedIsDiscarded

\* A mailbox that holds interactions taken on goes on doing so.
LEMMA BoxesGrow ==
    ASSUME NEW S, NEW T, S \subseteq T, NEW box \in [Guilds -> Seq(S \union {Notice})]
    PROVE  box \in [Guilds -> Seq(T \union {Notice})]
OBVIOUS

\* Steps that leave tasks and decisions alone.
LEMMA QuietAck ==
    ASSUME AckInv, UNCHANGED <<job, left, fate, actor, waits, patience>>,
           mailbox' \in [Guilds -> Seq(Taken \union {Notice})]
    PROVE  AckInv'
BY DEF AckInv, Deadlines, Patience, Taken, OnlyUnconfirmedIsDiscarded

LEMMA TaskAck ==
    ASSUME Typed, AckInv, TaskActions
    PROVE  AckInv'
<1>1. PICK i \in Interactions : TaskStep(i)
  BY TaskSteps DEF TaskActions
<1>2. UNCHANGED <<actor, mailbox, waits, patience, fate>>
  BY <1>1 DEF TaskStep, JobStep, actorvars
<1>3. PICK after \in Afters, time \in Nat :
        /\ job' = [job EXCEPT ![i] = after] /\ left' = [left EXCEPT ![i] = time]
        /\ after = "verifying" => job[i] = "deferring" /\ time = LOOKUP_TIME
        /\ job[i] \in Acks => after \in Acks
        /\ job[i] \notin {"unconfirmed", "refused", "aborted"}
        /\ job[i] = "confirmed" => FALSE
  BY <1>1, LimitsAssumption DEF TaskStep, JobStep, Afters, Acks, Jobs, Rejections
<1>4. Taken \subseteq Taken'
  BY <1>2, <1>3 DEF Taken, Typed, JobsOK
<1>5. Deadlines'
  BY <1>3, LimitsAssumption DEF AckInv, Deadlines, Typed, JobsOK, Afters
<1>6. Patience'
  <2>. SUFFICES ASSUME NEW g \in Guilds, actor[g] = "waiting"
                PROVE  /\ waits[g] \in Taken'
                       /\ job'[waits[g]] = "deferring" => left'[waits[g]] + LOOKUP_TIME < patience[g]
                       /\ job'[waits[g]] = "verifying" => left'[waits[g]] < patience[g]
    BY <1>2 DEF Patience
  <2>. DEFINE j == waits[g]
  <2>1. /\ j \in Interactions /\ j \in Taken
        /\ job[j] = "deferring" => left[j] + LOOKUP_TIME < patience[g]
        /\ job[j] = "verifying" => left[j] < patience[g]
    BY DEF AckInv, Patience, Taken
  <2>2. left[j] \in Nat /\ patience[g] \in Nat /\ LOOKUP_TIME \in Nat
    BY <2>1, LimitsAssumption DEF Typed, JobsOK, ActorsOK
  <2>. HIDE DEF j
  <2>3. CASE j # i
    BY <1>3, <1>4, <2>1, <2>3 DEF Typed, JobsOK, j
  <2>4. CASE j = i
    <3>1. job'[j] = after /\ left'[j] = time
      BY <1>3, <2>1, <2>4 DEF Typed, JobsOK
    <3>. QED  BY <1>3, <1>4, <2>1, <2>2, <2>4, <3>1 DEF Afters, j
  <2>. QED  BY <2>3, <2>4
<1>7. OnlyUnconfirmedIsDiscarded'
  BY <1>2, <1>3 DEF AckInv, OnlyUnconfirmedIsDiscarded, Typed, JobsOK
<1>8. mailbox' \in [Guilds -> Seq(Taken' \union {Notice})]
  BY <1>2, <1>4, BoxesGrow DEF AckInv
<1>. QED  BY <1>5, <1>6, <1>7, <1>8 DEF AckInv

\* A request passes the same second as the wait for it.
LEMMA TickAck ==
    ASSUME Typed, AckInv, Tick
    PROVE  AckInv'
<1>1. UNCHANGED <<mailbox, waits, actor, job, fate>>
  BY DEF Tick
<1>2. \A i \in Interactions :
        left'[i] = IF job[i] \in {"deferring", "verifying"} THEN left[i] - 1 ELSE left[i]
  BY DEF Tick, Requesting
<1>3. \A g \in Guilds : actor[g] = "waiting" => patience'[g] = patience[g] - 1
  BY DEF Tick, Patient
<1>4. Deadlines'
  BY <1>1, <1>2, LimitsAssumption DEF AckInv, Deadlines, Typed, JobsOK
<1>5. Taken' = Taken
  BY <1>1 DEF Taken
<1>6. Patience'
  <2>. SUFFICES ASSUME NEW g \in Guilds, actor[g] = "waiting"
                PROVE  /\ waits[g] \in Taken
                       /\ job[waits[g]] = "deferring" => left'[waits[g]] + LOOKUP_TIME < patience'[g]
                       /\ job[waits[g]] = "verifying" => left'[waits[g]] < patience'[g]
    BY <1>1, <1>5 DEF Patience
  <2>1. /\ waits[g] \in Interactions /\ waits[g] \in Taken
        /\ job[waits[g]] = "deferring" => left[waits[g]] + LOOKUP_TIME < patience[g]
        /\ job[waits[g]] = "verifying" => left[waits[g]] < patience[g]
    BY DEF AckInv, Patience, Taken
  <2>2. left[waits[g]] \in Nat /\ patience[g] \in Nat /\ LOOKUP_TIME \in Nat
    BY <2>1, LimitsAssumption DEF Typed, JobsOK, ActorsOK
  <2>. QED  BY <1>2, <1>3, <2>1, <2>2
<1>. QED  BY <1>1, <1>4, <1>5, <1>6 DEF AckInv, OnlyUnconfirmedIsDiscarded

\* An interaction that arrives is nobody's yet.
LEMMA RequestAck ==
    ASSUME Typed, AckInv, NEW i \in Interactions,
           Refused(i) \/ Suggest(i) \/ LateDeferral(i) \/ \E g \in Guilds : TakenOn(i, g)
    PROVE  AckInv'
<1>1. CASE Refused(i) \/ Suggest(i)
  <2>1. UNCHANGED <<mailbox, waits, actor, patience, left>>
    BY <1>1 DEF Refused, Suggest, actorvars
  <2>2. /\ fate[i] = "new" /\ fate' = [fate EXCEPT ![i] = "aside"]
        /\ job' = job \/ \E task \in {"rejecting", "suggesting"} : job' = [job EXCEPT ![i] = task]
    BY <1>1 DEF Refused, Suggest, Reject
  <2>3. \A j \in Interactions : j # i => job'[j] = job[j] /\ fate'[j] = fate[j]
    BY <2>2 DEF Typed, JobsOK
  <2>4. i \notin Taken /\ Taken \subseteq Taken'
    BY <2>2, <2>3 DEF Taken
  <2>5. Deadlines'
    BY <2>1, <2>2 DEF AckInv, Deadlines, Typed, JobsOK
  <2>6. Patience'
    BY <2>1, <2>3, <2>4 DEF AckInv, Patience, Taken
  <2>7. OnlyUnconfirmedIsDiscarded'
    BY <2>2, <2>3 DEF AckInv, OnlyUnconfirmedIsDiscarded, Typed, JobsOK
  <2>. QED  BY <2>1, <2>4, <2>5, <2>6, <2>7, BoxesGrow DEF AckInv
<1>2. CASE LateDeferral(i)
  BY <1>2, QuietAck DEF LateDeferral, actorvars, AckInv
<1>3. ASSUME NEW g \in Guilds, TakenOn(i, g)
      PROVE  AckInv'
  <2>1. /\ fate[i] = "new" /\ fate' = [fate EXCEPT ![i] = "queued"]
        /\ job' = [job EXCEPT ![i] = "deferring"]
        /\ left' = [left EXCEPT ![i] = DEFER_TIME]
        /\ mailbox' = [mailbox EXCEPT ![g] = Append(@, i)]
        /\ UNCHANGED <<waits, patience>>
        /\ actor' = [actor EXCEPT ![g] = IF g \in guilds THEN @ ELSE "idle"]
    BY <1>3 DEF TakenOn
  <2>2. \A j \in Interactions :
          j # i => job'[j] = job[j] /\ fate'[j] = fate[j] /\ left'[j] = left[j]
    BY <2>1 DEF Typed, JobsOK
  <2>3. i \notin Taken /\ i \in Taken' /\ Taken \subseteq Taken'
    BY <2>1, <2>2 DEF Taken, Typed, JobsOK, Acks
  <2>4. Deadlines'
    BY <2>1, LimitsAssumption DEF AckInv, Deadlines, Typed, JobsOK
  <2>5. \A h \in Guilds : actor'[h] = "waiting" => actor[h] = "waiting"
    BY <2>1 DEF Typed, ActorsOK
  <2>6. Patience'
    BY <2>1, <2>2, <2>3, <2>5 DEF AckInv, Patience, Taken
  <2>7. OnlyUnconfirmedIsDiscarded'
    BY <2>1, <2>2 DEF AckInv, OnlyUnconfirmedIsDiscarded, Typed, JobsOK
  <2>8. mailbox \in [Guilds -> Seq(Taken' \union {Notice})]
    BY <2>3, BoxesGrow DEF AckInv
  <2>9. mailbox' \in [Guilds -> Seq(Taken' \union {Notice})]
    BY <2>1, <2>3, <2>8
  <2>. QED  BY <2>4, <2>6, <2>7, <2>9 DEF AckInv
<1>. QED  BY <1>1, <1>2, <1>3

\* The wait begins with more time than the task has.
LEMMA ReceiveAck ==
    ASSUME Typed, AckInv, NEW g \in Guilds, Receive(g)
    PROVE  AckInv'
<1>1. Head(mailbox[g]) \in Taken \union {Notice} /\ Tail(mailbox[g]) \in Seq(Taken \union {Notice})
  BY FirstMessage DEF Receive, AckInv
<1>2. mailbox' \in [Guilds -> Seq(Taken \union {Notice})]
  BY <1>1 DEF Receive, AckInv
<1>3. UNCHANGED <<job, left, fate>> /\ Taken' = Taken
  BY DEF Receive, jobvars, Taken
<1>4. Patience'
  <2>1. CASE Head(mailbox[g]) = Notice
    <3>1. actor' = [actor EXCEPT ![g] = "busy"] /\ UNCHANGED <<waits, patience>>
      BY <2>1 DEF Receive
    <3>. QED  BY <1>3, <3>1 DEF AckInv, Patience, Typed, ActorsOK
  <2>2. CASE Head(mailbox[g]) # Notice
    <3>. DEFINE i == Head(mailbox[g])
    <3>1. /\ actor' = [actor EXCEPT ![g] = "waiting"]
          /\ waits' = [waits EXCEPT ![g] = i]
          /\ patience' = [patience EXCEPT ![g] = ACK_WAIT]
      BY <2>2 DEF Receive
    <3>2. i \in Taken /\ i \in Interactions
      BY <1>1, <2>2 DEF Taken
    <3>. HIDE DEF i
    <3>3. /\ job[i] = "deferring" => left[i] + LOOKUP_TIME < ACK_WAIT
          /\ job[i] = "verifying" => left[i] < ACK_WAIT
      BY <3>2, LimitsAssumption, AckBudget DEF AckInv, Deadlines, Typed, JobsOK
    <3>4. waits'[g] = i /\ patience'[g] = ACK_WAIT
      BY <3>1 DEF Typed, ActorsOK
    <3>5. \A h \in Guilds : h # g => /\ actor'[h] = actor[h] /\ waits'[h] = waits[h]
                                     /\ patience'[h] = patience[h]
      BY <3>1 DEF Typed, ActorsOK
    <3>. QED  BY <1>3, <3>2, <3>3, <3>4, <3>5 DEF AckInv, Patience
  <2>. QED  BY <2>1, <2>2
<1>. QED  BY <1>2, <1>3, <1>4 DEF AckInv, Deadlines, OnlyUnconfirmedIsDiscarded

\* A decision is about a task that said no or never will say yes.
LEMMA DecisionAck ==
    ASSUME Typed, AckInv, NEW g \in Guilds, Execute(g) \/ Discard(g)
    PROVE  AckInv'
<1>. DEFINE i == waits[g]
<1>1. /\ actor[g] = "waiting"
      /\ \E after \in {"busy", "idle", "leaving"} : actor' = [actor EXCEPT ![g] = after]
      /\ waits' = [waits EXCEPT ![g] = None]
      /\ patience' = [patience EXCEPT ![g] = 0]
      /\ UNCHANGED <<mailbox, job, left>>
  BY DEF Execute, Discard, AfterTurn, jobvars
<1>2. /\ i \in Taken /\ i \in Interactions
      /\ job[i] = "deferring" => left[i] + LOOKUP_TIME < patience[g]
      /\ job[i] = "verifying" => left[i] < patience[g]
  BY <1>1 DEF AckInv, Patience, Taken
<1>3. left[i] \in Nat /\ patience[g] \in Nat /\ LOOKUP_TIME \in Nat
  BY <1>2, LimitsAssumption DEF Typed, JobsOK, ActorsOK
<1>4. Discard(g) => job[i] \in {"unconfirmed", "refused", "aborted"}
  BY <1>2, <1>3 DEF Discard, Taken, Acks
<1>5. \/ fate' = [fate EXCEPT ![i] = "executed"]
      \/ Discard(g) /\ fate' = [fate EXCEPT ![i] = "discarded"]
  BY DEF Execute, Discard
<1>. HIDE DEF i
<1>6. Taken \subseteq Taken'
  BY <1>1, <1>2, <1>5 DEF Taken, Typed, JobsOK
<1>7. OnlyUnconfirmedIsDiscarded'
  BY <1>1, <1>2, <1>4, <1>5 DEF AckInv, OnlyUnconfirmedIsDiscarded, Typed, JobsOK
<1>8. \A h \in Guilds :
        actor'[h] = "waiting" => /\ actor[h] = "waiting" /\ waits'[h] = waits[h]
                                 /\ patience'[h] = patience[h]
  BY <1>1 DEF Typed, ActorsOK
<1>9. Patience'
  BY <1>1, <1>6, <1>8 DEF AckInv, Patience
<1>10. mailbox' \in [Guilds -> Seq(Taken' \union {Notice})]
  BY <1>1, <1>6, BoxesGrow DEF AckInv
<1>. QED  BY <1>1, <1>7, <1>9, <1>10 DEF AckInv, Deadlines

\* What an actor leaves behind is lost, not discarded.
LEMMA OverAck ==
    ASSUME Typed, AckInv, NEW g \in Guilds, TaskOver(g)
    PROVE  AckInv'
<1>1. PICK after \in {"ended", "panicked"} : TaskEnds(g, after)
  BY DEF TaskOver, Ended, Panics, Kill
<1>2. /\ actor' = [actor EXCEPT ![g] = after]
      /\ mailbox' = [mailbox EXCEPT ![g] = <<>>]
      /\ waits' = [waits EXCEPT ![g] = None]
      /\ patience' = [patience EXCEPT ![g] = 0]
      /\ UNCHANGED <<job, left>>
      /\ \A i \in Interactions : fate'[i] = "lost" \/ fate'[i] = fate[i]
  BY <1>1 DEF TaskEnds, jobvars
<1>3. Taken \subseteq Taken'
  BY <1>2 DEF Taken
<1>4. mailbox \in [Guilds -> Seq(Taken' \union {Notice})]
  BY <1>3, BoxesGrow DEF AckInv
<1>5. mailbox' \in [Guilds -> Seq(Taken' \union {Notice})]
  BY <1>2, <1>4
<1>6. \A h \in Guilds :
        actor'[h] = "waiting" => /\ actor[h] = "waiting" /\ waits'[h] = waits[h]
                                 /\ patience'[h] = patience[h]
  BY <1>2 DEF Typed, ActorsOK
<1>7. Patience'
  BY <1>2, <1>3, <1>6 DEF AckInv, Patience
<1>. QED  BY <1>2, <1>5, <1>7 DEF AckInv, Deadlines, OnlyUnconfirmedIsDiscarded

LEMMA TurnAck ==
    ASSUME Typed, AckInv, NEW g \in Guilds, Leave(g) \/ HandlerEnds(g) \/ Joins(g)
    PROVE  AckInv'
<1>1. /\ \E after \in {"none", "idle", "leaving"} : actor' = [actor EXCEPT ![g] = after]
      /\ UNCHANGED <<mailbox, waits, patience, job, left, fate>>
  BY DEF Leave, HandlerEnds, AfterTurn, Joins, JoinActor, JoinPanicked, ActorJoined, jobvars
<1>2. \A h \in Guilds : actor'[h] = "waiting" => actor[h] = "waiting"
  BY <1>1 DEF Typed, ActorsOK
<1>3. Taken' = Taken
  BY <1>1 DEF Taken
<1>4. Patience'
  BY <1>1, <1>2, <1>3 DEF AckInv, Patience
<1>. QED  BY <1>1, <1>3, <1>4 DEF AckInv, Deadlines, OnlyUnconfirmedIsDiscarded

-----------------------------------------------------------------------------
(* The limits.                                                             *)

\* A set grows by one element, and only below its limit.
WithinLimit(S, T, n) ==
    T \subseteq S \/ (Cardinality(S) < n /\ \E x : T = S \union {x})

LEMMA LimitKept ==
    ASSUME NEW S, NEW T, NEW n \in Nat, IsFiniteSet(S), Cardinality(S) <= n,
           WithinLimit(S, T, n)
    PROVE  IsFiniteSet(T) /\ Cardinality(T) <= n
<1>1. Cardinality(S) \in Nat
  BY FS_CardinalityType
<1>2. CASE T \subseteq S
  <2>1. IsFiniteSet(T) /\ Cardinality(T) <= Cardinality(S)
    BY <1>2, FS_Subset
  <2>2. Cardinality(T) \in Nat
    BY <2>1, FS_CardinalityType
  <2>. QED  BY <1>1, <2>1, <2>2
<1>3. CASE Cardinality(S) < n /\ \E x : T = S \union {x}
  BY <1>1, <1>3, FS_AddElement
<1>. QED  BY <1>2, <1>3 DEF WithinLimit

\* Only an actor that lives has messages.
LimitInv ==
    /\ Bounded /\ IsFiniteSet(guilds)
    /\ \A g \in Guilds : ~Alive(g) => mailbox[g] = <<>>

LEMMA InitLimits == Init => LimitInv
<1>. SUFFICES ASSUME Init PROVE LimitInv
  OBVIOUS
<1>1. Jobs = {} /\ Rejections = {} /\ guilds = {}
  BY DEF Init, Jobs, Rejections
<1>2. \A g \in Guilds : mailbox[g] = <<>>
  BY DEF Init
<1>. QED  BY <1>1, <1>2, FS_EmptySet, LimitsAssumption DEF LimitInv, Bounded

\* How a step changes what is limited.
Mails ==
    \A g \in Guilds :
        \/ mailbox'[g] = mailbox[g] /\ (Alive(g) => Alive(g)')
        \/ mailbox'[g] = <<>>
        \/ /\ Alive(g)' /\ Len(mailbox'[g]) <= MAILBOX

LEMMA LimitStep ==
    ASSUME Typed, LimitInv, Mails,
           WithinLimit(guilds, guilds', MAX_GUILDS),
           WithinLimit(Jobs, Jobs', JOBS),
           WithinLimit(Rejections, Rejections', REJECTIONS)
    PROVE  LimitInv'
<1>1. IsFiniteSet(guilds') /\ Cardinality(guilds') <= MAX_GUILDS
  BY LimitKept, LimitsAssumption DEF LimitInv, Bounded
<1>2. IsFiniteSet(Jobs) /\ IsFiniteSet(Rejections)
  BY ValuesAssumption, FS_Subset DEF Jobs, Rejections
<1>3. Cardinality(Jobs') <= JOBS /\ Cardinality(Rejections') <= REJECTIONS
  BY <1>2, LimitKept, LimitsAssumption DEF LimitInv, Bounded
<1>4. \A g \in Guilds : /\ Len(mailbox'[g]) <= MAILBOX
                        /\ ~Alive(g)' => mailbox'[g] = <<>>
  BY LimitsAssumption DEF Mails, LimitInv, Bounded
<1>. QED  BY <1>1, <1>3, <1>4 DEF LimitInv, Bounded

\* A notice is put only where there is room.
LEMMA NoticesFit ==
    ASSUME Typed, Notices
    PROVE  mailbox' = mailbox \/ \E S : (\A g \in S : Room(g)) /\ Notify(S)
<1>1. CASE Broadcast
  BY <1>1 DEF Broadcast
<1>2. CASE \E g \in Guilds : Payload(g)
  BY <1>2 DEF Payload
<1>3. CASE \E g \in Guilds : GuildCreated(g) \/ GuildUnavailable(g) \/ GuildDeleted(g)
                              \/ VoiceEvent(g)
  BY <1>3 DEF GuildCreated, GuildUnavailable, GuildDeleted, VoiceEvent, CacheEvent
<1>. QED  BY <1>1, <1>2, <1>3 DEF Notices

LEMMA NoticesLimits ==
    ASSUME Typed, LimitInv, Notices
    PROVE  LimitInv'
<1>1. UNCHANGED <<guilds, actor, job>>
  BY NoticesOnlyNotify DEF jobvars
<1>2. \A g \in Guilds :
        \/ mailbox'[g] = mailbox[g]
        \/ Room(g) /\ mailbox'[g] = Append(mailbox[g], Notice)
  BY NoticesFit DEF Notify, Typed, ActorsOK
<1>3. \A g \in Guilds : mailbox[g] \in Seq(Interactions \union {Notice})
  BY DEF Typed, ActorsOK
<1>4. \A g \in Guilds : Room(g) => Len(Append(mailbox[g], Notice)) <= MAILBOX
  BY <1>3, LimitsAssumption DEF Room
<1>5. \A g \in Guilds : (Alive(g)' <=> Alive(g)) /\ (Room(g) => Alive(g))
  BY <1>1 DEF Alive, Room
<1>6. Mails
  BY <1>2, <1>4, <1>5 DEF Mails
<1>. QED  BY <1>1, <1>6, LimitStep DEF WithinLimit, Jobs, Rejections

\* Steps of tasks and of the loop leave every mailbox, and add no task.
LEMMA QuietLimits ==
    ASSUME Typed, LimitInv, UNCHANGED <<guilds, actor, mailbox>>,
           Jobs' \subseteq Jobs, Rejections' \subseteq Rejections
    PROVE  LimitInv'
BY LimitStep DEF WithinLimit, Mails, Alive

LEMMA TaskLimits ==
    ASSUME Typed, LimitInv, TaskActions
    PROVE  LimitInv'
<1>1. PICK i \in Interactions : TaskStep(i)
  BY TaskSteps DEF TaskActions
<1>2. UNCHANGED <<guilds, actor, mailbox>>
  BY <1>1 DEF TaskStep, JobStep, actorvars
<1>3. PICK after \in Afters : job' = [job EXCEPT ![i] = after]
                              /\ (after = "verifying" => i \in Jobs)
  BY <1>1 DEF TaskStep, JobStep, Afters, Jobs
<1>4. Jobs' \subseteq Jobs /\ Rejections' \subseteq Rejections
  BY <1>3 DEF Jobs, Rejections, Afters, Typed, JobsOK
<1>. QED  BY <1>2, <1>4, QuietLimits

LEMMA RequestLimits ==
    ASSUME Typed, MapMatchesActors, LimitInv, NEW i \in Interactions,
           Refused(i) \/ Suggest(i) \/ LateDeferral(i) \/ \E g \in Guilds : TakenOn(i, g)
    PROVE  LimitInv'
<1>1. CASE Refused(i) \/ LateDeferral(i)
  <2>1. UNCHANGED <<guilds, actor, mailbox>>
    BY <1>1 DEF Refused, LateDeferral, actorvars
  <2>2. \/ job' = job
        \/ Cardinality(Rejections) < REJECTIONS /\ job' = [job EXCEPT ![i] = "rejecting"]
    BY <1>1 DEF Refused, Reject, LateDeferral
  <2>3. Jobs' \subseteq Jobs /\ WithinLimit(Rejections, Rejections', REJECTIONS)
    <3>1. CASE job' = job
      BY <3>1 DEF WithinLimit, Jobs, Rejections
    <3>2. CASE Cardinality(Rejections) < REJECTIONS /\ job' = [job EXCEPT ![i] = "rejecting"]
      <4>1. Jobs' \subseteq Jobs /\ Rejections' = Rejections \union {i}
        BY <3>2 DEF Jobs, Rejections, Typed, JobsOK
      <4>. QED  BY <3>2, <4>1 DEF WithinLimit
    <3>. QED  BY <2>2, <3>1, <3>2
  <2>. QED  BY <2>1, <2>3, LimitStep DEF WithinLimit, Mails, Alive
<1>2. CASE Suggest(i)
  <2>1. UNCHANGED <<guilds, actor, mailbox>> /\ job' = [job EXCEPT ![i] = "suggesting"]
    BY <1>2 DEF Suggest, actorvars
  <2>2. ~(Cardinality(Jobs) >= JOBS)
    BY <1>2 DEF Suggest, Refusable
  <2>3. IsFiniteSet(Jobs) /\ Cardinality(Jobs) < JOBS
    <3>1. IsFiniteSet(Jobs)
      BY ValuesAssumption, FS_Subset DEF Jobs
    <3>. QED  BY <2>2, <3>1, FS_CardinalityType, LimitsAssumption
  <2>4. WithinLimit(Jobs, Jobs', JOBS) /\ Rejections' \subseteq Rejections
    <3>1. Jobs' = Jobs \union {i} /\ Rejections' \subseteq Rejections
      BY <2>1 DEF Jobs, Rejections, Typed, JobsOK
    <3>. QED  BY <2>3, <3>1 DEF WithinLimit
  <2>. QED  BY <2>1, <2>4, LimitStep DEF WithinLimit, Mails, Alive
<1>3. ASSUME NEW g \in Guilds, TakenOn(i, g)
      PROVE  LimitInv'
  <2>1. /\ phase = "running" /\ guilds' = guilds \union {g}
        /\ actor' = [actor EXCEPT ![g] = IF g \in guilds THEN @ ELSE "idle"]
        /\ mailbox' = [mailbox EXCEPT ![g] = Append(@, i)]
        /\ job' = [job EXCEPT ![i] = "deferring"]
        /\ ~Refusable(g, FALSE, FALSE)
    BY <1>3 DEF TakenOn
  <2>2. /\ ~(Cardinality(Jobs) >= JOBS)
        /\ g \in guilds => Room(g)
        /\ g \notin guilds => ~(Cardinality(guilds) >= MAX_GUILDS)
    BY <2>1 DEF Refusable
  <2>3. Cardinality(Jobs) \in Nat /\ Cardinality(guilds) \in Nat
    <3>1. IsFiniteSet(Jobs)
      BY ValuesAssumption, FS_Subset DEF Jobs
    <3>. QED  BY <3>1, FS_CardinalityType DEF LimitInv
  <2>4. WithinLimit(guilds, guilds', MAX_GUILDS)
    <3>1. CASE g \in guilds
      <4>1. guilds' \subseteq guilds
        BY <2>1, <3>1
      <4>. QED  BY <4>1 DEF WithinLimit
    <3>2. CASE g \notin guilds
      <4>1. Cardinality(guilds) < MAX_GUILDS
        BY <2>2, <2>3, <3>2, LimitsAssumption
      <4>. QED  BY <2>1, <4>1 DEF WithinLimit
    <3>. QED  BY <3>1, <3>2
  <2>5. WithinLimit(Jobs, Jobs', JOBS) /\ Rejections' \subseteq Rejections
    <3>1. Jobs' = Jobs \union {i} /\ Rejections' \subseteq Rejections
      BY <2>1 DEF Jobs, Rejections, Typed, JobsOK
    <3>. QED  BY <2>2, <2>3, <3>1, LimitsAssumption DEF WithinLimit
  <2>6. mailbox[g] \in Seq(Interactions \union {Notice})
    BY DEF Typed, ActorsOK
  <2>7. Len(Append(mailbox[g], i)) <= MAILBOX
    <3>1. CASE g \in guilds
      BY <2>2, <2>6, <3>1, LimitsAssumption DEF Room
    <3>2. CASE g \notin guilds
      <4>1. mailbox[g] = <<>>
        BY <2>1, <3>2 DEF MapMatchesActors, LimitInv, Alive
      <4>. QED  BY <4>1, LimitsAssumption
    <3>. QED  BY <3>1, <3>2
  <2>8. Alive(g)'
    BY <2>1, <2>2 DEF Alive, Room, Typed, ActorsOK
  <2>9. \A h \in Guilds : h # g => mailbox'[h] = mailbox[h] /\ (Alive(h) => Alive(h)')
    BY <2>1 DEF Alive, Typed, ActorsOK
  <2>10. mailbox'[g] = Append(mailbox[g], i)
    BY <2>1 DEF Typed, ActorsOK
  <2>11. Mails
    BY <2>7, <2>8, <2>9, <2>10 DEF Mails
  <2>. QED  BY <2>4, <2>5, <2>11, LimitStep DEF WithinLimit
<1>. QED  BY <1>1, <1>2, <1>3

LEMMA ActorLimits ==
    ASSUME Typed, LimitInv, NEW g \in Guilds,
           \/ Receive(g) \/ Execute(g) \/ Discard(g) \/ Leave(g)
           \/ HandlerEnds(g) \/ TaskOver(g) \/ Joins(g)
    PROVE  LimitInv'
<1>1. guilds' \subseteq guilds /\ job' = job
  BY DEF Receive, Execute, Discard, Leave, HandlerEnds, TaskOver, Ended, Panics, Kill,
         TaskEnds, Joins, JoinActor, JoinPanicked, ActorJoined, jobvars
<1>2. CASE Receive(g)
  <2>1. /\ mailbox' = [mailbox EXCEPT ![g] = Tail(@)] /\ mailbox[g] # <<>>
        /\ \E after \in {"busy", "waiting"} : actor' = [actor EXCEPT ![g] = after]
    BY <1>2 DEF Receive
  <2>2. mailbox[g] \in Seq(Interactions \union {Notice}) /\ Len(mailbox[g]) <= MAILBOX
    BY DEF Typed, ActorsOK, LimitInv, Bounded
  <2>3. Len(Tail(mailbox[g])) <= MAILBOX
    BY <2>1, <2>2, LimitsAssumption
  <2>4. Alive(g)' /\ \A h \in Guilds : h # g => (Alive(h) => Alive(h)')
    BY <2>1 DEF Alive, Typed, ActorsOK
  <2>5. Mails
    BY <2>1, <2>3, <2>4 DEF Mails, Typed, ActorsOK
  <2>. QED  BY <1>1, <2>5, LimitStep DEF WithinLimit, Jobs, Rejections
<1>3. CASE Execute(g) \/ Discard(g) \/ Leave(g) \/ HandlerEnds(g)
  <2>1. /\ mailbox' = mailbox
        /\ \E after \in {"busy", "idle", "leaving"} : actor' = [actor EXCEPT ![g] = after]
    BY <1>3 DEF Execute, Discard, Leave, HandlerEnds, AfterTurn
  <2>2. Mails
    BY <2>1 DEF Mails, Alive, Typed, ActorsOK
  <2>. QED  BY <1>1, <2>2, LimitStep DEF WithinLimit, Jobs, Rejections
<1>4. CASE TaskOver(g)
  <2>1. PICK after \in {"ended", "panicked"} : TaskEnds(g, after)
    BY <1>4 DEF TaskOver, Ended, Panics, Kill
  <2>2. Mails
    BY <2>1 DEF TaskEnds, Mails, Alive, Typed, ActorsOK
  <2>. QED  BY <1>1, <2>2, LimitStep DEF WithinLimit, Jobs, Rejections
<1>5. CASE Joins(g)
  <2>1. mailbox' = mailbox /\ ~Alive(g) /\ actor' = [actor EXCEPT ![g] = "none"]
    BY <1>5 DEF Joins, JoinActor, JoinPanicked, ActorJoined, Alive
  <2>2. Mails
    BY <2>1 DEF Mails, Alive, Typed, ActorsOK
  <2>. QED  BY <1>1, <2>2, LimitStep DEF WithinLimit, Jobs, Rejections
<1>. QED  BY <1>2, <1>3, <1>4, <1>5

LEMMA AllLimits ==
    ASSUME Typed, MapMatchesActors, LimitInv, [Next]_vars
    PROVE  LimitInv'
<1>1. CASE LoopActions \/ Tick \/ UNCHANGED vars
  <2>1. UNCHANGED <<guilds, actor, mailbox, job>>
    BY <1>1 DEF LoopActions, Signal, LoopCancelled, SourceEnds, JobsJoined, JoinTimeout,
                Stop, Tick, vars, actorvars, jobvars
  <2>. QED  BY <2>1, QuietLimits DEF Jobs, Rejections
<1>. QED  BY <1>1, EveryAction, NoticesLimits, TaskLimits, RequestLimits, ActorLimits

-----------------------------------------------------------------------------
(* The inductive invariant.                                                *)

RuntimeInv == Typed /\ MapMatchesActors /\ AckInv /\ LimitInv

LEMMA InitRuntime == Init => RuntimeInv
<1>. SUFFICES ASSUME Init PROVE RuntimeInv
  OBVIOUS
<1>1. MapMatchesActors
  BY DEF Init, MapMatchesActors
<1>2. mailbox \in [Guilds -> Seq(Taken \union {Notice})]
  BY DEF Init
<1>3. AckInv
  BY <1>2 DEF Init, AckInv, Deadlines, Patience, OnlyUnconfirmedIsDiscarded
<1>. QED  BY InitTypes, InitLimits, <1>1, <1>3 DEF RuntimeInv

LEMMA AckStep ==
    ASSUME Typed, AckInv, [Next]_vars
    PROVE  Typed' /\ AckInv'
<1>1. CASE LoopActions
  <2>1. UNCHANGED <<job, left, fate, actor, waits, patience, mailbox>>
    BY <1>1 DEF LoopActions, Signal, LoopCancelled, SourceEnds, JobsJoined, JoinTimeout,
                Stop, actorvars, jobvars
  <2>. QED  BY <1>1, <2>1, LoopTypes, QuietAck DEF AckInv
<1>2. CASE Notices
  <2>1. mailbox' \in [Guilds -> Seq(Taken \union {Notice})]
    BY <1>2, NoticesOnlyNotify, NotifyTypes DEF AckInv
  <2>. QED  BY <1>2, <2>1, NoticesTypes, NoticesOnlyNotify, QuietAck DEF jobvars
<1>3. CASE TaskActions
  BY <1>3, TaskTypes, TaskAck
<1>4. CASE Tick
  BY <1>4, TickTypes, TickAck
<1>5. ASSUME NEW i \in Interactions,
             Refused(i) \/ Suggest(i) \/ LateDeferral(i) \/ \E g \in Guilds : TakenOn(i, g)
      PROVE  Typed' /\ AckInv'
  BY <1>5, RequestTypes, RequestAck
<1>6. ASSUME NEW g \in Guilds, Receive(g)
      PROVE  Typed' /\ AckInv'
  BY <1>6, ReceiveTypes, ReceiveAck
<1>7. ASSUME NEW g \in Guilds, Execute(g) \/ Discard(g)
      PROVE  Typed' /\ AckInv'
  <2>1. waits[g] \in Interactions
    BY <1>7 DEF Execute, Discard, AckInv, Patience, Taken
  <2>. QED  BY <1>7, <2>1, DecisionTypes, DecisionAck
<1>8. ASSUME NEW g \in Guilds, TaskOver(g)
      PROVE  Typed' /\ AckInv'
  BY <1>8, OverTypes, OverAck
<1>9. ASSUME NEW g \in Guilds, Leave(g) \/ HandlerEnds(g) \/ Joins(g)
      PROVE  Typed' /\ AckInv'
  BY <1>9, TurnTypes, TurnAck
<1>10. CASE UNCHANGED vars
  <2>1. UNCHANGED <<job, left, fate, actor, waits, patience, mailbox>>
    BY <1>10 DEF vars, actorvars, jobvars
  <2>2. Typed'
    BY <1>10 DEF vars, loopvars, actorvars, jobvars, Typed, LoopOK, ActorsOK, JobsOK
  <2>. QED  BY <2>1, <2>2, QuietAck DEF AckInv
<1>. QED  BY <1>1, <1>2, <1>3, <1>4, <1>5, <1>6, <1>7, <1>8, <1>9, <1>10, EveryAction

LEMMA RuntimeStep == RuntimeInv /\ [Next]_vars => RuntimeInv'
BY AckStep, MapStep, AllLimits DEF RuntimeInv

LEMMA AlwaysRuntime == Spec => []RuntimeInv
<1>1. Init => RuntimeInv
  BY InitRuntime
<1>2. RuntimeInv /\ [Next]_vars => RuntimeInv'
  BY RuntimeStep
<1>. QED  BY <1>1, <1>2, PTL DEF Spec

\* Every variable keeps its type; and there are never more than MAX_GUILDS
\* actors in the map, JOBS tasks, REJECTIONS refusals and MAILBOX messages for
\* an actor (run and reject in runtime.rs), whatever the four limits are.
THEOREM LimitsHold == Spec => []TypeOK
<1>1. RuntimeInv => TypeOK
  BY DEF RuntimeInv, Typed, LimitInv, TypeOK
<1>. QED  BY <1>1, AlwaysRuntime, PTL

\* As long as the loop of run (runtime.rs) turns, its map names exactly the
\* servers with an actor that was not joined, for any number of servers.
THEOREM OneActorPerServer == Spec => []MapMatchesActors
<1>1. RuntimeInv => MapMatchesActors
  BY DEF RuntimeInv
<1>. QED  BY <1>1, AlwaysRuntime, PTL

\* The actor's wait (GuildSession::run, session.rs) outlasts the deferral and
\* its lookup (acknowledge, discord.rs) for all time limits that leave it more
\* than the two together, whatever else happens to tasks and mailboxes.
THEOREM WaitCoversTheLookup == Spec => []OnlyUnconfirmedIsDiscarded
<1>1. RuntimeInv => OnlyUnconfirmedIsDiscarded
  BY DEF RuntimeInv, AckInv
<1>. QED  BY <1>1, AlwaysRuntime, PTL

-----------------------------------------------------------------------------
(* The line in a mailbox.  Enlisted follows the messages by a recursive    *)
(* function: that it is defined, and what it computes, is shown at the     *)
(* least number of messages that would fail.                               *)

LEMMA NeverBegins ==
    ASSUME NEW W \in SUBSET Nat, 0 \notin W, \A k \in Nat : k \notin W => k + 1 \notin W
    PROVE  W = {}
<1>. SUFFICES ASSUME W # {} PROVE FALSE
  OBVIOUS
<1>. DEFINE R == OpToRel(<, Nat)
<1>1. IsWellFoundedOn(R, Nat)
  BY NatLessThanWellFounded
<1>2. \A d, e \in Nat : d < e => <<d, e>> \in R
  BY DEF OpToRel
<1>. HIDE DEF R
<1>3. PICK m \in W : \A k \in W : <<k, m>> \notin R
  BY <1>1, WFMin
<1>4. m \in Nat /\ m # 0
  OBVIOUS
<1>5. m - 1 \in Nat /\ m - 1 < m /\ (m - 1) + 1 = m
  BY <1>4
<1>6. m - 1 \notin W
  BY <1>2, <1>3, <1>4, <1>5
<1>7. (m - 1) + 1 \notin W
  BY <1>5, <1>6
<1>. QED  BY <1>5, <1>7

\* A line with one more message.
With(line, m) == IF m = Notice THEN line ELSE Append(line, m)

\* The lines after the first n messages of s.
IsLines(f, s, n) == f = [k \in 0..n |-> IF k = 0 THEN <<>> ELSE With(f[k - 1], s[k])]

LEMMA LinesExist ==
    ASSUME NEW s, NEW n \in Nat
    PROVE  \E f : IsLines(f, s, n)
<1>. DEFINE without == {m \in Nat : ~ \E f : IsLines(f, s, m)}
<1>1. 0 \notin without
  <2>. DEFINE f == [k \in 0..0 |-> <<>>]
  <2>1. IsLines(f, s, 0)
    BY DEF IsLines
  <2>. QED  BY <2>1
<1>2. ASSUME NEW m \in Nat, m \notin without
      PROVE  m + 1 \notin without
  <2>1. PICK f : IsLines(f, s, m)
    BY <1>2
  <2>. DEFINE g == [k \in 0..(m + 1) |-> IF k = m + 1 THEN With(f[m], s[m + 1]) ELSE f[k]]
  <2>2. \A k \in 0..m : f[k] = IF k = 0 THEN <<>> ELSE With(f[k - 1], s[k])
    BY <2>1 DEF IsLines
  <2>3. ASSUME NEW k \in 0..(m + 1)
        PROVE  g[k] = IF k = 0 THEN <<>> ELSE With(g[k - 1], s[k])
    <3>1. CASE k = m + 1
      <4>1. k # 0 /\ k - 1 = m /\ m \in 0..(m + 1) /\ m # m + 1
        BY <3>1
      <4>. QED  BY <3>1, <4>1
    <3>2. CASE k # m + 1
      <4>1. k \in 0..m /\ g[k] = f[k]
        BY <3>2
      <4>2. k # 0 => k - 1 \in 0..(m + 1) /\ k - 1 # m + 1
        BY <4>1
      <4>3. k # 0 => g[k - 1] = f[k - 1]
        BY <4>2
      <4>. QED  BY <2>2, <4>1, <4>3
    <3>. QED  BY <3>1, <3>2
  <2>4. g = [k \in 0..(m + 1) |-> g[k]]
    OBVIOUS
  <2>. HIDE DEF g
  <2>5. IsLines(g, s, m + 1)
    BY <2>3, <2>4 DEF IsLines
  <2>. QED  BY <2>5
<1>3. without = {}
  <2>1. without \in SUBSET Nat
    OBVIOUS
  <2>. HIDE DEF without
  <2>. QED  BY <1>1, <1>2, <2>1, NeverBegins
<1>. QED  BY <1>3

\* Whatever takes the messages one at a time arrives at the line.
LEMMA EnlistedIs ==
    ASSUME NEW s, Len(s) \in Nat,
           NEW h, h[0] = <<>>, \A k \in 1..Len(s) : h[k] = With(h[k - 1], s[k])
    PROVE  Enlisted(s) = h[Len(s)]
<1>. DEFINE f == CHOOSE g : IsLines(g, s, Len(s))
            n == Len(s)
<1>1. IsLines(f, s, n)
  BY LinesExist
<1>2. Enlisted(s) = f[n]
  BY DEF Enlisted, IsLines, With
<1>. HIDE DEF f
<1>3. \A k \in 0..n : f[k] = IF k = 0 THEN <<>> ELSE With(f[k - 1], s[k])
  BY <1>1 DEF IsLines
<1>. DEFINE wrong == {k \in 0..n : f[k] # h[k]}
<1>4. 0 \notin wrong
  BY <1>3
<1>5. ASSUME NEW k \in Nat, k \notin wrong
      PROVE  k + 1 \notin wrong
  <2>. SUFFICES ASSUME k + 1 \in 0..n PROVE f[k + 1] = h[k + 1]
    OBVIOUS
  <2>1. k \in 0..n /\ k + 1 \in 1..n /\ (k + 1) - 1 = k /\ k + 1 # 0
    OBVIOUS
  <2>2. f[k] = h[k]
    BY <1>5, <2>1
  <2>. QED  BY <1>3, <2>1, <2>2
<1>6. wrong = {}
  <2>1. wrong \in SUBSET Nat
    OBVIOUS
  <2>. HIDE DEF wrong
  <2>. QED  BY <1>4, <1>5, <2>1, NeverBegins
<1>. QED  BY <1>2, <1>6

\* How the line is made of its parts.
LEMMA EnlistedTurns ==
    ASSUME NEW s, Len(s) \in Nat
    PROVE  \E f : /\ f[0] = <<>> /\ Enlisted(s) = f[Len(s)]
                  /\ \A k \in 1..Len(s) : f[k] = With(f[k - 1], s[k])
<1>. DEFINE f == CHOOSE g : IsLines(g, s, Len(s))
            n == Len(s)
<1>1. IsLines(f, s, n)
  BY LinesExist
<1>2. Enlisted(s) = f[n]
  BY DEF Enlisted, IsLines, With
<1>. HIDE DEF f
<1>3. \A k \in 0..n : f[k] = IF k = 0 THEN <<>> ELSE With(f[k - 1], s[k])
  BY <1>1 DEF IsLines
<1>4. \A k \in 1..n : f[k] = With(f[k - 1], s[k])
  BY <1>3
<1>. QED  BY <1>2, <1>3, <1>4

LEMMA NobodyEnlisted == Enlisted(<<>>) = <<>>
<1>. DEFINE h == [k \in {0} |-> <<>>]
<1>1. h[0] = <<>> /\ Len(<<>>) = 0
  OBVIOUS
<1>. HIDE DEF h
<1>. QED  BY <1>1, EnlistedIs

\* A message at the end is enlisted at the end.
LEMMA EnlistedLast ==
    ASSUME NEW T, NEW s \in Seq(T), NEW m \in T
    PROVE  Enlisted(Append(s, m)) = With(Enlisted(s), m)
<1>. DEFINE t == Append(s, m)
            n == Len(s)
<1>1. n \in Nat /\ Len(t) = n + 1 /\ (\A i \in 1..n : t[i] = s[i]) /\ t[n + 1] = m
  BY AppendProperties
<1>2. PICK f : /\ f[0] = <<>> /\ Enlisted(s) = f[n]
               /\ \A k \in 1..n : f[k] = With(f[k - 1], s[k])
  BY <1>1, EnlistedTurns
<1>. HIDE DEF t
<1>. DEFINE h == [k \in 0..(n + 1) |-> IF k = n + 1 THEN With(f[n], m) ELSE f[k]]
<1>3. h[0] = <<>> /\ h[n + 1] = With(f[n], m)
  BY <1>1, <1>2
<1>4. ASSUME NEW k \in 1..Len(t)
      PROVE  h[k] = With(h[k - 1], t[k])
  <2>1. k - 1 \in 0..(n + 1) /\ k - 1 # n + 1 /\ k \in 0..(n + 1)
    BY <1>1
  <2>2. h[k - 1] = f[k - 1]
    BY <2>1
  <2>3. CASE k = n + 1
    BY <1>1, <1>3, <2>2, <2>3
  <2>4. CASE k # n + 1
    <3>1. k \in 1..n
      BY <1>1, <2>4
    <3>2. h[k] = f[k]
      BY <2>1, <2>4
    <3>. QED  BY <1>1, <1>2, <2>2, <3>1, <3>2
  <2>. QED  BY <2>3, <2>4
<1>. HIDE DEF h
<1>5. Enlisted(t) = h[Len(t)]
  BY <1>1, <1>3, <1>4, EnlistedIs
<1>. QED  BY <1>1, <1>2, <1>3, <1>5 DEF t

LEMMA EnlistedTyped ==
    ASSUME NEW S, NEW s \in Seq(S \union {Notice})
    PROVE  Enlisted(s) \in Seq(S)
<1>. DEFINE n == Len(s)
<1>1. n \in Nat
  OBVIOUS
<1>2. PICK f : /\ f[0] = <<>> /\ Enlisted(s) = f[n]
               /\ \A k \in 1..n : f[k] = With(f[k - 1], s[k])
  BY <1>1, EnlistedTurns
<1>. DEFINE wrong == {k \in 0..n : f[k] \notin Seq(S)}
<1>3. 0 \notin wrong
  BY <1>2, EmptySeq
<1>4. ASSUME NEW k \in Nat, k \notin wrong
      PROVE  k + 1 \notin wrong
  <2>. SUFFICES ASSUME k + 1 \in 0..n PROVE f[k + 1] \in Seq(S)
    OBVIOUS
  <2>1. k \in 0..n /\ k + 1 \in 1..n /\ (k + 1) - 1 = k
    BY <1>1
  <2>2. f[k] \in Seq(S) /\ s[k + 1] \in S \union {Notice}
    BY <1>4, <2>1
  <2>3. f[k + 1] = With(f[k], s[k + 1])
    BY <1>2, <2>1
  <2>. QED  BY <2>2, <2>3, AppendProperties DEF With
<1>5. wrong = {}
  <2>1. wrong \in SUBSET Nat
    OBVIOUS
  <2>. HIDE DEF wrong
  <2>. QED  BY <1>3, <1>4, <2>1, NeverBegins
<1>. QED  BY <1>1, <1>2, <1>5

\* The first message is enlisted first.
LEMMA EnlistedFirst ==
    ASSUME NEW S, Notice \notin S, NEW s \in Seq(S \union {Notice}), s # <<>>
    PROVE  Enlisted(s) = With(<<>>, Head(s)) \o Enlisted(Tail(s))
<1>. DEFINE t == Tail(s)
            n == Len(t)
            first == With(<<>>, Head(s))
<1>1. /\ t \in Seq(S \union {Notice}) /\ Len(s) = n + 1 /\ n \in Nat
      /\ Head(s) = s[1] /\ Head(s) \in S \union {Notice}
      /\ \A i \in 1..n : t[i] = s[i + 1]
  <2>1. t \in Seq(S \union {Notice}) /\ Len(t) = Len(s) - 1 /\ Head(s) = s[1]
    BY HeadTailProperties
  <2>2. Len(s) \in Nat \ {0}
    BY EmptySeq
  <2>. QED  BY <2>1, <2>2
<1>2. PICK f : /\ f[0] = <<>> /\ Enlisted(t) = f[n]
               /\ \A k \in 1..n : f[k] = With(f[k - 1], t[k])
  BY <1>1, EnlistedTurns
<1>3. \A k \in 0..n : f[k] \in Seq(S)
  <2>. DEFINE wrong == {k \in 0..n : f[k] \notin Seq(S)}
  <2>1. 0 \notin wrong
    BY <1>2, EmptySeq
  <2>2. ASSUME NEW k \in Nat, k \notin wrong
        PROVE  k + 1 \notin wrong
    <3>. SUFFICES ASSUME k + 1 \in 0..n PROVE f[k + 1] \in Seq(S)
      OBVIOUS
    <3>1. k \in 0..n /\ k + 1 \in 1..n /\ (k + 1) - 1 = k
      BY <1>1
    <3>2. f[k] \in Seq(S) /\ t[k + 1] \in S \union {Notice}
      BY <1>1, <2>2, <3>1
    <3>3. f[k + 1] = With(f[k], t[k + 1])
      BY <1>2, <3>1
    <3>. QED  BY <3>2, <3>3, AppendProperties DEF With
  <2>3. wrong = {}
    <3>1. wrong \in SUBSET Nat
      OBVIOUS
    <3>. HIDE DEF wrong
    <3>. QED  BY <2>1, <2>2, <3>1, NeverBegins
  <2>. QED  BY <2>3
<1>4. first \in Seq(S)
  <2>1. <<>> \in Seq(S)
    BY EmptySeq
  <2>. QED  BY <1>1, <2>1, AppendProperties DEF With
<1>5. ASSUME NEW line \in Seq(S), NEW m \in S \union {Notice}
      PROVE  first \o With(line, m) = With(first \o line, m)
  <2>. HIDE DEF first
  <2>1. CASE m = Notice
    BY <2>1 DEF With
  <2>2. CASE m # Notice
    <3>1. m \in S /\ <<m>> \in Seq(S)
      BY <2>2
    <3>2. Append(line, m) = line \o <<m>> /\ first \o line \in Seq(S)
      BY <1>4, <3>1, AppendIsConcat, ConcatProperties
    <3>3. Append(first \o line, m) = (first \o line) \o <<m>>
      BY <3>1, <3>2, AppendIsConcat
    <3>4. first \o (line \o <<m>>) = (first \o line) \o <<m>>
      BY <1>4, <3>1, ConcatAssociative
    <3>. QED  BY <2>2, <3>2, <3>3, <3>4 DEF With
  <2>. QED  BY <2>1, <2>2
<1>. DEFINE h == [k \in 0..(n + 1) |-> IF k = 0 THEN <<>> ELSE first \o f[k - 1]]
<1>. HIDE DEF t, first
<1>6. h[0] = <<>> /\ h[n + 1] = first \o f[n]
  <2>1. n + 1 \in 0..(n + 1) /\ n + 1 # 0 /\ (n + 1) - 1 = n /\ 0 \in 0..(n + 1)
    BY <1>1
  <2>. QED  BY <2>1
<1>7. ASSUME NEW k \in 1..Len(s)
      PROVE  h[k] = With(h[k - 1], s[k])
  <2>1. k \in 0..(n + 1) /\ k # 0 /\ k - 1 \in 0..n /\ k - 1 \in 0..(n + 1)
    BY <1>1
  <2>2. h[k] = first \o f[k - 1]
    BY <2>1
  <2>3. CASE k = 1
    <3>1. h[k - 1] = <<>> /\ f[k - 1] = <<>>
      BY <1>2, <2>1, <2>3
    <3>2. first \o <<>> = first
      BY <1>4, ConcatEmptySeq
    <3>. QED  BY <1>1, <2>2, <2>3, <3>1, <3>2 DEF first
  <2>4. CASE k # 1
    <3>1. k - 1 \in 1..n /\ (k - 1) + 1 = k /\ (k - 1) - 1 \in 0..n /\ k - 1 # 0
      BY <1>1, <2>1, <2>4
    <3>2. f[k - 1] = With(f[(k - 1) - 1], s[k])
      BY <1>1, <1>2, <3>1
    <3>3. h[k - 1] = first \o f[(k - 1) - 1]
      BY <2>1, <3>1
    <3>4. s[k] \in S \union {Notice} /\ f[(k - 1) - 1] \in Seq(S)
      <4>1. s[k] \in S \union {Notice}
        BY <1>1
      <4>. QED  BY <1>3, <3>1, <4>1
    <3>. QED  BY <1>5, <2>2, <3>2, <3>3, <3>4
  <2>. QED  BY <2>3, <2>4
<1>. HIDE DEF h
<1>8. Enlisted(s) = h[Len(s)]
  <2>1. Len(s) \in Nat
    OBVIOUS
  <2>2. h[0] = <<>> /\ \A k \in 1..Len(s) : h[k] = With(h[k - 1], s[k])
    BY <1>6, <1>7
  <2>. QED  BY <2>1, <2>2, EnlistedIs
<1>9. Len(s) = n + 1
  BY <1>1
<1>10. Enlisted(s) = first \o Enlisted(t)
  BY <1>2, <1>6, <1>8, <1>9
<1>. QED  BY <1>10 DEF t, first

-----------------------------------------------------------------------------
(* What Discord was told, and whom the actors wait for.                    *)

\* The task of an interaction is of the kind its fate calls for, and Discord
\* holds nothing before that task asks it to.
WellTold ==
    \A i \in Interactions :
        /\ fate[i] = "new" => job[i] = "none"
        /\ job[i] \in {"none", "rejecting", "suggesting", "deferring"} => told[i] = "nothing"
        /\ job[i] = "confirmed" => told[i] = "deferred"
        /\ job[i] \in {"suggesting", "rejecting"} => fate[i] = "aside"
        /\ job[i] \in {"deferring", "verifying", "unconfirmed"} => i \in Admitted

\* Only interactions that were taken on stand in a line.
Standing ==
    /\ \A g \in Guilds : waits[g] # None => actor[g] = "waiting" /\ waits[g] \in Admitted
    /\ mailbox \in [Guilds -> Seq(Admitted \union {Notice})]

LineInv == WellTold /\ Standing

LEMMA InitLine == Init => LineInv
<1>. SUFFICES ASSUME Init PROVE LineInv
  OBVIOUS
<1>1. WellTold
  BY DEF Init, WellTold
<1>2. mailbox \in [Guilds -> Seq(Admitted \union {Notice})]
  BY DEF Init
<1>. QED  BY <1>1, <1>2 DEF Init, LineInv, Standing

LEMMA QuietLine ==
    ASSUME LineInv, UNCHANGED <<job, told, fate, actor, waits>>,
           mailbox' \in [Guilds -> Seq(Admitted \union {Notice})]
    PROVE  LineInv'
BY DEF LineInv, WellTold, Standing, Admitted

\* What a task says of a job, and what it leaves Discord with.
Says(i, after) ==
    /\ told' = told \/ (told[i] = "nothing" /\ Tell(i, Reply(i)))
    /\ after = "confirmed" => told'[i] = "deferred"
    /\ after = "verifying" => job[i] = "deferring"
    /\ after = "unconfirmed" => job[i] = "verifying"
    /\ job' = [job EXCEPT ![i] = after]
    /\ after \in Afters

LEMMA TasksSay ==
    ASSUME Typed, LineInv, NEW i \in Interactions, Task(i) \/ AbortJob(i)
    PROVE  \E after : Says(i, after)
<1>1. /\ job[i] \in {"deferring", "verifying"} => Reply(i) = "deferred"
      /\ job[i] \in {"deferring", "suggesting", "rejecting"} => told[i] = "nothing"
  BY DEF LineInv, WellTold, Reply, Admitted
<1>2. told \in [Interactions -> {"nothing", "deferred", "answer"}]
  BY DEF Typed, JobsOK
<1>3. CASE Deferred(i)
  BY <1>1, <1>2, <1>3 DEF Deferred, Tell, JobStep, Says, Afters
<1>4. CASE DeferRefused(i) \/ Verified(i) \/ Unverified(i)
  BY <1>4 DEF DeferRefused, Verified, Unverified, JobStep, Says, Afters
<1>5. CASE DeferAmbiguous(i)
  BY <1>1, <1>5 DEF DeferAmbiguous, JobStep, Says, Afters
<1>6. CASE Replied(i)
  BY <1>1, <1>6 DEF Replied, JobStep, Says, Afters
<1>7. CASE AbortJob(i)
  BY <1>7 DEF AbortJob, JobStep, Says, Afters
<1>. QED  BY <1>3, <1>4, <1>5, <1>6, <1>7 DEF Task

LEMMA TaskLine ==
    ASSUME Typed, LineInv, NEW i \in Interactions, Task(i) \/ AbortJob(i)
    PROVE  LineInv'
<1>1. UNCHANGED <<actor, mailbox, waits, fate>>
  BY TaskSteps DEF TaskStep, JobStep, actorvars
<1>2. PICK after : Says(i, after)
  BY TasksSay
<1>3. Admitted' = Admitted
  BY <1>1 DEF Admitted
<1>4. Standing'
  BY <1>1, <1>3 DEF LineInv, Standing
<1>5. ASSUME NEW j \in Interactions
      PROVE  /\ fate[j] = "new" => job'[j] = "none"
             /\ job'[j] \in {"none", "rejecting", "suggesting", "deferring"} => told'[j] = "nothing"
             /\ job'[j] = "confirmed" => told'[j] = "deferred"
             /\ job'[j] \in {"suggesting", "rejecting"} => fate[j] = "aside"
             /\ job'[j] \in {"deferring", "verifying", "unconfirmed"} => j \in Admitted
  <2>1. CASE j # i
    <3>1. job'[j] = job[j] /\ told'[j] = told[j]
      BY <1>2, <2>1 DEF Says, Tell, Typed, JobsOK
    <3>. QED  BY <3>1 DEF LineInv, WellTold
  <2>2. CASE j = i
    <3>1. job'[i] = after /\ after \in Afters
      BY <1>2 DEF Says, Typed, JobsOK
    <3>2. job[i] # "none"
      BY TaskSteps DEF TaskStep, Jobs, Rejections
    <3>. QED  BY <1>2, <2>2, <3>1, <3>2 DEF Says, LineInv, WellTold, Afters
  <2>. QED  BY <2>1, <2>2
<1>6. WellTold'
  BY <1>1, <1>3, <1>5 DEF WellTold
<1>. QED  BY <1>4, <1>6 DEF LineInv

\* How an interaction that arrives changes the sets of the line.
LEMMA Arrivals ==
    ASSUME Typed, NEW i \in Interactions, NEW then \in {"aside", "queued"},
           fate[i] = "new", fate' = [fate EXCEPT ![i] = then]
    PROVE  /\ i \notin Admitted \union Aside
           /\ then = "aside" => Admitted' = Admitted /\ Aside' = Aside \union {i}
           /\ then = "queued" => Admitted' = Admitted \union {i} /\ Aside' = Aside
<1>1. \A j \in Interactions : fate'[j] = IF j = i THEN then ELSE fate[j]
  BY DEF Typed, JobsOK
<1>. QED  BY <1>1 DEF Admitted, Aside

LEMMA AsideLine ==
    ASSUME Typed, LineInv, NEW i \in Interactions, Refused(i) \/ Suggest(i)
    PROVE  LineInv'
<1>1. /\ UNCHANGED <<actor, mailbox, waits, told>>
      /\ fate[i] = "new" /\ fate' = [fate EXCEPT ![i] = "aside"]
      /\ job' = job \/ \E task \in {"rejecting", "suggesting"} : job' = [job EXCEPT ![i] = task]
  BY DEF Refused, Suggest, Reject, actorvars
<1>2. Admitted' = Admitted /\ i \notin Admitted
  BY <1>1, Arrivals
<1>3. Standing'
  BY <1>1, <1>2 DEF LineInv, Standing
<1>4. job[i] = "none" /\ told[i] = "nothing"
  BY <1>1 DEF LineInv, WellTold
<1>5. fate'[i] = "aside" /\ job'[i] \in {"none", "rejecting", "suggesting"}
  BY <1>1, <1>4 DEF Typed, JobsOK
<1>6. \A j \in Interactions : j # i => job'[j] = job[j] /\ fate'[j] = fate[j]
  BY <1>1 DEF Typed, JobsOK
<1>7. WellTold'
  BY <1>1, <1>2, <1>4, <1>5, <1>6 DEF LineInv, WellTold
<1>. QED  BY <1>3, <1>7 DEF LineInv

LEMMA LateLine ==
    ASSUME Typed, LineInv, NEW i \in Interactions, LateDeferral(i)
    PROVE  LineInv'
<1>1. /\ UNCHANGED <<actor, mailbox, waits, job, fate>>
      /\ told' = [told EXCEPT ![i] = "deferred"] /\ job[i] \in {"verifying", "unconfirmed"}
  BY DEF LateDeferral, Tell, actorvars
<1>2. Admitted' = Admitted
  BY <1>1 DEF Admitted
<1>3. WellTold'
  BY <1>1, <1>2 DEF LineInv, WellTold, Typed, JobsOK
<1>. QED  BY <1>1, <1>2, <1>3 DEF LineInv, Standing

LEMMA TakenLine ==
    ASSUME Typed, LineInv, NEW i \in Interactions, NEW g \in Guilds, TakenOn(i, g), MapMatchesActors
    PROVE  LineInv'
<1>1. /\ UNCHANGED <<waits, told>> /\ phase = "running"
      /\ fate[i] = "new" /\ fate' = [fate EXCEPT ![i] = "queued"]
      /\ job' = [job EXCEPT ![i] = "deferring"]
      /\ mailbox' = [mailbox EXCEPT ![g] = Append(@, i)]
      /\ actor' = [actor EXCEPT ![g] = IF g \in guilds THEN @ ELSE "idle"]
  BY DEF TakenOn
<1>2. Admitted' = Admitted \union {i} /\ i \notin Admitted
  BY <1>1, Arrivals
<1>3. mailbox' \in [Guilds -> Seq(Admitted' \union {Notice})]
  <2>1. mailbox \in [Guilds -> Seq(Admitted' \union {Notice})]
    BY <1>2, BoxesGrow DEF LineInv, Standing
  <2>. QED  BY <1>1, <1>2, <2>1
<1>4. \A h \in Guilds : actor[h] = "waiting" => actor'[h] = "waiting"
  BY <1>1 DEF MapMatchesActors, Typed, ActorsOK
<1>5. Standing'
  BY <1>1, <1>2, <1>3, <1>4 DEF LineInv, Standing
<1>6. told[i] = "nothing"
  BY <1>1 DEF LineInv, WellTold
<1>7. job'[i] = "deferring" /\ fate'[i] = "queued"
  BY <1>1 DEF Typed, JobsOK
<1>8. \A j \in Interactions : j # i => job'[j] = job[j] /\ fate'[j] = fate[j]
  BY <1>1 DEF Typed, JobsOK
<1>9. WellTold'
  BY <1>1, <1>2, <1>6, <1>7, <1>8 DEF LineInv, WellTold
<1>. QED  BY <1>5, <1>9 DEF LineInv

\* An interaction that is decided stays among those that were taken on.
LEMMA Decisions ==
    ASSUME Typed, NEW S \in SUBSET Admitted, NEW then \in {"executed", "discarded", "lost"},
           fate' = [i \in Interactions |-> IF i \in S THEN then ELSE fate[i]]
    PROVE  Admitted' = Admitted /\ Aside' = Aside
BY DEF Admitted, Aside

LEMMA DecidedTold ==
    ASSUME Typed, LineInv, NEW S \in SUBSET Admitted,
           NEW then \in {"executed", "discarded", "lost"},
           fate' = [i \in Interactions |-> IF i \in S THEN then ELSE fate[i]],
           UNCHANGED <<job, told>>
    PROVE  WellTold'
<1>1. Admitted' = Admitted
  BY Decisions
<1>2. \A i \in Interactions :
        /\ fate'[i] = "new" => fate[i] = "new"
        /\ fate[i] = "aside" => fate'[i] = "aside"
  BY DEF Admitted
<1>. QED  BY <1>1, <1>2 DEF LineInv, WellTold

\* The step of an actor that decides.
Decides(g, then) ==
    /\ actor[g] = "waiting" /\ waits[g] \in Admitted
    /\ \E after \in {"busy", "idle", "leaving"} : actor' = [actor EXCEPT ![g] = after]
    /\ fate' = [i \in Interactions |-> IF i \in {waits[g]} THEN then ELSE fate[i]]
    /\ waits' = [waits EXCEPT ![g] = None]
    /\ UNCHANGED <<mailbox, job, told>>

LEMMA ActorDecides ==
    ASSUME Typed, AckInv, LineInv, NEW g \in Guilds, Execute(g) \/ Discard(g)
    PROVE  \E then \in {"executed", "discarded", "lost"} : Decides(g, then)
<1>1. waits[g] \in Interactions
  BY DEF Execute, Discard, AckInv, Patience, Taken
<1>2. waits[g] # None
  BY <1>1, ValuesAssumption
<1>3. waits[g] \in Admitted
  BY <1>2 DEF LineInv, Standing
<1>4. \E then \in {"executed", "discarded", "lost"} : fate' = [fate EXCEPT ![waits[g]] = then]
  BY DEF Execute, Discard
<1>5. \E then \in {"executed", "discarded", "lost"} :
        fate' = [i \in Interactions |-> IF i \in {waits[g]} THEN then ELSE fate[i]]
  BY <1>1, <1>4 DEF Typed, JobsOK
<1>6. /\ actor[g] = "waiting"
      /\ \E after \in {"busy", "idle", "leaving"} : actor' = [actor EXCEPT ![g] = after]
      /\ waits' = [waits EXCEPT ![g] = None]
      /\ UNCHANGED <<mailbox, job, told>>
  BY DEF Execute, Discard, AfterTurn, jobvars
<1>. QED  BY <1>3, <1>5, <1>6 DEF Decides

LEMMA DecisionLine ==
    ASSUME Typed, AckInv, LineInv, NEW g \in Guilds, Execute(g) \/ Discard(g)
    PROVE  LineInv' /\ Admitted' = Admitted /\ Aside' = Aside
<1>1. PICK then \in {"executed", "discarded", "lost"} : Decides(g, then)
  BY ActorDecides
<1>2. {waits[g]} \in SUBSET Admitted
  BY <1>1 DEF Decides
<1>3. Admitted' = Admitted /\ Aside' = Aside
  BY <1>1, <1>2, Decisions DEF Decides
<1>4. WellTold'
  BY <1>1, <1>2, DecidedTold DEF Decides
<1>5. \A h \in Guilds : waits'[h] # None => waits'[h] = waits[h] /\ actor'[h] = actor[h]
  BY <1>1 DEF Decides, Typed, ActorsOK
<1>6. Standing'
  BY <1>1, <1>3, <1>5 DEF Decides, LineInv, Standing
<1>. QED  BY <1>3, <1>4, <1>6 DEF LineInv

LEMMA OverLine ==
    ASSUME Typed, LineInv, NEW g \in Guilds, TaskOver(g)
    PROVE  LineInv' /\ Admitted' = Admitted /\ Aside' = Aside
<1>1. PICK after \in {"ended", "panicked"} : TaskEnds(g, after)
  BY DEF TaskOver, Ended, Panics, Kill
<1>2. Undecided(g) \in SUBSET Admitted
  <2>1. mailbox[g] \in Seq(Admitted \union {Notice})
    BY DEF LineInv, Standing
  <2>2. ToSet(mailbox[g]) \subseteq Admitted \union {Notice}
    BY <2>1 DEF ToSet
  <2>3. waits[g] \in Admitted \union {None}
    BY DEF LineInv, Standing
  <2>. QED  BY <2>2, <2>3 DEF Undecided
<1>3. /\ fate' = [i \in Interactions |-> IF i \in Undecided(g) THEN "lost" ELSE fate[i]]
      /\ UNCHANGED <<job, told>>
  BY <1>1 DEF TaskEnds, jobvars
<1>4. Admitted' = Admitted /\ Aside' = Aside
  BY <1>2, <1>3, Decisions
<1>5. WellTold'
  BY <1>2, <1>3, DecidedTold
<1>6. \A h \in Guilds : waits'[h] # None => waits'[h] = waits[h] /\ actor'[h] = actor[h]
  BY <1>1 DEF TaskEnds, Typed, ActorsOK
<1>7. mailbox' \in [Guilds -> Seq(Admitted \union {Notice})]
  BY <1>1 DEF TaskEnds, LineInv, Standing
<1>8. Standing'
  BY <1>4, <1>6, <1>7 DEF LineInv, Standing
<1>. QED  BY <1>4, <1>5, <1>8 DEF LineInv

LEMMA ReceiveLine ==
    ASSUME Typed, LineInv, NEW g \in Guilds, Receive(g)
    PROVE  LineInv'
<1>1. mailbox[g] \in Seq(Admitted \union {Notice}) /\ mailbox[g] # <<>>
  BY DEF Receive, LineInv, Standing
<1>2. Head(mailbox[g]) \in Admitted \union {Notice}
        /\ Tail(mailbox[g]) \in Seq(Admitted \union {Notice})
  BY <1>1, FirstMessage
<1>3. UNCHANGED <<job, told, fate>> /\ actor[g] = "idle"
  BY DEF Receive, jobvars
<1>4. Admitted' = Admitted
  BY <1>3 DEF Admitted
<1>5. mailbox' \in [Guilds -> Seq(Admitted \union {Notice})]
  BY <1>2 DEF Receive, LineInv, Standing
<1>6. waits[g] = None
  BY <1>3 DEF LineInv, Standing
<1>7. Standing'
  <2>1. CASE Head(mailbox[g]) = Notice
    <3>1. waits' = waits /\ actor' = [actor EXCEPT ![g] = "busy"]
      BY <2>1 DEF Receive
    <3>. QED  BY <1>4, <1>5, <1>6, <3>1 DEF LineInv, Standing, Typed, ActorsOK
  <2>2. CASE Head(mailbox[g]) # Notice
    <3>1. /\ waits' = [waits EXCEPT ![g] = Head(mailbox[g])]
          /\ actor' = [actor EXCEPT ![g] = "waiting"]
      BY <2>2 DEF Receive
    <3>. QED  BY <1>2, <1>4, <1>5, <2>2, <3>1 DEF LineInv, Standing, Typed, ActorsOK
  <2>. QED  BY <2>1, <2>2
<1>8. WellTold'
  BY <1>3, <1>4 DEF LineInv, WellTold
<1>. QED  BY <1>7, <1>8 DEF LineInv

LEMMA TurnLine ==
    ASSUME Typed, LineInv, NEW g \in Guilds, Leave(g) \/ HandlerEnds(g) \/ Joins(g)
    PROVE  LineInv'
<1>1. UNCHANGED <<mailbox, waits, job, told, fate>> /\ actor[g] # "waiting"
  BY DEF Leave, HandlerEnds, Joins, JoinActor, JoinPanicked, ActorJoined, jobvars
<1>2. \A h \in Guilds : h # g => actor'[h] = actor[h]
  BY DEF Leave, HandlerEnds, Joins, JoinActor, JoinPanicked, ActorJoined, Typed, ActorsOK
<1>3. Admitted' = Admitted
  BY <1>1 DEF Admitted
<1>4. Standing'
  BY <1>1, <1>2, <1>3 DEF LineInv, Standing
<1>. QED  BY <1>1, <1>3, <1>4 DEF LineInv, WellTold

-----------------------------------------------------------------------------
(* The line.                                                               *)

\* Nothing happens to a line when its parts stay.
LEMMA SameLine ==
    ASSUME \A g \in Guilds : LineOf(g)' = LineOf(g),
           Admitted' = Admitted, Aside' = Aside, UNCHANGED executed,
           \/ UNCHANGED told
           \/ \E i \in Interactions : Line!Tell(i)
    PROVE  [Line!Next]_<<Admitted, Aside, Lines, told, executed>>
<1>1. Lines' = Lines
  BY DEF Lines
<1>. QED  BY <1>1 DEF Line!Next

LEMMA NoticesKeepLine ==
    ASSUME Typed, Notices
    PROVE  \A g \in Guilds : LineOf(g)' = LineOf(g)
<1>. SUFFICES ASSUME NEW g \in Guilds PROVE LineOf(g)' = LineOf(g)
  OBVIOUS
<1>1. mailbox[g] \in Seq(Interactions \union {Notice}) /\ UNCHANGED waits
  BY NoticesOnlyNotify DEF Typed, ActorsOK
<1>2. mailbox'[g] = mailbox[g] \/ mailbox'[g] = Append(mailbox[g], Notice)
  BY NoticesOnlyNotify DEF Notify, Typed, ActorsOK
<1>3. Enlisted(Append(mailbox[g], Notice)) = Enlisted(mailbox[g])
  BY <1>1, EnlistedLast DEF With
<1>. QED  BY <1>1, <1>2, <1>3 DEF LineOf, Awaited

LEMMA Queued ==
    ASSUME Typed, NEW g \in Guilds
    PROVE  /\ Enlisted(mailbox[g]) \in Seq(Interactions)
           /\ Awaited(g) \in Seq(Interactions)
BY EnlistedTyped DEF Typed, ActorsOK, Awaited

LEMMA TaskMaps ==
    ASSUME Typed, LineInv, NEW i \in Interactions,
           Task(i) \/ AbortJob(i) \/ LateDeferral(i)
    PROVE  [Line!Next]_<<Admitted, Aside, Lines, told, executed>>
<1>1. UNCHANGED <<mailbox, waits, fate, executed>>
  BY TaskSteps DEF TaskStep, JobStep, LateDeferral, actorvars
<1>2. Admitted' = Admitted /\ Aside' = Aside /\ \A g \in Guilds : LineOf(g)' = LineOf(g)
  BY <1>1 DEF Admitted, Aside, LineOf, Awaited
<1>3. Lines' = Lines
  BY <1>2 DEF Lines
<1>4. \/ told' = told
      \/ told[i] = "nothing" /\ Tell(i, Reply(i)) /\ fate[i] # "new"
  <2>1. CASE Task(i) \/ AbortJob(i)
    <3>1. job[i] # "none"
      BY <2>1, TaskSteps DEF TaskStep, Jobs, Rejections
    <3>. QED  BY <2>1, <3>1, TasksSay DEF Says, LineInv, WellTold
  <2>2. CASE LateDeferral(i)
    <3>1. i \in Admitted
      BY <2>2 DEF LateDeferral, LineInv, WellTold
    <3>. QED  BY <2>2, <3>1 DEF LateDeferral, Admitted, Reply
  <2>. QED  BY <2>1, <2>2
<1>5. ASSUME told[i] = "nothing", Tell(i, Reply(i)), fate[i] # "new"
      PROVE  Line!Tell(i)
  <2>1. CASE fate[i] = "aside"
    BY <1>1, <1>2, <1>3, <1>5, <2>1 DEF Line!Tell, Tell, Reply, Aside
  <2>2. CASE fate[i] # "aside"
    BY <1>1, <1>2, <1>3, <1>5, <2>2 DEF Line!Tell, Tell, Reply, Admitted
  <2>. QED  BY <2>1, <2>2
<1>. QED  BY <1>1, <1>2, <1>4, <1>5, SameLine

LEMMA AsideMaps ==
    ASSUME Typed, NEW i \in Interactions, Refused(i) \/ Suggest(i)
    PROVE  Line!SetAside(i)
<1>1. /\ UNCHANGED <<mailbox, waits, told, executed>>
      /\ fate[i] = "new" /\ fate' = [fate EXCEPT ![i] = "aside"]
  BY DEF Refused, Suggest, Reject, actorvars
<1>2. Lines' = Lines
  BY <1>1 DEF Lines, LineOf, Awaited
<1>3. /\ i \notin Admitted \union Aside
      /\ Admitted' = Admitted /\ Aside' = Aside \union {i}
  BY <1>1, Arrivals
<1>. QED  BY <1>1, <1>2, <1>3 DEF Line!SetAside, Line!Fresh

LEMMA TakenOnMaps ==
    ASSUME Typed, NEW i \in Interactions, NEW g \in Guilds, TakenOn(i, g)
    PROVE  Line!TakeOn(i, g)
<1>1. /\ UNCHANGED <<waits, told, executed>>
      /\ fate[i] = "new" /\ fate' = [fate EXCEPT ![i] = "queued"]
      /\ mailbox' = [mailbox EXCEPT ![g] = Append(@, i)]
  BY DEF TakenOn
<1>2. /\ i \notin Admitted \union Aside
      /\ Admitted' = Admitted \union {i} /\ Aside' = Aside
  BY <1>1, Arrivals
<1>3. LineOf(g)' = Append(LineOf(g), i)
  <2>. DEFINE queue == Enlisted(mailbox[g])
  <2>1. queue \in Seq(Interactions) /\ Awaited(g) \in Seq(Interactions)
    BY Queued
  <2>2. mailbox[g] \in Seq(Interactions \union {Notice}) /\ i # Notice
    BY ValuesAssumption DEF Typed, ActorsOK
  <2>3. mailbox'[g] = Append(mailbox[g], i)
    BY <1>1 DEF Typed, ActorsOK
  <2>4. Enlisted(mailbox'[g]) = Append(queue, i)
    BY <2>2, <2>3, EnlistedLast DEF With
  <2>5. LineOf(g)' = Awaited(g) \o Append(queue, i)
    BY <1>1, <2>4 DEF LineOf, Awaited
  <2>. HIDE DEF queue
  <2>6. <<i>> \in Seq(Interactions) /\ Append(queue, i) = queue \o <<i>>
    BY <2>1, AppendIsConcat
  <2>7. Awaited(g) \o queue \in Seq(Interactions)
    BY <2>1, ConcatProperties
  <2>8. Append(Awaited(g) \o queue, i) = (Awaited(g) \o queue) \o <<i>>
    BY <2>7, AppendIsConcat
  <2>9. Awaited(g) \o (queue \o <<i>>) = (Awaited(g) \o queue) \o <<i>>
    BY <2>1, <2>6, ConcatAssociative
  <2>. QED  BY <2>5, <2>6, <2>8, <2>9 DEF LineOf, queue
<1>4. \A h \in Guilds : h # g => LineOf(h)' = LineOf(h)
  BY <1>1 DEF LineOf, Awaited, Typed, ActorsOK
<1>5. Lines' = [Lines EXCEPT ![g] = Append(@, i)]
  BY <1>3, <1>4 DEF Lines
<1>. QED  BY <1>1, <1>2, <1>5 DEF Line!TakeOn, Line!Fresh

\* Whoever is received first stood first in the mailbox.
LEMMA ReceiveMaps ==
    ASSUME Typed, LineInv, NEW g \in Guilds, Receive(g)
    PROVE  [Line!Next]_<<Admitted, Aside, Lines, told, executed>>
<1>. DEFINE box == mailbox[g]
            next == Head(mailbox[g])
            rest == Enlisted(Tail(mailbox[g]))
<1>1. /\ UNCHANGED <<fate, told, executed>> /\ actor[g] = "idle" /\ box # <<>>
      /\ mailbox' = [mailbox EXCEPT ![g] = Tail(@)]
  BY DEF Receive, jobvars
<1>2. box \in Seq(Interactions \union {Notice}) /\ Notice \notin Interactions
  BY ValuesAssumption DEF Typed, ActorsOK
<1>3. next \in Interactions \union {Notice} /\ Tail(box) \in Seq(Interactions \union {Notice})
  BY <1>1, <1>2, FirstMessage
<1>4. rest \in Seq(Interactions)
  BY <1>3, EnlistedTyped
<1>5. Enlisted(box) = With(<<>>, next) \o rest
  BY <1>1, <1>2, EnlistedFirst
<1>6. waits[g] = None /\ Awaited(g) = <<>>
  BY <1>1 DEF LineInv, Standing, Awaited
<1>7. mailbox'[g] = Tail(box)
  BY <1>1 DEF Typed, ActorsOK
<1>8. LineOf(g)' = LineOf(g)
  <2>1. LineOf(g) = With(<<>>, next) \o rest
    <3>1. Enlisted(box) \in Seq(Interactions)
      BY <1>2, EnlistedTyped
    <3>. QED  BY <1>5, <1>6, <3>1, ConcatEmptySeq DEF LineOf
  <2>2. CASE next = Notice
    <3>1. waits' = waits
      BY <2>2 DEF Receive
    <3>. QED  BY <1>6, <1>7, <2>1, <2>2, <3>1 DEF LineOf, Awaited, With
  <2>3. CASE next # Notice
    <3>1. next \in Interactions /\ next # None
      BY <1>3, <2>3, ValuesAssumption
    <3>2. waits'[g] = next
      BY <2>3 DEF Receive, Typed, ActorsOK
    <3>3. Awaited(g)' = <<next>>
      BY <3>1, <3>2 DEF Awaited
    <3>4. With(<<>>, next) = <<next>>
      BY <2>3 DEF With
    <3>. QED  BY <1>7, <2>1, <3>3, <3>4 DEF LineOf
  <2>. QED  BY <2>2, <2>3
<1>9. \A h \in Guilds : h # g => mailbox'[h] = mailbox[h] /\ waits'[h] = waits[h]
  BY DEF Receive, Typed, ActorsOK
<1>10. \A h \in Guilds : LineOf(h)' = LineOf(h)
  BY <1>8, <1>9 DEF LineOf, Awaited
<1>11. Admitted' = Admitted /\ Aside' = Aside
  BY <1>1 DEF Admitted, Aside
<1>. QED  BY <1>1, <1>10, <1>11, SameLine

LEMMA FrontOfLine ==
    ASSUME NEW S, NEW s \in Seq(S), NEW x \in S
    PROVE  <<x>> \o s # <<>> /\ Head(<<x>> \o s) = x /\ Tail(<<x>> \o s) = s
<1>. DEFINE t == <<x>> \o s
<1>1. <<x>> \in Seq(S) /\ Len(<<x>>) = 1 /\ Len(s) \in Nat
  OBVIOUS
<1>2. /\ t \in Seq(S) /\ Len(t) = 1 + Len(s)
      /\ \A i \in 1..(1 + Len(s)) : t[i] = IF i <= 1 THEN <<x>>[i] ELSE s[i - 1]
  BY <1>1, ConcatProperties
<1>. HIDE DEF t
<1>3. t # <<>>
  BY <1>1, <1>2
<1>4. Head(t) = x
  <2>1. t[1] = x
    BY <1>1, <1>2
  <2>. QED  BY <1>2, <1>3, <2>1
<1>5. Tail(t) = s
  <2>1. /\ Tail(t) \in Seq(S) /\ Len(Tail(t)) = Len(s)
        /\ \A i \in 1..Len(s) : Tail(t)[i] = t[i + 1]
    BY <1>1, <1>2, <1>3, HeadTailProperties
  <2>2. \A i \in 1..Len(s) : t[i + 1] = s[i]
    <3>. SUFFICES ASSUME NEW i \in 1..Len(s) PROVE t[i + 1] = s[i]
      OBVIOUS
    <3>1. i + 1 \in 1..(1 + Len(s)) /\ ~(i + 1 <= 1) /\ (i + 1) - 1 = i
      BY <1>1
    <3>. QED  BY <1>2, <3>1
  <2>. QED  BY <2>1, <2>2, SeqEqual
<1>. QED  BY <1>3, <1>4, <1>5 DEF t

\* The actor decides about the head of its line.
LEMMA DecisionMaps ==
    ASSUME Typed, AckInv, LineInv, NEW g \in Guilds, Execute(g) \/ Discard(g)
    PROVE  Line!Execute(g) \/ Line!Discard(g)
<1>1. PICK then \in {"executed", "discarded", "lost"} : Decides(g, then)
  BY ActorDecides
<1>2. waits[g] \in Interactions /\ waits[g] # None
  BY <1>1, ValuesAssumption DEF Decides, Admitted
<1>3. Enlisted(mailbox[g]) \in Seq(Interactions)
  BY Queued
<1>4. LineOf(g) = <<waits[g]>> \o Enlisted(mailbox[g])
  BY <1>2 DEF LineOf, Awaited
<1>5. LineOf(g) # <<>> /\ Head(LineOf(g)) = waits[g]
        /\ Tail(LineOf(g)) = Enlisted(mailbox[g])
  BY <1>2, <1>3, <1>4, FrontOfLine
<1>6. LineOf(g)' = Tail(LineOf(g))
  <2>1. waits'[g] = None /\ mailbox' = mailbox
    BY <1>1 DEF Decides, Typed, ActorsOK
  <2>2. LineOf(g)' = <<>> \o Enlisted(mailbox[g])
    BY <2>1 DEF LineOf, Awaited
  <2>. QED  BY <1>3, <1>5, <2>2, ConcatEmptySeq
<1>7. \A h \in Guilds : h # g => LineOf(h)' = LineOf(h)
  BY <1>1 DEF Decides, LineOf, Awaited, Typed, ActorsOK
<1>8. Lines' = [Lines EXCEPT ![g] = Tail(@)] /\ Lines[g] = LineOf(g)
  BY <1>6, <1>7 DEF Lines
<1>9. Admitted' = Admitted /\ Aside' = Aside /\ told' = told
  BY <1>1, DecisionLine DEF Decides
<1>10. CASE Execute(g)
  <2>1. told[waits[g]] = "deferred" /\ executed' = Append(executed, waits[g])
    BY <1>2, <1>10 DEF Execute, LineInv, WellTold
  <2>. QED  BY <1>5, <1>8, <1>9, <2>1 DEF Line!Execute
<1>11. CASE Discard(g)
  <2>1. executed' = executed
    BY <1>11 DEF Discard
  <2>. QED  BY <1>5, <1>8, <1>9, <2>1 DEF Line!Discard
<1>. QED  BY <1>10, <1>11

LEMMA OverMaps ==
    ASSUME Typed, LineInv, NEW g \in Guilds, TaskOver(g)
    PROVE  [Line!Next]_<<Admitted, Aside, Lines, told, executed>>
<1>1. PICK after \in {"ended", "panicked"} : TaskEnds(g, after)
  BY DEF TaskOver, Ended, Panics, Kill
<1>2. Admitted' = Admitted /\ Aside' = Aside /\ UNCHANGED <<told, executed>>
  BY <1>1, OverLine DEF TaskEnds, jobvars
<1>3. LineOf(g)' = <<>>
  <2>1. waits'[g] = None /\ mailbox'[g] = <<>>
    BY <1>1 DEF TaskEnds, Typed, ActorsOK
  <2>2. LineOf(g)' = <<>> \o <<>>
    BY <2>1, NobodyEnlisted DEF LineOf, Awaited
  <2>. QED  BY <2>2, EmptySeq, ConcatEmptySeq
<1>4. \A h \in Guilds : h # g => LineOf(h)' = LineOf(h)
  BY <1>1 DEF TaskEnds, LineOf, Awaited, Typed, ActorsOK
<1>5. CASE LineOf(g) = <<>>
  <2>1. \A h \in Guilds : LineOf(h)' = LineOf(h)
    BY <1>3, <1>4, <1>5
  <2>. QED  BY <1>2, <2>1, SameLine
<1>6. CASE LineOf(g) # <<>>
  <2>1. Lines' = [Lines EXCEPT ![g] = <<>>] /\ Lines[g] = LineOf(g)
    BY <1>3, <1>4 DEF Lines
  <2>2. Line!Abandon(g)
    BY <1>2, <1>6, <2>1 DEF Line!Abandon
  <2>. QED  BY <2>2 DEF Line!Next
<1>. QED  BY <1>5, <1>6

LEMMA LineStep ==
    ASSUME RuntimeInv, LineInv, [Next]_vars
    PROVE  LineInv' /\ [Line!Next]_<<Admitted, Aside, Lines, told, executed>>
<1>. USE DEF RuntimeInv
<1>1. CASE Notices
  <2>1. UNCHANGED <<job, told, fate, actor, waits, executed>>
    BY <1>1, NoticesOnlyNotify DEF jobvars
  <2>2. mailbox' \in [Guilds -> Seq(Admitted \union {Notice})]
    BY <1>1, NoticesOnlyNotify, NotifyTypes DEF LineInv, Standing
  <2>3. Admitted' = Admitted /\ Aside' = Aside
    BY <2>1 DEF Admitted, Aside
  <2>4. LineInv'
    BY <2>1, <2>2, QuietLine
  <2>. QED  BY <1>1, <2>1, <2>3, <2>4, NoticesKeepLine, SameLine
<1>2. CASE LoopActions \/ Tick \/ UNCHANGED vars
  <2>1. UNCHANGED <<job, told, fate, actor, waits, mailbox, executed>>
    BY <1>2 DEF LoopActions, Signal, LoopCancelled, SourceEnds, JobsJoined, JoinTimeout,
                Stop, Tick, vars, actorvars, jobvars
  <2>2. /\ Admitted' = Admitted /\ Aside' = Aside
        /\ \A g \in Guilds : LineOf(g)' = LineOf(g)
    BY <2>1 DEF Admitted, Aside, LineOf, Awaited
  <2>3. mailbox' \in [Guilds -> Seq(Admitted \union {Notice})]
    BY <2>1 DEF LineInv, Standing
  <2>4. LineInv'
    BY <2>1, <2>3, QuietLine
  <2>. QED  BY <2>1, <2>2, <2>4, SameLine
<1>3. ASSUME NEW i \in Interactions, Task(i) \/ AbortJob(i) \/ LateDeferral(i)
      PROVE  LineInv' /\ [Line!Next]_<<Admitted, Aside, Lines, told, executed>>
  BY <1>3, TaskLine, LateLine, TaskMaps
<1>4. ASSUME NEW i \in Interactions, Refused(i) \/ Suggest(i)
      PROVE  LineInv' /\ [Line!Next]_<<Admitted, Aside, Lines, told, executed>>
  BY <1>4, AsideLine, AsideMaps DEF Line!Next
<1>5. ASSUME NEW i \in Interactions, NEW g \in Guilds, TakenOn(i, g)
      PROVE  LineInv' /\ [Line!Next]_<<Admitted, Aside, Lines, told, executed>>
  BY <1>5, TakenLine, TakenOnMaps DEF Line!Next
<1>6. ASSUME NEW g \in Guilds, Receive(g)
      PROVE  LineInv' /\ [Line!Next]_<<Admitted, Aside, Lines, told, executed>>
  BY <1>6, ReceiveLine, ReceiveMaps
<1>7. ASSUME NEW g \in Guilds, Execute(g) \/ Discard(g)
      PROVE  LineInv' /\ [Line!Next]_<<Admitted, Aside, Lines, told, executed>>
  BY <1>7, DecisionLine, DecisionMaps DEF Line!Next
<1>8. ASSUME NEW g \in Guilds, TaskOver(g)
      PROVE  LineInv' /\ [Line!Next]_<<Admitted, Aside, Lines, told, executed>>
  BY <1>8, OverLine, OverMaps
<1>9. ASSUME NEW g \in Guilds, Leave(g) \/ HandlerEnds(g) \/ Joins(g)
      PROVE  LineInv' /\ [Line!Next]_<<Admitted, Aside, Lines, told, executed>>
  <2>1. UNCHANGED <<mailbox, waits, told, fate, executed>>
    BY <1>9 DEF Leave, HandlerEnds, Joins, JoinActor, JoinPanicked, ActorJoined, jobvars
  <2>2. /\ Admitted' = Admitted /\ Aside' = Aside
        /\ \A h \in Guilds : LineOf(h)' = LineOf(h)
    BY <2>1 DEF Admitted, Aside, LineOf, Awaited
  <2>. QED  BY <1>9, <2>1, <2>2, TurnLine, SameLine
<1>. QED  BY <1>1, <1>2, <1>3, <1>4, <1>5, <1>6, <1>7, <1>8, <1>9, EveryAction DEF TaskActions

LEMMA AlwaysLine == Spec => [](RuntimeInv /\ LineInv)
<1>1. Init => RuntimeInv /\ LineInv
  BY InitRuntime, InitLine
<1>2. (RuntimeInv /\ LineInv) /\ [Next]_vars => (RuntimeInv /\ LineInv)'
  BY RuntimeStep, LineStep
<1>. QED  BY <1>1, <1>2, PTL DEF Spec

\* The loop, its mailboxes, actors and tasks implement InteractionLine, for any
\* servers, interactions, capacities and time limits: what a server takes on is
\* executed in the order of its line, at most once, and only after Discord
\* accepted the deferral (run in runtime.rs, acknowledge and reject in
\* discord.rs, GuildSession::run in session.rs).
THEOREM LineIsKept == Spec => KeepsTheLine
<1>1. Init => Line!Init
  <2>. SUFFICES ASSUME Init PROVE Line!Init
    OBVIOUS
  <2>1. Admitted = {} /\ Aside = {}
    BY DEF Init, Admitted, Aside
  <2>2. \A g \in Guilds : LineOf(g) = <<>>
    <3>. SUFFICES ASSUME NEW g \in Guilds PROVE LineOf(g) = <<>>
      OBVIOUS
    <3>1. LineOf(g) = <<>> \o <<>>
      BY NobodyEnlisted DEF Init, LineOf, Awaited
    <3>. QED  BY <3>1, EmptySeq, ConcatEmptySeq
  <2>3. Lines = [g \in Guilds |-> <<>>]
    BY <2>2 DEF Lines
  <2>. QED  BY <2>1, <2>3 DEF Init, Line!Init
<1>2. (RuntimeInv /\ LineInv) /\ [Next]_vars
        => [Line!Next]_<<Admitted, Aside, Lines, told, executed>>
  BY LineStep
<1>. QED  BY <1>1, <1>2, AlwaysLine, PTL DEF Spec, KeepsTheLine, Line!Spec
=============================================================================

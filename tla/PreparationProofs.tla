------------------------- MODULE PreparationProofs --------------------------
(***************************************************************************)
(* The session knows of every intent its player holds, for all songs,      *)
(* bounds and orders of commands, answers and results; and every state has *)
(* its type.                                                               *)
(***************************************************************************)
EXTENDS Preparation, PlaybackProofs

\* A record with the fields of a session.
Fields == {"queue", "channel", "started", "paused", "near", "epoch", "target",
           "retry", "task"}

IsSession(s) == DOMAIN s = Fields /\ DOMAIN s.task = {"epoch", "target", "stage"}

IsPlayer(p) == DOMAIN p = {"exists", "intent"}

(***************************************************************************)
(* What the player may hold while no answer is lost: the target of a       *)
(* request that was accepted and is not joined yet, else the target the    *)
(* session remembers.                                                      *)
(***************************************************************************)
Known(s) == IF s.task.stage = "accepted" THEN s.task.target ELSE s.target

\* A session without a channel has nothing to play, remember or join.
Resting(s) ==
    ~s.channel => s.queue.current = None /\ s.task = NoTask /\ s.target = None

IntentInv ==
    /\ lost \in Nat
    /\ IsSession(session) /\ Resting(session) /\ IsPlayer(player)
    /\ lost = 0 => player.intent \in {None, Known(session)}

-----------------------------------------------------------------------------

\* The end of a turn asks for an intent only in a channel, and never changes
\* what the player may hold.
LEMMA TurnKeeps ==
    ASSUME NEW s, IsSession(s), Resting(s)
    PROVE  LET t == PrepareNext(s)
           IN  IsSession(t) /\ Resting(t) /\ Known(t) = Known(s)
<1>1. CASE s.task # NoTask \/ s.retry \/ Wanted(s) = s.target
  BY <1>1 DEF PrepareNext
<1>2. CASE ~(s.task # NoTask \/ s.retry \/ Wanted(s) = s.target)
  <2>. DEFINE asked == [epoch |-> s.epoch, target |-> Wanted(s), stage |-> "asked"]
              t == [s EXCEPT !.task = asked]
  <2>1. s.channel
    BY <1>2 DEF Wanted, Resting
  <2>2. PrepareNext(s) = t
    BY <1>2 DEF PrepareNext
  <2>3. IsSession(t) /\ t.channel = s.channel /\ t.target = s.target /\ t.task = asked
    BY DEF IsSession, Fields
  <2>4. Known(t) = s.target /\ Known(s) = s.target
    BY <1>2, <2>3 DEF Known, NoTask
  <2>. QED  BY <2>1, <2>2, <2>3, <2>4 DEF Resting
<1>. QED  BY <1>1, <1>2

\* A turn whose handler leaves s, which may hold no less than before, keeps
\* the invariant if the player holds no more.
LEMMA HandlerKeeps ==
    ASSUME NEW s, IsSession(s), Resting(s), Turn(s), IntentInv,
           lost' \in Nat, IsPlayer(player'),
           lost' = 0 => lost = 0 /\ player'.intent \in {None, player.intent},
           lost' = 0 => Known(s) = Known(session) \/ player'.intent = None
    PROVE  IntentInv'
<1>1. IsSession(session') /\ Resting(session') /\ Known(session') = Known(s)
  BY TurnKeeps DEF Turn
<1>. QED  BY <1>1 DEF IntentInv

\* Sending a track uses an intent up or leaves it.
LEMMA PlayerForgets ==
    ASSUME NEW q, player' \in PlayerAfter(q), IsPlayer(player)
    PROVE  IsPlayer(player') /\ player'.intent \in {None, player.intent}
BY DEF PlayerAfter, FreshPlayer, IsPlayer

LEMMA InitIntent == Init => IntentInv
BY DEF Init, IntentInv, IsSession, Fields, Resting, Known, NoTask, NoPlayer, EmptyQueue,
       IsPlayer

-----------------------------------------------------------------------------
(* One lemma for each action that is not a mere turn.                      *)

LEMMA PlayKeeps ==
    ASSUME IntentInv, NEW song, NEW user, Play(song, user)
    PROVE  IntentInv'
<1>. DEFINE tracks == <<[encoded |-> song, requester_id |-> user, request |-> 0]>>
            queue == Enqueue(session.queue, tracks, MaxTracks)
            joined == [session EXCEPT !.queue = queue, !.channel = TRUE]
            started == [joined EXCEPT !.started = FALSE, !.paused = FALSE, !.near = FALSE]
<1>1. lost' = lost
  BY DEF Play, Operation
<1>2. IsSession(joined) /\ joined.channel /\ joined.task = session.task
        /\ joined.target = session.target
  BY DEF IntentInv, IsSession, Fields
<1>3. IsSession(started) /\ started.channel /\ started.task = session.task
        /\ started.target = session.target
  BY <1>2 DEF IsSession, Fields
<1>4. Resting(joined) /\ Resting(started) /\ Known(joined) = Known(session)
        /\ Known(started) = Known(session)
  BY <1>2, <1>3 DEF Resting, Known
<1>5. CASE session.queue.current = None
  <2>1. Turn(started) /\ player' \in PlayerAfter(queue)
    BY <1>5 DEF Play, StartCurrent
  <2>. HIDE DEF queue, joined, started
  <2>. QED  BY <1>1, <1>3, <1>4, <2>1, PlayerForgets, HandlerKeeps DEF IntentInv
<1>6. CASE session.queue.current # None
  <2>1. Turn(joined) /\ player' = player
    BY <1>6 DEF Play
  <2>. HIDE DEF joined
  <2>. QED  BY <1>1, <1>2, <1>4, <2>1, HandlerKeeps DEF IntentInv
<1>. QED  BY <1>5, <1>6

LEMMA NextTrackKeeps ==
    ASSUME IntentInv, NextTrack
    PROVE  IntentInv'
<1>1. PICK q \in {Finish(session.queue), Fail(session.queue), Skip(session.queue)} :
        Turn(StartCurrent([session EXCEPT !.queue = q])) /\ player' \in PlayerAfter(q)
  BY DEF NextTrack
<1>. DEFINE s == [[session EXCEPT !.queue = q]
                    EXCEPT !.started = FALSE, !.paused = FALSE, !.near = FALSE]
<1>2. lost' = lost /\ session.channel
  BY DEF NextTrack, Operation, IntentInv, Resting
<1>3. IsSession(s) /\ s.channel /\ s.task = session.task /\ s.target = session.target
  BY <1>2 DEF IntentInv, IsSession, Fields
<1>4. Turn(s)
  BY <1>1 DEF StartCurrent
<1>. HIDE DEF s
<1>5. Resting(s) /\ Known(s) = Known(session)
  BY <1>3 DEF Resting, Known
<1>. QED  BY <1>1, <1>2, <1>3, <1>4, <1>5, PlayerForgets, HandlerKeeps DEF IntentInv

LEMMA EditKeeps ==
    ASSUME IntentInv, Edit
    PROVE  IntentInv'
<1>1. PICK q : Turn([session EXCEPT !.queue = q])
  BY DEF Edit
<1>. DEFINE s == [session EXCEPT !.queue = q]
<1>2. lost' = lost /\ session.channel /\ player' = player
  BY DEF Edit, Operation
<1>3. IsSession(s) /\ s.channel /\ s.task = session.task /\ s.target = session.target
  BY <1>2 DEF IntentInv, IsSession, Fields
<1>. HIDE DEF s
<1>4. Resting(s) /\ Known(s) = Known(session)
  BY <1>3 DEF Resting, Known
<1>. QED  BY <1>1, <1>2, <1>3, <1>4, HandlerKeeps DEF IntentInv, s

\* Handlers that change one flag.
LEMMA FlagKeeps ==
    ASSUME IntentInv, NEW s, Turn(s), IsSession(s), UNCHANGED <<player, lost>>,
           s.queue = session.queue, s.channel = session.channel,
           s.task = session.task, s.target = session.target
    PROVE  IntentInv'
<1>1. Resting(s) /\ Known(s) = Known(session)
  BY DEF IntentInv, Resting, Known
<1>. QED  BY <1>1, HandlerKeeps DEF IntentInv

LEMMA FlagsKeep ==
    ASSUME IntentInv, PauseOrResume \/ Begins \/ NearEnd \/ Tick
    PROVE  IntentInv'
<1>. DEFINE paused == [session EXCEPT !.paused = ~@]
            begun == [session EXCEPT !.started = TRUE]
            near == [session EXCEPT !.near = TRUE]
<1>1. \E s \in {session, paused, begun, near} : Turn(s)
  BY DEF PauseOrResume, Begins, NearEnd, Tick
<1>2. UNCHANGED <<player, lost>>
  BY DEF PauseOrResume, Begins, NearEnd, Tick, Operation
<1>3. \A s \in {session, paused, begun, near} :
        /\ IsSession(s) /\ s.queue = session.queue /\ s.channel = session.channel
        /\ s.task = session.task /\ s.target = session.target
  BY DEF IntentInv, IsSession, Fields
<1>. HIDE DEF paused, begun, near
<1>. QED  BY <1>1, <1>2, <1>3, FlagKeeps

LEMMA StopKeeps ==
    ASSUME IntentInv, StopCommand
    PROVE  IntentInv'
<1>. DEFINE q == Stop(session.queue)
            s == [[session EXCEPT !.queue = q, !.epoch = @ + 1]
                    EXCEPT !.started = FALSE, !.paused = FALSE, !.near = FALSE]
<1>1. lost' = lost /\ session.channel
  BY DEF StopCommand, Operation
<1>2. Turn(s) /\ player' \in PlayerAfter(q)
  BY DEF StopCommand, StartCurrent
<1>3. IsSession(s) /\ s.channel /\ s.task = session.task /\ s.target = session.target
  BY <1>1 DEF IntentInv, IsSession, Fields
<1>. HIDE DEF q, s
<1>4. Resting(s) /\ Known(s) = Known(session)
  BY <1>3 DEF Resting, Known
<1>. QED  BY <1>1, <1>2, <1>3, <1>4, PlayerForgets, HandlerKeeps DEF IntentInv

\* A destroy that is not lost takes the intent with the player.
LEMMA CleanupKeeps ==
    ASSUME IntentInv, Cleanup
    PROVE  IntentInv'
<1>. DEFINE emptied == Emptied(session)
            s == [emptied EXCEPT !.target = None, !.retry = FALSE, !.task = NoTask]
<1>1. IsSession(emptied) /\ ~emptied.channel /\ emptied.queue = EmptyQueue
  BY DEF Emptied, IntentInv, IsSession, Fields
<1>. HIDE DEF emptied
<1>2. IsSession(s) /\ s.queue = EmptyQueue /\ s.task = NoTask /\ s.target = None
  BY <1>1 DEF IsSession, Fields, NoTask
<1>3. Turn(s)
  BY DEF Cleanup, emptied
<1>. HIDE DEF s
<1>4. Resting(s)
  BY <1>2 DEF Resting, EmptyQueue
<1>5. /\ IsPlayer(player')
      /\ \/ lost' = lost /\ player'.intent = None
         \/ lost' = lost + 1 /\ lost' # 0
  BY DEF Cleanup, Destroy, NoPlayer, IntentInv, IsPlayer
<1>. QED  BY <1>2, <1>3, <1>4, <1>5, HandlerKeeps DEF IntentInv

-----------------------------------------------------------------------------
(* Requests and results.                                                   *)

LEMMA ServeKeeps ==
    ASSUME IntentInv, Serve
    PROVE  IntentInv'
<1>. DEFINE Outcome(stage) == [session EXCEPT !.task.stage = stage]
<1>1. \A stage \in {"accepted", "failed"} :
        /\ IsSession(Outcome(stage))
        /\ Outcome(stage).channel = session.channel
        /\ Outcome(stage).target = session.target
        /\ Outcome(stage).task.target = session.task.target
        /\ Outcome(stage).task.stage = stage
  BY DEF IntentInv, IsSession, Fields
<1>. HIDE DEF Outcome
<1>2. Asked /\ \E stage \in {"accepted", "failed"} : session' = Outcome(stage)
  BY DEF Serve, ServeAccepted, ServeNoPlayer, ServeRefused, ServeUnanswered, Served, Outcome
<1>3. session.channel /\ Known(session) = session.target
  BY <1>2 DEF Asked, NoTask, IntentInv, Resting, Known
<1>4. IsSession(session') /\ Resting(session')
  BY <1>1, <1>2, <1>3 DEF Resting
<1>5. CASE ServeAccepted
  <2>1. session' = Outcome("accepted") /\ lost' = lost
    BY <1>5 DEF ServeAccepted, Served, Outcome
  <2>2. IsPlayer(player') /\ player'.intent = session.task.target
    BY <1>5 DEF ServeAccepted, IntentInv, IsPlayer
  <2>3. Known(session') = session.task.target
    BY <1>1, <2>1 DEF Known
  <2>. QED  BY <1>4, <2>1, <2>2, <2>3 DEF IntentInv
<1>6. CASE ServeNoPlayer \/ ServeRefused
  <2>1. session' = Outcome("failed") /\ lost' = lost /\ player' = player
    BY <1>6 DEF ServeNoPlayer, ServeRefused, Served, Outcome
  <2>2. Known(session') = session.target
    BY <1>1, <2>1 DEF Known
  <2>. QED  BY <1>3, <1>4, <2>1, <2>2 DEF IntentInv
<1>7. CASE ServeUnanswered
  <2>1. lost' = lost + 1
    BY <1>7 DEF ServeUnanswered
  <2>2. IsPlayer(player')
    BY <1>7 DEF ServeUnanswered, IntentInv, IsPlayer
  <2>3. lost' \in Nat /\ lost' # 0
    BY <2>1 DEF IntentInv
  <2>. QED  BY <1>4, <2>2, <2>3 DEF IntentInv
<1>. QED  BY <1>5, <1>6, <1>7 DEF Serve

\* What is remembered is what was accepted, so the player holds no less.
LEMMA FinishKeeps ==
    ASSUME IntentInv, FinishPreparation
    PROVE  IntentInv'
<1>. DEFINE free == [session EXCEPT !.task = NoTask]
            remembering == [free EXCEPT !.target = session.task.target]
            waiting == [free EXCEPT !.retry = TRUE]
            s == Finished(session)
<1>1. Turn(s) /\ UNCHANGED <<player, lost>>
  BY DEF FinishPreparation
<1>2. session.channel
  BY DEF FinishPreparation, IntentInv, Resting, NoTask
<1>3. /\ IsSession(free) /\ free.channel = session.channel
      /\ free.task = NoTask /\ free.target = session.target
  BY DEF IntentInv, IsSession, Fields, NoTask
<1>. HIDE DEF free
<1>4. /\ IsSession(remembering) /\ remembering.channel = session.channel
      /\ remembering.task = NoTask /\ remembering.target = session.task.target
  BY <1>3 DEF IsSession, Fields
<1>5. /\ IsSession(waiting) /\ waiting.channel = session.channel
      /\ waiting.task = NoTask /\ waiting.target = session.target
  BY <1>3 DEF IsSession, Fields
<1>. HIDE DEF remembering, waiting
<1>6. IF session.task.stage = "accepted" THEN s = remembering ELSE s \in {waiting, free}
  BY DEF Finished, remembering, waiting, free
<1>. HIDE DEF s
<1>7. IsSession(s) /\ s.channel /\ s.task = NoTask
        /\ s.target = IF session.task.stage = "accepted" THEN session.task.target
                      ELSE session.target
  BY <1>2, <1>3, <1>4, <1>5, <1>6
<1>8. Resting(s) /\ Known(s) = Known(session)
  BY <1>7 DEF Resting, Known, NoTask
<1>. QED  BY <1>1, <1>7, <1>8, HandlerKeeps DEF IntentInv

\* Time, and a player that loses its intent.
LEMMA SurroundingsKeep ==
    ASSUME IntentInv, RetryPasses \/ PlayerVanishes \/ IntentFails
    PROVE  IntentInv'
<1>1. CASE RetryPasses
  <2>. DEFINE s == [session EXCEPT !.retry = FALSE]
  <2>1. /\ IsSession(s) /\ s.queue = session.queue /\ s.channel = session.channel
        /\ s.task = session.task /\ s.target = session.target
    BY DEF IntentInv, IsSession, Fields
  <2>2. session' = s /\ UNCHANGED <<player, lost>>
    BY <1>1 DEF RetryPasses
  <2>. HIDE DEF s
  <2>. QED  BY <2>1, <2>2 DEF IntentInv, Resting, Known
<1>2. CASE PlayerVanishes \/ IntentFails
  <2>1. UNCHANGED <<session, lost>> /\ IsPlayer(player') /\ player'.intent = None
    BY <1>2 DEF PlayerVanishes, IntentFails, Operation, NoPlayer, FreshPlayer, IsPlayer
  <2>. QED  BY <2>1 DEF IntentInv
<1>. QED  BY <1>1, <1>2

-----------------------------------------------------------------------------

LEMMA StepIntent == IntentInv /\ [Next]_vars => IntentInv'
<1>. SUFFICES ASSUME IntentInv, [Next]_vars PROVE IntentInv'
  OBVIOUS
<1>1. CASE \E song \in Songs, user \in Users : Play(song, user)
  BY <1>1, PlayKeeps
<1>2. CASE NextTrack \/ Edit \/ StopCommand \/ Cleanup
  BY <1>2, NextTrackKeeps, EditKeeps, StopKeeps, CleanupKeeps
<1>3. CASE PauseOrResume \/ Begins \/ NearEnd \/ Tick
  BY <1>3, FlagsKeep
<1>4. CASE RetryPasses \/ PlayerVanishes \/ IntentFails
  BY <1>4, SurroundingsKeep
<1>5. CASE Serve \/ FinishPreparation
  BY <1>5, ServeKeeps, FinishKeeps
<1>6. CASE UNCHANGED vars
  BY <1>6 DEF vars, IntentInv
<1>. QED  BY <1>1, <1>2, <1>3, <1>4, <1>5, <1>6 DEF Next

(***************************************************************************)
(* No intent is forgotten (finish_preparation and cleanup in session.rs):  *)
(* as long as no answer is lost the player holds only what the session     *)
(* remembers or is about to join, and a session without a channel asks for *)
(* nothing.                                                                *)
(***************************************************************************)
THEOREM IntentsAreKnown == Spec => []NoForgottenIntent
<1>1. IntentInv => NoForgottenIntent
  BY DEF IntentInv, NoForgottenIntent, Known, Resting
<1>. QED  BY InitIntent, StepIntent, <1>1, PTL DEF Spec

-----------------------------------------------------------------------------
(***************************************************************************)
(* Types.  The queue is good in the sense of PlaybackProofs, and only a    *)
(* track that plays has a position.                                        *)
(***************************************************************************)
Typed(s) ==
    /\ s \in SessionState /\ Good(s.queue, Track, MaxTracks)
    /\ s.near => s.started

CountsOK ==
    ops \in 0..MaxOps /\ refusals \in 0..MaxRefusals /\ lost \in 0..MaxLost

TypeInv == Typed(session) /\ player \in Player /\ CountsOK

Intent == Songs \union {None}

LEMMA TargetType ==
    ASSUME NEW q, Good(q, Track, MaxTracks), NEW near,
           PreparationTarget(q, near) # None
    PROVE  PreparationTarget(q, near).encoded \in Songs
<1>1. PreparationTarget(q, near) = Head(q.upcoming) /\ q.upcoming # <<>>
  BY DEF PreparationTarget
<1>2. q.upcoming \in Seq(Track)
  BY DEF Good, QueueOf
<1>3. Head(q.upcoming) \in Track
  BY <1>1, <1>2, HeadTailProperties
<1>. QED  BY <1>1, <1>3 DEF Track

LEMMA TurnTyped ==
    ASSUME NEW s, Typed(s)
    PROVE  Typed(PrepareNext(s))
<1>1. CASE s.task # NoTask \/ s.retry \/ Wanted(s) = s.target
  BY <1>1 DEF PrepareNext
<1>2. CASE ~(s.task # NoTask \/ s.retry \/ Wanted(s) = s.target)
  <2>. DEFINE asked == [epoch |-> s.epoch, target |-> Wanted(s), stage |-> "asked"]
  <2>1. Wanted(s) \in Intent
    BY TargetType DEF Typed, Wanted, Intent
  <2>2. asked \in Task
    BY <2>1 DEF Typed, SessionState, Task, Intent
  <2>3. PrepareNext(s) = [s EXCEPT !.task = asked]
    BY <1>2 DEF PrepareNext
  <2>. HIDE DEF asked
  <2>. QED  BY <2>2, <2>3 DEF Typed, SessionState
<1>. QED  BY <1>1, <1>2

\* A queue that stays good in its session.
LEMMA WithQueue ==
    ASSUME NEW s, Typed(s), NEW q, Good(q, Track, MaxTracks)
    PROVE  Typed([s EXCEPT !.queue = q])
<1>1. q \in Queue
  BY DEF Good, QueueOf, Queue
<1>. QED  BY <1>1 DEF Typed, SessionState

LEMMA StartTyped ==
    ASSUME NEW s, Typed(s)
    PROVE  Typed(StartCurrent(s))
BY DEF StartCurrent, Typed, SessionState

LEMMA PlayerValues == NoPlayer \in Player /\ FreshPlayer \in Player
BY DEF NoPlayer, FreshPlayer, Player

LEMMA PlayerTyped ==
    ASSUME NEW q, player \in Player, player' \in PlayerAfter(q)
    PROVE  player' \in Player
BY PlayerValues DEF PlayerAfter

LEMMA OperationCounts ==
    ASSUME CountsOK, Operation
    PROVE  CountsOK'
BY PreparationAssumption DEF CountsOK, Operation

-----------------------------------------------------------------------------

LEMMA PlayTyped ==
    ASSUME TypeInv, NEW song \in Songs, NEW user \in Users, Play(song, user)
    PROVE  TypeInv'
<1>. DEFINE track == [encoded |-> song, requester_id |-> user, request |-> 0]
            queue == Enqueue(session.queue, <<track>>, MaxTracks)
            admitted == [session EXCEPT !.queue = queue]
            joined == [session EXCEPT !.queue = queue, !.channel = TRUE]
<1>1. <<track>> \in Seq(Track)
  BY DEF Track
<1>2. Good(queue, Track, MaxTracks)
  BY <1>1, EnqueueGood, PreparationAssumption DEF TypeInv, Typed
<1>3. Operation /\ (Turn(StartCurrent(joined)) \/ Turn(joined))
  BY DEF Play
<1>4. player' = player \/ player' \in PlayerAfter(queue)
  BY DEF Play
<1>. HIDE DEF queue
<1>5. Typed(admitted)
  BY <1>2, WithQueue DEF TypeInv
<1>6. joined = [admitted EXCEPT !.channel = TRUE]
  OBVIOUS
<1>. HIDE DEF admitted, joined
<1>7. Typed(joined)
  BY <1>5, <1>6 DEF Typed, SessionState
<1>8. Typed(session')
  BY <1>3, <1>7, StartTyped, TurnTyped DEF Turn
<1>. QED  BY <1>3, <1>4, <1>8, PlayerTyped, OperationCounts DEF TypeInv

LEMMA NextTrackTyped ==
    ASSUME TypeInv, NextTrack
    PROVE  TypeInv'
<1>1. PICK q \in {Finish(session.queue), Fail(session.queue), Skip(session.queue)} :
        Turn(StartCurrent([session EXCEPT !.queue = q])) /\ player' \in PlayerAfter(q)
  BY DEF NextTrack
<1>2. Good(q, Track, MaxTracks)
  BY FinishGood, FailGood, SkipGood, PreparationAssumption DEF TypeInv, Typed
<1>3. Typed(session')
  BY <1>1, <1>2, WithQueue, StartTyped, TurnTyped DEF TypeInv, Turn
<1>. QED  BY <1>1, <1>3, PlayerTyped, OperationCounts DEF TypeInv, NextTrack

LEMMA EditTyped ==
    ASSUME TypeInv, Edit
    PROVE  TypeInv'
<1>1. PICK q \in {Clear(session.queue), MoveTo(session.queue, 2, 1)}
                 \union {[session.queue EXCEPT !.loop_mode = mode] : mode \in LoopMode} :
        Turn([session EXCEPT !.queue = q])
  BY DEF Edit
<1>2. Good(q, Track, MaxTracks)
  BY <1>1, ClearGood, MoveGood, LoopGood, PreparationAssumption DEF TypeInv, Typed
<1>3. Typed(session')
  BY <1>1, <1>2, WithQueue, TurnTyped DEF TypeInv, Turn
<1>. QED  BY <1>3, OperationCounts DEF TypeInv, Edit

LEMMA FlagsTyped ==
    ASSUME TypeInv, PauseOrResume \/ Begins \/ NearEnd \/ Tick
    PROVE  TypeInv'
<1>. DEFINE paused == [session EXCEPT !.paused = ~@]
            begun == [session EXCEPT !.started = TRUE]
            near == [session EXCEPT !.near = TRUE]
<1>1. \/ Turn(session) \/ Turn(paused) \/ Turn(begun)
      \/ Turn(near) /\ session.started
  BY DEF PauseOrResume, Begins, NearEnd, Tick
<1>2. player' = player /\ (Operation \/ UNCHANGED <<ops, refusals, lost>>)
  BY DEF PauseOrResume, Begins, NearEnd, Tick
<1>3. /\ Typed(paused) /\ Typed(begun) /\ (session.started => Typed(near))
  BY DEF TypeInv, Typed, SessionState
<1>. HIDE DEF paused, begun, near
<1>4. Typed(session')
  BY <1>1, <1>3, TurnTyped DEF TypeInv, Turn
<1>. QED  BY <1>2, <1>4, OperationCounts DEF TypeInv, CountsOK

LEMMA StopTyped ==
    ASSUME TypeInv, StopCommand
    PROVE  TypeInv'
<1>. DEFINE q == Stop(session.queue)
            stopped == [session EXCEPT !.queue = q]
            s == [session EXCEPT !.queue = q, !.epoch = @ + 1]
<1>1. Good(q, Track, MaxTracks)
  BY StopGood, PreparationAssumption DEF TypeInv, Typed
<1>2. Operation /\ Turn(StartCurrent(s)) /\ player' \in PlayerAfter(q)
  BY DEF StopCommand
<1>. HIDE DEF q
<1>3. Typed(stopped)
  BY <1>1, WithQueue DEF TypeInv
<1>4. s = [stopped EXCEPT !.epoch = @ + 1]
  OBVIOUS
<1>. HIDE DEF stopped, s
<1>5. Typed(s)
  BY <1>3, <1>4 DEF Typed, SessionState
<1>6. Typed(session')
  BY <1>2, <1>5, StartTyped, TurnTyped DEF Turn
<1>. QED  BY <1>2, <1>6, PlayerTyped, OperationCounts DEF TypeInv

LEMMA CleanupTyped ==
    ASSUME TypeInv, Cleanup
    PROVE  TypeInv'
<1>. DEFINE emptied == Emptied(session)
            s == [emptied EXCEPT !.target = None, !.retry = FALSE, !.task = NoTask]
            queueless == [session EXCEPT !.queue = EmptyQueue]
            apart == [queueless EXCEPT !.channel = FALSE, !.started = FALSE]
<1>1. Typed(queueless)
  BY EmptyQueueGood, WithQueue, PreparationAssumption DEF TypeInv
<1>2. emptied = [[apart EXCEPT !.paused = FALSE] EXCEPT !.near = FALSE, !.epoch = @ + 1]
  BY DEF Emptied
<1>3. Turn(s) /\ Destroy
  BY DEF Cleanup
<1>. HIDE DEF emptied, queueless
<1>4. apart \in SessionState /\ Good(apart.queue, Track, MaxTracks)
  BY <1>1 DEF Typed, SessionState
<1>. HIDE DEF apart
<1>5. Typed(emptied)
  <2>. DEFINE unpaused == [apart EXCEPT !.paused = FALSE]
  <2>1. unpaused \in SessionState /\ Good(unpaused.queue, Track, MaxTracks)
    BY <1>4 DEF SessionState
  <2>. DEFINE far == [unpaused EXCEPT !.near = FALSE]
  <2>2. emptied = [far EXCEPT !.epoch = @ + 1]
    BY <1>2
  <2>. HIDE DEF unpaused
  <2>3. Typed(far)
    BY <2>1 DEF Typed, SessionState
  <2>. HIDE DEF far
  <2>. QED  BY <2>2, <2>3 DEF Typed, SessionState
<1>6. Typed(s)
  BY <1>5 DEF Typed, SessionState
<1>. HIDE DEF s
<1>7. Typed(session')
  BY <1>3, <1>6, TurnTyped DEF Turn
<1>8. player' \in Player
  BY <1>3, PlayerValues DEF TypeInv, Destroy
<1>9. CountsOK'
  BY PreparationAssumption DEF TypeInv, CountsOK, Cleanup, Destroy
<1>. QED  BY <1>7, <1>8, <1>9 DEF TypeInv

LEMMA ServeTyped ==
    ASSUME TypeInv, Serve
    PROVE  TypeInv'
<1>. DEFINE Result(stage) == [session.task EXCEPT !.stage = stage]
<1>1. Asked /\ \E stage \in {"accepted", "failed"} : Served(stage)
  BY DEF Serve, ServeAccepted, ServeNoPlayer, ServeRefused, ServeUnanswered
<1>2. session.task \in Task
  BY <1>1 DEF Asked, NoTask, TypeInv, Typed, SessionState
<1>3. PICK stage \in {"accepted", "failed"} : session' = [session EXCEPT !.task = Result(stage)]
  BY <1>1 DEF Served, TypeInv, Typed, SessionState
<1>4. Result(stage) \in Task /\ session.task.target \in Songs \union {None}
  BY <1>2 DEF Task
<1>. HIDE DEF Result
<1>5. Typed(session')
  BY <1>3, <1>4 DEF TypeInv, Typed, SessionState
<1>6. player' = player \/ player' = [player EXCEPT !.intent = session.task.target]
  BY DEF Serve, ServeAccepted, ServeNoPlayer, ServeRefused, ServeUnanswered
<1>7. player' \in Player
  BY <1>4, <1>6 DEF TypeInv, Player
<1>8. CountsOK'
  BY PreparationAssumption
     DEF TypeInv, CountsOK, Serve, ServeAccepted, ServeNoPlayer, ServeRefused, ServeUnanswered
<1>. QED  BY <1>5, <1>7, <1>8 DEF TypeInv

LEMMA FinishTyped ==
    ASSUME TypeInv, FinishPreparation
    PROVE  TypeInv'
<1>. DEFINE free == [session EXCEPT !.task = NoTask]
<1>1. session.task \in Task
  BY DEF FinishPreparation, NoTask, TypeInv, Typed, SessionState
<1>2. session.task.target \in Songs \union {None}
  BY <1>1 DEF Task
<1>3. Typed(free)
  BY DEF TypeInv, Typed, SessionState
<1>4. Finished(session) \in {free, [free EXCEPT !.target = session.task.target],
                             [free EXCEPT !.retry = TRUE]}
  BY DEF Finished
<1>. HIDE DEF free
<1>5. Typed(Finished(session))
  BY <1>2, <1>3, <1>4 DEF Typed, SessionState
<1>6. Typed(session')
  BY <1>5, TurnTyped DEF FinishPreparation, Turn
<1>. QED  BY <1>6 DEF FinishPreparation, TypeInv, CountsOK

LEMMA SurroundingsTyped ==
    ASSUME TypeInv, RetryPasses \/ PlayerVanishes \/ IntentFails
    PROVE  TypeInv'
<1>1. Typed(session')
  BY DEF RetryPasses, PlayerVanishes, IntentFails, TypeInv, Typed, SessionState
<1>2. player' \in Player
  BY PlayerValues DEF RetryPasses, PlayerVanishes, IntentFails, TypeInv
<1>3. CountsOK'
  BY OperationCounts DEF RetryPasses, PlayerVanishes, IntentFails, TypeInv, CountsOK
<1>. QED  BY <1>1, <1>2, <1>3 DEF TypeInv

LEMMA InitTyped == Init => TypeInv
<1>. SUFFICES ASSUME Init PROVE TypeInv
  OBVIOUS
<1>1. Good(EmptyQueue, Track, MaxTracks) /\ EmptyQueue \in Queue
  BY EmptyQueueGood, PreparationAssumption DEF Good, QueueOf, Queue
<1>2. Typed(session)
  BY <1>1 DEF Init, Typed, SessionState
<1>. QED  BY <1>2, PreparationAssumption DEF Init, TypeInv, CountsOK, NoPlayer, Player

LEMMA StepTyped == TypeInv /\ [Next]_vars => TypeInv'
<1>. SUFFICES ASSUME TypeInv, [Next]_vars PROVE TypeInv'
  OBVIOUS
<1>1. CASE \E song \in Songs, user \in Users : Play(song, user)
  BY <1>1, PlayTyped
<1>2. CASE NextTrack \/ Edit \/ StopCommand \/ Cleanup
  BY <1>2, NextTrackTyped, EditTyped, StopTyped, CleanupTyped
<1>3. CASE PauseOrResume \/ Begins \/ NearEnd \/ Tick
  BY <1>3, FlagsTyped
<1>4. CASE RetryPasses \/ PlayerVanishes \/ IntentFails
  BY <1>4, SurroundingsTyped
<1>5. CASE Serve \/ FinishPreparation
  BY <1>5, ServeTyped, FinishTyped
<1>6. CASE UNCHANGED vars
  BY <1>6 DEF vars, TypeInv, CountsOK
<1>. QED  BY <1>1, <1>2, <1>3, <1>4, <1>5, <1>6 DEF Next

(***************************************************************************)
(* Every reachable state has its declared type: the intents and targets    *)
(* are songs, the queue keeps its limit, and a position belongs to a track *)
(* that plays.                                                             *)
(***************************************************************************)
THEOREM PreparationTyped == Spec => []TypeOK
<1>1. TypeInv => TypeOK
  BY DEF TypeInv, Typed, CountsOK, TypeOK
<1>. QED  BY InitTyped, StepTyped, <1>1, PTL DEF Spec
=============================================================================

---------------------------- MODULE Preparation -----------------------------
(***************************************************************************)
(* Preparing the next track ahead of its turn (prepare_next and            *)
(* finish_preparation in src/src/session.rs): one guild session that at    *)
(* the end of every turn of its loop compares the track worth preparing    *)
(* with the intent it remembers, one request in flight at a time, and a    *)
(* backend whose player holds the intent.  Handlers are one step here;     *)
(* what they do to the rest of the session is in GuildSession.             *)
(***************************************************************************)
EXTENDS Playback

CONSTANTS
    MaxTracks,    \* Config.limits.queue
    MaxOps,       \* bound on commands and events of the backend
    MaxRefusals,  \* bound on requests refused while the node is not ready
    MaxLost       \* bound on requests to the backend whose answer, or the
                  \* request itself in the case of a destroy, is lost

ASSUME PreparationAssumption ==
    /\ MaxTracks \in Nat \ {0}
    /\ MaxOps \in Nat /\ MaxRefusals \in Nat /\ MaxLost \in Nat
    /\ None \notin Songs

VARIABLES
    session,   \* what the actor owns
    player,    \* the backend's player of this server and its intent
    ops,       \* commands and events so far
    refusals,  \* requests refused so far
    lost       \* answers and destroys lost so far

vars == <<session, player, ops, refusals, lost>>

\* The task in `preparations`: on its way, or with its result in the JoinSet.
Task == [epoch: Nat, target: Songs \union {None},
         stage: {"asked", "accepted", "failed"}]

NoTask == [epoch |-> 0, target |-> None, stage |-> "none"]

(***************************************************************************)
(* near stands for position(): at most 45 seconds are left.  target is     *)
(* preparation_target and retry says that preparation_retry is ahead.      *)
(***************************************************************************)
SessionState ==
    [queue: Queue, channel: BOOLEAN, started: BOOLEAN, paused: BOOLEAN,
     near: BOOLEAN, epoch: Nat, target: Songs \union {None}, retry: BOOLEAN,
     task: Task \union {NoTask}]

Player == [exists: BOOLEAN, intent: Songs \union {None}]

NoPlayer == [exists |-> FALSE, intent |-> None]
FreshPlayer == [exists |-> TRUE, intent |-> None]

Init ==
    /\ session = [queue |-> EmptyQueue, channel |-> FALSE, started |-> FALSE,
                  paused |-> FALSE, near |-> FALSE, epoch |-> 0,
                  target |-> None, retry |-> FALSE, task |-> NoTask]
    /\ player = NoPlayer
    /\ ops = 0 /\ refusals = 0 /\ lost = 0

-----------------------------------------------------------------------------
(* The end of a turn.                                                      *)

\* What should be prepared now.
Wanted(s) ==
    IF s.started /\ ~s.paused /\ s.channel /\ PreparationTarget(s.queue, s.near) # None
    THEN PreparationTarget(s.queue, s.near).encoded ELSE None

PrepareNext(s) ==
    IF s.task # NoTask \/ s.retry \/ Wanted(s) = s.target THEN s
    ELSE [s EXCEPT !.task = [epoch |-> s.epoch, target |-> Wanted(s), stage |-> "asked"]]

Turn(s) == session' = PrepareNext(s)

Operation == ops < MaxOps /\ ops' = ops + 1 /\ UNCHANGED <<refusals, lost>>

-----------------------------------------------------------------------------
(* Handlers that start, stop or edit.                                      *)

\* Mutant: the position of the last track stands for the next one.
StartCurrentKeepsPosition(s) == [s EXCEPT !.started = FALSE, !.paused = FALSE]

\* start_current; the request it sends makes `player` one of PlayerAfter.
StartCurrent(s) == [s EXCEPT !.started = FALSE, !.paused = FALSE, !.near = FALSE]

(***************************************************************************)
(* Playing the prepared song uses the intent up; playing another one may   *)
(* drop it or leave it; no track leaves it.  A missing player is created.  *)
(***************************************************************************)
PlayerAfter(q) ==
    IF ~player.exists THEN {FreshPlayer}
    ELSE IF q.current = None THEN {player}
    ELSE IF q.current.encoded = player.intent THEN {FreshPlayer}
    ELSE {FreshPlayer, player}

\* /play of one song, by somebody in the session's channel.
Play(song, user) ==
    LET tracks == <<[encoded |-> song, requester_id |-> user, request |-> 0]>>
        queue == Enqueue(session.queue, tracks, MaxTracks)
        joined == [session EXCEPT !.queue = queue, !.channel = TRUE]
    IN  /\ Operation
        /\ QueueLen(session.queue) < MaxTracks
        /\ IF session.queue.current = None
           THEN Turn(StartCurrent(joined)) /\ player' \in PlayerAfter(queue)
           ELSE Turn(joined) /\ UNCHANGED player

\* The current track ends, fails or is skipped.
NextTrack ==
    /\ Operation /\ session.queue.current # None
    /\ \E q \in {Finish(session.queue), Fail(session.queue), Skip(session.queue)} :
          /\ Turn(StartCurrent([session EXCEPT !.queue = q]))
          /\ player' \in PlayerAfter(q)

\* Edits that leave the current track alone.
Edit ==
    /\ Operation /\ session.channel
    /\ \E q \in {Clear(session.queue), MoveTo(session.queue, 2, 1)}
                 \union {[session.queue EXCEPT !.loop_mode = mode] : mode \in LoopMode} :
          /\ q # session.queue
          /\ Turn([session EXCEPT !.queue = q])
    /\ UNCHANGED player

PauseOrResume ==
    /\ Operation /\ session.queue.current # None
    /\ Turn([session EXCEPT !.paused = ~@])
    /\ UNCHANGED player

\* Stop keeps the player and a request that is in flight.
StopCommand ==
    /\ Operation /\ session.channel
    /\ LET q == Stop(session.queue)
       IN  /\ Turn(StartCurrent([session EXCEPT !.queue = q, !.epoch = @ + 1]))
           /\ player' \in PlayerAfter(q)

\* What cleanup leaves of the session, but for its preparations.
Emptied(s) ==
    [s EXCEPT !.queue = EmptyQueue, !.channel = FALSE, !.started = FALSE,
              !.paused = FALSE, !.near = FALSE, !.epoch = @ + 1]

\* Node::destroy; a failure of it is ignored.
Destroy ==
    \/ player' = NoPlayer /\ UNCHANGED lost
    \/ lost < MaxLost /\ lost' = lost + 1 /\ UNCHANGED player

\* Mutant: a finished task is not drained, as before the fix called B5.
CleanupKeepsResults ==
    /\ ops < MaxOps /\ ops' = ops + 1 /\ session.channel
    /\ Turn([Emptied(session) EXCEPT
               !.target = None, !.retry = FALSE,
               !.task = IF @.stage = "asked" THEN NoTask ELSE @])
    /\ Destroy
    /\ UNCHANGED refusals

\* An aborted request is served before the player is destroyed, or never.
Cleanup ==
    /\ ops < MaxOps /\ ops' = ops + 1 /\ session.channel
    /\ Turn([Emptied(session) EXCEPT !.target = None, !.retry = FALSE,
                                     !.task = NoTask])
    /\ Destroy
    /\ UNCHANGED refusals

-----------------------------------------------------------------------------
(* Time and the backend.                                                   *)

\* TrackStartEvent.
Begins ==
    /\ Operation /\ session.channel /\ session.queue.current # None
    /\ player.exists /\ ~session.started
    /\ Turn([session EXCEPT !.started = TRUE])
    /\ UNCHANGED player

NearEnd ==
    /\ Operation /\ session.started /\ ~session.paused /\ ~session.near
    /\ Turn([session EXCEPT !.near = TRUE])
    /\ UNCHANGED player

\* A tick, or any other turn that changes nothing here.
Tick == Turn(session) /\ UNCHANGED <<player, ops, refusals, lost>>

RetryPasses ==
    /\ session.retry
    /\ session' = [session EXCEPT !.retry = FALSE]
    /\ UNCHANGED <<player, ops, refusals, lost>>

\* The player is gone with its node session; Cleanup will follow.
PlayerVanishes == Operation /\ player.exists /\ player' = NoPlayer /\ UNCHANGED session

\* Opening the source ahead of time fails; nobody is told.
IntentFails ==
    /\ Operation /\ player.intent # None
    /\ player' = FreshPlayer
    /\ UNCHANGED session

Served(stage) == session' = [session EXCEPT !.task.stage = stage]

Asked == session.task.stage = "asked"

ServeAccepted ==
    /\ Asked /\ player.exists
    /\ player' = [player EXCEPT !.intent = session.task.target]
    /\ Served("accepted")
    /\ UNCHANGED <<ops, refusals, lost>>

ServeNoPlayer ==
    /\ Asked /\ ~player.exists
    /\ Served("failed")
    /\ UNCHANGED <<player, ops, refusals, lost>>

ServeRefused ==
    /\ Asked /\ refusals < MaxRefusals
    /\ Served("failed")
    /\ refusals' = refusals + 1
    /\ UNCHANGED <<player, ops, lost>>

ServeUnanswered ==
    /\ Asked /\ player.exists /\ lost < MaxLost
    /\ player' = [player EXCEPT !.intent = session.task.target]
    /\ Served("failed")
    /\ lost' = lost + 1
    /\ UNCHANGED <<ops, refusals>>

-----------------------------------------------------------------------------
(* The loop joins the task.                                                *)

\* Mutant: the result of an earlier epoch is ignored.
FinishedThisEpoch(s) ==
    LET free == [s EXCEPT !.task = NoTask]
    IN  IF s.task.epoch # s.epoch THEN free
        ELSE IF s.task.stage = "accepted" THEN [free EXCEPT !.target = s.task.target]
        ELSE [free EXCEPT !.retry = TRUE]

\* An accepted intent is remembered whatever has happened since; only a
\* failure of this epoch delays the next request.
Finished(s) ==
    LET free == [s EXCEPT !.task = NoTask]
    IN  IF s.task.stage = "accepted" THEN [free EXCEPT !.target = s.task.target]
        ELSE IF s.task.epoch = s.epoch THEN [free EXCEPT !.retry = TRUE]
        ELSE free

FinishPreparation ==
    /\ session.task.stage \in {"accepted", "failed"}
    /\ Turn(Finished(session))
    /\ UNCHANGED <<player, ops, refusals, lost>>

-----------------------------------------------------------------------------

Serve == ServeAccepted \/ ServeNoPlayer \/ ServeRefused \/ ServeUnanswered

Next ==
    \/ \E song \in Songs, user \in Users : Play(song, user)
    \/ NextTrack \/ Edit \/ PauseOrResume \/ StopCommand \/ Cleanup
    \/ Begins \/ NearEnd \/ Tick \/ RetryPasses \/ PlayerVanishes \/ IntentFails
    \/ Serve \/ FinishPreparation

Spec == Init /\ [][Next]_vars

\* Requests have deadlines, the loop ticks every second, and time passes.
FairSpec ==
    /\ Spec
    /\ WF_vars(Serve) /\ WF_vars(FinishPreparation)
    /\ WF_vars(Tick) /\ WF_vars(RetryPasses)

-----------------------------------------------------------------------------
(* Properties.                                                             *)

\* Every variable has its type, and only a track that plays has a position.
TypeOK ==
    /\ session \in SessionState
    /\ session.near => session.started
    /\ player \in Player
    /\ ops \in 0..MaxOps /\ refusals \in 0..MaxRefusals /\ lost \in 0..MaxLost

(***************************************************************************)
(* No intent is forgotten: what the player holds is what the session       *)
(* remembers or has in flight, also when Stop came in between ("remember   *)
(* overtaken accepted intent and cancel it in submission order",           *)
(* session.rs:719), as long as no answer is lost; and a session that left  *)
(* its channel remembers and asks nothing ("idle cleanup must not retry    *)
(* 404 cancellation", session.rs:2737).                                    *)
(***************************************************************************)
NoForgottenIntent ==
    /\ lost = 0 /\ player.intent # None =>
        \/ player.intent = session.target
        \/ session.task.stage = "accepted" /\ player.intent = session.task.target
    /\ ~session.channel => session.task = NoTask /\ session.target = None

\* An intent that is no longer wanted does not stay with the player: after
\* Clear, Stop, a move, a pause or a loop change it is cancelled or replaced.
UnwantedIntentGoes ==
    \A song \in Songs :
        (lost = 0 /\ player.intent = song /\ Wanted(session) # song)
            ~> (player.intent # song \/ Wanted(session) = song \/ lost # 0)
=============================================================================

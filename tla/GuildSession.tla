---------------------------- MODULE GuildSession ----------------------------
(***************************************************************************)
(* One guild actor (GuildSession::run in src/src/session.rs) with          *)
(* everything it races against: loader tasks, users in voice channels,     *)
(* the gateway and the voice cache, the node connection and the backend's  *)
(* player.                                                                 *)
(*                                                                         *)
(* The actor handles one message at a time; an action is a handler up to   *)
(* the next await whose outcome or duration matters, and it ends with what *)
(* the loop of run does after the handler.  Requests to the backend take   *)
(* effect at one point; their answer may be lost on the way back.          *)
(***************************************************************************)
EXTENDS Session

CONSTANTS
    Commands,       \* the user commands of this instance
    MaxPlays, MaxCommands,  \* bounds on what users ask for
    MaxLost,        \* bound on backend requests that fail in transport
    LosePauses,     \* whether the answer to a pause may be among them
    MaxLostEvents,  \* bound on track events that never arrive
    MaxOutages,     \* bound on losses of the node connection
    MaxVoice,       \* bound on bot moves, guild outages and voice closures
    MaxServers,     \* bound on voice server assignments
    MaxGeneration,  \* players end tracks, and users act, below this generation
    MaxInbox,       \* players emit events while fewer messages wait
    MaxLives        \* how many actors serve the guild, one after the other

ASSUME BoundsAssumption ==
    /\ {MaxPlays, MaxCommands, MaxLost, MaxLostEvents, MaxOutages, MaxVoice,
        MaxServers, MaxGeneration, MaxInbox} \subseteq Nat
    /\ MaxLives \in Nat \ {0}
    /\ LosePauses \in BOOLEAN

VARIABLES
    session,  \* what the actor owns
    inbox,    \* node events on their way to the actor, oldest first
    node,     \* the connection: "ready", "lost", or "replaced" by a new session
    player,   \* the guild's player in the backend
    discord,  \* the voice cache and the gateway commands not yet echoed
    lost,     \* how many requests to the backend failed in transport
    left      \* how much of the other bounds is left

vars == <<session, inbox, node, player, discord, lost, left>>

Message ==
    [kind: {"started", "finished", "failed", "closed", "invalidated", "connected"},
     generation: Nat]

Player ==
    [what: Track \union {None}, generation: Nat, paused: BOOLEAN, begun: BOOLEAN,
     ended: Nat, reason: {"none", "finished", "failed", "stopped"}]

NoPlayer ==
    [what |-> None, generation |-> 0, paused |-> FALSE, begun |-> FALSE,
     ended |-> 0, reason |-> "none"]

Place == Channels \union {None}

Discord ==
    [guild: {"available", "unavailable", "absent"},
     where: [Users -> Place],  \* the channel each user is in
     bot: Place,               \* the bot's channel, as the cache knows it
     server: Nat,              \* the cached voice server; 0 is none
     servers: Nat,             \* how many were assigned
     gateway: Seq(Place)]      \* channels asked for with UpdateVoiceState

Bounds ==
    [plays |-> MaxPlays, commands |-> MaxCommands, events |-> MaxLostEvents,
     outages |-> MaxOutages, voice |-> MaxVoice, lives |-> MaxLives - 1]

Init ==
    /\ session = NewSession
    /\ inbox = <<>>
    /\ node = "ready"
    /\ player = NoPlayer
    /\ discord \in [guild: {"available"}, where: [Users -> Place], bot: {None},
                    server: {0}, servers: {0}, gateway: {<<>>}]
    /\ lost = 0
    /\ left = Bounds

\* Without an actor, events find no mailbox and are dropped.
Deliver(messages) ==
    inbox' = IF session.pc = "gone" THEN inbox ELSE inbox \o messages

Spend(bound) == left[bound] > 0 /\ left' = [left EXCEPT ![bound] = @ - 1]

-----------------------------------------------------------------------------
(* Requests to the node, and the player they change.                       *)

\* A started track replaces what played; no track stops it.
PlayerAfter(what, generation) ==
    [what |-> what,
     generation |-> IF what = None THEN player.generation ELSE generation,
     paused |-> FALSE, begun |-> FALSE,
     ended |-> IF player.what = None THEN player.ended ELSE player.generation,
     reason |-> IF player.what = None THEN player.reason ELSE "stopped"]

\* The player becomes `after` and the answer arrives.
Answered(after) == node = "ready" /\ player' = after /\ UNCHANGED lost

\* The caller gets an error: not connected, or a request or an answer is lost.
Unanswered(after) ==
    \/ node # "ready" /\ UNCHANGED <<player, lost>>
    \/ node = "ready" /\ player' \in {player, after} /\ lost < MaxLost /\ lost' = lost + 1

\* destroy without a connection does nothing and reports success.
Destroy == Answered(NoPlayer) \/ Unanswered(NoPlayer)

NoRequest == UNCHANGED <<player, lost>>

-----------------------------------------------------------------------------
(* What the loop of run does after every handler.                          *)

EndOfTurn(s) ==
    [StartLoad(s) EXCEPT !.pc = IF discord.guild = "absent" THEN "leaving" ELSE "idle"]

\* Ends the handler with the session s, having asked the node for nothing.
Done(s) == session' = EndOfTurn(s) /\ NoRequest /\ UNCHANGED <<node, discord, left>>

\* Ends the handler with cleanup, which leaves the channel and the player.
Cleanup(s) ==
    /\ session' = EndOfTurn(Cleaned(s))
    /\ discord' = [discord EXCEPT !.gateway = Append(@, None)]
    /\ Destroy
    /\ UNCHANGED <<node, left>>

\* Goes on in start_current.
StartCurrent(s, q) ==
    session' = Starting(s, q) /\ NoRequest /\ UNCHANGED <<node, discord, left>>

Alone(channel) == \A u \in Users : discord.where[u] # channel

UpdateAlone(s) ==
    [s EXCEPT !.alone_at = s.channel # None /\ discord.guild # "absent"
                             /\ Alone(s.channel)]

-----------------------------------------------------------------------------
(* start_current: one action per round of its loop.                        *)

\* commit, and only commit, updates the alone timer after a success.
AfterStart(s) ==
    IF s.committing # None /\ ~(s.failed /\ s.queue.current = None)
    THEN UpdateAlone(s) ELSE s

StartAttempt ==
    LET s == Attempt(session)
        after == PlayerAfter(s.queue.current, s.generation)
    IN  /\ session.pc = "starting"
        /\ \/ /\ Answered(after)
              /\ session' = EndOfTurn(Started(AfterStart(s)))
           \/ /\ Unanswered(after)
              /\ session' = IF s.queue.current = None THEN EndOfTurn(GivenUp(s))
                            ELSE AttemptFailed(s)
        /\ UNCHANGED <<inbox, node, discord, left>>

-----------------------------------------------------------------------------
(* /play: admission, resolution, commit and join.                          *)

Acting == session.pc = "idle" /\ discord.guild = "available"

PlayRequest ==
    \E u \in Users :
        /\ Acting /\ node = "ready" /\ session.generation < MaxGeneration
        /\ Waiting(session) < MaxPending
        /\ discord.where[u] # None
        /\ session.channel \in {None, discord.where[u]}
        /\ QueueLen(session.queue) < MaxTracks
        /\ session' = EndOfTurn(Admit(session, u, discord.where[u]))
        /\ Spend("plays")
        /\ NoRequest /\ UNCHANGED <<inbox, node, discord>>

\* The loader's task ends: songs, a failure or a timeout, or a panic.
LoaderCompletes ==
    \E loader \in session.loaders, songs \in BoundedSeq(Songs, 2) :
        /\ loader.state = "running"
        /\ \E state \in IF songs = <<>> THEN {"failed", "panicked"} ELSE {"loaded"} :
             session' = [session EXCEPT !.loaders =
                           (@ \ {loader}) \union
                           {[loader EXCEPT !.state = state, !.songs = songs]}]
        /\ NoRequest /\ UNCHANGED <<inbox, node, discord, left>>

\* The requester is still where the request came from.
Access(pending) ==
    discord.guild # "absent" /\ discord.where[pending.user] = pending.channel

\* join forgets the old voice server before it asks for the channel.
Join(s, pending, resolution) ==
    /\ session' = [s EXCEPT !.committing = pending, !.resolution = resolution,
                            !.pc = "joining"]
    /\ discord' = [discord EXCEPT !.server = 0, !.gateway = Append(@, pending.channel)]
    /\ NoRequest /\ UNCHANGED <<node, left>>

\* Ends a turn unless enqueueing left a track to start.
AfterEnqueue(s) ==
    session' = IF s.pc = "starting" THEN s ELSE EndOfTurn(UpdateAlone(s))

Commit(s, pending, resolution) ==
    IF ~Wanted(s, pending) \/ ~Access(pending) THEN Done(s)
    ELSE IF s.channel = None THEN Join(s, pending, resolution)
    ELSE /\ AfterEnqueue(Enqueued(s, pending, resolution))
         /\ NoRequest /\ UNCHANGED <<node, discord, left>>

\* Mutant: the error of a panicked loader is dropped like a late result.
LoaderJoinedLosesPanic ==
    \E loader \in session.loaders :
        LET rest == [session EXCEPT !.loaders = @ \ {loader}]
            answered == [rest EXCEPT !.loading = None]
        IN  /\ session.pc = "idle" /\ loader.state # "running"
            /\ IF Expected(session, loader) /\ loader.state = "loaded"
               THEN Commit(answered, session.loading, loader)
               ELSE Done(IF Expected(session, loader) /\ loader.state = "failed"
                         THEN answered ELSE rest)
            /\ UNCHANGED inbox

\* A panic has no sequence: it is taken for the request being resolved.
LoaderJoined ==
    \E loader \in session.loaders :
        LET rest == [session EXCEPT !.loaders = @ \ {loader}]
            answered == [rest EXCEPT !.loading = None]
        IN  /\ session.pc = "idle" /\ loader.state # "running"
            /\ IF Expected(session, loader) /\ loader.state = "loaded"
               THEN Commit(answered, session.loading, loader)
               ELSE Done(IF Expected(session, loader) \/ loader.state = "panicked"
                         THEN answered ELSE rest)
            /\ UNCHANGED inbox

NotCommitting(s) == [s EXCEPT !.committing = None, !.resolution = None]

\* join gives up: after ten seconds, or because the backend did not answer.
JoinFails ==
    /\ session.pc = "joining"
    /\ Cleanup(NotCommitting(session))
    /\ UNCHANGED inbox

\* join has the bot in the channel and a voice server, and tells the backend.
JoinSucceeds ==
    /\ session.pc = "joining"
    /\ discord.bot = session.committing.channel
    /\ discord.server # 0
    /\ session' = Joined(session, discord.server)
    /\ Answered(player)
    /\ UNCHANGED <<inbox, node, discord, left>>

\* Mutant: commit trusts the access check it made before joining.
CommitAfterJoinUnchecked ==
    /\ session.pc = "joined"
    /\ AfterEnqueue(Enqueued(session, session.committing, session.resolution))
    /\ NoRequest /\ UNCHANGED <<inbox, node, discord, left>>

CommitAfterJoin ==
    /\ session.pc = "joined"
    /\ IF Access(session.committing)
       THEN AfterEnqueue(Enqueued(session, session.committing, session.resolution))
       ELSE session' = EndOfTurn(NotCommitting(session))
    /\ NoRequest /\ UNCHANGED <<inbox, node, discord, left>>

-----------------------------------------------------------------------------
(* User commands, past the checks every control makes of its caller.       *)

Controls(name) ==
    /\ name \in Commands
    /\ Acting /\ session.generation < MaxGeneration
    /\ name \in {"pause", "resume", "previous", "skip", "jump"} => node = "ready"
    /\ name \notin {"stop", "leave"} => session.channel # None
    /\ \E u \in Users : /\ discord.where[u] # None
                        /\ session.channel \in {None, discord.where[u]}

Command(name) == Controls(name) /\ Spend("commands") /\ UNCHANGED <<inbox, node>>

Pause ==
    \E name \in {"pause", "resume"} :
        LET paused == name = "pause"
            after == [player EXCEPT !.paused = paused]
        IN  /\ Command(name)
            /\ session.queue.current # None
            /\ session.paused # paused
            /\ \/ /\ Answered(after)
                  /\ session' = EndOfTurn([session EXCEPT !.paused = paused,
                                                          !.progress = "fresh"])
               \/ /\ LosePauses /\ Unanswered(after)
                  /\ session' = EndOfTurn(session)
            /\ UNCHANGED discord

\* The edits of the queue that leave the current track alone.
Edits(name, q) ==
    CASE name = "loop" -> {[q EXCEPT !.loop_mode = mode] : mode \in LoopMode}
      [] name = "remove" -> {RemoveAtPosition(q, i) : i \in DOMAIN q.upcoming}
      [] name = "move" -> {MoveTo(q, i, j) : i, j \in DOMAIN q.upcoming}
      [] name = "clear" -> {Clear(q)}
      [] name = "shuffle" -> Shuffled(q)

EditQueue ==
    \E name \in {"loop", "remove", "move", "clear", "shuffle"} :
        /\ Command(name)
        /\ \E q \in Edits(name, session.queue) :
             session' = EndOfTurn([session EXCEPT !.queue = q])
        /\ NoRequest /\ UNCHANGED discord

\* Mutant: previous changes the queue and leaves the backend as it is.
ChangeTrackKeepsPlayer ==
    LET q == session.queue
    IN  /\ Command("previous") /\ PreviousOutcome(q, MaxTracks) = "Started"
        /\ session' = EndOfTurn([session EXCEPT !.queue = Previous(q, MaxTracks)])
        /\ NoRequest /\ UNCHANGED discord

\* The commands that change the current track and start the new one.
ChangeTrack ==
    LET q == session.queue
    IN  \/ /\ Command("skip") /\ q.current # None
           /\ session' = Starting(session, Skip(q))
           /\ NoRequest /\ UNCHANGED discord
        \/ /\ Command("previous") /\ PreviousOutcome(q, MaxTracks) = "Started"
           /\ session' = Starting(session, Previous(q, MaxTracks))
           /\ NoRequest /\ UNCHANGED discord
        \/ \E position \in DOMAIN q.upcoming :
             /\ Command("jump") /\ q.current # None
             /\ session' = Starting(session, Jump(q, position))
             /\ NoRequest /\ UNCHANGED discord

StopCommand ==
    LET s == Stopped(session)
    IN  /\ Command("stop")
        /\ session' = IF s.channel = None THEN EndOfTurn(s)
                      ELSE IF node = "ready" THEN Starting(s, s.queue)
                      ELSE EndOfTurn([s EXCEPT !.idle_at = TRUE])
        /\ NoRequest /\ UNCHANGED discord

LeaveCommand ==
    /\ Command("leave")
    /\ session' = EndOfTurn(Cleaned(session))
    /\ discord' = [discord EXCEPT !.gateway = Append(@, None)]
    /\ Destroy

-----------------------------------------------------------------------------
(* voice_changed, the timers and the watchdog.                             *)

\* The bot is still in the session's channel, or an outage hides where it is.
VoiceHolds ==
    \/ session.channel = None
    \/ discord.guild = "unavailable"
    \/ discord.guild = "available" /\ discord.bot = session.channel

Watching == session.channel # None /\ discord.guild = "available"

\* The backend must be told of a new voice server.
ServerIsNew ==
    Watching /\ node = "ready" /\ discord.server \notin {0, session.credentials}

AfterVoice ==
    IF ~Watching THEN session
    ELSE UpdateAlone(IF ServerIsNew
                     THEN [session EXCEPT !.credentials = discord.server]
                     ELSE session)

\* voice_changed fails: the bot is gone, or the new server is not accepted.
VoiceLost ==
    \/ ~VoiceHolds /\ Cleanup(session)
    \/ VoiceHolds /\ ServerIsNew /\ lost < MaxLost /\ Cleanup(session)

VoiceChanged ==
    /\ session.pc = "idle"
    /\ VoiceLost \/ (VoiceHolds /\ Done(AfterVoice))
    /\ UNCHANGED inbox

\* A tick that finds a timer expired.
TickExpires ==
    /\ session.pc = "idle" /\ VoiceHolds
    /\ (session.alone_at /\ AfterVoice.alone_at) \/ session.idle_at
    /\ Cleanup(AfterVoice)
    /\ UNCHANGED inbox

\* Time since the last progress, as the watchdog reads it.
TimePasses ==
    /\ session.pc = "idle" /\ session.queue.current # None /\ session.progress # "ninety"
    /\ session' = [session EXCEPT !.progress = IF @ = "fresh" THEN "sixty" ELSE "ninety"]
    /\ NoRequest /\ UNCHANGED <<inbox, node, discord, left>>

\* A failed track, as track_failure handles it.
TrackFailure(s) == StartCurrent(s, Fail(s.queue))

Playing == player.what # None /\ player.begun /\ ~player.paused

\* Mutant: only a track that was seen to start is watched.
WorthVerifyingStarted(s) ==
    /\ s.queue.current # None /\ ~s.paused /\ node = "ready" /\ s.started
    /\ s.progress # "fresh" \/ s.queue.current.encoded \notin Streams \union UnknownLength

\* The deadline of a track whose length is known may have passed.
WorthVerifying(s) ==
    /\ s.queue.current # None /\ ~s.paused /\ node = "ready"
    /\ s.progress # "fresh" \/ s.queue.current.encoded \notin Streams \union UnknownLength

\* Without an answer that matches, only a silence of ninety seconds counts.
Unverifiable(s) == IF s.progress = "ninety" THEN TrackFailure(s) ELSE Done(s)

\* recover_playback: what the backend says of this generation decides.
Verified(s, advanced) ==
    IF player.what # None /\ player.generation = s.generation
    THEN LET seen == IF advanced /\ Playing THEN [s EXCEPT !.progress = "fresh"] ELSE s
         IN  IF player.paused \/ seen.progress = "fresh" THEN Done(seen)
             ELSE TrackFailure(seen)
    ELSE IF player.what # None \/ player.ended # s.generation THEN Unverifiable(s)
    ELSE IF player.reason = "finished" THEN StartCurrent(s, Finish(s.queue))
    ELSE TrackFailure(s)

\* A tick that asks the backend for the player.
TickVerifies ==
    /\ session.pc = "idle" /\ VoiceHolds /\ WorthVerifying(AfterVoice)
    /\ \E advanced \in BOOLEAN : Verified(AfterVoice, advanced)
    /\ UNCHANGED inbox

\* The same when the backend does not answer.
TickVerifiesInVain ==
    /\ session.pc = "idle" /\ VoiceHolds /\ WorthVerifying(AfterVoice)
    /\ lost < MaxLost /\ lost' = lost + 1
    /\ session' = IF AfterVoice.progress = "ninety"
                  THEN Starting(AfterVoice, Fail(AfterVoice.queue))
                  ELSE EndOfTurn(AfterVoice)
    /\ UNCHANGED <<inbox, node, player, discord, left>>

\* A playerUpdate that shows the position of this generation advance.
PlayerUpdate ==
    /\ session.pc = "idle" /\ session.channel # None
    /\ Playing /\ player.generation = session.generation
    /\ Done([session EXCEPT !.progress = "fresh"])
    /\ UNCHANGED inbox

-----------------------------------------------------------------------------
(* Messages from the node, in the order they were sent.                    *)

Receive(kinds) ==
    /\ session.pc = "idle" /\ inbox # <<>>
    /\ Head(inbox).kind \in kinds
    /\ inbox' = Tail(inbox)

\* Mutant: a track event is believed whichever play it belongs to.
IsCurrentAny(generation) == session.channel # None /\ session.queue.current # None

\* An event belongs to the play the session has under way.
IsCurrent(generation) ==
    /\ session.channel # None
    /\ session.queue.current # None
    /\ generation = session.generation

TrackEvent ==
    /\ Receive({"started", "finished", "failed"})
    /\ IF ~IsCurrent(Head(inbox).generation) THEN Done(session)
       ELSE CASE Head(inbox).kind = "finished" ->
                   StartCurrent(session, Finish(session.queue))
              [] Head(inbox).kind = "failed" -> TrackFailure(session)
              [] OTHER -> Done(IF session.started THEN session
                               ELSE [session EXCEPT !.started = TRUE,
                                                    !.progress = "fresh"])

\* WebSocketClosedEvent: the voice connection of the player closed.
VoiceClosed ==
    /\ Receive({"closed"})
    /\ IF session.channel = None THEN Done(session) ELSE Cleanup(session)

Invalidated == Receive({"invalidated"}) /\ Cleanup(session)

\* Mutant: a connection that comes back after a cleanup finds nobody.
ConnectedKeepsPlayer ==
    /\ Receive({"connected"})
    /\ IF session.channel = None THEN Done(session)
       ELSE IF session.queue.current = None THEN StartCurrent(session, session.queue)
       ELSE VoiceLost \/ (VoiceHolds /\ Done(AfterVoice))

\* A connection (re)made: finish what could not be said without one.
Connected ==
    /\ Receive({"connected"})
    /\ IF session.channel = None
       THEN /\ session' = EndOfTurn(session)
            /\ Destroy
            /\ UNCHANGED <<node, discord, left>>
       ELSE IF session.queue.current = None THEN StartCurrent(session, session.queue)
       ELSE VoiceLost \/ (VoiceHolds /\ Done(AfterVoice))

-----------------------------------------------------------------------------
(* The end of an actor and the next one.                                   *)

\* Mutant: the actor ends without its last cleanup.
ExitWithoutCleanup ==
    /\ session.pc = "leaving"
    /\ session' = [Cleaned(session) EXCEPT !.pc = "gone", !.loaders = {}]
    /\ inbox' = <<>>
    /\ NoRequest /\ UNCHANGED <<node, discord, left>>

\* Past the loop: cleanup, and the mailbox is dropped.
Exit ==
    /\ session.pc = "leaving"
    /\ session' = [Cleaned(session) EXCEPT !.pc = "gone", !.loaders = {}]
    /\ discord' = [discord EXCEPT !.gateway = Append(@, None)]
    /\ Destroy
    /\ inbox' = <<>>
    /\ UNCHANGED <<node, left>>

\* The next interaction in the guild brings a new actor.
Respawn ==
    /\ session.pc = "gone" /\ discord.guild = "available"
    /\ session' = NewSession
    /\ Spend("lives")
    /\ NoRequest /\ UNCHANGED <<inbox, node, discord>>

-----------------------------------------------------------------------------
(* The backend's player and the connection to it.                          *)

Event(kind) == [kind |-> kind, generation |-> player.generation]

Emit(events) ==
    \/ Deliver(events) /\ UNCHANGED left
    \/ inbox' = inbox /\ Spend("events")

Emits == Len(inbox) < MaxInbox /\ UNCHANGED <<session, node, discord, lost>>

PlayerBegins ==
    /\ player.what # None /\ ~player.begun /\ ~player.paused
    /\ player' = [player EXCEPT !.begun = TRUE]
    /\ Emits /\ Emit(<<Event("started")>>)

\* A track that ends is remembered as the player's terminal observation.
Ended(reason) ==
    [player EXCEPT !.what = None, !.begun = FALSE,
                   !.ended = player.generation, !.reason = reason]

PlayerFinishes ==
    /\ Playing /\ player.generation < MaxGeneration
    /\ player' = Ended("finished")
    /\ Emits /\ Emit(<<Event("finished")>>)

\* An exception is followed by an end event, so a failure is told twice.
PlayerFails ==
    /\ player.what # None /\ player.generation < MaxGeneration
    /\ player' = Ended("failed")
    /\ Emits /\ Emit(<<Event("failed"), Event("failed")>>)

PlayerClosed ==
    /\ player.what # None
    /\ Spend("voice") /\ Deliver(<<Event("closed")>>)
    /\ NoRequest /\ UNCHANGED <<session, node, discord>>

NodeLost ==
    /\ node = "ready" /\ node' = "lost" /\ Spend("outages")
    /\ NoRequest /\ UNCHANGED <<session, inbox, discord>>

\* The backend forgot the session, or the outage outlasted it.
NodeReplaced ==
    /\ node = "lost" /\ node' = "replaced"
    /\ player' = NoPlayer
    /\ Deliver(<<[kind |-> "invalidated", generation |-> 0]>>)
    /\ UNCHANGED <<session, discord, lost, left>>

NodeConnected ==
    /\ node # "ready" /\ node' = "ready"
    /\ Deliver(<<[kind |-> "connected", generation |-> 0]>>)
    /\ NoRequest /\ UNCHANGED <<session, discord, left>>

-----------------------------------------------------------------------------
(* Discord.                                                                *)

DiscordOnly == UNCHANGED <<session, inbox, node, player, lost>>

\* The gateway echoes a voice state; leaving clears the voice server.
GatewayEcho ==
    /\ discord.gateway # <<>>
    /\ discord' = [discord EXCEPT
                     !.gateway = Tail(@),
                     !.bot = IF discord.guild = "absent" THEN @ ELSE Head(discord.gateway),
                     !.server = IF Head(discord.gateway) = None THEN 0 ELSE @]
    /\ DiscordOnly /\ UNCHANGED left

ServerAssigned ==
    /\ discord.bot # None /\ discord.guild # "absent" /\ discord.servers < MaxServers
    /\ discord' = [discord EXCEPT !.servers = @ + 1, !.server = discord.servers + 1]
    /\ DiscordOnly /\ UNCHANGED left

UserMoves ==
    \E u \in Users, place \in Place :
        /\ discord.guild = "available" /\ place # discord.where[u]
        /\ discord' = [discord EXCEPT !.where[u] = place]
        /\ Spend("voice") /\ DiscordOnly

BotMoved ==
    \E place \in Place :
        /\ discord.bot # None /\ place # discord.bot
        /\ discord' = [discord EXCEPT !.bot = place,
                                      !.server = IF place = None THEN 0 ELSE @]
        /\ Spend("voice") /\ DiscordOnly

GuildUnavailable ==
    /\ discord.guild = "available"
    /\ discord' = [discord EXCEPT !.guild = "unavailable"]
    /\ Spend("voice") /\ DiscordOnly

GuildRemoved ==
    /\ discord.guild # "absent"
    /\ discord' = [discord EXCEPT !.guild = "absent", !.bot = None, !.server = 0]
    /\ Spend("voice") /\ DiscordOnly

\* GuildCreate replaces the cached guild: its voice server is not in it.
GuildCreated ==
    /\ discord.guild # "available"
    /\ discord' = [discord EXCEPT !.guild = "available", !.server = 0]
    /\ DiscordOnly /\ UNCHANGED left

-----------------------------------------------------------------------------
Actor ==
    \/ PlayRequest \/ LoaderJoined \/ JoinFails \/ JoinSucceeds \/ CommitAfterJoin
    \/ StartAttempt \/ Pause \/ EditQueue \/ ChangeTrack \/ StopCommand
    \/ LeaveCommand \/ VoiceChanged \/ TickExpires \/ TickVerifies
    \/ TickVerifiesInVain \/ PlayerUpdate \/ TrackEvent \/ VoiceClosed
    \/ Invalidated \/ Connected \/ Exit

Surroundings ==
    \/ LoaderCompletes \/ TimePasses \/ Respawn
    \/ PlayerBegins \/ PlayerFinishes \/ PlayerFails \/ PlayerClosed
    \/ NodeLost \/ NodeReplaced \/ NodeConnected
    \/ GatewayEcho \/ ServerAssigned \/ UserMoves \/ BotMoved
    \/ GuildUnavailable \/ GuildRemoved \/ GuildCreated

Next == Actor \/ Surroundings

Spec == Init /\ [][Next]_vars

(***************************************************************************)
(* The select! of run polls its branches fairly, the interval ticks once a *)
(* second, every await of a handler has a timeout, the loader's task ends  *)
(* within 45 seconds, and the node reconnects to the embedded backend.     *)
(***************************************************************************)
Fairness ==
    /\ WF_vars(LoaderCompletes) /\ WF_vars(LoaderJoined)
    /\ WF_vars(JoinFails \/ JoinSucceeds) /\ WF_vars(CommitAfterJoin)
    /\ WF_vars(StartAttempt) /\ WF_vars(Exit)
    /\ WF_vars(TrackEvent \/ VoiceClosed \/ Invalidated \/ Connected)
    /\ WF_vars(VoiceChanged) /\ WF_vars(TickExpires) /\ WF_vars(TickVerifies)
    /\ WF_vars(TimePasses) /\ WF_vars(NodeConnected)

FairSpec == Spec /\ Fairness

-----------------------------------------------------------------------------
(* Type invariant.                                                         *)
TypeOK ==
    /\ session \in SessionState
    /\ inbox \in Seq(Message)
    /\ node \in {"ready", "lost", "replaced"}
    /\ player \in Player
    /\ discord \in Discord
    /\ lost \in Nat
    /\ left \in [DOMAIN Bounds -> Nat]

(* Between two handlers the idle timer runs exactly in a session that is   *)
(* in a channel with nothing to play, whichever of join, start_current,    *)
(* stop and commit set or cleared it last; a session without a channel     *)
(* holds no queue and no timer.                                            *)
IdleClock ==
    session.pc = "idle" =>
        IF session.channel = None
        THEN /\ session.queue.current = None /\ session.queue.upcoming = <<>>
             /\ ~session.idle_at /\ ~session.alone_at
        ELSE session.idle_at <=> session.queue.current = None

(* A request that is being resolved has its own task, which has not been   *)
(* joined; nothing waits while nothing is being resolved; and no more      *)
(* requests wait than the limit admits.  Otherwise a request would never   *)
(* be answered, and everyone after it would wait with it.                  *)
LoadHasItsLoader ==
    session.pc \in {"idle", "leaving"} =>
        /\ session.loading # None =>
             \E l \in session.loaders : l.sequence = session.loading.sequence
        /\ session.pending # <<>> => session.loading # None
        /\ Waiting(session) <= MaxPending

\* The tracks a queue plays, will play, or can go back to.
Known(q) ==
    ToSet(q.upcoming) \union ToSet(q.history) \union ({q.current} \ {None})

(* What was requested before a stop, a leave or a lost session is neither  *)
(* played nor remembered after it, although its loader may finish at any   *)
(* later time: every track of the queue was resolved for a request that    *)
(* came after the last cancellation.                                       *)
NoPlayAfterStop ==
    \A t \in Known(session.queue) : t.request > session.canceled

(* A track is only added for somebody who is in the channel the bot plays  *)
(* in at that moment, although joining may have taken seconds.             *)
RequesterIsThere ==
    [][\A t \in Known(session'.queue) \ Known(session.queue) :
         discord.where[t.requester_id] = session'.channel]_session

BackendForgot == \E i \in DOMAIN inbox : inbox[i].kind = "invalidated"

(* Between two handlers, what the queue calls current is what the backend  *)
(* was last told to play, in the generation the session listens to: it     *)
(* plays it, or it ended it and the session will hear or ask of that end.  *)
(* Only a backend that lost its session breaks this, and then the message  *)
(* that clears the queue is under way.                                     *)
BackendHasTheCurrentTrack ==
    session.pc = "idle" /\ session.queue.current # None =>
        \/ BackendForgot
        \/ /\ player.what = session.queue.current
           /\ player.generation = session.generation
        \/ player.what = None /\ player.ended = session.generation

\* The session moves on from a track as finished: not as failed, and unasked.
MovesOnAsFinished ==
    /\ session.queue.current # None
    /\ session.pc = "idle" /\ session'.pc = "starting" /\ left' = left
    /\ session'.queue = Finish(session.queue)
    /\ session'.queue # Fail(session.queue)

\* The backend finished the play under way, or forgot its players since, and
\* the message that clears the queue is under way.
BackendFinishedIt ==
    \/ BackendForgot
    \/ /\ player.what = None
       /\ player.ended = session.generation
       /\ player.reason = "finished"

\* No player of an earlier actor can be left in the backend: there was no
\* earlier actor, or none of the requests to destroy one failed.
OnlyOwnPlayers ==
    left.lives = MaxLives - 1 \/ (lost = 0 /\ left.outages = MaxOutages)

(* "Natural advancement requires a matching finished terminal event": a    *)
(* track is only moved on as finished when the backend finished that very  *)
(* play, neither an older nor a repeated one.  The exception is real:      *)
(* every actor counts its generations from zero, so a player that outlived *)
(* the actor before it can answer for the new one.                         *)
OnlyFinishedTracksFinish ==
    [][MovesOnAsFinished /\ OnlyOwnPlayers => BackendFinishedIt]_session

(* Once every handler is done and the connection is back, a session with   *)
(* nothing to play leaves nothing playing in the backend, although stop    *)
(* and cleanup may have happened without a connection; unless a request    *)
(* that the connection accepted was lost.                                  *)
QuietWhenEmpty ==
    (/\ session.pc = "idle" /\ session.queue.current = None
     /\ node = "ready" /\ lost = 0 /\ left.lives = MaxLives - 1
     /\ \A i \in DOMAIN inbox : inbox[i].kind # "connected")
    => player.what = None

-----------------------------------------------------------------------------
Outstanding(n) ==
    \E p \in ToSet(session.pending) \union
             ({session.loading, session.committing} \ {None}) : p.sequence = n

(* Every admitted /play is answered: it leaves the session's hands.        *)
PlayIsAnswered == \A n \in 1..MaxPlays : Outstanding(n) ~> ~Outstanding(n)

(* A session with nothing to play leaves its channel or plays again.       *)
IdleSessionLeaves ==
    (session.channel # None /\ session.queue.current = None)
        ~> (session.channel = None \/ session.queue.current # None)

(* "A silent/missing player cannot retain the queue indefinitely": while   *)
(* the session is not paused and the backend plays nothing, the current    *)
(* track does not stay current in the same generation.                     *)
Silent(n) ==
    session.queue.current # None /\ ~session.paused /\ session.generation = n /\ ~Playing

SilentPlayerIsReleased ==
    \A n \in 1..MaxGeneration : Silent(n) ~> ~Silent(n)
=============================================================================

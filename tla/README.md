# Raydio: specification and proofs

Raydio is a Discord music bot: one process that keeps a playback queue and a
voice connection per server (guild) and plays through an embedded Lavalink-like
backend (Crust). This directory holds TLA+ modules of its stateful core, TLC
configurations that check them on small instances, and proofs for the TLA+
proof system (TLAPS). Paths below are relative to the repository; `session.rs`
is `src/src/session.rs` and so on.

## The system

| Component | State | Operations | Talks to | What is hard |
| --- | --- | --- | --- | --- |
| Playback queue (`playback.rs`) | current, upcoming, history, loop mode, failure count | enqueue, finish, fail, skip, previous, jump, move, remove, clear, shuffle, stop | called by the session | limits, one-based positions, Previous against the queue loop's copy |
| Guild session (`session.rs`) | the queue, channel, voice credentials, generation, epoch, timers, pending and loading requests | one actor per guild: interactions, node events, voice changes, loader results, a one second tick | node client (HTTP), gateway, voice cache, loaders, panel | handlers await in the middle; everything around them goes on |
| Voice cache (`voice.rs`) | guilds, channels, roles, voice states, voice server | one update per gateway event; access checks | written by the runtime, read by sessions | unavailable and removed guilds; permissions; stale reads |
| Node client (`node.rs`) | health: ready, session id; outage clock | connect, resume, requests, events | backend, runtime | resumption against replacement, outage clock, order of Invalidated and Connected |
| Runtime (`runtime.rs`, `main.rs`) | map of actors, mailboxes, tasks, the cancellation token | dispatch, spawn, reject, join, shutdown | everything | bounded mailboxes, actors that end, acknowledgement beside handling, handlers that never return |
| Panel (`session.rs` 1450-1636) | one owned message, its last view, edits and deletions under way | present, refresh, retire | Discord HTTP | stale edits, coalescing, bounded deletions |
| Preparation (`session.rs` 691-731) | intent under way, accepted target | prepare, finish, drain | node client | overtaken and late acknowledgements |
| Interactions (`discord.rs`) | none | acknowledge with a deadline, answer, error | Discord HTTP | three second deadline, lost answers |
| Resolver, URLs (`resolver.rs`, `urls.rs`) | none | classify, normalise | node client | limits, rejected entries |
| Autocomplete (`runtime.rs` 166-320) | cache of 30 s, four permits | fetch membership, suggest | voice cache, node client, Discord HTTP | access that is checked before a search, entries of other callers, a budget that cuts it short |
| Views, commands, configuration, service, backend start, main | none or static | formatting, parsing, start and stop | | |

What makes each correct: the queue never exceeds its limits and loses nothing
unasked; the session and the backend never disagree about what plays, every
/play is answered, nothing canceled is ever played, the bot leaves when it has
nothing to do; the node announces a lost session exactly once and before it
serves the next; the runtime neither loses an accepted interaction nor blocks;
the panel shows one message per session and never an old state last.
`PROJECT.json` lists every hazard at its line with the properties that cover it.

## Modules

| Module | Models | How |
| --- | --- | --- |
| `Playback` | `Queue` of `playback.rs` | a queue is a record; each method is an operator from queue to queue |
| `PlayQueue` | the queue under every order of operations | one action per operation, as the session calls it |
| `MCPlayQueue` | instance for TLC | two finite songs and a stream |
| `PlaybackProofs` | lemmas about the operators of `Playback` | what each method keeps: `Good`; used by the next three proof modules |
| `PlayQueueProofs` | theorems about `PlayQueue` | inductive invariant `QueueInv` |
| `Session` | the fields of `GuildSession` and what its handlers do to them alone | a session is a record; helpers are operators |
| `GuildSession` | the actor and its surroundings | see below |
| `MCGuildSession` | instances for TLC | sets of users, channels and commands |
| `GuildSessionProofs` | theorems about `GuildSession` | inductive invariant `Inv` |
| `NodeLifetime` | what the node client promises | abstract: announce, lose, forward, take |
| `NodeClient` | the connection loop of `node.rs` against a backend that keeps and forgets sessions | one action per await of the task |
| `MCNodeClient` | instance for TLC | three sessions |
| `NodeClientProofs` | theorems about `NodeClient` | inductive invariant `ClientInv`, refinement of `NodeLifetime` |
| `PlayerPanel` | the player message of a session (`session.rs` 271-306, 1450-1636) | one action per handler, task or answer of Discord |
| `MCPlayerPanel` | instance for TLC | one deletion at a time, three messages |
| `PlayerPanelProofs` | theorems about `PlayerPanel` | inductive invariant `PanelInv` |
| `InteractionLine` | what Raydio promises of interactions | abstract: take on, set aside, tell, execute, discard, abandon |
| `Runtime` | the main loop, its actors' tasks, mailboxes, acknowledgements and the shutdown | one action per branch of `select!`, await of a task, or stage of the shutdown |
| `MCRuntime` | instance for TLC | two servers, two interactions |
| `RuntimeProofs` | theorems about `Runtime` | inductive invariants `RuntimeInv`, `LineInv`, refinement of `InteractionLine` |
| `Preparation` | `prepare_next`, `finish_preparation`, the drain in `cleanup` | one action per handler, ending with the turn's `prepare_next` |
| `MCPreparation` | instance for TLC | two songs |
| `PreparationProofs` | theorems about `Preparation` | inductive invariants `IntentInv`, `TypeInv` |
| `VoiceAccess` | `Guild` and `Cache::update` of `voice.rs` | operators: events from server to server, decisions on a server |
| `Resolver` | `classify` (`urls.rs`), `normalize` (`resolver.rs`) | operators on what the policy looks at |
| `Admission` | a changing server, the gateway, autocompletes and /play up to their resolution | one action per await of a request, one per change at Discord |
| `MCAdmission` | instance for TLC | two channels, three roles, three users |
| `AdmissionProofs` | theorems about `VoiceAccess`, `Resolver` and `Admission` | the loop of `normalize`; inductive invariants `Inv` and `AccessInv` |

`GuildSession` extends `Session`, which extends `Playback`, so the queue that is
checked and proved by itself is the one the session uses.

### Atomicity in GuildSession

The actor handles one thing at a time, but its handlers await. An action is a
handler up to an await during which something can happen that matters to the
rest of the handler. `pc` names those awaits: join's wait for credentials
(`joining`), the node's answer to join (`joined`), and every round of
`start_current` (`starting`). A handler that awaits once, at its end or without
reading anything afterwards, is one action, since what happens during the await
commutes with it. Every action that ends a handler applies `EndOfTurn`:
`start_load`, and leaving the loop when the guild is gone.

A request to the backend takes effect at one point. `Answered` is its success,
`Unanswered` its failure: not connected (nothing happens), or the request or its
answer lost on the way (`MaxLost` bounds how often), in which case the player
may or may not have changed.

`player` is what the code reads of a Crust player: the track with the generation
the session attached to it, whether it is paused, whether it begun, and the
terminal observation (`crust.terminal`). It is external: modelled from
`recover_playback`, `backend` and the documents on the observation. Each track
event may be lost (`MaxLostEvents`); a failure is told twice (exception, then end
event). `inbox` is the path of node messages to the actor: node channel, pump
and mailbox, in order. Interactions, voice changes and ticks are not queued:
they carry no state, so a message of theirs that waited is the same as one that
arrives now.

`discord` is the guild's entry of the voice cache and the commands sent to the
gateway that were not echoed yet. A new voice session always comes with a new
voice server, so one number stands for the pair the code compares. Permissions
and user limits can only refuse a request, which has the effect of a failed
load or of a requester who moved; `Admission` has them.

The watchdog's clock `progress` has three values, because 60 and 90 seconds are
what the code compares with. The metadata deadline is not modelled as time: a
track of known length may be verified at any tick, which allows every deadline.
A timer that is set may expire at any tick.

`request`, in a track, and `canceled`, in a session, are history: no guard reads
them.

### NodeClient

`pc` names the await of the task: connecting, listening, sending one of its
events to the runtime (which waits for room in the bounded channel), the PATCH
that makes a session resumable, and the pause of a second. `state` is the local
variable of the loop and `health` what callers read. `outage` is the clock: the
code only asks whether it is set and whether sixty seconds have passed. The
backend is external: a session without a socket lives on if it was told to, and
may be forgotten at any time, which covers its sixty seconds and a restart. A
request with a Session-Id it still has is resumed, any other gets a session that
was never handed out. `announced` is history: the session the reported events
speak of. The session's character check, the frame statistics and the ping are
left out; each of them can end the inner loop, as `StopListening` does.

`GuildSession` takes its view of the node from `NodeLifetime`'s order of events:
Invalidated before Connected, nothing of an old session afterwards. Invalidated
may come twice, if the PATCH of a replacing session fails; `NodeLifetime`
allows it, and a second cleanup changes nothing.

### PlayerPanel

A view is a version number: `now` grows with every change of what a view shows.
A message has what it shows and what it showed before; the difference between
the two is what a late write can bring back. `actor` holds the fields of
`GuildSession` about the message and the await a handler is in. The message of a
response whose answer is lost is not counted: the code never learns its id.
A message dropped after a terminal failure (401, 403) or given up after three
attempts is in `abandoned`. Late writes are assumed to arrive while a check is
left that does not fail, as the code's comment does.

### Runtime

The loop shares a map of mailboxes with nobody; actors and the tasks that answer
Discord run beside it. `phase` is the loop and then the stages of the shutdown.
An actor is idle in its `select!`, waits for an acknowledgement, is busy with a
message, or is in its last cleanup; what the message does is in `GuildSession`.
`job` is the task of an interaction: deferring, verifying with the one lookup,
or its result, which stays in the oneshot channel until the actor takes it.
`told` is what Discord holds, which a request without an answer may or may not
have changed, also later (`LateDeferral`).

Time is counted in seconds for the two deadlines of `acknowledge` and the
actor's wait, because the code's five seconds must cover three and one. A tick
is not possible while a timer is due: timers are served on time and a task
begins in the second it is spawned. The other deadlines (last cleanup, joining
the actors) only say that a stage ends.

A finished task leaves the JoinSet at once; the loop joins it in one of its next
turns, so the code may refuse a little earlier than the model. Interactions of
other kinds, which the loop ignores, are not enumerated. Broadcasting stops at
the first mailbox without room, so any subset of the others may have the notice.

The refinement mapping to `InteractionLine`: a server's line is the interaction
its actor waits for (`Awaited`), followed by those in its mailbox without the
notices between them (`Enlisted`); `Admitted` and `Aside` are read off `fate`.

### Preparation

One session and one player. Every handler ends with `prepare_next`, which is
why each action applies `Turn`. A task has its result before the loop joins it,
and what comes between is the point: Stop, which keeps the player, and cleanup,
which drains the set before it destroys the player. An aborted request was
served before the destroy or never, since the node serves a player's requests
one by one. `lost` counts answers and destroys lost on the way. Retries wait for
`RetryPasses`, the five seconds. `near` stands for the 45 seconds before the end
of the track.

### VoiceAccess, Resolver and Admission

`Admission` has two views of one server, Discord's and the cache's, and between
them the events on their way. An event carries what Discord said when it sent
it. GUILD_CREATE may lack the bot's membership and never says who is a bot;
a gateway session that cannot be resumed loses the events under way and begins
with GUILD_CREATE. `overtaken` is history: a membership fetched over HTTP was
written over a newer one. A map of the code is a function with `None` for a key
it lacks.

A request is an action per await. Permissions are four (the others change
nothing), text is what the URL parser sees in it, a track is what the policy
looks at. The age of an entry is counted in units of half its lifetime. The
deadline of /play's resolution is a failing answer. Length of the query,
readiness of the node, formatting of choices and the limit of 10000 voice
members (whose branch is modelled but not reached) add nothing to the
properties.

## Runs

| Run | Question | Result |
| --- | --- | --- |
| `play_queue` | limits, emptiness of a stopped queue, Previous as the inverse of a natural end, order of the queue loop, preparation of the successor, no song dropped unasked | holds |
| `previous_keeps_requests` | does Previous keep every request, as the fix notes say? | violated |
| `failure_streak` | does playback stop only after consecutive failures, as the message says? | violated |
| `guild_session` | one actor with two requests, a command, a lost request and an outage: `LoadHasItsLoader`, `NoPlayAfterStop`, `BackendHasTheCurrentTrack`, `QuietWhenEmpty`, `OnlyFinishedTracksFinish` | holds |
| `voice_session` | two channels, moves of users and of the bot, guild outages and removals, voice closures, a second actor: `IdleClock`, `RequesterIsThere`, `OnlyFinishedTracksFinish` | holds |
| `liveness` | every /play is answered, idle sessions leave, silent players are released, with a lost event, a lost request and an outage | holds if no answer to a pause is lost |
| `lost_pause` | the last one with a lost answer to a pause | violated |
| `node_client` | the connection loop keeps the promise of `NodeLifetime`; a ready node is announced; every lost session is declared lost | holds |
| `player_panel` | one owned message, never an older view, every retired message deleted or given up, the current view in the end | holds |
| `runtime` | limits; the map names the actors; nothing confirmed is discarded; execution in order, at most once, only what was confirmed (`InteractionLine`); what was taken on is decided; the service stops | holds |
| `preparation` | no intent is forgotten, an unwanted one goes | holds while no answer is lost |
| `admission` | the cache admits whom Discord would; choices are for the caller's channel, words and time; resolutions keep the policy; permits come back | holds |

### Bounds

`PlayQueue`: three tracks at a time, four requests, a history of two and the
code's failure limit of three. A full queue with a full history, two copies of a
song, and a streak that reaches the limit all occur; positions and capacities
interact only with their neighbours, so more tracks repeat these cases.

`GuildSession`: two requests (one waiting behind another, or one admitted after
the other was canceled), resolutions of one or two songs for a queue of two (so
that one is omitted), a failure limit of two (so that one failure goes on and
two stop), three generations before users and players hold still (so that there
is a history to go back to), and one of each fault. `guild_session` has 1.5
million states; `voice_session` adds places and a second actor and has a working
connection; `liveness` has one request, since queueing behind another is what
`LoadHasItsLoader` decides, and every fault. Every property but `IdleClock` and
`QuietWhenEmpty` is about at most two plays and one fault between them. Deadlock
is not checked: the actor ends when its guild is removed, and with all bounds
used up nothing need happen any more.

`MaxGeneration` and `MaxInbox` only restrain users and players, never the actor.

`NodeClient`: three sessions, so that a replacement is itself replaced, and a
channel of two, so that the task waits for room in every send. When the sessions
are used up only failures to connect remain, which is the outage that never
ends.

`PlayerPanel`: one deletion at a time, so that the third message meets the
limit; three failed requests, as many as a deletion has attempts; three changes
of the view, one late write and one message deleted by somebody else.

`Runtime`: two servers of which one may have an actor, two interactions, a
mailbox for one message, two tasks and one refusal at a time, so that every
limit is met; deferral and lookup have a second each, the wait three. Servers
share nothing but the limits. 247 thousand states.

`Preparation`: two songs, a queue of three, eight operations, one refused
request and one lost answer; an intent, the change that makes it unwanted and
the cleanup or Stop that overtakes its task are six operations. 116 thousand
states.

`Admission`: three changes or requests, two events under way, one permit, one
entry in the cache, entries stale after two ticks; one change overtaken by
another, two autocompletes for one permit and a /play with every answer of two
tracks around a limit of two. 2.9 million states.

### Fairness

`Fairness` gives weak fairness to the loader's end (45 s timeout), the loop's
branches (tokio's `select!` polls its branches in random order, so none is
passed over for ever), every await of a handler (each has a timeout), the
watchdog and the timers (the one second interval), time itself, and the
reconnection to the node, which retries every second and whose server runs in
the same process. Nothing is assumed of users, players or Discord. Weak fairness
suffices because users and faults are bounded: the actor returns to its loop
and stays there.

`NodeClient` assumes that the task runs (every await has a timeout), that the
runtime drains the channel and that time passes; connections may fail for ever.
`PlayerPanel` assumes that every request ends (they have timeouts), that the
loop joins finished tasks and ticks, and that time passes. `PanelCatchesUp`
speaks of the time after the last change.

`Runtime` assumes that tasks are polled and requests have deadlines, that
`select!` starves no branch, and that time passes. No handler is assumed to
return: `ServiceStops` holds without it, and `TakenOnIsDecided` says that it
needs it. `Preparation` assumes that the request ends, the loop joins it and
ticks, and the retry's five seconds pass.

### What the violated claims show

* Previous in the queue loop takes out the last upcoming track with the same
  song and requester (`playback.rs` 128-134). If the user requested the song
  twice, and the copy the loop appended is not there, the other request is lost.
* The failure count is reset by a natural end and by an enqueue onto an idle
  queue, but not by a skip, a jump or Previous, nor when a track starts. Two
  failures, a track that plays well and is skipped, and a third failure drop the
  queue.
* If the backend applies a pause and its answer is lost, the session stays
  unpaused. The watchdog then finds the current generation paused and returns
  (`session.rs` 1363), every time. Only a user can end it.

Two more facts the models show, for which no claim of the repository is broken:
finishing the only track in the queue loop and going back leaves it in the queue
twice; and a second actor for a guild reuses generations from one, so that a
player which survived the first (destroy lost, or an outage) can end the second
one's first track. `OnlyFinishedTracksFinish` excepts steps at which such a
player may exist (`OnlyOwnPlayers`: there was no earlier actor, or no request
and no connection was lost). Without the exception TLC finds the case in 25
steps with the constants of `voice_session`, one channel, one track,
`MaxCommands = 0` and `MaxLost = 1`.

A third: `present_player` ends the checks of a paused panel before it asks
Discord for the replacement. If that request fails, the panel stays without its
checks, and a late write leaves it showing the old view until the next change.
`PanelCatchesUp` excepts such a panel (`unchecked`).

And a fourth: a membership fetched over HTTP replaces the one the gateway told
in the meantime, and stays until the bot's roles are told again.
`AccessFollowsDiscord` excepts it (`overtaken`).

## Proofs

`PlayQueueProofs` proves, for all songs, users, limits and numbers of requests,
every property the runs check of `PlayQueue` and expect to hold: `TypeOK`,
`WithinLimits`, `NothingWaitsBehindNothing`, `PreparedTrackPlaysNext`,
`PreviousUndoesFinish`, `QueueLoopReplaysInOrder` and `NoSongDroppedUnasked`.
The limits alone are not inductive: Jump, Previous and Fail keep them only if a
queue without a current track is empty, and Enqueue relies on that too.
`Good(q, T, max)`, in `PlaybackProofs`, says of a queue that it has its type,
holds only tracks of T, is within its limits, is empty when nothing is current,
and has no current track at the failure limit. One lemma per operator says that
it keeps `Good`; with all tracks for T that is the type, with the tracks of a
queue for T it says that the operator adds none. `Invariance` has one step per
action. The lemmas at the head of `PlaybackProofs` say what concatenation,
removal, insertion and `Front` do to the type and the length of a sequence.
The other properties follow from the invariant and from what the operators do:

* Going back undoes an end because `Remembered` puts the track last whatever
  the history's limit drops (`RememberedLast`), and the copy the queue loop
  appended is the last of all copies, so it is the one `Duplicate` finds and
  `RemoveAt` takes out (`LastCopyIsFound`). Its slot, or that of the track that
  started, is the one going back needs in a full queue.
* Each operator keeps the tracks of a queue or all but one (`FinishKeeps` and
  its like); a shuffle because an injection of finitely many positions leaves
  none out, Previous because the track it takes out is a copy of the one it starts.
* The round of the queue loop is an induction over the number of ends, done by
  hand: `RunExists` shows that the recursive function of `Round` is defined and
  `QueueLoopIsARound` that n ends turn the queue by n places (`Turned`), both at
  the least n that would fail (`LeastElement`).

Assumptions: the named assumptions on the constants in `Playback` and
`PlayQueue` (positive limits, `None` is not a track).

`GuildSessionProofs` proves, for all songs, users, channels, commands, limits
and bounds on faults, every safety property the runs check of `GuildSession`:
`TypeOK`, `IdleClock`, `LoadHasItsLoader`, `NoPlayAfterStop`,
`BackendHasTheCurrentTrack`, `QuietWhenEmpty`, `RequesterIsThere` and
`OnlyFinishedTracksFinish`. Its inductive invariant `Inv` has three parts.

* `SessionInv` is about the session alone. Between two handlers it is `Sound`
  (types, a good queue, a loader for what is loading, nothing canceled in the
  queue or its history) and `Timed` (the idle timer says what the queue says);
  in the middle of one it is `Sound` and holds what the rest of the handler
  needs: in a join the request to commit and its resolution, neither canceled
  (`Holding`), an empty queue and a timer that runs, in `start_current` a channel.
* `AroundOK` is the type of the surroundings.
* `Agreement` relates the session, the player and the messages between them.
  `BackendHasTheCurrentTrack` is not inductive. A `TrackEnd` in the mailbox is
  about the play its generation names, and `Behind` says that no play and no
  message of this actor has a generation ahead of the session's, so that an end
  with the current generation is about the current play. `FinishedIsTrue` adds
  that a finished event of the current play is true: the backend finished it.
  `EndsClean` says that an actor which ended while nothing was lost leaves no
  player and no message, so that only an earlier actor and a lost request or
  connection make the exception `OnlyOwnPlayers` of `OnlyFinishedTracksFinish`.
  `Quiet` is `QuietWhenEmpty` also while a commit joins, and `Traces` says that
  outages and earlier actors leave their trace in the bounds.

Actions are grouped by what they do to the agreement: a turn that leaves the
player alone, one that starts a track, one that clears, a request that fails, a
handler that only waits, and steps of the player. Each group has a lemma, and
each action a lemma that names its group (`NextKeeps`). Two action properties
come from the same case split: `Fair` (a track is added only for somebody who is
there) and `FinishesTruly`. Assumptions: the named assumptions of `Playback` and
`Session`, and `BoundsAssumption` (the bounds are natural numbers).

`NodeClientProofs` proves, for every set of sessions, every capacity and every
length of the socket, that `TypeOK` and `ReadyIsAnnounced` are invariants of
`NodeClient` and that `NodeClient` implements `NodeLifetime` (`Refinement`).
What a step may report depends on where the task is, so the invariant
`ClientInv` says it for every `pc`: what is published is what the task holds,
and the announced session is the one it remembers unless its loss is about to be
announced (`Remembered`); it is ready only in the awaits of a served session
(`ReadyWhen`); a socket whose ready message is read and that can still deliver
belongs to the announced session (`Greeted`); and between the ready message and
the announcement the channel speaks of no other session (`Introduced`). The last
two are why a payload is never reported before its session: the ready message
comes first on every socket. The refinement has one step per action; all but
the four that send and `Take` stutter. Assumptions: `None` is not a session,
the capacity is positive, the socket's bound is a natural number.

`RuntimeProofs` proves, for all servers, interactions, capacities and time
limits, that `TypeOK`, `MapMatchesActors` and `OnlyUnconfirmedIsDiscarded` are
invariants of `Runtime`. The last needs to know how the two clocks relate:
`Deadlines` bounds what a task has left by the deadline of its request, and
`Patience` says that an actor in its wait has more time left than its task may
still take, lookup included, so that a wait that is over finds a decided task.
It starts with `AckBudget` (the one assumption about the time limits), and a
second passes for both. `AckInv` adds that mailboxes hold only interactions that
were taken on. `LimitInv` adds to the limits that an actor which is gone has no
messages: a new actor begins with an empty mailbox because the map had forgotten
the old one (`MapMatchesActors`). Steps are grouped by what they change
(`EveryAction`), one lemma per group and conjunct.

`LineIsKept` proves the refinement of `InteractionLine`. `Enlisted` follows a
mailbox by a recursive function, of which `LinesExist` shows that it is defined
and `EnlistedLast` and `EnlistedFirst` what a message at the end and one at the
front contribute; a notice contributes nothing. So only `TakenOn` lengthens a
line, `Receive` moves its first interaction from the mailbox to the wait and
leaves it as it is, `Execute` and `Discard` take that one, and the end of an
actor's task drops all. `LineInv` adds what these steps suppose: only what was
taken on stands in a line, and an actor that awaits something is in its wait
(`Standing`); the task of an interaction is of the kind its fate calls for,
Discord holds nothing before that task asks it to, and a confirmed deferral is
one that Discord holds (`WellTold`).

`PlayerPanelProofs` proves `TypeOK`, `OneOwnedMessage` and `NeverBackwards` of
`PlayerPanel`, for every limit on deletions and every bound. `PanelInv` adds to
the first two: a message that waits for its deletion is only remembered in that
wait, so `Retire` overwrites none (`Held`); no edit is under way beside a
response (`Undisturbed`), which is what `flush_refresh` is for; and a write that
is still to come is at least as new as what the message shows, which is no newer
than the session (`NewestEdit`, `NewestResponse`, `MessagesOK`). Handlers end in
`Refresh`, `RemovePanel` or `Retire`; one lemma for each says what it leaves.
Assumption: the named one on the constants.

`PreparationProofs` proves `NoForgottenIntent` and `TypeOK` for all songs, users
and bounds; the second with the lemmas of `PlaybackProofs`. `IntentInv` adds
that an intent sits in an existing player, that a task is on its way, accepted or
failed, and that without a channel there is neither task nor target; the case
that matters is an accepted task whose epoch has passed.

`AdmissionProofs` proves, for all users, channels, roles, overwrites, texts,
answers and limits, every property the run checks of `Admission`, and of
`VoiceAccess` that the layered computation of `permissions` grants exactly what
the most specific voice in the channel says (`LayersDecide`), so that `access`
admits exactly the callers for whom that holds of all needed permissions
(`AdmitsTheGranted`).

* `TypeOK` and `ChoicesAreTheirs` follow from `Inv`: the requests that wait with
  a permit and the free permits together are all permits (`PermitsCount`), an
  entry of the result cache is stored under the channel and the words it was
  found for (`StoredByKey`), and a request that searches has been admitted to
  its channel (`Theirs`). The last two are why an entry that another caller
  filled may be offered.
* `AccessFollowsDiscord` follows from `AccessInv`. Its heart is `InStep`, which
  says of every fact there is to know of a server (its owner, each channel, role
  and user in voice) that the last event under way that tells it tells it as it
  is at Discord, and that the cache knows it as it is if no event tells it
  (`Told`). The bot's roles are apart (`RolesTold`): an event may leave them
  unknown, and a fetched membership that overtook a newer one excuses them until
  they are told again. An outage under way is followed by a GUILD_CREATE
  (`Begins`). A change at Discord appends the last teller of what it changes; a
  delivery takes the first. The theorem supposes that a server has no more users
  in voice than the cache has room for (`RoomForAll`, 10000 in the code): beyond
  that the code forgets some by design.
* `ResolutionKeepsPolicy`: the fold in `normalize` is a recursive function over
  sets of positions, of which `LoopExists` shows that it is defined and
  `LoopTurns` that it takes the tracks one at a time. `Taken` says what there is
  after k turns, by the number of playable tracks among the first k; `TurnTakes`
  is its step, and the induction over k is done by hand at the least k that would
  fail (`NeverBegins`). `OutcomesKept` carries that to the finished /play.

Assumptions: the named ones on the constants. `NoneAssumption` says that `None`
is none of the values it stands in for.

Only model-checked: liveness (`TakenOnIsDecided`, `ServiceStops` and the other
properties under fairness), which is out of the prover's reach.

## Plan

Every component whose state matters is modelled, and every invariant, action
property and refinement the passing runs check is proved as said above. What is
left is the maintenance of the proofs beside the code.

## Not modelled

Views and command definitions (formatting and constants), configuration and
service notification (parsing), the start of the backend and of the service, the
presence shown at Discord, the volume, the node's frame statistics, the last
cleanup of a panel and the ten seconds given to the whole shutdown (real time
beside the stages that are modelled), benchmarks, deployment and probes.

------------------------------ MODULE Session -------------------------------
(***************************************************************************)
(* The state one guild actor owns (GuildSession in src/src/session.rs) and *)
(* the steps of its handlers that touch nothing else, as operators from a  *)
(* session to a session.  GuildSession.tla puts them together with the     *)
(* actor's surroundings.                                                   *)
(***************************************************************************)
EXTENDS Playback

CONSTANTS
    Channels,    \* voice channels of the server
    MaxTracks,   \* Config.limits.queue
    MaxPending   \* Config.pending

ASSUME SessionAssumption ==
    /\ MaxTracks \in Nat \ {0}
    /\ MaxPending \in Nat \ {0}
    /\ None \notin Channels

Pending == [user: Users, channel: Channels, epoch: Nat, sequence: Nat]

ASSUME NoPendingAssumption == None \notin Pending

\* What became of the task start_load spawned for a request.
Loader ==
    [sequence: Nat, state: {"running", "loaded", "failed", "panicked"},
     songs: Seq(Songs)]

ASSUME NoLoaderAssumption == None \notin Loader

(***************************************************************************)
(* pc says where the actor is: in the select! of run ("idle"), or awaiting *)
(* inside a handler: the voice credentials of join ("joining"), the answer *)
(* to join's node update ("joined"), the next attempt of start_current     *)
(* ("starting"), or past the loop because the guild is gone ("leaving",    *)
(* then "gone").  committing and resolution are what commit still needs    *)
(* after an await, and failed is the local of start_current.               *)
(*                                                                         *)
(* progress is the time since progress_at: under 60 s, at least 60 s, at   *)
(* least 90 s.  idle_at and alone_at say whether the timer is set.         *)
(* credentials is the voice server the backend was last given.  canceled   *)
(* is not in the code: the newest request when everything was canceled.    *)
(***************************************************************************)
SessionState ==
    [pc: {"idle", "joining", "joined", "starting", "leaving", "gone"},
     queue: Queue,
     channel: Channels \union {None},
     credentials: Nat,
     generation: Nat, epoch: Nat, sequence: Nat,
     paused: BOOLEAN, started: BOOLEAN,
     progress: {"fresh", "sixty", "ninety"},
     idle_at: BOOLEAN, alone_at: BOOLEAN,
     pending: Seq(Pending),
     loading: Pending \union {None},
     loaders: SUBSET Loader,
     committing: Pending \union {None},
     resolution: Loader \union {None},
     failed: BOOLEAN,
     canceled: Nat]

NewSession ==
    [pc |-> "idle", queue |-> EmptyQueue, channel |-> None, credentials |-> 0,
     generation |-> 0, epoch |-> 0, sequence |-> 0,
     paused |-> FALSE, started |-> FALSE, progress |-> "fresh",
     idle_at |-> FALSE, alone_at |-> FALSE,
     pending |-> <<>>, loading |-> None, loaders |-> {},
     committing |-> None, resolution |-> None, failed |-> FALSE, canceled |-> 0]

-----------------------------------------------------------------------------
(* Requests waiting for their songs.                                       *)

Waiting(s) == Len(s.pending) + (IF s.loading = None THEN 0 ELSE 1)

Admit(s, user, channel) ==
    [s EXCEPT !.sequence = @ + 1,
              !.pending = Append(@, [user |-> user, channel |-> channel,
                                     epoch |-> s.epoch,
                                     sequence |-> s.sequence + 1])]

\* One request is resolved at a time, in the order of admission.
StartLoad(s) ==
    IF s.loading # None \/ s.pending = <<>> THEN s
    ELSE [s EXCEPT !.loading = Head(s.pending),
                   !.pending = Tail(@),
                   !.loaders = @ \union
                     {[sequence |-> Head(s.pending).sequence,
                       state |-> "running", songs |-> <<>>]}]

\* abort_all stops the running tasks; a result that is ready stays ready.
Invalidate(s) ==
    [s EXCEPT !.epoch = @ + 1,
              !.pending = <<>>,
              !.loading = None,
              !.loaders = {l \in @ : l.state # "running"}]

\* Stop's part of the session: the queue is emptied, the channel kept.
Stopped(s) ==
    [Invalidate(s) EXCEPT !.queue = Stop(@), !.paused = FALSE,
                          !.canceled = s.sequence]

\* Mutant: the alone timer survives the session it was started for.
CleanedKeepsTimer(s) ==
    [Invalidate(s) EXCEPT !.queue = EmptyQueue, !.channel = None,
                          !.credentials = 0, !.idle_at = FALSE, !.started = FALSE,
                          !.paused = FALSE, !.canceled = s.sequence]

\* cleanup without its messages to the gateway and to the backend.
Cleaned(s) ==
    [Invalidate(s) EXCEPT !.queue = EmptyQueue,
                          !.channel = None,
                          !.credentials = 0,
                          !.idle_at = FALSE,
                          !.alone_at = FALSE,
                          !.started = FALSE,
                          !.paused = FALSE,
                          !.canceled = s.sequence]

-----------------------------------------------------------------------------
(* commit and start_current.                                               *)

\* Mutant: any result is taken for the request that is being resolved.
ExpectedAny(s, loader) == s.loading # None

\* The result of a loader is for the request that is being resolved.
Expected(s, loader) == s.loading # None /\ s.loading.sequence = loader.sequence

\* Everything commit asks of the session before it joins or enqueues.
Wanted(s, pending) ==
    /\ pending.epoch = s.epoch
    /\ s.channel \in {None, pending.channel}
    /\ QueueLen(s.queue) < MaxTracks

\* The tracks of a resolution, as the request it is taken for adds them.
TracksOf(pending, resolution) ==
    [i \in DOMAIN resolution.songs |->
       [encoded |-> resolution.songs[i], requester_id |-> pending.user,
        request |-> resolution.sequence]]

\* A session without a current track must start the one it was just given.
Enqueued(s, pending, resolution) ==
    [s EXCEPT !.queue = Enqueue(@, TracksOf(pending, resolution), MaxTracks),
              !.idle_at = FALSE,
              !.committing = IF s.queue.current = None THEN pending ELSE None,
              !.resolution = None,
              !.pc = IF s.queue.current = None THEN "starting" ELSE s.pc]

Joined(s, server) ==
    [s EXCEPT !.channel = s.committing.channel, !.credentials = server,
              !.idle_at = TRUE, !.pc = "joined"]

\* The head of each round of start_current's loop.
Attempt(s) ==
    [s EXCEPT !.generation = @ + 1, !.progress = "fresh",
              !.started = FALSE, !.paused = FALSE]

\* start_current returns; commit alone still looks at the outcome.
Started(s) ==
    [s EXCEPT !.idle_at = (s.queue.current = None),
              !.failed = FALSE, !.committing = None]

\* Mutant: the idle timer is set only when the backend confirms the silence.
GivenUpSilently(s) == [s EXCEPT !.failed = FALSE, !.committing = None]

GivenUp(s) == [s EXCEPT !.idle_at = TRUE, !.failed = FALSE, !.committing = None]

AttemptFailed(s) == [s EXCEPT !.queue = Fail(@), !.failed = TRUE]

\* The queue changed under the backend: the handler goes on in start_current.
Starting(s, q) == [s EXCEPT !.queue = q, !.pc = "starting"]
=============================================================================

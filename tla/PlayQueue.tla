----------------------------- MODULE PlayQueue ------------------------------
(***************************************************************************)
(* The queue under every order of its operations, as GuildSession calls    *)
(* them: commit enqueues what one /play resolved to, backend events and    *)
(* the watchdog finish or fail the current track, and user commands edit   *)
(* the rest.                                                               *)
(***************************************************************************)
EXTENDS Playback

CONSTANTS
    MaxTracks,    \* Config.limits.queue, the admission limit
    MaxRequests   \* bound on the tracks ever requested (state space only)

ASSUME MaxTracksAssumption == MaxTracks \in Nat \ {0}

VARIABLES
    queue,
    requests,  \* how many tracks were requested so far; numbers the tracks
    streak     \* failures since a track last left `current` without failing

vars == <<queue, requests, streak>>

Init == queue = EmptyQueue /\ requests = 0 /\ streak = 0

\* One /play by user u that resolved to the songs of `songs`, in order.
Request(u, songs) ==
    LET tracks == [i \in DOMAIN songs |->
                     [encoded |-> songs[i], requester_id |-> u,
                      request |-> requests + i]]
    IN  /\ queue' = Enqueue(queue, tracks, MaxTracks)
        /\ requests' = requests + Len(songs)
        /\ streak' = IF queue.current = None THEN 0 ELSE streak

Play ==
    \E u \in Users, songs \in BoundedSeq(Songs, 2) :
        /\ songs # <<>>
        /\ requests + Len(songs) <= MaxRequests
        /\ Request(u, songs)

\* TrackEndEvent with reason finished, or the watchdog's proof of it.
TrackFinished ==
    /\ queue.current # None
    /\ queue' = Finish(queue)
    /\ streak' = 0
    /\ UNCHANGED requests

\* TrackExceptionEvent, TrackStuckEvent, loadFailed, or a refused start.
TrackFailed ==
    /\ queue.current # None
    /\ queue' = Fail(queue)
    /\ streak' = IF streak < FAILURE_LIMIT THEN streak + 1 ELSE streak
    /\ UNCHANGED requests

SkipCommand ==
    /\ queue.current # None
    /\ queue' = Skip(queue)
    /\ streak' = 0
    /\ UNCHANGED requests

PreviousCommand ==
    /\ queue' = Previous(queue, MaxTracks)
    /\ streak' = IF PreviousOutcome(queue, MaxTracks) = "Started" THEN 0 ELSE streak
    /\ UNCHANGED requests

JumpCommand ==
    \E position \in 0..MaxTracks :
        /\ queue' = Jump(queue, position)
        /\ streak' = IF queue' = queue THEN streak ELSE 0
        /\ UNCHANGED requests

LoopCommand ==
    \E mode \in LoopMode :
        /\ queue' = [queue EXCEPT !.loop_mode = mode]
        /\ UNCHANGED <<requests, streak>>

RemoveCommand ==
    \E position \in 0..MaxTracks :
        queue' = RemoveAtPosition(queue, position) /\ UNCHANGED <<requests, streak>>

MoveCommand ==
    \E from, to \in 0..MaxTracks :
        queue' = MoveTo(queue, from, to) /\ UNCHANGED <<requests, streak>>

ClearCommand == queue' = Clear(queue) /\ UNCHANGED <<requests, streak>>

ShuffleCommand == queue' \in Shuffled(queue) /\ UNCHANGED <<requests, streak>>

StopCommand == queue' = Stop(queue) /\ streak' = 0 /\ UNCHANGED requests

\* cleanup() replaces the queue with Queue::default().
Cleanup == queue' = EmptyQueue /\ streak' = 0 /\ UNCHANGED requests

Next ==
    \/ Play \/ TrackFinished \/ TrackFailed
    \/ SkipCommand \/ PreviousCommand \/ JumpCommand
    \/ LoopCommand \/ RemoveCommand \/ MoveCommand \/ ClearCommand
    \/ ShuffleCommand \/ StopCommand \/ Cleanup

Spec == Init /\ [][Next]_vars

-----------------------------------------------------------------------------
(* Type invariant of the queue and of the two history variables.           *)
TypeOK ==
    /\ queue \in Queue
    /\ requests \in Nat
    /\ streak \in 0..FAILURE_LIMIT

(* The admission limit counts the current track and binds Previous and the *)
(* queue loop as well as /play; the history stays within its own limit.    *)
WithinLimits ==
    /\ QueueLen(queue) <= MaxTracks
    /\ Len(queue.history) <= HISTORY_LIMIT

(* A queue without a current track is empty, and a queue that reached the  *)
(* failure limit has stopped: nothing waits behind a track that will never *)
(* start.  Enqueue, Previous and Jump all rely on it.                      *)
NothingWaitsBehindNothing ==
    /\ queue.current = None => queue.upcoming = <<>>
    /\ queue.consecutive_failures = FAILURE_LIMIT => queue.current = None

(* Previous undoes the natural end of a track: outside the track loop, and *)
(* when another track follows, finishing and going back restores current   *)
(* and upcoming exactly, the copy the queue loop appended included, even   *)
(* with a full queue and with other copies of the song waiting.            *)
PreviousUndoesFinish ==
    (/\ queue.current # None /\ queue.upcoming # <<>>
     /\ queue.loop_mode # "track")
    => LET back == Previous(Finish(queue), MaxTracks)
       IN  /\ back.current = queue.current
           /\ back.upcoming = queue.upcoming

(* A round of the queue loop replays every track in the same order: after  *)
(* as many natural ends as there are tracks the queue is where it was.     *)
Round(q) ==
    LET after[n \in 0..MaxTracks] == IF n = 0 THEN q ELSE Finish(after[n - 1])
    IN  after[QueueLen(q)]

QueueLoopReplaysInOrder ==
    queue.loop_mode = "queue" =>
        /\ Round(queue).current = queue.current
        /\ Round(queue).upcoming = queue.upcoming

(* What is prepared is what plays next: if a track is worth preparing, the *)
(* natural end of the current track makes it current.                      *)
PreparedTrackPlaysNext ==
    PreparationTarget(queue, TRUE) # None =>
        Finish(queue).current = PreparationTarget(queue, TRUE)

\* The songs queued for each user, as the code can tell them apart.
Keys(q) ==
    {<<t.encoded, t.requester_id>> :
        t \in ToSet(q.upcoming) \union ({q.current} \ {None})}

(* Only what the user asked for is dropped: Previous, Move, Shuffle and    *)
(* /play keep every requested song; a skip or a jump takes away at most    *)
(* the current one, and so does the natural end outside the queue loop.    *)
NoSongDroppedUnasked ==
    [][/\ PreviousCommand \/ MoveCommand \/ ShuffleCommand \/ Play
            => Keys(queue) \subseteq Keys(queue')
       /\ (SkipCommand \/ JumpCommand \/ TrackFinished) /\ queue.current # None
            => Keys(queue) \subseteq Keys(queue') \union
                 {<<queue.current.encoded, queue.current.requester_id>>}
       /\ TrackFinished /\ queue.loop_mode = "queue"
            => Keys(queue) \subseteq Keys(queue')
      ]_vars

-----------------------------------------------------------------------------
(* Claims the code does not keep.                                          *)

RequestsOf(q) ==
    {t.request : t \in ToSet(q.upcoming) \union ({q.current} \ {None})}

(* "no unrelated requested track is discarded" (by Previous, in the queue  *)
(* loop): every request queued before Previous is queued after it.         *)
PreviousKeepsEveryRequest ==
    [][PreviousCommand => RequestsOf(queue) \subseteq RequestsOf(queue')]_vars

(* "Playback stopped after three consecutive track failures": when the     *)
(* failure limit stops the queue, the last FAILURE_LIMIT tracks all failed *)
(* and none of them was left by a skip, a jump or Previous.                *)
StopsAfterConsecutiveFailures ==
    [][TrackFailed /\ queue'.consecutive_failures = FAILURE_LIMIT
         => streak' = FAILURE_LIMIT]_vars
=============================================================================

------------------------------ MODULE Playback ------------------------------
(***************************************************************************)
(* The bounded playback queue of one server: src/src/playback.rs.          *)
(*                                                                         *)
(* A queue is a value; every method of the Rust type Queue is an operator  *)
(* from a queue to a queue, so the queue can be explored by itself         *)
(* (PlayQueue) and used as a part of the session that owns it              *)
(* (GuildSession).  Track text is abstracted to what the methods compare:  *)
(* the encoded song and who requested it.                                  *)
(***************************************************************************)
EXTENDS Integers, SequencesExt

CONSTANTS
    Songs,          \* distinct `encoded` payloads
    Users,          \* distinct requester ids
    Streams,        \* songs without an end (Track.stream)
    UnknownLength,  \* finite songs whose duration_ms is the sentinel 0
    None,           \* Rust's Option::None
    HISTORY_LIMIT,  \* how many finished tracks are remembered
    FAILURE_LIMIT   \* how many failures in a row empty the queue

ASSUME LimitsAssumption ==
    /\ HISTORY_LIMIT \in Nat \ {0}
    /\ FAILURE_LIMIT \in Nat \ {0}

ASSUME SongsAssumption == Streams \subseteq Songs /\ UnknownLength \subseteq Songs

LoopMode == {"off", "track", "queue"}

(***************************************************************************)
(* `request` is not in the code: it tells apart tracks that the code sees  *)
(* as equal, so that properties can say which request was lost or          *)
(* repeated.  No operator below reads it.                                  *)
(***************************************************************************)
Track == [encoded: Songs, requester_id: Users, request: Nat]

ASSUME NoneAssumption == None \notin Track

Queue ==
    [current: Track \union {None},
     upcoming: Seq(Track),
     history: Seq(Track),
     loop_mode: LoopMode,
     consecutive_failures: 0..FAILURE_LIMIT]

EmptyQueue ==
    [current |-> None, upcoming |-> <<>>, history |-> <<>>,
     loop_mode |-> "off", consecutive_failures |-> 0]

QueueLen(q) == (IF q.current = None THEN 0 ELSE 1) + Len(q.upcoming)

-----------------------------------------------------------------------------
(* The private helpers `next` and `remember`.                              *)

Advance(q) ==
    IF q.upcoming = <<>>
    THEN [q EXCEPT !.current = None]
    ELSE [q EXCEPT !.current = Head(q.upcoming), !.upcoming = Tail(q.upcoming)]

\* The oldest track is dropped when the history outgrows its limit.
Remembered(history, track) ==
    LET longer == Append(history, track)
    IN  IF Len(longer) > HISTORY_LIMIT THEN Tail(longer) ELSE longer

Remember(q, track) == [q EXCEPT !.history = Remembered(q.history, track)]

-----------------------------------------------------------------------------
(* Admission and the three ways a track stops being the current one.       *)

\* How many of n offered tracks are admitted.
Accepted(q, n, max) ==
    LET capacity == IF QueueLen(q) < max THEN max - QueueLen(q) ELSE 0
    IN  IF n < capacity THEN n ELSE capacity

Enqueue(q, tracks, max) ==
    LET taken == SubSeq(tracks, 1, Accepted(q, Len(tracks), max))
    IN  IF q.current = None /\ taken # <<>>
        THEN [q EXCEPT !.current = Head(taken),
                       !.upcoming = @ \o Tail(taken),
                       !.consecutive_failures = 0]
        ELSE [q EXCEPT !.upcoming = @ \o taken]

\* Mutant: the queue loop appends the old track after the next one is taken.
FinishAppendsLate(q) ==
    LET next == Advance(Remember([q EXCEPT !.consecutive_failures = 0], q.current))
    IN  IF q.current = None \/ q.loop_mode = "track"
        THEN [q EXCEPT !.consecutive_failures = 0]
        ELSE IF q.loop_mode = "queue"
        THEN [next EXCEPT !.upcoming = Append(@, q.current)] ELSE next

\* The natural end of the current track; only here does the loop mode count.
Finish(q) ==
    LET done == [q EXCEPT !.consecutive_failures = 0]
        repeated == IF q.loop_mode = "queue"
                    THEN [done EXCEPT !.upcoming = Append(@, q.current)]
                    ELSE done
    IN  IF q.current = None THEN q
        ELSE IF q.loop_mode = "track" THEN done
        ELSE Advance(Remember(repeated, q.current))

\* Mutants: the streak is counted without a limit; the limit forgets upcoming.
FailWithoutLimit(q) ==
    IF q.current = None THEN q
    ELSE Advance([q EXCEPT !.consecutive_failures = @ + 1])

FailKeepsUpcoming(q) ==
    IF q.current = None THEN q
    ELSE IF q.consecutive_failures + 1 >= FAILURE_LIMIT
    THEN [q EXCEPT !.current = None, !.consecutive_failures = FAILURE_LIMIT]
    ELSE Advance([q EXCEPT !.consecutive_failures = @ + 1])

\* A failed track is not remembered and, in every loop mode, not repeated.
Fail(q) ==
    LET failures == IF q.consecutive_failures < FAILURE_LIMIT
                    THEN q.consecutive_failures + 1 ELSE FAILURE_LIMIT
        counted == [q EXCEPT !.consecutive_failures = failures]
    IN  IF q.current = None THEN q
        ELSE IF failures >= FAILURE_LIMIT
        THEN [counted EXCEPT !.current = None, !.upcoming = <<>>]
        ELSE Advance(counted)

Skip(q) ==
    IF q.current = None THEN q ELSE Advance(Remember(q, q.current))

-----------------------------------------------------------------------------
(* Going back.  In the queue loop the track to return to may still wait    *)
(* at the end of the round: that copy is taken out.                        *)

SameRequest(t, u) == t.encoded = u.encoded /\ t.requester_id = u.requester_id

\* Mutant: the first copy (position) instead of the last (rposition).
DuplicateFirst(q) ==
    IF q.loop_mode = "queue"
    THEN SelectInSeq(q.upcoming, LAMBDA t: SameRequest(t, Last(q.history)))
    ELSE 0

\* 0 when there is no copy.
Duplicate(q) ==
    IF q.loop_mode = "queue"
    THEN SelectLastInSeq(q.upcoming, LAMBDA t: SameRequest(t, Last(q.history)))
    ELSE 0

\* Mutant: no admission check, as before the fix called B7 in docs/.
PreviousOutcomeUnlimited(q, max) ==
    IF q.current = None \/ q.history = <<>> THEN "NoHistory" ELSE "Started"

PreviousOutcome(q, max) ==
    IF q.current = None \/ q.history = <<>> THEN "NoHistory"
    ELSE IF Duplicate(q) = 0 /\ QueueLen(q) >= max THEN "Full"
    ELSE "Started"

\* Mutant: a full queue makes room by dropping its last track.
PreviousMakesRoom(q, max) ==
    IF q.current = None \/ q.history = <<>> THEN q
    ELSE [q EXCEPT !.history = Front(@),
                   !.upcoming = <<q.current>> \o
                                  (IF QueueLen(q) >= max THEN Front(@) ELSE @),
                   !.current = Last(q.history)]

Previous(q, max) ==
    LET d == Duplicate(q)
        rest == IF d = 0 THEN q.upcoming ELSE RemoveAt(q.upcoming, d)
    IN  IF PreviousOutcome(q, max) # "Started" THEN q
        ELSE [q EXCEPT !.history = Front(@),
                       !.upcoming = <<q.current>> \o rest,
                       !.current = Last(q.history)]

-----------------------------------------------------------------------------
(* Edits of the upcoming tracks; positions count from one.                 *)

ValidPosition(q, position) == position \in 1..Len(q.upcoming)

RemoveAtPosition(q, position) ==
    IF ValidPosition(q, position)
    THEN [q EXCEPT !.upcoming = RemoveAt(@, position)] ELSE q

MoveTo(q, from, to) ==
    IF ValidPosition(q, from) /\ ValidPosition(q, to)
    THEN [q EXCEPT !.upcoming =
                     InsertAt(RemoveAt(@, from), to, q.upcoming[from])]
    ELSE q

Jump(q, position) ==
    IF q.current = None \/ ~ValidPosition(q, position) THEN q
    ELSE [Remember(RemoveAtPosition(q, position), q.current)
            EXCEPT !.current = q.upcoming[position]]

Orders(n) == {p \in [1..n -> 1..n] : \A i, j \in 1..n : p[i] = p[j] => i = j}

\* The queues a shuffle may produce.
Shuffled(q) ==
    {[q EXCEPT !.upcoming = [i \in DOMAIN q.upcoming |-> q.upcoming[p[i]]]] :
        p \in Orders(Len(q.upcoming))}

Clear(q) == [q EXCEPT !.upcoming = <<>>]

\* The loop mode survives.
Stop(q) ==
    [q EXCEPT !.current = None, !.upcoming = <<>>, !.history = <<>>,
              !.consecutive_failures = 0]

-----------------------------------------------------------------------------
(* The track worth preparing while the current one plays; `near` stands    *)
(* for at most 45 seconds remaining.                                       *)

\* Mutant: prepares the successor of a track that will repeat.
PreparationTargetInTrackLoop(q, near) ==
    IF \/ q.current = None
       \/ q.current.encoded \in Streams \union UnknownLength
       \/ ~near
       \/ q.upcoming = <<>>
       \/ Head(q.upcoming).encoded \in Streams \union {q.current.encoded}
    THEN None
    ELSE Head(q.upcoming)

PreparationTarget(q, near) ==
    IF \/ q.current = None
       \/ q.current.encoded \in Streams \union UnknownLength
       \/ q.loop_mode = "track"
       \/ ~near
       \/ q.upcoming = <<>>
       \/ Head(q.upcoming).encoded \in Streams \union {q.current.encoded}
    THEN None
    ELSE Head(q.upcoming)
=============================================================================

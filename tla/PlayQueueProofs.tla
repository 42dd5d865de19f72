--------------------------- MODULE PlayQueueProofs --------------------------
(***************************************************************************)
(* What the runs of PlayQueue check on a small instance, proved for every  *)
(* set of songs and users and every value of the limits.                   *)
(*                                                                         *)
(* QueueInv is inductive: each queue method maps a good queue to a good    *)
(* queue (PlaybackProofs), and the step lemma only instantiates that.  The *)
(* other properties are about what a method does to a good queue: going    *)
(* back, keeping every song, and the round of the queue loop.              *)
(***************************************************************************)
EXTENDS PlayQueue, PlaybackProofs, FunctionTheorems, FiniteSetTheorems

QueueInv ==
    Good(queue, Track, MaxTracks) /\ requests \in Nat /\ streak \in 0..FAILURE_LIMIT

LEMMA QueueOfTracks == QueueOf(Track) = Queue
BY DEF QueueOf, Queue

-----------------------------------------------------------------------------
(* The inductive invariant and what follows from it.                       *)

LEMMA InitInv == Init => QueueInv
BY EmptyQueueGood, LimitsAssumption, MaxTracksAssumption DEF Init, QueueInv

LEMMA PlayEnqueues ==
    ASSUME QueueInv, Play
    PROVE  /\ \E tracks \in Seq(Track) : queue' = Enqueue(queue, tracks, MaxTracks)
           /\ requests' \in Nat /\ streak' \in 0..FAILURE_LIMIT
<1>1. PICK u \in Users, songs \in BoundedSeq(Songs, 2) : Request(u, songs)
  BY DEF Play
<1>2. PICK m \in 0..2 : songs \in [1..m -> Songs]
  BY <1>1 DEF BoundedSeq, SeqOf
<1>3. Len(songs) \in Nat /\ DOMAIN songs = 1..m
  BY <1>2, SeqDef
<1>. DEFINE tracks == [i \in 1..m |->
                         [encoded |-> songs[i], requester_id |-> u,
                          request |-> requests + i]]
<1>4. tracks \in [1..m -> Track]
  BY <1>2 DEF Track, QueueInv
<1>5. tracks \in Seq(Track)
  BY <1>4, SeqDef
<1>6. queue' = Enqueue(queue, tracks, MaxTracks) /\ requests' = requests + Len(songs)
  BY <1>1, <1>3 DEF Request
<1>7. streak' \in 0..FAILURE_LIMIT
  BY <1>1, LimitsAssumption DEF Request, QueueInv
<1>. HIDE DEF tracks
<1>. QED  BY <1>3, <1>5, <1>6, <1>7 DEF QueueInv

LEMMA PlayInv ==
    ASSUME QueueInv, Play
    PROVE  QueueInv'
BY PlayEnqueues, EnqueueGood, MaxTracksAssumption DEF QueueInv

LEMMA StepInv == QueueInv /\ [Next]_vars => QueueInv'
<1>. SUFFICES ASSUME QueueInv, [Next]_vars
              PROVE  QueueInv'
  OBVIOUS
<1>. USE LimitsAssumption, MaxTracksAssumption
<1>1. CASE Play
  BY <1>1, PlayInv
<1>2. CASE TrackFinished
  BY <1>2, FinishGood DEF TrackFinished, QueueInv
<1>3. CASE TrackFailed
  BY <1>3, FailGood DEF TrackFailed, QueueInv
<1>4. CASE SkipCommand
  BY <1>4, SkipGood DEF SkipCommand, QueueInv
<1>5. CASE PreviousCommand
  BY <1>5, PreviousGood DEF PreviousCommand, QueueInv
<1>6. CASE JumpCommand
  BY <1>6, JumpGood DEF JumpCommand, QueueInv
<1>7. CASE LoopCommand
  <2>1. PICK mode \in LoopMode : queue' = [queue EXCEPT !.loop_mode = mode]
    BY <1>7 DEF LoopCommand
  <2>2. Good(queue', Track, MaxTracks)
    BY <2>1, LoopGood DEF QueueInv
  <2>. QED  BY <1>7, <2>2 DEF LoopCommand, QueueInv
<1>8. CASE RemoveCommand
  BY <1>8, RemoveGood DEF RemoveCommand, QueueInv
<1>9. CASE MoveCommand
  BY <1>9, MoveGood DEF MoveCommand, QueueInv
<1>10. CASE ClearCommand
  BY <1>10, ClearGood DEF ClearCommand, QueueInv
<1>11. CASE ShuffleCommand
  BY <1>11, ShuffledGood DEF ShuffleCommand, QueueInv
<1>12. CASE StopCommand
  BY <1>12, StopGood DEF StopCommand, QueueInv
<1>13. CASE Cleanup
  BY <1>13, EmptyQueueGood DEF Cleanup, QueueInv
<1>14. CASE UNCHANGED vars
  BY <1>14 DEF vars, QueueInv, Good, QueueLen
<1>. QED
  BY <1>1, <1>2, <1>3, <1>4, <1>5, <1>6, <1>7, <1>8, <1>9, <1>10, <1>11,
     <1>12, <1>13, <1>14 DEF Next

LEMMA Invariance == Spec => []QueueInv
BY InitInv, StepInv, PTL DEF Spec

(* The queue keeps the types of src/src/playback.rs, the failure counter   *)
(* (a u8 there) within the failure limit.                                  *)
THEOREM TypeCorrect == Spec => []TypeOK
<1>1. QueueInv => TypeOK
  BY QueueOfTracks DEF QueueInv, Good, TypeOK
<1>. QED  BY <1>1, Invariance, PTL

(* No sequence of requests, ends, failures and commands takes the queue    *)
(* past its admission limit or its history past its own.                   *)
THEOREM AdmissionIsBounded == Spec => []WithinLimits
<1>1. QueueInv => WithinLimits
  BY DEF QueueInv, Good, WithinLimits
<1>. QED  BY <1>1, Invariance, PTL

(* A queue with nothing current is empty, and the failure limit stops it.  *)
THEOREM StoppedQueueIsEmpty == Spec => []NothingWaitsBehindNothing
<1>1. QueueInv => NothingWaitsBehindNothing
  BY DEF QueueInv, Good, NothingWaitsBehindNothing
<1>. QED  BY <1>1, Invariance, PTL

(* What prepare_next asks the audio service to prepare is the track that   *)
(* the natural end of the current one starts.                              *)
THEOREM PreparationIsForTheSuccessor == Spec => []PreparedTrackPlaysNext
<1>1. ASSUME QueueInv
      PROVE  PreparedTrackPlaysNext
  <2>. SUFFICES ASSUME PreparationTarget(queue, TRUE) # None
                PROVE  Finish(queue).current = PreparationTarget(queue, TRUE)
    BY DEF PreparedTrackPlaysNext
  <2>1. /\ queue.current # None /\ queue.loop_mode # "track"
        /\ queue.upcoming # <<>>
        /\ PreparationTarget(queue, TRUE) = Head(queue.upcoming)
    BY DEF PreparationTarget
  <2>2. /\ queue \in Queue /\ queue.upcoming \in Seq(Track)
        /\ queue.current \in Track
    BY <1>1, <2>1, QueueOfTracks DEF QueueInv, Good, Queue
  <2>3. CASE queue.loop_mode = "queue"
    <3>. DEFINE u == Append(queue.upcoming, queue.current)
                repeated == [queue EXCEPT !.consecutive_failures = 0, !.upcoming = u]
    <3>1. u # <<>> /\ Head(u) = Head(queue.upcoming)
      BY <2>1, <2>2, AppendProperties, HeadTailAppend
    <3>2. Finish(queue) = Advance(Remember(repeated, queue.current))
      BY <2>1, <2>2, <2>3 DEF Finish, Queue
    <3>. HIDE DEF u
    <3>3. Remember(repeated, queue.current).upcoming = u
      BY <2>2 DEF Remember, Queue
    <3>. DEFINE r == Remember(repeated, queue.current)
    <3>4. DOMAIN r = DOMAIN queue /\ "current" \in DOMAIN queue
      BY <2>2 DEF Remember, Queue
    <3>. HIDE DEF r
    <3>5. Advance(r).current = Head(r.upcoming)
      BY <3>1, <3>3, <3>4 DEF Advance, r
    <3>. QED  BY <2>1, <3>1, <3>2, <3>3, <3>5 DEF r
  <2>4. CASE queue.loop_mode # "queue"
    BY <2>1, <2>2, <2>4 DEF Finish, Advance, Remember, Queue
  <2>. QED  BY <2>3, <2>4
<1>. QED  BY <1>1, Invariance, PTL

-----------------------------------------------------------------------------
(* Going back: what Finish leaves, and what Previous makes of it.          *)

(* Whatever the limit dropped, the track remembered last is the last one.  *)
LEMMA RememberedLast ==
    ASSUME NEW h \in Seq(Track), NEW t \in Track
    PROVE  Remembered(h, t) # <<>> /\ Last(Remembered(h, t)) = t
<1>. DEFINE longer == Append(h, t)
<1>1. /\ longer \in Seq(Track) /\ longer # <<>> /\ Len(longer) = Len(h) + 1
      /\ longer[Len(h) + 1] = t /\ Len(h) \in Nat
  BY AppendProperties
<1>. HIDE DEF longer
<1>2. Remembered(h, t) = IF Len(longer) > HISTORY_LIMIT THEN Tail(longer) ELSE longer
  BY DEF Remembered, longer
<1>3. CASE Len(longer) > HISTORY_LIMIT
  <2>1. /\ Tail(longer) \in Seq(Track) /\ Len(Tail(longer)) = Len(h)
        /\ \A i \in 1..Len(Tail(longer)) : Tail(longer)[i] = longer[i + 1]
    BY <1>1, HeadTailProperties
  <2>2. Len(h) \in 1..Len(Tail(longer))
    BY <1>1, <1>3, <2>1, LimitsAssumption
  <2>3. Tail(longer) # <<>>
    BY <2>1, <2>2, EmptySeq
  <2>. QED  BY <1>1, <1>2, <1>3, <2>1, <2>2, <2>3 DEF Last
<1>4. CASE ~(Len(longer) > HISTORY_LIMIT)
  BY <1>1, <1>2, <1>4 DEF Last
<1>. QED  BY <1>3, <1>4

(* Outside the track loop a natural end takes the next track of a queue    *)
(* that first remembered the old one and, in the queue loop, repeated it.  *)
LEMMA FinishTakesTheNext ==
    ASSUME NEW q, Good(q, Track, MaxTracks),
           q.current # None, q.loop_mode # "track"
    PROVE  \E kept \in Queue :
             /\ Finish(q) = Advance(kept)
             /\ kept.current = q.current
             /\ kept.upcoming = IF q.loop_mode = "queue"
                                THEN Append(q.upcoming, q.current) ELSE q.upcoming
             /\ kept.history = Remembered(q.history, q.current)
             /\ kept.loop_mode = q.loop_mode
<1>. DEFINE u == IF q.loop_mode = "queue" THEN Append(q.upcoming, q.current)
                 ELSE q.upcoming
            done == [q EXCEPT !.consecutive_failures = 0, !.upcoming = u]
            kept == Remember(done, q.current)
<1>1. /\ q \in Queue /\ q.upcoming \in Seq(Track) /\ q.current \in Track
      /\ Len(q.history) <= HISTORY_LIMIT
  BY QueueOfTracks DEF Good, Queue
<1>2. Finish(q) = Advance(kept)
  <2>1. CASE q.loop_mode = "queue"
    BY <1>1, <2>1 DEF Finish, Queue
  <2>2. CASE q.loop_mode # "queue"
    <3>1. [q EXCEPT !.consecutive_failures = 0] = done
      BY <1>1, <2>2 DEF Queue
    <3>. QED  BY <2>2, <3>1 DEF Finish
  <2>. QED  BY <2>1, <2>2
<1>3. u \in Seq(Track)
  BY <1>1, AppendProperties
<1>. HIDE DEF u
<1>4. /\ done \in Queue /\ done.current = q.current /\ done.upcoming = u
      /\ done.history = q.history /\ done.loop_mode = q.loop_mode
  <2>1. 0 \in 0..FAILURE_LIMIT
    BY LimitsAssumption
  <2>2. done \in Queue
    BY <1>1, <1>3, <2>1 DEF Queue
  <2>. QED  BY <1>1, <2>2 DEF Queue
<1>. HIDE DEF done
<1>5. kept \in Queue
  BY <1>1, <1>4, RememberType, QueueOfTracks
<1>6. /\ kept.current = q.current /\ kept.upcoming = u
      /\ kept.history = Remembered(q.history, q.current)
      /\ kept.loop_mode = q.loop_mode
  BY <1>4 DEF Remember, Queue
<1>. HIDE DEF kept
<1>. QED  BY <1>2, <1>5, <1>6 DEF u

(* The natural end of a track that another one follows.                    *)
LEMMA FinishAdvances ==
    ASSUME NEW q, Good(q, Track, MaxTracks),
           q.current # None, q.upcoming # <<>>, q.loop_mode # "track"
    PROVE  /\ Finish(q) \in Queue
           /\ Finish(q).current = Head(q.upcoming)
           /\ Finish(q).upcoming = IF q.loop_mode = "queue"
                                   THEN Append(Tail(q.upcoming), q.current)
                                   ELSE Tail(q.upcoming)
           /\ Finish(q).history = Remembered(q.history, q.current)
           /\ Finish(q).loop_mode = q.loop_mode
<1>. DEFINE u == IF q.loop_mode = "queue" THEN Append(q.upcoming, q.current)
                 ELSE q.upcoming
<1>1. q.upcoming \in Seq(Track) /\ q.current \in Track
  BY DEF Good, QueueOf
<1>2. /\ u # <<>> /\ Head(u) = Head(q.upcoming)
      /\ Tail(u) = IF q.loop_mode = "queue"
                   THEN Append(Tail(q.upcoming), q.current)
                   ELSE Tail(q.upcoming)
  BY <1>1, AppendProperties, HeadTailAppend
<1>3. PICK kept \in Queue :
             /\ Finish(q) = Advance(kept)
             /\ kept.current = q.current
             /\ kept.upcoming = u
             /\ kept.history = Remembered(q.history, q.current)
             /\ kept.loop_mode = q.loop_mode
  BY FinishTakesTheNext
<1>. HIDE DEF u
<1>4. /\ Advance(kept).current = Head(u) /\ Advance(kept).upcoming = Tail(u)
      /\ Advance(kept).history = kept.history
      /\ Advance(kept).loop_mode = kept.loop_mode
  BY <1>2, <1>3 DEF Advance, Queue
<1>5. Finish(q) \in Queue
  BY FinishGood, QueueOfTracks, MaxTracksAssumption DEF Good
<1>. QED  BY <1>2, <1>3, <1>4, <1>5

(* The copy that waits at the end of the round is the one Previous finds.  *)
LEMMA LastCopyIsFound ==
    ASSUME NEW q, NEW s \in Seq(Track), NEW t \in Track,
           q.upcoming = Append(s, t), q.loop_mode = "queue", Last(q.history) = t
    PROVE  Duplicate(q) = Len(s) + 1 /\ RemoveAt(q.upcoming, Duplicate(q)) = s
<1>1. /\ q.upcoming \in Seq(Track) /\ Len(q.upcoming) = Len(s) + 1
      /\ q.upcoming[Len(s) + 1] = t /\ Len(s) \in Nat
      /\ \A i \in 1..Len(s) : q.upcoming[i] = s[i]
  BY AppendProperties
<1>. DEFINE n == Len(s) + 1
            Copies == {i \in 1..Len(q.upcoming) :
                         SameRequest(q.upcoming[i], Last(q.history))}
<1>2. n \in Copies /\ n \in Nat /\ Copies \subseteq 1..n
  BY <1>1 DEF SameRequest
<1>3. Duplicate(q) = IF Copies # {} THEN Max(Copies) ELSE 0
  BY DEF Duplicate, SelectLastInSeq
<1>. HIDE DEF Copies
<1>4. Max(Copies) = n
  <2>1. \A j \in Copies : n >= j
    BY <1>2
  <2>2. \A i \in Copies : (\A j \in Copies : i >= j) => i = n
    BY <1>2
  <2>. HIDE DEF n
  <2>. QED  BY <1>2, <2>1, <2>2 DEF Max
<1>5. Duplicate(q) = n
  BY <1>2, <1>3, <1>4
<1>6. RemoveAt(q.upcoming, n) = s
  <2>. DEFINE before == SubSeq(q.upcoming, 1, Len(s))
  <2>1. \A i \in 1..Len(s) : q.upcoming[i] \in Track
    BY <1>1, ElementOfSeq
  <2>2. /\ before \in Seq(Track)
        /\ Len(before) = IF 1 <= Len(s) THEN Len(s) - 1 + 1 ELSE 0
        /\ \A i \in 1..(Len(s) - 1 + 1) : before[i] = q.upcoming[1 + i - 1]
    BY <1>1, <2>1, SubSeqProperties
  <2>. HIDE DEF before
  <2>3. Len(before) = Len(s) /\ \A i \in 1..Len(s) : before[i] = s[i]
    BY <1>1, <2>2
  <2>4. before = s
    BY <2>2, <2>3, SeqEqual
  <2>5. SubSeq(q.upcoming, n + 1, n) = <<>>
    BY <1>1, SubSeqEmpty
  <2>6. n - 1 = Len(s) /\ Len(q.upcoming) = n
    BY <1>1
  <2>7. RemoveAt(q.upcoming, n) = before \o <<>>
    BY <2>5, <2>6 DEF RemoveAt, before
  <2>. QED  BY <2>4, <2>7, ConcatEmptySeq
<1>. QED  BY <1>5, <1>6

(* Finishing and going back restores what plays and what waits, for every  *)
(* limit and however many copies of a song are queued: the copy the queue  *)
(* loop appended is the one Previous takes out, and its slot is the one    *)
(* that makes going back fit into a full queue.                            *)
THEOREM GoingBackUndoesTheEnd == Spec => []PreviousUndoesFinish
<1>1. ASSUME QueueInv
      PROVE  PreviousUndoesFinish
  <2>. SUFFICES ASSUME queue.current # None, queue.upcoming # <<>>,
                       queue.loop_mode # "track"
                PROVE  LET back == Previous(Finish(queue), MaxTracks)
                       IN  /\ back.current = queue.current
                           /\ back.upcoming = queue.upcoming
    BY DEF PreviousUndoesFinish
  <2>. DEFINE f == Finish(queue)
              head == Head(queue.upcoming)
              tail == Tail(queue.upcoming)
              rest == IF Duplicate(f) = 0 THEN f.upcoming
                      ELSE RemoveAt(f.upcoming, Duplicate(f))
  <2>0. Good(queue, Track, MaxTracks)
    BY <1>1 DEF QueueInv
  <2>1. /\ queue.upcoming \in Seq(Track) /\ queue.history \in Seq(Track)
        /\ queue.current \in Track /\ queue.loop_mode \in LoopMode
        /\ Len(queue.upcoming) + 1 <= MaxTracks /\ Len(queue.upcoming) \in Nat
    BY <2>0, GoodCurrent, MaxTracksAssumption DEF QueueOf
  <2>2. /\ f \in Queue /\ f.current = head
        /\ f.upcoming = IF queue.loop_mode = "queue"
                        THEN Append(tail, queue.current) ELSE tail
        /\ f.history = Remembered(queue.history, queue.current)
        /\ f.loop_mode = queue.loop_mode
    BY <2>0, FinishAdvances
  <2>3. head \in Track /\ tail \in Seq(Track) /\ Len(tail) = Len(queue.upcoming) - 1
    BY <2>1, HeadTailProperties
  <2>4. f.history # <<>> /\ Last(f.history) = queue.current
    BY <2>1, <2>2, RememberedLast
  <2>5. f.current = head /\ f.current # None
    BY <2>2, <2>3, NoneAssumption
  <2>6. rest = tail /\ ~(Duplicate(f) = 0 /\ QueueLen(f) >= MaxTracks)
    <3>1. CASE queue.loop_mode = "queue"
      <4>1. f.upcoming = Append(tail, queue.current) /\ f.loop_mode = "queue"
        BY <2>2, <3>1
      <4>. HIDE DEF f, tail
      <4>2. /\ Duplicate(f) = Len(tail) + 1
            /\ RemoveAt(f.upcoming, Duplicate(f)) = tail
        BY <2>1, <2>3, <2>4, <4>1, LastCopyIsFound
      <4>. QED  BY <2>1, <2>3, <4>2
    <3>2. CASE queue.loop_mode # "queue"
      <4>1. f.upcoming = tail /\ Duplicate(f) = 0
        BY <2>2, <3>2 DEF Duplicate
      <4>2. QueueLen(f) = Len(queue.upcoming)
        BY <2>1, <2>3, <2>5, <4>1 DEF QueueLen
      <4>. HIDE DEF f, tail
      <4>. QED  BY <2>1, <4>1, <4>2, MaxTracksAssumption
    <3>. QED  BY <3>1, <3>2
  <2>7. "upcoming" \in DOMAIN f /\ "current" \in DOMAIN f
    BY <2>2 DEF Queue
  <2>. HIDE DEF f
  <2>8. PreviousOutcome(f, MaxTracks) = "Started"
    BY <2>4, <2>5, <2>6 DEF PreviousOutcome
  <2>9. Previous(f, MaxTracks) = [f EXCEPT !.history = Front(@),
                                           !.upcoming = <<f.current>> \o rest,
                                           !.current = Last(f.history)]
    BY <2>8 DEF Previous
  <2>. HIDE DEF rest
  <2>10. /\ Previous(f, MaxTracks).current = queue.current
         /\ Previous(f, MaxTracks).upcoming = <<head>> \o tail
    BY <2>4, <2>5, <2>6, <2>7, <2>9
  <2>11. <<head>> \o tail = queue.upcoming
    <3>1. /\ <<head>> \in Seq(Track) /\ Len(<<head>>) = 1 /\ <<head>>[1] = head
          /\ head = queue.upcoming[1]
      BY <2>1, <2>3
    <3>2. \A i \in 1..Len(tail) : tail[i] = queue.upcoming[i + 1]
      BY <2>1, HeadTailProperties
    <3>. HIDE DEF head, tail
    <3>. DEFINE both == <<head>> \o tail
    <3>3. /\ both \in Seq(Track) /\ Len(both) = 1 + Len(tail)
          /\ \A i \in 1..(1 + Len(tail)) :
                both[i] = IF i <= 1 THEN <<head>>[i] ELSE tail[i - 1]
      BY <2>3, <3>1, ConcatProperties
    <3>. HIDE DEF both
    <3>4. \A i \in 1..Len(both) : both[i] = queue.upcoming[i]
      BY <2>1, <2>3, <3>1, <3>2, <3>3
    <3>5. both = queue.upcoming
      BY <2>1, <2>3, <3>3, <3>4, SeqEqual
    <3>. QED  BY <3>5 DEF both
  <2>. QED  BY <2>10, <2>11 DEF f
<1>. QED  BY <1>1, Invariance, PTL

-----------------------------------------------------------------------------
(* Which tracks an operation keeps, and so which songs.                    *)

Queued(q) == ToSet(q.upcoming) \union ({q.current} \ {None})

Key(t) == <<t.encoded, t.requester_id>>

(* A song is kept when its track is.                                       *)
LEMMA KeptTracksKeepSongs ==
    ASSUME NEW q, NEW r, Queued(q) \subseteq Queued(r)
    PROVE  Keys(q) \subseteq Keys(r)
BY DEF Keys, Queued

LEMMA KeptButCurrent ==
    ASSUME NEW q, NEW r, Queued(q) \subseteq Queued(r) \union {q.current}
    PROVE  Keys(q) \subseteq
             Keys(r) \union {<<q.current.encoded, q.current.requester_id>>}
BY DEF Keys, Queued

LEMMA ElementsOf ==
    ASSUME NEW S, NEW s \in Seq(S)
    PROVE  /\ ToSet(s) = {s[i] : i \in 1..Len(s)}
           /\ Len(s) \in Nat
BY LenProperties DEF ToSet

LEMMA ConcatElements ==
    ASSUME NEW S, NEW s \in Seq(S), NEW t \in Seq(S)
    PROVE  ToSet(s \o t) = ToSet(s) \union ToSet(t)
<1>. DEFINE both == s \o t
<1>1. /\ both \in Seq(S) /\ Len(both) = Len(s) + Len(t)
      /\ \A i \in 1..(Len(s) + Len(t)) :
           both[i] = IF i <= Len(s) THEN s[i] ELSE t[i - Len(s)]
  BY ConcatProperties
<1>. HIDE DEF both
<1>2. /\ ToSet(both) = {both[i] : i \in 1..Len(both)}
      /\ ToSet(s) = {s[i] : i \in 1..Len(s)}
      /\ ToSet(t) = {t[i] : i \in 1..Len(t)}
      /\ Len(s) \in Nat /\ Len(t) \in Nat
  BY <1>1, ElementsOf
<1>3. ASSUME NEW i \in 1..Len(both)
      PROVE  both[i] \in ToSet(s) \union ToSet(t)
  <2>1. CASE i <= Len(s)
    BY <1>1, <1>2, <2>1
  <2>2. CASE ~(i <= Len(s))
    <3>1. i - Len(s) \in 1..Len(t)
      BY <1>1, <1>2, <2>2
    <3>. QED  BY <1>1, <1>2, <2>2, <3>1
  <2>. QED  BY <2>1, <2>2
<1>4. ASSUME NEW i \in 1..Len(s)
      PROVE  s[i] \in ToSet(both)
  <2>1. i \in 1..Len(both) /\ both[i] = s[i]
    BY <1>1, <1>2
  <2>. QED  BY <1>2, <2>1
<1>5. ASSUME NEW i \in 1..Len(t)
      PROVE  t[i] \in ToSet(both)
  <2>1. i + Len(s) \in 1..Len(both) /\ ~(i + Len(s) <= Len(s))
        /\ (i + Len(s)) - Len(s) = i
    BY <1>1, <1>2
  <2>2. both[i + Len(s)] = t[i]
    BY <1>1, <2>1
  <2>. QED  BY <1>2, <2>1, <2>2
<1>6. ToSet(both) = ToSet(s) \union ToSet(t)
  BY <1>2, <1>3, <1>4, <1>5
<1>. QED  BY <1>6 DEF both

LEMMA SubSeqElements ==
    ASSUME NEW S, NEW s \in Seq(S), NEW m \in 1..(Len(s) + 1), NEW n \in 0..Len(s)
    PROVE  /\ SubSeq(s, m, n) \in Seq(S)
           /\ \A i \in m..n : s[i] \in ToSet(SubSeq(s, m, n))
<1>. DEFINE sub == SubSeq(s, m, n)
<1>1. Len(s) \in Nat /\ m \in Int /\ n \in Int
  BY ElementsOf
<1>2. \A i \in m..n : s[i] \in S
  BY <1>1, ElementOfSeq
<1>3. /\ sub \in Seq(S)
      /\ Len(sub) = IF m <= n THEN n - m + 1 ELSE 0
      /\ \A i \in 1..(n - m + 1) : sub[i] = s[m + i - 1]
  BY <1>1, <1>2, SubSeqProperties
<1>. HIDE DEF sub
<1>4. ToSet(sub) = {sub[i] : i \in 1..Len(sub)}
  BY <1>3, ElementsOf
<1>5. ASSUME NEW i \in m..n
      PROVE  s[i] \in ToSet(sub)
  <2>1. i - m + 1 \in 1..Len(sub) /\ i - m + 1 \in 1..(n - m + 1)
        /\ m + (i - m + 1) - 1 = i
    BY <1>1, <1>3
  <2>2. sub[i - m + 1] = s[i]
    BY <1>3, <2>1
  <2>. QED  BY <1>4, <2>1, <2>2
<1>. QED  BY <1>3, <1>5 DEF sub

LEMMA RemoveAtElements ==
    ASSUME NEW S, NEW s \in Seq(S), NEW i \in 1..Len(s)
    PROVE  ToSet(s) \subseteq ToSet(RemoveAt(s, i)) \union {s[i]}
<1>. DEFINE before == SubSeq(s, 1, i - 1)
            after == SubSeq(s, i + 1, Len(s))
<1>1. /\ Len(s) \in Nat /\ ToSet(s) = {s[j] : j \in 1..Len(s)}
  BY ElementsOf
<1>2. before \in Seq(S) /\ \A j \in 1..(i - 1) : s[j] \in ToSet(before)
  BY <1>1, SubSeqElements
<1>3. after \in Seq(S) /\ \A j \in (i + 1)..Len(s) : s[j] \in ToSet(after)
  BY <1>1, SubSeqElements
<1>4. RemoveAt(s, i) = before \o after
  BY DEF RemoveAt
<1>. HIDE DEF before, after
<1>5. ToSet(RemoveAt(s, i)) = ToSet(before) \union ToSet(after)
  BY <1>2, <1>3, <1>4, ConcatElements
<1>6. ASSUME NEW j \in 1..Len(s)
      PROVE  s[j] \in ToSet(RemoveAt(s, i)) \union {s[i]}
  <2>1. j = i \/ j \in 1..(i - 1) \/ j \in (i + 1)..Len(s)
    BY <1>1
  <2>. QED  BY <1>2, <1>3, <1>5, <2>1
<1>. QED  BY <1>1, <1>6

LEMMA InsertAtElements ==
    ASSUME NEW S, NEW s \in Seq(S), NEW i \in 1..(Len(s) + 1), NEW e \in S
    PROVE  ToSet(s) \union {e} \subseteq ToSet(InsertAt(s, i, e))
<1>. DEFINE before == SubSeq(s, 1, i - 1)
            after == SubSeq(s, i, Len(s))
            one == <<e>>
            longer == before \o one
<1>1. /\ Len(s) \in Nat /\ ToSet(s) = {s[j] : j \in 1..Len(s)}
  BY ElementsOf
<1>2. before \in Seq(S) /\ \A j \in 1..(i - 1) : s[j] \in ToSet(before)
  BY <1>1, SubSeqElements
<1>3. after \in Seq(S) /\ \A j \in i..Len(s) : s[j] \in ToSet(after)
  BY <1>1, SubSeqElements
<1>4. one \in Seq(S) /\ e \in ToSet(one)
  BY DEF ToSet
<1>5. InsertAt(s, i, e) = longer \o after
  BY DEF InsertAt
<1>. HIDE DEF before, after, one
<1>6. longer \in Seq(S) /\ ToSet(longer) = ToSet(before) \union ToSet(one)
  BY <1>2, <1>4, ConcatElements, ConcatType
<1>. HIDE DEF longer
<1>7. ToSet(InsertAt(s, i, e)) = ToSet(longer) \union ToSet(after)
  BY <1>3, <1>5, <1>6, ConcatElements
<1>8. ASSUME NEW j \in 1..Len(s)
      PROVE  s[j] \in ToSet(InsertAt(s, i, e))
  <2>1. j \in 1..(i - 1) \/ j \in i..Len(s)
    BY <1>1
  <2>. QED  BY <1>2, <1>3, <1>6, <1>7, <2>1
<1>. QED  BY <1>1, <1>4, <1>6, <1>7, <1>8

LEMMA HeadTailElements ==
    ASSUME NEW S, NEW s \in Seq(S), s # <<>>
    PROVE  ToSet(s) = {Head(s)} \union ToSet(Tail(s))
<1>1. /\ Tail(s) \in Seq(S) /\ Len(Tail(s)) = Len(s) - 1 /\ Len(s) \in Nat \ {0}
      /\ \A i \in 1..Len(Tail(s)) : Tail(s)[i] = s[i + 1]
      /\ Head(s) = s[1]
  BY HeadTailProperties, EmptySeq
<1>. DEFINE tail == Tail(s)
<1>. HIDE DEF tail
<1>2. /\ tail \in Seq(S) /\ Len(tail) = Len(s) - 1
      /\ \A i \in 1..Len(tail) : tail[i] = s[i + 1]
  BY <1>1 DEF tail
<1>3. /\ ToSet(s) = {s[j] : j \in 1..Len(s)}
      /\ ToSet(tail) = {tail[j] : j \in 1..Len(tail)}
  BY <1>2, ElementsOf
<1>4. ASSUME NEW j \in 1..Len(s)
      PROVE  s[j] \in {Head(s)} \union ToSet(tail)
  <2>1. CASE j = 1
    BY <1>1, <2>1
  <2>2. CASE j # 1
    <3>1. j - 1 \in 1..Len(tail) /\ (j - 1) + 1 = j
      BY <1>1, <1>2, <2>2
    <3>2. tail[j - 1] = s[j]
      BY <1>2, <3>1
    <3>. QED  BY <1>3, <3>1, <3>2
  <2>. QED  BY <2>1, <2>2
<1>5. ASSUME NEW j \in 1..Len(tail)
      PROVE  tail[j] \in ToSet(s)
  <2>1. j + 1 \in 1..Len(s) /\ tail[j] = s[j + 1]
    BY <1>1, <1>2
  <2>. QED  BY <1>3, <2>1
<1>6. Head(s) \in ToSet(s)
  <2>1. 1 \in 1..Len(s)
    BY <1>1
  <2>. QED  BY <1>1, <1>3, <2>1
<1>. QED  BY <1>3, <1>4, <1>5, <1>6 DEF tail

LEMMA AdvanceQueues ==
    ASSUME NEW q \in Queue
    PROVE  Queued(Advance(q)) = ToSet(q.upcoming)
<1>1. CASE q.upcoming = <<>>
  BY <1>1 DEF Advance, Queue, Queued, ToSet
<1>2. CASE q.upcoming # <<>>
  <2>1. /\ Head(q.upcoming) \in Track
        /\ ToSet(q.upcoming) = {Head(q.upcoming)} \union ToSet(Tail(q.upcoming))
    BY <1>2, HeadTailProperties, HeadTailElements DEF Queue
  <2>2. /\ Advance(q).current = Head(q.upcoming)
        /\ Advance(q).upcoming = Tail(q.upcoming)
    BY <1>2 DEF Advance, Queue
  <2>. QED  BY <2>1, <2>2, NoneAssumption DEF Queued
<1>. QED  BY <1>1, <1>2

LEMMA FinishKeeps ==
    ASSUME NEW q, Good(q, Track, MaxTracks), q.current # None
    PROVE  /\ Queued(q) \subseteq Queued(Finish(q)) \union {q.current}
           /\ q.loop_mode = "queue" => Queued(q) \subseteq Queued(Finish(q))
<1>1. q.upcoming \in Seq(Track) /\ q.current \in Track
  BY DEF Good, QueueOf
<1>2. CASE q.loop_mode = "track"
  BY <1>2 DEF Finish, Queued, Good, QueueOf
<1>3. CASE q.loop_mode # "track"
  <2>1. PICK kept \in Queue :
             /\ Finish(q) = Advance(kept)
             /\ kept.upcoming = IF q.loop_mode = "queue"
                                THEN Append(q.upcoming, q.current) ELSE q.upcoming
    BY <1>3, FinishTakesTheNext
  <2>2. Queued(Finish(q)) = ToSet(kept.upcoming)
    BY <2>1, AdvanceQueues
  <2>3. ToSet(Append(q.upcoming, q.current)) = ToSet(q.upcoming) \union {q.current}
    <3>. DEFINE one == <<q.current>>
    <3>1. /\ Append(q.upcoming, q.current) = q.upcoming \o one
          /\ one \in Seq(Track) /\ Len(one) = 1 /\ one[1] = q.current
      BY <1>1, AppendIsConcat
    <3>. HIDE DEF one
    <3>2. ToSet(one) = {one[i] : i \in 1..1}
      BY <3>1, ElementsOf
    <3>3. ToSet(one) = {q.current}
      BY <3>1, <3>2
    <3>. QED  BY <1>1, <3>1, <3>3, ConcatElements
  <2>. QED  BY <2>1, <2>2, <2>3 DEF Queued
<1>. QED  BY <1>2, <1>3

LEMMA SkipKeeps ==
    ASSUME NEW q, Good(q, Track, MaxTracks), q.current # None
    PROVE  Queued(q) \subseteq Queued(Skip(q)) \union {q.current}
<1>1. q \in Queue /\ q.current \in Track /\ Len(q.history) <= HISTORY_LIMIT
  BY QueueOfTracks DEF Good, Queue
<1>2. /\ Remember(q, q.current) \in Queue
      /\ Remember(q, q.current).upcoming = q.upcoming
  BY <1>1, RememberType, QueueOfTracks
<1>3. Skip(q) = Advance(Remember(q, q.current))
  BY DEF Skip
<1>4. Queued(Skip(q)) = ToSet(q.upcoming)
  BY <1>2, <1>3, AdvanceQueues
<1>. QED  BY <1>4 DEF Queued

LEMMA JumpKeeps ==
    ASSUME NEW q, Good(q, Track, MaxTracks), NEW position
    PROVE  Queued(q) \subseteq Queued(Jump(q, position)) \union {q.current}
<1>1. CASE q.current = None \/ ~ValidPosition(q, position)
  BY <1>1 DEF Jump
<1>2. CASE q.current # None /\ ValidPosition(q, position)
  <2>. DEFINE rest == RemoveAt(q.upcoming, position)
              to == q.upcoming[position]
  <2>1. /\ q \in Queue /\ q.upcoming \in Seq(Track)
        /\ position \in 1..Len(q.upcoming)
    BY <1>2, QueueOfTracks DEF Good, Queue, ValidPosition
  <2>2. ToSet(q.upcoming) \subseteq ToSet(rest) \union {to} /\ to \in Track
    BY <2>1, RemoveAtElements, ElementOfSeq
  <2>. HIDE DEF rest, to
  <2>3. RemoveAtPosition(q, position) = [q EXCEPT !.upcoming = rest]
    BY <1>2 DEF RemoveAtPosition, rest
  <2>4. Jump(q, position) =
          [Remember([q EXCEPT !.upcoming = rest], q.current) EXCEPT !.current = to]
    BY <1>2, <2>3 DEF Jump, to
  <2>5. Jump(q, position).current = to /\ Jump(q, position).upcoming = rest
    BY <2>1, <2>4 DEF Remember, Queue
  <2>. QED  BY <2>2, <2>5, NoneAssumption DEF Queued
<1>. QED  BY <1>1, <1>2

LEMMA MoveKeeps ==
    ASSUME NEW q, Good(q, Track, MaxTracks), NEW from, NEW to
    PROVE  Queued(q) \subseteq Queued(MoveTo(q, from, to))
<1>1. CASE ~(ValidPosition(q, from) /\ ValidPosition(q, to))
  BY <1>1 DEF MoveTo
<1>2. CASE ValidPosition(q, from) /\ ValidPosition(q, to)
  <2>. DEFINE rest == RemoveAt(q.upcoming, from)
              moving == q.upcoming[from]
              moved == InsertAt(rest, to, moving)
  <2>1. /\ q \in Queue /\ q.upcoming \in Seq(Track)
        /\ Len(q.upcoming) \in Nat
        /\ from \in 1..Len(q.upcoming) /\ to \in 1..Len(q.upcoming)
    BY <1>2, QueueOfTracks DEF Good, Queue, ValidPosition
  <2>2. /\ rest \in Seq(Track) /\ Len(rest) = Len(q.upcoming) - 1
        /\ moving \in Track
        /\ ToSet(q.upcoming) \subseteq ToSet(rest) \union {moving}
    BY <2>1, RemoveAtType, RemoveAtElements, ElementOfSeq
  <2>. HIDE DEF rest, moving
  <2>3. to \in 1..(Len(rest) + 1)
    BY <2>1, <2>2
  <2>4. ToSet(rest) \union {moving} \subseteq ToSet(moved)
    BY <2>2, <2>3, InsertAtElements
  <2>5. MoveTo(q, from, to) = [q EXCEPT !.upcoming = moved]
    BY <1>2 DEF MoveTo, rest, moving
  <2>. HIDE DEF moved
  <2>6. /\ MoveTo(q, from, to).current = q.current
        /\ MoveTo(q, from, to).upcoming = moved
    BY <2>1, <2>5 DEF Queue
  <2>. QED  BY <2>2, <2>4, <2>6 DEF Queued
<1>. QED  BY <1>1, <1>2

(* A permutation of finitely many positions leaves none out.               *)
LEMMA ShuffleKeeps ==
    ASSUME NEW q, Good(q, Track, MaxTracks), NEW r \in Shuffled(q)
    PROVE  Queued(q) \subseteq Queued(r)
<1>1. PICK n \in Nat : n = Len(q.upcoming)
  BY DEF Good, QueueOf
<1>2. PICK p \in Orders(n) :
        r = [q EXCEPT !.upcoming = [i \in DOMAIN q.upcoming |-> q.upcoming[p[i]]]]
  BY <1>1 DEF Shuffled
<1>3. q \in Queue /\ q.upcoming \in Seq(Track) /\ DOMAIN q.upcoming = 1..n
  BY <1>1, QueueOfTracks DEF Good, Queue
<1>4. r.current = q.current /\ r.upcoming = [i \in 1..n |-> q.upcoming[p[i]]]
  BY <1>2, <1>3 DEF Queue
<1>5. p \in Surjection(1..n, 1..n)
  <2>1. p \in Injection(1..n, 1..n)
    BY <1>2, Fun_IsInj DEF Orders
  <2>. QED  BY <1>1, <2>1, FS_Interval, FS_Injection
<1>6. \A j \in 1..n : \E i \in 1..n : p[i] = j
  BY <1>5, Zenon DEF Surjection
<1>7. ASSUME NEW j \in 1..n
      PROVE  \E i \in 1..n : r.upcoming[i] = q.upcoming[j]
  <2>1. PICK i \in 1..n : p[i] = j
    BY <1>6
  <2>. QED  BY <1>4, <2>1
<1>8. ToSet(q.upcoming) \subseteq ToSet(r.upcoming)
  BY <1>3, <1>4, <1>7 DEF ToSet
<1>. QED  BY <1>4, <1>8 DEF Queued

LEMMA EnqueueKeeps ==
    ASSUME NEW q, Good(q, Track, MaxTracks), NEW tracks \in Seq(Track)
    PROVE  Queued(q) \subseteq Queued(Enqueue(q, tracks, MaxTracks))
<1>. DEFINE accepted == Accepted(q, Len(tracks), MaxTracks)
            taken == SubSeq(tracks, 1, accepted)
            new == Enqueue(q, tracks, MaxTracks)
<1>1. /\ q \in Queue /\ q.upcoming \in Seq(Track) /\ QueueLen(q) \in Nat
      /\ Len(tracks) \in Nat /\ MaxTracks \in Nat
  BY QueueOfTracks, MaxTracksAssumption DEF Good, Queue, QueueLen
<1>2. CASE q.current = None
  <2>1. q.upcoming = <<>>
    BY <1>2 DEF Good
  <2>. QED  BY <1>2, <2>1 DEF Queued, ToSet
<1>3. CASE q.current # None
  <2>1. accepted \in 0..Len(tracks)
    BY <1>1 DEF Accepted
  <2>. HIDE DEF accepted
  <2>2. taken \in Seq(Track)
    BY <1>1, <2>1, SubSeqElements
  <2>3. new = [q EXCEPT !.upcoming = @ \o taken]
    BY <1>3 DEF Enqueue, accepted
  <2>. HIDE DEF taken, new
  <2>4. new.current = q.current /\ new.upcoming = q.upcoming \o taken
    BY <1>1, <2>3 DEF Queue
  <2>5. ToSet(q.upcoming) \subseteq ToSet(new.upcoming)
    BY <1>1, <2>2, <2>4, ConcatElements
  <2>. QED  BY <2>4, <2>5 DEF Queued, new
<1>. QED  BY <1>2, <1>3

(* The one track Previous takes out is a copy of the one it starts.        *)
LEMMA PreviousKeeps ==
    ASSUME NEW q, Good(q, Track, MaxTracks)
    PROVE  Keys(q) \subseteq Keys(Previous(q, MaxTracks))
<1>1. CASE PreviousOutcome(q, MaxTracks) # "Started"
  BY <1>1 DEF Previous
<1>2. CASE PreviousOutcome(q, MaxTracks) = "Started"
  <2>. DEFINE d == Duplicate(q)
              rest == IF d = 0 THEN q.upcoming ELSE RemoveAt(q.upcoming, d)
              last == Last(q.history)
              one == <<q.current>>
              back == Previous(q, MaxTracks)
  <2>1. q.current # None /\ q.history # <<>>
    BY <1>2 DEF PreviousOutcome
  <2>2. /\ q \in Queue /\ q.upcoming \in Seq(Track) /\ q.history \in Seq(Track)
        /\ q.current \in Track /\ d \in 0..Len(q.upcoming)
        /\ Len(q.upcoming) \in Nat
    <3>1. q \in QueueOf(Track) /\ q \in Queue
      BY QueueOfTracks DEF Good
    <3>2. d \in 0..Len(q.upcoming)
      BY <3>1, DuplicateType
    <3>. HIDE DEF d
    <3>. QED  BY <2>1, <3>1, <3>2 DEF Queue
  <2>3. last \in Track /\ last # None
    BY <2>1, <2>2, FrontType, NoneAssumption
  <2>4. /\ rest \in Seq(Track)
        /\ \A t \in ToSet(q.upcoming) \ ToSet(rest) :
             d \in 1..Len(q.upcoming) /\ t = q.upcoming[d]
    <3>1. CASE d = 0
      BY <2>2, <3>1
    <3>2. CASE d # 0
      <4>1. d \in 1..Len(q.upcoming)
        BY <2>2, <3>2
      <4>. HIDE DEF d
      <4>. QED  BY <2>2, <3>2, <4>1, RemoveAtType, RemoveAtElements
    <3>. QED  BY <3>1, <3>2
  <2>5. d \in 1..Len(q.upcoming) => Key(q.upcoming[d]) = Key(last)
    <3>. DEFINE Copies == {i \in 1..Len(q.upcoming) :
                             SameRequest(q.upcoming[i], last)}
    <3>1. d = IF q.loop_mode = "queue"
              THEN IF Copies # {} THEN Max(Copies) ELSE 0
              ELSE 0
      BY DEF Duplicate, SelectLastInSeq
    <3>2. Copies \in SUBSET (1..Len(q.upcoming))
      OBVIOUS
    <3>. HIDE DEF Copies
    <3>3. d # 0 => d \in Copies
      BY <2>2, <3>1, <3>2, LastPosition
    <3>4. \A i \in Copies : SameRequest(q.upcoming[i], last)
      BY DEF Copies
    <3>. HIDE DEF d, last
    <3>. QED  BY <3>3, <3>4 DEF SameRequest, Key
  <2>. HIDE DEF d, rest, last
  <2>6. back.current = last /\ back.upcoming = one \o rest
    BY <1>2, <2>2 DEF Previous, Queue, d, rest, last
  <2>7. one \in Seq(Track) /\ q.current \in ToSet(one)
    BY <2>2 DEF ToSet
  <2>. HIDE DEF one, back
  <2>8. ToSet(back.upcoming) = ToSet(one) \union ToSet(rest)
    BY <2>4, <2>6, <2>7, ConcatElements
  <2>9. last \in Queued(back) /\ q.current \in Queued(back)
        /\ ToSet(rest) \subseteq Queued(back)
    BY <2>3, <2>6, <2>7, <2>8 DEF Queued
  <2>10. ASSUME NEW t \in Queued(q)
         PROVE  \E u \in Queued(back) : Key(u) = Key(t)
    <3>1. CASE t = q.current
      BY <2>9, <3>1
    <3>2. CASE t \in ToSet(rest)
      BY <2>9, <3>2
    <3>3. CASE t \in ToSet(q.upcoming) \ ToSet(rest)
      BY <2>4, <2>5, <2>9, <3>3
    <3>. QED  BY <3>1, <3>2, <3>3 DEF Queued
  <2>11. Keys(q) \subseteq Keys(back)
    BY <2>10 DEF Keys, Queued, Key
  <2>. QED  BY <2>11 DEF back
<1>. QED  BY <1>1, <1>2

(* Nothing the user did not ask to drop is dropped, whatever is queued and *)
(* whatever the limits: going back, moving, shuffling and requesting keep  *)
(* every song, a skip, a jump or a natural end gives up at most the song   *)
(* that was playing, and in the queue loop the natural end not even that.  *)
THEOREM NothingIsDroppedUnasked == Spec => NoSongDroppedUnasked
<1>. DEFINE Kept == Keys(queue) \subseteq Keys(queue')
            KeptButOne == Keys(queue) \subseteq Keys(queue') \union
                            {<<queue.current.encoded, queue.current.requester_id>>}
            A == /\ PreviousCommand \/ MoveCommand \/ ShuffleCommand \/ Play => Kept
                 /\ (SkipCommand \/ JumpCommand \/ TrackFinished)
                      /\ queue.current # None => KeptButOne
                 /\ TrackFinished /\ queue.loop_mode = "queue" => Kept
<1>1. ASSUME QueueInv
      PROVE  A
  <2>. HIDE DEF Kept, KeptButOne
  <2>0. Good(queue, Track, MaxTracks) /\ requests \in Nat
    BY <1>1 DEF QueueInv
  <2>1. ASSUME PreviousCommand PROVE Kept
    BY <2>0, <2>1, PreviousKeeps DEF PreviousCommand, Kept
  <2>2. ASSUME MoveCommand PROVE Kept
    BY <2>0, <2>2, MoveKeeps, KeptTracksKeepSongs DEF MoveCommand, Kept
  <2>3. ASSUME ShuffleCommand PROVE Kept
    BY <2>0, <2>3, ShuffleKeeps, KeptTracksKeepSongs DEF ShuffleCommand, Kept
  <2>4. ASSUME Play PROVE Kept
    <3>1. PICK tracks \in Seq(Track) : queue' = Enqueue(queue, tracks, MaxTracks)
      BY <1>1, <2>4, PlayEnqueues
    <3>. QED  BY <2>0, <3>1, EnqueueKeeps, KeptTracksKeepSongs DEF Kept
  <2>5. ASSUME SkipCommand PROVE KeptButOne
    BY <2>0, <2>5, SkipKeeps, KeptButCurrent DEF SkipCommand, KeptButOne
  <2>6. ASSUME JumpCommand PROVE KeptButOne
    BY <2>0, <2>6, JumpKeeps, KeptButCurrent DEF JumpCommand, KeptButOne
  <2>7. ASSUME TrackFinished
        PROVE  KeptButOne /\ (queue.loop_mode = "queue" => Kept)
    BY <2>0, <2>7, FinishKeeps, KeptButCurrent, KeptTracksKeepSongs
       DEF TrackFinished, Kept, KeptButOne
  <2>. QED  BY <2>1, <2>2, <2>3, <2>4, <2>5, <2>6, <2>7
<1>2. QueueInv /\ [Next]_vars => [A]_vars
  BY <1>1
<1>. QED  BY <1>2, Invariance, PTL DEF Spec, NoSongDroppedUnasked

-----------------------------------------------------------------------------
(* A round of the queue loop.  Round follows Finish n times by a recursive *)
(* function, so both that it is defined and what it computes are shown at  *)
(* the least number of steps that would fail.                              *)

\* The queue after each of the first natural ends, as Round computes it.
IsRun(f, q, n) ==
    f = [i \in 0..n |-> IF i = 0 THEN q ELSE Finish(f[i - 1])]

LEMMA RunExists ==
    ASSUME NEW q, NEW n \in Nat
    PROVE  \E f : IsRun(f, q, n)
<1>. DEFINE Bad == {m \in Nat : ~ \E f : IsRun(f, q, m)}
<1>. SUFFICES ASSUME Bad # {}
              PROVE  FALSE
  OBVIOUS
<1>1. PICK m \in Bad : \A k \in Bad : m <= k
  <2>1. Bad \subseteq Nat
    OBVIOUS
  <2>. HIDE DEF Bad
  <2>. QED  BY <2>1, LeastElement
<1>2. m # 0
  <2>. DEFINE f == [i \in 0..0 |-> q]
  <2>1. IsRun(f, q, 0)
    BY DEF IsRun
  <2>. QED  BY <2>1
<1>3. m \in Nat /\ m - 1 \in Nat /\ m - 1 \notin Bad
  BY <1>1, <1>2
<1>4. PICK f : IsRun(f, q, m - 1)
  BY <1>3
<1>. DEFINE g == [i \in 0..m |-> IF i < m THEN f[i] ELSE Finish(f[m - 1])]
<1>5. \A i \in 0..(m - 1) : f[i] = IF i = 0 THEN q ELSE Finish(f[i - 1])
  BY <1>4 DEF IsRun
<1>6. ASSUME NEW i \in 0..m
      PROVE  g[i] = IF i = 0 THEN q ELSE Finish(g[i - 1])
  <2>1. CASE i < m
    <3>1. i \in 0..(m - 1) /\ g[i] = f[i]
      BY <1>3, <2>1
    <3>2. i # 0 => i - 1 \in 0..m /\ i - 1 < m
      BY <1>3
    <3>3. i # 0 => g[i - 1] = f[i - 1]
      BY <3>2
    <3>. QED  BY <1>5, <3>1, <3>3
  <2>2. CASE ~(i < m)
    <3>1. i = m /\ i # 0 /\ i - 1 \in 0..m /\ i - 1 < m
      BY <1>2, <1>3, <2>2
    <3>2. g[i - 1] = f[m - 1] /\ g[i] = Finish(f[m - 1])
      BY <3>1
    <3>. QED  BY <3>1, <3>2
  <2>. QED  BY <2>1, <2>2
<1>7. g = [i \in 0..m |-> g[i]]
  OBVIOUS
<1>. HIDE DEF g
<1>8. IsRun(g, q, m)
  BY <1>6, <1>7 DEF IsRun
<1>. QED  BY <1>1, <1>8

LEMMA RoundIsARun ==
    ASSUME NEW q, QueueLen(q) \in 0..MaxTracks
    PROVE  \E f : /\ Round(q) = f[QueueLen(q)]
                  /\ \A i \in 0..MaxTracks :
                       f[i] = IF i = 0 THEN q ELSE Finish(f[i - 1])
<1>. DEFINE f == CHOOSE g : IsRun(g, q, MaxTracks)
<1>1. IsRun(f, q, MaxTracks)
  BY RunExists, MaxTracksAssumption
<1>2. Round(q) = f[QueueLen(q)]
  BY DEF Round, IsRun
<1>. HIDE DEF f
<1>3. \A i \in 0..MaxTracks : f[i] = IF i = 0 THEN q ELSE Finish(f[i - 1])
  BY <1>1 DEF IsRun
<1>. QED  BY <1>2, <1>3

\* The k-th track of the queue, counting on from its first after its last.
Place(q, k) ==
    LET at == IF k <= QueueLen(q) THEN k ELSE k - QueueLen(q)
    IN  IF at = 1 THEN q.current ELSE q.upcoming[at - 1]

\* n natural ends turned the round of q into r.
Turned(r, q, n) ==
    /\ Good(r, Track, MaxTracks)
    /\ r.current # None /\ r.loop_mode = "queue"
    /\ Len(r.upcoming) = Len(q.upcoming)
    /\ r.current = Place(q, n + 1)
    /\ \A i \in 1..Len(q.upcoming) : r.upcoming[i] = Place(q, n + 1 + i)

(* A natural end turns the round by one track.                             *)
LEMMA FinishTurns ==
    ASSUME NEW q, Good(q, Track, MaxTracks), q.current # None,
           NEW n \in 0..(QueueLen(q) - 1), NEW r, Turned(r, q, n)
    PROVE  Turned(Finish(r), q, n + 1)
<1>. DEFINE u == Append(r.upcoming, r.current)
<1>0. PICK len \in Nat : len = Len(q.upcoming)
  BY DEF Good, QueueOf
<1>1. /\ Good(r, Track, MaxTracks) /\ r.current \in Track
      /\ r.current # None /\ r.loop_mode = "queue"
      /\ r.upcoming \in Seq(Track) /\ Len(r.upcoming) = len
      /\ r.current = Place(q, n + 1)
      /\ \A i \in 1..len : r.upcoming[i] = Place(q, n + 1 + i)
  BY <1>0 DEF Turned, Good, QueueOf
<1>2. QueueLen(q) = len + 1 /\ n \in 0..len
  BY <1>0 DEF QueueLen
<1>3. /\ u \in Seq(Track) /\ u # <<>> /\ Len(u) = len + 1
      /\ \A i \in 1..len : u[i] = r.upcoming[i]
      /\ u[len + 1] = r.current
  BY <1>1, AppendProperties
<1>4. PICK kept \in Queue :
             /\ Finish(r) = Advance(kept)
             /\ kept.upcoming = u
             /\ kept.loop_mode = "queue"
  BY <1>1, FinishTakesTheNext
<1>. HIDE DEF u
<1>5. /\ Finish(r).current = u[1] /\ Finish(r).upcoming = Tail(u)
      /\ Finish(r).loop_mode = "queue"
  BY <1>3, <1>4 DEF Advance, Queue
<1>6. Good(Finish(r), Track, MaxTracks)
  BY <1>1, FinishGood, MaxTracksAssumption
<1>7. /\ Len(Tail(u)) = len
      /\ \A i \in 1..len : Tail(u)[i] = u[i + 1]
      /\ u[1] \in Track
  BY <1>3, HeadTailProperties, ElementOfSeq
<1>8. Place(q, n + 1 + (len + 1)) = Place(q, n + 1)
  <2>1. /\ n + 1 <= len + 1 /\ ~(n + 1 + (len + 1) <= len + 1)
        /\ n + 1 + (len + 1) - (len + 1) = n + 1
    BY <1>2
  <2>. QED  BY <1>2, <2>1 DEF Place
<1>9. ASSUME NEW i \in 1..(len + 1)
      PROVE  u[i] = Place(q, n + 1 + i)
  <2>1. CASE i # len + 1
    <3>1. i \in 1..len
      BY <2>1
    <3>. QED  BY <1>1, <1>3, <3>1
  <2>2. CASE i = len + 1
    BY <1>1, <1>3, <1>8, <2>2
  <2>. QED  BY <2>1, <2>2
<1>10. Finish(r).current = Place(q, n + 1 + 1) /\ Finish(r).current # None
  <2>1. 1 \in 1..(len + 1)
    OBVIOUS
  <2>. QED  BY <1>5, <1>7, <1>9, <2>1, NoneAssumption
<1>11. ASSUME NEW i \in 1..len
       PROVE  Finish(r).upcoming[i] = Place(q, n + 1 + 1 + i)
  <2>1. i + 1 \in 1..(len + 1) /\ n + 1 + (i + 1) = n + 1 + 1 + i
    BY <1>2
  <2>2. Finish(r).upcoming[i] = u[i + 1]
    BY <1>5, <1>7
  <2>3. u[i + 1] = Place(q, n + 1 + (i + 1))
    BY <1>9, <2>1
  <2>. QED  BY <2>1, <2>2, <2>3
<1>. QED  BY <1>0, <1>5, <1>6, <1>7, <1>10, <1>11 DEF Turned

(* The queue loop neither loses nor reorders a track, however long the     *)
(* queue: when as many tracks ended as it holds, it is where it was.       *)
THEOREM QueueLoopIsARound == Spec => []QueueLoopReplaysInOrder
<1>1. ASSUME QueueInv
      PROVE  QueueLoopReplaysInOrder
  <2>. SUFFICES ASSUME queue.loop_mode = "queue"
                PROVE  /\ Round(queue).current = queue.current
                       /\ Round(queue).upcoming = queue.upcoming
    BY DEF QueueLoopReplaysInOrder
  <2>. DEFINE len == QueueLen(queue)
  <2>1. /\ Good(queue, Track, MaxTracks) /\ queue.upcoming \in Seq(Track)
        /\ Len(queue.upcoming) \in Nat /\ len \in 0..MaxTracks
        /\ queue.current # None => len = Len(queue.upcoming) + 1
        /\ queue.current = None => len = 0
    BY <1>1, MaxTracksAssumption DEF QueueInv, Good, QueueOf, QueueLen
  <2>2. PICK f : /\ Round(queue) = f[len]
                 /\ \A i \in 0..MaxTracks :
                      f[i] = IF i = 0 THEN queue ELSE Finish(f[i - 1])
    BY <2>1, RoundIsARun
  <2>. HIDE DEF len
  <2>3. CASE queue.current = None
    BY <2>1, <2>2, <2>3
  <2>4. CASE queue.current # None
    <3>. DEFINE Bad == {m \in 0..len : ~Turned(f[m], queue, m)}
    <3>1. Bad = {}
      <4>. SUFFICES ASSUME Bad # {}
                    PROVE  FALSE
        OBVIOUS
      <4>1. PICK m \in Bad : \A k \in Bad : m <= k
        <5>1. Bad \subseteq Nat
          BY <2>1
        <5>. HIDE DEF Bad
        <5>. QED  BY <5>1, LeastElement
      <4>2. f[0] = queue
        BY <2>2, MaxTracksAssumption
      <4>3. Turned(f[0], queue, 0)
        <5>1. ASSUME NEW i \in 1..Len(queue.upcoming)
              PROVE  queue.upcoming[i] = Place(queue, 0 + 1 + i)
          BY <2>1, <2>4 DEF Place, len
        <5>2. queue.current = Place(queue, 0 + 1)
          BY <2>1, <2>4 DEF Place, len
        <5>. QED  BY <2>1, <2>4, <4>2, <5>1, <5>2 DEF Turned
      <4>4. /\ m \in 0..len /\ m # 0 /\ m - 1 \in 0..(len - 1)
            /\ m \in 0..MaxTracks /\ m - 1 \notin Bad /\ (m - 1) + 1 = m
        <5>1. m \in 0..len /\ m # 0 /\ len \in Nat /\ len <= MaxTracks
          BY <2>1, <4>3
        <5>2. m - 1 \notin Bad
          <6>. HIDE DEF Bad
          <6>. QED  BY <4>1, <5>1
        <5>. QED  BY <5>1, <5>2, MaxTracksAssumption
      <4>5. Turned(f[m - 1], queue, m - 1)
        BY <2>1, <4>4
      <4>6. Turned(Finish(f[m - 1]), queue, m)
        BY <2>1, <2>4, <4>4, <4>5, FinishTurns DEF len
      <4>. QED  BY <2>2, <4>1, <4>4, <4>6
    <3>2. Turned(f[len], queue, len)
      BY <2>1, <3>1
    <3>. DEFINE r == Round(queue)
    <3>3. Turned(r, queue, len)
      BY <2>2, <3>2
    <3>. HIDE DEF r
    <3>4. r.current = queue.current
      BY <2>1, <2>4, <3>3 DEF Turned, Place, len
    <3>5. ASSUME NEW i \in 1..Len(queue.upcoming)
          PROVE  r.upcoming[i] = queue.upcoming[i]
      <4>. DEFINE k == len + 1 + i
      <4>1. r.upcoming[i] = Place(queue, k)
        BY <3>3 DEF Turned
      <4>2. ~(k <= len) /\ k - len = i + 1 /\ i + 1 # 1 /\ (i + 1) - 1 = i
        BY <2>1
      <4>3. QueueLen(queue) = len
        BY DEF len
      <4>. HIDE DEF k
      <4>. QED  BY <4>1, <4>2, <4>3 DEF Place
    <3>6. r.upcoming \in Seq(Track) /\ Len(r.upcoming) = Len(queue.upcoming)
      BY <3>3 DEF Turned, Good, QueueOf
    <3>7. r.upcoming = queue.upcoming
      BY <2>1, <3>5, <3>6, SeqEqual
    <3>. QED  BY <3>4, <3>7 DEF r
  <2>. QED  BY <2>3, <2>4
<1>. QED  BY <1>1, Invariance, PTL
=============================================================================

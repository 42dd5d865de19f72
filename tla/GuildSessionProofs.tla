------------------------- MODULE GuildSessionProofs --------------------------
(***************************************************************************)
(* One guild actor against its surroundings, for all songs, users,         *)
(* channels, limits and bounds.                                            *)
(*                                                                         *)
(* The first half is about a session by itself: Sound says what holds of   *)
(* it at every await, and one lemma per operator of Session says that the  *)
(* operator keeps it.  The second half has one step per action.            *)
(***************************************************************************)
EXTENDS GuildSession, PlaybackProofs

\* The tracks and requests that came after the request numbered n.
TracksAfter(n) == {t \in Track : t.request > n}
PendingAfter(n) == {p \in Pending : p.sequence > n}

\* A session without a channel has nothing to play and no timer.
Parked(s) == s.channel = None => s.queue.current = None /\ ~s.idle_at /\ ~s.alone_at

\* The request being resolved has its task, and both came after the last
\* cancellation, like everything that waits or is queued.
Resolving(s) ==
    s.loading # None =>
        /\ s.loading \in PendingAfter(s.canceled)
        /\ \E l \in s.loaders : l.sequence = s.loading.sequence

Sound(s) ==
    /\ s \in SessionState
    /\ Good(s.queue, TracksAfter(s.canceled), MaxTracks)
    /\ s.canceled <= s.sequence
    /\ s.pending \in Seq(PendingAfter(s.canceled))
    /\ Resolving(s)
    /\ Waiting(s) <= MaxPending
    /\ Parked(s)

\* The idle timer runs exactly while there is nothing to play.
Timed(s) == s.channel # None => (s.idle_at <=> s.queue.current = None)

\* What commit still needs after an await.
Holding(s) ==
    /\ s.committing \in Pending
    /\ s.resolution \in Loader /\ s.resolution.sequence > s.canceled

\* What every await adds.
SessionInv(s) ==
    /\ Sound(s)
    /\ s.pc \in {"idle", "leaving"} => Timed(s) /\ (s.pending # <<>> => s.loading # None)
    /\ s.pc = "joining" => Holding(s) /\ s.channel = None
    /\ s.pc = "joined" =>
         /\ Holding(s) /\ s.channel = s.committing.channel
         /\ s.idle_at /\ s.queue.current = None
    /\ s.pc = "starting" => s.channel # None

-----------------------------------------------------------------------------
(* Operators on a session.                                                 *)

LEMMA SoundQueue ==
    ASSUME NEW s, Sound(s)
    PROVE  /\ s.queue \in Queue /\ s.canceled \in Nat
           /\ TracksAfter(s.canceled) \in SUBSET Track /\ MaxTracks \in Nat \ {0}
<1>1. s \in SessionState
  BY DEF Sound
<1>. QED  BY <1>1, SessionAssumption DEF SessionState, TracksAfter

LEMMA SeqWidens ==
    ASSUME NEW S, NEW T, S \subseteq T, NEW s \in Seq(S)
    PROVE  s \in Seq(T)
OBVIOUS

LEMMA GoodIsQueue ==
    ASSUME NEW T \in SUBSET Track, NEW max \in Nat, NEW q, Good(q, T, max)
    PROVE  q \in Queue
BY SeqWidens DEF Good, QueueOf, Queue

\* r holds no track that q did not hold.
NoNewTracks(q, r) ==
    \A T \in SUBSET Track : Good(q, T, MaxTracks) => Good(r, T, MaxTracks)

SameRequests(s, t) ==
    /\ t.sequence = s.sequence /\ t.canceled = s.canceled
    /\ t.pending = s.pending /\ t.loading = s.loading /\ t.loaders = s.loaders

\* What a handler does apart from requests keeps a session sound.
LEMMA KeepsSound ==
    ASSUME NEW s, Sound(s), NEW t \in SessionState,
           SameRequests(s, t), NoNewTracks(s.queue, t.queue), Parked(t)
    PROVE  Sound(t)
<1>1. Good(t.queue, TracksAfter(s.canceled), MaxTracks)
  BY SoundQueue DEF Sound, NoNewTracks
<1>. QED  BY <1>1 DEF Sound, Resolving, Waiting, SameRequests

LEMMA NewSessionSound ==
    /\ NewSession \in SessionState /\ SessionInv(NewSession)
<1>1. EmptyQueue \in Queue
  BY LimitsAssumption DEF EmptyQueue, Queue, LoopMode
<1>2. NewSession \in SessionState
  BY <1>1 DEF NewSession, SessionState
<1>3. Good(EmptyQueue, TracksAfter(0), MaxTracks)
  BY EmptyQueueGood, SessionAssumption
<1>4. Sound(NewSession) /\ Timed(NewSession)
  BY <1>2, <1>3, SessionAssumption
     DEF Sound, Timed, Resolving, Waiting, Parked, NewSession, EmptyQueue
<1>. QED  BY <1>2, <1>4 DEF SessionInv, NewSession

LEMMA AdmitSound ==
    ASSUME NEW s, Sound(s), Waiting(s) < MaxPending, NEW u \in Users, NEW c \in Channels
    PROVE  LET t == Admit(s, u, c)
           IN  /\ Sound(t) /\ t.queue = s.queue /\ t.channel = s.channel
               /\ t.idle_at = s.idle_at /\ t.pc = s.pc /\ t.generation = s.generation
<1>. DEFINE p == [user |-> u, channel |-> c, epoch |-> s.epoch, sequence |-> s.sequence + 1]
            waiting == Append(s.pending, p)
            t == [s EXCEPT !.sequence = s.sequence + 1, !.pending = waiting]
<1>1. s \in SessionState /\ s.canceled <= s.sequence
  BY DEF Sound
<1>2. p \in PendingAfter(s.canceled) /\ s.sequence + 1 \in Nat
  BY <1>1 DEF SessionState, Pending, PendingAfter
<1>. HIDE DEF p
<1>3. /\ waiting \in Seq(PendingAfter(s.canceled))
      /\ Len(waiting) = Len(s.pending) + 1 /\ Len(s.pending) \in Nat
  BY <1>2 DEF Sound
<1>4. waiting \in Seq(Pending)
  BY <1>3, SeqWidens DEF PendingAfter
<1>. HIDE DEF waiting
<1>5. /\ t \in SessionState /\ t.queue = s.queue /\ t.channel = s.channel
      /\ t.idle_at = s.idle_at /\ t.alone_at = s.alone_at
      /\ t.pc = s.pc /\ t.generation = s.generation
      /\ t.sequence = s.sequence + 1 /\ t.canceled = s.canceled
      /\ t.pending = waiting /\ t.loading = s.loading /\ t.loaders = s.loaders
  BY <1>1, <1>2, <1>4 DEF SessionState
<1>6. Admit(s, u, c) = t
  BY <1>1 DEF Admit, SessionState, p, waiting
<1>. HIDE DEF t
<1>7. Waiting(t) <= MaxPending
  <2>. DEFINE one == IF s.loading = None THEN 0 ELSE 1
  <2>1. Waiting(s) = Len(s.pending) + one /\ Waiting(t) = Len(waiting) + one /\ one \in Nat
    BY <1>5 DEF Waiting
  <2>. HIDE DEF one
  <2>. QED  BY <1>3, <2>1, SessionAssumption
<1>8. s.canceled <= s.sequence + 1
  BY <1>1 DEF SessionState
<1>. QED  BY <1>3, <1>5, <1>6, <1>7, <1>8 DEF Sound, Resolving, Parked

LEMMA StartLoadSound ==
    ASSUME NEW s, Sound(s)
    PROVE  LET t == StartLoad(s)
           IN  /\ Sound(t) /\ (t.pending # <<>> => t.loading # None)
               /\ t.queue = s.queue /\ t.channel = s.channel
               /\ t.idle_at = s.idle_at /\ t.alone_at = s.alone_at
               /\ t.pc = s.pc /\ t.generation = s.generation
               /\ t.canceled = s.canceled
<1>1. CASE s.loading # None \/ s.pending = <<>>
  BY <1>1 DEF StartLoad
<1>2. CASE s.loading = None /\ s.pending # <<>>
  <2>. DEFINE p == Head(s.pending)
              rest == Tail(s.pending)
              task == [sequence |-> p.sequence, state |-> "running", songs |-> <<>>]
              t == [s EXCEPT !.loading = p, !.pending = rest, !.loaders = s.loaders \union {task}]
  <2>1. s \in SessionState
    BY DEF Sound
  <2>2. StartLoad(s) = t
    BY <1>2, <2>1 DEF StartLoad, SessionState
  <2>3. /\ p \in PendingAfter(s.canceled) /\ rest \in Seq(PendingAfter(s.canceled))
        /\ Len(rest) + 1 = Len(s.pending) /\ Len(rest) \in Nat
    <3>1. s.pending \in Seq(PendingAfter(s.canceled))
      BY DEF Sound
    <3>2. /\ p \in PendingAfter(s.canceled) /\ rest \in Seq(PendingAfter(s.canceled))
          /\ Len(rest) = Len(s.pending) - 1
      BY <1>2, <3>1, HeadTailProperties
    <3>3. Len(s.pending) \in Nat \ {0}
      BY <1>2, <3>1, EmptySeq
    <3>. QED  BY <3>2, <3>3
  <2>4. p \in Pending /\ rest \in Seq(Pending)
    BY <2>3, SeqWidens DEF PendingAfter
  <2>5. task \in Loader /\ task.sequence = p.sequence
    BY <2>4, EmptySeq DEF Loader, Pending
  <2>. HIDE DEF p, rest, task
  <2>6. s.loaders \union {task} \in SUBSET Loader
    BY <2>1, <2>5 DEF SessionState
  <2>7. /\ t \in SessionState /\ t.queue = s.queue /\ t.channel = s.channel
        /\ t.idle_at = s.idle_at /\ t.alone_at = s.alone_at
        /\ t.pc = s.pc /\ t.generation = s.generation
        /\ t.sequence = s.sequence /\ t.canceled = s.canceled
        /\ t.loading = p /\ t.pending = rest /\ t.loaders = s.loaders \union {task}
    BY <2>1, <2>4, <2>6 DEF SessionState
  <2>. HIDE DEF t
  <2>8. p # None
    BY <2>4, NoPendingAssumption
  <2>9. Waiting(t) <= MaxPending
    <3>1. Waiting(t) = Len(rest) + 1 /\ Waiting(s) = Len(s.pending)
      BY <1>2, <2>3, <2>7, <2>8 DEF Waiting, Sound
    <3>. QED  BY <2>3, <3>1 DEF Sound
  <2>10. Sound(t)
    BY <2>3, <2>5, <2>7, <2>9 DEF Sound, Resolving, Parked
  <2>. QED  BY <2>2, <2>7, <2>8, <2>10
<1>. QED  BY <1>1, <1>2

\* Everything is canceled up to the newest request.
LEMMA InvalidateShape ==
    ASSUME NEW s \in SessionState
    PROVE  LET t == Invalidate(s)
           IN  /\ t \in SessionState
               /\ t.pending = <<>> /\ t.loading = None
               /\ t.queue = s.queue /\ t.channel = s.channel
               /\ t.idle_at = s.idle_at /\ t.alone_at = s.alone_at
               /\ t.pc = s.pc /\ t.generation = s.generation
               /\ t.sequence = s.sequence /\ t.started = s.started
<1>. DEFINE ready == {l \in s.loaders : l.state # "running"}
            t == [s EXCEPT !.epoch = s.epoch + 1, !.pending = <<>>,
                           !.loading = None, !.loaders = ready]
<1>1. ready \in SUBSET Loader /\ s.epoch + 1 \in Nat /\ <<>> \in Seq(Pending)
  BY EmptySeq DEF SessionState
<1>2. Invalidate(s) = t
  BY DEF Invalidate, SessionState
<1>. HIDE DEF ready
<1>3. /\ t \in SessionState
      /\ t.pending = <<>> /\ t.loading = None
      /\ t.queue = s.queue /\ t.channel = s.channel
      /\ t.idle_at = s.idle_at /\ t.alone_at = s.alone_at
      /\ t.pc = s.pc /\ t.generation = s.generation
      /\ t.sequence = s.sequence /\ t.started = s.started
  BY <1>1 DEF SessionState
<1>. QED  BY <1>2, <1>3

LEMMA CanceledSound ==
    ASSUME NEW t \in SessionState, t.pending = <<>>, t.loading = None,
           t.canceled = t.sequence, Parked(t),
           Good(t.queue, TracksAfter(t.canceled), MaxTracks)
    PROVE  Sound(t) /\ (t.pending # <<>> => t.loading # None)
<1>1. Waiting(t) = 0
  BY DEF Waiting
<1>2. t.pending \in Seq(PendingAfter(t.canceled)) /\ t.canceled <= t.sequence
  BY EmptySeq DEF SessionState
<1>. QED  BY <1>1, <1>2, SessionAssumption DEF Sound, Resolving

LEMMA CleanedSound ==
    ASSUME NEW s, Sound(s)
    PROVE  LET t == Cleaned(s)
           IN  /\ Sound(t) /\ (t.pending # <<>> => t.loading # None)
               /\ t.queue = EmptyQueue /\ t.queue.current = None /\ t.channel = None
               /\ t.pc = s.pc /\ t.generation = s.generation
<1>. DEFINE i == Invalidate(s)
            t == [i EXCEPT !.queue = EmptyQueue, !.channel = None, !.credentials = 0,
                           !.idle_at = FALSE, !.alone_at = FALSE, !.started = FALSE,
                           !.paused = FALSE, !.canceled = s.sequence]
<1>1. s \in SessionState /\ s.sequence \in Nat
  BY DEF Sound, SessionState
<1>2. /\ i \in SessionState /\ i.pending = <<>> /\ i.loading = None
      /\ i.pc = s.pc /\ i.generation = s.generation /\ i.sequence = s.sequence
  BY <1>1, InvalidateShape
<1>3. Cleaned(s) = t
  BY DEF Cleaned
<1>. HIDE DEF i
<1>4. EmptyQueue \in Queue /\ EmptyQueue.current = None
  BY LimitsAssumption DEF EmptyQueue, Queue, LoopMode
<1>5. /\ t \in SessionState /\ t.pending = <<>> /\ t.loading = None
      /\ t.queue = EmptyQueue /\ t.channel = None /\ ~t.idle_at /\ ~t.alone_at
      /\ t.canceled = t.sequence /\ t.pc = s.pc /\ t.generation = s.generation
  BY <1>1, <1>2, <1>4 DEF SessionState
<1>. HIDE DEF t
<1>6. Good(t.queue, TracksAfter(t.canceled), MaxTracks)
  BY <1>5, EmptyQueueGood, SessionAssumption
<1>7. Sound(t) /\ (t.pending # <<>> => t.loading # None)
  BY <1>4, <1>5, <1>6, CanceledSound DEF Parked
<1>. QED  BY <1>3, <1>4, <1>5, <1>7

LEMMA StoppedSound ==
    ASSUME NEW s, Sound(s)
    PROVE  LET t == Stopped(s)
           IN  /\ Sound(t) /\ (t.pending # <<>> => t.loading # None)
               /\ t.queue.current = None /\ t.queue = Stop(s.queue)
               /\ t.channel = s.channel /\ t.idle_at = s.idle_at
               /\ t.pc = s.pc /\ t.generation = s.generation
<1>. DEFINE i == Invalidate(s)
            q == Stop(s.queue)
            t == [i EXCEPT !.queue = q, !.paused = FALSE, !.canceled = s.sequence]
<1>1. s \in SessionState /\ s.sequence \in Nat
  BY DEF Sound, SessionState
<1>2. /\ i \in SessionState /\ i.pending = <<>> /\ i.loading = None
      /\ i.queue = s.queue /\ i.channel = s.channel
      /\ i.idle_at = s.idle_at /\ i.alone_at = s.alone_at
      /\ i.pc = s.pc /\ i.generation = s.generation /\ i.sequence = s.sequence
  BY <1>1, InvalidateShape
<1>3. Stopped(s) = t
  BY <1>2 DEF Stopped, SessionState
<1>4. Good(q, TracksAfter(s.sequence), MaxTracks) /\ q.current = None
  <2>1. Good(q, TracksAfter(s.sequence), MaxTracks)
    BY SoundQueue, StopGood DEF Sound
  <2>2. q.current = None
    BY SoundQueue DEF Stop, Queue
  <2>. QED  BY <2>1, <2>2
<1>5. q \in Queue
  <2>1. TracksAfter(s.sequence) \subseteq Track
    BY DEF TracksAfter
  <2>. QED  BY <1>4, <2>1, GoodIsQueue, SessionAssumption
<1>. HIDE DEF i, q
<1>6. /\ t \in SessionState /\ t.pending = i.pending /\ t.loading = i.loading
      /\ t.queue = q /\ t.channel = i.channel
      /\ t.idle_at = i.idle_at /\ t.alone_at = i.alone_at
      /\ t.canceled = s.sequence /\ t.sequence = i.sequence
      /\ t.pc = i.pc /\ t.generation = i.generation
  <2>1. i \in SessionState /\ s.sequence \in Nat
    BY <1>1, <1>2
  <2>. QED  BY <1>5, <2>1 DEF SessionState
<1>. HIDE DEF t
<1>7. Parked(t)
  BY <1>2, <1>4, <1>6 DEF Parked, Sound
<1>8. Sound(t) /\ (t.pending # <<>> => t.loading # None)
  BY <1>2, <1>4, <1>6, <1>7, CanceledSound
<1>. QED  BY <1>2, <1>3, <1>4, <1>6, <1>8 DEF q

LEMMA SameQueue ==
    ASSUME NEW q
    PROVE  NoNewTracks(q, q)
BY DEF NoNewTracks

LEMMA QueueIsTyped ==
    ASSUME NEW s, Sound(s), NEW q, NoNewTracks(s.queue, q)
    PROVE  q \in Queue /\ Good(q, TracksAfter(s.canceled), MaxTracks)
<1>1. Good(q, TracksAfter(s.canceled), MaxTracks)
  BY SoundQueue DEF Sound, NoNewTracks
<1>. QED  BY <1>1, SoundQueue, GoodIsQueue

\* An empty queue takes no track from anywhere.
LEMMA EmptyTakesNone ==
    ASSUME NEW q
    PROVE  NoNewTracks(q, EmptyQueue) /\ NoNewTracks(q, Stop(q))
BY EmptyQueueGood, StopGood, SessionAssumption DEF NoNewTracks

LEMMA UpdateAloneSound ==
    ASSUME NEW s, Sound(s)
    PROVE  LET t == UpdateAlone(s)
           IN  /\ Sound(t) /\ t.queue = s.queue /\ t.channel = s.channel
               /\ t.idle_at = s.idle_at /\ t.pc = s.pc /\ t.generation = s.generation
               /\ t.loading = s.loading /\ t.pending = s.pending
               /\ t.progress = s.progress /\ t.paused = s.paused
<1>. DEFINE a == s.channel # None /\ discord.guild # "absent" /\ Alone(s.channel)
            t == [s EXCEPT !.alone_at = a]
<1>1. s \in SessionState /\ a \in BOOLEAN
  BY DEF Sound
<1>2. UpdateAlone(s) = t /\ (a => s.channel # None)
  BY DEF UpdateAlone
<1>. HIDE DEF a
<1>3. /\ t \in SessionState /\ SameRequests(s, t)
      /\ t.queue = s.queue /\ t.channel = s.channel /\ t.alone_at = a
      /\ t.idle_at = s.idle_at /\ t.pc = s.pc /\ t.generation = s.generation
      /\ t.progress = s.progress /\ t.paused = s.paused
  BY <1>1 DEF SessionState, SameRequests
<1>. HIDE DEF t
<1>4. Sound(t)
  BY <1>2, <1>3, KeepsSound, SameQueue DEF Sound, Parked
<1>. QED  BY <1>2, <1>3, <1>4 DEF SameRequests

\* Between two handlers nothing waits without a task.
LEMMA EndOfTurnInv ==
    ASSUME NEW s, Sound(s), Timed(s)
    PROVE  LET t == EndOfTurn(s)
           IN  /\ SessionInv(t) /\ t.pc \in {"idle", "leaving"}
               /\ t.queue = s.queue /\ t.channel = s.channel
               /\ t.generation = s.generation
<1>. DEFINE l == StartLoad(s)
            pc == IF discord.guild = "absent" THEN "leaving" ELSE "idle"
            t == [l EXCEPT !.pc = pc]
<1>1. /\ Sound(l) /\ (l.pending # <<>> => l.loading # None)
      /\ l.queue = s.queue /\ l.channel = s.channel
      /\ l.idle_at = s.idle_at /\ l.alone_at = s.alone_at
      /\ l.generation = s.generation
  BY StartLoadSound
<1>2. EndOfTurn(s) = t
  BY DEF EndOfTurn
<1>. pc \in {"idle", "leaving"}
  OBVIOUS
<1>. HIDE DEF l, pc
<1>3. /\ t \in SessionState /\ SameRequests(l, t)
      /\ t.queue = s.queue /\ t.channel = s.channel
      /\ t.idle_at = s.idle_at /\ t.alone_at = s.alone_at
      /\ t.generation = s.generation /\ t.pc = pc
  BY <1>1 DEF Sound, SessionState, SameRequests
<1>. HIDE DEF t
<1>4. Sound(t)
  BY <1>1, <1>3, KeepsSound, SameQueue DEF Sound, Parked
<1>5. Timed(t) /\ (t.pending # <<>> => t.loading # None)
  BY <1>1, <1>3 DEF Timed, SameRequests
<1>6. SessionInv(t)
  BY <1>3, <1>4, <1>5 DEF SessionInv
<1>. QED  BY <1>2, <1>3, <1>6

LEMMA StartingInv ==
    ASSUME NEW s, Sound(s), s.channel # None, NEW q, NoNewTracks(s.queue, q)
    PROVE  LET t == Starting(s, q)
           IN  /\ SessionInv(t) /\ t.pc = "starting"
               /\ t.queue = q /\ t.generation = s.generation
<1>. DEFINE t == Starting(s, q)
<1>1. /\ t \in SessionState /\ SameRequests(s, t)
      /\ t.queue = q /\ t.channel = s.channel
      /\ t.pc = "starting" /\ t.generation = s.generation
  BY QueueIsTyped DEF Starting, Sound, SessionState, SameRequests
<1>. HIDE DEF t
<1>2. Sound(t)
  BY <1>1, KeepsSound DEF Parked
<1>. QED  BY <1>1, <1>2 DEF SessionInv, t

-----------------------------------------------------------------------------
(* start_current.                                                          *)

LEMMA AttemptSound ==
    ASSUME NEW s, Sound(s)
    PROVE  LET t == Attempt(s)
           IN  /\ Sound(t) /\ t.queue = s.queue /\ t.channel = s.channel
               /\ t.pc = s.pc /\ t.generation = s.generation + 1
<1>. DEFINE t == Attempt(s)
<1>1. s \in SessionState /\ s.generation + 1 \in Nat
  BY DEF Sound, SessionState
<1>2. /\ t \in SessionState /\ SameRequests(s, t)
      /\ t.queue = s.queue /\ t.channel = s.channel
      /\ t.idle_at = s.idle_at /\ t.alone_at = s.alone_at
      /\ t.pc = s.pc /\ t.generation = s.generation + 1
  BY <1>1 DEF Attempt, SessionState, SameRequests
<1>. HIDE DEF t
<1>3. Sound(t)
  BY <1>2, KeepsSound, SameQueue DEF Parked, Sound
<1>. QED  BY <1>2, <1>3 DEF t

LEMMA AfterStartSound ==
    ASSUME NEW s, Sound(s)
    PROVE  LET t == AfterStart(s)
           IN  /\ Sound(t) /\ t.queue = s.queue /\ t.channel = s.channel
               /\ t.generation = s.generation
BY UpdateAloneSound DEF AfterStart

LEMMA StartedTimed ==
    ASSUME NEW s, Sound(s), s.channel # None
    PROVE  LET t == Started(s)
           IN  /\ Sound(t) /\ Timed(t) /\ t.queue = s.queue /\ t.channel = s.channel
               /\ t.generation = s.generation
<1>. DEFINE t == Started(s)
            idle == s.queue.current = None
<1>1. s \in SessionState /\ idle \in BOOLEAN
  BY DEF Sound
<1>2. /\ t \in SessionState /\ SameRequests(s, t)
      /\ t.queue = s.queue /\ t.channel = s.channel
      /\ t.idle_at = idle /\ t.generation = s.generation
  BY <1>1 DEF Started, SessionState, SameRequests
<1>. HIDE DEF t
<1>3. Sound(t) /\ Timed(t)
  BY <1>2, KeepsSound, SameQueue DEF Parked, Timed
<1>. QED  BY <1>2, <1>3 DEF t

LEMMA GivenUpTimed ==
    ASSUME NEW s, Sound(s), s.channel # None, s.queue.current = None
    PROVE  LET t == GivenUp(s)
           IN  /\ Sound(t) /\ Timed(t) /\ t.queue = s.queue /\ t.channel = s.channel
               /\ t.generation = s.generation
<1>. DEFINE t == GivenUp(s)
<1>1. s \in SessionState
  BY DEF Sound
<1>2. /\ t \in SessionState /\ SameRequests(s, t)
      /\ t.queue = s.queue /\ t.channel = s.channel
      /\ t.idle_at /\ t.generation = s.generation
  BY <1>1 DEF GivenUp, SessionState, SameRequests
<1>. HIDE DEF t
<1>3. Sound(t) /\ Timed(t)
  BY <1>2, KeepsSound, SameQueue DEF Parked, Timed
<1>. QED  BY <1>2, <1>3 DEF t

LEMMA FailTakesNone ==
    ASSUME NEW q
    PROVE  NoNewTracks(q, Fail(q)) /\ NoNewTracks(q, Finish(q))
BY FailGood, FinishGood, SessionAssumption DEF NoNewTracks

LEMMA AttemptFailedInv ==
    ASSUME NEW s, Sound(s), s.channel # None, s.pc = "starting"
    PROVE  LET t == AttemptFailed(s)
           IN  /\ SessionInv(t) /\ t.queue = Fail(s.queue) /\ t.pc = "starting"
               /\ t.generation = s.generation
<1>. DEFINE q == Fail(s.queue)
            t == [s EXCEPT !.queue = q, !.failed = TRUE]
<1>1. s \in SessionState
  BY DEF Sound
<1>2. NoNewTracks(s.queue, q) /\ q \in Queue
  BY FailTakesNone, QueueIsTyped
<1>3. AttemptFailed(s) = t
  BY <1>1 DEF AttemptFailed, SessionState
<1>. HIDE DEF q
<1>4. /\ t \in SessionState /\ SameRequests(s, t)
      /\ t.queue = q /\ t.channel = s.channel
      /\ t.pc = s.pc /\ t.generation = s.generation
  BY <1>1, <1>2 DEF SessionState, SameRequests
<1>. HIDE DEF t
<1>5. Sound(t)
  BY <1>2, <1>4, KeepsSound DEF Parked
<1>. QED  BY <1>3, <1>4, <1>5 DEF SessionInv, q

-----------------------------------------------------------------------------
(* commit and join.                                                        *)

\* The tracks of a request are of its user, and came after the cancellation.
LEMMA TracksOfType ==
    ASSUME NEW pending \in Pending, NEW resolution \in Loader
    PROVE  TracksOf(pending, resolution) \in
             Seq({t \in Track : t.requester_id = pending.user
                                 /\ t.request = resolution.sequence})
<1>. DEFINE T == {t \in Track : t.requester_id = pending.user
                                /\ t.request = resolution.sequence}
            t == TracksOf(pending, resolution)
            track(i) == [encoded |-> resolution.songs[i], requester_id |-> pending.user,
                         request |-> resolution.sequence]
<1>1. PICK n \in Nat : n = Len(resolution.songs) /\ DOMAIN resolution.songs = 1..n
  BY DEF Loader
<1>2. \A i \in 1..n : resolution.songs[i] \in Songs
  BY <1>1 DEF Loader
<1>3. pending.user \in Users /\ resolution.sequence \in Nat
  BY DEF Pending, Loader
<1>4. ASSUME NEW i \in 1..n PROVE track(i) \in T
  BY <1>2, <1>3 DEF Track
<1>5. t = [i \in 1..n |-> track(i)]
  BY <1>1 DEF TracksOf
<1>. HIDE DEF track, T
<1>6. t \in Seq(T)
  BY <1>4, <1>5
<1>. QED  BY <1>6 DEF T

LEMMA EnqueueKeepsCurrent ==
    ASSUME NEW q \in Queue, NEW tracks, NEW max, q.current # None
    PROVE  Enqueue(q, tracks, max).current = q.current
BY DEF Enqueue, Queue

LEMMA EnqueuedInv ==
    ASSUME NEW s, Sound(s), s.channel # None,
           NEW pending \in Pending, NEW resolution \in Loader,
           resolution.sequence > s.canceled
    PROVE  LET t == Enqueued(s, pending, resolution)
           IN  /\ Sound(t) /\ t.channel = s.channel /\ t.generation = s.generation
               /\ s.queue.current = None => t.pc = "starting" /\ SessionInv(t)
               /\ s.queue.current # None =>
                    Timed(t) /\ t.pc = s.pc /\ t.queue.current = s.queue.current
               /\ \A T \in SUBSET Track :
                    Good(s.queue, T, MaxTracks) =>
                      Good(t.queue, T \union {u \in Track : u.requester_id = pending.user},
                           MaxTracks)
<1>. DEFINE tracks == TracksOf(pending, resolution)
            q == Enqueue(s.queue, tracks, MaxTracks)
            committing == IF s.queue.current = None THEN pending ELSE None
            pc == IF s.queue.current = None THEN "starting" ELSE s.pc
            t == [s EXCEPT !.queue = q, !.idle_at = FALSE, !.committing = committing,
                           !.resolution = None, !.pc = pc]
<1>1. s \in SessionState
  BY DEF Sound
<1>2. tracks \in Seq(TracksAfter(s.canceled))
  BY TracksOfType, SeqWidens DEF TracksAfter
<1>3. Good(q, TracksAfter(s.canceled), MaxTracks)
  BY <1>2, SoundQueue, EnqueueGood DEF Sound
<1>4. q \in Queue
  BY <1>3, SoundQueue, GoodIsQueue
<1>5. s.queue.current # None => q.current = s.queue.current
  BY SoundQueue, EnqueueKeepsCurrent
<1>6. Enqueued(s, pending, resolution) = t
  BY <1>1 DEF Enqueued, SessionState
<1>7. ASSUME NEW T \in SUBSET Track, Good(s.queue, T, MaxTracks)
      PROVE  Good(q, T \union {u \in Track : u.requester_id = pending.user}, MaxTracks)
  <2>. DEFINE W == T \union {u \in Track : u.requester_id = pending.user}
  <2>1. Good(s.queue, W, MaxTracks)
    BY <1>7, SeqWidens DEF Good, QueueOf
  <2>2. tracks \in Seq(W)
    BY TracksOfType, SeqWidens
  <2>3. W \in SUBSET Track
    OBVIOUS
  <2>. HIDE DEF W, tracks
  <2>4. Good(q, W, MaxTracks)
    BY <2>1, <2>2, <2>3, EnqueueGood, SessionAssumption
  <2>. QED  BY <2>4 DEF W
<1>8. committing \in Pending \union {None} /\ pc \in {"starting", s.pc}
  OBVIOUS
<1>9. /\ s.queue.current = None => pc = "starting"
      /\ s.queue.current # None => pc = s.pc
  OBVIOUS
<1>. HIDE DEF q, committing, pc
<1>10. /\ t \in SessionState /\ t.queue = q /\ t.channel = s.channel
       /\ ~t.idle_at /\ t.pc = pc /\ t.generation = s.generation
       /\ SameRequests(s, t)
  BY <1>1, <1>4, <1>8 DEF SessionState, SameRequests
<1>. HIDE DEF t
<1>11. Sound(t)
  BY <1>3, <1>10 DEF Sound, Resolving, Waiting, SameRequests, Parked
<1>12. s.queue.current = None => t.pc = "starting" /\ SessionInv(t)
  BY <1>9, <1>10, <1>11 DEF SessionInv
<1>13. s.queue.current # None => Timed(t)
  BY <1>5, <1>10 DEF Timed
<1>. QED  BY <1>5, <1>6, <1>7, <1>9, <1>10, <1>11, <1>12, <1>13

LEMMA NotCommittingSound ==
    ASSUME NEW s, Sound(s)
    PROVE  LET t == NotCommitting(s)
           IN  /\ Sound(t) /\ t.queue = s.queue /\ t.channel = s.channel
               /\ t.idle_at = s.idle_at /\ t.generation = s.generation
<1>. DEFINE t == NotCommitting(s)
<1>1. s \in SessionState
  BY DEF Sound
<1>2. /\ t \in SessionState /\ SameRequests(s, t)
      /\ t.queue = s.queue /\ t.channel = s.channel
      /\ t.idle_at = s.idle_at /\ t.alone_at = s.alone_at /\ t.generation = s.generation
  BY <1>1 DEF NotCommitting, SessionState, SameRequests
<1>. HIDE DEF t
<1>3. Sound(t)
  BY <1>2, KeepsSound, SameQueue DEF Parked, Sound
<1>. QED  BY <1>2, <1>3 DEF t

LEMMA JoinedInv ==
    ASSUME NEW s, SessionInv(s), s.pc = "joining", NEW server \in Nat
    PROVE  LET t == Joined(s, server)
           IN  /\ SessionInv(t) /\ t.pc = "joined" /\ t.queue = s.queue
               /\ t.generation = s.generation
<1>. DEFINE t == Joined(s, server)
<1>1. s \in SessionState /\ Sound(s) /\ Holding(s) /\ s.channel = None
  BY DEF SessionInv, Sound
<1>2. s.committing.channel \in Channels /\ s.queue.current = None /\ ~s.alone_at
  BY <1>1 DEF Holding, Pending, Sound, Parked
<1>3. /\ t \in SessionState /\ SameRequests(s, t)
      /\ t.queue = s.queue /\ t.channel = s.committing.channel
      /\ t.idle_at /\ t.pc = "joined" /\ t.generation = s.generation
      /\ t.committing = s.committing /\ t.resolution = s.resolution
  BY <1>1, <1>2 DEF Joined, SessionState, SameRequests
<1>. HIDE DEF t
<1>4. Sound(t)
  BY <1>1, <1>2, <1>3, KeepsSound, SameQueue, SessionAssumption DEF Parked
<1>5. Holding(t)
  BY <1>1, <1>3 DEF Holding, SameRequests
<1>. QED  BY <1>2, <1>3, <1>4, <1>5 DEF SessionInv, t

-----------------------------------------------------------------------------
(* The messages on their way.                                              *)

Mail == {inbox[i] : i \in DOMAIN inbox}

LEMMA MailForgot ==
    /\ BackendForgot <=> \E m \in Mail : m.kind = "invalidated"
    /\ (BackendForgot <=> \E m \in Mail : m.kind = "invalidated")'
BY DEF BackendForgot, Mail

\* Receiving a message takes it, and no other, from the mail.
LEMMA MailReceived ==
    ASSUME inbox \in Seq(Message), inbox # <<>>, inbox' = Tail(inbox)
    PROVE  /\ inbox' \in Seq(Message) /\ Head(inbox) \in Mail
           /\ Mail' \subseteq Mail /\ Mail \subseteq Mail' \union {Head(inbox)}
<1>1. PICK n \in Nat \ {0} : n = Len(inbox)
  BY EmptySeq
<1>2. /\ inbox' \in Seq(Message) /\ Len(inbox') = n - 1 /\ Head(inbox) = inbox[1]
      /\ \A i \in 1..(n - 1) : inbox'[i] = inbox[i + 1]
  BY <1>1, HeadTailProperties
<1>3. DOMAIN inbox = 1..n /\ DOMAIN inbox' = 1..(n - 1)
  BY <1>1, <1>2
<1>4. Head(inbox) \in Mail
  BY <1>2, <1>3 DEF Mail
<1>5. ASSUME NEW m \in Mail' PROVE m \in Mail
  <2>1. PICK i \in 1..(n - 1) : m = inbox'[i]
    BY <1>3 DEF Mail
  <2>2. m = inbox[i + 1] /\ i + 1 \in 1..n
    BY <1>2, <2>1
  <2>. QED  BY <1>3, <2>2 DEF Mail
<1>6. ASSUME NEW m \in Mail, m # Head(inbox) PROVE m \in Mail'
  <2>1. PICK i \in 1..n : m = inbox[i]
    BY <1>3 DEF Mail
  <2>2. i # 1
    BY <1>2, <1>6, <2>1
  <2>3. i - 1 \in 1..(n - 1) /\ m = inbox'[i - 1]
    BY <1>2, <2>1, <2>2
  <2>. QED  BY <1>3, <2>3 DEF Mail
<1>. QED  BY <1>2, <1>4, <1>5, <1>6

\* Delivering messages adds them to the mail.
LEMMA MailDelivered ==
    ASSUME inbox \in Seq(Message), NEW new \in Seq(Message), inbox' = inbox \o new
    PROVE  inbox' \in Seq(Message) /\ Mail' = Mail \union {new[i] : i \in DOMAIN new}
<1>1. PICK n \in Nat, k \in Nat : n = Len(inbox) /\ k = Len(new)
  BY EmptySeq
<1>2. /\ inbox' \in Seq(Message) /\ Len(inbox') = n + k
      /\ \A i \in 1..(n + k) : inbox'[i] = IF i <= n THEN inbox[i] ELSE new[i - n]
  BY <1>1, ConcatProperties
<1>3. DOMAIN inbox = 1..n /\ DOMAIN inbox' = 1..(n + k) /\ DOMAIN new = 1..k
  BY <1>1, <1>2
<1>4. ASSUME NEW m \in Mail' PROVE m \in Mail \union {new[i] : i \in DOMAIN new}
  <2>1. PICK i \in 1..(n + k) : m = inbox'[i]
    BY <1>3 DEF Mail
  <2>2. CASE i <= n
    BY <1>2, <1>3, <2>1, <2>2 DEF Mail
  <2>3. CASE ~(i <= n)
    <3>1. i - n \in 1..k /\ m = new[i - n]
      BY <1>2, <2>1, <2>3
    <3>. QED  BY <1>3, <3>1
  <2>. QED  BY <2>2, <2>3
<1>5. ASSUME NEW m \in Mail PROVE m \in Mail'
  <2>1. PICK i \in 1..n : m = inbox[i]
    BY <1>3 DEF Mail
  <2>2. i \in 1..(n + k) /\ m = inbox'[i]
    BY <1>2, <2>1
  <2>. QED  BY <1>3, <2>2 DEF Mail
<1>6. ASSUME NEW j \in DOMAIN new PROVE new[j] \in Mail'
  <2>1. n + j \in 1..(n + k) /\ inbox'[n + j] = new[j]
    BY <1>2, <1>3
  <2>. QED  BY <1>3, <2>1 DEF Mail
<1>. QED  BY <1>2, <1>4, <1>5, <1>6

LEMMA MailDropped ==
    ASSUME inbox' = <<>>
    PROVE  inbox' \in Seq(Message) /\ Mail' = {}
BY EmptySeq DEF Mail

-----------------------------------------------------------------------------
(* What the session, the player and the messages have to do with each      *)
(* other.  It is proved for the kinds of steps there are; every action is  *)
(* shown to be of one of them.                                             *)

\* An outage and an earlier actor leave their trace in the bounds.
Traces ==
    /\ left.lives <= MaxLives - 1
    /\ left.outages <= MaxOutages
    /\ left.outages = MaxOutages => node = "ready"

\* QuietWhenEmpty, also while commit joins.
Quiet ==
    (/\ session.pc \in {"idle", "joining", "joined"} /\ session.queue.current = None
     /\ node = "ready" /\ lost = 0 /\ left.lives = MaxLives - 1
     /\ \A m \in Mail : m.kind # "connected")
    => player.what = None

\* The generation of a play is never ahead of the session's.
Behind ==
    OnlyOwnPlayers =>
        /\ player.generation <= session.generation
        /\ \A m \in Mail : m.generation <= session.generation

\* A finished event of the play under way is about the end of that play.
FinishedIsTrue ==
    OnlyOwnPlayers /\ session.pc = "idle" /\ session.queue.current # None =>
        \A m \in Mail :
            m.kind = "finished" /\ m.generation = session.generation => BackendFinishedIt

\* An actor that ended well leaves no player and no message.
EndsClean ==
    session.pc = "gone" /\ lost = 0 /\ left.outages = MaxOutages =>
        player = NoPlayer /\ Mail = {}

Agreement ==
    /\ Traces /\ Quiet /\ Behind /\ FinishedIsTrue /\ EndsClean
    /\ BackendHasTheCurrentTrack

\* The rest of the state has its type.
AroundOK ==
    /\ inbox \in Seq(Message)
    /\ node \in {"ready", "lost", "replaced"}
    /\ player \in Player
    /\ discord \in Discord
    /\ lost \in Nat
    /\ left \in [DOMAIN Bounds -> Nat]

Inv == SessionInv(session) /\ AroundOK /\ Agreement

LEMMA MailTyped ==
    ASSUME AroundOK
    PROVE  Mail \subseteq Message
BY DEF AroundOK, Mail

\* Bounds only shrink, and with them the states the exception leaves out.
SameTraces ==
    /\ node' = node /\ left'.lives = left.lives /\ left'.outages = left.outages
    /\ lost' \in Nat /\ lost' >= lost

LEMMA StillOwn ==
    ASSUME AroundOK, SameTraces, OnlyOwnPlayers'
    PROVE  OnlyOwnPlayers
BY DEF AroundOK, SameTraces, OnlyOwnPlayers

SamePlay ==
    player' = player \/ \E paused \in BOOLEAN : player' = [player EXCEPT !.paused = paused]

LEMMA SamePlayFields ==
    ASSUME AroundOK, SamePlay
    PROVE  /\ player' \in Player /\ player'.what = player.what
           /\ player'.generation = player.generation
           /\ player'.ended = player.ended /\ player'.reason = player.reason
BY DEF AroundOK, SamePlay, Player

\* A handler's turn that starts nothing: it ends, or it goes on joining.
Turn ==
    /\ session.pc \in {"idle", "joining", "joined"}
    /\ session'.pc \in {"idle", "leaving", "joining", "joined"}
    /\ session'.generation = session.generation
    /\ session.pc = "idle" \/ session.queue.current = None
    /\ \/ session'.queue.current = session.queue.current
       \/ session'.queue.current = None /\ node # "ready"
    /\ SamePlay /\ SameTraces
    /\ Mail' \subseteq Mail
    /\ \A m \in Mail \ Mail' :
         /\ m.kind # "invalidated"
         /\ m.kind = "connected" => session'.queue.current # None

LEMMA TurnAgrees ==
    ASSUME Inv, Turn
    PROVE  Agreement'
<1>1. AroundOK /\ Agreement
  BY DEF Inv
<1>2. /\ player'.what = player.what /\ player'.generation = player.generation
      /\ player'.ended = player.ended /\ player'.reason = player.reason
  BY <1>1, SamePlayFields DEF Turn
<1>3. Traces'
  BY <1>1 DEF Agreement, Traces, Turn, SameTraces
<1>4. BackendForgot => BackendForgot'
  BY MailForgot DEF Turn
<1>5. BackendHasTheCurrentTrack'
  BY <1>1, <1>2, <1>4 DEF Agreement, BackendHasTheCurrentTrack, Turn
<1>6. Quiet'
  BY <1>1, <1>2 DEF Agreement, AroundOK, Quiet, Turn, SameTraces
<1>7. OnlyOwnPlayers' => OnlyOwnPlayers
  BY <1>1, StillOwn DEF Turn
<1>8. Behind'
  BY <1>1, <1>2, <1>7 DEF Agreement, Behind, Turn
<1>9. FinishedIsTrue'
  BY <1>1, <1>2, <1>4, <1>7 DEF Agreement, FinishedIsTrue, BackendFinishedIt, Turn
<1>10. EndsClean'
  BY DEF EndsClean, Turn
<1>. QED  BY <1>3, <1>5, <1>6, <1>8, <1>9, <1>10 DEF Agreement

\* A handler that goes on in start_current.
Starts ==
    /\ session.pc \in {"idle", "joined"}
    /\ session'.pc = "starting" /\ session'.generation = session.generation
    /\ UNCHANGED player /\ SameTraces
    /\ Mail' \subseteq Mail

LEMMA StartsAgrees ==
    ASSUME Inv, Starts
    PROVE  Agreement'
<1>1. AroundOK /\ Agreement
  BY DEF Inv
<1>2. Traces'
  BY <1>1 DEF Agreement, Traces, Starts, SameTraces
<1>3. Behind'
  BY <1>1, StillOwn DEF Agreement, Behind, Starts
<1>4. Quiet' /\ FinishedIsTrue' /\ EndsClean' /\ BackendHasTheCurrentTrack'
  BY DEF Quiet, FinishedIsTrue, EndsClean, BackendHasTheCurrentTrack, Starts
<1>. QED  BY <1>2, <1>3, <1>4 DEF Agreement

\* What destroy leaves: no player, or an error.
LEMMA DestroyShape ==
    ASSUME AroundOK, Destroy
    PROVE  /\ player' \in {player, NoPlayer} /\ player' \in Player
           /\ lost' \in Nat /\ lost' >= lost
           /\ node = "ready" /\ lost' = 0 => player' = NoPlayer
<1>1. NoPlayer \in Player
  BY DEF NoPlayer, Player
<1>. QED  BY <1>1 DEF AroundOK, Destroy, Answered, Unanswered

\* A handler that ends with nothing to play and has the player destroyed.
Clears ==
    /\ session.pc \in {"idle", "joining"}
    /\ session'.pc \in {"idle", "leaving"}
    /\ session'.queue.current = None
    /\ session'.generation = session.generation
    /\ Destroy
    /\ node' = node /\ left'.lives = left.lives /\ left'.outages = left.outages
    /\ Mail' \subseteq Mail

LEMMA ClearsAgrees ==
    ASSUME Inv, Clears
    PROVE  Agreement'
<1>1. AroundOK /\ Agreement
  BY DEF Inv
<1>2. /\ player' \in {player, NoPlayer}
      /\ lost' \in Nat /\ lost' >= lost
      /\ node = "ready" /\ lost' = 0 => player' = NoPlayer
  BY <1>1, DestroyShape DEF Clears
<1>3. Traces' /\ SameTraces
  BY <1>1, <1>2 DEF Agreement, Traces, Clears, SameTraces
<1>4. Quiet'
  BY <1>2 DEF Quiet, Clears, NoPlayer
<1>5. session.generation \in Nat
  BY DEF Inv, SessionInv, Sound, SessionState
<1>6. Behind'
  BY <1>1, <1>2, <1>3, <1>5, StillOwn DEF Agreement, Behind, Clears, NoPlayer
<1>7. FinishedIsTrue' /\ EndsClean' /\ BackendHasTheCurrentTrack'
  BY DEF FinishedIsTrue, EndsClean, BackendHasTheCurrentTrack, Clears
<1>. QED  BY <1>3, <1>4, <1>6, <1>7 DEF Agreement

\* A round of start_current.
Attempts ==
    LET after == PlayerAfter(session.queue.current, session.generation + 1)
    IN  /\ session.pc = "starting"
        /\ session'.generation = session.generation + 1
        /\ \/ /\ Answered(after)
              /\ session'.pc \in {"idle", "leaving"}
              /\ session'.queue.current = session.queue.current
           \/ /\ Unanswered(after)
              /\ \/ session'.pc \in {"idle", "leaving"} /\ session'.queue.current = None
                 \/ session'.pc = "starting"
        /\ UNCHANGED <<inbox, node, left>>

LEMMA PlayerAfterShape ==
    ASSUME AroundOK, SessionInv(session)
    PROVE  LET after == PlayerAfter(session.queue.current, session.generation + 1)
           IN  /\ after \in Player /\ after.what = session.queue.current
               /\ after.generation = IF session.queue.current = None
                                     THEN player.generation ELSE session.generation + 1
<1>1. session.queue.current \in Track \union {None} /\ session.generation + 1 \in Nat
  BY DEF SessionInv, Sound, SessionState, Queue
<1>2. player \in Player
  BY DEF AroundOK
<1>. QED  BY <1>1, <1>2 DEF PlayerAfter, Player

LEMMA AttemptsAgrees ==
    ASSUME Inv, Attempts
    PROVE  Agreement'
<1>. DEFINE after == PlayerAfter(session.queue.current, session.generation + 1)
<1>1. AroundOK /\ Agreement /\ session.generation \in Nat
  BY DEF Inv, SessionInv, Sound, SessionState
<1>2. /\ after.what = session.queue.current
      /\ after.generation = IF session.queue.current = None
                            THEN player.generation ELSE session.generation + 1
      /\ player.generation \in Nat
  BY PlayerAfterShape DEF Inv, AroundOK, Player
<1>3. \A m \in Mail : m.generation \in Nat
  BY <1>1, MailTyped DEF Message
<1>4. Mail' = Mail
  BY DEF Mail, Attempts
<1>5. /\ player' \in {player, after} /\ lost' \in Nat /\ lost' >= lost
      /\ session'.pc \in {"idle", "leaving", "starting"}
      /\ session'.pc \in {"idle", "leaving"} =>
           \/ session'.queue.current = session.queue.current /\ player' = after
           \/ session'.queue.current = None /\ (node # "ready" \/ lost' # 0)
      /\ session'.generation = session.generation + 1
      /\ node' = node /\ left' = left
  BY <1>1 DEF Attempts, Answered, Unanswered, AroundOK
<1>. HIDE DEF after
<1>6. Traces' /\ SameTraces
  BY <1>1, <1>5 DEF Agreement, Traces, SameTraces
<1>7. Quiet'
  BY <1>2, <1>5 DEF Quiet
<1>8. Behind'
  BY <1>1, <1>2, <1>3, <1>4, <1>5, <1>6, StillOwn DEF Agreement, Behind
<1>9. FinishedIsTrue'
  BY <1>1, <1>3, <1>4, <1>5, <1>6, StillOwn DEF Agreement, Behind, FinishedIsTrue
<1>10. EndsClean'
  BY <1>5 DEF EndsClean
<1>11. BackendHasTheCurrentTrack'
  BY <1>2, <1>5 DEF BackendHasTheCurrentTrack
<1>. QED  BY <1>6, <1>7, <1>8, <1>9, <1>10, <1>11 DEF Agreement

\* What nothing of all this reads: loaders, the watchdog's clock, Discord.
Aside ==
    /\ session'.pc = session.pc /\ session'.generation = session.generation
    /\ session'.queue = session.queue
    /\ UNCHANGED <<inbox, player, node, lost>>
    /\ left'.lives = left.lives /\ left'.outages = left.outages

LEMMA AsideAgrees ==
    ASSUME Inv, Aside
    PROVE  Agreement'
<1>1. Agreement /\ Mail' = Mail
  BY DEF Inv, Mail, Aside
<1>2. BackendHasTheCurrentTrack' /\ (BackendForgot => BackendForgot')
  BY <1>1 DEF Agreement, Aside, BackendHasTheCurrentTrack, BackendForgot
<1>3. Traces' /\ Quiet' /\ Behind' /\ EndsClean'
  BY <1>1 DEF Agreement, Traces, Quiet, Behind, EndsClean, Aside, OnlyOwnPlayers
<1>4. FinishedIsTrue'
  BY <1>1, <1>2 DEF Agreement, FinishedIsTrue, BackendFinishedIt, Aside, OnlyOwnPlayers
<1>. QED  BY <1>1, <1>2, <1>3, <1>4 DEF Agreement

LEMMA BoundsFields ==
    DOMAIN Bounds = {"plays", "commands", "events", "outages", "voice", "lives"}
BY DEF Bounds

LEMMA Spends ==
    ASSUME AroundOK, NEW bound \in {"plays", "commands", "events", "outages", "voice", "lives"},
           Spend(bound)
    PROVE  /\ left' \in [DOMAIN Bounds -> Nat] /\ left' # left
           /\ left'[bound] = left[bound] - 1
           /\ \A b \in DOMAIN Bounds \ {bound} : left'[b] = left[b]
           /\ left.lives \in Nat /\ left.outages \in Nat
BY BoundsFields DEF AroundOK, Spend

LEMMA ExitAgrees ==
    ASSUME Inv, Exit
    PROVE  Agreement'
<1>1. AroundOK /\ Agreement /\ session.generation \in Nat
  BY DEF Inv, SessionInv, Sound, SessionState
<1>2. /\ player' \in {player, NoPlayer} /\ lost' \in Nat /\ lost' >= lost
      /\ node = "ready" /\ lost' = 0 => player' = NoPlayer
  BY <1>1, DestroyShape DEF Exit
<1>3. Mail' = {}
  BY MailDropped DEF Exit
<1>4. /\ Sound(Cleaned(session)) /\ Cleaned(session).generation = session.generation
  BY CleanedSound DEF Inv, SessionInv
<1>5. /\ session'.pc = "gone" /\ session'.generation = session.generation
      /\ node' = node /\ left' = left
  BY <1>4 DEF Exit, Sound, SessionState
<1>6. Traces' /\ SameTraces
  BY <1>1, <1>2, <1>5 DEF Agreement, Traces, SameTraces
<1>7. Behind'
  BY <1>1, <1>2, <1>3, <1>5, <1>6, StillOwn DEF Agreement, Behind, NoPlayer
<1>8. EndsClean'
  BY <1>1, <1>2, <1>3, <1>5 DEF Agreement, Traces, EndsClean
<1>9. Quiet' /\ FinishedIsTrue' /\ BackendHasTheCurrentTrack'
  BY <1>5 DEF Quiet, FinishedIsTrue, BackendHasTheCurrentTrack
<1>. QED  BY <1>6, <1>7, <1>8, <1>9 DEF Agreement

LEMMA RespawnAgrees ==
    ASSUME Inv, Respawn
    PROVE  Agreement'
<1>1. AroundOK /\ Agreement
  BY DEF Inv
<1>2. /\ left.lives \in Nat /\ left'.lives = left.lives - 1
      /\ left'.outages = left.outages
  BY <1>1, Spends, BoundsFields DEF Respawn
<1>3. /\ session.pc = "gone" /\ session' = NewSession /\ Mail' = Mail
      /\ player' = player /\ lost' = lost /\ node' = node
  BY DEF Respawn, NoRequest, Mail
<1>4. Traces' /\ left'.lives # MaxLives - 1
  BY <1>1, <1>2, <1>3, BoundsAssumption DEF Agreement, Traces
<1>5. Behind'
  BY <1>1, <1>2, <1>3, <1>4
     DEF Agreement, Behind, EndsClean, OnlyOwnPlayers, NoPlayer, NewSession
<1>6. /\ session'.queue.current = None /\ session'.pc = "idle"
  BY <1>3 DEF NewSession, EmptyQueue
<1>7. Quiet' /\ FinishedIsTrue' /\ BackendHasTheCurrentTrack' /\ EndsClean'
  BY <1>4, <1>6 DEF Quiet, FinishedIsTrue, BackendHasTheCurrentTrack, EndsClean
<1>. QED  BY <1>4, <1>5, <1>7 DEF Agreement

LEMMA DeliverShape ==
    ASSUME AroundOK, NEW messages \in Seq(Message), Deliver(messages)
    PROVE  /\ inbox' \in Seq(Message) /\ Mail \subseteq Mail'
           /\ Mail' \subseteq Mail \union {messages[i] : i \in DOMAIN messages}
           /\ session.pc = "gone" => Mail' = Mail
           /\ session.pc # "gone" =>
                Mail' = Mail \union {messages[i] : i \in DOMAIN messages}
<1>1. CASE session.pc = "gone"
  BY <1>1 DEF Deliver, Mail, AroundOK
<1>2. CASE session.pc # "gone"
  BY <1>2, MailDelivered DEF Deliver, AroundOK
<1>. QED  BY <1>1, <1>2

LEMMA EmitShape ==
    ASSUME AroundOK, NEW messages \in Seq(Message), Emit(messages)
    PROVE  /\ inbox' \in Seq(Message) /\ Mail \subseteq Mail'
           /\ Mail' \subseteq Mail \union {messages[i] : i \in DOMAIN messages}
           /\ session.pc = "gone" => Mail' = Mail
           /\ left' \in [DOMAIN Bounds -> Nat]
           /\ left'.lives = left.lives /\ left'.outages = left.outages
<1>1. CASE Deliver(messages) /\ UNCHANGED left
  BY <1>1, DeliverShape DEF AroundOK
<1>2. CASE inbox' = inbox /\ Spend("events")
  <2>1. Mail' = Mail /\ inbox' \in Seq(Message)
    BY <1>2 DEF Mail, AroundOK
  <2>2. /\ left' \in [DOMAIN Bounds -> Nat]
        /\ left'.lives = left.lives /\ left'.outages = left.outages
    BY <1>2, Spends, BoundsFields
  <2>. QED  BY <2>1, <2>2
<1>. QED  BY <1>1, <1>2 DEF Emit

\* The player begins or ends a track, or its voice connection closes.
PlayerActs ==
    /\ UNCHANGED <<session, node, lost>>
    /\ left'.lives = left.lives /\ left'.outages = left.outages
    /\ player.what # None
    /\ player' \in Player /\ player'.generation = player.generation
    /\ \/ player'.what = player.what
       \/ player'.what = None /\ player'.ended = player.generation
    /\ Mail \subseteq Mail'
    /\ \A m \in Mail' \ Mail :
         /\ m.generation = player.generation
         /\ m.kind = "finished" => player'.what = None /\ player'.reason = "finished"

LEMMA PlayerActsAgrees ==
    ASSUME Inv, PlayerActs
    PROVE  Agreement'
<1>1. AroundOK /\ Agreement /\ session.generation \in Nat
  BY DEF Inv, SessionInv, Sound, SessionState
<1>2. player \in Player
  BY <1>1 DEF AroundOK
<1>3. SameTraces /\ Traces'
  BY <1>1 DEF AroundOK, Agreement, Traces, PlayerActs, SameTraces
<1>4. BackendForgot => BackendForgot'
  BY MailForgot DEF PlayerActs
<1>5. BackendHasTheCurrentTrack'
  BY <1>1, <1>4 DEF Agreement, BackendHasTheCurrentTrack, PlayerActs
<1>6. Quiet'
  BY <1>1 DEF Agreement, Quiet, PlayerActs
<1>7. Behind'
  BY <1>1, <1>3, StillOwn DEF Agreement, Behind, PlayerActs
<1>8. FinishedIsTrue'
  <2>. SUFFICES ASSUME OnlyOwnPlayers', session.pc = "idle", session.queue.current # None,
                       NEW m \in Mail', m.kind = "finished",
                       m.generation = session.generation
                PROVE  BackendFinishedIt'
    BY DEF FinishedIsTrue, PlayerActs
  <2>1. OnlyOwnPlayers
    BY <1>1, <1>3, StillOwn
  <2>2. CASE m \in Mail
    <3>1. BackendForgot
      BY <1>1, <2>1, <2>2 DEF Agreement, FinishedIsTrue, BackendFinishedIt, PlayerActs
    <3>. QED  BY <1>4, <3>1 DEF BackendFinishedIt
  <2>3. CASE m \notin Mail
    <3>1. /\ player.generation = session.generation
          /\ player'.what = None /\ player'.reason = "finished"
      BY <2>3 DEF PlayerActs
    <3>2. player'.ended = session'.generation
      BY <3>1 DEF PlayerActs
    <3>. QED  BY <3>1, <3>2 DEF BackendFinishedIt
  <2>. QED  BY <2>2, <2>3
<1>9. EndsClean'
  BY <1>1 DEF Agreement, EndsClean, PlayerActs, NoPlayer
<1>. QED  BY <1>3, <1>5, <1>6, <1>7, <1>8, <1>9 DEF Agreement

LEMMA EventTyped ==
    ASSUME AroundOK, NEW kind \in {"started", "finished", "failed", "closed"}
    PROVE  /\ <<Event(kind)>> \in Seq(Message) /\ <<Event(kind), Event(kind)>> \in Seq(Message)
           /\ \A i \in DOMAIN <<Event(kind)>> : <<Event(kind)>>[i] = Event(kind)
           /\ \A i \in DOMAIN <<Event(kind), Event(kind)>> :
                <<Event(kind), Event(kind)>>[i] = Event(kind)
           /\ Event(kind).generation = player.generation /\ Event(kind).kind = kind
<1>1. /\ Event(kind) \in Message
      /\ Event(kind).generation = player.generation /\ Event(kind).kind = kind
  BY DEF Event, Message, AroundOK, Player
<1>. QED  BY <1>1

LEMMA EventsEmitted ==
    ASSUME AroundOK, NEW kind \in {"started", "finished", "failed", "closed"},
           Emit(<<Event(kind)>>) \/ Emit(<<Event(kind), Event(kind)>>)
    PROVE  /\ inbox' \in Seq(Message) /\ Mail \subseteq Mail'
           /\ \A m \in Mail' \ Mail : m.generation = player.generation /\ m.kind = kind
           /\ left' \in [DOMAIN Bounds -> Nat]
           /\ left'.lives = left.lives /\ left'.outages = left.outages
<1>1. PICK messages \in Seq(Message) :
        /\ Emit(messages) /\ \A i \in DOMAIN messages : messages[i] = Event(kind)
  BY EventTyped
<1>2. \A m \in Mail' \ Mail : m = Event(kind)
  BY <1>1, EmitShape
<1>. QED  BY <1>1, <1>2, EmitShape, EventTyped

LEMMA PlayerStepsAct ==
    ASSUME AroundOK, PlayerBegins \/ PlayerFinishes \/ PlayerFails \/ PlayerClosed
    PROVE  PlayerActs /\ AroundOK'
<1>. player \in Player
  BY DEF AroundOK
<1>1. CASE PlayerBegins
  <2>1. /\ player' \in Player /\ player'.what = player.what
        /\ player'.generation = player.generation /\ player.what # None
        /\ UNCHANGED <<session, node, discord, lost>> /\ Emit(<<Event("started")>>)
    BY <1>1 DEF PlayerBegins, Player, Emits
  <2>. QED  BY <2>1, EventsEmitted DEF PlayerActs, AroundOK
<1>2. CASE PlayerFinishes
  <2>1. /\ player' \in Player /\ player'.what = None /\ player'.ended = player.generation
        /\ player'.generation = player.generation /\ player.what # None
        /\ player'.reason = "finished"
        /\ UNCHANGED <<session, node, discord, lost>> /\ Emit(<<Event("finished")>>)
    BY <1>2 DEF PlayerFinishes, Ended, Player, Emits, Playing
  <2>. QED  BY <2>1, EventsEmitted DEF PlayerActs, AroundOK
<1>3. CASE PlayerFails
  <2>1. /\ player' \in Player /\ player'.what = None /\ player'.ended = player.generation
        /\ player'.generation = player.generation /\ player.what # None
        /\ UNCHANGED <<session, node, discord, lost>>
        /\ Emit(<<Event("failed"), Event("failed")>>)
    BY <1>3 DEF PlayerFails, Ended, Player, Emits
  <2>. QED  BY <2>1, EventsEmitted DEF PlayerActs, AroundOK
<1>4. CASE PlayerClosed
  <2>1. /\ player.what # None /\ UNCHANGED <<session, player, node, discord, lost>>
        /\ Deliver(<<Event("closed")>>) /\ Spend("voice")
    BY <1>4 DEF PlayerClosed, NoRequest
  <2>2. /\ left' \in [DOMAIN Bounds -> Nat]
        /\ left'.lives = left.lives /\ left'.outages = left.outages
    BY <2>1, Spends, BoundsFields
  <2>. DEFINE e == Event("closed")
              messages == <<e>>
  <2>3. /\ inbox' \in Seq(Message) /\ Mail \subseteq Mail'
        /\ \A m \in Mail' \ Mail : m = e
    <3>1. messages \in Seq(Message) /\ \A i \in DOMAIN messages : messages[i] = e
      BY EventTyped
    <3>2. Deliver(messages)
      BY <2>1
    <3>. HIDE DEF messages, e
    <3>. QED  BY <3>1, <3>2, DeliverShape
  <2>4. \A m \in Mail' \ Mail : m.generation = player.generation /\ m.kind = "closed"
    BY <2>3, EventTyped
  <2>. QED  BY <2>1, <2>2, <2>3, <2>4 DEF PlayerActs, AroundOK
<1>. QED  BY <1>1, <1>2, <1>3, <1>4

NodeSteps == NodeLost \/ NodeReplaced \/ NodeConnected

LEMMA NodeStepsAgree ==
    ASSUME Inv, NodeSteps
    PROVE  Agreement' /\ AroundOK' /\ session' = session
<1>1. AroundOK /\ Agreement /\ session.generation \in Nat
  BY DEF Inv, SessionInv, Sound, SessionState
<1>2. CASE NodeLost
  <2>1. /\ left' \in [DOMAIN Bounds -> Nat] /\ left'.lives = left.lives
        /\ left.outages \in Nat /\ left'.outages = left.outages - 1
    BY <1>1, <1>2, Spends, BoundsFields DEF NodeLost
  <2>2. /\ UNCHANGED <<session, player, inbox, discord, lost>> /\ node' = "lost"
        /\ Mail' = Mail
    BY <1>2 DEF NodeLost, NoRequest, Mail
  <2>3. AroundOK'
    BY <1>1, <2>1, <2>2 DEF AroundOK
  <2>4. Traces' /\ left'.outages # MaxOutages
    BY <1>1, <2>1, BoundsAssumption DEF Agreement, Traces
  <2>5. OnlyOwnPlayers' => OnlyOwnPlayers
    BY <2>1, <2>4 DEF OnlyOwnPlayers
  <2>6. BackendForgot' <=> BackendForgot
    BY <2>2 DEF BackendForgot
  <2>7. Behind' /\ FinishedIsTrue'
    BY <1>1, <2>2, <2>5, <2>6 DEF Agreement, Behind, FinishedIsTrue, BackendFinishedIt
  <2>8. Quiet' /\ EndsClean'
    BY <2>2, <2>4 DEF Quiet, EndsClean
  <2>9. BackendHasTheCurrentTrack'
    BY <1>1, <2>2, <2>6 DEF Agreement, BackendHasTheCurrentTrack
  <2>. QED  BY <2>2, <2>3, <2>4, <2>7, <2>8, <2>9 DEF Agreement
<1>3. CASE NodeReplaced \/ NodeConnected
  <2>1. PICK m \in Message :
          /\ Deliver(<<m>>) /\ m.generation = 0
          /\ m.kind = IF NodeReplaced THEN "invalidated" ELSE "connected"
          /\ node # "ready" /\ node' = IF NodeReplaced THEN "replaced" ELSE "ready"
          /\ player' = IF NodeReplaced THEN NoPlayer ELSE player
          /\ UNCHANGED <<session, discord, lost, left>>
    <3>1. CASE NodeReplaced
      BY <3>1 DEF NodeReplaced, Message
    <3>2. CASE NodeConnected /\ ~NodeReplaced
      BY <3>2 DEF NodeConnected, NoRequest, Message
    <3>. QED  BY <1>3, <3>1, <3>2
  <2>2. <<m>> \in Seq(Message) /\ {<<m>>[i] : i \in DOMAIN <<m>>} = {m}
    OBVIOUS
  <2>3. /\ inbox' \in Seq(Message) /\ Mail \subseteq Mail' /\ Mail' \subseteq Mail \union {m}
        /\ session.pc = "gone" => Mail' = Mail
        /\ session.pc # "gone" => m \in Mail'
    BY <1>1, <2>1, <2>2, DeliverShape
  <2>4. AroundOK'
    <3>1. NoPlayer \in Player
      BY DEF NoPlayer, Player
    <3>. QED  BY <1>1, <2>1, <2>3, <3>1 DEF AroundOK
  <2>5. Traces' /\ left.outages # MaxOutages /\ (OnlyOwnPlayers' <=> OnlyOwnPlayers)
    BY <1>1, <2>1 DEF Agreement, Traces, OnlyOwnPlayers
  <2>6. Quiet'
    BY <2>1, <2>3 DEF Quiet, NoPlayer
  <2>7. Behind'
    BY <1>1, <2>1, <2>3, <2>5 DEF Agreement, Behind, NoPlayer
  <2>8. /\ BackendForgot => BackendForgot'
        /\ NodeReplaced /\ session.pc # "gone" => BackendForgot'
    BY <2>1, <2>3, MailForgot
  <2>9. FinishedIsTrue'
    <3>1. CASE NodeReplaced
      BY <2>1, <2>8, <3>1 DEF FinishedIsTrue, BackendFinishedIt
    <3>2. CASE ~NodeReplaced
      BY <1>1, <2>1, <2>3, <2>5, <2>8, <3>2 DEF Agreement, FinishedIsTrue, BackendFinishedIt
    <3>. QED  BY <3>1, <3>2
  <2>10. EndsClean'
    BY <2>1, <2>5 DEF EndsClean
  <2>11. BackendHasTheCurrentTrack'
    BY <1>1, <2>1, <2>8 DEF Agreement, BackendHasTheCurrentTrack
  <2>. QED  BY <2>1, <2>4, <2>5, <2>6, <2>7, <2>9, <2>10, <2>11 DEF Agreement
<1>. QED  BY <1>2, <1>3 DEF NodeSteps

-----------------------------------------------------------------------------
(* The ways a handler ends, whichever handler it is.                       *)

\* Tracks are only added for somebody who is in the channel played in.
Fair ==
    \/ NoNewTracks(session.queue, session'.queue)
    \/ \E u \in Users :
         /\ discord.where[u] = session'.channel
         /\ \A T \in SUBSET Track :
              Good(session.queue, T, MaxTracks) =>
                Good(session'.queue, T \union {t \in Track : t.requester_id = u}, MaxTracks)

BoundsKept ==
    /\ left' \in [DOMAIN Bounds -> Nat]
    /\ left'.lives = left.lives /\ left'.outages = left.outages

LEMMA BoundsAreKept ==
    ASSUME AroundOK,
           UNCHANGED left \/ \E bound \in {"plays", "commands", "events", "voice"} : Spend(bound)
    PROVE  BoundsKept
<1>1. CASE UNCHANGED left
  BY <1>1 DEF AroundOK, BoundsKept
<1>2. CASE \E bound \in {"plays", "commands", "events", "voice"} : Spend(bound)
  <2>1. PICK bound \in {"plays", "commands", "events", "voice"} : Spend(bound)
    BY <1>2
  <2>. QED  BY <2>1, Spends, BoundsFields DEF BoundsKept
<1>. QED  BY <1>1, <1>2

\* At most the oldest message is taken.
Hears == inbox' = inbox \/ (inbox # <<>> /\ inbox' = Tail(inbox))

LEMMA HearsMail ==
    ASSUME AroundOK, Hears
    PROVE  /\ inbox' \in Seq(Message) /\ Mail' \subseteq Mail
           /\ inbox' = inbox => Mail' = Mail
           /\ Mail \subseteq Mail' \union {Head(inbox)}
<1>1. CASE inbox' = inbox
  BY <1>1 DEF AroundOK, Mail
<1>2. CASE inbox' # inbox
  BY <1>2, MailReceived DEF AroundOK, Hears
<1>. QED  BY <1>1, <1>2

Steady == node' = node /\ discord' = discord /\ BoundsKept /\ lost' \in Nat /\ lost' >= lost

LEMMA TurnKeeps ==
    ASSUME Inv, session.pc = "idle", NEW s, Sound(s), Timed(s),
           NoNewTracks(session.queue, s.queue),
           s.queue.current = session.queue.current, s.generation = session.generation,
           session' = EndOfTurn(s), SamePlay, Steady, Hears,
           inbox' # inbox =>
             /\ Head(inbox).kind # "invalidated"
             /\ Head(inbox).kind = "connected" => session.queue.current # None
    PROVE  Inv' /\ Fair /\ session'.pc # "starting"
<1>1. AroundOK /\ Agreement
  BY DEF Inv
<1>2. /\ SessionInv(session') /\ session'.pc \in {"idle", "leaving"}
      /\ session'.queue = s.queue /\ session'.generation = session.generation
  BY EndOfTurnInv
<1>3. AroundOK'
  BY <1>1, SamePlayFields, HearsMail DEF AroundOK, Steady, BoundsKept
<1>4. Turn
  BY <1>1, <1>2, HearsMail DEF Turn, Steady, BoundsKept, SameTraces
<1>5. Agreement'
  BY <1>4, TurnAgrees
<1>. QED  BY <1>2, <1>3, <1>5 DEF Inv, Fair

LEMMA StartKeeps ==
    ASSUME Inv, session.pc = "idle", NEW s, Sound(s), s.channel # None,
           s.generation = session.generation,
           NEW q, NoNewTracks(s.queue, q), NoNewTracks(session.queue, q),
           session' = Starting(s, q), UNCHANGED player, Steady, Hears
    PROVE  Inv' /\ Fair
<1>1. AroundOK /\ Agreement
  BY DEF Inv
<1>2. /\ SessionInv(session') /\ session'.pc = "starting"
      /\ session'.queue = q /\ session'.generation = session.generation
  BY StartingInv
<1>3. AroundOK'
  BY <1>1, HearsMail DEF AroundOK, Steady, BoundsKept
<1>4. Starts
  BY <1>1, <1>2, HearsMail DEF Starts, Steady, BoundsKept, SameTraces
<1>5. Agreement'
  BY <1>4, StartsAgrees
<1>. QED  BY <1>2, <1>3, <1>5 DEF Inv, Fair

LEMMA ClearKeeps ==
    ASSUME Inv, session.pc \in {"idle", "joining"}, NEW s, Sound(s), Timed(s),
           s.queue.current = None, s.generation = session.generation,
           NoNewTracks(session.queue, s.queue),
           session' = EndOfTurn(s), Destroy, discord' \in Discord, node' = node,
           BoundsKept, Hears
    PROVE  Inv' /\ Fair /\ session'.pc # "starting"
<1>1. AroundOK /\ Agreement
  BY DEF Inv
<1>2. /\ SessionInv(session') /\ session'.pc \in {"idle", "leaving"}
      /\ session'.queue = s.queue /\ session'.generation = session.generation
  BY EndOfTurnInv
<1>3. AroundOK'
  BY <1>1, HearsMail, DestroyShape DEF AroundOK, BoundsKept
<1>4. Clears
  BY <1>1, <1>2, HearsMail DEF Clears, BoundsKept
<1>5. Agreement'
  BY <1>4, ClearsAgrees
<1>. QED  BY <1>2, <1>3, <1>5 DEF Inv, Fair

LEMMA GatewayAsked ==
    ASSUME AroundOK, NEW place \in Place
    PROVE  [discord EXCEPT !.gateway = Append(@, place)] \in Discord
<1>1. discord \in Discord /\ Append(discord.gateway, place) \in Seq(Place)
  BY AppendProperties DEF AroundOK, Discord
<1>. QED  BY <1>1 DEF Discord

LEMMA CleanupKeeps ==
    ASSUME Inv, session.pc \in {"idle", "joining"}, NEW s, Sound(s),
           s.generation = session.generation,
           session' = EndOfTurn(Cleaned(s)), Destroy, node' = node,
           discord' = [discord EXCEPT !.gateway = Append(@, None)],
           BoundsKept, Hears
    PROVE  Inv' /\ Fair /\ session'.pc # "starting"
<1>1. LET t == Cleaned(s)
      IN  /\ Sound(t) /\ t.channel = None /\ t.queue = EmptyQueue
          /\ t.queue.current = None /\ t.generation = s.generation
  BY CleanedSound
<1>2. Timed(Cleaned(s))
  BY <1>1 DEF Timed
<1>3. NoNewTracks(session.queue, Cleaned(s).queue)
  BY <1>1, EmptyTakesNone
<1>4. discord' \in Discord
  BY GatewayAsked DEF Inv, Place
<1>. HIDE DEF Cleaned
<1>. QED  BY <1>1, <1>2, <1>3, <1>4, ClearKeeps

\* Between two handlers the session is sound and its idle timer right.
LEMMA IdleSession ==
    ASSUME Inv
    PROVE  /\ AroundOK /\ Sound(session) /\ session \in SessionState
           /\ session.queue \in Queue /\ session.generation \in Nat
           /\ session.pc = "idle" => Timed(session)
           /\ NoNewTracks(session.queue, session.queue)
           /\ session.queue.current # None => session.channel # None
BY SameQueue DEF Inv, SessionInv, Sound, SessionState, Parked

LEMMA SteadyRequests ==
    ASSUME AroundOK, UNCHANGED <<node, discord>>, BoundsKept, UNCHANGED lost \/ lost' = lost + 1
    PROVE  Steady
BY DEF AroundOK, Steady

\* A handler may change what no timer and no request depends on.
Touched(t) ==
    /\ t \in SessionState /\ SameRequests(session, t)
    /\ t.queue = session.queue /\ t.channel = session.channel
    /\ t.idle_at = session.idle_at /\ t.alone_at = session.alone_at
    /\ t.generation = session.generation

LEMMA TouchedSound ==
    ASSUME Inv, session.pc = "idle", NEW t, Touched(t)
    PROVE  Sound(t) /\ Timed(t)
<1>1. Sound(t)
  BY IdleSession, KeepsSound DEF Touched, Parked, Sound
<1>. QED  BY <1>1, IdleSession DEF Touched, Timed

LEMMA AfterVoiceSound ==
    ASSUME Inv, session.pc = "idle"
    PROVE  LET t == AfterVoice
           IN  /\ Sound(t) /\ Timed(t) /\ t.queue = session.queue
               /\ t.channel = session.channel /\ t.generation = session.generation
<1>1. CASE ~Watching
  BY <1>1, IdleSession DEF AfterVoice
<1>2. CASE Watching
  <2>. DEFINE s == IF ServerIsNew THEN [session EXCEPT !.credentials = discord.server]
                  ELSE session
  <2>1. discord.server \in Nat
    BY IdleSession DEF AroundOK, Discord
  <2>2. Touched(s)
    BY <2>1, IdleSession DEF Touched, SessionState, SameRequests
  <2>3. AfterVoice = UpdateAlone(s)
    BY <1>2 DEF AfterVoice
  <2>. HIDE DEF s
  <2>4. Sound(s) /\ Timed(s)
    BY <2>2, TouchedSound
  <2>. QED  BY <2>2, <2>3, <2>4, UpdateAloneSound DEF Touched, Timed
<1>. QED  BY <1>1, <1>2

-----------------------------------------------------------------------------
(* /play, by action.                                                       *)

LEMMA PlayRequestKeeps ==
    ASSUME Inv, PlayRequest
    PROVE  Inv' /\ Fair /\ session'.pc # "starting"
<1>1. PICK u \in Users :
        /\ session.pc = "idle" /\ discord.where[u] # None
        /\ Waiting(session) < MaxPending
        /\ session' = EndOfTurn(Admit(session, u, discord.where[u]))
        /\ Spend("plays") /\ NoRequest /\ UNCHANGED <<inbox, node, discord>>
  BY DEF PlayRequest, Acting
<1>2. discord.where[u] \in Channels
  BY <1>1, IdleSession DEF AroundOK, Discord, Place
<1>. DEFINE t == Admit(session, u, discord.where[u])
<1>3. /\ Sound(t) /\ t.queue = session.queue /\ t.channel = session.channel
      /\ t.idle_at = session.idle_at /\ t.generation = session.generation
  BY <1>1, <1>2, IdleSession, AdmitSound
<1>4. Timed(t)
  BY <1>1, <1>3, IdleSession DEF Timed
<1>5. Steady /\ SamePlay /\ Hears
  BY <1>1, IdleSession, SteadyRequests, BoundsAreKept DEF NoRequest, SamePlay, Hears
<1>6. session' = EndOfTurn(t)
  BY <1>1
<1>. HIDE DEF t
<1>. QED  BY <1>1, <1>3, <1>4, <1>5, <1>6, IdleSession, TurnKeeps

\* A task that ends stays the task of its request.
LEMMA LoaderCompletesKeeps ==
    ASSUME Inv, LoaderCompletes
    PROVE  Inv' /\ Fair /\ ~MovesOnAsFinished
<1>1. PICK loader \in session.loaders, songs \in BoundedSeq(Songs, 2),
           state \in {"loaded", "failed", "panicked"} :
        /\ session' = [session EXCEPT !.loaders =
                         (session.loaders \ {loader}) \union
                         {[loader EXCEPT !.state = state, !.songs = songs]}]
        /\ NoRequest /\ UNCHANGED <<inbox, node, discord, left>>
  <2>1. PICK loader \in session.loaders, songs \in BoundedSeq(Songs, 2) :
          /\ \E state \in IF songs = <<>> THEN {"failed", "panicked"} ELSE {"loaded"} :
               session' = [session EXCEPT !.loaders =
                             (@ \ {loader}) \union
                             {[loader EXCEPT !.state = state, !.songs = songs]}]
          /\ NoRequest /\ UNCHANGED <<inbox, node, discord, left>>
    BY DEF LoaderCompletes
  <2>2. PICK state \in {"loaded", "failed", "panicked"} :
          session' = [session EXCEPT !.loaders =
                        (session.loaders \ {loader}) \union
                        {[loader EXCEPT !.state = state, !.songs = songs]}]
    BY <2>1, IdleSession DEF SessionState
  <2>. QED  BY <2>1, <2>2
<1>. DEFINE done == [loader EXCEPT !.state = state, !.songs = songs]
            loaders == (session.loaders \ {loader}) \union {done}
<1>2. songs \in Seq(Songs)
  <2>1. PICK m \in 0..2 : songs \in [1..m -> Songs]
    BY DEF BoundedSeq, SeqOf
  <2>. QED  BY <2>1
<1>3. loader \in Loader
  BY IdleSession DEF SessionState
<1>4. done \in Loader /\ done.sequence = loader.sequence
  BY <1>2, <1>3 DEF Loader
<1>. HIDE DEF done
<1>5. loaders \in SUBSET Loader
  BY <1>4, IdleSession DEF SessionState
<1>6. ASSUME NEW n, \E l \in session.loaders : l.sequence = n
      PROVE  \E l \in loaders : l.sequence = n
  BY <1>4, <1>6
<1>7. session' = [session EXCEPT !.loaders = loaders]
  BY <1>1 DEF done
<1>. HIDE DEF loaders
<1>8. /\ session' \in SessionState /\ session'.loaders = loaders
      /\ session'.pc = session.pc /\ session'.queue = session.queue
      /\ session'.channel = session.channel /\ session'.generation = session.generation
      /\ session'.sequence = session.sequence /\ session'.canceled = session.canceled
      /\ session'.pending = session.pending /\ session'.loading = session.loading
      /\ session'.idle_at = session.idle_at /\ session'.alone_at = session.alone_at
      /\ session'.committing = session.committing /\ session'.resolution = session.resolution
  BY <1>5, <1>7, IdleSession DEF SessionState
<1>9. Sound(session')
  BY <1>6, <1>8, IdleSession DEF Sound, Resolving, Waiting, Parked
<1>10. SessionInv(session')
  BY <1>8, <1>9 DEF Inv, SessionInv, Timed, Holding
<1>11. Aside /\ AroundOK'
  BY <1>1, <1>8 DEF Inv, Aside, NoRequest, AroundOK
<1>. QED  BY <1>8, <1>10, <1>11, AsideAgrees, IdleSession DEF Inv, Fair, MovesOnAsFinished

LEMMA EnqueuedIsFair ==
    ASSUME NEW pending \in Pending, discord.where[pending.user] = session'.channel,
           \A T \in SUBSET Track :
             Good(session.queue, T, MaxTracks) =>
               Good(session'.queue,
                    T \union {u \in Track : u.requester_id = pending.user}, MaxTracks)
    PROVE  Fair
<1>1. pending.user \in Users
  BY DEF Pending
<1>. QED  BY <1>1 DEF Fair

\* A session that got its result goes on as commit decides.
LEMMA CommitKeeps ==
    ASSUME Inv, session.pc = "idle", NEW s, Sound(s), Timed(s), s.pc = "idle",
           s.queue = session.queue, s.generation = session.generation,
           NEW pending \in Pending, NEW loader \in Loader,
           loader.sequence > s.canceled,
           Commit(s, pending, loader), UNCHANGED inbox
    PROVE  Inv' /\ Fair /\ ~MovesOnAsFinished
<1>1. AroundOK /\ Agreement /\ s \in SessionState /\ NoNewTracks(session.queue, s.queue)
  BY IdleSession DEF Inv, Sound
<1>2. Hears /\ Mail' = Mail
  BY DEF Hears, Mail
<1>3. CASE ~Wanted(s, pending) \/ ~Access(pending)
  <2>1. session' = EndOfTurn(s) /\ SamePlay /\ Steady
    BY <1>1, <1>3, SteadyRequests, BoundsAreKept DEF Commit, Done, NoRequest, SamePlay
  <2>. QED  BY <1>1, <1>2, <2>1, TurnKeeps DEF MovesOnAsFinished
<1>4. CASE Wanted(s, pending) /\ Access(pending) /\ s.channel = None
  <2>1. /\ session' = [s EXCEPT !.committing = pending, !.resolution = loader,
                                !.pc = "joining"]
        /\ discord' = [discord EXCEPT !.server = 0,
                                      !.gateway = Append(discord.gateway, pending.channel)]
        /\ UNCHANGED <<player, lost, node, left>>
    BY <1>1, <1>4 DEF Commit, Join, NoRequest, AroundOK, Discord
  <2>2. discord' \in Discord
    <3>1. pending.channel \in Place
      BY DEF Pending, Place
    <3>2. discord \in Discord /\ Append(discord.gateway, pending.channel) \in Seq(Place)
      BY <1>1, <3>1, AppendProperties DEF AroundOK, Discord
    <3>. QED  BY <2>1, <3>2 DEF Discord
  <2>3. /\ session' \in SessionState /\ SameRequests(s, session')
        /\ session'.queue = s.queue /\ session'.channel = s.channel
        /\ session'.idle_at = s.idle_at /\ session'.alone_at = s.alone_at
        /\ session'.pc = "joining" /\ session'.generation = s.generation
        /\ session'.committing = pending /\ session'.resolution = loader
    BY <1>1, <2>1 DEF SessionState, SameRequests
  <2>4. Sound(session')
    BY <1>1, <2>3, SameQueue, KeepsSound DEF Parked, Sound
  <2>5. SessionInv(session')
    BY <1>4, <2>3, <2>4 DEF SessionInv, Holding, SameRequests
  <2>6. AroundOK'
    BY <1>1, <2>1, <2>2 DEF AroundOK
  <2>7. Turn
    BY <1>1, <1>2, <2>1, <2>3 DEF Turn, SamePlay, SameTraces, AroundOK
  <2>. QED  BY <1>1, <2>3, <2>5, <2>6, <2>7, TurnAgrees DEF Inv, Fair, MovesOnAsFinished
<1>5. CASE Wanted(s, pending) /\ Access(pending) /\ s.channel # None
  <2>. DEFINE t == Enqueued(s, pending, loader)
  <2>1. /\ AfterEnqueue(t) /\ UNCHANGED <<player, lost, node, discord, left>>
    BY <1>5 DEF Commit, NoRequest
  <2>2. /\ Sound(t) /\ t.channel = s.channel /\ t.generation = s.generation
        /\ s.queue.current = None => t.pc = "starting" /\ SessionInv(t)
        /\ s.queue.current # None =>
             Timed(t) /\ t.pc = s.pc /\ t.queue.current = s.queue.current
        /\ \A T \in SUBSET Track :
             Good(s.queue, T, MaxTracks) =>
               Good(t.queue, T \union {u \in Track : u.requester_id = pending.user}, MaxTracks)
    BY <1>5, EnqueuedInv
  <2>3. discord.where[pending.user] = s.channel
    BY <1>5 DEF Access, Wanted
  <2>. HIDE DEF t
  <2>4. SameTraces /\ AroundOK'
    BY <1>1, <2>1 DEF AroundOK, SameTraces
  <2>5. CASE s.queue.current = None
    <3>1. session' = t
      BY <2>1, <2>2, <2>5 DEF AfterEnqueue
    <3>2. Starts
      BY <1>2, <2>1, <2>2, <2>4, <2>5, <3>1 DEF Starts
    <3>3. Fair
      BY <2>2, <2>3, <3>1, EnqueuedIsFair
    <3>. QED  BY <2>2, <2>4, <2>5, <3>1, <3>2, <3>3, StartsAgrees DEF Inv, MovesOnAsFinished
  <2>6. CASE s.queue.current # None
    <3>. DEFINE w == UpdateAlone(t)
    <3>1. session' = EndOfTurn(w)
      BY <2>1, <2>2, <2>6 DEF AfterEnqueue
    <3>2. /\ Sound(w) /\ w.queue = t.queue /\ w.channel = t.channel
          /\ w.idle_at = t.idle_at /\ w.generation = t.generation
      BY <2>2, UpdateAloneSound
    <3>. HIDE DEF w
    <3>3. Timed(w)
      BY <2>2, <2>6, <3>2 DEF Timed
    <3>4. /\ SessionInv(session') /\ session'.pc \in {"idle", "leaving"}
          /\ session'.queue = t.queue /\ session'.channel = s.channel
          /\ session'.generation = session.generation
      BY <2>2, <3>1, <3>2, <3>3, EndOfTurnInv
    <3>5. Turn
      BY <1>2, <2>1, <2>2, <2>4, <2>6, <3>4 DEF Turn, SamePlay
    <3>6. Fair
      BY <2>2, <2>3, <3>4, EnqueuedIsFair
    <3>. QED  BY <2>4, <3>4, <3>5, <3>6, TurnAgrees DEF Inv, MovesOnAsFinished
  <2>. QED  BY <2>5, <2>6
<1>. QED  BY <1>3, <1>4, <1>5

LEMMA LoaderJoinedKeeps ==
    ASSUME Inv, LoaderJoined
    PROVE  Inv' /\ Fair /\ ~MovesOnAsFinished
<1>1. PICK loader \in session.loaders :
        LET rest == [session EXCEPT !.loaders = @ \ {loader}]
            answered == [rest EXCEPT !.loading = None]
        IN  /\ session.pc = "idle" /\ loader.state # "running"
            /\ IF Expected(session, loader) /\ loader.state = "loaded"
               THEN Commit(answered, session.loading, loader)
               ELSE Done(IF Expected(session, loader) \/ loader.state = "panicked"
                         THEN answered ELSE rest)
            /\ UNCHANGED inbox
  BY DEF LoaderJoined
<1>. DEFINE loaders == session.loaders \ {loader}
            rest == [session EXCEPT !.loaders = loaders]
            answered == [session EXCEPT !.loaders = loaders, !.loading = None]
<1>2. /\ session \in SessionState /\ Sound(session) /\ Timed(session)
      /\ AroundOK /\ session.canceled \in Nat
  BY <1>1, IdleSession DEF SessionState
<1>3. loaders \in SUBSET Loader /\ loader \in Loader
  BY <1>2 DEF SessionState
<1>4. /\ UNCHANGED inbox
      /\ \/ /\ Expected(session, loader)
            /\ Commit(answered, session.loading, loader)
         \/ (Expected(session, loader) \/ loader.state = "panicked") /\ Done(answered)
         \/ ~Expected(session, loader) /\ Done(rest)
  BY <1>1, <1>2 DEF SessionState
<1>. HIDE DEF loaders
<1>5. ASSUME NEW t \in {answered, rest}
      PROVE  /\ t \in SessionState /\ t.queue = session.queue
             /\ t.channel = session.channel /\ t.generation = session.generation
             /\ t.idle_at = session.idle_at /\ t.alone_at = session.alone_at
             /\ t.sequence = session.sequence /\ t.canceled = session.canceled
             /\ t.pending = session.pending /\ t.pc = "idle"
             /\ t.loaders = loaders
             /\ t.loading = IF t = answered THEN None ELSE session.loading
             /\ t = answered => t.loading = None
  BY <1>1, <1>2, <1>3 DEF SessionState
<1>6. Sound(answered)
  <2>. HIDE DEF answered
  <2>1. /\ answered.pending = session.pending /\ answered.loading = None
        /\ Len(session.pending) \in Nat
    BY <1>2, <1>5 DEF SessionState
  <2>2. Waiting(answered) <= MaxPending
    <3>1. /\ Waiting(answered) = Len(session.pending) + 0
          /\ Waiting(session) \in {Len(session.pending) + 0, Len(session.pending) + 1}
      BY <2>1 DEF Waiting
    <3>. QED  BY <1>2, <2>1, <3>1, SessionAssumption DEF Sound
  <2>. QED  BY <1>2, <1>5, <2>2 DEF Sound, Resolving, Parked
<1>7. ~Expected(session, loader) => Sound(rest)
  <2>. SUFFICES ASSUME ~Expected(session, loader) PROVE Sound(rest)
    OBVIOUS
  <2>1. rest.loading = session.loading
    BY <1>2 DEF SessionState
  <2>. HIDE DEF rest, answered
  <2>2. Resolving(rest)
    BY <1>2, <1>5, <2>1 DEF Sound, Resolving, Expected, loaders
  <2>. QED  BY <1>2, <1>5, <2>1, <2>2 DEF Sound, Waiting, Parked
<1>8. \A t \in {answered, rest} : Timed(t)
  BY <1>2, <1>5 DEF Timed
<1>. HIDE DEF answered, rest
<1>9. CASE Expected(session, loader) /\ Commit(answered, session.loading, loader)
  <2>1. /\ session.loading \in Pending /\ loader.sequence > answered.canceled
    BY <1>2, <1>5, <1>9 DEF Expected, Sound, Resolving, PendingAfter
  <2>. QED  BY <1>1, <1>3, <1>4, <1>5, <1>6, <1>8, <1>9, <2>1, CommitKeeps
<1>10. ASSUME NEW t \in {answered, rest}, Sound(t), Done(t)
       PROVE  Inv' /\ Fair /\ ~MovesOnAsFinished
  <2>1. /\ session' = EndOfTurn(t) /\ SamePlay /\ Steady /\ Hears
    BY <1>2, <1>4, <1>10, SteadyRequests, BoundsAreKept DEF Done, NoRequest, SamePlay, Hears
  <2>2. NoNewTracks(session.queue, t.queue)
    BY <1>5, SameQueue
  <2>. QED  BY <1>1, <1>4, <1>5, <1>8, <1>10, <2>1, <2>2, TurnKeeps DEF MovesOnAsFinished
<1>. QED  BY <1>4, <1>6, <1>7, <1>9, <1>10

LEMMA JoinFailsKeeps ==
    ASSUME Inv, JoinFails
    PROVE  Inv' /\ Fair /\ session'.pc # "starting"
<1>. DEFINE s == NotCommitting(session)
<1>1. /\ session.pc = "joining" /\ session' = EndOfTurn(Cleaned(s)) /\ Destroy
      /\ discord' = [discord EXCEPT !.gateway = Append(@, None)]
      /\ UNCHANGED <<node, left, inbox>>
  BY DEF JoinFails, Cleanup
<1>2. Sound(s) /\ s.generation = session.generation
  BY IdleSession, NotCommittingSound
<1>3. BoundsKept /\ Hears
  BY <1>1, IdleSession, BoundsAreKept DEF Hears
<1>. HIDE DEF s
<1>. QED  BY <1>1, <1>2, <1>3, CleanupKeeps

LEMMA JoinSucceedsKeeps ==
    ASSUME Inv, JoinSucceeds
    PROVE  Inv' /\ Fair
<1>1. /\ session.pc = "joining" /\ session' = Joined(session, discord.server)
      /\ UNCHANGED <<player, lost, inbox, node, discord, left>>
  BY DEF JoinSucceeds, Answered
<1>2. AroundOK /\ discord.server \in Nat /\ SessionInv(session)
  BY DEF Inv, AroundOK, Discord
<1>3. /\ SessionInv(session') /\ session'.pc = "joined"
      /\ session'.queue = session.queue /\ session'.generation = session.generation
  BY <1>1, <1>2, JoinedInv
<1>4. session.queue.current = None
  BY <1>1, <1>2 DEF SessionInv, Sound, Parked
<1>5. AroundOK' /\ Mail' = Mail
  BY <1>1, <1>2 DEF AroundOK, Mail
<1>6. Turn
  BY <1>1, <1>2, <1>3, <1>4, <1>5 DEF Turn, SamePlay, SameTraces, AroundOK
<1>. QED  BY <1>3, <1>5, <1>6, TurnAgrees, SameQueue DEF Inv, Fair

LEMMA CommitAfterJoinKeeps ==
    ASSUME Inv, CommitAfterJoin
    PROVE  Inv' /\ Fair
<1>. DEFINE t == Enqueued(session, session.committing, session.resolution)
            s == NotCommitting(session)
<1>1. /\ session.pc = "joined" /\ UNCHANGED <<player, lost, inbox, node, discord, left>>
      /\ IF Access(session.committing) THEN AfterEnqueue(t) ELSE session' = EndOfTurn(s)
  BY DEF CommitAfterJoin, NoRequest
<1>2. /\ AroundOK /\ Sound(session) /\ Holding(session)
      /\ session.channel = session.committing.channel
      /\ session.idle_at /\ session.queue.current = None
  BY <1>1 DEF Inv, SessionInv
<1>3. /\ session.committing \in Pending /\ session.resolution \in Loader
      /\ session.resolution.sequence > session.canceled
      /\ session.channel # None
  BY <1>2, SessionAssumption DEF Holding, Pending
<1>4. /\ Sound(t) /\ t.channel = session.channel /\ t.generation = session.generation
      /\ t.pc = "starting" /\ SessionInv(t)
      /\ \A T \in SUBSET Track :
           Good(session.queue, T, MaxTracks) =>
             Good(t.queue, T \union {u \in Track : u.requester_id = session.committing.user},
                  MaxTracks)
  BY <1>2, <1>3, EnqueuedInv
<1>5. /\ Sound(s) /\ s.queue = session.queue /\ s.channel = session.channel
      /\ s.idle_at = session.idle_at /\ s.generation = session.generation
  BY <1>2, NotCommittingSound
<1>. HIDE DEF t, s
<1>6. AroundOK' /\ Mail' = Mail /\ SameTraces
  BY <1>1, <1>2 DEF AroundOK, Mail, SameTraces
<1>7. CASE Access(session.committing)
  <2>1. session' = t /\ discord.where[session.committing.user] = session.channel
    BY <1>1, <1>2, <1>4, <1>7 DEF AfterEnqueue, Access
  <2>2. Starts
    BY <1>1, <1>4, <1>6, <2>1 DEF Starts
  <2>3. Fair
    BY <1>3, <1>4, <2>1, EnqueuedIsFair
  <2>. QED  BY <1>4, <1>6, <2>1, <2>2, <2>3, StartsAgrees DEF Inv
<1>8. CASE ~Access(session.committing)
  <2>1. session' = EndOfTurn(s) /\ Timed(s)
    BY <1>1, <1>2, <1>5, <1>8 DEF Timed
  <2>2. /\ SessionInv(session') /\ session'.pc \in {"idle", "leaving"}
        /\ session'.queue = session.queue /\ session'.generation = session.generation
    BY <1>5, <2>1, EndOfTurnInv
  <2>3. Turn
    BY <1>1, <1>2, <1>6, <2>2 DEF Turn, SamePlay
  <2>. QED  BY <1>6, <2>2, <2>3, TurnAgrees, SameQueue DEF Inv, Fair
<1>. QED  BY <1>7, <1>8

LEMMA StartAttemptKeeps ==
    ASSUME Inv, StartAttempt
    PROVE  Inv' /\ Fair
<1>. DEFINE s == Attempt(session)
            after == PlayerAfter(session.queue.current, session.generation + 1)
<1>1. AroundOK /\ Sound(session)
  BY IdleSession
<1>2. /\ Sound(s) /\ s.queue = session.queue /\ s.channel = session.channel
      /\ s.pc = session.pc /\ s.generation = session.generation + 1
  BY <1>1, AttemptSound
<1>3. /\ session.pc = "starting" /\ UNCHANGED <<inbox, node, discord, left>>
      /\ \/ Answered(after) /\ session' = EndOfTurn(Started(AfterStart(s)))
         \/ /\ Unanswered(after)
            /\ session' = IF s.queue.current = None THEN EndOfTurn(GivenUp(s))
                          ELSE AttemptFailed(s)
  BY <1>2 DEF StartAttempt
<1>4. session.channel # None
  BY <1>3 DEF Inv, SessionInv
<1>5. LET t == Started(AfterStart(s))
      IN  /\ Sound(t) /\ Timed(t) /\ t.queue = s.queue /\ t.generation = s.generation
  BY <1>2, <1>4, AfterStartSound, StartedTimed
<1>6. s.queue.current = None =>
        LET t == GivenUp(s)
        IN  /\ Sound(t) /\ Timed(t) /\ t.queue = s.queue /\ t.generation = s.generation
  BY <1>2, <1>4, GivenUpTimed
<1>7. LET t == AttemptFailed(s)
      IN  /\ SessionInv(t) /\ t.queue = Fail(s.queue) /\ t.pc = "starting"
          /\ t.generation = s.generation
  BY <1>2, <1>3, <1>4, AttemptFailedInv
<1>8. after \in Player
  BY PlayerAfterShape DEF Inv
<1>. HIDE DEF s, after
<1>9. CASE Answered(after) /\ session' = EndOfTurn(Started(AfterStart(s)))
  <2>1. /\ SessionInv(session') /\ session'.pc \in {"idle", "leaving"}
        /\ session'.queue = session.queue /\ session'.generation = session.generation + 1
    BY <1>2, <1>5, <1>9, EndOfTurnInv
  <2>2. AroundOK'
    BY <1>1, <1>3, <1>8, <1>9 DEF AroundOK, Answered
  <2>3. Attempts
    BY <1>3, <1>9, <2>1 DEF Attempts, after
  <2>. QED  BY <2>1, <2>2, <2>3, AttemptsAgrees, SameQueue DEF Inv, Fair
<1>10. CASE Unanswered(after) /\ s.queue.current = None /\ session' = EndOfTurn(GivenUp(s))
  <2>1. /\ SessionInv(session') /\ session'.pc \in {"idle", "leaving"}
        /\ session'.queue = session.queue /\ session'.generation = session.generation + 1
    BY <1>2, <1>6, <1>10, EndOfTurnInv
  <2>2. AroundOK'
    BY <1>1, <1>3, <1>8, <1>10 DEF AroundOK, Unanswered
  <2>3. Attempts
    BY <1>2, <1>3, <1>10, <2>1 DEF Attempts, after
  <2>. QED  BY <2>1, <2>2, <2>3, AttemptsAgrees, SameQueue DEF Inv, Fair
<1>11. CASE Unanswered(after) /\ session' = AttemptFailed(s)
  <2>1. /\ SessionInv(session') /\ session'.pc = "starting"
        /\ session'.queue = Fail(session.queue)
        /\ session'.generation = session.generation + 1
    BY <1>2, <1>7, <1>11
  <2>2. AroundOK'
    BY <1>1, <1>3, <1>8, <1>11 DEF AroundOK, Unanswered
  <2>3. Attempts
    BY <1>3, <1>11, <2>1 DEF Attempts, after
  <2>. QED  BY <2>1, <2>2, <2>3, AttemptsAgrees, FailTakesNone DEF Inv, Fair
<1>. QED  BY <1>3, <1>9, <1>10, <1>11

-----------------------------------------------------------------------------
(* User commands, by action.                                               *)

LEMMA CommandFacts ==
    ASSUME Inv, NEW name, Command(name)
    PROVE  /\ session.pc = "idle" /\ BoundsKept /\ Hears /\ left' # left
           /\ UNCHANGED <<inbox, node>>
           /\ name \notin {"stop", "leave"} => session.channel # None
<1>1. Spend("commands") /\ AroundOK
  BY IdleSession DEF Command
<1>. QED  BY <1>1, BoundsAreKept, Spends DEF Command, Controls, Acting, Hears

LEMMA PauseKeeps ==
    ASSUME Inv, Pause
    PROVE  Inv' /\ Fair /\ left' # left
<1>1. PICK name \in {"pause", "resume"} :
        LET paused == name = "pause"
            after == [player EXCEPT !.paused = paused]
        IN  /\ Command(name) /\ UNCHANGED discord
            /\ \/ /\ Answered(after)
                  /\ session' = EndOfTurn([session EXCEPT !.paused = paused,
                                                          !.progress = "fresh"])
               \/ Unanswered(after) /\ session' = EndOfTurn(session)
  BY DEF Pause
<1>. DEFINE paused == name = "pause"
            after == [player EXCEPT !.paused = paused]
            s == [session EXCEPT !.paused = paused, !.progress = "fresh"]
<1>2. /\ session.pc = "idle" /\ BoundsKept /\ Hears
      /\ UNCHANGED <<inbox, node, discord>> /\ left' # left
  BY <1>1, CommandFacts
<1>3. paused \in BOOLEAN
  OBVIOUS
<1>4. session' \in {EndOfTurn(s), EndOfTurn(session)} /\ (Answered(after) \/ Unanswered(after))
  BY <1>1
<1>. HIDE DEF paused
<1>5. Touched(s)
  BY <1>3, IdleSession DEF Touched, SessionState, SameRequests
<1>6. Touched(session)
  BY IdleSession DEF Touched, SameRequests
<1>7. SamePlay /\ (UNCHANGED lost \/ lost' = lost + 1)
  <2>1. after = [player EXCEPT !.paused = paused]
    OBVIOUS
  <2>. HIDE DEF after
  <2>2. player' \in {player, after} /\ (UNCHANGED lost \/ lost' = lost + 1)
    BY <1>4 DEF Answered, Unanswered
  <2>3. SamePlay
    BY <1>3, <2>1, <2>2 DEF SamePlay
  <2>. QED  BY <2>2, <2>3
<1>8. Steady /\ SamePlay
  BY <1>2, <1>7, IdleSession, SteadyRequests
<1>. HIDE DEF s
<1>9. ASSUME NEW t, Touched(t), session' = EndOfTurn(t) PROVE Inv' /\ Fair /\ left' # left
  <2>1. Sound(t) /\ Timed(t)
    BY <1>2, <1>9, TouchedSound
  <2>. QED  BY <1>2, <1>8, <1>9, <2>1, IdleSession, TurnKeeps DEF Touched
<1>. QED  BY <1>4, <1>5, <1>6, <1>9

LEMMA EditsKeepTracks ==
    ASSUME NEW q \in Queue, NEW name \in {"loop", "remove", "move", "clear", "shuffle"},
           NEW r \in Edits(name, q)
    PROVE  NoNewTracks(q, r) /\ r.current = q.current
<1>1. CASE name = "loop"
  <2>1. PICK mode \in LoopMode : r = [q EXCEPT !.loop_mode = mode]
    BY <1>1 DEF Edits
  <2>2. ASSUME NEW T \in SUBSET Track, Good(q, T, MaxTracks) PROVE Good(r, T, MaxTracks)
    BY <2>1, <2>2, LoopGood, SessionAssumption
  <2>. QED  BY <2>1, <2>2 DEF NoNewTracks, Queue
<1>2. CASE name = "remove"
  <2>1. PICK i : r = RemoveAtPosition(q, i)
    BY <1>2 DEF Edits
  <2>2. NoNewTracks(q, r)
    BY <2>1, RemoveGood, SessionAssumption DEF NoNewTracks
  <2>. QED  BY <2>1, <2>2 DEF RemoveAtPosition, Queue
<1>3. CASE name = "move"
  <2>1. PICK i, j : r = MoveTo(q, i, j)
    BY <1>3 DEF Edits
  <2>2. NoNewTracks(q, r)
    BY <2>1, MoveGood, SessionAssumption DEF NoNewTracks
  <2>. QED  BY <2>1, <2>2 DEF MoveTo, Queue
<1>4. CASE name = "clear"
  <2>1. r = Clear(q)
    BY <1>4 DEF Edits
  <2>2. NoNewTracks(q, r)
    BY <2>1, ClearGood, SessionAssumption DEF NoNewTracks
  <2>. QED  BY <2>1, <2>2 DEF Clear, Queue
<1>5. CASE name = "shuffle"
  <2>1. r \in Shuffled(q)
    BY <1>5 DEF Edits
  <2>2. NoNewTracks(q, r)
    BY <2>1, ShuffledGood, SessionAssumption DEF NoNewTracks
  <2>3. r.current = q.current
    BY <2>1 DEF Shuffled, Queue
  <2>. QED  BY <2>2, <2>3
<1>. QED  BY <1>1, <1>2, <1>3, <1>4, <1>5

LEMMA EditQueueKeeps ==
    ASSUME Inv, EditQueue
    PROVE  Inv' /\ Fair /\ left' # left
<1>1. PICK name, q :
        /\ name \in {"loop", "remove", "move", "clear", "shuffle"}
        /\ q \in Edits(name, session.queue)
        /\ Command(name) /\ session' = EndOfTurn([session EXCEPT !.queue = q])
        /\ NoRequest /\ UNCHANGED discord
  <2>1. PICK name \in {"loop", "remove", "move", "clear", "shuffle"} :
          /\ Command(name)
          /\ \E q \in Edits(name, session.queue) :
               session' = EndOfTurn([session EXCEPT !.queue = q])
          /\ NoRequest /\ UNCHANGED discord
    BY DEF EditQueue
  <2>. QED  BY <2>1
<1>. DEFINE t == [session EXCEPT !.queue = q]
<1>2. NoNewTracks(session.queue, q) /\ q.current = session.queue.current
  BY <1>1, IdleSession, EditsKeepTracks
<1>3. q \in Queue
  BY <1>2, IdleSession, QueueIsTyped
<1>4. /\ session.pc = "idle" /\ BoundsKept /\ Hears
      /\ UNCHANGED <<inbox, node, discord>> /\ left' # left
  BY <1>1, CommandFacts
<1>5. /\ t \in SessionState /\ SameRequests(session, t) /\ t.queue = q
      /\ t.channel = session.channel /\ t.idle_at = session.idle_at
      /\ t.alone_at = session.alone_at /\ t.generation = session.generation
  BY <1>3, IdleSession DEF SessionState, SameRequests
<1>6. session' = EndOfTurn(t)
  BY <1>1
<1>. HIDE DEF t
<1>7. Sound(t) /\ Timed(t)
  <2>1. Parked(t) /\ Timed(t)
    BY <1>2, <1>4, <1>5, IdleSession DEF Sound, Parked, Timed
  <2>. QED  BY <1>2, <1>5, <2>1, IdleSession, KeepsSound
<1>8. Steady /\ SamePlay
  BY <1>1, <1>4, IdleSession, SteadyRequests DEF NoRequest, SamePlay
<1>. QED  BY <1>2, <1>4, <1>5, <1>6, <1>7, <1>8, TurnKeeps

LEMMA ChangeTrackKeeps ==
    ASSUME Inv, ChangeTrack
    PROVE  Inv' /\ Fair /\ left' # left
<1>1. PICK name, q :
        /\ name \in {"skip", "previous", "jump"}
        /\ Command(name) /\ session' = Starting(session, q)
        /\ NoRequest /\ UNCHANGED discord
        /\ \/ q = Skip(session.queue) \/ q = Previous(session.queue, MaxTracks)
           \/ \E position : q = Jump(session.queue, position)
  BY DEF ChangeTrack
<1>2. NoNewTracks(session.queue, q)
  BY <1>1, SkipGood, PreviousGood, JumpGood, SessionAssumption DEF NoNewTracks
<1>3. /\ session.pc = "idle" /\ BoundsKept /\ Hears /\ left' # left
      /\ session.channel # None /\ UNCHANGED <<node, discord>>
  BY <1>1, CommandFacts
<1>4. Steady /\ UNCHANGED player
  BY <1>1, <1>3, IdleSession, SteadyRequests DEF NoRequest
<1>. QED  BY <1>1, <1>2, <1>3, <1>4, IdleSession, StartKeeps

LEMMA StopCommandKeeps ==
    ASSUME Inv, StopCommand
    PROVE  Inv' /\ Fair /\ left' # left
<1>. DEFINE s == Stopped(session)
            t == [s EXCEPT !.idle_at = TRUE]
<1>1. /\ Command("stop") /\ NoRequest /\ UNCHANGED discord
      /\ session' = IF s.channel = None THEN EndOfTurn(s)
                    ELSE IF node = "ready" THEN Starting(s, s.queue)
                    ELSE EndOfTurn(t)
  BY DEF StopCommand
<1>2. /\ session.pc = "idle" /\ BoundsKept /\ Hears /\ left' # left
      /\ UNCHANGED <<node, discord, inbox>>
  BY <1>1, CommandFacts
<1>3. /\ Sound(s) /\ s.queue.current = None /\ s.queue = Stop(session.queue)
      /\ s.channel = session.channel /\ s.generation = session.generation
  BY IdleSession, StoppedSound
<1>4. NoNewTracks(session.queue, s.queue) /\ NoNewTracks(s.queue, s.queue)
  BY <1>3, EmptyTakesNone, SameQueue
<1>5. Steady /\ SamePlay /\ UNCHANGED player
  BY <1>1, <1>2, IdleSession, SteadyRequests DEF NoRequest, SamePlay
<1>. HIDE DEF s
<1>6. CASE s.channel = None
  <2>1. session' = EndOfTurn(s) /\ Timed(s)
    BY <1>1, <1>6 DEF Timed
  <2>2. session.queue.current = None
    BY <1>3, <1>6, IdleSession
  <2>. QED  BY <1>2, <1>3, <1>4, <1>5, <2>1, <2>2, TurnKeeps
<1>7. CASE s.channel # None /\ node = "ready"
  BY <1>1, <1>2, <1>3, <1>4, <1>5, <1>7, StartKeeps
<1>8. CASE s.channel # None /\ node # "ready"
  <2>1. session' = EndOfTurn(t)
    BY <1>1, <1>8
  <2>2. /\ t \in SessionState /\ SameRequests(s, t) /\ t.queue = s.queue
        /\ t.channel = s.channel /\ t.idle_at /\ t.generation = s.generation
    BY <1>3 DEF Sound, SessionState, SameRequests
  <2>. HIDE DEF t
  <2>3. Sound(t) /\ Timed(t)
    BY <1>3, <1>4, <1>8, <2>2, KeepsSound DEF Parked, Timed
  <2>4. /\ SessionInv(session') /\ session'.pc \in {"idle", "leaving"}
        /\ session'.queue = s.queue /\ session'.generation = session.generation
    BY <1>3, <2>1, <2>2, <2>3, EndOfTurnInv
  <2>5. AroundOK' /\ Mail' = Mail
    BY <1>2, <1>5, IdleSession DEF AroundOK, Steady, BoundsKept, Mail
  <2>6. Turn
    BY <1>2, <1>3, <1>5, <1>8, <2>4, <2>5 DEF Turn, Steady, BoundsKept, SameTraces
  <2>. QED  BY <1>2, <1>4, <2>4, <2>5, <2>6, TurnAgrees DEF Inv, Fair
<1>. QED  BY <1>6, <1>7, <1>8

LEMMA LeaveCommandKeeps ==
    ASSUME Inv, LeaveCommand
    PROVE  Inv' /\ Fair /\ left' # left
<1>1. /\ Command("leave") /\ session' = EndOfTurn(Cleaned(session)) /\ Destroy
      /\ discord' = [discord EXCEPT !.gateway = Append(@, None)]
  BY DEF LeaveCommand
<1>2. /\ session.pc = "idle" /\ BoundsKept /\ Hears /\ node' = node /\ left' # left
  BY <1>1, CommandFacts
<1>. QED  BY <1>1, <1>2, IdleSession, CleanupKeeps

-----------------------------------------------------------------------------
(* voice_changed, the timers and the watchdog, by action.                  *)

LEMMA CleansUp ==
    ASSUME Inv, session.pc = "idle", NEW s, Sound(s), s.generation = session.generation,
           Cleanup(s), Hears
    PROVE  Inv' /\ Fair /\ session'.pc # "starting"
<1>1. /\ session' = EndOfTurn(Cleaned(s)) /\ Destroy /\ node' = node /\ BoundsKept
      /\ discord' = [discord EXCEPT !.gateway = Append(@, None)]
  BY IdleSession, BoundsAreKept DEF Cleanup
<1>2. session'.pc # "starting"
  <2>1. Sound(Cleaned(s)) /\ Timed(Cleaned(s))
    BY CleanedSound DEF Timed
  <2>. HIDE DEF Cleaned
  <2>. QED  BY <1>1, <2>1, EndOfTurnInv
<1>. HIDE DEF Cleaned
<1>. QED  BY <1>1, <1>2, CleanupKeeps

\* A handler that ends with a session that kept its queue.
LEMMA EndsTurn ==
    ASSUME Inv, session.pc = "idle", NEW s, Sound(s), Timed(s), s.queue = session.queue,
           s.generation = session.generation, Done(s), Hears,
           inbox' # inbox =>
             /\ Head(inbox).kind # "invalidated"
             /\ Head(inbox).kind = "connected" => session.queue.current # None
    PROVE  Inv' /\ Fair /\ session'.pc # "starting"
<1>1. session' = EndOfTurn(s) /\ Steady /\ SamePlay
  BY IdleSession, SteadyRequests, BoundsAreKept DEF Done, NoRequest, SamePlay
<1>. QED  BY <1>1, IdleSession, TurnKeeps, EndOfTurnInv

LEMMA GoesOn ==
    ASSUME Inv, session.pc = "idle", NEW s, Sound(s), s.queue = session.queue,
           s.channel = session.channel, session.channel # None,
           s.generation = session.generation, NEW q, NoNewTracks(session.queue, q),
           StartCurrent(s, q), Hears
    PROVE  Inv' /\ Fair
<1>1. session' = Starting(s, q) /\ Steady /\ UNCHANGED player
  BY IdleSession, SteadyRequests, BoundsAreKept DEF StartCurrent, NoRequest
<1>. QED  BY <1>1, StartKeeps

LEMMA VoiceKeeps ==
    ASSUME Inv, session.pc = "idle", Hears,
           inbox' # inbox =>
             /\ Head(inbox).kind # "invalidated"
             /\ Head(inbox).kind = "connected" => session.queue.current # None,
           VoiceLost \/ (VoiceHolds /\ Done(AfterVoice))
    PROVE  Inv' /\ Fair /\ session'.pc # "starting"
<1>1. CASE VoiceLost
  BY <1>1, IdleSession, CleansUp DEF VoiceLost
<1>2. CASE Done(AfterVoice)
  <2>1. LET s == AfterVoice
        IN  Sound(s) /\ Timed(s) /\ s.queue = session.queue /\ s.generation = session.generation
    BY AfterVoiceSound
  <2>. HIDE DEF AfterVoice
  <2>. QED  BY <1>2, <2>1, EndsTurn
<1>. QED  BY <1>1, <1>2

LEMMA VoiceChangedKeeps ==
    ASSUME Inv, VoiceChanged
    PROVE  Inv' /\ Fair /\ session'.pc # "starting"
BY VoiceKeeps DEF VoiceChanged, Hears

LEMMA TickExpiresKeeps ==
    ASSUME Inv, TickExpires
    PROVE  Inv' /\ Fair /\ session'.pc # "starting"
<1>1. session.pc = "idle" /\ Cleanup(AfterVoice) /\ UNCHANGED inbox
  BY DEF TickExpires
<1>. QED  BY <1>1, AfterVoiceSound, CleansUp DEF Hears

LEMMA TrackFailureKeeps ==
    ASSUME Inv, session.pc = "idle", NEW s, Sound(s), s.queue = session.queue,
           s.channel = session.channel, session.channel # None,
           s.generation = session.generation, TrackFailure(s), Hears
    PROVE  Inv' /\ Fair /\ session'.queue = Fail(session.queue)
<1>1. StartCurrent(s, Fail(s.queue)) /\ NoNewTracks(session.queue, Fail(s.queue))
  BY FailTakesNone DEF TrackFailure
<1>2. session'.queue = Fail(s.queue)
  BY <1>1, QueueIsTyped, StartingInv DEF StartCurrent
<1>. QED  BY <1>1, <1>2, GoesOn

\* The watchdog moves on as finished only when the backend says so.
LEMMA VerifiedKeeps ==
    ASSUME Inv, session.pc = "idle", NEW s, Sound(s), Timed(s), s.queue = session.queue,
           s.channel = session.channel, session.queue.current # None,
           s.generation = session.generation,
           NEW advanced \in BOOLEAN, Verified(s, advanced), Hears, UNCHANGED inbox
    PROVE  /\ Inv' /\ Fair
           /\ MovesOnAsFinished => BackendFinishedIt
<1>. DEFINE seen == IF advanced /\ Playing THEN [s EXCEPT !.progress = "fresh"] ELSE s
<1>1. /\ Sound(seen) /\ Timed(seen) /\ seen.queue = s.queue /\ seen.channel = s.channel
      /\ seen.generation = s.generation
  <2>. DEFINE t == [s EXCEPT !.progress = "fresh"]
  <2>1. s \in SessionState
    BY DEF Sound
  <2>2. /\ t \in SessionState /\ SameRequests(s, t) /\ t.queue = s.queue
        /\ t.channel = s.channel /\ t.idle_at = s.idle_at /\ t.alone_at = s.alone_at
        /\ t.generation = s.generation
    BY <2>1 DEF SessionState, SameRequests
  <2>. HIDE DEF t
  <2>3. Sound(t) /\ Timed(t)
    BY <2>2, SameQueue, KeepsSound DEF Parked, Sound, Timed
  <2>. QED  BY <2>2, <2>3 DEF t
<1>2. session.channel # None
  BY IdleSession
<1>3. \/ \E t \in {s, seen} : Done(t) \/ TrackFailure(t)
      \/ /\ StartCurrent(s, Finish(s.queue))
         /\ player.what = None /\ player.ended = s.generation /\ player.reason = "finished"
  BY DEF Verified, Unverifiable
<1>. HIDE DEF seen
<1>4. CASE \E t \in {s, seen} : Done(t)
  BY <1>1, <1>4, EndsTurn DEF MovesOnAsFinished
<1>5. CASE \E t \in {s, seen} : TrackFailure(t)
  BY <1>1, <1>2, <1>5, TrackFailureKeeps DEF MovesOnAsFinished
<1>6. CASE /\ StartCurrent(s, Finish(s.queue))
           /\ player.what = None /\ player.ended = s.generation /\ player.reason = "finished"
  <2>1. NoNewTracks(session.queue, Finish(s.queue))
    BY FailTakesNone
  <2>. QED  BY <1>2, <1>6, <2>1, GoesOn DEF BackendFinishedIt
<1>. QED  BY <1>3, <1>4, <1>5, <1>6

LEMMA TickVerifiesKeeps ==
    ASSUME Inv, TickVerifies
    PROVE  Inv' /\ Fair /\ (MovesOnAsFinished => BackendFinishedIt)
<1>. DEFINE s == AfterVoice
<1>1. PICK advanced \in BOOLEAN :
        /\ session.pc = "idle" /\ s.queue.current # None
        /\ Verified(s, advanced) /\ UNCHANGED inbox
  BY DEF TickVerifies, WorthVerifying
<1>2. /\ Sound(s) /\ Timed(s) /\ s.queue = session.queue
      /\ s.channel = session.channel /\ s.generation = session.generation
  BY <1>1, AfterVoiceSound
<1>. HIDE DEF s
<1>. QED  BY <1>1, <1>2, VerifiedKeeps DEF Hears

LEMMA TickVerifiesInVainKeeps ==
    ASSUME Inv, TickVerifiesInVain
    PROVE  Inv' /\ Fair /\ ~MovesOnAsFinished
<1>. DEFINE s == AfterVoice
            q == Fail(s.queue)
<1>1. /\ session.pc = "idle" /\ s.queue.current # None
      /\ session' \in {Starting(s, q), EndOfTurn(s)}
      /\ lost' = lost + 1 /\ UNCHANGED <<inbox, node, player, discord, left>>
  BY DEF TickVerifiesInVain, WorthVerifying
<1>2. /\ Sound(s) /\ Timed(s) /\ s.queue = session.queue
      /\ s.channel = session.channel /\ s.generation = session.generation
  BY <1>1, AfterVoiceSound
<1>3. NoNewTracks(session.queue, q) /\ session.channel # None
  BY <1>1, <1>2, FailTakesNone, IdleSession
<1>4. Steady /\ SamePlay /\ Hears
  BY <1>1, IdleSession, SteadyRequests, BoundsAreKept DEF SamePlay, Hears
<1>5. q = Fail(session.queue)
  BY <1>2
<1>. HIDE DEF s, q
<1>6. CASE session' = Starting(s, q)
  <2>1. session'.queue = q
    BY <1>2, <1>3, <1>6, StartingInv
  <2>. QED  BY <1>1, <1>2, <1>3, <1>4, <1>5, <1>6, <2>1, StartKeeps DEF MovesOnAsFinished
<1>7. CASE session' = EndOfTurn(s)
  <2>1. session'.pc # "starting"
    BY <1>2, <1>7, EndOfTurnInv
  <2>. QED  BY <1>1, <1>2, <1>4, <1>7, <2>1, IdleSession, TurnKeeps DEF MovesOnAsFinished
<1>. QED  BY <1>1, <1>6, <1>7

LEMMA PlayerUpdateKeeps ==
    ASSUME Inv, PlayerUpdate
    PROVE  Inv' /\ Fair /\ session'.pc # "starting"
<1>. DEFINE t == [session EXCEPT !.progress = "fresh"]
<1>1. session.pc = "idle" /\ Done(t) /\ UNCHANGED inbox
  BY DEF PlayerUpdate
<1>2. Touched(t)
  BY IdleSession DEF Touched, SessionState, SameRequests
<1>. HIDE DEF t
<1>. QED  BY <1>1, <1>2, TouchedSound, EndsTurn DEF Touched, Hears

LEMMA TimePassesKeeps ==
    ASSUME Inv, TimePasses
    PROVE  Inv' /\ Fair /\ session'.pc # "starting"
<1>. DEFINE progress == IF session.progress = "fresh" THEN "sixty" ELSE "ninety"
            t == [session EXCEPT !.progress = progress]
<1>1. /\ session.pc = "idle" /\ session' = t
      /\ UNCHANGED <<player, lost, inbox, node, discord, left>>
  BY IdleSession DEF TimePasses, NoRequest, SessionState
<1>2. progress \in {"sixty", "ninety"}
  OBVIOUS
<1>. HIDE DEF progress
<1>3. /\ Touched(t) /\ t.pc = "idle" /\ t.pending = session.pending
      /\ t.loading = session.loading
  BY <1>1, <1>2, IdleSession DEF Touched, SessionState, SameRequests
<1>. HIDE DEF t
<1>4. SessionInv(t)
  BY <1>1, <1>3, TouchedSound DEF SessionInv, Inv
<1>5. Aside /\ AroundOK'
  BY <1>1, <1>3, IdleSession DEF Aside, Touched, AroundOK
<1>. QED  BY <1>1, <1>3, <1>4, <1>5, AsideAgrees, SameQueue DEF Inv, Fair, Touched

-----------------------------------------------------------------------------
(* Messages from the node, by action.                                      *)

LEMMA ReceiveFacts ==
    ASSUME Inv, NEW kinds, Receive(kinds)
    PROVE  /\ session.pc = "idle" /\ inbox # <<>> /\ Hears
           /\ Head(inbox) \in Mail /\ Head(inbox) \in Message
           /\ Head(inbox).kind \in kinds
BY IdleSession, MailReceived, MailTyped DEF Receive, Hears, AroundOK

\* The one message that moves on as finished is about the play under way.
LEMMA TrackEventKeeps ==
    ASSUME Inv, TrackEvent
    PROVE  Inv' /\ Fair /\ (MovesOnAsFinished /\ OnlyOwnPlayers => BackendFinishedIt)
<1>. DEFINE m == Head(inbox)
            t == [session EXCEPT !.started = TRUE, !.progress = "fresh"]
<1>1. /\ session.pc = "idle" /\ Hears /\ m \in Mail
      /\ m.kind \in {"started", "finished", "failed"}
  BY ReceiveFacts DEF TrackEvent
<1>2. \/ ~IsCurrent(m.generation) /\ Done(session)
      \/ /\ IsCurrent(m.generation) /\ m.kind = "finished"
         /\ StartCurrent(session, Finish(session.queue))
      \/ IsCurrent(m.generation) /\ m.kind = "failed" /\ TrackFailure(session)
      \/ Done(session) \/ Done(t)
  BY <1>1 DEF TrackEvent
<1>3. Touched(t) /\ Touched(session)
  BY IdleSession DEF Touched, SessionState, SameRequests
<1>4. \A k \in {m} : k.kind \notin {"invalidated", "connected"}
  BY <1>1
<1>. HIDE DEF t
<1>5. ASSUME NEW s, Touched(s), Done(s) PROVE Inv' /\ Fair /\ session'.pc # "starting"
  BY <1>1, <1>4, <1>5, TouchedSound, EndsTurn DEF Touched
<1>6. CASE Done(session) \/ Done(t)
  BY <1>3, <1>5, <1>6 DEF MovesOnAsFinished
<1>7. CASE IsCurrent(m.generation) /\ m.kind = "failed" /\ TrackFailure(session)
  BY <1>1, <1>7, IdleSession, TrackFailureKeeps DEF IsCurrent, MovesOnAsFinished
<1>8. CASE /\ IsCurrent(m.generation) /\ m.kind = "finished"
           /\ StartCurrent(session, Finish(session.queue))
  <2>1. Inv' /\ Fair
    BY <1>1, <1>8, IdleSession, FailTakesNone, GoesOn DEF IsCurrent
  <2>2. OnlyOwnPlayers => BackendFinishedIt
    BY <1>1, <1>8 DEF Inv, Agreement, FinishedIsTrue, IsCurrent
  <2>. QED  BY <2>1, <2>2
<1>. QED  BY <1>2, <1>6, <1>7, <1>8

LEMMA VoiceClosedKeeps ==
    ASSUME Inv, VoiceClosed
    PROVE  Inv' /\ Fair /\ session'.pc # "starting"
<1>1. /\ session.pc = "idle" /\ Hears /\ Head(inbox).kind = "closed"
      /\ Done(session) \/ Cleanup(session)
  BY ReceiveFacts DEF VoiceClosed
<1>. QED  BY <1>1, IdleSession, EndsTurn, CleansUp

LEMMA InvalidatedKeeps ==
    ASSUME Inv, Invalidated
    PROVE  Inv' /\ Fair /\ session'.pc # "starting"
BY ReceiveFacts, IdleSession, CleansUp DEF Invalidated

LEMMA ConnectedKeeps ==
    ASSUME Inv, Connected
    PROVE  Inv' /\ Fair /\ ~MovesOnAsFinished
<1>1. session.pc = "idle" /\ Hears /\ Head(inbox).kind = "connected"
  BY ReceiveFacts DEF Connected
<1>2. CASE session.channel = None
  <2>1. session' = EndOfTurn(session) /\ Destroy /\ UNCHANGED <<node, discord, left>>
    BY <1>2 DEF Connected
  <2>2. session.queue.current = None
    BY <1>2, IdleSession
  <2>3. BoundsKept /\ discord' \in Discord
    BY <2>1, IdleSession, BoundsAreKept DEF AroundOK
  <2>. QED  BY <1>1, <2>1, <2>2, <2>3, IdleSession, ClearKeeps DEF MovesOnAsFinished
<1>3. CASE session.channel # None /\ session.queue.current = None
  BY <1>1, <1>3, IdleSession, GoesOn DEF Connected, MovesOnAsFinished
<1>4. CASE session.channel # None /\ session.queue.current # None
  <2>1. VoiceLost \/ (VoiceHolds /\ Done(AfterVoice))
    BY <1>4 DEF Connected
  <2>. QED  BY <1>1, <1>4, <2>1, VoiceKeeps DEF MovesOnAsFinished
<1>. QED  BY <1>2, <1>3, <1>4

-----------------------------------------------------------------------------
(* The end of an actor and the next one.                                   *)

LEMMA ExitKeeps ==
    ASSUME Inv, Exit
    PROVE  Inv' /\ Fair /\ session'.pc # "starting"
<1>. DEFINE s == Cleaned(session)
            t == [s EXCEPT !.pc = "gone", !.loaders = {}]
<1>1. /\ session' = t /\ inbox' = <<>> /\ Destroy /\ UNCHANGED <<node, left>>
      /\ discord' = [discord EXCEPT !.gateway = Append(@, None)]
  BY DEF Exit
<1>2. /\ Sound(s) /\ s.pending = <<>> /\ s.loading = None /\ s.channel = None
      /\ s.queue = EmptyQueue /\ s.canceled = s.sequence
  <2>1. Sound(s) /\ s.queue = EmptyQueue /\ s.channel = None
    BY IdleSession, CleanedSound
  <2>2. LET i == Invalidate(session)
        IN  i \in SessionState /\ i.pending = <<>> /\ i.loading = None
            /\ i.sequence = session.sequence
    BY IdleSession, InvalidateShape
  <2>. HIDE DEF Invalidate
  <2>3. s.pending = <<>> /\ s.loading = None /\ s.canceled = s.sequence
    BY <2>2 DEF Cleaned, SessionState
  <2>. QED  BY <2>1, <2>3
<1>. HIDE DEF s
<1>3. /\ t \in SessionState /\ t.pending = <<>> /\ t.loading = None
      /\ t.channel = None /\ t.queue = s.queue /\ t.idle_at = s.idle_at
      /\ t.alone_at = s.alone_at /\ t.canceled = t.sequence /\ t.canceled = s.canceled
      /\ t.pc = "gone"
  BY <1>2 DEF Sound, SessionState
<1>. HIDE DEF t
<1>4. Sound(t)
  BY <1>2, <1>3, CanceledSound DEF Sound, Parked
<1>5. SessionInv(t)
  BY <1>3, <1>4 DEF SessionInv
<1>6. AroundOK'
  BY <1>1, IdleSession, DestroyShape, MailDropped, GatewayAsked DEF AroundOK, Place
<1>7. NoNewTracks(session.queue, t.queue)
  BY <1>2, <1>3, EmptyTakesNone
<1>. QED  BY <1>1, <1>3, <1>5, <1>6, <1>7, ExitAgrees DEF Inv, Fair

LEMMA RespawnKeeps ==
    ASSUME Inv, Respawn
    PROVE  Inv' /\ Fair /\ session'.pc # "starting"
<1>1. session' = NewSession /\ Spend("lives") /\ UNCHANGED <<player, lost, inbox, node, discord>>
  BY DEF Respawn, NoRequest
<1>2. AroundOK'
  <2>1. left' \in [DOMAIN Bounds -> Nat]
    BY <1>1, IdleSession, Spends
  <2>. QED  BY <1>1, <2>1, IdleSession DEF AroundOK
<1>3. session'.queue = EmptyQueue /\ session'.pc = "idle"
  BY <1>1 DEF NewSession
<1>. QED  BY <1>1, <1>2, <1>3, NewSessionSound, EmptyTakesNone, RespawnAgrees DEF Inv, Fair

-----------------------------------------------------------------------------
(* The surroundings, and stuttering.                                       *)

DiscordSteps ==
    \/ GatewayEcho \/ ServerAssigned \/ UserMoves \/ BotMoved
    \/ GuildUnavailable \/ GuildRemoved \/ GuildCreated

LEMMA DiscordStepsTyped ==
    ASSUME AroundOK, DiscordSteps
    PROVE  discord' \in Discord /\ BoundsKept /\ DiscordOnly
<1>1. discord \in Discord /\ None \in Place
  BY DEF AroundOK, Place
<1>2. DiscordOnly /\ BoundsKept
  <2>1. DiscordOnly /\ (UNCHANGED left \/ Spend("voice"))
    BY DEF DiscordSteps, GatewayEcho, ServerAssigned, UserMoves, BotMoved,
           GuildUnavailable, GuildRemoved, GuildCreated
  <2>. QED  BY <2>1, BoundsAreKept
<1>3. CASE GatewayEcho
  <2>. DEFINE rest == Tail(discord.gateway)
              bot == IF discord.guild = "absent" THEN discord.bot ELSE Head(discord.gateway)
              server == IF Head(discord.gateway) = None THEN 0 ELSE discord.server
  <2>1. discord' = [discord EXCEPT !.gateway = rest, !.bot = bot, !.server = server]
    BY <1>1, <1>3 DEF GatewayEcho, Discord
  <2>2. Head(discord.gateway) \in Place /\ rest \in Seq(Place)
    BY <1>1, <1>3, HeadTailProperties DEF GatewayEcho, Discord
  <2>3. bot \in Place /\ server \in Nat
    BY <1>1, <2>2 DEF Discord
  <2>. HIDE DEF rest, bot, server
  <2>4. discord' \in Discord
    BY <1>1, <2>1, <2>2, <2>3 DEF Discord
  <2>. QED  BY <1>2, <2>4
<1>4. CASE ServerAssigned
  <2>1. PICK n \in Nat : discord' = [discord EXCEPT !.servers = n, !.server = n]
    <3>1. discord' = [discord EXCEPT !.servers = discord.servers + 1,
                                     !.server = discord.servers + 1]
      BY <1>1, <1>4 DEF ServerAssigned, Discord
    <3>2. discord.servers + 1 \in Nat
      BY <1>1 DEF Discord
    <3>. QED  BY <3>1, <3>2
  <2>2. discord' \in Discord
    BY <1>1, <2>1 DEF Discord
  <2>. QED  BY <1>2, <2>2
<1>5. CASE UserMoves
  <2>1. PICK u \in Users, place \in Place : discord' = [discord EXCEPT !.where[u] = place]
    BY <1>5 DEF UserMoves
  <2>2. [discord.where EXCEPT ![u] = place] \in [Users -> Place]
    BY <1>1 DEF Discord
  <2>3. discord' \in Discord
    BY <1>1, <2>1, <2>2 DEF Discord
  <2>. QED  BY <1>2, <2>3
<1>6. CASE BotMoved
  <2>1. PICK place \in Place, server \in Nat :
          discord' = [discord EXCEPT !.bot = place, !.server = server]
    <3>1. PICK place \in Place :
            discord' = [discord EXCEPT !.bot = place,
                                       !.server = IF place = None THEN 0 ELSE @]
      BY <1>6 DEF BotMoved
    <3>2. (IF place = None THEN 0 ELSE discord.server) \in Nat
      BY <1>1 DEF Discord
    <3>. QED  BY <1>1, <3>1, <3>2 DEF Discord
  <2>2. discord' \in Discord
    BY <1>1, <2>1 DEF Discord
  <2>. QED  BY <1>2, <2>2
<1>7. CASE GuildUnavailable \/ GuildRemoved \/ GuildCreated
  <2>1. CASE GuildUnavailable
    BY <1>1, <1>2, <2>1 DEF GuildUnavailable, Discord
  <2>2. CASE GuildRemoved
    BY <1>1, <1>2, <2>2 DEF GuildRemoved, Discord
  <2>3. CASE GuildCreated
    BY <1>1, <1>2, <2>3 DEF GuildCreated, Discord
  <2>. QED  BY <1>7, <2>1, <2>2, <2>3
<1>. QED  BY <1>3, <1>4, <1>5, <1>6, <1>7 DEF DiscordSteps

PlayerSteps == PlayerBegins \/ PlayerFinishes \/ PlayerFails \/ PlayerClosed

\* What leaves the session alone.
LEMMA SurroundingsKeep ==
    ASSUME Inv, PlayerSteps \/ NodeSteps \/ DiscordSteps \/ UNCHANGED vars
    PROVE  Inv' /\ Fair /\ session' = session
<1>1. session' = session /\ AroundOK' /\ Agreement'
  <2>1. CASE PlayerSteps
    <3>1. PlayerActs /\ AroundOK'
      BY <2>1, IdleSession, PlayerStepsAct DEF PlayerSteps
    <3>. QED  BY <3>1, PlayerActsAgrees DEF PlayerActs
  <2>2. CASE NodeSteps
    BY <2>2, NodeStepsAgree
  <2>3. CASE DiscordSteps
    <3>1. discord' \in Discord /\ BoundsKept /\ DiscordOnly
      BY <2>3, IdleSession, DiscordStepsTyped
    <3>2. Aside /\ AroundOK'
      BY <3>1, IdleSession DEF Aside, AroundOK, BoundsKept, DiscordOnly
    <3>. QED  BY <3>1, <3>2, AsideAgrees DEF DiscordOnly
  <2>4. CASE UNCHANGED vars
    <3>1. Aside /\ AroundOK' /\ session' = session
      BY <2>4, IdleSession DEF vars, Aside, AroundOK
    <3>. QED  BY <3>1, AsideAgrees
  <2>. QED  BY <2>1, <2>2, <2>3, <2>4
<1>2. SessionInv(session')
  BY <1>1 DEF Inv
<1>. QED  BY <1>1, <1>2, SameQueue DEF Inv, Fair

-----------------------------------------------------------------------------
(* The inductive invariant, and what a step may do to the queue.           *)

LEMMA InitInv ==
    ASSUME Init
    PROVE  Inv
<1>1. /\ session = NewSession /\ inbox = <<>> /\ node = "ready" /\ player = NoPlayer
      /\ lost = 0 /\ left = Bounds
  BY DEF Init
<1>2. SessionInv(session)
  BY <1>1, NewSessionSound
<1>3. discord \in Discord
  <2>. DEFINE quiet == {<<>>}
  <2>1. discord \in [guild: {"available"}, where: [Users -> Place], bot: {None},
                     server: {0}, servers: {0}, gateway: quiet]
    BY DEF Init
  <2>2. quiet \subseteq Seq(Place) /\ None \in Place
    BY EmptySeq DEF Place
  <2>. HIDE DEF quiet
  <2>. QED  BY <2>1, <2>2 DEF Discord
<1>4. Bounds \in [DOMAIN Bounds -> Nat] /\ Bounds.lives = MaxLives - 1
      /\ Bounds.outages = MaxOutages /\ MaxOutages \in Nat
  BY BoundsAssumption DEF Bounds
<1>5. AroundOK
  <2>1. NoPlayer \in Player /\ <<>> \in Seq(Message)
    BY EmptySeq DEF NoPlayer, Player
  <2>. QED  BY <1>1, <1>3, <1>4, <2>1 DEF AroundOK
<1>6. Mail = {}
  BY <1>1 DEF Mail
<1>7. /\ session.pc = "idle" /\ session.queue.current = None /\ session.generation = 0
      /\ player.what = None /\ player.generation = 0
  BY <1>1 DEF NewSession, EmptyQueue, NoPlayer
<1>8. Traces
  <2>1. MaxLives - 1 \in Nat
    BY BoundsAssumption
  <2>. QED  BY <1>1, <1>4, <2>1 DEF Traces
<1>9. Quiet /\ Behind /\ EndsClean
  BY <1>1, <1>6, <1>7 DEF Quiet, Behind, EndsClean
<1>10. FinishedIsTrue /\ BackendHasTheCurrentTrack
  BY <1>7 DEF FinishedIsTrue, BackendHasTheCurrentTrack
<1>. QED  BY <1>2, <1>5, <1>8, <1>9, <1>10 DEF Inv, Agreement

FinishesTruly == MovesOnAsFinished /\ OnlyOwnPlayers => BackendFinishedIt

LEMMA NextKeeps ==
    ASSUME Inv, [Next]_vars
    PROVE  Inv' /\ Fair /\ FinishesTruly
<1>1. CASE PlayRequest
  BY <1>1, PlayRequestKeeps DEF FinishesTruly, MovesOnAsFinished
<1>2. CASE LoaderCompletes \/ LoaderJoined
  BY <1>2, LoaderCompletesKeeps, LoaderJoinedKeeps DEF FinishesTruly
<1>3. CASE JoinFails
  BY <1>3, JoinFailsKeeps DEF FinishesTruly, MovesOnAsFinished
<1>4. CASE JoinSucceeds
  BY <1>4, JoinSucceedsKeeps DEF FinishesTruly, MovesOnAsFinished, JoinSucceeds
<1>5. CASE CommitAfterJoin
  BY <1>5, CommitAfterJoinKeeps DEF FinishesTruly, MovesOnAsFinished, CommitAfterJoin
<1>6. CASE StartAttempt
  <2>1. session.pc = "starting"
    BY <1>6 DEF StartAttempt
  <2>. QED  BY <1>6, <2>1, StartAttemptKeeps DEF FinishesTruly, MovesOnAsFinished
<1>7. CASE Pause \/ EditQueue
  BY <1>7, PauseKeeps, EditQueueKeeps DEF FinishesTruly, MovesOnAsFinished
<1>8. CASE ChangeTrack \/ StopCommand \/ LeaveCommand
  BY <1>8, ChangeTrackKeeps, StopCommandKeeps, LeaveCommandKeeps
     DEF FinishesTruly, MovesOnAsFinished
<1>9. CASE VoiceChanged \/ TickExpires \/ PlayerUpdate \/ TimePasses
  BY <1>9, VoiceChangedKeeps, TickExpiresKeeps, PlayerUpdateKeeps, TimePassesKeeps
     DEF FinishesTruly, MovesOnAsFinished
<1>10. CASE TickVerifies \/ TickVerifiesInVain
  BY <1>10, TickVerifiesKeeps, TickVerifiesInVainKeeps DEF FinishesTruly
<1>11. CASE TrackEvent
  BY <1>11, TrackEventKeeps DEF FinishesTruly
<1>12. CASE VoiceClosed \/ Invalidated \/ Exit \/ Respawn
  BY <1>12, VoiceClosedKeeps, InvalidatedKeeps, ExitKeeps, RespawnKeeps
     DEF FinishesTruly, MovesOnAsFinished
<1>13. CASE Connected
  BY <1>13, ConnectedKeeps DEF FinishesTruly
<1>14. CASE PlayerSteps \/ NodeSteps \/ DiscordSteps \/ UNCHANGED vars
  <2>1. ~MovesOnAsFinished
    BY <1>14, SurroundingsKeep DEF MovesOnAsFinished
  <2>. QED  BY <1>14, <2>1, SurroundingsKeep DEF FinishesTruly
<1>. QED  BY <1>1, <1>2, <1>3, <1>4, <1>5, <1>6, <1>7, <1>8, <1>9, <1>10, <1>11, <1>12,
             <1>13, <1>14
          DEF Next, Actor, Surroundings, PlayerSteps, NodeSteps, DiscordSteps

-----------------------------------------------------------------------------
(* What the parts of the inductive invariant say of the tracks.            *)

\* A queue made of T knows nothing but T, and is made of what it knows.
LEMMA KnownTracks ==
    ASSUME NEW q \in Queue, NEW T \in SUBSET Track, Good(q, T, MaxTracks)
    PROVE  /\ Known(q) \subseteq T /\ Known(q) \in SUBSET Track
           /\ Good(q, Known(q), MaxTracks)
<1>1. /\ q.upcoming \in Seq(T) /\ q.history \in Seq(T)
      /\ q.current \in T \union {None}
  BY DEF Good, QueueOf
<1>2. ASSUME NEW s \in Seq(T) PROVE ToSet(s) \subseteq T
  BY <1>2 DEF ToSet
<1>3. ASSUME NEW s \in Seq(T), ToSet(s) \subseteq Known(q) PROVE s \in Seq(Known(q))
  BY <1>3 DEF ToSet
<1>4. Known(q) \subseteq T
  BY <1>1, <1>2 DEF Known
<1>5. /\ ToSet(q.upcoming) \subseteq Known(q) /\ ToSet(q.history) \subseteq Known(q)
      /\ q.current \in Known(q) \union {None}
  BY DEF Known
<1>. HIDE DEF Known
<1>6. q.upcoming \in Seq(Known(q)) /\ q.history \in Seq(Known(q))
  BY <1>1, <1>3, <1>5
<1>. QED  BY <1>4, <1>5, <1>6 DEF Good, QueueOf

LEMMA NoPlayIsKept ==
    ASSUME Inv
    PROVE  NoPlayAfterStop
<1>1. Known(session.queue) \subseteq TracksAfter(session.canceled)
  BY IdleSession, SoundQueue, KnownTracks DEF Sound
<1>. QED  BY <1>1 DEF NoPlayAfterStop, TracksAfter

LEMMA RequesterStays ==
    ASSUME Inv, Inv', Fair
    PROVE  \A t \in Known(session'.queue) \ Known(session.queue) :
             discord.where[t.requester_id] = session'.channel
<1>. DEFINE old == Known(session.queue)
<1>1. /\ session.queue \in Queue /\ session'.queue \in Queue
      /\ old \in SUBSET Track /\ Good(session.queue, old, MaxTracks)
  <2>1. Sound(session) /\ Sound(session')
    BY DEF Inv, SessionInv
  <2>2. /\ session.queue \in Queue /\ session'.queue \in Queue
        /\ Good(session.queue, TracksAfter(session.canceled), MaxTracks)
        /\ TracksAfter(session.canceled) \in SUBSET Track
    BY <2>1, SoundQueue DEF Sound
  <2>. QED  BY <2>2, KnownTracks
<1>. HIDE DEF old
<1>2. CASE NoNewTracks(session.queue, session'.queue)
  <2>1. Good(session'.queue, old, MaxTracks)
    BY <1>1, <1>2 DEF NoNewTracks
  <2>2. Known(session'.queue) \subseteq old
    BY <1>1, <2>1, KnownTracks
  <2>. QED  BY <2>2 DEF old
<1>3. CASE ~NoNewTracks(session.queue, session'.queue)
  <2>1. PICK u \in Users :
          /\ discord.where[u] = session'.channel
          /\ Good(session'.queue, old \union {t \in Track : t.requester_id = u}, MaxTracks)
    BY <1>1, <1>3 DEF Fair
  <2>2. Known(session'.queue) \subseteq old \union {t \in Track : t.requester_id = u}
    BY <1>1, <2>1, KnownTracks
  <2>. QED  BY <2>1, <2>2 DEF old
<1>. QED  BY <1>2, <1>3

LEMMA InvImplies ==
    ASSUME Inv
    PROVE  /\ TypeOK /\ IdleClock /\ LoadHasItsLoader
           /\ BackendHasTheCurrentTrack /\ QuietWhenEmpty
<1>1. TypeOK
  BY IdleSession DEF TypeOK, AroundOK
<1>2. IdleClock
  <2>1. /\ session.queue.current = None => session.queue.upcoming = <<>>
        /\ session.pc = "idle" => Timed(session)
        /\ Parked(session)
    BY IdleSession DEF Sound, Good
  <2>. QED  BY <2>1 DEF IdleClock, Timed, Parked
<1>3. LoadHasItsLoader
  BY DEF Inv, SessionInv, Sound, Resolving, LoadHasItsLoader
<1>4. QuietWhenEmpty
  BY DEF Inv, Agreement, Quiet, QuietWhenEmpty, Mail
<1>. QED  BY <1>1, <1>2, <1>3, <1>4 DEF Inv, Agreement

LEMMA AlwaysInv == Spec => []Inv
<1>1. Init => Inv
  BY InitInv
<1>2. Inv /\ [Next]_vars => Inv'
  BY NextKeeps
<1>. QED  BY <1>1, <1>2, PTL DEF Spec

-----------------------------------------------------------------------------
\* Every variable of the actor and of its surroundings keeps its type, whatever
\* the songs, the users, the channels and the limits are.
THEOREM SessionTyped == Spec => []TypeOK
<1>1. Inv => TypeOK
  BY InvImplies
<1>. QED  BY <1>1, AlwaysInv, PTL

\* The idle timer of a session between two handlers runs exactly while it is in
\* a channel with nothing to play (idle_at in session.rs, which join,
\* start_current, stop, cleanup and commit write).
THEOREM IdleTimerFollowsTheQueue == Spec => []IdleClock
<1>1. Inv => IdleClock
  BY InvImplies
<1>. QED  BY <1>1, AlwaysInv, PTL

\* Between two handlers a request that is being resolved has a task that was
\* not joined yet, nothing waits while nothing is resolved, and Config.pending bounds
\* what waits (start_load, invalidate and the loaders of run in session.rs).
THEOREM RequestsKeepTheirLoader == Spec => []LoadHasItsLoader
<1>1. Inv => LoadHasItsLoader
  BY InvImplies
<1>. QED  BY <1>1, AlwaysInv, PTL

\* No track of a request from before the last stop, leave or cleanup is in the
\* queue or its history, whenever the tasks of such requests end.
THEOREM CanceledIsNotPlayed == Spec => []NoPlayAfterStop
<1>1. Inv => NoPlayAfterStop
  BY NoPlayIsKept
<1>. QED  BY <1>1, AlwaysInv, PTL

\* Between two handlers the backend has the track the queue calls current in
\* the generation the session listens to, or has ended it, or lost its session
\* and has told so; for any number of lost requests, events and connections.
THEOREM QueueAndBackendAgree == Spec => []BackendHasTheCurrentTrack
<1>1. Inv => BackendHasTheCurrentTrack
  BY InvImplies
<1>. QED  BY <1>1, AlwaysInv, PTL

\* A session with nothing to play leaves nothing playing in the backend once
\* the connection is back and its message handled, unless a request was lost.
THEOREM NothingPlaysUnqueued == Spec => []QuietWhenEmpty
<1>1. Inv => QuietWhenEmpty
  BY InvImplies
<1>. QED  BY <1>1, AlwaysInv, PTL

\* A track is added only for somebody who is, at that moment, in the channel
\* played in (commit in session.rs, before and after join).
THEOREM AddedForListeners == Spec => RequesterIsThere
<1>1. Inv /\ Inv' /\ [Next]_vars =>
        [\A t \in Known(session'.queue) \ Known(session.queue) :
           discord.where[t.requester_id] = session'.channel]_session
  BY NextKeeps, RequesterStays
<1>. QED  BY <1>1, AlwaysInv, PTL DEF Spec, RequesterIsThere

\* The queue moves on as finished only when the backend finished the play under
\* way (backend and recover_playback in session.rs), unless a player of an
\* earlier actor was left behind.
THEOREM FinishedOnlyWhenFinished == Spec => OnlyFinishedTracksFinish
<1>1. Inv /\ [Next]_vars =>
        [MovesOnAsFinished /\ OnlyOwnPlayers => BackendFinishedIt]_session
  BY NextKeeps DEF FinishesTruly
<1>. QED  BY <1>1, AlwaysInv, PTL DEF Spec, OnlyFinishedTracksFinish

=============================================================================

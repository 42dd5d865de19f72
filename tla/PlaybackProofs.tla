---------------------------- MODULE PlaybackProofs ----------------------------
(***************************************************************************)
(* What the methods of a queue (src/src/playback.rs) keep, for every set   *)
(* of songs and users and every value of the limits: each of them maps a   *)
(* good queue to a good queue.  PlayQueueProofs and GuildSessionProofs     *)
(* rest on these lemmas.                                                   *)
(***************************************************************************)
EXTENDS Playback, SequenceTheorems, WellFoundedInduction, TLAPS

\* A queue whose tracks, waiting or remembered, all belong to T.
QueueOf(T) ==
    [current: T \union {None},
     upcoming: Seq(T),
     history: Seq(T),
     loop_mode: LoopMode,
     consecutive_failures: 0..FAILURE_LIMIT]

(***************************************************************************)
(* Lemmas over a set T of tracks say two things at once: what has a type   *)
(* keeps it (T is Track), and a method adds no track of its own (T is what *)
(* the queue held before).                                                 *)
(***************************************************************************)
Good(q, T, max) ==
    /\ q \in QueueOf(T)
    /\ QueueLen(q) <= max
    /\ Len(q.history) <= HISTORY_LIMIT
    /\ q.current = None => q.upcoming = <<>>
    /\ q.consecutive_failures = FAILURE_LIMIT => q.current = None

-----------------------------------------------------------------------------
(* Sequences.                                                              *)

LEMMA ConcatType ==
    ASSUME NEW S, NEW s \in Seq(S), NEW t \in Seq(S)
    PROVE  s \o t \in Seq(S) /\ Len(s \o t) = Len(s) + Len(t)
BY ConcatProperties

LEMMA RemoveAtType ==
    ASSUME NEW S, NEW s \in Seq(S), NEW i \in 1..Len(s)
    PROVE  RemoveAt(s, i) \in Seq(S) /\ Len(RemoveAt(s, i)) = Len(s) - 1
<1>. DEFINE before == SubSeq(s, 1, i - 1)
            after == SubSeq(s, i + 1, Len(s))
<1>1. before \in Seq(S) /\ Len(before) = i - 1
  BY SubSeqProperties, ElementOfSeq
<1>2. after \in Seq(S) /\ Len(after) = Len(s) - i
  BY SubSeqProperties, ElementOfSeq
<1>3. RemoveAt(s, i) = before \o after
  BY DEF RemoveAt
<1>4. Len(s) \in Nat
  OBVIOUS
<1>. HIDE DEF before, after
<1>5. before \o after \in Seq(S) /\ Len(before \o after) = Len(before) + Len(after)
  BY <1>1, <1>2, ConcatType
<1>. QED  BY <1>1, <1>2, <1>3, <1>4, <1>5

LEMMA InsertAtType ==
    ASSUME NEW S, NEW s \in Seq(S), NEW i \in 1..(Len(s) + 1), NEW e \in S
    PROVE  InsertAt(s, i, e) \in Seq(S) /\ Len(InsertAt(s, i, e)) = Len(s) + 1
<1>. DEFINE before == SubSeq(s, 1, i - 1)
            after == SubSeq(s, i, Len(s))
<1>1. before \in Seq(S) /\ Len(before) = i - 1
  BY SubSeqProperties, ElementOfSeq
<1>2. after \in Seq(S) /\ Len(after) = Len(s) - i + 1
  BY SubSeqProperties, ElementOfSeq
<1>3. InsertAt(s, i, e) = before \o <<e>> \o after
  BY DEF InsertAt
<1>4. Len(s) \in Nat /\ <<e>> \in Seq(S) /\ Len(<<e>>) = 1
  OBVIOUS
<1>. DEFINE longer == before \o <<e>>
<1>. HIDE DEF before, after
<1>5. longer \in Seq(S) /\ Len(longer) = Len(before) + 1
  BY <1>1, <1>4, ConcatType
<1>. HIDE DEF longer
<1>6. longer \o after \in Seq(S) /\ Len(longer \o after) = Len(longer) + Len(after)
  BY <1>2, <1>5, ConcatType
<1>7. InsertAt(s, i, e) = longer \o after
  BY <1>3 DEF longer
<1>. QED  BY <1>1, <1>2, <1>4, <1>5, <1>6, <1>7

LEMMA FrontType ==
    ASSUME NEW S, NEW s \in Seq(S), s # <<>>
    PROVE  Front(s) \in Seq(S) /\ Len(Front(s)) = Len(s) - 1 /\ Last(s) \in S
<1>1. PICK n \in Nat \ {0} : n = Len(s)
  BY EmptySeq
<1>2. \A i \in 1..(n - 1) : s[i] \in S
  BY <1>1, ElementOfSeq
<1>. DEFINE front == SubSeq(s, 1, n - 1)
<1>3. front \in Seq(S) /\ Len(front) = n - 1
  <2>1. CASE n = 1
    <3>1. SubSeq(s, 1, 0) = <<>>
      BY SubSeqEmpty
    <3>. QED  BY <2>1, <3>1
  <2>2. CASE n # 1
    BY <1>2, <2>2, SubSeqProperties
  <2>. QED  BY <2>1, <2>2
<1>4. Last(s) \in S
  BY <1>1, ElementOfSeq DEF Last
<1>5. Front(s) = front
  BY <1>1 DEF Front
<1>. HIDE DEF front
<1>. QED  BY <1>1, <1>3, <1>4, <1>5

(* A nonempty set of numbers has a least one, a nonempty set of positions  *)
(* a last one.                                                             *)
LEMMA LeastElement ==
    ASSUME NEW B \in SUBSET Nat, B # {}
    PROVE  \E m \in B : \A k \in B : m <= k
<1>. DEFINE R == OpToRel(<, Nat)
<1>1. IsWellFoundedOn(R, Nat)
  BY NatLessThanWellFounded
<1>2. \A d, e \in Nat : d < e => <<d, e>> \in R
  BY DEF OpToRel
<1>. HIDE DEF R
<1>3. PICK m \in B : \A k \in B : <<k, m>> \notin R
  BY <1>1, WFMin
<1>4. ASSUME NEW k \in B
      PROVE  m <= k
  <2>1. ~(k < m)
    BY <1>2, <1>3
  <2>. QED  BY <2>1
<1>. QED  BY <1>4

LEMMA LastPosition ==
    ASSUME NEW n \in Nat, NEW I \in SUBSET (1..n), I # {}
    PROVE  Max(I) \in I
<1>. DEFINE D == {n - i : i \in I}
<1>1. D # {} /\ D \subseteq Nat
  OBVIOUS
<1>. HIDE DEF D
<1>2. PICK d \in D : \A e \in D : d <= e
  BY <1>1, LeastElement
<1>3. PICK i \in I : d = n - i
  BY DEF D
<1>4. \A j \in I : n - j \in D
  BY DEF D
<1>5. \A j \in I : i >= j
  BY <1>2, <1>3, <1>4
<1>. QED  BY <1>3, <1>5 DEF Max

-----------------------------------------------------------------------------
(* Every queue operation keeps a queue good.                               *)

LEMMA RememberedType ==
    ASSUME NEW T, NEW h \in Seq(T), NEW t \in T, Len(h) <= HISTORY_LIMIT
    PROVE  Remembered(h, t) \in Seq(T) /\ Len(Remembered(h, t)) <= HISTORY_LIMIT
<1>1. /\ Append(h, t) \in Seq(T)
      /\ Append(h, t) # <<>>
      /\ Len(Append(h, t)) = Len(h) + 1
  BY AppendProperties
<1>2. Tail(Append(h, t)) \in Seq(T) /\ Len(Tail(Append(h, t))) = Len(h)
  BY <1>1, HeadTailProperties
<1>3. HISTORY_LIMIT \in Nat /\ Len(h) \in Nat
  BY LimitsAssumption
<1>. QED  BY <1>1, <1>2, <1>3 DEF Remembered

(* `next` takes the first upcoming track; it is called with the slot of    *)
(* the old one already counted as free.                                    *)
LEMMA AdvanceGood ==
    ASSUME NEW T \in SUBSET Track, NEW max \in Nat \ {0},
           NEW q \in QueueOf(T),
           Len(q.upcoming) <= max, Len(q.history) <= HISTORY_LIMIT,
           q.consecutive_failures # FAILURE_LIMIT
    PROVE  Good(Advance(q), T, max)
<1>1. CASE q.upcoming = <<>>
  BY <1>1 DEF Advance, Good, QueueOf, QueueLen
<1>2. CASE q.upcoming # <<>>
  <2>1. q.upcoming \in Seq(T)
    BY DEF QueueOf
  <2>2. /\ Head(q.upcoming) \in T
        /\ Tail(q.upcoming) \in Seq(T)
        /\ Len(Tail(q.upcoming)) = Len(q.upcoming) - 1
    BY <1>2, <2>1, HeadTailProperties
  <2>3. Head(q.upcoming) # None
    BY <2>2, NoneAssumption
  <2>4. Len(q.upcoming) \in Nat /\ max \in Nat
    BY <2>1
  <2>5. /\ Advance(q) \in QueueOf(T)
        /\ Advance(q).current = Head(q.upcoming)
        /\ Advance(q).upcoming = Tail(q.upcoming)
        /\ Advance(q).history = q.history
        /\ Advance(q).consecutive_failures = q.consecutive_failures
    BY <1>2, <2>2 DEF Advance, QueueOf
  <2>6. QueueLen(Advance(q)) = Len(q.upcoming)
    BY <2>2, <2>3, <2>4, <2>5 DEF QueueLen
  <2>. QED  BY <2>3, <2>5, <2>6 DEF Good
<1>. QED  BY <1>1, <1>2

LEMMA RememberType ==
    ASSUME NEW T \in SUBSET Track, NEW q \in QueueOf(T), Len(q.history) <= HISTORY_LIMIT, NEW t \in T
    PROVE  /\ Remember(q, t) \in QueueOf(T)
           /\ Remember(q, t).upcoming = q.upcoming
           /\ Remember(q, t).current = q.current
           /\ Remember(q, t).consecutive_failures = q.consecutive_failures
           /\ Len(Remember(q, t).history) <= HISTORY_LIMIT
<1>1. /\ Remembered(q.history, t) \in Seq(T)
      /\ Len(Remembered(q.history, t)) <= HISTORY_LIMIT
  BY RememberedType DEF QueueOf
<1>. QED  BY <1>1 DEF Remember, QueueOf

LEMMA GoodCurrent ==
    ASSUME NEW T \in SUBSET Track, NEW max \in Nat \ {0},
           NEW q, Good(q, T, max), q.current # None
    PROVE  /\ q \in QueueOf(T) /\ q.current \in T
           /\ Len(q.upcoming) \in Nat /\ Len(q.upcoming) + 1 <= max
           /\ Len(q.history) <= HISTORY_LIMIT
           /\ q.consecutive_failures \in 0..FAILURE_LIMIT
           /\ q.consecutive_failures # FAILURE_LIMIT
<1>1. q \in QueueOf(T) /\ q.upcoming \in Seq(T)
  BY DEF Good, QueueOf
<1>2. Len(q.upcoming) \in Nat
  BY <1>1
<1>. QED  BY <1>1, <1>2 DEF Good, QueueOf, QueueLen

LEMMA FinishGood ==
    ASSUME NEW T \in SUBSET Track, NEW max \in Nat \ {0},
           NEW q, Good(q, T, max)
    PROVE  Good(Finish(q), T, max)
<1>1. CASE q.current = None
  BY <1>1 DEF Finish
<1>2. CASE q.current # None
  <2>. DEFINE done == [q EXCEPT !.consecutive_failures = 0]
              repeated == IF q.loop_mode = "queue"
                          THEN [done EXCEPT !.upcoming = Append(@, q.current)]
                          ELSE done
  <2>0. /\ q \in QueueOf(T) /\ q.current \in T
        /\ Len(q.upcoming) \in Nat /\ Len(q.upcoming) + 1 <= max
        /\ Len(q.history) <= HISTORY_LIMIT
        /\ q.consecutive_failures \in 0..FAILURE_LIMIT
        /\ q.consecutive_failures # FAILURE_LIMIT
    BY <1>2, GoodCurrent
  <2>1. /\ done \in QueueOf(T) /\ done.upcoming = q.upcoming
        /\ done.history = q.history /\ done.current = q.current
        /\ done.consecutive_failures = 0 /\ 0 # FAILURE_LIMIT
    BY <2>0, LimitsAssumption DEF QueueOf
  <2>2. Good(done, T, max)
    BY <1>2, <2>0, <2>1 DEF Good, QueueLen
  <2>3. /\ Append(q.upcoming, q.current) \in Seq(T)
        /\ Len(Append(q.upcoming, q.current)) = Len(q.upcoming) + 1
    BY <2>0, AppendProperties DEF QueueOf
  <2>4. /\ repeated \in QueueOf(T) /\ repeated.history = q.history
        /\ repeated.consecutive_failures = 0
        /\ Len(repeated.upcoming) <= max
    <3>1. CASE q.loop_mode = "queue"
      <4>1. /\ repeated = [done EXCEPT !.upcoming = Append(q.upcoming, q.current)]
            /\ repeated \in QueueOf(T)
        BY <2>1, <2>3, <3>1 DEF QueueOf
      <4>2. /\ repeated.upcoming = Append(q.upcoming, q.current)
            /\ repeated.history = q.history
            /\ repeated.consecutive_failures = 0
        BY <2>1, <3>1 DEF QueueOf
      <4>. QED  BY <2>0, <2>3, <4>1, <4>2
    <3>2. CASE q.loop_mode # "queue"
      BY <2>0, <2>1, <3>2
    <3>. QED  BY <3>1, <3>2
  <2>. HIDE DEF done, repeated
  <2>5. Good(Advance(Remember(repeated, q.current)), T, max)
    <3>1. /\ Remember(repeated, q.current) \in QueueOf(T)
          /\ Remember(repeated, q.current).upcoming = repeated.upcoming
          /\ Remember(repeated, q.current).consecutive_failures = 0
          /\ Len(Remember(repeated, q.current).history) <= HISTORY_LIMIT
      BY <2>0, <2>4, RememberType
    <3>. QED  BY <2>1, <2>4, <3>1, AdvanceGood
  <2>6. Finish(q) = IF q.loop_mode = "track" THEN done
                    ELSE Advance(Remember(repeated, q.current))
    BY <1>2 DEF Finish, done, repeated
  <2>. QED  BY <2>2, <2>5, <2>6
<1>. QED  BY <1>1, <1>2

LEMMA FailGood ==
    ASSUME NEW T \in SUBSET Track, NEW max \in Nat \ {0},
           NEW q, Good(q, T, max)
    PROVE  Good(Fail(q), T, max)
<1>1. CASE q.current = None
  BY <1>1 DEF Fail
<1>2. CASE q.current # None
  <2>. DEFINE failures == q.consecutive_failures + 1
              counted == [q EXCEPT !.consecutive_failures = failures]
  <2>0. /\ q \in QueueOf(T) /\ q.current \in T
        /\ Len(q.upcoming) \in Nat /\ Len(q.upcoming) + 1 <= max
        /\ Len(q.history) <= HISTORY_LIMIT
        /\ q.consecutive_failures \in 0..FAILURE_LIMIT
        /\ q.consecutive_failures # FAILURE_LIMIT
    BY <1>2, GoodCurrent
  <2>1. failures \in 1..FAILURE_LIMIT /\ q.consecutive_failures < FAILURE_LIMIT
    BY <2>0, LimitsAssumption
  <2>2. Fail(q) = IF failures >= FAILURE_LIMIT
                  THEN [counted EXCEPT !.current = None, !.upcoming = <<>>]
                  ELSE Advance(counted)
    BY <1>2, <2>1 DEF Fail
  <2>3. /\ counted \in QueueOf(T) /\ counted.upcoming = q.upcoming
        /\ counted.history = q.history
        /\ counted.consecutive_failures = failures
    BY <2>0, <2>1, LimitsAssumption DEF QueueOf
  <2>. HIDE DEF counted
  <2>4. CASE failures >= FAILURE_LIMIT
    <3>. DEFINE stopped == [counted EXCEPT !.current = None, !.upcoming = <<>>]
    <3>1. stopped \in QueueOf(T) /\ stopped.current = None /\ stopped.upcoming = <<>>
          /\ stopped.history = q.history
      BY <2>3, EmptySeq DEF QueueOf
    <3>2. Good(stopped, T, max)
      BY <2>0, <3>1 DEF Good, QueueLen
    <3>. QED  BY <2>2, <2>4, <3>2
  <2>5. CASE ~(failures >= FAILURE_LIMIT)
    <3>1. Good(Advance(counted), T, max)
      BY <2>0, <2>1, <2>3, <2>5, AdvanceGood
    <3>. QED  BY <2>2, <2>5, <3>1
  <2>. QED  BY <2>4, <2>5
<1>. QED  BY <1>1, <1>2

LEMMA SkipGood ==
    ASSUME NEW T \in SUBSET Track, NEW max \in Nat \ {0},
           NEW q, Good(q, T, max)
    PROVE  Good(Skip(q), T, max)
<1>1. CASE q.current = None
  BY <1>1 DEF Skip
<1>2. CASE q.current # None
  <2>1. /\ Remember(q, q.current) \in QueueOf(T)
        /\ Remember(q, q.current).upcoming = q.upcoming
        /\ Remember(q, q.current).consecutive_failures # FAILURE_LIMIT
        /\ Len(Remember(q, q.current).history) <= HISTORY_LIMIT
    BY <1>2, GoodCurrent, RememberType
  <2>2. Good(Advance(Remember(q, q.current)), T, max)
    BY <1>2, <2>1, GoodCurrent, AdvanceGood
  <2>. QED  BY <1>2, <2>2 DEF Skip
<1>. QED  BY <1>1, <1>2

(* The copy Previous takes out is a position of upcoming.                  *)
LEMMA DuplicateType ==
    ASSUME NEW T \in SUBSET Track, NEW q \in QueueOf(T)
    PROVE  Duplicate(q) \in 0..Len(q.upcoming)
<1>. DEFINE Copies == {i \in 1..Len(q.upcoming) :
                         SameRequest(q.upcoming[i], Last(q.history))}
<1>1. Len(q.upcoming) \in Nat
  BY DEF QueueOf
<1>2. Duplicate(q) = IF q.loop_mode = "queue"
                     THEN IF Copies # {} THEN Max(Copies) ELSE 0
                     ELSE 0
  BY DEF Duplicate, SelectLastInSeq
<1>3. Copies \in SUBSET (1..Len(q.upcoming))
  OBVIOUS
<1>. HIDE DEF Copies
<1>4. Copies # {} => Max(Copies) \in 1..Len(q.upcoming)
  BY <1>1, <1>3, LastPosition
<1>. QED  BY <1>1, <1>2, <1>4

(* Previous fits: it either refuses a full queue or takes a copy out.      *)
LEMMA PreviousGood ==
    ASSUME NEW T \in SUBSET Track, NEW max \in Nat \ {0},
           NEW q, Good(q, T, max)
    PROVE  Good(Previous(q, max), T, max)
<1>1. CASE PreviousOutcome(q, max) # "Started"
  BY <1>1 DEF Previous
<1>2. CASE PreviousOutcome(q, max) = "Started"
  <2>. DEFINE d == Duplicate(q)
              rest == IF d = 0 THEN q.upcoming ELSE RemoveAt(q.upcoming, d)
              back == [q EXCEPT !.history = Front(@),
                                !.upcoming = <<q.current>> \o rest,
                                !.current = Last(q.history)]
  <2>1. /\ q.current # None /\ q.history # <<>>
        /\ ~(d = 0 /\ QueueLen(q) >= max)
    BY <1>2 DEF PreviousOutcome
  <2>2. /\ q \in QueueOf(T) /\ q.upcoming \in Seq(T) /\ q.history \in Seq(T)
        /\ q.current \in T /\ d \in 0..Len(q.upcoming)
        /\ Len(q.upcoming) \in Nat /\ Len(q.history) \in Nat
        /\ QueueLen(q) = 1 + Len(q.upcoming)
    BY <2>1, GoodCurrent, DuplicateType DEF Good, QueueOf, QueueLen
  <2>3. rest \in Seq(T)
    BY <2>2, RemoveAtType
  <2>. HIDE DEF d, rest
  <2>4. /\ <<q.current>> \o rest \in Seq(T)
        /\ Len(<<q.current>> \o rest) = 1 + Len(rest)
    <3>1. <<q.current>> \in Seq(T) /\ Len(<<q.current>>) = 1
      BY <2>2
    <3>. QED  BY <2>3, <3>1, ConcatType
  <2>5. /\ Front(q.history) \in Seq(T)
        /\ Len(Front(q.history)) = Len(q.history) - 1
        /\ Last(q.history) \in T
    BY <2>1, <2>2, FrontType
  <2>6. /\ back \in QueueOf(T)
        /\ back.current = Last(q.history)
        /\ back.upcoming = <<q.current>> \o rest
        /\ back.history = Front(q.history)
        /\ back.consecutive_failures = q.consecutive_failures
    BY <2>2, <2>4, <2>5 DEF QueueOf
  <2>7. back.current # None
    BY <2>5, <2>6, NoneAssumption
  <2>. HIDE DEF back
  <2>8. QueueLen(back) = 2 + Len(rest) /\ Len(rest) \in Nat
    BY <2>3, <2>4, <2>6, <2>7 DEF QueueLen
  <2>9. QueueLen(back) <= max
    <3>1. CASE d = 0
      BY <2>1, <2>2, <2>8, <3>1 DEF rest
    <3>2. CASE d # 0
      <4>1. d \in 1..Len(q.upcoming)
        BY <2>2, <3>2
      <4>2. Len(rest) = Len(q.upcoming) - 1
        BY <2>2, <3>2, <4>1, RemoveAtType DEF rest
      <4>. QED  BY <2>1, <2>2, <2>8, <4>2, GoodCurrent
    <3>. QED  BY <3>1, <3>2
  <2>10. Len(back.history) <= HISTORY_LIMIT
    BY <2>1, <2>2, <2>5, <2>6, GoodCurrent, LimitsAssumption
  <2>11. Good(back, T, max)
    BY <2>1, <2>6, <2>7, <2>9, <2>10, GoodCurrent DEF Good
  <2>. QED  BY <1>2, <2>11 DEF Previous, back, rest, d
<1>. QED  BY <1>1, <1>2

(* Enqueue admits what fits, and the first admitted track becomes current  *)
(* exactly when there is none.                                             *)
LEMMA EnqueueGood ==
    ASSUME NEW T \in SUBSET Track, NEW max \in Nat \ {0},
           NEW q, Good(q, T, max), NEW tracks \in Seq(T)
    PROVE  Good(Enqueue(q, tracks, max), T, max)
<1>. DEFINE accepted == Accepted(q, Len(tracks), max)
            taken == SubSeq(tracks, 1, accepted)
<1>1. /\ q \in QueueOf(T) /\ q.upcoming \in Seq(T) /\ QueueLen(q) \in Nat
      /\ Len(q.upcoming) \in Nat /\ Len(tracks) \in Nat
      /\ QueueLen(q) <= max /\ max \in Nat
      /\ q.consecutive_failures \in 0..FAILURE_LIMIT
  BY DEF Good, QueueOf, QueueLen
<1>2. accepted \in 0..Len(tracks) /\ QueueLen(q) + accepted <= max
  BY <1>1 DEF Accepted
<1>3. taken \in Seq(T) /\ Len(taken) = accepted
  <2>1. \A i \in 1..accepted : tracks[i] \in T
    BY <1>2, ElementOfSeq
  <2>2. taken \in Seq(T)
    BY <1>2, <2>1, SubSeqProperties
  <2>3. CASE accepted = 0
    <3>1. SubSeq(tracks, 1, 0) = <<>>
      BY SubSeqEmpty
    <3>. QED  BY <2>3, <3>1
  <2>4. CASE accepted # 0
    BY <1>2, <2>1, <2>2, <2>4, SubSeqProperties
  <2>. QED  BY <2>2, <2>3, <2>4
<1>4. Enqueue(q, tracks, max) =
        IF q.current = None /\ taken # <<>>
        THEN [q EXCEPT !.current = Head(taken),
                       !.upcoming = @ \o Tail(taken),
                       !.consecutive_failures = 0]
        ELSE [q EXCEPT !.upcoming = @ \o taken]
  BY DEF Enqueue
<1>. HIDE DEF accepted, taken
<1>5. CASE q.current = None /\ taken # <<>>
  <2>. DEFINE new == [q EXCEPT !.current = Head(taken),
                               !.upcoming = @ \o Tail(taken),
                               !.consecutive_failures = 0]
  <2>1. /\ Head(taken) \in T /\ Tail(taken) \in Seq(T)
        /\ Len(Tail(taken)) = Len(taken) - 1
    BY <1>3, <1>5, HeadTailProperties
  <2>2. /\ q.upcoming \o Tail(taken) \in Seq(T)
        /\ Len(q.upcoming \o Tail(taken)) = Len(q.upcoming) + Len(Tail(taken))
    BY <1>1, <2>1, ConcatType
  <2>3. /\ new \in QueueOf(T) /\ new.current = Head(taken)
        /\ new.upcoming = q.upcoming \o Tail(taken)
        /\ new.history = q.history /\ new.consecutive_failures = 0
    <3>. DEFINE u == q.upcoming \o Tail(taken)
                t == Head(taken)
    <3>1. /\ new = [q EXCEPT !.current = t, !.upcoming = u,
                             !.consecutive_failures = 0]
          /\ u \in Seq(T) /\ t \in T
      BY <2>1, <2>2
    <3>. HIDE DEF u, t, new
    <3>2. 0 \in 0..FAILURE_LIMIT
      BY LimitsAssumption
    <3>3. new \in QueueOf(T)
      BY <1>1, <3>1, <3>2 DEF QueueOf
    <3>4. /\ new.current = t /\ new.upcoming = u
          /\ new.history = q.history /\ new.consecutive_failures = 0
      BY <1>1, <3>1 DEF QueueOf
    <3>. QED  BY <3>3, <3>4 DEF u, t
  <2>4. Head(taken) # None /\ 0 # FAILURE_LIMIT
    BY <2>1, NoneAssumption, LimitsAssumption
  <2>. HIDE DEF new
  <2>5. Len(taken) \in Nat
    BY <1>2, <1>3
  <2>6. Len(new.upcoming) = Len(q.upcoming) + accepted - 1
    BY <1>1, <1>2, <1>3, <2>1, <2>2, <2>3
  <2>7. QueueLen(new) <= max
    BY <1>1, <1>2, <1>5, <2>3, <2>4, <2>6 DEF QueueLen
  <2>8. Good(new, T, max)
    BY <2>3, <2>4, <2>7 DEF Good
  <2>. QED  BY <1>4, <1>5, <2>8 DEF new
<1>6. CASE ~(q.current = None /\ taken # <<>>)
  <2>. DEFINE new == [q EXCEPT !.upcoming = @ \o taken]
  <2>1. /\ q.upcoming \o taken \in Seq(T)
        /\ Len(q.upcoming \o taken) = Len(q.upcoming) + Len(taken)
    BY <1>1, <1>3, ConcatType
  <2>2. /\ new \in QueueOf(T) /\ new.current = q.current
        /\ new.upcoming = q.upcoming \o taken
        /\ new.history = q.history
        /\ new.consecutive_failures = q.consecutive_failures
    BY <1>1, <2>1 DEF QueueOf
  <2>3. new.current = None => new.upcoming = <<>>
    <3>1. SUFFICES ASSUME q.current = None
                   PROVE  q.upcoming \o taken = <<>>
      BY <2>2
    <3>2. q.upcoming = <<>> /\ taken = <<>>
      BY <1>6, <3>1 DEF Good
    <3>. QED  BY <1>1, <3>2, ConcatEmptySeq
  <2>. HIDE DEF new
  <2>. DEFINE one == IF q.current = None THEN 0 ELSE 1
  <2>4. QueueLen(new) <= max
    <3>1. QueueLen(new) = one + Len(new.upcoming)
      BY <2>2 DEF QueueLen
    <3>2. QueueLen(q) = one + Len(q.upcoming) /\ one \in Nat
      BY DEF QueueLen
    <3>. HIDE DEF one
    <3>3. Len(new.upcoming) = Len(q.upcoming) + accepted
      BY <1>3, <2>1, <2>2
    <3>. QED  BY <1>1, <1>2, <3>1, <3>2, <3>3
  <2>5. Good(new, T, max)
    BY <2>2, <2>3, <2>4 DEF Good
  <2>. QED  BY <1>4, <1>6, <2>5 DEF new
<1>. QED  BY <1>5, <1>6

(* An edit of upcoming that does not lengthen it keeps the queue good.     *)
LEMMA EditGood ==
    ASSUME NEW T \in SUBSET Track, NEW max \in Nat \ {0},
           NEW q, Good(q, T, max), q.current # None,
           NEW u \in Seq(T), Len(u) <= Len(q.upcoming)
    PROVE  Good([q EXCEPT !.upcoming = u], T, max)
<1>. DEFINE new == [q EXCEPT !.upcoming = u]
<1>1. /\ q \in QueueOf(T) /\ Len(q.upcoming) \in Nat /\ Len(u) \in Nat
      /\ QueueLen(q) <= max /\ max \in Nat
  BY GoodCurrent DEF Good
<1>2. /\ new \in QueueOf(T) /\ new.current = q.current /\ new.upcoming = u
      /\ new.history = q.history
      /\ new.consecutive_failures = q.consecutive_failures
  BY <1>1 DEF QueueOf
<1>. HIDE DEF new
<1>3. QueueLen(new) <= max
  BY <1>1, <1>2 DEF QueueLen
<1>4. Good(new, T, max)
  BY <1>2, <1>3, GoodCurrent DEF Good
<1>. QED  BY <1>4 DEF new

(* Without a current track no position is valid.                           *)
LEMMA ValidPositionHasCurrent ==
    ASSUME NEW T \in SUBSET Track, NEW max \in Nat \ {0},
           NEW q, Good(q, T, max), NEW position, ValidPosition(q, position)
    PROVE  q.current # None
<1>1. q.upcoming # <<>>
  BY DEF ValidPosition
<1>. QED  BY <1>1 DEF Good

LEMMA RemoveGood ==
    ASSUME NEW T \in SUBSET Track, NEW max \in Nat \ {0},
           NEW q, Good(q, T, max), NEW position
    PROVE  Good(RemoveAtPosition(q, position), T, max)
<1>1. CASE ~ValidPosition(q, position)
  BY <1>1 DEF RemoveAtPosition
<1>2. CASE ValidPosition(q, position)
  <2>1. q.current # None /\ q.upcoming \in Seq(T) /\ Len(q.upcoming) \in Nat
    BY <1>2, ValidPositionHasCurrent DEF Good, QueueOf
  <2>2. /\ RemoveAt(q.upcoming, position) \in Seq(T)
        /\ Len(RemoveAt(q.upcoming, position)) = Len(q.upcoming) - 1
    BY <1>2, <2>1, RemoveAtType DEF ValidPosition
  <2>3. Good([q EXCEPT !.upcoming = RemoveAt(q.upcoming, position)], T, max)
    BY <2>1, <2>2, EditGood
  <2>. QED  BY <1>2, <2>3 DEF RemoveAtPosition
<1>. QED  BY <1>1, <1>2

LEMMA MoveGood ==
    ASSUME NEW T \in SUBSET Track, NEW max \in Nat \ {0},
           NEW q, Good(q, T, max), NEW from, NEW to
    PROVE  Good(MoveTo(q, from, to), T, max)
<1>1. CASE ~(ValidPosition(q, from) /\ ValidPosition(q, to))
  BY <1>1 DEF MoveTo
<1>2. CASE ValidPosition(q, from) /\ ValidPosition(q, to)
  <2>. DEFINE rest == RemoveAt(q.upcoming, from)
              moved == InsertAt(rest, to, q.upcoming[from])
  <2>1. PICK n \in Nat : n = Len(q.upcoming)
    BY DEF Good, QueueOf
  <2>2. /\ q.current # None /\ q.upcoming \in Seq(T)
        /\ from \in 1..n /\ to \in 1..n
    BY <1>2, <2>1, ValidPositionHasCurrent DEF Good, QueueOf, ValidPosition
  <2>3. rest \in Seq(T) /\ Len(rest) = n - 1
    BY <2>1, <2>2, RemoveAtType
  <2>4. q.upcoming[from] \in T
    BY <2>1, <2>2, ElementOfSeq
  <2>. HIDE DEF rest
  <2>5. to \in 1..(Len(rest) + 1)
    BY <2>2, <2>3
  <2>6. moved \in Seq(T) /\ Len(moved) = Len(rest) + 1
    BY <2>3, <2>4, <2>5, InsertAtType
  <2>. HIDE DEF moved
  <2>7. Good([q EXCEPT !.upcoming = moved], T, max)
    BY <2>1, <2>2, <2>3, <2>6, EditGood
  <2>. QED  BY <1>2, <2>7 DEF MoveTo, moved, rest
<1>. QED  BY <1>1, <1>2

LEMMA JumpGood ==
    ASSUME NEW T \in SUBSET Track, NEW max \in Nat \ {0},
           NEW q, Good(q, T, max), NEW position
    PROVE  Good(Jump(q, position), T, max)
<1>1. CASE q.current = None \/ ~ValidPosition(q, position)
  BY <1>1 DEF Jump
<1>2. CASE q.current # None /\ ValidPosition(q, position)
  <2>. DEFINE shorter == RemoveAtPosition(q, position)
              kept == Remember(shorter, q.current)
              new == [kept EXCEPT !.current = q.upcoming[position]]
  <2>1. Good(shorter, T, max)
    BY RemoveGood
  <2>2. shorter.current = q.current
    BY <1>2, GoodCurrent DEF RemoveAtPosition, QueueOf
  <2>3. /\ shorter \in QueueOf(T) /\ q.current \in T
        /\ Len(shorter.history) <= HISTORY_LIMIT
        /\ shorter.consecutive_failures # FAILURE_LIMIT
        /\ QueueLen(shorter) <= max
    BY <1>2, <2>1, <2>2, GoodCurrent DEF Good
  <2>4. q.upcoming[position] \in T /\ q.upcoming[position] # None
    <3>1. q.upcoming[position] \in T
      BY <1>2, ElementOfSeq DEF Good, QueueOf, ValidPosition
    <3>. QED  BY <3>1, NoneAssumption
  <2>. HIDE DEF shorter
  <2>5. /\ kept \in QueueOf(T) /\ kept.upcoming = shorter.upcoming
        /\ kept.consecutive_failures = shorter.consecutive_failures
        /\ Len(kept.history) <= HISTORY_LIMIT
    BY <2>3, RememberType
  <2>. HIDE DEF kept
  <2>6. /\ new \in QueueOf(T) /\ new.upcoming = shorter.upcoming
        /\ new.current = q.upcoming[position]
        /\ new.history = kept.history
        /\ new.consecutive_failures = shorter.consecutive_failures
    BY <2>4, <2>5 DEF QueueOf
  <2>. HIDE DEF new
  <2>7. QueueLen(new) = QueueLen(shorter)
    BY <1>2, <2>2, <2>4, <2>6 DEF QueueLen
  <2>8. Good(new, T, max)
    BY <2>3, <2>4, <2>5, <2>6, <2>7 DEF Good
  <2>. QED  BY <1>2, <2>8 DEF Jump, new, kept, shorter
<1>. QED  BY <1>1, <1>2

LEMMA ShuffledGood ==
    ASSUME NEW T \in SUBSET Track, NEW max \in Nat \ {0},
           NEW q, Good(q, T, max), NEW r \in Shuffled(q)
    PROVE  Good(r, T, max)
<1>1. PICK n \in Nat : n = Len(q.upcoming)
  BY DEF Good, QueueOf
<1>2. PICK p \in Orders(n) :
        r = [q EXCEPT !.upcoming = [i \in DOMAIN q.upcoming |-> q.upcoming[p[i]]]]
  BY <1>1 DEF Shuffled
<1>. DEFINE u == [i \in 1..n |-> q.upcoming[p[i]]]
<1>3. q.upcoming \in [1..n -> T] /\ DOMAIN q.upcoming = 1..n
  BY <1>1 DEF Good, QueueOf
<1>4. p \in [1..n -> 1..n]
  BY <1>2 DEF Orders
<1>5. u \in [1..n -> T]
  BY <1>3, <1>4
<1>6. u \in Seq(T) /\ Len(u) = n
  BY <1>5, SeqDef
<1>7. r = [q EXCEPT !.upcoming = u]
  BY <1>2, <1>3
<1>. HIDE DEF u
<1>8. CASE q.current # None
  BY <1>1, <1>6, <1>7, <1>8, EditGood
<1>9. CASE q.current = None
  <2>1. q.upcoming = <<>> /\ n = 0
    BY <1>1, <1>9 DEF Good
  <2>2. u = q.upcoming
    BY <1>6, <2>1
  <2>3. r = q
    BY <1>7, <2>2 DEF Good, QueueOf
  <2>. QED  BY <2>3
<1>. QED  BY <1>8, <1>9

LEMMA LoopGood ==
    ASSUME NEW T \in SUBSET Track, NEW max \in Nat \ {0},
           NEW q, Good(q, T, max), NEW mode \in LoopMode
    PROVE  Good([q EXCEPT !.loop_mode = mode], T, max)
BY DEF Good, QueueOf, QueueLen

LEMMA ClearGood ==
    ASSUME NEW T \in SUBSET Track, NEW max \in Nat \ {0},
           NEW q, Good(q, T, max)
    PROVE  Good(Clear(q), T, max)
<1>1. <<>> \in Seq(T) /\ Len(<<>>) = 0 /\ 0 <= Len(q.upcoming)
  BY EmptySeq DEF Good, QueueOf
<1>2. CASE q.current # None
  BY <1>1, <1>2, EditGood DEF Clear
<1>3. CASE q.current = None
  <2>1. Clear(q) = q
    BY <1>3 DEF Clear, Good, QueueOf
  <2>. QED  BY <2>1
<1>. QED  BY <1>2, <1>3

(* Nothing of the tracks is left.                                         *)
LEMMA StopGood ==
    ASSUME NEW T \in SUBSET Track, NEW max \in Nat \ {0},
           NEW q, Good(q, T, max), NEW U
    PROVE  Good(Stop(q), U, max)
<1>1. 0 \in 0..FAILURE_LIMIT /\ <<>> \in Seq(U) /\ q \in QueueOf(T)
  BY EmptySeq, LimitsAssumption DEF Good
<1>2. Stop(q) \in QueueOf(U)
  BY <1>1 DEF QueueOf, Stop
<1>3. /\ Stop(q).current = None /\ Stop(q).upcoming = <<>>
      /\ Stop(q).history = <<>>
  BY <1>1 DEF QueueOf, Stop
<1>4. QueueLen(Stop(q)) = 0 /\ Len(Stop(q).history) = 0
  BY <1>3 DEF QueueLen
<1>. QED  BY <1>2, <1>3, <1>4, LimitsAssumption DEF Good

LEMMA EmptyQueueGood ==
    ASSUME NEW T, NEW max \in Nat \ {0}
    PROVE  Good(EmptyQueue, T, max)
BY LimitsAssumption
   DEF EmptyQueue, Good, QueueOf, QueueLen, LoopMode
=============================================================================

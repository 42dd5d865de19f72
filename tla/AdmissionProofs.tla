--------------------------- MODULE AdmissionProofs ----------------------------
(***************************************************************************)
(* Who may have music, what autocomplete offers them and what a /play      *)
(* takes of an answer, for any users, channels, roles, texts and answers.  *)
(*                                                                         *)
(* The proofs go from data to behaviour: the loop of normalize, the types, *)
(* the permits and the offers (the invariant Inv), and what the cache will *)
(* know when it has heard all that is on its way (AccessInv).              *)
(***************************************************************************)
EXTENDS Admission, FiniteSetTheorems, SequenceTheorems, WellFoundedInduction, TLAPS

-----------------------------------------------------------------------------
(* normalize: the loop over what the backend answered.                     *)

\* The resolution after a set of turns, whose last one is the latest.
IsLoop(f, d, s, playlist, search, limit) ==
    f = [t \in SUBSET d |->
           IF t = {} THEN Failed("none")
           ELSE Considered(f[t \ {Max(t)}], s[Max(t)], playlist, search, limit)]

Loop(s, playlist, search, limit) == CHOOSE f : IsLoop(f, DOMAIN s, s, playlist, search, limit)

LEMMA NormalizeLoops ==
    ASSUME NEW answer, NEW playlist, NEW search, NEW capacity
    PROVE  LET limit == Limit(playlist, search, capacity)
               result == Loop(answer.tracks, playlist, search, limit)[DOMAIN answer.tracks]
           IN  Normalize(answer, playlist, search, capacity) =
                 CASE capacity = 0 -> Failed("full")
                   [] capacity > 0 /\ answer.type = "error" -> Failed("load failed")
                   [] capacity > 0 /\ answer.type = "empty" -> Failed("no match")
                   [] capacity > 0 /\ answer.type = "other" -> Failed("invalid response")
                   [] OTHER -> IF result.tracks = <<>> THEN Failed("no match") ELSE result
BY DEF Normalize, FoldLeft, MapThenFoldSet, Loop, IsLoop

LEMMA MaxOfInterval ==
    ASSUME NEW n \in Nat, NEW t \in SUBSET (1..n), n \in t
    PROVE  Max(t) = n
<1>1. \A x \in t : (\A y \in t : x >= y) => x = n
  OBVIOUS
<1>2. \A y \in t : n >= y
  OBVIOUS
<1>. QED  BY <1>1, <1>2 DEF Max

LEMMA LeastElement ==
    ASSUME NEW B \in SUBSET Nat, B # {}
    PROVE  \E m \in B : \A k \in B : m <= k
<1>. DEFINE R == OpToRel(<, Nat)
<1>1. IsWellFoundedOn(R, Nat)
  BY NatLessThanWellFounded
<1>2. \A d, e \in Nat : d < e => <<d, e>> \in R
  BY DEF OpToRel
<1>. HIDE DEF R
<1>3. PICK m \in B : \A k \in B : <<k, m>> \notin R
  BY <1>1, WFMin
<1>4. ASSUME NEW k \in B
      PROVE  m <= k
  <2>1. ~(k < m)
    BY <1>2, <1>3
  <2>. QED  BY <2>1
<1>. QED  BY <1>4

\* What does not begin, and does not come after what is not, never is.
LEMMA NeverBegins ==
    ASSUME NEW W \in SUBSET Nat, 0 \notin W, \A k \in Nat : k \notin W => k + 1 \notin W
    PROVE  W = {}
<1>. SUFFICES ASSUME W # {} PROVE FALSE
  OBVIOUS
<1>1. PICK m \in W : \A k \in W : m <= k
  BY LeastElement
<1>2. m # 0 /\ m - 1 \in Nat /\ m - 1 \notin W
  BY <1>1
<1>3. (m - 1) + 1 \notin W
  BY <1>2
<1>. QED  BY <1>3

LEMMA LoopGrows ==
    ASSUME NEW s, NEW playlist, NEW search, NEW limit, NEW n \in Nat,
           NEW f, IsLoop(f, 1..n, s, playlist, search, limit)
    PROVE  \E g : IsLoop(g, 1..(n + 1), s, playlist, search, limit)
<1>. DEFINE Turn(r, i) == Considered(r, s[i], playlist, search, limit)
            g == [t \in SUBSET (1..(n + 1)) |->
                    IF n + 1 \in t THEN Turn(f[t \ {n + 1}], n + 1) ELSE f[t]]
<1>. HIDE DEF Turn
<1>0. f = [t \in SUBSET (1..n) |-> IF t = {} THEN Failed("none") ELSE Turn(f[t \ {Max(t)}], Max(t))]
  BY DEF Turn, IsLoop
<1>1. ASSUME NEW t \in SUBSET (1..(n + 1))
      PROVE  g[t] = IF t = {} THEN Failed("none") ELSE Turn(g[t \ {Max(t)}], Max(t))
  <2>1. CASE n + 1 \in t
    <3>1. Max(t) = n + 1
      BY <2>1, MaxOfInterval
    <3>2. t \ {n + 1} \in SUBSET (1..(n + 1)) /\ n + 1 \notin t \ {n + 1}
      OBVIOUS
    <3>3. g[t \ {n + 1}] = f[t \ {n + 1}]
      BY <3>2
    <3>. QED  BY <2>1, <3>1, <3>3
  <2>2. CASE n + 1 \notin t
    <3>1. t \in SUBSET (1..n)
      BY <2>2
    <3>2. g[t] = f[t]
      BY <2>2
    <3>3. CASE t = {}
      BY <3>1, <3>2, <3>3, <1>0
    <3>4. CASE t # {}
      <4>1. f[t] = Turn(f[t \ {Max(t)}], Max(t))
        BY <1>0, <3>1, <3>4
      <4>2. g[t \ {Max(t)}] = f[t \ {Max(t)}]
        <5>1. t \ {Max(t)} \in SUBSET (1..(n + 1)) /\ n + 1 \notin t \ {Max(t)}
          BY <2>2
        <5>. QED  BY <5>1
      <4>. QED  BY <3>2, <3>4, <4>1, <4>2
    <3>. QED  BY <3>3, <3>4
  <2>. QED  BY <2>1, <2>2
<1>2. g = [t \in SUBSET (1..(n + 1)) |->
             IF t = {} THEN Failed("none") ELSE Turn(g[t \ {Max(t)}], Max(t))]
  <2>. HIDE DEF g
  <2>1. g = [t \in SUBSET (1..(n + 1)) |-> g[t]]
    BY DEF g
  <2>. QED  BY <1>1, <2>1
<1>. HIDE DEF g
<1>3. IsLoop(g, 1..(n + 1), s, playlist, search, limit)
  BY <1>2 DEF Turn, IsLoop
<1>. QED  BY <1>3

LEMMA LoopExists ==
    ASSUME NEW s, NEW playlist, NEW search, NEW limit, NEW n \in Nat
    PROVE  \E f : IsLoop(f, 1..n, s, playlist, search, limit)
<1>. DEFINE P(m) == \E f : IsLoop(f, 1..m, s, playlist, search, limit)
            without == {m \in Nat : ~P(m)}
<1>1. P(0)
  <2>. DEFINE f == [t \in SUBSET (1..0) |-> Failed("none")]
  <2>1. \A t \in SUBSET (1..0) : t = {}
    OBVIOUS
  <2>2. IsLoop(f, 1..0, s, playlist, search, limit)
    BY <2>1 DEF IsLoop
  <2>. QED  BY <2>2
<1>2. ASSUME NEW m \in Nat, P(m)
      PROVE  P(m + 1)
  <2>1. PICK f : IsLoop(f, 1..m, s, playlist, search, limit)
    BY <1>2
  <2>. QED  BY <2>1, LoopGrows
<1>. HIDE DEF P
<1>3. without = {}
  <2>1. without \in SUBSET Nat /\ 0 \notin without
    BY <1>1
  <2>2. \A k \in Nat : k \notin without => k + 1 \notin without
    BY <1>2
  <2>. HIDE DEF without
  <2>. QED  BY <2>1, <2>2, NeverBegins
<1>4. P(n)
  BY <1>3 DEF without
<1>. QED  BY <1>4 DEF P

\* The loop takes the tracks one at a time, in order.
LEMMA LoopTurns ==
    ASSUME NEW S, NEW s \in Seq(S), NEW playlist, NEW search, NEW limit
    PROVE  LET f == Loop(s, playlist, search, limit)
           IN  /\ f[{}] = Failed("none")
               /\ \A k \in 1..Len(s) :
                     f[1..k] = Considered(f[1..(k - 1)], s[k], playlist, search, limit)
<1>. DEFINE f == Loop(s, playlist, search, limit)
<1>1. DOMAIN s = 1..Len(s) /\ Len(s) \in Nat
  OBVIOUS
<1>2. \E h : IsLoop(h, DOMAIN s, s, playlist, search, limit)
  BY <1>1, LoopExists
<1>3. IsLoop(f, DOMAIN s, s, playlist, search, limit)
  BY <1>2 DEF Loop
<1>. HIDE DEF f
<1>4. \A t \in SUBSET (1..Len(s)) :
         f[t] = IF t = {} THEN Failed("none")
                ELSE Considered(f[t \ {Max(t)}], s[Max(t)], playlist, search, limit)
  BY <1>1, <1>3 DEF IsLoop
<1>5. f[{}] = Failed("none")
  <2>1. {} \in SUBSET (1..Len(s))
    OBVIOUS
  <2>. QED  BY <1>4, <2>1
<1>6. ASSUME NEW k \in 1..Len(s)
      PROVE  f[1..k] = Considered(f[1..(k - 1)], s[k], playlist, search, limit)
  <2>1. 1..k \in SUBSET (1..Len(s)) /\ 1..k # {} /\ k \in 1..k
    BY <1>1
  <2>2. Max(1..k) = k
    BY <2>1, MaxOfInterval
  <2>3. (1..k) \ {k} = 1..(k - 1)
    OBVIOUS
  <2>. QED  BY <1>4, <2>1, <2>2, <2>3
<1>. QED  BY <1>5, <1>6 DEF f

LEMMA ConsideredTyped ==
    ASSUME NEW r \in Resolution, NEW raw \in RawTrack, NEW playlist, NEW search, NEW limit
    PROVE  Considered(r, raw, playlist, search, limit) \in Resolution
<1>1. /\ r.tracks \in Seq(RawTrack) /\ r.rejected \in Nat /\ r.omitted \in Nat
      /\ r.failure \in Failures
  BY DEF Resolution
<1>2. Append(r.tracks, raw) \in Seq(RawTrack)
  BY <1>1, AppendProperties
<1>. DEFINE longer == Append(r.tracks, raw)
<1>. HIDE DEF longer
<1>3. [r EXCEPT !.tracks = longer] \in Resolution
  BY <1>1, <1>2 DEF Resolution, longer
<1>4. /\ [r EXCEPT !.rejected = @ + 1] \in Resolution
      /\ [r EXCEPT !.omitted = @ + 1] \in Resolution
  BY <1>1 DEF Resolution
<1>. QED  BY <1>3, <1>4 DEF Considered, longer

LEMMA FailedTyped ==
    ASSUME NEW failure \in Failures
    PROVE  Failed(failure) \in Resolution
BY DEF Failed, Resolution

LEMMA LoopTyped ==
    ASSUME NEW s \in Seq(RawTrack), NEW playlist, NEW search, NEW limit
    PROVE  Loop(s, playlist, search, limit)[DOMAIN s] \in Resolution
<1>. DEFINE f == Loop(s, playlist, search, limit)
            wrong == {k \in 0..Len(s) : f[1..k] \notin Resolution}
<1>a. "none" \in Failures
  BY DEF Failures
<1>b. Failed("none") \in Resolution
  BY <1>a, FailedTyped
<1>0. Failed("none") \in Resolution /\ 1..0 = {}
  BY <1>b
<1>1. f[1..0] \in Resolution
  BY <1>0, LoopTurns
<1>2. \A k \in 1..Len(s) : f[1..k] = Considered(f[1..(k - 1)], s[k], playlist, search, limit)
  BY LoopTurns
<1>. HIDE DEF f
<1>3. wrong = {}
  <2>1. wrong \in SUBSET Nat /\ 0 \notin wrong
    BY <1>1
  <2>2. ASSUME NEW k \in Nat, k \notin wrong
        PROVE  k + 1 \notin wrong
    <3>. SUFFICES ASSUME k + 1 \in wrong PROVE FALSE
      OBVIOUS
    <3>1. k + 1 \in 1..Len(s) /\ f[1..k] \in Resolution /\ s[k + 1] \in RawTrack
      BY <2>2
    <3>2. f[1..(k + 1)] = Considered(f[1..k], s[k + 1], playlist, search, limit)
      BY <1>2, <3>1
    <3>. QED  BY <3>1, <3>2, ConsideredTyped
  <2>. HIDE DEF wrong
  <2>. QED  BY <2>1, <2>2, NeverBegins
<1>4. f[1..Len(s)] \in Resolution
  BY <1>3
<1>. QED  BY <1>4 DEF f

\* The tracks of an answer, which has none unless it is of a type with tracks.
LEMMA AnswerTyped ==
    ASSUME NEW answer \in Answer
    PROVE  /\ answer.tracks \in Seq(RawTrack)
           /\ answer.type \in {"error", "empty", "other"} => answer.tracks = <<>>
<1>1. CASE answer \in [type: {"track", "playlist", "search"}, tracks: Seq(RawTrack)]
  BY <1>1
<1>2. CASE answer \in [type: {"error", "empty", "other"}, tracks: {<<>>}]
  <2>. DEFINE none == <<>>
  <2>1. none \in Seq(RawTrack)
    BY EmptySeq
  <2>2. answer \in [type: {"error", "empty", "other"}, tracks: {none}]
    BY <1>2
  <2>. HIDE DEF none
  <2>3. answer.tracks = none
    BY <2>2
  <2>. QED  BY <2>1, <2>3 DEF none
<1>. QED  BY <1>1, <1>2 DEF Answer

LEMMA NormalizeTyped ==
    ASSUME NEW answer \in Answer, NEW playlist, NEW search, NEW capacity
    PROVE  Normalize(answer, playlist, search, capacity) \in Resolution
<1>. DEFINE result == Loop(answer.tracks, playlist, search, Limit(playlist, search, capacity))[DOMAIN answer.tracks]
<1>1. result \in Resolution
  BY AnswerTyped, LoopTyped
<1>2. \A failure \in Failures : Failed(failure) \in Resolution
  BY FailedTyped
<1>. HIDE DEF result
<1>3. Normalize(answer, playlist, search, capacity) \in
        {Failed(failure) : failure \in Failures} \union {result}
  BY NormalizeLoops DEF result, Failures
<1>. QED  BY <1>1, <1>2, <1>3

-----------------------------------------------------------------------------
(* The layers of permissions.                                              *)

\* The layers under the member's own overwrite.
LEMMA RolesDecide ==
    ASSUME NEW held, NEW roles, NEW channel, NEW p
    PROVE  p \in ForRoles(held, roles, channel) <=>
             \/ \E r \in held : p \in channel.of_role[r].allow
             \/ /\ \A r \in held : p \notin channel.of_role[r].deny
                /\ \/ p \in channel.of_role[Everyone].allow
                   \/ /\ p \notin channel.of_role[Everyone].deny
                      /\ \E r \in held \union {Everyone} : p \in OfRole(roles, r)
<1>1. p \in Base(held, roles) <=> \E r \in held \union {Everyone} : p \in OfRole(roles, r)
  BY DEF Base
<1>2. p \in UNION {channel.of_role[r].deny : r \in held}
        <=> \E r \in held : p \in channel.of_role[r].deny
  OBVIOUS
<1>3. p \in UNION {channel.of_role[r].allow : r \in held}
        <=> \E r \in held : p \in channel.of_role[r].allow
  OBVIOUS
<1>. QED  BY <1>1, <1>2, <1>3 DEF ForRoles, ForEveryone, Overwritten

(***************************************************************************)
(* permissions() grants what the reference Granted grants, for every set   *)
(* of roles and overwrites.                                                *)
(***************************************************************************)
THEOREM LayersDecide ==
    ASSUME NEW user, NEW owner, NEW held, NEW roles, NEW channel, NEW p \in Permissions
    PROVE  p \in PermissionsOf(user, owner, held, roles, channel)
             <=> Granted(p, user, owner, held, roles, channel)
<1>1. "administrator" \in Base(held, roles)
        <=> \E r \in held \union {Everyone} : "administrator" \in OfRole(roles, r)
  BY DEF Base
<1>. QED  BY <1>1, RolesDecide DEF PermissionsOf, Granted, Overwritten

(***************************************************************************)
(* A server the cache knows as Discord has it, whatever else it knows of   *)
(* it, admits exactly those in a voice channel with room where the bot is  *)
(* granted all it needs.                                                   *)
(***************************************************************************)
THEOREM AdmitsTheGranted ==
    ASSUME NEW g, NEW caller, NEW c, g.bot_roles # None
    PROVE  Admits(g, caller, c) <=>
             /\ CallerIn(g, caller, c)
             /\ \A p \in Needed :
                   Granted(p, Bot, g.owner, g.bot_roles, g.roles, g.channels[c])
             /\ ~Full(g, c)
<1>1. Needed \subseteq Permissions
  BY DEF Needed, Permissions
<1>2. (Needed \subseteq PermissionsOf(Bot, g.owner, g.bot_roles, g.roles, g.channels[c]))
        <=> \A p \in Needed :
              Granted(p, Bot, g.owner, g.bot_roles, g.roles, g.channels[c])
  BY <1>1, LayersDecide
<1>. QED  BY <1>2 DEF Admits

-----------------------------------------------------------------------------
(* The type of what the cache holds.                                       *)

\* A server within the limit of voice members.
Known(g) == g \in Guild /\ Cardinality(Present(g.voices)) <= MAX_VOICE_MEMBERS

LEMMA PresentFinite ==
    ASSUME NEW voices
    PROVE  /\ Present(voices) \subseteq Users
           /\ IsFiniteSet(Present(voices))
           /\ Cardinality(Present(voices)) \in Nat
<1>1. Present(voices) \subseteq Users
  BY DEF Present
<1>2. IsFiniteSet(Present(voices))
  BY <1>1, AccessAssumption, FS_Subset
<1>. QED  BY <1>1, <1>2, FS_CardinalityType

\* A place in voice is not the lack of one.
LEMMA VoiceIsSome ==
    ASSUME NEW voice \in Voice
    PROVE  voice # None
BY NoneAssumption

LEMMA SmallerIsKnown ==
    ASSUME NEW g \in Guild, NEW limited, limited \in SUBSET Users,
           Present(g.voices) \subseteq limited,
           Cardinality(limited) <= MAX_VOICE_MEMBERS
    PROVE  Known(g)
<1>1. IsFiniteSet(limited)
  BY AccessAssumption, FS_Subset
<1>2. Cardinality(Present(g.voices)) <= Cardinality(limited)
  BY <1>1, FS_Subset
<1>3. Cardinality(limited) \in Nat /\ Cardinality(Present(g.voices)) \in Nat
  BY <1>1, FS_CardinalityType, PresentFinite
<1>. QED  BY <1>2, <1>3, AccessAssumption DEF Known

LEMMA CreatedKnown ==
    ASSUME NEW from \in Server, NEW complete \in BOOLEAN, NEW g \in Created(from, complete)
    PROVE  Known(g)
<1>1. PICK S \in Noticed(from.voices) :
         g = [available |-> TRUE, owner |-> from.owner,
              channels |-> from.channels, roles |-> from.roles,
              bot_roles |-> IF complete THEN from.bot_roles ELSE None,
              voices |-> [u \in Users |->
                    IF u \in S THEN [channel |-> from.voices[u].channel, bot |-> u = Bot]
                    ELSE None],
              activity |-> NoActivity]
  BY DEF Created
<1>. DEFINE heard == [u \in Users |->
                    IF u \in S THEN [channel |-> from.voices[u].channel, bot |-> u = Bot]
                    ELSE None]
<1>2. S \subseteq Present(from.voices) /\ S \subseteq Users
  BY PresentFinite DEF Noticed
<1>3. Cardinality(S) <= MAX_VOICE_MEMBERS
  BY PresentFinite, AccessAssumption DEF Noticed, AtMost
<1>4. \A u \in S : from.voices[u] \in Voice
  BY <1>2 DEF Present, Server
<1>5. heard \in [Users -> {None} \union Voice]
  BY <1>4 DEF Voice
<1>6. Present(heard) \subseteq S
  BY DEF Present
<1>7. /\ g.available = TRUE /\ g.owner \in Users
      /\ g.channels \in [Channels -> {None} \union ChannelAccess]
      /\ g.roles \in [Roles -> {None} \union SUBSET Permissions]
      /\ g.bot_roles \in {None} \union SUBSET Roles
      /\ g.activity \in Activity
  BY <1>1 DEF Server, NoActivity, Activity
<1>8. g.voices = heard
  BY <1>1
<1>9. g = [available |-> g.available, owner |-> g.owner, channels |-> g.channels,
           roles |-> g.roles, bot_roles |-> g.bot_roles, voices |-> g.voices,
           activity |-> g.activity]
  BY <1>1
<1>. HIDE DEF heard
<1>10. g \in Guild
  BY <1>5, <1>7, <1>8, <1>9 DEF Guild
<1>. QED  BY <1>2, <1>3, <1>6, <1>8, <1>10, SmallerIsKnown

LEMMA WithMemberKnown ==
    ASSUME NEW g, Known(g), NEW held \in SUBSET Roles
    PROVE  Known(WithMember(g, held)) /\ WithMember(g, held).voices = g.voices
BY DEF Known, WithMember, Guild

LEMMA VoicedKnown ==
    ASSUME NEW g, Known(g), NEW user \in Users, NEW channel \in Channels \union {None},
           NEW member \in Member
    PROVE  Known(Voiced(g, user, channel, member))
<1>. DEFINE known == IF user = Bot /\ member # None THEN WithMember(g, member.roles) ELSE g
            state == [channel |-> channel, bot |-> IsBot(g, user, member)]
            bigger == Present(g.voices) \union {user}
<1>1. Known(known) /\ known.voices = g.voices
  BY WithMemberKnown DEF Member
<1>2. /\ g.voices \in [Users -> {None} \union Voice]
      /\ Cardinality(Present(g.voices)) <= MAX_VOICE_MEMBERS
      /\ IsFiniteSet(Present(g.voices))
      /\ Cardinality(Present(g.voices)) \in Nat
  BY PresentFinite DEF Known, Guild
<1>3. CASE channel = None
  <2>. DEFINE after == [known EXCEPT !.voices[user] = None]
  <2>1. after \in Guild /\ after.voices = [g.voices EXCEPT ![user] = None]
    BY <1>1, <1>2 DEF Known, Guild
  <2>2. Present(after.voices) \subseteq Present(g.voices)
    BY <1>2, <2>1 DEF Present
  <2>3. Known(after)
    BY <1>2, <2>1, <2>2, PresentFinite, SmallerIsKnown
  <2>. QED  BY <1>3, <2>3 DEF Voiced
<1>4. CASE channel # None
  <2>. DEFINE after == [known EXCEPT !.voices[user] = state]
  <2>1. state \in Voice
    <3>1. IsBot(g, user, member) \in BOOLEAN
      BY DEF IsBot
    <3>. QED  BY <3>1, <1>4 DEF Voice
  <2>. HIDE DEF state
  <2>2. after \in Guild /\ after.voices = [g.voices EXCEPT ![user] = state]
    BY <1>1, <1>2, <2>1 DEF Known, Guild
  <2>3. Present(after.voices) \subseteq bigger
    BY <1>2, <2>2 DEF Present
  <2>4. bigger \in SUBSET Users
    BY PresentFinite
  <2>5. CASE g.voices[user] # None \/ Cardinality(Present(g.voices)) < MAX_VOICE_MEMBERS
    <3>1. Cardinality(bigger) = IF user \in Present(g.voices)
                                THEN Cardinality(Present(g.voices))
                                ELSE Cardinality(Present(g.voices)) + 1
      BY <1>2, FS_AddElement
    <3>2. g.voices[user] # None => user \in Present(g.voices)
      BY DEF Present
    <3>3. Cardinality(bigger) <= MAX_VOICE_MEMBERS
      BY <1>2, <2>5, <3>1, <3>2, AccessAssumption
    <3>4. Known(after)
      BY <2>2, <2>3, <2>4, <3>3, SmallerIsKnown
    <3>. QED  BY <1>4, <2>5, <3>4 DEF Voiced, state
  <2>6. CASE ~(g.voices[user] # None \/ Cardinality(Present(g.voices)) < MAX_VOICE_MEMBERS)
    BY <1>1, <1>4, <2>6 DEF Voiced
  <2>. QED  BY <2>5, <2>6
<1>. QED  BY <1>3, <1>4

LEMMA UpdatedKnown ==
    ASSUME NEW g, Known(g), NEW event \in Event, event.kind \notin {"create", "gone"}
    PROVE  Known(Updated(g, event))
<1>1. g \in Guild /\ Cardinality(Present(g.voices)) <= MAX_VOICE_MEMBERS
  BY DEF Known
<1>2. CASE event.kind = "unavailable"
  BY <1>1, <1>2 DEF Updated, Known, Guild
<1>3. CASE event.kind = "owner"
  BY <1>1, <1>3 DEF Updated, Known, Guild, Event
<1>4. CASE event.kind = "channel"
  BY <1>1, <1>4 DEF Updated, Known, Guild, Event
<1>5. CASE event.kind = "channelGone"
  BY <1>1, <1>5 DEF Updated, Known, Guild, Event
<1>6. CASE event.kind = "role"
  BY <1>1, <1>6 DEF Updated, Known, Guild, Event
<1>7. CASE event.kind = "roleGone"
  BY <1>1, <1>7 DEF Updated, Known, Guild, Event
<1>8. CASE event.kind = "member"
  BY <1>8, WithMemberKnown DEF Updated, Event
<1>9. CASE event.kind = "voice"
  BY <1>9, VoicedKnown DEF Updated, Event
<1>10. event.kind \in {"unavailable", "owner", "channel", "channelGone", "role",
                       "roleGone", "member", "voice"}
  BY DEF Event
<1>. QED  BY <1>2, <1>3, <1>4, <1>5, <1>6, <1>7, <1>8, <1>9, <1>10

LEMMA AfterEventKnown ==
    ASSUME NEW g, g = None \/ Known(g), NEW event \in Event, NEW h \in AfterEvent(g, event)
    PROVE  h = None \/ Known(h)
<1>1. CASE event.kind = "create"
  <2>1. event.server \in Server /\ event.complete \in BOOLEAN
    BY <1>1 DEF Event
  <2>. QED  BY <1>1, <2>1, CreatedKnown DEF AfterEvent
<1>2. CASE event.kind # "create" /\ (event.kind = "gone" \/ g = None)
  BY <1>2 DEF AfterEvent
<1>3. CASE event.kind # "create" /\ ~(event.kind = "gone" \/ g = None)
  BY <1>3, UpdatedKnown DEF AfterEvent
<1>. QED  BY <1>1, <1>2, <1>3

-----------------------------------------------------------------------------
(* The type of what Discord has, tells and told.                           *)

WorldTyped ==
    /\ server \in Server
    /\ reach \in {"up", "down", "gone"}
    /\ news \in Seq(Event) /\ Len(news) <= MaxNews
    /\ cache = None \/ Known(cache)
    /\ spent \in 0..MaxEvents
    /\ overtaken \in BOOLEAN

\* A step that takes no part in it.
LEMMA WorldTypedKept ==
    ASSUME WorldTyped, UNCHANGED <<discord, cache, overtaken>>, spent' \in 0..MaxEvents
    PROVE  WorldTyped'
BY DEF WorldTyped, discord

LEMMA AppendTyped ==
    ASSUME NEW event \in Event, news \in Seq(Event), Len(news) < MaxNews
    PROVE  Append(news, event) \in Seq(Event) /\ Len(Append(news, event)) <= MaxNews
<1>1. /\ Append(news, event) \in Seq(Event)
      /\ Len(Append(news, event)) = Len(news) + 1
  BY AppendProperties
<1>2. Len(news) \in Nat /\ MaxNews \in Nat
  BY AdmissionAssumption
<1>. QED  BY <1>1, <1>2

LEMMA SpentTyped ==
    ASSUME spent \in 0..MaxEvents, spent < MaxEvents
    PROVE  spent + 1 \in 0..MaxEvents
BY AdmissionAssumption

LEMMA ChangeTyped ==
    ASSUME WorldTyped, NEW after \in Server, NEW event \in Event, Change(after, event)
    PROVE  WorldTyped'
<1>1. Append(news, event) \in Seq(Event) /\ Len(Append(news, event)) <= MaxNews
  BY AppendTyped DEF WorldTyped, Change
<1>2. spent' \in 0..MaxEvents
  BY SpentTyped DEF WorldTyped, Change
<1>3. news' \in Seq(Event) /\ Len(news') <= MaxNews
  BY <1>1 DEF WorldTyped, Change
<1>. QED  BY <1>2, <1>3 DEF WorldTyped, Change

LEMMA CreateTyped ==
    ASSUME server \in Server, NEW complete \in BOOLEAN
    PROVE  Create(complete) \in Event
BY DEF Create, Event

\* What a user's place in voice becomes.
Place(u, place) ==
    IF place = None THEN None ELSE [channel |-> place, bot |-> u \in Bots]

LEMMA PlaceTyped ==
    ASSUME NEW u \in Users, NEW place \in Channels \union {None}
    PROVE  /\ Place(u, place) \in {None} \union Voice
           /\ Place(u, place) = None <=> place = None
<1>1. place # None => [channel |-> place, bot |-> u \in Bots] \in Voice
  BY DEF Voice
<1>. QED  BY <1>1, VoiceIsSome DEF Place

\* What the gateway says of it.
Moved(u, place) ==
    [kind |-> "voice", user |-> u, channel |-> place,
     member |-> [bot |-> u \in Bots, roles |-> IF u = Bot THEN server.bot_roles ELSE {}]]

LEMMA MovedTyped ==
    ASSUME server \in Server, NEW u \in Users, NEW place \in Channels \union {None}
    PROVE  Moved(u, place) \in Event
<1>1. [bot |-> u \in Bots, roles |-> IF u = Bot THEN server.bot_roles ELSE {}] \in Member
  BY DEF Member, Server
<1>. QED  BY <1>1 DEF Moved, Event

LEMMA UserMovesChange ==
    ASSUME NEW u \in Users, NEW place \in Channels \union {None}, UserMoves(u, place)
    PROVE  Change([server EXCEPT !.voices[u] = Place(u, place)], Moved(u, place))
BY DEF UserMoves, Place, Moved

LEMMA DiscordTyped ==
    ASSUME WorldTyped, Discord
    PROVE  WorldTyped'
<1>0. server \in Server /\ AdmissionAssumption
  BY AdmissionAssumption DEF WorldTyped
<1>1. ASSUME NEW u \in Users, NEW place \in Channels \union {None}, UserMoves(u, place)
      PROVE  WorldTyped'
  <2>1. [server EXCEPT !.voices[u] = Place(u, place)] \in Server
    BY <1>0, PlaceTyped DEF Server
  <2>2. Moved(u, place) \in Event
    BY <1>0, MovedTyped
  <2>. QED  BY <1>1, <2>1, <2>2, UserMovesChange, ChangeTyped
<1>2. ASSUME NEW u \in {Bot} \union (Users \ Bots), OwnerSet(u)
      PROVE  WorldTyped'
  <2>1. u \in Users
    BY AccessAssumption
  <2>2. [server EXCEPT !.owner = u] \in Server /\ [kind |-> "owner", owner |-> u] \in Event
    BY <1>0, <2>1 DEF Server, Event
  <2>. QED  BY <1>2, <2>2, ChangeTyped DEF OwnerSet
<1>3. ASSUME NEW held \in SUBSET (Roles \ {Everyone}), RolesGiven(held)
      PROVE  WorldTyped'
  <2>1. [server EXCEPT !.bot_roles = held] \in Server
        /\ [kind |-> "member", roles |-> held] \in Event
    BY <1>0 DEF Server, Event
  <2>. QED  BY <1>3, <2>1, ChangeTyped DEF RolesGiven
<1>4. ASSUME NEW c \in Channels, ChannelGone(c)
      PROVE  WorldTyped'
  <2>1. [server EXCEPT !.channels[c] = None] \in Server
        /\ [kind |-> "channelGone", channel |-> c] \in Event
    BY <1>0 DEF Server, Event
  <2>. QED  BY <1>4, <2>1, ChangeTyped DEF ChannelGone
<1>5. ASSUME NEW c \in Channels, NEW access \in Accesses, ChannelSet(c, access)
      PROVE  WorldTyped'
  <2>1. access \in ChannelAccess
    BY AdmissionAssumption
  <2>2. [server EXCEPT !.channels[c] = access] \in Server
        /\ [kind |-> "channel", channel |-> c, access |-> access] \in Event
    BY <1>0, <2>1 DEF Server, Event
  <2>. QED  BY <1>5, <2>2, ChangeTyped DEF ChannelSet
<1>6. ASSUME NEW r \in Roles, RoleGone(r)
      PROVE  WorldTyped'
  <2>1. [server EXCEPT !.roles[r] = None] \in Server
        /\ [kind |-> "roleGone", role |-> r] \in Event
    BY <1>0 DEF Server, Event
  <2>. QED  BY <1>6, <2>1, ChangeTyped DEF RoleGone
<1>7. ASSUME NEW r \in Roles, NEW power \in Powers, RoleSet(r, power)
      PROVE  WorldTyped'
  <2>1. power \in SUBSET Permissions
    BY AdmissionAssumption
  <2>2. [server EXCEPT !.roles[r] = power] \in Server
        /\ [kind |-> "role", role |-> r, permissions |-> power] \in Event
    BY <1>0, <2>1 DEF Server, Event
  <2>. QED  BY <1>7, <2>2, ChangeTyped DEF RoleSet
<1>8. ASSUME NEW how \in {"down", "gone"}, NEW said \in {"unavailable", "gone"}, Lost(how, said)
      PROVE  WorldTyped'
  <2>1. [kind |-> said] \in Event
    BY DEF Event
  <2>2. news' \in Seq(Event) /\ Len(news') <= MaxNews
    BY <1>8, <2>1, AppendTyped DEF Lost, WorldTyped
  <2>3. spent' \in 0..MaxEvents
    BY <1>8, SpentTyped DEF Lost, WorldTyped
  <2>. QED  BY <1>8, <2>2, <2>3 DEF Lost, WorldTyped
<1>9. ASSUME NEW complete \in BOOLEAN, Back(complete)
      PROVE  WorldTyped'
  <2>1. news' \in Seq(Event) /\ Len(news') <= MaxNews
    BY <1>0, <1>9, CreateTyped, AppendTyped DEF Back, WorldTyped
  <2>. QED  BY <1>9, <2>1 DEF Back, WorldTyped
<1>10. ASSUME NEW complete \in BOOLEAN, NewSession(complete)
      PROVE  WorldTyped'
  <2>1. spent' \in 0..MaxEvents
    BY <1>10, SpentTyped DEF NewSession, WorldTyped
  <2>2. Create(complete) \in Event
    BY <1>0, CreateTyped
  <2>3. news' \in Seq(Event) /\ Len(news') <= MaxNews
    BY <1>10, <2>2, AdmissionAssumption DEF NewSession
  <2>. QED  BY <1>10, <2>1, <2>3 DEF NewSession, WorldTyped
<1>. QED  BY <1>1, <1>2, <1>3, <1>4, <1>5, <1>6, <1>7, <1>8, <1>9, <1>10 DEF Discord

LEMMA DeliverTyped ==
    ASSUME WorldTyped, Deliver
    PROVE  WorldTyped'
<1>1. news \in Seq(Event) /\ news # <<>> /\ Len(news) <= MaxNews
  BY DEF WorldTyped, Deliver
<1>2. Head(news) \in Event /\ Tail(news) \in Seq(Event) /\ Len(Tail(news)) = Len(news) - 1
  BY <1>1, HeadTailProperties
<1>3. cache' = None \/ Known(cache')
  BY <1>2, AfterEventKnown DEF WorldTyped, Deliver
<1>4. Len(news') <= MaxNews
  BY <1>1, <1>2, AdmissionAssumption DEF Deliver
<1>. QED  BY <1>2, <1>3, <1>4 DEF WorldTyped, Deliver, TellsRoles

LEMMA PublishTyped ==
    ASSUME WorldTyped, NEW activity \in Activity, Publish(activity)
    PROVE  WorldTyped'
<1>1. spent' \in 0..MaxEvents
  BY SpentTyped DEF Publish, WorldTyped
<1>2. Known(cache')
  BY DEF WorldTyped, Publish, Known, Guild
<1>. QED  BY <1>1, <1>2 DEF WorldTyped, Publish

-----------------------------------------------------------------------------
(* Requests, permits and results.                                          *)

Waits == {"fetching", "first", "second"}

RequestsTyped == requests \in [Requests -> Request]

\* A permit is free or held by one request.
PermitsCount ==
    /\ permits \in Nat
    /\ permits + Cardinality(Holders) = SEARCHES

ResultsTyped ==
    /\ DOMAIN results \subseteq Keys
    /\ IsFiniteSet(DOMAIN results) /\ Cardinality(DOMAIN results) <= RESULTS
    /\ \A k \in DOMAIN results : results[k] \in Offer

LEMMA HoldersFinite ==
    /\ IsFiniteSet(Holders) /\ Cardinality(Holders) \in Nat
    /\ IsFiniteSet(Holders') /\ Cardinality(Holders') \in Nat
<1>1. Holders \subseteq Suggests /\ Holders' \subseteq Suggests
  BY DEF Holders
<1>2. IsFiniteSet(Suggests)
  BY AdmissionAssumption
<1>3. IsFiniteSet(Holders) /\ IsFiniteSet(Holders')
  BY <1>1, <1>2, FS_Subset
<1>. QED  BY <1>3, FS_CardinalityType

\* What one request holds, as a number.
Held(r, request) == IF r \in Suggests /\ request.stage \in Waits THEN 1 ELSE 0

(***************************************************************************)
(* A request goes to another stage, and takes or returns what it comes to  *)
(* hold or held.                                                           *)
(***************************************************************************)
LEMMA BecomesCounted ==
    ASSUME RequestsTyped, PermitsCount,
           NEW r \in Requests, NEW q \in Request, Becomes(r, q),
           permits' = permits + Held(r, requests[r]) - Held(r, q), permits' >= 0
    PROVE  RequestsTyped' /\ PermitsCount'
<1>1. requests' \in [Requests -> Request] /\ requests'[r] = q
      /\ \A s \in Requests : s # r => requests'[s] = requests[s]
  BY DEF Becomes, RequestsTyped
<1>2. Suggests \subseteq Requests
  BY DEF Requests
<1>3. Holders = {s \in Suggests : requests[s].stage \in Waits}
      /\ Holders' = {s \in Suggests : requests'[s].stage \in Waits}
  BY DEF Holders, Waits
<1>4. CASE Held(r, q) = 1
  <2>1. r \in Suggests /\ q.stage \in Waits
    BY <1>4 DEF Held
  <2>2. Holders' = Holders \union {r}
    BY <1>1, <1>2, <1>3, <2>1
  <2>3. Cardinality(Holders') = IF r \in Holders THEN Cardinality(Holders)
                                ELSE Cardinality(Holders) + 1
    BY <2>2, HoldersFinite, FS_AddElement
  <2>4. r \in Holders <=> Held(r, requests[r]) = 1
    BY <1>3, <2>1 DEF Held
  <2>5. Held(r, requests[r]) \in {0, 1}
    BY DEF Held
  <2>. QED  BY <1>1, <1>4, <2>3, <2>4, <2>5, HoldersFinite DEF RequestsTyped, PermitsCount
<1>5. CASE Held(r, q) = 0
  <2>1. ~(r \in Suggests /\ q.stage \in Waits)
    BY <1>5 DEF Held
  <2>2. Holders' = Holders \ {r}
    BY <1>1, <1>2, <1>3, <2>1
  <2>3. Cardinality(Holders') = IF r \in Holders THEN Cardinality(Holders) - 1
                                ELSE Cardinality(Holders)
    BY <2>2, HoldersFinite, FS_RemoveElement
  <2>4. r \in Holders <=> Held(r, requests[r]) = 1
    BY <1>3 DEF Held
  <2>5. Held(r, requests[r]) \in {0, 1}
    BY DEF Held
  <2>. QED  BY <1>1, <1>5, <2>3, <2>4, <2>5, HoldersFinite DEF RequestsTyped, PermitsCount
<1>. QED  BY <1>4, <1>5 DEF Held

\* What holds a permit returns it.
LEMMA ReturnCounted ==
    ASSUME RequestsTyped, PermitsCount,
           NEW r \in Requests, requests[r].stage \in Waits, Return(r),
           NEW q \in Request, q.stage \notin Waits, Becomes(r, q)
    PROVE  RequestsTyped' /\ PermitsCount'
<1>1. /\ permits' = permits + Held(r, requests[r]) - Held(r, q)
      /\ permits' >= 0
  BY DEF Return, Held, PermitsCount
<1>. QED  BY <1>1, BecomesCounted

LEMMA TakeCounted ==
    ASSUME RequestsTyped, PermitsCount,
           NEW r \in Suggests, requests[r].stage \notin Waits, Take,
           NEW q \in Request, q.stage \in Waits, Becomes(r, q)
    PROVE  RequestsTyped' /\ PermitsCount'
<1>1. /\ permits' = permits + Held(r, requests[r]) - Held(r, q)
      /\ permits' >= 0 /\ r \in Requests
  BY DEF Take, Held, PermitsCount, Requests
<1>. QED  BY <1>1, BecomesCounted

\* Permits stay where they are.
LEMMA SameCounted ==
    ASSUME RequestsTyped, PermitsCount, UNCHANGED permits,
           NEW r \in Requests, NEW q \in Request, Becomes(r, q),
           r \in Suggests => (requests[r].stage \in Waits <=> q.stage \in Waits)
    PROVE  RequestsTyped' /\ PermitsCount'
<1>1. /\ permits' = permits + Held(r, requests[r]) - Held(r, q)
      /\ permits' >= 0
  BY DEF Held, PermitsCount
<1>. QED  BY <1>1, BecomesCounted

-----------------------------------------------------------------------------
(* The cache of results.                                                   *)

LEMMA FreshTyped ==
    ASSUME ResultsTyped
    PROVE  /\ DOMAIN Fresh(results) \subseteq DOMAIN results
           /\ IsFiniteSet(DOMAIN Fresh(results))
           /\ Cardinality(DOMAIN Fresh(results)) \in Nat
           /\ Cardinality(DOMAIN Fresh(results)) <= RESULTS
           /\ \A k \in DOMAIN Fresh(results) :
                 Fresh(results)[k] = results[k] /\ results[k].age < LIFETIME
<1>1. DOMAIN Fresh(results) = {k \in DOMAIN results : results[k].age < LIFETIME}
  BY DEF Fresh
<1>2. \A k \in DOMAIN Fresh(results) : Fresh(results)[k] = results[k]
  BY DEF Fresh
<1>3. IsFiniteSet(DOMAIN Fresh(results))
      /\ Cardinality(DOMAIN Fresh(results)) <= Cardinality(DOMAIN results)
  BY <1>1, FS_Subset DEF ResultsTyped
<1>4. Cardinality(DOMAIN Fresh(results)) \in Nat /\ Cardinality(DOMAIN results) \in Nat
  BY <1>3, FS_CardinalityType DEF ResultsTyped
<1>. QED  BY <1>1, <1>2, <1>3, <1>4, AdmissionAssumption DEF ResultsTyped

\* What stays leaves room for one more.
LEMMA KeptLeavesRoom ==
    ASSUME ResultsTyped, NEW kept \in Kept(Fresh(results)), NEW key
    PROVE  /\ kept \subseteq DOMAIN results
           /\ IsFiniteSet(kept \union {key})
           /\ Cardinality(kept \union {key}) <= RESULTS
<1>. DEFINE f == Fresh(results)
<1>1. /\ DOMAIN f \subseteq DOMAIN results /\ IsFiniteSet(DOMAIN f)
      /\ Cardinality(DOMAIN f) \in Nat /\ Cardinality(DOMAIN f) <= RESULTS
      /\ RESULTS \in Nat
  BY FreshTyped, AdmissionAssumption
<1>. HIDE DEF f
<1>2. kept \subseteq DOMAIN f /\ Cardinality(kept) < RESULTS
  <2>1. CASE Cardinality(DOMAIN f) < RESULTS
    BY <2>1 DEF Kept, f
  <2>2. CASE ~(Cardinality(DOMAIN f) < RESULTS)
    <3>1. PICK k \in DOMAIN f : kept = DOMAIN f \ {k}
      BY <2>2 DEF Kept, f
    <3>2. Cardinality(kept) = Cardinality(DOMAIN f) - 1
      BY <1>1, <3>1, FS_RemoveElement
    <3>. QED  BY <1>1, <3>1, <3>2
  <2>. QED  BY <2>1, <2>2
<1>3. IsFiniteSet(kept)
  BY <1>1, <1>2, FS_Subset
<1>4. /\ IsFiniteSet(kept \union {key})
      /\ Cardinality(kept \union {key}) <= Cardinality(kept) + 1
  BY <1>3, FS_AddElement, FS_CardinalityType
<1>5. Cardinality(kept) \in Nat /\ Cardinality(kept \union {key}) \in Nat
  BY <1>3, <1>4, FS_CardinalityType
<1>. QED  BY <1>1, <1>2, <1>4, <1>5

LEMMA KeyTyped ==
    ASSUME NEW c \in Channels, NEW text \in DOMAIN Texts
    PROVE  Key(c, text) \in Keys /\ Key(c, text)[1] = c /\ Key(c, text)[2] = Lower[text]
BY AdmissionAssumption DEF Key, Keys

LEMMA StoreTyped ==
    ASSUME ResultsTyped, NEW r, requests[r].channel \in Channels,
           requests[r].text \in DOMAIN Texts, Store(r)
    PROVE  ResultsTyped'
<1>. DEFINE key == Key(requests[r].channel, requests[r].text)
            entry == [channel |-> requests[r].channel, text |-> requests[r].text, age |-> 0]
<1>1. key \in Keys
  BY KeyTyped
<1>2. entry \in Offer
  BY AdmissionAssumption DEF Offer
<1>3. PICK kept \in Kept(Fresh(results)) :
         results' = [k \in kept \union {key} |-> IF k = key THEN entry ELSE results[k]]
  BY DEF Store
<1>. HIDE DEF key, entry
<1>4. /\ kept \subseteq DOMAIN results /\ IsFiniteSet(kept \union {key})
      /\ Cardinality(kept \union {key}) <= RESULTS
  BY KeptLeavesRoom
<1>5. DOMAIN results' = kept \union {key}
  BY <1>3
<1>6. \A k \in DOMAIN results' : results'[k] \in Offer
  BY <1>2, <1>3, <1>4 DEF ResultsTyped
<1>7. DOMAIN results' \subseteq Keys
  BY <1>1, <1>4, <1>5 DEF ResultsTyped
<1>. QED  BY <1>4, <1>5, <1>6, <1>7 DEF ResultsTyped

LEMMA TickTyped ==
    ASSUME ResultsTyped, Tick
    PROVE  ResultsTyped'
<1>1. DOMAIN results' = DOMAIN results
  BY DEF Tick
<1>2. ASSUME NEW k \in DOMAIN results
      PROVE  results'[k] \in Offer
  <2>1. results[k] \in Offer
    BY DEF ResultsTyped
  <2>2. results'[k] = [results[k] EXCEPT !.age = IF @ < LIFETIME THEN @ + 1 ELSE @]
    BY DEF Tick
  <2>. QED  BY <2>1, <2>2, AdmissionAssumption DEF Offer
<1>. QED  BY <1>1, <1>2 DEF ResultsTyped

-----------------------------------------------------------------------------
(* Whose choices are offered to whom.                                      *)

\* A request searches where it was admitted; only one that is done offers
\* choices, found there for its words.
Theirs(request) ==
    /\ request.stage \in {"first", "second"} => request.channel \in Channels
    /\ request.offered # None =>
         /\ request.stage = "done"
         /\ request.offered.channel = request.channel
         /\ Lower[request.offered.text] = Lower[request.text]
         /\ request.offered.age < LIFETIME

RequestsTheirs == \A r \in Requests : Theirs(requests[r])

\* What is kept is under the channel and the words it was found for.
StoredByKey ==
    \A k \in DOMAIN results :
        results[k].channel = k[1] /\ Lower[results[k].text] = k[2]

Served == RequestsTyped /\ PermitsCount /\ ResultsTyped /\ RequestsTheirs /\ StoredByKey

LEMMA BecomesTheirs ==
    ASSUME RequestsTyped, RequestsTheirs, NEW r \in Requests, NEW q, Theirs(q), Becomes(r, q)
    PROVE  RequestsTheirs'
<1>1. \A s \in Requests : requests'[s] = IF s = r THEN q ELSE requests[s]
  BY DEF Becomes, RequestsTyped
<1>. QED  BY <1>1 DEF RequestsTheirs, Theirs

LEMMA SameResults ==
    ASSUME ResultsTyped, StoredByKey, UNCHANGED results
    PROVE  ResultsTyped' /\ StoredByKey'
BY DEF ResultsTyped, StoredByKey

LEMMA StoreByKey ==
    ASSUME ResultsTyped, StoredByKey, NEW r, requests[r].channel \in Channels,
           requests[r].text \in DOMAIN Texts, Store(r)
    PROVE  StoredByKey'
<1>. DEFINE key == Key(requests[r].channel, requests[r].text)
            entry == [channel |-> requests[r].channel, text |-> requests[r].text, age |-> 0]
<1>1. entry.channel = key[1] /\ Lower[entry.text] = key[2]
  BY KeyTyped
<1>2. PICK kept \in Kept(Fresh(results)) :
         results' = [k \in kept \union {key} |-> IF k = key THEN entry ELSE results[k]]
  BY DEF Store
<1>. HIDE DEF key, entry
<1>3. kept \subseteq DOMAIN results
  BY KeptLeavesRoom
<1>. QED  BY <1>1, <1>2, <1>3 DEF StoredByKey

LEMMA TickServed ==
    ASSUME Served, Tick
    PROVE  Served'
<1>1. ResultsTyped'
  BY TickTyped DEF Served
<1>2. StoredByKey'
  <2>1. DOMAIN results' = DOMAIN results
    BY DEF Tick
  <2>2. ASSUME NEW k \in DOMAIN results
        PROVE  results'[k].channel = results[k].channel /\ results'[k].text = results[k].text
    <3>1. results[k] \in Offer
      BY DEF Served, ResultsTyped
    <3>2. results'[k] = [results[k] EXCEPT !.age = IF @ < LIFETIME THEN @ + 1 ELSE @]
      BY DEF Tick
    <3>. QED  BY <3>1, <3>2 DEF Offer
  <2>. QED  BY <2>1, <2>2 DEF Served, StoredByKey
<1>. QED  BY <1>1, <1>2 DEF Served, Tick, RequestsTyped, PermitsCount, RequestsTheirs,
             Holders, Theirs

\* A request that is not done may go anywhere but to search unadmitted.
LEMMA GoesTyped ==
    ASSUME NEW request \in Request, Theirs(request), request.stage # "done",
           NEW stage \in {"fetching", "checking", "second", "done"},
           stage = "second" => request.stage \in {"first", "second"}
    PROVE  /\ [request EXCEPT !.stage = stage] \in Request
           /\ Theirs([request EXCEPT !.stage = stage])
           /\ [request EXCEPT !.stage = stage].stage = stage
BY DEF Request, Theirs

LEMMA OutcomeTyped ==
    ASSUME NEW r, NEW answer \in Answers \union {None}
    PROVE  Outcome(r, answer) \in Resolution
<1>1. CASE answer = None
  <2>1. "unavailable" \in Failures
    BY DEF Failures
  <2>. QED  BY <1>1, <2>1, FailedTyped DEF Outcome
<1>2. CASE answer # None
  <2>1. answer \in Answer
    BY <1>2, AdmissionAssumption
  <2>. QED  BY <1>2, <2>1, NormalizeTyped DEF Outcome
<1>. QED  BY <1>1, <1>2

LEMMA ResolvedServed ==
    ASSUME Served, NEW r \in Requests, requests[r].stage \in {"first", "second"},
           NEW answer \in Answers \union {None}, NEW resolution \in Resolution,
           Resolved(r, answer, resolution)
    PROVE  Served'
<1>1. /\ requests[r] \in Request /\ Theirs(requests[r])
      /\ requests[r].stage \in Waits /\ Return(r)
  BY DEF Served, RequestsTyped, RequestsTheirs, Waits, Resolved
<1>2. /\ requests[r].channel \in Channels /\ requests[r].text \in DOMAIN Texts
      /\ requests[r].offered = None
  BY <1>1 DEF Theirs, Request
<1>3. ASSUME NEW q \in Request, q.stage = "done", Theirs(q), Becomes(r, q)
      PROVE  RequestsTyped' /\ PermitsCount' /\ RequestsTheirs'
  <2>1. q.stage \notin Waits
    BY <1>3 DEF Waits
  <2>. QED  BY <1>1, <1>3, <2>1, ReturnCounted, BecomesTheirs DEF Served
<1>4. CASE r \in Suggests /\ resolution.failure = "none"
  <2>. DEFINE offer == [channel |-> requests[r].channel, text |-> requests[r].text, age |-> 0]
              q == [requests[r] EXCEPT !.stage = "done", !.offered = offer]
  <2>1. Store(r) /\ Becomes(r, q)
    BY <1>4, AdmissionAssumption DEF Resolved
  <2>2. offer \in Offer /\ offer.age < LIFETIME
    BY <1>2, AdmissionAssumption DEF Offer
  <2>3. q \in Request /\ q.stage = "done" /\ Theirs(q)
    BY <1>1, <1>2, <2>2 DEF Request, Theirs
  <2>4. ResultsTyped' /\ StoredByKey'
    BY <1>2, <2>1, StoreTyped, StoreByKey DEF Served
  <2>. QED  BY <1>3, <2>1, <2>3, <2>4 DEF Served
<1>5. CASE r \in Suggests /\ resolution.failure # "none"
  <2>. DEFINE q == [requests[r] EXCEPT !.stage = "done"]
  <2>1. Becomes(r, q) /\ UNCHANGED results
    BY <1>5, AdmissionAssumption DEF Resolved, Goes
  <2>2. q \in Request /\ q.stage = "done" /\ Theirs(q)
    BY <1>1, <1>2, GoesTyped
  <2>. QED  BY <1>3, <2>1, <2>2, SameResults DEF Served
<1>6. CASE r \in Plays
  <2>. DEFINE q == [requests[r] EXCEPT !.stage = "done", !.answer = answer,
                                       !.resolution = resolution]
  <2>1. Becomes(r, q) /\ UNCHANGED results
    BY <1>6, AdmissionAssumption DEF Resolved
  <2>2. q \in Request /\ q.stage = "done" /\ Theirs(q)
    BY <1>1, <1>2 DEF Request, Theirs
  <2>. QED  BY <1>3, <2>1, <2>2, SameResults DEF Served
<1>. QED  BY <1>4, <1>5, <1>6 DEF Requests

LEMMA ArrivesServed ==
    ASSUME Served, NEW r \in Requests, NEW user \in Users \ Bots, NEW text \in DOMAIN Texts,
           Arrives(r, user, text)
    PROVE  Served'
<1>. DEFINE q(stage) == [requests[r] EXCEPT !.stage = stage, !.user = user, !.text = text]
<1>1. /\ requests[r] \in Request /\ Theirs(requests[r])
      /\ requests[r].stage = "new" /\ UNCHANGED results
  BY DEF Served, RequestsTyped, RequestsTheirs, Arrives
<1>2. ASSUME NEW stage \in {"fetching", "checking", "done"}
      PROVE  q(stage) \in Request /\ q(stage).stage = stage /\ Theirs(q(stage))
  BY <1>1 DEF Request, Theirs
<1>3. CASE r \in Suggests /\ Take /\ Becomes(r, q("fetching"))
  <2>1. q("fetching").stage \in Waits /\ requests[r].stage \notin Waits
    BY <1>1, <1>2 DEF Waits
  <2>2. q("fetching") \in Request /\ Theirs(q("fetching"))
    BY <1>2
  <2>. HIDE DEF q
  <2>3. RequestsTyped' /\ PermitsCount'
    BY <1>3, <2>1, <2>2, TakeCounted DEF Served
  <2>. QED  BY <1>1, <1>3, <2>2, <2>3, SameResults, BecomesTheirs DEF Served
<1>4. ASSUME NEW stage \in {"fetching", "checking", "done"}, UNCHANGED permits,
             Becomes(r, q(stage)), stage = "fetching" => r \in Plays
      PROVE  Served'
  <2>1. q(stage) \in Request /\ q(stage).stage = stage /\ Theirs(q(stage))
    BY <1>2
  <2>. HIDE DEF q
  <2>2. r \in Suggests => (requests[r].stage \in Waits <=> q(stage).stage \in Waits)
    BY <1>1, <1>4, <2>1, AdmissionAssumption DEF Waits
  <2>3. RequestsTyped' /\ PermitsCount'
    BY <1>4, <2>1, <2>2, SameCounted DEF Served
  <2>. QED  BY <1>1, <1>4, <2>1, <2>3, SameResults, BecomesTheirs DEF Served
<1>5. \/ r \in Suggests /\ Take /\ Becomes(r, q("fetching"))
      \/ \E stage \in {"fetching", "checking", "done"} :
            /\ UNCHANGED permits /\ Becomes(r, q(stage))
            /\ stage = "fetching" => r \in Plays
  BY DEF Arrives, Requests
<1>. QED  BY <1>3, <1>4, <1>5

LEMMA SearchesServed ==
    ASSUME Served, NEW r \in Requests, Searches(r)
    PROVE  Served'
<1>1. /\ requests[r] \in Request /\ Theirs(requests[r])
      /\ requests[r].stage = "checking" /\ UNCHANGED results
  BY DEF Served, RequestsTyped, RequestsTheirs, Searches
<1>2. requests[r].offered = None
  BY <1>1 DEF Theirs
<1>3. PICK c \in Channels :
         IF r \in Plays
         THEN /\ \E capacity \in 0..QUEUE_LIMIT :
                    Becomes(r, [requests[r] EXCEPT !.stage = "first", !.channel = c,
                                                   !.capacity = capacity])
              /\ UNCHANGED permits
         ELSE \/ /\ Take
                 /\ Becomes(r, [requests[r] EXCEPT !.stage = "first", !.channel = c])
              \/ permits = 0 /\ Goes(r, "done") /\ UNCHANGED permits
  BY DEF Searches, Allowed
<1>4. CASE r \in Plays
  <2>1. PICK capacity \in 0..QUEUE_LIMIT :
           Becomes(r, [requests[r] EXCEPT !.stage = "first", !.channel = c,
                                          !.capacity = capacity])
    BY <1>3, <1>4
  <2>. DEFINE q == [requests[r] EXCEPT !.stage = "first", !.channel = c, !.capacity = capacity]
  <2>a. capacity \in Nat /\ r \notin Suggests
    BY <1>4, ResolverAssumption, AdmissionAssumption
  <2>b. q \in Request /\ q.stage = "first" /\ q.channel = c /\ q.offered = None
    BY <1>1, <1>2, <2>a DEF Request
  <2>2. q \in Request /\ Theirs(q) /\ r \notin Suggests
    BY <2>a, <2>b DEF Theirs
  <2>. HIDE DEF q
  <2>3. Becomes(r, q) /\ UNCHANGED permits
    BY <1>3, <1>4, <2>1 DEF q
  <2>4. RequestsTyped' /\ PermitsCount'
    BY <2>2, <2>3, SameCounted DEF Served
  <2>. QED  BY <1>1, <2>2, <2>3, <2>4, SameResults, BecomesTheirs DEF Served
<1>5. CASE /\ r \notin Plays
           /\ Take
           /\ Becomes(r, [requests[r] EXCEPT !.stage = "first", !.channel = c])
  <2>. DEFINE q == [requests[r] EXCEPT !.stage = "first", !.channel = c]
  <2>1. q \in Request /\ Theirs(q) /\ r \in Suggests
    BY <1>1, <1>2, <1>5 DEF Request, Theirs, Requests
  <2>2. q.stage \in Waits /\ requests[r].stage \notin Waits
    BY <1>1 DEF Waits, Request
  <2>3. Becomes(r, q)
    BY <1>5
  <2>. HIDE DEF q
  <2>4. RequestsTyped' /\ PermitsCount'
    BY <1>5, <2>1, <2>2, <2>3, TakeCounted DEF Served
  <2>. QED  BY <1>1, <2>1, <2>3, <2>4, SameResults, BecomesTheirs DEF Served
<1>6. CASE Goes(r, "done") /\ UNCHANGED permits
  <2>. DEFINE q == [requests[r] EXCEPT !.stage = "done"]
  <2>1. q \in Request /\ Theirs(q) /\ q.stage = "done"
    BY <1>1, GoesTyped
  <2>2. requests[r].stage \in Waits <=> q.stage \in Waits
    BY <1>1, <2>1 DEF Waits
  <2>3. Becomes(r, q)
    BY <1>6 DEF Goes
  <2>. HIDE DEF q
  <2>4. RequestsTyped' /\ PermitsCount'
    BY <1>6, <2>1, <2>2, <2>3, SameCounted DEF Served
  <2>. QED  BY <1>1, <2>1, <2>3, <2>4, SameResults, BecomesTheirs DEF Served
<1>. QED  BY <1>3, <1>4, <1>5, <1>6

\* A request goes on without having searched.
LEMMA GoesServed ==
    ASSUME Served, NEW r \in Requests, UNCHANGED results,
           NEW stage \in {"checking", "done"}, Goes(r, stage),
           \/ requests[r].stage \in Waits /\ Return(r)
           \/ requests[r].stage = "checking" /\ UNCHANGED permits
    PROVE  Served'
<1>. DEFINE q == [requests[r] EXCEPT !.stage = stage]
<1>1. /\ requests[r] \in Request /\ Theirs(requests[r]) /\ requests[r].stage # "done"
      /\ Becomes(r, q)
  BY DEF Served, RequestsTyped, RequestsTheirs, Waits, Goes
<1>2. q \in Request /\ Theirs(q) /\ q.stage = stage
  BY <1>1, GoesTyped
<1>3. q.stage \notin Waits /\ "checking" \notin Waits
  BY <1>2 DEF Waits
<1>. HIDE DEF q
<1>4. RequestsTyped' /\ PermitsCount'
  BY <1>1, <1>2, <1>3, ReturnCounted, SameCounted DEF Served
<1>. QED  BY <1>1, <1>2, <1>4, SameResults, BecomesTheirs DEF Served

LEMMA MemberServedServed ==
    ASSUME Served, server \in Server, NEW r \in Requests, MemberServed(r)
    PROVE  Served'
<1>. DEFINE q == [requests[r] EXCEPT !.member = server.bot_roles]
<1>1. /\ requests[r] \in Request /\ Theirs(requests[r])
      /\ Becomes(r, q) /\ UNCHANGED <<permits, results>>
      /\ server.bot_roles \in SUBSET Roles
  BY DEF Served, RequestsTyped, RequestsTheirs, MemberServed, Server
<1>2. q \in Request /\ Theirs(q) /\ q.stage = requests[r].stage
  BY <1>1 DEF Request, Theirs
<1>. HIDE DEF q
<1>3. RequestsTyped' /\ PermitsCount'
  BY <1>1, <1>2, SameCounted DEF Served
<1>. QED  BY <1>1, <1>2, <1>3, SameResults, BecomesTheirs DEF Served

LEMMA FromCacheServed ==
    ASSUME Served, NEW r \in Requests, FromCache(r)
    PROVE  Served'
<1>1. /\ requests[r] \in Request /\ Theirs(requests[r])
      /\ requests[r].stage = "checking" /\ UNCHANGED <<permits, results>>
  BY DEF Served, RequestsTyped, RequestsTheirs, FromCache
<1>2. PICK c \in Channels :
         /\ Key(c, requests[r].text) \in DOMAIN Fresh(results)
         /\ Becomes(r, [requests[r] EXCEPT !.stage = "done", !.channel = c,
                             !.offered = results[Key(c, requests[r].text)]])
  BY DEF FromCache, Allowed
<1>. DEFINE key == Key(c, requests[r].text)
            q == [requests[r] EXCEPT !.stage = "done", !.channel = c, !.offered = results[key]]
<1>3. requests[r].text \in DOMAIN Texts
  BY <1>1 DEF Request
<1>4. key[1] = c /\ key[2] = Lower[requests[r].text]
  BY <1>3, KeyTyped
<1>5. Becomes(r, q) /\ key \in DOMAIN results /\ results[key].age < LIFETIME
  BY <1>2, FreshTyped DEF Served
<1>. HIDE DEF key
<1>6. /\ results[key] \in Offer /\ results[key].channel = c
      /\ Lower[results[key].text] = Lower[requests[r].text]
  BY <1>4, <1>5 DEF Served, ResultsTyped, StoredByKey
<1>7. q \in Request /\ q.stage = "done" /\ Theirs(q)
  <2>1. /\ q \in Request /\ q.stage = "done" /\ q.channel = c /\ q.offered = results[key]
        /\ q.text = requests[r].text
    BY <1>1, <1>6 DEF Request
  <2>. HIDE DEF q
  <2>. QED  BY <1>5, <1>6, <2>1 DEF Theirs
<1>. HIDE DEF q
<1>8. RequestsTyped' /\ PermitsCount'
  BY <1>1, <1>5, <1>7, SameCounted DEF Served, Waits
<1>. QED  BY <1>1, <1>5, <1>7, <1>8, SameResults, BecomesTheirs DEF Served

LEMMA AnsweredServed ==
    ASSUME Served, NEW r \in Requests, NEW answer \in Answers \union {None},
           Answered(r, answer)
    PROVE  Served'
<1>1. CASE Resolved(r, answer, Outcome(r, answer))
  BY <1>1, OutcomeTyped, ResolvedServed DEF Answered
<1>2. CASE Goes(r, "second") /\ UNCHANGED <<permits, results>> /\ requests[r].stage = "first"
  <2>. DEFINE q == [requests[r] EXCEPT !.stage = "second"]
  <2>1. requests[r] \in Request /\ Theirs(requests[r]) /\ Becomes(r, q)
    BY <1>2 DEF Served, RequestsTyped, RequestsTheirs, Goes
  <2>2. q \in Request /\ Theirs(q) /\ q.stage = "second"
    BY <1>2, <2>1, GoesTyped
  <2>. HIDE DEF q
  <2>3. RequestsTyped' /\ PermitsCount'
    BY <1>2, <2>1, <2>2, SameCounted DEF Served, Waits
  <2>. QED  BY <1>2, <2>1, <2>2, <2>3, SameResults, BecomesTheirs DEF Served
<1>. QED  BY <1>1, <1>2 DEF Answered

LEMMA ProceedsServed ==
    ASSUME Served, server \in Server, NEW r \in Requests, Proceeds(r)
    PROVE  Served'
<1>1. ASSUME MemberArrives(r)
      PROVE  Served'
  BY <1>1, GoesServed DEF MemberArrives, Waits
<1>2. ASSUME FetchFails(r)
      PROVE  Served'
  BY <1>2, GoesServed DEF FetchFails, Waits
<1>3. ASSUME Denied(r)
      PROVE  Served'
  BY <1>3, GoesServed DEF Denied
<1>4. ASSUME OutOfTime(r)
      PROVE  Served'
  BY <1>4, GoesServed DEF OutOfTime, Waits
<1>5. ASSUME Unresolvable(r)
      PROVE  Served'
  <2>1. Failed("unsupported") \in Resolution
    BY FailedTyped DEF Failures
  <2>. QED  BY <1>5, <2>1, ResolvedServed DEF Unresolvable
<1>. QED  BY <1>1, <1>2, <1>3, <1>4, <1>5, ArrivesServed, MemberServedServed,
             FromCacheServed, SearchesServed, AnsweredServed DEF Proceeds

-----------------------------------------------------------------------------
(* The invariant of types, permits and offers.                             *)

Inv == WorldTyped /\ Served

LEMMA InitInv ==
    ASSUME Init
    PROVE  Inv
<1>1. WorldTyped
  <2>1. server \in Server
    BY AdmissionAssumption DEF Init
  <2>2. PICK complete \in BOOLEAN : news = <<Create(complete)>>
    BY DEF Init
  <2>3. Create(complete) \in Event
    BY <2>1, CreateTyped
  <2>4. news \in Seq(Event) /\ Len(news) <= MaxNews
    BY <2>2, <2>3, AdmissionAssumption
  <2>5. spent \in 0..MaxEvents
    BY AdmissionAssumption DEF Init
  <2>. QED  BY <2>1, <2>4, <2>5 DEF Init, WorldTyped
<1>2. NewRequest \in Request /\ NewRequest.stage = "new" /\ NewRequest.offered = None
  <2>1. Failed("none") \in Resolution
    BY FailedTyped DEF Failures
  <2>2. (CHOOSE t \in DOMAIN Texts : TRUE) \in DOMAIN Texts
    BY AdmissionAssumption
  <2>. QED  BY <2>1, <2>2 DEF NewRequest, Request
<1>3. \A r \in Requests : requests[r] = NewRequest
  BY DEF Init
<1>4. RequestsTyped
  BY <1>2 DEF Init, RequestsTyped
<1>5. RequestsTheirs
  BY <1>2, <1>3 DEF RequestsTheirs, Theirs
<1>6. PermitsCount
  <2>1. Holders = {}
    BY <1>2, <1>3 DEF Holders, Requests
  <2>. QED  BY <2>1, FS_EmptySet, AdmissionAssumption DEF Init, PermitsCount
<1>7. ResultsTyped /\ StoredByKey
  <2>1. DOMAIN results = {}
    BY DEF Init
  <2>. QED  BY <2>1, FS_EmptySet, AdmissionAssumption DEF ResultsTyped, StoredByKey
<1>. QED  BY <1>1, <1>4, <1>5, <1>6, <1>7 DEF Inv, Served

LEMMA SameServed ==
    ASSUME Served, UNCHANGED <<requests, permits, results>>
    PROVE  Served'
BY DEF Served, RequestsTyped, PermitsCount, ResultsTyped, RequestsTheirs, StoredByKey,
       Theirs, Holders

LEMMA DiscordChanges ==
    ASSUME Discord
    PROVE  UNCHANGED <<cache, requests, permits, results, overtaken>>
BY DEF Discord, UserMoves, OwnerSet, RolesGiven, ChannelGone, ChannelSet, RoleGone, RoleSet,
       Lost, Back, NewSession, Change

\* A request changes nothing at Discord, and of the cache only the bot's
\* membership, when it arrives.
LEMMA ProceedsTyped ==
    ASSUME Inv, NEW r \in Requests, Proceeds(r)
    PROVE  WorldTyped'
<1>0. WorldTyped /\ requests[r] \in Request
  BY DEF Inv, Served, RequestsTyped
<1>1. CASE \E user \in Users \ Bots, text \in DOMAIN Texts : Arrives(r, user, text)
  <2>1. spent < MaxEvents /\ spent' = spent + 1 /\ UNCHANGED <<discord, cache, overtaken>>
    BY <1>1 DEF Arrives
  <2>2. spent' \in 0..MaxEvents
    BY <1>0, <2>1, SpentTyped DEF WorldTyped
  <2>. QED  BY <1>0, <2>1, <2>2, WorldTypedKept
<1>2. CASE MemberArrives(r)
  <2>1. requests[r].member \in SUBSET Roles
    BY <1>0, <1>2 DEF MemberArrives, Request
  <2>2. cache' = None \/ Known(cache')
    BY <1>0, <1>2, <2>1, WithMemberKnown DEF MemberArrives, WorldTyped
  <2>. QED  BY <1>0, <1>2, <2>2 DEF MemberArrives, WorldTyped, discord
<1>3. CASE \/ MemberServed(r) \/ FetchFails(r) \/ Denied(r) \/ FromCache(r)
           \/ Searches(r) \/ Unresolvable(r) \/ OutOfTime(r)
           \/ \E answer \in Answers \union {None} : Answered(r, answer)
  <2>1. UNCHANGED <<discord, cache, overtaken, spent>>
    BY <1>3 DEF MemberServed, FetchFails, Denied, FromCache, Searches, Unresolvable,
                OutOfTime, Answered
  <2>. QED  BY <1>0, <2>1, WorldTypedKept DEF WorldTyped
<1>. QED  BY <1>1, <1>2, <1>3 DEF Proceeds

LEMMA NextInv ==
    ASSUME Inv, [Next]_vars
    PROVE  Inv'
<1>0. WorldTyped /\ Served /\ server \in Server
  BY DEF Inv, WorldTyped
<1>1. CASE Discord
  BY <1>0, <1>1, DiscordTyped, DiscordChanges, SameServed DEF Inv
<1>2. CASE Deliver
  BY <1>0, <1>2, DeliverTyped, SameServed DEF Inv, Deliver
<1>3. CASE Tick
  <2>1. WorldTyped'
    BY <1>0, <1>3, WorldTypedKept DEF Tick, WorldTyped
  <2>. QED  BY <1>0, <1>3, <2>1, TickServed DEF Inv
<1>4. ASSUME NEW c \in Channels, NEW full \in BOOLEAN, Publish([channel |-> c, full |-> full])
      PROVE  Inv'
  <2>1. [channel |-> c, full |-> full] \in Activity
    BY DEF Activity
  <2>. QED  BY <1>0, <1>4, <2>1, PublishTyped, SameServed DEF Inv, Publish
<1>5. ASSUME NEW r \in Requests, Proceeds(r)
      PROVE  Inv'
  BY <1>0, <1>5, ProceedsTyped, ProceedsServed DEF Inv
<1>6. CASE UNCHANGED vars
  BY <1>0, <1>6, WorldTypedKept, SameServed DEF Inv, vars, WorldTyped, discord
<1>. QED  BY <1>1, <1>2, <1>3, <1>4, <1>5, <1>6 DEF Next

\* Every state has its types, counts its permits and offers what is asked for.
THEOREM InvHolds == Spec => []Inv
<1>1. Init => Inv
  BY InitInv
<1>2. Inv /\ [Next]_vars => Inv'
  BY NextInv
<1>. QED  BY <1>1, <1>2, PTL DEF Spec

LEMMA InvGivesType ==
    ASSUME Inv
    PROVE  TypeOK
<1>1. permits \in 0..SEARCHES
  BY HoldersFinite, AdmissionAssumption DEF Inv, Served, PermitsCount
<1>2. cache \in Guild \union {None}
      /\ (cache # None => Cardinality(Present(cache.voices)) <= MAX_VOICE_MEMBERS)
  BY DEF Inv, WorldTyped, Known
<1>. QED  BY <1>1, <1>2 DEF TypeOK, Inv, Served, WorldTyped, RequestsTyped, PermitsCount,
             ResultsTyped

(***************************************************************************)
(* Every variable keeps its type, every permit of the searches is free or  *)
(* held by one request, and the cache of results keeps its limit, however  *)
(* many requests there are and whatever becomes of them.                   *)
(***************************************************************************)
THEOREM PermitsAreAccountedFor == Spec => []TypeOK
<1>1. Inv => TypeOK
  BY InvGivesType
<1>. QED  BY <1>1, InvHolds, PTL

(***************************************************************************)
(* Choices offered to a caller were found for those words in the channel   *)
(* the caller has access to, and are not stale.                            *)
(***************************************************************************)
THEOREM OffersAreTheirs == Spec => []ChoicesAreTheirs
<1>1. Inv => ChoicesAreTheirs
  BY DEF Inv, Served, RequestsTheirs, Theirs, ChoicesAreTheirs
<1>. QED  BY <1>1, InvHolds, PTL

-----------------------------------------------------------------------------
(* What an event tells.                                                    *)

\* What there is to know of a server, but for the bot's roles.
Facts ==
    [of: {"owner"}, key: {None}]
    \union [of: {"channel"}, key: Channels]
    \union [of: {"role"}, key: Roles]
    \union [of: {"voice"}, key: Users]

PlaceOf(g, u) == IF g.voices[u] = None THEN None ELSE g.voices[u].channel

\* g is a server as Discord has it, or as the cache does.
Fact(g, fact) ==
    CASE fact.of = "owner" -> g.owner
      [] fact.of = "channel" -> g.channels[fact.key]
      [] fact.of = "role" -> g.roles[fact.key]
      [] fact.of = "voice" -> PlaceOf(g, fact.key)

Tells(event, fact) ==
    \/ event.kind = "create"
    \/ fact.of = "owner" /\ event.kind = "owner"
    \/ fact.of = "channel" /\ event.kind \in {"channel", "channelGone"} /\ event.channel = fact.key
    \/ fact.of = "role" /\ event.kind \in {"role", "roleGone"} /\ event.role = fact.key
    \/ fact.of = "voice" /\ event.kind = "voice" /\ event.user = fact.key

Says(event, fact) ==
    CASE event.kind = "create" -> Fact(event.server, fact)
      [] event.kind = "owner" -> event.owner
      [] event.kind = "channel" -> event.access
      [] event.kind = "channelGone" -> None
      [] event.kind = "role" -> event.permissions
      [] event.kind = "roleGone" -> None
      [] event.kind = "voice" -> event.channel

\* The limit is never met.
RoomForAll == Cardinality(Users) <= MAX_VOICE_MEMBERS

LEMMA AllNoticed ==
    ASSUME RoomForAll, NEW voices
    PROVE  Noticed(voices) = {Present(voices)}
<1>1. /\ IsFiniteSet(Present(voices)) /\ Cardinality(Present(voices)) \in Nat
      /\ Cardinality(Present(voices)) <= Cardinality(Users)
      /\ Cardinality(Users) \in Nat
  BY PresentFinite, AccessAssumption, FS_Subset, FS_CardinalityType
<1>2. AtMost(Cardinality(Present(voices)), MAX_VOICE_MEMBERS) = Cardinality(Present(voices))
  BY <1>1, AccessAssumption DEF AtMost, RoomForAll
<1>3. \A S \in SUBSET Present(voices) :
         Cardinality(S) = Cardinality(Present(voices)) => S = Present(voices)
  BY <1>1, FS_Subset
<1>. QED  BY <1>2, <1>3 DEF Noticed

LEMMA CreatedFacts ==
    ASSUME RoomForAll, NEW from \in Server, NEW complete \in BOOLEAN,
           NEW g \in Created(from, complete), NEW fact \in Facts
    PROVE  Fact(g, fact) = Fact(from, fact)
<1>1. /\ g.owner = from.owner /\ g.channels = from.channels /\ g.roles = from.roles
      /\ g.voices = [u \in Users |->
                        IF u \in Present(from.voices)
                        THEN [channel |-> from.voices[u].channel, bot |-> u = Bot]
                        ELSE None]
  BY AllNoticed DEF Created
<1>2. ASSUME NEW u \in Users
      PROVE  PlaceOf(g, u) = PlaceOf(from, u)
  <2>1. CASE u \in Present(from.voices)
    <3>1. from.voices[u] # None /\ from.voices[u] \in Voice
      BY <2>1 DEF Present, Server
    <3>2. [channel |-> from.voices[u].channel, bot |-> u = Bot] \in Voice
      BY <3>1 DEF Voice
    <3>. QED  BY <1>1, <2>1, <3>1, <3>2, VoiceIsSome DEF PlaceOf
  <2>2. CASE u \notin Present(from.voices)
    BY <1>1, <2>2 DEF Present, PlaceOf
  <2>. QED  BY <2>1, <2>2
<1>. QED  BY <1>1, <1>2 DEF Fact, Facts

LEMMA VoicedFacts ==
    ASSUME RoomForAll, NEW g, Known(g), NEW user \in Users,
           NEW channel \in Channels \union {None}, NEW member \in Member, NEW fact \in Facts
    PROVE  Fact(Voiced(g, user, channel, member), fact)
             = IF fact.of = "voice" /\ fact.key = user THEN channel ELSE Fact(g, fact)
<1>. DEFINE known == IF user = Bot /\ member # None THEN WithMember(g, member.roles) ELSE g
            state == [channel |-> channel, bot |-> IsBot(g, user, member)]
            place == IF channel = None THEN None ELSE state
            after == [known EXCEPT !.voices[user] = place]
<1>1. /\ known \in Guild /\ known.owner = g.owner /\ known.channels = g.channels
      /\ known.roles = g.roles /\ known.voices = g.voices
  BY DEF Known, WithMember, Guild, Member
<1>2. channel # None => state \in Voice /\ state.channel = channel
  <2>1. IsBot(g, user, member) \in BOOLEAN
    BY DEF IsBot
  <2>. QED  BY <2>1 DEF Voice
<1>3. Voiced(g, user, channel, member) = after
  <2>1. CASE channel = None
    BY <2>1 DEF Voiced
  <2>2. CASE channel # None /\ g.voices[user] # None
    BY <2>2 DEF Voiced
  <2>3. CASE channel # None /\ g.voices[user] = None
    <3>1. Present(g.voices) \subseteq Users \ {user}
      BY <2>3 DEF Present
    <3>2. /\ IsFiniteSet(Users \ {user})
          /\ Cardinality(Users \ {user}) = Cardinality(Users) - 1
      BY AccessAssumption, FS_RemoveElement
    <3>3. Cardinality(Present(g.voices)) <= Cardinality(Users \ {user})
      BY <3>1, <3>2, FS_Subset
    <3>4. Cardinality(Users) \in Nat /\ Cardinality(Present(g.voices)) \in Nat
      BY AccessAssumption, FS_CardinalityType, PresentFinite
    <3>5. Cardinality(Present(g.voices)) < MAX_VOICE_MEMBERS
      BY <3>2, <3>3, <3>4, AccessAssumption DEF RoomForAll
    <3>. QED  BY <2>3, <3>5 DEF Voiced
  <2>. QED  BY <2>1, <2>2, <2>3
<1>. HIDE DEF known, state
<1>4. /\ after.owner = g.owner /\ after.channels = g.channels /\ after.roles = g.roles
      /\ after.voices = [g.voices EXCEPT ![user] = place]
  BY <1>1 DEF Guild
<1>5. g.voices \in [Users -> {None} \union Voice]
  BY DEF Known, Guild
<1>6. PlaceOf(after, user) = channel
  BY <1>2, <1>4, <1>5, VoiceIsSome DEF PlaceOf
<1>7. \A u \in Users : u # user => PlaceOf(after, u) = PlaceOf(g, u)
  BY <1>4, <1>5 DEF PlaceOf
<1>. HIDE DEF after
<1>. QED  BY <1>3, <1>4, <1>6, <1>7 DEF Fact, Facts

LEMMA UpdatedFacts ==
    ASSUME RoomForAll, NEW g, Known(g), NEW event \in Event,
           event.kind \notin {"create", "gone"}, NEW fact \in Facts
    PROVE  Fact(Updated(g, event), fact)
             = IF Tells(event, fact) THEN Says(event, fact) ELSE Fact(g, fact)
<1>1. g \in Guild
  BY DEF Known
<1>2. CASE event.kind = "unavailable"
  BY <1>1, <1>2 DEF Updated, Guild, Fact, Facts, PlaceOf, Tells
<1>3. CASE event.kind = "owner"
  BY <1>1, <1>3 DEF Updated, Guild, Event, Fact, Facts, PlaceOf, Tells, Says
<1>4. CASE event.kind = "channel"
  BY <1>1, <1>4 DEF Updated, Guild, Event, Fact, Facts, PlaceOf, Tells, Says
<1>5. CASE event.kind = "channelGone"
  BY <1>1, <1>5 DEF Updated, Guild, Event, Fact, Facts, PlaceOf, Tells, Says
<1>6. CASE event.kind = "role"
  BY <1>1, <1>6 DEF Updated, Guild, Event, Fact, Facts, PlaceOf, Tells, Says
<1>7. CASE event.kind = "roleGone"
  BY <1>1, <1>7 DEF Updated, Guild, Event, Fact, Facts, PlaceOf, Tells, Says
<1>8. CASE event.kind = "member"
  BY <1>1, <1>8 DEF Updated, Guild, Event, Fact, Facts, PlaceOf, Tells, WithMember
<1>9. CASE event.kind = "voice"
  <2>1. /\ event.user \in Users /\ event.channel \in Channels \union {None}
        /\ event.member \in Member
    BY <1>9 DEF Event
  <2>2. Updated(g, event) = Voiced(g, event.user, event.channel, event.member)
    BY <1>9 DEF Updated
  <2>3. Tells(event, fact) <=> fact.of = "voice" /\ fact.key = event.user
    BY <1>9 DEF Tells
  <2>4. Says(event, fact) = event.channel
    BY <1>9 DEF Says
  <2>. QED  BY <2>1, <2>2, <2>3, <2>4, VoicedFacts
<1>10. event.kind \in {"unavailable", "owner", "channel", "channelGone", "role",
                       "roleGone", "member", "voice"}
  BY DEF Event
<1>. QED  BY <1>2, <1>3, <1>4, <1>5, <1>6, <1>7, <1>8, <1>9, <1>10

-----------------------------------------------------------------------------
(* What the cache will know when it has heard all the events on their way. *)

\* The last of them that tells a fact tells it as it is; if none does, the
\* cache knows it.
Told(s, g, fact, value) ==
    /\ \A i \in 1..Len(s) :
          /\ Tells(s[i], fact)
          /\ \A j \in (i + 1)..Len(s) : ~Tells(s[j], fact)
          => Says(s[i], fact) = value
    /\ (\A i \in 1..Len(s) : ~Tells(s[i], fact)) => Fact(g, fact) = value

\* An outage or a removal ends with a new beginning.
Begins(s, g) ==
    /\ \A i \in 1..Len(s) :
          s[i].kind \in {"unavailable", "gone"} =>
            \E j \in (i + 1)..Len(s) : s[j].kind = "create"
    /\ (\A i \in 1..Len(s) : s[i].kind # "create") => g # None /\ g.available

\* What the bot's roles are in the cache after an event that tells them.
SaysRoles(event) ==
    CASE event.kind = "create" -> IF event.complete THEN event.server.bot_roles ELSE None
      [] event.kind = "gone" -> None
      [] event.kind = "member" -> event.roles
      [] event.kind = "voice" -> event.member.roles

\* The bot's roles are as they are or unknown, unless a fetched membership
\* overtook them.
RolesTold(s, g, excused, held) ==
    /\ \A i \in 1..Len(s) :
          /\ TellsRoles(s[i])
          /\ \A j \in (i + 1)..Len(s) : ~TellsRoles(s[j])
          => SaysRoles(s[i]) \in {None, held}
    /\ g # None /\ ~excused /\ (\A i \in 1..Len(s) : ~TellsRoles(s[i])) =>
          g.bot_roles \in {None, held}

\* Hearing the events s will bring the cache g in step with the real server.
Hears(s, g, real, excused) ==
    /\ Begins(s, g)
    /\ \A fact \in Facts : Told(s, g, fact, Fact(real, fact))
    /\ RolesTold(s, g, excused, real.bot_roles)

\* Whoever is told of the server will know it.
InStep == reach = "up" => Hears(news, cache, server, overtaken)

LEMMA AppendedEvents ==
    ASSUME NEW s \in Seq(Event), NEW e \in Event
    PROVE  /\ Len(s) \in Nat /\ Len(Append(s, e)) = Len(s) + 1
           /\ \A i \in 1..Len(s) : Append(s, e)[i] = s[i]
           /\ Append(s, e)[Len(s) + 1] = e
BY AppendProperties

LEMMA RemainingEvents ==
    ASSUME NEW s \in Seq(Event), s # <<>>
    PROVE  /\ Len(s) \in Nat \ {0} /\ Len(Tail(s)) = Len(s) - 1 /\ Head(s) = s[1]
           /\ \A i \in 1..Len(Tail(s)) : Tail(s)[i] = s[i + 1]
<1>1. Len(s) \in Nat \ {0} /\ Len(Tail(s)) = Len(s) - 1 /\ Head(s) = s[1]
  BY HeadTailProperties
<1>. QED  BY <1>1

LEMMA ToldMore ==
    ASSUME NEW s \in Seq(Event), NEW e \in Event, NEW g, NEW fact, NEW value, NEW next,
           Told(s, g, fact, value),
           next = IF Tells(e, fact) THEN Says(e, fact) ELSE value
    PROVE  Told(Append(s, e), g, fact, next)
<1>. DEFINE t == Append(s, e)
            n == Len(s)
<1>1. n \in Nat /\ Len(t) = n + 1 /\ (\A i \in 1..n : t[i] = s[i]) /\ t[n + 1] = e
  BY AppendedEvents
<1>. HIDE DEF t
<1>2. ASSUME NEW i \in 1..Len(t), Tells(t[i], fact),
             \A j \in (i + 1)..Len(t) : ~Tells(t[j], fact)
      PROVE  Says(t[i], fact) = next
  <2>1. CASE i = n + 1
    BY <1>1, <1>2, <2>1
  <2>2. CASE i \in 1..n
    <3>1. n + 1 \in (i + 1)..Len(t)
      BY <1>1, <2>2
    <3>2. ~Tells(e, fact)
      BY <1>1, <1>2, <3>1
    <3>3. \A j \in (i + 1)..n : ~Tells(s[j], fact)
      BY <1>1, <1>2, <2>2
    <3>4. Tells(s[i], fact) /\ t[i] = s[i]
      BY <1>1, <1>2, <2>2
    <3>5. Says(s[i], fact) = value
      BY <2>2, <3>3, <3>4 DEF Told
    <3>. QED  BY <3>2, <3>4, <3>5
  <2>. QED  BY <1>1, <2>1, <2>2
<1>3. ASSUME \A i \in 1..Len(t) : ~Tells(t[i], fact)
      PROVE  Fact(g, fact) = next
  <2>1. n + 1 \in 1..Len(t)
    BY <1>1
  <2>2. ~Tells(e, fact)
    BY <1>1, <1>3, <2>1
  <2>3. \A i \in 1..n : ~Tells(s[i], fact)
    BY <1>1, <1>3
  <2>. QED  BY <2>2, <2>3 DEF Told
<1>. QED  BY <1>2, <1>3 DEF Told, t

LEMMA ToldLess ==
    ASSUME NEW s \in Seq(Event), s # <<>>, NEW g, NEW h, NEW fact, NEW value,
           Told(s, g, fact, value),
           (\A i \in 2..Len(s) : ~Tells(s[i], fact)) =>
              Fact(h, fact) = IF Tells(Head(s), fact) THEN Says(Head(s), fact)
                              ELSE Fact(g, fact)
    PROVE  Told(Tail(s), h, fact, value)
<1>. DEFINE t == Tail(s)
            n == Len(s)
<1>1. n \in Nat \ {0} /\ Len(t) = n - 1 /\ Head(s) = s[1] /\ \A i \in 1..Len(t) : t[i] = s[i + 1]
  BY RemainingEvents
<1>. HIDE DEF t
<1>2. ASSUME NEW i \in 1..Len(t), Tells(t[i], fact),
             \A j \in (i + 1)..Len(t) : ~Tells(t[j], fact)
      PROVE  Says(t[i], fact) = value
  <2>1. i + 1 \in 1..n /\ t[i] = s[i + 1]
    BY <1>1
  <2>2. ASSUME NEW j \in (i + 2)..n
        PROVE  ~Tells(s[j], fact)
    <3>1. j - 1 \in (i + 1)..Len(t) /\ t[j - 1] = s[j]
      BY <1>1
    <3>. QED  BY <1>2, <3>1
  <2>3. (i + 1) + 1 = i + 2
    OBVIOUS
  <2>. QED  BY <1>2, <2>1, <2>2, <2>3 DEF Told
<1>3. ASSUME \A i \in 1..Len(t) : ~Tells(t[i], fact)
      PROVE  Fact(h, fact) = value
  <2>1. ASSUME NEW i \in 2..n
        PROVE  ~Tells(s[i], fact)
    <3>1. i - 1 \in 1..Len(t) /\ t[i - 1] = s[i]
      BY <1>1
    <3>. QED  BY <1>3, <3>1
  <2>2. Fact(h, fact) = IF Tells(s[1], fact) THEN Says(s[1], fact) ELSE Fact(g, fact)
    BY <1>1, <2>1
  <2>3. CASE Tells(s[1], fact)
    <3>1. 1 \in 1..n /\ \A j \in (1 + 1)..n : ~Tells(s[j], fact)
      BY <1>1, <2>1
    <3>2. Says(s[1], fact) = value
      BY <2>3, <3>1 DEF Told
    <3>. QED  BY <2>2, <2>3, <3>2
  <2>4. CASE ~Tells(s[1], fact)
    <3>1. \A i \in 1..n : ~Tells(s[i], fact)
      BY <1>1, <2>1, <2>4
    <3>. QED  BY <2>2, <2>4, <3>1 DEF Told
  <2>. QED  BY <2>3, <2>4
<1>. QED  BY <1>2, <1>3 DEF Told, t

LEMMA RolesToldMore ==
    ASSUME NEW s \in Seq(Event), NEW e \in Event, NEW g, NEW excused, NEW held, NEW next,
           RolesTold(s, g, excused, held),
           IF TellsRoles(e) THEN SaysRoles(e) \in {None, next} ELSE next = held
    PROVE  RolesTold(Append(s, e), g, excused, next)
<1>. DEFINE t == Append(s, e)
            n == Len(s)
<1>1. n \in Nat /\ Len(t) = n + 1 /\ (\A i \in 1..n : t[i] = s[i]) /\ t[n + 1] = e
  BY AppendedEvents
<1>. HIDE DEF t
<1>2. ASSUME NEW i \in 1..Len(t), TellsRoles(t[i]),
             \A j \in (i + 1)..Len(t) : ~TellsRoles(t[j])
      PROVE  SaysRoles(t[i]) \in {None, next}
  <2>1. CASE i = n + 1
    BY <1>1, <1>2, <2>1
  <2>2. CASE i \in 1..n
    <3>1. n + 1 \in (i + 1)..Len(t)
      BY <1>1, <2>2
    <3>2. ~TellsRoles(e)
      BY <1>1, <1>2, <3>1
    <3>3. \A j \in (i + 1)..n : ~TellsRoles(s[j])
      BY <1>1, <1>2, <2>2
    <3>4. TellsRoles(s[i]) /\ t[i] = s[i]
      BY <1>1, <1>2, <2>2
    <3>5. SaysRoles(s[i]) \in {None, held}
      BY <2>2, <3>3, <3>4 DEF RolesTold
    <3>. QED  BY <3>2, <3>4, <3>5
  <2>. QED  BY <1>1, <2>1, <2>2
<1>3. ASSUME \A i \in 1..Len(t) : ~TellsRoles(t[i])
      PROVE  g # None /\ ~excused => g.bot_roles \in {None, next}
  <2>1. n + 1 \in 1..Len(t)
    BY <1>1
  <2>2. ~TellsRoles(e)
    BY <1>1, <1>3, <2>1
  <2>3. \A i \in 1..n : ~TellsRoles(s[i])
    BY <1>1, <1>3
  <2>. QED  BY <2>2, <2>3 DEF RolesTold
<1>. QED  BY <1>2, <1>3 DEF RolesTold, t

LEMMA RolesToldLess ==
    ASSUME NEW s \in Seq(Event), s # <<>>, NEW g, NEW h, NEW excused, NEW then, NEW held,
           RolesTold(s, g, excused, held),
           h # None /\ ~then =>
              IF TellsRoles(Head(s)) THEN h.bot_roles = SaysRoles(Head(s))
              ELSE g # None /\ ~excused /\ h.bot_roles = g.bot_roles
    PROVE  RolesTold(Tail(s), h, then, held)
<1>. DEFINE t == Tail(s)
            n == Len(s)
<1>1. n \in Nat \ {0} /\ Len(t) = n - 1 /\ Head(s) = s[1] /\ \A i \in 1..Len(t) : t[i] = s[i + 1]
  BY RemainingEvents
<1>. HIDE DEF t
<1>2. ASSUME NEW i \in 1..Len(t), TellsRoles(t[i]),
             \A j \in (i + 1)..Len(t) : ~TellsRoles(t[j])
      PROVE  SaysRoles(t[i]) \in {None, held}
  <2>1. i + 1 \in 1..n /\ t[i] = s[i + 1]
    BY <1>1
  <2>2. ASSUME NEW j \in (i + 2)..n
        PROVE  ~TellsRoles(s[j])
    <3>1. j - 1 \in (i + 1)..Len(t) /\ t[j - 1] = s[j]
      BY <1>1
    <3>. QED  BY <1>2, <3>1
  <2>3. (i + 1) + 1 = i + 2
    OBVIOUS
  <2>. QED  BY <1>2, <2>1, <2>2, <2>3 DEF RolesTold
<1>3. ASSUME \A i \in 1..Len(t) : ~TellsRoles(t[i]), h # None, ~then
      PROVE  h.bot_roles \in {None, held}
  <2>1. ASSUME NEW i \in 2..n
        PROVE  ~TellsRoles(s[i])
    <3>1. i - 1 \in 1..Len(t) /\ t[i - 1] = s[i]
      BY <1>1
    <3>. QED  BY <1>3, <3>1
  <2>2. IF TellsRoles(s[1]) THEN h.bot_roles = SaysRoles(s[1])
        ELSE g # None /\ ~excused /\ h.bot_roles = g.bot_roles
    BY <1>1, <1>3
  <2>3. CASE TellsRoles(s[1])
    <3>1. 1 \in 1..n /\ \A j \in (1 + 1)..n : ~TellsRoles(s[j])
      BY <1>1, <2>1
    <3>2. SaysRoles(s[1]) \in {None, held}
      BY <2>3, <3>1 DEF RolesTold
    <3>. QED  BY <2>2, <2>3, <3>2
  <2>4. CASE ~TellsRoles(s[1])
    <3>1. \A i \in 1..n : ~TellsRoles(s[i])
      BY <1>1, <2>1, <2>4
    <3>. QED  BY <2>2, <2>4, <3>1 DEF RolesTold
  <2>. QED  BY <2>3, <2>4
<1>. QED  BY <1>2, <1>3 DEF RolesTold, t

LEMMA BeginsMore ==
    ASSUME NEW s \in Seq(Event), NEW e \in Event, NEW g, Begins(s, g),
           e.kind \notin {"unavailable", "gone"}
    PROVE  Begins(Append(s, e), g)
<1>. DEFINE t == Append(s, e)
            n == Len(s)
<1>1. n \in Nat /\ Len(t) = n + 1 /\ (\A i \in 1..n : t[i] = s[i]) /\ t[n + 1] = e
  BY AppendedEvents
<1>. HIDE DEF t
<1>2. ASSUME NEW i \in 1..Len(t), t[i].kind \in {"unavailable", "gone"}
      PROVE  \E j \in (i + 1)..Len(t) : t[j].kind = "create"
  <2>1. i \in 1..n /\ t[i] = s[i]
    BY <1>1, <1>2
  <2>2. PICK j \in (i + 1)..n : s[j].kind = "create"
    BY <1>2, <2>1 DEF Begins
  <2>3. j \in (i + 1)..Len(t) /\ t[j] = s[j]
    BY <1>1, <2>1
  <2>. QED  BY <2>2, <2>3
<1>3. (\A i \in 1..Len(t) : t[i].kind # "create") => g # None /\ g.available
  <2>1. \A i \in 1..n : i \in 1..Len(t) /\ t[i] = s[i]
    BY <1>1
  <2>. QED  BY <2>1 DEF Begins
<1>. QED  BY <1>2, <1>3 DEF Begins, t

LEMMA BeginsLess ==
    ASSUME NEW s \in Seq(Event), s # <<>>, NEW g, NEW h, Begins(s, g),
           Head(s).kind = "create" => h # None /\ h.available,
           /\ Head(s).kind \notin {"create", "unavailable", "gone"}
           /\ g # None /\ g.available
           => h # None /\ h.available
    PROVE  Begins(Tail(s), h)
<1>. DEFINE t == Tail(s)
            n == Len(s)
<1>1. n \in Nat \ {0} /\ Len(t) = n - 1 /\ Head(s) = s[1] /\ \A i \in 1..Len(t) : t[i] = s[i + 1]
  BY RemainingEvents
<1>. HIDE DEF t
<1>2. ASSUME NEW i \in 1..Len(t), t[i].kind \in {"unavailable", "gone"}
      PROVE  \E j \in (i + 1)..Len(t) : t[j].kind = "create"
  <2>1. i + 1 \in 1..n /\ t[i] = s[i + 1]
    BY <1>1
  <2>2. PICK j \in ((i + 1) + 1)..n : s[j].kind = "create"
    BY <1>2, <2>1 DEF Begins
  <2>3. j - 1 \in (i + 1)..Len(t) /\ t[j - 1] = s[j]
    BY <1>1
  <2>. QED  BY <2>2, <2>3
<1>3. ASSUME \A i \in 1..Len(t) : t[i].kind # "create"
      PROVE  h # None /\ h.available
  <2>1. ASSUME NEW i \in 2..n
        PROVE  s[i].kind # "create"
    <3>1. i - 1 \in 1..Len(t) /\ t[i - 1] = s[i]
      BY <1>1
    <3>. QED  BY <1>3, <3>1
  <2>2. CASE s[1].kind = "create"
    BY <1>1, <2>2
  <2>3. CASE s[1].kind # "create"
    <3>1. \A i \in 1..n : s[i].kind # "create"
      BY <1>1, <2>1, <2>3
    <3>2. g # None /\ g.available
      BY <3>1 DEF Begins
    <3>3. 1 \in 1..n
      BY <1>1
    <3>4. s[1].kind \notin {"unavailable", "gone"}
      BY <3>1, <3>3 DEF Begins
    <3>. QED  BY <1>1, <2>3, <3>2, <3>4
  <2>. QED  BY <2>2, <2>3
<1>. QED  BY <1>2, <1>3 DEF Begins, t

\* Every fact and the bot's roles are in a beginning.
LEMMA BeginsAnew ==
    ASSUME server \in Server, NEW s \in Seq(Event), NEW complete \in BOOLEAN, NEW g, NEW excused
    PROVE  LET t == Append(s, Create(complete))
           IN  /\ Begins(t, g)
               /\ \A fact \in Facts : Told(t, g, fact, Fact(server, fact))
               /\ RolesTold(t, g, excused, server.bot_roles)
<1>. DEFINE e == Create(complete)
            t == Append(s, e)
            n == Len(s)
<1>1. /\ e \in Event /\ e.kind = "create" /\ TellsRoles(e)
      /\ SaysRoles(e) \in {None, server.bot_roles}
      /\ \A fact \in Facts : Tells(e, fact) /\ Says(e, fact) = Fact(server, fact)
  BY CreateTyped DEF Create, TellsRoles, SaysRoles, Tells, Says
<1>. HIDE DEF e
<1>2. n \in Nat /\ Len(t) = n + 1 /\ (\A i \in 1..n : t[i] = s[i]) /\ t[n + 1] = e
  BY <1>1, AppendedEvents
<1>3. n + 1 \in 1..Len(t) /\ \A i \in 1..Len(t) : i # n + 1 => n + 1 \in (i + 1)..Len(t)
  BY <1>2
<1>. HIDE DEF t
<1>4. Begins(t, g)
  BY <1>1, <1>2, <1>3 DEF Begins
<1>5. ASSUME NEW fact \in Facts
      PROVE  Told(t, g, fact, Fact(server, fact))
  BY <1>1, <1>2, <1>3 DEF Told
<1>6. RolesTold(t, g, excused, server.bot_roles)
  BY <1>1, <1>2, <1>3 DEF RolesTold
<1>. QED  BY <1>4, <1>5, <1>6 DEF t, e

-----------------------------------------------------------------------------
(* Discord's steps.                                                        *)

\* What happens is what the event says, and no more.
Announced(event, after) ==
    /\ event.kind \notin {"create", "unavailable", "gone"}
    /\ \A fact \in Facts :
          Fact(after, fact) = IF Tells(event, fact) THEN Says(event, fact) ELSE Fact(server, fact)
    /\ IF TellsRoles(event) THEN SaysRoles(event) \in {None, after.bot_roles}
       ELSE after.bot_roles = server.bot_roles

LEMMA InStepNext ==
    ASSUME reach' = "up" => Hears(news', cache', server', overtaken')
    PROVE  InStep'
BY DEF InStep, Hears, Begins, Told, RolesTold, Fact, PlaceOf, Tells, Says, TellsRoles, SaysRoles

LEMMA ChangeInStep ==
    ASSUME WorldTyped, InStep, NEW after, NEW event \in Event, Announced(event, after),
           Change(after, event)
    PROVE  InStep'
<1>1. ASSUME reach' = "up"
      PROVE  Hears(news', cache', server', overtaken')
  <2>1. /\ reach = "up" /\ news \in Seq(Event) /\ news' = Append(news, event)
        /\ UNCHANGED <<cache, overtaken>> /\ server' = after
    BY <1>1 DEF Change, WorldTyped
  <2>2. Hears(news, cache, server, overtaken)
    BY <2>1 DEF InStep
  <2>3. Begins(Append(news, event), cache)
    BY <2>1, <2>2, BeginsMore DEF Hears, Announced
  <2>4. \A fact \in Facts : Told(Append(news, event), cache, fact, Fact(after, fact))
    BY <2>1, <2>2, ToldMore DEF Hears, Announced
  <2>5. RolesTold(Append(news, event), cache, overtaken, after.bot_roles)
    BY <2>1, <2>2, RolesToldMore DEF Hears, Announced
  <2>6. Hears(Append(news, event), cache, after, overtaken)
    BY <2>3, <2>4, <2>5 DEF Hears
  <2>. QED  BY <2>1, <2>6
<1>. QED  BY <1>1, InStepNext

\* The bot hears from the beginning, whatever it knew.
LEMMA AnewInStep ==
    ASSUME WorldTyped, NEW s \in Seq(Event), NEW complete \in BOOLEAN,
           news' = Append(s, Create(complete)), UNCHANGED <<server, cache, overtaken>>
    PROVE  InStep'
<1>1. Hears(Append(s, Create(complete)), cache, server, overtaken)
  BY BeginsAnew DEF WorldTyped, Hears
<1>. QED  BY <1>1, InStepNext

LEMMA DiscordInStep ==
    ASSUME WorldTyped, InStep, Discord
    PROVE  InStep'
<1>0. server \in Server /\ news \in Seq(Event)
  BY DEF WorldTyped
<1>1. ASSUME NEW u \in Users, NEW place \in Channels \union {None}, UserMoves(u, place)
      PROVE  InStep'
  <2>. DEFINE after == [server EXCEPT !.voices[u] = Place(u, place)]
              event == Moved(u, place)
  <2>1. event \in Event /\ Change(after, event)
    BY <1>0, <1>1, MovedTyped, UserMovesChange
  <2>2. /\ after.owner = server.owner /\ after.channels = server.channels
        /\ after.roles = server.roles /\ after.bot_roles = server.bot_roles
        /\ after.voices = [server.voices EXCEPT ![u] = Place(u, place)]
        /\ server.voices \in [Users -> {None} \union Voice]
    BY <1>0 DEF Server
  <2>3. PlaceOf(after, u) = place /\ \A v \in Users : v # u => PlaceOf(after, v) = PlaceOf(server, v)
    BY <2>2, PlaceTyped DEF PlaceOf, Place
  <2>4. /\ event.kind = "voice" /\ event.user = u /\ event.channel = place
        /\ u = Bot => event.member.roles = server.bot_roles
    BY DEF Moved
  <2>. HIDE DEF after, event
  <2>5. \A fact \in Facts :
          Fact(after, fact) = IF Tells(event, fact) THEN Says(event, fact) ELSE Fact(server, fact)
    BY <2>2, <2>3, <2>4 DEF Facts, Fact, Tells, Says
  <2>6. IF TellsRoles(event) THEN SaysRoles(event) \in {None, after.bot_roles}
        ELSE after.bot_roles = server.bot_roles
    BY <2>2, <2>4 DEF TellsRoles, SaysRoles
  <2>7. Announced(event, after)
    BY <2>4, <2>5, <2>6 DEF Announced
  <2>. QED  BY <2>1, <2>7, ChangeInStep
<1>2. ASSUME NEW u \in {Bot} \union (Users \ Bots), OwnerSet(u)
      PROVE  InStep'
  <2>1. u \in Users
    BY AccessAssumption
  <2>. DEFINE after == [server EXCEPT !.owner = u]
              event == [kind |-> "owner", owner |-> u]
  <2>2. event \in Event /\ Change(after, event)
    BY <1>2, <2>1 DEF Event, OwnerSet
  <2>3. Announced(event, after)
    BY <1>0 DEF Announced, Server, Facts, Fact, PlaceOf, Tells, Says, TellsRoles
  <2>. QED  BY <2>2, <2>3, ChangeInStep
<1>3. ASSUME NEW held \in SUBSET (Roles \ {Everyone}), RolesGiven(held)
      PROVE  InStep'
  <2>. DEFINE after == [server EXCEPT !.bot_roles = held]
              event == [kind |-> "member", roles |-> held]
  <2>2. event \in Event /\ Change(after, event)
    BY <1>3 DEF Event, RolesGiven
  <2>3. Announced(event, after)
    BY <1>0 DEF Announced, Server, Facts, Fact, PlaceOf, Tells, Says, TellsRoles, SaysRoles
  <2>. QED  BY <2>2, <2>3, ChangeInStep
<1>4. ASSUME NEW c \in Channels, ChannelGone(c)
      PROVE  InStep'
  <2>. DEFINE after == [server EXCEPT !.channels[c] = None]
              event == [kind |-> "channelGone", channel |-> c]
  <2>2. event \in Event /\ Change(after, event)
    BY <1>4 DEF Event, ChannelGone
  <2>3. Announced(event, after)
    BY <1>0 DEF Announced, Server, Facts, Fact, PlaceOf, Tells, Says, TellsRoles
  <2>. QED  BY <2>2, <2>3, ChangeInStep
<1>5. ASSUME NEW c \in Channels, NEW access \in Accesses, ChannelSet(c, access)
      PROVE  InStep'
  <2>1. access \in ChannelAccess
    BY AdmissionAssumption
  <2>. DEFINE after == [server EXCEPT !.channels[c] = access]
              event == [kind |-> "channel", channel |-> c, access |-> access]
  <2>2. event \in Event /\ Change(after, event)
    BY <1>5, <2>1 DEF Event, ChannelSet
  <2>3. Announced(event, after)
    BY <1>0 DEF Announced, Server, Facts, Fact, PlaceOf, Tells, Says, TellsRoles
  <2>. QED  BY <2>2, <2>3, ChangeInStep
<1>6. ASSUME NEW r \in Roles, RoleGone(r)
      PROVE  InStep'
  <2>. DEFINE after == [server EXCEPT !.roles[r] = None]
              event == [kind |-> "roleGone", role |-> r]
  <2>2. event \in Event /\ Change(after, event)
    BY <1>6 DEF Event, RoleGone
  <2>3. Announced(event, after)
    BY <1>0 DEF Announced, Server, Facts, Fact, PlaceOf, Tells, Says, TellsRoles
  <2>. QED  BY <2>2, <2>3, ChangeInStep
<1>7. ASSUME NEW r \in Roles, NEW power \in Powers, RoleSet(r, power)
      PROVE  InStep'
  <2>1. power \in SUBSET Permissions
    BY AdmissionAssumption
  <2>. DEFINE after == [server EXCEPT !.roles[r] = power]
              event == [kind |-> "role", role |-> r, permissions |-> power]
  <2>2. event \in Event /\ Change(after, event)
    BY <1>7, <2>1 DEF Event, RoleSet
  <2>3. Announced(event, after)
    BY <1>0 DEF Announced, Server, Facts, Fact, PlaceOf, Tells, Says, TellsRoles
  <2>. QED  BY <2>2, <2>3, ChangeInStep
<1>8. ASSUME NEW how \in {"down", "gone"}, NEW said, Lost(how, said)
      PROVE  InStep'
  BY <1>8 DEF Lost, InStep
<1>9. ASSUME NEW complete \in BOOLEAN, Back(complete)
      PROVE  InStep'
  BY <1>0, <1>9, AnewInStep DEF Back
<1>10. ASSUME NEW complete \in BOOLEAN, NewSession(complete)
      PROVE  InStep'
  <2>1. <<>> \in Seq(Event) /\ <<Create(complete)>> = Append(<<>>, Create(complete))
    OBVIOUS
  <2>. QED  BY <1>10, <2>1, AnewInStep DEF NewSession
<1>. QED  BY <1>1, <1>2, <1>3, <1>4, <1>5, <1>6, <1>7, <1>8, <1>9, <1>10 DEF Discord

-----------------------------------------------------------------------------
(* The steps of the program.                                               *)

LEMMA UpdatedRoles ==
    ASSUME NEW g, Known(g), NEW event \in Event, event.kind \notin {"create", "gone"}
    PROVE  /\ Updated(g, event).bot_roles =
                IF TellsRoles(event) THEN SaysRoles(event) ELSE g.bot_roles
           /\ event.kind # "unavailable" => Updated(g, event).available = g.available
<1>1. g \in Guild
  BY DEF Known
<1>2. CASE event.kind \in {"unavailable", "owner", "channel", "channelGone", "role", "roleGone"}
  BY <1>1, <1>2 DEF Updated, Guild, TellsRoles
<1>3. CASE event.kind = "member"
  BY <1>1, <1>3 DEF Updated, Guild, TellsRoles, SaysRoles, WithMember
<1>4. CASE event.kind = "voice"
  <2>. DEFINE user == event.user
              member == event.member
              known == IF user = Bot /\ member # None THEN WithMember(g, member.roles) ELSE g
  <2>1. member \in Member /\ member # None
    BY <1>4, NoneAssumption DEF Event
  <2>2. known \in Guild /\ known.available = g.available
        /\ known.bot_roles = IF user = Bot THEN member.roles ELSE g.bot_roles
    BY <1>1, <2>1 DEF WithMember, Guild, Member
  <2>3. Updated(g, event) = Voiced(g, user, event.channel, member)
    BY <1>4 DEF Updated
  <2>4. \A place : /\ [known EXCEPT !.voices[user] = place].bot_roles = known.bot_roles
                   /\ [known EXCEPT !.voices[user] = place].available = known.available
    BY <2>2 DEF Guild
  <2>5. Updated(g, event).bot_roles = known.bot_roles
        /\ Updated(g, event).available = known.available
    BY <2>3, <2>4 DEF Voiced
  <2>. QED  BY <1>4, <2>2, <2>5 DEF TellsRoles, SaysRoles
<1>5. event.kind \in {"unavailable", "owner", "channel", "channelGone", "role",
                      "roleGone", "member", "voice"}
  BY DEF Event
<1>. QED  BY <1>2, <1>3, <1>4, <1>5

LEMMA CreatedRoles ==
    ASSUME NEW from, NEW complete \in BOOLEAN, NEW g \in Created(from, complete)
    PROVE  /\ g.available = TRUE
           /\ g.bot_roles = IF complete THEN from.bot_roles ELSE None
BY DEF Created

LEMMA KnownIsSome ==
    ASSUME NEW g, Known(g)
    PROVE  g # None
BY NoneAssumption DEF Known

LEMMA DeliverInStep ==
    ASSUME RoomForAll, WorldTyped, InStep, Deliver
    PROVE  InStep'
<1>. DEFINE head == Head(news)
<1>0. /\ news \in Seq(Event) /\ news # <<>> /\ head \in Event /\ UNCHANGED <<server, reach>>
      /\ news' = Tail(news) /\ cache' \in AfterEvent(cache, head)
      /\ overtaken' = (overtaken /\ ~TellsRoles(head))
      /\ cache = None \/ Known(cache)
  BY HeadTailProperties DEF WorldTyped, Deliver
<1>1. \A i \in 1..Len(news) : news[i] \in Event
  BY <1>0
<1>2. Len(news) \in Nat \ {0} /\ head = news[1]
  BY <1>0, RemainingEvents
<1>3. head.kind = "create" =>
        /\ head.server \in Server /\ head.complete \in BOOLEAN
        /\ cache' \in Created(head.server, head.complete)
  BY <1>0 DEF AfterEvent, Event
<1>4. head.kind # "create" /\ head.kind # "gone" /\ cache # None => cache' = Updated(cache, head)
  BY <1>0 DEF AfterEvent
<1>5. head.kind # "create" /\ (head.kind = "gone" \/ cache = None) => cache' = None
  BY <1>0 DEF AfterEvent
<1>. HIDE DEF head
<1>6. ASSUME reach' = "up"
      PROVE  Hears(news', cache', server', overtaken')
  <2>1. /\ Begins(news, cache)
        /\ \A fact \in Facts : Told(news, cache, fact, Fact(server, fact))
        /\ RolesTold(news, cache, overtaken, server.bot_roles)
    BY <1>0, <1>6 DEF InStep, Hears
  <2>2. Begins(news', cache')
    <3>1. head.kind = "create" => cache' # None /\ cache'.available
      <4>1. head.kind = "create" => Known(cache')
        BY <1>3, CreatedKnown
      <4>. QED  BY <1>3, <4>1, CreatedRoles, KnownIsSome
    <3>2. ASSUME head.kind \notin {"create", "unavailable", "gone"}, cache # None, cache.available
          PROVE  cache' # None /\ cache'.available
      <4>1. cache' = Updated(cache, head) /\ Known(cache) /\ Known(cache')
        BY <1>0, <1>4, <3>2, UpdatedKnown
      <4>. QED  BY <1>0, <3>2, <4>1, UpdatedRoles, KnownIsSome
    <3>. QED  BY <1>0, <2>1, <3>1, <3>2, BeginsLess DEF head
  <2>3. ASSUME NEW fact \in Facts
        PROVE  Told(news', cache', fact, Fact(server, fact))
    <3>1. ASSUME \A i \in 2..Len(news) : ~Tells(news[i], fact)
          PROVE  Fact(cache', fact) = IF Tells(head, fact) THEN Says(head, fact)
                                      ELSE Fact(cache, fact)
      <4>1. CASE head.kind = "create"
        BY <1>3, <4>1, CreatedFacts DEF Tells, Says
      <4>2. CASE head.kind # "create"
        <5>1. \A i \in 1..Len(news) : news[i].kind # "create"
          BY <1>2, <3>1, <4>2 DEF Tells
        <5>2. 1 \in 1..Len(news)
          BY <1>2
        <5>3. cache # None /\ head.kind # "gone"
          BY <1>2, <2>1, <5>1, <5>2 DEF Begins
        <5>. QED  BY <1>0, <1>4, <4>2, <5>3, UpdatedFacts
      <4>. QED  BY <4>1, <4>2
    <3>. QED  BY <1>0, <2>1, <3>1, ToldLess DEF head
  <2>4. RolesTold(news', cache', overtaken', server.bot_roles)
    <3>1. ASSUME cache' # None, ~overtaken'
          PROVE  IF TellsRoles(head) THEN cache'.bot_roles = SaysRoles(head)
                 ELSE cache # None /\ ~overtaken /\ cache'.bot_roles = cache.bot_roles
      <4>1. CASE head.kind = "create"
        BY <1>3, <4>1, CreatedRoles DEF TellsRoles, SaysRoles
      <4>2. CASE head.kind # "create"
        <5>1. cache # None /\ head.kind # "gone" /\ cache' = Updated(cache, head)
          BY <1>4, <1>5, <3>1, <4>2
        <5>2. cache'.bot_roles = IF TellsRoles(head) THEN SaysRoles(head) ELSE cache.bot_roles
          BY <1>0, <4>2, <5>1, UpdatedRoles
        <5>. QED  BY <1>0, <3>1, <5>1, <5>2
      <4>. QED  BY <4>1, <4>2
    <3>. QED  BY <1>0, <2>1, <3>1, RolesToldLess DEF head
  <2>. QED  BY <1>0, <2>2, <2>3, <2>4 DEF Hears
<1>. QED  BY <1>6, InStepNext

\* The cache changes in nothing that events tell.
LEMMA HearsSame ==
    ASSUME NEW s, NEW g, NEW h, NEW real, NEW excused, Hears(s, g, real, excused),
           g # None /\ h # None, h.available = g.available, h.bot_roles = g.bot_roles,
           \A fact \in Facts : Fact(h, fact) = Fact(g, fact)
    PROVE  Hears(s, h, real, excused)
BY DEF Hears, Begins, Told, RolesTold

LEMMA PublishInStep ==
    ASSUME WorldTyped, InStep, NEW activity \in Activity, Publish(activity)
    PROVE  InStep'
<1>1. Known(cache) /\ cache \in Guild /\ cache # None
  BY DEF WorldTyped, Publish, Known
<1>. DEFINE h == [cache EXCEPT !.activity = activity]
<1>2. /\ cache' = h /\ UNCHANGED <<server, reach, news, overtaken>>
  BY DEF Publish
<1>3. /\ h.available = cache.available /\ h.bot_roles = cache.bot_roles
      /\ h.owner = cache.owner /\ h.channels = cache.channels /\ h.roles = cache.roles
      /\ h.voices = cache.voices /\ h \in Guild
  BY <1>1 DEF Guild
<1>. HIDE DEF h
<1>4. h # None
  BY <1>3, NoneAssumption
<1>5. \A fact \in Facts : Fact(h, fact) = Fact(cache, fact)
  BY <1>3 DEF Facts, Fact, PlaceOf
<1>6. reach' = "up" => Hears(news', cache', server', overtaken')
  BY <1>1, <1>2, <1>3, <1>4, <1>5, HearsSame DEF InStep
<1>. QED  BY <1>6, InStepNext

\* A fetched membership is the bot's, or is noted to have overtaken it.
LEMMA MemberInStep ==
    ASSUME WorldTyped, InStep, NEW r, requests[r].member \in SUBSET Roles, MemberArrives(r)
    PROVE  InStep'
<1>1. UNCHANGED <<server, reach, news>>
  BY DEF MemberArrives, discord
<1>2. ASSUME reach' = "up"
      PROVE  Hears(news', cache', server', overtaken')
  <2>1. Hears(news, cache, server, overtaken)
    BY <1>1, <1>2 DEF InStep
  <2>2. CASE cache = None
    <3>1. cache' = None
      BY <2>2 DEF MemberArrives
    <3>2. RolesTold(news, None, overtaken', server.bot_roles)
      BY <2>1, <2>2 DEF Hears, RolesTold
    <3>. QED  BY <1>1, <2>1, <2>2, <3>1, <3>2 DEF Hears
  <2>3. CASE cache # None
    <3>. DEFINE held == requests[r].member
                h == WithMember(cache, held)
    <3>1. /\ cache' = h /\ cache \in Guild
          /\ overtaken' = (/\ held # server.bot_roles
                           /\ \A i \in DOMAIN news : ~TellsRoles(news[i]))
      BY <2>3 DEF MemberArrives, WorldTyped, Known
    <3>2. /\ h.available = cache.available /\ h.bot_roles = held
          /\ h.owner = cache.owner /\ h.channels = cache.channels /\ h.roles = cache.roles
          /\ h.voices = cache.voices /\ h \in Guild
      BY <3>1 DEF Guild, WithMember
    <3>. HIDE DEF h, held
    <3>3. h # None
      BY <3>2, NoneAssumption
    <3>4. \A fact \in Facts : Fact(h, fact) = Fact(cache, fact)
      BY <3>2 DEF Facts, Fact, PlaceOf
    <3>5. Begins(news, h) /\ \A fact \in Facts : Told(news, h, fact, Fact(server, fact))
      BY <2>1, <2>3, <3>2, <3>3, <3>4 DEF Hears, Begins, Told
    <3>6. DOMAIN news = 1..Len(news)
      BY DEF WorldTyped
    <3>7. RolesTold(news, h, overtaken', server.bot_roles)
      BY <2>1, <3>1, <3>2, <3>6 DEF Hears, RolesTold
    <3>. QED  BY <1>1, <3>1, <3>5, <3>7 DEF Hears
  <2>. QED  BY <2>2, <2>3
<1>. QED  BY <1>2, InStepNext

-----------------------------------------------------------------------------
(* Who is a bot.                                                           *)

\* Nobody who listens is taken for a bot.
NoneMistaken(g) ==
    g # None => \A u \in Users : g.voices[u] # None /\ g.voices[u].bot => u \in Bots

\* Discord says of no listener that it is a bot.
Truthful(event) ==
    event.kind = "voice" /\ event.member.bot => event.user \in Bots

BotsTold ==
    /\ NoneMistaken(cache)
    /\ \A i \in 1..Len(news) : Truthful(news[i])

LEMMA CreatedBots ==
    ASSUME NEW from \in Server, NEW complete \in BOOLEAN, NEW g \in Created(from, complete)
    PROVE  NoneMistaken(g)
<1>1. PICK S \in Noticed(from.voices) :
         g.voices = [u \in Users |->
                    IF u \in S THEN [channel |-> from.voices[u].channel, bot |-> u = Bot]
                    ELSE None]
  BY DEF Created
<1>2. \A u \in Users : g.voices[u] # None => g.voices[u].bot = (u = Bot)
  BY <1>1
<1>. QED  BY <1>2, AdmissionAssumption DEF NoneMistaken

LEMMA VoicedBots ==
    ASSUME NEW g, Known(g), NoneMistaken(g), NEW user \in Users,
           NEW channel \in Channels \union {None}, NEW member \in Member,
           member.bot => user \in Bots
    PROVE  NoneMistaken(Voiced(g, user, channel, member))
<1>. DEFINE known == IF user = Bot /\ member # None THEN WithMember(g, member.roles) ELSE g
            state == [channel |-> channel, bot |-> IsBot(g, user, member)]
<1>1. known \in Guild /\ known.voices = g.voices /\ g # None
  BY KnownIsSome DEF Known, WithMember, Guild, Member
<1>2. IsBot(g, user, member) => user \in Bots
  BY <1>1, AdmissionAssumption DEF IsBot, NoneMistaken
<1>3. ASSUME NEW place \in {None, state}
      PROVE  NoneMistaken([known EXCEPT !.voices[user] = place])
  <2>. DEFINE after == [known EXCEPT !.voices[user] = place]
  <2>1. after.voices = [g.voices EXCEPT ![user] = place] /\ DOMAIN g.voices = Users
    BY <1>1 DEF Guild
  <2>2. place # None => place.bot = IsBot(g, user, member)
    BY <1>3
  <2>. HIDE DEF after
  <2>. QED  BY <1>1, <1>2, <2>1, <2>2 DEF NoneMistaken, after
<1>4. NoneMistaken(known)
  BY <1>1 DEF NoneMistaken
<1>5. \/ Voiced(g, user, channel, member) = known
      \/ \E place \in {None, state} :
            Voiced(g, user, channel, member) = [known EXCEPT !.voices[user] = place]
  BY DEF Voiced
<1>. QED  BY <1>3, <1>4, <1>5

LEMMA UpdatedBots ==
    ASSUME NEW g, Known(g), NoneMistaken(g), NEW event \in Event, Truthful(event),
           event.kind \notin {"create", "gone"}
    PROVE  NoneMistaken(Updated(g, event))
<1>1. g \in Guild /\ g # None
  BY KnownIsSome DEF Known
<1>2. CASE event.kind # "voice"
  <2>1. event.kind \in {"unavailable", "owner", "channel", "channelGone", "role",
                        "roleGone", "member"}
    BY <1>2 DEF Event
  <2>2. Updated(g, event).voices = g.voices
    BY <1>1, <2>1 DEF Updated, WithMember, Guild
  <2>. QED  BY <1>1, <2>2 DEF NoneMistaken
<1>3. CASE event.kind = "voice"
  <2>1. /\ event.user \in Users /\ event.channel \in Channels \union {None}
        /\ event.member \in Member
    BY <1>3 DEF Event
  <2>2. Updated(g, event) = Voiced(g, event.user, event.channel, event.member)
    BY <1>3 DEF Updated
  <2>3. event.member.bot => event.user \in Bots
    BY <1>3 DEF Truthful
  <2>. QED  BY <2>1, <2>2, <2>3, VoicedBots
<1>. QED  BY <1>2, <1>3

LEMMA BotsTyped ==
    ASSUME NEW event \in Event, event.kind = "voice"
    PROVE  event.member.bot \in BOOLEAN
BY DEF Event, Member

LEMMA DeliverBots ==
    ASSUME WorldTyped, BotsTold, Deliver
    PROVE  BotsTold'
<1>. DEFINE head == Head(news)
<1>1. /\ news \in Seq(Event) /\ news # <<>> /\ head \in Event
      /\ news' = Tail(news) /\ cache' \in AfterEvent(cache, head)
      /\ cache = None \/ Known(cache)
  BY HeadTailProperties DEF WorldTyped, Deliver
<1>2. /\ Len(news) \in Nat \ {0} /\ Len(news') = Len(news) - 1 /\ head = news[1]
      /\ \A i \in 1..Len(news') : news'[i] = news[i + 1]
  BY <1>1, RemainingEvents
<1>3. Truthful(head)
  <2>1. 1 \in 1..Len(news)
    BY <1>2
  <2>. QED  BY <1>2, <2>1 DEF BotsTold
<1>. HIDE DEF head
<1>4. NoneMistaken(cache')
  <2>1. CASE head.kind = "create"
    <3>1. head.server \in Server /\ head.complete \in BOOLEAN
      BY <1>1, <2>1 DEF Event
    <3>. QED  BY <1>1, <2>1, <3>1, CreatedBots DEF AfterEvent
  <2>2. CASE head.kind # "create" /\ (head.kind = "gone" \/ cache = None)
    BY <1>1, <2>2 DEF AfterEvent, NoneMistaken
  <2>3. CASE head.kind # "create" /\ ~(head.kind = "gone" \/ cache = None)
    BY <1>1, <1>3, <2>3, UpdatedBots DEF AfterEvent, BotsTold
  <2>. QED  BY <2>1, <2>2, <2>3
<1>5. \A i \in 1..Len(news') : Truthful(news'[i])
  <2>1. \A i \in 1..Len(news') : i + 1 \in 1..Len(news)
    BY <1>2
  <2>. QED  BY <1>2, <2>1 DEF BotsTold
<1>. QED  BY <1>4, <1>5 DEF BotsTold, NoneMistaken, Truthful

LEMMA SaidBots ==
    ASSUME news \in Seq(Event), BotsTold, NEW event \in Event, Truthful(event),
           news' \in {news, Append(news, event), <<event>>}, UNCHANGED cache
    PROVE  BotsTold'
<1>1. \A i \in 1..Len(news') : Truthful(news'[i])
  <2>1. CASE news' = news
    BY <2>1 DEF BotsTold
  <2>2. CASE news' = Append(news, event)
    <3>1. /\ Len(news) \in Nat /\ Len(news') = Len(news) + 1 /\ news'[Len(news) + 1] = event
          /\ \A i \in 1..Len(news) : news'[i] = news[i]
      BY <2>2, AppendedEvents
    <3>2. \A i \in 1..Len(news') : i = Len(news) + 1 \/ i \in 1..Len(news)
      BY <3>1
    <3>. QED  BY <3>1, <3>2 DEF BotsTold
  <2>3. CASE news' = <<event>>
    BY <2>3
  <2>. QED  BY <2>1, <2>2, <2>3
<1>. QED  BY <1>1 DEF BotsTold, NoneMistaken, Truthful

LEMMA DiscordBots ==
    ASSUME WorldTyped, BotsTold, Discord
    PROVE  BotsTold'
<1>0. server \in Server /\ news \in Seq(Event)
  BY DEF WorldTyped
<1>1. ASSUME NEW event \in Event, Truthful(event), NEW after, Change(after, event)
      PROVE  BotsTold'
  BY <1>0, <1>1, SaidBots DEF Change
<1>2. ASSUME NEW u \in Users, NEW place \in Channels \union {None}, UserMoves(u, place)
      PROVE  BotsTold'
  <2>1. Moved(u, place) \in Event /\ Truthful(Moved(u, place))
    BY <1>0, MovedTyped DEF Moved, Truthful
  <2>. QED  BY <1>1, <1>2, <2>1, UserMovesChange
<1>3. ASSUME NEW u \in {Bot} \union (Users \ Bots), OwnerSet(u)
      PROVE  BotsTold'
  <2>. DEFINE event == [kind |-> "owner", owner |-> u]
  <2>1. event \in Event /\ Truthful(event)
    BY AccessAssumption DEF Event, Truthful
  <2>. QED  BY <1>1, <1>3, <2>1 DEF OwnerSet
<1>4. ASSUME NEW held \in SUBSET (Roles \ {Everyone}), RolesGiven(held)
      PROVE  BotsTold'
  <2>. DEFINE event == [kind |-> "member", roles |-> held]
  <2>1. event \in Event /\ Truthful(event)
    BY DEF Event, Truthful
  <2>. QED  BY <1>1, <1>4, <2>1 DEF RolesGiven
<1>5. ASSUME NEW c \in Channels, ChannelGone(c)
      PROVE  BotsTold'
  <2>. DEFINE event == [kind |-> "channelGone", channel |-> c]
  <2>1. event \in Event /\ Truthful(event)
    BY DEF Event, Truthful
  <2>. QED  BY <1>1, <1>5, <2>1 DEF ChannelGone
<1>6. ASSUME NEW c \in Channels, NEW access \in Accesses, ChannelSet(c, access)
      PROVE  BotsTold'
  <2>. DEFINE event == [kind |-> "channel", channel |-> c, access |-> access]
  <2>1. event \in Event /\ Truthful(event)
    BY AdmissionAssumption DEF Event, Truthful
  <2>. QED  BY <1>1, <1>6, <2>1 DEF ChannelSet
<1>7. ASSUME NEW r \in Roles, RoleGone(r)
      PROVE  BotsTold'
  <2>. DEFINE event == [kind |-> "roleGone", role |-> r]
  <2>1. event \in Event /\ Truthful(event)
    BY DEF Event, Truthful
  <2>. QED  BY <1>1, <1>7, <2>1 DEF RoleGone
<1>8. ASSUME NEW r \in Roles, NEW power \in Powers, RoleSet(r, power)
      PROVE  BotsTold'
  <2>. DEFINE event == [kind |-> "role", role |-> r, permissions |-> power]
  <2>1. event \in Event /\ Truthful(event)
    BY AdmissionAssumption DEF Event, Truthful
  <2>. QED  BY <1>1, <1>8, <2>1 DEF RoleSet
<1>9. ASSUME NEW how, NEW said \in {"unavailable", "gone"}, Lost(how, said)
      PROVE  BotsTold'
  <2>. DEFINE event == [kind |-> said]
  <2>1. event \in Event /\ Truthful(event)
    BY DEF Event, Truthful
  <2>. QED  BY <1>0, <1>9, <2>1, SaidBots DEF Lost
<1>10. ASSUME NEW complete \in BOOLEAN, Back(complete) \/ NewSession(complete)
      PROVE  BotsTold'
  <2>1. Create(complete) \in Event /\ Truthful(Create(complete))
    BY <1>0, CreateTyped DEF Create, Truthful
  <2>2. news' \in {news, Append(news, Create(complete)), <<Create(complete)>>} /\ UNCHANGED cache
    BY <1>10 DEF Back, NewSession
  <2>. QED  BY <1>0, <2>1, <2>2, SaidBots
<1>. QED  BY <1>2, <1>3, <1>4, <1>5, <1>6, <1>7, <1>8, <1>9, <1>10 DEF Discord

\* The cache changes, but not in who is in voice.
LEMMA SameBots ==
    ASSUME BotsTold, UNCHANGED news,
           cache' = cache \/ (cache # None /\ cache'.voices = cache.voices)
    PROVE  BotsTold'
BY DEF BotsTold, NoneMistaken, Truthful

-----------------------------------------------------------------------------
(* The theorem.                                                            *)

\* The inductive invariant of access.
AccessInv == Inv /\ InStep /\ BotsTold

LEMMA InitAccess ==
    ASSUME Init
    PROVE  AccessInv
<1>1. Inv
  BY InitInv
<1>2. PICK complete \in BOOLEAN : news = <<Create(complete)>>
  BY DEF Init
<1>3. server \in Server
  BY <1>1 DEF Inv, WorldTyped
<1>4. InStep
  <2>1. <<>> \in Seq(Event) /\ news = Append(<<>>, Create(complete))
    BY <1>2
  <2>. QED  BY <1>3, <2>1, BeginsAnew DEF InStep, Hears
<1>5. BotsTold
  BY <1>2 DEF Init, BotsTold, NoneMistaken, Truthful, Create
<1>. QED  BY <1>1, <1>4, <1>5 DEF AccessInv

LEMMA NextAccess ==
    ASSUME RoomForAll, AccessInv, [Next]_vars
    PROVE  AccessInv'
<1>0. Inv' /\ Inv /\ InStep /\ BotsTold /\ WorldTyped
  BY NextInv DEF AccessInv, Inv
<1>1. ASSUME UNCHANGED <<discord, cache, overtaken>>
      PROVE  AccessInv'
  <2>1. InStep'
    BY <1>0, <1>1, InStepNext DEF InStep, discord
  <2>2. BotsTold'
    BY <1>0, <1>1, SameBots DEF discord
  <2>. QED  BY <1>0, <2>1, <2>2 DEF AccessInv
<1>2. CASE Discord
  BY <1>0, <1>2, DiscordInStep, DiscordBots DEF AccessInv
<1>3. CASE Deliver
  BY <1>0, <1>3, DeliverInStep, DeliverBots DEF AccessInv
<1>4. CASE Tick
  BY <1>1, <1>4 DEF Tick
<1>5. ASSUME NEW c \in Channels, NEW full \in BOOLEAN, Publish([channel |-> c, full |-> full])
      PROVE  AccessInv'
  <2>. DEFINE activity == [channel |-> c, full |-> full]
  <2>1. activity \in Activity
    BY DEF Activity
  <2>2. Publish(activity)
    BY <1>5
  <2>. HIDE DEF activity
  <2>3. InStep'
    BY <1>0, <2>1, <2>2, PublishInStep
  <2>4. cache # None /\ cache'.voices = cache.voices /\ UNCHANGED news
    BY <1>0, <2>2 DEF Publish, WorldTyped, Known, Guild
  <2>. QED  BY <1>0, <2>3, <2>4, SameBots DEF AccessInv
<1>6. ASSUME NEW r \in Requests, Proceeds(r)
      PROVE  AccessInv'
  <2>1. CASE MemberArrives(r)
    <3>1. requests[r].member \in SUBSET Roles
      BY <1>0, <2>1 DEF MemberArrives, Inv, Served, RequestsTyped, Request
    <3>2. InStep'
      BY <1>0, <2>1, <3>1, MemberInStep
    <3>3. UNCHANGED news /\ (cache' = cache \/ (cache # None /\ cache'.voices = cache.voices))
      BY <1>0, <2>1 DEF MemberArrives, WithMember, WorldTyped, Known, Guild, discord
    <3>. QED  BY <1>0, <3>2, <3>3, SameBots DEF AccessInv
  <2>2. CASE ~MemberArrives(r)
    <3>1. UNCHANGED <<discord, cache, overtaken>>
      BY <1>6, <2>2 DEF Proceeds, Arrives, MemberServed, FetchFails, Denied, FromCache,
                        Searches, Unresolvable, OutOfTime, Answered
    <3>. QED  BY <1>1, <3>1
  <2>. QED  BY <2>1, <2>2
<1>7. CASE UNCHANGED vars
  BY <1>1, <1>7 DEF vars
<1>. QED  BY <1>2, <1>3, <1>4, <1>5, <1>6, <1>7 DEF Next

\* With nothing left to hear, the cache is as Discord.
LEMMA NothingUnheard ==
    ASSUME AccessInv, news = <<>>, reach = "up"
    PROVE  /\ cache # None /\ cache.available
           /\ cache.owner = server.owner
           /\ \A c \in Channels : cache.channels[c] = server.channels[c]
           /\ cache.roles = server.roles
           /\ \A c \in Channels : Within(cache, c) = Within(server, c)
           /\ ~overtaken /\ cache.bot_roles # None => cache.bot_roles = server.bot_roles
<1>1. Hears(<<>>, cache, server, overtaken) /\ WorldTyped
  BY DEF AccessInv, InStep, Inv
<1>2. 1..Len(<<>>) = {}
  OBVIOUS
<1>3. \A fact \in Facts : Fact(cache, fact) = Fact(server, fact)
  BY <1>1, <1>2 DEF Hears, Told
<1>4. cache # None /\ cache.available
  BY <1>1, <1>2 DEF Hears, Begins
<1>5. cache \in Guild /\ server \in Server
  BY <1>1, <1>4 DEF WorldTyped, Known
<1>6. cache.owner = server.owner
  <2>. DEFINE fact == [of |-> "owner", key |-> None]
  <2>1. fact \in Facts
    BY DEF Facts
  <2>2. Fact(cache, fact) = cache.owner /\ Fact(server, fact) = server.owner
    BY DEF Fact
  <2>. QED  BY <1>3, <2>1, <2>2
<1>7. ASSUME NEW c \in Channels
      PROVE  cache.channels[c] = server.channels[c]
  <2>. DEFINE fact == [of |-> "channel", key |-> c]
  <2>1. fact \in Facts
    BY DEF Facts
  <2>2. Fact(cache, fact) = cache.channels[c] /\ Fact(server, fact) = server.channels[c]
    BY DEF Fact
  <2>. QED  BY <1>3, <2>1, <2>2
<1>8. cache.roles = server.roles
  <2>1. ASSUME NEW r \in Roles
        PROVE  cache.roles[r] = server.roles[r]
    <3>. DEFINE fact == [of |-> "role", key |-> r]
    <3>1. fact \in Facts
      BY DEF Facts
    <3>2. Fact(cache, fact) = cache.roles[r] /\ Fact(server, fact) = server.roles[r]
      BY DEF Fact
    <3>. QED  BY <1>3, <3>1, <3>2
  <2>2. cache.roles \in [Roles -> {None} \union SUBSET Permissions]
        /\ server.roles \in [Roles -> {None} \union SUBSET Permissions]
    BY <1>5 DEF Guild, Server
  <2>. QED  BY <2>1, <2>2
<1>9. ASSUME NEW u \in Users
      PROVE  PlaceOf(cache, u) = PlaceOf(server, u)
  <2>. DEFINE fact == [of |-> "voice", key |-> u]
  <2>1. fact \in Facts
    BY DEF Facts
  <2>2. Fact(cache, fact) = PlaceOf(cache, u) /\ Fact(server, fact) = PlaceOf(server, u)
    BY DEF Fact
  <2>. QED  BY <1>3, <2>1, <2>2
<1>10. ASSUME NEW c \in Channels
       PROVE  Within(cache, c) = Within(server, c)
  <2>1. c # None
    BY NoneAssumption
  <2>2. \A g : Within(g, c) = {u \in Users : PlaceOf(g, u) = c}
    BY <2>1 DEF Within, Present, PlaceOf
  <2>3. Within(cache, c) = {u \in Users : PlaceOf(cache, u) = c}
        /\ Within(server, c) = {u \in Users : PlaceOf(server, u) = c}
    BY <2>2
  <2>. QED  BY <1>9, <2>3
<1>11. ~overtaken => cache.bot_roles \in {None, server.bot_roles}
  BY <1>1, <1>2, <1>4 DEF Hears, RolesTold
<1>. QED  BY <1>4, <1>6, <1>7, <1>8, <1>10, <1>11

LEMMA AccessIsDiscords ==
    ASSUME AccessInv
    PROVE  AccessFollowsDiscord
<1>. SUFFICES ASSUME news = <<>>, reach = "up"
              PROVE  /\ cache.available
                     /\ cache.bot_roles # None /\ ~overtaken =>
                          \A u \in Users, c \in Channels : Admits(cache, u, c) <=> MayPlay(u, c)
                     /\ \A c \in Channels : Alone(cache, c) => Within(server, c) \subseteq Bots
  BY DEF AccessFollowsDiscord
<1>1. /\ cache # None /\ cache.available
      /\ cache.owner = server.owner
      /\ \A c \in Channels : cache.channels[c] = server.channels[c]
      /\ cache.roles = server.roles
      /\ \A c \in Channels : Within(cache, c) = Within(server, c)
      /\ ~overtaken /\ cache.bot_roles # None => cache.bot_roles = server.bot_roles
  BY NothingUnheard
<1>2. ASSUME cache.bot_roles # None, ~overtaken, NEW u \in Users, NEW c \in Channels
      PROVE  Admits(cache, u, c) <=> MayPlay(u, c)
  <2>1. CallerIn(cache, u, c) <=> CallerIn(server, u, c)
    BY <1>1 DEF CallerIn
  <2>2. Full(cache, c) <=> Full(server, c)
    BY <1>1 DEF Full
  <2>3. cache.channels[c] = server.channels[c] /\ cache.bot_roles = server.bot_roles
    BY <1>1, <1>2
  <2>. QED  BY <1>1, <1>2, <2>1, <2>2, <2>3, AdmitsTheGranted DEF MayPlay
<1>3. ASSUME NEW c \in Channels, Alone(cache, c), NEW u \in Within(server, c)
      PROVE  u \in Bots
  <2>1. u \in Within(cache, c)
    BY <1>1
  <2>2. u \in Users /\ cache.voices[u] # None /\ cache.voices[u].bot
    BY <1>3, <2>1 DEF Alone, Within, Present
  <2>. QED  BY <1>1, <2>2 DEF AccessInv, BotsTold, NoneMistaken
<1>. QED  BY <1>1, <1>2, <1>3

(***************************************************************************)
(* When every event is delivered, the cache admits exactly those whom      *)
(* Discord would let have music, whatever order, outage or new session it  *)
(* learnt of it by, and no listener is overlooked, as long as a server has *)
(* no more users in voice than the cache notices.                          *)
(***************************************************************************)
THEOREM AccessIsKept ==
    ASSUME RoomForAll
    PROVE  Spec => []AccessFollowsDiscord
<1>1. Init => AccessInv
  BY InitAccess
<1>2. AccessInv /\ [Next]_vars => AccessInv'
  BY NextAccess
<1>3. AccessInv => AccessFollowsDiscord
  BY AccessIsDiscords
<1>. QED  BY <1>1, <1>2, <1>3, PTL DEF Spec

-----------------------------------------------------------------------------
(* What the loop of normalize takes.                                       *)

\* The playable ones of the first k tracks, and one's place among them.
GoodTo(s, k, search) == {i \in 1..k : Playable(s[i], search)}

PlaceIn(good, i) == Cardinality({j \in good : j <= i})

\* What the loop has after k turns.
Taken(r, s, k, playlist, search, room) ==
    LET good == GoodTo(s, k, search)
    IN  /\ r \in Resolution /\ r.failure = "none"
        /\ Len(r.tracks) = Least(Cardinality(good), room)
        /\ \A i \in good : PlaceIn(good, i) <= room => r.tracks[PlaceIn(good, i)] = s[i]
        /\ playlist => Len(r.tracks) + r.rejected + r.omitted = k

LEMMA GoodFinite ==
    ASSUME NEW s, NEW k \in Nat, NEW search
    PROVE  LET good == GoodTo(s, k, search)
           IN  /\ IsFiniteSet(good) /\ Cardinality(good) \in Nat
               /\ \A i \in good : PlaceIn(good, i) \in 1..Cardinality(good)
<1>. DEFINE good == GoodTo(s, k, search)
<1>1. IsFiniteSet(1..k) /\ good \subseteq 1..k
  BY FS_Interval DEF GoodTo
<1>2. IsFiniteSet(good) /\ Cardinality(good) \in Nat
  BY <1>1, FS_Subset, FS_CardinalityType
<1>3. ASSUME NEW i \in good
      PROVE  PlaceIn(good, i) \in 1..Cardinality(good)
  <2>. DEFINE upto == {j \in good : j <= i}
  <2>1. upto \subseteq good /\ i \in upto
    BY <1>1
  <2>. HIDE DEF good, upto
  <2>2. IsFiniteSet(upto) /\ Cardinality(upto) \in Nat /\ Cardinality(upto) <= Cardinality(good)
    BY <1>2, <2>1, FS_Subset, FS_CardinalityType
  <2>3. Cardinality(upto) # 0
    BY <2>1, <2>2, FS_EmptySet
  <2>4. PlaceIn(good, i) = Cardinality(upto)
    BY DEF PlaceIn, upto
  <2>. QED  BY <1>2, <2>2, <2>3, <2>4
<1>. QED  BY <1>2, <1>3

\* One more track.
LEMMA GoodGrows ==
    ASSUME NEW s, NEW k \in Nat, NEW search
    PROVE  LET good == GoodTo(s, k, search)
               more == GoodTo(s, k + 1, search)
           IN  /\ Playable(s[k + 1], search) =>
                    /\ more = good \union {k + 1}
                    /\ Cardinality(more) = Cardinality(good) + 1
                    /\ PlaceIn(more, k + 1) = Cardinality(good) + 1
               /\ ~Playable(s[k + 1], search) => more = good
               /\ \A i \in good : PlaceIn(more, i) = PlaceIn(good, i)
<1>. DEFINE good == GoodTo(s, k, search)
            more == GoodTo(s, k + 1, search)
<1>1. /\ Playable(s[k + 1], search) => more = good \union {k + 1}
      /\ ~Playable(s[k + 1], search) => more = good
      /\ k + 1 \notin good /\ good \subseteq 1..k
  BY DEF GoodTo
<1>2. IsFiniteSet(good) /\ Cardinality(good) \in Nat
  BY GoodFinite
<1>. HIDE DEF good, more
<1>3. \A i \in good : {j \in more : j <= i} = {j \in good : j <= i}
  BY <1>1
<1>4. ASSUME Playable(s[k + 1], search)
      PROVE  /\ Cardinality(more) = Cardinality(good) + 1
             /\ PlaceIn(more, k + 1) = Cardinality(good) + 1
  <2>0. Cardinality(good \union {k + 1}) = IF k + 1 \in good THEN Cardinality(good)
                                             ELSE Cardinality(good) + 1
    BY <1>2, FS_AddElement
  <2>1. Cardinality(more) = Cardinality(good) + 1
    BY <1>1, <1>4, <2>0
  <2>2. \A j \in more : j <= k + 1
    <3>1. more = good \union {k + 1} /\ good \subseteq 1..k
      BY <1>1, <1>4
    <3>. QED  BY <3>1
  <2>3. {j \in more : j <= k + 1} = more
    BY <2>2
  <2>. QED  BY <2>1, <2>3 DEF PlaceIn
<1>5. \A i \in good : PlaceIn(more, i) = PlaceIn(good, i)
  BY <1>3 DEF PlaceIn
<1>. QED  BY <1>1, <1>4, <1>5 DEF good, more

LEMMA OneMore ==
    ASSUME NEW a \in Nat, NEW b \in Nat, NEW c \in Nat, NEW k, a + b + c = k
    PROVE  /\ (a + 1) + b + c = k + 1
           /\ a + (b + 1) + c = k + 1
           /\ a + b + (c + 1) = k + 1
OBVIOUS

LEMMA TurnTakes ==
    ASSUME NEW s \in Seq(RawTrack), NEW k \in Nat, k < Len(s), NEW r,
           NEW playlist \in BOOLEAN, NEW search \in BOOLEAN, NEW room \in Nat,
           ~playlist /\ ~search => room <= 1,
           Taken(r, s, k, playlist, search, room)
    PROVE  Taken(Considered(r, s[k + 1], playlist, search, room), s, k + 1,
                 playlist, search, room)
<1>. DEFINE good == GoodTo(s, k, search)
            more == GoodTo(s, k + 1, search)
            raw == s[k + 1]
            n == Cardinality(good)
            next == Considered(r, raw, playlist, search, room)
<1>1. /\ n \in Nat /\ raw \in RawTrack
      /\ \A i \in good : PlaceIn(good, i) \in 1..n
  BY GoodFinite
<1>2. /\ Playable(raw, search) =>
           /\ more = good \union {k + 1}
           /\ Cardinality(more) = n + 1
           /\ PlaceIn(more, k + 1) = n + 1
      /\ ~Playable(raw, search) => more = good
      /\ \A i \in good : PlaceIn(more, i) = PlaceIn(good, i)
  BY GoodGrows
<1>3. /\ r \in Resolution /\ r.failure = "none"
      /\ Len(r.tracks) = Least(n, room)
      /\ \A i \in good : PlaceIn(good, i) <= room => r.tracks[PlaceIn(good, i)] = s[i]
      /\ playlist => Len(r.tracks) + r.rejected + r.omitted = k
  BY DEF Taken
<1>4. /\ r.tracks \in Seq(RawTrack) /\ Len(r.tracks) \in Nat
      /\ r.rejected \in Nat /\ r.omitted \in Nat
  BY <1>3 DEF Resolution
<1>5. next \in Resolution
  BY <1>1, <1>3, ConsideredTyped
<1>. HIDE DEF good, more, raw, n
<1>6. SUFFICES /\ next.failure = "none"
               /\ Len(next.tracks) = Least(Cardinality(more), room)
               /\ \A i \in more : PlaceIn(more, i) <= room => next.tracks[PlaceIn(more, i)] = s[i]
               /\ playlist => Len(next.tracks) + next.rejected + next.omitted = k + 1
  BY <1>5 DEF Taken, more, raw
<1>. HIDE DEF next
<1>7. CASE ~playlist /\ ~search /\ r.tracks # <<>>
  <2>1. next = r
    BY <1>7 DEF next, Considered
  <2>2. Len(r.tracks) # 0
    BY <1>4, <1>7
  <2>3. room = 1 /\ n >= 1
    BY <1>1, <1>3, <1>7, <2>2 DEF Least
  <2>4. Len(r.tracks) = 1 /\ Least(Cardinality(more), room) = 1
    <3>1. Cardinality(more) >= 1 /\ Cardinality(more) \in Nat
      BY <1>1, <1>2, <2>3 DEF n
    <3>. QED  BY <1>1, <1>3, <2>3, <3>1 DEF Least
  <2>5. \A i \in more : PlaceIn(more, i) <= room => i \in good
    BY <1>1, <1>2, <2>3
  <2>. QED  BY <1>2, <1>3, <1>7, <2>1, <2>4, <2>5
<1>8. CASE ~(~playlist /\ ~search /\ r.tracks # <<>>) /\ ~Playable(raw, search)
  <2>1. next = [r EXCEPT !.rejected = @ + 1]
    BY <1>8 DEF next, Considered
  <2>2. /\ next.failure = r.failure /\ next.tracks = r.tracks
        /\ next.rejected = r.rejected + 1 /\ next.omitted = r.omitted
    BY <1>3, <2>1 DEF Resolution
  <2>3. more = good /\ Cardinality(more) = n
    BY <1>2, <1>8 DEF n
  <2>4. ASSUME playlist
        PROVE  Len(next.tracks) + next.rejected + next.omitted = k + 1
    <3>1. Len(r.tracks) + r.rejected + r.omitted = k
      BY <1>3, <2>4
    <3>2. Len(r.tracks) + (r.rejected + 1) + r.omitted = k + 1
      BY <1>4, <3>1, OneMore
    <3>. QED  BY <2>2, <3>2
  <2>. QED  BY <1>3, <2>2, <2>3, <2>4
<1>9. CASE /\ ~(~playlist /\ ~search /\ r.tracks # <<>>) /\ Playable(raw, search)
           /\ Len(r.tracks) >= room
  <2>1. next = IF playlist THEN [r EXCEPT !.omitted = @ + 1] ELSE r
    BY <1>9 DEF next, Considered
  <2>2. /\ next.failure = r.failure /\ next.tracks = r.tracks
        /\ playlist => next.rejected = r.rejected /\ next.omitted = r.omitted + 1
    BY <1>3, <2>1 DEF Resolution
  <2>3. n >= room /\ Len(r.tracks) = room
    BY <1>1, <1>3, <1>9 DEF Least
  <2>4. Least(Cardinality(more), room) = room
    BY <1>1, <1>2, <1>9, <2>3 DEF Least
  <2>5. \A i \in more : PlaceIn(more, i) <= room => i \in good
    BY <1>1, <1>2, <1>9, <2>3
  <2>6. ASSUME playlist
        PROVE  Len(next.tracks) + next.rejected + next.omitted = k + 1
    <3>1. Len(r.tracks) + r.rejected + r.omitted = k
      BY <1>3, <2>6
    <3>2. Len(r.tracks) + r.rejected + (r.omitted + 1) = k + 1
      BY <1>4, <3>1, OneMore
    <3>3. /\ next.tracks = r.tracks
          /\ next.rejected = r.rejected /\ next.omitted = r.omitted + 1
      BY <2>2, <2>6
    <3>. QED  BY <3>2, <3>3
  <2>7. \A i \in more : PlaceIn(more, i) <= room => next.tracks[PlaceIn(more, i)] = s[i]
    BY <1>2, <1>3, <2>2, <2>5
  <2>. QED  BY <1>3, <2>2, <2>3, <2>4, <2>6, <2>7
<1>10. CASE /\ ~(~playlist /\ ~search /\ r.tracks # <<>>) /\ Playable(raw, search)
            /\ ~(Len(r.tracks) >= room)
  <2>. DEFINE longer == Append(r.tracks, raw)
  <2>1. /\ longer \in Seq(RawTrack) /\ Len(longer) = Len(r.tracks) + 1
        /\ \A i \in 1..Len(r.tracks) : longer[i] = r.tracks[i]
        /\ longer[Len(r.tracks) + 1] = raw
    BY <1>1, <1>4, AppendProperties
  <2>2. next = [r EXCEPT !.tracks = longer]
    BY <1>10 DEF next, Considered
  <2>. HIDE DEF longer
  <2>3. /\ next.failure = r.failure /\ next.tracks = longer
        /\ next.rejected = r.rejected /\ next.omitted = r.omitted
    BY <1>3, <2>2 DEF Resolution
  <2>4. Len(r.tracks) = n /\ n < room
    BY <1>1, <1>3, <1>4, <1>10 DEF Least
  <2>5. Least(Cardinality(more), room) = n + 1
    BY <1>1, <1>2, <1>10, <2>4 DEF Least
  <2>6. \A i \in good : longer[PlaceIn(more, i)] = s[i]
    BY <1>1, <1>2, <1>3, <2>1, <2>4
  <2>7. longer[PlaceIn(more, k + 1)] = s[k + 1]
    BY <1>2, <1>10, <2>1, <2>4 DEF raw
  <2>8. ASSUME playlist
        PROVE  Len(next.tracks) + next.rejected + next.omitted = k + 1
    <3>1. Len(r.tracks) + r.rejected + r.omitted = k
      BY <1>3, <2>8
    <3>2. (Len(r.tracks) + 1) + r.rejected + r.omitted = k + 1
      BY <1>4, <3>1, OneMore
    <3>3. /\ Len(next.tracks) = Len(r.tracks) + 1
          /\ next.rejected = r.rejected /\ next.omitted = r.omitted
      BY <2>1, <2>3
    <3>. QED  BY <3>2, <3>3
  <2>9. \A i \in more : next.tracks[PlaceIn(more, i)] = s[i]
    BY <1>2, <1>10, <2>3, <2>6, <2>7
  <2>. QED  BY <1>3, <2>1, <2>3, <2>4, <2>5, <2>8, <2>9
<1>. QED  BY <1>7, <1>8, <1>9, <1>10

LEMMA LoopTakes ==
    ASSUME NEW s \in Seq(RawTrack), NEW playlist \in BOOLEAN, NEW search \in BOOLEAN,
           NEW room \in Nat, ~playlist /\ ~search => room <= 1
    PROVE  Taken(Loop(s, playlist, search, room)[DOMAIN s], s, Len(s), playlist, search, room)
<1>. DEFINE f == Loop(s, playlist, search, room)
            wrong == {k \in 0..Len(s) : ~Taken(f[1..k], s, k, playlist, search, room)}
<1>1. f[{}] = Failed("none")
      /\ \A k \in 1..Len(s) : f[1..k] = Considered(f[1..(k - 1)], s[k], playlist, search, room)
  BY LoopTurns
<1>. HIDE DEF f
<1>2. Taken(f[1..0], s, 0, playlist, search, room)
  <2>1. 1..0 = {}
    OBVIOUS
  <2>2. Failed("none") \in Resolution
    BY FailedTyped DEF Failures
  <2>3. GoodTo(s, 0, search) = {} /\ Cardinality({}) = 0
    BY FS_EmptySet DEF GoodTo
  <2>4. Failed("none").failure = "none" /\ Failed("none").tracks = <<>>
        /\ Failed("none").rejected = 0 /\ Failed("none").omitted = 0
    BY DEF Failed
  <2>5. Least(0, room) = 0
    BY DEF Least
  <2>6. f[1..0] = Failed("none")
    BY <1>1, <2>1
  <2>a. Len(<<>>) = 0 /\ 0 + 0 + 0 = 0
    OBVIOUS
  <2>7. Taken(Failed("none"), s, 0, playlist, search, room)
    <3>. DEFINE r == Failed("none")
    <3>1. Len(r.tracks) = Least(Cardinality(GoodTo(s, 0, search)), room)
      BY <2>3, <2>4, <2>5
    <3>2. \A i \in GoodTo(s, 0, search) : FALSE
      BY <2>3
    <3>3. Len(r.tracks) + r.rejected + r.omitted = 0
      BY <2>4, <2>a
    <3>4. r \in Resolution /\ r.failure = "none"
      BY <2>2, <2>4
    <3>5. \A i \in GoodTo(s, 0, search) :
             PlaceIn(GoodTo(s, 0, search), i) <= room
               => r.tracks[PlaceIn(GoodTo(s, 0, search), i)] = s[i]
      BY <3>2
    <3>6. playlist => Len(r.tracks) + r.rejected + r.omitted = 0
      BY <3>3
    <3>7. SUFFICES Taken(r, s, 0, playlist, search, room)
      OBVIOUS
    <3>. HIDE DEF r
    <3>. QED  BY <3>1, <3>4, <3>5, <3>6, Zenon DEF Taken
  <2>. QED  BY <2>6, <2>7
<1>3. wrong = {}
  <2>1. wrong \in SUBSET Nat /\ 0 \notin wrong
    BY <1>2
  <2>2. ASSUME NEW k \in Nat, k \notin wrong
        PROVE  k + 1 \notin wrong
    <3>. SUFFICES ASSUME k + 1 \in wrong PROVE FALSE
      OBVIOUS
    <3>1. k + 1 \in 1..Len(s) /\ k < Len(s) /\ Taken(f[1..k], s, k, playlist, search, room)
      BY <2>2
    <3>2. f[1..(k + 1)] = Considered(f[1..k], s[k + 1], playlist, search, room)
      BY <1>1, <3>1
    <3>. QED  BY <3>1, <3>2, TurnTakes
  <2>. HIDE DEF wrong
  <2>. QED  BY <2>1, <2>2, NeverBegins
<1>4. Taken(f[1..Len(s)], s, Len(s), playlist, search, room)
  BY <1>3
<1>. QED  BY <1>4 DEF f

\* Of an answer normalize takes the first playable tracks there is room for.
LEMMA NormalizeKeepsPolicy ==
    ASSUME NEW answer \in Answer, NEW playlist \in BOOLEAN, NEW search \in BOOLEAN,
           NEW capacity \in Nat
    PROVE  LET found == Normalize(answer, playlist, search, capacity)
               good == GoodTo(answer.tracks, Len(answer.tracks), search)
               room == Limit(playlist, search, capacity)
           IN  /\ Len(found.tracks) = Least(Cardinality(good), room)
               /\ \A i \in good :
                     PlaceIn(good, i) <= room
                       => found.tracks[PlaceIn(good, i)] = answer.tracks[i]
               /\ Len(found.tracks) <= capacity
               /\ found.failure = "none" /\ playlist =>
                    Len(found.tracks) + found.rejected + found.omitted = Len(answer.tracks)
               /\ found.failure # "none" => room = 0 \/ good = {}
<1>. DEFINE found == Normalize(answer, playlist, search, capacity)
            tracks == answer.tracks
            good == GoodTo(tracks, Len(tracks), search)
            room == Limit(playlist, search, capacity)
            result == Loop(tracks, playlist, search, room)[DOMAIN tracks]
<1>1. tracks \in Seq(RawTrack) /\ Len(tracks) \in Nat
  BY AnswerTyped
<1>2. /\ room \in Nat /\ room <= capacity /\ (capacity > 0 => room > 0)
      /\ ~playlist /\ ~search => room <= 1
  BY ResolverAssumption DEF Limit, Least
<1>3. /\ IsFiniteSet(good) /\ Cardinality(good) \in Nat
      /\ \A i \in good : PlaceIn(good, i) \in 1..Cardinality(good)
  BY <1>1, GoodFinite
<1>4. found = CASE capacity = 0 -> Failed("full")
                [] capacity > 0 /\ answer.type = "error" -> Failed("load failed")
                [] capacity > 0 /\ answer.type = "empty" -> Failed("no match")
                [] capacity > 0 /\ answer.type = "other" -> Failed("invalid response")
                [] OTHER -> IF result.tracks = <<>> THEN Failed("no match") ELSE result
  BY NormalizeLoops
<1>5. Taken(result, tracks, Len(tracks), playlist, search, room)
  <2>. HIDE DEF tracks, room
  <2>. QED  BY <1>1, <1>2, LoopTakes
<1>6. answer.type \in {"error", "empty", "other"} => tracks = <<>>
  BY AnswerTyped
<1>8. /\ result \in Resolution /\ result.failure = "none"
      /\ Len(result.tracks) = Least(Cardinality(good), room)
      /\ \A i \in good :
            PlaceIn(good, i) <= room => result.tracks[PlaceIn(good, i)] = tracks[i]
      /\ playlist => Len(result.tracks) + result.rejected + result.omitted = Len(tracks)
  BY <1>5 DEF Taken
<1>9. SUFFICES /\ Len(found.tracks) = Least(Cardinality(good), room)
               /\ \A i \in good :
                     PlaceIn(good, i) <= room => found.tracks[PlaceIn(good, i)] = tracks[i]
               /\ Len(found.tracks) <= capacity
               /\ found.failure = "none" /\ playlist =>
                    Len(found.tracks) + found.rejected + found.omitted = Len(tracks)
               /\ found.failure # "none" => room = 0 \/ good = {}
  OBVIOUS
<1>10. result.tracks \in Seq(RawTrack) /\ Len(result.tracks) \in Nat
  BY <1>8 DEF Resolution
<1>11. tracks = <<>> => good = {}
  BY DEF GoodTo
<1>. HIDE DEF found, tracks, good, room, result
<1>12. ASSUME room = 0 \/ good = {}, NEW failure \in Failures \ {"none"},
              found = Failed(failure)
       PROVE  /\ Len(found.tracks) = Least(Cardinality(good), room)
              /\ \A i \in good : ~(PlaceIn(good, i) <= room)
              /\ Len(found.tracks) <= capacity
              /\ found.failure # "none"
  <2>1. found.tracks = <<>> /\ found.failure # "none"
    BY <1>12 DEF Failed
  <2>2. Least(Cardinality(good), room) = 0
    BY <1>2, <1>3, <1>12, FS_EmptySet DEF Least
  <2>3. Len(found.tracks) = 0
    BY <2>1
  <2>4. \A i \in good : ~(PlaceIn(good, i) <= room)
    BY <1>2, <1>3, <1>12
  <2>. QED  BY <2>1, <2>2, <2>3, <2>4
<1>13. CASE capacity = 0
  <2>1. found = Failed("full") /\ room = 0 /\ "full" \in Failures \ {"none"}
    BY <1>2, <1>4, <1>13 DEF Failures
  <2>. QED  BY <1>12, <2>1
<1>14. CASE capacity # 0 /\ answer.type \in {"error", "empty", "other"}
  <2>1. good = {}
    BY <1>6, <1>11, <1>14
  <2>2. \E failure \in Failures \ {"none"} : found = Failed(failure)
    <3>1. "load failed" \in Failures \ {"none"} /\ "no match" \in Failures \ {"none"}
          /\ "invalid response" \in Failures \ {"none"}
      BY DEF Failures
    <3>2. \/ found = Failed("load failed") \/ found = Failed("no match")
          \/ found = Failed("invalid response")
      <4>. HIDE DEF result
      <4>1. capacity > 0
        BY <1>14
      <4>. QED  BY <1>4, <1>14, <4>1
    <3>. QED  BY <3>1, <3>2
  <2>. QED  BY <1>12, <2>1, <2>2
<1>15. CASE capacity # 0 /\ answer.type \notin {"error", "empty", "other"}
  <2>1. found = IF result.tracks = <<>> THEN Failed("no match") ELSE result
    BY <1>4, <1>15
  <2>2. CASE result.tracks = <<>>
    <3>1. Least(Cardinality(good), room) = 0
      BY <1>8, <2>2
    <3>2. Cardinality(good) = 0
      BY <1>2, <1>3, <1>15, <3>1 DEF Least
    <3>3. good = {}
      BY <1>3, <3>2, FS_EmptySet
    <3>4. "no match" \in Failures \ {"none"}
      BY DEF Failures
    <3>. QED  BY <1>12, <2>1, <2>2, <3>3, <3>4
  <2>3. CASE result.tracks # <<>>
    <3>1. found = result
      BY <2>1, <2>3
    <3>2. Len(result.tracks) <= capacity
      BY <1>2, <1>3, <1>8 DEF Least
    <3>. QED  BY <1>8, <3>1, <3>2
  <2>. QED  BY <2>2, <2>3
<1>. QED  BY <1>13, <1>14, <1>15

\* What a /play keeps is what came of the answer it keeps.
OutcomesKept ==
    \A r \in Requests :
        requests[r].answer # None =>
            /\ r \in Plays /\ requests[r].stage = "done"
            /\ requests[r].resolution = Outcome(r, requests[r].answer)

LEMMA OneRequestOutcome ==
    ASSUME RequestsTyped, OutcomesKept, NEW r \in Requests, NEW q, Becomes(r, q),
           q.answer # None =>
             /\ r \in Plays /\ q.stage = "done"
             /\ q.text = requests[r].text /\ q.capacity = requests[r].capacity
             /\ q.resolution = Outcome(r, q.answer)
    PROVE  OutcomesKept'
<1>1. \A s \in Requests : requests'[s] = IF s = r THEN q ELSE requests[s]
  BY DEF Becomes, RequestsTyped
<1>2. ASSUME NEW s \in Requests, requests'[s].answer # None
      PROVE  /\ s \in Plays /\ requests'[s].stage = "done"
             /\ requests'[s].resolution = Outcome(s, requests[s].answer)'
  <2>1. CASE s # r
    BY <1>1, <1>2, <2>1 DEF OutcomesKept, Outcome, Input, Capacity
  <2>2. CASE s = r
    <3>1. requests'[r] = q
      BY <1>1
    <3>. QED  BY <1>2, <2>2, <3>1 DEF Outcome, Input, Capacity
  <2>. QED  BY <2>1, <2>2
<1>. QED  BY <1>2 DEF OutcomesKept

\* A request that has an answer is done, and goes nowhere.
LEMMA ProceedsOutcomes ==
    ASSUME RequestsTyped, OutcomesKept, NEW r \in Requests, Proceeds(r)
    PROVE  OutcomesKept'
<1>1. requests[r] \in Request
  BY DEF RequestsTyped
<1>2. requests[r].stage # "done"
  BY DEF Proceeds, Arrives, MemberServed, MemberArrives, FetchFails, Denied, FromCache,
         Searches, Unresolvable, Answered, OutOfTime
<1>3. requests[r].answer = None
  BY <1>2 DEF OutcomesKept
<1>4. ASSUME NEW q, q.answer = None, Becomes(r, q)
      PROVE  OutcomesKept'
  BY <1>4, OneRequestOutcome
<1>5. ASSUME NEW stage, Goes(r, stage)
      PROVE  OutcomesKept'
  BY <1>1, <1>3, <1>4, <1>5 DEF Goes, Request
<1>6. ASSUME NEW answer \in Answers \union {None}, NEW resolution,
             Resolved(r, answer, resolution), answer # None => resolution = Outcome(r, answer)
      PROVE  OutcomesKept'
  <2>1. CASE r \in Plays
    <3>. DEFINE q == [requests[r] EXCEPT !.stage = "done", !.answer = answer,
                                         !.resolution = resolution]
    <3>1. Becomes(r, q)
      BY <1>6, <2>1, AdmissionAssumption DEF Resolved
    <3>2. /\ q.answer = answer /\ q.stage = "done" /\ q.resolution = resolution
          /\ q.text = requests[r].text /\ q.capacity = requests[r].capacity
      BY <1>1 DEF Request
    <3>. HIDE DEF q
    <3>. QED  BY <1>6, <2>1, <3>1, <3>2, OneRequestOutcome
  <2>2. CASE Goes(r, "done")
    BY <1>5, <2>2
  <2>3. ASSUME NEW offer, Becomes(r, [requests[r] EXCEPT !.stage = "done", !.offered = offer])
        PROVE  OutcomesKept'
    BY <1>1, <1>3, <1>4, <2>3 DEF Request
  <2>. QED  BY <1>6, <2>1, <2>2, <2>3 DEF Resolved
<1>7. CASE \E user \in Users \ Bots, text \in DOMAIN Texts : Arrives(r, user, text)
  <2>1. PICK user, text, stage :
           Becomes(r, [requests[r] EXCEPT !.stage = stage, !.user = user, !.text = text])
    BY <1>7 DEF Arrives
  <2>. QED  BY <1>1, <1>3, <1>4, <2>1 DEF Request
<1>8. CASE MemberServed(r)
  <2>1. Becomes(r, [requests[r] EXCEPT !.member = server.bot_roles])
    BY <1>8 DEF MemberServed
  <2>. QED  BY <1>1, <1>3, <1>4, <2>1 DEF Request
<1>9. CASE MemberArrives(r) \/ FetchFails(r) \/ Denied(r) \/ OutOfTime(r)
  BY <1>5, <1>9 DEF MemberArrives, FetchFails, Denied, OutOfTime
<1>10. CASE FromCache(r)
  <2>1. PICK c, offer :
           Becomes(r, [requests[r] EXCEPT !.stage = "done", !.channel = c, !.offered = offer])
    BY <1>10 DEF FromCache
  <2>. QED  BY <1>1, <1>3, <1>4, <2>1 DEF Request
<1>11. CASE Searches(r)
  <2>1. \/ Goes(r, "done")
        \/ \E c, capacity : Becomes(r, [requests[r] EXCEPT !.stage = "first", !.channel = c,
                                                           !.capacity = capacity])
        \/ \E c : Becomes(r, [requests[r] EXCEPT !.stage = "first", !.channel = c])
    BY <1>11 DEF Searches
  <2>2. ASSUME NEW c, Becomes(r, [requests[r] EXCEPT !.stage = "first", !.channel = c])
        PROVE  OutcomesKept'
    BY <1>1, <1>3, <1>4, <2>2 DEF Request
  <2>3. ASSUME NEW c, NEW capacity,
               Becomes(r, [requests[r] EXCEPT !.stage = "first", !.channel = c,
                                              !.capacity = capacity])
        PROVE  OutcomesKept'
    BY <1>1, <1>3, <1>4, <2>3 DEF Request
  <2>. QED  BY <1>5, <2>1, <2>2, <2>3
<1>12. CASE Unresolvable(r)
  BY <1>6, <1>12 DEF Unresolvable
<1>13. ASSUME NEW answer \in Answers \union {None}, Answered(r, answer)
       PROVE  OutcomesKept'
  <2>1. Goes(r, "second") \/ Resolved(r, answer, Outcome(r, answer))
    BY <1>13 DEF Answered
  <2>. QED  BY <1>5, <1>6, <2>1
<1>. QED  BY <1>7, <1>8, <1>9, <1>10, <1>11, <1>12, <1>13 DEF Proceeds

LEMMA NextOutcomes ==
    ASSUME Inv, OutcomesKept, [Next]_vars
    PROVE  OutcomesKept'
<1>1. ASSUME UNCHANGED requests
      PROVE  OutcomesKept'
  BY <1>1 DEF OutcomesKept, Outcome, Input, Capacity
<1>2. CASE Discord \/ Deliver \/ Tick \/ UNCHANGED vars
  BY <1>1, <1>2, DiscordChanges DEF Deliver, Tick, vars
<1>3. ASSUME NEW activity, Publish(activity)
      PROVE  OutcomesKept'
  BY <1>1, <1>3 DEF Publish
<1>4. ASSUME NEW r \in Requests, Proceeds(r)
      PROVE  OutcomesKept'
  BY <1>4, ProceedsOutcomes DEF Inv, Served
<1>. QED  BY <1>2, <1>3, <1>4 DEF Next

LEMMA OutcomesKeepPolicy ==
    ASSUME Inv, OutcomesKept
    PROVE  ResolutionKeepsPolicy
<1>. SUFFICES ASSUME NEW r \in Requests, requests[r].answer # None
              PROVE  LET answer == requests[r].answer
                         found == requests[r].resolution
                         good == {i \in DOMAIN answer.tracks :
                                     Playable(answer.tracks[i], Input(r) = "search")}
                         room == Limit(Input(r) = "playlist", Input(r) = "search", Capacity(r))
                     IN  /\ Len(found.tracks) = Least(Cardinality(good), room)
                         /\ \A i \in good :
                               LET place == Cardinality({j \in good : j <= i})
                               IN  place <= room => found.tracks[place] = answer.tracks[i]
                         /\ Len(found.tracks) <= requests[r].capacity
                         /\ found.failure = "none" /\ Input(r) = "playlist" =>
                              Len(found.tracks) + found.rejected + found.omitted
                                = Len(answer.tracks)
                         /\ found.failure # "none" => room = 0 \/ good = {}
  BY DEF ResolutionKeepsPolicy
<1>. DEFINE answer == requests[r].answer
            found == requests[r].resolution
            playlist == Input(r) = "playlist"
            search == Input(r) = "search"
            good == {i \in DOMAIN answer.tracks : Playable(answer.tracks[i], search)}
            room == Limit(playlist, search, Capacity(r))
<1>1. /\ requests[r] \in Request /\ requests[r].capacity \in Nat
      /\ answer \in Answers /\ r \in Plays
  BY DEF Inv, Served, RequestsTyped, Request, OutcomesKept
<1>2. answer \in Answer /\ r \notin Suggests
  BY <1>1, AdmissionAssumption
<1>3. found = Normalize(answer, playlist, search, Capacity(r))
  BY DEF OutcomesKept, Outcome
<1>4. Capacity(r) \in Nat /\ Capacity(r) <= requests[r].capacity
  <2>1. Capacity(r) = Least(requests[r].capacity, 1) \/ Capacity(r) = requests[r].capacity
    BY <1>2, Zenon DEF Capacity
  <2>. QED  BY <1>1, <2>1 DEF Least
<1>5. good = GoodTo(answer.tracks, Len(answer.tracks), search)
  <2>1. answer.tracks \in Seq(RawTrack)
    BY <1>2, AnswerTyped
  <2>2. DOMAIN answer.tracks = 1..Len(answer.tracks)
    BY <2>1
  <2>. QED  BY <2>2 DEF GoodTo
<1>6. found \in Resolution
  BY <1>1 DEF Request
<1>7. Len(found.tracks) \in Nat
  BY <1>6 DEF Resolution
<1>8. playlist \in BOOLEAN /\ search \in BOOLEAN
  OBVIOUS
<1>. HIDE DEF answer, found, playlist, search, good
<1>9. /\ Len(found.tracks) = Least(Cardinality(good), room)
      /\ \A i \in good :
            PlaceIn(good, i) <= room => found.tracks[PlaceIn(good, i)] = answer.tracks[i]
      /\ Len(found.tracks) <= Capacity(r)
      /\ found.failure = "none" /\ playlist =>
           Len(found.tracks) + found.rejected + found.omitted = Len(answer.tracks)
      /\ found.failure # "none" => room = 0 \/ good = {}
  BY <1>2, <1>3, <1>4, <1>5, <1>8, NormalizeKeepsPolicy
<1>10. Len(found.tracks) <= requests[r].capacity
  BY <1>1, <1>4, <1>7, <1>9
<1>. QED  BY <1>9, <1>10 DEF PlaceIn, answer, found, playlist, search, good

(***************************************************************************)
(* Whatever the backend answers, a /play takes of it the first playable    *)
(* tracks up to the room there is, in order, none lost for a bad one, and  *)
(* counts what it leaves of a playlist; it fails only for want of room or  *)
(* of a playable track.                                                    *)
(***************************************************************************)
THEOREM PolicyIsKept == Spec => []ResolutionKeepsPolicy
<1>1. Init => OutcomesKept
  <2>. SUFFICES ASSUME Init PROVE OutcomesKept
    OBVIOUS
  <2>1. \A r \in Requests : requests[r].answer = None
    BY DEF Init, NewRequest
  <2>. QED  BY <2>1 DEF OutcomesKept
<1>2. Inv /\ OutcomesKept /\ [Next]_vars => OutcomesKept'
  BY NextOutcomes
<1>3. Inv /\ OutcomesKept => ResolutionKeepsPolicy
  BY OutcomesKeepPolicy
<1>. QED  BY <1>1, <1>2, <1>3, InvHolds, PTL DEF Spec
=============================================================================

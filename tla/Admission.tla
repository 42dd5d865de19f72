------------------------------ MODULE Admission ------------------------------
(***************************************************************************)
(* Who may have music, and what autocomplete offers them: a server at      *)
(* Discord that changes, the gateway that tells the voice cache of it in   *)
(* order, and requests that look into the cache, fetch the bot's           *)
(* membership where it is missing and search the backend                   *)
(* (ensure_bot_membership, resolve and autocomplete_choices in             *)
(* src/src/runtime.rs).  What a session does with an admitted /play is in  *)
(* GuildSession.                                                           *)
(*                                                                         *)
(* Autocompletes run beside each other on several threads; an action is a  *)
(* request up to its next await.                                           *)
(***************************************************************************)
EXTENDS VoiceAccess, Resolver

CONSTANTS
    Suggests, Plays,  \* autocompletes, and /play commands
    Bots,        \* the users that are bots
    Texts,       \* what requests ask for: a function from names to Text
    Lower,       \* the name of a text in lower case
    Answers,     \* what the backend may answer
    SEARCHES,    \* permits of Shared.searches; 4
    RESULTS,     \* entries of Shared.autocomplete; 500
    LIFETIME,    \* age at which an entry is stale; 30 seconds
    Servers,     \* the states in which Discord's server may begin
    Accesses, Powers,  \* what channels, and permissions of roles, change to
    MaxEvents,   \* bound on changes at Discord and requests together
    MaxNews      \* bound on undelivered events

\* Where choices were found, for which words, and when.
Offer == [channel: Channels, text: DOMAIN Texts, age: 0..LIFETIME]

ASSUME AdmissionAssumption ==
    /\ Suggests \intersect Plays = {}
    /\ Bot \in Bots /\ Bots \subseteq Users
    /\ DOMAIN Lower = DOMAIN Texts /\ Lower \in [DOMAIN Texts -> DOMAIN Texts]
    /\ SEARCHES \in Nat \ {0} /\ RESULTS \in Nat \ {0} /\ LIFETIME \in Nat \ {0}
    /\ IsFiniteSet(Suggests) /\ DOMAIN Texts # {}
    /\ \A t \in DOMAIN Texts : Texts[t] \in Text
    /\ Answers \subseteq Answer /\ None \notin Answers \union Offer
    /\ Servers \subseteq Server
    /\ Accesses \subseteq ChannelAccess /\ Powers \subseteq SUBSET Permissions
    /\ MaxEvents \in Nat /\ MaxNews \in Nat \ {0}

VARIABLES
    server,    \* the server as Discord has it
    reach,     \* "up", "down" or "gone": whether the bot is told of it
    news,      \* the gateway's events on their way, oldest first
    cache,     \* Shared.cache of this server, or None
    requests,
    permits,   \* free permits of Shared.searches
    results,   \* Shared.autocomplete
    spent,     \* changes and requests so far
    overtaken  \* history: a fetched membership replaced a newer one

discord == <<server, reach, news>>
vars == <<discord, spent, cache, requests, permits, results, overtaken>>

Requests == Suggests \union Plays

Keys == Channels \X DOMAIN Texts

\* member is what Discord answered to the fetch; channel is the channel a
\* request was admitted in.
Request ==
    [stage: {"new", "fetching", "checking", "first", "second", "done"},
     user: Users \union {None}, text: DOMAIN Texts,
     capacity: Nat, member: {None} \union SUBSET Roles,
     channel: Channels \union {None},
     offered: Offer \union {None}, answer: Answers \union {None},
     resolution: Resolution]

NewRequest ==
    [stage |-> "new", user |-> None,
     text |-> CHOOSE t \in DOMAIN Texts : TRUE, capacity |-> 0, member |-> None,
     channel |-> None, offered |-> None, answer |-> None,
     resolution |-> Failed("none")]

\* What the gateway says.
Event ==
    [kind: {"create"}, server: Server, complete: BOOLEAN]
    \union [kind: {"unavailable", "gone"}]
    \union [kind: {"owner"}, owner: Users]
    \union [kind: {"channel"}, channel: Channels, access: ChannelAccess]
    \union [kind: {"channelGone"}, channel: Channels]
    \union [kind: {"role"}, role: Roles, permissions: SUBSET Permissions]
    \union [kind: {"roleGone"}, role: Roles]
    \union [kind: {"member"}, roles: SUBSET Roles]
    \union [kind: {"voice"}, user: Users, channel: Channels \union {None}, member: Member]

Create(complete) == [kind |-> "create", server |-> server, complete |-> complete]

\* The bot has just connected.
Init ==
    /\ server \in Servers
    /\ reach = "up"
    /\ \E complete \in BOOLEAN : news = <<Create(complete)>>
    /\ cache = None
    /\ requests = [r \in Requests |-> NewRequest]
    /\ permits = SEARCHES
    /\ results = <<>>
    /\ spent = 0
    /\ overtaken = FALSE

-----------------------------------------------------------------------------
(* Discord.                                                                *)

\* The server becomes `after`, and the bot is told by `event` if it is up.
Change(after, event) ==
    /\ spent < MaxEvents /\ Len(news) < MaxNews
    /\ reach # "gone" /\ after # server
    /\ server' = after
    /\ news' = IF reach = "up" THEN Append(news, event) ELSE news
    /\ spent' = spent + 1
    /\ UNCHANGED <<reach, cache, requests, permits, results, overtaken>>

UserMoves(u, place) ==
    LET state == IF place = None THEN None
                 ELSE [channel |-> place, bot |-> u \in Bots]
        member == [bot |-> u \in Bots, roles |-> IF u = Bot THEN server.bot_roles ELSE {}]
    IN  /\ place # None => server.channels[place] # None
        /\ Change([server EXCEPT !.voices[u] = state],
                  [kind |-> "voice", user |-> u, channel |-> place, member |-> member])

RolesGiven(held) ==
    Change([server EXCEPT !.bot_roles = held], [kind |-> "member", roles |-> held])

ChannelSet(c, access) ==
    Change([server EXCEPT !.channels[c] = access],
           [kind |-> "channel", channel |-> c, access |-> access])

ChannelGone(c) ==
    /\ Within(server, c) = {}
    /\ Change([server EXCEPT !.channels[c] = None],
              [kind |-> "channelGone", channel |-> c])

RoleSet(r, power) ==
    Change([server EXCEPT !.roles[r] = power],
           [kind |-> "role", role |-> r, permissions |-> power])

\* A role of the bot is taken from it before it is deleted.
RoleGone(r) ==
    /\ r \notin server.bot_roles \union {Everyone}
    /\ Change([server EXCEPT !.roles[r] = None], [kind |-> "roleGone", role |-> r])

OwnerSet(u) ==
    Change([server EXCEPT !.owner = u], [kind |-> "owner", owner |-> u])

\* An outage, or the bot is removed from the server.
Lost(how, event) ==
    /\ reach = "up" /\ spent < MaxEvents /\ Len(news) < MaxNews
    /\ reach' = how
    /\ news' = Append(news, [kind |-> event])
    /\ spent' = spent + 1
    /\ UNCHANGED <<server, cache, requests, permits, results, overtaken>>

Back(complete) ==
    /\ reach # "up" /\ Len(news) < MaxNews
    /\ reach' = "up"
    /\ news' = Append(news, Create(complete))
    /\ UNCHANGED <<server, spent, cache, requests, permits, results, overtaken>>

\* A gateway session that cannot be resumed: undelivered events are lost, and
\* the new session begins with the whole server.
NewSession(complete) ==
    /\ spent < MaxEvents /\ reach = "up" /\ news # <<>>
    /\ news' = <<Create(complete)>>
    /\ spent' = spent + 1
    /\ UNCHANGED <<server, reach, cache, requests, permits, results, overtaken>>

\* An event after which the cache does not hold the roles it held.
TellsRoles(event) ==
    \/ event.kind \in {"member", "create", "gone"}
    \/ event.kind = "voice" /\ event.user = Bot

\* The main loop applies the next event.
Deliver ==
    /\ news # <<>>
    /\ cache' \in AfterEvent(cache, Head(news))
    /\ news' = Tail(news)
    /\ overtaken' = (overtaken /\ ~TellsRoles(Head(news)))
    /\ UNCHANGED <<server, reach, spent, requests, permits, results>>

\* The session says what it does.
Publish(activity) ==
    /\ spent < MaxEvents
    /\ cache # None /\ activity # cache.activity
    /\ cache' = [cache EXCEPT !.activity = activity]
    /\ spent' = spent + 1
    /\ UNCHANGED <<server, reach, news, requests, permits, results, overtaken>>

-----------------------------------------------------------------------------
(* Requests.                                                               *)

Becomes(r, request) == requests' = [requests EXCEPT ![r] = request]

Goes(r, stage) == Becomes(r, [requests[r] EXCEPT !.stage = stage])

Take == permits > 0 /\ permits' = permits - 1
Return(r) == permits' = IF r \in Suggests THEN permits + 1 ELSE permits

\* ensure_bot_membership asks Discord; autocomplete first looks whether it is
\* of use.
Missing(r, user) ==
    /\ cache # None /\ cache.available /\ cache.bot_roles = None
    /\ r \in Suggests => \E c \in Channels : CallerIn(cache, user, c)

\* An autocomplete, for anything but a link, or a /play.
Arrives(r, user, text) ==
    LET goes(stage) == Becomes(r, [requests[r] EXCEPT !.stage = stage, !.user = user, !.text = text])
    IN  /\ requests[r].stage = "new" /\ spent < MaxEvents
        /\ spent' = spent + 1
        /\ r \in Suggests => Classify(Texts[text]) = "search"
        /\ IF ~Missing(r, user) THEN goes("checking") /\ UNCHANGED permits
           ELSE IF r \in Plays THEN goes("fetching") /\ UNCHANGED permits
           ELSE \/ Take /\ goes("fetching")
                \/ permits = 0 /\ goes("done") /\ UNCHANGED permits
        /\ UNCHANGED <<discord, cache, results, overtaken>>

\* Discord answers with the roles the bot has now.
MemberServed(r) ==
    /\ requests[r].stage = "fetching" /\ requests[r].member = None /\ reach # "gone"
    /\ Becomes(r, [requests[r] EXCEPT !.member = server.bot_roles])
    /\ UNCHANGED <<discord, spent, cache, permits, results, overtaken>>

MemberArrives(r) ==
    /\ requests[r].stage = "fetching" /\ requests[r].member # None
    /\ cache' = IF cache = None THEN None ELSE WithMember(cache, requests[r].member)
    /\ overtaken' = (/\ cache # None
                     /\ requests[r].member # server.bot_roles
                     /\ \A i \in DOMAIN news : ~TellsRoles(news[i]))
    /\ Return(r)
    /\ Goes(r, "checking")
    /\ UNCHANGED <<discord, spent, results>>

\* /play goes on without.
FetchFails(r) ==
    /\ requests[r].stage = "fetching"
    /\ Return(r)
    /\ Goes(r, IF r \in Suggests THEN "done" ELSE "checking")
    /\ UNCHANGED <<discord, spent, cache, results, overtaken>>

\* The channel the cache admits the caller in; no choices are offered where
\* the session plays in another one, or can take no more.
Allowed(r) ==
    {c \in Channels :
        /\ cache # None /\ Admits(cache, requests[r].user, c)
        /\ r \in Suggests =>
             /\ cache.available /\ ~cache.activity.full
             /\ cache.activity.channel \in {None, c}}

\* Mutant: one entry for all channels of the server.
KeyOfServer(channel, text) == <<CHOOSE c \in Channels : TRUE, Lower[text]>>

Key(channel, text) == <<channel, Lower[text]>>

Fresh(f) == [k \in {k \in DOMAIN f : f[k].age < LIFETIME} |-> f[k]]

Denied(r) ==
    /\ requests[r].stage = "checking" /\ Allowed(r) = {}
    /\ Goes(r, "done")
    /\ UNCHANGED <<discord, spent, cache, permits, results, overtaken>>

\* A caller with access gets the choices somebody found before.
FromCache(r) ==
    /\ requests[r].stage = "checking" /\ r \in Suggests
    /\ \E c \in Allowed(r) :
          LET key == Key(c, requests[r].text)
          IN  /\ key \in DOMAIN Fresh(results)
              /\ Becomes(r, [requests[r] EXCEPT !.stage = "done", !.channel = c,
                                                !.offered = results[key]])
    /\ UNCHANGED <<discord, spent, cache, permits, results, overtaken>>

\* Autocomplete searches with a permit, or gives up; /play is told what room
\* the queue has.
Searches(r) ==
    /\ requests[r].stage = "checking"
    /\ \E c \in Allowed(r) :
          IF r \in Plays
          THEN /\ \E capacity \in 0..QUEUE_LIMIT :
                     Becomes(r, [requests[r] EXCEPT !.stage = "first", !.channel = c,
                                                    !.capacity = capacity])
               /\ UNCHANGED permits
          ELSE /\ Key(c, requests[r].text) \notin DOMAIN Fresh(results)
               /\ \/ /\ Take
                     /\ Becomes(r, [requests[r] EXCEPT !.stage = "first", !.channel = c])
                  \/ permits = 0 /\ Goes(r, "done") /\ UNCHANGED permits
    /\ UNCHANGED <<discord, spent, cache, results, overtaken>>

-----------------------------------------------------------------------------
(* resolve: YouTube Music first, then YouTube, for a search; one request   *)
(* for a link.                                                             *)

Input(r) == Classify(Texts[requests[r].text])

\* Autocomplete asks for ten, /play takes the first; a link fills the queue.
Capacity(r) ==
    IF r \in Suggests THEN 10
    ELSE IF Input(r) = "search" THEN Least(requests[r].capacity, 1)
    ELSE requests[r].capacity

\* What comes of an answer, or of none.
Outcome(r, answer) ==
    IF answer = None THEN Failed("unavailable")
    ELSE Normalize(answer, Input(r) = "playlist", Input(r) = "search", Capacity(r))

\* The keys that stay when an entry is stored: a full cache loses an oldest one.
Kept(f) ==
    IF Cardinality(DOMAIN f) < RESULTS THEN {DOMAIN f}
    ELSE {DOMAIN f \ {k} : k \in {k \in DOMAIN f : \A l \in DOMAIN f : f[l].age <= f[k].age}}

Store(r) ==
    LET key == Key(requests[r].channel, requests[r].text)
        entry == [channel |-> requests[r].channel, text |-> requests[r].text, age |-> 0]
    IN  \E kept \in Kept(Fresh(results)) :
           results' = [k \in kept \union {key} |-> IF k = key THEN entry ELSE results[k]]

\* The search is over with that resolution.
Resolved(r, answer, resolution) ==
    /\ Return(r)
    /\ \/ /\ r \in Suggests /\ resolution.failure = "none"
          /\ Store(r)
          /\ Becomes(r, [requests[r] EXCEPT !.stage = "done",
                            !.offered = [channel |-> requests[r].channel,
                                         text |-> requests[r].text, age |-> 0]])
       \/ /\ r \in Suggests /\ resolution.failure # "none"
          /\ Goes(r, "done") /\ UNCHANGED results
       \/ /\ r \in Plays
          /\ Becomes(r, [requests[r] EXCEPT !.stage = "done", !.answer = answer,
                                            !.resolution = resolution])
          /\ UNCHANGED results

Unresolvable(r) ==
    /\ requests[r].stage = "first"
    /\ Input(r) = "unsupported"
    /\ Resolved(r, None, Failed("unsupported"))
    /\ UNCHANGED <<discord, spent, cache, overtaken>>

Answered(r, answer) ==
    LET resolution == Outcome(r, answer)
        again == /\ requests[r].stage = "first" /\ Input(r) = "search"
                 /\ resolution.failure # "none"
    IN  /\ requests[r].stage \in {"first", "second"}
        /\ Input(r) # "unsupported"
        /\ IF again
           THEN Goes(r, "second") /\ UNCHANGED <<permits, results>>
           ELSE Resolved(r, answer, resolution)
        /\ UNCHANGED <<discord, spent, cache, overtaken>>

\* Mutant: what the budget cut short keeps its permit.
OutOfTimeKeepsPermit(r) ==
    /\ r \in Suggests
    /\ requests[r].stage \in {"fetching", "first", "second"}
    /\ Goes(r, "done")
    /\ UNCHANGED <<discord, spent, cache, permits, results, overtaken>>

\* The budget of an autocomplete, 1.9 seconds, ends it wherever it waits.
OutOfTime(r) ==
    /\ r \in Suggests
    /\ requests[r].stage \in {"fetching", "first", "second"}
    /\ Return(r)
    /\ Goes(r, "done")
    /\ UNCHANGED <<discord, spent, cache, results, overtaken>>

\* Entries age.
Tick ==
    /\ \E k \in DOMAIN results : results[k].age < LIFETIME
    /\ results' = [k \in DOMAIN results |->
                     [results[k] EXCEPT !.age = IF @ < LIFETIME THEN @ + 1 ELSE @]]
    /\ UNCHANGED <<discord, spent, cache, requests, permits, overtaken>>

-----------------------------------------------------------------------------

Discord ==
    \/ \E u \in Users, place \in Channels \union {None} : UserMoves(u, place)
    \/ \E u \in {Bot} \union (Users \ Bots) : OwnerSet(u)
    \/ \E held \in SUBSET (Roles \ {Everyone}) : RolesGiven(held)
    \/ \E c \in Channels : ChannelGone(c) \/ \E access \in Accesses : ChannelSet(c, access)
    \/ \E r \in Roles : RoleGone(r) \/ \E power \in Powers : RoleSet(r, power)
    \/ Lost("down", "unavailable") \/ Lost("gone", "gone")
    \/ \E complete \in BOOLEAN : Back(complete) \/ NewSession(complete)

Proceeds(r) ==
    \/ \E user \in Users \ Bots, text \in DOMAIN Texts : Arrives(r, user, text)
    \/ MemberServed(r) \/ MemberArrives(r) \/ FetchFails(r)
    \/ Denied(r) \/ FromCache(r) \/ Searches(r) \/ Unresolvable(r)
    \/ \E answer \in Answers \union {None} : Answered(r, answer)
    \/ OutOfTime(r)

Next ==
    \/ Discord \/ Deliver \/ Tick
    \/ \E c \in Channels, full \in BOOLEAN : Publish([channel |-> c, full |-> full])
    \/ \E r \in Requests : Proceeds(r)

Spec == Init /\ [][Next]_vars

-----------------------------------------------------------------------------
(* Properties.                                                             *)

\* Requests that hold a permit.
Holders ==
    {r \in Suggests : requests[r].stage \in {"fetching", "first", "second"}}

\* Every variable has its type; every permit is free or held by one request;
\* the result cache has its limit.
TypeOK ==
    /\ server \in Server
    /\ reach \in {"up", "down", "gone"}
    /\ news \in Seq(Event) /\ Len(news) <= MaxNews
    /\ cache \in Guild \union {None}
    /\ cache # None => Cardinality(Present(cache.voices)) <= MAX_VOICE_MEMBERS
    /\ requests \in [Requests -> Request]
    /\ permits \in 0..SEARCHES /\ permits + Cardinality(Holders) = SEARCHES
    /\ DOMAIN results \subseteq Keys /\ Cardinality(DOMAIN results) <= RESULTS
    /\ \A k \in DOMAIN results : results[k] \in Offer
    /\ spent \in 0..MaxEvents
    /\ overtaken \in BOOLEAN

\* Discord lets the bot speak in that channel, and the caller is in it.
MayPlay(caller, c) ==
    /\ CallerIn(server, caller, c)
    /\ \A p \in Needed :
          Granted(p, Bot, server.owner, server.bot_roles, server.roles, server.channels[c])
    /\ ~Full(server, c)

(***************************************************************************)
(* When every event is delivered, the cache admits exactly those whom      *)
(* Discord would let have music, whatever order, outage or new session it  *)
(* learnt of it by ("Hydrate the same roles used by /play", runtime.rs),   *)
(* and nobody who listens is overlooked.  The one exception the code has   *)
(* is a fetched membership that arrives after a newer one was told.        *)
(***************************************************************************)
AccessFollowsDiscord ==
    news = <<>> /\ reach = "up" =>
        /\ cache.available
        /\ cache.bot_roles # None /\ ~overtaken =>
             \A u \in Users, c \in Channels : Admits(cache, u, c) <=> MayPlay(u, c)
        /\ \A c \in Channels : Alone(cache, c) => Within(server, c) \subseteq Bots

\* Choices offered to a caller were found for those words in the channel the
\* caller has access to, less than thirty seconds before ("A query can
\* otherwise reuse a result while the caller is in a different voice
\* session", runtime.rs).
ChoicesAreTheirs ==
    \A r \in Requests :
        LET offer == requests[r].offered
        IN  offer # None =>
                /\ offer.channel = requests[r].channel
                /\ Lower[offer.text] = Lower[requests[r].text]
                /\ offer.age < LIFETIME

(***************************************************************************)
(* A resolution takes the first playable tracks up to what the queue, the  *)
(* playlist limit or the single request leaves room for, one bad track     *)
(* spoils none of the others, and nothing of a playlist goes uncounted;    *)
(* it fails only if there was no room or nothing playable.                 *)
(***************************************************************************)
ResolutionKeepsPolicy ==
    \A r \in Requests :
        LET answer == requests[r].answer
            found == requests[r].resolution
            good == {i \in DOMAIN answer.tracks :
                        Playable(answer.tracks[i], Input(r) = "search")}
            room == Limit(Input(r) = "playlist", Input(r) = "search", Capacity(r))
        IN  answer # None =>
                /\ Len(found.tracks) = Least(Cardinality(good), room)
                /\ \A i \in good :
                      LET place == Cardinality({j \in good : j <= i})
                      IN  place <= room => found.tracks[place] = answer.tracks[i]
                /\ Len(found.tracks) <= requests[r].capacity
                /\ found.failure = "none" /\ Input(r) = "playlist" =>
                     Len(found.tracks) + found.rejected + found.omitted = Len(answer.tracks)
                /\ found.failure # "none" => room = 0 \/ good = {}
=============================================================================

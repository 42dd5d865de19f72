----------------------------- MODULE VoiceAccess -----------------------------
(***************************************************************************)
(* What the voice cache keeps of a server (Guild in src/src/voice.rs), how *)
(* the gateway's events change it (Cache::update), and what it decides:    *)
(* whether the bot may join the channel somebody is in.                    *)
(***************************************************************************)
EXTENDS Naturals, FiniteSets

CONSTANTS
    Users, Bot,        \* Bot is one of Users
    Channels,
    Roles, Everyone,   \* the role of everyone, whose id is the server's
    None,              \* no channel, no membership, no server
    MAX_VOICE_MEMBERS  \* 10000

ASSUME AccessAssumption ==
    /\ Bot \in Users /\ Everyone \in Roles
    /\ IsFiniteSet(Users) /\ MAX_VOICE_MEMBERS \in Nat

\* The permissions that count; the other bits change nothing here.
Permissions == {"administrator", "view", "connect", "speak"}

Needed == {"view", "connect", "speak"}

\* A role or member that a channel does not mention has an empty overwrite.
Overwrite == [allow: SUBSET Permissions, deny: SUBSET Permissions]

NoOverwrite == [allow |-> {}, deny |-> {}]

\* A user_limit of 0 is none.
ChannelAccess ==
    [kind: {"voice", "other"}, user_limit: Nat,
     of_role: [Roles -> Overwrite], of_member: [Users -> Overwrite]]

Voice == [channel: Channels, bot: BOOLEAN]

\* What the session publishes for autocomplete: its channel, and whether it
\* can take no more tracks or requests.
Activity == [channel: Channels \union {None}, full: BOOLEAN]

NoActivity == [channel |-> None, full |-> FALSE]

\* Guild, but for the server that voice is connected to.  A map has None for
\* a key it lacks.
Guild ==
    [available: BOOLEAN, owner: Users,
     channels: [Channels -> {None} \union ChannelAccess],
     roles: [Roles -> {None} \union SUBSET Permissions],
     bot_roles: {None} \union SUBSET Roles,
     voices: [Users -> {None} \union Voice], activity: Activity]

Member == [bot: BOOLEAN, roles: SUBSET Roles]

\* What Discord has of it, and says when the bot comes.
Server ==
    [owner: Users,
     channels: [Channels -> {None} \union ChannelAccess],
     roles: [Roles -> {None} \union SUBSET Permissions],
     bot_roles: SUBSET Roles,
     voices: [Users -> {None} \union Voice]]

\* None is none of what it stands in for.
ASSUME NoneAssumption ==
    /\ None \notin Channels \union Users \union ChannelAccess \union Voice \union Member \union Guild
    /\ \A held \in SUBSET Roles : None # held
    /\ \A power \in SUBSET Permissions : None # power

-----------------------------------------------------------------------------
(* Permissions of a member in a channel (permissions).                     *)

OfRole(roles, r) == IF roles[r] # None THEN roles[r] ELSE {}

Base(held, roles) == UNION {OfRole(roles, r) : r \in held \union {Everyone}}

Overwritten(value, deny, allow) == (value \ deny) \union allow

ForEveryone(held, roles, channel) ==
    Overwritten(Base(held, roles),
                channel.of_role[Everyone].deny, channel.of_role[Everyone].allow)

\* Mutant: the roles' overwrites are applied one layer, allow before deny.
ForRolesDenied(held, roles, channel) ==
    (ForEveryone(held, roles, channel)
       \union UNION {channel.of_role[r].allow : r \in held})
    \ UNION {channel.of_role[r].deny : r \in held}

\* All roles of the member together: one that allows prevails.
ForRoles(held, roles, channel) ==
    Overwritten(ForEveryone(held, roles, channel),
                UNION {channel.of_role[r].deny : r \in held},
                UNION {channel.of_role[r].allow : r \in held})

PermissionsOf(user, owner, held, roles, channel) ==
    IF user = owner \/ "administrator" \in Base(held, roles) THEN Permissions
    ELSE Overwritten(ForRoles(held, roles, channel),
                     channel.of_member[user].deny, channel.of_member[user].allow)

(***************************************************************************)
(* The permission p in a channel, told from the most specific voice that   *)
(* says anything: the member, any role that allows, any that denies,       *)
(* everyone, and last the roles' own permissions.                          *)
(***************************************************************************)
Granted(p, user, owner, held, roles, channel) ==
    LET base == \E r \in held \union {Everyone} : p \in OfRole(roles, r)
        common == channel.of_role[Everyone]
        own == channel.of_member[user]
    IN  \/ user = owner
        \/ \E r \in held \union {Everyone} : "administrator" \in OfRole(roles, r)
        \/ p \in own.allow
        \/ /\ p \notin own.deny
           /\ \/ \E r \in held : p \in channel.of_role[r].allow
              \/ /\ \A r \in held : p \notin channel.of_role[r].deny
                 /\ p \in common.allow \/ (p \notin common.deny /\ base)

-----------------------------------------------------------------------------
(* Decisions.                                                              *)

\* The users who are in a voice channel, and those who are in this one.
Present(voices) == {u \in Users : voices[u] # None}

Within(g, channel) == {u \in Present(g.voices) : g.voices[u].channel = channel}

\* caller_channel: the caller is in that voice channel.
CallerIn(g, caller, channel) ==
    /\ caller \in Within(g, channel)
    /\ g.channels[channel] # None
    /\ g.channels[channel].kind = "voice"

Full(g, channel) ==
    /\ g.channels[channel].user_limit > 0
    /\ Cardinality(Within(g, channel)) >= g.channels[channel].user_limit
    /\ Bot \notin Within(g, channel)

\* access: the caller is there, and the bot may be.
Admits(g, caller, channel) ==
    /\ CallerIn(g, caller, channel)
    /\ g.bot_roles # None
    /\ Needed \subseteq
         PermissionsOf(Bot, g.owner, g.bot_roles, g.roles, g.channels[channel])
    /\ ~Full(g, channel)

\* alone: nobody listens but bots.
Alone(g, channel) == \A u \in Within(g, channel) : g.voices[u].bot

-----------------------------------------------------------------------------
(* Cache::update.  An event carries what Discord said; an unknown server   *)
(* ignores all but its creation.                                           *)

WithMember(g, held) == [g EXCEPT !.bot_roles = held]

\* A member of None: Discord did not say who the user is.
IsBot(g, user, member) ==
    \/ user = Bot
    \/ IF member # None THEN member.bot
       ELSE g.voices[user] # None /\ g.voices[user].bot

\* Guild::voice; beyond the limit, users who come are not noticed.
Voiced(g, user, channel, member) ==
    LET known == IF user = Bot /\ member # None THEN WithMember(g, member.roles) ELSE g
        state == [channel |-> channel, bot |-> IsBot(g, user, member)]
    IN  IF channel = None THEN [known EXCEPT !.voices[user] = None]
        ELSE IF g.voices[user] # None \/ Cardinality(Present(g.voices)) < MAX_VOICE_MEMBERS
        THEN [known EXCEPT !.voices[user] = state]
        ELSE known

(***************************************************************************)
(* GUILD_CREATE replaces what was known.  The bot may be missing among the *)
(* members, the voice states say nothing of who is a bot, and the list is  *)
(* taken in the order it comes, up to the limit.                           *)
(***************************************************************************)
AtMost(n, limit) == IF n <= limit THEN n ELSE limit

Noticed(voices) ==
    {S \in SUBSET Present(voices) :
        Cardinality(S) = AtMost(Cardinality(Present(voices)), MAX_VOICE_MEMBERS)}

Created(server, complete) ==
    {[available |-> TRUE, owner |-> server.owner,
      channels |-> server.channels, roles |-> server.roles,
      bot_roles |-> IF complete THEN server.bot_roles ELSE None,
      voices |-> [u \in Users |->
                    IF u \in S THEN [channel |-> server.voices[u].channel, bot |-> u = Bot]
                    ELSE None],
      activity |-> NoActivity] : S \in Noticed(server.voices)}

\* Every other event, applied to a server that is known.
Updated(g, event) ==
    CASE event.kind = "unavailable" -> [g EXCEPT !.available = FALSE]
      [] event.kind = "owner" -> [g EXCEPT !.owner = event.owner]
      [] event.kind = "channel" -> [g EXCEPT !.channels[event.channel] = event.access]
      [] event.kind = "channelGone" -> [g EXCEPT !.channels[event.channel] = None]
      [] event.kind = "role" -> [g EXCEPT !.roles[event.role] = event.permissions]
      [] event.kind = "roleGone" -> [g EXCEPT !.roles[event.role] = None]
      [] event.kind = "member" -> WithMember(g, event.roles)
      [] event.kind = "voice" -> Voiced(g, event.user, event.channel, event.member)

\* What the cache may hold after an event.
AfterEvent(g, event) ==
    IF event.kind = "create" THEN Created(event.server, event.complete)
    ELSE IF event.kind = "gone" \/ g = None THEN {None}
    ELSE {Updated(g, event)}
=============================================================================

------------------------------ MODULE Runtime -------------------------------
(***************************************************************************)
(* The service's main loop (run in src/src/runtime.rs) with the guild      *)
(* actors it spawns, the mailboxes between them, the tasks that answer     *)
(* Discord (acknowledge and reject in src/src/discord.rs) and the orderly  *)
(* end.  What an actor does with a message is GuildSession's matter; here  *)
(* it is busy for a while.                                                 *)
(*                                                                         *)
(* One second is a Tick.  Timers are assumed to be served when they are    *)
(* due, and a task to be polled in the second it is spawned.               *)
(***************************************************************************)
EXTENDS Integers, FiniteSets, SequencesExt

CONSTANTS
    Guilds, Interactions,
    None,            \* no interaction, no guild
    Notice,          \* a mailbox message that is not an interaction
    MAX_GUILDS,      \* actors at a time, and servers in the cache; 1000
    MAILBOX,         \* capacity of an actor's mailbox; 128
    JOBS,            \* acknowledgements and autocompletes at a time; 128
    REJECTIONS,      \* refusals being delivered at a time; 16
    DEFER_TIME,      \* acknowledge's deadline; 3 seconds
    LOOKUP_TIME,     \* its lookup of the original response; 1 second
    ACK_WAIT         \* the actor's wait for the acknowledgement; 5 seconds

ASSUME LimitsAssumption ==
    /\ MAX_GUILDS \in Nat /\ JOBS \in Nat /\ REJECTIONS \in Nat
    /\ MAILBOX \in Nat \ {0}
    /\ DEFER_TIME \in Nat /\ LOOKUP_TIME \in Nat /\ ACK_WAIT \in Nat

\* The actor's wait includes the lookup, with a second to spare.
ASSUME AckBudget == DEFER_TIME + LOOKUP_TIME < ACK_WAIT

ASSUME ValuesAssumption ==
    /\ None \notin Guilds \union Interactions
    /\ Notice \notin Interactions
    /\ IsFiniteSet(Interactions)

VARIABLES
    phase,       \* the loop, and the stages of the shutdown
    cancelled,   \* the token every part of the service watches
    cache,       \* what the voice cache holds of a server
    guilds,      \* the servers with a mailbox in the loop's map
    actor,       \* the actor task of a server
    mailbox,     \* messages the actor has not received
    waits,       \* the interaction whose acknowledgement it awaits
    patience,    \* seconds left of that wait
    job,         \* the task of an interaction
    left,        \* seconds left of that task's current request
    fate,        \* history: what became of an interaction
    told,        \* what Discord holds as its initial response
    executed     \* history: the interactions actors executed, in order

loopvars == <<phase, cancelled>>
actorvars == <<guilds, actor, mailbox, waits, patience>>
jobvars == <<job, left, told>>
vars == <<loopvars, cache, actorvars, jobvars, fate, executed>>

\* The servers the cache holds.
Cached == {g \in Guilds : cache[g] # "absent"}

(***************************************************************************)
(* The JoinSets of the loop: acknowledgements and autocompletes, and the   *)
(* refusals.  The model joins a task when it finishes; the loop does so in *)
(* one of its next turns and counts the task until then.                   *)
(***************************************************************************)
Jobs == {i \in Interactions : job[i] \in {"deferring", "verifying", "suggesting"}}
Rejections == {i \in Interactions : job[i] = "rejecting"}

\* The gateway has reported some servers and no interaction yet.
Init ==
    /\ phase = "running" /\ cancelled = FALSE
    /\ cache \in [Guilds -> {"absent", "available"}]
    /\ Cardinality(Cached) <= MAX_GUILDS
    /\ guilds = {}
    /\ actor = [g \in Guilds |-> "none"]
    /\ mailbox = [g \in Guilds |-> <<>>]
    /\ waits = [g \in Guilds |-> None]
    /\ patience = [g \in Guilds |-> 0]
    /\ job = [i \in Interactions |-> "none"]
    /\ left = [i \in Interactions |-> 0]
    /\ fate = [i \in Interactions |-> "new"]
    /\ told = [i \in Interactions |-> "nothing"]
    /\ executed = <<>>

-----------------------------------------------------------------------------
(* Leaving the loop: the token is cancelled for everybody.                 *)

End == phase' = "aborting" /\ cancelled' = TRUE

\* main cancels the token on a signal; the loop sees it in a later turn.
Signal == ~cancelled /\ cancelled' = TRUE
          /\ UNCHANGED <<phase, cache, actorvars, jobvars, fate, executed>>

LoopCancelled ==
    /\ phase = "running" /\ cancelled
    /\ End
    /\ UNCHANGED <<cache, actorvars, jobvars, fate, executed>>

\* The gateway or the stream of music events is gone for good.
SourceEnds ==
    /\ phase = "running"
    /\ End
    /\ UNCHANGED <<cache, actorvars, jobvars, fate, executed>>

-----------------------------------------------------------------------------
(* Mailboxes.  A receiver lives as long as its actor's task.               *)

Alive(g) == actor[g] \in {"idle", "waiting", "busy", "leaving"}

Room(g) == Alive(g) /\ Len(mailbox[g]) < MAILBOX

\* A notice for each server of S.
Notify(S) ==
    mailbox' = [g \in Guilds |-> IF g \in S THEN Append(mailbox[g], Notice)
                                 ELSE mailbox[g]]

\* Invalidated and Connected go to every actor; the first that cannot take
\* the message ends the service.
Broadcast ==
    /\ phase = "running"
    /\ \/ /\ \A g \in guilds : Room(g)
          /\ Notify(guilds)
          /\ UNCHANGED loopvars
       \/ /\ \E g \in guilds : ~Room(g)
          /\ \E S \in SUBSET {g \in guilds : Room(g)} : Notify(S)
          /\ End
    /\ UNCHANGED <<cache, guilds, actor, waits, patience, jobvars, fate, executed>>

\* An event of one server's player.
Payload(g) ==
    /\ phase = "running" /\ g \in guilds
    /\ IF Room(g) THEN Notify({g}) /\ UNCHANGED loopvars
                  ELSE End /\ UNCHANGED mailbox
    /\ UNCHANGED <<cache, guilds, actor, waits, patience, jobvars, fate, executed>>

(***************************************************************************)
(* A gateway event about g, after which the cache holds `then`, and which  *)
(* `tells` the actor (VoiceChanged; a full mailbox is ignored).            *)
(***************************************************************************)
CacheEvent(g, then, tells) ==
    /\ phase = "running"
    /\ cache' = [cache EXCEPT ![g] = then]
    /\ IF tells /\ g \in guilds /\ Room(g) THEN Notify({g}) ELSE UNCHANGED mailbox
    /\ UNCHANGED <<loopvars, guilds, actor, waits, patience, jobvars, fate, executed>>

\* GUILD_CREATE; a server beyond the limit is ignored.
GuildCreated(g) ==
    /\ g \in Cached \/ Cardinality(Cached) < MAX_GUILDS
    /\ CacheEvent(g, "available", TRUE)

\* An outage, told by GUILD_DELETE or by an unavailable GUILD_CREATE.
GuildUnavailable(g) ==
    /\ g \in Cached
    /\ \E tells \in BOOLEAN : CacheEvent(g, "unavailable", tells)

\* VOICE_STATE_UPDATE and VOICE_SERVER_UPDATE, also of a server that is gone.
VoiceEvent(g) == CacheEvent(g, cache[g], TRUE)

GuildDeleted(g) == CacheEvent(g, "absent", TRUE)

-----------------------------------------------------------------------------
(* An interaction arrives.                                                 *)

\* Mutant: a refusal beyond the reserved lane waits in it all the same.
RejectWithoutLimit(i) ==
    /\ job' = [job EXCEPT ![i] = "rejecting"]
    /\ fate' = [fate EXCEPT ![i] = "aside"]

\* A refusal is delivered by a task of its own, or not at all.
Reject(i) ==
    /\ fate' = [fate EXCEPT ![i] = "aside"]
    /\ IF Cardinality(Rejections) < REJECTIONS
       THEN job' = [job EXCEPT ![i] = "rejecting"] ELSE UNCHANGED job

\* What refuses an interaction about server g, in the code's order: an
\* autocomplete request only the first two; of commands and components, also
\* those that are `denied` to their caller.
Refusable(g, suggest, denied) ==
    \/ g = None
    \/ Cardinality(Jobs) >= JOBS
    \/ /\ g \in Guilds /\ ~suggest
       /\ \/ denied \/ cache[g] # "available"
          \/ g \notin guilds /\ Cardinality(guilds) >= MAX_GUILDS
          \/ g \in guilds /\ ~Room(g)

\* An interaction about server g, or about none (a direct message).
Refused(i) ==
    /\ phase = "running" /\ fate[i] = "new"
    /\ \E g \in Guilds \union {None} : \E suggest, denied \in BOOLEAN :
           Refusable(g, suggest, denied)
    /\ Reject(i)
    /\ UNCHANGED <<loopvars, cache, actorvars, left, told, executed>>

\* Autocomplete is answered by a task beside the actor.
Suggest(i) ==
    /\ phase = "running" /\ fate[i] = "new"
    /\ \E g \in Guilds : ~Refusable(g, TRUE, FALSE)
    /\ job' = [job EXCEPT ![i] = "suggesting"]
    /\ fate' = [fate EXCEPT ![i] = "aside"]
    /\ UNCHANGED <<loopvars, cache, actorvars, left, told, executed>>

\* The server's actor is spawned on its first interaction.
TakenOn(i, g) ==
    /\ phase = "running" /\ fate[i] = "new" /\ ~Refusable(g, FALSE, FALSE)
    /\ guilds' = guilds \union {g}
    /\ actor' = [actor EXCEPT ![g] = IF g \in guilds THEN @ ELSE "idle"]
    /\ mailbox' = [mailbox EXCEPT ![g] = Append(@, i)]
    /\ job' = [job EXCEPT ![i] = "deferring"]
    /\ left' = [left EXCEPT ![i] = DEFER_TIME]
    /\ fate' = [fate EXCEPT ![i] = "queued"]
    /\ UNCHANGED <<loopvars, cache, waits, patience, told, executed>>

-----------------------------------------------------------------------------
(* The tasks that answer Discord.                                          *)

JobStep(i, after, time) ==
    /\ job' = [job EXCEPT ![i] = after]
    /\ left' = [left EXCEPT ![i] = time]
    /\ UNCHANGED <<loopvars, cache, actorvars, fate, executed>>

Tell(i, words) == told' = [told EXCEPT ![i] = words]

\* Discord accepts the deferral and says so.
Deferred(i) ==
    /\ job[i] = "deferring" /\ told[i] = "nothing"
    /\ Tell(i, "deferred")
    /\ JobStep(i, "confirmed", 0)

\* Discord refuses for good: an error of the request itself.
DeferRefused(i) ==
    /\ job[i] = "deferring"
    /\ JobStep(i, "refused", 0)
    /\ UNCHANGED told

\* Mutant: the lookup has the deadline of the deferral on top of its own.
SlowLookup(i) ==
    /\ job[i] = "deferring"
    /\ told' = told \/ Tell(i, "deferred")
    /\ JobStep(i, "verifying", DEFER_TIME + LOOKUP_TIME)

\* Mutant: a request without an answer counts as accepted.
PresumedDeferred(i) ==
    /\ job[i] = "deferring"
    /\ told' = told \/ Tell(i, "deferred")
    /\ JobStep(i, "confirmed", 0)

\* No answer within the deadline, or one that says nothing of acceptance (a
\* broken connection, a server error, "already acknowledged").
DeferAmbiguous(i) ==
    /\ job[i] = "deferring"
    /\ told' = told \/ Tell(i, "deferred")
    /\ JobStep(i, "verifying", LOOKUP_TIME)

\* One lookup of the original response decides.
Verified(i) ==
    /\ job[i] = "verifying" /\ told[i] = "deferred"
    /\ JobStep(i, "confirmed", 0)
    /\ UNCHANGED told

Unverified(i) ==
    /\ job[i] = "verifying"
    /\ JobStep(i, "unconfirmed", 0)
    /\ UNCHANGED told

\* The initial response each task of i asks Discord for.
Reply(i) == IF fate[i] = "aside" THEN "answer" ELSE "deferred"

\* A refusal or choices, delivered or not.
Replied(i) ==
    /\ job[i] \in {"suggesting", "rejecting"}
    /\ told' = told \/ Tell(i, Reply(i))
    /\ JobStep(i, "answered", 0)

\* A deferral that was given up reaches Discord after all.
LateDeferral(i) ==
    /\ told[i] = "nothing" /\ job[i] \in {"verifying", "unconfirmed"}
    /\ Tell(i, "deferred")
    /\ UNCHANGED <<loopvars, cache, actorvars, job, left, fate, executed>>

-----------------------------------------------------------------------------
(* The actors.                                                             *)

\* At the end of every turn the actor leaves a server that is gone.
AfterTurn(g) == IF cache[g] = "absent" THEN "leaving" ELSE "idle"

Receive(g) ==
    /\ actor[g] = "idle" /\ mailbox[g] # <<>>
    /\ mailbox' = [mailbox EXCEPT ![g] = Tail(@)]
    /\ IF Head(mailbox[g]) = Notice
       THEN actor' = [actor EXCEPT ![g] = "busy"] /\ UNCHANGED <<waits, patience>>
       ELSE /\ actor' = [actor EXCEPT ![g] = "waiting"]
            /\ waits' = [waits EXCEPT ![g] = Head(mailbox[g])]
            /\ patience' = [patience EXCEPT ![g] = ACK_WAIT]
    /\ UNCHANGED <<loopvars, cache, guilds, jobvars, fate, executed>>

Execute(g) ==
    /\ actor[g] = "waiting" /\ job[waits[g]] = "confirmed"
    /\ actor' = [actor EXCEPT ![g] = "busy"]
    /\ fate' = [fate EXCEPT ![waits[g]] = "executed"]
    /\ executed' = Append(executed, waits[g])
    /\ waits' = [waits EXCEPT ![g] = None]
    /\ patience' = [patience EXCEPT ![g] = 0]
    /\ UNCHANGED <<loopvars, cache, guilds, mailbox, jobvars>>

\* Mutant: only an answer ends the wait, not a task that is gone or too late.
DiscardRefused(g) ==
    /\ actor[g] = "waiting" /\ job[waits[g]] = "refused"
    /\ actor' = [actor EXCEPT ![g] = AfterTurn(g)]
    /\ fate' = [fate EXCEPT ![waits[g]] = "discarded"]
    /\ waits' = [waits EXCEPT ![g] = None]
    /\ patience' = [patience EXCEPT ![g] = 0]
    /\ UNCHANGED <<loopvars, cache, guilds, mailbox, jobvars, executed>>

\* The task said no, is gone, or is still undecided when the wait is over.
Discard(g) ==
    /\ actor[g] = "waiting"
    /\ \/ job[waits[g]] \in {"unconfirmed", "refused", "aborted"}
       \/ patience[g] = 0 /\ job[waits[g]] # "confirmed"
    /\ actor' = [actor EXCEPT ![g] = AfterTurn(g)]
    /\ fate' = [fate EXCEPT ![waits[g]] = "discarded"]
    /\ waits' = [waits EXCEPT ![g] = None]
    /\ patience' = [patience EXCEPT ![g] = 0]
    /\ UNCHANGED <<loopvars, cache, guilds, mailbox, jobvars, executed>>

\* A handler returns.
HandlerEnds(g) ==
    /\ actor[g] = "busy"
    /\ actor' = [actor EXCEPT ![g] = AfterTurn(g)]
    /\ UNCHANGED <<loopvars, cache, guilds, mailbox, waits, patience, jobvars, fate, executed>>

\* The token, or a tick in a server that is gone.
Leave(g) ==
    /\ actor[g] = "idle" /\ (cancelled \/ cache[g] = "absent")
    /\ actor' = [actor EXCEPT ![g] = "leaving"]
    /\ UNCHANGED <<loopvars, cache, guilds, mailbox, waits, patience, jobvars, fate, executed>>

\* The interactions an actor of g has received and not yet decided, and those
\* still in its mailbox.
Undecided(g) == (ToSet(mailbox[g]) \union {waits[g]}) \ {Notice, None}

\* The task of the actor is over and its mailbox is dropped with all it holds.
TaskEnds(g, after) ==
    /\ actor' = [actor EXCEPT ![g] = after]
    /\ mailbox' = [mailbox EXCEPT ![g] = <<>>]
    /\ waits' = [waits EXCEPT ![g] = None]
    /\ patience' = [patience EXCEPT ![g] = 0]
    /\ fate' = [i \in Interactions |->
                  IF i \in Undecided(g) THEN "lost" ELSE fate[i]]
    /\ UNCHANGED <<loopvars, cache, guilds, jobvars, executed>>

\* The last cleanup and the panel deletions are over, at most seven seconds.
Ended(g) == actor[g] = "leaving" /\ TaskEnds(g, "ended")

\* A handler panics.
Panics(g) == actor[g] = "busy" /\ TaskEnds(g, "panicked")

\* Mutant: the map keeps the mailbox of the actor that ended.
JoinKeepsMailbox(g) ==
    /\ phase = "running" /\ actor[g] = "ended"
    /\ actor' = [actor EXCEPT ![g] = "none"]
    /\ UNCHANGED <<loopvars, cache, guilds, mailbox, waits, patience, jobvars, fate, executed>>

\* The loop joins the actor and forgets its mailbox.
JoinActor(g) ==
    /\ phase = "running" /\ actor[g] = "ended"
    /\ actor' = [actor EXCEPT ![g] = "none"]
    /\ guilds' = guilds \ {g}
    /\ UNCHANGED <<loopvars, cache, mailbox, waits, patience, jobvars, fate, executed>>

JoinPanicked(g) ==
    /\ phase = "running" /\ actor[g] = "panicked"
    /\ actor' = [actor EXCEPT ![g] = "none"]
    /\ End
    /\ UNCHANGED <<cache, guilds, mailbox, waits, patience, jobvars, fate, executed>>

-----------------------------------------------------------------------------
(* The end of the service, stage by stage.                                 *)

\* The aborted request may have reached Discord.
AbortJob(i) ==
    /\ phase = "aborting" /\ i \in Jobs \union Rejections
    /\ told' = told \/ (told[i] = "nothing" /\ Tell(i, Reply(i)))
    /\ JobStep(i, "aborted", 0)

JobsJoined ==
    /\ phase = "aborting" /\ Jobs \union Rejections = {}
    /\ phase' = "joining"
    /\ UNCHANGED <<cancelled, cache, actorvars, jobvars, fate, executed>>

ActorJoined(g) ==
    /\ phase \in {"joining", "killing"} /\ actor[g] \in {"ended", "panicked"}
    /\ actor' = [actor EXCEPT ![g] = "none"]
    /\ UNCHANGED <<loopvars, cache, guilds, mailbox, waits, patience, jobvars, fate, executed>>

\* Five seconds for all actors together.
JoinTimeout ==
    /\ phase = "joining" /\ \E g \in Guilds : actor[g] # "none"
    /\ phase' = "killing"
    /\ UNCHANGED <<cancelled, cache, actorvars, jobvars, fate, executed>>

\* Mutant: an actor is aborted only between two handlers.
KillIdle(g) == phase = "killing" /\ actor[g] = "idle" /\ TaskEnds(g, "ended")

Kill(g) == phase = "killing" /\ Alive(g) /\ TaskEnds(g, "ended")

\* The gateway is closed, then the node client and the backend are shut down.
Stop ==
    /\ phase \in {"joining", "killing"} /\ \A g \in Guilds : actor[g] = "none"
    /\ phase' = "stopped"
    /\ UNCHANGED <<cancelled, cache, actorvars, jobvars, fate, executed>>

-----------------------------------------------------------------------------
(* Time passes unless a timer is due.                                      *)

Requesting == {i \in Interactions : job[i] \in {"deferring", "verifying"}}
Patient == {g \in Guilds : actor[g] = "waiting"}

Tick ==
    /\ Requesting \union Patient # {}
    /\ \A i \in Requesting : left[i] > 0
    /\ \A g \in Patient : patience[g] > 0
    /\ left' = [i \in Interactions |->
                  IF i \in Requesting THEN left[i] - 1 ELSE left[i]]
    /\ patience' = [g \in Guilds |->
                      IF g \in Patient THEN patience[g] - 1 ELSE patience[g]]
    /\ UNCHANGED <<loopvars, cache, guilds, actor, mailbox, waits, job, told, fate, executed>>

-----------------------------------------------------------------------------

Task(i) ==
    \/ Deferred(i) \/ DeferRefused(i) \/ DeferAmbiguous(i)
    \/ Verified(i) \/ Unverified(i) \/ Replied(i)

Actor(g) == Receive(g) \/ Execute(g) \/ Discard(g) \/ Leave(g) \/ Ended(g)

Shutdown ==
    \/ JobsJoined \/ JoinTimeout \/ Stop
    \/ \E i \in Interactions : AbortJob(i)
    \/ \E g \in Guilds : ActorJoined(g) \/ Kill(g)

Next ==
    \/ Signal \/ LoopCancelled \/ SourceEnds \/ Broadcast
    \/ \E g \in Guilds :
          \/ Payload(g) \/ GuildCreated(g) \/ GuildUnavailable(g)
          \/ GuildDeleted(g) \/ VoiceEvent(g)
    \/ \E i \in Interactions : Refused(i) \/ Suggest(i)
    \/ \E i \in Interactions, g \in Guilds : TakenOn(i, g)
    \/ \E i \in Interactions : Task(i) \/ LateDeferral(i)
    \/ \E g \in Guilds : Actor(g) \/ HandlerEnds(g) \/ Panics(g) \/ JoinActor(g) \/ JoinPanicked(g)
    \/ Shutdown \/ Tick

Spec == Init /\ [][Next]_vars

(***************************************************************************)
(* Tasks are polled, requests to Discord and the last cleanup have         *)
(* deadlines, and select! polls its ready branches in random order, so     *)
(* that none starves.  No handler is assumed to return, and nothing is     *)
(* required of Discord, the backend or the user.                           *)
(***************************************************************************)
Fairness ==
    /\ WF_vars(LoopCancelled) /\ WF_vars(Shutdown) /\ WF_vars(Tick)
    /\ \A i \in Interactions : WF_vars(Task(i))
    /\ \A g \in Guilds :
          WF_vars(Actor(g)) /\ WF_vars(JoinActor(g)) /\ WF_vars(JoinPanicked(g))

FairSpec == Spec /\ Fairness

-----------------------------------------------------------------------------
(* Properties.                                                             *)

LoopOK ==
    /\ phase \in {"running", "aborting", "joining", "killing", "stopped"}
    /\ cancelled \in BOOLEAN
    /\ cache \in [Guilds -> {"absent", "unavailable", "available"}]

ActorsOK ==
    /\ guilds \in SUBSET Guilds
    /\ actor \in [Guilds -> {"none", "idle", "waiting", "busy", "leaving",
                             "ended", "panicked"}]
    /\ mailbox \in [Guilds -> Seq(Interactions \union {Notice})]
    /\ waits \in [Guilds -> Interactions \union {None}]
    /\ patience \in [Guilds -> 0..ACK_WAIT]

JobsOK ==
    /\ job \in [Interactions -> {"none", "deferring", "verifying", "suggesting",
                                 "rejecting", "confirmed", "unconfirmed",
                                 "refused", "aborted", "answered"}]
    /\ left \in [Interactions -> Nat]
    /\ fate \in [Interactions -> {"new", "aside", "queued", "executed",
                                  "discarded", "lost"}]
    /\ told \in [Interactions -> {"nothing", "deferred", "answer"}]
    /\ executed \in Seq(Interactions)

Bounded ==
    /\ Cardinality(guilds) <= MAX_GUILDS
    /\ \A g \in Guilds : Len(mailbox[g]) <= MAILBOX
    /\ Cardinality(Jobs) <= JOBS /\ Cardinality(Rejections) <= REJECTIONS

\* Every variable has its type, and every bounded collection its bound.
TypeOK == LoopOK /\ ActorsOK /\ JobsOK /\ Bounded

\* The loop's map (run, runtime.rs) names exactly the servers whose actor has
\* not been joined: a server never has two actors, and none is refused for
\* the sake of an actor that is gone.
MapMatchesActors ==
    phase = "running" => guilds = {g \in Guilds : actor[g] # "none"}

\* An actor discards an interaction only when its acceptance could not be
\* confirmed: it never gives up on a task that would still confirm it, lookup
\* included (the five seconds of GuildSession::run against acknowledge).
OnlyUnconfirmedIsDiscarded ==
    \A i \in Interactions :
        fate[i] = "discarded" => job[i] \in {"unconfirmed", "refused", "aborted"}

(***************************************************************************)
(* The service keeps the promise of InteractionLine: the line of a server  *)
(* is the interaction its actor waits for and those in its mailbox.        *)
(***************************************************************************)
Enlisted(messages) ==
    LET upTo[k \in 0..Len(messages)] ==
            IF k = 0 THEN <<>>
            ELSE IF messages[k] = Notice THEN upTo[k - 1]
            ELSE Append(upTo[k - 1], messages[k])
    IN  upTo[Len(messages)]

Awaited(g) == IF waits[g] = None THEN <<>> ELSE <<waits[g]>>

LineOf(g) == Awaited(g) \o Enlisted(mailbox[g])

Lines == [g \in Guilds |-> LineOf(g)]

Aside == {i \in Interactions : fate[i] = "aside"}

Admitted == {i \in Interactions : fate[i] \notin {"new", "aside"}}

Line == INSTANCE InteractionLine WITH
    admitted <- Admitted, aside <- Aside, line <- Lines

\* Interactions of a server are executed in the order they were taken on, each
\* at most once and only when Discord accepted the deferral; a refused one is
\* never deferred ("Reject before deferring", discord.rs) nor executed.
KeepsTheLine == Line!Spec

\* As long as handlers return, an interaction that was taken on does not stay
\* undecided, whatever happens to tasks and answers (the actor's timed wait,
\* session.rs): it is executed, discarded or lost with its actor.
TakenOnIsDecided ==
    (\A g \in Guilds : []<>(actor[g] # "busy"))
        => \A i \in Interactions : fate[i] = "queued" ~> fate[i] # "queued"

\* Once the token is cancelled or the loop has ended, the service stops with
\* every task and actor joined, even if a handler never returns (the shutdown
\* behind the loop, runtime.rs).
ServiceStops == (cancelled \/ phase # "running") ~> phase = "stopped"
=============================================================================

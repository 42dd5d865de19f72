-------------------------- MODULE InteractionLine ---------------------------
(***************************************************************************)
(* What Raydio promises of the interactions Discord sends it, whatever     *)
(* becomes of tasks, mailboxes and answers: the ones it takes on for a     *)
(* server stand in one line and are executed from its head, each at most   *)
(* once and only after Discord accepted the deferral; the ones it refuses  *)
(* are neither deferred nor executed.                                      *)
(***************************************************************************)
EXTENDS SequencesExt

CONSTANTS Interactions, Guilds

VARIABLES
    admitted,  \* arrived and taken on for a server
    aside,     \* arrived and answered, or refused, without joining a line
    line,      \* taken on for a server and not yet decided
    told,      \* what Discord holds as the initial response
    executed   \* in the order of execution

Init ==
    /\ admitted = {}
    /\ aside = {}
    /\ line = [g \in Guilds |-> <<>>]
    /\ told = [i \in Interactions |-> "nothing"]
    /\ executed = <<>>

Fresh(i) == i \notin admitted \union aside

TakeOn(i, g) ==
    /\ Fresh(i)
    /\ admitted' = admitted \union {i}
    /\ line' = [line EXCEPT ![g] = Append(@, i)]
    /\ UNCHANGED <<aside, told, executed>>

SetAside(i) ==
    /\ Fresh(i)
    /\ aside' = aside \union {i}
    /\ UNCHANGED <<admitted, line, told, executed>>

\* Only what was taken on is deferred, only the others are answered at once.
Tell(i) ==
    /\ told[i] = "nothing"
    /\ \/ i \in admitted /\ told' = [told EXCEPT ![i] = "deferred"]
       \/ i \in aside /\ told' = [told EXCEPT ![i] = "answer"]
    /\ UNCHANGED <<admitted, aside, line, executed>>

Execute(g) ==
    /\ line[g] # <<>>
    /\ told[Head(line[g])] = "deferred"
    /\ executed' = Append(executed, Head(line[g]))
    /\ line' = [line EXCEPT ![g] = Tail(@)]
    /\ UNCHANGED <<admitted, aside, told>>

Discard(g) ==
    /\ line[g] # <<>>
    /\ line' = [line EXCEPT ![g] = Tail(@)]
    /\ UNCHANGED <<admitted, aside, told, executed>>

Abandon(g) ==
    /\ line[g] # <<>>
    /\ line' = [line EXCEPT ![g] = <<>>]
    /\ UNCHANGED <<admitted, aside, told, executed>>

Next ==
    \/ \E i \in Interactions, g \in Guilds : TakeOn(i, g)
    \/ \E i \in Interactions : SetAside(i) \/ Tell(i)
    \/ \E g \in Guilds : Execute(g) \/ Discard(g) \/ Abandon(g)

Spec == Init /\ [][Next]_<<admitted, aside, line, told, executed>>
=============================================================================

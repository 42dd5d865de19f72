---------------------------- MODULE PlayerPanel -----------------------------
(***************************************************************************)
(* The player message of one guild session (present_player, remove_panel,  *)
(* delete_panel, refresh, flush_refresh and finish_refresh in              *)
(* src/src/session.rs): the session owns at most one message, edits it in  *)
(* one background task, checks it after a pause, and deletes replaced      *)
(* messages in a bounded number of background tasks.                       *)
(*                                                                         *)
(* The rest of the session is what a view of it would show: a version that *)
(* grows with every change, whether something plays and whether it is      *)
(* paused.  The actor handles one message at a time; pc names the awaits.  *)
(***************************************************************************)
EXTENDS Naturals, FiniteSets

CONSTANTS
    None,
    DeletionLimit,  \* deletions at a time, 16 in the code
    MaxMessages,    \* bound on messages the session creates
    MaxNow,         \* bound on changes of what a view shows
    MaxFailures,    \* bound on requests to Discord that fail
    MaxLate,        \* bound on old writes that Discord persists late
    MaxDeleted      \* bound on messages deleted by others

ASSUME PanelAssumption ==
    /\ {DeletionLimit, MaxMessages} \subseteq Nat \ {0}
    /\ {MaxNow, MaxFailures, MaxLate, MaxDeleted} \subseteq Nat
    /\ None \notin Nat

VARIABLES
    now,        \* the version of what a view would show
    playing,    \* queue.current is some track
    paused,
    actor,      \* the session's fields about its message
    messages,   \* the messages in Discord
    deletions,  \* panel_deletions: tasks that run or were not joined yet
    abandoned,  \* history: messages given up after failures
    unchecked,  \* history: messages whose checks present_player ended
    left        \* how much of the bounds is left

vars == <<now, playing, paused, actor, messages, deletions, abandoned, unchecked, left>>

Messages == 1..MaxMessages

\* A message, what it shows, and what it showed before its last write.
Message ==
    [state: {"unborn", "live", "gone"}, shows: 0..MaxNow, before: 0..MaxNow]

Panel == [message: Messages, last_view: (0..MaxNow) \union {None}]

\* The task in panel_edits: it edits the message or reads it back.
Edit ==
    [message: Messages, view: 0..MaxNow, kind: {"edit", "check"},
     outcome: {"pending", "delivered", "stale", "transient", "terminal"}]

\* A task in panel_deletions and the attempts it has left.
Deletion == [message: Messages, attempts: 0..3]

NoPanel == [message |-> None, last_view |-> None]
NoEdit == [message |-> None, view |-> None, kind |-> "edit", outcome |-> "pending"]

(***************************************************************************)
(* The handler that awaits is present_player or a button ("present",       *)
(* "click" on the message clicked); it awaits the edit under way           *)
(* ("flushing") or the answer to its response, which shows view            *)
(* ("responding"); or any handler waits for room to delete a message       *)
(* ("retiring").                                                           *)
(***************************************************************************)
Actor ==
    [pc: {"idle", "flushing", "responding", "retiring"},
     handler: {"none", "present", "click"},
     clicked: Messages \union {None},
     view: (0..MaxNow) \union {None},
     retired: Messages \union {None},
     panel: Panel \union {NoPanel},
     edit: Edit \union {NoEdit},
     retry: BOOLEAN,        \* panel_retry is in the future
     checks: 0..3,          \* panel_checks
     check_due: BOOLEAN]    \* panel_check_at has passed

Bounds == [failures |-> MaxFailures, late |-> MaxLate, deleted |-> MaxDeleted]

Init ==
    /\ now = 0 /\ playing = FALSE /\ paused = FALSE
    /\ actor = [pc |-> "idle", handler |-> "none", clicked |-> None,
                view |-> None, retired |-> None,
                panel |-> NoPanel, edit |-> NoEdit,
                retry |-> FALSE, checks |-> 0, check_due |-> FALSE]
    /\ messages = [m \in Messages |-> [state |-> "unborn", shows |-> 0, before |-> 0]]
    /\ deletions = {}
    /\ abandoned = {} /\ unchecked = {}
    /\ left = Bounds

Spend(bound) == left[bound] > 0 /\ left' = [left EXCEPT ![bound] = @ - 1]

-----------------------------------------------------------------------------
(* Messages in Discord.                                                    *)

\* A write that Discord accepts; the message must still be there.
Written(m, view) ==
    IF messages[m].state # "live" THEN messages
    ELSE [messages EXCEPT ![m].shows = view, ![m].before = messages[m].shows]

\* A write of which nothing is known may have arrived.
PerhapsWritten(m, view) == {messages, Written(m, view)}

\* What becomes of the messages when the task in panel_edits is aborted.
Aborted(edit) ==
    IF edit # NoEdit /\ edit.kind = "edit" /\ edit.outcome = "pending"
    THEN PerhapsWritten(edit.message, edit.view) ELSE {messages}

-----------------------------------------------------------------------------
(* Ends of handlers, from the actor a as the handler leaves it.            *)

Idle(a) ==
    [a EXCEPT !.pc = "idle", !.handler = "none", !.clicked = None, !.view = None]

\* Mutant: at the limit a retired message is forgotten.
RetireOrForget(a, m) ==
    /\ actor' = Idle(a)
    /\ deletions' = IF Cardinality(deletions) < DeletionLimit
                    THEN deletions \union {[message |-> m, attempts |-> 3]}
                    ELSE deletions

\* Mutant: the limit of deletions is not looked at.
RetireAtOnce(a, m) ==
    /\ actor' = Idle(a)
    /\ deletions' = deletions \union {[message |-> m, attempts |-> 3]}

\* delete_panel: starts a deletion, or waits until one can be started.
Retire(a, m) ==
    IF Cardinality(deletions) < DeletionLimit
    THEN /\ actor' = Idle(a)
         /\ deletions' = deletions \union {[message |-> m, attempts |-> 3]}
    ELSE /\ actor' = [Idle(a) EXCEPT !.pc = "retiring", !.retired = m]
         /\ UNCHANGED deletions

\* remove_panel: aborts and drains the edit, then retires the message.
RemovePanel(a) ==
    LET b == [a EXCEPT !.edit = NoEdit, !.panel = NoPanel,
                       !.checks = 0, !.retry = FALSE]
    IN  /\ messages' \in Aborted(a.edit)
        /\ IF a.panel = NoPanel THEN actor' = Idle(b) /\ UNCHANGED deletions
           ELSE Retire(b, a.panel.message)

Task(a, kind, view) ==
    [message |-> a.panel.message, view |-> view, kind |-> kind, outcome |-> "pending"]

\* The part of refresh that spawns a task, at most one at a time.
Refreshed(a, view, is_paused) ==
    IF a.edit # NoEdit \/ a.retry \/ a.panel = NoPanel THEN a
    ELSE IF a.panel.last_view # view THEN [a EXCEPT !.edit = Task(a, "edit", view)]
    ELSE IF is_paused /\ a.checks > 0 /\ a.check_due
    THEN [a EXCEPT !.edit = Task(a, "check", view), !.checks = @ - 1,
                   !.check_due = FALSE]
    ELSE a

\* refresh, with what the handler made of the rest of the session.
Refresh(a) ==
    IF ~playing' THEN RemovePanel(a)
    ELSE /\ actor' = Idle(Refreshed(a, now', paused'))
         /\ UNCHANGED <<messages, deletions>>

-----------------------------------------------------------------------------
(* finish_refresh.                                                         *)

\* Mutant: the panel is believed to be what the check compared it with.
FinishedBelieving(a) ==
    LET b == [a EXCEPT !.edit = NoEdit]
    IN  IF a.panel.message # a.edit.message THEN b
        ELSE CASE a.edit.outcome \in {"stale", "delivered"} ->
                    [b EXCEPT !.panel.last_view = a.edit.view]
               [] a.edit.outcome = "terminal" -> [b EXCEPT !.panel = NoPanel]
               [] OTHER -> [b EXCEPT !.retry = TRUE]

\* A result for a message that is no longer the panel changes nothing.
Finished(a) ==
    LET b == [a EXCEPT !.edit = NoEdit]
    IN  IF a.panel.message # a.edit.message THEN b
        ELSE CASE a.edit.outcome = "stale" -> [b EXCEPT !.panel.last_view = None]
               [] a.edit.outcome = "delivered" ->
                    [b EXCEPT !.panel.last_view = a.edit.view]
               [] a.edit.outcome = "terminal" -> [b EXCEPT !.panel = NoPanel]
               [] OTHER -> [b EXCEPT !.retry = TRUE]

\* A message that is dropped after a terminal failure is not deleted.
Dropped(a) ==
    IF a.panel # NoPanel /\ Finished(a).panel = NoPanel THEN {a.panel.message} ELSE {}

EditDone == actor.edit # NoEdit /\ actor.edit.outcome # "pending"

EditJoined ==
    /\ actor.pc = "idle" /\ EditDone
    /\ UNCHANGED <<now, playing, paused>>
    /\ Refresh(Finished(actor))
    /\ abandoned' = abandoned \union Dropped(actor)
    /\ UNCHANGED <<unchecked, left>>

-----------------------------------------------------------------------------
(* Handlers.                                                               *)

\* The view is taken when the response is sent; present_player ends the
\* checks of the panel it is about to replace.
Responding(a) ==
    [a EXCEPT !.pc = "responding", !.view = now',
              !.checks = IF a.handler = "present" THEN 0 ELSE @]

Unchecked ==
    unchecked' = IF actor'.pc = "responding" /\ actor'.checks < actor.checks
                 THEN unchecked \union ({actor.panel.message} \ {None})
                 ELSE unchecked

\* Mutant: the response does not wait for the edit under way.
FlushNothing(a, handler, clicked) ==
    actor' = Responding([a EXCEPT !.handler = handler, !.clicked = clicked])

\* flush_refresh waits for the task, if there is one.
Flush(a, handler, clicked) ==
    LET b == [a EXCEPT !.handler = handler, !.clicked = clicked]
    IN  actor' = IF a.edit = NoEdit THEN Responding(b) ELSE [b EXCEPT !.pc = "flushing"]

\* /nowplaying, and the end of /play; it may have started the playback.
Present ==
    /\ actor.pc = "idle"
    /\ \E m \in Messages : messages[m].state = "unborn"
    /\ \/ /\ ~playing /\ now < MaxNow
          /\ now' = now + 1 /\ playing' = TRUE /\ paused' = FALSE
       \/ UNCHANGED <<now, playing, paused>>
    /\ IF ~playing' THEN RemovePanel(actor)
       ELSE Flush(actor, "present", None) /\ UNCHANGED <<messages, deletions>>
    /\ Unchecked /\ UNCHANGED <<abandoned, left>>

\* A button of the panel: pause and volume, skip and the like, or stop.
Click ==
    /\ actor.pc = "idle" /\ playing /\ actor.panel # NoPanel
    /\ messages[actor.panel.message].state = "live"
    /\ now < MaxNow /\ now' = now + 1
    /\ playing' \in BOOLEAN
    /\ paused' \in IF playing' THEN BOOLEAN ELSE {FALSE}
    /\ Flush(actor, "click", actor.panel.message)
    /\ UNCHANGED <<messages, deletions, abandoned, unchecked, left>>

\* A slash command, a track event, a cleanup: anything that ends in refresh.
Change ==
    /\ actor.pc = "idle" /\ playing
    /\ now < MaxNow /\ now' = now + 1
    /\ playing' \in BOOLEAN
    /\ paused' \in IF playing' THEN BOOLEAN ELSE {FALSE}
    /\ Refresh(actor)
    /\ UNCHANGED <<abandoned, unchecked, left>>

Tick ==
    /\ actor.pc = "idle"
    /\ UNCHANGED <<now, playing, paused>>
    /\ Refresh(actor)
    /\ UNCHANGED <<abandoned, unchecked, left>>

Flushed ==
    /\ actor.pc = "flushing" /\ EditDone
    /\ UNCHANGED <<now, playing, paused, messages, deletions, left>>
    /\ actor' = Responding(Finished(actor)) /\ Unchecked
    /\ abandoned' = abandoned \union Dropped(actor)

\* The response created a message, which replaces the panel.
Presented ==
    /\ actor.pc = "responding" /\ actor.handler = "present"
    /\ \E m \in Messages :
         /\ messages[m].state = "unborn"
         /\ \A n \in Messages : n < m => messages[n].state # "unborn"
         /\ messages' = [messages EXCEPT ![m] = [state |-> "live", shows |-> actor.view,
                                                 before |-> actor.view]]
         /\ LET a == [actor EXCEPT !.panel = [message |-> m, last_view |-> actor.view]]
            IN  IF actor.panel = NoPanel THEN actor' = Idle(a) /\ UNCHANGED deletions
                ELSE Retire(a, actor.panel.message)
    /\ UNCHANGED <<now, playing, paused, abandoned, unchecked, left>>

PresentFails ==
    /\ actor.pc = "responding" /\ actor.handler = "present"
    /\ actor' = Idle(actor) /\ Spend("failures")
    /\ UNCHANGED <<now, playing, paused, messages, deletions, abandoned, unchecked>>

Acknowledged(a) ==
    IF a.panel = NoPanel THEN a
    ELSE [a EXCEPT !.panel.last_view = a.view,
                   !.checks = IF paused THEN 3 ELSE 0, !.check_due = FALSE]

\* The button's message was updated.
ClickAnswered ==
    /\ actor.pc = "responding" /\ actor.handler = "click" /\ playing
    /\ messages[actor.clicked].state = "live"
    /\ messages' = Written(actor.clicked, actor.view)
    /\ actor' = Idle(Refreshed(Acknowledged(actor), now, paused))
    /\ UNCHANGED <<now, playing, paused, deletions, abandoned, unchecked, left>>

ClickFails ==
    /\ actor.pc = "responding" /\ actor.handler = "click" /\ playing
    /\ \/ messages[actor.clicked].state # "live" /\ UNCHANGED left
       \/ Spend("failures")
    /\ messages' \in PerhapsWritten(actor.clicked, actor.view)
    /\ actor' = Idle(Refreshed(actor, now, paused))
    /\ UNCHANGED <<now, playing, paused, deletions, abandoned, unchecked>>

\* The button ended the playback: its message is deleted, not updated.
ClickStopped ==
    /\ actor.pc = "responding" /\ actor.handler = "click" /\ ~playing
    /\ RemovePanel(actor)
    /\ UNCHANGED <<now, playing, paused, abandoned, unchecked, left>>

\* The deletion the actor waits for has been joined.
Retired ==
    /\ actor.pc = "retiring" /\ Cardinality(deletions) < DeletionLimit
    /\ Retire([actor EXCEPT !.retired = None], actor.retired)
    /\ UNCHANGED <<now, playing, paused, messages, abandoned, unchecked, left>>

-----------------------------------------------------------------------------
(* The background tasks and Discord.                                       *)

Handlers == UNCHANGED <<now, playing, paused>>

Outcome(outcome) == actor' = [actor EXCEPT !.edit.outcome = outcome]

Pending(kind) ==
    actor.edit # NoEdit /\ actor.edit.outcome = "pending" /\ actor.edit.kind = kind

EditDelivered ==
    /\ Pending("edit") /\ messages[actor.edit.message].state = "live"
    /\ Outcome("delivered")
    /\ messages' = Written(actor.edit.message, actor.edit.view)
    /\ Handlers /\ UNCHANGED <<deletions, abandoned, unchecked, left>>

\* No answer, or no usable one: the edit may have arrived.
EditUnanswered ==
    /\ Pending("edit") /\ Outcome("transient") /\ Spend("failures")
    /\ messages' \in PerhapsWritten(actor.edit.message, actor.edit.view)
    /\ Handlers /\ UNCHANGED <<deletions, abandoned, unchecked>>

\* 404 for a message that is gone, 401 or 403 for one that is there.
EditRefused ==
    /\ Pending("edit") /\ Outcome("terminal")
    /\ IF messages[actor.edit.message].state = "live" THEN Spend("failures")
       ELSE UNCHANGED left
    /\ Handlers /\ UNCHANGED <<messages, deletions, abandoned, unchecked>>

\* The check reads the message back; a message that is gone is an error.
Checked ==
    /\ Pending("check")
    /\ LET m == messages[actor.edit.message]
       IN  Outcome(IF m.state # "live" THEN "transient"
                   ELSE IF m.shows = actor.edit.view THEN "delivered" ELSE "stale")
    /\ Handlers /\ UNCHANGED <<messages, deletions, abandoned, unchecked, left>>

CheckUnanswered ==
    /\ Pending("check") /\ Outcome("transient") /\ Spend("failures")
    /\ Handlers /\ UNCHANGED <<messages, deletions, abandoned, unchecked>>

Gone(m) == [messages EXCEPT ![m].state = "gone"]

\* A deletion task succeeds, also when the message was gone.
Deleted ==
    \E d \in deletions :
        /\ messages' = Gone(d.message)
        /\ deletions' = deletions \ {d}
        /\ Handlers /\ UNCHANGED <<actor, abandoned, unchecked, left>>

\* Mutant: a failed attempt is the last one, and nobody is told.
DeletionFailsOnce ==
    \E d \in deletions :
        /\ Spend("failures") /\ deletions' = deletions \ {d}
        /\ Handlers /\ UNCHANGED <<actor, messages, abandoned, unchecked>>

\* An attempt fails: transiently, or for good with 401 or 403.
DeletionFails ==
    \E d \in deletions, for_good \in BOOLEAN :
        /\ Spend("failures")
        /\ IF for_good \/ d.attempts = 1
           THEN /\ deletions' = deletions \ {d}
                /\ abandoned' = abandoned \union {d.message}
           ELSE /\ deletions' = (deletions \ {d}) \union
                                  {[d EXCEPT !.attempts = @ - 1]}
                /\ UNCHANGED abandoned
        /\ Handlers /\ UNCHANGED <<actor, messages, unchecked>>

\* The retry and check deadlines pass.
TimePasses ==
    /\ actor.retry \/ ~actor.check_due
    /\ actor' = [actor EXCEPT !.retry = FALSE, !.check_due = TRUE]
    /\ Handlers /\ UNCHANGED <<messages, deletions, abandoned, unchecked, left>>

\* The position advances, also while a handler awaits.
Progress ==
    /\ playing /\ ~paused /\ now < MaxNow /\ now' = now + 1
    /\ UNCHANGED <<playing, paused, actor, messages, deletions, abandoned, unchecked, left>>

\* "Discord has acknowledged a paused snapshot and later persisted an older
\* Playing snapshot": while there are checks left that do not fail.
LateWrite ==
    /\ paused /\ actor.checks > left.failures /\ Spend("late")
    /\ \E m \in Messages :
         /\ messages[m].state = "live" /\ messages[m].before # messages[m].shows
         /\ messages' = [messages EXCEPT ![m].shows = messages[m].before]
    /\ Handlers /\ UNCHANGED <<actor, deletions, abandoned, unchecked>>

DeletedByOthers ==
    \E m \in Messages :
        /\ messages[m].state = "live" /\ messages' = Gone(m) /\ Spend("deleted")
        /\ Handlers /\ UNCHANGED <<actor, deletions, abandoned, unchecked>>

-----------------------------------------------------------------------------
Session ==
    \/ EditJoined \/ Present \/ Click \/ Change \/ Tick \/ Flushed \/ Presented
    \/ PresentFails \/ ClickAnswered \/ ClickFails \/ ClickStopped \/ Retired

Surroundings ==
    \/ EditDelivered \/ EditUnanswered \/ EditRefused \/ Checked \/ CheckUnanswered
    \/ Deleted \/ DeletionFails \/ TimePasses \/ Progress \/ LateWrite
    \/ DeletedByOthers

Next == Session \/ Surroundings

Spec == Init /\ [][Next]_vars

\* An attempt to delete the message ends, well or badly.
Attempted(m) ==
    \E d \in deletions :
        d.message = m /\ (Deleted \/ DeletionFails) /\ d \notin deletions'

(***************************************************************************)
(* Every request has a timeout, the loop joins finished tasks and ticks    *)
(* once a second, and time passes.  Users and failures are bounded.        *)
(***************************************************************************)
FairSpec ==
    /\ Spec
    /\ WF_vars(EditJoined) /\ WF_vars(Tick) /\ WF_vars(Flushed)
    /\ WF_vars(Presented \/ PresentFails)
    /\ WF_vars(ClickAnswered \/ ClickFails \/ ClickStopped) /\ WF_vars(Retired)
    /\ WF_vars(EditDelivered \/ EditUnanswered \/ EditRefused)
    /\ WF_vars(Checked \/ CheckUnanswered)
    /\ \A m \in Messages : WF_vars(Attempted(m))
    /\ WF_vars(TimePasses)

-----------------------------------------------------------------------------
(* Type invariant.                                                         *)
TypeOK ==
    /\ now \in 0..MaxNow /\ playing \in BOOLEAN /\ paused \in BOOLEAN
    /\ actor \in Actor
    /\ messages \in [Messages -> Message]
    /\ deletions \subseteq Deletion /\ Cardinality(deletions) <= DeletionLimit
    /\ abandoned \subseteq Messages /\ unchecked \subseteq Messages
    /\ left \in [DOMAIN Bounds -> Nat]

(* "The Rust bot keeps at most one owned message per session": every other *)
(* message it created is being deleted, waits for its deletion, or was     *)
(* given up after failures, at the limit of deletions too.                 *)
OneOwnedMessage ==
    \A m \in Messages :
        messages[m].state = "live" =>
            \/ m = actor.panel.message \/ m = actor.retired
            \/ \E d \in deletions : d.message = m
            \/ m \in abandoned

(* A message never goes back to an older view, although ticks, events and  *)
(* buttons write to it; only Discord itself may persist an old one late.   *)
NeverBackwards ==
    [][\A m \in Messages :
         messages[m].state = "live" /\ messages'[m].state = "live"
         /\ messages'[m].shows < messages[m].shows => left'.late < left.late]_vars

(* A retired message is deleted or given up.                               *)
RetiredIsDeleted ==
    \A m \in Messages :
        (m = actor.retired \/ \E d \in deletions : d.message = m)
            ~> (messages[m].state = "gone" \/ m \in abandoned)

(* Once users and Discord leave it alone, the panel shows what is current, *)
(* also after edits whose answer was lost and after a late old write to a  *)
(* paused panel, unless a failed /nowplaying ended the checks of that      *)
(* panel.                                                                  *)
PanelCatchesUp ==
    <>[](playing /\ actor.panel # NoPanel
           /\ messages[actor.panel.message].state = "live"
         => messages[actor.panel.message].shows = now
              \/ actor.panel.message \in unchecked)
=============================================================================

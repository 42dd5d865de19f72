------------------------- MODULE PlayerPanelProofs --------------------------
(***************************************************************************)
(* Theorems about PlayerPanel, for every limit on deletions and every      *)
(* bound: the session accounts for every message it created, and no write  *)
(* of its own takes a message back to an older view.                       *)
(*                                                                         *)
(* The second rests on who may write: the response to a button is sent     *)
(* when no edit is under way (Undisturbed), so that whoever writes took    *)
(* its view after the last write (Newest).                                 *)
(***************************************************************************)
EXTENDS PlayerPanel, FiniteSetTheorems, TLAPS

\* What Discord holds, when n is the newest view.
MessagesOK(ms, n) ==
    /\ ms \in [Messages -> Message]
    /\ \A m \in Messages : ms[m].before <= ms[m].shows /\ ms[m].shows <= n

\* Every deletion has an attempt left.
DeletionsOK(ds) ==
    /\ ds \subseteq Deletion /\ IsFiniteSet(ds) /\ Cardinality(ds) <= DeletionLimit
    /\ \A d \in ds : d.attempts >= 1

\* What the awaits of the actor hold.
Held(a) ==
    /\ a \in Actor
    /\ a.pc # "retiring" => a.retired = None
    /\ a.pc = "retiring" => a.retired \in Messages
    /\ a.pc \in {"flushing", "responding"} /\ a.handler = "click" =>
         a.clicked \in Messages
    /\ a.pc = "responding" => a.view \in 0..MaxNow

\* No edit is under way beside a response or a wait for a deletion.
Undisturbed(a) == a.pc \in {"responding", "retiring"} => a.edit = NoEdit

\* The edit under way is at least as new as what the message shows.
NewestEdit(edit, ms, n) ==
    edit # NoEdit =>
        /\ edit.view <= n
        /\ edit.kind = "edit" /\ edit.outcome = "pending" =>
             ms[edit.message].shows <= edit.view

\* So is the response to a button.
NewestResponse(a, ms, n) ==
    a.pc = "responding" =>
        /\ a.view <= n
        /\ a.handler = "click" => ms[a.clicked].shows <= a.view

ActorOK(a, ms, n) ==
    Held(a) /\ Undisturbed(a) /\ NewestEdit(a.edit, ms, n) /\ NewestResponse(a, ms, n)

PlainOK ==
    /\ now \in 0..MaxNow /\ playing \in BOOLEAN /\ paused \in BOOLEAN
    /\ abandoned \subseteq Messages /\ unchecked \subseteq Messages
    /\ left \in [DOMAIN Bounds -> Nat]

(***************************************************************************)
(* The inductive invariant.                                                *)
(***************************************************************************)
PanelInv ==
    /\ PlainOK
    /\ ActorOK(actor, messages, now)
    /\ MessagesOK(messages, now)
    /\ DeletionsOK(deletions)
    /\ OneOwnedMessage

\* The body of NeverBackwards.
Onward ==
    \A m \in Messages :
        messages[m].state = "live" /\ messages'[m].state = "live"
        /\ messages'[m].shows < messages[m].shows => left'.late < left.late

-----------------------------------------------------------------------------
(* Values.                                                                 *)

LEMMA Values ==
    /\ None \notin Messages /\ None \notin 0..MaxNow
    /\ NoPanel \notin Panel /\ NoEdit \notin Edit
    /\ MaxNow \in Nat /\ DeletionLimit \in Nat \ {0}
    /\ Messages \subseteq Nat
<1>1. None \notin Messages /\ None \notin 0..MaxNow /\ Messages \subseteq Nat
  BY PanelAssumption DEF Messages
<1>. QED  BY <1>1, PanelAssumption DEF NoPanel, Panel, NoEdit, Edit

\* The fields of an actor.
LEMMA Fields ==
    ASSUME NEW a \in Actor
    PROVE  /\ a.panel \in Panel \union {NoPanel}
           /\ a.edit \in Edit \union {NoEdit}
           /\ a.panel # NoPanel => a.panel.message \in Messages
           /\ a.panel = NoPanel => a.panel.message = None
           /\ a.edit # NoEdit =>
                /\ a.edit.message \in Messages /\ a.edit.view \in 0..MaxNow
                /\ a.edit.kind \in {"edit", "check"}
           /\ a.panel.message \in Messages \union {None}
<1>1. a.panel \in Panel \union {NoPanel} /\ a.edit \in Edit \union {NoEdit}
  BY DEF Actor
<1>2. a.panel # NoPanel => a.panel.message \in Messages
  BY <1>1 DEF Panel
<1>3. a.panel = NoPanel => a.panel.message = None
  BY DEF NoPanel
<1>4. a.edit # NoEdit =>
        /\ a.edit.message \in Messages /\ a.edit.view \in 0..MaxNow
        /\ a.edit.kind \in {"edit", "check"}
  BY <1>1 DEF Edit
<1>. QED  BY <1>1, <1>2, <1>3, <1>4

\* A write keeps what Discord holds in order, and changes one message.
LEMMA Writes ==
    ASSUME NEW n \in Nat, MessagesOK(messages, n),
           NEW m \in Messages, NEW view \in 0..MaxNow,
           messages[m].shows <= view, view <= n,
           NEW w \in PerhapsWritten(m, view)
    PROVE  /\ MessagesOK(w, n)
           /\ \A x \in Messages : /\ w[x].state = messages[x].state
                                  /\ messages[x].shows <= w[x].shows
                                  /\ x # m => w[x] = messages[x]
           /\ w[m].shows <= view
<1>1. CASE w = messages
  <2>1. \A x \in Messages : messages[x].shows \in Nat
    BY Values DEF MessagesOK, Message
  <2>. QED  BY <1>1, <2>1
<1>2. CASE w # messages
  <2>. DEFINE new == [messages[m] EXCEPT !.shows = view, !.before = messages[m].shows]
  <2>1. w = [messages EXCEPT ![m] = new]
    BY <1>2 DEF PerhapsWritten, Written, MessagesOK
  <2>2. \A x \in Messages : messages[x] \in Message
    BY DEF MessagesOK
  <2>3. /\ new \in Message /\ new.state = messages[m].state
        /\ new.shows = view /\ new.before = messages[m].shows
    BY <2>2 DEF Message
  <2>. HIDE DEF new
  <2>4. w \in [Messages -> Message] /\ w[m] = new
    BY <2>1, <2>3 DEF MessagesOK
  <2>5. \A x \in Messages : x # m => w[x] = messages[x]
    BY <2>1 DEF MessagesOK
  <2>6. \A x \in Messages : messages[x].shows \in Nat
    BY <2>2, Values DEF Message
  <2>7. \A x \in Messages : messages[x].before <= messages[x].shows /\ messages[x].shows <= n
    BY DEF MessagesOK
  <2>8. ASSUME NEW x \in Messages
        PROVE  /\ w[x].before <= w[x].shows /\ w[x].shows <= n
               /\ w[x].state = messages[x].state
               /\ messages[x].shows <= w[x].shows
    BY <2>3, <2>4, <2>5, <2>6, <2>7
  <2>. QED  BY <2>3, <2>4, <2>5, <2>8 DEF MessagesOK
<1>. QED  BY <1>1, <1>2

\* Messages that all show the same or newer views.
Newer(w) ==
    \A x \in Messages : w[x].state = messages[x].state /\ messages[x].shows <= w[x].shows

LEMMA AbortedWrites ==
    ASSUME NEW n \in Nat, MessagesOK(messages, n),
           NEW edit \in Edit \union {NoEdit}, NewestEdit(edit, messages, n),
           NEW w \in Aborted(edit)
    PROVE  MessagesOK(w, n) /\ Newer(w)
<1>1. CASE w = messages
  <2>1. \A x \in Messages : messages[x].shows \in Nat
    BY Values DEF MessagesOK, Message
  <2>. QED  BY <1>1, <2>1 DEF Newer
<1>2. CASE w # messages
  <2>1. /\ edit # NoEdit /\ edit.kind = "edit" /\ edit.outcome = "pending"
        /\ w \in PerhapsWritten(edit.message, edit.view)
    BY <1>2 DEF Aborted
  <2>2. edit.message \in Messages /\ edit.view \in 0..MaxNow
    BY <2>1 DEF Edit
  <2>3. messages[edit.message].shows <= edit.view /\ edit.view <= n
    BY <2>1 DEF NewestEdit
  <2>. QED  BY <2>1, <2>2, <2>3, Writes DEF Newer
<1>. QED  BY <1>1, <1>2

LEMMA DeletionAdded ==
    ASSUME NEW ds, DeletionsOK(ds), Cardinality(ds) < DeletionLimit, NEW m \in Messages
    PROVE  DeletionsOK(ds \union {[message |-> m, attempts |-> 3]})
<1>. DEFINE d == [message |-> m, attempts |-> 3]
<1>1. d \in Deletion /\ d.attempts >= 1
  BY DEF Deletion
<1>. HIDE DEF d
<1>2. /\ IsFiniteSet(ds \union {d})
      /\ Cardinality(ds \union {d}) = IF d \in ds THEN Cardinality(ds) ELSE Cardinality(ds) + 1
  BY FS_AddElement DEF DeletionsOK
<1>3. Cardinality(ds) \in Nat
  BY FS_CardinalityType DEF DeletionsOK
<1>4. Cardinality(ds \union {d}) \in Nat
  BY <1>2, FS_CardinalityType
<1>5. Cardinality(ds \union {d}) <= DeletionLimit
  BY <1>2, <1>3, <1>4, Values
<1>6. DeletionsOK(ds \union {d})
  BY <1>1, <1>2, <1>5 DEF DeletionsOK
<1>. QED  BY <1>6 DEF d

LEMMA DeletionRemoved ==
    ASSUME NEW ds, DeletionsOK(ds), NEW d \in ds
    PROVE  DeletionsOK(ds \ {d}) /\ Cardinality(ds \ {d}) < DeletionLimit
<1>1. IsFiniteSet(ds \ {d}) /\ Cardinality(ds \ {d}) = Cardinality(ds) - 1
  BY FS_RemoveElement DEF DeletionsOK
<1>2. Cardinality(ds) \in Nat /\ Cardinality(ds \ {d}) \in Nat
  BY <1>1, FS_CardinalityType DEF DeletionsOK
<1>. QED  BY <1>1, <1>2, Values DEF DeletionsOK

-----------------------------------------------------------------------------
(* Actors.                                                                 *)

\* What a handler leaves behind when it does not wait for a deletion.
LEMMA IdleActor ==
    ASSUME NEW a \in Actor
    PROVE  /\ Idle(a) \in Actor /\ Idle(a).pc = "idle"
           /\ Idle(a).retired = a.retired /\ Idle(a).panel = a.panel
           /\ Idle(a).edit = a.edit
BY DEF Idle, Actor

LEMMA IdleOK ==
    ASSUME NEW a \in Actor, a.retired = None, NEW ms, NEW n,
           NewestEdit(a.edit, ms, n)
    PROVE  ActorOK(Idle(a), ms, n)
BY IdleActor DEF ActorOK, Held, Undisturbed, NewestResponse

\* finish_refresh: the edit is over, and a panel is only dropped.
LEMMA FinishedActor ==
    ASSUME NEW a \in Actor, a.edit # NoEdit
    PROVE  /\ Finished(a) \in Actor /\ Finished(a).edit = NoEdit
           /\ Finished(a).pc = a.pc /\ Finished(a).handler = a.handler
           /\ Finished(a).clicked = a.clicked /\ Finished(a).retired = a.retired
           /\ Finished(a).view = a.view
           /\ \/ Finished(a).panel.message = a.panel.message
              \/ /\ Finished(a).panel = NoPanel /\ a.panel # NoPanel
                 /\ Dropped(a) = {a.panel.message}
           /\ Dropped(a) \subseteq Messages
<1>. DEFINE b == [a EXCEPT !.edit = NoEdit]
<1>1. /\ b \in Actor /\ b.edit = NoEdit /\ b.panel = a.panel
      /\ b.pc = a.pc /\ b.handler = a.handler /\ b.clicked = a.clicked
      /\ b.retired = a.retired /\ b.view = a.view
  BY DEF Actor
<1>2. Dropped(a) \subseteq Messages
  BY Fields DEF Dropped
<1>3. CASE a.panel.message # a.edit.message
  <2>1. Finished(a) = b
    BY <1>3 DEF Finished
  <2>. QED  BY <1>1, <1>2, <2>1
<1>4. CASE a.panel.message = a.edit.message
  <2>1. a.panel \in Panel /\ a.edit.view \in 0..MaxNow
    BY <1>4, Fields, Values
  <2>2. ASSUME NEW v \in (0..MaxNow) \union {None}
        PROVE  LET c == [b EXCEPT !.panel.last_view = v]
               IN  /\ c \in Actor /\ c.edit = NoEdit
                   /\ c.pc = a.pc /\ c.handler = a.handler /\ c.clicked = a.clicked
                   /\ c.retired = a.retired /\ c.view = a.view
                   /\ c.panel.message = a.panel.message
    <3>. DEFINE p == [a.panel EXCEPT !.last_view = v]
    <3>1. p \in Panel /\ p.message = a.panel.message
      BY <2>1 DEF Panel
    <3>2. [b EXCEPT !.panel.last_view = v] = [b EXCEPT !.panel = p]
      BY <1>1 DEF Actor
    <3>. HIDE DEF p, b
    <3>. QED  BY <1>1, <3>1, <3>2 DEF Actor
  <2>3. CASE a.edit.outcome = "stale"
    <3>1. Finished(a) = [b EXCEPT !.panel.last_view = None]
      BY <1>4, <2>3 DEF Finished
    <3>. HIDE DEF b
    <3>. QED  BY <1>2, <2>2, <3>1
  <2>4. CASE a.edit.outcome = "delivered"
    <3>1. Finished(a) = [b EXCEPT !.panel.last_view = a.edit.view]
      BY <1>4, <2>4 DEF Finished
    <3>. HIDE DEF b
    <3>. QED  BY <1>2, <2>1, <2>2, <3>1
  <2>5. CASE a.edit.outcome = "terminal"
    <3>1. Finished(a) = [b EXCEPT !.panel = NoPanel]
      BY <1>4, <2>5 DEF Finished
    <3>2. a.panel # NoPanel
      BY <2>1, Values
    <3>. HIDE DEF b
    <3>3. Finished(a) \in Actor /\ Finished(a).panel = NoPanel
      BY <1>1, <3>1 DEF Actor
    <3>4. Dropped(a) = {a.panel.message}
      BY <3>2, <3>3 DEF Dropped
    <3>. QED  BY <1>1, <1>2, <3>1, <3>2, <3>3, <3>4 DEF Actor
  <2>6. CASE a.edit.outcome \notin {"stale", "delivered", "terminal"}
    <3>1. Finished(a) = [b EXCEPT !.retry = TRUE]
      BY <1>4, <2>6 DEF Finished
    <3>. HIDE DEF b
    <3>. QED  BY <1>1, <1>2, <3>1 DEF Actor
  <2>. QED  BY <2>3, <2>4, <2>5, <2>6
<1>. QED  BY <1>3, <1>4

\* refresh spawns at most one task, with the view it was given.
LEMMA RefreshedActor ==
    ASSUME NEW a \in Actor, NEW view \in 0..MaxNow, NEW is_paused
    PROVE  LET b == Refreshed(a, view, is_paused)
           IN  /\ b \in Actor /\ b.panel = a.panel /\ b.retired = a.retired
               /\ \/ b.edit = a.edit
                  \/ /\ b.edit.message \in Messages /\ b.edit.view = view
                     /\ b.edit.message = a.panel.message
<1>1. CASE a.edit # NoEdit \/ a.retry \/ a.panel = NoPanel
  BY <1>1 DEF Refreshed
<1>2. CASE ~(a.edit # NoEdit \/ a.retry \/ a.panel = NoPanel)
  <2>1. a.panel.message \in Messages
    BY <1>2, Fields
  <2>2. ASSUME NEW kind \in {"edit", "check"}
        PROVE  /\ Task(a, kind, view) \in Edit
               /\ Task(a, kind, view).message = a.panel.message
               /\ Task(a, kind, view).view = view
    BY <2>1 DEF Task, Edit
  <2>3. CASE a.panel.last_view # view
    <3>. DEFINE e == Task(a, "edit", view)
    <3>1. Refreshed(a, view, is_paused) = [a EXCEPT !.edit = e]
      BY <1>2, <2>3 DEF Refreshed
    <3>2. e \in Edit /\ e.message = a.panel.message /\ e.view = view
      BY <2>2
    <3>. HIDE DEF e
    <3>. QED  BY <2>1, <3>1, <3>2 DEF Actor
  <2>4. CASE a.panel.last_view = view /\ is_paused /\ a.checks > 0 /\ a.check_due
    <3>. DEFINE e == Task(a, "check", view)
    <3>1. Refreshed(a, view, is_paused) =
            [a EXCEPT !.edit = e, !.checks = @ - 1, !.check_due = FALSE]
      BY <1>2, <2>4 DEF Refreshed
    <3>2. e \in Edit /\ e.message = a.panel.message /\ e.view = view
      BY <2>2
    <3>3. a.checks - 1 \in 0..3
      BY <2>4 DEF Actor
    <3>. HIDE DEF e
    <3>. QED  BY <2>1, <3>1, <3>2, <3>3 DEF Actor
  <2>5. CASE a.panel.last_view = view /\ ~(is_paused /\ a.checks > 0 /\ a.check_due)
    BY <1>2, <2>5 DEF Refreshed
  <2>. QED  BY <2>3, <2>4, <2>5
<1>. QED  BY <1>1, <1>2

-----------------------------------------------------------------------------
(* Ends of handlers.                                                       *)

\* The session still accounts for a message it had.
Kept(m) == m \in {actor'.panel.message, actor'.retired} \/ \E d \in deletions' : d.message = m

\* A handler that began with the actor a has ended, or waits for a deletion.
Ended(a, n) ==
    /\ ActorOK(actor', messages', n)
    /\ MessagesOK(messages', n) /\ Newer(messages')
    /\ DeletionsOK(deletions') /\ deletions \subseteq deletions'
    /\ a.panel # NoPanel => Kept(a.panel.message)

LEMMA RetireEnds ==
    ASSUME NEW a \in Actor, a.retired = None, a.edit = NoEdit, NEW m \in Messages,
           DeletionsOK(deletions), Retire(a, m), NEW ms, NEW n
    PROVE  /\ ActorOK(actor', ms, n) /\ actor'.panel = a.panel
           /\ DeletionsOK(deletions') /\ deletions \subseteq deletions'
           /\ Kept(m)
<1>1. CASE Cardinality(deletions) < DeletionLimit
  <2>1. /\ actor' = Idle(a)
        /\ deletions' = deletions \union {[message |-> m, attempts |-> 3]}
    BY <1>1 DEF Retire
  <2>2. ActorOK(actor', ms, n)
    BY <2>1, IdleOK DEF NewestEdit
  <2>3. [message |-> m, attempts |-> 3] \in deletions'
    BY <2>1
  <2>. QED  BY <1>1, <2>1, <2>2, <2>3, IdleActor, DeletionAdded DEF Kept
<1>2. CASE ~(Cardinality(deletions) < DeletionLimit)
  <2>1. actor' = [Idle(a) EXCEPT !.pc = "retiring", !.retired = m] /\ deletions' = deletions
    BY <1>2 DEF Retire
  <2>2. /\ actor' \in Actor /\ actor'.pc = "retiring" /\ actor'.retired = m
        /\ actor'.edit = NoEdit /\ actor'.panel = a.panel
    <3>. DEFINE idle == Idle(a)
    <3>1. idle \in Actor /\ idle.edit = NoEdit /\ idle.panel = a.panel
      BY IdleActor
    <3>. HIDE DEF idle
    <3>. DEFINE waits == [idle EXCEPT !.pc = "retiring"]
    <3>2. waits \in Actor /\ waits.pc = "retiring" /\ waits.edit = NoEdit
          /\ waits.panel = a.panel
      BY <3>1 DEF Actor
    <3>3. actor' = [waits EXCEPT !.retired = m]
      BY <2>1 DEF idle
    <3>. HIDE DEF waits
    <3>. QED  BY <3>2, <3>3 DEF Actor
  <2>3. ActorOK(actor', ms, n)
    BY <2>2 DEF ActorOK, Held, Undisturbed, NewestEdit, NewestResponse
  <2>. QED  BY <2>1, <2>2, <2>3 DEF Kept
<1>. QED  BY <1>1, <1>2

LEMMA RemovePanelEnds ==
    ASSUME NEW a \in Actor, a.retired = None, NEW n \in Nat,
           MessagesOK(messages, n), NewestEdit(a.edit, messages, n),
           DeletionsOK(deletions), RemovePanel(a)
    PROVE  Ended(a, n)
<1>. DEFINE b == [a EXCEPT !.edit = NoEdit, !.panel = NoPanel, !.checks = 0, !.retry = FALSE]
<1>1. b \in Actor /\ b.edit = NoEdit /\ b.retired = None
  <2>. DEFINE c == [a EXCEPT !.edit = NoEdit, !.panel = NoPanel]
  <2>1. c \in Actor /\ c.edit = NoEdit /\ c.retired = None
    BY DEF Actor
  <2>. DEFINE d == [c EXCEPT !.checks = 0]
  <2>2. b = [d EXCEPT !.retry = FALSE]
    OBVIOUS
  <2>. HIDE DEF c
  <2>3. d \in Actor /\ d.edit = NoEdit /\ d.retired = None
    BY <2>1 DEF Actor
  <2>. HIDE DEF b, d
  <2>. QED  BY <2>2, <2>3 DEF Actor
<1>2. /\ messages' \in Aborted(a.edit)
      /\ IF a.panel = NoPanel THEN actor' = Idle(b) /\ UNCHANGED deletions
         ELSE Retire(b, a.panel.message)
  BY DEF RemovePanel
<1>3. MessagesOK(messages', n) /\ Newer(messages')
  BY <1>2, AbortedWrites, Fields
<1>. HIDE DEF b
<1>4. CASE a.panel = NoPanel
  <2>1. ActorOK(actor', messages', n)
    BY <1>1, <1>2, <1>4, IdleOK DEF NewestEdit
  <2>. QED  BY <1>2, <1>3, <1>4, <2>1 DEF Ended
<1>5. CASE a.panel # NoPanel
  <2>1. a.panel.message \in Messages
    BY <1>5, Fields
  <2>. QED  BY <1>1, <1>2, <1>3, <1>5, <2>1, RetireEnds DEF Ended
<1>. QED  BY <1>4, <1>5

\* A task that was just spawned takes the newest view.
LEMMA RefreshedNewest ==
    ASSUME NEW a \in Actor, NEW is_paused, NEW n \in 0..MaxNow, NEW ms,
           MessagesOK(ms, n), NewestEdit(a.edit, ms, n)
    PROVE  NewestEdit(Refreshed(a, n, is_paused).edit, ms, n)
<1>. DEFINE b == Refreshed(a, n, is_paused)
<1>1. \/ b.edit = a.edit
      \/ b.edit.message \in Messages /\ b.edit.view = n
  BY RefreshedActor
<1>2. n <= n
  BY Values
<1>. HIDE DEF b
<1>. QED  BY <1>1, <1>2 DEF NewestEdit, MessagesOK, b

LEMMA RefreshEnds ==
    ASSUME NEW a \in Actor, a.retired = None,
           now' \in 0..MaxNow, MessagesOK(messages, now'),
           NewestEdit(a.edit, messages, now'), DeletionsOK(deletions), Refresh(a)
    PROVE  Ended(a, now')
<1>1. now' \in Nat
  BY Values
<1>2. CASE ~playing'
  <2>1. RemovePanel(a)
    BY <1>2 DEF Refresh
  <2>. QED  BY <1>1, <2>1, RemovePanelEnds
<1>3. CASE playing'
  <2>. DEFINE b == Refreshed(a, now', paused')
  <2>1. /\ actor' = Idle(b) /\ messages' = messages /\ deletions' = deletions
    BY <1>3 DEF Refresh
  <2>2. b \in Actor /\ b.panel = a.panel /\ b.retired = None
    BY RefreshedActor
  <2>3. NewestEdit(b.edit, messages, now')
    BY RefreshedNewest
  <2>. HIDE DEF b
  <2>4. ActorOK(Idle(b), messages, now')
    BY <2>2, <2>3, IdleOK
  <2>5. Idle(b).panel = a.panel
    BY <2>2, IdleActor
  <2>6. Newer(messages)
    BY Values DEF MessagesOK, Message, Newer
  <2>. QED  BY <2>1, <2>4, <2>5, <2>6 DEF Ended, Kept
<1>. QED  BY <1>2, <1>3

-----------------------------------------------------------------------------
(* The invariant, action by action.                                        *)

\* What each step does to the rest of the state.
PlainSteps ==
    /\ now' \in 0..MaxNow /\ now <= now'
    /\ playing' \in BOOLEAN /\ paused' \in BOOLEAN
    /\ left' \in [DOMAIN Bounds -> Nat]

LEMMA Spending ==
    ASSUME PlainOK, NEW bound \in DOMAIN Bounds, Spend(bound)
    PROVE  left' \in [DOMAIN Bounds -> Nat] /\ left'[bound] < left[bound]
<1>1. left[bound] \in Nat /\ left[bound] > 0
  BY DEF PlainOK, Spend
<1>. QED  BY <1>1 DEF PlainOK, Spend

LEMMA NewerView ==
    ASSUME PanelInv, now' \in 0..MaxNow, now <= now'
    PROVE  /\ MessagesOK(messages, now')
           /\ NewestEdit(actor.edit, messages, now')
<1>1. now \in Nat /\ now' \in Nat
  BY Values DEF PanelInv, PlainOK
<1>2. \A m \in Messages : messages[m].shows \in Nat
  BY Values DEF PanelInv, MessagesOK, Message
<1>3. actor.edit # NoEdit => actor.edit.view \in Nat
  BY Fields, Values DEF PanelInv, ActorOK, Held
<1>. QED  BY <1>1, <1>2, <1>3 DEF PanelInv, ActorOK, MessagesOK, NewestEdit

LEMMA UncheckedType ==
    ASSUME PanelInv, Unchecked
    PROVE  unchecked' \subseteq Messages
<1>1. actor.panel.message \in Messages \union {None} /\ unchecked \subseteq Messages
  BY Fields DEF PanelInv, PlainOK, ActorOK, Held
<1>. QED  BY <1>1 DEF Unchecked

\* What a step does to the messages of which nobody else knows.
LEMMA EndedStep ==
    ASSUME PanelInv, PlainSteps, actor.pc # "retiring",
           abandoned \subseteq abandoned', abandoned' \subseteq Messages,
           unchecked' \subseteq Messages,
           NEW a \in Actor, Ended(a, now'),
           \/ a.panel.message = actor.panel.message
           \/ actor.panel.message \in abandoned'
    PROVE  PanelInv' /\ Onward
<1>1. OneOwnedMessage'
  <2>. SUFFICES ASSUME NEW m \in Messages, messages'[m].state = "live"
                PROVE  Kept(m) \/ m \in abandoned'
    BY DEF OneOwnedMessage, Kept
  <2>1. messages[m].state = "live"
    BY DEF Ended, Newer
  <2>2. actor.retired # m
    BY Values DEF PanelInv, ActorOK, Held
  <2>3. \/ m = actor.panel.message
        \/ \E d \in deletions : d.message = m
        \/ m \in abandoned
    BY <2>1, <2>2 DEF PanelInv, OneOwnedMessage
  <2>4. CASE m = actor.panel.message /\ a.panel.message = m
    <3>1. a.panel # NoPanel
      BY <2>4, Fields, Values
    <3>. QED  BY <2>4, <3>1 DEF Ended
  <2>5. CASE \E d \in deletions : d.message = m
    BY <2>5 DEF Ended, Kept
  <2>. QED  BY <2>3, <2>4, <2>5
<1>2. Onward
  <2>1. \A m \in Messages : messages[m].shows \in Nat /\ messages'[m].shows \in Nat
    BY Values DEF PanelInv, Ended, MessagesOK, Message
  <2>. QED  BY <2>1 DEF Onward, Ended, Newer
<1>. QED  BY <1>1, <1>2 DEF PanelInv, PlainOK, PlainSteps, Ended

\* A step that keeps the messages and what the session owns of them.
LEMMA WaitingStep ==
    ASSUME PanelInv, PlainSteps, messages' = messages, deletions' = deletions,
           abandoned \subseteq abandoned', abandoned' \subseteq Messages,
           unchecked' \subseteq Messages,
           ActorOK(actor', messages, now'), actor'.retired = actor.retired,
           \/ actor'.panel.message = actor.panel.message
           \/ actor.panel.message \in abandoned'
    PROVE  PanelInv' /\ Onward
<1>1. MessagesOK(messages, now')
  BY NewerView DEF PlainSteps
<1>2. OneOwnedMessage'
  BY DEF PanelInv, OneOwnedMessage
<1>3. Onward
  BY Values DEF Onward, PanelInv, MessagesOK, Message
<1>. QED  BY <1>1, <1>2, <1>3 DEF PanelInv, PlainOK, PlainSteps

LEMMA RespondingOK ==
    ASSUME NEW a \in Actor, a.retired = None, a.edit = NoEdit,
           a.handler = "click" => a.clicked \in Messages,
           now' \in 0..MaxNow, MessagesOK(messages, now')
    PROVE  /\ ActorOK(Responding(a), messages, now')
           /\ Responding(a).panel = a.panel /\ Responding(a).retired = None
           /\ Responding(a).pc = "responding"
<1>. DEFINE checks == IF a.handler = "present" THEN 0 ELSE a.checks
            b == [a EXCEPT !.pc = "responding", !.view = now']
<1>1. checks \in 0..3
  BY DEF Actor
<1>2. /\ b \in Actor /\ b.pc = "responding" /\ b.view = now' /\ b.edit = NoEdit
      /\ b.panel = a.panel /\ b.retired = None /\ b.handler = a.handler
      /\ b.clicked = a.clicked
  BY DEF Actor
<1>3. Responding(a) = [b EXCEPT !.checks = checks]
  BY DEF Responding
<1>. HIDE DEF b, checks
<1>4. /\ Responding(a) \in Actor /\ Responding(a).pc = "responding"
      /\ Responding(a).view = now' /\ Responding(a).edit = NoEdit
      /\ Responding(a).panel = a.panel /\ Responding(a).retired = None
      /\ Responding(a).handler = a.handler /\ Responding(a).clicked = a.clicked
  BY <1>1, <1>2, <1>3 DEF Actor
<1>5. now' <= now'
  BY Values
<1>. HIDE DEF Responding
<1>. QED
  BY <1>4, <1>5 DEF ActorOK, Held, Undisturbed, NewestEdit, NewestResponse, MessagesOK

LEMMA FlushOK ==
    ASSUME PanelInv, actor.pc = "idle", PlainSteps,
           NEW handler \in {"present", "click"}, NEW clicked \in Messages \union {None},
           handler = "click" => clicked \in Messages,
           Flush(actor, handler, clicked)
    PROVE  /\ ActorOK(actor', messages, now')
           /\ actor'.panel = actor.panel /\ actor'.retired = actor.retired
<1>. DEFINE b == [actor EXCEPT !.handler = handler, !.clicked = clicked]
<1>1. actor \in Actor /\ actor.retired = None
  BY DEF PanelInv, ActorOK, Held
<1>2. /\ b \in Actor /\ b.handler = handler /\ b.clicked = clicked /\ b.pc = "idle"
      /\ b.retired = None /\ b.panel = actor.panel /\ b.edit = actor.edit
  BY <1>1 DEF Actor
<1>3. MessagesOK(messages, now') /\ NewestEdit(actor.edit, messages, now')
  BY NewerView DEF PlainSteps
<1>4. actor' = IF actor.edit = NoEdit THEN Responding(b) ELSE [b EXCEPT !.pc = "flushing"]
  BY DEF Flush
<1>. HIDE DEF b
<1>5. CASE actor.edit = NoEdit
  BY <1>1, <1>2, <1>3, <1>4, <1>5, RespondingOK DEF PlainSteps
<1>6. CASE actor.edit # NoEdit
  <2>1. /\ actor' \in Actor /\ actor'.pc = "flushing" /\ actor'.handler = handler
        /\ actor'.clicked = clicked /\ actor'.retired = None
        /\ actor'.panel = actor.panel /\ actor'.edit = actor.edit
    BY <1>2, <1>4, <1>6 DEF Actor
  <2>. QED
    BY <1>1, <1>3, <2>1 DEF ActorOK, Held, Undisturbed, NewestResponse
<1>. QED  BY <1>5, <1>6

\* The facts about the actor that every case needs.
LEMMA ActorFacts ==
    ASSUME PanelInv
    PROVE  /\ actor \in Actor /\ (actor.pc # "retiring" => actor.retired = None)
           /\ now \in 0..MaxNow /\ now \in Nat
           /\ abandoned \subseteq Messages /\ unchecked \subseteq Messages
           /\ MessagesOK(messages, now) /\ NewestEdit(actor.edit, messages, now)
           /\ DeletionsOK(deletions)
BY Values DEF PanelInv, PlainOK, ActorOK, Held

LEMMA VersionGrows ==
    ASSUME PanelInv, now' = now \/ (now < MaxNow /\ now' = now + 1)
    PROVE  now' \in 0..MaxNow /\ now <= now'
BY ActorFacts, Values

LEMMA StillPlain ==
    ASSUME PanelInv, UNCHANGED <<now, playing, paused>>,
           left' = left \/ \E bound \in DOMAIN Bounds : Spend(bound)
    PROVE  PlainSteps
<1>1. left' \in [DOMAIN Bounds -> Nat]
  BY Spending DEF PanelInv, PlainOK
<1>. QED  BY <1>1, ActorFacts DEF PanelInv, PlainOK, PlainSteps

LEMMA EditJoinedStep ==
    ASSUME PanelInv, EditJoined
    PROVE  PanelInv' /\ Onward
<1>. DEFINE a == Finished(actor)
<1>1. PlainSteps
  BY StillPlain DEF EditJoined
<1>2. actor.pc = "idle" /\ actor.edit # NoEdit
  BY DEF EditJoined, EditDone
<1>3. /\ a \in Actor /\ a.edit = NoEdit /\ a.retired = None
      /\ \/ a.panel.message = actor.panel.message
         \/ Dropped(actor) = {actor.panel.message}
      /\ Dropped(actor) \subseteq Messages
  BY <1>2, ActorFacts, FinishedActor
<1>4. Refresh(a) /\ abandoned' = abandoned \union Dropped(actor) /\ unchecked' = unchecked
  BY DEF EditJoined
<1>. HIDE DEF a
<1>5. MessagesOK(messages, now') /\ now' \in 0..MaxNow
  BY <1>1, NewerView DEF PlainSteps
<1>6. Ended(a, now')
  BY <1>3, <1>4, <1>5, ActorFacts, RefreshEnds DEF NewestEdit
<1>. QED  BY <1>1, <1>2, <1>3, <1>4, <1>6, ActorFacts, EndedStep

\* Change and Tick, and every other handler that only refreshes.
LEMMA RefreshStep ==
    ASSUME PanelInv, PlainSteps, actor.pc = "idle", Refresh(actor),
           UNCHANGED <<abandoned, unchecked>>
    PROVE  PanelInv' /\ Onward
<1>1. MessagesOK(messages, now') /\ NewestEdit(actor.edit, messages, now')
  BY NewerView DEF PlainSteps
<1>2. Ended(actor, now')
  BY <1>1, ActorFacts, RefreshEnds DEF PlainSteps
<1>. QED  BY <1>2, ActorFacts, EndedStep

LEMMA PresentStep ==
    ASSUME PanelInv, Present
    PROVE  PanelInv' /\ Onward
<1>1. PlainSteps
  <2>. DEFINE starts == ~playing /\ now < MaxNow
                        /\ now' = now + 1 /\ playing' = TRUE /\ paused' = FALSE
              lasts == UNCHANGED <<now, playing, paused>>
  <2>0. starts \/ lasts
    BY DEF Present
  <2>1. now' = now \/ (now < MaxNow /\ now' = now + 1)
    BY <2>0
  <2>2. playing' \in BOOLEAN /\ paused' \in BOOLEAN
    <3>1. playing \in BOOLEAN /\ paused \in BOOLEAN
      BY DEF PanelInv, PlainOK
    <3>2. \/ playing' = TRUE /\ paused' = FALSE
          \/ playing' = playing /\ paused' = paused
      BY <2>0
    <3>. QED  BY <3>1, <3>2
  <2>3. left' = left
    BY DEF Present
  <2>. QED  BY <2>1, <2>2, <2>3, VersionGrows DEF PlainSteps, PanelInv, PlainOK
<1>2. unchecked' \subseteq Messages /\ abandoned' = abandoned /\ actor.pc = "idle"
  BY UncheckedType DEF Present
<1>3. CASE ~playing'
  <2>1. RemovePanel(actor)
    BY <1>3 DEF Present
  <2>2. Ended(actor, now')
    BY <1>1, <1>2, <2>1, ActorFacts, NewerView, RemovePanelEnds, Values DEF PlainSteps
  <2>. QED  BY <1>1, <1>2, <2>2, ActorFacts, EndedStep
<1>4. CASE playing'
  <2>1. Flush(actor, "present", None) /\ messages' = messages /\ deletions' = deletions
    BY <1>4 DEF Present
  <2>2. /\ ActorOK(actor', messages, now')
        /\ actor'.panel = actor.panel /\ actor'.retired = actor.retired
    BY <1>1, <1>2, <2>1, FlushOK
  <2>. QED  BY <1>1, <1>2, <2>1, <2>2, ActorFacts, WaitingStep
<1>. QED  BY <1>3, <1>4

LEMMA ClickStep ==
    ASSUME PanelInv, Click
    PROVE  PanelInv' /\ Onward
<1>1. PlainSteps
  <2>1. now' = now \/ (now < MaxNow /\ now' = now + 1)
    BY DEF Click
  <2>2. playing' \in BOOLEAN /\ paused' \in BOOLEAN
    BY DEF Click, PanelInv, PlainOK
  <2>3. left' = left
    BY DEF Click
  <2>. QED  BY <2>1, <2>2, <2>3, VersionGrows DEF PlainSteps, PanelInv, PlainOK
<1>2. actor.panel.message \in Messages
  BY ActorFacts, Fields DEF Click
<1>3. /\ ActorOK(actor', messages, now')
      /\ actor'.panel = actor.panel /\ actor'.retired = actor.retired
  BY <1>1, <1>2, FlushOK DEF Click
<1>. QED  BY <1>1, <1>3, ActorFacts, WaitingStep DEF Click

LEMMA FlushedStep ==
    ASSUME PanelInv, Flushed
    PROVE  PanelInv' /\ Onward
<1>. DEFINE a == Finished(actor)
<1>1. PlainSteps
  BY StillPlain DEF Flushed
<1>2. actor.pc = "flushing" /\ actor.edit # NoEdit
  BY DEF Flushed, EditDone
<1>3. /\ a \in Actor /\ a.edit = NoEdit /\ a.retired = None
      /\ a.handler = actor.handler /\ a.clicked = actor.clicked
      /\ \/ a.panel.message = actor.panel.message
         \/ Dropped(actor) = {actor.panel.message}
      /\ Dropped(actor) \subseteq Messages
  BY <1>2, ActorFacts, FinishedActor
<1>4. /\ actor' = Responding(a) /\ abandoned' = abandoned \union Dropped(actor)
      /\ messages' = messages /\ deletions' = deletions /\ unchecked' \subseteq Messages
  BY UncheckedType DEF Flushed
<1>. HIDE DEF a
<1>5. MessagesOK(messages, now')
  BY <1>1, NewerView DEF PlainSteps
<1>6. a.handler = "click" => a.clicked \in Messages
  BY <1>2, <1>3 DEF PanelInv, ActorOK, Held
<1>7. /\ ActorOK(actor', messages, now')
      /\ actor'.panel = a.panel /\ actor'.retired = None
  BY <1>1, <1>3, <1>4, <1>5, <1>6, RespondingOK DEF PlainSteps
<1>8. actor.retired = None
  BY <1>2, ActorFacts
<1>. QED  BY <1>1, <1>3, <1>4, <1>7, <1>8, ActorFacts, WaitingStep

LEMMA PresentFailsStep ==
    ASSUME PanelInv, PresentFails
    PROVE  PanelInv' /\ Onward
<1>1. PlainSteps
  BY StillPlain DEF PresentFails, Bounds
<1>2. /\ actor' = Idle(actor) /\ actor.retired = None
      /\ now' = now
  BY ActorFacts DEF PresentFails
<1>3. ActorOK(actor', messages, now')
  BY <1>2, ActorFacts, IdleOK
<1>. QED  BY <1>1, <1>2, <1>3, ActorFacts, IdleActor, WaitingStep DEF PresentFails

\* A message that is born shows what the response said.
LEMMA Born ==
    ASSUME PanelInv, NEW m \in Messages, actor.pc = "responding",
           messages' = [messages EXCEPT ![m] =
             [state |-> "live", shows |-> actor.view, before |-> actor.view]]
    PROVE  /\ MessagesOK(messages', now)
           /\ \A x \in Messages : x # m => messages'[x] = messages[x]
<1>. DEFINE new == [state |-> "live", shows |-> actor.view, before |-> actor.view]
<1>1. actor.view \in 0..MaxNow /\ actor.view <= now
  BY DEF PanelInv, ActorOK, Held, NewestResponse
<1>2. new \in Message /\ new.before <= new.shows /\ new.shows <= now
  BY <1>1, Values DEF Message
<1>3. messages' = [messages EXCEPT ![m] = new]
  OBVIOUS
<1>. HIDE DEF new
<1>4. messages \in [Messages -> Message]
  BY DEF PanelInv, MessagesOK
<1>. QED  BY <1>2, <1>3, <1>4 DEF PanelInv, MessagesOK

LEMMA PresentedStep ==
    ASSUME PanelInv, Presented
    PROVE  PanelInv' /\ Onward
<1>1. PICK m \in Messages :
        /\ messages[m].state = "unborn"
        /\ messages' = [messages EXCEPT ![m] = [state |-> "live", shows |-> actor.view,
                                                before |-> actor.view]]
        /\ LET a == [actor EXCEPT !.panel = [message |-> m, last_view |-> actor.view]]
           IN  IF actor.panel = NoPanel THEN actor' = Idle(a) /\ UNCHANGED deletions
               ELSE Retire(a, actor.panel.message)
  BY DEF Presented
<1>2. /\ actor.pc = "responding" /\ UNCHANGED <<now, playing, paused>>
      /\ abandoned' = abandoned /\ unchecked' = unchecked /\ left' = left
  BY DEF Presented
<1>3. PlainSteps
  BY <1>2, StillPlain
<1>. DEFINE panel == [message |-> m, last_view |-> actor.view]
            a == [actor EXCEPT !.panel = panel]
<1>4. actor.view \in 0..MaxNow /\ actor.edit = NoEdit /\ actor.retired = None
  BY <1>2 DEF PanelInv, ActorOK, Held, Undisturbed
<1>5. panel \in Panel /\ panel.message = m
  BY <1>4 DEF Panel
<1>6. IF actor.panel = NoPanel THEN actor' = Idle(a) /\ UNCHANGED deletions
      ELSE Retire(a, actor.panel.message)
  BY <1>1
<1>. HIDE DEF panel
<1>7. a \in Actor /\ a.panel = panel /\ a.edit = NoEdit /\ a.retired = None
  BY <1>4, <1>5, ActorFacts DEF Actor
<1>. HIDE DEF a
<1>8. /\ MessagesOK(messages', now')
      /\ \A x \in Messages : x # m => messages'[x] = messages[x]
  BY <1>1, <1>2, Born
<1>9. /\ ActorOK(actor', messages', now') /\ actor'.panel.message = m
      /\ DeletionsOK(deletions') /\ deletions \subseteq deletions'
      /\ actor.panel # NoPanel => Kept(actor.panel.message)
  <2>1. CASE actor.panel = NoPanel
    BY <1>5, <1>6, <1>7, <2>1, ActorFacts, IdleOK, IdleActor DEF NewestEdit
  <2>2. CASE actor.panel # NoPanel
    <3>1. actor.panel.message \in Messages
      BY <2>2, ActorFacts, Fields
    <3>. QED  BY <1>5, <1>6, <1>7, <2>2, <3>1, ActorFacts, RetireEnds
  <2>. QED  BY <2>1, <2>2
<1>10. OneOwnedMessage'
  <2>. SUFFICES ASSUME NEW x \in Messages, messages'[x].state = "live"
                PROVE  Kept(x) \/ x \in abandoned'
    BY DEF OneOwnedMessage, Kept
  <2>1. CASE x = m
    BY <1>9, <2>1 DEF Kept
  <2>2. CASE x # m
    <3>1. messages[x].state = "live" /\ actor.retired # x
      BY <1>4, <1>8, <2>2, Values
    <3>2. \/ x = actor.panel.message
          \/ \E d \in deletions : d.message = x
          \/ x \in abandoned
      BY <3>1 DEF PanelInv, OneOwnedMessage
    <3>3. x = actor.panel.message => actor.panel # NoPanel
      BY ActorFacts, Fields, Values
    <3>. QED  BY <1>2, <1>9, <3>2, <3>3 DEF Kept
  <2>. QED  BY <2>1, <2>2
<1>11. Onward
  <2>1. messages[m].state # "live"
    BY <1>1
  <2>2. \A x \in Messages : messages[x].shows \in Nat
    BY ActorFacts, Values DEF MessagesOK, Message
  <2>. QED  BY <1>8, <2>1, <2>2 DEF Onward
<1>. QED  BY <1>2, <1>3, <1>8, <1>9, <1>10, <1>11 DEF PanelInv, PlainOK, PlainSteps

LEMMA AcknowledgedActor ==
    ASSUME NEW a \in Actor, a.view \in 0..MaxNow
    PROVE  /\ Acknowledged(a) \in Actor /\ Acknowledged(a).edit = a.edit
           /\ Acknowledged(a).retired = a.retired
           /\ Acknowledged(a).panel.message = a.panel.message
<1>1. CASE a.panel = NoPanel
  BY <1>1 DEF Acknowledged
<1>2. CASE a.panel # NoPanel
  <2>. DEFINE p == [a.panel EXCEPT !.last_view = a.view]
              b == [a EXCEPT !.panel = p]
              checks == IF paused THEN 3 ELSE 0
              c == [b EXCEPT !.checks = checks]
  <2>1. p \in Panel /\ p.message = a.panel.message
    BY <1>2, Fields DEF Panel
  <2>2. Acknowledged(a) = [c EXCEPT !.check_due = FALSE]
    BY <1>2 DEF Acknowledged, Actor
  <2>3. checks \in 0..3
    OBVIOUS
  <2>. HIDE DEF p, checks
  <2>4. b \in Actor /\ b.edit = a.edit /\ b.retired = a.retired /\ b.panel = p
    BY <2>1 DEF Actor
  <2>. HIDE DEF b
  <2>5. c \in Actor /\ c.edit = a.edit /\ c.retired = a.retired /\ c.panel = p
    BY <2>3, <2>4 DEF Actor
  <2>. HIDE DEF c
  <2>. QED  BY <2>1, <2>2, <2>5 DEF Actor
<1>. QED  BY <1>1, <1>2

\* The response to a button writes the newest view, or nothing.
LEMMA Response ==
    ASSUME PanelInv, actor.pc = "responding", actor.handler = "click",
           messages' \in PerhapsWritten(actor.clicked, actor.view)
    PROVE  MessagesOK(messages', now) /\ Newer(messages')
<1>1. /\ actor.clicked \in Messages /\ actor.view \in 0..MaxNow /\ actor.view <= now
      /\ messages[actor.clicked].shows <= actor.view
  BY DEF PanelInv, ActorOK, Held, NewestResponse
<1>. QED  BY <1>1, ActorFacts, Writes DEF Newer

LEMMA AnsweredStep ==
    ASSUME PanelInv, ClickAnswered \/ ClickFails
    PROVE  PanelInv' /\ Onward
<1>. DEFINE a == IF ClickAnswered THEN Acknowledged(actor) ELSE actor
            b == Refreshed(a, now, paused)
<1>1. /\ actor.pc = "responding" /\ actor.handler = "click"
      /\ UNCHANGED <<now, playing, paused, deletions, abandoned, unchecked>>
  BY DEF ClickAnswered, ClickFails
<1>2. PlainSteps
  <2>1. left' = left \/ Spend("failures")
    BY DEF ClickAnswered, ClickFails
  <2>. QED  BY <1>1, <2>1, StillPlain DEF Bounds
<1>3. messages' \in PerhapsWritten(actor.clicked, actor.view)
  BY DEF ClickAnswered, ClickFails, PerhapsWritten
<1>4. MessagesOK(messages', now') /\ Newer(messages')
  BY <1>1, <1>3, Response
<1>5. actor.edit = NoEdit /\ actor.view \in 0..MaxNow
  BY <1>1 DEF PanelInv, ActorOK, Held, Undisturbed
<1>6. actor' = Idle(b)
  BY DEF ClickAnswered, ClickFails
<1>7. /\ a \in Actor /\ a.edit = NoEdit /\ a.retired = None
      /\ a.panel.message = actor.panel.message
  BY <1>1, <1>5, ActorFacts, AcknowledgedActor
<1>. HIDE DEF a
<1>8. b \in Actor /\ b.panel = a.panel /\ b.retired = a.retired
  BY <1>7, ActorFacts, RefreshedActor
<1>9. NewestEdit(b.edit, messages', now)
  BY <1>1, <1>4, <1>7, ActorFacts, RefreshedNewest DEF NewestEdit
<1>. HIDE DEF b
<1>10. ActorOK(actor', messages', now') /\ actor'.panel = a.panel
  BY <1>1, <1>6, <1>7, <1>8, <1>9, IdleOK, IdleActor
<1>11. Ended(a, now')
  BY <1>1, <1>4, <1>10, ActorFacts DEF Ended, Kept
<1>. QED  BY <1>1, <1>2, <1>7, <1>11, ActorFacts, EndedStep

LEMMA ClickStoppedStep ==
    ASSUME PanelInv, ClickStopped
    PROVE  PanelInv' /\ Onward
<1>1. PlainSteps
  BY StillPlain DEF ClickStopped
<1>2. actor.pc = "responding" /\ RemovePanel(actor) /\ now' = now
  BY DEF ClickStopped
<1>3. Ended(actor, now')
  BY <1>2, ActorFacts, RemovePanelEnds
<1>. QED  BY <1>1, <1>2, <1>3, ActorFacts, EndedStep DEF ClickStopped

LEMMA RetiredStep ==
    ASSUME PanelInv, Retired
    PROVE  PanelInv' /\ Onward
<1>. DEFINE a == [actor EXCEPT !.retired = None]
            m == actor.retired
<1>1. PlainSteps
  BY StillPlain DEF Retired
<1>2. /\ actor.pc = "retiring" /\ Retire(a, m)
      /\ UNCHANGED <<now, messages, abandoned, unchecked>>
  BY DEF Retired
<1>3. m \in Messages /\ actor.edit = NoEdit
  BY <1>2 DEF PanelInv, ActorOK, Held, Undisturbed
<1>4. a \in Actor /\ a.retired = None /\ a.edit = NoEdit /\ a.panel = actor.panel
  BY <1>3, ActorFacts DEF Actor
<1>. HIDE DEF a
<1>5. /\ ActorOK(actor', messages', now') /\ actor'.panel = actor.panel
      /\ DeletionsOK(deletions') /\ deletions \subseteq deletions' /\ Kept(m)
  BY <1>2, <1>3, <1>4, ActorFacts, RetireEnds
<1>6. OneOwnedMessage'
  BY <1>2, <1>5 DEF PanelInv, OneOwnedMessage, Kept
<1>7. Onward
  BY <1>2, ActorFacts, Values DEF Onward, MessagesOK, Message
<1>. QED  BY <1>1, <1>2, <1>5, <1>6, <1>7, ActorFacts DEF PanelInv, PlainOK, PlainSteps

-----------------------------------------------------------------------------
(* The background tasks and Discord.                                       *)

\* A task that gets its result writes no more.
LEMMA OutcomeActor ==
    ASSUME PanelInv, actor.edit # NoEdit,
           NEW outcome \in {"delivered", "stale", "transient", "terminal"},
           Outcome(outcome), NEW ms
    PROVE  /\ ActorOK(actor', ms, now)
           /\ actor'.panel = actor.panel /\ actor'.retired = actor.retired
<1>. DEFINE e == [actor.edit EXCEPT !.outcome = outcome]
<1>1. actor.edit \in Edit /\ actor \in Actor
  BY ActorFacts, Fields
<1>2. /\ e \in Edit /\ e.outcome = outcome /\ e.view = actor.edit.view
  BY <1>1 DEF Edit
<1>3. actor' = [actor EXCEPT !.edit = e]
  BY <1>1 DEF Outcome, Actor
<1>. HIDE DEF e
<1>4. /\ actor' \in Actor /\ actor'.edit = e /\ actor'.pc = actor.pc
      /\ actor'.panel = actor.panel /\ actor'.retired = actor.retired
      /\ actor'.handler = actor.handler /\ actor'.clicked = actor.clicked
      /\ actor'.view = actor.view
  BY <1>1, <1>2, <1>3 DEF Actor
<1>5. actor.pc \notin {"responding", "retiring"}
  BY DEF PanelInv, ActorOK, Undisturbed
<1>6. NewestEdit(e, ms, now)
  BY <1>2 DEF PanelInv, ActorOK, NewestEdit
<1>. QED
  BY <1>4, <1>5, <1>6 DEF PanelInv, ActorOK, Held, Undisturbed, NewestResponse

LEMMA OutcomeStep ==
    ASSUME PanelInv, actor.edit # NoEdit, Handlers,
           UNCHANGED <<deletions, abandoned, unchecked>>,
           NEW outcome \in {"delivered", "stale", "transient", "terminal"},
           Outcome(outcome), left' = left \/ Spend("failures"),
           \/ messages' = messages
           \/ /\ actor.edit.kind = "edit" /\ actor.edit.outcome = "pending"
              /\ messages' \in PerhapsWritten(actor.edit.message, actor.edit.view)
    PROVE  PanelInv' /\ Onward
<1>1. PlainSteps
  BY StillPlain DEF Handlers, Bounds
<1>2. messages' \in Aborted(actor.edit) \union {messages}
  BY DEF Aborted
<1>3. MessagesOK(messages', now) /\ Newer(messages')
  <2>1. CASE messages' = messages
    BY <2>1, ActorFacts, Values DEF MessagesOK, Message, Newer
  <2>2. CASE messages' \in Aborted(actor.edit)
    BY <2>2, ActorFacts, Fields, AbortedWrites
  <2>. QED  BY <1>2, <2>1, <2>2
<1>4. /\ ActorOK(actor', messages', now)
      /\ actor'.panel = actor.panel /\ actor'.retired = actor.retired
  BY OutcomeActor
<1>5. OneOwnedMessage'
  BY <1>3, <1>4 DEF PanelInv, OneOwnedMessage, Newer
<1>6. Onward
  <2>1. \A m \in Messages : messages[m].shows \in Nat /\ messages'[m].shows \in Nat
    BY <1>3, ActorFacts, Values DEF MessagesOK, Message
  <2>. QED  BY <1>3, <2>1 DEF Onward, Newer
<1>. QED  BY <1>1, <1>3, <1>4, <1>5, <1>6, ActorFacts DEF PanelInv, PlainOK, PlainSteps, Handlers

LEMMA EditStep ==
    ASSUME PanelInv, EditDelivered \/ EditUnanswered \/ EditRefused
    PROVE  PanelInv' /\ Onward
<1>1. /\ actor.edit # NoEdit /\ actor.edit.kind = "edit"
      /\ actor.edit.outcome = "pending"
      /\ Handlers /\ UNCHANGED <<deletions, abandoned, unchecked>>
      /\ left' = left \/ Spend("failures")
  BY DEF EditDelivered, EditUnanswered, EditRefused, Pending
<1>2. /\ Outcome("delivered") \/ Outcome("transient") \/ Outcome("terminal")
      /\ \/ messages' = messages
         \/ messages' \in PerhapsWritten(actor.edit.message, actor.edit.view)
  BY DEF EditDelivered, EditUnanswered, EditRefused, PerhapsWritten
<1>. QED  BY <1>1, <1>2, OutcomeStep

LEMMA CheckStep ==
    ASSUME PanelInv, Checked \/ CheckUnanswered
    PROVE  PanelInv' /\ Onward
<1>1. /\ actor.edit # NoEdit
      /\ Handlers /\ UNCHANGED <<messages, deletions, abandoned, unchecked>>
      /\ left' = left \/ Spend("failures")
  BY DEF Checked, CheckUnanswered, Pending
<1>2. Outcome("delivered") \/ Outcome("stale") \/ Outcome("transient")
  BY DEF Checked, CheckUnanswered
<1>. QED  BY <1>1, <1>2, OutcomeStep

\* Messages of which one may be gone.
LEMMA GoneOK ==
    ASSUME PanelInv, NEW m \in Messages
    PROVE  /\ MessagesOK(Gone(m), now) /\ Gone(m)[m].state = "gone"
           /\ \A x \in Messages : Gone(m)[x].shows = messages[x].shows
           /\ \A x \in Messages : x # m => Gone(m)[x] = messages[x]
<1>. DEFINE new == [messages[m] EXCEPT !.state = "gone"]
<1>1. messages \in [Messages -> Message]
  BY ActorFacts DEF MessagesOK
<1>2. Gone(m) = [messages EXCEPT ![m] = new]
  BY <1>1 DEF Gone
<1>3. /\ new \in Message /\ new.state = "gone" /\ new.shows = messages[m].shows
      /\ new.before = messages[m].before
  BY <1>1 DEF Message
<1>. HIDE DEF new
<1>4. /\ Gone(m) \in [Messages -> Message] /\ Gone(m)[m] = new
      /\ \A x \in Messages : x # m => Gone(m)[x] = messages[x]
  BY <1>1, <1>2, <1>3
<1>5. \A x \in Messages : /\ Gone(m)[x].shows = messages[x].shows
                          /\ Gone(m)[x].before = messages[x].before
  BY <1>3, <1>4
<1>6. \A x \in Messages : messages[x].before <= messages[x].shows /\ messages[x].shows <= now
  BY ActorFacts DEF MessagesOK
<1>7. MessagesOK(Gone(m), now)
  BY <1>4, <1>5, <1>6 DEF MessagesOK
<1>. QED  BY <1>3, <1>4, <1>5, <1>7

\* What others do to a message leaves the actor as it was.
LEMMA SameActor ==
    ASSUME PanelInv, NEW ms, \A x \in Messages : ms[x].shows <= messages[x].shows,
           MessagesOK(ms, now)
    PROVE  ActorOK(actor, ms, now)
<1>1. \A x \in Messages : messages[x].shows \in Nat /\ ms[x].shows \in Nat
  BY ActorFacts, Values DEF MessagesOK, Message
<1>2. actor.edit # NoEdit => actor.edit.message \in Messages /\ actor.edit.view \in Nat
  BY ActorFacts, Fields, Values
<1>3. actor.pc = "responding" => actor.view \in Nat
  BY Values DEF PanelInv, ActorOK, Held
<1>4. NewestEdit(actor.edit, ms, now)
  BY <1>1, <1>2 DEF PanelInv, ActorOK, NewestEdit
<1>5. NewestResponse(actor, ms, now)
  BY <1>1, <1>3 DEF PanelInv, ActorOK, Held, NewestResponse
<1>. QED  BY <1>4, <1>5 DEF PanelInv, ActorOK

LEMMA GoneStep ==
    ASSUME PanelInv, NEW m \in Messages, messages' = Gone(m),
           Handlers, UNCHANGED <<actor, abandoned, unchecked>>,
           DeletionsOK(deletions'), \A d \in deletions : d \in deletions' \/ d.message = m,
           left' = left \/ Spend("deleted")
    PROVE  PanelInv' /\ Onward
<1>1. PlainSteps
  BY StillPlain DEF Handlers, Bounds
<1>2. \A x \in Messages : messages[x].shows \in Nat
  BY ActorFacts, Values DEF MessagesOK, Message
<1>3. ActorOK(actor', messages', now')
  BY <1>2, GoneOK, SameActor DEF Handlers
<1>4. OneOwnedMessage'
  BY GoneOK DEF PanelInv, OneOwnedMessage
<1>5. Onward
  BY <1>2, GoneOK DEF Onward
<1>. QED
  BY <1>1, <1>3, <1>4, <1>5, ActorFacts, GoneOK
     DEF PanelInv, PlainOK, PlainSteps, Handlers

LEMMA DeletedStep ==
    ASSUME PanelInv, Deleted
    PROVE  PanelInv' /\ Onward
<1>1. PICK d \in deletions :
        /\ messages' = Gone(d.message) /\ deletions' = deletions \ {d}
        /\ Handlers /\ UNCHANGED <<actor, abandoned, unchecked, left>>
  BY DEF Deleted
<1>2. d.message \in Messages
  BY ActorFacts DEF DeletionsOK, Deletion
<1>3. DeletionsOK(deletions')
  BY <1>1, ActorFacts, DeletionRemoved
<1>. QED  BY <1>1, <1>2, <1>3, GoneStep

LEMMA DeletedByOthersStep ==
    ASSUME PanelInv, DeletedByOthers
    PROVE  PanelInv' /\ Onward
<1>1. PICK m \in Messages :
        /\ messages' = Gone(m) /\ Spend("deleted")
        /\ Handlers /\ UNCHANGED <<actor, deletions, abandoned, unchecked>>
  BY DEF DeletedByOthers
<1>. QED  BY <1>1, ActorFacts, GoneStep

LEMMA DeletionFailsStep ==
    ASSUME PanelInv, DeletionFails
    PROVE  PanelInv' /\ Onward
<1>1. PICK d \in deletions, for_good \in BOOLEAN :
        /\ Spend("failures")
        /\ IF for_good \/ d.attempts = 1
           THEN /\ deletions' = deletions \ {d}
                /\ abandoned' = abandoned \union {d.message}
           ELSE /\ deletions' = (deletions \ {d}) \union
                                  {[d EXCEPT !.attempts = @ - 1]}
                /\ UNCHANGED abandoned
        /\ Handlers /\ UNCHANGED <<actor, messages, unchecked>>
  BY DEF DeletionFails
<1>2. PlainSteps
  BY <1>1, StillPlain DEF Handlers, Bounds
<1>3. d \in Deletion /\ d.attempts >= 1 /\ d.message \in Messages
  BY ActorFacts DEF DeletionsOK, Deletion
<1>4. DeletionsOK(deletions \ {d}) /\ Cardinality(deletions \ {d}) < DeletionLimit
  BY ActorFacts, DeletionRemoved
<1>5. /\ DeletionsOK(deletions')
      /\ abandoned \subseteq abandoned' /\ abandoned' \subseteq Messages
      /\ \A e \in deletions : (\E f \in deletions' : f.message = e.message)
                              \/ e.message \in abandoned'
  <2>1. CASE for_good \/ d.attempts = 1
    BY <1>1, <1>3, <1>4, <2>1, ActorFacts
  <2>2. CASE ~(for_good \/ d.attempts = 1)
    <3>. DEFINE again == [d EXCEPT !.attempts = @ - 1]
                rest == deletions \ {d}
    <3>1. again \in Deletion /\ again.attempts >= 1 /\ again.message = d.message
      BY <1>3, <2>2 DEF Deletion
    <3>2. deletions' = rest \union {again} /\ abandoned' = abandoned
      BY <1>1, <2>2
    <3>. HIDE DEF again, rest
    <3>3. /\ IsFiniteSet(rest) /\ Cardinality(rest) \in Nat
          /\ Cardinality(rest) < DeletionLimit
      BY <1>4, FS_CardinalityType DEF DeletionsOK, rest
    <3>4. /\ IsFiniteSet(rest \union {again})
          /\ Cardinality(rest \union {again}) <= DeletionLimit
      <4>1. /\ IsFiniteSet(rest \union {again})
            /\ Cardinality(rest \union {again}) =
                 IF again \in rest THEN Cardinality(rest) ELSE Cardinality(rest) + 1
        BY <3>3, FS_AddElement
      <4>. QED  BY <3>3, <4>1, Values
    <3>5. rest \subseteq Deletion /\ \A e \in rest : e.attempts >= 1
      BY <1>4 DEF DeletionsOK, rest
    <3>6. DeletionsOK(deletions')
      BY <3>1, <3>2, <3>4, <3>5 DEF DeletionsOK
    <3>. QED  BY <3>1, <3>2, <3>6, ActorFacts DEF rest
  <2>. QED  BY <2>1, <2>2
<1>6. OneOwnedMessage'
  BY <1>1, <1>5 DEF PanelInv, OneOwnedMessage
<1>7. Onward
  BY <1>1, ActorFacts, Values DEF Onward, MessagesOK, Message
<1>. QED
  BY <1>1, <1>2, <1>5, <1>6, <1>7, ActorFacts DEF PanelInv, PlainOK, PlainSteps, Handlers

LEMMA TimePassesStep ==
    ASSUME PanelInv, TimePasses
    PROVE  PanelInv' /\ Onward
<1>1. PlainSteps
  BY StillPlain DEF TimePasses, Handlers
<1>2. /\ actor' = [actor EXCEPT !.retry = FALSE, !.check_due = TRUE]
      /\ UNCHANGED <<now, messages, deletions, abandoned, unchecked>>
  BY DEF TimePasses, Handlers
<1>3. /\ actor' \in Actor /\ actor'.pc = actor.pc /\ actor'.retired = actor.retired
      /\ actor'.handler = actor.handler /\ actor'.clicked = actor.clicked
      /\ actor'.view = actor.view /\ actor'.edit = actor.edit
      /\ actor'.panel = actor.panel
  BY <1>2, ActorFacts DEF Actor
<1>4. ActorOK(actor', messages, now)
  BY <1>3 DEF PanelInv, ActorOK, Held, Undisturbed, NewestResponse
<1>. QED  BY <1>1, <1>2, <1>3, <1>4, ActorFacts, WaitingStep

LEMMA ProgressStep ==
    ASSUME PanelInv, Progress
    PROVE  PanelInv' /\ Onward
<1>1. /\ now' = now + 1 /\ now < MaxNow
      /\ UNCHANGED <<playing, paused, actor, messages, deletions, abandoned, unchecked, left>>
  BY DEF Progress
<1>2. PlainSteps
  BY <1>1, VersionGrows DEF PlainSteps, PanelInv, PlainOK
<1>3. NewestEdit(actor.edit, messages, now')
  BY <1>2, NewerView DEF PlainSteps
<1>4. NewestResponse(actor, messages, now')
  <2>1. actor.pc = "responding" => actor.view \in Nat
    BY Values DEF PanelInv, ActorOK, Held
  <2>. QED  BY <1>1, <2>1, ActorFacts DEF PanelInv, ActorOK, NewestResponse
<1>5. ActorOK(actor, messages, now')
  BY <1>3, <1>4 DEF PanelInv, ActorOK
<1>. QED  BY <1>1, <1>2, <1>5, ActorFacts, WaitingStep

\* Discord persists an old write late: the message shows less than before.
LEMMA LateWriteStep ==
    ASSUME PanelInv, LateWrite
    PROVE  PanelInv' /\ Onward
<1>1. PICK m \in Messages :
        /\ messages' = [messages EXCEPT ![m].shows = messages[m].before]
        /\ Spend("late")
        /\ Handlers /\ UNCHANGED <<actor, deletions, abandoned, unchecked>>
  BY DEF LateWrite
<1>2. PlainSteps /\ left'.late < left.late
  BY <1>1, StillPlain, Spending DEF Handlers, Bounds, PanelInv
<1>. DEFINE new == [messages[m] EXCEPT !.shows = messages[m].before]
<1>3. messages \in [Messages -> Message]
  BY ActorFacts DEF MessagesOK
<1>4. /\ new \in Message /\ new.state = messages[m].state
      /\ new.shows = messages[m].before /\ new.before = messages[m].before
  BY <1>3 DEF Message
<1>5. messages' = [messages EXCEPT ![m] = new]
  BY <1>1, <1>3
<1>. HIDE DEF new
<1>6. /\ messages' \in [Messages -> Message] /\ messages'[m] = new
      /\ \A x \in Messages : x # m => messages'[x] = messages[x]
  BY <1>3, <1>4, <1>5
<1>7. \A x \in Messages : /\ messages[x].shows \in Nat /\ messages[x].before \in Nat
                          /\ messages[x].before <= messages[x].shows
                          /\ messages[x].shows <= now
  BY ActorFacts, Values DEF MessagesOK, Message
<1>8. \A x \in Messages : /\ messages'[x].state = messages[x].state
                          /\ messages'[x].shows <= messages[x].shows
                          /\ messages'[x].before <= messages'[x].shows
                          /\ messages'[x].shows <= now
  BY <1>4, <1>6, <1>7, ActorFacts
<1>9. MessagesOK(messages', now)
  BY <1>6, <1>8 DEF MessagesOK
<1>10. ActorOK(actor, messages', now)
  BY <1>8, <1>9, SameActor
<1>11. OneOwnedMessage'
  BY <1>1, <1>8 DEF PanelInv, OneOwnedMessage
<1>12. Onward
  BY <1>2 DEF Onward
<1>. QED
  BY <1>1, <1>2, <1>9, <1>10, <1>11, <1>12, ActorFacts
     DEF PanelInv, PlainOK, PlainSteps, Handlers

-----------------------------------------------------------------------------
(* The theorems.                                                           *)

LEMMA InitInv ==
    ASSUME Init
    PROVE  PanelInv
<1>1. /\ now = 0 /\ playing = FALSE /\ paused = FALSE /\ deletions = {}
      /\ abandoned = {} /\ unchecked = {} /\ left = Bounds
      /\ messages = [m \in Messages |-> [state |-> "unborn", shows |-> 0, before |-> 0]]
  BY DEF Init
<1>2. /\ actor.pc = "idle" /\ actor.retired = None /\ actor.edit = NoEdit
      /\ actor \in Actor
  BY DEF Init, Actor
<1>3. 0 \in 0..MaxNow /\ 0 <= 0
  BY Values
<1>4. PlainOK
  <2>1. left \in [DOMAIN Bounds -> Nat]
    BY <1>1, PanelAssumption DEF Bounds
  <2>2. playing \in BOOLEAN /\ paused \in BOOLEAN
    BY <1>1
  <2>. QED  BY <1>1, <1>3, <2>1, <2>2 DEF PlainOK
<1>5. ActorOK(actor, messages, now)
  BY <1>2 DEF ActorOK, Held, Undisturbed, NewestEdit, NewestResponse
<1>6. MessagesOK(messages, now)
  BY <1>1, <1>3 DEF MessagesOK, Message
<1>7. DeletionsOK(deletions)
  BY <1>1, FS_EmptySet, Values DEF DeletionsOK
<1>8. OneOwnedMessage
  BY <1>1 DEF OneOwnedMessage
<1>. QED  BY <1>4, <1>5, <1>6, <1>7, <1>8 DEF PanelInv

LEMMA Stutters ==
    ASSUME PanelInv, UNCHANGED vars
    PROVE  PanelInv' /\ Onward
<1>1. PanelInv'
  BY DEF vars, PanelInv, PlainOK, OneOwnedMessage
<1>2. Onward
  BY ActorFacts, Values DEF vars, Onward, MessagesOK, Message
<1>. QED  BY <1>1, <1>2

LEMMA EveryStep ==
    ASSUME PanelInv, [Next]_vars
    PROVE  PanelInv' /\ Onward
<1>1. ASSUME Session PROVE PanelInv' /\ Onward
  <2>1. ASSUME Change \/ Tick PROVE PanelInv' /\ Onward
    <3>1. CASE Change
      <4>1. PlainSteps
        <5>1. /\ now < MaxNow /\ now' = now + 1 /\ left' = left
              /\ playing' \in BOOLEAN
              /\ paused' \in IF playing' THEN BOOLEAN ELSE {FALSE}
          BY <3>1 DEF Change
        <5>2. paused' \in BOOLEAN
          BY <5>1
        <5>. QED  BY <5>1, <5>2, VersionGrows DEF PlainSteps, PanelInv, PlainOK
      <4>. QED  BY <3>1, <4>1, RefreshStep DEF Change
    <3>2. CASE Tick
      BY <3>2, StillPlain, RefreshStep DEF Tick
    <3>. QED  BY <2>1, <3>1, <3>2
  <2>. QED
    BY <1>1, <2>1, EditJoinedStep, PresentStep, ClickStep, FlushedStep, PresentedStep,
       PresentFailsStep, AnsweredStep, ClickStoppedStep, RetiredStep DEF Session
<1>2. ASSUME Surroundings PROVE PanelInv' /\ Onward
  BY <1>2, EditStep, CheckStep, DeletedStep, DeletionFailsStep, TimePassesStep,
     ProgressStep, LateWriteStep, DeletedByOthersStep DEF Surroundings
<1>. QED  BY <1>1, <1>2, Stutters DEF Next

THEOREM Invariance == Spec => []PanelInv
<1>1. Init => PanelInv
  BY InitInv
<1>2. PanelInv /\ [Next]_vars => PanelInv'
  BY EveryStep
<1>. QED  BY <1>1, <1>2, PTL DEF Spec

(* Every reachable state has its declared type, with at most               *)
(* DeletionLimit deletions at a time.                                      *)
THEOREM PanelTyped == Spec => []TypeOK
<1>1. PanelInv => TypeOK
  BY DEF PanelInv, PlainOK, ActorOK, Held, MessagesOK, DeletionsOK, TypeOK
<1>. QED  BY <1>1, Invariance, PTL

(* The session accounts for every message it created: it is the panel, it  *)
(* is being deleted or waits for that, or it was given up.                 *)
THEOREM MessagesAreAccountedFor == Spec => []OneOwnedMessage
<1>1. PanelInv => OneOwnedMessage
  BY DEF PanelInv
<1>. QED  BY <1>1, Invariance, PTL

(* No edit, refresh, response or abort takes a message back to an older    *)
(* view; only a write that Discord persists late does.                     *)
THEOREM WritesGoOnward == Spec => NeverBackwards
<1>1. PanelInv /\ [Next]_vars => [Onward]_vars
  BY EveryStep
<1>2. [][Onward]_vars => NeverBackwards
  BY PTL DEF Onward, NeverBackwards
<1>. QED  BY <1>1, <1>2, Invariance, PTL DEF Spec
=============================================================================

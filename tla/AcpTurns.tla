------------------------------ MODULE AcpTurns -------------------------------
(***************************************************************************)
(* The turns of one ACP session (src/src/acp/sessions.rs): session/prompt, *)
(* the steering extension, session/cancel (and /stop), session/close, the  *)
(* driver task of every turn and the session's observer.  Handlers,        *)
(* drivers and the observer are tasks of their own; they share the         *)
(* session's entry under one lock, which no task holds across an await, so *)
(* every action below is one critical section, or one frame sent to the    *)
(* client, or one command answered by the host.                            *)
(*                                                                         *)
(* A turn is named after the request that starts it.  The host is          *)
(* external: it runs one turn at a time and queues the others.  What a     *)
(* driver streams is TurnFold's and TurnDriver's concern.  Of the dialogs  *)
(* (AcpDialogs) only what they tell a v2 client of the session's state is  *)
(* here: their tasks and the observer look at in_flight under the lock and *)
(* send an update without it.                                              *)
(*                                                                         *)
(* Faults: a live host may refuse a turn/start or turn/steer ("start"), its *)
(* acknowledgement may miss the command's deadline ("ack"), and a view/page *)
(* of a driver that lost events may fail ("page").                          *)
(*                                                                         *)
(* GiveUp, KeepEntry, Deaf, AlwaysReply and Unheeded are mutants of the    *)
(* definitions that follow each.                                           *)
(***************************************************************************)
EXTENDS Naturals, Sequences, FiniteSets

CONSTANTS
  Prompts,   \* session/prompt requests
  Steers,    \* steering requests (ACP v2)
  Asks,      \* approvals and user-input prompts of the host
  Lone,      \* bound: the host asks in sessions with a single request only
  Sends,     \* per ACP version: the requests a client sends
  Closing,   \* the versions whose clients may close the session
  Faults,    \* "start", "ack", "page": see below
  None

Reqs == Prompts \union Steers
Versions == {1, 2}

ASSUME AcpTurnsAssumption ==
  /\ IsFiniteSet(Reqs) /\ Prompts \intersect Steers = {} /\ None \notin Reqs
  /\ Asks \intersect Reqs = {} /\ Lone \in BOOLEAN

ASSUME ClientAssumption ==
  /\ Sends \in [Versions -> SUBSET Reqs] /\ Sends[1] \intersect Steers = {}
  /\ Closing \subseteq Versions /\ Faults \subseteq {"start", "ack", "page"}

VARIABLES
  ver,       \* the negotiated ACP version
  turn,      \* the host: per request, the turn it started
  news,      \* events the observer has yet to see: the turn that started, or
             \* the ask that was resolved or updated
  resolved,  \* the asks the host sent such an event of
  dead,      \* HostState::Dead
  open,      \* the session is in `sessions`
  inFlight,  \* Session::in_flight
  active,    \* Session::active_turn
  poked,     \* turns whose cancel_tx was set
  handler,   \* per request: where its handler is suspended
  snap,      \* per request: active_turn as the handler read it
  driver,    \* per request: where its driver is suspended
  last,      \* per request: clear_turn found no other turn in flight
  replies,   \* per request: replies sent for its id
  shown,     \* the last v2 state_update sent
  canceller, \* session/cancel: the turns it has yet to cancel
  closer,    \* session/close: likewise
  dialog,    \* per ask: where the task that shows or completes it is
  observing, \* the observer has an update "running" to send
  late       \* history: such a task sent an update with no turn in flight

hostVars    == <<turn, news, dead>>
askVars     == <<resolved, dialog, observing, late>>
sessionVars == <<open, inFlight, active, poked>>
taskVars    == <<handler, snap, driver, last>>
clientVars  == <<replies, shown>>
cancelVars  == <<canceller, closer>>
vars == <<ver, hostVars, sessionVars, taskVars, clientVars, cancelVars, askVars>>

Live(r) == turn[r] \in {"queued", "running"}
Running == { r \in Reqs : turn[r] = "running" }

(* A task that cancels turns one after the other; `some`: it had any.        *)
NotBegun  == [on |-> FALSE, todo |-> {}, some |-> FALSE]
Busy(set) == [on |-> TRUE, todo |-> set, some |-> set # {}]

GiveUp(task, r) == [task EXCEPT !.todo = @ \ {r}, !.on = FALSE]
Without(task, r) == [task EXCEPT !.todo = @ \ {r}]

Init ==
  /\ ver \in Versions
  /\ turn = [r \in Reqs |-> "none"] /\ news = <<>> /\ dead = FALSE
  /\ open = TRUE /\ inFlight = {} /\ active = None /\ poked = {}
  /\ handler = [r \in Reqs |-> "none"] /\ snap = [r \in Reqs |-> None]
  /\ driver = [r \in Reqs |-> "none"] /\ last = [r \in Reqs |-> FALSE]
  /\ replies = [r \in Reqs |-> 0] /\ shown = "none"
  /\ canceller = NotBegun /\ closer = NotBegun
  /\ resolved = {} /\ dialog = [a \in Asks |-> "none"]
  /\ observing = FALSE /\ late = FALSE

Reply(r) == replies' = [replies EXCEPT ![r] = @ + 1]
At(r, from, to) == handler[r] = from /\ handler' = [handler EXCEPT ![r] = to]
Show(state) == shown' = IF ver = 2 THEN state ELSE shown

(* No other request has been sent in the session.                            *)
Alone(r) == \A q \in Reqs \ {r} : handler[q] = "none"

(***************************************************************************)
(* The host.                                                               *)
(***************************************************************************)
HostStarts(r) ==
  /\ ~dead /\ turn[r] = "queued" /\ Running = {}
  /\ turn' = [turn EXCEPT ![r] = "running"]
  /\ news' = Append(news, r)
  /\ UNCHANGED <<ver, dead, sessionVars, taskVars, clientVars, cancelVars, askVars>>

HostFinishes(r) ==
  /\ ~dead /\ turn[r] = "running"
  /\ turn' = [turn EXCEPT ![r] = "over"]
  /\ UNCHANGED <<ver, news, dead, sessionVars, taskVars, clientVars, cancelVars, askVars>>

HostDies ==
  /\ ~dead /\ dead' = TRUE
  /\ UNCHANGED <<ver, turn, news, sessionVars, taskVars, clientVars, cancelVars, askVars>>

(* turn/cancel, best effort: the command may fail.                           *)
HostCancels(r) ==
  \/ ~dead /\ Live(r) /\ turn' = [turn EXCEPT ![r] = "over"]
  \/ UNCHANGED turn

(* turn/start: queue behind a running turn.                                  *)
HostAdmits(r) ==
  IF Running = {} THEN /\ turn' = [turn EXCEPT ![r] = "running"]
                       /\ news' = Append(news, r)
  ELSE turn' = [turn EXCEPT ![r] = "queued"] /\ UNCHANGED news

(* The observer, under the lock: turn/started names the active turn, and an  *)
(* ask that was resolved or updated makes an update if work is in flight.    *)
InFlightNow == open /\ inFlight # {}

Observe ==
  /\ news # <<>> /\ ~observing
  /\ news' = Tail(news)
  /\ active' = IF open /\ Head(news) \in Reqs THEN Head(news) ELSE active
  /\ observing' = (Head(news) \in Asks /\ InFlightNow)
  /\ UNCHANGED <<ver, turn, dead, open, inFlight, poked, taskVars, clientVars, cancelVars,
                 resolved, dialog, late>>

(* The lock is released by now: the update may be news of the past.          *)
Aside(state) == Show(state) /\ late' = (late \/ inFlight = {})

ObserverShows ==
  /\ observing /\ observing' = FALSE
  /\ Aside("running")
  /\ UNCHANGED <<ver, hostVars, sessionVars, taskVars, replies, cancelVars, resolved, dialog>>

(***************************************************************************)
(* The dialogs of an ask, in ACP v2.                                       *)
(***************************************************************************)
Dialog(a, from, to) == dialog[a] = from /\ dialog' = [dialog EXCEPT ![a] = to]

HostAsks(a) ==
  /\ ver = 2 /\ ~dead /\ Running # {}
  /\ Lone => \E r \in Reqs : Alone(r)
  /\ Dialog(a, "none", "asked")
  /\ UNCHANGED <<ver, hostVars, sessionVars, taskVars, clientVars, cancelVars,
                 resolved, observing, late>>

(* Decided by the bridge or elsewhere, or another requirement of it.         *)
HostResolves(a) ==
  /\ ~dead /\ dialog[a] # "none" /\ a \notin resolved
  /\ resolved' = resolved \union {a}
  /\ news' = Append(news, a)
  /\ UNCHANGED <<ver, turn, dead, sessionVars, taskVars, clientVars, cancelVars,
                 dialog, observing, late>>

(* open_approval, try_elicit: the session gets its dialog, whether or not    *)
(* the turn is still in flight; a session that is gone drops the ask.        *)
OpenDialog(a) ==
  /\ Dialog(a, "asked", IF open THEN "opening" ELSE "over")
  /\ UNCHANGED <<ver, hostVars, sessionVars, taskVars, clientVars, cancelVars,
                 resolved, observing, late>>

RequireAction(a) ==
  /\ Dialog(a, "opening", "shown")
  /\ Aside("requires_action")
  /\ UNCHANGED <<ver, hostVars, sessionVars, taskVars, replies, cancelVars,
                 resolved, observing>>

(* complete_permission, complete_elicitation: the host takes the decision,   *)
(* or the dialog was retired, the client gave none, or the command failed.   *)
Decide(a) ==
  /\ \/ ~dead /\ Dialog(a, "shown", "decided")
     \/ Dialog(a, "shown", "over")
  /\ UNCHANGED <<ver, hostVars, sessionVars, taskVars, clientVars, cancelVars,
                 resolved, observing, late>>

CheckBusy(a) ==
  /\ Dialog(a, "decided", IF InFlightNow THEN "resuming" ELSE "over")
  /\ UNCHANGED <<ver, hostVars, sessionVars, taskVars, clientVars, cancelVars,
                 resolved, observing, late>>

Resumed(a) ==
  /\ Dialog(a, "resuming", "over")
  /\ Aside("running")
  /\ UNCHANGED <<ver, hostVars, sessionVars, taskVars, replies, cancelVars,
                 resolved, observing>>

(***************************************************************************)
(* session/prompt: prompt_admit.                                           *)
(***************************************************************************)
Send(r) ==
  /\ r \in Sends[ver] /\ At(r, "none", "sent")
  /\ Lone => Alone(r) \/ \A a \in Asks : dialog[a] = "none"
  /\ UNCHANGED <<ver, hostVars, sessionVars, snap, driver, last, clientVars, cancelVars, askVars>>

(* An unknown session, an unreachable host, and a command that was refused   *)
(* or whose answer never came, are error replies.                            *)
Refuse(r) ==
  /\ \/ handler[r] = "sent" /\ (~open \/ dead)
     \/ handler[r] = "calling" /\ (dead \/ "start" \in Faults)
     \/ handler[r] \in {"started", "queued"} /\ (dead \/ "ack" \in Faults)
  /\ handler' = [handler EXCEPT ![r] = "done"]
  /\ Reply(r)
  /\ UNCHANGED <<ver, hostVars, sessionVars, snap, driver, last, shown, cancelVars, askVars>>

(* The session is read under the lock, which is then released.               *)
Admit(r) ==
  /\ open /\ At(r, "sent", "calling")
  /\ snap' = IF r \in Steers THEN [snap EXCEPT ![r] = active] ELSE snap
  /\ UNCHANGED <<ver, hostVars, sessionVars, driver, last, clientVars, cancelVars, askVars>>

StartTurn(r) ==
  /\ r \in Prompts /\ ~dead
  /\ At(r, "calling", IF Running = {} THEN "started" ELSE "queued")
  /\ HostAdmits(r)
  /\ UNCHANGED <<ver, dead, sessionVars, snap, driver, last, clientVars, cancelVars, askVars>>

(* The ack: the turn joins in_flight if the session is still there.  An ack  *)
(* "started" also names it active.                                           *)
Push(r, started) ==
  IF open THEN /\ inFlight' = inFlight \union {r}
               /\ active' = IF started THEN r ELSE active
               /\ UNCHANGED <<ver, open, poked>>
  ELSE UNCHANGED sessionVars

Acked(r) ==
  /\ r \in Prompts /\ (At(r, "started", "pushed") \/ At(r, "queued", "pushed"))
  /\ Push(r, handler[r] = "started")
  /\ UNCHANGED <<ver, hostVars, snap, driver, last, clientVars, cancelVars, askVars>>

(* v2 accepts with an empty result; then the driver is spawned.              *)
Accept(r) ==
  /\ r \in Prompts /\ At(r, "pushed", "done")
  /\ IF ver = 2 THEN Reply(r) ELSE UNCHANGED replies
  /\ driver' = [driver EXCEPT ![r] = "spawned"]
  /\ UNCHANGED <<ver, hostVars, sessionVars, snap, last, shown, cancelVars, askVars>>

(***************************************************************************)
(* Steering.                                                               *)
(***************************************************************************)

(* promptRequired: no turn is active and the client asked not to start one.  *)
Decline(r) ==
  /\ r \in Steers /\ At(r, "calling", "done") /\ snap[r] = None
  /\ Reply(r)
  /\ UNCHANGED <<ver, hostVars, sessionVars, snap, driver, last, shown, cancelVars, askVars>>

(* turn/steer at the turn that was read as active: the host rejects one that *)
(* is not running.                                                           *)
SteerActive(r) ==
  /\ r \in Steers /\ ~dead /\ snap[r] # None
  /\ IF turn[snap[r]] = "running" THEN At(r, "calling", "injected") /\ UNCHANGED replies
     ELSE At(r, "calling", "done") /\ Reply(r)
  /\ UNCHANGED <<ver, hostVars, sessionVars, snap, driver, last, shown, cancelVars, askVars>>

(* turn/start ifBusy "steer".                                                *)
SteerOrStart(r) ==
  /\ r \in Steers /\ ~dead /\ snap[r] = None
  /\ IF Running = {} THEN At(r, "calling", "started") /\ HostAdmits(r)
     ELSE At(r, "calling", "injected") /\ UNCHANGED <<turn, news>>
  /\ UNCHANGED <<ver, dead, sessionVars, snap, driver, last, clientVars, cancelVars, askVars>>

(* The driver is spawned before the reply.                                   *)
SteerAcked(r) ==
  /\ r \in Steers /\ At(r, "started", "injected")
  /\ Push(r, TRUE)
  /\ driver' = [driver EXCEPT ![r] = "spawned"]
  /\ UNCHANGED <<ver, hostVars, snap, last, clientVars, cancelVars, askVars>>

SteerReply(r) ==
  /\ At(r, "injected", "replied")
  /\ Reply(r)
  /\ UNCHANGED <<ver, hostVars, sessionVars, snap, driver, last, shown, cancelVars, askVars>>

SteerRunning(r) ==
  /\ At(r, "replied", "done")
  /\ Show("running")
  /\ UNCHANGED <<ver, hostVars, sessionVars, snap, driver, last, replies, cancelVars, askVars>>

(***************************************************************************)
(* drive_prompt.                                                           *)
(***************************************************************************)
Drive(r, from, to) == driver[r] = from /\ driver' = [driver EXCEPT ![r] = to]

Announce(r) ==
  /\ Drive(r, "spawned", "driving")
  /\ Show("running")
  /\ UNCHANGED <<ver, hostVars, sessionVars, handler, snap, last, replies, cancelVars, askVars>>

(* clear_turn under the lock, when the turn's terminal, the cancel flag or   *)
(* the host's death is selected; it returns 0 for a session that is gone.    *)
KeepEntry(r) == inFlight
Cleared(r) == inFlight \ {r}

ActiveAfter(r) == IF active = r THEN None ELSE active

Deaf(r) == turn[r] = "over" \/ r \in poked
Unheeded(r) == turn[r] = "over" \/ dead
Due(r) == turn[r] = "over" \/ r \in poked \/ dead

Clear(r) ==
  /\ Drive(r, "driving", "settling")
  /\ IF open THEN inFlight' = Cleared(r) /\ active' = ActiveAfter(r)
     ELSE UNCHANGED <<inFlight, active>>
  /\ last' = [last EXCEPT ![r] = ~open \/ Cleared(r) = {}]
  /\ UNCHANGED <<ver, hostVars, open, poked, handler, snap, clientVars, cancelVars, askVars>>

Settle(r) == Due(r) /\ Clear(r)

(* page_and_feed fails: the driver gives up on a turn that may still run.    *)
PagingFails(r) == "page" \in Faults /\ Clear(r)

(* ... and then, unlocked, the reply (v1) or the session's state (v2).       *)
AlwaysReply(r) == TRUE
RepliesOnSettle(r) == ver = 1

Conclude(r) ==
  /\ Drive(r, "settling", "done")
  /\ IF RepliesOnSettle(r) THEN Reply(r) ELSE UNCHANGED replies
  /\ Show(IF last[r] THEN "idle" ELSE "running")
  /\ UNCHANGED <<ver, hostVars, sessionVars, handler, snap, last, cancelVars, askVars>>

(***************************************************************************)
(* session/cancel and session/close.                                       *)
(***************************************************************************)
Cancel ==
  /\ ~canceller.on /\ ~canceller.some
  /\ open /\ inFlight # {}
  /\ canceller' = Busy(inFlight)
  /\ UNCHANGED <<ver, hostVars, sessionVars, taskVars, clientVars, closer, askVars>>

(* cancel_turns: turn/cancel, then the driver's flag.                        *)
Poke(r) == poked \union {r}

CancelOne(r) ==
  /\ canceller.on /\ r \in canceller.todo
  /\ HostCancels(r)
  /\ poked' = Poke(r)
  /\ canceller' = [Without(canceller, r) EXCEPT !.on = @ /\ canceller.todo # {r}]
  /\ UNCHANGED <<ver, news, dead, open, inFlight, active, taskVars, clientVars, closer, askVars>>

Close ==
  /\ ver \in Closing /\ open
  /\ open' = FALSE /\ inFlight' = {} /\ active' = None
  /\ closer' = Busy(inFlight)
  /\ UNCHANGED <<ver, hostVars, poked, taskVars, clientVars, canceller, askVars>>

CloseOne(r) ==
  /\ closer.on /\ r \in closer.todo
  /\ HostCancels(r)
  /\ poked' = Poke(r)
  /\ closer' = Without(closer, r)
  /\ IF ver = 1 THEN Reply(r) ELSE UNCHANGED replies
  /\ UNCHANGED <<ver, news, dead, open, inFlight, active, taskVars, shown, canceller, askVars>>

CloseDone ==
  /\ closer.on /\ closer.todo = {}
  /\ closer' = [closer EXCEPT !.on = FALSE]
  /\ IF closer.some THEN Show("idle") ELSE UNCHANGED shown
  /\ UNCHANGED <<ver, hostVars, sessionVars, taskVars, replies, canceller, askVars>>

Handle(r) ==
  \/ Refuse(r) \/ Admit(r) \/ StartTurn(r) \/ Acked(r) \/ Accept(r)
  \/ Decline(r) \/ SteerActive(r) \/ SteerOrStart(r) \/ SteerAcked(r)
  \/ SteerReply(r) \/ SteerRunning(r)
DriveTurn(r) == Announce(r) \/ Settle(r) \/ Conclude(r)
ObserverStep == Observe \/ ObserverShows
DialogStep(a) ==
  OpenDialog(a) \/ RequireAction(a) \/ Decide(a) \/ CheckBusy(a) \/ Resumed(a)
CancelStep == \E r \in Reqs : CancelOne(r)
CloseStep  == CloseDone \/ \E r \in Reqs : CloseOne(r)

Next ==
  \/ \E r \in Reqs : \/ HostStarts(r) \/ HostFinishes(r)
                     \/ Send(r) \/ Handle(r) \/ DriveTurn(r) \/ PagingFails(r)
  \/ \E a \in Asks : HostAsks(a) \/ HostResolves(a) \/ DialogStep(a)
  \/ HostDies \/ ObserverStep \/ Cancel \/ CancelStep \/ Close \/ CloseStep

SafeSpec == Init /\ [][Next]_vars

(* Tokio polls every ready task.  No task has more than finitely many steps, *)
(* so to be fair to the handlers, or drivers, together is to be fair to each.*)
(* A host need not finish a turn.                                            *)
Fairness ==
  /\ WF_vars(\E r \in Reqs : Handle(r)) /\ WF_vars(\E r \in Reqs : DriveTurn(r))
  /\ WF_vars(ObserverStep) /\ WF_vars(CancelStep) /\ WF_vars(CloseStep)

Spec == SafeSpec /\ Fairness

(* A host that plays every turn to its end.                                  *)
HostPlays == WF_vars(\E r \in Reqs : HostStarts(r) \/ HostFinishes(r))

(***************************************************************************)
(* Properties.                                                             *)
(***************************************************************************)
Tasks == [on : BOOLEAN, todo : SUBSET Reqs, some : BOOLEAN]

TypeOK ==
  /\ ver \in Versions
  /\ turn \in [Reqs -> {"none", "queued", "running", "over"}]
  /\ news \in Seq(Reqs \union Asks) /\ dead \in BOOLEAN
  /\ open \in BOOLEAN /\ inFlight \subseteq Reqs /\ poked \subseteq Reqs
  /\ active \in Reqs \union {None}
  /\ handler \in [Reqs -> {"none", "sent", "calling", "started", "queued",
                           "pushed", "injected", "replied", "done"}]
  /\ snap \in [Reqs -> Reqs \union {None}]
  /\ driver \in [Reqs -> {"none", "spawned", "driving", "settling", "done"}]
  /\ last \in [Reqs -> BOOLEAN]
  /\ replies \in [Reqs -> Nat]
  /\ shown \in {"none", "running", "requires_action", "idle"}
  /\ canceller \in Tasks /\ (canceller.todo # {} => canceller.on)
  /\ closer \in Tasks /\ (closer.todo # {} => closer.on)
  /\ dialog \in [Asks -> {"none", "asked", "opening", "shown", "decided", "resuming", "over"}]
  /\ resolved \subseteq Asks /\ observing \in BOOLEAN /\ late \in BOOLEAN

Settling(r) == handler[r] = "pushed" \/ driver[r] \in {"spawned", "driving"}
Settled(r)  == handler[r] = "done" /\ driver[r] \in {"none", "done"}

(* clear_turn and close: while the session is open, its in_flight entries    *)
(* are exactly the turns some task will settle, so an entry is neither       *)
(* leaked (v2 would stay `running` for ever) nor dropped early.              *)
EntriesDriven ==
  /\ ~open => inFlight = {}
  /\ open => \A r \in Reqs : r \in inFlight <=> Settling(r)

(* handle_request and drive_prompt: no request is answered twice, and one    *)
(* whose handler and driver have finished was answered.                      *)
AnsweredOnce ==
  \A r \in Reqs : replies[r] <= 1 /\ (Settled(r) => replies[r] = 1)

(* Both are about tasks that come to an end once: each ends if and only if   *)
(* again and again none is under way.                                        *)

(* session/cancel and session/close: a turn in flight when it arrives is     *)
(* settled, whatever the host does with turn/cancel.                         *)
Cancelled     == canceller.todo \union closer.todo \union poked
CancelSettles == []<>(\A r \in Cancelled : Settled(r))

(* Every request is answered and its driver retires, if the host plays its   *)
(* turns to the end.                                                         *)
RequestSettles == HostPlays => []<>(\A r \in Reqs : handler[r] = "none" \/ Settled(r))

(* Close, cancel, the driver, the observer and the tasks of the dialogs each *)
(* send state updates without the lock.  Once all is quiet, a client that    *)
(* sent one prompt sees idle, unless a dialog's task or the observer sent    *)
(* its update when no turn was in flight any more: that is the only way.     *)
Quiet == /\ \A r \in Reqs : handler[r] = "none" \/ Settled(r)
         /\ \A a \in Asks : dialog[a] \in {"none", "shown", "over"}
         /\ ~canceller.on /\ ~closer.on /\ news = <<>> /\ ~observing
SentOne == \E p \in Prompts : Alone(p)
OnePromptEndsIdle == Quiet /\ SentOne /\ shown # "none" /\ ~late => shown = "idle"
=============================================================================

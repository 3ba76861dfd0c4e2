----------------------------- MODULE AcpDialogs -----------------------------
(***************************************************************************)
(* The dialogs of one ACP session (src/src/acp/sessions.rs): a host's      *)
(* approvals become session/request_permission, its user-input prompts     *)
(* elicitation/create, and the client's answers become approval/decide,    *)
(* userInput/answer or userInput/cancel.  The waiters of requests sent to  *)
(* the client are ClientRequests' (src/src/acp/server.rs).                 *)
(*                                                                         *)
(* A request reaches the session through several tasks: the observer sees  *)
(* the request and the notification that repeats it, a driver spawns a     *)
(* task of its own for the request, and session/resume pulls what is       *)
(* pending.  Every action is one critical section of the session's lock,   *)
(* one request sent to the client, or one command answered by the host.    *)
(* v2 state updates are left out, and so are the contents of a form: an    *)
(* answer approves, rejects or dismisses.                                  *)
(*                                                                         *)
(* Faults: "overlap" lets a second task check pending_perm between another *)
(* one's check and its assignment; "host" lets a command fail.             *)
(*                                                                         *)
(* Doubled, NeverBusy, Keep, Trusting, NoPop and Forget are mutants of the *)
(* definitions that follow each.                                           *)
(***************************************************************************)
EXTENDS Naturals, Sequences, FiniteSets

CONSTANTS
  Approvals,  \* approvals the host asks for
  Inputs,     \* its user-input prompts
  Repeated,   \* asks whose notification the observer sees after the request
  Pulls,      \* tasks that pull what is pending (session/resume)
  Scenes,     \* who takes part in a behaviour: see Scene
  Observer,   \* the session's observer
  MaxDialogs, \* bound: requests sent to the client, at most one for each way
              \* an ask reaches the session
  Faults,
  None

Asks == Approvals \union Inputs

(* Readers present asks one after the other; a driver's task is named after  *)
(* its ask, and the task that completes a dialog after the dialog.           *)
Readers == {Observer} \union Pulls
Dialogs == 1..MaxDialogs
Tasks   == Readers \union Asks \union Dialogs

(* "both": an approving choice and another; "approve": approving ones only;  *)
(* "none": no choice; "blind": no approvalId.                                *)
Kind == {"both", "approve", "none", "blind"}

(* The asks the host has, those a driver sees as well, the tasks that pull,  *)
(* and what an approval may offer.                                           *)
Scene == [asks : SUBSET Asks, delegated : SUBSET Asks, pulls : SUBSET Pulls,
          kinds : SUBSET Kind]

ASSUME AcpDialogsAssumption ==
  /\ IsFiniteSet(Asks) /\ Approvals \intersect Inputs = {}
  /\ Scenes \subseteq Scene /\ Faults \subseteq {"overlap", "host"}
  /\ Repeated \subseteq Asks
  /\ IsFiniteSet(Pulls) /\ Observer \notin Pulls
  /\ Readers \intersect Asks = {} /\ None \notin Asks
  /\ MaxDialogs \in Nat /\ Dialogs \intersect (Readers \union Asks) = {}

VARIABLES
  kind,    \* what each approval offers
  asked,   \* the host: "never", "no" (not yet), "waiting", "missed" (a verdict
           \* was sent and did not arrive: it waits on) or "settled"
  feed,    \* what each reader has yet to present
  open,    \* the session is in `sessions`
  perm,    \* Session::pending_perm: its approval and request (0 for Null)
  queue,   \* Session::perm_queue
  ui,      \* Session::pending_ui
  seen,    \* Session::ui_seen
  about,   \* the dialogs sent so far: what each is about
  waiter,  \* ClientRequests::pending: "open", "lost", the client's answer, "used"
  task     \* where each task is suspended

hostVars    == <<kind, asked, feed>>
sessionVars == <<open, perm, queue, ui, seen>>
clientVars  == <<about, waiter>>
vars == <<hostVars, sessionVars, clientVars, task>>

Entry(a, n) == [ask |-> a, req |-> n]
NoPerm == Entry(None, 0)
Suspended(point, a, n) == [at |-> point, ask |-> a, req |-> n]
Off    == Suspended("off", None, 0)
Sent   == 1..Len(about)

At(t, point)   == task[t].at = point
Moves(t, next) == task' = [task EXCEPT ![t] = next]

(* A reader goes on with its feed; any other task is over.                   *)
Over(t) == IF t \in Readers THEN Off ELSE Suspended("done", None, 0)
Returns(t) == Moves(t, Over(t))

Init ==
  /\ \E scene \in Scenes :
       /\ kind \in { k \in [Approvals -> scene.kinds] :
                     \A a \in Approvals \ scene.asks : k[a] = "both" }
       /\ asked = [a \in Asks |-> IF a \in scene.asks THEN "no" ELSE "never"]
       /\ task = [t \in Tasks |->
                    CASE t \in scene.pulls -> Suspended("new", None, 0)
                      [] t \in (Asks \ scene.delegated) \union (Pulls \ scene.pulls) ->
                           Suspended("done", None, 0)
                      [] OTHER -> Off]
  /\ feed = [r \in Readers |-> <<>>]
  /\ open = TRUE /\ perm = NoPerm /\ queue = <<>> /\ ui = {} /\ seen = {}
  /\ about = <<>> /\ waiter = <<>>

(***************************************************************************)
(* The host, and how its asks reach the session.                           *)
(***************************************************************************)

(* The request, and the notification that repeats it; the observer may lag   *)
(* behind and miss the second.                                               *)
HostAsks(a) ==
  /\ asked[a] = "no"
  /\ asked' = [asked EXCEPT ![a] = "waiting"]
  /\ feed' = [feed EXCEPT ![Observer] = @ \o IF a \in Repeated THEN <<a, a>> ELSE <<a>>]
  /\ UNCHANGED <<kind, sessionVars, clientVars, task>>

Pending(a) == asked[a] \in {"waiting", "missed"}

(* Settled without the session: by another client, a cancel, an expiry.      *)
HostSettles(a) ==
  /\ Pending(a)
  /\ asked' = [asked EXCEPT ![a] = "settled"]
  /\ UNCHANGED <<kind, feed, sessionVars, clientVars, task>>

(* A driver that sees the request spawns a task for it.                      *)
Delegate(a) ==
  /\ asked[a] \notin {"never", "no"} /\ At(a, "off")
  /\ Moves(a, Suspended("opening", a, 0))
  /\ UNCHANGED <<hostVars, sessionVars, clientVars>>

(* reconcile_pending: approval/listPending, approvals before prompts.        *)
Orders(set) == { s \in [1..Cardinality(set) -> set] :
                   \A i, j \in DOMAIN s : s[i] = s[j] => i = j }
Waiting(set) == { a \in set : Pending(a) }
Pull(r) ==
  /\ r \in Pulls /\ At(r, "new") /\ open
  /\ \E s \in Orders(Waiting(Approvals)), t \in Orders(Waiting(Inputs)) :
       feed' = [feed EXCEPT ![r] = s \o t]
  /\ Moves(r, Off)
  /\ UNCHANGED <<kind, asked, sessionVars, clientVars>>

(* A reader takes its next ask; the observer of a closed session retires.    *)
Read(r) ==
  /\ At(r, "off") /\ open /\ feed[r] # <<>>
  /\ feed' = [feed EXCEPT ![r] = Tail(@)]
  /\ Moves(r, Suspended("opening", Head(feed[r]), 0))
  /\ UNCHANGED <<kind, asked, sessionVars, clientVars>>

(* A command the host answers settles the asks; one that does not arrive     *)
(* leaves them waiting.                                                      *)
HostTakes(set, a) ==
  \/ asked' = [b \in Asks |-> IF b \in set /\ Pending(b) THEN "settled" ELSE asked[b]]
  \/ "host" \in Faults /\ asked' = IF Pending(a) THEN [asked EXCEPT ![a] = "missed"] ELSE asked

(***************************************************************************)
(* open_approval.                                                          *)
(***************************************************************************)

(* No approvalId: the turn is cancelled, and every ask of it with it.        *)
OpenBlind(t) ==
  /\ At(t, "opening") /\ task[t].ask \in Approvals /\ kind[task[t].ask] = "blind"
  /\ HostTakes(Asks, task[t].ask)
  /\ Returns(t)
  /\ UNCHANGED <<kind, feed, sessionVars, clientVars>>

(* The first critical section: one dialog at a time, the others queue.       *)
Doubled(a)  == Append(queue, a)
Enqueued(a) == IF \E k \in DOMAIN queue : queue[k] = a THEN queue ELSE Append(queue, a)
NeverBusy == FALSE
Displaying == perm.ask # None
MayPass == "overlap" \in Faults \/ \A t \in Tasks : ~At(t, "passed")

Defer(t) ==
  LET a == task[t].ask IN
  /\ At(t, "opening") /\ a \in Approvals /\ kind[a] # "blind"
  /\ ~open \/ Displaying
  /\ queue' = IF open /\ perm.ask # a THEN Enqueued(a) ELSE queue
  /\ Returns(t)
  /\ UNCHANGED <<hostVars, open, perm, ui, seen, clientVars>>

(* An approval without choices is left for the host.                         *)
Pass(t) ==
  LET a == task[t].ask IN
  /\ At(t, "opening") /\ a \in Approvals /\ kind[a] # "blind"
  /\ open /\ ~Displaying
  /\ IF kind[a] = "none" THEN Returns(t)
     ELSE MayPass /\ Moves(t, Suspended("passed", a, 0))
  /\ UNCHANGED <<hostVars, sessionVars, clientVars>>

(* The second: whatever is pending by now is replaced.                       *)
Present(t) ==
  LET a == task[t].ask IN
  /\ At(t, "passed") /\ a \in Approvals
  /\ IF open THEN perm' = Entry(a, 0) /\ Moves(t, Suspended("asking", a, 0))
     ELSE Returns(t) /\ UNCHANGED perm
  /\ UNCHANGED <<hostVars, open, queue, ui, seen, clientVars>>

(* ClientRequests::request registers the waiter, then sends.                 *)
Request(t) ==
  /\ At(t, "asking") /\ Len(about) < MaxDialogs
  /\ about' = Append(about, task[t].ask)
  /\ waiter' = Append(waiter, "open")
  /\ Moves(t, Suspended("asked", task[t].ask, Len(about) + 1))
  /\ UNCHANGED <<hostVars, sessionVars>>

(* ClientRequests::cancel: a request that was answered has no waiter left.   *)
Keep(n)     == waiter
Released(n) == IF waiter[n] = "open" THEN [waiter EXCEPT ![n] = "lost"] ELSE waiter

(* The third: the completer is spawned, unless the session went or shows     *)
(* another approval.                                                         *)
Completed(t, n) == [task EXCEPT ![t] = Over(t), ![n] = Suspended("awaiting", None, n)]
Attach(t) ==
  LET a == task[t].ask  n == task[t].req IN
  /\ At(t, "asked") /\ a \in Approvals
  /\ IF open /\ perm.ask = a
     THEN perm' = Entry(a, n) /\ task' = Completed(t, n) /\ UNCHANGED waiter
     ELSE waiter' = Released(n) /\ Returns(t) /\ UNCHANGED perm
  /\ UNCHANGED <<hostVars, open, queue, ui, seen, about>>

(***************************************************************************)
(* complete_permission.                                                    *)
(***************************************************************************)

(* Only an approving selection approves; without a selection the first other *)
(* choice is taken, and without that the turn is cancelled.  Approvals name  *)
(* their choices alike.                                                      *)
Trusting(answer, a) == IF answer = "reject" THEN "denying" ELSE "approving"
Verdict(answer, a) ==
  CASE answer = "allow"  -> "approving"
    [] answer = "reject" -> "denying"
    [] OTHER -> IF kind[a] = "both" THEN "denying" ELSE "cancelling"

(* It takes what is pending, whichever request that was shown by.            *)
TakePermission(n) ==
  /\ At(n, "awaiting") /\ about[n] \in Approvals /\ waiter[n] # "open"
  /\ IF open /\ perm.ask # None
     THEN /\ Moves(n, Suspended(Verdict(waiter[n], perm.ask), perm.ask, n))
          /\ perm' = NoPerm
     ELSE Returns(n) /\ UNCHANGED perm
  /\ UNCHANGED <<hostVars, open, queue, ui, seen, clientVars>>

(* approval/decide, or turn/cancel; either may fail, and nobody tries again. *)
Used(n) == waiter' = [waiter EXCEPT ![n] = "used"]
Settling == {"approving", "denying", "cancelling"}
Decide(n) ==
  LET a == task[n].ask IN
  /\ task[n].at \in Settling /\ a \in Approvals
  /\ HostTakes(IF At(n, "cancelling") THEN Asks ELSE {a}, a)
  /\ Moves(n, Suspended("popping", None, n)) /\ Used(n)
  /\ UNCHANGED <<kind, feed, sessionVars, about>>

(* pop_queued_approval: the completer opens the next one itself.             *)
NoPop == FALSE
Pops == open /\ perm.ask = None /\ queue # <<>>
Pop(n) ==
  /\ At(n, "popping")
  /\ IF Pops THEN queue' = Tail(queue) /\ Moves(n, Suspended("opening", Head(queue), 0))
     ELSE Returns(n) /\ UNCHANGED queue
  /\ UNCHANGED <<hostVars, open, perm, ui, seen, clientVars>>

(***************************************************************************)
(* User input.                                                             *)
(***************************************************************************)

(* route_user_input: once per prompt.  A session in yolo mode, or a client   *)
(* without forms, never sees it.                                             *)
Forget(i) == seen
Marked(i) == seen \union {i}
Route(t) ==
  LET i == task[t].ask IN
  /\ At(t, "opening") /\ i \in Inputs
  /\ IF open /\ i \notin seen /\ \A e \in ui : e.ask # i
     THEN seen' = Marked(i) /\ \E next \in {"passed", "declining"} : Moves(t, Suspended(next, i, 0))
     ELSE Returns(t) /\ UNCHANGED seen
  /\ UNCHANGED <<hostVars, open, perm, queue, ui, clientVars>>

(* bridge_user_input; of a session that went, the prompt is cancelled.       *)
Bridge(t) ==
  LET i == task[t].ask IN
  /\ At(t, "passed") /\ i \in Inputs
  /\ IF open THEN ui' = ui \union {Entry(i, 0)} /\ Moves(t, Suspended("asking", i, 0))
     ELSE Moves(t, Suspended("declining", i, 0)) /\ UNCHANGED ui
  /\ UNCHANGED <<hostVars, open, perm, queue, seen, clientVars>>

AttachInput(t) ==
  LET i == task[t].ask  n == task[t].req IN
  /\ At(t, "asked") /\ i \in Inputs
  /\ IF \E e \in ui : e.ask = i
     THEN /\ ui' = { e \in ui : e.ask # i } \union {Entry(i, n)}
          /\ task' = Completed(t, n) /\ UNCHANGED waiter
     ELSE waiter' = Released(n) /\ Returns(t) /\ UNCHANGED ui
  /\ UNCHANGED <<hostVars, open, perm, queue, seen, about>>

(* cancel_user_input.                                                        *)
Decline(t) ==
  /\ At(t, "declining")
  /\ HostTakes({task[t].ask}, task[t].ask)
  /\ Returns(t)
  /\ UNCHANGED <<kind, feed, sessionVars, clientVars>>

(* complete_elicitation takes the prompt its request was sent for.           *)
TakeInput(n) ==
  /\ At(n, "awaiting") /\ about[n] \in Inputs /\ waiter[n] # "open"
  /\ IF \E e \in ui : e.req = n
     THEN \E e \in ui :
            /\ e.req = n /\ ui' = ui \ {e}
            /\ Moves(n, Suspended(IF waiter[n] = "allow" THEN "approving" ELSE "cancelling",
                                  e.ask, n))
     ELSE Returns(n) /\ UNCHANGED ui
  /\ UNCHANGED <<hostVars, open, perm, queue, seen, clientVars>>

(* userInput/answer if the form was accepted, else userInput/cancel.         *)
AnswerInput(n) ==
  LET i == task[n].ask IN
  /\ task[n].at \in Settling /\ i \in Inputs
  /\ HostTakes({i}, i)
  /\ Returns(n) /\ Used(n)
  /\ UNCHANGED <<kind, feed, sessionVars, about>>

(***************************************************************************)
(* The client.                                                             *)
(***************************************************************************)

(* ClientRequests::resolve: the first answer takes the waiter.               *)
Answer(n) ==
  /\ n \in Sent /\ waiter[n] = "open"
  /\ \E answer \in {"allow", "dismissed"} \union
                   (IF about[n] \in Approvals /\ kind[about[n]] = "both" THEN {"reject"} ELSE {}) :
       waiter' = [waiter EXCEPT ![n] = answer]
  /\ UNCHANGED <<hostVars, sessionVars, about, task>>

(* session/close drops the session, and the waiters it knows of.             *)
Close ==
  /\ open /\ open' = FALSE
  /\ perm' = NoPerm /\ queue' = <<>> /\ ui' = {} /\ seen' = {}
  /\ waiter' = [n \in Sent |-> IF waiter[n] = "open" /\ (n = perm.req \/ \E e \in ui : e.req = n)
                               THEN "lost" ELSE waiter[n]]
  /\ UNCHANGED <<hostVars, about, task>>

(***************************************************************************)
(* The specification.                                                      *)
(***************************************************************************)
OpenStep(t) == \/ OpenBlind(t) \/ Defer(t) \/ Pass(t) \/ Present(t) \/ Request(t) \/ Attach(t)
               \/ Route(t) \/ Bridge(t) \/ AttachInput(t) \/ Decline(t)
CloseStep(n) == TakePermission(n) \/ Decide(n) \/ Pop(n) \/ TakeInput(n) \/ AnswerInput(n)

Next ==
  \/ \E a \in Asks : HostAsks(a) \/ HostSettles(a) \/ Delegate(a) \/ OpenStep(a)
  \/ \E r \in Readers : Pull(r) \/ Read(r) \/ OpenStep(r)
  \/ \E n \in Dialogs : OpenStep(n) \/ CloseStep(n) \/ Answer(n)
  \/ Close

SafeSpec == Init /\ [][Next]_vars

(* Tokio polls the ready tasks, and the client answers what it is asked: as  *)
(* long as something is ready, something goes on, which is enough, because   *)
(* every task ends.  Nothing makes a driver delegate, a client resume, or a  *)
(* host ask.                                                                 *)
Ready ==
  \/ \E r \in Readers : Read(r) \/ OpenStep(r)
  \/ \E a \in Asks : OpenStep(a)
  \/ \E n \in Dialogs : OpenStep(n) \/ CloseStep(n) \/ Answer(n)
Fairness == WF_vars(Ready)
Spec == SafeSpec /\ Fairness

(***************************************************************************)
(* Properties.                                                             *)
(***************************************************************************)
Points == {"new", "off", "opening", "passed", "asking", "asked", "declining",
           "awaiting", "popping", "done"} \union Settling

TypeOK ==
  /\ kind \in [Approvals -> Kind] /\ asked \in [Asks -> {"never", "no", "waiting", "missed", "settled"}]
  /\ feed \in [Readers -> Seq(Asks)]
  /\ open \in BOOLEAN
  /\ perm \in [ask : Approvals \union {None}, req : Nat]
  /\ queue \in Seq(Approvals) /\ \A i, j \in DOMAIN queue : queue[i] = queue[j] => i = j
  /\ ui \subseteq [ask : Inputs, req : Nat] /\ seen \subseteq Inputs
  /\ about \in Seq(Asks)
  /\ waiter \in [Sent -> {"open", "lost", "allow", "reject", "dismissed", "used"}]
  /\ task \in [Tasks -> [at : Points, ask : Asks \union {None}, req : Nat]]

(* open_approval: "One dialog per session at a time".                        *)
Shown(set) == { n \in Sent : about[n] \in set /\ waiter[n] = "open" }
OneDialogAtATime == \A m, n \in Shown(Approvals) : m = n

(* complete_permission: "only an explicit approving selection may approve".  *)
(* A verdict is about what its dialog asked, and approves only if that       *)
(* dialog was answered so.                                                   *)
DecidedAsAnswered ==
  \A n \in Dialogs : task[n].at \in Settling =>
    /\ task[n].ask = about[n]
    /\ At(n, "approving") <=> waiter[n] = "allow"

(* route_user_input: however its request, its notification, a driver and a   *)
(* pull interleave, a prompt is put to the client once, and is not declined  *)
(* besides.                                                                  *)
PromptedOnce ==
  \A i \in Inputs :
    Cardinality({ n \in Sent : about[n] = i } \union
                { t \in Tasks : task[t].ask = i /\ task[t].at \in {"passed", "asking", "declining"} }) <= 1

(* session/close: no waiter outlives the session, except one that its task   *)
(* is about to retract.                                                      *)
WaitersReleased ==
  ~open => \A n \in Sent : waiter[n] = "open" => \E t \in Tasks : task[t].req = n /\ At(t, "asked")

(* What the host asks for is put to the client and a verdict is sent,        *)
(* whatever is shown when it arrives, unless the session closes.  An ask     *)
(* waits once, so none waits for ever if and only if again and again none    *)
(* does.  Approvals without choices are left out, and what queues behind one *)
(* with them.                                                                *)
Decidable  == \A a \in Approvals : kind[a] # "none"
Hanging    == Decidable /\ open /\ \E a \in Asks : asked[a] = "waiting"
AsksSettle == []<>~Hanging
=============================================================================

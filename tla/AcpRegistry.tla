---------------------------- MODULE AcpRegistry -----------------------------
(***************************************************************************)
(* The registry of ACP sessions and their observers                        *)
(* (src/src/acp/sessions.rs): session/new, resume, load, fork, close and   *)
(* the two requests that change the approval mode, every one a task of its *)
(* own that reads the table, asks the host, and takes the lock again to    *)
(* write what it was told.                                                 *)
(*                                                                         *)
(* An observer is named by the request that spawned it.  It subscribes     *)
(* when it is first polled, folds the host's events into the entry its     *)
(* session id names at that moment, subscribes anew after a restart of the *)
(* host, and retires when an event finds no entry.  Of an entry the model  *)
(* keeps the host session, the mode label and the asks presented; turns    *)
(* and dialogs are AcpTurns' and AcpDialogs'.                              *)
(*                                                                         *)
(* A session that a request creates bears the request's name, on the host  *)
(* and in the table.  A client may resume a durable host session under its *)
(* own id, or under an id of a former adapter (Stale) with the host's id   *)
(* as metadata.                                                            *)
(*                                                                         *)
(* Faults: "overlap" lets a client send a request for a host session while *)
(* another one is unanswered, "slow" lets an observer subscribe late,      *)
(* "crash" lets the host die, "late" lets a restart outlast ready's        *)
(* deadline, "refuse" lets a command fail, "unlisted" lets the pull of     *)
(* pending asks fail, and "forced" lets the host fold another mode than    *)
(* session/set_mode asked for.                                             *)
(*                                                                         *)
(* Another client of the same host (a rival) changes modes whenever it     *)
(* likes.  Nothing in the bridge orders its change with an answer a        *)
(* request has in hand, or with an observer that has yet to subscribe;     *)
(* raced keeps the host sessions this last happened to.                    *)
(*                                                                         *)
(* NeverFresh and Believe are mutants of the definitions that follow each. *)
(***************************************************************************)
EXTENDS Naturals, Sequences, FiniteSets

CONSTANTS
  Durable,   \* host sessions that exist when the adapter starts
  Stale,     \* ACP ids of a former adapter
  Reqs,      \* the client's requests
  Plans,     \* what they may ask for: functions from Reqs to Plan
  Asks,      \* approvals and prompts the host may come to ask for
  Ring,      \* capacity of an observer's receiver
  MaxGen,    \* hosts launched, at most
  Faults,
  None

HostSessions == Durable \union Reqs
Sids         == HostSessions \union Stale

Creating == {"new", "fork"}
Setting  == {"mode", "config"}
Label    == {"ask", "auto", "yolo", "deny"}
Modes    == {"promptUnmatched", "onRequest", "allowAll", "denyUnmatched"}

(* "rival" stands for another client of the same host, which changes the     *)
(* mode of the session msp; value is the mode asked for, in either           *)
(* vocabulary.                                                               *)
Plan == [op : Creating \union Setting \union {"resume", "close", "rival", "none"},
         sid : Sids, msp : HostSessions, value : Label \union Modes]

(* An entry of the session table.                                            *)
Entry == [msp : HostSessions, shown : SUBSET Asks, label : Label]

ASSUME AcpRegistryAssumption ==
  /\ Durable \intersect Reqs = {} /\ Stale \intersect HostSessions = {}
  /\ Plans \subseteq [Reqs -> Plan]
  /\ Ring \in Nat \ {0} /\ MaxGen \in Nat \ {0}
  /\ Faults \subseteq {"overlap", "slow", "crash", "late", "refuse", "unlisted",
                        "forced"}
  /\ None \notin Sids /\ None \notin Entry /\ None \notin Modes

(* mode_to_msp, resolve_mode and mode_from_msp: a request may name a label   *)
(* or a mode of the host, and what the labels have no word for is "ask".     *)
HostMode(label) == CASE label = "ask"  -> "promptUnmatched"
                     [] label = "deny" -> "denyUnmatched"
                     [] OTHER          -> "allowAll"
Resolve(value) == IF value \in Modes THEN value ELSE HostMode(value)
LabelOf(m) == CASE m = "allowAll"      -> "auto"
                [] m = "denyUnmatched" -> "deny"
                [] OTHER               -> "ask"

(* adopt_mode_label: a yolo session resumed onto allowAll stays yolo.        *)
Adopted(label, m) == IF HostMode(label) = m THEN label ELSE LabelOf(m)

(* Yolo survives only when the host folded allowAll.                         *)
Granted(value, m) == IF value = "yolo" /\ m = "allowAll" THEN "yolo" ELSE LabelOf(m)

VARIABLES
  plan,   \* what each request asks for
  req,    \* each request's task
  table,  \* the session table
  obs,    \* the observers
  up,     \* the supervisor, as ready() sees it
  gen,    \* which host is connected
  mode,   \* the approval mode of each host session, None before it exists
  asked,  \* the session each ask belongs to, None before it is asked
  raced   \* host sessions whose last change of mode met a request or an observer

vars == <<plan, req, table, obs, up, gen, mode, asked, raced>>
host == <<up, gen, mode, asked, raced>>

Idle == [at |-> "idle", msp |-> None, gen |-> 0, folded |-> None, fresh |-> FALSE,
         pulled |-> {}]
Unborn == [at |-> "none", sid |-> None, gen |-> 0, feed |-> <<>>]

Init ==
  /\ plan \in Plans
  /\ req = [r \in Reqs |-> Idle]
  /\ table = [s \in Sids |-> None]
  /\ obs = [r \in Reqs |-> Unborn]
  /\ up = "serving" /\ gen = 1
  /\ mode = [h \in HostSessions |-> IF h \in Durable THEN "promptUnmatched" ELSE None]
  /\ asked = [a \in Asks |-> None]
  /\ raced = {}

----------------------------------------------------------------------------
Open(s)     == table[s] # None
Exists(h)   == mode[h] # None
Busy(r)     == req[r].at \notin {"idle", "done"}
AsksOf(h)   == {a \in Asks : asked[a] = h}
Polled      == "slow" \in Faults \/ \A o \in Reqs : obs[o].at # "born"
Becomes(r, at) == req' = [req EXCEPT ![r].at = at]
Ends(r)     == Becomes(r, "done")

(* A send to the broadcast: it reaches the receivers subscribed on this      *)
(* connection, and pushes the oldest event out of a full one.                *)
Push(feed, e) == LET longer == Append(feed, e)
                 IN IF Len(longer) > Ring THEN Tail(longer) ELSE longer
Post(e) == [o \in Reqs |-> IF obs[o].at = "watching" /\ obs[o].gen = gen
                           THEN [obs[o] EXCEPT !.feed = Push(@, e)] ELSE obs[o]]
ModeEvent(h, m) == [msp |-> h, kind |-> "mode", value |-> m]
AskEvent(h, a)  == [msp |-> h, kind |-> "ask", value |-> a]

(* spawn_observer.                                                           *)
Spawned(o, s) == [obs EXCEPT ![o] = [Unborn EXCEPT !.at = "born", !.sid = s]]

(* A client names a session it has been told of, and waits for an answer     *)
(* before it sends another request for the same host session.                *)
Sendable(r) ==
  /\ req[r].at = "idle" /\ plan[r].op # "none" /\ Polled
  /\ plan[r].op # "new" /\ plan[r].sid \in Reqs => req[plan[r].sid].at = "done"
  /\ "overlap" \notin Faults /\ plan[r].op \notin Creating =>
       \A q \in Reqs \ {r} : Busy(q) => plan[q].op \in Creating \/ plan[q].msp # plan[r].msp

(* The handler's first look at the table: a known session's host id, else    *)
(* the metadata or the id itself.                                            *)
Enter(r) ==
  LET op == plan[r].op
      s  == plan[r].sid
  IN /\ Sendable(r) /\ op \notin {"close", "rival"}
     /\ IF op \in Setting /\ ~Open(s)
        THEN Ends(r)
        ELSE req' = [req EXCEPT ![r].at = "entered",
                                ![r].msp = IF op = "new" THEN None
                                           ELSE IF Open(s) THEN table[s].msp ELSE plan[r].msp]
     /\ UNCHANGED <<plan, table, obs, host>>

(* ready_conn, for the command of a request and for the pull of asks: a      *)
(* connection, or the supervisor's refusal.                                  *)
Connect(r) ==
  /\ req[r].at \in {"entered", "pulling"}
  /\ \/ /\ up = "serving"
        /\ req' = [req EXCEPT ![r].at = IF @ = "entered" THEN "called" ELSE "listing",
                              ![r].gen = gen]
     \/ /\ up = "exhausted" \/ (up = "restarting" /\ "late" \in Faults)
        /\ Ends(r)
  /\ UNCHANGED <<plan, table, obs, host>>

(* The host executes the command and answers it: a mode command is folded    *)
(* and told to every subscriber.                                             *)
Folds(r) == {Resolve(plan[r].value)}
              \union IF plan[r].op # "mode" \/ "forced" \in Faults THEN {"promptUnmatched"} ELSE {}
Creates(r) ==
  \E m \in IF plan[r].op = "new" THEN Folds(r) ELSE {mode[req[r].msp]} :
    /\ mode' = [mode EXCEPT ![r] = m]
    /\ req' = [req EXCEPT ![r].at = "answered", ![r].msp = r, ![r].folded = m]
    /\ UNCHANGED obs
Sets(r) ==
  \E m \in Folds(r) :
    /\ mode' = [mode EXCEPT ![req[r].msp] = m]
    /\ req' = [req EXCEPT ![r].at = "answered", ![r].folded = m]
    /\ obs' = Post(ModeEvent(req[r].msp, m))
Reads(r) ==
  /\ req' = [req EXCEPT ![r].at = "answered", ![r].folded = mode[req[r].msp]]
  /\ UNCHANGED <<mode, obs>>
Execute(r) ==
  /\ req[r].at = "called" /\ req[r].gen = gen /\ up = "serving"
  /\ req[r].msp # None => Exists(req[r].msp)
  /\ \/ plan[r].op \in Creating /\ Creates(r)
     \/ plan[r].op \in Setting /\ Sets(r)
     \/ plan[r].op = "resume" /\ Reads(r)
  /\ UNCHANGED <<plan, table, up, gen, asked, raced>>

(* The command fails, or the pull of asks: the host knows no such session,   *)
(* refuses, or is gone.                                                      *)
Fail(r) ==
  /\ req[r].at \in {"called", "listing"}
  /\ \/ req[r].gen # gen \/ up # "serving"
     \/ (IF req[r].at = "called" THEN "refuse" ELSE "unlisted") \in Faults
     \/ req[r].msp # None /\ ~Exists(req[r].msp)
  /\ Ends(r)
  /\ UNCHANGED <<plan, table, obs, host>>

(* session/new and session/fork insert what they were given, under a fresh   *)
(* id: a new session may be yolo, a fork gets the label of its mode.         *)
Inserts(r, label) ==
  /\ table' = [table EXCEPT ![r] = [msp |-> r, shown |-> {}, label |-> label]]
  /\ obs' = Spawned(r, r)
  /\ Ends(r)
  /\ UNCHANGED <<plan, host>>
Insert(r) == /\ req[r].at = "answered" /\ plan[r].op = "new"
             /\ Inserts(r, Granted(plan[r].value, req[r].folded))
Fork(r) == /\ req[r].at = "answered" /\ plan[r].op = "fork"
           /\ Inserts(r, LabelOf(req[r].folded))

(* resume_or_load looks whether the id is known, lets the lock go to read    *)
(* the workspace's skills, and takes it again to insert or update the entry. *)
NeverFresh(s) == FALSE
Fresh(s) == ~Open(s)
Check(r) ==
  /\ req[r].at = "answered" /\ plan[r].op = "resume"
  /\ req' = [req EXCEPT ![r].at = "checked", ![r].fresh = Fresh(plan[r].sid)]
  /\ UNCHANGED <<plan, table, obs, host>>

Attach(r) ==
  LET s == plan[r].sid
      entry == IF Open(s) THEN table[s] ELSE [msp |-> None, label |-> "ask", shown |-> {}]
  IN /\ req[r].at = "checked"
     /\ table' = [table EXCEPT ![s] = [entry EXCEPT !.msp = req[r].msp,
                                                    !.label = Adopted(@, req[r].folded)]]
     /\ obs' = IF req[r].fresh THEN Spawned(r, s) ELSE obs
     /\ Becomes(r, "attached")
     /\ UNCHANGED <<plan, host>>

(* reconcile_pending: the session's host id is looked up, the host asked for *)
(* what is pending, and each ask presented in its turn, unless it was; in    *)
(* between the session may be closed, resumed or told of the ask by events.  *)
Pull(r) ==
  LET s == plan[r].sid
  IN /\ req[r].at = "attached" /\ Polled
     /\ IF Open(s)
        THEN req' = [req EXCEPT ![r].at = "pulling", ![r].msp = table[s].msp]
        ELSE Ends(r)
     /\ UNCHANGED <<plan, table, obs, host>>

Lists(r) ==
  /\ req[r].at = "listing" /\ req[r].gen = gen /\ up = "serving" /\ Exists(req[r].msp)
  /\ req' = [req EXCEPT ![r].at = "presenting", ![r].pulled = AsksOf(req[r].msp)]
  /\ UNCHANGED <<plan, table, obs, host>>

Present(r) ==
  /\ req[r].at = "presenting"
  /\ \/ /\ req[r].pulled = {} /\ Ends(r) /\ UNCHANGED table
     \/ \E a \in req[r].pulled :
          /\ req' = [req EXCEPT ![r].pulled = @ \ {a}]
          /\ table' = IF Open(plan[r].sid)
                      THEN [table EXCEPT ![plan[r].sid].shown = @ \union {a}] ELSE table
  /\ UNCHANGED <<plan, obs, host>>

(* set_config_option believes the host's echo, set_mode the request.         *)
Believe(r) == Granted(plan[r].value, Resolve(plan[r].value))
Told(r) == Granted(plan[r].value, IF plan[r].op = "mode" THEN Resolve(plan[r].value)
                                  ELSE req[r].folded)
Apply(r) ==
  /\ req[r].at = "answered" /\ plan[r].op \in Setting
  /\ table' = IF Open(plan[r].sid) THEN [table EXCEPT ![plan[r].sid].label = Told(r)] ELSE table
  /\ Ends(r)
  /\ UNCHANGED <<plan, obs, host>>

Close(r) ==
  /\ Sendable(r) /\ plan[r].op = "close"
  /\ table' = [table EXCEPT ![plan[r].sid] = None]
  /\ Ends(r)
  /\ UNCHANGED <<plan, obs, host>>

----------------------------------------------------------------------------
(* observe_session subscribes on the connection ready() returns.             *)
Subscribe(o) ==
  /\ obs[o].at = "born"
  /\ \/ up = "serving" /\ obs' = [obs EXCEPT ![o].at = "watching", ![o].gen = gen]
     \/ /\ up = "exhausted" \/ (up = "restarting" /\ "late" \in Faults)
        /\ obs' = [obs EXCEPT ![o].at = "retired"]
  /\ UNCHANGED <<plan, req, table, host>>

(* observe_event: no entry retires the observer, an event of another session *)
(* is skipped, a mode is adopted and an ask presented once.                  *)
Observe(o) ==
  /\ obs[o].at = "watching" /\ obs[o].feed # <<>>
  /\ LET e == Head(obs[o].feed)
         s == obs[o].sid
         mine == Open(s) /\ table[s].msp = e.msp
     IN /\ obs' = [obs EXCEPT ![o].feed = Tail(@),
                              ![o].at = IF Open(s) THEN @ ELSE "retired"]
        /\ table' = CASE mine /\ e.kind = "mode" -> [table EXCEPT ![s].label = LabelOf(e.value)]
                      [] mine /\ e.kind = "ask"  -> [table EXCEPT ![s].shown = @ \union {e.value}]
                      [] OTHER                   -> table
  /\ UNCHANGED <<plan, req, host>>

(* The channel closes when another connection has taken the place of this    *)
(* one, and not before: an exhausted supervisor keeps its last connection.   *)
Closed(o) == obs[o].at = "watching" /\ obs[o].feed = <<>> /\ obs[o].gen < gen
Resubscribe(o) ==
  /\ Closed(o)
  /\ \/ up = "serving" /\ obs' = [obs EXCEPT ![o].gen = gen]
     \/ /\ up = "exhausted" \/ (up = "restarting" /\ "late" \in Faults)
        /\ obs' = [obs EXCEPT ![o].at = "retired"]
  /\ UNCHANGED <<plan, req, table, host>>

----------------------------------------------------------------------------
(* The host: an ask comes up in a session some client works in, another      *)
(* client changes a mode, the process dies and is replaced or given up.      *)
Ask(a, h) ==
  /\ up = "serving" /\ asked[a] = None /\ Exists(h)
  /\ \/ h \in Durable
     \/ Polled /\ \E s \in Sids : Open(s) /\ table[s].msp = h
  /\ asked' = [asked EXCEPT ![a] = h]
  /\ obs' = Post(AskEvent(h, a))
  /\ UNCHANGED <<plan, req, table, up, gen, mode, raced>>

InHand(h) ==
  \/ \E q \in Reqs : req[q].at \in {"answered", "checked"} /\ req[q].msp = h
  \/ \E o \in Reqs : obs[o].at = "born" /\ Open(obs[o].sid) /\ table[obs[o].sid].msp = h
Rival(r) ==
  LET h == plan[r].msp
  IN /\ req[r].at = "idle" /\ plan[r].op = "rival" /\ up = "serving" /\ Exists(h)
     /\ mode' = [mode EXCEPT ![h] = Resolve(plan[r].value)]
     /\ obs' = Post(ModeEvent(h, Resolve(plan[r].value)))
     /\ raced' = IF InHand(h) THEN raced \union {h} ELSE raced \ {h}
     /\ Ends(r)
     /\ UNCHANGED <<plan, table, up, gen, asked>>

Die ==
  /\ "crash" \in Faults /\ up = "serving"
  /\ up' = "restarting"
  /\ UNCHANGED <<plan, req, table, obs, gen, mode, asked, raced>>

Restart ==
  /\ up = "restarting"
  /\ \/ gen < MaxGen /\ up' = "serving" /\ gen' = gen + 1
     \/ up' = "exhausted" /\ gen' = gen
  /\ UNCHANGED <<plan, req, table, obs, mode, asked, raced>>

Handle(r) == \/ Connect(r) \/ Execute(r) \/ Fail(r) \/ Insert(r) \/ Fork(r)
             \/ Check(r) \/ Attach(r) \/ Pull(r) \/ Lists(r) \/ Present(r) \/ Apply(r)
Watch(o)  == Subscribe(o) \/ Observe(o) \/ Resubscribe(o)

Next ==
  \/ \E r \in Reqs : Enter(r) \/ Handle(r) \/ Close(r) \/ Rival(r)
  \/ \E o \in Reqs : Watch(o)
  \/ \E a \in Asks, h \in HostSessions : Ask(a, h)
  \/ Die \/ Restart

(* Tasks run on; the client, the host's asks and its death may never come.   *)
Fairness ==
  /\ \A r \in Reqs : WF_vars(Handle(r)) /\ WF_vars(Watch(r))
  /\ WF_vars(Restart)

SafeSpec == Init /\ [][Next]_vars
Spec == SafeSpec /\ Fairness

----------------------------------------------------------------------------
(* Once every request is answered and every observer has caught up with a    *)
(* host that never died, the label shown to the client is the one for the    *)
(* mode the host applies (yolo being auto to the host): the echo, the        *)
(* snapshot of a resume and the observer's events, applied by different      *)
(* tasks, end on the same mode.  Spared is a session whose last change, by   *)
(* another client, met an answer in hand or an observer yet to subscribe.    *)
Calm == /\ gen = 1 /\ up = "serving"
        /\ \A r \in Reqs : ~Busy(r) /\ obs[r].at # "born"
        /\ \A r \in Reqs : obs[r].at = "watching" => obs[r].feed = <<>>
Stands(label, m) == HostMode(label) = HostMode(LabelOf(m))
ModeTruthful ==
  Calm => \A s \in Sids : Open(s) /\ table[s].msp \notin raced =>
            Stands(table[s].label, mode[table[s].msp])

(* Whatever becomes of hosts and sessions, an open session gets an observer  *)
(* that listens to the host in service, unless the supervisor has given up.  *)
Watched(s) == \E o \in Reqs : /\ obs[o].at = "watching" /\ obs[o].sid = s
                              /\ obs[o].gen = gen
SessionsWatched ==
  []<>(up = "exhausted" \/ (up = "serving" /\ \A s \in Sids : Open(s) => Watched(s)))

(* With a host that never dies, an ask of the host reaches every open        *)
(* session it belongs to, be it asked before the session was resumed, while  *)
(* it was, or later, and also when the session was closed and resumed.       *)
AsksPresented ==
  [](gen = 1 /\ up = "serving") =>
    []<>(\A s \in Sids : Open(s) => AsksOf(table[s].msp) \subseteq table[s].shown)

(* Both promises of the observers.                                           *)
Attended == SessionsWatched /\ AsksPresented
=============================================================================

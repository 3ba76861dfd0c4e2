--------------------------- MODULE AcpTurnsProofs ----------------------------
(***************************************************************************)
(* Theorems about AcpTurns, for any number of prompts and steering         *)
(* requests: in_flight is exactly the turns that some task will settle,    *)
(* every request is answered exactly once, except that session/close       *)
(* answers a v1 prompt a second time, and one prompt leaves its session    *)
(* idle unless a dialog's update comes late.                               *)
(***************************************************************************)
EXTENDS AcpTurns, TLAPS

Before == {"none", "sent", "calling", "started", "queued", "pushed"}

(* A driver is spawned by a handler that has pushed its turn, and each kind  *)
(* of request keeps to its own phases.                                       *)
Phases ==
  /\ \A r \in Reqs : handler[r] \in Before => driver[r] = "none"
  /\ \A r \in Steers : handler[r] \notin {"queued", "pushed"}
  /\ \A r \in Prompts : handler[r] \notin {"injected", "replied"}

TurnsInv == TypeOK /\ Phases /\ EntriesDriven

(* The replies sent, as a function of where the tasks are: v2 answers from   *)
(* the handler, v1 from the driver unless the handler refused.               *)
Answered(r) ==
  IF ver = 2 THEN handler[r] \in {"replied", "done"}
  ELSE driver[r] = "done" \/ (handler[r] = "done" /\ driver[r] = "none")

RepliesCounted ==
  /\ closer.on => ver \in Closing
  /\ \A r \in Steers : handler[r] # "none" => ver = 2
  /\ \A r \in Reqs : replies[r] = IF Answered(r) THEN 1 ELSE 0

(* A session that was sent one prompt: its driver finds no other turn in     *)
(* flight, and once it has retired the client is left with idle, or an       *)
(* update of the observer or of a dialog's task was late.                    *)
Retired(p) == ~Settling(p) /\ driver[p] # "settling"
EndsIdle ==
  /\ ver # 2 => shown = "none"
  /\ \A p \in Prompts : Alone(p) =>
       /\ Retired(p) => shown \in {"none", "idle"} \/ late
       /\ driver[p] = "settling" => last[p]

-----------------------------------------------------------------------------
(* Append keeps the type of a sequence.                                      *)
LEMMA AppendSeq ==
  ASSUME NEW S, NEW s \in Seq(S), NEW x \in S
  PROVE  Append(s, x) \in Seq(S)
OBVIOUS

(* A reply keeps the type of the count of replies.                           *)
LEMMA ReplyType ==
  ASSUME NEW r \in Reqs, TypeOK, Reply(r)
  PROVE  replies' \in [Reqs -> Nat]
<1>1. replies \in [Reqs -> Nat]
  BY DEF TypeOK
<1> QED
  BY <1>1 DEF Reply

(* A session without requests satisfies the invariants.                      *)
LEMMA InitTurns == Init => TurnsInv /\ RepliesCounted
<1> SUFFICES ASSUME Init PROVE TurnsInv /\ RepliesCounted
  OBVIOUS
<1> USE AcpTurnsAssumption DEF Init, Reqs, Versions
<1>1. TypeOK
  <2>1. news \in Seq(Reqs \union Asks) /\ inFlight \subseteq Reqs /\ poked \subseteq Reqs
    OBVIOUS
  <2>2. canceller \in Tasks /\ closer \in Tasks /\ canceller.todo = {} /\ closer.todo = {}
    BY DEF NotBegun, Tasks
  <2>3. replies \in [Reqs -> Nat] /\ last \in [Reqs -> BOOLEAN]
    OBVIOUS
  <2> QED
    BY <2>1, <2>2, <2>3 DEF TypeOK
<1>2. Phases
  BY DEF Phases, Before
<1>3. EntriesDriven
  BY DEF EntriesDriven, Settling
<1>4. RepliesCounted
  BY DEF RepliesCounted, Answered, NotBegun
<1> QED
  BY <1>1, <1>2, <1>3, <1>4 DEF TurnsInv

(* What is left of a sequence, and its head, keep their types.               *)
LEMMA HeadTailTypes ==
  ASSUME NEW S, NEW s \in Seq(S), s # <<>>
  PROVE  Head(s) \in S /\ Tail(s) \in Seq(S)
OBVIOUS

(* The observer and the dialogs' tasks touch neither the turns of a session  *)
(* nor the tasks that handle and drive them.                                 *)
LEMMA AsidesApart ==
  ASSUME ObserverStep \/ \E a \in Asks : HostAsks(a) \/ HostResolves(a) \/ DialogStep(a)
  PROVE  UNCHANGED <<ver, dead, open, inFlight, poked, handler, snap, driver, last, replies,
                     canceller, closer>>
BY DEF ObserverStep, Observe, ObserverShows, HostAsks, HostResolves, DialogStep, OpenDialog,
       RequireAction, Decide, CheckBusy, Resumed, hostVars, sessionVars, taskVars, clientVars,
       cancelVars

(* Every step keeps the types.                                               *)
LEMMA TypeStep == TypeOK /\ [Next]_vars => TypeOK'
<1> SUFFICES ASSUME TypeOK, [Next]_vars PROVE TypeOK'
  OBVIOUS
<1> USE AcpTurnsAssumption DEF Reqs, hostVars, sessionVars, taskVars, clientVars, cancelVars, askVars, TypeOK, Tasks, Versions
<1>1. ASSUME NEW r \in Reqs, HostStarts(r) PROVE TypeOK'
  BY <1>1 DEF HostStarts
<1>2. ASSUME NEW r \in Reqs, HostFinishes(r) PROVE TypeOK'
  BY <1>2 DEF HostFinishes
<1>3. ASSUME NEW r \in Reqs, Send(r) PROVE TypeOK'
  BY <1>3 DEF Send, At
<1>4. ASSUME NEW r \in Reqs, Refuse(r) PROVE TypeOK'
  BY <1>4 DEF Refuse, Reply
<1>5. ASSUME NEW r \in Reqs, Admit(r) PROVE TypeOK'
  BY <1>5 DEF Admit, At
<1>6. ASSUME NEW r \in Reqs, StartTurn(r) PROVE TypeOK'
  <2>1. handler' \in [Reqs -> {"none", "sent", "calling", "started", "queued", "pushed", "injected", "replied", "done"}]
    BY <1>6 DEF StartTurn, At
  <2>2. turn' \in [Reqs -> {"none", "queued", "running", "over"}]
    BY <1>6 DEF StartTurn, HostAdmits
  <2>3. news' \in Seq(Reqs \union Asks)
    <3>1. Append(news, r) \in Seq(Reqs \union Asks)
      BY AppendSeq, Zenon
    <3>2. news' = news \/ news' = Append(news, r)
      BY <1>6 DEF StartTurn, HostAdmits
    <3> QED
      BY <3>1, <3>2
  <2> QED
    BY <1>6, <2>1, <2>2, <2>3 DEF StartTurn
<1>7. ASSUME NEW r \in Reqs, Acked(r) PROVE TypeOK'
  BY <1>7 DEF Acked, At, Push
<1>8. ASSUME NEW r \in Reqs, Accept(r) PROVE TypeOK'
  <2>1. handler' \in [Reqs -> {"none", "sent", "calling", "started", "queued", "pushed", "injected", "replied", "done"}]
    BY <1>8 DEF Accept, At
  <2>2. replies' \in [Reqs -> Nat]
    <3>1. Reply(r) \/ replies' = replies
      BY <1>8 DEF Accept
    <3> QED
      BY <3>1, ReplyType
  <2> QED
    BY <1>8, <2>1, <2>2 DEF Accept
<1>9. ASSUME NEW r \in Reqs, Decline(r) PROVE TypeOK'
  BY <1>9 DEF Decline, At, Reply
<1>10. ASSUME NEW r \in Reqs, SteerActive(r) PROVE TypeOK'
  <2>1. handler' \in [Reqs -> {"none", "sent", "calling", "started", "queued", "pushed", "injected", "replied", "done"}]
    <3>1. \/ handler' = [handler EXCEPT ![r] = "injected"]
          \/ handler' = [handler EXCEPT ![r] = "done"]
      BY <1>10 DEF SteerActive, At
    <3>2. handler \in [Reqs -> {"none", "sent", "calling", "started", "queued", "pushed", "injected", "replied", "done"}]
      OBVIOUS
    <3> HIDE DEF TypeOK
    <3> QED
      BY <3>1, <3>2
  <2>2. replies' \in [Reqs -> Nat]
    <3>1. Reply(r) \/ replies' = replies
      BY <1>10 DEF SteerActive
    <3> QED
      BY <3>1, ReplyType
  <2> QED
    BY <1>10, <2>1, <2>2 DEF SteerActive
<1>11. ASSUME NEW r \in Reqs, SteerOrStart(r) PROVE TypeOK'
  <2>1. handler' \in [Reqs -> {"none", "sent", "calling", "started", "queued", "pushed", "injected", "replied", "done"}]
    <3>1. \/ handler' = [handler EXCEPT ![r] = "started"]
          \/ handler' = [handler EXCEPT ![r] = "injected"]
      BY <1>11 DEF SteerOrStart, At
    <3>2. handler \in [Reqs -> {"none", "sent", "calling", "started", "queued", "pushed", "injected", "replied", "done"}]
      OBVIOUS
    <3> HIDE DEF TypeOK
    <3> QED
      BY <3>1, <3>2
  <2>2. turn' \in [Reqs -> {"none", "queued", "running", "over"}]
    BY <1>11 DEF SteerOrStart, HostAdmits
  <2>3. news' \in Seq(Reqs \union Asks)
    <3>1. Append(news, r) \in Seq(Reqs \union Asks)
      BY AppendSeq, Zenon
    <3>2. news' = news \/ news' = Append(news, r)
      BY <1>11 DEF SteerOrStart, HostAdmits
    <3> QED
      BY <3>1, <3>2
  <2> QED
    BY <1>11, <2>1, <2>2, <2>3 DEF SteerOrStart
<1>12. ASSUME NEW r \in Reqs, SteerAcked(r) PROVE TypeOK'
  BY <1>12 DEF SteerAcked, At, Push
<1>13. ASSUME NEW r \in Reqs, SteerReply(r) PROVE TypeOK'
  BY <1>13 DEF SteerReply, At, Reply
<1>14. ASSUME NEW r \in Reqs, SteerRunning(r) PROVE TypeOK'
  BY <1>14 DEF SteerRunning, At, Show
<1>15. ASSUME NEW r \in Reqs, Announce(r) PROVE TypeOK'
  BY <1>15 DEF Announce, Drive, Show
<1>16. ASSUME NEW r \in Reqs, Settle(r) PROVE TypeOK'
  BY <1>16 DEF Settle, Clear, Drive, Cleared, ActiveAfter
<1>17. ASSUME NEW r \in Reqs, PagingFails(r) PROVE TypeOK'
  BY <1>17 DEF PagingFails, Clear, Drive, Cleared, ActiveAfter
<1>18. ASSUME NEW r \in Reqs, Conclude(r) PROVE TypeOK'
  <2>1. replies' \in [Reqs -> Nat]
    <3>1. Reply(r) \/ replies' = replies
      BY <1>18 DEF Conclude
    <3> QED
      BY <3>1, ReplyType
  <2>2. driver' \in [Reqs -> {"none", "spawned", "driving", "settling", "done"}]
    BY <1>18 DEF Conclude, Drive
  <2>3. shown' \in {"none", "running", "requires_action", "idle"}
    BY <1>18 DEF Conclude, Show
  <2> QED
    BY <1>18, <2>1, <2>2, <2>3 DEF Conclude
<1>19. ASSUME NEW r \in Reqs, CancelOne(r) PROVE TypeOK'
  <2>1. turn' \in [Reqs -> {"none", "queued", "running", "over"}]
    BY <1>19 DEF CancelOne, HostCancels
  <2>2. canceller' \in Tasks /\ (canceller'.todo # {} => canceller'.on)
    BY <1>19 DEF CancelOne, Without
  <2> QED
    BY <1>19, <2>1, <2>2 DEF CancelOne, Poke
<1>20. ASSUME NEW r \in Reqs, CloseOne(r) PROVE TypeOK'
  <2>1. turn' \in [Reqs -> {"none", "queued", "running", "over"}]
    BY <1>20 DEF CloseOne, HostCancels
  <2>2. replies' \in [Reqs -> Nat]
    <3>1. Reply(r) \/ replies' = replies
      BY <1>20 DEF CloseOne
    <3> QED
      BY <3>1, ReplyType
  <2>3. closer' \in Tasks /\ (closer'.todo # {} => closer'.on)
    BY <1>20 DEF CloseOne, Without
  <2> QED
    BY <1>20, <2>1, <2>2, <2>3 DEF CloseOne, Poke
<1>21. ASSUME HostDies PROVE TypeOK'
  BY <1>21 DEF HostDies
<1>22. ASSUME Observe PROVE TypeOK'
  <2>1. news' \in Seq(Reqs \union Asks) /\ Head(news) \in Reqs \union Asks
    BY <1>22, HeadTailTypes DEF Observe
  <2>2. active' \in Reqs \union {None} /\ observing' \in BOOLEAN
    BY <1>22 DEF Observe, InFlightNow
  <2> QED
    BY <1>22, <2>1, <2>2 DEF Observe
<1>27. ASSUME ObserverShows PROVE TypeOK'
  BY <1>27 DEF ObserverShows, Aside, Show
<1>28. ASSUME NEW a \in Asks, HostAsks(a) \/ OpenDialog(a) \/ Decide(a) \/ CheckBusy(a)
       PROVE  TypeOK'
  <2>1. \E to \in {"asked", "opening", "decided", "resuming", "over"} :
          dialog' = [dialog EXCEPT ![a] = to]
    BY <1>28 DEF HostAsks, OpenDialog, Decide, CheckBusy, Dialog
  <2>2. UNCHANGED <<ver, hostVars, sessionVars, taskVars, clientVars, cancelVars,
                    resolved, observing, late>>
    BY <1>28 DEF HostAsks, OpenDialog, Decide, CheckBusy
  <2> QED
    BY <2>1, <2>2
<1>29. ASSUME NEW a \in Asks, HostResolves(a) PROVE TypeOK'
  <2>1. news' \in Seq(Reqs \union Asks)
    BY <1>29, AppendSeq DEF HostResolves
  <2> QED
    BY <1>29, <2>1 DEF HostResolves
<1>30. ASSUME NEW a \in Asks, RequireAction(a) \/ Resumed(a) PROVE TypeOK'
  <2>1. \E to \in {"shown", "over"} : dialog' = [dialog EXCEPT ![a] = to]
    BY <1>30 DEF RequireAction, Resumed, Dialog
  <2>2. shown' \in {"none", "running", "requires_action", "idle"} /\ late' \in BOOLEAN
    BY <1>30 DEF RequireAction, Resumed, Aside, Show
  <2>3. UNCHANGED <<ver, hostVars, sessionVars, taskVars, replies, cancelVars,
                    resolved, observing>>
    BY <1>30 DEF RequireAction, Resumed
  <2> QED
    BY <2>1, <2>2, <2>3
<1>23. ASSUME Cancel PROVE TypeOK'
  BY <1>23 DEF Cancel, Busy
<1>24. ASSUME Close PROVE TypeOK'
  BY <1>24 DEF Close, Busy
<1>25. ASSUME CloseDone PROVE TypeOK'
  <2>1. UNCHANGED <<ver, turn, news, dead, open, inFlight, poked, active, handler, snap, driver,
                    last, replies, canceller, dialog, resolved, observing, late>>
    BY <1>25 DEF CloseDone
  <2>2. /\ closer' \in [on : BOOLEAN, todo : SUBSET Reqs, some : BOOLEAN]
        /\ closer'.todo = {}
    BY <1>25 DEF CloseDone
  <2>3. shown' \in {"none", "running", "requires_action", "idle"}
    BY <1>25 DEF CloseDone, Show
  <2> QED
    BY <2>1, <2>2, <2>3
<1>26. CASE UNCHANGED vars
  <2>1. UNCHANGED <<ver, hostVars, sessionVars, taskVars, clientVars, cancelVars, askVars>>
    BY <1>26 DEF vars
  <2>2. UNCHANGED <<ver, turn, news, dead, open, inFlight, poked, active>>
    BY <2>1
  <2>3. UNCHANGED <<handler, snap, driver, last, replies, shown, canceller, closer>>
    BY <2>1
  <2>4. UNCHANGED <<dialog, resolved, observing, late>>
    BY <2>1
  <2> QED
    BY <2>2, <2>3, <2>4
<1> QED
  BY <1>1, <1>2, <1>3, <1>4, <1>5, <1>6, <1>7, <1>8, <1>9, <1>10, <1>11, <1>12, <1>13, <1>14,
     <1>15, <1>16, <1>17, <1>18, <1>19, <1>20, <1>21, <1>22, <1>23, <1>24, <1>25, <1>26, <1>27,
     <1>28, <1>29, <1>30
  DEF Next, Handle, DriveTurn, ObserverStep, DialogStep, CancelStep, CloseStep

(* Every step keeps the phases of a request, and in_flight in step with them. *)
LEMMA EntriesStep == TurnsInv /\ [Next]_vars => Phases' /\ EntriesDriven'
<1> SUFFICES ASSUME TurnsInv, [Next]_vars PROVE Phases' /\ EntriesDriven'
  OBVIOUS
<1> USE AcpTurnsAssumption DEF Reqs, hostVars, sessionVars, taskVars, clientVars, cancelVars, askVars, TurnsInv, TypeOK, Tasks, Versions, Phases, Before, EntriesDriven, Settling
<1>1. ASSUME NEW r \in Reqs, HostStarts(r) PROVE Phases' /\ EntriesDriven'
  <2>1. Phases'
    BY <1>1 DEF HostStarts
  <2>2. EntriesDriven'
    BY <1>1 DEF HostStarts
  <2> QED
    BY <2>1, <2>2
<1>2. ASSUME NEW r \in Reqs, HostFinishes(r) PROVE Phases' /\ EntriesDriven'
  <2>1. Phases'
    BY <1>2 DEF HostFinishes
  <2>2. EntriesDriven'
    BY <1>2 DEF HostFinishes
  <2> QED
    BY <2>1, <2>2
<1>3. ASSUME NEW r \in Reqs, Send(r) PROVE Phases' /\ EntriesDriven'
  <2>1. Phases'
    BY <1>3 DEF Send, At
  <2>2. EntriesDriven'
    BY <1>3 DEF Send, At
  <2> QED
    BY <2>1, <2>2
<1>4. ASSUME NEW r \in Reqs, Refuse(r) PROVE Phases' /\ EntriesDriven'
  <2>1. Phases'
    BY <1>4 DEF Refuse, Reply
  <2>2. EntriesDriven'
    BY <1>4 DEF Refuse, Reply
  <2> QED
    BY <2>1, <2>2
<1>5. ASSUME NEW r \in Reqs, Admit(r) PROVE Phases' /\ EntriesDriven'
  <2>1. Phases'
    BY <1>5 DEF Admit, At
  <2>2. EntriesDriven'
    BY <1>5 DEF Admit, At
  <2> QED
    BY <2>1, <2>2
<1>6. ASSUME NEW r \in Reqs, StartTurn(r) PROVE Phases' /\ EntriesDriven'
  <2>1. Phases'
    BY <1>6 DEF StartTurn, At, HostAdmits, Running
  <2>2. EntriesDriven'
    BY <1>6 DEF StartTurn, At, HostAdmits, Running
  <2> QED
    BY <2>1, <2>2
<1>7. ASSUME NEW r \in Reqs, Acked(r) PROVE Phases' /\ EntriesDriven'
  <2>1. Phases'
    BY <1>7 DEF Acked, At, Push
  <2>2. EntriesDriven'
    BY <1>7 DEF Acked, At, Push
  <2> QED
    BY <2>1, <2>2
<1>8. ASSUME NEW r \in Reqs, Accept(r) PROVE Phases' /\ EntriesDriven'
  <2>1. Phases'
    BY <1>8 DEF Accept, At, Reply
  <2>2. EntriesDriven'
    BY <1>8 DEF Accept, At, Reply
  <2> QED
    BY <2>1, <2>2
<1>9. ASSUME NEW r \in Reqs, Decline(r) PROVE Phases' /\ EntriesDriven'
  <2>1. Phases'
    BY <1>9 DEF Decline, At, Reply
  <2>2. EntriesDriven'
    BY <1>9 DEF Decline, At, Reply
  <2> QED
    BY <2>1, <2>2
<1>10. ASSUME NEW r \in Reqs, SteerActive(r) PROVE Phases' /\ EntriesDriven'
  <2>1. Phases'
    BY <1>10 DEF SteerActive, At, Reply
  <2>2. EntriesDriven'
    BY <1>10 DEF SteerActive, At, Reply
  <2> QED
    BY <2>1, <2>2
<1>11. ASSUME NEW r \in Reqs, SteerOrStart(r) PROVE Phases' /\ EntriesDriven'
  <2>1. Phases'
    BY <1>11 DEF SteerOrStart, At, HostAdmits, Running
  <2>2. EntriesDriven'
    BY <1>11 DEF SteerOrStart, At, HostAdmits, Running
  <2> QED
    BY <2>1, <2>2
<1>12. ASSUME NEW r \in Reqs, SteerAcked(r) PROVE Phases' /\ EntriesDriven'
  <2>1. Phases'
    BY <1>12 DEF SteerAcked, At, Push
  <2>2. EntriesDriven'
    BY <1>12 DEF SteerAcked, At, Push
  <2> QED
    BY <2>1, <2>2
<1>13. ASSUME NEW r \in Reqs, SteerReply(r) PROVE Phases' /\ EntriesDriven'
  <2>1. Phases'
    BY <1>13 DEF SteerReply, At, Reply
  <2>2. EntriesDriven'
    BY <1>13 DEF SteerReply, At, Reply
  <2> QED
    BY <2>1, <2>2
<1>14. ASSUME NEW r \in Reqs, SteerRunning(r) PROVE Phases' /\ EntriesDriven'
  <2>1. Phases'
    BY <1>14 DEF SteerRunning, At, Show
  <2>2. EntriesDriven'
    BY <1>14 DEF SteerRunning, At, Show
  <2> QED
    BY <2>1, <2>2
<1>15. ASSUME NEW r \in Reqs, Announce(r) PROVE Phases' /\ EntriesDriven'
  <2>1. Phases'
    BY <1>15 DEF Announce, Drive, Show
  <2>2. EntriesDriven'
    BY <1>15 DEF Announce, Drive, Show
  <2> QED
    BY <2>1, <2>2
<1>16. ASSUME NEW r \in Reqs, Settle(r) PROVE Phases' /\ EntriesDriven'
  <2>1. Phases'
    BY <1>16 DEF Settle, Clear, Drive, Cleared, ActiveAfter
  <2>2. EntriesDriven'
    BY <1>16 DEF Settle, Clear, Drive, Cleared, ActiveAfter
  <2> QED
    BY <2>1, <2>2
<1>17. ASSUME NEW r \in Reqs, PagingFails(r) PROVE Phases' /\ EntriesDriven'
  <2>1. Phases'
    BY <1>17 DEF PagingFails, Clear, Drive, Cleared, ActiveAfter
  <2>2. EntriesDriven'
    BY <1>17 DEF PagingFails, Clear, Drive, Cleared, ActiveAfter
  <2> QED
    BY <2>1, <2>2
<1>18. ASSUME NEW r \in Reqs, Conclude(r) PROVE Phases' /\ EntriesDriven'
  <2>1. Phases'
    BY <1>18 DEF Conclude, Drive, Show, RepliesOnSettle, Reply
  <2>2. EntriesDriven'
    BY <1>18 DEF Conclude, Drive, Show, RepliesOnSettle, Reply
  <2> QED
    BY <2>1, <2>2
<1>19. ASSUME NEW r \in Reqs, CancelOne(r) PROVE Phases' /\ EntriesDriven'
  <2>1. Phases'
    BY <1>19 DEF CancelOne, HostCancels, Poke, Without
  <2>2. EntriesDriven'
    BY <1>19 DEF CancelOne, HostCancels, Poke, Without
  <2> QED
    BY <2>1, <2>2
<1>20. ASSUME NEW r \in Reqs, CloseOne(r) PROVE Phases' /\ EntriesDriven'
  <2>1. Phases'
    BY <1>20 DEF CloseOne, HostCancels, Poke, Without, Reply
  <2>2. EntriesDriven'
    BY <1>20 DEF CloseOne, HostCancels, Poke, Without, Reply
  <2> QED
    BY <2>1, <2>2
<1>21. ASSUME HostDies PROVE Phases' /\ EntriesDriven'
  <2>1. Phases'
    BY <1>21 DEF HostDies
  <2>2. EntriesDriven'
    BY <1>21 DEF HostDies
  <2> QED
    BY <2>1, <2>2
<1>22. ASSUME ObserverStep \/ \E a \in Asks : HostAsks(a) \/ HostResolves(a) \/ DialogStep(a)
       PROVE  Phases' /\ EntriesDriven'
  <2>1. UNCHANGED <<handler, driver, open, inFlight>>
    BY <1>22, AsidesApart
  <2> QED
    BY <2>1
<1>23. ASSUME Cancel PROVE Phases' /\ EntriesDriven'
  <2>1. Phases'
    BY <1>23 DEF Cancel, Busy
  <2>2. EntriesDriven'
    BY <1>23 DEF Cancel, Busy
  <2> QED
    BY <2>1, <2>2
<1>24. ASSUME Close PROVE Phases' /\ EntriesDriven'
  <2>1. Phases'
    BY <1>24 DEF Close, Busy
  <2>2. EntriesDriven'
    BY <1>24 DEF Close, Busy
  <2> QED
    BY <2>1, <2>2
<1>25. ASSUME CloseDone PROVE Phases' /\ EntriesDriven'
  <2>1. Phases'
    BY <1>25 DEF CloseDone, Show
  <2>2. EntriesDriven'
    BY <1>25 DEF CloseDone, Show
  <2> QED
    BY <2>1, <2>2
<1>26. CASE UNCHANGED vars
  BY <1>26 DEF vars
<1> QED
  BY <1>1, <1>2, <1>3, <1>4, <1>5, <1>6, <1>7, <1>8, <1>9, <1>10, <1>11, <1>12, <1>13, <1>14, <1>15, <1>16, <1>17, <1>18, <1>19, <1>20, <1>21, <1>22, <1>23, <1>24, <1>25, <1>26 DEF Next, Handle, DriveTurn,
     CancelStep, CloseStep

(* When a v1 client does not close the session, every step keeps the count of *)
(* replies.                                                                  *)
LEMMA RepliesStep == 1 \notin Closing /\ TurnsInv /\ RepliesCounted /\ [Next]_vars => RepliesCounted'
<1> SUFFICES ASSUME 1 \notin Closing, TurnsInv, RepliesCounted, [Next]_vars PROVE RepliesCounted'
  OBVIOUS
<1> USE AcpTurnsAssumption DEF Reqs, hostVars, sessionVars, taskVars, clientVars, cancelVars, askVars, TurnsInv, TypeOK, Tasks, Versions, Phases, Before, RepliesCounted, Answered
<1>1. ASSUME NEW r \in Reqs, HostStarts(r) PROVE RepliesCounted'
  BY <1>1 DEF HostStarts
<1>2. ASSUME NEW r \in Reqs, HostFinishes(r) PROVE RepliesCounted'
  BY <1>2 DEF HostFinishes
<1>3. ASSUME NEW r \in Reqs, Send(r) PROVE RepliesCounted'
  <2>1. r \in Steers => ver = 2
    BY <1>3, ClientAssumption DEF Send
  <2> QED
    BY <1>3, <2>1 DEF Send, At
<1>4. ASSUME NEW r \in Reqs, Refuse(r) PROVE RepliesCounted'
  <2>1. driver[r] = "none" /\ replies[r] = 0
    BY <1>4 DEF Refuse
  <2>2. replies' = [replies EXCEPT ![r] = 1] /\ handler' = [handler EXCEPT ![r] = "done"]
    BY <1>4, <2>1 DEF Refuse, Reply
  <2>3. UNCHANGED <<ver, driver, closer>> /\ handler[r] # "none"
    BY <1>4 DEF Refuse
  <2> QED
    BY <2>1, <2>2, <2>3
<1>5. ASSUME NEW r \in Reqs, Admit(r) PROVE RepliesCounted'
  BY <1>5 DEF Admit, At
<1>6. ASSUME NEW r \in Reqs, StartTurn(r) PROVE RepliesCounted'
  BY <1>6 DEF StartTurn, At, HostAdmits, Running
<1>7. ASSUME NEW r \in Reqs, Acked(r) PROVE RepliesCounted'
  BY <1>7 DEF Acked, At, Push
<1>8. ASSUME NEW r \in Reqs, Accept(r) PROVE RepliesCounted'
  BY <1>8 DEF Accept, At, Reply
<1>9. ASSUME NEW r \in Reqs, Decline(r) PROVE RepliesCounted'
  BY <1>9 DEF Decline, At, Reply
<1>10. ASSUME NEW r \in Reqs, SteerActive(r) PROVE RepliesCounted'
  BY <1>10 DEF SteerActive, At, Reply
<1>11. ASSUME NEW r \in Reqs, SteerOrStart(r) PROVE RepliesCounted'
  BY <1>11 DEF SteerOrStart, At, HostAdmits, Running
<1>12. ASSUME NEW r \in Reqs, SteerAcked(r) PROVE RepliesCounted'
  BY <1>12 DEF SteerAcked, At, Push
<1>13. ASSUME NEW r \in Reqs, SteerReply(r) PROVE RepliesCounted'
  BY <1>13 DEF SteerReply, At, Reply
<1>14. ASSUME NEW r \in Reqs, SteerRunning(r) PROVE RepliesCounted'
  BY <1>14 DEF SteerRunning, At, Show
<1>15. ASSUME NEW r \in Reqs, Announce(r) PROVE RepliesCounted'
  BY <1>15 DEF Announce, Drive, Show
<1>16. ASSUME NEW r \in Reqs, Settle(r) PROVE RepliesCounted'
  BY <1>16 DEF Settle, Clear, Drive, Cleared, ActiveAfter
<1>17. ASSUME NEW r \in Reqs, PagingFails(r) PROVE RepliesCounted'
  BY <1>17 DEF PagingFails, Clear, Drive, Cleared, ActiveAfter
<1>18. ASSUME NEW r \in Reqs, Conclude(r) PROVE RepliesCounted'
  BY <1>18 DEF Conclude, Drive, Show, RepliesOnSettle, Reply
<1>19. ASSUME NEW r \in Reqs, CancelOne(r) PROVE RepliesCounted'
  BY <1>19 DEF CancelOne, HostCancels, Poke, Without
<1>20. ASSUME NEW r \in Reqs, CloseOne(r) PROVE RepliesCounted'
  BY <1>20 DEF CloseOne, HostCancels, Poke, Without, Reply
<1>21. ASSUME HostDies PROVE RepliesCounted'
  BY <1>21 DEF HostDies
<1>22. ASSUME ObserverStep \/ \E a \in Asks : HostAsks(a) \/ HostResolves(a) \/ DialogStep(a)
       PROVE  RepliesCounted'
  <2>1. UNCHANGED <<ver, handler, driver, replies, closer>>
    BY <1>22, AsidesApart
  <2> QED
    BY <2>1
<1>23. ASSUME Cancel PROVE RepliesCounted'
  BY <1>23 DEF Cancel, Busy
<1>24. ASSUME Close PROVE RepliesCounted'
  BY <1>24 DEF Close, Busy
<1>25. ASSUME CloseDone PROVE RepliesCounted'
  BY <1>25 DEF CloseDone, Show
<1>26. CASE UNCHANGED vars
  BY <1>26 DEF vars
<1> QED
  BY <1>1, <1>2, <1>3, <1>4, <1>5, <1>6, <1>7, <1>8, <1>9, <1>10, <1>11, <1>12, <1>13, <1>14, <1>15, <1>16, <1>17, <1>18, <1>19, <1>20, <1>21, <1>22, <1>23, <1>24, <1>25, <1>26 DEF Next, Handle, DriveTurn,
     CancelStep, CloseStep

(* A request other than p takes no step while p is alone: it would no longer *)
(* be.                                                                       *)
LEMMA AloneStep ==
  ASSUME TurnsInv, NEW p \in Prompts, Alone(p), NEW r \in Reqs \ {p}
  PROVE  /\ handler[r] = "none" /\ driver[r] = "none"
         /\ open => r \notin inFlight
BY AcpTurnsAssumption DEF TurnsInv, Phases, Before, EntriesDriven, Settling, Alone, Reqs

(* Every step keeps the session of one prompt on its way to idle.            *)
LEMMA IdleStep == TurnsInv /\ EndsIdle /\ [Next]_vars => EndsIdle'
<1> DEFINE Goal(p) == /\ Retired(p) => shown \in {"none", "idle"} \/ late
                      /\ driver[p] = "settling" => last[p]
<1> SUFFICES ASSUME TurnsInv, EndsIdle, [Next]_vars PROVE EndsIdle'
  OBVIOUS
<1>v. (ver # 2 => shown = "none")'
  <2>1. ver' = ver /\ (shown' = shown \/ \E state : Show(state))
    BY DEF Next, Handle, DriveTurn, ObserverStep, DialogStep, CancelStep, CloseStep, HostStarts,
       HostFinishes, HostDies, Observe, ObserverShows, HostAsks, HostResolves, OpenDialog,
       RequireAction, Decide, CheckBusy, Resumed, Aside, Send, Refuse, Admit, StartTurn, Acked, Push, Accept, Decline, SteerActive,
       SteerOrStart, SteerAcked, SteerReply, SteerRunning, Announce, Settle, PagingFails, Clear,
       Conclude, Cancel, CancelOne, Close, CloseOne, CloseDone, vars, hostVars, sessionVars,
       taskVars, clientVars, cancelVars, askVars
  <2> QED
    BY <2>1 DEF EndsIdle, Show
<1> SUFFICES ASSUME NEW p \in Prompts, Alone(p)' PROVE Goal(p)'
  BY <1>v DEF EndsIdle
<1>h. p \in Reqs /\ \A r \in Steers : r # p /\ r \in Reqs
  BY AcpTurnsAssumption DEF Reqs
<1>t. TypeOK
  BY DEF TurnsInv
<1>a. ASSUME NEW r \in Reqs, NEW to, handler' = [handler EXCEPT ![r] = to], to # "none"
      PROVE r = p /\ Alone(p)
  BY <1>a, <1>t DEF TypeOK, Alone
<1>u. handler' = handler => Alone(p)
  BY DEF Alone
<1>k. ASSUME Alone(p), UNCHANGED <<driver, last, shown, late>>,
             handler[p] = "pushed" => handler'[p] = "pushed"
      PROVE  Goal(p)'
  BY <1>k DEF EndsIdle, Retired, Settling
<1> USE DEF hostVars, sessionVars, taskVars, clientVars, cancelVars, askVars
<1> HIDE DEF Goal
<1>1. ASSUME \/ \E r \in Reqs : HostStarts(r) \/ HostFinishes(r) \/ CancelOne(r) \/ CloseOne(r)
             \/ \E a \in Asks : HostAsks(a) \/ HostResolves(a) \/ OpenDialog(a)
                                \/ Decide(a) \/ CheckBusy(a)
             \/ HostDies \/ Observe \/ Cancel \/ Close \/ UNCHANGED vars
      PROVE Goal(p)'
  <2>1. UNCHANGED <<handler, driver, last, shown, late>>
    BY <1>1 DEF HostStarts, HostFinishes, CancelOne, CloseOne, HostDies, HostAsks, HostResolves,
                OpenDialog, Decide, CheckBusy, Observe, Cancel, Close, vars
  <2> QED
    BY <2>1, <1>u, <1>k
<1>2. ASSUME NEW r \in Reqs,
             \/ Send(r) \/ Refuse(r) \/ Admit(r) \/ StartTurn(r) \/ Acked(r)
             \/ Decline(r) \/ SteerActive(r) \/ SteerOrStart(r) \/ SteerReply(r)
      PROVE Goal(p)'
  <2>1. UNCHANGED <<driver, last, shown, late>>
    BY <1>2 DEF Send, Refuse, Admit, StartTurn, Acked, Decline, SteerActive, SteerOrStart, SteerReply
  <2>2. /\ \E to : handler' = [handler EXCEPT ![r] = to] /\ to # "none"
        /\ handler[r] # "pushed"
    BY <1>2 DEF Send, Refuse, Admit, StartTurn, Acked, Decline, SteerActive, SteerOrStart, SteerReply, At
  <2>3. r = p /\ Alone(p)
    BY <2>2, <1>a
  <2> QED
    BY <2>1, <2>2, <2>3, <1>k
<1>3. ASSUME NEW r \in Reqs, Accept(r) PROVE Goal(p)'
  <2>1. r = p /\ Alone(p)
    BY <1>3, <1>a DEF Accept, At
  <2>2. driver' = [driver EXCEPT ![r] = "spawned"]
    BY <1>3 DEF Accept
  <2> QED
    BY <2>1, <2>2, <1>h, <1>t DEF Goal, TypeOK, Retired, Settling
<1>4. ASSUME NEW r \in Reqs, SteerAcked(r) \/ SteerRunning(r) PROVE Goal(p)'
  <2>1. r = p
    BY <1>4, <1>a DEF SteerAcked, SteerRunning, At
  <2>2. handler[p] \notin {"injected", "replied"} /\ r \notin Steers
    BY <2>1, <1>h DEF TurnsInv, Phases
  <2>3. r \in Steers \/ handler[p] = "replied"
    BY <1>4, <2>1 DEF SteerAcked, SteerRunning, At
  <2> QED
    BY <2>2, <2>3, <2>1
<1>5. ASSUME NEW r \in Reqs, Announce(r) PROVE Goal(p)'
  <2>1. Alone(p) /\ driver[r] = "spawned" /\ driver' = [driver EXCEPT ![r] = "driving"]
    BY <1>5, <1>u DEF Announce, Drive
  <2>2. r = p
    BY <2>1, AloneStep
  <2> QED
    BY <2>1, <2>2, <1>h, <1>t DEF Goal, TypeOK, Retired, Settling
<1>6. ASSUME NEW r \in Reqs, Settle(r) \/ PagingFails(r) PROVE Goal(p)'
  <2>1. /\ Alone(p) /\ driver[r] = "driving" /\ driver' = [driver EXCEPT ![r] = "settling"]
        /\ last' = [last EXCEPT ![r] = ~open \/ Cleared(r) = {}]
    BY <1>6, <1>u DEF Settle, PagingFails, Clear, Drive
  <2>2. r = p
    BY <2>1, AloneStep
  <2>3. open => Cleared(p) = {}
    BY <2>1, <1>t, AloneStep DEF Cleared, TypeOK
  <2>4. driver'[p] = "settling" /\ last'[p]
    BY <2>1, <2>2, <2>3, <1>h, <1>t DEF TypeOK
  <2> QED
    BY <2>4 DEF Goal, Retired
<1>7. ASSUME NEW r \in Reqs, Conclude(r) PROVE Goal(p)'
  <2>1. /\ Alone(p) /\ driver[r] = "settling" /\ driver' = [driver EXCEPT ![r] = "done"]
        /\ shown' = IF ver = 2 THEN IF last[r] THEN "idle" ELSE "running" ELSE shown
    BY <1>7, <1>u DEF Conclude, Drive, Show
  <2>2. r = p
    BY <2>1, AloneStep
  <2>3. last[p]
    BY <2>1, <2>2 DEF EndsIdle
  <2>4. driver'[p] = "done"
    BY <2>1, <2>2, <1>h, <1>t DEF TypeOK
  <2>5. shown' \in {"none", "idle"}
    BY <2>1, <2>2, <2>3 DEF EndsIdle
  <2> QED
    BY <2>4, <2>5 DEF Goal
<1>8. ASSUME CloseDone PROVE Goal(p)'
  <2>1. UNCHANGED <<handler, driver, last, late>> /\ (shown' = shown \/ shown' = "idle")
    BY <1>8 DEF CloseDone, Show
  <2> QED
    BY <2>1, <1>u DEF Goal, EndsIdle, Retired, Settling
<1>9. ASSUME ObserverShows \/ \E a \in Asks : RequireAction(a) \/ Resumed(a) PROVE Goal(p)'
  <2>1. UNCHANGED <<handler, driver, last>> /\ late' = (late \/ inFlight = {})
    BY <1>9 DEF ObserverShows, RequireAction, Resumed, Aside
  <2>2. Alone(p)
    BY <2>1, <1>u
  <2>3. driver'[p] = "settling" => last'[p]
    BY <2>1, <2>2 DEF EndsIdle
  <2>4. CASE inFlight = {}
    BY <2>1, <2>3, <2>4 DEF Goal, Retired
  <2>5. CASE inFlight # {}
    <3>1. open /\ inFlight \subseteq Reqs
      BY <1>t, <2>5 DEF TurnsInv, EntriesDriven, TypeOK
    <3>2. p \in inFlight
      BY <2>2, <2>5, <3>1, AloneStep
    <3>3. Settling(p)
      BY <1>h, <3>1, <3>2 DEF TurnsInv, EntriesDriven
    <3>4. ~Retired(p)'
      BY <2>1, <3>3 DEF Settling, Retired
    <3> QED
      BY <2>3, <3>4 DEF Goal
  <2> QED
    BY <2>4, <2>5
<1> QED
  BY <1>1, <1>2, <1>3, <1>4, <1>5, <1>6, <1>7, <1>8, <1>9
  DEF Next, Handle, DriveTurn, ObserverStep, DialogStep, CancelStep, CloseStep

-----------------------------------------------------------------------------
(* The invariant that the theorems below rest on.                            *)
THEOREM TurnsInvariant == SafeSpec => []TurnsInv
<1>1. TurnsInv /\ [Next]_vars => TurnsInv'
  BY TypeStep, EntriesStep DEF TurnsInv
<1> QED
  BY InitTurns, <1>1, PTL DEF SafeSpec

(* Type correctness of a session's turns.                                    *)
THEOREM TypeCorrect == SafeSpec => []TypeOK
<1>1. TurnsInv => TypeOK
  BY DEF TurnsInv
<1> QED
  BY TurnsInvariant, <1>1, PTL

(* in_flight holds exactly the turns that a handler or a driver will settle: *)
(* none is leaked, and session/cancel and the "idle" decision see them all.  *)
THEOREM InFlightExact == SafeSpec => []EntriesDriven
<1>1. TurnsInv => EntriesDriven
  BY DEF TurnsInv
<1> QED
  BY TurnsInvariant, <1>1, PTL

(* Every request is answered exactly once, in v2 whatever the client does,   *)
(* in v1 as long as it does not close the session.                           *)
THEOREM RepliesOnce ==
  ASSUME 1 \notin Closing
  PROVE  SafeSpec => []AnsweredOnce
<1>1. TurnsInv /\ RepliesCounted /\ [Next]_vars => (TurnsInv /\ RepliesCounted)'
  BY TypeStep, EntriesStep, RepliesStep DEF TurnsInv
<1>2. TurnsInv /\ RepliesCounted => AnsweredOnce
  BY AcpTurnsAssumption DEF TurnsInv, TypeOK, Phases, Before, RepliesCounted, Answered,
     AnsweredOnce, Settled, Reqs, Versions
<1> QED
  BY InitTurns, <1>1, <1>2, PTL DEF SafeSpec

(* However its cancel, its close, its driver, its dialogs and its observer   *)
(* interleave, the client of a session that was sent one prompt sees idle in *)
(* the end, unless an update of a dialog or the observer came late.          *)
THEOREM OnePromptIdle == SafeSpec => []OnePromptEndsIdle
<1>1. Init => EndsIdle
  BY DEF Init, EndsIdle, Reqs
<1>2. TurnsInv /\ EndsIdle /\ [Next]_vars => EndsIdle'
  BY IdleStep
<1>3. TurnsInv /\ EndsIdle => OnePromptEndsIdle
  <2> SUFFICES ASSUME TurnsInv, EndsIdle, Quiet, shown # "none", ~late, NEW p \in Prompts, Alone(p)
               PROVE  shown = "idle"
    BY DEF OnePromptEndsIdle, SentOne, Alone
  <2>1. p \in Reqs /\ (handler[p] = "none" \/ Settled(p))
    BY DEF Quiet, Reqs
  <2>2. Retired(p)
    BY <2>1 DEF Settled, Settling, Retired, TurnsInv, Phases, Before
  <2> QED
    BY <2>2 DEF EndsIdle
<1> QED
  BY TurnsInvariant, <1>1, <1>2, <1>3, PTL DEF SafeSpec
=============================================================================

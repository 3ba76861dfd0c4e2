----------------------------- MODULE TurnDriver ------------------------------
(***************************************************************************)
(* One HTTP request's turn (src/src/dispatch.rs: run_turn, setup_turn,     *)
(* drive_turn and its helpers): the turn is started on the host, the       *)
(* driver feeds the host's events through the fold of TurnFold and         *)
(* forwards what the fold returns, paging the host's view when events were *)
(* lost, until one terminal is forwarded or the caller has gone.           *)
(*                                                                         *)
(* The host's view of the turn, and what it leaves undelivered, is         *)
(* external: it plays one of Scripts.  A connection's death and its        *)
(* commands' failures come from MspConnection.                             *)
(*                                                                         *)
(* Faults: "lag" and "drop" let the broadcast overrun and the handler's    *)
(* future be dropped between turn/start and the spawn of the driver;       *)
(* "setup" lets setup_turn fail though the host has started the turn;      *)
(* "page" and "decide" let a view/page or an approval/decide command fail  *)
(* on a live host.                                                         *)
(*                                                                         *)
(* SelectReturns, LagIgnored, Onward, SendNow and DecideSkips are mutants  *)
(* of the definitions that follow each.                                    *)
(***************************************************************************)
EXTENDS TurnFold

CONSTANTS
  Scripts,      \* turns the host may play: sequences of view events
  Ring,         \* broadcast capacity (EVENT_CHANNEL_DEPTH of host.rs)
  Depth,        \* mpsc capacity (EVENT_CHANNEL_DEPTH of dispatch.rs)
  PageLimit,    \* GAP_PAGE_LIMIT
  MaxPages,     \* MAX_GAP_PAGES
  MaxHoles,     \* bound: holes the host leaves in one turn's delivery
  Others,       \* other sessions share the broadcast
  Faults

Objects == ItemObjects \union {"item/delta"}
Endings == TurnEnds \union {"turn/retracted"}
Event   == [type : Objects \union Endings \union {"usage", "approval"},
            item : Items \union {"none"}, rev : Nat, text : Nat]

(* What the host may play: its turns end once, at their last event, and the  *)
(* revision of an item grows up to its item/completed.                       *)
Playable(s) ==
  /\ s \in Seq(Event) /\ s # <<>>
  /\ \A k \in 1..Len(s) :
       /\ s[k].type \in Endings <=> k = Len(s)
       /\ s[k].type \in Objects => s[k].item \in Items
       /\ s[k].type \in ItemObjects => s[k].rev > 0
       /\ s[k].type = "item/completed" =>
            \A j \in 1..Len(s) \ {k} :
              s[j].type \in ItemObjects /\ s[j].item = s[k].item => s[j].rev < s[k].rev

(* The deltas of an item tell its chunks one after the other, and an object  *)
(* of it has all that was told before it.                                    *)
Alike(s, j, k) == {s[j].type, s[k].type} \subseteq Objects /\ s[j].item = s[k].item
Accumulates(s) ==
  \A k \in 1..Len(s) :
    /\ \A j \in 1..(k - 1) : Alike(s, j, k) =>
         s[j].text < s[k].text \/ (s[k].type # "item/delta" /\ s[j].text = s[k].text)
    /\ s[k].type = "item/completed" =>
         \A j \in 1..Len(s) : Alike(s, j, k) => s[j].text <= s[k].text
    /\ s[k].type = "item/delta" =>
         /\ s[k].text > 0
         /\ s[k].text = 1 \/ \E j \in 1..(k - 1) :
              s[j].type = "item/delta" /\ Alike(s, j, k) /\ s[j].text = s[k].text - 1

(* The tokens the host has counted up to each event; no `cumulative` block   *)
(* states more.                                                              *)
Spent(s) == LET f[k \in 0..Len(s)] ==
                  IF k = 0 THEN 0
                  ELSE f[k-1] + (IF s[k].type = "usage" THEN s[k].text ELSE 0)
            IN  f
Metered(s) == \A k \in 1..Len(s) : s[k].type = "usage" => s[k].rev <= Spent(s)[k]

ASSUME TurnDriverAssumption ==
  /\ \A s \in Scripts : Playable(s) /\ Accumulates(s) /\ Metered(s)
  /\ {Ring, Depth, PageLimit, MaxPages} \subseteq Nat \ {0}
  /\ MaxHoles \in Nat /\ Others \in BOOLEAN
  /\ Faults \subseteq {"lag", "drop", "setup", "page", "decide"}

VARIABLES
  script, log,   \* the host: what it will play, what it has committed
  turn,          \* the host: the turn's life
  hole, holes,   \* the host: last cursor delivered before an open hole
  parked,        \* the host: waits for an approval decision
  dead,          \* HostState::Dead
  ring, lagged,  \* the driver's broadcast receiver
  pc, back,      \* where the driver is suspended; where it resumes
  fold,          \* TurnFold
  buffered,      \* TurnSetup::buffered
  pending,       \* an output being sent
  page, more,    \* rest of a view/page; its nextCursor is set
  anchor, pages, \* cursor and number of the pages asked for
  queue,         \* outputs in the mpsc channel
  gone,          \* TurnHandle dropped or cancelled
  asked,         \* turn/cancel was sent
  sent,          \* per item: all text forwarded
  ended,         \* terminals forwarded
  torn           \* items with a delta the driver never saw

hostVars   == <<script, log, turn, hole, holes, parked>>
wireVars   == <<ring, lagged, torn>>
pageVars   == <<page, more, anchor, pages>>
outVars    == <<queue, sent, ended>>
driverVars == <<pc, back, fold, buffered, pending, asked>>
vars == <<hostVars, wireVars, dead, driverVars, pageVars, outVars, gone>>

View(c)        == [kind |-> "view", at |-> c]
Gap(after)     == [kind |-> "gap", at |-> after]
Approval       == [kind |-> "approval", at |-> 0]
Other          == [kind |-> "other", at |-> 0]
NoHole == -1

(* What view/page replays: committed objects and turn facts, never deltas.   *)
Committed == {"item/completed", "usage"} \union Endings

Init ==
  /\ script \in Scripts
  /\ log = <<>> /\ turn = "none" /\ hole = NoHole /\ holes = 0 /\ parked = FALSE
  /\ dead = FALSE
  /\ ring = <<>> /\ lagged = FALSE /\ torn = {}
  /\ pc = "setup" /\ back = "loop" /\ fold = NewFold
  /\ buffered = <<>> /\ pending = Silence /\ asked = FALSE
  /\ page = {} /\ more = FALSE /\ anchor = 0 /\ pages = 0
  /\ queue = 0 /\ sent = [i \in Items |-> <<>>] /\ ended = <<>>
  /\ gone = FALSE

InSetup == pc \in {"setup", "started"}
Over    == pc \in {"error", "end"}

(***************************************************************************)
(* The host and the broadcast.                                             *)
(***************************************************************************)
DeltasOf(entries) ==
  { log'[entries[k].at].item : k \in { j \in DOMAIN entries :
      entries[j].kind = "view" /\ log'[entries[j].at].type = "item/delta" } }

(* broadcast::send: an overrun drops the oldest entries, and the receiver's  *)
(* next recv says so.                                                        *)
Push(entries) ==
  LET all    == ring \o entries
      excess == IF Len(all) > Ring THEN Len(all) - Ring ELSE 0
  IN  IF Over THEN UNCHANGED wireVars
      ELSE /\ excess > 0 /\ InSetup => "lag" \in Faults
           /\ ring'   = SubSeq(all, excess + 1, Len(all))
           /\ lagged' = (lagged \/ excess > 0)
           /\ torn'   = torn \union DeltasOf(SubSeq(all, 1, excess))

NextEvent == script[Len(log) + 1]
Playing   == ~dead /\ turn = "running" /\ ~parked

HostEvent ==
  /\ Playing /\ hole = NoHole
  /\ log' = Append(log, NextEvent)
  /\ turn' = IF NextEvent.type \in Endings
             THEN "over" ELSE turn
  /\ parked' = (NextEvent.type = "approval")
  /\ Push(<<IF NextEvent.type = "approval" THEN Approval ELSE View(Len(log) + 1)>>)
  /\ UNCHANGED <<script, hole, holes, dead, driverVars, pageVars, outVars, gone>>

(* The host throttles: it commits an event without delivering it, and later  *)
(* says with view/gap what it left out.                                      *)
HostSkips ==
  /\ Playing /\ (hole # NoHole \/ holes < MaxHoles)
  /\ NextEvent.type \notin Endings \union {"approval"}
  /\ log' = Append(log, NextEvent)
  /\ hole' = IF hole = NoHole THEN Len(log) ELSE hole
  /\ holes' = IF hole = NoHole THEN holes + 1 ELSE holes
  /\ torn' = IF NextEvent.type = "item/delta" THEN torn \union {NextEvent.item}
             ELSE torn
  /\ UNCHANGED <<script, turn, parked, ring, lagged, dead, driverVars, pageVars,
                 outVars, gone>>

HostGap ==
  /\ ~dead /\ hole # NoHole
  /\ hole' = NoHole
  /\ log' = log
  /\ Push(<<Gap(hole)>>)
  /\ UNCHANGED <<script, turn, holes, parked, dead, driverVars, pageVars, outVars, gone>>

(* An event of another session takes its place in the broadcast.             *)
OtherSession ==
  /\ Others /\ ~dead /\ ~Over
  /\ log' = log
  /\ Push(<<Other>>)
  /\ UNCHANGED <<script, turn, hole, holes, parked, dead, driverVars, pageVars,
                 outVars, gone>>

HostDies ==
  /\ ~dead
  /\ dead' = TRUE
  /\ UNCHANGED <<hostVars, wireVars, driverVars, pageVars, outVars, gone>>

(* turn/cancel as the host executes it.                                      *)
HostCancels ==
  IF dead \/ turn # "running" THEN UNCHANGED <<log, turn, parked, hole, wireVars>>
  ELSE /\ log' = Append(log, TurnEvent("cancelled", 0))
       /\ turn' = "over" /\ parked' = FALSE /\ hole' = NoHole
       /\ Push(IF hole = NoHole THEN <<View(Len(log) + 1)>>
               ELSE <<Gap(hole), View(Len(log) + 1)>>)

(***************************************************************************)
(* run_turn and setup_turn.                                                *)
(***************************************************************************)

(* session/start, setModel and turn/start: the host starts the turn, its ack *)
(* is still to come.                                                         *)
StartTurn ==
  /\ pc = "setup" /\ ~dead
  /\ turn' = "running" /\ pc' = "started"
  /\ UNCHANGED <<script, log, hole, holes, parked, wireVars, dead, back, fold,
                 buffered, pending, asked, pageVars, outVars, gone>>

(* run_turn returns Err: a setup command fails, or the host has started the  *)
(* turn and dies, answers turn/start too late or without a turnId, or runs   *)
(* it in another approval mode.  Nothing cancels the host's turn.            *)
SetupFails ==
  /\ pc = "setup" \/ (pc = "started" /\ (dead \/ "setup" \in Faults))
  /\ pc' = "error"
  /\ UNCHANGED <<hostVars, wireVars, dead, back, fold, buffered, pending, asked,
                 pageVars, outVars, gone>>

(* The ack: drain what is already in the channel and spawn the driver.  A    *)
(* lagged receiver ends the drain.                                           *)
Acked ==
  /\ pc = "started" /\ ~dead
  /\ buffered' = IF lagged THEN <<>> ELSE ring
  /\ ring' = IF lagged THEN ring ELSE <<>>
  /\ lagged' = FALSE
  /\ pc' = "loop"
  /\ UNCHANGED <<hostVars, torn, dead, back, fold, pending, asked, pageVars,
                 outVars, gone>>

(***************************************************************************)
(* drive_turn.                                                             *)
(***************************************************************************)

(* Hand an output to `send`; a feed that returned none goes on at once.      *)
Emit(output, resume) ==
  /\ pending' = output
  /\ back' = resume
  /\ pc' = IF output = Silence THEN resume ELSE "send"

FeedAt(c, resume) ==
  LET fed == Feed(fold, c, log[c])
  IN  fold' = fed.fold /\ Emit(fed.out, resume)

AskPages(after) ==
  /\ anchor' = after /\ pages' = 0 /\ page' = {} /\ more' = FALSE
  /\ pc' = "ask"

(* drive_event_parts on one buffered or received entry.                      *)
DriveEvent(entry) ==
  \/ /\ entry.kind = "view" /\ FeedAt(entry.at, "loop")
     /\ UNCHANGED pageVars
  \/ /\ entry.kind = "other" /\ Emit(Silence, "loop")
     /\ UNCHANGED <<fold, pageVars>>
  \/ /\ entry.kind = "gap" /\ AskPages(entry.at)
     /\ UNCHANGED <<fold, pending, back>>
  \/ /\ entry.kind = "approval" /\ pc' = "decide"
     /\ UNCHANGED <<fold, pending, back, pageVars>>

DriveBuffered ==
  /\ pc = "loop" /\ buffered # <<>>
  /\ buffered' = Tail(buffered)
  /\ DriveEvent(Head(buffered))
  /\ UNCHANGED <<hostVars, wireVars, dead, asked, outVars, gone>>

(* The top of the loop, then the select: its ready arms are tried in no      *)
(* particular order.                                                         *)
LoopTop ==
  /\ pc = "loop" /\ buffered = <<>>
  /\ pc' = IF gone THEN "cancel" ELSE "select"
  /\ back' = "end"
  /\ UNCHANGED <<hostVars, wireVars, dead, fold, buffered, pending, asked,
                 pageVars, outVars, gone>>

SelectReturns ==
  /\ pc = "select" /\ gone
  /\ pc' = "end"
  /\ UNCHANGED <<hostVars, wireVars, dead, back, fold, buffered, pending, asked,
                 pageVars, outVars, gone>>
SelectCancelled ==
  /\ pc = "select" /\ gone
  /\ pc' = "cancel" /\ back' = "end"
  /\ UNCHANGED <<hostVars, wireVars, dead, fold, buffered, pending, asked,
                 pageVars, outVars, gone>>

SelectDead ==
  /\ pc = "select" /\ dead
  /\ Emit(Terminal("failed"), "end")
  /\ UNCHANGED <<hostVars, wireVars, dead, fold, buffered, asked, pageVars,
                 outVars, gone>>

SelectEvent ==
  /\ pc = "select" /\ ~lagged /\ ring # <<>>
  /\ ring' = Tail(ring)
  /\ DriveEvent(Head(ring))
  /\ UNCHANGED <<hostVars, lagged, torn, dead, buffered, asked, outVars, gone>>

LagIgnored ==
  /\ pc = "select" /\ lagged
  /\ lagged' = FALSE /\ pc' = "loop"
  /\ UNCHANGED <<hostVars, ring, torn, dead, back, fold, buffered, pending, asked,
                 pageVars, outVars, gone>>
SelectLagged ==
  /\ pc = "select" /\ lagged
  /\ lagged' = FALSE
  /\ AskPages(fold.cursor)
  /\ UNCHANGED <<hostVars, ring, torn, dead, back, fold, buffered, pending, asked,
                 outVars, gone>>

(* A forwarded terminal stops the driver.                                    *)
Onward(output) == back
AfterSend(output) == IF output.kind = "terminal" THEN "end" ELSE back

(* `send` waits for room, unless the receiver is gone.                       *)
SendNow == TRUE
Room == gone \/ queue < Depth

Send ==
  /\ pc = "send" /\ Room
  /\ IF gone THEN UNCHANGED outVars
     ELSE /\ queue' = queue + 1
          /\ sent' = IF pending.kind = "text"
                     THEN [sent EXCEPT ![pending.item] = @ \o pending.text]
                     ELSE sent
          /\ ended' = IF pending.kind = "terminal"
                      THEN Append(ended, pending.item) ELSE ended
  /\ pending' = Silence
  /\ pc' = AfterSend(pending)
  /\ UNCHANGED <<hostVars, wireVars, dead, back, fold, buffered, asked, pageVars, gone>>

(***************************************************************************)
(* page_and_feed.                                                          *)
(***************************************************************************)
CommittedAfter(c) == { k \in 1..Len(log) : k > c /\ log[k].type \in Committed }
First(n, set)     == { k \in set : Cardinality({ j \in set : j <= k }) <= n }

(* view/page forward from `anchor`.                                          *)
PageArrives ==
  LET rest == CommittedAfter(anchor)
      got  == First(PageLimit, rest)
  IN  /\ pc = "ask" /\ ~dead /\ pages < MaxPages
      /\ pages' = pages + 1
      /\ page' = got
      /\ more' = (got # rest)
      /\ \/ rest = {} /\ anchor' = anchor /\ pc' = "loop"
         \/ \E k \in got : (\A j \in got : j <= k) /\ anchor' = k /\ pc' = "page"
      /\ UNCHANGED <<hostVars, wireVars, dead, back, fold, buffered, pending,
                     asked, outVars, gone>>

(* The command fails, or the page budget is spent.                           *)
PagingFails ==
  /\ pc = "ask" /\ (dead \/ pages = MaxPages \/ "page" \in Faults)
  /\ Emit(Terminal("failed"), "end")
  /\ UNCHANGED <<hostVars, wireVars, dead, fold, buffered, asked, pageVars,
                 outVars, gone>>

FeedPage ==
  /\ pc = "page"
  /\ \E k \in page : (\A j \in page : k <= j) /\ page' = page \ {k} /\ FeedAt(k, "page")
  /\ UNCHANGED <<hostVars, wireVars, dead, buffered, asked, more, anchor, pages,
                 outVars, gone>>

PageDone ==
  /\ pc = "page" /\ page = {}
  /\ pc' = IF more THEN "ask" ELSE "loop"
  /\ UNCHANGED <<hostVars, wireVars, dead, back, fold, buffered, pending, asked,
                 pageVars, outVars, gone>>

(***************************************************************************)
(* Commands the driver awaits inline.                                      *)
(***************************************************************************)

(* decide_approval: the first choice that does not approve, else turn/cancel.*)
(* A failed decision is only logged.                                         *)
DecideSkips ==
  /\ pc = "decide"
  /\ pc' = "loop"
  /\ UNCHANGED <<hostVars, wireVars, dead, back, fold, buffered, pending, asked,
                 pageVars, outVars, gone>>
Decide ==
  /\ pc = "decide"
  /\ \/ pc' = "loop" /\ parked' = FALSE /\ back' = back /\ ~dead
     \/ pc' = "loop" /\ parked' = parked /\ back' = back /\ (dead \/ "decide" \in Faults)
     \/ pc' = "cancel" /\ back' = "loop" /\ parked' = parked
  /\ UNCHANGED <<script, log, turn, hole, holes, wireVars, dead, fold, buffered,
                 pending, asked, pageVars, outVars, gone>>

(* cancel_turn, best effort.                                                 *)
CancelTurn ==
  /\ pc = "cancel"
  /\ asked' = TRUE /\ pc' = back
  /\ HostCancels
  /\ UNCHANGED <<script, holes, dead, back, fold, buffered, pending, pageVars,
                 outVars, gone>>

(***************************************************************************)
(* The HTTP handler.                                                       *)
(***************************************************************************)
ClientReads ==
  /\ ~gone /\ queue > 0
  /\ queue' = queue - 1
  /\ UNCHANGED <<hostVars, wireVars, dead, driverVars, pageVars, sent, ended, gone>>

(* The client disconnects while it holds the handle.                         *)
ClientLeaves ==
  /\ ~gone /\ pc \notin {"setup", "started", "error"}
  /\ gone' = TRUE
  /\ UNCHANGED <<hostVars, wireVars, dead, driverVars, pageVars, outVars>>

(* ... or while run_turn is still in its setup: the future is dropped.       *)
SetupDropped ==
  /\ "drop" \in Faults /\ InSetup
  /\ gone' = TRUE /\ pc' = "error"
  /\ UNCHANGED <<hostVars, wireVars, dead, back, fold, buffered, pending, asked,
                 pageVars, outVars>>

Host   == HostEvent \/ HostSkips \/ HostGap
Setup  == StartTurn \/ SetupFails \/ Acked
Driver == \/ DriveBuffered \/ LoopTop \/ SelectCancelled \/ SelectDead
          \/ SelectEvent \/ SelectLagged \/ Send \/ PageArrives \/ PagingFails
          \/ FeedPage \/ PageDone \/ Decide \/ CancelTurn

Next == \/ Host \/ OtherSession \/ HostDies \/ Setup \/ Driver
        \/ ClientReads \/ ClientLeaves \/ SetupDropped

SafeSpec == Init /\ [][Next]_vars

(* Tokio polls a ready task, and a client that stays connected reads.        *)
(* Nothing makes a client leave or a host die.                               *)
Fairness == WF_vars(Setup) /\ WF_vars(Driver) /\ WF_vars(ClientReads)

(* The host's turn may take for ever.                                        *)
Spec == SafeSpec /\ Fairness

(***************************************************************************)
(* Properties.                                                             *)
(***************************************************************************)
TypeOK ==
  /\ turn \in {"none", "running", "over"}
  /\ hole \in {NoHole} \union 0..Len(log) /\ holes \in 0..MaxHoles
  /\ {parked, dead, lagged, gone, asked, more} \subseteq BOOLEAN
  /\ Len(ring) <= Ring /\ queue \in 0..Depth
  /\ pc \in {"setup", "started", "error", "loop", "select", "send", "ask",
             "page", "decide", "cancel", "end"}
  /\ back \in {"loop", "page", "end"}
  /\ pages \in 0..MaxPages /\ anchor \in 0..Len(log)
  /\ fold.cursor \in 0..Len(log) /\ fold.done \subseteq Items
  /\ torn \subseteq Items

(* TurnHandle::events: once a terminal is forwarded nothing follows it, and  *)
(* a driver that stops without a terminal has lost its caller.               *)
EndsOnce ==
  /\ [][ended # <<>> => UNCHANGED <<sent, ended>>]_vars
  /\ [](pc = "end" /\ ended = <<>> => gone)

EndsWith(s, t) ==
  Len(t) <= Len(s) /\ SubSeq(s, Len(s) - Len(t) + 1, Len(s)) = t

CommittedTexts == { <<log[k].item, log[k].text>> :
                     k \in { j \in DOMAIN log : log[j].type = "item/completed" } }

(* page_and_feed: missing content never presents as complete.  When the      *)
(* driver forwards "completed", the whole text of every item the host        *)
(* committed was forwarded.                                                  *)
NothingMissing ==
  ended = <<"completed">> =>
    \A c \in CommittedTexts : EndsWith(sent[c[1]], Chunks(c[2]))

(* The fold's convergence: whatever was paged, replayed or delivered late,   *)
(* an item whose deltas all reached the driver has had no chunk forwarded    *)
(* twice or out of order.                                                    *)
NoChunkTwice ==
  \A i \in Items \ torn : sent[i] = Chunks(Len(sent[i]))

(* feed_usage, final_usage: however often a usage record is replayed, the    *)
(* turn is never charged more than the host counted.                         *)
UsageNeverInflated == FinalUsage(fold) <= Spent(log)[Len(log)]

NothingTwice == NoChunkTwice /\ UsageNeverInflated

(* A request of the host that is lost in an overrun is never decided, so     *)
(* what follows leaves out an overrun while the host waits.                  *)
Undisturbed == [](parked => ~lagged)

(* Every started request ends, if the host plays its turn to the end: the    *)
(* driver stops, with its terminal forwarded or its caller gone.             *)
TurnSettles ==
  WF_vars(Host) /\ Undisturbed => ((pc = "started") ~> (pc = "error" \/ ended # <<>> \/ gone))

(* A client that goes away has its turn cancelled, unless the turn ended,    *)
(* the host died or the terminal was forwarded first.                        *)
CallerGoneCancels ==
  (gone /\ turn = "running") ~> (asked \/ turn = "over" \/ dead \/ ended # <<>>)

(* An approval the host waits for is resolved, as long as the decision does  *)
(* not fail.                                                                 *)
ApprovalsResolved ==
  Undisturbed => (parked ~> (~parked \/ dead \/ gone \/ ended # <<>>))
=============================================================================

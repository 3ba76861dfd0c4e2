----------------------------- MODULE AcpServer ------------------------------
(***************************************************************************)
(* The ACP server over stdio (src/src/acp/server.rs): a read loop that     *)
(* gives every request a task of its own and handles notifications itself, *)
(* a bounded channel that every task sends its frames into, and one writer *)
(* that drains it to stdout until the read loop ends.                      *)
(*                                                                         *)
(* What a request does to sessions is AcpRegistry's and AcpTurns'; here it *)
(* waits for the store, replies, and for session/new, resume, load and     *)
(* fork advertises the session's commands after the reply.  A session's    *)
(* observer may send updates as soon as the session exists.  A v1 prompt   *)
(* is answered by its driver, once its turn settles, and by a              *)
(* session/close that finds it in flight.                                  *)
(*                                                                         *)
(* Faults: "hangup" lets the client close its end early, "stdout" lets a   *)
(* write fail, "oversize" lets a frame exceed the cap the writer refuses,  *)
(* and "stall" lets the client stop reading.                               *)
(*                                                                         *)
(* IgnoresFlag and Hasty are mutants of the definitions that follow each.  *)
(***************************************************************************)
EXTENDS Naturals, Sequences, FiniteSets

CONSTANTS
  Scripts,   \* what the client may write: SUBSET Seq(Line), not empty
  Depth,     \* OUTBOUND_DEPTH; Nat \ {0}
  Faults     \* SUBSET {"hangup", "stdout", "oversize", "stall"}

Requests == {"initialize", "open", "prompt", "close", "plain", "shutdown", "exit"}

(* "open" stands for the requests that create or attach a session, which the *)
(* prompts and closes up to the next open are about; "plain" for the other   *)
(* ones, unknown methods included; "cancel" is session/cancel                *)
(* as a notification, "chatter" any other notification or client reply, and  *)
(* "garbage" a line next_frame skips: too long, not JSON, not an object.     *)
Line == Requests \union {"cancel", "chatter", "garbage"}

VARIABLES
  script,   \* what the client writes
  read,     \* how many of its lines the loop has taken
  hungup,   \* the client's end is closed
  loop,     \* the read loop: "reading", "cancelling" or "returned"
  tasks,    \* the task of each request, by the number of its line
  version,  \* the negotiated version, 1 until initialize
  agreed,   \* the version each open and prompt goes by
  live,     \* the sessions in the table, by the lines that opened them
  inFlight, \* the v1 prompts in some session's list
  cut,      \* the prompts each close interrupts, and those it has left to answer
  flag,     \* the shutdown watch
  updates,  \* the sessions whose observer has sent its update
  queue,    \* the outbound channel
  writer,   \* the writer task: "writing", "failed" or "aborted"
  written   \* the frames on stdout

vars == <<script, read, hungup, loop, tasks, version, agreed, live, inFlight, cut, flag,
          updates, queue, writer, written>>
client == <<script, hungup>>
store  == <<agreed, live, inFlight, cut>>
output == <<queue, writer, written>>

Frame(i, kind) == [line |-> i, kind |-> kind]
Lines == UNION {DOMAIN s : s \in Scripts}

Init ==
  /\ script \in Scripts /\ read = 0 /\ hungup = FALSE
  /\ loop = "reading"
  /\ tasks = [i \in Lines |-> "none"]
  /\ version = 1 /\ agreed = [i \in Lines |-> 0]
  /\ live = {} /\ inFlight = {} /\ cut = [i \in Lines |-> [took |-> {}, left |-> {}]]
  /\ flag = FALSE /\ updates = {}
  /\ queue = <<>> /\ writer = "writing" /\ written = <<>>

----------------------------------------------------------------------------
(* The read loop: a line is skipped, handled at once, or given to a task.    *)
Spawns(line) == line \in Requests
Take ==
  /\ loop = "reading" /\ read < Len(script) /\ ~hungup
  /\ LET line == script[read + 1]
     IN /\ read' = read + 1
        /\ tasks' = IF Spawns(line) THEN [tasks EXCEPT ![read + 1] = "started"] ELSE tasks
        /\ loop' = IF line = "cancel" THEN "cancelling" ELSE loop
  /\ UNCHANGED <<client, version, store, flag, updates, output>>

(* session/cancel runs in the loop, which waits for the host meanwhile.      *)
Cancelled ==
  /\ loop = "cancelling" /\ loop' = "reading"
  /\ UNCHANGED <<client, read, tasks, version, store, flag, updates, output>>

(* The loop ends with the client's end of file or the shutdown flag, and     *)
(* serve aborts the writer at once.                                          *)
IgnoresFlag == hungup
Over == hungup \/ flag
Return ==
  /\ loop = "reading" /\ Over
  /\ loop' = "returned"
  /\ writer' = IF writer = "writing" THEN "aborted" ELSE writer
  /\ UNCHANGED <<client, read, tasks, version, store, flag, updates, queue, written>>

----------------------------------------------------------------------------
(* A send waits for room, and drops its frame when the writer is gone.       *)
MaySend == writer # "writing" \/ Len(queue) < Depth
Sent(f) == IF writer = "writing" THEN Append(queue, f) ELSE queue

(* The session a prompt or a close is about.                                 *)
SessionOf(i) == {j \in 1..(i - 1) :
                   script[j] = "open" /\ \A k \in (j + 1)..(i - 1) : script[k] # "open"}
Known(i) == SessionOf(i) \intersect live # {}

(* A handler's first step: initialize negotiates, an open reads the version, *)
(* a prompt its session's, and a close takes its session away.               *)
Moves(i, at) == tasks' = [tasks EXCEPT ![i] = at]
Negotiate(i) ==
  /\ script[i] = "initialize" /\ Moves(i, "replying")
  /\ version' = 2 /\ UNCHANGED store
Ask(i) ==
  /\ script[i] \in {"open", "plain"} /\ Moves(i, "serving")
  /\ agreed' = IF script[i] = "open" THEN [agreed EXCEPT ![i] = version] ELSE agreed
  /\ UNCHANGED <<version, live, inFlight, cut>>
Finish(i) ==
  /\ script[i] \in {"shutdown", "exit"}
  /\ Moves(i, IF script[i] = "exit" THEN "signalling" ELSE "replying")
  /\ UNCHANGED <<version, store>>
Unknown(i) ==
  /\ script[i] \in {"prompt", "close"} /\ ~Known(i) /\ Moves(i, "refusing")
  /\ UNCHANGED <<version, store>>
Prompt(i) ==
  /\ script[i] = "prompt" /\ Known(i) /\ Moves(i, "serving")
  /\ \E j \in SessionOf(i) : agreed' = [agreed EXCEPT ![i] = agreed[j]]
  /\ UNCHANGED <<version, live, inFlight, cut>>
Close(i) ==
  /\ script[i] = "close" /\ Known(i) /\ Moves(i, "serving")
  /\ LET cuts == {q \in inFlight : SessionOf(q) = SessionOf(i)}
     IN cut' = [cut EXCEPT ![i] = [took |-> cuts, left |-> cuts]]
  /\ live' = live \ SessionOf(i)
  /\ UNCHANGED <<version, agreed, inFlight>>
Begin(i) ==
  /\ tasks[i] = "started"
  /\ Negotiate(i) \/ Ask(i) \/ Finish(i) \/ Unknown(i) \/ Prompt(i) \/ Close(i)
  /\ UNCHANGED <<client, read, loop, flag, updates, output>>

(* The store comes back: an open has its session or an error, a close has    *)
(* answered the prompts it interrupted.                                      *)
Hasty(i)   == TRUE
Closing(i) == cut[i].left = {}
Served(i) ==
  /\ tasks[i] = "serving" /\ script[i] # "prompt" /\ Closing(i)
  /\ \/ /\ Moves(i, "replying")
        /\ live' = IF script[i] = "open" THEN live \union {i} ELSE live
     \/ script[i] = "open" /\ Moves(i, "refusing") /\ UNCHANGED live
  /\ UNCHANGED <<client, read, loop, version, agreed, inFlight, cut, flag, updates, output>>

(* prompt: a command or an error is answered at once; a turn the host has    *)
(* accepted is, in v2, acknowledged, and in v1 left to its driver, in the    *)
(* list of the session if that is still there.                               *)
Admit(i) ==
  /\ tasks[i] = "serving" /\ script[i] = "prompt"
  /\ \/ Moves(i, "replying") /\ UNCHANGED inFlight
     \/ /\ agreed[i] = 1 /\ Moves(i, "parked")
        /\ inFlight' = IF Known(i) THEN inFlight \union {i} ELSE inFlight
  /\ UNCHANGED <<client, read, loop, version, agreed, live, cut, flag, updates, output>>

(* drive_prompt: the turn settles and leaves the list, then comes the reply. *)
Settle(i) ==
  /\ tasks[i] = "parked" /\ Moves(i, "replying")
  /\ inFlight' = inFlight \ {i}
  /\ UNCHANGED <<client, read, loop, version, agreed, live, cut, flag, updates, output>>

(* close: a turn is cancelled on the host and its prompt answered.           *)
Interrupt(i) ==
  \E q \in cut[i].left :
    /\ MaySend /\ queue' = Sent(Frame(q, "result"))
    /\ cut' = [cut EXCEPT ![i].left = @ \ {q}]
    /\ UNCHANGED <<client, read, loop, tasks, version, agreed, live, inFlight, flag, updates,
                   writer, written>>

AfterReply(i) == CASE tasks[i] = "refusing"  -> "done"
                   [] script[i] = "open"     -> "advertising"
                   [] script[i] = "shutdown" -> "signalling"
                   [] OTHER                  -> "done"
Reply(i) ==
  /\ tasks[i] \in {"replying", "refusing"} /\ MaySend
  /\ queue' = Sent(Frame(i, "result"))
  /\ Moves(i, AfterReply(i))
  /\ UNCHANGED <<client, read, loop, version, store, flag, updates, writer, written>>

(* The commands go out after the reply, unless the session is closed again.  *)
Advertise(i) ==
  /\ tasks[i] = "advertising" /\ MaySend
  /\ queue' = IF i \in live THEN Sent(Frame(i, "commands")) ELSE queue
  /\ Moves(i, "done")
  /\ UNCHANGED <<client, read, loop, version, store, flag, updates, writer, written>>

Signal(i) ==
  /\ tasks[i] = "signalling"
  /\ flag' = TRUE
  /\ Moves(i, "done")
  /\ UNCHANGED <<client, read, loop, version, store, updates, output>>

----------------------------------------------------------------------------
(* The writer: one frame after the other; any failure ends it, a refused     *)
(* frame too, and drops what is queued.                                      *)
Write ==
  /\ writer = "writing" /\ queue # <<>>
  /\ queue' = Tail(queue)
  /\ written' = Append(written, Head(queue))
  /\ UNCHANGED <<client, read, loop, tasks, version, store, flag, updates, writer>>

WriteFails ==
  /\ writer = "writing" /\ queue # <<>> /\ Faults \intersect {"stdout", "oversize"} # {}
  /\ writer' = "failed" /\ queue' = <<>>
  /\ UNCHANGED <<client, read, loop, tasks, version, store, flag, updates, written>>

(* A session that exists may send an update, before its opener's reply too.  *)
Update(i) ==
  /\ loop # "returned" /\ i \notin updates
  /\ i \in live
  /\ MaySend
  /\ queue' = Sent(Frame(i, "update"))
  /\ updates' = updates \union {i}
  /\ UNCHANGED <<client, read, loop, tasks, version, store, flag, writer, written>>

(* The client closes stdin once it has written everything, or earlier.       *)
Hangup ==
  /\ ~hungup /\ (read = Len(script) \/ "hangup" \in Faults)
  /\ hungup' = TRUE
  /\ UNCHANGED <<script, read, loop, tasks, version, store, flag, updates, output>>

(* Tasks outlive the loop, unseen by the client, until the process exits.    *)
Handle(i) == /\ loop # "returned"
             /\ Begin(i) \/ Reply(i) \/ Advertise(i) \/ Signal(i)
Await(i)  == /\ loop # "returned"
             /\ Served(i) \/ Admit(i) \/ Settle(i) \/ Interrupt(i)
Loop == Take \/ Return

Next ==
  \/ Loop \/ Cancelled
  \/ \E i \in Lines : Handle(i) \/ Await(i) \/ Update(i)
  \/ Write \/ WriteFails
  \/ Hangup

(* Tasks and the loop run on, and the writer while the client reads.  What   *)
(* waits for the host (Await, Cancelled) may wait for ever: a command is     *)
(* written outside its timeout, a prompt lasts as long as its turn.          *)
Fairness ==
  /\ WF_vars(Loop) /\ \A i \in Lines : WF_vars(Handle(i))
  /\ "stall" \notin Faults => WF_vars(Write)

SafeSpec == Init /\ [][Next]_vars
Spec == SafeSpec /\ Fairness

----------------------------------------------------------------------------
(* On its way to the client and there, the commands of a session come after  *)
(* the reply that names it, and the reply to a close after one to each v1    *)
(* prompt it interrupted, however tasks and a full channel interleave; and   *)
(* no request has a second reply, but for such a prompt, which its driver    *)
(* answers too.                                                              *)
Stream == written \o queue
Cut == UNION {cut[i].took : i \in Lines}
RepliesFirst ==
  \A k \in DOMAIN Stream :
    /\ Stream[k].kind = "commands" => \E j \in 1..k : Stream[j] = Frame(Stream[k].line, "result")
    /\ Stream[k].kind = "result" =>
         /\ \A q \in cut[Stream[k].line].took : \E j \in 1..k : Stream[j] = Frame(q, "result")
         /\ Stream[k].line \notin Cut => \A j \in 1..(k - 1) : Stream[j] # Stream[k]

(* While stdout works and the client reads, every request the loop has taken *)
(* is answered, unless it waits for the host, or the server is over; and it  *)
(* is over once the client hangs up, asks for shutdown or exits, whatever    *)
(* other requests still wait for.  For a session/cancel the loop itself      *)
(* waits: what follows assumes that it comes back.                           *)
Waits(i) == tasks[i] \in {"serving", "parked"}
Replied(i) == script[i] = "exit" \/ \E k \in DOMAIN written : written[k] = Frame(i, "result")
Answered ==
  [](writer # "failed") =>
    []<>(loop = "returned" \/ \A i \in Lines : tasks[i] = "none" \/ Waits(i) \/ Replied(i))
Asked == hungup \/ \E i \in Lines : tasks[i] # "none" /\ script[i] \in {"shutdown", "exit"}
Stops == []<>(loop # "cancelling") => []<>(Asked => loop = "returned")
ServerLive == Answered /\ Stops
=============================================================================

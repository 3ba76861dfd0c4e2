---------------------------- MODULE MspConnection ----------------------------
(***************************************************************************)
(* One launched MSP connection (src/src/msp/host.rs, struct MspConnection): *)
(* the tasks that call `command_with_retry`, the writer lock around the     *)
(* host's stdin, the `pending` correlation map, and the reader task that    *)
(* routes stdout, acks server requests and fails the waiters at EOF.        *)
(*                                                                         *)
(* The host process is external.  Its two pipes are bounded sequences.      *)
(*                                                                         *)
(* HoldLock, KeepRegistered, RetryAnyError, RetryOneShort and RawKind are   *)
(* mutants: faulty variants of the definition that follows each, which show *)
(* that the properties tell the two apart.                                  *)
(***************************************************************************)
EXTENDS Integers, Sequences, FiniteSets

CONSTANTS
  Callers,      \* tasks, each issuing one logical command
  Oversized,    \* those whose frame may be over FRAME_LIMIT_BYTES
  Droppable,    \* those run inside an HTTP handler, dropped with its client
  MaxAttempts,  \* MAX_COMMAND_ATTEMPTS
  PipeCap,      \* frames a pipe holds before its writer blocks
  MaxAsks,      \* bound on the requests the host initiates
  Reader        \* the reader task, as a holder of the writer lock

ASSUME ConnectionAssumption ==
  /\ Oversized \subseteq Callers
  /\ Droppable \subseteq Callers
  /\ Reader \notin Callers
  /\ MaxAttempts \in Nat \ {0}
  /\ PipeCap \in Nat \ {0}
  /\ MaxAsks \in Nat

VARIABLES
  pc,        \* where each caller's `command` future is suspended
  id,        \* the JSON-RPC id of its current attempt (0: none yet)
  retries,   \* `retries` in command_with_retry
  outcome,   \* what command_with_retry returned
  large,     \* the callers whose frame is over FRAME_LIMIT_BYTES
  waiters,   \* every oneshot minted so far; its index is the JSON-RPC id
  pending,   \* ids in the `pending` map
  writer,    \* who holds the writer mutex
  stdin,     \* the ChildStdin behind it: "open", "taken" or "missed"
  torn,      \* the last write was abandoned halfway through its frame
  reader,    \* the reader task
  state,     \* HostState
  events,    \* server requests fanned out to subscribers, in order
  toHost, fromHost,  \* the pipes
  host, held, admitted, refused, asked  \* the host process (external)

callerVars == <<pc, id, retries, outcome, large>>
connVars   == <<waiters, pending, writer, stdin, torn, reader, state, events>>
hostVars   == <<host, held, admitted, refused, asked>>
vars       == <<callerVars, connVars, toHost, fromHost, hostVars>>

NoOne == "free"
Answers == {"result", "error", "backpressure", "declined", "protocolError"}
LocalErrors == {"hostDead", "timeout", "frameTooLarge"}
InFlight == {"locking", "writing", "waiting"}
Ids == 1..Len(waiters)

Init ==
  /\ pc = [c \in Callers |-> "idle"]
  /\ id = [c \in Callers |-> 0]
  /\ retries = [c \in Callers |-> 0]
  /\ outcome = [c \in Callers |-> "none"]
  /\ large \in SUBSET Oversized
  /\ waiters = <<>>
  /\ pending = {}
  /\ writer = NoOne
  /\ stdin = "open"
  /\ torn = FALSE
  /\ reader = "reading"
  /\ state = "Alive"
  /\ events = <<>>
  /\ toHost = <<>>
  /\ fromHost = <<>>
  /\ host = "up"
  /\ held = {}
  /\ admitted = {}
  /\ refused = {}
  /\ asked = 0

-----------------------------------------------------------------------------
(* The guard of the writer mutex is dropped, whichever way a write ends.     *)
HoldLock == UNCHANGED writer
Unlock == writer' = NoOne

(* A command that gives up takes its own entry out of the map.               *)
KeepRegistered(c) == UNCHANGED pending
Unregister(c) == pending' = pending \ {id[c]}

(* Callers: `command` inside `command_with_retry`.                          *)

(* Mint the next JSON-RPC id and insert a waiter under it.  Neither the      *)
(* connection's state nor a cleared map is consulted.                        *)
Send(c) ==
  /\ pc[c] \in {"idle", "backoff"}
  /\ pc' = [pc EXCEPT ![c] = "locking"]
  /\ id' = [id EXCEPT ![c] = Len(waiters) + 1]
  /\ waiters' = Append(waiters, [caller |-> c, slot |-> "open"])
  /\ pending' = pending \cup {Len(waiters) + 1}
  /\ UNCHANGED <<large, retries, outcome, writer, stdin, torn, reader, state, events,
                 toHost, fromHost, hostVars>>

Lock(c) ==
  /\ pc[c] = "locking"
  /\ writer = NoOne
  /\ writer' = c
  /\ pc' = [pc EXCEPT ![c] = "writing"]
  /\ UNCHANGED <<large, id, retries, outcome, waiters, pending, stdin, torn, reader, state,
                 events, toHost, fromHost, hostVars>>

(* A frame that follows a torn one shares its line, which the host skips.    *)
OnWire(frame) == IF torn THEN [frame EXCEPT !.kind = "garbage"] ELSE frame

Write(c) ==
  /\ pc[c] = "writing"
  /\ c \notin large
  /\ stdin # "taken" /\ host # "gone"
  /\ Len(toHost) < PipeCap
  /\ toHost' = Append(toHost, OnWire([kind |-> "command", id |-> id[c]]))
  /\ torn' = FALSE
  /\ Unlock
  /\ pc' = [pc EXCEPT ![c] = "waiting"]
  /\ UNCHANGED <<large, id, retries, outcome, waiters, pending, stdin, reader, state,
                 events, fromHost, hostVars>>

(* map_write_error: a missing or broken stdin is a dead host; an oversize    *)
(* frame is refused before a byte is written.                                *)
WriteError(c) ==
  IF stdin = "taken" THEN "hostDead"
  ELSE IF c \in large THEN "frameTooLarge"
  ELSE "hostDead"

WriteFails(c) ==
  /\ pc[c] = "writing"
  /\ stdin = "taken" \/ c \in large \/ host = "gone"
  /\ Unregister(c)
  /\ Unlock
  /\ outcome' = [outcome EXCEPT ![c] = WriteError(c)]
  /\ pc' = [pc EXCEPT ![c] = "done"]
  /\ UNCHANGED <<large, id, retries, waiters, stdin, torn, reader, state, events,
                 toHost, fromHost, hostVars>>

(* is_backpressure, and the attempt budget.                                  *)
RetryAnyError(c, answer) ==
  answer \in {"backpressure", "error"} /\ retries[c] + 1 < MaxAttempts
RetryOneShort(c, answer) == answer = "backpressure" /\ retries[c] + 2 < MaxAttempts
Retryable(c, answer) == answer = "backpressure" /\ retries[c] + 1 < MaxAttempts

Receive(c) ==
  LET answer == waiters[id[c]].slot IN
  /\ pc[c] = "waiting"
  /\ answer \in Answers
  /\ IF Retryable(c, answer)
     THEN /\ pc' = [pc EXCEPT ![c] = "backoff"]
          /\ retries' = [retries EXCEPT ![c] = @ + 1]
          /\ UNCHANGED outcome
     ELSE /\ pc' = [pc EXCEPT ![c] = "done"]
          /\ outcome' = [outcome EXCEPT ![c] = answer]
          /\ UNCHANGED retries
  /\ UNCHANGED <<large, id, connVars, toHost, fromHost, hostVars>>

Disconnected(c) ==
  /\ pc[c] = "waiting"
  /\ waiters[id[c]].slot = "dropped"
  /\ pc' = [pc EXCEPT ![c] = "done"]
  /\ outcome' = [outcome EXCEPT ![c] = "hostDead"]
  /\ UNCHANGED <<large, id, retries, connVars, toHost, fromHost, hostVars>>

(* The deadline covers only the wait for the answer, not the write.          *)
Timeout(c) ==
  /\ pc[c] = "waiting"
  /\ waiters[id[c]].slot = "open"
  /\ Unregister(c)
  /\ pc' = [pc EXCEPT ![c] = "done"]
  /\ outcome' = [outcome EXCEPT ![c] = "timeout"]
  /\ UNCHANGED <<large, id, retries, waiters, writer, stdin, torn, reader, state, events,
                 toHost, fromHost, hostVars>>

(* The HTTP client went away and its handler's future is dropped: the waiter *)
(* stays in the map, and a write in progress may leave half a frame behind.  *)
Abandon(c) ==
  /\ c \in Droppable
  /\ pc[c] \in InFlight \cup {"backoff"}
  /\ pc' = [pc EXCEPT ![c] = "dropped"]
  /\ IF pc[c] = "writing"
     THEN /\ Unlock
          /\ \/ UNCHANGED torn
             \/ c \notin large /\ stdin # "taken" /\ host # "gone" /\ torn' = TRUE
     ELSE UNCHANGED <<writer, torn>>
  /\ UNCHANGED <<large, id, retries, outcome, waiters, pending, stdin, reader, state,
                 events, toHost, fromHost, hostVars>>

(* Supervisor::shutdown takes the pipe to send EOF, with try_lock: a held    *)
(* lock yields None.                                                         *)
TakeStdin ==
  /\ stdin = "open"
  /\ stdin' = IF writer = NoOne THEN "taken" ELSE "missed"
  /\ UNCHANGED <<callerVars, waiters, pending, writer, torn, reader, state, events,
                 toHost, fromHost, hostVars>>

-----------------------------------------------------------------------------
(* The reader task.                                                          *)

RawKind(frame) == frame.kind
SlotFor(frame) == IF frame.kind = "invalid" THEN "protocolError" ELSE frame.kind

(* route_frame on a response or on a malformed frame with an id: the waiter  *)
(* leaves the map and is resolved; an unknown id is only logged.             *)
RouteAnswer ==
  /\ reader = "reading"
  /\ fromHost # <<>>
  /\ LET frame == Head(fromHost) IN
     /\ frame.kind # "ask"
     /\ fromHost' = Tail(fromHost)
     /\ IF frame.id \in pending
        THEN /\ pending' = pending \ {frame.id}
             /\ waiters' = [waiters EXCEPT ![frame.id].slot = SlotFor(frame)]
        ELSE UNCHANGED <<pending, waiters>>
  /\ UNCHANGED <<callerVars, writer, stdin, torn, reader, state, events, toHost, hostVars>>

(* route_frame on a server request: the reader itself takes the writer lock. *)
RouteAsk ==
  /\ reader = "reading"
  /\ fromHost # <<>>
  /\ Head(fromHost).kind = "ask"
  /\ writer = NoOne
  /\ writer' = Reader
  /\ reader' = "acking"
  /\ UNCHANGED <<callerVars, waiters, pending, stdin, torn, state, events,
                 toHost, fromHost, hostVars>>

(* `{}` for a known method, then the fan-out; methodNotFound for any other,  *)
(* and no fan-out.  A failed write is only logged.                           *)
Ack ==
  /\ reader = "acking"
  /\ LET ask == Head(fromHost)
         reply == IF ask.known THEN "receipt" ELSE "methodNotFound" IN
     /\ \/ /\ stdin # "taken" /\ host # "gone"
           /\ Len(toHost) < PipeCap
           /\ toHost' = Append(toHost, OnWire([kind |-> reply, id |-> ask.id]))
           /\ torn' = FALSE
        \/ /\ stdin = "taken" \/ host = "gone"
           /\ UNCHANGED <<toHost, torn>>
     /\ events' = IF ask.known THEN Append(events, ask.id) ELSE events
  /\ fromHost' = Tail(fromHost)
  /\ Unlock
  /\ reader' = "reading"
  /\ UNCHANGED <<callerVars, waiters, pending, stdin, state, hostVars>>

(* EOF or a read error: death is published first ...                         *)
Eof ==
  /\ reader = "reading"
  /\ fromHost = <<>>
  /\ host # "up"
  /\ state' = "Dead"
  /\ reader' = "closing"
  /\ UNCHANGED <<callerVars, waiters, pending, writer, stdin, torn, events,
                 toHost, fromHost, hostVars>>

(* ... and then every waiter in the map is dropped, once.                    *)
FailWaiters ==
  /\ reader = "closing"
  /\ waiters' = [i \in Ids |->
                   IF i \in pending THEN [waiters[i] EXCEPT !.slot = "dropped"]
                                    ELSE waiters[i]]
  /\ pending' = {}
  /\ reader' = "ended"
  /\ UNCHANGED <<callerVars, writer, stdin, torn, state, events,
                 toHost, fromHost, hostVars>>

-----------------------------------------------------------------------------
(* The host process (external).                                              *)

HostRead ==
  /\ host # "gone"
  /\ toHost # <<>>
  /\ toHost' = Tail(toHost)
  /\ held' = IF Head(toHost).kind = "command" THEN held \cup {Head(toHost).id}
                                              ELSE held
  /\ UNCHANGED <<callerVars, connVars, fromHost, host, admitted, refused, asked>>

(* Overload admits nothing, "declined" (retryable: false) included; any      *)
(* other answer may follow execution.                                        *)
HostAnswer ==
  /\ host = "up"
  /\ Len(fromHost) < PipeCap
  /\ \E i \in held, kind \in {"result", "error", "backpressure", "declined", "invalid"} :
       /\ fromHost' = Append(fromHost, [kind |-> kind, id |-> i])
       /\ held' = held \ {i}
       /\ IF kind \in {"backpressure", "declined"}
          THEN /\ refused' = refused \cup {i} /\ UNCHANGED admitted
          ELSE /\ admitted' = admitted \cup {i} /\ UNCHANGED refused
  /\ UNCHANGED <<callerVars, connVars, toHost, host, asked>>

HostAsk ==
  /\ host = "up"
  /\ asked < MaxAsks
  /\ Len(fromHost) < PipeCap
  /\ asked' = asked + 1
  /\ \E known \in BOOLEAN :
       fromHost' = Append(fromHost, [kind |-> "ask", id |-> asked + 1, known |-> known])
  /\ UNCHANGED <<callerVars, connVars, toHost, host, held, admitted, refused>>

(* stdout closes; the process lingers with stdin open, or is gone.           *)
HostExit ==
  /\ \/ host = "up" /\ host' \in {"lingering", "gone"}
     \/ host = "lingering" /\ host' = "gone"
  /\ UNCHANGED <<callerVars, connVars, toHost, fromHost, held, admitted, refused, asked>>

(* The supervisor kills a process that outlives its stdout.                  *)
MonitorKills == state = "Dead" /\ host = "lingering" /\ HostExit

-----------------------------------------------------------------------------
CallerStep(c) ==
  \/ Send(c) \/ Lock(c) \/ Write(c) \/ WriteFails(c)
  \/ Receive(c) \/ Disconnected(c) \/ Timeout(c) \/ Abandon(c)

ReaderStep == RouteAnswer \/ RouteAsk \/ Ack \/ Eof \/ FailWaiters

HostStep == HostRead \/ HostAnswer \/ HostAsk \/ HostExit

Next == (\E c \in Callers : CallerStep(c)) \/ TakeStdin \/ ReaderStep \/ HostStep

SafeSpec == Init /\ [][Next]_vars

(* Tokio runs every ready task and fires every timer; the writer mutex is    *)
(* FIFO, so a task that waits for it gets it; the supervisor kills a host    *)
(* that outlives its stdout.  A task need never start.                       *)
BridgeFairness ==
  /\ \A c \in Callers :
       /\ WF_vars(pc[c] = "backoff" /\ Send(c))
       /\ SF_vars(Lock(c))
       /\ WF_vars(Write(c) \/ WriteFails(c))
       /\ WF_vars(Receive(c) \/ Disconnected(c) \/ Timeout(c))
  /\ WF_vars(RouteAnswer \/ Ack \/ Eof \/ FailWaiters)
  /\ SF_vars(RouteAsk)
  /\ WF_vars(MonitorKills)

(* The host may stop reading its stdin ...                                   *)
Spec == SafeSpec /\ BridgeFairness
(* ... or never does.                                                        *)
DrainedSpec == Spec /\ WF_vars(HostRead)

-----------------------------------------------------------------------------
(* Properties.                                                               *)

Frame == [kind : {"command", "receipt", "methodNotFound", "garbage"}, id : Nat]
HostFrame ==
  [kind : {"result", "error", "backpressure", "declined", "invalid"}, id : Nat]
    \cup [kind : {"ask"}, id : Nat, known : BOOLEAN]

Waiter == [caller : Callers, slot : {"open", "dropped"} \cup Answers]

TypeOK ==
  /\ pc \in [Callers -> {"idle", "backoff", "done", "dropped"} \cup InFlight]
  /\ id \in [Callers -> Nat]
  /\ retries \in [Callers -> Nat]
  /\ outcome \in [Callers -> {"none"} \cup Answers \cup LocalErrors]
  /\ large \subseteq Oversized
  /\ waiters \in Seq(Waiter)
  /\ pending \subseteq Ids
  /\ writer \in Callers \cup {Reader, NoOne}
  /\ stdin \in {"open", "taken", "missed"}
  /\ torn \in BOOLEAN
  /\ reader \in {"reading", "acking", "closing", "ended"}
  /\ state \in {"Alive", "Dead"}
  /\ events \in Seq(Nat)
  /\ toHost \in Seq(Frame)
  /\ fromHost \in Seq(HostFrame)
  /\ host \in {"up", "lingering", "gone"}
  /\ held \subseteq Nat /\ admitted \subseteq Nat /\ refused \subseteq Nat
  /\ asked \in Nat

(* No waiter leaks: every entry of `pending` is the current attempt of its   *)
(* caller, which still awaits it or was dropped while it did.  Timeouts,     *)
(* failed writes and retries all have to take their own entry out (host.rs   *)
(* command).                                                                 *)
NoWaiterLeak ==
  \A i \in pending :
    LET c == waiters[i].caller IN id[c] = i /\ pc[c] \in InFlight \cup {"dropped"}

(* A command is executed at most once, whatever is refused, timed out,       *)
(* answered late or retried: only a refusal that admitted nothing is         *)
(* resent (host.rs command_with_retry, SPEC 4.2 "Retryable-nothing-admitted").*)
AdmittedAtMostOnce ==
  \A i, j \in admitted \cap Ids : waiters[i].caller = waiters[j].caller => i = j

(* What a caller is told agrees with what the host did to its command:       *)
(* "result"/"error" only if an attempt of this caller was admitted,          *)
(* "backpressure" only if every attempt was refused and none is left,        *)
(* however the answers of other commands and late answers interleave.        *)
MyIds(c) == {i \in Ids : waiters[i].caller = c}
OutcomeTruthful ==
  \A c \in Callers :
    /\ outcome[c] \in {"result", "error", "protocolError"} =>
         MyIds(c) \cap admitted # {}
    /\ outcome[c] \in {"backpressure", "declined"} => MyIds(c) \subseteq refused
    /\ outcome[c] = "backpressure" => Cardinality(MyIds(c)) = MaxAttempts
    /\ outcome[c] = "frameTooLarge" => MyIds(c) \cap (admitted \cup refused) = {}

(* Once the connection is published Dead no oneshot is resolved with a host  *)
(* answer any more (HostState::Dead: "no command on this connection will     *)
(* complete").                                                               *)
DeadIsFinal ==
  [][ state = "Dead" =>
        /\ state' = "Dead"
        /\ \A i \in Ids : waiters'[i].slot # waiters[i].slot => waiters'[i].slot = "dropped"
    ]_vars

(* Every command that was sent returns, provided the host keeps reading its  *)
(* stdin: no interleaving of lock, pipes, acks and death strands a caller.   *)
CommandReturns ==
  \A c \in Callers : pc[c] \in InFlight ~> pc[c] \in {"done", "dropped"}

(* A blocked pipe or a held lock never keeps the reader from draining a dead *)
(* host: once the process is gone, the connection is declared dead.          *)
DeathNoticed == host = "gone" ~> state = "Dead"

(* SPEC 4: the reader drains "stdout continuously".  It does not while the   *)
(* receipt it owes to a server request is stuck behind a full stdin.         *)
StdoutDrained == Len(fromHost) > 0 ~> fromHost = <<>>

ReaderProgresses == DeathNoticed /\ StdoutDrained
=============================================================================

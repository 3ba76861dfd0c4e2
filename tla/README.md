# muse-client-bridge in TLA+

The bridge sits between clients (an OpenAI-style HTTP API, and editors that speak
ACP over stdio) and one `muse serve` host process that speaks MSP, a JSON-RPC
protocol, over its stdin and stdout. Everything below `src/` is the repository;
`SPEC.md`, `HANDOFF.md` and `tests/` are quoted where they state what the code is
meant to do.

## Inventory

| Component | Source | State | Operations |
|---|---|---|---|
| MSP connection | `msp/host.rs`, `msp/proto.rs` | the stdin mutex, the map of waiters by JSON-RPC id, `HostState`, the broadcast of events, the id counter | `command`, `command_with_retry`, `notify`, `take_stdin`, the reader task |
| Supervisor | `msp/host.rs`, `msp/spawn.rs` | `SupervisorInner` under an RwLock: connection, child, status, restarts used | `launch`, the monitor task, `ready`, `shutdown` |
| Turn fold | `msp/fold.rs` | items with revision and streamed text, finished items, counted usage, cursor, settled | `feed` |
| Turn dispatch | `dispatch.rs` | per request: event receiver, pre-turn buffer, cancel flag, output channel | `run_turn`, `setup_turn`, `drive_turn`, paging, approvals, `TurnHandle` |
| ACP session turns | `acp/sessions.rs` | per session: `in_flight`, `active_turn`; per turn: a cancel flag | `prompt`, `steering`, `cancel`, `close`, `drive_prompt`, the observer |
| ACP dialogs | `acp/sessions.rs`, `acp/server.rs` | `pending_perm`, `perm_queue`, `pending_ui`; waiters of requests sent to the client | `open_approval`, `complete_permission`, `pop_queued_approval`, `route_user_input`, `complete_elicitation`, `reconcile_pending` |
| ACP registry | `acp/sessions.rs` | the map of sessions, one observer per session | `create_session`, `resume_or_load`, `fork`, `list`, `observe_session` |
| ACP settings, commands, children | `acp/sessions.rs` | mode, model, effort, facts, child records | `set_mode`, `set_model`, `set_config_option`, slash commands, `fold_child_item` |
| ACP server | `acp/server.rs` | negotiated version, outbound queue, shutdown flag | `serve`, `read_loop`, `dispatch_frame`, `drain_writer` |
| HTTP rendering | `http/sse.rs`, `http/responses.rs`, `http/chat.rs` | frame queue, open reasoning and message parts | `sse_stream`, `poll`, `terminal` |
| Pure algorithms | `msp/proto.rs`, `msp/spawn.rs` | last timestamp and sequence; the bounded stderr tail; the commandId registry | `mint`, `push`, `remember_command_id`, `next_frame` |
| Translation, compatibility, error tables | `translate.rs`, `acp/compat.rs`, `http/error.rs` | none | pure conversions |
| Service installer | `service.rs` | the definition file, the service manager, a tailscale forward | `serve`, `--off`, `--status`, `--dry-run` |
| ACP client installer | `acp/compat.rs` | the editor's settings file and its backup | `install`, `uninstall` |
| CLI, support | `main.rs`, `cli.rs`, `support.rs` | none | argument parsing, diagnostics text |

How they interact. An HTTP handler or an ACP handler asks the supervisor for a
live connection (`ready`), subscribes to its broadcast and sends commands on it.
The reader task of the connection resolves waiters and broadcasts notifications
and server requests. A driver task per turn reads the broadcast, folds, and hands
outputs to its client over a bounded channel (HTTP) or the ACP outbound queue. The
monitor task watches the connection and replaces it. Tasks run on several threads
and meet only in the mutexes, the watch and broadcast channels and the host.

What makes it hard: the broadcast drops its oldest entries when a receiver is
slow; the host may omit events and announce a gap, which is refilled by paging;
the order in which ready arms of a `select!` run is random; futures are dropped
wherever they are suspended when an HTTP client leaves; the host may stop reading,
close its stdout and linger, or die at any point; commands are retried and may
time out while the host executes them; locks are released across awaits. The two
installers run children and write files, and may fail or be killed between any two
steps, while the service dies, the user logs in, or the editor saves the same file.

What makes each component correct:

* connection: every command returns, with the answer to its own last attempt; no
  command is executed twice; no waiter leaks; death is final and noticed;
* supervisor: one live host, bounded launches, a refusal that is final, no restart
  after an unrecoverable exit, every death handled, `ready` and `shutdown` return;
* turn: one terminal and nothing after it, no text missing from a turn reported as
  completed, nothing forwarded twice, usage counted once, a caller that leaves
  gets its turn cancelled, every approval is decided;
* ACP session: every request answered once, `in_flight` exact, cancel and close
  stop work, idle reported exactly when no work is left;
* ACP dialogs: one permission dialog at a time, each approval decided as its own
  dialog was answered, each prompt presented once, everything the host asks for
  settled, no waiter left behind;
* ACP registry: an open session is observed and shown what the host asks, and its mode
  label stands for the mode the host applies;
* ACP server: one reply per request, before what depends on it; it stops when it is
  asked to, whatever still waits for the host;
* HTTP rendering: a response restates its turn, well bracketed, with one truthful
  end, and ends, or its turn is cancelled;
* installers: what `serve` reports is so; a settings file loses nothing but the
  installer's own entry.

## Modules

| Module | Models | State and actions in the code |
|---|---|---|
| `MspConnection` | the connection | `pc`, `id`, `retries`: the suspended `command` of each caller; `waiters`, `pending`: the oneshot channels and the map; `writer`, `stdin`, `torn`: the stdin mutex, the pipe and a half-written frame; `toHost`, `fromHost`: the pipes. One action per await of `command` and `route_frame`. |
| `Supervisor` | the supervisor | `proc`, `conn`: every host generation and its connection; `monitor`: the await the monitor is suspended at; `status`, `current`, `restarts`: `SupervisorInner`; `stop`, `call`: `shutdown` and `ready`. |
| `HostService` | what callers of `ready` rely on | an abstract specification that `Supervisor` implements. |
| `TurnFold` | `TurnFold::feed` | a pure operator over a fold record; text is a sequence of chunks. |
| `TurnDriver` | one dispatched turn | extends `TurnFold`; `script`, `log`: the events the host will commit and has committed; `ring`, `lagged`: the broadcast receiver; `pc`, `back`: the await of `setup_turn`, `drive_turn` or `page_and_feed`; `queue`, `sent`, `ended`: the output channel and what went through it. |
| `AcpTurns` | the turns of one ACP session | `handler`, `driver`, `dialog`, `observing`: where each request's handler and driver, each ask's tasks and the observer are suspended; `inFlight`, `active`, `poked`: the session; `replies`, `shown`: what the client got. |
| `AcpDialogs` | approvals and user input of one ACP session | `task`: where each observer, pull, driver's task and completer is suspended; `perm`, `queue`, `ui`, `seen`: the session; `about`, `waiter`: the requests sent to the client and `ClientRequests::pending`. One action per critical section. |
| `AcpRegistry` | the table of sessions, their observers and mode labels | `req`: the await each request's handler is suspended at, and what it was told; `table`: `Inner::sessions`; `obs`: every observer and its broadcast receiver; `up`, `gen`: the supervisor as `ready_conn` sees it; `mode`, `asked`: the host. |
| `AcpServer` | stdio server | `read`, `loop`: `read_loop`; `tasks`: the task of each line, and of a v1 prompt's driver; `live`, `inFlight`: what prompts and closes read of the sessions; `cut`: the prompts a `close` holds; `queue`, `writer`, `written`: the outbound channel and `drain_writer`; `flag`: the shutdown watch. |
| `HttpStream` | one HTTP response | `queue`, `done`: `Pump`; `state`: `ChatRender` or `ResponsesRender`; `sent`, `taken`: the channel of the `TurnHandle`; `out`: what the client has. |
| `ServiceInstall` | `serve`, `--off`, `--status`, `--dry-run` | `at`: the child process the command is at; `mach`: the definition file, what the manager holds and runs, autostart and forward; `said`: what the command reported. |
| `SettingsEdit` | `install`, `uninstall` | `file`, `backup`: the texts, as sequences of entries with their commas; `cmd`: each command's step and the text it read. |
| `MC*` | | values for the constants; `MCEndpoints` runs an HTTP response or the ACP server, `MCInstall` one of the two installers, one per behaviour; they take `AcpServer` and `SettingsEdit` as instances with names of their own for the state. |
| `*Proofs` | | theorems and their proofs; `EndpointProofs` is about `HttpStream` and `AcpServer`, `InstallProofs` about `ServiceInstall` and `SettingsEdit`. |

A definition named before another, and described as a mutant in the module's
header, is a plausible fault of the definition that follows it; PROJECT.json lists
which property catches it.

Abstractions that hold everywhere: JSON is reduced to the fields that control the
code; logs and wording are left out; a host is external and may do whatever MSP
allows; wall-clock time is left out, so a timeout may fire whenever its timer runs.

### MspConnection

Callers are two: `c1` runs in an HTTP handler and may be dropped (`Droppable`), `c2`
may send a frame that is too large or one that fits (`Oversized`, `large`). Pipes hold
one frame (`PipeCap`), so that they fill; the host asks one request of its own
(`MaxAsks`), enough for the reader to be caught in an acknowledgement.

The safety run, `MspConnection`, lets both callers write and retry, so that the
answers to four requests interleave with each other, a drop, a death and a shutdown.
It gives each two attempts (`MAX_COMMAND_ATTEMPTS = 3` in the code): a first and a last
one, the two kinds the code tells apart. The theorems hold of every number.

`MspConnectionLive` gives each caller one attempt, since a retry begins as a command
does, and no frame is too large. It assumes that the tasks are polled and that the
host goes on reading its stdin (`DrainedSpec`). The second is not something the code
can count on: under `Spec`, without it, `CommandReturns` and `ReaderProgresses` fail
(see Disagreements). `ReaderProgresses` joins `DeathNoticed` and `StdoutDrained`.

### Supervisor

`MaxRestarts = 2` in the run (`MAX_RESTARTS = 3` in the code): a first and a last
restart, and one generation more than allowed so that an overrun would show. `Crash`
stands for the restartable exits, `Config` for the others. The RwLock is modelled
fair, as tokio's is. An aborted monitor finishes the poll it is in: steps that
follow an await without suspending stay enabled after the abort. The run also
checks the refinement of `HostService`, whose budget bounds the launches. For
liveness (`Responsive`: a death is handled, `ready` returns, a shutdown completes) it
assumes that tasks are polled, timers fire and a killed process is reaped, and
nothing of hosts or clients.

### TurnFold and TurnDriver

A turn is a script of at most seven events of one or two items: started, deltas, an
update, an object with or without deltas before it, usage with and without a
`cumulative` block, an approval, and each kind of end. The host commits the events one
by one, delivers them or leaves them out (one hole, announced by `view/gap`), and the
broadcast holds two entries, so that it overruns. A page holds one event, so that paging
takes several rounds and live events arrive in between. A page is a set of positions of
the log, fed in their order. The output channel holds one output. `feed` drops
everything once the fold is settled, before it looks at what the event is.

`Faults` switches on what a run is about: `lag` lets the broadcast overrun during the
setup, `drop` drops the request in its setup, `setup` fails the setup although the host
has started the turn, `page` fails a page, `decide` fails a decision. The passing safety
run has all but `lag`, whose consequence `TurnDriverSetupLag` shows. `NothingTwice`
excludes the items of which a delta was lost (see Disagreements).

Liveness: tokio polls a ready task and a client that stays connected reads
(`Fairness`); nothing makes a client leave, and the host may stop in the middle of a
turn. `TurnDriverLive` has other sessions that crowd the broadcast, so the driver
lags again and again. `CallerGoneCancels` needs nothing of the host; `TurnSettles`
assumes that it plays its turn to the end (`WF_vars(Host)`, a premise of the
property); it and `ApprovalsResolved` leave out an overrun while an approval is
parked (`Undisturbed`), because a request lost in one is never decided (see
Disagreements).

### AcpTurns

A client sends two prompts, or a prompt and, in v2, a steering request (`Sends`),
with one `session/cancel`, and in v2 one `session/close`. Two requests are enough
for one turn to run and one to be queued, and for one to settle while the other is
admitted. A live host may refuse a start, its acknowledgement may miss the
deadline, and a driver may give up on paging (`Faults`).

`EntriesDriven` is exact: an entry of `in_flight` exists if and only if some task will
remove it. `Closing = {2}` leaves v1's `session/close` out, because there close and the
driver both reply (see Disagreements). `CancelSettles` asks nothing of the host,
`RequestSettles` that it plays its turns (`HostPlays`, a premise of the property).

`OnePromptEndsIdle` is about the state a v2 client is told: of one prompt, during whose
turn the host may ask. The ask's dialog sends `requires_action` and `running`, and the
observer sends `running` when the ask is resolved. All of them, and the driver and close,
send after the lock is released. Once all is quiet, the last state is `idle`, unless the
observer or a dialog's task sent its update when no turn was in flight (`late`); it may,
and the client is left with `running`. With more than one prompt the drivers alone do
that (see Disagreements), so the property leaves such sessions out, and the run saves
states by asking in none of them (`Lone`); the theorem holds for either value of `Lone`.

### AcpDialogs

An ask reaches the session through the observer, which handles one ask after the
other, through a task that a driver spawns for it, and through `session/resume`,
which pulls what is pending. Every one of them may present it, so a request to
the client is an entry of `about` of its own, completed by a task of its own.

The run plays one of two scenes (`Scenes`). In one there are two approvals, one of
them delegated to a driver's task: enough for one to queue behind the other, and for
the same one to be presented twice. They offer an approving choice and another,
approving ones only, or none. Four requests (`MaxDialogs`) are more than either scene
can send, so the bound never blocks. In the other an approval, which may come without an
id, and a prompt are both seen live and pulled. Commands may fail (`"host"`), and
the session may be closed at any point. A verdict that did not reach the host leaves
its ask `missed`: nobody sends it again, in the code either.

Neither has `"overlap"`: a second task that checks `pending_perm` before the first
one assigns it. That is a fault of the code which `AcpDialogsOverlap` shows, and with
it `OneDialogAtATime` and `DecidedAsAnswered` are false. `AsksSettle` leaves out
approvals that offer no choices (`Decidable`).

Liveness: as long as a task is ready or a dialog is shown, something goes on: tokio
polls ready tasks, and the client answers. That is weaker than fairness to every
task, and enough, because every task ends. Dialogs have no deadline, so a client
that never answers parks its session.

### AcpRegistry

Every request is a task that looks at the table, asks the host and takes the lock
again. A behaviour has three requests from a list of plans (`Plans`), one for each
meeting that matters: a session closed and resumed again, resumed under its own id
and a former adapter's, its mode set by two requests and a rival client of the host,
forked from a yolo session. A mode is named by a label or by the host's own word
(`Resolve`), of which `onRequest` has no label of its own and is shown as ask. An observer's
receiver holds three events (`Ring`), more than these plans can fill it with; the host may
die, be replaced once (`MaxGen`) or be given up, and may refuse any command.

* `ModeTruthful`: when all is quiet, and the host never died, the label of an open
  session stands for the mode the host applies. It is about the order in which
  the echo of a command, the snapshot of a resume and the observer's events are
  applied. A rival waits for nobody, and its change can meet an answer that a handler
  has yet to write, or an observer that has yet to subscribe; such a session (`raced`)
  is spared until the next change, because its label then stays stale (see
  Disagreements).
* `Attended`: an open session has an observer on the host in service or the
  supervisor has given up (`SessionsWatched`), and, if the host never dies, every ask
  of its host session is shown (`AsksPresented`).

The client waits for an answer before it sends another request about the same host
session, an observer is polled before its session is asked anything, and `ready`
outlasts a restart. Events do not overrun a receiver. `"overlap"`, `"slow"`, `"late"`,
`"unlisted"` and `"forced"` drop these; each of them makes one of the properties false
of the code (see Disagreements).

Fairness: tokio polls handlers and observers, and the supervisor replaces a dead
host or gives up, as `Responsive` of `Supervisor` shows.

### AcpServer

The run `Endpoints` plays this part and the next, one per behaviour: they share nothing
but what `TurnDriver` and `AcpTurns` are about (`MCEndpoints`).

Seven scripts of a client that does not wait for its answers, ending by `shutdown`,
`exit` or end of file, and an outbound channel of one frame (`Depth`), so that every
send may have to wait. `"hangup"` lets the client leave early, `"stdout"` and `"oversize"`
let the writer fail. A v1 prompt is answered by its driver once its turn settles, and by
a `session/close` that finds it in flight; two prompts before a close are enough for one
to be interrupted, settle, or be admitted too late for the close to see it. The slash
command that closes a session from a prompt is left out.

`RepliesFirst` speaks of the frames in the order in which they reach the client: commands
behind the reply that names their session, the reply to a close behind one to every
prompt it interrupted, and a second reply to no request but such a prompt, which its
driver answers too (see Disagreements).

`ServerLive` assumes that tasks are polled and that the client reads. What waits for the
host (`Await`, `Cancelled`) has no fairness: a command is written outside its timeout, a
prompt lasts as long as its turn, and a close is in the hands of its cancels. So a
request that waits for the host may wait for ever, every other one is answered, and a
`shutdown` ends the server whatever else waits. Only for a `session/cancel`, during which
the read loop itself waits for the host, does it suppose that it comes back. With `"stall"`
the client does not read, and a `shutdown` behind a full channel never ends the server
(see Disagreements).

### HttpStream

A turn's events are the positions of its script, so that a frame says which events
it carries, and the whole response is compared with the turn: five bodies with
texts, status lines and reasoning parts, one of them never told, times four ends,
one of them a driver that breaks off. `chat+usage` is a chat request that asks for
usage, `collected` a response without a stream. The channel holds two events. What the
driver promises (a terminal at most once and last, the end of the channel) is what
`EndsOnce` and `TurnSettles` of `TurnDriver` show.

`TurnRendered` joins: every delta once and in order (`EachOnce`); one end, truthful
(`EndsOnce`); parts and items opened before and closed after what belongs to them
(`Bracketed`); a final object with everything that was streamed, each summary the deltas
of one part, in the order of the parts though not under their numbers (`Restated`). The
scripts come back to no reasoning part they have left: a second reasoning item of a turn
does, since it numbers its parts from 0 again, and then the brackets of the parts fail
(see Disagreements). In the run, `ResponseLive` is `ResponseEnds` of the behaviours that
play this part; it assumes that the client reads or leaves and that the driver goes on.

### ServiceInstall and SettingsEdit

`ServiceInstall` runs up to three commands (`MaxCommands`), enough for a `serve` that
is interrupted, one that meets what it left and an `--off`. A child does its work or
not, and reports success only of work that was done: a failure may be a timeout
after the effect. `"crash"` kills the command between two children; `"restart"` lets the
service die and the user log in (`MaxAccidents`). The managers are external: what
systemd, launchd and the Task Scheduler do at each child, at a death and at a
login is taken from the comments and the argument vectors in `service.rs`.
`ReportsTruthful` says what may be concluded from the exit status; its two exceptions
are in the comment above it and under Disagreements.

`SettingsEdit` keeps of a settings file the entries of the root object and of
`agent_servers`, each with the comma behind it. Comments are left out where the code
skips them. It does not skip the one behind a number, `true`, `false` or `null`, so such
a scalar is kept with what its comment makes of it: a line comment (`"noted"`) takes the
new comma in, so that the edit is refused as an internal error; a comment with a comma
(`"listed"`) makes the object unreadable; a block comment with a brace (`"braced"`)
ends the object for the scanner. A brace in a line comment is not kept. An install and
an uninstall edit the same file, which starts as any text of at most two entries per
object (in `agent_servers` at most one comment, at the end), with or
without a trailing comma; the editor saves it while fewer than two writes have been
made. The disk may be full at any write, a rename may fail, a command may be killed.
`--no-backup` behaves as a backup that failed. `SettingsKept` says which writes may
leave an empty or cut file (those of a rollback) and what a rename may change. It
says nothing of what is refused: valid JSONC may be.

The two share nothing, so `MCInstall` lets a behaviour use one of them.

## Disagreements

Two runs expect a violation; PROJECT.json quotes what each refutes.

* `TurnDriverSetupLag`: an overrun before the `turn/start` ack is never paged, and a
  turn is forwarded as completed without text the host committed.
* `AcpDialogsOverlap`: two tasks pass `open_approval`'s check, the second overwrites
  the first's dialog, and the answer to the first decides the second approval.

Others are behaviours the models have, and no property of a run denies them:

* connection: `command` writes outside its timeout (host.rs:474), so a host that stops
  reading strands every caller; the reader writes acknowledgements (host.rs:670), so
  a full stdin stops it from draining stdout; a waiter inserted after EOF (host.rs:616)
  is failed only by its own timeout; a future dropped in `write_all` (proto.rs:402)
  leaves half a frame, which spoils the next one; `take_stdin` (host.rs:581) sends no
  EOF when a write is under way;
* supervisor: a failed relaunch discards its exit class (host.rs:1096), so a host that
  exits 3 during its handshake is launched again; a monitor past its last await may
  overwrite the `Shutdown` status (host.rs:1001);
* turn: a request dropped between `turn/start` and the handle (dispatch.rs:431), one
  whose setup fails there on a live host (538 to 606), and one whose page fails after
  its client left (dispatch.rs:1039), are not cancelled; a delta lost before a later one
  makes `suffix_after` forward the text again (fold.rs:654); a usage record without a
  `cumulative` block is not counted once another had one (fold.rs:331); an
  `approval/request` lost in an overrun is never decided, because paging replays view
  events only (dispatch.rs:752; SPEC.md:401 says the bridge decides it);
* ACP turns: v1 `session/close` answers an in-flight prompt (sessions.rs:1649), and so
  does the driver it pokes (the comment at 3602 says "settle the prompt reply exactly
  once"; `AnsweredOnce` is false with `Closing = {1}`); `idle` and `running` are sent
  after the lock that justified them (sessions.rs:3862), so of two drivers, or of a
  steering handler and the driver it spawned (sessions.rs:2545), the late `running` can
  be the last state of a session with no work (tests/acp_server.rs:1067: "and only then
  the session idles"), and with a single prompt so can the one the observer (2721),
  `complete_permission` and `complete_elicitation` (3043) send, which see the turn in flight
  under the lock (2682: "if session work continues, re-assert running"); a late `turn/started` names a finished turn active
  (sessions.rs:2654); a turn whose `turn/start` is unanswered at `session/close` runs on
  (sessions.rs:529);
* dialogs: an approval is deduplicated by id only while it is displayed or queued, so
  a client that answers before the second leg arrives is shown it again
  (sessions.rs:2807; the comment at 2004 says "to one dialog"); a queued approval
  without choices returns early and strands those behind it until another dialog
  completes (sessions.rs:2829); a form's keys are written by the position of a
  question among all, and read by its position among those that have an id
  (sessions.rs:3201, 3326);
* registry: two `session/resume` of one id that overlap both find it new, and spawn
  two observers; a close between the check and the insert leaves none (sessions.rs:1913);
  a session closed and resumed before its old observer met an event has two, since
  an observer retires only when an event finds no entry. An ask between the pull and a
  late subscription reaches neither (1981), and one whose pull fails is never shown. A
  new subscription after a restart pulls nothing (4026), and an observer that meets a
  restart longer than `ready`'s deadline retires though its session is open; with an
  exhausted supervisor it never retires, since the dead connection is kept
  (host.rs:1105; the comments at sessions.rs:2558 and 4001 say it does). The
  observer maps `allowAll` to auto, so a yolo session whose event comes after the
  acknowledgement loses its label (2636; the comment at 2307 says "keep the label");
  overlapping mode changes, another client's change between an answer and its write
  (2221, 2304) or before an observer subscribes, or an observer that lagged, can leave a
  stale label (4018: "loses at most one redundant emission"); `set_mode` ignores the echoed
  `effectiveMode` that `set_config_option` prefers (2220: "so a downgraded apply cannot
  desync selectors"). A session created between a list's snapshot (1691) and the
  host's answer is listed under its host id;
* server: a failed stdout or an outbound frame over the cap ends the writer while the
  loop reads on (server.rs:252; 180 says `serve` returns when "the writer fails");
  the abort of the writer (203) may drop the reply to `shutdown`; a `shutdown` whose
  reply waits for a full channel does not stop the server; `shutdown` and `exit`
  without an id are ignored; an observer's update can precede the reply that names its
  session (357: "the client only routes updates once the response arrives"); a
  `session/cancel` blocks the read loop while the host is asked;
* HTTP: a completed response lists the reasoning item first, though it was streamed
  with output index 1 and the message with 0 (responses.rs:240); empty reasoning parts
  are dropped from it, so that its indexes are not the streamed ones; a second
  reasoning item starts at part 0 again, which is added and done twice (216); without a
  stream the status lines follow the text, wherever they were;
* service: a `serve` that was interrupted between the file and the restart leaves an
  outdated service that the next one, which finds the file unchanged, does not restart
  (service.rs:913: "A changed definition restarts so it takes effect promptly"); the
  stop of a scheduled task is best effort, and `--off` reports "stopped and disabled";
  `--dry-run` shows `enable --now` where `serve` would restart;
* settings: a rollback rewrites the user's file in place with the text that was read,
  so that a full disk or a kill leaves it empty or cut, and a save of the editor in
  between is lost (compat.rs:1157: "so a failed install never leaves a half-replaced
  settings file"; 1049: "can never observe a truncated settings file"); a rename loses
  what the editor saved since the read; a backup that fails may destroy the one of an
  earlier command; a file with comments, which are supported (compat.rs:458), may be refused
  as "root is not a JSON object" (839) or with an internal error (867), when one follows a
  scalar; and with a brace in a block comment behind a scalar, an install puts its entry
  into the comment, and says that it added it (591).

## Proofs

| Theorem | For every |
|---|---|
| `MspConnectionProofs`: `AdmissionInvariant`, `TypeCorrect`, `WaitersNeverLeak`, `AtMostOneAdmission`, `OutcomesAreTrue`, `DeathIsFinal` | set of callers, pipe capacity, number of attempts and of server requests |
| `SupervisorProofs`: `SupervisorInvariant`, `TypeCorrect`, `AtMostOneHost`, `BoundedLaunches`, `TruthfulRefusals`, `JustifiedRestarts`, `SupervisorImplementsService` | restart budget and set of clients |
| `AcpTurnsProofs`: `TurnsInvariant`, `TypeCorrect`, `InFlightExact`, `RepliesOnce`, `OnePromptIdle` | finite sets of prompts and steering requests, and every combination of faults |
| `TurnDriverProofs`: `TurnDriverTypes`, `RequestEndsOnce`, `ToldAndChargedOnce`, and without `"lag"` `CompletedIsWhole` | set of turns, capacity of the ring, the channel and a page, and every combination of faults |
| `AcpDialogsProofs`: `DialogTypes`, `PromptedOncePerAsk`, and without `"overlap"` `OneDialogShown`, `VerdictsAsAnswered`, `NoWaiterLeft` | sets of approvals, prompts and tasks, and every scene |
| `AcpRegistryProofs`: `SessionsBacked`, without `"overlap"` `SessionsObserved`, and without `"overlap"`, `"slow"` and `"forced"` `LabelsTruthful` | set of plans, ring and number of host generations |
| `EndpointProofs`: `StreamsAreFaithful`, and for turns that come back to no reasoning part `TurnsAreRendered` | set of turns, endpoint and channel capacity |
| `EndpointProofs`: `RepliesComeFirst` | set of client scripts, channel capacity, and every combination of faults |
| `InstallProofs`: `ReportsAreTruthful` | number of commands and accidents, and every combination of faults |
| `InstallProofs`: `SettingsAreKept` | set of installs, uninstalls and foreign agents, size of the initial file, number of saves, comments but braced ones, and every combination of faults |

Each follows the same argument: the property is not inductive, so an invariant
that implies it is proved for the initial states and for every action, one step
of the proof per action.

* Connection. `AdmittedAtMostOnce` speaks of the ids the host executed; it is
  inductive only together with where every id is: still registered, in a frame on
  one of the pipes, held by the host, or resolved, each in at most one place, and
  with the fact that a caller sends again only after an answer that says nothing
  was admitted. `OutcomeTruthful` adds what each of a caller's earlier ids came to: all
  but the last were refused, so the last one's fate decides what may be told.
* Supervisor. `LaunchesBounded` and `OneLiveHost` need to know which generation
  can be alive at each await of the monitor, and how `launched` relates to
  `restarts` there.
* ACP turns. `EntriesDriven` and `AnsweredOnce` need to know, for each pair of a
  handler's and a driver's position, whether the entry exists and how many replies
  were sent; the cancelling and closing tasks only hold entries that were in
  flight. With a single prompt, `idle` is the last thing shown once the entry is gone,
  unless `late`: the updates from the side that are not late precede the driver's.
* Turn driver. Four invariants, each resting on those before it.
  `EndsOnce`: where the driver and its queue are when a terminal was forwarded
  (`Control`, `Closing`).
  `NothingMissing`: what the fold holds is a prefix of what the host committed
  (`FoldInv`), and every finished item that was not fed yet is still announced, by an
  entry of the ring or of the buffer, a hole, a lag or a page (`DeliveryInv`). An overrun
  before the ack breaks exactly that, and `TurnDriverSetupLag` shows the consequence.
  `NothingTwice`, chunks (`TellInv`): entries reach the driver in the order of the log;
  a delta that no longer waits was driven, or was lost and its item is torn; what
  the fold takes the caller to know was told by an event that came before all that
  still waits. So the deltas that wait are those the caller does not know.
  `NothingTwice`, usage (`Charged`): what was charged is the sum over the records
  counted, or what one of them states as its `cumulative` total; either is compared with
  the host's sum by induction over the positions of the log.
* ACP dialogs. Always: a task holds only requests of its own (`Owned`), is where its
  kind may be (`Placed`), and a prompt is in one place (`Once`). While at most one
  task is between the look at `pending_perm` and the assignment (`Exclusive`), each dialog
  shown is the session's (`Watched`) and each verdict its own dialog's (`Faithful`). A
  second such task is what `AcpDialogsOverlap` shows.
* ACP registry. `SessionsObserved` needs that a handler that found its
  session open still finds it so (`StaysKnown`). For `ModeTruthful`, three sources of a
  label are tied to the host's mode: what a command was answered is still true when
  its handler writes it down, or a rival `raced` (`RequestsInv`: one request at a time is at
  work in a session);
  the last mode an observer has yet to take is the one the host applies (`FeedsInv`);
  and a label is right or an observer of its session has a mode to come (`LabelsInv`),
  because no observer is unsubscribed when a command reaches the host (`NoneWaits`), and a
  rival's change that one misses is `raced`.
* ACP server. A task that has not replied has no result in the stream unless a close
  interrupted it (`NotYet`); one about to advertise has, and so have the prompts that a
  close does not have left (`Before`), while the writer is there. Only a close at work
  has any left, and only prompts are ever interrupted (`Interrupts`), so that no close is
  answered in another's place.
* HTTP rendering. `HttpInv` says three things of the frames that are queued or with the
  client, taken as one sequence. What the renderer remembers (texts, summaries by part,
  the two open flags) is what the first `Told` events of the script come to
  (`MemoryAt`). The sequence carries exactly these events, in order, its brackets are
  those the flags say, and what ends it is the turn's own end (`StreamAt`, `Unpraised`).
  A final object restates the sequence (`Finals`): the parts that were told, counted up
  (`Counted`), are the summaries. A response without a stream carries
  nothing before its one body. Each event is a case of its own, and each case appends
  a few frames that `Fits` the brackets so far.
* Settings. An edit is a function of a text, so the proof has two halves. The first is
  about every sound text, of any length: an install or an uninstall that is not refused,
  and whose text parses, has made one with the entry in or out, and no other entry or value
  changed (`Edits`). If what the install made parses, its comma is not in a comment
  (`BehindIs`); the rest is what appending behind a comma and taking out an entry
  with its comma do to a sequence of entries (`AddedIs`, `WithoutIs`). The second,
  `SettingsInv`, is about the steps: the file is sound whatever was written last; a
  command under way holds a sound text and the edit of it; and if its backup was taken,
  nobody wrote since and no command warned, the backup is the file. The entries are one
  sequence, so both halves hold without a bound on their number.
* Service installer. For each step, what the steps before it established of the file
  (`Installed`), the loaded and running definition (`NotOutdated`) and what was stopped
  (`Removed`).

The assumptions are the named `ASSUME`s of the modules, checked by TLC for each run's
constants; those of the two instances are in `MCEndpoints` and `MCInstall`. Most say of
what kind a constant is. Those of `TurnDriver` are what the external host promises: a
turn ends once, at its last event, and an item's revisions grow up to its completion
(`Playable`); deltas number the chunks of their item, and an object carries all that was
told before it (`Accumulates`; fold.rs:652: "The wire invariant is
concatenation-equals-final"); and a `cumulative` block states no more than the host has
counted so far (`Metered`).

`TurnsAreRendered` has a premise, `NoPartReturns`: a turn does not come back to a reasoning
part it has left. The run's turns satisfy it, and a turn with one reasoning item does; one
with two may not, and then the part is added and done twice (see Disagreements). The
premise is used for the brackets of reasoning parts alone; what does not need it,
`EachOnce`, `EndsOnce` and `Restated`, is `StreamsAreFaithful`, of every turn.

Two theorems of `AcpRegistryProofs` have premises: a client's requests agree on what host
session an id stands for (`Consistent`, `NamedBy`), and for `LabelsTruthful` no receiver
overruns (`Unspilled`). The run satisfies both; of the code the second is true of an
observer that is never `EVENT_CHANNEL_DEPTH` events behind. The faults the theorems
exclude are exactly those that make the property false (see Disagreements).

Every safety invariant and safety action property that a passing run checks is stated by
one of these theorems. Not proved, and checked by TLC only: liveness under fairness,
which needs ENABLED. `TurnFold` is proved about in `TurnDriverProofs`, `HostService` in
`SupervisorProofs`. `DeathIsFinal`, `BoundedLaunches`, `SessionsBacked` and
`SessionsObserved` state properties that no run checks: the theorems cover every
instance.

## Not modelled

* Conversions of requests and replies, error tables, status lines and cards, the
  command line: pure data, where a unit test reaches everything.
* The id minter, the commandId registry, the stderr tail and the line framing:
  sequential code over one small value each.
* `session/list`: it reads the table, asks the host and joins the two answers, and changes
  nothing; what it shows is a function of the two.
* Model and effort of an ACP session, its slash commands and its child-agent records:
  each is written by one handler from the host's echo, as the mode is, and no
  behaviour relates them.
* The drain of the HTTP server on a signal: one await of a library.
* Wall-clock deadlines: a timer may fire at any time.

## Plan

Done: every part of the system with state of its own is modelled, and all of these
models are proved about. To come: `AcpDialogs` as a refinement of the dialogs of
`AcpTurns`, which keep no more than the states a client is told around them.

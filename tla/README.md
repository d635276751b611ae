# Verification of agent-providers

TLA+ models of the agent service and of the process layer under it, checked
with TLC on small instances and, where it says so below, proved with TLAPS for
every value of the constants.  Paths are those of the repository under `src/`;
`S/` stands for `packages/service/src/agent_runtime_service/`, `C/` for
`packages/client/src/agent_runtime_client/` and `K/` for `src/agent_runtime/`.

## 1. The system and its parts

An app sends a run request to the service.  The service checks the caller,
takes an admission place when the route is a subscription CLI, starts a runner
(an async generator of events) and streams frames to the client until a
terminal frame.  A CLI runner starts a process group behind an anchored leader
and may offer the CLI the app's tools over a local relay.  A group that cannot
be shown to be gone after SIGKILL is a *lost group*: its run fails, and its
place goes to the quarantine until the group is confirmed gone.

| Part | State | Operations | Hard because | What makes it correct |
|---|---|---|---|---|
| Supervised run (`S/run_liveness.py`) | one-frame slot, four deadlines, pump, outcome, cleanup task, losses | `frames`, `_drive`, `_deliver`, `_end`, `_drop`, `_pump_runner`, `_reap`, `__aexit__` | five tasks, cancellation at every await, deadlines racing events | no accepted frame is lost or overtaken; every run ends; a cut stream is reported |
| Wire run (`S/run_events.py`, `C/run_stream.py`) | sequence number, budget, decided ending, terminal | `frame_of`, `commit_terminal`, `hand_over`, `run_over`, `client_lost` | an ending decided before the runner is closed and committed after | what is told last is what is recorded |
| Admission (`S/admission.py`, `S/app.py`) | holders of the places | `try_take`, `hand_over`, `free` | three releasers of one lease | a run in use holds a place; at most `max_parallel_cli_runs` are in use |
| Quarantine (`S/quarantine.py`) | one retry task per run | `hold`, `_free_when_gone` | partial and failing confirmations | freed only after the last group |
| Run records (`S/run_records.py`) | records, expiry heap | `begin`, `read`, recorder calls | expiry, overflow, wall clock | running records stay; answers are owned and fresh; history is final |
| Tool relay (`S/tool_relay.py` Relay) | connections, close state | accept, answer while watching, close | a peer that closes while it is answered | the close is bounded; no answer after it |
| Tool call barrier (`S/tool_relay.py` ToolCallBarrier) | pending calls, ready queue, forwards | `call`, `cancel`, `next_event`, `accept`, `stop`, `settle` | give-up in every phase | a call runs and its reply leaves only after its event was accepted |
| Relayed events (`S/relayed_events.py`) | core step, relay step, unaccepted event | `__anext__`, `close` | merge of two sources | no final overtakes a tool result |
| Run tools, CLI runner (`S/run_tools.py`, `S/cli_runner.py`) | tool set of a run | `open`, `close(reap)` | the opening fails or is cancelled between its steps; five bounded steps of the close, each may overrun | the app's client, once entered, is left, and every call returns |
| Anchored leader (`K/spawn.py`) | lifecycle status, watcher | `signal_group`, `kill_and_census`, `release` | threads, pid reuse | never signals a number it does not hold |
| Anchored turns, pools (`K/anchored_turn.py`, `K/codex/pool.py`) | slots, homes | `reserve`, `release`, reap | reap fails half-way | a slot is freed only with its group gone |
| Lost groups (`K/lost_groups.py`) | registry, shared attempts | `retain_lost_group`, `confirm_group_gone` | attempts that outlive their caller | one attempt at a time; freed once |
| Bounded runs, probes, homes (`K/process.py`) | children, cached answer and flight, holders of a home | `run_cli_bounded`, `CachedProbe.get`, `clear`, `PrivateHome` | threads, timeouts, generations | a cleared answer never comes back; a home is removed after its last holder |
| Tool loop, text tool protocol (`K/tool_loop.py`, `K/text_tool_protocol.py`) | rounds, tool calls, held-back text | `stream_tool_loop`, `feed`, `finish` | chunks cut anywhere, limits, errors between rounds | every word once; calls and results in order |
| Provider transports (`K/codex/transport.py`, `K/grok/transport.py`, `K/openai_adapter.py`, `K/claude/`) | session, last line, messages owed | `stream` of each route | success line, session and process outcome come apart | only a sound round acts |
| Tool surface gate (`K/claude/provider.py`) | verdicts, failures, flights of two twins | `verify_cli_tool_surface` and its twins, shutdown | callers cancelled, threads beside a loop, a CLI that updates itself | no turn past a dirty or stale surface |
| Client library (`C/sse.py`, `C/run_stream.py`, `C/wire.py`) | decoder, expected sequence | `decode`, `accept` | partial chunks, cut streams | a reader sees what the service sent or an error |
| Catalog, configuration, identity, capabilities, logins | little or none | translation and decisions | — | not modelled: pure or cryptographic |

The parts interact like this.  `app._admitted` takes a lease and makes a
`_RunResponse` over `run_frames`; that enters a `SupervisedRun`, whose pump
alone steps and closes the runner and collects the lost groups; its cleanup
task calls `hand_over` (quarantine), `commit_terminal` and `run_over` (record
and lease) in one stretch without an await.  A CLI runner merges its core
stream with the barrier (`RelayedEvents`), and closes its tools around the reap
of its process group, whose failure is the lost group the pump collects.

## 2. The modules

| Module | Models | Kind |
|---|---|---|
| `RunContract` | what one admitted run promises | abstract specification |
| `SupervisedRun` | `SupervisedRun`, `_FrameSlot`, `_WireRun`, the run's record | detailed specification, refines `RunContract` |
| `SupervisedRunProofs` | — | proofs about `SupervisedRun` |
| `Admission` | `AdmissionSlot`, `Lease`, `_RunResponse`, `Quarantine` over many runs | composition of runs that keep the contract |
| `AdmissionProofs` | — | proofs about `Admission` |
| `RunRecords`, `MCRunRecords` | `RunRecords`, `RunRecorder` and the status reads | detailed specification |
| `RunRecordsProofs` | — | proofs about `RunRecords` |
| `ToolCallContract` | what a run with tools promises of each call | abstract specification |
| `ToolBarrier` | `ToolCallBarrier`, the reports of `McpRelayOwner` | operations on the barrier's state |
| `RunStream` | the rules of `RunStream` for the events of one run | pure operators |
| `RunTools`, `MCRunTools` | `ToolBarrier` and `RunStream` with `CliRunner`, the opening and the close of `RunTools`, `RelayedEvents`, `_WireRun` and the end of the record | composition, refines `ToolCallContract` |
| `ToolRelay` | `Relay`, `_ReceiveDeadline`, `_watch` and the CLI's connections | detailed specification |
| `AnchoredLeader` | `AnchoredLeader`: watcher, lifecycle lock, kernel | operations on a leader's state |
| `LostGroups`, `MCLostGroups` | `AnchoredLeader` with `anchored_turn_child`, `CliProcessPool` and the registry of lost groups | composition |
| `LostGroupsProofs` | — | proofs about `LostGroups` |
| `PrivateHome`, `LineChannel` | `PrivateHome`; `CliLineChannel` | operations |
| `BoundedRun` | `run_cli_bounded` with both and `CodexProcessPool` | operations |
| `CliRuns`, `MCCliRuns` | `BoundedRun` under its users: text turns, images, `CachedProbe` | composition |
| `TextToolProtocol` | `TextToolStreamParser` | pure operators |
| `ToolLoop` | `stream_tool_loop` | operations on a turn's state |
| `CliTransports`, `ApiTransports`, `ClaudeStream` | the Codex and Grok transports; the OpenAI and Anthropic transports; Claude's stream and `verdict_of` | operations |
| `ProviderTurn`, `MCProviderTurn` | `stream_turn` over the five modules before | composition |
| `ToolSurface`, `MCToolSurface` | the single flight over Claude's tool surface | detailed specification |
| `RunToolsProofs` | — | proofs about `RunTools` |
| `CliRunsProofs` | — | proofs about `CliRuns` |
| `ToolRelayProofs` | — | proofs about `ToolRelay` |
| `TurnProofs` | — | proofs about `ToolSurface` and `ProviderTurn` |

### SupervisedRun

An action is what one task does between two awaits.  Every timer is the time
left: 0 is due, `Never` is unarmed, so `Due` is the code's `deadline <= now`
and `Decide` is `decide` with the same order of its tests.

* *Response*: `response` is where `run_frames` is.  `sending` is the yield,
  `taking` the await in `_FrameSlot.take`, `leaving` and `reaping` the two waits
  of `__aexit__`.  `CloseStream` may happen at any yield or await, as
  Starlette or a cancellation closes the generator.
* *Supervisor*: `deciding` is `_next_action`; `delivering` is `_deliver` behind
  an accepted frame; `asking` the second reading of the deadlines in
  `_handle_outcome`; `ending` the `_stop` of `_end`; `queueing` the two calls
  of `_fill_when_vacant`; `unwinding` is `_supervise`'s `finally`.  Between
  `delivering`, `asking` and `deciding` the code has no await when the slot is
  vacant.  The model has a step there, so that time may pass between two
  readings of the clock; other tasks may act there too, which the code does not
  allow.  The model has more behaviours than the code there, and what holds in
  the model holds in the code.
* *Pump*: a step ends with any outcome the run can tell apart, an error may
  carry lost groups, a cancelled runner may let the cancellation through,
  raise, or swallow it and yield.  A runner may also end itself by a
  cancellation nobody asked for (`RunnerEscapes`).
* *Cleanup*: `CleanupEnds` is `hand_over`, `commit_terminal` and `run_over`.

Frames are numbers and kinds; the byte budget is counted in frames, of which
every one the runner causes counts one.

### Admission

`holders` is `AdmissionSlot._holders`.  A run has two possible leases, its own
and the quarantine's successor.  `Admit` and `Refuse` are the whole of
`_admitted`, which has no await between `try_take` and its answer.  `RunOver`
is `hand_over` and `run_over`, atomic in the code (see above), and is enabled
as `RunContract!EndRecord` is: only when the runner is closed.  A confirmation
answers True only for a group that is gone, and may answer False or raise for
any group.

### RunRecords

`known` is the dictionary's key set, `ended` the heap as a set whose order is
`Before`.  Every public call purges first, as in the code.  `now` may become any
reading, so the clock also goes back.

### ToolBarrier, RunStream and RunTools

A call is one `tools/call` request with the task that answers it.  `task` is
where `call()` is and `response` its future; both are needed, because the slot is
freed only when `call()` has run on (`CallReturns`), some time after the future
was resolved.  `cancelledByCli` and `response` together are `given_up`.  The text
of a request, an outcome or a result is left out, but whether an answer carries
the run's capability is a choice (`AnswerReflects`, `RefuseOutcome`).  `reader` is
the task that runs `next_event`, `coreStep` the one that steps the core.

`merger` is where `CliRunner.run` is.  Its opening reads the token file, enters the
app's client, lists its tools and starts the relay; after the last of these the first
events are asked for without an await, which launches the CLI.  An opening that
fails or is cancelled leaves the client if it was entered (`closing = "aborting"`).
Then the merger is at a yield or in its waits: `TakeRelayEvent` and `TakeCoreEvent`
are the last look at the barrier and the return, between which the code has no await.
`TakeCoreEvent` drops the CLI's own tool lines, as the code does.

The consumer is the pump of `SupervisedRun`, reduced to what a run with tools tells
apart.  `held` is the event yielded last.  `EventSent` is `_WireRun` feeding it to
its `RunStream` and sending it; an event that was yielded need not get so far, as
the service may close at any yield.  `stream` is that `RunStream`; `SideEffecting`
are the calls of a tool that is not known to be read-only.  `RecordEnds` is the
commit behind the close: a decided answer, a failure, or the ending `RunStream`
says is due.  `CloseBegins` drops a held event that nobody will accept; a final
stays, as it may be the ending.

The close is five steps in order; `CloseBegins` is the stop of the barrier and the
cancellation of both steps, which follow each other without an await.
`SettlingEnds` is the end of two bounded waits, whether or not a forward still
runs, and a forward may end, or let the cancellation through, at any time after.

### ToolRelay

A connection's task is at a read (`head`, `body`), waits for its owner
(`answering`) or drains what it wrote (`writing`).  `owner` and `watch` are the
two tasks beside it.  `SeesEnd` is one step of `_watch`: it sees an end and
cancels the owner, as the code has no await in between; `CloseBegins` is the
first step of `_close_once`, whose `Task.cancel()` reaches the owner through
the forwarding `gather` at once.  A cancelled owner may still answer, since
cancelling is a request.  A request is three pieces of bytes, so that a read
may end inside its head, between head and body, or take two requests at once.
h11 is reduced to when it has a head or a body whole.

### AnchoredLeader and LostGroups

`leader` and `members` are the process group as the kernel has it: a leader
that ended is a zombie until somebody reaps it, and only then is its number
free.  `status` is `LeaderStatus`, `watcher` the thread, `worker` the thread of
`kill_and_census`.  What happens under the lifecycle lock is one action.
`LostGroups` adds where each turn is, its pipes, its slot and its home, and the
registry with one attempt per entry.  `holders` counts who still uses the
attempt: its caller and its worker thread, of which either may end first.
`Leave` is a cancelled call.

### CliRuns and what it composes

A job is one call of `run_cli_bounded`: the calling thread (`call`), the worker
(`work`) and what each recorded.  `PrivateHome` splits a release into the
return of the token and the later look whether it was the last, as the code
does without a lock.  `CliRuns` starts jobs as its users do; a flight of
`CachedProbe` is a job with a generation, and `StartFlight` includes
`Thread.start` raising before or after the thread began.

### ProviderTurn and what it composes

A text is a sequence of pieces.  The opening tag is two pieces, a JSON value
one, named for what it turns out to be.  `Feed` and `Finish` are the parser's
two methods whole: what may begin a call line is held back, fences are
followed, a block is taken for a call only from the start of a line.
`line` is what a transport holds of the round, `seen` is history: what the
provider said, what it was sent, what the host was told.  A provider may say
its lines in any order, twice or not at all, name any session, break off
anywhere, and end its process in any way.  An error line ends the reading
(`Hearing`): the transport asks for the abort, which drops what is on its way.
Reasons of a failure are all `"failed"`, as nothing depends on which it was.

### ToolSurface

A flight is named for the caller that claimed it.  In the event loop nothing
comes between the look at the cache and the claim; in a thread everything may
(`MissesCache`).  There is one event loop, as the service has, and any number of
threads.

The binary may be updated at any moment.  `versioned` says how: either a version
is a file of its own, and the path that was resolved for the key still names it
after an update, or the update replaces the file, and a probe or a turn started
later runs what lies there by then (`BuildAtPath`).  `relied` remembers the
verdict a caller passed on, and `TurnStarts` is the spawn of its turn.

`flight` is the future and its task, `atWork` the flights whose worker thread or
child is under way; these are not the same.  A probe that is given up by its bound
(`ProbeFails`) or by the shutdown (`ShutsDown`) resolves its future and leaves the
table while its thread goes on to spawn, kill or reap, until `WorkEnds`.  A later
caller may then start a second probe of the same key, so `OneProbeAtATime` allows
two only beside one that was given up that way: what it excludes is that a
cancelled caller, or a follower whose wait is over, lets a second one in.
`ShutsDown` leaves a flight that had not begun without an answer; who waits for it
waits until its own bound.

## 3. The runs

| Run | Instance | Shows |
|---|---|---|
| `MCSupervisedRun` | heartbeat 1, stall 2, idle 2, maximum 4; 1 tool call, 2 frames, 1 lost group | safety of one run and that it keeps the contract (1.4 million states) |
| `MCSupervisedRunLive` | the same with maximum 3, 1 frame | every run ends, a waiting client is answered |
| `MCAdmission` | 3 runs, 1 place, 2 groups each | places against use, and every place is freed |
| `MCRunRecords` | 2 runs, 2 owners, retention 2, 1 ended record kept, clock 0..3 | the store |
| `MCRunTools` | 2 calls, one side-effecting, 2 ids, 2 slots | each call told of gets one result, the answer does not overtake it, the record's ending agrees with the calls told, and `ToolCallContract` (2.1 million states) |
| `MCRunToolsLive` | 1 call, 1 id, 1 slot | an answer is not held back for ever; a reflected capability ends the run; a close, also of a failed opening, ends every call and leaves the app's client (16 thousand states) |
| `MCLostGroups` | 2 turns on 1 slot, 2 callers that confirm | a slot or a home is free only beside a group known to be gone, no number is used after its reap, attempts and exits come to an end (81 thousand states) |
| `MCCliRuns` | 2 jobs: two flights, two Codex rounds, a Grok round or an image; 2 threads that ask, 1 clear, 1 line of capacity, 2 lines | homes, slots, lines, outcomes and the cached probe |
| `MCProviderTurn` | six routes, 15 texts in every cut, 2 rounds, batches of 1 and 2 | what a turn shows, runs and sends back, and that it ends or waits for one response without a bound (151 thousand states) |
| `MCToolSurface` | two meetings of three callers (tasks; a task and two threads), and three of two with one update of either kind | the verdict a turn starts on, when a second probe runs, and that every waiting caller is answered (155 thousand states) |
| `MCToolRelay` | 2 connections, 1 served at a time, 2 requests of 3 pieces, 2 pieces pipelined | withdrawn requests, order of the answers, receive deadlines (65 thousand states) |
| `MCOwnLine` | as `MCProviderTurn` | *violated*: see Findings |

*Why the bounds are enough.*  The deadlines are as small as
`RunConfigAssumption` (the validator of `RunConfig`) and the interesting orders
allow: a heartbeat before a stall, a stall that ends while the idle window of
the next step runs, and a maximum at which each of the others can be due before,
with or after it.  Two frames of budget let one frame wait in the slot while
another is held by the supervisor, which with the terminal is the longest
queue there is; one tool call reaches the call limit.  One lost group is enough
as only "none or some" matters to a run.  Two groups per run in `Admission` make
a partly confirmed round; three runs on one place make one meet a full slot
behind an own or a quarantined lease, and take the place when it is freed.  The
two safety properties are proved for every number of places.  In `RunRecords` two
ended runs overflow a store of one; four readings make records expire before,
at and after `Retention`.  In `RunTools` two calls under ids they may share make
one call be queued, given up or answered beside the other in every phase, and make
an id be used again while the first call of it is still answered.  Two calls never
find the two slots full: the refusal at the limit is the same branch as the refusal
of a pending id, which does happen.  One call is side-effecting and the other not,
so a run is cut before, between and after each kind was told.  The liveness run has one call, as each call
waits for its own event, forward and close, and the merger for the one reader.

In `LostGroups` the second turn asks for the slot the first one holds, retains
or frees, and two callers share or repeat an attempt at one group.  In `CliRuns`
two jobs are the smallest number that share a home, a pool or a probe; one line
of capacity under two lines makes the channel full; one clear separates a flight
from its successor.  In `ProviderTurn` the texts hold every place a call may
stand at (alone, after prose, in a fence, behind one, in the middle of a line,
twice) and every way a block may be refused, and every text is cut in every way;
the second round is the first that resumes a session, and the limit is met after
it.  In `ToolSurface` an entry of the single flight is left, joined and claimed
again with three callers; with two, the CLI updates itself at any moment, between
ask, probe, verdict and turn.  Both safety properties are proved for any number.  In
`ToolRelay` the second connection is refused, or comes when the first is gone;
the second request is sent before, beside or after the answer to the first, and
three pieces of it exceed what may be pipelined.

*Deadlock* is checked where the system goes on for ever or stutters explicitly
(`Over`, `Closed`).  `MCLostGroups`, `MCCliRuns`, `MCToolSurface` and
`MCToolRelay` do without: their turns, jobs, callers and connections are
finite in number, and all of them may be over.  That none stays waiting is what
their liveness properties say.

*Symmetry* (interchangeable runs, owners, request ids) is used for safety only;
the calls of `MCRunTools` are not interchangeable, as one is side-effecting.

### Fairness

`SupervisedRun` assumes weak fairness of the tasks of the event loop and of the
clock, and that a runner that *was cancelled* ends its step and closes.  It
assumes nothing of the client (`AskForFrame`, `CloseStream`) and nothing of a
runner that is not being stopped (`RunnerSteps`), nor of a failing clock
(`SupervisionFails`, which is no part of `Supervise`), so `EveryRunEnds` and
`WaitingClientIsAnswered` rest on the deadlines.  The clause on a cancelled runner is what `_reap` itself relies on:
it waits for the pump without a bound, and the bounds are those of the runners'
own closes.

`Admission` assumes that a run's runner closes (`EveryRunEnds` of
`SupervisedRun`), that a killed group is reaped by the kernel in the end, and
strong fairness of `Confirmed`: an attempt at a gone group that is made again
every round is not cut short for ever.

`RunTools` assumes weak fairness of the tasks of the event loop (the reader, the
merger, the close, a `call()` whose response is resolved) and that the service
sends an event and goes on, or closes.  Nothing is assumed of the opening: an app
that hangs there is met by the service's deadlines, which close the run.  The reap of the core is taken to return, which is
what its own bounds are for.  Nothing is assumed of the CLI, of the core or of the
app, whose answers are read without a timeout, so `CloseEndsEveryCall` holds
though a forward hangs.

`LostGroups` assumes weak fairness of the threads of a handle and of a call that
holds an attempt, and strong fairness of the watcher, which waits for a lock
others take.  Nothing is assumed of the CLI's group but what SIGKILL does.
`CliRuns` assumes that the calling threads, the readers and the flights' threads
run on, and nothing of a worker that hangs in a spawn or of its child.
`ProviderTurn` assumes that the loop runs while the host reads, that a round of
Codex or Grok ends by the deadline of its bounded run, and nothing of what a
provider says.  The other routes have no such bound: the timeout of a request
holds for each read, Claude's output is read without a deadline in a service run,
and where it has one the exit of the CLI behind it is awaited without.  So `TurnEnds` says that a turn ends or waits in one response of
such a route, and that the tool loop itself adds nothing to it; in the service
the run's maximum ends the wait (`SupervisedRun`).
`ToolSurface` assumes that a probe's future is resolved (by its deadline and the
outer bound of the wait for its thread), not that its thread or child ends, and
that a caller goes on; the bound of a follower's own wait is not counted on.  `ToolRelay`
assumes that the loop runs the tasks of a connection and its deadline's timer, and
nothing of the CLI or the owner; so `ReceivingEnds` rests on the deadlines.

### Findings

`MCOwnLine`: the docstring of `TextToolStreamParser`
(`K/text_tool_protocol.py:145`) says that it recognizes "a call on its own line
outside a Markdown fence".  `_is_line_start` (line 276) takes position 0 of the
held candidate for the start of a line.  When a chunk ends right before an
opening tag in the middle of a line, the text before it has been released, the
candidate begins with the tag, and the block is executed as a call; the same
answer in one chunk shows it as text.  Beside it, `_advance_markdown_fences`
stops following fences behind a line break other than `\n`, as `splitlines`
breaks there and the line does not end with `\n`: a block in a later fence is
then taken for a call, too.

## 4. What is proved

All for every value of the constants that the named assumptions allow
(`RunConfigAssumption`: positive limits, heartbeat < stall <= idle < maximum;
`AdmissionAssumption`: at least one place, a finite set of runs;
`RunRecordsAssumption`: finitely many runs, a positive retention and limit;
`GateAssumption`: callers of two kinds, and any number of builds;
`TurnsAssumption` and the two `PoolAssumption`s: finitely many turns, at least one
slot or process; `BarrierAssumption`: finitely many calls, at least one of them at a
time; `StreamAssumption`: side-effecting calls are calls; `HomeAssumption`,
`CallersAssumption`, `CapacityAssumption`: finitely many bounded runs and callers, a
channel of at least one line; `RelayAssumption`: at least one connection served;
`AnswersAreSequences`, `RoundsAreCounted`, `NoSessionIsNoId`: texts and batches are
sequences of any length, the limit of rounds is a number, and "no session" names
none).

| Theorem | States |
|---|---|
| `SupervisedRunProofs!TypeCorrect` | `TypeOK`, which bounds timers, calls and charges |
| `AcceptedFramesArrive` | `NoFrameLost` |
| `CutReported` | `CutStreamIsReported` |
| `FramesArriveInOrder` | `FramesInOrder` |
| `QuietOnceClosing` | `QuietWhileClosing` |
| `MaximumIsNotOutrun` | `OneOutcomePastTheMaximum` |
| `KeepsTheContract` | `SupervisedRun` implements `RunContract` |
| `AdmissionProofs!TypeCorrect` | `TypeOK` |
| `RunsInUseHoldPlaces` | `InUseHoldsPlace` |
| `UseStaysBounded` | `UseIsBounded` |
| `SupervisedRunProofs!IdlenessIsTheRunners` | `IdleOnlyWhileStepOwed` |
| `RunRecordsProofs!IndexAgreesWithStore` | `IndexMatchesStore` |
| `ReadsTellTheTruth` | `AnswersAreTrue` |
| `TurnProofs!ProbesAreShared` | `OneProbeAtATime` |
| `PassedOnACleanSurface` | `NoTurnPastADirtySurface` |
| `LostGroupsProofs!NoPlaceBesideALiveGroup` | `PlaceNeverFreeBesideALiveGroup` |
| `NumberIsLeftAlone` | `NumberNeverUsedAfterReap` |
| `EveryHeldPlaceHasAName` | `HeldPlaceHasAName` |
| `RunToolsProofs!EveryCallHasItsPlace` | `EveryCallIsAccountedFor` |
| `NothingFollowsAReflection` | `NothingAfterReflection` |
| `KeepsTheToolContract` | `RunTools` implements `ToolCallContract` |
| `CliRunsProofs!NothingLeavesALivingChild` | `HomeAndSlotFollowTheChild` |
| `OneOutcomeForAll` | `OneOutcome` |
| `CompleteRunsLoseNothing` | `NoLineLost` |
| `ClearsAreFinal` | `ClearedAnswerNeverServed` |
| `ToolRelayProofs!TheGoneStayGone` | `GoneIsGone` |
| `AnswersAreInOrder` | `AnswersFollowRequests` |
| `TurnProofs!OnlySoundRoundsAct` | `OnlySoundRunsAct` |
| `CallsAreAnsweredInOrder` | `CallsAnsweredInOrder` |
| `EveryWordIsShownOnce` | `EveryWordOnce` |

*SupervisedRun.*  `IInv` is `TypeOK` with two facts.  `TerminalInv` says how the
terminal, the ending, the place and the cleanup move together: a terminal is
committed only by the end of the cleanup, in the step that ends the record, and
its kind is the ending.  `CutInv` says that a supervisor past its last frame
either queued the terminal or reported a loss.  `NoFrameLost` needs more:
`ChainInv` says that the frame taken, the frame in the slot, the frame the
supervisor holds and the terminal carry consecutive numbers and that the next
number follows the last of them.  It is not inductive alone, as a commit gives
out a number while a supervisor that still accepts frames would give out the
same; `ClosingInv` (from the cleanup's first use the supervisor accepts nothing)
excludes that.  The action properties and the refinement follow from the
conjunction `ChainIInv`.  The refinement maps the runner to the pump, the loss to
what the pump had collected when it was done, and what the client was told to
the last frame taken; lemmas show which actions leave these alone.
`IdleOnlyWhileStepOwed` needs `IdleInv`: the window is unarmed wherever the
supervisor looks at something else than the runner's step.
`OneOutcomePastTheMaximum` needs `LateInv`: a supervisor that has handled an outcome
since the maximum came due holds its frame or reads the deadlines next, and there is
no way from there to the wait for another outcome.

*Admission.*  `Life(r)` describes one run: which leases it can hold and which
groups its retry task still asks for at each stage.  From it `InUseHoldsPlace`
follows; `Bounded` bounds the holders, and `UseIsBounded` follows by an
injection of the runs in use into the holders.

*RunRecords.*  The invariant adds to `IndexMatchesStore` that the ended records are
numbered apart and that as many runs ended as numbers were given out, so the set is
finite.  A purge removes a first entry of the heap, which exists by the
least-number principle.  Nothing is assumed of the clock between two calls.

*ToolSurface.*  A flight stays published under its key until it is over, and the
key of a caller is fixed from its claim on (`FlightInv`, `EntryInv`); so two probes
of a key that are not given up would be two entries in one place.  `WorkInv` says
that a thread or child without a flight is that of a probe that was given up, from
which `OneProbeAtATime` follows.  What is remembered, and what a caller passed on, is
the answer of a flight of the same key (`VerdictInv`, `CallerInv`); a clean answer is
of a build that is clean, mounted when its caller asked or later, and the very one
where versions are files of their own (`FlightInv`).  `RanInv` adds the build a turn
was started from.

*LostGroups.*  `TurnInv(t)` speaks of one turn: `HandleInv` relates what the
handle believes to what the kernel has (an empty count is never of a living
group; after the handle's reap no thread of it is left that would use the number),
`StageInv` says what each stage of a turn holds, `PlaceInv` what a turn that is
over has left, and `AttemptInv` that an entry has one attempt, held by its call, its
worker or both.  Every step is of one turn, and `SameKeeps` shows that it keeps the
invariant of the others, whose state it leaves alone.

*RunTools.*  `EveryCallIsAccountedFor` relates a call's slot to what the service was
told, which no step changes together.  `TaskInv(c)` says what the place of `call()`
means for its response and its slot, `SlotInv` that slots are bounded and no two of
them of one id; `PlaceInv(c)` is the core: the event of a call is queued,
held at a yield or with the stream, and its result is owed by the forward, queued,
held, or with the stream, in one place at a time.  As queues are sequences, `Single`
says that no call stands in one twice.  `StageInv` relates the merger, the reader
and the steps of the close, `HeldInv` the held event to the stream.  The refinement
needs no more: each step is one of the contract or changes only what it hides.  For
`NothingAfterReflection` a lemma shows that the client is told of nothing but what was
held; the rest is that no step takes an event in hand once the capability was seen.

*CliRuns.*  One bounded run is four facts: `StageInv` (caller, worker and child go
together), `PlaceInv` (which of them still holds the slot, the token and the home),
`OutcomeInv` (who has decided, and who was told) and `LineInv` (what was sent was
read, waits, or was dropped by an abort).  `HomeInv(h)` is over all users of a home:
it stands while anybody holds a token of it, and what removes it is one closer or
one releaser (`Removing`).  A step of one run leaves the others `Alike`, but for the
home they share.

*ToolRelay.*  `StageInv(c)` says which of the three tasks of a connection live at
each stage, `CloseInv` that no task comes once the close began, so its attempt knows
all there are, and `GoneInv(c)` that only the request in hand is withdrawn and its
owner answers no more.  For the order, `NumberInv(c)` counts the parsed requests against
the answers, and `FlowInv(c)` says that what was taken,
what the parser holds and what is on the wire are the bytes of the client, cut
anywhere (`Framed`).

*ProviderTurn.*  `CliInv` and `ListenInv` say that the sessions a round has named are
the one resumed and those received, so a sound round has one, and that an error excludes the line of success; `LogInv` and `LoopInv`
that the history is the batch of each round, three entries to a result, in its order;
`StreamInv` that a judged stream goes on only after clean announcements.

`EveryWordOnce` is proved for texts of any length, cut in any way.  Its first half,
`NoWordLost`, is inductive with a lemma about `Feed`: the text released and the text
kept are the candidate, cut in two.  Its second half needs `HoldInv`: the parser's
fence state is that of the text shown (`Followed`), no place in the text shown can
still become an opening line (`Settled`), and before a call is begun no opening line was
read.  It rests on the law that following the fences chunk by chunk is following them
at once (`FollowsOn`), also when a chunk ends in the middle of a line or behind a break
that stops the scan; `AdvanceFences` is stated in closed form, by the places where lines
end, so that this law is no induction over a fold.  A release before the first place
that may begin keeps the three: a place further left would be a prefix of the opening
line, and the text is too long for that.  The law says nothing of `MCOwnLine`: the
parser knows the fences of what it has shown, but not the end of its last line.

*Only model-checked.*  All liveness: the prover has no rule for fairness.  Every other
property of a passing run is a theorem.

## 5. Not modelled

Of the modelled parts:

* *Supervised and wire run*: the path of `run_frames` for a route without a
  runner, which sends two frames and ends; which of several failures the exit of a
  run raises and which it logs; `hand_over`, `run_over` and `client_lost` raising;
  a failing clock between a filled slot and its new deadline; the charge of an event
  that breaks a rule of `RunStream`, as it ends the run anyway; the run ids, frame
  numbers and `parse_event` of `RunStream`.
* *Quarantine and records*: the error of holding one run twice, which one `run_over`
  per run cannot cause; the count of events in a record.
* *Tools*: a run without tools; which exception the close raises; a forward whose
  task is cancelled from inside the app's client before the close; the misuses that
  `ToolCallsMisused` reports, other than a second `next_event`, as the merger is
  the barrier's only user; HTTP parsing, which is h11's.
* *Processes*: commands, environments and the anchor's own program; the statistics
  of the pools; the parsing of versions and of images.
* *Turns*: the one-shot `parse_text_tool_response`, which only tests call; the
  validation of arguments against a schema; the one-shot calls of
  `call_provider_once` and the image routes above `run_cli_bounded`; protocol errors
  of a malformed line, which fail a round as any other failure does; prompts,
  token accounting, and the reason a failure carries.
* *Tool surface*: the state the health report keeps, which no turn reads, and
  `clear_cli_tool_surface_cache`, which only tests call.

And these parts: the *app tools client* is an MCP client over HTTP, of which a run
sees nothing but the outcomes `RunTools` chooses freely; the *client library*
decodes on the other side of the wire, without a state shared with the service;
*catalog and configuration* are pure decisions; *caller identity, job tickets and
capabilities* are cryptographic checks; *logins, hardening and the command line* set
up files and the process once.

## 6. Plan

1. *Client*: the decoder (`C/sse.py`) against the frames `SupervisedRun` sends, cut in
   any way.
2. *The run without a runner*, as a second initial state of `SupervisedRun`.

No module that is proved about declares a RECURSIVE operator.

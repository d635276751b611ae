---------------------------- MODULE SupervisedRun ----------------------------
(***************************************************************************)
(* One admitted run of the agent service: run_liveness.SupervisedRun with  *)
(* the frame writer run_events._WireRun it drives.  Five parties act:      *)
(*   response    the request's task, inside run_events.run_frames          *)
(*   supervisor  decides what is sent and when the run is over             *)
(*   pump        owns the runner's generator                               *)
(*   cleanup     the one task that stops the pump and ends the record      *)
(*   clock       every timer is what is left of it: 0 due, Never unarmed   *)
(* An action is what a task does between two awaits.  Where the code reads *)
(* the clock again within one such stretch (after an event was delivered), *)
(* the stretch is cut in two, so time may pass between the two readings.   *)
(***************************************************************************)
EXTENDS Integers, FiniteSets

CONSTANTS HeartbeatInterval, StallTimeout, IdleTimeout, MaxDuration,
          MaxToolCalls,   \* runs.max_tool_calls
          MaxFrames,      \* runs.max_bytes, counted in runner-caused frames
          LostGroups      \* the process groups the run's runner might lose

ASSUME RunConfigAssumption ==
    /\ {HeartbeatInterval, StallTimeout, IdleTimeout, MaxDuration,
        MaxToolCalls, MaxFrames} \subseteq Nat \ {0}
    /\ HeartbeatInterval < StallTimeout
    /\ StallTimeout <= IdleTimeout
    /\ IdleTimeout < MaxDuration

VARIABLES
    response,      \* sending, taking, leaving, reaping, left
    taken,         \* the last frame the response took for the client
    slot,          \* _FrameSlot: the frame waiting for the client
    slotClosed,
    supervisor,    \* where the supervisor task is
    frame,         \* the accepted frame the supervisor still has to queue
    heartbeat, maximum, idle, stall,   \* what is left of each deadline
    late,          \* history: the outcomes handled since the maximum came due, up to two
    pump,          \* idle, stepping, closing, done
    stepWanted, outcome,
    losses,        \* the ContainmentLost groups the pump collected
    cleanup,       \* none, created, stopping, done
    seq,           \* the next sequence number of the wire stream
    calls, charged, sideEffect,
    decided,       \* the ending decided, not yet committed
    terminal,      \* the committed terminal frame
    ending, lost,  \* the run's record
    place          \* the lease's place

clientVars == <<response, taken>>
slotVars == <<slot, slotClosed, stall>>
timers == <<heartbeat, maximum, idle, late>>
pumpVars == <<pump, stepWanted, outcome, losses>>
budget == <<calls, charged, sideEffect>>
wireVars == <<seq, budget, decided, terminal>>
recordVars == <<ending, lost, place>>
vars == <<clientVars, slotVars, supervisor, frame, timers, pumpVars, cleanup,
          wireVars, recordVars>>

Running == "running"
Endings == {"succeeded", "provider_error", "idle_timeout", "limit_exceeded",
            "interrupted", "cancelled"}
NotLost == "not_lost"
Undecided == "undecided"
NoOutcome == "none"
Never == -1

NoFrame == [seq |-> 0, kind |-> "none"]
StartedFrame == [seq |-> 0, kind |-> "started"]
FrameOf(kind) == [seq |-> seq, kind |-> kind]

Calls == {"read_call", "effect_call"}
Sendable == {"text"} \cup Calls
Outcomes == Sendable \cup {"empty", "unsendable", "final", "exhausted", "raised"}

-----------------------------------------------------------------------------
(* run_liveness.decide: what the supervisor does with the deadlines d.      *)
Due(left) == left = 0

Decide(ready, d) ==
    IF Due(d.stall) THEN "drop"
    ELSE IF ready THEN "event"
    ELSE IF Due(d.maximum) THEN "limit"
    ELSE IF Due(d.idle) THEN "idle"
    ELSE IF Due(d.heartbeat) THEN "heartbeat"
    ELSE "wait"

OutcomeReady == outcome # NoOutcome
Vacant == slot = NoFrame

Deadlines == [heartbeat |-> heartbeat, maximum |-> maximum, idle |-> idle, stall |-> stall]
BlockedWithoutMaximum ==     \* mutant: a blocked supervisor watches only the stall
    [Deadlines EXCEPT !.heartbeat = Never, !.idle = Never, !.maximum = Never]
BlockedDeadlines == [Deadlines EXCEPT !.heartbeat = Never, !.idle = Never]
EndingDeadlines == [BlockedDeadlines EXCEPT !.maximum = Never]

(* _FrameSlot.fill and _fill: a filled slot has a stall window of its own.  *)
Fill(f) == slot' = f /\ stall' = StallTimeout /\ UNCHANGED slotClosed

(* RunRecorder.lost: the first loss is latched. *)
ReportLost(reason) == lost' = IF lost = NotLost THEN reason ELSE lost

(* _reaping: the cleanup task is created once, by whoever needs it first. *)
StopRunner == cleanup' = IF cleanup = "none" THEN "created" ELSE cleanup

(* The leaving response has cancelled the supervisor. *)
CancelRequested == response \in {"leaving", "reaping", "left"}
Stopping == cleanup \in {"stopping", "done"}

-----------------------------------------------------------------------------
(* The clock.  Nobody reads a timer once the supervisor is done. *)
Elapse(left) == IF left > 0 THEN left - 1 ELSE left

Tick ==
    /\ supervisor # "done"
    /\ heartbeat' = Elapse(heartbeat)
    /\ maximum' = Elapse(maximum)
    /\ idle' = Elapse(idle)
    /\ stall' = Elapse(stall)
    /\ UNCHANGED <<clientVars, slot, slotClosed, supervisor, frame, late, pumpVars, cleanup,
                   wireVars, recordVars>>

-----------------------------------------------------------------------------
(* The response: run_frames iterating SupervisedRun.frames.                 *)

(* The client took the yielded frame and asks for the next one. *)
AskForFrame ==
    /\ response = "sending"
    /\ response' = "taking"
    /\ UNCHANGED <<taken, slotVars, supervisor, frame, timers, pumpVars, cleanup,
                   wireVars, recordVars>>

TakeFrame ==
    /\ response = "taking"
    /\ ~Vacant
    /\ taken' = slot
    /\ response' = "sending"
    /\ slot' = NoFrame
    /\ stall' = Never
    /\ UNCHANGED <<slotClosed, supervisor, frame, timers, pumpVars, cleanup,
                   wireVars, recordVars>>

(* take() returns None: the stream is over and the run is left. *)
StreamEnds ==
    /\ response = "taking"
    /\ Vacant
    /\ slotClosed
    /\ response' = "leaving"
    /\ UNCHANGED <<taken, slotVars, supervisor, frame, timers, pumpVars, cleanup,
                   wireVars, recordVars>>

(* The client is gone or the response is cancelled: the loss is latched     *)
(* before __aexit__ cancels the supervisor.                                 *)
CloseStream ==
    /\ response \in {"sending", "taking"}
    /\ response' = "leaving"
    /\ ReportLost("disconnected")
    /\ UNCHANGED <<taken, slotVars, supervisor, frame, timers, pumpVars, cleanup,
                   wireVars, ending, place>>

(* __aexit__: first the supervisor is awaited, then the cleanup. *)
LeaveSupervisor ==
    /\ response = "leaving"
    /\ supervisor = "done"
    /\ response' = "reaping"
    /\ StopRunner
    /\ UNCHANGED <<taken, slotVars, supervisor, frame, timers, pumpVars,
                   wireVars, recordVars>>

Leave ==
    /\ response = "reaping"
    /\ cleanup = "done"
    /\ response' = "left"
    /\ UNCHANGED <<taken, slotVars, supervisor, frame, timers, pumpVars, cleanup,
                   wireVars, recordVars>>

-----------------------------------------------------------------------------
(* The supervisor: _supervise around _drive.                                *)

(* _drive begins: the first step's idle window counts from run_started. *)
SupervisorStarts ==
    /\ supervisor = "new"
    /\ ~CancelRequested
    /\ supervisor' = "deciding"
    /\ stepWanted' = TRUE
    /\ LET elapsed == MaxDuration - maximum
       IN idle' = IF elapsed < IdleTimeout THEN IdleTimeout - elapsed ELSE 0
    /\ UNCHANGED <<clientVars, slotVars, frame, heartbeat, maximum, late, pump, outcome,
                   losses, cleanup, wireVars, recordVars>>

(* A decided ending stops the runner before anything is committed. *)
EndRun(code) ==
    /\ decided' = code
    /\ supervisor' = "ending"
    /\ StopRunner

DropClientSilently ==        \* mutant: the drop is only logged
    /\ UNCHANGED lost
    /\ supervisor' = "unwinding"
    /\ StopRunner

DropClientAndGoOn ==         \* mutant: the supervisor does not return after a drop
    /\ ReportLost("dropped")
    /\ supervisor' = "deciding"
    /\ StopRunner

(* _drop: the client is reported lost and the stream will end as it is. *)
DropClient ==
    /\ ReportLost("dropped")
    /\ supervisor' = "unwinding"
    /\ StopRunner

Acts(action) ==
    supervisor = "deciding" /\ Decide(OutcomeReady, Deadlines) = action

OverBudgetOffByOne(o) ==     \* mutant: > for >=
    \/ o \in Calls /\ calls > MaxToolCalls
    \/ charged > MaxFrames

(* _charge: the budget refuses an event without charging it. *)
OverBudget(o) ==
    \/ o \in Calls /\ calls >= MaxToolCalls
    \/ charged >= MaxFrames

Sent(o) ==
    /\ frame' = FrameOf("event")
    /\ seq' = seq + 1
    /\ charged' = charged + 1
    /\ calls' = IF o \in Calls THEN calls + 1 ELSE calls
    /\ sideEffect' = (sideEffect \/ o = "effect_call")

(* What frame_of decides for an outcome that ends the run. *)
Verdict(o) ==
    CASE o = "final" -> "succeeded"
      [] o \in {"unsendable", "exhausted", "raised"} -> "provider_error"
      [] o \in Sendable /\ OverBudget(o) -> "limit_exceeded"
      [] OTHER -> Undecided

ConsumeOutcomeIdling ==      \* mutant: the idle window goes on while blocked
    outcome' = NoOutcome /\ UNCHANGED idle

ConsumeOutcome == outcome' = NoOutcome /\ idle' = Never

(* _handle_outcome up to the frame's delivery. *)
HandleOutcome ==
    /\ Acts("event")
    /\ ConsumeOutcome
    /\ late' = IF Due(maximum) /\ late < 2 THEN late + 1 ELSE late
    /\ \/ /\ Verdict(outcome) # Undecided
          /\ EndRun(Verdict(outcome))
          /\ UNCHANGED <<frame, seq, budget>>
       \/ /\ outcome = "empty"
          /\ supervisor' = "asking"
          /\ UNCHANGED <<frame, seq, budget, decided, cleanup>>
       \/ /\ outcome \in Sendable
          /\ ~OverBudget(outcome)
          /\ Sent(outcome)
          /\ supervisor' = "delivering"
          /\ UNCHANGED <<decided, cleanup>>
    /\ UNCHANGED <<clientVars, slotVars, heartbeat, maximum, pump, stepWanted, losses,
                   terminal, recordVars>>

(* _deliver: the slot is vacant, so the frame is queued. *)
Deliver ==
    /\ supervisor = "delivering"
    /\ Vacant
    /\ Fill(frame)
    /\ frame' = NoFrame
    /\ heartbeat' = HeartbeatInterval
    /\ supervisor' = "asking"
    /\ UNCHANGED <<clientVars, maximum, idle, late, pumpVars, cleanup, wireVars, recordVars>>

(* _deliver behind a full slot: the stall drops the client, the maximum     *)
(* ends the run with the accepted frame still to be sent.                   *)
DeliveryDropped ==
    /\ supervisor = "delivering"
    /\ ~Vacant
    /\ Decide(FALSE, BlockedDeadlines) = "drop"
    /\ DropClient
    /\ frame' = NoFrame
    /\ UNCHANGED <<clientVars, slotVars, timers, pumpVars, wireVars, ending, place>>

DeliveryForgotten ==         \* mutant: the accepted frame is not passed to _end
    /\ supervisor = "delivering"
    /\ ~Vacant
    /\ Decide(FALSE, BlockedDeadlines) = "limit"
    /\ EndRun("limit_exceeded")
    /\ frame' = NoFrame
    /\ UNCHANGED <<clientVars, slotVars, timers, pumpVars, seq, budget, terminal,
                   recordVars>>

DeliveryAtTheMaximum ==
    /\ supervisor = "delivering"
    /\ ~Vacant
    /\ Decide(FALSE, BlockedDeadlines) = "limit"
    /\ EndRun("limit_exceeded")
    /\ UNCHANGED <<clientVars, slotVars, frame, timers, pumpVars, seq, budget, terminal,
                   recordVars>>

(* _handle_outcome after the delivery: the deadlines are read again, so a   *)
(* runner that never suspends cannot starve the maximum.                    *)
AskForStep ==
    /\ supervisor = "asking"
    /\ CASE Decide(FALSE, BlockedDeadlines) = "drop" ->
              /\ DropClient
              /\ UNCHANGED <<idle, stepWanted, decided>>
         [] Decide(FALSE, BlockedDeadlines) = "limit" ->
              /\ EndRun("limit_exceeded")
              /\ UNCHANGED <<idle, stepWanted, lost>>
         [] OTHER ->
              /\ idle' = IdleTimeout
              /\ stepWanted' = TRUE
              /\ supervisor' = "deciding"
              /\ UNCHANGED <<decided, cleanup, lost>>
    /\ UNCHANGED <<clientVars, slotVars, frame, heartbeat, maximum, late, pump, outcome,
                   losses, seq, budget, terminal, ending, place>>

BeatOverwriting ==           \* mutant: the heartbeat goes out over a waiting frame
    /\ Acts("heartbeat")
    /\ heartbeat' = HeartbeatInterval
    /\ Fill(FrameOf("heartbeat")) /\ seq' = seq + 1
    /\ UNCHANGED <<clientVars, supervisor, frame, maximum, idle, late, pumpVars, cleanup,
                   budget, decided, terminal, recordVars>>

(* _beat: only a vacant slot gets a heartbeat, else the timer is re-armed. *)
Beat ==
    /\ Acts("heartbeat")
    /\ heartbeat' = HeartbeatInterval
    /\ IF Vacant
         THEN Fill(FrameOf("heartbeat")) /\ seq' = seq + 1
         ELSE UNCHANGED <<slotVars, seq>>
    /\ UNCHANGED <<clientVars, supervisor, frame, maximum, idle, late, pumpVars, cleanup,
                   budget, decided, terminal, recordVars>>

StalledClientDropped ==
    /\ Acts("drop")
    /\ DropClient
    /\ UNCHANGED <<clientVars, slotVars, frame, timers, pumpVars, wireVars, ending, place>>

SilenceEnds ==
    /\ \/ Acts("idle") /\ EndRun("idle_timeout")
       \/ Acts("limit") /\ EndRun("limit_exceeded")
    /\ UNCHANGED <<clientVars, slotVars, frame, timers, pumpVars, seq, budget, terminal,
                   recordVars>>

(* _end after its _stop: a terminal whose commit failed is a supervision    *)
(* failure, otherwise the pending frame and the terminal are queued.        *)
RunnerStopped ==
    /\ supervisor = "ending"
    /\ ~CancelRequested
    /\ cleanup = "done"
    /\ IF terminal = NoFrame
         THEN supervisor' = "unwinding" /\ frame' = NoFrame /\ ReportLost("dropped")
         ELSE supervisor' = "queueing" /\ UNCHANGED <<frame, lost>>
    /\ UNCHANGED <<clientVars, slotVars, timers, pumpVars, cleanup, wireVars, ending, place>>

(* _fill_when_vacant, for the frame sent before the ending, then for it. *)
QueueEnding ==
    /\ supervisor = "queueing"
    /\ Vacant
    /\ IF frame # NoFrame
         THEN Fill(frame) /\ frame' = NoFrame /\ UNCHANGED supervisor
         ELSE Fill(terminal) /\ supervisor' = "unwinding" /\ UNCHANGED frame
    /\ UNCHANGED <<clientVars, timers, pumpVars, cleanup, wireVars, recordVars>>

EndingDropped ==
    /\ supervisor = "queueing"
    /\ ~Vacant
    /\ Decide(FALSE, EndingDeadlines) = "drop"
    /\ DropClient
    /\ frame' = NoFrame
    /\ UNCHANGED <<clientVars, slotVars, timers, pumpVars, wireVars, ending, place>>

(* The clock or a wait failed: the stream is cut and the loss reported. *)
SupervisionFails ==
    /\ supervisor \in {"deciding", "delivering", "asking", "queueing"}
    /\ ~CancelRequested
    /\ DropClient
    /\ frame' = NoFrame
    /\ UNCHANGED <<clientVars, slotVars, timers, pumpVars, wireVars, ending, place>>

(* The leaving response's cancellation reaches the supervisor: a task that  *)
(* never ran ends at once, any other runs _supervise's finally.             *)
SupervisorCancelled ==
    /\ CancelRequested
    /\ \/ /\ supervisor = "new"
          /\ supervisor' = "done"
          /\ UNCHANGED cleanup
       \/ /\ supervisor \in {"deciding", "delivering", "ending", "queueing"}
          /\ supervisor' = "unwinding"
          /\ StopRunner
    /\ frame' = NoFrame
    /\ UNCHANGED <<clientVars, slotVars, timers, pumpVars, wireVars, recordVars>>

SupervisorDoneSlotOpen ==    \* mutant: the slot is never closed
    /\ supervisor = "unwinding"
    /\ cleanup = "done"
    /\ supervisor' = "done"
    /\ UNCHANGED <<clientVars, slotVars, frame, timers, pumpVars, cleanup, wireVars,
                   recordVars>>

(* _supervise's finally: the slot closes only after the cleanup is done. *)
SupervisorDone ==
    /\ supervisor = "unwinding"
    /\ cleanup = "done"
    /\ slotClosed' = TRUE
    /\ supervisor' = "done"
    /\ UNCHANGED <<clientVars, slot, stall, frame, timers, pumpVars, cleanup, wireVars,
                   recordVars>>

-----------------------------------------------------------------------------
(* The pump: _pump_runner, which alone steps, cancels and closes the runner. *)

PumpAsksRunner ==
    /\ pump = "idle"
    /\ stepWanted
    /\ ~Stopping
    /\ pump' = "stepping"
    /\ stepWanted' = FALSE
    /\ UNCHANGED <<clientVars, slotVars, supervisor, frame, timers, outcome, losses, cleanup,
                   wireVars, recordVars>>

(* An error may carry a ContainmentLost; so may whatever ends a closing step. *)
CollectLosses == \E found \in SUBSET LostGroups : losses' = losses \cup found

RunnerSteps ==
    /\ pump = "stepping"
    /\ ~Stopping
    /\ outcome' \in Outcomes
    /\ IF outcome' = "raised" THEN CollectLosses ELSE UNCHANGED losses
    /\ pump' = "idle"
    /\ UNCHANGED <<clientVars, slotVars, supervisor, frame, timers, stepWanted, cleanup,
                   wireVars, recordVars>>

(* A cancellation of the runner's own making escapes the pump unseen: only  *)
(* the idle timeout ends the run.                                           *)
RunnerEscapes ==
    /\ pump = "stepping"
    /\ ~Stopping
    /\ pump' = "closing"
    /\ CollectLosses
    /\ UNCHANGED <<clientVars, slotVars, supervisor, frame, timers, stepWanted, outcome,
                   cleanup, wireVars, recordVars>>

(* The cleanup cancelled the pump.  A runner in a step may let the          *)
(* cancellation through, raise, or swallow it and still yield an outcome.   *)
PumpCancelled ==
    /\ Stopping
    /\ \/ /\ pump = "idle"
          /\ UNCHANGED <<outcome, losses>>
       \/ /\ pump = "stepping"
          /\ \/ CollectLosses /\ UNCHANGED outcome
             \/ outcome' \in Outcomes \ {"raised"} /\ UNCHANGED losses
    /\ pump' = "closing"
    /\ UNCHANGED <<clientVars, slotVars, supervisor, frame, timers, stepWanted, cleanup,
                   wireVars, recordVars>>

RunnerCloses ==
    /\ pump = "closing"
    /\ pump' = "done"
    /\ CollectLosses
    /\ UNCHANGED <<clientVars, slotVars, supervisor, frame, timers, stepWanted, outcome,
                   cleanup, wireVars, recordVars>>

-----------------------------------------------------------------------------
(* The cleanup: _reap. *)

CleanupStarts ==
    /\ cleanup = "created"
    /\ cleanup' = "stopping"
    /\ UNCHANGED <<clientVars, slotVars, supervisor, frame, timers, pumpVars, wireVars,
                   recordVars>>

CommittableDespiteLoss ==    \* mutant: a loss the close met does not replace the answer
    IF decided # "succeeded" THEN {decided} ELSE {"succeeded"}

(* commit_terminal: a loss replaces the decided ending, and an answer that  *)
(* cannot be encoded or passes the budget is replaced at the commit.        *)
Committable ==
    IF losses # {} THEN {"provider_error"}
    ELSE IF decided # "succeeded" THEN {decided}
    ELSE IF charged >= MaxFrames THEN {"provider_error", "limit_exceeded"}
    ELSE {"provider_error", "succeeded"}

(* run_over without a committed terminal: RunStream.cancellation_terminal   *)
(* unless the runner lost a group or the commit failed.                     *)
Fallback ==
    IF losses # {} \/ decided # Undecided THEN "provider_error"
    ELSE IF sideEffect THEN "interrupted"
    ELSE "cancelled"

Commit(kind) ==
    /\ terminal' = FrameOf(kind)
    /\ seq' = seq + 1
    /\ charged' = IF kind = "succeeded" THEN charged + 1 ELSE charged
    /\ ending' = kind

(* hand_over, commit_terminal and run_over follow one another without an    *)
(* await once the pump is done.                                             *)
CleanupEnds ==
    /\ cleanup = "stopping"
    /\ pump = "done"
    /\ cleanup' = "done"
    /\ place' = IF losses # {} THEN "quarantined" ELSE "free"
    /\ \/ /\ decided # Undecided
          /\ \E kind \in Committable : Commit(kind)
       \/ /\ ending' = Fallback
          /\ UNCHANGED <<seq, charged, terminal>>
    /\ UNCHANGED <<clientVars, slotVars, supervisor, frame, timers, pumpVars, calls, sideEffect,
                   decided, lost>>

-----------------------------------------------------------------------------
Init ==
    /\ response = "sending" /\ taken = StartedFrame
    /\ slot = NoFrame /\ slotClosed = FALSE /\ stall = Never
    /\ supervisor = "new" /\ frame = NoFrame
    /\ heartbeat = HeartbeatInterval /\ maximum = MaxDuration /\ idle = Never
    /\ late = 0
    /\ pump = "idle" /\ stepWanted = FALSE /\ outcome = NoOutcome /\ losses = {}
    /\ cleanup = "none"
    /\ seq = 1 /\ calls = 0 /\ charged = 0 /\ sideEffect = FALSE
    /\ decided = Undecided /\ terminal = NoFrame
    /\ ending = Running /\ lost = NotLost /\ place = "held"

Supervise ==
    \/ SupervisorStarts \/ HandleOutcome \/ Deliver \/ DeliveryDropped
    \/ DeliveryAtTheMaximum \/ AskForStep \/ Beat \/ StalledClientDropped
    \/ SilenceEnds \/ RunnerStopped \/ QueueEnding \/ EndingDropped
    \/ SupervisorCancelled \/ SupervisorDone
StopPump == PumpCancelled \/ RunnerCloses
Reap == CleanupStarts \/ CleanupEnds
Respond == TakeFrame \/ StreamEnds \/ LeaveSupervisor \/ Leave

(* The run is over and left: nothing is left to do. *)
Over == response = "left" /\ UNCHANGED vars

Next ==
    \/ Tick \/ AskForFrame \/ CloseStream \/ Respond \/ Supervise \/ SupervisionFails
    \/ PumpAsksRunner \/ RunnerSteps \/ RunnerEscapes \/ StopPump \/ Reap \/ Over

Spec == Init /\ [][Next]_vars

(* The event loop runs every task that is ready and its clock advances; a   *)
(* cancelled runner ends its step and closes.  Neither the client nor a     *)
(* runner that is not being stopped owes the run anything, and no fault has *)
(* to happen: a supervision that fails ends no wait the deadlines would not. *)
Fairness ==
    /\ WF_vars(Tick) /\ WF_vars(Supervise) /\ WF_vars(PumpAsksRunner)
    /\ WF_vars(StopPump) /\ WF_vars(Reap) /\ WF_vars(Respond)

FairSpec == Spec /\ Fairness

-----------------------------------------------------------------------------
Frames == [seq : Nat, kind : {"none", "started", "event", "heartbeat"} \cup Endings]

(* The types of the state, code behaviour: the attributes of SupervisedRun, *)
(* _FrameSlot, _WireRun and the run's record.                               *)
TypeOK ==
    /\ response \in {"sending", "taking", "leaving", "reaping", "left"}
    /\ taken \in Frames /\ slot \in Frames /\ frame \in Frames /\ terminal \in Frames
    /\ slotClosed \in BOOLEAN /\ stepWanted \in BOOLEAN
    /\ losses \subseteq LostGroups /\ sideEffect \in BOOLEAN
    /\ supervisor \in {"new", "deciding", "delivering", "asking", "ending", "queueing",
                       "unwinding", "done"}
    /\ heartbeat \in 0..HeartbeatInterval
    /\ maximum \in 0..MaxDuration
    /\ idle \in -1..IdleTimeout
    /\ stall \in -1..StallTimeout
    /\ late \in 0 .. 2
    /\ pump \in {"idle", "stepping", "closing", "done"}
    /\ outcome \in Outcomes \cup {NoOutcome}
    /\ cleanup \in {"none", "created", "stopping", "done"}
    /\ seq \in Nat
    /\ calls \in 0..MaxToolCalls
    /\ charged \in 0..MaxFrames
    /\ decided \in {Undecided, "succeeded", "provider_error", "idle_timeout", "limit_exceeded"}
    /\ ending \in Endings \cup {Running}
    /\ lost \in {NotLost, "dropped", "disconnected"}
    /\ place \in {"held", "quarantined", "free"}

(* Every accepted frame is on its way to a client that was not lost: the    *)
(* last one taken, the one in the slot, the one the supervisor holds and    *)
(* the committed terminal carry, without a gap, the last numbers given out. *)
(* Code: the order of _deliver, _end and the one-slot queue.                *)
NoFrameLost ==
    lost = NotLost =>
        {f.seq : f \in {taken, slot, frame, terminal} \ {NoFrame}} = taken.seq .. seq - 1

(* The idle window runs only while the runner owes a step: a client that    *)
(* stalls never makes a busy runner idle.  Code: _idle_due is cleared with  *)
(* every outcome and armed with every request.                              *)
IdleOnlyWhileStepOwed ==
    /\ supervisor = "deciding" => idle # Never
    /\ idle # Never /\ supervisor \in {"deciding", "delivering", "asking"} =>
         stepWanted \/ pump # "idle" \/ OutcomeReady

(* A runner that always has its next outcome ready cannot outrun the        *)
(* maximum: an outcome goes before the deadline it meets, also one that     *)
(* passes while its frame waits for the client, and none comes after it.    *)
(* Code: decide's order, _handle_outcome and _deliver read the clock anew.  *)
OneOutcomePastTheMaximum == late <= 1

(* A stream that ends unlost ends with its terminal taken, and a client not *)
(* told a terminal is recorded as lost before its stream closes.            *)
(* Code: _report_drop, _client_lost_when_closed and _slot.close.            *)
CutStreamIsReported ==
    slotClosed \/ CancelRequested =>
        \/ lost # NotLost
        \/ terminal # NoFrame /\ terminal \in {slot, taken}

(* From the cleanup's first use until the record ends nothing is accepted   *)
(* and no ending is decided, so the answer committed then still carries     *)
(* the next number.  Code: every ending stops the runner before its commit. *)
QuietWhileClosing ==
    [][cleanup # "none" /\ cleanup' # "done"
         => UNCHANGED <<seq, budget, decided>>]_vars

(* No task takes a frame out of turn or after the terminal.                 *)
(* Code: _FrameSlot.take, RunStream's contiguous numbers.                   *)
FramesInOrder ==
    [][taken' # taken => /\ taken'.seq = taken.seq + 1
                         /\ taken.kind \notin Endings]_vars

(* Every run ends, is closed and gives its place up, whatever the client    *)
(* and the runner do.  Code: the maximum, watched wherever the supervisor   *)
(* waits for either.                                                        *)
EveryRunEnds == <>(ending # Running /\ place # "held" /\ supervisor = "done")

(* A client waiting for a frame is answered: a frame, a heartbeat or the    *)
(* stream's end.  Code: _beat, _slot.close in _supervise's finally.         *)
WaitingClientIsAnswered == response = "taking" ~> response # "taking"

-----------------------------------------------------------------------------
(* What the client has been told, in the contract's terms. *)
Told ==
    IF taken.kind \in Endings THEN taken.kind
    ELSE IF response = "left" THEN "cut"
    ELSE "open"

Contract == INSTANCE RunContract WITH
    runner <- IF pump = "done" THEN "closed" ELSE "active",
    loss <- losses # {} /\ pump = "done",
    told <- Told

(* The supervised run keeps the contract of a run. *)
KeepsContract == Contract!ContractSpec
=============================================================================

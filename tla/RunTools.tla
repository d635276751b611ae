------------------------------- MODULE RunTools -------------------------------
(***************************************************************************)
(* The events of a CLI run with tools, from the opening of the tools to    *)
(* the end of the run's record: cli_runner.CliRunner opens the tools       *)
(* (run_tools.RunTools.open), relayed_events.RelayedEvents merges the      *)
(* core's stream with the barrier's events, run_events._WireRun tells the  *)
(* client of them through its RunStream, and RunTools closes barrier,      *)
(* reap, forwards and relay in order.  The service that asks for the       *)
(* events is the pump of SupervisedRun.tla; the CLI makes, cancels and     *)
(* cuts calls as it likes.                                                 *)
(***************************************************************************)
EXTENDS ToolBarrier, RunStream

ASSUME StreamAssumption == SideEffecting \subseteq Calls

VARIABLES
    tools,      \* none, entered (the app's client), started (the relay), launched, left
    coreStep,   \* _core_step: none, running, or what it ended with
    merger,     \* new, entering, listing, starting, waiting in __anext__, yielded, over
    held,       \* the event yielded last, _unaccepted when it is the barrier's
    stream,     \* _WireRun._stream
    answered,   \* _decided is a success
    closing,    \* open, aborting, created, reaping, settling, leaving, closed
    ending      \* the ending in the run's record

runVars == <<tools, coreStep, merger, held, stream, answered, closing, ending>>
serviceVars == <<stream, answered, ending>>
vars == <<barrierVars, runVars>>

CoreOutcomes == {"text", "tool_line", "final", "ended"}    \* ended, or raised
CoreEvent(kind) == [kind |-> kind]

-----------------------------------------------------------------------------
(* The pump's first step begins the generator: the profile's token file is  *)
(* read, which may fail, and the app's client is entered.                   *)
RunBegins ==
    /\ merger = "new"
    /\ \/ merger' = "entering" /\ UNCHANGED closing
       \/ merger' = "over" /\ closing' = "closed"
    /\ UNCHANGED <<barrierVars, tools, coreStep, held, serviceVars>>

(* open_app_tools is entered, or fails, or is cancelled: nothing to leave. *)
ClientEntered ==
    /\ merger = "entering"
    /\ \/ merger' = "listing" /\ tools' = "entered" /\ UNCHANGED closing
       \/ merger' = "over" /\ closing' = "closed" /\ UNCHANGED tools
    /\ UNCHANGED <<barrierVars, coreStep, held, serviceVars>>

ToolsListed ==
    /\ merger = "listing"
    /\ merger' = "starting"
    /\ UNCHANGED <<barrierVars, tools, coreStep, held, serviceVars, closing>>

(* Relay.start returned.  The adapter is made, which may fail, and the core *)
(* is asked for its first event, without an await between.                  *)
RelayStarted ==
    /\ merger = "starting"
    /\ \/ /\ tools' = "launched" /\ merger' = "waiting"
          /\ reader' = "checking" /\ coreStep' = "running"
          /\ UNCHANGED closing
       \/ /\ tools' = "started" /\ merger' = "over" /\ closing' = "created"
          /\ UNCHANGED <<reader, coreStep>>
    /\ UNCHANGED <<callVars, response, outcome, ready, handedOut, forwards, changed, flags, held,
                   serviceVars>>

(* The tool list or the relay's start fails, or the pump's step is          *)
(* cancelled: the client that was entered is left, and that is waited for.  *)
OpeningFails ==
    /\ merger \in {"listing", "starting"}
    /\ merger' = "over"
    /\ closing' = "aborting"
    /\ UNCHANGED <<barrierVars, tools, coreStep, held, serviceVars>>

(* _leave_client ended, or UPSTREAM_ABORT_SECONDS passed. *)
ClientLeft ==
    /\ closing = "aborting"
    /\ tools' = "left"
    /\ closing' = "closed"
    /\ UNCHANGED <<barrierVars, coreStep, merger, held, serviceVars>>

-----------------------------------------------------------------------------
(* The CLI, which the core's first step launches, and the relay, whose      *)
(* connections are served until its close.                                 *)
CliActs ==
    /\ tools = "launched"
    /\ \/ \E c \in Calls : CancelCall(c) \/ CutCall(c) \/ \E i \in RequestIds : Call(c, i)
       \/ CallUnoffered \/ AnswerReflects
    /\ UNCHANGED runVars

AnswerCall(c) == CallReturns(c) /\ UNCHANGED runVars

AppAnswers(c) == ForwardEnds(c) /\ UNCHANGED runVars

-----------------------------------------------------------------------------
(* Of the barrier's events and the final: it was given to the client. *)
Sent(e) == \/ e.kind = "call" /\ e.call \in stream.calls
           \/ e.kind = "result" /\ e.call \in stream.answered
           \/ e.kind = "final" /\ answered

(* _WireRun takes the yielded event: RunStream accepts it and it is sent; a *)
(* final only decides.  An event it refuses ends the run (ServiceCloses).   *)
EventSent ==
    /\ merger = "yielded" /\ closing = "open"
    /\ held.kind # "text" /\ ~Sent(held)
    /\ IF held.kind = "final"
         THEN answered' = TRUE /\ UNCHANGED stream
         ELSE Keeps(stream, held) /\ stream' = Record(stream, held) /\ UNCHANGED answered
    /\ UNCHANGED <<barrierVars, tools, coreStep, merger, held, closing, ending>>

(* The service asks for the next event: __anext__ accepts the one it went   *)
(* on from and starts the steps that are not under way.                     *)
AskNext ==
    /\ closing = "open"
    /\ merger = "yielded"
    /\ held.kind = "text" \/ (held \in RelayEvents /\ Sent(held))
    /\ IF held \in RelayEvents
         THEN Accept(held)
         ELSE UNCHANGED <<callVars, response, outcome, ready, handedOut, forwards, changed, flags>>
    /\ reader' = IF reader = "none" THEN "checking" ELSE reader
    /\ coreStep' = IF coreStep = "none" THEN "running" ELSE coreStep
    /\ merger' = "waiting"
    /\ held' = Nothing
    /\ UNCHANGED <<tools, serviceVars, closing>>

CoreSteps ==
    /\ coreStep = "running"
    /\ coreStep' \in CoreOutcomes
    /\ UNCHANGED <<barrierVars, tools, merger, held, serviceVars, closing>>

ReadEvents ==
    /\ NextEvent \/ ReaderWakes
    /\ UNCHANGED runVars

(* The barrier's event comes before the core's when both are ready. *)
TakeRelayEvent ==
    /\ merger = "waiting" /\ closing = "open"
    /\ reader = "done"
    /\ reader' = "none"
    /\ merger' = "yielded"
    /\ held' = handedOut
    /\ UNCHANGED <<callVars, response, outcome, ready, handedOut, forwards, changed, flags, tools,
                   coreStep, serviceVars, closing>>

BarrierIdleAtAnyReflection ==    \* mutant: only queued events are looked at
    /\ reader \notin {"done", "failed"}
    /\ \A i \in DOMAIN ready : ~Live(ready[i])
    /\ coreStep = "final" => forwards = {}

(* The last look before a core event is returned, no await after it. *)
BarrierIdle ==
    /\ reader \notin {"done", "failed"}
    /\ ~HasReadyEvent
    /\ coreStep = "final" => forwards = {}

(* The CLI's own tool lines are dropped. *)
TakeCoreEvent ==
    /\ merger = "waiting" /\ closing = "open"
    /\ coreStep \in {"text", "tool_line", "final"}
    /\ BarrierIdle
    /\ IF coreStep = "tool_line"
         THEN coreStep' = "running" /\ UNCHANGED <<merger, held>>
         ELSE /\ coreStep' = "none"
              /\ merger' = "yielded"
              /\ held' = CoreEvent(coreStep)
    /\ UNCHANGED <<barrierVars, tools, serviceVars, closing>>

(* The merged source is over or failed: CliRunner's finally begins. *)
SourceEnds ==
    /\ merger = "waiting" /\ closing = "open"
    /\ \/ reader = "failed"
       \/ coreStep = "ended" /\ BarrierIdle
    /\ merger' = "over"
    /\ closing' = "created"
    /\ UNCHANGED <<barrierVars, tools, coreStep, held, serviceVars>>

(* The service closes the generator, at a yield or while it waits: a        *)
(* deadline, a lost client, a refused event, or the answer was decided.     *)
(* A generator that was not begun has nothing to close.                     *)
ServiceCloses ==
    /\ closing = "open" /\ merger \in {"new", "waiting", "yielded"}
    /\ merger' = "over"
    /\ closing' = IF merger = "new" THEN "closed" ELSE "created"
    /\ UNCHANGED <<barrierVars, tools, coreStep, held, serviceVars>>

(* The cleanup's commit and run_over, once the runner is closed: a decided  *)
(* answer, or a failure in its place or a lost group's; without a decision  *)
(* the ending that RunStream says is due.                                   *)
RecordEnds ==
    /\ closing = "closed" /\ ending = NoTerminal
    /\ ending' \in {"failed"} \cup (IF answered THEN {"succeeded"} ELSE {DueCutShortEnding(stream)})
    /\ stream' = IF Keeps(stream, CoreEvent(ending')) THEN Record(stream, CoreEvent(ending'))
                                                     ELSE stream
    /\ UNCHANGED <<barrierVars, tools, coreStep, merger, held, answered, closing>>

-----------------------------------------------------------------------------
(* RunTools._close_once: the barrier stops and, without an await between,   *)
(* RelayedEvents.close cancels both steps.  An event still held is never    *)
(* accepted.                                                                *)
CloseBegins ==
    /\ closing = "created"
    /\ Stop
    /\ reader' = "none"
    /\ coreStep' = "none"
    /\ closing' = "reaping"
    /\ held' = IF held.kind = "final" THEN held ELSE Nothing
    /\ UNCHANGED <<tools, merger, serviceVars>>

(* The core closed, with or without a loss; the forwards are cancelled now. *)
Reaped ==
    /\ closing = "reaping"
    /\ closing' = "settling"
    /\ UNCHANGED <<barrierVars, tools, coreStep, merger, held, serviceVars>>

ForwardAborted(c) ==
    /\ closing \in {"settling", "leaving", "closed"}
    /\ ForwardCancelled(c)
    /\ UNCHANGED runVars

SettlesOnly ==                   \* mutant: settle() is awaited without a bound
    /\ closing = "settling"
    /\ forwards = {}
    /\ closing' = "leaving"
    /\ UNCHANGED <<barrierVars, tools, coreStep, merger, held, serviceVars>>

(* Every forward ended, or UPSTREAM_CLOSE_SECONDS passed. *)
SettlingEnds ==
    /\ closing = "settling"
    /\ closing' = "leaving"
    /\ UNCHANGED <<barrierVars, tools, coreStep, merger, held, serviceVars>>

(* The app's client is left; the relay's close cancels every connection. *)
RelayCloses ==
    /\ closing = "leaving"
    /\ closing' = "closed"
    /\ tools' = "left"
    /\ task' = [c \in Calls |-> IF task[c] = "waiting" THEN "cut" ELSE task[c]]
    /\ response' = [c \in Calls |-> IF task[c] = "waiting" /\ response[c] = "open"
                                      THEN "cancelled" ELSE response[c]]
    /\ UNCHANGED <<requestId, cancelledByCli, pending, outcome, ready, handedOut, reader,
                   forwards, changed, flags, coreStep, merger, held, serviceVars>>

Closed ==
    /\ ending # NoTerminal /\ \A c \in Calls : task[c] \in {"new", "returned"}
    /\ UNCHANGED vars

-----------------------------------------------------------------------------
Init ==
    /\ BarrierInit
    /\ tools = "none" /\ coreStep = "none" /\ merger = "new" /\ held = Nothing
    /\ stream = NewStream /\ answered = FALSE
    /\ closing = "open" /\ ending = NoTerminal

Open == RunBegins \/ ClientEntered \/ ToolsListed \/ RelayStarted \/ OpeningFails
Merge == TakeRelayEvent \/ TakeCoreEvent \/ SourceEnds
Close == CloseBegins \/ Reaped \/ SettlingEnds \/ RelayCloses \/ ClientLeft
Serve == EventSent \/ AskNext

Next ==
    \/ Open \/ CliActs \/ Serve \/ CoreSteps \/ ReadEvents \/ Merge \/ ServiceCloses \/ Close
    \/ \E c \in Calls : AnswerCall(c) \/ AppAnswers(c) \/ ForwardAborted(c)
    \/ RecordEnds \/ Closed

Spec == Init /\ [][Next]_vars

(* The event loop runs every task that is ready, and the service goes on    *)
(* past an event or closes.  Nothing is asked of the CLI, of the core, or   *)
(* of the app, whose answer is read without a timeout.                      *)
Fairness ==
    /\ WF_vars(Serve) /\ WF_vars(ReadEvents) /\ WF_vars(Merge) /\ WF_vars(Close)
    /\ \A c \in Calls : WF_vars(AnswerCall(c))

FairSpec == Spec /\ Fairness

-----------------------------------------------------------------------------
(* The types of the state.  Code: the fields of ToolCallBarrier,            *)
(* RelayedEvents and RunTools.                                              *)
TypeOK ==
    /\ task \in [Calls -> {"new", "waiting", "cut", "returned"}]
    /\ requestId \in [Calls -> RequestIds \cup {NoId}]
    /\ response \in [Calls -> {"none", "open", "replied", "refused", "unanswered", "cancelled"}]
    /\ cancelledByCli \subseteq Calls /\ outcome \subseteq Calls /\ forwards \subseteq Calls
    /\ ready \in Seq(RelayEvents)
    /\ handedOut \in RelayEvents \cup {Nothing}
    /\ reader \in {"none", "checking", "asleep", "done", "failed"}
    /\ {changed, stopped, unoffered, reflected, refused} \subseteq BOOLEAN
    /\ tools \in {"none", "entered", "started", "launched", "left"}
    /\ coreStep \in {"none", "running"} \cup CoreOutcomes
    /\ merger \in {"new", "entering", "listing", "starting", "waiting", "yielded", "over"}
    /\ held \in RelayEvents \cup {Nothing, CoreEvent("text"), CoreEvent("final")}
    /\ stream.answered \subseteq stream.calls /\ stream.calls \subseteq Calls
    /\ answered \in BOOLEAN
    /\ closing \in {"open", "aborting", "created", "reaping", "settling", "leaving", "closed"}
    /\ ending \in Terminals \cup {NoTerminal} /\ stream.terminal \in {NoTerminal, ending}

Owed(c) ==
    {<<"held", 0>> : e \in {held} \cap {CallEvent(c)}}
      \cup {<<"forward", 0>> : d \in forwards \cap {c}}
      \cup {<<"ready", i>> : i \in {j \in DOMAIN ready : ready[j] = ResultEvent(c)}}
      \cup {<<"out", 0>> : e \in {handedOut} \cap {ResultEvent(c)}}

(* No call is left in the air, whoever gave it up and when.  Its slot is    *)
(* held from its admission until its call() returns or the CLI cancels it,  *)
(* under an id of its own and within the bound.  Exactly one thing stands   *)
(* for the result of a call the service was told of: its event not accepted *)
(* yet, its forward, or its one queued or handed-out result.  And after the *)
(* stop no call waits for an answer nobody will give, also one that comes   *)
(* on a connection still open.  Code: call, accept, _completed,             *)
(* _drop_queued_call, stop and _admits.                                     *)
EveryCallIsAccountedFor ==
    /\ TypeOK
    /\ pending = {c \in Calls : task[c] \in {"waiting", "cut"}} \ cancelledByCli
    /\ Cardinality(pending) <= MaxPending
    /\ \A c, d \in pending : requestId[c] = requestId[d] => c = d
    /\ ~stopped /\ ~reflected =>
          \A c \in Calls : Cardinality(Owed(c)) =
              IF c \in stream.calls \ stream.answered \/ held \in {CallEvent(c), ResultEvent(c)}
                THEN 1 ELSE 0
    /\ stopped => \A c \in Calls : response[c] # "open"

(* What is on its way to the client, and what it was told. *)
InHand == {held, handedOut} \ {Nothing}
ToldEvents ==
    {CallEvent(c) : c \in stream.calls} \cup {ResultEvent(c) : c \in stream.answered}
      \cup (IF answered THEN {CoreEvent("final")} ELSE {})

(* Once the capability was seen in an answer, the client is told nothing    *)
(* but an event that was on its way to it before: none is handed out or     *)
(* yielded after it, though the reader slept, an event waits in the queue   *)
(* or the core's final is ready, above all no final.  Code: reflected(),    *)
(* _require_usable, has_ready_event.                                        *)
NothingAfterReflection ==
    [][reflected => /\ InHand' \subseteq InHand
                    /\ ToldEvents' \ ToldEvents \subseteq InHand]_vars

(* An answer that is ready is given once no call runs, unless the run is    *)
(* closed or another call starts.                                           *)
AnswerIsReleased ==
    coreStep = "final" /\ forwards = {} ~>
        held = CoreEvent("final") \/ closing # "open" \/ forwards # {}

(* A reflection ends the run, unless the answer went out before.            *)
ReflectionEndsTheRun == reflected ~> closing # "open" \/ held = CoreEvent("final")

(* The merger's wait for core and barrier ends: with the answer once no     *)
(* call runs, with the failure of the run once the capability was seen in   *)
(* an answer, also when the reader sleeps.  Code: the wait of               *)
(* RelayedEvents.__anext__ and the wake-ups of next_event.                  *)
MergerMovesOn == AnswerIsReleased /\ ReflectionEndsTheRun

(* A close that began ends, and so does an opening that failed: the app's   *)
(* client, once entered, is left, and every call returns, though a forward  *)
(* hangs.  Code: RunTools.open, RunTools._close_once and its bounds,        *)
(* Relay._close_once.                                                       *)
CloseEndsEveryCall ==
    closing # "open" ~> /\ closing = "closed" /\ tools \in {"none", "left"}
                        /\ \A c \in Calls : task[c] \in {"new", "returned"}

-----------------------------------------------------------------------------
Contract == INSTANCE ToolCallContract WITH
    holds <- IF held # Nothing /\ Sent(held) THEN held ELSE Nothing,
    told <- [c \in Calls |-> IF c \in stream.answered THEN "result"
                             ELSE IF c \in stream.calls THEN "call" ELSE "nothing"],
    running <- forwards,
    ran <- outcome,
    released <- {c \in Calls : response[c] = "replied"}

(* Barrier, merger and wire keep the contract of the tool calls, up to the  *)
(* ending of the record: a run in which a side-effecting call may have run  *)
(* is never recorded as cancelled, whenever it was cut.                     *)
KeepsToolContract == Contract!ContractSpec
=============================================================================

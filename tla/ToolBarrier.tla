----------------------------- MODULE ToolBarrier -----------------------------
(***************************************************************************)
(* tool_relay.ToolCallBarrier: the pending tool calls of a run, the task   *)
(* next_event() that hands their events out, and the forwards to the app.  *)
(* It also has what McpRelayOwner reports to it.  RunTools.tla composes it *)
(* with the merger of the run's events and with the close.                 *)
(***************************************************************************)
EXTENDS Naturals, FiniteSets, SequencesExt

CONSTANTS Calls,        \* the tools/call requests the CLI makes
          RequestIds,   \* the JSON-RPC ids it gives them, used again at will
          MaxPending    \* MAX_PENDING_TOOL_CALLS

ASSUME BarrierAssumption ==
    /\ MaxPending \in Nat \ {0}
    /\ IsFiniteSet(Calls)

VARIABLES
    task,            \* the task running call(): new, waiting, cut, returned
    requestId,       \* the id of a call that was made
    response,        \* its response future, or none before it is made
    cancelledByCli,  \* the calls with cancelled_by_cli
    pending,         \* _pending: the calls that hold a slot
    outcome,         \* the calls whose forward's outcome was recorded
    ready,           \* _ready
    handedOut,       \* _handed_out
    reader,          \* next_event(): none, checking, asleep, done, failed
    forwards,        \* _forwards: the calls that run at the app
    changed,         \* the event _changed
    stopped, unoffered, reflected,
    refused          \* _refused of the McpRelayOwner: it answers nothing any more

barrierVars == <<task, requestId, response, cancelledByCli, pending, outcome, ready,
                 handedOut, reader, forwards, changed, stopped, unoffered, reflected, refused>>
callVars == <<task, requestId, cancelledByCli, pending>>
flags == <<stopped, unoffered, reflected, refused>>

NoId == "no_id"
Nothing == [kind |-> "nothing"]
CallEvent(c) == [kind |-> "call", call |-> c]
ResultEvent(c) == [kind |-> "result", call |-> c]
RelayEvents == {CallEvent(c) : c \in Calls} \cup {ResultEvent(c) : c \in Calls}

-----------------------------------------------------------------------------
(* _PendingCall.given_up *)
GivenUp(c) == c \in cancelledByCli \/ response[c] \in {"cancelled", "unanswered"}

(* _resolve: a response is resolved once. *)
Resolved(c, answer) == [response EXCEPT ![c] = IF @ = "open" THEN answer ELSE @]

(* A queued event that is handed out: a result always, a call while wanted. *)
Live(e) == e.kind = "result" \/ ~GivenUp(e.call)

HasReadyEvent == unoffered \/ reflected \/ \E i \in DOMAIN ready : Live(ready[i])

(* _drop_queued_call: the call's own event, queued once, leaves the queue. *)
Dropped(c) == RemoveFirst(ready, CallEvent(c))

Admits(i) ==
    /\ ~stopped
    /\ Cardinality(pending) < MaxPending
    /\ \A c \in pending : requestId[c] # i

-----------------------------------------------------------------------------
(* call(): admission, or the refusal -32602 without a future. *)
Call(c, i) ==
    /\ ~refused
    /\ task[c] = "new"
    /\ requestId' = [requestId EXCEPT ![c] = i]
    /\ IF Admits(i)
         THEN /\ task' = [task EXCEPT ![c] = "waiting"]
              /\ response' = [response EXCEPT ![c] = "open"]
              /\ pending' = pending \cup {c}
              /\ ready' = Append(ready, CallEvent(c))
              /\ changed' = TRUE
         ELSE /\ task' = [task EXCEPT ![c] = "returned"]
              /\ response' = [response EXCEPT ![c] = "refused"]
              /\ UNCHANGED <<pending, ready, changed>>
    /\ UNCHANGED <<cancelledByCli, outcome, handedOut, reader, forwards, flags>>

(* call() returns or raises its cancellation; _end frees the slot. *)
CallReturns(c) ==
    /\ task[c] \in {"waiting", "cut"}
    /\ response[c] # "open"
    /\ task' = [task EXCEPT ![c] = "returned"]
    /\ pending' = pending \ {c}
    /\ ready' = Dropped(c)
    /\ UNCHANGED <<requestId, response, cancelledByCli, outcome, handedOut, reader,
                   forwards, changed, flags>>

(* notifications/cancelled: cancel() of the pending call with the id. *)
CancelCall(c) ==
    /\ ~refused
    /\ c \in pending
    /\ pending' = pending \ {c}
    /\ ready' = Dropped(c)
    /\ cancelledByCli' = cancelledByCli \cup {c}
    /\ response' = Resolved(c, "unanswered")
    /\ UNCHANGED <<task, requestId, outcome, handedOut, reader, forwards, changed, flags>>

(* The CLI closes the connection of the call: the task running call() is    *)
(* cancelled, which cancels a response that is still open.                  *)
CutCall(c) ==
    /\ task[c] = "waiting"
    /\ task' = [task EXCEPT ![c] = "cut"]
    /\ response' = Resolved(c, "cancelled")
    /\ UNCHANGED <<requestId, cancelledByCli, pending, outcome, ready, handedOut, reader,
                   forwards, changed, flags>>

(* The owner met a tool it never offered. *)
CallUnoffered ==
    /\ ~refused
    /\ unoffered' = TRUE
    /\ changed' = TRUE
    /\ UNCHANGED <<callVars, response, outcome, ready, handedOut, reader, forwards, stopped,
                   reflected, refused>>

(* _cleared_for_cli: an answer of the owner's carries the capability. *)
AnswerReflects ==
    /\ ~refused
    /\ refused' = TRUE
    /\ reflected' = TRUE
    /\ changed' = TRUE
    /\ UNCHANGED <<callVars, response, outcome, ready, handedOut, reader, forwards, stopped,
                   unoffered>>

-----------------------------------------------------------------------------
(* next_event(): one check, without an await between it and what follows.  *)
FirstLive == CHOOSE i \in DOMAIN ready : Live(ready[i]) /\ \A j \in 1..(i - 1) : ~Live(ready[j])

NextEventWhateverReflects ==     \* mutant: next_event misses that the owner refused
    /\ reader = "checking"
    /\ IF handedOut # Nothing \/ unoffered \/ stopped
         THEN reader' = "failed" /\ UNCHANGED <<handedOut, ready, changed>>
       ELSE IF \E i \in DOMAIN ready : Live(ready[i])
         THEN /\ handedOut' = ready[FirstLive]
              /\ ready' = SubSeq(ready, FirstLive + 1, Len(ready))
              /\ reader' = "done"
              /\ UNCHANGED changed
       ELSE /\ ready' = <<>>
            /\ changed' = FALSE
            /\ reader' = "asleep"
            /\ UNCHANGED handedOut
    /\ UNCHANGED <<callVars, response, outcome, forwards, flags>>

NextEvent ==
    /\ reader = "checking"
    /\ IF handedOut # Nothing \/ unoffered \/ reflected \/ stopped
         THEN reader' = "failed" /\ UNCHANGED <<handedOut, ready, changed>>
       ELSE IF \E i \in DOMAIN ready : Live(ready[i])
         THEN /\ handedOut' = ready[FirstLive]
              /\ ready' = SubSeq(ready, FirstLive + 1, Len(ready))
              /\ reader' = "done"
              /\ UNCHANGED changed
       ELSE /\ ready' = <<>>
            /\ changed' = FALSE
            /\ reader' = "asleep"
            /\ UNCHANGED handedOut
    /\ UNCHANGED <<callVars, response, outcome, forwards, flags>>

ReaderWakes ==
    /\ reader = "asleep"
    /\ changed
    /\ reader' = "checking"
    /\ UNCHANGED <<callVars, response, outcome, ready, handedOut, forwards, changed, flags>>

AcceptForgettingGivenUp(e) ==    \* mutant: a call given up meanwhile gets no result
    /\ handedOut = e
    /\ handedOut' = Nothing
    /\ IF e.kind = "call"
         THEN /\ forwards' = IF GivenUp(e.call) THEN forwards ELSE forwards \cup {e.call}
              /\ UNCHANGED <<response, ready>>
         ELSE /\ response' = IF e.call \in outcome THEN Resolved(e.call, "replied") ELSE response
              /\ UNCHANGED <<ready, forwards>>
    /\ UNCHANGED <<callVars, outcome, changed, flags>>

(* accept(): the service resumed the run past the event.  A call is         *)
(* forwarded, or answered for the transcript if it was given up meanwhile;  *)
(* a result releases the reply.                                             *)
Accept(e) ==
    /\ handedOut = e
    /\ handedOut' = Nothing
    /\ CASE e.kind = "result" ->
              /\ response' = IF e.call \in outcome THEN Resolved(e.call, "replied") ELSE response
              /\ UNCHANGED <<ready, forwards>>
         [] e.kind = "call" /\ GivenUp(e.call) ->
              /\ ready' = <<ResultEvent(e.call)>> \o ready
              /\ UNCHANGED <<response, forwards>>
         [] OTHER ->
              /\ forwards' = forwards \cup {e.call}
              /\ UNCHANGED <<response, ready>>
    /\ UNCHANGED <<callVars, outcome, changed, flags>>

-----------------------------------------------------------------------------
QueueResultReleasing(c) ==       \* mutant: the reply leaves when the forward ends
    /\ outcome' = outcome \cup {c}
    /\ response' = Resolved(c, "replied")
    /\ ready' = Append(ready, ResultEvent(c))
    /\ changed' = TRUE
    /\ UNCHANGED reflected

QueueResultUnnoticed(c) ==       \* mutant: the reader is not woken
    /\ outcome' = outcome \cup {c}
    /\ ready' = Append(ready, ResultEvent(c))
    /\ UNCHANGED <<response, changed, reflected>>

(* _queue_result: an outcome or a failure becomes the call's one result. *)
QueueResult(c) ==
    /\ outcome' = outcome \cup {c}
    /\ ready' = Append(ready, ResultEvent(c))
    /\ changed' = TRUE
    /\ UNCHANGED <<response, reflected>>

RefuseOutcomeUnnoticed(c) ==     \* mutant: the reader is not woken
    /\ reflected' = TRUE
    /\ response' = Resolved(c, "unanswered")
    /\ UNCHANGED <<outcome, ready, changed>>

(* The outcome carries the capability: neither an event nor a reply. *)
RefuseOutcome(c) ==
    /\ reflected' = TRUE
    /\ response' = Resolved(c, "unanswered")
    /\ changed' = TRUE
    /\ UNCHANGED <<outcome, ready>>

(* _completed: the forward's task ended, whoever still waits for it. *)
ForwardEnds(c) ==
    /\ c \in forwards
    /\ forwards' = forwards \ {c}
    /\ QueueResult(c) \/ RefuseOutcome(c)
    /\ UNCHANGED <<callVars, handedOut, reader, stopped, unoffered, refused>>

(* A forward that let abort_forwards cancel it. *)
ForwardCancelled(c) ==
    /\ c \in forwards
    /\ forwards' = forwards \ {c}
    /\ response' = Resolved(c, "unanswered")
    /\ UNCHANGED <<callVars, outcome, ready, handedOut, reader, changed, flags>>

(* stop(): every pending call is refused; the queue is of no use any more. *)
Stop ==
    /\ stopped' = TRUE
    /\ response' = [c \in Calls |-> IF c \in pending /\ response[c] = "open"
                                      THEN "refused" ELSE response[c]]
    /\ ready' = <<>>
    /\ handedOut' = Nothing
    /\ changed' = TRUE
    /\ UNCHANGED <<callVars, outcome, forwards, unoffered, reflected, refused>>

BarrierInit ==
    /\ task = [c \in Calls |-> "new"]
    /\ requestId = [c \in Calls |-> NoId]
    /\ response = [c \in Calls |-> "none"]
    /\ cancelledByCli = {} /\ pending = {} /\ outcome = {}
    /\ ready = <<>> /\ handedOut = Nothing /\ reader = "none"
    /\ forwards = {}
    /\ changed = FALSE /\ stopped = FALSE
    /\ unoffered = FALSE /\ reflected = FALSE /\ refused = FALSE
=============================================================================

------------------------------ MODULE ToolRelay ------------------------------
(***************************************************************************)
(* The loopback listener of a run's tools (tool_relay.Relay): a task per   *)
(* connection reads requests under deadlines, hands the admitted ones to   *)
(* the owner (McpRelayOwner over ToolBarrier) and watches meanwhile for    *)
(* the client's end; one close cuts and cancels them all.                  *)
(*                                                                         *)
(* A request is three pieces of bytes, <<number, part, kind>>: the first   *)
(* of its head, the rest of its head, its body.                            *)
(***************************************************************************)
EXTENDS Integers, FiniteSets, SequencesExt

CONSTANTS
    Conns,
    MaxConnections,     \* MAX_RELAY_CONNECTIONS
    MaxPipelined,       \* MAX_PIPELINED_BYTES, in pieces
    MaxRequests         \* bound: the requests a client sends on a connection

ASSUME RelayAssumption == MaxConnections \in Nat \ {0} /\ {MaxPipelined, MaxRequests} \subseteq Nat

\* A call, also one that declares both framings; a head refused without a body,
\* after which the connection may stay; one refused otherwise, or malformed.
Kinds == {"call", "mixed", "bodyless", "refused"}

VARIABLES
    sent,       \* what the client sent
    wire,       \* of that, what nobody read yet
    ended,      \* "no", the client's "fin", or "cut" by either side
    phase,      \* where a connection's task stands
    buffer,     \* what its parser holds unparsed
    taken,      \* what was parsed (history)
    timer,      \* the receive deadline: "off", "running", or its instant passed
    owner,      \* the pending answer: its task
    watch,      \* the watch beside it: "off", "on", or what end it saw
    cancelled,  \* the close cancelled the task
    keep,       \* the connection goes on after this answer
    answers,    \* the requests answered (history)
    withdrawn,  \* those whose end or close came before their answer (history)
    closing, attempt, closed, snapshot

clientVars == <<sent, wire, ended>>
answerVars == <<owner, watch, keep>>
historyVars == <<taken, answers, withdrawn>>
relayVars == <<closing, attempt, closed, snapshot>>
vars == <<clientVars, phase, buffer, timer, answerVars, cancelled, historyVars, relayVars>>

Tracked == {c \in Conns : phase[c] \notin {"none", "done"}}
Finished == {"answered", "unanswered", "cancelled"}
Request(c) == Last(taken[c])

Init ==
    /\ sent = [c \in Conns |-> <<>>] /\ wire = sent /\ buffer = sent
    /\ taken = sent /\ answers = sent
    /\ ended = [c \in Conns |-> "no"]
    /\ phase = [c \in Conns |-> "none"]
    /\ timer = [c \in Conns |-> "off"]
    /\ owner = [c \in Conns |-> "none"]
    /\ watch = [c \in Conns |-> "off"]
    /\ cancelled = [c \in Conns |-> FALSE]
    /\ keep = [c \in Conns |-> TRUE]
    /\ withdrawn = [c \in Conns |-> {}]
    /\ closing = FALSE /\ attempt = "none" /\ closed = FALSE /\ snapshot = {}

----------------------------------------------------------------------------
\* The client.  It need not wait for an answer before it sends on.
NextPieces(c) ==
    LET last == IF sent[c] = <<>> THEN <<0, "body", "call">> ELSE Last(sent[c])
    IN CASE last[2] = "start" -> {<<last[1], "head", last[3]>>}
         [] last[2] = "head" /\ last[3] \in {"call", "mixed"} -> {<<last[1], "body", last[3]>>}
         [] OTHER -> {<<last[1] + 1, "start", kind>> : kind \in Kinds}

ClientSends(c) ==
    /\ c \in Tracked
    /\ ended[c] = "no"
    /\ \E piece \in NextPieces(c) :
          /\ piece[1] <= MaxRequests
          /\ sent' = [sent EXCEPT ![c] = Append(@, piece)]
          /\ wire' = [wire EXCEPT ![c] = Append(@, piece)]
    /\ UNCHANGED <<ended, phase, buffer, timer, answerVars, cancelled, historyVars, relayVars>>

ClientLeaves(c) ==
    /\ c \in Tracked
    /\ ended[c] = "no"
    /\ \/ ended' = [ended EXCEPT ![c] = "fin"] /\ UNCHANGED wire
       \/ ended' = [ended EXCEPT ![c] = "cut"] /\ wire' = [wire EXCEPT ![c] = <<>>]
    /\ UNCHANGED <<sent, phase, buffer, timer, answerVars, cancelled, historyVars, relayVars>>

----------------------------------------------------------------------------
\* A mutant: an accept that runs after the close began is served.
AcceptsWhileClosing == Cardinality(Tracked) < MaxConnections

Accepts == ~closing /\ Cardinality(Tracked) < MaxConnections

\* A connection too many, or one that comes as the relay closes, is aborted.
Connects(c) ==
    /\ phase[c] = "none"
    /\ phase' = [phase EXCEPT ![c] = IF Accepts THEN "head" ELSE "done"]
    /\ UNCHANGED <<clientVars, buffer, timer, answerVars, cancelled, historyVars, relayVars>>

\* The task ends; what the connection held goes with it.
Ends(c) ==
    /\ phase' = [phase EXCEPT ![c] = "done"]
    /\ timer' = [timer EXCEPT ![c] = "off"]
    /\ owner' = [owner EXCEPT ![c] = "none"]
    /\ watch' = [watch EXCEPT ![c] = "off"]
    /\ keep' = [keep EXCEPT ![c] = TRUE]
    /\ sent' = [sent EXCEPT ![c] = <<>>] /\ wire' = [wire EXCEPT ![c] = <<>>]
    /\ buffer' = [buffer EXCEPT ![c] = <<>>] /\ taken' = [taken EXCEPT ![c] = <<>>]
    /\ answers' = [answers EXCEPT ![c] = <<>>] /\ withdrawn' = [withdrawn EXCEPT ![c] = {}]
    /\ ended' = [ended EXCEPT ![c] = "cut"]
    /\ UNCHANGED <<cancelled, relayVars>>

\* A cancelled task meets its cancellation at the await it stands at.
Runs(c, where) == phase[c] = where /\ ~cancelled[c]

Receiving(c) == Runs(c, "head") \/ Runs(c, "body")

\* The parser has the whole head, or the whole body, that is being read.
CanParse(c) ==
    IF phase[c] = "head" THEN Len(buffer[c]) >= 2
    ELSE phase[c] = "body" /\ buffer[c] # <<>>

\* The next bytes, of which the first start the deadline.
ReadsMore(c) ==
    /\ Receiving(c)
    /\ timer[c] # "over"
    /\ ~CanParse(c)
    /\ \E n \in 1 .. Len(wire[c]) :
          /\ buffer' = [buffer EXCEPT ![c] = @ \o SubSeq(wire[c], 1, n)]
          /\ wire' = [wire EXCEPT ![c] = SubSeq(@, n + 1, Len(@))]
    /\ timer' = [timer EXCEPT ![c] = "running"]
    /\ UNCHANGED <<sent, ended, phase, answerVars, cancelled, historyVars, relayVars>>

\* The client is gone, or the deadline's instant passed before the bytes in hand
\* were looked at.
StopsReading(c) ==
    /\ Receiving(c)
    /\ \/ ~CanParse(c) /\ wire[c] = <<>> /\ ended[c] # "no"
       \/ timer[c] = "over" /\ (CanParse(c) \/ wire[c] # <<>> \/ ended[c] # "no")
    /\ Ends(c)

Writes(c, goesOn, request) ==
    /\ answers' = [answers EXCEPT ![c] = Append(@, request[1])]
    /\ phase' = [phase EXCEPT ![c] = "writing"]
    /\ keep' = [keep EXCEPT ![c] = goesOn]
    /\ owner' = [owner EXCEPT ![c] = "none"]
    /\ watch' = [watch EXCEPT ![c] = "off"]
    /\ timer' = [timer EXCEPT ![c] = "off"]

TakesHead(c) ==
    LET head == buffer[c][2]
    IN /\ Runs(c, "head")
       /\ CanParse(c)
       /\ timer[c] # "over"
       /\ taken' = [taken EXCEPT ![c] = @ \o SubSeq(buffer[c], 1, 2)]
       /\ buffer' = [buffer EXCEPT ![c] = SubSeq(@, 3, Len(@))]
       /\ \/ /\ head[3] \in {"bodyless", "refused"}
             /\ Writes(c, head[3] = "bodyless", head)
          \/ /\ head[3] \in {"call", "mixed"}
             /\ phase' = [phase EXCEPT ![c] = "body"]
             /\ timer' = [timer EXCEPT ![c] = "running"]
             /\ UNCHANGED <<answers, answerVars>>
       /\ UNCHANGED <<clientVars, cancelled, withdrawn, relayVars>>

\* A body over the limit is refused; else the owner is asked, as a task.
TakesBody(c) ==
    /\ Runs(c, "body")
    /\ CanParse(c)
    /\ timer[c] # "over"
    /\ taken' = [taken EXCEPT ![c] = Append(@, Head(buffer[c]))]
    /\ buffer' = [buffer EXCEPT ![c] = Tail(@)]
    /\ \/ Writes(c, FALSE, Head(buffer[c]))
       \/ /\ phase' = [phase EXCEPT ![c] = "answering"]
          /\ owner' = [owner EXCEPT ![c] = "pending"]
          /\ watch' = [watch EXCEPT ![c] = "on"]
          /\ timer' = [timer EXCEPT ![c] = "off"]
          /\ UNCHANGED <<answers, keep>>
    /\ UNCHANGED <<clientVars, cancelled, withdrawn, relayVars>>

----------------------------------------------------------------------------
\* The owner: an answer, which a failure of its own also is; or none, since the
\* CLI gave the call up.  Cancelled, it may go, or still end in either way.
OwnerEnds(c) ==
    /\ \/ owner[c] = "pending" /\ owner' \in {[owner EXCEPT ![c] = how] :
                                                how \in {"answered", "unanswered"}}
       \/ owner[c] = "cancelling" /\ owner' \in {[owner EXCEPT ![c] = how] : how \in Finished}
    /\ UNCHANGED <<clientVars, phase, buffer, timer, watch, keep, cancelled, historyVars,
                   relayVars>>

Cancel(c) ==
    /\ owner' = [owner EXCEPT ![c] = IF @ = "pending" THEN "cancelling" ELSE @]
    /\ withdrawn' = [withdrawn EXCEPT ![c] = @ \cup {Request(c)[1]}]

\* A mutant: an end the watch saw withdraws nothing by itself.
SeesEndOnly(c) ==
    /\ watch' = [watch EXCEPT ![c] =
                    IF owner[c] \in Finished THEN "after_answer" ELSE "while_pending"]
    /\ withdrawn' = [withdrawn EXCEPT ![c] =
                        IF owner[c] \in Finished THEN @ ELSE @ \cup {Request(c)[1]}]
    /\ UNCHANGED owner

\* An end seen while the answer is pending cancels it in the same step.
SeesEnd(c) ==
    \/ /\ owner[c] \in Finished
       /\ watch' = [watch EXCEPT ![c] = "after_answer"]
       /\ UNCHANGED <<owner, withdrawn>>
    \/ /\ owner[c] \notin Finished
       /\ watch' = [watch EXCEPT ![c] = "while_pending"]
       /\ Cancel(c)

\* A mutant: what the watch reads beside the answer is thrown away.
WatchDrops(c, chunk) == buffer

WatchKeeps(c, chunk) == [buffer EXCEPT ![c] = @ \o chunk]

\* The watch keeps pipelined bytes for the next request; too many are an end.
WatchReads(c) ==
    /\ watch[c] = "on"
    /\ wire[c] # <<>>
    /\ wire' = [wire EXCEPT ![c] = <<>>]
    /\ \/ /\ Len(buffer[c]) + Len(wire[c]) > MaxPipelined
          /\ SeesEnd(c)
          /\ UNCHANGED buffer
       \/ /\ Len(buffer[c]) + Len(wire[c]) <= MaxPipelined
          /\ buffer' = WatchKeeps(c, wire[c])
          /\ UNCHANGED <<watch, owner, withdrawn>>
    /\ UNCHANGED <<sent, ended, phase, timer, keep, cancelled, taken, answers, relayVars>>

WatchSeesEnd(c) ==
    /\ watch[c] = "on"
    /\ wire[c] = <<>>
    /\ ended[c] # "no"
    /\ SeesEnd(c)
    /\ UNCHANGED <<clientVars, phase, buffer, timer, keep, cancelled, taken, answers, relayVars>>

\* The connection's task goes on once the owner's has ended, and not before.
Resumes(c) ==
    /\ phase[c] = "answering"
    /\ owner[c] \in Finished
    /\ \/ /\ cancelled[c] \/ watch[c] = "while_pending" \/ owner[c] # "answered"
          /\ Ends(c)
       \/ /\ ~cancelled[c] /\ watch[c] # "while_pending" /\ owner[c] = "answered"
          /\ Writes(c, Request(c)[3] # "mixed" /\ watch[c] # "after_answer", Request(c))
          /\ UNCHANGED <<clientVars, buffer, cancelled, taken, withdrawn, relayVars>>

\* A mutant: bytes that came beside the answer do not start the next deadline.
NextHeadUntimed(c) == "off"

\* What is already there of the next head is timed from here on.
NextHeadTimer(c) == IF buffer[c] # <<>> THEN "running" ELSE "off"

Drained(c) ==
    /\ Runs(c, "writing")
    /\ \/ /\ keep[c]
          /\ phase' = [phase EXCEPT ![c] = "head"]
          /\ timer' = [timer EXCEPT ![c] = NextHeadTimer(c)]
          /\ UNCHANGED <<clientVars, buffer, answerVars, cancelled, historyVars, relayVars>>
       \/ /\ ~keep[c] \/ ended[c] = "cut"
          /\ Ends(c)

CancelledEnds(c) ==
    /\ cancelled[c]
    /\ phase[c] \in {"head", "body", "writing"}
    /\ Ends(c)

----------------------------------------------------------------------------
\* The run's clock reaches a deadline, and its timer aborts the connection.
InstantPasses(c) ==
    /\ timer[c] = "running"
    /\ timer' = [timer EXCEPT ![c] = "over"]
    /\ UNCHANGED <<clientVars, phase, buffer, answerVars, cancelled, historyVars, relayVars>>

TimerAborts(c) ==
    /\ timer[c] = "over"
    /\ ended[c] # "cut"
    /\ ended' = [ended EXCEPT ![c] = "cut"]
    /\ wire' = [wire EXCEPT ![c] = <<>>]
    /\ UNCHANGED <<sent, phase, buffer, timer, answerVars, cancelled, historyVars, relayVars>>

----------------------------------------------------------------------------
StopListening ==
    /\ ~closing
    /\ closing' = TRUE
    /\ UNCHANGED <<clientVars, phase, buffer, timer, answerVars, cancelled, historyVars,
                   attempt, closed, snapshot>>

\* One attempt for all callers, which none of their cancellations reaches; a
\* pending owner is cancelled within the close's own step.
CloseBegins ==
    /\ ~closed
    /\ attempt # "running"
    /\ closing' = TRUE /\ attempt' = "running" /\ snapshot' = Tracked
    /\ ended' = [c \in Conns |-> IF c \in Tracked THEN "cut" ELSE ended[c]]
    /\ wire' = [c \in Conns |-> IF c \in Tracked THEN <<>> ELSE wire[c]]
    /\ cancelled' = [c \in Conns |-> cancelled[c] \/ c \in Tracked]
    /\ owner' = [c \in Conns |-> IF owner[c] = "pending" THEN "cancelling" ELSE owner[c]]
    /\ withdrawn' = [c \in Conns |-> IF phase[c] = "answering"
                                     THEN withdrawn[c] \cup {Request(c)[1]} ELSE withdrawn[c]]
    /\ UNCHANGED <<sent, phase, buffer, timer, watch, keep, taken, answers, closed>>

CloseEnds ==
    /\ attempt = "running"
    /\ \/ /\ snapshot \cap Tracked = {}
          /\ attempt' = "none"
          /\ closed' = TRUE
       \/ /\ snapshot \cap Tracked # {}
          /\ attempt' = "incomplete"
          /\ UNCHANGED closed
    /\ UNCHANGED <<clientVars, phase, buffer, timer, answerVars, cancelled, historyVars,
                   closing, snapshot>>

Serves(c) ==
    \/ ReadsMore(c) \/ StopsReading(c) \/ TakesHead(c) \/ TakesBody(c)
    \/ Resumes(c) \/ Drained(c) \/ CancelledEnds(c)

Next ==
    \/ \E c \in Conns :
          \/ Connects(c) \/ ClientSends(c) \/ ClientLeaves(c)
          \/ Serves(c) \/ OwnerEnds(c) \/ WatchReads(c) \/ WatchSeesEnd(c)
          \/ InstantPasses(c) \/ TimerAborts(c)
    \/ StopListening \/ CloseBegins \/ CloseEnds

Spec == Init /\ [][Next]_vars

\* The event loop runs the connections' tasks and timers, and the clock goes on.
\* Nothing is assumed of the client or the owner.
FairSpec ==
    /\ Spec
    /\ \A c \in Conns : WF_vars(Serves(c)) /\ WF_vars(InstantPasses(c) \/ TimerAborts(c))

----------------------------------------------------------------------------
\* A request whose client was seen to end, or whose relay began to close, before
\* its answer was complete is withdrawn from the owner in that step and never
\* answered, whatever the owner still does; and a closed relay serves nobody.
\* Code: _watch, _answered_while_watching, _close_once.
GoneIsGone ==
    /\ \A c \in Conns :
          /\ withdrawn[c] \cap Range(answers[c]) = {}
          /\ owner[c] = "pending" => Request(c)[1] \notin withdrawn[c]
    /\ closed => Tracked = {}

\* The requests of a connection are answered one by one, in order, none left
\* out, and no byte read beside a pending answer is lost to the next one.
\* Code: _watch keeps what it reads, _stopped leaves the rest in the reader.
AnswersFollowRequests ==
    \A c \in Tracked :
        /\ answers[c] = [i \in DOMAIN answers[c] |-> i]
        /\ taken[c] # <<>> => Len(answers[c]) =
              Request(c)[1] - (IF phase[c] \in {"body", "answering"} THEN 1 ELSE 0)
        /\ watch[c] \notin {"while_pending", "after_answer"} /\ keep[c] =>
              IsPrefix(taken[c] \o buffer[c] \o wire[c], sent[c])
        /\ ended[c] # "cut" /\ watch[c] \notin {"while_pending", "after_answer"} /\ keep[c] =>
              taken[c] \o buffer[c] \o wire[c] = sent[c]

\* A request whose first byte has come is read to its end or dropped, however
\* slowly the rest of it comes, also when it came beside an earlier answer.
\* Code: _ReceiveDeadline, _read_head, _read_body.
ReceivingEnds ==
    \A c \in Conns :
        phase[c] = "body" \/ (phase[c] = "head" /\ buffer[c] # <<>>)
            ~> phase[c] \in {"answering", "writing", "done"}

=============================================================================

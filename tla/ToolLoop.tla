------------------------------ MODULE ToolLoop ------------------------------
(***************************************************************************)
(* One turn of the tool loop (tool_loop.py): ask the provider, run the     *)
(* calls its response ends with, send all their results back, and at most  *)
(* MaxToolRounds times; then the response must be the final text.          *)
(*                                                                         *)
(* This module holds the turn's state, the loop's own steps and its ways   *)
(* to end.  CliTransports and ApiTransports add what a provider may answer *)
(* and how its transport reads it.                                         *)
(***************************************************************************)
EXTENDS TextToolProtocol

CONSTANTS
    Responses,      \* the texts a CLI may answer with, as sequences of pieces
    Batches,        \* the tool calls an API may answer with, as id sequences
    Sessions,       \* session ids a CLI may name
    NoSession,
    MaxToolRounds

ASSUME RoundsAreCounted == MaxToolRounds \in Nat
ASSUME AnswersAreSequences ==
    /\ Responses \subseteq Seq(UNION {Range(text) : text \in Responses})
    /\ Batches \subseteq Seq(UNION {Range(batch) : batch \in Batches})
ASSUME NoSessionIsNoId == NoSession \notin Sessions

VARIABLES
    route,      \* the route the host chose
    phase,      \* where the turn stands
    ending,     \* how it ended: "none" while it runs
    round,      \* tool rounds begun
    message,    \* results to send, <<>> for the initial turn
    calls,      \* the batch being executed
    results,    \* its results so far
    line,       \* the transport's state, of which a part outlives a round
    response,   \* what the CLI answers with this time
    at,         \* how much of it the transport has read
    shown,      \* the text of this round the host was given
    seen        \* what this round really brought, for the properties

turnVars == <<route, phase, ending, round, message, calls, results, line, response, at,
              shown, seen>>

\* The parts of a transport: session and assistant are kept between rounds.
\* announced, result and attached are the Claude CLI stream's.
FreshLine ==
    [session |-> NoSession, assistant |-> <<>>, parser |-> NewParser, sawEnd |-> FALSE,
     error |-> FALSE, received |-> NoSession, attached |-> FALSE, announced |-> FALSE,
     result |-> FALSE]

NextRoundLine ==
    [line EXCEPT !.parser = NewParser, !.sawEnd = FALSE, !.error = FALSE,
                 !.received = NoSession]

\* heard: the kinds of event the provider sent in this round; sound: its run
\* ended complete with return code 0; named: the sessions it answered under;
\* log: the host's events and tool runs since the last request; owed: the
\* results among those before it; sent: the calls and the results it carried.
NothingSeen ==
    [heard |-> {}, sound |-> FALSE, named |-> {}, log |-> <<>>, owed |-> <<>>,
     sent |-> [calls |-> <<>>, results |-> <<>>]]

\* A call is three entries of the log: told, run, its result told.
ResultsTold == [i \in 1 .. Len(seen.log) \div 3 |-> seen.log[3 * i]]

\* What the properties remember of the requests so far when the next one goes.
Sends(asked) ==
    seen' = [NothingSeen EXCEPT !.owed = ResultsTold,
                                !.named = seen.named,
                                !.sent = [calls |-> asked, results |-> message]]

Live == phase # "ended"

\* The loop's finally closes the transport, whatever ended the turn.
End(how) == phase' = "ended" /\ ending' = how

Says(entry) == seen' = [seen EXCEPT !.log = Append(@, entry)]

----------------------------------------------------------------------------
\* One request.  A CLI transport speaks of one call at a time and refuses a
\* batch of several results; an API transport appends the assistant message it
\* kept and the results to its history, and refuses results without one.
RefusesMessage(isCli) ==
    /\ message # <<>>
    /\ IF isCli THEN Len(message) # 1 ELSE line.assistant = <<>>

AskCli ==
    /\ phase = "ask"
    /\ route \in {"codex", "grok"}
    /\ ~RefusesMessage(TRUE)
    /\ line' = NextRoundLine
    /\ at' = 0
    /\ response' \in Responses
    /\ Sends(calls)
    /\ shown' = <<>>
    /\ phase' = "listen"
    /\ UNCHANGED <<route, ending, round, message, calls, results>>

AskApi ==
    /\ phase = "ask"
    /\ route \in {"openai", "anthropic"}
    /\ ~RefusesMessage(FALSE)
    /\ line' = [NextRoundLine EXCEPT !.assistant = <<>>]
    /\ Sends(line.assistant)
    /\ shown' = <<>>
    /\ phase' = "listen"
    /\ UNCHANGED <<route, ending, round, message, calls, results, response, at>>

\* The message is refused, the child's program or login is gone, the pool of
\* CLI processes is full, or the request never reaches the API.
AskFails ==
    /\ phase = "ask"
    /\ End("failed")
    /\ UNCHANGED <<route, round, message, calls, results, line, response, at, shown, seen>>

----------------------------------------------------------------------------
\* A final response ends the turn, its unstreamed text shown first.
FinalText(text) ==
    /\ shown' = shown \o text
    /\ End("final")
    /\ UNCHANGED <<round, message, calls, results>>

LimitReached == round = MaxToolRounds
\* A mutant: the round is not counted.
SameRoundIndex == round

NextRoundIndex == round + 1

\* A batch is executed, unless it would be one round too many.
ToolCallBatch(batch) ==
    /\ UNCHANGED <<message, shown>>
    /\ \/ /\ LimitReached
          /\ End("limit")
          /\ UNCHANGED <<round, calls, results>>
       \/ /\ ~LimitReached
          /\ phase' = "tools"
          /\ round' = NextRoundIndex
          /\ calls' = batch
          /\ results' = <<>>
          /\ UNCHANGED ending

\* A mutant: the batch is worked off from its end.
LastCall == calls[Len(calls) - Len(results)]

NextCall == calls[Len(results) + 1]

\* The host is told of a call before the executor sees it.
AnnounceCall ==
    /\ phase = "tools"
    /\ Len(results) < Len(calls)
    /\ phase' = "execute"
    /\ Says(<<"call", NextCall>>)
    /\ UNCHANGED <<route, ending, round, message, calls, results, line, response, at, shown>>

\* The executor answers, or raises and the loop answers for it; the model and
\* the host are told of either in the same way.
ExecuteTool ==
    /\ phase = "execute"
    /\ phase' = "tools"
    /\ \E isError \in BOOLEAN :
          /\ results' = Append(results, <<NextCall, isError>>)
          /\ seen' = [seen EXCEPT !.log =
                         @ \o << <<"ran", NextCall>>, <<"result", NextCall, isError>> >>]
    /\ UNCHANGED <<route, ending, round, message, calls, line, response, at, shown>>

SendResults ==
    /\ phase = "tools"
    /\ Len(results) = Len(calls)
    /\ phase' = "ask"
    /\ message' = results
    /\ UNCHANGED <<route, ending, round, calls, results, line, response, at, shown, seen>>

\* The host stops reading, or its task is cancelled, at any await of the turn.
HostLeaves ==
    /\ Live
    /\ End("left")
    /\ UNCHANGED <<route, round, message, calls, results, line, response, at, shown, seen>>

LoopStep == AskCli \/ AskApi \/ AnnounceCall \/ ExecuteTool \/ SendResults

=============================================================================

--------------------------- MODULE ApiTransports ----------------------------
(***************************************************************************)
(* The API transports of the tool loop (openai_adapter.py and the Claude   *)
(* API transport in claude/adapter.py).  Each keeps the whole              *)
(* conversation, since the API keeps none: the assistant message that      *)
(* asked for tools is held until the results that answer it are there.     *)
(***************************************************************************)
EXTENDS ToolLoop

Reading(api) == phase = "listen" /\ route = api

\* Text of the response reaches the host as it comes; its words do not matter
\* here.
ApiText ==
    /\ \E api \in {"openai", "anthropic"} : Reading(api)
    /\ seen.heard = {}
    /\ seen' = [seen EXCEPT !.heard = {"text"}]
    /\ UNCHANGED <<route, phase, ending, round, message, calls, results, line, response, at,
                   shown>>

\* An HTTP error, a payload of no known shape, or a call without id, name or
\* readable arguments, whatever was shown before.
ApiFails ==
    /\ \E api \in {"openai", "anthropic"} : Reading(api)
    /\ End("failed")
    /\ UNCHANGED <<route, round, message, calls, results, line, response, at, shown, seen>>

ApiFinal ==
    /\ \E api \in {"openai", "anthropic"} : Reading(api)
    /\ FinalText(<<>>)
    /\ UNCHANGED <<route, line, response, at, seen>>

\* Every call of the message is in the batch, in its order; the message is kept
\* for the next request.
KeepsAssistant(batch) == [line EXCEPT !.assistant = batch]

ApiCalls ==
    /\ \E api \in {"openai", "anthropic"} : Reading(api)
    /\ \E batch \in Batches :
          /\ line' = KeepsAssistant(batch)
          /\ ToolCallBatch(batch)
    /\ UNCHANGED <<route, response, at, seen>>

ApiStep == ApiText \/ ApiFails \/ ApiFinal \/ ApiCalls

=============================================================================

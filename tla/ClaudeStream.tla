---------------------------- MODULE ClaudeStream ----------------------------
(***************************************************************************)
(* A turn of the Claude CLI, which runs its own tools behind its own MCP   *)
(* server: the line decoders of claude/provider.py and the judgement of    *)
(* the CLI's start announcement in cli_run.py.  The library's own turn     *)
(* ("claude") is gated before its start (ToolSurface) and reads no         *)
(* announcement; a service run ("claude_run") is judged by what its CLI    *)
(* announces, on every init line.                                          *)
(***************************************************************************)
EXTENDS ToolLoop

Streams == {"claude", "claude_run"}
Judged == route = "claude_run"
StreamOpen == phase = "listen" /\ route \in Streams

Surfaces ==
    [foreignCredential : BOOLEAN, toolBesideRelay : BOOLEAN, serverBesideRelay : BOOLEAN,
     relay : {"absent", "connected", "not_connected"}]

\* The verdicts in the order they are checked; the first that applies counts.
VerdictOf(surface, attached) ==
    CASE surface.foreignCredential -> "foreign_credential"
      [] ~surface.foreignCredential /\ surface.toolBesideRelay -> "tool_beside_relay"
      [] ~surface.foreignCredential /\ ~surface.toolBesideRelay /\
         (surface.serverBesideRelay \/ (~attached /\ surface.relay # "absent")) ->
            "server_beside_relay"
      [] OTHER -> IF attached /\ surface.relay # "connected"
                  THEN "relay_not_connected" ELSE "accepted"

\* What a clean start is, said apart from the verdicts: the profile's own login
\* and this run's relay, connected, and nothing beside it.
CleanSurface(surface, attached) ==
    /\ ~surface.foreignCredential /\ ~surface.toolBesideRelay /\ ~surface.serverBesideRelay
    /\ surface.relay = IF attached THEN "connected" ELSE "absent"

KeepsStream == UNCHANGED <<route, round, message, calls, results, response, at>>

StreamFails(kind) ==
    /\ End("failed")
    /\ seen' = [seen EXCEPT !.heard = @ \cup {kind}]
    /\ UNCHANGED <<line, shown>>
    /\ KeepsStream

\* An init line: the announcement is examined, and an unreadable one refused.
Announcement ==
    /\ StreamOpen
    /\ Judged
    /\ \/ StreamFails("unreadable")
       \/ \E surface \in Surfaces :
             LET kind == IF CleanSurface(surface, line.attached) THEN "clean" ELSE "dirty"
             IN \/ /\ VerdictOf(surface, line.attached) # "accepted"
                   /\ StreamFails(kind)
                \/ /\ VerdictOf(surface, line.attached) = "accepted"
                   /\ line' = [line EXCEPT !.announced = TRUE]
                   /\ seen' = [seen EXCEPT !.heard = @ \cup {kind}]
                   /\ UNCHANGED <<phase, ending, shown>>
                   /\ KeepsStream

Unannounced == Judged /\ ~line.announced

\* An event line before the announcement ends a judged run.
StreamStep ==
    /\ StreamOpen
    /\ \/ /\ Unannounced
          /\ StreamFails("early")
       \/ /\ ~Unannounced
          /\ shown' = <<"word">>
          /\ UNCHANGED <<phase, ending, line, seen>>
          /\ KeepsStream

\* The result line holds the answer, or says the run failed.
StreamResult ==
    /\ StreamOpen
    /\ ~Unannounced
    /\ \/ StreamFails("error_result")
       \/ /\ line' = [line EXCEPT !.result = TRUE]
          /\ seen' = [seen EXCEPT !.heard = @ \cup {"result"}]
          /\ UNCHANGED <<phase, ending, shown>>
          /\ KeepsStream

\* A malformed event, a message about a refused login or the API, a line over
\* the limit, or the turn's own deadline.  A line that is no JSON object is
\* skipped.
StreamBreaks == StreamOpen /\ StreamFails("broken")

\* The end of the output: the answer stands only if the CLI gave one and ended
\* with return code 0.
StreamEnds ==
    /\ StreamOpen
    /\ \E sound \in BOOLEAN :
          /\ seen' = [seen EXCEPT !.sound = sound]
          /\ IF sound /\ line.result THEN End("final") ELSE End("failed")
    /\ UNCHANGED <<line, shown>>
    /\ KeepsStream

StreamLine == Announcement \/ StreamStep \/ StreamResult \/ StreamBreaks

=============================================================================

---------------------------- MODULE ProviderTurn ----------------------------
(***************************************************************************)
(* One turn on the route the host chose, and never another (dispatch.py):  *)
(* the CLI and API routes through the tool loop, the Claude CLI through    *)
(* its own stream, and a service run's Claude CLI (cli_run.py).            *)
(***************************************************************************)
EXTENDS CliTransports, ApiTransports, ClaudeStream

CliRoutes == {"codex", "grok", "claude"}
ApiRoutes == {"openai", "anthropic"}

TurnInit ==
    /\ route \in CliRoutes \cup ApiRoutes \cup {"claude_run"}
    /\ phase = "start"
    /\ ending = "none"
    /\ round = 0
    /\ message = <<>> /\ calls = <<>> /\ results = <<>>
    /\ \E attached \in BOOLEAN : line = [FreshLine EXCEPT !.attached = attached]
    /\ response = <<>> /\ at = 0 /\ shown = <<>>
    /\ seen = NothingSeen

\* An empty model name is never a default; no model at all is one only for a
\* CLI.  An API route needs its key, a CLI transport its login copied into a
\* private home, the Claude CLI a passed gate, its binary and a free slot.
Startable(model, ready) ==
    /\ model # "empty"
    /\ model = "named" \/ route \notin ApiRoutes
    /\ ready

StartTurn ==
    /\ phase = "start"
    /\ \E model \in {"named", "absent", "empty"}, ready \in BOOLEAN :
          \/ /\ Startable(model, ready)
             /\ phase' = IF route \in Streams THEN "listen" ELSE "ask"
             /\ UNCHANGED ending
          \/ /\ ~Startable(model, ready)
             /\ End("failed")
    /\ UNCHANGED <<route, round, message, calls, results, line, response, at, shown, seen>>

Over == ~Live /\ UNCHANGED turnVars

TurnNext ==
    \/ StartTurn \/ LoopStep \/ AskFails
    \/ CliStep \/ CliOutcome
    \/ ApiStep
    \/ StreamLine \/ StreamEnds
    \/ HostLeaves
    \/ Over

TurnSpec == TurnInit /\ [][TurnNext]_turnVars

\* The loop runs while the host reads; a tool call is synchronous and returns;
\* every run of Codex or Grok ends by its round's deadline.  Of the other
\* providers nothing is assumed: an HTTP client's timeout is one of each read,
\* and nothing bounds the wait for the Claude CLI to be gone once its output
\* ended, nor in a service run that output itself.
FairTurnSpec ==
    /\ TurnSpec
    /\ WF_turnVars(StartTurn \/ LoopStep)
    /\ WF_turnVars(CliOutcome)

----------------------------------------------------------------------------
AtTools == phase \in {"tools", "execute"}

\* A tool runs, or a final answer stands, only on a round that was sound to its
\* end: the CLI's run ended complete with return code 0, its success line was
\* its last, no error and nothing of a kind the adapter forbids was among its
\* lines, and every round so far was answered under one session.  A judged Claude run shows nothing before a clean announcement, and
\* ends in an answer only if every announcement was clean.  The three parts of
\* the verdict - events, session and outcome - arrive in any order
\* (codex/transport.py, grok/transport.py, claude/provider.py).
OnlySoundRunsAct ==
    /\ route \in {"codex", "grok"} /\ (AtTools \/ ending \in {"final", "limit"}) =>
          /\ seen.sound
          /\ "end" \in seen.heard
          /\ seen.heard \subseteq {"thread", "text", "end"}
          /\ Cardinality(seen.named) = 1
    /\ route \in Streams /\ ending = "final" => seen.sound /\ "result" \in seen.heard
    /\ Judged /\ shown # <<>> => "clean" \in seen.heard
    /\ Judged /\ ending = "final" => "dirty" \notin seen.heard

\* What the transport has read of the response so far.
Said == SubSeq(response, 1, at)

\* Every piece of it is shown once, in order, or still held back.
NoWordLost ==
    route \in {"codex", "grok"} =>
        IF ending = "final" THEN shown = Said ELSE shown \o line.parser.candidate = Said

\* However the CLI cuts its answer into chunks, none of it is lost at a chunk's
\* edge and none shown twice; the final answer is the whole response; and no
\* text from the opening line of a call on is ever shown (TextToolStreamParser).
EveryWordOnce ==
    /\ NoWordLost
    /\ route \in {"codex", "grok"} =>
          \A i \in OpeningStarts(Said, FALSE, <<>>) : Len(shown) < i

\* The host hears of every call before it runs and of its result right after,
\* in the order of the batch, and the next request carries exactly those
\* results, beside the assistant message that asked for them.
CallsAnsweredInOrder ==
    /\ \A i \in DOMAIN seen.log :
          /\ seen.log[i][1] = <<"call", "ran", "result">>[((i - 1) % 3) + 1]
          /\ seen.log[i][2] = calls[((i - 1) \div 3) + 1]
    /\ phase = "listen" =>
          /\ seen.owed = [i \in DOMAIN seen.sent.results |->
                             <<"result", seen.sent.results[i][1], seen.sent.results[i][2]>>]
          /\ seen.sent.calls = [i \in DOMAIN seen.sent.results |-> seen.sent.results[i][1]]

ListensUnbounded == phase = "listen" /\ route \in ApiRoutes \cup Streams

\* However often the provider asks for tools, and whatever the CLI says, a turn
\* of Codex or Grok ends; any other ends, or waits for good for one response of
\* a provider for which the code has no bound of its own: never for a tool, for
\* its next request or in one more round.
TurnEnds == <>[](~Live \/ ListensUnbounded)

\* The parser's docstring promises that it "recognizes a call on its own line".
\* A block it takes for a call begins, but for blanks, where the text the CLI
\* wrote begins a line.  Grok sends one answer in pieces of any length.
CallStandsOnItsOwnLine ==
    route = "grok" /\ line.parser.inCall =>
        \E i \in DOMAIN Said :
            /\ IsPrefix(Opening, SubSeq(Said, i, Len(Said)))
            /\ IsLineStart(Said, i)
            /\ Range(SubSeq(Said, Len(shown) + 1, i - 1)) \subseteq Blank

=============================================================================

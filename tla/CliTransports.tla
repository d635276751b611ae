--------------------------- MODULE CliTransports ----------------------------
(***************************************************************************)
(* The Codex and Grok subscription transports of the tool loop             *)
(* (codex/transport.py, grok/transport.py): one CLI run per round, resumed *)
(* in the session the first one opened, whose lines are read one by one    *)
(* and whose outcome comes last.  How the run itself is bounded, reaped    *)
(* and cleaned up is CliRuns; here it says anything, in any order, and     *)
(* ends.                                                                   *)
(***************************************************************************)
EXTENDS ToolLoop

Listening(cli) == phase = "listen" /\ route = cli

\* A reported error asks the run to end, and from there on no line is read: the
\* channel drops those it held and takes no more, so only the outcome follows.
Hearing(cli) == Listening(cli) /\ ~line.error

LineKept == UNCHANGED <<line, at, shown>>
Hears(kind) == seen' = [seen EXCEPT !.heard = @ \cup {kind}]
KeepsTurn == UNCHANGED <<route, round, message, calls, results, response>>

\* A line the transport cannot accept aborts the run and fails the turn.
Breaks(kind) ==
    /\ Hears(kind)
    /\ End("failed")
    /\ LineKept
    /\ KeepsTurn

\* The next chunk of the answer, of any length, goes through the parser.
HearsText ==
    /\ \E n \in 1 .. Len(response) - at :
          LET fed == Feed(line.parser, SubSeq(response, at + 1, at + n))
          IN /\ line' = [line EXCEPT !.parser = fed.parser]
             /\ shown' = shown \o fed.out
             /\ at' = at + n
    /\ Hears("text")
    /\ UNCHANGED <<phase, ending>>
    /\ KeepsTurn

HearsError ==
    /\ line' = [line EXCEPT !.error = TRUE]
    /\ Hears("error")
    /\ UNCHANGED <<phase, ending, at, shown>>
    /\ KeepsTurn

IsResume == line.session # NoSession

----------------------------------------------------------------------------
\* Codex: the thread may be named at any point before the turn completes, once,
\* and in a resumed round it must be the one resumed.
ForeignThread(id) ==
    line.received # NoSession \/ (IsResume /\ id # line.session)

CodexThread ==
    /\ Hearing("codex")
    /\ ~line.sawEnd
    /\ \E id \in Sessions :
          \/ /\ ForeignThread(id)
             /\ Breaks("foreign_thread")
          \/ /\ ~ForeignThread(id)
             /\ line' = [line EXCEPT !.received = id]
             /\ seen' = [seen EXCEPT !.heard = @ \cup {"thread"}, !.named = @ \cup {id}]
             /\ UNCHANGED <<phase, ending, at, shown>>
             /\ KeepsTurn

CodexMessage == Hearing("codex") /\ ~line.sawEnd /\ HearsText

CodexError == Hearing("codex") /\ ~line.sawEnd /\ HearsError

\* A tool of the CLI's own, or a line of no known kind.
CodexForbidden ==
    /\ Hearing("codex")
    /\ \/ ~line.sawEnd /\ \E kind \in {"native_tool", "unknown"} : Breaks(kind)
       \/ line.sawEnd /\ Breaks("after_end")

CodexCompleted ==
    /\ Hearing("codex")
    /\ ~line.sawEnd
    /\ line' = [line EXCEPT !.sawEnd = TRUE]
    /\ Hears("end")
    /\ UNCHANGED <<phase, ending, at, shown>>
    /\ KeepsTurn

\* A mutant: the success line is believed whatever the run's outcome is.
CodexBelievesItsLines(sound) ==
    /\ line.sawEnd
    /\ IsResume \/ line.received # NoSession

\* A completed turn of a run that ended well counts; a fresh round must have
\* named its thread.  An error was no part of it: none is read after the
\* success line, and no success line after an error.
CodexSound(sound) ==
    /\ line.sawEnd
    /\ sound
    /\ IsResume \/ line.received # NoSession

CodexSession == IF line.received # NoSession THEN line.received ELSE line.session

----------------------------------------------------------------------------
\* Grok names its session only in the line that ends the response.
GrokText == Hearing("grok") /\ ~line.sawEnd /\ HearsText

GrokError == Hearing("grok") /\ ~line.sawEnd /\ HearsError

GrokForbidden ==
    /\ Hearing("grok")
    /\ \/ ~line.sawEnd /\ \E kind \in {"native_tool", "unknown"} : Breaks(kind)
       \/ line.sawEnd /\ Breaks("after_end")

GrokEnd ==
    /\ Hearing("grok")
    /\ ~line.sawEnd
    /\ \E id \in Sessions :
          /\ line' = [line EXCEPT !.sawEnd = TRUE, !.received = id]
          /\ seen' = [seen EXCEPT !.heard = @ \cup {"end"}, !.named = @ \cup {id}]
    /\ UNCHANGED <<phase, ending, at, shown>>
    /\ KeepsTurn

GrokSound(sound) ==
    /\ line.sawEnd
    /\ sound
    /\ ~line.error
    /\ ~IsResume \/ line.received = line.session

----------------------------------------------------------------------------
\* The run's outcome ends the round: the response is parsed only if the run was
\* sound, and only then is the session the next round resumes taken over.
FinishRound(isSound, sound, session) ==
    /\ seen' = [seen EXCEPT !.sound = sound]
    /\ UNCHANGED <<route, response, at>>
    /\ \/ /\ ~isSound
          /\ End("failed")
          /\ UNCHANGED <<round, message, calls, results, line, shown>>
       \/ /\ isSound
          /\ Finish(line.parser).kind = "refused"
          /\ End("refused")
          /\ UNCHANGED <<round, message, calls, results, line, shown>>
       \/ /\ isSound
          /\ Finish(line.parser).kind = "text"
          /\ line' = [line EXCEPT !.session = session]
          /\ FinalText(Finish(line.parser).text)
       \/ /\ isSound
          /\ Finish(line.parser).kind = "call"
          /\ line' = [line EXCEPT !.session = session]
          /\ ToolCallBatch(<<round + 1>>)

CodexOutcome ==
    /\ Listening("codex")
    /\ \E sound \in BOOLEAN : FinishRound(CodexSound(sound), sound, CodexSession)

GrokOutcome ==
    /\ Listening("grok")
    /\ \E sound \in BOOLEAN : FinishRound(GrokSound(sound), sound, line.received)

CliStep ==
    \/ CodexThread \/ CodexMessage \/ CodexError \/ CodexForbidden \/ CodexCompleted
    \/ GrokText \/ GrokError \/ GrokForbidden \/ GrokEnd

CliOutcome == CodexOutcome \/ GrokOutcome

=============================================================================

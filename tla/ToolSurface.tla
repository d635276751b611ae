----------------------------- MODULE ToolSurface -----------------------------
(***************************************************************************)
(* The gate before every turn of the Claude CLI (claude/provider.py): the  *)
(* CLI must announce exactly the tools the turn expects, and the verdict   *)
(* is remembered per build of the binary and expectation.  One probe runs  *)
(* per key: the first caller publishes a future, the others wait for it.   *)
(*                                                                         *)
(* There are two twins.  In the event loop the probe is a task of its own, *)
(* which no caller's end touches; in a plain thread the first caller       *)
(* probes itself.  The child of a probe is CliRuns' matter; here a probe   *)
(* takes its time and says something, or it is given up while its thread   *)
(* and its child go on.  There is one event loop and any number of threads. *)
(***************************************************************************)
EXTENDS Integers, FiniteSets

CONSTANTS
    AsyncCallers, SyncCallers,
    McpCallers,     \* the callers that attach the host's MCP server
    Meetings,       \* bound: who asks in one run, the build mounted then, how it updates
    MaxBuild        \* bound: how often the CLI updates itself under the program

Callers == AsyncCallers \cup SyncCallers
Builds == 0 .. MaxBuild
Keys == Builds \X {"mcp", "none"}
NoFlight == "no_flight"

ASSUME GateAssumption ==
    /\ AsyncCallers \cap SyncCallers = {} /\ NoFlight \notin Callers
    /\ McpCallers \subseteq AsyncCallers
    /\ Meetings \subseteq [callers : SUBSET Callers, build : Builds, versioned : BOOLEAN]
    /\ MaxBuild \in Nat

VARIABLES
    versioned,  \* a version is a file of its own, else it replaces the one before
    build,      \* the binary that is mounted now
    offers,     \* what each build offers: "clean", or something "extra"
    asked,      \* the build that was mounted when a caller asked
    caller,     \* where a caller stands
    awaits,     \* the flight a caller waits for; a flight is named for its leader
    relied,     \* history: the verdict a caller passed on
    ran,        \* the build a caller's turn was started from
    verdicts,   \* _tool_surface_verdicts: "none" or a flight's verdict and build
    failures,   \* the keys of _tool_surface_failures, but those seen to be over
    inflight,   \* _tool_surface_inflight_async and _sync
    flight,     \* where a flight's probe stands
    atWork,     \* the flights whose worker thread or child is under way
    probed,     \* the build a flight's child was started from
    answer,     \* what a flight's future holds
    shut        \* the host has shut its probe tasks down

flightVars == <<inflight, flight, atWork, probed, answer>>
cacheVars == <<verdicts, failures>>
worldVars == <<versioned, build, offers>>
gateVars == <<relied, ran>>
vars == <<worldVars, asked, caller, awaits, gateVars, cacheVars, flightVars, shut>>

Twin(c) == IF c \in AsyncCallers THEN "async" ELSE "sync"
Expects(c) == IF c \in McpCallers THEN "mcp" ELSE "none"

\* A mutant: a verdict is remembered per process and expectation.
KeyWithoutBuild(c) == <<0, Expects(c)>>

\* The build the binary's stat named when the caller asked, and its expectation.
KeyOf(c) == <<asked[c], Expects(c)>>

NoVerdict == [surface |-> "none", build |-> 0]

Init ==
    /\ offers \in [Builds -> {"clean", "extra"}]
    /\ asked = [c \in Callers |-> 0]
    /\ \E meeting \in Meetings :
          /\ build = meeting.build /\ versioned = meeting.versioned
          /\ caller = [c \in Callers |->
                          IF c \in meeting.callers THEN "idle" ELSE "absent"]
    /\ awaits = [c \in Callers |-> NoFlight]
    /\ relied = [c \in Callers |-> NoVerdict]
    /\ ran = [c \in Callers |-> 0]
    /\ verdicts = [k \in Keys |-> NoVerdict]
    /\ failures = {}
    /\ inflight = [t \in {"async", "sync"} |-> [k \in Keys |-> NoFlight]]
    /\ flight = [c \in Callers |-> "none"]
    /\ atWork = {}
    /\ probed = [c \in Callers |-> 0]
    /\ answer = [c \in Callers |-> NoVerdict]
    /\ shut = FALSE

----------------------------------------------------------------------------
Leaves(c, how) == caller' = [caller EXCEPT ![c] = how]

Fails(c) == Leaves(c, "failed") /\ UNCHANGED gateVars

LeavesWith(c, verdict) ==
    /\ Leaves(c, IF verdict.surface = "clean" THEN "passed" ELSE "refused")
    /\ relied' = [relied EXCEPT ![c] = verdict]
    /\ UNCHANGED ran

\* What lies at the path resolved when the caller asked: the build it found, or,
\* where an update replaces the file, whichever lies there by now.
BuildAtPath(c) == IF versioned THEN asked[c] ELSE build

\* The binary's build is read when the caller asks.
Asks(c) ==
    /\ caller[c] = "idle"
    /\ asked' = [asked EXCEPT ![c] = build]
    /\ caller' = [caller EXCEPT ![c] = "keyed"]
    /\ UNCHANGED <<worldVars, awaits, gateVars, cacheVars, flightVars, shut>>

\* A remembered verdict answers; else a failure does while its time is not over:
\* ten seconds, or much longer for a child that outlived its kill.
AnsweredFromCache(c) ==
    /\ caller[c] = "keyed"
    /\ \/ /\ verdicts[KeyOf(c)] # NoVerdict
          /\ LeavesWith(c, verdicts[KeyOf(c)])
       \/ /\ verdicts[KeyOf(c)] = NoVerdict
          /\ KeyOf(c) \in failures
          /\ Fails(c)
    /\ UNCHANGED <<worldVars, asked, awaits, cacheVars, flightVars, shut>>

\* The time of a failure is seen to be over by the next caller to look.
MissesVerdict(c) ==
    /\ verdicts[KeyOf(c)] = NoVerdict
    /\ failures' = failures \ {KeyOf(c)}

\* Between the look at the cache and the claim a thread may be overtaken; in
\* the event loop nothing comes between them.
MissesCache(c) ==
    /\ c \in SyncCallers
    /\ caller[c] = "keyed"
    /\ MissesVerdict(c)
    /\ caller' = [caller EXCEPT ![c] = "missed"]
    /\ UNCHANGED <<worldVars, asked, awaits, gateVars, verdicts, flightVars, shut>>

MayClaim(c) ==
    \/ c \in SyncCallers /\ caller[c] = "missed" /\ UNCHANGED failures
    \/ c \in AsyncCallers /\ caller[c] = "keyed" /\ MissesVerdict(c)

ClaimsOrJoins(c) ==
    LET published == inflight[Twin(c)][KeyOf(c)]
    IN /\ MayClaim(c)
       /\ caller' = [caller EXCEPT ![c] = "waiting"]
       /\ \/ /\ published # NoFlight
             /\ awaits' = [awaits EXCEPT ![c] = published]
             /\ UNCHANGED <<inflight, flight>>
          \/ /\ published = NoFlight
             /\ awaits' = [awaits EXCEPT ![c] = c]
             /\ inflight' = [inflight EXCEPT ![Twin(c)][KeyOf(c)] = c]
             /\ flight' = [flight EXCEPT ![c] = "created"]
       /\ UNCHANGED <<worldVars, asked, gateVars, verdicts, atWork, probed, answer, shut>>

\* The future has its answer.  A sync leader is its own probe, so it is
\* answered by the end of it; a follower gets a failure it can catch, whatever
\* ended the probe.
IsAnswered(c) ==
    caller[c] = "waiting" /\ answer[awaits[c]] # NoVerdict

ReadsAnswer(c) ==
    /\ IsAnswered(c)
    /\ IF answer[awaits[c]].surface = "failure" THEN Fails(c)
       ELSE LeavesWith(c, answer[awaits[c]])
    /\ awaits' = [awaits EXCEPT ![c] = NoFlight]
    /\ UNCHANGED <<worldVars, asked, cacheVars, flightVars, shut>>

\* A mutant: a leader that goes takes its entry with it.
InflightWithoutIts(c) ==
    [t \in DOMAIN inflight |-> [k \in Keys |->
        IF inflight[t][k] = c THEN NoFlight ELSE inflight[t][k]]]

\* A follower's wait is bounded, and a task may be cancelled as it waits; neither
\* touches the flight.  A sync leader waits for nobody.
InflightWithout(c) == inflight

GivesUp(c) ==
    /\ caller[c] = "waiting"
    /\ c \in AsyncCallers \/ awaits[c] # c
    /\ Fails(c)
    /\ awaits' = [awaits EXCEPT ![c] = NoFlight]
    /\ inflight' = InflightWithout(c)
    /\ UNCHANGED <<worldVars, asked, cacheVars, flight, atWork, probed, answer, shut>>

\* The turn is started from the path that the gate resolved and returned.
TurnStarts(c) ==
    /\ caller[c] = "passed"
    /\ caller' = [caller EXCEPT ![c] = "started"]
    /\ ran' = [ran EXCEPT ![c] = BuildAtPath(c)]
    /\ UNCHANGED <<worldVars, asked, awaits, relied, cacheVars, flightVars, shut>>

----------------------------------------------------------------------------
\* A flight's probe.

\* A mutant: the entry is taken away and the future forgotten.
ForgetsFuture(f, verdict) ==
    /\ inflight' = [t \in DOMAIN inflight |-> [k \in Keys |->
                       IF inflight[t][k] = f THEN NoFlight ELSE inflight[t][k]]]
    /\ flight' = [flight EXCEPT ![f] = "over"]
    /\ probed' = [probed EXCEPT ![f] = 0]
    /\ UNCHANGED answer

\* The entry goes only if it is still this flight's; then the future is set.
Resolves(f, verdict) ==
    /\ inflight' = [t \in DOMAIN inflight |-> [k \in Keys |->
                       IF t = Twin(f) /\ k = KeyOf(f) /\ inflight[t][k] = f
                       THEN NoFlight ELSE inflight[t][k]]]
    /\ answer' = [answer EXCEPT ![f] = verdict]
    /\ flight' = [flight EXCEPT ![f] = "over"]
    /\ probed' = [probed EXCEPT ![f] = 0]

\* The child is started from the path that its caller resolved.
ProbeStarts(f) ==
    /\ flight[f] = "created"
    /\ flight' = [flight EXCEPT ![f] = "probing"]
    /\ atWork' = atWork \cup {f}
    /\ probed' = [probed EXCEPT ![f] = BuildAtPath(f)]
    /\ UNCHANGED <<worldVars, asked, caller, awaits, gateVars, cacheVars, inflight, answer, shut>>

\* What a session announces: the build's own surface; with an MCP server that
\* did not connect none of that server's tools, which says nothing, unless
\* there is something unexpected beside it.
Announces(f, connected) ==
    CASE offers[probed[f]] = "extra" -> "extra"
      [] OTHER -> IF Expects(f) = "mcp" /\ ~connected THEN "offline" ELSE "clean"

\* A verdict is remembered before the future is set, and clears the failure.
ProbeAnswers(f) ==
    /\ flight[f] = "probing"
    /\ \E connected \in BOOLEAN :
          LET verdict == [surface |-> Announces(f, connected), build |-> probed[f]]
          IN /\ verdict.surface # "offline"
             /\ verdicts' = [verdicts EXCEPT ![KeyOf(f)] = verdict]
             /\ failures' = failures \ {KeyOf(f)}
             /\ Resolves(f, verdict)
    /\ atWork' = atWork \ {f}
    /\ UNCHANGED <<worldVars, asked, caller, awaits, gateVars, shut>>

Failure(f) == [surface |-> "failure", build |-> probed[f]]

\* No answer, or a server that did not connect, is remembered for a while, and
\* so is a bound that passed while the thread still spawns or reaps, or a child
\* that outlived its kill: these go on without their flight.  A full pool, a
\* refused login and an unexpected fault say nothing about the build.
ProbeFails(f) ==
    /\ flight[f] = "probing"
    /\ \/ /\ failures' = failures \cup {KeyOf(f)}
          /\ atWork' \in {atWork, atWork \ {f}}
       \/ /\ UNCHANGED failures
          /\ atWork' = atWork \ {f}
    /\ Resolves(f, Failure(f))
    /\ UNCHANGED <<worldVars, asked, caller, awaits, gateVars, verdicts, shut>>

\* Nobody waits for what a flight that is over left behind.
WorkEnds(f) ==
    /\ f \in atWork /\ flight[f] = "over"
    /\ atWork' = atWork \ {f}
    /\ UNCHANGED <<worldVars, asked, caller, awaits, gateVars, cacheVars, inflight, flight,
                   probed, answer, shut>>

----------------------------------------------------------------------------
\* The host's shutdown cancels every probe task.  One that ran resolves its
\* future with a failure, and its worker thread and child go on, which no
\* cancellation reaches; one that had not begun never resolves its own.
ShutsDown ==
    /\ ~shut
    /\ shut' = TRUE
    /\ LET running == {f \in AsyncCallers : flight[f] = "probing"}
           unbegun == {f \in AsyncCallers : flight[f] = "created"}
       IN /\ flight' = [f \in Callers |->
                           IF f \in running \cup unbegun THEN "over" ELSE flight[f]]
          /\ answer' = [f \in Callers |-> IF f \in running THEN Failure(f) ELSE answer[f]]
          /\ inflight' = [inflight EXCEPT !["async"] = [k \in Keys |->
                             IF @[k] \in running THEN NoFlight ELSE @[k]]]
    /\ UNCHANGED <<worldVars, asked, caller, awaits, gateVars, cacheVars, atWork, probed>>

\* The CLI is a mounted install that updates itself under a running program.
BinaryUpdates ==
    /\ build < MaxBuild
    /\ build' = build + 1
    /\ UNCHANGED <<versioned, offers, asked, caller, awaits, gateVars, cacheVars, flightVars, shut>>

Probing(f) == ProbeStarts(f) \/ ProbeAnswers(f) \/ ProbeFails(f)
Asking(c) == AnsweredFromCache(c) \/ MissesCache(c) \/ ClaimsOrJoins(c) \/ ReadsAnswer(c)

Next ==
    \/ \E c \in Callers : \/ Asks(c) \/ Asking(c) \/ GivesUp(c) \/ TurnStarts(c)
                          \/ Probing(c) \/ WorkEnds(c)
    \/ ShutsDown \/ BinaryUpdates

Spec == Init /\ [][Next]_vars

\* Every probe ends: it has one deadline and a bounded cleanup (CliRuns).  A
\* caller that asked keeps running.  The bound of a follower's wait is not
\* counted on.
FairSpec ==
    /\ Spec
    /\ \A c \in Callers : WF_vars(Asking(c)) /\ WF_vars(Probing(c))

----------------------------------------------------------------------------
\* A caller is let through only on a verdict a probe of its own key gave: clean,
\* of a build that was mounted when it asked or came since, and of exactly the
\* build it found where a version is a file of its own.  So a turn runs a build
\* seen to be clean, but for an in-place update after the probe's child was
\* started (_evaluate_tool_surface: an update is exactly the event this check
\* exists for).
NoTurnPastADirtySurface ==
    \A c \in Callers : caller[c] \in {"passed", "started"} =>
        /\ \E f \in Callers : KeyOf(f) = KeyOf(c) /\ answer[f] = relied[c]
        /\ relied[c].surface = "clean" /\ offers[relied[c].build] = "clean"
        /\ relied[c].build \in asked[c] .. build
        /\ versioned => relied[c].build = asked[c]
        /\ caller[c] = "started" /\ offers[ran[c]] # "clean" =>
              ~versioned /\ ran[c] > relied[c].build

UnderWay(f) == flight[f] \in {"created", "probing"} \/ f \in atWork
GivenUp(f) == flight[f] = "over" /\ answer[f].surface = "failure"

\* Two probes of one key, their threads and children included, are under way in
\* one twin only if one of them was answered as failed by its own bound or by
\* the shutdown: never because a caller was cancelled or gave up in between,
\* the second probe that _verify_tool_surface_async was rewritten against.
OneProbeAtATime ==
    \A f, g \in Callers :
        /\ UnderWay(f) /\ UnderWay(g)
        /\ Twin(f) = Twin(g) /\ KeyOf(f) = KeyOf(g)
        => f = g \/ GivenUp(f) \/ GivenUp(g)

\* The shutdown took the flight's probe away before it began.
Abandoned(f) == shut /\ flight[f] = "over" /\ answer[f] = NoVerdict

\* A caller that waits is answered by the flight it waits for, also when that
\* flight's own caller is gone, when its bound passed while its child goes on,
\* and when the host shuts down while it probes; and without counting on the
\* bound of the caller's own wait, which is all that ends the wait for a probe
\* that the shutdown took away before it began.
EveryWaiterIsAnswered ==
    \A c \in Callers :
        caller[c] = "waiting" ~> (caller[c] # "waiting" \/ Abandoned(awaits[c]))

=============================================================================

------------------------------- MODULE CliRuns -------------------------------
(***************************************************************************)
(* The three users of a bounded CLI run, over one process pool: the rounds *)
(* of a Codex or Grok text turn (codex/transport.py, grok/transport.py),   *)
(* a Codex image (codex/image.py), and the cached status and catalog       *)
(* probes (process.CachedProbe), whose flight is itself one bounded run.   *)
(***************************************************************************)
EXTENDS BoundedRun

CONSTANTS Callers,          \* the threads that ask the cached probe
          Kinds,            \* what the jobs may be: a set of functions from Jobs
          Earlier,          \* the jobs that are runs of before the first state
          MaxGeneration     \* bound: how often the probe is cleared

ASSUME CallersAssumption ==
    IsFiniteSet(Callers) /\ Earlier \subseteq Jobs /\ MaxGeneration \in Nat
    /\ Kinds \subseteq [Jobs -> {"probe", "codex", "grok", "image", "none"}]

VARIABLES
    reader,       \* per job, where its reader or its flight's thread is
    generation,   \* CachedProbe._generation
    cached,       \* the flight whose answer is kept, if any
    inflight,     \* the flight in _inflight, if any
    flightGen,    \* per flight, the generation it was started in
    resolved,     \* the flights whose future has its result
    asks          \* per caller: idle, over, or the flight whose future it waits for

probeVars == <<generation, cached, inflight, flightGen, resolved, asks>>
vars == <<kind, runVars, reader, probeVars>>

(* run_cli_bounded has returned to its caller, or raised in it. *)
CallOver(j) == call[j] \in {"returned", "raised"}

Moves(j, place) == reader' = [reader EXCEPT ![j] = place]

-----------------------------------------------------------------------------
(* A round of a text turn: the token of the turn's home first, then, for    *)
(* Codex, a place in the pool.  The rounds of a turn follow each other.     *)
RoundBegins(j) ==
    /\ kind[j] \in {"codex", "grok"} /\ reader[j] = "idle"
    /\ \A i \in Jobs : kind[i] = kind[j] => reader[i] \in {"idle", "over"}
    /\ Reserved(j)
    /\ Moves(j, "admitting")
    /\ UNCHANGED <<kind, closing, claimed, tree, releaser, closer, channelVars, threadVars, slotVars,
                   probeVars>>

ImageBegins(j) ==
    /\ kind[j] = "image" /\ reader[j] = "idle"
    /\ Reserved(j)
    /\ Moves(j, "admitting")
    /\ UNCHANGED <<kind, closing, claimed, tree, releaser, closer, channelVars, threadVars, slotVars,
                   probeVars>>

(* A round that is refused, or an image whose thread does not start, gives  *)
(* the token back and then the place.                                       *)
Backs(j) ==
    /\ TokenReleased(j)
    /\ Moves(j, "refusing")
    /\ UNCHANGED call

(* The image's thread may fail to start, or run although starting raised.   *)
Admitted(j) ==
    /\ reader[j] = "admitting"
    /\ IF kind[j] \in Pooled /\ ~Admits(j)
         THEN Backs(j) /\ UNCHANGED slots
         ELSE /\ slots' = IF kind[j] \in Pooled THEN slots \cup {j} ELSE slots
              /\ \/ /\ call' = [call EXCEPT ![j] = "starting"]
                    /\ \/ Moves(j, "reading")
                       \/ kind[j] = "image" /\ Moves(j, "over")
                    /\ UNCHANGED homeVars
                 \/ kind[j] = "image" /\ Backs(j)
    /\ UNCHANGED <<kind, channelVars, callOut, work, workOut, recorded, child,
                   zombies, bound, probeVars>>

ReaderRefused(j) ==
    /\ reader[j] = "refusing" /\ releaser[j] = "none"
    /\ SlotFreed(j)
    /\ Moves(j, "over")
    /\ UNCHANGED <<kind, homeVars, channelVars, threadVars, probeVars>>

(* A line is accepted; or it reports an error, which aborts the run while   *)
(* the reader reads on; or it breaks the protocol, which ends the reading.  *)
ReaderTakesLine(j) ==
    /\ reader[j] = "reading" /\ LineReady(j)
    /\ \/ lines' = [lines EXCEPT ![j] = @ - 1] /\ UNCHANGED <<aborted, reader>>
       \/ kind[j] # "image" /\ AbortRequested(j) /\ UNCHANGED reader
       \/ AbortRequested(j) /\ Moves(j, "draining")
    /\ UNCHANGED <<kind, homeVars, sent, dropped, chan, threadVars, slotVars, probeVars>>

ReaderTakesOutcome(j) ==
    /\ reader[j] = "reading" /\ OutcomeReady(j)
    /\ Moves(j, "awaiting")
    /\ UNCHANGED <<kind, runVars, probeVars>>

(* receive gives the run up at cli_settle_deadline. *)
ReaderSettles(j) ==
    /\ reader[j] \in {"reading"} \cup (IF kind[j] = "image" THEN {"draining"} ELSE {})
    /\ lines[j] = 0 /\ chan[j] = "none"
    /\ Terminated(j, "gave_up")
    /\ UNCHANGED <<kind, homeVars, threadVars, slotVars, reader, probeVars>>

(* The turn's task is cancelled, also once more while it waits for the      *)
(* runner; the thread of an image only sees its abort signal.               *)
ReaderCancelled(j) ==
    /\ \/ reader[j] = "reading" /\ kind[j] = "image" /\ UNCHANGED reader
       \/ reader[j] \in {"reading", "awaiting"} /\ kind[j] # "image" /\ Moves(j, "draining")
       \/ reader[j] = "draining" /\ kind[j] # "image" /\ Moves(j, "over")
    /\ AbortRequested(j)
    /\ UNCHANGED <<kind, homeVars, sent, dropped, chan, threadVars, slotVars, probeVars>>

(* The turn waits for the runner and the image for the channel's outcome.   *)
ReaderEnds(j) ==
    /\ reader[j] \in {"awaiting", "draining"}
    /\ IF kind[j] = "image" THEN chan[j] # "none" ELSE CallOver(j)
    /\ AbortRequested(j)
    /\ Moves(j, "over")
    /\ UNCHANGED <<kind, homeVars, sent, dropped, chan, threadVars, slotVars, probeVars>>

(* aclose; a Grok round that cannot name its child closes the home itself.  *)
TurnCloses ==
    /\ \E j \in Jobs : HomeOf(j) = TurnHome
    /\ \A j \in Jobs : HomeOf(j) = TurnHome => reader[j] \in {"idle", "over"}
    /\ TurnHome \notin closing
    /\ CloseRequested(TurnHome)
    /\ UNCHANGED <<kind, channelVars, threadVars, slotVars, reader, probeVars>>

ImageCloses(j) ==
    /\ kind[j] = "image" /\ reader[j] = "over" /\ j \notin closing
    /\ CloseRequested(j)
    /\ UNCHANGED <<kind, channelVars, threadVars, slotVars, reader, probeVars>>

-----------------------------------------------------------------------------
(* get and refresh: a fresh answer, the flight in the air, or a new one.    *)
Ask(p) ==
    /\ asks[p] = "idle"
    /\ \/ cached # {} /\ asks' = [asks EXCEPT ![p] = "over"]
       \/ cached = {} /\ \E j \in inflight : asks' = [asks EXCEPT ![p] = j]
    /\ UNCHANGED <<kind, runVars, reader, generation, cached, inflight, flightGen, resolved>>

MayFly(p, j) ==
    /\ asks[p] = "idle" /\ cached = {} /\ inflight = {}
    /\ kind[j] = "probe" /\ reader[j] = "idle"

StartLeavesFlight(p, j) ==       \* mutant: the claim is not looked at
    /\ MayFly(p, j)
    /\ flightGen' = [flightGen EXCEPT ![j] = generation]
    /\ inflight' = {j}
    /\ \/ asks' = [asks EXCEPT ![p] = j] /\ Moves(j, "flying")
       \/ asks' = [asks EXCEPT ![p] = "over"] /\ reader' \in {[reader EXCEPT ![j] = "flying"],
                                                              [reader EXCEPT ![j] = "never"]}
    /\ UNCHANGED <<kind, runVars, generation, cached, resolved>>

(* _start_flight: Thread.start may raise.  The claim says whether a worker  *)
(* flies on, and others may join it, or nobody will ever resolve it.        *)
StartFlight(p, j) ==
    /\ MayFly(p, j)
    /\ flightGen' = [flightGen EXCEPT ![j] = generation]
    /\ \/ /\ inflight' = {j} /\ Moves(j, "flying")
          /\ \/ asks' = [asks EXCEPT ![p] = j]
             \/ asks' = [asks EXCEPT ![p] = "over"]
       \/ /\ asks' = [asks EXCEPT ![p] = "over"] /\ Moves(j, "never")
          /\ UNCHANGED inflight
    /\ UNCHANGED <<kind, runVars, generation, cached, resolved>>

(* The probe: a bounded run in a home of its own, which always ends.        *)
FlightProbes(j) ==
    /\ reader[j] = "flying"
    /\ Moves(j, "landing")
    /\ UNCHANGED <<kind, runVars, probeVars>>

PublishesAnyway(j) ==            \* mutant: the generation is not compared
    /\ reader[j] = "landing"
    /\ cached' = {j} /\ inflight' = inflight \ {j}
    /\ Moves(j, "published")
    /\ UNCHANGED <<kind, runVars, generation, flightGen, resolved, asks>>

(* _run_and_resolve: an answer, or the failure that is kept as one, is only *)
(* published in the generation it was asked in.                             *)
FlightPublishes(j) ==
    /\ reader[j] = "landing"
    /\ IF flightGen[j] = generation
         THEN cached' = {j} /\ inflight' = inflight \ {j}
         ELSE UNCHANGED <<cached, inflight>>
    /\ Moves(j, "published")
    /\ UNCHANGED <<kind, runVars, generation, flightGen, resolved, asks>>

FlightResolves(j) ==
    /\ reader[j] = "published"
    /\ resolved' = resolved \cup {j}
    /\ Moves(j, "over")
    /\ UNCHANGED <<kind, runVars, generation, cached, inflight, flightGen, asks>>

CallerAnswered(p) ==
    /\ asks[p] \in resolved
    /\ asks' = [asks EXCEPT ![p] = "over"]
    /\ UNCHANGED <<kind, runVars, reader, generation, cached, inflight, flightGen, resolved>>

(* CLI_PROBE_CALLER_TIMEOUT_SECONDS: the caller leaves, the flight goes on. *)
CallerTimesOut(p) ==
    /\ asks[p] \in Jobs \ resolved
    /\ asks' = [asks EXCEPT ![p] = "over"]
    /\ UNCHANGED <<kind, runVars, reader, generation, cached, inflight, flightGen, resolved>>

Clear ==
    /\ generation < MaxGeneration
    /\ generation' = generation + 1
    /\ cached' = {} /\ inflight' = {}
    /\ UNCHANGED <<kind, runVars, reader, flightGen, resolved, asks>>

(* CLI_LOGIN_STATUS_CACHE_SECONDS have passed. *)
Expire ==
    /\ cached # {} /\ cached' = {}
    /\ UNCHANGED <<kind, runVars, reader, generation, inflight, flightGen, resolved, asks>>

-----------------------------------------------------------------------------
Init ==
    /\ kind \in Kinds
    /\ LET earlier == {j \in Earlier : kind[j] \in Streamed} IN
         /\ RunInit(earlier)
         /\ reader = [j \in Jobs |-> IF j \in earlier THEN "over" ELSE "idle"]
    /\ generation = 0 /\ cached = {} /\ inflight = {}
    /\ flightGen = [j \in Jobs |-> 0] /\ resolved = {}
    /\ asks = [p \in Callers |-> "idle"]

(* The steps of the two threads of a bounded run and of its home. *)
WorkStep(j) == WorkActs(j) /\ UNCHANGED <<kind, reader, probeVars>>
CallStep(j) == CallActs(j) /\ UNCHANGED <<kind, reader, probeVars>>
HomeStep == HomeSteps /\ UNCHANGED <<kind, channelVars, threadVars, slotVars, reader, probeVars>>

ReaderActs(j) ==
    \/ Admitted(j) \/ ReaderRefused(j) \/ ReaderTakesLine(j) \/ ReaderTakesOutcome(j)
    \/ ReaderSettles(j) \/ ReaderEnds(j) \/ ImageCloses(j)

FlightActs(j) == FlightProbes(j) \/ FlightPublishes(j) \/ FlightResolves(j)

Next ==
    \/ HomeStep
    \/ \E j \in Jobs : \/ WorkStep(j) \/ CallStep(j)
                       \/ RoundBegins(j) \/ ImageBegins(j) \/ ReaderCancelled(j)
                       \/ ReaderActs(j) \/ FlightActs(j)
    \/ \E p \in Callers : \/ Ask(p) \/ CallerAnswered(p) \/ CallerTimesOut(p)
                          \/ \E j \in Jobs : StartFlight(p, j)
    \/ TurnCloses \/ Clear \/ Expire

Spec == Init /\ [][Next]_vars

(* Every wait ends, and the threads that wait for it or for each other run; *)
(* nothing is assumed of the worker, whose child may never end.             *)
FairSpec ==
    /\ Spec
    /\ \A j \in Jobs : WF_vars(CallStep(j)) /\ WF_vars(ReaderActs(j)) /\ WF_vars(FlightActs(j))
    /\ WF_vars(HomeStep)
    /\ \A p \in Callers : WF_vars(CallerAnswered(p))

-----------------------------------------------------------------------------
(* What a child uses is kept as long as it may live, also past the outcome, *)
(* a failed reap or the close of its turn: the token, the home's tree and   *)
(* the pool's place.  Nothing stays behind a run that is over for good,     *)
(* nor a closed home that nobody uses and nobody is about to look at.       *)
HomeAndSlotFollowTheChild ==
    /\ \A j \in Jobs :
         /\ child[j] = "alive" =>
              /\ j \in tokens /\ tree[HomeOf(j)] = "there"
              /\ kind[j] \in Pooled => j \in slots
         /\ work[j] = "ended" \/ (CallOver(j) /\ work[j] = "none") => j \notin tokens \cup slots
    /\ \A h \in closing :
         \/ tree[h] # "there"
         \/ closer[h] # "none" \/ \E j \in Jobs : HomeOf(j) = h /\ (j \in tokens \/ releaser[j] # "none")

(* The caller, the worker's record and the channel's reader never disagree  *)
(* about how one run ended, whoever of them gave it up first.               *)
OneOutcome ==
    \A j \in Jobs :
      /\ recorded[j] # "none" => chan[j] = recorded[j]
      /\ call[j] = "returned" => callOut[j] = recorded[j]

(* A reader that is told the run is complete has read every line of it,     *)
(* unless it asked for the abort itself.                                    *)
NoLineLost ==
    \A j \in Jobs :
      reader[j] = "awaiting" /\ chan[j] = "complete" /\ j \notin aborted => j \notin dropped

(* After a clear neither an answer nor a flight of an earlier generation is *)
(* handed out: not by a flight that lands late, nor by one joined late.     *)
ClearedAnswerNeverServed == \A j \in cached \cup inflight : flightGen[j] = generation

(* Whoever asked the probe is answered, and whoever reads a run comes to an *)
(* end, although the worker may hang, the threads may fail to start and the *)
(* child may never finish.                                                  *)
EveryoneIsAnswered ==
    /\ \A p \in Callers : asks[p] \in Jobs ~> asks[p] = "over"
    /\ \A j \in Jobs : reader[j] = "reading" ~> reader[j] = "over"
=============================================================================

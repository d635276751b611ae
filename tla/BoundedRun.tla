------------------------------ MODULE BoundedRun ------------------------------
(***************************************************************************)
(* process.run_cli_bounded: a caller with a deadline, a worker thread that *)
(* may outlive it, the child, the callbacks that free its home and its     *)
(* slot in codex.pool.CodexProcessPool, and the one outcome that both      *)
(* threads and the channel's reader are told.                              *)
(***************************************************************************)
EXTENDS PrivateHome, LineChannel

CONSTANTS MaxProcesses, MaxImages,   \* the caps of CodexProcessPool
          LinesPerRun                \* bound: the lines one child writes

ASSUME PoolAssumption ==
    MaxProcesses \in Nat \ {0} /\ MaxImages \in 1 .. MaxProcesses /\ LinesPerRun \in Nat

VARIABLES
    call,         \* per job, where the thread in run_cli_bounded is
    callOut,      \* the outcome this thread settles or returns
    work,         \* per job, where the worker thread is
    workOut,      \* the outcome of the worker
    recorded,     \* per job, state.outcome, or none
    child,        \* per job: none, alive, gone (confirmed empty and released)
    zombies,      \* the jobs whose first reap did not confirm
    slots, bound  \* the pool's reservations, and those with a pid

threadVars == <<call, callOut, work, workOut, recorded, child, zombies>>
slotVars == <<slots, bound>>
runVars == <<homeVars, channelVars, threadVars, slotVars>>

Pooled == {"codex", "image"}
Streamed == {"codex", "grok", "image"}       \* the kinds whose runs are followed

(* state.started is set as soon as the child is spawned. *)
Started(j) == child[j] # "none"

Recorded(j, outcome) == IF recorded[j] = "none" THEN outcome ELSE recorded[j]

-----------------------------------------------------------------------------
(* The pool.  A reservation is only bound while it is held. *)
Admits(j) ==
    /\ Cardinality(slots) < MaxProcesses
    /\ kind[j] = "image" => Cardinality({i \in slots : kind[i] = "image"}) < MaxImages

Bound(j) == bound' = IF j \in slots THEN bound \cup {j} ELSE bound

(* reap after a confirmed group; abandon_unspawned frees only an unbound one. *)
SlotFreed(j) ==
    /\ slots' = IF child[j] = "gone" \/ j \notin bound THEN slots \ {j} ELSE slots
    /\ bound' = bound \cap slots'

-----------------------------------------------------------------------------
(* The worker.  A spawn that fails releases the places and ends the run.    *)
WorkSpawns(j) ==
    /\ work[j] = "start"
    /\ \/ /\ child' = [child EXCEPT ![j] = "alive"]
          /\ Bound(j)
          /\ work' = [work EXCEPT ![j] = "exchange"]
          /\ UNCHANGED <<homeVars, workOut, slots>>
       \/ /\ TokenReleased(j)
          /\ work' = [work EXCEPT ![j] = "slot"]
          /\ workOut' = [workOut EXCEPT ![j] = "failed"]
          /\ UNCHANGED <<child, slotVars>>
    /\ UNCHANGED <<channelVars, call, callOut, recorded, zombies>>

(* A line of the child: it goes into the channel, or ends the exchange.     *)
ExchangeLine(j) ==
    /\ work[j] = "exchange" /\ sent[j] < LinesPerRun
    /\ \/ LineSent(j) /\ UNCHANGED <<work, workOut>>
       \/ /\ LineRefused(j)
          /\ work' = [work EXCEPT ![j] = "reap"]
          /\ workOut' = [workOut EXCEPT ![j] = "failed"]
    /\ UNCHANGED <<homeVars, call, callOut, recorded, child, zombies, slotVars>>

(* Otherwise it ends with both streams at their end, the abort, the         *)
(* deadline, the read limit or an error.                                    *)
ExchangeEnds(j) ==
    /\ work[j] = "exchange"
    /\ \E outcome \in {"complete", "failed"} : workOut' = [workOut EXCEPT ![j] = outcome]
    /\ work' = [work EXCEPT ![j] = "reap"]
    /\ sent' = [sent EXCEPT ![j] = 0]
    /\ UNCHANGED <<homeVars, lines, dropped, chan, aborted, call, callOut, recorded, child, zombies,
                   slotVars>>

(* _reap_or_hand_off: confirmed, and then on_reaped; or left to the         *)
(* background, also when it raises.                                         *)
WorkReaps(j) ==
    /\ work[j] = "reap"
    /\ \/ /\ child' = [child EXCEPT ![j] = "gone"]
          /\ TokenReleased(j)
          /\ work' = [work EXCEPT ![j] = "slot"]
          /\ UNCHANGED zombies
       \/ /\ zombies' = zombies \cup {j}
          /\ work' = [work EXCEPT ![j] = "settle"]
          /\ UNCHANGED <<homeVars, child>>
    /\ UNCHANGED <<channelVars, call, callOut, workOut, recorded, slotVars>>

WorkFreesSlot(j) ==
    /\ work[j] = "slot" /\ releaser[j] = "none"
    /\ SlotFreed(j)
    /\ work' = [work EXCEPT ![j] = IF j \in zombies THEN "ended" ELSE "settle"]
    /\ UNCHANGED <<homeVars, channelVars, call, callOut, workOut, recorded, child,
                   zombies>>

(* A prompt file that stays makes the outcome an error; then the channel is *)
(* closed, and the outcome that won is kept.                                *)
WorkCloses(j) ==
    /\ work[j] = "settle"
    /\ \E outcome \in {workOut[j]} \cup (IF kind[j] = "grok" THEN {"failed"} ELSE {}) :
         /\ Terminated(j, outcome)
         /\ workOut' = [workOut EXCEPT ![j] = Winner(j, outcome)]
    /\ work' = [work EXCEPT ![j] = "record"]
    /\ UNCHANGED <<homeVars, call, callOut, recorded, child, zombies, slotVars>>

WorkRecords(j) ==
    /\ work[j] = "record"
    /\ recorded' = [recorded EXCEPT ![j] = Recorded(j, workOut[j])]
    /\ workOut' = [workOut EXCEPT ![j] = "none"]
    /\ work' = [work EXCEPT ![j] = IF j \in zombies THEN "background" ELSE "ended"]
    /\ UNCHANGED <<homeVars, channelVars, call, callOut, child, zombies,
                   slotVars>>

(* _reap_in_background: confirmed later, or held until the process exits.   *)
WorkReapsLate(j) ==
    /\ work[j] = "background"
    /\ \/ /\ child' = [child EXCEPT ![j] = "gone"]
          /\ TokenReleased(j)
          /\ work' = [work EXCEPT ![j] = "slot"]
       \/ /\ work' = [work EXCEPT ![j] = "held"]
          /\ UNCHANGED <<homeVars, child>>
    /\ UNCHANGED <<channelVars, call, callOut, workOut, recorded, zombies, slotVars>>

WorkActs(j) ==
    \/ WorkSpawns(j) \/ ExchangeLine(j) \/ ExchangeEnds(j) \/ WorkReaps(j) \/ WorkFreesSlot(j)
    \/ WorkCloses(j) \/ WorkRecords(j) \/ WorkReapsLate(j)

-----------------------------------------------------------------------------
(* The caller.  Thread.start may raise: the start claim says who owns the   *)
(* run, the caller, which then settles it, or a worker that runs on.        *)
CallStarts(j) ==
    /\ call[j] = "starting"
    /\ \/ /\ work' = [work EXCEPT ![j] = "start"]
          /\ call' = [call EXCEPT ![j] = "waiting"]
          /\ UNCHANGED <<homeVars, callOut>>
       \/ /\ work' = [work EXCEPT ![j] = "start"]
          /\ call' = [call EXCEPT ![j] = "raising"]
          /\ UNCHANGED <<homeVars, callOut>>
       \/ /\ TokenReleased(j)
          /\ call' = [call EXCEPT ![j] = "slot"]
          /\ callOut' = [callOut EXCEPT ![j] = "failed"]
          /\ UNCHANGED work
    /\ UNCHANGED <<channelVars, workOut, recorded, child, zombies, slotVars>>

CallFreesSlot(j) ==
    /\ call[j] = "slot" /\ releaser[j] = "none"
    /\ SlotFreed(j)
    /\ call' = [call EXCEPT ![j] = "settle"]
    /\ UNCHANGED <<homeVars, channelVars, callOut, work, workOut, recorded, child,
                   zombies>>

(* The wait for the worker's outcome, until the deadline and, if a child    *)
(* was started, until the settle deadline; then it settles the run.  Time is *)
(* not counted: a wait may end at any moment, and every wait ends.          *)
CallWaits(j) ==
    /\ call[j] \in {"waiting", "settling"}
    /\ IF recorded[j] # "none"
         THEN /\ call' = [call EXCEPT ![j] = "returned"]
              /\ callOut' = [callOut EXCEPT ![j] = recorded[j]]
         ELSE \/ /\ call[j] = "waiting" /\ ~Started(j)
                 /\ call' = [call EXCEPT ![j] = "settle"]
                 /\ callOut' = [callOut EXCEPT ![j] = "gave_up"]
              \/ /\ call[j] = "waiting" /\ Started(j)
                 /\ call' = [call EXCEPT ![j] = "settling"]
                 /\ UNCHANGED callOut
              \/ /\ call[j] = "settling"
                 /\ call' = [call EXCEPT ![j] = "settle"]
                 /\ callOut' = [callOut EXCEPT ![j] = "gave_up"]
    /\ UNCHANGED <<homeVars, channelVars, work, workOut, recorded, child, zombies,
                   slotVars>>

CallIgnoresWinner(j) ==          \* mutant: what the channel ended with is not taken over
    /\ call[j] = "settle"
    /\ Terminated(j, callOut[j])
    /\ call' = [call EXCEPT ![j] = "record"]
    /\ UNCHANGED <<homeVars, callOut, work, workOut, recorded, child, zombies, slotVars>>

CallCloses(j) ==
    /\ call[j] = "settle"
    /\ Terminated(j, callOut[j])
    /\ callOut' = [callOut EXCEPT ![j] = Winner(j, @)]
    /\ call' = [call EXCEPT ![j] = "record"]
    /\ UNCHANGED <<homeVars, work, workOut, recorded, child, zombies, slotVars>>

CallRecords(j) ==
    /\ call[j] = "record"
    /\ recorded' = [recorded EXCEPT ![j] = Recorded(j, callOut[j])]
    /\ callOut' = [callOut EXCEPT ![j] = Recorded(j, callOut[j])]
    /\ call' = [call EXCEPT ![j] = "returned"]
    /\ UNCHANGED <<homeVars, channelVars, work, workOut, child, zombies, slotVars>>

(* run_publishing_failures: a run that raised ends its channel. *)
CallRaises(j) ==
    /\ call[j] = "raising"
    /\ Terminated(j, "failed")
    /\ call' = [call EXCEPT ![j] = "raised"]
    /\ UNCHANGED <<homeVars, callOut, work, workOut, recorded, child, zombies,
                   slotVars>>

CallActs(j) ==
    \/ CallStarts(j) \/ CallFreesSlot(j) \/ CallWaits(j) \/ CallCloses(j) \/ CallRecords(j)
    \/ CallRaises(j)

(* earlier: runs of long ago, whose child is left to a background reap. *)
RunInit(earlier) ==
    LET Was(before, now) == [j \in Jobs |-> IF j \in earlier THEN before ELSE now] IN
    /\ HomeInit(earlier) /\ ChannelInit(Jobs, earlier)
    /\ call = Was("returned", "new") /\ callOut = Was("failed", "none")
    /\ work = Was("background", "none") /\ workOut = Was("none", "none")
    /\ zombies = earlier
    /\ recorded = Was("failed", "none") /\ child = Was("alive", "none")
    /\ slots = {j \in earlier : kind[j] \in Pooled} /\ bound = {j \in earlier : kind[j] \in Pooled}
=============================================================================

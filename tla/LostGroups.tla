------------------------------ MODULE LostGroups ------------------------------
(***************************************************************************)
(* The places of a CLI's processes: anchored_turn.CliProcessPool and the   *)
(* reap of a turn, lost_groups' registry of the leaders whose group was    *)
(* not shown empty, and confirm_group_gone, which several callers try, each *)
(* attempt with a worker thread that outlives a cancelled caller.          *)
(***************************************************************************)
EXTENDS AnchoredLeader

CONSTANTS Callers,      \* the tasks that confirm lost groups, from any loop
          PoolLimit     \* CliProcessPool.limit

ASSUME PoolAssumption == PoolLimit \in Nat \ {0}

VARIABLES
    turn,            \* where anchored_turn_child is
    openPipes,       \* the turns whose door still has its parent side open
    reservations,    \* CliProcessPool._reservations
    homes,           \* the turns whose home reservation is held
    entries,         \* the turns whose leader is in _lost_groups
    leaderReleased,  \* _LostGroup.leader_released
    holders,         \* _Attempt.holders of the entry's attempt, 0 without one
    caller,          \* where a call of confirm_group_gone is
    target           \* the turn whose group it confirms, as a set

lostVars == <<entries, leaderReleased, holders>>
placeVars == <<reservations, homes>>
callerVars == <<caller, target>>
vars == <<leaderVars, turn, openPipes, placeVars, lostVars, callerVars>>

-----------------------------------------------------------------------------
(* astream_cli_run: the run's tree is made, and its home reserved; a setup   *)
(* that fails, or an adapter that cannot start, ends the turn.              *)
OpenDirectories(t) ==
    /\ turn[t] = "new"
    /\ \/ homes' = homes \cup {t} /\ turn' = [turn EXCEPT ![t] = "opened"]
       \/ UNCHANGED homes /\ turn' = [turn EXCEPT ![t] = "over"]
    /\ UNCHANGED <<leaderVars, openPipes, reservations, lostVars, callerVars>>

(* LastHolderRemoval: the last of the context, which is left in the step    *)
(* that ends the turn, and of the home's reservation removes the tree.      *)
TreeRemoved(t) == turn[t] = "over" /\ t \notin homes

(* reserve: a slot before the spawn, or the home given back at once. *)
Reserve(t) ==
    /\ turn[t] = "opened"
    /\ IF Cardinality(reservations) < PoolLimit
         THEN /\ reservations' = reservations \cup {t}
              /\ turn' = [turn EXCEPT ![t] = "reserved"]
              /\ UNCHANGED homes
         ELSE /\ homes' = homes \ {t}
              /\ turn' = [turn EXCEPT ![t] = "over"]
              /\ UNCHANGED reservations
    /\ UNCHANGED <<leaderVars, openPipes, lostVars, callerVars>>

(* pool.release: the slot, then the home. *)
Released(t) ==
    /\ reservations' = reservations \ {t}
    /\ homes' = homes \ {t}

StartFails(t) ==
    /\ turn[t] = "reserved"
    /\ Released(t)
    /\ turn' = [turn EXCEPT ![t] = "over"]
    /\ UNCHANGED <<leaderVars, openPipes, lostVars, callerVars>>

(* Popen returned; the watcher's launch decides whether the turn begins.    *)
Start(t) ==
    /\ turn[t] = "reserved"
    /\ leader' = [leader EXCEPT ![t] = "running"]
    /\ status' = [status EXCEPT ![t] = "RUNNING"]
    /\ openPipes' = openPipes \cup {t}
    /\ \/ /\ watcher' = [watcher EXCEPT ![t] = "waiting"]
          /\ turn' = [turn EXCEPT ![t] = "body"]
       \/ /\ watcher' = [watcher EXCEPT ![t] = "ended"]     \* abandoned
          /\ turn' = [turn EXCEPT ![t] = "killing"]
    /\ UNCHANGED <<members, reapedBy, hasCode, published, worker, census, placeVars,
                   lostVars, callerVars>>

(* _kill_and_reap, which blocks the loop under the lock: SIGKILL, waitpid. *)
RollbackKills(t) ==
    /\ turn[t] = "killing"
    /\ \/ /\ MayMissGroup(t)
          /\ Applied(t, "gone")
          /\ turn' = [turn EXCEPT ![t] = "rolled_back"]
          /\ UNCHANGED kernelVars
       \/ /\ MayReachGroup(t)
          /\ SigkillSent(t)
          /\ turn' = [turn EXCEPT ![t] = "reaping"]
          /\ UNCHANGED <<reapedBy, status, hasCode>>
    /\ UNCHANGED <<watcher, published, worker, census, openPipes, placeVars, lostVars, callerVars>>

RollbackReaps(t) ==
    /\ turn[t] = "reaping"
    /\ \/ /\ leader[t] = "zombie"
          /\ leader' = [leader EXCEPT ![t] = "reaped"]
          /\ reapedBy' = [reapedBy EXCEPT ![t] = "handle"]
          /\ Applied(t, "reaped")
       \/ /\ leader[t] = "reaped"
          /\ Applied(t, "gone")
          /\ UNCHANGED <<leader, reapedBy>>
    /\ turn' = [turn EXCEPT ![t] = "rolled_back"]
    /\ UNCHANGED <<members, watcher, published, worker, census, openPipes, placeVars, lostVars,
                   callerVars>>

(* The start's error reaches anchored_turn_child, which frees the place. *)
StartRaises(t) ==
    /\ turn[t] = "rolled_back"
    /\ openPipes' = openPipes \ {t}
    /\ Released(t)
    /\ turn' = [turn EXCEPT ![t] = "over"]
    /\ UNCHANGED <<leaderVars, lostVars, callerVars>>

-----------------------------------------------------------------------------
(* The body ends: astream_cli_run read the output and saw the exit, or      *)
(* anything was raised, a cancellation too.  The reap has its shield.       *)
BodyEnds(t) ==
    /\ turn[t] = "body"
    /\ turn' = [turn EXCEPT ![t] = IF t \in hasCode THEN "kill" ELSE "sigterm"]
    /\ UNCHANGED <<leaderVars, openPipes, placeVars, lostVars, callerVars>>

RetainNothing(t) ==              \* mutant: a failing reap leaves no name behind
    /\ turn' = [turn EXCEPT ![t] = "over"]
    /\ UNCHANGED lostVars

(* _retain_unreleased_leader: the leader keeps slot and home under a name. *)
Retain(t) ==
    /\ turn' = [turn EXCEPT ![t] = "over"]
    /\ entries' = entries \cup {t}
    /\ UNCHANGED <<leaderReleased, holders>>

(* _offer_sigterm, which also may find the leader lost, or fail. *)
OfferSigterm(t) ==
    /\ turn[t] = "sigterm"
    /\ LockFree(t)
    /\ \/ /\ status[t] \in Anchored /\ MayReachGroup(t)
          /\ turn' = [turn EXCEPT ![t] = "grace"]
          /\ UNCHANGED <<handleVars, lostVars>>
       \/ /\ status[t] \in Anchored /\ MayMissGroup(t)
          /\ Applied(t, "gone") /\ Announced(t, "gone")
          /\ Retain(t)
       \/ Retain(t) /\ UNCHANGED handleVars
    /\ UNCHANGED <<kernelVars, watcher, worker, census, openPipes, placeVars, callerVars>>

(* exited(): the event, and a code or ChildIdentityLost; or the timeout. *)
GraceEnds(t) ==
    /\ turn[t] = "grace"
    /\ IF published[t] = "set" /\ t \notin hasCode
         THEN Retain(t)
         ELSE turn' = [turn EXCEPT ![t] = "kill"] /\ UNCHANGED lostVars
    /\ UNCHANGED <<leaderVars, openPipes, placeVars, callerVars>>

(* kill_until_gone: an attempt in a worker thread. *)
TurnKills(t) ==
    /\ turn[t] = "kill"
    /\ turn' = [turn EXCEPT ![t] = "counting"]
    /\ worker' = [worker EXCEPT ![t] = "kill"]
    /\ UNCHANGED <<kernelVars, handleVars, watcher, census, openPipes, placeVars, lostVars, callerVars>>

ConfirmedInTime(t) ==            \* mutant: any count that ended in time confirms
    census[t] \in {"empty", "live"}

Confirmed(t) == census[t] = "empty"

(* Its count: again while live and before the deadline; empty confirms      *)
(* unless it came late; an error ends the reap.                             *)
TurnCounted(t) ==
    /\ turn[t] = "counting" /\ worker[t] = "over"
    /\ worker' = [worker EXCEPT ![t] = "idle"]
    /\ \/ census[t] = "live" /\ turn' = [turn EXCEPT ![t] = "kill"] /\ UNCHANGED lostVars
       \/ Confirmed(t) /\ turn' = [turn EXCEPT ![t] = "exit"] /\ UNCHANGED lostVars
       \/ Retain(t)
    /\ UNCHANGED <<kernelVars, handleVars, watcher, census, openPipes, placeVars, callerVars>>

(* AnchoredChild.release closes the parent side unless still anchored. *)
PipesClosedIfDone(t) ==
    openPipes' = IF status'[t] \in Anchored THEN openPipes ELSE openPipes \ {t}

(* The exit is published within its bound: release_leader_if_gone and, when *)
(* the leader was reaped, the place.  Else, or on an error, it is retained. *)
TurnReleases(t) ==
    /\ turn[t] = "exit"
    /\ \/ /\ published[t] = "set" /\ t \in hasCode
          /\ Reaped(t) /\ PipesClosedIfDone(t)
          /\ Released(t)
          /\ turn' = [turn EXCEPT ![t] = "over"]
          /\ UNCHANGED lostVars
       \/ /\ published[t] = "set" /\ t \in hasCode
          /\ NotReaped(t) /\ PipesClosedIfDone(t)
          /\ Retain(t)
          /\ UNCHANGED placeVars
       \/ /\ Retain(t)
          /\ UNCHANGED <<kernelVars, handleVars, openPipes, placeVars>>
    /\ UNCHANGED <<watcher, worker, census, callerVars>>

-----------------------------------------------------------------------------
(* confirm_group_gone: _begin_attempt, and the worker's start without an    *)
(* await between.  A call beside an attempt answers False at once.          *)
BeginAttempt(c, t) ==
    /\ caller[c] = "idle"
    /\ t \in entries /\ holders[t] = 0
    /\ target' = [target EXCEPT ![c] = {t}]
    /\ IF t \in leaderReleased
         THEN /\ holders' = [holders EXCEPT ![t] = 1]
              /\ caller' = [caller EXCEPT ![c] = "slot"]
              /\ UNCHANGED worker
         ELSE /\ holders' = [holders EXCEPT ![t] = 2]
              /\ worker' = [worker EXCEPT ![t] = "kill"]
              /\ caller' = [caller EXCEPT ![c] = "asking"]
    /\ UNCHANGED <<kernelVars, handleVars, watcher, census, turn, openPipes, placeVars, entries,
                   leaderReleased>>

LeaveForgotten(c, t) ==          \* mutant: a cancelled call stays a holder
    /\ caller' = [caller EXCEPT ![c] = "idle"]
    /\ target' = [target EXCEPT ![c] = {}]
    /\ UNCHANGED holders

(* _leave of the call. *)
Leave(c, t) ==
    /\ caller' = [caller EXCEPT ![c] = "idle"]
    /\ target' = [target EXCEPT ![c] = {}]
    /\ holders' = [holders EXCEPT ![t] = @ - 1]

(* worker.start() raises, before the thread began or after it did.  The     *)
(* claim says which: a worker that runs leaves by itself.                   *)
WorkerStartFails(c, t) ==
    /\ caller[c] = "asking" /\ target[c] = {t} /\ worker[t] = "kill"
    /\ caller' = [caller EXCEPT ![c] = "idle"]
    /\ target' = [target EXCEPT ![c] = {}]
    /\ \/ /\ holders' = [holders EXCEPT ![t] = @ - 2]
          /\ worker' = [worker EXCEPT ![t] = "idle"]
       \/ /\ holders' = [holders EXCEPT ![t] = @ - 1]
          /\ UNCHANGED worker
    /\ UNCHANGED <<kernelVars, handleVars, watcher, census, turn, openPipes, placeVars, entries,
                   leaderReleased>>

(* The worker leaves in its own thread, then publishes. *)
WorkerLeaves(t) ==
    /\ t \in entries /\ worker[t] = "over"
    /\ holders' = [holders EXCEPT ![t] = @ - 1]
    /\ caller' = [c \in Callers |-> IF caller[c] = "asking" /\ target[c] = {t}
                                       THEN "counted" ELSE caller[c]]
    /\ worker' = [worker EXCEPT ![t] = "idle"]
    /\ UNCHANGED <<kernelVars, handleVars, watcher, census, turn, openPipes, placeVars, entries,
                   leaderReleased, target>>

(* The call is cancelled while it waits; its worker goes on. *)
CancelCall(c, t) ==
    /\ caller[c] \in {"asking", "counted"} /\ target[c] = {t}
    /\ Leave(c, t)
    /\ UNCHANGED <<leaderVars, turn, openPipes, placeVars, entries, leaderReleased>>

(* The call reads the count: the leader is released only after an empty one *)
(* and with a committed exit.                                               *)
CallReleasesLeader(c, t) ==
    /\ caller[c] = "counted" /\ target[c] = {t}
    /\ \/ /\ census[t] = "empty" /\ t \in hasCode
          /\ Reaped(t) /\ PipesClosedIfDone(t)
          /\ leaderReleased' = leaderReleased \cup {t}
          /\ caller' = [caller EXCEPT ![c] = "slot"]
          /\ UNCHANGED <<holders, target>>
       \/ /\ census[t] = "empty" /\ t \in hasCode
          /\ NotReaped(t) /\ PipesClosedIfDone(t)
          /\ Leave(c, t)
          /\ UNCHANGED leaderReleased
       \/ /\ ~(census[t] = "empty" /\ t \in hasCode)
          /\ Leave(c, t)
          /\ UNCHANGED <<kernelVars, handleVars, openPipes, leaderReleased>>
    /\ UNCHANGED <<watcher, worker, census, turn, placeVars, entries>>

(* release_slot, which may raise after the slot went, and with it the entry *)
(* or not: the next attempt resumes here, without a signal.                 *)
CallFreesPlace(c, t) ==
    /\ caller[c] = "slot" /\ target[c] = {t}
    /\ reservations' = reservations \ {t}
    /\ Leave(c, t)
    /\ \/ homes' = homes \ {t} /\ entries' = entries \ {t}
       \/ UNCHANGED <<homes, entries>>
    /\ UNCHANGED <<leaderVars, turn, openPipes, leaderReleased>>

-----------------------------------------------------------------------------
Init ==
    /\ leader = [t \in Turns |-> "none"] /\ members = [t \in Turns |-> "none"]
    /\ reapedBy = [t \in Turns |-> "nobody"]
    /\ status = [t \in Turns |-> "none"] /\ hasCode = {}
    /\ watcher = [t \in Turns |-> "none"] /\ published = [t \in Turns |-> "no"]
    /\ worker = [t \in Turns |-> "idle"] /\ census = [t \in Turns |-> "none"]
    /\ turn = [t \in Turns |-> "new"] /\ openPipes = {}
    /\ reservations = {} /\ homes = {}
    /\ entries = {} /\ leaderReleased = {} /\ holders = [t \in Turns |-> 0]
    /\ caller = [c \in Callers |-> "idle"] /\ target = [c \in Callers |-> {}]

ThreadsAct(t) ==
    /\ \/ WatcherActs(t) \/ ExitPublished(t) \/ WorkerKills(t) \/ WorkerCounts(t)
    /\ UNCHANGED <<turn, openPipes, placeVars, lostVars, callerVars>>

ProcessesAct(t) == KernelActs(t) /\ UNCHANGED <<turn, openPipes, placeVars, lostVars, callerVars>>

TurnActs(t) ==
    \/ OpenDirectories(t)
    \/ Reserve(t) \/ StartFails(t) \/ Start(t)
    \/ RollbackKills(t) \/ RollbackReaps(t) \/ StartRaises(t)
    \/ BodyEnds(t) \/ OfferSigterm(t) \/ GraceEnds(t) \/ TurnKills(t) \/ TurnCounted(t)
    \/ TurnReleases(t)

CallerActs(c, t) ==
    \/ BeginAttempt(c, t) \/ WorkerStartFails(c, t) \/ CancelCall(c, t)
    \/ CallReleasesLeader(c, t) \/ CallFreesPlace(c, t)

Next ==
    \/ \E t \in Turns : ThreadsAct(t) \/ ProcessesAct(t) \/ TurnActs(t) \/ WorkerLeaves(t)
    \/ \E c \in Callers, t \in Turns : CallerActs(c, t)

Spec == Init /\ [][Next]_vars

(* Threads run and a call that is answered runs on.  The watcher gets the   *)
(* lock which is free again and again: attempts come one interval apart.    *)
(* That a body ends, or that anybody confirms, nothing promises.            *)
Fairness ==
    /\ \A t \in Turns :
         /\ SF_vars(WatcherActs(t) /\ UNCHANGED <<turn, openPipes, placeVars, lostVars, callerVars>>)
         /\ WF_vars(ExitPublished(t) /\ UNCHANGED <<turn, openPipes, placeVars, lostVars, callerVars>>)
         /\ WF_vars((WorkerKills(t) \/ WorkerCounts(t))
                      /\ UNCHANGED <<turn, openPipes, placeVars, lostVars, callerVars>>)
         /\ WF_vars(WorkerLeaves(t))
    /\ \A c \in Callers, t \in Turns :
         WF_vars(CallReleasesLeader(c, t)) /\ WF_vars(CallFreesPlace(c, t))

FairSpec == Spec /\ Fairness

-----------------------------------------------------------------------------
TypeOK ==
    /\ leader \in [Turns -> {"none", "running", "doomed", "zombie", "reaped"}]
    /\ members \in [Turns -> {"none", "alive", "doomed"}]
    /\ reapedBy \in [Turns -> {"nobody", "handle", "elsewhere"}]
    /\ status \in [Turns -> {"none", "RUNNING", "EXITED", "RELEASED", "LOST"}]
    /\ hasCode \subseteq Turns
    /\ watcher \in [Turns -> {"none", "waiting", "saw_exit", "saw_loss", "saw_stop", "consuming",
                              "ended"}]
    /\ published \in [Turns -> {"no", "announced", "set"}]
    /\ worker \in [Turns -> {"idle", "kill", "count", "over"}]
    /\ census \in [Turns -> {"none", "raised"} \cup AnyCount]
    /\ turn \in [Turns -> {"new", "opened", "reserved", "killing", "reaping", "rolled_back", "body",
                           "sigterm", "grace", "kill", "counting", "exit", "over"}]
    /\ reservations \subseteq Turns /\ Cardinality(reservations) <= PoolLimit
    /\ homes \subseteq Turns /\ openPipes \subseteq Turns
    /\ entries \subseteq Turns /\ leaderReleased \subseteq entries \cup (Turns \ reservations)
    /\ holders \in [Turns -> 0 .. 2]
    /\ caller \in [Callers -> {"idle", "asking", "counted", "slot"}]
    /\ target \in [Callers -> SUBSET Turns]

(* A place is never free beside a group whose end nobody knows: once a turn *)
(* is over and its slot is free, or its tree removed, its leader was reaped *)
(* by the handle after a count that found the group empty, and its pipes    *)
(* are closed.  (A start that was rolled back only killed the group.)       *)
PlaceNeverFreeBesideALiveGroup ==
    \A t \in Turns :
        turn[t] = "over" /\ leader[t] # "none" /\ (t \notin reservations \/ TreeRemoved(t))
            => /\ leader[t] = "reaped" /\ t \notin openPipes
               /\ IF census[t] = "none" THEN members[t] # "alive"
                                        ELSE members[t] = "none" /\ reapedBy[t] = "handle"

(* Once the handle reaped the leader its number is free: no thread of the   *)
(* handle kills, counts or waits on that number any more.                   *)
NumberNeverUsedAfterReap ==
    \A t \in Turns : reapedBy[t] = "handle" =>
        worker[t] # "count" /\ watcher[t] \notin {"waiting", "saw_stop", "consuming"}

(* What a finished turn still holds, the slot or only the home after a      *)
(* failed release_slot, has a name under which a later call can free it.    *)
(* Code: retain_lost_group, the exit of AnchoredTurn, the pools' reserve.   *)
HeldPlaceHasAName ==
    /\ TypeOK
    /\ \A t \in Turns : turn[t] = "over" /\ t \in reservations \cup homes => t \in entries

(* An attempt ends, however its call was cancelled or its worker started:   *)
(* otherwise every later call for the group would answer False.             *)
AttemptEnds == \A t \in Turns : holders[t] > 0 ~> holders[t] = 0

(* The end of a leader the watcher owns is published, an exit as a loss,    *)
(* whichever thread met it first; a waiter on exited() is never forgotten.  *)
EndIsPublished ==
    \A t \in Turns :
        turn[t] = "body" /\ leader[t] \in {"zombie", "reaped"} ~> published[t] = "set"
=============================================================================

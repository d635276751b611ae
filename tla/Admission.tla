------------------------------ MODULE Admission ------------------------------
(***************************************************************************)
(* The service's admission places across its runs: admission.AdmissionSlot *)
(* and Lease, their users in app (the rejection path and _RunResponse), in *)
(* run_events (hand_over and run_over) and in quarantine.Quarantine.       *)
(* A run itself is reduced to what RunContract promises of it: its runner  *)
(* closes, then its record ends and its place leaves it in the same step.  *)
(***************************************************************************)
EXTENDS Integers, FiniteSets

CONSTANTS Runs,           \* the requests that reach a subscription route
          Places,         \* runs.max_parallel_cli_runs
          GroupsPerRun    \* bound: process groups one run may lose

ASSUME AdmissionAssumption ==
    /\ Places \in Nat \ {0}
    /\ GroupsPerRun \in Nat
    /\ IsFiniteSet(Runs)

VARIABLES
    stage,        \* where each run's request and response are
    holders,      \* AdmissionSlot._holders
    runner,       \* whether the run's runner is "none", "active" or "closed"
    met,          \* the lost groups the run's pump met
    gone,         \* groups the kernel has no member of any more
    retry,        \* the quarantine's task of the run
    unconfirmed,  \* the groups the task still asks about
    toAsk         \* those of them not yet asked in this round

vars == <<stage, holders, runner, met, gone, retry, unconfirmed, toAsk>>

Groups == Runs \X (1..GroupsPerRun)
GroupsOf(r) == {g \in Groups : g[1] = r}
Leases == Runs \X {"run", "quarantine"}
RunLease(r) == <<r, "run">>
QuarantineLease(r) == <<r, "quarantine">>

-----------------------------------------------------------------------------
(* AdmissionSlot *)

Full == Cardinality(holders) >= Places
Freed(lease) == holders \ {lease}

(* hand_over: the successor holds the place only if the lease still did. *)
Transferred(r) ==
    IF RunLease(r) \in holders
      THEN (holders \ {RunLease(r)}) \cup {QuarantineLease(r)}
      ELSE holders

-----------------------------------------------------------------------------
(* app._admitted: without an await from try_take to the response.           *)

Busy(r) ==
    /\ stage[r] = "new"
    /\ Full
    /\ stage' = [stage EXCEPT ![r] = "busy"]
    /\ UNCHANGED <<holders, runner, met, gone, retry, unconfirmed, toAsk>>

(* The capability is too large or making the response fails: _release.      *)
Refuse(r) ==
    /\ stage[r] = "new"
    /\ ~Full
    /\ stage' = [stage EXCEPT ![r] = "refused"]
    /\ UNCHANGED <<holders, runner, met, gone, retry, unconfirmed, toAsk>>

AdmitOverbooking(r) ==           \* mutant: > for >= in try_take
    /\ stage[r] = "new"
    /\ Cardinality(holders) <= Places
    /\ stage' = [stage EXCEPT ![r] = "admitted"]
    /\ holders' = holders \cup {RunLease(r)}
    /\ UNCHANGED <<runner, met, gone, retry, unconfirmed, toAsk>>

Admit(r) ==
    /\ stage[r] = "new"
    /\ ~Full
    /\ stage' = [stage EXCEPT ![r] = "admitted"]
    /\ holders' = holders \cup {RunLease(r)}
    /\ UNCHANGED <<runner, met, gone, retry, unconfirmed, toAsk>>

-----------------------------------------------------------------------------
(* app._RunResponse around run_events.run_frames.                           *)

(* Starlette iterates the frames: the run is supervised from here on. *)
BeginFrames(r) ==
    /\ stage[r] = "admitted"
    /\ stage' = [stage EXCEPT ![r] = "streaming"]
    /\ runner' = [runner EXCEPT ![r] = "active"]
    /\ UNCHANGED <<holders, met, gone, retry, unconfirmed, toAsk>>

(* The runner is closed; the pump has met every group the run lost. *)
CloseRunner(r) ==
    /\ runner[r] = "active"
    /\ runner' = [runner EXCEPT ![r] = "closed"]
    /\ \E lostGroups \in SUBSET GroupsOf(r) : met' = [met EXCEPT ![r] = lostGroups]
    /\ UNCHANGED <<stage, holders, gone, retry, unconfirmed, toAsk>>

(* hand_over starts the quarantine's task, run_over releases the run's lease. *)
RunOver(r) ==
    /\ stage[r] = "streaming"
    /\ runner[r] = "closed"
    /\ stage' = [stage EXCEPT ![r] = "over"]
    /\ IF met[r] = {}
         THEN /\ holders' = Freed(RunLease(r))
              /\ UNCHANGED <<retry, unconfirmed>>
         ELSE /\ holders' = Transferred(r) \ {RunLease(r)}
              /\ retry' = [retry EXCEPT ![r] = "waiting"]
              /\ unconfirmed' = [unconfirmed EXCEPT ![r] = met[r]]
    /\ UNCHANGED <<runner, met, gone, toAsk>>

ResponseLeavesUnbegunHolding(r) ==   \* mutant: only run_over releases the lease
    /\ stage[r] \in {"admitted", "over"}
    /\ stage' = [stage EXCEPT ![r] = "left"]
    /\ UNCHANGED <<holders, runner, met, gone, retry, unconfirmed, toAsk>>

(* The response's exit releases its lease once more: it frees the place of  *)
(* a run whose frames never began, and nothing for a run that is over.      *)
ResponseLeaves(r) ==
    /\ stage[r] \in {"admitted", "over"}
    /\ stage' = [stage EXCEPT ![r] = "left"]
    /\ holders' = Freed(RunLease(r))
    /\ UNCHANGED <<runner, met, gone, retry, unconfirmed, toAsk>>

-----------------------------------------------------------------------------
(* quarantine.Quarantine._free_when_gone *)

RetryDue(r) ==
    /\ retry[r] = "waiting"
    /\ retry' = [retry EXCEPT ![r] = "asking"]
    /\ toAsk' = [toAsk EXCEPT ![r] = unconfirmed[r]]
    /\ UNCHANGED <<stage, holders, runner, met, gone, unconfirmed>>

(* confirm_group_gone answers True only for a group that is gone. *)
Confirmed(r, g) ==
    /\ retry[r] = "asking"
    /\ g \in toAsk[r] \cap gone
    /\ toAsk' = [toAsk EXCEPT ![r] = @ \ {g}]
    /\ unconfirmed' = [unconfirmed EXCEPT ![r] = @ \ {g}]
    /\ UNCHANGED <<stage, holders, runner, met, gone, retry>>

(* False, or an attempt that raised: asked again in the next round. *)
NotConfirmed(r, g) ==
    /\ retry[r] = "asking"
    /\ g \in toAsk[r]
    /\ toAsk' = [toAsk EXCEPT ![r] = @ \ {g}]
    /\ UNCHANGED <<stage, holders, runner, met, gone, retry, unconfirmed>>

RoundEndsOnFirst(r) ==           \* mutant: one confirmed group frees the place
    /\ retry[r] = "asking"
    /\ toAsk[r] = {}
    /\ IF unconfirmed[r] # met[r]
         THEN /\ retry' = [retry EXCEPT ![r] = "done"]
              /\ holders' = Freed(QuarantineLease(r))
         ELSE /\ retry' = [retry EXCEPT ![r] = "waiting"]
              /\ UNCHANGED holders
    /\ UNCHANGED <<stage, runner, met, gone, unconfirmed, toAsk>>

RoundEnds(r) ==
    /\ retry[r] = "asking"
    /\ toAsk[r] = {}
    /\ IF unconfirmed[r] = {}
         THEN /\ retry' = [retry EXCEPT ![r] = "done"]
              /\ holders' = Freed(QuarantineLease(r))
         ELSE /\ retry' = [retry EXCEPT ![r] = "waiting"]
              /\ UNCHANGED holders
    /\ UNCHANGED <<stage, runner, met, gone, unconfirmed, toAsk>>

(* The kernel: the last member of a lost group is reaped. *)
GroupGoes(g) ==
    /\ g \in met[g[1]] \ gone
    /\ gone' = gone \cup {g}
    /\ UNCHANGED <<stage, holders, runner, met, retry, unconfirmed, toAsk>>

-----------------------------------------------------------------------------
Init ==
    /\ stage = [r \in Runs |-> "new"]
    /\ holders = {}
    /\ runner = [r \in Runs |-> "none"]
    /\ met = [r \in Runs |-> {}]
    /\ gone = {}
    /\ retry = [r \in Runs |-> "none"]
    /\ unconfirmed = [r \in Runs |-> {}]
    /\ toAsk = [r \in Runs |-> {}]

Serve(r) == Busy(r) \/ Refuse(r) \/ Admit(r)
Respond(r) == BeginFrames(r) \/ RunOver(r) \/ ResponseLeaves(r)
Ask(r) == \E g \in GroupsOf(r) : Confirmed(r, g) \/ NotConfirmed(r, g)
Retry(r) == RetryDue(r) \/ RoundEnds(r)

(* Every request is answered and no place is held any more. *)
Over ==
    /\ \A r \in Runs : stage[r] \in {"busy", "refused", "left"} /\ retry[r] \in {"none", "done"}
    /\ UNCHANGED vars

Next ==
    \/ \E r \in Runs : Serve(r) \/ Respond(r) \/ CloseRunner(r) \/ Ask(r) \/ Retry(r)
    \/ \E g \in Groups : GroupGoes(g)
    \/ Over

Spec == Init /\ [][Next]_vars

(* A run's own liveness is SupervisedRun's: its runner closes.  A killed    *)
(* group is reaped in the end, and an attempt at a gone group that is made  *)
(* again and again is not for ever cut short.                               *)
Fairness ==
    /\ \A r \in Runs : WF_vars(Respond(r)) /\ WF_vars(CloseRunner(r)) /\ WF_vars(Ask(r))
                       /\ WF_vars(Retry(r))
    /\ \A g \in Groups : WF_vars(GroupGoes(g)) /\ SF_vars(Confirmed(g[1], g))

FairSpec == Spec /\ Fairness

-----------------------------------------------------------------------------
(* The types of the state, and a round asks only for what is unconfirmed of *)
(* the groups the run met; code: AdmissionSlot, Lease, Quarantine._retries. *)
TypeOK ==
    /\ stage \in [Runs -> {"new", "busy", "refused", "admitted", "streaming", "over", "left"}]
    /\ holders \subseteq Leases
    /\ runner \in [Runs -> {"none", "active", "closed"}]
    /\ met \in [Runs -> SUBSET Groups]
    /\ gone \subseteq Groups
    /\ retry \in [Runs -> {"none", "waiting", "asking", "done"}]
    /\ unconfirmed \in [Runs -> SUBSET Groups]
    /\ toAsk \in [Runs -> SUBSET Groups]
    /\ \A r \in Runs : toAsk[r] \subseteq unconfirmed[r] /\ unconfirmed[r] \subseteq met[r]

(* A run uses the subscription while its runner is open or a process group  *)
(* it lost may still have members.                                          *)
InUse(r) == runner[r] = "active" \/ met[r] \ gone # {}

(* No step, however late or repeated, frees the place of a run in use: not  *)
(* run_over, not the response's second release, not a partly confirmed      *)
(* round of the quarantine.                                                 *)
InUseHoldsPlace ==
    \A r \in Runs : InUse(r) => {RunLease(r), QuarantineLease(r)} \cap holders # {}

(* At most Places runs use the subscription at a time, lost groups included *)
(* (operations.md: at most max_parallel_cli_runs CLI runs are admitted).    *)
UseIsBounded == Cardinality({r \in Runs : InUse(r)}) <= Places

(* Every place taken is given back, also by a run whose frames never began  *)
(* and by a run that lost groups.                                           *)
EveryPlaceIsFreed == \A r \in Runs :
    {RunLease(r), QuarantineLease(r)} \cap holders # {} ~>
        {RunLease(r), QuarantineLease(r)} \cap holders = {}
=============================================================================

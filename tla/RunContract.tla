---------------------------- MODULE RunContract ----------------------------
(***************************************************************************)
(* What one admitted run promises, without how the service keeps it: the   *)
(* runner is closed before the record ends, the record ends once, the      *)
(* run's place is passed to the quarantine or freed by the step that ends  *)
(* the record, and what the client is told last is what the record says.   *)
(* It is the contract of `run_frames` (run_events) and `SupervisedRun`     *)
(* (run_liveness); SupervisedRun.tla implements it, Admission.tla composes *)
(* many runs that keep it.                                                 *)
(***************************************************************************)
VARIABLES runner,   \* "active" until the runner's generator is closed
          loss,     \* the closed runner left a group that is not confirmed gone
          ending,   \* the record's ending, Running until it is over
          place,    \* where the run's admission place is
          lost,     \* the client loss the record latched
          told      \* the client's stream: open, cut, or the terminal it ended with

contractVars == <<runner, loss, ending, place, lost, told>>

Running == "running"
Endings == {"succeeded", "provider_error", "idle_timeout", "limit_exceeded",
            "interrupted", "cancelled"}
Losses == {"dropped", "disconnected"}
NotLost == "not_lost"
Places == {"held", "quarantined", "free"}

ContractInit ==
    /\ runner = "active"
    /\ loss = FALSE
    /\ ending = Running
    /\ place = "held"
    /\ lost = NotLost
    /\ told = "open"

(* The runner's generator has been closed; whether a group is lost is known now. *)
CloseRunner ==
    /\ runner = "active"
    /\ runner' = "closed"
    /\ loss' \in BOOLEAN
    /\ UNCHANGED <<ending, place, lost, told>>

(* The record ends and in the same step the place leaves the run. *)
EndRecord ==
    /\ runner = "closed"
    /\ ending = Running
    /\ ending' \in IF loss THEN {"provider_error"} ELSE Endings
    /\ place' = IF loss THEN "quarantined" ELSE "free"
    /\ UNCHANGED <<runner, loss, lost, told>>

(* The first loss of the client is latched, also after the record ended. *)
LoseClient ==
    /\ lost = NotLost
    /\ lost' \in Losses
    /\ UNCHANGED <<runner, loss, ending, place, told>>

(* The client takes the terminal: it is the record's ending. *)
TellTerminal ==
    /\ told = "open"
    /\ ending # Running
    /\ told' = ending
    /\ UNCHANGED <<runner, loss, ending, place, lost>>

(* The stream ends without a terminal only for a client recorded as lost. *)
CutStream ==
    /\ told = "open"
    /\ lost # NotLost
    /\ ending # Running
    /\ told' = "cut"
    /\ UNCHANGED <<runner, loss, ending, place, lost>>

ContractNext == CloseRunner \/ EndRecord \/ LoseClient \/ TellTerminal \/ CutStream

ContractSpec == ContractInit /\ [][ContractNext]_contractVars
=============================================================================

--------------------------- MODULE ToolCallContract ---------------------------
(***************************************************************************)
(* What a run with tools promises of every tool call, without the barrier, *)
(* its queue and its tasks: the service is told of a call before it runs,  *)
(* and of its result before the CLI is; a call runs only after the service *)
(* went on past the call's event, at most once, and gets at most one       *)
(* result.  What the run is recorded as in the end agrees with what it     *)
(* told: an answer leaves no call without its result, and a run that was   *)
(* cut short is "cancelled" only if nothing with a side effect can have run.*)
(***************************************************************************)
CONSTANTS Calls, SideEffecting

VARIABLES holds,      \* the event the service was given and did not go on from
          told,       \* what the service was told of a call
          running,    \* the calls running at the app
          ran,        \* the calls whose outcome is known
          released,   \* the calls whose reply the CLI may have
          ending      \* what the run is recorded as

contractVars == <<holds, told, running, ran, released, ending>>

Nothing == [kind |-> "nothing"]
Final == [kind |-> "final"]

ContractInit ==
    /\ holds = Nothing
    /\ told = [c \in Calls |-> "nothing"]
    /\ running = {} /\ ran = {} /\ released = {}
    /\ ending = "none"

TellCall(c) ==
    /\ ending = "none"
    /\ holds = Nothing /\ told[c] = "nothing"
    /\ holds' = [kind |-> "call", call |-> c]
    /\ told' = [told EXCEPT ![c] = "call"]
    /\ UNCHANGED <<running, ran, released, ending>>

(* A call that has no outcome is told as given up. *)
TellResult(c) ==
    /\ ending = "none"
    /\ holds = Nothing /\ told[c] = "call" /\ c \notin running
    /\ holds' = [kind |-> "result", call |-> c]
    /\ told' = [told EXCEPT ![c] = "result"]
    /\ UNCHANGED <<running, ran, released, ending>>

(* The answer is told only when every call told of has its result. *)
TellFinal ==
    /\ ending = "none"
    /\ holds = Nothing
    /\ holds' = Final
    /\ \A c \in Calls : told[c] # "call"
    /\ UNCHANGED <<told, running, ran, released, ending>>

(* The service goes on: only now a call runs and a reply leaves. *)
GoOn ==
    /\ ending = "none"
    /\ holds \notin {Nothing, Final}
    /\ holds' = Nothing
    /\ IF holds.kind = "call" THEN running' \in {running, running \cup {holds.call}}
                              ELSE UNCHANGED running
    /\ IF holds.kind = "result" /\ holds.call \in ran
         THEN released' \in {released, released \cup {holds.call}}
         ELSE UNCHANGED released
    /\ UNCHANGED <<told, ran, ending>>

Finish(c) ==
    /\ c \in running
    /\ running' = running \ {c}
    /\ ran' \in {ran, ran \cup {c}}
    /\ UNCHANGED <<holds, told, released, ending>>

(* The end of the record.  A call runs only when it was told, so a call     *)
(* that may have changed something forbids "cancelled".                     *)
EndRun ==
    /\ ending = "none"
    /\ ending' \in {"succeeded", "failed", "interrupted", "cancelled"}
    /\ ending' = "succeeded" => holds = Final
    /\ ending' = "cancelled" => \A c \in SideEffecting : told[c] = "nothing"
    /\ ending' = "interrupted" => \E c \in SideEffecting : told[c] # "nothing"
    /\ UNCHANGED <<holds, told, running, ran, released>>

ContractNext ==
    \/ TellFinal \/ GoOn \/ EndRun
    \/ \E c \in Calls : TellCall(c) \/ TellResult(c) \/ Finish(c)

ContractSpec == ContractInit /\ [][ContractNext]_contractVars
=============================================================================

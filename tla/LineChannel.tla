----------------------------- MODULE LineChannel -----------------------------
(***************************************************************************)
(* process.CliLineChannel: the bounded queue of stdout lines between the   *)
(* runner's thread and the reader, which ends with one outcome.            *)
(***************************************************************************)
EXTENDS Naturals

CONSTANTS Capacity      \* maximum_lines

ASSUME CapacityAssumption == Capacity \in Nat \ {0}

VARIABLES
    lines,        \* per job, how many lines wait in the channel
    sent,         \* per job, how many lines the exchange took from its child
    dropped,      \* the jobs that lost a line nobody asked to drop
    chan,         \* per job, the channel's outcome: none, complete, failed, gave_up
    aborted       \* the jobs whose abort was requested

channelVars == <<lines, sent, dropped, chan, aborted>>

-----------------------------------------------------------------------------
AbortRequested(j) ==
    /\ aborted' = aborted \cup {j}
    /\ lines' = [lines EXCEPT ![j] = 0]

Cleared(j) ==
    /\ lines' = [lines EXCEPT ![j] = 0]
    /\ dropped' = IF lines[j] > 0 THEN dropped \cup {j} ELSE dropped

Accepts(j) == chan[j] = "none" /\ j \notin aborted /\ lines[j] < Capacity

(* _send.  A line that is refused ends the exchange, which sent counts.     *)
LineSent(j) ==
    /\ Accepts(j)
    /\ lines' = [lines EXCEPT ![j] = @ + 1]
    /\ sent' = [sent EXCEPT ![j] = @ + 1]
    /\ UNCHANGED <<dropped, chan, aborted>>

LineRefused(j) ==
    /\ ~Accepts(j)
    /\ dropped' = IF j \in aborted THEN dropped ELSE dropped \cup {j}
    /\ sent' = [sent EXCEPT ![j] = 0]
    /\ UNCHANGED <<lines, chan, aborted>>

(* The first outcome wins and everybody who ends the channel learns it. *)
Winner(j, outcome) == IF chan[j] = "none" THEN outcome ELSE chan[j]

TerminatedEmpty(j, outcome) ==   \* mutant: a complete outcome drops the lines too
    /\ chan' = [chan EXCEPT ![j] = Winner(j, outcome)]
    /\ IF chan[j] = "none" THEN Cleared(j) ELSE UNCHANGED <<lines, dropped>>
    /\ aborted' = IF chan[j] = "none" /\ outcome = "gave_up" THEN aborted \cup {j} ELSE aborted
    /\ UNCHANGED sent

(* _terminate_with: only a complete outcome leaves the lines to be read,    *)
(* and a wait that was given up (_RUNNER_TIMEOUT_REASONS) aborts the run.   *)
Terminated(j, outcome) ==
    /\ chan' = [chan EXCEPT ![j] = Winner(j, outcome)]
    /\ IF chan[j] = "none" /\ outcome # "complete" THEN Cleared(j) ELSE UNCHANGED <<lines, dropped>>
    /\ aborted' = IF chan[j] = "none" /\ outcome = "gave_up" THEN aborted \cup {j} ELSE aborted
    /\ UNCHANGED sent

(* receive: a line before the outcome. *)
LineReady(j) == lines[j] > 0
OutcomeReady(j) == lines[j] = 0 /\ chan[j] # "none"

ChannelInit(J, earlier) ==
    /\ lines = [j \in J |-> 0] /\ sent = [j \in J |-> 0] /\ dropped = {}
    /\ chan = [j \in J |-> IF j \in earlier THEN "failed" ELSE "none"] /\ aborted = {}
=============================================================================

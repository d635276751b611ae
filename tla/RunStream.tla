------------------------------ MODULE RunStream ------------------------------
(***************************************************************************)
(* run_stream.RunStream: what the events of one run so far promise.  The   *)
(* service feeds it each event before the event is sent, the reader of the *)
(* wire on arrival.  A stream is a record, an event what RunTools.tla      *)
(* yields.  Run ids and numbers are left out, and the opening run_started: *)
(* the service writes these itself.                                        *)
(***************************************************************************)
CONSTANT SideEffecting   \* the calls whose tool is, or is not known not to be

NoTerminal == "none"
CutShort == {"interrupted", "cancelled"}
Terminals == {"succeeded", "failed"} \cup CutShort

NewStream == [calls |-> {}, answered |-> {}, terminal |-> NoTerminal]

DueEndingOfAnswered(s) ==        \* mutant: a call counts from its result
    IF s.answered \cap SideEffecting # {} THEN "interrupted" ELSE "cancelled"

(* A side-effecting call counts from its emission. *)
DueCutShortEnding(s) ==
    IF s.calls \cap SideEffecting # {} THEN "interrupted" ELSE "cancelled"

(* _broken_rule names none. *)
Keeps(s, e) ==
    /\ s.terminal = NoTerminal
    /\ e.kind = "call" => e.call \notin s.calls
    /\ e.kind = "result" => e.call \in s.calls \ s.answered
    /\ e.kind \in CutShort => e.kind = DueCutShortEnding(s)

Record(s, e) ==
    [s EXCEPT !.calls = IF e.kind = "call" THEN @ \cup {e.call} ELSE @,
              !.answered = IF e.kind = "result" THEN @ \cup {e.call} ELSE @,
              !.terminal = IF e.kind \in Terminals THEN e.kind ELSE @]
=============================================================================

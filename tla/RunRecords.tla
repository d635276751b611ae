----------------------------- MODULE RunRecords -----------------------------
(***************************************************************************)
(* What the service remembers of its runs: run_records.RunRecords, its     *)
(* recorders and the readers of GET /runs/{id}.  Time is the wall clock of *)
(* utc_now, which an operator or NTP may also set back.  The count of a    *)
(* record's events is left out: nothing here depends on it.                *)
(***************************************************************************)
EXTENDS Integers, FiniteSets

CONSTANTS Runs,        \* the run ids ever minted
          Owners,      \* (app, issuer, subject) triples
          Retention,   \* RECORD_RETENTION in clock units
          MaxEnded,    \* MAX_ENDED_RECORDS
          MaxClock     \* bound: the readings the clock can show

Nobody == "nobody"
None == "none"

ASSUME RunRecordsAssumption ==
    /\ IsFiniteSet(Runs) /\ Nobody \notin Owners
    /\ {Retention, MaxEnded} \subseteq Nat \ {0}
    /\ MaxClock \in Nat

VARIABLES
    now,      \* the wall clock
    owner,    \* each run's owner, Nobody before it began
    pending,  \* the ending of the accepted terminal event
    ending,   \* the record's ending
    lost,     \* the record's client loss
    known,    \* RunRecords._records: the runs that can be looked up
    ended,    \* RunRecords._ended: the ended records by time and number
    count,    \* RunRecords._completions
    answer    \* what this step answered, to whom: NotFound unless it is a read

vars == <<now, owner, pending, ending, lost, known, ended, count, answer>>

Endings == {"succeeded", "failed", "cancelled"}
Losses == {"dropped", "disconnected"}
NotFound == [run |-> None, reader |-> Nobody, state |-> None]
NoAnswer == answer' = NotFound

-----------------------------------------------------------------------------
(* _purge pops the heap while its first entry has expired: the first is the *)
(* earliest, so every expired entry goes.                                   *)
Purged == {e \in ended : now - e.at < Retention}

(* The heap's order: ended_at, then the completion number. *)
Before(d, e) == d.at < e.at \/ (d.at = e.at /\ d.no < e.no)
First(entries) == CHOOSE e \in entries : \A d \in entries \ {e} : Before(e, d)

KeepingOneMore(entries) ==       \* mutant: >= MaxEnded + 1 for > MaxEnded
    IF Cardinality(entries) > MaxEnded + 1 THEN entries \ {First(entries)} ELSE entries

(* _finish pops once too many are held: at most one, as it pushed one. *)
WithinLimit(entries) ==
    IF Cardinality(entries) > MaxEnded THEN entries \ {First(entries)} ELSE entries

(* A record leaves the store with its heap entry. *)
Hold(entries) ==
    /\ ended' = entries
    /\ known' = known \ ({e.run : e \in ended} \ {e.run : e \in entries})

Open(r) == owner[r] # Nobody /\ ending[r] = None

-----------------------------------------------------------------------------
Begin(r, o) ==
    /\ owner[r] = Nobody
    /\ owner' = [owner EXCEPT ![r] = o]
    /\ ended' = Purged
    /\ known' = (known \ {e.run : e \in ended \ Purged}) \cup {r}
    /\ NoAnswer
    /\ UNCHANGED <<now, pending, ending, lost, count>>

(* _accept of a terminal event; any other event only purges.  The run's     *)
(* RunStream accepts no event after a terminal, so pending is set once.     *)
Accept(r) ==
    /\ Open(r)
    /\ pending[r] = None
    /\ \E kind \in Endings \cup {None} : pending' = [pending EXCEPT ![r] = kind]
    /\ Hold(Purged)
    /\ NoAnswer
    /\ UNCHANGED <<now, owner, ending, lost, count>>

(* _finish: the pending ending, else the fallback. *)
Finish(r) ==
    /\ Open(r)
    /\ \E fallback \in Endings \ {"succeeded"} :
         ending' = [ending EXCEPT ![r] = IF pending[r] = None THEN fallback ELSE pending[r]]
    /\ LET pushed == Purged \cup {[at |-> now, no |-> count, run |-> r]}
           kept == WithinLimit(pushed)
       IN /\ ended' = kept
          /\ known' = (known \ {e.run : e \in ended \cup pushed}) \cup {e.run : e \in kept}
    /\ count' = count + 1
    /\ NoAnswer
    /\ UNCHANGED <<now, owner, pending, lost>>

LoseLast(r, reason) ==           \* mutant: the last loss wins
    /\ owner[r] # Nobody
    /\ Hold(Purged)
    /\ lost' = IF r \in known' THEN [lost EXCEPT ![r] = reason] ELSE lost
    /\ NoAnswer
    /\ UNCHANGED <<now, owner, pending, ending, count>>

(* _lose: the first loss of a record still in the store, ended or not. *)
Lose(r, reason) ==
    /\ owner[r] # Nobody
    /\ Hold(Purged)
    /\ lost' = IF r \in known' /\ lost[r] = None THEN [lost EXCEPT ![r] = reason] ELSE lost
    /\ NoAnswer
    /\ UNCHANGED <<now, owner, pending, ending, count>>

ReadBeforePurging(r, o) ==       \* mutant: read looks up first and purges then
    /\ Hold(Purged)
    /\ answer' = IF r \in known /\ owner[r] = o
                   THEN [run |-> r, reader |-> o, state |-> ending[r]]
                   ELSE NotFound
    /\ UNCHANGED <<now, owner, pending, ending, lost, count>>

(* read: an unknown run and another owner's run answer alike. *)
Read(r, o) ==
    /\ Hold(Purged)
    /\ answer' = IF r \in known' /\ owner[r] = o
                   THEN [run |-> r, reader |-> o, state |-> ending[r]]
                   ELSE NotFound
    /\ UNCHANGED <<now, owner, pending, ending, lost, count>>

(* The wall clock shows another reading, an earlier one after a step back. *)
ClockMoves ==
    /\ now' \in 0..MaxClock
    /\ NoAnswer
    /\ UNCHANGED <<owner, pending, ending, lost, known, ended, count>>

Init ==
    /\ now = 0
    /\ owner = [r \in Runs |-> Nobody]
    /\ pending = [r \in Runs |-> None]
    /\ ending = [r \in Runs |-> None]
    /\ lost = [r \in Runs |-> None]
    /\ known = {}
    /\ ended = {}
    /\ count = 0
    /\ answer = NotFound

Next ==
    \/ ClockMoves
    \/ \E r \in Runs :
         \/ Accept(r) \/ Finish(r)
         \/ \E o \in Owners : Begin(r, o) \/ Read(r, o)
         \/ \E reason \in Losses : Lose(r, reason)

Spec == Init /\ [][Next]_vars

-----------------------------------------------------------------------------
(* The types of the state; code: the fields of _Record and RunRecords.      *)
TypeOK ==
    /\ now \in 0..MaxClock
    /\ owner \in [Runs -> Owners \cup {Nobody}]
    /\ pending \in [Runs -> Endings \cup {None}]
    /\ ending \in [Runs -> Endings \cup {None}]
    /\ lost \in [Runs -> Losses \cup {None}]
    /\ known \subseteq Runs
    /\ ended \subseteq [at : 0..MaxClock, no : Nat, run : Runs]
    /\ count \in 0..Cardinality(Runs)
    /\ answer \in [run : Runs \cup {None}, reader : Owners \cup {Nobody},
                   state : Endings \cup {None}]

(* The heap and the store agree: a running record is never forgotten,       *)
(* whatever expires or overflows beside it, and an ended one is held        *)
(* exactly while the heap has its one entry, never more than MaxEnded.      *)
(* Code: _purge, _finish and the lookups of _accept and _lose.              *)
IndexMatchesStore ==
    /\ TypeOK
    /\ \A r \in Runs : Open(r) => r \in known
    /\ {r \in known : ending[r] # None} = {e.run : e \in ended}
    /\ \A d, e \in ended : d.run = e.run => d = e
    /\ Cardinality(ended) <= MaxEnded

(* A status is answered to the run's owner alone, of a record whose         *)
(* retention has not passed by the clock the read was made at, and what one *)
(* read told of an ending or a loss every later one tells, too.             *)
(* Code: read after _purge, _finish, _lose.                                 *)
AnswersAreTrue ==
    [][/\ answer' # NotFound =>
            /\ answer'.reader = owner[answer'.run]
            /\ \A e \in ended : e.run = answer'.run => now - e.at < Retention
       /\ \A r \in Runs : /\ ending[r] # None => ending'[r] = ending[r]
                          /\ lost[r] # None => lost'[r] = lost[r]]_vars
=============================================================================

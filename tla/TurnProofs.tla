----------------------------- MODULE TurnProofs ------------------------------
(***************************************************************************)
(* Proofs about the gate before a turn of the Claude CLI (ToolSurface),    *)
(* for any number of callers of both twins, any number of updates of the   *)
(* binary, and whatever each build offers; and about a turn on every route *)
(* (ProviderTurn), for any answers, batches and sessions and any number of *)
(* tool rounds.                                                            *)
(***************************************************************************)
EXTENDS ToolSurface, ProviderTurn, SequenceTheorems, FiniteSetTheorems,
        WellFoundedInduction, TLAPS

----------------------------------------------------------------------------
(* The gate. *)
Verdicts == [surface : {"none", "clean", "extra", "failure"}, build : Builds]

Types ==
    /\ build \in Builds /\ offers \in [Builds -> {"clean", "extra"}] /\ versioned \in BOOLEAN
    /\ asked \in [Callers -> Builds]
    /\ caller \in [Callers -> {"absent", "idle", "keyed", "missed", "waiting",
                               "passed", "started", "refused", "failed"}]
    /\ relied \in [Callers -> Verdicts]
    /\ awaits \in [Callers -> Callers \cup {NoFlight}]
    /\ verdicts \in [Keys -> Verdicts]
    /\ inflight \in [{"async", "sync"} -> [Keys -> Callers \cup {NoFlight}]]
    /\ flight \in [Callers -> {"none", "created", "probing", "over"}]
    /\ probed \in [Callers -> Builds]
    /\ answer \in [Callers -> Verdicts]

(* A caller has a flight only from its claim on, it asked in the past, it     *)
(* waits for a flight of its own key, and the clean answer of a flight of    *)
(* its key let it pass.                                                       *)
CallerInv(c) ==
    /\ caller[c] \in {"absent", "idle", "keyed", "missed"} => flight[c] = "none"
    /\ asked[c] =< build
    /\ caller[c] = "waiting" =>
          /\ awaits[c] \in Callers
          /\ KeyOf(awaits[c]) = KeyOf(c) /\ flight[awaits[c]] # "none"
    /\ caller[c] \in {"passed", "started"} =>
          /\ relied[c].surface = "clean"
          /\ \E f \in Callers : KeyOf(f) = KeyOf(c) /\ answer[f] = relied[c]

(* A flight is published until it is over, and then has an answer of a build *)
(* that was mounted since its caller asked, or exactly of the one it found.   *)
FlightInv(f) ==
    /\ flight[f] \in {"created", "probing"} => inflight[Twin(f)][KeyOf(f)] = f
    /\ flight[f] = "probing" => /\ asked[f] =< probed[f] /\ probed[f] =< build
                                /\ versioned => probed[f] = asked[f]
    /\ answer[f].surface # "none" =>
          /\ flight[f] = "over"
          /\ asked[f] =< answer[f].build /\ answer[f].build =< build
          /\ versioned => answer[f].build = asked[f]
    /\ answer[f].surface = "none" => answer[f] = NoVerdict
    /\ answer[f].surface = "clean" => offers[answer[f].build] = "clean"

(* What is published under a key is a flight of that key. *)
EntryInv ==
    \A t \in {"async", "sync"}, k \in Keys : inflight[t][k] # NoFlight =>
        /\ Twin(inflight[t][k]) = t /\ KeyOf(inflight[t][k]) = k
        /\ flight[inflight[t][k]] # "none"

(* What is remembered under a key is the answer of a flight of that key. *)
VerdictInv ==
    \A k \in Keys : verdicts[k] # NoVerdict =>
        \E f \in Callers : /\ KeyOf(f) = k /\ answer[f] = verdicts[k]
                           /\ answer[f].surface # "none"

IInv ==
    /\ Types /\ EntryInv /\ VerdictInv
    /\ \A c \in Callers : CallerInv(c) /\ FlightInv(c)

----------------------------------------------------------------------------
LEMMA KeyFacts ==
    ASSUME Types, NEW c \in Callers
    PROVE  /\ KeyOf(c) \in Keys /\ Twin(c) \in {"async", "sync"}
           /\ KeyOf(c)[1] = asked[c] /\ KeyOf(c)[2] = Expects(c)
           /\ NoVerdict \in Verdicts /\ NoVerdict.surface = "none"
  BY GateAssumption DEF Types, KeyOf, Keys, Expects, Twin, NoVerdict, Verdicts, Builds

LEMMA IInvInit == Init => IInv
  <1> SUFFICES ASSUME Init PROVE IInv
    OBVIOUS
  <1>0. 0 \in Builds
    BY GateAssumption DEF Builds
  <1>1. Types
    <2>1. build \in Builds /\ versioned \in BOOLEAN
      BY GateAssumption DEF Init
    <2>2. asked \in [Callers -> Builds] /\ probed \in [Callers -> Builds]
      BY <1>0 DEF Init
    <2>3. NoVerdict \in Verdicts
      BY <1>0 DEF NoVerdict, Verdicts
    <2>4. /\ verdicts \in [Keys -> Verdicts] /\ answer \in [Callers -> Verdicts]
          /\ relied \in [Callers -> Verdicts]
      BY <2>3 DEF Init
    <2>5. inflight \in [{"async", "sync"} -> [Keys -> Callers \cup {NoFlight}]]
      BY DEF Init
    <2> QED BY <2>1, <2>2, <2>4, <2>5 DEF Init, Types
  <1>2. EntryInv /\ VerdictInv
    BY DEF Init, EntryInv, VerdictInv
  <1>b. build \in Nat
    BY <1>1 DEF Types, Builds
  <1>3. ASSUME NEW c \in Callers PROVE CallerInv(c) /\ FlightInv(c)
    BY <1>1, <1>b DEF Init, CallerInv, FlightInv, NoVerdict
  <1> QED BY <1>1, <1>2, <1>3 DEF IInv

(* What every step but a caller's asking does: time goes on, keys stay as     *)
(* they were asked, an answer stays, and a flight that began stays begun.     *)
Onward ==
    /\ build =< build' /\ build' \in Nat /\ offers' = offers /\ asked' = asked
    /\ versioned' = versioned
    /\ \A f \in Callers : answer[f].surface # "none" => answer'[f] = answer[f]
    /\ \A f \in Callers : flight[f] # "none" => flight'[f] # "none"

LEMMA KeysStay == ASSUME Onward PROVE \A c \in Callers : KeyOf(c)' = KeyOf(c)
  BY DEF Onward, KeyOf

(* A caller that a step leaves where it is. *)
LEMMA OtherCaller ==
    ASSUME IInv, Onward, NEW c \in Callers,
           caller'[c] = caller[c], awaits'[c] = awaits[c], relied'[c] = relied[c],
           flight[c] = "none" => flight'[c] = "none"
    PROVE  CallerInv(c)'
  <1>1. CallerInv(c) /\ build \in Nat /\ asked[c] \in Nat
    BY DEF IInv, Types, Builds
  <1>2. asked[c]' =< build'
    BY <1>1 DEF CallerInv, Onward
  <1>3. ASSUME caller'[c] = "waiting"
        PROVE  /\ awaits'[c] \in Callers
               /\ KeyOf(awaits[c])' = KeyOf(c)' /\ flight'[awaits'[c]] # "none"
    <2>1. awaits[c] \in Callers /\ KeyOf(awaits[c]) = KeyOf(c) /\ flight[awaits[c]] # "none"
      BY <1>1, <1>3 DEF CallerInv
    <2>2. KeyOf(awaits[c])' = KeyOf(awaits[c])
      BY <2>1 DEF KeyOf, Onward
    <2> QED BY <2>1, <2>2, KeysStay DEF Onward
  <1>4. ASSUME caller'[c] \in {"passed", "started"}
        PROVE  /\ relied'[c].surface = "clean"
               /\ \E f \in Callers : KeyOf(f)' = KeyOf(c)' /\ answer'[f] = relied'[c]
    <2>1. relied[c].surface = "clean"
      BY <1>1, <1>4 DEF CallerInv
    <2>2. PICK f \in Callers : KeyOf(f) = KeyOf(c) /\ answer[f] = relied[c]
      BY <1>1, <1>4 DEF CallerInv
    <2> QED BY <2>1, <2>2, KeysStay DEF Onward
  <1> QED BY <1>1, <1>2, <1>3, <1>4 DEF CallerInv

(* A flight that a step leaves where it is, and as published as it was. *)
LEMMA OtherFlight ==
    ASSUME IInv, Onward, NEW f \in Callers,
           flight'[f] = flight[f], probed'[f] = probed[f], answer'[f] = answer[f],
           inflight'[Twin(f)][KeyOf(f)] = f \/ flight[f] \notin {"created", "probing"}
    PROVE  FlightInv(f)'
  <1>1. /\ FlightInv(f) /\ build \in Nat /\ asked[f] \in Nat /\ probed[f] \in Nat
        /\ answer[f].build \in Nat
    BY DEF IInv, Types, Builds, Verdicts
  <1>2. KeyOf(f)' = KeyOf(f)
    BY KeysStay
  <1>3. flight'[f] \in {"created", "probing"} => inflight'[Twin(f)][KeyOf(f)'] = f
    BY <1>2
  <1>4. (flight[f] = "probing" => /\ asked'[f] =< probed'[f] /\ probed'[f] =< build'
                                  /\ versioned' => probed'[f] = asked'[f])
        /\ (answer[f].surface # "none" =>
              /\ asked'[f] =< answer'[f].build /\ answer'[f].build =< build'
              /\ versioned' => answer'[f].build = asked'[f])
    BY <1>1 DEF FlightInv, Onward
  <1>5. answer[f].surface = "clean" => offers'[answer'[f].build] = "clean"
    BY <1>1 DEF FlightInv, Onward
  <1> QED BY <1>1, <1>3, <1>4, <1>5 DEF FlightInv, NoVerdict

(* A step that publishes nothing. *)
LEMMA FewerEntries ==
    ASSUME IInv, Onward,
           \A t \in {"async", "sync"}, k \in Keys :
               inflight'[t][k] \in {inflight[t][k], NoFlight}
    PROVE  EntryInv'
  <1> SUFFICES ASSUME NEW t \in {"async", "sync"}, NEW k \in Keys, inflight'[t][k] # NoFlight
               PROVE  /\ Twin(inflight'[t][k]) = t /\ KeyOf(inflight[t][k])' = k
                      /\ inflight'[t][k] = inflight[t][k] /\ flight'[inflight[t][k]] # "none"
    BY DEF EntryInv, KeyOf
  <1>1. /\ inflight'[t][k] = inflight[t][k] /\ inflight[t][k] \in Callers
        /\ Twin(inflight[t][k]) = t /\ KeyOf(inflight[t][k]) = k
        /\ flight[inflight[t][k]] # "none"
    BY DEF IInv, EntryInv, Types
  <1>2. KeyOf(inflight[t][k])' = KeyOf(inflight[t][k])
    BY <1>1 DEF KeyOf, Onward
  <1> QED BY <1>1, <1>2 DEF Onward

(* A step that remembers nothing. *)
LEMMA SameVerdicts ==
    ASSUME IInv, Onward, verdicts' = verdicts PROVE VerdictInv'
  <1> SUFFICES ASSUME NEW k \in Keys, verdicts[k] # NoVerdict
               PROVE  \E f \in Callers : KeyOf(f)' = k /\ answer'[f] = verdicts[k]
                                           /\ answer'[f].surface # "none"
    BY DEF VerdictInv, NoVerdict
  <1>1. PICK f \in Callers : KeyOf(f) = k /\ answer[f] = verdicts[k]
                               /\ answer[f].surface # "none"
    BY DEF IInv, VerdictInv
  <1> QED BY <1>1, KeysStay DEF Onward

----------------------------------------------------------------------------
(* Nothing but where one caller stands changes. *)
LEMMA CallerMoves ==
    ASSUME IInv, NEW c \in Callers,
           UNCHANGED <<worldVars, asked, verdicts, flightVars>>,
           NEW where \in {"missed", "waiting", "passed", "started", "refused", "failed"},
           NEW flown \in Callers \cup {NoFlight}, NEW verdict \in Verdicts,
           relied' = [relied EXCEPT ![c] = verdict],
           caller' = [caller EXCEPT ![c] = where],
           awaits' = [awaits EXCEPT ![c] = flown],
           CallerInv(c)'
    PROVE  IInv'
  <1>1. Onward
    BY DEF Onward, IInv, Types, Builds, worldVars, flightVars
  <1>2. Types'
    BY DEF IInv, Types, worldVars, flightVars
  <1>3. ASSUME NEW d \in Callers PROVE CallerInv(d)' /\ FlightInv(d)'
    <2>1. CallerInv(d)'
      <3>1. CASE d = c
        BY <3>1
      <3>2. CASE d # c
        BY <1>1, <3>2, OtherCaller DEF IInv, Types, flightVars
      <3> QED BY <3>1, <3>2
    <2>2. FlightInv(d)'
      BY <1>1, OtherFlight DEF IInv, FlightInv, flightVars
    <2> QED BY <2>1, <2>2
  <1>4. EntryInv'
    BY <1>1, FewerEntries DEF flightVars
  <1>5. VerdictInv'
    BY <1>1, SameVerdicts
  <1> QED BY <1>2, <1>3, <1>4, <1>5 DEF IInv

LEMMA AsksStep == ASSUME IInv, NEW c \in Callers, Asks(c) PROVE IInv'
  <1>1. /\ caller[c] = "idle" /\ flight[c] = "none" /\ answer[c].surface = "none"
        /\ asked' = [asked EXCEPT ![c] = build] /\ caller' = [caller EXCEPT ![c] = "keyed"]
        /\ UNCHANGED <<versioned, build, offers, awaits, relied, verdicts, inflight, flight,
                      probed, answer>>
    BY DEF IInv, CallerInv, FlightInv, Asks, worldVars, gateVars, cacheVars, flightVars
  <1>2. Types'
    BY <1>1 DEF IInv, Types
  <1>3. ASSUME NEW f \in Callers, f # c PROVE KeyOf(f)' = KeyOf(f) /\ asked'[f] = asked[f]
    BY <1>1, <1>3 DEF KeyOf, IInv, Types
  <1>4. ASSUME NEW d \in Callers PROVE CallerInv(d)'
    <2>1. CASE d = c
      BY <1>1, <2>1 DEF CallerInv, IInv, Types, Builds
    <2>2. CASE d # c
      <3>1. CallerInv(d) /\ caller'[d] = caller[d] /\ asked'[d] = asked[d]
        BY <1>1, <2>2 DEF IInv, Types
      <3>2. caller[d] = "waiting" => KeyOf(awaits[d])' = KeyOf(awaits[d])
        BY <1>1, <1>3, <3>1 DEF CallerInv
      <3>3. ASSUME caller[d] \in {"passed", "started"}
            PROVE  \E f \in Callers : KeyOf(f)' = KeyOf(d)' /\ answer'[f] = relied'[d]
        <4>1. PICK f \in Callers : KeyOf(f) = KeyOf(d) /\ answer[f] = relied[d]
          BY <3>1, <3>3 DEF CallerInv
        <4>2. f # c
          BY <1>1, <3>1, <3>3, <4>1 DEF CallerInv
        <4> QED BY <1>1, <1>3, <2>2, <4>1, <4>2
      <3>4. KeyOf(d)' = KeyOf(d)
        BY <1>3, <2>2
      <3> QED BY <1>1, <3>1, <3>2, <3>3, <3>4 DEF CallerInv
    <2> QED BY <2>1, <2>2
  <1>5. ASSUME NEW f \in Callers PROVE FlightInv(f)'
    <2>1. CASE f = c
      BY <1>1, <2>1 DEF FlightInv, IInv
    <2>2. CASE f # c
      BY <1>1, <1>3, <2>2 DEF FlightInv, IInv
    <2> QED BY <2>1, <2>2
  <1>6. EntryInv'
    <2> SUFFICES ASSUME NEW t \in {"async", "sync"}, NEW k \in Keys, inflight[t][k] # NoFlight
                 PROVE  /\ Twin(inflight[t][k]) = t /\ KeyOf(inflight[t][k])' = k
                        /\ flight[inflight[t][k]] # "none"
      BY <1>1 DEF EntryInv, KeyOf
    <2>1. /\ inflight[t][k] \in Callers /\ Twin(inflight[t][k]) = t
          /\ KeyOf(inflight[t][k]) = k /\ flight[inflight[t][k]] # "none"
      BY DEF IInv, EntryInv, Types
    <2> QED BY <1>1, <1>3, <2>1
  <1>7. VerdictInv'
    <2> SUFFICES ASSUME NEW k \in Keys, verdicts[k] # NoVerdict
                 PROVE  \E f \in Callers : KeyOf(f)' = k /\ answer[f] = verdicts[k]
                                             /\ answer[f].surface # "none"
      BY <1>1 DEF VerdictInv, NoVerdict
    <2>1. PICK f \in Callers : KeyOf(f) = k /\ answer[f] = verdicts[k]
                                 /\ answer[f].surface # "none"
      BY DEF IInv, VerdictInv
    <2> QED BY <1>1, <1>3, <2>1
  <1> QED BY <1>2, <1>4, <1>5, <1>6, <1>7 DEF IInv

(* A verdict that lets a caller pass is one of a flight of its key. *)
LEMMA LooksStep ==
    ASSUME IInv, NEW c \in Callers,
           \/ AnsweredFromCache(c) \/ MissesCache(c) \/ ReadsAnswer(c) \/ GivesUp(c)
           \/ TurnStarts(c)
    PROVE  IInv'
  <1> USE DEF Leaves, LeavesWith, Fails, gateVars
  <1>0. CallerInv(c) /\ KeyOf(c) \in Keys /\ awaits \in [Callers -> Callers \cup {NoFlight}]
        /\ caller \in [Callers -> {"absent", "idle", "keyed", "missed", "waiting",
                                   "passed", "started", "refused", "failed"}]
        /\ relied \in [Callers -> Verdicts] /\ relied = [relied EXCEPT ![c] = relied[c]]
        /\ relied[c] \in Verdicts
    BY KeyFacts DEF IInv, Types
  <1>1. CASE AnsweredFromCache(c)
    <2>1. awaits' = [awaits EXCEPT ![c] = awaits[c]] /\ awaits[c] \in Callers \cup {NoFlight}
          /\ UNCHANGED <<worldVars, asked, verdicts, flightVars>> /\ caller[c] = "keyed"
      BY <1>0, <1>1 DEF AnsweredFromCache, cacheVars
    <2>2. PICK where \in {"passed", "refused", "failed"}, verdict \in Verdicts :
            /\ caller' = [caller EXCEPT ![c] = where]
            /\ relied' = [relied EXCEPT ![c] = verdict]
            /\ where = "passed" => verdict = verdicts[KeyOf(c)] /\ verdict.surface = "clean"
      <3>1. verdicts[KeyOf(c)] \in Verdicts
        BY <1>0 DEF IInv, Types
      <3> QED BY <1>0, <1>1, <3>1 DEF AnsweredFromCache
    <2>3. where = "passed" =>
            \E f \in Callers : KeyOf(f) = KeyOf(c) /\ answer[f] = verdict
      BY <1>0, <2>2 DEF IInv, VerdictInv, NoVerdict
    <2>4. CallerInv(c)'
      BY <1>0, <2>1, <2>2, <2>3 DEF CallerInv, KeyOf, worldVars, flightVars
    <2> QED BY <2>1, <2>2, <2>4, CallerMoves
  <1>2. CASE MissesCache(c)
    <2>1. awaits' = [awaits EXCEPT ![c] = awaits[c]] /\ awaits[c] \in Callers \cup {NoFlight}
          /\ UNCHANGED <<worldVars, asked, verdicts, flightVars>> /\ caller[c] = "keyed"
          /\ caller' = [caller EXCEPT ![c] = "missed"] /\ relied' = relied
      BY <1>0, <1>2 DEF MissesCache
    <2>2. CallerInv(c)'
      BY <1>0, <2>1 DEF CallerInv, KeyOf, worldVars, flightVars
    <2> QED BY <1>0, <2>1, <2>2, CallerMoves
  <1>3. CASE ReadsAnswer(c)
    <2>1. awaits' = [awaits EXCEPT ![c] = NoFlight]
          /\ UNCHANGED <<worldVars, asked, verdicts, flightVars>> /\ caller[c] = "waiting"
      BY <1>3 DEF ReadsAnswer, IsAnswered, cacheVars
    <2>3. PICK f \in Callers : f = awaits[c] /\ KeyOf(f) = KeyOf(c)
      BY <1>0, <2>1 DEF CallerInv
    <2>2. PICK where \in {"passed", "refused", "failed"}, verdict \in Verdicts :
            /\ caller' = [caller EXCEPT ![c] = where]
            /\ relied' = [relied EXCEPT ![c] = verdict]
            /\ where = "passed" => verdict = answer[f] /\ verdict.surface = "clean"
      <3>1. answer[f] \in Verdicts
        BY DEF IInv, Types
      <3> QED BY <1>0, <1>3, <2>3, <3>1 DEF ReadsAnswer
    <2>4. KeyOf(f)' = KeyOf(f) /\ KeyOf(c)' = KeyOf(c)
      BY <2>1 DEF KeyOf
    <2>5. where = "passed" => KeyOf(f)' = KeyOf(c)' /\ answer'[f] = verdict
      BY <2>1, <2>2, <2>3, <2>4 DEF flightVars
    <2>6. CallerInv(c)'
      BY <1>0, <2>1, <2>2, <2>5 DEF CallerInv, worldVars, flightVars
    <2> QED BY <2>1, <2>2, <2>6, CallerMoves
  <1>4. CASE GivesUp(c)
    <2>1. /\ awaits' = [awaits EXCEPT ![c] = NoFlight]
          /\ caller' = [caller EXCEPT ![c] = "failed"] /\ relied' = relied
          /\ UNCHANGED <<worldVars, asked, verdicts, flightVars>> /\ caller[c] = "waiting"
      BY <1>4 DEF GivesUp, InflightWithout, cacheVars, flightVars
    <2>2. CallerInv(c)'
      BY <1>0, <2>1 DEF CallerInv, KeyOf, worldVars, flightVars
    <2> QED BY <1>0, <2>1, <2>2, CallerMoves
  <1>5. CASE TurnStarts(c)
    <2>1. awaits' = [awaits EXCEPT ![c] = awaits[c]] /\ awaits[c] \in Callers \cup {NoFlight}
          /\ UNCHANGED <<worldVars, asked, verdicts, flightVars>> /\ caller[c] = "passed"
          /\ caller' = [caller EXCEPT ![c] = "started"] /\ relied' = relied
      BY <1>0, <1>5 DEF TurnStarts, cacheVars
    <2>2. CallerInv(c)'
      BY <1>0, <2>1 DEF CallerInv, KeyOf, worldVars, flightVars
    <2> QED BY <1>0, <2>1, <2>2, CallerMoves
  <1> QED BY <1>1, <1>2, <1>3, <1>4, <1>5

(* A caller joins the flight that is published, or publishes its own. *)
LEMMA ClaimStep == ASSUME IInv, NEW c \in Callers, ClaimsOrJoins(c) PROVE IInv'
  <1> DEFINE published == inflight[Twin(c)][KeyOf(c)]
  <1>1. /\ caller[c] \in {"keyed", "missed"} /\ flight[c] = "none"
        /\ answer[c].surface = "none"
        /\ caller' = [caller EXCEPT ![c] = "waiting"]
        /\ UNCHANGED <<versioned, build, offers, asked, relied, verdicts, atWork, probed, answer>>
    BY DEF IInv, CallerInv, FlightInv, ClaimsOrJoins, MayClaim, worldVars, gateVars
  <1>2. /\ CallerInv(c) /\ EntryInv /\ Types /\ KeyOf(c) \in Keys
        /\ Twin(c) \in {"async", "sync"} /\ KeyOf(c)' = KeyOf(c)
    BY <1>1, KeyFacts DEF IInv, KeyOf
  <1>3. CASE published # NoFlight /\ awaits' = [awaits EXCEPT ![c] = published]
             /\ UNCHANGED <<inflight, flight>>
    <2>1. published \in Callers /\ KeyOf(published) = KeyOf(c) /\ flight[published] # "none"
      BY <1>2, <1>3 DEF EntryInv, Types
    <2>2. published' = published /\ KeyOf(published)' = KeyOf(published)
      BY <1>1, <1>2, <1>3 DEF KeyOf
    <2>3. awaits'[c] = published /\ caller'[c] = "waiting"
      BY <1>1, <1>2, <1>3 DEF Types
    <2>4. CallerInv(c)'
      BY <1>1, <1>2, <1>3, <2>1, <2>2, <2>3 DEF CallerInv
    <2>5. /\ relied[c] \in Verdicts /\ relied' = [relied EXCEPT ![c] = relied[c]]
          /\ UNCHANGED <<worldVars, asked, verdicts, flightVars>>
      BY <1>1, <1>2, <1>3 DEF Types, worldVars, flightVars
    <2> QED BY <1>1, <1>3, <2>1, <2>4, <2>5, CallerMoves
  <1>4. CASE /\ published = NoFlight /\ awaits' = [awaits EXCEPT ![c] = c]
             /\ inflight' = [inflight EXCEPT ![Twin(c)][KeyOf(c)] = c]
             /\ flight' = [flight EXCEPT ![c] = "created"]
    <2>0. Onward
      BY <1>1, <1>2, <1>4 DEF Onward, Types, Builds
    <2>1. Types'
      BY <1>1, <1>2, <1>4 DEF Types
    <2>2. inflight'[Twin(c)][KeyOf(c)] = c /\ flight'[c] = "created"
          /\ awaits'[c] = c /\ caller'[c] = "waiting"
      BY <1>1, <1>2, <1>4 DEF Types
    <2>3. ASSUME NEW d \in Callers PROVE CallerInv(d)'
      <3>1. CASE d = c
        BY <1>1, <1>2, <2>2, <3>1 DEF CallerInv
      <3>2. CASE d # c
        BY <1>1, <1>2, <1>4, <2>0, <3>2, OtherCaller DEF Types
      <3> QED BY <3>1, <3>2
    <2>4. ASSUME NEW f \in Callers PROVE FlightInv(f)'
      <3>1. CASE f = c
        BY <1>1, <1>2, <2>2, <3>1 DEF FlightInv, IInv
      <3>2. CASE f # c
        <4>1. FlightInv(f) /\ KeyOf(f) \in Keys /\ Twin(f) \in {"async", "sync"}
              /\ flight'[f] = flight[f]
          BY <1>2, <1>4, <3>2, KeyFacts DEF IInv, Types
        <4>2. flight[f] \in {"created", "probing"} => f # NoFlight
          BY GateAssumption
        <4>3. flight[f] \in {"created", "probing"} => inflight'[Twin(f)][KeyOf(f)] = f
          BY <1>2, <1>4, <4>1, <4>2 DEF FlightInv, Types
        <4> QED BY <1>1, <2>0, <4>1, <4>3, OtherFlight
      <3> QED BY <3>1, <3>2
    <2>5. EntryInv'
      <3> SUFFICES ASSUME NEW t \in {"async", "sync"}, NEW k \in Keys,
                          inflight'[t][k] # NoFlight
                   PROVE  /\ Twin(inflight'[t][k]) = t /\ KeyOf(inflight'[t][k]) = k
                          /\ flight'[inflight'[t][k]] # "none"
        BY <1>1 DEF EntryInv, KeyOf
      <3>1. CASE t = Twin(c) /\ k = KeyOf(c)
        BY <2>2, <3>1
      <3>2. CASE ~(t = Twin(c) /\ k = KeyOf(c))
        <4>1. inflight'[t][k] = inflight[t][k] /\ inflight[t][k] \in Callers
          BY <1>2, <1>4, <3>2 DEF Types
        <4> QED BY <1>2, <2>0, <4>1 DEF EntryInv, Onward
      <3> QED BY <3>1, <3>2
    <2>6. VerdictInv'
      BY <1>1, <2>0, SameVerdicts
    <2> QED BY <2>1, <2>3, <2>4, <2>5, <2>6 DEF IInv
  <1> QED BY <1>3, <1>4 DEF ClaimsOrJoins

----------------------------------------------------------------------------
(* A flight's future is set: its entry goes, and no other. *)
LEMMA ResolvesStep ==
    ASSUME IInv, NEW f \in Callers, flight[f] = "probing",
           NEW verdict \in Verdicts, Resolves(f, verdict),
           verdict.surface # "none", verdict.build = probed[f],
           verdict.surface = "clean" => offers[probed[f]] = "clean",
           UNCHANGED <<worldVars, asked, caller, awaits, relied>>
    PROVE  /\ Onward /\ EntryInv' /\ answer'[f] = verdict
           /\ answer' \in [Callers -> Verdicts] /\ probed' \in [Callers -> Builds]
           /\ flight' \in [Callers -> {"none", "created", "probing", "over"}]
           /\ inflight' \in [{"async", "sync"} -> [Keys -> Callers \cup {NoFlight}]]
           /\ \A c \in Callers : CallerInv(c)' /\ FlightInv(c)'
  <1>0. Types /\ FlightInv(f) /\ 0 \in Builds
    BY GateAssumption DEF IInv, Builds
  <1>1. /\ answer' = [answer EXCEPT ![f] = verdict]
        /\ flight' = [flight EXCEPT ![f] = "over"]
        /\ probed' = [probed EXCEPT ![f] = 0]
        /\ UNCHANGED <<versioned, build, offers, asked, caller, awaits, relied>>
    BY DEF Resolves, worldVars
  <1>2. /\ answer' \in [Callers -> Verdicts] /\ probed' \in [Callers -> Builds]
        /\ flight' \in [Callers -> {"none", "created", "probing", "over"}]
        /\ answer'[f] = verdict /\ flight'[f] = "over"
    BY <1>0, <1>1 DEF Types
  <1>3. /\ inflight' \in [{"async", "sync"} -> [Keys -> Callers \cup {NoFlight}]]
        /\ \A t \in {"async", "sync"}, k \in Keys :
              inflight'[t][k] = IF t = Twin(f) /\ k = KeyOf(f) /\ inflight[t][k] = f
                                THEN NoFlight ELSE inflight[t][k]
    BY <1>0 DEF Resolves, Types
  <1>4. Onward
    BY <1>0, <1>1 DEF Onward, FlightInv, Types, Builds
  <1>5. EntryInv'
    BY <1>3, <1>4, FewerEntries
  <1>6. ASSUME NEW c \in Callers PROVE CallerInv(c)'
    BY <1>0, <1>1, <1>4, OtherCaller DEF Types
  <1>7. ASSUME NEW g \in Callers PROVE FlightInv(g)'
    <2>1. CASE g = f
      <3>1. /\ asked[f] =< probed[f] /\ probed[f] =< build
            /\ versioned => probed[f] = asked[f]
        BY <1>0 DEF FlightInv
      <3> QED BY <1>1, <1>2, <2>1, <3>1 DEF FlightInv
    <2>2. CASE g # f
      <3>1. FlightInv(g) /\ KeyOf(g) \in Keys /\ Twin(g) \in {"async", "sync"}
        BY <1>0, KeyFacts DEF IInv
      <3>2. flight[g] \in {"created", "probing"} => inflight'[Twin(g)][KeyOf(g)] = g
        BY <1>3, <2>2, <3>1 DEF FlightInv
      <3>3. flight'[g] = flight[g] /\ probed'[g] = probed[g] /\ answer'[g] = answer[g]
        BY <1>0, <1>1, <2>2 DEF Types
      <3> QED BY <1>4, <3>2, <3>3, OtherFlight
    <2> QED BY <2>1, <2>2
  <1> QED BY <1>2, <1>3, <1>4, <1>5, <1>6, <1>7

LEMMA ProbeStep ==
    ASSUME IInv, NEW f \in Callers, Probing(f) PROVE IInv'
  <1>0. Types /\ FlightInv(f) /\ CallerInv(f) /\ KeyOf(f) \in Keys
    BY KeyFacts DEF IInv
  <1>1. CASE ProbeStarts(f)
    <2>1. /\ flight[f] = "created" /\ flight' = [flight EXCEPT ![f] = "probing"]
          /\ probed' = [probed EXCEPT ![f] = BuildAtPath(f)]
          /\ UNCHANGED <<versioned, build, offers, asked, caller, awaits, relied, verdicts,
                         inflight, answer>>
      BY <1>1 DEF ProbeStarts, worldVars, gateVars, cacheVars
    <2>a. /\ BuildAtPath(f) \in Builds /\ build \in Nat /\ asked[f] \in Nat
          /\ asked[f] =< BuildAtPath(f) /\ BuildAtPath(f) =< build
          /\ versioned => BuildAtPath(f) = asked[f]
      BY <1>0 DEF BuildAtPath, Types, Builds, CallerInv
    <2>2. Types'
      BY <1>0, <2>1, <2>a DEF Types
    <2>3. Onward
      BY <1>0, <2>1 DEF Onward, Types, Builds
    <2>4. ASSUME NEW c \in Callers PROVE CallerInv(c)' /\ FlightInv(c)'
      <3>1. CallerInv(c)'
        BY <1>0, <2>1, <2>3, OtherCaller DEF Types
      <3>2. CASE c = f
        <4>1. flight'[f] = "probing" /\ probed'[f] = BuildAtPath(f)
          BY <1>0, <2>1 DEF Types, Builds
        <4>2. KeyOf(f)' = KeyOf(f)
          BY <2>3, KeysStay
        <4>3. FlightInv(f)'
          BY <1>0, <2>1, <2>a, <4>1, <4>2 DEF FlightInv, CallerInv
        <4> QED BY <3>1, <3>2, <4>3
      <3>3. CASE c # f
        <4>1. flight'[c] = flight[c] /\ probed'[c] = probed[c] /\ FlightInv(c)
          BY <1>0, <2>1, <3>3 DEF IInv, Types
        <4> QED BY <2>1, <2>3, <3>1, <4>1, OtherFlight DEF FlightInv
      <3> QED BY <3>2, <3>3
    <2>5. EntryInv' /\ VerdictInv'
      BY <2>1, <2>3, FewerEntries, SameVerdicts
    <2> QED BY <2>2, <2>4, <2>5 DEF IInv
  <1>2. CASE ProbeAnswers(f)
    <2>1. PICK verdict \in Verdicts :
            /\ verdict.build = probed[f] /\ verdict.surface \in {"clean", "extra"}
            /\ verdict.surface = "clean" => offers[probed[f]] = "clean"
            /\ verdicts' = [verdicts EXCEPT ![KeyOf(f)] = verdict]
            /\ Resolves(f, verdict)
      <3>1. PICK connected \in BOOLEAN :
              LET verdict == [surface |-> Announces(f, connected), build |-> probed[f]]
              IN /\ verdict.surface # "offline"
                 /\ verdicts' = [verdicts EXCEPT ![KeyOf(f)] = verdict]
                 /\ Resolves(f, verdict)
        BY <1>2, Zenon DEF ProbeAnswers
      <3>2. /\ Announces(f, connected) \in {"clean", "extra", "offline"}
            /\ Announces(f, connected) = "clean" => offers[probed[f]] = "clean"
        BY <1>0 DEF Announces, Types
      <3>3. [surface |-> Announces(f, connected), build |-> probed[f]] \in Verdicts
        BY <1>0, <3>1, <3>2 DEF Types, Verdicts
      <3> QED BY <3>1, <3>2, <3>3
    <2>2. UNCHANGED <<worldVars, asked, caller, awaits, relied>> /\ flight[f] = "probing"
      BY <1>2 DEF ProbeAnswers, gateVars
    <2>3. /\ Onward /\ EntryInv' /\ answer'[f] = verdict
          /\ answer' \in [Callers -> Verdicts] /\ probed' \in [Callers -> Builds]
          /\ flight' \in [Callers -> {"none", "created", "probing", "over"}]
          /\ inflight' \in [{"async", "sync"} -> [Keys -> Callers \cup {NoFlight}]]
          /\ \A c \in Callers : CallerInv(c)' /\ FlightInv(c)'
      BY <2>1, <2>2, ResolvesStep
    <2>4. Types'
      BY <1>0, <2>1, <2>2, <2>3 DEF Types, worldVars
    <2>5. VerdictInv'
      <3> SUFFICES ASSUME NEW k \in Keys, verdicts'[k] # NoVerdict
                   PROVE  \E g \in Callers : KeyOf(g)' = k /\ answer'[g] = verdicts'[k]
                                               /\ answer'[g].surface # "none"
        BY DEF VerdictInv, NoVerdict
      <3>1. CASE k = KeyOf(f)
        <4>1. verdicts'[k] = verdict /\ KeyOf(f)' = k
          BY <1>0, <2>1, <2>3, <3>1, KeysStay DEF Types
        <4> QED BY <2>1, <2>3, <4>1
      <3>2. CASE k # KeyOf(f)
        <4>1. verdicts'[k] = verdicts[k]
          BY <1>0, <2>1, <3>2 DEF Types
        <4>2. PICK g \in Callers : KeyOf(g) = k /\ answer[g] = verdicts[k]
                                     /\ answer[g].surface # "none"
          BY <4>1 DEF IInv, VerdictInv
        <4> QED BY <2>3, <4>1, <4>2, KeysStay DEF Onward
      <3> QED BY <3>1, <3>2
    <2> QED BY <2>3, <2>4, <2>5 DEF IInv
  <1>3. CASE ProbeFails(f)
    <2>1. /\ Failure(f) \in Verdicts /\ Failure(f).surface = "failure"
          /\ Failure(f).build = probed[f]
      BY <1>0 DEF Failure, Types, Verdicts
    <2>2. /\ UNCHANGED <<worldVars, asked, caller, awaits, relied>> /\ flight[f] = "probing"
          /\ Resolves(f, Failure(f)) /\ verdicts' = verdicts
      BY <1>3 DEF ProbeFails, gateVars
    <2>3. /\ Onward /\ EntryInv' /\ answer' \in [Callers -> Verdicts]
          /\ probed' \in [Callers -> Builds]
          /\ flight' \in [Callers -> {"none", "created", "probing", "over"}]
          /\ inflight' \in [{"async", "sync"} -> [Keys -> Callers \cup {NoFlight}]]
          /\ \A c \in Callers : CallerInv(c)' /\ FlightInv(c)'
      BY <2>1, <2>2, ResolvesStep
    <2>4. Types'
      BY <1>0, <2>2, <2>3 DEF Types, worldVars
    <2>5. VerdictInv'
      BY <2>2, <2>3, SameVerdicts
    <2> QED BY <2>3, <2>4, <2>5 DEF IInv
  <1> QED BY <1>1, <1>2, <1>3 DEF Probing

(* A shutdown ends the probes of the loop's twin; a probe that had not begun  *)
(* leaves its entry, which is then of a flight that is over.                  *)
LEMMA ShutdownStep == ASSUME IInv, ShutsDown PROVE IInv'
  <1> DEFINE running == {f \in AsyncCallers : flight[f] = "probing"}
             unbegun == {f \in AsyncCallers : flight[f] = "created"}
  <1>0. Types
    BY DEF IInv
  <1>1. /\ flight' = [f \in Callers |->
                         IF f \in running \cup unbegun THEN "over" ELSE flight[f]]
        /\ answer' = [f \in Callers |-> IF f \in running THEN Failure(f) ELSE answer[f]]
        /\ inflight' = [inflight EXCEPT !["async"] = [k \in Keys |->
                           IF @[k] \in running THEN NoFlight ELSE @[k]]]
        /\ UNCHANGED <<versioned, build, offers, asked, caller, awaits, relied, verdicts, probed>>
    BY DEF ShutsDown, worldVars, gateVars, cacheVars
  <1>2. ASSUME NEW f \in Callers
        PROVE  /\ Failure(f) \in Verdicts /\ Failure(f).surface = "failure"
               /\ Failure(f).build = probed[f]
    BY <1>0 DEF Failure, Types, Verdicts
  <1>3. ASSUME NEW t \in {"async", "sync"}, NEW k \in Keys
        PROVE  inflight'[t][k] = IF t = "async" /\ inflight[t][k] \in running THEN NoFlight
                                 ELSE inflight[t][k]
    BY <1>0, <1>1 DEF Types
  <1>4. Types'
    <2>1. answer' \in [Callers -> Verdicts]
      BY <1>0, <1>1, <1>2 DEF Types
    <2>2. flight' \in [Callers -> {"none", "created", "probing", "over"}]
      BY <1>0, <1>1 DEF Types
    <2>3. inflight' \in [{"async", "sync"} -> [Keys -> Callers \cup {NoFlight}]]
      BY <1>0, <1>1 DEF Types
    <2> QED BY <1>0, <1>1, <2>1, <2>2, <2>3 DEF Types
  <1>5. Onward
    BY <1>0, <1>1 DEF IInv, FlightInv, Onward, Types, Builds
  <1>6. EntryInv' /\ VerdictInv'
    BY <1>1, <1>3, <1>5, FewerEntries, SameVerdicts
  <1>7. ASSUME NEW f \in Callers PROVE CallerInv(f)' /\ FlightInv(f)'
    <2>0. FlightInv(f) /\ KeyOf(f) \in Keys /\ Twin(f) \in {"async", "sync"}
      BY <1>0, KeyFacts DEF IInv
    <2>1. CallerInv(f)'
      BY <1>1, <1>5, OtherCaller
    <2>2. CASE f \in running
      <3>1. flight'[f] = "over" /\ answer'[f] = Failure(f)
        BY <1>1, <2>2
      <3> QED BY <1>1, <1>2, <2>0, <2>1, <2>2, <3>1 DEF FlightInv
    <2>3. CASE f \in unbegun
      <3>1. flight'[f] = "over" /\ answer'[f] = answer[f] /\ answer[f].surface = "none"
        BY <1>1, <2>0, <2>3 DEF FlightInv
      <3> QED BY <1>1, <2>0, <2>1, <3>1 DEF FlightInv, NoVerdict
    <2>4. CASE f \notin running \cup unbegun
      <3>1. flight'[f] = flight[f] /\ answer'[f] = answer[f] /\ probed'[f] = probed[f]
        BY <1>1, <2>4
      <3>2. flight[f] \in {"created", "probing"} => inflight'[Twin(f)][KeyOf(f)] = f
        BY <1>3, <2>0, <2>4 DEF FlightInv
      <3> QED BY <1>5, <2>1, <3>1, <3>2, OtherFlight
    <2> QED BY <2>2, <2>3, <2>4
  <1> QED BY <1>4, <1>6, <1>7 DEF IInv

(* An update of the binary only makes the past longer. *)
LEMMA UpdateStep == ASSUME IInv, BinaryUpdates PROVE IInv'
  <1>1. /\ build' = build + 1 /\ build < MaxBuild /\ MaxBuild \in Nat
        /\ UNCHANGED <<versioned, offers, asked, caller, awaits, relied, verdicts, inflight,
                       flight, probed, answer>>
    BY GateAssumption DEF BinaryUpdates, gateVars, cacheVars, flightVars
  <1>2. Types'
    BY <1>1 DEF IInv, Types, Builds
  <1>3. Onward
    BY <1>1 DEF Onward, IInv, Types, Builds
  <1>4. EntryInv' /\ VerdictInv'
    BY <1>1, <1>3, FewerEntries, SameVerdicts
  <1>5. ASSUME NEW f \in Callers PROVE CallerInv(f)' /\ FlightInv(f)'
    <2>1. CallerInv(f)'
      BY <1>1, <1>3, OtherCaller
    <2>2. inflight'[Twin(f)][KeyOf(f)] = f \/ flight[f] \notin {"created", "probing"}
      BY <1>1 DEF IInv, FlightInv
    <2>3. FlightInv(f)'
      BY <1>1, <1>3, <2>2, OtherFlight
    <2> QED BY <2>1, <2>3
  <1> QED BY <1>2, <1>4, <1>5 DEF IInv

(* What is left behind by a flight that is over touches nothing of the gate. *)
LEMMA SameKeepsGate ==
    ASSUME IInv,
           UNCHANGED <<versioned, build, offers, asked, caller, awaits, relied, verdicts,
                       inflight, flight, probed, answer>>
    PROVE  IInv'
  <1>1. Onward
    BY DEF Onward, IInv, Types, Builds
  <1>2. Types' /\ EntryInv' /\ VerdictInv'
    BY <1>1, FewerEntries, SameVerdicts DEF IInv, Types
  <1>3. ASSUME NEW f \in Callers PROVE CallerInv(f)' /\ FlightInv(f)'
    BY <1>1, OtherCaller, OtherFlight DEF IInv, FlightInv
  <1> QED BY <1>2, <1>3 DEF IInv

LEMMA IInvStep == IInv /\ [Next]_vars => IInv'
  <1>1. ASSUME IInv, UNCHANGED vars PROVE IInv'
    BY <1>1, SameKeepsGate DEF vars, worldVars, gateVars, cacheVars, flightVars
  <1>2. ASSUME IInv, NEW f \in Callers, WorkEnds(f) PROVE IInv'
    BY <1>2, SameKeepsGate DEF WorkEnds, worldVars, gateVars, cacheVars
  <1> QED
    BY <1>1, <1>2, AsksStep, LooksStep, ClaimStep, ProbeStep, ShutdownStep, UpdateStep
       DEF Next, Asking

LEMMA Invariance == Spec => []IInv
  BY IInvInit, IInvStep, PTL DEF Spec

----------------------------------------------------------------------------
(* A flight whose thread or child is under way probes, or was given up.      *)
WorkInv == \A f \in atWork \cap Callers : flight[f] = "probing" \/ GivenUp(f)

LEMMA WorkStep == IInv /\ WorkInv /\ [Next]_vars => WorkInv'
  <1> SUFFICES ASSUME IInv, WorkInv, [Next]_vars PROVE WorkInv'
    OBVIOUS
  <1> USE DEF WorkInv, GivenUp
  <1>0. /\ flight \in [Callers -> {"none", "created", "probing", "over"}]
        /\ answer \in [Callers -> Verdicts]
    BY DEF IInv, Types
  <1>1. CASE UNCHANGED <<atWork, flight, answer>>
    BY <1>1
  <1>2. ASSUME NEW c \in Callers, ClaimsOrJoins(c) PROVE WorkInv'
    <2>1. UNCHANGED <<atWork, answer>>
      BY <1>2 DEF ClaimsOrJoins
    <2>2. flight[c] = "none" /\ flight' \in {flight, [flight EXCEPT ![c] = "created"]}
      BY <1>2 DEF IInv, CallerInv, ClaimsOrJoins, MayClaim
    <2> QED BY <1>0, <2>1, <2>2
  <1>3. ASSUME NEW f \in Callers, Probing(f) PROVE WorkInv'
    <2>1. CASE ProbeStarts(f)
      BY <1>0, <2>1 DEF ProbeStarts
    <2>2. CASE ProbeAnswers(f)
      <3>1. /\ atWork' = atWork \ {f}
            /\ \E verdict : Resolves(f, verdict)
        BY <2>2 DEF ProbeAnswers
      <3> QED BY <1>0, <3>1 DEF Resolves
    <2>3. CASE ProbeFails(f)
      <3>1. /\ atWork' \in {atWork, atWork \ {f}}
            /\ Resolves(f, Failure(f)) /\ Failure(f).surface = "failure"
        BY <2>3 DEF ProbeFails, Failure
      <3> QED BY <1>0, <3>1 DEF Resolves
    <2> QED BY <1>3, <2>1, <2>2, <2>3 DEF Probing
  <1>4. CASE ShutsDown
    <2>1. /\ atWork' = atWork
          /\ \A f \in Callers : flight[f] = "probing" =>
                \/ flight'[f] = "probing"
                \/ flight'[f] = "over" /\ answer'[f] = Failure(f)
          /\ \A f \in Callers : flight[f] = "over" => flight'[f] = "over" /\ answer'[f] = answer[f]
      BY <1>4 DEF ShutsDown, Callers
    <2>2. \A f \in Callers : Failure(f).surface = "failure"
      BY DEF Failure
    <2>3. ASSUME NEW f \in atWork \cap Callers
          PROVE  flight'[f] = "probing" \/ (flight'[f] = "over" /\ answer'[f].surface = "failure")
      <3>1. flight[f] = "probing" \/ (flight[f] = "over" /\ answer[f].surface = "failure")
        OBVIOUS
      <3> QED BY <2>1, <2>2, <3>1
    <2> QED BY <2>1, <2>3
  <1>5. ASSUME NEW f \in Callers, WorkEnds(f) PROVE WorkInv'
    BY <1>5 DEF WorkEnds
  <1> QED
    BY <1>1, <1>2, <1>3, <1>4, <1>5
       DEF Next, Asking, Asks, AnsweredFromCache, MissesCache, ReadsAnswer, GivesUp, TurnStarts,
           BinaryUpdates, vars, flightVars

(* In no schedule of callers, threads, cancellations, updates and a shutdown *)
(* are two probes of one key under way in one twin, their threads and        *)
(* children included, but beside one that was answered as failed: a published *)
(* flight is only taken away by its own end, and only a bound or the shutdown *)
(* ends one beside its child (_verify_tool_surface_async,                    *)
(* _resolve_inflight_async).                                                 *)
THEOREM ProbesAreShared == Spec => []OneProbeAtATime
  <1>1. IInv /\ WorkInv => OneProbeAtATime
    <2> SUFFICES ASSUME IInv, WorkInv, NEW f \in Callers, NEW g \in Callers,
                        UnderWay(f), UnderWay(g), Twin(f) = Twin(g), KeyOf(f) = KeyOf(g),
                        ~GivenUp(f), ~GivenUp(g)
                 PROVE  f = g
      BY DEF OneProbeAtATime
    <2>1. flight[f] \in {"created", "probing"} /\ flight[g] \in {"created", "probing"}
      BY DEF UnderWay, WorkInv
    <2> QED BY <2>1 DEF IInv, FlightInv
  <1>2. Init => WorkInv
    BY DEF Init, WorkInv
  <1> QED BY <1>1, <1>2, IInvInit, IInvStep, WorkStep, PTL DEF Spec

(* A turn was started from the build its caller found, or, where updates     *)
(* replace the file, from that of the verdict it relied on or a later one.   *)
RanInv ==
    /\ ran \in [Callers -> Builds]
    /\ \A c \in Callers : caller[c] = "started" =>
          IF versioned THEN ran[c] = asked[c] ELSE relied[c].build =< ran[c]

LEMMA PassedOn ==
    ASSUME IInv, NEW c \in Callers, caller[c] \in {"passed", "started"}
    PROVE  /\ \E f \in Callers : KeyOf(f) = KeyOf(c) /\ answer[f] = relied[c]
           /\ relied[c].surface = "clean" /\ offers[relied[c].build] = "clean"
           /\ relied[c].build \in Nat /\ asked[c] \in Nat /\ build \in Nat
           /\ asked[c] =< relied[c].build /\ relied[c].build =< build
           /\ versioned => relied[c].build = asked[c]
  <1>1. relied[c].surface = "clean"
    BY DEF IInv, CallerInv
  <1>2. PICK f \in Callers : KeyOf(f) = KeyOf(c) /\ answer[f] = relied[c]
    BY DEF IInv, CallerInv
  <1>3. asked[f] = asked[c]
    BY <1>2, KeyFacts DEF IInv
  <1>4. answer[f].build \in Nat /\ asked[c] \in Nat /\ build \in Nat
    BY DEF IInv, Types, Verdicts, Builds
  <1> QED BY <1>1, <1>2, <1>3, <1>4 DEF IInv, FlightInv

LEMMA RanStep == IInv /\ RanInv /\ [Next]_vars => RanInv'
  <1> DEFINE Ran(d) == IF versioned THEN ran[d] = asked[d] ELSE relied[d].build =< ran[d]
  <1> SUFFICES ASSUME IInv, RanInv, [Next]_vars
               PROVE  /\ ran' \in [Callers -> Builds]
                      /\ \A d \in Callers : caller'[d] = "started" => Ran(d)'
    BY DEF RanInv
  <1>0. /\ caller \in [Callers -> {"absent", "idle", "keyed", "missed", "waiting",
                                   "passed", "started", "refused", "failed"}]
        /\ asked \in [Callers -> Builds] /\ relied \in [Callers -> Verdicts]
    BY DEF IInv, Types
  <1>1. /\ ran \in [Callers -> Builds] /\ build \in Builds
        /\ \A d \in Callers : caller[d] = "started" => Ran(d)
    BY DEF RanInv, IInv, Types
  <1>2. CASE UNCHANGED <<versioned, asked, caller, relied, ran>>
    BY <1>1, <1>2
  <1>3. ASSUME NEW c \in Callers, Asks(c) PROVE RanInv'
    <2>1. /\ caller[c] = "idle" /\ caller' = [caller EXCEPT ![c] = "keyed"]
          /\ asked' = [asked EXCEPT ![c] = build]
          /\ UNCHANGED <<versioned, relied, ran>>
      BY <1>3 DEF Asks, worldVars, gateVars
    <2> QED BY <1>0, <1>1, <2>1 DEF RanInv
  <1>4. ASSUME NEW c \in Callers, Asking(c) \/ GivesUp(c) PROVE RanInv'
    <2> USE DEF Leaves, LeavesWith, Fails, worldVars, gateVars
    <2>1. /\ UNCHANGED <<versioned, asked, ran>>
          /\ \A d \in Callers : caller'[d] = "started" =>
                caller[d] = "started" /\ relied'[d] = relied[d]
      <3>1. CASE AnsweredFromCache(c)
        BY <1>0, <3>1 DEF AnsweredFromCache
      <3>2. CASE MissesCache(c)
        BY <1>0, <3>2 DEF MissesCache
      <3>3. CASE ClaimsOrJoins(c)
        BY <1>0, <3>3 DEF ClaimsOrJoins
      <3>4. CASE ReadsAnswer(c)
        BY <1>0, <3>4 DEF ReadsAnswer
      <3>5. CASE GivesUp(c)
        BY <1>0, <3>5 DEF GivesUp
      <3> QED BY <1>4, <3>1, <3>2, <3>3, <3>4, <3>5 DEF Asking
    <2> QED BY <1>1, <2>1 DEF RanInv
  <1>5. ASSUME NEW c \in Callers, TurnStarts(c) PROVE RanInv'
    <2>1. /\ caller[c] = "passed" /\ ran' = [ran EXCEPT ![c] = BuildAtPath(c)]
          /\ caller' = [caller EXCEPT ![c] = "started"]
          /\ UNCHANGED <<versioned, asked, relied>>
      BY <1>5 DEF TurnStarts, worldVars
    <2>2. /\ relied[c].build =< build /\ build \in Nat /\ asked[c] \in Nat
          /\ BuildAtPath(c) \in Builds
      BY <1>0, <1>1, <2>1, PassedOn DEF BuildAtPath
    <2>3. IF versioned THEN BuildAtPath(c) = asked[c] ELSE relied[c].build =< BuildAtPath(c)
      BY <2>2 DEF BuildAtPath
    <2> QED BY <1>0, <1>1, <2>1, <2>2, <2>3 DEF RanInv
  <1> QED
    BY <1>2, <1>3, <1>4, <1>5
       DEF RanInv, Next, Probing, ProbeStarts, ProbeAnswers, ProbeFails, WorkEnds, ShutsDown,
           BinaryUpdates, vars, worldVars, gateVars

(* A caller passes the gate only on the clean answer of a probe of its own   *)
(* key: announced by a build that was mounted at its question or later, and  *)
(* by exactly the one it found where a version is a file of its own; and its  *)
(* turn runs a build that was not seen clean only after an in-place update   *)
(* behind the probe (_tool_surface_key, _evaluate_tool_surface).             *)
THEOREM PassedOnACleanSurface == Spec => []NoTurnPastADirtySurface
  <1>1. IInv /\ RanInv => NoTurnPastADirtySurface
    <2> SUFFICES ASSUME IInv, RanInv, NEW c \in Callers, caller[c] \in {"passed", "started"}
                 PROVE  /\ \E f \in Callers : KeyOf(f) = KeyOf(c) /\ answer[f] = relied[c]
                        /\ relied[c].surface = "clean" /\ offers[relied[c].build] = "clean"
                        /\ relied[c].build \in asked[c] .. build
                        /\ versioned => relied[c].build = asked[c]
                        /\ caller[c] = "started" /\ offers[ran[c]] # "clean" =>
                              ~versioned /\ ran[c] > relied[c].build
      BY DEF NoTurnPastADirtySurface
    <2>1. caller[c] = "started" =>
            /\ ran[c] \in Nat
            /\ IF versioned THEN ran[c] = asked[c] ELSE relied[c].build =< ran[c]
      BY DEF RanInv, Builds
    <2>2. versioned \in BOOLEAN
      BY DEF IInv, Types
    <2> QED BY <2>1, <2>2, PassedOn
  <1>2. Init => RanInv
    <2>1. 0 \in Builds
      BY GateAssumption DEF Builds
    <2>2. Init => ran \in [Callers -> Builds] /\ \A c \in Callers : caller[c] # "started"
      BY <2>1 DEF Init
    <2> QED BY <2>2 DEF RanInv
  <1> QED BY <1>1, <1>2, IInvInit, IInvStep, RanStep, PTL DEF Spec

----------------------------------------------------------------------------
(* The turn: what a route's state may be. *)

(* The pieces of a text: the CLI's, and the one that stands for the Claude   *)
(* CLI's words.                                                               *)
Pieces == (UNION {Range(text) : text \in Responses}) \cup {"word"}

(* A call's id is the API's own, or the number of its round.                  *)
CallIds == IF route \in ApiRoutes THEN UNION {Range(batch) : batch \in Batches} ELSE Nat
Entries == ({"call", "ran"} \X CallIds) \cup ({"result"} \X CallIds \X BOOLEAN)

(* What the types do not say of a record's field is left to its value.       *)
IsParser(parser) ==
    parser \in [candidate : Seq(Pieces), inCall : BOOLEAN,
                inside : {parser.inside}, line : {parser.line}]

IsTransport(state) ==
    /\ state \in [session : Sessions \cup {NoSession}, received : Sessions \cup {NoSession},
                  assistant : {state.assistant}, parser : {state.parser}, sawEnd : BOOLEAN,
                  error : BOOLEAN, attached : BOOLEAN, announced : BOOLEAN,
                  result : BOOLEAN]
    /\ IsParser(state.parser)

IsMemory(known) ==
    known \in [heard : {known.heard}, sound : BOOLEAN, named : {known.named},
               log : Seq(Entries), owed : {known.owed}, sent : {known.sent}]

TurnTypes ==
    /\ route \in CliRoutes \cup ApiRoutes \cup {"claude_run"}
    /\ phase \in {"start", "ask", "listen", "tools", "execute", "ended"}
    /\ ending \in {"none", "final", "limit", "failed", "refused", "left"}
    /\ (phase = "ended") = (ending # "none")
    /\ round \in Nat
    /\ calls \in Seq(CallIds) /\ results \in Seq(CallIds \X BOOLEAN)
    /\ message \in Seq(CallIds \X BOOLEAN)
    /\ response \in Seq(Pieces) /\ at \in 0 .. Len(response)
    /\ shown \in Seq(Pieces)
    /\ IsTransport(line) /\ IsMemory(seen)

(* The sessions a CLI has named in this turn are the one it is resumed under *)
(* and the one it has named in this round; both, if there are both, are one. *)
Named(id) == IF id = NoSession THEN {} ELSE {id}

(* While a CLI speaks, what the transport remembers of the round is what it  *)
(* has heard.                                                                *)
ListenInv ==
    /\ seen.heard \subseteq {"thread", "text", "end", "error"}
    /\ line.sawEnd => "end" \in seen.heard
    /\ "error" \in seen.heard => line.error
    /\ line.error => ~line.sawEnd
    /\ route = "grok" => line.sawEnd = (line.received # NoSession)
    /\ route = "codex" /\ NoSession \notin {line.session, line.received}
          => line.received = line.session
    /\ seen.named = Named(line.session) \cup Named(line.received)

(* An answer that counts is complete, without a word it may not hold, and    *)
(* under one session (CodexSound, GrokSound).                                 *)
Counts(session) ==
    /\ "end" \in seen.heard
    /\ seen.heard \subseteq {"thread", "text", "end"}
    /\ session \in Sessions /\ seen.named = {session}

(* Between rounds the one session stands, and tools run on a round that      *)
(* counted.                                                                  *)
CliInv ==
    route \in {"codex", "grok"} =>
        /\ phase = "start" => line.session = NoSession
        /\ phase \in {"start", "ask"} => seen.named = Named(line.session)
        /\ phase = "listen" => ListenInv
        /\ AtTools \/ ending \in {"final", "limit"} => seen.sound /\ Counts(line.session)

(* A judged stream goes on only after clean announcements.                   *)
StreamInv ==
    route \in Streams =>
        /\ phase \in {"start", "listen", "ended"}
        /\ ending = "final" => seen.sound /\ "result" \in seen.heard
        /\ line.result => "result" \in seen.heard
        /\ Judged =>
              /\ shown # <<>> \/ line.announced => "clean" \in seen.heard
              /\ phase \in {"start", "listen"} \/ ending = "final" => "dirty" \notin seen.heard

(* Three entries of the log for every result so far, and one more for a call *)
(* that is told and has not run.                                             *)
Answered ==
    \A i \in 1 .. Len(results) :
        /\ i =< Len(calls) /\ results[i][1] = calls[i]
        /\ seen.log[3 * i - 2] = <<"call", calls[i]>>
        /\ seen.log[3 * i - 1] = <<"ran", calls[i]>>
        /\ seen.log[3 * i] = <<"result", calls[i], results[i][2]>>

LogInv ==
    \/ seen.log = <<>> /\ phase \in {"start", "listen", "ended"}
    \/ /\ Answered
       /\ Len(seen.log) = 3 * Len(results)
       /\ phase \in {"tools", "ask", "ended"}
    \/ /\ Answered
       /\ Len(seen.log) = 3 * Len(results) + 1
       /\ Len(results) < Len(calls)
       /\ seen.log[3 * Len(results) + 1] = <<"call", NextCall>>
       /\ phase \in {"execute", "ended"}

(* A request carries the results of its batch, and an API's transport holds  *)
(* the message that asked for them; what a request carried was told.         *)
LoopInv ==
    /\ phase \in {"start", "ask"} => message = results /\ Len(results) = Len(calls)
    /\ phase = "start" => results = <<>> /\ calls = <<>>
    /\ route \in ApiRoutes /\ phase \in {"tools", "execute", "ask"} => line.assistant = calls
    /\ phase = "listen" =>
          /\ seen.owed = [i \in DOMAIN seen.sent.results |->
                             <<"result", seen.sent.results[i][1], seen.sent.results[i][2]>>]
          /\ seen.sent.calls = [i \in DOMAIN seen.sent.results |-> seen.sent.results[i][1]]

(* Nothing is known of a turn that has not started.                          *)
FreshInv ==
    phase = "start" => response = <<>> /\ shown = <<>> /\ seen = NothingSeen
                       /\ line.assistant = <<>>

TurnInv ==
    /\ TurnTypes /\ CliInv /\ StreamInv /\ LogInv /\ LoopInv /\ NoWordLost /\ FreshInv

----------------------------------------------------------------------------
(* Sequences.  Concatenation is only ever expanded to cite its laws.          *)
Cat(s, t) == s \o t

(* Concatenation: closed, with a unit, associative; two adjacent parts.       *)
LEMMA CatSeq ==
    ASSUME NEW S, NEW s \in Seq(S), NEW t \in Seq(S) PROVE Cat(s, t) \in Seq(S)
  BY ConcatProperties DEF Cat

LEMMA CatEmpty ==
    ASSUME NEW S, NEW s \in Seq(S) PROVE Cat(s, <<>>) = s /\ Cat(<<>>, s) = s
  BY ConcatEmptySeq DEF Cat

LEMMA CatAssociative ==
    ASSUME NEW S, NEW s \in Seq(S), NEW t \in Seq(S), NEW u \in Seq(S)
    PROVE  Cat(Cat(s, t), u) = Cat(s, Cat(t, u))
  BY ConcatAssociative DEF Cat

LEMMA Adjacent ==
    ASSUME NEW S, NEW w \in Seq(S), NEW m \in 0 .. Len(w), NEW n \in m .. Len(w)
    PROVE  /\ SubSeq(w, 1, m) \in Seq(S) /\ SubSeq(w, m + 1, n) \in Seq(S)
           /\ Cat(SubSeq(w, 1, m), SubSeq(w, m + 1, n)) = SubSeq(w, 1, n)
  <1>1. Len(w) \in Nat /\ \A i \in 1 .. Len(w) : w[i] \in S
    OBVIOUS
  <1>2. /\ 1 \in 1 .. Len(w) + 1 /\ m \in 1 - 1 .. Len(w) /\ n \in m .. Len(w)
        /\ m \in Int /\ m + 1 \in Int /\ n \in Int
    BY <1>1
  <1>3. SubSeq(w, 1, m) \in Seq(S)
    BY <1>1, <1>2, SubSeqProperties
  <1>4. SubSeq(w, m + 1, n) \in Seq(S)
    BY <1>1, <1>2, SubSeqProperties
  <1>5. SubSeq(w, 1, m) \o SubSeq(w, m + 1, n) = SubSeq(w, 1, n)
    BY <1>2, ConcatAdjacentSubSeq
  <1> QED BY <1>3, <1>4, <1>5 DEF Cat

(* Least and greatest numbers of a set.                                       *)
LEMMA MinIsThere ==
    ASSUME NEW S \in SUBSET Nat, S # {} PROVE Min(S) \in S /\ \A k \in S : Min(S) =< k
  <1> DEFINE R == OpToRel(<, Nat)
  <1>1. PICK m \in S : \A k \in S : <<k, m>> \notin R
    <2>1. IsWellFoundedOn(R, Nat)
      BY NatLessThanWellFounded
    <2> HIDE DEF R
    <2> QED BY <2>1, WFMin
  <1>2. R = {pair \in Nat \X Nat : pair[1] < pair[2]}
    BY DEF OpToRel
  <1>3. ASSUME NEW k \in S PROVE ~(k < m)
    <2>1. <<k, m>> \in Nat \X Nat /\ <<k, m>>[1] = k /\ <<k, m>>[2] = m
      OBVIOUS
    <2> HIDE DEF R
    <2> QED BY <1>1, <1>2, <2>1
  <1>4. \A k \in S : m =< k
    BY <1>3
  <1> HIDE DEF R
  <1> QED BY <1>4 DEF Min

LEMMA MinIs ==
    ASSUME NEW S \in SUBSET Nat, NEW m \in S, \A k \in S : m =< k PROVE Min(S) = m
  <1>1. PICK x \in S : x = Min(S) /\ x =< m
    BY MinIsThere
  <1>2. m \in Nat /\ x \in Nat /\ m =< x
    OBVIOUS
  <1> QED BY <1>1, <1>2

LEMMA MaxIs ==
    ASSUME NEW S \in SUBSET Nat, NEW m \in S, \A k \in S : k =< m PROVE Max(S) = m
  <1>1. \A x \in S : (\A k \in S : x >= k) => x = m
    OBVIOUS
  <1>2. \A k \in S : m >= k
    OBVIOUS
  <1> QED BY <1>1, <1>2 DEF Max

LEMMA MaxIsThere ==
    ASSUME NEW S \in SUBSET Nat, S # {}, NEW n \in Nat, \A k \in S : k =< n
    PROVE  Max(S) \in S /\ \A k \in S : k =< Max(S)
  <1> DEFINE T == {n - k : k \in S}
  <1>1. \A k \in S : n - k \in Nat
    OBVIOUS
  <1>1a. T \in SUBSET Nat /\ T # {}
    BY <1>1
  <1> HIDE DEF T
  <1>2. Min(T) \in T /\ \A k \in T : Min(T) =< k
    BY <1>1a, MinIsThere
  <1>3. PICK m \in S : Min(T) = n - m
    BY <1>2 DEF T
  <1>4. ASSUME NEW k \in S PROVE k =< m
    <2>1. n - k \in T
      BY DEF T
    <2>2. n - m =< n - k
      BY <1>2, <1>3, <2>1
    <2> QED BY <2>2
  <1> QED BY <1>4, MaxIs

(* The elements of a concatenation, and of a part of a sequence.              *)
Joined(w, s, t) ==
    /\ Len(w) = Len(s) + Len(t)
    /\ \A i \in 1 .. Len(s) : w[i] = s[i]
    /\ \A i \in 1 .. Len(t) : w[Len(s) + i] = t[i]

Part(s, m, n, p) == Len(p) = n - m /\ \A i \in 1 .. Len(p) : p[i] = s[m + i]

LEMMA Concatenated ==
    ASSUME NEW S, NEW s \in Seq(S), NEW t \in Seq(S)
    PROVE  \E w \in Seq(S) : w = Cat(s, t) /\ Joined(w, s, t)
  <1>1. PICK w : w = Cat(s, t)
    OBVIOUS
  <1>2. /\ w \in Seq(S) /\ Len(w) = Len(s) + Len(t)
        /\ \A i \in 1 .. Len(s) + Len(t) : w[i] = IF i <= Len(s) THEN s[i] ELSE t[i - Len(s)]
    BY <1>1, ConcatProperties DEF Cat
  <1>3. Len(s) \in Nat /\ Len(t) \in Nat
    BY LenProperties
  <1>4. ASSUME NEW i \in 1 .. Len(s) PROVE w[i] = s[i]
    BY <1>2, <1>3
  <1>5. ASSUME NEW i \in 1 .. Len(t) PROVE w[Len(s) + i] = t[i]
    <2>1. /\ Len(s) + i \in 1 .. Len(s) + Len(t) /\ ~(Len(s) + i <= Len(s))
          /\ Len(s) + i - Len(s) = i
      BY <1>3
    <2> QED BY <1>2, <2>1
  <1> QED BY <1>1, <1>2, <1>4, <1>5 DEF Joined

LEMMA CutOut ==
    ASSUME NEW S, NEW s \in Seq(S), NEW n \in 0 .. Len(s), NEW m \in 0 .. n
    PROVE  \E p \in Seq(S) : p = SubSeq(s, m + 1, n) /\ Part(s, m, n, p)
  <1>1. PICK p : p = SubSeq(s, m + 1, n)
    OBVIOUS
  <1>2. m + 1 \in Int /\ n \in Int /\ \A i \in m + 1 .. n : s[i] \in S
    BY LenProperties, ElementOfSeq
  <1>3. /\ p \in Seq(S)
        /\ Len(p) = IF m + 1 <= n THEN n - (m + 1) + 1 ELSE 0
        /\ \A i \in 1 .. n - (m + 1) + 1 : p[i] = s[(m + 1) + i - 1]
    BY <1>1, <1>2, SubSeqProperties
  <1>4. Len(p) = n - m
    BY <1>3
  <1>5. \A i \in 1 .. Len(p) : p[i] = s[m + i]
    BY <1>3, <1>4
  <1> QED BY <1>1, <1>3, <1>4, <1>5 DEF Part

LEMMA SameStart ==
    ASSUME NEW S, NEW s \in Seq(S), NEW t \in Seq(S), NEW k \in Nat,
           k =< Len(s), k =< Len(t), \A i \in 1 .. k : s[i] = t[i]
    PROVE  SubSeq(s, 1, k) = SubSeq(t, 1, k)
  <1>1. /\ \A i \in 1 .. k : s[i] \in S /\ t[i] \in S
    BY ElementOfSeq, LenProperties
  <1>2. PICK x, y : x = SubSeq(s, 1, k) /\ y = SubSeq(t, 1, k)
    OBVIOUS
  <1>3. /\ x \in Seq(S) /\ Len(x) = (IF 1 <= k THEN k - 1 + 1 ELSE 0)
        /\ \A i \in 1 .. k - 1 + 1 : x[i] = s[1 + i - 1]
    BY <1>1, <1>2, SubSeqProperties
  <1>4. /\ y \in Seq(S) /\ Len(y) = (IF 1 <= k THEN k - 1 + 1 ELSE 0)
        /\ \A i \in 1 .. k - 1 + 1 : y[i] = t[1 + i - 1]
    BY <1>1, <1>2, SubSeqProperties
  <1>5. Len(x) = Len(y) /\ \A i \in 1 .. Len(x) : x[i] = y[i]
    BY <1>3, <1>4
  <1>6. x = y
    BY <1>3, <1>4, <1>5, SeqEqual
  <1> QED BY <1>2, <1>6

----------------------------------------------------------------------------
(* The fences of a text. *)
BreaksIn(text) == {i \in DOMAIN text : text[i] = OtherBreak}
LastEnd(text) == Max(LineEnds(text) \cup {0})
Stop(text) == Min(BreaksIn(text) \cup {Len(text)})
Odd(n) == n % 2 = 1

(* AdvanceFences by its parts, and what they are numbers of.                  *)
LEMMA ScanIs ==
    ASSUME NEW inside, NEW text
    PROVE  AdvanceFences(inside, text) =
              [inside |-> inside # Odd(Cardinality(FenceLines(text))),
               line |-> SubSeq(text, LastEnd(text) + 1, Stop(text))]
  BY DEF AdvanceFences, LastEnd, Stop, Odd, BreaksIn

LEMMA ScanFacts ==
    ASSUME NEW S, NEW w \in Seq(S)
    PROVE  /\ Len(w) \in Nat /\ DOMAIN w = 1 .. Len(w)
           /\ LineEnds(w) \subseteq 1 .. Len(w) /\ FenceLines(w) \subseteq LineEnds(w)
           /\ BreaksIn(w) \subseteq 1 .. Len(w)
           /\ LastEnd(w) \in LineEnds(w) \cup {0} /\ LastEnd(w) \in 0 .. Len(w)
           /\ \A e \in LineEnds(w) : e =< LastEnd(w)
           /\ Stop(w) \in BreaksIn(w) \cup {Len(w)} /\ Stop(w) \in 0 .. Len(w)
           /\ \A i \in BreaksIn(w) : Stop(w) =< i
           /\ BreaksIn(w) # {} => Stop(w) \in BreaksIn(w)
  <1>1. Len(w) \in Nat /\ DOMAIN w = 1 .. Len(w)
    BY LenProperties
  <1>2. /\ LineEnds(w) \subseteq 1 .. Len(w) /\ FenceLines(w) \subseteq LineEnds(w)
        /\ BreaksIn(w) \subseteq 1 .. Len(w)
    BY <1>1 DEF LineEnds, FenceLines, BreaksIn
  <1>3. LastEnd(w) \in LineEnds(w) \cup {0} /\ \A e \in LineEnds(w) \cup {0} : e =< LastEnd(w)
    <2> DEFINE E == LineEnds(w) \cup {0}
    <2>1. E \in SUBSET Nat /\ E # {} /\ \A k \in E : k =< Len(w)
      BY <1>1, <1>2
    <2> HIDE DEF E
    <2>2. Max(E) \in E /\ \A k \in E : k =< Max(E)
      BY <1>1, <2>1, MaxIsThere
    <2> QED BY <2>2 DEF E, LastEnd
  <1>4. /\ Stop(w) \in BreaksIn(w) \cup {Len(w)}
        /\ \A i \in BreaksIn(w) \cup {Len(w)} : Stop(w) =< i
    <2> DEFINE B == BreaksIn(w) \cup {Len(w)}
    <2>1. B \in SUBSET Nat /\ B # {}
      BY <1>1, <1>2
    <2> HIDE DEF B
    <2>2. Min(B) \in B /\ \A k \in B : Min(B) =< k
      BY <2>1, MinIsThere
    <2> QED BY <2>2 DEF B, Stop
  <1>5. BreaksIn(w) # {} => Stop(w) \in BreaksIn(w)
    BY <1>1, <1>2, <1>4
  <1> QED BY <1>1, <1>2, <1>3, <1>4, <1>5

(* Whether a place ends a line is a matter of what is before it. *)
LEMMA PrefixScan ==
    ASSUME NEW S, NEW w \in Seq(S), NEW s \in Seq(S), Len(s) =< Len(w),
           \A i \in 1 .. Len(s) : w[i] = s[i]
    PROVE  /\ LineEnds(s) = {e \in LineEnds(w) : e =< Len(s)}
           /\ FenceLines(s) = {e \in FenceLines(w) : e =< Len(s)}
  <1>1. /\ Len(w) \in Nat /\ DOMAIN w = 1 .. Len(w) /\ Len(s) \in Nat /\ DOMAIN s = 1 .. Len(s)
    BY ScanFacts
  <1>2. LineEnds(s) = {e \in LineEnds(w) : e =< Len(s)}
    BY <1>1 DEF LineEnds
  <1>3. ASSUME NEW e \in 1 .. Len(s) PROVE e \in FenceLines(s) <=> e \in FenceLines(w)
    <2>1. e \in LineEnds(s) <=> e \in LineEnds(w)
      BY <1>1, <1>2
    <2>2. ASSUME NEW i \in 1 .. e - 1
          PROVE  BeginsWithFence(s, i, e) <=> BeginsWithFence(w, i, e)
      BY <1>1 DEF BeginsWithFence
    <2> QED BY <2>1, <2>2 DEF FenceLines
  <1>4. FenceLines(s) \subseteq 1 .. Len(s) /\ FenceLines(w) \subseteq 1 .. Len(w)
    BY ScanFacts
  <1> QED BY <1>1, <1>2, <1>3, <1>4

(* The scan may start again behind a line it has followed. *)
LEMMA ShiftedScan ==
    ASSUME NEW S, NEW w \in Seq(S), NEW m \in Nat, m \in LineEnds(w) \cup {0},
           NEW v \in Seq(S),
           Len(v) = Len(w) - m, \A i \in 1 .. Len(v) : v[i] = w[m + i]
    PROVE  /\ \A f \in 1 .. Len(v) : m + f \in LineEnds(w) <=> f \in LineEnds(v)
           /\ \A f \in 1 .. Len(v) : m + f \in FenceLines(w) <=> f \in FenceLines(v)
           /\ LastEnd(w) = m + LastEnd(v)
           /\ Stop(w) = m + Stop(v)
  <1>1. /\ Len(w) \in Nat /\ DOMAIN w = 1 .. Len(w) /\ Len(v) \in Nat /\ DOMAIN v = 1 .. Len(v)
        /\ LineEnds(w) \subseteq 1 .. Len(w) /\ LineEnds(v) \subseteq 1 .. Len(v)
        /\ m \in 0 .. Len(w) /\ Len(w) = m + Len(v)
    BY ScanFacts
  <1>2. m # 0 => w[m] = Newline /\ m \in 1 .. Len(w)
    BY <1>1 DEF LineEnds
  <1>3. \A i \in 1 .. m : w[i] # OtherBreak
    BY <1>1 DEF LineEnds
  <1>4. ASSUME NEW f \in 1 .. Len(v) PROVE m + f \in LineEnds(w) <=> f \in LineEnds(v)
    <2>1. m + f \in 1 .. Len(w) /\ v[f] = w[m + f]
      BY <1>1
    <2>2. ASSUME \A i \in 1 .. m + f : w[i] # OtherBreak
          PROVE  \A i \in 1 .. f : v[i] # OtherBreak
      BY <1>1, <2>2
    <2>3. ASSUME \A i \in 1 .. f : v[i] # OtherBreak, NEW i \in 1 .. m + f
          PROVE  w[i] # OtherBreak
      <3>1. CASE i =< m
        BY <1>1, <1>3, <3>1
      <3>2. CASE i > m
        <4>1. i - m \in 1 .. f /\ v[i - m] = w[m + (i - m)] /\ m + (i - m) = i
          BY <1>1, <3>2
        <4> QED BY <2>3, <4>1
      <3> QED BY <1>1, <3>1, <3>2
    <2> QED BY <1>1, <2>1, <2>2, <2>3 DEF LineEnds
  <1>5. ASSUME NEW f \in 1 .. Len(v) PROVE m + f \in FenceLines(w) <=> f \in FenceLines(v)
    <2>1. m + f \in LineEnds(w) <=> f \in LineEnds(v)
      BY <1>4
    <2>2. ASSUME NEW i \in 1 .. f - 1, BeginsWithFence(v, i, f)
          PROVE  m + i \in 1 .. m + f - 1 /\ BeginsWithFence(w, m + i, m + f)
      <3>1. w[m + i] = Fence /\ m + i \in 1 .. m + f - 1
        BY <1>1, <2>2 DEF BeginsWithFence
      <3>2. ASSUME NEW n \in m + i .. m + f - 1 PROVE w[n] # Newline
        <4>1. n - m \in i .. f - 1 /\ n - m \in 1 .. Len(v) /\ m + (n - m) = n
          BY <1>1
        <4>2. v[n - m] # Newline
          BY <2>2, <4>1 DEF BeginsWithFence
        <4> QED BY <4>1, <4>2
      <3>3. ASSUME NEW j \in 1 .. m + i - 1
            PROVE  w[j] = "space" \/ \E n \in j .. m + i - 1 : w[n] = Newline
        <4>1. CASE j =< m
          <5>1. m \in j .. m + i - 1 /\ w[m] = Newline
            BY <1>1, <1>2, <4>1
          <5> QED BY <5>1
        <4>2. CASE j > m
          <5>1. j - m \in 1 .. i - 1 /\ j - m \in 1 .. Len(v) /\ m + (j - m) = j
            BY <1>1, <4>2
          <5>2. v[j - m] = w[j]
            BY <5>1
          <5>3. CASE v[j - m] = "space"
            BY <5>2, <5>3
          <5>4. CASE v[j - m] # "space"
            <6>1. PICK n \in j - m .. i - 1 : v[n] = Newline
              BY <2>2, <5>1, <5>4 DEF BeginsWithFence
            <6>2. m + n \in j .. m + i - 1 /\ n \in 1 .. Len(v) /\ w[m + n] = Newline
              BY <1>1, <5>1, <6>1
            <6> QED BY <6>2
          <5> QED BY <5>3, <5>4
        <4> QED BY <1>1, <4>1, <4>2
      <3> QED BY <1>1, <3>1, <3>2, <3>3 DEF BeginsWithFence
    <2>3. ASSUME NEW k \in 1 .. m + f - 1, BeginsWithFence(w, k, m + f)
          PROVE  k - m \in 1 .. f - 1 /\ BeginsWithFence(v, k - m, f)
      <3>1. k > m
        <4>1. CASE m = 0
          BY <4>1
        <4>2. CASE m # 0 /\ k =< m
          <5>1. m \in k .. m + f - 1
            BY <1>1, <4>2
          <5> QED BY <1>2, <2>3, <4>2, <5>1 DEF BeginsWithFence
        <4> QED BY <1>1, <4>1, <4>2
      <3> DEFINE i == k - m
      <3>2. i \in 1 .. f - 1 /\ i \in 1 .. Len(v) /\ m + i = k
        BY <1>1, <3>1
      <3> HIDE DEF i
      <3>3. v[i] = Fence
        BY <2>3, <3>2 DEF BeginsWithFence
      <3>4. ASSUME NEW n \in i .. f - 1 PROVE v[n] # Newline
        <4>1. m + n \in k .. m + f - 1 /\ n \in 1 .. Len(v)
          BY <1>1, <3>2
        <4>2. w[m + n] # Newline
          BY <1>1, <2>3, <4>1 DEF BeginsWithFence
        <4> QED BY <4>1, <4>2
      <3>5. ASSUME NEW j \in 1 .. i - 1
            PROVE  v[j] = "space" \/ \E n \in j .. i - 1 : v[n] = Newline
        <4>1. m + j \in 1 .. k - 1 /\ j \in 1 .. Len(v)
          BY <1>1, <3>2
        <4>2. v[j] = w[m + j]
          BY <4>1
        <4>3. CASE w[m + j] = "space"
          BY <4>2, <4>3
        <4>4. CASE w[m + j] # "space"
          <5>1. PICK n \in m + j .. k - 1 : w[n] = Newline
            BY <2>3, <4>1, <4>4 DEF BeginsWithFence
          <5>2. n - m \in j .. i - 1 /\ n - m \in 1 .. Len(v) /\ m + (n - m) = n
            BY <1>1, <3>2, <4>1, <5>1
          <5> QED BY <5>1, <5>2
        <4> QED BY <4>3, <4>4
      <3>6. BeginsWithFence(v, i, f)
        BY <3>3, <3>4, <3>5 DEF BeginsWithFence
      <3> QED BY <3>2, <3>6 DEF i
    <2>4. /\ f \in FenceLines(v)
                <=> f \in LineEnds(v) /\ \E i \in 1 .. f - 1 : BeginsWithFence(v, i, f)
          /\ m + f \in FenceLines(w) <=>
                m + f \in LineEnds(w) /\ \E k \in 1 .. m + f - 1 : BeginsWithFence(w, k, m + f)
      BY DEF FenceLines
    <2>5. (\E i \in 1 .. f - 1 : BeginsWithFence(v, i, f))
             => \E k \in 1 .. m + f - 1 : BeginsWithFence(w, k, m + f)
      BY <2>2
    <2>6. (\E k \in 1 .. m + f - 1 : BeginsWithFence(w, k, m + f))
             => \E i \in 1 .. f - 1 : BeginsWithFence(v, i, f)
      BY <2>3
    <2> QED BY <2>1, <2>4, <2>5, <2>6
  <1>6. LastEnd(w) = m + LastEnd(v)
    <2>1. /\ LastEnd(v) \in LineEnds(v) \cup {0} /\ \A e \in LineEnds(v) : e =< LastEnd(v)
          /\ LastEnd(v) \in 0 .. Len(v)
      BY ScanFacts
    <2>2. m + LastEnd(v) \in LineEnds(w) \cup {0}
      BY <1>1, <1>4, <2>1
    <2>3. ASSUME NEW e \in LineEnds(w) \cup {0} PROVE e =< m + LastEnd(v)
      <3>1. CASE e =< m
        BY <1>1, <2>1, <3>1
      <3>2. CASE e > m
        <4>1. e - m \in 1 .. Len(v) /\ m + (e - m) = e
          BY <1>1, <3>2
        <4>2. e - m \in LineEnds(v)
          BY <1>1, <1>4, <3>2, <4>1
        <4> QED BY <1>1, <2>1, <4>1, <4>2
      <3> QED BY <1>1, <3>1, <3>2
    <2> DEFINE E == LineEnds(w) \cup {0}
    <2>4. E \in SUBSET Nat /\ m + LastEnd(v) \in E /\ \A e \in E : e =< m + LastEnd(v)
      BY <1>1, <2>2, <2>3
    <2> HIDE DEF E
    <2>5. Max(E) = m + LastEnd(v)
      BY <2>4, MaxIs
    <2> QED BY <2>5 DEF E, LastEnd
  <1>7. Stop(w) = m + Stop(v)
    <2>1. /\ Stop(v) \in BreaksIn(v) \cup {Len(v)} /\ \A i \in BreaksIn(v) : Stop(v) =< i
          /\ Stop(v) \in 0 .. Len(v) /\ BreaksIn(v) \subseteq 1 .. Len(v)
          /\ BreaksIn(w) \subseteq 1 .. Len(w)
      BY ScanFacts
    <2>2. m + Stop(v) \in BreaksIn(w) \cup {Len(w)}
      BY <1>1, <2>1 DEF BreaksIn
    <2>3. ASSUME NEW i \in BreaksIn(w) PROVE m + Stop(v) =< i
      <3>1. i \in 1 .. Len(w) /\ w[i] = OtherBreak
        BY <1>1 DEF BreaksIn
      <3>2. i > m
        BY <1>1, <1>3, <3>1
      <3>3. i - m \in 1 .. Len(v) /\ m + (i - m) = i
        BY <1>1, <3>1, <3>2
      <3>4. i - m \in BreaksIn(v)
        BY <1>1, <3>1, <3>3 DEF BreaksIn
      <3> QED BY <1>1, <2>1, <3>1, <3>4
    <2> DEFINE B == BreaksIn(w) \cup {Len(w)}
    <2>4. B \in SUBSET Nat /\ m + Stop(v) \in B /\ \A i \in B : m + Stop(v) =< i
      BY <1>1, <2>1, <2>2, <2>3
    <2> HIDE DEF B
    <2>5. Min(B) = m + Stop(v)
      BY <2>4, MinIs
    <2> QED BY <2>5 DEF B, Stop
  <1> QED BY <1>4, <1>5, <1>6, <1>7

(* Fences of two parts of a text add up, and so does whether they are odd.    *)
LEMMA Parity ==
    /\ \A x \in Nat : x % 2 \in 0 .. 1 /\ x = 2 * (x \div 2) + (x % 2) /\ x \div 2 \in Nat
    /\ \A x, y \in Nat : Odd(x + y) = (Odd(x) # Odd(y))
  <1>1. \A x \in Nat : x % 2 \in 0 .. 1
    OBVIOUS
  <1>2. \A x \in Nat : x = 2 * (x \div 2) + (x % 2)
    OBVIOUS
  <1>3. \A x \in Nat : x \div 2 \in Nat
    OBVIOUS
  <1>4. ASSUME NEW x \in Nat, NEW y \in Nat PROVE Odd(x + y) = (Odd(x) # Odd(y))
    <2>1. PICK a, b, c, r, p, q \in Nat :
             /\ x = 2 * a + r /\ r = x % 2 /\ r \in 0 .. 1
             /\ y = 2 * b + p /\ p = y % 2 /\ p \in 0 .. 1
             /\ x + y = 2 * c + q /\ q = (x + y) % 2 /\ q \in 0 .. 1
      <3>1. x + y \in Nat
        OBVIOUS
      <3>2. x % 2 \in Nat /\ y % 2 \in Nat /\ (x + y) % 2 \in Nat
        BY <1>1, <3>1
      <3> QED BY <1>1, <1>2, <1>3, <3>1, <3>2
    <2>2. (q = 1) = ((r = 1) # (p = 1))
      BY <2>1
    <2> QED BY <2>1, <2>2 DEF Odd
  <1> QED BY <1>1, <1>2, <1>3, <1>4

Shift(m, F) == {m + f : f \in F}

Within(F, n) == F \subseteq 1 .. n

Counted(m, A, F) ==
    /\ Cardinality(A \cup Shift(m, F)) = Cardinality(A) + Cardinality(F)
    /\ Cardinality(A) \in Nat /\ Cardinality(F) \in Nat

LEMMA CountsApart ==
    ASSUME NEW m \in Nat, NEW n \in Nat, NEW A, NEW F, Within(A, m), Within(F, n)
    PROVE  Counted(m, A, F)
  <1> DEFINE G == {m + f : f \in F}
             shift == [f \in F |-> m + f]
  <1>1. IsFiniteSet(1 .. m) /\ IsFiniteSet(1 .. n)
    BY FS_Interval
  <1>2. IsFiniteSet(A) /\ IsFiniteSet(F)
    BY <1>1, FS_Subset DEF Within
  <1>2a. A \subseteq 1 .. m /\ F \subseteq 1 .. n
    BY DEF Within
  <1>3. shift \in Bijection(F, G)
    <2>1. shift \in [F -> G] /\ \A y \in G : \E x \in F : shift[x] = y
      OBVIOUS
    <2>2. \A x, y \in F : shift[x] = shift[y] => x = y
      BY <1>2a
    <2> HIDE DEF shift, G
    <2> QED BY <2>1, <2>2 DEF Bijection, Injection, Surjection, IsInjective
  <1>4. IsFiniteSet(G) /\ Cardinality(G) = Cardinality(F)
    BY <1>2, <1>3, FS_Bijection DEF ExistsBijection
  <1>5. A \cap G = {}
    BY <1>2a
  <1> HIDE DEF G, shift
  <1>6. Cardinality(A) \in Nat /\ Cardinality(G) \in Nat
    BY <1>2, <1>4, FS_CardinalityType
  <1>7. Cardinality(A \cup G) = Cardinality(A) + Cardinality(G) - Cardinality(A \cap G)
    BY <1>2, <1>4, FS_Union
  <1>8. Cardinality(A \cap G) = 0
    BY <1>5, FS_EmptySet
  <1> QED BY <1>4, <1>6, <1>7, <1>8 DEF G, Shift, Counted

(* Following a text is following it up to a line's end, then the rest.        *)
StartsLine(w, m) == m \in LineEnds(w) \cup {0}

LEMMA Restarts ==
    ASSUME NEW S, NEW w \in Seq(S), NEW m \in Nat, StartsLine(w, m),
           NEW b \in BOOLEAN
    PROVE  /\ SubSeq(w, m + 1, Len(w)) \in Seq(S)
           /\ AdvanceFences(b, w)
                 = AdvanceFences(b # Odd(Cardinality({e \in FenceLines(w) : e =< m})),
                                 SubSeq(w, m + 1, Len(w)))
  <1>1. /\ Len(w) \in Nat /\ DOMAIN w = 1 .. Len(w) /\ m \in 0 .. Len(w)
        /\ LineEnds(w) \subseteq 1 .. Len(w) /\ FenceLines(w) \subseteq LineEnds(w)
    <2>1. m \in LineEnds(w) \cup {0}
      BY DEF StartsLine
    <2> QED BY <2>1, ScanFacts
  <1>2. PICK v \in Seq(S) : v = SubSeq(w, m + 1, Len(w)) /\ Part(w, m, Len(w), v)
    <2>1. Len(w) \in 0 .. Len(w) /\ m \in 0 .. Len(w)
      BY <1>1
    <2> QED BY <2>1, CutOut
  <1>2a. Len(v) = Len(w) - m /\ \A i \in 1 .. Len(v) : v[i] = w[m + i]
    BY <1>2 DEF Part
  <1>3. /\ \A f \in 1 .. Len(v) : m + f \in FenceLines(w) <=> f \in FenceLines(v)
        /\ LastEnd(w) = m + LastEnd(v) /\ Stop(w) = m + Stop(v)
    <2>1. m \in LineEnds(w) \cup {0}
      BY DEF StartsLine
    <2> QED BY <1>2a, <2>1, ShiftedScan
  <1>4. /\ Len(v) \in Nat /\ FenceLines(v) \subseteq 1 .. Len(v)
        /\ LastEnd(v) \in 0 .. Len(v) /\ Stop(v) \in 0 .. Len(v)
    BY ScanFacts
  <1> DEFINE A == {e \in FenceLines(w) : e =< m}
             F == FenceLines(v)
  <1>5. A \in SUBSET (1 .. m) /\ F \in SUBSET (1 .. Len(v)) /\ m \in Nat
    BY <1>1, <1>4
  <1>6. FenceLines(w) = A \cup Shift(m, F)
    <2>1. ASSUME NEW e \in FenceLines(w), ~(e =< m) PROVE \E f \in F : e = m + f
      <3>1. e - m \in 1 .. Len(v) /\ m + (e - m) = e
        BY <1>1, <1>2a, <2>1
      <3> QED BY <1>3, <3>1
    <2>2. \A f \in F : m + f \in FenceLines(w)
      BY <1>3, <1>4
    <2> QED BY <2>1, <2>2 DEF Shift
  <1>7. /\ Cardinality(FenceLines(w)) = Cardinality(A) + Cardinality(F)
        /\ Cardinality(A) \in Nat /\ Cardinality(F) \in Nat
    <2> HIDE DEF A, F
    <2>1. /\ Cardinality(A \cup Shift(m, F)) = Cardinality(A) + Cardinality(F)
          /\ Cardinality(A) \in Nat /\ Cardinality(F) \in Nat
      <3>1. Within(A, m) /\ Within(F, Len(v))
        BY <1>5 DEF Within
      <3>2. Counted(m, A, F)
        BY <1>4, <3>1, CountsApart
      <3> QED BY <3>2 DEF Counted
    <2> QED BY <1>6, <2>1
  <1>8. Odd(Cardinality(FenceLines(w))) = (Odd(Cardinality(A)) # Odd(Cardinality(F)))
    <2> HIDE DEF A, F
    <2>1. PICK x, y \in Nat : x = Cardinality(A) /\ y = Cardinality(F)
      BY <1>7
    <2>2. Odd(x + y) = (Odd(x) # Odd(y))
      BY Parity
    <2>3. Cardinality(FenceLines(w)) = x + y
      BY <1>7, <2>1
    <2> QED BY <2>1, <2>2, <2>3
  <1>9. SubSeq(w, LastEnd(w) + 1, Stop(w)) = SubSeq(v, LastEnd(v) + 1, Stop(v))
    <2>1. PICK x, y \in Nat : x = LastEnd(v) /\ y = Stop(v) /\ y =< Len(v)
      BY <1>4
    <2>2. SubSeq(w, m + x + 1, m + y) = SubSeq(v, x + 1, y)
      <3>1. CASE y < x + 1
        BY <3>1, SubSeqEmpty
      <3>2. CASE x + 1 =< y
        <4> DEFINE i == m + 1
                   j == Len(w)
        <4>1. /\ i \in 1 .. Len(w) /\ j \in 1 .. Len(w) /\ j - i + 1 = Len(w) - m
              /\ x + 1 \in 1 .. j - i + 1 /\ y \in 1 .. j - i + 1
              /\ i + (x + 1) - 1 = m + x + 1 /\ i + y - 1 = m + y
          BY <1>1, <1>2a, <2>1, <3>2
        <4> HIDE DEF i, j
        <4>2. SubSeq(SubSeq(w, i, j), x + 1, y) = SubSeq(w, i + (x + 1) - 1, i + y - 1)
          BY <4>1, SubSeqOfSubSeq
        <4>3. v = SubSeq(w, i, j)
          BY <1>2 DEF i, j
        <4> QED BY <4>1, <4>2, <4>3
      <3> QED BY <3>1, <3>2
    <2> QED BY <1>3, <2>1, <2>2
  <1>10. (b # Odd(Cardinality(FenceLines(w))))
            = ((b # Odd(Cardinality(A))) # Odd(Cardinality(F)))
    <2>1. \A x, y, z : x \in BOOLEAN /\ y \in BOOLEAN /\ z \in BOOLEAN
                       => (x # (y # z)) = ((x # y) # z)
      OBVIOUS
    <2>2. Odd(Cardinality(A)) \in BOOLEAN /\ Odd(Cardinality(F)) \in BOOLEAN
      BY DEF Odd
    <2> QED BY <1>8, <2>1, <2>2
  <1> QED BY <1>2, <1>9, <1>10, ScanIs

(* A break that ends no line stops the scan.                                  *)
StopsAt(w, k) ==
    /\ k \in 1 .. Len(w) /\ w[k] = OtherBreak
    /\ \A i \in 1 .. k - 1 : w[i] # OtherBreak /\ w[i] # Newline

LEMMA Stops ==
    ASSUME NEW S, NEW w \in Seq(S), NEW k \in Nat, StopsAt(w, k), NEW b \in BOOLEAN
    PROVE  AdvanceFences(b, w) = [inside |-> b, line |-> SubSeq(w, 1, k)]
  <1>1. /\ Len(w) \in Nat /\ DOMAIN w = 1 .. Len(w) /\ FenceLines(w) \subseteq LineEnds(w)
        /\ BreaksIn(w) \subseteq 1 .. Len(w)
    BY ScanFacts
  <1>1a. k \in 1 .. Len(w) /\ k \in BreaksIn(w) /\ \A i \in BreaksIn(w) : k =< i
    <2>1. k \in 1 .. Len(w) /\ k \in BreaksIn(w)
      BY <1>1 DEF BreaksIn, StopsAt
    <2>2. ASSUME NEW i \in BreaksIn(w) PROVE k =< i
      <3>1. i \in 1 .. Len(w) /\ w[i] = OtherBreak
        BY <1>1 DEF BreaksIn
      <3>2. i \notin 1 .. k - 1
        BY <3>1 DEF StopsAt
      <3> QED BY <3>1, <3>2
    <2> QED BY <2>1, <2>2
  <1>2. LineEnds(w) = {}
    <2>1. ASSUME NEW e \in LineEnds(w) PROVE FALSE
      <3>1. e \in 1 .. Len(w) /\ w[e] = Newline /\ \A i \in 1 .. e : w[i] # OtherBreak
        BY <1>1 DEF LineEnds
      <3>2. e < k
        BY <1>1, <3>1 DEF StopsAt
      <3> QED BY <3>1, <3>2 DEF StopsAt
    <2> QED BY <2>1
  <1>3. FenceLines(w) = {}
    BY <1>1, <1>2
  <1>4. LastEnd(w) = 0
    <2>1. LineEnds(w) \cup {0} = {0}
      BY <1>2
    <2>2. Max({0}) = 0
      BY MaxIs
    <2> QED BY <2>1, <2>2 DEF LastEnd
  <1>5. Stop(w) = k
    <2> DEFINE B == BreaksIn(w) \cup {Len(w)}
    <2>1. B \in SUBSET Nat
      <3>1. \A i \in 1 .. Len(w) : i \in Nat
        OBVIOUS
      <3>2. \A i \in BreaksIn(w) : i \in Nat
        BY <1>1, <3>1
      <3> QED BY <1>1, <3>2
    <2>1a. k \in B
      BY <1>1a
    <2>2. ASSUME NEW i \in B PROVE k =< i
      <3>1. CASE i \in BreaksIn(w)
        BY <1>1a, <3>1
      <3>2. CASE i = Len(w)
        <4>1. k \in 1 .. Len(w)
          BY <1>1a
        <4> QED BY <1>1, <3>2, <4>1
      <3> QED BY <3>1, <3>2
    <2> HIDE DEF B
    <2>3. Min(B) = k
      BY <2>1, <2>1a, <2>2, MinIs
    <2> QED BY <2>3 DEF B, Stop
  <1>6. Odd(Cardinality({})) = FALSE
    <2>1. Cardinality({}) = 0
      BY FS_EmptySet
    <2>2. 0 % 2 # 1
      OBVIOUS
    <2> QED BY <2>1, <2>2 DEF Odd
  <1>7. (b # Odd(Cardinality({}))) = b
    <2>1. (b # FALSE) = b
      OBVIOUS
    <2> QED BY <1>6, <2>1
  <1>8. /\ (b # Odd(Cardinality(FenceLines(w)))) = b
        /\ SubSeq(w, LastEnd(w) + 1, Stop(w)) = SubSeq(w, 1, k)
    <2>1. 0 + 1 = 1
      OBVIOUS
    <2> QED BY <1>3, <1>4, <1>5, <1>7, <2>1
  <1> QED BY <1>8, ScanIs

(* Up to a break that ends no line, and to the end without one, what was left  *)
(* of the scanned text stands for the text.                                    *)
Scanned(s, m, q) ==
    /\ m =< q /\ q =< Len(s) /\ m \in LineEnds(s) \cup {0} /\ \A e \in LineEnds(s) : e =< m
    /\ q \in BreaksIn(s) \cup {Len(s)} /\ \A i \in BreaksIn(s) : q =< i
    /\ BreaksIn(s) # {} => q \in BreaksIn(s)

Rest(r, m, s, t) ==
    /\ Len(r) = Len(s) + Len(t) - m
    /\ \A i \in 1 .. Len(r) : /\ m + i =< Len(s) => r[i] = s[m + i]
                              /\ m + i > Len(s) => r[i] = t[m + i - Len(s)]

LeftOver(S, s, t, m, q, p, v, r) ==
    /\ s \in Seq(S) /\ t \in Seq(S) /\ p \in Seq(S) /\ v \in Seq(S) /\ r \in Seq(S)
    /\ Scanned(s, m, q) /\ Part(s, m, q, p) /\ Joined(v, p, t) /\ Rest(r, m, s, t)

LEMMA PastTheCut ==
    /\ \A m, i, a, b \in Nat :
          m =< a /\ i =< (a - m) + b /\ i > a - m =>
             i - (a - m) \in 1 .. b /\ m + i > a /\ m + i - a = i - (a - m)
    /\ \A m, i, a, b \in Nat :
          i =< (a + b) - m /\ m + i > a =>
             /\ (m + i) - a \in 1 .. b /\ m + i = a + ((m + i) - a) /\ ~(m + i =< a)
  OBVIOUS

LEMMA RestFollows ==
    ASSUME NEW S, NEW s, NEW t, NEW p, NEW v, NEW r, NEW m \in Nat, NEW q \in Nat,
           NEW c \in BOOLEAN, LeftOver(S, s, t, m, q, p, v, r)
    PROVE  AdvanceFences(c, v) = AdvanceFences(c, r)
  <1>0. /\ s \in Seq(S) /\ t \in Seq(S) /\ p \in Seq(S) /\ v \in Seq(S) /\ r \in Seq(S)
        /\ Scanned(s, m, q) /\ Part(s, m, q, p) /\ Joined(v, p, t) /\ Rest(r, m, s, t)
    BY DEF LeftOver
  <1>1. /\ Len(s) \in Nat /\ DOMAIN s = 1 .. Len(s) /\ Len(t) \in Nat /\ Len(p) \in Nat
        /\ Len(v) \in Nat /\ Len(r) \in Nat
        /\ m =< q /\ q =< Len(s) /\ Len(r) = Len(s) + Len(t) - m
    BY <1>0, LenProperties DEF Scanned, Rest
  <1>2. Len(p) = q - m /\ \A i \in 1 .. Len(p) : p[i] = s[m + i]
    BY <1>0 DEF Part
  <1>3. /\ Len(v) = Len(p) + Len(t)
        /\ \A i \in 1 .. Len(p) : v[i] = p[i]
        /\ \A i \in 1 .. Len(t) : v[Len(p) + i] = t[i]
    BY <1>0 DEF Joined
  <1>4. CASE BreaksIn(s) = {}
    <2>1. q = Len(s)
      BY <1>0, <1>4 DEF Scanned
    <2>2. Len(v) = Len(r)
      BY <1>1, <1>2, <1>3, <2>1
    <2>3. ASSUME NEW i \in 1 .. Len(v) PROVE v[i] = r[i]
      <3>1. CASE i =< Len(p)
        <4>1. i \in 1 .. Len(p) /\ m + i =< Len(s) /\ i \in 1 .. Len(r)
          BY <1>1, <1>2, <2>1, <2>2, <3>1
        <4> QED BY <1>0, <1>2, <1>3, <4>1 DEF Rest
      <3>2. CASE i > Len(p)
        <4>0. Len(p) = Len(s) - m /\ m =< Len(s) /\ i =< (Len(s) - m) + Len(t)
              /\ i \in Nat /\ i > Len(s) - m
          <5>1. Len(p) = Len(s) - m /\ m =< Len(s) /\ Len(v) = Len(p) + Len(t)
            BY <1>1, <1>2, <1>3, <2>1
          <5>2. i \in Nat /\ i =< Len(v)
            BY <1>1
          <5> QED BY <3>2, <5>1, <5>2
        <4>1. PICK n : n = i - (Len(s) - m)
          OBVIOUS
        <4>2a. n \in 1 .. Len(t) /\ m + i > Len(s) /\ m + i - Len(s) = n
          BY <1>1, <4>0, <4>1, PastTheCut
        <4>2b. i = Len(p) + n /\ i \in 1 .. Len(r)
          BY <1>1, <2>2, <4>0, <4>1
        <4>2. /\ n \in 1 .. Len(t) /\ i = Len(p) + n /\ i \in 1 .. Len(r)
              /\ m + i > Len(s) /\ m + i - Len(s) = n
          BY <4>2a, <4>2b
        <4>3. v[i] = t[n]
          BY <1>3, <4>2
        <4>4. r[i] = t[n]
          BY <1>0, <4>2 DEF Rest
        <4> QED BY <4>3, <4>4
      <3> QED BY <1>1, <3>1, <3>2
    <2>4. v = r
      BY <2>2, <2>3, <1>0, SeqEqual
    <2> QED BY <2>4
  <1>5. CASE BreaksIn(s) # {}
    <2>1. q \in 1 .. Len(s) /\ s[q] = OtherBreak
      BY <1>0, <1>1, <1>5 DEF BreaksIn, Scanned
    <2>2. m # q
      <3>1. m # 0 => s[m] = Newline
        BY <1>0 DEF LineEnds, Scanned
      <3>2. Newline # OtherBreak
        BY DEF Newline, OtherBreak
      <3> QED BY <2>1, <3>1, <3>2
    <2>3. PICK k \in Nat : k = q - m
      <3>1. q - m \in Nat
        BY <1>1
      <3> QED BY <3>1
    <2>4. /\ k >= 1 /\ k = Len(p) /\ m + k = q
          /\ k \in 1 .. Len(v) /\ k \in 1 .. Len(r)
      BY <1>1, <1>2, <1>3, <2>1, <2>2, <2>3
    <2>5. ASSUME NEW i \in 1 .. k PROVE v[i] = s[m + i] /\ r[i] = s[m + i]
      <3>1. i \in 1 .. Len(p) /\ i \in 1 .. Len(r) /\ m + i =< Len(s)
        BY <1>1, <2>4
      <3> QED BY <1>0, <1>2, <1>3, <2>4, <3>1 DEF Rest
    <2>6. ASSUME NEW i \in 1 .. k - 1 PROVE s[m + i] # OtherBreak /\ s[m + i] # Newline
      <3>1. PICK j \in 1 .. Len(s) : j = m + i /\ j < q /\ j > m
        BY <1>1, <2>4
      <3>2. j \notin BreaksIn(s) /\ j \notin LineEnds(s)
        BY <1>0, <3>1 DEF Scanned
      <3>3. ASSUME NEW n \in 1 .. j, s[n] = OtherBreak PROVE FALSE
        <4>1. n \in BreaksIn(s)
          BY <1>1, <3>3 DEF BreaksIn
        <4>2. q =< n
          BY <1>0, <4>1 DEF Scanned
        <4> QED BY <1>1, <3>1, <4>2
      <3>4. \A n \in 1 .. j : s[n] # OtherBreak
        BY <3>3
      <3>5. s[j] # OtherBreak /\ s[j] # Newline
        BY <1>1, <3>2, <3>4 DEF LineEnds
      <3> QED BY <3>1, <3>5
    <2>7. v[k] = OtherBreak /\ r[k] = OtherBreak
      <3>1. k \in 1 .. k
        BY <2>4
      <3> QED BY <2>1, <2>4, <2>5, <3>1
    <2>8. ASSUME NEW i \in 1 .. k - 1
          PROVE  v[i] # OtherBreak /\ v[i] # Newline /\ r[i] # OtherBreak /\ r[i] # Newline
      <3>1. i \in 1 .. k
        OBVIOUS
      <3> QED BY <2>5, <2>6, <3>1
    <2>8a. StopsAt(v, k) /\ StopsAt(r, k)
      BY <2>4, <2>7, <2>8 DEF StopsAt
    <2>9. AdvanceFences(c, v) = [inside |-> c, line |-> SubSeq(v, 1, k)]
      BY <1>0, <2>8a, Stops
    <2>10. AdvanceFences(c, r) = [inside |-> c, line |-> SubSeq(r, 1, k)]
      BY <1>0, <2>8a, Stops
    <2>11. SubSeq(v, 1, k) = SubSeq(r, 1, k)
      <3>1. \A i \in 1 .. k : v[i] = r[i]
        BY <2>5
      <3>2. k =< Len(v) /\ k =< Len(r)
        BY <1>1, <2>4
      <3> QED BY <3>1, <3>2, <1>0, SameStart
    <2> QED BY <2>9, <2>10, <2>11
  <1> QED BY <1>4, <1>5

(* Following a text chunk by chunk is following the whole of it.              *)
GoesOn(S, a, b, s, t) ==
    /\ a.inside \in BOOLEAN /\ a.line \in Seq(S)
    /\ AdvanceFences(a.inside, Cat(a.line, t)) = AdvanceFences(b, Cat(s, t))

LEMMA FollowsOn ==
    ASSUME NEW S, NEW s \in Seq(S), NEW t \in Seq(S), NEW b \in BOOLEAN
    PROVE  GoesOn(S, AdvanceFences(b, s), b, s, t)
  <1>0. PICK a : a = AdvanceFences(b, s)
    OBVIOUS
  <1>1. PICK m, q \in Nat :
           /\ m = LastEnd(s) /\ q = Stop(s) /\ m =< Len(s) /\ q =< Len(s)
           /\ m \in LineEnds(s) \cup {0}
           /\ \A e \in LineEnds(s) : e =< m
           /\ q \in BreaksIn(s) \cup {Len(s)} /\ \A i \in BreaksIn(s) : q =< i
           /\ BreaksIn(s) # {} => q \in BreaksIn(s)
    <2>1. /\ Len(s) \in Nat /\ LastEnd(s) \in 0 .. Len(s) /\ Stop(s) \in 0 .. Len(s)
          /\ LastEnd(s) \in LineEnds(s) \cup {0}
          /\ \A e \in LineEnds(s) : e =< LastEnd(s)
          /\ Stop(s) \in BreaksIn(s) \cup {Len(s)} /\ \A i \in BreaksIn(s) : Stop(s) =< i
          /\ BreaksIn(s) # {} => Stop(s) \in BreaksIn(s)
      BY ScanFacts
    <2>2. LastEnd(s) \in Nat /\ Stop(s) \in Nat /\ LastEnd(s) =< Len(s) /\ Stop(s) =< Len(s)
      BY <2>1
    <2> QED BY <2>1, <2>2
  <1>2. Len(s) \in Nat /\ DOMAIN s = 1 .. Len(s) /\ Len(t) \in Nat
    BY ScanFacts
  <1>3. m =< q
    <2>1. CASE m = 0
      BY <2>1
    <2>2. CASE m # 0 /\ BreaksIn(s) # {}
      <3>1. m \in LineEnds(s) /\ q \in BreaksIn(s)
        BY <1>1, <2>2
      <3>2. \A i \in 1 .. m : s[i] # OtherBreak
        BY <3>1 DEF LineEnds
      <3>3. q \in 1 .. Len(s) /\ s[q] = OtherBreak
        BY <1>2, <3>1 DEF BreaksIn
      <3> QED BY <3>2, <3>3
    <2>3. CASE BreaksIn(s) = {}
      BY <1>1, <2>3
    <2> QED BY <2>1, <2>2, <2>3
  <1>4. PICK p \in Seq(S) : p = SubSeq(s, m + 1, q) /\ Part(s, m, q, p)
    <2>1. q \in 0 .. Len(s) /\ m \in 0 .. q
      BY <1>1, <1>2, <1>3
    <2> QED BY <2>1, CutOut
  <1>5. PICK c \in BOOLEAN : c = (b # Odd(Cardinality(FenceLines(s))))
    OBVIOUS
  <1>6. a = [inside |-> c, line |-> p]
    BY <1>0, <1>1, <1>4, <1>5, ScanIs
  <1>7. a.inside = c /\ a.line = p
    BY <1>6
  <1>8. \E w \in Seq(S) : w = Cat(s, t) /\ Joined(w, s, t)
    BY Concatenated
  <1>9. \E v \in Seq(S) : v = Cat(p, t) /\ Joined(v, p, t)
    BY Concatenated
  <1>10. PICK w \in Seq(S) : w = Cat(s, t) /\ Joined(w, s, t)
    BY <1>8
  <1>11. /\ Len(w) \in Nat /\ Len(w) = Len(s) + Len(t)
         /\ \A i \in 1 .. Len(s) : w[i] = s[i]
         /\ \A i \in 1 .. Len(t) : w[Len(s) + i] = t[i]
    <2>1. Joined(w, s, t)
      BY <1>10
    <2> QED BY <1>2, <2>1 DEF Joined
  <1>12. \E r \in Seq(S) : r = SubSeq(w, m + 1, Len(w)) /\ Part(w, m, Len(w), r)
    <2>1. Len(w) \in 0 .. Len(w) /\ m \in 0 .. Len(w)
      BY <1>1, <1>2, <1>11
    <2> QED BY <2>1, CutOut
  <1>13. /\ LineEnds(s) = {e \in LineEnds(w) : e =< Len(s)}
         /\ FenceLines(s) = {e \in FenceLines(w) : e =< Len(s)}
    <2>1. Len(s) =< Len(w)
      BY <1>2, <1>11
    <2> QED BY <1>11, <2>1, PrefixScan
  <1>14. PICK r \in Seq(S) : r = SubSeq(w, m + 1, Len(w)) /\ Part(w, m, Len(w), r)
    BY <1>12
  <1>15. AdvanceFences(b, w) = AdvanceFences(c, r)
    <2>1. m \in LineEnds(w) \cup {0}
      BY <1>1, <1>13
    <2>2. AdvanceFences(b, w)
             = AdvanceFences(b # Odd(Cardinality({e \in FenceLines(w) : e =< m})),
                             SubSeq(w, m + 1, Len(w)))
      BY <2>1, Restarts DEF StartsLine
    <2>3. {e \in FenceLines(w) : e =< m} = FenceLines(s)
      <3>1. FenceLines(s) \subseteq LineEnds(s)
        BY ScanFacts
      <3>2. FenceLines(w) \subseteq 1 .. Len(w)
        BY ScanFacts
      <3>3. ASSUME NEW e \in FenceLines(w), e =< m PROVE e \in FenceLines(s)
        BY <1>1, <1>2, <1>11, <1>13, <3>2, <3>3
      <3>4. ASSUME NEW e \in FenceLines(s) PROVE e \in FenceLines(w) /\ e =< m
        BY <1>1, <1>13, <3>1
      <3> QED BY <3>3, <3>4
    <2> QED BY <1>5, <1>14, <2>2, <2>3
  <1>16. PICK v \in Seq(S) : v = Cat(p, t) /\ Joined(v, p, t)
    BY <1>9
  <1>17. AdvanceFences(c, v) = AdvanceFences(c, r)
    <2>1. Len(r) = Len(w) - m /\ \A i \in 1 .. Len(r) : r[i] = w[m + i]
      BY <1>14 DEF Part
    <2>2. Len(r) = Len(s) + Len(t) - m
      BY <1>11, <2>1
    <2>3. ASSUME NEW i \in 1 .. Len(r)
          PROVE  /\ m + i =< Len(s) => r[i] = s[m + i]
                 /\ m + i > Len(s) => r[i] = t[m + i - Len(s)]
      <3>1. CASE m + i =< Len(s)
        <4>1. m + i \in 1 .. Len(s) /\ ~(m + i > Len(s))
          BY <1>2, <3>1
        <4> QED BY <1>11, <2>1, <4>1
      <3>2. CASE m + i > Len(s)
        <4>1. PICK n : n = m + i - Len(s)
          OBVIOUS
        <4>2. n \in 1 .. Len(t) /\ m + i = Len(s) + n /\ ~(m + i =< Len(s))
          <5>1. Len(s) \in Nat /\ Len(t) \in Nat
            BY <1>2
          <5>2. i \in Nat /\ i =< (Len(s) + Len(t)) - m
            BY <1>2, <2>2, <5>1
          <5> QED BY <3>2, <4>1, <5>1, <5>2, PastTheCut
        <4> QED BY <1>11, <2>1, <4>1, <4>2
      <3> QED BY <1>2, <3>1, <3>2
    <2>4. Part(s, m, q, p) /\ Joined(v, p, t)
      BY <1>4, <1>16
    <2>5. Scanned(s, m, q)
      BY <1>1, <1>3 DEF Scanned
    <2>6. Rest(r, m, s, t)
      BY <2>2, <2>3 DEF Rest
    <2>7. LeftOver(S, s, t, m, q, p, v, r)
      BY <2>4, <2>5, <2>6 DEF LeftOver
    <2> QED BY <2>7, RestFollows
  <1>18. GoesOn(S, a, b, s, t)
    BY <1>4, <1>7, <1>10, <1>15, <1>16, <1>17 DEF GoesOn
  <1> QED BY <1>0, <1>18

----------------------------------------------------------------------------
(* The parser.  What is shown and what is kept is the text there was. *)
Splits(fed, value) ==
    /\ IsParser(fed.parser) /\ fed.out \in Seq(Pieces)
    /\ Cat(fed.out, fed.parser.candidate) = value

(* A text that is held back whole, and one of which a part is shown.          *)
LEMMA KeptWhole ==
    ASSUME NEW parser, IsParser(parser), NEW value \in Seq(Pieces), NEW inCall \in BOOLEAN
    PROVE  /\ Splits([parser |-> [parser EXCEPT !.candidate = value, !.inCall = inCall],
                      out |-> <<>>], value)
           /\ Splits([parser |-> [parser EXCEPT !.candidate = value], out |-> <<>>], value)
  <1>1. IsParser([parser EXCEPT !.candidate = value, !.inCall = inCall])
    BY DEF IsParser
  <1>2. IsParser([parser EXCEPT !.candidate = value])
    BY DEF IsParser
  <1>3. /\ [parser EXCEPT !.candidate = value, !.inCall = inCall].candidate = value
        /\ [parser EXCEPT !.candidate = value].candidate = value
    BY DEF IsParser
  <1>4. Cat(<<>>, value) = value
    BY CatEmpty
  <1>5. ASSUME NEW p, IsParser(p), p.candidate = value
        PROVE  Splits([parser |-> p, out |-> <<>>], value)
    BY <1>4, <1>5 DEF Splits
  <1> QED BY <1>1, <1>2, <1>3, <1>5

LEMMA ShowsKeeps ==
    ASSUME NEW parser, IsParser(parser), NEW value \in Seq(Pieces),
           NEW n \in 0 .. Len(value), NEW inCall \in BOOLEAN
    PROVE  Splits(Shows(parser, value, n, inCall), value)
  <1> DEFINE out == SubSeq(value, 1, n)
             rest == SubSeq(value, n + 1, Len(value))
             fences == AdvanceFences(parser.inside, parser.line \o out)
             kept == [candidate |-> rest, inCall |-> inCall,
                      inside |-> fences.inside, line |-> fences.line]
  <1>1. Shows(parser, value, n, inCall) =
           IF IsBlank(out)
           THEN [parser |-> [parser EXCEPT !.candidate = value, !.inCall = inCall],
                 out |-> <<>>]
           ELSE [parser |-> kept, out |-> out]
    BY DEF Shows
  <1>2. n \in 0 .. Len(value) /\ Len(value) \in n .. Len(value)
    OBVIOUS
  <1>3. out \in Seq(Pieces) /\ rest \in Seq(Pieces) /\ Cat(out, rest) = value
    BY <1>2, Adjacent, SubSeqFull
  <1> HIDE DEF out, rest, fences
  <1>4. IsParser(kept)
    BY <1>3 DEF IsParser
  <1>5. kept.candidate = rest
    OBVIOUS
  <1> HIDE DEF kept
  <1>6. Splits([parser |-> kept, out |-> out], value)
    BY <1>3, <1>4, <1>5 DEF Splits
  <1> QED BY <1>1, <1>6, KeptWhole

(* No chunk costs the text a piece, wherever it is cut (feed). *)
LEMMA FeedKeeps ==
    ASSUME NEW parser, IsParser(parser), NEW text \in Seq(Pieces)
    PROVE  Splits(Feed(parser, text), Cat(parser.candidate, text))
  <1> DEFINE value == Cat(parser.candidate, text)
             found == OpeningStarts(value, parser.inside, parser.line)
             possible == OpeningPrefixStarts(value, parser.inside, parser.line)
  <1>1. value \in Seq(Pieces)
    BY CatSeq DEF IsParser
  <1>2. Feed(parser, text) =
           CASE parser.inCall ->
                   [parser |-> [parser EXCEPT !.candidate = value], out |-> <<>>]
             [] ~parser.inCall /\ found # {} ->
                   Shows(parser, value, Min(found) - 1, TRUE)
             [] ~parser.inCall /\ found = {} /\ possible # {} ->
                   Shows(parser, value, Min(possible) - 1, FALSE)
             [] OTHER -> Shows(parser, value, Len(value), FALSE)
    BY DEF Feed, Cat
  <1>3. found \subseteq DOMAIN value /\ possible \subseteq DOMAIN value
    BY DEF OpeningStarts, OpeningPrefixStarts, OpenLineStarts
  <1> HIDE DEF value, found, possible
  <1>4. Len(value) \in Nat /\ DOMAIN value = 1 .. Len(value)
    BY <1>1
  <1>5. found # {} => Min(found) - 1 \in 0 .. Len(value)
    <2>1. found \in SUBSET Nat
      BY <1>3, <1>4
    <2> QED BY <1>3, <1>4, <2>1, MinIsThere
  <1>6. possible # {} => Min(possible) - 1 \in 0 .. Len(value)
    <2>1. possible \in SUBSET Nat
      BY <1>3, <1>4
    <2> QED BY <1>3, <1>4, <2>1, MinIsThere
  <1>7. Len(value) \in 0 .. Len(value) /\ parser.inCall \in BOOLEAN
    BY <1>4 DEF IsParser
  <1>8. Splits(Feed(parser, text), value)
    <2>1. found # {} => Splits(Shows(parser, value, Min(found) - 1, TRUE), value)
      BY <1>1, <1>5, ShowsKeeps
    <2>2. possible # {} => Splits(Shows(parser, value, Min(possible) - 1, FALSE), value)
      BY <1>1, <1>6, ShowsKeeps
    <2>3. Splits(Shows(parser, value, Len(value), FALSE), value)
      BY <1>1, <1>7, ShowsKeeps
    <2>4. Splits([parser |-> [parser EXCEPT !.candidate = value], out |-> <<>>], value)
      BY <1>1, KeptWhole
    <2> QED BY <1>2, <1>7, <2>1, <2>2, <2>3, <2>4
  <1> QED BY <1>8 DEF value

(* The end of a stream gives a text only if no call was begun.                *)
LEMMA FinishKeeps ==
    ASSUME NEW parser, Finish(parser).kind = "text"
    PROVE  Finish(parser).text = parser.candidate
  <1>1. \A buffer : StreamedCall(buffer).kind # "text"
    BY DEF StreamedCall, Refused
  <1> QED BY <1>1 DEF Finish

LEMMA NewParserIsOne == IsParser(NewParser) /\ NewParser.candidate = <<>>
  BY EmptySeq DEF IsParser, NewParser

----------------------------------------------------------------------------
(* Opening lines. *)

(* The text from i on, as far as it goes, is an opening line.                 *)
Agrees(w, i) ==
    /\ i =< Len(w) => w[i] = "tag"
    /\ i + 1 =< Len(w) => w[i + 1] = "end_tag"
    /\ i + 2 =< Len(w) => w[i + 2] = Newline

LEMMA OpeningIs ==
    /\ Opening \in Seq({"tag", "end_tag", Newline}) /\ Len(Opening) = 3
    /\ Opening[1] = "tag" /\ Opening[2] = "end_tag" /\ Opening[3] = Newline
  BY DEF Opening

(* A prefix, piece by piece.                                                  *)
LEMMA PrefixIs ==
    ASSUME NEW S, NEW s \in Seq(S), NEW t \in Seq(S)
    PROVE  IsPrefix(s, t) <=> Len(s) =< Len(t) /\ \A k \in 1 .. Len(s) : s[k] = t[k]
  <1>1. Len(s) \in Nat /\ Len(t) \in Nat
    OBVIOUS
  <1>2. ASSUME Len(s) =< Len(t), \A k \in 1 .. Len(s) : s[k] = t[k]
        PROVE  SubSeq(s, 1, Len(s)) = SubSeq(t, 1, Len(s))
    BY <1>1, <1>2, SameStart
  <1>3. ASSUME Len(s) =< Len(t), SubSeq(s, 1, Len(s)) = SubSeq(t, 1, Len(s)),
               NEW k \in 1 .. Len(s)
        PROVE  s[k] = t[k]
    <2>1. Len(s) \in 0 .. Len(s) /\ Len(s) \in 0 .. Len(t) /\ 0 \in 0 .. Len(s)
      BY <1>1, <1>3
    <2>2. PICK p \in Seq(S) : p = SubSeq(s, 0 + 1, Len(s)) /\ Part(s, 0, Len(s), p)
      BY <2>1, CutOut
    <2>3. PICK q \in Seq(S) : q = SubSeq(t, 0 + 1, Len(s)) /\ Part(t, 0, Len(s), q)
      BY <2>1, CutOut
    <2>4. p = q
      BY <1>3, <2>2, <2>3
    <2>5. Len(p) = Len(s) /\ p[k] = s[0 + k] /\ 0 + k = k
      BY <1>1, <2>2 DEF Part
    <2>6. q[k] = t[0 + k]
      BY <2>3, <2>4, <2>5 DEF Part
    <2> QED BY <2>4, <2>5, <2>6
  <1> QED BY <1>2, <1>3 DEF IsPrefix

(* The two looks at the rest of a text, piece by piece.                       *)
LEMMA Comparisons ==
    ASSUME NEW S, NEW w \in Seq(S), NEW i \in 1 .. Len(w)
    PROVE  /\ IsPrefix(Opening, SubSeq(w, i, Len(w))) <=> i + 2 =< Len(w) /\ Agrees(w, i)
           /\ IsPrefix(SubSeq(w, i, Len(w)), Opening) <=> Len(w) =< i + 2 /\ Agrees(w, i)
  <1>1. Len(w) \in Nat /\ i \in Nat /\ 1 =< i /\ i =< Len(w)
    BY LenProperties
  <1>2. PICK m \in Nat : i = m + 1 /\ m \in 0 .. Len(w) /\ Len(w) \in 0 .. Len(w)
    <2>1. i - 1 \in Nat /\ i = (i - 1) + 1 /\ i - 1 \in 0 .. Len(w) /\ Len(w) \in 0 .. Len(w)
      BY <1>1
    <2> QED BY <2>1
  <1>3. PICK r \in Seq(S) : r = SubSeq(w, m + 1, Len(w)) /\ Part(w, m, Len(w), r)
    BY <1>2, CutOut
  <1>4. Len(r) \in Nat /\ Len(r) = Len(w) - m /\ \A k \in 1 .. Len(r) : r[k] = w[m + k]
    BY <1>3, LenProperties DEF Part
  <1> DEFINE T == S \cup {"tag", "end_tag", Newline}
  <1>5. Opening \in Seq(T) /\ r \in Seq(T)
    <2>1. S \subseteq T /\ {"tag", "end_tag", Newline} \subseteq T
      OBVIOUS
    <2> HIDE DEF T
    <2> QED BY <2>1, OpeningIs, SeqMonotonic
  <1> HIDE DEF T
  <1>6. /\ IsPrefix(Opening, r) <=> 3 =< Len(r) /\ \A k \in 1 .. 3 : Opening[k] = r[k]
        /\ IsPrefix(r, Opening) <=> Len(r) =< 3 /\ \A k \in 1 .. Len(r) : r[k] = Opening[k]
    <2>1. PICK o \in Seq(T) : o = Opening
      BY <1>5
    <2>2. /\ IsPrefix(o, r) <=> Len(o) =< Len(r) /\ \A k \in 1 .. Len(o) : o[k] = r[k]
          /\ IsPrefix(r, o) <=> Len(r) =< Len(o) /\ \A k \in 1 .. Len(r) : r[k] = o[k]
      BY <1>5, PrefixIs
    <2>3. Len(o) = 3
      BY <2>1, OpeningIs
    <2> QED BY <2>1, <2>2, <2>3
  <1>7. /\ i =< Len(w) <=> 1 =< Len(r)
        /\ i + 1 =< Len(w) <=> 2 =< Len(r)
        /\ i + 2 =< Len(w) <=> 3 =< Len(r)
        /\ Len(w) =< i + 2 <=> Len(r) =< 3
    BY <1>1, <1>2, <1>4
  <1>8. /\ 1 =< Len(r) => r[1] = w[i]
        /\ 2 =< Len(r) => r[2] = w[i + 1]
        /\ 3 =< Len(r) => r[3] = w[i + 2]
    <2>1. m + 1 = i /\ m + 2 = i + 1 /\ m + 3 = i + 2
      BY <1>2
    <2> QED BY <1>4, <2>1
  <1>9. Agrees(w, i) <=> \A k \in 1 .. 3 : k =< Len(r) => r[k] = Opening[k]
    <2>1. \A k \in 1 .. 3 : k = 1 \/ k = 2 \/ k = 3
      OBVIOUS
    <2> QED BY <1>7, <1>8, <2>1, OpeningIs DEF Agrees
  <1>10. IsPrefix(Opening, r) <=> i + 2 =< Len(w) /\ Agrees(w, i)
    BY <1>4, <1>6, <1>7, <1>9
  <1>11. IsPrefix(r, Opening) <=> Len(w) =< i + 2 /\ Agrees(w, i)
    BY <1>4, <1>6, <1>7, <1>9
  <1> QED BY <1>2, <1>3, <1>10, <1>11

(* Where a call may still begin. *)
MayBegin(w, inside, ln) ==
    OpeningStarts(w, inside, ln) \cup OpeningPrefixStarts(w, inside, ln)

Starting(w, inside, ln) ==
    /\ Len(w) \in Nat /\ DOMAIN w = 1 .. Len(w)
    /\ OpenLineStarts(w, inside, ln) \subseteq 1 .. Len(w)
    /\ OpeningStarts(w, inside, ln)
          = {i \in OpenLineStarts(w, inside, ln) : i + 2 =< Len(w) /\ Agrees(w, i)}
    /\ OpeningPrefixStarts(w, inside, ln)
          = {i \in OpenLineStarts(w, inside, ln) : Len(w) =< i + 2 /\ Agrees(w, i)}
    /\ MayBegin(w, inside, ln) = {i \in OpenLineStarts(w, inside, ln) : Agrees(w, i)}

LEMMA Beginnings ==
    ASSUME NEW S, NEW w \in Seq(S), NEW inside, NEW ln PROVE Starting(w, inside, ln)
  <1>1. Len(w) \in Nat /\ DOMAIN w = 1 .. Len(w)
    BY LenProperties
  <1>2. OpenLineStarts(w, inside, ln) \subseteq 1 .. Len(w)
    BY <1>1 DEF OpenLineStarts
  <1>3. \A i \in 1 .. Len(w) :
           /\ IsPrefix(Opening, SubSeq(w, i, Len(w))) <=> i + 2 =< Len(w) /\ Agrees(w, i)
           /\ IsPrefix(SubSeq(w, i, Len(w)), Opening) <=> Len(w) =< i + 2 /\ Agrees(w, i)
    BY Comparisons
  <1>4. OpeningStarts(w, inside, ln)
           = {i \in OpenLineStarts(w, inside, ln) : i + 2 =< Len(w) /\ Agrees(w, i)}
    BY <1>2, <1>3 DEF OpeningStarts
  <1>5. OpeningPrefixStarts(w, inside, ln)
           = {i \in OpenLineStarts(w, inside, ln) : Len(w) =< i + 2 /\ Agrees(w, i)}
    BY <1>2, <1>3 DEF OpeningPrefixStarts
  <1>6. \A i \in 1 .. Len(w) : i + 2 =< Len(w) \/ Len(w) =< i + 2
    BY <1>1
  <1>7. MayBegin(w, inside, ln) = {i \in OpenLineStarts(w, inside, ln) : Agrees(w, i)}
    BY <1>2, <1>4, <1>5, <1>6 DEF MayBegin
  <1> QED BY <1>1, <1>2, <1>4, <1>5, <1>7 DEF Starting

(* A longer text gives no piece of the shorter one a new chance.              *)
LEMMA StillSettled ==
    ASSUME NEW S, NEW s \in Seq(S), NEW w \in Seq(S), NEW inside, NEW ln,
           Len(s) =< Len(w), \A i \in 1 .. Len(s) : w[i] = s[i],
           NEW i \in MayBegin(w, inside, ln), i =< Len(s)
    PROVE  i \in MayBegin(s, inside, ln)
  <1>1. /\ Len(w) \in Nat /\ DOMAIN w = 1 .. Len(w) /\ Len(s) \in Nat /\ DOMAIN s = 1 .. Len(s)
        /\ i \in OpenLineStarts(w, inside, ln) /\ Agrees(w, i) /\ i \in 1 .. Len(w)
    BY Beginnings DEF Starting
  <1>2. i \in 1 .. Len(s) /\ i \in Nat
    BY <1>1
  <1>3. Agrees(s, i)
    <2>1. \A k \in {i, i + 1, i + 2} : k =< Len(s) => k =< Len(w) /\ w[k] = s[k]
      <3>1. \A k \in {i, i + 1, i + 2} : k =< Len(s) => k \in 1 .. Len(s) /\ k =< Len(w)
        BY <1>1, <1>2
      <3> QED BY <3>1
    <2> QED BY <1>1, <2>1 DEF Agrees
  <1>4. IsLineStart(s, i)
    <2>1. i # 1 => i - 1 \in 1 .. Len(s)
      BY <1>1, <1>2
    <2>2. IsLineStart(w, i)
      BY <1>1 DEF OpenLineStarts
    <2> QED BY <2>1, <2>2 DEF IsLineStart
  <1>5. SubSeq(w, 1, i - 1) = SubSeq(s, 1, i - 1)
    <2>1. i - 1 \in Nat /\ i - 1 =< Len(s) /\ i - 1 =< Len(w)
      BY <1>1, <1>2
    <2>2. \A k \in 1 .. i - 1 : w[k] = s[k]
      BY <1>1, <1>2
    <2> QED BY <2>1, <2>2, SameStart
  <1>6. i \in OpenLineStarts(s, inside, ln)
    BY <1>1, <1>2, <1>4, <1>5 DEF OpenLineStarts
  <1> QED BY <1>3, <1>6, Beginnings DEF Starting

(* What begins behind the shown text begins for a parser that has followed   *)
(* the fences of the shown text.                                              *)
Followed(inside, ln, x) ==
    AdvanceFences(FALSE, x).inside = inside /\ AdvanceFences(FALSE, x).line = ln

(* A parser that followed the shown text goes on as if it began with it.     *)
LEMMA FollowsShown ==
    ASSUME NEW S, NEW x \in Seq(S), NEW t \in Seq(S), NEW inside, NEW ln,
           Followed(inside, ln, x)
    PROVE  AdvanceFences(inside, Cat(ln, t)) = AdvanceFences(FALSE, Cat(x, t))
  <1>1. GoesOn(S, AdvanceFences(FALSE, x), FALSE, x, t)
    BY FollowsOn
  <1> QED BY <1>1 DEF GoesOn, Followed

LEMMA SeenByTheParser ==
    ASSUME NEW S, NEW x \in Seq(S), NEW v \in Seq(S), NEW inside, NEW ln,
           Followed(inside, ln, x),
           NEW i \in MayBegin(Cat(x, v), FALSE, <<>>), i > Len(x)
    PROVE  i - Len(x) \in MayBegin(v, inside, ln)
  <1>1. PICK w \in Seq(S) : w = Cat(x, v) /\ Joined(w, x, v)
    BY Concatenated
  <1>2. /\ Len(x) \in Nat /\ Len(v) \in Nat /\ DOMAIN v = 1 .. Len(v) /\ Len(w) \in Nat
        /\ Len(w) = Len(x) + Len(v)
        /\ \A k \in 1 .. Len(v) : w[Len(x) + k] = v[k]
    BY <1>1, LenProperties DEF Joined
  <1>3. /\ i \in OpenLineStarts(w, FALSE, <<>>) /\ Agrees(w, i) /\ i \in 1 .. Len(w)
    <2>1. i \in MayBegin(w, FALSE, <<>>)
      BY <1>1
    <2>2. /\ MayBegin(w, FALSE, <<>>) = {k \in OpenLineStarts(w, FALSE, <<>>) : Agrees(w, k)}
          /\ OpenLineStarts(w, FALSE, <<>>) \subseteq 1 .. Len(w)
      BY Beginnings DEF Starting
    <2> QED BY <2>1, <2>2
  <1>4. PICK j \in Nat : j = i - Len(x) /\ i = Len(x) + j /\ j \in 1 .. Len(v)
    <2>1. i - Len(x) \in Nat /\ i = Len(x) + (i - Len(x)) /\ i - Len(x) \in 1 .. Len(v)
      BY <1>2, <1>3
    <2> QED BY <2>1
  <1>5. Agrees(v, j)
    <2>1. /\ j =< Len(v) => i =< Len(w) /\ w[i] = v[j]
          /\ j + 1 =< Len(v) => i + 1 =< Len(w) /\ w[i + 1] = v[j + 1]
          /\ j + 2 =< Len(v) => i + 2 =< Len(w) /\ w[i + 2] = v[j + 2]
      <3>1. ASSUME NEW k \in Nat, j + k =< Len(v)
            PROVE  i + k =< Len(w) /\ w[i + k] = v[j + k]
        <4>1. Len(x) \in Nat /\ Len(v) \in Nat /\ Len(w) = Len(x) + Len(v) /\ 1 =< j
          BY <1>2, <1>4
        <4>2. j + k \in 1 .. Len(v) /\ i + k = Len(x) + (j + k) /\ i + k =< Len(w)
          BY <1>4, <3>1, <4>1
        <4>3. w[Len(x) + (j + k)] = v[j + k]
          BY <1>2, <4>2
        <4> QED BY <4>2, <4>3
      <3>2. i + 0 = i /\ j + 0 = j /\ 0 \in Nat /\ 1 \in Nat /\ 2 \in Nat
        BY <1>2, <1>4
      <3>3. j =< Len(v) => i =< Len(w) /\ w[i] = v[j]
        BY <3>1, <3>2
      <3>4. j + 1 =< Len(v) => i + 1 =< Len(w) /\ w[i + 1] = v[j + 1]
        BY <3>1, <3>2
      <3>5. j + 2 =< Len(v) => i + 2 =< Len(w) /\ w[i + 2] = v[j + 2]
        BY <3>1, <3>2
      <3> QED BY <3>3, <3>4, <3>5
    <2> QED BY <1>3, <2>1 DEF Agrees
  <1>6. IsLineStart(v, j)
    <2>1. CASE j = 1
      BY <2>1 DEF IsLineStart
    <2>2. CASE j # 1
      <3>1. j - 1 \in 1 .. Len(v) /\ i - 1 = Len(x) + (j - 1) /\ i # 1
        BY <1>2, <1>4, <2>2
      <3>2. w[i - 1] = v[j - 1]
        BY <1>2, <3>1
      <3>3. IsLineStart(w, i)
        BY <1>3 DEF OpenLineStarts
      <3> QED BY <3>1, <3>2, <3>3 DEF IsLineStart
    <2> QED BY <2>1, <2>2
  <1>7. PICK t \in Seq(S) : t = SubSeq(v, 1, j - 1) /\ Part(v, 0, j - 1, t)
    <2>1. j - 1 \in 0 .. Len(v) /\ 0 \in 0 .. j - 1 /\ 0 + 1 = 1
      BY <1>2, <1>4
    <2> QED BY <2>1, CutOut
  <1>8. PICK y \in Seq(S) : y = Cat(x, t) /\ Joined(y, x, t)
    BY Concatenated
  <1>9. PICK u \in Seq(S) : u = SubSeq(w, 1, i - 1) /\ Part(w, 0, i - 1, u)
    <2>1. i - 1 \in 0 .. Len(w) /\ 0 \in 0 .. i - 1 /\ 0 + 1 = 1
      BY <1>2, <1>3
    <2> QED BY <2>1, CutOut
  <1>10. y = u
    <2>1. Len(t) = j - 1 /\ \A k \in 1 .. Len(t) : t[k] = v[k]
      BY <1>4, <1>7 DEF Part
    <2>2. /\ Len(y) = Len(x) + Len(t) /\ \A k \in 1 .. Len(x) : y[k] = x[k]
          /\ \A k \in 1 .. Len(t) : y[Len(x) + k] = t[k]
      BY <1>8 DEF Joined
    <2>3. Len(u) = i - 1 /\ \A k \in 1 .. Len(u) : u[k] = w[k]
      BY <1>3, <1>9 DEF Part
    <2>4. Len(y) = Len(u) /\ Len(u) \in Nat /\ Len(t) \in Nat
      BY <1>2, <1>4, <2>1, <2>2, <2>3
    <2>5. \A k \in 1 .. Len(x) : w[k] = x[k]
      BY <1>1 DEF Joined
    <2>6. ASSUME NEW k \in 1 .. Len(u) PROVE y[k] = u[k]
      <3>1. CASE k =< Len(x)
        BY <1>2, <2>2, <2>3, <2>5, <3>1
      <3>2. CASE k > Len(x)
        <4>1. PICK n \in Nat : n = k - Len(x) /\ k = Len(x) + n
          <5>1. k \in Nat /\ Len(x) \in Nat
            BY <1>2, <2>4
          <5>2. k - Len(x) \in Nat /\ k = Len(x) + (k - Len(x))
            BY <3>2, <5>1
          <5> QED BY <5>2
        <4>2. n \in 1 .. Len(t) /\ n \in 1 .. Len(v)
          BY <1>2, <1>4, <2>1, <2>2, <2>4, <3>2, <4>1
        <4>3. y[k] = v[n]
          BY <2>1, <2>2, <4>1, <4>2
        <4>4. u[k] = v[n]
          BY <1>2, <2>3, <4>1, <4>2
        <4> QED BY <4>3, <4>4
      <3> QED BY <1>2, <3>1, <3>2
    <2> QED BY <2>4, <2>6, SeqEqual
  <1>11. ~AdvanceFences(FALSE, u).inside
    <2>1. ~AdvanceFences(FALSE, Cat(<<>>, u)).inside
      BY <1>3, <1>9 DEF OpenLineStarts, Cat
    <2> QED BY <2>1, CatEmpty
  <1>12. AdvanceFences(inside, Cat(ln, t)) = AdvanceFences(FALSE, y)
    <2>1. AdvanceFences(inside, Cat(ln, t)) = AdvanceFences(FALSE, Cat(x, t))
      BY FollowsShown
    <2> QED BY <1>8, <2>1
  <1>13. j \in OpenLineStarts(v, inside, ln)
    BY <1>2, <1>4, <1>6, <1>7, <1>10, <1>11, <1>12 DEF OpenLineStarts, Cat
  <1> QED BY <1>4, <1>5, <1>13, Beginnings DEF Starting

(* No call may begin among the first n pieces.                                *)
Settled(w, inside, ln, n) == \A i \in MayBegin(w, inside, ln) : n < i

(* A parser that has shown x of a text said, and what it may not have shown.  *)
Holding(parser, x, said) ==
    /\ Followed(parser.inside, parser.line, x)
    /\ Settled(said, FALSE, <<>>, Len(x))
    /\ ~parser.inCall => OpeningStarts(said, FALSE, <<>>) = {}

(* What was shown stays settled when the text goes on.                        *)
LEMMA SettledLonger ==
    ASSUME NEW S, NEW x \in Seq(S), NEW held \in Seq(S), NEW t \in Seq(S),
           Settled(Cat(x, held), FALSE, <<>>, Len(x))
    PROVE  Settled(Cat(x, Cat(held, t)), FALSE, <<>>, Len(x))
  <1>1. PICK s \in Seq(S) : s = Cat(x, held) /\ Joined(s, x, held)
    BY Concatenated
  <1>2. PICK w \in Seq(S) : w = Cat(s, t) /\ Joined(w, s, t)
    BY Concatenated
  <1>3. w = Cat(x, Cat(held, t))
    BY <1>1, <1>2, CatAssociative
  <1>4. /\ Len(x) \in Nat /\ Len(s) \in Nat /\ Len(w) \in Nat
        /\ Len(x) =< Len(s) /\ Len(s) =< Len(w) /\ \A i \in 1 .. Len(s) : w[i] = s[i]
    <2>1. Len(x) \in Nat /\ Len(held) \in Nat /\ Len(t) \in Nat
      BY LenProperties
    <2> QED BY <1>1, <1>2, <2>1 DEF Joined
  <1>5. ASSUME NEW i \in MayBegin(w, FALSE, <<>>) PROVE Len(x) < i
    <2>0. Starting(w, FALSE, <<>>)
      BY Beginnings
    <2>1. i \in 1 .. Len(w)
      BY <2>0 DEF Starting
    <2>2. CASE i =< Len(s)
      <3>1. i \in MayBegin(s, FALSE, <<>>)
        BY <1>4, <2>2, StillSettled
      <3> QED BY <1>1, <3>1 DEF Settled
    <2>3. CASE ~(i =< Len(s))
      BY <1>4, <2>1, <2>3
    <2> QED BY <2>2, <2>3
  <1> QED BY <1>3, <1>5 DEF Settled

(* No opening line is in a text whose opening lines the parser would see.     *)
LEMMA NoneOpens ==
    ASSUME NEW S, NEW x \in Seq(S), NEW v \in Seq(S), NEW inside, NEW ln,
           Followed(inside, ln, x), Settled(Cat(x, v), FALSE, <<>>, Len(x)),
           OpeningStarts(v, inside, ln) = {}
    PROVE  OpeningStarts(Cat(x, v), FALSE, <<>>) = {}
  <1>1. PICK w \in Seq(S) : w = Cat(x, v) /\ Joined(w, x, v)
    BY Concatenated
  <1>2. /\ Len(x) \in Nat /\ Len(v) \in Nat /\ Len(w) = Len(x) + Len(v)
    BY <1>1, LenProperties DEF Joined
  <1>3. SUFFICES ASSUME NEW i \in OpeningStarts(w, FALSE, <<>>) PROVE FALSE
    BY <1>1
  <1>4. i \in MayBegin(w, FALSE, <<>>) /\ i + 2 =< Len(w) /\ i \in 1 .. Len(w)
    <2>0. Starting(w, FALSE, <<>>)
      BY Beginnings
    <2>1. i \in OpenLineStarts(w, FALSE, <<>>) /\ i + 2 =< Len(w) /\ i \in 1 .. Len(w)
      BY <2>0 DEF Starting
    <2> QED BY <2>1 DEF MayBegin
  <1>5. i > Len(x)
    BY <1>1, <1>2, <1>4 DEF Settled
  <1>6. i - Len(x) \in MayBegin(v, inside, ln)
    BY <1>1, <1>4, <1>5, SeenByTheParser
  <1>7. (i - Len(x)) + 2 =< Len(v)
    BY <1>2, <1>4
  <1>8. i - Len(x) \in OpeningStarts(v, inside, ln)
    BY <1>6, <1>7, Beginnings DEF Starting
  <1> QED BY <1>8

(* A release that stops before whatever may begin keeps the parser's promise. *)
LEMMA Releases ==
    ASSUME NEW parser, IsParser(parser), NEW x \in Seq(Pieces), NEW value \in Seq(Pieces),
           NEW n \in 0 .. Len(value), NEW inCall \in BOOLEAN,
           Followed(parser.inside, parser.line, x),
           Settled(Cat(x, value), FALSE, <<>>, Len(x)),
           Settled(value, parser.inside, parser.line, n),
           ~inCall => OpeningStarts(value, parser.inside, parser.line) = {},
           NEW done, done = Shows(parser, value, n, inCall)
    PROVE  Holding(done.parser, Cat(x, done.out), Cat(x, value))
  <1> DEFINE out == SubSeq(value, 1, n)
             rest == SubSeq(value, n + 1, Len(value))
             fences == AdvanceFences(parser.inside, parser.line \o out)
             kept == [candidate |-> rest, inCall |-> inCall,
                      inside |-> fences.inside, line |-> fences.line]
  <1>1. done = IF IsBlank(out)
               THEN [parser |-> [parser EXCEPT !.candidate = value, !.inCall = inCall],
                     out |-> <<>>]
               ELSE [parser |-> kept, out |-> out]
    BY DEF Shows
  <1>2. n \in 0 .. Len(value) /\ Len(value) \in n .. Len(value)
    OBVIOUS
  <1>3. out \in Seq(Pieces) /\ rest \in Seq(Pieces) /\ Cat(out, rest) = value
    BY <1>2, Adjacent, SubSeqFull
  <1>4. Len(out) = n /\ n \in Nat
    BY <1>2
  <1>5. ~inCall => OpeningStarts(Cat(x, value), FALSE, <<>>) = {}
    BY NoneOpens
  <1>6. CASE IsBlank(out)
    <2>1. /\ done.out = <<>> /\ done.parser.inside = parser.inside
          /\ done.parser.line = parser.line /\ done.parser.inCall = inCall
      <3>1. PICK q : q = [parser EXCEPT !.candidate = value, !.inCall = inCall]
        OBVIOUS
      <3>2. q.inside = parser.inside /\ q.line = parser.line /\ q.inCall = inCall
        BY <3>1 DEF IsParser
      <3>3. done = [parser |-> q, out |-> <<>>]
        BY <1>1, <1>6, <3>1
      <3> QED BY <3>2, <3>3
    <2>2. Cat(x, done.out) = x
      BY <2>1, CatEmpty
    <2> QED BY <1>5, <2>1, <2>2 DEF Holding
  <1>7. CASE ~IsBlank(out)
    <2>1. /\ done.out = out /\ done.parser.inside = fences.inside
          /\ done.parser.line = fences.line /\ done.parser.inCall = inCall
      BY <1>1, <1>7
    <2> HIDE DEF rest, kept, out
    <2>2. fences = AdvanceFences(FALSE, Cat(x, out))
      BY <1>3, FollowsShown DEF Cat
    <2> HIDE DEF fences
    <2>3. Followed(done.parser.inside, done.parser.line, Cat(x, out))
      BY <2>1, <2>2 DEF Followed
    <2>4. Len(Cat(x, out)) = Len(x) + n
      <3>1. PICK y \in Seq(Pieces) : y = Cat(x, out) /\ Joined(y, x, out)
        BY <1>3, Concatenated
      <3> QED BY <1>4, <3>1 DEF Joined
    <2>5. ASSUME NEW i \in MayBegin(Cat(x, value), FALSE, <<>>) PROVE Len(x) + n < i
      <3>1. Len(x) \in Nat /\ i \in Nat
        <4>1. PICK w \in Seq(Pieces) : w = Cat(x, value)
          BY Concatenated
        <4>1a. Starting(w, FALSE, <<>>)
          BY Beginnings
        <4>2. MayBegin(w, FALSE, <<>>) \subseteq 1 .. Len(w) /\ Len(w) \in Nat
          BY <4>1a DEF Starting
        <4>3. i \in 1 .. Len(w)
          BY <4>1, <4>2
        <4>4. Len(x) \in Nat
          BY LenProperties
        <4> QED BY <4>2, <4>3, <4>4
      <3>2. i > Len(x)
        BY <3>1 DEF Settled
      <3>3. i - Len(x) \in MayBegin(value, parser.inside, parser.line)
        BY <3>2, SeenByTheParser
      <3>4. n < i - Len(x)
        BY <3>3 DEF Settled
      <3> QED BY <1>4, <3>1, <3>4
    <2> QED BY <1>5, <2>1, <2>3, <2>4, <2>5 DEF Holding, Settled
  <1> QED BY <1>6, <1>7

(* A parser that has read nothing keeps it.                                   *)
LEMMA NewParserHolds == Holding(NewParser, <<>>, <<>>)
  <1> DEFINE S == {Newline}
  <1>1. PICK e \in Seq(S) : e = <<>> /\ Len(e) = 0
    BY EmptySeq
  <1>2. Starting(e, FALSE, <<>>)
    BY Beginnings
  <1>3. MayBegin(e, FALSE, <<>>) = {} /\ OpeningStarts(e, FALSE, <<>>) = {}
    <2>1. OpenLineStarts(e, FALSE, <<>>) = {}
      <3>1. OpenLineStarts(e, FALSE, <<>>) \subseteq 1 .. Len(e)
        BY <1>2 DEF Starting
      <3>2. Len(e) = 0
        BY <1>1
      <3>3. 1 .. 0 = {}
        OBVIOUS
      <3> QED BY <3>1, <3>2, <3>3
    <2> QED BY <1>2, <2>1 DEF Starting
  <1>4. AdvanceFences(FALSE, e) = [inside |-> FALSE, line |-> <<>>]
    <2>1. LineEnds(e) = {}
      BY <1>1, <1>2 DEF LineEnds, Starting
    <2>2. FenceLines(e) = {}
      BY <2>1 DEF FenceLines
    <2>3. Cardinality({}) = 0 /\ ~Odd(0)
      <3>1. 0 % 2 # 1
        OBVIOUS
      <3> QED BY <3>1, FS_EmptySet DEF Odd
    <2>4. LastEnd(e) = 0 /\ Stop(e) = 0
      <3>1. BreaksIn(e) = {}
        BY <1>1, <1>2 DEF BreaksIn, Starting
      <3>2. Max({0}) = 0 /\ Min({0}) = 0
        BY MaxIs, MinIs
      <3> QED BY <1>1, <2>1, <3>1, <3>2 DEF LastEnd, Stop
    <2>5. SubSeq(e, LastEnd(e) + 1, Stop(e)) = <<>>
      BY <2>4, SubSeqEmpty
    <2>6. (FALSE # Odd(Cardinality(FenceLines(e)))) = FALSE
      <3>1. \A z \in BOOLEAN : ~z => (FALSE # z) = FALSE
        OBVIOUS
      <3>2. Odd(Cardinality(FenceLines(e))) \in BOOLEAN
        BY DEF Odd
      <3>3. ~Odd(Cardinality(FenceLines(e)))
        BY <2>2, <2>3
      <3> QED BY <3>1, <3>2, <3>3
    <2>7. AdvanceFences(FALSE, e) =
             [inside |-> FALSE # Odd(Cardinality(FenceLines(e))),
              line |-> SubSeq(e, LastEnd(e) + 1, Stop(e))]
      BY ScanIs
    <2> QED BY <2>5, <2>6, <2>7
  <1>5. Followed(FALSE, <<>>, e)
    <2>1. PICK a : a = AdvanceFences(FALSE, e)
      OBVIOUS
    <2>2. a.inside = FALSE /\ a.line = <<>>
      <3>1. PICK b, n : b = FALSE /\ n = <<>>
        OBVIOUS
      <3>2. a = [inside |-> b, line |-> n]
        BY <1>4, <2>1, <3>1
      <3>3. a.inside = b /\ a.line = n
        BY <3>2
      <3> QED BY <3>1, <3>3
    <2> QED BY <2>1, <2>2 DEF Followed
  <1> QED BY <1>1, <1>3, <1>5 DEF Holding, NewParser, Settled

(* What may still become an opening line is held back, wherever the text is  *)
(* cut (feed).                                                                *)
LEMMA FeedHolds ==
    ASSUME NEW parser, IsParser(parser), NEW x \in Seq(Pieces), NEW text \in Seq(Pieces),
           Holding(parser, x, Cat(x, parser.candidate)),
           NEW fed, fed = Feed(parser, text)
    PROVE  Holding(fed.parser, Cat(x, fed.out), Cat(x, Cat(parser.candidate, text)))
  <1> DEFINE value == Cat(parser.candidate, text)
             found == OpeningStarts(value, parser.inside, parser.line)
             possible == OpeningPrefixStarts(value, parser.inside, parser.line)
  <1>1. value \in Seq(Pieces) /\ parser.candidate \in Seq(Pieces) /\ parser.inCall \in BOOLEAN
    BY CatSeq DEF IsParser
  <1>2. fed = CASE parser.inCall ->
                     [parser |-> [parser EXCEPT !.candidate = value], out |-> <<>>]
               [] ~parser.inCall /\ found # {} ->
                     Shows(parser, value, Min(found) - 1, TRUE)
               [] ~parser.inCall /\ found = {} /\ possible # {} ->
                     Shows(parser, value, Min(possible) - 1, FALSE)
               [] OTHER -> Shows(parser, value, Len(value), FALSE)
    BY DEF Feed, Cat
  <1>3. Followed(parser.inside, parser.line, x) /\ Settled(Cat(x, value), FALSE, <<>>, Len(x))
    BY <1>1, SettledLonger DEF Holding
  <1>4. Starting(value, parser.inside, parser.line)
    BY <1>1, Beginnings
  <1> HIDE DEF value
  <1>5. /\ Len(value) \in Nat
        /\ \A j \in found : j \in 1 .. Len(value) /\ j + 2 =< Len(value)
        /\ \A j \in possible : j \in 1 .. Len(value) /\ Len(value) =< j + 2
        /\ MayBegin(value, parser.inside, parser.line) = found \cup possible
    BY <1>4 DEF Starting, MayBegin
  <1> HIDE DEF found, possible
  <1>6. found \in SUBSET Nat /\ possible \in SUBSET Nat
    BY <1>5
  <1>7. CASE parser.inCall
    <2>1. PICK q : q = [parser EXCEPT !.candidate = value]
      OBVIOUS
    <2>2. q.inside = parser.inside /\ q.line = parser.line /\ q.inCall = parser.inCall
      BY <2>1 DEF IsParser
    <2>3. fed = [parser |-> q, out |-> <<>>]
      BY <1>2, <1>7, <2>1
    <2>4. fed.parser = q /\ Cat(x, fed.out) = x
      BY <2>3, CatEmpty
    <2> QED BY <1>3, <1>7, <2>2, <2>4 DEF Holding, value
  <1>8. CASE ~parser.inCall /\ found # {}
    <2>1. PICK m \in found : m = Min(found) /\ \A j \in found : m =< j
      BY <1>6, <1>8, MinIsThere
    <2>2. m \in 1 .. Len(value) /\ m + 2 =< Len(value) /\ m - 1 \in 0 .. Len(value)
      BY <1>5, <2>1
    <2>3. ASSUME NEW j \in MayBegin(value, parser.inside, parser.line) PROVE m - 1 < j
      <3>1. CASE j \in found
        BY <1>5, <2>1, <2>2, <3>1
      <3>2. CASE j \in possible
        BY <1>5, <2>2, <3>2
      <3> QED BY <1>5, <3>1, <3>2
    <2>4. Settled(value, parser.inside, parser.line, m - 1)
      BY <2>3 DEF Settled
    <2>5. fed = Shows(parser, value, m - 1, TRUE)
      BY <1>2, <1>8, <2>1
    <2>6. Holding(fed.parser, Cat(x, fed.out), Cat(x, value))
      BY <1>1, <1>3, <2>2, <2>4, <2>5, Releases DEF value
    <2> QED BY <2>6 DEF value
  <1>9. CASE ~parser.inCall /\ found = {} /\ possible # {}
    <2>1. PICK m \in possible : m = Min(possible) /\ \A j \in possible : m =< j
      BY <1>6, <1>9, MinIsThere
    <2>2. m \in 1 .. Len(value) /\ m - 1 \in 0 .. Len(value)
      BY <1>5, <2>1
    <2>3. ASSUME NEW j \in MayBegin(value, parser.inside, parser.line) PROVE m - 1 < j
      <3>1. j \in possible
        BY <1>5, <1>9
      <3>2. m =< j /\ m \in Nat /\ j \in Nat
        BY <1>6, <2>1, <3>1
      <3> QED BY <3>2
    <2>4. Settled(value, parser.inside, parser.line, m - 1)
      BY <2>3 DEF Settled
    <2>5. fed = Shows(parser, value, m - 1, FALSE)
      BY <1>2, <1>9, <2>1
    <2>6. Holding(fed.parser, Cat(x, fed.out), Cat(x, value))
      BY <1>1, <1>3, <1>9, <2>2, <2>4, <2>5, Releases DEF found, value
    <2> QED BY <2>6 DEF value
  <1>10. CASE ~parser.inCall /\ found = {} /\ possible = {}
    <2>1. Settled(value, parser.inside, parser.line, Len(value))
      BY <1>5, <1>10 DEF Settled
    <2>2. fed = Shows(parser, value, Len(value), FALSE) /\ Len(value) \in 0 .. Len(value)
      BY <1>2, <1>5, <1>10
    <2>3. Holding(fed.parser, Cat(x, fed.out), Cat(x, value))
      BY <1>1, <1>3, <1>10, <2>1, <2>2, Releases DEF found, value
    <2> QED BY <2>3 DEF value
  <1> QED BY <1>7, <1>8, <1>9, <1>10

----------------------------------------------------------------------------
LEMMA TextsArePieces ==
    /\ Responses \subseteq Seq(Pieces)
    /\ route \in ApiRoutes => Batches \subseteq Seq(CallIds)
  <1>1. Responses \subseteq Seq(Pieces)
    <2>1. UNION {Range(text) : text \in Responses} \subseteq Pieces
      BY DEF Pieces
    <2> QED BY <2>1, AnswersAreSequences, SeqMonotonic
  <1>2. ASSUME route \in ApiRoutes PROVE Batches \subseteq Seq(CallIds)
    BY <1>2, AnswersAreSequences DEF CallIds
  <1> QED BY <1>1, <1>2

LEMMA RoutesApart ==
    /\ Streams = {"claude", "claude_run"}
    /\ CliRoutes = {"codex", "grok", "claude"} /\ ApiRoutes = {"openai", "anthropic"}
  BY DEF Streams, CliRoutes, ApiRoutes

LEMMA SameIds ==
    ASSUME UNCHANGED route PROVE CallIds' = CallIds /\ Entries' = Entries
  BY DEF CallIds, Entries

LEMMA InitKeeps == TurnInit => TurnInv
  <1> SUFFICES ASSUME TurnInit PROVE TurnInv
    OBVIOUS
  <1>1. /\ <<>> \in Seq(Pieces) /\ <<>> \in Seq(CallIds) /\ <<>> \in Seq(CallIds \X BOOLEAN)
        /\ <<>> \in Seq(Entries) /\ Len(<<>>) = 0
    BY EmptySeq
  <1>2. IsTransport(line)
    BY NewParserIsOne DEF TurnInit, IsTransport, FreshLine
  <1>3. IsMemory(seen)
    BY <1>1 DEF TurnInit, IsMemory, NothingSeen
  <1>4. TurnTypes
    BY <1>1, <1>2, <1>3 DEF TurnInit, TurnTypes
  <1>5. line.session = NoSession /\ ~line.announced /\ ~line.result
        /\ line.parser.candidate = <<>> /\ line.assistant = <<>>
    BY NewParserIsOne DEF TurnInit, FreshLine
  <1>6. seen.named = {} /\ seen.heard = {} /\ seen.log = <<>>
    BY DEF TurnInit, NothingSeen
  <1>7. CliInv
    BY <1>5, <1>6 DEF TurnInit, CliInv, Named, AtTools
  <1>8. StreamInv
    BY <1>5, <1>6 DEF TurnInit, StreamInv
  <1>9. LogInv /\ LoopInv /\ FreshInv
    BY <1>1, <1>5, <1>6 DEF TurnInit, LogInv, LoopInv, FreshInv
  <1>10. Said = <<>>
    BY SubSeqEmpty DEF Said, TurnInit
  <1>11. <<>> \o <<>> = <<>>
    BY <1>1, ConcatEmptySeq
  <1>12. NoWordLost
    BY <1>5, <1>10, <1>11 DEF TurnInit, NoWordLost
  <1> QED BY <1>4, <1>7, <1>8, <1>9, <1>12 DEF TurnInv

(* An end that is no answer keeps all there was. *)
LEMMA EndsKeeps ==
    ASSUME TurnInv, Live, NEW how \in {"failed", "refused", "left"}, End(how),
           UNCHANGED <<route, round, message, calls, results, line, response, at, shown>>,
           IsMemory(seen'), seen'.log = seen.log, seen.heard \subseteq seen'.heard
    PROVE  TurnInv'
  <1>1. phase' = "ended" /\ ending' = how /\ ending = "none"
    BY DEF End, TurnInv, TurnTypes, Live
  <1>2. TurnTypes'
    BY <1>1, SameIds DEF TurnInv, TurnTypes, IsMemory, IsTransport, IsParser
  <1>3. CliInv'
    BY <1>1 DEF CliInv, AtTools
  <1>4. StreamInv'
    BY <1>1 DEF TurnInv, StreamInv, Judged
  <1>5. LogInv'
    BY <1>1 DEF TurnInv, LogInv, Answered, NextCall
  <1>6. LoopInv' /\ FreshInv'
    BY <1>1 DEF LoopInv, FreshInv
  <1>7. NoWordLost'
    BY <1>1 DEF TurnInv, NoWordLost, Said
  <1> QED BY <1>2, <1>3, <1>4, <1>5, <1>6, <1>7 DEF TurnInv

LEMMA StartTurnKeeps == ASSUME TurnInv, StartTurn PROVE TurnInv'
  <1>1. UNCHANGED <<route, round, message, calls, results, line, response, at, shown, seen>>
        /\ phase = "start"
    BY DEF StartTurn
  <1>2. CASE End("failed")
    BY <1>1, <1>2, EndsKeeps DEF Live, TurnInv, TurnTypes
  <1>3. CASE phase' = (IF route \in Streams THEN "listen" ELSE "ask") /\ UNCHANGED ending
    <2>1. ending = "none" /\ ending' = "none"
      BY <1>1, <1>3 DEF TurnInv, TurnTypes
    <2>2. TurnTypes'
      BY <1>1, <1>3, <2>1, SameIds DEF TurnInv, TurnTypes, IsMemory, IsTransport, IsParser
    <2>3. CliInv'
      BY <1>1, <1>3, <2>1 DEF TurnInv, CliInv, AtTools, Streams
    <2>4. StreamInv'
      BY <1>1, <1>3, <2>1 DEF TurnInv, StreamInv, Judged, Streams
    <2>5. results = <<>> /\ calls = <<>> /\ message = results /\ seen = NothingSeen
      BY <1>1 DEF TurnInv, LoopInv, FreshInv
    <2>6. Len(results) = 0 /\ Len(seen.log) = 0 /\ seen.log = <<>>
      BY <2>5, EmptySeq DEF NothingSeen
    <2>7. LogInv'
      <3>1. Answered'
        BY <1>1, <2>6 DEF Answered
      <3> QED BY <1>1, <1>3, <2>6, <3>1 DEF LogInv
    <2>8. LoopInv'
      <3>1. /\ seen.sent.results = <<>> /\ seen.sent.calls = <<>> /\ seen.owed = <<>>
        BY <2>5 DEF NothingSeen
      <3>2. <<>> = [i \in DOMAIN <<>> |-> <<"result", <<>>[i][1], <<>>[i][2]>>]
            /\ <<>> = [i \in DOMAIN <<>> |-> <<>>[i][1]]
        OBVIOUS
      <3>3. phase' \in {"ask", "listen"}
        BY <1>3
      <3>4. (route \in ApiRoutes /\ phase \in {"tools", "execute", "ask"}
               => line.assistant = calls)'
        BY <1>1, <2>5, <3>3 DEF TurnInv, FreshInv
      <3> QED BY <1>1, <2>5, <3>1, <3>2, <3>3, <3>4 DEF LoopInv
    <2>9. FreshInv' /\ NoWordLost'
      BY <1>1, <1>3, <2>1 DEF TurnInv, FreshInv, NoWordLost, Said
    <2> QED BY <2>2, <2>3, <2>4, <2>7, <2>8, <2>9 DEF TurnInv
  <1> QED BY <1>2, <1>3 DEF StartTurn

----------------------------------------------------------------------------
(* The loop's own steps. *)

(* What the host was told of is what the next request carries. *)
LEMMA ToldIsSent ==
    ASSUME TurnInv, phase = "ask"
    PROVE  /\ ResultsTold = [i \in DOMAIN message |-> <<"result", message[i][1], message[i][2]>>]
           /\ calls = [i \in DOMAIN message |-> message[i][1]]
  <1>1. message = results /\ Len(results) = Len(calls)
    BY DEF TurnInv, LoopInv
  <1>2. Answered /\ Len(seen.log) = 3 * Len(results)
    BY DEF TurnInv, LogInv
  <1>3. /\ Len(results) \in Nat /\ DOMAIN results = 1 .. Len(results)
        /\ calls \in Seq(CallIds) /\ DOMAIN calls = 1 .. Len(results)
    BY <1>1 DEF TurnInv, TurnTypes
  <1>4. Len(seen.log) \div 3 = Len(results)
    <2>1. \A n \in Nat : (3 * n) \div 3 = n
      OBVIOUS
    <2> QED BY <1>2, <1>3, <2>1
  <1>5. calls = [i \in DOMAIN calls |-> calls[i]]
    BY <1>3
  <1>6. calls = [i \in DOMAIN message |-> message[i][1]]
    BY <1>1, <1>2, <1>3, <1>5 DEF Answered
  <1>7. ResultsTold = [i \in 1 .. Len(results) |-> seen.log[3 * i]]
    BY <1>4 DEF ResultsTold
  <1>8. \A i \in 1 .. Len(results) : seen.log[3 * i] = <<"result", results[i][1], results[i][2]>>
    BY <1>2 DEF Answered
  <1> QED BY <1>1, <1>3, <1>6, <1>7, <1>8

(* A request starts a round: what was held and logged is gone, the session   *)
(* stays.                                                                    *)
LEMMA AskKeeps ==
    ASSUME TurnInv, phase = "ask", phase' = "listen",
           UNCHANGED <<route, ending, round, message, calls, results>>,
           shown' = <<>>, response' \in Seq(Pieces), at' \in 0 .. Len(response'),
           route \in {"codex", "grok"} => at' = 0,
           Sends(calls), NEW kept,
           line' = [NextRoundLine EXCEPT !.assistant = kept]
    PROVE  TurnInv'
  <1>1. ending = "none" /\ ending' = "none"
    BY DEF TurnInv, TurnTypes
  <1>2. IsTransport(line) /\ IsMemory(seen)
    BY DEF TurnInv, TurnTypes
  <1>3. /\ line' = [line EXCEPT !.parser = NewParser, !.sawEnd = FALSE, !.error = FALSE,
                                !.received = NoSession, !.assistant = kept]
        /\ line'.session = line.session /\ line'.received = NoSession
        /\ line'.sawEnd = FALSE /\ line'.parser = NewParser
    BY <1>2 DEF NextRoundLine, IsTransport
  <1>4. IsTransport(line')
    BY <1>2, <1>3, NewParserIsOne DEF IsTransport
  <1>5. /\ seen'.heard = {} /\ seen'.sound = FALSE /\ seen'.named = seen.named
        /\ seen'.log = <<>> /\ seen'.owed = ResultsTold
        /\ seen'.sent = [calls |-> calls, results |-> message]
        /\ seen' \in [heard : {{}}, sound : {FALSE}, named : {seen.named}, log : {<<>>},
                      owed : {ResultsTold}, sent : {[calls |-> calls, results |-> message]}]
    BY DEF Sends, NothingSeen
  <1>6. IsMemory(seen')
    BY <1>5, EmptySeq DEF IsMemory
  <1>7. TurnTypes'
    <2>1. IsTransport(line)'
      BY <1>4 DEF IsTransport, IsParser
    <2>2. IsMemory(seen)'
      BY <1>6, SameIds DEF IsMemory
    <2>3. shown' \in Seq(Pieces)
      BY EmptySeq
    <2> QED BY <2>1, <2>2, <2>3, <1>1, SameIds DEF TurnInv, TurnTypes
  <1>8. CliInv'
    BY <1>1, <1>3, <1>5 DEF TurnInv, CliInv, ListenInv, Named, AtTools
  <1>9. StreamInv'
    BY RoutesApart DEF TurnInv, StreamInv, Judged
  <1>10. LogInv' /\ FreshInv'
    BY <1>5 DEF LogInv, FreshInv
  <1>11. LoopInv'
    BY <1>5, ToldIsSent DEF LoopInv
  <1>12. NoWordLost'
    <2>1. CASE route \in {"codex", "grok"}
      <3>1. Said' = <<>>
        BY <2>1, SubSeqEmpty DEF Said
      <3>2. line'.parser.candidate = <<>>
        BY <1>3, NewParserIsOne
      <3>3. <<>> \o <<>> = <<>>
        BY EmptySeq, ConcatEmptySeq
      <3> QED BY <1>1, <3>1, <3>2, <3>3 DEF NoWordLost
    <2>2. CASE route \notin {"codex", "grok"}
      BY <2>2 DEF NoWordLost
    <2> QED BY <2>1, <2>2
  <1> QED BY <1>7, <1>8, <1>9, <1>10, <1>11, <1>12 DEF TurnInv

LEMMA AskCliKeeps == ASSUME TurnInv, AskCli PROVE TurnInv'
  <1>1. line' = [NextRoundLine EXCEPT !.assistant = line.assistant]
    BY DEF AskCli, NextRoundLine, TurnInv, TurnTypes, IsTransport
  <1>2. response' \in Seq(Pieces)
    BY TextsArePieces DEF AskCli
  <1>3. at' \in 0 .. Len(response')
    BY <1>2, LenProperties DEF AskCli
  <1> QED BY <1>1, <1>2, <1>3, AskKeeps DEF AskCli

LEMMA AskApiKeeps == ASSUME TurnInv, AskApi PROVE TurnInv'
  <1>1. line.assistant = calls
    BY RoutesApart DEF AskApi, TurnInv, LoopInv
  <1>2. response' \in Seq(Pieces) /\ at' \in 0 .. Len(response')
    BY DEF AskApi, TurnInv, TurnTypes
  <1> QED BY <1>1, <1>2, AskKeeps DEF AskApi

(* The log of a round, entry by entry. *)
LEMMA LogGrows ==
    ASSUME TurnInv, phase = "tools" \/ phase = "execute"
    PROVE  /\ Answered /\ Len(results) \in Nat /\ Len(calls) \in Nat
           /\ phase = "tools" => Len(seen.log) = 3 * Len(results)
           /\ phase = "execute" =>
                 /\ Len(seen.log) = 3 * Len(results) + 1
                 /\ Len(results) < Len(calls)
                 /\ seen.log[3 * Len(results) + 1] = <<"call", NextCall>>
           /\ Len(results) < Len(calls) => NextCall \in CallIds
  <1>1. calls \in Seq(CallIds) /\ results \in Seq(CallIds \X BOOLEAN)
    BY DEF TurnInv, TurnTypes
  <1>2. Len(results) < Len(calls) => NextCall \in CallIds
    BY <1>1 DEF NextCall
  <1> QED BY <1>1, <1>2 DEF TurnInv, LogInv

LEMMA ToolsKeep ==
    ASSUME TurnInv, AtTools, ending = "none", ending' = "none",
           phase' \in {"tools", "execute", "ask"},
           UNCHANGED <<route, round, calls, line, response, at, shown>>,
           NEW entries \in Seq(Entries), seen' = [seen EXCEPT !.log = entries]
    PROVE  /\ IsMemory(seen)' /\ CliInv' /\ StreamInv' /\ NoWordLost' /\ FreshInv'
           /\ seen'.log = entries
           /\ (route \in ApiRoutes /\ phase \in {"tools", "execute", "ask"}
                 => line.assistant = calls)'
  <1>1. IsMemory(seen)
    BY DEF TurnInv, TurnTypes
  <1>2. /\ seen'.log = entries /\ seen'.heard = seen.heard /\ seen'.sound = seen.sound
        /\ seen'.named = seen.named
    BY <1>1 DEF IsMemory
  <1>3. IsMemory(seen)'
    BY <1>1, SameIds DEF IsMemory
  <1>4. CliInv'
    BY <1>2, NoSessionIsNoId DEF TurnInv, CliInv, Counts, AtTools, Named
  <1>5. StreamInv'
    BY RoutesApart DEF TurnInv, StreamInv, AtTools, Judged
  <1>6. NoWordLost' /\ FreshInv'
    BY DEF TurnInv, NoWordLost, Said, FreshInv
  <1> QED BY <1>2, <1>3, <1>4, <1>5, <1>6 DEF TurnInv, LoopInv, AtTools

LEMMA AnnounceKeeps == ASSUME TurnInv, AnnounceCall PROVE TurnInv'
  <1>1. /\ phase = "tools" /\ phase' = "execute" /\ Len(results) < Len(calls)
        /\ UNCHANGED <<route, ending, round, message, calls, results, line, response, at, shown>>
    BY DEF AnnounceCall
  <1>2. ending = "none" /\ seen.log \in Seq(Entries)
    BY <1>1 DEF TurnInv, TurnTypes, IsMemory
  <1>3. /\ Answered /\ Len(results) \in Nat /\ Len(seen.log) = 3 * Len(results)
        /\ NextCall \in CallIds
    BY <1>1, LogGrows
  <1> DEFINE entries == Append(seen.log, <<"call", NextCall>>)
  <1>4. seen' = [seen EXCEPT !.log = entries]
    BY DEF AnnounceCall, Says
  <1>5. <<"call", NextCall>> \in Entries
    BY <1>3 DEF Entries
  <1>6. /\ entries \in Seq(Entries) /\ Len(entries) = Len(seen.log) + 1
        /\ entries[Len(seen.log) + 1] = <<"call", NextCall>>
        /\ \A i \in 1 .. Len(seen.log) : entries[i] = seen.log[i]
    BY <1>2, <1>5, AppendProperties
  <1> HIDE DEF entries
  <1>7. /\ IsMemory(seen)' /\ CliInv' /\ StreamInv' /\ NoWordLost' /\ FreshInv'
        /\ seen'.log = entries
        /\ (route \in ApiRoutes /\ phase \in {"tools", "execute", "ask"}
              => line.assistant = calls)'
    BY <1>1, <1>2, <1>4, <1>6, ToolsKeep DEF AtTools
  <1>8. Answered'
    <2>1. \A i \in 1 .. Len(results) :
             /\ 3 * i - 2 \in 1 .. Len(seen.log) /\ 3 * i - 1 \in 1 .. Len(seen.log)
             /\ 3 * i \in 1 .. Len(seen.log)
      BY <1>3
    <2> QED BY <1>1, <1>3, <1>6, <1>7, <2>1 DEF Answered
  <1>9. LogInv'
    BY <1>1, <1>3, <1>6, <1>7, <1>8 DEF LogInv, NextCall
  <1>10. LoopInv'
    BY <1>1, <1>7 DEF LoopInv
  <1>11. TurnTypes'
    BY <1>1, <1>2, <1>7, SameIds DEF TurnInv, TurnTypes, IsTransport, IsParser
  <1> QED BY <1>7, <1>9, <1>10, <1>11 DEF TurnInv

LEMMA ExecuteKeeps == ASSUME TurnInv, ExecuteTool PROVE TurnInv'
  <1>1. /\ phase = "execute" /\ phase' = "tools"
        /\ UNCHANGED <<route, ending, round, message, calls, line, response, at, shown>>
    BY DEF ExecuteTool
  <1>2. ending = "none" /\ seen.log \in Seq(Entries)
        /\ results \in Seq(CallIds \X BOOLEAN)
    BY <1>1 DEF TurnInv, TurnTypes, IsMemory
  <1>3. /\ Answered /\ Len(results) \in Nat /\ Len(seen.log) = 3 * Len(results) + 1
        /\ Len(results) < Len(calls) /\ Len(calls) \in Nat
        /\ seen.log[3 * Len(results) + 1] = <<"call", NextCall>>
        /\ NextCall \in CallIds
    BY <1>1, LogGrows
  <1>4. PICK isError \in BOOLEAN :
          /\ results' = Append(results, <<NextCall, isError>>)
          /\ seen' = [seen EXCEPT !.log =
                         @ \o << <<"ran", NextCall>>, <<"result", NextCall, isError>> >>]
    BY DEF ExecuteTool
  <1> DEFINE both == << <<"ran", NextCall>>, <<"result", NextCall, isError>> >>
             entries == seen.log \o both
             L == Len(seen.log)
  <1>5. seen' = [seen EXCEPT !.log = entries]
    BY <1>4
  <1>6. /\ both \in Seq(Entries) /\ Len(both) = 2
        /\ both[1] = <<"ran", NextCall>> /\ both[2] = <<"result", NextCall, isError>>
    BY <1>3 DEF Entries
  <1> HIDE DEF both
  <1>7. /\ entries \in Seq(Entries) /\ Len(entries) = L + 2
        /\ entries[L + 1] = both[1] /\ entries[L + 2] = both[2]
        /\ \A i \in 1 .. L : entries[i] = seen.log[i]
    <2>1. L \in Nat
      BY <1>2
    <2>2. /\ entries \in Seq(Entries) /\ Len(entries) = L + 2
          /\ \A i \in 1 .. L + 2 : entries[i] = IF i =< L THEN seen.log[i] ELSE both[i - L]
      <3>1. /\ entries \in Seq(Entries) /\ Len(entries) = Len(seen.log) + Len(both)
            /\ \A i \in 1 .. Len(seen.log) + Len(both) :
                  entries[i] = IF i =< Len(seen.log) THEN seen.log[i]
                                ELSE both[i - Len(seen.log)]
        BY <1>2, <1>6, ConcatProperties
      <3> HIDE DEF entries
      <3> QED BY <1>6, <3>1
    <2> HIDE DEF entries, L
    <2>3. L + 1 - L = 1 /\ L + 1 \in 1 .. L + 2 /\ ~(L + 1 =< L)
      BY <2>1
    <2>4. L + 2 - L = 2 /\ L + 2 \in 1 .. L + 2 /\ ~(L + 2 =< L)
      BY <2>1
    <2>5. entries[L + 1] = both[1]
      <3>1. entries[L + 1] = IF L + 1 =< L THEN seen.log[L + 1] ELSE both[L + 1 - L]
        BY <2>1, <2>2, <2>3
      <3> QED BY <2>3, <3>1
    <2>6. entries[L + 2] = both[2]
      <3>1. entries[L + 2] = IF L + 2 =< L THEN seen.log[L + 2] ELSE both[L + 2 - L]
        BY <2>1, <2>2, <2>4
      <3> QED BY <2>4, <3>1
    <2>7. \A i \in 1 .. L : entries[i] = seen.log[i]
      <3>1. \A i \in 1 .. L : i \in 1 .. L + 2 /\ i =< L
        BY <2>1
      <3> QED BY <2>2, <3>1
    <2> QED BY <2>2, <2>5, <2>6, <2>7 DEF L
  <1> HIDE DEF entries
  <1>8. /\ IsMemory(seen)' /\ CliInv' /\ StreamInv' /\ NoWordLost' /\ FreshInv'
        /\ seen'.log = entries
        /\ (route \in ApiRoutes /\ phase \in {"tools", "execute", "ask"}
              => line.assistant = calls)'
    BY <1>1, <1>2, <1>5, <1>7, ToolsKeep DEF AtTools
  <1>9. /\ results' \in Seq(CallIds \X BOOLEAN) /\ Len(results') = Len(results) + 1
        /\ results'[Len(results) + 1] = <<NextCall, isError>>
        /\ \A i \in 1 .. Len(results) : results'[i] = results[i]
    <2>1. <<NextCall, isError>> \in CallIds \X BOOLEAN
      BY <1>3
    <2> QED BY <1>2, <1>4, <2>1, AppendProperties
  <1>10. Answered'
    <2> SUFFICES ASSUME NEW i \in 1 .. Len(results) + 1
                 PROVE  /\ i =< Len(calls) /\ results'[i][1] = calls[i]
                        /\ entries[3 * i - 2] = <<"call", calls[i]>>
                        /\ entries[3 * i - 1] = <<"ran", calls[i]>>
                        /\ entries[3 * i] = <<"result", calls[i], results'[i][2]>>
      BY <1>1, <1>8, <1>9 DEF Answered
    <2>1. CASE i \in 1 .. Len(results)
      <3>1. /\ 3 * i - 2 \in 1 .. L /\ 3 * i - 1 \in 1 .. L /\ 3 * i \in 1 .. L
        BY <1>3, <2>1
      <3> QED BY <1>3, <1>7, <1>9, <2>1, <3>1 DEF Answered
    <2>2. CASE i = Len(results) + 1
      <3>1. 3 * i - 2 = L /\ L \in 1 .. L /\ 3 * i - 1 = L + 1 /\ 3 * i = L + 2
        BY <1>3, <2>2
      <3>2. calls[i] = NextCall
        BY <2>2 DEF NextCall
      <3>3. results'[i][1] = calls[i] /\ results'[i][2] = isError /\ i =< Len(calls)
        BY <1>3, <1>9, <2>2, <3>2
      <3>4. entries[L] = <<"call", calls[i]>>
        BY <1>3, <1>7, <3>1, <3>2
      <3>5. /\ entries[L + 1] = <<"ran", calls[i]>>
            /\ entries[L + 2] = <<"result", calls[i], isError>>
        BY <1>6, <1>7, <3>2
      <3> HIDE DEF L
      <3> QED BY <3>1, <3>3, <3>4, <3>5
    <2> QED BY <1>3, <2>1, <2>2
  <1>11. LogInv'
    BY <1>1, <1>3, <1>7, <1>8, <1>9, <1>10 DEF LogInv
  <1>12. LoopInv'
    BY <1>1, <1>8 DEF LoopInv
  <1>13. TurnTypes'
    BY <1>1, <1>2, <1>8, <1>9, SameIds DEF TurnInv, TurnTypes, IsTransport, IsParser
  <1> QED BY <1>8, <1>11, <1>12, <1>13 DEF TurnInv

LEMMA SendResultsKeeps == ASSUME TurnInv, SendResults PROVE TurnInv'
  <1>1. /\ phase = "tools" /\ phase' = "ask" /\ message' = results
        /\ Len(results) = Len(calls)
        /\ UNCHANGED <<route, ending, round, calls, results, line, response, at, shown, seen>>
    BY DEF SendResults
  <1>2. ending = "none" /\ seen.log \in Seq(Entries) /\ IsMemory(seen)
    BY <1>1 DEF TurnInv, TurnTypes, IsMemory
  <1>3. seen' = [seen EXCEPT !.log = seen.log]
    BY <1>1, <1>2 DEF IsMemory
  <1>4. /\ IsMemory(seen)' /\ CliInv' /\ StreamInv' /\ NoWordLost' /\ FreshInv'
        /\ (route \in ApiRoutes /\ phase \in {"tools", "execute", "ask"}
              => line.assistant = calls)'
    BY <1>1, <1>2, <1>3, ToolsKeep DEF AtTools
  <1>5. LogInv'
    BY <1>1, LogGrows DEF LogInv, Answered
  <1>6. LoopInv'
    BY <1>1, <1>4 DEF LoopInv
  <1>7. TurnTypes'
    BY <1>1, <1>2, <1>4, SameIds DEF TurnInv, TurnTypes, IsTransport, IsParser
  <1> QED BY <1>4, <1>5, <1>6, <1>7 DEF TurnInv

----------------------------------------------------------------------------
(* What a CLI says. *)
LEMMA BreaksKeeps ==
    ASSUME TurnInv, phase = "listen", NEW kind, Breaks(kind) PROVE TurnInv'
  <1>1. /\ IsMemory(seen) /\ End("failed")
        /\ UNCHANGED <<route, round, message, calls, results, line, response, at, shown>>
        /\ seen' = [seen EXCEPT !.heard = @ \cup {kind}]
    BY DEF Breaks, Hears, LineKept, KeepsTurn, TurnInv, TurnTypes
  <1>2. /\ IsMemory(seen') /\ seen'.log = seen.log /\ seen.heard \subseteq seen'.heard
    BY <1>1 DEF IsMemory
  <1> QED BY <1>1, <1>2, EndsKeeps DEF Live

LEMMA HeardKeeps ==
    ASSUME TurnInv, route \in {"codex", "grok"}, phase = "listen",
           UNCHANGED <<route, phase, ending, round, message, calls, results, response>>,
           NEW heard, NEW named, seen' = [seen EXCEPT !.heard = heard, !.named = named],
           IsTransport(line'), shown' \in Seq(Pieces), at' \in 0 .. Len(response),
           NoWordLost',
           ASSUME seen'.heard = heard, seen'.named = named PROVE ListenInv'
    PROVE  TurnInv'
  <1>1. IsMemory(seen) /\ ending = "none"
    BY DEF TurnInv, TurnTypes
  <1>2. /\ seen'.heard = heard /\ seen'.named = named /\ seen'.log = seen.log
        /\ seen'.owed = seen.owed /\ seen'.sent = seen.sent /\ IsMemory(seen')
    BY <1>1 DEF IsMemory
  <1>3. TurnTypes'
    <2>1. IsTransport(line)' /\ IsMemory(seen)'
      BY <1>2, SameIds DEF IsMemory, IsTransport, IsParser
    <2> QED BY <2>1, SameIds DEF TurnInv, TurnTypes
  <1>4. ListenInv'
    BY <1>2
  <1>5. CliInv'
    BY <1>1, <1>4 DEF CliInv, AtTools
  <1>6. StreamInv'
    BY RoutesApart DEF StreamInv
  <1>7. LogInv' /\ FreshInv'
    BY <1>2 DEF TurnInv, LogInv, FreshInv
  <1>8. LoopInv'
    BY <1>2 DEF TurnInv, LoopInv
  <1> QED BY <1>3, <1>5, <1>6, <1>7, <1>8 DEF TurnInv

(* The next chunk is shown, or held back, behind what was. *)
LEMMA ChunkKeeps ==
    ASSUME TurnInv, route \in {"codex", "grok"}, phase = "listen",
           UNCHANGED <<route, phase, ending, response>>,
           NEW n \in 1 .. Len(response) - at, NEW fed,
           fed = Feed(line.parser, SubSeq(response, at + 1, at + n)),
           line' = [line EXCEPT !.parser = fed.parser],
           shown' = shown \o fed.out, at' = at + n
    PROVE  /\ IsTransport(line') /\ shown' \in Seq(Pieces) /\ at' \in 0 .. Len(response)
           /\ NoWordLost'
  <1>1. /\ response \in Seq(Pieces) /\ at \in 0 .. Len(response) /\ shown \in Seq(Pieces)
        /\ IsTransport(line) /\ ending = "none" /\ Len(response) \in Nat
    BY DEF TurnInv, TurnTypes
  <1>2. at + n \in at .. Len(response) /\ at' \in 0 .. Len(response)
    BY <1>1
  <1>3. PICK was, chunk \in Seq(Pieces) :
          /\ was = SubSeq(response, 1, at) /\ chunk = SubSeq(response, at + 1, at + n)
          /\ Cat(was, chunk) = SubSeq(response, 1, at + n)
    <2>1. /\ SubSeq(response, 1, at) \in Seq(Pieces)
          /\ SubSeq(response, at + 1, at + n) \in Seq(Pieces)
          /\ Cat(SubSeq(response, 1, at), SubSeq(response, at + 1, at + n))
                = SubSeq(response, 1, at + n)
      BY <1>1, <1>2, Adjacent
    <2> QED BY <2>1
  <1>4. PICK held \in Seq(Pieces) : held = line.parser.candidate
    BY <1>1 DEF IsTransport, IsParser
  <1>5. Splits(fed, Cat(held, chunk)) /\ IsParser(line.parser)
    BY <1>1, <1>3, <1>4, FeedKeeps DEF IsTransport
  <1>6. PICK out, rest \in Seq(Pieces) :
          out = fed.out /\ rest = fed.parser.candidate /\ Cat(out, rest) = Cat(held, chunk)
    BY <1>5 DEF Splits, IsParser
  <1>7. Cat(shown, held) = was
    BY <1>1, <1>3, <1>4 DEF TurnInv, NoWordLost, Said, Cat
  <1>8. shown' = Cat(shown, out) /\ shown' \in Seq(Pieces)
    BY <1>1, <1>6, CatSeq DEF Cat
  <1>9. line'.parser = fed.parser /\ IsTransport(line')
    BY <1>1, <1>5 DEF IsTransport, Splits
  <1>10. Cat(Cat(shown, out), rest) = Cat(was, chunk)
    <2>1. Cat(Cat(shown, out), rest) = Cat(shown, Cat(held, chunk))
      BY <1>1, <1>6, CatAssociative
    <2>2. Cat(Cat(shown, held), chunk) = Cat(shown, Cat(held, chunk))
      <3>1. shown \in Seq(Pieces)
        BY <1>1
      <3> QED BY <3>1, CatAssociative
    <2> QED BY <1>7, <2>1, <2>2
  <1>11. Cat(shown', line'.parser.candidate) = Said'
    BY <1>3, <1>6, <1>8, <1>9, <1>10 DEF Said
  <1> QED BY <1>1, <1>2, <1>8, <1>9, <1>11 DEF NoWordLost, Cat

LEMMA HearsTextKeeps ==
    ASSUME TurnInv, route \in {"codex", "grok"}, phase = "listen", HearsText PROVE TurnInv'
  <1>1. PICK n \in 1 .. Len(response) - at :
          LET fed == Feed(line.parser, SubSeq(response, at + 1, at + n))
          IN /\ line' = [line EXCEPT !.parser = fed.parser]
             /\ shown' = shown \o fed.out
             /\ at' = at + n
    BY DEF HearsText
  <1>2. UNCHANGED <<route, phase, ending, round, message, calls, results, response>>
    BY DEF HearsText, KeepsTurn
  <1>3. /\ IsTransport(line') /\ shown' \in Seq(Pieces) /\ at' \in 0 .. Len(response)
        /\ NoWordLost'
    BY <1>1, <1>2, ChunkKeeps
  <1>4. IsMemory(seen) /\ IsTransport(line) /\ ListenInv
    BY DEF TurnInv, TurnTypes, CliInv
  <1>5. seen' = [seen EXCEPT !.heard = seen.heard \cup {"text"}, !.named = seen.named]
    BY <1>4 DEF HearsText, Hears, IsMemory
  <1>6. /\ line'.session = line.session /\ line'.received = line.received
        /\ line'.sawEnd = line.sawEnd /\ line'.error = line.error
    BY <1>1, <1>4 DEF IsTransport
  <1>7. ASSUME seen'.heard = seen.heard \cup {"text"}, seen'.named = seen.named
        PROVE  ListenInv'
    BY <1>2, <1>4, <1>6, <1>7 DEF ListenInv, Named
  <1> QED BY <1>2, <1>3, <1>5, <1>7, HeardKeeps

(* A line that is not text leaves the parser alone. *)
LEMMA OtherLine ==
    ASSUME TurnInv, route \in {"codex", "grok"}, phase = "listen",
           UNCHANGED <<route, phase, ending, round, message, calls, results, response,
                       at, shown>>,
           IsTransport(line'), line'.parser = line.parser,
           NEW heard, NEW named, seen' = [seen EXCEPT !.heard = heard, !.named = named],
           ASSUME seen'.heard = heard, seen'.named = named PROVE ListenInv'
    PROVE  TurnInv'
  <1>1. /\ shown \in Seq(Pieces) /\ at \in 0 .. Len(response)
    BY DEF TurnInv, TurnTypes
  <1>2. NoWordLost'
    BY DEF TurnInv, NoWordLost, Said
  <1>3. shown' \in Seq(Pieces) /\ at' \in 0 .. Len(response)
    BY <1>1
  <1> QED BY <1>2, <1>3, HeardKeeps

LEMMA HearsErrorKeeps ==
    ASSUME TurnInv, route \in {"codex", "grok"}, phase = "listen", ~line.sawEnd, HearsError
    PROVE  TurnInv'
  <1>1. UNCHANGED <<route, phase, ending, round, message, calls, results, response, at, shown>>
    BY DEF HearsError, KeepsTurn
  <1>2. IsMemory(seen) /\ IsTransport(line) /\ ListenInv
    BY DEF TurnInv, TurnTypes, CliInv
  <1>3. seen' = [seen EXCEPT !.heard = seen.heard \cup {"error"}, !.named = seen.named]
    BY <1>2 DEF HearsError, Hears, IsMemory
  <1>4. /\ IsTransport(line') /\ line'.parser = line.parser /\ line'.session = line.session
        /\ line'.received = line.received /\ line'.sawEnd = line.sawEnd /\ line'.error = TRUE
    BY <1>2 DEF HearsError, IsTransport
  <1>5. ASSUME seen'.heard = seen.heard \cup {"error"}, seen'.named = seen.named
        PROVE  ListenInv'
    BY <1>1, <1>2, <1>4, <1>5 DEF ListenInv, Named
  <1> QED BY <1>1, <1>3, <1>4, <1>5, OtherLine

LEMMA CodexThreadKeeps == ASSUME TurnInv, CodexThread PROVE TurnInv'
  <1>1. phase = "listen" /\ route = "codex"
    BY DEF CodexThread, Hearing, Listening
  <1>2. PICK id \in Sessions :
          \/ Breaks("foreign_thread")
          \/ /\ ~ForeignThread(id)
             /\ line' = [line EXCEPT !.received = id]
             /\ seen' = [seen EXCEPT !.heard = @ \cup {"thread"}, !.named = @ \cup {id}]
             /\ UNCHANGED <<phase, ending, at, shown>>
             /\ KeepsTurn
    BY DEF CodexThread
  <1>3. CASE Breaks("foreign_thread")
    BY <1>1, <1>3, BreaksKeeps
  <1>4. ASSUME ~Breaks("foreign_thread") PROVE TurnInv'
    <2>1. UNCHANGED <<route, phase, ending, round, message, calls, results, response, at, shown>>
      BY <1>2, <1>4 DEF KeepsTurn
    <2>2. IsMemory(seen) /\ IsTransport(line) /\ ListenInv
      BY <1>1 DEF TurnInv, TurnTypes, CliInv
    <2>3. /\ line.received = NoSession /\ (line.session # NoSession => id = line.session)
          /\ line' = [line EXCEPT !.received = id]
          /\ seen' = [seen EXCEPT !.heard = seen.heard \cup {"thread"},
                                  !.named = seen.named \cup {id}]
      BY <1>2, <1>4, <2>2 DEF ForeignThread, IsResume, IsMemory
    <2>4. /\ IsTransport(line') /\ line'.parser = line.parser /\ line'.session = line.session
          /\ line'.received = id /\ line'.sawEnd = line.sawEnd /\ id # NoSession
          /\ line'.error = line.error
      BY <2>2, <2>3, NoSessionIsNoId DEF IsTransport
    <2>5. ASSUME seen'.heard = seen.heard \cup {"thread"}, seen'.named = seen.named \cup {id}
          PROVE  ListenInv'
      BY <1>1, <2>1, <2>2, <2>3, <2>4, <2>5 DEF ListenInv, Named
    <2> QED BY <1>1, <2>1, <2>3, <2>4, <2>5, OtherLine
  <1> QED BY <1>3, <1>4

LEMMA CodexCompletedKeeps == ASSUME TurnInv, CodexCompleted PROVE TurnInv'
  <1>1. phase = "listen" /\ route = "codex" /\ ~line.error
    BY DEF CodexCompleted, Hearing, Listening
  <1>2. UNCHANGED <<route, phase, ending, round, message, calls, results, response, at, shown>>
    BY DEF CodexCompleted, KeepsTurn
  <1>3. IsMemory(seen) /\ IsTransport(line) /\ ListenInv
    BY <1>1 DEF TurnInv, TurnTypes, CliInv
  <1>4. seen' = [seen EXCEPT !.heard = seen.heard \cup {"end"}, !.named = seen.named]
    BY <1>3 DEF CodexCompleted, Hears, IsMemory
  <1>5. /\ IsTransport(line') /\ line'.parser = line.parser /\ line'.session = line.session
        /\ line'.received = line.received /\ line'.error = line.error
    BY <1>3 DEF CodexCompleted, IsTransport
  <1>6. ASSUME seen'.heard = seen.heard \cup {"end"}, seen'.named = seen.named
        PROVE  ListenInv'
    BY <1>1, <1>2, <1>3, <1>5, <1>6 DEF ListenInv, Named
  <1> QED BY <1>1, <1>2, <1>4, <1>5, <1>6, OtherLine

LEMMA GrokEndKeeps == ASSUME TurnInv, GrokEnd PROVE TurnInv'
  <1>1. phase = "listen" /\ route = "grok" /\ ~line.error
    BY DEF GrokEnd, Hearing, Listening
  <1>2. PICK id \in Sessions :
          /\ line' = [line EXCEPT !.sawEnd = TRUE, !.received = id]
          /\ seen' = [seen EXCEPT !.heard = @ \cup {"end"}, !.named = @ \cup {id}]
    BY DEF GrokEnd
  <1>3. UNCHANGED <<route, phase, ending, round, message, calls, results, response, at, shown>>
    BY DEF GrokEnd, KeepsTurn
  <1>4. IsMemory(seen) /\ IsTransport(line) /\ ListenInv
    BY <1>1 DEF TurnInv, TurnTypes, CliInv
  <1>5. seen' = [seen EXCEPT !.heard = seen.heard \cup {"end"}, !.named = seen.named \cup {id}]
    BY <1>2, <1>4 DEF IsMemory
  <1>6. /\ IsTransport(line') /\ line'.parser = line.parser /\ line'.session = line.session
        /\ line'.received = id /\ line'.error = line.error /\ id # NoSession
        /\ line'.sawEnd = TRUE
    BY <1>2, <1>4, NoSessionIsNoId DEF IsTransport
  <1>7. line.received = NoSession
    BY <1>1, <1>4 DEF ListenInv, GrokEnd, IsTransport
  <1>8. ASSUME seen'.heard = seen.heard \cup {"end"}, seen'.named = seen.named \cup {id}
        PROVE  ListenInv'
    BY <1>1, <1>3, <1>4, <1>6, <1>7, <1>8 DEF ListenInv, Named
  <1> QED BY <1>1, <1>3, <1>5, <1>6, <1>8, OtherLine

----------------------------------------------------------------------------
(* The end of a CLI's round. *)

(* A run whose answer is parsed ended well and in the one session of the turn. *)
LEMMA CodexCounts ==
    ASSUME TurnInv, Listening("codex"), NEW sound \in BOOLEAN, CodexSound(sound)
    PROVE  sound /\ Counts(CodexSession)
  <1>1. ListenInv /\ IsTransport(line)
    BY DEF TurnInv, TurnTypes, CliInv, Listening
  <1>2. /\ sound /\ line.sawEnd /\ route = "codex"
        /\ line.session # NoSession \/ line.received # NoSession
    BY DEF CodexSound, IsResume, Listening
  <1>3. line.session \in Sessions \cup {NoSession} /\ line.received \in Sessions \cup {NoSession}
    BY <1>1 DEF IsTransport
  <1> QED BY <1>1, <1>2, <1>3 DEF ListenInv, Counts, CodexSession, Named

LEMMA GrokCounts ==
    ASSUME TurnInv, Listening("grok"), NEW sound \in BOOLEAN, GrokSound(sound)
    PROVE  sound /\ Counts(line.received)
  <1>1. ListenInv /\ IsTransport(line)
    BY DEF TurnInv, TurnTypes, CliInv, Listening
  <1>2. /\ sound /\ line.sawEnd /\ route = "grok" /\ ~line.error
        /\ line.session = NoSession \/ line.received = line.session
    BY DEF GrokSound, IsResume, Listening
  <1>3. line.session \in Sessions \cup {NoSession} /\ line.received \in Sessions \cup {NoSession}
    BY <1>1 DEF IsTransport
  <1> QED BY <1>1, <1>2, <1>3 DEF ListenInv, Counts, Named

(* A round that counts: the transport takes the session over.                *)
LEMMA RoundCounts ==
    ASSUME TurnInv, route \in {"codex", "grok"}, phase = "listen",
           UNCHANGED <<route, response, at>>,
           NEW session, Counts(session),
           line' = [line EXCEPT !.session = session],
           seen' = [seen EXCEPT !.sound = TRUE]
    PROVE  /\ IsTransport(line)' /\ IsMemory(seen)' /\ line'.parser = line.parser
           /\ seen'.log = <<>> /\ seen'.sound /\ Counts(line.session)' /\ StreamInv'
  <1>1. IsTransport(line) /\ IsMemory(seen)
    BY DEF TurnInv, TurnTypes
  <1>2. line'.session = session /\ line'.parser = line.parser /\ IsTransport(line')
    BY <1>1 DEF IsTransport, Counts
  <1>3. /\ seen'.heard = seen.heard /\ seen'.named = seen.named /\ seen'.log = seen.log
        /\ seen'.sound = TRUE /\ IsMemory(seen')
    BY <1>1 DEF IsMemory
  <1>4. IsTransport(line)' /\ IsMemory(seen)'
    BY <1>2, <1>3, SameIds DEF IsTransport, IsMemory, IsParser
  <1>5. Counts(line.session)'
    BY <1>2, <1>3 DEF Counts
  <1>6. seen.log = <<>>
    BY DEF TurnInv, LogInv
  <1>7. StreamInv'
    BY RoutesApart DEF StreamInv
  <1> QED BY <1>2, <1>3, <1>4, <1>5, <1>6, <1>7

(* A batch is executed, or the limit ends the turn; nothing is logged yet.   *)
LEMMA BatchKeeps ==
    ASSUME TurnInv, phase = "listen", UNCHANGED <<route, response, at>>,
           NEW batch \in Seq(CallIds), ToolCallBatch(batch),
           IsTransport(line)', IsMemory(seen)', line'.parser = line.parser,
           seen'.log = <<>>, CliInv', StreamInv',
           route \in ApiRoutes => line'.assistant = batch,
           route \notin Streams
    PROVE  TurnInv'
  <1>1. /\ ending = "none" /\ round \in Nat /\ <<>> \in Seq(CallIds \X BOOLEAN)
        /\ Len(<<>>) = 0
    BY EmptySeq DEF TurnInv, TurnTypes
  <1>2. CASE LimitReached /\ End("limit") /\ UNCHANGED <<round, calls, results>>
    <2>1. phase' = "ended" /\ ending' = "limit" /\ UNCHANGED <<message, shown>>
      BY <1>2 DEF ToolCallBatch, End
    <2>2. TurnTypes'
      BY <1>2, <2>1, SameIds DEF TurnInv, TurnTypes
    <2>3. LogInv' /\ LoopInv' /\ FreshInv'
      BY <2>1 DEF LogInv, LoopInv, FreshInv
    <2>4. NoWordLost'
      BY <1>1, <2>1 DEF TurnInv, NoWordLost, Said
    <2> QED BY <2>2, <2>3, <2>4 DEF TurnInv
  <1>3. CASE /\ phase' = "tools" /\ round' = NextRoundIndex /\ calls' = batch
             /\ results' = <<>> /\ UNCHANGED ending
    <2>1. UNCHANGED <<message, shown>>
      BY DEF ToolCallBatch
    <2>2. TurnTypes'
      <3>1. round' \in Nat
        BY <1>1, <1>3 DEF NextRoundIndex
      <3> QED BY <1>1, <1>3, <2>1, <3>1, SameIds DEF TurnInv, TurnTypes
    <2>3. LogInv'
      <3>1. Answered' /\ Len(seen'.log) = 3 * Len(results')
        BY <1>1, <1>3 DEF Answered
      <3> QED BY <1>3, <3>1 DEF LogInv
    <2>4. LoopInv' /\ FreshInv'
      BY <1>3 DEF LoopInv, FreshInv
    <2>5. NoWordLost'
      BY <1>1, <1>3, <2>1 DEF TurnInv, NoWordLost, Said
    <2> QED BY <2>2, <2>3, <2>4, <2>5 DEF TurnInv
  <1> QED BY <1>2, <1>3 DEF ToolCallBatch

LEMMA FinishRoundKeeps ==
    ASSUME TurnInv, route \in {"codex", "grok"}, phase = "listen",
           NEW isSound \in BOOLEAN, NEW sound \in BOOLEAN, NEW session,
           isSound => sound /\ Counts(session),
           FinishRound(isSound, sound, session)
    PROVE  TurnInv'
  <1>1. /\ UNCHANGED <<route, response, at>> /\ seen' = [seen EXCEPT !.sound = sound]
        /\ IsMemory(seen) /\ IsTransport(line) /\ ending = "none" /\ round \in Nat
        /\ shown \in Seq(Pieces) /\ line.parser.candidate \in Seq(Pieces)
    BY DEF FinishRound, TurnInv, TurnTypes, IsTransport, IsParser
  <1>2. /\ IsMemory(seen') /\ seen'.log = seen.log /\ seen'.heard = seen.heard
    BY <1>1 DEF IsMemory
  <1>3. ASSUME NEW how \in {"failed", "refused"}, End(how),
               UNCHANGED <<round, message, calls, results, line, shown>>
        PROVE  TurnInv'
    BY <1>1, <1>2, <1>3, EndsKeeps DEF Live
  <1>4. ASSUME isSound, line' = [line EXCEPT !.session = session],
               Finish(line.parser).kind = "text", FinalText(Finish(line.parser).text)
        PROVE  TurnInv'
    <2>1. /\ IsTransport(line)' /\ IsMemory(seen)' /\ line'.parser = line.parser
          /\ seen'.log = <<>> /\ seen'.sound /\ Counts(line.session)' /\ StreamInv'
      BY <1>1, <1>4, RoundCounts
    <2>2. /\ shown' = shown \o line.parser.candidate /\ phase' = "ended" /\ ending' = "final"
          /\ UNCHANGED <<round, message, calls, results>>
      BY <1>4, FinishKeeps DEF FinalText, End
    <2>3. shown' \in Seq(Pieces)
      BY <1>1, <2>2, ConcatProperties
    <2>4. TurnTypes'
      BY <1>1, <2>1, <2>2, <2>3, SameIds DEF TurnInv, TurnTypes
    <2>5. CliInv'
      BY <2>1, <2>2 DEF CliInv
    <2>6. LogInv' /\ LoopInv' /\ FreshInv'
      BY <2>1, <2>2 DEF LogInv, LoopInv, FreshInv
    <2>7. NoWordLost'
      BY <1>1, <2>2 DEF TurnInv, NoWordLost, Said
    <2> QED BY <2>1, <2>4, <2>5, <2>6, <2>7 DEF TurnInv
  <1>5. ASSUME isSound, line' = [line EXCEPT !.session = session],
               ToolCallBatch(<<round + 1>>)
        PROVE  TurnInv'
    <2>1. /\ IsTransport(line)' /\ IsMemory(seen)' /\ line'.parser = line.parser
          /\ seen'.log = <<>> /\ seen'.sound /\ Counts(line.session)' /\ StreamInv'
      BY <1>1, <1>5, RoundCounts
    <2>2. phase' \in {"tools", "ended"}
      BY <1>5 DEF ToolCallBatch, End
    <2>3. CliInv'
      BY <2>1, <2>2 DEF CliInv
    <2>4. <<round + 1>> \in Seq(CallIds)
      <3>1. CallIds = Nat
        BY RoutesApart DEF CallIds
      <3> QED BY <1>1, <3>1
    <2>5. route \notin ApiRoutes /\ route \notin Streams
      BY RoutesApart
    <2> QED BY <1>1, <1>5, <2>1, <2>3, <2>4, <2>5, BatchKeeps
  <1> QED BY <1>3, <1>4, <1>5 DEF FinishRound

LEMMA CliStepKeeps == ASSUME TurnInv, CliStep PROVE TurnInv'
  <1>1. ASSUME CodexMessage \/ GrokText PROVE TurnInv'
    BY <1>1, HearsTextKeeps DEF CodexMessage, GrokText, Hearing, Listening
  <1>2. ASSUME CodexError \/ GrokError PROVE TurnInv'
    BY <1>2, HearsErrorKeeps DEF CodexError, GrokError, Hearing, Listening
  <1>3. ASSUME CodexForbidden \/ GrokForbidden PROVE TurnInv'
    BY <1>3, BreaksKeeps DEF CodexForbidden, GrokForbidden, Hearing, Listening
  <1> QED BY <1>1, <1>2, <1>3, CodexThreadKeeps, CodexCompletedKeeps, GrokEndKeeps DEF CliStep

LEMMA CliOutcomeKeeps == ASSUME TurnInv, CliOutcome PROVE TurnInv'
  <1>1. ASSUME CodexOutcome PROVE TurnInv'
    <2>1. PICK sound \in BOOLEAN : FinishRound(CodexSound(sound), sound, CodexSession)
      BY <1>1 DEF CodexOutcome
    <2>2. Listening("codex") /\ route = "codex" /\ phase = "listen"
      BY <1>1 DEF CodexOutcome, Listening
    <2>3. CodexSound(sound) \in BOOLEAN
      BY <2>2 DEF CodexSound, IsResume, TurnInv, TurnTypes, IsTransport
    <2>4. CodexSound(sound) => sound /\ Counts(CodexSession)
      BY <2>2, CodexCounts
    <2> QED BY <2>1, <2>2, <2>3, <2>4, FinishRoundKeeps
  <1>2. ASSUME GrokOutcome PROVE TurnInv'
    <2>1. PICK sound \in BOOLEAN : FinishRound(GrokSound(sound), sound, line.received)
      BY <1>2 DEF GrokOutcome
    <2>2. Listening("grok") /\ route = "grok" /\ phase = "listen"
      BY <1>2 DEF GrokOutcome, Listening
    <2>3. GrokSound(sound) \in BOOLEAN
      BY <2>2 DEF GrokSound, IsResume, TurnInv, TurnTypes, IsTransport
    <2>4. GrokSound(sound) => sound /\ Counts(line.received)
      BY <2>2, GrokCounts
    <2> QED BY <2>1, <2>2, <2>3, <2>4, FinishRoundKeeps
  <1> QED BY <1>1, <1>2 DEF CliOutcome

----------------------------------------------------------------------------
(* What an API says. *)
LEMMA ApiTextKeeps == ASSUME TurnInv, ApiText PROVE TurnInv'
  <1>1. /\ UNCHANGED <<route, phase, ending, round, message, calls, results, line, response,
                       at, shown>>
        /\ phase = "listen" /\ route \in ApiRoutes /\ seen' = [seen EXCEPT !.heard = {"text"}]
    BY RoutesApart DEF ApiText, Reading
  <1>2. IsMemory(seen)
    BY DEF TurnInv, TurnTypes
  <1>3. /\ seen'.log = seen.log /\ seen'.owed = seen.owed /\ seen'.sent = seen.sent
        /\ IsMemory(seen')
    BY <1>1, <1>2 DEF IsMemory
  <1>4. TurnTypes'
    <2>1. IsMemory(seen)'
      BY <1>1, <1>3, SameIds DEF IsMemory
    <2> QED BY <1>1, <2>1, SameIds DEF TurnInv, TurnTypes, IsTransport, IsParser
  <1>5. CliInv' /\ StreamInv' /\ NoWordLost'
    BY <1>1, RoutesApart DEF CliInv, StreamInv, NoWordLost
  <1>6. LogInv' /\ LoopInv' /\ FreshInv'
    BY <1>1, <1>3 DEF TurnInv, LogInv, LoopInv, FreshInv
  <1> QED BY <1>4, <1>5, <1>6 DEF TurnInv

LEMMA ApiFinalKeeps == ASSUME TurnInv, ApiFinal PROVE TurnInv'
  <1>1. /\ UNCHANGED <<route, round, message, calls, results, line, response, at, seen>>
        /\ phase = "listen" /\ route \in ApiRoutes /\ shown' = shown \o <<>>
        /\ phase' = "ended" /\ ending' = "final"
    BY RoutesApart DEF ApiFinal, Reading, FinalText, End
  <1>2. shown' = shown
    BY <1>1, ConcatEmptySeq DEF TurnInv, TurnTypes
  <1>3. TurnTypes'
    BY <1>1, <1>2, SameIds DEF TurnInv, TurnTypes, IsMemory, IsTransport, IsParser
  <1>4. CliInv' /\ StreamInv' /\ NoWordLost'
    BY <1>1, RoutesApart DEF CliInv, StreamInv, NoWordLost
  <1>5. LogInv' /\ LoopInv' /\ FreshInv'
    BY <1>1 DEF TurnInv, LogInv, LoopInv, FreshInv
  <1> QED BY <1>3, <1>4, <1>5 DEF TurnInv

LEMMA ApiCallsKeeps == ASSUME TurnInv, ApiCalls PROVE TurnInv'
  <1>1. /\ UNCHANGED <<route, response, at, seen>> /\ phase = "listen" /\ route \in ApiRoutes
    BY RoutesApart DEF ApiCalls, Reading
  <1>2. PICK batch \in Batches : line' = KeepsAssistant(batch) /\ ToolCallBatch(batch)
    BY DEF ApiCalls
  <1>3. IsTransport(line) /\ IsMemory(seen)
    BY DEF TurnInv, TurnTypes
  <1>4. /\ line'.assistant = batch /\ line'.parser = line.parser /\ IsTransport(line')
    BY <1>2, <1>3 DEF KeepsAssistant, IsTransport
  <1>5. IsTransport(line)' /\ IsMemory(seen)'
    BY <1>1, <1>3, <1>4, SameIds DEF IsTransport, IsMemory, IsParser
  <1>6. CliInv' /\ StreamInv'
    BY <1>1, RoutesApart DEF CliInv, StreamInv
  <1>7. seen'.log = <<>> /\ batch \in Seq(CallIds) /\ route \notin Streams
    BY <1>1, RoutesApart, TextsArePieces DEF TurnInv, LogInv
  <1> QED BY <1>1, <1>2, <1>4, <1>5, <1>6, <1>7, BatchKeeps

LEMMA ApiStepKeeps == ASSUME TurnInv, ApiStep PROVE TurnInv'
  <1>1. ASSUME ApiFails PROVE TurnInv'
    BY <1>1, EndsKeeps DEF ApiFails, Reading, Live, TurnInv, TurnTypes
  <1> QED BY <1>1, ApiTextKeeps, ApiFinalKeeps, ApiCallsKeeps DEF ApiStep

----------------------------------------------------------------------------
(* What the Claude CLI's stream says. *)
LEMMA StreamFailsKeeps ==
    ASSUME TurnInv, StreamOpen, NEW kind, StreamFails(kind) PROVE TurnInv'
  <1>1. /\ IsMemory(seen) /\ End("failed") /\ Live
        /\ UNCHANGED <<route, round, message, calls, results, line, response, at, shown>>
        /\ seen' = [seen EXCEPT !.heard = @ \cup {kind}]
    BY DEF StreamFails, StreamOpen, KeepsStream, Live, TurnInv, TurnTypes
  <1>2. /\ IsMemory(seen') /\ seen'.log = seen.log /\ seen.heard \subseteq seen'.heard
    BY <1>1 DEF IsMemory
  <1> QED BY <1>1, <1>2, EndsKeeps

(* Exactly a clean start is accepted. *)
LEMMA AcceptedIsClean ==
    ASSUME NEW surface \in Surfaces, NEW attached \in BOOLEAN,
           VerdictOf(surface, attached) = "accepted"
    PROVE  CleanSurface(surface, attached)
  BY DEF VerdictOf, CleanSurface, Surfaces

LEMMA StreamKeeps ==
    ASSUME TurnInv, StreamOpen, UNCHANGED <<route, round, message, calls, results, response, at>>,
           IsTransport(line'), IsMemory(seen'), seen'.log = seen.log,
           seen'.owed = seen.owed, seen'.sent = seen.sent, shown' \in Seq(Pieces),
           \/ phase' = "listen" /\ ending' = "none"
           \/ phase' = "ended" /\ ending' = "final",
           StreamInv'
    PROVE  TurnInv'
  <1>1. phase = "listen" /\ ending = "none" /\ route \in Streams
    BY DEF StreamOpen, TurnInv, TurnTypes
  <1>2. TurnTypes'
    <2>1. IsTransport(line)' /\ IsMemory(seen)'
      BY SameIds DEF IsMemory, IsTransport, IsParser
    <2> QED BY <1>1, <2>1, SameIds DEF TurnInv, TurnTypes
  <1>3. CliInv' /\ NoWordLost'
    BY <1>1, RoutesApart DEF CliInv, NoWordLost
  <1>4. LogInv' /\ FreshInv'
    BY <1>1 DEF TurnInv, LogInv, FreshInv
  <1>5. LoopInv'
    BY <1>1 DEF TurnInv, LoopInv
  <1> QED BY <1>2, <1>3, <1>4, <1>5 DEF TurnInv

LEMMA AnnouncementKeeps == ASSUME TurnInv, Announcement PROVE TurnInv'
  <1>1. StreamOpen /\ Judged /\ phase = "listen"
    BY DEF Announcement, StreamOpen
  <1>2. IsMemory(seen) /\ IsTransport(line) /\ shown \in Seq(Pieces) /\ ending = "none"
    BY <1>1 DEF TurnInv, TurnTypes
  <1>3. ASSUME NEW kind, StreamFails(kind) PROVE TurnInv'
    BY <1>1, <1>3, StreamFailsKeeps
  <1>4. ASSUME NEW surface \in Surfaces, VerdictOf(surface, line.attached) = "accepted",
               line' = [line EXCEPT !.announced = TRUE],
               seen' = [seen EXCEPT !.heard = @ \cup {"clean"}],
               UNCHANGED <<phase, ending, shown>>, KeepsStream
        PROVE  TurnInv'
    <2>1. /\ IsTransport(line') /\ IsMemory(seen') /\ seen'.log = seen.log
          /\ seen'.owed = seen.owed /\ seen'.sent = seen.sent
          /\ seen'.heard = seen.heard \cup {"clean"} /\ line'.result = line.result
      BY <1>2, <1>4 DEF IsTransport, IsMemory
    <2>2. StreamInv'
      BY <1>1, <1>2, <1>4, <2>1 DEF TurnInv, StreamInv, Judged, StreamOpen, KeepsStream
    <2> QED BY <1>1, <1>2, <1>4, <2>1, <2>2, StreamKeeps DEF KeepsStream
  <1>5. line.attached \in BOOLEAN
    BY <1>2 DEF IsTransport
  <1> QED BY <1>3, <1>4, <1>5, AcceptedIsClean DEF Announcement

LEMMA StreamStepKeeps == ASSUME TurnInv, StreamStep PROVE TurnInv'
  <1>1. StreamOpen /\ phase = "listen"
    BY DEF StreamStep, StreamOpen
  <1>2. CASE StreamFails("early")
    BY <1>1, <1>2, StreamFailsKeeps
  <1>3. CASE ~Unannounced /\ shown' = <<"word">> /\ UNCHANGED <<phase, ending, line, seen>>
             /\ KeepsStream
    <2>1. IsMemory(seen) /\ IsTransport(line) /\ ending = "none"
      BY <1>1 DEF TurnInv, TurnTypes
    <2>2. shown' \in Seq(Pieces)
      <3>1. "word" \in Pieces
        BY DEF Pieces
      <3> QED BY <1>3, <3>1
    <2>3. StreamInv'
      BY <1>1, <1>3 DEF TurnInv, StreamInv, Judged, Unannounced, StreamOpen, KeepsStream
    <2>4. IsMemory(seen') /\ IsTransport(line')
      BY <1>3, <2>1
    <2> QED BY <1>1, <1>3, <2>1, <2>2, <2>3, <2>4, StreamKeeps DEF KeepsStream
  <1> QED BY <1>2, <1>3 DEF StreamStep

LEMMA StreamResultKeeps == ASSUME TurnInv, StreamResult PROVE TurnInv'
  <1>1. StreamOpen /\ phase = "listen"
    BY DEF StreamResult, StreamOpen
  <1>2. CASE StreamFails("error_result")
    BY <1>1, <1>2, StreamFailsKeeps
  <1>3. CASE /\ line' = [line EXCEPT !.result = TRUE]
             /\ seen' = [seen EXCEPT !.heard = @ \cup {"result"}]
             /\ UNCHANGED <<phase, ending, shown>>
             /\ KeepsStream
    <2>1. IsMemory(seen) /\ IsTransport(line) /\ shown \in Seq(Pieces) /\ ending = "none"
      BY <1>1 DEF TurnInv, TurnTypes
    <2>2. /\ IsTransport(line') /\ IsMemory(seen') /\ seen'.log = seen.log
          /\ seen'.owed = seen.owed /\ seen'.sent = seen.sent
          /\ seen'.heard = seen.heard \cup {"result"} /\ line'.announced = line.announced
      BY <1>3, <2>1 DEF IsTransport, IsMemory
    <2>3. StreamInv'
      BY <1>1, <1>3, <2>1, <2>2 DEF TurnInv, StreamInv, Judged, StreamOpen, KeepsStream
    <2> QED BY <1>1, <1>3, <2>1, <2>2, <2>3, StreamKeeps DEF KeepsStream
  <1> QED BY <1>2, <1>3 DEF StreamResult

LEMMA StreamEndsKeeps == ASSUME TurnInv, StreamEnds PROVE TurnInv'
  <1>1. StreamOpen /\ phase = "listen" /\ UNCHANGED <<line, shown>> /\ KeepsStream
    BY DEF StreamEnds, StreamOpen
  <1>2. PICK sound \in BOOLEAN :
          /\ seen' = [seen EXCEPT !.sound = sound]
          /\ IF sound /\ line.result THEN End("final") ELSE End("failed")
    BY DEF StreamEnds
  <1>3. IsMemory(seen) /\ IsTransport(line) /\ shown \in Seq(Pieces) /\ ending = "none"
    BY <1>1 DEF TurnInv, TurnTypes
  <1>4. /\ IsMemory(seen') /\ seen'.log = seen.log /\ seen'.heard = seen.heard
        /\ seen'.owed = seen.owed /\ seen'.sent = seen.sent /\ seen'.sound = sound
    BY <1>2, <1>3 DEF IsMemory
  <1>5. CASE End("failed")
    BY <1>1, <1>4, <1>5, EndsKeeps DEF KeepsStream, Live
  <1>6. CASE sound /\ line.result /\ End("final")
    <2>1. phase' = "ended" /\ ending' = "final"
      BY <1>6 DEF End
    <2>2. StreamInv'
      BY <1>1, <1>4, <1>6, <2>1 DEF TurnInv, StreamInv, Judged, StreamOpen, KeepsStream
    <2>3. IsTransport(line') /\ shown' \in Seq(Pieces)
      BY <1>1, <1>3
    <2> QED BY <1>1, <1>4, <2>1, <2>2, <2>3, StreamKeeps DEF KeepsStream
  <1> QED BY <1>2, <1>5, <1>6

----------------------------------------------------------------------------
LEMMA StandsStill == ASSUME TurnInv, UNCHANGED turnVars PROVE TurnInv'
  <1>1. UNCHANGED <<route, phase, ending, round, message, calls, results, line, response, at,
                    shown, seen>>
    BY DEF turnVars
  <1>2. TurnTypes'
    BY <1>1, SameIds DEF TurnInv, TurnTypes, IsMemory, IsTransport, IsParser
  <1>3. CliInv'
    BY <1>1 DEF TurnInv, CliInv, ListenInv, Counts, AtTools
  <1>4. StreamInv'
    BY <1>1 DEF TurnInv, StreamInv, Judged
  <1>5. LogInv' /\ LoopInv' /\ FreshInv'
    BY <1>1 DEF TurnInv, LogInv, Answered, NextCall, LoopInv, FreshInv
  <1>6. NoWordLost'
    BY <1>1 DEF TurnInv, NoWordLost, Said
  <1> QED BY <1>2, <1>3, <1>4, <1>5, <1>6 DEF TurnInv

LEMMA TurnKeeps == TurnInv /\ [TurnNext]_turnVars => TurnInv'
  <1> SUFFICES ASSUME TurnInv, [TurnNext]_turnVars PROVE TurnInv'
    OBVIOUS
  <1>1. ASSUME LoopStep PROVE TurnInv'
    BY <1>1, AskCliKeeps, AskApiKeeps, AnnounceKeeps, ExecuteKeeps, SendResultsKeeps
       DEF LoopStep
  <1>2. ASSUME AskFails \/ HostLeaves PROVE TurnInv'
    BY <1>2, EndsKeeps DEF AskFails, HostLeaves, Live, TurnInv, TurnTypes
  <1>3. ASSUME StreamLine PROVE TurnInv'
    BY <1>3, AnnouncementKeeps, StreamStepKeeps, StreamResultKeeps, StreamFailsKeeps
       DEF StreamLine, StreamBreaks
  <1> QED BY <1>1, <1>2, <1>3, StartTurnKeeps, CliStepKeeps, CliOutcomeKeeps, ApiStepKeeps,
             StreamEndsKeeps, StandsStill DEF TurnNext, Over

LEMMA TurnInvariance == TurnSpec => []TurnInv
  BY InitKeeps, TurnKeeps, PTL DEF TurnSpec

----------------------------------------------------------------------------
(* A tool runs and an answer stands only on a round that was sound to its    *)
(* end: whatever order the three parts of the verdict arrive in, and however *)
(* often a session is resumed (codex/transport.py, grok/transport.py); and a *)
(* judged Claude run shows nothing before a clean start (cli_run.py).        *)
THEOREM OnlySoundRoundsAct == TurnSpec => []OnlySoundRunsAct
  <1>1. ASSUME TurnInv PROVE OnlySoundRunsAct
    <2>1. ASSUME route \in {"codex", "grok"}, AtTools \/ ending \in {"final", "limit"}
          PROVE  /\ seen.sound /\ "end" \in seen.heard
                 /\ seen.heard \subseteq {"thread", "text", "end"}
                 /\ Cardinality(seen.named) = 1
      <3>1. seen.sound /\ Counts(line.session)
        BY <1>1, <2>1 DEF TurnInv, CliInv
      <3>2. Cardinality(seen.named) = 1
        BY <3>1, FS_Singleton DEF Counts
      <3> QED BY <3>1, <3>2 DEF Counts
    <2>2. ASSUME route \in Streams, ending = "final"
          PROVE  seen.sound /\ "result" \in seen.heard
      BY <1>1, <2>2 DEF TurnInv, StreamInv
    <2>3. Judged => /\ shown # <<>> => "clean" \in seen.heard
                    /\ ending = "final" => "dirty" \notin seen.heard
      BY <1>1, RoutesApart DEF TurnInv, StreamInv, Judged
    <2> QED BY <2>1, <2>2, <2>3 DEF OnlySoundRunsAct
  <1> QED BY <1>1, TurnInvariance, PTL

(* The host hears of every call of a batch before it runs and of its result  *)
(* right after, in the batch's order, and the next request carries exactly   *)
(* these results (run_tool_loop), for batches of any length and any number   *)
(* of rounds.                                                                *)
THEOREM CallsAreAnsweredInOrder == TurnSpec => []CallsAnsweredInOrder
  <1>1. ASSUME TurnInv PROVE CallsAnsweredInOrder
    <2>1. seen.log \in Seq(Entries) /\ results \in Seq(CallIds \X BOOLEAN)
      BY <1>1 DEF TurnInv, TurnTypes, IsMemory
    <2>2. ASSUME NEW i \in DOMAIN seen.log
          PROVE  /\ seen.log[i][1] = <<"call", "ran", "result">>[((i - 1) % 3) + 1]
                 /\ seen.log[i][2] = calls[((i - 1) \div 3) + 1]
      <3>1. i \in 1 .. Len(seen.log) /\ Len(results) \in Nat
        BY <2>1, <2>2
      <3>2. seen.log # <<>>
        BY <2>2, <3>1
      <3>3. Answered
        BY <1>1, <3>2 DEF TurnInv, LogInv
      <3>4. \/ i =< 3 * Len(results)
            \/ i = 3 * Len(results) + 1 /\ seen.log[i] = <<"call", NextCall>>
        BY <1>1, <3>1, <3>2 DEF TurnInv, LogInv
      <3> DEFINE k == (i - 1) \div 3
                 r == (i - 1) % 3
      <3>5. k \in Nat /\ r \in 0 .. 2 /\ i - 1 = 3 * k + r
        <4>1. \A m \in Nat : m \div 3 \in Nat
          OBVIOUS
        <4>2. \A m \in Nat : m % 3 \in 0 .. 2
          OBVIOUS
        <4>3. \A m \in Nat : m = 3 * (m \div 3) + (m % 3)
          OBVIOUS
        <4>4. i - 1 \in Nat
          BY <3>1
        <4> QED BY <4>1, <4>2, <4>3, <4>4
      <3>6. (i - 1) % 3 = r /\ (i - 1) \div 3 = k
        OBVIOUS
      <3> HIDE DEF k, r
      <3>7. CASE i =< 3 * Len(results)
        <4>1. k + 1 \in 1 .. Len(results)
          BY <3>1, <3>5, <3>7
        <4>2. /\ seen.log[3 * (k + 1) - 2] = <<"call", calls[k + 1]>>
              /\ seen.log[3 * (k + 1) - 1] = <<"ran", calls[k + 1]>>
              /\ seen.log[3 * (k + 1)] = <<"result", calls[k + 1], results[k + 1][2]>>
          BY <3>3, <4>1 DEF Answered
        <4>3. CASE r = 0
          <5>1. i = 3 * (k + 1) - 2
            BY <3>1, <3>5, <4>3
          <5> QED BY <3>6, <4>2, <4>3, <5>1
        <4>4. CASE r = 1
          <5>1. i = 3 * (k + 1) - 1
            BY <3>1, <3>5, <4>4
          <5> QED BY <3>6, <4>2, <4>4, <5>1
        <4>5. CASE r = 2
          <5>1. i = 3 * (k + 1)
            BY <3>1, <3>5, <4>5
          <5> QED BY <3>6, <4>2, <4>5, <5>1
        <4> QED BY <3>5, <4>3, <4>4, <4>5
      <3>8. CASE i = 3 * Len(results) + 1 /\ seen.log[i] = <<"call", NextCall>>
        <4>1. k = Len(results) /\ r = 0
          BY <3>1, <3>5, <3>8
        <4> QED BY <3>6, <3>8, <4>1 DEF NextCall
      <3> QED BY <3>4, <3>7, <3>8
    <2>3. phase = "listen" =>
             /\ seen.owed = [i \in DOMAIN seen.sent.results |->
                                <<"result", seen.sent.results[i][1], seen.sent.results[i][2]>>]
             /\ seen.sent.calls = [i \in DOMAIN seen.sent.results |-> seen.sent.results[i][1]]
      BY <1>1 DEF TurnInv, LoopInv
    <2> QED BY <2>2, <2>3 DEF CallsAnsweredInOrder
  <1> QED BY <1>1, TurnInvariance, PTL

(* Before the final text the parser holds back what may become a call; then   *)
(* no call was in the answer.                                                 *)
HoldInv ==
    route \in {"codex", "grok"} =>
        /\ ending # "final" => Holding(line.parser, shown, Said)
        /\ ending = "final" => OpeningStarts(Said, FALSE, <<>>) = {}

LEMMA InitHolds == TurnInit => HoldInv
  <1> SUFFICES ASSUME TurnInit PROVE HoldInv
    OBVIOUS
  <1>1. line.parser = NewParser /\ shown = <<>> /\ ending = "none"
    BY DEF TurnInit, FreshLine
  <1>2. Said = <<>>
    BY SubSeqEmpty DEF Said, TurnInit
  <1> QED BY <1>1, <1>2, NewParserHolds DEF HoldInv

(* A step that leaves the parser and the texts alone.                         *)
LEMMA SameHolds ==
    ASSUME HoldInv, UNCHANGED <<route, response, at, shown>>, line'.parser = line.parser,
           ending # "final", ending' # "final"
    PROVE  HoldInv'
  BY DEF HoldInv, Said

(* A request starts with a new parser.                                        *)
LEMMA AskHolds == ASSUME TurnInv, AskCli PROVE HoldInv'
  <1>1. line'.parser = NewParser /\ shown' = <<>> /\ ending' # "final"
    BY DEF AskCli, NextRoundLine, TurnInv, TurnTypes, IsTransport
  <1>2. Said' = <<>>
    BY SubSeqEmpty DEF Said, AskCli
  <1> QED BY <1>1, <1>2, NewParserHolds DEF HoldInv

(* The next chunk goes through the parser.                                    *)
LEMMA HearsTextHolds ==
    ASSUME TurnInv, HoldInv, route \in {"codex", "grok"}, phase = "listen", HearsText
    PROVE  HoldInv'
  <1>0. PICK n \in 1 .. Len(response) - at :
          LET f == Feed(line.parser, SubSeq(response, at + 1, at + n))
          IN /\ line' = [line EXCEPT !.parser = f.parser]
             /\ shown' = shown \o f.out
             /\ at' = at + n
    BY DEF HearsText
  <1>1. PICK fed :
          /\ fed = Feed(line.parser, SubSeq(response, at + 1, at + n))
          /\ line' = [line EXCEPT !.parser = fed.parser]
          /\ shown' = shown \o fed.out
          /\ at' = at + n
    BY <1>0
  <1>2. UNCHANGED <<route, ending, response>>
    BY DEF HearsText, KeepsTurn
  <1>3. /\ response \in Seq(Pieces) /\ at \in 0 .. Len(response) /\ shown \in Seq(Pieces)
        /\ IsTransport(line) /\ ending = "none" /\ Len(response) \in Nat
    BY DEF TurnInv, TurnTypes
  <1>4. at + n \in at .. Len(response)
    BY <1>3
  <1>5. PICK was, chunk \in Seq(Pieces) :
          /\ was = SubSeq(response, 1, at) /\ chunk = SubSeq(response, at + 1, at + n)
          /\ Cat(was, chunk) = SubSeq(response, 1, at + n)
    <2>1. /\ SubSeq(response, 1, at) \in Seq(Pieces)
          /\ SubSeq(response, at + 1, at + n) \in Seq(Pieces)
          /\ Cat(SubSeq(response, 1, at), SubSeq(response, at + 1, at + n))
                = SubSeq(response, 1, at + n)
      BY <1>3, <1>4, Adjacent
    <2> QED BY <2>1
  <1>6. PICK held \in Seq(Pieces) : held = line.parser.candidate
    BY <1>3 DEF IsTransport, IsParser
  <1>7. Cat(shown, held) = was
    BY <1>3, <1>5, <1>6 DEF TurnInv, NoWordLost, Said, Cat
  <1>8. Holding(line.parser, shown, Cat(shown, line.parser.candidate))
    BY <1>3, <1>5, <1>6, <1>7 DEF HoldInv, Said
  <1>9. Holding(fed.parser, Cat(shown, fed.out), Cat(shown, Cat(held, chunk)))
    BY <1>1, <1>3, <1>5, <1>6, <1>8, FeedHolds DEF IsTransport
  <1>10. Cat(shown, Cat(held, chunk)) = Cat(was, chunk)
    BY <1>3, <1>7, CatAssociative
  <1>11. Said' = Cat(was, chunk) /\ shown' = Cat(shown, fed.out) /\ line'.parser = fed.parser
    BY <1>1, <1>2, <1>3, <1>5 DEF Said, Cat, IsTransport
  <1> QED BY <1>2, <1>3, <1>9, <1>10, <1>11 DEF HoldInv

(* The final text is shown only if no call was begun.                         *)
LEMMA FinishRoundHolds ==
    ASSUME TurnInv, HoldInv, route \in {"codex", "grok"}, phase = "listen",
           NEW isSound, NEW sound, NEW session, FinishRound(isSound, sound, session)
    PROVE  HoldInv'
  <1>1. ending = "none" /\ IsTransport(line) /\ UNCHANGED <<route, response, at>>
    BY DEF TurnInv, TurnTypes, FinishRound
  <1>2. [line EXCEPT !.session = session].parser = line.parser
    BY <1>1 DEF IsTransport
  <1>3. ASSUME NEW how \in {"failed", "refused"}, End(how), UNCHANGED <<line, shown>>
        PROVE  HoldInv'
    BY <1>1, <1>3, SameHolds DEF End
  <1>4. ASSUME Finish(line.parser).kind = "text", FinalText(Finish(line.parser).text)
        PROVE  HoldInv'
    <2>1. \A buffer : StreamedCall(buffer).kind # "text"
      BY DEF StreamedCall, Refused
    <2>2. ~line.parser.inCall
      BY <1>4, <2>1 DEF Finish
    <2>3. OpeningStarts(Said, FALSE, <<>>) = {}
      BY <1>1, <2>2 DEF HoldInv, Holding
    <2> QED BY <1>1, <1>4, <2>3 DEF FinalText, End, HoldInv, Said
  <1>5. ASSUME line' = [line EXCEPT !.session = session], ToolCallBatch(<<round + 1>>)
        PROVE  HoldInv'
    <2>1. shown' = shown /\ ending' # "final"
      BY <1>1, <1>5 DEF ToolCallBatch, End
    <2> QED BY <1>1, <1>2, <1>5, <2>1, SameHolds
  <1> QED BY <1>3, <1>4, <1>5 DEF FinishRound

LEMMA CliHolds == ASSUME TurnInv, HoldInv, CliStep \/ CliOutcome PROVE HoldInv'
  <1>1. ending = "none" /\ IsTransport(line)
    BY DEF TurnInv, TurnTypes, CliStep, CliOutcome, CodexThread, CodexMessage, CodexError,
           CodexForbidden, CodexCompleted, GrokText, GrokError, GrokForbidden, GrokEnd,
           CodexOutcome, GrokOutcome, Hearing, Listening
  <1>2. ASSUME CodexMessage \/ GrokText PROVE HoldInv'
    BY <1>2, HearsTextHolds DEF CodexMessage, GrokText, Hearing, Listening
  <1>3. ASSUME CodexOutcome \/ GrokOutcome PROVE HoldInv'
    BY <1>3, FinishRoundHolds DEF CodexOutcome, GrokOutcome, Listening
  <1>4. ASSUME NEW kind, Breaks(kind) PROVE HoldInv'
    BY <1>1, <1>4, SameHolds DEF Breaks, End, LineKept, KeepsTurn
  <1>5. ASSUME HearsError PROVE HoldInv'
    <2>1. line'.parser = line.parser
      BY <1>1, <1>5 DEF HearsError, IsTransport
    <2> QED BY <1>1, <1>5, <2>1, SameHolds DEF HearsError, KeepsTurn
  <1>6. ASSUME CodexThread PROVE HoldInv'
    <2>1. PICK id \in Sessions :
            \/ Breaks("foreign_thread")
            \/ /\ line' = [line EXCEPT !.received = id]
               /\ UNCHANGED <<phase, ending, at, shown>> /\ KeepsTurn
      BY <1>6 DEF CodexThread
    <2>2. [line EXCEPT !.received = id].parser = line.parser
      BY <1>1 DEF IsTransport
    <2> QED BY <1>1, <1>4, <2>1, <2>2, SameHolds DEF KeepsTurn
  <1>7. ASSUME CodexCompleted PROVE HoldInv'
    <2>1. line'.parser = line.parser
      BY <1>1, <1>7 DEF CodexCompleted, IsTransport
    <2> QED BY <1>1, <1>7, <2>1, SameHolds DEF CodexCompleted, KeepsTurn
  <1>8. ASSUME GrokEnd PROVE HoldInv'
    <2>1. line'.parser = line.parser
      BY <1>1, <1>8 DEF GrokEnd, IsTransport
    <2> QED BY <1>1, <1>8, <2>1, SameHolds DEF GrokEnd, KeepsTurn
  <1>9. ASSUME CodexForbidden \/ GrokForbidden PROVE HoldInv'
    BY <1>4, <1>9 DEF CodexForbidden, GrokForbidden
  <1> QED BY <1>2, <1>3, <1>5, <1>6, <1>7, <1>8, <1>9
          DEF CliStep, CliOutcome, CodexError, GrokError

(* What the other routes do, and what ends or goes on without a chunk.        *)
LEMMA OthersHold ==
    ASSUME TurnInv, HoldInv, TurnNext, ~(AskCli \/ CliStep \/ CliOutcome) PROVE HoldInv'
  <1>1. ASSUME ApiStep \/ StreamLine \/ StreamEnds \/ AskApi PROVE HoldInv'
    <2>1. route' = route /\ route \notin {"codex", "grok"}
      BY <1>1, RoutesApart
         DEF ApiStep, ApiText, ApiFails, ApiFinal, ApiCalls, Reading, AskApi, StreamLine,
             Announcement, StreamStep, StreamResult, StreamBreaks, StreamEnds, StreamOpen,
             KeepsStream, StreamFails
    <2> QED BY <2>1 DEF HoldInv
  <1>2. ASSUME StartTurn \/ AnnounceCall \/ ExecuteTool \/ SendResults \/ AskFails \/ HostLeaves
        PROVE  HoldInv'
    <2>1. ending = "none"
      BY <1>2 DEF TurnInv, TurnTypes, StartTurn, AnnounceCall, ExecuteTool, SendResults,
                  AskFails, HostLeaves, Live
    <2>2. UNCHANGED <<route, response, at, shown, line>> /\ ending' # "final"
      BY <1>2, <2>1 DEF StartTurn, AnnounceCall, ExecuteTool, SendResults, AskFails,
                        HostLeaves, End
    <2> QED BY <2>1, <2>2, SameHolds
  <1>3. ASSUME Over PROVE HoldInv'
    BY <1>3 DEF Over, turnVars, HoldInv, Said
  <1> QED BY <1>1, <1>2, <1>3 DEF TurnNext, LoopStep

LEMMA HoldInvariance == TurnSpec => []HoldInv
  <1>1. TurnInv /\ HoldInv /\ [TurnNext]_turnVars => HoldInv'
    <2>1. ASSUME HoldInv, UNCHANGED turnVars PROVE HoldInv'
      BY <2>1 DEF turnVars, HoldInv, Said
    <2> QED BY <2>1, AskHolds, CliHolds, OthersHold
  <1> QED BY <1>1, InitHolds, TurnInvariance, PTL DEF TurnSpec

(* Every piece the transport has read is shown once, in order, or still held *)
(* back, and none from a call's opening line on is ever shown, for any answers *)
(* and however they are cut (TextToolStreamParser).                           *)
THEOREM EveryWordIsShownOnce == TurnSpec => []EveryWordOnce
  <1>1. TurnInv /\ HoldInv => EveryWordOnce
    <2> SUFFICES ASSUME TurnInv, HoldInv PROVE EveryWordOnce
      OBVIOUS
    <2>1. ASSUME route \in {"codex", "grok"}, NEW i \in OpeningStarts(Said, FALSE, <<>>)
          PROVE  Len(shown) < i
      <3>1. CASE ending = "final"
        BY <2>1, <3>1 DEF HoldInv
      <3>2. CASE ending # "final"
        BY <2>1, <3>2 DEF HoldInv, Holding, Settled, MayBegin
      <3> QED BY <3>1, <3>2
    <2> QED BY <2>1 DEF EveryWordOnce, TurnInv
  <1> QED BY <1>1, TurnInvariance, HoldInvariance, PTL

=============================================================================

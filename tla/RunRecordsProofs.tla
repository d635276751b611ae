--------------------------- MODULE RunRecordsProofs ---------------------------
(***************************************************************************)
(* Proofs about RunRecords for any number of runs and owners, any limits   *)
(* and any steps of the wall clock.                                        *)
(***************************************************************************)
EXTENDS RunRecords, FiniteSetTheorems, WellFoundedInduction, TLAPS

Entries == [at : 0..MaxClock, no : Nat, run : Runs]

RunsOf(entries) == {e.run : e \in entries}

(* The completion numbers, which order entries of one clock reading. *)
Numbered ==
    /\ \A e \in ended : e.no < count
    /\ \A d, e \in ended : d.no = e.no => d = e

(* Every count stands for a record that ended, which had begun. *)
Counted ==
    /\ count = Cardinality({r \in Runs : ending[r] # None})
    /\ \A r \in Runs : owner[r] = Nobody => ending[r] = None

IInv == IndexMatchesStore /\ IsFiniteSet(ended) /\ Numbered /\ Counted

LEMMA NaturalsHaveAFirst ==
    ASSUME NEW S \in SUBSET Nat, S # {} PROVE \E m \in S : \A k \in S : m =< k
  <1> DEFINE R == OpToRel(<, Nat)
  <1>1. PICK m \in S : \A k \in S : <<k, m>> \notin R
    <2>1. IsWellFoundedOn(R, Nat)
      BY NatLessThanWellFounded
    <2> HIDE DEF R
    <2> QED BY <2>1, WFMin
  <1>2. R = {pair \in Nat \X Nat : pair[1] < pair[2]}
    BY DEF OpToRel
  <1>3. ASSUME NEW k \in S PROVE ~(k < m)
    <2>1. <<k, m>> \in Nat \X Nat /\ <<k, m>>[1] = k /\ <<k, m>>[2] = m
      OBVIOUS
    <2> HIDE DEF R
    <2> QED BY <1>1, <1>2, <2>1
  <1> QED BY <1>3

(* Entries of different numbers have a first one. *)
LEMMA FirstIsFirst ==
    ASSUME NEW entries \in SUBSET Entries, entries # {},
           \A d, e \in entries : d.no = e.no => d = e
    PROVE  First(entries) \in entries
  <1>1. PICK at \in {e.at : e \in entries} : \A other \in {e.at : e \in entries} : at =< other
    <2>1. {e.at : e \in entries} # {} /\ {e.at : e \in entries} \subseteq Nat
      BY RunRecordsAssumption DEF Entries
    <2> QED BY <2>1, NaturalsHaveAFirst
  <1> DEFINE earliest == {e \in entries : e.at = at}
  <1>2. PICK no \in {e.no : e \in earliest} : \A other \in {e.no : e \in earliest} : no =< other
    <2>1. {e.no : e \in earliest} # {} /\ {e.no : e \in earliest} \subseteq Nat
      BY <1>1 DEF Entries
    <2> QED BY <2>1, NaturalsHaveAFirst
  <1>3. PICK e \in earliest : e.no = no
    BY <1>2
  <1>4. ASSUME NEW d \in entries \ {e} PROVE Before(e, d)
    <2>1. e.at \in Nat /\ d.at \in Nat /\ e.no \in Nat /\ d.no \in Nat /\ e.at = at /\ at =< d.at
      BY <1>1, RunRecordsAssumption DEF Entries
    <2>2. CASE d.at = at
      BY <1>2, <1>3, <2>1, <2>2 DEF Before
    <2>3. CASE d.at # at
      BY <2>1, <2>3 DEF Before
    <2> QED BY <2>2, <2>3
  <1> QED BY <1>3, <1>4 DEF First

(* Too many by one is within the limit again after one pop. *)
LEMMA LimitHolds ==
    ASSUME NEW entries \in SUBSET Entries, IsFiniteSet(entries),
           Cardinality(entries) =< MaxEnded + 1,
           \A d, e \in entries : d.no = e.no => d = e
    PROVE  /\ WithinLimit(entries) \subseteq entries
           /\ Cardinality(WithinLimit(entries)) =< MaxEnded
  <1>0. MaxEnded \in Nat /\ Cardinality(entries) \in Nat
    BY RunRecordsAssumption, FS_CardinalityType
  <1>1. CASE Cardinality(entries) > MaxEnded
    <2>1. entries # {}
      BY <1>0, <1>1, FS_EmptySet
    <2>2. First(entries) \in entries
      BY <2>1, FirstIsFirst
    <2>3. Cardinality(entries \ {First(entries)}) = Cardinality(entries) - 1
      BY <2>2, FS_RemoveElement
    <2> QED BY <1>0, <1>1, <2>3 DEF WithinLimit
  <1>2. CASE ~(Cardinality(entries) > MaxEnded)
    BY <1>0, <1>2 DEF WithinLimit
  <1> QED BY <1>1, <1>2

LEMMA PurgedFacts ==
    ASSUME IInv
    PROVE  /\ Purged \subseteq ended /\ IsFiniteSet(Purged)
           /\ Cardinality(Purged) =< Cardinality(ended)
  BY FS_Subset DEF IInv, Purged

LEMMA IInvInit == Init => IInv
  <1> SUFFICES ASSUME Init PROVE IInv
    OBVIOUS
  <1>1. Cardinality({}) = 0 /\ IsFiniteSet({}) /\ Cardinality(Runs) \in Nat
    BY FS_EmptySet, FS_CardinalityType, RunRecordsAssumption
  <1>2. TypeOK
    BY <1>1, RunRecordsAssumption DEF Init, TypeOK, NotFound
  <1>3. {r \in Runs : ending[r] # None} = {}
    BY DEF Init
  <1> QED
    BY <1>1, <1>2, <1>3, RunRecordsAssumption
       DEF Init, IInv, IndexMatchesStore, Numbered, Counted, Open

-----------------------------------------------------------------------------
(* Some entries and their records go, and a run may begin. *)
LEMMA EntriesGo ==
    ASSUME IInv, TypeOK', NEW fresh \in SUBSET Runs,
           ended' = Purged, ending' = ending, count' = count,
           known' = (known \ (RunsOf(ended) \ RunsOf(Purged))) \cup fresh,
           \A r \in fresh : owner[r] = Nobody,
           \A r \in Runs \ fresh : owner'[r] = owner[r],
           \A r \in fresh : owner'[r] # Nobody
    PROVE  IInv'
  <1> USE PurgedFacts DEF IInv, RunsOf
  <1>1. \A e \in ended : e \in Entries
    BY DEF IndexMatchesStore, TypeOK, Entries
  <1>2. \A r \in Runs : Open(r)' => r \in known'
    <2> SUFFICES ASSUME NEW r \in Runs, Open(r)', r \notin fresh PROVE r \in known'
      OBVIOUS
    <2>1. Open(r)
      BY DEF Open
    <2>2. r \in known /\ r \notin {e.run : e \in ended}
      BY <2>1 DEF IndexMatchesStore, Open
    <2> QED BY <2>2
  <1>3. {r \in known' : ending'[r] # None} = {e.run : e \in ended'}
    <2>1. \A r \in fresh : ending[r] = None
      BY DEF Counted
    <2>2. {r \in known' : ending'[r] # None}
            = {r \in known : ending[r] # None} \ ({e.run : e \in ended} \ {e.run : e \in Purged})
      BY <2>1
    <2>3. {r \in known : ending[r] # None} = {e.run : e \in ended}
      BY DEF IndexMatchesStore
    <2>4. {e.run : e \in Purged} \subseteq {e.run : e \in ended}
      OBVIOUS
    <2> QED BY <2>2, <2>3, <2>4
  <1>4. \A d, e \in ended' : d.run = e.run => d = e
    BY DEF IndexMatchesStore
  <1>5. IsFiniteSet(ended') /\ Cardinality(ended') <= MaxEnded
    BY FS_CardinalityType, RunRecordsAssumption DEF IndexMatchesStore
  <1>6. Numbered'
    BY DEF Numbered
  <1>7. Counted'
    BY DEF Counted
  <1> QED BY <1>2, <1>3, <1>4, <1>5, <1>6, <1>7 DEF IndexMatchesStore

LEMMA NoAnswerTyped ==
    NotFound \in [run : Runs \cup {None}, reader : Owners \cup {Nobody},
                  state : Endings \cup {None}]
  BY DEF NotFound

LEMMA BeginStep ==
    ASSUME IInv, NEW r \in Runs, NEW o \in Owners, Begin(r, o) PROVE IInv'
  <1>1. TypeOK'
    BY NoAnswerTyped DEF IInv, IndexMatchesStore, TypeOK, Begin, NoAnswer, Purged
  <1>2. known' = (known \ (RunsOf(ended) \ RunsOf(Purged))) \cup {r}
    <2>1. {e.run : e \in ended \ Purged} = RunsOf(ended) \ RunsOf(Purged)
      BY PurgedFacts DEF IInv, IndexMatchesStore, RunsOf
    <2> QED BY <2>1 DEF Begin
  <1>3. owner' = [owner EXCEPT ![r] = o] /\ owner \in [Runs -> Owners \cup {Nobody}]
        /\ o # Nobody /\ owner[r] = Nobody
    BY RunRecordsAssumption DEF Begin, IInv, IndexMatchesStore, TypeOK
  <1>4. /\ \A s \in {r} : owner[s] = Nobody /\ owner'[s] # Nobody
        /\ \A s \in Runs \ {r} : owner'[s] = owner[s]
    BY <1>3
  <1>5. ended' = Purged /\ ending' = ending /\ count' = count
    BY DEF Begin
  <1>6. {r} \in SUBSET Runs
    OBVIOUS
  <1>7. /\ \A s \in {r} : owner[s] = Nobody
        /\ \A s \in {r} : owner'[s] # Nobody
        /\ \A s \in Runs \ {r} : owner'[s] = owner[s]
    BY <1>4
  <1> QED BY <1>1, <1>2, <1>5, <1>6, <1>7, EntriesGo, Zenon

LEMMA LookStep ==
    ASSUME IInv, NEW r \in Runs,
           \/ Accept(r)
           \/ \E o \in Owners : Read(r, o)
           \/ \E reason \in Losses : Lose(r, reason)
    PROVE  IInv'
  <1>0. /\ ended' = Purged /\ ending' = ending /\ count' = count /\ owner' = owner
        /\ known' = (known \ (RunsOf(ended) \ RunsOf(Purged))) \cup {}
        /\ now' = now
    BY DEF Accept, Read, Lose, Hold, RunsOf
  <1>a. /\ {} \in SUBSET Runs /\ \A s \in {} : owner[s] = Nobody
        /\ \A s \in {} : owner'[s] # Nobody
        /\ \A s \in Runs \ {} : owner'[s] = owner[s]
    BY <1>0
  <1>1. TypeOK
    BY DEF IInv, IndexMatchesStore
  <1>2. CASE Accept(r)
    <2>1. TypeOK'
      BY <1>0, <1>1, <1>2, NoAnswerTyped, PurgedFacts DEF TypeOK, Accept, NoAnswer
    <2> QED BY <1>0, <1>a, <2>1, EntriesGo, Zenon
  <1>3. ASSUME NEW o \in Owners, Read(r, o) PROVE IInv'
    <2>1. answer' \in [run : Runs \cup {None}, reader : Owners \cup {Nobody},
                       state : Endings \cup {None}]
      BY <1>1, <1>3, NoAnswerTyped DEF Read, TypeOK
    <2>2. TypeOK'
      BY <1>0, <1>1, <1>3, <2>1, PurgedFacts DEF TypeOK, Read
    <2> QED BY <1>0, <1>a, <2>2, EntriesGo, Zenon
  <1>4. ASSUME NEW reason \in Losses, Lose(r, reason) PROVE IInv'
    <2>1. lost' \in [Runs -> Losses \cup {None}]
      BY <1>1, <1>4 DEF Lose, TypeOK
    <2>2. TypeOK'
      BY <1>0, <1>1, <1>4, <2>1, NoAnswerTyped, PurgedFacts DEF TypeOK, Lose, NoAnswer
    <2> QED BY <1>0, <1>a, <2>2, EntriesGo, Zenon
  <1> QED BY <1>2, <1>3, <1>4

(* The ended run's entry has a number of its own, and the first entry leaves *)
(* when there is one too many: possibly the new one, after a step back.      *)
LEMMA FinishStep ==
    ASSUME IInv, NEW r \in Runs, Finish(r) PROVE IInv'
  <1> DEFINE entry == [at |-> now, no |-> count, run |-> r]
             pushed == Purged \cup {entry}
             kept == WithinLimit(pushed)
  <1>1. PICK code \in Endings : ending' = [ending EXCEPT ![r] = code]
    BY DEF Finish, IInv, IndexMatchesStore, TypeOK, Endings
  <1>2. /\ Open(r) /\ ended' = kept /\ count' = count + 1
        /\ known' = (known \ RunsOf(ended \cup pushed)) \cup RunsOf(kept)
        /\ UNCHANGED <<now, owner, pending, lost>> /\ answer' = NotFound
    BY DEF Finish, NoAnswer, RunsOf
  <1>3. TypeOK /\ IndexMatchesStore /\ Numbered /\ Counted /\ IsFiniteSet(ended)
    BY DEF IInv, IndexMatchesStore
  <1>4. count \in Nat /\ code # None
    BY <1>3, RunRecordsAssumption, FS_CardinalityType DEF TypeOK, Endings, None
  <1>5. /\ pushed \in SUBSET Entries /\ entry \in Entries
        /\ \A d, e \in pushed : d.no = e.no => d = e
        /\ \A d, e \in pushed : d.run = e.run => d = e
        /\ \A e \in pushed : e.no < count + 1
    <2>1. entry \in Entries /\ ended \subseteq Entries
      BY <1>3, <1>4 DEF TypeOK, Entries
    <2>2. \A e \in Purged : e \in ended /\ e.no < count /\ e.no \in Nat /\ e.run # r
      <3>1. r \notin RunsOf(ended)
        BY <1>2, <1>3 DEF IndexMatchesStore, Open, RunsOf
      <3> QED BY <1>3, <2>1, <3>1 DEF Purged, Numbered, RunsOf, Entries
    <2> QED BY <1>3, <1>4, <2>1, <2>2 DEF Numbered, IndexMatchesStore
  <1>6. IsFiniteSet(pushed) /\ Cardinality(pushed) =< MaxEnded + 1
    <2>1. IsFiniteSet(Purged) /\ Cardinality(Purged) =< MaxEnded
      BY <1>3, PurgedFacts, FS_CardinalityType, RunRecordsAssumption DEF IndexMatchesStore, IInv
    <2>2. Cardinality(Purged) \in Nat /\ MaxEnded \in Nat
      BY <2>1, FS_CardinalityType, RunRecordsAssumption
    <2> HIDE DEF entry
    <2>3. IsFiniteSet(pushed) /\ Cardinality(pushed) \in {Cardinality(Purged),
                                                        Cardinality(Purged) + 1}
      BY <2>1, FS_AddElement
    <2> QED BY <2>1, <2>2, <2>3
  <1>7. kept \subseteq pushed /\ Cardinality(kept) =< MaxEnded /\ IsFiniteSet(kept)
    <2>1. kept \subseteq pushed /\ Cardinality(kept) =< MaxEnded
      BY <1>5, <1>6, LimitHolds
    <2> QED BY <1>6, <2>1, FS_Subset
  <1>8. /\ ending' \in [Runs -> Endings \cup {None}] /\ ending'[r] = code
        /\ \A s \in Runs \ {r} : ending'[s] = ending[s]
    BY <1>1, <1>3 DEF TypeOK
  <1>9. Counted'
    <2> DEFINE over == {s \in Runs : ending[s] # None}
               overNow == {s \in Runs : ending'[s] # None}
    <2>1. overNow = over \cup {r} /\ r \notin over
      BY <1>2, <1>4, <1>8 DEF Open
    <2>2. IsFiniteSet(over)
      BY RunRecordsAssumption, FS_Subset
    <2>3. Cardinality(over \cup {r}) = Cardinality(over) + 1
      BY <2>1, <2>2, FS_AddElement
    <2>4. \A s \in Runs : owner'[s] = Nobody => ending'[s] = None
      BY <1>2, <1>3, <1>8 DEF Counted, Open
    <2>5. count = Cardinality(over)
      BY <1>3 DEF Counted
    <2>6. count' = Cardinality(overNow)
      <3> HIDE DEF over, overNow
      <3> QED BY <1>2, <2>1, <2>3, <2>5
    <2> QED BY <2>4, <2>6 DEF Counted
  <1>10. TypeOK'
    <2>1. count' \in 0..Cardinality(Runs)
      <3>1. Cardinality({s \in Runs : ending'[s] # None}) =< Cardinality(Runs)
        BY RunRecordsAssumption, FS_Subset
      <3> QED BY <1>2, <1>4, <1>9, <3>1, FS_CardinalityType, RunRecordsAssumption DEF Counted
    <2>2. kept \subseteq Entries /\ known' \subseteq Runs
      <3>1. kept \subseteq Entries
        BY <1>5, <1>7
      <3> HIDE DEF kept, pushed
      <3>2. RunsOf(kept) \subseteq Runs
        BY <3>1 DEF RunsOf, Entries
      <3> QED BY <1>2, <1>3, <3>1, <3>2 DEF TypeOK
    <2> QED BY <1>2, <1>3, <1>8, <2>1, <2>2, NoAnswerTyped DEF TypeOK, Entries
  <1>11. \A s \in Runs : Open(s)' => s \in known'
    <2> SUFFICES ASSUME NEW s \in Runs, Open(s)' PROVE s \in known'
      OBVIOUS
    <2>1. s # r /\ Open(s)
      BY <1>2, <1>4, <1>8 DEF Open
    <2>2. s \in known /\ s \notin RunsOf(ended)
      BY <1>3, <2>1 DEF IndexMatchesStore, Open, RunsOf
    <2>3. s \notin RunsOf(ended \cup pushed)
      BY <2>1, <2>2 DEF RunsOf, Purged
    <2> QED BY <1>2, <2>2, <2>3
  <1>12. {s \in known' : ending'[s] # None} = RunsOf(ended')
    <2>1. RunsOf(kept) \subseteq RunsOf(ended) \cup {r}
      BY <1>7 DEF RunsOf, Purged
    <2>2. {s \in known : ending[s] # None} = RunsOf(ended)
      BY <1>3 DEF IndexMatchesStore, RunsOf
    <2>3. RunsOf(ended \cup pushed) = RunsOf(ended) \cup {r}
      <3>1. entry \in pushed /\ entry.run = r
        OBVIOUS
      <3>2. \A e \in pushed : e \in ended \/ e = entry
        BY DEF Purged
      <3> HIDE DEF pushed, entry
      <3> QED BY <3>1, <3>2 DEF RunsOf
    <2>4. known \subseteq Runs
      BY <1>3 DEF TypeOK
    <2> HIDE DEF kept, pushed
    <2> QED BY <1>2, <1>4, <1>8, <2>1, <2>2, <2>3, <2>4
  <1>13. Numbered'
    BY <1>2, <1>5, <1>7 DEF Numbered
  <1>14. \A d, e \in ended' : d.run = e.run => d = e
    BY <1>2, <1>5, <1>7
  <1> QED
    BY <1>2, <1>7, <1>9, <1>10, <1>11, <1>12, <1>13, <1>14 DEF IInv, IndexMatchesStore, RunsOf

LEMMA IInvStep == IInv /\ [Next]_vars => IInv'
  <1>1. ASSUME IInv, UNCHANGED vars PROVE IInv'
    BY <1>1 DEF vars, IInv, IndexMatchesStore, TypeOK, Numbered, Counted, Open
  <1>2. ASSUME IInv, ClockMoves PROVE IInv'
    <2>1. TypeOK'
      BY <1>2, NoAnswerTyped DEF IInv, IndexMatchesStore, TypeOK, ClockMoves, NoAnswer
    <2> QED BY <1>2, <2>1 DEF ClockMoves, IInv, IndexMatchesStore, Numbered, Counted, Open
  <1> QED BY <1>1, <1>2, BeginStep, LookStep, FinishStep DEF Next

LEMMA Invariance == Spec => []IInv
  BY IInvInit, IInvStep, PTL DEF Spec

-----------------------------------------------------------------------------
(* A run is never forgotten while it runs, and the heap has one entry for    *)
(* each ended record that is held, at most MaxEnded, whatever the clock      *)
(* shows when _purge and _finish run.                                        *)
THEOREM IndexAgreesWithStore == Spec => []IndexMatchesStore
  <1>1. IInv => IndexMatchesStore
    BY DEF IInv
  <1> QED BY <1>1, Invariance, PTL

(* read answers the owner alone, after its purge, and what it said of an     *)
(* ending or a loss is said forever: _finish and _lose set each once.        *)
THEOREM ReadsTellTheTruth == Spec => AnswersAreTrue
  <1> DEFINE Truthful ==
               /\ answer' # NotFound =>
                    /\ answer'.reader = owner[answer'.run]
                    /\ \A e \in ended : e.run = answer'.run => now - e.at < Retention
               /\ \A r \in Runs : /\ ending[r] # None => ending'[r] = ending[r]
                                  /\ lost[r] # None => lost'[r] = lost[r]
  <1>1. ASSUME IInv, NEW r \in Runs, NEW o \in Owners, Read(r, o) PROVE Truthful
    <2>1. UNCHANGED <<ending, lost>>
      BY <1>1 DEF Read
    <2>2. ASSUME answer' # NotFound
          PROVE  /\ answer'.reader = owner[answer'.run]
                 /\ \A e \in ended : e.run = answer'.run => now - e.at < Retention
      <3>1. answer'.run = r /\ answer'.reader = o /\ owner[r] = o /\ r \in known'
        BY <1>1, <2>2 DEF Read
      <3>2. ASSUME NEW e \in ended, e.run = r PROVE e \in Purged
        <4>1. r \in RunsOf(Purged)
          BY <1>1, <3>1, <3>2 DEF Read, Hold, RunsOf
        <4>2. PICK d \in Purged : d.run = r
          BY <4>1 DEF RunsOf
        <4> QED BY <1>1, <3>2, <4>2 DEF Purged, IInv, IndexMatchesStore
      <3> QED BY <3>1, <3>2 DEF Purged
    <2> QED BY <2>1, <2>2
  <1>2. ASSUME IInv, NEW r \in Runs, Finish(r) PROVE Truthful
    BY <1>2 DEF Finish, Open, NoAnswer, IInv, IndexMatchesStore, TypeOK
  <1>3. ASSUME IInv, NEW r \in Runs, NEW reason \in Losses, Lose(r, reason) PROVE Truthful
    BY <1>3 DEF Lose, NoAnswer, IInv, IndexMatchesStore, TypeOK
  <1>4. ASSUME IInv, NEW r \in Runs, Accept(r) \/ \E o \in Owners : Begin(r, o)
        PROVE  Truthful
    BY <1>4 DEF Accept, Begin, NoAnswer
  <1>5. ASSUME ClockMoves PROVE Truthful
    BY <1>5 DEF ClockMoves, NoAnswer
  <1>6. IInv /\ [Next]_vars => [Truthful]_vars
    BY <1>1, <1>2, <1>3, <1>4, <1>5 DEF Next
  <1> QED BY <1>6, Invariance, PTL DEF Spec, AnswersAreTrue

=============================================================================

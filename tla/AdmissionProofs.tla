--------------------------- MODULE AdmissionProofs ---------------------------
(***************************************************************************)
(* Proofs about Admission for any number of requests, places and lost      *)
(* groups.                                                                 *)
(***************************************************************************)
EXTENDS Admission, FiniteSetTheorems, TLAPS

(* Where each run's place is: its own lease holds it from the admission to  *)
(* the end of its record, the quarantine's lease while its task asks, and   *)
(* what the task no longer asks about is gone.                              *)
Life(r) ==
    /\ runner[r] = "active" => stage[r] = "streaming"
    /\ stage[r] \in {"new", "busy", "refused", "admitted"} => runner[r] = "none"
    /\ runner[r] # "closed" => met[r] = {}
    /\ RunLease(r) \in holders <=> stage[r] \in {"admitted", "streaming"}
    /\ QuarantineLease(r) \in holders <=> retry[r] \in {"waiting", "asking"}
    /\ stage[r] \notin {"over", "left"} => retry[r] = "none"
    /\ retry[r] = "none" => /\ unconfirmed[r] = {}
                            /\ met[r] # {} => stage[r] = "streaming"
    /\ retry[r] # "none" => met[r] \ unconfirmed[r] \subseteq gone
    /\ retry[r] = "done" => unconfirmed[r] = {}

IInv == TypeOK /\ \A r \in Runs : Life(r)

(* A step of run r leaves what belongs to any other run as it is. *)
Elsewhere(r) ==
    /\ gone \subseteq gone'
    /\ \A s \in Runs \ {r} :
         /\ stage'[s] = stage[s] /\ runner'[s] = runner[s] /\ met'[s] = met[s]
         /\ retry'[s] = retry[s] /\ unconfirmed'[s] = unconfirmed[s]
         /\ RunLease(s) \in holders' <=> RunLease(s) \in holders
         /\ QuarantineLease(s) \in holders' <=> QuarantineLease(s) \in holders

LEMMA ElsewhereKeepsLife ==
    ASSUME NEW r \in Runs, NEW s \in Runs \ {r}, Life(s), Elsewhere(r)
    PROVE  Life(s)'
  BY DEF Life, Elsewhere, RunLease, QuarantineLease

LEMMA DistinctLeases ==
    \A r, s \in Runs : /\ RunLease(r) # QuarantineLease(s)
                       /\ r # s => /\ RunLease(r) # RunLease(s)
                                   /\ QuarantineLease(r) # QuarantineLease(s)
  BY DEF RunLease, QuarantineLease

LEMMA IInvInit == Init => IInv
  BY DEF Init, IInv, TypeOK, Life, Leases, Groups, RunLease, QuarantineLease

(* One run's step keeps the types and its own life, and leaves the others. *)
LEMMA RunStep ==
    ASSUME NEW r \in Runs, IInv,
           \/ Serve(r) \/ Respond(r) \/ CloseRunner(r) \/ Ask(r) \/ Retry(r)
    PROVE  TypeOK' /\ Life(r)' /\ Elsewhere(r)
  <1> USE DEF IInv, Elsewhere
  <1>0. RunLease(r) \in Leases /\ QuarantineLease(r) \in Leases
    BY DEF RunLease, QuarantineLease, Leases
  <1>a. Life(r) /\ TypeOK
    OBVIOUS
  <1>1. CASE Busy(r) \/ Refuse(r)
    BY <1>1, <1>a DEF Busy, Refuse, TypeOK, Life, RunLease, QuarantineLease
  <1>2. CASE Admit(r)
    <2>1. TypeOK'
      BY <1>0, <1>2, <1>a DEF Admit, TypeOK
    <2>2. Life(r)'
      BY <1>2, <1>a, DistinctLeases DEF Admit, TypeOK, Life, RunLease, QuarantineLease
    <2>3. Elsewhere(r)
      BY <1>2, <1>a, DistinctLeases DEF Admit, TypeOK
    <2> QED BY <2>1, <2>2, <2>3
  <1>3. CASE BeginFrames(r)
    BY <1>3, <1>a DEF BeginFrames, TypeOK, Life, RunLease, QuarantineLease
  <1>4. CASE CloseRunner(r)
    <2>1. PICK lostGroups \in SUBSET GroupsOf(r) : met' = [met EXCEPT ![r] = lostGroups]
      BY <1>4 DEF CloseRunner
    <2>2. lostGroups \in SUBSET Groups
      BY DEF GroupsOf
    <2>3. stage[r] = "streaming" /\ retry[r] = "none" /\ unconfirmed[r] = {} /\ toAsk[r] = {}
      BY <1>4, <1>a DEF CloseRunner, Life, TypeOK
    <2>4. TypeOK'
      BY <1>4, <1>a, <2>1, <2>2, <2>3 DEF CloseRunner, TypeOK
    <2>5. Life(r)'
      BY <1>4, <1>a, <2>1, <2>3 DEF CloseRunner, TypeOK, Life, RunLease, QuarantineLease
    <2>6. Elsewhere(r)
      BY <1>4, <1>a, <2>1 DEF CloseRunner, TypeOK
    <2> QED BY <2>4, <2>5, <2>6
  <1>5. CASE RunOver(r)
    <2>1. stage[r] = "streaming" /\ retry[r] = "none" /\ unconfirmed[r] = {}
          /\ RunLease(r) \in holders /\ QuarantineLease(r) \notin holders
      BY <1>5, <1>a DEF RunOver, Life
    <2>2. holders' = IF met[r] = {} THEN holders \ {RunLease(r)}
                     ELSE (holders \ {RunLease(r)}) \cup {QuarantineLease(r)}
      BY <1>5, <2>1, DistinctLeases DEF RunOver, Freed, Transferred
    <2>3. /\ stage' = [stage EXCEPT ![r] = "over"]
          /\ retry' = IF met[r] = {} THEN retry ELSE [retry EXCEPT ![r] = "waiting"]
          /\ unconfirmed' = [unconfirmed EXCEPT ![r] = met[r]]
          /\ UNCHANGED <<runner, met, gone, toAsk>>
      BY <1>5, <1>a, <2>1 DEF RunOver, TypeOK
    <2>4. TypeOK'
      BY <1>0, <1>a, <2>1, <2>2, <2>3 DEF TypeOK
    <2>5. Life(r)'
      <3>1. stage'[r] = "over" /\ runner'[r] = "closed" /\ met'[r] = met[r] /\ gone' = gone
            /\ unconfirmed'[r] = met[r]
            /\ retry'[r] = IF met[r] = {} THEN "none" ELSE "waiting"
        BY <1>5, <1>a, <2>1, <2>3 DEF TypeOK, RunOver
      <3>2. RunLease(r) \notin holders'
            /\ (QuarantineLease(r) \in holders' <=> met[r] # {})
        BY <2>1, <2>2, DistinctLeases
      <3> QED BY <3>1, <3>2 DEF Life, RunLease, QuarantineLease
    <2>6. Elsewhere(r)
      BY <1>a, <2>2, <2>3, DistinctLeases DEF TypeOK
    <2> QED BY <2>4, <2>5, <2>6
  <1>6. CASE ResponseLeaves(r)
    <2>1. TypeOK'
      BY <1>6, <1>a DEF ResponseLeaves, TypeOK, Freed
    <2>2. Life(r)'
      BY <1>6, <1>a, DistinctLeases
         DEF ResponseLeaves, TypeOK, Life, Freed, RunLease, QuarantineLease
    <2>3. Elsewhere(r)
      BY <1>6, <1>a, DistinctLeases DEF ResponseLeaves, TypeOK, Freed
    <2> QED BY <2>1, <2>2, <2>3
  <1>7. ASSUME NEW g \in GroupsOf(r), Confirmed(r, g) PROVE TypeOK' /\ Life(r)' /\ Elsewhere(r)
    BY <1>7, <1>a DEF Confirmed, TypeOK, Life, RunLease, QuarantineLease
  <1>8. ASSUME NEW g \in GroupsOf(r), NotConfirmed(r, g) PROVE TypeOK' /\ Life(r)' /\ Elsewhere(r)
    BY <1>8, <1>a DEF NotConfirmed, TypeOK, Life, RunLease, QuarantineLease
  <1>9. CASE RetryDue(r)
    BY <1>9, <1>a DEF RetryDue, TypeOK, Life, RunLease, QuarantineLease
  <1>10. CASE RoundEnds(r)
    <2>1. TypeOK'
      BY <1>10, <1>a DEF RoundEnds, TypeOK, Freed
    <2>2. Life(r)'
      BY <1>10, <1>a, DistinctLeases
         DEF RoundEnds, TypeOK, Life, Freed, RunLease, QuarantineLease
    <2>3. Elsewhere(r)
      BY <1>10, <1>a, DistinctLeases DEF RoundEnds, TypeOK, Freed
    <2> QED BY <2>1, <2>2, <2>3
  <1> QED
    BY <1>1, <1>2, <1>3, <1>4, <1>5, <1>6, <1>7, <1>8, <1>9, <1>10
       DEF Serve, Respond, Ask, Retry

LEMMA IInvStep == IInv /\ [Next]_vars => IInv'
  <1>1. ASSUME NEW r \in Runs, IInv,
               Serve(r) \/ Respond(r) \/ CloseRunner(r) \/ Ask(r) \/ Retry(r)
        PROVE  IInv'
    <2>1. TypeOK' /\ Life(r)' /\ Elsewhere(r)
      BY <1>1, RunStep
    <2>2. \A s \in Runs \ {r} : Life(s)'
      BY <1>1, <2>1, ElsewhereKeepsLife DEF IInv
    <2> QED BY <2>1, <2>2 DEF IInv
  <1>2. ASSUME NEW g \in Groups, IInv, GroupGoes(g) PROVE IInv'
    <2>1. TypeOK'
      BY <1>2 DEF IInv, GroupGoes, TypeOK
    <2>2. \A s \in Runs : Life(s)'
      BY <1>2 DEF IInv, GroupGoes, Life, RunLease, QuarantineLease
    <2> QED BY <2>1, <2>2 DEF IInv
  <1>3. IInv /\ UNCHANGED vars => IInv'
    BY DEF IInv, TypeOK, Life, vars, RunLease, QuarantineLease
  <1> QED BY <1>1, <1>2, <1>3 DEF Next, Over

LEMMA Invariance == Spec => []IInv
  BY IInvInit, IInvStep, PTL DEF Spec

(* The types of the state, for any number of requests, places and groups:   *)
(* each round of the quarantine asks only for groups it has not confirmed.  *)
THEOREM TypeCorrect == Spec => []TypeOK
  <1>1. IInv => TypeOK
    BY DEF IInv
  <1> QED BY <1>1, Invariance, PTL

(* No step of any request, response or quarantine task frees the place of a *)
(* run whose runner is open or whose lost group may still have members.     *)
THEOREM RunsInUseHoldPlaces == Spec => []InUseHoldsPlace
  <1>1. ASSUME IInv, NEW r \in Runs, InUse(r)
        PROVE  {RunLease(r), QuarantineLease(r)} \cap holders # {}
    BY <1>1 DEF IInv, Life, InUse, TypeOK
  <1>2. IInv => InUseHoldsPlace
    BY <1>1 DEF InUseHoldsPlace
  <1> QED BY <1>2, Invariance, PTL

-----------------------------------------------------------------------------
(* The slot never has more holders than places. *)
Bounded == IsFiniteSet(holders) /\ Cardinality(holders) <= Places

LEMMA OneMore ==
    ASSUME NEW S, IsFiniteSet(S), NEW x
    PROVE  /\ IsFiniteSet(S \cup {x})
           /\ Cardinality(S) \in Nat /\ Cardinality(S \cup {x}) \in Nat
           /\ Cardinality(S \cup {x}) <= Cardinality(S) + 1
  <1>1. IsFiniteSet(S \cup {x})
        /\ Cardinality(S \cup {x}) = IF x \in S THEN Cardinality(S) ELSE Cardinality(S) + 1
    BY FS_AddElement
  <1>2. Cardinality(S) \in Nat /\ Cardinality(S \cup {x}) \in Nat
    BY <1>1, FS_CardinalityType
  <1> QED BY <1>1, <1>2

LEMMA RemovingKeepsBound ==
    ASSUME Bounded, NEW lease
    PROVE  /\ IsFiniteSet(holders \ {lease})
           /\ Cardinality(holders \ {lease}) <= Places
           /\ lease \in holders => Cardinality(holders \ {lease}) < Places
  <1>1. IsFiniteSet(holders) /\ Cardinality(holders) <= Places
    BY DEF Bounded
  <1>2. IsFiniteSet(holders \ {lease})
        /\ Cardinality(holders \ {lease}) =
             IF lease \in holders THEN Cardinality(holders) - 1 ELSE Cardinality(holders)
    BY <1>1, FS_RemoveElement
  <1>3. Cardinality(holders) \in Nat /\ Places \in Nat
    BY <1>1, FS_CardinalityType, AdmissionAssumption
  <1> QED BY <1>1, <1>2, <1>3

LEMMA BoundedStep == Bounded /\ [Next]_vars => Bounded'
  <1>1. ASSUME Bounded, NEW r \in Runs, Admit(r) PROVE Bounded'
    <2>1. IsFiniteSet(holders) /\ holders' = holders \cup {RunLease(r)}
      BY <1>1 DEF Admit, Bounded
    <2>2. /\ IsFiniteSet(holders')
          /\ Cardinality(holders) \in Nat /\ Cardinality(holders') \in Nat
          /\ Cardinality(holders') <= Cardinality(holders) + 1
      BY <2>1, OneMore
    <2>3. Cardinality(holders) < Places
      BY <1>1, <2>2, AdmissionAssumption DEF Admit, Full
    <2> QED BY <2>2, <2>3, AdmissionAssumption DEF Bounded
  <1>2. ASSUME Bounded, NEW r \in Runs, RunOver(r) PROVE Bounded'
    <2> DEFINE Kept == holders \ {RunLease(r)}
    <2>1. IsFiniteSet(Kept) /\ Cardinality(Kept) <= Places
          /\ (RunLease(r) \in holders => Cardinality(Kept) < Places)
      BY <1>2, RemovingKeepsBound
    <2>2. \/ holders' = Kept
          \/ RunLease(r) \in holders /\ holders' = Kept \cup {QuarantineLease(r)}
      BY <1>2, DistinctLeases DEF RunOver, Freed, Transferred
    <2>3. IsFiniteSet(Kept \cup {QuarantineLease(r)})
          /\ Cardinality(Kept \cup {QuarantineLease(r)}) <= Cardinality(Kept) + 1
          /\ Cardinality(Kept) \in Nat /\ Cardinality(Kept \cup {QuarantineLease(r)}) \in Nat
      BY <2>1, OneMore
    <2> HIDE DEF Kept
    <2>4. Places \in Nat
      BY AdmissionAssumption
    <2>5. CASE holders' = Kept
      BY <2>1, <2>5 DEF Bounded
    <2>6. CASE RunLease(r) \in holders /\ holders' = Kept \cup {QuarantineLease(r)}
      BY <2>1, <2>3, <2>4, <2>6 DEF Bounded
    <2> QED BY <2>2, <2>5, <2>6
  <1>3. ASSUME Bounded, NEW r \in Runs, ResponseLeaves(r) \/ RoundEnds(r) PROVE Bounded'
    <2>1. holders' \in {holders, holders \ {RunLease(r)}, holders \ {QuarantineLease(r)}}
      BY <1>3 DEF ResponseLeaves, RoundEnds, Freed
    <2> QED BY <1>3, <2>1, RemovingKeepsBound DEF Bounded
  <1>4. ASSUME Bounded, UNCHANGED holders PROVE Bounded'
    BY <1>4 DEF Bounded
  <1>5. ASSUME NEW r \in Runs,
               Busy(r) \/ Refuse(r) \/ BeginFrames(r) \/ CloseRunner(r) \/ Ask(r) \/ RetryDue(r)
        PROVE  UNCHANGED holders
    BY <1>5 DEF Busy, Refuse, BeginFrames, CloseRunner, Ask, Confirmed, NotConfirmed, RetryDue
  <1>6. ASSUME NEW g \in Groups, GroupGoes(g) PROVE UNCHANGED holders
    BY <1>6 DEF GroupGoes
  <1>7. UNCHANGED vars => UNCHANGED holders
    BY DEF vars
  <1> QED BY <1>1, <1>2, <1>3, <1>4, <1>5, <1>6, <1>7 DEF Next, Serve, Respond, Retry, Over

(* At most Places runs use the subscription, those with lost groups         *)
(* included: each run in use has a lease of its own among the holders.      *)
THEOREM UseStaysBounded == Spec => []UseIsBounded
  <1>1. Init => Bounded
    BY FS_EmptySet, AdmissionAssumption DEF Init, Bounded
  <1>2. ASSUME IInv, Bounded PROVE UseIsBounded
    <2> DEFINE Users == {r \in Runs : InUse(r)}
               lease == [r \in Users |-> IF RunLease(r) \in holders THEN RunLease(r)
                                         ELSE QuarantineLease(r)]
    <2>1. \A r \in Users : lease[r] \in holders
      BY <1>2 DEF IInv, Life, InUse, TypeOK
    <2>2. \A r, s \in Users : lease[r] = lease[s] => r = s
      BY DistinctLeases
    <2>3. lease \in Injection(Users, holders)
      BY <2>1, <2>2 DEF Injection, IsInjective
    <2> HIDE DEF lease, Users
    <2>4. Cardinality(Users) <= Cardinality(holders)
          /\ Cardinality(Users) \in Nat /\ Cardinality(holders) \in Nat
      BY <1>2, <2>3, FS_Injection, FS_CardinalityType DEF Bounded
    <2>5. Cardinality(Users) <= Places
      BY <1>2, <2>4, AdmissionAssumption DEF Bounded
    <2> QED BY <2>5 DEF UseIsBounded, Users
  <1> QED BY <1>1, <1>2, BoundedStep, Invariance, PTL DEF Spec
==============================================================================

--------------------------- MODULE LostGroupsProofs ---------------------------
(***************************************************************************)
(* Proofs about LostGroups for any number of turns, callers and places.    *)
(***************************************************************************)
EXTENDS LostGroups, FiniteSetTheorems, TLAPS

Attends(c, t) == caller[c] # "idle" /\ target[c] = {t}

Types ==
    /\ leader \in [Turns -> {"none", "running", "doomed", "zombie", "reaped"}]
    /\ members \in [Turns -> {"none", "alive", "doomed"}]
    /\ reapedBy \in [Turns -> {"nobody", "handle", "elsewhere"}]
    /\ status \in [Turns -> {"none", "RUNNING", "EXITED", "RELEASED", "LOST"}]
    /\ watcher \in [Turns -> {"none", "waiting", "saw_exit", "saw_loss", "saw_stop",
                              "consuming", "ended"}]
    /\ published \in [Turns -> {"no", "announced", "set"}]
    /\ worker \in [Turns -> {"idle", "kill", "count", "over"}]
    /\ census \in [Turns -> {"none", "raised"} \cup AnyCount]
    /\ turn \in [Turns -> {"new", "opened", "reserved", "killing", "reaping", "rolled_back",
                           "body", "sigterm", "grace", "kill", "counting", "exit", "over"}]
    /\ holders \in [Turns -> Int]
    /\ caller \in [Callers -> {"idle", "asking", "counted", "slot"}]
    /\ target \in [Callers -> SUBSET Turns]
    /\ hasCode \subseteq Turns /\ homes \subseteq Turns /\ openPipes \subseteq Turns
    /\ entries \subseteq Turns /\ leaderReleased \subseteq Turns
    /\ reservations \subseteq Turns /\ Cardinality(reservations) <= PoolLimit

(* Nothing of a turn's child exists. *)
Untouched(t) ==
    /\ leader[t] = "none" /\ members[t] = "none" /\ reapedBy[t] = "nobody"
    /\ status[t] = "none" /\ watcher[t] = "none" /\ worker[t] = "idle" /\ census[t] = "none"
    /\ t \notin entries /\ t \notin leaderReleased /\ t \notin openPipes

(* Nothing of a turn's child is left that could hurt: a rolled-back start    *)
(* killed the group, any other end counted it empty before the reap.         *)
Finished(t) ==
    /\ leader[t] = "reaped" /\ t \notin openPipes /\ worker[t] = "idle"
    /\ census[t] = "none" => members[t] # "alive"
    /\ census[t] # "none" => members[t] = "none" /\ reapedBy[t] = "handle"
    /\ t \in entries => t \in leaderReleased

Starting == {"new", "opened", "reserved"}
RollingBack == {"killing", "reaping", "rolled_back"}
Alive == {"body", "sigterm", "grace", "kill", "counting", "exit"}

(* The handle against the kernel: who reaped, what an empty count says, and   *)
(* that nobody uses the number once the handle gave it up.                    *)
HandleInv(t) ==
    /\ reapedBy[t] = "nobody" <=> leader[t] # "reaped"
    /\ census[t] = "empty" /\ reapedBy[t] # "elsewhere" =>
          members[t] = "none" /\ leader[t] \in {"zombie", "reaped"}
    /\ status[t] = "EXITED" => watcher[t] = "ended"
    /\ reapedBy[t] = "handle" =>
          status[t] \notin Anchored /\ watcher[t] = "ended" /\ worker[t] # "count"

(* What a turn's stage says of its child and of its place. *)
StageInv(t) ==
    /\ turn[t] \in Starting => leader[t] = "none"
    /\ leader[t] = "none" => Untouched(t) /\ turn[t] \in Starting \cup {"over"}
    /\ turn[t] = "new" => t \notin homes /\ t \notin reservations
    /\ turn[t] = "opened" => t \in homes /\ t \notin reservations
    /\ turn[t] \in {"reserved"} \cup RollingBack \cup Alive => t \in homes /\ t \in reservations
    /\ turn[t] \in RollingBack => /\ watcher[t] = "ended" /\ worker[t] = "idle"
                                  /\ census[t] = "none"
    /\ turn[t] \in {"reaping", "rolled_back"} => leader[t] # "running" /\ members[t] # "alive"
    /\ turn[t] = "rolled_back" => leader[t] = "reaped"
    /\ turn[t] \in Alive => reapedBy[t] # "handle" /\ (turn[t] = "counting" \/ worker[t] = "idle")
    /\ turn[t] = "exit" => census[t] = "empty"

(* What a turn that is over has left: a place held under a name, or a child  *)
(* that is finished.                                                          *)
PlaceInv(t) ==
    /\ turn[t] # "over" => t \notin entries /\ t \notin leaderReleased
    /\ t \in entries /\ t \notin leaderReleased =>
          reapedBy[t] # "handle" /\ t \in homes /\ t \in reservations
    /\ t \in leaderReleased => Finished(t) /\ (t \in entries \/ t \notin reservations)
    /\ turn[t] = "over" /\ leader[t] # "none" /\ (t \notin reservations \/ t \notin homes)
          => Finished(t)
    /\ turn[t] = "over" /\ (t \in reservations \/ t \in homes) => t \in entries

(* One attempt at a time, held by its call, its worker, or both. *)
AttemptInv(t) ==
    /\ \A c, d \in Callers : Attends(c, t) /\ Attends(d, t) => c = d
    /\ holders[t] = (IF \E c \in Callers : Attends(c, t) THEN 1 ELSE 0)
                      + (IF t \in entries /\ worker[t] # "idle" THEN 1 ELSE 0)
    /\ \A c \in Callers : Attends(c, t) =>
          /\ t \in entries
          /\ caller[c] = "slot" <=> t \in leaderReleased
          /\ caller[c] = "asking" <=> worker[t] # "idle"

TurnInv(t) == HandleInv(t) /\ StageInv(t) /\ PlaceInv(t) /\ AttemptInv(t)

IInv == Types /\ \A t \in Turns : TurnInv(t)

(* A step is another turn's if it leaves what belongs to turn u alone. *)
Same(u) ==
    /\ leader'[u] = leader[u] /\ members'[u] = members[u] /\ reapedBy'[u] = reapedBy[u]
    /\ status'[u] = status[u] /\ watcher'[u] = watcher[u] /\ worker'[u] = worker[u]
    /\ census'[u] = census[u] /\ turn'[u] = turn[u] /\ holders'[u] = holders[u]
    /\ u \in openPipes' <=> u \in openPipes
    /\ u \in reservations' <=> u \in reservations
    /\ u \in homes' <=> u \in homes
    /\ u \in entries' <=> u \in entries
    /\ u \in leaderReleased' <=> u \in leaderReleased
    /\ \A c \in Callers : /\ Attends(c, u)' <=> Attends(c, u)
                          /\ Attends(c, u) => caller'[c] = caller[c]

Apart(t) == \A u \in Turns \ {t} : Same(u)

LEMMA SameKeeps ==
    ASSUME NEW u \in Turns, TurnInv(u), Same(u) PROVE TurnInv(u)'
  <1>1. HandleInv(u)'
    BY DEF TurnInv, Same, HandleInv
  <1>2. StageInv(u)'
    BY DEF TurnInv, Same, StageInv, Untouched
  <1>3. PlaceInv(u)'
    BY DEF TurnInv, Same, PlaceInv, Finished
  <1>4. AttemptInv(u)'
    <2>1. (\E c \in Callers : Attends(c, u)') <=> (\E c \in Callers : Attends(c, u))
      BY DEF Same
    <2> QED BY <2>1 DEF TurnInv, Same, AttemptInv
  <1> QED BY <1>1, <1>2, <1>3, <1>4 DEF TurnInv

(* The attempts of a turn depend on little of it. *)
LEMMA SameAttempts ==
    ASSUME NEW t \in Turns, AttemptInv(t), UNCHANGED <<caller, target, holders>>,
           t \in entries' <=> t \in entries,
           t \in leaderReleased' <=> t \in leaderReleased,
           worker'[t] = "idle" <=> worker[t] = "idle"
    PROVE  AttemptInv(t)'
  <1>1. \A c \in Callers : Attends(c, t)' <=> Attends(c, t)
    BY DEF Attends
  <1>2. (\E c \in Callers : Attends(c, t)') <=> (\E c \in Callers : Attends(c, t))
    BY <1>1
  <1> QED BY <1>1, <1>2 DEF AttemptInv

LEMMA IInvInit == Init => IInv
  <1> SUFFICES ASSUME Init PROVE IInv
    OBVIOUS
  <1>1. Types
    BY FS_EmptySet, PoolAssumption DEF Init, Types, AnyCount
  <1>2. ASSUME NEW t \in Turns PROVE TurnInv(t)
    BY <1>2 DEF Init, TurnInv, HandleInv, StageInv, PlaceInv, AttemptInv, Untouched, Finished,
                Attends, Starting, RollingBack, Alive, Anchored
  <1> QED BY <1>1, <1>2 DEF IInv

-----------------------------------------------------------------------------
(* The kernel and the threads of the handle. *)
LEMMA ProcessesStep ==
    ASSUME IInv, NEW t \in Turns, ProcessesAct(t)
    PROVE  Types' /\ TurnInv(t)' /\ Apart(t)
  <1>0. Types /\ TurnInv(t)
    BY DEF IInv
  <1>a. /\ UNCHANGED <<turn, openPipes, reservations, homes, entries, leaderReleased, holders,
                       caller, target, status, hasCode, published, watcher, worker, census>>
        /\ LeaderExits(t) \/ MembersCome(t) \/ MembersGo(t) \/ ReapedElsewhere(t)
    BY DEF ProcessesAct, KernelActs, placeVars, lostVars, callerVars, handleVars
  <1> USE DEF LeaderExits, MembersCome, MembersGo, ReapedElsewhere
  <1>1. Types'
    BY <1>0, <1>a DEF Types
  <1>2. HandleInv(t)'
    BY <1>0, <1>a DEF Types, TurnInv, HandleInv, StageInv, Untouched
  <1>3. StageInv(t)'
    BY <1>0, <1>a DEF Types, TurnInv, StageInv, Untouched, RollingBack, Alive
  <1>4. PlaceInv(t)'
    BY <1>0, <1>a DEF Types, TurnInv, PlaceInv, Finished, StageInv, Untouched
  <1>5. AttemptInv(t)'
    BY <1>0, <1>a, SameAttempts DEF TurnInv
  <1>6. Apart(t)
    BY <1>0, <1>a DEF Types, Apart, Same, Attends
  <1> QED BY <1>1, <1>2, <1>3, <1>4, <1>5, <1>6 DEF TurnInv

LEMMA AppliedTypes ==
    ASSUME Types, NEW t \in Turns, NEW event \in {"exited", "reaped", "gone"}, Applied(t, event)
    PROVE  /\ status' \in [Turns -> {"none", "RUNNING", "EXITED", "RELEASED", "LOST"}]
           /\ hasCode' \subseteq Turns
           /\ status'[t] = Advance(status[t], event)
           /\ \A u \in Turns \ {t} : status'[u] = status[u]
  BY DEF Types, Applied, Advance, Anchored

LEMMA AnnouncedTypes ==
    ASSUME Types, NEW t \in Turns, NEW event \in {"exited", "reaped", "gone"},
           Announced(t, event)
    PROVE  published' \in [Turns -> {"no", "announced", "set"}]
  BY DEF Types, Announced

LEMMA ThreadsStep ==
    ASSUME IInv, NEW t \in Turns, ThreadsAct(t)
    PROVE  Types' /\ TurnInv(t)' /\ Apart(t)
  <1>0. Types /\ TurnInv(t)
    BY DEF IInv
  <1>a. UNCHANGED <<turn, openPipes, reservations, homes, entries, leaderReleased, holders,
                    caller, target>>
    BY DEF ThreadsAct, placeVars, lostVars, callerVars
  <1>1. CASE WatcherWaits(t) \/ WatcherReadsState(t) \/ WatcherConsumes(t) \/ ExitPublished(t)
    <2> USE DEF WatcherWaits, WatcherReadsState, WatcherConsumes, ExitPublished, kernelVars,
                handleVars
    <2>1. Types'
      BY <1>0, <1>1, <1>a DEF Types
    <2>2. HandleInv(t)' /\ StageInv(t)' /\ PlaceInv(t)'
      BY <1>0, <1>1, <1>a
         DEF Types, TurnInv, HandleInv, StageInv, PlaceInv, Untouched, Finished
    <2>3. AttemptInv(t)'
      BY <1>0, <1>1, <1>a, SameAttempts DEF TurnInv
    <2>4. Apart(t)
      BY <1>0, <1>1, <1>a DEF Types, Apart, Same, Attends
    <2> QED BY <2>1, <2>2, <2>3, <2>4 DEF TurnInv
  <1>2. CASE WatcherCommits(t)
    <2> DEFINE event == IF watcher[t] = "saw_exit" THEN "exited" ELSE "gone"
    <2>1. /\ watcher[t] \in {"saw_exit", "saw_loss"}
          /\ Applied(t, event) /\ Announced(t, event)
          /\ watcher' = [watcher EXCEPT ![t] = "ended"]
          /\ UNCHANGED <<leader, members, reapedBy, worker, census>>
      BY <1>2 DEF WatcherCommits, kernelVars
    <2>2. event \in {"exited", "gone"}
      OBVIOUS
    <2>3. /\ status' \in [Turns -> {"none", "RUNNING", "EXITED", "RELEASED", "LOST"}]
          /\ hasCode' \subseteq Turns /\ status'[t] = Advance(status[t], event)
          /\ \A u \in Turns \ {t} : status'[u] = status[u]
      BY <1>0, <2>1, <2>2, AppliedTypes
    <2>4. published' \in [Turns -> {"no", "announced", "set"}]
      BY <1>0, <2>1, <2>2, AnnouncedTypes
    <2> HIDE DEF event
    <2>5. Types'
      BY <1>0, <1>a, <2>1, <2>3, <2>4 DEF Types
    <2>6. HandleInv(t)' /\ StageInv(t)' /\ PlaceInv(t)'
      BY <1>0, <1>a, <2>1, <2>2, <2>3
         DEF Types, TurnInv, HandleInv, StageInv, PlaceInv, Untouched, Finished, Advance, Anchored
    <2>7. AttemptInv(t)'
      BY <1>0, <1>a, <2>1, SameAttempts DEF TurnInv
    <2>8. Apart(t)
      BY <1>0, <1>a, <2>1, <2>3 DEF Types, Apart, Same, Attends
    <2> QED BY <2>5, <2>6, <2>7, <2>8 DEF TurnInv
  <1>3. CASE WorkerKills(t)
    <2>1. /\ worker[t] = "kill" /\ watcher' = watcher /\ reapedBy' = reapedBy
          /\ \/ worker' = [worker EXCEPT ![t] = "count"] /\ census' = census
             \/ /\ worker' = [worker EXCEPT ![t] = "over"]
                /\ census' = [census EXCEPT ![t] = "raised"]
      BY <1>3 DEF WorkerKills, kernelVars
    <2>2. /\ status' \in [Turns -> {"none", "RUNNING", "EXITED", "RELEASED", "LOST"}]
          /\ hasCode' \subseteq Turns /\ status'[t] \in {status[t], Advance(status[t], "gone")}
          /\ \A u \in Turns \ {t} : status'[u] = status[u]
          /\ published' \in [Turns -> {"no", "announced", "set"}]
          /\ status[t] \in Anchored \/ worker'[t] = "over"
      BY <1>0, <1>3, AppliedTypes, AnnouncedTypes DEF WorkerKills, Types, handleVars
    <2>3. \/ UNCHANGED <<leader, members>>
          \/ SigkillSent(t)
      BY <1>3 DEF WorkerKills, kernelVars
    <2>4. Types'
      <3>1. /\ leader' \in [Turns -> {"none", "running", "doomed", "zombie", "reaped"}]
            /\ members' \in [Turns -> {"none", "alive", "doomed"}]
        BY <1>0, <2>3 DEF Types, SigkillSent
      <3> QED BY <1>0, <1>a, <2>1, <2>2, <3>1 DEF Types
    <2>5. /\ leader[t] \notin {"none", "running"} => leader'[t] = leader[t]
          /\ leader[t] = "running" => leader'[t] \in {"running", "doomed"}
          /\ leader[t] = "none" <=> leader'[t] = "none"
          /\ members[t] # "alive" => members'[t] = members[t]
      BY <1>0, <2>3 DEF Types, SigkillSent
    <2>6. worker[t] = "kill" /\ worker'[t] \in {"count", "over"}
          /\ (status[t] \in Anchored \/ worker'[t] = "over")
          /\ census'[t] \in {census[t], "raised"}
      BY <1>0, <2>1, <2>2 DEF Types
    <2>7. HandleInv(t)'
      BY <1>0, <2>1, <2>2, <2>5, <2>6 DEF TurnInv, HandleInv, Types, Advance, Anchored
    <2>8. StageInv(t)'
      BY <1>0, <1>a, <2>1, <2>5, <2>6
         DEF TurnInv, StageInv, Untouched, Types, RollingBack, Alive
    <2>9. PlaceInv(t)'
      BY <1>0, <1>a, <2>1, <2>5, <2>6
         DEF TurnInv, PlaceInv, Finished, StageInv, Untouched
    <2>10. AttemptInv(t)'
      BY <1>0, <1>a, <2>6, SameAttempts DEF TurnInv
    <2>11. Apart(t)
      BY <1>0, <1>a, <2>1, <2>2, <2>3 DEF Types, Apart, Same, Attends, SigkillSent
    <2> QED BY <2>4, <2>7, <2>8, <2>9, <2>10, <2>11 DEF TurnInv
  <1>4. CASE WorkerCounts(t)
    <2>1. PICK count \in Counts(t) : census' = [census EXCEPT ![t] = count]
      BY <1>4 DEF WorkerCounts
    <2>2. /\ worker[t] = "count" /\ worker' = [worker EXCEPT ![t] = "over"]
          /\ UNCHANGED <<leader, members, reapedBy, status, hasCode, published, watcher>>
      BY <1>4 DEF WorkerCounts, kernelVars, handleVars
    <2>3. /\ count \in AnyCount
          /\ count = "empty" /\ reapedBy[t] # "elsewhere" =>
               leader[t] = "zombie" /\ members[t] = "none"
      BY <2>1, <1>0 DEF Counts, AnyCount, Types, TurnInv, HandleInv
    <2>4. Types'
      BY <1>0, <1>a, <2>1, <2>2, <2>3 DEF Types
    <2>5. HandleInv(t)' /\ StageInv(t)' /\ PlaceInv(t)'
      BY <1>0, <1>a, <2>1, <2>2, <2>3
         DEF Types, TurnInv, HandleInv, StageInv, PlaceInv, Untouched, Finished, RollingBack, Alive
    <2>6. AttemptInv(t)'
      BY <1>0, <1>a, <2>2, SameAttempts DEF TurnInv, Types
    <2>7. Apart(t)
      BY <1>0, <1>a, <2>1, <2>2 DEF Types, Apart, Same, Attends
    <2> QED BY <2>4, <2>5, <2>6, <2>7 DEF TurnInv
  <1> QED BY <1>1, <1>2, <1>3, <1>4 DEF ThreadsAct, WatcherActs

-----------------------------------------------------------------------------
(* A turn that is not over has no attempts, and none begin before its entry. *)
LEMMA NoAttempts ==
    ASSUME NEW t \in Turns, AttemptInv(t), t \notin entries,
           UNCHANGED <<caller, target, holders>>,
           t \in entries' => worker'[t] = "idle"
    PROVE  AttemptInv(t)'
  <1>1. \A c \in Callers : ~Attends(c, t) /\ ~Attends(c, t)'
    BY DEF AttemptInv, Attends
  <1> QED BY <1>1 DEF AttemptInv

(* A slot that is given back, and one that is taken below the limit. *)
LEMMA PlaceTypes ==
    ASSUME Types, NEW t \in Turns
    PROVE  /\ Cardinality(reservations \ {t}) <= PoolLimit
           /\ Cardinality(reservations) < PoolLimit =>
                 Cardinality(reservations \cup {t}) <= PoolLimit
  <1>1. IsFiniteSet(reservations)
    BY TurnsAssumption, FS_Subset DEF Types
  <1>2. Cardinality(reservations) \in Nat /\ PoolLimit \in Nat
    BY <1>1, FS_CardinalityType, PoolAssumption
  <1>3. Cardinality(reservations \ {t}) \in {Cardinality(reservations),
                                             Cardinality(reservations) - 1}
    BY <1>1, FS_RemoveElement
  <1>4. Cardinality(reservations \cup {t}) \in {Cardinality(reservations),
                                                Cardinality(reservations) + 1}
    BY <1>1, FS_AddElement
  <1> QED BY <1>2, <1>3, <1>4 DEF Types

LEMMA StartingStep ==
    ASSUME IInv, NEW t \in Turns,
           OpenDirectories(t) \/ Reserve(t) \/ StartFails(t) \/ Start(t)
    PROVE  Types' /\ TurnInv(t)' /\ Apart(t)
  <1>0. Types /\ TurnInv(t)
    BY DEF IInv
  <1>1. /\ turn[t] \in Starting /\ leader[t] = "none" /\ Untouched(t)
        /\ UNCHANGED <<entries, leaderReleased, holders, caller, target>>
    BY <1>0 DEF OpenDirectories, Reserve, StartFails, Start, TurnInv, StageInv, Starting,
                lostVars, callerVars
  <1>2. AttemptInv(t)'
    BY <1>0, <1>1, NoAttempts DEF TurnInv, Untouched
  <1>3. CASE OpenDirectories(t) \/ Reserve(t) \/ StartFails(t)
    <2>1. /\ UNCHANGED <<leader, members, reapedBy, status, hasCode, watcher, published, worker,
                         census, openPipes>>
          /\ \/ OpenDirectories(t) /\ UNCHANGED reservations
             \/ Reserve(t)
             \/ StartFails(t)
      BY <1>3 DEF OpenDirectories, Reserve, StartFails, leaderVars
    <2>2. Types'
      <3>1. /\ reservations' \in {reservations, reservations \cup {t}, reservations \ {t}}
            /\ reservations' = reservations \cup {t} /\ t \notin reservations =>
                  Cardinality(reservations) < PoolLimit
        BY <1>0, <2>1 DEF OpenDirectories, Reserve, StartFails, Released, Types
      <3>2. reservations' \subseteq Turns /\ Cardinality(reservations') <= PoolLimit
        <4>1. CASE t \in reservations /\ reservations' = reservations \cup {t}
          <5>1. reservations' = reservations
            BY <4>1
          <5> QED BY <1>0, <5>1 DEF Types
        <4> QED BY <1>0, <3>1, <4>1, PlaceTypes DEF Types
      <3>3. homes' \subseteq Turns
            /\ turn' \in [Turns -> {"new", "opened", "reserved", "killing", "reaping",
                                    "rolled_back", "body", "sigterm", "grace", "kill",
                                    "counting", "exit", "over"}]
        BY <1>0, <2>1 DEF Types, OpenDirectories, Reserve, StartFails, Released
      <3> QED BY <1>0, <1>1, <2>1, <3>2, <3>3 DEF Types
    <2>3. HandleInv(t)' /\ Untouched(t)'
      BY <1>0, <1>1, <2>1 DEF TurnInv, HandleInv, Untouched
    <2>4. StageInv(t)'
      BY <1>0, <1>1, <2>1, <2>3
         DEF TurnInv, StageInv, Types, OpenDirectories, Reserve, StartFails, Released, Starting,
             RollingBack, Alive, Untouched
    <2>5. PlaceInv(t)'
      <3>1. turn'[t] = "over" => t \notin homes' /\ t \notin reservations'
        BY <1>0, <1>1, <2>1
           DEF TurnInv, StageInv, Types, OpenDirectories, Reserve, StartFails, Released
      <3> QED BY <2>3, <3>1 DEF PlaceInv, Untouched
    <2>6. Apart(t)
      BY <1>0, <1>1, <2>1
         DEF Types, Apart, Same, Attends, OpenDirectories, Reserve, StartFails, Released
    <2> QED BY <1>2, <2>2, <2>3, <2>4, <2>5, <2>6 DEF TurnInv
  <1>4. CASE Start(t)
    <2>1. /\ turn[t] = "reserved"
          /\ leader' = [leader EXCEPT ![t] = "running"]
          /\ status' = [status EXCEPT ![t] = "RUNNING"]
          /\ openPipes' = openPipes \cup {t}
          /\ UNCHANGED <<members, reapedBy, hasCode, published, worker, census, reservations,
                         homes>>
          /\ \/ /\ watcher' = [watcher EXCEPT ![t] = "waiting"]
                /\ turn' = [turn EXCEPT ![t] = "body"]
             \/ /\ watcher' = [watcher EXCEPT ![t] = "ended"]
                /\ turn' = [turn EXCEPT ![t] = "killing"]
      BY <1>4 DEF Start, placeVars
    <2>2. Types'
      BY <1>0, <1>1, <2>1 DEF Types
    <2>3. HandleInv(t)'
      BY <1>0, <1>1, <2>1 DEF Types, HandleInv, Untouched
    <2>4. StageInv(t)'
      BY <1>0, <1>1, <2>1 DEF Types, TurnInv, StageInv, Starting, RollingBack, Alive, Untouched
    <2>5. PlaceInv(t)'
      BY <1>0, <1>1, <2>1 DEF Types, PlaceInv, Untouched
    <2>6. Apart(t)
      BY <1>0, <1>1, <2>1 DEF Types, Apart, Same, Attends
    <2> QED BY <1>2, <2>2, <2>3, <2>4, <2>5, <2>6 DEF TurnInv
  <1> QED BY <1>3, <1>4

LEMMA RollbackStep ==
    ASSUME IInv, NEW t \in Turns, RollbackKills(t) \/ RollbackReaps(t) \/ StartRaises(t)
    PROVE  Types' /\ TurnInv(t)' /\ Apart(t)
  <1>0. Types /\ TurnInv(t)
    BY DEF IInv
  <1>1. /\ turn[t] \in RollingBack /\ t \notin entries /\ t \notin leaderReleased
        /\ t \in homes /\ t \in reservations /\ leader[t] # "none"
        /\ worker[t] = "idle" /\ census[t] = "none" /\ watcher[t] = "ended"
        /\ UNCHANGED <<entries, leaderReleased, holders, caller, target, watcher, worker, census>>
    BY <1>0 DEF RollbackKills, RollbackReaps, StartRaises, TurnInv, StageInv, PlaceInv,
                Starting, RollingBack, lostVars, callerVars, leaderVars
  <1>2. AttemptInv(t)'
    BY <1>0, <1>1, NoAttempts DEF TurnInv
  <1>3. CASE RollbackKills(t)
    <2>1. /\ turn[t] = "killing" /\ UNCHANGED <<reapedBy, published, openPipes, reservations, homes>>
          /\ \/ /\ leader[t] = "reaped" /\ members[t] = "none" /\ UNCHANGED <<leader, members>>
                /\ Applied(t, "gone") /\ turn' = [turn EXCEPT ![t] = "rolled_back"]
             \/ /\ SigkillSent(t) /\ UNCHANGED <<status, hasCode>>
                /\ turn' = [turn EXCEPT ![t] = "reaping"]
      BY <1>3 DEF RollbackKills, MayMissGroup, kernelVars, placeVars
    <2>2. /\ status' \in [Turns -> {"none", "RUNNING", "EXITED", "RELEASED", "LOST"}]
          /\ hasCode' \subseteq Turns /\ status'[t] \in {status[t], Advance(status[t], "gone")}
          /\ \A u \in Turns \ {t} : status'[u] = status[u]
      BY <1>0, <2>1, AppliedTypes DEF Types
    <2>3. /\ leader' \in [Turns -> {"none", "running", "doomed", "zombie", "reaped"}]
          /\ members' \in [Turns -> {"none", "alive", "doomed"}]
          /\ leader'[t] = "reaped" <=> leader[t] = "reaped"
          /\ leader'[t] # "none" /\ members'[t] # "alive"
          /\ leader'[t] = "running" => leader'[t] = "reaped"
      BY <1>0, <1>1, <2>1 DEF Types, SigkillSent
    <2>4. Types'
      BY <1>0, <1>1, <2>1, <2>2, <2>3 DEF Types
    <2>5. HandleInv(t)'
      BY <1>0, <1>1, <2>1, <2>2, <2>3 DEF TurnInv, HandleInv, Advance, Anchored
    <2>6. StageInv(t)' /\ PlaceInv(t)'
      BY <1>0, <1>1, <2>1, <2>3
         DEF Types, StageInv, PlaceInv, Starting, RollingBack, Alive
    <2>7. Apart(t)
      BY <1>0, <1>1, <2>1, <2>2 DEF Types, Apart, Same, Attends, SigkillSent
    <2> QED BY <1>2, <2>4, <2>5, <2>6, <2>7 DEF TurnInv
  <1>4. CASE RollbackReaps(t)
    <2>1. /\ turn[t] = "reaping" /\ turn' = [turn EXCEPT ![t] = "rolled_back"]
          /\ UNCHANGED <<members, published, openPipes, reservations, homes>>
          /\ \/ /\ leader[t] = "zombie" /\ leader' = [leader EXCEPT ![t] = "reaped"]
                /\ reapedBy' = [reapedBy EXCEPT ![t] = "handle"] /\ Applied(t, "reaped")
             \/ leader[t] = "reaped" /\ Applied(t, "gone") /\ UNCHANGED <<leader, reapedBy>>
      BY <1>4 DEF RollbackReaps, placeVars
    <2>2. /\ status' \in [Turns -> {"none", "RUNNING", "EXITED", "RELEASED", "LOST"}]
          /\ hasCode' \subseteq Turns
          /\ status'[t] \in {Advance(status[t], "reaped"), Advance(status[t], "gone")}
          /\ \A u \in Turns \ {t} : status'[u] = status[u]
      BY <1>0, <2>1, AppliedTypes
    <2>3. Types'
      <3>1. /\ leader' \in [Turns -> {"none", "running", "doomed", "zombie", "reaped"}]
            /\ reapedBy' \in [Turns -> {"nobody", "handle", "elsewhere"}]
            /\ turn' \in [Turns -> {"new", "opened", "reserved", "killing", "reaping",
                                    "rolled_back", "body", "sigterm", "grace", "kill",
                                    "counting", "exit", "over"}]
        BY <1>0, <2>1 DEF Types
      <3> QED BY <1>0, <1>1, <2>1, <2>2, <3>1 DEF Types
    <2>4. HandleInv(t)'
      BY <1>0, <1>1, <2>1, <2>2 DEF Types, TurnInv, HandleInv, Advance, Anchored
    <2>5. StageInv(t)' /\ PlaceInv(t)'
      BY <1>0, <1>1, <2>1
         DEF Types, TurnInv, StageInv, PlaceInv, Starting, RollingBack, Alive
    <2>6. Apart(t)
      BY <1>0, <1>1, <2>1, <2>2 DEF Types, Apart, Same, Attends
    <2> QED BY <1>2, <2>3, <2>4, <2>5, <2>6 DEF TurnInv
  <1>5. CASE StartRaises(t)
    <2>1. /\ turn[t] = "rolled_back" /\ turn' = [turn EXCEPT ![t] = "over"]
          /\ openPipes' = openPipes \ {t} /\ reservations' = reservations \ {t}
          /\ homes' = homes \ {t}
          /\ UNCHANGED <<leader, members, reapedBy, status, hasCode, published>>
      BY <1>5 DEF StartRaises, Released, leaderVars
    <2>2. Types'
      BY <1>0, <1>1, <2>1, PlaceTypes DEF Types
    <2>3. leader[t] = "reaped" /\ members[t] # "alive" /\ turn'[t] = "over"
      BY <1>0, <2>1 DEF Types, TurnInv, StageInv
    <2>4. HandleInv(t)'
      BY <1>0, <1>1, <2>1 DEF TurnInv, HandleInv
    <2>5. StageInv(t)' /\ PlaceInv(t)'
      BY <1>1, <2>1, <2>3 DEF StageInv, PlaceInv, Finished, Starting, RollingBack, Alive
    <2>6. Apart(t)
      BY <1>0, <1>1, <2>1 DEF Types, Apart, Same, Attends
    <2> QED BY <1>2, <2>2, <2>4, <2>5, <2>6 DEF TurnInv
  <1> QED BY <1>3, <1>4, <1>5

-----------------------------------------------------------------------------
(* A turn that ends with its leader unreleased keeps its place under a name. *)
LEMMA RetainKeeps ==
    ASSUME IInv, NEW t \in Turns, turn[t] \in Alive, Retain(t),
           UNCHANGED <<leader, members, reapedBy, watcher, reservations, homes, holders, caller,
                       target>>,
           worker'[t] = "idle", HandleInv(t)'
    PROVE  TurnInv(t)'
  <1>0. /\ Types /\ TurnInv(t) /\ turn'[t] = "over" /\ t \in entries'
        /\ t \notin entries /\ t \notin leaderReleased' /\ t \in homes' /\ t \in reservations'
        /\ reapedBy[t] # "handle" /\ leader[t] # "none"
    BY DEF IInv, Types, Retain, TurnInv, StageInv, PlaceInv, Alive, Starting
  <1>1. StageInv(t)' /\ PlaceInv(t)'
    BY <1>0 DEF StageInv, PlaceInv, Starting, RollingBack, Alive
  <1>2. AttemptInv(t)'
    BY <1>0, NoAttempts DEF TurnInv
  <1> QED BY <1>1, <1>2 DEF TurnInv

(* What an ended body does before its release. *)
LEMMA BodyStep ==
    ASSUME IInv, NEW t \in Turns,
           BodyEnds(t) \/ OfferSigterm(t) \/ GraceEnds(t) \/ TurnKills(t) \/ TurnCounted(t)
    PROVE  Types' /\ TurnInv(t)' /\ Apart(t)
  <1>0. Types /\ TurnInv(t)
    BY DEF IInv
  <1>1. /\ turn[t] \in Alive \ {"exit"}
        /\ turn[t] = "counting" \/ worker[t] = "idle"
        /\ t \notin entries /\ t \notin leaderReleased /\ leader[t] # "none"
        /\ t \in homes /\ t \in reservations /\ reapedBy[t] # "handle"
    BY <1>0 DEF BodyEnds, OfferSigterm, GraceEnds, TurnKills, TurnCounted, Alive, Starting,
                TurnInv, StageInv, PlaceInv
  <1>2. /\ UNCHANGED <<leader, members, reapedBy, watcher, census, openPipes, reservations, homes,
                       holders, caller, target, leaderReleased>>
        /\ entries' \in {entries, entries \cup {t}}
    BY DEF BodyEnds, OfferSigterm, GraceEnds, TurnKills, TurnCounted, Retain, leaderVars,
           kernelVars, placeVars, lostVars, callerVars
  <1>3. /\ status' \in [Turns -> {"none", "RUNNING", "EXITED", "RELEASED", "LOST"}]
        /\ hasCode' \subseteq Turns /\ status'[t] \in {status[t], Advance(status[t], "gone")}
        /\ \A u \in Turns \ {t} : status'[u] = status[u]
        /\ published' \in [Turns -> {"no", "announced", "set"}]
    BY <1>0, AppliedTypes, AnnouncedTypes
       DEF BodyEnds, OfferSigterm, GraceEnds, TurnKills, TurnCounted, leaderVars, handleVars, Types
  <1>4. /\ turn' \in [Turns -> {"new", "opened", "reserved", "killing", "reaping", "rolled_back",
                                "body", "sigterm", "grace", "kill", "counting", "exit", "over"}]
        /\ \A u \in Turns \ {t} : turn'[u] = turn[u]
    BY <1>0 DEF BodyEnds, OfferSigterm, GraceEnds, TurnKills, TurnCounted, Retain, Types
  <1>5. /\ worker' \in [Turns -> {"idle", "kill", "count", "over"}]
        /\ \A u \in Turns \ {t} : worker'[u] = worker[u]
        /\ worker'[t] = "idle" \/ turn'[t] = "counting"
    BY <1>0, <1>1 DEF BodyEnds, OfferSigterm, GraceEnds, TurnKills, TurnCounted, leaderVars, Types
  <1>6. Retain(t) \/ /\ UNCHANGED entries
                     /\ turn'[t] \in Alive
                     /\ turn'[t] = "exit" => census[t] = "empty"
    BY <1>0 DEF BodyEnds, OfferSigterm, GraceEnds, TurnKills, TurnCounted, Confirmed, lostVars,
                Alive, Types
  <1>7. Types'
    BY <1>0, <1>2, <1>3, <1>4, <1>5 DEF Types
  <1>8. Apart(t)
    BY <1>2, <1>3, <1>4, <1>5 DEF Apart, Same, Attends
  <1>9. HandleInv(t)'
    BY <1>0, <1>1, <1>2, <1>3 DEF TurnInv, HandleInv, Advance, Anchored
  <1>10. CASE Retain(t)
    <2>1. turn'[t] = "over" /\ worker'[t] = "idle"
      BY <1>0, <1>5, <1>10 DEF Retain, Types
    <2>2. TurnInv(t)'
      BY <1>1, <1>2, <1>9, <1>10, <2>1, RetainKeeps
    <2> QED BY <1>7, <1>8, <2>2
  <1>11. CASE UNCHANGED entries /\ turn'[t] \in Alive
              /\ (turn'[t] = "exit" => census[t] = "empty")
    <2>1. StageInv(t)' /\ PlaceInv(t)'
      BY <1>0, <1>1, <1>2, <1>5, <1>11 DEF StageInv, PlaceInv, Starting, RollingBack, Alive
    <2>2. AttemptInv(t)'
      BY <1>0, <1>1, <1>2, <1>11, NoAttempts DEF TurnInv
    <2> QED BY <1>7, <1>8, <1>9, <2>1, <2>2 DEF TurnInv
  <1> QED BY <1>6, <1>10, <1>11

(* release reaps an exit that was published; otherwise it raises. *)
LEMMA ReapedFacts ==
    ASSUME IInv, NEW t \in Turns, Reaped(t)
    PROVE  /\ worker[t] # "count" /\ leader[t] = "zombie" /\ watcher[t] = "ended"
           /\ leader' = [leader EXCEPT ![t] = "reaped"]
           /\ reapedBy' = [reapedBy EXCEPT ![t] = "handle"]
           /\ status' \in [Turns -> {"none", "RUNNING", "EXITED", "RELEASED", "LOST"}]
           /\ hasCode' \subseteq Turns /\ status'[t] = "RELEASED"
           /\ \A u \in Turns \ {t} : status'[u] = status[u]
           /\ UNCHANGED <<members, published>>
  <1>1. Types /\ HandleInv(t) /\ status[t] = "EXITED"
    BY DEF IInv, TurnInv, Reaped
  <1>2. Advance("EXITED", "reaped") = "RELEASED"
    BY DEF Advance, Anchored
  <1> QED BY <1>1, <1>2, AppliedTypes DEF Reaped, HandleInv, LockFree

LEMMA NotReapedFacts ==
    ASSUME IInv, NEW t \in Turns, NotReaped(t)
    PROVE  /\ status' \in [Turns -> {"none", "RUNNING", "EXITED", "RELEASED", "LOST"}]
           /\ hasCode' \subseteq Turns /\ status'[t] \in {status[t], Advance(status[t], "gone")}
           /\ \A u \in Turns \ {t} : status'[u] = status[u]
           /\ UNCHANGED <<leader, members, reapedBy, published>>
  <1>1. Types
    BY DEF IInv
  <1> QED BY <1>1, AppliedTypes DEF NotReaped, kernelVars, Types

LEMMA ReleaseStep ==
    ASSUME IInv, NEW t \in Turns, TurnReleases(t)
    PROVE  Types' /\ TurnInv(t)' /\ Apart(t)
  <1>0. Types /\ TurnInv(t)
    BY DEF IInv
  <1>1. /\ turn[t] = "exit" /\ turn[t] \in Alive /\ worker[t] = "idle" /\ census[t] = "empty"
        /\ t \notin entries /\ t \notin leaderReleased /\ leader[t] # "none"
        /\ t \in homes /\ t \in reservations /\ reapedBy[t] # "handle"
        /\ UNCHANGED <<watcher, worker, census, caller, target, leaderReleased, holders>>
        /\ turn' = [turn EXCEPT ![t] = "over"]
    BY <1>0 DEF TurnReleases, Retain, TurnInv, StageInv, PlaceInv, Alive, Starting, callerVars,
                lostVars
  <1>2. CASE Reaped(t) /\ PipesClosedIfDone(t) /\ Released(t) /\ UNCHANGED entries
    <2>1. /\ leader[t] = "zombie" /\ watcher[t] = "ended"
          /\ leader' = [leader EXCEPT ![t] = "reaped"]
          /\ reapedBy' = [reapedBy EXCEPT ![t] = "handle"]
          /\ status' \in [Turns -> {"none", "RUNNING", "EXITED", "RELEASED", "LOST"}]
          /\ hasCode' \subseteq Turns /\ status'[t] = "RELEASED"
          /\ \A u \in Turns \ {t} : status'[u] = status[u]
          /\ UNCHANGED <<members, published>>
      BY <1>2, ReapedFacts
    <2>2. openPipes' = openPipes \ {t} /\ reservations' = reservations \ {t}
          /\ homes' = homes \ {t}
      BY <1>2, <2>1 DEF PipesClosedIfDone, Released, Anchored
    <2>3. members[t] = "none"
      BY <1>0, <1>1, <2>1 DEF TurnInv, HandleInv
    <2>4. leader'[t] = "reaped" /\ reapedBy'[t] = "handle" /\ turn'[t] = "over"
      BY <1>0, <1>1, <2>1 DEF Types
    <2>5. Types'
      BY <1>0, <1>1, <1>2, <2>1, <2>2, PlaceTypes DEF Types
    <2>6. HandleInv(t)'
      BY <1>1, <2>1, <2>3, <2>4 DEF HandleInv, Anchored
    <2>7. StageInv(t)' /\ PlaceInv(t)'
      BY <1>1, <1>2, <2>1, <2>2, <2>3, <2>4
         DEF StageInv, PlaceInv, Finished, Starting, RollingBack, Alive
    <2>8. AttemptInv(t)'
      BY <1>0, <1>1, <1>2, NoAttempts DEF TurnInv
    <2>9. Apart(t)
      BY <1>0, <1>1, <1>2, <2>1, <2>2 DEF Types, Apart, Same, Attends
    <2> QED BY <2>5, <2>6, <2>7, <2>8, <2>9 DEF TurnInv
  <1>3. CASE /\ Retain(t) /\ UNCHANGED <<reservations, homes>>
             /\ \/ NotReaped(t) /\ PipesClosedIfDone(t)
                \/ UNCHANGED <<kernelVars, handleVars, openPipes>>
    <2>1. /\ status' \in [Turns -> {"none", "RUNNING", "EXITED", "RELEASED", "LOST"}]
          /\ hasCode' \subseteq Turns /\ status'[t] \in {status[t], Advance(status[t], "gone")}
          /\ \A u \in Turns \ {t} : status'[u] = status[u]
          /\ UNCHANGED <<leader, members, reapedBy, published>>
      BY <1>0, <1>3, NotReapedFacts DEF kernelVars, handleVars, Types
    <2>2. openPipes' \in {openPipes, openPipes \ {t}} /\ entries' = entries \cup {t}
      BY <1>3 DEF PipesClosedIfDone, Retain
    <2>3. Types'
      BY <1>0, <1>1, <1>3, <2>1, <2>2 DEF Types
    <2>4. HandleInv(t)'
      BY <1>0, <1>1, <2>1 DEF TurnInv, HandleInv, Advance, Anchored
    <2>5. TurnInv(t)'
      BY <1>1, <1>3, <2>1, <2>4, RetainKeeps
    <2>6. Apart(t)
      BY <1>0, <1>1, <1>3, <2>1, <2>2 DEF Types, Apart, Same, Attends
    <2> QED BY <2>3, <2>5, <2>6
  <1> QED BY <1>2, <1>3 DEF TurnReleases, placeVars, lostVars, Retain

-----------------------------------------------------------------------------
(* The calls of confirm_group_gone. *)

(* A call that takes or leaves turn t is nothing to another turn. *)
LEMMA CallsApart ==
    ASSUME NEW t \in Turns, NEW c \in Callers, caller[c] = "idle" \/ target[c] = {t},
           target'[c] \in {{t}, {}},
           \A d \in Callers \ {c} : caller'[d] = caller[d] /\ target'[d] = target[d]
    PROVE  \A u \in Turns \ {t}, d \in Callers :
               (Attends(d, u)' <=> Attends(d, u)) /\ (Attends(d, u) => caller'[d] = caller[d])
  BY DEF Attends

(* An entry's turn is over and its child was started. *)
LEMMA EntryFacts ==
    ASSUME Types, NEW t \in Turns, TurnInv(t), t \in entries
    PROVE  /\ turn[t] = "over" /\ leader[t] # "none"
           /\ t \in leaderReleased => worker[t] = "idle" /\ Finished(t)
           /\ t \notin leaderReleased => reapedBy[t] # "handle" /\ t \in homes /\ t \in reservations
  BY DEF TurnInv, StageInv, PlaceInv, Untouched, Finished

(* The one call of a turn leaves. *)
LEMMA LeaveKeeps ==
    ASSUME IInv, NEW t \in Turns, NEW c \in Callers, Attends(c, t), Leave(c, t),
           t \in entries' /\ worker'[t] # "idle" <=> t \in entries /\ worker[t] # "idle"
    PROVE  /\ AttemptInv(t)'
           /\ caller' \in [Callers -> {"idle", "asking", "counted", "slot"}]
           /\ target' \in [Callers -> SUBSET Turns] /\ holders' \in [Turns -> Int]
           /\ \A u \in Turns \ {t} : holders'[u] = holders[u]
           /\ \A u \in Turns \ {t}, d \in Callers :
                 (Attends(d, u)' <=> Attends(d, u)) /\ (Attends(d, u) => caller'[d] = caller[d])
  <1>0. Types /\ AttemptInv(t)
    BY DEF IInv, TurnInv
  <1>1. /\ caller' = [caller EXCEPT ![c] = "idle"] /\ target' = [target EXCEPT ![c] = {}]
        /\ holders' = [holders EXCEPT ![t] = holders[t] - 1]
    BY DEF Leave
  <1>2. /\ caller' \in [Callers -> {"idle", "asking", "counted", "slot"}]
        /\ target' \in [Callers -> SUBSET Turns] /\ holders' \in [Turns -> Int]
        /\ \A u \in Turns \ {t} : holders'[u] = holders[u]
        /\ holders'[t] = holders[t] - 1
    BY <1>0, <1>1 DEF Types
  <1>3. \A d \in Callers : ~Attends(d, t)'
    <2>1. ~Attends(c, t)'
      BY <1>0, <1>1 DEF Attends, Types
    <2>2. ASSUME NEW d \in Callers, d # c PROVE ~Attends(d, t)'
      BY <1>0, <1>1, <2>2 DEF Attends, AttemptInv, Types
    <2> QED BY <2>1, <2>2
  <1>4. holders[t] = 1 + (IF t \in entries /\ worker[t] # "idle" THEN 1 ELSE 0)
    BY <1>0 DEF AttemptInv
  <1>5. AttemptInv(t)'
    BY <1>2, <1>3, <1>4 DEF AttemptInv
  <1>6. /\ target[c] = {t} /\ target'[c] = {}
        /\ \A d \in Callers \ {c} : caller'[d] = caller[d] /\ target'[d] = target[d]
    BY <1>0, <1>1 DEF Types, Attends
  <1> QED BY <1>2, <1>5, <1>6, CallsApart

LEMMA WorkerLeavesStep ==
    ASSUME IInv, NEW t \in Turns, WorkerLeaves(t)
    PROVE  Types' /\ TurnInv(t)' /\ Apart(t)
  <1>0. Types /\ TurnInv(t)
    BY DEF IInv
  <1>1. /\ t \in entries /\ worker[t] = "over" /\ worker' = [worker EXCEPT ![t] = "idle"]
        /\ holders' = [holders EXCEPT ![t] = holders[t] - 1]
        /\ caller' = [c \in Callers |-> IF caller[c] = "asking" /\ target[c] = {t}
                                           THEN "counted" ELSE caller[c]]
        /\ UNCHANGED <<leader, members, reapedBy, status, hasCode, published, watcher, census, turn,
                       openPipes, reservations, homes, entries, leaderReleased, target>>
    BY DEF WorkerLeaves, kernelVars, handleVars, placeVars
  <1>2. Types'
    BY <1>0, <1>1 DEF Types
  <1>3. HandleInv(t)' /\ StageInv(t)' /\ PlaceInv(t)'
    BY <1>0, <1>1, EntryFacts
       DEF Types, TurnInv, HandleInv, StageInv, PlaceInv, Finished, Starting, RollingBack, Alive
  <1>4. AttemptInv(t)'
    <2>1. \A c \in Callers : Attends(c, t)' <=> Attends(c, t)
      BY <1>1 DEF Attends
    <2>2. (\E c \in Callers : Attends(c, t)') <=> (\E c \in Callers : Attends(c, t))
      BY <2>1
    <2>3. holders'[t] = holders[t] - 1 /\ worker'[t] = "idle"
      BY <1>0, <1>1 DEF Types
    <2>4. \A c \in Callers : Attends(c, t) => caller[c] = "asking" /\ caller'[c] = "counted"
      BY <1>0, <1>1 DEF TurnInv, AttemptInv, Attends
    <2>5. t \notin leaderReleased
      BY <1>0, <1>1, EntryFacts
    <2> QED BY <1>0, <1>1, <2>1, <2>2, <2>3, <2>4, <2>5 DEF TurnInv, AttemptInv
  <1>5. Apart(t)
    <2>1. ASSUME NEW u \in Turns \ {t}, NEW c \in Callers
          PROVE  (Attends(c, u)' <=> Attends(c, u)) /\ (Attends(c, u) => caller'[c] = caller[c])
      <3>1. caller'[c] = caller[c] \/ (caller[c] = "asking" /\ target[c] = {t}
                                         /\ caller'[c] = "counted")
        BY <1>1
      <3>2. target[c] = {t} => target[c] # {u}
        OBVIOUS
      <3> QED BY <1>1, <3>1, <3>2 DEF Attends
    <2>2. \A u \in Turns \ {t} : worker'[u] = worker[u] /\ holders'[u] = holders[u]
      BY <1>0, <1>1 DEF Types
    <2> QED BY <1>1, <2>1, <2>2 DEF Apart, Same
  <1> QED BY <1>2, <1>3, <1>4, <1>5 DEF TurnInv

LEMMA BeginStep ==
    ASSUME IInv, NEW t \in Turns, NEW c \in Callers, BeginAttempt(c, t)
    PROVE  Types' /\ TurnInv(t)' /\ Apart(t)
  <1>0. Types /\ TurnInv(t)
    BY DEF IInv
  <1>1. /\ caller[c] = "idle" /\ t \in entries /\ holders[t] = 0
        /\ target' = [target EXCEPT ![c] = {t}]
        /\ UNCHANGED <<leader, members, reapedBy, status, hasCode, published, watcher, census, turn,
                       openPipes, reservations, homes, entries, leaderReleased>>
    BY DEF BeginAttempt, kernelVars, handleVars, placeVars
  <1>2. /\ worker[t] = "idle" /\ \A d \in Callers : ~Attends(d, t)
    BY <1>0, <1>1 DEF TurnInv, AttemptInv
  <1>3. \/ /\ t \in leaderReleased /\ holders' = [holders EXCEPT ![t] = 1]
           /\ caller' = [caller EXCEPT ![c] = "slot"] /\ worker' = worker
        \/ /\ t \notin leaderReleased /\ holders' = [holders EXCEPT ![t] = 2]
           /\ worker' = [worker EXCEPT ![t] = "kill"]
           /\ caller' = [caller EXCEPT ![c] = "asking"]
    BY DEF BeginAttempt
  <1>4. Types'
    BY <1>0, <1>1, <1>3 DEF Types
  <1>5. HandleInv(t)' /\ StageInv(t)' /\ PlaceInv(t)'
    BY <1>0, <1>1, <1>2, <1>3, EntryFacts
       DEF Types, TurnInv, HandleInv, StageInv, PlaceInv, Finished, Starting, RollingBack, Alive
  <1>6. /\ target'[c] = {t} /\ caller'[c] # "idle"
        /\ \A d \in Callers \ {c} : caller'[d] = caller[d] /\ target'[d] = target[d]
    BY <1>0, <1>1, <1>3 DEF Types
  <1>7. AttemptInv(t)'
    <2>1. Attends(c, t)' /\ \A d \in Callers \ {c} : ~Attends(d, t)'
      BY <1>2, <1>6 DEF Attends
    <2>2. CASE t \in leaderReleased
      <3>1. holders'[t] = 1 /\ worker'[t] = "idle" /\ caller'[c] = "slot"
        BY <1>0, <1>2, <1>3, <2>2 DEF Types
      <3> QED BY <1>1, <2>1, <2>2, <3>1 DEF AttemptInv
    <2>3. CASE t \notin leaderReleased
      <3>1. holders'[t] = 2 /\ worker'[t] = "kill" /\ caller'[c] = "asking"
        BY <1>0, <1>3, <2>3 DEF Types
      <3> QED BY <1>1, <2>1, <2>3, <3>1 DEF AttemptInv
    <2> QED BY <2>2, <2>3
  <1>8. Apart(t)
    <2>1. \A u \in Turns \ {t}, d \in Callers :
              (Attends(d, u)' <=> Attends(d, u)) /\ (Attends(d, u) => caller'[d] = caller[d])
      BY <1>1, <1>6, CallsApart
    <2> QED BY <1>0, <1>1, <1>3, <2>1 DEF Types, Apart, Same
  <1> QED BY <1>4, <1>5, <1>7, <1>8 DEF TurnInv

(* worker.start() raised: the call leaves, with or without its worker. *)
LEMMA StartFailsStep ==
    ASSUME IInv, NEW t \in Turns, NEW c \in Callers, WorkerStartFails(c, t)
    PROVE  Types' /\ TurnInv(t)' /\ Apart(t)
  <1>0. Types /\ TurnInv(t)
    BY DEF IInv
  <1>1. /\ caller[c] = "asking" /\ target[c] = {t} /\ worker[t] = "kill"
        /\ caller' = [caller EXCEPT ![c] = "idle"] /\ target' = [target EXCEPT ![c] = {}]
        /\ UNCHANGED <<leader, members, reapedBy, status, hasCode, published, watcher, census, turn,
                       openPipes, reservations, homes, entries, leaderReleased>>
        /\ \/ /\ holders' = [holders EXCEPT ![t] = holders[t] - 2]
              /\ worker' = [worker EXCEPT ![t] = "idle"]
           \/ holders' = [holders EXCEPT ![t] = holders[t] - 1] /\ worker' = worker
    BY DEF WorkerStartFails, kernelVars, handleVars, placeVars
  <1>2. Attends(c, t) /\ t \in entries /\ holders[t] = 2
    BY <1>0, <1>1 DEF Attends, TurnInv, AttemptInv
  <1>3. Types'
    BY <1>0, <1>1 DEF Types
  <1>4. HandleInv(t)' /\ StageInv(t)' /\ PlaceInv(t)'
    BY <1>0, <1>1, <1>2, EntryFacts
       DEF Types, TurnInv, HandleInv, StageInv, PlaceInv, Finished, Starting, RollingBack, Alive
  <1>5. AttemptInv(t)'
    <2>1. \A d \in Callers : ~Attends(d, t)'
      <3>1. ~Attends(c, t)'
        BY <1>0, <1>1 DEF Attends, Types
      <3>2. ASSUME NEW d \in Callers, d # c PROVE ~Attends(d, t)'
        BY <1>0, <1>1, <1>2, <3>2 DEF Attends, TurnInv, AttemptInv, Types
      <3> QED BY <3>1, <3>2
    <2>2. \/ holders'[t] = 0 /\ worker'[t] = "idle"
          \/ holders'[t] = 1 /\ worker'[t] = "kill"
      BY <1>0, <1>1, <1>2 DEF Types
    <2> QED BY <1>1, <1>2, <2>1, <2>2 DEF AttemptInv
  <1>6. Apart(t)
    <2>1. /\ target'[c] = {}
          /\ \A d \in Callers \ {c} : caller'[d] = caller[d] /\ target'[d] = target[d]
      BY <1>0, <1>1 DEF Types
    <2>2. \A u \in Turns \ {t}, d \in Callers :
              (Attends(d, u)' <=> Attends(d, u)) /\ (Attends(d, u) => caller'[d] = caller[d])
      BY <1>1, <2>1, CallsApart
    <2> QED BY <1>0, <1>1, <2>2 DEF Types, Apart, Same
  <1> QED BY <1>3, <1>4, <1>5, <1>6 DEF TurnInv

LEMMA CancelStep ==
    ASSUME IInv, NEW t \in Turns, NEW c \in Callers, CancelCall(c, t)
    PROVE  Types' /\ TurnInv(t)' /\ Apart(t)
  <1>0. Types /\ TurnInv(t)
    BY DEF IInv
  <1>1. /\ Attends(c, t) /\ Leave(c, t)
        /\ UNCHANGED <<leader, members, reapedBy, status, hasCode, published, watcher, worker,
                       census, turn, openPipes, reservations, homes, entries, leaderReleased>>
    BY DEF CancelCall, Attends, leaderVars, placeVars
  <1>2. /\ AttemptInv(t)'
        /\ caller' \in [Callers -> {"idle", "asking", "counted", "slot"}]
        /\ target' \in [Callers -> SUBSET Turns] /\ holders' \in [Turns -> Int]
        /\ \A u \in Turns \ {t} : holders'[u] = holders[u]
        /\ \A u \in Turns \ {t}, d \in Callers :
              (Attends(d, u)' <=> Attends(d, u)) /\ (Attends(d, u) => caller'[d] = caller[d])
    BY <1>1, LeaveKeeps
  <1>3. Types'
    BY <1>0, <1>1, <1>2 DEF Types
  <1>4. HandleInv(t)' /\ StageInv(t)' /\ PlaceInv(t)'
    BY <1>0, <1>1 DEF TurnInv, HandleInv, StageInv, PlaceInv, Finished, Untouched
  <1>5. Apart(t)
    BY <1>1, <1>2 DEF Apart, Same
  <1> QED BY <1>2, <1>3, <1>4, <1>5 DEF TurnInv

(* The slot goes, and home and entry with it unless release_slot raised. *)
LEMMA FreesPlaceStep ==
    ASSUME IInv, NEW t \in Turns, NEW c \in Callers, CallFreesPlace(c, t)
    PROVE  Types' /\ TurnInv(t)' /\ Apart(t)
  <1>0. Types /\ TurnInv(t)
    BY DEF IInv
  <1>1. /\ caller[c] = "slot" /\ Attends(c, t) /\ Leave(c, t)
        /\ reservations' = reservations \ {t}
        /\ UNCHANGED <<leader, members, reapedBy, status, hasCode, published, watcher, worker,
                       census, turn, openPipes, leaderReleased>>
        /\ \/ homes' = homes \ {t} /\ entries' = entries \ {t}
           \/ homes' = homes /\ entries' = entries
    BY DEF CallFreesPlace, Attends, leaderVars
  <1>2. t \in entries /\ t \in leaderReleased /\ turn[t] = "over" /\ worker[t] = "idle"
    BY <1>0, <1>1, EntryFacts DEF TurnInv, AttemptInv
  <1>3. /\ AttemptInv(t)'
        /\ caller' \in [Callers -> {"idle", "asking", "counted", "slot"}]
        /\ target' \in [Callers -> SUBSET Turns] /\ holders' \in [Turns -> Int]
        /\ \A u \in Turns \ {t} : holders'[u] = holders[u]
        /\ \A u \in Turns \ {t}, d \in Callers :
              (Attends(d, u)' <=> Attends(d, u)) /\ (Attends(d, u) => caller'[d] = caller[d])
    BY <1>1, <1>2, LeaveKeeps
  <1>4. Types'
    BY <1>0, <1>1, <1>3, PlaceTypes DEF Types
  <1>5. HandleInv(t)' /\ StageInv(t)'
    BY <1>0, <1>1, <1>2, EntryFacts
       DEF TurnInv, HandleInv, StageInv, Untouched, Starting, RollingBack, Alive
  <1>6. PlaceInv(t)'
    BY <1>0, <1>1, <1>2 DEF TurnInv, PlaceInv, Finished
  <1>7. Apart(t)
    BY <1>1, <1>3 DEF Apart, Same
  <1> QED BY <1>3, <1>4, <1>5, <1>6, <1>7 DEF TurnInv

(* A confirmed call: the leader is reaped after the count that was empty. *)
LEMMA ConfirmedStep ==
    ASSUME IInv, NEW t \in Turns, NEW c \in Callers, CallReleasesLeader(c, t),
           census[t] = "empty", Reaped(t), PipesClosedIfDone(t),
           leaderReleased' = leaderReleased \cup {t},
           caller' = [caller EXCEPT ![c] = "slot"], UNCHANGED <<holders, target>>
    PROVE  Types' /\ TurnInv(t)' /\ Apart(t)
  <1>0. Types /\ TurnInv(t)
    BY DEF IInv
  <1>1. /\ caller[c] = "counted" /\ target[c] = {t} /\ Attends(c, t)
        /\ UNCHANGED <<watcher, worker, census, turn, reservations, homes, entries>>
    BY DEF CallReleasesLeader, Attends, placeVars
  <1>2. /\ t \in entries /\ t \notin leaderReleased /\ worker[t] = "idle" /\ turn[t] = "over"
        /\ t \in homes /\ t \in reservations
    BY <1>0, <1>1, EntryFacts DEF TurnInv, AttemptInv
  <1>3. /\ leader[t] = "zombie" /\ watcher[t] = "ended"
        /\ leader' = [leader EXCEPT ![t] = "reaped"]
        /\ reapedBy' = [reapedBy EXCEPT ![t] = "handle"]
        /\ status' \in [Turns -> {"none", "RUNNING", "EXITED", "RELEASED", "LOST"}]
        /\ hasCode' \subseteq Turns /\ status'[t] = "RELEASED"
        /\ \A u \in Turns \ {t} : status'[u] = status[u]
        /\ UNCHANGED <<members, published>>
    BY ReapedFacts
  <1>4. openPipes' = openPipes \ {t}
    BY <1>3 DEF PipesClosedIfDone, Anchored
  <1>5. members[t] = "none"
    BY <1>0, <1>3 DEF TurnInv, HandleInv
  <1>6. leader'[t] = "reaped" /\ reapedBy'[t] = "handle"
    BY <1>0, <1>3 DEF Types
  <1>7. Types'
    BY <1>0, <1>1, <1>3, <1>4 DEF Types
  <1>8. HandleInv(t)'
    BY <1>1, <1>2, <1>3, <1>5, <1>6 DEF HandleInv, Anchored
  <1>9. StageInv(t)' /\ PlaceInv(t)'
    BY <1>1, <1>2, <1>3, <1>4, <1>5, <1>6
       DEF StageInv, PlaceInv, Finished, Starting, RollingBack, Alive
  <1>10. caller'[c] = "slot" /\ \A d \in Callers \ {c} : caller'[d] = caller[d]
    BY <1>0 DEF Types
  <1>11. \A d \in Callers : Attends(d, t)' <=> Attends(d, t)
    BY <1>1, <1>10 DEF Attends
  <1>12. AttemptInv(t)'
    <2>1. \A d \in Callers : Attends(d, t) => d = c
      BY <1>0, <1>1 DEF TurnInv, AttemptInv
    <2>2. (\E d \in Callers : Attends(d, t)') <=> (\E d \in Callers : Attends(d, t))
      BY <1>11
    <2> QED BY <1>0, <1>1, <1>2, <1>10, <1>11, <2>1, <2>2 DEF TurnInv, AttemptInv
  <1>13. Apart(t)
    <2>1. \A u \in Turns \ {t}, d \in Callers :
              (Attends(d, u)' <=> Attends(d, u)) /\ (Attends(d, u) => caller'[d] = caller[d])
      BY <1>1, <1>10 DEF Attends
    <2> QED BY <1>0, <1>1, <1>3, <1>4, <2>1 DEF Types, Apart, Same
  <1> QED BY <1>7, <1>8, <1>9, <1>12, <1>13 DEF TurnInv

(* The call reads the count: it releases the leader, or leaves. *)
LEMMA CallReleasesStep ==
    ASSUME IInv, NEW t \in Turns, NEW c \in Callers, CallReleasesLeader(c, t)
    PROVE  Types' /\ TurnInv(t)' /\ Apart(t)
  <1>0. Types /\ TurnInv(t)
    BY DEF IInv
  <1>1. /\ Attends(c, t)
        /\ UNCHANGED <<watcher, worker, census, turn, reservations, homes, entries>>
    BY DEF CallReleasesLeader, Attends, placeVars
  <1>2. CASE /\ census[t] = "empty" /\ Reaped(t) /\ PipesClosedIfDone(t)
             /\ leaderReleased' = leaderReleased \cup {t}
             /\ caller' = [caller EXCEPT ![c] = "slot"] /\ UNCHANGED <<holders, target>>
    BY <1>2, ConfirmedStep
  <1>3. CASE /\ Leave(c, t) /\ UNCHANGED leaderReleased
             /\ \/ NotReaped(t) /\ PipesClosedIfDone(t)
                \/ UNCHANGED <<kernelVars, handleVars, openPipes>>
    <2>1. /\ status' \in [Turns -> {"none", "RUNNING", "EXITED", "RELEASED", "LOST"}]
          /\ hasCode' \subseteq Turns /\ status'[t] \in {status[t], Advance(status[t], "gone")}
          /\ \A u \in Turns \ {t} : status'[u] = status[u]
          /\ UNCHANGED <<leader, members, reapedBy, published>>
      BY <1>0, <1>3, NotReapedFacts DEF kernelVars, handleVars, Types
    <2>2. openPipes' \in {openPipes, openPipes \ {t}}
      BY <1>3 DEF PipesClosedIfDone
    <2>3. /\ AttemptInv(t)'
          /\ caller' \in [Callers -> {"idle", "asking", "counted", "slot"}]
          /\ target' \in [Callers -> SUBSET Turns] /\ holders' \in [Turns -> Int]
          /\ \A u \in Turns \ {t} : holders'[u] = holders[u]
          /\ \A u \in Turns \ {t}, d \in Callers :
                (Attends(d, u)' <=> Attends(d, u)) /\ (Attends(d, u) => caller'[d] = caller[d])
      BY <1>1, <1>3, LeaveKeeps
    <2>4. t \in entries
      BY <1>0, <1>1 DEF TurnInv, AttemptInv
    <2>5. Types'
      BY <1>0, <1>1, <1>3, <2>1, <2>2, <2>3 DEF Types
    <2>6. HandleInv(t)'
      BY <1>0, <1>1, <2>1 DEF TurnInv, HandleInv, Advance, Anchored
    <2>7. StageInv(t)' /\ PlaceInv(t)'
      BY <1>0, <1>1, <1>3, <2>1, <2>2, <2>4
         DEF TurnInv, StageInv, PlaceInv, Finished, Untouched
    <2>8. Apart(t)
      BY <1>1, <1>3, <2>1, <2>2, <2>3 DEF Apart, Same
    <2> QED BY <2>3, <2>5, <2>6, <2>7, <2>8 DEF TurnInv
  <1> QED BY <1>2, <1>3 DEF CallReleasesLeader

-----------------------------------------------------------------------------
(* Every step is one turn's, and leaves the others alone. *)
LEMMA IInvStep == IInv /\ [Next]_vars => IInv'
  <1> SUFFICES ASSUME IInv, [Next]_vars PROVE IInv'
    OBVIOUS
  <1>1. ASSUME NEW t \in Turns, Types', TurnInv(t)', Apart(t) PROVE IInv'
    <2>1. \A u \in Turns \ {t} : TurnInv(u)'
      BY <1>1, SameKeeps DEF IInv, Apart
    <2> QED BY <1>1, <2>1 DEF IInv
  <1>2. CASE UNCHANGED vars
    <2> USE DEF vars, leaderVars, placeVars, lostVars, callerVars
    <2>1. Types'
      BY <1>2 DEF IInv, Types
    <2>2. \A t \in Turns : Same(t)
      BY <1>2 DEF Same, Attends
    <2> QED BY <2>1, <2>2, SameKeeps DEF IInv
  <1>3. ASSUME NEW t \in Turns, ThreadsAct(t) PROVE IInv'
    BY <1>1, <1>3, ThreadsStep
  <1>4. ASSUME NEW t \in Turns, ProcessesAct(t) PROVE IInv'
    BY <1>1, <1>4, ProcessesStep
  <1>5. ASSUME NEW t \in Turns, TurnActs(t) PROVE IInv'
    BY <1>1, <1>5, StartingStep, RollbackStep, BodyStep, ReleaseStep DEF TurnActs
  <1>6. ASSUME NEW t \in Turns, WorkerLeaves(t) PROVE IInv'
    BY <1>1, <1>6, WorkerLeavesStep
  <1>7. ASSUME NEW c \in Callers, NEW t \in Turns, CallerActs(c, t) PROVE IInv'
    BY <1>1, <1>7, BeginStep, StartFailsStep, CancelStep, CallReleasesStep, FreesPlaceStep
       DEF CallerActs
  <1> QED BY <1>2, <1>3, <1>4, <1>5, <1>6, <1>7 DEF Next

LEMMA Invariance == Spec => []IInv
  BY IInvInit, IInvStep, PTL DEF Spec

(* A place is never free beside a group whose end nobody knows: neither a    *)
(* turn's own end (anchored_turn_child) nor a later confirm_group_gone frees *)
(* a slot or removes a run's tree before the reap that an empty count        *)
(* allowed.                                                                  *)
THEOREM NoPlaceBesideALiveGroup == Spec => []PlaceNeverFreeBesideALiveGroup
  <1>1. IInv => PlaceNeverFreeBesideALiveGroup
    BY DEF IInv, TurnInv, PlaceInv, Finished, PlaceNeverFreeBesideALiveGroup, TreeRemoved
  <1> QED BY <1>1, Invariance, PTL

(* After the handle's waitpid no thread of it uses the number: no signal, no  *)
(* count and no wait of _AnchoredLeader can meet another group under it.      *)
THEOREM NumberIsLeftAlone == Spec => []NumberNeverUsedAfterReap
  <1>1. IInv => NumberNeverUsedAfterReap
    BY DEF IInv, TurnInv, HandleInv, NumberNeverUsedAfterReap
  <1> QED BY <1>1, Invariance, PTL

(* What a finished turn holds stands in lost_groups' registry, so that a     *)
(* later confirmation can free it, with the typing of the whole state: at    *)
(* most PoolLimit slots, and at most two holders of an attempt.              *)
THEOREM EveryHeldPlaceHasAName == Spec => []HeldPlaceHasAName
  <1>1. IInv => HeldPlaceHasAName
    <2> SUFFICES ASSUME IInv PROVE HeldPlaceHasAName
      OBVIOUS
    <2>1. ASSUME NEW t \in Turns PROVE holders[t] \in 0 .. 2
      BY DEF IInv, TurnInv, AttemptInv
    <2>2. holders \in [Turns -> 0 .. 2]
      BY <2>1 DEF IInv, Types
    <2>3. leaderReleased \subseteq entries \cup (Turns \ reservations)
      BY DEF IInv, Types, TurnInv, PlaceInv
    <2>4. TypeOK
      BY <2>2, <2>3 DEF IInv, Types, TypeOK
    <2>5. \A t \in Turns : turn[t] = "over" /\ t \in reservations \cup homes => t \in entries
      BY DEF IInv, TurnInv, PlaceInv
    <2> QED BY <2>4, <2>5 DEF HeldPlaceHasAName
  <1> QED BY <1>1, Invariance, PTL
=============================================================================

---------------------------- MODULE AnchoredLeader ----------------------------
(***************************************************************************)
(* spawn.AnchoredLeader: the handle of a child that leads a process group, *)
(* its watcher thread, the lifecycle lock, and what the kernel does with   *)
(* the group.  The exited leader stays a zombie, and so keeps its number,  *)
(* until the handle reaps it.  LostGroups.tla composes it with the turns.  *)
(***************************************************************************)
EXTENDS Naturals, FiniteSets

CONSTANT Turns          \* the CLI turns, each with a child of its own

ASSUME TurnsAssumption == IsFiniteSet(Turns)

VARIABLES
    leader,     \* the leader to the kernel: none, running, doomed, zombie, reaped
    members,    \* the others of its group: none, alive, doomed (SIGKILL is pending)
    reapedBy,   \* nobody, handle, or elsewhere (another waitpid of the process)
    status,     \* LeaderStatus.state: none before the start
    hasCode,    \* the turns whose LeaderStatus.returncode is set
    watcher,    \* the thread child-exit:<pid>
    published,  \* on_exit: no, announced, set (the exit event)
    worker,     \* kill_and_census in its thread: idle, kill, count, over
    census      \* what it ended with

leaderVars == <<leader, members, reapedBy, status, hasCode, watcher, published, worker, census>>
kernelVars == <<leader, members, reapedBy>>
handleVars == <<status, hasCode, published>>

Anchored == {"RUNNING", "EXITED"}
AnyCount == {"live", "empty", "unavailable"}

-----------------------------------------------------------------------------
(* advance: the whole lifecycle, RELEASED and LOST absorb every event. *)
Advance(state, event) ==
    CASE state = "RUNNING" /\ event = "exited" -> "EXITED"
      [] state \in Anchored /\ event = "reaped" -> "RELEASED"
      [] state \in Anchored /\ event = "gone" -> "LOST"
      [] OTHER -> state

(* _apply under the lock, and the announcement when RUNNING is left. *)
Applied(t, event) ==
    /\ status' = [status EXCEPT ![t] = Advance(@, event)]
    /\ hasCode' = IF status[t] = "RUNNING" /\ event \in {"exited", "reaped"}
                    THEN hasCode \cup {t} ELSE hasCode

AnnouncedExitOnly(t, event) ==   \* mutant: a loss is not announced
    published' = IF status[t] = "RUNNING" /\ event = "exited"
                   THEN [published EXCEPT ![t] = "announced"] ELSE published

Announced(t, event) ==
    published' = IF status[t] = "RUNNING" /\ Advance("RUNNING", event) # "RUNNING"
                   THEN [published EXCEPT ![t] = "announced"] ELSE published

(* The lock is free: only kill_and_census holds it over more than a step. *)
LockFree(t) == worker[t] # "count"

-----------------------------------------------------------------------------
(* The kernel and the processes of the group. *)
LeaderExits(t) ==
    /\ leader[t] \in {"running", "doomed"}
    /\ leader' = [leader EXCEPT ![t] = "zombie"]
    /\ UNCHANGED <<members, reapedBy>>

MembersCome(t) ==
    /\ leader[t] = "running" /\ members[t] = "none"
    /\ members' = [members EXCEPT ![t] = "alive"]
    /\ UNCHANGED <<leader, reapedBy>>

MembersGo(t) ==
    /\ members[t] # "none"
    /\ members' = [members EXCEPT ![t] = "none"]
    /\ UNCHANGED <<leader, reapedBy>>

ReapedElsewhere(t) ==
    /\ leader[t] = "zombie"
    /\ leader' = [leader EXCEPT ![t] = "reaped"]
    /\ reapedBy' = [reapedBy EXCEPT ![t] = "elsewhere"]
    /\ UNCHANGED members

KernelActs(t) ==
    /\ LeaderExits(t) \/ MembersCome(t) \/ MembersGo(t) \/ ReapedElsewhere(t)
    /\ UNCHANGED <<handleVars, watcher, worker, census>>

(* killpg meets ESRCH only if nothing has the number, a zombie included;    *)
(* once the number is free another group may have it, and it succeeds.      *)
MayMissGroup(t) == leader[t] = "reaped" /\ members[t] = "none"
MayReachGroup(t) == ~MayMissGroup(t) \/ reapedBy[t] = "elsewhere"

SigkillSent(t) ==
    /\ leader' = [leader EXCEPT ![t] = IF @ = "running" THEN "doomed" ELSE @]
    /\ members' = [members EXCEPT ![t] = IF @ = "alive" THEN "doomed" ELSE @]

(* group_census: EMPTY only when the anchor is visible and nothing lives.   *)
Counts(t) ==
    CASE leader[t] = "reaped" -> IF reapedBy[t] = "elsewhere" THEN AnyCount ELSE {"unavailable"}
      [] leader[t] = "zombie" /\ members[t] = "none" -> {"empty", "unavailable"}
      [] OTHER -> {"live", "unavailable"}

-----------------------------------------------------------------------------
WatcherEndsWaiting(t) ==         \* mutant: the watcher waits again after its commit
    /\ watcher[t] \in {"saw_exit", "saw_loss"}
    /\ LockFree(t)
    /\ LET event == IF watcher[t] = "saw_exit" THEN "exited" ELSE "gone"
       IN Applied(t, event) /\ Announced(t, event)
    /\ watcher' = [watcher EXCEPT ![t] = "waiting"]
    /\ UNCHANGED <<kernelVars, worker, census>>

(* _commit of the watcher's observation, its last act.  The thread ends.    *)
WatcherCommits(t) ==
    /\ watcher[t] \in {"saw_exit", "saw_loss"}
    /\ LockFree(t)
    /\ LET event == IF watcher[t] = "saw_exit" THEN "exited" ELSE "gone"
       IN Applied(t, event) /\ Announced(t, event)
    /\ watcher' = [watcher EXCEPT ![t] = "ended"]
    /\ UNCHANGED <<kernelVars, worker, census>>

(* _watch: waitid without reaping; a traced leader also reports stops. *)
WatcherWaits(t) ==
    /\ watcher[t] = "waiting"
    /\ \/ leader[t] = "zombie" /\ watcher' = [watcher EXCEPT ![t] = "saw_exit"]
       \/ leader[t] = "reaped" /\ watcher' = [watcher EXCEPT ![t] = "saw_loss"]
       \/ leader[t] = "running" /\ watcher' = [watcher EXCEPT ![t] = "saw_stop"]
    /\ UNCHANGED <<kernelVars, handleVars, worker, census>>

(* After a stop report the state is read first, under the lock. *)
WatcherReadsState(t) ==
    /\ watcher[t] = "saw_stop"
    /\ LockFree(t)
    /\ watcher' = [watcher EXCEPT ![t] = IF status[t] = "RUNNING" THEN "consuming" ELSE "ended"]
    /\ UNCHANGED <<kernelVars, handleVars, worker, census>>

WatcherConsumes(t) ==
    /\ watcher[t] = "consuming"
    /\ watcher' = [watcher EXCEPT ![t] = IF leader[t] = "reaped" THEN "saw_loss" ELSE "waiting"]
    /\ UNCHANGED <<kernelVars, handleVars, worker, census>>

WatcherActs(t) ==
    WatcherWaits(t) \/ WatcherReadsState(t) \/ WatcherConsumes(t) \/ WatcherCommits(t)

(* call_soon_threadsafe(exit_published.set), run by the loop. *)
ExitPublished(t) ==
    /\ published[t] = "announced"
    /\ published' = [published EXCEPT ![t] = "set"]
    /\ UNCHANGED <<kernelVars, status, hasCode, watcher, worker, census>>

-----------------------------------------------------------------------------
(* kill_and_census, first half: admission and SIGKILL. *)
WorkerKills(t) ==
    /\ worker[t] = "kill"
    /\ \/ /\ status[t] \notin Anchored          \* refused without a kernel call
          /\ worker' = [worker EXCEPT ![t] = "over"]
          /\ census' = [census EXCEPT ![t] = "raised"]
          /\ UNCHANGED <<kernelVars, handleVars>>
       \/ /\ status[t] \in Anchored /\ MayMissGroup(t)
          /\ Applied(t, "gone") /\ Announced(t, "gone")
          /\ worker' = [worker EXCEPT ![t] = "over"]
          /\ census' = [census EXCEPT ![t] = "raised"]
          /\ UNCHANGED kernelVars
       \/ /\ status[t] \in Anchored             \* any other OSError of killpg
          /\ worker' = [worker EXCEPT ![t] = "over"]
          /\ census' = [census EXCEPT ![t] = "raised"]
          /\ UNCHANGED <<kernelVars, handleVars>>
       \/ /\ status[t] \in Anchored /\ MayReachGroup(t)
          /\ SigkillSent(t)
          /\ worker' = [worker EXCEPT ![t] = "count"]
          /\ UNCHANGED <<reapedBy, handleVars, census>>
    /\ UNCHANGED watcher

(* Second half, in the same hold of the lock: the scan of /proc. *)
WorkerCounts(t) ==
    /\ worker[t] = "count"
    /\ worker' = [worker EXCEPT ![t] = "over"]
    /\ \E count \in Counts(t) : census' = [census EXCEPT ![t] = count]
    /\ UNCHANGED <<kernelVars, handleVars, watcher>>

(* release: the one reap, of an exit that was published; it returns. *)
Reaped(t) ==
    /\ LockFree(t)
    /\ status[t] = "EXITED" /\ leader[t] = "zombie"
    /\ leader' = [leader EXCEPT ![t] = "reaped"]
    /\ reapedBy' = [reapedBy EXCEPT ![t] = "handle"]
    /\ Applied(t, "reaped")
    /\ UNCHANGED <<members, published>>

(* release raises: the state does not admit it, or the reap finds no child. *)
NotReaped(t) ==
    /\ LockFree(t)
    /\ \/ status[t] \in {"RUNNING", "LOST"} /\ UNCHANGED <<status, hasCode>>
       \/ status[t] = "EXITED" /\ leader[t] = "reaped" /\ Applied(t, "gone")
    /\ UNCHANGED <<kernelVars, published>>
=============================================================================

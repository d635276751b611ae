----------------------------- MODULE PrivateHome -----------------------------
(***************************************************************************)
(* process.PrivateHome: a disposable home that several threads hold.  It   *)
(* waits on no lock: a reservation, the request to close and the removal   *)
(* are single operations, so each release and each close looks again, in a *)
(* later step, whether it was the last.  BoundedRun.tla uses the homes.    *)
(***************************************************************************)
EXTENDS Naturals, FiniteSets

CONSTANTS Jobs,         \* the CLI runs, each with one reservation of its home
          TurnHome      \* the home the rounds of one turn share; others have their own

ASSUME HomeAssumption == IsFiniteSet(Jobs) /\ TurnHome \notin Jobs

Homes == Jobs \cup {TurnHome}

VARIABLES
    kind,         \* what starts a job: probe, codex, grok, image or none
    tokens,       \* the jobs whose PrivateHomeReservation is held
    closing,      \* the homes with _cleanup_requested
    claimed,      \* the homes whose _removal_claim is taken
    tree,         \* per home: there, gone, or kept by a removal that failed
    releaser,     \* per job, where the thread is that releases its token
    closer        \* per home, where the thread is that closes it

homeVars == <<tokens, closing, claimed, tree, releaser, closer>>

HomeOf(j) == IF kind[j] \in {"codex", "grok"} THEN TurnHome ELSE j

-----------------------------------------------------------------------------
(* reserve, by the thread that also closes later: the home is open. *)
Reserved(j) ==
    /\ HomeOf(j) \notin closing
    /\ tokens' = tokens \cup {j}

(* _release discards the token, then looks whether the home is unused. *)
TokenReleased(j) ==
    /\ tokens' = tokens \ {j}
    /\ releaser' = [releaser EXCEPT ![j] = "looks"]
    /\ UNCHANGED <<closing, claimed, tree, closer>>

CloseRequested(h) ==
    /\ closing' = closing \cup {h}
    /\ closer' = [closer EXCEPT ![h] = "looks"]
    /\ UNCHANGED <<tokens, claimed, tree, releaser>>

UnusedWhenClosed(h) == h \in closing        \* mutant: the tokens are not looked at

(* _remove_if_unused: what it reads before it tries the claim. *)
Unused(h) == h \in closing /\ \A j \in tokens : HomeOf(j) # h

(* The claim, taken without waiting; whoever has it removes the home, and a *)
(* removal that fails leaves the home to its finalizer.                     *)
Looks(h, place) ==
    IF Unused(h) /\ h \notin claimed
      THEN place = "removes" /\ claimed' = claimed \cup {h}
      ELSE place = "none" /\ UNCHANGED claimed

Removes(h) ==
    /\ claimed' = claimed \ {h}
    /\ \/ tree' = [tree EXCEPT ![h] = "gone"]
       \/ tree[h] # "gone" /\ tree' = [tree EXCEPT ![h] = "kept"]

ReleaserLooks(j) ==
    /\ releaser[j] = "looks"
    /\ \E place \in {"removes", "none"} :
         Looks(HomeOf(j), place) /\ releaser' = [releaser EXCEPT ![j] = place]
    /\ UNCHANGED <<tokens, closing, tree, closer>>

ReleaserRemoves(j) ==
    /\ releaser[j] = "removes"
    /\ Removes(HomeOf(j))
    /\ releaser' = [releaser EXCEPT ![j] = "none"]
    /\ UNCHANGED <<tokens, closing, closer>>

CloserLooks(h) ==
    /\ closer[h] = "looks"
    /\ \E place \in {"removes", "none"} :
         Looks(h, place) /\ closer' = [closer EXCEPT ![h] = place]
    /\ UNCHANGED <<tokens, closing, tree, releaser>>

CloserRemoves(h) ==
    /\ closer[h] = "removes"
    /\ Removes(h)
    /\ closer' = [closer EXCEPT ![h] = "none"]
    /\ UNCHANGED <<tokens, closing, releaser>>

HomeSteps ==
    \/ \E j \in Jobs : ReleaserLooks(j) \/ ReleaserRemoves(j)
    \/ \E h \in Homes : CloserLooks(h) \/ CloserRemoves(h)

HomeInit(earlier) ==
    /\ tokens = earlier /\ closing = {} /\ claimed = {}
    /\ tree = [h \in Homes |-> "there"]
    /\ releaser = [j \in Jobs |-> "none"]
    /\ closer = [h \in Homes |-> "none"]
=============================================================================

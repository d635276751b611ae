---------------------------- MODULE CliRunsProofs ----------------------------
(***************************************************************************)
(* Proofs about CliRuns for any number of runs, callers and clears: what a *)
(* child uses is kept while it may live, all sides of a run learn the same *)
(* outcome, no line is lost in a complete run, and no answer outlives the  *)
(* clear of its probe.                                                     *)
(***************************************************************************)
EXTENDS CliRuns, TLAPS

Outcomes == {"none", "complete", "failed", "gave_up"}
Places == {"none", "looks", "removes"}

Types ==
    /\ kind \in [Jobs -> {"probe", "codex", "grok", "image", "none"}]
    /\ tokens \subseteq Jobs /\ closing \subseteq Homes /\ claimed \subseteq Homes
    /\ tree \in [Homes -> {"there", "gone", "kept"}]
    /\ releaser \in [Jobs -> Places] /\ closer \in [Homes -> Places]
    /\ lines \in [Jobs -> Nat] /\ sent \in [Jobs -> Nat]
    /\ dropped \subseteq Jobs /\ aborted \subseteq Jobs
    /\ chan \in [Jobs -> Outcomes] /\ callOut \in [Jobs -> Outcomes]
    /\ workOut \in [Jobs -> Outcomes] /\ recorded \in [Jobs -> Outcomes]
    /\ call \in [Jobs -> {"new", "starting", "waiting", "settling", "raising", "raised", "slot",
                          "settle", "record", "returned"}]
    /\ work \in [Jobs -> {"none", "start", "exchange", "reap", "slot", "settle", "record",
                          "background", "held", "ended"}]
    /\ child \in [Jobs -> {"none", "alive", "gone"}]
    /\ zombies \subseteq Jobs /\ slots \subseteq Jobs /\ bound \subseteq Jobs
    /\ reader \in [Jobs -> {"idle", "admitting", "refusing", "reading", "awaiting", "draining",
                            "flying", "landing", "published", "never", "over"}]
    /\ generation \in Nat /\ flightGen \in [Jobs -> Nat]
    /\ cached \subseteq Jobs /\ inflight \subseteq Jobs /\ resolved \subseteq Jobs
    /\ asks \in [Callers -> {"idle", "over"} \cup Jobs]

(* Reader, caller and worker of a run take it over from each other. *)
StageInv(j) ==
    /\ reader[j] \in {"idle", "admitting", "refusing"} => call[j] = "new"
    /\ call[j] \in {"new", "starting", "slot"} => work[j] = "none"
    /\ call[j] \in {"waiting", "settling", "raising", "raised"} => work[j] # "none"
    /\ work[j] \in {"none", "start", "exchange", "reap"} => j \notin zombies
    /\ work[j] \in {"background", "held"} => j \in zombies

(* A worker that still has its child, or left it to the background. *)
Keeping(j) == \/ work[j] \in {"exchange", "reap", "background", "held"}
              \/ work[j] \in {"settle", "record"} /\ j \in zombies

(* The token and the place of a run, by where its threads are. *)
PlaceInv(j) ==
    /\ j \in tokens <=> reader[j] = "admitting" \/ call[j] = "starting" \/ work[j] = "start"
                        \/ Keeping(j)
    /\ releaser[j] # "none" => j \notin tokens /\ reader[j] # "idle"
    /\ child[j] = "alive" => Keeping(j)
    /\ work[j] \in {"none", "start"} => child[j] = "none"
    /\ child[j] = "none" => j \notin bound
    /\ kind[j] \in Pooled /\ (call[j] = "starting" \/ work[j] = "start" \/ child[j] = "alive") =>
          j \in slots
    /\ work[j] = "ended" \/ (work[j] \in {"settle", "record"} /\ j \notin zombies) => j \notin slots
    /\ work[j] = "none" /\ call[j] \in {"settle", "record", "returned"} => j \notin slots

(* The outcome on its way to the channel, the record and the caller. *)
OutcomeInv(j) ==
    /\ work[j] \in {"reap", "settle", "record"} \/ (work[j] = "slot" /\ j \notin zombies) =>
          workOut[j] # "none"
    /\ work[j] = "record" => chan[j] = workOut[j]
    /\ call[j] \in {"slot", "settle", "record"} => callOut[j] # "none"
    /\ call[j] = "record" => chan[j] = callOut[j]
    /\ recorded[j] # "none" => chan[j] = recorded[j]
    /\ call[j] = "returned" => recorded[j] # "none" /\ callOut[j] = recorded[j]

(* Only a worker whose exchange was complete completes the channel. *)
LineInv(j) ==
    /\ chan[j] = "complete" => j \notin dropped
    /\ work[j] \in {"none", "start", "exchange", "reap", "settle"}
       \/ (work[j] = "slot" /\ j \notin zombies) => chan[j] # "complete"
    /\ call[j] \in {"slot", "settle"} => callOut[j] \in {"failed", "gave_up"}
    /\ j \in dropped /\ chan[j] = "none" =>
          workOut[j] = "failed" /\ work[j] \in {"reap", "slot", "settle"} /\ (work[j] = "slot" => j \notin zombies)

JobInv(j) == StageInv(j) /\ PlaceInv(j) /\ OutcomeInv(j) /\ LineInv(j)

(* Somebody removes a home, and then nobody uses it or will again. *)
Removing(h) == closer[h] = "removes" \/ \E j \in Jobs : HomeOf(j) = h /\ releaser[j] = "removes"

HomeInv(h) ==
    /\ closer[h] # "none" => h \in closing
    /\ h \in claimed => Removing(h)
    /\ Removing(h) \/ tree[h] # "there" => Unused(h)
    /\ h \in closing => \/ tree[h] # "there" \/ closer[h] # "none"
                        \/ \E j \in Jobs : HomeOf(j) = h /\ (j \in tokens \/ releaser[j] # "none")

IInv ==
    /\ Types /\ ClearedAnswerNeverServed
    /\ \A j \in Jobs : JobInv(j)
    /\ \A h \in Homes : HomeInv(h)

-----------------------------------------------------------------------------
LEMMA IInvInit == Init => IInv
  <1> SUFFICES ASSUME Init PROVE IInv
    OBVIOUS
  <1> DEFINE earlier == {j \in Earlier : kind[j] \in Streamed}
  <1>1. /\ kind \in Kinds /\ RunInit(earlier)
        /\ reader = [j \in Jobs |-> IF j \in earlier THEN "over" ELSE "idle"]
        /\ earlier \subseteq Jobs
        /\ kind \in [Jobs -> {"probe", "codex", "grok", "image", "none"}]
    BY CallersAssumption DEF Init
  <1> HIDE DEF earlier
  <1>2. /\ tokens = earlier /\ closing = {} /\ claimed = {} /\ dropped = {} /\ aborted = {}
        /\ tree = [h \in Homes |-> "there"] /\ releaser = [j \in Jobs |-> "none"]
        /\ closer = [h \in Homes |-> "none"]
        /\ lines = [j \in Jobs |-> 0] /\ sent = [j \in Jobs |-> 0]
        /\ chan = [j \in Jobs |-> IF j \in earlier THEN "failed" ELSE "none"]
        /\ call = [j \in Jobs |-> IF j \in earlier THEN "returned" ELSE "new"]
        /\ callOut = [j \in Jobs |-> IF j \in earlier THEN "failed" ELSE "none"]
        /\ work = [j \in Jobs |-> IF j \in earlier THEN "background" ELSE "none"]
        /\ workOut = [j \in Jobs |-> IF j \in earlier THEN "none" ELSE "none"]
        /\ recorded = [j \in Jobs |-> IF j \in earlier THEN "failed" ELSE "none"]
        /\ child = [j \in Jobs |-> IF j \in earlier THEN "alive" ELSE "none"]
        /\ zombies = earlier
        /\ slots = {j \in earlier : kind[j] \in Pooled} /\ bound = {j \in earlier : kind[j] \in Pooled}
    BY <1>1 DEF RunInit, HomeInit, ChannelInit
  <1>3. /\ generation = 0 /\ cached = {} /\ inflight = {} /\ resolved = {}
        /\ flightGen = [j \in Jobs |-> 0] /\ asks = [p \in Callers |-> "idle"]
    BY DEF Init
  <1>4. Types
    BY <1>1, <1>2, <1>3 DEF Types, Outcomes, Places
  <1>5. ClearedAnswerNeverServed
    BY <1>3 DEF ClearedAnswerNeverServed
  <1>6. ASSUME NEW j \in Jobs PROVE JobInv(j)
    <2>1. CASE j \in earlier
      BY <1>1, <1>2, <2>1 DEF JobInv, StageInv, PlaceInv, Keeping, OutcomeInv, LineInv
    <2>2. CASE j \notin earlier
      BY <1>1, <1>2, <2>2 DEF JobInv, StageInv, PlaceInv, Keeping, OutcomeInv, LineInv
    <2> QED BY <2>1, <2>2
  <1>7. ASSUME NEW h \in Homes PROVE HomeInv(h)
    BY <1>2 DEF HomeInv, Removing
  <1> QED BY <1>4, <1>5, <1>6, <1>7 DEF IInv

-----------------------------------------------------------------------------
(* A step of one run leaves the others where they are. *)
Alike(d) ==
    /\ d \in tokens' <=> d \in tokens
    /\ d \in zombies' <=> d \in zombies
    /\ d \in slots' <=> d \in slots
    /\ d \in bound' => d \in bound
    /\ d \in dropped' <=> d \in dropped
    /\ kind'[d] = kind[d] /\ reader'[d] = reader[d] /\ releaser'[d] = releaser[d]
    /\ call'[d] = call[d] /\ callOut'[d] = callOut[d]
    /\ work'[d] = work[d] /\ workOut'[d] = workOut[d]
    /\ recorded'[d] = recorded[d] /\ child'[d] = child[d] /\ chan'[d] = chan[d]

LEMMA AlikeKeeps ==
    ASSUME NEW d \in Jobs, JobInv(d), Alike(d) PROVE JobInv(d)'
  BY DEF JobInv, StageInv, PlaceInv, Keeping, OutcomeInv, LineInv, Alike

LEMMA OneJob ==
    ASSUME IInv, NEW j \in Jobs, UNCHANGED probeVars, Types', JobInv(j)',
           \A d \in Jobs : d # j => Alike(d),
           \A h \in Homes : HomeInv(h)'
    PROVE  IInv'
  <1>1. ClearedAnswerNeverServed'
    BY DEF IInv, probeVars, ClearedAnswerNeverServed
  <1>2. \A d \in Jobs : JobInv(d)'
    BY AlikeKeeps DEF IInv
  <1> QED BY <1>1, <1>2 DEF IInv

-----------------------------------------------------------------------------
(* The homes under the steps of those who hold, release, close and remove   *)
(* them.                                                                    *)
LEMMA HomesAreAlike ==
    ASSUME \A h \in Homes : HomeInv(h), UNCHANGED <<kind, homeVars>>
    PROVE  \A h \in Homes : HomeInv(h)'
  BY DEF homeVars, HomeInv, Removing, Unused, HomeOf

LEMMA HomeReserved ==
    ASSUME IInv, NEW j \in Jobs, Reserved(j),
           UNCHANGED <<kind, closing, claimed, tree, releaser, closer>>
    PROVE  \A h \in Homes : HomeInv(h)'
  <1> SUFFICES ASSUME NEW h \in Homes PROVE HomeInv(h)'
    OBVIOUS
  <1>1. HomeInv(h)
    BY DEF IInv
  <1>2. Removing(h)' <=> Removing(h)
    BY DEF Removing, HomeOf
  <1>3. Unused(h) => Unused(h)'
    BY DEF Reserved, Unused, HomeOf
  <1>4. ASSUME \E d \in Jobs : HomeOf(d) = h /\ (d \in tokens \/ releaser[d] # "none")
        PROVE  (\E d \in Jobs : HomeOf(d) = h /\ (d \in tokens \/ releaser[d] # "none"))'
    BY <1>4 DEF Reserved, HomeOf
  <1> QED BY <1>1, <1>2, <1>3, <1>4 DEF HomeInv

LEMMA HomeReleased ==
    ASSUME IInv, NEW j \in Jobs, j \in tokens, TokenReleased(j), UNCHANGED kind
    PROVE  \A h \in Homes : HomeInv(h)'
  <1> SUFFICES ASSUME NEW h \in Homes PROVE HomeInv(h)'
    OBVIOUS
  <1>1. HomeInv(h) /\ releaser[j] = "none" /\ releaser \in [Jobs -> Places]
    BY DEF IInv, JobInv, PlaceInv, Types
  <1>2. /\ releaser' = [releaser EXCEPT ![j] = "looks"] /\ tokens' = tokens \ {j}
        /\ UNCHANGED <<closing, claimed, tree, closer, kind>>
    BY DEF TokenReleased
  <1>3. Removing(h)' <=> Removing(h)
    <2>1. \A d \in Jobs : releaser'[d] = "removes" <=> releaser[d] = "removes"
      BY <1>1, <1>2
    <2> QED BY <1>2, <2>1 DEF Removing, HomeOf
  <1>4. Unused(h) => Unused(h)'
    BY <1>2 DEF Unused, HomeOf
  <1>5. ASSUME NEW d \in Jobs, HomeOf(d) = h, d \in tokens \/ releaser[d] # "none"
        PROVE  (HomeOf(d) = h /\ (d \in tokens \/ releaser[d] # "none"))'
    BY <1>1, <1>2, <1>5 DEF HomeOf
  <1> QED BY <1>1, <1>2, <1>3, <1>4, <1>5 DEF HomeInv

LEMMA HomeRequested ==
    ASSUME IInv, NEW g \in Homes, g \notin closing, CloseRequested(g), UNCHANGED kind
    PROVE  \A h \in Homes : HomeInv(h)'
  <1> SUFFICES ASSUME NEW h \in Homes PROVE HomeInv(h)'
    OBVIOUS
  <1>1. HomeInv(h) /\ HomeInv(g) /\ closer \in [Homes -> Places]
    BY DEF IInv, Types
  <1>2. /\ closing' = closing \cup {g} /\ closer' = [closer EXCEPT ![g] = "looks"]
        /\ UNCHANGED <<tokens, claimed, tree, releaser, kind>>
    BY DEF CloseRequested
  <1>3. Removing(h)' <=> Removing(h)
    <2>1. closer'[h] = "removes" <=> closer[h] = "removes"
      BY <1>1, <1>2 DEF HomeInv
    <2> QED BY <1>2, <2>1 DEF Removing, HomeOf
  <1>4. Unused(h) => Unused(h)'
    BY <1>2 DEF Unused, HomeOf
  <1>5. ASSUME NEW d \in Jobs, HomeOf(d) = h, d \in tokens \/ releaser[d] # "none"
        PROVE  (HomeOf(d) = h /\ (d \in tokens \/ releaser[d] # "none"))'
    BY <1>2, <1>5 DEF HomeOf
  <1> QED BY <1>1, <1>2, <1>3, <1>4, <1>5 DEF HomeInv

LEMMA HomeStepKeeps ==
    ASSUME IInv, HomeStep
    PROVE  IInv'
  <1> USE DEF HomeStep, probeVars, channelVars, threadVars, slotVars
  <1>0. Types /\ \A h \in Homes : HomeInv(h)
    BY DEF IInv
  <1>1. ASSUME NEW j \in Jobs, ReleaserLooks(j) \/ ReleaserRemoves(j) PROVE IInv'
    <2>1. HomeOf(j) \in Homes /\ HomeOf(j)' = HomeOf(j)
      BY DEF HomeOf, Homes
    <2>2. Types'
      <3>1. CASE ReleaserLooks(j)
        BY <1>0, <2>1, <3>1 DEF ReleaserLooks, Looks, Types, Places
      <3>2. CASE ReleaserRemoves(j)
        BY <1>0, <2>1, <3>2 DEF ReleaserRemoves, Removes, Types, Places
      <3> QED BY <1>1, <3>1, <3>2
    <2>3. JobInv(j)'
      <3>1. JobInv(j) /\ releaser[j] # "none" /\ UNCHANGED tokens
        BY <1>1 DEF IInv, ReleaserLooks, ReleaserRemoves
      <3> QED BY <3>1 DEF JobInv, StageInv, PlaceInv, Keeping, OutcomeInv, LineInv
    <2>4. ASSUME NEW d \in Jobs, d # j PROVE Alike(d)
      BY <1>0, <1>1, <2>4 DEF ReleaserLooks, ReleaserRemoves, Alike, Types
    <2>5. ASSUME NEW h \in Homes PROVE HomeInv(h)'
      <3>1. HomeInv(h) /\ UNCHANGED <<tokens, closing, closer, kind>> /\ (Unused(h)' <=> Unused(h))
            /\ releaser \in [Jobs -> Places] /\ tree \in [Homes -> {"there", "gone", "kept"}]
        BY <1>0, <1>1 DEF ReleaserLooks, ReleaserRemoves, Unused, HomeOf, Types
      <3>2. CASE HomeOf(j) # h
        <4>1. /\ h \in claimed' <=> h \in claimed
              /\ tree'[h] = tree[h]
              /\ \A d \in Jobs : HomeOf(d) = h => releaser'[d] = releaser[d]
          BY <1>1, <2>1, <3>1, <3>2 DEF ReleaserLooks, ReleaserRemoves, Looks, Removes
        <4>2. Removing(h)' <=> Removing(h)
          BY <3>1, <4>1 DEF Removing, HomeOf
        <4>3. \A d \in Jobs : HomeOf(d)' = HomeOf(d)
          BY <3>1 DEF HomeOf
        <4> QED BY <3>1, <4>1, <4>2, <4>3 DEF HomeInv
      <3>3. CASE HomeOf(j) = h /\ ReleaserRemoves(j)
        <4>1. /\ Unused(h) /\ h \notin claimed' /\ tree'[h] # "there"
          BY <3>1, <3>3 DEF ReleaserRemoves, Removes, HomeInv, Removing
        <4> QED BY <3>1, <4>1 DEF HomeInv
      <3>4. CASE HomeOf(j) = h /\ ReleaserLooks(j) /\ Unused(h) /\ h \notin claimed
        <4>1. releaser'[j] = "removes" /\ UNCHANGED tree
          BY <3>1, <3>4 DEF ReleaserLooks, Looks
        <4>2. Removing(h)' /\ h \in closing
          BY <2>1, <3>4, <4>1 DEF Removing, Unused
        <4> QED BY <2>1, <3>1, <3>4, <4>1, <4>2 DEF HomeInv
      <3>5. CASE HomeOf(j) = h /\ ReleaserLooks(j) /\ ~(Unused(h) /\ h \notin claimed)
        <4>1. /\ releaser' = [releaser EXCEPT ![j] = "none"] /\ releaser[j] = "looks"
              /\ UNCHANGED <<claimed, tree>>
          BY <3>5 DEF ReleaserLooks, Looks
        <4>2. Removing(h)' <=> Removing(h)
          BY <3>1, <4>1 DEF Removing, HomeOf
        <4>3. h \in closing =>
                 \/ closer[h] # "none"
                 \/ (\E d \in Jobs : HomeOf(d) = h /\ (d \in tokens \/ releaser[d] # "none"))'
          <5>1. CASE h \in claimed
            <6>1. closer[h] = "removes" \/ \E d \in Jobs : HomeOf(d) = h /\ releaser'[d] = "removes"
              BY <3>1, <4>1, <5>1 DEF HomeInv, Removing
            <6> QED BY <3>1, <6>1 DEF HomeOf
          <5>2. CASE ~Unused(h)
            BY <1>0, <3>1, <5>2 DEF Unused, HomeOf, Types
          <5> QED BY <3>5, <5>1, <5>2
        <4> QED BY <3>1, <4>1, <4>2, <4>3 DEF HomeInv
      <3> QED BY <1>1, <3>2, <3>3, <3>4, <3>5
    <2> QED BY <2>2, <2>3, <2>4, <2>5, OneJob
  <1>2. ASSUME NEW g \in Homes, CloserLooks(g) \/ CloserRemoves(g) PROVE IInv'
    <2>1. UNCHANGED <<tokens, closing, releaser, kind>>
      BY <1>2 DEF CloserLooks, CloserRemoves
    <2>2. Types'
      <3>1. CASE CloserLooks(g)
        BY <1>0, <3>1 DEF CloserLooks, Looks, Types, Places
      <3>2. CASE CloserRemoves(g)
        BY <1>0, <3>2 DEF CloserRemoves, Removes, Types, Places
      <3> QED BY <1>2, <3>1, <3>2
    <2>3. \A d \in Jobs : Alike(d)
      BY <2>1 DEF Alike
    <2>4. ASSUME NEW h \in Homes PROVE HomeInv(h)'
      <3>1. HomeInv(h) /\ (Unused(h)' <=> Unused(h)) /\ (\A d \in Jobs : HomeOf(d)' = HomeOf(d))
            /\ closer \in [Homes -> Places] /\ tree \in [Homes -> {"there", "gone", "kept"}]
        BY <1>0, <2>1 DEF Unused, HomeOf, Types
      <3>2. CASE g # h
        <4>1. /\ h \in claimed' <=> h \in claimed
              /\ tree'[h] = tree[h] /\ closer'[h] = closer[h]
          BY <1>2, <3>1, <3>2 DEF CloserLooks, CloserRemoves, Looks, Removes
        <4>2. Removing(h)' <=> Removing(h)
          BY <2>1, <3>1, <4>1 DEF Removing
        <4> QED BY <2>1, <3>1, <4>1, <4>2 DEF HomeInv
      <3>3. CASE g = h /\ CloserRemoves(g)
        <4>1. /\ Unused(h) /\ h \notin claimed' /\ tree'[h] # "there" /\ closer'[h] = "none"
          BY <3>1, <3>3 DEF CloserRemoves, Removes, HomeInv, Removing
        <4> QED BY <2>1, <3>1, <4>1 DEF HomeInv
      <3>4. CASE g = h /\ CloserLooks(g) /\ Unused(h) /\ h \notin claimed
        <4>1. closer'[h] = "removes" /\ UNCHANGED tree /\ h \in closing
          BY <3>1, <3>4 DEF CloserLooks, Looks, Unused
        <4> QED BY <2>1, <3>1, <3>4, <4>1 DEF HomeInv, Removing
      <3>5. CASE g = h /\ CloserLooks(g) /\ ~(Unused(h) /\ h \notin claimed)
        <4>1. closer'[h] = "none" /\ closer[h] = "looks" /\ UNCHANGED <<claimed, tree>>
          BY <3>1, <3>5 DEF CloserLooks, Looks
        <4>2. Removing(h)' <=> Removing(h)
          BY <2>1, <3>1, <4>1 DEF Removing
        <4>3. h \in closing => \E d \in Jobs : HomeOf(d) = h /\ (d \in tokens \/ releaser[d] # "none")
          <5>1. CASE h \in claimed
            BY <3>1, <4>1, <5>1 DEF HomeInv, Removing
          <5>2. CASE ~Unused(h)
            BY <1>0, <5>2 DEF Unused, Types
          <5> QED BY <3>5, <5>1, <5>2
        <4> QED BY <2>1, <3>1, <4>1, <4>2, <4>3 DEF HomeInv
      <3> QED BY <1>2, <3>2, <3>3, <3>4, <3>5
    <2>5. ClearedAnswerNeverServed'
      BY DEF IInv, ClearedAnswerNeverServed
    <2> QED BY <2>2, <2>3, <2>4, <2>5, AlikeKeeps DEF IInv
  <1> QED BY <1>1, <1>2 DEF HomeSteps
-----------------------------------------------------------------------------
(* The worker's steps. *)
LEMMA SpawnKeeps ==
    ASSUME IInv, NEW j \in Jobs, WorkSpawns(j), UNCHANGED <<kind, reader, probeVars>>
    PROVE  IInv'
  <1> USE DEF WorkSpawns, probeVars, homeVars, channelVars, slotVars, Bound, TokenReleased
  <1>0. Types /\ JobInv(j) /\ \A h \in Homes : HomeInv(h)
    BY DEF IInv
  <1>1. Types'
    BY <1>0 DEF Types, Outcomes, Places
  <1>2. JobInv(j)'
    BY <1>0 DEF Types, JobInv, StageInv, PlaceInv, Keeping, OutcomeInv, LineInv
  <1>3. ASSUME NEW d \in Jobs, d # j PROVE Alike(d)
    BY <1>0, <1>3 DEF Types, Alike
  <1>4. \A h \in Homes : HomeInv(h)'
    BY <1>0, HomesAreAlike, HomeReleased DEF JobInv, PlaceInv, Keeping
  <1> QED BY <1>1, <1>2, <1>3, <1>4, OneJob

LEMMA LineKeeps ==
    ASSUME IInv, NEW j \in Jobs, ExchangeLine(j), UNCHANGED <<kind, reader, probeVars>>
    PROVE  IInv'
  <1> USE DEF ExchangeLine, probeVars, homeVars, channelVars, slotVars, LineSent, LineRefused, Accepts
  <1>0. Types /\ JobInv(j) /\ \A h \in Homes : HomeInv(h)
    BY DEF IInv
  <1>1. Types'
    BY <1>0 DEF Types, Outcomes
  <1>2. JobInv(j)'
    BY <1>0 DEF Types, JobInv, StageInv, PlaceInv, Keeping, OutcomeInv, LineInv
  <1>3. ASSUME NEW d \in Jobs, d # j PROVE Alike(d)
    BY <1>0, <1>3 DEF Types, Alike
  <1>4. \A h \in Homes : HomeInv(h)'
    BY <1>0, HomesAreAlike
  <1> QED BY <1>1, <1>2, <1>3, <1>4, OneJob

LEMMA ExchangeEndKeeps ==
    ASSUME IInv, NEW j \in Jobs, ExchangeEnds(j), UNCHANGED <<kind, reader, probeVars>>
    PROVE  IInv'
  <1> USE DEF ExchangeEnds, probeVars, homeVars, channelVars, slotVars
  <1>0. Types /\ JobInv(j) /\ \A h \in Homes : HomeInv(h)
    BY DEF IInv
  <1>1. Types'
    BY <1>0 DEF Types, Outcomes
  <1>2. JobInv(j)'
    BY <1>0 DEF Types, JobInv, StageInv, PlaceInv, Keeping, OutcomeInv, LineInv
  <1>3. ASSUME NEW d \in Jobs, d # j PROVE Alike(d)
    BY <1>0, <1>3 DEF Types, Alike
  <1>4. \A h \in Homes : HomeInv(h)'
    BY <1>0, HomesAreAlike
  <1> QED BY <1>1, <1>2, <1>3, <1>4, OneJob

LEMMA ReapKeeps ==
    ASSUME IInv, NEW j \in Jobs, WorkReaps(j), UNCHANGED <<kind, reader, probeVars>>
    PROVE  IInv'
  <1> USE DEF WorkReaps, probeVars, homeVars, channelVars, slotVars, TokenReleased
  <1>0. Types /\ JobInv(j) /\ \A h \in Homes : HomeInv(h)
    BY DEF IInv
  <1>1. Types'
    BY <1>0 DEF Types, Outcomes, Places
  <1>2. JobInv(j)'
    BY <1>0 DEF Types, JobInv, StageInv, PlaceInv, Keeping, OutcomeInv, LineInv
  <1>3. ASSUME NEW d \in Jobs, d # j PROVE Alike(d)
    BY <1>0, <1>3 DEF Types, Alike
  <1>4. \A h \in Homes : HomeInv(h)'
    BY <1>0, HomesAreAlike, HomeReleased DEF JobInv, PlaceInv, Keeping
  <1> QED BY <1>1, <1>2, <1>3, <1>4, OneJob

LEMMA SlotFreedKeeps ==
    ASSUME IInv, NEW j \in Jobs, WorkFreesSlot(j), UNCHANGED <<kind, reader, probeVars>>
    PROVE  IInv'
  <1> USE DEF WorkFreesSlot, probeVars, homeVars, channelVars, slotVars, SlotFreed
  <1>0. Types /\ JobInv(j) /\ \A h \in Homes : HomeInv(h)
    BY DEF IInv
  <1>1. Types'
    BY <1>0 DEF Types, Outcomes
  <1>2. JobInv(j)'
    BY <1>0 DEF Types, JobInv, StageInv, PlaceInv, Keeping, OutcomeInv, LineInv
  <1>3. ASSUME NEW d \in Jobs, d # j PROVE Alike(d)
    BY <1>0, <1>3 DEF Types, Alike
  <1>4. \A h \in Homes : HomeInv(h)'
    BY <1>0, HomesAreAlike
  <1> QED BY <1>1, <1>2, <1>3, <1>4, OneJob

LEMMA CloseKeeps ==
    ASSUME IInv, NEW j \in Jobs, WorkCloses(j), UNCHANGED <<kind, reader, probeVars>>
    PROVE  IInv'
  <1> USE DEF WorkCloses, probeVars, homeVars, channelVars, slotVars, Terminated, Winner, Cleared
  <1>0. Types /\ JobInv(j) /\ \A h \in Homes : HomeInv(h)
    BY DEF IInv
  <1>1. Types'
    BY <1>0 DEF Types, Outcomes
  <1>2. JobInv(j)'
    BY <1>0 DEF Types, JobInv, StageInv, PlaceInv, Keeping, OutcomeInv, LineInv
  <1>3. ASSUME NEW d \in Jobs, d # j PROVE Alike(d)
    BY <1>0, <1>3 DEF Types, Alike
  <1>4. \A h \in Homes : HomeInv(h)'
    BY <1>0, HomesAreAlike
  <1> QED BY <1>1, <1>2, <1>3, <1>4, OneJob

LEMMA RecordKeeps ==
    ASSUME IInv, NEW j \in Jobs, WorkRecords(j), UNCHANGED <<kind, reader, probeVars>>
    PROVE  IInv'
  <1> USE DEF WorkRecords, probeVars, homeVars, channelVars, slotVars, Recorded
  <1>0. Types /\ JobInv(j) /\ \A h \in Homes : HomeInv(h)
    BY DEF IInv
  <1>1. Types'
    BY <1>0 DEF Types, Outcomes
  <1>2. JobInv(j)'
    BY <1>0 DEF Types, JobInv, StageInv, PlaceInv, Keeping, OutcomeInv, LineInv
  <1>3. ASSUME NEW d \in Jobs, d # j PROVE Alike(d)
    BY <1>0, <1>3 DEF Types, Alike
  <1>4. \A h \in Homes : HomeInv(h)'
    BY <1>0, HomesAreAlike
  <1> QED BY <1>1, <1>2, <1>3, <1>4, OneJob

LEMMA LateReapKeeps ==
    ASSUME IInv, NEW j \in Jobs, WorkReapsLate(j), UNCHANGED <<kind, reader, probeVars>>
    PROVE  IInv'
  <1> USE DEF WorkReapsLate, probeVars, homeVars, channelVars, slotVars, TokenReleased
  <1>0. Types /\ JobInv(j) /\ \A h \in Homes : HomeInv(h)
    BY DEF IInv
  <1>1. Types'
    BY <1>0 DEF Types, Outcomes, Places
  <1>2. JobInv(j)'
    BY <1>0 DEF Types, JobInv, StageInv, PlaceInv, Keeping, OutcomeInv, LineInv
  <1>3. ASSUME NEW d \in Jobs, d # j PROVE Alike(d)
    BY <1>0, <1>3 DEF Types, Alike
  <1>4. \A h \in Homes : HomeInv(h)'
    BY <1>0, HomesAreAlike, HomeReleased DEF JobInv, PlaceInv, Keeping
  <1> QED BY <1>1, <1>2, <1>3, <1>4, OneJob

(* The caller's steps. *)
LEMMA StartKeeps ==
    ASSUME IInv, NEW j \in Jobs, CallStarts(j), UNCHANGED <<kind, reader, probeVars>>
    PROVE  IInv'
  <1> USE DEF CallStarts, probeVars, homeVars, channelVars, slotVars, TokenReleased
  <1>0. Types /\ JobInv(j) /\ \A h \in Homes : HomeInv(h)
    BY DEF IInv
  <1>1. Types'
    BY <1>0 DEF Types, Outcomes, Places
  <1>2. JobInv(j)'
    BY <1>0 DEF Types, JobInv, StageInv, PlaceInv, Keeping, OutcomeInv, LineInv
  <1>3. ASSUME NEW d \in Jobs, d # j PROVE Alike(d)
    BY <1>0, <1>3 DEF Types, Alike
  <1>4. \A h \in Homes : HomeInv(h)'
    BY <1>0, HomesAreAlike, HomeReleased DEF JobInv, PlaceInv, Keeping
  <1> QED BY <1>1, <1>2, <1>3, <1>4, OneJob

LEMMA CallSlotKeeps ==
    ASSUME IInv, NEW j \in Jobs, CallFreesSlot(j), UNCHANGED <<kind, reader, probeVars>>
    PROVE  IInv'
  <1> USE DEF CallFreesSlot, probeVars, homeVars, channelVars, slotVars, SlotFreed
  <1>0. Types /\ JobInv(j) /\ \A h \in Homes : HomeInv(h)
    BY DEF IInv
  <1>1. Types'
    BY <1>0 DEF Types, Outcomes
  <1>2. JobInv(j)'
    BY <1>0 DEF Types, JobInv, StageInv, PlaceInv, Keeping, OutcomeInv, LineInv
  <1>3. ASSUME NEW d \in Jobs, d # j PROVE Alike(d)
    BY <1>0, <1>3 DEF Types, Alike
  <1>4. \A h \in Homes : HomeInv(h)'
    BY <1>0, HomesAreAlike
  <1> QED BY <1>1, <1>2, <1>3, <1>4, OneJob

LEMMA WaitKeeps ==
    ASSUME IInv, NEW j \in Jobs, CallWaits(j), UNCHANGED <<kind, reader, probeVars>>
    PROVE  IInv'
  <1> USE DEF CallWaits, probeVars, homeVars, channelVars, slotVars
  <1>0. Types /\ JobInv(j) /\ \A h \in Homes : HomeInv(h)
    BY DEF IInv
  <1>1. Types'
    BY <1>0 DEF Types, Outcomes
  <1>2. JobInv(j)'
    BY <1>0 DEF Types, JobInv, StageInv, PlaceInv, Keeping, OutcomeInv, LineInv
  <1>3. ASSUME NEW d \in Jobs, d # j PROVE Alike(d)
    BY <1>0, <1>3 DEF Types, Alike
  <1>4. \A h \in Homes : HomeInv(h)'
    BY <1>0, HomesAreAlike
  <1> QED BY <1>1, <1>2, <1>3, <1>4, OneJob

LEMMA CallCloseKeeps ==
    ASSUME IInv, NEW j \in Jobs, CallCloses(j), UNCHANGED <<kind, reader, probeVars>>
    PROVE  IInv'
  <1> USE DEF CallCloses, probeVars, homeVars, channelVars, slotVars, Terminated, Winner, Cleared
  <1>0. Types /\ JobInv(j) /\ \A h \in Homes : HomeInv(h)
    BY DEF IInv
  <1>1. Types'
    BY <1>0 DEF Types, Outcomes
  <1>2. JobInv(j)'
    BY <1>0 DEF Types, JobInv, StageInv, PlaceInv, Keeping, OutcomeInv, LineInv
  <1>3. ASSUME NEW d \in Jobs, d # j PROVE Alike(d)
    BY <1>0, <1>3 DEF Types, Alike
  <1>4. \A h \in Homes : HomeInv(h)'
    BY <1>0, HomesAreAlike
  <1> QED BY <1>1, <1>2, <1>3, <1>4, OneJob

LEMMA CallRecordKeeps ==
    ASSUME IInv, NEW j \in Jobs, CallRecords(j), UNCHANGED <<kind, reader, probeVars>>
    PROVE  IInv'
  <1> USE DEF CallRecords, probeVars, homeVars, channelVars, slotVars, Recorded
  <1>0. Types /\ JobInv(j) /\ \A h \in Homes : HomeInv(h)
    BY DEF IInv
  <1>1. Types'
    BY <1>0 DEF Types, Outcomes
  <1>2. JobInv(j)'
    BY <1>0 DEF Types, JobInv, StageInv, PlaceInv, Keeping, OutcomeInv, LineInv
  <1>3. ASSUME NEW d \in Jobs, d # j PROVE Alike(d)
    BY <1>0, <1>3 DEF Types, Alike
  <1>4. \A h \in Homes : HomeInv(h)'
    BY <1>0, HomesAreAlike
  <1> QED BY <1>1, <1>2, <1>3, <1>4, OneJob

LEMMA RaiseKeeps ==
    ASSUME IInv, NEW j \in Jobs, CallRaises(j), UNCHANGED <<kind, reader, probeVars>>
    PROVE  IInv'
  <1> USE DEF CallRaises, probeVars, homeVars, channelVars, slotVars, Terminated, Winner, Cleared
  <1>0. Types /\ JobInv(j) /\ \A h \in Homes : HomeInv(h)
    BY DEF IInv
  <1>1. Types'
    BY <1>0 DEF Types, Outcomes
  <1>2. JobInv(j)'
    BY <1>0 DEF Types, JobInv, StageInv, PlaceInv, Keeping, OutcomeInv, LineInv
  <1>3. ASSUME NEW d \in Jobs, d # j PROVE Alike(d)
    BY <1>0, <1>3 DEF Types, Alike
  <1>4. \A h \in Homes : HomeInv(h)'
    BY <1>0, HomesAreAlike
  <1> QED BY <1>1, <1>2, <1>3, <1>4, OneJob
-----------------------------------------------------------------------------
(* The steps of those who read a run. *)
LEMMA BeginKeeps ==
    ASSUME IInv, NEW j \in Jobs, RoundBegins(j) \/ ImageBegins(j)
    PROVE  IInv'
  <1> USE DEF RoundBegins, ImageBegins, probeVars, homeVars, channelVars, threadVars, slotVars, Reserved, Moves
  <1>0. Types /\ JobInv(j) /\ \A h \in Homes : HomeInv(h)
    BY DEF IInv
  <1>1. Types'
    BY <1>0 DEF Types, Outcomes
  <1>2. JobInv(j)'
    BY <1>0 DEF Types, JobInv, StageInv, PlaceInv, Keeping, OutcomeInv, LineInv
  <1>3. ASSUME NEW d \in Jobs, d # j PROVE Alike(d)
    BY <1>0, <1>3 DEF Types, Alike
  <1>4. \A h \in Homes : HomeInv(h)'
    BY HomeReserved
  <1> QED BY <1>1, <1>2, <1>3, <1>4, OneJob

LEMMA AdmitKeeps ==
    ASSUME IInv, NEW j \in Jobs, Admitted(j)
    PROVE  IInv'
  <1> USE DEF Admitted, probeVars, homeVars, channelVars, threadVars, slotVars, Backs, TokenReleased, Moves
  <1>0. Types /\ JobInv(j) /\ \A h \in Homes : HomeInv(h)
    BY DEF IInv
  <1>1. Types'
    BY <1>0 DEF Types, Outcomes, Places
  <1>2. JobInv(j)'
    BY <1>0 DEF Types, JobInv, StageInv, PlaceInv, Keeping, OutcomeInv, LineInv
  <1>3. ASSUME NEW d \in Jobs, d # j PROVE Alike(d)
    BY <1>0, <1>3 DEF Types, Alike
  <1>4. \A h \in Homes : HomeInv(h)'
    BY <1>0, HomesAreAlike, HomeReleased DEF JobInv, PlaceInv, Keeping
  <1> QED BY <1>1, <1>2, <1>3, <1>4, OneJob

LEMMA RefuseKeeps ==
    ASSUME IInv, NEW j \in Jobs, ReaderRefused(j)
    PROVE  IInv'
  <1> USE DEF ReaderRefused, probeVars, homeVars, channelVars, threadVars, slotVars, SlotFreed, Moves
  <1>0. Types /\ JobInv(j) /\ \A h \in Homes : HomeInv(h)
    BY DEF IInv
  <1>1. Types'
    BY <1>0 DEF Types, Outcomes
  <1>2. JobInv(j)'
    BY <1>0 DEF Types, JobInv, StageInv, PlaceInv, Keeping, OutcomeInv, LineInv
  <1>3. ASSUME NEW d \in Jobs, d # j PROVE Alike(d)
    BY <1>0, <1>3 DEF Types, Alike
  <1>4. \A h \in Homes : HomeInv(h)'
    BY <1>0, HomesAreAlike
  <1> QED BY <1>1, <1>2, <1>3, <1>4, OneJob

LEMMA TakeLineKeeps ==
    ASSUME IInv, NEW j \in Jobs, ReaderTakesLine(j)
    PROVE  IInv'
  <1> USE DEF ReaderTakesLine, probeVars, homeVars, channelVars, threadVars, slotVars, LineReady, AbortRequested, Moves
  <1>0. Types /\ JobInv(j) /\ \A h \in Homes : HomeInv(h)
    BY DEF IInv
  <1>1. Types'
    BY <1>0 DEF Types, Outcomes
  <1>2. JobInv(j)'
    BY <1>0 DEF Types, JobInv, StageInv, PlaceInv, Keeping, OutcomeInv, LineInv
  <1>3. ASSUME NEW d \in Jobs, d # j PROVE Alike(d)
    BY <1>0, <1>3 DEF Types, Alike
  <1>4. \A h \in Homes : HomeInv(h)'
    BY <1>0, HomesAreAlike
  <1> QED BY <1>1, <1>2, <1>3, <1>4, OneJob

LEMMA TakeOutcomeKeeps ==
    ASSUME IInv, NEW j \in Jobs, ReaderTakesOutcome(j)
    PROVE  IInv'
  <1> USE DEF ReaderTakesOutcome, probeVars, homeVars, channelVars, threadVars, slotVars, runVars, Moves
  <1>0. Types /\ JobInv(j) /\ \A h \in Homes : HomeInv(h)
    BY DEF IInv
  <1>1. Types'
    BY <1>0 DEF Types, Outcomes
  <1>2. JobInv(j)'
    BY <1>0 DEF Types, JobInv, StageInv, PlaceInv, Keeping, OutcomeInv, LineInv
  <1>3. ASSUME NEW d \in Jobs, d # j PROVE Alike(d)
    BY <1>0, <1>3 DEF Types, Alike
  <1>4. \A h \in Homes : HomeInv(h)'
    BY <1>0, HomesAreAlike
  <1> QED BY <1>1, <1>2, <1>3, <1>4, OneJob

LEMMA SettleKeeps ==
    ASSUME IInv, NEW j \in Jobs, ReaderSettles(j)
    PROVE  IInv'
  <1> USE DEF ReaderSettles, probeVars, homeVars, channelVars, threadVars, slotVars, Terminated, Winner, Cleared
  <1>0. Types /\ JobInv(j) /\ \A h \in Homes : HomeInv(h)
    BY DEF IInv
  <1>1. Types'
    BY <1>0 DEF Types, Outcomes
  <1>2. JobInv(j)'
    BY <1>0 DEF Types, JobInv, StageInv, PlaceInv, Keeping, OutcomeInv, LineInv
  <1>3. ASSUME NEW d \in Jobs, d # j PROVE Alike(d)
    BY <1>0, <1>3 DEF Types, Alike
  <1>4. \A h \in Homes : HomeInv(h)'
    BY <1>0, HomesAreAlike
  <1> QED BY <1>1, <1>2, <1>3, <1>4, OneJob

LEMMA CancelKeeps ==
    ASSUME IInv, NEW j \in Jobs, ReaderCancelled(j)
    PROVE  IInv'
  <1> USE DEF ReaderCancelled, probeVars, homeVars, channelVars, threadVars, slotVars, AbortRequested, Moves
  <1>0. Types /\ JobInv(j) /\ \A h \in Homes : HomeInv(h)
    BY DEF IInv
  <1>1. Types'
    BY <1>0 DEF Types, Outcomes
  <1>2. JobInv(j)'
    BY <1>0 DEF Types, JobInv, StageInv, PlaceInv, Keeping, OutcomeInv, LineInv
  <1>3. ASSUME NEW d \in Jobs, d # j PROVE Alike(d)
    BY <1>0, <1>3 DEF Types, Alike
  <1>4. \A h \in Homes : HomeInv(h)'
    BY <1>0, HomesAreAlike
  <1> QED BY <1>1, <1>2, <1>3, <1>4, OneJob

LEMMA ReaderEndKeeps ==
    ASSUME IInv, NEW j \in Jobs, ReaderEnds(j)
    PROVE  IInv'
  <1> USE DEF ReaderEnds, probeVars, homeVars, channelVars, threadVars, slotVars, AbortRequested, Moves
  <1>0. Types /\ JobInv(j) /\ \A h \in Homes : HomeInv(h)
    BY DEF IInv
  <1>1. Types'
    BY <1>0 DEF Types, Outcomes
  <1>2. JobInv(j)'
    BY <1>0 DEF Types, JobInv, StageInv, PlaceInv, Keeping, OutcomeInv, LineInv
  <1>3. ASSUME NEW d \in Jobs, d # j PROVE Alike(d)
    BY <1>0, <1>3 DEF Types, Alike
  <1>4. \A h \in Homes : HomeInv(h)'
    BY <1>0, HomesAreAlike
  <1> QED BY <1>1, <1>2, <1>3, <1>4, OneJob

LEMMA CloseRequestKeeps ==
    ASSUME IInv, TurnCloses \/ \E j \in Jobs : ImageCloses(j)
    PROVE  IInv'
  <1> USE DEF TurnCloses, ImageCloses, probeVars, channelVars, threadVars, slotVars
  <1>1. PICK h \in Homes : h \notin closing /\ CloseRequested(h)
    BY DEF Homes
  <1>2. UNCHANGED <<kind, channelVars, threadVars, slotVars, reader, probeVars, tokens, claimed, tree,
                    releaser>>
    BY <1>1 DEF CloseRequested
  <1>3. Types'
    BY <1>1, <1>2 DEF IInv, Types, CloseRequested, Places
  <1>4. \A d \in Jobs : Alike(d)
    BY <1>2 DEF Alike
  <1>5. \A g \in Homes : HomeInv(g)'
    BY <1>1, <1>2, HomeRequested
  <1>6. ClearedAnswerNeverServed'
    BY <1>2 DEF IInv, ClearedAnswerNeverServed
  <1> QED BY <1>3, <1>4, <1>5, <1>6, AlikeKeeps DEF IInv

-----------------------------------------------------------------------------
(* The cached probe. *)
LEMMA AskKeeps ==
    ASSUME IInv, NEW p \in Callers, Ask(p) \/ CallerAnswered(p) \/ CallerTimesOut(p)
    PROVE  IInv'
  <1> USE DEF Ask, CallerAnswered, CallerTimesOut, runVars, channelVars, threadVars, slotVars
  <1>0. Types /\ ClearedAnswerNeverServed /\ \A j \in Jobs : JobInv(j)
    BY DEF IInv
  <1>1. UNCHANGED <<kind, runVars, reader, generation, cached, inflight, flightGen, resolved>>
    OBVIOUS
  <1>2. asks' \in [Callers -> {"idle", "over"} \cup Jobs]
    BY <1>0 DEF Types
  <1>3. Types'
    BY <1>0, <1>1, <1>2 DEF Types, homeVars
  <1>4. ClearedAnswerNeverServed'
    BY <1>0, <1>1 DEF ClearedAnswerNeverServed
  <1>5. \A d \in Jobs : Alike(d)
    BY <1>1 DEF Alike, homeVars
  <1>6. \A h \in Homes : HomeInv(h)'
    BY <1>1, HomesAreAlike DEF IInv
  <1> QED BY <1>0, <1>3, <1>4, <1>5, <1>6, AlikeKeeps DEF IInv

LEMMA ClearKeeps ==
    ASSUME IInv, Clear \/ Expire
    PROVE  IInv'
  <1> USE DEF Clear, Expire, runVars, channelVars, threadVars, slotVars
  <1>0. Types /\ ClearedAnswerNeverServed /\ \A j \in Jobs : JobInv(j)
    BY DEF IInv
  <1>1. UNCHANGED <<kind, runVars, reader, flightGen, resolved, asks>>
    OBVIOUS
  <1>2. generation' \in Nat /\ cached' \subseteq Jobs /\ inflight' \subseteq Jobs
    BY <1>0 DEF Types
  <1>3. Types'
    BY <1>0, <1>1, <1>2 DEF Types, homeVars
  <1>4. ClearedAnswerNeverServed'
    BY <1>0, <1>1 DEF ClearedAnswerNeverServed
  <1>5. \A d \in Jobs : Alike(d)
    BY <1>1 DEF Alike, homeVars
  <1>6. \A h \in Homes : HomeInv(h)'
    BY <1>1, HomesAreAlike DEF IInv
  <1> QED BY <1>0, <1>3, <1>4, <1>5, <1>6, AlikeKeeps DEF IInv

(* A flight is one run; it lands in the generation it was started in. *)
LEMMA FlightKeeps ==
    ASSUME IInv, NEW j \in Jobs, FlightActs(j) \/ \E p \in Callers : StartFlight(p, j)
    PROVE  IInv'
  <1> USE DEF FlightActs, FlightProbes, FlightPublishes, FlightResolves, StartFlight, MayFly, Moves,
              runVars, probeVars, channelVars, threadVars, slotVars
  <1>0. Types /\ ClearedAnswerNeverServed /\ JobInv(j)
    BY DEF IInv
  <1>1. /\ UNCHANGED <<kind, runVars, generation>>
        /\ \E place \in {"flying", "never", "landing", "published", "over"} :
              reader' = [reader EXCEPT ![j] = place]
        /\ reader[j] \in {"idle", "flying", "landing", "published"}
    OBVIOUS
  <1>2. /\ flightGen' \in [Jobs -> Nat] /\ asks' \in [Callers -> {"idle", "over"} \cup Jobs]
        /\ cached' \subseteq Jobs /\ inflight' \subseteq Jobs /\ resolved' \subseteq Jobs
        /\ reader' \in [Jobs -> {"idle", "admitting", "refusing", "reading", "awaiting", "draining",
                                 "flying", "landing", "published", "never", "over"}]
    BY <1>0 DEF Types
  <1>3. Types'
    BY <1>0, <1>1, <1>2 DEF Types, homeVars
  <1>4. ClearedAnswerNeverServed'
    BY <1>0 DEF ClearedAnswerNeverServed, Types
  <1>5. JobInv(j)'
    BY <1>0, <1>1 DEF JobInv, StageInv, PlaceInv, Keeping, OutcomeInv, LineInv, Types, homeVars
  <1>6. ASSUME NEW d \in Jobs, d # j PROVE Alike(d)
    BY <1>0, <1>1, <1>6 DEF Types, Alike, homeVars
  <1>7. \A h \in Homes : HomeInv(h)'
    BY <1>1, HomesAreAlike DEF IInv
  <1>8. \A d \in Jobs : JobInv(d)'
    BY <1>5, <1>6, AlikeKeeps DEF IInv
  <1> QED BY <1>3, <1>4, <1>7, <1>8 DEF IInv

-----------------------------------------------------------------------------
LEMMA IInvStep == IInv /\ [Next]_vars => IInv'
  <1> SUFFICES ASSUME IInv, [Next]_vars PROVE IInv'
    OBVIOUS
  <1>1. CASE HomeStep
    BY <1>1, HomeStepKeeps
  <1>2. ASSUME NEW j \in Jobs, WorkStep(j) PROVE IInv'
    BY <1>2, SpawnKeeps, LineKeeps, ExchangeEndKeeps, ReapKeeps, SlotFreedKeeps, CloseKeeps, RecordKeeps,
       LateReapKeeps DEF WorkStep, WorkActs
  <1>3. ASSUME NEW j \in Jobs, CallStep(j) PROVE IInv'
    BY <1>3, StartKeeps, CallSlotKeeps, WaitKeeps, CallCloseKeeps, CallRecordKeeps, RaiseKeeps
       DEF CallStep, CallActs
  <1>4. ASSUME NEW j \in Jobs,
               RoundBegins(j) \/ ImageBegins(j) \/ ReaderCancelled(j) \/ ReaderActs(j) \/ FlightActs(j)
        PROVE  IInv'
    BY <1>4, BeginKeeps, CancelKeeps, AdmitKeeps, RefuseKeeps, TakeLineKeeps, TakeOutcomeKeeps,
       SettleKeeps, ReaderEndKeeps, CloseRequestKeeps, FlightKeeps DEF ReaderActs
  <1>5. ASSUME NEW p \in Callers,
               Ask(p) \/ CallerAnswered(p) \/ CallerTimesOut(p) \/ \E j \in Jobs : StartFlight(p, j)
        PROVE  IInv'
    BY <1>5, AskKeeps, FlightKeeps
  <1>6. CASE TurnCloses \/ Clear \/ Expire
    BY <1>6, CloseRequestKeeps, ClearKeeps
  <1>7. CASE UNCHANGED vars
    <2>1. UNCHANGED <<kind, homeVars>> /\ \A d \in Jobs : Alike(d)
      BY <1>7 DEF vars, runVars, homeVars, threadVars, slotVars, channelVars, Alike
    <2>2. Types' /\ ClearedAnswerNeverServed'
      BY <1>7 DEF vars, runVars, homeVars, threadVars, slotVars, channelVars, probeVars, IInv, Types,
                  ClearedAnswerNeverServed
    <2> QED BY <2>1, <2>2, HomesAreAlike, AlikeKeeps DEF IInv
  <1> QED BY <1>1, <1>2, <1>3, <1>4, <1>5, <1>6, <1>7 DEF Next

LEMMA Invariance == Spec => []IInv
  BY IInvInit, IInvStep, PTL DEF Spec

-----------------------------------------------------------------------------
(* The token, the tree and the place of a child that may live are kept, also  *)
(* past a failed reap or a closed turn, and nothing stays behind a run that   *)
(* is over.  Code: _reap_or_hand_off, PrivateHome._remove_if_unused and       *)
(* CodexProcessPool.                                                          *)
THEOREM NothingLeavesALivingChild == Spec => []HomeAndSlotFollowTheChild
  <1>1. IInv => HomeAndSlotFollowTheChild
    <2> SUFFICES ASSUME IInv PROVE HomeAndSlotFollowTheChild
      OBVIOUS
    <2>1. Types /\ \A h \in Homes : HomeInv(h)
      BY DEF IInv
    <2>2. ASSUME NEW j \in Jobs
          PROVE  /\ child[j] = "alive" => /\ j \in tokens /\ tree[HomeOf(j)] = "there"
                                          /\ kind[j] \in Pooled => j \in slots
                 /\ work[j] = "ended" \/ (CallOver(j) /\ work[j] = "none") => j \notin tokens \cup slots
      <3>1. StageInv(j) /\ PlaceInv(j)
        BY DEF IInv, JobInv
      <3>2. HomeOf(j) \in Homes
        BY DEF HomeOf, Homes
      <3>3. j \in tokens => tree[HomeOf(j)] = "there"
        BY <2>1, <3>2 DEF HomeInv, Unused
      <3>4. child[j] = "alive" => j \in tokens
        BY <3>1 DEF PlaceInv
      <3>5. work[j] = "ended" \/ (CallOver(j) /\ work[j] = "none") => j \notin tokens \cup slots
        BY <3>1 DEF StageInv, PlaceInv, Keeping, CallOver
      <3> QED BY <3>1, <3>3, <3>4, <3>5 DEF PlaceInv
    <2>3. ASSUME NEW h \in closing
          PROVE  \/ tree[h] # "there" \/ closer[h] # "none"
                 \/ \E j \in Jobs : HomeOf(j) = h /\ (j \in tokens \/ releaser[j] # "none")
      BY <2>1 DEF HomeInv, Types
    <2> QED BY <2>2, <2>3 DEF HomeAndSlotFollowTheChild
  <1> QED BY <1>1, Invariance, PTL

(* Caller, record and reader of a run learn one outcome, whoever gave it up   *)
(* first.  Code: run_cli_bounded and CliLineChannel._terminate_with.          *)
THEOREM OneOutcomeForAll == Spec => []OneOutcome
  <1>1. IInv => OneOutcome
    BY DEF IInv, JobInv, OutcomeInv, OneOutcome
  <1> QED BY <1>1, Invariance, PTL

(* A channel that was completed lost no line.  Code: CliLineChannel.          *)
THEOREM CompleteRunsLoseNothing == Spec => []NoLineLost
  <1>1. IInv => NoLineLost
    BY DEF IInv, JobInv, LineInv, NoLineLost
  <1> QED BY <1>1, Invariance, PTL

(* No answer and no flight outlives the clear of the probe, whenever flights  *)
(* land and callers join.  Code: CachedProbe.                                 *)
THEOREM ClearsAreFinal == Spec => []ClearedAnswerNeverServed
  BY Invariance, PTL DEF IInv
=============================================================================

---------------------------- MODULE RunToolsProofs ----------------------------
(***************************************************************************)
(* Proofs about RunTools for any number of calls, ids and slots: where     *)
(* each call's event, forward and result are, and that barrier, merger and *)
(* wire keep ToolCallContract.                                             *)
(***************************************************************************)
EXTENDS RunTools, FiniteSetTheorems, SequenceTheorems, WellFoundedInduction, TLAPS

Streams == [calls : SUBSET Calls, answered : SUBSET Calls, terminal : Terminals \cup {NoTerminal}]

Types == TypeOK /\ stream \in Streams

(* At most one event of a call is queued. *)
Single(s) == \A i, j \in 1 .. Len(s) : s[i].call = s[j].call => i = j

EventsOf(c) == {CallEvent(c), ResultEvent(c)}

(* What a call's task, its future and its slot say of each other. *)
TaskInv(c) ==
    /\ task[c] = "new" <=> response[c] = "none"
    /\ task[c] = "new" => c \notin cancelledByCli \cup outcome
    /\ c \in pending <=> task[c] \in {"waiting", "cut"} /\ c \notin cancelledByCli
    /\ response[c] = "open" => ~stopped /\ c \in pending /\ task[c] = "waiting"

SlotInv ==
    /\ pending \subseteq Calls
    /\ Cardinality(pending) <= MaxPending
    /\ \A c, d \in pending : requestId[c] = requestId[d] => c = d

(* Where a call is: queued, handed out or running, never in two places, and  *)
(* what was told of it goes with that.  Until the stop or a reflection no     *)
(* call that was told of is anywhere else.                                    *)
PlaceInv(c) ==
    /\ task[c] = "new" => /\ c \notin forwards /\ c \notin stream.calls
                          /\ EventsOf(c) \cap (ToSet(ready) \cup {handedOut}) = {}
    /\ c \in forwards => /\ c \in stream.calls \ stream.answered
                         /\ EventsOf(c) \cap (ToSet(ready) \cup {handedOut}) = {}
    /\ handedOut \in EventsOf(c) => EventsOf(c) \cap ToSet(ready) = {}
    /\ CallEvent(c) \in ToSet(ready) => c \notin stream.calls
    /\ ResultEvent(c) \in ToSet(ready) => c \in stream.calls \ stream.answered
    /\ handedOut = CallEvent(c) =>
          c \notin stream.answered /\ (c \in stream.calls => held = handedOut)
    /\ handedOut = ResultEvent(c) =>
          c \in stream.calls /\ (c \in stream.answered => held = handedOut)
    /\ ~stopped /\ ~reflected /\ c \in stream.calls \ stream.answered =>
          \/ c \in forwards \/ ResultEvent(c) \in ToSet(ready) \cup {handedOut}
          \/ held = CallEvent(c)

(* Where the run and its close are. *)
StageInv ==
    /\ merger \in {"new", "entering"} => tools = "none"
    /\ merger \in {"listing", "starting"} => tools = "entered"
    /\ merger \in {"waiting", "yielded"} => tools = "launched"
    /\ merger \in {"new", "entering", "listing", "starting"} => reader = "none"
    /\ merger # "over" <=> closing = "open"
    /\ closing = "aborting" => tools = "entered"
    /\ closing \in {"reaping", "settling", "leaving"} => stopped
    /\ closing \in {"open", "aborting", "created"} => ~stopped
    /\ tools = "launched" => closing \notin {"aborting", "closed"}
    /\ tools # "launched" /\ ~stopped => forwards = {}
    /\ ending # NoTerminal => closing = "closed"

(* What is held, and between whom: the reader, the merger and the service. *)
HeldInv ==
    /\ merger \notin {"yielded", "over"} => held = Nothing
    /\ merger = "yielded" => held # Nothing
    /\ held \in RelayEvents => handedOut = held /\ reader = "none"
    /\ reader = "done" => handedOut # Nothing
    /\ handedOut \notin {Nothing, held} => reader = "done"
    /\ stopped => handedOut = Nothing
    /\ answered => held = CoreEvent("final")
    /\ held = CoreEvent("final") => stream.calls \subseteq stream.answered

CallInv(c) == TaskInv(c) /\ PlaceInv(c)

IInv ==
    /\ Types /\ SlotInv /\ StageInv /\ HeldInv /\ Single(ready)
    /\ \A c \in Calls : CallInv(c)

-----------------------------------------------------------------------------
LEMMA EventFacts ==
    /\ \A c \in Calls : /\ EventsOf(c) \subseteq RelayEvents
                        /\ CallEvent(c).call = c /\ CallEvent(c).kind = "call"
                        /\ ResultEvent(c).call = c /\ ResultEvent(c).kind = "result"
                        /\ CallEvent(c) # ResultEvent(c)
    /\ \A e \in RelayEvents : /\ e.call \in Calls /\ e \in EventsOf(e.call)
                              /\ e.kind = "call" <=> e = CallEvent(e.call)
                              /\ e.kind = "result" <=> e = ResultEvent(e.call)
                              /\ e.kind \in {"call", "result"}
    /\ Nothing \notin RelayEvents /\ Nothing.kind = "nothing"
    /\ \A k \in {"text", "final"} \cup Terminals :
          /\ CoreEvent(k) \notin RelayEvents /\ CoreEvent(k).kind = k
          /\ CoreEvent(k) # Nothing
    /\ CoreEvent("text") # CoreEvent("final")
  <1>1. \A e \in RelayEvents : \E c \in Calls : e = CallEvent(c) \/ e = ResultEvent(c)
    BY DEF RelayEvents
  <1>2. \A c : /\ CallEvent(c).call = c /\ CallEvent(c).kind = "call"
              /\ ResultEvent(c).call = c /\ ResultEvent(c).kind = "result"
    BY DEF CallEvent, ResultEvent
  <1>3. Nothing.kind = "nothing" /\ \A k : CoreEvent(k).kind = k
    BY DEF Nothing, CoreEvent
  <1>4. \A k \in {"text", "final"} \cup Terminals : k \notin {"call", "result", "nothing"}
    BY DEF Terminals, CutShort
  <1>5. \A c \in Calls : EventsOf(c) \subseteq RelayEvents
    BY DEF EventsOf, RelayEvents
  <1> QED BY <1>1, <1>2, <1>3, <1>4, <1>5 DEF EventsOf

(* The sequences of events as sets of their events. *)
LEMMA Members ==
    ASSUME NEW s \in Seq(RelayEvents)
    PROVE  /\ Len(s) \in Nat /\ DOMAIN s = 1 .. Len(s)
           /\ ToSet(s) = {s[i] : i \in 1 .. Len(s)} /\ ToSet(s) \subseteq RelayEvents
  BY LenProperties, ElementOfSeq DEF ToSet

LEMMA Appended ==
    ASSUME NEW s \in Seq(RelayEvents), NEW e \in RelayEvents,
           Single(s), \A d \in ToSet(s) : d.call # e.call
    PROVE  /\ Append(s, e) \in Seq(RelayEvents) /\ Single(Append(s, e))
           /\ ToSet(Append(s, e)) = ToSet(s) \cup {e}
  <1> DEFINE t == Append(s, e)
  <1>1. /\ t \in Seq(RelayEvents) /\ Len(t) = Len(s) + 1 /\ Len(s) \in Nat
        /\ \A i \in 1 .. Len(s) : t[i] = s[i]
        /\ t[Len(s) + 1] = e
    BY AppendProperties, LenProperties
  <1> HIDE DEF t
  <1>2. ToSet(s) = {s[i] : i \in 1 .. Len(s)} /\ ToSet(t) = {t[i] : i \in 1 .. Len(t)}
    BY <1>1, Members
  <1>3. ToSet(t) = ToSet(s) \cup {e}
    <2>1. 1 .. Len(t) = (1 .. Len(s)) \cup {Len(s) + 1}
      BY <1>1
    <2> QED BY <1>1, <1>2, <2>1
  <1>4. Single(t)
    BY <1>1, <1>2 DEF Single
  <1> QED BY <1>1, <1>3, <1>4 DEF t

LEMMA Prepended ==
    ASSUME NEW s \in Seq(RelayEvents), NEW e \in RelayEvents,
           Single(s), \A d \in ToSet(s) : d.call # e.call
    PROVE  /\ <<e>> \o s \in Seq(RelayEvents) /\ Single(<<e>> \o s)
           /\ ToSet(<<e>> \o s) = ToSet(s) \cup {e}
  <1> DEFINE t == <<e>> \o s
  <1>0. <<e>> \in Seq(RelayEvents) /\ Len(<<e>>) = 1 /\ <<e>>[1] = e
    OBVIOUS
  <1>1. /\ t \in Seq(RelayEvents) /\ Len(t) = Len(s) + 1 /\ Len(s) \in Nat
        /\ \A i \in 1 .. Len(s) : t[i + 1] = s[i]
        /\ t[1] = e
    BY <1>0, ConcatProperties, LenProperties
  <1> HIDE DEF t
  <1>2. ToSet(s) = {s[i] : i \in 1 .. Len(s)} /\ ToSet(t) = {t[i] : i \in 1 .. Len(t)}
    BY <1>1, Members
  <1>3. \A i \in 1 .. Len(t) : i = 1 \/ (i - 1 \in 1 .. Len(s) /\ t[i] = s[i - 1])
    <2>1. \A i \in 1 .. Len(t) : i # 1 => i - 1 \in 1 .. Len(s) /\ i = (i - 1) + 1
      BY <1>1
    <2> QED BY <1>1, <2>1
  <1>4. ToSet(t) = ToSet(s) \cup {e}
    <2>1. \A i \in 1 .. Len(s) : i + 1 \in 1 .. Len(t)
      BY <1>1
    <2>2. 1 \in 1 .. Len(t)
      BY <1>1
    <2>3. ToSet(s) \cup {e} \subseteq ToSet(t)
      BY <1>1, <1>2, <2>1, <2>2
    <2>4. ToSet(t) \subseteq ToSet(s) \cup {e}
      BY <1>1, <1>2, <1>3
    <2> QED BY <2>3, <2>4
  <1>5. Single(t)
    <2> SUFFICES ASSUME NEW i \in 1 .. Len(t), NEW j \in 1 .. Len(t), t[i].call = t[j].call
                 PROVE  i = j
      BY DEF Single
    <2>1. CASE i = 1 /\ j # 1
      BY <1>1, <1>2, <1>3, <2>1
    <2>2. CASE i # 1 /\ j = 1
      BY <1>1, <1>2, <1>3, <2>2
    <2>3. CASE i # 1 /\ j # 1
      <3>1. i - 1 = j - 1
        BY <1>3, <2>3 DEF Single
      <3> QED BY <1>1, <3>1
    <2> QED BY <2>1, <2>2, <2>3
  <1> QED BY <1>1, <1>4, <1>5 DEF t

(* What is left behind the k-th event. *)
LEMMA Behind ==
    ASSUME NEW s \in Seq(RelayEvents), Single(s), NEW k \in 1 .. Len(s)
    PROVE  LET t == SubSeq(s, k + 1, Len(s))
           IN /\ t \in Seq(RelayEvents) /\ Single(t)
              /\ ToSet(t) \subseteq ToSet(s)
              /\ \A d \in ToSet(t) : d.call # s[k].call
              /\ \A d \in ToSet(s) : d \in ToSet(t) \/ d = s[k] \/ \E j \in 1 .. (k - 1) : d = s[j]
  <1> DEFINE t == SubSeq(s, k + 1, Len(s))
  <1>0. Len(s) \in Nat /\ \A i \in k + 1 .. Len(s) : s[i] \in RelayEvents
    BY LenProperties, ElementOfSeq
  <1>1. /\ t \in Seq(RelayEvents) /\ Len(t) = Len(s) - k
        /\ \A i \in 1 .. Len(s) - k : t[i] = s[k + i]
    <2>1. k + 1 \in Int /\ Len(s) \in Int /\ Len(s) - (k + 1) + 1 = Len(s) - k
          /\ \A i \in 1 .. Len(s) - k : k + 1 + i - 1 = k + i
      BY <1>0
    <2>2. /\ t \in Seq(RelayEvents)
          /\ Len(t) = (IF k + 1 <= Len(s) THEN Len(s) - (k + 1) + 1 ELSE 0)
          /\ \A i \in 1 .. Len(s) - (k + 1) + 1 : t[i] = s[k + 1 + i - 1]
      BY <1>0, <2>1, SubSeqProperties
    <2>3. Len(t) = Len(s) - k
      <3>1. CASE k + 1 <= Len(s)
        BY <2>1, <2>2, <3>1
      <3>2. CASE ~(k + 1 <= Len(s))
        <4>1. Len(t) = 0
          BY <2>2, <3>2
        <4>2. k \in Int /\ 1 <= k /\ k <= Len(s)
          BY <1>0
        <4>3. k = Len(s)
          BY <1>0, <3>2, <4>2
        <4>4. Len(s) - k = 0
          BY <1>0, <4>3
        <4> QED BY <4>1, <4>4
      <3> QED BY <3>1, <3>2
    <2>4. ASSUME NEW i \in 1 .. Len(s) - k PROVE t[i] = s[k + i]
      <3>1. i \in 1 .. Len(s) - (k + 1) + 1 /\ k + 1 + i - 1 = k + i
        BY <2>1
      <3> QED BY <2>2, <3>1
    <2> QED BY <2>2, <2>3, <2>4
  <1> HIDE DEF t
  <1>2. ToSet(s) = {s[i] : i \in 1 .. Len(s)} /\ ToSet(t) = {t[i] : i \in 1 .. Len(t)}
    BY <1>1, Members
  <1>3. \A i \in 1 .. Len(t) : k + i \in 1 .. Len(s) /\ k + i # k
    BY <1>0, <1>1
  <1>4. Single(t)
    <2> SUFFICES ASSUME NEW i \in 1 .. Len(t), NEW j \in 1 .. Len(t), t[i].call = t[j].call
                 PROVE  i = j
      BY DEF Single
    <2>1. k + i = k + j
      BY <1>1, <1>3 DEF Single
    <2> QED BY <1>0, <1>1, <2>1
  <1>5. ToSet(t) \subseteq ToSet(s) /\ \A d \in ToSet(t) : d.call # s[k].call
    <2> SUFFICES ASSUME NEW i \in 1 .. Len(t)
                 PROVE  t[i] \in ToSet(s) /\ t[i].call # s[k].call
      BY <1>2
    <2>1. t[i] = s[k + i] /\ k + i \in 1 .. Len(s) /\ k + i # k
      BY <1>1, <1>3
    <2> QED BY <1>2, <2>1 DEF Single
  <1>6. ASSUME NEW d \in ToSet(s)
        PROVE  d \in ToSet(t) \/ d = s[k] \/ \E j \in 1 .. (k - 1) : d = s[j]
    <2>1. PICK i \in 1 .. Len(s) : d = s[i]
      BY <1>2
    <2>2. CASE i > k
      <3>1. i - k \in 1 .. Len(s) - k /\ k + (i - k) = i
        BY <1>0, <2>2
      <3> QED BY <1>1, <1>2, <2>1, <3>1
    <2> QED BY <1>0, <2>1, <2>2
  <1> QED BY <1>1, <1>4, <1>5, <1>6 DEF t

(* An event that is queued once is the first of its kind. *)
LEMMA Removed ==
    ASSUME NEW s \in Seq(RelayEvents), Single(s), NEW e \in RelayEvents
    PROVE  LET t == RemoveFirst(s, e)
           IN t \in Seq(RelayEvents) /\ Single(t) /\ ToSet(t) = ToSet(s) \ {e}
  <1> DEFINE t == RemoveFirst(s, e)
  <1>1. CASE \A i \in 1 .. Len(s) : s[i] # e
    <2>1. t = s
      BY <1>1 DEF RemoveFirst
    <2> QED BY <1>1, <2>1, Members
  <1>2. CASE \E i \in 1 .. Len(s) : s[i] = e
    <2>1. PICK k \in 1 .. Len(s) : s[k] = e
      BY <1>2
    <2>2. \A i \in 1 .. Len(s) : i = k \/ s[i].call # e.call
      BY <2>1 DEF Single
    <2>3. {i \in 1 .. Len(s) : s[i] = e} = {k}
      BY <2>1, <2>2
    <2>4. Min({k}) = k
      BY DEF Min
    <2>5. SelectInSeq(s, LAMBDA v : v = e) = k
      BY <2>3, <2>4 DEF SelectInSeq
    <2>6. t = SubSeq(s, 1, k - 1) \o SubSeq(s, k + 1, Len(s))
      BY <1>2, <2>5 DEF RemoveFirst, RemoveAt
    <2>7. Len(s) \in Nat
      BY LenProperties
    <2>8. /\ t \in Seq(RelayEvents) /\ Len(t) = Len(s) - 1
          /\ \A j \in 1 .. Len(s) - 1 : t[j] = IF j < k THEN s[j] ELSE s[j + 1]
      <3> HIDE DEF t
      <3>1. \A i \in 1 .. Len(s) : s[i] \in RelayEvents
        BY ElementOfSeq
      <3> DEFINE a == SubSeq(s, 1, k - 1)   b == SubSeq(s, k + 1, Len(s))
      <3>2. 1 \in Int /\ k - 1 \in Int /\ k + 1 \in Int /\ Len(s) \in Int
            /\ 1 .. k - 1 \subseteq 1 .. Len(s) /\ k + 1 .. Len(s) \subseteq 1 .. Len(s)
        BY <2>7
      <3>3. /\ a \in Seq(RelayEvents) /\ Len(a) = (IF 1 <= k - 1 THEN (k - 1) - 1 + 1 ELSE 0)
            /\ \A i \in 1 .. (k - 1) - 1 + 1 : a[i] = s[1 + i - 1]
        BY <3>1, <3>2, SubSeqProperties
      <3>4. /\ b \in Seq(RelayEvents)
            /\ Len(b) = (IF k + 1 <= Len(s) THEN Len(s) - (k + 1) + 1 ELSE 0)
            /\ \A i \in 1 .. Len(s) - (k + 1) + 1 : b[i] = s[k + 1 + i - 1]
        BY <3>1, <3>2, SubSeqProperties
      <3> HIDE DEF a, b
      <3>5. Len(a) = k - 1
        BY <2>7, <3>3
      <3>6. Len(b) = Len(s) - k
        BY <2>7, <3>4
      <3>7. /\ t \in Seq(RelayEvents) /\ Len(t) = Len(a) + Len(b)
            /\ \A i \in 1 .. Len(a) + Len(b) : t[i] = IF i <= Len(a) THEN a[i] ELSE b[i - Len(a)]
        BY <2>6, <3>3, <3>4, ConcatProperties DEF a, b
      <3>8. ASSUME NEW j \in 1 .. Len(s) - 1
            PROVE  t[j] = IF j < k THEN s[j] ELSE s[j + 1]
        <4>1. CASE j < k
          <5>1. /\ j \in 1 .. (k - 1) - 1 + 1 /\ 1 + j - 1 = j
                /\ j <= Len(a) /\ j \in 1 .. Len(a) + Len(b)
            BY <2>7, <3>5, <3>6, <4>1
          <5> QED BY <3>3, <3>7, <4>1, <5>1
        <4>2. CASE ~(j < k)
          <5>1. /\ j - (k - 1) \in 1 .. Len(s) - (k + 1) + 1
                /\ k + 1 + (j - (k - 1)) - 1 = j + 1 /\ ~(j <= Len(a)) /\ j \in 1 .. Len(a) + Len(b)
            BY <2>7, <3>5, <3>6, <4>2
          <5> QED BY <3>4, <3>5, <3>7, <4>2, <5>1
        <4> QED BY <4>1, <4>2
      <3>9. Len(t) = Len(s) - 1
        BY <2>7, <3>5, <3>6, <3>7
      <3> QED BY <3>7, <3>8, <3>9
    <2> HIDE DEF t
    <2>9. ToSet(t) = {t[j] : j \in 1 .. Len(t)} /\ ToSet(s) = {s[i] : i \in 1 .. Len(s)}
      BY <2>8, Members
    <2>10. \A j \in 1 .. Len(t) : \E i \in 1 .. Len(s) \ {k} :
              t[j] = s[i] /\ (j < k => i = j) /\ (j >= k => i = j + 1)
      <3> SUFFICES ASSUME NEW j \in 1 .. Len(t)
                   PROVE  \E i \in 1 .. Len(s) \ {k} :
                            t[j] = s[i] /\ (j < k => i = j) /\ (j >= k => i = j + 1)
        OBVIOUS
      <3>1. CASE j < k
        BY <2>7, <2>8, <3>1
      <3>2. CASE j >= k
        <4>1. j + 1 \in 1 .. Len(s) \ {k} /\ t[j] = s[j + 1]
          BY <2>7, <2>8, <3>2
        <4> QED BY <2>7, <3>2, <4>1
      <3> QED BY <2>7, <2>8, <3>1, <3>2
    <2>11. \A i \in 1 .. Len(s) \ {k} : \E j \in 1 .. Len(t) : t[j] = s[i]
      <3> SUFFICES ASSUME NEW i \in 1 .. Len(s) \ {k}
                   PROVE  \E j \in 1 .. Len(t) : t[j] = s[i]
        OBVIOUS
      <3>1. CASE i < k
        BY <2>7, <2>8, <3>1
      <3>2. CASE i > k
        <4>1. i - 1 \in 1 .. Len(t) /\ ~(i - 1 < k) /\ (i - 1) + 1 = i
          BY <2>7, <2>8, <3>2
        <4> QED BY <2>8, <4>1
      <3> QED BY <2>7, <3>1, <3>2
    <2>12. ToSet(t) = ToSet(s) \ {e}
      <3>1. \A i \in 1 .. Len(s) : s[i] = e <=> i = k
        BY <2>1, <2>2
      <3>2. ToSet(t) \subseteq ToSet(s) \ {e}
        BY <2>9, <2>10, <3>1
      <3>3. ToSet(s) \ {e} \subseteq ToSet(t)
        BY <2>9, <2>11, <3>1
      <3> QED BY <3>2, <3>3
    <2>13. Single(t)
      <3> SUFFICES ASSUME NEW i \in 1 .. Len(t), NEW j \in 1 .. Len(t), t[i].call = t[j].call
                   PROVE  i = j
        BY DEF Single
      <3>1. PICK m \in 1 .. Len(s) \ {k} :
               t[i] = s[m] /\ (i < k => m = i) /\ (i >= k => m = i + 1)
        BY <2>10
      <3>2. PICK n \in 1 .. Len(s) \ {k} :
               t[j] = s[n] /\ (j < k => n = j) /\ (j >= k => n = j + 1)
        BY <2>10
      <3>3. m = n
        BY <3>1, <3>2 DEF Single
      <3> QED BY <2>7, <2>8, <3>1, <3>2, <3>3
    <2> QED BY <2>8, <2>12, <2>13 DEF t
  <1> QED BY <1>1, <1>2

LEMMA NaturalsHaveAFirst ==
    ASSUME NEW S \in SUBSET Nat, S # {} PROVE \E m \in S : \A k \in S : m =< k
  <1> DEFINE R == OpToRel(<, Nat)
  <1>1. PICK m \in S : \A k \in S : <<k, m>> \notin R
    <2>1. IsWellFoundedOn(R, Nat)
      BY NatLessThanWellFounded
    <2> HIDE DEF R
    <2> QED BY <2>1, WFMin
  <1>2. R = {pair \in Nat \X Nat : pair[1] < pair[2]}
    BY DEF OpToRel
  <1>3. ASSUME NEW k \in S PROVE ~(k < m)
    <2>1. <<k, m>> \in Nat \X Nat /\ <<k, m>>[1] = k /\ <<k, m>>[2] = m
      OBVIOUS
    <2> HIDE DEF R
    <2> QED BY <1>1, <1>2, <2>1
  <1> QED BY <1>3

(* The first live event, and that no result stands before it. *)
LEMMA FirstLiveEvent ==
    ASSUME ready \in Seq(RelayEvents), \E i \in DOMAIN ready : Live(ready[i])
    PROVE  /\ FirstLive \in 1 .. Len(ready) /\ Live(ready[FirstLive])
           /\ \A j \in 1 .. (FirstLive - 1) : ~Live(ready[j])
  <1> DEFINE S == {i \in 1 .. Len(ready) : Live(ready[i])}
  <1>1. DOMAIN ready = 1 .. Len(ready) /\ Len(ready) \in Nat
    BY LenProperties
  <1>2. S \in SUBSET Nat /\ S # {}
    BY <1>1
  <1>3. PICK m \in S : \A k \in S : m =< k
    BY <1>2, NaturalsHaveAFirst
  <1>4. \A j \in 1 .. (m - 1) : ~Live(ready[j])
    BY <1>1, <1>3
  <1>5. \E i \in DOMAIN ready : Live(ready[i]) /\ \A j \in 1 .. (i - 1) : ~Live(ready[j])
    BY <1>1, <1>3, <1>4
  <1> QED BY <1>1, <1>5 DEF FirstLive

-----------------------------------------------------------------------------
LEMMA IInvInit == Init => IInv
  <1> SUFFICES ASSUME Init PROVE IInv
    OBVIOUS
  <1> USE DEF Init, BarrierInit
  <1>1. ToSet(ready) = {} /\ Single(ready) /\ ready \in Seq(RelayEvents)
    BY DEF ToSet, Single
  <1>2. Types
    BY <1>1 DEF Types, TypeOK, Streams, NewStream, Terminals, CutShort, NoTerminal
  <1>3. SlotInv
    BY FS_EmptySet, BarrierAssumption DEF SlotInv
  <1>4. StageInv /\ HeldInv
    BY EventFacts DEF StageInv, HeldInv, Nothing, CoreEvent
  <1>5. \A c \in Calls : CallInv(c)
    BY <1>1, EventFacts DEF CallInv, TaskInv, PlaceInv, NewStream
  <1> QED BY <1>1, <1>2, <1>3, <1>4, <1>5 DEF IInv

-----------------------------------------------------------------------------
(* A step that leaves call d where it is.  Its queued call may go. *)
Same(d) ==
    /\ task'[d] = "new" => task[d] = "new"
    /\ d \in forwards' <=> d \in forwards
    /\ d \in stream'.calls <=> d \in stream.calls
    /\ d \in stream'.answered <=> d \in stream.answered
    /\ CallEvent(d) \in ToSet(ready') => CallEvent(d) \in ToSet(ready)
    /\ ResultEvent(d) \in ToSet(ready') <=> ResultEvent(d) \in ToSet(ready)
    /\ \A e \in EventsOf(d) : (handedOut' = e <=> handedOut = e) /\ (held' = e <=> held = e)
    /\ stopped => stopped'
    /\ reflected => reflected'

LEMMA SameKeeps ==
    ASSUME NEW d \in Calls, PlaceInv(d), Same(d) PROVE PlaceInv(d)'
  BY DEF PlaceInv, Same, EventsOf

-----------------------------------------------------------------------------
(* The CLI's steps. *)
LEMMA CallStep ==
    ASSUME IInv, NEW c \in Calls, NEW i \in RequestIds, Call(c, i),
           tools = "launched", UNCHANGED runVars
    PROVE  IInv'
  <1> USE DEF Call, runVars, serviceVars, flags
  <1>1. CASE Admits(i)
    <2>1. /\ task[c] = "new" /\ task' = [task EXCEPT ![c] = "waiting"]
          /\ requestId' = [requestId EXCEPT ![c] = i]
          /\ response' = [response EXCEPT ![c] = "open"]
          /\ pending' = pending \cup {c} /\ ready' = Append(ready, CallEvent(c))
          /\ changed' = TRUE
          /\ UNCHANGED <<cancelledByCli, outcome, handedOut, reader, forwards, stopped, unoffered,
                         reflected, refused>>
      BY <1>1
    <2>2. /\ task \in [Calls -> {"new", "waiting", "cut", "returned"}]
          /\ requestId \in [Calls -> RequestIds \cup {NoId}]
          /\ response \in [Calls -> {"none", "open", "replied", "refused", "unanswered", "cancelled"}]
          /\ ready \in Seq(RelayEvents) /\ Single(ready) /\ pending \subseteq Calls
      BY DEF IInv, Types, TypeOK, SlotInv
    <2>3. TaskInv(c) /\ PlaceInv(c)
      BY DEF IInv, CallInv
    <2>4. \A d \in ToSet(ready) : d.call # CallEvent(c).call
      BY <2>1, <2>2, <2>3, EventFacts, Members DEF PlaceInv
    <2>5. /\ ready' \in Seq(RelayEvents) /\ Single(ready')
          /\ ToSet(ready') = ToSet(ready) \cup {CallEvent(c)}
      BY <2>1, <2>2, <2>4, EventFacts, Appended DEF EventsOf
    <2>6. Types'
      BY <2>1, <2>2, <2>5 DEF IInv, Types, TypeOK, Streams
    <2>7. SlotInv'
      <3>1. IsFiniteSet(pending) /\ c \notin pending
        BY <2>1, <2>2, <2>3, BarrierAssumption, FS_Subset DEF TaskInv
      <3>2. Cardinality(pending') =< MaxPending
        <4>1. Cardinality(pending') = Cardinality(pending) + 1 /\ Cardinality(pending) \in Nat
          BY <2>1, <3>1, FS_AddElement, FS_CardinalityType
        <4> QED BY <1>1, <4>1, BarrierAssumption DEF Admits
      <3>3. \A d, e \in pending' : requestId'[d] = requestId'[e] => d = e
        BY <1>1, <2>1, <2>2, <3>1 DEF IInv, SlotInv, Admits
      <3> QED BY <2>1, <2>2, <3>2, <3>3 DEF SlotInv
    <2>8. StageInv' /\ HeldInv'
      BY <2>1 DEF IInv, StageInv, HeldInv
    <2>9. ASSUME NEW d \in Calls PROVE TaskInv(d)'
      <3>1. TaskInv(d)
        BY DEF IInv, CallInv
      <3> QED BY <1>1, <2>1, <2>2, <2>3, <3>1 DEF TaskInv, Admits
    <2>10. ASSUME NEW d \in Calls PROVE PlaceInv(d)'
      <3>1. PlaceInv(d)
        BY DEF IInv, CallInv
      <3>2. CASE d = c
        <4>1. /\ c \notin forwards /\ c \notin stream.calls
              /\ {CallEvent(c), ResultEvent(c)} \cap ToSet(ready) = {}
              /\ handedOut \notin {CallEvent(c), ResultEvent(c)}
          BY <2>1, <2>3 DEF PlaceInv, EventsOf
        <4>2. ResultEvent(c) \notin ToSet(ready') /\ task'[c] # "new"
          BY <2>1, <2>2, <2>5, <4>1, EventFacts
        <4> QED BY <2>1, <3>2, <4>1, <4>2 DEF PlaceInv, EventsOf
      <3>3. CASE d # c
        <4>1. Same(d)
          BY <2>1, <2>2, <2>5, <3>3, EventFacts DEF Same
        <4> QED BY <3>1, <4>1, SameKeeps
      <3> QED BY <3>2, <3>3
    <2> QED BY <2>5, <2>6, <2>7, <2>8, <2>9, <2>10 DEF IInv, CallInv
  <1>2. CASE ~Admits(i)
    <2>1. /\ task[c] = "new" /\ task' = [task EXCEPT ![c] = "returned"]
          /\ requestId' = [requestId EXCEPT ![c] = i]
          /\ response' = [response EXCEPT ![c] = "refused"]
          /\ UNCHANGED <<cancelledByCli, outcome, handedOut, reader, forwards, stopped, unoffered,
                         reflected, refused, pending, ready, changed>>
      BY <1>2
    <2>2. TaskInv(c) /\ task \in [Calls -> {"new", "waiting", "cut", "returned"}]
          /\ requestId \in [Calls -> RequestIds \cup {NoId}]
          /\ response \in [Calls -> {"none", "open", "replied", "refused", "unanswered", "cancelled"}]
      BY DEF IInv, CallInv, Types, TypeOK
    <2>3. Types'
      BY <2>1 DEF IInv, Types, TypeOK, Streams
    <2>4. SlotInv'
      BY <2>1, <2>2 DEF IInv, SlotInv, TaskInv
    <2>5. StageInv' /\ HeldInv' /\ Single(ready')
      BY <2>1 DEF IInv, StageInv, HeldInv
    <2>6. ASSUME NEW d \in Calls PROVE TaskInv(d)'
      <3>1. TaskInv(d)
        BY DEF IInv, CallInv
      <3> QED BY <2>1, <2>2, <3>1 DEF TaskInv
    <2>7. \A d \in Calls : Same(d)
      BY <2>1, <2>2 DEF Same
    <2> QED BY <2>3, <2>4, <2>5, <2>6, <2>7, SameKeeps DEF IInv, CallInv
  <1> QED BY <1>1, <1>2

(* The rest of what the CLI and the tasks of the calls do. *)
LEMMA ReturnStep ==
    ASSUME IInv, NEW c \in Calls, CallReturns(c), UNCHANGED runVars
    PROVE  IInv'
  <1> USE DEF CallReturns, runVars, serviceVars, flags
  <1>1. /\ ready \in Seq(RelayEvents) /\ Single(ready)
        /\ task \in [Calls -> {"new", "waiting", "cut", "returned"}]
    BY DEF IInv, Types, TypeOK
  <1>2. /\ ready' \in Seq(RelayEvents) /\ Single(ready')
        /\ ToSet(ready') = ToSet(ready) \ {CallEvent(c)}
    BY <1>1, EventFacts, Removed DEF Dropped, EventsOf
  <1>3. Types'
    BY <1>2 DEF IInv, Types, TypeOK, Streams
  <1>4. SlotInv'
    <2>1. pending' \subseteq pending /\ pending \subseteq Calls
      BY DEF IInv, SlotInv
    <2>2. Cardinality(pending') =< Cardinality(pending)
          /\ Cardinality(pending) \in Nat /\ Cardinality(pending') \in Nat
      BY <2>1, BarrierAssumption, FS_Subset, FS_CardinalityType
    <2>3. Cardinality(pending') =< MaxPending
      BY <2>2, BarrierAssumption DEF IInv, SlotInv
    <2> QED BY <2>1, <2>3 DEF IInv, SlotInv
  <1>5. StageInv' /\ HeldInv'
    BY DEF IInv, StageInv, HeldInv
  <1>6. ASSUME NEW d \in Calls PROVE TaskInv(d)'
    <2>1. TaskInv(d) /\ TaskInv(c)
      BY DEF IInv, CallInv
    <2> QED BY <1>1, <2>1 DEF TaskInv
  <1>7. ASSUME NEW d \in Calls PROVE Same(d)
    BY <1>1, <1>2, EventFacts DEF Same, EventsOf
  <1> QED BY <1>2, <1>3, <1>4, <1>5, <1>6, <1>7, SameKeeps DEF IInv, CallInv

LEMMA CancelStep ==
    ASSUME IInv, NEW c \in Calls, CancelCall(c), UNCHANGED runVars
    PROVE  IInv'
  <1> USE DEF CancelCall, runVars, serviceVars, flags, Resolved
  <1>1. /\ ready \in Seq(RelayEvents) /\ Single(ready)
        /\ response \in [Calls -> {"none", "open", "replied", "refused", "unanswered", "cancelled"}]
    BY DEF IInv, Types, TypeOK
  <1>2. /\ ready' \in Seq(RelayEvents) /\ Single(ready')
        /\ ToSet(ready') = ToSet(ready) \ {CallEvent(c)}
    BY <1>1, EventFacts, Removed DEF Dropped, EventsOf
  <1>3. Types'
    BY <1>2 DEF IInv, Types, TypeOK, Streams
  <1>4. SlotInv'
    <2>1. pending' \subseteq pending /\ pending \subseteq Calls
      BY DEF IInv, SlotInv
    <2>2. Cardinality(pending') =< Cardinality(pending)
          /\ Cardinality(pending) \in Nat /\ Cardinality(pending') \in Nat
      BY <2>1, BarrierAssumption, FS_Subset, FS_CardinalityType
    <2>3. Cardinality(pending') =< MaxPending
      BY <2>2, BarrierAssumption DEF IInv, SlotInv
    <2> QED BY <2>1, <2>3 DEF IInv, SlotInv
  <1>5. StageInv' /\ HeldInv'
    BY DEF IInv, StageInv, HeldInv
  <1>6. ASSUME NEW d \in Calls PROVE TaskInv(d)'
    <2>1. TaskInv(d) /\ TaskInv(c)
      BY DEF IInv, CallInv
    <2> QED BY <1>1, <2>1 DEF TaskInv
  <1>7. ASSUME NEW d \in Calls PROVE Same(d)
    BY <1>2, EventFacts DEF Same, EventsOf
  <1> QED BY <1>2, <1>3, <1>4, <1>5, <1>6, <1>7, SameKeeps DEF IInv, CallInv

LEMMA CutStep ==
    ASSUME IInv, NEW c \in Calls, CutCall(c), UNCHANGED runVars
    PROVE  IInv'
  <1> USE DEF CutCall, runVars, serviceVars, flags, Resolved
  <1>1. /\ task \in [Calls -> {"new", "waiting", "cut", "returned"}]
        /\ response \in [Calls -> {"none", "open", "replied", "refused", "unanswered", "cancelled"}]
    BY DEF IInv, Types, TypeOK
  <1>2. Types'
    BY DEF IInv, Types, TypeOK, Streams
  <1>3. SlotInv' /\ StageInv' /\ HeldInv' /\ Single(ready')
    BY DEF IInv, SlotInv, StageInv, HeldInv
  <1>4. ASSUME NEW d \in Calls PROVE TaskInv(d)'
    <2>1. TaskInv(d) /\ TaskInv(c)
      BY DEF IInv, CallInv
    <2> QED BY <1>1, <2>1 DEF TaskInv
  <1>5. ASSUME NEW d \in Calls PROVE Same(d)
    BY <1>1 DEF Same
  <1> QED BY <1>2, <1>3, <1>4, <1>5, SameKeeps DEF IInv, CallInv

(* Flags of the barrier, and the reader that wakes. *)
LEMMA FlagStep ==
    ASSUME IInv, CallUnoffered \/ AnswerReflects \/ ReaderWakes, UNCHANGED runVars
    PROVE  IInv'
  <1> USE DEF CallUnoffered, AnswerReflects, ReaderWakes, runVars, serviceVars, callVars, flags
  <1>0. TypeOK /\ stream \in Streams
    BY DEF IInv, Types
  <1>1. Types'
    <2>1. CASE CallUnoffered
      BY <1>0, <2>1 DEF Types, TypeOK, Streams
    <2>2. CASE AnswerReflects
      BY <1>0, <2>2 DEF Types, TypeOK, Streams
    <2>3. CASE ReaderWakes
      BY <1>0, <2>3 DEF Types, TypeOK, Streams
    <2> QED BY <2>1, <2>2, <2>3
  <1>2. SlotInv' /\ StageInv' /\ Single(ready')
    BY DEF IInv, SlotInv, StageInv
  <1>3. HeldInv'
    BY DEF IInv, HeldInv
  <1>4. \A d \in Calls : TaskInv(d)' /\ Same(d)
    BY DEF IInv, CallInv, TaskInv, Same
  <1> QED BY <1>1, <1>2, <1>3, <1>4, SameKeeps DEF IInv, CallInv

-----------------------------------------------------------------------------
(* The reader hands out the first live event.  The calls dropped before it    *)
(* were given up, and no result is among them.                                *)
LEMMA NextEventStep ==
    ASSUME IInv, NextEvent, UNCHANGED runVars
    PROVE  IInv'
  <1> USE DEF NextEvent, runVars, serviceVars, callVars, flags
  <1>1. /\ ready \in Seq(RelayEvents) /\ Single(ready) /\ reader = "checking"
        /\ handedOut \in RelayEvents \cup {Nothing} /\ held \notin RelayEvents
    BY DEF IInv, Types, TypeOK, HeldInv
  <1>2. ASSUME NEW d \in Calls PROVE TaskInv(d)'
    BY DEF IInv, CallInv, TaskInv
  <1>3. SlotInv' /\ StageInv'
    BY DEF IInv, SlotInv, StageInv
  <1>4. CASE handedOut # Nothing \/ unoffered \/ reflected \/ stopped
    <2>0. reader' = "failed" /\ UNCHANGED <<handedOut, ready, changed>>
      BY <1>4
    <2>1. Types' /\ Single(ready')
      BY <2>0 DEF IInv, Types, TypeOK, Streams
    <2>2. HeldInv'
      BY <1>1, <2>0 DEF IInv, HeldInv
    <2>3. \A d \in Calls : Same(d)
      BY <2>0 DEF Same
    <2> QED BY <1>2, <1>3, <2>1, <2>2, <2>3, SameKeeps DEF IInv, CallInv
  <1>5. CASE /\ ~(handedOut # Nothing \/ unoffered \/ reflected \/ stopped)
             /\ \E i \in DOMAIN ready : Live(ready[i])
    <2> DEFINE k == FirstLive
    <2>0. /\ handedOut = Nothing /\ ~stopped /\ ~reflected
          /\ handedOut' = ready[k] /\ ready' = SubSeq(ready, k + 1, Len(ready))
          /\ reader' = "done" /\ UNCHANGED changed
      BY <1>5
    <2>1. k \in 1 .. Len(ready) /\ \A j \in 1 .. (k - 1) : ~Live(ready[j])
      BY <1>1, <1>5, FirstLiveEvent
    <2> HIDE DEF k
    <2>2. /\ ready' \in Seq(RelayEvents) /\ Single(ready')
          /\ ToSet(ready') \subseteq ToSet(ready)
          /\ \A d \in ToSet(ready') : d.call # ready[k].call
          /\ \A d \in ToSet(ready) : d \in ToSet(ready') \/ d = ready[k]
                                     \/ \E j \in 1 .. (k - 1) : d = ready[j]
      BY <1>1, <2>0, <2>1, Behind
    <2>3. \A d \in ToSet(ready) :
             d.kind = "result" => d \in ToSet(ready') \/ d = ready[k]
      BY <2>1, <2>2 DEF Live
    <2>4. ready[k] \in RelayEvents /\ ready[k] \in ToSet(ready)
      BY <1>1, <2>1, Members
    <2>5. PICK c \in Calls : ready[k] \in EventsOf(c)
      BY <2>4, EventFacts
    <2>6. ready[k].call = c /\ ready[k] # Nothing
      BY <2>4, <2>5, EventFacts DEF EventsOf
    <2>7. Types'
      BY <2>0, <2>2, <2>4 DEF IInv, Types, TypeOK, Streams
    <2>8. HeldInv'
      BY <1>1, <2>0, <2>4, EventFacts DEF IInv, HeldInv
    <2>9. PlaceInv(c)'
      <3>1. PlaceInv(c)
        BY DEF IInv, CallInv
      <3>2. EventsOf(c) \cap ToSet(ready') = {}
        BY <2>2, <2>6, EventFacts DEF EventsOf
      <3>3. held \notin EventsOf(c) /\ stream.answered \subseteq stream.calls
        BY <1>1, EventFacts DEF IInv, Types, TypeOK
      <3>4. c \notin forwards /\ task[c] # "new"
        BY <2>4, <2>5, <3>1 DEF PlaceInv
      <3>5. CASE ready[k] = CallEvent(c)
        <4>1. c \notin stream.calls
          BY <2>4, <3>1, <3>5 DEF PlaceInv
        <4> QED BY <2>0, <3>2, <3>3, <3>4, <3>5, <4>1, EventFacts DEF PlaceInv, EventsOf
      <3>6. CASE ready[k] = ResultEvent(c)
        <4>1. c \in stream.calls \ stream.answered
          BY <2>4, <3>1, <3>6 DEF PlaceInv
        <4> QED BY <2>0, <3>2, <3>3, <3>4, <3>6, <4>1, EventFacts DEF PlaceInv, EventsOf
      <3> QED BY <2>5, <3>5, <3>6 DEF EventsOf
    <2>10. ASSUME NEW d \in Calls, d # c PROVE Same(d)
      <3>1. ready[k] \notin EventsOf(d)
        BY <2>6, <2>10, EventFacts DEF EventsOf
      <3>2. CallEvent(d) \in ToSet(ready') => CallEvent(d) \in ToSet(ready)
        BY <2>2
      <3>3. ResultEvent(d) \in ToSet(ready') <=> ResultEvent(d) \in ToSet(ready)
        BY <2>2, <2>3, <3>1, EventFacts DEF EventsOf
      <3>4. handedOut \notin EventsOf(d)
        BY <2>0, EventFacts
      <3> QED BY <2>0, <3>1, <3>2, <3>3, <3>4 DEF Same
    <2>11. \A d \in Calls : PlaceInv(d)'
      BY <2>9, <2>10, SameKeeps DEF IInv, CallInv
    <2> QED BY <1>2, <1>3, <2>2, <2>7, <2>8, <2>11 DEF IInv, CallInv
  <1>6. CASE /\ ~(handedOut # Nothing \/ unoffered \/ reflected \/ stopped)
             /\ ~\E i \in DOMAIN ready : Live(ready[i])
    <2>0. handedOut = Nothing /\ ready' = <<>> /\ changed' = FALSE /\ reader' = "asleep"
          /\ UNCHANGED handedOut
      BY <1>6
    <2>1. \A d \in ToSet(ready) : d.kind # "result"
      BY <1>6 DEF Live, ToSet
    <2>2. ready' \in Seq(RelayEvents) /\ Single(ready') /\ ToSet(ready') = {}
      BY <2>0 DEF Single, ToSet
    <2>3. Types'
      <3>1. TypeOK /\ stream \in Streams
        BY DEF IInv, Types
      <3>2. {changed', stopped', unoffered', reflected', refused'} \subseteq BOOLEAN
        BY <2>0, <3>1 DEF TypeOK
      <3>3. handedOut' \in RelayEvents \cup {Nothing}
        BY <2>0
      <3> QED BY <2>0, <2>2, <3>1, <3>2, <3>3 DEF Types, TypeOK, Streams
    <2>4. HeldInv'
      BY <1>1, <2>0 DEF IInv, HeldInv
    <2>5. ASSUME NEW d \in Calls PROVE Same(d)
      BY <2>0, <2>1, <2>2, EventFacts DEF Same
    <2> QED BY <1>2, <1>3, <2>2, <2>3, <2>4, <2>5, SameKeeps DEF IInv, CallInv
  <1> QED BY <1>4, <1>5, <1>6

-----------------------------------------------------------------------------
(* The app's side: a forward that ends. *)
LEMMA ForwardStep ==
    ASSUME IInv, NEW c \in Calls, ForwardEnds(c), UNCHANGED runVars
    PROVE  IInv'
  <1> USE DEF ForwardEnds, runVars, serviceVars, callVars, flags
  <1>1. /\ ready \in Seq(RelayEvents) /\ Single(ready)
        /\ response \in [Calls -> {"none", "open", "replied", "refused", "unanswered", "cancelled"}]
    BY DEF IInv, Types, TypeOK
  <1>2. TaskInv(c) /\ PlaceInv(c) /\ c \in forwards /\ forwards' = forwards \ {c}
    BY DEF IInv, CallInv
  <1>3. /\ c \in stream.calls \ stream.answered /\ task[c] # "new"
        /\ EventsOf(c) \cap (ToSet(ready) \cup {handedOut}) = {}
    BY <1>2 DEF PlaceInv
  <1>4. SlotInv' /\ StageInv' /\ HeldInv'
    BY DEF IInv, SlotInv, StageInv, HeldInv
  <1>5. CASE QueueResult(c)
    <2>0. /\ outcome' = outcome \cup {c} /\ ready' = Append(ready, ResultEvent(c))
          /\ changed' = TRUE /\ UNCHANGED <<response, reflected>>
      BY <1>5 DEF QueueResult
    <2>1. \A d \in ToSet(ready) : d.call # ResultEvent(c).call
      BY <1>1, <1>3, EventFacts, Members
    <2>2. /\ ready' \in Seq(RelayEvents) /\ Single(ready')
          /\ ToSet(ready') = ToSet(ready) \cup {ResultEvent(c)}
      BY <1>1, <2>0, <2>1, EventFacts, Appended DEF EventsOf
    <2>3. Types'
      BY <1>2, <2>0, <2>2 DEF IInv, Types, TypeOK, Streams
    <2>4. ASSUME NEW d \in Calls PROVE TaskInv(d)'
      BY <1>3, <2>0 DEF IInv, CallInv, TaskInv
    <2>5. PlaceInv(c)'
      <3>1. CallEvent(c) \notin ToSet(ready') /\ handedOut \notin EventsOf(c)
        BY <1>3, <2>2, EventFacts DEF EventsOf
      <3> QED BY <1>2, <1>3, <2>0, <2>2, <3>1 DEF PlaceInv, EventsOf
    <2>6. ASSUME NEW d \in Calls, d # c PROVE Same(d)
      BY <2>0, <2>2, <2>6, EventFacts DEF Same
    <2>7. \A d \in Calls : PlaceInv(d)'
      BY <2>5, <2>6, SameKeeps DEF IInv, CallInv
    <2> QED BY <1>4, <2>2, <2>3, <2>4, <2>7 DEF IInv, CallInv
  <1>6. CASE RefuseOutcome(c)
    <2>0. /\ response' = [response EXCEPT ![c] = IF @ = "open" THEN "unanswered" ELSE @]
          /\ reflected' = TRUE /\ changed' = TRUE /\ UNCHANGED <<outcome, ready>>
      BY <1>6 DEF RefuseOutcome, Resolved
    <2>1. Types'
      BY <2>0 DEF IInv, Types, TypeOK, Streams
    <2>2. ASSUME NEW d \in Calls PROVE TaskInv(d)'
      <3>1. TaskInv(d)
        BY DEF IInv, CallInv
      <3> QED BY <1>1, <1>2, <2>0, <3>1 DEF TaskInv
    <2>3. PlaceInv(c)'
      BY <1>2, <1>3, <2>0 DEF PlaceInv
    <2>4. ASSUME NEW d \in Calls, d # c PROVE Same(d)
      BY <2>0, <2>4 DEF Same
    <2>5. \A d \in Calls : PlaceInv(d)'
      BY <2>3, <2>4, SameKeeps DEF IInv, CallInv
    <2> QED BY <1>4, <2>0, <2>1, <2>2, <2>5 DEF IInv, CallInv
  <1> QED BY <1>5, <1>6

LEMMA AbortStep ==
    ASSUME IInv, NEW c \in Calls, ForwardAborted(c)
    PROVE  IInv'
  <1> USE DEF ForwardAborted, ForwardCancelled, runVars, serviceVars, callVars, flags, Resolved
  <1>1. /\ response \in [Calls -> {"none", "open", "replied", "refused", "unanswered", "cancelled"}]
        /\ TaskInv(c) /\ PlaceInv(c)
    BY DEF IInv, Types, TypeOK, CallInv
  <1>2. stopped
    BY DEF IInv, StageInv
  <1>3. Types'
    BY DEF IInv, Types, TypeOK, Streams
  <1>4. SlotInv' /\ StageInv' /\ HeldInv' /\ Single(ready')
    BY DEF IInv, SlotInv, StageInv, HeldInv
  <1>5. ASSUME NEW d \in Calls PROVE TaskInv(d)'
    <2>1. TaskInv(d)
      BY DEF IInv, CallInv
    <2> QED BY <1>1, <2>1 DEF TaskInv
  <1>6. PlaceInv(c)'
    BY <1>1, <1>2 DEF PlaceInv
  <1>7. ASSUME NEW d \in Calls, d # c PROVE Same(d)
    BY <1>7 DEF Same
  <1>8. \A d \in Calls : PlaceInv(d)'
    BY <1>6, <1>7, SameKeeps DEF IInv, CallInv
  <1> QED BY <1>3, <1>4, <1>5, <1>8 DEF IInv, CallInv

-----------------------------------------------------------------------------
(* Steps that leave the calls, their events and the wire alone. *)
LEMMA QuietStep ==
    ASSUME IInv, UNCHANGED <<callVars, response, outcome, ready, handedOut, forwards, changed, flags>>,
           UNCHANGED <<held, serviceVars>>, Types', StageInv', HeldInv'
    PROVE  IInv'
  <1> USE DEF callVars, flags, serviceVars
  <1>1. SlotInv' /\ Single(ready')
    BY DEF IInv, SlotInv
  <1>2. \A d \in Calls : TaskInv(d)' /\ Same(d)
    BY DEF IInv, CallInv, TaskInv, Same
  <1> QED BY <1>1, <1>2, SameKeeps DEF IInv, CallInv

LEMMA OpenStep ==
    ASSUME IInv, Open \/ ClientLeft
    PROVE  IInv'
  <1> USE DEF barrierVars, callVars, flags, serviceVars
  <1>0. TypeOK /\ stream \in Streams /\ StageInv /\ HeldInv
    BY DEF IInv, Types
  <1>1. CASE RunBegins
    <2>1. Types'
      BY <1>0, <1>1 DEF RunBegins, Types, TypeOK, Streams
    <2>2. StageInv' /\ HeldInv'
      BY <1>0, <1>1 DEF RunBegins, StageInv, HeldInv
    <2> QED BY <1>1, <2>1, <2>2, QuietStep DEF RunBegins
  <1>2. CASE ClientEntered
    <2>1. Types'
      BY <1>0, <1>2 DEF ClientEntered, Types, TypeOK, Streams
    <2>2. StageInv' /\ HeldInv'
      BY <1>0, <1>2 DEF ClientEntered, StageInv, HeldInv
    <2> QED BY <1>2, <2>1, <2>2, QuietStep DEF ClientEntered
  <1>3. CASE ToolsListed
    <2>1. Types'
      BY <1>0, <1>3 DEF ToolsListed, Types, TypeOK, Streams
    <2>2. StageInv' /\ HeldInv'
      BY <1>0, <1>3 DEF ToolsListed, StageInv, HeldInv
    <2> QED BY <1>3, <2>1, <2>2, QuietStep DEF ToolsListed
  <1>4. CASE RelayStarted
    <2>1. Types'
      BY <1>0, <1>4 DEF RelayStarted, Types, TypeOK, Streams, CoreOutcomes
    <2>2. StageInv'
      BY <1>0, <1>4 DEF RelayStarted, StageInv
    <2>3. held = Nothing /\ held \notin RelayEvents
      BY <1>0, <1>4, EventFacts DEF RelayStarted, HeldInv
    <2>4. HeldInv'
      BY <1>0, <1>4, <2>3, EventFacts DEF RelayStarted, StageInv, HeldInv
    <2> QED BY <1>4, <2>1, <2>2, <2>4, QuietStep DEF RelayStarted
  <1>5. CASE OpeningFails
    <2>1. Types'
      BY <1>0, <1>5 DEF OpeningFails, Types, TypeOK, Streams
    <2>2. StageInv' /\ HeldInv'
      BY <1>0, <1>5 DEF OpeningFails, StageInv, HeldInv
    <2> QED BY <1>5, <2>1, <2>2, QuietStep DEF OpeningFails
  <1>6. CASE ClientLeft
    <2>1. Types'
      BY <1>0, <1>6 DEF ClientLeft, Types, TypeOK, Streams
    <2>2. StageInv' /\ HeldInv'
      BY <1>0, <1>6 DEF ClientLeft, StageInv, HeldInv
    <2> QED BY <1>6, <2>1, <2>2, QuietStep DEF ClientLeft
  <1> QED BY <1>1, <1>2, <1>3, <1>4, <1>5, <1>6 DEF Open

LEMMA CoreStep ==
    ASSUME IInv, CoreSteps \/ SourceEnds \/ ServiceCloses \/ Reaped \/ SettlingEnds
    PROVE  IInv'
  <1> USE DEF barrierVars, callVars, flags, serviceVars
  <1>0. TypeOK /\ stream \in Streams /\ StageInv /\ HeldInv
    BY DEF IInv, Types
  <1>1. CASE CoreSteps
    <2>1. Types'
      BY <1>0, <1>1 DEF CoreSteps, Types, TypeOK, Streams
    <2>2. StageInv' /\ HeldInv'
      BY <1>0, <1>1 DEF CoreSteps, StageInv, HeldInv
    <2> QED BY <1>1, <2>1, <2>2, QuietStep DEF CoreSteps
  <1>2. CASE SourceEnds
    <2>1. Types'
      BY <1>0, <1>2 DEF SourceEnds, Types, TypeOK, Streams
    <2>2. StageInv' /\ HeldInv'
      BY <1>0, <1>2 DEF SourceEnds, StageInv, HeldInv
    <2> QED BY <1>2, <2>1, <2>2, QuietStep DEF SourceEnds
  <1>3. CASE ServiceCloses
    <2>1. Types'
      BY <1>0, <1>3 DEF ServiceCloses, Types, TypeOK, Streams
    <2>2. StageInv' /\ HeldInv'
      BY <1>0, <1>3 DEF ServiceCloses, StageInv, HeldInv
    <2> QED BY <1>3, <2>1, <2>2, QuietStep DEF ServiceCloses
  <1>4. CASE Reaped
    <2>1. Types'
      BY <1>0, <1>4 DEF Reaped, Types, TypeOK, Streams
    <2>2. StageInv' /\ HeldInv'
      BY <1>0, <1>4 DEF Reaped, StageInv, HeldInv
    <2> QED BY <1>4, <2>1, <2>2, QuietStep DEF Reaped
  <1>5. CASE SettlingEnds
    <2>1. Types'
      BY <1>0, <1>5 DEF SettlingEnds, Types, TypeOK, Streams
    <2>2. StageInv' /\ HeldInv'
      BY <1>0, <1>5 DEF SettlingEnds, StageInv, HeldInv
    <2> QED BY <1>5, <2>1, <2>2, QuietStep DEF SettlingEnds
  <1> QED BY <1>1, <1>2, <1>3, <1>4, <1>5
-----------------------------------------------------------------------------
(* The service takes the event that is held. *)
LEMMA SentStep ==
    ASSUME IInv, EventSent
    PROVE  IInv'
  <1> USE DEF EventSent, barrierVars, callVars, flags
  <1>0. TypeOK /\ stream \in Streams /\ StageInv /\ HeldInv /\ held # Nothing
    BY DEF IInv, Types, HeldInv
  <1>1. StageInv' /\ SlotInv' /\ Single(ready') /\ \A d \in Calls : TaskInv(d)'
    BY DEF IInv, CallInv, StageInv, SlotInv, TaskInv
  <1>2. CASE held.kind = "final"
    <2>0. held = CoreEvent("final") /\ held \notin RelayEvents
      BY <1>0, <1>2, EventFacts DEF TypeOK
    <2>1. answered' = TRUE /\ stream' = stream
      BY <1>2
    <2>2. Types'
      BY <1>0, <2>1 DEF Types, TypeOK, Streams
    <2>3. HeldInv'
      BY <1>0, <2>0, <2>1 DEF HeldInv
    <2>4. \A d \in Calls : Same(d)
      BY <2>1 DEF Same
    <2> QED BY <1>1, <2>2, <2>3, <2>4, SameKeeps DEF IInv, CallInv
  <1>3. CASE held.kind # "final"
    <2>0. held \in RelayEvents /\ handedOut = held /\ held # CoreEvent("final") /\ ~answered
      BY <1>0, <1>3, EventFacts DEF TypeOK, HeldInv
    <2>1. PICK c \in Calls : held \in EventsOf(c)
      BY <2>0, EventFacts
    <2>2. Keeps(stream, held) /\ stream' = Record(stream, held) /\ answered' = answered
      BY <1>3
    <2>3. PlaceInv(c) /\ task[c] # "new" /\ c \notin forwards /\ EventsOf(c) \cap ToSet(ready) = {}
      BY <2>0, <2>1 DEF IInv, CallInv, PlaceInv
    <2>4. held.kind \notin Terminals
      BY <2>0, EventFacts DEF Terminals, CutShort
    <2>5. HeldInv'
      BY <1>0, <2>0, <2>2 DEF HeldInv
    <2>6. ASSUME NEW d \in Calls, d # c PROVE held \notin EventsOf(d)
      BY <2>1, <2>6, EventFacts DEF EventsOf
    <2>7. CASE held = CallEvent(c)
      <3>1. c \notin stream.calls
        BY <2>2, <2>7, EventFacts DEF Keeps
      <3>2. stream' = [calls |-> stream.calls \cup {c}, answered |-> stream.answered,
                       terminal |-> stream.terminal]
        BY <1>0, <2>2, <2>4, <2>7, EventFacts DEF Record, Streams
      <3>3. Types'
        BY <1>0, <3>2, <2>2 DEF Types, TypeOK, Streams
      <3>4. PlaceInv(c)'
        <4>1. c \notin stream.answered
          BY <1>0, <3>1 DEF TypeOK
        <4> QED BY <2>0, <2>3, <2>7, <3>2, <4>1, EventFacts DEF PlaceInv, EventsOf
      <3>5. \A d \in Calls : d # c => Same(d)
        BY <3>2 DEF Same
      <3> QED BY <1>1, <2>5, <3>3, <3>4, <3>5, SameKeeps DEF IInv, CallInv
    <2>8. CASE held = ResultEvent(c)
      <3>1. c \in stream.calls \ stream.answered
        BY <2>2, <2>8, EventFacts DEF Keeps
      <3>2. stream' = [calls |-> stream.calls, answered |-> stream.answered \cup {c},
                       terminal |-> stream.terminal]
        BY <1>0, <2>2, <2>4, <2>8, EventFacts DEF Record, Streams
      <3>3. Types'
        BY <1>0, <3>1, <3>2, <2>2 DEF Types, TypeOK, Streams
      <3>4. PlaceInv(c)'
        BY <2>0, <2>3, <2>8, <3>1, <3>2, EventFacts DEF PlaceInv, EventsOf
      <3>5. \A d \in Calls : d # c => Same(d)
        BY <3>2 DEF Same
      <3> QED BY <1>1, <2>5, <3>3, <3>4, <3>5, SameKeeps DEF IInv, CallInv
    <2> QED BY <2>1, <2>7, <2>8 DEF EventsOf
  <1> QED BY <1>2, <1>3

(* The service goes on past the event that is held: a call runs now, or its   *)
(* result is queued, or its reply is free to leave.                           *)
LEMMA AskStep ==
    ASSUME IInv, AskNext
    PROVE  IInv'
  <1> USE DEF callVars, flags, serviceVars
  <1>0. TypeOK /\ stream \in Streams /\ StageInv /\ HeldInv
    BY DEF IInv, Types
  <1>1. /\ closing = "open" /\ merger = "yielded" /\ merger' = "waiting" /\ held' = Nothing
        /\ reader' = (IF reader = "none" THEN "checking" ELSE reader)
        /\ coreStep' = (IF coreStep = "none" THEN "running" ELSE coreStep)
        /\ UNCHANGED <<tools, stream, answered, ending, closing>>
        /\ held.kind = "text" \/ (held \in RelayEvents /\ Sent(held))
        /\ tools = "launched"
    BY <1>0 DEF AskNext, StageInv
  <1>2. held # CoreEvent("final") /\ ~answered
    BY <1>0, <1>1, EventFacts DEF HeldInv
  <1>3. UNCHANGED <<callVars, outcome, changed, flags>>
    BY DEF AskNext, Accept
  <1>4. SlotInv'
    BY <1>3 DEF IInv, SlotInv
  <1>5. CASE held \notin RelayEvents
    <2>1. UNCHANGED <<response, ready, handedOut, forwards>>
      BY <1>5 DEF AskNext
    <2>2. Types'
      BY <1>0, <1>1, <1>3, <2>1 DEF Types, TypeOK, Streams
    <2>3. StageInv'
      BY <1>0, <1>1, <1>3, <2>1 DEF StageInv
    <2>4. HeldInv'
      BY <1>0, <1>1, <1>2, <1>3, <1>5, <2>1, EventFacts DEF HeldInv, TypeOK
    <2>5. ASSUME NEW d \in Calls PROVE TaskInv(d)' /\ Same(d)
      BY <1>1, <1>3, <1>5, <2>1, EventFacts DEF IInv, CallInv, TaskInv, Same
    <2> QED BY <1>4, <2>1, <2>2, <2>3, <2>4, <2>5, SameKeeps DEF IInv, CallInv
  <1>6. CASE held \in RelayEvents
    <2>1. PICK c \in Calls : held \in EventsOf(c)
      BY <1>6, EventFacts
    <2>2. /\ handedOut = held /\ handedOut' = Nothing /\ reader = "none" /\ Sent(held)
          /\ Accept(held)
      BY <1>0, <1>1, <1>6, EventFacts DEF AskNext, Accept, HeldInv
    <2>3. /\ PlaceInv(c) /\ TaskInv(c) /\ task[c] # "new" /\ c \notin forwards
          /\ EventsOf(c) \cap ToSet(ready) = {}
          /\ ready \in Seq(RelayEvents) /\ Single(ready)
      BY <1>0, <2>1, <2>2 DEF IInv, CallInv, PlaceInv, TypeOK
    <2>4. HeldInv'
      BY <1>0, <1>1, <1>2, <1>3, <2>2, EventFacts DEF HeldInv
    <2>5. ASSUME NEW d \in Calls, d # c PROVE held \notin EventsOf(d)
      BY <2>1, <2>5, EventFacts DEF EventsOf
    <2>6. CASE held = ResultEvent(c)
      <3>1. /\ response' = IF c \in outcome THEN Resolved(c, "replied") ELSE response
            /\ UNCHANGED <<ready, forwards>>
        BY <2>2, <2>6, EventFacts DEF Accept
      <3>2. c \in stream.answered
        BY <2>2, <2>6, EventFacts DEF Sent
      <3>3. Types'
        BY <1>0, <1>1, <1>3, <2>2, <3>1 DEF Types, TypeOK, Streams, Resolved
      <3>4. StageInv'
        BY <1>0, <1>1, <1>3, <3>1 DEF StageInv
      <3>5. ASSUME NEW d \in Calls PROVE TaskInv(d)'
        <4>1. TaskInv(d)
          BY DEF IInv, CallInv
        <4>2. response'[d] = response[d] \/ (response[d] = "open" /\ response'[d] = "replied")
          BY <1>0, <3>1 DEF Resolved, TypeOK
        <4> QED BY <1>3, <4>1, <4>2 DEF TaskInv
      <3>6. PlaceInv(c)'
        BY <1>1, <1>3, <2>2, <2>3, <3>1, <3>2, EventFacts DEF PlaceInv, EventsOf
      <3>7. ASSUME NEW d \in Calls, d # c PROVE Same(d)
        <4>1. Nothing \notin EventsOf(d)
          BY EventFacts
        <4> QED BY <1>1, <1>3, <2>2, <2>5, <3>1, <3>7, <4>1 DEF Same
      <3> QED BY <1>4, <2>3, <2>4, <3>1, <3>3, <3>4, <3>5, <3>6, <3>7, SameKeeps DEF IInv, CallInv
    <2>7. CASE held = CallEvent(c)
      <3>0. /\ c \in stream.calls \ stream.answered
        BY <2>2, <2>3, <2>7, EventFacts DEF Sent, PlaceInv
      <3>1. CASE GivenUp(c)
        <4>1. ready' = <<ResultEvent(c)>> \o ready /\ UNCHANGED <<response, forwards>>
          BY <2>2, <2>7, <3>1, EventFacts DEF Accept
        <4>2. \A d \in ToSet(ready) : d.call # ResultEvent(c).call
          BY <2>3, EventFacts, Members
        <4>3. /\ ready' \in Seq(RelayEvents) /\ Single(ready')
              /\ ToSet(ready') = ToSet(ready) \cup {ResultEvent(c)}
          BY <2>3, <4>1, <4>2, EventFacts, Prepended DEF EventsOf
        <4>4. Types'
          BY <1>0, <1>1, <1>3, <2>2, <4>1, <4>3 DEF Types, TypeOK, Streams
        <4>5. StageInv'
          BY <1>0, <1>1, <1>3, <4>1 DEF StageInv
        <4>6. \A d \in Calls : TaskInv(d)'
          BY <1>3, <4>1 DEF IInv, CallInv, TaskInv
        <4>7. PlaceInv(c)'
          <5>1. CallEvent(c) \notin ToSet(ready')
            BY <2>3, <4>3, EventFacts DEF EventsOf
          <5> QED BY <1>1, <1>3, <2>2, <2>3, <3>0, <4>1, <4>3, <5>1, EventFacts DEF PlaceInv, EventsOf
        <4>8. ASSUME NEW d \in Calls, d # c PROVE Same(d)
          <5>1. Nothing \notin EventsOf(d) /\ ResultEvent(c) \notin EventsOf(d)
            BY <4>8, EventFacts DEF EventsOf
          <5> QED BY <1>1, <1>3, <2>2, <2>5, <4>1, <4>3, <4>8, <5>1 DEF Same, EventsOf
        <4> QED BY <1>4, <2>4, <4>3, <4>4, <4>5, <4>6, <4>7, <4>8, SameKeeps DEF IInv, CallInv
      <3>2. CASE ~GivenUp(c)
        <4>1. forwards' = forwards \cup {c} /\ UNCHANGED <<response, ready>>
          BY <2>2, <2>7, <3>2, EventFacts DEF Accept
        <4>2. Types'
          BY <1>0, <1>1, <1>3, <2>2, <4>1 DEF Types, TypeOK, Streams
        <4>3. StageInv'
          BY <1>0, <1>1, <1>3, <4>1 DEF StageInv
        <4>4. \A d \in Calls : TaskInv(d)'
          BY <1>3, <4>1 DEF IInv, CallInv, TaskInv
        <4>5. PlaceInv(c)'
          BY <1>1, <1>3, <2>2, <2>3, <3>0, <4>1, EventFacts DEF PlaceInv, EventsOf
        <4>6. ASSUME NEW d \in Calls, d # c PROVE Same(d)
          <5>1. Nothing \notin EventsOf(d)
            BY EventFacts
          <5> QED BY <1>1, <1>3, <2>2, <2>5, <4>1, <4>6, <5>1 DEF Same
        <4> QED BY <1>4, <2>3, <2>4, <4>1, <4>2, <4>3, <4>4, <4>5, <4>6, SameKeeps DEF IInv, CallInv
      <3> QED BY <3>1, <3>2
    <2> QED BY <2>1, <2>6, <2>7 DEF EventsOf
  <1> QED BY <1>5, <1>6
-----------------------------------------------------------------------------
(* The merger yields. *)
LEMMA TakeStep ==
    ASSUME IInv, TakeRelayEvent
    PROVE  IInv'
  <1> USE DEF TakeRelayEvent, callVars, flags, serviceVars
  <1>0. TypeOK /\ stream \in Streams /\ StageInv /\ HeldInv
    BY DEF IInv, Types
  <1>1. /\ held = Nothing /\ ~answered /\ handedOut # Nothing /\ held' = handedOut
        /\ held' \in RelayEvents
    BY <1>0, EventFacts DEF HeldInv, TypeOK
  <1>2. Types'
    BY <1>0, <1>1 DEF Types, TypeOK, Streams
  <1>3. StageInv' /\ HeldInv' /\ SlotInv' /\ Single(ready')
    <2>1. StageInv' /\ SlotInv' /\ Single(ready')
      BY <1>0 DEF IInv, StageInv, SlotInv
    <2>2. HeldInv'
      BY <1>0, <1>1, EventFacts DEF HeldInv
    <2> QED BY <2>1, <2>2
  <1>4. ASSUME NEW d \in Calls PROVE TaskInv(d)' /\ PlaceInv(d)'
    <2>1. TaskInv(d) /\ PlaceInv(d) /\ Nothing \notin EventsOf(d)
      BY EventFacts DEF IInv, CallInv
    <2>2. TaskInv(d)'
      BY <2>1 DEF TaskInv
    <2>3. PlaceInv(d)'
      BY <1>1, <2>1 DEF PlaceInv, EventsOf
    <2> QED BY <2>2, <2>3
  <1> QED BY <1>2, <1>3, <1>4 DEF IInv, CallInv

(* A look at an idle barrier: nothing is queued, handed out or running. *)
LEMMA IdleBarrier ==
    ASSUME IInv, merger = "waiting", closing = "open", reader \notin {"done", "failed"},
           ~HasReadyEvent, forwards = {}
    PROVE  stream.calls \subseteq stream.answered
  <1>1. held = Nothing /\ handedOut = Nothing /\ ~stopped /\ ~reflected
        /\ ready \in Seq(RelayEvents) /\ stream.calls \subseteq Calls
    BY DEF IInv, HeldInv, StageInv, HasReadyEvent, Types, TypeOK
  <1>2. ASSUME NEW c \in stream.calls, c \notin stream.answered PROVE FALSE
    <2>1. PlaceInv(c)
      BY <1>1 DEF IInv, CallInv
    <2>2. ResultEvent(c) \in ToSet(ready)
      BY <1>1, <1>2, <2>1, EventFacts DEF PlaceInv
    <2>3. \E i \in DOMAIN ready : ready[i] = ResultEvent(c)
      BY <2>2 DEF ToSet
    <2> QED BY <1>1, <2>3, EventFacts DEF HasReadyEvent, Live
  <1> QED BY <1>2

LEMMA TakeCoreStep ==
    ASSUME IInv, TakeCoreEvent
    PROVE  IInv'
  <1> USE DEF TakeCoreEvent, barrierVars, callVars, flags, serviceVars
  <1>0. TypeOK /\ stream \in Streams /\ StageInv /\ HeldInv
    BY DEF IInv, Types
  <1>1. CASE coreStep = "tool_line"
    <2>1. Types'
      BY <1>0, <1>1 DEF Types, TypeOK, Streams
    <2>2. StageInv' /\ HeldInv'
      BY <1>0, <1>1 DEF StageInv, HeldInv
    <2> QED BY <1>1, <2>1, <2>2, QuietStep
  <1>2. CASE coreStep \in {"text", "final"}
    <2>1. /\ coreStep' = "none" /\ merger' = "yielded" /\ held' = CoreEvent(coreStep)
          /\ UNCHANGED <<barrierVars, tools, serviceVars, closing>>
          /\ held = Nothing /\ handedOut = Nothing /\ ~answered
      BY <1>0, <1>2, EventFacts DEF BarrierIdle, HeldInv
    <2>2. held' \in {CoreEvent("text"), CoreEvent("final")} /\ held' \notin RelayEvents
          /\ held' # Nothing
      BY <1>2, <2>1, EventFacts
    <2>3. Types'
      BY <1>0, <2>1, <2>2 DEF Types, TypeOK, Streams
    <2>4. StageInv' /\ SlotInv' /\ Single(ready')
      BY <1>0, <2>1 DEF IInv, StageInv, SlotInv
    <2>5. held' = CoreEvent("final") => stream'.calls \subseteq stream'.answered
      <3>1. held' = CoreEvent("final") => coreStep = "final"
        BY <1>2, <2>1, EventFacts
      <3> QED BY <2>1, <3>1, IdleBarrier DEF BarrierIdle
    <2>6. HeldInv'
      BY <1>0, <2>1, <2>2, <2>5, EventFacts DEF HeldInv
    <2>7. ASSUME NEW d \in Calls PROVE TaskInv(d)' /\ Same(d)
      <3>1. held \notin EventsOf(d) /\ held' \notin EventsOf(d)
        BY <2>1, <2>2, EventFacts
      <3> QED BY <2>1, <3>1 DEF IInv, CallInv, TaskInv, Same
    <2> QED BY <2>3, <2>4, <2>6, <2>7, SameKeeps DEF IInv, CallInv
  <1> QED BY <1>1, <1>2

-----------------------------------------------------------------------------
(* The end of the record, and the close. *)
LEMMA RecordStep ==
    ASSUME IInv, RecordEnds
    PROVE  IInv'
  <1> USE DEF RecordEnds, barrierVars, callVars, flags
  <1>0. TypeOK /\ stream \in Streams /\ StageInv /\ HeldInv
    BY DEF IInv, Types
  <1>1. stream.terminal = NoTerminal /\ ending' \in Terminals /\ CoreEvent(ending').kind = ending'
        /\ ending' \notin {"call", "result"}
    <2>1. DueCutShortEnding(stream) \in Terminals
      BY DEF DueCutShortEnding, Terminals, CutShort
    <2>2. ending' \in Terminals
      BY <2>1 DEF Terminals
    <2> QED BY <1>0, <2>2, EventFacts DEF TypeOK, Terminals, CutShort
  <1>2. \/ stream' = stream
        \/ stream' = [calls |-> stream.calls, answered |-> stream.answered, terminal |-> ending']
    BY <1>0, <1>1 DEF Record, Streams
  <1>3. Types'
    BY <1>0, <1>1, <1>2 DEF Types, TypeOK, Streams
  <1>4. StageInv' /\ SlotInv' /\ Single(ready') /\ HeldInv'
    BY <1>0, <1>2 DEF IInv, StageInv, SlotInv, HeldInv
  <1>5. ASSUME NEW d \in Calls PROVE TaskInv(d)' /\ Same(d)
    BY <1>2 DEF IInv, CallInv, TaskInv, Same
  <1> QED BY <1>3, <1>4, <1>5, SameKeeps DEF IInv, CallInv

LEMMA CloseStep ==
    ASSUME IInv, CloseBegins
    PROVE  IInv'
  <1> USE DEF CloseBegins, Stop, callVars, flags, serviceVars
  <1>0. TypeOK /\ stream \in Streams /\ StageInv /\ HeldInv
    BY DEF IInv, Types
  <1>1. ready' \in Seq(RelayEvents) /\ Single(ready') /\ ToSet(ready') = {}
    BY DEF Single, ToSet
  <1>2. held.kind = "final" <=> held = CoreEvent("final")
    BY <1>0, EventFacts DEF TypeOK
  <1>3. Types'
    BY <1>0, <1>1 DEF Types, TypeOK, Streams
  <1>4. StageInv' /\ SlotInv'
    BY <1>0 DEF IInv, StageInv, SlotInv
  <1>5. HeldInv'
    <2>1. held' \notin RelayEvents /\ merger = "over" /\ (held' # Nothing => held' = held)
      BY <1>0, <1>2, EventFacts DEF StageInv
    <2>2. held' = CoreEvent("final") => held = CoreEvent("final")
      BY <2>1, EventFacts
    <2>3. answered => held' = CoreEvent("final")
      BY <1>0, <1>2, EventFacts DEF HeldInv
    <2> QED BY <1>0, <2>1, <2>2, <2>3 DEF HeldInv
  <1>6. ASSUME NEW d \in Calls PROVE TaskInv(d)' /\ PlaceInv(d)'
    <2>1. TaskInv(d) /\ PlaceInv(d) /\ Nothing \notin EventsOf(d)
      BY EventFacts DEF IInv, CallInv
    <2>2. TaskInv(d)'
      <3>1. response'[d] = IF d \in pending /\ response[d] = "open" THEN "refused" ELSE response[d]
        OBVIOUS
      <3> QED BY <2>1, <3>1 DEF TaskInv
    <2>3. PlaceInv(d)'
      BY <1>1, <2>1 DEF PlaceInv, EventsOf
    <2> QED BY <2>2, <2>3
  <1> QED BY <1>1, <1>3, <1>4, <1>5, <1>6 DEF IInv, CallInv

LEMMA RelayStep ==
    ASSUME IInv, RelayCloses
    PROVE  IInv'
  <1> USE DEF RelayCloses, callVars, flags, serviceVars
  <1>0. TypeOK /\ stream \in Streams /\ StageInv /\ HeldInv /\ stopped
    BY DEF IInv, Types, StageInv
  <1>1. Types'
    <2>1. \A c \in Calls : task[c] \in {"new", "waiting", "cut", "returned"}
      BY <1>0 DEF TypeOK
    <2>2. task' \in [Calls -> {"new", "waiting", "cut", "returned"}]
      BY <2>1
    <2>3. \A c \in Calls : response[c] \in {"none", "open", "replied", "refused", "unanswered", "cancelled"}
      BY <1>0 DEF TypeOK
    <2>4. response' \in [Calls -> {"none", "open", "replied", "refused", "unanswered", "cancelled"}]
      BY <2>3
    <2> QED BY <1>0, <2>2, <2>4 DEF Types, TypeOK, Streams
  <1>2. StageInv' /\ SlotInv' /\ HeldInv' /\ Single(ready')
    BY <1>0 DEF IInv, StageInv, SlotInv, HeldInv
  <1>3. ASSUME NEW d \in Calls PROVE TaskInv(d)' /\ Same(d)
    <2>1. TaskInv(d)
      BY DEF IInv, CallInv
    <2>2. /\ task'[d] = IF task[d] = "waiting" THEN "cut" ELSE task[d]
          /\ response'[d] = IF task[d] = "waiting" /\ response[d] = "open"
                              THEN "cancelled" ELSE response[d]
      OBVIOUS
    <2>3. TaskInv(d)'
      BY <1>0, <2>1, <2>2 DEF TaskInv
    <2>4. Same(d)
      BY <2>2 DEF Same
    <2> QED BY <2>3, <2>4
  <1> QED BY <1>1, <1>2, <1>3, SameKeeps DEF IInv, CallInv

-----------------------------------------------------------------------------
LEMMA IInvStep == IInv /\ [Next]_vars => IInv'
  <1> SUFFICES ASSUME IInv, [Next]_vars PROVE IInv'
    OBVIOUS
  <1>1. CASE Open
    BY <1>1, OpenStep
  <1>2. CASE CliActs
    BY <1>2, CallStep, CancelStep, CutStep, FlagStep DEF CliActs
  <1>3. CASE Serve
    BY <1>3, SentStep, AskStep DEF Serve
  <1>4. CASE CoreSteps \/ ServiceCloses
    BY <1>4, CoreStep
  <1>5. CASE ReadEvents
    BY <1>5, NextEventStep, FlagStep DEF ReadEvents
  <1>6. CASE Merge
    BY <1>6, TakeStep, TakeCoreStep, CoreStep DEF Merge
  <1>7. CASE Close
    BY <1>7, CloseStep, CoreStep, RelayStep, OpenStep DEF Close
  <1>8. CASE \E c \in Calls : AnswerCall(c) \/ AppAnswers(c) \/ ForwardAborted(c)
    BY <1>8, ReturnStep, ForwardStep, AbortStep DEF AnswerCall, AppAnswers
  <1>9. CASE RecordEnds
    BY <1>9, RecordStep
  <1>10. CASE UNCHANGED vars
    <2>1. IInv /\ UNCHANGED vars
      BY <1>10
    <2>2. Types' /\ StageInv' /\ HeldInv'
      BY <2>1 DEF vars, barrierVars, runVars, serviceVars, flags, callVars, IInv, Types, TypeOK, Streams,
                  StageInv, HeldInv
    <2> QED BY <2>1, <2>2, QuietStep DEF vars, barrierVars, runVars, serviceVars, flags, callVars
  <1> QED BY <1>1, <1>2, <1>3, <1>4, <1>5, <1>6, <1>7, <1>8, <1>9, <1>10 DEF Next, Closed

LEMMA Invariance == Spec => []IInv
  BY IInvInit, IInvStep, PTL DEF Spec
-----------------------------------------------------------------------------
(* One thing stands for the result of a call that is told of. *)
LEMMA OneIsOwed ==
    ASSUME IInv, ~stopped, ~reflected, NEW c \in Calls
    PROVE  Cardinality(Owed(c)) =
              IF c \in stream.calls \ stream.answered \/ held \in {CallEvent(c), ResultEvent(c)}
                THEN 1 ELSE 0
  <1>1. /\ PlaceInv(c) /\ ready \in Seq(RelayEvents) /\ Single(ready)
        /\ held \in RelayEvents => handedOut = held
        /\ EventsOf(c) \subseteq RelayEvents
    BY EventFacts DEF IInv, CallInv, Types, TypeOK, HeldInv
  <1>2. /\ DOMAIN ready = 1 .. Len(ready)
        /\ \A e : e \in ToSet(ready) <=> \E i \in 1 .. Len(ready) : ready[i] = e
    BY <1>1, Members
  <1> DEFINE isOwed == c \in stream.calls \ stream.answered \/ held \in {CallEvent(c), ResultEvent(c)}
             queued == {i \in DOMAIN ready : ready[i] = ResultEvent(c)}
  <1>3. queued = {} <=> ResultEvent(c) \notin ToSet(ready)
    BY <1>2
  <1>4. CASE ~isOwed
    <2>1. held # CallEvent(c) /\ c \notin forwards /\ queued = {} /\ handedOut # ResultEvent(c)
      BY <1>1, <1>3, <1>4 DEF PlaceInv
    <2>2. Owed(c) = {}
      BY <2>1 DEF Owed
    <2> QED BY <1>4, <2>2, FS_EmptySet
  <1>5. CASE isOwed
    <2>1. CASE held = CallEvent(c)
      <3>1. handedOut = CallEvent(c) /\ c \notin forwards /\ queued = {}
            /\ handedOut # ResultEvent(c)
        BY <1>1, <1>3, <2>1, EventFacts DEF PlaceInv, EventsOf
      <3>2. Owed(c) = {<<"held", 0>>}
        BY <2>1, <3>1 DEF Owed
      <3> QED BY <1>5, <3>2, FS_Singleton
    <2>2. CASE held # CallEvent(c) /\ c \in forwards
      <3>1. queued = {} /\ handedOut # ResultEvent(c)
        BY <1>1, <1>3, <2>2 DEF PlaceInv, EventsOf
      <3>2. Owed(c) = {<<"forward", 0>>}
        BY <2>2, <3>1 DEF Owed
      <3> QED BY <1>5, <3>2, FS_Singleton
    <2>3. CASE held # CallEvent(c) /\ c \notin forwards /\ handedOut = ResultEvent(c)
      <3>1. queued = {}
        BY <1>1, <1>3, <2>3 DEF PlaceInv, EventsOf
      <3>2. Owed(c) = {<<"out", 0>>}
        BY <2>3, <3>1 DEF Owed
      <3> QED BY <1>5, <3>2, FS_Singleton
    <2>4. CASE held # CallEvent(c) /\ c \notin forwards /\ handedOut # ResultEvent(c)
      <3>1. c \in stream.calls \ stream.answered
        BY <1>1, <1>5, <2>4 DEF EventsOf
      <3>2. ResultEvent(c) \in ToSet(ready)
        BY <1>1, <2>4, <3>1 DEF PlaceInv
      <3>3. PICK i \in 1 .. Len(ready) : ready[i] = ResultEvent(c)
        BY <1>2, <3>2
      <3>4. queued = {i}
        BY <1>1, <1>2, <3>3 DEF Single
      <3>5. Owed(c) = {<<"ready", i>>}
        <4> HIDE DEF queued
        <4>1. Owed(c) = {<<"ready", j>> : j \in queued}
          BY <2>4 DEF Owed, queued
        <4> QED BY <3>4, <4>1
      <3> QED BY <1>5, <3>5, FS_Singleton
    <2> QED BY <2>1, <2>2, <2>3, <2>4
  <1> QED BY <1>4, <1>5

(* Whoever gives a call up and when, it keeps its slot until it is over, and *)
(* exactly one thing stands for a result that is owed; after the stop nobody *)
(* waits for an answer.  Code: ToolCallBarrier.                              *)
THEOREM EveryCallHasItsPlace == Spec => []EveryCallIsAccountedFor
  <1>1. IInv => EveryCallIsAccountedFor
    <2> SUFFICES ASSUME IInv PROVE EveryCallIsAccountedFor
      OBVIOUS
    <2>1. TypeOK /\ pending \subseteq Calls /\ \A c \in Calls : TaskInv(c)
      BY DEF IInv, Types, SlotInv, CallInv
    <2>2. pending = {c \in Calls : task[c] \in {"waiting", "cut"}} \ cancelledByCli
      BY <2>1 DEF TaskInv
    <2>3. stopped => \A c \in Calls : response[c] # "open"
      BY <2>1 DEF TaskInv
    <2> QED BY <2>1, <2>2, <2>3, OneIsOwed DEF IInv, SlotInv, EveryCallIsAccountedFor
  <1> QED BY <1>1, Invariance, PTL

(* The client is told of nothing but what was held, by any step.              *)
LEMMA ToldWasHeld ==
    ASSUME IInv, [Next]_vars
    PROVE  ToldEvents' \ ToldEvents \subseteq InHand
  <1> USE DEF serviceVars, runVars, vars
  <1>1. CASE EventSent
    <2>1. /\ held \in RelayEvents \cup {Nothing, CoreEvent("text"), CoreEvent("final")}
          /\ stream \in Streams
      BY DEF IInv, Types, TypeOK
    <2>2. held # Nothing
      BY <1>1 DEF IInv, HeldInv, EventSent
    <2>3. CASE held.kind = "final"
      <3>1. held = CoreEvent("final")
        BY <2>1, <2>3, EventFacts
      <3>2. ToldEvents' \ ToldEvents \subseteq {CoreEvent("final")}
        BY <1>1, <2>3 DEF EventSent, ToldEvents
      <3> QED BY <2>2, <3>1, <3>2 DEF InHand
    <2>4. CASE held.kind # "final"
      <3>1. UNCHANGED answered /\ stream' = Record(stream, held) /\ held.kind # "text"
        BY <1>1, <2>4 DEF EventSent
      <3>2. held \in RelayEvents
        BY <2>1, <2>2, <2>4, <3>1, EventFacts
      <3>3. /\ stream'.calls = IF held.kind = "call" THEN stream.calls \cup {held.call}
                                                    ELSE stream.calls
            /\ stream'.answered = IF held.kind = "result"
                                    THEN stream.answered \cup {held.call}
                                    ELSE stream.answered
        BY <2>1, <3>1 DEF Record, Streams
      <3>4. /\ held.kind = "call" => held = CallEvent(held.call)
            /\ held.kind = "result" => held = ResultEvent(held.call)
        BY <3>2, EventFacts
      <3> QED BY <2>2, <3>1, <3>3, <3>4 DEF ToldEvents, InHand
    <2> QED BY <2>3, <2>4
  <1>2. CASE RecordEnds
    <2>1. stream \in Streams /\ CoreEvent(ending').kind = ending' /\ ending' \in Terminals
      BY <1>2, EventFacts DEF IInv, Types, RecordEnds, DueCutShortEnding, Terminals, CutShort
    <2>2. ending' \notin {"call", "result"}
      BY <2>1 DEF Terminals, CutShort
    <2>3. stream'.calls = stream.calls /\ stream'.answered = stream.answered
      BY <1>2, <2>1, <2>2 DEF RecordEnds, Record, Streams
    <2>4. answered' = answered
      BY <1>2 DEF RecordEnds
    <2> QED BY <2>3, <2>4 DEF ToldEvents
  <1>3. CASE ~EventSent /\ ~RecordEnds
    <2>1. UNCHANGED <<stream, answered>>
      BY <1>3, Zenon DEF Next, Open, RunBegins, ClientEntered, ToolsListed, RelayStarted,
                  OpeningFails, CliActs, Serve, AskNext, CoreSteps, ReadEvents, Merge,
                  TakeRelayEvent, TakeCoreEvent, SourceEnds, ServiceCloses, Close, CloseBegins,
                  Reaped, SettlingEnds, RelayCloses, ClientLeft, AnswerCall, AppAnswers,
                  ForwardAborted, Closed
    <2> QED BY <2>1 DEF ToldEvents
  <1> QED BY <1>1, <1>2, <1>3

(* Once the capability was seen in an answer, nothing enters the way to the   *)
(* client: the reader fails instead of handing out, the merger fails instead  *)
(* of yielding, and what is told was held before.                             *)
(* Code: _require_usable, has_ready_event.                                    *)
THEOREM NothingFollowsAReflection == Spec => NothingAfterReflection
  <1>1. ASSUME IInv, Next, reflected PROVE InHand' \subseteq InHand
    <2> USE <1>1 DEF serviceVars, runVars, vars, InHand
    <2>1. CASE Open \/ ServiceCloses \/ CoreSteps \/ RecordEnds \/ Closed
      BY <2>1 DEF Open, RunBegins, ClientEntered, ToolsListed, RelayStarted, OpeningFails,
                  ServiceCloses, CoreSteps, RecordEnds, Closed, barrierVars, callVars, flags
    <2>2. CASE CliActs
      BY <2>2 DEF CliActs, CancelCall, CutCall, Call, CallUnoffered, AnswerReflects
    <2>3. CASE ReadEvents
      BY <2>3 DEF ReadEvents, NextEvent, ReaderWakes
    <2>4. CASE Serve
      BY <2>4 DEF Serve, EventSent, AskNext, Accept, barrierVars
    <2>5. CASE Merge
      <3>1. ~TakeCoreEvent \/ held' = held
        BY DEF TakeCoreEvent, BarrierIdle, HasReadyEvent
      <3>2. CASE TakeRelayEvent
        BY <3>2 DEF TakeRelayEvent
      <3>3. CASE TakeCoreEvent
        BY <3>1, <3>3 DEF TakeCoreEvent, barrierVars
      <3>4. CASE SourceEnds
        BY <3>4 DEF SourceEnds, barrierVars
      <3> QED BY <2>5, <3>2, <3>3, <3>4 DEF Merge
    <2>6. CASE Close
      BY <2>6 DEF Close, CloseBegins, Stop, Reaped, SettlingEnds, RelayCloses, ClientLeft,
                  barrierVars
    <2>7. CASE \E c \in Calls : AnswerCall(c) \/ AppAnswers(c) \/ ForwardAborted(c)
      BY <2>7 DEF AnswerCall, AppAnswers, ForwardAborted, CallReturns, ForwardEnds,
                  ForwardCancelled
    <2> QED BY <2>1, <2>2, <2>3, <2>4, <2>5, <2>6, <2>7 DEF Next
  <1>2. IInv /\ [Next]_vars =>
          [reflected => InHand' \subseteq InHand /\ ToldEvents' \ ToldEvents \subseteq InHand]_vars
    BY <1>1, ToldWasHeld
  <1> QED BY <1>2, Invariance, PTL DEF Spec, NothingAfterReflection

-----------------------------------------------------------------------------
(* What a run is under the contract. *)
Holds == IF held # Nothing /\ Sent(held) THEN held ELSE Nothing
Told == [c \in Calls |-> IF c \in stream.answered THEN "result"
                         ELSE IF c \in stream.calls THEN "call" ELSE "nothing"]
Released == {c \in Calls : response[c] = "replied"}

LEMMA HoldsWhatWasSent ==
    ASSUME IInv
    PROVE  /\ held = Nothing => Holds = Nothing
           /\ held = CoreEvent("text") => Holds = Nothing
           /\ held = CoreEvent("final") => Holds = IF answered THEN held ELSE Nothing
           /\ \A c \in Calls :
                 /\ held = CallEvent(c) => Holds = IF c \in stream.calls THEN held ELSE Nothing
                 /\ held = ResultEvent(c) => Holds = IF c \in stream.answered THEN held ELSE Nothing
  BY EventFacts DEF Holds, Sent

LEMMA ContractInit == Init => Contract!ContractInit
  <1> SUFFICES ASSUME Init PROVE Contract!ContractInit
    OBVIOUS
  <1>1. Holds = Nothing /\ Released = {} /\ Told = [c \in Calls |-> "nothing"]
    BY DEF Init, BarrierInit, Holds, Released, Told, NewStream
  <1> QED BY <1>1 DEF Contract!ContractInit, Holds, Released, Told, Init, BarrierInit, NoTerminal,
                     Nothing, Contract!Nothing
(* The contract's variables, named. *)
LEMMA ContractVars ==
    UNCHANGED <<Holds, Told, Released, forwards, outcome, ending>> => UNCHANGED Contract!contractVars
  BY DEF Contract!contractVars, Holds, Told, Released

(* Steps the contract does not speak of: no reply leaves. *)
LEMMA SilentStep ==
    ASSUME UNCHANGED <<held, stream, answered, forwards, outcome, ending>>,
           \A c \in Calls : response'[c] = "replied" <=> response[c] = "replied"
    PROVE  UNCHANGED Contract!contractVars
  <1>1. UNCHANGED <<Holds, Told, Released>>
    BY DEF Holds, Told, Released, Sent
  <1> QED BY <1>1, ContractVars

LEMMA SentKeeps ==
    ASSUME IInv, EventSent
    PROVE  Contract!ContractNext
  <1> USE DEF EventSent, barrierVars
  <1>1. /\ ending = "none" /\ Holds = Nothing /\ held # Nothing
        /\ TypeOK /\ stream \in Streams /\ HeldInv
    BY DEF IInv, Types, StageInv, HeldInv, NoTerminal, Holds
  <1>2. UNCHANGED <<forwards, outcome, Released, ending>>
    BY DEF Released
  <1>3. CASE held.kind = "final"
    <2>1. held = CoreEvent("final") /\ answered' = TRUE /\ UNCHANGED <<held, stream>>
      BY <1>1, <1>3, EventFacts DEF TypeOK
    <2>2. \A c \in Calls : Told[c] # "call"
      BY <1>1, <2>1 DEF HeldInv, Told
    <2>3. Holds' = held /\ Told' = Told
      BY <1>1, <1>3, <2>1 DEF Holds, Told, Sent
    <2>4. Contract!TellFinal
      BY <1>1, <1>2, <2>1, <2>2, <2>3
         DEF Contract!TellFinal, Contract!Nothing, Contract!Final, Nothing, CoreEvent,
             Holds, Told, Released
    <2> QED BY <2>4 DEF Contract!ContractNext
  <1>4. CASE held.kind # "final"
    <2>1. held \in RelayEvents /\ handedOut = held
      BY <1>1, <1>4, EventFacts DEF TypeOK, HeldInv
    <2>2. PICK c \in Calls : held \in EventsOf(c)
      BY <2>1, EventFacts
    <2>3. /\ Keeps(stream, held) /\ stream' = Record(stream, held) /\ UNCHANGED <<held, answered>>
          /\ held.kind \notin Terminals /\ PlaceInv(c) /\ stream.answered \subseteq stream.calls
      BY <1>1, <1>4, <2>1, EventFacts DEF IInv, CallInv, TypeOK, Terminals, CutShort
    <2>4. CASE held = CallEvent(c)
      <3>1. /\ c \notin stream.calls \cup stream.answered
            /\ stream'.calls = stream.calls \cup {c} /\ stream'.answered = stream.answered
        BY <1>1, <2>3, <2>4, EventFacts DEF Keeps, Record, Streams
      <3>2. Told[c] = "nothing" /\ Told' = [Told EXCEPT ![c] = "call"]
        BY <3>1 DEF Told
      <3>3. Holds' = held
        BY <1>1, <2>3, <2>4, <3>1, EventFacts DEF Holds, Sent
      <3>4. Contract!TellCall(c)
        BY <1>1, <1>2, <2>4, <3>2, <3>3
           DEF Contract!TellCall, Contract!Nothing, Nothing, CallEvent, Holds, Told, Released
      <3> QED BY <3>4 DEF Contract!ContractNext
    <2>5. CASE held = ResultEvent(c)
      <3>1. /\ c \in stream.calls \ stream.answered
            /\ stream'.calls = stream.calls /\ stream'.answered = stream.answered \cup {c}
        BY <1>1, <2>3, <2>5, EventFacts DEF Keeps, Record, Streams
      <3>2. Told[c] = "call" /\ Told' = [Told EXCEPT ![c] = "result"]
        BY <3>1 DEF Told
      <3>3. Holds' = held
        BY <1>1, <2>3, <2>5, <3>1, EventFacts DEF Holds, Sent
      <3>4. c \notin forwards
        BY <2>1, <2>3, <2>5 DEF PlaceInv, EventsOf
      <3>5. Contract!TellResult(c)
        BY <1>1, <1>2, <2>5, <3>2, <3>3, <3>4
           DEF Contract!TellResult, Contract!Nothing, Nothing, ResultEvent, Holds, Told, Released
      <3> QED BY <3>5 DEF Contract!ContractNext
    <2> QED BY <2>2, <2>4, <2>5 DEF EventsOf
  <1> QED BY <1>3, <1>4

(* The service goes on, or the close gives up the event that is held. *)
LEMMA GoesOn ==
    ASSUME IInv, ending = "none", UNCHANGED <<stream, answered, outcome, ending>>,
           held \in RelayEvents, Sent(held), held' = Nothing,
           IF held.kind = "call" THEN forwards' \in {forwards, forwards \cup {held.call}}
                                 ELSE UNCHANGED forwards,
           IF held.kind = "result" /\ held.call \in outcome
             THEN Released' \in {Released, Released \cup {held.call}}
             ELSE UNCHANGED Released
    PROVE  Contract!ContractNext
  <1>1. Holds = held /\ Holds' = Nothing /\ Told' = Told
    BY EventFacts DEF Holds, Told
  <1>2. held \notin {Contract!Nothing, Contract!Final} /\ Contract!Nothing = Nothing
    BY EventFacts DEF Contract!Nothing, Contract!Final, Nothing, CoreEvent
  <1>3. Contract!GoOn
    BY <1>1, <1>2 DEF Contract!GoOn, Holds, Told, Released
  <1> QED BY <1>3 DEF Contract!ContractNext

LEMMA AskKeeps ==
    ASSUME IInv, AskNext
    PROVE  [Contract!ContractNext]_(Contract!contractVars)
  <1> USE DEF AskNext, serviceVars, callVars, flags
  <1>1. /\ ending = "none" /\ TypeOK /\ held' = Nothing
        /\ UNCHANGED <<stream, answered, outcome, ending>>
    BY DEF IInv, Types, StageInv, NoTerminal, Accept
  <1>2. CASE held \notin RelayEvents
    <2>1. held.kind = "text" /\ UNCHANGED <<response, forwards>>
      BY <1>2
    <2>2. Holds = Nothing /\ Holds' = Nothing
      BY <1>1, <2>1 DEF Holds, Sent
    <2>3. UNCHANGED <<Told, Released>>
      BY <1>1, <2>1 DEF Told, Released
    <2> QED BY <1>1, <2>1, <2>2, <2>3, ContractVars
  <1>3. CASE held \in RelayEvents
    <2>1. Sent(held) /\ Accept(held) /\ held.call \in Calls /\ held.kind \in {"call", "result"}
      BY <1>3, EventFacts
    <2>2. CASE held.kind = "result"
      <3>1. /\ response' = IF held.call \in outcome THEN Resolved(held.call, "replied") ELSE response
            /\ UNCHANGED forwards
        BY <2>1, <2>2 DEF Accept
      <3>2. IF held.call \in outcome THEN Released' \in {Released, Released \cup {held.call}}
                                     ELSE UNCHANGED Released
        <4>1. CASE held.call \in outcome /\ response[held.call] = "open"
          <5>1. Released' = Released \cup {held.call}
            BY <1>1, <2>1, <3>1, <4>1 DEF Released, Resolved, TypeOK
          <5> QED BY <4>1, <5>1
        <4>2. CASE ~(held.call \in outcome /\ response[held.call] = "open")
          <5>1. Released' = Released
            BY <1>1, <2>1, <3>1, <4>2 DEF Released, Resolved, TypeOK
          <5> QED BY <5>1
        <4> QED BY <4>1, <4>2
      <3> QED BY <1>1, <1>3, <2>1, <2>2, <3>1, <3>2, GoesOn
    <2>3. CASE held.kind = "call"
      <3>1. response' = response /\ forwards' \in {forwards, forwards \cup {held.call}}
        BY <2>1, <2>3 DEF Accept
      <3>2. Released' = Released
        BY <3>1 DEF Released
      <3> QED BY <1>1, <1>3, <2>1, <2>3, <3>1, <3>2, GoesOn
    <2> QED BY <2>1, <2>2, <2>3
  <1> QED BY <1>2, <1>3

LEMMA CloseKeeps ==
    ASSUME IInv, CloseBegins
    PROVE  [Contract!ContractNext]_(Contract!contractVars)
  <1> USE DEF CloseBegins, Stop, callVars, flags, serviceVars
  <1>1. ending = "none" /\ TypeOK /\ UNCHANGED <<stream, answered, outcome, ending, forwards>>
    BY DEF IInv, Types, StageInv, NoTerminal
  <1>2. Released' = Released /\ Told' = Told
    <2>1. \A c \in Calls : response'[c] = "replied" <=> response[c] = "replied"
      OBVIOUS
    <2> QED BY <1>1, <2>1 DEF Released, Told
  <1>3. CASE held.kind = "final"
    <2>1. Holds' = Holds
      BY <1>1, <1>3 DEF Holds, Sent
    <2> QED BY <1>1, <1>2, <2>1, ContractVars
  <1>4. CASE held \in RelayEvents /\ Sent(held)
    <2>1. held' = Nothing
      BY <1>4, EventFacts
    <2> QED BY <1>1, <1>2, <1>4, <2>1, GoesOn
  <1>5. CASE held.kind # "final" /\ ~(held \in RelayEvents /\ Sent(held))
    <2>1. held' = Nothing /\ Holds' = Nothing
      BY <1>5 DEF Holds
    <2>2. Holds = Nothing
      BY <1>1, <1>5, EventFacts DEF Holds, TypeOK, Sent
    <2> QED BY <1>1, <1>2, <2>1, <2>2, ContractVars
  <1> QED BY <1>3, <1>4, <1>5

LEMMA FinishKeeps ==
    ASSUME IInv, NEW c \in Calls, AppAnswers(c) \/ ForwardAborted(c)
    PROVE  Contract!ContractNext
  <1>1. /\ c \in forwards /\ forwards' = forwards \ {c} /\ outcome' \in {outcome, outcome \cup {c}}
        /\ UNCHANGED runVars /\ (response' = response \/ response' = Resolved(c, "unanswered"))
    BY DEF AppAnswers, ForwardAborted, ForwardEnds, ForwardCancelled, QueueResult, RefuseOutcome
  <1>2. UNCHANGED <<Holds, Told, Released, ending>>
    <2>1. UNCHANGED <<held, stream, answered, ending>>
      BY <1>1 DEF runVars, serviceVars
    <2>2. \A d \in Calls : response'[d] = "replied" <=> response[d] = "replied"
      BY <1>1 DEF Resolved, IInv, Types, TypeOK
    <2> QED BY <2>1, <2>2 DEF Holds, Told, Released, Sent
  <1>3. Contract!Finish(c)
    BY <1>1, <1>2 DEF Contract!Finish, Holds, Told, Released
  <1> QED BY <1>3 DEF Contract!ContractNext

LEMMA RecordKeeps ==
    ASSUME IInv, RecordEnds
    PROVE  Contract!ContractNext
  <1> USE DEF RecordEnds, barrierVars
  <1>1. /\ ending = "none" /\ TypeOK /\ stream \in Streams /\ HeldInv
        /\ UNCHANGED <<held, answered, forwards, outcome, response>>
    BY DEF IInv, Types, NoTerminal
  <1>2. /\ ending' \in {"succeeded", "failed", "interrupted", "cancelled"}
        /\ CoreEvent(ending').kind = ending' /\ ending' \notin {"call", "result"}
        /\ ending' = "succeeded" => answered
        /\ ending' = "cancelled" => stream.calls \cap SideEffecting = {}
        /\ ending' = "interrupted" => stream.calls \cap SideEffecting # {}
    <2>1. DueCutShortEnding(stream) = IF stream.calls \cap SideEffecting # {}
                                        THEN "interrupted" ELSE "cancelled"
      BY DEF DueCutShortEnding
    <2> QED BY <2>1, EventFacts DEF Terminals, CutShort
  <1>3. stream'.calls = stream.calls /\ stream'.answered = stream.answered
    BY <1>1, <1>2 DEF Record, Streams
  <1>4. UNCHANGED <<Holds, Told, Released>>
    BY <1>1, <1>3 DEF Holds, Told, Released, Sent
  <1>5. answered => Holds = Contract!Final
    <2>1. CoreEvent("final") = Contract!Final
      BY DEF Contract!Final, CoreEvent
    <2> QED BY <1>1, <2>1, HoldsWhatWasSent DEF HeldInv
  <1>6. \A c \in SideEffecting : Told[c] = "nothing" <=> c \notin stream.calls
    BY <1>1, StreamAssumption DEF Told, TypeOK
  <1>7. Contract!EndRun
    BY <1>1, <1>2, <1>4, <1>5, <1>6 DEF Contract!EndRun, Holds, Told, Released
  <1> QED BY <1>7 DEF Contract!ContractNext

LEMMA TakeKeeps ==
    ASSUME IInv, TakeRelayEvent \/ TakeCoreEvent
    PROVE  UNCHANGED Contract!contractVars
  <1>1. UNCHANGED <<stream, answered, outcome, response, forwards, ending>>
    BY DEF TakeRelayEvent, TakeCoreEvent, serviceVars, barrierVars
  <1>2. held = Nothing /\ ~answered /\ TypeOK /\ HeldInv
    BY EventFacts DEF TakeRelayEvent, TakeCoreEvent, IInv, HeldInv, Types
  <1>3. held' = held \/ held' = handedOut \/ held' \in {CoreEvent("text"), CoreEvent("final")}
    BY DEF TakeRelayEvent, TakeCoreEvent
  <1>4. \A c \in Calls : /\ handedOut = CallEvent(c) => c \notin stream.calls
                         /\ handedOut = ResultEvent(c) => c \notin stream.answered
    BY <1>2, EventFacts DEF IInv, CallInv, PlaceInv
  <1>5. Holds = Nothing /\ Holds' = Nothing
    <2>1. handedOut = Nothing \/ \E c \in Calls : handedOut \in EventsOf(c)
      BY <1>2, EventFacts DEF TypeOK
    <2>2. CASE held' = handedOut
      BY <1>1, <1>2, <1>4, <2>1, <2>2, EventFacts DEF Holds, Sent, EventsOf
    <2>3. CASE held' # handedOut
      BY <1>1, <1>2, <1>3, <2>3, EventFacts DEF Holds, Sent
    <2> QED BY <1>2, <2>2, <2>3 DEF Holds
  <1>6. UNCHANGED <<Told, Released>>
    BY <1>1 DEF Told, Released
  <1> QED BY <1>1, <1>5, <1>6, ContractVars

(* What the CLI does to its calls releases no reply. *)
LEMMA CliKeeps ==
    ASSUME IInv, CliActs \/ RelayCloses \/ \E c \in Calls : AnswerCall(c)
    PROVE  UNCHANGED Contract!contractVars
  <1>1. UNCHANGED <<held, stream, answered, forwards, outcome, ending>>
    BY DEF CliActs, RelayCloses, AnswerCall, Call, CallReturns, CancelCall, CutCall, CallUnoffered,
           AnswerReflects, runVars, serviceVars, callVars, flags
  <1>2. /\ response \in [Calls -> {"none", "open", "replied", "refused", "unanswered", "cancelled"}]
        /\ \A c \in Calls : task[c] = "new" => response[c] = "none"
    BY DEF IInv, Types, TypeOK, CallInv, TaskInv
  <1>3. \A c \in Calls : response'[c] = "replied" <=> response[c] = "replied"
    <2>1. CASE RelayCloses
      BY <2>1 DEF RelayCloses
    <2>2. ASSUME NEW c \in Calls, NEW i \in RequestIds, Call(c, i)
          PROVE  \A d \in Calls : response'[d] = "replied" <=> response[d] = "replied"
      BY <1>2, <2>2 DEF Call
    <2>3. ASSUME NEW c \in Calls, CancelCall(c) \/ CutCall(c)
          PROVE  \A d \in Calls : response'[d] = "replied" <=> response[d] = "replied"
      BY <1>2, <2>3 DEF CancelCall, CutCall, Resolved
    <2>4. CASE CallUnoffered \/ AnswerReflects \/ \E c \in Calls : AnswerCall(c)
      BY <2>4 DEF CallUnoffered, AnswerReflects, AnswerCall, CallReturns
    <2> QED BY <2>1, <2>2, <2>3, <2>4 DEF CliActs
  <1> QED BY <1>1, <1>3, SilentStep

LEMMA ContractStep ==
    IInv /\ [Next]_vars => [Contract!ContractNext]_(Contract!contractVars)
  <1> SUFFICES ASSUME IInv, [Next]_vars PROVE [Contract!ContractNext]_(Contract!contractVars)
    OBVIOUS
  <1> DEFINE Quiet == UNCHANGED <<held, stream, answered, forwards, outcome, ending, response>>
  <1>1. Quiet => UNCHANGED Contract!contractVars
    BY SilentStep
  <1>2. CASE Open \/ CoreSteps \/ ReadEvents \/ SourceEnds \/ ServiceCloses \/ Reaped
             \/ SettlingEnds \/ ClientLeft \/ UNCHANGED vars
    <2>1. Quiet
      BY <1>2 DEF Open, RunBegins, ClientEntered, ToolsListed, RelayStarted, OpeningFails, CoreSteps,
                  ReadEvents, NextEvent, ReaderWakes, SourceEnds, ServiceCloses, Reaped,
                  SettlingEnds, ClientLeft, vars, runVars, serviceVars, barrierVars, callVars, flags
    <2> QED BY <1>1, <2>1
  <1>3. CASE CliActs \/ RelayCloses \/ \E c \in Calls : AnswerCall(c)
    BY <1>3, CliKeeps
  <1>4. CASE Serve
    BY <1>4, SentKeeps, AskKeeps DEF Serve
  <1>5. CASE TakeRelayEvent \/ TakeCoreEvent
    BY <1>5, TakeKeeps
  <1>6. CASE CloseBegins
    BY <1>6, CloseKeeps
  <1>7. CASE \E c \in Calls : AppAnswers(c) \/ ForwardAborted(c)
    BY <1>7, FinishKeeps
  <1>8. CASE RecordEnds
    BY <1>8, RecordKeeps
  <1> QED BY <1>2, <1>3, <1>4, <1>5, <1>6, <1>7, <1>8 DEF Next, Merge, Close, Closed

(* Barrier, merger and wire implement the contract of the tool calls: told   *)
(* before it runs, at most one result, a reply only past the result, and an  *)
(* ending that agrees with what was told.  Code: tool_relay, relayed_events, *)
(* run_stream and _WireRun together.                                         *)
THEOREM KeepsTheToolContract == Spec => KeepsToolContract
  <1>1. Spec => Contract!ContractInit /\ [][Contract!ContractNext]_(Contract!contractVars)
    BY ContractInit, ContractStep, Invariance, PTL DEF Spec
  <1> QED BY <1>1 DEF KeepsToolContract, Contract!ContractSpec
=============================================================================

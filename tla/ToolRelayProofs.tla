--------------------------- MODULE ToolRelayProofs ---------------------------
(***************************************************************************)
(* Proofs about ToolRelay for any number of connections, requests and      *)
(* pieces: a withdrawn request is never answered, a closed relay serves    *)
(* nobody, and requests are answered in order with no byte lost.           *)
(***************************************************************************)
EXTENDS ToolRelay, SequenceTheorems, TLAPS

Pieces == Nat \X {"start", "head", "body"} \X Kinds

Types ==
    /\ sent \in [Conns -> Seq(Pieces)] /\ wire \in [Conns -> Seq(Pieces)]
    /\ buffer \in [Conns -> Seq(Pieces)] /\ taken \in [Conns -> Seq(Pieces)]
    /\ answers \in [Conns -> Seq(Nat)] /\ withdrawn \in [Conns -> SUBSET Nat]
    /\ ended \in [Conns -> {"no", "fin", "cut"}]
    /\ phase \in [Conns -> {"none", "head", "body", "answering", "writing", "done"}]
    /\ timer \in [Conns -> {"off", "running", "over"}]
    /\ owner \in [Conns -> {"none", "pending", "cancelling"} \cup Finished]
    /\ watch \in [Conns -> {"off", "on", "while_pending", "after_answer"}]
    /\ cancelled \in [Conns -> BOOLEAN] /\ keep \in [Conns -> BOOLEAN]
    /\ closing \in BOOLEAN /\ closed \in BOOLEAN
    /\ attempt \in {"none", "running", "incomplete"} /\ snapshot \subseteq Conns

(* No task comes once the close began, so its attempt knows all there are. *)
CloseInv ==
    /\ attempt = "running" => closing /\ Tracked \subseteq snapshot
    /\ closed => closing /\ Tracked = {}

(* The owner and the watch are beside an answer only; a connection without *)
(* a task holds nothing.                                                   *)
StageInv(c) ==
    /\ phase[c] # "answering" => owner[c] = "none" /\ watch[c] = "off" /\ withdrawn[c] = {}
    /\ phase[c] = "answering" => owner[c] # "none" /\ watch[c] # "off"
    /\ phase[c] \in {"none", "done"} =>
          /\ sent[c] = <<>> /\ wire[c] = <<>> /\ buffer[c] = <<>>
          /\ taken[c] = <<>> /\ answers[c] = <<>>
    /\ phase[c] # "writing" => keep[c]

(* Only the request in hand is withdrawn, and its task will not answer it. *)
GoneInv(c) ==
    withdrawn[c] # {} =>
        /\ withdrawn[c] = {Request(c)[1]}
        /\ watch[c] = "while_pending" \/ cancelled[c]
        /\ owner[c] # "pending"

(* What may come after a piece, and a sequence of pieces that does.        *)
Before == <<0, "body", "call">>

LastOf(s) == IF s = <<>> THEN Before ELSE Last(s)

Opens(piece) == piece[2] = "head" /\ piece[3] \in {"call", "mixed"}

Whole(piece) == piece[2] # "start" /\ ~Opens(piece)

Follow(piece) ==
    CASE piece[2] = "start" -> {<<piece[1], "head", piece[3]>>}
      [] piece[2] = "head" /\ piece[3] \in {"call", "mixed"} -> {<<piece[1], "body", piece[3]>>}
      [] OTHER -> {<<piece[1] + 1, "start", kind>> : kind \in Kinds}

Framed(s) == \A i \in 1 .. Len(s) : s[i] \in Follow(IF i = 1 THEN Before ELSE s[i - 1])

(* The requests before the one in hand are answered, and each once.        *)
NumberInv(c) ==
    /\ \A i \in 1 .. Len(answers[c]) : answers[c][i] = i
    /\ Len(answers[c]) = LastOf(taken[c])[1] - (IF phase[c] \in {"body", "answering"} THEN 1 ELSE 0)
    /\ phase[c] \in {"body", "answering"} => taken[c] # <<>>
    /\ phase[c] = "body" => Opens(LastOf(taken[c]))
    /\ phase[c] = "answering" => Whole(LastOf(taken[c]))
    /\ phase[c] = "head" \/ (phase[c] = "writing" /\ keep[c]) => Whole(LastOf(taken[c]))

(* What was parsed, is held and is still on the wire is what was sent.     *)
Cat(s, t) == s \o t

Stream(c) == Cat(Cat(taken[c], buffer[c]), wire[c])

Flows(c) == watch[c] \notin {"while_pending", "after_answer"} /\ keep[c]

FlowInv(c) ==
    /\ Framed(sent[c])
    /\ Flows(c) => IsPrefix(Stream(c), sent[c])
    /\ Flows(c) /\ ended[c] # "cut" => Stream(c) = sent[c]

ConnInv(c) == StageInv(c) /\ GoneInv(c) /\ NumberInv(c) /\ FlowInv(c)

IInv == Types /\ CloseInv /\ \A c \in Conns : ConnInv(c)

-----------------------------------------------------------------------------
(* Pieces move along the stream without changing it. *)
LEMMA Halves ==
    ASSUME NEW S, NEW w \in Seq(S), NEW n \in 0 .. Len(w)
    PROVE  /\ SubSeq(w, 1, n) \in Seq(S) /\ SubSeq(w, n + 1, Len(w)) \in Seq(S)
           /\ Cat(SubSeq(w, 1, n), SubSeq(w, n + 1, Len(w))) = w
  <1>1. Len(w) \in Nat /\ \A i \in 1 .. Len(w) : w[i] \in S
    OBVIOUS
  <1>2. /\ 1 \in 1 .. Len(w) + 1 /\ n \in 1 - 1 .. Len(w) /\ Len(w) \in n .. Len(w)
        /\ n \in Int /\ n + 1 \in Int /\ Len(w) \in Int
    BY <1>1
  <1>3. SubSeq(w, 1, n) \in Seq(S)
    BY <1>1, <1>2, SubSeqProperties
  <1>4. SubSeq(w, n + 1, Len(w)) \in Seq(S)
    BY <1>1, <1>2, SubSeqProperties
  <1>5. SubSeq(w, 1, n) \o SubSeq(w, n + 1, Len(w)) = SubSeq(w, 1, Len(w))
    BY <1>2, ConcatAdjacentSubSeq
  <1> QED BY <1>3, <1>4, <1>5, SubSeqFull DEF Cat

LEMMA CatSeq ==
    ASSUME NEW S, NEW s \in Seq(S), NEW t \in Seq(S)
    PROVE  /\ Cat(s, t) \in Seq(S) /\ Len(Cat(s, t)) = Len(s) + Len(t)
           /\ \A i \in 1 .. Len(s) + Len(t) :
                 Cat(s, t)[i] = IF i <= Len(s) THEN s[i] ELSE t[i - Len(s)]
  BY ConcatProperties DEF Cat

LEMMA CatEmpty == ASSUME NEW S, NEW s \in Seq(S) PROVE Cat(s, <<>>) = s
  BY ConcatEmptySeq DEF Cat

LEMMA CatAssociative ==
    ASSUME NEW S, NEW s \in Seq(S), NEW t \in Seq(S), NEW u \in Seq(S)
    PROVE  Cat(Cat(s, t), u) = Cat(s, Cat(t, u))
  BY ConcatAssociative DEF Cat

LEMMA Moves ==
    ASSUME NEW S, NEW t \in Seq(S), NEW b \in Seq(S), NEW x \in Seq(S), NEW y \in Seq(S)
    PROVE  Cat(Cat(t, Cat(b, x)), y) = Cat(Cat(t, b), Cat(x, y))
  <1>1. Cat(t, b) \in Seq(S)
    BY CatSeq
  <1> QED BY <1>1, CatAssociative

LEMMA ParsesOne ==
    ASSUME NEW S, NEW t \in Seq(S), NEW b \in Seq(S), b # <<>>
    PROVE  /\ Append(t, Head(b)) \in Seq(S) /\ Tail(b) \in Seq(S) /\ Head(b) = b[1] /\ Head(b) \in S
           /\ Cat(Append(t, Head(b)), Tail(b)) = Cat(t, b)
  <1> DEFINE x == Append(t, Head(b))
  <1>1. /\ Head(b) \in S /\ Tail(b) \in Seq(S) /\ Len(Tail(b)) = Len(b) - 1 /\ Head(b) = b[1]
        /\ \A i \in 1 .. Len(Tail(b)) : Tail(b)[i] = b[i + 1]
    BY HeadTailProperties
  <1>2. /\ x \in Seq(S) /\ Len(x) = Len(t) + 1 /\ x[Len(t) + 1] = b[1]
        /\ \A i \in 1 .. Len(t) : x[i] = t[i]
    BY <1>1, AppendProperties
  <1> HIDE DEF x
  <1>3. /\ x \o Tail(b) \in Seq(S) /\ Len(x \o Tail(b)) = Len(x) + Len(Tail(b))
        /\ \A i \in 1 .. Len(x) + Len(Tail(b)) : (x \o Tail(b))[i] =
               IF i <= Len(x) THEN x[i] ELSE Tail(b)[i - Len(x)]
    BY <1>1, <1>2, ConcatProperties
  <1>4. /\ t \o b \in Seq(S) /\ Len(t \o b) = Len(t) + Len(b)
        /\ \A i \in 1 .. Len(t) + Len(b) : (t \o b)[i] = IF i <= Len(t) THEN t[i] ELSE b[i - Len(t)]
    BY ConcatProperties
  <1>5. Len(t) \in Nat /\ Len(b) \in Nat /\ Len(x \o Tail(b)) = Len(t \o b)
    BY <1>1, <1>2, <1>3, <1>4
  <1>6. ASSUME NEW i \in 1 .. Len(x \o Tail(b)) PROVE (x \o Tail(b))[i] = (t \o b)[i]
    <2>0. i \in 1 .. Len(t) + Len(b)
      BY <1>4, <1>5
    <2>1. CASE i <= Len(t)
      BY <2>0, <2>1, <1>1, <1>2, <1>3, <1>4, <1>5
    <2>2. CASE i = Len(t) + 1
      BY <2>0, <2>2, <1>1, <1>2, <1>3, <1>4, <1>5
    <2>3. CASE i > Len(t) + 1
      <3> DEFINE k == i - Len(x)
      <3>1. k \in 1 .. Len(Tail(b)) /\ k + 1 = i - Len(t)
        BY <2>0, <2>3, <1>1, <1>2, <1>5
      <3>2. (x \o Tail(b))[i] = Tail(b)[k]
        BY <2>0, <2>3, <1>1, <1>2, <1>3, <1>5
      <3>3. Tail(b)[k] = b[k + 1]
        BY <3>1, <1>1
      <3>4. (t \o b)[i] = b[i - Len(t)]
        BY <2>0, <2>3, <1>4, <1>5
      <3> QED BY <3>1, <3>2, <3>3, <3>4
    <2> QED BY <2>0, <2>1, <2>2, <2>3, <1>5
  <1>7. x \o Tail(b) = t \o b
    BY <1>3, <1>4, <1>5, <1>6, SeqEqual
  <1> QED BY <1>1, <1>2, <1>7 DEF x, Cat

(* A prefix, piece by piece. *)
Leads(s, t) == Len(s) <= Len(t) /\ \A i \in 1 .. Len(s) : s[i] = t[i]

LEMMA PrefixPiecewise ==
    ASSUME NEW S, NEW s \in Seq(S), NEW t \in Seq(S)
    PROVE  IsPrefix(s, t) <=> Leads(s, t)
  <1>1. IsPrefix(s, t) => Leads(s, t)
    BY DEF IsPrefix, Leads
  <1>2. Leads(s, t) => IsPrefix(s, t)
    BY DEF IsPrefix, Leads
  <1> QED BY <1>1, <1>2

-----------------------------------------------------------------------------
(* The order of the pieces. *)
LEMMA FollowPiece ==
    ASSUME NEW p \in Pieces, NEW q \in Follow(p)
    PROVE  /\ q \in Pieces
           /\ p[2] = "start" => q[1] = p[1] /\ q[2] = "head"
           /\ Opens(p) => q[1] = p[1] /\ q[2] = "body"
           /\ Whole(p) => q[1] = p[1] + 1 /\ q[2] = "start"
  <1>1. p[1] \in Nat /\ p[2] \in {"start", "head", "body"} /\ p[3] \in Kinds
    BY DEF Pieces
  <1>2. CASE p[2] = "start"
    <2>1. q = <<p[1], "head", p[3]>>
      BY <1>2 DEF Follow
    <2> QED BY <1>1, <1>2, <2>1 DEF Pieces, Opens, Whole
  <1>3. CASE Opens(p)
    <2>1. q = <<p[1], "body", p[3]>>
      BY <1>3 DEF Follow, Opens
    <2> QED BY <1>1, <1>3, <2>1 DEF Pieces, Opens, Whole
  <1>4. CASE Whole(p)
    <2>1. PICK kind \in Kinds : q = <<p[1] + 1, "start", kind>>
      BY <1>4 DEF Follow, Opens, Whole
    <2> QED BY <1>1, <1>4, <2>1 DEF Pieces, Opens, Whole
  <1> QED BY <1>1, <1>2, <1>3, <1>4 DEF Whole

LEMMA LastPiece ==
    ASSUME NEW s \in Seq(Pieces)
    PROVE  LastOf(s) \in Pieces /\ Before \in Pieces /\ Whole(Before)
  <1>1. Before \in Pieces /\ Whole(Before)
    BY DEF Before, Pieces, Kinds, Whole, Opens
  <1>2. CASE s = <<>>
    BY <1>1, <1>2 DEF LastOf
  <1>3. CASE s # <<>>
    <2>1. Len(s) \in 1 .. Len(s)
      BY <1>3
    <2>2. s[Len(s)] \in Pieces
      BY <2>1
    <2> QED BY <1>1, <1>3, <2>2 DEF LastOf, Last
  <1> QED BY <1>2, <1>3

LEMMA FramedAppend ==
    ASSUME NEW s \in Seq(Pieces), NEW p \in Pieces, Framed(s), p \in Follow(LastOf(s))
    PROVE  Framed(Append(s, p))
  <1>1. /\ Len(Append(s, p)) = Len(s) + 1 /\ Append(s, p)[Len(s) + 1] = p /\ Len(s) \in Nat
        /\ \A i \in 1 .. Len(s) : Append(s, p)[i] = s[i]
    BY AppendProperties
  <1>2. p \in Follow(IF Len(s) + 1 = 1 THEN Before ELSE s[Len(s)])
    BY <1>1 DEF LastOf, Last
  <1>3. ASSUME NEW i \in 1 .. Len(s) + 1
        PROVE  Append(s, p)[i] \in Follow(IF i = 1 THEN Before ELSE Append(s, p)[i - 1])
    <2>1. CASE i <= Len(s)
      BY <1>1, <2>1 DEF Framed
    <2>2. CASE i = Len(s) + 1
      BY <1>1, <1>2, <2>2
    <2> QED BY <1>1, <2>1, <2>2
  <1> QED BY <1>1, <1>3 DEF Framed

(* What is held unparsed comes right after what was parsed. *)
LEMMA InHand ==
    ASSUME NEW t \in Seq(Pieces), NEW b \in Seq(Pieces), NEW w \in Seq(Pieces),
           NEW s \in Seq(Pieces), Framed(s), IsPrefix(Cat(Cat(t, b), w), s)
    PROVE  /\ b # <<>> => b[1] \in Follow(LastOf(t))
           /\ Len(b) >= 2 => b[2] \in Follow(b[1])
  <1>1. /\ Cat(t, b) \in Seq(Pieces) /\ Len(Cat(t, b)) = Len(t) + Len(b)
        /\ \A i \in 1 .. Len(t) + Len(b) : Cat(t, b)[i] = IF i <= Len(t) THEN t[i] ELSE b[i - Len(t)]
    BY CatSeq
  <1>2. /\ Cat(Cat(t, b), w) \in Seq(Pieces) /\ Len(Cat(Cat(t, b), w)) = Len(t) + Len(b) + Len(w)
        /\ \A i \in 1 .. Len(t) + Len(b) : Cat(Cat(t, b), w)[i] = Cat(t, b)[i]
    <2>1. PICK a \in Seq(Pieces) : a = Cat(t, b)
      BY <1>1
    <2>2. /\ Cat(a, w) \in Seq(Pieces) /\ Len(Cat(a, w)) = Len(a) + Len(w)
          /\ \A i \in 1 .. Len(a) + Len(w) : Cat(a, w)[i] = IF i <= Len(a) THEN a[i] ELSE w[i - Len(a)]
      BY CatSeq
    <2>3. Len(a) = Len(t) + Len(b) /\ Len(a) \in Nat /\ Len(w) \in Nat
      BY <1>1, <2>1
    <2> QED BY <2>1, <2>2, <2>3
  <1>3. Leads(Cat(Cat(t, b), w), s)
    BY <1>2, PrefixPiecewise
  <1>4. Len(t) \in Nat /\ Len(b) \in Nat /\ Len(w) \in Nat /\ Len(s) \in Nat
    OBVIOUS
  <1>5. \A i \in 1 .. Len(t) + Len(b) :
           s[i] = (IF i <= Len(t) THEN t[i] ELSE b[i - Len(t)]) /\ i \in 1 .. Len(s)
    BY <1>1, <1>2, <1>3, <1>4 DEF Leads
  <1>6. ASSUME NEW k \in 1 .. Len(b) PROVE s[Len(t) + k] = b[k] /\ Len(t) + k \in 1 .. Len(s)
    BY <1>4, <1>5
  <1>7. ASSUME b # <<>> PROVE b[1] \in Follow(LastOf(t))
    <2>1. s[Len(t) + 1] = b[1] /\ Len(t) + 1 \in 1 .. Len(s)
      BY <1>4, <1>6, <1>7
    <2>2. s[Len(t) + 1] \in Follow(IF Len(t) + 1 = 1 THEN Before ELSE s[Len(t) + 1 - 1])
      BY <2>1 DEF Framed
    <2>3. CASE t = <<>>
      BY <2>1, <2>2, <2>3 DEF LastOf
    <2>4. CASE t # <<>>
      <3>1. Len(t) \in 1 .. Len(t) + Len(b) /\ Len(t) # 0
        BY <1>4, <2>4
      <3>2. s[Len(t)] = t[Len(t)]
        BY <1>4, <1>5, <3>1
      <3>3. s[Len(t) + 1] \in Follow(s[Len(t)])
        BY <1>4, <2>2, <3>1
      <3> QED BY <2>1, <2>4, <3>2, <3>3 DEF LastOf, Last
    <2> QED BY <2>3, <2>4
  <1>8. ASSUME Len(b) >= 2 PROVE b[2] \in Follow(b[1])
    <2>1. s[Len(t) + 1] = b[1] /\ s[Len(t) + 2] = b[2] /\ Len(t) + 2 \in 1 .. Len(s)
      BY <1>4, <1>6, <1>8
    <2>2. s[Len(t) + 2] \in Follow(IF Len(t) + 2 = 1 THEN Before ELSE s[Len(t) + 2 - 1])
      BY <2>1 DEF Framed
    <2>3. Len(t) + 2 # 1 /\ Len(t) + 2 - 1 = Len(t) + 1
      BY <1>4
    <2> QED BY <2>1, <2>2, <2>3
  <1> QED BY <1>7, <1>8

LEMMA Shorter ==
    ASSUME NEW S, NEW a \in Seq(S), NEW w \in Seq(S), NEW s \in Seq(S), IsPrefix(Cat(a, w), s)
    PROVE  IsPrefix(a, s)
  <1>1. /\ Cat(a, w) \in Seq(S) /\ Len(Cat(a, w)) = Len(a) + Len(w)
        /\ \A i \in 1 .. Len(a) + Len(w) : Cat(a, w)[i] = IF i <= Len(a) THEN a[i] ELSE w[i - Len(a)]
    BY CatSeq
  <1>2. Leads(Cat(a, w), s)
    BY <1>1, PrefixPiecewise
  <1>3. Leads(a, s)
    BY <1>1, <1>2 DEF Leads
  <1> QED BY <1>3, PrefixPiecewise

LEMMA Itself == ASSUME NEW S, NEW s \in Seq(S) PROVE IsPrefix(s, s)
  <1>1. Leads(s, s)
    BY DEF Leads
  <1> QED BY <1>1, PrefixPiecewise

LEMMA Nothing == Framed(<<>>) /\ IsPrefix(<<>>, <<>>)
  <1>1. Framed(<<>>)
    BY DEF Framed
  <1>2. <<>> \in Seq(Pieces)
    OBVIOUS
  <1>3. ASSUME NEW e \in Seq(Pieces) PROVE IsPrefix(e, e)
    BY Itself
  <1> QED BY <1>1, <1>2, <1>3

-----------------------------------------------------------------------------
LEMMA IInvInit == Init => IInv
  <1> SUFFICES ASSUME Init PROVE IInv
    OBVIOUS
  <1>1. <<>> \in Seq(Pieces) /\ <<>> \in Seq(Nat)
    OBVIOUS
  <1>2. Types
    BY <1>1 DEF Init, Types
  <1>3. CloseInv
    BY DEF Init, CloseInv
  <1>4. ASSUME NEW c \in Conns PROVE ConnInv(c)
    <2>1. /\ sent[c] = <<>> /\ wire[c] = <<>> /\ buffer[c] = <<>> /\ taken[c] = <<>>
          /\ answers[c] = <<>> /\ withdrawn[c] = {} /\ phase[c] = "none" /\ owner[c] = "none"
          /\ watch[c] = "off" /\ keep[c] = TRUE
      BY DEF Init
    <2>2. Stream(c) = <<>>
      BY <1>1, <2>1, CatEmpty DEF Stream
    <2>3. Framed(<<>>) /\ IsPrefix(<<>>, <<>>)
      BY Nothing
    <2>4. StageInv(c) /\ GoneInv(c)
      BY <2>1 DEF StageInv, GoneInv
    <2>5. NumberInv(c)
      BY <2>1 DEF NumberInv, LastOf, Before
    <2> QED BY <2>1, <2>2, <2>3, <2>4, <2>5 DEF ConnInv, FlowInv
  <1> QED BY <1>2, <1>3, <1>4 DEF IInv

(* A step of one connection leaves the others where they are. *)
Alike(d) ==
    /\ sent'[d] = sent[d] /\ wire'[d] = wire[d] /\ ended'[d] = ended[d] /\ phase'[d] = phase[d]
    /\ buffer'[d] = buffer[d] /\ taken'[d] = taken[d] /\ owner'[d] = owner[d]
    /\ watch'[d] = watch[d] /\ cancelled'[d] = cancelled[d] /\ keep'[d] = keep[d]
    /\ answers'[d] = answers[d] /\ withdrawn'[d] = withdrawn[d]

LEMMA AlikeKeeps ==
    ASSUME NEW d \in Conns, Alike(d), ConnInv(d)
    PROVE  ConnInv(d)'
  <1>1. StageInv(d)'
    BY DEF Alike, ConnInv, StageInv
  <1>2. GoneInv(d)'
    BY DEF Alike, ConnInv, GoneInv, Request
  <1>3. NumberInv(d)'
    BY DEF Alike, ConnInv, NumberInv
  <1>4. FlowInv(d)'
    BY DEF Alike, ConnInv, FlowInv, Flows, Stream
  <1> QED BY <1>1, <1>2, <1>3, <1>4 DEF ConnInv

(* A step of one connection's task, its owner, watch, client or timer. *)
Keeps(c) ==
    /\ Types'
    /\ ConnInv(c)'
    /\ \A d \in Conns \ {c} : Alike(d)
    /\ UNCHANGED relayVars
    /\ phase'[c] \notin {"none", "done"} => phase[c] \notin {"none", "done"} \/ ~closing

LEMMA ConnStep ==
    ASSUME IInv, NEW c \in Conns, Keeps(c)
    PROVE  IInv'
  <1>1. \A d \in Conns : ConnInv(d)'
    BY AlikeKeeps DEF IInv, Keeps
  <1>2. closing => Tracked' \subseteq Tracked
    BY DEF Keeps, Alike, Tracked
  <1>3. CloseInv'
    BY <1>2 DEF IInv, CloseInv, Keeps, relayVars
  <1> QED BY <1>1, <1>3 DEF IInv, Keeps

(* What a connection leaves behind is empty. *)
LEMMA EndsKeeps ==
    ASSUME Types, NEW c \in Conns, Ends(c), phase[c] \notin {"none", "done"}
    PROVE  Keeps(c)
  <1>1. <<>> \in Seq(Pieces) /\ <<>> \in Seq(Nat)
    OBVIOUS
  <1>2. Types'
    BY <1>1 DEF Types, Ends, relayVars
  <1>3. /\ sent'[c] = <<>> /\ wire'[c] = <<>> /\ buffer'[c] = <<>> /\ taken'[c] = <<>>
        /\ answers'[c] = <<>> /\ withdrawn'[c] = {} /\ phase'[c] = "done" /\ owner'[c] = "none"
        /\ watch'[c] = "off" /\ keep'[c] = TRUE
    BY DEF Ends, Types
  <1>4. ConnInv(c)'
    <2>1. Stream(c)' = <<>>
      BY <1>1, <1>3, CatEmpty DEF Stream
    <2>2. Framed(<<>>) /\ IsPrefix(<<>>, <<>>)
      BY Nothing
    <2>3. StageInv(c)' /\ GoneInv(c)'
      BY <1>3 DEF StageInv, GoneInv
    <2>4. NumberInv(c)'
      BY <1>3 DEF NumberInv, LastOf, Before
    <2>5. FlowInv(c)'
      BY <1>3, <2>1, <2>2 DEF FlowInv
    <2> QED BY <2>3, <2>4, <2>5 DEF ConnInv
  <1>5. \A d \in Conns \ {c} : Alike(d)
    BY DEF Ends, Types, Alike
  <1> QED BY <1>2, <1>4, <1>5 DEF Keeps, Ends

-----------------------------------------------------------------------------
(* The client. *)
LEMMA ConnectsKeeps == ASSUME Types, NEW c \in Conns, ConnInv(c), Connects(c) PROVE Keeps(c)
  <1>1. phase[c] = "none" /\ phase' = [phase EXCEPT ![c] = IF Accepts THEN "head" ELSE "done"]
    BY DEF Connects
  <1>2. Types'
    BY <1>1 DEF Types, Connects, clientVars, answerVars, historyVars, relayVars
  <1>3. phase'[c] = (IF Accepts THEN "head" ELSE "done")
    BY <1>1 DEF Types
  <1>4. /\ sent'[c] = sent[c] /\ wire'[c] = wire[c] /\ ended'[c] = ended[c]
        /\ buffer'[c] = buffer[c] /\ taken'[c] = taken[c] /\ owner'[c] = owner[c]
        /\ watch'[c] = watch[c] /\ cancelled'[c] = cancelled[c] /\ keep'[c] = keep[c]
        /\ answers'[c] = answers[c] /\ withdrawn'[c] = withdrawn[c]
    BY DEF Connects, clientVars, answerVars, historyVars
  <1>5. StageInv(c)' /\ GoneInv(c)' /\ FlowInv(c)'
    BY <1>1, <1>3, <1>4
       DEF ConnInv, StageInv, GoneInv, FlowInv, Flows, Stream, Request
  <1>6. NumberInv(c)'
    <2>1. taken[c] = <<>> /\ Whole(Before)
      BY <1>1, LastPiece DEF ConnInv, StageInv, Before, Whole, Opens
    <2> QED BY <1>1, <1>3, <1>4, <2>1 DEF ConnInv, NumberInv, LastOf
  <1>7. \A d \in Conns \ {c} : Alike(d)
    BY <1>1 DEF Types, Connects, Alike, clientVars, answerVars, historyVars
  <1>8. UNCHANGED relayVars /\ (phase'[c] \notin {"none", "done"} => ~closing)
    BY <1>3 DEF Connects, Accepts
  <1> QED BY <1>2, <1>5, <1>6, <1>7, <1>8 DEF ConnInv, Keeps

LEMMA ClientSendsKeeps == ASSUME Types, NEW c \in Conns, ConnInv(c), ClientSends(c) PROVE Keeps(c)
  <1>1. PICK piece \in NextPieces(c) :
           /\ sent' = [sent EXCEPT ![c] = Append(@, piece)]
           /\ wire' = [wire EXCEPT ![c] = Append(@, piece)]
    BY DEF ClientSends
  <1>2. /\ sent[c] \in Seq(Pieces) /\ wire[c] \in Seq(Pieces) /\ taken[c] \in Seq(Pieces)
        /\ buffer[c] \in Seq(Pieces)
    BY DEF Types
  <1>3. piece \in Follow(LastOf(sent[c])) /\ piece \in Pieces
    <2>1. piece \in Follow(LastOf(sent[c]))
      BY <1>1 DEF NextPieces, Follow, LastOf, Before
    <2> QED BY <1>2, <2>1, LastPiece, FollowPiece
  <1>4. sent'[c] = Append(sent[c], piece) /\ wire'[c] = Append(wire[c], piece)
    BY <1>1 DEF Types
  <1>5. Append(sent[c], piece) \in Seq(Pieces) /\ Append(wire[c], piece) \in Seq(Pieces)
    BY <1>2, <1>3
  <1>6. Types'
    BY <1>1, <1>5 DEF Types, ClientSends, answerVars, historyVars, relayVars
  <1>7. /\ ended'[c] = ended[c] /\ phase'[c] = phase[c] /\ phase[c] \notin {"none", "done"}
        /\ buffer'[c] = buffer[c] /\ taken'[c] = taken[c] /\ owner'[c] = owner[c]
        /\ watch'[c] = watch[c] /\ cancelled'[c] = cancelled[c] /\ keep'[c] = keep[c]
        /\ answers'[c] = answers[c] /\ withdrawn'[c] = withdrawn[c] /\ ended[c] = "no"
    BY DEF ClientSends, answerVars, historyVars, Tracked
  <1>8. StageInv(c)' /\ GoneInv(c)' /\ NumberInv(c)'
    BY <1>7 DEF ConnInv, StageInv, GoneInv, NumberInv, Request
  <1>9. FlowInv(c)'
    <2>1. Framed(sent'[c])
      BY <1>2, <1>3, <1>4, FramedAppend DEF ConnInv, FlowInv
    <2>2. ASSUME Flows(c)' PROVE Stream(c)' = sent'[c]
      <3>1. Stream(c) = sent[c]
        BY <1>7, <2>2 DEF ConnInv, FlowInv, Flows
      <3>2. PICK a \in Seq(Pieces) : a = Cat(taken[c], buffer[c])
        BY <1>2, CatSeq
      <3>3. PICK q \in Seq(Pieces) : \A s \in Seq(Pieces) : Append(s, piece) = Cat(s, q)
        <4>1. <<piece>> \in Seq(Pieces)
          BY <1>3
        <4> QED BY <1>3, <4>1, AppendIsConcat DEF Cat
      <3>4. Cat(Cat(a, wire[c]), q) = Cat(a, Cat(wire[c], q))
        BY <1>2, CatAssociative
      <3>5. Stream(c)' = Cat(a, wire'[c]) /\ Stream(c) = Cat(a, wire[c])
        BY <1>7, <3>2 DEF Stream
      <3> QED BY <1>2, <1>4, <3>1, <3>3, <3>4, <3>5
    <2>3. sent'[c] \in Seq(Pieces)
      BY <1>4, <1>5
    <2> QED BY <2>1, <2>2, <2>3, Itself DEF FlowInv
  <1>10. \A d \in Conns \ {c} : Alike(d)
    BY <1>1 DEF Types, ClientSends, Alike, answerVars, historyVars
  <1> QED BY <1>6, <1>7, <1>8, <1>9, <1>10 DEF ConnInv, Keeps, ClientSends

(* A connection that is cut keeps what was read before. *)
Cuts(c) ==
    /\ ended' = [ended EXCEPT ![c] = "cut"] /\ wire' = [wire EXCEPT ![c] = <<>>]
    /\ UNCHANGED <<sent, phase, buffer, answerVars, cancelled, historyVars, relayVars>>

LEMMA CutFlow ==
    ASSUME Types, NEW c \in Conns, FlowInv(c), wire'[c] = <<>>, ended'[c] = "cut",
           sent'[c] = sent[c], buffer'[c] = buffer[c], taken'[c] = taken[c],
           watch'[c] = watch[c], keep'[c] = keep[c]
    PROVE  FlowInv(c)'
  <1>1. PICK a \in Seq(Pieces) : a = Cat(taken[c], buffer[c])
    BY CatSeq DEF Types
  <1>2. Cat(a, <<>>) = a
    BY CatEmpty
  <1>3. Stream(c)' = a /\ Stream(c) = Cat(a, wire[c])
    BY <1>1, <1>2 DEF Stream
  <1>4. IsPrefix(Cat(a, wire[c]), sent[c]) => IsPrefix(a, sent[c])
    BY Shorter DEF Types
  <1> QED BY <1>3, <1>4 DEF FlowInv, Flows

LEMMA CutsKeeps ==
    ASSUME Types, NEW c \in Conns, ConnInv(c), Cuts(c), timer' = timer
    PROVE  Keeps(c)
  <1>1. Types'
    BY DEF Types, Cuts, answerVars, historyVars, relayVars
  <1>2. /\ ended'[c] = "cut" /\ wire'[c] = <<>> /\ sent'[c] = sent[c] /\ phase'[c] = phase[c]
        /\ buffer'[c] = buffer[c] /\ taken'[c] = taken[c] /\ owner'[c] = owner[c]
        /\ watch'[c] = watch[c] /\ cancelled'[c] = cancelled[c] /\ keep'[c] = keep[c]
        /\ answers'[c] = answers[c] /\ withdrawn'[c] = withdrawn[c]
    BY DEF Types, Cuts, answerVars, historyVars
  <1>3. StageInv(c)' /\ GoneInv(c)' /\ NumberInv(c)'
    BY <1>2 DEF ConnInv, StageInv, GoneInv, NumberInv, Request
  <1>4. FlowInv(c)'
    BY <1>2, CutFlow DEF ConnInv
  <1>5. \A d \in Conns \ {c} : Alike(d)
    BY DEF Types, Cuts, Alike, answerVars, historyVars
  <1>6. UNCHANGED relayVars
    BY DEF Cuts
  <1>7. phase'[c] \notin {"none", "done"} => phase[c] \notin {"none", "done"}
    BY <1>2
  <1> QED BY <1>1, <1>3, <1>4, <1>5, <1>6, <1>7 DEF ConnInv, Keeps

LEMMA ClientLeavesKeeps ==
    ASSUME Types, NEW c \in Conns, ConnInv(c), ClientLeaves(c) PROVE Keeps(c)
  <1>1. CASE ended' = [ended EXCEPT ![c] = "cut"] /\ wire' = [wire EXCEPT ![c] = <<>>]
    BY <1>1, CutsKeeps DEF ClientLeaves, Cuts
  <1>2. CASE ended' = [ended EXCEPT ![c] = "fin"] /\ UNCHANGED wire
    <2>1. Types'
      BY <1>2 DEF Types, ClientLeaves, answerVars, historyVars, relayVars
    <2>2. /\ ended'[c] = "fin" /\ wire'[c] = wire[c] /\ sent'[c] = sent[c] /\ phase'[c] = phase[c]
          /\ buffer'[c] = buffer[c] /\ taken'[c] = taken[c] /\ owner'[c] = owner[c]
          /\ watch'[c] = watch[c] /\ cancelled'[c] = cancelled[c] /\ keep'[c] = keep[c]
          /\ answers'[c] = answers[c] /\ withdrawn'[c] = withdrawn[c] /\ ended[c] = "no"
      BY <1>2 DEF Types, ClientLeaves, answerVars, historyVars
    <2>3. StageInv(c)' /\ GoneInv(c)' /\ NumberInv(c)'
      BY <2>2 DEF ConnInv, StageInv, GoneInv, NumberInv, Request
    <2>4. FlowInv(c)'
      BY <2>2 DEF ConnInv, FlowInv, Flows, Stream
    <2>5. \A d \in Conns \ {c} : Alike(d)
      BY <1>2 DEF Types, ClientLeaves, Alike, answerVars, historyVars
    <2> QED BY <2>1, <2>2, <2>3, <2>4, <2>5 DEF ConnInv, Keeps, ClientLeaves
  <1> QED BY <1>1, <1>2 DEF ClientLeaves

LEMMA TimerAbortsKeeps ==
    ASSUME Types, NEW c \in Conns, ConnInv(c), TimerAborts(c) PROVE Keeps(c)
  BY CutsKeeps DEF TimerAborts, Cuts

LEMMA InstantPassesKeeps ==
    ASSUME Types, NEW c \in Conns, ConnInv(c), InstantPasses(c) PROVE Keeps(c)
  <1>1. Types'
    BY DEF Types, InstantPasses, clientVars, answerVars, historyVars, relayVars
  <1>2. \A d \in Conns : Alike(d)
    BY DEF InstantPasses, Alike, clientVars, answerVars, historyVars
  <1>3. UNCHANGED relayVars /\ phase' = phase
    BY DEF InstantPasses
  <1> QED BY <1>1, <1>2, <1>3, AlikeKeeps DEF Keeps

-----------------------------------------------------------------------------
(* Receiving. *)
LEMMA ReadsMoreKeeps == ASSUME Types, NEW c \in Conns, ConnInv(c), ReadsMore(c) PROVE Keeps(c)
  <1>1. PICK n \in 1 .. Len(wire[c]) :
           /\ buffer' = [buffer EXCEPT ![c] = @ \o SubSeq(wire[c], 1, n)]
           /\ wire' = [wire EXCEPT ![c] = SubSeq(@, n + 1, Len(@))]
    BY DEF ReadsMore
  <1>2. /\ wire[c] \in Seq(Pieces) /\ taken[c] \in Seq(Pieces) /\ buffer[c] \in Seq(Pieces)
        /\ n \in 0 .. Len(wire[c])
    BY DEF Types
  <1>3. PICK x \in Seq(Pieces), y \in Seq(Pieces) :
           x = SubSeq(wire[c], 1, n) /\ y = SubSeq(wire[c], n + 1, Len(wire[c]))
           /\ Cat(x, y) = wire[c]
    <2>1. /\ SubSeq(wire[c], 1, n) \in Seq(Pieces) /\ SubSeq(wire[c], n + 1, Len(wire[c])) \in Seq(Pieces)
          /\ Cat(SubSeq(wire[c], 1, n), SubSeq(wire[c], n + 1, Len(wire[c]))) = wire[c]
      BY <1>2, Halves
    <2> QED BY <2>1
  <1>4. /\ buffer' = [buffer EXCEPT ![c] = Cat(buffer[c], x)] /\ wire' = [wire EXCEPT ![c] = y]
        /\ Cat(buffer[c], x) \in Seq(Pieces)
    BY <1>1, <1>2, <1>3, CatSeq DEF Cat
  <1>5. Types'
    BY <1>4 DEF Types, ReadsMore, answerVars, historyVars, relayVars
  <1>6. /\ ended'[c] = ended[c] /\ phase'[c] = phase[c] /\ phase[c] \in {"head", "body"}
        /\ sent'[c] = sent[c] /\ taken'[c] = taken[c] /\ owner'[c] = owner[c]
        /\ watch'[c] = watch[c] /\ cancelled'[c] = cancelled[c] /\ keep'[c] = keep[c]
        /\ answers'[c] = answers[c] /\ withdrawn'[c] = withdrawn[c]
        /\ buffer'[c] = Cat(buffer[c], x) /\ wire'[c] = y
    BY <1>4 DEF Types, ReadsMore, Receiving, Runs, answerVars, historyVars
  <1>7. StageInv(c)' /\ GoneInv(c)' /\ NumberInv(c)'
    BY <1>6 DEF ConnInv, StageInv, GoneInv, NumberInv, Request
  <1>8. FlowInv(c)'
    <2>1. Cat(Cat(taken[c], Cat(buffer[c], x)), y) = Cat(Cat(taken[c], buffer[c]), Cat(x, y))
      BY <1>2, Moves
    <2>2. Stream(c)' = Stream(c)
      BY <1>3, <1>6, <2>1 DEF Stream
    <2> QED BY <1>6, <2>2 DEF ConnInv, FlowInv, Flows
  <1>9. \A d \in Conns \ {c} : Alike(d)
    BY <1>4 DEF Types, ReadsMore, Alike, answerVars, historyVars
  <1>10. UNCHANGED relayVars
    BY DEF ReadsMore
  <1> QED BY <1>5, <1>6, <1>7, <1>8, <1>9, <1>10 DEF ConnInv, Keeps

LEMMA StopsReadingKeeps ==
    ASSUME Types, NEW c \in Conns, ConnInv(c), StopsReading(c) PROVE Keeps(c)
  BY EndsKeeps DEF StopsReading, Receiving, Runs

LEMMA OneMore ==
    ASSUME NEW s \in Seq(Nat), NEW k \in Nat, Len(s) = k - 1, \A i \in 1 .. Len(s) : s[i] = i
    PROVE  /\ Append(s, k) \in Seq(Nat) /\ Len(Append(s, k)) = k
           /\ \A i \in 1 .. Len(Append(s, k)) : Append(s, k)[i] = i
  <1>1. /\ Append(s, k) \in Seq(Nat) /\ Len(Append(s, k)) = Len(s) + 1
        /\ Append(s, k)[Len(s) + 1] = k /\ \A i \in 1 .. Len(s) : Append(s, k)[i] = s[i]
    BY AppendProperties
  <1>2. Len(s) \in Nat
    OBVIOUS
  <1> QED BY <1>1, <1>2

LEMMA TakesHeadKeeps == ASSUME Types, NEW c \in Conns, ConnInv(c), TakesHead(c) PROVE Keeps(c)
  <1> DEFINE head == buffer[c][2]
             answered == head[3] \in {"bodyless", "refused"}
  <1>1. /\ taken[c] \in Seq(Pieces) /\ buffer[c] \in Seq(Pieces) /\ wire[c] \in Seq(Pieces)
        /\ sent[c] \in Seq(Pieces) /\ answers[c] \in Seq(Nat)
        /\ phase[c] = "head" /\ Len(buffer[c]) >= 2
    BY DEF Types, TakesHead, Runs, CanParse
  <1>2. keep[c] /\ watch[c] = "off" /\ withdrawn[c] = {} /\ owner[c] = "none"
    BY <1>1 DEF ConnInv, StageInv
  <1>3. head \in Pieces /\ head[1] = Len(answers[c]) + 1 /\ head[2] = "head" /\ head[1] \in Nat
    <2>1. IsPrefix(Stream(c), sent[c]) /\ Framed(sent[c])
      BY <1>2 DEF ConnInv, FlowInv, Flows
    <2>2. buffer[c][1] \in Follow(LastOf(taken[c])) /\ buffer[c][2] \in Follow(buffer[c][1])
      BY <1>1, <2>1, InHand DEF Stream
    <2>3. LastOf(taken[c]) \in Pieces /\ Whole(LastOf(taken[c])) /\ Len(answers[c]) = LastOf(taken[c])[1]
      <3>1. LastOf(taken[c]) \in Pieces
        BY <1>1, LastPiece
      <3>2. LastOf(taken[c])[1] \in Nat
        BY <3>1 DEF Pieces
      <3> QED BY <1>1, <3>1, <3>2 DEF ConnInv, NumberInv
    <2>4. buffer[c][1] \in Pieces /\ buffer[c][1][1] = Len(answers[c]) + 1 /\ buffer[c][1][2] = "start"
      BY <2>2, <2>3, FollowPiece
    <2>5. head \in Pieces /\ head[1] = buffer[c][1][1] /\ head[2] = "head"
      BY <2>2, <2>4, FollowPiece
    <2>6. head[1] \in Nat
      BY <2>5 DEF Pieces
    <2> QED BY <2>4, <2>5, <2>6
  <1>4. PICK x \in Seq(Pieces), y \in Seq(Pieces) :
           /\ x = SubSeq(buffer[c], 1, 2) /\ y = SubSeq(buffer[c], 3, Len(buffer[c]))
           /\ Cat(x, y) = buffer[c] /\ Len(x) = 2 /\ x[2] = head
    <2>1. 2 \in 0 .. Len(buffer[c]) /\ 2 + 1 = 3
      BY <1>1
    <2>2. /\ SubSeq(buffer[c], 1, 2) \in Seq(Pieces) /\ SubSeq(buffer[c], 3, Len(buffer[c])) \in Seq(Pieces)
          /\ Cat(SubSeq(buffer[c], 1, 2), SubSeq(buffer[c], 3, Len(buffer[c]))) = buffer[c]
      BY <1>1, <2>1, Halves
    <2>3. Len(SubSeq(buffer[c], 1, 2)) = 2 /\ SubSeq(buffer[c], 1, 2)[2] = head
      BY <1>1
    <2> QED BY <2>2, <2>3
  <1>5. /\ Cat(taken[c], x) \in Seq(Pieces) /\ Cat(taken[c], x) # <<>> /\ LastOf(Cat(taken[c], x)) = head
    <2>1. /\ Cat(taken[c], x) \in Seq(Pieces) /\ Len(Cat(taken[c], x)) = Len(taken[c]) + 2
          /\ \A i \in 1 .. Len(taken[c]) + 2 :
                Cat(taken[c], x)[i] = IF i <= Len(taken[c]) THEN taken[c][i] ELSE x[i - Len(taken[c])]
      <3>1. PICK t \in Seq(Pieces) : t = taken[c]
        BY <1>1
      <3>2. /\ Cat(t, x) \in Seq(Pieces) /\ Len(Cat(t, x)) = Len(t) + Len(x)
            /\ \A i \in 1 .. Len(t) + Len(x) :
                  Cat(t, x)[i] = IF i <= Len(t) THEN t[i] ELSE x[i - Len(t)]
        BY CatSeq
      <3> QED BY <1>4, <3>1, <3>2
    <2>2. Len(taken[c]) \in Nat
      BY <1>1
    <2>3. Cat(taken[c], x)[Len(taken[c]) + 2] = x[2]
      BY <2>1, <2>2
    <2> QED BY <1>4, <2>1, <2>2, <2>3 DEF LastOf, Last
  <1>6. taken' = [taken EXCEPT ![c] = Cat(taken[c], x)] /\ buffer' = [buffer EXCEPT ![c] = y]
    BY <1>4 DEF TakesHead, Cat
  <1>7. /\ Append(answers[c], head[1]) \in Seq(Nat) /\ Len(Append(answers[c], head[1])) = head[1]
        /\ \A i \in 1 .. Len(Append(answers[c], head[1])) : Append(answers[c], head[1])[i] = i
    BY <1>1, <1>3, OneMore DEF ConnInv, NumberInv
  <1>8. CASE answered /\ Writes(c, head[3] = "bodyless", head)
    <2>1. /\ answers' = [answers EXCEPT ![c] = Append(answers[c], head[1])]
          /\ phase' = [phase EXCEPT ![c] = "writing"]
          /\ keep' = [keep EXCEPT ![c] = (head[3] = "bodyless")]
          /\ owner' = [owner EXCEPT ![c] = "none"] /\ watch' = [watch EXCEPT ![c] = "off"]
          /\ timer' = [timer EXCEPT ![c] = "off"]
          /\ UNCHANGED <<clientVars, cancelled, withdrawn, relayVars>>
      BY <1>8 DEF Writes, TakesHead
    <2>2. Types'
      BY <1>1, <1>5, <1>6, <1>7, <2>1 DEF Types, clientVars, relayVars
    <2>3. /\ ended'[c] = ended[c] /\ phase'[c] = "writing" /\ sent'[c] = sent[c] /\ wire'[c] = wire[c]
          /\ buffer'[c] = y /\ taken'[c] = Cat(taken[c], x) /\ owner'[c] = "none"
          /\ watch'[c] = "off" /\ keep'[c] = (head[3] = "bodyless")
          /\ answers'[c] = Append(answers[c], head[1]) /\ withdrawn'[c] = {}
      BY <1>2, <1>6, <2>1 DEF Types, clientVars
    <2>4. StageInv(c)' /\ GoneInv(c)'
      BY <2>3 DEF StageInv, GoneInv
    <2>5. NumberInv(c)'
      <3>1. keep'[c] => Whole(head)
        BY <1>3, <2>3 DEF Whole, Opens
      <3>2. LastOf(taken'[c]) = head /\ Len(answers'[c]) = head[1] - 0
        BY <1>3, <1>5, <1>7, <2>3
      <3>3. \A i \in 1 .. Len(answers'[c]) : answers'[c][i] = i
        BY <1>7, <2>3
      <3> QED BY <2>3, <3>1, <3>2, <3>3 DEF NumberInv
    <2>6. FlowInv(c)'
      <3>1. Cat(Cat(taken[c], x), y) = Cat(taken[c], Cat(x, y))
        BY <1>1, CatAssociative
      <3>2. Stream(c)' = Stream(c)
        BY <1>4, <2>3, <3>1 DEF Stream
      <3> QED BY <1>2, <2>3, <3>2 DEF ConnInv, FlowInv, Flows
    <2>7. \A d \in Conns \ {c} : Alike(d)
      BY <1>6, <2>1 DEF Types, Alike, clientVars
    <2> QED BY <1>1, <2>1, <2>2, <2>4, <2>5, <2>6, <2>7 DEF ConnInv, Keeps
  <1>9. CASE /\ head[3] \in {"call", "mixed"} /\ phase' = [phase EXCEPT ![c] = "body"]
             /\ timer' = [timer EXCEPT ![c] = "running"] /\ UNCHANGED <<answers, answerVars>>
    <2>2. Types'
      <3>1. taken' \in [Conns -> Seq(Pieces)] /\ buffer' \in [Conns -> Seq(Pieces)]
        BY <1>5, <1>6 DEF Types
      <3>2. /\ phase' \in [Conns -> {"none", "head", "body", "answering", "writing", "done"}]
            /\ timer' \in [Conns -> {"off", "running", "over"}]
        BY <1>9 DEF Types
      <3> QED BY <1>9, <3>1, <3>2 DEF Types, TakesHead, clientVars, relayVars, answerVars
    <2>3. /\ ended'[c] = ended[c] /\ phase'[c] = "body" /\ sent'[c] = sent[c] /\ wire'[c] = wire[c]
          /\ buffer'[c] = y /\ taken'[c] = Cat(taken[c], x) /\ owner'[c] = "none"
          /\ watch'[c] = "off" /\ keep'[c] = keep[c]
          /\ answers'[c] = answers[c] /\ withdrawn'[c] = {}
      BY <1>2, <1>6, <1>9 DEF Types, TakesHead, clientVars, answerVars
    <2>4. StageInv(c)' /\ GoneInv(c)'
      BY <1>2, <2>3 DEF StageInv, GoneInv
    <2>5. NumberInv(c)'
      <3>1. Opens(head)
        BY <1>3, <1>9 DEF Opens
      <3>2. Len(answers[c]) = head[1] - 1
        BY <1>1, <1>3
      <3>3. \A i \in 1 .. Len(answers[c]) : answers[c][i] = i
        BY DEF ConnInv, NumberInv
      <3>4. taken'[c] # <<>> /\ LastOf(taken'[c]) = head
        BY <1>5, <2>3
      <3> QED BY <2>3, <3>1, <3>2, <3>3, <3>4 DEF NumberInv
    <2>6. FlowInv(c)'
      <3>1. Cat(Cat(taken[c], x), y) = Cat(taken[c], Cat(x, y))
        BY <1>1, CatAssociative
      <3>2. Stream(c)' = Stream(c)
        BY <1>4, <2>3, <3>1 DEF Stream
      <3> QED BY <1>2, <2>3, <3>2 DEF ConnInv, FlowInv, Flows
    <2>7. \A d \in Conns \ {c} : Alike(d)
      BY <1>6, <1>9 DEF Types, TakesHead, Alike, clientVars, answerVars
    <2>8. UNCHANGED relayVars
      BY DEF TakesHead
    <2> QED BY <1>1, <2>2, <2>4, <2>5, <2>6, <2>7, <2>8 DEF ConnInv, Keeps
  <1> QED BY <1>8, <1>9 DEF TakesHead

LEMMA TakesBodyKeeps == ASSUME Types, NEW c \in Conns, ConnInv(c), TakesBody(c) PROVE Keeps(c)
  <1>1. /\ taken[c] \in Seq(Pieces) /\ buffer[c] \in Seq(Pieces) /\ wire[c] \in Seq(Pieces)
        /\ sent[c] \in Seq(Pieces) /\ answers[c] \in Seq(Nat)
        /\ phase[c] = "body" /\ buffer[c] # <<>>
    BY DEF Types, TakesBody, Runs, CanParse
  <1>2. keep[c] /\ watch[c] = "off" /\ withdrawn[c] = {} /\ owner[c] = "none"
    BY <1>1 DEF ConnInv, StageInv
  <1>3. PICK p \in Pieces, s \in Seq(Pieces), y \in Seq(Pieces) :
           /\ p = Head(buffer[c]) /\ p = buffer[c][1] /\ y = Tail(buffer[c])
           /\ s = Append(taken[c], p) /\ Cat(s, y) = Cat(taken[c], buffer[c])
    <2>1. /\ Append(taken[c], Head(buffer[c])) \in Seq(Pieces) /\ Tail(buffer[c]) \in Seq(Pieces)
          /\ Head(buffer[c]) = buffer[c][1] /\ Head(buffer[c]) \in Pieces
          /\ Cat(Append(taken[c], Head(buffer[c])), Tail(buffer[c])) = Cat(taken[c], buffer[c])
      BY <1>1, ParsesOne
    <2> QED BY <2>1
  <1>4. p[1] = Len(answers[c]) + 1 /\ p[2] = "body" /\ p[1] \in Nat
    <2>1. IsPrefix(Stream(c), sent[c]) /\ Framed(sent[c])
      BY <1>2 DEF ConnInv, FlowInv, Flows
    <2>2. p \in Follow(LastOf(taken[c]))
      BY <1>1, <1>3, <2>1, InHand DEF Stream
    <2>3. LastOf(taken[c]) \in Pieces
      BY <1>1, LastPiece
    <2>4. LastOf(taken[c])[1] \in Nat
      BY <2>3 DEF Pieces
    <2>5. Opens(LastOf(taken[c])) /\ Len(answers[c]) = LastOf(taken[c])[1] - 1
      BY <1>1 DEF ConnInv, NumberInv
    <2>6. p[1] = LastOf(taken[c])[1] /\ p[2] = "body"
      BY <2>2, <2>3, <2>5, FollowPiece
    <2> QED BY <2>4, <2>5, <2>6
  <1>5. s # <<>> /\ LastOf(s) = p
    <2>1. s # <<>> /\ Len(s) = Len(taken[c]) + 1 /\ s[Len(taken[c]) + 1] = p
      <3>1. PICK t \in Seq(Pieces) : t = taken[c] /\ s = Append(t, p)
        BY <1>1, <1>3
      <3>2. Append(t, p) # <<>> /\ Len(Append(t, p)) = Len(t) + 1 /\ Append(t, p)[Len(t) + 1] = p
        BY AppendProperties
      <3> QED BY <3>1, <3>2
    <2> QED BY <2>1 DEF LastOf, Last
  <1>6. taken' = [taken EXCEPT ![c] = s] /\ buffer' = [buffer EXCEPT ![c] = y]
    BY <1>3 DEF TakesBody
  <1>7. taken' \in [Conns -> Seq(Pieces)] /\ buffer' \in [Conns -> Seq(Pieces)]
    BY <1>6 DEF Types
  <1>8. ASSUME NEW w, wire'[c] = wire[c], taken'[c] = s, buffer'[c] = y PROVE Stream(c)' = Stream(c)
    BY <1>3, <1>8 DEF Stream
  <1>9. CASE Writes(c, FALSE, Head(buffer[c]))
    <2>1. /\ answers' = [answers EXCEPT ![c] = Append(answers[c], p[1])]
          /\ phase' = [phase EXCEPT ![c] = "writing"]
          /\ keep' = [keep EXCEPT ![c] = FALSE]
          /\ owner' = [owner EXCEPT ![c] = "none"] /\ watch' = [watch EXCEPT ![c] = "off"]
          /\ timer' = [timer EXCEPT ![c] = "off"]
          /\ UNCHANGED <<clientVars, cancelled, withdrawn, relayVars>>
      BY <1>3, <1>9 DEF Writes, TakesBody
    <2>2. /\ Append(answers[c], p[1]) \in Seq(Nat) /\ Len(Append(answers[c], p[1])) = p[1]
          /\ \A i \in 1 .. Len(Append(answers[c], p[1])) : Append(answers[c], p[1])[i] = i
      BY <1>1, <1>4, OneMore DEF ConnInv, NumberInv
    <2>3. Types'
      BY <1>7, <2>1, <2>2 DEF Types, clientVars, relayVars
    <2>4. /\ ended'[c] = ended[c] /\ phase'[c] = "writing" /\ sent'[c] = sent[c] /\ wire'[c] = wire[c]
          /\ buffer'[c] = y /\ taken'[c] = s /\ owner'[c] = "none"
          /\ watch'[c] = "off" /\ keep'[c] = FALSE
          /\ answers'[c] = Append(answers[c], p[1]) /\ withdrawn'[c] = {}
      BY <1>2, <1>6, <2>1 DEF Types, clientVars
    <2>5. StageInv(c)' /\ GoneInv(c)'
      BY <2>4 DEF StageInv, GoneInv
    <2>6. NumberInv(c)'
      <3>1. LastOf(taken'[c]) = p /\ Len(answers'[c]) = p[1] - 0
        BY <1>4, <1>5, <2>2, <2>4
      <3>2. \A i \in 1 .. Len(answers'[c]) : answers'[c][i] = i
        BY <2>2, <2>4
      <3> QED BY <2>4, <3>1, <3>2 DEF NumberInv
    <2>7. FlowInv(c)'
      BY <2>4 DEF ConnInv, FlowInv, Flows
    <2>8. \A d \in Conns \ {c} : Alike(d)
      BY <1>6, <2>1 DEF Types, Alike, clientVars
    <2> QED BY <1>1, <2>1, <2>3, <2>5, <2>6, <2>7, <2>8 DEF ConnInv, Keeps
  <1>10. CASE /\ phase' = [phase EXCEPT ![c] = "answering"]
              /\ owner' = [owner EXCEPT ![c] = "pending"] /\ watch' = [watch EXCEPT ![c] = "on"]
              /\ timer' = [timer EXCEPT ![c] = "off"] /\ UNCHANGED <<answers, keep>>
    <2>1. Types'
      BY <1>7, <1>10 DEF Types, TakesBody, clientVars, relayVars
    <2>2. /\ ended'[c] = ended[c] /\ phase'[c] = "answering" /\ sent'[c] = sent[c] /\ wire'[c] = wire[c]
          /\ buffer'[c] = y /\ taken'[c] = s /\ owner'[c] = "pending"
          /\ watch'[c] = "on" /\ keep'[c] = keep[c]
          /\ answers'[c] = answers[c] /\ withdrawn'[c] = {}
      BY <1>2, <1>6, <1>10 DEF Types, TakesBody, clientVars
    <2>3. StageInv(c)' /\ GoneInv(c)'
      BY <1>2, <2>2 DEF StageInv, GoneInv
    <2>4. NumberInv(c)'
      <3>1. LastOf(taken'[c]) = p /\ taken'[c] # <<>> /\ Len(answers'[c]) = p[1] - 1
        BY <1>1, <1>4, <1>5, <2>2
      <3>2. \A i \in 1 .. Len(answers'[c]) : answers'[c][i] = i
        BY <2>2 DEF ConnInv, NumberInv
      <3>3. Whole(p)
        BY <1>4 DEF Whole, Opens
      <3> QED BY <2>2, <3>1, <3>2, <3>3 DEF NumberInv
    <2>5. FlowInv(c)'
      <3>1. Stream(c)' = Stream(c)
        BY <1>8, <2>2
      <3> QED BY <1>2, <2>2, <3>1 DEF ConnInv, FlowInv, Flows
    <2>6. \A d \in Conns \ {c} : Alike(d)
      BY <1>6, <1>10 DEF Types, TakesBody, Alike, clientVars
    <2>7. UNCHANGED relayVars
      BY DEF TakesBody
    <2> QED BY <1>1, <2>1, <2>3, <2>4, <2>5, <2>6, <2>7 DEF ConnInv, Keeps
  <1> QED BY <1>9, <1>10 DEF TakesBody

-----------------------------------------------------------------------------
(* Answering. *)
LEMMA InHandRequest ==
    ASSUME Types, NEW c \in Conns, ConnInv(c), phase[c] = "answering"
    PROVE  /\ LastOf(taken[c]) = Request(c) /\ Request(c) \in Pieces /\ Request(c)[1] \in Nat
           /\ Len(answers[c]) = Request(c)[1] - 1
  <1>1. taken[c] # <<>> /\ Len(answers[c]) = LastOf(taken[c])[1] - 1
    BY DEF ConnInv, NumberInv
  <1>2. LastOf(taken[c]) = Request(c)
    BY <1>1 DEF LastOf, Request
  <1>3. LastOf(taken[c]) \in Pieces
    BY LastPiece DEF Types
  <1>4. LastOf(taken[c])[1] \in Nat
    BY <1>3 DEF Pieces
  <1> QED BY <1>1, <1>2, <1>3, <1>4

LEMMA OwnerEndsKeeps == ASSUME Types, NEW c \in Conns, ConnInv(c), OwnerEnds(c) PROVE Keeps(c)
  <1>1. PICK how \in Finished : owner' = [owner EXCEPT ![c] = how]
    BY DEF OwnerEnds, Finished
  <1>2. /\ owner[c] \in {"pending", "cancelling"}
        /\ UNCHANGED <<clientVars, phase, buffer, timer, watch, keep, cancelled, historyVars, relayVars>>
    BY DEF OwnerEnds
  <1>3. Types'
    BY <1>1, <1>2 DEF Types, clientVars, historyVars, relayVars
  <1>4. owner'[c] = how /\ how \notin {"none", "pending"}
    BY <1>1 DEF Types, Finished
  <1>5. StageInv(c)' /\ GoneInv(c)' /\ NumberInv(c)' /\ FlowInv(c)'
    BY <1>2, <1>4
       DEF ConnInv, StageInv, GoneInv, NumberInv, FlowInv, Flows, Stream, Request, clientVars, historyVars
  <1>6. \A d \in Conns \ {c} : Alike(d)
    BY <1>1, <1>2 DEF Types, Alike, clientVars, historyVars
  <1>7. phase[c] \notin {"none", "done"}
    BY <1>2 DEF ConnInv, StageInv
  <1> QED BY <1>2, <1>3, <1>5, <1>6, <1>7 DEF ConnInv, Keeps

(* An end seen while the answer is pending withdraws the request in hand. *)
LEMMA SeesEndGone ==
    ASSUME Types, NEW c \in Conns, ConnInv(c), watch[c] = "on", SeesEnd(c),
           UNCHANGED <<phase, taken, cancelled, keep>>
    PROVE  /\ phase[c] = "answering" /\ watch'[c] \in {"while_pending", "after_answer"}
           /\ owner' \in [Conns -> {"none", "pending", "cancelling"} \cup Finished]
           /\ watch' \in [Conns -> {"off", "on", "while_pending", "after_answer"}]
           /\ withdrawn' \in [Conns -> SUBSET Nat]
           /\ owner'[c] # "none" /\ GoneInv(c)'
           /\ \A d \in Conns \ {c} :
                 owner'[d] = owner[d] /\ watch'[d] = watch[d] /\ withdrawn'[d] = withdrawn[d]
  <1>1. phase[c] = "answering" /\ owner[c] # "none"
    BY DEF ConnInv, StageInv
  <1>2. Request(c)[1] \in Nat
    BY <1>1, InHandRequest
  <1>3. CASE /\ owner[c] \in Finished /\ watch' = [watch EXCEPT ![c] = "after_answer"]
             /\ UNCHANGED <<owner, withdrawn>>
    <2>1. watch'[c] = "after_answer" /\ GoneInv(c)'
      BY <1>3 DEF Types, ConnInv, GoneInv, Request
    <2> QED BY <1>1, <1>3, <2>1 DEF Types
  <1>4. CASE /\ owner[c] \notin Finished /\ watch' = [watch EXCEPT ![c] = "while_pending"]
             /\ Cancel(c)
    <2>1. owner[c] \in {"pending", "cancelling"}
      BY <1>1, <1>4 DEF Types
    <2>2. /\ owner' = [owner EXCEPT ![c] = "cancelling"]
          /\ withdrawn' = [withdrawn EXCEPT ![c] = @ \cup {Request(c)[1]}]
      BY <1>4, <2>1 DEF Cancel, Types
    <2>3. /\ watch'[c] = "while_pending" /\ owner'[c] = "cancelling"
          /\ withdrawn'[c] = withdrawn[c] \cup {Request(c)[1]}
      BY <1>4, <2>2 DEF Types
    <2>4. withdrawn'[c] = {Request(c)[1]} /\ Request(c)' = Request(c)
      BY <2>3 DEF ConnInv, GoneInv, Request
    <2>5. GoneInv(c)'
      BY <2>3, <2>4 DEF GoneInv
    <2>6. withdrawn' \in [Conns -> SUBSET Nat]
      BY <1>2, <2>2 DEF Types
    <2> QED BY <1>1, <1>4, <2>2, <2>3, <2>5, <2>6 DEF Types
  <1> QED BY <1>3, <1>4 DEF SeesEnd

LEMMA WatchReadsKeeps == ASSUME Types, NEW c \in Conns, ConnInv(c), WatchReads(c) PROVE Keeps(c)
  <1>1. /\ watch[c] = "on" /\ wire' = [wire EXCEPT ![c] = <<>>]
        /\ UNCHANGED <<sent, ended, phase, timer, keep, cancelled, taken, answers, relayVars>>
    BY DEF WatchReads
  <1>2. wire'[c] = <<>> /\ wire' \in [Conns -> Seq(Pieces)]
    BY <1>1 DEF Types
  <1>3. phase[c] = "answering" /\ keep[c]
    BY <1>1 DEF ConnInv, StageInv
  <1>4. CASE SeesEnd(c) /\ UNCHANGED buffer
    <2>1. /\ watch'[c] \in {"while_pending", "after_answer"} /\ owner'[c] # "none" /\ GoneInv(c)'
          /\ owner' \in [Conns -> {"none", "pending", "cancelling"} \cup Finished]
          /\ watch' \in [Conns -> {"off", "on", "while_pending", "after_answer"}]
          /\ withdrawn' \in [Conns -> SUBSET Nat]
          /\ \A d \in Conns \ {c} :
                owner'[d] = owner[d] /\ watch'[d] = watch[d] /\ withdrawn'[d] = withdrawn[d]
      BY <1>1, <1>4, SeesEndGone
    <2>2. Types'
      BY <1>1, <1>2, <1>4, <2>1 DEF Types, relayVars
    <2>3. StageInv(c)'
      BY <1>1, <1>3, <2>1 DEF StageInv
    <2>4. NumberInv(c)'
      BY <1>1 DEF ConnInv, NumberInv
    <2>5. FlowInv(c)'
      BY <1>1, <2>1 DEF ConnInv, FlowInv, Flows
    <2>6. \A d \in Conns \ {c} : Alike(d)
      BY <1>1, <1>4, <2>1 DEF Types, Alike
    <2> QED BY <1>1, <1>3, <2>1, <2>2, <2>3, <2>4, <2>5, <2>6 DEF ConnInv, Keeps
  <1>5. CASE buffer' = WatchKeeps(c, wire[c]) /\ UNCHANGED <<watch, owner, withdrawn>>
    <2>1. PICK t \in Seq(Pieces), b \in Seq(Pieces), w \in Seq(Pieces) :
             t = taken[c] /\ b = buffer[c] /\ w = wire[c]
      BY DEF Types
    <2>2. Cat(b, w) \in Seq(Pieces)
      BY CatSeq
    <2>3. buffer' = [buffer EXCEPT ![c] = Cat(b, w)]
      BY <1>5, <2>1 DEF WatchKeeps, Cat
    <2>4. buffer' \in [Conns -> Seq(Pieces)] /\ buffer'[c] = Cat(b, w)
      BY <2>2, <2>3 DEF Types
    <2>5. Types'
      BY <1>1, <1>2, <1>5, <2>4 DEF Types, relayVars
    <2>6. StageInv(c)' /\ GoneInv(c)' /\ NumberInv(c)'
      BY <1>1, <1>3, <1>5 DEF ConnInv, StageInv, GoneInv, NumberInv, Request
    <2>7. Stream(c)' = Stream(c)
      <3>1. <<>> \in Seq(Pieces)
        OBVIOUS
      <3>2. PICK e \in Seq(Pieces) : e = <<>>
        BY <3>1
      <3>3. Cat(Cat(t, Cat(b, w)), e) = Cat(Cat(t, b), Cat(w, e))
        BY Moves
      <3>4. Cat(w, <<>>) = w
        BY CatEmpty
      <3> QED BY <1>1, <1>2, <2>1, <2>4, <3>2, <3>3, <3>4 DEF Stream
    <2>8. FlowInv(c)'
      BY <1>1, <1>5, <2>7 DEF ConnInv, FlowInv, Flows
    <2>9. \A d \in Conns \ {c} : Alike(d)
      BY <1>1, <1>5, <2>3 DEF Types, Alike
    <2> QED BY <1>1, <1>3, <2>5, <2>6, <2>8, <2>9 DEF ConnInv, Keeps
  <1> QED BY <1>4, <1>5 DEF WatchReads

LEMMA WatchSeesEndKeeps ==
    ASSUME Types, NEW c \in Conns, ConnInv(c), WatchSeesEnd(c) PROVE Keeps(c)
  <1>1. /\ watch[c] = "on" /\ SeesEnd(c)
        /\ UNCHANGED <<clientVars, phase, buffer, timer, keep, cancelled, taken, answers, relayVars>>
    BY DEF WatchSeesEnd
  <1>2. /\ phase[c] = "answering"
        /\ watch'[c] \in {"while_pending", "after_answer"} /\ owner'[c] # "none" /\ GoneInv(c)'
        /\ owner' \in [Conns -> {"none", "pending", "cancelling"} \cup Finished]
        /\ watch' \in [Conns -> {"off", "on", "while_pending", "after_answer"}]
        /\ withdrawn' \in [Conns -> SUBSET Nat]
        /\ \A d \in Conns \ {c} :
              owner'[d] = owner[d] /\ watch'[d] = watch[d] /\ withdrawn'[d] = withdrawn[d]
    BY <1>1, SeesEndGone
  <1>3. Types'
    BY <1>1, <1>2 DEF Types, clientVars, relayVars
  <1>4. StageInv(c)'
    BY <1>1, <1>2 DEF StageInv, ConnInv
  <1>5. NumberInv(c)'
    BY <1>1 DEF ConnInv, NumberInv
  <1>6. FlowInv(c)'
    BY <1>1, <1>2 DEF ConnInv, FlowInv, Flows, clientVars
  <1>7. \A d \in Conns \ {c} : Alike(d)
    BY <1>1, <1>2 DEF Types, Alike, clientVars
  <1> QED BY <1>1, <1>2, <1>3, <1>4, <1>5, <1>6, <1>7 DEF ConnInv, Keeps

LEMMA ResumesKeeps == ASSUME Types, NEW c \in Conns, ConnInv(c), Resumes(c) PROVE Keeps(c)
  <1>1. phase[c] = "answering" /\ owner[c] \in Finished
    BY DEF Resumes
  <1>2. CASE Ends(c)
    BY <1>1, <1>2, EndsKeeps
  <1>3. CASE /\ ~cancelled[c] /\ watch[c] # "while_pending"
             /\ Writes(c, Request(c)[3] # "mixed" /\ watch[c] # "after_answer", Request(c))
             /\ UNCHANGED <<clientVars, buffer, cancelled, taken, withdrawn, relayVars>>
    <2> DEFINE goesOn == Request(c)[3] # "mixed" /\ watch[c] # "after_answer"
    <2>1. PICK p \in Pieces : p = Request(c)
      BY <1>1, InHandRequest
    <2>2. /\ answers' = [answers EXCEPT ![c] = Append(answers[c], p[1])]
          /\ phase' = [phase EXCEPT ![c] = "writing"] /\ keep' = [keep EXCEPT ![c] = goesOn]
          /\ owner' = [owner EXCEPT ![c] = "none"] /\ watch' = [watch EXCEPT ![c] = "off"]
          /\ timer' = [timer EXCEPT ![c] = "off"]
      BY <1>3, <2>1 DEF Writes
    <2>3. /\ LastOf(taken[c]) = p /\ p[1] \in Nat /\ Len(answers[c]) = p[1] - 1
          /\ answers[c] \in Seq(Nat)
      BY <1>1, <2>1, InHandRequest DEF Types
    <2>4. /\ Append(answers[c], p[1]) \in Seq(Nat) /\ Len(Append(answers[c], p[1])) = p[1]
          /\ \A i \in 1 .. Len(Append(answers[c], p[1])) : Append(answers[c], p[1])[i] = i
      BY <2>3, OneMore DEF ConnInv, NumberInv
    <2>5. withdrawn[c] = {} /\ keep[c]
      BY <1>1, <1>3 DEF ConnInv, GoneInv, StageInv
    <2>6. Types'
      <3>1. goesOn \in BOOLEAN
        OBVIOUS
      <3> QED BY <1>3, <2>2, <2>4, <3>1 DEF Types, clientVars, relayVars
    <2>7. /\ ended'[c] = ended[c] /\ phase'[c] = "writing" /\ sent'[c] = sent[c] /\ wire'[c] = wire[c]
          /\ buffer'[c] = buffer[c] /\ taken'[c] = taken[c] /\ owner'[c] = "none"
          /\ watch'[c] = "off" /\ keep'[c] = goesOn
          /\ answers'[c] = Append(answers[c], p[1]) /\ withdrawn'[c] = {}
      BY <1>3, <2>2, <2>5 DEF Types, clientVars
    <2>8. StageInv(c)' /\ GoneInv(c)'
      BY <2>7 DEF StageInv, GoneInv
    <2>9. NumberInv(c)'
      <3>1. LastOf(taken'[c]) = p /\ Len(answers'[c]) = p[1] - 0
        BY <2>3, <2>4, <2>7
      <3>2. \A i \in 1 .. Len(answers'[c]) : answers'[c][i] = i
        BY <2>4, <2>7
      <3>3. Whole(p)
        BY <1>1, <2>3 DEF ConnInv, NumberInv
      <3> QED BY <2>7, <3>1, <3>2, <3>3 DEF NumberInv
    <2>10. FlowInv(c)'
      <3>1. Flows(c)' => Flows(c)
        BY <1>3, <2>5, <2>7 DEF Flows
      <3> QED BY <2>7, <3>1 DEF ConnInv, FlowInv, Stream
    <2>11. \A d \in Conns \ {c} : Alike(d)
      BY <1>3, <2>2 DEF Types, Alike, clientVars
    <2> QED BY <1>1, <1>3, <2>6, <2>8, <2>9, <2>10, <2>11 DEF ConnInv, Keeps
  <1> QED BY <1>2, <1>3 DEF Resumes

LEMMA DrainedKeeps == ASSUME Types, NEW c \in Conns, ConnInv(c), Drained(c) PROVE Keeps(c)
  <1>1. phase[c] = "writing"
    BY DEF Drained, Runs
  <1>2. CASE Ends(c)
    BY <1>1, <1>2, EndsKeeps
  <1>3. CASE /\ keep[c] /\ phase' = [phase EXCEPT ![c] = "head"]
             /\ timer' = [timer EXCEPT ![c] = NextHeadTimer(c)]
             /\ UNCHANGED <<clientVars, buffer, answerVars, cancelled, historyVars, relayVars>>
    <2>1. Types'
      BY <1>3 DEF Types, NextHeadTimer, clientVars, answerVars, historyVars, relayVars
    <2>2. phase'[c] = "head"
      BY <1>3 DEF Types
    <2>3. StageInv(c)' /\ GoneInv(c)' /\ NumberInv(c)' /\ FlowInv(c)'
      BY <1>1, <1>3, <2>2
         DEF ConnInv, StageInv, GoneInv, NumberInv, FlowInv, Flows, Stream, Request,
             clientVars, answerVars, historyVars
    <2>4. \A d \in Conns \ {c} : Alike(d)
      BY <1>3 DEF Types, Alike, clientVars, answerVars, historyVars
    <2> QED BY <1>1, <1>3, <2>1, <2>3, <2>4 DEF ConnInv, Keeps
  <1> QED BY <1>2, <1>3 DEF Drained

LEMMA CancelledEndsKeeps ==
    ASSUME Types, NEW c \in Conns, ConnInv(c), CancelledEnds(c) PROVE Keeps(c)
  BY EndsKeeps DEF CancelledEnds

-----------------------------------------------------------------------------
(* Closing. *)
LEMMA StopListeningKeeps == ASSUME IInv, StopListening PROVE IInv'
  <1>1. Types'
    BY DEF IInv, Types, StopListening, clientVars, answerVars, historyVars
  <1>2. \A d \in Conns : ConnInv(d)'
    BY AlikeKeeps DEF IInv, StopListening, Alike, clientVars, answerVars, historyVars
  <1>3. CloseInv'
    BY DEF IInv, CloseInv, StopListening, Tracked
  <1> QED BY <1>1, <1>2, <1>3 DEF IInv

LEMMA CloseBeginsKeeps == ASSUME IInv, CloseBegins PROVE IInv'
  <1>1. Types /\ \A c \in Conns : ConnInv(c)
    BY DEF IInv
  <1>2. ASSUME NEW c \in Conns
        PROVE  /\ wire'[c] \in Seq(Pieces) /\ ended'[c] \in {"no", "fin", "cut"}
               /\ cancelled'[c] \in BOOLEAN
               /\ owner'[c] \in {"none", "pending", "cancelling"} \cup Finished
               /\ withdrawn'[c] \in SUBSET Nat
    <2>1. <<>> \in Seq(Pieces)
      OBVIOUS
    <2>2. wire'[c] \in Seq(Pieces) /\ ended'[c] \in {"no", "fin", "cut"}
      BY <1>1, <2>1 DEF CloseBegins, Types
    <2>3. /\ cancelled'[c] \in BOOLEAN
          /\ owner'[c] \in {"none", "pending", "cancelling"} \cup Finished
      BY <1>1 DEF CloseBegins, Types
    <2>4. withdrawn'[c] \in SUBSET Nat
      <3>1. phase[c] = "answering" => Request(c)[1] \in Nat
        BY <1>1, InHandRequest
      <3> QED BY <1>1, <3>1 DEF CloseBegins, Types
    <2> QED BY <2>2, <2>3, <2>4
  <1>3. Types'
    <2>1. /\ wire' = [c \in Conns |-> wire'[c]] /\ ended' = [c \in Conns |-> ended'[c]]
          /\ cancelled' = [c \in Conns |-> cancelled'[c]] /\ owner' = [c \in Conns |-> owner'[c]]
          /\ withdrawn' = [c \in Conns |-> withdrawn'[c]]
      BY DEF CloseBegins
    <2>2. /\ wire' \in [Conns -> Seq(Pieces)] /\ ended' \in [Conns -> {"no", "fin", "cut"}]
          /\ cancelled' \in [Conns -> BOOLEAN]
          /\ owner' \in [Conns -> {"none", "pending", "cancelling"} \cup Finished]
          /\ withdrawn' \in [Conns -> SUBSET Nat]
      BY <1>2, <2>1
    <2>3. snapshot' \subseteq Conns
      BY DEF CloseBegins, Tracked
    <2> QED BY <1>1, <2>2, <2>3 DEF Types, CloseBegins
  <1>4. ASSUME NEW c \in Conns PROVE ConnInv(c)'
    <2>0. ConnInv(c)
      BY <1>1
    <2>1. /\ sent'[c] = sent[c] /\ phase'[c] = phase[c] /\ buffer'[c] = buffer[c]
          /\ taken'[c] = taken[c] /\ watch'[c] = watch[c] /\ keep'[c] = keep[c]
          /\ answers'[c] = answers[c]
          /\ owner'[c] = (IF owner[c] = "pending" THEN "cancelling" ELSE owner[c])
          /\ withdrawn'[c] = (IF phase[c] = "answering"
                              THEN withdrawn[c] \cup {Request(c)[1]} ELSE withdrawn[c])
          /\ wire'[c] = (IF c \in Tracked THEN <<>> ELSE wire[c])
          /\ ended'[c] = (IF c \in Tracked THEN "cut" ELSE ended[c])
          /\ cancelled'[c] = (cancelled[c] \/ c \in Tracked)
      BY DEF CloseBegins
    <2>2. phase[c] = "answering" => c \in Tracked
      BY DEF Tracked
    <2>3. StageInv(c)'
      BY <2>0, <2>1 DEF ConnInv, StageInv, Tracked
    <2>4. GoneInv(c)'
      <3>1. Request(c)' = Request(c)
        BY <2>1 DEF Request
      <3>2. CASE phase[c] = "answering"
        <4>1. withdrawn'[c] = {Request(c)[1]}
          BY <2>0, <2>1, <3>2 DEF ConnInv, GoneInv
        <4> QED BY <2>1, <2>2, <3>1, <3>2, <4>1 DEF GoneInv
      <3>3. CASE phase[c] # "answering"
        BY <2>0, <2>1, <3>3 DEF ConnInv, StageInv, GoneInv
      <3> QED BY <3>2, <3>3
    <2>5. NumberInv(c)'
      BY <2>0, <2>1 DEF ConnInv, NumberInv
    <2>6. FlowInv(c)'
      <3>1. CASE c \in Tracked
        BY <1>1, <2>0, <2>1, <3>1, CutFlow DEF ConnInv
      <3>2. CASE c \notin Tracked
        BY <2>0, <2>1, <3>2 DEF ConnInv, FlowInv, Flows, Stream
      <3> QED BY <3>1, <3>2
    <2> QED BY <2>3, <2>4, <2>5, <2>6 DEF ConnInv
  <1>5. CloseInv'
    BY DEF IInv, CloseInv, CloseBegins, Tracked
  <1> QED BY <1>3, <1>4, <1>5 DEF IInv

LEMMA CloseEndsKeeps == ASSUME IInv, CloseEnds PROVE IInv'
  <1>1. Types'
    BY DEF IInv, Types, CloseEnds, clientVars, answerVars, historyVars
  <1>2. \A d \in Conns : ConnInv(d)'
    BY AlikeKeeps DEF IInv, CloseEnds, Alike, clientVars, answerVars, historyVars
  <1>3. Tracked' = Tracked
    BY DEF CloseEnds, Tracked
  <1>4. CASE snapshot \cap Tracked = {} /\ attempt' = "none" /\ closed' = TRUE
    <2>1. closing /\ Tracked = {} /\ closing'
      BY <1>4 DEF IInv, CloseInv, CloseEnds
    <2> QED BY <1>1, <1>2, <1>3, <1>4, <2>1 DEF IInv, CloseInv
  <1>5. CASE attempt' = "incomplete" /\ UNCHANGED closed
    <2>1. CloseInv'
      BY <1>3, <1>5 DEF IInv, CloseInv, CloseEnds
    <2> QED BY <1>1, <1>2, <2>1 DEF IInv
  <1> QED BY <1>4, <1>5 DEF CloseEnds

-----------------------------------------------------------------------------
LEMMA IInvStep == IInv /\ [Next]_vars => IInv'
  <1> SUFFICES ASSUME IInv, [Next]_vars PROVE IInv'
    OBVIOUS
  <1>1. Types /\ \A c \in Conns : ConnInv(c)
    BY DEF IInv
  <1>2. ASSUME NEW c \in Conns,
               \/ Connects(c) \/ ClientSends(c) \/ ClientLeaves(c)
               \/ Serves(c) \/ OwnerEnds(c) \/ WatchReads(c) \/ WatchSeesEnd(c)
               \/ InstantPasses(c) \/ TimerAborts(c)
        PROVE  IInv'
    <2>1. CASE Connects(c)
      BY <1>1, <2>1, ConnectsKeeps, ConnStep
    <2>2. CASE ClientSends(c)
      BY <1>1, <2>2, ClientSendsKeeps, ConnStep
    <2>3. CASE ClientLeaves(c)
      BY <1>1, <2>3, ClientLeavesKeeps, ConnStep
    <2>4. CASE Serves(c)
      <3>1. CASE ReadsMore(c)
        BY <1>1, <3>1, ReadsMoreKeeps, ConnStep
      <3>2. CASE StopsReading(c)
        BY <1>1, <3>2, StopsReadingKeeps, ConnStep
      <3>3. CASE TakesHead(c)
        BY <1>1, <3>3, TakesHeadKeeps, ConnStep
      <3>4. CASE TakesBody(c)
        BY <1>1, <3>4, TakesBodyKeeps, ConnStep
      <3>5. CASE Resumes(c)
        BY <1>1, <3>5, ResumesKeeps, ConnStep
      <3>6. CASE Drained(c)
        BY <1>1, <3>6, DrainedKeeps, ConnStep
      <3>7. CASE CancelledEnds(c)
        BY <1>1, <3>7, CancelledEndsKeeps, ConnStep
      <3> QED BY <2>4, <3>1, <3>2, <3>3, <3>4, <3>5, <3>6, <3>7 DEF Serves
    <2>5. CASE OwnerEnds(c)
      BY <1>1, <2>5, OwnerEndsKeeps, ConnStep
    <2>6. CASE WatchReads(c)
      BY <1>1, <2>6, WatchReadsKeeps, ConnStep
    <2>7. CASE WatchSeesEnd(c)
      BY <1>1, <2>7, WatchSeesEndKeeps, ConnStep
    <2>8. CASE InstantPasses(c)
      BY <1>1, <2>8, InstantPassesKeeps, ConnStep
    <2>9. CASE TimerAborts(c)
      BY <1>1, <2>9, TimerAbortsKeeps, ConnStep
    <2> QED BY <1>2, <2>1, <2>2, <2>3, <2>4, <2>5, <2>6, <2>7, <2>8, <2>9
  <1>3. CASE StopListening
    BY <1>3, StopListeningKeeps
  <1>4. CASE CloseBegins
    BY <1>4, CloseBeginsKeeps
  <1>5. CASE CloseEnds
    BY <1>5, CloseEndsKeeps
  <1>6. CASE UNCHANGED vars
    <2>1. Types'
      BY <1>1, <1>6 DEF vars, Types, clientVars, answerVars, historyVars, relayVars
    <2>2. \A d \in Conns : ConnInv(d)'
      BY <1>1, <1>6, AlikeKeeps DEF vars, Alike, clientVars, answerVars, historyVars
    <2>3. CloseInv'
      BY <1>6 DEF vars, IInv, CloseInv, Tracked, relayVars
    <2> QED BY <2>1, <2>2, <2>3 DEF IInv
  <1> QED BY <1>2, <1>3, <1>4, <1>5, <1>6 DEF Next

LEMMA Invariance == Spec => []IInv
  BY IInvInit, IInvStep, PTL DEF Spec

(* A request whose client was seen to end, or whose relay began to close,  *)
(* before its answer was complete is never answered, whatever the owner    *)
(* still does; and a closed relay serves nobody (_watch,                   *)
(* _answered_while_watching, _close_once).                                 *)
THEOREM TheGoneStayGone == Spec => []GoneIsGone
  <1>1. IInv => GoneIsGone
    <2> SUFFICES ASSUME IInv PROVE GoneIsGone
      OBVIOUS
    <2>1. Types /\ CloseInv /\ \A c \in Conns : ConnInv(c)
      BY DEF IInv
    <2>2. ASSUME NEW c \in Conns
          PROVE  /\ withdrawn[c] \cap Range(answers[c]) = {}
                 /\ owner[c] = "pending" => Request(c)[1] \notin withdrawn[c]
      <3>1. CASE withdrawn[c] = {}
        BY <3>1
      <3>2. CASE withdrawn[c] # {}
        <4>1. /\ withdrawn[c] = {Request(c)[1]} /\ owner[c] # "pending" /\ phase[c] = "answering"
          BY <2>1, <3>2 DEF ConnInv, GoneInv, StageInv
        <4>2. Len(answers[c]) = Request(c)[1] - 1 /\ Request(c)[1] \in Nat
          BY <2>1, <4>1, InHandRequest
        <4>3. /\ answers[c] \in Seq(Nat)
              /\ \A i \in 1 .. Len(answers[c]) : answers[c][i] = i
          BY <2>1 DEF Types, ConnInv, NumberInv
        <4>4. DOMAIN answers[c] = 1 .. Len(answers[c]) /\ Len(answers[c]) \in Nat
          BY <4>3
        <4>5. Request(c)[1] \notin Range(answers[c])
          BY <4>2, <4>3, <4>4 DEF Range
        <4> QED BY <4>1, <4>5
      <3> QED BY <3>1, <3>2
    <2>3. closed => Tracked = {}
      BY <2>1 DEF CloseInv
    <2> QED BY <2>2, <2>3 DEF GoneIsGone
  <1> QED BY <1>1, Invariance, PTL

(* The requests of a connection are answered one by one, in order, none    *)
(* left out, and no byte read beside a pending answer is lost to the next  *)
(* one (_watch keeps what it reads, _stopped leaves the rest).             *)
THEOREM AnswersAreInOrder == Spec => []AnswersFollowRequests
  <1>1. IInv => AnswersFollowRequests
    <2> SUFFICES ASSUME IInv, NEW c \in Tracked
                 PROVE  /\ answers[c] = [i \in DOMAIN answers[c] |-> i]
                        /\ taken[c] # <<>> => Len(answers[c]) =
                              Request(c)[1] - (IF phase[c] \in {"body", "answering"} THEN 1 ELSE 0)
                        /\ Flows(c) => IsPrefix(taken[c] \o buffer[c] \o wire[c], sent[c])
                        /\ ended[c] # "cut" /\ Flows(c) =>
                              taken[c] \o buffer[c] \o wire[c] = sent[c]
      BY DEF AnswersFollowRequests, Flows
    <2>1. c \in Conns /\ Types /\ ConnInv(c)
      BY DEF IInv, Tracked
    <2>2. answers[c] = [i \in DOMAIN answers[c] |-> i]
      <3>1. answers[c] \in Seq(Nat) /\ \A i \in 1 .. Len(answers[c]) : answers[c][i] = i
        BY <2>1 DEF Types, ConnInv, NumberInv
      <3> QED BY <3>1
    <2>3. taken[c] # <<>> => Len(answers[c]) =
             Request(c)[1] - (IF phase[c] \in {"body", "answering"} THEN 1 ELSE 0)
      BY <2>1 DEF ConnInv, NumberInv, LastOf, Request
    <2>4. Stream(c) = taken[c] \o buffer[c] \o wire[c]
      BY DEF Stream, Cat
    <2> QED BY <2>1, <2>2, <2>3, <2>4 DEF ConnInv, FlowInv
  <1> QED BY <1>1, Invariance, PTL

=============================================================================

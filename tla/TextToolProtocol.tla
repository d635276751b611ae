-------------------------- MODULE TextToolProtocol --------------------------
(***************************************************************************)
(* The text protocol by which a subscription CLI asks for a tool           *)
(* (text_tool_protocol.py): a call is a block that an opening tag starts   *)
(* on a line of its own.  The parser of the live stream shows what cannot  *)
(* be such a block at once and holds the rest back.                        *)
(*                                                                         *)
(* A text is a sequence of pieces.  The opening tag is two pieces, so that *)
(* a chunk may end inside it; a JSON value is one piece named for what it  *)
(* turns out to be, since nothing in it is ever looked at before its end.  *)
(***************************************************************************)
EXTENDS Integers, SequencesExt

\* Line breaks other than "\n": U+2028, a form feed, a lone "\r".
Newline == "newline"
OtherBreak == "other_break"
Blank == {"space", Newline, OtherBreak}
JsonBlank == {"space", Newline}
Opening == <<"tag", "end_tag", Newline>>
CloseTag == "close_tag"
Fence == "fence"
\* What the JSON value of a block may be, the first of them a proper call.
JsonValues == {"call", "unknown_tool", "arguments_off_schema", "not_a_call_object"}

IsBlank(text) == text # <<>> /\ Range(text) \subseteq Blank

Trim(text) ==
    LET solid == {i \in DOMAIN text : text[i] \notin Blank}
    IN IF solid = {} THEN <<>> ELSE SubSeq(text, Min(solid), Max(solid))

\* The position of the first piece of text from i on that is not JSON blank.
AfterBlank(text, i) ==
    Min({j \in i .. Len(text) : text[j] \notin JsonBlank} \cup {Len(text) + 1})

IsLineStart(text, i) == i = 1 \/ text[i - 1] = Newline

\* The loop over the lines of a text, in closed form.  Python's splitlines also
\* ends a line at the other breaks.  Such a line does not end with "\n", so the
\* loop takes it for the open last line and stops: whatever comes after it in
\* this text is not looked at.  LineEnds are the ends the loop comes to.
LineEnds(text) ==
    {e \in DOMAIN text : text[e] = Newline /\ \A i \in 1 .. e : text[i] # OtherBreak}

\* The line that ends at e begins, but for spaces, with the fence at i.
BeginsWithFence(text, i, e) ==
    /\ text[i] = Fence
    /\ \A n \in i .. e - 1 : text[n] # Newline
    /\ \A j \in 1 .. i - 1 : text[j] = "space" \/ \E n \in j .. i - 1 : text[n] = Newline

\* The complete lines that open or close a fence.
FenceLines(text) ==
    {e \in LineEnds(text) : \E i \in 1 .. e - 1 : BeginsWithFence(text, i, e)}

\* Inside a fence or not after those lines, and the open line they leave.
AdvanceFences(inside, text) ==
    [inside |-> inside # (Cardinality(FenceLines(text)) % 2 = 1),
     line |-> SubSeq(text, Max(LineEnds(text) \cup {0}) + 1,
                     Min({i \in DOMAIN text : text[i] = OtherBreak} \cup {Len(text)}))]

\* The line starts of value outside a fence, given what was shown before it.
OpenLineStarts(value, inside, line) ==
    {i \in DOMAIN value :
        /\ IsLineStart(value, i)
        /\ ~AdvanceFences(inside, line \o SubSeq(value, 1, i - 1)).inside}

OpeningStarts(value, inside, line) ==
    {i \in OpenLineStarts(value, inside, line) :
        IsPrefix(Opening, SubSeq(value, i, Len(value)))}

\* A mutant: an opening tag that a chunk cuts in two is not waited for.
NoPrefixStarts(value, inside, line) == {}

OpeningPrefixStarts(value, inside, line) ==
    {i \in OpenLineStarts(value, inside, line) :
        IsPrefix(SubSeq(value, i, Len(value)), Opening)}

----------------------------------------------------------------------------
\* The parser of one response.  candidate is the text held back, or, in a
\* call, the block read so far.
NewParser == [candidate |-> <<>>, inCall |-> FALSE, inside |-> FALSE, line |-> <<>>]

\* Show the first n pieces of value and keep the others; blank text alone is
\* not shown, and is kept with what follows it.
Shows(parser, value, n, inCall) ==
    LET out == SubSeq(value, 1, n)
        fences == AdvanceFences(parser.inside, parser.line \o out)
    IN IF IsBlank(out)
       THEN [parser |-> [parser EXCEPT !.candidate = value, !.inCall = inCall], out |-> <<>>]
       ELSE [parser |-> [candidate |-> SubSeq(value, n + 1, Len(value)), inCall |-> inCall,
                         inside |-> fences.inside, line |-> fences.line],
             out |-> out]

Feed(parser, text) ==
    LET value == parser.candidate \o text
        found == OpeningStarts(value, parser.inside, parser.line)
        possible == OpeningPrefixStarts(value, parser.inside, parser.line)
    IN CASE parser.inCall ->
                [parser |-> [parser EXCEPT !.candidate = value], out |-> <<>>]
         [] ~parser.inCall /\ found # {} ->
                Shows(parser, value, Min(found) - 1, TRUE)
         [] ~parser.inCall /\ found = {} /\ possible # {} ->
                Shows(parser, value, Min(possible) - 1, FALSE)
         [] OTHER -> Shows(parser, value, Len(value), FALSE)

----------------------------------------------------------------------------
\* The end of the stream: the text still held, the call, or the rule it broke.

Refused(rule) == [kind |-> "refused", rule |-> rule]

\* The value that follows the opening line, then the close, then no second
\* opening line on a line start; text after the close is dropped.
StreamedCall(buffer) ==
    LET block == Trim(buffer)
        valueAt == AfterBlank(block, Len(Opening) + 1)
        closeAt == AfterBlank(block, valueAt + 1)
        rest == SubSeq(block, closeAt + 1, Len(block))
    IN CASE \/ ~IsPrefix(Opening, block)
            \/ valueAt > Len(block)
            \/ block[valueAt] \notin JsonValues -> Refused("call_not_json")
         [] OTHER ->
            CASE closeAt > Len(block) \/ block[closeAt] # CloseTag ->
                    Refused("close_tag_not_after_call")
              [] OpeningStarts(rest, FALSE, <<>>) # {} -> Refused("second_call")
              [] block[valueAt] # "call" -> Refused(block[valueAt])
              [] OTHER -> [kind |-> "call"]

Finish(parser) ==
    IF parser.inCall THEN StreamedCall(parser.candidate)
    ELSE [kind |-> "text", text |-> parser.candidate]

=============================================================================

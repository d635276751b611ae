--------------------------- MODULE MCProviderTurn ---------------------------
EXTENDS ProviderTurn

call == Opening \o <<"call", CloseTag>>
fenceLine == <<Fence, Newline>>

\* Prose and blanks; a call alone, after prose, after blanks, with a remark
\* after it; one shown inside a fence, alone and before a real one; one in the
\* middle of a line; two calls; and blocks that break each rule.
MCResponses ==
    {<<"word", "space">>, <<Newline>>, <<"tag">>, call,
     <<"word", Newline>> \o call \o <<"word">>,
     <<"space", Newline>> \o call,
     fenceLine \o call \o <<Newline>> \o fenceLine,
     fenceLine \o call \o <<Newline>> \o fenceLine \o call,
     <<"word">> \o call,
     <<"word", OtherBreak>> \o fenceLine \o call,
     call \o <<Newline>> \o call,
     Opening, Opening \o <<"word">>, Opening \o <<"call", "word">>,
     Opening \o <<"unknown_tool", CloseTag>>}

MCBatches == {<<"a">>, <<"a", "b">>, <<"a", "a">>}
=============================================================================

------------------------------ MODULE MCCliRuns ------------------------------
(* Two flights of the probe; an image; a Grok round; and a round of a turn  *)
(* of which a background reap still has the child of an earlier round.      *)
EXTENDS CliRuns

CONSTANTS now, before, home

Pair(a, b) == [j \in {now, before} |-> IF j = now THEN a ELSE b]
MCKinds == {Pair("probe", "probe"), Pair("codex", "codex"), Pair("grok", "none"),
            Pair("image", "none")}
=============================================================================

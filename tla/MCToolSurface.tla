---------------------------- MODULE MCToolSurface ----------------------------
(***************************************************************************)
(* Three callers of one key, in the loop or beside one there in threads,   *)
(* who meet a CLI that had its last update; and two, who meet one that     *)
(* updates itself at any moment, in either way.                            *)
(***************************************************************************)
EXTENDS ToolSurface

CONSTANTS a1, a2, a3, a4, s1, s2

MeetingsValue ==
    [callers : {{a1, a2, a3}, {a4, s1, s2}}, build : {MaxBuild}, versioned : {TRUE}]
      \cup [callers : {{a1, a2}, {a4, s1}, {s1, s2}}, build : {0}, versioned : BOOLEAN]
=============================================================================

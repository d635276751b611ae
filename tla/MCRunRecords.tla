----------------------------- MODULE MCRunRecords -----------------------------
(* Two runs of two owners against a store that holds one ended record.      *)
EXTENDS RunRecords, TLC

RecordSymmetry == Permutations(Runs) \cup Permutations(Owners)
=============================================================================

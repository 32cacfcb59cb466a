----------------------------- MODULE MCIterate -----------------------------
(* Three keys; a prefix or pattern that lets all pass and one that lets one pass. *)
EXTENDS Iterate
MCKeys == 1 .. 3
MCMatches == {MCKeys, {2}}
=============================================================================

------------------------------ MODULE MCProxy ------------------------------
(***************************************************************************)
(* The proxy starts with n1.  One key moves to n2 and on to n3, the other  *)
(* only to n2, in whatever order the two are added.  A value with spaces   *)
(* around it arrives without them; one of nothing but spaces is refused.   *)
(***************************************************************************)
EXTENDS Proxy
CONSTANTS n1, n2, n3, k1, k2, plain, padded, blank
MCVHash == [n \in Nodes |-> <<CASE n = n1 -> 3 [] n = n2 -> 1 [] n = n3 -> 0>>]
MCKHash == [k \in Keys |-> IF k = k1 THEN 0 ELSE 1]
MCTransfer == [v \in Values |-> IF v = blank THEN None ELSE plain]
MCParts == [v \in Values |-> CASE v = blank -> {} [] v = plain -> {blank} [] v = padded -> {plain}]
MCInitial == <<n1>>
=============================================================================

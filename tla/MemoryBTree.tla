---------------------------- MODULE MemoryBTree ----------------------------
(***************************************************************************)
(* index/btree.go: the index in key order.  A tree maps every key to the   *)
(* position of its record, 0 when it has no entry; keys are numbers in the *)
(* order of bytes.Compare.  A scan of the tree is the set of keys it       *)
(* visits, smallest first when it ascends, greatest first when it          *)
(* descends; it holds the tree's lock, so that the tree stays as it is.    *)
(***************************************************************************)
EXTENDS Integers, FiniteSetsExt

Items(t) == {k \in DOMAIN t : t[k] # 0}

\* Mutant: the ends are confused, the start is left out and the end is not.
DescendRangeSwapped(t, s, e) == {k \in Items(t) : e <= k /\ k < s}

\* The range is half open in both directions: the end is left out.
AscendRange(t, s, e) == {k \in Items(t) : s <= k /\ k < e}
DescendRange(t, s, e) == {k \in Items(t) : e < k /\ k <= s}
AscendGreaterOrEqual(t, s) == {k \in Items(t) : s <= k}
DescendLessOrEqual(t, s) == {k \in Items(t) : k <= s}

\* The one of the keys S that comes first in the direction
First(S, reverse) == IF reverse THEN Max(S) ELSE Min(S)

\* memoryBTreeIterator over a clone of the tree; current is kept when an
\* iterator is not valid, as Seek does.
At(i, S) == IF S = {} THEN [i EXCEPT !.valid = FALSE]
            ELSE [i EXCEPT !.valid = TRUE, !.current = First(S, i.reverse)]

IterNew(t, reverse) ==
    At([tree |-> t, reverse |-> reverse, current |-> 0, valid |-> FALSE], Items(t))

IterRewind(i) == IF Items(i.tree) = {} THEN i ELSE At(i, Items(i.tree))

\* Nothing happens to an iterator that is not valid.
IterSeek(i, s) ==
    IF ~i.valid THEN i
    ELSE At(i, IF i.reverse THEN DescendLessOrEqual(i.tree, s) ELSE AscendGreaterOrEqual(i.tree, s))

\* Mutant: the current key is not skipped when descending.
IterNextAgain(i) ==
    IF ~i.valid THEN i
    ELSE At(i, IF i.reverse THEN DescendLessOrEqual(i.tree, i.current)
               ELSE AscendGreaterOrEqual(i.tree, i.current) \ {i.current})

\* Past the last key current is reset.
IterNext(i) ==
    IF ~i.valid THEN i
    ELSE LET j == At(i, (IF i.reverse THEN DescendLessOrEqual(i.tree, i.current)
                         ELSE AscendGreaterOrEqual(i.tree, i.current)) \ {i.current})
         IN  IF j.valid THEN j ELSE [j EXCEPT !.current = 0]
=============================================================================

---------------------------- MODULE ConsumerGroup ----------------------------
(***************************************************************************)
(* What the two command consumers rely on of a Redis consumer group: an    *)
(* XAUTOCLAIM page starts at a cursor and holds the first entries that     *)
(* have been idle long enough; the next cursor is 0 when the scan is over. *)
(* Entries are numbered in stream order.                                   *)
(***************************************************************************)
EXTENDS Naturals, FiniteSets, FiniteSetsExt

\* The count lowest entries of S.
Lowest(S, count) == {e \in S : Cardinality({x \in S : x < e}) < count}

ClaimedPage(idle, start, count) == Lowest({e \in idle : e >= start}, count)

\* Where the scan goes on after a page.
CursorAfter(pending, page, count) ==
    LET rest == {e \in pending : \A x \in page : e > x}
    IN  IF Cardinality(page) < count \/ rest = {} THEN 0 ELSE Min(rest)
==============================================================================

------------------------- MODULE ConsumerGroupProofs -------------------------
(***************************************************************************)
(* What both consumers need of a claim: the page holds idle entries, and   *)
(* the cursor of the next page is 0 or a pending entry.                    *)
(***************************************************************************)
EXTENDS ConsumerGroup, WellFoundedInduction, TLAPS

\* A nonempty set of numbers has a least one.
LEMMA MinOfNumbers ==
    ASSUME NEW S \in SUBSET Nat, S # {}
    PROVE  Min(S) \in S
  <1> DEFINE Less == OpToRel(<, Nat)
  <1>1. \E n \in S : \A k \in S : ~(<<k, n>> \in Less)
    <2>1. IsWellFoundedOn(Less, Nat)
      BY NatLessThanWellFounded
    <2> HIDE DEF Less
    <2> QED  BY <2>1, WFMin
  <1>2. PICK n \in S : \A k \in S : ~(<<k, n>> \in Less)
    BY <1>1
  <1>3. \A k \in S : ~(k < n)
    BY <1>2 DEF OpToRel
  <1>4. \E x \in S : \A y \in S : x =< y
    BY <1>3
  <1> QED  BY <1>4 DEF Min

\* A claimed page holds nothing but idle entries.
LEMMA PageIsIdle ==
    ASSUME NEW idle, NEW start, NEW count
    PROVE  ClaimedPage(idle, start, count) \subseteq idle
  BY DEF ClaimedPage, Lowest

\* The scan goes on inside the pending list, or starts over.
LEMMA CursorInRange ==
    ASSUME NEW n \in Nat, NEW pending \in SUBSET (0..n), NEW page, NEW count
    PROVE  CursorAfter(pending, page, count) \in 0..n
  <1> DEFINE rest == {e \in pending : \A x \in page : e > x}
  <1>1. rest \subseteq 0..n
    OBVIOUS
  <1>2. CursorAfter(pending, page, count) = 0 \/
        (rest # {} /\ CursorAfter(pending, page, count) = Min(rest))
    BY Zenon DEF CursorAfter
  <1> HIDE DEF rest
  <1>3. rest # {} => Min(rest) \in rest
    <2>1. rest \in SUBSET Nat
      BY <1>1
    <2> QED  BY <2>1, MinOfNumbers
  <1>4. 0 \in 0..n /\ (rest # {} => Min(rest) \in 0..n)
    <2>1. 0 \in 0..n
      OBVIOUS
    <2> QED  BY <1>1, <1>3, <2>1, Zenon
  <1> QED  BY <1>2, <1>4, Zenon
==============================================================================

----------------------------- MODULE LoopFacts ------------------------------
(***************************************************************************)
(* A loop over the entries of a journal, for the proofs about stores that  *)
(* replay one.  Origin is the state before the first entry, Turn(s, e) the *)
(* state that the entry e makes of s.                                      *)
(***************************************************************************)
EXTENDS Naturals, TLAPS
LOCAL INSTANCE WellFoundedInduction

CONSTANTS Origin, Turn(_, _)

\* The states after each of the first m entries of j.
Loop(j, m) ==
  LET after[n \in 0 .. m] == IF n = 0 THEN Origin ELSE Turn(after[n - 1], j[n])
  IN  after

\* f holds them.
After(f, j, m) == f = [n \in 0 .. m |-> IF n = 0 THEN Origin ELSE Turn(f[n - 1], j[n])]

\* A nonempty set of naturals has a least element.
LEMMA LeastNatural ==
  ASSUME NEW T \in SUBSET Nat, T # {}
  PROVE  \E x \in T : \A y \in T : x <= y
<1>1. PICK x \in T : \A y \in T : ~(<<y, x>> \in OpToRel(<, Nat))
  BY WFMin, NatLessThanWellFounded, Zenon
<1>2. ASSUME NEW y \in T PROVE x <= y
  <2>1. x \in Nat /\ y \in Nat
    OBVIOUS
  <2>2. ~(y < x)
    BY <1>1, <2>1 DEF OpToRel
  <2> QED
    BY <2>1, <2>2
<1> QED
  BY <1>2

\* The loop runs to the end of every journal.
LEMMA AfterExists ==
  ASSUME NEW j, NEW m \in Nat
  PROVE  \E f : After(f, j, m)
<1> DEFINE Bad == {n \in Nat : ~\E f : After(f, j, n)}
<1>1. ASSUME Bad # {} PROVE FALSE
  <2>1. PICK x \in Bad : \A y \in Bad : x <= y
    BY <1>1, LeastNatural
  <2>2. CASE x = 0
    <3> DEFINE f == [n \in 0 .. 0 |-> Origin]
    <3>1. After(f, j, 0)
      BY DEF After
    <3> QED
      BY <2>1, <2>2, <3>1
  <2>3. CASE x # 0
    <3>1. x \in Nat /\ x - 1 \in Nat /\ x - 1 \notin Bad
      BY <2>1, <2>3
    <3>2. PICK f : After(f, j, x - 1)
      BY <3>1
    <3> DEFINE g == [n \in 0 .. x |-> IF n = x THEN Turn(f[x - 1], j[x]) ELSE f[n]]
    <3>3. \A n \in 0 .. x - 1 : g[n] = f[n]
      BY <3>1
    <3>4. \A n \in 0 .. x - 1 : f[n] = IF n = 0 THEN Origin ELSE Turn(f[n - 1], j[n])
      BY <3>2, Zenon DEF After
    <3>5. ASSUME NEW n \in 0 .. x
          PROVE  g[n] = IF n = 0 THEN Origin ELSE Turn(g[n - 1], j[n])
      <4>1. CASE n = x
        BY <2>3, <3>1, <3>3, <4>1
      <4>2. CASE n # x /\ n = 0
        BY <3>1, <3>3, <3>4, <4>2
      <4>3. CASE n # x /\ n # 0
        <5>1. n \in 0 .. x - 1 /\ n - 1 \in 0 .. x - 1
          BY <3>1, <4>3
        <5> QED
          BY <3>3, <3>4, <4>3, <5>1
      <4> QED
        BY <4>1, <4>2, <4>3
    <3>6. g = [n \in 0 .. x |-> g[n]]
      OBVIOUS
    <3> HIDE DEF g
    <3>7. After(g, j, x)
      BY <3>5, <3>6, Zenon DEF After
    <3> QED
      BY <2>1, <3>7
  <2> QED
    BY <2>2, <2>3
<1> QED
  BY <1>1

\* What one turn of it does.
LEMMA LoopTurn ==
  ASSUME NEW j, NEW m \in Nat, NEW n \in 0 .. m
  PROVE  Loop(j, m)[n] = IF n = 0 THEN Origin ELSE Turn(Loop(j, m)[n - 1], j[n])
<1>1. After(Loop(j, m), j, m)
  BY AfterExists, Zenon DEF After, Loop
<1> QED
  BY <1>1, Zenon DEF After

\* The first m entries of i and j do the same, whatever the state.
SameTurns(i, j, m) == \A n \in 1 .. m : \A s : Turn(s, i[n]) = Turn(s, j[n])

\* The loop does the same on two such journals.
LEMMA LoopsAlike ==
  ASSUME NEW i, NEW j, NEW m \in Nat, NEW b \in Nat, m <= b,
         SameTurns(i, j, m)
  PROVE  \A n \in 0 .. m : Loop(i, m)[n] = Loop(j, b)[n]
<1> DEFINE f == Loop(i, m)  g == Loop(j, b)  Bad == {n \in 0 .. m : f[n] # g[n]}
<1>0. /\ \A n \in 0 .. m : f[n] = IF n = 0 THEN Origin ELSE Turn(f[n - 1], i[n])
      /\ \A n \in 0 .. b : g[n] = IF n = 0 THEN Origin ELSE Turn(g[n - 1], j[n])
  BY LoopTurn
<1> HIDE DEF f, g
<1>1. ASSUME Bad # {} PROVE FALSE
  <2>0. Bad \in SUBSET Nat
    OBVIOUS
  <2>1. PICK x \in Bad : \A y \in Bad : x <= y
    BY <1>1, <2>0, LeastNatural, Zenon
  <2>2. x \in 0 .. b /\ x \in 0 .. m
    BY <2>1
  <2>3. /\ f[x] = IF x = 0 THEN Origin ELSE Turn(f[x - 1], i[x])
        /\ g[x] = IF x = 0 THEN Origin ELSE Turn(g[x - 1], j[x])
    BY <1>0, <2>2
  <2>4. CASE x = 0
    BY <2>1, <2>3, <2>4
  <2>5. CASE x # 0
    <3>1. x \in 1 .. m /\ x - 1 \in 0 .. m /\ x - 1 \notin Bad
      BY <2>1, <2>2, <2>5
    <3>2. f[x - 1] = g[x - 1]
      BY <3>1
    <3>3. Turn(f[x - 1], i[x]) = Turn(g[x - 1], j[x])
      BY <3>1, <3>2, Zenon DEF SameTurns
    <3> QED
      BY <2>1, <2>3, <2>5, <3>3
  <2> QED
    BY <2>4, <2>5
<1> QED
  BY <1>1 DEF f, g

\* It does the same on two journals as far as they agree.
LEMMA LoopAgrees ==
  ASSUME NEW i, NEW j, NEW m \in Nat, NEW b \in Nat, m <= b,
         \A n \in 1 .. m : i[n] = j[n]
  PROVE  \A n \in 0 .. m : Loop(i, m)[n] = Loop(j, b)[n]
<1>1. SameTurns(i, j, m)
  BY Zenon DEF SameTurns
<1> QED
  BY <1>1, LoopsAlike
=============================================================================

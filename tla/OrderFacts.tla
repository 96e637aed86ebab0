----------------------------- MODULE OrderFacts -----------------------------
(***************************************************************************)
(* What the proofs need of the order of numbers and of the prefixes of a   *)
(* sequence.                                                               *)
(***************************************************************************)
EXTENDS Integers, SequencesExt, WellFoundedInduction, TLAPS

-----------------------------------------------------------------------------
(* Prefixes. *)

LEMMA PrefixPoints ==
    ASSUME NEW S, NEW s \in Seq(S), NEW t \in Seq(S)
    PROVE  IsPrefix(t, s) <=> Len(t) <= Len(s) /\ \A i \in 1..Len(t) : t[i] = s[i]
<1>1. SubSeq(t, 1, Len(t)) = t
  OBVIOUS
<1>2. ASSUME Len(t) <= Len(s)
      PROVE  SubSeq(s, 1, Len(t)) \in Seq(S) /\ Len(SubSeq(s, 1, Len(t))) = Len(t)
             /\ \A i \in 1..Len(t) : SubSeq(s, 1, Len(t))[i] = s[i]
  BY <1>2
<1>3. QED
  BY <1>1, <1>2 DEF IsPrefix

\* A strict prefix is shorter, what it is a prefix of has it too, and of two
\* strict prefixes of one sequence that are not the same, one is the other's.
LEMMA StrictPrefixes ==
    ASSUME NEW S, NEW s \in Seq(S), NEW t \in Seq(S), NEW u \in Seq(S)
    PROVE  /\ IsStrictPrefix(t, s) => Len(t) < Len(s)
           /\ IsStrictPrefix(t, s) /\ IsStrictPrefix(s, u) => IsStrictPrefix(t, u)
           /\ IsStrictPrefix(s, u) /\ IsStrictPrefix(t, u) =>
                  s = t \/ IsStrictPrefix(s, t) \/ IsStrictPrefix(t, s)
           /\ ~IsStrictPrefix(s, s)
<1>1. \A x, y \in Seq(S) : IsStrictPrefix(x, y)
          <=> Len(x) < Len(y) /\ \A i \in 1..Len(x) : x[i] = y[i]
  <2> SUFFICES ASSUME NEW x \in Seq(S), NEW y \in Seq(S)
               PROVE  IsStrictPrefix(x, y)
                      <=> Len(x) < Len(y) /\ \A i \in 1..Len(x) : x[i] = y[i]
    OBVIOUS
  <2>1. IsPrefix(x, y) <=> Len(x) <= Len(y) /\ \A i \in 1..Len(x) : x[i] = y[i]
    BY PrefixPoints
  <2>2. Len(x) = Len(y) /\ (\A i \in 1..Len(x) : x[i] = y[i]) => x = y
    OBVIOUS
  <2>3. QED
    BY <2>1, <2>2 DEF IsStrictPrefix
<1>2. /\ Len(s) \in Nat /\ Len(t) \in Nat /\ Len(u) \in Nat
  OBVIOUS
<1>3. IsStrictPrefix(t, s) /\ IsStrictPrefix(s, u) => IsStrictPrefix(t, u)
  BY <1>1, <1>2
<1>4. ASSUME IsStrictPrefix(s, u), IsStrictPrefix(t, u), s # t
      PROVE  IsStrictPrefix(s, t) \/ IsStrictPrefix(t, s)
  <2>1. Len(s) = Len(t) => s = t
    BY <1>1, <1>4
  <2>2. Len(s) < Len(t) => IsStrictPrefix(s, t)
    BY <1>1, <1>2, <1>4
  <2>3. Len(t) < Len(s) => IsStrictPrefix(t, s)
    BY <1>1, <1>2, <1>4
  <2>4. QED
    BY <1>2, <1>4, <2>1, <2>2, <2>3
<1>5. ~IsStrictPrefix(s, s)
  BY DEF IsStrictPrefix
<1>6. QED
  BY <1>1, <1>3, <1>4, <1>5

-----------------------------------------------------------------------------
(* The least of a set. *)

LEMMA LeastNat ==
    ASSUME NEW T \in SUBSET Nat, T # {}
    PROVE  \E x \in T : \A y \in T : x <= y
<1> DEFINE less == {ss \in Nat \X Nat : ss[1] < ss[2]}
<1>1. IsWellFoundedOn(less, Nat)
  BY NatLessThanWellFounded DEF OpToRel
<1>2. PICK x \in T : \A y \in T : <<y, x>> \notin less
  <2> HIDE DEF less
  <2> QED
    BY <1>1, WFMin
<1>3. ASSUME NEW y \in T, y < x PROVE FALSE
  <2>1. <<y, x>> \in less
    BY <1>3
  <2>2. QED
    BY <1>2, <2>1
<1>4. QED
  BY <1>3

LEMMA GreatestNat ==
    ASSUME NEW T \in SUBSET Nat, T # {}, NEW bound \in Nat, \A y \in T : y <= bound
    PROVE  \E x \in T : \A y \in T : y <= x
<1> DEFINE U == {bound - y : y \in T}
<1>1. \A y \in T : bound - y \in Nat
  OBVIOUS
<1>2. U \in SUBSET Nat /\ U # {}
  BY <1>1
<1>3. PICK u \in U : \A v \in U : u <= v
  <2> HIDE DEF U
  <2> QED
    BY <1>2, LeastNat
<1>4. PICK x \in T : u = bound - x
  OBVIOUS
<1>5. \A y \in T : bound - x <= bound - y
  BY <1>3, <1>4
<1>6. QED
  BY <1>5

-----------------------------------------------------------------------------
(* What is computed one step after another. *)

\* A set of positions that has the first, and with each the next, has all.
LEMMA EveryPosition ==
    ASSUME NEW n \in Nat, NEW P \in SUBSET (0..n), 0 \in P,
           \A i \in 1..n : i - 1 \in P => i \in P
    PROVE  P = 0..n
<1> DEFINE T == (0..n) \ P
<1> SUFFICES ASSUME T # {} PROVE FALSE
  OBVIOUS
<1>1. T \in SUBSET Nat
  OBVIOUS
<1> HIDE DEF T
<1>2. PICK x \in T : \A y \in T : x <= y
  BY <1>1, LeastNat
<1> USE DEF T
<1>3. x \in 1..n /\ x - 1 \in 0..n /\ x \notin P
  BY <1>2
<1>4. x - 1 \in P
  BY <1>2, <1>3
<1>5. QED
  BY <1>3, <1>4

\* A function whose value at each position the step makes of the one before.
Steps(f, n, S, base, step) ==
    f \in [0..n -> S] /\ f[0] = base /\ \A i \in 1..n : f[i] = step[i][f[i - 1]]

LEMMA StepByStep ==
    ASSUME NEW n \in Nat, NEW S, NEW base \in S, NEW step \in [1..n -> [S -> S]]
    PROVE  \E f : Steps(f, n, S, base, step)
<1> USE DEF Steps
<1> DEFINE Made(f, m) == Steps(f, m, S, base, step)
           P == {m \in 0..n : \E f \in [0..m -> S] : Made(f, m)}
<1>1. 0 \in P
  <2>1. Made([i \in 0..0 |-> base], 0)
    OBVIOUS
  <2>2. [i \in 0..0 |-> base] \in [0..0 -> S]
    OBVIOUS
  <2> HIDE DEF Made
  <2>3. QED
    BY <2>1, <2>2
<1>2. ASSUME NEW m \in 1..n, m - 1 \in P PROVE m \in P
  <2>1. PICK f \in [0..m - 1 -> S] : Made(f, m - 1)
    BY <1>2
  <2> DEFINE g == [i \in 0..m |-> IF i = m THEN step[m][f[m - 1]] ELSE f[i]]
  <2>2. m - 1 \in 0..m - 1 /\ f[m - 1] \in S
    OBVIOUS
  <2>3. step[m][f[m - 1]] \in S
    BY <2>2
  <2>4. g \in [0..m -> S] /\ \A i \in 0..m - 1 : g[i] = f[i]
    BY <2>3
  <2>5. g[0] = base
    BY <2>1, <2>4
  <2>6. g[m] = step[m][g[m - 1]]
    BY <2>2, <2>4
  <2>7. ASSUME NEW i \in 1..m - 1 PROVE g[i] = step[i][g[i - 1]]
    <3>1. i \in 0..m - 1 /\ i - 1 \in 0..m - 1
      OBVIOUS
    <3>2. f[i] = step[i][f[i - 1]]
      BY <2>1
    <3>3. QED
      BY <2>4, <3>1, <3>2
  <2> HIDE DEF g
  <2>8. \A i \in 1..m : g[i] = step[i][g[i - 1]]
    BY <2>6, <2>7
  <2>9. Made(g, m)
    BY <2>4, <2>5, <2>8
  <2> HIDE DEF Made
  <2>10. QED
    BY <2>4, <2>9
<1>3. P \in SUBSET (0..n)
  OBVIOUS
<1>4. P = 0..n
  <2> HIDE DEF P
  <2>1. QED
    BY <1>1, <1>2, <1>3, EveryPosition
<1>5. n \in P
  BY <1>4
<1>6. QED
  BY <1>5
=============================================================================

----------------------------- MODULE ArgvProofs -----------------------------
(***************************************************************************)
(* What ToolGrammar says the scanners promise of a command, proved for     *)
(* arguments of any number and texts of any length: first for every tool   *)
(* with getopt's grammar, then for find and bfs.                           *)
(*                                                                         *)
(* A scanner and the tool's own pass are two scans of the same tokens.     *)
(* They meet: a relation between what each has read so far, which says     *)
(* what the scanner answers in terms of the tool's reading, holds at the   *)
(* beginning and at every position both of them stop at, as long as the    *)
(* tool runs.  So each part shows what one token does to either side, by   *)
(* the kind of the token, and Lockstep does the rest.  Last, the profiles  *)
(* of the rule table are of the two kinds the theorems are about.          *)
(***************************************************************************)
EXTENDS ToolGrammar, OrderFacts, FiniteSetTheorems, TLAPS

-----------------------------------------------------------------------------
(* Scans. *)

Places(Acc) == (Nat \ {0}) \X Acc

\* A step that goes on from every token.
Advances(n, Acc, step) ==
    /\ step \in [(1..n) \X Acc -> Places(Acc)]
    /\ \A c \in (1..n) \X Acc : step[c][1] > c[1]

\* What a scan makes of a place it has come to.
FromStep(n, Acc, step, f) ==
    [c \in Places(Acc) |-> IF c[1] > n THEN c[2] ELSE f[step[c]]]
From(n, Acc, step) == CHOOSE f : f = FromStep(n, Acc, step, f)

LEMMA ScanIsFrom ==
    ASSUME NEW n, NEW Acc, NEW step, NEW first
    PROVE  Scan(n, Acc, step, first) = From(n, Acc, step)[<<1, first>>]
BY DEF Scan, From, FromStep, Places

LEMMA FromExists ==
    ASSUME NEW n \in Nat, NEW Acc, NEW step, Advances(n, Acc, step)
    PROVE  \E f : f = FromStep(n, Acc, step, f)
<1> DEFINE D == Places(Acc)
           S == [D -> Acc]
           base == [c \in D |-> c[2]]
           one(m, g) == [c \in D |-> IF c[1] = n + 1 - m THEN g[step[c]] ELSE g[c]]
           steps == [m \in 1..n |-> [g \in S |-> one(m, g)]]
<1>0. \A c \in D : c[1] \in Nat \ {0} /\ c[2] \in Acc /\ c = <<c[1], c[2]>>
  BY DEF Places
<1>1. base \in S
  BY <1>0
<1>2. \A m \in 1..n, c \in D : c[1] = n + 1 - m => c \in (1..n) \X Acc
  BY <1>0
<1>3. \A c \in (1..n) \X Acc : step[c] \in D /\ step[c][1] > c[1] /\ c \in D
  BY DEF Advances, Places
<1>4. \A m \in 1..n, g \in S : one(m, g) \in S
  BY <1>2, <1>3
<1>5. steps \in [1..n -> [S -> S]]
  BY <1>4
<1>6. \A m \in 1..n, g \in S : steps[m][g] = one(m, g)
  OBVIOUS
<1> HIDE DEF S, base, steps
<1>7. \E f : f \in [0..n -> S] /\ f[0] = base /\ \A m \in 1..n : f[m] = steps[m][f[m - 1]]
  <2>1. PICK f : Steps(f, n, S, base, steps)
    BY <1>1, <1>5, StepByStep
  <2>2. QED
    BY <2>1 DEF Steps
<1>8. PICK f : f \in [0..n -> S] /\ f[0] = base /\ \A m \in 1..n : f[m] = steps[m][f[m - 1]]
  BY <1>7
<1>9. \A m \in 1..n, c \in D :
          f[m][c] = IF c[1] = n + 1 - m THEN f[m - 1][step[c]] ELSE f[m - 1][c]
  <2> SUFFICES ASSUME NEW m \in 1..n, NEW c \in D
               PROVE  f[m][c] = IF c[1] = n + 1 - m THEN f[m - 1][step[c]] ELSE f[m - 1][c]
    OBVIOUS
  <2>1. m - 1 \in 0..n /\ f[m - 1] \in S
    BY <1>8
  <2>2. f[m] = one(m, f[m - 1])
    BY <1>6, <1>8, <2>1
  <2>3. QED
    BY <2>2
<1> DEFINE Right(m) == \A c \in D :
               /\ c[1] > n => f[m][c] = c[2]
               /\ n + 1 - m <= c[1] /\ c[1] <= n => f[m][c] = f[m][step[c]]
           P == {m \in 0..n : Right(m)}
<1>10. 0 \in P
  <2>1. Right(0)
    BY <1>0, <1>8 DEF base
  <2>2. QED
    BY <2>1
<1>11. ASSUME NEW m \in 1..n, m - 1 \in P PROVE m \in P
  <2>1. Right(m - 1)
    BY <1>11
  <2>2. ASSUME NEW c \in D PROVE c[1] > n + 1 - m => f[m][c] = f[m - 1][c]
    BY <1>0, <1>9
  <2>3. ASSUME NEW c \in D, c[1] > n PROVE f[m][c] = c[2]
    BY <1>0, <2>1, <2>2, <2>3
  <2>4. ASSUME NEW c \in D, n + 1 - m <= c[1], c[1] <= n PROVE f[m][c] = f[m][step[c]]
    <3>1. c \in (1..n) \X Acc
      BY <1>0, <2>4
    <3>2. step[c] \in D /\ step[c][1] > c[1] /\ step[c][1] \in Nat /\ c[1] \in Nat
      BY <1>0, <1>3, <3>1
    <3>3. f[m][step[c]] = f[m - 1][step[c]]
      BY <2>2, <2>4, <3>2
    <3>4. CASE c[1] = n + 1 - m
      BY <1>9, <3>3, <3>4
    <3>5. CASE c[1] # n + 1 - m
      <4>1. f[m][c] = f[m - 1][c]
        BY <1>9, <3>5
      <4>2. n + 1 - (m - 1) <= c[1]
        BY <2>4, <3>2, <3>5
      <4>3. f[m - 1][c] = f[m - 1][step[c]]
        BY <2>1, <2>4, <4>2
      <4>4. QED
        BY <3>3, <4>1, <4>3
    <3>6. QED
      BY <3>4, <3>5
  <2>5. Right(m)
    BY <2>3, <2>4
  <2>6. QED
    BY <2>5
<1>12. P \in SUBSET (0..n)
  OBVIOUS
<1>13. P = 0..n
  <2> HIDE DEF P
  <2>1. QED
    BY <1>10, <1>11, <1>12, EveryPosition
<1>14. Right(n)
  <2>1. n \in P
    BY <1>13
  <2>2. QED
    BY <2>1
<1> DEFINE g == f[n]
<1>15. g \in S
  BY <1>8
<1>16. \A c \in D : g[c] = IF c[1] > n THEN c[2] ELSE g[step[c]]
  BY <1>0, <1>14
<1>17. g = [c \in D |-> g[c]]
  BY <1>15 DEF S
<1> HIDE DEF g, D
<1>18. g = FromStep(n, Acc, step, g)
  BY <1>16, <1>17 DEF FromStep, D
<1>19. QED
  BY <1>18

LEMMA FromIs ==
    ASSUME NEW n \in Nat, NEW Acc, NEW step, Advances(n, Acc, step), NEW c \in Places(Acc)
    PROVE  From(n, Acc, step)[c] = IF c[1] > n THEN c[2] ELSE From(n, Acc, step)[step[c]]
<1> DEFINE f == From(n, Acc, step)
<1>1. f = FromStep(n, Acc, step, f)
  <2>1. \E g : g = FromStep(n, Acc, step, g)
    BY FromExists
  <2>2. QED
    BY <2>1 DEF From
<1> HIDE DEF f
<1>2. f[c] = IF c[1] > n THEN c[2] ELSE f[step[c]]
  BY <1>1 DEF FromStep
<1>3. QED
  BY <1>2 DEF f

\* Two scans side by side: where the second takes a step, the first takes one
\* too, if it has not ended.
Along(n, step, c) == IF c[1] > n THEN c ELSE step[c]

\* Sim holds of the two places as long as the second has not come to a result
\* in Bad.
Together(n, A, B, s, t, Sim, Bad) ==
    /\ Advances(n, A, s) /\ Advances(n, B, t)
    /\ Sim \subseteq Places(A) \X Places(B)
    /\ \A x \in Sim : x[2][1] > n => x[1][1] > n
    /\ \A x \in Sim : x[2][1] <= n =>
           \/ t[x[2]][1] > n /\ t[x[2]][2] \in Bad
           \/ <<Along(n, s, x[1]), t[x[2]]>> \in Sim

\* What two such scans come to: a bad result, or two that Sim holds of.
LEMMA TogetherTo ==
    ASSUME NEW n \in Nat, NEW A, NEW B, NEW s, NEW t, NEW Sim, NEW Bad,
           Together(n, A, B, s, t, Sim, Bad), NEW x \in Sim
    PROVE  \/ From(n, B, t)[x[2]] \in Bad
           \/ \E i, j \in Nat : /\ i > n /\ j > n
                  /\ <<<<i, From(n, A, s)[x[1]]>>, <<j, From(n, B, t)[x[2]]>>>> \in Sim
<1> DEFINE F == From(n, A, s)
           G == From(n, B, t)
           Done(y) == \/ G[y[2]] \in Bad
                      \/ \E i, j \in Nat : i > n /\ j > n
                             /\ <<<<i, F[y[1]]>>, <<j, G[y[2]]>>>> \in Sim
           P == {m \in 0..n : \A y \in Sim : y[2][1] >= n + 1 - m => Done(y)}
<1>1. ASSUME NEW y \in Sim
      PROVE  /\ y[1] \in Places(A) /\ y[2] \in Places(B)
             /\ y = <<y[1], y[2]>>
             /\ y[1] = <<y[1][1], y[1][2]>> /\ y[2] = <<y[2][1], y[2][2]>>
             /\ y[1][1] \in Nat \ {0} /\ y[2][1] \in Nat \ {0}
  BY DEF Together, Places
<1>2. \A c \in Places(A) : F[c] = IF c[1] > n THEN c[2] ELSE F[s[c]]
  BY FromIs DEF Together
<1>3. \A c \in Places(B) : G[c] = IF c[1] > n THEN c[2] ELSE G[t[c]]
  BY FromIs DEF Together
<1> HIDE DEF F, G
<1>4. ASSUME NEW y \in Sim, y[2][1] > n PROVE Done(y)
  <2>1. y[1][1] > n
    BY <1>4 DEF Together
  <2>2. F[y[1]] = y[1][2] /\ G[y[2]] = y[2][2]
    BY <1>1, <1>2, <1>3, <1>4, <2>1
  <2>3. <<<<y[1][1], F[y[1]]>>, <<y[2][1], G[y[2]]>>>> = y
    BY <1>1, <2>2
  <2>4. <<<<y[1][1], F[y[1]]>>, <<y[2][1], G[y[2]]>>>> \in Sim
    BY <2>3
  <2>5. y[1][1] \in Nat /\ y[2][1] \in Nat
    BY <1>1
  <2>6. QED
    BY <1>4, <2>1, <2>4, <2>5
<1>5. 0 \in P
  <2> HIDE DEF Done
  <2>1. \A y \in Sim : y[2][1] >= n + 1 - 0 => y[2][1] > n
    BY <1>1
  <2>2. QED
    BY <1>4, <2>1
<1>6. ASSUME NEW m \in 1..n, m - 1 \in P PROVE m \in P
  <2> SUFFICES ASSUME NEW y \in Sim, y[2][1] >= n + 1 - m PROVE Done(y)
    <3> HIDE DEF Done
    <3> QED
      OBVIOUS
  <2>1. CASE y[2][1] > n
    BY <1>4, <2>1
  <2>2. CASE y[2][1] <= n
    <3> DEFINE c == Along(n, s, y[1])
               d == t[y[2]]
    <3>1. y[2] \in (1..n) \X B
      BY <1>1, <2>2 DEF Places
    <3>2. d \in Places(B) /\ d[1] > y[2][1] /\ d[1] \in Nat \ {0} /\ d[2] \in B
      BY <3>1 DEF Together, Advances, Places
    <3>3. G[y[2]] = G[d]
      BY <1>1, <1>3, <2>2
    <3>4. F[y[1]] = F[c]
      <4>1. CASE y[1][1] > n
        BY <4>1 DEF Along
      <4>2. CASE ~(y[1][1] > n)
        BY <1>1, <1>2, <4>2 DEF Along
      <4>3. QED
        BY <4>1, <4>2
    <3>5. CASE d[1] > n /\ d[2] \in Bad
      BY <1>3, <3>2, <3>3, <3>5
    <3>6. CASE <<c, d>> \in Sim
      <4> HIDE DEF c, d
      <4>1. d[1] >= n + 1 - (m - 1)
        BY <1>1, <3>2
      <4>2. Done(<<c, d>>)
        BY <1>6, <3>6, <4>1
      <4>3. QED
        BY <3>3, <3>4, <4>2
    <3>7. QED
      BY <2>2, <3>5, <3>6 DEF Together
  <2>3. y[2][1] > n \/ y[2][1] <= n
    BY <1>1
  <2>4. QED
    BY <2>1, <2>2, <2>3
<1>7. P \in SUBSET (0..n)
  OBVIOUS
<1>8. P = 0..n
  <2> HIDE DEF P
  <2>1. QED
    BY <1>5, <1>6, <1>7, EveryPosition
<1>9. n \in P
  <2> HIDE DEF P
  <2>1. QED
    BY <1>8
<1>10. Done(x)
  <2>1. x[2][1] >= n + 1 - n
    BY <1>1
  <2>2. QED
    BY <1>9, <2>1
<1>11. QED
  BY <1>10 DEF F, G

LEMMA ScansMeet ==
    ASSUME NEW n \in Nat, NEW A, NEW B, NEW s, NEW t, NEW Sim, NEW Bad,
           Together(n, A, B, s, t, Sim, Bad), NEW a, NEW b, <<<<1, a>>, <<1, b>>>> \in Sim
    PROVE  \/ Scan(n, B, t, b) \in Bad
           \/ \E i, j \in Nat : /\ i > n /\ j > n
                  /\ <<<<i, Scan(n, A, s, a)>>, <<j, Scan(n, B, t, b)>>>> \in Sim
<1> DEFINE x == <<<<1, a>>, <<1, b>>>>
<1>1. x \in Sim /\ x[1] = <<1, a>> /\ x[2] = <<1, b>>
  OBVIOUS
<1> HIDE DEF x
<1>2. \/ From(n, B, t)[x[2]] \in Bad
      \/ \E i, j \in Nat : /\ i > n /\ j > n
             /\ <<<<i, From(n, A, s)[x[1]]>>, <<j, From(n, B, t)[x[2]]>>>> \in Sim
  BY <1>1, TogetherTo
<1>3. QED
  BY <1>1, <1>2, ScanIsFrom

\* Two scans that go from every token to the same place.
LEMMA Lockstep ==
    ASSUME NEW n \in Nat, NEW A, NEW B, NEW s, NEW t, NEW R \in SUBSET (A \X B), NEW Bad,
           Advances(n, A, s), Advances(n, B, t),
           \A i \in 1..n : \A x \in R :
               LET c == s[<<i, x[1]>>]
                   d == t[<<i, x[2]>>]
               IN  \/ d[1] > n /\ d[2] \in Bad
                   \/ c[1] = d[1] /\ <<c[2], d[2]>> \in R,
           NEW a, NEW b, <<a, b>> \in R
    PROVE  Scan(n, B, t, b) \in Bad \/ <<Scan(n, A, s, a), Scan(n, B, t, b)>> \in R
<1> DEFINE Sim == {x \in Places(A) \X Places(B) :
                      x[1][1] = x[2][1] /\ <<x[1][2], x[2][2]>> \in R}
<1>1. <<<<1, a>>, <<1, b>>>> \in Sim
  BY DEF Places
<1>2. ASSUME NEW x \in Sim, x[2][1] <= n
      PROVE  \/ t[x[2]][1] > n /\ t[x[2]][2] \in Bad
             \/ <<Along(n, s, x[1]), t[x[2]]>> \in Sim
  <2> DEFINE i == x[1][1]
             y == <<x[1][2], x[2][2]>>
             c == s[<<i, y[1]>>]
             d == t[<<i, y[2]>>]
  <2>1. /\ x[1] = <<i, y[1]>> /\ x[2] = <<i, y[2]>> /\ i \in 1..n /\ y \in R
        /\ y[1] \in A /\ y[2] \in B
    BY <1>2 DEF Places
  <2>2. \/ d[1] > n /\ d[2] \in Bad
        \/ c[1] = d[1] /\ <<c[2], d[2]>> \in R
    <3> HIDE DEF y, i
    <3> QED
      BY <2>1
  <2>3. c \in Places(A) /\ d \in Places(B)
    <3> HIDE DEF y, i
    <3> QED
      BY <2>1 DEF Advances
  <2>4. Along(n, s, x[1]) = c /\ t[x[2]] = d
    <3> HIDE DEF y
    <3> QED
      BY <2>1 DEF Along
  <2> HIDE DEF c, d
  <2>5. QED
    BY <2>2, <2>3, <2>4
<1>3. Together(n, A, B, s, t, Sim, Bad)
  <2>1. \A x \in Sim : x[2][1] > n => x[1][1] > n
    OBVIOUS
  <2>2. Sim \subseteq Places(A) \X Places(B)
    OBVIOUS
  <2> HIDE DEF Sim
  <2>3. QED
    BY <1>2, <2>1, <2>2 DEF Together
<1>4. \/ Scan(n, B, t, b) \in Bad
      \/ \E i, j \in Nat : /\ i > n /\ j > n
             /\ <<<<i, Scan(n, A, s, a)>>, <<j, Scan(n, B, t, b)>>>> \in Sim
  <2> HIDE DEF Sim
  <2> QED
    BY <1>1, <1>3, ScansMeet
<1>5. QED
  BY <1>4

\* What no step of a scan changes.
LEMMA ScanKeeps ==
    ASSUME NEW n \in Nat, NEW A, NEW s, Advances(n, A, s), NEW Q \in SUBSET A,
           \A i \in 1..n : \A q \in Q : s[<<i, q>>][2] \in Q,
           NEW a \in Q
    PROVE  Scan(n, A, s, a) \in Q
<1> DEFINE R == {x \in A \X A : x[1] = x[2] /\ x[1] \in Q}
           none == {}
<1>1. \A i \in 1..n : \A x \in R :
          LET c == s[<<i, x[1]>>]
              d == s[<<i, x[2]>>]
          IN  \/ d[1] > n /\ d[2] \in none
              \/ c[1] = d[1] /\ <<c[2], d[2]>> \in R
  OBVIOUS
<1>2. R \in SUBSET (A \X A) /\ <<a, a>> \in R
  OBVIOUS
<1> HIDE DEF R, none
<1>3. Scan(n, A, s, a) \in none \/ <<Scan(n, A, s, a), Scan(n, A, s, a)>> \in R
  BY <1>1, <1>2, Lockstep
<1>4. QED
  BY <1>3 DEF R, none

-----------------------------------------------------------------------------
(* Commands that the theorems are about. *)

\* A flag is one letter or one name.
IsFlag(f) == f = Long(f.name) \/ \E x \in Letter : f = Short(<<x>>)

Switches(p) == p.recFlags \cup p.deviceFlags \cup p.deviceOff

\* A tool with getopt's grammar: every option either takes a value or does not,
\* and sets one thing.
GetoptTool(p) ==
    /\ p.rootMode \in {"positional", "stdin"} /\ p.clusterLetters = {}
    /\ \A f \in ValueFlags(p) \cup Switches(p) : IsFlag(f)
    /\ p.recValue \cup p.cwdFlags \cup p.execFlags \subseteq ValueFlags(p)
    /\ ValueFlags(p) \cap Switches(p) = {}
    /\ p.recFlags \cap (p.deviceFlags \cup p.deviceOff) = {}
    /\ p.deviceFlags \cap p.deviceOff = {}
    /\ p.depthFlags \cap (p.patFlags \cup p.rootFlags \cup p.recValue \cup p.cwdFlags) = {}
    /\ p.patFlags \cap (p.rootFlags \cup p.recValue \cup p.cwdFlags) = {}
    /\ p.rootFlags \cap (p.recValue \cup p.cwdFlags) = {}
    /\ \A f \in p.rootFlags \cup p.cwdFlags \cup p.deviceOff : f.kind = "long"
    /\ \A f \in p.execFlags : f.kind = "short"
    \* Abbreviations: an exact name is no flag's, a flag's name begins no other.
    /\ \A f \in ValueFlags(p) \cup Switches(p) :
           f.kind = "long" => f.name \notin p.exact /\ Longer(f.name) = {}
    /\ p.abbreviates => p.depthFlags = {} /\ p.cwdFlags = {}
    \* Digits that are depths.
    /\ p.depthDigits # {} => p.deviceFlags = {} /\ p.deviceOff = {}
    /\ \A f \in ValueFlags(p) : \A x \in p.depthDigits : f # Short(<<x>>)
    \* The directory action.
    /\ p.dirAction \in Actions
    /\ p.defaultDepth # NoDepth => p.dirAction # "none"
    /\ p.dirAction = "none" => p.recFlags = {} /\ p.recValue = {}
    /\ p.dirAction # "none" =>
           /\ Short(<<"r">>) \in p.recFlags /\ p.recValue # {}
           /\ p.execFlags = {}
           /\ \A f \in p.recFlags : f.kind = "short" => f = Short(<<"r">>)

\* No depth comes before a letter that takes a value.
Legible(p, t) ==
    p.depthDigits # {} =>
        \A j \in 1..Eater(p, t) : j < Eater(p, t) => t.text[j] \notin DOMAIN Numeral

\* What it may be given.
IsToken(p, t) ==
    \/ t = Word(t.text) /\ t.text \in Seq(Atom)
    \/ t = DashDash
    \/ t = LongIs(t.name, t.text) /\ t.text \in Text
    \/ t = Short(t.text) /\ t.text \in Seq(Atom) /\ t.text # << >> /\ Legible(p, t)

-----------------------------------------------------------------------------
(* What a token says to each question of the scanners. *)

LEMMA TextFacts ==
    /\ NoText \notin Seq(Atom) /\ Seq(Atom) \subseteq Text /\ NoText \in Text
    /\ \A t : t.kind = "word" /\ t.text \in Seq(Atom) => ValueOf(t) \in Seq(Atom)
    /\ \A t : t.kind # "word" => ValueOf(t) \in Seq(Atom)
    /\ \A x \in Letter : x \in Atom
    /\ {"-", ","} \subseteq Atom
<1>1. "no text" \notin Atom /\ "an option" \in Atom /\ {"-", ","} \subseteq Atom
      /\ \A x \in Letter : x \in Atom
  BY AtomAssumption
<1>2. NoText \notin Seq(Atom)
  <2>1. Len(NoText) = 1 /\ NoText[1] = "no text"
    BY DEF NoText
  <2>2. ASSUME NoText \in Seq(Atom) PROVE FALSE
    <3>1. \A s \in Seq(Atom) : Len(s) = 1 => s[1] \in Atom
      OBVIOUS
    <3>2. QED
      BY <1>1, <2>1, <2>2, <3>1
  <2>3. QED
    BY <2>2
<1>3. <<"an option">> \in Seq(Atom)
  <2>1. \A x \in Atom : <<x>> \in Seq(Atom)
    OBVIOUS
  <2>2. QED
    BY <1>1, <2>1
<1>4. QED
  BY <1>1, <1>2, <1>3 DEF Text, ValueOf

LEMMA Kinds ==
    /\ \A x : Short(x).kind = "short" /\ Short(x).text = x /\ Short(x).name = ""
    /\ \A x : Word(x).kind = "word" /\ Word(x).text = x
    /\ \A x, y : LongIs(x, y).kind = "long" /\ LongIs(x, y).name = x /\ LongIs(x, y).text = y
    /\ \A x : Long(x).kind = "long" /\ Long(x).name = x /\ Long(x).text = NoText
    /\ DashDash.kind = "dashdash" /\ None.kind = "none"
    /\ NoText # << >>
BY DEF Short, Word, LongIs, Long, DashDash, None, Token, NoText

LEMMA SameShort == \A x, y : Short(x) = Short(y) <=> x = y
<1> SUFFICES ASSUME NEW x, NEW y, Short(x) = Short(y) PROVE x = y
  OBVIOUS
<1>1. Short(x).text = x /\ Short(y).text = y
  BY Kinds
<1>2. QED
  BY <1>1

LEMMA SameLong == \A x, y : Long(x) = Long(y) <=> x = y
<1> SUFFICES ASSUME NEW x, NEW y, Long(x) = Long(y) PROVE x = y
  OBVIOUS
<1>1. Long(x).name = x /\ Long(y).name = y
  BY Kinds
<1>2. QED
  BY <1>1

LEMMA FlagFacts ==
    ASSUME NEW f, IsFlag(f)
    PROVE  /\ f.kind \in {"short", "long"} /\ f # None /\ f # DashDash
           /\ f.kind = "long" => f = Long(f.name) /\ f.text = NoText
           /\ f.kind = "short" => \E x \in Letter : f = Short(<<x>>) /\ f.text = <<x>>
<1>1. CASE f = Long(f.name)
  <2>1. f.kind = "long" /\ f.text = NoText
    BY <1>1 DEF Long, LongIs, Token
  <2>2. QED
    BY <1>1, <2>1, Kinds
<1>2. CASE \E x \in Letter : f = Short(<<x>>)
  <2>1. PICK x \in Letter : f = Short(<<x>>)
    BY <1>2
  <2>2. f.kind = "short" /\ f.text = <<x>>
    BY <2>1, Kinds
  <2>3. QED
    BY <2>1, <2>2, Kinds
<1>3. QED
  BY <1>1, <1>2 DEF IsFlag

LEMMA TokenKinds ==
    ASSUME NEW p, NEW t, IsToken(p, t)
    PROVE  /\ t.kind \in {"word", "dashdash", "long", "short"}
           /\ t.kind = "word" => t.text \in Seq(Atom) /\ t # DashDash
           /\ t.kind = "dashdash" <=> t = DashDash
           /\ t.kind = "long" => t = LongIs(t.name, t.text) /\ t.text \in Text
           /\ t.kind = "short" => /\ t = Short(t.text) /\ t.text \in Seq(Atom) /\ t.text # << >>
                                  /\ Legible(p, t)
           /\ ValueOf(t) \in Seq(Atom) /\ ValueOf(t) # NoText
<1>1. /\ t.kind \in {"word", "dashdash", "long", "short"}
      /\ t.kind = "word" => t.text \in Seq(Atom) /\ t # DashDash
      /\ t.kind = "dashdash" <=> t = DashDash
      /\ t.kind = "long" => t = LongIs(t.name, t.text) /\ t.text \in Text
      /\ t.kind = "short" => /\ t = Short(t.text) /\ t.text \in Seq(Atom) /\ t.text # << >>
                             /\ Legible(p, t)
  <2>1. CASE t = Word(t.text) /\ t.text \in Seq(Atom)
    <3>1. Word(t.text).kind = "word" /\ DashDash.kind = "dashdash"
      BY Kinds
    <3>2. t.kind = "word" /\ t # DashDash
      BY <2>1, <3>1
    <3>3. QED
      BY <2>1, <3>2
  <2>2. CASE t = DashDash
    BY <2>2, Kinds
  <2>3. CASE t = LongIs(t.name, t.text) /\ t.text \in Text
    <3>1. t.kind = "long"
      BY <2>3 DEF LongIs, Token
    <3>2. DashDash.kind = "dashdash"
      BY Kinds
    <3>3. t # DashDash
      BY <3>1, <3>2
    <3>4. QED
      BY <2>3, <3>1, <3>3
  <2>4. CASE t = Short(t.text) /\ t.text \in Seq(Atom) /\ t.text # << >> /\ Legible(p, t)
    <3>1. Short(t.text).kind = "short" /\ DashDash.kind = "dashdash"
      BY Kinds
    <3>2. t.kind = "short" /\ t # DashDash
      BY <2>4, <3>1
    <3>3. QED
      BY <2>4, <3>2
  <2>5. QED
    BY <2>1, <2>2, <2>3, <2>4 DEF IsToken
<1>2. ValueOf(t) \in Seq(Atom)
  BY <1>1, TextFacts
<1>3. QED
  BY <1>1, <1>2, TextFacts

\* A token that is no option is no flag.
LEMMA PlainToken ==
    ASSUME NEW p, NEW t, t.kind \notin {"short", "long"}
    PROVE  /\ \A f : IsFlag(f) => t # f
           /\ \A F : Resolve(p, t, F) = None /\ ~GluedTo(t, F) /\ ~AttachedTo(t, F)
           /\ Cluster(p, t) = NoCluster
<1>1. \A f : IsFlag(f) => t # f
  BY FlagFacts
<1>2. Cluster(p, t) = NoCluster
  BY DEF Cluster
<1>3. ASSUME NEW F PROVE Resolve(p, t, F) = None /\ ~GluedTo(t, F) /\ ~AttachedTo(t, F)
  BY DEF Resolve, GluedTo, AttachedTo
<1>4. QED
  BY <1>1, <1>2, <1>3

-----------------------------------------------------------------------------
(* Long options. *)

LEMMA OneOf ==
    ASSUME NEW S
    PROVE  Cardinality(S) = 1 /\ IsFiniteSet(S) => \E x : S = {x}
BY FS_Singleton

Flags(p) == ValueFlags(p) \cup Switches(p)

LEMMA FewNames ==
    ASSUME NEW S, NEW name,
           \A f \in S : f = Long(f.name) /\ f.name \in Longer(name)
    PROVE  IsFiniteSet(S)
<1> DEFINE one(x) == {Long(x)}
           all == one("directories") \cup (one("recursive") \cup (one("regexp") \cup
                      (one("binary-files") \cup one("time-style"))))
<1>1. \A x : IsFiniteSet(one(x))
  BY FS_Singleton
<1>2. Longer(name) \subseteq {"directories", "recursive", "regexp", "binary-files", "time-style"}
  BY DEF Longer
<1>3. S \subseteq all
  BY <1>2
<1> HIDE DEF one
<1>4. IsFiniteSet(all)
  BY <1>1, FS_Union
<1> HIDE DEF all
<1>5. QED
  BY <1>3, <1>4, FS_Subset

\* However a long option is spelled, it is looked up as the option it means.
LEMMA LongMeans ==
    ASSUME NEW p, GetoptTool(p), NEW t, t.kind = "long", t = LongIs(t.name, t.text),
           NEW F \in SUBSET Flags(p)
    PROVE  /\ Meant(p, t) # None =>
                  (Meant(p, t) \in F <=> Long(t.name) \in F \/ Resolve(p, t, F) # None)
           /\ ~p.abbreviates => Resolve(p, t, F) = None
<1> DEFINE m == Meant(p, t)
           longer == {f \in Options(p) : f.kind = "long" /\ f.name \in Longer(t.name)}
           matches == {f \in F : f.kind = "long" /\ f.name \in {t.name} \cup Longer(t.name)}
<1>1. \A f \in F : IsFlag(f) /\ f \in Options(p) /\ f # None
                   /\ (f.kind = "long" => f = Long(f.name) /\ f.name \notin p.exact
                                          /\ Longer(f.name) = {})
  <2>1. \A f \in F : IsFlag(f) /\ f \in Options(p)
                   /\ (f.kind = "long" => f.name \notin p.exact /\ Longer(f.name) = {})
    BY DEF GetoptTool, Flags, Switches, Options
  <2>2. QED
    BY <2>1, FlagFacts
<1>2. ~p.abbreviates => Resolve(p, t, F) = None
  BY DEF Resolve
<1>3. Resolve(p, t, F) = IF p.abbreviates /\ t.name \notin p.exact /\ Cardinality(matches) = 1
                         THEN CHOOSE f \in matches : TRUE ELSE None
  BY DEF Resolve
<1>4. Long(t.name).kind = "long" /\ Long(t.name).name = t.name
  BY Kinds
<1>5. \A x : {x} # {} /\ (CHOOSE f \in {x} : TRUE) = x /\ Cardinality({x}) = 1
  BY FS_Singleton
<1>6. Cardinality({}) = 0
  BY FS_EmptySet
<1>7. CASE Long(t.name) \in Options(p)
  <2>1. m = Long(t.name)
    BY <1>7 DEF Meant
  <2>2. CASE Long(t.name) \in F
    BY <1>1, <1>2, <2>1, <2>2
  <2>3. CASE Long(t.name) \notin F
    <3>1. Resolve(p, t, F) = None
      <4>1. CASE t.name \in p.exact
        BY <1>3, <4>1
      <4>2. CASE t.name \notin p.exact
        <5>1. Long(t.name) \in Flags(p)
          <6>1. \A n \in p.exact : Long(t.name) # Long(n)
            BY <4>2, SameLong
          <6>2. QED
            BY <1>7, <6>1 DEF Options, Flags, Switches, GetoptTool
        <5>2. Longer(t.name) = {}
          BY <5>1, <1>4 DEF Flags, GetoptTool
        <5>3. matches = {}
          BY <1>1, <2>3, <5>2
        <5>4. QED
          BY <1>3, <1>6, <5>3
      <4>3. QED
        BY <4>1, <4>2
    <3>2. QED
      BY <2>1, <2>3, <3>1
  <2>4. QED
    BY <1>2, <2>2, <2>3
<1>8. CASE Long(t.name) \notin Options(p) /\ m # None
  <2>1. p.abbreviates /\ Cardinality(longer) = 1 /\ m = CHOOSE f \in longer : TRUE
    BY <1>8 DEF Meant
  <2>2. t.name \notin p.exact /\ Long(t.name) \notin F
    BY <1>1, <1>8 DEF Options
  <2>3. \A f \in longer : f = Long(f.name) /\ f.name \in Longer(t.name)
    <3>1. \A f \in Options(p) : f \in Flags(p) \/ \E n \in p.exact : f = Long(n)
      <4>1. p.recValue \subseteq ValueFlags(p)
        BY DEF GetoptTool
      <4>2. QED
        BY <4>1 DEF Options, Flags, Switches
    <3>2. \A f \in Flags(p) : IsFlag(f)
      BY DEF GetoptTool, Flags
    <3>3. \A f \in Flags(p) : f.kind = "long" => f = Long(f.name)
      BY <3>2, FlagFacts
    <3>4. \A n : Long(n) = Long(Long(n).name)
      BY Kinds
    <3>5. QED
      BY <3>1, <3>3, <3>4
  <2>4. IsFiniteSet(longer)
    <3> HIDE DEF longer
    <3> QED
      BY <2>3, FewNames
  <2>5. PICK x : longer = {x}
    <3> HIDE DEF longer
    <3> QED
      BY <2>1, <2>4, OneOf
  <2>6. m = x
    BY <1>5, <2>1, <2>5
  <2>7. matches = longer \cap F
    BY <1>1, <2>2
  <2> HIDE DEF longer, matches, m
  <2>8. CASE m \in F
    <3>1. matches = {m}
      BY <2>5, <2>6, <2>7, <2>8
    <3>2. Resolve(p, t, F) = m
      BY <1>3, <1>5, <2>1, <2>2, <3>1
    <3>3. QED
      BY <1>1, <1>2, <2>8, <3>2 DEF m
  <2>9. CASE m \notin F
    <3>1. matches = {}
      BY <2>5, <2>6, <2>7, <2>9
    <3>2. Resolve(p, t, F) = None
      BY <1>3, <1>6, <3>1
    <3>3. QED
      BY <1>2, <2>2, <2>9, <3>2 DEF m
  <2>10. QED
    BY <2>8, <2>9
<1>9. QED
  BY <1>2, <1>7, <1>8

\* A long option among the flags, and with its value attached.
LEMMA LongIn ==
    ASSUME NEW p, GetoptTool(p), NEW t, t.kind = "long", t = LongIs(t.name, t.text),
           NEW F \in SUBSET Flags(p)
    PROVE  /\ t \in F <=> t.text = NoText /\ Long(t.name) \in F
           /\ AttachedTo(t, F) <=> t.text # NoText /\ Long(t.name) \in F
           /\ ~GluedTo(t, F) /\ Cluster(p, t) = NoCluster
           /\ t # DashDash
<1>1. \A f \in F : IsFlag(f)
  BY DEF GetoptTool, Flags
<1>2. \A f \in F : f.kind = "long" => f.text = NoText
  BY <1>1, FlagFacts
<1>3. t.text = NoText => t = Long(t.name)
  BY DEF Long
<1>4. Long(t.name).text = NoText
  BY Kinds
<1>5. QED
  BY <1>2, <1>3, <1>4, Kinds DEF AttachedTo, GluedTo, Cluster

-----------------------------------------------------------------------------
(* Short options. *)

LEMMA LeastIs ==
    ASSUME NEW S \in SUBSET Nat
    PROVE  /\ S # {} => Min(S) \in S /\ \A y \in S : Min(S) <= y
           /\ \A x \in S : (\A y \in S : x <= y) => Min(S) = x
<1>1. ASSUME S # {} PROVE Min(S) \in S /\ \A y \in S : Min(S) <= y
  <2>1. \E x \in S : \A y \in S : x <= y
    BY <1>1, LeastNat
  <2>2. QED
    BY <2>1 DEF Min
<1>2. ASSUME NEW x \in S, \A y \in S : x <= y PROVE Min(S) = x
  <2>1. Min(S) <= x /\ x <= Min(S) /\ Min(S) \in Nat /\ x \in Nat
    BY <1>1, <1>2
  <2>2. QED
    BY <2>1
<1>3. QED
  BY <1>1, <1>2

LEMMA EaterIs ==
    ASSUME NEW p, NEW t, t.text \in Seq(Atom)
    PROVE  LET k == Eater(p, t)
               takes(i) == Short(<<t.text[i]>>) \in ValueFlags(p)
           IN  /\ k \in 0..Len(t.text)
               /\ k > 0 => takes(k)
               /\ \A i \in 1..Len(t.text) : k = 0 \/ i < k => ~takes(i)
<1> DEFINE n == Len(t.text)
           takes(i) == Short(<<t.text[i]>>) \in ValueFlags(p)
           eating == {i \in 1..n : takes(i)}
           k == Eater(p, t)
<1>1. n \in Nat
  OBVIOUS
<1>2. k = IF eating = {} THEN 0 ELSE Min(eating)
  BY DEF Eater
<1>3. eating \in SUBSET Nat
  BY <1>1
<1>4. eating # {} => k \in eating /\ \A i \in eating : k <= i
  <2> HIDE DEF eating, k
  <2> QED
    BY <1>2, <1>3, LeastIs
<1>5. /\ k \in 0..n /\ (k > 0 => takes(k))
      /\ \A i \in 1..n : k = 0 \/ i < k => ~takes(i)
  <2> HIDE DEF k, takes, n
  <2>1. CASE eating = {}
    BY <1>1, <1>2, <2>1
  <2>2. CASE eating # {}
    <3>1. k \in 1..n /\ takes(k) /\ \A i \in eating : k <= i
      BY <1>4, <2>2
    <3>2. \A i \in 1..n : takes(i) => i \in eating
      OBVIOUS
    <3>3. k # 0 /\ k \in Nat /\ \A i \in 1..n : takes(i) => ~(i < k)
      BY <1>1, <3>1, <3>2
    <3>4. QED
      BY <3>1, <3>3, <1>1
  <2>3. QED
    BY <2>1, <2>2
<1>6. QED
  BY <1>5

\* A cluster is read as its tool does: the letters up to the one that takes a
\* value, and the value.
Glued(p, t) ==
    IF Eater(p, t) = Len(t.text) THEN NoText
    ELSE SubSeq(t.text, Eater(p, t) + 1, Len(t.text))

LEMMA ClusterIs ==
    ASSUME NEW p, GetoptTool(p), NEW t, IsToken(p, t), t.kind = "short"
    PROVE  LET k == Eater(p, t)
               n == Len(t.text)
           IN  Cluster(p, t) =
                   IF k = 0 THEN [NoCluster EXCEPT !.letters = t.text]
                   ELSE [letters |-> SubSeq(t.text, 1, k), flag |-> Short(<<t.text[k]>>),
                         glued |-> Glued(p, t), next |-> k = n]
<1> DEFINE n == Len(t.text)
           k == Eater(p, t)
           takes(i) == Short(<<t.text[i]>>) \in ValueFlags(p)
           eating == {i \in 1..n : t.text[i] \in Letter /\ takes(i)}
<1>1. t.text \in Seq(Atom) /\ n \in Nat
  BY TokenKinds
<1>2. k \in 0..n /\ (k > 0 => takes(k)) /\ \A i \in 1..n : k = 0 \/ i < k => ~takes(i)
  BY <1>1, EaterIs
<1>3. k > 0 => t.text[k] \in Letter
  <2>1. SUFFICES ASSUME k > 0 PROVE t.text[k] \in Letter
    OBVIOUS
  <2> DEFINE f == Short(<<t.text[k]>>)
  <2>2. f \in ValueFlags(p)
    BY <1>2, <2>1
  <2>3. f.kind = "short" /\ f.text = <<t.text[k]>>
    BY Kinds
  <2> HIDE DEF f, k
  <2>4. IsFlag(f)
    BY <2>2 DEF GetoptTool
  <2>5. PICK x \in Letter : f.text = <<x>>
    BY <2>3, <2>4, FlagFacts
  <2>6. <<t.text[k]>>[1] = <<x>>[1]
    BY <2>3, <2>5
  <2>7. QED
    BY <2>6
<1>4. eating \in SUBSET Nat
  BY <1>1
<1>5. p.clusterLetters = {}
  BY DEF GetoptTool
<1> HIDE DEF n, k, takes
<1>6. CASE k = 0
  <2>1. eating = {}
    BY <1>2, <1>6
  <2>2. QED
    BY <1>5, <1>6, <2>1 DEF Cluster, n, k, takes
<1>7. CASE k > 0
  <2>1. k \in eating
    BY <1>1, <1>2, <1>3, <1>7
  <2>2. \A i \in eating : k <= i
    BY <1>1, <1>2, <1>7
  <2>3. Min(eating) = k /\ eating # {}
    <3> HIDE DEF eating
    <3> QED
      BY <1>4, <2>1, <2>2, LeastIs
  <2>4. Cluster(p, t) =
            LET i == Min(eating)
            IN  [letters |-> SubSeq(t.text, 1, i), flag |-> Short(<<t.text[i]>>),
                 glued |-> IF i = n THEN NoText ELSE SubSeq(t.text, i + 1, n),
                 next |-> i = n]
    <3>1. eating # {}
      BY <2>3
    <3>2. Cluster(p, t) =
              IF eating # {}
              THEN LET i == Min(eating)
                   IN  [letters |-> SubSeq(t.text, 1, i), flag |-> Short(<<t.text[i]>>),
                        glued |-> IF i = n THEN NoText ELSE SubSeq(t.text, i + 1, n),
                        next |-> i = n]
              ELSE [NoCluster EXCEPT !.letters = t.text]
      BY <1>5 DEF Cluster, n, takes
    <3> HIDE DEF eating
    <3>3. QED
      BY <3>1, <3>2
  <2>5. QED
    <3> HIDE DEF eating
    <3> QED
      BY <1>7, <2>3, <2>4 DEF Glued, k, n
<1>8. QED
  BY <1>1, <1>2, <1>6, <1>7 DEF k, n

LEMMA ClusterFields ==
    ASSUME NEW p, GetoptTool(p), NEW t, IsToken(p, t), t.kind = "short"
    PROVE  LET k == Eater(p, t)
               c == Cluster(p, t)
           IN  /\ k = 0 => /\ c.letters = t.text /\ c.flag = None /\ c.glued = NoText
                           /\ c.next = FALSE
               /\ k # 0 => /\ c.letters = SubSeq(t.text, 1, k)
                           /\ c.flag = Short(<<t.text[k]>>) /\ c.glued = Glued(p, t)
                           /\ (c.next <=> k = Len(t.text))
<1> DEFINE k == Eater(p, t)
           c == Cluster(p, t)
           letters == SubSeq(t.text, 1, k)
           flag == Short(<<t.text[k]>>)
           glued == Glued(p, t)
           next == k = Len(t.text)
<1>1. c = IF k = 0 THEN [NoCluster EXCEPT !.letters = t.text]
          ELSE [letters |-> letters, flag |-> flag, glued |-> glued, next |-> next]
  BY ClusterIs
<1> HIDE DEF c, k, letters, flag, glued, next
<1>2. k = 0 => /\ c.letters = t.text /\ c.flag = None /\ c.glued = NoText /\ c.next = FALSE
  BY <1>1 DEF NoCluster
<1>3. k # 0 => /\ c.letters = letters /\ c.flag = flag /\ c.glued = glued /\ c.next = next
  BY <1>1
<1>4. k # 0 => (c.next <=> next)
  BY <1>3
<1>5. QED
  BY <1>2, <1>3, <1>4 DEF c, k, letters, flag, glued, next

\* A short option among the flags, alone or with its value glued on.
LEMMA ShortSize ==
    ASSUME NEW p, NEW t, IsToken(p, t), t.kind = "short"
    PROVE  /\ Len(t.text) \in Nat /\ Len(t.text) >= 1 /\ Eater(p, t) \in 0..Len(t.text)
           /\ Eater(p, t) > 0 => Short(<<t.text[Eater(p, t)]>>) \in ValueFlags(p)
           /\ t # DashDash
           /\ \A F : Resolve(p, t, F) = None /\ ~AttachedTo(t, F)
<1>1. t.text \in Seq(Atom) /\ t.text # << >> /\ t # DashDash
  BY TokenKinds
<1>2. Eater(p, t) \in 0..Len(t.text)
  BY <1>1, EaterIs
<1>3. Eater(p, t) > 0 => Short(<<t.text[Eater(p, t)]>>) \in ValueFlags(p)
  BY <1>1, EaterIs
<1>4. Len(t.text) \in Nat /\ Len(t.text) >= 1
  BY <1>1
<1>5. \A F : Resolve(p, t, F) = None /\ ~AttachedTo(t, F)
  BY DEF Resolve, AttachedTo
<1>6. QED
  BY <1>1, <1>2, <1>3, <1>4, <1>5

LEMMA ShortFlag ==
    ASSUME NEW p, GetoptTool(p), NEW t, IsToken(p, t), t.kind = "short",
           NEW F \in SUBSET Flags(p)
    PROVE  t \in F <=> Len(t.text) = 1 /\ Short(<<t.text[1]>>) \in F
<1>1. t.text \in Seq(Atom) /\ t = Short(t.text)
  BY TokenKinds
<1>2. ASSUME t \in F PROVE Len(t.text) = 1 /\ Short(<<t.text[1]>>) \in F
  <2>1. IsFlag(t)
    BY <1>2 DEF GetoptTool, Flags
  <2>2. PICK x \in Letter : t = Short(<<x>>) /\ t.text = <<x>>
    BY <2>1, FlagFacts
  <2>3. Len(t.text) = 1 /\ t.text[1] = x
    BY <2>2
  <2>4. QED
    BY <1>2, <2>2, <2>3
<1>3. ASSUME Len(t.text) = 1, Short(<<t.text[1]>>) \in F PROVE t \in F
  <2>1. t.text = <<t.text[1]>>
    BY <1>1, <1>3
  <2>2. QED
    BY <1>1, <1>3, <2>1
<1>4. QED
  BY <1>2, <1>3

LEMMA ShortValue ==
    ASSUME NEW p, GetoptTool(p), NEW t, IsToken(p, t), t.kind = "short",
           NEW F \in SUBSET ValueFlags(p)
    PROVE  LET k == Eater(p, t)
               n == Len(t.text)
               flag == Short(<<t.text[k]>>)
           IN  /\ t \in F <=> k = 1 /\ n = 1 /\ flag \in F
               /\ GluedTo(t, F) <=> k = 1 /\ n # 1 /\ flag \in F
<1> DEFINE n == Len(t.text)
           k == Eater(p, t)
           takes(i) == Short(<<t.text[i]>>) \in ValueFlags(p)
<1>1. t.text \in Seq(Atom) /\ n \in Nat /\ n >= 1
  <2>1. t.text \in Seq(Atom)
    BY TokenKinds
  <2>2. n \in Nat /\ n >= 1
    BY ShortSize
  <2>3. QED
    BY <2>1, <2>2
<1>2. k \in 0..n /\ (k > 0 => takes(k)) /\ \A i \in 1..n : k = 0 \/ i < k => ~takes(i)
  BY <1>1, EaterIs
<1>3. Short(<<t.text[1]>>) \in F => k = 1
  <2>1. Short(<<t.text[1]>>) \in F => takes(1)
    OBVIOUS
  <2> HIDE DEF takes, n, k
  <2>2. takes(1) => k = 1
    BY <1>1, <1>2
  <2>3. QED
    BY <2>1, <2>2
<1>4. t \in F <=> n = 1 /\ Short(<<t.text[1]>>) \in F
  BY ShortFlag DEF Flags
<1>5. GluedTo(t, F) <=> n # 1 /\ Short(<<t.text[1]>>) \in F
  <2>1. n > 1 <=> n # 1
    <3> HIDE DEF n
    <3> QED
      BY <1>1
  <2>2. QED
    BY <2>1 DEF GluedTo
<1>6. k = 1 => Short(<<t.text[k]>>) = Short(<<t.text[1]>>)
  OBVIOUS
<1> HIDE DEF n, k
<1>7. QED
  BY <1>3, <1>4, <1>5, <1>6 DEF n, k

-----------------------------------------------------------------------------
(* What an option sets. *)

LEMMA SpanFacts ==
    ASSUME NEW p, NEW text
    PROVE  DepthSpan(p, text) \in [low : Int, high : Int]
<1> DEFINE comma == IF Len(text) > 0 /\ text[1] = "," THEN 1 ELSE 2
           tail == SubSeq(text, comma + 1, Len(text))
<1>1. \A d \in DOMAIN Numeral : Numeral[d] \in Int
  BY DEF Numeral
<1>2. NoDepth \in Int /\ NoSpan \in [low : Int, high : Int]
  BY DEF NoDepth, NoSpan
<1>3. IsDepth(text) => Numeral[text[1]] \in Int
  BY <1>1 DEF IsDepth
<1>4. IsDepth(tail) => Numeral[tail[1]] \in Int
  BY <1>1 DEF IsDepth
<1> DEFINE low == IF comma = 2 THEN Numeral[text[1]] ELSE NoDepth
           ranged == /\ p.depthRange /\ "," \in ToSet(text)
                     /\ comma = 2 => text[1] \in DOMAIN Numeral /\ text[2] = ","
                     /\ IsDepth(tail) /\ low <= Numeral[tail[1]]
<1>5. DepthSpan(p, text) =
          IF IsDepth(text) THEN [low |-> NoDepth, high |-> Numeral[text[1]]]
          ELSE IF ranged THEN [low |-> low, high |-> Numeral[tail[1]]]
          ELSE NoSpan
  BY DEF DepthSpan
<1>6. ranged => low \in Int /\ Numeral[tail[1]] \in Int
  <2>1. ranged => (comma = 2 => text[1] \in DOMAIN Numeral) /\ IsDepth(tail)
    OBVIOUS
  <2> HIDE DEF comma, tail, ranged
  <2>2. QED
    BY <1>1, <1>2, <1>4, <2>1
<1> HIDE DEF comma, tail, low, ranged
<1>7. QED
  BY <1>2, <1>3, <1>5, <1>6

\* What only operands and values change.
Kept(r, s) ==
    /\ s.pattern = r.pattern /\ s.roots = r.roots /\ s.base = r.base
    /\ s.operands = r.operands /\ s.phase = r.phase

LEMMA DepthTold ==
    ASSUME NEW p, NEW r \in Reading, NEW text
    PROVE  LET s == TellDepth(p, r, text)
           IN  /\ s \in Reading
               /\ Kept(r, s) /\ s.action = r.action /\ s.device = r.device
               /\ s.runs => r.runs
<1> DEFINE span == DepthSpan(p, text)
           floor == IF r.floor # NoDepth THEN r.floor ELSE IF span.low # NoDepth THEN span.low
                    ELSE span.high
           runs == r.runs /\ span # NoSpan /\ (p.depthRange => span.high >= r.floor)
           s == TellDepth(p, r, text)
<1>1. span \in [low : Int, high : Int]
  BY SpanFacts
<1>2. s = [r EXCEPT !.depth = span.high, !.floor = floor, !.runs = runs]
  BY DEF TellDepth
<1>3. span.high \in Int /\ floor \in Int
  BY <1>1 DEF Reading
<1>4. runs \in BOOLEAN /\ (runs => r.runs)
  <2>1. r.runs \in BOOLEAN
    BY DEF Reading
  <2> HIDE DEF span
  <2>2. QED
    BY <2>1
<1> HIDE DEF span, floor, runs, s
<1>5. s \in Reading
  BY <1>2, <1>3, <1>4 DEF Reading
<1>6. /\ s.action = r.action /\ s.device = r.device /\ s.pattern = r.pattern
      /\ s.roots = r.roots /\ s.base = r.base /\ s.operands = r.operands
      /\ s.phase = r.phase /\ s.runs = runs
  BY <1>2 DEF Reading
<1>7. QED
  BY <1>4, <1>5, <1>6 DEF s, Kept

LEMMA Told ==
    ASSUME NEW p, NEW r \in Reading, NEW flag, NEW value \in Text
    PROVE  LET s == Tell(p, r, flag, value)
           IN  /\ s \in Reading
               /\ s.action = IF flag \notin p.recValue THEN r.action
                             ELSE IF value \in p.onValues THEN "recurse" ELSE "skip"
               /\ s.pattern <=> r.pattern \/ flag \in p.patFlags
               /\ s.roots = IF flag \in p.rootFlags THEN Append(r.roots, value) ELSE r.roots
               /\ s.base = IF flag \in p.cwdFlags THEN value ELSE r.base
               /\ s.operands = r.operands /\ s.device = r.device /\ s.phase = r.phase
               /\ s.runs => r.runs
               /\ flag \in p.depthFlags =>
                      LET d == TellDepth(p, r, value)
                      IN  s.depth = d.depth /\ s.floor = d.floor /\ (s.runs => d.runs)
               /\ flag \notin p.depthFlags => s.depth = r.depth /\ s.floor = r.floor
<1> DEFINE b == IF flag \in p.depthFlags THEN TellDepth(p, r, value) ELSE r
           acts == flag \in p.recValue
           action == IF ~acts THEN b.action
                     ELSE IF value \in p.onValues THEN "recurse" ELSE "skip"
           pattern == b.pattern \/ flag \in p.patFlags
           roots == IF flag \in p.rootFlags THEN Append(b.roots, value) ELSE b.roots
           base == IF flag \in p.cwdFlags THEN value ELSE b.base
           runs == b.runs /\ (acts => value \in p.onValues \cup {<<"skip">>})
           s == Tell(p, r, flag, value)
<1>1. /\ b \in Reading /\ b.action = r.action /\ b.device = r.device /\ b.pattern = r.pattern
      /\ b.roots = r.roots /\ b.base = r.base /\ b.operands = r.operands
      /\ b.phase = r.phase /\ (b.runs => r.runs)
  <2>1. b \in Reading /\ Kept(r, b) /\ b.action = r.action /\ b.device = r.device
        /\ (b.runs => r.runs)
    <3>1. CASE flag \in p.depthFlags
      BY <3>1, DepthTold
    <3>2. CASE flag \notin p.depthFlags
      BY <3>2 DEF Kept
    <3>3. QED
      BY <3>1, <3>2
  <2> HIDE DEF b
  <2>2. QED
    BY <2>1 DEF Kept
<1>2. flag \in p.depthFlags => b = TellDepth(p, r, value)
  OBVIOUS
<1>3. flag \notin p.depthFlags => b = r
  OBVIOUS
<1>4. s = [b EXCEPT !.action = action, !.pattern = pattern, !.roots = roots, !.base = base,
                    !.runs = runs]
  BY DEF Tell
<1> HIDE DEF b
<1>5. action \in Actions /\ roots \in Seq(Text) /\ base \in Text
  BY <1>1 DEF Reading, Actions
<1>6. pattern \in BOOLEAN /\ runs \in BOOLEAN
  <2>1. b.pattern \in BOOLEAN /\ b.runs \in BOOLEAN
    BY <1>1 DEF Reading
  <2>2. QED
    BY <2>1
<1>7. runs => b.runs
  OBVIOUS
<1> HIDE DEF action, pattern, roots, base, runs, s
<1>8. s \in Reading
  BY <1>1, <1>4, <1>5, <1>6 DEF Reading
<1>9. /\ s.action = action /\ s.pattern = pattern /\ s.roots = roots /\ s.base = base
      /\ s.operands = b.operands /\ s.device = b.device /\ s.phase = b.phase
      /\ s.depth = b.depth /\ s.floor = b.floor /\ s.runs = runs
  BY <1>1, <1>4 DEF Reading
<1>10. /\ s.action = IF flag \notin p.recValue THEN r.action
                     ELSE IF value \in p.onValues THEN "recurse" ELSE "skip"
       /\ s.roots = IF flag \in p.rootFlags THEN Append(r.roots, value) ELSE r.roots
       /\ s.base = IF flag \in p.cwdFlags THEN value ELSE r.base
  BY <1>1, <1>9 DEF action, roots, base
<1>11. s.pattern <=> r.pattern \/ flag \in p.patFlags
  BY <1>1, <1>9 DEF pattern
<1>12. QED
  BY <1>1, <1>2, <1>3, <1>7, <1>8, <1>9, <1>10, <1>11 DEF s

LEMMA SwitchKeeps ==
    ASSUME NEW p, NEW r \in Reading, NEW F
    PROVE  LET s == Switch(p, r, F)
           IN  /\ s \in Reading /\ Kept(r, s)
               /\ s.depth = r.depth /\ s.floor = r.floor /\ s.runs = r.runs
<1> DEFINE action == IF F \cap p.recFlags # {} THEN "recurse" ELSE r.action
           device == IF F \cap p.deviceFlags # {} THEN TRUE
                     ELSE IF F \cap p.deviceOff # {} THEN FALSE ELSE r.device
           s == Switch(p, r, F)
<1>1. s = [r EXCEPT !.action = action, !.device = device]
  BY DEF Switch
<1>2. action \in Actions /\ device \in BOOLEAN
  BY DEF Actions, Reading
<1> HIDE DEF action, device, s
<1>3. s \in Reading
  BY <1>1, <1>2 DEF Reading
<1>4. /\ s.pattern = r.pattern /\ s.roots = r.roots /\ s.base = r.base
      /\ s.operands = r.operands /\ s.depth = r.depth /\ s.floor = r.floor
      /\ s.phase = r.phase /\ s.runs = r.runs
  BY <1>1 DEF Reading
<1>5. Kept(r, s)
  BY <1>4 DEF Kept
<1>6. QED
  BY <1>3, <1>4, <1>5 DEF s

LEMMA SwitchSets ==
    ASSUME NEW p, NEW r \in Reading, NEW F
    PROVE  LET s == Switch(p, r, F)
           IN  /\ F \cap p.recFlags # {} => s.action = "recurse"
               /\ F \cap p.recFlags = {} => s.action = r.action
               /\ s.device <=> \/ F \cap p.deviceFlags # {}
                               \/ F \cap p.deviceOff = {} /\ r.device
<1> DEFINE action == IF F \cap p.recFlags # {} THEN "recurse" ELSE r.action
           device == IF F \cap p.deviceFlags # {} THEN TRUE
                     ELSE IF F \cap p.deviceOff # {} THEN FALSE ELSE r.device
           s == Switch(p, r, F)
<1>1. s = [r EXCEPT !.action = action, !.device = device]
  BY DEF Switch
<1>2. device <=> F \cap p.deviceFlags # {} \/ (F \cap p.deviceOff = {} /\ r.device)
  BY DEF Reading
<1> HIDE DEF action, device, s
<1>3. s.action = action /\ s.device = device
  BY <1>1 DEF Reading
<1>4. /\ F \cap p.recFlags # {} => s.action = "recurse"
      /\ F \cap p.recFlags = {} => s.action = r.action
  BY <1>3 DEF action
<1>5. QED
  BY <1>2, <1>3, <1>4 DEF s

LEMMA Switched ==
    ASSUME NEW p, NEW r \in Reading, NEW F
    PROVE  LET s == Switch(p, r, F)
           IN  /\ s \in Reading /\ Kept(r, s)
               /\ s.depth = r.depth /\ s.floor = r.floor /\ s.runs = r.runs
               /\ F \cap p.recFlags # {} => s.action = "recurse"
               /\ F \cap p.recFlags = {} => s.action = r.action
               /\ s.device <=> \/ F \cap p.deviceFlags # {}
                               \/ F \cap p.deviceOff = {} /\ r.device
BY SwitchKeeps, SwitchSets

-----------------------------------------------------------------------------
(* Depths among letters. *)

LEMMA RunsAt ==
    ASSUME NEW letters \in Seq(Atom), NEW i \in 1..Len(letters), NEW T,
           Seq(Atom) \subseteq T, NEW runs \in Seq(T)
    PROVE  LET d == DigitRunsAt(letters, i, runs)
           IN  /\ d \in Places(Seq(T)) /\ d[1] > i
               /\ (letters[i] \notin DOMAIN Numeral => d[2] = runs)
<1> DEFINE n == Len(letters)
           digit(k) == k <= n /\ letters[k] \in DOMAIN Numeral
           ranged == i < n /\ letters[i + 1] \in {"-", ","}
           one == <<letters[i]>>
           two == <<letters[i], ",">>
           three == <<letters[i], ",", letters[i + 2]>>
           d == DigitRunsAt(letters, i, runs)
<1>0. i \in Nat /\ i >= 1 /\ n \in Nat
  OBVIOUS
<1>1. n \in Nat /\ i \in Nat /\ i >= 1 /\ letters[i] \in Atom /\ "," \in Atom
  <2>1. n \in Nat /\ i \in Nat /\ i >= 1 /\ letters[i] \in Atom
    OBVIOUS
  <2>2. "," \in Atom
    BY TextFacts
  <2>3. QED
    BY <2>1, <2>2
<1>2. digit(i + 2) => letters[i + 2] \in Atom
  <2>1. \A k \in 1..n : letters[k] \in Atom
    OBVIOUS
  <2>2. digit(i + 2) => i + 2 \in 1..n
    <3>1. i + 2 <= n => i + 2 \in 1..n
      <4> HIDE DEF n
      <4> QED
        BY <1>0
    <3>2. digit(i + 2) => i + 2 <= n
      OBVIOUS
    <3> HIDE DEF digit, n
    <3>3. QED
      BY <3>1, <3>2
  <2>3. QED
    BY <2>1, <2>2
<1>3. \A x, y, z \in Atom : <<x>> \in Seq(Atom) /\ <<x, y>> \in Seq(Atom)
                            /\ <<x, y, z>> \in Seq(Atom)
  OBVIOUS
<1>4. one \in T /\ two \in T /\ (digit(i + 2) => three \in T)
  BY <1>1, <1>2, <1>3
<1>5. d = IF ~digit(i) \/ (~ranged /\ letters[i] = "0") THEN <<i + 1, runs>>
          ELSE IF ~ranged THEN <<i + 1, Append(runs, one)>>
          ELSE IF digit(i + 2) THEN <<i + 3, Append(runs, three)>>
          ELSE <<i + 2, Append(runs, two)>>
  BY DEF DigitRunsAt
<1>6. letters[i] \notin DOMAIN Numeral => ~digit(i)
  OBVIOUS
<1> HIDE DEF digit, ranged, one, two, three, d
<1>7. \A t \in T : Append(runs, t) \in Seq(T)
  OBVIOUS
<1>8. \E j \in {i + 1, i + 2, i + 3}, s \in Seq(T) :
          d = <<j, s>> /\ (~digit(i) => s = runs)
  BY <1>4, <1>5, <1>7
<1>9. PICK j \in {i + 1, i + 2, i + 3}, s \in Seq(T) : d = <<j, s>> /\ (~digit(i) => s = runs)
  BY <1>8
<1>10. j \in Nat \ {0} /\ j > i
  <2> HIDE DEF n
  <2> QED
    BY <1>0
<1>11. d[1] = j /\ d[2] = s
  BY <1>9
<1>12. d \in Places(Seq(T))
  BY <1>9, <1>10 DEF Places
<1>13. QED
  BY <1>6, <1>9, <1>10, <1>11, <1>12 DEF d

LEMMA RunsFacts ==
    ASSUME NEW letters \in Seq(Atom)
    PROVE  /\ DigitRuns(letters) \in Seq(Seq(Atom)) /\ DigitRuns(letters) \in Seq(Text)
           /\ (\A j \in 1..Len(letters) : letters[j] \notin DOMAIN Numeral) =>
                  DigitRuns(letters) = << >>
<1> DEFINE n == Len(letters)
           step == [c \in (1..n) \X Seq(Text) |-> DigitRunsAt(letters, c[1], c[2])]
           Q == {<< >>}
<1>1. n \in Nat /\ << >> \in Seq(Text) /\ << >> \in Seq(Seq(Atom))
      /\ Seq(Seq(Atom)) \subseteq Seq(Text)
  <2>1. n \in Nat /\ << >> \in Seq(Text) /\ << >> \in Seq(Seq(Atom))
    OBVIOUS
  <2>2. \A A, B : A \subseteq B => Seq(A) \subseteq Seq(B)
    OBVIOUS
  <2>3. Seq(Atom) \subseteq Text
    BY TextFacts
  <2>4. QED
    BY <2>1, <2>2, <2>3
<1>2. \A i \in 1..n : \A runs \in Seq(Text) :
          DigitRunsAt(letters, i, runs) \in Places(Seq(Text)) /\ DigitRunsAt(letters, i, runs)[1] > i
  BY TextFacts, RunsAt
<1>3. Advances(n, Seq(Text), step)
  <2>1. step \in [(1..n) \X Seq(Text) -> Places(Seq(Text))]
    BY <1>2
  <2>2. QED
    BY <1>2, <2>1 DEF Advances
<1>4. \A i \in 1..n : \A q \in Seq(Seq(Atom)) : step[<<i, q>>][2] \in Seq(Seq(Atom))
  <2> SUFFICES ASSUME NEW i \in 1..n, NEW q \in Seq(Seq(Atom))
               PROVE  step[<<i, q>>][2] \in Seq(Seq(Atom))
    OBVIOUS
  <2>1. step[<<i, q>>] = DigitRunsAt(letters, i, q)
    BY <1>1
  <2>2. DigitRunsAt(letters, i, q) \in Places(Seq(Seq(Atom)))
    BY RunsAt
  <2>3. QED
    BY <2>1, <2>2 DEF Places
<1>5. (\A j \in 1..n : letters[j] \notin DOMAIN Numeral) =>
          \A i \in 1..n : \A q \in Q : step[<<i, q>>][2] \in Q
  <2> SUFFICES ASSUME \A j \in 1..n : letters[j] \notin DOMAIN Numeral, NEW i \in 1..n
               PROVE  step[<<i, << >>>>][2] = << >>
    OBVIOUS
  <2>1. step[<<i, << >>>>] = DigitRunsAt(letters, i, << >>)
    BY <1>1
  <2>2. DigitRunsAt(letters, i, << >>)[2] = << >>
    BY <1>1, TextFacts, RunsAt
  <2>3. QED
    BY <2>1, <2>2
<1>6. DigitRuns(letters) = Scan(n, Seq(Text), step, << >>)
  BY DEF DigitRuns
<1> HIDE DEF n, step
<1>7. DigitRuns(letters) \in Seq(Seq(Atom))
  <2>1. \A X \in SUBSET Seq(Text) :
            (\A i \in 1..n : \A q \in X : step[<<i, q>>][2] \in X) /\ << >> \in X
                => Scan(n, Seq(Text), step, << >>) \in X
    BY <1>1, <1>3, ScanKeeps
  <2>2. QED
    BY <1>1, <1>4, <1>6, <2>1
<1>8. (\A j \in 1..n : letters[j] \notin DOMAIN Numeral) => DigitRuns(letters) \in Q
  <2>1. Q \in SUBSET Seq(Text) /\ << >> \in Q
    BY <1>1
  <2> HIDE DEF Q
  <2>2. QED
    BY <1>1, <1>3, <1>5, <1>6, <2>1, ScanKeeps
<1>9. QED
  BY <1>1, <1>7, <1>8 DEF n

\* The scanner's bounds are the tool's.
SameBounds(p, b, r) ==
    /\ b.last = r.depth /\ b.device = r.device /\ ~b.malformed
    /\ p.depthRange => b.floor = r.floor

LEMMA TextApplied ==
    ASSUME NEW p, NEW b \in Bounds, NEW text
    PROVE  ApplyText(p, b, text) \in Bounds
<1> DEFINE span == DepthSpan(p, text)
           bad == [b EXCEPT !.malformed = TRUE, !.last = NoDepth]
           floor == IF p.depthRange /\ b.floor = NoDepth
                    THEN IF span.low # NoDepth THEN span.low ELSE span.high
                    ELSE b.floor
           good == [b EXCEPT !.last = span.high, !.floor = floor]
<1>1. span \in [low : Int, high : Int] /\ NoDepth \in Int
  BY SpanFacts DEF NoDepth
<1>2. bad \in Bounds
  BY <1>1 DEF Bounds
<1>3. floor \in Int /\ span.high \in Int
  BY <1>1 DEF Bounds
<1>4. good \in Bounds
  <2> HIDE DEF floor, span
  <2> QED
    BY <1>3 DEF Bounds
<1>5. ApplyText(p, b, text) \in {bad, good}
  BY DEF ApplyText, ApplyDepth
<1>6. QED
  BY <1>2, <1>4, <1>5

LEMMA DepthAgrees ==
    ASSUME NEW p, NEW b \in Bounds, NEW r \in Reading, SameBounds(p, b, r),
           NEW text, text # NoText, TellDepth(p, r, text).runs
    PROVE  SameBounds(p, ApplyText(p, b, text), TellDepth(p, r, text))
<1> DEFINE span == DepthSpan(p, text)
           floor == IF r.floor # NoDepth THEN r.floor ELSE IF span.low # NoDepth THEN span.low
                    ELSE span.high
           runs == r.runs /\ span # NoSpan /\ (p.depthRange => span.high >= r.floor)
           s == TellDepth(p, r, text)
           floor2 == IF p.depthRange /\ b.floor = NoDepth
                     THEN IF span.low # NoDepth THEN span.low ELSE span.high
                     ELSE b.floor
           c == ApplyText(p, b, text)
<1>1. span \in [low : Int, high : Int]
  BY SpanFacts
<1>2. s = [r EXCEPT !.depth = span.high, !.floor = floor, !.runs = runs]
  BY DEF TellDepth
<1>3. s.depth = span.high /\ s.floor = floor /\ s.runs = runs /\ s.device = r.device
  <2> HIDE DEF span, floor, runs, s
  <2> QED
    BY <1>2 DEF Reading
<1>4. span # NoSpan /\ (p.depthRange => span.high >= r.floor)
  BY <1>3
<1>5. ~(span = NoSpan \/ (p.depthRange /\ span.high < b.floor))
  <2> HIDE DEF span
  <2> QED
    BY <1>1, <1>4 DEF SameBounds, Reading
<1>6. c = [b EXCEPT !.last = span.high, !.floor = floor2]
  BY <1>5 DEF ApplyText, ApplyDepth
<1>7. c.last = span.high /\ c.floor = floor2 /\ c.device = b.device /\ c.malformed = b.malformed
  <2> HIDE DEF span, floor2, c
  <2> QED
    BY <1>6 DEF Bounds
<1>8. p.depthRange => floor = floor2
  BY DEF SameBounds
<1> HIDE DEF span, floor, floor2, s, c
<1>9. QED
  BY <1>3, <1>7, <1>8 DEF SameBounds, s, c

LEMMA TextsApplied ==
    ASSUME NEW p, NEW b \in Bounds, NEW texts \in Seq(Seq(Atom)), NEW r \in Reading,
           r.runs => SameBounds(p, b, r)
    PROVE  LET s == TellDepths(p, r, texts)
           IN  /\ ApplyTexts(p, b, texts) \in Bounds
               /\ s.runs => SameBounds(p, ApplyTexts(p, b, texts), s)
               /\ s \in Reading /\ Kept(r, s) /\ s.action = r.action /\ s.device = r.device
               /\ s.runs => r.runs
<1> DEFINE n == Len(texts)
           tells == [c \in (1..n) \X Reading |-> <<c[1] + 1, TellDepth(p, c[2], texts[c[1]])>>]
           applies == [c \in (1..n) \X Bounds |-> <<c[1] + 1, ApplyText(p, c[2], texts[c[1]])>>]
           s == TellDepths(p, r, texts)
           R == {x \in Bounds \X Reading : x[2].runs => SameBounds(p, x[1], x[2])}
           Q == {x \in Reading :
                    /\ Kept(r, x) /\ x.action = r.action /\ x.device = r.device
                    /\ x.runs => r.runs}
           none == {}
<1>1. n \in Nat /\ \A i \in 1..n : texts[i] # NoText
  <2>1. n \in Nat /\ \A i \in 1..n : texts[i] \in Seq(Atom)
    OBVIOUS
  <2>2. QED
    BY <2>1, TextFacts
<1>2. Advances(n, Reading, tells)
  <2>1. \A c \in (1..n) \X Reading : TellDepth(p, c[2], texts[c[1]]) \in Reading
    BY DepthTold
  <2>2. QED
    BY <1>1, <2>1 DEF Advances, Places
<1>3. Advances(n, Bounds, applies)
  <2>1. \A c \in (1..n) \X Bounds : ApplyText(p, c[2], texts[c[1]]) \in Bounds
    BY TextApplied
  <2>2. QED
    BY <1>1, <2>1 DEF Advances, Places
<1>4. \A i \in 1..n : \A x \in R :
          LET c == applies[<<i, x[1]>>]
              d == tells[<<i, x[2]>>]
          IN  \/ d[1] > n /\ d[2] \in none
              \/ c[1] = d[1] /\ <<c[2], d[2]>> \in R
  <2> SUFFICES ASSUME NEW i \in 1..n, NEW x \in R
               PROVE  LET c == applies[<<i, x[1]>>]
                          d == tells[<<i, x[2]>>]
                      IN  c[1] = d[1] /\ <<c[2], d[2]>> \in R
    OBVIOUS
  <2> DEFINE c == ApplyText(p, x[1], texts[i])
             d == TellDepth(p, x[2], texts[i])
  <2>1. x[1] \in Bounds /\ x[2] \in Reading /\ (x[2].runs => SameBounds(p, x[1], x[2]))
    OBVIOUS
  <2>2. applies[<<i, x[1]>>] = <<i + 1, c>> /\ tells[<<i, x[2]>>] = <<i + 1, d>>
    BY <2>1
  <2>3. c \in Bounds /\ d \in Reading /\ (d.runs => x[2].runs)
    BY <2>1, TextApplied, DepthTold
  <2>4. d.runs => SameBounds(p, c, d)
    BY <1>1, <2>1, <2>3, DepthAgrees
  <2> HIDE DEF c, d, applies, tells
  <2>5. <<c, d>> \in R
    BY <2>3, <2>4
  <2>6. QED
    BY <2>2, <2>5
<1>5. \A i \in 1..n : \A q \in Q : tells[<<i, q>>][2] \in Q
  <2> SUFFICES ASSUME NEW i \in 1..n, NEW q \in Q PROVE tells[<<i, q>>][2] \in Q
    OBVIOUS
  <2>1. tells[<<i, q>>][2] = TellDepth(p, q, texts[i])
    OBVIOUS
  <2>2. TellDepth(p, q, texts[i]) \in Q
    <3>1. LET s2 == TellDepth(p, q, texts[i])
          IN  /\ s2 \in Reading
              /\ Kept(q, s2) /\ s2.action = q.action /\ s2.device = q.device
              /\ s2.runs => q.runs
      BY DepthTold
    <3>2. QED
      BY <3>1 DEF Kept
  <2>3. QED
    BY <2>1, <2>2
<1>6. R \in SUBSET (Bounds \X Reading) /\ <<b, r>> \in R /\ Q \in SUBSET Reading /\ r \in Q
  BY DEF Kept
<1>7. ApplyTexts(p, b, texts) = Scan(n, Bounds, applies, b)
  BY DEF ApplyTexts
<1>8. s = Scan(n, Reading, tells, r)
  BY DEF TellDepths
<1> HIDE DEF n, tells, applies, R, Q, none, s
<1>9. s \in none \/ <<ApplyTexts(p, b, texts), s>> \in R
  BY <1>1, <1>2, <1>3, <1>4, <1>6, <1>7, <1>8, Lockstep
<1>10. s \in Q
  BY <1>1, <1>2, <1>5, <1>6, <1>8, ScanKeeps
<1>11. /\ ApplyTexts(p, b, texts) \in Bounds
       /\ s.runs => SameBounds(p, ApplyTexts(p, b, texts), s)
       /\ s \in Reading /\ Kept(r, s) /\ s.action = r.action /\ s.device = r.device
       /\ s.runs => r.runs
  BY <1>9, <1>10 DEF R, Q, none
<1>12. QED
  BY <1>11 DEF s

\* No depths, no change.
LEMMA NoTexts ==
    ASSUME NEW p, NEW b \in Bounds
    PROVE  ApplyTexts(p, b, << >>) = b
<1> DEFINE step == [c \in (1..0) \X Bounds |-> <<c[1] + 1, ApplyText(p, c[2], << >>[c[1]])>>]
<1>1. ApplyTexts(p, b, << >>) = Scan(0, Bounds, step, b)
  BY DEF ApplyTexts
<1>2. Advances(0, Bounds, step)
  BY DEF Advances
<1>3. <<1, b>> \in Places(Bounds)
  BY DEF Places
<1> HIDE DEF step
<1>4. From(0, Bounds, step)[<<1, b>>] = b
  BY <1>2, <1>3, FromIs
<1>5. QED
  BY <1>1, <1>4, ScanIsFrom

\* The letters of a token that take no value.
Among(letters) == {Short(<<l>>) : l \in ToSet(letters)}

LEMMA LettersTold ==
    ASSUME NEW p, NEW r \in Reading, NEW letters \in Seq(Atom)
    PROVE  LET s == TellLetters(p, r, letters)
               w == Switch(p, r, Among(letters))
           IN  /\ s \in Reading /\ Kept(r, s) /\ s.action = w.action /\ s.device = w.device
               /\ s.runs => r.runs
<1> DEFINE runs == IF p.depthDigits # {} /\ ToSet(letters) \subseteq p.depthDigits
                   THEN DigitRuns(letters) ELSE << >>
           w == Switch(p, r, Among(letters))
           s == TellLetters(p, r, letters)
           b == [last |-> w.depth, floor |-> w.floor, device |-> w.device, malformed |-> FALSE]
<1>1. runs \in Seq(Seq(Atom))
  BY RunsFacts
<1>2. w \in Reading /\ Kept(r, w) /\ w.runs = r.runs
  BY SwitchKeeps
<1>3. s = TellDepths(p, w, runs)
  BY DEF TellLetters, Among
<1> HIDE DEF runs, w
<1>4. b \in Bounds /\ SameBounds(p, b, w)
  <2>1. w.depth \in Int /\ w.floor \in Int /\ w.device \in BOOLEAN
    BY <1>2 DEF Reading
  <2>2. QED
    BY <2>1 DEF Bounds, SameBounds
<1> HIDE DEF b
<1>5. /\ s \in Reading /\ Kept(w, s) /\ s.action = w.action /\ s.device = w.device
      /\ s.runs => w.runs
  <2> HIDE DEF s
  <2> QED
    BY <1>1, <1>2, <1>3, <1>4, TextsApplied
<1> HIDE DEF s
<1>6. QED
  BY <1>2, <1>5 DEF s, w, Kept

-----------------------------------------------------------------------------
(* A step of getopt. *)

\* Arguments that a tool may be given, as long as it has letters for them.
IsArgv(p, argv) == Len(argv) \in Nat /\ \A i \in 1..Len(argv) : IsToken(p, argv[i])

\* What is wrong ends the pass.
NotRun == {r \in Reading : ~r.runs}
Stops(argv, d) == \E r \in NotRun : d = <<Len(argv) + 1, r>>

\* An option's flag with a value, the value that is attached to it, and what
\* has been read by then.
OptionFlag(p, t) ==
    IF t.kind = "long" THEN Meant(p, t)
    ELSE IF Eater(p, t) = 0 THEN None ELSE Short(<<t.text[Eater(p, t)]>>)
Attached(p, t) == IF t.kind = "long" THEN t.text ELSE Glued(p, t)
ReadBefore(p, r, t) == IF t.kind = "long" THEN r ELSE TellLetters(p, r, Letters(p, t))
ValueAt(p, argv, i) ==
    IF Attached(p, argv[i]) # NoText THEN Attached(p, argv[i]) ELSE ValueOf(argv[i + 1])

LEMMA GoesOn ==
    ASSUME NEW argv, Len(argv) \in Nat, NEW i, NEW r \in Reading
    PROVE  Goes(argv, i, r) = <<i, r>> \/ Stops(argv, Goes(argv, i, r))
<1>1. CASE r.runs
  BY <1>1 DEF Goes
<1>2. CASE ~r.runs
  <2>1. Goes(argv, i, r) = <<Len(argv) + 1, r>>
    BY <1>2 DEF Goes
  <2>2. QED
    BY <1>2, <2>1 DEF Stops, NotRun
<1>3. QED
  BY <1>1, <1>2

LEMMA FailsHere ==
    ASSUME NEW argv, NEW r \in Reading
    PROVE  Stops(argv, Fails(argv, r))
<1> DEFINE s == [r EXCEPT !.runs = FALSE]
<1>1. s \in Reading /\ ~s.runs
  BY DEF Reading
<1>2. Fails(argv, r) = <<Len(argv) + 1, s>>
  <2> HIDE DEF s
  <2>1. Fails(argv, r) = Goes(argv, 0, s)
    BY DEF Fails, s
  <2>2. QED
    BY <1>1, <2>1 DEF Goes
<1> HIDE DEF s
<1>3. QED
  BY <1>1, <1>2 DEF Stops, NotRun

LEMMA GluedText ==
    ASSUME NEW p, NEW t, t.text \in Seq(Atom)
    PROVE  /\ Glued(p, t) \in Text
           /\ Glued(p, t) = NoText <=> Eater(p, t) = Len(t.text)
           /\ Letters(p, t) \in Seq(Atom)
           /\ Letters(p, t) = IF Eater(p, t) = 0 THEN t.text
                              ELSE SubSeq(t.text, 1, Eater(p, t) - 1)
<1> DEFINE k == Eater(p, t)
           n == Len(t.text)
           rest == SubSeq(t.text, k + 1, n)
<1>1. k \in 0..n /\ n \in Nat
  <2>1. k \in 0..n
    BY EaterIs
  <2>2. n \in Nat
    OBVIOUS
  <2>3. QED
    BY <2>1, <2>2
<1> HIDE DEF k
<1>2. rest \in Seq(Atom) /\ SubSeq(t.text, 1, n) = t.text
  BY <1>1
<1>3. k # 0 => SubSeq(t.text, 1, k - 1) \in Seq(Atom)
  BY <1>1
<1>4. Glued(p, t) = IF k = n THEN NoText ELSE rest
  BY DEF Glued, k
<1>5. Letters(p, t) = IF k = 0 THEN SubSeq(t.text, 1, n) ELSE SubSeq(t.text, 1, k - 1)
  BY DEF Letters, k
<1> HIDE DEF rest, n
<1>6. QED
  BY <1>2, <1>3, <1>4, <1>5, TextFacts DEF k, n

\* An option that takes a value.
LEMMA ValueStep ==
    ASSUME NEW p, GetoptTool(p), NEW argv, IsArgv(p, argv), NEW i \in 1..Len(argv),
           argv[i].kind \in {"long", "short"}, argv[i] \notin p.execFlags,
           OptionFlag(p, argv[i]) \in ValueFlags(p), NEW r \in Reading
    PROVE  LET t == argv[i]
               d == GetoptAt(p, argv, i, r)
           IN  /\ ReadBefore(p, r, t) \in Reading
               /\ \/ Stops(argv, d)
                  \/ /\ Attached(p, t) # NoText \/ i < Len(argv)
                     /\ ValueAt(p, argv, i) \in Text /\ ValueAt(p, argv, i) # NoText
                     /\ Tell(p, ReadBefore(p, r, t), OptionFlag(p, t), ValueAt(p, argv, i)) \in Reading
                     /\ d = <<IF Attached(p, t) # NoText THEN i + 1 ELSE i + 2,
                              Tell(p, ReadBefore(p, r, t), OptionFlag(p, t), ValueAt(p, argv, i))>>
<1> DEFINE t == argv[i]
           n == Len(argv)
           s == ReadBefore(p, r, t)
           flag == OptionFlag(p, t)
           attached == Attached(p, t)
           value == ValueAt(p, argv, i)
           d == GetoptAt(p, argv, i, r)
<1>1. n \in Nat /\ i \in 1..n /\ \A j \in 1..n : IsToken(p, argv[j])
  BY DEF IsArgv
<1>2. IsToken(p, t) /\ t.kind \in {"long", "short"}
  BY <1>1
<1>3. i < n => ValueOf(argv[i + 1]) \in Seq(Atom)
  <2>1. i < n => IsToken(p, argv[i + 1])
    BY <1>1
  <2>2. QED
    BY <2>1, TokenKinds
<1>4. attached \in Text
  BY <1>2, TokenKinds, GluedText, TextFacts DEF Attached
<1>5. s \in Reading
  <2>1. t.kind = "short" => Letters(p, t) \in Seq(Atom)
    BY <1>2, TokenKinds, GluedText
  <2>2. QED
    BY <1>2, <2>1, LettersTold DEF ReadBefore
<1>6. d = Takes(p, argv, i, s, flag, attached)
  <2>1. CASE t.kind = "long"
    <3>1. d = LongAt(p, argv, i, r)
      BY <2>1 DEF GetoptAt
    <3>2. flag = Meant(p, t) /\ s = r /\ attached = t.text
      BY <2>1 DEF OptionFlag, ReadBefore, Attached
    <3>3. flag \in ValueFlags(p)
      OBVIOUS
    <3>4. QED
      BY <3>1, <3>2, <3>3 DEF LongAt
  <2>2. CASE t.kind = "short"
    <3>1. d = ShortAt(p, argv, i, r)
      BY <2>2 DEF GetoptAt
    <3>2. None \notin ValueFlags(p)
      <4>1. \A f \in ValueFlags(p) : IsFlag(f)
        BY DEF GetoptTool
      <4>2. QED
        BY <4>1, FlagFacts
    <3>3. Eater(p, t) # 0 /\ flag = Short(<<t.text[Eater(p, t)]>>)
      BY <2>2, <3>2 DEF OptionFlag
    <3>4. s = TellLetters(p, r, Letters(p, t)) /\ attached = Glued(p, t)
      BY <2>2 DEF ReadBefore, Attached
    <3>5. QED
      BY <3>1, <3>3, <3>4 DEF ShortAt, Glued
  <2>3. QED
    BY <1>2, <2>1, <2>2
<1>7. CASE attached # NoText
  <2>1. value = attached
    BY <1>7 DEF ValueAt
  <2>2. d = Goes(argv, i + 1, Tell(p, s, flag, value))
    BY <1>6, <1>7, <2>1 DEF Takes
  <2>3. Tell(p, s, flag, value) \in Reading
    BY <1>4, <1>5, <2>1, Told
  <2> HIDE DEF d, s, flag, value, attached, t
  <2>4. d = <<i + 1, Tell(p, s, flag, value)>> \/ Stops(argv, d)
    BY <1>1, <2>2, <2>3, GoesOn
  <2>5. QED
    BY <1>4, <1>5, <1>7, <2>1, <2>3, <2>4 DEF d, s, flag, value, attached, t
<1>8. CASE attached = NoText /\ i < n
  <2>1. value = ValueOf(argv[i + 1])
    BY <1>8 DEF ValueAt
  <2>2. d = Goes(argv, i + 2, Tell(p, s, flag, value))
    <3> HIDE DEF s, flag, d, attached
    <3> QED
      BY <1>1, <1>6, <1>8, <2>1 DEF Takes
  <2>3. value \in Text /\ value # NoText
    BY <1>3, <1>8, <2>1, TextFacts
  <2>4. Tell(p, s, flag, value) \in Reading
    BY <1>5, <2>3, Told
  <2> HIDE DEF d, s, flag, value, attached, t
  <2>5. d = <<i + 2, Tell(p, s, flag, value)>> \/ Stops(argv, d)
    BY <1>1, <2>2, <2>4, GoesOn
  <2>6. QED
    BY <1>5, <1>8, <2>3, <2>4, <2>5 DEF d, s, flag, value, attached, t
<1>9. CASE attached = NoText /\ ~(i < n)
  <2>1. i = n
    BY <1>1, <1>9
  <2>2. d = Fails(argv, s)
    <3> HIDE DEF s, flag, d, attached
    <3> QED
      BY <1>6, <1>9, <2>1 DEF Takes
  <2>3. Stops(argv, d)
    BY <1>5, <2>2, FailsHere
  <2>4. QED
    BY <1>5, <2>3
<1>10. QED
  BY <1>7, <1>8, <1>9

\* A long option that takes none.
Flipped(p, r, t) == Switch(p, r, {Meant(p, t)})
LEMMA SwitchStep ==
    ASSUME NEW p, GetoptTool(p), NEW argv, IsArgv(p, argv), NEW i \in 1..Len(argv),
           argv[i].kind = "long", Meant(p, argv[i]) \notin ValueFlags(p), NEW r \in Reading
    PROVE  LET t == argv[i]
               d == GetoptAt(p, argv, i, r)
           IN  \/ Stops(argv, d)
               \/ /\ Meant(p, t) # None /\ t.text = NoText
                  /\ Flipped(p, r, t) \in Reading
                  /\ d = <<i + 1, Flipped(p, r, t)>>
<1> DEFINE t == argv[i]
           flag == Meant(p, t)
           d == GetoptAt(p, argv, i, r)
<1>1. d = LongAt(p, argv, i, r)
  BY DEF GetoptAt
<1>2. d = IF flag = None \/ t.text # NoText THEN Fails(argv, r)
          ELSE <<i + 1, Flipped(p, r, t)>>
  BY <1>1 DEF LongAt, Flipped
<1>3. Stops(argv, Fails(argv, r))
  BY FailsHere
<1>4. Flipped(p, r, t) \in Reading
  BY Switched DEF Flipped
<1>5. QED
  BY <1>2, <1>3, <1>4

\* A short option that takes none.
LEMMA LettersStep ==
    ASSUME NEW p, GetoptTool(p), NEW argv, IsArgv(p, argv), NEW i \in 1..Len(argv),
           argv[i].kind = "short", argv[i] \notin p.execFlags, Eater(p, argv[i]) = 0,
           NEW r \in Reading
    PROVE  LET t == argv[i]
               d == GetoptAt(p, argv, i, r)
           IN  /\ TellLetters(p, r, t.text) \in Reading
               /\ \/ Stops(argv, d)
                  \/ d = <<i + 1, TellLetters(p, r, t.text)>>
<1> DEFINE t == argv[i]
           d == GetoptAt(p, argv, i, r)
           s == TellLetters(p, r, t.text)
<1>1. Len(argv) \in Nat /\ IsToken(p, t)
  BY DEF IsArgv
<1>2. t.text \in Seq(Atom)
  BY <1>1, TokenKinds
<1>3. Letters(p, t) = t.text
  BY <1>2, GluedText
<1>4. d = ShortAt(p, argv, i, r)
  BY DEF GetoptAt
<1>5. d = Goes(argv, i + 1, s)
  BY <1>3, <1>4 DEF ShortAt
<1>6. s \in Reading
  BY <1>2, LettersTold
<1> HIDE DEF s, d
<1>7. QED
  BY <1>1, <1>5, <1>6, GoesOn DEF s, d

LEMMA ExecBody ==
    ASSUME NEW p, NEW argv, Len(argv) \in Nat, NEW i \in 1..Len(argv)
    PROVE  SkipExecBody(p, argv, i) \in Nat \ {0} /\ SkipExecBody(p, argv, i) > i
<1> DEFINE Ends(j) == \/ argv[j] = Semicolon
                      \/ /\ argv[i] \in p.execPlus
                         /\ argv[j] = Word(<<"+">>)
                         /\ j > i + 1 /\ argv[j - 1] = Word(<<"{}">>)
           ends == {j \in i + 1..Len(argv) : Ends(j)}
<1>1. SkipExecBody(p, argv, i) = IF ends = {} THEN Len(argv) + 1 ELSE Min(ends) + 1
  BY DEF SkipExecBody
<1>2. ends \in SUBSET Nat /\ \A j \in ends : j > i
  <2>1. \A j \in i + 1..Len(argv) : j \in Nat /\ j > i
    OBVIOUS
  <2> HIDE DEF Ends
  <2>2. QED
    BY <2>1
<1> HIDE DEF ends
<1>3. ends # {} => Min(ends) \in ends
  BY <1>2, LeastIs
<1>4. CASE ends = {}
  BY <1>1, <1>4
<1>5. CASE ends # {}
  <2>1. Min(ends) \in Nat /\ Min(ends) > i
    BY <1>2, <1>3, <1>5
  <2>2. SkipExecBody(p, argv, i) = Min(ends) + 1
    BY <1>1, <1>5
  <2>3. QED
    BY <2>1, <2>2
<1>6. QED
  BY <1>4, <1>5

\* What a word, `--` or a command template does.
LEMMA OtherSteps ==
    ASSUME NEW p, GetoptTool(p), NEW argv, IsArgv(p, argv), NEW i \in 1..Len(argv),
           NEW r \in Reading
    PROVE  LET t == argv[i]
               d == GetoptAt(p, argv, i, r)
           IN  /\ t.kind = "word" =>
                      /\ t.text \in Seq(Atom)
                      /\ d = <<i + 1, [r EXCEPT !.operands = Append(@, t.text)]>>
                      /\ d[2] \in Reading
               /\ t = DashDash =>
                      /\ d = <<Len(argv) + 1, [r EXCEPT !.operands = @ \o Rest(argv, i)]>>
                      /\ d[2] \in Reading
               /\ t.kind = "short" /\ t \in p.execFlags => d = <<SkipExecBody(p, argv, i), r>>
<1> DEFINE t == argv[i]
           d == GetoptAt(p, argv, i, r)
           w == [r EXCEPT !.operands = Append(@, t.text)]
           z == [r EXCEPT !.operands = @ \o Rest(argv, i)]
<1>1. Len(argv) \in Nat /\ \A j \in 1..Len(argv) : IsToken(p, argv[j])
  BY DEF IsArgv
<1>2. t.kind = "word" => t.text \in Seq(Atom) /\ t.text \in Text
  BY <1>1, TokenKinds, TextFacts
<1>3. t.kind = "word" => d = <<i + 1, w>>
  BY DEF GetoptAt
<1>4. t.kind = "word" => w \in Reading
  <2> SUFFICES ASSUME t.text \in Text PROVE w \in Reading
    BY <1>2
  <2>1. r.operands \in Seq(Text)
    BY DEF Reading
  <2>2. Append(r.operands, t.text) \in Seq(Text)
    BY <2>1
  <2>3. QED
    BY <2>2 DEF Reading
<1>5. t = DashDash => t.kind = "dashdash"
  BY Kinds
<1>6. t = DashDash => d = <<Len(argv) + 1, z>>
  BY <1>5 DEF GetoptAt
<1>7. Rest(argv, i) \in Seq(Text)
  <2>1. \A k \in 1..Len(argv) - i : i + k \in 1..Len(argv)
    BY <1>1
  <2>2. \A k \in 1..Len(argv) - i : ValueOf(argv[i + k]) \in Text
    BY <1>1, <2>1, TokenKinds, TextFacts
  <2>3. Len(argv) - i \in Nat
    BY <1>1
  <2>4. QED
    BY <2>2, <2>3 DEF Rest
<1>8. z \in Reading
  <2>1. r.operands \o Rest(argv, i) \in Seq(Text)
    BY <1>7 DEF Reading
  <2>2. QED
    BY <2>1 DEF Reading
<1>9. t.kind = "short" /\ t \in p.execFlags => d = <<SkipExecBody(p, argv, i), r>>
  BY DEF GetoptAt
<1> HIDE DEF d, w, z
<1>10. t.kind = "word" => d[2] \in Reading
  BY <1>3, <1>4
<1>11. t = DashDash => d[2] \in Reading
  BY <1>6, <1>8
<1>12. QED
  BY <1>2, <1>3, <1>6, <1>9, <1>10, <1>11 DEF d, w, z

LEMMA GetoptGoesOn ==
    ASSUME NEW p, GetoptTool(p), NEW argv, IsArgv(p, argv), NEW i \in 1..Len(argv),
           NEW r \in Reading
    PROVE  GetoptAt(p, argv, i, r) \in Places(Reading) /\ GetoptAt(p, argv, i, r)[1] > i
<1> DEFINE t == argv[i]
           n == Len(argv)
           d == GetoptAt(p, argv, i, r)
<1>1. n \in Nat /\ i \in 1..n /\ i \in Nat /\ IsToken(p, t)
  BY DEF IsArgv
<1>2. \A j \in Nat, s \in Reading : d = <<j, s>> /\ j > i => d \in Places(Reading) /\ d[1] > i
  <2> HIDE DEF d
  <2> QED
    BY <1>1 DEF Places
<1>3. Stops(argv, d) => \E s \in Reading : d = <<n + 1, s>>
  BY DEF Stops, NotRun
<1>4. Stops(argv, d) => d \in Places(Reading) /\ d[1] > i
  <2> HIDE DEF d
  <2> QED
    BY <1>1, <1>2, <1>3
<1>5. CASE t.kind = "word"
  <2>1. d = <<i + 1, d[2]>> /\ d[2] \in Reading
    BY <1>5, OtherSteps
  <2> HIDE DEF d
  <2>2. QED
    BY <1>1, <1>2, <2>1 DEF d
<1>6. CASE t.kind = "dashdash"
  <2>1. t = DashDash
    BY <1>1, <1>6, TokenKinds
  <2>2. d = <<n + 1, d[2]>> /\ d[2] \in Reading
    BY <2>1, OtherSteps
  <2> HIDE DEF d
  <2>3. QED
    BY <1>1, <1>2, <2>2 DEF d
<1>7. CASE t.kind = "short" /\ t \in p.execFlags
  <2>1. d = <<SkipExecBody(p, argv, i), r>>
    BY <1>7, OtherSteps
  <2>2. SkipExecBody(p, argv, i) \in Nat /\ SkipExecBody(p, argv, i) > i
    BY <1>1, ExecBody
  <2> HIDE DEF d
  <2>3. QED
    BY <1>2, <2>1, <2>2 DEF d
<1>8. CASE t.kind = "short" /\ t \notin p.execFlags /\ Eater(p, t) = 0
  <2>1. TellLetters(p, r, t.text) \in Reading
        /\ (Stops(argv, d) \/ d = <<i + 1, TellLetters(p, r, t.text)>>)
    BY <1>8, LettersStep
  <2> HIDE DEF d
  <2>2. QED
    BY <1>1, <1>2, <1>4, <2>1 DEF d
<1>9. CASE /\ t.kind \in {"long", "short"} /\ t \notin p.execFlags
           /\ OptionFlag(p, t) \in ValueFlags(p)
  <2> DEFINE s == Tell(p, ReadBefore(p, r, t), OptionFlag(p, t), ValueAt(p, argv, i))
             j == IF Attached(p, t) # NoText THEN i + 1 ELSE i + 2
  <2>1. Stops(argv, d) \/ (s \in Reading /\ d = <<j, s>>)
    BY <1>9, ValueStep
  <2>2. j \in Nat /\ j > i
    BY <1>1
  <2> HIDE DEF d, s, j
  <2>3. QED
    BY <1>2, <1>4, <2>1, <2>2 DEF d
<1>10. CASE t.kind = "long" /\ Meant(p, t) \notin ValueFlags(p)
  <2> DEFINE s == Flipped(p, r, t)
  <2>1. Stops(argv, d) \/ (s \in Reading /\ d = <<i + 1, s>>)
    BY <1>10, SwitchStep
  <2> HIDE DEF d, s
  <2>2. QED
    BY <1>1, <1>2, <1>4, <2>1 DEF d
<1>11. t.kind \in {"word", "dashdash", "long", "short"}
  BY <1>1, TokenKinds
<1>12. t.kind = "long" => t \notin p.execFlags
  BY DEF GetoptTool
<1>13. t.kind = "short" /\ Eater(p, t) # 0 => OptionFlag(p, t) \in ValueFlags(p)
  <2>1. t.kind = "short" => t.text \in Seq(Atom)
    BY <1>1, TokenKinds
  <2>2. t.kind = "short" /\ Eater(p, t) # 0 => Short(<<t.text[Eater(p, t)]>>) \in ValueFlags(p)
    BY <2>1, EaterIs
  <2>3. QED
    BY <2>2 DEF OptionFlag
<1>14. t.kind = "long" => OptionFlag(p, t) = Meant(p, t)
  BY DEF OptionFlag
<1> HIDE DEF d, t
<1>15. QED
  BY <1>5, <1>6, <1>7, <1>8, <1>9, <1>10, <1>11, <1>12, <1>13, <1>14

-----------------------------------------------------------------------------
(* The tool's pass. *)

Passes(p, argv) ==
    [c \in (1..Len(argv)) \X Reading |->
        IF p.rootMode = "leading" THEN FindAt(p, argv, c[1], c[2])
        ELSE GetoptAt(p, argv, c[1], c[2])]

LEMMA NothingRead ==
    ASSUME NEW p, p.dirAction \in Actions
    PROVE  /\ Nothing(p) \in Reading
           /\ Nothing(p).action = p.dirAction /\ Nothing(p).depth = NoDepth
           /\ Nothing(p).floor = NoDepth /\ Nothing(p).device = FALSE
           /\ Nothing(p).pattern = FALSE /\ Nothing(p).roots = << >>
           /\ Nothing(p).base = NoText /\ Nothing(p).operands = << >>
           /\ Nothing(p).runs = TRUE /\ Nothing(p).phase = "options"
<1>1. << >> \in Seq(Text) /\ NoText \in Text
  <2>1. << >> \in Seq(Text)
    OBVIOUS
  <2>2. QED
    BY <2>1, TextFacts
<1>2. QED
  BY <1>1 DEF Nothing, Reading, NoDepth

LEMMA GetoptReads ==
    ASSUME NEW p, GetoptTool(p), NEW argv, IsArgv(p, argv)
    PROVE  /\ Read(p, argv) = Scan(Len(argv), Reading, Passes(p, argv), Nothing(p))
           /\ Advances(Len(argv), Reading, Passes(p, argv))
           /\ \A i \in 1..Len(argv) : \A r \in Reading :
                  Passes(p, argv)[<<i, r>>] = GetoptAt(p, argv, i, r)
<1>1. p.rootMode # "leading"
  BY DEF GetoptTool
<1>2. Read(p, argv) = Scan(Len(argv), Reading, Passes(p, argv), Nothing(p))
  BY DEF Read, Passes
<1>3. \A i \in 1..Len(argv) : \A r \in Reading :
          Passes(p, argv)[<<i, r>>] = GetoptAt(p, argv, i, r)
  BY <1>1 DEF Passes
<1>4. \A c \in (1..Len(argv)) \X Reading :
          /\ Passes(p, argv)[c] = GetoptAt(p, argv, c[1], c[2])
          /\ GetoptAt(p, argv, c[1], c[2]) \in Places(Reading)
          /\ GetoptAt(p, argv, c[1], c[2])[1] > c[1]
  BY <1>1, GetoptGoesOn DEF Passes
<1>5. Passes(p, argv) = [c \in (1..Len(argv)) \X Reading |-> Passes(p, argv)[c]]
  BY DEF Passes
<1>6. Passes(p, argv) \in [(1..Len(argv)) \X Reading -> Places(Reading)]
  BY <1>4, <1>5
<1>7. Advances(Len(argv), Reading, Passes(p, argv))
  BY <1>4, <1>6 DEF Advances
<1>8. QED
  BY <1>2, <1>3, <1>7

-----------------------------------------------------------------------------
(* The directory action. *)

\* A setting to a value, if there is one.
SetTo(p, value, used) ==
    IF value = NoText THEN NoSetting
    ELSE [action |-> IF value \in p.onValues THEN "recurse" ELSE "skip", used |-> used]

LEMMA SetToFacts ==
    ASSUME NEW p, NEW value, NEW used
    PROVE  /\ SetTo(p, value, used) = NoSetting <=> value = NoText
           /\ value # NoText =>
                  /\ SetTo(p, value, used).used = used
                  /\ SetTo(p, value, used).action =
                         IF value \in p.onValues THEN "recurse" ELSE "skip"
           /\ [action |-> "recurse", used |-> 1] # NoSetting
BY DEF SetTo, NoSetting

LEMMA SettingIs ==
    ASSUME NEW p, NEW argv, NEW i
    PROVE  LET t == argv[i]
               named == t.kind = "long"
                        /\ (Long(t.name) \in p.recValue
                            \/ \E f \in p.recValue : Resolve(p, t, {f}) # None)
           IN  DirActionSetting(p, argv, i) =
                   IF p.recValue = {} THEN NoSetting
                   ELSE IF t \in p.recValue \/ (named /\ t.text = NoText)
                   THEN SetTo(p, NextValue(argv, i), 2)
                   ELSE IF named THEN SetTo(p, t.text, 1)
                   ELSE IF GluedTo(t, p.recValue) THEN SetTo(p, SubSeq(t.text, 2, Len(t.text)), 1)
                   ELSE IF t \in p.recFlags \/ (t.text = NoText /\ Resolve(p, t, p.recFlags) # None)
                   THEN [action |-> "recurse", used |-> 1]
                   ELSE NoSetting
BY DEF DirActionSetting, SetTo

LEMMA SettingOfOther ==
    ASSUME NEW p, GetoptTool(p), NEW argv, NEW i, argv[i].kind \notin {"short", "long"}
    PROVE  DirActionSetting(p, argv, i) = NoSetting
<1> DEFINE t == argv[i]
<1>1. \A f \in p.recValue \cup p.recFlags : t # f
  <2>1. \A f \in p.recValue \cup p.recFlags : IsFlag(f)
    BY DEF GetoptTool, Switches
  <2>2. QED
    BY <2>1, FlagFacts
<1>2. \A F : Resolve(p, t, F) = None /\ ~GluedTo(t, F)
  BY PlainToken
<1>3. t \notin p.recValue /\ t \notin p.recFlags /\ t.kind # "long"
  BY <1>1
<1> HIDE DEF t
<1>4. QED
  BY <1>2, <1>3, SettingIs DEF t

LEMMA SettingOfLong ==
    ASSUME NEW p, GetoptTool(p), p.dirAction # "none", NEW argv, NEW i, argv[i].kind = "long",
           IsToken(p, argv[i]), Meant(p, argv[i]) # None
    PROVE  LET t == argv[i]
               m == Meant(p, t)
           IN  DirActionSetting(p, argv, i) =
                   IF m \in p.recValue
                   THEN IF t.text = NoText THEN SetTo(p, NextValue(argv, i), 2)
                        ELSE SetTo(p, t.text, 1)
                   ELSE IF m \in p.recFlags /\ t.text = NoText
                   THEN [action |-> "recurse", used |-> 1]
                   ELSE NoSetting
<1> DEFINE t == argv[i]
           m == Meant(p, t)
           named == t.kind = "long"
                    /\ (Long(t.name) \in p.recValue
                        \/ \E f \in p.recValue : Resolve(p, t, {f}) # None)
<1>1. t = LongIs(t.name, t.text) /\ t.kind = "long" /\ m # None
  BY TokenKinds
<1>2. p.recValue # {} /\ p.recValue \subseteq Flags(p) /\ p.recFlags \subseteq Flags(p)
  BY DEF GetoptTool, Flags, Switches
<1>3. \A F \in SUBSET Flags(p) :
          /\ m \in F <=> Long(t.name) \in F \/ Resolve(p, t, F) # None
          /\ t \in F <=> t.text = NoText /\ Long(t.name) \in F
          /\ ~GluedTo(t, F)
  BY <1>1, LongMeans, LongIn
<1>4. named <=> m \in p.recValue
  <2>1. \A f \in p.recValue : {f} \in SUBSET Flags(p)
    BY <1>2
  <2>2. \A f \in p.recValue : m = f <=> Long(t.name) = f \/ Resolve(p, t, {f}) # None
    <3> SUFFICES ASSUME NEW f \in p.recValue
                 PROVE  m = f <=> Long(t.name) = f \/ Resolve(p, t, {f}) # None
      OBVIOUS
    <3>1. m \in {f} <=> Long(t.name) \in {f} \/ Resolve(p, t, {f}) # None
      BY <1>3, <2>1
    <3>2. QED
      BY <3>1
  <2> HIDE DEF m
  <2>3. QED
    BY <1>1, <2>2
<1>5. t \in p.recValue => t.text = NoText /\ named
  BY <1>1, <1>2, <1>3
<1>6. t \in p.recFlags \/ (t.text = NoText /\ Resolve(p, t, p.recFlags) # None)
          <=> m \in p.recFlags /\ t.text = NoText
  BY <1>2, <1>3
<1>7. ~GluedTo(t, p.recValue)
  BY <1>2, <1>3
<1>8. DirActionSetting(p, argv, i) =
          IF p.recValue = {} THEN NoSetting
          ELSE IF t \in p.recValue \/ (named /\ t.text = NoText)
          THEN SetTo(p, NextValue(argv, i), 2)
          ELSE IF named THEN SetTo(p, t.text, 1)
          ELSE IF GluedTo(t, p.recValue) THEN SetTo(p, SubSeq(t.text, 2, Len(t.text)), 1)
          ELSE IF t \in p.recFlags \/ (t.text = NoText /\ Resolve(p, t, p.recFlags) # None)
          THEN [action |-> "recurse", used |-> 1]
          ELSE NoSetting
  BY SettingIs
<1> HIDE DEF named, m, t
<1>9. QED
  BY <1>2, <1>4, <1>5, <1>6, <1>7, <1>8 DEF m, t

LEMMA SettingOfShort ==
    ASSUME NEW p, GetoptTool(p), p.dirAction # "none", NEW argv, NEW i, argv[i].kind = "short",
           IsToken(p, argv[i])
    PROVE  LET t == argv[i]
               k == Eater(p, t)
               n == Len(t.text)
           IN  DirActionSetting(p, argv, i) =
                   IF k = 1 /\ Short(<<t.text[k]>>) \in p.recValue
                   THEN IF n = 1 THEN SetTo(p, NextValue(argv, i), 2)
                        ELSE SetTo(p, SubSeq(t.text, 2, n), 1)
                   ELSE IF n = 1 /\ Short(<<t.text[1]>>) \in p.recFlags
                   THEN [action |-> "recurse", used |-> 1]
                   ELSE NoSetting
<1> DEFINE t == argv[i]
           k == Eater(p, t)
           n == Len(t.text)
           flag == Short(<<t.text[k]>>)
<1>1. p.recValue # {} /\ p.recValue \in SUBSET ValueFlags(p) /\ p.recFlags \in SUBSET Flags(p)
  BY DEF GetoptTool, Flags, Switches
<1>2. /\ t \in p.recValue <=> k = 1 /\ n = 1 /\ flag \in p.recValue
      /\ GluedTo(t, p.recValue) <=> k = 1 /\ n # 1 /\ flag \in p.recValue
  BY <1>1, ShortValue
<1>3. t \in p.recFlags <=> n = 1 /\ Short(<<t.text[1]>>) \in p.recFlags
  BY <1>1, ShortFlag
<1>4. \A F : Resolve(p, t, F) = None
  BY ShortSize
<1>5. t.kind # "long"
  OBVIOUS
<1>6. DirActionSetting(p, argv, i) =
          IF t \in p.recValue THEN SetTo(p, NextValue(argv, i), 2)
          ELSE IF GluedTo(t, p.recValue) THEN SetTo(p, SubSeq(t.text, 2, n), 1)
          ELSE IF t \in p.recFlags THEN [action |-> "recurse", used |-> 1]
          ELSE NoSetting
  BY <1>1, <1>4, <1>5, SettingIs
<1> HIDE DEF k, n, t, flag
<1>7. QED
  BY <1>2, <1>3, <1>6 DEF k, n, t, flag

\* What the letters up to a place are.
LEMMA LettersTo ==
    ASSUME NEW s \in Seq(Atom), NEW k \in 1..Len(s)
    PROVE  /\ SubSeq(s, 1, k) \in Seq(Atom) /\ SubSeq(s, 1, k - 1) \in Seq(Atom)
           /\ Len(SubSeq(s, 1, k)) = k
           /\ SubSeq(s, 1, k) # << >>
           /\ Front(SubSeq(s, 1, k)) = SubSeq(s, 1, k - 1)
           /\ ToSet(SubSeq(s, 1, k)) = ToSet(SubSeq(s, 1, k - 1)) \cup {s[k]}
           /\ k = 1 => SubSeq(s, 1, k - 1) = << >>
<1> DEFINE a == SubSeq(s, 1, k)
           b == SubSeq(s, 1, k - 1)
<1>1. k \in Nat /\ k >= 1 /\ k - 1 \in Nat
  OBVIOUS
<1>2. a \in Seq(Atom) /\ Len(a) = k /\ \A i \in 1..k : a[i] = s[i]
  OBVIOUS
<1>3. b \in Seq(Atom) /\ Len(b) = k - 1 /\ \A i \in 1..k - 1 : b[i] = s[i]
  OBVIOUS
<1>4. Front(a) = b
  <2>1. Front(a) = SubSeq(a, 1, k - 1)
    BY <1>2 DEF Front
  <2>2. SubSeq(a, 1, k - 1) = b
    <3> DEFINE c == SubSeq(a, 1, k - 1)
    <3>1. c \in Seq(Atom) /\ Len(c) = k - 1 /\ \A i \in 1..k - 1 : c[i] = a[i]
      <4> HIDE DEF a
      <4> QED
        BY <1>1, <1>2
    <3> HIDE DEF a, b, c
    <3>2. \A i \in 1..k - 1 : c[i] = b[i]
      BY <1>1, <1>2, <1>3, <3>1
    <3>3. QED
      BY <1>3, <3>1, <3>2
  <2>3. QED
    BY <2>1, <2>2
<1>5. ToSet(a) = ToSet(b) \cup {s[k]}
  <2> HIDE DEF a, b
  <2>1. ToSet(a) = {a[i] : i \in 1..k} /\ ToSet(b) = {b[i] : i \in 1..k - 1}
    <3>1. DOMAIN a = 1..k /\ DOMAIN b = 1..k - 1
      BY <1>2, <1>3
    <3>2. QED
      BY <3>1 DEF ToSet
  <2>2. 1..k = 1..k - 1 \cup {k}
    BY <1>1
  <2>3. QED
    BY <1>1, <1>2, <1>3, <2>1, <2>2
<1>6. k = 1 => b = << >>
  OBVIOUS
<1>7. a # << >>
  <2> HIDE DEF a
  <2> QED
    BY <1>1, <1>2
<1>8. QED
  BY <1>2, <1>3, <1>4, <1>5, <1>6, <1>7

LEMMA RecAmong ==
    ASSUME NEW p, GetoptTool(p), p.dirAction # "none", NEW letters
    PROVE  "r" \in ToSet(letters) <=> Among(letters) \cap p.recFlags # {}
<1>1. Short(<<"r">>) \in p.recFlags
      /\ \A f \in p.recFlags : f.kind = "short" => f = Short(<<"r">>)
  BY DEF GetoptTool
<1>2. ASSUME "r" \in ToSet(letters) PROVE Among(letters) \cap p.recFlags # {}
  BY <1>1, <1>2 DEF Among
<1>3. ASSUME NEW l \in ToSet(letters), Short(<<l>>) \in p.recFlags PROVE l = "r"
  <2>1. Short(<<l>>).kind = "short"
    BY Kinds
  <2>2. <<l>> = <<"r">>
    BY <1>1, <1>3, <2>1, SameShort
  <2>3. <<l>>[1] = l /\ <<"r">>[1] = "r"
    OBVIOUS
  <2>4. QED
    BY <2>2, <2>3
<1>4. QED
  BY <1>2, <1>3 DEF Among

LEMMA LettersAction ==
    ASSUME NEW p, GetoptTool(p), p.dirAction # "none", NEW r \in Reading,
           NEW letters \in Seq(Atom)
    PROVE  LET s == TellLetters(p, r, letters)
           IN  s \in Reading /\ s.action = IF "r" \in ToSet(letters) THEN "recurse" ELSE r.action
<1> DEFINE s == TellLetters(p, r, letters)
           F == Among(letters)
<1>1. s \in Reading /\ s.action = Switch(p, r, F).action
  BY LettersTold
<1>2. F \cap p.recFlags # {} <=> "r" \in ToSet(letters)
  BY RecAmong
<1> HIDE DEF F
<1>3. /\ F \cap p.recFlags # {} => Switch(p, r, F).action = "recurse"
      /\ F \cap p.recFlags = {} => Switch(p, r, F).action = r.action
  BY Switched
<1>4. QED
  BY <1>1, <1>2, <1>3

-----------------------------------------------------------------------------

\* The action that the tool comes to, the scan comes to.
SameAction(c, d) == c[1] = d[1] /\ c[2] = d[2].action

LEMMA ActionAtOther ==
    ASSUME NEW p, GetoptTool(p), NEW argv, IsArgv(p, argv), NEW i \in 1..Len(argv),
           argv[i].kind \in {"word", "dashdash"}, NEW r \in Reading
    PROVE  SameAction(DirActionAt(p, argv, i, r.action), GetoptAt(p, argv, i, r))
<1> DEFINE t == argv[i]
           d == GetoptAt(p, argv, i, r)
<1>1. IsToken(p, t)
  BY DEF IsArgv
<1>2. CASE t.kind = "word"
  <2>1. /\ DirActionSetting(p, argv, i) = NoSetting /\ Cluster(p, t) = NoCluster
        /\ \A F : Resolve(p, t, F) = None /\ ~GluedTo(t, F) /\ ~AttachedTo(t, F)
    BY <1>2, SettingOfOther, PlainToken
  <2>2. t \notin ValueFlags(p)
    <3>1. \A f \in ValueFlags(p) : IsFlag(f)
      BY DEF GetoptTool
    <3>2. QED
      BY <1>2, <3>1, PlainToken
  <2>3. t # DashDash
    BY <1>1, <1>2, TokenKinds
  <2>4. NoCluster.letters = << >>
    BY DEF NoCluster
  <2>5. DirActionAt(p, argv, i, r.action) = <<i + 1, r.action>>
    <3> HIDE DEF t
    <3> QED
      BY <2>1, <2>2, <2>3, <2>4 DEF DirActionAt, IsAttachedPattern, t
  <2>6. d[1] = i + 1 /\ d[2].action = r.action
    <3> DEFINE w == [r EXCEPT !.operands = Append(@, t.text)]
    <3>1. w.action = r.action
      BY DEF Reading
    <3>2. d = <<i + 1, w>>
      BY <1>2, OtherSteps
    <3> HIDE DEF w
    <3>3. QED
      BY <3>1, <3>2
  <2>7. QED
    BY <2>5, <2>6 DEF SameAction
<1>3. CASE t.kind = "dashdash"
  <2>1. t = DashDash
    BY <1>1, <1>3, TokenKinds
  <2>2. DirActionAt(p, argv, i, r.action) = <<Len(argv) + 1, r.action>>
    BY <2>1 DEF DirActionAt
  <2>3. d[1] = Len(argv) + 1 /\ d[2].action = r.action
    <3> DEFINE w == [r EXCEPT !.operands = @ \o Rest(argv, i)]
    <3>1. w.action = r.action
      BY DEF Reading
    <3>2. d = <<Len(argv) + 1, w>>
      BY <2>1, OtherSteps
    <3> HIDE DEF w
    <3>3. QED
      BY <3>1, <3>2
  <2>4. QED
    BY <2>2, <2>3 DEF SameAction
<1>4. QED
  BY <1>2, <1>3

LEMMA ActionAtLong ==
    ASSUME NEW p, GetoptTool(p), p.dirAction # "none", NEW argv, IsArgv(p, argv),
           NEW i \in 1..Len(argv), argv[i].kind = "long", NEW r \in Reading
    PROVE  \/ Stops(argv, GetoptAt(p, argv, i, r))
           \/ SameAction(DirActionAt(p, argv, i, r.action), GetoptAt(p, argv, i, r))
<1> DEFINE t == argv[i]
           n == Len(argv)
           m == Meant(p, t)
           a == r.action
           s == DirActionSetting(p, argv, i)
           c == DirActionAt(p, argv, i, a)
           d == GetoptAt(p, argv, i, r)
<1>1. IsToken(p, t) /\ n \in Nat
  BY DEF IsArgv
<1>2. t = LongIs(t.name, t.text) /\ t # DashDash /\ t.kind = "long"
  BY <1>1, TokenKinds, Kinds
<1>3. /\ p.recValue \subseteq ValueFlags(p) /\ p.patFlags \subseteq ValueFlags(p)
      /\ ValueFlags(p) \cap p.recFlags = {} /\ p.patFlags \cap p.recValue = {}
      /\ ValueFlags(p) \in SUBSET Flags(p) /\ p.patFlags \in SUBSET Flags(p)
  BY DEF GetoptTool, Flags, Switches, ValueFlags
<1>4. c = IF AttachedTo(t, p.patFlags) THEN <<i + 1, a>>
          ELSE IF s # NoSetting THEN <<i + s.used, s.action>>
          ELSE IF Resolve(p, t, ValueFlags(p)) # None THEN <<i + Width(t), a>>
          ELSE <<i + (IF t \in ValueFlags(p) THEN 2 ELSE 1), a>>
  <2>1. ~GluedTo(t, p.patFlags) /\ Cluster(p, t) = NoCluster
    BY <1>2, <1>3, LongIn
  <2>2. NoCluster.letters = << >>
    BY DEF NoCluster
  <2> HIDE DEF t, s
  <2>3. QED
    BY <1>2, <2>1, <2>2 DEF DirActionAt, IsAttachedPattern, t, s
<1>5. AttachedTo(t, p.patFlags) <=> t.text # NoText /\ Long(t.name) \in p.patFlags
  BY <1>2, <1>3, LongIn
<1>6. t \in ValueFlags(p) <=> t.text = NoText /\ Long(t.name) \in ValueFlags(p)
  BY <1>2, <1>3, LongIn
<1>7. m # None =>
          (m \in ValueFlags(p) <=> Long(t.name) \in ValueFlags(p)
                                   \/ Resolve(p, t, ValueFlags(p)) # None)
  BY <1>2, <1>3, LongMeans
<1>8. m # None /\ Long(t.name) \in p.patFlags => m \in p.patFlags
  BY <1>2, <1>3, LongMeans
<1>9. m # None =>
          s = IF m \in p.recValue
              THEN IF t.text = NoText THEN SetTo(p, NextValue(argv, i), 2)
                   ELSE SetTo(p, t.text, 1)
              ELSE IF m \in p.recFlags /\ t.text = NoText
              THEN [action |-> "recurse", used |-> 1]
              ELSE NoSetting
  BY <1>1, SettingOfLong
<1>10. CASE m \in ValueFlags(p)
  <2> DEFINE v == IF t.text # NoText THEN t.text ELSE ValueOf(argv[i + 1])
             w == Tell(p, r, m, v)
  <2>1. m # None
    <3>1. \A f \in ValueFlags(p) : IsFlag(f)
      BY DEF GetoptTool
    <3>2. QED
      BY <1>10, <3>1, FlagFacts
  <2>2. OptionFlag(p, t) = m /\ Attached(p, t) = t.text /\ ReadBefore(p, r, t) = r
        /\ ValueAt(p, argv, i) = v
    BY <1>2 DEF OptionFlag, Attached, ReadBefore, ValueAt
  <2>3. t \notin p.execFlags
    BY <1>2 DEF GetoptTool
  <2>4. \/ Stops(argv, d)
        \/ /\ t.text # NoText \/ i < n
           /\ v \in Text /\ v # NoText
           /\ d = <<IF t.text # NoText THEN i + 1 ELSE i + 2, w>>
    BY <1>2, <1>10, <2>2, <2>3, ValueStep
  <2>5. SUFFICES ASSUME /\ t.text # NoText \/ i < n
                        /\ v \in Text /\ v # NoText
                        /\ d = <<IF t.text # NoText THEN i + 1 ELSE i + 2, w>>
                 PROVE  SameAction(c, d)
    BY <2>4
  <2>6. w.action = IF m \notin p.recValue THEN a
                   ELSE IF v \in p.onValues THEN "recurse" ELSE "skip"
    <3>1. v \in Text
      BY <2>5
    <3> HIDE DEF v, m, a
    <3>2. w.action = IF m \notin p.recValue THEN r.action
                     ELSE IF v \in p.onValues THEN "recurse" ELSE "skip"
      BY ONLY <3>1, r \in Reading, Told
    <3>3. QED
      BY <3>2 DEF a
  <2>7. CASE m \in p.recValue
    <3>1. s = IF t.text = NoText THEN SetTo(p, v, 2) ELSE SetTo(p, v, 1)
      BY <1>9, <2>1, <2>5, <2>7 DEF NextValue
    <3>2. s # NoSetting /\ s.used = (IF t.text = NoText THEN 2 ELSE 1) /\ s.action = w.action
      <4> HIDE DEF s, w, v
      <4> QED
        BY <2>5, <2>6, <2>7, <3>1, SetToFacts
    <3>3. ~AttachedTo(t, p.patFlags)
      BY <1>3, <1>5, <1>8, <2>1, <2>7
    <3>4. c = <<i + s.used, s.action>>
      BY <1>4, <3>2, <3>3
    <3> HIDE DEF s, w, c, d, v
    <3>5. QED
      BY <2>5, <3>2, <3>4 DEF SameAction
  <2>8. CASE m \notin p.recValue
    <3>1. s = NoSetting
      BY <1>3, <1>9, <1>10, <2>1, <2>8
    <3>2. c = <<IF t.text # NoText THEN i + 1 ELSE i + 2, a>>
      <4> HIDE DEF s, c, m
      <4> QED
        BY <1>4, <1>5, <1>6, <1>7, <1>10, <2>1, <3>1 DEF Width
    <3>3. w.action = a
      BY <2>6, <2>8
    <3> HIDE DEF w, c, d, v, a
    <3>4. QED
      BY <2>5, <3>2, <3>3 DEF SameAction
  <2>9. QED
    BY <2>7, <2>8
<1>11. CASE m \notin ValueFlags(p)
  <2> DEFINE w == Flipped(p, r, t)
  <2>1. \/ Stops(argv, d)
        \/ m # None /\ t.text = NoText /\ d = <<i + 1, w>>
    BY <1>2, <1>11, SwitchStep
  <2>2. SUFFICES ASSUME m # None, t.text = NoText, d = <<i + 1, w>>
                 PROVE  SameAction(c, d)
    BY <2>1
  <2>3. w.action = IF m \in p.recFlags THEN "recurse" ELSE a
    <3>1. /\ {m} \cap p.recFlags # {} => w.action = "recurse"
          /\ {m} \cap p.recFlags = {} => w.action = a
      BY Switched DEF Flipped
    <3>2. {m} \cap p.recFlags # {} <=> m \in p.recFlags
      OBVIOUS
    <3>3. QED
      BY <3>1, <3>2
  <2>4. s = IF m \in p.recFlags THEN [action |-> "recurse", used |-> 1] ELSE NoSetting
    BY <1>3, <1>9, <1>11, <2>2
  <2>5. c = <<i + 1, w.action>>
    <3>1. ~AttachedTo(t, p.patFlags) /\ t \notin ValueFlags(p)
          /\ Resolve(p, t, ValueFlags(p)) = None
      BY <1>5, <1>6, <1>7, <1>11, <2>2
    <3>2. CASE m \in p.recFlags
      <4>1. s # NoSetting /\ s.used = 1 /\ s.action = "recurse"
        BY <2>4, <3>2 DEF NoSetting
      <4> HIDE DEF s, c, w
      <4>2. QED
        BY <1>4, <2>3, <3>1, <3>2, <4>1
    <3>3. CASE m \notin p.recFlags
      <4> HIDE DEF s, c, w
      <4> QED
        BY <1>4, <2>3, <2>4, <3>1, <3>3
    <3>4. QED
      BY <3>2, <3>3
  <2> HIDE DEF w, c, d
  <2>6. QED
    BY <2>2, <2>5 DEF SameAction
<1>12. QED
  BY <1>10, <1>11

LEMMA ActionAtShort ==
    ASSUME NEW p, GetoptTool(p), p.dirAction # "none", NEW argv, IsArgv(p, argv),
           NEW i \in 1..Len(argv), argv[i].kind = "short", NEW r \in Reading
    PROVE  \/ Stops(argv, GetoptAt(p, argv, i, r))
           \/ SameAction(DirActionAt(p, argv, i, r.action), GetoptAt(p, argv, i, r))
<1> DEFINE t == argv[i]
           n == Len(argv)
           len == Len(t.text)
           k == Eater(p, t)
           flag == Short(<<t.text[k]>>)
           a == r.action
           s == DirActionSetting(p, argv, i)
           c == DirActionAt(p, argv, i, a)
           d == GetoptAt(p, argv, i, r)
<1>1. IsToken(p, t) /\ n \in Nat /\ t.kind = "short"
  BY DEF IsArgv
<1>2. t.text \in Seq(Atom) /\ t.text # << >> /\ t # DashDash
  BY <1>1, TokenKinds
<1>3. len \in Nat /\ len >= 1 /\ k \in 0..len /\ (k > 0 => flag \in ValueFlags(p))
  BY <1>1, ShortSize
<1>4. /\ p.recValue \in SUBSET ValueFlags(p) /\ p.patFlags \in SUBSET ValueFlags(p)
      /\ ValueFlags(p) \cap p.recFlags = {} /\ p.patFlags \cap p.recValue = {}
      /\ Short(<<"r">>) \in p.recFlags /\ p.execFlags = {}
  BY DEF GetoptTool, Switches, ValueFlags
<1>5. GluedTo(t, p.patFlags) <=> k = 1 /\ len # 1 /\ flag \in p.patFlags
  BY <1>1, <1>4, ShortValue
<1>6. s = IF k = 1 /\ flag \in p.recValue
          THEN IF len = 1 THEN SetTo(p, NextValue(argv, i), 2)
               ELSE SetTo(p, SubSeq(t.text, 2, len), 1)
          ELSE IF len = 1 /\ Short(<<t.text[1]>>) \in p.recFlags
          THEN [action |-> "recurse", used |-> 1]
          ELSE NoSetting
  BY <1>1, SettingOfShort
<1>7. /\ k = 0 => /\ Cluster(p, t).letters = t.text /\ Cluster(p, t).flag = None
                  /\ Cluster(p, t).next = FALSE
      /\ k # 0 => /\ Cluster(p, t).letters = SubSeq(t.text, 1, k)
                  /\ Cluster(p, t).flag = flag /\ Cluster(p, t).glued = Glued(p, t)
                  /\ (Cluster(p, t).next <=> k = len)
  BY <1>1, ClusterFields
<1>8. c = IF GluedTo(t, p.patFlags) THEN <<i + 1, a>>
          ELSE IF s # NoSetting THEN <<i + s.used, s.action>>
          ELSE IF Cluster(p, t).letters # << >>
          THEN <<i + (IF Cluster(p, t).next THEN 2 ELSE 1), ClusterAction(p, argv, i, a)>>
          ELSE <<i + (IF t \in ValueFlags(p) THEN 2 ELSE 1), a>>
  <2>1. \A F : Resolve(p, t, F) = None /\ ~AttachedTo(t, F)
    BY <1>1, ShortSize
  <2> HIDE DEF t, s
  <2>2. QED
    BY <1>2, <2>1 DEF DirActionAt, IsAttachedPattern, t, s
<1>9. CASE k = 0
  <2> DEFINE w == TellLetters(p, r, t.text)
  <2>1. Stops(argv, d) \/ d = <<i + 1, w>>
    BY <1>1, <1>4, <1>9, LettersStep
  <2>2. w.action = IF "r" \in ToSet(t.text) THEN "recurse" ELSE a
    BY <1>2, LettersAction
  <2>3. /\ Cluster(p, t).letters = t.text /\ Cluster(p, t).flag = None
        /\ Cluster(p, t).next = FALSE
    BY <1>7, <1>9
  <2>4. None \notin p.recValue
    <3>1. \A f \in ValueFlags(p) : IsFlag(f)
      BY DEF GetoptTool
    <3>2. QED
      BY <1>4, <3>1, FlagFacts
  <2>5. ClusterAction(p, argv, i, a) = w.action
    <3> HIDE DEF w, a
    <3> QED
      BY <2>2, <2>3, <2>4 DEF ClusterAction
  <2>6. s # NoSetting => s.used = 1 /\ s.action = w.action
    <3>1. CASE len = 1 /\ Short(<<t.text[1]>>) \in p.recFlags
      <4>1. s = [action |-> "recurse", used |-> 1]
        BY <1>6, <1>9, <3>1
      <4>2. "r" \in ToSet(t.text)
        <5>1. Short(<<t.text[1]>>) \in Among(t.text)
          <6>1. 1 \in DOMAIN t.text
            BY <1>2, <1>3
          <6>2. t.text[1] \in ToSet(t.text)
            BY <6>1 DEF ToSet
          <6>3. QED
            BY <6>2 DEF Among
        <5>2. QED
          BY <3>1, <5>1, RecAmong
      <4> HIDE DEF w, s
      <4>3. QED
        BY <2>2, <4>1, <4>2
    <3>2. CASE ~(len = 1 /\ Short(<<t.text[1]>>) \in p.recFlags)
      BY <1>6, <1>9, <3>2
    <3>3. QED
      BY <3>1, <3>2
  <2>7. c = <<i + 1, w.action>>
    <3> HIDE DEF w, s, c, k, t
    <3> QED
      BY <1>2, <1>5, <1>8, <1>9, <2>3, <2>5, <2>6
  <2> HIDE DEF w, c, d
  <2>8. d = <<i + 1, w>> => SameAction(c, d)
    BY <2>7 DEF SameAction
  <2>9. QED
    BY <2>1, <2>8 DEF c, d
<1>10. CASE k > 0
  <2> DEFINE before == SubSeq(t.text, 1, k - 1)
             b == TellLetters(p, r, before)
             glued == Glued(p, t)
             v == IF glued # NoText THEN glued ELSE ValueOf(argv[i + 1])
             w == Tell(p, b, flag, v)
  <2>0. k \in 1..len /\ k # 0
    BY <1>3, <1>10
  <2>1. /\ OptionFlag(p, t) = flag /\ Attached(p, t) = glued
        /\ Letters(p, t) = before /\ ValueAt(p, argv, i) = v
    BY <1>1, <1>2, <2>0, GluedText DEF OptionFlag, Attached, ValueAt
  <2>2. ReadBefore(p, r, t) = b
    BY <1>1, <2>1 DEF ReadBefore
  <2>3. \/ Stops(argv, d)
        \/ /\ glued # NoText \/ i < n
           /\ v \in Text /\ v # NoText
           /\ d = <<IF glued # NoText THEN i + 1 ELSE i + 2, w>>
    <3>1. OptionFlag(p, t) \in ValueFlags(p) /\ t \notin p.execFlags
          /\ t.kind \in {"long", "short"}
      BY <1>1, <1>3, <1>4, <1>10, <2>1
    <3>2. QED
      BY <2>1, <2>2, <3>1, ValueStep
  <2>4. SUFFICES ASSUME /\ glued # NoText \/ i < n
                        /\ v \in Text /\ v # NoText
                        /\ d = <<IF glued # NoText THEN i + 1 ELSE i + 2, w>>
                 PROVE  SameAction(c, d)
    BY <2>3
  <2>5. /\ before \in Seq(Atom) /\ SubSeq(t.text, 1, k) # << >>
        /\ Front(SubSeq(t.text, 1, k)) = before
        /\ ToSet(SubSeq(t.text, 1, k)) = ToSet(before) \cup {t.text[k]}
        /\ k = 1 => before = << >>
    BY <1>2, <2>0, LettersTo
  <2>6. b \in Reading /\ b.action = IF "r" \in ToSet(before) THEN "recurse" ELSE a
    <3> HIDE DEF before
    <3> QED
      BY <2>5, LettersAction
  <2>7. w.action = IF flag \notin p.recValue THEN b.action
                   ELSE IF v \in p.onValues THEN "recurse" ELSE "skip"
    <3>1. v \in Text
      BY <2>4
    <3> HIDE DEF v, flag, b
    <3>2. QED
      BY ONLY <2>6, <3>1, Told
  <2>8. glued = NoText <=> k = len
    BY <1>2, GluedText
  <2>9. v = IF k = len THEN NextValue(argv, i) ELSE glued
    <3> HIDE DEF glued
    <3> QED
      BY <2>4, <2>8 DEF NextValue
  <2>10. t.text[k] # "r"
    BY <1>3, <1>4, <1>10
  <2>11. /\ Cluster(p, t).letters = SubSeq(t.text, 1, k) /\ Cluster(p, t).flag = flag
         /\ Cluster(p, t).glued = glued /\ (Cluster(p, t).next <=> k = len)
    BY <1>7, <2>0
  <2>12. ClusterAction(p, argv, i, a) = w.action
    <3> DEFINE letters == SubSeq(t.text, 1, k)
    <3>1. ClusterAction(p, argv, i, a) =
              LET scanned == IF flag \in p.recValue THEN Front(letters) ELSE letters
                  byLetter == IF "r" \in ToSet(scanned) THEN "recurse" ELSE a
                  value == IF k = len THEN NextValue(argv, i) ELSE glued
              IN  IF flag \notin p.recValue \/ value = NoText THEN byLetter
                  ELSE IF value \in p.onValues THEN "recurse" ELSE "skip"
      <4> HIDE DEF flag, glued, letters
      <4> QED
        BY <2>11 DEF ClusterAction, letters
    <3>2. "r" \in ToSet(IF flag \in p.recValue THEN Front(letters) ELSE letters)
              <=> "r" \in ToSet(before)
      <4> HIDE DEF before, letters
      <4> QED
        BY <2>5, <2>10 DEF letters
    <3> HIDE DEF flag, glued, letters, before, a, b, w, v
    <3>3. QED
      BY <2>4, <2>6, <2>7, <2>9, <3>1, <3>2
  <2>13. CASE GluedTo(t, p.patFlags)
    <3>1. k = 1 /\ len # 1 /\ flag \in p.patFlags
      BY <1>5, <2>13
    <3>2. glued # NoText /\ before = << >>
      BY <2>5, <2>8, <3>1
    <3>3. "r" \notin ToSet(before)
      <4>1. DOMAIN before = {}
        <5> HIDE DEF before
        <5> QED
          BY <3>2
      <4> HIDE DEF before
      <4>2. QED
        BY <4>1 DEF ToSet
    <3>4. w.action = a
      <4> HIDE DEF w, b, before, a
      <4> QED
        BY <1>4, <2>6, <2>7, <3>1, <3>3
    <3>5. c = <<i + 1, a>>
      BY <1>8, <2>13
    <3>6. d = <<i + 1, w>>
      BY <2>4, <3>2
    <3> HIDE DEF w, c, d, a
    <3>7. QED
      BY <3>4, <3>5, <3>6 DEF SameAction
  <2>14. CASE ~GluedTo(t, p.patFlags) /\ s # NoSetting
    <3>1. k = 1 /\ flag \in p.recValue
      <4>1. ~(len = 1 /\ Short(<<t.text[1]>>) \in p.recFlags)
        <5>1. len = 1 => k = 1
          BY <2>0
        <5>2. QED
          BY <1>3, <1>4, <1>10, <5>1
      <4>2. QED
        BY <1>6, <2>14, <4>1
    <3>2. s = IF len = 1 THEN SetTo(p, v, 2) ELSE SetTo(p, v, 1)
      <4>1. len # 1 => glued = SubSeq(t.text, 2, len)
        BY <2>8, <3>1 DEF Glued
      <4>2. QED
        BY <1>6, <2>9, <3>1, <4>1
    <3>3. s.used = (IF len = 1 THEN 2 ELSE 1) /\ s.action = w.action
      <4> HIDE DEF s, w, v, flag, b
      <4> QED
        BY <2>4, <2>7, <3>1, <3>2, SetToFacts
    <3>4. c = <<i + s.used, s.action>>
      BY <1>8, <2>14
    <3>5. d = <<IF len = 1 THEN i + 2 ELSE i + 1, w>>
      <4> HIDE DEF glued, w, d
      <4> QED
        BY <2>4, <2>8, <3>1
    <3> HIDE DEF w, c, d, s, len
    <3>6. QED
      BY <3>3, <3>4, <3>5 DEF SameAction
  <2>15. CASE ~GluedTo(t, p.patFlags) /\ s = NoSetting
    <3>1. c = <<i + (IF k = len THEN 2 ELSE 1), w.action>>
      <4> HIDE DEF c, s, w, t, k, a
      <4> QED
        BY <1>8, <2>5, <2>11, <2>12, <2>15
    <3>2. d = <<IF k = len THEN i + 2 ELSE i + 1, w>>
      <4> HIDE DEF glued, w, d
      <4> QED
        BY <2>4, <2>8
    <3> HIDE DEF w, c, d, k, len
    <3>3. QED
      BY <3>1, <3>2 DEF SameAction
  <2>16. QED
    BY <2>13, <2>14, <2>15
<1>11. QED
  <2>1. k = 0 \/ k > 0
    BY <1>3
  <2>2. QED
    BY <1>9, <1>10, <2>1

\* A place after i, with a result.
LEMMA PlaceAfter ==
    ASSUME NEW i \in Nat \ {0}, NEW Acc, NEW j \in {i + 1, i + 2, i + 3}, NEW a \in Acc
    PROVE  <<j, a>> \in Places(Acc) /\ <<j, a>>[1] > i
BY DEF Places

LEMMA ActionGoesOn ==
    ASSUME NEW p, NEW argv, Len(argv) \in Nat, NEW i \in 1..Len(argv), NEW a \in Actions
    PROVE  DirActionAt(p, argv, i, a) \in Places(Actions) /\ DirActionAt(p, argv, i, a)[1] > i
<1> DEFINE s == DirActionSetting(p, argv, i)
           t == argv[i]
           n == Len(argv)
           c == DirActionAt(p, argv, i, a)
           by == ClusterAction(p, argv, i, a)
<1>1. n \in Nat /\ i \in 1..n
  OBVIOUS
<1>2. s # NoSetting => s.used \in {1, 2} /\ s.action \in Actions
  <2>1. \A value, used : SetTo(p, value, used) # NoSetting =>
            SetTo(p, value, used).used = used /\ SetTo(p, value, used).action \in {"recurse", "skip"}
    BY SetToFacts
  <2>2. s = NoSetting \/ s = [action |-> "recurse", used |-> 1]
        \/ \E value : s = SetTo(p, value, 1) \/ s = SetTo(p, value, 2)
    BY SettingIs
  <2> HIDE DEF s
  <2>3. QED
    BY <2>1, <2>2 DEF Actions
<1>3. by \in Actions
  BY DEF ClusterAction, Actions
<1>4. \E j \in {n + 1, i + 1, i + 2} : \E b \in Actions : c = <<j, b>>
  <2>1. i + 1 \in {i + 1, i + 2} /\ i + 2 \in {i + 1, i + 2}
    OBVIOUS
  <2>2. Width(t) \in {1, 2}
    BY DEF Width
  <2>3. c = IF t = DashDash THEN <<n + 1, a>>
            ELSE IF IsAttachedPattern(p, t) THEN <<i + 1, a>>
            ELSE IF s # NoSetting THEN <<i + s.used, s.action>>
            ELSE IF Cluster(p, t).letters # << >>
            THEN <<i + (IF Cluster(p, t).next THEN 2 ELSE 1), by>>
            ELSE IF Resolve(p, t, ValueFlags(p)) # None THEN <<i + Width(t), a>>
            ELSE <<i + (IF t \in ValueFlags(p) THEN 2 ELSE 1), a>>
    BY DEF DirActionAt
  <2> HIDE DEF c, s, t, by, n
  <2>4. QED
    BY <1>2, <1>3, <2>2, <2>3
<1>5. PICK j \in {n + 1, i + 1, i + 2}, b \in Actions : c = <<j, b>>
  BY <1>4
<1> HIDE DEF c, n
<1>6. j \in Nat \ {0} /\ j > i
  BY <1>1
<1>7. c \in Places(Actions) /\ c[1] > i
  BY <1>5, <1>6 DEF Places
<1>8. QED
  BY <1>7 DEF c

\* Whether a command walks a tree is read as its tool decides it.
LEMMA ActionIsRead ==
    ASSUME NEW p, GetoptTool(p), p.dirAction # "none", NEW argv, IsArgv(p, argv)
    PROVE  Read(p, argv).runs => LastDirAction(p, argv) = Read(p, argv).action
<1> DEFINE n == Len(argv)
           step == [c \in (1..n) \X Actions |-> DirActionAt(p, argv, c[1], c[2])]
           reads == Passes(p, argv)
           R == {x \in Actions \X Reading : x[1] = x[2].action}
           a == p.dirAction
           b == Nothing(p)
           bad == NotRun
<1>1. n \in Nat /\ p.dirAction \in Actions
  BY DEF IsArgv, GetoptTool
<1>2. Advances(n, Actions, step)
  <2>1. \A c \in (1..n) \X Actions :
            DirActionAt(p, argv, c[1], c[2]) \in Places(Actions)
            /\ DirActionAt(p, argv, c[1], c[2])[1] > c[1]
    BY <1>1, ActionGoesOn
  <2>2. QED
    BY <2>1 DEF Advances
<1>3. Read(p, argv) = Scan(n, Reading, reads, Nothing(p)) /\ Advances(n, Reading, reads)
  BY GetoptReads
<1>4. \A i \in 1..n : \A x \in R :
          LET c == step[<<i, x[1]>>]
              d == reads[<<i, x[2]>>]
          IN  \/ d[1] > n /\ d[2] \in NotRun
              \/ c[1] = d[1] /\ <<c[2], d[2]>> \in R
  <2> SUFFICES ASSUME NEW i \in 1..n, NEW x \in R
               PROVE  LET c == step[<<i, x[1]>>]
                          d == reads[<<i, x[2]>>]
                      IN  \/ d[1] > n /\ d[2] \in NotRun
                          \/ c[1] = d[1] /\ <<c[2], d[2]>> \in R
    OBVIOUS
  <2> DEFINE r == x[2]
             c == DirActionAt(p, argv, i, r.action)
             d == GetoptAt(p, argv, i, r)
  <2>1. r \in Reading /\ r.action \in Actions /\ x[1] = r.action
    OBVIOUS
  <2>2. step[<<i, x[1]>>] = c /\ reads[<<i, x[2]>>] = d
    BY <2>1, GetoptReads
  <2>3. c \in Places(Actions) /\ d \in Places(Reading)
    BY <1>1, <2>1, ActionGoesOn, GetoptGoesOn
  <2>4. argv[i].kind \in {"word", "dashdash", "long", "short"}
    BY TokenKinds DEF IsArgv
  <2>5. Stops(argv, d) \/ SameAction(c, d)
    BY <2>1, <2>4, ActionAtOther, ActionAtLong, ActionAtShort
  <2>6. Stops(argv, d) => d[1] > n /\ d[2] \in NotRun
    <3> HIDE DEF d
    <3> QED
      BY <1>1 DEF Stops
  <2>7. SameAction(c, d) => c[1] = d[1] /\ <<c[2], d[2]>> \in R
    <3> HIDE DEF c, d
    <3> QED
      BY <2>3 DEF SameAction, Places
  <2> HIDE DEF c, d, step, reads, R
  <2>8. QED
    BY <2>2, <2>5, <2>6, <2>7
<1>5. Nothing(p).action = p.dirAction /\ Nothing(p) \in Reading
  BY <1>1, NothingRead
<1>6. R \in SUBSET (Actions \X Reading) /\ <<p.dirAction, Nothing(p)>> \in R
  BY <1>1, <1>5
<1>7. LastDirAction(p, argv) = Scan(n, Actions, step, a)
  BY DEF LastDirAction, DirActionFrom
<1> HIDE DEF n, step, reads, R, a, b, bad
<1>8. Read(p, argv) \in bad \/ <<LastDirAction(p, argv), Read(p, argv)>> \in R
  <2>1. Scan(n, Reading, reads, b) \in bad
        \/ <<Scan(n, Actions, step, a), Scan(n, Reading, reads, b)>> \in R
    BY <1>1, <1>2, <1>3, <1>4, <1>6, Lockstep DEF a, b, bad
  <2>2. QED
    BY <1>3, <1>7, <2>1 DEF b
<1>9. QED
  BY <1>8 DEF R, bad, NotRun

\* A scan that keeps to what the tool reads, token by token, as long as the tool
\* has found nothing wrong.
LEMMA ReadsAlong ==
    ASSUME NEW p, GetoptTool(p), NEW argv, IsArgv(p, argv), NEW A, NEW s,
           Advances(Len(argv), A, s), NEW R \in SUBSET (A \X Reading),
           \A i \in 1..Len(argv) : \A x \in R :
               LET c == s[<<i, x[1]>>]
                   d == GetoptAt(p, argv, i, x[2])
               IN  Stops(argv, d) \/ (c[1] = d[1] /\ <<c[2], d[2]>> \in R),
           NEW a, <<a, Nothing(p)>> \in R
    PROVE  Read(p, argv).runs => <<Scan(Len(argv), A, s, a), Read(p, argv)>> \in R
<1> DEFINE n == Len(argv)
           reads == Passes(p, argv)
           b == Nothing(p)
           bad == NotRun
<1>1. n \in Nat
  BY DEF IsArgv
<1>2. Read(p, argv) = Scan(n, Reading, reads, b) /\ Advances(n, Reading, reads)
      /\ \A i \in 1..n : \A r \in Reading : reads[<<i, r>>] = GetoptAt(p, argv, i, r)
  BY GetoptReads
<1>3. \A i \in 1..n : \A x \in R :
          LET c == s[<<i, x[1]>>]
              d == reads[<<i, x[2]>>]
          IN  \/ d[1] > n /\ d[2] \in bad
              \/ c[1] = d[1] /\ <<c[2], d[2]>> \in R
  <2> SUFFICES ASSUME NEW i \in 1..n, NEW x \in R
               PROVE  LET c == s[<<i, x[1]>>]
                          d == reads[<<i, x[2]>>]
                      IN  \/ d[1] > n /\ d[2] \in bad
                          \/ c[1] = d[1] /\ <<c[2], d[2]>> \in R
    OBVIOUS
  <2> DEFINE d == GetoptAt(p, argv, i, x[2])
  <2>1. x[2] \in Reading /\ reads[<<i, x[2]>>] = d
    BY <1>2
  <2>2. Stops(argv, d) => d[1] > n /\ d[2] \in bad
    <3> HIDE DEF d
    <3> QED
      BY <1>1 DEF Stops
  <2>3. Stops(argv, d) \/ (s[<<i, x[1]>>][1] = d[1] /\ <<s[<<i, x[1]>>][2], d[2]>> \in R)
    OBVIOUS
  <2> HIDE DEF d, reads, bad
  <2>4. QED
    BY <2>1, <2>2, <2>3
<1> HIDE DEF n, reads, b, bad
<1>4. Scan(n, Reading, reads, b) \in bad
      \/ <<Scan(n, A, s, a), Scan(n, Reading, reads, b)>> \in R
  BY <1>1, <1>2, <1>3, Lockstep DEF b, n
<1>5. QED
  BY <1>2, <1>4 DEF n, bad, NotRun

-----------------------------------------------------------------------------
(* The bounds. *)

\* What letters say of the device and the depth.
WithDevice(p, b, letters) ==
    [b EXCEPT !.device = @ \/ \E k \in DOMAIN letters : Short(<<letters[k]>>) \in p.deviceFlags]
DepthTexts(p, letters) ==
    IF p.depthDigits # {} /\ ToSet(letters) \subseteq p.depthDigits
    THEN DigitRuns(letters) ELSE << >>

LEMMA DepthTextsAre ==
    ASSUME NEW p, NEW letters \in Seq(Atom)
    PROVE  /\ DepthTexts(p, letters) \in Seq(Seq(Atom))
           /\ letters = << >> => DepthTexts(p, letters) = << >>
           /\ (\A j \in 1..Len(letters) : letters[j] \notin DOMAIN Numeral)
                  => DepthTexts(p, letters) = << >>
<1>1. DigitRuns(letters) \in Seq(Seq(Atom))
  BY RunsFacts
<1>2. (\A j \in 1..Len(letters) : letters[j] \notin DOMAIN Numeral) => DigitRuns(letters) = << >>
  BY RunsFacts
<1>3. letters = << >> => Len(letters) = 0
  OBVIOUS
<1>4. letters = << >> => \A j \in 1..Len(letters) : letters[j] \notin DOMAIN Numeral
  BY <1>3
<1>5. QED
  BY <1>1, <1>2, <1>4 DEF DepthTexts

LEMMA DeviceWith ==
    ASSUME NEW p, NEW b \in Bounds, NEW letters
    PROVE  /\ WithDevice(p, b, letters) \in Bounds
           /\ WithDevice(p, b, letters).last = b.last
           /\ WithDevice(p, b, letters).floor = b.floor
           /\ WithDevice(p, b, letters).malformed = b.malformed
           /\ WithDevice(p, b, letters).device <=>
                  b.device \/ \E k \in DOMAIN letters : Short(<<letters[k]>>) \in p.deviceFlags
           /\ (\A k \in DOMAIN letters : Short(<<letters[k]>>) \notin p.deviceFlags)
                  => WithDevice(p, b, letters) = b
<1> DEFINE on == \E k \in DOMAIN letters : Short(<<letters[k]>>) \in p.deviceFlags
           device == b.device \/ on
           w == WithDevice(p, b, letters)
<1>1. w = [b EXCEPT !.device = device]
  BY DEF WithDevice
<1>2. device \in BOOLEAN /\ b.device \in BOOLEAN
  BY DEF Bounds
<1>3. ~on => device = b.device
  <2> HIDE DEF on
  <2> QED
    BY <1>2
<1> HIDE DEF device, w
<1>4. w \in Bounds /\ w.last = b.last /\ w.floor = b.floor /\ w.malformed = b.malformed
      /\ w.device = device
  BY <1>1, <1>2 DEF Bounds
<1>5. device = b.device => w = b
  BY <1>1 DEF Bounds
<1>6. device <=> b.device \/ on
  BY DEF device
<1>7. QED
  BY <1>3, <1>4, <1>5, <1>6 DEF w

\* Letters bound a walk as the scan has it.
LEMMA LettersBound ==
    ASSUME NEW p, GetoptTool(p), NEW b \in Bounds, NEW r \in Reading,
           r.runs => SameBounds(p, b, r), NEW letters \in Seq(Atom)
    PROVE  LET s == TellLetters(p, r, letters)
               c == ApplyTexts(p, WithDevice(p, b, letters), DepthTexts(p, letters))
           IN  /\ c \in Bounds /\ s \in Reading
               /\ s.runs => SameBounds(p, c, s) /\ r.runs
<1> DEFINE F == Among(letters)
           w == Switch(p, r, F)
           e == WithDevice(p, b, letters)
           texts == DepthTexts(p, letters)
           s == TellLetters(p, r, letters)
           c == ApplyTexts(p, e, texts)
<1>1. texts \in Seq(Seq(Atom))
  BY DepthTextsAre
<1>2. e \in Bounds /\ e.last = b.last /\ e.floor = b.floor /\ e.malformed = b.malformed
  BY DeviceWith
<1>3. e.device <=> b.device \/ \E k \in DOMAIN letters : Short(<<letters[k]>>) \in p.deviceFlags
  BY DeviceWith
<1>4. F \cap p.deviceFlags # {} <=> \E k \in DOMAIN letters : Short(<<letters[k]>>) \in p.deviceFlags
  BY DEF Among, ToSet
<1>5. F \cap p.deviceOff = {}
  <2>1. \A f \in p.deviceOff : f.kind = "long"
    BY DEF GetoptTool
  <2>2. \A f \in F : f.kind = "short"
    BY Kinds DEF Among
  <2>3. QED
    BY <2>1, <2>2
<1>6. w \in Reading /\ w.depth = r.depth /\ w.floor = r.floor /\ w.runs = r.runs
      /\ (w.device <=> F \cap p.deviceFlags # {} \/ r.device)
  <2> HIDE DEF F
  <2>1. /\ w \in Reading /\ w.depth = r.depth /\ w.floor = r.floor /\ w.runs = r.runs
        /\ w.device <=> \/ F \cap p.deviceFlags # {}
                        \/ F \cap p.deviceOff = {} /\ r.device
    BY Switched
  <2>2. QED
    BY <1>5, <2>1
<1>7. s = TellDepths(p, w, texts)
  BY DEF TellLetters, Among, DepthTexts
<1>8. w.runs => SameBounds(p, e, w)
  <2>1. e.device \in BOOLEAN /\ w.device \in BOOLEAN
    BY <1>2, <1>6 DEF Bounds, Reading
  <2> HIDE DEF e, w, F
  <2>2. QED
    BY <1>2, <1>3, <1>4, <1>6, <2>1 DEF SameBounds
<1> HIDE DEF e, w, F, texts, s, c
<1>9. /\ ApplyTexts(p, e, texts) \in Bounds
      /\ s.runs => SameBounds(p, ApplyTexts(p, e, texts), s)
      /\ s \in Reading /\ (s.runs => w.runs)
  BY <1>1, <1>2, <1>6, <1>7, <1>8, TextsApplied
<1>10. QED
  BY <1>6, <1>9 DEF s, c, e, texts

\* A token without letters says nothing of them.
LEMMA QuietCluster ==
    ASSUME NEW p, GetoptTool(p), NEW argv, NEW i, NEW b \in Bounds,
           Cluster(p, argv[i]) = NoCluster
    PROVE  ClusterBounds(p, argv, i, b) = b
<1>1. NoCluster.letters = << >> /\ NoCluster.flag = None
  BY DEF NoCluster
<1>2. None \notin p.depthFlags
  <2>1. \A f \in p.depthFlags : IsFlag(f)
    BY DEF GetoptTool, ValueFlags
  <2>2. QED
    BY <2>1, FlagFacts
<1>3. ClusterBounds(p, argv, i, b) =
          ApplyTexts(p, WithDevice(p, b, << >>), DepthTexts(p, << >>))
  BY <1>1, <1>2 DEF ClusterBounds, WithDevice, DepthTexts
<1>4. DepthTexts(p, << >>) = << >>
  <2>1. << >> \in Seq(Atom)
    OBVIOUS
  <2>2. QED
    BY <2>1, DepthTextsAre
<1>5. WithDevice(p, b, << >>) = b
  <2>1. DOMAIN << >> = {}
    OBVIOUS
  <2>2. QED
    BY <2>1, DeviceWith
<1>6. QED
  BY <1>3, <1>4, <1>5, NoTexts

LEMMA ClusterBounded ==
    ASSUME NEW p, NEW argv, NEW i, NEW b \in Bounds,
           Cluster(p, argv[i]).letters \in Seq(Atom)
    PROVE  ClusterBounds(p, argv, i, b) \in Bounds
<1> DEFINE c == Cluster(p, argv[i])
           e == WithDevice(p, b, c.letters)
           texts == DepthTexts(p, c.letters)
           digits == ApplyTexts(p, e, texts)
           r == [phase |-> "options", action |-> "none", depth |-> 0, floor |-> 0,
                 device |-> FALSE, pattern |-> FALSE, roots |-> << >>, base |-> NoText,
                 operands |-> << >>, runs |-> FALSE]
<1>1. e \in Bounds /\ texts \in Seq(Seq(Atom))
  BY DeviceWith, DepthTextsAre
<1>2. r \in Reading /\ ~r.runs
  BY DEF Reading, Actions, Text
<1>3. digits \in Bounds
  <2> HIDE DEF r, e, texts
  <2> QED
    BY <1>1, <1>2, TextsApplied
<1>4. ClusterBounds(p, argv, i, b) =
          IF c.flag \in p.depthFlags
          THEN ApplyText(p, digits, IF c.next THEN NextValue(argv, i) ELSE c.glued)
          ELSE digits
  BY DEF ClusterBounds, WithDevice, DepthTexts
<1> HIDE DEF c, digits
<1>5. QED
  BY <1>3, <1>4, TextApplied

\* What a token's letters are, if it has any.
LEMMA ClusterLetters ==
    ASSUME NEW p, GetoptTool(p), NEW t, IsToken(p, t)
    PROVE  /\ Cluster(p, t).letters \in Seq(Atom)
           /\ Cluster(p, t).next \in BOOLEAN
<1>1. CASE t.kind = "short"
  <2>1. t.text \in Seq(Atom)
    BY <1>1, TokenKinds
  <2>2. Eater(p, t) \in 0..Len(t.text)
    BY <1>1, ShortSize
  <2> DEFINE k == Eater(p, t)
  <2>3. k # 0 => SubSeq(t.text, 1, k) \in Seq(Atom)
    <3> HIDE DEF k
    <3> QED
      BY <2>1, <2>2 DEF k
  <2>4. Cluster(p, t).letters \in Seq(Atom)
    BY <1>1, <2>1, <2>3, ClusterFields
  <2>5. Cluster(p, t).next \in BOOLEAN
    BY DEF Cluster, NoCluster
  <2>6. QED
    BY <2>4, <2>5
<1>2. CASE t.kind # "short"
  <2>1. Cluster(p, t) = NoCluster
    BY <1>2 DEF Cluster
  <2>2. << >> \in Seq(Atom)
    OBVIOUS
  <2>3. QED
    BY <2>1, <2>2 DEF NoCluster
<1>3. QED
  BY <1>1, <1>2

LEMMA BoundsGoOn ==
    ASSUME NEW p, GetoptTool(p), NEW argv, IsArgv(p, argv), NEW i \in 1..Len(argv),
           NEW b \in Bounds
    PROVE  BoundsAt(p, argv, i, b) \in Places(Bounds) /\ BoundsAt(p, argv, i, b)[1] > i
<1> DEFINE n == Len(argv)
           t == argv[i]
           c == BoundsAt(p, argv, i, b)
           rest == SubSeq(t.text, 2, Len(t.text))
           glued == GluedTo(t, p.depthFlags) /\ IsDepth(rest)
           past == SkipExecBody(p, argv, i)
           on == [b EXCEPT !.device = TRUE]
           off == [b EXCEPT !.device = FALSE]
           by == ClusterBounds(p, argv, i, b)
           j == BoundsStep(p, argv, i)
<1>1. n \in Nat /\ i \in 1..n /\ IsToken(p, t)
  BY DEF IsArgv
<1>2. past \in Nat \ {0} /\ past > i
  BY <1>1, ExecBody
<1>3. by \in Bounds
  BY <1>1, ClusterLetters, ClusterBounded
<1>4. j \in {i + 1, i + 2}
  BY DEF BoundsStep, Width
<1>5. on \in Bounds /\ off \in Bounds
  BY DEF Bounds
<1>6. \A text : ApplyText(p, b, text) \in Bounds
  BY TextApplied
<1>7. c = IF t \in p.execFlags THEN <<past, b>>
          ELSE IF t = DashDash THEN <<n + 1, b>>
          ELSE IF t \in p.depthFlags
          THEN <<i + (IF i < n THEN 2 ELSE 1), ApplyText(p, b, NextValue(argv, i))>>
          ELSE IF AttachedTo(t, p.depthFlags) THEN <<i + 1, ApplyText(p, b, t.text)>>
          ELSE IF glued THEN <<i + 1, ApplyText(p, b, rest)>>
          ELSE IF DeviceOff(p, t) THEN <<i + 1, off>>
          ELSE IF DeviceOn(p, t) THEN <<i + 1, on>>
          ELSE <<j, by>>
  <2>1. p.rootMode # "leading"
    BY DEF GetoptTool
  <2>2. QED
    BY <2>1 DEF BoundsAt
<1> HIDE DEF c, t, rest, glued, past, on, off, by, j, n
<1>8. \E m \in {past, n + 1, i + 1, i + 2} : \E a \in Bounds : c = <<m, a>>
  BY <1>3, <1>4, <1>5, <1>6, <1>7
<1>9. PICK m \in {past, n + 1, i + 1, i + 2}, a \in Bounds : c = <<m, a>>
  BY <1>8
<1>10. m \in Nat \ {0} /\ m > i
  BY <1>1, <1>2
<1>11. QED
  BY <1>9, <1>10 DEF Places, c

\* What an operand leaves as it was.
OperandsApart(r, s) ==
    /\ s.action = r.action /\ s.depth = r.depth /\ s.floor = r.floor /\ s.device = r.device
    /\ s.pattern = r.pattern /\ s.roots = r.roots /\ s.base = r.base /\ s.runs = r.runs

LEMMA OperandSteps ==
    ASSUME NEW p, GetoptTool(p), NEW argv, IsArgv(p, argv), NEW i \in 1..Len(argv),
           NEW r \in Reading
    PROVE  LET t == argv[i]
               d == GetoptAt(p, argv, i, r)
           IN  /\ t.kind = "word" =>
                      /\ d[1] = i + 1 /\ OperandsApart(r, d[2])
                      /\ d[2].operands = Append(r.operands, t.text)
               /\ t = DashDash =>
                      /\ d[1] = Len(argv) + 1 /\ OperandsApart(r, d[2])
                      /\ d[2].operands = r.operands \o Rest(argv, i)
<1> DEFINE t == argv[i]
           d == GetoptAt(p, argv, i, r)
           one == Append(r.operands, t.text)
           all == r.operands \o Rest(argv, i)
           w(x) == [r EXCEPT !.operands = x]
<1>1. \A x : w(x).operands = x /\ OperandsApart(r, w(x))
  BY DEF OperandsApart, Reading
<1>2. t.kind = "word" => d = <<i + 1, w(one)>>
  BY DEF GetoptAt
<1>3. t = DashDash => d = <<Len(argv) + 1, w(all)>>
  <2>1. t = DashDash => t.kind = "dashdash"
    BY Kinds
  <2>2. QED
    BY <2>1 DEF GetoptAt
<1> HIDE DEF d, w, one, all
<1>4. t.kind = "word" => d[1] = i + 1 /\ OperandsApart(r, d[2]) /\ d[2].operands = one
  BY <1>1, <1>2
<1>5. t = DashDash => d[1] = Len(argv) + 1 /\ OperandsApart(r, d[2]) /\ d[2].operands = all
  BY <1>1, <1>3
<1>6. QED
  BY <1>4, <1>5 DEF d, one, all

\* The bounds that the tool comes to, the scan comes to.
BoundsMeet(p, c, d) == c[1] = d[1] /\ (d[2].runs => SameBounds(p, c[2], d[2]))

LEMMA BoundsAtOther ==
    ASSUME NEW p, GetoptTool(p), NEW argv, IsArgv(p, argv), NEW i \in 1..Len(argv),
           NEW b \in Bounds, NEW r \in Reading, r.runs => SameBounds(p, b, r),
           argv[i].kind \in {"word", "dashdash"} \/ argv[i] \in p.execFlags
    PROVE  BoundsMeet(p, BoundsAt(p, argv, i, b), GetoptAt(p, argv, i, r))
<1> DEFINE t == argv[i]
           n == Len(argv)
           c == BoundsAt(p, argv, i, b)
           d == GetoptAt(p, argv, i, r)
<1>1. IsToken(p, t)
  BY DEF IsArgv
<1>2. \A f \in ValueFlags(p) \cup Switches(p) : IsFlag(f)
  BY DEF GetoptTool
<1>3. p.execFlags \subseteq ValueFlags(p) /\ p.rootMode # "leading"
      /\ \A f \in p.execFlags : f.kind = "short"
  BY DEF GetoptTool
<1>5. CASE t.kind = "word"
  <2>1. /\ Cluster(p, t) = NoCluster
        /\ \A F : Resolve(p, t, F) = None /\ ~GluedTo(t, F) /\ ~AttachedTo(t, F)
    BY <1>5, PlainToken
  <2>2. t \notin ValueFlags(p) \cup Switches(p)
    BY <1>2, <1>5, PlainToken
  <2>3. t # DashDash
    BY <1>1, <1>5, TokenKinds
  <2>4. ClusterBounds(p, argv, i, b) = b
    BY <2>1, QuietCluster
  <2>5. ~DeviceOff(p, t) /\ ~DeviceOn(p, t) /\ t \notin p.execFlags /\ t \notin p.depthFlags
        /\ t \notin ValueFlags(p)
    BY <1>3, <2>1, <2>2 DEF DeviceOff, DeviceOn, Switches, ValueFlags
  <2>6. BoundsStep(p, argv, i) = i + 1
    <3>1. NoCluster.flag = None
      BY DEF NoCluster
    <3> HIDE DEF t
    <3>2. QED
      BY <2>1, <2>5, <3>1 DEF BoundsStep, t
  <2>7. c = <<i + 1, b>>
    <3> HIDE DEF t
    <3> QED
      BY <2>1, <2>3, <2>4, <2>5, <2>6 DEF BoundsAt, t
  <2>8. d[1] = i + 1 /\ OperandsApart(r, d[2])
    BY <1>5, OperandSteps
  <2> HIDE DEF c, d
  <2>9. QED
    BY <2>7, <2>8 DEF BoundsMeet, SameBounds, OperandsApart, c, d
<1>6. CASE t.kind = "dashdash"
  <2>1. t = DashDash
    BY <1>1, <1>6, TokenKinds
  <2>2. t \notin p.execFlags
    BY <1>2, <1>3, <2>1, FlagFacts
  <2>3. c = <<n + 1, b>>
    BY <1>3, <2>1, <2>2 DEF BoundsAt
  <2>4. d[1] = n + 1 /\ OperandsApart(r, d[2])
    BY <2>1, OperandSteps
  <2> HIDE DEF c, d
  <2>5. QED
    BY <2>3, <2>4 DEF BoundsMeet, SameBounds, OperandsApart, c, d
<1>7. CASE t \in p.execFlags
  <2>1. c = <<SkipExecBody(p, argv, i), b>>
    BY <1>7 DEF BoundsAt
  <2>2. d = <<SkipExecBody(p, argv, i), r>>
    BY <1>3, <1>7, OtherSteps
  <2> HIDE DEF c, d
  <2>3. QED
    BY <2>1, <2>2 DEF BoundsMeet, c, d
<1>8. QED
  BY <1>5, <1>6, <1>7

\* A depth that the tool takes, or another value.
LEMMA ValueBounds ==
    ASSUME NEW p, NEW b \in Bounds, NEW r \in Reading, r.runs => SameBounds(p, b, r),
           NEW flag, NEW v \in Text, v # NoText
    PROVE  LET s == Tell(p, r, flag, v)
           IN  s.runs => SameBounds(p, IF flag \in p.depthFlags THEN ApplyText(p, b, v) ELSE b, s)
<1> DEFINE s == Tell(p, r, flag, v)
           z == TellDepth(p, r, v)
           e == ApplyText(p, b, v)
<1>1. /\ s.device = r.device /\ (s.runs => r.runs)
      /\ flag \in p.depthFlags => s.depth = z.depth /\ s.floor = z.floor /\ (s.runs => z.runs)
      /\ flag \notin p.depthFlags => s.depth = r.depth /\ s.floor = r.floor
  BY ONLY r \in Reading, v \in Text, Told
<1>2. z \in Reading /\ z.device = r.device /\ (z.runs => r.runs)
  BY DepthTold
<1>3. z.runs => SameBounds(p, e, z)
  BY <1>2, DepthAgrees
<1> HIDE DEF s, z, e
<1>4. CASE flag \in p.depthFlags
  BY <1>1, <1>2, <1>3, <1>4 DEF SameBounds, s, e
<1>5. CASE flag \notin p.depthFlags
  BY <1>1, <1>5 DEF SameBounds, s
<1>6. QED
  BY <1>4, <1>5

LEMMA BoundsAtLong ==
    ASSUME NEW p, GetoptTool(p), NEW argv, IsArgv(p, argv), NEW i \in 1..Len(argv),
           NEW b \in Bounds, NEW r \in Reading, r.runs => SameBounds(p, b, r),
           argv[i].kind = "long"
    PROVE  \/ Stops(argv, GetoptAt(p, argv, i, r))
           \/ BoundsMeet(p, BoundsAt(p, argv, i, b), GetoptAt(p, argv, i, r))
<1> DEFINE t == argv[i]
           m == Meant(p, t)
           n == Len(argv)
           c == BoundsAt(p, argv, i, b)
           d == GetoptAt(p, argv, i, r)
           on == [b EXCEPT !.device = TRUE]
           off == [b EXCEPT !.device = FALSE]
           j == BoundsStep(p, argv, i)
<1>1. IsToken(p, t) /\ n \in Nat
  BY DEF IsArgv
<1>2. t = LongIs(t.name, t.text) /\ t # DashDash /\ t.kind = "long"
  BY <1>1, TokenKinds, Kinds
<1>3. /\ ValueFlags(p) \cap Switches(p) = {} /\ p.depthFlags \subseteq ValueFlags(p)
      /\ ValueFlags(p) \in SUBSET Flags(p) /\ p.depthFlags \in SUBSET Flags(p)
      /\ p.deviceFlags \in SUBSET Flags(p) /\ p.deviceOff \in SUBSET Flags(p)
      /\ p.deviceFlags \cap p.deviceOff = {}
      /\ p.deviceFlags \cup p.deviceOff \subseteq Switches(p)
      /\ p.abbreviates => p.depthFlags = {}
  BY DEF GetoptTool, Flags, Switches, ValueFlags
<1>4. \A F \in SUBSET Flags(p) :
          /\ t \in F <=> t.text = NoText /\ Long(t.name) \in F
          /\ AttachedTo(t, F) <=> t.text # NoText /\ Long(t.name) \in F
          /\ ~GluedTo(t, F) /\ Cluster(p, t) = NoCluster
  BY <1>2, LongIn
<1>5. m # None => \A F \in SUBSET Flags(p) :
          m \in F <=> Long(t.name) \in F \/ Resolve(p, t, F) # None
  BY <1>2, LongMeans
<1>6. ~p.abbreviates => \A F \in SUBSET Flags(p) : Resolve(p, t, F) = None
  BY <1>2, LongMeans
<1>7. t \notin p.execFlags /\ p.rootMode # "leading"
  BY <1>2 DEF GetoptTool
<1>8. ClusterBounds(p, argv, i, b) = b
  BY <1>3, <1>4, QuietCluster
<1>9. j = IF Resolve(p, t, ValueFlags(p)) # None THEN i + Width(t)
          ELSE i + (IF t \in ValueFlags(p) THEN 2 ELSE 1)
  <2>1. Cluster(p, t) = NoCluster /\ NoCluster.flag = None
    BY <1>3, <1>4 DEF NoCluster
  <2>2. QED
    BY <2>1 DEF BoundsStep
<1>10. c = IF t \in p.depthFlags
           THEN <<i + (IF i < n THEN 2 ELSE 1), ApplyText(p, b, NextValue(argv, i))>>
           ELSE IF AttachedTo(t, p.depthFlags) THEN <<i + 1, ApplyText(p, b, t.text)>>
           ELSE IF DeviceOff(p, t) THEN <<i + 1, off>>
           ELSE IF DeviceOn(p, t) THEN <<i + 1, on>>
           ELSE <<j, b>>
  <2>1. ~GluedTo(t, p.depthFlags)
    BY <1>3, <1>4
  <2> HIDE DEF t
  <2>2. QED
    BY <1>2, <1>7, <1>8, <2>1 DEF BoundsAt, t
<1>11. m # None =>
           /\ m \in p.depthFlags <=> Long(t.name) \in p.depthFlags
           /\ m \in p.deviceOff <=> Long(t.name) \in p.deviceOff \/ Resolve(p, t, p.deviceOff) # None
           /\ m \in p.deviceFlags <=> Long(t.name) \in p.deviceFlags
                                      \/ Resolve(p, t, p.deviceFlags) # None
           /\ m \in ValueFlags(p) <=> Long(t.name) \in ValueFlags(p)
                                      \/ Resolve(p, t, ValueFlags(p)) # None
  <2>1. p.depthFlags # {} => Resolve(p, t, p.depthFlags) = None
    BY <1>3, <1>6
  <2>2. Resolve(p, t, {}) = None
    <3>1. \A S : S = {} => Cardinality(S) # 1
      BY FS_EmptySet
    <3>2. QED
      BY <3>1 DEF Resolve
  <2> HIDE DEF m
  <2>3. QED
    BY <1>3, <1>5, <2>1, <2>2
<1>12. CASE m \in ValueFlags(p)
  <2> DEFINE v == IF t.text # NoText THEN t.text ELSE ValueOf(argv[i + 1])
             w == Tell(p, r, m, v)
             e == IF m \in p.depthFlags THEN ApplyText(p, b, v) ELSE b
  <2>1. m # None
    <3>1. \A f \in ValueFlags(p) : IsFlag(f)
      BY DEF GetoptTool
    <3>2. QED
      BY <1>12, <3>1, FlagFacts
  <2>2. OptionFlag(p, t) = m /\ Attached(p, t) = t.text /\ ReadBefore(p, r, t) = r
        /\ ValueAt(p, argv, i) = v
    BY <1>2 DEF OptionFlag, Attached, ReadBefore, ValueAt
  <2>3. \/ Stops(argv, d)
        \/ /\ t.text # NoText \/ i < n
           /\ v \in Text /\ v # NoText
           /\ d = <<IF t.text # NoText THEN i + 1 ELSE i + 2, w>>
    BY <1>2, <1>7, <1>12, <2>2, ValueStep
  <2>4. SUFFICES ASSUME /\ t.text # NoText \/ i < n
                        /\ v \in Text /\ v # NoText
                        /\ d = <<IF t.text # NoText THEN i + 1 ELSE i + 2, w>>
                 PROVE  BoundsMeet(p, c, d)
    BY <2>3
  <2>5. w.runs => SameBounds(p, e, w)
    <3>1. v \in Text /\ v # NoText
      BY <2>4
    <3> HIDE DEF v, m
    <3>2. QED
      BY <3>1, ValueBounds
  <2>6. c = <<IF t.text # NoText THEN i + 1 ELSE i + 2, e>>
    <3>1. CASE m \in p.depthFlags
      <4>1. t.text = NoText => i < n /\ NextValue(argv, i) = v
        BY <2>4 DEF NextValue
      <4>2. t.text # NoText => v = t.text
        OBVIOUS
      <4>3. t \in p.depthFlags <=> t.text = NoText
        BY <1>3, <1>4, <1>11, <2>1, <3>1
      <4>4. AttachedTo(t, p.depthFlags) <=> t.text # NoText
        BY <1>3, <1>4, <1>11, <2>1, <3>1
      <4>5. e = ApplyText(p, b, v)
        BY <3>1
      <4> HIDE DEF v, e, c, t, j, n, on, off
      <4>6. QED
        BY <1>10, <4>1, <4>2, <4>3, <4>4, <4>5
    <3>2. CASE m \notin p.depthFlags
      <4>1. t \notin p.depthFlags /\ ~AttachedTo(t, p.depthFlags)
        BY <1>3, <1>4, <1>11, <2>1, <3>2
      <4>2. m \notin p.deviceOff /\ m \notin p.deviceFlags
        BY <1>3, <1>12
      <4>3. ~DeviceOff(p, t) /\ ~DeviceOn(p, t)
        BY <1>3, <1>4, <1>11, <2>1, <4>2 DEF DeviceOff, DeviceOn
      <4>4. j = IF t.text # NoText THEN i + 1 ELSE i + 2
        <5>1. Long(t.name) \in ValueFlags(p) \/ Resolve(p, t, ValueFlags(p)) # None
          BY <1>11, <1>12, <2>1
        <5>2. t \in ValueFlags(p) <=> t.text = NoText /\ Long(t.name) \in ValueFlags(p)
          BY <1>3, <1>4
        <5>3. Width(t) = IF t.text = NoText THEN 2 ELSE 1
          BY DEF Width
        <5>4. CASE Resolve(p, t, ValueFlags(p)) # None
          BY <1>9, <5>3, <5>4
        <5>5. CASE Resolve(p, t, ValueFlags(p)) = None
          <6>1. t.text = NoText => j = i + 2
            BY <1>9, <5>1, <5>2, <5>5
          <6>2. t.text # NoText => j = i + 1
            BY <1>9, <5>2, <5>5
          <6>3. QED
            BY <6>1, <6>2
        <5>6. QED
          BY <5>4, <5>5
      <4>5. e = b
        BY <3>2
      <4> HIDE DEF v, e, c, t, j, n, on, off
      <4>6. QED
        BY <1>10, <4>1, <4>3, <4>4, <4>5
    <3>3. QED
      BY <3>1, <3>2
  <2> HIDE DEF w, c, d, v, e
  <2>7. QED
    BY <2>4, <2>5, <2>6 DEF BoundsMeet
<1>13. CASE m \notin ValueFlags(p)
  <2> DEFINE w == Flipped(p, r, t)
  <2>1. \/ Stops(argv, d)
        \/ m # None /\ t.text = NoText /\ d = <<i + 1, w>>
    BY <1>2, <1>13, SwitchStep
  <2>2. SUFFICES ASSUME m # None, t.text = NoText, d = <<i + 1, w>>
                 PROVE  BoundsMeet(p, c, d)
    BY <2>1
  <2>3. /\ w.depth = r.depth /\ w.floor = r.floor /\ w.runs = r.runs
        /\ w.device <=> m \in p.deviceFlags \/ (m \notin p.deviceOff /\ r.device)
        /\ w.device \in BOOLEAN
    <3> DEFINE F == {m}
    <3>1. /\ w \in Reading /\ w.depth = r.depth /\ w.floor = r.floor /\ w.runs = r.runs
          /\ w.device <=> \/ F \cap p.deviceFlags # {}
                          \/ F \cap p.deviceOff = {} /\ r.device
      BY Switched DEF Flipped
    <3>2. (F \cap p.deviceFlags # {} <=> m \in p.deviceFlags)
          /\ (F \cap p.deviceOff = {} <=> m \notin p.deviceOff)
      OBVIOUS
    <3>3. w \in Reading => w.device \in BOOLEAN
      <4> HIDE DEF w
      <4> QED
        BY DEF Reading
    <3> HIDE DEF F, w
    <3>4. QED
      BY <3>1, <3>2, <3>3
  <2>4. t \notin p.depthFlags /\ ~AttachedTo(t, p.depthFlags)
    BY <1>3, <1>4, <1>11, <1>13, <2>2
  <2>5. (DeviceOff(p, t) <=> m \in p.deviceOff) /\ (DeviceOn(p, t) <=> m \in p.deviceFlags)
    BY <1>3, <1>4, <1>11, <2>2 DEF DeviceOff, DeviceOn
  <2>6. j = i + 1
    BY <1>3, <1>4, <1>9, <1>11, <1>13, <2>2
  <2>7. on.device = TRUE /\ off.device = FALSE
        /\ on.last = b.last /\ off.last = b.last /\ on.floor = b.floor /\ off.floor = b.floor
        /\ on.malformed = b.malformed /\ off.malformed = b.malformed /\ b.device \in BOOLEAN
    BY DEF Bounds
  <2>8. c[1] = i + 1 /\ c[2] \in {on, off, b}
        /\ (c[2].device <=> m \in p.deviceFlags \/ (m \notin p.deviceOff /\ b.device))
        /\ c[2].device \in BOOLEAN
        /\ c[2].last = b.last /\ c[2].floor = b.floor /\ c[2].malformed = b.malformed
    <3> HIDE DEF c, on, off, j, t, m
    <3>1. CASE m \in p.deviceOff
      <4>1. c = <<i + 1, off>>
        BY <1>10, <2>4, <2>5, <3>1
      <4>2. m \notin p.deviceFlags
        BY <1>3, <3>1
      <4>3. QED
        BY <2>7, <3>1, <4>1, <4>2
    <3>2. CASE m \notin p.deviceOff /\ m \in p.deviceFlags
      <4>1. c = <<i + 1, on>>
        BY <1>10, <2>4, <2>5, <3>2
      <4>2. QED
        BY <2>7, <3>2, <4>1
    <3>3. CASE m \notin p.deviceOff /\ m \notin p.deviceFlags
      <4>1. c = <<i + 1, b>>
        BY <1>10, <2>4, <2>5, <2>6, <3>3
      <4>2. QED
        BY <2>7, <3>3, <4>1
    <3>4. QED
      BY <3>1, <3>2, <3>3
  <2>9. r.runs => SameBounds(p, c[2], w)
    <3> HIDE DEF c, w, on, off, m
    <3> QED
      BY <2>3, <2>8 DEF SameBounds
  <2> HIDE DEF w, c, d
  <2>10. QED
    BY <2>2, <2>3, <2>8, <2>9 DEF BoundsMeet
<1>14. QED
  BY <1>12, <1>13

\* What the scan makes of the letters of a token, with the value of the one that
\* takes it.
LEMMA ClusterBoundsAre ==
    ASSUME NEW p, GetoptTool(p), NEW argv, NEW i, IsToken(p, argv[i]), argv[i].kind = "short",
           NEW b \in Bounds
    PROVE  LET t == argv[i]
               k == Eater(p, t)
               letters == IF k = 0 THEN t.text ELSE SubSeq(t.text, 1, k - 1)
               e == ApplyTexts(p, WithDevice(p, b, letters), DepthTexts(p, letters))
               flag == Short(<<t.text[k]>>)
           IN  /\ k = 0 => ClusterBounds(p, argv, i, b) = e
               /\ k # 0 => ClusterBounds(p, argv, i, b) =
                      IF flag \in p.depthFlags
                      THEN ApplyText(p, e, IF k = Len(t.text) THEN NextValue(argv, i)
                                           ELSE Glued(p, t))
                      ELSE e
               /\ k = 1 => e = b
<1> DEFINE t == argv[i]
           k == Eater(p, t)
           n == Len(t.text)
           flag == Short(<<t.text[k]>>)
           to == SubSeq(t.text, 1, k)
           before == SubSeq(t.text, 1, k - 1)
           E(letters) == ApplyTexts(p, WithDevice(p, b, letters), DepthTexts(p, letters))
           c == Cluster(p, t)
<1>1. t.text \in Seq(Atom) /\ Legible(p, t)
  BY TokenKinds
<1>2. n \in Nat /\ k \in 0..n /\ (k > 0 => flag \in ValueFlags(p))
  BY ShortSize
<1>3. /\ k = 0 => c.letters = t.text /\ c.flag = None
      /\ k # 0 => /\ c.letters = to /\ c.flag = flag /\ c.glued = Glued(p, t)
                  /\ (c.next <=> k = n)
  <2>1. IsToken(p, t) /\ t.kind = "short"
    OBVIOUS
  <2> HIDE DEF t
  <2>2. QED
    BY <2>1, ClusterFields
<1>4. ClusterBounds(p, argv, i, b) =
          IF c.flag \in p.depthFlags
          THEN ApplyText(p, E(c.letters), IF c.next THEN NextValue(argv, i) ELSE c.glued)
          ELSE E(c.letters)
  BY DEF ClusterBounds, WithDevice, DepthTexts
<1>5. None \notin p.depthFlags
  <2>1. \A f \in p.depthFlags : IsFlag(f)
    BY DEF GetoptTool, ValueFlags
  <2>2. QED
    BY <2>1, FlagFacts
<1>6. CASE k = 0
  <2> HIDE DEF E, c
  <2>1. ClusterBounds(p, argv, i, b) = E(t.text)
    BY <1>3, <1>4, <1>5, <1>6
  <2>2. QED
    BY <1>6, <2>1 DEF E
<1>7. CASE k # 0
  <2>1. k \in 1..n
    BY <1>2, <1>7
  <2>2. /\ to \in Seq(Atom) /\ before \in Seq(Atom) /\ Len(to) = k
        /\ ToSet(to) = ToSet(before) \cup {t.text[k]}
        /\ k = 1 => before = << >>
    <3> HIDE DEF k, n
    <3> QED
      BY <1>1, <2>1, LettersTo DEF n
  <2>3. flag \in ValueFlags(p) /\ flag \notin p.deviceFlags /\ t.text[k] \notin p.depthDigits
    <3>1. k > 0
      BY <2>1
    <3>2. flag \in ValueFlags(p)
      BY <1>2, <3>1
    <3>3. QED
      BY <3>2 DEF GetoptTool, Switches
  <2>4. DepthTexts(p, to) = << >>
    <3>1. t.text[k] \in ToSet(to)
      BY <2>2
    <3>2. QED
      BY <2>3, <3>1 DEF DepthTexts
  <2>5. DepthTexts(p, before) = << >>
    <3>1. CASE p.depthDigits = {}
      BY <3>1 DEF DepthTexts
    <3>2. CASE p.depthDigits # {}
      <4>1. \A j \in 1..k : j < k => t.text[j] \notin DOMAIN Numeral
        BY <1>1, <3>2 DEF Legible
      <4>2. \A j \in 1..Len(before) : j \in 1..k /\ j < k /\ before[j] = t.text[j]
        <5> HIDE DEF k
        <5> QED
          BY <1>1, <2>1
      <4>3. \A j \in 1..Len(before) : before[j] \notin DOMAIN Numeral
        <5> HIDE DEF k, before
        <5> QED
          BY <4>1, <4>2
      <4>4. QED
        BY <2>2, <4>3, DepthTextsAre
    <3>3. QED
      BY <3>1, <3>2
  <2>6. WithDevice(p, b, to) = WithDevice(p, b, before)
    <3>1. \A letters : (\E j \in DOMAIN letters : Short(<<letters[j]>>) \in p.deviceFlags)
                           <=> \E l \in ToSet(letters) : Short(<<l>>) \in p.deviceFlags
      BY DEF ToSet
    <3>2. (\E l \in ToSet(to) : Short(<<l>>) \in p.deviceFlags)
              <=> \E l \in ToSet(before) : Short(<<l>>) \in p.deviceFlags
      <4> HIDE DEF to, before
      <4> QED
        BY <2>2, <2>3
    <3> HIDE DEF to, before
    <3>3. (\E j \in DOMAIN to : Short(<<to[j]>>) \in p.deviceFlags)
              <=> \E j \in DOMAIN before : Short(<<before[j]>>) \in p.deviceFlags
      BY <3>1, <3>2
    <3>4. (b.device \/ \E j \in DOMAIN to : Short(<<to[j]>>) \in p.deviceFlags)
              = (b.device \/ \E j \in DOMAIN before : Short(<<before[j]>>) \in p.deviceFlags)
      BY <3>3
    <3>5. QED
      BY <3>4 DEF WithDevice
  <2>7. E(to) = E(before)
    BY <2>4, <2>5, <2>6
  <2>8. ClusterBounds(p, argv, i, b) =
            IF flag \in p.depthFlags
            THEN ApplyText(p, E(before), IF k = n THEN NextValue(argv, i) ELSE Glued(p, t))
            ELSE E(before)
    <3> HIDE DEF E, c, to, before, flag
    <3> QED
      BY <1>3, <1>4, <1>7, <2>7
  <2>9. k = 1 => E(before) = b
    <3>1. ASSUME k = 1 PROVE E(before) = b
      <4>1. before = << >>
        BY <2>2, <3>1
      <4>2. DepthTexts(p, before) = << >>
        BY <2>5
      <4>3. WithDevice(p, b, before) = b
        <5>1. DOMAIN before = {}
          <6> HIDE DEF before
          <6> QED
            BY <4>1
        <5> HIDE DEF before
        <5>2. QED
          BY <5>1, DeviceWith
      <4>4. QED
        BY <4>2, <4>3, NoTexts
    <3>2. QED
      BY <3>1
  <2> HIDE DEF E
  <2>10. QED
    BY <1>7, <2>8, <2>9 DEF E
<1>8. QED
  BY <1>6, <1>7

LEMMA BoundsAtShort ==
    ASSUME NEW p, GetoptTool(p), NEW argv, IsArgv(p, argv), NEW i \in 1..Len(argv),
           NEW b \in Bounds, NEW r \in Reading, r.runs => SameBounds(p, b, r),
           argv[i].kind = "short", argv[i] \notin p.execFlags
    PROVE  \/ Stops(argv, GetoptAt(p, argv, i, r))
           \/ BoundsMeet(p, BoundsAt(p, argv, i, b), GetoptAt(p, argv, i, r))
<1> DEFINE t == argv[i]
           n == Len(argv)
           len == Len(t.text)
           k == Eater(p, t)
           flag == Short(<<t.text[k]>>)
           rest == SubSeq(t.text, 2, len)
           c == BoundsAt(p, argv, i, b)
           d == GetoptAt(p, argv, i, r)
           on == [b EXCEPT !.device = TRUE]
           by == ClusterBounds(p, argv, i, b)
           j == BoundsStep(p, argv, i)
           letters == IF k = 0 THEN t.text ELSE SubSeq(t.text, 1, k - 1)
           e == ApplyTexts(p, WithDevice(p, b, letters), DepthTexts(p, letters))
           s == TellLetters(p, r, letters)
           glued == Glued(p, t)
<1>1. IsToken(p, t) /\ n \in Nat /\ t.kind = "short"
  BY DEF IsArgv
<1>2. t.text \in Seq(Atom) /\ t # DashDash
  BY <1>1, TokenKinds
<1>3. len \in Nat /\ len >= 1 /\ k \in 0..len /\ (k > 0 => flag \in ValueFlags(p))
      /\ \A F : Resolve(p, t, F) = None /\ ~AttachedTo(t, F)
  BY <1>1, ShortSize
<1>4. /\ p.depthFlags \in SUBSET ValueFlags(p) /\ ValueFlags(p) \cap p.deviceFlags = {}
      /\ p.deviceFlags \in SUBSET Flags(p) /\ p.rootMode # "leading"
      /\ p.depthDigits # {} => p.deviceFlags = {}
      /\ \A f \in p.deviceOff : f.kind = "long"
      /\ \A f \in ValueFlags(p) : IsFlag(f)
  BY DEF GetoptTool, Flags, Switches, ValueFlags
<1>5. /\ t \in p.depthFlags <=> k = 1 /\ len = 1 /\ flag \in p.depthFlags
      /\ GluedTo(t, p.depthFlags) <=> k = 1 /\ len # 1 /\ flag \in p.depthFlags
  BY <1>1, <1>4, ShortValue
<1>6. t \in ValueFlags(p) <=> k = 1 /\ len = 1 /\ flag \in ValueFlags(p)
  BY <1>1, ShortValue
<1>7. t \in p.deviceFlags <=> len = 1 /\ Short(<<t.text[1]>>) \in p.deviceFlags
  BY <1>1, <1>4, ShortFlag
<1>8. ~DeviceOff(p, t) /\ (DeviceOn(p, t) <=> t \in p.deviceFlags)
  BY <1>1, <1>3, <1>4 DEF DeviceOff, DeviceOn
<1>9. j = IF k = 0 THEN i + 1 ELSE i + (IF k = len THEN 2 ELSE 1)
  <2>1. /\ k = 0 => Cluster(p, t).flag = None /\ Cluster(p, t).next = FALSE
        /\ k # 0 => Cluster(p, t).flag = flag /\ (Cluster(p, t).next <=> k = len)
    <3> HIDE DEF t
    <3> QED
      BY <1>1, ClusterFields
  <2>2. k # 0 => flag # None
    <3>1. k # 0 => flag \in ValueFlags(p)
      BY <1>3
    <3>2. QED
      BY <1>4, <3>1, FlagFacts
  <2>3. k = 0 => t \notin ValueFlags(p)
    BY <1>6
  <2> HIDE DEF k, len, flag, t, j
  <2>4. QED
    BY <1>3, <2>1, <2>2, <2>3 DEF BoundsStep, j, t
<1>10. c = IF t \in p.depthFlags
           THEN <<i + (IF i < n THEN 2 ELSE 1), ApplyText(p, b, NextValue(argv, i))>>
           ELSE IF GluedTo(t, p.depthFlags) /\ IsDepth(rest) THEN <<i + 1, ApplyText(p, b, rest)>>
           ELSE IF t \in p.deviceFlags THEN <<i + 1, on>>
           ELSE <<j, by>>
  <2> HIDE DEF t, by, j
  <2> QED
    BY <1>2, <1>3, <1>4, <1>8 DEF BoundsAt, t, by, j
<1>11. letters \in Seq(Atom) /\ (k # 0 => Letters(p, t) = letters)
  <2>1. Letters(p, t) \in Seq(Atom)
        /\ Letters(p, t) = IF k = 0 THEN t.text ELSE SubSeq(t.text, 1, k - 1)
    BY <1>2, GluedText
  <2>2. QED
    BY <2>1
<1>12. e \in Bounds /\ s \in Reading /\ (s.runs => SameBounds(p, e, s) /\ r.runs)
  <2> HIDE DEF letters
  <2> QED
    BY <1>11, LettersBound
<1>13. /\ k = 0 => by = e
       /\ k # 0 => by = IF flag \in p.depthFlags
                        THEN ApplyText(p, e, IF k = len THEN NextValue(argv, i) ELSE glued)
                        ELSE e
       /\ k = 1 => e = b
  BY <1>1, ClusterBoundsAre
<1>14. CASE k = 0
  <2>1. Stops(argv, d) \/ d = <<i + 1, TellLetters(p, r, t.text)>>
    BY <1>1, <1>14, LettersStep
  <2>2. TellLetters(p, r, t.text) = s
    BY <1>14
  <2>3. c = <<i + 1, e>>
    <3>1. t \notin p.depthFlags /\ ~GluedTo(t, p.depthFlags)
      BY <1>5, <1>14
    <3>2. t \in p.deviceFlags => e = on
      <4> SUFFICES ASSUME t \in p.deviceFlags PROVE e = on
        OBVIOUS
      <4>1. DepthTexts(p, letters) = << >>
        BY <1>4 DEF DepthTexts
      <4>2. \E m \in DOMAIN letters : Short(<<letters[m]>>) \in p.deviceFlags
        <5>1. letters = t.text /\ 1 \in DOMAIN t.text
          BY <1>2, <1>3, <1>14
        <5>2. Short(<<t.text[1]>>) \in p.deviceFlags
          BY <1>7
        <5> HIDE DEF letters
        <5>3. QED
          BY <5>1, <5>2
      <4>3. WithDevice(p, b, letters) = on
        <5> DEFINE x == \E m \in DOMAIN letters : Short(<<letters[m]>>) \in p.deviceFlags
        <5>1. WithDevice(p, b, letters) = [b EXCEPT !.device = @ \/ x]
          BY DEF WithDevice
        <5>2. (b.device \/ x) = TRUE
          BY <4>2
        <5> HIDE DEF x
        <5>3. QED
          BY <5>1, <5>2
      <4>4. on \in Bounds
        BY DEF Bounds
      <4> HIDE DEF letters, on
      <4>5. QED
        BY <4>1, <4>3, <4>4, NoTexts
    <3> HIDE DEF c, by, e, on, j, k
    <3>3. QED
      BY <1>9, <1>10, <1>13, <1>14, <3>1, <3>2
  <2> HIDE DEF c, d, e, s, letters
  <2>4. d = <<i + 1, s>> => BoundsMeet(p, c, d)
    BY <1>12, <2>3 DEF BoundsMeet
  <2>5. QED
    BY <2>1, <2>2, <2>4 DEF c, d
<1>15. CASE k > 0
  <2> DEFINE v == IF glued # NoText THEN glued ELSE ValueOf(argv[i + 1])
             w == Tell(p, s, flag, v)
             z == IF flag \in p.depthFlags THEN ApplyText(p, e, v) ELSE e
  <2>0. k \in 1..len /\ k # 0 /\ flag \in ValueFlags(p)
    BY <1>3, <1>15
  <2>1. /\ OptionFlag(p, t) = flag /\ Attached(p, t) = glued
        /\ ValueAt(p, argv, i) = v
    BY <1>1, <2>0 DEF OptionFlag, Attached, ValueAt
  <2>2. ReadBefore(p, r, t) = s
    <3> HIDE DEF letters
    <3> QED
      BY <1>1, <1>11, <2>0 DEF ReadBefore
  <2>3. \/ Stops(argv, d)
        \/ /\ glued # NoText \/ i < n
           /\ v \in Text /\ v # NoText
           /\ d = <<IF glued # NoText THEN i + 1 ELSE i + 2, w>>
    <3>1. OptionFlag(p, t) \in ValueFlags(p) /\ t.kind \in {"long", "short"}
      BY <1>1, <2>0, <2>1
    <3>2. QED
      BY <2>1, <2>2, <3>1, ValueStep
  <2>4. SUFFICES ASSUME /\ glued # NoText \/ i < n
                        /\ v \in Text /\ v # NoText
                        /\ d = <<IF glued # NoText THEN i + 1 ELSE i + 2, w>>
                 PROVE  BoundsMeet(p, c, d)
    BY <2>3
  <2>5. w.runs => SameBounds(p, z, w)
    <3>1. v \in Text /\ v # NoText
      BY <2>4
    <3> HIDE DEF v, flag, e, s
    <3>2. QED
      BY <1>12, <3>1, ValueBounds
  <2>6. glued = NoText <=> k = len
    BY <1>2, GluedText
  <2>7. v = IF k = len THEN NextValue(argv, i) ELSE glued
    <3> HIDE DEF glued
    <3> QED
      BY <2>4, <2>6 DEF NextValue
  <2>8. by = z
    <3> HIDE DEF by, e, v, glued, flag, k, len
    <3> QED
      BY <1>13, <2>0, <2>7 DEF z
  <2>9. t \notin p.deviceFlags
    <3>1. len = 1 => k = 1
      BY <2>0
    <3>2. len = 1 => Short(<<t.text[1]>>) = flag
      BY <3>1
    <3>3. QED
      BY <1>4, <1>7, <2>0, <3>2
  <2>10. c = <<IF glued # NoText THEN i + 1 ELSE i + 2, z>>
    <3>1. CASE t \in p.depthFlags
      <4>1. k = 1 /\ len = 1 /\ flag \in p.depthFlags /\ e = b /\ glued = NoText
        BY <1>5, <1>13, <2>6, <3>1
      <4>2. i < n /\ v = NextValue(argv, i)
        <5> HIDE DEF glued
        <5> QED
          BY <2>4, <2>7, <4>1
      <4>3. c = <<i + 2, ApplyText(p, b, v)>>
        <5> HIDE DEF c, v
        <5> QED
          BY <1>10, <3>1, <4>2
      <4>4. z = ApplyText(p, b, v)
        <5> HIDE DEF e, v, flag
        <5> QED
          BY <4>1
      <4> HIDE DEF z, c, glued, v
      <4>5. QED
        BY <4>1, <4>3, <4>4
    <3>2. CASE t \notin p.depthFlags /\ GluedTo(t, p.depthFlags) /\ IsDepth(rest)
      <4>1. k = 1 /\ len # 1 /\ flag \in p.depthFlags /\ e = b /\ glued = rest /\ glued # NoText
        <5>1. k = 1 /\ len # 1 /\ flag \in p.depthFlags /\ e = b
          BY <1>5, <1>13, <3>2
        <5>2. glued = rest
          BY <5>1 DEF Glued
        <5>3. QED
          BY <2>6, <5>1, <5>2
      <4>2. v = rest
        <5> HIDE DEF glued, rest
        <5> QED
          BY <4>1
      <4>3. c = <<i + 1, ApplyText(p, b, v)>>
        <5> HIDE DEF c, v, rest
        <5> QED
          BY <1>10, <3>2, <4>2
      <4>4. z = ApplyText(p, b, v)
        <5> HIDE DEF e, v, flag
        <5> QED
          BY <4>1
      <4> HIDE DEF z, c, glued, v
      <4>5. QED
        BY <4>1, <4>3, <4>4
    <3>3. CASE t \notin p.depthFlags /\ ~(GluedTo(t, p.depthFlags) /\ IsDepth(rest))
      <4> HIDE DEF c, j, by, z, glued, k, len, rest, t
      <4> QED
        BY <1>9, <1>10, <2>0, <2>6, <2>8, <2>9, <3>3
    <3>4. QED
      BY <3>1, <3>2, <3>3
  <2> HIDE DEF w, c, d, z, glued
  <2>11. QED
    BY <2>4, <2>5, <2>10 DEF BoundsMeet
<1>16. QED
  <2>1. k = 0 \/ k > 0
    BY <1>3
  <2>2. QED
    BY <1>14, <1>15, <2>1

\* The bounds of a command are read as its tool takes them.
LEMMA BoundsReadAs ==
    ASSUME NEW p, GetoptTool(p), NEW argv, IsArgv(p, argv)
    PROVE  /\ ScanBounds(p, argv) \in Bounds
           /\ Read(p, argv).runs => SameBounds(p, ScanBounds(p, argv), Read(p, argv))
<1> DEFINE n == Len(argv)
           step == [c \in (1..n) \X Bounds |-> BoundsAt(p, argv, c[1], c[2])]
           R == {x \in Bounds \X Reading : x[2].runs => SameBounds(p, x[1], x[2])}
           a == Unbounded
           Q == Bounds
<1>1. n \in Nat
  BY DEF IsArgv
<1>2. Advances(n, Bounds, step)
  <2>1. \A c \in (1..n) \X Bounds :
            BoundsAt(p, argv, c[1], c[2]) \in Places(Bounds)
            /\ BoundsAt(p, argv, c[1], c[2])[1] > c[1]
    BY <1>1, BoundsGoOn
  <2>2. QED
    BY <2>1 DEF Advances
<1>3. \A i \in 1..n : \A x \in R :
          LET c == step[<<i, x[1]>>]
              d == GetoptAt(p, argv, i, x[2])
          IN  Stops(argv, d) \/ (c[1] = d[1] /\ <<c[2], d[2]>> \in R)
  <2> SUFFICES ASSUME NEW i \in 1..n, NEW x \in R
               PROVE  LET c == step[<<i, x[1]>>]
                          d == GetoptAt(p, argv, i, x[2])
                      IN  Stops(argv, d) \/ (c[1] = d[1] /\ <<c[2], d[2]>> \in R)
    OBVIOUS
  <2> DEFINE b == x[1]
             r == x[2]
             c == BoundsAt(p, argv, i, b)
             d == GetoptAt(p, argv, i, r)
  <2>1. b \in Bounds /\ r \in Reading /\ (r.runs => SameBounds(p, b, r))
    OBVIOUS
  <2>2. step[<<i, x[1]>>] = c
    BY <2>1
  <2>3. c \in Places(Bounds) /\ d \in Places(Reading)
    BY <1>1, <2>1, BoundsGoOn, GetoptGoesOn
  <2>4. argv[i].kind \in {"word", "dashdash", "long", "short"}
    BY TokenKinds DEF IsArgv
  <2>5. Stops(argv, d) \/ BoundsMeet(p, c, d)
    <3> HIDE DEF b, r
    <3> QED
      BY <2>1, <2>4, BoundsAtOther, BoundsAtLong, BoundsAtShort
  <2>6. BoundsMeet(p, c, d) => c[1] = d[1] /\ <<c[2], d[2]>> \in R
    <3> HIDE DEF c, d
    <3> QED
      BY <2>3 DEF BoundsMeet, Places
  <2> HIDE DEF c, d, step, R
  <2>7. QED
    BY <2>2, <2>5, <2>6 DEF d
<1>4. a \in Bounds
  BY DEF Unbounded, Bounds, NoDepth
<1>5. Nothing(p) \in Reading /\ SameBounds(p, a, Nothing(p))
  <2>1. p.dirAction \in Actions
    BY DEF GetoptTool
  <2>2. Nothing(p) \in Reading
    BY <2>1, NothingRead
  <2>3. QED
    BY <2>2 DEF SameBounds, Unbounded, Nothing
<1>6. R \in SUBSET (Bounds \X Reading) /\ <<a, Nothing(p)>> \in R
  BY <1>4, <1>5
<1>7. ScanBounds(p, argv) = Scan(n, Bounds, step, a)
  BY DEF ScanBounds
<1>8. \A i \in 1..n : \A q \in Q : step[<<i, q>>][2] \in Q
  <2>1. \A i \in 1..n : \A q \in Bounds : step[<<i, q>>] \in Places(Bounds)
    <3> HIDE DEF step
    <3> QED
      BY <1>2 DEF Advances
  <2> HIDE DEF step
  <2>2. QED
    BY <2>1 DEF Places
<1>9. Q \in SUBSET Bounds /\ a \in Q
  BY <1>4
<1> HIDE DEF step, R, a, Q
<1>10. Read(p, argv).runs => <<Scan(n, Bounds, step, a), Read(p, argv)>> \in R
  BY <1>2, <1>3, <1>6, ReadsAlong
<1> HIDE DEF n
<1>11. Scan(n, Bounds, step, a) \in Q
  BY <1>1, <1>2, <1>8, <1>9, ScanKeeps
<1>12. QED
  BY <1>7, <1>10, <1>11 DEF R, Q

-----------------------------------------------------------------------------
(* What is walked. *)

\* An option with its value, and what it says of where a walk starts.
TakesValue(p, t) ==
    t.kind \in {"long", "short"} /\ t \notin p.execFlags /\ OptionFlag(p, t) \in ValueFlags(p)

LEMMA ValueReads ==
    ASSUME NEW p, GetoptTool(p), NEW argv, IsArgv(p, argv), NEW i \in 1..Len(argv),
           TakesValue(p, argv[i]), NEW r \in Reading
    PROVE  LET t == argv[i]
               d == GetoptAt(p, argv, i, r)
               flag == OptionFlag(p, t)
               v == ValueAt(p, argv, i)
           IN  \/ Stops(argv, d)
               \/ /\ Attached(p, t) # NoText \/ i < Len(argv)
                  /\ v \in Text /\ v # NoText
                  /\ d[1] = IF Attached(p, t) # NoText THEN i + 1 ELSE i + 2
                  /\ d[2].runs => r.runs
                  /\ d[2].roots = IF flag \in p.rootFlags THEN Append(r.roots, v) ELSE r.roots
                  /\ d[2].base = IF flag \in p.cwdFlags THEN v ELSE r.base
                  /\ d[2].pattern <=> r.pattern \/ flag \in p.patFlags
                  /\ d[2].operands = r.operands
<1> DEFINE t == argv[i]
           d == GetoptAt(p, argv, i, r)
           flag == OptionFlag(p, t)
           v == ValueAt(p, argv, i)
           s == ReadBefore(p, r, t)
           w == Tell(p, s, flag, v)
           j == IF Attached(p, t) # NoText THEN i + 1 ELSE i + 2
<1>1. /\ s \in Reading
      /\ \/ Stops(argv, d)
         \/ /\ Attached(p, t) # NoText \/ i < Len(argv)
            /\ v \in Text /\ v # NoText
            /\ d = <<j, w>>
  BY ValueStep DEF TakesValue
<1>2. IsToken(p, t) /\ t.kind \in {"long", "short"}
  BY DEF IsArgv, TakesValue
<1>3. Kept(r, s) /\ (s.runs => r.runs)
  <2>1. CASE t.kind = "long"
    BY <2>1 DEF ReadBefore, Kept
  <2>2. CASE t.kind = "short"
    <3>1. Letters(p, t) \in Seq(Atom)
      BY <1>2, <2>2, TokenKinds, GluedText
    <3>2. s = TellLetters(p, r, Letters(p, t))
      BY <2>2 DEF ReadBefore
    <3>3. QED
      BY <3>1, <3>2, LettersTold
  <2>3. QED
    BY <1>2, <2>1, <2>2
<1>4. SUFFICES ASSUME /\ Attached(p, t) # NoText \/ i < Len(argv)
                      /\ v \in Text /\ v # NoText
                      /\ d = <<j, w>>
               PROVE  /\ d[1] = j
                      /\ d[2].runs => r.runs
                      /\ d[2].roots = IF flag \in p.rootFlags THEN Append(r.roots, v) ELSE r.roots
                      /\ d[2].base = IF flag \in p.cwdFlags THEN v ELSE r.base
                      /\ d[2].pattern <=> r.pattern \/ flag \in p.patFlags
                      /\ d[2].operands = r.operands
  BY <1>1
<1>5. v \in Text
  BY <1>4
<1> HIDE DEF s, v, flag, d, j
<1>6. /\ w.pattern <=> s.pattern \/ flag \in p.patFlags
      /\ w.roots = IF flag \in p.rootFlags THEN Append(s.roots, v) ELSE s.roots
      /\ w.base = IF flag \in p.cwdFlags THEN v ELSE s.base
      /\ w.operands = s.operands /\ (w.runs => s.runs)
  BY ONLY <1>1, <1>5, Told
<1> HIDE DEF w
<1>7. QED
  BY <1>3, <1>4, <1>6 DEF Kept

\* An option without one says nothing of it.
LEMMA SwitchReads ==
    ASSUME NEW p, GetoptTool(p), NEW argv, IsArgv(p, argv), NEW i \in 1..Len(argv),
           argv[i].kind \in {"long", "short"}, argv[i] \notin p.execFlags,
           ~TakesValue(p, argv[i]), NEW r \in Reading
    PROVE  LET t == argv[i]
               d == GetoptAt(p, argv, i, r)
           IN  \/ Stops(argv, d)
               \/ /\ t.kind = "long" => Meant(p, t) # None /\ t.text = NoText
                  /\ d[1] = i + 1 /\ Kept(r, d[2]) /\ (d[2].runs => r.runs)
<1> DEFINE t == argv[i]
           d == GetoptAt(p, argv, i, r)
<1>1. IsToken(p, t)
  BY DEF IsArgv
<1>2. CASE t.kind = "long"
  <2> DEFINE w == Flipped(p, r, t)
  <2>1. OptionFlag(p, t) = Meant(p, t)
    BY <1>2 DEF OptionFlag
  <2>2. \/ Stops(argv, d)
        \/ Meant(p, t) # None /\ t.text = NoText /\ d = <<i + 1, w>>
    BY <1>2, <2>1, SwitchStep DEF TakesValue
  <2>3. Kept(r, w) /\ w.runs = r.runs
    BY Switched DEF Flipped
  <2> HIDE DEF d, w
  <2>4. QED
    BY <2>2, <2>3 DEF d
<1>3. CASE t.kind = "short"
  <2> DEFINE w == TellLetters(p, r, t.text)
  <2>1. Eater(p, t) = 0
    <3>1. Eater(p, t) \in 0..Len(t.text)
          /\ (Eater(p, t) > 0 => Short(<<t.text[Eater(p, t)]>>) \in ValueFlags(p))
          /\ Len(t.text) \in Nat
      BY <1>1, <1>3, ShortSize
    <3>2. Eater(p, t) # 0 => Eater(p, t) > 0
      BY <3>1
    <3>3. QED
      BY <1>3, <3>1, <3>2 DEF TakesValue, OptionFlag
  <2>2. Stops(argv, d) \/ d = <<i + 1, w>>
    BY <1>3, <2>1, LettersStep
  <2>3. Kept(r, w) /\ (w.runs => r.runs)
    <3>1. t.text \in Seq(Atom)
      BY <1>1, <1>3, TokenKinds
    <3>2. QED
      BY <3>1, LettersTold
  <2> HIDE DEF d, w
  <2>4. QED
    BY <1>3, <2>2, <2>3 DEF d
<1>4. QED
  BY <1>2, <1>3

\* How a scanner knows an option that takes a value.
LEMMA ValueTokens ==
    ASSUME NEW p, GetoptTool(p), NEW t, IsToken(p, t), t.kind \in {"long", "short"},
           t \notin p.execFlags, NEW F \in SUBSET ValueFlags(p)
    PROVE  /\ t.kind = "long" /\ Meant(p, t) # None =>
                  /\ Meant(p, t) \in F <=> Long(t.name) \in F \/ Resolve(p, t, F) # None
                  /\ ~p.abbreviates => Resolve(p, t, F) = None
           /\ t.kind = "long" =>
                  /\ t \in F <=> t.text = NoText /\ Long(t.name) \in F
                  /\ AttachedTo(t, F) <=> t.text # NoText /\ Long(t.name) \in F
                  /\ ~GluedTo(t, F) /\ Cluster(p, t) = NoCluster
                  /\ OptionFlag(p, t) = Meant(p, t) /\ Attached(p, t) = t.text
           /\ t.kind = "short" =>
                  /\ Resolve(p, t, F) = None /\ ~AttachedTo(t, F)
                  /\ t \in F <=> /\ Eater(p, t) = 1 /\ Len(t.text) = 1
                                 /\ OptionFlag(p, t) \in F
                  /\ GluedTo(t, F) <=> /\ Eater(p, t) = 1 /\ Len(t.text) # 1
                                       /\ OptionFlag(p, t) \in F
                  /\ Cluster(p, t).flag = OptionFlag(p, t)
                  /\ Cluster(p, t).next <=> TakesValue(p, t) /\ Attached(p, t) = NoText
                  /\ Attached(p, t) = NoText <=> Eater(p, t) = Len(t.text)
                  /\ TakesValue(p, t) <=> Eater(p, t) # 0
           /\ t # DashDash /\ (TakesValue(p, t) => OptionFlag(p, t) # None)
<1>1. F \in SUBSET Flags(p)
  BY DEF Flags
<1>2. t.kind = "long" => t = LongIs(t.name, t.text)
  BY TokenKinds
<1>3. None \notin ValueFlags(p)
  <2>1. \A f \in ValueFlags(p) : IsFlag(f)
    BY DEF GetoptTool
  <2>2. QED
    BY <2>1, FlagFacts
<1>4. t.kind = "long" /\ Meant(p, t) # None =>
          /\ Meant(p, t) \in F <=> Long(t.name) \in F \/ Resolve(p, t, F) # None
          /\ ~p.abbreviates => Resolve(p, t, F) = None
  BY <1>1, <1>2, LongMeans
<1>5. t.kind = "long" =>
          /\ t \in F <=> t.text = NoText /\ Long(t.name) \in F
          /\ AttachedTo(t, F) <=> t.text # NoText /\ Long(t.name) \in F
          /\ ~GluedTo(t, F) /\ Cluster(p, t) = NoCluster
          /\ OptionFlag(p, t) = Meant(p, t) /\ Attached(p, t) = t.text
  <2>1. t.kind = "long" =>
          /\ t \in F <=> t.text = NoText /\ Long(t.name) \in F
          /\ AttachedTo(t, F) <=> t.text # NoText /\ Long(t.name) \in F
          /\ ~GluedTo(t, F) /\ Cluster(p, t) = NoCluster
    BY <1>1, <1>2, LongIn
  <2>2. QED
    BY <2>1 DEF OptionFlag, Attached
<1>6. ASSUME t.kind = "short"
      PROVE  /\ Resolve(p, t, F) = None /\ ~AttachedTo(t, F)
             /\ t \in F <=> /\ Eater(p, t) = 1 /\ Len(t.text) = 1
                            /\ OptionFlag(p, t) \in F
             /\ GluedTo(t, F) <=> /\ Eater(p, t) = 1 /\ Len(t.text) # 1
                                  /\ OptionFlag(p, t) \in F
             /\ Cluster(p, t).flag = OptionFlag(p, t)
             /\ Cluster(p, t).next <=> TakesValue(p, t) /\ Attached(p, t) = NoText
             /\ Attached(p, t) = NoText <=> Eater(p, t) = Len(t.text)
             /\ TakesValue(p, t) <=> Eater(p, t) # 0
  <2> DEFINE k == Eater(p, t)
             len == Len(t.text)
             flag == Short(<<t.text[k]>>)
  <2>1. len \in Nat /\ len >= 1 /\ k \in 0..len /\ (k > 0 => flag \in ValueFlags(p))
    BY <1>6, ShortSize
  <2>2. OptionFlag(p, t) = IF k = 0 THEN None ELSE flag
    BY <1>6 DEF OptionFlag
  <2>3. (t \in F <=> k = 1 /\ len = 1 /\ flag \in F)
        /\ (GluedTo(t, F) <=> k = 1 /\ len # 1 /\ flag \in F)
    BY <1>6, ShortValue
  <2>4. /\ k = 0 => Cluster(p, t).flag = None /\ Cluster(p, t).next = FALSE
        /\ k # 0 => Cluster(p, t).flag = flag /\ (Cluster(p, t).next <=> k = len)
    BY <1>6, ClusterFields
  <2>5. Attached(p, t) = NoText <=> k = len
    <3>1. t.text \in Seq(Atom)
      BY <1>6, TokenKinds
    <3>2. QED
      BY <1>6, <3>1, GluedText DEF Attached
  <2>6. Resolve(p, t, F) = None /\ ~AttachedTo(t, F)
    BY <1>6, ShortSize
  <2> HIDE DEF k, len, flag
  <2>7. OptionFlag(p, t) \in ValueFlags(p) <=> k # 0
    BY <1>3, <2>1, <2>2
  <2>8. TakesValue(p, t) <=> k # 0
    BY <1>6, <2>7 DEF TakesValue
  <2>9. k = 1 => OptionFlag(p, t) = flag
    BY <2>2
  <2>10. (t \in F <=> k = 1 /\ len = 1 /\ OptionFlag(p, t) \in F)
         /\ (GluedTo(t, F) <=> k = 1 /\ len # 1 /\ OptionFlag(p, t) \in F)
    BY <2>3, <2>9
  <2>11. Cluster(p, t).flag = OptionFlag(p, t)
    BY <2>2, <2>4
  <2>12. Cluster(p, t).next <=> TakesValue(p, t) /\ Attached(p, t) = NoText
    BY <2>4, <2>5, <2>8
  <2>13. QED
    BY <2>5, <2>6, <2>8, <2>10, <2>11, <2>12 DEF k, len
<1>7. t # DashDash
  BY Kinds
<1>8. TakesValue(p, t) => OptionFlag(p, t) # None
  BY <1>3 DEF TakesValue
<1>9. QED
  BY <1>4, <1>5, <1>6, <1>7, <1>8

\* A tool without a base-directory option has none.
LEMMA NoBase ==
    ASSUME NEW p, GetoptTool(p), p.cwdFlags = {}, NEW argv, IsArgv(p, argv)
    PROVE  Read(p, argv).runs => Read(p, argv).base = NoText
<1> DEFINE n == Len(argv)
           reads == Passes(p, argv)
           Q == {r \in Reading : r.runs => r.base = NoText}
           b == Nothing(p)
<1>1. n \in Nat
  BY DEF IsArgv
<1>2. Read(p, argv) = Scan(n, Reading, reads, b) /\ Advances(n, Reading, reads)
      /\ \A i \in 1..n : \A r \in Reading : reads[<<i, r>>] = GetoptAt(p, argv, i, r)
  BY GetoptReads
<1>3. \A i \in 1..n : \A q \in Q : reads[<<i, q>>][2] \in Q
  <2> SUFFICES ASSUME NEW i \in 1..n, NEW q \in Q PROVE GetoptAt(p, argv, i, q)[2] \in Q
    BY <1>2
  <2> DEFINE t == argv[i]
             d == GetoptAt(p, argv, i, q)
  <2>1. q \in Reading /\ IsToken(p, t) /\ d[2] \in Reading
    BY GetoptGoesOn DEF IsArgv, Places
  <2>2. Stops(argv, d) \/ (d[2].base = q.base /\ (d[2].runs => q.runs))
    <3>1. CASE t.kind \in {"word", "dashdash"}
      <4>1. OperandsApart(q, d[2])
        BY <2>1, <3>1, OperandSteps, TokenKinds
      <4>2. QED
        BY <4>1 DEF OperandsApart
    <3>2. CASE t.kind \in {"long", "short"} /\ t \in p.execFlags
      <4>1. t.kind = "short"
        BY <3>2 DEF GetoptTool
      <4>2. d = <<SkipExecBody(p, argv, i), q>>
        BY <2>1, <3>2, <4>1, OtherSteps
      <4> HIDE DEF d
      <4>3. QED
        BY <4>2
    <3>3. CASE TakesValue(p, t)
      BY <2>1, <3>3, ValueReads
    <3>4. CASE t.kind \in {"long", "short"} /\ t \notin p.execFlags /\ ~TakesValue(p, t)
      BY <2>1, <3>4, SwitchReads DEF Kept
    <3>5. QED
      BY <2>1, <3>1, <3>2, <3>3, <3>4, TokenKinds
  <2>3. Stops(argv, d) => ~d[2].runs
    BY DEF Stops, NotRun
  <2>4. q.runs => q.base = NoText
    OBVIOUS
  <2> HIDE DEF d
  <2>5. QED
    BY <2>1, <2>2, <2>3, <2>4 DEF d
<1>4. b \in Reading /\ b.base = NoText
  <2>1. p.dirAction \in Actions
    BY DEF GetoptTool
  <2>2. QED
    BY <2>1, NothingRead DEF Nothing
<1>5. Q \in SUBSET Reading /\ b \in Q
  BY <1>4
<1> HIDE DEF n, reads, Q, b
<1>6. Scan(n, Reading, reads, b) \in Q
  BY <1>1, <1>2, <1>3, <1>5, ScanKeeps
<1>7. QED
  BY <1>2, <1>6 DEF Q

-----------------------------------------------------------------------------

LEMMA CwdGoesOn ==
    ASSUME NEW p, GetoptTool(p), NEW argv, IsArgv(p, argv), NEW i \in 1..Len(argv),
           NEW base \in Text
    PROVE  CwdAt(p, argv, i, base) \in Places(Text) /\ CwdAt(p, argv, i, base)[1] > i
<1> DEFINE n == Len(argv)
           t == argv[i]
           c == CwdAt(p, argv, i, base)
           past == SkipExecBody(p, argv, i)
           next == IF i < n THEN ValueOf(argv[i + 1]) ELSE base
           j == i + (IF Cluster(p, t).next \/ t \in ValueFlags(p) THEN 2 ELSE 1)
<1>1. n \in Nat /\ i \in 1..n /\ \A m \in 1..n : IsToken(p, argv[m])
  BY DEF IsArgv
<1>2. past \in Nat \ {0} /\ past > i
  BY <1>1, ExecBody
<1>3. next \in Text
  <2>1. i < n => IsToken(p, argv[i + 1])
    BY <1>1
  <2>2. i < n => ValueOf(argv[i + 1]) \in Text
    BY <2>1, TokenKinds, TextFacts
  <2>3. QED
    BY <2>2
<1>4. AttachedTo(t, p.cwdFlags) => t.text \in Text
  BY <1>1, TokenKinds DEF AttachedTo
<1>5. j \in {i + 1, i + 2}
  OBVIOUS
<1>6. c = IF t \in p.execFlags THEN <<past, base>>
          ELSE IF t = DashDash THEN <<n + 1, base>>
          ELSE IF t \in p.cwdFlags THEN <<i + 2, next>>
          ELSE IF AttachedTo(t, p.cwdFlags) THEN <<i + 1, t.text>>
          ELSE <<j, base>>
  BY DEF CwdAt
<1> HIDE DEF c, t, past, next, j, n
<1>7. \E m \in {past, n + 1, i + 1, i + 2} : \E a \in Text : c = <<m, a>>
  BY <1>3, <1>4, <1>5, <1>6
<1>8. PICK m \in {past, n + 1, i + 1, i + 2}, a \in Text : c = <<m, a>>
  BY <1>7
<1>9. m \in Nat \ {0} /\ m > i
  BY <1>1, <1>2
<1>10. QED
  BY <1>8, <1>9 DEF Places, c

CwdMeets(c, d) == c[1] = d[1] /\ c[2] = d[2].base

LEMMA CwdAtToken ==
    ASSUME NEW p, GetoptTool(p), p.cwdFlags # {}, NEW argv, IsArgv(p, argv),
           NEW i \in 1..Len(argv), NEW r \in Reading
    PROVE  \/ Stops(argv, GetoptAt(p, argv, i, r))
           \/ CwdMeets(CwdAt(p, argv, i, r.base), GetoptAt(p, argv, i, r))
<1> DEFINE t == argv[i]
           n == Len(argv)
           c == CwdAt(p, argv, i, r.base)
           d == GetoptAt(p, argv, i, r)
           flag == OptionFlag(p, t)
           v == ValueAt(p, argv, i)
           wide == Cluster(p, t).next \/ t \in ValueFlags(p)
<1>1. IsToken(p, t) /\ n \in Nat
  BY DEF IsArgv
<1>2. /\ p.execFlags \subseteq ValueFlags(p) /\ p.cwdFlags \subseteq ValueFlags(p)
      /\ \A f \in ValueFlags(p) : IsFlag(f)
      /\ \A f \in p.execFlags : f.kind = "short"
      /\ \A f \in p.cwdFlags : f.kind = "long"
      /\ ~p.abbreviates
  BY DEF GetoptTool
<1>3. c = IF t \in p.execFlags THEN <<SkipExecBody(p, argv, i), r.base>>
          ELSE IF t = DashDash THEN <<n + 1, r.base>>
          ELSE IF t \in p.cwdFlags
          THEN <<i + 2, IF i < n THEN ValueOf(argv[i + 1]) ELSE r.base>>
          ELSE IF AttachedTo(t, p.cwdFlags) THEN <<i + 1, t.text>>
          ELSE <<i + (IF wide THEN 2 ELSE 1), r.base>>
  BY DEF CwdAt
<1>4. CASE t.kind = "word"
  <2>1. d[1] = i + 1 /\ OperandsApart(r, d[2])
    BY <1>4, OperandSteps
  <2>2. t \notin ValueFlags(p) /\ Cluster(p, t) = NoCluster /\ ~AttachedTo(t, p.cwdFlags)
    BY <1>2, <1>4, PlainToken
  <2>3. t # DashDash
    BY <1>1, <1>4, TokenKinds
  <2>4. ~wide
    BY <2>2 DEF NoCluster
  <2>5. c = <<i + 1, r.base>>
    BY <1>2, <1>3, <2>2, <2>3, <2>4
  <2> HIDE DEF c, d
  <2>6. QED
    BY <2>1, <2>5 DEF CwdMeets, OperandsApart, c, d
<1>5. CASE t.kind = "dashdash"
  <2>1. t = DashDash
    BY <1>1, <1>5, TokenKinds
  <2>2. d[1] = n + 1 /\ OperandsApart(r, d[2])
    BY <2>1, OperandSteps
  <2>3. c = <<n + 1, r.base>>
    BY <1>2, <1>3, <1>5, <2>1
  <2> HIDE DEF c, d
  <2>4. QED
    BY <2>2, <2>3 DEF CwdMeets, OperandsApart, c, d
<1>6. CASE t.kind \in {"long", "short"} /\ t \in p.execFlags
  <2>1. t.kind = "short"
    BY <1>2, <1>6
  <2>2. d = <<SkipExecBody(p, argv, i), r>>
    BY <1>6, <2>1, OtherSteps
  <2>3. c = <<SkipExecBody(p, argv, i), r.base>>
    BY <1>3, <1>6
  <2> HIDE DEF c, d
  <2>4. QED
    BY <2>2, <2>3 DEF CwdMeets, c, d
<1>7. CASE TakesValue(p, t)
  <2>1. t.kind \in {"long", "short"} /\ t \notin p.execFlags /\ flag \in ValueFlags(p)
    BY <1>7 DEF TakesValue
  <2>2. SUFFICES ASSUME /\ Attached(p, t) # NoText \/ i < n
                        /\ v # NoText
                        /\ d[1] = IF Attached(p, t) # NoText THEN i + 1 ELSE i + 2
                        /\ d[2].base = IF flag \in p.cwdFlags THEN v ELSE r.base
                 PROVE  CwdMeets(c, d)
    BY <1>7, ValueReads
  <2>3. t # DashDash /\ flag # None
    BY <1>1, <1>7, <2>1, ValueTokens
  <2>4. Attached(p, t) = NoText => v = ValueOf(argv[i + 1])
    BY DEF ValueAt
  <2>5. Attached(p, t) # NoText => v = Attached(p, t)
    BY DEF ValueAt
  <2>6. CASE t.kind = "long"
    <3>1. \A F \in SUBSET ValueFlags(p) :
              /\ flag \in F <=> Long(t.name) \in F
              /\ t \in F <=> t.text = NoText /\ Long(t.name) \in F
              /\ AttachedTo(t, F) <=> t.text # NoText /\ Long(t.name) \in F
              /\ Cluster(p, t) = NoCluster
              /\ Attached(p, t) = t.text
      <4> SUFFICES ASSUME NEW F \in SUBSET ValueFlags(p)
                   PROVE  /\ flag \in F <=> Long(t.name) \in F
                          /\ t \in F <=> t.text = NoText /\ Long(t.name) \in F
                          /\ AttachedTo(t, F) <=> t.text # NoText /\ Long(t.name) \in F
                          /\ Cluster(p, t) = NoCluster
                          /\ Attached(p, t) = t.text
        OBVIOUS
      <4>1. flag = Meant(p, t)
        BY <2>6 DEF OptionFlag
      <4> HIDE DEF t, flag
      <4>2. QED
        BY <1>1, <1>2, <2>1, <2>3, <2>6, <4>1, ValueTokens
    <3>2. CASE flag \in p.cwdFlags
      <4>1. (t \in p.cwdFlags <=> t.text = NoText)
            /\ (AttachedTo(t, p.cwdFlags) <=> t.text # NoText)
            /\ Attached(p, t) = t.text
        BY <1>2, <3>1, <3>2
      <4>2. c = IF t.text # NoText THEN <<i + 1, v>> ELSE <<i + 2, v>>
        <5> HIDE DEF c, v, t
        <5> QED
          BY <1>3, <2>1, <2>2, <2>3, <2>4, <2>5, <4>1
      <4> HIDE DEF c, d, v, flag
      <4>3. QED
        BY <2>2, <3>2, <4>1, <4>2 DEF CwdMeets
    <3>3. CASE flag \notin p.cwdFlags
      <4>1. t \notin p.cwdFlags /\ ~AttachedTo(t, p.cwdFlags)
        BY <1>2, <3>1, <3>3
      <4>2. wide <=> Attached(p, t) = NoText
        <5>1. t \in ValueFlags(p) <=> t.text = NoText
          BY <2>1, <3>1
        <5>2. Cluster(p, t).next = FALSE /\ Attached(p, t) = t.text
          BY <1>2, <3>1 DEF NoCluster
        <5> HIDE DEF t
        <5>3. QED
          BY <5>1, <5>2
      <4>3. c = <<i + (IF Attached(p, t) = NoText THEN 2 ELSE 1), r.base>>
        <5> HIDE DEF c, t, wide
        <5> QED
          BY <1>3, <2>1, <2>3, <4>1, <4>2
      <4> HIDE DEF c, d, v, flag, t
      <4>4. QED
        BY <2>2, <3>3, <4>3 DEF CwdMeets
    <3>4. QED
      BY <3>2, <3>3
  <2>7. CASE t.kind = "short"
    <3>1. flag \notin p.cwdFlags
      <4>1. Eater(p, t) # 0 /\ flag = Short(<<t.text[Eater(p, t)]>>)
        BY <2>3, <2>7 DEF OptionFlag
      <4>2. flag.kind = "short"
        <5> HIDE DEF flag
        <5> QED
          BY <4>1, Kinds
      <4> HIDE DEF flag
      <4>3. QED
        BY <1>2, <4>2
    <3>2. t \notin p.cwdFlags /\ ~AttachedTo(t, p.cwdFlags)
      BY <1>1, <1>2, <2>7, ShortSize
    <3>3. wide <=> Attached(p, t) = NoText
      <4>1. ValueFlags(p) \in SUBSET ValueFlags(p)
        OBVIOUS
      <4>2. (t \in ValueFlags(p) => Eater(p, t) = Len(t.text))
            /\ (Cluster(p, t).next <=> TakesValue(p, t) /\ Attached(p, t) = NoText)
            /\ (Attached(p, t) = NoText <=> Eater(p, t) = Len(t.text))
        <5> HIDE DEF t
        <5> QED
          BY <1>1, <2>1, <2>7, <4>1, ValueTokens
      <4> HIDE DEF t
      <4>3. QED
        BY <1>7, <4>2
    <3>4. c = <<i + (IF Attached(p, t) = NoText THEN 2 ELSE 1), r.base>>
      <4> HIDE DEF c, t, wide
      <4> QED
        BY <1>3, <2>1, <2>3, <3>2, <3>3
    <3> HIDE DEF c, d, v, flag, t
    <3>5. QED
      BY <2>2, <3>1, <3>4 DEF CwdMeets
  <2>8. QED
    BY <2>1, <2>6, <2>7
<1>8. CASE t.kind \in {"long", "short"} /\ t \notin p.execFlags /\ ~TakesValue(p, t)
  <2>1. SUFFICES ASSUME /\ t.kind = "long" => Meant(p, t) # None /\ t.text = NoText
                        /\ d[1] = i + 1 /\ Kept(r, d[2])
                 PROVE  CwdMeets(c, d)
    BY <1>8, SwitchReads
  <2>2. flag \notin ValueFlags(p)
    BY <1>8 DEF TakesValue
  <2>3. ValueFlags(p) \in SUBSET ValueFlags(p) /\ p.cwdFlags \in SUBSET ValueFlags(p)
    BY <1>2
  <2>4. t # DashDash
    BY <1>8, Kinds
  <2>5. ~wide /\ t \notin ValueFlags(p)
    <3>1. CASE t.kind = "long"
      <4>1. /\ t \in ValueFlags(p) <=> t.text = NoText /\ Long(t.name) \in ValueFlags(p)
            /\ Cluster(p, t) = NoCluster
            /\ flag \in ValueFlags(p) <=> Long(t.name) \in ValueFlags(p)
        <5>1. flag = Meant(p, t)
          BY <3>1 DEF OptionFlag
        <5>2. Meant(p, t) # None
          BY <2>1, <3>1
        <5> HIDE DEF t, flag
        <5>3. QED
          BY <1>1, <1>2, <1>8, <2>3, <3>1, <5>1, <5>2, ValueTokens
      <4>2. QED
        BY <2>2, <4>1 DEF NoCluster
    <3>2. CASE t.kind = "short"
      <4>1. (t \in ValueFlags(p) => Eater(p, t) = 1)
            /\ (Cluster(p, t).next => TakesValue(p, t))
            /\ (TakesValue(p, t) <=> Eater(p, t) # 0)
        <5> HIDE DEF t
        <5> QED
          BY <1>1, <1>8, <2>3, <3>2, ValueTokens
      <4>2. QED
        BY <1>8, <4>1
    <3>3. QED
      BY <1>8, <3>1, <3>2
  <2>6. ~AttachedTo(t, p.cwdFlags)
    <3>1. t.kind = "long" => t.text = NoText
      BY <2>1
    <3>2. QED
      BY <3>1 DEF AttachedTo
  <2>7. c = <<i + 1, r.base>>
    <3> HIDE DEF c, t, wide
    <3> QED
      BY <1>2, <1>3, <1>8, <2>4, <2>5, <2>6
  <2> HIDE DEF c, d
  <2>8. QED
    BY <2>1, <2>7 DEF CwdMeets, Kept
<1>9. QED
  <2>1. t.kind \in {"word", "dashdash", "long", "short"}
    BY <1>1, TokenKinds
  <2>2. QED
    BY <1>4, <1>5, <1>6, <1>7, <1>8, <2>1

\* A walk starts from the directory its tool changes to.
LEMMA CwdReadAs ==
    ASSUME NEW p, GetoptTool(p), NEW argv, IsArgv(p, argv)
    PROVE  Read(p, argv).runs => EffectiveCwd(p, argv) = Read(p, argv).base
<1> DEFINE n == Len(argv)
           step == [c \in (1..n) \X Text |-> CwdAt(p, argv, c[1], c[2])]
           R == {x \in Text \X Reading : x[1] = x[2].base}
           a == NoText
<1>1. CASE p.cwdFlags = {}
  BY <1>1, NoBase DEF EffectiveCwd
<1>2. CASE p.cwdFlags # {}
  <2>1. Advances(n, Text, step)
    <3>1. \A c \in (1..n) \X Text :
              CwdAt(p, argv, c[1], c[2]) \in Places(Text) /\ CwdAt(p, argv, c[1], c[2])[1] > c[1]
      BY CwdGoesOn
    <3>2. QED
      BY <3>1 DEF Advances
  <2>2. \A i \in 1..n : \A x \in R :
            LET c == step[<<i, x[1]>>]
                d == GetoptAt(p, argv, i, x[2])
            IN  Stops(argv, d) \/ (c[1] = d[1] /\ <<c[2], d[2]>> \in R)
    <3> SUFFICES ASSUME NEW i \in 1..n, NEW x \in R
                 PROVE  LET c == step[<<i, x[1]>>]
                            d == GetoptAt(p, argv, i, x[2])
                        IN  Stops(argv, d) \/ (c[1] = d[1] /\ <<c[2], d[2]>> \in R)
      OBVIOUS
    <3> DEFINE r == x[2]
               c == CwdAt(p, argv, i, r.base)
               d == GetoptAt(p, argv, i, r)
    <3>1. r \in Reading /\ r.base \in Text /\ x[1] = r.base
      OBVIOUS
    <3>2. step[<<i, x[1]>>] = c
      BY <3>1
    <3>3. c \in Places(Text) /\ d \in Places(Reading)
      BY <3>1, CwdGoesOn, GetoptGoesOn
    <3>4. Stops(argv, d) \/ CwdMeets(c, d)
      BY <1>2, <3>1, CwdAtToken
    <3>5. CwdMeets(c, d) => c[1] = d[1] /\ <<c[2], d[2]>> \in R
      <4> HIDE DEF c, d
      <4> QED
        BY <3>3 DEF CwdMeets, Places
    <3> HIDE DEF c, d, step, R
    <3>6. QED
      BY <3>2, <3>4, <3>5 DEF d
  <2>3. a \in Text
    BY TextFacts
  <2>4. Nothing(p) \in Reading /\ Nothing(p).base = NoText
    <3>1. p.dirAction \in Actions
      BY DEF GetoptTool
    <3>2. QED
      BY <3>1, NothingRead DEF Nothing
  <2>5. R \in SUBSET (Text \X Reading) /\ <<a, Nothing(p)>> \in R
    BY <2>3, <2>4
  <2>6. EffectiveCwd(p, argv) = Scan(n, Text, step, a)
    BY <1>2 DEF EffectiveCwd
  <2> HIDE DEF step, R, a
  <2>7. Read(p, argv).runs => <<Scan(n, Text, step, a), Read(p, argv)>> \in R
    BY <2>1, <2>2, <2>5, ReadsAlong
  <2>8. QED
    BY <2>6, <2>7 DEF R
<1>3. QED
  BY <1>1, <1>2

\* What one token adds to the operands.
Charge(acc, text) == [acc EXCEPT !.found = Append(@, text)]
Seen(p, acc, t) == [acc EXCEPT !.pattern = @ \/ SuppliesPattern(p, t)]
Operating(acc, texts) == [acc EXCEPT !.positionals = texts]

LEMMA ChargeFacts ==
    ASSUME NEW p, NEW acc \in Charges, NEW t
    PROVE  /\ \A text \in Text :
                  /\ Charge(acc, text) \in Charges
                  /\ Charge(acc, text).found = Append(acc.found, text)
                  /\ Charge(acc, text).positionals = acc.positionals
                  /\ Charge(acc, text).pattern = acc.pattern
           /\ Seen(p, acc, t) \in Charges
           /\ Seen(p, acc, t).found = acc.found /\ Seen(p, acc, t).positionals = acc.positionals
           /\ Seen(p, acc, t).pattern <=> acc.pattern \/ SuppliesPattern(p, t)
           /\ \A texts \in Seq(Text) :
                  /\ Operating(acc, texts) \in Charges
                  /\ Operating(acc, texts).found = acc.found
                  /\ Operating(acc, texts).positionals = texts
                  /\ Operating(acc, texts).pattern = acc.pattern
<1>1. acc.found \in Seq(Text) /\ acc.positionals \in Seq(Text) /\ acc.pattern \in BOOLEAN
  BY DEF Charges
<1>2. ASSUME NEW text \in Text
      PROVE  /\ Charge(acc, text) \in Charges
             /\ Charge(acc, text).found = Append(acc.found, text)
             /\ Charge(acc, text).positionals = acc.positionals
             /\ Charge(acc, text).pattern = acc.pattern
  <2> DEFINE f == Append(acc.found, text)
  <2>1. f \in Seq(Text) /\ Charge(acc, text) = [acc EXCEPT !.found = f]
    BY <1>1 DEF Charge
  <2> HIDE DEF f
  <2>2. QED
    BY <2>1 DEF Charges, f
<1>3. /\ Seen(p, acc, t) \in Charges
      /\ Seen(p, acc, t).found = acc.found /\ Seen(p, acc, t).positionals = acc.positionals
      /\ Seen(p, acc, t).pattern <=> acc.pattern \/ SuppliesPattern(p, t)
  <2> DEFINE f == acc.pattern \/ SuppliesPattern(p, t)
  <2>1. f \in BOOLEAN /\ Seen(p, acc, t) = [acc EXCEPT !.pattern = f]
    BY DEF Seen
  <2>2. f <=> acc.pattern \/ SuppliesPattern(p, t)
    OBVIOUS
  <2> HIDE DEF f
  <2>3. QED
    BY <2>1, <2>2 DEF Charges
<1>4. ASSUME NEW texts \in Seq(Text)
      PROVE  /\ Operating(acc, texts) \in Charges
             /\ Operating(acc, texts).found = acc.found
             /\ Operating(acc, texts).positionals = texts
             /\ Operating(acc, texts).pattern = acc.pattern
  BY DEF Operating, Charges
<1>5. QED
  BY <1>2, <1>3, <1>4

\* One token, for a tool whose operands come anywhere.
LEMMA RootsAtIs ==
    ASSUME NEW p, GetoptTool(p), NEW argv, NEW i, NEW acc
    PROVE  LET t == argv[i]
               n == Len(argv)
               root == IF t \in p.rootFlags THEN t ELSE Resolve(p, t, p.rootFlags)
               seen == Seen(p, acc, t)
           IN  RootsAt(p, argv, i, acc) =
                   IF t \in p.execFlags THEN <<SkipExecBody(p, argv, i), acc>>
                   ELSE IF AttachedTo(t, p.rootFlags)
                           \/ (root # None /\ t.kind = "long" /\ t.text # NoText)
                   THEN <<i + 1, Charge(acc, t.text)>>
                   ELSE IF root # None
                   THEN <<i + 2, IF i < n THEN Charge(acc, ValueOf(argv[i + 1])) ELSE acc>>
                   ELSE IF IsAttachedPattern(p, t) THEN <<i + 1, seen>>
                   ELSE IF Cluster(p, t).flag # None
                   THEN <<i + (IF Cluster(p, t).next THEN 2 ELSE 1), seen>>
                   ELSE IF t \in ValueFlags(p) \/ Resolve(p, t, ValueFlags(p)) # None
                   THEN <<i + Width(IF t.kind = "long" THEN t ELSE None), seen>>
                   ELSE IF t = DashDash
                   THEN <<n + 1, Operating(acc, acc.positionals \o Rest(argv, i))>>
                   ELSE IF IsOption(t) THEN <<i + 1, acc>>
                   ELSE <<i + 1, Operating(acc, Append(acc.positionals, t.text))>>
<1>1. p.rootMode # "leading"
  BY DEF GetoptTool
<1>2. QED
  BY <1>1 DEF RootsAt, Charge, Seen, Operating

\* The operands and the pattern that the tool has, the scan has.
SameOperands(acc, r) ==
    acc.found = r.roots /\ acc.positionals = r.operands /\ (acc.pattern <=> r.pattern)
RootsMeet(c, d) == c[1] = d[1] /\ c[2] \in Charges /\ SameOperands(c[2], d[2])

LEMMA RestIs ==
    ASSUME NEW p, NEW argv, IsArgv(p, argv), NEW i \in 1..Len(argv)
    PROVE  Rest(argv, i) \in Seq(Text) /\ (i < Len(argv) => ValueOf(argv[i + 1]) \in Text)
<1>1. Len(argv) \in Nat /\ \A j \in 1..Len(argv) : IsToken(p, argv[j])
  BY DEF IsArgv
<1>2. \A k \in 1..Len(argv) - i : i + k \in 1..Len(argv)
  BY <1>1
<1>3. \A k \in 1..Len(argv) - i : ValueOf(argv[i + k]) \in Text
  BY <1>1, <1>2, TokenKinds, TextFacts
<1>4. Len(argv) - i \in Nat
  BY <1>1
<1>5. Rest(argv, i) \in Seq(Text)
  BY <1>3, <1>4 DEF Rest
<1>6. i < Len(argv) => 1 \in 1..Len(argv) - i
  BY <1>1
<1>7. QED
  BY <1>3, <1>5, <1>6

LEMMA RootsGoOn ==
    ASSUME NEW p, GetoptTool(p), NEW argv, IsArgv(p, argv), NEW i \in 1..Len(argv),
           NEW acc \in Charges
    PROVE  RootsAt(p, argv, i, acc) \in Places(Charges) /\ RootsAt(p, argv, i, acc)[1] > i
<1> DEFINE n == Len(argv)
           t == argv[i]
           c == RootsAt(p, argv, i, acc)
           past == SkipExecBody(p, argv, i)
           root == IF t \in p.rootFlags THEN t ELSE Resolve(p, t, p.rootFlags)
           seen == Seen(p, acc, t)
           attached == AttachedTo(t, p.rootFlags)
                       \/ (root # None /\ t.kind = "long" /\ t.text # NoText)
           next == IF i < n THEN Charge(acc, ValueOf(argv[i + 1])) ELSE acc
           j == i + (IF Cluster(p, t).next THEN 2 ELSE 1)
           k == i + Width(IF t.kind = "long" THEN t ELSE None)
           rest == Operating(acc, acc.positionals \o Rest(argv, i))
           one == Operating(acc, Append(acc.positionals, t.text))
<1>1. n \in Nat /\ i \in 1..n /\ IsToken(p, t)
  BY DEF IsArgv
<1>2. past \in Nat \ {0} /\ past > i
  BY <1>1, ExecBody
<1>3. seen \in Charges
  BY ChargeFacts
<1>4. next \in Charges
  BY RestIs, ChargeFacts
<1>5. attached => t.text \in Text
  <2>1. attached => t.kind = "long"
    BY DEF AttachedTo
  <2>2. QED
    BY <1>1, <2>1, TokenKinds
<1>6. attached => Charge(acc, t.text) \in Charges
  BY <1>5, ChargeFacts
<1>7. acc.positionals \in Seq(Text)
  BY DEF Charges
<1>8. rest \in Charges
  <2>1. acc.positionals \o Rest(argv, i) \in Seq(Text)
    BY <1>7, RestIs
  <2>2. QED
    BY <2>1, ChargeFacts
<1>9. t.kind = "word" => one \in Charges
  <2>1. t.kind = "word" => t.text \in Text
    BY <1>1, TokenKinds, TextFacts
  <2>2. t.kind = "word" => Append(acc.positionals, t.text) \in Seq(Text)
    BY <1>7, <2>1
  <2>3. QED
    BY <2>2, ChargeFacts
<1>10. ~IsOption(t) => t.kind = "word"
  BY <1>1, TokenKinds DEF IsOption
<1>11. j \in {i + 1, i + 2} /\ k \in {i + 1, i + 2}
  BY DEF Width
<1>12. c = IF t \in p.execFlags THEN <<past, acc>>
           ELSE IF attached THEN <<i + 1, Charge(acc, t.text)>>
           ELSE IF root # None THEN <<i + 2, next>>
           ELSE IF IsAttachedPattern(p, t) THEN <<i + 1, seen>>
           ELSE IF Cluster(p, t).flag # None THEN <<j, seen>>
           ELSE IF t \in ValueFlags(p) \/ Resolve(p, t, ValueFlags(p)) # None THEN <<k, seen>>
           ELSE IF t = DashDash THEN <<n + 1, rest>>
           ELSE IF IsOption(t) THEN <<i + 1, acc>>
           ELSE <<i + 1, one>>
  BY RootsAtIs
<1> HIDE DEF c, t, past, root, seen, attached, next, j, k, rest, one, n
<1>13. \E m \in {past, n + 1, i + 1, i + 2} : \E a \in Charges : c = <<m, a>>
  BY <1>3, <1>4, <1>6, <1>8, <1>9, <1>10, <1>11, <1>12
<1>14. PICK m \in {past, n + 1, i + 1, i + 2}, a \in Charges : c = <<m, a>>
  BY <1>13
<1>15. m \in Nat \ {0} /\ m > i
  BY <1>1, <1>2
<1>16. QED
  BY <1>14, <1>15 DEF Places, c

LEMMA RootsAtOther ==
    ASSUME NEW p, GetoptTool(p), NEW argv, IsArgv(p, argv), NEW i \in 1..Len(argv),
           NEW acc \in Charges, NEW r \in Reading, SameOperands(acc, r),
           argv[i].kind \in {"word", "dashdash"} \/ argv[i] \in p.execFlags
    PROVE  RootsMeet(RootsAt(p, argv, i, acc), GetoptAt(p, argv, i, r))
<1> DEFINE t == argv[i]
           n == Len(argv)
           c == RootsAt(p, argv, i, acc)
           d == GetoptAt(p, argv, i, r)
           root == IF t \in p.rootFlags THEN t ELSE Resolve(p, t, p.rootFlags)
           one == Append(acc.positionals, t.text)
           all == acc.positionals \o Rest(argv, i)
<1>1. IsToken(p, t) /\ n \in Nat /\ acc.positionals \in Seq(Text)
  BY DEF IsArgv, Charges
<1>2. /\ p.execFlags \subseteq ValueFlags(p) /\ p.rootFlags \subseteq ValueFlags(p)
      /\ \A f \in ValueFlags(p) : IsFlag(f)
      /\ \A f \in p.execFlags : f.kind = "short"
  BY DEF GetoptTool, ValueFlags
<1>3. CASE t \in p.execFlags
  <2>1. c = <<SkipExecBody(p, argv, i), acc>>
    BY <1>3 DEF RootsAt
  <2>2. d = <<SkipExecBody(p, argv, i), r>>
    BY <1>2, <1>3, OtherSteps
  <2> HIDE DEF c, d
  <2>3. QED
    BY <2>1, <2>2 DEF RootsMeet, c, d
<1>4. ASSUME t.kind \in {"word", "dashdash"}
      PROVE  c = IF t = DashDash THEN <<n + 1, Operating(acc, all)>>
                 ELSE <<i + 1, Operating(acc, one)>>
  <2>1. /\ t \notin p.execFlags /\ root = None /\ t \notin ValueFlags(p)
        /\ ~AttachedTo(t, p.rootFlags) /\ ~IsAttachedPattern(p, t)
        /\ Cluster(p, t).flag = None /\ Resolve(p, t, ValueFlags(p)) = None
    BY <1>2, <1>4, PlainToken DEF NoCluster, IsAttachedPattern
  <2>2. t # DashDash => ~IsOption(t)
    BY <1>1, <1>4, TokenKinds DEF IsOption
  <2>3. RootsAt(p, argv, i, acc) =
            IF t = DashDash THEN <<n + 1, Operating(acc, all)>>
            ELSE IF IsOption(t) THEN <<i + 1, acc>>
            ELSE <<i + 1, Operating(acc, one)>>
    <3> HIDE DEF root, t
    <3> QED
      BY <2>1, RootsAtIs DEF root, t
  <2>4. QED
    BY <2>2, <2>3
<1>5. CASE t.kind = "word"
  <2>1. t # DashDash /\ t.text \in Text
    BY <1>1, <1>5, TokenKinds, TextFacts
  <2>2. c = <<i + 1, Operating(acc, one)>>
    BY <1>4, <1>5, <2>1
  <2>3. d[1] = i + 1 /\ OperandsApart(r, d[2]) /\ d[2].operands = Append(r.operands, t.text)
    BY <1>5, OperandSteps
  <2>4. one \in Seq(Text)
    BY <1>1, <2>1
  <2>5. /\ Operating(acc, one) \in Charges /\ Operating(acc, one).found = acc.found
        /\ Operating(acc, one).positionals = one /\ Operating(acc, one).pattern = acc.pattern
    <3> HIDE DEF one
    <3> QED
      BY <2>4, ChargeFacts
  <2>6. one = Append(r.operands, t.text)
    BY DEF SameOperands
  <2> HIDE DEF c, d, one, t
  <2>7. QED
    BY <2>2, <2>3, <2>5, <2>6 DEF RootsMeet, SameOperands, OperandsApart, c, d
<1>6. CASE t.kind = "dashdash"
  <2>1. t = DashDash
    BY <1>1, <1>6, TokenKinds
  <2>2. c = <<n + 1, Operating(acc, all)>>
    BY <1>4, <1>6, <2>1
  <2>3. d[1] = n + 1 /\ OperandsApart(r, d[2]) /\ d[2].operands = r.operands \o Rest(argv, i)
    BY <2>1, OperandSteps
  <2>4. all \in Seq(Text)
    BY <1>1, RestIs
  <2>5. /\ Operating(acc, all) \in Charges /\ Operating(acc, all).found = acc.found
        /\ Operating(acc, all).positionals = all /\ Operating(acc, all).pattern = acc.pattern
    <3> HIDE DEF all
    <3> QED
      BY <2>4, ChargeFacts
  <2>6. all = r.operands \o Rest(argv, i)
    BY DEF SameOperands
  <2> HIDE DEF c, d, all, t
  <2>7. QED
    BY <2>2, <2>3, <2>5, <2>6 DEF RootsMeet, SameOperands, OperandsApart, c, d
<1>7. QED
  BY <1>3, <1>5, <1>6

LEMMA RootsAtLong ==
    ASSUME NEW p, GetoptTool(p), NEW argv, IsArgv(p, argv), NEW i \in 1..Len(argv),
           NEW acc \in Charges, NEW r \in Reading, SameOperands(acc, r),
           argv[i].kind = "long"
    PROVE  \/ Stops(argv, GetoptAt(p, argv, i, r))
           \/ RootsMeet(RootsAt(p, argv, i, acc), GetoptAt(p, argv, i, r))
<1> DEFINE t == argv[i]
           n == Len(argv)
           m == Meant(p, t)
           c == RootsAt(p, argv, i, acc)
           d == GetoptAt(p, argv, i, r)
           v == ValueAt(p, argv, i)
           root == IF t \in p.rootFlags THEN t ELSE Resolve(p, t, p.rootFlags)
           seen == Seen(p, acc, t)
           next == IF i < n THEN Charge(acc, ValueOf(argv[i + 1])) ELSE acc
           VF == ValueFlags(p)
           after == IF t.text # NoText THEN i + 1 ELSE i + 2
<1>1. IsToken(p, t) /\ n \in Nat /\ t.kind \in {"long", "short"} /\ t.kind = "long"
  BY DEF IsArgv
<1>2. /\ p.rootFlags \in SUBSET ValueFlags(p) /\ p.patFlags \in SUBSET ValueFlags(p)
      /\ \A f \in ValueFlags(p) : IsFlag(f)
      /\ p.patFlags \cap p.rootFlags = {}
  BY DEF GetoptTool, ValueFlags
<1>3. t \notin p.execFlags /\ t # DashDash /\ IsOption(t)
  BY <1>1, Kinds DEF GetoptTool, IsOption
<1>4. \A F \in SUBSET ValueFlags(p) :
          /\ t \in F <=> t.text = NoText /\ Long(t.name) \in F
          /\ AttachedTo(t, F) <=> t.text # NoText /\ Long(t.name) \in F
          /\ ~GluedTo(t, F) /\ Cluster(p, t) = NoCluster
          /\ OptionFlag(p, t) = m /\ Attached(p, t) = t.text
  <2> HIDE DEF t
  <2> QED
    BY <1>1, <1>3, ValueTokens DEF t
<1>5. m # None => \A F \in SUBSET ValueFlags(p) :
          m \in F <=> Long(t.name) \in F \/ Resolve(p, t, F) # None
  <2> HIDE DEF t
  <2> QED
    BY <1>1, <1>3, ValueTokens DEF t
<1>6. None \notin ValueFlags(p) /\ NoCluster.flag = None
  BY <1>2, FlagFacts DEF NoCluster
<1>7. OptionFlag(p, t) = m /\ Attached(p, t) = t.text /\ Cluster(p, t).flag = None
      /\ (IsAttachedPattern(p, t) <=> t.text # NoText /\ Long(t.name) \in p.patFlags)
  <2>1. OptionFlag(p, t) = m /\ Attached(p, t) = t.text /\ Cluster(p, t) = NoCluster
        /\ (AttachedTo(t, p.patFlags) <=> t.text # NoText /\ Long(t.name) \in p.patFlags)
        /\ ~GluedTo(t, p.patFlags)
    <3> HIDE DEF t, m
    <3> QED
      BY <1>2, <1>4
  <2>2. QED
    BY <1>6, <2>1 DEF IsAttachedPattern
<1>8. c = IF AttachedTo(t, p.rootFlags) \/ (root # None /\ t.text # NoText)
          THEN <<i + 1, Charge(acc, t.text)>>
          ELSE IF root # None THEN <<i + 2, next>>
          ELSE IF IsAttachedPattern(p, t) THEN <<i + 1, seen>>
          ELSE IF t \in VF \/ Resolve(p, t, VF) # None THEN <<i + Width(t), seen>>
          ELSE <<i + 1, acc>>
  <2> HIDE DEF t, seen, next, root
  <2> QED
    BY <1>1, <1>3, <1>7, RootsAtIs DEF t, seen, next, root
<1>9. m # None => (SuppliesPattern(p, t) <=> m \in p.patFlags)
  <2> SUFFICES ASSUME m # None PROVE SuppliesPattern(p, t) <=> m \in p.patFlags
    OBVIOUS
  <2>1. (t \in p.patFlags <=> t.text = NoText /\ Long(t.name) \in p.patFlags)
        /\ (m \in p.patFlags <=> Long(t.name) \in p.patFlags \/ Resolve(p, t, p.patFlags) # None)
    <3> HIDE DEF t, m
    <3> QED
      BY <1>2, <1>4, <1>5
  <2>2. Cluster(p, t).flag \notin p.patFlags
    BY <1>2, <1>6, <1>7
  <2> HIDE DEF t, m
  <2>3. QED
    BY <1>7, <2>1, <2>2 DEF SuppliesPattern
<1>10. Width(t) = IF t.text = NoText THEN 2 ELSE 1
  BY DEF Width
<1>11. CASE TakesValue(p, t)
  <2>1. m \in VF /\ m # None
    BY <1>6, <1>7, <1>11 DEF TakesValue
  <2>2. SUFFICES ASSUME /\ t.text # NoText \/ i < n
                        /\ v \in Text /\ v # NoText
                        /\ d[1] = after
                        /\ d[2].roots = IF m \in p.rootFlags THEN Append(r.roots, v) ELSE r.roots
                        /\ d[2].pattern <=> r.pattern \/ m \in p.patFlags
                        /\ d[2].operands = r.operands
                 PROVE  RootsMeet(c, d)
    BY <1>7, <1>11, ValueReads
  <2>3. (t.text = NoText => v = ValueOf(argv[i + 1])) /\ (t.text # NoText => v = t.text)
    BY <1>7 DEF ValueAt
  <2>4. CASE m \in p.rootFlags
    <3>1. /\ AttachedTo(t, p.rootFlags) <=> t.text # NoText /\ Long(t.name) \in p.rootFlags
          /\ t \in p.rootFlags <=> t.text = NoText /\ Long(t.name) \in p.rootFlags
          /\ Long(t.name) \in p.rootFlags \/ Resolve(p, t, p.rootFlags) # None
      <4> HIDE DEF t, m
      <4> QED
        BY <1>2, <1>4, <1>5, <2>1, <2>4
    <3>2. t \in p.rootFlags => t # None
      BY <1>2, <1>6
    <3>3. t.text # NoText => AttachedTo(t, p.rootFlags) \/ root # None
      <4> HIDE DEF t
      <4> QED
        BY <3>1 DEF root
    <3>4. t.text = NoText => root # None /\ ~AttachedTo(t, p.rootFlags)
      <4> HIDE DEF t
      <4> QED
        BY <3>1, <3>2 DEF root
    <3>5. c = <<after, Charge(acc, v)>>
      <4>1. t.text = NoText => next = Charge(acc, v)
        BY <2>2, <2>3
      <4> HIDE DEF c, t, v, next, root, seen
      <4>2. QED
        BY <1>8, <2>3, <3>3, <3>4, <4>1
    <3>6. /\ Charge(acc, v) \in Charges /\ Charge(acc, v).found = Append(acc.found, v)
          /\ Charge(acc, v).positionals = acc.positionals
          /\ Charge(acc, v).pattern = acc.pattern
      <4>1. v \in Text
        BY <2>2
      <4> HIDE DEF v
      <4>2. QED
        BY <4>1, ChargeFacts
    <3>7. m \notin p.patFlags
      BY <1>2, <2>4
    <3> HIDE DEF c, d, v, m, t, after
    <3>8. QED
      BY <2>2, <2>4, <3>5, <3>6, <3>7 DEF RootsMeet, SameOperands
  <2>5. CASE m \notin p.rootFlags
    <3>1. ~AttachedTo(t, p.rootFlags) /\ root = None
      <4>1. /\ AttachedTo(t, p.rootFlags) <=> t.text # NoText /\ Long(t.name) \in p.rootFlags
            /\ t \in p.rootFlags <=> t.text = NoText /\ Long(t.name) \in p.rootFlags
            /\ ~(Long(t.name) \in p.rootFlags \/ Resolve(p, t, p.rootFlags) # None)
        <5> HIDE DEF t, m
        <5> QED
          BY <1>2, <1>4, <1>5, <2>1, <2>5
      <4> HIDE DEF t
      <4>2. QED
        BY <4>1 DEF root
    <3>2. /\ seen \in Charges /\ seen.found = acc.found /\ seen.positionals = acc.positionals
          /\ seen.pattern <=> acc.pattern \/ SuppliesPattern(p, t)
      BY ChargeFacts
    <3>3. seen.pattern <=> acc.pattern \/ m \in p.patFlags
      <4> HIDE DEF seen, m, t
      <4> QED
        BY <1>9, <2>1, <3>2
    <3>4. VF \in SUBSET VF /\ (m \in VF <=> Long(t.name) \in VF \/ Resolve(p, t, VF) # None)
          /\ (t \in VF <=> t.text = NoText /\ Long(t.name) \in VF)
      <4>1. VF \in SUBSET VF
        OBVIOUS
      <4> HIDE DEF t, m
      <4>2. QED
        BY <1>4, <1>5, <2>1, <4>1
    <3>5. CASE IsAttachedPattern(p, t) \/ t \in VF \/ Resolve(p, t, VF) # None
      <4>1. c = <<after, seen>>
        <5>1. IsAttachedPattern(p, t) => t.text # NoText
          BY <1>7
        <5>2. t \in VF => t.text = NoText
          BY <3>4
        <5> HIDE DEF c, t, next, root, seen, VF
        <5>3. QED
          BY <1>8, <1>10, <3>1, <3>5, <5>1, <5>2
      <4> HIDE DEF c, d, v, m, t, after, seen
      <4>2. QED
        BY <2>2, <2>5, <3>2, <3>3, <4>1 DEF RootsMeet, SameOperands
    <3>6. CASE ~(IsAttachedPattern(p, t) \/ t \in VF \/ Resolve(p, t, VF) # None)
      <4>1. Long(t.name) \in VF /\ t.text # NoText /\ Long(t.name) \notin p.patFlags
        BY <1>7, <2>1, <3>4, <3>6
      <4>2. m = Long(t.name)
        BY <4>1 DEF Meant, Options
      <4>3. c = <<after, acc>>
        <5> HIDE DEF c, t, next, root, seen, VF
        <5> QED
          BY <1>8, <3>1, <3>6, <4>1
      <4>4. m \notin p.patFlags
        BY <4>1, <4>2
      <4> HIDE DEF c, d, v, m, t, after
      <4>5. QED
        BY <2>2, <2>5, <4>3, <4>4 DEF RootsMeet, SameOperands
    <3>7. QED
      BY <3>5, <3>6
  <2>6. QED
    BY <2>4, <2>5
<1>12. CASE ~TakesValue(p, t)
  <2>1. SUFFICES ASSUME m # None, t.text = NoText, d[1] = i + 1, Kept(r, d[2])
                 PROVE  RootsMeet(c, d)
    BY <1>1, <1>3, <1>12, SwitchReads
  <2>2. m \notin VF
    BY <1>1, <1>3, <1>7, <1>12 DEF TakesValue
  <2>3. \A F \in SUBSET VF : t \notin F /\ ~AttachedTo(t, F) /\ Resolve(p, t, F) = None
    <3> HIDE DEF t, m
    <3> QED
      BY <1>4, <1>5, <2>1, <2>2
  <2>4. /\ ~AttachedTo(t, p.rootFlags) /\ root = None /\ ~IsAttachedPattern(p, t)
        /\ t \notin VF /\ Resolve(p, t, VF) = None
    <3>1. VF \in SUBSET VF
      OBVIOUS
    <3> HIDE DEF t
    <3>2. QED
      BY <1>2, <1>7, <2>1, <2>3, <3>1 DEF root
  <2>5. c = <<i + 1, acc>>
    <3> HIDE DEF c, t, next, root, seen, VF
    <3> QED
      BY <1>8, <2>4
  <2> HIDE DEF c, d
  <2>6. QED
    BY <2>1, <2>5 DEF RootsMeet, SameOperands, Kept
<1>13. QED
  BY <1>11, <1>12

LEMMA RootsAtShort ==
    ASSUME NEW p, GetoptTool(p), NEW argv, IsArgv(p, argv), NEW i \in 1..Len(argv),
           NEW acc \in Charges, NEW r \in Reading, SameOperands(acc, r),
           argv[i].kind = "short", argv[i] \notin p.execFlags
    PROVE  \/ Stops(argv, GetoptAt(p, argv, i, r))
           \/ RootsMeet(RootsAt(p, argv, i, acc), GetoptAt(p, argv, i, r))
<1> DEFINE t == argv[i]
           n == Len(argv)
           c == RootsAt(p, argv, i, acc)
           d == GetoptAt(p, argv, i, r)
           flag == OptionFlag(p, t)
           seen == Seen(p, acc, t)
           VF == ValueFlags(p)
           k == Eater(p, t)
           len == Len(t.text)
           next == Cluster(p, t).next
           after == IF Attached(p, t) # NoText THEN i + 1 ELSE i + 2
<1>1. IsToken(p, t) /\ n \in Nat /\ t.kind \in {"long", "short"} /\ t.kind = "short"
      /\ t \notin p.execFlags
  BY DEF IsArgv
<1>2. /\ p.rootFlags \in SUBSET ValueFlags(p) /\ p.patFlags \in SUBSET ValueFlags(p)
      /\ \A f \in ValueFlags(p) : IsFlag(f)
      /\ \A f \in p.rootFlags : f.kind = "long"
  BY DEF GetoptTool, ValueFlags
<1>3. t # DashDash /\ IsOption(t)
  BY <1>1, Kinds DEF IsOption
<1>4. VF \in SUBSET VF
  OBVIOUS
<1>5. \A F \in SUBSET VF :
          /\ Resolve(p, t, F) = None /\ ~AttachedTo(t, F)
          /\ t \in F <=> k = 1 /\ len = 1 /\ flag \in F
          /\ GluedTo(t, F) <=> k = 1 /\ len # 1 /\ flag \in F
  <2> HIDE DEF t
  <2> QED
    BY <1>1, ValueTokens DEF t
<1>6. /\ Cluster(p, t).flag = flag
      /\ next <=> TakesValue(p, t) /\ Attached(p, t) = NoText
      /\ Attached(p, t) = NoText <=> k = len
      /\ TakesValue(p, t) <=> k # 0
      /\ TakesValue(p, t) => flag # None
  <2> HIDE DEF t
  <2> QED
    BY <1>1, <1>4, ValueTokens DEF t
<1>7. None \notin VF
  BY <1>2, FlagFacts
<1>8. ~AttachedTo(t, p.rootFlags) /\ Resolve(p, t, p.rootFlags) = None /\ t \notin p.rootFlags
      /\ Resolve(p, t, VF) = None /\ (t \in VF => k = 1)
      /\ (IsAttachedPattern(p, t) <=> k = 1 /\ len # 1 /\ flag \in p.patFlags)
  <2>1. t \notin p.rootFlags
    BY <1>1, <1>2
  <2> HIDE DEF t, flag, k, len
  <2>2. QED
    BY <1>2, <1>4, <1>5, <2>1 DEF IsAttachedPattern
<1>9. c = IF IsAttachedPattern(p, t) THEN <<i + 1, seen>>
          ELSE IF flag # None THEN <<i + (IF next THEN 2 ELSE 1), seen>>
          ELSE IF t \in VF THEN <<i + Width(None), seen>>
          ELSE <<i + 1, acc>>
  <2>1. t.kind # "long"
    BY <1>1
  <2>2. RootsAt(p, argv, i, acc) =
            IF IsAttachedPattern(p, t) THEN <<i + 1, seen>>
            ELSE IF Cluster(p, t).flag # None
            THEN <<i + (IF Cluster(p, t).next THEN 2 ELSE 1), seen>>
            ELSE IF t \in VF THEN <<i + Width(None), seen>>
            ELSE <<i + 1, acc>>
    <3> HIDE DEF t, seen
    <3> QED
      BY <1>1, <1>3, <1>8, <2>1, RootsAtIs DEF t, seen
  <2> HIDE DEF t, seen, flag
  <2>3. QED
    BY <1>6, <2>2
<1>10. CASE TakesValue(p, t)
  <2> DEFINE v == ValueAt(p, argv, i)
  <2>1. flag # None /\ flag \in VF
    BY <1>6, <1>10 DEF TakesValue
  <2>2. flag \notin p.rootFlags
    <3>1. flag = Short(<<t.text[k]>>)
      BY <1>1, <2>1 DEF OptionFlag
    <3>2. flag.kind = "short"
      <4> HIDE DEF flag
      <4> QED
        BY <3>1, Kinds
    <3> HIDE DEF flag
    <3>3. QED
      BY <1>2, <3>2
  <2>3. SUFFICES ASSUME /\ d[1] = after
                        /\ d[2].roots = IF flag \in p.rootFlags THEN Append(r.roots, v) ELSE r.roots
                        /\ d[2].pattern <=> r.pattern \/ flag \in p.patFlags
                        /\ d[2].operands = r.operands
                 PROVE  RootsMeet(c, d)
    BY <1>10, ValueReads
  <2>4. SuppliesPattern(p, t) <=> flag \in p.patFlags
    <3>1. Resolve(p, t, p.patFlags) = None
          /\ (t \in p.patFlags => flag \in p.patFlags)
      BY <1>2, <1>5
    <3> HIDE DEF t, flag
    <3>2. QED
      BY <1>6, <1>8, <3>1 DEF SuppliesPattern
  <2>5. /\ seen \in Charges /\ seen.found = acc.found /\ seen.positionals = acc.positionals
        /\ seen.pattern <=> acc.pattern \/ flag \in p.patFlags
    <3>1. /\ seen \in Charges /\ seen.found = acc.found /\ seen.positionals = acc.positionals
          /\ seen.pattern <=> acc.pattern \/ SuppliesPattern(p, t)
      <4> HIDE DEF t
      <4> QED
        BY ChargeFacts
    <3> HIDE DEF seen, t, flag
    <3>2. QED
      BY <2>4, <3>1
  <2>6. c = <<after, seen>>
    <3>1. IsAttachedPattern(p, t) => Attached(p, t) # NoText
      <4> HIDE DEF t
      <4> QED
        BY <1>6, <1>8
    <3>2. after = IF Attached(p, t) = NoText THEN i + 2 ELSE i + 1
      <4> DEFINE attached == Attached(p, t)
      <4> HIDE DEF attached
      <4> QED
        BY DEF attached
    <3>3. flag # None /\ (next <=> Attached(p, t) = NoText)
      <4> HIDE DEF t, flag, next
      <4> QED
        BY <1>6, <1>10
    <3>4. c = IF IsAttachedPattern(p, t) THEN <<i + 1, seen>>
              ELSE <<i + (IF next THEN 2 ELSE 1), seen>>
      <4> HIDE DEF c, t, seen, flag, next
      <4> QED
        BY <1>9, <3>3
    <3> HIDE DEF c, t, seen, flag, next, after
    <3>5. QED
      BY <3>1, <3>2, <3>3, <3>4
  <2> HIDE DEF c, d, seen, flag, after
  <2>7. QED
    BY <2>2, <2>3, <2>5, <2>6 DEF RootsMeet, SameOperands
<1>11. CASE ~TakesValue(p, t)
  <2>1. SUFFICES ASSUME d[1] = i + 1, Kept(r, d[2])
                 PROVE  RootsMeet(c, d)
    BY <1>1, <1>11, SwitchReads
  <2>2. k = 0
    BY <1>6, <1>11
  <2>3. flag = None
    BY <1>1, <2>2 DEF OptionFlag
  <2>4. ~IsAttachedPattern(p, t) /\ t \notin VF
    BY <1>8, <2>2
  <2>5. c = <<i + 1, acc>>
    <3> HIDE DEF c, t, seen, flag, next
    <3> QED
      BY <1>9, <2>3, <2>4
  <2> HIDE DEF c, d
  <2>6. QED
    BY <2>1, <2>5 DEF RootsMeet, SameOperands, Kept
<1>12. QED
  BY <1>10, <1>11

\* The operands of a command are those of its tool.
LEMMA RootsReadAs ==
    ASSUME NEW p, GetoptTool(p), NEW argv, IsArgv(p, argv)
    PROVE  Read(p, argv).runs =>
               RootsFrom(p, argv) \in Charges /\ SameOperands(RootsFrom(p, argv), Read(p, argv))
<1> DEFINE n == Len(argv)
           step == [c \in (1..n) \X Charges |-> RootsAt(p, argv, c[1], c[2])]
           R == {x \in Charges \X Reading : SameOperands(x[1], x[2])}
           a == Charged
<1>1. Advances(n, Charges, step)
  <2>1. \A c \in (1..n) \X Charges :
            RootsAt(p, argv, c[1], c[2]) \in Places(Charges)
            /\ RootsAt(p, argv, c[1], c[2])[1] > c[1]
    BY RootsGoOn
  <2>2. QED
    BY <2>1 DEF Advances
<1>2. \A i \in 1..n : \A x \in R :
          LET c == step[<<i, x[1]>>]
              d == GetoptAt(p, argv, i, x[2])
          IN  Stops(argv, d) \/ (c[1] = d[1] /\ <<c[2], d[2]>> \in R)
  <2> SUFFICES ASSUME NEW i \in 1..n, NEW x \in R
               PROVE  LET c == step[<<i, x[1]>>]
                          d == GetoptAt(p, argv, i, x[2])
                      IN  Stops(argv, d) \/ (c[1] = d[1] /\ <<c[2], d[2]>> \in R)
    OBVIOUS
  <2> DEFINE acc == x[1]
             r == x[2]
             c == RootsAt(p, argv, i, acc)
             d == GetoptAt(p, argv, i, r)
  <2>1. acc \in Charges /\ r \in Reading /\ SameOperands(acc, r)
    OBVIOUS
  <2>2. step[<<i, x[1]>>] = c
    BY <2>1
  <2>3. c \in Places(Charges) /\ d \in Places(Reading)
    BY <2>1, RootsGoOn, GetoptGoesOn
  <2>4. argv[i].kind \in {"word", "dashdash", "long", "short"}
    BY TokenKinds DEF IsArgv
  <2>5. Stops(argv, d) \/ RootsMeet(c, d)
    <3> HIDE DEF acc, r
    <3> QED
      BY <2>1, <2>4, RootsAtOther, RootsAtLong, RootsAtShort
  <2>6. RootsMeet(c, d) => c[1] = d[1] /\ <<c[2], d[2]>> \in R
    <3> HIDE DEF c, d
    <3> QED
      BY <2>3 DEF RootsMeet, Places
  <2> HIDE DEF c, d, step, R
  <2>7. QED
    BY <2>2, <2>5, <2>6 DEF d
<1>3. a \in Charges
  BY DEF Charged, Charges
<1>4. Nothing(p) \in Reading /\ SameOperands(a, Nothing(p))
  <2>1. p.dirAction \in Actions
    BY DEF GetoptTool
  <2>2. QED
    BY <2>1, NothingRead DEF SameOperands, Charged, Nothing
<1>5. R \in SUBSET (Charges \X Reading) /\ <<a, Nothing(p)>> \in R
  BY <1>3, <1>4
<1>6. RootsFrom(p, argv) = Scan(n, Charges, step, a)
  BY DEF RootsFrom
<1> HIDE DEF step, R, a
<1>7. Read(p, argv).runs => <<Scan(n, Charges, step, a), Read(p, argv)>> \in R
  BY <1>1, <1>2, <1>5, ReadsAlong
<1>8. QED
  BY <1>6, <1>7 DEF R

-----------------------------------------------------------------------------

\* What is charged is what the tool takes for its operands.
LEMMA OperandsReadAs ==
    ASSUME NEW p, GetoptTool(p), NEW argv, IsArgv(p, argv), Read(p, argv).runs,
           NEW tty, NEW fallback
    PROVE  Roots(p, argv, tty, fallback) =
               LET found == Operands(p, Read(p, argv))
                   needsTty == p.rootMode = "stdin" \/ p.fallbackNeedsTty
               IN  IF found = << >> /\ fallback /\ (tty \/ ~needsTty) THEN {Here}
                   ELSE ToSet(found) \ {<< >>}
<1> DEFINE scan == RootsFrom(p, argv)
           r == Read(p, argv)
           skip == IF scan.pattern THEN 0 ELSE p.skipPos
           skip2 == IF r.pattern THEN 0 ELSE p.skipPos
           rest == IF p.rootMode = "stdin" THEN << >>
                   ELSE SubSeq(scan.positionals, skip + 1, Len(scan.positionals))
           found == scan.found \o rest
           needsTty == p.rootMode = "stdin" \/ p.fallbackNeedsTty
<1>1. SameOperands(scan, r)
  BY RootsReadAs
<1>2. p.rootMode \in {"positional", "stdin"}
  BY DEF GetoptTool
<1>3. Roots(p, argv, tty, fallback) =
          IF found = << >> /\ fallback /\ (tty \/ ~needsTty) THEN {Here} ELSE ToSet(found) \ {<< >>}
  BY <1>2 DEF Roots
<1>4. Operands(p, r) = r.roots \o (IF p.rootMode = "stdin" THEN << >>
                                   ELSE SubSeq(r.operands, skip2 + 1, Len(r.operands)))
  BY <1>2 DEF Operands
<1>5. found = Operands(p, r)
  <2>1. scan.found = r.roots /\ scan.positionals = r.operands /\ (scan.pattern <=> r.pattern)
    BY <1>1 DEF SameOperands
  <2> HIDE DEF scan, r
  <2>2. skip = skip2
    BY <2>1
  <2>3. QED
    BY <1>4, <2>1, <2>2
<1> HIDE DEF found, r
<1>6. QED
  BY <1>3, <1>5 DEF r

-----------------------------------------------------------------------------
(* What the scanners promise of a tool with getopt's grammar. *)

\* is_traversal() is right of every command that a getopt tool runs: the last
\* directory action in the argv is the one the tool obeys, however the options
\* are spelled, ordered or clustered.
\* src/walk_blocker/search_rules.py:1606-1651 and 1654-1740.
THEOREM GetoptTraversal ==
    ASSUME NEW p, GetoptTool(p), NEW argv, IsArgv(p, argv)
    PROVE  TraversalIsRead(p, argv)
<1> DEFINE r == Read(p, argv)
<1>1. SUFFICES ASSUME r.runs
               PROVE  IsTraversal(p, argv) <=> Traverses(p, r)
  BY DEF TraversalIsRead
<1>2. ScanBounds(p, argv).last = r.depth
  BY <1>1, BoundsReadAs DEF SameBounds
<1>3. CASE p.dirAction = "none"
  <2> HIDE DEF r
  <2> QED
    BY <1>3 DEF IsTraversal, Traverses
<1>4. CASE p.dirAction # "none"
  <2>1. LastDirAction(p, argv) = r.action
    BY <1>1, <1>4, ActionIsRead
  <2> HIDE DEF r
  <2>2. QED
    BY <1>2, <1>4, <2>1 DEF IsTraversal, Traverses
<1>5. QED
  BY <1>3, <1>4

\* The depth bound, the device bound and the malformed verdict are the tool's
\* own of every walk that a getopt tool runs: the last depth decides, a setting
\* is switched off where its antonym comes later, and digits add up to one depth.
\* src/walk_blocker/search_rules.py:1913-2003 and 2006-2269.
THEOREM GetoptBounds ==
    ASSUME NEW p, GetoptTool(p), NEW argv, IsArgv(p, argv)
    PROVE  BoundsAreRead(p, argv)
<1> DEFINE r == Read(p, argv)
<1>1. SUFFICES ASSUME r.runs
               PROVE  /\ DepthBound(p, argv) = DepthReached(p, r)
                      /\ DeviceBounded(p, argv) = r.device
                      /\ ~DepthMalformed(p, argv)
  BY DEF BoundsAreRead
<1>2. SameBounds(p, ScanBounds(p, argv), r)
  BY <1>1, BoundsReadAs
<1>3. Roots(p, argv, FALSE, FALSE) = ToSet(Operands(p, r)) \ {<< >>}
  BY <1>1, OperandsReadAs
<1>4. p.defaultDepth # NoDepth => LastDirAction(p, argv) = r.action
  <2>1. p.defaultDepth # NoDepth => p.dirAction # "none"
    BY DEF GetoptTool
  <2>2. QED
    BY <1>1, <2>1, ActionIsRead
<1>5. DepthBound(p, argv) = DepthReached(p, r)
  <2> HIDE DEF r
  <2> QED
    BY <1>2, <1>3, <1>4 DEF DepthBound, DepthReached, SameBounds
<1> HIDE DEF r
<1>6. QED
  BY <1>2, <1>5 DEF SameBounds, DeviceBounded, DepthMalformed

\* A getopt tool walks from the roots that roots() collects, relative to the
\* directory that effective_cwd() reads, and from nowhere else.
\* src/walk_blocker/search_rules.py:2321-2603 and 1325-1389.
THEOREM GetoptRoots ==
    ASSUME NEW p, GetoptTool(p), NEW argv, IsArgv(p, argv), NEW tty
    PROVE  RootsAreRead(p, argv, tty)
<1> DEFINE r == Read(p, argv)
<1>1. SUFFICES ASSUME r.runs
               PROVE  Roots(p, argv, tty, TRUE) = Walked(p, r, tty) /\ EffectiveCwd(p, argv) = r.base
  BY DEF RootsAreRead
<1>2. EffectiveCwd(p, argv) = r.base
  BY <1>1, CwdReadAs
<1>3. Roots(p, argv, tty, TRUE) =
          LET found == Operands(p, r)
              needsTty == p.rootMode = "stdin" \/ p.fallbackNeedsTty
          IN  IF found = << >> /\ (tty \/ ~needsTty) THEN {Here} ELSE ToSet(found) \ {<< >>}
  BY <1>1, OperandsReadAs
<1> HIDE DEF r
<1>4. ToSet(<< >>) = {}
  BY DEF ToSet
<1>5. Roots(p, argv, tty, TRUE) = Walked(p, r, tty)
  BY <1>3, <1>4 DEF Walked
<1>6. QED
  BY <1>2, <1>5

-----------------------------------------------------------------------------
(* find and bfs. *)

\* A tool with find's grammar: its options are letters, and the letters that
\* make a cluster take no value; what its expression is made of is words.
FindTool(p) ==
    /\ p.rootMode = "leading" /\ p.dirAction = "none" /\ p.defaultDepth = NoDepth
    /\ ~p.abbreviates /\ ~p.depthRange /\ p.depthDigits = {}
    /\ p.recFlags = {} /\ p.recValue = {} /\ p.deviceOff = {} /\ p.patFlags = {}
    /\ p.cwdFlags = {}
    /\ p.clusterLetters # {} /\ p.clusterLetters \subseteq Letter
    /\ p.values = {Short(<<"D">>), Short(<<"S">>)}
    /\ \A f \in p.values \cup p.rootFlags : \E x \in Letter \ p.clusterLetters : f = Short(<<x>>)
    /\ \A f \in p.depthFlags \cup p.execFlags : \E x : x \notin Letter /\ f = Short(<<x>>)
    /\ \A f \in p.deviceFlags :
           \E x : (x \in Letter => x \in p.clusterLetters) /\ f = Short(<<x>>)
    /\ p.depthFlags \cap (p.execFlags \cup p.deviceFlags) = {}
    /\ p.execFlags \cap p.deviceFlags = {}
    /\ p.dashdash = "end_of_options" \/ p.rootFlags = {}

\* What it may be given.
IsWord(t) ==
    \/ t = Word(t.text) /\ t.text \in Seq(Atom)
    \/ t = DashDash
    \/ t = LongIs(t.name, t.text)
    \/ t = Short(t.text) /\ t.text \in Seq(Atom) /\ t.text # << >>
IsCommand(argv) == Len(argv) \in Nat /\ \A i \in 1..Len(argv) : IsWord(argv[i])

LEMMA WordKinds ==
    ASSUME NEW t, IsWord(t)
    PROVE  /\ t.kind \in {"word", "dashdash", "long", "short"}
           /\ t.kind = "word" => t = Word(t.text) /\ t.text \in Seq(Atom)
           /\ t.kind = "dashdash" <=> t = DashDash
           /\ t.kind = "short" => t = Short(t.text) /\ t.text \in Seq(Atom) /\ t.text # << >>
           /\ ValueOf(t) \in Text /\ ValueOf(t) # NoText
<1>1. /\ t.kind \in {"word", "dashdash", "long", "short"}
      /\ t.kind = "word" => t = Word(t.text) /\ t.text \in Seq(Atom)
      /\ t.kind = "dashdash" <=> t = DashDash
      /\ t.kind = "short" => t = Short(t.text) /\ t.text \in Seq(Atom) /\ t.text # << >>
  <2>1. CASE t = Word(t.text) /\ t.text \in Seq(Atom)
    <3>1. \A x : t = Word(x) => t.kind = "word" /\ t # DashDash
      BY Kinds
    <3>2. t.kind = "word" /\ t # DashDash
      BY <2>1, <3>1
    <3>3. QED
      BY <2>1, <3>2
  <2>2. CASE t = DashDash
    BY <2>2, Kinds
  <2>3. CASE t = LongIs(t.name, t.text)
    <3>1. t.kind = "long"
      BY <2>3 DEF LongIs, Token
    <3>2. QED
      BY <2>3, <3>1, Kinds
  <2>4. CASE t = Short(t.text) /\ t.text \in Seq(Atom) /\ t.text # << >>
    <3>1. \A x : t = Short(x) => t.kind = "short" /\ t # DashDash
      BY Kinds
    <3>2. t.kind = "short" /\ t # DashDash
      BY <2>4, <3>1
    <3>3. QED
      BY <2>4, <3>2
  <2>5. QED
    BY <2>1, <2>2, <2>3, <2>4 DEF IsWord
<1>2. ValueOf(t) \in Seq(Atom)
  BY <1>1, TextFacts
<1>3. QED
  BY <1>1, <1>2, TextFacts

\* Letters that are options together.
Clustered(p, t) == t.kind = "short" /\ ToSet(t.text) \subseteq p.clusterLetters

\* What a token is to find, and what the scanners make of it.
LEMMA FindFlags ==
    ASSUME NEW p, FindTool(p)
    PROVE  /\ ValueFlags(p) = p.values \cup p.rootFlags \cup p.depthFlags
           /\ \A f \in ValueFlags(p) \cup p.deviceFlags \cup p.execFlags :
                  \E x : f = Short(<<x>>)
           /\ \A x \in Letter : Short(<<x>>) \in ValueFlags(p) =>
                  x \notin p.clusterLetters /\ Short(<<x>>) \in p.values \cup p.rootFlags
<1>1. ValueFlags(p) = p.values \cup p.rootFlags \cup p.depthFlags
  BY DEF FindTool, ValueFlags
<1>2. /\ \A f \in p.values \cup p.rootFlags : \E x \in Letter \ p.clusterLetters : f = Short(<<x>>)
      /\ \A f \in p.depthFlags \cup p.execFlags : \E x : x \notin Letter /\ f = Short(<<x>>)
      /\ \A f \in p.deviceFlags : \E x : f = Short(<<x>>)
  BY DEF FindTool
<1>3. \A f \in ValueFlags(p) \cup p.deviceFlags \cup p.execFlags : \E x : f = Short(<<x>>)
  BY <1>1, <1>2
<1>4. \A x, y : Short(<<x>>) = Short(<<y>>) => x = y
  <2>1. \A x, y : <<x>> = <<y>> => x = y
    OBVIOUS
  <2>2. QED
    BY <2>1, SameShort
<1>5. ASSUME NEW x \in Letter, Short(<<x>>) \in ValueFlags(p)
      PROVE  x \notin p.clusterLetters /\ Short(<<x>>) \in p.values \cup p.rootFlags
  <2>1. ASSUME Short(<<x>>) \in p.depthFlags PROVE FALSE
    <3>1. PICK y : y \notin Letter /\ Short(<<x>>) = Short(<<y>>)
      BY <1>2, <2>1
    <3>2. QED
      BY <1>4, <3>1
  <2>2. Short(<<x>>) \in p.values \cup p.rootFlags
    BY <1>1, <1>5, <2>1
  <2>3. PICK y \in Letter \ p.clusterLetters : Short(<<x>>) = Short(<<y>>)
    BY <1>2, <2>2
  <2>4. QED
    BY <1>4, <2>2, <2>3
<1>6. QED
  BY <1>1, <1>3, <1>5

LEMMA OneLetter ==
    \A x : /\ Short(<<x>>).text = <<x>> /\ Short(<<x>>).kind = "short" /\ Len(<<x>>) = 1
           /\ <<x>>[1] = x /\ ToSet(<<x>>) = {x} /\ SubSeq(<<x>>, 1, 1) = <<x>>
<1> SUFFICES ASSUME NEW x
             PROVE  /\ Short(<<x>>).text = <<x>> /\ Short(<<x>>).kind = "short" /\ Len(<<x>>) = 1
                    /\ <<x>>[1] = x /\ ToSet(<<x>>) = {x} /\ SubSeq(<<x>>, 1, 1) = <<x>>
  OBVIOUS
<1>1. ToSet(<<x>>) = {x}
  BY DEF ToSet
<1>2. SubSeq(<<x>>, 1, 1) = <<x>>
  <2> DEFINE s == <<x>>
             u == SubSeq(s, 1, 1)
  <2>1. s \in Seq({x}) /\ Len(s) = 1
    OBVIOUS
  <2>2. u \in Seq({x}) /\ Len(u) = 1 /\ u[1] = s[1]
    BY <2>1
  <2> HIDE DEF u, s
  <2>3. u = s
    BY <2>1, <2>2
  <2>4. QED
    BY <2>3 DEF u, s
<1>3. QED
  BY <1>1, <1>2, Kinds

LEMMA NothingEaten ==
    ASSUME NEW p, NEW t, t.kind = "short", p.clusterLetters # {},
           \A i \in 1..Len(t.text) :
               Short(<<t.text[i]>>) \in ValueFlags(p) => t.text[i] \notin Letter
    PROVE  Cluster(p, t) = IF ToSet(t.text) \subseteq p.clusterLetters
                           THEN [NoCluster EXCEPT !.letters = t.text] ELSE NoCluster
<1> DEFINE eating == {i \in 1..Len(t.text) :
                         t.text[i] \in Letter /\ Short(<<t.text[i]>>) \in ValueFlags(p)}
<1>1. eating = {}
  OBVIOUS
<1>2. QED
  BY <1>1 DEF Cluster

LEMMA FirstEaten ==
    ASSUME NEW p, NEW x \in Letter, Short(<<x>>) \in ValueFlags(p)
    PROVE  Cluster(p, Short(<<x>>)) =
               [letters |-> <<x>>, flag |-> Short(<<x>>), glued |-> NoText, next |-> TRUE]
<1> DEFINE t == Short(<<x>>)
           n == Len(t.text)
           eating == {i \in 1..n : t.text[i] \in Letter /\ Short(<<t.text[i]>>) \in ValueFlags(p)}
<1>1. t.text = <<x>> /\ n = 1 /\ t.text[1] = x /\ t.kind = "short"
  BY OneLetter
<1>2. eating = {1}
  <2> HIDE DEF t
  <2> QED
    BY <1>1
<1>3. Min(eating) = 1
  <2> DEFINE one == {1}
  <2>1. one \in SUBSET Nat /\ 1 \in one /\ \A y \in one : 1 <= y
    OBVIOUS
  <2> HIDE DEF one
  <2>2. Min(one) = 1
    BY <2>1, LeastIs
  <2>3. QED
    BY <1>2, <2>2 DEF one
<1>4. Cluster(p, t) =
          [letters |-> SubSeq(t.text, 1, 1), flag |-> Short(<<t.text[1]>>),
           glued |-> IF 1 = n THEN NoText ELSE SubSeq(t.text, 1 + 1, n),
           next |-> 1 = n]
  <2> DEFINE i == Min(eating)
  <2>1. eating # {} /\ t.kind = "short"
    BY <1>1, <1>2
  <2>2. Cluster(p, t) =
            [letters |-> SubSeq(t.text, 1, i), flag |-> Short(<<t.text[i]>>),
             glued |-> IF i = n THEN NoText ELSE SubSeq(t.text, i + 1, n),
             next |-> i = n]
    <3> HIDE DEF t
    <3> QED
      BY <2>1 DEF Cluster
  <2>3. i = 1
    BY <1>3
  <2> HIDE DEF i, t, n
  <2>4. QED
    BY <2>2, <2>3
<1>5. SubSeq(t.text, 1, 1) = <<x>> /\ Short(<<t.text[1]>>) = Short(<<x>>)
  BY <1>1, OneLetter
<1> HIDE DEF t, n
<1>6. QED
  BY <1>1, <1>4, <1>5 DEF t

LEMMA FindCluster ==
    ASSUME NEW p, FindTool(p), NEW t, IsWord(t)
    PROVE  /\ \A F : Resolve(p, t, F) = None
           /\ \A F \in SUBSET (ValueFlags(p) \cup p.deviceFlags) : ~AttachedTo(t, F)
           /\ t.kind # "short" => /\ Cluster(p, t) = NoCluster
                                  /\ t \notin ValueFlags(p) \cup p.deviceFlags \cup p.execFlags
           /\ Clustered(p, t) => /\ Cluster(p, t) = [NoCluster EXCEPT !.letters = t.text]
                                 /\ t \notin ValueFlags(p) \cup p.execFlags
           /\ \A x \in Letter : t = Short(<<x>>) /\ t \in ValueFlags(p) =>
                  Cluster(p, t) = [letters |-> <<x>>, flag |-> t, glued |-> NoText, next |-> TRUE]
           /\ \A x : t = Short(<<x>>) /\ x \notin Letter => Cluster(p, t) = NoCluster
<1>1. ~p.abbreviates /\ p.clusterLetters # {} /\ p.clusterLetters \subseteq Letter
  BY DEF FindTool
<1>2. \A f \in ValueFlags(p) \cup p.deviceFlags \cup p.execFlags : \E x : f = Short(<<x>>)
  BY FindFlags
<1>3. \A F : Resolve(p, t, F) = None
  BY <1>1 DEF Resolve
<1>4. \A f \in ValueFlags(p) \cup p.deviceFlags \cup p.execFlags : f.kind = "short"
  BY <1>2, OneLetter
<1>5. \A F \in SUBSET (ValueFlags(p) \cup p.deviceFlags) : ~AttachedTo(t, F)
  <2>1. Long(t.name).kind = "long"
    BY Kinds
  <2>2. Long(t.name) \notin ValueFlags(p) \cup p.deviceFlags
    BY <1>4, <2>1
  <2>3. QED
    BY <2>2 DEF AttachedTo
<1>6. t.kind # "short" => /\ Cluster(p, t) = NoCluster
                          /\ t \notin ValueFlags(p) \cup p.deviceFlags \cup p.execFlags
  BY <1>4 DEF Cluster
<1>7. ASSUME Clustered(p, t)
      PROVE  /\ Cluster(p, t) = [NoCluster EXCEPT !.letters = t.text]
             /\ t \notin ValueFlags(p) \cup p.execFlags
  <2>1. t.kind = "short" /\ ToSet(t.text) \subseteq p.clusterLetters /\ t.text \in Seq(Atom)
    BY <1>7, WordKinds DEF Clustered
  <2>2. \A i \in 1..Len(t.text) : t.text[i] \in p.clusterLetters
    BY <2>1 DEF ToSet
  <2>3. \A i \in 1..Len(t.text) : Short(<<t.text[i]>>) \notin ValueFlags(p)
    BY <1>1, <2>2, FindFlags
  <2>4. Cluster(p, t) = [NoCluster EXCEPT !.letters = t.text]
    BY <1>1, <2>1, <2>3, NothingEaten
  <2>5. ASSUME t \in ValueFlags(p) \cup p.execFlags PROVE FALSE
    <3>1. PICK x : t = Short(<<x>>)
      BY <1>2, <2>5
    <3>2. x \in p.clusterLetters /\ x \in Letter
      BY <1>1, <2>1, <3>1, OneLetter
    <3>3. t \notin ValueFlags(p)
      BY <3>1, <3>2, FindFlags
    <3>4. PICK y : y \notin Letter /\ t = Short(<<y>>)
      BY <2>5, <3>3 DEF FindTool
    <3>5. x = y
      <4>1. t.text[1] = x /\ t.text[1] = y
        BY <3>1, <3>4, OneLetter
      <4>2. QED
        BY <4>1
    <3>6. QED
      BY <3>2, <3>4, <3>5
  <2>6. QED
    BY <2>4, <2>5
<1>8. ASSUME NEW x \in Letter, t = Short(<<x>>), t \in ValueFlags(p)
      PROVE  Cluster(p, t) = [letters |-> <<x>>, flag |-> t, glued |-> NoText, next |-> TRUE]
  BY <1>8, FirstEaten
<1>9. ASSUME NEW x, t = Short(<<x>>), x \notin Letter PROVE Cluster(p, t) = NoCluster
  <2>1. t.text = <<x>> /\ Len(t.text) = 1 /\ t.text[1] = x /\ t.kind = "short" /\ ToSet(t.text) = {x}
    BY <1>9, OneLetter
  <2>2. \A i \in 1..Len(t.text) : t.text[i] \notin Letter
    BY <1>9, <2>1
  <2>3. ~(ToSet(t.text) \subseteq p.clusterLetters)
    BY <1>1, <1>9, <2>1
  <2> HIDE DEF Letter
  <2>4. QED
    BY <1>1, <2>1, <2>2, <2>3, NothingEaten
<1>10. QED
  BY <1>3, <1>5, <1>6, <1>7, <1>8, <1>9

LEMMA FindKinds ==
    ASSUME NEW p, FindTool(p), NEW t, IsWord(t)
    PROVE  /\ FindLeading(p, t) = IF t \in p.rootFlags \cup p.values THEN 2
                                  ELSE IF Clustered(p, t) THEN 1 ELSE 0
           /\ t \in p.rootFlags \cup p.values =>
                  /\ \E x \in Letter : t = Short(<<x>>)
                  /\ t \in ValueFlags(p)
                  /\ t \notin p.depthFlags \cup p.execFlags \cup p.deviceFlags
           /\ t \in p.depthFlags \cup p.execFlags \cup p.deviceFlags =>
                  \E x : t = Short(<<x>>) /\ (x \in Letter => Clustered(p, t))
           /\ Clustered(p, t) => t \notin p.depthFlags \cup p.execFlags \cup ValueFlags(p)
           /\ t \in p.execFlags => t \notin p.deviceFlags \cup ValueFlags(p)
           /\ t \in p.deviceFlags => t \notin ValueFlags(p)
           /\ (Clustered(p, t) \/ \E x : t = Short(<<x>>)) => ~GluedTo(t, p.depthFlags)
<1>1. /\ \A f \in p.values \cup p.rootFlags : \E x \in Letter \ p.clusterLetters : f = Short(<<x>>)
      /\ \A f \in p.depthFlags \cup p.execFlags : \E x : x \notin Letter /\ f = Short(<<x>>)
      /\ \A f \in p.deviceFlags :
             \E x : (x \in Letter => x \in p.clusterLetters) /\ f = Short(<<x>>)
      /\ p.depthFlags \cap (p.execFlags \cup p.deviceFlags) = {}
      /\ p.execFlags \cap p.deviceFlags = {}
      /\ p.clusterLetters \subseteq Letter
      /\ p.values = {Short(<<"D">>), Short(<<"S">>)}
  BY DEF FindTool
<1>2. ValueFlags(p) = p.values \cup p.rootFlags \cup p.depthFlags
  BY FindFlags
<1>3. \A x, y : Short(<<x>>) = Short(<<y>>) => x = y
  <2> SUFFICES ASSUME NEW x, NEW y, Short(<<x>>) = Short(<<y>>) PROVE x = y
    OBVIOUS
  <2>1. Short(<<x>>).text[1] = x /\ Short(<<y>>).text[1] = y
    BY OneLetter
  <2>2. QED
    BY <2>1
<1>4. \A x : Clustered(p, Short(<<x>>)) <=> x \in p.clusterLetters
  <2> SUFFICES ASSUME NEW x
               PROVE  Clustered(p, Short(<<x>>)) <=> x \in p.clusterLetters
    OBVIOUS
  <2> DEFINE f == Short(<<x>>)
  <2>1. f.kind = "short" /\ ToSet(f.text) = {x}
    BY OneLetter
  <2> HIDE DEF f
  <2>2. Clustered(p, f) <=> x \in p.clusterLetters
    BY <2>1 DEF Clustered
  <2>3. QED
    BY <2>2 DEF f
<1>5. ASSUME t \in p.rootFlags \cup p.values
      PROVE  /\ \E x \in Letter : t = Short(<<x>>)
             /\ t \in ValueFlags(p) /\ ~Clustered(p, t)
             /\ t \notin p.depthFlags \cup p.execFlags \cup p.deviceFlags
  <2>1. PICK x \in Letter \ p.clusterLetters : t = Short(<<x>>)
    BY <1>1, <1>5
  <2>2. ~Clustered(p, t)
    BY <1>4, <2>1
  <2>3. ASSUME t \in p.depthFlags \cup p.execFlags PROVE FALSE
    <3>1. PICK y : y \notin Letter /\ t = Short(<<y>>)
      BY <1>1, <2>3
    <3>2. QED
      BY <1>3, <2>1, <3>1
  <2>4. ASSUME t \in p.deviceFlags PROVE FALSE
    <3>1. PICK y : (y \in Letter => y \in p.clusterLetters) /\ t = Short(<<y>>)
      BY <1>1, <2>4
    <3>2. QED
      BY <1>3, <2>1, <3>1
  <2>5. QED
    BY <1>2, <1>5, <2>1, <2>2, <2>3, <2>4
<1>6. t \in p.depthFlags \cup p.execFlags => ~Clustered(p, t) /\ \E x : x \notin Letter /\ t = Short(<<x>>)
  <2> SUFFICES ASSUME t \in p.depthFlags \cup p.execFlags
               PROVE  ~Clustered(p, t) /\ \E x : x \notin Letter /\ t = Short(<<x>>)
    OBVIOUS
  <2>1. PICK y : y \notin Letter /\ t = Short(<<y>>)
    BY <1>1
  <2>2. QED
    BY <1>1, <1>4, <2>1
<1>7. t \in p.deviceFlags => \E x : t = Short(<<x>>) /\ (x \in Letter => Clustered(p, t))
  <2> SUFFICES ASSUME t \in p.deviceFlags
               PROVE  \E x : t = Short(<<x>>) /\ (x \in Letter => Clustered(p, t))
    OBVIOUS
  <2>1. PICK y : (y \in Letter => y \in p.clusterLetters) /\ t = Short(<<y>>)
    BY <1>1
  <2>2. QED
    BY <1>4, <2>1
<1>8. FindLeading(p, t) = IF t \in p.rootFlags \cup p.values THEN 2
                          ELSE IF Clustered(p, t) THEN 1 ELSE 0
  BY <1>1 DEF FindLeading, Clustered
<1>9. ASSUME Clustered(p, t) \/ \E x : t = Short(<<x>>), GluedTo(t, p.depthFlags) PROVE FALSE
  <2>1. t.kind = "short" /\ Len(t.text) > 1 /\ Short(<<t.text[1]>>) \in p.depthFlags
    BY <1>9 DEF GluedTo
  <2>2. CASE \E x : t = Short(<<x>>)
    <3>1. PICK x : t = Short(<<x>>)
      BY <2>2
    <3>2. t.text = <<x>> /\ Len(<<x>>) = 1
      BY <3>1, OneLetter
    <3>3. QED
      BY <2>1, <3>2
  <2>3. CASE Clustered(p, t)
    <3>1. t.text \in Seq(Atom) /\ ToSet(t.text) \subseteq p.clusterLetters
      BY <2>1, <2>3, WordKinds DEF Clustered
    <3>2. t.text[1] \in p.clusterLetters
      BY <2>1, <3>1 DEF ToSet
    <3>3. PICK y : y \notin Letter /\ Short(<<t.text[1]>>) = Short(<<y>>)
      BY <1>1, <2>1
    <3>4. t.text[1] = y
      BY <1>3, <3>3
    <3>5. QED
      BY <1>1, <3>2, <3>3, <3>4
  <2>4. QED
    BY <1>9, <2>2, <2>3
<1>10. Clustered(p, t) => t \notin p.depthFlags \cup p.execFlags \cup ValueFlags(p)
  BY <1>2, <1>5, <1>6
<1>11. t \in p.execFlags => t \notin p.deviceFlags \cup ValueFlags(p)
  BY <1>1, <1>2, <1>5
<1>12. t \in p.deviceFlags => t \notin ValueFlags(p)
  BY <1>1, <1>2, <1>5
<1>13. t \in p.depthFlags \cup p.execFlags \cup p.deviceFlags =>
           \E x : t = Short(<<x>>) /\ (x \in Letter => Clustered(p, t))
  BY <1>6, <1>7
<1>14. QED
  BY <1>5, <1>8, <1>9, <1>10, <1>11, <1>12, <1>13

\* What a part of the expression leaves as it was.
InExpression(s) == [s EXCEPT !.phase = "expression"]
Expressed(r, s) ==
    /\ s \in Reading /\ s.phase = "expression" /\ s.roots = r.roots
    /\ s.operands = r.operands /\ s.base = r.base /\ (s.runs => r.runs)
Unbound(r, s) == s.depth = r.depth /\ s.device = r.device

LEMMA IntoExpression ==
    ASSUME NEW r \in Reading, NEW s \in Reading, s.roots = r.roots, s.operands = r.operands,
           s.base = r.base, s.runs => r.runs
    PROVE  /\ Expressed(r, InExpression(s)) /\ Unbound(s, InExpression(s))
           /\ InExpression(s).runs = s.runs
<1> DEFINE z == InExpression(s)
<1>1. z \in Reading /\ z.phase = "expression" /\ z.roots = s.roots /\ z.operands = s.operands
      /\ z.base = s.base /\ z.runs = s.runs /\ z.depth = s.depth /\ z.device = s.device
  BY DEF InExpression, Reading
<1> HIDE DEF z
<1>2. QED
  BY <1>1 DEF Expressed, Unbound, z

LEMMA ExpressionSteps ==
    ASSUME NEW p, FindTool(p), NEW argv, IsCommand(argv), NEW i \in 1..Len(argv),
           NEW r \in Reading
    PROVE  LET t == argv[i]
               d == ExpressionAt(p, argv, i, r)
               told == TellDepth(p, r, ValueOf(argv[i + 1]))
           IN  \/ Stops(argv, d)
               \/ /\ Expressed(r, d[2])
                  /\ \/ t \in p.execFlags /\ d[1] = SkipExecBody(p, argv, i) /\ Unbound(r, d[2])
                     \/ /\ t \in p.depthFlags /\ i < Len(argv) /\ d[1] = i + 2
                        /\ d[2].depth = told.depth /\ d[2].device = r.device
                        /\ (d[2].runs => told.runs)
                     \/ /\ t \in p.deviceFlags /\ d[1] = i + 1
                        /\ d[2].device = TRUE /\ d[2].depth = r.depth
                     \/ t = Word(<<"!">>) /\ d[1] = i + 1 /\ Unbound(r, d[2])
<1> DEFINE t == argv[i]
           n == Len(argv)
           d == ExpressionAt(p, argv, i, r)
           v == ValueOf(argv[i + 1])
           told == TellDepth(p, r, v)
           past == SkipExecBody(p, argv, i)
           ended == argv[past - 1] \in {Semicolon, Word(<<"+">>)}
           s == Tell(p, r, t, v)
           w == Switch(p, r, {t})
           Then(m, x) == Goes(argv, m, InExpression(x))
           bang == Word(<<"!">>)
<1>1. n \in Nat /\ i \in 1..n /\ IsWord(t)
  BY DEF IsCommand
<1>2. d = IF t \in p.execFlags /\ ended THEN Then(past, r)
          ELSE IF t \in p.depthFlags /\ i < n THEN Then(i + 2, s)
          ELSE IF t \in p.deviceFlags \cup {bang} THEN Then(i + 1, w)
          ELSE Fails(argv, r)
  BY DEF ExpressionAt, InExpression
<1>3. Stops(argv, Fails(argv, r))
  BY FailsHere
<1>4. ASSUME NEW m, NEW x \in Reading
      PROVE  Then(m, x) = <<m, InExpression(x)>> \/ Stops(argv, Then(m, x))
  <2>1. InExpression(x) \in Reading
    BY DEF InExpression, Reading
  <2>2. QED
    BY <1>1, <2>1, GoesOn
<1> HIDE DEF d, Then, ended
<1>5. CASE t \in p.execFlags /\ ended
  <2>1. SUFFICES ASSUME d = <<past, InExpression(r)>>
                 PROVE  Expressed(r, d[2]) /\ Unbound(r, d[2]) /\ d[1] = past
    BY <1>2, <1>4, <1>5 DEF d
  <2>2. QED
    BY <2>1, IntoExpression
<1>6. CASE t \in p.depthFlags /\ i < n /\ ~(t \in p.execFlags /\ ended)
  <2>1. i + 1 \in 1..n
    BY <1>1, <1>6
  <2>2. v \in Text
    BY <2>1, WordKinds DEF IsCommand
  <2>3. t \notin p.rootFlags /\ t \notin p.cwdFlags
    <3>1. t \notin p.rootFlags
      BY <1>1, <1>6, FindKinds
    <3>2. QED
      BY <3>1 DEF FindTool
  <2>4. /\ s \in Reading /\ s.roots = r.roots /\ s.operands = r.operands /\ s.base = r.base
        /\ s.runs => r.runs
        /\ s.depth = told.depth /\ s.device = r.device /\ (s.runs => told.runs)
    <3> HIDE DEF t, v
    <3>1. LET z == Tell(p, r, t, v)
          IN  /\ z \in Reading
              /\ z.roots = IF t \in p.rootFlags THEN Append(r.roots, v) ELSE r.roots
              /\ z.base = IF t \in p.cwdFlags THEN v ELSE r.base
              /\ z.operands = r.operands /\ z.device = r.device
              /\ z.runs => r.runs
              /\ t \in p.depthFlags =>
                     LET e == TellDepth(p, r, v)
                     IN  z.depth = e.depth /\ (z.runs => e.runs)
      BY <2>2, Told
    <3>2. QED
      BY <1>6, <2>3, <3>1
  <2> HIDE DEF s
  <2>5. SUFFICES ASSUME d = <<i + 2, InExpression(s)>>
                 PROVE  /\ Expressed(r, d[2]) /\ d[1] = i + 2
                        /\ d[2].depth = told.depth /\ d[2].device = r.device
                        /\ (d[2].runs => told.runs)
    BY <1>2, <1>4, <1>6, <2>4 DEF d
  <2>6. /\ Expressed(r, InExpression(s)) /\ Unbound(s, InExpression(s))
        /\ InExpression(s).runs = s.runs
    BY <2>4, IntoExpression
  <2> HIDE DEF told, v
  <2>7. QED
    BY <2>4, <2>5, <2>6 DEF Unbound
<1>7. CASE /\ t \in p.deviceFlags \cup {bang} /\ ~(t \in p.execFlags /\ ended)
           /\ ~(t \in p.depthFlags /\ i < n)
  <2>1. /\ w \in Reading /\ Kept(r, w)
        /\ w.depth = r.depth /\ w.runs = r.runs
        /\ w.device <=> \/ {t} \cap p.deviceFlags # {}
                        \/ {t} \cap p.deviceOff = {} /\ r.device
    <3>1. w \in Reading /\ Kept(r, w) /\ w.depth = r.depth /\ w.runs = r.runs
      BY SwitchKeeps
    <3>2. w.device <=> \/ {t} \cap p.deviceFlags # {}
                       \/ {t} \cap p.deviceOff = {} /\ r.device
      BY SwitchSets
    <3>3. QED
      BY <3>1, <3>2
  <2>2. p.deviceOff = {} /\ (t = bang => t \notin p.deviceFlags)
    <3>1. t = bang => t.kind # "short"
      BY Kinds
    <3>2. QED
      BY <1>1, <3>1, FindCluster DEF FindTool
  <2>3. w.device \in BOOLEAN /\ r.device \in BOOLEAN
    BY <2>1 DEF Reading
  <2>4. (t \in p.deviceFlags => w.device = TRUE) /\ (t \notin p.deviceFlags => w.device = r.device)
    <3> HIDE DEF w, t
    <3> QED
      BY <2>1, <2>2, <2>3
  <2> HIDE DEF w
  <2>5. d = <<i + 1, InExpression(w)>> \/ Stops(argv, d)
    BY <1>2, <1>4, <1>7, <2>1
  <2>6. Expressed(r, InExpression(w)) /\ Unbound(w, InExpression(w))
    BY <2>1, IntoExpression DEF Kept
  <2>7. d = <<i + 1, InExpression(w)>> =>
            /\ Expressed(r, d[2]) /\ d[1] = i + 1 /\ d[2].depth = r.depth
            /\ t \in p.deviceFlags => d[2].device = TRUE
            /\ t \notin p.deviceFlags => d[2].device = r.device
    <3> HIDE DEF t
    <3> QED
      BY <2>1, <2>4, <2>6 DEF Unbound
  <2>8. t \in p.deviceFlags \/ (t = bang /\ t \notin p.deviceFlags)
    BY <1>7, <2>2
  <2> HIDE DEF t, v, told, past, bang
  <2>9. QED
    BY <2>5, <2>7, <2>8 DEF Unbound, d, t, v, told, past, bang
<1>8. CASE /\ ~(t \in p.deviceFlags \cup {bang}) /\ ~(t \in p.execFlags /\ ended)
           /\ ~(t \in p.depthFlags /\ i < n)
  BY <1>2, <1>3, <1>8 DEF d
<1>9. QED
  BY <1>5, <1>6, <1>7, <1>8

\* The steps of find, by what they take.
TakesLetters(p, argv, i, r, d) ==
    /\ r.phase = "options" /\ Clustered(p, argv[i])
    /\ d[1] = i + 1 /\ Kept(r, d[2]) /\ d[2].depth = r.depth
    /\ d[2].device <=> r.device \/ Among(argv[i].text) \cap p.deviceFlags # {}
TakesOption(p, argv, i, r, d) ==
    /\ r.phase = "options" /\ argv[i] \in p.rootFlags \cup p.values /\ i < Len(argv)
    /\ d[1] = i + 2 /\ d[2].phase = r.phase /\ d[2].operands = r.operands
    /\ d[2].base = r.base /\ Unbound(r, d[2])
    /\ d[2].roots = IF argv[i] \in p.rootFlags
                    THEN Append(r.roots, ValueOf(argv[i + 1])) ELSE r.roots
TakesOperand(p, argv, i, r, d) ==
    /\ r.phase # "expression" /\ argv[i].kind = "word" /\ argv[i] # Word(<<"!">>)
    /\ d[1] = i + 1 /\ d[2].phase = "operands"
    /\ d[2].operands = Append(r.operands, argv[i].text)
    /\ d[2].roots = r.roots /\ d[2].base = r.base /\ Unbound(r, d[2])
TakesDashes(p, argv, i, r, d) ==
    /\ argv[i] = DashDash /\ d[1] = i + 1 /\ d[2] = r
    /\ \/ r.phase = "options"
       \/ r.phase = "operands" /\ p.dashdash = "end_of_options"
TakesExpression(p, argv, i, r, d) ==
    LET t == argv[i]
        told == TellDepth(p, r, ValueOf(argv[i + 1]))
    IN  /\ Expressed(r, d[2])
        /\ \/ t \in p.execFlags /\ d[1] = SkipExecBody(p, argv, i) /\ Unbound(r, d[2])
           \/ /\ t \in p.depthFlags /\ i < Len(argv) /\ d[1] = i + 2
              /\ d[2].depth = told.depth /\ d[2].device = r.device
              /\ (d[2].runs => told.runs)
           \/ /\ t \in p.deviceFlags /\ d[1] = i + 1
              /\ d[2].device = TRUE /\ d[2].depth = r.depth
           \/ t = Word(<<"!">>) /\ d[1] = i + 1 /\ Unbound(r, d[2])

LEMMA FindSteps ==
    ASSUME NEW p, FindTool(p), NEW argv, IsCommand(argv), NEW i \in 1..Len(argv),
           NEW r \in Reading
    PROVE  LET d == FindAt(p, argv, i, r)
           IN  \/ Stops(argv, d)
               \/ /\ d[2] \in Reading /\ (d[2].runs => r.runs)
                  /\ \/ TakesLetters(p, argv, i, r, d) \/ TakesOption(p, argv, i, r, d)
                     \/ TakesOperand(p, argv, i, r, d) \/ TakesDashes(p, argv, i, r, d)
                     \/ TakesExpression(p, argv, i, r, d)
<1> DEFINE t == argv[i]
           n == Len(argv)
           d == FindAt(p, argv, i, r)
           v == ValueOf(argv[i + 1])
           width == FindLeading(p, t)
           operand == t.kind = "word" /\ t # Word(<<"!">>)
           e == ExpressionAt(p, argv, i, r)
           letters == Switch(p, r, {Short(<<l>>) : l \in ToSet(t.text)})
           charged == [r EXCEPT !.roots = Append(@, v)]
           taken == [r EXCEPT !.phase = "operands", !.operands = Append(@, t.text)]
           leads == r.phase = "options" /\ width > 0
           isRoot == t \in p.rootFlags
<1>1. n \in Nat /\ i \in 1..n /\ IsWord(t)
  BY DEF IsCommand
<1>2. Leads(p, argv, i, r) = IF isRoot THEN charged ELSE letters
  BY DEF Leads
<1>3. Stops(argv, Fails(argv, r))
  BY FailsHere
<1>4. width = IF t \in p.rootFlags \cup p.values THEN 2 ELSE IF Clustered(p, t) THEN 1 ELSE 0
  BY <1>1, FindKinds
<1>5. /\ letters \in Reading /\ Kept(r, letters) /\ letters.depth = r.depth
      /\ letters.runs = r.runs
      /\ letters.device <=> r.device \/ Among(t.text) \cap p.deviceFlags # {}
  <2>1. p.deviceOff = {} /\ Among(t.text) = {Short(<<l>>) : l \in ToSet(t.text)}
    BY DEF FindTool, Among
  <2> DEFINE F == Among(t.text)
             s == Switch(p, r, F)
  <2>2. letters = s
    BY <2>1
  <2> HIDE DEF F
  <2>3. /\ s \in Reading /\ Kept(r, s) /\ s.depth = r.depth /\ s.runs = r.runs
        /\ s.device <=> \/ F \cap p.deviceFlags # {}
                        \/ F \cap p.deviceOff = {} /\ r.device
    BY Switched
  <2> HIDE DEF s, letters
  <2>4. QED
    BY <2>1, <2>2, <2>3 DEF F
<1>6. t \in p.rootFlags \cup p.values =>
          letters.device = r.device
  <2>1. letters.device \in BOOLEAN /\ r.device \in BOOLEAN
    BY <1>5 DEF Reading
  <2>2. t \in p.rootFlags \cup p.values => Among(t.text) \cap p.deviceFlags = {}
    <3> SUFFICES ASSUME t \in p.rootFlags \cup p.values
                 PROVE  Among(t.text) \cap p.deviceFlags = {}
      OBVIOUS
    <3>1. t \notin p.deviceFlags /\ \E x \in Letter : t = Short(<<x>>)
      BY <1>1, FindKinds
    <3>2. PICK x : t = Short(<<x>>)
      BY <3>1
    <3>3. ToSet(t.text) = {x}
      BY <3>2, OneLetter
    <3>4. Among(t.text) = {t}
      BY <3>2, <3>3 DEF Among
    <3>5. QED
      BY <3>1, <3>4
  <2> HIDE DEF letters
  <2>3. QED
    BY <1>5, <2>1, <2>2
<1> HIDE DEF letters
<1>7. ASSUME i + 1 \in 1..n
      PROVE  /\ charged \in Reading /\ charged.roots = Append(r.roots, v)
             /\ charged.phase = r.phase /\ charged.operands = r.operands
             /\ charged.base = r.base /\ Unbound(r, charged) /\ charged.runs = r.runs
  <2>1. v \in Text
    BY <1>7, WordKinds DEF IsCommand
  <2> DEFINE roots == Append(r.roots, v)
  <2>2. roots \in Seq(Text) /\ charged = [r EXCEPT !.roots = roots]
    BY <2>1 DEF Reading
  <2> HIDE DEF roots, v
  <2>3. QED
    BY <2>2 DEF Reading, Unbound, roots
<1>8. ASSUME operand
      PROVE  /\ taken \in Reading /\ taken.phase = "operands"
             /\ taken.operands = Append(r.operands, t.text)
             /\ taken.roots = r.roots /\ taken.base = r.base /\ Unbound(r, taken)
             /\ taken.runs = r.runs
  <2>1. t.text \in Text
    BY <1>1, <1>8, WordKinds, TextFacts
  <2> DEFINE operands == Append(r.operands, t.text)
  <2>2. operands \in Seq(Text)
        /\ taken = [r EXCEPT !.phase = "operands", !.operands = operands]
    BY <2>1 DEF Reading
  <2> HIDE DEF operands, t
  <2>3. QED
    BY <2>2 DEF Reading, Unbound, operands
<1> HIDE DEF charged, taken
<1>9. CASE leads
  <2>1. CASE i + width > n + 1
    <3>1. d = Fails(argv, r)
      BY <1>9, <2>1 DEF FindAt
    <3>2. QED
      BY <1>3, <3>1
  <2>2. CASE ~(i + width > n + 1) /\ t \in p.rootFlags \cup p.values
    <3>1. width = 2 /\ i + 1 \in 1..n /\ i < n
      BY <1>1, <1>4, <2>2
    <3>2. d = <<i + 2, IF isRoot THEN charged ELSE letters>>
      <4>1. d = <<i + width, Leads(p, argv, i, r)>>
        BY <1>9, <2>2 DEF FindAt
      <4> HIDE DEF d, width, isRoot
      <4>2. QED
        BY <1>2, <3>1, <4>1
    <3>3. d[2] \in Reading /\ (d[2].runs => r.runs) /\ TakesOption(p, argv, i, r, d)
      <4> HIDE DEF d, v
      <4> QED
        BY <1>5, <1>6, <1>7, <1>9, <2>2, <3>1, <3>2 DEF TakesOption, Kept, Unbound, v
    <3>4. QED
      BY <3>3
  <2>3. CASE ~(i + width > n + 1) /\ t \notin p.rootFlags \cup p.values
    <3>1. width = 1 /\ Clustered(p, t)
      BY <1>4, <1>9, <2>3
    <3>2. d = <<i + 1, letters>>
      <4>1. d = <<i + width, Leads(p, argv, i, r)>>
        BY <1>9, <2>3 DEF FindAt
      <4> HIDE DEF d, width
      <4>2. QED
        BY <1>2, <2>3, <3>1, <4>1
    <3>3. d[2] \in Reading /\ (d[2].runs => r.runs) /\ TakesLetters(p, argv, i, r, d)
      <4> HIDE DEF d
      <4> QED
        BY <1>5, <1>9, <3>1, <3>2 DEF TakesLetters
    <3>4. QED
      BY <3>3
  <2>4. QED
    BY <2>1, <2>2, <2>3
<1>10. CASE ~leads /\ r.phase # "expression" /\ operand
  <2>1. d = <<i + 1, taken>>
    BY <1>10 DEF FindAt, taken
  <2>2. d[2] \in Reading /\ (d[2].runs => r.runs) /\ TakesOperand(p, argv, i, r, d)
    <3> HIDE DEF d
    <3> QED
      BY <1>8, <1>10, <2>1 DEF TakesOperand
  <2>3. QED
    BY <2>2
<1>11. CASE ~leads /\ ~(r.phase # "expression" /\ operand) /\ t # DashDash
  <2>1. d = e
    BY <1>11 DEF FindAt
  <2>2. Stops(argv, d) \/ TakesExpression(p, argv, i, r, d)
    <3>1. Stops(argv, e) \/ TakesExpression(p, argv, i, r, e)
      BY ExpressionSteps DEF TakesExpression
    <3> HIDE DEF d, e
    <3>2. QED
      BY <2>1, <3>1
  <2>3. TakesExpression(p, argv, i, r, d) => d[2] \in Reading /\ (d[2].runs => r.runs)
    <3> HIDE DEF d
    <3> QED
      BY DEF TakesExpression, Expressed
  <2>4. QED
    BY <2>2, <2>3
<1>12. CASE ~leads /\ t = DashDash /\ ~(r.phase # "expression" /\ operand)
  <2>1. CASE r.phase = "options" \/ (r.phase = "operands" /\ p.dashdash = "end_of_options")
    <3>1. d = <<i + 1, r>>
      BY <1>12, <2>1 DEF FindAt
    <3>2. TakesDashes(p, argv, i, r, d)
      <4> HIDE DEF d
      <4> QED
        BY <1>12, <2>1, <3>1 DEF TakesDashes
    <3>3. d[2] = r
      BY <3>1
    <3>4. QED
      BY <3>2, <3>3
  <2>2. CASE /\ r.phase # "options"
             /\ ~(r.phase = "operands" /\ p.dashdash = "end_of_options")
    <3>1. d = Fails(argv, r)
      BY <1>12, <2>2 DEF FindAt
    <3>2. QED
      BY <1>3, <3>1
  <2>3. \/ r.phase = "options"
        \/ (r.phase = "operands" /\ p.dashdash = "end_of_options")
        \/ r.phase # "options" /\ ~(r.phase = "operands" /\ p.dashdash = "end_of_options")
    OBVIOUS
  <2>4. QED
    BY <2>1, <2>2, <2>3
<1>13. QED
  BY <1>9, <1>10, <1>11, <1>12

LEMMA FindGoesOn ==
    ASSUME NEW p, FindTool(p), NEW argv, IsCommand(argv), NEW i \in 1..Len(argv),
           NEW r \in Reading
    PROVE  FindAt(p, argv, i, r) \in Places(Reading) /\ FindAt(p, argv, i, r)[1] > i
<1> DEFINE d == FindAt(p, argv, i, r)
           n == Len(argv)
           past == SkipExecBody(p, argv, i)
<1>1. n \in Nat /\ i \in 1..n
  BY DEF IsCommand
<1>2. past \in Nat \ {0} /\ past > i
  BY <1>1, ExecBody
<1>3. \E m, s : d = <<m, s>>
  <2>1. \A m, s : Goes(argv, m, s) = <<IF s.runs THEN m ELSE n + 1, s>>
    BY DEF Goes
  <2>2. \E m, s : Fails(argv, r) = <<m, s>>
    BY <2>1 DEF Fails
  <2>3. \E m, s : ExpressionAt(p, argv, i, r) = <<m, s>>
    BY <2>1, <2>2 DEF ExpressionAt
  <2> HIDE DEF n
  <2>4. QED
    BY <2>2, <2>3 DEF FindAt
<1>4. Stops(argv, d) => d[1] = n + 1 /\ d[2] \in Reading
  <2> HIDE DEF d
  <2> QED
    BY DEF Stops, NotRun
<1>5. d[1] \in {n + 1, i + 1, i + 2, past} /\ d[2] \in Reading
  <2>1. \/ Stops(argv, d)
        \/ /\ d[2] \in Reading
           /\ \/ TakesLetters(p, argv, i, r, d) \/ TakesOption(p, argv, i, r, d)
              \/ TakesOperand(p, argv, i, r, d) \/ TakesDashes(p, argv, i, r, d)
              \/ TakesExpression(p, argv, i, r, d)
    BY FindSteps
  <2> HIDE DEF d
  <2>2. TakesLetters(p, argv, i, r, d) => d[1] = i + 1
    BY DEF TakesLetters
  <2>3. TakesOption(p, argv, i, r, d) => d[1] = i + 2
    BY DEF TakesOption
  <2>4. TakesOperand(p, argv, i, r, d) => d[1] = i + 1
    BY DEF TakesOperand
  <2>5. TakesDashes(p, argv, i, r, d) => d[1] = i + 1
    BY DEF TakesDashes
  <2>6. TakesExpression(p, argv, i, r, d) => d[1] \in {i + 1, i + 2, past}
    BY DEF TakesExpression
  <2> HIDE DEF n, past
  <2>7. QED
    BY <1>4, <2>1, <2>2, <2>3, <2>4, <2>5, <2>6
<1> HIDE DEF d, n, past
<1>6. d[1] \in Nat \ {0} /\ d[1] > i
  BY <1>1, <1>2, <1>5
<1>7. QED
  BY <1>3, <1>5, <1>6 DEF Places, d

\* Two scans that go from every token to the same place, as long as the first
\* has not ended before the second.
LEMMA EndsFirst ==
    ASSUME NEW n \in Nat, NEW A, NEW B, NEW s, NEW t, NEW R \in SUBSET (A \X B),
           NEW E \in SUBSET (A \X B), NEW Bad,
           Advances(n, A, s), Advances(n, B, t),
           \A i \in 1..n : \A x \in R :
               LET c == s[<<i, x[1]>>]
                   d == t[<<i, x[2]>>]
               IN  \/ d[1] > n /\ d[2] \in Bad
                   \/ c[1] = d[1] /\ <<c[2], d[2]>> \in R
                   \/ c[1] > n /\ <<c[2], d[2]>> \in E,
           \A i \in 1..n : \A x \in E :
               LET d == t[<<i, x[2]>>]
               IN  \/ d[1] > n /\ d[2] \in Bad
                   \/ <<x[1], d[2]>> \in E,
           NEW a, NEW b, <<a, b>> \in R
    PROVE  Scan(n, B, t, b) \in Bad \/ <<Scan(n, A, s, a), Scan(n, B, t, b)>> \in R \cup E
<1> DEFINE Sim == {x \in Places(A) \X Places(B) :
                      \/ x[1][1] = x[2][1] /\ <<x[1][2], x[2][2]>> \in R
                      \/ x[1][1] > n /\ <<x[1][2], x[2][2]>> \in E}
<1>1. <<<<1, a>>, <<1, b>>>> \in Sim
  BY DEF Places
<1>2. ASSUME NEW x \in Sim, x[2][1] <= n
      PROVE  \/ t[x[2]][1] > n /\ t[x[2]][2] \in Bad
             \/ <<Along(n, s, x[1]), t[x[2]]>> \in Sim
  <2> DEFINE i == x[2][1]
             y == <<x[1][2], x[2][2]>>
             c == s[<<i, y[1]>>]
             d == t[<<i, y[2]>>]
  <2>1. /\ x[2] = <<i, y[2]>> /\ i \in 1..n /\ y[1] \in A /\ y[2] \in B
        /\ x[1] = <<x[1][1], y[1]>> /\ x[1] \in Places(A) /\ x[1][1] \in Nat
    BY <1>2 DEF Places
  <2>2. c \in Places(A) /\ d \in Places(B)
    <3> HIDE DEF y, i
    <3> QED
      BY <2>1 DEF Advances
  <2>3. t[x[2]] = d
    <3> HIDE DEF y
    <3> QED
      BY <2>1
  <2>4. CASE x[1][1] = i /\ y \in R
    <3>1. \/ d[1] > n /\ d[2] \in Bad
          \/ c[1] = d[1] /\ <<c[2], d[2]>> \in R
          \/ c[1] > n /\ <<c[2], d[2]>> \in E
      <4> HIDE DEF y, i
      <4> QED
        BY <2>1, <2>4
    <3>2. Along(n, s, x[1]) = c
      <4> HIDE DEF y
      <4> QED
        BY <2>1, <2>4 DEF Along
    <3> HIDE DEF c, d
    <3>3. QED
      BY <2>2, <2>3, <3>1, <3>2
  <2>5. CASE x[1][1] > n /\ y \in E
    <3>1. \/ d[1] > n /\ d[2] \in Bad
          \/ <<y[1], d[2]>> \in E
      <4> HIDE DEF y, i
      <4> QED
        BY <2>1, <2>5
    <3>2. Along(n, s, x[1]) = x[1] /\ x[1][2] = y[1]
      BY <2>5 DEF Along
    <3> HIDE DEF d, y
    <3>3. QED
      BY <2>1, <2>2, <2>3, <2>5, <3>1, <3>2
  <2>6. QED
    BY <1>2, <2>4, <2>5
<1>3. Together(n, A, B, s, t, Sim, Bad)
  <2>1. \A x \in Sim : x[2][1] > n => x[1][1] > n
    OBVIOUS
  <2>2. Sim \subseteq Places(A) \X Places(B)
    OBVIOUS
  <2> HIDE DEF Sim
  <2>3. QED
    BY <1>2, <2>1, <2>2 DEF Together
<1>4. \/ Scan(n, B, t, b) \in Bad
      \/ \E i, j \in Nat : /\ i > n /\ j > n
             /\ <<<<i, Scan(n, A, s, a)>>, <<j, Scan(n, B, t, b)>>>> \in Sim
  <2> HIDE DEF Sim
  <2> QED
    BY <1>1, <1>3, ScansMeet
<1>5. QED
  BY <1>4

LEMMA FindReads ==
    ASSUME NEW p, FindTool(p), NEW argv, IsCommand(argv)
    PROVE  /\ Read(p, argv) = Scan(Len(argv), Reading, Passes(p, argv), Nothing(p))
           /\ Advances(Len(argv), Reading, Passes(p, argv))
           /\ \A i \in 1..Len(argv) : \A r \in Reading :
                  Passes(p, argv)[<<i, r>>] = FindAt(p, argv, i, r)
<1>1. p.rootMode = "leading"
  BY DEF FindTool
<1>2. Read(p, argv) = Scan(Len(argv), Reading, Passes(p, argv), Nothing(p))
  BY DEF Read, Passes
<1>3. \A i \in 1..Len(argv) : \A r \in Reading :
          Passes(p, argv)[<<i, r>>] = FindAt(p, argv, i, r)
  BY <1>1 DEF Passes
<1>4. \A c \in (1..Len(argv)) \X Reading :
          /\ Passes(p, argv)[c] = FindAt(p, argv, c[1], c[2])
          /\ FindAt(p, argv, c[1], c[2]) \in Places(Reading)
          /\ FindAt(p, argv, c[1], c[2])[1] > c[1]
  BY <1>1, FindGoesOn DEF Passes
<1>5. Passes(p, argv) = [c \in (1..Len(argv)) \X Reading |-> Passes(p, argv)[c]]
  BY DEF Passes
<1>6. Passes(p, argv) \in [(1..Len(argv)) \X Reading -> Places(Reading)]
  BY <1>4, <1>5
<1>7. Advances(Len(argv), Reading, Passes(p, argv))
  BY <1>4, <1>6 DEF Advances
<1>8. QED
  BY <1>2, <1>3, <1>7

LEMMA FindReadsAlong ==
    ASSUME NEW p, FindTool(p), NEW argv, IsCommand(argv), NEW A, NEW s,
           Advances(Len(argv), A, s), NEW R \in SUBSET (A \X Reading),
           NEW E \in SUBSET (A \X Reading),
           \A i \in 1..Len(argv) : \A x \in R :
               LET c == s[<<i, x[1]>>]
                   d == FindAt(p, argv, i, x[2])
               IN  \/ Stops(argv, d)
                   \/ c[1] = d[1] /\ <<c[2], d[2]>> \in R
                   \/ c[1] > Len(argv) /\ <<c[2], d[2]>> \in E,
           \A i \in 1..Len(argv) : \A x \in E :
               LET d == FindAt(p, argv, i, x[2])
               IN  Stops(argv, d) \/ <<x[1], d[2]>> \in E,
           NEW a, <<a, Nothing(p)>> \in R
    PROVE  Read(p, argv).runs => <<Scan(Len(argv), A, s, a), Read(p, argv)>> \in R \cup E
<1> DEFINE n == Len(argv)
           reads == Passes(p, argv)
           b == Nothing(p)
           bad == NotRun
<1>1. n \in Nat
  BY DEF IsCommand
<1>2. Read(p, argv) = Scan(n, Reading, reads, b) /\ Advances(n, Reading, reads)
      /\ \A i \in 1..n : \A r \in Reading : reads[<<i, r>>] = FindAt(p, argv, i, r)
  BY FindReads
<1>3. ASSUME NEW i \in 1..n, NEW r \in Reading
      PROVE  Stops(argv, FindAt(p, argv, i, r)) =>
                 reads[<<i, r>>][1] > n /\ reads[<<i, r>>][2] \in bad
  <2> DEFINE d == FindAt(p, argv, i, r)
  <2>1. Stops(argv, d) => d[1] > n /\ d[2] \in bad
    <3> HIDE DEF d
    <3> QED
      BY <1>1 DEF Stops
  <2>2. reads[<<i, r>>] = d
    BY <1>2
  <2> HIDE DEF reads, d, bad
  <2>3. QED
    BY <2>1, <2>2 DEF d
<1>4. \A i \in 1..n : \A x \in R :
          LET c == s[<<i, x[1]>>]
              d == reads[<<i, x[2]>>]
          IN  \/ d[1] > n /\ d[2] \in bad
              \/ c[1] = d[1] /\ <<c[2], d[2]>> \in R
              \/ c[1] > n /\ <<c[2], d[2]>> \in E
  <2> SUFFICES ASSUME NEW i \in 1..n, NEW x \in R
               PROVE  LET c == s[<<i, x[1]>>]
                          d == reads[<<i, x[2]>>]
                      IN  \/ d[1] > n /\ d[2] \in bad
                          \/ c[1] = d[1] /\ <<c[2], d[2]>> \in R
                          \/ c[1] > n /\ <<c[2], d[2]>> \in E
    OBVIOUS
  <2> DEFINE d == FindAt(p, argv, i, x[2])
             c == s[<<i, x[1]>>]
  <2>1. x[2] \in Reading /\ reads[<<i, x[2]>>] = d
    BY <1>2
  <2>2. \/ Stops(argv, d) \/ (c[1] = d[1] /\ <<c[2], d[2]>> \in R)
        \/ (c[1] > n /\ <<c[2], d[2]>> \in E)
    OBVIOUS
  <2>3. Stops(argv, d) => d[1] > n /\ d[2] \in bad
    BY <1>3, <2>1
  <2> HIDE DEF d, reads, bad, c
  <2>4. QED
    BY <2>1, <2>2, <2>3 DEF c
<1>5. \A i \in 1..n : \A x \in E :
          LET d == reads[<<i, x[2]>>]
          IN  \/ d[1] > n /\ d[2] \in bad
              \/ <<x[1], d[2]>> \in E
  <2> SUFFICES ASSUME NEW i \in 1..n, NEW x \in E
               PROVE  LET d == reads[<<i, x[2]>>]
                      IN  \/ d[1] > n /\ d[2] \in bad
                          \/ <<x[1], d[2]>> \in E
    OBVIOUS
  <2> DEFINE d == FindAt(p, argv, i, x[2])
  <2>1. x[2] \in Reading /\ reads[<<i, x[2]>>] = d
    BY <1>2
  <2>2. Stops(argv, d) \/ <<x[1], d[2]>> \in E
    OBVIOUS
  <2>3. Stops(argv, d) => d[1] > n /\ d[2] \in bad
    BY <1>3, <2>1
  <2> HIDE DEF d, reads, bad
  <2>4. QED
    BY <2>1, <2>2, <2>3
<1> HIDE DEF n, reads, b, bad
<1>6. Scan(n, Reading, reads, b) \in bad
      \/ <<Scan(n, A, s, a), Scan(n, Reading, reads, b)>> \in R \cup E
  BY <1>1, <1>2, <1>4, <1>5, EndsFirst DEF b, n
<1>7. QED
  BY <1>2, <1>6 DEF bad, NotRun, n

\* find has no letters that are depths.
LEMMA FindClusterBounds ==
    ASSUME NEW p, FindTool(p), NEW argv, NEW i, NEW b \in Bounds
    PROVE  LET c == Cluster(p, argv[i])
           IN  /\ ClusterBounds(p, argv, i, b) \in Bounds
               /\ c.flag \notin p.depthFlags =>
                      ClusterBounds(p, argv, i, b) = WithDevice(p, b, c.letters)
<1> DEFINE c == Cluster(p, argv[i])
           e == WithDevice(p, b, c.letters)
           v == IF c.next THEN NextValue(argv, i) ELSE c.glued
<1>1. e \in Bounds
  BY DeviceWith
<1>2. DepthTexts(p, c.letters) = << >>
  BY DEF DepthTexts, FindTool
<1>3. ClusterBounds(p, argv, i, b) =
          IF c.flag \in p.depthFlags
          THEN ApplyText(p, ApplyTexts(p, e, DepthTexts(p, c.letters)), v)
          ELSE ApplyTexts(p, e, DepthTexts(p, c.letters))
  BY DEF ClusterBounds, WithDevice, DepthTexts
<1>4. ApplyTexts(p, e, << >>) = e
  BY <1>1, NoTexts
<1> HIDE DEF c, e, v
<1>5. ClusterBounds(p, argv, i, b) = IF c.flag \in p.depthFlags THEN ApplyText(p, e, v) ELSE e
  BY <1>2, <1>3, <1>4
<1>6. QED
  BY <1>1, <1>5, TextApplied DEF c, e

LEMMA FindBoundsAt ==
    ASSUME NEW p, FindTool(p), NEW argv, IsCommand(argv), NEW i \in 1..Len(argv),
           NEW b \in Bounds
    PROVE  LET t == argv[i]
               c == BoundsAt(p, argv, i, b)
           IN  /\ c \in Places(Bounds) /\ c[1] > i
               /\ t \in p.execFlags => c = <<SkipExecBody(p, argv, i), b>>
               /\ t \in p.depthFlags /\ i < Len(argv) =>
                      c = <<i + 2, ApplyText(p, b, ValueOf(argv[i + 1]))>>
               /\ t \in p.deviceFlags => c = <<i + 1, [b EXCEPT !.device = TRUE]>>
               /\ Clustered(p, t) /\ t \notin p.deviceFlags =>
                      c = <<i + 1, WithDevice(p, b, t.text)>>
               /\ t \in p.rootFlags \cup p.values => c = <<i + 2, b>>
               /\ t.kind \in {"word", "dashdash"} => c = <<i + 1, b>>
<1> DEFINE n == Len(argv)
           t == argv[i]
           c == BoundsAt(p, argv, i, b)
           rest == SubSeq(t.text, 2, Len(t.text))
           glued == GluedTo(t, p.depthFlags) /\ IsDepth(rest)
           past == SkipExecBody(p, argv, i)
           on == [b EXCEPT !.device = TRUE]
           by == ClusterBounds(p, argv, i, b)
           cluster == Cluster(p, t)
           j == BoundsStep(p, argv, i)
<1>1. n \in Nat /\ i \in 1..n /\ IsWord(t)
  BY DEF IsCommand
<1>2. past \in Nat \ {0} /\ past > i
  BY <1>1, ExecBody
<1>3. by \in Bounds
  BY FindClusterBounds
<1>4. j \in {i + 1, i + 2}
  BY DEF BoundsStep, Width
<1>5. on \in Bounds
  BY DEF Bounds
<1>6. \A text : ApplyText(p, b, text) \in Bounds
  BY TextApplied
<1>7. ~DeviceOff(p, t) /\ (DeviceOn(p, t) <=> t \in p.deviceFlags)
      /\ ~AttachedTo(t, p.depthFlags)
  <2>1. /\ \A F : Resolve(p, t, F) = None
        /\ \A F \in SUBSET (ValueFlags(p) \cup p.deviceFlags) : ~AttachedTo(t, F)
    BY <1>1, FindCluster
  <2>2. p.deviceOff = {}
    BY DEF FindTool
  <2>3. p.depthFlags \in SUBSET (ValueFlags(p) \cup p.deviceFlags)
    BY FindFlags
  <2> HIDE DEF t
  <2>4. QED
    BY <2>1, <2>2, <2>3 DEF DeviceOff, DeviceOn
<1>8. c = IF t \in p.execFlags THEN <<past, b>>
          ELSE IF t \in p.depthFlags
          THEN <<i + (IF i < n THEN 2 ELSE 1), ApplyText(p, b, NextValue(argv, i))>>
          ELSE IF glued THEN <<i + 1, ApplyText(p, b, rest)>>
          ELSE IF t \in p.deviceFlags THEN <<i + 1, on>>
          ELSE <<j, by>>
  <2>1. p.rootMode = "leading"
    BY DEF FindTool
  <2>2. QED
    BY <1>7, <2>1 DEF BoundsAt
<1>9. j = IF cluster.flag # None THEN i + (IF cluster.next THEN 2 ELSE 1)
          ELSE i + (IF t \in ValueFlags(p) THEN 2 ELSE 1)
  <2>1. Resolve(p, t, ValueFlags(p)) = None
    BY <1>1, FindCluster
  <2>2. QED
    BY <2>1 DEF BoundsStep
<1>10. None \notin p.depthFlags
  <2>1. \A f \in p.depthFlags : \E x : f = Short(<<x>>)
    BY FindFlags
  <2>2. \A f \in p.depthFlags : f.kind = "short"
    BY <2>1, OneLetter
  <2>3. QED
    BY <2>2, Kinds
<1>11. \A letters : (\A k \in DOMAIN letters : Short(<<letters[k]>>) \notin p.deviceFlags)
                       => WithDevice(p, b, letters) = b
  BY DeviceWith
<1>12. cluster.flag \notin p.depthFlags => by = WithDevice(p, b, cluster.letters)
  BY FindClusterBounds
<1>13. cluster = NoCluster /\ t \notin ValueFlags(p) => j = i + 1 /\ by = b
  <2>1. NoCluster.flag = None /\ NoCluster.letters = << >> /\ DOMAIN << >> = {}
    BY DEF NoCluster
  <2> HIDE DEF cluster, j, by, t
  <2>2. QED
    BY <1>9, <1>10, <1>11, <1>12, <2>1
<1> HIDE DEF c, t, rest, glued, past, on, by, j, n, cluster
<1>14. c \in Places(Bounds) /\ c[1] > i
  <2>1. \E m \in {past, i + 1, i + 2} : \E a \in Bounds : c = <<m, a>>
    BY <1>1, <1>3, <1>4, <1>5, <1>6, <1>8
  <2>2. PICK m \in {past, i + 1, i + 2}, a \in Bounds : c = <<m, a>>
    BY <2>1
  <2>3. m \in Nat \ {0} /\ m > i
    BY <1>1, <1>2
  <2>4. QED
    BY <2>2, <2>3 DEF Places
<1>15. t \in p.execFlags => c = <<past, b>>
  BY <1>8
<1>16. t \in p.depthFlags /\ i < n => c = <<i + 2, ApplyText(p, b, ValueOf(argv[i + 1]))>>
  <2>1. t \in p.depthFlags => t \notin p.execFlags
    BY <1>1, FindFlags, FindKinds DEF FindTool
  <2>2. i < n => NextValue(argv, i) = ValueOf(argv[i + 1])
    BY DEF NextValue, n
  <2>3. QED
    BY <1>8, <2>1, <2>2
<1>17. t \in p.deviceFlags => c = <<i + 1, on>>
  <2>1. t \in p.deviceFlags => t \notin p.execFlags /\ t \notin p.depthFlags
    BY DEF FindTool
  <2>2. t \in p.deviceFlags => ~GluedTo(t, p.depthFlags)
    BY <1>1, FindKinds
  <2>3. QED
    BY <1>8, <2>1, <2>2 DEF glued
<1>18. Clustered(p, t) /\ t \notin p.deviceFlags => c = <<i + 1, WithDevice(p, b, t.text)>>
  <2> SUFFICES ASSUME Clustered(p, t), t \notin p.deviceFlags
               PROVE  c = <<i + 1, WithDevice(p, b, t.text)>>
    OBVIOUS
  <2>1. t \notin p.execFlags /\ t \notin p.depthFlags /\ t \notin ValueFlags(p)
        /\ ~GluedTo(t, p.depthFlags)
    BY <1>1, FindKinds
  <2>2. cluster.flag = None /\ cluster.letters = t.text
    <3>1. cluster = [NoCluster EXCEPT !.letters = t.text]
      BY <1>1, FindCluster DEF cluster
    <3>2. QED
      BY <3>1 DEF NoCluster
  <2>3. c = <<j, by>>
    BY <1>8, <2>1 DEF glued
  <2>4. QED
    BY <1>9, <1>10, <1>12, <2>1, <2>2, <2>3
<1>19. t \in p.rootFlags \cup p.values => c = <<i + 2, b>>
  <2> SUFFICES ASSUME t \in p.rootFlags \cup p.values PROVE c = <<i + 2, b>>
    OBVIOUS
  <2>1. t \notin p.execFlags /\ t \notin p.depthFlags /\ t \notin p.deviceFlags
        /\ t \in ValueFlags(p)
    BY <1>1, FindKinds
  <2>2. PICK x \in Letter : t = Short(<<x>>)
    BY <1>1, FindKinds
  <2>3. ~GluedTo(t, p.depthFlags)
    BY <1>1, <2>2, FindKinds
  <2>4. cluster.letters = <<x>> /\ cluster.flag = t /\ cluster.next
    BY <1>1, <2>1, <2>2, FindCluster DEF cluster
  <2>5. c = <<j, by>>
    BY <1>8, <2>1, <2>3 DEF glued
  <2>6. t # None
    BY <2>2, Kinds
  <2>7. \A k \in DOMAIN <<x>> : Short(<<(<<x>>)[k]>>) \notin p.deviceFlags
    BY <2>1, <2>2
  <2>8. by = b
    BY <1>11, <1>12, <2>1, <2>4, <2>7
  <2>9. QED
    BY <1>9, <2>4, <2>5, <2>6, <2>8
<1>20. t.kind \in {"word", "dashdash"} => c = <<i + 1, b>>
  <2> SUFFICES ASSUME t.kind \in {"word", "dashdash"} PROVE c = <<i + 1, b>>
    OBVIOUS
  <2>1. cluster = NoCluster /\ t \notin ValueFlags(p) \cup p.deviceFlags \cup p.execFlags
    BY <1>1, FindCluster DEF cluster
  <2>2. ~GluedTo(t, p.depthFlags) /\ t \notin p.depthFlags
    BY <2>1, FindFlags DEF GluedTo
  <2>3. c = <<j, by>>
    BY <1>8, <2>1, <2>2 DEF glued
  <2>4. QED
    BY <1>13, <2>1, <2>3
<1>21. QED
  BY <1>14, <1>15, <1>16, <1>17, <1>18, <1>19, <1>20 DEF c, t, past, on, n

FindBounds(p, b, r) == r.base = NoText /\ (r.runs => SameBounds(p, b, r))

LEMMA FindBoundsStep ==
    ASSUME NEW p, FindTool(p), NEW argv, IsCommand(argv), NEW i \in 1..Len(argv),
           NEW b \in Bounds, NEW r \in Reading, FindBounds(p, b, r)
    PROVE  LET c == BoundsAt(p, argv, i, b)
               d == FindAt(p, argv, i, r)
           IN  \/ Stops(argv, d)
               \/ c[1] = d[1] /\ FindBounds(p, c[2], d[2])
<1> DEFINE t == argv[i]
           n == Len(argv)
           c == BoundsAt(p, argv, i, b)
           d == FindAt(p, argv, i, r)
           v == ValueOf(argv[i + 1])
           on == [b EXCEPT !.device = TRUE]
           w == WithDevice(p, b, t.text)
           z == ApplyText(p, b, v)
           past == SkipExecBody(p, argv, i)
<1>1. n \in Nat /\ i \in 1..n /\ IsWord(t)
  BY DEF IsCommand
<1>2. /\ t \in p.execFlags => c = <<past, b>>
      /\ t \in p.depthFlags /\ i < n => c = <<i + 2, z>>
      /\ t \in p.deviceFlags => c = <<i + 1, on>>
      /\ Clustered(p, t) /\ t \notin p.deviceFlags => c = <<i + 1, w>>
      /\ t \in p.rootFlags \cup p.values => c = <<i + 2, b>>
      /\ t.kind \in {"word", "dashdash"} => c = <<i + 1, b>>
  BY FindBoundsAt
<1>3. on.last = b.last /\ on.floor = b.floor /\ on.malformed = b.malformed /\ on.device = TRUE
  BY DEF Bounds
<1>4. ~p.depthRange /\ b.device \in BOOLEAN /\ r.device \in BOOLEAN
  BY DEF FindTool, Bounds, Reading
<1>5. SUFFICES ASSUME /\ d[2] \in Reading /\ (d[2].runs => r.runs)
                      /\ \/ TakesLetters(p, argv, i, r, d) \/ TakesOption(p, argv, i, r, d)
                         \/ TakesOperand(p, argv, i, r, d) \/ TakesDashes(p, argv, i, r, d)
                         \/ TakesExpression(p, argv, i, r, d)
               PROVE  c[1] = d[1] /\ FindBounds(p, c[2], d[2])
  BY FindSteps
<1> HIDE DEF c, d, on, z
<1>6. \A s \in Reading :
          /\ s.base = r.base /\ (s.runs => r.runs)
          /\ s.depth = r.depth /\ s.device = r.device
          => FindBounds(p, b, s)
  BY <1>4 DEF FindBounds, SameBounds
<1>7. CASE TakesLetters(p, argv, i, r, d)
  <2>1. /\ Clustered(p, t) /\ d[1] = i + 1 /\ d[2].base = r.base /\ d[2].depth = r.depth
        /\ d[2].device <=> r.device \/ Among(t.text) \cap p.deviceFlags # {}
    BY <1>7 DEF TakesLetters, Kept
  <2>2. Among(t.text) \cap p.deviceFlags # {} <=>
            \E k \in DOMAIN t.text : Short(<<t.text[k]>>) \in p.deviceFlags
    <3>1. t.text \in Seq(Atom)
      BY <1>1, <2>1, WordKinds DEF Clustered
    <3> HIDE DEF t
    <3>2. QED
      BY <3>1 DEF Among, ToSet
  <2>3. CASE t \notin p.deviceFlags
    <3>1. c = <<i + 1, w>>
      BY <1>2, <2>1, <2>3
    <3>2. /\ w.last = b.last /\ w.floor = b.floor /\ w.malformed = b.malformed
          /\ w.device <=> b.device \/ \E k \in DOMAIN t.text : Short(<<t.text[k]>>) \in p.deviceFlags
          /\ w \in Bounds
      <4> DEFINE letters == t.text
      <4> HIDE DEF letters
      <4>1. w = WithDevice(p, b, letters)
        BY DEF letters
      <4> HIDE DEF w
      <4>2. /\ w.last = b.last /\ w.floor = b.floor /\ w.malformed = b.malformed /\ w \in Bounds
        BY <4>1, DeviceWith
      <4>3. w.device <=> b.device \/ \E k \in DOMAIN letters : Short(<<letters[k]>>) \in p.deviceFlags
        BY <4>1, DeviceWith
      <4>4. QED
        BY <4>2, <4>3 DEF letters
    <3>3. w.device \in BOOLEAN /\ d[2].device \in BOOLEAN
      BY <1>5, <3>2 DEF Bounds, Reading
    <3> HIDE DEF w, t
    <3>4. d[2].runs => w.device = d[2].device
      BY <1>4, <1>5, <2>1, <2>2, <3>2, <3>3 DEF FindBounds, SameBounds
    <3>5. QED
      BY <1>4, <1>5, <2>1, <3>1, <3>2, <3>4 DEF FindBounds, SameBounds
  <2>4. CASE t \in p.deviceFlags
    <3>1. c = <<i + 1, on>>
      BY <1>2, <2>4
    <3>2. PICK x : t = Short(<<x>>)
      BY <2>4, FindFlags
    <3>3. t.text = <<x>> /\ t \in Among(t.text)
      <4>1. t.text = <<x>> /\ ToSet(t.text) = {x}
        BY <3>2, OneLetter
      <4> HIDE DEF t
      <4>2. QED
        BY <3>2, <4>1 DEF Among
    <3>4. d[2].device \in BOOLEAN
      BY <1>5 DEF Reading
    <3> HIDE DEF t
    <3>5. d[2].device = TRUE
      BY <2>1, <2>4, <3>3, <3>4
    <3>6. QED
      BY <1>3, <1>4, <1>5, <2>1, <3>1, <3>5 DEF FindBounds, SameBounds
  <2>5. QED
    BY <2>3, <2>4
<1>8. CASE TakesOption(p, argv, i, r, d)
  <2>1. /\ t \in p.rootFlags \cup p.values /\ d[1] = i + 2 /\ d[2].base = r.base
        /\ Unbound(r, d[2])
    BY <1>8 DEF TakesOption
  <2>2. c = <<i + 2, b>>
    BY <1>2, <2>1
  <2>3. QED
    BY <1>5, <1>6, <2>1, <2>2 DEF Unbound
<1>9. CASE TakesOperand(p, argv, i, r, d)
  <2>1. t.kind = "word" /\ d[1] = i + 1 /\ d[2].base = r.base /\ Unbound(r, d[2])
    BY <1>9 DEF TakesOperand
  <2>2. c = <<i + 1, b>>
    BY <1>2, <2>1
  <2>3. QED
    BY <1>5, <1>6, <2>1, <2>2 DEF Unbound
<1>10. CASE TakesDashes(p, argv, i, r, d)
  <2>1. t = DashDash /\ d[1] = i + 1 /\ d[2] = r
    BY <1>10 DEF TakesDashes
  <2>2. t.kind = "dashdash"
    BY <2>1, Kinds
  <2>3. c = <<i + 1, b>>
    BY <1>2, <2>2
  <2>4. QED
    BY <2>1, <2>3
<1>11. CASE TakesExpression(p, argv, i, r, d)
  <2> DEFINE told == TellDepth(p, r, v)
  <2>1. /\ Expressed(r, d[2])
        /\ \/ t \in p.execFlags /\ d[1] = past /\ Unbound(r, d[2])
           \/ /\ t \in p.depthFlags /\ i < n /\ d[1] = i + 2
              /\ d[2].depth = told.depth /\ d[2].device = r.device
              /\ (d[2].runs => told.runs)
           \/ /\ t \in p.deviceFlags /\ d[1] = i + 1
              /\ d[2].device = TRUE /\ d[2].depth = r.depth
           \/ t = Word(<<"!">>) /\ d[1] = i + 1 /\ Unbound(r, d[2])
    BY <1>11 DEF TakesExpression
  <2>2. d[2].base = r.base /\ (d[2].runs => r.runs)
    BY <2>1 DEF Expressed
  <2> HIDE DEF told, past
  <2>3. CASE t \in p.execFlags /\ d[1] = past /\ Unbound(r, d[2])
    BY <1>2, <1>5, <1>6, <2>2, <2>3 DEF Unbound
  <2>4. CASE t = Word(<<"!">>) /\ d[1] = i + 1 /\ Unbound(r, d[2])
    <3>1. t.kind = "word"
      BY <2>4, Kinds
    <3>2. c = <<i + 1, b>>
      BY <1>2, <3>1
    <3>3. QED
      BY <1>5, <1>6, <2>2, <2>4, <3>2 DEF Unbound
  <2>5. CASE /\ t \in p.deviceFlags /\ d[1] = i + 1
             /\ d[2].device = TRUE /\ d[2].depth = r.depth
    <3>1. c = <<i + 1, on>>
      BY <1>2, <2>5
    <3>2. QED
      BY <1>3, <1>4, <1>5, <2>2, <2>5, <3>1 DEF FindBounds, SameBounds
  <2>6. CASE /\ t \in p.depthFlags /\ i < n /\ d[1] = i + 2
             /\ d[2].depth = told.depth /\ d[2].device = r.device
             /\ (d[2].runs => told.runs)
    <3>1. c = <<i + 2, z>>
      BY <1>2, <2>6
    <3>2. v # NoText
      <4>1. i + 1 \in 1..n
        BY <1>1, <2>6
      <4>2. QED
        BY <4>1, WordKinds DEF IsCommand
    <3>3. told.device = r.device
      BY DepthTold DEF told
    <3>4. d[2].runs => SameBounds(p, z, told)
      <4> HIDE DEF v
      <4> QED
        BY <2>2, <2>6, <3>2, DepthAgrees DEF FindBounds, z, told
    <3>5. QED
      BY <1>4, <2>2, <2>6, <3>1, <3>3, <3>4 DEF FindBounds, SameBounds
  <2>7. QED
    BY <2>1, <2>3, <2>4, <2>5, <2>6
<1>12. QED
  BY <1>5, <1>7, <1>8, <1>9, <1>10, <1>11

LEMMA FindBoundsReadAs ==
    ASSUME NEW p, FindTool(p), NEW argv, IsCommand(argv)
    PROVE  Read(p, argv).runs => /\ SameBounds(p, ScanBounds(p, argv), Read(p, argv))
                                 /\ Read(p, argv).base = NoText
<1> DEFINE n == Len(argv)
           step == [c \in (1..n) \X Bounds |-> BoundsAt(p, argv, c[1], c[2])]
           R == {x \in Bounds \X Reading : FindBounds(p, x[1], x[2])}
           E == {x \in Bounds \X Reading : FALSE}
           a == Unbounded
<1>1. Advances(n, Bounds, step)
  <2>1. \A c \in (1..n) \X Bounds :
            BoundsAt(p, argv, c[1], c[2]) \in Places(Bounds)
            /\ BoundsAt(p, argv, c[1], c[2])[1] > c[1]
    BY FindBoundsAt
  <2>2. QED
    BY <2>1 DEF Advances
<1>2. \A i \in 1..n : \A x \in R :
          LET c == step[<<i, x[1]>>]
              d == FindAt(p, argv, i, x[2])
          IN  \/ Stops(argv, d)
              \/ c[1] = d[1] /\ <<c[2], d[2]>> \in R
              \/ c[1] > n /\ <<c[2], d[2]>> \in E
  <2> SUFFICES ASSUME NEW i \in 1..n, NEW x \in R
               PROVE  LET c == step[<<i, x[1]>>]
                          d == FindAt(p, argv, i, x[2])
                      IN  Stops(argv, d) \/ (c[1] = d[1] /\ <<c[2], d[2]>> \in R)
    OBVIOUS
  <2> DEFINE b == x[1]
             r == x[2]
             c == BoundsAt(p, argv, i, b)
             d == FindAt(p, argv, i, r)
  <2>1. b \in Bounds /\ r \in Reading /\ FindBounds(p, b, r)
    OBVIOUS
  <2>2. step[<<i, x[1]>>] = c
    BY <2>1
  <2>3. c \in Places(Bounds) /\ d \in Places(Reading)
    BY <2>1, FindBoundsAt, FindGoesOn
  <2>4. Stops(argv, d) \/ (c[1] = d[1] /\ FindBounds(p, c[2], d[2]))
    <3> HIDE DEF b, r
    <3> QED
      BY <2>1, FindBoundsStep
  <2>5. FindBounds(p, c[2], d[2]) => <<c[2], d[2]>> \in R
    <3> HIDE DEF c, d
    <3> QED
      BY <2>3 DEF Places
  <2> HIDE DEF c, d, step, R
  <2>6. QED
    BY <2>2, <2>4, <2>5 DEF d
<1>3. a \in Bounds
  BY DEF Unbounded, Bounds, NoDepth
<1>4. Nothing(p) \in Reading /\ FindBounds(p, a, Nothing(p))
  <2>1. p.dirAction \in Actions
    BY DEF FindTool, Actions
  <2>2. Nothing(p) \in Reading
    BY <2>1, NothingRead
  <2>3. ~p.depthRange
    BY DEF FindTool
  <2>4. QED
    BY <2>2, <2>3 DEF FindBounds, SameBounds, Unbounded, Nothing
<1>5. R \in SUBSET (Bounds \X Reading) /\ <<a, Nothing(p)>> \in R
  BY <1>3, <1>4
<1>6. E \in SUBSET (Bounds \X Reading) /\ E = {}
  OBVIOUS
<1>7. ScanBounds(p, argv) = Scan(n, Bounds, step, a)
  BY DEF ScanBounds
<1>8. \A i \in 1..n : \A x \in E :
          LET d == FindAt(p, argv, i, x[2])
          IN  Stops(argv, d) \/ <<x[1], d[2]>> \in E
  OBVIOUS
<1> HIDE DEF step, R, a, E
<1>9. Read(p, argv).runs => <<Scan(n, Bounds, step, a), Read(p, argv)>> \in R \cup E
  BY <1>1, <1>2, <1>5, <1>6, <1>8, FindReadsAlong
<1>10. QED
  BY <1>6, <1>7, <1>9 DEF R, FindBounds

\* One token, for find.
LEMMA FindRootsAtIs ==
    ASSUME NEW p, FindTool(p), NEW argv, IsCommand(argv), NEW i \in 1..Len(argv), NEW acc
    PROVE  LET t == argv[i]
               n == Len(argv)
               seen == Seen(p, acc, t)
           IN  RootsAt(p, argv, i, acc) =
                   IF t \in p.execFlags THEN <<SkipExecBody(p, argv, i), acc>>
                   ELSE IF t \in p.rootFlags
                   THEN <<i + 2, IF i < n THEN Charge(acc, ValueOf(argv[i + 1])) ELSE acc>>
                   ELSE IF Cluster(p, t).flag # None
                   THEN <<i + (IF Cluster(p, t).next THEN 2 ELSE 1), seen>>
                   ELSE IF t \in ValueFlags(p) THEN <<i + 2, seen>>
                   ELSE IF t = DashDash /\ p.dashdash = "end_of_options" THEN <<i + 1, acc>>
                   ELSE IF t = DashDash
                   THEN <<n + 1, Operating(acc, acc.positionals \o Rest(argv, i))>>
                   ELSE IF IsOption(t) /\ FindLeading(p, t) = 0 THEN <<n + 1, acc>>
                   ELSE IF IsOption(t) THEN <<i + 1, acc>>
                   ELSE <<i + 1, Operating(acc, Append(acc.positionals, t.text))>>
<1> DEFINE t == argv[i]
           n == Len(argv)
           seen == Seen(p, acc, t)
           root == IF t \in p.rootFlags THEN t ELSE Resolve(p, t, p.rootFlags)
           next == IF i < n THEN Charge(acc, ValueOf(argv[i + 1])) ELSE acc
           rest == Operating(acc, acc.positionals \o Rest(argv, i))
           one == Operating(acc, Append(acc.positionals, t.text))
           attached == root # None /\ t.kind = "long" /\ t.text # NoText
<1>1. IsWord(t)
  BY DEF IsCommand
<1>2. p.rootMode = "leading" /\ p.patFlags = {}
  BY DEF FindTool
<1>3. /\ \A F : Resolve(p, t, F) = None
      /\ t.kind # "short" => t \notin ValueFlags(p)
  BY <1>1, FindCluster
<1>4. p.rootFlags \subseteq ValueFlags(p) /\ None.kind # "short"
  BY FindFlags, Kinds
<1>5. t \in p.rootFlags => t.kind = "short"
  BY <1>3, <1>4
<1>6. t \in p.rootFlags => root = t /\ root # None
  BY <1>4, <1>5
<1>7. t \notin p.rootFlags => root = None
  BY <1>3
<1>8. t \in ValueFlags(p) => t.kind = "short"
  BY <1>3
<1>9. t \in ValueFlags(p) => Width(IF t.kind = "long" THEN t ELSE None) = 2
  <2>1. Width(None) = 2
    BY DEF Width, None, Token
  <2>2. t \in ValueFlags(p) => t.kind # "long"
    BY <1>8
  <2> HIDE DEF t
  <2>3. QED
    BY <2>1, <2>2
<1>10. ~IsAttachedPattern(p, t)
  BY <1>2 DEF IsAttachedPattern, AttachedTo, GluedTo
<1>11. ~attached
  <2> HIDE DEF root, t
  <2> QED
    BY <1>5, <1>6, <1>7
<1>12. RootsAt(p, argv, i, acc) =
           IF t \in p.execFlags THEN <<SkipExecBody(p, argv, i), acc>>
           ELSE IF attached THEN <<i + 1, Charge(acc, t.text)>>
           ELSE IF root # None THEN <<i + 2, next>>
           ELSE IF IsAttachedPattern(p, t) THEN <<i + 1, seen>>
           ELSE IF Cluster(p, t).flag # None
           THEN <<i + (IF Cluster(p, t).next THEN 2 ELSE 1), seen>>
           ELSE IF t \in ValueFlags(p) \/ Resolve(p, t, ValueFlags(p)) # None
           THEN <<i + Width(IF t.kind = "long" THEN t ELSE None), seen>>
           ELSE IF t = DashDash /\ p.dashdash = "end_of_options" THEN <<i + 1, acc>>
           ELSE IF t = DashDash THEN <<n + 1, rest>>
           ELSE IF IsOption(t) /\ FindLeading(p, t) = 0 THEN <<n + 1, acc>>
           ELSE IF IsOption(t) THEN <<i + 1, acc>>
           ELSE <<i + 1, one>>
  BY <1>2 DEF RootsAt, Charge, Seen, Operating
<1> HIDE DEF t, n, seen, root, next, rest, one, attached
<1>13. RootsAt(p, argv, i, acc) =
           IF t \in p.execFlags THEN <<SkipExecBody(p, argv, i), acc>>
           ELSE IF t \in p.rootFlags THEN <<i + 2, next>>
           ELSE IF Cluster(p, t).flag # None
           THEN <<i + (IF Cluster(p, t).next THEN 2 ELSE 1), seen>>
           ELSE IF t \in ValueFlags(p) THEN <<i + 2, seen>>
           ELSE IF t = DashDash /\ p.dashdash = "end_of_options" THEN <<i + 1, acc>>
           ELSE IF t = DashDash THEN <<n + 1, rest>>
           ELSE IF IsOption(t) /\ FindLeading(p, t) = 0 THEN <<n + 1, acc>>
           ELSE IF IsOption(t) THEN <<i + 1, acc>>
           ELSE <<i + 1, one>>
  BY <1>3, <1>6, <1>7, <1>9, <1>10, <1>11, <1>12
<1>14. QED
  BY <1>13 DEF t, n, seen, next, rest, one

LEMMA CommandRest ==
    ASSUME NEW argv, IsCommand(argv), NEW i \in 1..Len(argv)
    PROVE  Rest(argv, i) \in Seq(Text) /\ (i < Len(argv) => ValueOf(argv[i + 1]) \in Text)
<1>1. Len(argv) \in Nat /\ \A j \in 1..Len(argv) : IsWord(argv[j])
  BY DEF IsCommand
<1>2. \A k \in 1..Len(argv) - i : i + k \in 1..Len(argv)
  BY <1>1
<1>3. \A k \in 1..Len(argv) - i : ValueOf(argv[i + k]) \in Text
  BY <1>1, <1>2, WordKinds
<1>4. Len(argv) - i \in Nat
  BY <1>1
<1>5. Rest(argv, i) \in Seq(Text)
  BY <1>3, <1>4 DEF Rest
<1>6. i < Len(argv) => 1 \in 1..Len(argv) - i
  BY <1>1
<1>7. QED
  BY <1>3, <1>5, <1>6

LEMMA FindRootsAt ==
    ASSUME NEW p, FindTool(p), NEW argv, IsCommand(argv), NEW i \in 1..Len(argv),
           NEW acc \in Charges
    PROVE  LET t == argv[i]
               n == Len(argv)
               c == RootsAt(p, argv, i, acc)
           IN  /\ c \in Places(Charges) /\ c[1] > i
               /\ t \notin p.rootFlags => c[2].found = acc.found
               /\ t \in p.rootFlags =>
                      /\ c[1] = i + 2
                      /\ i < n => c[2].found = Append(acc.found, ValueOf(argv[i + 1]))
               /\ t \in p.execFlags => c[1] = SkipExecBody(p, argv, i)
               /\ t \in p.depthFlags \cup p.values => c[1] = i + 2
               /\ Clustered(p, t) => c[1] = i + 1
               /\ t \in p.deviceFlags /\ ~Clustered(p, t) => c[1] = n + 1
               /\ t = DashDash =>
                      c[1] = IF p.dashdash = "end_of_options" THEN i + 1 ELSE n + 1
               /\ t.kind = "word" => c[1] = i + 1
<1> DEFINE t == argv[i]
           n == Len(argv)
           c == RootsAt(p, argv, i, acc)
           past == SkipExecBody(p, argv, i)
           seen == Seen(p, acc, t)
           next == IF i < n THEN Charge(acc, ValueOf(argv[i + 1])) ELSE acc
           cluster == Cluster(p, t)
           j == i + (IF cluster.next THEN 2 ELSE 1)
           rest == Operating(acc, acc.positionals \o Rest(argv, i))
           one == Operating(acc, Append(acc.positionals, t.text))
           leading == FindLeading(p, t)
<1>1. n \in Nat /\ i \in 1..n /\ IsWord(t)
  BY DEF IsCommand
<1>2. past \in Nat \ {0} /\ past > i
  BY <1>1, ExecBody
<1>3. seen \in Charges /\ seen.found = acc.found
  <2> HIDE DEF t
  <2> QED
    BY ChargeFacts
<1>4. /\ next \in Charges
      /\ i < n => next.found = Append(acc.found, ValueOf(argv[i + 1]))
  BY CommandRest, ChargeFacts
<1>5. acc.positionals \in Seq(Text)
  BY DEF Charges
<1>6. rest \in Charges /\ rest.found = acc.found
  <2>1. acc.positionals \o Rest(argv, i) \in Seq(Text)
    BY <1>5, CommandRest
  <2>2. QED
    BY <2>1, ChargeFacts
<1>7. t.kind = "word" => one \in Charges /\ one.found = acc.found
  <2> DEFINE text == t.text
  <2>1. t.kind = "word" => text \in Text
    BY <1>1, WordKinds, TextFacts
  <2> HIDE DEF text
  <2>2. text \in Text => Append(acc.positionals, text) \in Seq(Text)
    BY <1>5
  <2> DEFINE texts == Append(acc.positionals, text)
  <2> HIDE DEF texts
  <2>3. one = Operating(acc, texts)
    BY DEF texts, text
  <2> HIDE DEF one, t
  <2>4. texts \in Seq(Text) => one \in Charges /\ one.found = acc.found
    BY <2>3, ChargeFacts
  <2>5. QED
    BY <2>1, <2>2, <2>4 DEF texts
<1>8. t.kind \in {"word", "dashdash", "long", "short"} /\ (t.kind = "dashdash" <=> t = DashDash)
  BY <1>1, WordKinds
<1>9. IsOption(t) <=> t.kind # "word"
  BY <1>8 DEF IsOption
<1>10. c = IF t \in p.execFlags THEN <<past, acc>>
           ELSE IF t \in p.rootFlags THEN <<i + 2, next>>
           ELSE IF cluster.flag # None THEN <<j, seen>>
           ELSE IF t \in ValueFlags(p) THEN <<i + 2, seen>>
           ELSE IF t = DashDash /\ p.dashdash = "end_of_options" THEN <<i + 1, acc>>
           ELSE IF t = DashDash THEN <<n + 1, rest>>
           ELSE IF IsOption(t) /\ leading = 0 THEN <<n + 1, acc>>
           ELSE IF IsOption(t) THEN <<i + 1, acc>>
           ELSE <<i + 1, one>>
  BY FindRootsAtIs
<1>11. j \in {i + 1, i + 2}
  OBVIOUS
<1>12. ValueFlags(p) = p.values \cup p.rootFlags \cup p.depthFlags
  BY FindFlags
<1>13. t.kind # "short" => /\ cluster.flag = None
                           /\ t \notin ValueFlags(p) \cup p.deviceFlags \cup p.execFlags
  <2>1. NoCluster.flag = None
    BY DEF NoCluster
  <2> HIDE DEF t
  <2>2. QED
    BY <1>1, <2>1, FindCluster DEF t, cluster
<1>14. t \in p.values => cluster.flag # None /\ cluster.next /\ t \notin p.execFlags
  <2> SUFFICES ASSUME t \in p.values
               PROVE  cluster.flag # None /\ cluster.next /\ t \notin p.execFlags
    OBVIOUS
  <2>1. PICK x \in Letter : t = Short(<<x>>)
    BY <1>1, FindKinds
  <2>2. t \in ValueFlags(p) /\ t \notin p.execFlags
    BY <1>1, FindKinds
  <2>3. cluster = [letters |-> <<x>>, flag |-> t, glued |-> NoText, next |-> TRUE]
    BY <1>1, <2>1, <2>2, FindCluster
  <2>4. t # None
    BY <2>1, Kinds
  <2> HIDE DEF t, cluster
  <2>5. QED
    BY <2>2, <2>3, <2>4
<1>15. t \in p.depthFlags => cluster.flag = None /\ t \notin p.execFlags \cup p.rootFlags
  <2> SUFFICES ASSUME t \in p.depthFlags
               PROVE  cluster.flag = None /\ t \notin p.execFlags \cup p.rootFlags
    OBVIOUS
  <2>1. PICK x : t = Short(<<x>>) /\ x \notin Letter
    BY DEF FindTool
  <2>2. cluster = NoCluster
    BY <1>1, <2>1, FindCluster
  <2>3. t \notin p.rootFlags
    BY <1>1, FindKinds
  <2>4. t \notin p.execFlags
    BY DEF FindTool
  <2>5. QED
    BY <2>2, <2>3, <2>4 DEF NoCluster
<1>16. Clustered(p, t) => /\ cluster.flag = None /\ leading = 1 /\ t.kind = "short"
                          /\ t \notin ValueFlags(p) \cup p.execFlags
  <2> SUFFICES ASSUME Clustered(p, t)
               PROVE  /\ cluster.flag = None /\ leading = 1 /\ t.kind = "short"
                      /\ t \notin ValueFlags(p) \cup p.execFlags
    OBVIOUS
  <2>1. cluster = [NoCluster EXCEPT !.letters = t.text] /\ t \notin ValueFlags(p) \cup p.execFlags
    BY <1>1, FindCluster
  <2>2. cluster.flag = None
    BY <2>1 DEF NoCluster
  <2>3. leading = 1
    BY <1>1, <1>12, <2>1, FindKinds
  <2>4. QED
    BY <2>1, <2>2, <2>3 DEF Clustered
<1>17. t \in p.deviceFlags /\ ~Clustered(p, t) =>
           /\ cluster.flag = None /\ leading = 0 /\ t.kind = "short"
           /\ t \notin ValueFlags(p) \cup p.execFlags
  <2> SUFFICES ASSUME t \in p.deviceFlags, ~Clustered(p, t)
               PROVE  /\ cluster.flag = None /\ leading = 0 /\ t.kind = "short"
                      /\ t \notin ValueFlags(p) \cup p.execFlags
    OBVIOUS
  <2>1. PICK x : t = Short(<<x>>) /\ x \notin Letter
    BY <1>1, FindKinds
  <2>2. cluster = NoCluster
    BY <1>1, <2>1, FindCluster
  <2>3. t \notin ValueFlags(p) \cup p.execFlags
    <3>1. t \notin ValueFlags(p)
      BY <1>1, FindKinds
    <3>2. t \notin p.execFlags
      BY DEF FindTool
    <3>3. QED
      BY <3>1, <3>2
  <2>4. leading = 0
    BY <1>1, <1>12, <2>3, FindKinds
  <2>5. t.kind = "short"
    BY <2>1, Kinds
  <2>6. QED
    BY <2>2, <2>3, <2>4, <2>5 DEF NoCluster
<1>18. t \in p.rootFlags => t \notin p.execFlags
  BY <1>1, FindKinds
<1> HIDE DEF c, t, past, seen, next, cluster, j, rest, one, leading, n
<1>19. c \in Places(Charges) /\ c[1] > i
  <2>1. \E m \in {past, n + 1, i + 1, i + 2} : \E a \in Charges : c = <<m, a>>
    BY <1>3, <1>4, <1>6, <1>7, <1>9, <1>10, <1>11
  <2>2. PICK m \in {past, n + 1, i + 1, i + 2}, a \in Charges : c = <<m, a>>
    BY <2>1
  <2>3. m \in Nat \ {0} /\ m > i
    BY <1>1, <1>2
  <2>4. QED
    BY <2>2, <2>3 DEF Places
<1>20. t \notin p.rootFlags => c[2].found = acc.found
  BY <1>3, <1>6, <1>7, <1>9, <1>10
<1>21. t \in p.rootFlags => c = <<i + 2, next>>
  BY <1>10, <1>18
<1>22. t \in p.execFlags => c[1] = past
  BY <1>10
<1>23. t \in p.depthFlags => c = <<i + 2, seen>>
  BY <1>10, <1>12, <1>15
<1>24. t \in p.values => c[1] = i + 2
  <2>1. t \in p.values => j = i + 2
    BY <1>14 DEF j
  <2>2. QED
    BY <1>10, <1>14, <1>21, <2>1
<1>25. Clustered(p, t) => c[1] = i + 1
  <2>1. Clustered(p, t) => t \notin p.rootFlags /\ IsOption(t) /\ t # DashDash
    BY <1>8, <1>9, <1>12, <1>16
  <2>2. QED
    BY <1>10, <1>16, <2>1
<1>26. t \in p.deviceFlags /\ ~Clustered(p, t) => c[1] = n + 1
  <2>1. t \in p.deviceFlags /\ ~Clustered(p, t) => t \notin p.rootFlags /\ IsOption(t) /\ t # DashDash
    BY <1>8, <1>9, <1>12, <1>17
  <2>2. QED
    BY <1>10, <1>17, <2>1
<1>27. t.kind # "short" => t \notin ValueFlags(p) \cup p.rootFlags \cup p.execFlags
  BY <1>12, <1>13
<1>28. t = DashDash => c[1] = IF p.dashdash = "end_of_options" THEN i + 1 ELSE n + 1
  BY <1>8, <1>10, <1>13, <1>27
<1>29. t.kind = "word" => c[1] = i + 1
  BY <1>8, <1>9, <1>10, <1>13, <1>27
<1>30. QED
  BY <1>4, <1>19, <1>20, <1>21, <1>22, <1>23, <1>24, <1>25, <1>26, <1>28, <1>29 DEF c, t, n, past

\* What a scan for roots has of the pass, and what it has once it has ended
\* before it.
FoundSoFar(acc, r) == acc.found = r.roots
FoundAll(p, acc, r) == acc.found = r.roots /\ (r.phase = "expression" \/ p.rootFlags = {})

LEMMA FindRootsStep ==
    ASSUME NEW p, FindTool(p), NEW argv, IsCommand(argv), NEW i \in 1..Len(argv),
           NEW acc \in Charges, NEW r \in Reading, FoundSoFar(acc, r)
    PROVE  LET c == RootsAt(p, argv, i, acc)
               d == FindAt(p, argv, i, r)
           IN  \/ Stops(argv, d)
               \/ c[1] = d[1] /\ FoundSoFar(c[2], d[2])
               \/ c[1] > Len(argv) /\ FoundAll(p, c[2], d[2])
<1> DEFINE t == argv[i]
           n == Len(argv)
           c == RootsAt(p, argv, i, acc)
           d == FindAt(p, argv, i, r)
           v == ValueOf(argv[i + 1])
           past == SkipExecBody(p, argv, i)
           eoo == p.dashdash = "end_of_options"
<1>1. n \in Nat /\ i \in 1..n /\ IsWord(t)
  BY DEF IsCommand
<1>2. /\ t \notin p.rootFlags => c[2].found = acc.found
      /\ t \in p.rootFlags =>
             /\ c[1] = i + 2
             /\ i < n => c[2].found = Append(acc.found, v)
      /\ t \in p.execFlags => c[1] = past
      /\ t \in p.depthFlags \cup p.values => c[1] = i + 2
      /\ Clustered(p, t) => c[1] = i + 1
      /\ t \in p.deviceFlags /\ ~Clustered(p, t) => c[1] = n + 1
      /\ t = DashDash => c[1] = IF eoo THEN i + 1 ELSE n + 1
      /\ t.kind = "word" => c[1] = i + 1
  BY FindRootsAt
<1>3. p.dashdash = "end_of_options" \/ p.rootFlags = {}
  BY DEF FindTool
<1>4. t \in p.rootFlags => t \notin p.depthFlags \cup p.execFlags \cup p.deviceFlags
      /\ t.kind = "short" /\ ~Clustered(p, t)
  <2>1. t \in p.rootFlags => t \notin p.depthFlags \cup p.execFlags \cup p.deviceFlags
                             /\ t \in ValueFlags(p)
    BY <1>1, FindKinds
  <2>2. t \in ValueFlags(p) => t.kind = "short" /\ ~Clustered(p, t)
    BY <1>1, FindCluster
  <2>3. QED
    BY <2>1, <2>2
<1>5. SUFFICES ASSUME \/ TakesLetters(p, argv, i, r, d) \/ TakesOption(p, argv, i, r, d)
                      \/ TakesOperand(p, argv, i, r, d) \/ TakesDashes(p, argv, i, r, d)
                      \/ TakesExpression(p, argv, i, r, d)
               PROVE  \/ c[1] = d[1] /\ FoundSoFar(c[2], d[2])
                      \/ c[1] > n /\ FoundAll(p, c[2], d[2])
  BY FindSteps
<1> HIDE DEF c, d, t, v, past
<1>6. CASE TakesLetters(p, argv, i, r, d)
  <2>1. Clustered(p, t) /\ d[1] = i + 1 /\ d[2].roots = r.roots
    BY <1>6 DEF TakesLetters, Kept, t
  <2>2. QED
    BY <1>2, <1>4, <2>1 DEF FoundSoFar
<1>7. CASE TakesOption(p, argv, i, r, d)
  <2>1. /\ t \in p.rootFlags \cup p.values /\ i < n /\ d[1] = i + 2
        /\ d[2].roots = IF t \in p.rootFlags THEN Append(r.roots, v) ELSE r.roots
    BY <1>7 DEF TakesOption, t, v
  <2>2. QED
    BY <1>2, <2>1 DEF FoundSoFar
<1>8. CASE TakesOperand(p, argv, i, r, d)
  <2>1. t.kind = "word" /\ d[1] = i + 1 /\ d[2].roots = r.roots
    BY <1>8 DEF TakesOperand, t
  <2>2. QED
    BY <1>2, <1>4, <2>1 DEF FoundSoFar
<1>9. CASE TakesDashes(p, argv, i, r, d)
  <2>1. t = DashDash /\ d[1] = i + 1 /\ d[2] = r
    BY <1>9 DEF TakesDashes, t
  <2>2. t.kind # "short"
    BY <2>1, Kinds
  <2>3. c[2].found = acc.found
    BY <1>2, <1>4, <2>2
  <2>4. CASE eoo
    BY <1>2, <2>1, <2>3, <2>4 DEF FoundSoFar
  <2>5. CASE ~eoo
    <3>1. c[1] = n + 1 /\ p.rootFlags = {}
      BY <1>2, <1>3, <2>1, <2>5
    <3>2. QED
      BY <1>1, <2>1, <2>3, <3>1 DEF FoundSoFar, FoundAll
  <2>6. QED
    BY <2>4, <2>5
<1>10. CASE TakesExpression(p, argv, i, r, d)
  <2>1. /\ Expressed(r, d[2])
        /\ \/ t \in p.execFlags /\ d[1] = past
           \/ t \in p.depthFlags /\ d[1] = i + 2
           \/ t \in p.deviceFlags /\ d[1] = i + 1
           \/ t = Word(<<"!">>) /\ d[1] = i + 1
    BY <1>10 DEF TakesExpression, t, past
  <2>2. d[2].roots = r.roots /\ d[2].phase = "expression"
    BY <2>1 DEF Expressed
  <2>3. t = Word(<<"!">>) => t.kind = "word"
    BY Kinds
  <2>4. c[2].found = acc.found
    BY <1>2, <1>4, <2>1, <2>3
  <2>5. c[1] = d[1] \/ c[1] = n + 1
    BY <1>2, <2>1, <2>3
  <2>6. n + 1 > n
    BY <1>1
  <2>7. QED
    BY <2>2, <2>4, <2>5, <2>6 DEF FoundSoFar, FoundAll
<1>11. QED
  BY <1>5, <1>6, <1>7, <1>8, <1>9, <1>10

LEMMA FindRootsEnd ==
    ASSUME NEW p, FindTool(p), NEW argv, IsCommand(argv), NEW i \in 1..Len(argv),
           NEW acc, NEW r \in Reading, FoundAll(p, acc, r)
    PROVE  LET d == FindAt(p, argv, i, r)
           IN  Stops(argv, d) \/ FoundAll(p, acc, d[2])
<1> DEFINE d == FindAt(p, argv, i, r)
<1>1. SUFFICES ASSUME \/ TakesLetters(p, argv, i, r, d) \/ TakesOption(p, argv, i, r, d)
                      \/ TakesOperand(p, argv, i, r, d) \/ TakesDashes(p, argv, i, r, d)
                      \/ TakesExpression(p, argv, i, r, d)
               PROVE  FoundAll(p, acc, d[2])
  BY FindSteps
<1> HIDE DEF d
<1>2. TakesLetters(p, argv, i, r, d) => d[2].roots = r.roots /\ d[2].phase = r.phase
  BY DEF TakesLetters, Kept
<1>3. TakesOption(p, argv, i, r, d) /\ p.rootFlags = {} => d[2].roots = r.roots
  BY DEF TakesOption
<1>4. TakesOption(p, argv, i, r, d) => r.phase = "options"
  BY DEF TakesOption
<1>5. TakesOperand(p, argv, i, r, d) => d[2].roots = r.roots /\ r.phase # "expression"
  BY DEF TakesOperand
<1>6. TakesDashes(p, argv, i, r, d) => d[2] = r
  BY DEF TakesDashes
<1>7. TakesExpression(p, argv, i, r, d) => d[2].roots = r.roots /\ d[2].phase = "expression"
  BY DEF TakesExpression, Expressed
<1>8. QED
  BY <1>1, <1>2, <1>3, <1>4, <1>5, <1>6, <1>7 DEF FoundAll

LEMMA FindRootsReadAs ==
    ASSUME NEW p, FindTool(p), NEW argv, IsCommand(argv)
    PROVE  Read(p, argv).runs => RootsFrom(p, argv).found = Read(p, argv).roots
<1> DEFINE n == Len(argv)
           step == [c \in (1..n) \X Charges |-> RootsAt(p, argv, c[1], c[2])]
           R == {x \in Charges \X Reading : FoundSoFar(x[1], x[2])}
           E == {x \in Charges \X Reading : FoundAll(p, x[1], x[2])}
           a == Charged
<1>1. Advances(n, Charges, step)
  <2>1. \A c \in (1..n) \X Charges :
            RootsAt(p, argv, c[1], c[2]) \in Places(Charges)
            /\ RootsAt(p, argv, c[1], c[2])[1] > c[1]
    BY FindRootsAt
  <2>2. QED
    BY <2>1 DEF Advances
<1>2. \A i \in 1..n : \A x \in R :
          LET c == step[<<i, x[1]>>]
              d == FindAt(p, argv, i, x[2])
          IN  \/ Stops(argv, d)
              \/ c[1] = d[1] /\ <<c[2], d[2]>> \in R
              \/ c[1] > n /\ <<c[2], d[2]>> \in E
  <2> SUFFICES ASSUME NEW i \in 1..n, NEW x \in R
               PROVE  LET c == step[<<i, x[1]>>]
                          d == FindAt(p, argv, i, x[2])
                      IN  \/ Stops(argv, d)
                          \/ c[1] = d[1] /\ <<c[2], d[2]>> \in R
                          \/ c[1] > n /\ <<c[2], d[2]>> \in E
    OBVIOUS
  <2> DEFINE acc == x[1]
             r == x[2]
             c == RootsAt(p, argv, i, acc)
             d == FindAt(p, argv, i, r)
  <2>1. acc \in Charges /\ r \in Reading /\ FoundSoFar(acc, r)
    OBVIOUS
  <2>2. step[<<i, x[1]>>] = c
    BY <2>1
  <2>3. c \in Places(Charges) /\ d \in Places(Reading)
    BY <2>1, FindRootsAt, FindGoesOn
  <2>4. \/ Stops(argv, d)
        \/ c[1] = d[1] /\ FoundSoFar(c[2], d[2])
        \/ c[1] > n /\ FoundAll(p, c[2], d[2])
    <3> HIDE DEF acc, r
    <3> QED
      BY <2>1, FindRootsStep
  <2>5. /\ FoundSoFar(c[2], d[2]) => <<c[2], d[2]>> \in R
        /\ FoundAll(p, c[2], d[2]) => <<c[2], d[2]>> \in E
    <3> HIDE DEF c, d
    <3> QED
      BY <2>3 DEF Places
  <2> HIDE DEF c, d, step, R, E, n
  <2>6. QED
    BY <2>2, <2>4, <2>5 DEF d
<1>3. \A i \in 1..n : \A x \in E :
          LET d == FindAt(p, argv, i, x[2])
          IN  Stops(argv, d) \/ <<x[1], d[2]>> \in E
  <2> SUFFICES ASSUME NEW i \in 1..n, NEW x \in E
               PROVE  LET d == FindAt(p, argv, i, x[2])
                      IN  Stops(argv, d) \/ <<x[1], d[2]>> \in E
    OBVIOUS
  <2> DEFINE acc == x[1]
             r == x[2]
             d == FindAt(p, argv, i, r)
  <2>1. acc \in Charges /\ r \in Reading /\ FoundAll(p, acc, r)
    OBVIOUS
  <2>2. d \in Places(Reading)
    BY <2>1, FindGoesOn
  <2>3. Stops(argv, d) \/ FoundAll(p, acc, d[2])
    <3> HIDE DEF acc, r
    <3> QED
      BY <2>1, FindRootsEnd
  <2>4. FoundAll(p, acc, d[2]) => <<acc, d[2]>> \in E
    <3> HIDE DEF acc, d
    <3> QED
      BY <2>1, <2>2 DEF Places
  <2> HIDE DEF d, E
  <2>5. QED
    BY <2>3, <2>4 DEF d
<1>4. a \in Charges
  BY DEF Charged, Charges
<1>5. Nothing(p) \in Reading /\ FoundSoFar(a, Nothing(p))
  <2>1. p.dirAction \in Actions
    BY DEF FindTool, Actions
  <2>2. QED
    BY <2>1, NothingRead DEF FoundSoFar, Charged
<1>6. R \in SUBSET (Charges \X Reading) /\ <<a, Nothing(p)>> \in R
      /\ E \in SUBSET (Charges \X Reading)
  BY <1>4, <1>5
<1>7. RootsFrom(p, argv) = Scan(n, Charges, step, a)
  BY DEF RootsFrom
<1> HIDE DEF step, R, a, E
<1>8. Read(p, argv).runs => <<Scan(n, Charges, step, a), Read(p, argv)>> \in R \cup E
  BY <1>1, <1>2, <1>3, <1>6, FindReadsAlong
<1>9. QED
  BY <1>7, <1>8 DEF R, E, FoundSoFar, FoundAll

LEMMA FindLeadingAt ==
    ASSUME NEW p, FindTool(p), NEW argv, IsCommand(argv), NEW i \in 1..Len(argv),
           NEW ops \in Seq(Text)
    PROVE  LET t == argv[i]
               n == Len(argv)
               c == LeadingAt(p, argv, i, ops)
           IN  /\ c \in Places(Seq(Text)) /\ c[1] > i
               /\ t \in p.rootFlags \cup p.values => c = <<i + 2, ops>>
               /\ Clustered(p, t) => c = <<i + 1, ops>>
               /\ t \in p.depthFlags \cup p.execFlags => c = <<n + 1, ops>>
               /\ t \in p.deviceFlags /\ ~Clustered(p, t) => c = <<n + 1, ops>>
               /\ t = Word(<<"!">>) => c = <<n + 1, ops>>
               /\ t = DashDash /\ (ops = << >> \/ p.dashdash = "end_of_options") =>
                      c = <<i + 1, ops>>
               /\ t.kind = "word" /\ t # Word(<<"!">>) => c = <<i + 1, Append(ops, t.text)>>
<1> DEFINE t == argv[i]
           n == Len(argv)
           c == LeadingAt(p, argv, i, ops)
           bang == Word(<<"!">>)
           leading == FindLeading(p, t)
           skipped == t = DashDash /\ (ops = << >> \/ p.dashdash = "end_of_options")
           text == t.text
           one == Append(ops, text)
<1>1. n \in Nat /\ i \in 1..n /\ IsWord(t)
  BY DEF IsCommand
<1>2. t.kind \in {"word", "dashdash", "long", "short"} /\ (t.kind = "dashdash" <=> t = DashDash)
  BY <1>1, WordKinds
<1>3. IsOption(t) <=> t.kind # "word"
  BY <1>2 DEF IsOption
<1>4. bang.kind = "word"
  BY Kinds
<1>5. leading = IF t \in p.rootFlags \cup p.values THEN 2 ELSE IF Clustered(p, t) THEN 1 ELSE 0
  BY <1>1, FindKinds
<1>6. c = IF leading > 0 THEN <<i + leading, ops>>
          ELSE IF skipped THEN <<i + 1, ops>>
          ELSE IF IsOption(t) \/ t = bang THEN <<n + 1, ops>>
          ELSE <<i + 1, one>>
  BY DEF LeadingAt
<1>7. t.kind = "word" => one \in Seq(Text)
  <2>1. t.kind = "word" => text \in Text
    BY <1>1, WordKinds, TextFacts
  <2> HIDE DEF text
  <2>2. QED
    BY <2>1
<1>8. t.kind # "short" => t \notin p.rootFlags \cup p.values /\ ~Clustered(p, t)
  <2>1. t.kind # "short" => t \notin ValueFlags(p)
    BY <1>1, FindCluster
  <2>2. QED
    BY <2>1, FindFlags DEF Clustered
<1>9. t \in p.depthFlags \cup p.execFlags =>
          /\ t \notin p.rootFlags \cup p.values /\ ~Clustered(p, t) /\ t.kind = "short"
  <2>1. t \in p.depthFlags \cup p.execFlags => t \notin p.rootFlags \cup p.values
    BY <1>1, FindKinds
  <2>2. t \in p.depthFlags \cup p.execFlags => ~Clustered(p, t)
    BY <1>1, FindKinds
  <2>3. t \in p.depthFlags \cup p.execFlags => t.kind = "short"
    <3>1. t \in p.depthFlags \cup p.execFlags => t \in ValueFlags(p) \cup p.deviceFlags \cup p.execFlags
      BY FindFlags
    <3>2. QED
      BY <1>1, <3>1, FindCluster
  <2>4. QED
    BY <2>1, <2>2, <2>3
<1>10. t \in p.deviceFlags => t \notin p.rootFlags \cup p.values /\ t.kind = "short"
  BY <1>1, FindKinds, FindCluster
<1>11. Clustered(p, t) => t \notin p.rootFlags \cup p.values
  BY <1>1, FindKinds
<1> HIDE DEF c, t, bang, skipped, text, one, leading, n
<1>12. c \in Places(Seq(Text)) /\ c[1] > i
  <2>1. leading \in {0, 1, 2}
    BY <1>5
  <2>2. \E m \in {i + 1, i + 2, n + 1} : \E a \in Seq(Text) : c = <<m, a>>
    BY <1>1, <1>2, <1>3, <1>6, <1>7, <2>1
  <2>3. PICK m \in {i + 1, i + 2, n + 1}, a \in Seq(Text) : c = <<m, a>>
    BY <2>2
  <2>4. m \in Nat \ {0} /\ m > i
    BY <1>1
  <2>5. QED
    BY <2>3, <2>4 DEF Places
<1>13. t \in p.rootFlags \cup p.values => c = <<i + 2, ops>>
  BY <1>5, <1>6
<1>14. Clustered(p, t) => c = <<i + 1, ops>>
  BY <1>5, <1>6, <1>11
<1>15. leading = 0 /\ t.kind = "short" => c = <<n + 1, ops>>
  BY <1>2, <1>3, <1>6 DEF skipped
<1>16. t \in p.depthFlags \cup p.execFlags => c = <<n + 1, ops>>
  BY <1>5, <1>9, <1>15
<1>17. t \in p.deviceFlags /\ ~Clustered(p, t) => c = <<n + 1, ops>>
  BY <1>5, <1>10, <1>15
<1>18. t.kind # "short" => leading = 0
  BY <1>5, <1>8
<1>19. t = bang => c = <<n + 1, ops>>
  BY <1>2, <1>4, <1>6, <1>18 DEF skipped
<1>20. skipped => c = <<i + 1, ops>>
  BY <1>2, <1>6, <1>18 DEF skipped
<1>21. t.kind = "word" /\ t # bang => c = <<i + 1, one>>
  BY <1>2, <1>3, <1>6, <1>18 DEF skipped
<1>22. QED
  BY <1>12, <1>13, <1>14, <1>16, <1>17, <1>19, <1>20, <1>21
     DEF c, t, n, bang, skipped, one, text

\* What a scan for operands has of the pass, and what it has once it has ended
\* before it.
OperandsSoFar(ops, r) ==
    /\ ops = r.operands
    /\ r.phase = "options" => ops = << >>
    /\ r.phase = "operands" => ops # << >>
OperandsAll(ops, r) == ops = r.operands /\ r.phase = "expression"

LEMMA FindOperandsStep ==
    ASSUME NEW p, FindTool(p), NEW argv, IsCommand(argv), NEW i \in 1..Len(argv),
           NEW ops \in Seq(Text), NEW r \in Reading, OperandsSoFar(ops, r)
    PROVE  LET c == LeadingAt(p, argv, i, ops)
               d == FindAt(p, argv, i, r)
           IN  \/ Stops(argv, d)
               \/ c[1] = d[1] /\ OperandsSoFar(c[2], d[2])
               \/ c[1] > Len(argv) /\ OperandsAll(c[2], d[2])
<1> DEFINE t == argv[i]
           n == Len(argv)
           c == LeadingAt(p, argv, i, ops)
           d == FindAt(p, argv, i, r)
           bang == Word(<<"!">>)
           eoo == p.dashdash = "end_of_options"
           one == Append(ops, t.text)
<1>1. n \in Nat /\ i \in 1..n /\ IsWord(t)
  BY DEF IsCommand
<1>2. /\ t \in p.rootFlags \cup p.values => c = <<i + 2, ops>>
      /\ Clustered(p, t) => c = <<i + 1, ops>>
      /\ t \in p.depthFlags \cup p.execFlags => c = <<n + 1, ops>>
      /\ t \in p.deviceFlags /\ ~Clustered(p, t) => c = <<n + 1, ops>>
      /\ t = bang => c = <<n + 1, ops>>
      /\ t = DashDash /\ (ops = << >> \/ eoo) => c = <<i + 1, ops>>
      /\ t.kind = "word" /\ t # bang => c = <<i + 1, one>>
  BY FindLeadingAt
<1>3. one # << >>
  <2> DEFINE text == t.text
  <2> HIDE DEF text
  <2>1. Len(Append(ops, text)) = Len(ops) + 1 /\ Len(ops) \in Nat /\ Len(<< >>) = 0
    OBVIOUS
  <2>2. Append(ops, text) # << >>
    BY <2>1
  <2>3. QED
    BY <2>2 DEF text
<1>4. SUFFICES ASSUME \/ TakesLetters(p, argv, i, r, d) \/ TakesOption(p, argv, i, r, d)
                      \/ TakesOperand(p, argv, i, r, d) \/ TakesDashes(p, argv, i, r, d)
                      \/ TakesExpression(p, argv, i, r, d)
               PROVE  \/ c[1] = d[1] /\ OperandsSoFar(c[2], d[2])
                      \/ c[1] > n /\ OperandsAll(c[2], d[2])
  BY FindSteps
<1> HIDE DEF c, d
<1>5. CASE TakesLetters(p, argv, i, r, d)
  <2>1. Clustered(p, t) /\ d[1] = i + 1 /\ d[2].operands = r.operands /\ d[2].phase = r.phase
    BY <1>5 DEF TakesLetters, Kept
  <2> HIDE DEF t, one
  <2>2. QED
    BY <1>2, <2>1 DEF OperandsSoFar
<1>6. CASE TakesOption(p, argv, i, r, d)
  <2>1. /\ t \in p.rootFlags \cup p.values /\ d[1] = i + 2
        /\ d[2].operands = r.operands /\ d[2].phase = r.phase
    BY <1>6 DEF TakesOption
  <2> HIDE DEF t, one
  <2>2. QED
    BY <1>2, <2>1 DEF OperandsSoFar
<1>7. CASE TakesOperand(p, argv, i, r, d)
  <2>1. /\ t.kind = "word" /\ t # bang /\ d[1] = i + 1 /\ d[2].phase = "operands"
        /\ d[2].operands = Append(r.operands, t.text)
    BY <1>7 DEF TakesOperand
  <2>2. one = d[2].operands
    BY <2>1 DEF OperandsSoFar
  <2> HIDE DEF t, one, bang
  <2>3. QED
    BY <1>2, <1>3, <2>1, <2>2 DEF OperandsSoFar
<1>8. CASE TakesDashes(p, argv, i, r, d)
  <2>1. /\ t = DashDash /\ d[1] = i + 1 /\ d[2] = r
        /\ r.phase = "options" \/ (r.phase = "operands" /\ eoo)
    BY <1>8 DEF TakesDashes
  <2> HIDE DEF t, one, bang
  <2>2. c = <<i + 1, ops>>
    BY <1>2, <2>1 DEF OperandsSoFar
  <2>3. QED
    BY <2>1, <2>2
<1>9. CASE TakesExpression(p, argv, i, r, d)
  <2>1. /\ Expressed(r, d[2])
        /\ \/ t \in p.execFlags \cup p.depthFlags
           \/ t \in p.deviceFlags /\ d[1] = i + 1
           \/ t = bang
    BY <1>9 DEF TakesExpression
  <2>2. d[2].operands = r.operands /\ d[2].phase = "expression"
    BY <2>1 DEF Expressed
  <2> HIDE DEF t, one, bang
  <2>3. c = <<n + 1, ops>> \/ (c = <<i + 1, ops>> /\ d[1] = i + 1)
    BY <1>2, <2>1
  <2>4. n + 1 > n
    BY <1>1
  <2>5. QED
    BY <2>2, <2>3, <2>4 DEF OperandsSoFar, OperandsAll
<1>10. QED
  BY <1>4, <1>5, <1>6, <1>7, <1>8, <1>9

LEMMA FindOperandsEnd ==
    ASSUME NEW p, FindTool(p), NEW argv, IsCommand(argv), NEW i \in 1..Len(argv),
           NEW ops, NEW r \in Reading, OperandsAll(ops, r)
    PROVE  LET d == FindAt(p, argv, i, r)
           IN  Stops(argv, d) \/ OperandsAll(ops, d[2])
<1> DEFINE d == FindAt(p, argv, i, r)
<1>1. SUFFICES ASSUME \/ TakesLetters(p, argv, i, r, d) \/ TakesOption(p, argv, i, r, d)
                      \/ TakesOperand(p, argv, i, r, d) \/ TakesDashes(p, argv, i, r, d)
                      \/ TakesExpression(p, argv, i, r, d)
               PROVE  OperandsAll(ops, d[2])
  BY FindSteps
<1> HIDE DEF d
<1>2. r.phase = "expression"
  BY DEF OperandsAll
<1>3. TakesExpression(p, argv, i, r, d)
  BY <1>1, <1>2 DEF TakesLetters, TakesOption, TakesOperand, TakesDashes
<1>4. d[2].operands = r.operands /\ d[2].phase = "expression"
  BY <1>3 DEF TakesExpression, Expressed
<1>5. QED
  BY <1>4 DEF OperandsAll

LEMMA FindOperandsReadAs ==
    ASSUME NEW p, FindTool(p), NEW argv, IsCommand(argv)
    PROVE  Read(p, argv).runs => LeadingOperands(p, argv) = Read(p, argv).operands
<1> DEFINE n == Len(argv)
           A == Seq(Text)
           step == [c \in (1..n) \X A |-> LeadingAt(p, argv, c[1], c[2])]
           R == {x \in A \X Reading : OperandsSoFar(x[1], x[2])}
           E == {x \in A \X Reading : OperandsAll(x[1], x[2])}
           a == << >>
<1>1. Advances(n, A, step)
  <2>1. \A c \in (1..n) \X A :
            LeadingAt(p, argv, c[1], c[2]) \in Places(A)
            /\ LeadingAt(p, argv, c[1], c[2])[1] > c[1]
    BY FindLeadingAt
  <2> HIDE DEF A
  <2>2. QED
    BY <2>1 DEF Advances
<1>2. a \in A
  OBVIOUS
<1>3. \A i \in 1..n : \A ops \in A : \A r \in Reading :
          LET c == LeadingAt(p, argv, i, ops)
              d == FindAt(p, argv, i, r)
          IN  /\ c \in Places(A) /\ d \in Places(Reading)
              /\ OperandsSoFar(ops, r) =>
                     \/ Stops(argv, d)
                     \/ c[1] = d[1] /\ OperandsSoFar(c[2], d[2])
                     \/ c[1] > n /\ OperandsAll(c[2], d[2])
  BY FindLeadingAt, FindGoesOn, FindOperandsStep
<1> HIDE DEF A
<1>4. \A i \in 1..n : \A x \in R :
          LET c == step[<<i, x[1]>>]
              d == FindAt(p, argv, i, x[2])
          IN  \/ Stops(argv, d)
              \/ c[1] = d[1] /\ <<c[2], d[2]>> \in R
              \/ c[1] > n /\ <<c[2], d[2]>> \in E
  <2> SUFFICES ASSUME NEW i \in 1..n, NEW x \in R
               PROVE  LET c == step[<<i, x[1]>>]
                          d == FindAt(p, argv, i, x[2])
                      IN  \/ Stops(argv, d)
                          \/ c[1] = d[1] /\ <<c[2], d[2]>> \in R
                          \/ c[1] > n /\ <<c[2], d[2]>> \in E
    OBVIOUS
  <2> DEFINE ops == x[1]
             r == x[2]
             c == LeadingAt(p, argv, i, ops)
             d == FindAt(p, argv, i, r)
  <2>1. ops \in A /\ r \in Reading /\ OperandsSoFar(ops, r)
    OBVIOUS
  <2>2. step[<<i, x[1]>>] = c
    BY <2>1
  <2>3. /\ c \in Places(A) /\ d \in Places(Reading)
        /\ \/ Stops(argv, d)
           \/ c[1] = d[1] /\ OperandsSoFar(c[2], d[2])
           \/ c[1] > n /\ OperandsAll(c[2], d[2])
    <3> HIDE DEF ops, r
    <3> QED
      BY <1>3, <2>1
  <2>4. /\ OperandsSoFar(c[2], d[2]) => <<c[2], d[2]>> \in R
        /\ OperandsAll(c[2], d[2]) => <<c[2], d[2]>> \in E
    <3> HIDE DEF c, d
    <3> QED
      BY <2>3 DEF Places
  <2> HIDE DEF c, d, step, R, E, n
  <2>5. QED
    BY <2>2, <2>3, <2>4 DEF d
<1>5. \A i \in 1..n : \A x \in E :
          LET d == FindAt(p, argv, i, x[2])
          IN  Stops(argv, d) \/ <<x[1], d[2]>> \in E
  <2> SUFFICES ASSUME NEW i \in 1..n, NEW x \in E
               PROVE  LET d == FindAt(p, argv, i, x[2])
                      IN  Stops(argv, d) \/ <<x[1], d[2]>> \in E
    OBVIOUS
  <2> DEFINE ops == x[1]
             r == x[2]
             d == FindAt(p, argv, i, r)
  <2>1. ops \in A /\ r \in Reading /\ OperandsAll(ops, r)
    OBVIOUS
  <2>2. d \in Places(Reading)
    BY <2>1, FindGoesOn
  <2>3. Stops(argv, d) \/ OperandsAll(ops, d[2])
    <3> HIDE DEF ops, r
    <3> QED
      BY <2>1, FindOperandsEnd
  <2>4. OperandsAll(ops, d[2]) => <<ops, d[2]>> \in E
    <3> HIDE DEF ops, d
    <3> QED
      BY <2>1, <2>2 DEF Places
  <2> HIDE DEF d, E
  <2>5. QED
    BY <2>3, <2>4 DEF d
<1>6. Nothing(p) \in Reading /\ OperandsSoFar(a, Nothing(p))
  <2>1. p.dirAction \in Actions
    BY DEF FindTool, Actions
  <2>2. QED
    BY <2>1, NothingRead DEF OperandsSoFar
<1>7. R \in SUBSET (A \X Reading) /\ <<a, Nothing(p)>> \in R /\ E \in SUBSET (A \X Reading)
  BY <1>2, <1>6
<1>8. LeadingOperands(p, argv) = Scan(n, A, step, a)
  BY DEF LeadingOperands, A
<1> HIDE DEF step, R, a, E
<1>9. Read(p, argv).runs => <<Scan(n, A, step, a), Read(p, argv)>> \in R \cup E
  BY <1>1, <1>4, <1>5, <1>7, FindReadsAlong
<1>10. QED
  BY <1>8, <1>9 DEF R, E, OperandsSoFar, OperandsAll

-----------------------------------------------------------------------------
(* What the scanners promise of find and bfs. *)

\* All three scanners are right of every find and bfs command that runs: options,
\* leading paths and the expression after them, with the arguments of -exec
\* passed over up to their terminator.
\* src/walk_blocker/search_rules.py:2006-2269 and 2321-2603.
THEOREM FindIsRead ==
    ASSUME NEW p, FindTool(p), NEW argv, IsCommand(argv), NEW tty
    PROVE  TraversalIsRead(p, argv) /\ BoundsAreRead(p, argv) /\ RootsAreRead(p, argv, tty)
<1> DEFINE r == Read(p, argv)
           found == RootsFrom(p, argv).found \o LeadingOperands(p, argv)
           given == r.roots \o SubSeq(r.operands, 1, Len(r.operands))
<1>1. /\ p.rootMode = "leading" /\ p.dirAction = "none" /\ p.defaultDepth = NoDepth
      /\ p.cwdFlags = {}
  BY DEF FindTool
<1>2. TraversalIsRead(p, argv)
  BY <1>1 DEF TraversalIsRead, IsTraversal, Traverses
<1>3. r.runs => SameBounds(p, ScanBounds(p, argv), r) /\ r.base = NoText
  BY FindBoundsReadAs
<1>4. BoundsAreRead(p, argv)
  <2>1. SUFFICES ASSUME r.runs
                 PROVE  /\ DepthBound(p, argv) = DepthReached(p, r)
                        /\ DeviceBounded(p, argv) = r.device
                        /\ ~DepthMalformed(p, argv)
    BY DEF BoundsAreRead
  <2> HIDE DEF r
  <2>2. QED
    BY <1>1, <1>3, <2>1 DEF DepthBound, DepthReached, SameBounds, DeviceBounded, DepthMalformed
<1>5. r.runs => found = given
  <2>1. SUFFICES ASSUME r.runs PROVE found = given
    OBVIOUS
  <2>2. r \in Reading
    <3>1. p.dirAction \in Actions
      BY <1>1 DEF Actions
    <3> DEFINE n == Len(argv)
               reads == Passes(p, argv)
               b == Nothing(p)
               Q == Reading
    <3>2. n \in Nat
      BY DEF IsCommand
    <3>3. b \in Q /\ Q \in SUBSET Reading
      BY <3>1, NothingRead
    <3>4. r = Scan(n, Reading, reads, b) /\ Advances(n, Reading, reads)
      BY FindReads
    <3>5. \A i \in 1..n : \A q \in Q : reads[<<i, q>>][2] \in Q
      <4>1. \A i \in 1..n : \A q \in Reading : reads[<<i, q>>] \in Places(Reading)
        <5> HIDE DEF reads
        <5> QED
          BY <3>4 DEF Advances
      <4> HIDE DEF reads
      <4>2. QED
        BY <4>1 DEF Places
    <3> HIDE DEF n, reads, b, Q, r
    <3>6. Scan(n, Reading, reads, b) \in Q
      BY <3>2, <3>3, <3>4, <3>5, ScanKeeps
    <3>7. QED
      BY <3>3, <3>4, <3>6
  <2>3. RootsFrom(p, argv).found = r.roots /\ LeadingOperands(p, argv) = r.operands
    BY <2>1, FindRootsReadAs, FindOperandsReadAs
  <2> DEFINE ops == r.operands
             whole == SubSeq(ops, 1, Len(ops))
  <2>4. ops \in Seq(Text)
    <3> HIDE DEF r
    <3> QED
      BY <2>2 DEF Reading
  <2> HIDE DEF ops
  <2>5. whole = ops
    <3>1. whole \in Seq(Text) /\ Len(whole) = Len(ops) /\ \A k \in 1..Len(ops) : whole[k] = ops[k]
      BY <2>4
    <3> HIDE DEF whole
    <3>2. QED
      BY <2>4, <3>1
  <2> HIDE DEF whole
  <2>6. given = r.roots \o whole
    BY DEF whole, ops
  <2>7. found = r.roots \o ops
    BY <2>3 DEF ops
  <2>8. QED
    BY <2>5, <2>6, <2>7
<1>6. Operands(p, r) = given
  BY <1>1 DEF Operands
<1>7. Roots(p, argv, tty, TRUE) =
          IF found = << >> /\ (tty \/ ~p.fallbackNeedsTty) THEN {Here} ELSE ToSet(found) \ {<< >>}
  BY <1>1 DEF Roots
<1>8. RootsAreRead(p, argv, tty)
  <2>1. SUFFICES ASSUME r.runs
                 PROVE  Roots(p, argv, tty, TRUE) = Walked(p, r, tty) /\ EffectiveCwd(p, argv) = r.base
    BY DEF RootsAreRead
  <2>2. EffectiveCwd(p, argv) = NoText
    BY <1>1 DEF EffectiveCwd
  <2>3. ToSet(<< >>) = {}
    BY DEF ToSet
  <2>4. found = Operands(p, r)
    BY <1>5, <1>6, <2>1
  <2> HIDE DEF found, given, r
  <2>5. Roots(p, argv, tty, TRUE) = Walked(p, r, tty)
    BY <1>1, <1>7, <2>3, <2>4 DEF Walked
  <2>6. QED
    BY <1>3, <2>1, <2>2, <2>5
<1>9. QED
  BY <1>2, <1>4, <1>8

LEMMA PlainIs ==
    /\ DOMAIN Plain =
           {"always", "onValues", "skipPos", "rootMode", "exact", "abbreviates", "dirAction",
            "defaultDepth", "depthEnables", "depthRange", "depthDigits", "fallbackNeedsTty",
            "clusterLetters", "dashdash", "recFlags", "recValue", "depthFlags", "deviceFlags",
            "deviceOff", "values", "patFlags", "rootFlags", "cwdFlags", "execFlags", "execPlus"}
    /\ Plain = [x \in DOMAIN Plain |-> Plain[x]]
    /\ Plain.rootMode = "positional" /\ Plain.exact = {} /\ Plain.abbreviates = FALSE
    /\ Plain.dirAction = "none" /\ Plain.defaultDepth = NoDepth /\ Plain.depthRange = FALSE
    /\ Plain.depthDigits = {} /\ Plain.clusterLetters = {} /\ Plain.dashdash = "predicate"
    /\ Plain.recFlags = {} /\ Plain.recValue = {} /\ Plain.depthFlags = {}
    /\ Plain.deviceFlags = {} /\ Plain.deviceOff = {} /\ Plain.values = {}
    /\ Plain.patFlags = {} /\ Plain.rootFlags = {} /\ Plain.cwdFlags = {}
    /\ Plain.execFlags = {} /\ Plain.onValues = {}
BY DEF Plain, NoFlags, NoDepth

LEMMA FlagNames ==
    /\ \A x, y : Short(<<x>>) = Short(<<y>>) => x = y
    /\ \A x, y : Long(x) = Long(y) => x = y
    /\ \A x, y : Short(<<x>>) # Long(y)
    /\ \A x : Short(<<x>>).kind = "short" /\ Long(x).kind = "long" /\ Long(x).name = x
    /\ \A x \in Letter : IsFlag(Short(<<x>>))
    /\ \A x : IsFlag(Long(x))
<1>1. \A x : Short(<<x>>).kind = "short" /\ Long(x).kind = "long" /\ Long(x).name = x
  BY Kinds
<1>2. ASSUME NEW x, NEW y, Short(<<x>>) = Short(<<y>>) PROVE x = y
  <2>1. Short(<<x>>).text[1] = x /\ Short(<<y>>).text[1] = y
    BY OneLetter
  <2>2. QED
    BY <1>2, <2>1
<1>3. \A x, y : Long(x) = Long(y) => x = y
  BY SameLong
<1>4. ASSUME NEW x, NEW y PROVE Short(<<x>>) # Long(y)
  <2>1. Short(<<x>>).kind # Long(y).kind
    BY <1>1
  <2>2. QED
    BY <2>1
<1>5. ASSUME NEW x \in Letter PROVE IsFlag(Short(<<x>>))
  BY DEF IsFlag
<1>6. ASSUME NEW x PROVE IsFlag(Long(x))
  <2>1. Long(x).name = x
    BY <1>1
  <2>2. QED
    BY <2>1 DEF IsFlag
<1>7. QED
  BY <1>1, <1>2, <1>3, <1>4, <1>5, <1>6

LEMMA NoLonger ==
    \A x \in {"recursive", "directories", "regexp", "binary-files", "max-depth",
              "one-file-system", "no-one-file-system", "search-path", "base-directory",
              "time-style", "depth", "walker-max-depth", "walker-root"} : Longer(x) = {}
BY DEF Longer

LEMMA GrepFits == GetoptTool(Grep)
<1> DEFINE p == Grep
<1>1. /\ p.recFlags = {Short(<<"r">>), Long("recursive")}
      /\ p.recValue = {Short(<<"d">>), Long("directories")}
      /\ p.patFlags = {Short(<<"e">>), Long("regexp")}
      /\ p.values = {Short(<<"d">>), Long("directories"), Short(<<"C">>), Long("binary-files")}
      /\ p.exact = {"binary"} /\ p.dirAction = "skip" /\ p.rootMode = "positional"
      /\ p.clusterLetters = {} /\ p.cwdFlags = {} /\ p.execFlags = {} /\ p.deviceFlags = {}
      /\ p.deviceOff = {} /\ p.depthFlags = {} /\ p.rootFlags = {} /\ p.depthDigits = {}
      /\ p.defaultDepth = NoDepth
  BY PlainIs DEF Grep
<1>2. Switches(p) = {Short(<<"r">>), Long("recursive")}
  BY <1>1 DEF Switches
<1>3. ValueFlags(p) = {Short(<<"d">>), Long("directories"), Short(<<"C">>), Long("binary-files"),
                       Short(<<"e">>), Long("regexp")}
  BY <1>1 DEF ValueFlags
<1>4. {"r", "d", "C", "e"} \subseteq Letter
  BY DEF Letter
<1> HIDE DEF p
<1>5. \A f \in ValueFlags(p) \cup Switches(p) : IsFlag(f)
  BY <1>2, <1>3, <1>4, FlagNames
<1>6. /\ p.recValue \subseteq ValueFlags(p)
      /\ ValueFlags(p) \cap Switches(p) = {}
      /\ p.patFlags \cap p.recValue = {}
  BY <1>1, <1>2, <1>3, FlagNames
<1>7. \A f \in ValueFlags(p) \cup Switches(p) :
           f.kind = "long" => f.name \notin p.exact /\ Longer(f.name) = {}
  BY <1>1, <1>2, <1>3, FlagNames, NoLonger
<1>8. \A f \in p.recFlags : f.kind = "short" => f = Short(<<"r">>)
  BY <1>1, FlagNames
<1>9. GetoptTool(p)
  BY <1>1, <1>5, <1>6, <1>7, <1>8 DEF GetoptTool, Actions
<1>10. QED
  BY <1>9 DEF p

LEMMA RgrepFits == GetoptTool(Rgrep)
<1>1. /\ Rgrep.dirAction = "recurse" /\ Rgrep.rootMode = Grep.rootMode
      /\ Rgrep.clusterLetters = Grep.clusterLetters /\ Rgrep.recFlags = Grep.recFlags
      /\ Rgrep.recValue = Grep.recValue /\ Rgrep.patFlags = Grep.patFlags
      /\ Rgrep.values = Grep.values /\ Rgrep.exact = Grep.exact
      /\ Rgrep.cwdFlags = Grep.cwdFlags /\ Rgrep.execFlags = Grep.execFlags
      /\ Rgrep.deviceFlags = Grep.deviceFlags /\ Rgrep.deviceOff = Grep.deviceOff
      /\ Rgrep.depthFlags = Grep.depthFlags /\ Rgrep.rootFlags = Grep.rootFlags
      /\ Rgrep.depthDigits = Grep.depthDigits /\ Rgrep.defaultDepth = Grep.defaultDepth
      /\ Rgrep.abbreviates = Grep.abbreviates /\ Grep.dirAction # "none"
  BY PlainIs DEF Rgrep, Grep
<1>2. Switches(Rgrep) = Switches(Grep) /\ ValueFlags(Rgrep) = ValueFlags(Grep)
  BY <1>1 DEF Switches, ValueFlags
<1>3. QED
  BY <1>1, <1>2, GrepFits DEF GetoptTool, Actions

LEMMA RgFits == GetoptTool(Rg)
<1> DEFINE p == Rg
<1>1. /\ p.recFlags = {} /\ p.recValue = {} /\ p.depthFlags = {Long("max-depth")}
      /\ p.deviceFlags = {Long("one-file-system")}
      /\ p.deviceOff = {Long("no-one-file-system")} /\ p.values = {Short(<<"C">>)}
      /\ p.patFlags = {Short(<<"e">>), Long("regexp")} /\ p.rootFlags = {} /\ p.cwdFlags = {}
      /\ p.execFlags = {} /\ p.exact = {} /\ p.clusterLetters = {} /\ p.depthDigits = {}
      /\ p.dirAction = "none" /\ p.rootMode = "positional" /\ p.defaultDepth = NoDepth
      /\ p.abbreviates = FALSE
  BY PlainIs DEF Rg
<1>2. Switches(p) = {Long("one-file-system"), Long("no-one-file-system")}
  BY <1>1 DEF Switches
<1>3. ValueFlags(p) = {Short(<<"C">>), Short(<<"e">>), Long("regexp"), Long("max-depth")}
  BY <1>1 DEF ValueFlags
<1>4. {"C", "e"} \subseteq Letter
  BY DEF Letter
<1> HIDE DEF p
<1>6. \A f \in ValueFlags(p) \cup Switches(p) : IsFlag(f)
  BY <1>2, <1>3, <1>4, FlagNames
<1>7. /\ p.recValue \cup p.cwdFlags \cup p.execFlags \subseteq ValueFlags(p)
      /\ ValueFlags(p) \cap Switches(p) = {}
      /\ p.recFlags \cap (p.deviceFlags \cup p.deviceOff) = {}
      /\ p.deviceFlags \cap p.deviceOff = {}
  BY <1>1, <1>2, <1>3, FlagNames
<1>8. /\ p.depthFlags \cap (p.patFlags \cup p.rootFlags \cup p.recValue \cup p.cwdFlags) = {}
      /\ p.patFlags \cap (p.rootFlags \cup p.recValue \cup p.cwdFlags) = {}
      /\ p.rootFlags \cap (p.recValue \cup p.cwdFlags) = {}
      /\ \A f \in p.rootFlags \cup p.cwdFlags \cup p.deviceOff : f.kind = "long"
      /\ \A f \in p.execFlags : f.kind = "short"
  BY <1>1, FlagNames
<1>9. \A f \in ValueFlags(p) \cup Switches(p) :
           f.kind = "long" => f.name \notin p.exact /\ Longer(f.name) = {}
  BY <1>1, <1>2, <1>3, FlagNames, NoLonger
<1>10. GetoptTool(p)
  BY <1>1, <1>6, <1>7, <1>8, <1>9 DEF GetoptTool, Actions
<1>11. QED
  BY <1>10 DEF p

LEMMA FdFits == GetoptTool(Fd)
<1> DEFINE p == Fd
<1>1. /\ p.recFlags = {} /\ p.recValue = {}
      /\ p.depthFlags = {Short(<<"d">>), Long("max-depth")}
      /\ p.deviceFlags = {Long("one-file-system")} /\ p.deviceOff = {}
      /\ p.values = {Short(<<"E">>), Long("base-directory"), Short(<<"x">>)}
      /\ p.patFlags = {} /\ p.rootFlags = {Long("search-path")}
      /\ p.cwdFlags = {Long("base-directory")} /\ p.execFlags = {Short(<<"x">>)}
      /\ p.exact = {} /\ p.clusterLetters = {} /\ p.depthDigits = {} /\ p.dirAction = "none"
      /\ p.rootMode = "positional" /\ p.defaultDepth = NoDepth /\ p.abbreviates = FALSE
  BY PlainIs DEF Fd
<1>2. Switches(p) = {Long("one-file-system")}
  BY <1>1 DEF Switches
<1>3. ValueFlags(p) = {Short(<<"E">>), Long("base-directory"), Short(<<"x">>),
                       Short(<<"d">>), Long("max-depth"), Long("search-path")}
  BY <1>1 DEF ValueFlags
<1>4. {"E", "x", "d"} \subseteq Letter
  BY DEF Letter
<1> HIDE DEF p
<1>6. \A f \in ValueFlags(p) \cup Switches(p) : IsFlag(f)
  BY <1>2, <1>3, <1>4, FlagNames
<1>7. /\ p.recValue \cup p.cwdFlags \cup p.execFlags \subseteq ValueFlags(p)
      /\ ValueFlags(p) \cap Switches(p) = {}
      /\ p.recFlags \cap (p.deviceFlags \cup p.deviceOff) = {}
      /\ p.deviceFlags \cap p.deviceOff = {}
  BY <1>1, <1>2, <1>3, FlagNames
<1>8. /\ p.depthFlags \cap (p.patFlags \cup p.rootFlags \cup p.recValue \cup p.cwdFlags) = {}
      /\ p.patFlags \cap (p.rootFlags \cup p.recValue \cup p.cwdFlags) = {}
      /\ p.rootFlags \cap (p.recValue \cup p.cwdFlags) = {}
      /\ \A f \in p.rootFlags \cup p.cwdFlags \cup p.deviceOff : f.kind = "long"
      /\ \A f \in p.execFlags : f.kind = "short"
  BY <1>1, FlagNames
<1>9. \A f \in ValueFlags(p) \cup Switches(p) :
           f.kind = "long" => f.name \notin p.exact /\ Longer(f.name) = {}
  BY <1>1, <1>2, <1>3, FlagNames, NoLonger
<1>10. GetoptTool(p)
  BY <1>1, <1>6, <1>7, <1>8, <1>9 DEF GetoptTool, Actions
<1>11. QED
  BY <1>10 DEF p

LEMMA TreeFits == GetoptTool(Tree)
<1> DEFINE p == Tree
<1>1. /\ p.recFlags = {} /\ p.recValue = {} /\ p.depthFlags = {Short(<<"L">>)}
      /\ p.deviceFlags = {Short(<<"x">>)} /\ p.deviceOff = {} /\ p.values = {Short(<<"E">>)}
      /\ p.patFlags = {} /\ p.rootFlags = {} /\ p.cwdFlags = {} /\ p.execFlags = {}
      /\ p.exact = {} /\ p.clusterLetters = {} /\ p.depthDigits = {} /\ p.dirAction = "none"
      /\ p.rootMode = "positional" /\ p.defaultDepth = NoDepth /\ p.abbreviates = FALSE
  BY PlainIs DEF Tree
<1>2. Switches(p) = {Short(<<"x">>)}
  BY <1>1 DEF Switches
<1>3. ValueFlags(p) = {Short(<<"E">>), Short(<<"L">>)}
  BY <1>1 DEF ValueFlags
<1>4. {"x", "E", "L"} \subseteq Letter
  BY DEF Letter
<1> HIDE DEF p
<1>6. \A f \in ValueFlags(p) \cup Switches(p) : IsFlag(f)
  BY <1>2, <1>3, <1>4, FlagNames
<1>7. /\ p.recValue \cup p.cwdFlags \cup p.execFlags \subseteq ValueFlags(p)
      /\ ValueFlags(p) \cap Switches(p) = {}
      /\ p.recFlags \cap (p.deviceFlags \cup p.deviceOff) = {}
      /\ p.deviceFlags \cap p.deviceOff = {}
  BY <1>1, <1>2, <1>3, FlagNames
<1>8. /\ p.depthFlags \cap (p.patFlags \cup p.rootFlags \cup p.recValue \cup p.cwdFlags) = {}
      /\ p.patFlags \cap (p.rootFlags \cup p.recValue \cup p.cwdFlags) = {}
      /\ p.rootFlags \cap (p.recValue \cup p.cwdFlags) = {}
      /\ \A f \in p.rootFlags \cup p.cwdFlags \cup p.deviceOff : f.kind = "long"
      /\ \A f \in p.execFlags : f.kind = "short"
  BY <1>1, FlagNames
<1>9. \A f \in ValueFlags(p) \cup Switches(p) :
           f.kind = "long" => f.name \notin p.exact /\ Longer(f.name) = {}
  BY <1>1, <1>2, <1>3, FlagNames, NoLonger
<1>10. GetoptTool(p)
  BY <1>1, <1>6, <1>7, <1>8, <1>9 DEF GetoptTool, Actions
<1>11. QED
  BY <1>10 DEF p

LEMMA DuFits == GetoptTool(Du)
<1> DEFINE p == Du
<1>1. /\ p.recFlags = {} /\ p.recValue = {} /\ p.depthFlags = {}
      /\ p.deviceFlags = {Short(<<"x">>), Long("one-file-system")} /\ p.deviceOff = {}
      /\ p.values = {Short(<<"d">>), Long("max-depth"), Long("time-style")}
      /\ p.patFlags = {} /\ p.rootFlags = {} /\ p.cwdFlags = {} /\ p.execFlags = {}
      /\ p.exact = {"time"} /\ p.clusterLetters = {} /\ p.depthDigits = {}
      /\ p.dirAction = "none" /\ p.rootMode = "positional" /\ p.defaultDepth = NoDepth
      /\ p.abbreviates = TRUE
  BY PlainIs DEF Du
<1>2. Switches(p) = {Short(<<"x">>), Long("one-file-system")}
  BY <1>1 DEF Switches
<1>3. ValueFlags(p) = {Short(<<"d">>), Long("max-depth"), Long("time-style")}
  BY <1>1 DEF ValueFlags
<1>4. {"x", "d"} \subseteq Letter
  BY DEF Letter
<1> HIDE DEF p
<1>6. \A f \in ValueFlags(p) \cup Switches(p) : IsFlag(f)
  BY <1>2, <1>3, <1>4, FlagNames
<1>7. /\ p.recValue \cup p.cwdFlags \cup p.execFlags \subseteq ValueFlags(p)
      /\ ValueFlags(p) \cap Switches(p) = {}
      /\ p.recFlags \cap (p.deviceFlags \cup p.deviceOff) = {}
      /\ p.deviceFlags \cap p.deviceOff = {}
  BY <1>1, <1>2, <1>3, FlagNames
<1>8. /\ p.depthFlags \cap (p.patFlags \cup p.rootFlags \cup p.recValue \cup p.cwdFlags) = {}
      /\ p.patFlags \cap (p.rootFlags \cup p.recValue \cup p.cwdFlags) = {}
      /\ p.rootFlags \cap (p.recValue \cup p.cwdFlags) = {}
      /\ \A f \in p.rootFlags \cup p.cwdFlags \cup p.deviceOff : f.kind = "long"
      /\ \A f \in p.execFlags : f.kind = "short"
  BY <1>1, FlagNames
<1>9. \A f \in ValueFlags(p) \cup Switches(p) :
           f.kind = "long" => f.name \notin p.exact /\ Longer(f.name) = {}
  BY <1>1, <1>2, <1>3, FlagNames, NoLonger
<1>10. GetoptTool(p)
  BY <1>1, <1>6, <1>7, <1>8, <1>9 DEF GetoptTool, Actions
<1>11. QED
  BY <1>10 DEF p

LEMMA UgrepFits == GetoptTool(Ugrep)
<1> DEFINE p == Ugrep
<1>1. /\ p.recFlags = {Short(<<"r">>), Long("recursive")}
      /\ p.recValue = {Short(<<"d">>), Long("directories")} /\ p.depthFlags = {Long("depth")}
      /\ p.deviceFlags = {} /\ p.deviceOff = {}
      /\ p.values = {Short(<<"d">>), Long("directories"), Short(<<"C">>)}
      /\ p.patFlags = {Short(<<"e">>), Long("regexp")} /\ p.rootFlags = {} /\ p.cwdFlags = {}
      /\ p.execFlags = {} /\ p.exact = {} /\ p.clusterLetters = {}
      /\ p.dirAction = "recurse_default" /\ p.rootMode = "positional" /\ p.defaultDepth = 1
      /\ p.abbreviates = FALSE
  BY PlainIs DEF Ugrep
<1>2. Switches(p) = {Short(<<"r">>), Long("recursive")}
  BY <1>1 DEF Switches
<1>3. ValueFlags(p) = {Short(<<"d">>), Long("directories"), Short(<<"C">>), Short(<<"e">>),
                       Long("regexp"), Long("depth")}
  BY <1>1 DEF ValueFlags
<1>4. {"r", "d", "C", "e"} \subseteq Letter
  BY DEF Letter
<1>5. p.depthDigits = {"l", "n", "r", "-", ","} \cup DOMAIN Numeral
  BY PlainIs DEF Ugrep
<1> HIDE DEF p
<1>6. \A f \in ValueFlags(p) \cup Switches(p) : IsFlag(f)
  BY <1>2, <1>3, <1>4, FlagNames
<1>7. /\ p.recValue \cup p.cwdFlags \cup p.execFlags \subseteq ValueFlags(p)
      /\ ValueFlags(p) \cap Switches(p) = {}
      /\ p.recFlags \cap (p.deviceFlags \cup p.deviceOff) = {}
      /\ p.deviceFlags \cap p.deviceOff = {}
  BY <1>1, <1>2, <1>3, FlagNames
<1>8. /\ p.depthFlags \cap (p.patFlags \cup p.rootFlags \cup p.recValue \cup p.cwdFlags) = {}
      /\ p.patFlags \cap (p.rootFlags \cup p.recValue \cup p.cwdFlags) = {}
      /\ p.rootFlags \cap (p.recValue \cup p.cwdFlags) = {}
      /\ \A f \in p.rootFlags \cup p.cwdFlags \cup p.deviceOff : f.kind = "long"
      /\ \A f \in p.execFlags : f.kind = "short"
  BY <1>1, FlagNames
<1>9. \A f \in ValueFlags(p) \cup Switches(p) :
           f.kind = "long" => f.name \notin p.exact /\ Longer(f.name) = {}
  BY <1>1, <1>2, <1>3, FlagNames, NoLonger
<1>10. \A f \in p.recFlags : f.kind = "short" => f = Short(<<"r">>)
  BY <1>1, FlagNames
<1>11. \A f \in ValueFlags(p) : \A x \in p.depthDigits : f # Short(<<x>>)
  <2>1. \A x \in p.depthDigits : x \notin {"d", "C", "e"}
    BY <1>5 DEF Numeral
  <2>2. QED
    BY <1>3, <2>1, FlagNames
<1>12. GetoptTool(p)
  BY <1>1, <1>6, <1>7, <1>8, <1>9, <1>10, <1>11 DEF GetoptTool, Actions
<1>13. QED
  BY <1>12 DEF p

LEMMA FzfFits == GetoptTool(Fzf)
<1> DEFINE p == Fzf
<1>1. /\ p.recFlags = {} /\ p.recValue = {} /\ p.depthFlags = {Long("walker-max-depth")}
      /\ p.deviceFlags = {} /\ p.deviceOff = {} /\ p.values = {} /\ p.patFlags = {}
      /\ p.rootFlags = {Long("walker-root")} /\ p.cwdFlags = {} /\ p.execFlags = {}
      /\ p.exact = {} /\ p.clusterLetters = {} /\ p.depthDigits = {} /\ p.dirAction = "none"
      /\ p.rootMode = "stdin" /\ p.defaultDepth = NoDepth /\ p.abbreviates = FALSE
  BY PlainIs DEF Fzf
<1>2. Switches(p) = {}
  BY <1>1 DEF Switches
<1>3. ValueFlags(p) = {Long("walker-max-depth"), Long("walker-root")}
  BY <1>1 DEF ValueFlags
<1>4. {} \subseteq Letter
  BY DEF Letter
<1> HIDE DEF p
<1>6. \A f \in ValueFlags(p) \cup Switches(p) : IsFlag(f)
  BY <1>2, <1>3, <1>4, FlagNames
<1>7. /\ p.recValue \cup p.cwdFlags \cup p.execFlags \subseteq ValueFlags(p)
      /\ ValueFlags(p) \cap Switches(p) = {}
      /\ p.recFlags \cap (p.deviceFlags \cup p.deviceOff) = {}
      /\ p.deviceFlags \cap p.deviceOff = {}
  BY <1>1, <1>2, <1>3, FlagNames
<1>8. /\ p.depthFlags \cap (p.patFlags \cup p.rootFlags \cup p.recValue \cup p.cwdFlags) = {}
      /\ p.patFlags \cap (p.rootFlags \cup p.recValue \cup p.cwdFlags) = {}
      /\ p.rootFlags \cap (p.recValue \cup p.cwdFlags) = {}
      /\ \A f \in p.rootFlags \cup p.cwdFlags \cup p.deviceOff : f.kind = "long"
      /\ \A f \in p.execFlags : f.kind = "short"
  BY <1>1, FlagNames
<1>9. \A f \in ValueFlags(p) \cup Switches(p) :
           f.kind = "long" => f.name \notin p.exact /\ Longer(f.name) = {}
  BY <1>1, <1>2, <1>3, FlagNames, NoLonger
<1>10. GetoptTool(p)
  BY <1>1, <1>6, <1>7, <1>8, <1>9 DEF GetoptTool, Actions
<1>11. QED
  BY <1>10 DEF p

LEMMA FindFits == FindTool(Find)
<1> DEFINE p == Find
<1>1. /\ p.rootMode = "leading" /\ p.dirAction = "none" /\ p.defaultDepth = NoDepth
      /\ p.abbreviates = FALSE /\ p.depthRange = FALSE /\ p.depthDigits = {}
      /\ p.recFlags = {} /\ p.recValue = {} /\ p.deviceOff = {} /\ p.patFlags = {}
      /\ p.cwdFlags = {} /\ p.clusterLetters = {"H", "L", "d", "x"} /\ p.rootFlags = {}
      /\ p.values = {Short(<<"D">>), Short(<<"S">>)} /\ p.depthFlags = {Short(<<"maxdepth">>)}
      /\ p.deviceFlags = {Short(<<"xdev">>), Short(<<"x">>)}
      /\ p.execFlags = {Short(<<"exec">>), Short(<<"ok">>)}
  BY PlainIs DEF Find
<1>2. /\ {"H", "L", "d", "x"} \subseteq Letter /\ {"D", "S", "f"} \subseteq Letter
      /\ "maxdepth" \notin Letter /\ "exec" \notin Letter /\ "ok" \notin Letter
      /\ "xdev" \notin Letter
  BY DEF Letter, Numeral
<1> HIDE DEF p
<1>3. \A f \in p.values \cup p.rootFlags : \E x \in Letter \ p.clusterLetters : f = Short(<<x>>)
  BY <1>1, <1>2
<1>4. \A f \in p.depthFlags \cup p.execFlags : \E x : x \notin Letter /\ f = Short(<<x>>)
  BY <1>1, <1>2
<1>5. \A f \in p.deviceFlags : \E x : (x \in Letter => x \in p.clusterLetters) /\ f = Short(<<x>>)
  BY <1>1, <1>2
<1>6. /\ p.depthFlags \cap (p.execFlags \cup p.deviceFlags) = {}
      /\ p.execFlags \cap p.deviceFlags = {}
  BY <1>1, FlagNames
<1>7. FindTool(p)
  BY <1>1, <1>2, <1>3, <1>4, <1>5, <1>6 DEF FindTool
<1>8. QED
  BY <1>7 DEF p

LEMMA BfsFits == FindTool(Bfs)
<1>1. /\ Bfs.dashdash = "end_of_options" /\ Bfs.rootFlags = {Short(<<"f">>)}
      /\ Bfs.rootMode = Find.rootMode /\ Bfs.dirAction = Find.dirAction
      /\ Bfs.defaultDepth = Find.defaultDepth /\ Bfs.abbreviates = Find.abbreviates
      /\ Bfs.depthRange = Find.depthRange /\ Bfs.depthDigits = Find.depthDigits
      /\ Bfs.recFlags = Find.recFlags /\ Bfs.recValue = Find.recValue
      /\ Bfs.deviceOff = Find.deviceOff /\ Bfs.patFlags = Find.patFlags
      /\ Bfs.cwdFlags = Find.cwdFlags /\ Bfs.clusterLetters = Find.clusterLetters
      /\ Bfs.values = Find.values /\ Bfs.depthFlags = Find.depthFlags
      /\ Bfs.deviceFlags = Find.deviceFlags /\ Bfs.execFlags = Find.execFlags
  BY PlainIs DEF Find, Bfs
<1>2. "f" \in Letter \ Find.clusterLetters
  BY PlainIs DEF Find, Letter
<1>3. \A f \in Bfs.values \cup Bfs.rootFlags : \E x \in Letter \ Bfs.clusterLetters : f = Short(<<x>>)
  BY <1>1, <1>2, FindFits DEF FindTool
<1>4. QED
  BY <1>1, <1>3, FindFits DEF FindTool

LEMMA WordFits ==
    ASSUME NEW p, NEW x \in Seq(Atom)
    PROVE  IsToken(p, Word(x)) /\ IsWord(Word(x))
<1>1. Word(x).text = x
  BY Kinds
<1>2. QED
  BY <1>1 DEF IsToken, IsWord

LEMMA LongFits ==
    ASSUME NEW p, NEW x, NEW y \in Text
    PROVE  IsToken(p, LongIs(x, y)) /\ IsToken(p, Long(x))
<1>0. LongIs(x, y).name = x /\ LongIs(x, y).text = y
  BY DEF LongIs, Token
<1>1. Long(x).name = x /\ Long(x).text = NoText
  BY Kinds
<1>2. Long(x) = LongIs(x, NoText)
  BY DEF Long
<1>3. NoText \in Text
  BY TextFacts
<1>4. QED
  BY <1>0, <1>1, <1>2, <1>3 DEF IsToken

\* A short token is legible up to a letter that takes a value, if one does.
LEMMA ShortFits ==
    ASSUME NEW p, NEW text \in Seq(Atom), text # << >>, NEW m \in 0..Len(text),
           m < Len(text) =>
               \/ m >= 1 /\ Short(<<text[m]>>) \in ValueFlags(p)
               \/ \A j \in 1..Len(text) : Short(<<text[j]>>) \notin ValueFlags(p),
           p.depthDigits # {} => \A j \in 1..m : j < m => text[j] \notin DOMAIN Numeral
    PROVE  IsToken(p, Short(text)) /\ IsWord(Short(text))
<1> DEFINE t == Short(text)
           k == Eater(p, t)
<1>0. Short(text).text = text
  BY Kinds
<1>1. t.text = text /\ t = Short(t.text) /\ Len(text) \in Nat
  BY <1>0
<1>2. /\ k \in 0..Len(text)
      /\ k > 0 => Short(<<text[k]>>) \in ValueFlags(p)
      /\ \A i \in 1..Len(text) : k = 0 \/ i < k => Short(<<text[i]>>) \notin ValueFlags(p)
  BY <1>1, EaterIs
<1> HIDE DEF k, t
<1>3. k <= m
  BY <1>1, <1>2
<1>4. Legible(p, t)
  BY <1>1, <1>2, <1>3 DEF Legible, k
<1>5. IsToken(p, t) /\ IsWord(t)
  BY <1>1, <1>4 DEF IsToken, IsWord
<1>6. QED
  BY <1>5 DEF t

LEMMA DepthLastFits ==
    ASSUME NEW p, NEW text \in Seq(Atom), text # << >>,
           \A j \in 1..Len(text) : j < Len(text) => text[j] \notin DOMAIN Numeral
    PROVE  IsToken(p, Short(text))
<1>1. Len(text) \in 0..Len(text) /\ ~(Len(text) < Len(text))
  OBVIOUS
<1>2. QED
  BY <1>1, ShortFits

LEMMA NoneTakesFit ==
    ASSUME NEW p, NEW text \in Seq(Atom), text # << >>,
           \A j \in 1..Len(text) : Short(<<text[j]>>) \notin ValueFlags(p)
    PROVE  IsToken(p, Short(text))
<1>1. 0 \in 0..Len(text) /\ \A j \in 1..0 : FALSE
  OBVIOUS
<1>2. QED
  BY <1>1, ShortFits

\* Short tokens of one, two and three letters.
LEMMA LettersFit ==
    ASSUME NEW p
    PROVE  /\ \A x \in Letter : IsToken(p, Short(<<x>>))
           /\ \A x, y \in Letter : x \notin DOMAIN Numeral => IsToken(p, Short(<<x, y>>))
           /\ \A x, y, z \in Letter :
                  x \notin DOMAIN Numeral /\ y \notin DOMAIN Numeral => IsToken(p, Short(<<x, y, z>>))
<1>1. Letter \subseteq Atom
  BY AtomAssumption
<1>2. ASSUME NEW x \in Letter PROVE IsToken(p, Short(<<x>>))
  <2> DEFINE s == <<x>>
  <2>1. s \in Seq(Atom) /\ s # << >> /\ Len(s) = 1 /\ s[1] = x
    BY <1>1
  <2> HIDE DEF s
  <2>2. \A j \in 1..Len(s) : ~(j < Len(s))
    BY <2>1
  <2>3. IsToken(p, Short(s))
    BY <2>1, <2>2, DepthLastFits
  <2>4. QED
    BY <2>3 DEF s
<1>3. ASSUME NEW x \in Letter, NEW y \in Letter, x \notin DOMAIN Numeral
      PROVE  IsToken(p, Short(<<x, y>>))
  <2> DEFINE s == <<x, y>>
  <2>1. s \in Seq(Atom) /\ s # << >> /\ Len(s) = 2 /\ s[1] = x /\ s[2] = y
    BY <1>1
  <2> HIDE DEF s
  <2>2. \A j \in 1..Len(s) : j < Len(s) => s[j] \notin DOMAIN Numeral
    BY <1>3, <2>1
  <2>3. IsToken(p, Short(s))
    BY <2>1, <2>2, DepthLastFits
  <2>4. QED
    BY <2>3 DEF s
<1>4. ASSUME NEW x \in Letter, NEW y \in Letter, NEW z \in Letter,
             x \notin DOMAIN Numeral, y \notin DOMAIN Numeral
      PROVE  IsToken(p, Short(<<x, y, z>>))
  <2> DEFINE s == <<x, y, z>>
  <2>1. s \in Seq(Atom) /\ s # << >> /\ Len(s) = 3 /\ s[1] = x /\ s[2] = y /\ s[3] = z
    BY <1>1
  <2> HIDE DEF s
  <2>2. \A j \in 1..Len(s) : j < Len(s) => s[j] \notin DOMAIN Numeral
    BY <1>4, <2>1
  <2>3. IsToken(p, Short(s))
    BY <2>1, <2>2, DepthLastFits
  <2>4. QED
    BY <2>3 DEF s
<1>5. QED
  BY <1>2, <1>3, <1>4
=============================================================================

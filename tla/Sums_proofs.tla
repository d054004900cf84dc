---------------------------- MODULE Sums_proofs ----------------------------
(***************************************************************************)
(* Induction on the naturals by the least counterexample, and from it what *)
(* SumOf computes for every sequence, and that functions defined by        *)
(* recursion exist.  A property to be proved by induction is given as the  *)
(* set of the numbers that have it.                                        *)
(***************************************************************************)
EXTENDS Sums, TLAPS, WellFoundedInduction

LEMMA LeastElement ==
  ASSUME NEW T, T \subseteq Nat, T # {}
  PROVE  \E n \in T : \A m \in T : n <= m
<1> DEFINE R == OpToRel(<, Nat)
<1>1. IsWellFoundedOn(R, Nat)
  BY NatLessThanWellFounded
<1>2. R = {ss \in Nat \X Nat : ss[1] < ss[2]}
  BY DEF OpToRel
<1> HIDE DEF R
<1>3. \E n \in T : \A m \in T : <<m, n>> \notin R
  BY <1>1, WFMin
<1>4. \A m, n \in Nat : m < n => <<m, n>> \in R
  <2> TAKE m, n \in Nat
  <2>1. <<m, n>> \in Nat \X Nat /\ <<m, n>>[1] = m /\ <<m, n>>[2] = n
    OBVIOUS
  <2> QED BY <1>2, <2>1
<1>5. PICK n \in T : \A m \in T : <<m, n>> \notin R
  BY <1>3
<1>6. \A m \in T : ~(m < n)
  BY <1>4, <1>5
<1> QED BY <1>5, <1>6

LEMMA InductionUpTo ==
  ASSUME NEW n \in Nat, NEW T, 0 \in T,
         \A i \in 0..(n - 1) : i \in T => i + 1 \in T
  PROVE  0..n \subseteq T
<1> DEFINE bad == (0..n) \ T
<1> SUFFICES ASSUME bad # {} PROVE FALSE
  OBVIOUS
<1>1. bad \subseteq Nat
  OBVIOUS
<1>2. \E k \in bad : \A m \in bad : k <= m
  BY <1>1, LeastElement
<1>3. PICK k \in bad : \A m \in bad : k <= m
  BY <1>2
<1>4. k # 0 /\ k \in 0..n
  OBVIOUS
<1>5. k - 1 \in 0..(n - 1) /\ k - 1 \in 0..n /\ ~(k <= k - 1)
  BY <1>4
<1>6. k - 1 \in T
  BY <1>3, <1>5
<1>7. (k - 1) + 1 \in T /\ (k - 1) + 1 = k
  BY <1>4, <1>5, <1>6
<1> QED BY <1>7

LEMMA GreatestElement ==
  ASSUME NEW T, T \subseteq Nat, T # {}, NEW b \in Nat, \A m \in T : m <= b
  PROVE  \E n \in T : \A m \in T : m <= n
<1> DEFINE U == {b - m : m \in T}
<1>1. U \subseteq Nat /\ U # {}
  <2>1. \A m \in T : b - m \in Nat
    OBVIOUS
  <2> QED BY <2>1
<1>2. \E u \in U : \A v \in U : u <= v
  BY <1>1, LeastElement
<1>3. PICK n \in T : \A m \in T : b - n <= b - m
  BY <1>2
<1> QED BY <1>3

-----------------------------------------------------------------------------
\* The running totals of the first n numbers of w.
RunsTo(w, n, f) ==
  /\ f \in [0..n -> Int]
  /\ f[0] = 0
  /\ \A i \in 1..n : f[i] = f[i - 1] + w[i]

LEMMA RunExists ==
  ASSUME NEW w \in Seq(Int)
  PROVE  \E f : RunsTo(w, Len(w), f)
<1> DEFINE N == Len(w)
<1> DEFINE T == {k \in 0..N : \E f : RunsTo(w, k, f)}
<1>0. N \in Nat
  OBVIOUS
<1>1. 0 \in T
  <2>1. RunsTo(w, 0, [i \in 0..0 |-> 0])
    BY DEF RunsTo
  <2> QED BY <1>0, <2>1
<1>2. ASSUME NEW k \in 0..(N - 1), k \in T PROVE k + 1 \in T
  <2>1. k \in 0..N /\ k + 1 \in 0..N /\ k + 1 \in 1..N /\ k \in Nat
    BY <1>0
  <2>2. PICK g : RunsTo(w, k, g)
    BY <1>2
  <2>3. w[k + 1] \in Int
    BY <2>1
  <2> DEFINE f == [i \in 0..(k + 1) |-> IF i = k + 1 THEN g[k] + w[k + 1] ELSE g[i]]
  <2>4. \A i \in 0..k : g[i] \in Int
    BY <2>2 DEF RunsTo
  <2>5. f \in [0..(k + 1) -> Int] /\ f[0] = 0
    <3>1. \A i \in 0..(k + 1) : (IF i = k + 1 THEN g[k] + w[k + 1] ELSE g[i]) \in Int
      BY <2>1, <2>3, <2>4
    <3>2. g[0] = 0 /\ 0 \in 0..(k + 1) /\ 0 # k + 1
      BY <2>1, <2>2 DEF RunsTo
    <3> QED BY <3>1, <3>2
  <2>6. \A i \in 1..(k + 1) : f[i] = f[i - 1] + w[i]
    <3> SUFFICES ASSUME NEW i \in 1..(k + 1) PROVE f[i] = f[i - 1] + w[i]
      OBVIOUS
    <3>1. i \in 0..(k + 1) /\ i - 1 \in 0..(k + 1) /\ i - 1 # k + 1 /\ f[i - 1] = g[i - 1]
      BY <2>1
    <3>2. CASE i = k + 1
      BY <2>1, <3>1, <3>2
    <3>3. CASE i # k + 1
      <4>1. i \in 1..k
        BY <2>1, <3>3
      <4> QED BY <2>2, <3>1, <3>3, <4>1 DEF RunsTo
    <3> QED BY <3>2, <3>3
  <2>7. RunsTo(w, k + 1, f)
    BY <2>5, <2>6 DEF RunsTo
  <2> QED BY <2>1, <2>7
<1> HIDE DEF T
<1>3. 0..N \subseteq T
  BY <1>0, <1>1, <1>2, InductionUpTo
<1>4. N \in T
  BY <1>0, <1>3
<1> QED BY <1>4 DEF T

LEMMA RunUnique ==
  ASSUME NEW w, NEW n \in Nat, NEW f, NEW g, RunsTo(w, n, f), RunsTo(w, n, g)
  PROVE  f = g
<1> DEFINE T == {k \in 0..n : f[k] = g[k]}
<1>1. 0 \in T
  BY DEF RunsTo
<1>2. ASSUME NEW k \in 0..(n - 1), k \in T PROVE k + 1 \in T
  <2>1. k + 1 \in 1..n /\ (k + 1) - 1 = k
    OBVIOUS
  <2> QED BY <1>2, <2>1 DEF RunsTo
<1> HIDE DEF T
<1>3. 0..n \subseteq T
  BY <1>1, <1>2, InductionUpTo
<1>4. \A k \in 0..n : f[k] = g[k]
  BY <1>3 DEF T
<1> QED BY <1>4 DEF RunsTo

\* SumOf is the last running total.
LEMMA SumIsLastRun ==
  ASSUME NEW w \in Seq(Int), NEW f, RunsTo(w, Len(w), f)
  PROVE  SumOf(w) = f[Len(w)]
<1> DEFINE Def(g) == g = [i \in 0..Len(w) |-> IF i = 0 THEN 0 ELSE g[i - 1] + w[i]]
<1> DEFINE c == CHOOSE g : Def(g)
<1>1. SumOf(w) = c[Len(w)]
  BY DEF SumOf
<1>2. Len(w) \in Nat
  OBVIOUS
<1>3. Def(f)
  <2>1. \A i \in 0..Len(w) : f[i] = IF i = 0 THEN 0 ELSE f[i - 1] + w[i]
    <3> TAKE i \in 0..Len(w)
    <3>1. i = 0 \/ i \in 1..Len(w)
      BY <1>2
    <3> QED BY <3>1 DEF RunsTo
  <2>2. f = [i \in 0..Len(w) |-> f[i]]
    BY DEF RunsTo
  <2> QED BY <2>1, <2>2
<1>4. Def(c)
  BY <1>3
<1> HIDE DEF c
<1>5. RunsTo(w, Len(w), c)
  <2>1. \A i \in 0..Len(w) : c[i] = IF i = 0 THEN 0 ELSE c[i - 1] + w[i]
    BY <1>4
  <2>2. c[0] = 0 /\ \A i \in 1..Len(w) : c[i] = c[i - 1] + w[i]
    BY <1>2, <2>1
  <2> DEFINE T == {k \in 0..Len(w) : c[k] \in Int}
  <2>3. 0 \in T
    BY <1>2, <2>2
  <2>4. ASSUME NEW k \in 0..(Len(w) - 1), k \in T PROVE k + 1 \in T
    <3>1. k + 1 \in 1..Len(w) /\ (k + 1) - 1 = k /\ k + 1 \in 0..Len(w)
      BY <1>2
    <3>2. w[k + 1] \in Int
      BY <3>1
    <3>3. c[k + 1] = c[k] + w[k + 1]
      BY <2>2, <3>1
    <3> QED BY <2>4, <3>1, <3>2, <3>3
  <2> HIDE DEF T
  <2>5. 0..Len(w) \subseteq T
    BY <1>2, <2>3, <2>4, InductionUpTo
  <2>6. \A k \in 0..Len(w) : c[k] \in Int
    BY <2>5 DEF T
  <2>7. c = [i \in 0..Len(w) |-> c[i]]
    BY <1>4
  <2>8. c \in [0..Len(w) -> Int]
    BY <2>6, <2>7
  <2> QED BY <2>2, <2>8 DEF RunsTo
<1>6. c = f
  BY <1>2, <1>5, RunUnique
<1> QED BY <1>1, <1>6

LEMMA SumRuns ==
  ASSUME NEW w \in Seq(Int)
  PROVE  \E f : RunsTo(w, Len(w), f) /\ SumOf(w) = f[Len(w)]
BY RunExists, SumIsLastRun

-----------------------------------------------------------------------------
LEMMA SumEmpty == SumOf(<<>>) = 0
<1>1. <<>> \in Seq(Int) /\ Len(<<>>) = 0
  OBVIOUS
<1>2. PICK f : RunsTo(<<>>, Len(<<>>), f) /\ SumOf(<<>>) = f[Len(<<>>)]
  BY <1>1, SumRuns
<1> QED BY <1>1, <1>2 DEF RunsTo

LEMMA SumType ==
  ASSUME NEW w \in Seq(Int)
  PROVE  SumOf(w) \in Int
<1>1. PICK f : RunsTo(w, Len(w), f) /\ SumOf(w) = f[Len(w)]
  BY SumRuns
<1>2. Len(w) \in 0..Len(w)
  OBVIOUS
<1> QED BY <1>1, <1>2 DEF RunsTo

\* One more number at the end.
LEMMA SumLast ==
  ASSUME NEW v \in Seq(Int), NEW w \in Seq(Int), Len(w) = Len(v) + 1,
         \A i \in 1..Len(v) : w[i] = v[i]
  PROVE  SumOf(w) = SumOf(v) + w[Len(w)]
<1> DEFINE n == Len(v)
<1>0. n \in Nat /\ Len(w) = n + 1
  OBVIOUS
<1>1. PICK f : RunsTo(w, Len(w), f) /\ SumOf(w) = f[Len(w)]
  BY SumRuns
<1> DEFINE g == [i \in 0..n |-> f[i]]
<1>2. RunsTo(v, n, g)
  <2>1. \A i \in 0..n : i \in 0..Len(w)
    BY <1>0
  <2>2. g \in [0..n -> Int]
    BY <1>1, <2>1 DEF RunsTo
  <2>3. g[0] = 0
    BY <1>0, <1>1 DEF RunsTo
  <2>4. ASSUME NEW i \in 1..n PROVE g[i] = g[i - 1] + v[i]
    <3>1. i \in 1..Len(w) /\ i \in 0..n /\ i - 1 \in 0..n /\ w[i] = v[i]
      BY <1>0, SMTT(30)
    <3> QED BY <1>1, <3>1 DEF RunsTo
  <2> QED BY <2>2, <2>3, <2>4 DEF RunsTo
<1>3. SumOf(v) = f[n]
  <2>1. SumOf(v) = g[n]
    BY <1>2, SumIsLastRun
  <2>2. n \in 0..n
    BY <1>0
  <2> QED BY <2>1, <2>2
<1>4. n + 1 \in 1..Len(w) /\ (n + 1) - 1 = n
  BY <1>0
<1> QED BY <1>0, <1>1, <1>3, <1>4 DEF RunsTo

LEMMA SumAppend ==
  ASSUME NEW v \in Seq(Int), NEW x \in Int
  PROVE  SumOf(Append(v, x)) = SumOf(v) + x
<1> DEFINE w == Append(v, x)
<1>1. w \in Seq(Int) /\ Len(w) = Len(v) + 1 /\ w[Len(w)] = x /\ \A i \in 1..Len(v) : w[i] = v[i]
  OBVIOUS
<1> HIDE DEF w
<1>2. SumOf(w) = SumOf(v) + w[Len(w)]
  BY <1>1, SumLast
<1> QED BY <1>1, <1>2 DEF w

\* One more number at the front.
LEMMA SumFirst ==
  ASSUME NEW v \in Seq(Int), NEW w \in Seq(Int), Len(w) = Len(v) + 1,
         \A i \in 1..Len(v) : w[i + 1] = v[i]
  PROVE  SumOf(w) = w[1] + SumOf(v)
<1> DEFINE n == Len(v)
<1>0. n \in Nat /\ Len(w) = n + 1 /\ 1 \in 1..Len(w) /\ w[1] \in Int
  OBVIOUS
<1>1. PICK f : RunsTo(v, n, f) /\ SumOf(v) = f[n]
  BY SumRuns
<1> DEFINE g == [i \in 0..(n + 1) |-> IF i = 0 THEN 0 ELSE w[1] + f[i - 1]]
<1>2. RunsTo(w, n + 1, g)
  <2>1. \A i \in 0..n : f[i] \in Int
    BY <1>1 DEF RunsTo
  <2>2. \A i \in 0..(n + 1) : i # 0 => i - 1 \in 0..n
    BY <1>0
  <2>3. g \in [0..(n + 1) -> Int] /\ g[0] = 0
    <3>1. \A i \in 0..(n + 1) : (IF i = 0 THEN 0 ELSE w[1] + f[i - 1]) \in Int
      <4> TAKE i \in 0..(n + 1)
      <4>1. i # 0 => f[i - 1] \in Int
        BY <2>1, <2>2
      <4> HIDE DEF n
      <4> QED BY <1>0, <4>1
    <3>2. 0 \in 0..(n + 1)
      BY <1>0
    <3> QED BY <3>1, <3>2
  <2>4. ASSUME NEW i \in 1..(n + 1) PROVE g[i] = g[i - 1] + w[i]
    <3>1. i \in 0..(n + 1) /\ i - 1 \in 0..(n + 1) /\ i # 0 /\ i - 1 \in 0..n
      BY <1>0
    <3>2. CASE i = 1
      <4>1. f[0] = 0
        BY <1>1 DEF RunsTo
      <4> QED BY <1>0, <3>1, <3>2, <4>1
    <3>3. CASE i # 1
      <4>1. i - 1 \in 1..n /\ i - 1 # 0 /\ (i - 1) + 1 = i /\ (i - 1) - 1 \in 0..n
        BY <1>0, <3>1, <3>3
      <4>2. w[i] = v[i - 1]
        BY <4>1
      <4>3. f[i - 1] = f[(i - 1) - 1] + v[i - 1]
        BY <1>1, <4>1 DEF RunsTo
      <4>4. v[i - 1] \in Int /\ f[(i - 1) - 1] \in Int
        BY <2>1, <4>1
      <4>5. g[i] = w[1] + f[i - 1] /\ g[i - 1] = w[1] + f[(i - 1) - 1]
        BY <3>1, <4>1
      <4> HIDE DEF g, n
      <4> QED BY <1>0, <4>2, <4>3, <4>4, <4>5, SMTT(30)
    <3> QED BY <3>2, <3>3
  <2> QED BY <2>3, <2>4 DEF RunsTo
<1>3. SumOf(w) = g[n + 1]
  <2> HIDE DEF g
  <2> QED BY <1>0, <1>2, SumIsLastRun
<1>4. n + 1 \in 0..(n + 1) /\ n + 1 # 0 /\ (n + 1) - 1 = n
  BY <1>0
<1> QED BY <1>1, <1>3, <1>4

\* Smaller numbers have a smaller total; the first n numbers of w against as many of v.
LEMMA SumMonotone ==
  ASSUME NEW v \in Seq(Int), NEW w \in Seq(Int), Len(v) <= Len(w),
         \A i \in 1..Len(v) : v[i] <= w[i],
         \A i \in (Len(v) + 1)..Len(w) : 0 <= w[i]
  PROVE  SumOf(v) <= SumOf(w)
<1> DEFINE m == Len(v)
<1> DEFINE n == Len(w)
<1>0. m \in Nat /\ n \in Nat /\ m <= n
  OBVIOUS
<1>1. PICK f : RunsTo(v, m, f) /\ SumOf(v) = f[m]
  BY SumRuns
<1>2. PICK g : RunsTo(w, n, g) /\ SumOf(w) = g[n]
  BY SumRuns
<1>3. (\A i \in 0..m : f[i] \in Int) /\ (\A i \in 0..n : g[i] \in Int)
  BY <1>1, <1>2 DEF RunsTo
<1> DEFINE T == {k \in 0..n : IF k <= m THEN f[k] <= g[k] ELSE f[m] <= g[k]}
<1>4. 0 \in T
  BY <1>0, <1>1, <1>2 DEF RunsTo
<1>5. ASSUME NEW k \in 0..(n - 1), k \in T PROVE k + 1 \in T
  <2>1. k \in 0..n /\ k + 1 \in 1..n /\ k + 1 \in 0..n /\ (k + 1) - 1 = k
    BY <1>0
  <2>2. g[k + 1] = g[k] + w[k + 1] /\ w[k + 1] \in Int /\ g[k] \in Int /\ g[k + 1] \in Int
    BY <1>2, <1>3, <2>1 DEF RunsTo
  <2>3. CASE k + 1 <= m
    <3>1. k \in 0..m /\ k + 1 \in 1..m /\ k <= m
      BY <1>0, <2>1, <2>3
    <3>2. f[k + 1] = f[k] + v[k + 1] /\ v[k + 1] \in Int /\ f[k] \in Int /\ v[k + 1] <= w[k + 1]
      BY <1>1, <1>3, <2>1, <3>1, SMTT(30) DEF RunsTo
    <3>3. f[k] <= g[k]
      BY <1>5, <3>1
    <3> QED BY <2>1, <2>2, <2>3, <3>2, <3>3, SMTT(30)
  <2>4. CASE ~(k + 1 <= m)
    <3>1. k + 1 \in (m + 1)..n /\ 0 <= w[k + 1]
      BY <1>0, <2>1, <2>4
    <3>2. f[m] <= g[k] /\ f[m] \in Int
      <4>1. m \in 0..m /\ (k <= m => k = m)
        BY <1>0, <2>1, <2>4
      <4> QED BY <1>3, <1>5, <4>1
    <3> HIDE DEF m, n
    <3> QED BY <2>1, <2>2, <2>4, <3>1, <3>2
  <2> QED BY <2>3, <2>4
<1> HIDE DEF T
<1>6. 0..n \subseteq T
  BY <1>0, <1>4, <1>5, InductionUpTo
<1>7. n \in T
  BY <1>0, <1>6
<1>8. IF n <= m THEN f[n] <= g[n] ELSE f[m] <= g[n]
  BY <1>7 DEF T
<1> QED BY <1>0, <1>1, <1>2, <1>8

-----------------------------------------------------------------------------
(***************************************************************************)
(* Functions defined by recursion on 0..n, in steps that are given as a    *)
(* sequence of functions from a set to itself.                             *)
(***************************************************************************)
Chain(G, s, n, f) == f[0] = s /\ \A i \in 1..n : f[i] = G[i][f[i - 1]]

LEMMA StaysIn ==
  ASSUME NEW n \in Nat, NEW S, NEW f, f[0] \in S,
         \A i \in 1..n : f[i - 1] \in S => f[i] \in S
  PROVE  \A i \in 0..n : f[i] \in S
<1> DEFINE T == {k \in 0..n : f[k] \in S}
<1>1. 0 \in T
  OBVIOUS
<1>2. ASSUME NEW k \in 0..(n - 1), k \in T PROVE k + 1 \in T
  <2>1. k + 1 \in 1..n /\ (k + 1) - 1 = k /\ k + 1 \in 0..n
    OBVIOUS
  <2> QED BY <1>2, <2>1
<1> HIDE DEF T
<1>3. 0..n \subseteq T
  BY <1>1, <1>2, InductionUpTo
<1> QED BY <1>3 DEF T

\* Two functions that agree at 0, and go on agreeing, agree.
LEMMA AgreeUpTo ==
  ASSUME NEW n \in Nat, NEW f, NEW g, f[0] = g[0],
         \A i \in 1..n : f[i - 1] = g[i - 1] => f[i] = g[i]
  PROVE  \A i \in 0..n : f[i] = g[i]
<1> DEFINE T == {k \in 0..n : f[k] = g[k]}
<1>1. 0 \in T
  OBVIOUS
<1>2. ASSUME NEW k \in 0..(n - 1), k \in T PROVE k + 1 \in T
  <2>1. k + 1 \in 1..n /\ (k + 1) - 1 = k /\ k + 1 \in 0..n
    OBVIOUS
  <2> QED BY <1>2, <2>1
<1> HIDE DEF T
<1>3. 0..n \subseteq T
  BY <1>1, <1>2, InductionUpTo
<1> QED BY <1>3 DEF T

Lockstep(n, f, g) == f[0] = g[0] /\ \A i \in 1..n : f[i - 1] = g[i - 1] => f[i] = g[i]

Agree(n, f, g) == \A i \in 0..n : f[i] = g[i]

LEMMA LockstepAgree ==
  ASSUME NEW n \in Nat, NEW f, NEW g, Lockstep(n, f, g)
  PROVE  Agree(n, f, g)
BY AgreeUpTo DEF Lockstep, Agree

LEMMA ChainExists ==
  ASSUME NEW n \in Nat, NEW S, NEW s \in S, NEW G \in [1..n -> [S -> S]]
  PROVE  \E f \in [0..n -> S] : Chain(G, s, n, f)
<1> DEFINE T == {k \in 0..n : \E f \in [0..k -> S] : Chain(G, s, k, f)}
<1>1. 0 \in T
  <2>1. [i \in 0..0 |-> s] \in [0..0 -> S] /\ Chain(G, s, 0, [i \in 0..0 |-> s])
    BY DEF Chain
  <2> QED BY <2>1
<1>2. ASSUME NEW k \in 0..(n - 1), k \in T PROVE k + 1 \in T
  <2>1. k \in 0..n /\ k + 1 \in 0..n /\ k + 1 \in 1..n /\ k \in Nat /\ k \in 0..k
    OBVIOUS
  <2>2. PICK g \in [0..k -> S] : Chain(G, s, k, g)
    BY <1>2
  <2>3. g[k] \in S /\ G[k + 1] \in [S -> S] /\ G[k + 1][g[k]] \in S
    BY <2>1, <2>2
  <2> DEFINE f == [i \in 0..(k + 1) |-> IF i = k + 1 THEN G[k + 1][g[k]] ELSE g[i]]
  <2>4. f \in [0..(k + 1) -> S]
    <3>1. \A i \in 0..(k + 1) : (IF i = k + 1 THEN G[k + 1][g[k]] ELSE g[i]) \in S
      <4> TAKE i \in 0..(k + 1)
      <4>1. i = k + 1 \/ i \in 0..k
        BY <2>1
      <4> QED BY <2>2, <2>3, <4>1
    <3> QED BY <3>1
  <2>5. f[0] = s
    BY <2>1, <2>2 DEF Chain
  <2>6. ASSUME NEW i \in 1..(k + 1) PROVE f[i] = G[i][f[i - 1]]
    <3>1. i \in 0..(k + 1) /\ i - 1 \in 0..(k + 1) /\ i - 1 # k + 1 /\ f[i - 1] = g[i - 1]
      BY <2>1
    <3>2. CASE i = k + 1
      BY <2>1, <3>1, <3>2
    <3>3. CASE i # k + 1
      <4>1. i \in 1..k
        BY <2>1, <3>3
      <4> QED BY <2>2, <3>1, <3>3, <4>1 DEF Chain
    <3> QED BY <3>2, <3>3
  <2>7. Chain(G, s, k + 1, f)
    BY <2>5, <2>6 DEF Chain
  <2> QED BY <2>1, <2>4, <2>7
<1> HIDE DEF T
<1>3. 0..n \subseteq T
  BY <1>1, <1>2, InductionUpTo
<1>4. n \in T
  BY <1>3
<1> QED BY <1>4 DEF T

-----------------------------------------------------------------------------
\* Quotient and remainder are the only ones.
LEMMA Position ==
  ASSUME NEW n \in Nat \ {0}, NEW q \in Int, NEW i \in 0..(n - 1)
  PROVE  (q * n + i) \div n = q /\ (q * n + i) % n = i
<1> DEFINE x == q * n + i
<1> DEFINE d == x \div n
<1> DEFINE r == x % n
<1>1. x \in Int /\ d \in Int /\ r \in Int /\ x = d * n + r /\ 0 <= r /\ r < n
  OBVIOUS
<1>2. q * n + i = d * n + r
  BY <1>1
<1> HIDE DEF x, d, r
<1>3. ~(d < q)
  <2> SUFFICES ASSUME d < q PROVE FALSE
    OBVIOUS
  <2>1. q - d >= 1 /\ (q - d) * n >= n
    BY <1>1
  <2>2. (q - d) * n = q * n - d * n
    BY <1>1
  <2> QED BY <1>1, <1>2, <2>1, <2>2
<1>4. ~(q < d)
  <2> SUFFICES ASSUME q < d PROVE FALSE
    OBVIOUS
  <2>1. d - q >= 1 /\ (d - q) * n >= n
    BY <1>1
  <2>2. (d - q) * n = d * n - q * n
    BY <1>1
  <2> QED BY <1>1, <1>2, <2>1, <2>2
<1>5. d = q
  BY <1>1, <1>3, <1>4
<1>6. r = i
  BY <1>1, <1>2, <1>5
<1> QED BY <1>5, <1>6 DEF d, r, x
=============================================================================

------------------------- MODULE HTTPParser_proofs --------------------------
(***************************************************************************)
(* That the parser delivers exactly what was sent, gives each response its *)
(* request and refuses only what it does not support or what breaks off,   *)
(* for all messages that are framed as their length says, whatever they    *)
(* are and wherever the reads end.                                         *)
(*                                                                         *)
(* The stream is f = Full(Ms), the message n + 1 is between Base(Ms, n)    *)
(* and Base(Ms, n + 1), and everything the parser holds is a window of f:  *)
(* the invariant says which, in each state of the message.                 *)
(***************************************************************************)
EXTENDS HTTPParser, Sums_proofs

-----------------------------------------------------------------------------
(***************************************************************************)
(* A window of a stream f: b is what it has after its first i tokens, up   *)
(* to the j-th.                                                            *)
(***************************************************************************)
Window(b, f, i, j) ==
  /\ b \in Seq(Tokens) /\ f \in Seq(Tokens)
  /\ i \in Nat /\ j \in Nat /\ i <= j /\ j <= Len(f)
  /\ Len(b) = j - i
  /\ \A k \in 1 .. j - i : b[k] = f[i + k]

LEMMA EmptyWindow ==
  ASSUME NEW f \in Seq(Tokens), NEW i \in Nat, i <= Len(f)
  PROVE  Window(<<>>, f, i, i)
BY DEF Window

LEMMA SameWindow ==
  ASSUME NEW a, NEW b, NEW f, NEW i, NEW j, Window(a, f, i, j), Window(b, f, i, j)
  PROVE  a = b
<1>1. DOMAIN a = 1 .. j - i /\ DOMAIN b = 1 .. j - i
  BY DEF Window
<1>2. a = [k \in 1 .. j - i |-> a[k]] /\ b = [k \in 1 .. j - i |-> b[k]]
  BY <1>1 DEF Window
<1>3. \A k \in 1 .. j - i : a[k] = b[k]
  BY DEF Window
<1> QED BY <1>2, <1>3

LEMMA SubSeqIsWindow ==
  ASSUME NEW f \in Seq(Tokens), NEW i \in Nat, NEW j \in Nat, i <= j, j <= Len(f)
  PROVE  Window(SubSeq(f, i + 1, j), f, i, j)
BY DEF Window

LEMMA JoinedWindows ==
  ASSUME NEW a, NEW b, NEW f, NEW i, NEW j, NEW k, Window(a, f, i, j), Window(b, f, j, k)
  PROVE  Window(a \o b, f, i, k)
<1>1. a \o b \in Seq(Tokens) /\ Len(a \o b) = k - i
  <2>1. a \o b \in Seq(Tokens) /\ Len(a \o b) = Len(a) + Len(b)
    BY SMTT(30) DEF Window
  <2> QED BY <2>1 DEF Window
<1>2. ASSUME NEW m \in 1 .. k - i PROVE (a \o b)[m] = f[i + m]
  <2>1. CASE m <= j - i
    BY <2>1 DEF Window
  <2>2. CASE m > j - i
    <3>1. (a \o b)[m] = b[m - (j - i)] /\ m - (j - i) \in 1 .. k - j
      BY <2>2, SMTT(30) DEF Window
    <3>2. f[j + (m - (j - i))] = f[i + m]
      BY <2>2 DEF Window
    <3> QED BY <3>1, <3>2 DEF Window
  <2>3. m <= j - i \/ m > j - i
    BY DEF Window
  <2> QED BY <2>1, <2>2, <2>3
<1> QED BY <1>1, <1>2 DEF Window

LEMMA PartOfWindow ==
  ASSUME NEW b, NEW f, NEW i, NEW j, Window(b, f, i, j),
         NEW x \in Nat, NEW y \in Nat, x <= y, y <= j - i
  PROVE  Window(SubSeq(b, x + 1, y), f, i + x, i + y)
<1> DEFINE s == SubSeq(b, x + 1, y)
<1>1. s \in Seq(Tokens) /\ Len(s) = (i + y) - (i + x)
  BY DEF Window
<1>2. ASSUME NEW k \in 1 .. (i + y) - (i + x) PROVE s[k] = f[(i + x) + k]
  <2>1. s[k] = b[x + k] /\ x + k \in 1 .. j - i
    BY SMTT(30) DEF Window
  <2>2. b[x + k] = f[i + (x + k)] /\ i + (x + k) = (i + x) + k
    BY <2>1 DEF Window
  <2> QED BY <2>1, <2>2
<1>3. /\ i + x \in Nat /\ i + y \in Nat /\ i + x <= i + y /\ i + y <= Len(f) /\ f \in Seq(Tokens)
  BY DEF Window
<1> HIDE DEF s
<1>4. Window(s, f, i + x, i + y)
  BY <1>1, <1>2, <1>3 DEF Window
<1> QED BY <1>4 DEF s

LEMMA PoppedWindow ==
  ASSUME NEW b, NEW f, NEW i, NEW j, Window(b, f, i, j), NEW x \in Nat, x <= j - i
  PROVE  Window(PopBytes(b, x), f, i + x, j)
<1>1. Len(b) = j - i /\ j - i \in Nat /\ i + (j - i) = j
  BY DEF Window
<1>2. Window(SubSeq(b, x + 1, j - i), f, i + x, i + (j - i))
  BY <1>1, PartOfWindow
<1> QED BY <1>1, <1>2 DEF PopBytes

-----------------------------------------------------------------------------
(***************************************************************************)
(* Find, when t ends what there will be: rest ends with the first t in it. *)
(***************************************************************************)
At(s, t, i) == SubSeq(s, i, i + Len(t) - 1) = t

EndsWithFirst(rest, t, z) ==
  /\ rest \in Seq(Tokens) /\ t \in Seq(Tokens) /\ t # <<>>
  /\ z \in Nat \ {0} /\ Len(rest) = z + Len(t) - 1
  /\ At(rest, t, z)
  /\ \A i \in 1 .. z - 1 : ~At(rest, t, i)

LEMMA FindIsFirst ==
  ASSUME NEW s \in Seq(Tokens), NEW t \in Seq(Tokens), t # <<>>
  PROVE  LET places == {i \in 1 .. Len(s) - Len(t) + 1 : At(s, t, i)}
         IN  /\ places = {} => Find(s, t) = 0
             /\ places # {} => Find(s, t) \in places /\ \A i \in places : Find(s, t) <= i
<1> DEFINE places == {i \in 1 .. Len(s) - Len(t) + 1 : At(s, t, i)}
<1>1. places = {i \in 1 .. Len(s) - Len(t) + 1 : SubSeq(s, i, i + Len(t) - 1) = t}
  BY DEF At
<1>2. Find(s, t) = IF places = {} THEN 0 ELSE Min(places)
  BY <1>1 DEF Find
<1>3. places \subseteq Nat
  OBVIOUS
<1> HIDE DEF places
<1>4. ASSUME places # {} PROVE Min(places) \in places /\ \A i \in places : Min(places) <= i
  <2>1. \E x \in places : \A y \in places : x <= y
    BY <1>3, <1>4, LeastElement
  <2> QED BY <2>1 DEF Min
<1> QED BY <1>2, <1>4 DEF places

LEMMA FirstIsFound ==
  ASSUME NEW s \in Seq(Tokens), NEW t \in Seq(Tokens), t # <<>>,
         NEW z \in 1 .. Len(s) - Len(t) + 1, At(s, t, z), \A i \in 1 .. z - 1 : ~At(s, t, i)
  PROVE  Find(s, t) = z
<1> DEFINE places == {i \in 1 .. Len(s) - Len(t) + 1 : At(s, t, i)}
<1>1. z \in places
  OBVIOUS
<1>2. \A i \in places : z <= i
  OBVIOUS
<1>3. Find(s, t) \in places /\ Find(s, t) <= z
  BY <1>1, FindIsFirst
<1>4. z <= Find(s, t) /\ Find(s, t) \in Int
  BY <1>2, <1>3
<1> QED BY <1>3, <1>4

\* As far as it goes, b is the beginning of rest or rest the beginning of b.
Alike(b, rest) == \A i \in 1 .. Len(b) : i <= Len(rest) => b[i] = rest[i]

LEMMA AlikeAt ==
  ASSUME NEW b \in Seq(Tokens), NEW rest \in Seq(Tokens), NEW t \in Seq(Tokens), Alike(b, rest),
         NEW i \in Nat \ {0}, i + Len(t) - 1 <= Len(b), i + Len(t) - 1 <= Len(rest)
  PROVE  At(b, t, i) <=> At(rest, t, i)
<1> DEFINE m == i + Len(t) - 1
<1>1. m \in Nat /\ i <= m + 1 /\ m <= Len(b) /\ m <= Len(rest)
  OBVIOUS
<1> HIDE DEF m
<1>2. SubSeq(b, i, m) = [k \in 1 .. m - i + 1 |-> b[i + k - 1]]
  BY <1>1
<1>3. SubSeq(rest, i, m) = [k \in 1 .. m - i + 1 |-> rest[i + k - 1]]
  BY <1>1
<1>4. \A k \in 1 .. m - i + 1 : b[i + k - 1] = rest[i + k - 1]
  <2>1. \A k \in 1 .. m - i + 1 : i + k - 1 \in 1 .. Len(b) /\ i + k - 1 <= Len(rest)
    BY <1>1
  <2> QED BY <2>1 DEF Alike
<1>5. SubSeq(b, i, m) = SubSeq(rest, i, m)
  BY <1>2, <1>3, <1>4
<1> QED BY <1>5 DEF At, m

LEMMA FoundWhenHere ==
  ASSUME NEW b \in Seq(Tokens), NEW rest, NEW t, NEW z, EndsWithFirst(rest, t, z), Alike(b, rest)
  PROVE  Find(b, t) = IF Len(b) >= Len(rest) THEN z ELSE 0
<1> USE DEF EndsWithFirst
<1>1. \A i \in 1 .. z : i + Len(t) - 1 <= Len(rest)
  OBVIOUS
<1>2. \A i \in 1 .. z : i + Len(t) - 1 <= Len(b) => (At(b, t, i) <=> At(rest, t, i))
  BY <1>1, AlikeAt
<1>3. CASE Len(b) >= Len(rest)
  <2>1. z \in 1 .. Len(b) - Len(t) + 1 /\ At(b, t, z)
    BY <1>2, <1>3
  <2>2. \A i \in 1 .. z - 1 : ~At(b, t, i)
    BY <1>1, <1>2, <1>3
  <2> QED BY <1>3, <2>1, <2>2, FirstIsFound
<1>4. CASE Len(b) < Len(rest)
  <2>1. \A i \in 1 .. Len(b) - Len(t) + 1 : i \in 1 .. z - 1 /\ i + Len(t) - 1 <= Len(b)
    BY <1>4
  <2>2. \A i \in 1 .. Len(b) - Len(t) + 1 : ~At(b, t, i)
    BY <1>2, <2>1
  <2>3. {i \in 1 .. Len(b) - Len(t) + 1 : At(b, t, i)} = {}
    BY <2>2
  <2> QED BY <1>4, <2>3, FindIsFirst
<1> QED BY <1>3, <1>4

-----------------------------------------------------------------------------
(***************************************************************************)
(* FlattenSeq, by its beginnings.                                          *)
(***************************************************************************)
Flat(g, n) == FlattenSeq([i \in 1 .. n |-> g[i]])

LEMMA FlatIs ==
  ASSUME NEW n \in Nat \ {0}, NEW g, NEW f, f[0] = <<>>,
         \A i \in 1 .. n : f[i] = f[i - 1] \o g[i], g[1] \in Seq(Tokens)
  PROVE  Flat(g, n) = f[n]
<1> DEFINE s == [i \in 1 .. n |-> g[i]]
<1> DEFINE Def(h) == h = [i \in 1 .. n |-> IF i = 1 THEN s[i] ELSE h[i - 1] \o s[i]]
<1> DEFINE c == CHOOSE h : Def(h)
<1>1. s \in Seq({g[i] : i \in 1 .. n}) /\ Len(s) = n /\ n # 0
  OBVIOUS
<1>2. Flat(g, n) = c[n]
  BY <1>1 DEF Flat, FlattenSeq
<1>3. f[1] = g[1]
  <2>1. 1 \in 1 .. n /\ 1 - 1 = 0
    OBVIOUS
  <2>2. f[1] = f[0] \o g[1]
    BY <2>1
  <2> QED BY <2>2
<1>4. Def([i \in 1 .. n |-> f[i]])
  <2> DEFINE h == [i \in 1 .. n |-> f[i]]
  <2>1. ASSUME NEW i \in 1 .. n PROVE h[i] = IF i = 1 THEN s[i] ELSE h[i - 1] \o s[i]
    <3>1. h[i] = f[i] /\ s[i] = g[i] /\ f[i] = f[i - 1] \o g[i]
      OBVIOUS
    <3>2. i # 1 => i - 1 \in 1 .. n /\ h[i - 1] = f[i - 1]
      OBVIOUS
    <3> QED BY <1>3, <3>1, <3>2
  <2> QED BY <2>1
<1>5. Def(c)
  BY <1>4
<1> HIDE DEF c
<1>6. \A i \in 1 .. n : c[i] = IF i = 1 THEN s[i] ELSE c[i - 1] \o s[i]
  BY <1>5
<1> DEFINE u == [k \in 0 .. n - 1 |-> c[k + 1]]
           v == [k \in 0 .. n - 1 |-> f[k + 1]]
<1>7. u[0] = v[0]
  BY <1>3, <1>6
<1>8. ASSUME NEW k \in 1 .. n - 1, u[k - 1] = v[k - 1] PROVE u[k] = v[k]
  <2>1. k + 1 \in 1 .. n /\ k + 1 # 1 /\ (k + 1) - 1 = k /\ (k - 1) + 1 = k /\ k - 1 \in 0 .. n - 1 /\ k \in 0 .. n - 1
    OBVIOUS
  <2>2. c[k] = f[k]
    BY <1>8, <2>1
  <2>3. c[k + 1] = c[k] \o s[k + 1] /\ s[k + 1] = g[k + 1]
    BY <1>6, <2>1
  <2>4. f[k + 1] = f[k] \o g[k + 1]
    BY <2>1
  <2> QED BY <2>1, <2>2, <2>3, <2>4
<1> HIDE DEF u, v
<1>9. n - 1 \in Nat /\ n - 1 \in 0 .. n - 1 /\ (n - 1) + 1 = n
  OBVIOUS
<1>10. u[n - 1] = v[n - 1]
  <2>1. Lockstep(n - 1, u, v)
    BY <1>7, <1>8 DEF Lockstep
  <2>2. Agree(n - 1, u, v)
    BY <1>9, <2>1, LockstepAgree
  <2> QED BY <1>9, <2>2 DEF Agree
<1>11. c[n] = f[n]
  BY <1>9, <1>10 DEF u, v
<1> QED BY <1>2, <1>11

LEMMA FlatGrows ==
  ASSUME NEW N \in Nat, NEW g, \A i \in 1 .. N : g[i] \in Seq(Tokens)
  PROVE  /\ Flat(g, 0) = <<>>
         /\ \A n \in 0 .. N : Flat(g, n) \in Seq(Tokens)
         /\ \A n \in 1 .. N : Flat(g, n) = Flat(g, n - 1) \o g[n]
<1> DEFINE S == Seq(Tokens)
           G == [i \in 1 .. N |-> [q \in S |-> q \o g[i]]]
<1>1. G \in [1 .. N -> [S -> S]]
  <2>1. \A i \in 1 .. N : \A q \in S : q \o g[i] \in S
    OBVIOUS
  <2> QED BY <2>1
<1>2. <<>> \in S
  OBVIOUS
<1> HIDE DEF G
<1>3. PICK f \in [0 .. N -> S] : Chain(G, <<>>, N, f)
  BY <1>1, <1>2, ChainExists
<1>4. f[0] = <<>> /\ \A i \in 1 .. N : f[i] = f[i - 1] \o g[i]
  <2>1. \A i \in 1 .. N : i - 1 \in 0 .. N /\ f[i - 1] \in S
    OBVIOUS
  <2>2. \A i \in 1 .. N : f[i] = G[i][f[i - 1]]
    BY <1>3 DEF Chain
  <2>3. \A i \in 1 .. N : G[i][f[i - 1]] = f[i - 1] \o g[i]
    BY <2>1 DEF G
  <2> QED BY <1>3, <2>2, <2>3 DEF Chain
<1>5. Flat(g, 0) = <<>>
  <2>1. [i \in 1 .. 0 |-> g[i]] = <<>>
    OBVIOUS
  <2> QED BY <2>1 DEF Flat, FlattenSeq
<1>6. ASSUME NEW n \in 0 .. N PROVE Flat(g, n) = f[n]
  <2>1. CASE n = 0
    BY <1>4, <1>5, <2>1
  <2>2. CASE n # 0
    <3>1. n \in Nat \ {0} /\ 1 \in 1 .. N /\ \A i \in 1 .. n : i \in 1 .. N
      BY <2>2
    <3>2. g[1] \in Seq(Tokens) /\ \A i \in 1 .. n : f[i] = f[i - 1] \o g[i]
      BY <1>4, <3>1
    <3> QED BY <1>4, <3>1, <3>2, FlatIs
  <2> QED BY <2>1, <2>2
<1>7. \A n \in 1 .. N : n - 1 \in 0 .. N /\ n \in 0 .. N
  OBVIOUS
<1> QED BY <1>4, <1>5, <1>6, <1>7

-----------------------------------------------------------------------------
(***************************************************************************)
(* A message on the wire.                                                  *)
(***************************************************************************)
HeaderLine(m) == [i \in DOMAIN m.headers |-> <<m.headers[i]>> \o CRLF]

\* What a sequence of lines w consists of.
LinesOf(w, h, n) ==
  /\ w \in Seq(Tokens) /\ Len(w) = 3 * n
  /\ \A k \in 1 .. n : w[3 * k - 2] = h[k] /\ w[3 * k - 1] = "cr" /\ w[3 * k] = "lf"

\* c is made of the x tokens of a and the y tokens of b.
Joined(c, a, x, b, y) ==
  /\ c \in Seq(Tokens) /\ Len(c) = x + y
  /\ \A i \in 1 .. x : c[i] = a[i]
  /\ \A i \in 1 .. y : c[x + i] = b[i]

LEMMA JoinedParts ==
  ASSUME NEW a \in Seq(Tokens), NEW b \in Seq(Tokens), NEW x \in Nat, NEW y \in Nat, Len(a) = x, Len(b) = y
  PROVE  Joined(a \o b, a, x, b, y)
<1>1. a \o b \in Seq(Tokens) /\ Len(a \o b) = x + y
  OBVIOUS
<1>2. \A i \in 1 .. x : (a \o b)[i] = a[i]
  OBVIOUS
<1>3. \A i \in 1 .. y : (a \o b)[x + i] = b[i]
  OBVIOUS
<1> QED BY <1>1, <1>2, <1>3 DEF Joined

LEMMA LineEnd ==
  CRLF \in Seq(Tokens) /\ Len(CRLF) = 2 /\ CRLF[1] = "cr" /\ CRLF[2] = "lf"
<1>1. "cr" \in Tokens /\ "lf" \in Tokens
  BY DEF Tokens
<1> QED BY <1>1 DEF CRLF

LEMMA LineIs ==
  ASSUME NEW x \in Tokens
  PROVE  LET l == <<x>> \o CRLF
         IN  l \in Seq(Tokens) /\ Len(l) = 3 /\ l[1] = x /\ l[2] = "cr" /\ l[3] = "lf"
<1> DEFINE y == <<x>>
           l == y \o CRLF
<1>1. y \in Seq(Tokens) /\ Len(y) = 1 /\ y[1] = x
  OBVIOUS
<1> HIDE DEF y
<1>2. Joined(l, y, 1, CRLF, 2)
  BY <1>1, LineEnd, JoinedParts
<1> HIDE DEF l
<1>3. l \in Seq(Tokens) /\ Len(l) = 3 /\ l[1] = x /\ l[2] = "cr" /\ l[3] = "lf"
  <2>1. l[1] = y[1] /\ l[1 + 1] = CRLF[1] /\ l[1 + 2] = CRLF[2]
    BY <1>2 DEF Joined
  <2> QED BY <1>1, <1>2, <2>1, LineEnd DEF Joined
<1> QED BY <1>3 DEF l, y

LEMMA LineAdded ==
  ASSUME NEW w, NEW h, NEW n \in Nat, LinesOf(w, h, n), h[n + 1] \in Tokens
  PROVE  LinesOf(w \o (<<h[n + 1]>> \o CRLF), h, n + 1)
<1> DEFINE l == <<h[n + 1]>> \o CRLF
           v == w \o l
<1>1. l \in Seq(Tokens) /\ Len(l) = 3 /\ l[1] = h[n + 1] /\ l[2] = "cr" /\ l[3] = "lf"
  BY LineIs
<1> HIDE DEF l
<1>2. w \in Seq(Tokens) /\ Len(w) = 3 * n
  BY DEF LinesOf
<1>3. /\ v \in Seq(Tokens) /\ Len(v) = 3 * n + 3
      /\ \A i \in 1 .. 3 * n : v[i] = w[i]
      /\ \A i \in 1 .. 3 : v[3 * n + i] = l[i]
  <2> DEFINE x == 3 * n
  <2>1. x \in Nat /\ Len(w) = x
    BY <1>2
  <2> HIDE DEF x
  <2>2. Joined(v, w, x, l, 3)
    BY <1>1, <1>2, <2>1, JoinedParts
  <2> QED BY <2>2 DEF Joined, x
<1> HIDE DEF v
<1>4. ASSUME NEW k \in 1 .. n + 1 PROVE v[3 * k - 2] = h[k] /\ v[3 * k - 1] = "cr" /\ v[3 * k] = "lf"
  <2>1. CASE k <= n
    <3>1. k \in 1 .. n /\ 3 * k - 2 \in 1 .. 3 * n /\ 3 * k - 1 \in 1 .. 3 * n /\ 3 * k \in 1 .. 3 * n
      BY <2>1
    <3> QED BY <1>3, <3>1 DEF LinesOf
  <2>2. CASE k = n + 1
    <3>1. 3 * k - 2 = 3 * n + 1 /\ 3 * k - 1 = 3 * n + 2 /\ 3 * k = 3 * n + 3
      BY <2>2
    <3>2. v[3 * n + 1] = l[1] /\ v[3 * n + 2] = l[2] /\ v[3 * n + 3] = l[3]
      BY <1>3
    <3>3. v[3 * k - 2] = l[1] /\ v[3 * k - 1] = l[2] /\ v[3 * k] = l[3]
      BY <3>1, <3>2
    <3> QED BY <1>1, <2>2, <3>3
  <2>3. k <= n \/ k = n + 1
    OBVIOUS
  <2> QED BY <2>1, <2>2, <2>3
<1>5. Len(v) = 3 * (n + 1)
  BY <1>3
<1>6. LinesOf(v, h, n + 1)
  BY <1>3, <1>4, <1>5 DEF LinesOf
<1> QED BY <1>6 DEF v, l

LEMMA HeaderLines ==
  ASSUME NEW h \in Seq(Tokens)
  PROVE  LinesOf(FlattenSeq([i \in DOMAIN h |-> <<h[i]>> \o CRLF]), h, Len(h))
<1> DEFINE N == Len(h)
           g == [i \in 1 .. N |-> <<h[i]>> \o CRLF]
           T == {n \in 0 .. N : LinesOf(Flat(g, n), h, n)}
<1>1. N \in Nat /\ DOMAIN h = 1 .. N /\ \A i \in 1 .. N : h[i] \in Tokens
  OBVIOUS
<1>2. \A i \in 1 .. N : g[i] \in Seq(Tokens) /\ g[i] = <<h[i]>> \o CRLF
  BY <1>1, LineIs
<1>3. [i \in DOMAIN h |-> <<h[i]>> \o CRLF] = [i \in 1 .. N |-> g[i]]
  BY <1>1
<1> HIDE DEF g, N
<1>4. /\ Flat(g, 0) = <<>>
      /\ \A n \in 1 .. N : Flat(g, n) = Flat(g, n - 1) \o g[n]
  BY <1>1, <1>2, FlatGrows
<1>5. 0 \in T
  <2>1. LinesOf(<<>>, h, 0)
    BY DEF LinesOf
  <2> QED BY <1>1, <1>4, <2>1
<1>6. ASSUME NEW n \in 0 .. N - 1, n \in T PROVE n + 1 \in T
  <2>1. n + 1 \in 1 .. N /\ n + 1 \in 0 .. N /\ (n + 1) - 1 = n /\ n \in Nat
    BY <1>1
  <2>2. Flat(g, n + 1) = Flat(g, n) \o (<<h[n + 1]>> \o CRLF)
    BY <1>2, <1>4, <2>1
  <2>3. LinesOf(Flat(g, n) \o (<<h[n + 1]>> \o CRLF), h, n + 1)
    BY <1>1, <1>6, <2>1, LineAdded
  <2> QED BY <2>1, <2>2, <2>3
<1> HIDE DEF T
<1>7. 0 .. N \subseteq T
  BY <1>1, <1>5, <1>6, InductionUpTo
<1>8. LinesOf(Flat(g, N), h, N)
  BY <1>1, <1>7 DEF T
<1> QED BY <1>3, <1>8 DEF Flat, N

\* The length of a message's head.
HeadLen(m) == 3 * Len(m.headers) + 5

IsMessage(m) == m.first \in Tokens /\ m.headers \in Seq(Tokens) /\ m.body \in Seq(Tokens)

\* The parts of a message that starts after the first i tokens of f.
PartsAt(f, i, m) ==
  /\ f[i + 1] = m.first /\ f[i + 2] = "cr" /\ f[i + 3] = "lf"
  /\ \A k \in 1 .. Len(m.headers) :
       f[i + 3 * k + 1] = m.headers[k] /\ f[i + 3 * k + 2] = "cr" /\ f[i + 3 * k + 3] = "lf"
  /\ f[i + HeadLen(m) - 1] = "cr" /\ f[i + HeadLen(m)] = "lf"
  /\ \A k \in 1 .. Len(m.body) : f[i + HeadLen(m) + k] = m.body[k]

LEMMA WireParts ==
  ASSUME NEW m, IsMessage(m)
  PROVE  /\ Wire(m) \in Seq(Tokens) /\ Len(Wire(m)) = HeadLen(m) + Len(m.body)
         /\ HeadOf(m) \in Seq(Tokens) /\ Len(HeadOf(m)) = HeadLen(m)
         /\ PartsAt(Wire(m), 0, m)
<1> DEFINE H == Len(m.headers)
           l == FlattenSeq([i \in DOMAIN m.headers |-> <<m.headers[i]>> \o CRLF])
           first == <<m.first>> \o CRLF
           a == first \o l
           h == a \o CRLF
           w == h \o m.body
<1>1. LinesOf(l, m.headers, H) /\ H \in Nat
  <2>1. m.headers \in Seq(Tokens)
    BY DEF IsMessage
  <2>2. LinesOf(l, m.headers, H)
    BY <2>1, HeaderLines
  <2> QED BY <2>1, <2>2
<1>2. first \in Seq(Tokens) /\ Len(first) = 3
  BY LineIs DEF IsMessage
<1>3. first[1] = m.first /\ first[2] = "cr" /\ first[3] = "lf"
  BY LineIs DEF IsMessage
<1>4. h = HeadOf(m) /\ w = Wire(m)
  <2> DEFINE c == CRLF
  <2>1. c \in Seq(Tokens) /\ c = CRLF
    BY LineEnd
  <2>2. HeadOf(m) = ((<<m.first>> \o c) \o l) \o c
    BY DEF HeadOf
  <2> QED BY <2>2 DEF Wire
<1> HIDE DEF l, first
<1>5. l \in Seq(Tokens) /\ Len(l) = 3 * H
  BY <1>1 DEF LinesOf
<1>6. /\ a \in Seq(Tokens) /\ Len(a) = 3 + 3 * H
      /\ \A i \in 1 .. 3 : a[i] = first[i]
      /\ \A i \in 1 .. 3 * H : a[3 + i] = l[i]
  <2> DEFINE x == 3 * H
  <2>1. x \in Nat /\ Len(l) = x
    BY <1>1, <1>5
  <2> HIDE DEF x
  <2>2. Joined(a, first, 3, l, x)
    BY <1>2, <1>5, <2>1, JoinedParts
  <2> QED BY <2>2 DEF Joined, x
<1> HIDE DEF a
<1>7. /\ h \in Seq(Tokens) /\ Len(h) = 3 * H + 5
      /\ \A i \in 1 .. 3 + 3 * H : h[i] = a[i]
      /\ \A i \in 1 .. 2 : h[3 + 3 * H + i] = CRLF[i]
  <2> DEFINE x == 3 + 3 * H
  <2>1. x \in Nat /\ Len(a) = x /\ x + 2 = 3 * H + 5
    BY <1>1, <1>6
  <2> HIDE DEF x
  <2>2. Joined(h, a, x, CRLF, 2)
    BY <1>6, <2>1, LineEnd, JoinedParts
  <2> QED BY <2>1, <2>2 DEF Joined, x
<1> HIDE DEF h
<1>8. m.body \in Seq(Tokens) /\ Len(m.body) \in Nat
  BY DEF IsMessage
<1>9. /\ w \in Seq(Tokens) /\ Len(w) = 3 * H + 5 + Len(m.body)
      /\ \A i \in 1 .. 3 * H + 5 : w[i] = h[i]
      /\ \A i \in 1 .. Len(m.body) : w[3 * H + 5 + i] = m.body[i]
  <2>1. Joined(w, h, 3 * H + 5, m.body, Len(m.body))
    BY <1>1, <1>7, <1>8, JoinedParts
  <2> QED BY <2>1 DEF Joined
<1> HIDE DEF w
<1>10. w[1] = m.first /\ w[2] = "cr" /\ w[3] = "lf"
  <2>1. ASSUME NEW i \in 1 .. 3 PROVE w[i] = first[i]
    <3>1. i \in 1 .. 3 * H + 5 /\ i \in 1 .. 3 + 3 * H
      BY <1>1
    <3> QED BY <1>6, <1>7, <1>9, <3>1
  <2> QED BY <1>3, <2>1
<1>11. ASSUME NEW k \in 1 .. H PROVE w[3 * k + 1] = m.headers[k] /\ w[3 * k + 2] = "cr" /\ w[3 * k + 3] = "lf"
  <2>1. \A i \in 1 .. 3 * H : w[3 + i] = l[i]
    <3> TAKE i \in 1 .. 3 * H
    <3>1. 3 + i \in 1 .. 3 * H + 5 /\ 3 + i \in 1 .. 3 + 3 * H
      BY <1>1
    <3> QED BY <1>6, <1>7, <1>9, <3>1
  <2>2. 3 * k - 2 \in 1 .. 3 * H /\ 3 * k - 1 \in 1 .. 3 * H /\ 3 * k \in 1 .. 3 * H
    BY <1>1
  <2>3. 3 + (3 * k - 2) = 3 * k + 1 /\ 3 + (3 * k - 1) = 3 * k + 2 /\ 3 + 3 * k = 3 * k + 3
    BY <1>1
  <2>4. l[3 * k - 2] = m.headers[k] /\ l[3 * k - 1] = "cr" /\ l[3 * k] = "lf"
    BY <1>1 DEF LinesOf
  <2> QED BY <2>1, <2>2, <2>3, <2>4
<1>12. w[3 * H + 4] = "cr" /\ w[3 * H + 5] = "lf"
  <2>1. h[3 + 3 * H + 1] = "cr" /\ h[3 + 3 * H + 2] = "lf"
    BY <1>7, LineEnd
  <2>2. 3 + 3 * H + 1 = 3 * H + 4 /\ 3 + 3 * H + 2 = 3 * H + 5 /\ 3 * H + 4 \in 1 .. 3 * H + 5 /\ 3 * H + 5 \in 1 .. 3 * H + 5
    BY <1>1
  <2> QED BY <1>9, <2>1, <2>2
<1>13. HeadLen(m) = 3 * H + 5
  BY DEF HeadLen
<1>14. PartsAt(w, 0, m)
  <2>1. 0 + 1 = 1 /\ 0 + 2 = 2 /\ 0 + 3 = 3 /\ 0 + HeadLen(m) - 1 = 3 * H + 4 /\ 0 + HeadLen(m) = 3 * H + 5
    BY <1>1, <1>13
  <2>2. \A k \in 1 .. H : 0 + 3 * k + 1 = 3 * k + 1 /\ 0 + 3 * k + 2 = 3 * k + 2 /\ 0 + 3 * k + 3 = 3 * k + 3
    BY <1>1
  <2>3. \A k \in 1 .. H :
          w[0 + 3 * k + 1] = m.headers[k] /\ w[0 + 3 * k + 2] = "cr" /\ w[0 + 3 * k + 3] = "lf"
    BY <1>11, <2>2
  <2>4. \A k \in 1 .. Len(m.body) : w[0 + HeadLen(m) + k] = m.body[k]
    BY <1>9, <1>13, <2>1
  <2>5. w[0 + 1] = m.first /\ w[0 + 2] = "cr" /\ w[0 + 3] = "lf"
    BY <1>10
  <2>6. w[0 + HeadLen(m) - 1] = "cr" /\ w[0 + HeadLen(m)] = "lf"
    BY <1>12, <2>1, Zenon
  <2> HIDE DEF w
  <2> QED BY <2>3, <2>4, <2>5, <2>6, Zenon DEF PartsAt
<1> QED BY <1>4, <1>7, <1>9, <1>13, <1>14

-----------------------------------------------------------------------------
(***************************************************************************)
(* The stream of the first n of the messages ms, of which there are N.     *)
(***************************************************************************)
StreamOf(ms, n) == FlattenSeq([i \in 1 .. n |-> Wire(ms[i])])

Base(ms, n) == Len(StreamOf(ms, n))

AreMessages(ms, N) == N \in Nat /\ \A i \in 1 .. N : IsMessage(ms[i])

LEMMA StreamGrows ==
  ASSUME NEW ms, NEW N, AreMessages(ms, N)
  PROVE  /\ StreamOf(ms, 0) = <<>>
         /\ \A n \in 0 .. N : StreamOf(ms, n) \in Seq(Tokens)
         /\ \A n \in 1 .. N : StreamOf(ms, n) = StreamOf(ms, n - 1) \o Wire(ms[n])
<1> DEFINE g == [i \in 1 .. N |-> Wire(ms[i])]
<1>1. N \in Nat /\ \A i \in 1 .. N : g[i] \in Seq(Tokens)
  BY WireParts DEF AreMessages
<1>2. \A n \in 0 .. N : StreamOf(ms, n) = Flat(g, n)
  <2> TAKE n \in 0 .. N
  <2>1. [i \in 1 .. n |-> Wire(ms[i])] = [i \in 1 .. n |-> g[i]]
    <3>1. \A i \in 1 .. n : i \in 1 .. N
      BY <1>1
    <3> QED BY <3>1
  <2> QED BY <2>1 DEF StreamOf, Flat
<1>3. \A i \in 1 .. N : g[i] = Wire(ms[i])
  OBVIOUS
<1> HIDE DEF g
<1>4. /\ Flat(g, 0) = <<>>
      /\ \A n \in 0 .. N : Flat(g, n) \in Seq(Tokens)
      /\ \A n \in 1 .. N : Flat(g, n) = Flat(g, n - 1) \o g[n]
  BY <1>1, FlatGrows
<1>5. 0 \in 0 .. N /\ \A n \in 1 .. N : n - 1 \in 0 .. N /\ n \in 0 .. N
  BY <1>1
<1> QED BY <1>2, <1>3, <1>4, <1>5

LEMMA NextMessage ==
  ASSUME NEW ms, NEW N, AreMessages(ms, N), NEW n \in 1 .. N
  PROVE  /\ Joined(StreamOf(ms, n), StreamOf(ms, n - 1), Base(ms, n - 1),
                   Wire(ms[n]), HeadLen(ms[n]) + Len(ms[n].body))
         /\ Base(ms, n - 1) \in Nat /\ Base(ms, n) \in Nat
         /\ Base(ms, n) = Base(ms, n - 1) + HeadLen(ms[n]) + Len(ms[n].body)
         /\ HeadLen(ms[n]) \in Nat /\ HeadLen(ms[n]) >= 5 /\ Len(ms[n].body) \in Nat
<1> DEFINE a == StreamOf(ms, n - 1)
           b == Wire(ms[n])
           x == Len(a)
           y == Len(b)
<1>1. n - 1 \in 0 .. N /\ n \in 0 .. N /\ IsMessage(ms[n])
  BY DEF AreMessages
<1>2. a \in Seq(Tokens) /\ StreamOf(ms, n) = a \o b
  BY <1>1, StreamGrows
<1>3. b \in Seq(Tokens) /\ y = HeadLen(ms[n]) + Len(ms[n].body)
  BY <1>1, WireParts
<1>4. x \in Nat /\ y \in Nat
  BY <1>2, <1>3
<1>5. HeadLen(ms[n]) \in Nat /\ HeadLen(ms[n]) >= 5 /\ Len(ms[n].body) \in Nat
  <2>1. Len(ms[n].headers) \in Nat
    BY <1>1 DEF IsMessage
  <2>2. Len(ms[n].body) \in Nat
    BY <1>1 DEF IsMessage
  <2> QED BY <2>1, <2>2 DEF HeadLen
<1>6. Joined(a \o b, a, x, b, y)
  BY <1>2, <1>3, <1>4, JoinedParts
<1>7. x = Base(ms, n - 1) /\ Base(ms, n) = x + y
  BY <1>2, <1>6 DEF Base, Joined
<1> HIDE DEF a, b, x, y
<1>8. Base(ms, n) = x + HeadLen(ms[n]) + Len(ms[n].body)
  BY <1>3, <1>4, <1>5, <1>7, SMTT(30)
<1> QED BY <1>2, <1>3, <1>4, <1>5, <1>6, <1>7, <1>8, SMTT(30) DEF a, b

LEMMA BeginningOfStream ==
  ASSUME NEW ms, NEW N, AreMessages(ms, N), NEW n \in 0 .. N
  PROVE  Window(StreamOf(ms, n), StreamOf(ms, N), 0, Base(ms, n))
<1> DEFINE s == StreamOf(ms, n)
           T == {k \in 0 .. N : n <= k => Window(s, StreamOf(ms, k), 0, Len(s))}
<1>1. N \in Nat /\ s \in Seq(Tokens) /\ \A k \in 0 .. N : StreamOf(ms, k) \in Seq(Tokens)
  BY StreamGrows DEF AreMessages
<1>2. Window(s, s, 0, Len(s))
  BY <1>1 DEF Window
<1>3. 0 \in T
  <2>1. CASE n = 0
    BY <1>1, <1>2, <2>1
  <2>2. CASE n # 0
    BY <1>1, <2>2
  <2> QED BY <2>1, <2>2
<1>4. ASSUME NEW k \in 0 .. N - 1, k \in T PROVE k + 1 \in T
  <2>1. k + 1 \in 1 .. N /\ k + 1 \in 0 .. N /\ (k + 1) - 1 = k /\ k \in 0 .. N
    BY <1>1
  <2>2. CASE k + 1 <= n
    <3>1. k + 1 = n \/ ~(n <= k + 1)
      BY <2>1, <2>2
    <3> QED BY <1>2, <2>1, <3>1
  <2>3. CASE ~(k + 1 <= n)
    <3>1. n <= k
      BY <2>1, <2>3
    <3> DEFINE f == StreamOf(ms, k)
               h == StreamOf(ms, k + 1)
               x == Base(ms, k)
               y == HeadLen(ms[k + 1]) + Len(ms[k + 1].body)
    <3>2. Window(s, f, 0, Len(s))
      BY <1>4, <3>1
    <3>3. Joined(h, f, x, Wire(ms[k + 1]), y) /\ x \in Nat /\ y \in Nat
      BY <2>1, NextMessage, SMTT(30)
    <3>4. x = Len(f)
      BY DEF Base
    <3> HIDE DEF f, h, x, y
    <3>5. Window(s, h, 0, Len(s))
      <4>1. Len(s) <= Len(h) /\ h \in Seq(Tokens)
        BY <3>2, <3>3, <3>4 DEF Window, Joined
      <4>2. \A i \in 1 .. Len(s) - 0 : s[i] = h[0 + i]
        <5> TAKE i \in 1 .. Len(s) - 0
        <5>1. i \in 1 .. x /\ s[i] = f[0 + i] /\ 0 + i = i
          BY <1>1, <3>2, <3>3, <3>4 DEF Window
        <5> QED BY <3>3, <5>1 DEF Joined
      <4> QED BY <3>2, <4>1, <4>2 DEF Window
    <3> QED BY <2>1, <3>5 DEF h
  <2> QED BY <2>2, <2>3
<1> HIDE DEF T
<1>5. 0 .. N \subseteq T
  BY <1>1, <1>3, <1>4, InductionUpTo
<1>6. N \in T /\ n <= N
  BY <1>1, <1>5
<1> QED BY <1>6 DEF T, Base

LEMMA MessageInStream ==
  ASSUME NEW ms, NEW N, AreMessages(ms, N), NEW n \in 1 .. N
  PROVE  PartsAt(StreamOf(ms, N), Base(ms, n - 1), ms[n]) /\ Base(ms, n) <= Len(StreamOf(ms, N))
<1> DEFINE f == StreamOf(ms, N)
           s == StreamOf(ms, n)
           x == Base(ms, n - 1)
           y == HeadLen(ms[n]) + Len(ms[n].body)
           w == Wire(ms[n])
           m == ms[n]
           h == HeadLen(ms[n])
<1>1. n \in 0 .. N /\ IsMessage(m)
  BY DEF AreMessages
<1>2. Window(s, f, 0, Base(ms, n))
  BY <1>1, BeginningOfStream
<1>3. Joined(s, StreamOf(ms, n - 1), x, w, y) /\ x \in Nat /\ h \in Nat /\ h >= 5 /\ Len(m.body) \in Nat /\ y = h + Len(m.body)
  BY NextMessage
<1>4. PartsAt(w, 0, m)
  BY <1>1, WireParts
<1>5. Base(ms, n) = Len(s)
  BY DEF Base
<1>6. Len(m.headers) \in Nat /\ h = 3 * Len(m.headers) + 5
  BY <1>1 DEF IsMessage, HeadLen
<1>7. h = HeadLen(m)
  OBVIOUS
<1> HIDE DEF f, s, x, y, w, m, h
<1>8. \A i \in 1 .. y : f[x + i] = w[i]
  <2> TAKE i \in 1 .. y
  <2>1. s[x + i] = w[i]
    BY <1>3 DEF Joined
  <2>2. x + i \in 1 .. Len(s) - 0 /\ 0 + (x + i) = x + i
    BY <1>3 DEF Joined
  <2> QED BY <1>2, <1>5, <2>1, <2>2 DEF Window
<1>9. f[x + 1] = w[0 + 1] /\ f[x + 2] = w[0 + 2] /\ f[x + 3] = w[0 + 3]
  BY <1>3, <1>8
<1>10. ASSUME NEW k \in 1 .. Len(m.headers)
       PROVE  f[x + 3 * k + 1] = w[0 + 3 * k + 1] /\ f[x + 3 * k + 2] = w[0 + 3 * k + 2] /\ f[x + 3 * k + 3] = w[0 + 3 * k + 3]
  <2>1. 3 * k + 1 \in 1 .. y /\ 3 * k + 2 \in 1 .. y /\ 3 * k + 3 \in 1 .. y
    <3> DEFINE H == Len(m.headers)
    <3>1. k \in 1 .. H /\ H \in Nat /\ h = 3 * H + 5
      BY <1>6
    <3> HIDE DEF H
    <3>2. 3 * k + 5 <= h /\ k >= 1 /\ k \in Nat /\ h \in Nat
      BY <3>1
    <3>3. h <= y /\ y \in Nat
      BY <1>3
    <3> QED BY <3>2, <3>3
  <2>2. /\ x + (3 * k + 1) = x + 3 * k + 1 /\ x + (3 * k + 2) = x + 3 * k + 2 /\ x + (3 * k + 3) = x + 3 * k + 3
        /\ 0 + 3 * k + 1 = 3 * k + 1 /\ 0 + 3 * k + 2 = 3 * k + 2 /\ 0 + 3 * k + 3 = 3 * k + 3
    BY <1>3
  <2> QED BY <1>8, <2>1, <2>2
<1>11. f[x + h - 1] = w[0 + h - 1] /\ f[x + h] = w[0 + h]
  <2>1. h - 1 \in 1 .. y /\ h \in 1 .. y /\ x + (h - 1) = x + h - 1 /\ 0 + h - 1 = h - 1 /\ 0 + h = h
    BY <1>3
  <2> QED BY <1>8, <2>1
<1>12. ASSUME NEW k \in 1 .. Len(m.body) PROVE f[x + h + k] = w[0 + h + k]
  <2>1. h + k \in 1 .. y /\ x + (h + k) = x + h + k /\ 0 + h + k = h + k
    BY <1>3
  <2> QED BY <1>8, <2>1
<1>13. PartsAt(f, x, m)
  BY <1>4, <1>7, <1>9, <1>10, <1>11, <1>12, SMTT(30) DEF PartsAt
<1>14. Base(ms, n) <= Len(f)
  BY <1>2 DEF Window
<1> QED BY <1>13, <1>14 DEF f, x, m

LEMMA BasesGrow ==
  ASSUME NEW ms, NEW N, AreMessages(ms, N), NEW n \in 0 .. N, NEW k \in 0 .. N, n < k
  PROVE  Base(ms, n) + 5 <= Base(ms, k) /\ Base(ms, n) \in Nat /\ Base(ms, k) \in Nat
<1> DEFINE T == {j \in 0 .. N : n < j => Base(ms, n) + 5 <= Base(ms, j)}
<1>1. N \in Nat /\ \A j \in 0 .. N : Base(ms, j) \in Nat
  BY StreamGrows DEF Base, AreMessages
<1>2. \A j \in 1 .. N : Base(ms, j - 1) + 5 <= Base(ms, j)
  <2> TAKE j \in 1 .. N
  <2>1. Base(ms, j) = Base(ms, j - 1) + HeadLen(ms[j]) + Len(ms[j].body) /\ Base(ms, j - 1) \in Nat
        /\ HeadLen(ms[j]) \in Nat /\ HeadLen(ms[j]) >= 5 /\ Len(ms[j].body) \in Nat
    BY NextMessage
  <2> QED BY <2>1
<1>3. 0 \in T
  BY <1>1
<1>4. ASSUME NEW j \in 0 .. N - 1, j \in T PROVE j + 1 \in T
  <2>1. j + 1 \in 1 .. N /\ j + 1 \in 0 .. N /\ (j + 1) - 1 = j /\ j \in 0 .. N /\ n \in 0 .. N
    BY <1>1
  <2>2. Base(ms, j) + 5 <= Base(ms, j + 1)
    BY <1>2, <2>1
  <2>3. n < j + 1 => n = j \/ n < j
    BY <2>1
  <2>4. n < j + 1 => Base(ms, n) <= Base(ms, j)
    BY <1>1, <1>4, <2>1, <2>3
  <2>5. n < j + 1 => Base(ms, n) + 5 <= Base(ms, j + 1)
    BY <1>1, <2>1, <2>2, <2>4
  <2> QED BY <2>1, <2>5
<1> HIDE DEF T
<1>5. 0 .. N \subseteq T
  BY <1>1, <1>3, <1>4, InductionUpTo
<1>6. k \in T
  BY <1>5
<1> QED BY <1>1, <1>6 DEF T

-----------------------------------------------------------------------------
(***************************************************************************)
(* A line at the beginning of a window: there when its LF is.              *)
(***************************************************************************)
LEMMA EndsAt ==
  ASSUME NEW rest \in Seq(Tokens), NEW z \in Nat \ {0}, Len(rest) = z + 1,
         rest[z] = "cr", rest[z + 1] = "lf", \A i \in 1 .. z - 1 : rest[i] # "cr"
  PROVE  EndsWithFirst(rest, CRLF, z)
<1>1. \A i \in 1 .. z : At(rest, CRLF, i) <=> rest[i] = "cr" /\ rest[i + 1] = "lf"
  <2> TAKE i \in 1 .. z
  <2>1. i + Len(CRLF) - 1 = i + 1
    BY LineEnd
  <2> DEFINE s == SubSeq(rest, i, i + 1)
  <2>2. s \in Seq(Tokens) /\ Len(s) = 2 /\ s[1] = rest[i] /\ s[2] = rest[i + 1]
    OBVIOUS
  <2> HIDE DEF s
  <2>3. s = CRLF <=> s[1] = "cr" /\ s[2] = "lf"
    BY <2>2 DEF CRLF
  <2> QED BY <2>1, <2>2, <2>3 DEF At, s
<1>2. At(rest, CRLF, z)
  BY <1>1
<1>3. \A i \in 1 .. z - 1 : ~At(rest, CRLF, i)
  <2> TAKE i \in 1 .. z - 1
  <2>1. i \in 1 .. z /\ rest[i] # "cr"
    OBVIOUS
  <2> QED BY <1>1, <2>1
<1>4. CRLF # <<>> /\ Len(rest) = z + Len(CRLF) - 1
  <2>1. CRLF # <<>>
    BY DEF CRLF
  <2>2. z + 2 - 1 = z + 1
    OBVIOUS
  <2> QED BY <2>1, <2>2, LineEnd
<1> QED BY <1>2, <1>3, <1>4, LineEnd DEF EndsWithFirst

LEMMA WindowAlike ==
  ASSUME NEW b, NEW rest, NEW f, NEW i, NEW j, NEW k, Window(b, f, i, j), Window(rest, f, i, k)
  PROVE  Alike(b, rest) /\ Len(b) = j - i /\ Len(rest) = k - i
<1>1. \A x \in 1 .. Len(b) : x <= Len(rest) => b[x] = rest[x]
  BY DEF Window
<1> QED BY <1>1 DEF Alike, Window

\* The line of the word w, that starts after at.
WordAt(f, at, w) ==
  /\ at \in Nat /\ at + 3 <= Len(f) /\ w \in Words
  /\ f[at + 1] = w /\ f[at + 2] = "cr" /\ f[at + 3] = "lf"

LineRead(b, f, at, t, w) ==
  \/ t < at + 3 /\ Find(b, CRLF) = 0
  \/ /\ t >= at + 3 /\ Find(b, CRLF) = 2 /\ SubSeq(b, 1, 1) = <<w>>
     /\ Window(PopBytes(b, 3), f, at + 3, t)

LEMMA LineIn ==
  ASSUME NEW b, NEW f, NEW at, NEW t, NEW w, Window(b, f, at, t), WordAt(f, at, w)
  PROVE  LineRead(b, f, at, t, w)
<1> DEFINE rest == SubSeq(f, at + 1, at + 3)
<1>1. f \in Seq(Tokens) /\ at \in Nat /\ at + 3 \in Nat /\ at <= at + 3 /\ at + 3 <= Len(f)
  BY DEF Window, WordAt
<1>2. Window(rest, f, at, at + 3)
  BY <1>1, SubSeqIsWindow
<1> HIDE DEF rest
<1>3. rest \in Seq(Tokens) /\ Len(rest) = 3
  BY <1>1, <1>2 DEF Window
<1>4. rest[1] = w /\ rest[2] = "cr" /\ rest[3] = "lf" /\ w # "cr"
  <2>1. rest[1] = f[at + 1] /\ rest[2] = f[at + 2] /\ rest[3] = f[at + 3]
    BY <1>1, <1>2 DEF Window
  <2> QED BY <2>1 DEF WordAt, Words
<1>5. EndsWithFirst(rest, CRLF, 2)
  <2>1. \A i \in 1 .. 2 - 1 : rest[i] # "cr"
    BY <1>4
  <2>2. 2 \in Nat \ {0} /\ Len(rest) = 2 + 1 /\ rest[2 + 1] = "lf"
    BY <1>3, <1>4
  <2> QED BY <1>3, <1>4, <2>1, <2>2, EndsAt
<1>6. Alike(b, rest) /\ Len(b) = t - at /\ b \in Seq(Tokens) /\ t \in Nat
  BY <1>2, WindowAlike DEF Window
<1>7. Find(b, CRLF) = IF Len(b) >= Len(rest) THEN 2 ELSE 0
  BY <1>5, <1>6, FoundWhenHere
<1>8. CASE t < at + 3
  BY <1>1, <1>3, <1>6, <1>7, <1>8 DEF LineRead
<1>9. CASE t >= at + 3
  <2>1. 3 \in Nat /\ 3 <= t - at /\ Find(b, CRLF) = 2
    BY <1>1, <1>3, <1>6, <1>7, <1>9
  <2>2. Window(PopBytes(b, 3), f, at + 3, t)
    BY <2>1, PoppedWindow
  <2>3. Len(b) >= 3 /\ 1 <= Len(rest)
    BY <1>1, <1>3, <1>6, <1>9
  <2>4. SubSeq(b, 1, 1) = <<b[1]>>
    <3> DEFINE s == SubSeq(b, 1, 1)
    <3>1. s \in Seq(Tokens) /\ Len(s) = 1 /\ s[1] = b[1]
      BY <1>6, <2>3
    <3> HIDE DEF s
    <3>2. s = <<b[1]>>
      BY <3>1
    <3> QED BY <3>2 DEF s
  <2>5. b[1] = rest[1]
    BY <1>6, <2>3 DEF Alike
  <2> QED BY <1>4, <1>9, <2>1, <2>2, <2>4, <2>5 DEF LineRead
<1> QED BY <1>1, <1>6, <1>8, <1>9

BlankAt(f, at) == at \in Nat /\ at + 2 <= Len(f) /\ f[at + 1] = "cr" /\ f[at + 2] = "lf"

BlankRead(b, f, at, t) ==
  \/ t < at + 2 /\ Find(b, CRLF) = 0
  \/ /\ t >= at + 2 /\ Find(b, CRLF) = 1 /\ SubSeq(b, 1, 0) = <<>>
     /\ Window(PopBytes(b, 2), f, at + 2, t)

LEMMA BlankIn ==
  ASSUME NEW b, NEW f, NEW at, NEW t, Window(b, f, at, t), BlankAt(f, at)
  PROVE  BlankRead(b, f, at, t)
<1> DEFINE rest == SubSeq(f, at + 1, at + 2)
<1>1. f \in Seq(Tokens) /\ at \in Nat /\ at + 2 \in Nat /\ at <= at + 2 /\ at + 2 <= Len(f)
  BY DEF Window, BlankAt
<1>2. Window(rest, f, at, at + 2)
  BY <1>1, SubSeqIsWindow
<1> HIDE DEF rest
<1>3. rest \in Seq(Tokens) /\ Len(rest) = 2
  BY <1>1, <1>2 DEF Window
<1>4. rest[1] = "cr" /\ rest[2] = "lf"
  <2>1. rest[1] = f[at + 1] /\ rest[2] = f[at + 2]
    BY <1>1, <1>2 DEF Window
  <2> QED BY <2>1 DEF BlankAt
<1>5. EndsWithFirst(rest, CRLF, 1)
  <2>1. \A i \in 1 .. 1 - 1 : rest[i] # "cr"
    OBVIOUS
  <2>2. 1 \in Nat \ {0} /\ Len(rest) = 1 + 1 /\ rest[1 + 1] = "lf"
    BY <1>3, <1>4
  <2> QED BY <1>3, <1>4, <2>1, <2>2, EndsAt
<1>6. Alike(b, rest) /\ Len(b) = t - at /\ b \in Seq(Tokens) /\ t \in Nat
  BY <1>2, WindowAlike DEF Window
<1>7. Find(b, CRLF) = IF Len(b) >= Len(rest) THEN 1 ELSE 0
  BY <1>5, <1>6, FoundWhenHere
<1>8. CASE t < at + 2
  BY <1>1, <1>3, <1>6, <1>7, <1>8 DEF BlankRead
<1>9. CASE t >= at + 2
  <2>1. 2 \in Nat /\ 2 <= t - at /\ Find(b, CRLF) = 1
    BY <1>1, <1>3, <1>6, <1>7, <1>9
  <2>2. Window(PopBytes(b, 2), f, at + 2, t)
    BY <2>1, PoppedWindow
  <2>3. SubSeq(b, 1, 0) = <<>>
    BY <1>6
  <2> QED BY <1>9, <2>1, <2>2, <2>3 DEF BlankRead
<1> QED BY <1>1, <1>6, <1>8, <1>9

-----------------------------------------------------------------------------
(***************************************************************************)
(* Where the parser is: n messages of ms are complete, the stream was read *)
(* up to t, and what is left of it in the buffer b starts at t - Len(b).   *)
(***************************************************************************)
Full(ms) == StreamOf(ms, Len(ms))

\* The head of a message, as the parser has it.
Parsed(m) == [first |-> <<m.first>>, headers |-> m.headers, request |-> m.request]

HasColons(m) == \A i \in 1 .. Len(m.headers) : m.headers[i] \in DOMAIN KeyOf

\* A message that is complete without EOF.
Delimited(m) == m.length \in {"known", "chunked"}

HasHead(msg, m) == msg.first = <<m.first>> /\ msg.headers = m.headers

\* msg has the head of m, which comes after base, and what was read of its body.
HasBody(msg, m, f, base, at) == HasHead(msg, m) /\ Window(msg.body, f, base + HeadLen(m), at)

Leads(starts, body, trailers) ==
  LET end == IF trailers THEN CRLF \o CRLF ELSE CRLF IN
  /\ starts \subseteq {p \in 0 .. Len(body) - 3 : body[p + 1] \in DOMAIN ChunkSizeOf}
  /\ 0 \in starts
  /\ \A p \in starts :
       LET size == ChunkSizeOf[body[p + 1]]
           rest == PopBytes(body, p + 3)
       IN /\ SubSeq(body, p + 2, p + 3) = CRLF
          /\ IF size = 0
               THEN Find(rest, end) # 0 /\ Find(rest, end) + Len(end) - 1 = Len(rest)
               ELSE Substr(rest, size, 2) = CRLF /\ p + size + 5 \in starts

\* The chunked parser c is between two parts of body, and has not had all of it.
InChunks(c, body, trailers) ==
  /\ c.trailers = trailers
  /\ c.parsed \in Nat /\ c.acked \in Nat /\ c.acked < Len(body)
  /\ \E starts \in SUBSET {p \in 0 .. Len(body) - 3 : body[p + 1] \in DOMAIN ChunkSizeOf} :
       /\ Leads(starts, body, trailers)
       /\ \/ c.state = "header" /\ c.parsed \in starts
          \/ /\ c.state \in {"chunk", "trailer"} /\ c.parsed - 3 \in starts
             /\ c.size = ChunkSizeOf[body[c.parsed - 2]]
             /\ (c.state = "chunk" <=> c.size # 0)

AtFirstLine(msg, b, n, t, ms) == msg = NewMessage /\ t - Len(b) = Base(ms, n)

InHeaders(msg, b, n, t, ms) ==
  LET m == ms[n + 1] IN
  /\ n < Len(ms) /\ msg.state = "headers"
  /\ \E k \in 0 .. Len(m.headers) :
       /\ t - Len(b) = Base(ms, n) + 3 * k + 3
       /\ msg.first = <<m.first>> /\ Window(msg.headers, m.headers, 0, k) /\ msg.body = <<>>
       /\ \A i \in 1 .. k : m.headers[i] \in DOMAIN KeyOf

InBody(msg, b, n, t, ms) ==
  n < Len(ms) /\ msg.state = "body" /\ HasBody(msg, ms[n + 1], Full(ms), Base(ms, n), t - Len(b))

InKnownBody(msg, b, n, t, ms) ==
  /\ InBody(msg, b, n, t, ms)
  /\ msg.known /\ msg.parser = "none" /\ ms[n + 1].length = "known"
  /\ msg.size = Len(ms[n + 1].body) /\ Len(msg.body) <= msg.size

InEndlessBody(msg, b, n, t, ms) ==
  InBody(msg, b, n, t, ms) /\ ~msg.known /\ msg.parser = "until_eof" /\ ms[n + 1].length = "until_eof"

\* The chunked parser has the stream up to h.
InChunkedBody(msg, c, b, n, t, h, ms) ==
  LET m == ms[n + 1] IN
  /\ InBody(msg, b, n, t, ms)
  /\ ~msg.known /\ msg.parser = "chunked" /\ m.length = "chunked"
  /\ InChunks(c, m.body, HasHeader(Parsed(m), "Trailer")) /\ c.acked = Len(msg.body)
  /\ Window(c.buffer, Full(ms), Base(ms, n) + HeadLen(m) + c.parsed, h)

\* A body that EOF has ended, wherever.
IsCut(msg, m, f, base, t) ==
  /\ HasBody(msg, m, f, base, t) /\ m.length \in {"chunked", "until_eof"}
  /\ (m.length = "chunked" => t < base + HeadLen(m) + Len(m.body))

IsOver(msg, b, n, t, cl, ms) ==
  LET m == ms[n + 1] IN
  /\ n < Len(ms) /\ msg.state = "complete"
  /\ \/ /\ ~cl /\ HasBody(msg, m, Full(ms), Base(ms, n), t - Len(b))
        /\ Delimited(m) /\ t - Len(b) = Base(ms, n + 1)
     \/ cl /\ b = <<>> /\ IsCut(msg, m, Full(ms), Base(ms, n), t)

AreSent(cs, n, ms) ==
  \A i \in 1 .. n : HasHead(cs[i], ms[i]) /\ cs[i].body = ms[i].body /\ Delimited(ms[i])

\* The last of the complete messages was cut.
IsEnded(msg, b, cs, t, ms) ==
  LET n == Len(cs) IN
  /\ msg = NewMessage /\ b = <<>> /\ n # 0 /\ n <= Len(ms) /\ AreSent(cs, n - 1, ms)
  /\ IsCut(cs[n], ms[n], Full(ms), Base(ms, n - 1), t)

NoLine(b) == Find(b, CRLF) = 0

Reads(msg, c, b, cs, t, cl, p, ms) ==
  LET n == Len(cs) IN
  \/ p \in {"idle", "parsing"} /\ cl /\ IsEnded(msg, b, cs, t, ms)
  \/ /\ n <= Len(ms) /\ AreSent(cs, n, ms)
     /\ \/ p \in {"idle", "parsing"} /\ AtFirstLine(msg, b, n, t, ms) /\ (p = "idle" \/ cl => NoLine(b))
        \/ p \in {"idle", "parsing"} /\ ~cl /\ InHeaders(msg, b, n, t, ms) /\ (p = "idle" => NoLine(b))
        \/ /\ p \in {"idle", "parsing"} /\ ~cl /\ InKnownBody(msg, b, n, t, ms)
           /\ (p = "idle" => b = <<>> /\ Len(msg.body) < msg.size)
        \/ p \in {"idle", "parsing"} /\ ~cl /\ InEndlessBody(msg, b, n, t, ms) /\ (p = "idle" => b = <<>>)
        \/ /\ p \in {"idle", "parsing"} /\ ~cl /\ InChunkedBody(msg, c, b, n, t, t - Len(b), ms)
           /\ (p = "idle" => b = <<>>)
        \/ p = "chunks" /\ ~cl /\ InChunkedBody(msg, c, b, n, t, t, ms)
        \/ p = "parsing" /\ IsOver(msg, b, n, t, cl, ms)

\* No more is read than was sent: of a response, nothing before its request.
ReadsWhatIsSent ==
  /\ taken \in Nat /\ taken <= Len(Full(script.messages))
  /\ Window(buffer, Full(script.messages), taken - Len(buffer), taken)
  /\ complete \in Seq(Range(complete))
  /\ script.kind = "responses" =>
       \A n \in 1 .. Len(script.messages) : Base(script.messages, n - 1) < taken => n <= asked

ReadingOK ==
  \/ Reads(message, chunked, buffer, complete, taken, closed, pc, script.messages)
  \/ pc = "threw" /\ RefusesOnlyMalformed

Begun == IF message.state = "first_line" THEN 0 ELSE 1
Done == Len(complete) + Begun

\* The queue of the requests, each of them of one response.
MatchOK ==
  /\ complete \in Seq(Range(complete))
  /\ script.kind = "responses" =>
       /\ asked \in Nat /\ asked <= Len(script.messages) /\ Done <= asked
       /\ requests \in Seq({m.request : m \in Range(script.messages)})
       /\ Len(requests) = asked - Done
       /\ \A i \in 1 .. asked - Done : requests[i] = script.messages[Done + i].request
       /\ message.state # "first_line" => message.request = script.messages[Len(complete) + 1].request
       /\ \A i \in 1 .. Len(complete) : complete[i].request = script.messages[i].request

-----------------------------------------------------------------------------
(***************************************************************************)
(* What is at the places of a stream.                                      *)
(***************************************************************************)
Framed(kind, ms) ==
  /\ ms \in Seq(Range(ms))
  /\ \A n \in 1 .. Len(ms) : IsFramed(kind, ms[n]) /\ (ms[n].length = "until_eof" => n = Len(ms))

\* The message m is the part of f from base to end.
Placed(f, base, end, m) ==
  /\ f \in Seq(Tokens) /\ base \in Nat
  /\ end = base + HeadLen(m) + Len(m.body) /\ end <= Len(f)
  /\ PartsAt(f, base, m)
  /\ m.first \in Words /\ m.headers \in Seq(Words) /\ m.body \in Seq(Tokens)

LEMMA ScriptIsFramed ==
  ASSUME StreamsAreFramed, NEW s \in Scripts
  PROVE  Framed(s.kind, s.messages)
<1>1. s.messages \in Seq(Range(s.messages))
  BY DEF StreamsAreFramed
<1>2. DOMAIN s.messages = 1 .. Len(s.messages)
  BY <1>1
<1> QED BY <1>1, <1>2 DEF StreamsAreFramed, Framed

LEMMA WordsAreTokens == Words \subseteq Tokens /\ Seq(Words) \subseteq Seq(Tokens)
<1>1. Words \subseteq Tokens
  BY DEF Tokens
<1> QED BY <1>1

LEMMA FramedMessages ==
  ASSUME NEW kind, NEW ms, Framed(kind, ms)
  PROVE  /\ Len(ms) \in Nat /\ DOMAIN ms = 1 .. Len(ms)
         /\ AreMessages(ms, Len(ms)) /\ Full(ms) \in Seq(Tokens)
         /\ \A n \in 0 .. Len(ms) : Base(ms, n) \in Nat
         /\ Base(ms, 0) = 0 /\ Base(ms, Len(ms)) = Len(Full(ms))
<1>1. Len(ms) \in Nat /\ DOMAIN ms = 1 .. Len(ms)
  BY DEF Framed
<1>2. \A n \in 1 .. Len(ms) : IsMessage(ms[n])
  BY WordsAreTokens DEF Framed, IsFramed, IsMessage
<1>3. AreMessages(ms, Len(ms))
  BY <1>1, <1>2 DEF AreMessages
<1>4. /\ StreamOf(ms, 0) = <<>>
      /\ \A n \in 0 .. Len(ms) : StreamOf(ms, n) \in Seq(Tokens)
  BY <1>3, StreamGrows
<1>5. \A n \in 0 .. Len(ms) : Base(ms, n) \in Nat
  BY <1>4 DEF Base
<1>6. Len(ms) \in 0 .. Len(ms)
  BY <1>1
<1> QED BY <1>1, <1>3, <1>4, <1>5, <1>6 DEF Full, Base

LEMMA NextIsPlaced ==
  ASSUME NEW kind, NEW ms, Framed(kind, ms), NEW n \in Nat, n < Len(ms)
  PROVE  Placed(Full(ms), Base(ms, n), Base(ms, n + 1), ms[n + 1])
<1> DEFINE N == Len(ms)
           k == n + 1
<1>1. N \in Nat /\ AreMessages(ms, N) /\ Full(ms) \in Seq(Tokens)
  BY FramedMessages
<1>2. k \in 1 .. N /\ k - 1 = n
  BY <1>1
<1>3. Full(ms) = StreamOf(ms, N)
  BY DEF Full
<1>4. ms[k].first \in Words /\ ms[k].headers \in Seq(Words) /\ ms[k].body \in Seq(Tokens)
  BY <1>2 DEF Framed, IsFramed
<1> HIDE DEF N, k
<1>5. PartsAt(StreamOf(ms, N), Base(ms, k - 1), ms[k]) /\ Base(ms, k) <= Len(StreamOf(ms, N))
  BY <1>1, <1>2, MessageInStream
<1>6. Base(ms, k) = Base(ms, k - 1) + HeadLen(ms[k]) + Len(ms[k].body) /\ Base(ms, k - 1) \in Nat
  BY <1>1, <1>2, NextMessage
<1>7. Placed(Full(ms), Base(ms, k - 1), Base(ms, k), ms[k])
  BY <1>1, <1>3, <1>4, <1>5, <1>6 DEF Placed
<1> QED BY <1>2, <1>7 DEF k

LEMMA PlacedLengths ==
  ASSUME NEW f, NEW base, NEW end, NEW m, Placed(f, base, end, m)
  PROVE  /\ Len(m.headers) \in Nat /\ Len(m.body) \in Nat /\ HeadLen(m) = 3 * Len(m.headers) + 5
         /\ base \in Nat /\ end \in Nat /\ Len(f) \in Nat /\ HeadLen(m) \in Nat /\ HeadLen(m) >= 5
         /\ end = base + HeadLen(m) + Len(m.body) /\ end <= Len(f) /\ base + HeadLen(m) <= Len(f)
<1>1. Len(m.headers) \in Nat /\ Len(m.body) \in Nat /\ Len(f) \in Nat /\ base \in Nat
  BY DEF Placed
<1>2. HeadLen(m) = 3 * Len(m.headers) + 5
  BY DEF HeadLen
<1>3. HeadLen(m) \in Nat /\ HeadLen(m) >= 5
  BY <1>1, <1>2
<1>4. end = base + HeadLen(m) + Len(m.body) /\ end <= Len(f)
  BY DEF Placed
<1>5. end \in Nat
  BY <1>1, <1>3, <1>4
<1> DEFINE x == base + HeadLen(m)
<1>6. x \in Nat /\ x <= end
  BY <1>1, <1>3, <1>4
<1> HIDE DEF x
<1>7. x <= Len(f)
  BY <1>1, <1>4, <1>5, <1>6
<1> QED BY <1>1, <1>2, <1>3, <1>4, <1>5, <1>7 DEF x

LEMMA FirstLineAt ==
  ASSUME NEW f, NEW base, NEW end, NEW m, Placed(f, base, end, m)
  PROVE  WordAt(f, base, m.first)
<1>1. base \in Nat /\ base + 3 <= Len(f)
  BY PlacedLengths
<1> QED BY <1>1 DEF Placed, PartsAt, WordAt

LEMMA HeaderAt ==
  ASSUME NEW f, NEW base, NEW end, NEW m, Placed(f, base, end, m),
         NEW k \in Nat, k < Len(m.headers)
  PROVE  WordAt(f, base + 3 * k + 3, m.headers[k + 1])
<1> DEFINE h == HeadLen(m)
           H == Len(m.headers)
           j == k + 1
           at == base + 3 * k + 3
<1>1. H \in Nat /\ Len(m.body) \in Nat /\ h = 3 * H + 5 /\ base \in Nat /\ end = base + h + Len(m.body) /\ end <= Len(f) /\ Len(f) \in Nat
  BY PlacedLengths
<1>2. j \in 1 .. H
  BY <1>1
<1>3. f[base + 3 * j + 1] = m.headers[j] /\ f[base + 3 * j + 2] = "cr" /\ f[base + 3 * j + 3] = "lf"
  BY <1>2 DEF Placed, PartsAt
<1>4. base + 3 * j + 1 = at + 1 /\ base + 3 * j + 2 = at + 2 /\ base + 3 * j + 3 = at + 3
  BY <1>1
<1>5. m.headers[j] \in Words
  BY <1>2 DEF Placed
<1>6. at \in Nat /\ at + 3 <= Len(f)
  <2>1. 3 * k + 3 <= 3 * H
    BY <1>1
  <2> HIDE DEF H, h
  <2>2. at + 3 <= base + h
    BY <1>1, <2>1
  <2>3. h \in Nat /\ at \in Nat
    BY <1>1
  <2> HIDE DEF at
  <2>4. base + h <= Len(f)
    BY PlacedLengths DEF h
  <2> QED BY <1>1, <2>2, <2>3, <2>4
<1> HIDE DEF at, j
<1>7. WordAt(f, at, m.headers[j])
  BY <1>3, <1>4, <1>5, <1>6 DEF WordAt
<1> QED BY <1>7 DEF at, j

LEMMA BlankLineAt ==
  ASSUME NEW f, NEW base, NEW end, NEW m, Placed(f, base, end, m)
  PROVE  BlankAt(f, base + 3 * Len(m.headers) + 3)
<1> DEFINE h == HeadLen(m)
           H == Len(m.headers)
           at == base + 3 * H + 3
<1>1. H \in Nat /\ Len(m.body) \in Nat /\ h = 3 * H + 5 /\ base \in Nat /\ end = base + h + Len(m.body) /\ end <= Len(f) /\ Len(f) \in Nat
  BY PlacedLengths
<1>2. f[base + h - 1] = "cr" /\ f[base + h] = "lf"
  BY DEF Placed, PartsAt
<1>3. base + h - 1 = at + 1 /\ base + h = at + 2 /\ at \in Nat /\ at + 2 <= Len(f)
  <2> HIDE DEF H, h
  <2>1. h \in Nat /\ at \in Nat /\ base + h - 1 = at + 1 /\ base + h = at + 2
    BY <1>1
  <2> HIDE DEF at
  <2>2. base + h <= Len(f)
    BY PlacedLengths DEF h
  <2> QED BY <1>1, <2>1, <2>2
<1> HIDE DEF at, h
<1>4. BlankAt(f, at)
  BY <1>2, <1>3 DEF BlankAt
<1> QED BY <1>4 DEF at

LEMMA BodyIsWindow ==
  ASSUME NEW f, NEW base, NEW end, NEW m, Placed(f, base, end, m)
  PROVE  Window(m.body, f, base + HeadLen(m), end)
<1> DEFINE at == base + HeadLen(m)
<1>1. at \in Nat /\ end \in Nat /\ at <= end /\ end <= Len(f) /\ Len(m.body) = end - at /\ Len(m.body) \in Nat
  BY PlacedLengths
<1>2. \A k \in 1 .. Len(m.body) : m.body[k] = f[at + k]
  BY DEF Placed, PartsAt
<1> HIDE DEF at
<1>3. Window(m.body, f, at, end)
  BY <1>1, <1>2 DEF Window, Placed
<1> QED BY <1>3 DEF at

-----------------------------------------------------------------------------
(***************************************************************************)
(* What has been sent completely, and what is expected.                    *)
(***************************************************************************)
Ms == script.messages

\* n messages are whole: the next one is not, or nobody can tell.
AreWhole(ms, n, t) ==
  /\ n \in 0 .. Len(ms) /\ t \in Nat
  /\ \A i \in 1 .. n : Delimited(ms[i])
  /\ Base(ms, n) <= t
  /\ n < Len(ms) => t < Base(ms, n + 1) \/ ~Delimited(ms[n + 1])

LEMMA NumWholeIs ==
  ASSUME Framed(script.kind, Ms), NEW n, AreWhole(Ms, n, taken)
  PROVE  NumWhole = n
<1> DEFINE ms == Ms
           N == Len(ms)
           S == {0} \union Whole
<1>1. N \in Nat /\ AreMessages(ms, N) /\ DOMAIN ms = 1 .. N /\ n \in 0 .. N /\ taken \in Nat
  BY FramedMessages DEF AreWhole
<1>2. Whole = {k \in 1 .. N : Base(ms, k) <= taken /\ \A i \in 1 .. k : Delimited(ms[i])}
  BY <1>1 DEF Whole, WireOfFirst, Base, StreamOf, Delimited, Ms
<1>3. n \in S
  <2>1. CASE n = 0
    BY <2>1
  <2>2. CASE n # 0
    BY <1>1, <1>2, <2>2 DEF AreWhole
  <2> QED BY <2>1, <2>2
<1>4. ASSUME NEW k \in S PROVE n >= k
  <2> SUFFICES ASSUME n < k PROVE FALSE
    BY <1>1, <1>2
  <2>1. k \in 1 .. N /\ n + 1 \in 1 .. k /\ n + 1 \in 0 .. N /\ k \in 0 .. N /\ n < N
    BY <1>1, <1>2
  <2>2. Delimited(ms[n + 1]) /\ Base(ms, k) <= taken
    BY <1>2, <2>1
  <2>3. taken < Base(ms, n + 1)
    BY <2>1, <2>2 DEF AreWhole
  <2>4. Base(ms, n + 1) <= Base(ms, k) /\ Base(ms, k) \in Nat /\ Base(ms, n + 1) \in Nat
    <3>1. CASE n + 1 = k
      BY <1>1, <2>1, <3>1, FramedMessages
    <3>2. CASE n + 1 # k
      <4>1. n + 1 < k
        BY <1>1, <2>1, <3>2
      <4>2. Base(ms, n + 1) + 5 <= Base(ms, k) /\ Base(ms, n + 1) \in Nat /\ Base(ms, k) \in Nat
        BY <1>1, <2>1, <4>1, BasesGrow
      <4> QED BY <4>2
    <3> QED BY <3>1, <3>2
  <2> QED BY <1>1, <2>2, <2>3, <2>4
<1>5. S \subseteq Nat
  BY <1>1, <1>2
<1> HIDE DEF S
<1>6. Max(S) \in S /\ \A y \in S : Max(S) >= y
  BY <1>3, <1>4 DEF Max
<1>7. Max(S) = n
  <2>1. Max(S) >= n /\ n >= Max(S) /\ Max(S) \in Nat
    BY <1>3, <1>4, <1>5, <1>6
  <2> QED BY <1>1, <2>1
<1> QED BY <1>7 DEF S, NumWhole

JoinedIn(V, c, a, x, b, y) ==
  /\ c \in [1 .. x + y -> V]
  /\ \A i \in 1 .. x : c[i] = a[i]
  /\ \A i \in 1 .. y : c[x + i] = b[i]

LEMMA AnyJoined ==
  ASSUME NEW V, NEW a \in Seq(V), NEW b \in Seq(V), NEW x \in Nat, NEW y \in Nat, Len(a) = x, Len(b) = y
  PROVE  JoinedIn(V, a \o b, a, x, b, y)
<1> DEFINE c == a \o b
<1>1. c \in Seq(V) /\ Len(c) = x + y
  OBVIOUS
<1>2. \A i \in 1 .. x : c[i] = a[i]
  OBVIOUS
<1>3. \A i \in 1 .. y : c[x + i] = b[i]
  OBVIOUS
<1> HIDE DEF c
<1>4. c \in [1 .. x + y -> V]
  BY <1>1
<1>5. JoinedIn(V, c, a, x, b, y)
  BY <1>2, <1>3, <1>4 DEF JoinedIn
<1> QED BY <1>5 DEF c

\* A function's values but for the last, and the last.
LEMMA LastApart ==
  ASSUME NEW n \in Nat \ {0}, NEW g
  PROVE  [i \in 1 .. n |-> g[i]] = [i \in 1 .. n - 1 |-> g[i]] \o <<g[n]>>
<1> DEFINE V == {g[i] : i \in 1 .. n}
           s == [i \in 1 .. n |-> g[i]]
           a == [i \in 1 .. n - 1 |-> g[i]]
           c == a \o <<g[n]>>
<1> DEFINE l == <<g[n]>>
           x == n - 1
<1>1. a \in Seq(V) /\ Len(a) = x /\ x \in Nat /\ x + 1 = n
  OBVIOUS
<1>2. l \in Seq(V) /\ Len(l) = 1 /\ l[1] = g[n]
  OBVIOUS
<1>3. \A i \in 1 .. x : a[i] = g[i]
  OBVIOUS
<1> HIDE DEF V, a, l, x
<1>4. c \in [1 .. x + 1 -> V] /\ (\A i \in 1 .. x : c[i] = a[i]) /\ c[x + 1] = l[1]
  <2> DEFINE y == 1
  <2>1. y \in Nat /\ Len(l) = y /\ 1 \in 1 .. y
    BY <1>2
  <2> HIDE DEF y
  <2>2. JoinedIn(V, a \o l, a, x, l, y)
    BY <1>1, <1>2, <2>1, AnyJoined
  <2>3. c = a \o l
    BY DEF l
  <2> HIDE DEF c
  <2>4. JoinedIn(V, c, a, x, l, y)
    BY <2>2, <2>3
  <2> QED BY <2>1, <2>4 DEF JoinedIn, y
<1> HIDE DEF c
<1>5. \A i \in 1 .. n : c[i] = g[i]
  <2> TAKE i \in 1 .. n
  <2>1. i = n \/ i \in 1 .. x
    BY <1>1
  <2> QED BY <1>1, <1>2, <1>3, <1>4, <2>1
<1>6. c = s
  BY <1>1, <1>4, <1>5
<1> QED BY <1>6 DEF c, a, x

View(c) == [first |-> c.first, headers |-> c.headers, body |-> c.body]

LEMMA SentViews ==
  ASSUME NEW cs, NEW ms, NEW n \in Nat, AreSent(cs, n, ms)
  PROVE  [i \in 1 .. n |-> View(cs[i])] = [i \in 1 .. n |-> Delivered(ms[i], ms[i].body)]
<1>1. \A i \in 1 .. n : View(cs[i]) = Delivered(ms[i], ms[i].body)
  BY DEF AreSent, HasHead, View, Delivered
<1> QED BY <1>1

Views == [i \in DOMAIN complete |-> View(complete[i])]

\* Nothing was ended by EOF.
LEMMA AllAreSent ==
  ASSUME Framed(script.kind, Ms), complete \in Seq(Range(complete)),
         NEW n, n = Len(complete), AreSent(complete, n, Ms), AreWhole(Ms, n, taken),
         closed /\ n < Len(Ms) => taken < Base(Ms, n) + HeadLen(Ms[n + 1])
  PROVE  Views = Expected
<1> DEFINE ms == Ms
<1>1. NumWhole = n /\ n \in Nat /\ DOMAIN complete = 1 .. n
  BY NumWholeIs DEF AreWhole
<1>2. ~EndedByEOF
  <2> SUFFICES ASSUME closed, n < Len(ms), Started >= Len(HeadOf(ms[n + 1])) PROVE FALSE
    BY <1>1 DEF EndedByEOF, Current, Ms
  <2>1. taken < Base(ms, n) + HeadLen(ms[n + 1])
    OBVIOUS
  <2>2. Started = taken - Base(ms, n)
    BY <1>1 DEF Started, WireOfFirst, Base, StreamOf, Ms
  <2>3. IsMessage(ms[n + 1]) /\ Base(ms, n) \in Nat /\ taken \in Nat
    <3>1. n + 1 \in 1 .. Len(ms) /\ n \in 0 .. Len(ms)
      BY <1>1 DEF AreWhole
    <3> QED BY <3>1, FramedMessages DEF AreMessages, AreWhole
  <2>4. Len(HeadOf(ms[n + 1])) = HeadLen(ms[n + 1]) /\ HeadLen(ms[n + 1]) \in Nat
    <3>1. Len(HeadOf(ms[n + 1])) = HeadLen(ms[n + 1]) /\ HeadOf(ms[n + 1]) \in Seq(Tokens)
      BY <2>3, WireParts
    <3> QED BY <3>1
  <2> QED BY <2>1, <2>2, <2>3, <2>4
<1>3. Expected = [i \in 1 .. n |-> Delivered(ms[i], ms[i].body)]
  <2> DEFINE s == [i \in 1 .. n |-> Delivered(ms[i], ms[i].body)]
             V == {Delivered(ms[i], ms[i].body) : i \in 1 .. n}
  <2>1. s \in Seq(V)
    BY <1>1
  <2> HIDE DEF V
  <2>2. s \o <<>> = s
    BY <2>1
  <2> QED BY <1>1, <1>2, <2>2 DEF Expected, Ms
<1>4. Views = [i \in 1 .. n |-> View(complete[i])]
  BY <1>1 DEF Views
<1> QED BY <1>1, <1>3, <1>4, SentViews

\* The last was.
LEMMA LastIsCut ==
  ASSUME Framed(script.kind, Ms), complete \in Seq(Range(complete)), taken \in Nat, taken <= Len(Full(Ms)),
         closed, IsEnded(message, buffer, complete, taken, Ms)
  PROVE  Views = Expected
<1> DEFINE ms == Ms
           n == Len(complete)
           m == ms[n]
           base == Base(ms, n - 1)
           h == HeadLen(m)
<1>1. n \in Nat /\ n # 0 /\ n <= Len(ms) /\ DOMAIN complete = 1 .. n /\ Len(ms) \in Nat
  BY FramedMessages DEF IsEnded
<1>2. AreSent(complete, n - 1, ms) /\ IsCut(complete[n], m, Full(ms), base, taken)
  BY DEF IsEnded
<1>3. Placed(Full(ms), base, Base(ms, n), m)
  <2>1. n - 1 \in Nat /\ n - 1 < Len(ms) /\ (n - 1) + 1 = n
    BY <1>1
  <2> QED BY <2>1, NextIsPlaced
<1>4. Window(complete[n].body, Full(ms), base + h, taken)
  BY <1>2 DEF IsCut, HasBody
<1>5. /\ Len(m.body) \in Nat /\ base \in Nat /\ h \in Nat /\ h >= 5
      /\ Base(ms, n) = base + h + Len(m.body) /\ Base(ms, n) \in Nat
  BY <1>3, PlacedLengths
<1>6. base + h <= taken
  BY <1>4 DEF Window
<1>7. taken <= Base(ms, n)
  <2>1. CASE m.length = "chunked"
    BY <1>2, <1>5, <2>1 DEF IsCut
  <2>2. CASE m.length = "until_eof"
    <3>1. n = Len(ms)
      BY <1>1, <2>2 DEF Framed
    <3> QED BY <3>1, FramedMessages
  <2> QED BY <1>2, <2>1, <2>2 DEF IsCut
<1>8. NumWhole = n - 1
  <2>1. \A i \in 1 .. n - 1 : Delimited(ms[i])
    BY <1>2 DEF AreSent
  <2>2. taken < Base(ms, n) \/ ~Delimited(ms[n])
    BY <1>2, <1>5 DEF IsCut, Delimited
  <2>3. n - 1 \in 0 .. Len(ms) /\ (n - 1) + 1 = n
    BY <1>1
  <2>4. base <= taken
    BY <1>5, <1>6
  <2>5. AreWhole(ms, n - 1, taken)
    BY <2>1, <2>2, <2>3, <2>4 DEF AreWhole
  <2> QED BY <2>5, NumWholeIs
<1>9. Current = m
  BY <1>1, <1>8 DEF Current, Ms
<1>10. Len(HeadOf(m)) = h
  <2>1. IsMessage(m)
    BY <1>1, FramedMessages DEF AreMessages
  <2> QED BY <2>1, WireParts
<1>11. Started = taken - base
  BY <1>8 DEF Started, WireOfFirst, Base, StreamOf, Ms
<1>12. EndedByEOF
  <2>1. NumWhole < Len(script.messages)
    BY <1>1, <1>8 DEF Ms
  <2>2. Current.length \in {"chunked", "until_eof"}
    BY <1>2, <1>9 DEF IsCut
  <2>3. Started >= Len(HeadOf(Current))
    BY <1>5, <1>6, <1>9, <1>10, <1>11
  <2> QED BY <2>1, <2>2, <2>3 DEF EndedByEOF
<1> DEFINE x == taken - base - h
<1>13. complete[n].body = SubSeq(m.body, 1, x)
  <2>1. Window(m.body, Full(ms), base + h, Base(ms, n))
    BY <1>3, BodyIsWindow
  <2>2. x \in Nat /\ x <= Base(ms, n) - (base + h) /\ (base + h) + x = taken /\ (base + h) + 0 = base + h /\ 0 + 1 = 1
    BY <1>5, <1>6, <1>7
  <2> HIDE DEF x, h, base
  <2>3. Window(SubSeq(m.body, 0 + 1, x), Full(ms), (base + h) + 0, (base + h) + x)
    BY <2>1, <2>2, PartOfWindow
  <2> QED BY <1>4, <2>2, <2>3, SameWindow
<1>14. View(complete[n]) = Delivered(m, SubSeq(m.body, 1, x))
  BY <1>2, <1>13 DEF IsCut, HasBody, HasHead, View, Delivered
<1>15. Started - Len(HeadOf(Current)) = x
  BY <1>9, <1>10, <1>11
<1> HIDE DEF m, x, base, h
<1>16. Expected = [i \in 1 .. n - 1 |-> Delivered(ms[i], ms[i].body)] \o <<Delivered(m, SubSeq(m.body, 1, x))>>
  BY <1>8, <1>9, <1>12, <1>15 DEF Expected, Ms
<1>17. Views = [i \in 1 .. n - 1 |-> View(complete[i])] \o <<View(complete[n])>>
  <2> DEFINE g == [i \in 1 .. n |-> View(complete[i])]
  <2>1. Views = [i \in 1 .. n |-> g[i]] /\ g[n] = View(complete[n])
    BY <1>1 DEF Views
  <2>2. [i \in 1 .. n - 1 |-> g[i]] = [i \in 1 .. n - 1 |-> View(complete[i])]
    BY <1>1
  <2> HIDE DEF g
  <2>3. [i \in 1 .. n |-> g[i]] = [i \in 1 .. n - 1 |-> g[i]] \o <<g[n]>>
    BY <1>1, LastApart
  <2> QED BY <2>1, <2>2, <2>3
<1>18. n - 1 \in Nat
  BY <1>1
<1> QED BY <1>2, <1>14, <1>16, <1>17, <1>18, SentViews

-----------------------------------------------------------------------------
(***************************************************************************)
(* Between two calls, the next message is not whole.                       *)
(***************************************************************************)
\* The stream up to t is read, and b is what is left of it.
Holds(kind, ms, b, n, t) ==
  /\ Framed(kind, ms) /\ n \in Nat /\ n <= Len(ms)
  /\ Window(b, Full(ms), t - Len(b), t)

\* What Holds says of the next message.
LEMMA NextOne ==
  ASSUME NEW kind, NEW ms, NEW b, NEW n, NEW t, Holds(kind, ms, b, n, t), n < Len(ms)
  PROVE  /\ Placed(Full(ms), Base(ms, n), Base(ms, n + 1), ms[n + 1])
         /\ Base(ms, n) \in Nat /\ Base(ms, n + 1) \in Nat
         /\ HeadLen(ms[n + 1]) = 3 * Len(ms[n + 1].headers) + 5
         /\ Len(ms[n + 1].headers) \in Nat /\ HeadLen(ms[n + 1]) \in Nat /\ Len(ms[n + 1].body) \in Nat
         /\ Base(ms, n + 1) = Base(ms, n) + HeadLen(ms[n + 1]) + Len(ms[n + 1].body)
         /\ n + 1 \in 1 .. Len(ms)
         /\ t \in Nat /\ t <= Len(Full(ms)) /\ Len(b) \in Nat /\ t - Len(b) \in Nat
<1>1. Placed(Full(ms), Base(ms, n), Base(ms, n + 1), ms[n + 1])
  BY NextIsPlaced DEF Holds
<1>2. n + 1 \in 1 .. Len(ms)
  BY FramedMessages DEF Holds
<1>3. t \in Nat /\ t <= Len(Full(ms)) /\ Len(b) \in Nat /\ t - Len(b) \in Nat
  BY DEF Holds, Window
<1> DEFINE f == Full(ms)
           base == Base(ms, n)
           end == Base(ms, n + 1)
           m == ms[n + 1]
<1>4. Placed(f, base, end, m)
  BY <1>1
<1> HIDE DEF f, base, end, m
<1>5. /\ Len(m.headers) \in Nat /\ Len(m.body) \in Nat /\ HeadLen(m) = 3 * Len(m.headers) + 5
      /\ base \in Nat /\ end \in Nat /\ HeadLen(m) \in Nat
      /\ end = base + HeadLen(m) + Len(m.body)
  BY <1>4, PlacedLengths
<1> QED BY <1>1, <1>2, <1>3, <1>5, Zenon DEF f, base, end, m

LEMMA NoFirstLine ==
  ASSUME NEW kind, NEW ms, NEW b, NEW n, NEW t, Holds(kind, ms, b, n, t), NEW msg,
         AtFirstLine(msg, b, n, t, ms), NoLine(b)
  PROVE  n < Len(ms) => t < Base(ms, n) + 3
<1> SUFFICES ASSUME n < Len(ms) PROVE t < Base(ms, n) + 3
  OBVIOUS
<1> DEFINE at == Base(ms, n)
           w == ms[n + 1].first
<1>1. WordAt(Full(ms), at, w)
  BY NextOne, FirstLineAt
<1>2. Window(b, Full(ms), at, t)
  BY DEF Holds, AtFirstLine
<1> HIDE DEF at, w
<1>3. LineRead(b, Full(ms), at, t, w)
  BY <1>1, <1>2, LineIn
<1>4. t < at + 3
  BY <1>3 DEF LineRead, NoLine
<1> QED BY <1>4 DEF at

LEMMA NoHeader ==
  ASSUME NEW kind, NEW ms, NEW b, NEW n, NEW t, Holds(kind, ms, b, n, t), NEW msg,
         InHeaders(msg, b, n, t, ms), NoLine(b)
  PROVE  t < Base(ms, n) + HeadLen(ms[n + 1])
<1> DEFINE m == ms[n + 1]
           f == Full(ms)
           base == Base(ms, n)
           h == HeadLen(m)
           H == Len(m.headers)
<1>1. PICK k \in 0 .. H : t - Len(b) = base + 3 * k + 3
  BY DEF InHeaders
<1>2. n < Len(ms)
  BY DEF InHeaders
<1>3. Placed(f, base, Base(ms, n + 1), m) /\ base \in Nat /\ H \in Nat /\ h = 3 * H + 5 /\ t \in Nat
  BY <1>2, NextOne
<1> DEFINE at == base + 3 * k + 3
<1>4. Window(b, f, at, t)
  BY <1>1 DEF Holds
<1>5. CASE k = H
  <2>1. BlankAt(f, at)
    BY <1>3, <1>5, BlankLineAt
  <2> HIDE DEF at
  <2>2. BlankRead(b, f, at, t)
    BY <1>4, <2>1, BlankIn
  <2>3. t < at + 2
    BY <2>2 DEF BlankRead, NoLine
  <2>4. at = base + 3 * H + 3
    BY <1>5 DEF at
  <2>5. at + 2 = base + h
    <3> HIDE DEF H, h, base
    <3> QED BY <1>3, <2>4
  <2> QED BY <2>3, <2>5
<1>6. CASE k # H
  <2>1. k \in Nat /\ k < H
    BY <1>3, <1>6
  <2>2. WordAt(f, at, m.headers[k + 1])
    BY <1>3, <2>1, HeaderAt
  <2> HIDE DEF at
  <2>3. LineRead(b, f, at, t, m.headers[k + 1])
    BY <1>4, <2>2, LineIn
  <2>4. t < at + 3
    BY <2>3 DEF LineRead, NoLine
  <2>5. at + 3 <= base + h /\ at \in Nat
    <3>1. 3 * k + 3 <= 3 * H
      BY <1>3, <2>1
    <3>2. at \in Nat
      BY <1>3, <2>1 DEF at
    <3> HIDE DEF H, h
    <3> QED BY <1>3, <2>1, <3>1, <3>2 DEF at
  <2>6. base + h \in Nat
    BY <1>3, SMTT(30)
  <2> QED BY <1>3, <2>4, <2>5, <2>6
<1> QED BY <1>5, <1>6

\* How far a body was read.
LEMMA BodyRead ==
  ASSUME NEW kind, NEW ms, NEW b, NEW n, NEW t, Holds(kind, ms, b, n, t), NEW msg, InBody(msg, b, n, t, ms)
  PROVE  /\ n < Len(ms)
         /\ t - Len(b) = Base(ms, n) + HeadLen(ms[n + 1]) + Len(msg.body) /\ Len(msg.body) \in Nat
         /\ Window(msg.body, Full(ms), Base(ms, n) + HeadLen(ms[n + 1]), t - Len(b))
<1> DEFINE x == Base(ms, n) + HeadLen(ms[n + 1])
<1>1. n < Len(ms) /\ Window(msg.body, Full(ms), x, t - Len(b))
  BY DEF InBody, HasBody
<1>2. x \in Nat
  BY <1>1, NextOne
<1> HIDE DEF x
<1>3. Len(msg.body) = (t - Len(b)) - x /\ t - Len(b) \in Nat /\ Len(msg.body) \in Nat
  BY <1>1 DEF Window
<1>4. t - Len(b) = x + Len(msg.body)
  <2> DEFINE y == t - Len(b)
  <2> HIDE DEF y
  <2>1. Len(msg.body) = y - x /\ y \in Nat
    BY <1>3 DEF y
  <2>2. y = x + Len(msg.body)
    BY <1>2, <2>1
  <2> QED BY <2>2 DEF y
<1> QED BY <1>1, <1>3, <1>4 DEF x

LEMMA BodyNotWhole ==
  ASSUME NEW kind, NEW ms, NEW b, NEW n, NEW t, Holds(kind, ms, b, n, t), NEW msg, InBody(msg, b, n, t, ms),
         b = <<>>, Len(msg.body) < Len(ms[n + 1].body)
  PROVE  t < Base(ms, n + 1)
<1>1. n < Len(ms) /\ t - Len(b) = Base(ms, n) + HeadLen(ms[n + 1]) + Len(msg.body) /\ Len(msg.body) \in Nat
  BY BodyRead
<1>2. /\ Base(ms, n) \in Nat /\ HeadLen(ms[n + 1]) \in Nat /\ Len(ms[n + 1].body) \in Nat /\ t \in Nat
      /\ Base(ms, n + 1) = Base(ms, n) + HeadLen(ms[n + 1]) + Len(ms[n + 1].body)
  BY <1>1, NextOne
<1>3. Len(b) = 0
  OBVIOUS
<1>4. t = Base(ms, n) + HeadLen(ms[n + 1]) + Len(msg.body)
  BY <1>1, <1>2, <1>3
<1> QED BY <1>1, <1>2, <1>4

LEMMA WholeWhen ==
  ASSUME NEW kind, NEW ms, NEW b, NEW n, NEW t, Holds(kind, ms, b, n, t), NEW cs, AreSent(cs, n, ms),
         Base(ms, n) <= t, n < Len(ms) => t < Base(ms, n + 1) \/ ~Delimited(ms[n + 1])
  PROVE  AreWhole(ms, n, t)
<1>1. n \in 0 .. Len(ms) /\ t \in Nat
  BY FramedMessages DEF Holds, Window
<1> QED BY <1>1 DEF AreWhole, AreSent

-----------------------------------------------------------------------------
(***************************************************************************)
(* The queue of the requests.                                              *)
(***************************************************************************)
MessageFields == {"state", "first", "headers", "body", "request", "known", "size", "parser"}
ChunkFields == {"state", "buffer", "size", "acked", "parsed", "trailers"}

\* Which fields the two records have: an update of one leaves the others.
ShapesOK ==
  /\ message = [x \in MessageFields |-> message[x]]
  /\ chunked = [x \in ChunkFields |-> chunked[x]]
  /\ pc = "chunks" => message.state = "body"

LEMMA ShapesStart == Init => ShapesOK
BY DEF Init, ShapesOK, NewMessage, NewChunkedBodyParser, MessageFields, ChunkFields

LEMMA ShapesKept == ShapesOK /\ [Next]_vars => ShapesOK'
<1> SUFFICES ASSUME ShapesOK, [Next]_vars PROVE ShapesOK'
  OBVIOUS
<1>1. NewMessage = [x \in MessageFields |-> NewMessage[x]]
  BY DEF NewMessage, MessageFields
<1>2. \A t : NewChunkedBodyParser(t) = [x \in ChunkFields |-> NewChunkedBodyParser(t)[x]]
  BY DEF NewChunkedBodyParser, ChunkFields
<1>4. message' = [x \in MessageFields |-> message'[x]]
  BY <1>1 DEF ShapesOK, vars, stream, Next, ParsingStep, NewRequestArrived, Parse, ParseEOF, NeedMoreLines, FirstLine,
    AddHeader, DoneWithHeaders, ReadKnownBody, ReadUntilEOF, CompleteMessage, StartReadChunked, ChunkHeader,
    Chunk, NeedMoreOfBody, TrailerOver
<1>5. \A n, s : Understood(n, s) = [x \in ChunkFields |-> Understood(n, s)[x]]
  BY DEF Understood, ShapesOK
<1>6. chunked' = [x \in ChunkFields |-> chunked'[x]]
  <2>1. CASE UNCHANGED chunked
    BY <2>1 DEF ShapesOK
  <2>2. CASE DoneWithHeaders
    BY <1>2, <2>2 DEF DoneWithHeaders
  <2>3. CASE StartReadChunked \/ NeedMoreOfBody
    BY <2>3 DEF StartReadChunked, NeedMoreOfBody, ShapesOK
  <2>4. CASE ChunkHeader /\ ~UNCHANGED chunked
    <3>1. PICK n, s, size : chunked' = [Understood(n, s) EXCEPT !.size = size]
      BY <2>4 DEF ChunkHeader
    <3> DEFINE u == Understood(n, s)
    <3>2. u = [x \in ChunkFields |-> u[x]]
      BY <1>5
    <3> HIDE DEF u
    <3>3. chunked' = [u EXCEPT !.size = size]
      BY <3>1 DEF u
    <3> QED BY <3>2, <3>3
  <2>5. CASE Chunk
    <3>1. UNCHANGED chunked \/ chunked' = Understood(chunked.size + 2, "header")
      BY <2>5 DEF Chunk
    <3> QED BY <1>5, <2>1, <3>1
  <2> QED BY <2>1, <2>2, <2>3, <2>4, <2>5 DEF vars, stream, Next, ParsingStep, NewRequestArrived, Parse, ParseEOF,
    NeedMoreLines, FirstLine, AddHeader, ReadKnownBody, ReadUntilEOF, CompleteMessage, TrailerOver
<1>7. pc' = "chunks" => message'.state = "body"
  <2>1. CASE StartReadChunked \/ ChunkHeader \/ Chunk \/ UNCHANGED vars
    BY <2>1 DEF StartReadChunked, ChunkHeader, Chunk, vars, ShapesOK
  <2> QED BY <2>1 DEF ShapesOK, Next, ParsingStep, NewRequestArrived, Parse, ParseEOF, NeedMoreLines, FirstLine,
    AddHeader, DoneWithHeaders, ReadKnownBody, ReadUntilEOF, CompleteMessage, NeedMoreOfBody, TrailerOver
<1> QED BY <1>4, <1>6, <1>7 DEF ShapesOK

LEMMA MatchStart ==
  ASSUME Init, Framed(script.kind, Ms)
  PROVE  MatchOK
<1>1. Len(Ms) \in Nat
  BY FramedMessages
<1>2. complete = <<>> /\ requests = <<>> /\ asked = 0 /\ message.state = "first_line"
  BY DEF Init, NewMessage
<1>3. Done = 0
  BY <1>2 DEF Done, Begun
<1> QED BY <1>1, <1>2, <1>3 DEF MatchOK, Ms

\* Only these three do anything to the requests.
LEMMA OthersMatch ==
  ASSUME MatchOK, ShapesOK, UNCHANGED <<script, asked, requests, complete>>,
         message'.state = "first_line" <=> message.state = "first_line",
         message'.request = message.request
  PROVE  MatchOK'
<1>1. Begun' = Begun /\ Done' = Done
  BY DEF Begun, Done
<1> QED BY <1>1 DEF MatchOK

LEMMA RequestMatches ==
  ASSUME MatchOK, Framed(script.kind, Ms), NewRequestArrived
  PROVE  MatchOK'
<1> DEFINE N == Len(Ms)
           q == Ms[asked + 1].request
           T == {m.request : m \in Range(Ms)}
<1>1. N \in Nat /\ DOMAIN Ms = 1 .. N
  BY FramedMessages
<1>2. Done' = Done /\ UNCHANGED <<script, complete, message>>
  BY DEF NewRequestArrived, Done, Begun
<1>3. /\ asked \in Nat /\ Done <= asked /\ requests \in Seq(T) /\ Len(requests) = asked - Done
      /\ \A i \in 1 .. asked - Done : requests[i] = Ms[Done + i].request
  BY DEF MatchOK, NewRequestArrived, Ms
<1>4. asked < N /\ asked' = asked + 1 /\ requests' = Append(requests, q)
  <2>1. Len(Requests) = N
    BY <1>1 DEF Requests, Ms
  <2>2. asked + 1 \in 1 .. N
    BY <1>1, <1>3, <2>1 DEF NewRequestArrived
  <2> QED BY <1>1, <2>1, <2>2 DEF NewRequestArrived, Requests, Ms
<1>5. q \in T
  <2>1. asked + 1 \in DOMAIN Ms
    BY <1>1, <1>3, <1>4
  <2> QED BY <2>1 DEF Range
<1>6. Done \in Nat
  BY DEF Done, Begun, MatchOK
<1> HIDE DEF q, T, N
<1>7. /\ requests' \in Seq(T) /\ Len(requests') = asked' - Done
      /\ \A i \in 1 .. asked' - Done : requests'[i] = Ms[Done + i].request
  <2>1. requests' \in Seq(T) /\ Len(requests') = asked' - Done
    BY <1>3, <1>4, <1>5, <1>6
  <2>2. ASSUME NEW i \in 1 .. asked' - Done PROVE requests'[i] = Ms[Done + i].request
    <3>1. i \in 1 .. asked - Done \/ i = asked + 1 - Done
      BY <1>3, <1>4, <1>6
    <3>2. CASE i \in 1 .. asked - Done
      BY <1>3, <1>4, <1>5, <3>2
    <3>3. CASE i = asked + 1 - Done
      <4>1. i = Len(requests) + 1 /\ Done + i = asked + 1
        BY <1>3, <1>6, <3>3
      <4> QED BY <1>3, <1>4, <1>5, <4>1 DEF q
    <3> QED BY <3>1, <3>2, <3>3
  <2> QED BY <2>1, <2>2
<1>8. asked' \in Nat /\ asked' <= N /\ Done <= asked'
  BY <1>1, <1>3, <1>4, <1>6
<1> QED BY <1>2, <1>7, <1>8 DEF MatchOK, N, T, Ms

LEMMA FirstLineMatches ==
  ASSUME MatchOK, ShapesOK, FirstLine, Framed(script.kind, Ms)
  PROVE  MatchOK'
<1> DEFINE T == {m.request : m \in Range(Ms)}
<1>1. CASE script.kind = "responses" /\ requests = <<>>
  BY <1>1, OthersMatch DEF FirstLine, stream
<1>2. CASE script.kind # "responses"
  BY <1>2 DEF FirstLine, stream, MatchOK
<1>3. CASE script.kind = "responses" /\ requests # <<>>
  <2>1. /\ asked \in Nat /\ Done <= asked /\ requests \in Seq(T) /\ Len(requests) = asked - Done
        /\ \A i \in 1 .. asked - Done : requests[i] = Ms[Done + i].request
    BY <1>3 DEF MatchOK, Ms
  <2>2. /\ UNCHANGED <<script, asked, complete>> /\ message.state = "first_line"
        /\ message' = [message EXCEPT !.state = "headers", !.first = Line, !.request = Head(requests)]
        /\ requests' = Tail(requests)
    BY <1>3 DEF FirstLine, stream, PopFront
  <2>3. message'.state = "headers" /\ message'.request = Head(requests)
    BY <2>2 DEF ShapesOK, MessageFields
  <2>4. Done = Len(complete) /\ Done' = Done + 1 /\ Done \in Nat
    BY <2>2, <2>3 DEF Done, Begun, MatchOK
  <2> HIDE DEF T
  <2>5. Len(requests) # 0 /\ 1 \in 1 .. asked - Done /\ Head(requests) = requests[1]
    BY <1>3, <2>1, <2>4
  <2>6. message'.request = Ms[Len(complete) + 1].request
    BY <2>1, <2>3, <2>4, <2>5
  <2>7. requests' \in Seq(T) /\ Len(requests') = asked - Done' /\ Done' <= asked
    BY <2>1, <2>2, <2>4, <2>5
  <2>8. ASSUME NEW i \in 1 .. asked - Done' PROVE requests'[i] = Ms[Done' + i].request
    <3>1. i + 1 \in 1 .. asked - Done /\ Done + (i + 1) = Done' + i
      BY <2>1, <2>4
    <3>2. requests'[i] = requests[i + 1]
      BY <2>1, <2>2, <2>5, <2>7
    <3> QED BY <2>1, <3>1, <3>2
  <2> QED BY <2>2, <2>6, <2>7, <2>8 DEF MatchOK, T, Ms
<1> QED BY <1>1, <1>2, <1>3

LEMMA CompleteMatches ==
  ASSUME MatchOK, CompleteMessage, Framed(script.kind, Ms)
  PROVE  MatchOK'
<1> DEFINE n == Len(complete)
           V == Range(complete) \union {message}
<1>1. /\ UNCHANGED <<script, asked, requests>> /\ message.state = "complete" /\ message'.state = "first_line"
      /\ complete' = Append(complete, message)
  BY DEF CompleteMessage, stream, NewMessage
<1>2. complete \in Seq(V) /\ message \in V /\ n \in Nat
  BY DEF MatchOK
<1> HIDE DEF V
<1>3. /\ complete' \in Seq(V) /\ Len(complete') = n + 1 /\ complete'[n + 1] = message
      /\ \A i \in 1 .. n : complete'[i] = complete[i]
  BY <1>1, <1>2
<1>4. complete' \in Seq(Range(complete'))
  <2>1. complete' \in [1 .. n + 1 -> Range(complete')]
    <3> DEFINE d == complete'
    <3>1. d \in [1 .. n + 1 -> V]
      BY <1>3
    <3> HIDE DEF d
    <3>2. d \in [1 .. n + 1 -> Range(d)]
      BY <3>1 DEF Range
    <3> QED BY <3>2 DEF d
  <2> QED BY <1>2, <2>1
<1>5. Done' = Done
  BY <1>1, <1>2, <1>3 DEF Done, Begun
<1>6. script.kind = "responses" =>
        \A i \in 1 .. n + 1 : complete'[i].request = Ms[i].request
  <2> SUFFICES ASSUME script.kind = "responses", NEW i \in 1 .. n + 1
               PROVE  complete'[i].request = Ms[i].request
    OBVIOUS
  <2>1. i \in 1 .. n \/ i = n + 1
    BY <1>2
  <2>2. message.request = Ms[n + 1].request /\ \A j \in 1 .. n : complete[j].request = Ms[j].request
    BY <1>1 DEF MatchOK, Ms
  <2> QED BY <1>3, <2>1, <2>2
<1> HIDE DEF n
<1> QED BY <1>1, <1>3, <1>4, <1>5, <1>6 DEF MatchOK, Ms

LEMMA MatchKept ==
  ASSUME MatchOK, ShapesOK, Framed(script.kind, Ms), [Next]_vars
  PROVE  MatchOK'
<1>1. CASE NewRequestArrived
  BY <1>1, RequestMatches
<1>2. CASE FirstLine
  BY <1>2, FirstLineMatches
<1>3. CASE CompleteMessage
  BY <1>3, CompleteMatches
<1>4. CASE UNCHANGED vars
  BY <1>4, OthersMatch DEF vars
<1>5. CASE Parse \/ NeedMoreLines \/ StartReadChunked \/ ChunkHeader \/ Chunk
  BY <1>5, OthersMatch DEF Parse, NeedMoreLines, StartReadChunked, ChunkHeader, Chunk, stream
<1>6. CASE ParseEOF
  BY <1>6, OthersMatch DEF ParseEOF, ShapesOK, MessageFields
<1>7. CASE AddHeader
  BY <1>7, OthersMatch DEF AddHeader, ShapesOK, MessageFields, stream
<1>8. CASE DoneWithHeaders
  BY <1>8, OthersMatch DEF DoneWithHeaders, ShapesOK, MessageFields, stream
<1>9. CASE ReadKnownBody
  BY <1>9, OthersMatch DEF ReadKnownBody, ShapesOK, MessageFields, stream
<1>10. CASE ReadUntilEOF \/ NeedMoreOfBody
  BY <1>10, OthersMatch DEF ReadUntilEOF, NeedMoreOfBody, ShapesOK, MessageFields, stream
<1>11. CASE TrailerOver
  <2>1. message.state = "body" /\ UNCHANGED <<script, asked, requests, complete>>
    BY <1>11 DEF TrailerOver, ShapesOK, stream
  <2>2. UNCHANGED message \/ \E b : message' = [message EXCEPT !.state = "complete", !.body = b]
    BY <1>11 DEF TrailerOver
  <2>3. message'.state # "first_line" /\ message'.request = message.request
    BY <2>1, <2>2 DEF ShapesOK, MessageFields
  <2> QED BY <2>1, <2>3, OthersMatch
<1> QED BY <1>1, <1>2, <1>3, <1>4, <1>5, <1>6, <1>7, <1>8, <1>9, <1>10, <1>11 DEF Next, ParsingStep

LEMMA MatchedThen == MatchOK /\ Framed(script.kind, Ms) => Matched
<1> SUFFICES ASSUME MatchOK, Framed(script.kind, Ms), script.kind = "responses", NEW i \in DOMAIN complete
             PROVE  complete[i].request = Requests[i]
  BY DEF Matched
<1>1. DOMAIN complete = 1 .. Len(complete) /\ Len(complete) \in Nat
  BY DEF MatchOK
<1>2. Len(complete) <= Len(Ms) /\ DOMAIN Ms = 1 .. Len(Ms) /\ Len(Ms) \in Nat
  <2>1. Len(complete) <= Done /\ Done <= asked /\ asked <= Len(Ms) /\ Done \in Nat /\ asked \in Nat
    BY <1>1 DEF Done, Begun, MatchOK, Ms
  <2>2. DOMAIN Ms = 1 .. Len(Ms) /\ Len(Ms) \in Nat
    BY FramedMessages
  <2> QED BY <1>1, <2>1, <2>2
<1>3. i \in DOMAIN script.messages
  BY <1>1, <1>2 DEF Ms
<1> QED BY <1>1, <1>3 DEF MatchOK, Requests

-----------------------------------------------------------------------------
(***************************************************************************)
(* The rule for the length of a message depends on its head alone.         *)
(***************************************************************************)
\* msg has the head of m, and, when that tells, the request of m.
SameHead(kind, msg, m) == HasHead(msg, m) /\ (kind # "requests" => msg.request = m.request)

LEMMA SameHeaders ==
  ASSUME NEW msg, NEW m, HasHead(msg, m), NEW key
  PROVE  /\ HasHeader(msg, key) = HasHeader(Parsed(m), key)
         /\ GetHeader(msg, key) = GetHeader(Parsed(m), key)
BY DEF HasHead, Parsed, HasHeader, GetHeader

LEMMA SameRule ==
  ASSUME NEW kind, NEW msg, NEW m, SameHead(kind, msg, m)
  PROVE  RuleFor(kind, msg) = RuleFor(kind, Parsed(m))
<1> DEFINE p == Parsed(m)
<1>1. HasHead(msg, m) /\ p.first = msg.first /\ (kind # "requests" => p.request = msg.request)
  BY DEF SameHead, HasHead, Parsed
<1>2. \A key : HasHeader(msg, key) = HasHeader(p, key) /\ GetHeader(msg, key) = GetHeader(p, key)
  BY <1>1, SameHeaders
<1> HIDE DEF p
<1>3. RequestBody(msg) = RequestBody(p)
  BY <1>1, <1>2 DEF RequestBody
<1>4. kind # "requests" => ResponseBody(msg) = ResponseBody(p)
  BY <1>1, <1>2 DEF ResponseBody
<1>5. RuleFor(kind, msg) = RuleFor(kind, p)
  BY <1>3, <1>4 DEF RuleFor
<1> QED BY <1>5 DEF p

\* What the length of a framed message is.
IsRuled(m, rule, trailers, length) ==
  \/ rule = "none" /\ m.length = "known" /\ m.body = <<>>
  \/ rule = "length" /\ m.length = "known" /\ Len(m.body) = length
  \/ rule = "chunked" /\ m.length = "chunked" /\ IsChunked(m.body, trailers)
  \/ rule = "until_eof" /\ m.length = "until_eof"
  \/ rule = "unsupported" /\ m.length = "unsupported"

LEMMA FramedByRule ==
  ASSUME NEW kind, NEW m, IsFramed(kind, m), HasColons(m), NEW msg, SameHead(kind, msg, m)
  PROVE  IsRuled(m, RuleFor(kind, msg), HasHeader(msg, "Trailer"), LengthOf[GetHeader(msg, "Content-Length")])
<1> DEFINE p == Parsed(m)
<1>1. HasHead(msg, m)
  BY DEF SameHead
<1>2. /\ RuleFor(kind, msg) = RuleFor(kind, p) /\ HasHeader(msg, "Trailer") = HasHeader(p, "Trailer")
      /\ GetHeader(msg, "Content-Length") = GetHeader(p, "Content-Length")
  BY <1>1, SameRule, SameHeaders
<1>3. Range(m.headers) \subseteq DOMAIN KeyOf
  <2>1. DOMAIN m.headers = 1 .. Len(m.headers)
    BY DEF IsFramed
  <2> QED BY <2>1 DEF HasColons, Range
<1>4. p = [first |-> <<m.first>>, headers |-> m.headers, request |-> m.request]
  BY DEF Parsed
<1> HIDE DEF p
<1>5. IsRuled(m, RuleFor(kind, p), HasHeader(p, "Trailer"), LengthOf[GetHeader(p, "Content-Length")])
  BY <1>3, <1>4 DEF IsFramed, IsRuled
<1> QED BY <1>2, <1>5

\* Without a colon in each header, there is no telling.
LEMMA NoColon ==
  ASSUME NEW kind, NEW m, IsFramed(kind, m), NEW k \in 1 .. Len(m.headers), m.headers[k] \notin DOMAIN KeyOf
  PROVE  m.length = "unsupported"
<1>1. m.headers[k] \in Range(m.headers)
  <2>1. DOMAIN m.headers = 1 .. Len(m.headers)
    BY DEF IsFramed
  <2> QED BY <2>1 DEF Range
<1> QED BY <1>1 DEF IsFramed

-----------------------------------------------------------------------------
(***************************************************************************)
(* The chunks of a body, and where the parser is among them.               *)
(***************************************************************************)
SizesOK == DOMAIN ChunkSizeOf \subseteq Words /\ \A c \in DOMAIN ChunkSizeOf : ChunkSizeOf[c] \in Nat

End(trailers) == IF trailers THEN CRLF \o CRLF ELSE CRLF

LEMMA EndIs == ASSUME NEW trailers PROVE End(trailers) \in Seq(Tokens) /\ End(trailers) # <<>> /\ Len(End(trailers)) >= 2
<1>1. CASE trailers
  <2> DEFINE c == CRLF
             y == 2
  <2>1. c \in Seq(Tokens) /\ Len(c) = y /\ y \in Nat
    BY LineEnd
  <2> HIDE DEF c, y
  <2>2. c \o c \in Seq(Tokens) /\ Len(c \o c) = y + y
    BY <2>1
  <2>3. End(trailers) = c \o c
    BY <1>1 DEF End, c
  <2> QED BY <2>2, <2>3 DEF y
<1>2. CASE ~trailers
  BY <1>2, LineEnd DEF End
<1> QED BY <1>1, <1>2

LEMMA MinOfTwo == ASSUME NEW a \in Nat, NEW b \in Nat PROVE Min({a, b}) = IF a <= b THEN a ELSE b
<1> DEFINE S == {a, b}
           m == IF a <= b THEN a ELSE b
<1>1. m \in S /\ \A y \in S : m <= y
  OBVIOUS
<1>2. \A x \in S : (\A y \in S : x <= y) => x = m
  OBVIOUS
<1>3. Min(S) \in S /\ \A y \in S : Min(S) <= y
  BY <1>1 DEF Min
<1> HIDE DEF S, m
<1> QED BY <1>2, <1>3 DEF S, m

LEMMA SubstrHere ==
  ASSUME NEW s \in Seq(Tokens), NEW n \in Nat
  PROVE  /\ Len(s) >= n + 2 => Substr(s, n, 2) = SubSeq(s, n + 1, n + 2)
         /\ Substr(s, n, 2) = CRLF => Len(s) >= n + 2
<1>1. n + 2 \in Nat /\ Len(s) \in Nat
  OBVIOUS
<1>2. Min({n + 2, Len(s)}) = IF n + 2 <= Len(s) THEN n + 2 ELSE Len(s)
  BY <1>1, MinOfTwo
<1>3. Substr(s, n, 2) = SubSeq(s, n + 1, IF n + 2 <= Len(s) THEN n + 2 ELSE Len(s))
  BY <1>2 DEF Substr
<1>4. ASSUME Substr(s, n, 2) = CRLF PROVE Len(s) >= n + 2
  <2> SUFFICES ASSUME Len(s) < n + 2 PROVE FALSE
    BY <1>1
  <2>1. SubSeq(s, n + 1, Len(s)) = CRLF
    BY <1>1, <1>3, <1>4
  <2> DEFINE r == SubSeq(s, n + 1, Len(s))
  <2>2. Len(r) = IF n + 1 <= Len(s) THEN Len(s) - n ELSE 0
    <3> DEFINE k == Len(s)
               j == n + 1
    <3>1. k \in Nat /\ k <= Len(s) /\ j \in Nat \ {0} /\ k - j + 1 = k - n
      OBVIOUS
    <3>2. r = SubSeq(s, j, k)
      OBVIOUS
    <3> HIDE DEF k, j, r
    <3>3. Len(r) = IF j <= k THEN k - j + 1 ELSE 0
      BY <3>1, <3>2
    <3> QED BY <3>1, <3>3 DEF k, j
  <2> HIDE DEF r
  <2>3. Len(r) = 2
    BY <2>1, LineEnd DEF r
  <2> DEFINE k == Len(s)
  <2>4. k \in Nat /\ k < n + 2 /\ 2 = IF n + 1 <= k THEN k - n ELSE 0
    BY <1>1, <2>2, <2>3
  <2> HIDE DEF k
  <2>5. n + 1 <= k \/ n + 1 > k
    BY <2>4
  <2> QED BY <2>4, <2>5
<1> QED BY <1>1, <1>3, <1>4

\* A chunk of body starts after p, and its header is there.
IsChunkAt(starts, body, trailers, p) ==
  LET size == ChunkSizeOf[body[p + 1]]
      rest == PopBytes(body, p + 3)
  IN
  /\ p \in Nat /\ p + 3 <= Len(body) /\ WordAt(body, p, body[p + 1])
  /\ size \in Nat /\ body[p + 1] \in DOMAIN ChunkSizeOf
  /\ rest \in Seq(Tokens) /\ Len(rest) = Len(body) - p - 3
  /\ size = 0 => EndsWithFirst(rest, End(trailers), Find(rest, End(trailers)))
  /\ size # 0 => p + size + 5 \in starts /\ p + size + 8 <= Len(body) /\ SubSeq(rest, size + 1, size + 2) = CRLF

LEMMA ChunkAt ==
  ASSUME SizesOK, NEW body \in Seq(Tokens), NEW starts, NEW trailers, Leads(starts, body, trailers), NEW p \in starts
  PROVE  IsChunkAt(starts, body, trailers, p)
<1> DEFINE size == ChunkSizeOf[body[p + 1]]
           rest == PopBytes(body, p + 3)
           end == End(trailers)
           L == Len(body)
<1>1. /\ L \in Nat /\ \A q \in starts : q \in 0 .. L - 3
      /\ body[p + 1] \in DOMAIN ChunkSizeOf
      /\ SubSeq(body, p + 2, p + 3) = CRLF
  BY DEF Leads
<1>2. p \in Nat /\ p + 3 <= L
  BY <1>1
<1>3. body[p + 1] \in Words /\ size \in Nat
  BY <1>1 DEF SizesOK
<1>4. body[p + 2] = "cr" /\ body[p + 3] = "lf"
  <2> DEFINE s == SubSeq(body, p + 2, p + 3)
  <2>1. s[1] = body[p + 2] /\ s[2] = body[p + 3]
    BY <1>2
  <2> QED BY <1>1, <2>1, LineEnd
<1>5. WordAt(body, p, body[p + 1])
  BY <1>2, <1>3, <1>4 DEF WordAt
<1>6. rest \in Seq(Tokens) /\ Len(rest) = L - p - 3
  BY <1>2 DEF PopBytes
<1>7. IF size = 0
        THEN Find(rest, end) # 0 /\ Find(rest, end) + Len(end) - 1 = Len(rest)
        ELSE Substr(rest, size, 2) = CRLF /\ p + size + 5 \in starts
  BY DEF Leads, End
<1>8. end \in Seq(Tokens) /\ end # <<>> /\ Len(end) \in Nat
  <2> HIDE DEF end
  <2>1. end \in Seq(Tokens) /\ end # <<>>
    BY EndIs DEF end
  <2> QED BY <2>1
<1> HIDE DEF size, rest, end, L
<1>9. ASSUME size = 0 PROVE EndsWithFirst(rest, end, Find(rest, end))
  <2> DEFINE z == Find(rest, end)
  <2>1. z # 0 /\ z + Len(end) - 1 = Len(rest)
    BY <1>7, <1>9
  <2>2. /\ z \in {i \in 1 .. Len(rest) - Len(end) + 1 : At(rest, end, i)}
        /\ \A i \in {i \in 1 .. Len(rest) - Len(end) + 1 : At(rest, end, i)} : z <= i
    BY <1>6, <1>8, <2>1, FindIsFirst
  <2> HIDE DEF z
  <2>3. z \in Nat \ {0} /\ At(rest, end, z)
    BY <1>8, <2>2
  <2>4. ASSUME NEW i \in 1 .. z - 1 PROVE ~At(rest, end, i)
    <3>1. i \in 1 .. Len(rest) - Len(end) + 1 /\ ~(z <= i)
      BY <1>6, <1>8, <2>1, <2>3
    <3> QED BY <2>2, <3>1
  <2>5. Len(rest) = z + Len(end) - 1
    BY <2>1
  <2>6. EndsWithFirst(rest, end, z)
    BY <1>6, <1>8, <2>3, <2>4, <2>5 DEF EndsWithFirst
  <2> QED BY <2>6 DEF z
<1>10. ASSUME size # 0
       PROVE  p + size + 5 \in starts /\ p + size + 8 <= L /\ SubSeq(rest, size + 1, size + 2) = CRLF
  <2>1. p + size + 5 \in starts /\ p + size + 5 \in 0 .. L - 3
    BY <1>1, <1>7, <1>10
  <2>2. p + size + 8 <= L
    BY <1>1, <1>2, <1>3, <2>1
  <2> QED BY <1>3, <1>6, <1>7, <1>10, <2>1, <2>2, SubstrHere
<1>11. L = Len(body)
  BY DEF L
<1>12. size = ChunkSizeOf[body[p + 1]] /\ rest = PopBytes(body, p + 3) /\ end = End(trailers)
  BY DEF size, rest, end
<1> QED BY <1>1, <1>2, <1>3, <1>5, <1>6, <1>9, <1>10, <1>11, <1>12 DEF IsChunkAt

\* The body, with its chunks, comes after the first at tokens of f, of which t are read.
Chunks(c, body, trailers, f, at, t) ==
  /\ InChunks(c, body, trailers)
  /\ at \in Nat /\ Window(body, f, at, at + Len(body))
  /\ Window(c.buffer, f, at + c.parsed, t)

\* As Incomplete.
Waits(c) ==
  \/ c.buffer = <<>>
  \/ c.state = "header" /\ Find(c.buffer, CRLF) = 0
  \/ c.state = "chunk" /\ ~(Len(c.buffer) >= c.size + 2)
  \/ c.state = "trailer" /\ Find(c.buffer, End(c.trailers)) = 0

\* The chunk that c reads is the one after p.
ReadsChunk(c, body, p) ==
  \/ c.state = "header" /\ c.parsed = p
  \/ /\ c.parsed = p + 3 /\ c.size = ChunkSizeOf[body[p + 1]]
     /\ c.state = IF c.size = 0 THEN "trailer" ELSE "chunk"

LEMMA ChunkHere ==
  ASSUME SizesOK, NEW c, NEW body, NEW trailers, NEW f, NEW at, NEW t, Chunks(c, body, trailers, f, at, t)
  PROVE  \E starts : \E p \in starts :
           Leads(starts, body, trailers) /\ IsChunkAt(starts, body, trailers, p) /\ ReadsChunk(c, body, p)
<1>1. PICK starts :
        /\ Leads(starts, body, trailers)
        /\ \/ c.state = "header" /\ c.parsed \in starts
           \/ /\ c.state \in {"chunk", "trailer"} /\ c.parsed - 3 \in starts
              /\ c.size = ChunkSizeOf[body[c.parsed - 2]]
              /\ (c.state = "chunk" <=> c.size # 0)
  BY DEF Chunks, InChunks
<1>2. body \in Seq(Tokens) /\ c.parsed \in Nat
  BY DEF Chunks, InChunks, Window
<1>3. CASE c.state = "header" /\ c.parsed \in starts
  <2>1. IsChunkAt(starts, body, trailers, c.parsed)
    BY <1>1, <1>2, <1>3, ChunkAt
  <2> QED BY <1>1, <1>3, <2>1 DEF ReadsChunk
<1>4. CASE c.state # "header"
  <2> DEFINE p == c.parsed - 3
  <2>1. p \in starts /\ p + 3 = c.parsed /\ p + 1 = c.parsed - 2
    BY <1>1, <1>2, <1>4
  <2>2. c.state \in {"chunk", "trailer"} /\ (c.state = "chunk" <=> c.size # 0)
    BY <1>1, <1>4
  <2>3. c.size = ChunkSizeOf[body[p + 1]]
    BY <1>1, <1>4, <2>1
  <2> HIDE DEF p
  <2>4. IsChunkAt(starts, body, trailers, p)
    BY <1>1, <1>2, <2>1, ChunkAt
  <2>5. ReadsChunk(c, body, p)
    BY <2>1, <2>2, <2>3 DEF ReadsChunk
  <2> QED BY <1>1, <2>1, <2>4, <2>5
<1> QED BY <1>1, <1>3, <1>4

\* A part of a window is at its place.
LEMMA WordInside ==
  ASSUME NEW body, NEW f, NEW at, NEW p, NEW w, at \in Nat, Window(body, f, at, at + Len(body)), WordAt(body, p, w)
  PROVE  WordAt(f, at + p, w)
<1> DEFINE L == Len(body)
<1>1. p \in Nat /\ p + 3 <= L /\ L \in Nat /\ at + L <= Len(f) /\ f \in Seq(Tokens) /\ (at + L) - at = L
  BY DEF Window, WordAt
<1> HIDE DEF L
<1>2. \A k \in 1 .. L : body[k] = f[at + k]
  BY <1>1 DEF Window, L
<1>3. body[p + 1] = f[at + (p + 1)] /\ body[p + 2] = f[at + (p + 2)] /\ body[p + 3] = f[at + (p + 3)]
  BY <1>1, <1>2
<1>4. at + (p + 1) = (at + p) + 1 /\ at + (p + 2) = (at + p) + 2 /\ at + (p + 3) = (at + p) + 3
  BY <1>1
<1>5. at + p \in Nat /\ (at + p) + 3 <= Len(f)
  BY <1>1
<1> QED BY <1>3, <1>4, <1>5 DEF WordAt

\* Numbers of a chunk that starts after p.
LEMMA ChunkNumbers ==
  ASSUME NEW c, NEW body, NEW trailers, NEW f, NEW at, NEW t, Chunks(c, body, trailers, f, at, t),
         NEW starts, NEW p, IsChunkAt(starts, body, trailers, p)
  PROVE  /\ p \in Nat /\ at \in Nat /\ t \in Nat /\ Len(body) \in Nat /\ c.parsed \in Nat
         /\ p + 3 <= Len(body) /\ Len(c.buffer) \in Nat /\ c.buffer \in Seq(Tokens)
         /\ t = at + c.parsed + Len(c.buffer)
<1>1. p \in Nat /\ p + 3 <= Len(body)
  BY DEF IsChunkAt
<1>2. at \in Nat /\ c.parsed \in Nat /\ Len(body) \in Nat
  BY DEF Chunks, InChunks, Window
<1>3. c.buffer \in Seq(Tokens) /\ t \in Nat /\ Len(c.buffer) = t - (at + c.parsed) /\ Len(c.buffer) \in Nat
  BY DEF Chunks, Window
<1> QED BY <1>1, <1>2, <1>3

LEMMA HeaderInChunks ==
  ASSUME NEW c, NEW body, NEW trailers, NEW f, NEW at, NEW t, Chunks(c, body, trailers, f, at, t),
         NEW starts, NEW p, IsChunkAt(starts, body, trailers, p), c.parsed = p
  PROVE  LineRead(c.buffer, f, at + p, t, body[p + 1])
<1>1. WordAt(body, p, body[p + 1])
  BY DEF IsChunkAt
<1>2. WordAt(f, at + p, body[p + 1])
  BY <1>1, WordInside DEF Chunks
<1>3. Window(c.buffer, f, at + p, t)
  BY DEF Chunks
<1> DEFINE w == body[p + 1]
<1> HIDE DEF w
<1>4. LineRead(c.buffer, f, at + p, t, w)
  BY <1>2, <1>3, LineIn DEF w
<1> QED BY <1>4 DEF w

\* The trailer ends where the body does.
LEMMA TrailerInChunks ==
  ASSUME NEW c, NEW body, NEW trailers, NEW f, NEW at, NEW t, Chunks(c, body, trailers, f, at, t),
         NEW starts, NEW p, IsChunkAt(starts, body, trailers, p), c.parsed = p + 3, ChunkSizeOf[body[p + 1]] = 0
  PROVE  LET z == Find(c.buffer, End(trailers)) IN
         /\ z \in Nat /\ c.parsed < Len(body)
         /\ t < at + Len(body) => z = 0
         /\ t >= at + Len(body) => z # 0 /\ c.parsed + z + Len(End(trailers)) - 1 = Len(body)
<1> DEFINE rest == PopBytes(body, p + 3)
           end == End(trailers)
           z == Find(rest, end)
           L == Len(body)
           b == c.buffer
<1>1. /\ p \in Nat /\ at \in Nat /\ t \in Nat /\ L \in Nat /\ p + 3 <= L
      /\ Len(b) \in Nat /\ b \in Seq(Tokens) /\ t = at + c.parsed + Len(b)
  BY ChunkNumbers
<1>2. EndsWithFirst(rest, end, z) /\ rest \in Seq(Tokens) /\ Len(rest) = L - p - 3
  BY DEF IsChunkAt
<1>3. Alike(b, rest)
  <2>1. Window(body, f, at, at + L) /\ p + 3 <= (at + L) - at /\ p + 3 \in Nat
    BY <1>1 DEF Chunks
  <2>2. Window(rest, f, at + (p + 3), at + L)
    BY <2>1, PoppedWindow
  <2>3. Window(b, f, at + (p + 3), t)
    BY DEF Chunks
  <2> QED BY <2>2, <2>3, WindowAlike
<1>4. Find(b, end) = IF Len(b) >= Len(rest) THEN z ELSE 0
  BY <1>1, <1>2, <1>3, FoundWhenHere
<1>5. end \in Seq(Tokens) /\ Len(end) >= 2 /\ Len(end) \in Nat /\ z \in Nat /\ z # 0 /\ Len(rest) = z + Len(end) - 1
  <2>1. end \in Seq(Tokens) /\ Len(end) >= 2
    BY EndIs
  <2> HIDE DEF end
  <2>2. Len(end) \in Nat
    BY <2>1
  <2> QED BY <1>2, <2>1, <2>2 DEF EndsWithFirst
<1> HIDE DEF rest, end, z, L, b
<1>6. c.parsed = p + 3 /\ c.parsed < L
  BY <1>1, <1>2, <1>5
<1>7. t < at + L <=> Len(b) < Len(rest)
  BY <1>1, <1>2, <1>6
<1>8. t < at + L => Find(b, end) = 0
  BY <1>1, <1>2, <1>4, <1>7
<1>9. t >= at + L => Find(b, end) = z /\ c.parsed + z + Len(end) - 1 = L
  <2>1. c.parsed + Len(rest) = L
    BY <1>1, <1>2, <1>6
  <2>2. c.parsed + z + Len(end) - 1 = L
    BY <1>1, <1>5, <1>6, <2>1
  <2>3. t >= at + L => ~(t < at + L)
    BY <1>1
  <2>4. Len(rest) \in Nat
    BY <1>5
  <2> QED BY <1>1, <1>4, <1>7, <2>2, <2>3, <2>4
<1>10. Find(b, end) \in Nat
  BY <1>4, <1>5
<1> QED BY <1>5, <1>6, <1>8, <1>9, <1>10 DEF L, b, end

LEMMA WaitsThen ==
  ASSUME SizesOK, NEW c, NEW body, NEW trailers, NEW f, NEW at, NEW t, Chunks(c, body, trailers, f, at, t), Waits(c)
  PROVE  t < at + Len(body)
<1>1. PICK starts : \E p \in starts :
        Leads(starts, body, trailers) /\ IsChunkAt(starts, body, trailers, p) /\ ReadsChunk(c, body, p)
  BY ChunkHere
<1>2. PICK p \in starts : IsChunkAt(starts, body, trailers, p) /\ ReadsChunk(c, body, p)
  BY <1>1
<1> DEFINE L == Len(body)
           b == c.buffer
           size == ChunkSizeOf[body[p + 1]]
<1>3. /\ p \in Nat /\ at \in Nat /\ t \in Nat /\ L \in Nat /\ c.parsed \in Nat /\ p + 3 <= L
      /\ Len(b) \in Nat /\ b \in Seq(Tokens) /\ t = at + c.parsed + Len(b)
  BY <1>2, ChunkNumbers
<1>4. c.trailers = trailers /\ size \in Nat
  BY <1>2 DEF Chunks, InChunks, IsChunkAt
<1>5. CASE c.state = "header"
  <2>1. c.parsed = p
    BY <1>2, <1>4, <1>5 DEF ReadsChunk
  <2> DEFINE w == body[p + 1]
  <2>2. LineRead(b, f, at + p, t, w)
    BY <1>2, <2>1, HeaderInChunks
  <2> HIDE DEF w, b
  <2>3. CASE b = <<>>
    BY <1>3, <2>1, <2>3
  <2>4. CASE Find(b, CRLF) = 0
    <3>1. t < at + p + 3
      BY <2>2, <2>4 DEF LineRead
    <3> QED BY <1>3, <3>1
  <2> QED BY <1>5, <2>3, <2>4 DEF Waits, b
<1>6. CASE c.state = "chunk"
  <2>1. c.parsed = p + 3 /\ c.size = size /\ size # 0
    BY <1>2, <1>6 DEF ReadsChunk
  <2>2. p + size + 8 <= L
    BY <1>2, <2>1 DEF IsChunkAt
  <2>3. Len(b) < size + 2
    BY <1>3, <1>4, <1>6, <2>1, SMTT(30) DEF Waits
  <2> HIDE DEF L, b, size
  <2> QED BY <1>3, <1>4, <2>1, <2>2, <2>3 DEF L
<1>7. CASE c.state = "trailer"
  <2>1. c.parsed = p + 3 /\ size = 0
    BY <1>2, <1>7 DEF ReadsChunk
  <2>2. c.parsed < L /\ (t >= at + L => Find(b, End(trailers)) # 0)
    BY <1>2, <2>1, TrailerInChunks
  <2>3. b = <<>> \/ Find(b, End(trailers)) = 0
    BY <1>4, <1>7 DEF Waits
  <2>4. CASE b = <<>>
    <3>1. t = at + c.parsed
      BY <1>3, <2>4
    <3> QED BY <1>3, <2>2, <3>1
  <2> QED BY <1>3, <2>2, <2>3, <2>4
<1> QED BY <1>2, <1>5, <1>6, <1>7 DEF ReadsChunk

LEMMA ChunksStart ==
  ASSUME NEW body, NEW trailers, IsChunked(body, trailers), NEW f, NEW at,
         at \in Nat, Window(body, f, at, at + Len(body))
  PROVE  Chunks(NewChunkedBodyParser(trailers), body, trailers, f, at, at)
<1> DEFINE c == NewChunkedBodyParser(trailers)
           L == Len(body)
<1>1. c.state = "header" /\ c.buffer = <<>> /\ c.acked = 0 /\ c.parsed = 0 /\ c.trailers = trailers
  BY DEF NewChunkedBodyParser
<1>2. PICK starts \in SUBSET {p \in 0 .. L - 3 : body[p + 1] \in DOMAIN ChunkSizeOf} : Leads(starts, body, trailers)
  BY DEF IsChunked, Leads
<1>3. 0 \in starts
  BY <1>2 DEF Leads
<1>4. L \in Nat /\ f \in Seq(Tokens) /\ at <= Len(f) /\ body \in Seq(Tokens)
  BY DEF Window
<1>5. 0 < L
  BY <1>2, <1>3, <1>4
<1>6. InChunks(c, body, trailers)
  BY <1>1, <1>2, <1>3, <1>5 DEF InChunks
<1>7. Window(<<>>, f, at, at)
  BY <1>4, EmptyWindow
<1>8. at + c.parsed = at
  BY <1>1
<1> HIDE DEF c
<1>9. Chunks(c, body, trailers, f, at, at)
  BY <1>1, <1>6, <1>7, <1>8 DEF Chunks
<1> QED BY <1>9 DEF c

\* n tokens of its buffer are understood.
IsUnderstood(d, c, n, state) ==
  /\ d.state = state /\ d.parsed = c.parsed + n /\ d.buffer = PopBytes(c.buffer, n)
  /\ d.acked = c.acked /\ d.trailers = c.trailers

LEMMA ChunkHeaderRead ==
  ASSUME SizesOK, NEW c, NEW body, NEW trailers, NEW f, NEW at, NEW t, Chunks(c, body, trailers, f, at, t),
         c.state = "header", ~Waits(c)
  PROVE  LET it == Find(c.buffer, CRLF)
             sizes == ChunkSizes(SubSeq(c.buffer, 1, it - 1))
         IN  /\ sizes # {}
             /\ \A size \in sizes : \A d :
                  IsUnderstood(d, c, it + 1, IF size = 0 THEN "trailer" ELSE "chunk") /\ d.size = size
                    => Chunks(d, body, trailers, f, at, t)
<1>1. PICK starts : \E p \in starts :
        Leads(starts, body, trailers) /\ IsChunkAt(starts, body, trailers, p) /\ ReadsChunk(c, body, p)
  BY ChunkHere
<1>2. PICK p \in starts : Leads(starts, body, trailers) /\ IsChunkAt(starts, body, trailers, p) /\ ReadsChunk(c, body, p)
  BY <1>1
<1> DEFINE w == body[p + 1]
           b == c.buffer
           it == Find(b, CRLF)
           s == SubSeq(b, 1, it - 1)
<1>3. c.parsed = p
  BY <1>2 DEF ReadsChunk
<1>4. LineRead(b, f, at + p, t, w)
  BY <1>2, <1>3, HeaderInChunks
<1>5. w \in DOMAIN ChunkSizeOf /\ p \in Nat
  BY <1>2 DEF IsChunkAt
<1>6. it # 0 /\ at \in Nat
  BY DEF Waits, Chunks
<1> HIDE DEF w, b
<1>7. it = 2 /\ SubSeq(b, 1, 1) = <<w>> /\ Window(PopBytes(b, 3), f, (at + p) + 3, t)
  BY <1>4, <1>6 DEF LineRead
<1>8. s = <<w>> /\ it + 1 = 3
  BY <1>7
<1> HIDE DEF it, s
<1>9. ChunkSizes(s) = {ChunkSizeOf[w]}
  BY <1>5, <1>8 DEF ChunkSizes
<1>10. ASSUME NEW d, d.size = ChunkSizeOf[w],
              IsUnderstood(d, c, 3, IF ChunkSizeOf[w] = 0 THEN "trailer" ELSE "chunk")
       PROVE  Chunks(d, body, trailers, f, at, t)
  <2>1. d.parsed = p + 3 /\ d.buffer = PopBytes(b, 3) /\ d.acked = c.acked /\ d.trailers = trailers
    BY <1>3, <1>10 DEF IsUnderstood, b, Chunks, InChunks
  <2>2. d.parsed \in Nat /\ d.parsed - 3 \in starts /\ d.parsed - 2 = p + 1 /\ at + d.parsed = (at + p) + 3
    BY <1>2, <1>5, <1>6, <2>1
  <2>3. d.size = ChunkSizeOf[body[d.parsed - 2]]
    BY <1>10, <2>2 DEF w
  <2>4. d.state = IF d.size = 0 THEN "trailer" ELSE "chunk"
    BY <1>10 DEF IsUnderstood
  <2>5. starts \in SUBSET {q \in 0 .. Len(body) - 3 : body[q + 1] \in DOMAIN ChunkSizeOf}
    BY <1>2 DEF Leads
  <2>6. d.acked \in Nat /\ d.acked < Len(body)
    BY <2>1 DEF Chunks, InChunks
  <2>7. InChunks(d, body, trailers)
    BY <1>2, <2>1, <2>2, <2>3, <2>4, <2>5, <2>6 DEF InChunks
  <2> QED BY <1>7, <2>1, <2>2, <2>7 DEF Chunks
<1>11. /\ ChunkSizes(s) # {}
       /\ \A size \in ChunkSizes(s) : \A d :
            IsUnderstood(d, c, it + 1, IF size = 0 THEN "trailer" ELSE "chunk") /\ d.size = size
              => Chunks(d, body, trailers, f, at, t)
  BY <1>8, <1>9, <1>10
<1> QED BY <1>11 DEF s, it, b

LEMMA ChunkRead ==
  ASSUME SizesOK, NEW c, NEW body, NEW trailers, NEW f, NEW at, NEW t, Chunks(c, body, trailers, f, at, t),
         c.state = "chunk", ~Waits(c)
  PROVE  /\ Substr(c.buffer, c.size, 2) = CRLF
         /\ \A d : IsUnderstood(d, c, c.size + 2, "header") => Chunks(d, body, trailers, f, at, t)
<1>1. PICK starts : \E p \in starts :
        Leads(starts, body, trailers) /\ IsChunkAt(starts, body, trailers, p) /\ ReadsChunk(c, body, p)
  BY ChunkHere
<1>2. PICK p \in starts : Leads(starts, body, trailers) /\ IsChunkAt(starts, body, trailers, p) /\ ReadsChunk(c, body, p)
  BY <1>1
<1> DEFINE L == Len(body)
           b == c.buffer
           size == ChunkSizeOf[body[p + 1]]
           rest == PopBytes(body, p + 3)
           x == at + (p + 3)
<1>3. /\ p \in Nat /\ at \in Nat /\ t \in Nat /\ L \in Nat /\ c.parsed \in Nat /\ p + 3 <= L
      /\ Len(b) \in Nat /\ b \in Seq(Tokens) /\ t = at + c.parsed + Len(b)
  BY <1>2, ChunkNumbers
<1>4. c.parsed = p + 3 /\ c.size = size /\ size # 0
  BY <1>2 DEF ReadsChunk
<1>5. /\ size \in Nat /\ p + size + 5 \in starts /\ p + size + 8 <= L
      /\ SubSeq(rest, size + 1, size + 2) = CRLF
  BY <1>2, <1>4 DEF IsChunkAt
<1>6. Len(b) >= size + 2
  BY <1>4 DEF Waits
<1>7. Window(b, f, x, t)
  BY <1>4 DEF Chunks
<1>8. Window(rest, f, x, at + L)
  <2>1. Window(body, f, at, at + L) /\ p + 3 \in Nat /\ p + 3 <= (at + L) - at
    BY <1>3 DEF Chunks
  <2> QED BY <2>1, PoppedWindow
<1> HIDE DEF L, b, size, rest
<1>9. x \in Nat /\ size + 2 \in Nat /\ size <= size + 2 /\ size + 2 <= t - x /\ size + 2 <= (at + L) - x
  BY <1>3, <1>4, <1>5, <1>6
<1> HIDE DEF x
<1>10. Window(SubSeq(b, size + 1, size + 2), f, x + size, x + (size + 2))
  BY <1>5, <1>7, <1>9, PartOfWindow
<1>11. Window(SubSeq(rest, size + 1, size + 2), f, x + size, x + (size + 2))
  BY <1>5, <1>8, <1>9, PartOfWindow
<1>12. SubSeq(b, size + 1, size + 2) = CRLF
  BY <1>5, <1>10, <1>11, SameWindow
<1>13. Substr(b, size, 2) = CRLF
  BY <1>3, <1>5, <1>6, <1>12, SubstrHere
<1>14. Window(PopBytes(b, size + 2), f, x + (size + 2), t)
  BY <1>7, <1>9, PoppedWindow
<1>15. ASSUME NEW d, IsUnderstood(d, c, c.size + 2, "header") PROVE Chunks(d, body, trailers, f, at, t)
  <2>1. /\ d.state = "header" /\ d.parsed = (p + 3) + (size + 2) /\ d.buffer = PopBytes(b, size + 2)
        /\ d.acked = c.acked /\ d.trailers = trailers
    BY <1>4, <1>15 DEF IsUnderstood, b, Chunks, InChunks
  <2>2. d.parsed = p + size + 5 /\ d.parsed \in Nat /\ at + d.parsed = x + (size + 2)
    <3>1. d.parsed = p + size + 5
      BY <1>3, <1>5, <2>1
    <3>2. at + (p + size + 5) = x + (size + 2) /\ p + size + 5 \in Nat
      BY <1>3, <1>5 DEF x
    <3> QED BY <3>1, <3>2
  <2>3. starts \in SUBSET {q \in 0 .. Len(body) - 3 : body[q + 1] \in DOMAIN ChunkSizeOf}
    BY <1>2 DEF Leads
  <2>4. d.acked \in Nat /\ d.acked < Len(body)
    BY <2>1 DEF Chunks, InChunks
  <2>5. d.parsed \in starts
    BY <1>5, <2>2
  <2>6. InChunks(d, body, trailers)
    BY <1>2, <2>1, <2>2, <2>3, <2>4, <2>5 DEF InChunks
  <2> QED BY <1>14, <2>1, <2>2, <2>6 DEF Chunks
<1> QED BY <1>4, <1>13, <1>15 DEF b, size

\* The same with more in its buffer, or acked.
LEMMA ChunksGoOn ==
  ASSUME NEW c, NEW body, NEW trailers, NEW f, NEW at, NEW t, Chunks(c, body, trailers, f, at, t),
         NEW d, NEW u, Window(d.buffer, f, at + c.parsed, u), d.acked \in Nat, d.acked < Len(body),
         d.state = c.state, d.parsed = c.parsed, d.size = c.size, d.trailers = c.trailers
  PROVE  Chunks(d, body, trailers, f, at, u)
<1>1. InChunks(d, body, trailers)
  BY DEF Chunks, InChunks
<1> QED BY <1>1 DEF Chunks

LEMMA TrailerRead ==
  ASSUME SizesOK, NEW c, NEW body, NEW trailers, NEW f, NEW at, NEW t, Chunks(c, body, trailers, f, at, t),
         c.state = "trailer", ~Waits(c)
  PROVE  /\ t >= at + Len(body)
         /\ c.parsed + Find(c.buffer, End(c.trailers)) + Len(End(c.trailers)) - 1 = Len(body)
<1>1. PICK starts : \E p \in starts :
        Leads(starts, body, trailers) /\ IsChunkAt(starts, body, trailers, p) /\ ReadsChunk(c, body, p)
  BY ChunkHere
<1>2. PICK p \in starts : IsChunkAt(starts, body, trailers, p) /\ ReadsChunk(c, body, p)
  BY <1>1
<1>3. c.parsed = p + 3 /\ ChunkSizeOf[body[p + 1]] = 0
  BY <1>2 DEF ReadsChunk
<1>4. c.trailers = trailers /\ Find(c.buffer, End(c.trailers)) # 0
  BY DEF Chunks, InChunks, Waits
<1> DEFINE x == at + Len(body)
           z == Find(c.buffer, End(trailers))
<1>5. (t < x => z = 0) /\ (t >= x => c.parsed + z + Len(End(trailers)) - 1 = Len(body))
  BY <1>2, <1>3, TrailerInChunks
<1>6. x \in Nat /\ t \in Nat
  BY <1>2, ChunkNumbers
<1> HIDE DEF x
<1>7. t >= x
  BY <1>4, <1>5, <1>6
<1> QED BY <1>4, <1>5, <1>7 DEF x

-----------------------------------------------------------------------------
(***************************************************************************)
(* Between two calls, what was sent is read.                               *)
(***************************************************************************)
\* What Reads says, by the state of the message.
LEMMA WhichState ==
  ASSUME NEW msg, NEW c, NEW b, NEW cs, NEW t, NEW cl, NEW p, NEW ms, Reads(msg, c, b, cs, t, cl, p, ms)
  PROVE  LET n == Len(cs)
             ended == cl /\ IsEnded(msg, b, cs, t, ms)
             sent == n <= Len(ms) /\ AreSent(cs, n, ms)
         IN  /\ p \in {"idle", "parsing", "chunks"}
             /\ p = "chunks" => sent /\ ~cl /\ InChunkedBody(msg, c, b, n, t, t, ms)
             /\ p # "chunks" /\ msg.state = "first_line" =>
                  ended \/ (sent /\ AtFirstLine(msg, b, n, t, ms) /\ (p = "idle" \/ cl => NoLine(b)))
             /\ p # "chunks" /\ msg.state = "headers" =>
                  sent /\ ~cl /\ InHeaders(msg, b, n, t, ms) /\ (p = "idle" => NoLine(b))
             /\ p # "chunks" /\ msg.state = "body" =>
                  /\ sent /\ ~cl
                  /\ \/ InKnownBody(msg, b, n, t, ms) /\ (p = "idle" => b = <<>> /\ Len(msg.body) < msg.size)
                     \/ InEndlessBody(msg, b, n, t, ms) /\ (p = "idle" => b = <<>>)
                     \/ InChunkedBody(msg, c, b, n, t, t - Len(b), ms) /\ (p = "idle" => b = <<>>)
             /\ p # "chunks" /\ msg.state = "complete" => sent /\ p = "parsing" /\ IsOver(msg, b, n, t, cl, ms)
             /\ p # "chunks" => msg.state \in {"first_line", "headers", "body", "complete"}
<1> DEFINE n == Len(cs)
           sent == n <= Len(ms) /\ AreSent(cs, n, ms)
<1>1. CASE p \in {"idle", "parsing"} /\ cl /\ IsEnded(msg, b, cs, t, ms)
  <2>1. msg.state = "first_line"
    BY <1>1 DEF IsEnded, NewMessage
  <2> QED BY <1>1, <2>1
<1>2. CASE sent /\ p \in {"idle", "parsing"} /\ AtFirstLine(msg, b, n, t, ms) /\ (p = "idle" \/ cl => NoLine(b))
  <2>1. msg.state = "first_line"
    BY <1>2 DEF AtFirstLine, NewMessage
  <2> QED BY <1>2, <2>1
<1>3. CASE sent /\ p \in {"idle", "parsing"} /\ ~cl /\ InHeaders(msg, b, n, t, ms) /\ (p = "idle" => NoLine(b))
  <2>1. msg.state = "headers"
    BY <1>3 DEF InHeaders
  <2> QED BY <1>3, <2>1
<1>4. CASE sent /\ p \in {"idle", "parsing"} /\ ~cl /\ InKnownBody(msg, b, n, t, ms) /\ (p = "idle" => b = <<>> /\ Len(msg.body) < msg.size)
  <2>1. msg.state = "body"
    BY <1>4 DEF InKnownBody, InBody
  <2> QED BY <1>4, <2>1
<1>5. CASE sent /\ p \in {"idle", "parsing"} /\ ~cl /\ InEndlessBody(msg, b, n, t, ms) /\ (p = "idle" => b = <<>>)
  <2>1. msg.state = "body"
    BY <1>5 DEF InEndlessBody, InBody
  <2> QED BY <1>5, <2>1
<1>6. CASE sent /\ p \in {"idle", "parsing"} /\ ~cl /\ InChunkedBody(msg, c, b, n, t, t - Len(b), ms) /\ (p = "idle" => b = <<>>)
  <2>1. msg.state = "body"
    BY <1>6 DEF InChunkedBody, InBody
  <2> QED BY <1>6, <2>1
<1>7. CASE sent /\ p = "chunks" /\ ~cl /\ InChunkedBody(msg, c, b, n, t, t, ms)
  BY <1>7
<1>8. CASE sent /\ p = "parsing" /\ IsOver(msg, b, n, t, cl, ms)
  <2>1. msg.state = "complete"
    BY <1>8 DEF IsOver
  <2> QED BY <1>8, <2>1
<1> QED BY <1>1, <1>2, <1>3, <1>4, <1>5, <1>6, <1>7, <1>8 DEF Reads

\* Where the next message is, if it is not read.
LEMMA FarEnough ==
  ASSUME NEW kind, NEW ms, NEW b, NEW n, NEW t, Holds(kind, ms, b, n, t), NEW x \in Nat, t - Len(b) = Base(ms, n) + x
  PROVE  Base(ms, n) <= t
<1>1. Base(ms, n) \in Nat
  <2>1. n \in 0 .. Len(ms)
    BY FramedMessages DEF Holds
  <2> QED BY <2>1, FramedMessages DEF Holds
<1>2. t \in Nat /\ Len(b) \in Nat
  BY DEF Holds, Window
<1> QED BY <1>1, <1>2

IsRead(n) ==
  /\ AreSent(complete, n, Ms) /\ AreWhole(Ms, n, taken)
  /\ closed /\ n < Len(Ms) => taken < Base(Ms, n) + HeadLen(Ms[n + 1])

LEMMA FirstLineIsRead ==
  ASSUME NEW n, Holds(script.kind, Ms, buffer, n, taken), AreSent(complete, n, Ms),
         AtFirstLine(message, buffer, n, taken, Ms), NoLine(buffer)
  PROVE  IsRead(n)
<1> DEFINE t == taken
           base == Base(Ms, n)
<1>1. n < Len(Ms) => t < base + 3
  BY NoFirstLine
<1>2. base <= t
  <2>1. t - Len(buffer) = base + 0
    <3>1. t - Len(buffer) = base /\ t - Len(buffer) \in Nat
      BY DEF AtFirstLine, Holds, Window
    <3> QED BY <3>1
  <2> QED BY <2>1, FarEnough
<1>3. n < Len(Ms) => t < base + HeadLen(Ms[n + 1]) /\ t < Base(Ms, n + 1)
  <2> SUFFICES ASSUME n < Len(Ms) PROVE t < base + HeadLen(Ms[n + 1]) /\ t < Base(Ms, n + 1)
    OBVIOUS
  <2> DEFINE h == HeadLen(Ms[n + 1])
             l == Len(Ms[n + 1].body)
             H == Len(Ms[n + 1].headers)
             end == Base(Ms, n + 1)
  <2>1. base \in Nat /\ h = 3 * H + 5 /\ H \in Nat /\ t \in Nat /\ end = base + h + l /\ l \in Nat
    BY NextOne
  <2> HIDE DEF base, h, t, l, H, end
  <2>2. h \in Nat /\ h >= 5
    BY <2>1
  <2>3. t < base + h
    BY <1>1, <2>1, <2>2
  <2>4. t < end
    BY <2>1, <2>2, <2>3
  <2> QED BY <2>3, <2>4 DEF h, end
<1>4. AreWhole(Ms, n, t)
  BY <1>2, <1>3, WholeWhen
<1> QED BY <1>3, <1>4 DEF IsRead

LEMMA HeadersAreRead ==
  ASSUME NEW n, Holds(script.kind, Ms, buffer, n, taken), AreSent(complete, n, Ms),
         InHeaders(message, buffer, n, taken, Ms), NoLine(buffer)
  PROVE  IsRead(n)
<1> DEFINE t == taken
           base == Base(Ms, n)
           h == HeadLen(Ms[n + 1])
<1>1. t < base + h
  BY NoHeader
<1>2. n < Len(Ms)
  BY DEF InHeaders
<1>3. base <= t
  <2>1. PICK k \in 0 .. Len(Ms[n + 1].headers) : t - Len(buffer) = base + 3 * k + 3
    BY DEF InHeaders
  <2>2. Len(Ms[n + 1].headers) \in Nat /\ base \in Nat
    BY <1>2, NextOne
  <2>3. 3 * k + 3 \in Nat /\ base + 3 * k + 3 = base + (3 * k + 3)
    BY <2>2
  <2> QED BY <2>1, <2>3, FarEnough
<1>4. t < Base(Ms, n + 1)
  <2>1. base \in Nat /\ h \in Nat /\ t \in Nat /\ Base(Ms, n + 1) = base + h + Len(Ms[n + 1].body) /\ Len(Ms[n + 1].body) \in Nat
    BY <1>2, NextOne
  <2> HIDE DEF base, h, t
  <2> DEFINE l == Len(Ms[n + 1].body)
  <2>2. l \in Nat /\ Base(Ms, n + 1) = base + h + l
    BY <2>1
  <2> HIDE DEF l
  <2> QED BY <1>1, <2>1, <2>2
<1>5. AreWhole(Ms, n, t)
  BY <1>3, <1>4, WholeWhen
<1> QED BY <1>1, <1>5 DEF IsRead

LEMMA BodyIsRead ==
  ASSUME NEW n, Holds(script.kind, Ms, buffer, n, taken), AreSent(complete, n, Ms), ~closed,
         InBody(message, buffer, n, taken, Ms), buffer = <<>>,
         Len(message.body) < Len(Ms[n + 1].body) \/ ~Delimited(Ms[n + 1])
  PROVE  IsRead(n)
<1> DEFINE t == taken
           base == Base(Ms, n)
           h == HeadLen(Ms[n + 1])
           l == Len(message.body)
<1>1. n < Len(Ms) /\ t - Len(buffer) = base + h + l /\ l \in Nat
  BY BodyRead
<1>2. base \in Nat /\ h \in Nat
  BY <1>1, NextOne
<1>3. base <= t
  <2>1. h + l \in Nat /\ base + h + l = base + (h + l)
    BY <1>1, <1>2
  <2> QED BY <1>1, <2>1, FarEnough
<1>4. t < Base(Ms, n + 1) \/ ~Delimited(Ms[n + 1])
  BY BodyNotWhole
<1>5. AreWhole(Ms, n, t)
  BY <1>3, <1>4, WholeWhen
<1> QED BY <1>5 DEF IsRead

\* What is known of every state.
Streamed ==
  script \in Scripts /\ script.kind \in {"requests", "responses"} /\ Framed(script.kind, Ms) /\ SizesOK

LEMMA HoldsHere ==
  ASSUME Streamed, ReadsWhatIsSent, Len(complete) <= Len(Ms)
  PROVE  Holds(script.kind, Ms, buffer, Len(complete), taken)
BY DEF Streamed, ReadsWhatIsSent, Holds, Ms

LEMMA IdleIsSent ==
  ASSUME Streamed, ReadsWhatIsSent, ReadingOK
  PROVE  MessagesAreAsSent
<1> SUFFICES ASSUME pc = "idle" PROVE Views = Expected
  BY DEF MessagesAreAsSent, Views, View
<1> DEFINE n == Len(complete)
<1>1. Reads(message, chunked, buffer, complete, taken, closed, pc, Ms)
  BY DEF ReadingOK, Ms
<1>2. Framed(script.kind, Ms) /\ complete \in Seq(Range(complete)) /\ taken \in Nat /\ taken <= Len(Full(Ms))
  BY DEF Streamed, ReadsWhatIsSent, Ms
<1>3. n <= Len(Ms) => Holds(script.kind, Ms, buffer, n, taken)
  BY HoldsHere
<1>4. CASE closed /\ IsEnded(message, buffer, complete, taken, Ms)
  BY <1>2, <1>4, LastIsCut
<1>5. CASE IsRead(n)
  BY <1>2, <1>5, AllAreSent DEF IsRead
<1>6. CASE message.state = "first_line" /\ ~(closed /\ IsEnded(message, buffer, complete, taken, Ms))
  <2>1. n <= Len(Ms) /\ AreSent(complete, n, Ms) /\ AtFirstLine(message, buffer, n, taken, Ms) /\ NoLine(buffer)
    BY <1>1, <1>6, WhichState
  <2> QED BY <1>3, <1>5, <2>1, FirstLineIsRead
<1>7. CASE message.state = "headers"
  <2>1. n <= Len(Ms) /\ AreSent(complete, n, Ms) /\ InHeaders(message, buffer, n, taken, Ms) /\ NoLine(buffer)
    BY <1>1, <1>7, WhichState
  <2> QED BY <1>3, <1>5, <2>1, HeadersAreRead
<1>8. CASE message.state = "body"
  <2>1. /\ n <= Len(Ms) /\ AreSent(complete, n, Ms) /\ ~closed
        /\ \/ InKnownBody(message, buffer, n, taken, Ms) /\ buffer = <<>> /\ Len(message.body) < message.size
           \/ InEndlessBody(message, buffer, n, taken, Ms) /\ buffer = <<>>
           \/ InChunkedBody(message, chunked, buffer, n, taken, taken - Len(buffer), Ms) /\ buffer = <<>>
    BY <1>1, <1>8, WhichState
  <2>2. /\ InBody(message, buffer, n, taken, Ms) /\ buffer = <<>>
        /\ Len(message.body) < Len(Ms[n + 1].body) \/ ~Delimited(Ms[n + 1])
    BY <2>1 DEF InKnownBody, InEndlessBody, InChunkedBody, InChunks, Delimited
  <2> QED BY <1>3, <1>5, <2>1, <2>2, BodyIsRead
<1>9. message.state \in {"first_line", "headers", "body"}
  BY <1>1, WhichState
<1> QED BY <1>4, <1>6, <1>7, <1>8, <1>9

-----------------------------------------------------------------------------
(***************************************************************************)
(* Steps of the parser.                                                    *)
(***************************************************************************)
LEMMA PoppedRest ==
  ASSUME NEW b, NEW f, NEW t, Window(b, f, t - Len(b), t), NEW x \in Nat, x <= Len(b)
  PROVE  LET d == PopBytes(b, x) IN
         /\ Window(d, f, t - Len(d), t) /\ Len(d) = Len(b) - x /\ t - Len(d) = (t - Len(b)) + x
         /\ d \in Seq(Tokens)
<1> DEFINE d == PopBytes(b, x)
           i == t - Len(b)
<1>1. i \in Nat /\ t \in Nat /\ Len(b) = t - i /\ Len(b) \in Nat
  BY DEF Window
<1>2. Window(d, f, i + x, t)
  BY <1>1, PoppedWindow
<1> HIDE DEF d, i
<1>3. Len(d) = t - (i + x) /\ d \in Seq(Tokens)
  BY <1>2 DEF Window
<1>4. Len(d) = Len(b) - x /\ t - Len(d) = i + x
  BY <1>1, <1>3
<1> QED BY <1>2, <1>3, <1>4 DEF d, i

LEMMA NothingFound == NoLine(<<>>)
<1> DEFINE b == <<>>
           places == {i \in 1 .. Len(b) - Len(CRLF) + 1 : At(b, CRLF, i)}
<1>1. b \in Seq(Tokens) /\ CRLF \in Seq(Tokens) /\ CRLF # <<>> /\ Len(CRLF) = 2 /\ Len(b) = 0
  <2>1. CRLF # <<>>
    BY DEF CRLF
  <2> QED BY <2>1, LineEnd
<1>2. places = {}
  BY <1>1
<1> HIDE DEF b
<1>3. Find(b, CRLF) = 0
  BY <1>1, <1>2, FindIsFirst
<1> QED BY <1>3 DEF NoLine, b

LEMMA FirstLineRead ==
  ASSUME NEW kind, NEW ms, NEW b, NEW n, NEW t, Holds(kind, ms, b, n, t), NEW msg,
         AtFirstLine(msg, b, n, t, ms), ~NoLine(b)
  PROVE  /\ n < Len(ms) /\ Base(ms, n) < t /\ Find(b, CRLF) = 2 /\ 3 <= Len(b)
         /\ SubSeq(b, 1, Find(b, CRLF) - 1) = <<ms[n + 1].first>>
         /\ \A d : d.state = "headers" /\ d.first = <<ms[n + 1].first>> /\ d.headers = <<>> /\ d.body = <<>>
              => InHeaders(d, PopBytes(b, 3), n, t, ms)
<1> DEFINE at == Base(ms, n)
           m == ms[n + 1]
           w == m.first
<1>1. n < Len(ms)
  <2> SUFFICES ASSUME n = Len(ms) PROVE FALSE
    BY FramedMessages DEF Holds
  <2>1. t - Len(b) = Len(Full(ms)) /\ t <= Len(Full(ms)) /\ t \in Nat /\ Len(b) \in Nat /\ b \in Seq(Tokens)
    BY FramedMessages DEF Holds, Window, AtFirstLine
  <2>2. b = <<>>
    BY <2>1
  <2> QED BY <2>2, NothingFound
<1>2. /\ at \in Nat /\ Len(m.headers) \in Nat /\ t \in Nat /\ Placed(Full(ms), at, Base(ms, n + 1), m)
  BY <1>1, NextOne
<1>3. WordAt(Full(ms), at, w)
  BY <1>2, FirstLineAt
<1>4. Window(b, Full(ms), at, t)
  BY DEF Holds, AtFirstLine
<1>5. LineRead(b, Full(ms), at, t, w)
  <2> HIDE DEF at, w
  <2> QED BY <1>3, <1>4, LineIn
<1>6. t >= at + 3 /\ Find(b, CRLF) = 2 /\ SubSeq(b, 1, 1) = <<w>>
  <2> HIDE DEF at, w
  <2> QED BY <1>5 DEF LineRead, NoLine
<1>7. Len(b) = t - at /\ Len(b) \in Nat
  BY <1>4 DEF Window
<1>8. 3 <= Len(b) /\ at < t
  <2> HIDE DEF at
  <2> QED BY <1>2, <1>6, <1>7
<1>9. m.headers \in Seq(Tokens)
  BY <1>2, WordsAreTokens DEF Placed
<1>10. ASSUME NEW d, d.state = "headers", d.first = <<w>>, d.headers = <<>>, d.body = <<>>
       PROVE  InHeaders(d, PopBytes(b, 3), n, t, ms)
  <2> DEFINE r == PopBytes(b, 3)
  <2>1. t - Len(r) = (t - Len(b)) + 3
    BY <1>8, PoppedRest DEF Holds
  <2> HIDE DEF r
  <2>2. t - Len(r) = at + 3 * 0 + 3
    BY <1>2, <2>1 DEF AtFirstLine
  <2>3. Window(<<>>, m.headers, 0, 0)
    BY <1>9, EmptyWindow
  <2>4. 0 \in 0 .. Len(m.headers) /\ \A i \in 1 .. 0 : m.headers[i] \in DOMAIN KeyOf
    BY <1>2
  <2>5. InHeaders(d, r, n, t, ms)
    BY <1>1, <1>10, <2>2, <2>3, <2>4 DEF InHeaders
  <2> QED BY <2>5 DEF r
<1>11. SubSeq(b, 1, Find(b, CRLF) - 1) = <<w>>
  BY <1>6
<1> QED BY <1>1, <1>6, <1>8, <1>10, <1>11

\* A header, or the blank line.
HeaderIs(msg, b, n, t, ms) ==
  LET m == ms[n + 1]
      it == Find(b, CRLF)
      line == SubSeq(b, 1, it - 1)
      rest == PopBytes(b, it + 1)
  IN
  \/ /\ line # <<>>
     /\ \E w : /\ line = <<w>>
               /\ w \in DOMAIN KeyOf =>
                    \A d : d.state = "headers" /\ d.first = msg.first /\ d.headers = msg.headers \o line /\ d.body = msg.body
                      => InHeaders(d, rest, n, t, ms)
               /\ w \notin DOMAIN KeyOf => m.length = "unsupported"
  \/ /\ line = <<>> /\ HasHead(msg, m) /\ HasColons(m)
     /\ t - Len(rest) = Base(ms, n) + HeadLen(m)
     /\ \A d : d.state = "body" /\ HasHead(d, m) /\ d.body = <<>> => InBody(d, rest, n, t, ms)

LEMMA HeaderRead ==
  ASSUME NEW kind, NEW ms, NEW b, NEW n, NEW t, Holds(kind, ms, b, n, t), NEW msg,
         InHeaders(msg, b, n, t, ms), ~NoLine(b)
  PROVE  Find(b, CRLF) \in Nat /\ Find(b, CRLF) + 1 <= Len(b) /\ HeaderIs(msg, b, n, t, ms)
<1> DEFINE m == ms[n + 1]
           f == Full(ms)
           base == Base(ms, n)
           h == HeadLen(m)
           H == Len(m.headers)
           hs == m.headers
<1>1. PICK k \in 0 .. H :
        /\ t - Len(b) = base + 3 * k + 3
        /\ msg.first = <<m.first>> /\ Window(msg.headers, hs, 0, k) /\ msg.body = <<>>
        /\ \A i \in 1 .. k : hs[i] \in DOMAIN KeyOf
  BY DEF InHeaders
<1>2. n < Len(ms)
  BY DEF InHeaders
<1>3. Placed(f, base, Base(ms, n + 1), m) /\ base \in Nat /\ H \in Nat /\ h = 3 * H + 5 /\ t \in Nat /\ h \in Nat
  BY <1>2, NextOne
<1> DEFINE at == base + 3 * k + 3
<1>4. Window(b, f, at, t)
  BY <1>1 DEF Holds
<1>5. Len(b) = t - at /\ Len(b) \in Nat /\ at \in Nat /\ f \in Seq(Tokens) /\ b \in Seq(Tokens)
  BY <1>4 DEF Window
<1>6. hs \in Seq(Tokens) /\ k \in Nat
  BY <1>3, WordsAreTokens DEF Placed
<1>7. CASE k = H
  <2>1. BlankAt(f, at)
    BY <1>3, <1>7, BlankLineAt
  <2>2. BlankRead(b, f, at, t)
    <3> HIDE DEF at
    <3> QED BY <1>4, <2>1, BlankIn
  <2>3. t >= at + 2 /\ Find(b, CRLF) = 1 /\ SubSeq(b, 1, 0) = <<>>
    <3> HIDE DEF at
    <3> QED BY <2>2 DEF BlankRead, NoLine
  <2>4. 2 <= Len(b)
    <3> HIDE DEF at
    <3> QED BY <1>3, <1>5, <2>3
  <2>5. msg.headers = hs
    <3>1. Window(hs, hs, 0, H)
      BY <1>3, <1>6 DEF Window
    <3> QED BY <1>1, <1>7, <3>1, SameWindow
  <2>6. HasHead(msg, m) /\ HasColons(m)
    BY <1>1, <1>7, <2>5 DEF HasHead, HasColons
  <2> DEFINE rest == PopBytes(b, 2)
  <2>7. Window(rest, f, t - Len(rest), t) /\ t - Len(rest) = (t - Len(b)) + 2
    BY <2>4, PoppedRest DEF Holds
  <2> HIDE DEF rest
  <2>8. t - Len(rest) = base + h
    <3>1. t - Len(rest) = (base + 3 * H + 3) + 2
      BY <1>1, <1>7, <2>7
    <3> DEFINE y == t - Len(rest)
    <3> HIDE DEF y, base, h, H
    <3>2. y = (base + 3 * H + 3) + 2
      BY <3>1 DEF y
    <3>3. y = base + h
      BY <1>3, <3>2
    <3> QED BY <3>3 DEF y
  <2>9. ASSUME NEW d, d.state = "body", HasHead(d, m), d.body = <<>> PROVE InBody(d, rest, n, t, ms)
    <3>1. base + h \in Nat /\ base + h <= Len(f)
      <4>1. base + h <= Len(f)
        BY <1>3, PlacedLengths, Zenon
      <4>2. base + h \in Nat
        <5> HIDE DEF base, h
        <5> QED BY <1>3
      <4> QED BY <4>1, <4>2
    <3>2. Window(<<>>, f, base + h, t - Len(rest))
      <4> DEFINE y == base + h
      <4>1. y \in Nat /\ y <= Len(f) /\ t - Len(rest) = y
        BY <2>8, <3>1
      <4> HIDE DEF y, f
      <4>2. Window(<<>>, f, y, y)
        BY <1>5, <4>1, EmptyWindow
      <4> QED BY <4>1, <4>2 DEF y
    <3> QED BY <1>2, <2>9, <3>2 DEF InBody, HasBody
  <2>10. SubSeq(b, 1, Find(b, CRLF) - 1) = <<>> /\ PopBytes(b, Find(b, CRLF) + 1) = rest
    <3>1. 1 - 1 = 0 /\ 1 + 1 = 2
      OBVIOUS
    <3> QED BY <2>3, <3>1 DEF rest
  <2> HIDE DEF m, base, h
  <2>11. HeaderIs(msg, b, n, t, ms)
    BY <2>6, <2>8, <2>9, <2>10 DEF HeaderIs, m, base, h
  <2>12. Find(b, CRLF) \in Nat /\ Find(b, CRLF) + 1 <= Len(b)
    BY <2>3, <2>4
  <2> QED BY <2>11, <2>12
<1>8. CASE k # H
  <2> DEFINE w == hs[k + 1]
  <2>1. k < H
    BY <1>3, <1>8
  <2>2. WordAt(f, at, w)
    BY <1>3, <1>6, <2>1, HeaderAt
  <2>3. LineRead(b, f, at, t, w)
    <3> HIDE DEF at, w
    <3> QED BY <1>4, <2>2, LineIn
  <2>4. t >= at + 3 /\ Find(b, CRLF) = 2 /\ SubSeq(b, 1, 1) = <<w>>
    <3> HIDE DEF at, w
    <3> QED BY <2>3 DEF LineRead, NoLine
  <2>5. 3 <= Len(b)
    <3> HIDE DEF at
    <3> QED BY <1>3, <1>5, <2>4
  <2> DEFINE rest == PopBytes(b, 3)
  <2>6. t - Len(rest) = (t - Len(b)) + 3
    BY <2>5, PoppedRest DEF Holds
  <2>7. t - Len(rest) = base + 3 * (k + 1) + 3
    <3> HIDE DEF base, rest
    <3>1. t - Len(rest) = (base + 3 * k + 3) + 3
      BY <1>1, <2>6
    <3>2. (base + 3 * k + 3) + 3 = base + 3 * (k + 1) + 3
      BY <1>3, <1>6
    <3> QED BY <3>1, <3>2
  <2>8. ASSUME NEW d, d.state = "headers", d.first = msg.first, d.headers = msg.headers \o <<w>>, d.body = msg.body,
               w \in DOMAIN KeyOf
        PROVE  InHeaders(d, rest, n, t, ms)
    <3> DEFINE l == SubSeq(hs, k + 1, k + 1)
    <3>1. Window(l, hs, k, k + 1)
      BY <1>3, <1>6, <2>1, SubSeqIsWindow
    <3>2. l = <<w>>
      <4>1. l \in Seq(Tokens) /\ Len(l) = 1 /\ l[1] = hs[k + 1]
        BY <1>3, <1>6, <2>1
      <4> HIDE DEF l
      <4>2. l = <<l[1]>>
        BY <4>1
      <4> QED BY <4>1, <4>2
    <3> HIDE DEF l
    <3>3. Window(msg.headers \o <<w>>, hs, 0, k + 1)
      BY <1>1, <3>1, <3>2, JoinedWindows
    <3>4. \A i \in 1 .. k + 1 : hs[i] \in DOMAIN KeyOf
      <4> TAKE i \in 1 .. k + 1
      <4>1. i \in 1 .. k \/ i = k + 1
        BY <1>6
      <4> QED BY <1>1, <2>8, <4>1
    <3>5. k + 1 \in 0 .. H
      BY <1>3, <1>6, <2>1
    <3> HIDE DEF rest
    <3> QED BY <1>1, <1>2, <2>7, <2>8, <3>3, <3>4, <3>5 DEF InHeaders
  <2>9. w \notin DOMAIN KeyOf => m.length = "unsupported"
    <3>1. IsFramed(kind, m)
      BY <1>2, NextOne DEF Holds, Framed
    <3>2. k + 1 \in 1 .. H
      BY <1>3, <1>6, <2>1
    <3> QED BY <3>1, <3>2, NoColon
  <2>10. SubSeq(b, 1, Find(b, CRLF) - 1) = <<w>> /\ PopBytes(b, Find(b, CRLF) + 1) = rest
    <3>1. 2 - 1 = 1 /\ 2 + 1 = 3
      OBVIOUS
    <3> QED BY <2>4, <3>1
  <2>11. <<w>> # <<>>
    OBVIOUS
  <2> HIDE DEF m, rest, w
  <2>12. HeaderIs(msg, b, n, t, ms)
    BY <2>8, <2>9, <2>10, <2>11 DEF HeaderIs, m
  <2>13. Find(b, CRLF) \in Nat /\ Find(b, CRLF) + 1 <= Len(b)
    BY <2>4, <2>5
  <2> QED BY <2>12, <2>13
<1> QED BY <1>7, <1>8

ParserOK == ShapesOK /\ MatchOK /\ ReadsWhatIsSent /\ ReadingOK

LEMMA PoppedReads ==
  ASSUME ReadsWhatIsSent, MatchOK', UNCHANGED stream, NEW x \in Nat, x <= Len(buffer), buffer' = PopBytes(buffer, x)
  PROVE  ReadsWhatIsSent'
<1>1. Window(buffer, Full(Ms), taken - Len(buffer), taken)
  BY DEF ReadsWhatIsSent, Ms
<1>2. Window(buffer', Full(Ms), taken - Len(buffer'), taken)
  BY <1>1, PoppedRest
<1>3. complete' \in Seq(Range(complete'))
  BY DEF MatchOK
<1> QED BY <1>2, <1>3 DEF ReadsWhatIsSent, stream, Ms

LEMMA KeptReads ==
  ASSUME ReadsWhatIsSent, MatchOK', UNCHANGED <<stream, buffer>>
  PROVE  ReadsWhatIsSent'
<1>1. complete' \in Seq(Range(complete'))
  BY DEF MatchOK
<1> QED BY <1>1 DEF ReadsWhatIsSent, stream

LEMMA AllPopped ==
  ASSUME NEW b \in Seq(Tokens)
  PROVE  Len(b) \in Nat /\ PopBytes(b, Len(b)) = <<>>
<1> DEFINE d == PopBytes(b, Len(b))
<1>1. d \in Seq(Tokens) /\ Len(d) = 0
  BY DEF PopBytes
<1> HIDE DEF d
<1>2. d = <<>>
  BY <1>1
<1> QED BY <1>2 DEF d

LEMMA TakenReads ==
  ASSUME ReadsWhatIsSent, MatchOK', UNCHANGED stream, buffer' = <<>>
  PROVE  ReadsWhatIsSent'
<1>1. buffer \in Seq(Tokens)
  BY DEF ReadsWhatIsSent, Window
<1>2. Len(buffer) \in Nat /\ Len(buffer) <= Len(buffer) /\ buffer' = PopBytes(buffer, Len(buffer))
  BY <1>1, AllPopped
<1> QED BY <1>2, PoppedReads

LEMMA FirstLineReads ==
  ASSUME Streamed, ParserOK, MatchOK', FirstLine
  PROVE  ReadsWhatIsSent' /\ ReadingOK'
<1> DEFINE n == Len(complete)
           m == Ms[n + 1]
<1>1. /\ pc = "parsing" /\ message.state = "first_line" /\ ~NoLine(buffer) /\ UNCHANGED <<stream, chunked, complete>>
      /\ IF script.kind = "responses" /\ requests = <<>>
           THEN pc' = "threw"
           ELSE /\ message' = [message EXCEPT !.state = "headers", !.first = Line,
                                !.request = IF requests = <<>> THEN "" ELSE Head(requests)]
                /\ buffer' = BufferAfterLine /\ UNCHANGED pc
  BY DEF FirstLine, HaveCompleteLine, NoLine
<1>2. Reads(message, chunked, buffer, complete, taken, closed, pc, Ms)
  BY <1>1 DEF ParserOK, ReadingOK, Ms
<1>3. ~IsEnded(message, buffer, complete, taken, Ms)
  BY <1>1, NothingFound DEF IsEnded
<1>4. n <= Len(Ms) /\ AreSent(complete, n, Ms) /\ AtFirstLine(message, buffer, n, taken, Ms) /\ ~closed
  BY <1>1, <1>2, <1>3, WhichState
<1>5. Holds(script.kind, Ms, buffer, n, taken)
  BY <1>4, HoldsHere DEF ParserOK
<1>6. /\ n < Len(Ms) /\ Base(Ms, n) < taken /\ Find(buffer, CRLF) = 2 /\ 3 <= Len(buffer)
      /\ SubSeq(buffer, 1, Find(buffer, CRLF) - 1) = <<m.first>>
      /\ \A d : d.state = "headers" /\ d.first = <<m.first>> /\ d.headers = <<>> /\ d.body = <<>>
           => InHeaders(d, PopBytes(buffer, 3), n, taken, Ms)
  BY <1>1, <1>4, <1>5, FirstLineRead
<1>7. ~(script.kind = "responses" /\ requests = <<>>)
  <2> SUFFICES ASSUME script.kind = "responses", requests = <<>> PROVE FALSE
    OBVIOUS
  <2>1. n \in Nat /\ Done = n
    BY <1>1 DEF ParserOK, MatchOK, Done, Begun
  <2>2. asked - n = 0 /\ asked \in Nat
    BY <2>1 DEF ParserOK, MatchOK
  <2>3. n + 1 \in 1 .. Len(Ms) /\ (n + 1) - 1 = n
    BY <1>5, <1>6, NextOne
  <2>4. n + 1 <= asked
    BY <1>6, <2>3 DEF ParserOK, ReadsWhatIsSent, Ms
  <2> QED BY <2>1, <2>2, <2>4
<1>8. message' = [message EXCEPT !.state = "headers", !.first = Line,
                    !.request = IF requests = <<>> THEN "" ELSE Head(requests)]
  BY <1>1, <1>7
<1>9. buffer' = PopBytes(buffer, 3) /\ Line = <<m.first>>
  <2>1. 2 + 1 = 3
    OBVIOUS
  <2> QED BY <1>1, <1>6, <1>7, <2>1 DEF BufferAfterLine, Line
<1>10. message'.state = "headers" /\ message'.first = <<m.first>> /\ message'.headers = <<>> /\ message'.body = <<>>
  <2>1. message.headers = <<>> /\ message.body = <<>>
    BY <1>4 DEF AtFirstLine, NewMessage
  <2> HIDE DEF m
  <2> QED BY <1>8, <1>9, <2>1 DEF ParserOK, ShapesOK, MessageFields
<1>11. InHeaders(message', buffer', n, taken, Ms)
  BY <1>6, <1>9, <1>10
<1>12. Reads(message', chunked', buffer', complete', taken', closed', pc', Ms)
  BY <1>1, <1>4, <1>7, <1>11 DEF Reads, stream
<1>13. ReadingOK'
  BY <1>1, <1>12 DEF ReadingOK, Ms, stream
<1> QED BY <1>1, <1>6, <1>9, <1>13, PoppedReads DEF ParserOK

LEMMA NeedMoreLinesReads ==
  ASSUME Streamed, ParserOK, MatchOK', NeedMoreLines
  PROVE  ReadsWhatIsSent' /\ ReadingOK'
<1> DEFINE n == Len(complete)
<1>1. /\ pc = "parsing" /\ message.state \in {"first_line", "headers"} /\ NoLine(buffer)
      /\ pc' = "idle" /\ UNCHANGED <<stream, buffer, message, chunked, complete>>
  BY DEF NeedMoreLines, HaveCompleteLine, NoLine
<1>2. Reads(message, chunked, buffer, complete, taken, closed, pc, Ms)
  BY <1>1 DEF ParserOK, ReadingOK, Ms
<1>3. \/ closed /\ IsEnded(message, buffer, complete, taken, Ms)
      \/ /\ n <= Len(Ms) /\ AreSent(complete, n, Ms)
         /\ AtFirstLine(message, buffer, n, taken, Ms) \/ (~closed /\ InHeaders(message, buffer, n, taken, Ms))
  BY <1>1, <1>2, WhichState
<1>4. Reads(message, chunked, buffer, complete, taken, closed, "idle", Ms)
  BY <1>1, <1>3 DEF Reads
<1>5. ReadingOK'
  BY <1>1, <1>4 DEF ReadingOK, Ms, stream
<1> QED BY <1>1, <1>5, KeptReads DEF ParserOK

\* What is refused: the next message, after n, is not supported.
LEMMA RefusesUnsupported ==
  ASSUME Framed(script.kind, Ms), NEW n \in Nat, n < Len(Ms), AreSent(complete, n, Ms), taken \in Nat,
         Base(Ms, n) <= taken, Ms[n + 1].length = "unsupported"
  PROVE  NumWhole = n /\ NumWhole < Len(script.messages) /\ Current.length = "unsupported"
<1>1. AreWhole(Ms, n, taken)
  <2>1. n \in 0 .. Len(Ms)
    BY FramedMessages
  <2> QED BY <2>1 DEF AreWhole, AreSent, Delimited
<1>2. NumWhole = n
  BY <1>1, NumWholeIs
<1> QED BY <1>2 DEF Current, Ms

LEMMA InHeadersAfter ==
  ASSUME NEW kind, NEW ms, NEW b, NEW n, NEW t, Holds(kind, ms, b, n, t), NEW msg, InHeaders(msg, b, n, t, ms)
  PROVE  Base(ms, n) < t
<1> DEFINE base == Base(ms, n)
           H == Len(ms[n + 1].headers)
<1>1. PICK k \in 0 .. H : t - Len(b) = base + 3 * k + 3
  BY DEF InHeaders
<1>2. H \in Nat /\ base \in Nat /\ t \in Nat /\ Len(b) \in Nat
  BY NextOne DEF InHeaders
<1> DEFINE x == 3 * k
<1>3. x \in Nat /\ t - Len(b) = base + x + 3
  BY <1>1, <1>2
<1> HIDE DEF x, base
<1>4. base < t
  BY <1>2, <1>3
<1> QED BY <1>4 DEF base

LEMMA AddHeaderReads ==
  ASSUME Streamed, ParserOK, MatchOK', AddHeader
  PROVE  ReadsWhatIsSent' /\ ReadingOK'
<1> DEFINE n == Len(complete)
           m == Ms[n + 1]
           it == Find(buffer, CRLF)
<1>1. /\ pc = "parsing" /\ message.state = "headers" /\ ~NoLine(buffer) /\ UNCHANGED <<stream, chunked, complete>>
      /\ Line # <<>> /\ buffer' = BufferAfterLine
      /\ IF HasColon(Line)
           THEN message' = [message EXCEPT !.headers = @ \o Line] /\ UNCHANGED pc
           ELSE pc' = "threw" /\ UNCHANGED message
  BY DEF AddHeader, HaveCompleteLine, NoLine
<1>2. Reads(message, chunked, buffer, complete, taken, closed, pc, Ms)
  BY <1>1 DEF ParserOK, ReadingOK, Ms
<1>3. n <= Len(Ms) /\ AreSent(complete, n, Ms) /\ InHeaders(message, buffer, n, taken, Ms) /\ ~closed
  BY <1>1, <1>2, WhichState
<1>4. Holds(script.kind, Ms, buffer, n, taken)
  BY <1>3, HoldsHere DEF ParserOK
<1>5. it \in Nat /\ it + 1 <= Len(buffer) /\ HeaderIs(message, buffer, n, taken, Ms)
  BY <1>1, <1>3, <1>4, HeaderRead
<1>6. Line = SubSeq(buffer, 1, it - 1) /\ buffer' = PopBytes(buffer, it + 1)
  BY <1>1 DEF Line, BufferAfterLine
<1>7. PICK w : /\ Line = <<w>>
               /\ w \in DOMAIN KeyOf =>
                    \A d : /\ d.state = "headers" /\ d.first = message.first
                           /\ d.headers = message.headers \o Line /\ d.body = message.body
                      => InHeaders(d, buffer', n, taken, Ms)
               /\ w \notin DOMAIN KeyOf => m.length = "unsupported"
  BY <1>1, <1>5, <1>6 DEF HeaderIs
<1>8. HasColon(Line) <=> w \in DOMAIN KeyOf
  BY <1>7 DEF HasColon
<1>9. ReadingOK'
  <2>1. CASE HasColon(Line)
    <3>1. /\ message'.state = "headers" /\ message'.first = message.first
          /\ message'.headers = message.headers \o Line /\ message'.body = message.body
      BY <1>1, <2>1 DEF ParserOK, ShapesOK, MessageFields
    <3>2. InHeaders(message', buffer', n, taken, Ms)
      BY <1>7, <1>8, <2>1, <3>1
    <3>3. Reads(message', chunked', buffer', complete', taken', closed', pc', Ms)
      BY <1>1, <1>3, <2>1, <3>2 DEF Reads, stream
    <3> QED BY <1>1, <3>3 DEF ReadingOK, Ms, stream
  <2>2. CASE ~HasColon(Line)
    <3>1. m.length = "unsupported"
      BY <1>7, <1>8, <2>2
    <3>2. n \in Nat /\ n < Len(Ms) /\ taken \in Nat /\ Base(Ms, n) <= taken
      <4>1. n < Len(Ms) /\ n \in Nat /\ taken \in Nat
        BY <1>3, <1>4 DEF InHeaders, Holds, Window
      <4>2. Base(Ms, n) < taken /\ Base(Ms, n) \in Nat
        BY <1>3, <1>4, <4>1, InHeadersAfter, NextOne
      <4> QED BY <4>1, <4>2
    <3>3. NumWhole < Len(script.messages) /\ Current.length = "unsupported"
      BY <1>3, <3>1, <3>2, RefusesUnsupported DEF Streamed
    <3>4. UNCHANGED <<NumWhole, Current, script>>
      BY <1>1 DEF stream, NumWhole, Whole, WireOfFirst, Current
    <3>5. RefusesOnlyMalformed'
      BY <1>1, <2>2, <3>3, <3>4 DEF RefusesOnlyMalformed
    <3> QED BY <1>1, <2>2, <3>5 DEF ReadingOK
  <2> QED BY <2>1, <2>2
<1>10. it + 1 \in Nat
  BY <1>5
<1> QED BY <1>1, <1>5, <1>6, <1>9, <1>10, PoppedReads DEF ParserOK

LEMMA ChunksOfBody ==
  ASSUME NEW f, NEW base, NEW end, NEW m, Placed(f, base, end, m), NEW c, NEW trailers, NEW t
  PROVE  Chunks(c, m.body, trailers, f, base + HeadLen(m), t) <=>
           InChunks(c, m.body, trailers) /\ Window(c.buffer, f, base + HeadLen(m) + c.parsed, t)
<1> DEFINE at == base + HeadLen(m)
<1>1. Window(m.body, f, at, end)
  BY BodyIsWindow
<1>2. at \in Nat /\ end = at + Len(m.body)
  BY PlacedLengths
<1> HIDE DEF at
<1>3. Window(m.body, f, at, at + Len(m.body))
  BY <1>1, <1>2
<1>4. Chunks(c, m.body, trailers, f, at, t) <=> InChunks(c, m.body, trailers) /\ Window(c.buffer, f, at + c.parsed, t)
  BY <1>2, <1>3 DEF Chunks
<1> QED BY <1>4 DEF at

LEMMA ItsHead ==
  ASSUME Streamed, MatchOK, message.state # "first_line", NEW m, m = Ms[Len(complete) + 1], HasHead(message, m)
  PROVE  SameHead(script.kind, message, m)
BY DEF Streamed, MatchOK, SameHead, Ms

LEMMA DoneWithHeadersReads ==
  ASSUME Streamed, ParserOK, MatchOK', DoneWithHeaders
  PROVE  ReadsWhatIsSent' /\ ReadingOK'
<1> DEFINE n == Len(complete)
           m == Ms[n + 1]
           it == Find(buffer, CRLF)
           rule == RuleFor(script.kind, message)
           trailers == HasHeader(message, "Trailer")
           length == LengthOf[GetHeader(message, "Content-Length")]
<1>1. /\ pc = "parsing" /\ message.state = "headers" /\ ~NoLine(buffer) /\ UNCHANGED <<stream, complete>>
      /\ Line = <<>> /\ buffer' = BufferAfterLine
      /\ message' = [message EXCEPT !.state = "body", !.known = rule \in {"none", "length"},
                       !.size = SizeGiven(message),
                       !.parser = IF rule \in {"chunked", "until_eof"} THEN rule ELSE "none"]
      /\ chunked' = NewChunkedBodyParser(trailers)
      /\ pc' = IF rule = "unsupported" THEN "threw" ELSE pc
  BY DEF DoneWithHeaders, HaveCompleteLine, NoLine, BodyRule
<1>2. Reads(message, chunked, buffer, complete, taken, closed, pc, Ms)
  BY <1>1 DEF ParserOK, ReadingOK, Ms
<1>3. n <= Len(Ms) /\ AreSent(complete, n, Ms) /\ InHeaders(message, buffer, n, taken, Ms) /\ ~closed
  BY <1>1, <1>2, WhichState
<1>4. Holds(script.kind, Ms, buffer, n, taken)
  BY <1>3, HoldsHere DEF ParserOK
<1>5. it \in Nat /\ it + 1 <= Len(buffer) /\ HeaderIs(message, buffer, n, taken, Ms)
  BY <1>1, <1>3, <1>4, HeaderRead
<1>6. Line = SubSeq(buffer, 1, it - 1) /\ buffer' = PopBytes(buffer, it + 1)
  BY <1>1 DEF Line, BufferAfterLine
<1>7. /\ HasHead(message, m) /\ HasColons(m)
      /\ taken - Len(buffer') = Base(Ms, n) + HeadLen(m)
      /\ \A d : d.state = "body" /\ HasHead(d, m) /\ d.body = <<>> => InBody(d, buffer', n, taken, Ms)
  BY <1>1, <1>5, <1>6 DEF HeaderIs
<1>8. SameHead(script.kind, message, m)
  BY <1>1, <1>7, ItsHead DEF ParserOK
<1>9. Placed(Full(Ms), Base(Ms, n), Base(Ms, n + 1), m) /\ n < Len(Ms) /\ n + 1 \in 1 .. Len(Ms) /\ n \in Nat
  BY <1>3, <1>4, NextOne DEF InHeaders, Holds
<1>10. IsRuled(m, rule, trailers, length)
  <2>1. IsFramed(script.kind, m)
    BY <1>9 DEF Streamed, Framed
  <2> QED BY <1>7, <1>8, <2>1, FramedByRule
<1>11. /\ message'.state = "body" /\ message'.first = message.first /\ message'.headers = message.headers
       /\ message'.body = message.body /\ (message'.known <=> rule \in {"none", "length"})
       /\ message'.size = SizeGiven(message)
       /\ message'.parser = IF rule \in {"chunked", "until_eof"} THEN rule ELSE "none"
  <2> HIDE DEF rule
  <2> QED BY <1>1 DEF ParserOK, ShapesOK, MessageFields
<1>12. message'.body = <<>> /\ InBody(message', buffer', n, taken, Ms)
  <2>1. message.body = <<>>
    BY <1>3 DEF InHeaders
  <2>2. HasHead(message', m)
    BY <1>7, <1>11 DEF HasHead
  <2> QED BY <1>7, <1>11, <2>1, <2>2
<1>13. SizeGiven(message) = CASE rule = "none" -> 0 [] rule = "length" -> length [] OTHER -> -1
  BY DEF SizeGiven, BodyRule
<1> HIDE DEF rule, trailers, length
<1>14. ASSUME rule \in {"none", "length"} PROVE InKnownBody(message', buffer', n, taken, Ms)
  <2>1. m.length = "known" /\ message'.size = Len(m.body)
    <3>1. CASE rule = "none"
      BY <1>10, <1>11, <1>13, <3>1 DEF IsRuled
    <3>2. CASE rule = "length"
      BY <1>10, <1>11, <1>13, <3>2 DEF IsRuled
    <3> QED BY <1>14, <3>1, <3>2
  <2>2. Len(message'.body) <= message'.size
    BY <1>9, <1>12, <2>1, PlacedLengths
  <2>3. message'.known /\ message'.parser = "none"
    BY <1>11, <1>14
  <2> QED BY <1>12, <2>1, <2>2, <2>3 DEF InKnownBody
<1>15. ASSUME rule = "until_eof" PROVE InEndlessBody(message', buffer', n, taken, Ms)
  BY <1>10, <1>11, <1>12, <1>15 DEF IsRuled, InEndlessBody
<1>16. ASSUME rule = "chunked" PROVE InChunkedBody(message', chunked', buffer', n, taken, taken - Len(buffer'), Ms)
  <2> DEFINE at == Base(Ms, n) + HeadLen(m)
             f == Full(Ms)
  <2>1. IsChunked(m.body, trailers) /\ m.length = "chunked"
    BY <1>10, <1>16 DEF IsRuled
  <2>2. at \in Nat /\ Window(m.body, f, at, at + Len(m.body))
    <3>1. Base(Ms, n + 1) = at + Len(m.body) /\ at \in Nat
      BY <1>9, PlacedLengths
    <3>2. Window(m.body, f, at, Base(Ms, n + 1))
      BY <1>9, BodyIsWindow
    <3> QED BY <3>1, <3>2
  <2>3. Chunks(chunked', m.body, trailers, f, at, at)
    <3> HIDE DEF at, f, m
    <3> QED BY <1>1, <2>1, <2>2, ChunksStart
  <2>4. InChunks(chunked', m.body, trailers) /\ Window(chunked'.buffer, f, at + chunked'.parsed, at)
    BY <1>9, <2>3, ChunksOfBody
  <2>5. chunked'.acked = 0 /\ Len(message'.body) = 0
    BY <1>1, <1>12 DEF NewChunkedBodyParser
  <2>6. trailers = HasHeader(Parsed(m), "Trailer")
    BY <1>7, SameHeaders DEF trailers
  <2>7. ~message'.known /\ message'.parser = "chunked"
    BY <1>11, <1>16
  <2> QED BY <1>7, <1>12, <2>1, <2>4, <2>5, <2>6, <2>7 DEF InChunkedBody
<1>17. ReadingOK'
  <2>1. CASE rule = "unsupported"
    <3>1. m.length = "unsupported"
      BY <1>10, <2>1 DEF IsRuled
    <3>2. n \in Nat /\ n < Len(Ms) /\ taken \in Nat /\ Base(Ms, n) <= taken
      <4>1. Base(Ms, n) < taken /\ Base(Ms, n) \in Nat /\ taken \in Nat
        BY <1>3, <1>4, <1>9, InHeadersAfter, NextOne
      <4> QED BY <1>9, <4>1
    <3>3. NumWhole < Len(script.messages) /\ Current.length = "unsupported"
      BY <1>3, <3>1, <3>2, RefusesUnsupported DEF Streamed
    <3>4. UNCHANGED <<NumWhole, Current, script>>
      BY <1>1 DEF stream, NumWhole, Whole, WireOfFirst, Current
    <3>5. RefusesOnlyMalformed'
      BY <1>1, <2>1, <3>3, <3>4 DEF RefusesOnlyMalformed
    <3> QED BY <1>1, <2>1, <3>5 DEF ReadingOK
  <2>2. CASE rule # "unsupported"
    <3>1. \/ InKnownBody(message', buffer', n, taken, Ms)
          \/ InEndlessBody(message', buffer', n, taken, Ms)
          \/ InChunkedBody(message', chunked', buffer', n, taken, taken - Len(buffer'), Ms)
      BY <1>10, <1>14, <1>15, <1>16, <2>2 DEF IsRuled
    <3>2. Reads(message', chunked', buffer', complete', taken', closed', "parsing", Ms)
      BY <1>1, <1>3, <3>1 DEF Reads, stream
    <3> QED BY <1>1, <2>2, <3>2 DEF ReadingOK, Ms, stream
  <2> QED BY <2>1, <2>2
<1>18. it + 1 \in Nat
  BY <1>5
<1> QED BY <1>1, <1>5, <1>6, <1>17, <1>18, PoppedReads DEF ParserOK

\* The first x tokens of the buffer go to the body.
Grown(msg, b, n, t, ms, x) ==
  LET d == PopBytes(b, x)
      more == msg.body \o SubSeq(b, 1, x)
      at == Base(ms, n) + HeadLen(ms[n + 1])
  IN  /\ Window(more, Full(ms), at, t - Len(d))
      /\ Len(more) = Len(msg.body) + x /\ Len(msg.body) \in Nat
      /\ Len(d) = Len(b) - x /\ Len(b) \in Nat /\ t \in Nat /\ at \in Nat
      /\ t - Len(d) = at + Len(more)

LEMMA BodyGrows ==
  ASSUME NEW kind, NEW ms, NEW b, NEW n, NEW t, Holds(kind, ms, b, n, t), NEW msg, InBody(msg, b, n, t, ms),
         NEW x \in Nat, x <= Len(b)
  PROVE  Grown(msg, b, n, t, ms, x)
<1> DEFINE d == PopBytes(b, x)
           s == SubSeq(b, 1, x)
           more == msg.body \o s
           at == Base(ms, n) + HeadLen(ms[n + 1])
           i == t - Len(b)
           f == Full(ms)
<1>1. Window(b, f, i, t) /\ n < Len(ms) /\ Window(msg.body, f, at, i)
  BY BodyRead DEF Holds
<1>2. at \in Nat
  BY <1>1, NextOne
<1>3. i \in Nat /\ t \in Nat /\ Len(b) = t - i /\ Len(b) \in Nat /\ Len(msg.body) = i - at /\ Len(msg.body) \in Nat
  BY <1>1 DEF Window
<1>4. Len(d) = Len(b) - x /\ t - Len(d) = i + x
  BY <1>1, PoppedRest
<1>5. Window(s, f, i, i + x)
  <2> HIDE DEF i, f
  <2> DEFINE z == 0
  <2>1. z \in Nat /\ z <= x /\ x <= t - i
    BY <1>3
  <2>2. z + 1 = 1 /\ i + z = i
    BY <1>3
  <2> HIDE DEF z
  <2>3. Window(SubSeq(b, z + 1, x), f, i + z, i + x)
    BY <1>1, <2>1, PartOfWindow
  <2> QED BY <2>2, <2>3
<1> HIDE DEF i, f, at, s, d
<1>6. Window(more, f, at, i + x)
  BY <1>1, <1>5, JoinedWindows
<1>7. Len(more) = (i + x) - at
  BY <1>6 DEF Window
<1> HIDE DEF more
<1>8. Len(more) = Len(msg.body) + x /\ t - Len(d) = at + Len(more)
  BY <1>2, <1>3, <1>4, <1>7
<1> QED BY <1>2, <1>3, <1>4, <1>6, <1>8 DEF Grown, at, f, d, more, s

LEMMA ReadKnownBodyReads ==
  ASSUME Streamed, ParserOK, MatchOK', ReadKnownBody
  PROVE  ReadsWhatIsSent' /\ ReadingOK'
<1> DEFINE n == Len(complete)
           m == Ms[n + 1]
           a == AmountToAppend
           l == Len(message.body)
           body == message.body \o SubSeq(buffer, 1, a)
<1>1. /\ pc = "parsing" /\ message.state = "body" /\ message.known /\ UNCHANGED <<stream, chunked, complete>>
      /\ IF l > message.size
           THEN pc' = "aborted"
           ELSE /\ message' = [message EXCEPT !.body = body,
                                 !.state = IF Len(body) = message.size THEN "complete" ELSE @]
                /\ buffer' = PopBytes(buffer, a)
                /\ pc' = IF Len(body) = message.size THEN pc ELSE "idle"
  BY DEF ReadKnownBody
<1>2. Reads(message, chunked, buffer, complete, taken, closed, pc, Ms)
  BY <1>1 DEF ParserOK, ReadingOK, Ms
<1>3. /\ n <= Len(Ms) /\ AreSent(complete, n, Ms) /\ ~closed
      /\ InKnownBody(message, buffer, n, taken, Ms)
  <2>1. /\ n <= Len(Ms) /\ AreSent(complete, n, Ms) /\ ~closed
        /\ \/ InKnownBody(message, buffer, n, taken, Ms)
           \/ InEndlessBody(message, buffer, n, taken, Ms)
           \/ InChunkedBody(message, chunked, buffer, n, taken, taken - Len(buffer), Ms)
    BY <1>1, <1>2, WhichState
  <2> QED BY <1>1, <2>1 DEF InEndlessBody, InChunkedBody
<1>4. Holds(script.kind, Ms, buffer, n, taken)
  BY <1>3, HoldsHere DEF ParserOK
<1>5. /\ InBody(message, buffer, n, taken, Ms) /\ n < Len(Ms) /\ m.length = "known"
      /\ message.size = Len(m.body) /\ l <= message.size /\ message.parser = "none" /\ HasHead(message, m)
  BY <1>3 DEF InKnownBody, InBody, HasBody
<1>6. l \in Nat /\ Len(buffer) \in Nat /\ Len(m.body) \in Nat
  BY <1>4, <1>5, BodyRead, NextOne DEF Holds, Window
<1>7. a \in Nat /\ a <= Len(buffer) /\ l + a <= Len(m.body) /\ (l + a # Len(m.body) => a = Len(buffer))
  <2> DEFINE s == message.size
             y == Len(buffer)
  <2>1. a = IF s - l < y THEN s - l ELSE y
    BY DEF AmountToAppend
  <2>2. s \in Nat /\ l <= s /\ y \in Nat /\ s = Len(m.body)
    BY <1>5, <1>6
  <2> HIDE DEF a, s, y, l, m
  <2>3. a \in Nat /\ a <= y /\ l + a <= s /\ (l + a # s => a = y)
    BY <1>6, <2>1, <2>2
  <2> QED BY <2>2, <2>3 DEF y
<1> DEFINE at == Base(Ms, n) + HeadLen(m)
           d == PopBytes(buffer, a)
<1>8. /\ Window(body, Full(Ms), at, taken - Len(d)) /\ Len(body) = l + a
      /\ Len(d) = Len(buffer) - a /\ taken - Len(d) = at + Len(body)
  <2>1. Grown(message, buffer, n, taken, Ms, a)
    <3> HIDE DEF a, n
    <3> QED BY <1>4, <1>5, <1>7, BodyGrows
  <2> QED BY <2>1 DEF Grown
<1>9. ~(l > message.size)
  BY <1>5, <1>6
<1>10. /\ buffer' = d /\ message'.body = body /\ message'.state = (IF Len(body) = message.size THEN "complete" ELSE "body")
       /\ message'.known = message.known /\ message'.parser = message.parser /\ message'.size = message.size
       /\ message'.first = message.first /\ message'.headers = message.headers
       /\ pc' = IF Len(body) = message.size THEN "parsing" ELSE "idle"
  <2> HIDE DEF body, a, d
  <2>1. message' = [message EXCEPT !.body = body, !.state = IF Len(body) = message.size THEN "complete" ELSE @]
    BY <1>1, <1>9
  <2> QED BY <1>1, <1>9, <2>1 DEF ParserOK, ShapesOK, MessageFields, d
<1>11. HasBody(message', m, Full(Ms), Base(Ms, n), taken - Len(buffer'))
  BY <1>5, <1>8, <1>10 DEF HasBody, HasHead
<1>12. Base(Ms, n + 1) = at + Len(m.body)
  BY <1>4, <1>5, NextOne
<1> HIDE DEF body, a, d, l, at
<1>13. ReadingOK'
  <2>1. CASE Len(body) = message.size
    <3>1. taken - Len(buffer') = Base(Ms, n + 1)
      BY <1>5, <1>8, <1>10, <1>12, <2>1
    <3>2. IsOver(message', buffer', n, taken, closed, Ms)
      BY <1>3, <1>5, <1>10, <1>11, <2>1, <3>1 DEF IsOver, Delimited
    <3>3. Reads(message', chunked', buffer', complete', taken', closed', "parsing", Ms)
      BY <1>1, <1>3, <3>2 DEF Reads, stream
    <3> QED BY <1>1, <1>10, <2>1, <3>3 DEF ReadingOK, Ms, stream
  <2>2. CASE Len(body) # message.size
    <3>1. Len(buffer') = 0
      <4>1. l + a # Len(m.body)
        BY <1>5, <1>8, <2>2
      <4> QED BY <1>6, <1>7, <1>8, <1>10, <4>1
    <3>2. buffer' = <<>>
      <4>1. buffer' \in Seq(Tokens)
        BY <1>4, <1>7, <1>10, PoppedRest DEF Holds, d
      <4> QED BY <3>1, <4>1
    <3>3. Len(message'.body) < message'.size /\ Len(message'.body) <= message'.size
      BY <1>5, <1>6, <1>7, <1>8, <1>10, <2>2
    <3>4. InKnownBody(message', buffer', n, taken, Ms)
      BY <1>1, <1>5, <1>10, <1>11, <2>2, <3>3 DEF InKnownBody, InBody
    <3>5. Reads(message', chunked', buffer', complete', taken', closed', "idle", Ms)
      BY <1>1, <1>3, <3>2, <3>3, <3>4 DEF Reads, stream
    <3> QED BY <1>1, <1>10, <2>2, <3>5 DEF ReadingOK, Ms, stream
  <2> QED BY <2>1, <2>2
<1> QED BY <1>1, <1>7, <1>10, <1>13, PoppedReads DEF ParserOK, d

GrownByAll(msg, b, n, t, ms) ==
  LET more == msg.body \o b
      at == Base(ms, n) + HeadLen(ms[n + 1])
  IN  /\ Window(more, Full(ms), at, t) /\ Len(more) = Len(msg.body) + Len(b)
      /\ Len(more) \in Nat /\ at \in Nat /\ t = at + Len(more)
      /\ b \in Seq(Tokens) /\ Len(b) \in Nat /\ Len(msg.body) \in Nat

LEMMA AllOfBuffer ==
  ASSUME NEW kind, NEW ms, NEW b, NEW n, NEW t, Holds(kind, ms, b, n, t), NEW msg, InBody(msg, b, n, t, ms)
  PROVE  GrownByAll(msg, b, n, t, ms)
<1> DEFINE more == msg.body \o b
           at == Base(ms, n) + HeadLen(ms[n + 1])
           f == Full(ms)
           i == t - Len(b)
<1>1. Window(b, f, i, t) /\ n < Len(ms) /\ Window(msg.body, f, at, i)
  BY BodyRead DEF Holds
<1>2. at \in Nat
  BY <1>1, NextOne
<1>3. i \in Nat /\ t \in Nat /\ Len(b) = t - i /\ Len(b) \in Nat /\ Len(msg.body) = i - at /\ Len(msg.body) \in Nat /\ b \in Seq(Tokens)
  BY <1>1 DEF Window
<1>4. Window(more, f, at, t)
  <2> HIDE DEF i, at, f
  <2> QED BY <1>1, JoinedWindows
<1>5. Len(more) = t - at
  BY <1>4 DEF Window
<1> HIDE DEF more, at, i
<1>6. Len(more) = Len(msg.body) + Len(b) /\ t = at + Len(more) /\ Len(more) \in Nat
  BY <1>2, <1>3, <1>5
<1> QED BY <1>2, <1>3, <1>4, <1>6 DEF GrownByAll, at, more, i

LEMMA ReadUntilEOFReads ==
  ASSUME Streamed, ParserOK, MatchOK', ReadUntilEOF
  PROVE  ReadsWhatIsSent' /\ ReadingOK'
<1> DEFINE n == Len(complete)
           m == Ms[n + 1]
           body == message.body \o buffer
           at == Base(Ms, n) + HeadLen(m)
<1>1. /\ pc = "parsing" /\ message.state = "body" /\ message.parser = "until_eof"
      /\ UNCHANGED <<stream, chunked, complete>>
      /\ message' = [message EXCEPT !.body = body] /\ buffer' = <<>> /\ pc' = "idle"
  BY DEF ReadUntilEOF
<1>2. Reads(message, chunked, buffer, complete, taken, closed, pc, Ms)
  BY <1>1 DEF ParserOK, ReadingOK, Ms
<1>3. /\ n <= Len(Ms) /\ AreSent(complete, n, Ms) /\ ~closed
      /\ InEndlessBody(message, buffer, n, taken, Ms)
  <2>1. /\ n <= Len(Ms) /\ AreSent(complete, n, Ms) /\ ~closed
        /\ \/ InKnownBody(message, buffer, n, taken, Ms)
           \/ InEndlessBody(message, buffer, n, taken, Ms)
           \/ InChunkedBody(message, chunked, buffer, n, taken, taken - Len(buffer), Ms)
    BY <1>1, <1>2, WhichState
  <2> QED BY <1>1, <2>1 DEF InKnownBody, InChunkedBody
<1>4. Holds(script.kind, Ms, buffer, n, taken)
  BY <1>3, HoldsHere DEF ParserOK
<1>5. InBody(message, buffer, n, taken, Ms) /\ n < Len(Ms) /\ HasHead(message, m)
  BY <1>3 DEF InEndlessBody, InBody, HasBody
<1>6. Window(body, Full(Ms), at, taken) /\ taken \in Nat
  <2>1. GrownByAll(message, buffer, n, taken, Ms)
    BY <1>4, <1>5, AllOfBuffer
  <2> QED BY <1>4, <2>1 DEF GrownByAll, Holds, Window
<1>7. /\ message'.state = "body" /\ message'.body = body /\ message'.first = message.first
      /\ message'.headers = message.headers /\ message'.known = message.known /\ message'.parser = message.parser
  <2> HIDE DEF body
  <2> QED BY <1>1 DEF ParserOK, ShapesOK, MessageFields
<1>8. taken - Len(buffer') = taken
  BY <1>1, <1>6
<1> HIDE DEF body
<1>9. InEndlessBody(message', buffer', n, taken, Ms)
  <2>1. HasBody(message', m, Full(Ms), Base(Ms, n), taken - Len(buffer'))
    BY <1>5, <1>6, <1>7, <1>8 DEF HasBody, HasHead
  <2> QED BY <1>3, <1>5, <1>7, <2>1 DEF InEndlessBody, InBody
<1>10. Reads(message', chunked', buffer', complete', taken', closed', "idle", Ms)
  BY <1>1, <1>3, <1>9 DEF Reads, stream
<1>11. ReadingOK'
  BY <1>1, <1>10 DEF ReadingOK, Ms, stream
<1> QED BY <1>1, <1>11, TakenReads DEF ParserOK

LEMMA CompleteMessageReads ==
  ASSUME Streamed, ParserOK, MatchOK', CompleteMessage
  PROVE  ReadsWhatIsSent' /\ ReadingOK'
<1> DEFINE n == Len(complete)
           m == Ms[n + 1]
<1>1. /\ pc = "parsing" /\ message.state = "complete" /\ UNCHANGED <<stream, buffer, chunked, pc>>
      /\ complete' = Append(complete, message) /\ message' = NewMessage
  BY DEF CompleteMessage
<1>2. Reads(message, chunked, buffer, complete, taken, closed, pc, Ms)
  BY <1>1 DEF ParserOK, ReadingOK, Ms
<1>3. n <= Len(Ms) /\ AreSent(complete, n, Ms) /\ IsOver(message, buffer, n, taken, closed, Ms)
  BY <1>1, <1>2, WhichState
<1>4. Holds(script.kind, Ms, buffer, n, taken)
  BY <1>3, HoldsHere DEF ParserOK
<1>5. n < Len(Ms) /\ n \in Nat /\ Len(Ms) \in Nat
  BY <1>3, <1>4, FramedMessages DEF IsOver, Holds
<1>6. /\ Len(complete') = n + 1 /\ complete'[n + 1] = message
      /\ \A i \in 1 .. n : complete'[i] = complete[i]
  <2> DEFINE V == Range(complete) \union {message}
  <2>1. complete \in Seq(V) /\ message \in V
    BY DEF ParserOK, MatchOK
  <2> HIDE DEF V
  <2> QED BY <1>1, <2>1
<1>7. AreSent(complete', n, Ms)
  BY <1>3, <1>6 DEF AreSent
<1>8. (n + 1) - 1 = n /\ n + 1 # 0 /\ n + 1 <= Len(Ms)
  BY <1>5
<1>9. CASE closed
  <2>1. buffer = <<>> /\ IsCut(message, m, Full(Ms), Base(Ms, n), taken)
    BY <1>3, <1>9 DEF IsOver
  <2>2. IsEnded(message', buffer', complete', taken, Ms)
    BY <1>1, <1>6, <1>7, <1>8, <2>1 DEF IsEnded
  <2>3. Reads(message', chunked', buffer', complete', taken', closed', pc', Ms)
    BY <1>1, <1>9, <2>2 DEF Reads, stream
  <2> QED BY <2>3, <1>1, KeptReads DEF ReadingOK, Ms, stream, ParserOK
<1>10. CASE ~closed
  <2>1. /\ HasBody(message, m, Full(Ms), Base(Ms, n), taken - Len(buffer))
        /\ Delimited(m) /\ taken - Len(buffer) = Base(Ms, n + 1)
    BY <1>3, <1>10 DEF IsOver
  <2>2. message.body = m.body
    <3>1. Placed(Full(Ms), Base(Ms, n), Base(Ms, n + 1), m)
      BY <1>4, <1>5, NextOne
    <3>2. Window(m.body, Full(Ms), Base(Ms, n) + HeadLen(m), Base(Ms, n + 1))
      BY <3>1, BodyIsWindow
    <3> QED BY <2>1, <3>2, SameWindow DEF HasBody
  <2>3. AreSent(complete', n + 1, Ms)
    <3> SUFFICES ASSUME NEW i \in 1 .. n + 1
                 PROVE  HasHead(complete'[i], Ms[i]) /\ complete'[i].body = Ms[i].body /\ Delimited(Ms[i])
      BY DEF AreSent
    <3>1. CASE i = n + 1
      BY <1>6, <2>1, <2>2, <3>1 DEF HasBody
    <3>2. CASE i # n + 1
      <4>1. i \in 1 .. n
        BY <1>5, <3>2
      <4> QED BY <1>7, <4>1 DEF AreSent
    <3> QED BY <3>1, <3>2
  <2>4. AtFirstLine(message', buffer', n + 1, taken, Ms)
    BY <1>1, <2>1 DEF AtFirstLine
  <2>5. Reads(message', chunked', buffer', complete', taken', closed', pc', Ms)
    BY <1>1, <1>6, <1>8, <1>10, <2>3, <2>4 DEF Reads, stream
  <2> QED BY <2>5, <1>1, KeptReads DEF ReadingOK, Ms, stream, ParserOK
<1> QED BY <1>9, <1>10

\* A chunked body that is read, and its parser.
LEMMA InChunkedIs ==
  ASSUME NEW kind, NEW ms, NEW b, NEW n, NEW t, Holds(kind, ms, b, n, t), NEW msg, NEW c, NEW h,
         InBody(msg, b, n, t, ms), ~msg.known, msg.parser = "chunked", ms[n + 1].length = "chunked",
         c.acked = Len(msg.body)
  PROVE  InChunkedBody(msg, c, b, n, t, h, ms) <=>
           Chunks(c, ms[n + 1].body, HasHeader(Parsed(ms[n + 1]), "Trailer"), Full(ms),
                  Base(ms, n) + HeadLen(ms[n + 1]), h)
<1> DEFINE m == ms[n + 1]
           tr == HasHeader(Parsed(m), "Trailer")
<1>1. Placed(Full(ms), Base(ms, n), Base(ms, n + 1), m)
  BY NextOne DEF InBody
<1>2. Chunks(c, m.body, tr, Full(ms), Base(ms, n) + HeadLen(m), h) <=>
        InChunks(c, m.body, tr) /\ Window(c.buffer, Full(ms), Base(ms, n) + HeadLen(m) + c.parsed, h)
  BY <1>1, ChunksOfBody
<1> QED BY <1>2 DEF InChunkedBody

LEMMA StartReadChunkedReads ==
  ASSUME Streamed, ParserOK, MatchOK', StartReadChunked
  PROVE  ReadsWhatIsSent' /\ ReadingOK'
<1> DEFINE n == Len(complete)
           m == Ms[n + 1]
           tr == HasHeader(Parsed(m), "Trailer")
           at == Base(Ms, n) + HeadLen(m)
           i == taken - Len(buffer)
           f == Full(Ms)
<1>1. /\ pc = "parsing" /\ message.state = "body" /\ message.parser = "chunked"
      /\ UNCHANGED <<stream, buffer, message, complete>>
      /\ chunked' = [chunked EXCEPT !.buffer = @ \o buffer] /\ pc' = "chunks"
  BY DEF StartReadChunked
<1>2. Reads(message, chunked, buffer, complete, taken, closed, pc, Ms)
  BY <1>1 DEF ParserOK, ReadingOK, Ms
<1>3. /\ n <= Len(Ms) /\ AreSent(complete, n, Ms) /\ ~closed
      /\ InChunkedBody(message, chunked, buffer, n, taken, i, Ms)
  <2>1. /\ n <= Len(Ms) /\ AreSent(complete, n, Ms) /\ ~closed
        /\ \/ InKnownBody(message, buffer, n, taken, Ms)
           \/ InEndlessBody(message, buffer, n, taken, Ms)
           \/ InChunkedBody(message, chunked, buffer, n, taken, i, Ms)
    BY <1>1, <1>2, WhichState
  <2> QED BY <1>1, <2>1 DEF InKnownBody, InEndlessBody
<1>4. Holds(script.kind, Ms, buffer, n, taken)
  BY <1>3, HoldsHere DEF ParserOK
<1>5. /\ InBody(message, buffer, n, taken, Ms) /\ ~message.known /\ m.length = "chunked" /\ chunked.acked = Len(message.body)
  BY <1>3 DEF InChunkedBody
<1>6. Chunks(chunked, m.body, tr, f, at, i)
  BY <1>1, <1>3, <1>4, <1>5, InChunkedIs
<1>7. /\ chunked'.buffer = chunked.buffer \o buffer /\ chunked'.acked = chunked.acked /\ chunked'.state = chunked.state
      /\ chunked'.parsed = chunked.parsed /\ chunked'.size = chunked.size /\ chunked'.trailers = chunked.trailers
  BY <1>1 DEF ParserOK, ShapesOK, ChunkFields
<1>8. Window(chunked'.buffer, f, at + chunked.parsed, taken)
  <2>1. Window(chunked.buffer, f, at + chunked.parsed, i) /\ Window(buffer, f, i, taken)
    BY <1>4, <1>6 DEF Chunks, Holds
  <2> HIDE DEF f, at, i
  <2> QED BY <1>7, <2>1, JoinedWindows
<1>9. Chunks(chunked', m.body, tr, f, at, taken)
  <2>1. chunked'.acked \in Nat /\ chunked'.acked < Len(m.body)
    BY <1>6, <1>7 DEF Chunks, InChunks
  <2> HIDE DEF f, at, i, tr, m
  <2> QED BY <1>6, <1>7, <1>8, <2>1, ChunksGoOn
<1>10. InChunkedBody(message', chunked', buffer', n, taken, taken, Ms)
  BY <1>1, <1>4, <1>5, <1>7, <1>9, InChunkedIs
<1>11. Reads(message', chunked', buffer', complete', taken', closed', "chunks", Ms)
  BY <1>1, <1>3, <1>10 DEF Reads, stream
<1>12. ReadingOK'
  BY <1>1, <1>11 DEF ReadingOK, Ms, stream
<1> QED BY <1>1, <1>12, KeptReads DEF ParserOK

\* In ChunkedBodyParser::read.
ChunksAreRead ==
  LET n == Len(complete)
      m == Ms[n + 1]
      at == Base(Ms, n) + HeadLen(m)
  IN
  /\ n <= Len(Ms) /\ AreSent(complete, n, Ms) /\ ~closed
  /\ Holds(script.kind, Ms, buffer, n, taken)
  /\ InBody(message, buffer, n, taken, Ms) /\ message.state = "body" /\ HasHead(message, m)
  /\ ~message.known /\ message.parser = "chunked" /\ m.length = "chunked"
  /\ chunked.acked = Len(message.body)
  /\ Chunks(chunked, m.body, HasHeader(Parsed(m), "Trailer"), Full(Ms), at, taken)

LEMMA ChunksBegun ==
  ASSUME Streamed, ParserOK, pc = "chunks"
  PROVE  ChunksAreRead
<1> DEFINE n == Len(complete)
           m == Ms[n + 1]
<1>1. Reads(message, chunked, buffer, complete, taken, closed, pc, Ms)
  BY DEF ParserOK, ReadingOK, Ms
<1>2. /\ n <= Len(Ms) /\ AreSent(complete, n, Ms) /\ ~closed
      /\ InChunkedBody(message, chunked, buffer, n, taken, taken, Ms)
  BY <1>1, WhichState
<1>3. Holds(script.kind, Ms, buffer, n, taken)
  BY <1>2, HoldsHere DEF ParserOK
<1>4. /\ InBody(message, buffer, n, taken, Ms) /\ message.state = "body" /\ HasHead(message, m)
      /\ ~message.known /\ message.parser = "chunked" /\ m.length = "chunked"
      /\ chunked.acked = Len(message.body)
  BY <1>2 DEF InChunkedBody, InBody, HasBody
<1> HIDE DEF n
<1>5. Chunks(chunked, m.body, HasHeader(Parsed(m), "Trailer"), Full(Ms), Base(Ms, n) + HeadLen(m), taken)
  BY <1>2, <1>3, <1>4, InChunkedIs
<1> QED BY <1>2, <1>3, <1>4, <1>5 DEF ChunksAreRead, n

LEMMA WaitsIs == (Incomplete <=> Waits(chunked)) /\ EndOfTrailer = End(chunked.trailers)
<1>1. EndOfTrailer = End(chunked.trailers)
  BY DEF EndOfTrailer, End
<1> QED BY <1>1 DEF Incomplete, Waits, ChunkIsHere

\* Another chunk is understood, or its header.
LEMMA ChunksStay ==
  ASSUME ChunksAreRead, pc = "chunks", UNCHANGED <<stream, buffer, message, complete, pc>>,
         chunked'.acked = chunked.acked,
         LET n == Len(complete)
             m == Ms[n + 1]
         IN  Chunks(chunked', m.body, HasHeader(Parsed(m), "Trailer"), Full(Ms), Base(Ms, n) + HeadLen(m), taken)
  PROVE  ReadingOK'
<1> DEFINE n == Len(complete)
           m == Ms[n + 1]
<1>1. /\ n <= Len(Ms) /\ AreSent(complete, n, Ms) /\ ~closed
      /\ Holds(script.kind, Ms, buffer, n, taken)
      /\ InBody(message, buffer, n, taken, Ms) /\ ~message.known /\ message.parser = "chunked" /\ m.length = "chunked"
      /\ chunked'.acked = Len(message.body)
  BY DEF ChunksAreRead
<1>2. Chunks(chunked', m.body, HasHeader(Parsed(m), "Trailer"), Full(Ms), Base(Ms, n) + HeadLen(m), taken)
  OBVIOUS
<1> DEFINE d == chunked'
<1> HIDE DEF n, d
<1>3. InChunkedBody(message, d, buffer, n, taken, taken, Ms)
  BY <1>1, <1>2, InChunkedIs DEF d
<1>4. Reads(message, chunked', buffer, complete, taken, closed, "chunks", Ms)
  BY <1>1, <1>3 DEF Reads, n, d
<1> QED BY <1>4 DEF ReadingOK, Ms, stream

LEMMA ChunkHeaderReads ==
  ASSUME Streamed, ParserOK, MatchOK', ChunkHeader
  PROVE  ReadsWhatIsSent' /\ ReadingOK'
<1> DEFINE n == Len(complete)
           m == Ms[n + 1]
           tr == HasHeader(Parsed(m), "Trailer")
           at == Base(Ms, n) + HeadLen(m)
           f == Full(Ms)
           it == Find(chunked.buffer, CRLF)
           sizes == ChunkSizes(SubSeq(chunked.buffer, 1, it - 1))
<1>1. /\ pc = "chunks" /\ ~Waits(chunked) /\ chunked.state = "header"
      /\ UNCHANGED <<stream, requests, buffer, message, complete>>
      /\ sizes # {} =>
           /\ UNCHANGED pc
           /\ \E size \in sizes :
                chunked' = [Understood(it + 1, IF size = 0 THEN "trailer" ELSE "chunk") EXCEPT !.size = size]
  BY WaitsIs DEF ChunkHeader
<1>2. ChunksAreRead
  BY <1>1, ChunksBegun
<1>3. Chunks(chunked, m.body, tr, f, at, taken)
  BY <1>2 DEF ChunksAreRead
<1>4. /\ sizes # {}
      /\ \A size \in sizes : \A d :
           IsUnderstood(d, chunked, it + 1, IF size = 0 THEN "trailer" ELSE "chunk") /\ d.size = size
             => Chunks(d, m.body, tr, f, at, taken)
  <2> HIDE DEF m, tr, f, at
  <2> QED BY <1>1, <1>3, ChunkHeaderRead DEF Streamed
<1>5. PICK size \in sizes :
        chunked' = [Understood(it + 1, IF size = 0 THEN "trailer" ELSE "chunk") EXCEPT !.size = size]
  BY <1>1, <1>4
<1> DEFINE state == IF size = 0 THEN "trailer" ELSE "chunk"
           u == Understood(it + 1, state)
<1>6. IsUnderstood(u, chunked, it + 1, state) /\ u = [x \in ChunkFields |-> u[x]]
  <2> HIDE DEF it, state
  <2> QED BY DEF IsUnderstood, Understood, ParserOK, ShapesOK, ChunkFields
<1>7. chunked' = [u EXCEPT !.size = size]
  BY <1>5
<1>8. IsUnderstood(chunked', chunked, it + 1, state) /\ chunked'.size = size
  <2> HIDE DEF it, state, u, sizes
  <2> QED BY <1>6, <1>7 DEF IsUnderstood, ChunkFields
<1>9. Chunks(chunked', m.body, tr, f, at, taken)
  BY <1>4, <1>8
<1>10. ReadingOK'
  <2>1. chunked'.acked = chunked.acked
    BY <1>8 DEF IsUnderstood
  <2> QED BY <1>1, <1>2, <1>4, <1>9, <2>1, ChunksStay
<1> QED BY <1>1, <1>10, KeptReads DEF ParserOK

LEMMA ChunkReads ==
  ASSUME Streamed, ParserOK, MatchOK', Chunk
  PROVE  ReadsWhatIsSent' /\ ReadingOK'
<1> DEFINE n == Len(complete)
           m == Ms[n + 1]
           tr == HasHeader(Parsed(m), "Trailer")
           at == Base(Ms, n) + HeadLen(m)
           f == Full(Ms)
<1>1. /\ pc = "chunks" /\ ~Waits(chunked) /\ chunked.state = "chunk"
      /\ UNCHANGED <<stream, requests, buffer, message, complete>>
      /\ Substr(chunked.buffer, chunked.size, 2) = CRLF =>
           chunked' = Understood(chunked.size + 2, "header") /\ UNCHANGED pc
  BY WaitsIs DEF Chunk
<1>2. ChunksAreRead
  BY <1>1, ChunksBegun
<1>3. Chunks(chunked, m.body, tr, f, at, taken)
  BY <1>2 DEF ChunksAreRead
<1>4. /\ Substr(chunked.buffer, chunked.size, 2) = CRLF
      /\ \A d : IsUnderstood(d, chunked, chunked.size + 2, "header") => Chunks(d, m.body, tr, f, at, taken)
  <2> HIDE DEF m, tr, f, at
  <2> QED BY <1>1, <1>3, ChunkRead DEF Streamed
<1>5. IsUnderstood(chunked', chunked, chunked.size + 2, "header")
  BY <1>1, <1>4 DEF IsUnderstood, Understood, ParserOK, ShapesOK, ChunkFields
<1>6. Chunks(chunked', m.body, tr, f, at, taken)
  BY <1>4, <1>5
<1>7. ReadingOK'
  <2>1. chunked'.acked = chunked.acked
    BY <1>5 DEF IsUnderstood
  <2> QED BY <1>1, <1>2, <1>4, <1>6, <2>1, ChunksStay
<1> QED BY <1>1, <1>7, KeptReads DEF ParserOK

LEMMA NeedMoreOfBodyReads ==
  ASSUME Streamed, ParserOK, MatchOK', NeedMoreOfBody
  PROVE  ReadsWhatIsSent' /\ ReadingOK'
<1> DEFINE n == Len(complete)
           m == Ms[n + 1]
           tr == HasHeader(Parsed(m), "Trailer")
           at == Base(Ms, n) + HeadLen(m)
           f == Full(Ms)
           body == message.body \o buffer
<1>1. /\ pc = "chunks" /\ Waits(chunked)
      /\ chunked' = [chunked EXCEPT !.acked = @ + Len(buffer)]
      /\ message' = [message EXCEPT !.body = body]
      /\ buffer' = <<>> /\ pc' = "idle" /\ UNCHANGED <<stream, complete>>
  BY WaitsIs DEF NeedMoreOfBody
<1>2. ChunksAreRead
  BY <1>1, ChunksBegun
<1>3. Chunks(chunked, m.body, tr, f, at, taken)
  BY <1>2 DEF ChunksAreRead
<1>4. /\ n <= Len(Ms) /\ AreSent(complete, n, Ms) /\ ~closed
      /\ Holds(script.kind, Ms, buffer, n, taken)
      /\ InBody(message, buffer, n, taken, Ms) /\ message.state = "body" /\ HasHead(message, m)
      /\ ~message.known /\ message.parser = "chunked" /\ m.length = "chunked"
      /\ chunked.acked = Len(message.body) /\ n < Len(Ms)
  BY <1>2 DEF ChunksAreRead, InBody
<1>5. taken < at + Len(m.body)
  <2> HIDE DEF m, tr, f, at
  <2> QED BY <1>1, <1>3, WaitsThen DEF Streamed
<1>6. /\ Window(body, f, at, taken) /\ Len(body) = Len(message.body) + Len(buffer)
      /\ Len(body) \in Nat /\ at \in Nat /\ taken = at + Len(body) /\ Len(buffer) \in Nat
  <2>1. GrownByAll(message, buffer, n, taken, Ms)
    BY <1>4, AllOfBuffer
  <2> QED BY <2>1 DEF GrownByAll
<1>7. /\ chunked'.buffer = chunked.buffer /\ chunked'.acked = chunked.acked + Len(buffer) /\ chunked'.state = chunked.state
      /\ chunked'.parsed = chunked.parsed /\ chunked'.size = chunked.size /\ chunked'.trailers = chunked.trailers
  BY <1>1 DEF ParserOK, ShapesOK, ChunkFields
<1>8. /\ message'.state = "body" /\ message'.body = body /\ message'.first = message.first
      /\ message'.headers = message.headers /\ message'.known = message.known /\ message'.parser = message.parser
  <2> HIDE DEF body
  <2> QED BY <1>1, <1>4 DEF ParserOK, ShapesOK, MessageFields
<1>9. chunked'.acked = Len(message'.body) /\ chunked'.acked \in Nat /\ chunked'.acked < Len(m.body)
  <2>1. Len(m.body) \in Nat
    BY <1>4, NextOne
  <2> HIDE DEF body, at, m
  <2> QED BY <1>4, <1>5, <1>6, <1>7, <1>8, <2>1
<1>10. Chunks(chunked', m.body, tr, f, at, taken)
  <2>1. Window(chunked'.buffer, f, at + chunked.parsed, taken)
    BY <1>3, <1>7 DEF Chunks
  <2> HIDE DEF f, at, tr, m
  <2> QED BY <1>3, <1>7, <1>9, <2>1, ChunksGoOn
<1>11. taken - Len(buffer') = taken /\ taken \in Nat
  BY <1>1, <1>6
<1>12. InBody(message', buffer', n, taken, Ms)
  <2> HIDE DEF body
  <2> QED BY <1>4, <1>6, <1>8, <1>11 DEF InBody, HasBody, HasHead
<1>13. Holds(script.kind, Ms, buffer', n, taken)
  <2>1. ReadsWhatIsSent'
    BY <1>1, TakenReads DEF ParserOK
  <2>2. Window(buffer', Full(Ms), taken - Len(buffer'), taken)
    BY <1>1, <2>1 DEF ReadsWhatIsSent, stream, Ms
  <2> QED BY <1>4, <2>2 DEF Holds
<1> DEFINE d == chunked'
           msg == message'
           b == buffer'
<1>14. InChunkedBody(msg, d, b, n, taken, taken, Ms)
  <2>1. ~msg.known /\ msg.parser = "chunked"
    BY <1>4, <1>8
  <2> HIDE DEF d, msg, b
  <2> QED BY <1>4, <1>9, <1>10, <1>12, <1>13, <2>1, InChunkedIs DEF d, msg, b
<1>15. Reads(message', chunked', buffer', complete', taken', closed', "idle", Ms)
  BY <1>1, <1>4, <1>11, <1>14 DEF Reads, stream
<1>16. ReadingOK'
  BY <1>1, <1>15 DEF ReadingOK, Ms, stream
<1> QED BY <1>1, <1>16, TakenReads DEF ParserOK

LEMMA TrailerOverReads ==
  ASSUME Streamed, ParserOK, MatchOK', TrailerOver
  PROVE  ReadsWhatIsSent' /\ ReadingOK'
<1> DEFINE n == Len(complete)
           m == Ms[n + 1]
           tr == HasHeader(Parsed(m), "Trailer")
           at == Base(Ms, n) + HeadLen(m)
           f == Full(Ms)
           L == Len(m.body)
           amount == L - chunked.acked
           body == message.body \o SubSeq(buffer, 1, amount)
           end == EndOfTrailer
<1>1. /\ pc = "chunks" /\ ~Waits(chunked) /\ chunked.state = "trailer" /\ end = End(chunked.trailers)
      /\ UNCHANGED <<stream, chunked, complete>>
  BY WaitsIs DEF TrailerOver
<1>2. ChunksAreRead
  BY <1>1, ChunksBegun
<1>3. Chunks(chunked, m.body, tr, f, at, taken)
  BY <1>2 DEF ChunksAreRead
<1>4. /\ n <= Len(Ms) /\ AreSent(complete, n, Ms) /\ ~closed
      /\ Holds(script.kind, Ms, buffer, n, taken)
      /\ InBody(message, buffer, n, taken, Ms) /\ HasHead(message, m) /\ m.length = "chunked"
      /\ chunked.acked = Len(message.body) /\ n < Len(Ms)
  BY <1>2 DEF ChunksAreRead, InBody
<1>5. taken >= at + L /\ chunked.parsed + Find(chunked.buffer, end) + Len(end) - 1 = L
  <2> HIDE DEF m, tr, f, at, end
  <2> QED BY <1>1, <1>3, TrailerRead DEF Streamed
<1>6. /\ L \in Nat /\ chunked.acked \in Nat /\ chunked.acked < L
      /\ taken - Len(buffer) = at + chunked.acked /\ at \in Nat /\ taken \in Nat /\ Len(buffer) \in Nat
      /\ Base(Ms, n + 1) = at + L
  <2>1. chunked.acked < L /\ chunked.acked \in Nat
    BY <1>3 DEF Chunks, InChunks
  <2>2. taken - Len(buffer) = at + chunked.acked
    BY <1>4, BodyRead
  <2>3. L \in Nat /\ taken \in Nat /\ Len(buffer) \in Nat /\ Base(Ms, n + 1) = at + L
    BY <1>4, NextOne
  <2>4. at \in Nat
    BY <1>3 DEF Chunks
  <2> QED BY <2>1, <2>2, <2>3, <2>4
<1>7. amount \in Nat /\ ~(amount <= 0 \/ amount > Len(buffer)) /\ amount <= Len(buffer)
  <2> HIDE DEF L, at
  <2> QED BY <1>5, <1>6
<1> HIDE DEF end
<1>8. /\ message' = [message EXCEPT !.state = "complete", !.body = body]
      /\ buffer' = PopBytes(buffer, amount) /\ pc' = "parsing"
  <2> DEFINE e == chunked.parsed + Find(chunked.buffer, EndOfTrailer) + Len(EndOfTrailer) - 1
             a == e - chunked.acked
  <2>1. e = L
    BY <1>5 DEF end
  <2>2. IF a <= 0 \/ a > Len(buffer)
          THEN pc' = "aborted" /\ UNCHANGED <<message, buffer>>
          ELSE /\ message' = [message EXCEPT !.state = "complete", !.body = message.body \o SubSeq(buffer, 1, a)]
               /\ buffer' = PopBytes(buffer, a) /\ pc' = "parsing"
    BY Zenon DEF TrailerOver
  <2> HIDE DEF e, L
  <2>3. a = amount
    BY <2>1
  <2> HIDE DEF a, amount
  <2> QED BY <1>7, <2>2, <2>3 DEF body
<1> DEFINE d == PopBytes(buffer, amount)
<1>9. /\ Window(body, f, at, taken - Len(d)) /\ Len(body) = Len(message.body) + amount
      /\ taken - Len(d) = at + Len(body)
  <2>1. Grown(message, buffer, n, taken, Ms, amount)
    <3> HIDE DEF amount, n
    <3> QED BY <1>4, <1>7, BodyGrows
  <2> QED BY <2>1 DEF Grown
<1>10. taken - Len(d) = Base(Ms, n + 1)
  <2>1. Len(body) = L
    <3> HIDE DEF L, d, at, body
    <3> QED BY <1>4, <1>6, <1>9
  <2> QED BY <1>6, <1>9, <2>1
<1>11. /\ message'.state = "complete" /\ message'.body = body
       /\ message'.first = message.first /\ message'.headers = message.headers
  <2> HIDE DEF body
  <2> QED BY <1>8 DEF ParserOK, ShapesOK, MessageFields
<1>12. buffer' = d
  BY <1>8
<1> HIDE DEF body, d, amount, at
<1>13. HasBody(message', m, f, Base(Ms, n), taken - Len(buffer'))
  BY <1>4, <1>9, <1>11, <1>12 DEF HasBody, HasHead, at
<1>14. IsOver(message', buffer', n, taken, closed, Ms)
  BY <1>4, <1>10, <1>11, <1>12, <1>13 DEF IsOver, Delimited
<1>15. Reads(message', chunked', buffer', complete', taken', closed', "parsing", Ms)
  BY <1>1, <1>4, <1>14 DEF Reads, stream
<1>16. ReadingOK'
  BY <1>1, <1>8, <1>15 DEF ReadingOK, Ms, stream
<1> QED BY <1>1, <1>7, <1>8, <1>16, PoppedReads DEF ParserOK

-----------------------------------------------------------------------------
(***************************************************************************)
(* The calls.                                                              *)
(***************************************************************************)
LEMMA NewRequestReads ==
  ASSUME Streamed, ParserOK, MatchOK', NewRequestArrived
  PROVE  ReadsWhatIsSent' /\ ReadingOK'
<1>1. /\ UNCHANGED <<script, taken, closed, buffer, message, chunked, complete, pc>> /\ pc = "idle"
      /\ script.kind = "responses" /\ asked' = asked + 1
  BY DEF NewRequestArrived
<1>2. asked \in Nat
  BY <1>1 DEF ParserOK, MatchOK
<1>3. ASSUME NEW n \in 1 .. Len(script.messages), Base(script.messages, n - 1) < taken PROVE n <= asked'
  <2>1. n <= asked
    BY <1>1, <1>3 DEF ParserOK, ReadsWhatIsSent
  <2>2. n \in Int
    OBVIOUS
  <2> QED BY <1>1, <1>2, <2>1, <2>2
<1>4. ReadsWhatIsSent'
  BY <1>1, <1>3 DEF ParserOK, ReadsWhatIsSent
<1>5. Reads(message, chunked, buffer, complete, taken, closed, pc, script.messages)
  BY <1>1 DEF ParserOK, ReadingOK
<1>6. ReadingOK'
  BY <1>1, <1>5 DEF ReadingOK
<1> QED BY <1>4, <1>6

\* The first k messages were sent, and those are all that are answerable.
LEMMA SentIs ==
  ASSUME Streamed, script.kind = "responses" => asked \in Nat
  PROVE  \E k \in 0 .. Len(Ms) :
           /\ Sent = StreamOf(Ms, k)
           /\ script.kind = "responses" /\ k # 0 => k - 1 < asked
<1> DEFINE N == Len(Ms)
           S == {0} \union {n \in DOMAIN script.messages : Answerable(n)}
<1>1. N \in Nat /\ DOMAIN script.messages = 1 .. N
  BY FramedMessages DEF Streamed, Ms
<1>2. S \subseteq 0 .. N /\ 0 \in S
  BY <1>1
<1>3. \A x \in S : N >= x
  BY <1>1, <1>2
<1> HIDE DEF N
<1>4. Max(S) \in S
  <2>1. \E x \in S : \A y \in S : x >= y
    <3>1. S \subseteq Nat /\ N \in Nat /\ \E x \in S : TRUE
      BY <1>1, <1>2
    <3> HIDE DEF S
    <3> QED BY <1>3, <3>1, GreatestElement
  <2> HIDE DEF S
  <2> QED BY <2>1 DEF Max
<1> DEFINE k == Max(S)
<1>5. k \in 0 .. N /\ (k # 0 => Answerable(k))
  BY <1>2, <1>4
<1>6. Sent = StreamOf(Ms, k)
  BY DEF Sent, WireOfFirst, StreamOf, Ms
<1> HIDE DEF k
<1>7. script.kind = "responses" /\ k # 0 => k - 1 < asked
  BY <1>5 DEF Answerable
<1> QED BY <1>5, <1>6, <1>7 DEF N

\* A state between two calls, with more in the buffer.
LEMMA MoreToParse ==
  ASSUME NEW msg, NEW c, NEW b, NEW cs, NEW t, NEW ms, Reads(msg, c, b, cs, t, FALSE, "idle", ms),
         NEW d, NEW u, u - Len(d) = t - Len(b)
  PROVE  Reads(msg, c, d, cs, u, FALSE, "parsing", ms)
<1> DEFINE n == Len(cs)
<1>1. AtFirstLine(msg, b, n, t, ms) => AtFirstLine(msg, d, n, u, ms)
  BY DEF AtFirstLine
<1>2. InHeaders(msg, b, n, t, ms) => InHeaders(msg, d, n, u, ms)
  BY DEF InHeaders
<1>3. InBody(msg, b, n, t, ms) => InBody(msg, d, n, u, ms)
  BY DEF InBody
<1>4. InKnownBody(msg, b, n, t, ms) => InKnownBody(msg, d, n, u, ms)
  BY <1>3 DEF InKnownBody
<1>5. InEndlessBody(msg, b, n, t, ms) => InEndlessBody(msg, d, n, u, ms)
  BY <1>3 DEF InEndlessBody
<1>6. InChunkedBody(msg, c, b, n, t, t - Len(b), ms) => InChunkedBody(msg, c, d, n, u, u - Len(d), ms)
  BY <1>3 DEF InChunkedBody
<1> QED BY <1>1, <1>2, <1>4, <1>5, <1>6 DEF Reads

LEMMA WindowInside ==
  ASSUME NEW b, NEW s, NEW f, NEW i, NEW j, Window(b, s, i, j), NEW l, Window(s, f, 0, l)
  PROVE  Window(b, f, i, j)
<1>1. /\ b \in Seq(Tokens) /\ f \in Seq(Tokens) /\ i \in Nat /\ j \in Nat /\ i <= j /\ j <= Len(s)
      /\ Len(b) = j - i /\ l \in Nat /\ l <= Len(f) /\ Len(s) = l
  BY DEF Window
<1>2. j <= Len(f)
  <2>1. Len(f) \in Nat
    BY <1>1
  <2> QED BY <1>1, <2>1
<1>3. ASSUME NEW k \in 1 .. j - i PROVE b[k] = f[i + k]
  <2>1. i + k \in 1 .. l - 0 /\ 0 + (i + k) = i + k
    BY <1>1
  <2>2. b[k] = s[i + k] /\ s[i + k] = f[0 + (i + k)]
    BY <2>1 DEF Window
  <2> QED BY <2>1, <2>2
<1> QED BY <1>1, <1>2, <1>3 DEF Window

LEMMA ParseReads ==
  ASSUME Streamed, ParserOK, MatchOK', Parse
  PROVE  ReadsWhatIsSent' /\ ReadingOK'
<1> DEFINE N == Len(Ms)
           f == Full(Ms)
<1>1. /\ pc = "idle" /\ ~closed /\ pc' = "parsing" /\ UNCHANGED <<script, asked, closed, message, chunked, complete>>
  BY DEF Parse
<1>2. PICK u \in taken + 1 .. Len(Sent) : taken' = u /\ buffer' = buffer \o SubSeq(Sent, taken + 1, u)
  BY DEF Parse
<1>3. /\ taken \in Nat /\ taken <= Len(f) /\ Window(buffer, f, taken - Len(buffer), taken)
      /\ complete' \in Seq(Range(complete'))
      /\ script.kind = "responses" => \A n \in 1 .. N : Base(Ms, n - 1) < taken => n <= asked
  BY DEF ParserOK, ReadsWhatIsSent, MatchOK, Ms
<1>4. AreMessages(Ms, N) /\ N \in Nat
  BY FramedMessages DEF Streamed
<1>5. PICK k \in 0 .. N : Sent = StreamOf(Ms, k) /\ (script.kind = "responses" /\ k # 0 => k - 1 < asked)
  BY SentIs DEF ParserOK, MatchOK
<1> DEFINE s == StreamOf(Ms, k)
           d == SubSeq(s, taken + 1, u)
           i == taken - Len(buffer)
<1>6. s \in Seq(Tokens) /\ Len(s) = Base(Ms, k) /\ Base(Ms, k) \in Nat
  BY <1>4, StreamGrows DEF Base
<1>7. u \in Nat /\ taken < u /\ u <= Len(s)
  BY <1>2, <1>3, <1>5, <1>6
<1>8. Window(s, f, 0, Base(Ms, k))
  BY <1>4, BeginningOfStream DEF Full
<1>9. Window(d, f, taken, u)
  <2>1. taken <= u
    BY <1>3, <1>7
  <2>2. Window(d, s, taken, u)
    <3> HIDE DEF s
    <3> QED BY <1>3, <1>6, <1>7, <2>1, SubSeqIsWindow
  <2> HIDE DEF s, d, f
  <2> QED BY <1>8, <2>2, WindowInside
<1>10. Window(buffer', f, i, u)
  <2>1. buffer' = buffer \o d
    BY <1>2, <1>5
  <2> HIDE DEF d, i, f
  <2>2. Window(buffer, f, i, taken)
    BY <1>3 DEF i
  <2> QED BY <1>9, <2>1, <2>2, JoinedWindows
<1>11. u - Len(buffer') = i
  <2> HIDE DEF i
  <2>1. i \in Nat /\ Len(buffer') = u - i
    BY <1>10 DEF Window
  <2> QED BY <1>7, <2>1
<1>12. u <= Len(f)
  BY <1>10 DEF Window
<1>13. ASSUME script.kind = "responses", NEW n \in 1 .. N, Base(Ms, n - 1) < u PROVE n <= asked
  <2>1. n \in Nat /\ asked \in Nat /\ n - 1 \in 0 .. N /\ n - 1 < n
    BY <1>4, <1>13 DEF ParserOK, MatchOK
  <2>2. k # 0
    <3> SUFFICES ASSUME k = 0 PROVE FALSE
      OBVIOUS
    <3>1. Base(Ms, k) = 0
      BY FramedMessages DEF Streamed
    <3> QED BY <1>3, <1>6, <1>7, <3>1
  <2>3. n <= k
    <3> SUFFICES ASSUME ~(n <= k) PROVE FALSE
      OBVIOUS
    <3> DEFINE x == n - 1
    <3>1. k = x \/ k < x
      BY <1>4, <2>1
    <3>2. x \in 0 .. N
      BY <2>1
    <3> HIDE DEF x
    <3>3. Base(Ms, k) <= Base(Ms, x) /\ Base(Ms, x) \in Nat
      <4>1. CASE k = x
        BY <1>6, <4>1
      <4>2. CASE k < x
        <5>1. Base(Ms, k) + 5 <= Base(Ms, x) /\ Base(Ms, x) \in Nat
          BY <1>4, <3>2, <4>2, BasesGrow
        <5> QED BY <1>6, <5>1
      <4> QED BY <3>1, <4>1, <4>2
    <3>4. Base(Ms, x) < u
      BY <1>13 DEF x
    <3> QED BY <1>6, <1>7, <3>3, <3>4
  <2>4. k - 1 < asked
    BY <1>5, <1>13, <2>2
  <2> QED BY <1>4, <2>1, <2>3, <2>4
<1>14. ReadsWhatIsSent'
  <2>1. Window(buffer', Full(script'.messages), taken' - Len(buffer'), taken')
    BY <1>1, <1>2, <1>10, <1>11 DEF Ms
  <2>2. taken' \in Nat /\ taken' <= Len(Full(script'.messages))
    BY <1>1, <1>2, <1>7, <1>12 DEF Ms
  <2>3. script'.kind = "responses" =>
          \A n \in 1 .. Len(script'.messages) : Base(script'.messages, n - 1) < taken' => n <= asked'
    BY <1>1, <1>2, <1>13 DEF Ms
  <2> QED BY <1>3, <2>1, <2>2, <2>3 DEF ReadsWhatIsSent
<1>15. Reads(message, chunked, buffer, complete, taken, FALSE, "idle", Ms)
  <2>1. closed = FALSE
    BY <1>1 DEF ParserOK, ReadingOK, Reads
  <2> QED BY <1>1, <2>1 DEF ParserOK, ReadingOK, Ms
<1>16. Reads(message, chunked, buffer', complete, u, FALSE, "parsing", Ms)
  <2>1. u - Len(buffer') = taken - Len(buffer)
    BY <1>11
  <2> QED BY <1>15, <2>1, MoreToParse
<1>17. Reads(message', chunked', buffer', complete', taken', closed', pc', Ms)
  <2>1. Reads(message, chunked, buffer', complete, u, closed, "parsing", Ms)
    BY <1>1, <1>16 DEF Reads, IsOver
  <2> QED BY <1>1, <1>2, <2>1
<1> QED BY <1>1, <1>14, <1>17 DEF ReadingOK, Ms

\* What an end of the stream refuses: it comes inside of the message after n.
LEMMA RefusedAtEOF ==
  ASSUME Streamed, NEW n, AreWhole(Ms, n, taken), n < Len(Ms), Base(Ms, n) < taken,
         taken < Base(Ms, n) + HeadLen(Ms[n + 1]) \/ Ms[n + 1].length = "known",
         script' = script, taken' = taken, closed', pc' = "threw"
  PROVE  RefusesOnlyMalformed'
<1> DEFINE base == Base(Ms, n)
           m == Ms[n + 1]
<1>1. NumWhole = n
  BY NumWholeIs DEF Streamed
<1>2. NumWhole' = NumWhole /\ Current' = Current /\ Started' = Started
  BY DEF NumWhole, Whole, WireOfFirst, Current, Started
<1>3. Current = m /\ Started = taken - base
  BY <1>1 DEF Current, Started, WireOfFirst, Base, StreamOf, Ms
<1>4. /\ base \in Nat /\ taken \in Nat /\ n + 1 \in 1 .. Len(Ms)
  BY FramedMessages DEF Streamed, AreWhole
<1>5. Len(HeadOf(m)) = HeadLen(m) /\ HeadLen(m) \in Nat
  <2>1. IsMessage(m)
    BY <1>4, FramedMessages DEF Streamed, AreMessages
  <2> HIDE DEF m
  <2>2. Len(HeadOf(m)) = HeadLen(m)
    BY <2>1, WireParts
  <2>3. HeadLen(m) \in Nat
    BY <2>1 DEF IsMessage, HeadLen
  <2> QED BY <2>2, <2>3
<1>6. Started > 0 /\ (Started < HeadLen(m) \/ m.length = "known")
  <2> HIDE DEF base, m
  <2>1. taken - base > 0 /\ (taken < base + HeadLen(m) \/ m.length = "known")
    BY <1>4 DEF base, m
  <2> QED BY <1>3, <1>4, <1>5, <2>1
<1> HIDE DEF m
<1>7. Current'.length = m.length /\ Len(HeadOf(Current')) = HeadLen(m)
  BY <1>2, <1>3, <1>5
<1>8. NumWhole' < Len(script'.messages)
  BY <1>1, <1>2 DEF Ms
<1> QED BY <1>2, <1>6, <1>7, <1>8 DEF RefusesOnlyMalformed

LEMMA ParseEOFReads ==
  ASSUME Streamed, ParserOK, MatchOK', ParseEOF
  PROVE  ReadsWhatIsSent' /\ ReadingOK'
<1> DEFINE n == Len(complete)
           m == Ms[n + 1]
           f == Full(Ms)
           base == Base(Ms, n)
<1>1. /\ pc = "idle" /\ ~closed /\ closed' /\ UNCHANGED <<script, asked, taken, buffer, chunked, complete>>
      /\ IF EOFIsFatal
           THEN pc' = "threw" /\ UNCHANGED message
           ELSE /\ pc' = "parsing"
                /\ message' = IF message.state = "body" THEN [message EXCEPT !.state = "complete"]
                                                        ELSE message
  BY DEF ParseEOF
<1>2. Reads(message, chunked, buffer, complete, taken, closed, pc, Ms)
  BY <1>1 DEF ParserOK, ReadingOK, Ms
<1>3. ReadsWhatIsSent'
  BY <1>1 DEF ParserOK, ReadsWhatIsSent, MatchOK
<1>4. n <= Len(Ms) /\ AreSent(complete, n, Ms) /\ message.state \in {"first_line", "headers", "body"}
  BY <1>1, <1>2, WhichState
<1>5. Holds(script.kind, Ms, buffer, n, taken)
  BY <1>4, HoldsHere DEF ParserOK
<1>6. CASE message.state = "first_line"
  <2>1. AtFirstLine(message, buffer, n, taken, Ms) /\ NoLine(buffer)
    BY <1>1, <1>2, <1>6, WhichState
  <2>2. pc' = "parsing" /\ message' = message
    BY <1>1, <1>6 DEF EOFIsFatal
  <2>3. Reads(message', chunked', buffer', complete', taken', closed', pc', Ms)
    BY <1>1, <1>4, <2>1, <2>2 DEF Reads
  <2> QED BY <1>1, <1>3, <2>3 DEF ReadingOK, Ms
<1>7. CASE message.state = "headers"
  <2>1. InHeaders(message, buffer, n, taken, Ms) /\ NoLine(buffer)
    BY <1>1, <1>2, <1>7, WhichState
  <2>2. AreWhole(Ms, n, taken)
    BY <1>4, <1>5, <2>1, HeadersAreRead DEF IsRead
  <2>3. n < Len(Ms) /\ base < taken /\ taken < base + HeadLen(m)
    BY <1>5, <2>1, NoHeader, InHeadersAfter, SMTT(30) DEF InHeaders
  <2>4. pc' = "threw"
    BY <1>1, <1>7 DEF EOFIsFatal
  <2>5. RefusesOnlyMalformed'
    BY <1>1, <2>2, <2>3, <2>4, RefusedAtEOF
  <2> QED BY <1>3, <2>4, <2>5 DEF ReadingOK
<1>8. CASE message.state = "body"
  <2>1. /\ buffer = <<>>
        /\ \/ InKnownBody(message, buffer, n, taken, Ms) /\ Len(message.body) < message.size
           \/ InEndlessBody(message, buffer, n, taken, Ms)
           \/ InChunkedBody(message, chunked, buffer, n, taken, taken - Len(buffer), Ms)
    BY <1>1, <1>2, <1>8, WhichState
  <2>2. InBody(message, buffer, n, taken, Ms) /\ n < Len(Ms) /\ HasHead(message, m)
    BY <2>1 DEF InKnownBody, InEndlessBody, InChunkedBody, InBody, HasBody
  <2>3. /\ base \in Nat /\ HeadLen(m) \in Nat /\ HeadLen(m) >= 5 /\ taken \in Nat
        /\ Base(Ms, n + 1) = base + HeadLen(m) + Len(m.body)
    <3>1. Placed(f, base, Base(Ms, n + 1), m)
      BY <1>5, <2>2, NextOne
    <3> HIDE DEF f, base, m
    <3>2. base \in Nat /\ HeadLen(m) \in Nat /\ HeadLen(m) >= 5 /\ Base(Ms, n + 1) = base + HeadLen(m) + Len(m.body)
      BY <3>1, PlacedLengths
    <3>3. taken \in Nat
      BY <1>5 DEF Holds, Window
    <3> QED BY <3>2, <3>3
  <2>4. /\ taken = base + HeadLen(m) + Len(message.body) /\ Len(message.body) \in Nat
        /\ Window(message.body, f, base + HeadLen(m), taken)
    <3>1. Len(buffer) = 0 /\ taken - 0 = taken
      BY <2>1, <2>3
    <3>2. /\ taken - Len(buffer) = base + HeadLen(m) + Len(message.body) /\ Len(message.body) \in Nat
          /\ Window(message.body, f, base + HeadLen(m), taken - Len(buffer))
      BY <1>5, <2>2, BodyRead
    <3> QED BY <3>1, <3>2
  <2>5. CASE message.parser = "none"
    <3>1. InKnownBody(message, buffer, n, taken, Ms) /\ Len(message.body) < message.size
      BY <2>1, <2>5 DEF InEndlessBody, InChunkedBody
    <3>2. m.length = "known" /\ Len(message.body) < Len(m.body)
      BY <3>1 DEF InKnownBody
    <3>3. AreWhole(Ms, n, taken)
      BY <1>1, <1>4, <1>5, <2>1, <2>2, <3>2, BodyIsRead DEF IsRead
    <3>4. base < taken
      <4> HIDE DEF base, m
      <4> QED BY <2>3, <2>4
    <3>5. pc' = "threw"
      BY <1>1, <1>8, <2>5 DEF EOFIsFatal
    <3>6. RefusesOnlyMalformed'
      BY <1>1, <2>2, <3>2, <3>3, <3>4, <3>5, RefusedAtEOF
    <3> QED BY <1>3, <3>5, <3>6 DEF ReadingOK
  <2>6. CASE message.parser # "none"
    <3>1. \/ InEndlessBody(message, buffer, n, taken, Ms)
          \/ InChunkedBody(message, chunked, buffer, n, taken, taken - Len(buffer), Ms)
      BY <2>1, <2>6 DEF InKnownBody
    <3>2. pc' = "parsing" /\ message' = [message EXCEPT !.state = "complete"]
      BY <1>1, <1>8, <2>6 DEF EOFIsFatal
    <3>3. /\ message'.state = "complete" /\ message'.first = message.first /\ message'.headers = message.headers
          /\ message'.body = message.body
      BY <3>2 DEF ParserOK, ShapesOK, MessageFields
    <3>4. HasBody(message', m, f, base, taken)
      BY <2>2, <2>4, <3>3 DEF HasBody, HasHead
    <3>5. m.length \in {"chunked", "until_eof"}
      BY <3>1 DEF InEndlessBody, InChunkedBody
    <3>6. m.length = "chunked" => taken < base + HeadLen(m) + Len(m.body)
      <4> SUFFICES ASSUME m.length = "chunked" PROVE taken < base + HeadLen(m) + Len(m.body)
        OBVIOUS
      <4>1. Len(message.body) < Len(m.body)
        BY <3>1 DEF InEndlessBody, InChunkedBody, InChunks
      <4>2. taken < Base(Ms, n + 1)
        BY <1>5, <2>1, <2>2, <4>1, BodyNotWhole
      <4> QED BY <2>3, <4>2
    <3>7. IsCut(message', m, f, base, taken)
      BY <3>4, <3>5, <3>6 DEF IsCut
    <3>8. IsOver(message', buffer', n, taken', closed', Ms)
      BY <1>1, <2>1, <2>2, <3>3, <3>7 DEF IsOver
    <3>9. Reads(message', chunked', buffer', complete', taken', closed', "parsing", Ms)
      BY <1>1, <1>4, <3>8 DEF Reads
    <3> QED BY <1>1, <1>3, <3>2, <3>9 DEF ReadingOK, Ms
  <2> QED BY <2>5, <2>6
<1> QED BY <1>4, <1>6, <1>7, <1>8

-----------------------------------------------------------------------------
(***************************************************************************)
(* The invariant, and what follows from it.                                *)
(***************************************************************************)
LEMMA ParserStart ==
  ASSUME Init, Streamed
  PROVE  ParserOK
<1> DEFINE f == Full(Ms)
<1>1. ShapesOK /\ MatchOK
  BY ShapesStart, MatchStart DEF Streamed
<1>2. f \in Seq(Tokens) /\ Len(f) \in Nat /\ Base(Ms, 0) = 0 /\ Len(Ms) \in Nat
        /\ \A n \in 0 .. Len(Ms) : Base(Ms, n) \in Nat
  BY FramedMessages DEF Streamed
<1>3. taken = 0 /\ buffer = <<>> /\ complete = <<>> /\ ~closed /\ message = NewMessage /\ pc = "idle"
  BY DEF Init
<1>4. Len(buffer) = 0 /\ taken - Len(buffer) = 0 /\ Len(complete) = 0
  <2>1. Len(<<>>) = 0 /\ 0 - 0 = 0
    OBVIOUS
  <2> QED BY <1>3, <2>1
<1>5. ReadsWhatIsSent
  <2>1. Window(buffer, f, taken - Len(buffer), taken)
    BY <1>2, <1>3, <1>4, EmptyWindow
  <2>2. \A n \in 1 .. Len(Ms) : ~(Base(Ms, n - 1) < taken)
    <3> SUFFICES ASSUME NEW n \in 1 .. Len(Ms) PROVE ~(Base(Ms, n - 1) < 0)
      BY <1>3
    <3>1. n - 1 \in 0 .. Len(Ms)
      BY <1>2
    <3> QED BY <1>2, <3>1
  <2> QED BY <1>1, <1>2, <1>3, <2>1, <2>2 DEF ReadsWhatIsSent, MatchOK, Ms
<1>6. AreSent(complete, 0, Ms) /\ 0 <= Len(Ms)
  BY <1>2 DEF AreSent
<1>7. AtFirstLine(message, buffer, 0, taken, Ms) /\ NoLine(buffer)
  BY <1>2, <1>3, <1>4, NothingFound DEF AtFirstLine
<1>8. Reads(message, chunked, buffer, complete, taken, closed, pc, Ms)
  BY <1>3, <1>4, <1>6, <1>7 DEF Reads
<1> QED BY <1>1, <1>5, <1>8 DEF ParserOK, ReadingOK, Ms

LEMMA ParserStays ==
  ASSUME ReadsWhatIsSent, ReadingOK, UNCHANGED vars
  PROVE  ReadsWhatIsSent' /\ ReadingOK'
<1>1. UNCHANGED <<script, asked, taken, closed, buffer, message, chunked, complete, pc>>
  BY DEF vars
<1>2. ReadsWhatIsSent'
  BY <1>1 DEF ReadsWhatIsSent
<1>3. CASE Reads(message, chunked, buffer, complete, taken, closed, pc, script.messages)
  BY <1>1, <1>2, <1>3 DEF ReadingOK
<1>4. CASE pc = "threw" /\ RefusesOnlyMalformed
  <2>1. NumWhole' = NumWhole /\ Current' = Current /\ Started' = Started
    BY <1>1 DEF NumWhole, Whole, WireOfFirst, Current, Started
  <2> QED BY <1>1, <1>2, <1>4, <2>1 DEF ReadingOK, RefusesOnlyMalformed
<1> QED BY <1>2, <1>3, <1>4 DEF ReadingOK

LEMMA ParserKept ==
  ASSUME Streamed, ParserOK, [Next]_vars
  PROVE  ParserOK'
<1>1. ShapesOK' /\ MatchOK'
  BY ShapesKept, MatchKept DEF ParserOK, Streamed
<1>2. CASE NewRequestArrived
  BY <1>1, <1>2, NewRequestReads DEF ParserOK
<1>3. CASE Parse
  BY <1>1, <1>3, ParseReads DEF ParserOK
<1>4. CASE ParseEOF
  BY <1>1, <1>4, ParseEOFReads DEF ParserOK
<1>5. CASE NeedMoreLines
  BY <1>1, <1>5, NeedMoreLinesReads DEF ParserOK
<1>6. CASE FirstLine
  BY <1>1, <1>6, FirstLineReads DEF ParserOK
<1>7. CASE AddHeader
  BY <1>1, <1>7, AddHeaderReads DEF ParserOK
<1>8. CASE DoneWithHeaders
  BY <1>1, <1>8, DoneWithHeadersReads DEF ParserOK
<1>9. CASE ReadKnownBody
  BY <1>1, <1>9, ReadKnownBodyReads DEF ParserOK
<1>10. CASE ReadUntilEOF
  BY <1>1, <1>10, ReadUntilEOFReads DEF ParserOK
<1>11. CASE CompleteMessage
  BY <1>1, <1>11, CompleteMessageReads DEF ParserOK
<1>12. CASE StartReadChunked
  BY <1>1, <1>12, StartReadChunkedReads DEF ParserOK
<1>13. CASE ChunkHeader
  BY <1>1, <1>13, ChunkHeaderReads DEF ParserOK
<1>14. CASE Chunk
  BY <1>1, <1>14, ChunkReads DEF ParserOK
<1>15. CASE NeedMoreOfBody
  BY <1>1, <1>15, NeedMoreOfBodyReads DEF ParserOK
<1>16. CASE TrailerOver
  BY <1>1, <1>16, TrailerOverReads DEF ParserOK
<1>17. CASE UNCHANGED vars
  BY <1>1, <1>17, ParserStays DEF ParserOK
<1> QED BY <1>2, <1>3, <1>4, <1>5, <1>6, <1>7, <1>8, <1>9, <1>10, <1>11, <1>12, <1>13, <1>14, <1>15, <1>16, <1>17
        DEF Next, ParsingStep

LEMMA StreamedStart ==
  ASSUME Init
  PROVE  Streamed
<1>1. script \in Scripts
  BY DEF Init
<1>2. script.kind \in {"requests", "responses"} /\ SizesOK
  BY <1>1, HTTPAssumption, StreamsAssumption DEF SizesOK
<1>3. Framed(script.kind, Ms)
  BY <1>1, ScriptIsFramed, StreamsAssumption DEF Ms
<1> QED BY <1>1, <1>2, <1>3 DEF Streamed

LEMMA StreamedStays ==
  ASSUME Streamed, [Next]_vars
  PROVE  Streamed'
<1>1. script' = script
  BY DEF vars, stream, Next, ParsingStep, NewRequestArrived, Parse, ParseEOF, NeedMoreLines, FirstLine, AddHeader,
         DoneWithHeaders, ReadKnownBody, ReadUntilEOF, CompleteMessage, StartReadChunked, ChunkHeader, Chunk,
         NeedMoreOfBody, TrailerOver
<1> QED BY <1>1 DEF Streamed, Ms

LEMMA RefusesThen == ReadingOK => RefusesOnlyMalformed
<1> SUFFICES ASSUME Reads(message, chunked, buffer, complete, taken, closed, pc, script.messages)
             PROVE  RefusesOnlyMalformed
  BY DEF ReadingOK
<1>1. pc \in {"idle", "parsing", "chunks"}
  BY WhichState
<1> QED BY <1>1 DEF RefusesOnlyMalformed

LEMMA ParserInvariant == Spec => [](Streamed /\ ParserOK)
<1>1. Init => Streamed /\ ParserOK
  BY StreamedStart, ParserStart
<1>2. (Streamed /\ ParserOK) /\ [Next]_vars => (Streamed /\ ParserOK)'
  BY StreamedStays, ParserKept
<1> QED BY <1>1, <1>2, PTL DEF Spec

\* However a stream is split among the reads, after each call of parse() the
\* complete messages are those that were sent until then
\* (http_message_sequence.hh:52-76 and chunked_parser.cc:65-140).
THEOREM WhatIsSentIsParsed == Spec => []MessagesAreAsSent
<1>1. Streamed /\ ParserOK => MessagesAreAsSent
  BY IdleIsSent DEF ParserOK
<1> QED BY <1>1, ParserInvariant, PTL

\* The queue of the requests gives each response the request that it answers
\* (http_response_parser.cc:8-22).
THEOREM ResponsesAreMatched == Spec => []Matched
<1>1. Streamed /\ ParserOK => Matched
  BY MatchedThen DEF ParserOK, Streamed
<1> QED BY <1>1, ParserInvariant, PTL

\* No message that is supported and whole makes parse() throw, wherever the reads
\* end, and its assertions hold (http_message.cc:25-83, chunked_parser.cc:72-138).
THEOREM OnlyMalformedIsRefused == Spec => []RefusesOnlyMalformed
<1>1. Streamed /\ ParserOK => RefusesOnlyMalformed
  BY RefusesThen DEF ParserOK
<1> QED BY <1>1, ParserInvariant, PTL
=============================================================================

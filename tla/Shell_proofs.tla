---------------------------- MODULE Shell_proofs ---------------------------
(***************************************************************************)
(* Proofs about Shell, for whatever programs the user may start with       *)
(* whatever options, servers and signals, and about EventLoop, the loop    *)
(* its processes wait in.  Two things are needed of the scripts of         *)
(* ShellPrograms: the order of their statements, in which every child is   *)
(* forked after the event loop that waits for it was constructed; and what *)
(* a process stands on at each of them, its privileges, its environment    *)
(* and its objects.                                                        *)
(***************************************************************************)
EXTENDS Shell, EventLoop, TLAPS

(***************************************************************************)
(* Sequences.                                                              *)
(***************************************************************************)
LEMMA RangeAppend ==
  ASSUME NEW S, NEW s \in Seq(S), NEW e \in S
  PROVE  Append(s, e) \in Seq(S) /\ Range(Append(s, e)) = Range(s) \cup {e}
<1>1. Append(s, e) \in Seq(S) /\ Len(Append(s, e)) = Len(s) + 1 /\ Len(s) \in Nat
      /\ DOMAIN s = 1 .. Len(s) /\ DOMAIN Append(s, e) = 1 .. Len(s) + 1
      /\ (\A i \in 1 .. Len(s) : Append(s, e)[i] = s[i]) /\ Append(s, e)[Len(s) + 1] = e
  OBVIOUS
<1>2. \A n \in Nat : 1 .. n + 1 = (1 .. n) \cup {n + 1}
  OBVIOUS
<1> QED BY <1>1, <1>2 DEF Range

LEMMA RangeFront ==
  ASSUME NEW S, NEW s \in Seq(S), s # <<>>
  PROVE  /\ Front(s) \in Seq(S) /\ s[Len(s)] \in S
         /\ Range(s) = Range(Front(s)) \cup {s[Len(s)]}
<1>1. Len(s) \in Nat /\ Len(s) >= 1 /\ DOMAIN s = 1 .. Len(s)
  OBVIOUS
<1>2. Front(s) \in Seq(S) /\ DOMAIN Front(s) = 1 .. Len(s) - 1 /\ \A i \in 1 .. Len(s) - 1 : Front(s)[i] = s[i]
  BY <1>1 DEF Front
<1>3. \A n \in Nat : n >= 1 => 1 .. n = (1 .. n - 1) \cup {n}
  OBVIOUS
<1>4. s[Len(s)] \in S
  BY <1>1
<1> QED BY <1>1, <1>2, <1>3, <1>4 DEF Range

LEMMA RangeTail ==
  ASSUME NEW S, NEW s \in Seq(S), s # <<>>
  PROVE  /\ Tail(s) \in Seq(S) /\ Head(s) \in S
         /\ Range(s) \subseteq Range(Tail(s)) \cup {Head(s)}
<1>1. Len(s) \in Nat /\ Len(s) >= 1 /\ DOMAIN s = 1 .. Len(s) /\ Head(s) = s[1] /\ s[1] \in S
  OBVIOUS
<1>2. Tail(s) \in Seq(S) /\ DOMAIN Tail(s) = 1 .. Len(s) - 1 /\ \A i \in 1 .. Len(s) - 1 : Tail(s)[i] = s[i + 1]
  OBVIOUS
<1>3. ASSUME NEW i \in 1 .. Len(s), i # 1 PROVE i - 1 \in 1 .. Len(s) - 1 /\ s[i] = Tail(s)[i - 1]
  <2>1. i - 1 \in 1 .. Len(s) - 1 /\ (i - 1) + 1 = i
    BY <1>1, <1>3
  <2> QED BY <1>2, <2>1
<1>4. ASSUME NEW i \in 1 .. Len(s) PROVE s[i] \in Range(Tail(s)) \cup {Head(s)}
  BY <1>1, <1>2, <1>3 DEF Range
<1> QED BY <1>1, <1>2, <1>4 DEF Range

-----------------------------------------------------------------------------
(***************************************************************************)
(* Orders of statements, and what they are when scripts are put together.  *)
(***************************************************************************)
\* Before every statement of X there is one of Y.
Before(s, Y, X) ==
  \A i \in DOMAIN s : s[i] \in X => \E j \in DOMAIN s : j < i /\ s[j] \in Y

\* After a statement of X there is none of Y.
NoneAfter(s, X, Y) ==
  \A i, j \in DOMAIN s : i < j /\ s[i] \in X => s[j] \notin Y

\* No statement of X occurs twice.
Once(s, X) ==
  \A i, j \in DOMAIN s : s[i] = s[j] /\ s[i] \in X => i = j

\* How a script u is put together from s and t.
Joined(s, t, u) ==
  /\ DOMAIN s \subseteq Int /\ DOMAIN t \subseteq Int /\ DOMAIN u \subseteq Int
  /\ \A i \in DOMAIN s : i \in DOMAIN u /\ u[i] = s[i]
  /\ \E n \in Int :
       /\ \A i \in DOMAIN s : i <= n
       /\ \A i \in DOMAIN t : i + n \in DOMAIN u /\ u[i + n] = t[i] /\ n < i + n
       /\ \A i \in DOMAIN u : i \in DOMAIN s \/ (n < i /\ i - n \in DOMAIN t /\ u[i] = t[i - n])

LEMMA ConcatJoined ==
  ASSUME NEW S, NEW s \in Seq(S), NEW t \in Seq(S)
  PROVE  s \o t \in Seq(S) /\ Joined(s, t, s \o t)
<1> DEFINE u == s \o t
           m == Len(s)
           n == Len(t)
<1>1. /\ m \in Nat /\ n \in Nat /\ DOMAIN s = 1 .. m /\ DOMAIN t = 1 .. n
      /\ u \in Seq(S) /\ DOMAIN u = 1 .. m + n
  OBVIOUS
<1>2. \A i \in 1 .. m + n : u[i] = IF i <= m THEN s[i] ELSE t[i - m]
  OBVIOUS
<1> HIDE DEF u, m, n
<1>3. \A i \in 1 .. m : i \in 1 .. m + n /\ u[i] = s[i] /\ i <= m
  BY <1>1, <1>2
<1>4. ASSUME NEW i \in 1 .. n PROVE i + m \in 1 .. m + n /\ u[i + m] = t[i] /\ m < i + m
  <2>1. i + m \in 1 .. m + n /\ m < i + m /\ (i + m) - m = i /\ ~(i + m <= m)
    BY <1>1
  <2> QED BY <1>2, <2>1
<1>5. ASSUME NEW i \in 1 .. m + n PROVE i \in 1 .. m \/ (m < i /\ i - m \in 1 .. n /\ u[i] = t[i - m])
  <2>1. i \in 1 .. m \/ (m < i /\ i - m \in 1 .. n /\ ~(i <= m))
    BY <1>1
  <2> QED BY <1>2, <2>1
<1>6. Joined(s, t, u)
  <2>1. /\ \A i \in DOMAIN s : i <= m
        /\ \A i \in DOMAIN t : i + m \in DOMAIN u /\ u[i + m] = t[i] /\ m < i + m
        /\ \A i \in DOMAIN u : i \in DOMAIN s \/ (m < i /\ i - m \in DOMAIN t /\ u[i] = t[i - m])
    BY <1>1, <1>3, <1>4, <1>5
  <2>2. DOMAIN s \subseteq Int /\ DOMAIN t \subseteq Int /\ DOMAIN u \subseteq Int /\ m \in Int
    BY <1>1
  <2>3. \A i \in DOMAIN s : i \in DOMAIN u /\ u[i] = s[i]
    BY <1>1, <1>3
  <2> QED BY <2>1, <2>2, <2>3 DEF Joined
<1> QED BY <1>1, <1>6 DEF u

LEMMA JoinedRange ==
  ASSUME NEW s, NEW t, NEW u, Joined(s, t, u)
  PROVE  Range(u) = Range(s) \cup Range(t)
BY DEF Joined, Range

LEMMA JoinedBefore ==
  ASSUME NEW s, NEW t, NEW u, Joined(s, t, u), NEW X, NEW Y,
         Before(s, Y, X), Before(t, Y, X) \/ Range(s) \cap Y # {}
  PROVE  Before(u, Y, X)
<1>1. PICK n \in Int :
       /\ \A i \in DOMAIN s : i <= n
       /\ \A i \in DOMAIN t : i + n \in DOMAIN u /\ u[i + n] = t[i] /\ n < i + n
       /\ \A i \in DOMAIN u : i \in DOMAIN s \/ (n < i /\ i - n \in DOMAIN t /\ u[i] = t[i - n])
  BY DEF Joined
<1>2. /\ DOMAIN s \subseteq Int /\ DOMAIN t \subseteq Int /\ DOMAIN u \subseteq Int
      /\ \A i \in DOMAIN s : i \in DOMAIN u /\ u[i] = s[i]
  BY DEF Joined
<1> SUFFICES ASSUME NEW i \in DOMAIN u, u[i] \in X PROVE \E j \in DOMAIN u : j < i /\ u[j] \in Y
  BY DEF Before
<1>3. CASE i \in DOMAIN s
  BY <1>2, <1>3 DEF Before
<1>4. CASE n < i /\ i - n \in DOMAIN t /\ u[i] = t[i - n]
  <2>1. CASE Before(t, Y, X)
    <3>1. PICK j \in DOMAIN t : j < i - n /\ t[j] \in Y
      BY <1>4, <2>1 DEF Before
    <3>2. j + n \in DOMAIN u /\ u[j + n] = t[j] /\ j + n < i
      BY <1>1, <1>2, <3>1
    <3> QED BY <3>1, <3>2
  <2>2. CASE Range(s) \cap Y # {}
    <3>1. PICK j \in DOMAIN s : s[j] \in Y
      BY <2>2 DEF Range
    <3>2. j \in DOMAIN u /\ u[j] = s[j] /\ j < i
      BY <1>1, <1>2, <1>4
    <3> QED BY <3>1, <3>2
  <2> QED BY <2>1, <2>2
<1> QED BY <1>1, <1>3, <1>4

LEMMA JoinedNoneAfter ==
  ASSUME NEW s, NEW t, NEW u, Joined(s, t, u), NEW X, NEW Y,
         NoneAfter(s, X, Y), NoneAfter(t, X, Y), Range(s) \cap X = {} \/ Range(t) \cap Y = {}
  PROVE  NoneAfter(u, X, Y)
<1>1. PICK n \in Int :
       /\ \A i \in DOMAIN s : i <= n
       /\ \A i \in DOMAIN t : i + n \in DOMAIN u /\ u[i + n] = t[i] /\ n < i + n
       /\ \A i \in DOMAIN u : i \in DOMAIN s \/ (n < i /\ i - n \in DOMAIN t /\ u[i] = t[i - n])
  BY DEF Joined
<1>2. /\ DOMAIN s \subseteq Int /\ DOMAIN t \subseteq Int /\ DOMAIN u \subseteq Int
      /\ \A i \in DOMAIN s : i \in DOMAIN u /\ u[i] = s[i]
  BY DEF Joined
<1> SUFFICES ASSUME NEW i \in DOMAIN u, NEW j \in DOMAIN u, i < j, u[i] \in X, u[j] \in Y PROVE FALSE
  BY DEF NoneAfter
<1>3. CASE j \in DOMAIN s
  <2>1. i \in DOMAIN s
    BY <1>1, <1>2, <1>3
  <2> QED BY <1>2, <1>3, <2>1 DEF NoneAfter
<1>4. CASE n < j /\ j - n \in DOMAIN t /\ u[j] = t[j - n]
  <2>1. CASE i \in DOMAIN s
    BY <1>2, <1>4, <2>1 DEF Range
  <2>2. CASE i - n \in DOMAIN t /\ u[i] = t[i - n]
    <3>1. i - n < j - n
      BY <1>2
    <3> QED BY <1>4, <2>2, <3>1 DEF NoneAfter
  <2> QED BY <1>1, <2>1, <2>2
<1> QED BY <1>1, <1>3, <1>4

LEMMA JoinedOnce ==
  ASSUME NEW s, NEW t, NEW u, Joined(s, t, u), NEW X,
         Once(s, X), Once(t, X), Range(s) \cap Range(t) \cap X = {}
  PROVE  Once(u, X)
<1>1. PICK n \in Int :
       /\ \A i \in DOMAIN s : i <= n
       /\ \A i \in DOMAIN t : i + n \in DOMAIN u /\ u[i + n] = t[i] /\ n < i + n
       /\ \A i \in DOMAIN u : i \in DOMAIN s \/ (n < i /\ i - n \in DOMAIN t /\ u[i] = t[i - n])
  BY DEF Joined
<1>2. /\ DOMAIN s \subseteq Int /\ DOMAIN t \subseteq Int /\ DOMAIN u \subseteq Int
      /\ \A i \in DOMAIN s : i \in DOMAIN u /\ u[i] = s[i]
  BY DEF Joined
<1> SUFFICES ASSUME NEW i \in DOMAIN u, NEW j \in DOMAIN u, u[i] = u[j], u[i] \in X PROVE i = j
  BY DEF Once
<1>3. CASE i \in DOMAIN s /\ j \in DOMAIN s
  BY <1>2, <1>3 DEF Once
<1>4. CASE i - n \in DOMAIN t /\ u[i] = t[i - n] /\ j - n \in DOMAIN t /\ u[j] = t[j - n]
  <2>1. i - n = j - n
    BY <1>4 DEF Once
  <2> QED BY <1>2, <2>1
<1>5. CASE i \in DOMAIN s /\ j - n \in DOMAIN t /\ u[j] = t[j - n]
  BY <1>2, <1>5 DEF Range
<1>6. CASE j \in DOMAIN s /\ i - n \in DOMAIN t /\ u[i] = t[i - n]
  BY <1>2, <1>6 DEF Range
<1> QED BY <1>1, <1>3, <1>4, <1>5, <1>6
-----------------------------------------------------------------------------
(***************************************************************************)
(* Scripts.                                                                *)
(***************************************************************************)
Statement ==
  {<<x>> : x \in {"clear", "restore", "drop", "try", "user_try", "check", "run", "leave", "give",
                  "disown", "event_loop", "loop"}}
    \cup ({"object"} \X (OtherObjects \cup Range(WebServers)))
    \cup ({"send", "receive"} \X {"tun", "go"}) \cup ({"exec"} \X {"absolute", "path"})
    \cup ({"fork", "adopt"} \X (Procs \ {"main"}))

Loops == {<<"event_loop">>}
Forks == {"fork"} \X (Procs \ {"main"})
Adopts == {"adopt"} \X (Procs \ {"main"})
Execs == {"exec"} \X {"absolute", "path"}
Gives == {<<"give">>}
Disowns == {<<"disown">>}
FirstForks == {<<"fork", "first">>}
Veths == {<<"object", "veth">>}
Outliving == {"object"} \X (Rules \cup {"veth", "hosts"} \cup Range(WebServers))

\* The orders that a part of a script keeps, whatever comes before it but the event loop;
\* G is what it forks.
Late(s, G) ==
  /\ s \in Seq(Statement)
  /\ Once(s, Forks) /\ Range(s) \cap Forks = G
  /\ Before(s, FirstForks, Gives) /\ Before(s, Gives, Disowns)
  /\ NoneAfter(s, Gives, Veths) /\ NoneAfter(s, Loops, Outliving)

\* Those of a script: it also forks only once it has the event loop.
Ordered(s, G) == Late(s, G) /\ Before(s, Loops, Forks \cup Adopts)

LEMMA Join ==
  ASSUME NEW s, NEW t, NEW F, NEW G, Ordered(s, F), Late(t, G), F \cap G = {},
         Before(t, Loops, Forks \cup Adopts) \/ Range(s) \cap Loops # {},
         Range(s) \cap Loops = {} \/ Range(t) \cap Outliving = {},
         Range(s) \cap Gives = {} \/ Range(t) \cap Veths = {}
  PROVE  Ordered(s \o t, F \cup G) /\ Range(s \o t) = Range(s) \cup Range(t)
<1> DEFINE u == s \o t
<1>1. /\ s \in Seq(Statement) /\ t \in Seq(Statement)
      /\ Once(s, Forks) /\ Range(s) \cap Forks = F /\ Once(t, Forks) /\ Range(t) \cap Forks = G
      /\ Before(s, FirstForks, Gives) /\ Before(s, Gives, Disowns)
      /\ Before(t, FirstForks, Gives) /\ Before(t, Gives, Disowns)
      /\ NoneAfter(s, Gives, Veths) /\ NoneAfter(s, Loops, Outliving)
      /\ NoneAfter(t, Gives, Veths) /\ NoneAfter(t, Loops, Outliving)
      /\ Before(s, Loops, Forks \cup Adopts)
  BY DEF Ordered, Late
<1>2. u \in Seq(Statement) /\ Joined(s, t, u)
  BY <1>1, ConcatJoined
<1> HIDE DEF u
<1>3. Range(u) = Range(s) \cup Range(t)
  BY <1>2, JoinedRange
<1>4. Once(u, Forks)
  <2>1. Range(s) \cap Range(t) \cap Forks = {}
    BY <1>1
  <2> QED BY <1>1, <1>2, <2>1, JoinedOnce
<1>5. Before(u, FirstForks, Gives) /\ Before(u, Gives, Disowns) /\ Before(u, Loops, Forks \cup Adopts)
  BY <1>1, <1>2, JoinedBefore
<1>6. NoneAfter(u, Gives, Veths) /\ NoneAfter(u, Loops, Outliving)
  BY <1>1, <1>2, JoinedNoneAfter
<1>7. Range(u) \cap Forks = F \cup G
  BY <1>1, <1>3
<1> QED BY <1>2, <1>3, <1>4, <1>5, <1>6, <1>7 DEF Ordered, Late, u

\* Statements about nothing of this.
LEMMA PlainOrdered ==
  ASSUME NEW s \in Seq(Statement), Range(s) \cap (Forks \cup Adopts \cup Gives \cup Disowns \cup Outliving) = {}
  PROVE  Ordered(s, {})
<1>1. \A i \in DOMAIN s : s[i] \notin Forks \cup Adopts \cup Gives \cup Disowns \cup Outliving
  BY DEF Range
<1> QED BY <1>1 DEF Ordered, Late, Once, Before, NoneAfter

LEMMA CheckedOrdered ==
  Ordered(Checked, {}) /\ Range(Checked) \cap (Loops \cup Gives \cup Execs) = {}
<1>1. Checked \in Seq(Statement) /\ Range(Checked) = {<<"clear">>, <<"check">>}
  BY DEF Checked, Statement, Range
<1>2. Range(Checked) \cap (Forks \cup Adopts \cup Gives \cup Disowns \cup Outliving \cup Loops \cup Execs) = {}
  BY <1>1 DEF Forks, Adopts, Gives, Disowns, Outliving, Loops, Execs
<1> QED BY <1>1, <1>2, PlainOrdered

LEMMA LoopOrdered ==
  /\ Ordered(Loop, {})
  /\ Range(Loop) \cap (Forks \cup Adopts \cup Gives \cup Disowns \cup Outliving \cup Loops \cup Execs \cup Veths) = {}
<1>1. Loop \in Seq(Statement) /\ Range(Loop) = {<<"loop">>}
  BY DEF Loop, Statement, Range
<1>2. Range(Loop) \cap (Forks \cup Adopts \cup Gives \cup Disowns \cup Outliving \cup Loops \cup Execs \cup Veths) = {}
  BY <1>1 DEF Forks, Adopts, Gives, Disowns, Outliving, Loops, Execs, Veths
<1> QED BY <1>1, <1>2, PlainOrdered

LEMMA ConstructOrdered ==
  /\ Ordered(Construct, {}) /\ <<"event_loop">> \in Range(Construct)
  /\ Range(Construct) \cap (Gives \cup Execs) = {}
<1>1. Construct \in Seq(Statement)
  <2>1. {<<"object", "unprivileged">>, <<"object", "borrow">>, <<"leave">>, <<"object", "nat_pre">>,
         <<"object", "nat_post">>, <<"event_loop">>, <<"check">>} \subseteq Statement
    BY DEF Statement, OtherObjects
  <2> QED BY <2>1 DEF Construct
<1>2. Range(Construct) = {<<"object", "unprivileged">>, <<"object", "borrow">>, <<"leave">>,
                          <<"object", "nat_pre">>, <<"object", "nat_post">>, <<"event_loop">>, <<"check">>}
  BY DEF Construct, Range
<1>3. Range(Construct) \cap (Forks \cup Adopts \cup Gives \cup Disowns \cup Execs) = {}
  BY <1>2 DEF Forks, Adopts, Gives, Disowns, Execs
<1>4. NoneAfter(Construct, Loops, Outliving)
  BY DEF NoneAfter, Construct, Loops, Outliving
<1>5. \A i \in DOMAIN Construct : Construct[i] \notin Forks \cup Adopts \cup Gives \cup Disowns
  BY <1>3 DEF Range
<1> QED BY <1>1, <1>2, <1>3, <1>4, <1>5 DEF Ordered, Late, Once, Before, NoneAfter, Loops

\* What comes after the first of Y is after one of Y.
LEMMA FirstOf ==
  ASSUME NEW S, NEW t \in Seq(S), NEW X, NEW Y, NEW e \in DOMAIN t, t[e] \in Y,
         \A i \in 1 .. e : t[i] \notin X
  PROVE  Before(t, Y, X)
<1>1. DOMAIN t = 1 .. Len(t) /\ Len(t) \in Nat
  OBVIOUS
<1>2. ASSUME NEW i \in DOMAIN t, t[i] \in X PROVE e < i
  BY <1>1, <1>2
<1> QED BY <1>2 DEF Before

\* What comes before the first of X is not after one of X.
LEMMA NoneFrom ==
  ASSUME NEW S, NEW t \in Seq(S), NEW X, NEW Y, NEW e \in DOMAIN t,
         \A i \in 1 .. e - 1 : t[i] \notin X, \A i \in e .. Len(t) : t[i] \notin Y
  PROVE  NoneAfter(t, X, Y)
<1>1. DOMAIN t = 1 .. Len(t) /\ Len(t) \in Nat
  OBVIOUS
<1>2. ASSUME NEW i \in DOMAIN t, NEW j \in DOMAIN t, i < j, t[i] \in X PROVE t[j] \notin Y
  BY <1>1, <1>2
<1> QED BY <1>2 DEF NoneAfter

\* What comes after the event loop is after it.
LEMMA LoopFirst ==
  ASSUME NEW S, NEW t \in Seq(S), NEW e \in DOMAIN t, t[e] = <<"event_loop">>,
         \A i \in 1 .. e - 1 : t[i] \notin Forks \cup Adopts
  PROVE  Before(t, Loops, Forks \cup Adopts)
<1>1. DOMAIN t = 1 .. Len(t) /\ Len(t) \in Nat
  OBVIOUS
<1>2. t[e] \notin Forks \cup Adopts
  BY DEF Forks, Adopts
<1>3. ASSUME NEW i \in DOMAIN t, t[i] \in Forks \cup Adopts PROVE e < i
  BY <1>1, <1>2, <1>3
<1> QED BY <1>3 DEF Before, Loops

\* A piece t that forks, written out: what its statements are follows from its range R.
LEMMA PieceOrdered ==
  ASSUME NEW t, NEW R, t \in Seq(R), R = Range(t), R \subseteq Statement, Once(t, Forks),
         Before(t, Loops, Forks \cup Adopts), R \cap (Gives \cup Disowns) = {},
         NoneAfter(t, Loops, Outliving)
  PROVE  Ordered(t, R \cap Forks)
<1>1. \A i \in DOMAIN t : t[i] \notin Gives \cup Disowns
  BY DEF Range
<1>2. t \in Seq(Statement)
  OBVIOUS
<1> QED BY <1>1, <1>2 DEF Ordered, Late, Before, NoneAfter
\* The scripts of the processes but main, which hold nothing that outlives them.
Minor(s, F) ==
  /\ Ordered(s, F)
  /\ Range(s) \cap (Outliving \cup Gives \cup Disowns) = {}
  /\ F = {} \/ Range(s) \cap Execs = {}

\* Statements that neither fork nor hold anything may come after.
LEMMA MinorJoin ==
  ASSUME NEW s, NEW t, NEW F, Minor(s, F), Ordered(t, {}),
         Range(t) \cap (Outliving \cup Gives \cup Disowns \cup Execs) = {}
  PROVE  Minor(s \o t, F)
<1>1. Late(t, {}) /\ Before(t, Loops, Forks \cup Adopts) /\ Range(t) \cap Veths = {}
  BY DEF Ordered, Veths, Outliving
<1>2. Range(s) \cap Gives = {} /\ Ordered(s, F)
  BY DEF Minor
<1>3. F \cap {} = {} /\ F \cup {} = F
  OBVIOUS
<1>4. Ordered(s \o t, F \cup {}) /\ Range(s \o t) = Range(s) \cup Range(t)
  BY <1>1, <1>2, <1>3, Join
<1> QED BY <1>3, <1>4 DEF Minor

LEMMA MinorLoop ==
  ASSUME NEW s, NEW F, Minor(s, F)
  PROVE  Minor(s \o Loop, F)
BY LoopOrdered, MinorJoin

LEMMA QueueOrdered ==
  ASSUME NEW args, NEW side
  PROVE  /\ Ordered(Queue(args, side), {})
         /\ Range(Queue(args, side)) \cap (Outliving \cup Gives \cup Disowns \cup Execs) = {}
<1> DEFINE q == Queue(args, side)
<1>1. q \in Seq(Statement) /\ Range(q) \subseteq {<<"object", "threads">>}
  <2>1. <<"object", "threads">> \in Statement
    BY DEF Statement, OtherObjects
  <2>2. <<>> \in Seq(Statement) /\ Range(<<>>) = {}
    BY DEF Range
  <2>3. << <<"object", "threads">> >> \in Seq(Statement)
        /\ Range(<< <<"object", "threads">> >>) = {<<"object", "threads">>}
    BY <2>1 DEF Range
  <2> QED BY <2>2, <2>3 DEF Queue
<1>2. <<"object", "threads">> \notin Forks \cup Adopts \cup Gives \cup Disowns \cup Outliving \cup Execs
  BY ServersAssumption DEF Forks, Adopts, Gives, Disowns, Outliving, Execs, OtherObjects, Range, Rules
<1> HIDE DEF q
<1>3. Ordered(q, {}) /\ Range(q) \cap (Outliving \cup Gives \cup Disowns \cup Execs) = {}
  BY <1>1, <1>2, PlainOrdered
<1> QED BY <1>3 DEF q

LEMMA UplinkOrdered ==
  ASSUME NEW args
  PROVE  Minor(Uplink(args), {<<"fork", "dnsmasq">>, <<"fork", "command">>})
<1> DEFINE t == << <<"event_loop">>, <<"fork", "dnsmasq">>, <<"adopt", "dnsmasq">>,
                   <<"drop">>, <<"restore">>,
                   <<"fork", "command">>, <<"adopt", "command">>, <<"send", "tun">> >>
           R == {<<"event_loop">>, <<"fork", "dnsmasq">>, <<"adopt", "dnsmasq">>, <<"drop">>, <<"restore">>,
                 <<"fork", "command">>, <<"adopt", "command">>, <<"send", "tun">>}
           q == Queue(args, "uplink")
<1>1. R = Range(t)
  BY DEF Range
<1>2. t \in Seq(R)
  OBVIOUS
<1>3. R \subseteq Statement
  BY DEF Statement, Procs
<1>4. /\ R \cap Forks = {<<"fork", "dnsmasq">>, <<"fork", "command">>}
      /\ R \cap (Outliving \cup Gives \cup Disowns \cup Execs) = {}
  BY DEF Forks, Procs, Outliving, Gives, Disowns, Execs
<1>5. Once(t, Forks)
  BY DEF Once, Forks
<1>6. Before(t, Loops, Forks \cup Adopts)
  <2>1. 1 \in DOMAIN t /\ t[1] = <<"event_loop">> /\ \A i \in 1 .. 1 - 1 : t[i] \notin Forks \cup Adopts
    OBVIOUS
  <2> HIDE DEF t
  <2> QED BY <1>2, <2>1, LoopFirst
<1>7. NoneAfter(t, Loops, Outliving)
  BY <1>1, <1>4 DEF NoneAfter, Range
<1>8. Minor(t, {<<"fork", "dnsmasq">>, <<"fork", "command">>})
  <2>1. Ordered(t, R \cap Forks)
    <3> HIDE DEF t, R
    <3> QED BY <1>1, <1>2, <1>3, <1>4, <1>5, <1>6, <1>7, PieceOrdered
  <2> QED BY <1>1, <1>4, <2>1 DEF Minor
<1> HIDE DEF t, R
<1>9. Uplink(args) = (t \o q) \o Loop
  BY DEF Uplink, t
<1> QED BY <1>8, <1>9, QueueOrdered, MinorJoin, MinorLoop
\* Scripts that fork nothing.
LEMMA MinorPlain ==
  ASSUME NEW s, NEW R, s \in Seq(R), R = Range(s), R \subseteq Statement,
         R \cap (Forks \cup Adopts \cup Gives \cup Disowns \cup Outliving) = {}
  PROVE  Minor(s, {})
<1>1. s \in Seq(Statement)
  OBVIOUS
<1> QED BY <1>1, PlainOrdered DEF Minor

LEMMA DownlinkOrdered == ASSUME NEW args PROVE Minor(Downlink(args), {})
<1> DEFINE t == << <<"drop">>, <<"restore">>, <<"receive", "tun">>, <<"event_loop">> >>
           R == {<<"drop">>, <<"restore">>, <<"receive", "tun">>, <<"event_loop">>}
           q == Queue(args, "downlink")
<1>1. R = Range(t) /\ t \in Seq(R)
  BY DEF Range
<1>2. R \subseteq Statement
  BY DEF Statement
<1>3. R \cap (Forks \cup Adopts \cup Gives \cup Disowns \cup Outliving) = {}
  BY DEF Forks, Adopts, Gives, Disowns, Outliving
<1> HIDE DEF t, R
<1>4. Minor(t, {})
  BY <1>1, <1>2, <1>3, MinorPlain
<1>5. Downlink(args) = (t \o q) \o Loop
  BY DEF Downlink, t
<1> QED BY <1>4, <1>5, QueueOrdered, MinorJoin, MinorLoop

LEMMA CommandsOrdered ==
  /\ Minor(RootCommand, {}) /\ Minor(InheritedCommand, {})
  /\ Minor(RestoringCommand, {}) /\ Minor(DroppingCommand, {})
<1> DEFINE R == {<<"drop">>, <<"restore">>, <<"exec", "path">>, <<"exec", "absolute">>}
<1>1. R \subseteq Statement
  BY DEF Statement
<1>2. R \cap (Forks \cup Adopts \cup Gives \cup Disowns \cup Outliving) = {}
  BY DEF Forks, Adopts, Gives, Disowns, Outliving
<1>3. /\ RootCommand \in Seq(R) /\ InheritedCommand \in Seq(R)
      /\ RestoringCommand \in Seq(R) /\ DroppingCommand \in Seq(R)
  BY DEF RootCommand, InheritedCommand, RestoringCommand, DroppingCommand
<1> HIDE DEF R
<1>4. ASSUME NEW s \in Seq(R) PROVE Minor(s, {})
  <2>1. s \in Seq(Range(s)) /\ Range(s) \subseteq R
    BY DEF Range
  <2> QED BY <1>1, <1>2, <2>1, MinorPlain
<1> QED BY <1>3, <1>4

LEMMA ContainerOrdered == Minor(Container, {<<"fork", "command">>})
<1> DEFINE t == << <<"receive", "go">>, <<"drop">>, <<"event_loop">>,
                   <<"fork", "command">>, <<"adopt", "command">> >>
           R == {<<"receive", "go">>, <<"drop">>, <<"event_loop">>,
                 <<"fork", "command">>, <<"adopt", "command">>}
<1>1. R = Range(t) /\ t \in Seq(R)
  BY DEF Range
<1>2. R \subseteq Statement
  BY DEF Statement, Procs
<1>3. R \cap Forks = {<<"fork", "command">>} /\ R \cap (Outliving \cup Gives \cup Disowns \cup Execs) = {}
  BY DEF Forks, Procs, Outliving, Gives, Disowns, Execs
<1>4. Once(t, Forks)
  BY DEF Once, Forks
<1>5. 3 \in DOMAIN t /\ t[3] = <<"event_loop">> /\ \A i \in 1 .. 3 - 1 : t[i] \notin Forks \cup Adopts
  BY DEF Forks, Adopts
<1>6. Container = t \o Loop
  BY DEF Container
<1> HIDE DEF t, R
<1>7. Before(t, Loops, Forks \cup Adopts)
  BY <1>1, <1>5, LoopFirst
<1>8. NoneAfter(t, Loops, Outliving)
  BY <1>1, <1>3 DEF NoneAfter, Range
<1>9. Minor(t, {<<"fork", "command">>})
  <2>1. R \cap (Gives \cup Disowns) = {}
    BY <1>3
  <2>2. Ordered(t, R \cap Forks)
    BY <1>1, <1>2, <1>4, <1>7, <1>8, <2>1, PieceOrdered
  <2> QED BY <1>1, <1>3, <2>2 DEF Minor
<1> QED BY <1>6, <1>9, MinorLoop

LEMMA ServersOrdered == Minor(Recorder, {}) /\ Minor(ProxyServer, {})
<1> DEFINE R == {<<"drop">>, <<"user_try">>, <<"event_loop">>}
           t == << <<"drop">>, <<"user_try">>, <<"event_loop">> >>
           u == << <<"drop">>, <<"event_loop">> >>
           v == << <<"try">> >>
<1>1. R \cup {<<"try">>} \subseteq Statement
  BY DEF Statement
<1>2. (R \cup {<<"try">>}) \cap (Forks \cup Adopts \cup Gives \cup Disowns \cup Outliving \cup Execs) = {}
  BY DEF Forks, Adopts, Gives, Disowns, Outliving, Execs
<1>3. t \in Seq(R) /\ u \in Seq(R) /\ v \in Seq({<<"try">>})
  OBVIOUS
<1>4. Recorder = (t \o Loop) \o v /\ ProxyServer = (u \o Loop) \o v
  BY DEF Recorder, ProxyServer
<1> HIDE DEF R, t, u, v
<1>5. ASSUME NEW s \in Seq(R \cup {<<"try">>})
      PROVE  Minor(s, {}) /\ Range(s) \cap (Outliving \cup Gives \cup Disowns \cup Execs) = {}
  <2>1. s \in Seq(Range(s)) /\ Range(s) \subseteq R \cup {<<"try">>}
    BY DEF Range
  <2>2. Minor(s, {})
    BY <1>1, <1>2, <2>1, MinorPlain
  <2> QED BY <1>2, <2>1, <2>2
<1>6. t \in Seq(R \cup {<<"try">>}) /\ u \in Seq(R \cup {<<"try">>}) /\ v \in Seq(R \cup {<<"try">>})
  BY <1>3
<1>7. Minor(t, {}) /\ Minor(u, {}) /\ Ordered(v, {}) /\ Range(v) \cap (Outliving \cup Gives \cup Disowns \cup Execs) = {}
  BY <1>5, <1>6 DEF Minor
<1>8. Minor(t \o Loop, {}) /\ Minor(u \o Loop, {})
  BY <1>7, MinorLoop
<1> QED BY <1>4, <1>7, <1>8, MinorJoin
\* main's scripts.
Major(s, F) == Ordered(s, F) /\ Range(s) \cap Execs = {}

LEMMA MajorLoop ==
  ASSUME NEW s, NEW F, Major(s, F)
  PROVE  Major(s \o Loop, F)
<1>1. Late(Loop, {}) /\ Before(Loop, Loops, Forks \cup Adopts) /\ Range(Loop) \cap Veths = {}
      /\ Range(Loop) \cap Outliving = {} /\ Range(Loop) \cap Execs = {}
  BY LoopOrdered DEF Ordered
<1>2. F \cap {} = {} /\ F \cup {} = F
  OBVIOUS
<1>3. Ordered(s \o Loop, F \cup {}) /\ Range(s \o Loop) = Range(s) \cup Range(Loop)
  BY <1>1, <1>2, Join DEF Major
<1> QED BY <1>1, <1>2, <1>3 DEF Major

LEMMA PacketMainOrdered == Major(PacketMain, {<<"fork", "first">>, <<"fork", "second">>})
<1> DEFINE t == << <<"fork", "first">>, <<"adopt", "first">>, <<"fork", "second">>, <<"adopt", "second">> >>
           R == {<<"fork", "first">>, <<"adopt", "first">>, <<"fork", "second">>, <<"adopt", "second">>}
           F == {<<"fork", "first">>, <<"fork", "second">>}
           c == Checked \o Construct
<1>1. R = Range(t) /\ t \in Seq(R)
  BY DEF Range
<1>2. R \subseteq Statement
  BY DEF Statement, Procs
<1>3. R \cap Forks = F /\ R \cap (Outliving \cup Veths \cup Gives \cup Disowns \cup Execs \cup Loops) = {}
  BY DEF Forks, Procs, Outliving, Veths, Gives, Disowns, Execs, Loops
<1>4. Once(t, Forks)
  BY DEF Once, Forks
<1>5. PacketMain = (c \o t) \o Loop
  BY DEF PacketMain
<1> HIDE DEF t, R
<1>6. Late(t, F)
  <2>1. t \in Seq(Statement) /\ \A i \in DOMAIN t : t[i] \notin Gives \cup Disowns \cup Loops
    BY <1>1, <1>2, <1>3 DEF Range
  <2> QED BY <1>1, <1>3, <1>4, <2>1 DEF Late, Before, NoneAfter
<1>7. Ordered(c, {}) /\ Range(c) = Range(Checked) \cup Range(Construct)
  <2>1. Late(Construct, {}) /\ Before(Construct, Loops, Forks \cup Adopts)
    BY ConstructOrdered DEF Ordered
  <2>2. {} \cap {} = {} /\ {} \cup {} = {}
    OBVIOUS
  <2>3. Ordered(c, {} \cup {}) /\ Range(c) = Range(Checked) \cup Range(Construct)
    BY <2>1, <2>2, CheckedOrdered, Join
  <2> QED BY <2>2, <2>3
<1>8. Range(c) \cap Loops # {} /\ Range(c) \cap (Gives \cup Execs) = {}
  BY <1>7, CheckedOrdered, ConstructOrdered DEF Loops
<1> HIDE DEF c, F
<1>9. Major(c \o t, F)
  <2>1. {} \cap F = {} /\ {} \cup F = F /\ Range(t) \cap Outliving = {}
    BY <1>1, <1>3
  <2>2. Ordered(c \o t, {} \cup F) /\ Range(c \o t) = Range(c) \cup Range(t)
    BY <1>6, <1>7, <1>8, <2>1, Join
  <2> QED BY <1>1, <1>3, <1>8, <2>1, <2>2 DEF Major
<1>10. Major((c \o t) \o Loop, F)
  BY <1>9, MajorLoop
<1> QED BY <1>5, <1>10 DEF F

LEMMA RecordMainOrdered == Major(RecordMain, {<<"fork", "first">>, <<"fork", "second">>})
<1> DEFINE t == << <<"object", "veth">>, <<"object", "nat_pre">>, <<"object", "nat_post">>,
                   <<"object", "dnat">>, <<"event_loop">>, <<"object", "pipe">>, <<"fork", "first">>,
                   <<"give">>, <<"disown">>, <<"send", "go">>, <<"adopt", "first">>, <<"leave">>,
                   <<"fork", "second">>, <<"adopt", "second">> >>
           R == {<<"object", "veth">>, <<"object", "nat_pre">>, <<"object", "nat_post">>,
                 <<"object", "dnat">>, <<"event_loop">>, <<"object", "pipe">>, <<"fork", "first">>,
                 <<"give">>, <<"disown">>, <<"send", "go">>, <<"adopt", "first">>, <<"leave">>,
                 <<"fork", "second">>, <<"adopt", "second">>}
           F == {<<"fork", "first">>, <<"fork", "second">>}
<1>1. R = Range(t) /\ t \in Seq(R)
  BY DEF Range
<1>2. R \subseteq Statement
  BY DEF Statement, Procs, OtherObjects
<1>3. R \cap Forks = F /\ R \cap Execs = {}
  BY DEF Forks, Procs, Execs
<1>4. Once(t, Forks)
  BY DEF Once, Forks
<1>5. <<"object", "pipe">> \notin Outliving
  BY ServersAssumption DEF Outliving, OtherObjects, Rules, Range
<1>6. Before(t, Loops, Forks \cup Adopts)
  <2>1. 5 \in DOMAIN t /\ t[5] \in Loops /\ \A i \in 1 .. 5 : t[i] \notin Forks \cup Adopts
    BY DEF Loops, Forks, Adopts
  <2> HIDE DEF t
  <2> QED BY <1>1, <2>1, FirstOf
<1>7. Before(t, FirstForks, Gives)
  <2>1. 7 \in DOMAIN t /\ t[7] \in FirstForks /\ \A i \in 1 .. 7 : t[i] \notin Gives
    BY DEF FirstForks, Gives
  <2> HIDE DEF t
  <2> QED BY <1>1, <2>1, FirstOf
<1>8. Before(t, Gives, Disowns)
  <2>1. 8 \in DOMAIN t /\ t[8] \in Gives /\ \A i \in 1 .. 8 : t[i] \notin Disowns
    BY DEF Gives, Disowns
  <2> HIDE DEF t
  <2> QED BY <1>1, <2>1, FirstOf
<1>9. NoneAfter(t, Gives, Veths)
  <2>1. /\ 2 \in DOMAIN t /\ \A i \in 1 .. 2 - 1 : t[i] \notin Gives
        /\ \A i \in 2 .. Len(t) : t[i] \notin Veths
    BY DEF Gives, Veths
  <2> HIDE DEF t
  <2> QED BY <1>1, <2>1, NoneFrom
<1>10. NoneAfter(t, Loops, Outliving)
  <2>1. /\ 5 \in DOMAIN t /\ \A i \in 1 .. 5 - 1 : t[i] \notin Loops
        /\ \A i \in 5 .. Len(t) : t[i] \notin Outliving
    BY <1>5 DEF Loops, Outliving
  <2> HIDE DEF t
  <2> QED BY <1>1, <2>1, NoneFrom
<1>11. RecordMain = (Checked \o t) \o Loop
  BY DEF RecordMain
<1> HIDE DEF t, R, F
<1>12. Late(t, F) /\ Before(t, Loops, Forks \cup Adopts)
  <2>1. t \in Seq(Statement)
    BY <1>1, <1>2
  <2> QED BY <1>1, <1>3, <1>4, <1>6, <1>7, <1>8, <1>9, <1>10, <2>1 DEF Late
<1>13. Major(Checked \o t, F)
  <2>1. {} \cap F = {} /\ {} \cup F = F
    OBVIOUS
  <2>2. Range(Checked) \cap Loops = {} /\ Range(Checked) \cap Gives = {} /\ Range(Checked) \cap Execs = {}
    BY CheckedOrdered
  <2>3. Ordered(Checked \o t, {} \cup F) /\ Range(Checked \o t) = Range(Checked) \cup Range(t)
    BY <1>12, <2>1, <2>2, CheckedOrdered, Join
  <2> QED BY <1>1, <1>3, <2>1, <2>2, <2>3 DEF Major
<1>14. Major((Checked \o t) \o Loop, F)
  BY <1>13, MajorLoop
<1> QED BY <1>11, <1>14 DEF F
LEMMA ReplayMainOrdered == Major(ReplayMain, {<<"fork", "dnsmasq">>, <<"fork", "command">>})
<1> DEFINE a == << <<"object", "unprivileged">>, <<"user_try">>, <<"leave">>, <<"run">> >>
           A == {<<"object", "unprivileged">>, <<"user_try">>, <<"leave">>, <<"run">>}
           t == << <<"object", "hosts">>, <<"event_loop">>, <<"run">>,
                   <<"fork", "dnsmasq">>, <<"adopt", "dnsmasq">>,
                   <<"fork", "command">>, <<"adopt", "command">> >>
           R == {<<"object", "hosts">>, <<"event_loop">>, <<"run">>, <<"fork", "dnsmasq">>,
                 <<"adopt", "dnsmasq">>, <<"fork", "command">>, <<"adopt", "command">>}
           F == {<<"fork", "dnsmasq">>, <<"fork", "command">>}
           c == Checked \o a
<1>1. A = Range(a) /\ a \in Seq(A) /\ R = Range(t) /\ t \in Seq(R)
  BY DEF Range
<1>2. R \subseteq Statement /\ A \subseteq Statement
  BY DEF Statement, Procs, OtherObjects
<1>3. R \cap Forks = F /\ R \cap (Execs \cup Gives \cup Disowns \cup Veths) = {}
  BY DEF Forks, Procs, Execs, Gives, Disowns, Veths
<1>4. A \cap (Forks \cup Adopts \cup Gives \cup Disowns \cup Loops \cup Execs) = {}
  BY DEF Forks, Adopts, Gives, Disowns, Loops, Execs
<1>5. Once(t, Forks)
  BY DEF Once, Forks
<1>6. 2 \in DOMAIN t /\ t[2] \in Loops /\ \A i \in 1 .. 2 : t[i] \notin Forks \cup Adopts
  BY DEF Loops, Forks, Adopts
<1>7. (\A i \in 1 .. 2 - 1 : t[i] \notin Loops) /\ \A i \in 2 .. Len(t) : t[i] \notin Outliving
  BY DEF Loops, Outliving
<1>8. ReplayMain = ((c \o Servers) \o t) \o Loop
  BY DEF ReplayMain
<1> HIDE DEF a, A, t, R, F
<1>9. Major(c, {}) /\ Range(c) \cap (Loops \cup Gives) = {}
  <2>1. \A i \in DOMAIN a : a[i] \notin Forks \cup Adopts \cup Gives \cup Disowns \cup Loops
    BY <1>1, <1>4 DEF Range
  <2>2. a \in Seq(Statement)
    BY <1>1, <1>2
  <2>3. Late(a, {}) /\ Before(a, Loops, Forks \cup Adopts)
    BY <1>1, <1>4, <2>1, <2>2 DEF Late, Once, Before, NoneAfter
  <2>4. {} \cap {} = {} /\ {} \cup {} = {} /\ Range(Checked) \cap Loops = {} /\ Range(Checked) \cap Gives = {}
    BY CheckedOrdered
  <2>5. Ordered(c, {} \cup {}) /\ Range(c) = Range(Checked) \cup Range(a)
    BY <2>3, <2>4, CheckedOrdered, Join
  <2> QED BY <1>1, <1>4, <2>4, <2>5, CheckedOrdered DEF Major
<1>10. /\ Late(Servers, {}) /\ Before(Servers, Loops, Forks \cup Adopts)
       /\ Range(Servers) \cap (Loops \cup Gives \cup Execs) = {}
  <2> DEFINE S == {"object"} \X Range(WebServers)
  <2>1. Servers \in Seq(S)
    BY ServersAssumption DEF Servers, Range
  <2>2. S \subseteq Statement
    BY DEF Statement
  <2>3. S \cap (Forks \cup Adopts \cup Gives \cup Disowns \cup Loops \cup Execs) = {}
    BY DEF Forks, Adopts, Gives, Disowns, Loops, Execs
  <2> HIDE DEF S
  <2>4. Servers \in Seq(Statement) /\ Range(Servers) \subseteq S
        /\ \A i \in DOMAIN Servers : Servers[i] \in S
    BY <2>1, <2>2 DEF Range
  <2>5. Once(Servers, Forks) /\ Range(Servers) \cap Forks = {}
    BY <2>3, <2>4 DEF Once
  <2>6. Before(Servers, FirstForks, Gives) /\ Before(Servers, Gives, Disowns)
        /\ Before(Servers, Loops, Forks \cup Adopts)
    BY <2>3, <2>4 DEF Before
  <2>7. NoneAfter(Servers, Gives, Veths) /\ NoneAfter(Servers, Loops, Outliving)
    BY <2>3, <2>4 DEF NoneAfter
  <2> QED BY <2>3, <2>4, <2>5, <2>6, <2>7 DEF Late
<1>11. Late(t, F) /\ Before(t, Loops, Forks \cup Adopts)
  <2>1. Before(t, Loops, Forks \cup Adopts)
    BY <1>1, <1>6, FirstOf
  <2>2. NoneAfter(t, Loops, Outliving)
    BY <1>1, <1>6, <1>7, NoneFrom
  <2>3. t \in Seq(Statement) /\ \A i \in DOMAIN t : t[i] \notin Gives \cup Disowns
    BY <1>1, <1>2, <1>3 DEF Range
  <2>4. Before(t, FirstForks, Gives) /\ Before(t, Gives, Disowns) /\ NoneAfter(t, Gives, Veths)
    BY <2>3 DEF Before, NoneAfter
  <2> QED BY <1>1, <1>3, <1>5, <2>1, <2>2, <2>3, <2>4 DEF Late
<1> HIDE DEF c
<1>12. Major(c \o Servers, {}) /\ Range(c \o Servers) \cap (Loops \cup Gives) = {}
  <2>1. {} \cap {} = {} /\ {} \cup {} = {} /\ Range(c) \cap Loops = {} /\ Range(c) \cap Gives = {}
    BY <1>9
  <2>2. Ordered(c \o Servers, {} \cup {}) /\ Range(c \o Servers) = Range(c) \cup Range(Servers)
    BY <1>9, <1>10, <2>1, Join DEF Major
  <2> QED BY <1>9, <1>10, <2>1, <2>2 DEF Major
<1>13. Major((c \o Servers) \o t, F)
  <2> DEFINE s == c \o Servers
  <2> HIDE DEF s
  <2>1. {} \cap F = {} /\ {} \cup F = F /\ Range(s) \cap Loops = {} /\ Range(s) \cap Gives = {}
        /\ Ordered(s, {}) /\ Range(s) \cap Execs = {}
    BY <1>12 DEF s, Major
  <2>2. Ordered(s \o t, {} \cup F) /\ Range(s \o t) = Range(s) \cup Range(t)
    BY <1>11, <2>1, Join
  <2>3. Major(s \o t, F)
    BY <1>1, <1>3, <2>1, <2>2 DEF Major
  <2> QED BY <2>3 DEF s
<1>14. Major(((c \o Servers) \o t) \o Loop, F)
  BY <1>13, MajorLoop
<1> QED BY <1>8, <1>14 DEF F
-----------------------------------------------------------------------------
(***************************************************************************)
(* Programs: what the scripts of one have in common.                       *)
(***************************************************************************)
Orderly(scripts) ==
  /\ \A p \in Procs : /\ scripts[p] \in Seq(Statement) /\ Once(scripts[p], Forks)
                      /\ Before(scripts[p], Loops, Forks \cup Adopts)
  /\ \A p, q \in Procs : p # q => Range(scripts[p]) \cap Range(scripts[q]) \cap Forks = {}
  /\ \A p \in Procs \ {"main"} : /\ Range(scripts[p]) \cap (Outliving \cup Gives \cup Disowns) = {}
                                 /\ Range(scripts[p]) \cap Execs = {} \/ Range(scripts[p]) \cap Forks = {}
  /\ \A p \in Procs \ {"main", "first"} : Range(scripts[p]) \cap Forks = {}
  /\ Range(scripts["first"]) \cap Forks \subseteq {<<"fork", "dnsmasq">>, <<"fork", "command">>}
  /\ Range(scripts["main"]) \cap Execs = {}
  /\ Before(scripts["main"], FirstForks, Gives) /\ Before(scripts["main"], Gives, Disowns)
  /\ NoneAfter(scripts["main"], Gives, Veths)

LEMMA OrderlyWhole ==
  ASSUME NEW scripts, NEW M, NEW N, Major(scripts["main"], M), Minor(scripts["first"], N),
         \A p \in Procs \ {"main", "first"} : Minor(scripts[p], {}),
         M \cap N = {}, N \subseteq {<<"fork", "dnsmasq">>, <<"fork", "command">>}
  PROVE  Orderly(scripts)
<1>1. /\ Ordered(scripts["main"], M) /\ Ordered(scripts["first"], N)
      /\ \A p \in Procs \ {"main", "first"} : Ordered(scripts[p], {})
  BY DEF Major, Minor
<1>2. \A p \in Procs : p = "main" \/ p = "first" \/ p \in Procs \ {"main", "first"}
  OBVIOUS
<1>3. \A p \in Procs : \E F : Ordered(scripts[p], F)
  BY <1>1, <1>2
<1>4. \A p \in Procs : /\ scripts[p] \in Seq(Statement) /\ Once(scripts[p], Forks)
                       /\ Before(scripts[p], Loops, Forks \cup Adopts)
  BY <1>3 DEF Ordered, Late
<1>5. /\ Range(scripts["main"]) \cap Forks = M /\ Range(scripts["first"]) \cap Forks = N
      /\ \A p \in Procs \ {"main", "first"} : Range(scripts[p]) \cap Forks = {}
  BY <1>1 DEF Ordered, Late
<1>6. \A p, q \in Procs : p # q => Range(scripts[p]) \cap Range(scripts[q]) \cap Forks = {}
  BY <1>2, <1>5
<1>7. \A p \in Procs \ {"main"} : \E F : Minor(scripts[p], F)
  BY <1>2
<1>8. \A p \in Procs \ {"main"} : /\ Range(scripts[p]) \cap (Outliving \cup Gives \cup Disowns) = {}
                                  /\ Range(scripts[p]) \cap Execs = {} \/ Range(scripts[p]) \cap Forks = {}
  BY <1>7 DEF Minor, Ordered, Late
<1>9. Range(scripts["main"]) \cap Execs = {}
  BY DEF Major
<1>10. /\ Before(scripts["main"], FirstForks, Gives) /\ Before(scripts["main"], Gives, Disowns)
       /\ NoneAfter(scripts["main"], Gives, Veths)
  BY <1>1 DEF Ordered, Late
<1> QED BY <1>4, <1>5, <1>6, <1>8, <1>9, <1>10 DEF Orderly

LEMMA EveryProgram == ASSUME NEW g PROVE Orderly([p \in Procs |-> Script(g, p)])
<1> DEFINE scripts == [p \in Procs |-> Script(g, p)]
           mine == {<<"fork", "first">>, <<"fork", "second">>}
           theirs == {<<"fork", "dnsmasq">>, <<"fork", "command">>}
<1> SUFFICES Orderly(scripts)
  OBVIOUS
<1>1. \A p \in Procs : scripts[p] = Script(g, p)
  OBVIOUS
<1>2. "main" \in Procs /\ "first" \in Procs
  BY DEF Procs
<1>3. mine \cap theirs = {} /\ mine \cap {<<"fork", "command">>} = {} /\ theirs \cap {} = {}
  OBVIOUS
<1>4. CASE g.name = "packet"
  <2>1. Major(scripts["main"], mine) /\ Minor(scripts["first"], theirs)
    BY <1>1, <1>2, <1>4, PacketMainOrdered, UplinkOrdered DEF Script
  <2>2. \A p \in Procs \ {"main", "first"} : Minor(scripts[p], {})
    BY <1>1, <1>4, DownlinkOrdered, CommandsOrdered DEF Script
  <2> HIDE DEF scripts, mine, theirs
  <2> QED BY <1>3, <2>1, <2>2, OrderlyWhole DEF theirs
<1>5. CASE g.name = "record" \/ g.name = "proxy"
  <2>1. Major(scripts["main"], mine) /\ Minor(scripts["first"], {<<"fork", "command">>})
    BY <1>1, <1>2, <1>5, RecordMainOrdered, ContainerOrdered DEF Script, ProxyMain, ProxyContainer
  <2>2. \A p \in Procs \ {"main", "first"} : Minor(scripts[p], {})
    BY <1>1, <1>5, ServersOrdered, CommandsOrdered DEF Script
  <2> HIDE DEF scripts, mine
  <2> QED BY <1>3, <2>1, <2>2, OrderlyWhole
<1>6. CASE g.name \notin {"packet", "record", "proxy"}
  <2>1. Major(scripts["main"], theirs) /\ Minor(scripts["first"], {})
    BY <1>1, <1>2, <1>6, ReplayMainOrdered, CommandsOrdered DEF Script, ReplayDelayMain
  <2>2. \A p \in Procs \ {"main", "first"} : Minor(scripts[p], {})
    BY <1>1, <1>6, CommandsOrdered DEF Script
  <2> HIDE DEF scripts, theirs
  <2> QED BY <1>3, <2>1, <2>2, OrderlyWhole
<1> QED BY <1>4, <1>5, <1>6
-----------------------------------------------------------------------------
(***************************************************************************)
(* What is so of the processes f that run the scripts of code: whoever     *)
(* lives is minded by the process that forked it, which blocks its         *)
(* signals and has yet to destroy the child, in a ChildProcess of its own  *)
(* or in its event loop.                                                   *)
(***************************************************************************)
Things == Rules \cup {"veth", "hosts"} \cup Range(WebServers)

Object ==
  {<<x>> : x \in {"event_loop", "borrow", "threads", "pipe"}}
    \cup ({"unprivileged"} \X BOOLEAN) \cup ({"held"} \X Things) \cup ({"child"} \X Procs)

Process ==
  [mode : {"none", "runs", "leaves", "user", "gone"}, parent : Procs \cup {"none"}, pc : Nat,
   status : {"none", "ok", "fails", "finished", "killed"}, objs : Seq(Object), kids : Seq(Procs),
   reaped : BOOLEAN, doomed : BOOLEAN, root : BOOLEAN, env : BOOLEAN, masked : BOOLEAN,
   pending : SUBSET {"HUP", "TERM"}]

Lives(o) == o.mode \in {"runs", "leaves", "user"}

\* A process with the record o will destroy child k.
Minds(o, k) ==
  /\ o.mode \in {"runs", "leaves"} /\ o.masked
  /\ \/ <<"child", k>> \in Range(o.objs)
     \/ k \in Range(o.kids) /\ <<"event_loop">> \in Range(o.objs)

Minded(scripts, f) ==
  \A k \in Procs \ {"main"} : Lives(f[k]) =>
    /\ f[k].parent \in Procs /\ <<"fork", k>> \in Range(scripts[f[k].parent])
    /\ Minds(f[f[k].parent], k)

\* A process with the record o has statement i before it; behind it.
Ahead(o, i) == o.mode = "none" \/ (o.mode = "runs" /\ o.pc <= i)
Behind(o, i) == o.mode = "runs" /\ i < o.pc

NotYet(scripts, f) ==
  \A p \in Procs : \A i \in DOMAIN scripts[p] :
    scripts[p][i] \in Forks /\ Ahead(f[p], i) => f[scripts[p][i][2]].mode = "none"

Already(scripts, f) ==
  \A p \in Procs : \A i \in DOMAIN scripts[p] :
    scripts[p][i] \in Forks /\ Behind(f[p], i) => f[scripts[p][i][2]].mode # "none"

\* A process with the script s and the record o is at a statement or behind the last as it runs,
\* has the event loop it is behind, and no objects when it is gone.
Proper(s, o) ==
  /\ o.mode = "runs" => o.pc >= 1
  /\ o.mode = "gone" => o.objs = <<>>
  /\ \A i \in DOMAIN s : s[i] \in Loops /\ Behind(o, i) => o.masked /\ <<"event_loop">> \in Range(o.objs)

Family(scripts, f) ==
  /\ f \in [Procs -> Process] /\ f["main"].mode \notin {"none", "user"}
  /\ Minded(scripts, f) /\ NotYet(scripts, f) /\ Already(scripts, f)
  /\ \A p \in Procs : Proper(scripts[p], f[p])

\* What may become of the record o of p when the others stay as they are.
Fits(scripts, f, p, r) ==
  /\ r \in Process /\ r.parent = f[p].parent
  /\ r.mode = "none" <=> f[p].mode = "none"
  /\ Lives(r) => Lives(f[p])
  /\ p = "main" => r.mode # "user"
  /\ \A k \in Procs \ {"main"} : Lives(f[k]) /\ f[k].parent = p /\ Minds(f[p], k) => Minds(r, k)
  /\ r.mode = "runs" => /\ f[p].mode = "runs" /\ f[p].pc <= r.pc
                        /\ \A i \in DOMAIN scripts[p] : f[p].pc <= i /\ i < r.pc => scripts[p][i] \notin Forks
  /\ Proper(scripts[p], r)

LEMMA OneChanges ==
  ASSUME NEW scripts, Orderly(scripts), NEW f, Family(scripts, f), NEW p \in Procs, NEW r, Fits(scripts, f, p, r)
  PROVE  Family(scripts, [f EXCEPT ![p] = r])
<1> DEFINE h == [f EXCEPT ![p] = r]
<1>1. f \in [Procs -> Process] /\ r \in Process
  BY DEF Family, Fits
<1>2. h \in [Procs -> Process] /\ h[p] = r /\ \A q \in Procs : q # p => h[q] = f[q]
  BY <1>1
<1> HIDE DEF h
<1>3. \A k \in Procs : h[k].mode = "none" <=> f[k].mode = "none"
  BY <1>2 DEF Fits
<1>4. \A k \in Procs : (Lives(h[k]) => Lives(f[k])) /\ h[k].parent = f[k].parent
  BY <1>2 DEF Fits
<1>5. h["main"].mode \notin {"none", "user"}
  BY <1>2 DEF Family, Fits, Procs
<1>6. Minded(scripts, h)
  <2> SUFFICES ASSUME NEW k \in Procs \ {"main"}, Lives(h[k])
               PROVE  /\ h[k].parent \in Procs /\ <<"fork", k>> \in Range(scripts[h[k].parent])
                      /\ Minds(h[h[k].parent], k)
    BY DEF Minded
  <2>1. /\ Lives(f[k]) /\ f[k].parent \in Procs /\ <<"fork", k>> \in Range(scripts[f[k].parent])
        /\ Minds(f[f[k].parent], k)
    BY <1>4 DEF Family, Minded
  <2>2. Minds(h[f[k].parent], k)
    BY <1>2, <2>1 DEF Fits
  <2> QED BY <1>4, <2>1, <2>2
<1>7. \A q \in Procs : \A i \in DOMAIN scripts[q] : scripts[q][i] \in Forks => scripts[q][i][2] \in Procs
  BY DEF Forks
<1>8. ASSUME NEW i \in DOMAIN scripts[p], scripts[p][i] \in Forks
      PROVE  (Ahead(r, i) => Ahead(f[p], i)) /\ (Behind(r, i) => Behind(f[p], i))
  <2>1. r.pc \in Nat /\ f[p].pc \in Nat
    BY <1>1 DEF Process
  <2>2. i \in Nat
    <3>1. scripts[p] \in Seq(Statement)
      BY DEF Orderly
    <3> QED BY <3>1
  <2> QED BY <1>8, <2>1, <2>2 DEF Fits, Ahead, Behind
<1>9. NotYet(scripts, h)
  BY <1>2, <1>3, <1>7, <1>8 DEF NotYet, Family
<1>10. Already(scripts, h)
  BY <1>2, <1>3, <1>7, <1>8 DEF Already, Family
<1>11. \A q \in Procs : Proper(scripts[q], h[q])
  BY <1>2 DEF Family, Fits
<1>12. Family(scripts, h)
  BY <1>2, <1>5, <1>6, <1>9, <1>10, <1>11 DEF Family
<1> QED BY <1>12 DEF h

\* p forks k by the statement i that it is at.
LEMMA Born ==
  ASSUME NEW scripts, Orderly(scripts), NEW f, Family(scripts, f), NEW p \in Procs,
         NEW i \in DOMAIN scripts[p], NEW k \in Procs \ {"main"}, scripts[p][i] = <<"fork", k>>,
         f[p].mode = "runs", f[p].pc = i,
         NEW r \in Process, r.mode = "runs", r.pc = i + 1, r.parent = f[p].parent,
         f[p].masked => r.masked, Range(r.objs) = Range(f[p].objs) \cup {<<"child", k>>},
         r.kids = f[p].kids,
         NEW c \in Process, c.mode = "runs", c.pc = 1, c.parent = p
  PROVE  Family(scripts, [f EXCEPT ![p] = r, ![k] = c])
<1> DEFINE h == [f EXCEPT ![p] = r, ![k] = c]
<1>1. f \in [Procs -> Process] /\ scripts[p] \in Seq(Statement) /\ Once(scripts[p], Forks)
  BY DEF Family, Orderly
<1>2. scripts[p][i] \in Forks /\ scripts[p][i][2] = k /\ i \in Nat /\ i \in 1 .. Len(scripts[p])
  BY <1>1 DEF Forks
<1>3. f[k].mode = "none"
  <2>1. Ahead(f[p], i)
    BY <1>2 DEF Ahead
  <2> QED BY <1>2, <2>1 DEF Family, NotYet
<1>4. k # p /\ f["main"].mode \notin {"none", "user"}
  BY <1>3 DEF Family
<1>5. /\ h \in [Procs -> Process] /\ h[p] = r /\ h[k] = c
      /\ \A q \in Procs \ {p, k} : h[q] = f[q]
  BY <1>1, <1>4
<1> HIDE DEF h
<1>6. h["main"].mode \notin {"none", "user"}
  BY <1>4, <1>5 DEF Procs
<1>7. f[p].masked /\ <<"event_loop">> \in Range(f[p].objs)
  <2>1. PICK j \in DOMAIN scripts[p] : j < i /\ scripts[p][j] \in Loops
    BY <1>2 DEF Orderly, Before
  <2> QED BY <2>1 DEF Family, Proper, Behind
<1>8. <<"fork", k>> \in Range(scripts[p]) /\ Minds(r, k)
  <2>1. r.masked /\ <<"child", k>> \in Range(r.objs)
    BY <1>7
  <2> QED BY <2>1 DEF Minds, Range
<1>9. Minded(scripts, h)
  <2> SUFFICES ASSUME NEW x \in Procs \ {"main"}, Lives(h[x])
               PROVE  /\ h[x].parent \in Procs /\ <<"fork", x>> \in Range(scripts[h[x].parent])
                      /\ Minds(h[h[x].parent], x)
    BY DEF Minded
  <2>1. CASE x = k
    BY <1>5, <1>8, <2>1
  <2>2. CASE x # k
    <3>1. h[x].parent = f[x].parent /\ Lives(f[x])
      BY <1>5, <2>2 DEF Lives
    <3>2. /\ f[x].parent \in Procs /\ <<"fork", x>> \in Range(scripts[f[x].parent])
          /\ Minds(f[f[x].parent], x)
      BY <3>1 DEF Family, Minded
    <3>3. f[x].parent # k
      BY <1>3, <3>2 DEF Minds
    <3>4. CASE f[x].parent = p
      BY <1>5, <3>1, <3>2, <3>4 DEF Minds
    <3>5. CASE f[x].parent # p
      BY <1>5, <3>1, <3>2, <3>3, <3>5
    <3> QED BY <3>4, <3>5
  <2> QED BY <2>1, <2>2
\* No other statement forks k.
<1>10. ASSUME NEW q \in Procs, NEW j \in DOMAIN scripts[q], scripts[q][j] \in Forks, q # p \/ j # i
       PROVE  scripts[q][j][2] \in Procs \ {k}
  <2>1. scripts[q][j] = <<"fork", scripts[q][j][2]>> /\ scripts[q][j][2] \in Procs
    BY <1>10 DEF Forks
  <2>2. ASSUME scripts[q][j][2] = k PROVE FALSE
    <3>1. scripts[q][j] = scripts[p][i]
      BY <2>1, <2>2
    <3>2. q = p
      <4>1. scripts[p][i] \in Range(scripts[p]) /\ scripts[p][i] \in Range(scripts[q])
        BY <3>1 DEF Range
      <4> QED BY <1>2, <4>1 DEF Orderly
    <3> QED BY <1>1, <1>2, <1>10, <3>1, <3>2 DEF Once
  <2> QED BY <2>1, <2>2
<1>11. \A q \in Procs : scripts[q] \in Seq(Statement)
  BY DEF Orderly
<1>12. NotYet(scripts, h)
  <2> SUFFICES ASSUME NEW q \in Procs, NEW j \in DOMAIN scripts[q], scripts[q][j] \in Forks, Ahead(h[q], j)
               PROVE  h[scripts[q][j][2]].mode = "none"
    BY DEF NotYet
  <2>1. q # p \/ j # i
    BY <1>2, <1>5 DEF Ahead
  <2>2. scripts[q][j][2] \in Procs \ {k}
    BY <1>10, <2>1
  <2>3. j \in Nat /\ j >= 1
    BY <1>11
  <2>4. Ahead(f[q], j)
    <3>1. CASE q = p
      BY <1>2, <1>5, <2>3, <3>1 DEF Ahead
    <3>2. CASE q = k
      BY <1>3, <3>2 DEF Ahead
    <3>3. CASE q \notin {p, k}
      BY <1>5, <3>3
    <3> QED BY <3>1, <3>2, <3>3
  <2>5. f[scripts[q][j][2]].mode = "none"
    BY <2>4 DEF Family, NotYet
  <2>6. scripts[q][j][2] # p
    BY <2>5
  <2> QED BY <1>5, <2>2, <2>5, <2>6
<1>13. Already(scripts, h)
  <2> SUFFICES ASSUME NEW q \in Procs, NEW j \in DOMAIN scripts[q], scripts[q][j] \in Forks, Behind(h[q], j)
               PROVE  h[scripts[q][j][2]].mode # "none"
    BY DEF Already
  <2>1. j \in Nat /\ j >= 1
    BY <1>11
  <2>2. CASE q = p /\ j = i
    BY <1>2, <1>5, <2>2
  <2>3. CASE q # p \/ j # i
    <3>1. scripts[q][j][2] \in Procs \ {k}
      BY <1>10, <2>3
    <3>2. Behind(f[q], j)
      <4>1. CASE q = p
        BY <1>2, <1>5, <2>1, <2>3, <4>1 DEF Behind
      <4>2. CASE q = k
        BY <1>5, <2>1, <4>2 DEF Behind
      <4>3. CASE q \notin {p, k}
        BY <1>5, <4>3
      <4> QED BY <4>1, <4>2, <4>3
    <3>3. f[scripts[q][j][2]].mode # "none"
      BY <3>2 DEF Family, Already
    <3> QED BY <1>5, <3>1, <3>3
  <2> QED BY <2>2, <2>3
<1>14. ASSUME NEW q \in Procs PROVE Proper(scripts[q], h[q])
  <2>1. CASE q = p
    <3>1. h[q].masked /\ <<"event_loop">> \in Range(h[q].objs) /\ h[q].pc >= 1 /\ h[q].mode = "runs"
      BY <1>2, <1>5, <1>7, <2>1
    <3> QED BY <3>1 DEF Proper
  <2>2. CASE q = k
    <3>1. \A j \in DOMAIN scripts[q] : j \in Nat /\ j >= 1
      BY <1>11
    <3> QED BY <1>5, <2>2, <3>1 DEF Proper, Behind
  <2>3. CASE q \notin {p, k}
    BY <1>5, <2>3 DEF Family
  <2> QED BY <2>1, <2>2, <2>3
<1>15. Family(scripts, h)
  BY <1>5, <1>6, <1>9, <1>12, <1>13, <1>14 DEF Family
<1> QED BY <1>15 DEF h
-----------------------------------------------------------------------------
(***************************************************************************)
(* What main's destructors will take down: all that is held, but what a    *)
(* destructor complained of and a pair that is left to the kernel, which   *)
(* is in a namespace that somebody lives in, or gone.                      *)
(***************************************************************************)
Killed(o) == o.mode = "gone" /\ o.status = "killed"

Cared(f, h, dis, com) ==
  \/ Killed(f["main"])
  \/ \A x \in h : x \in com \/ <<"held", x>> \in Range(f["main"].objs) \/ (x = "veth" /\ dis)

\* main is behind a statement of X.
Past(scripts, f, X) ==
  \E i \in DOMAIN scripts["main"] : Behind(f["main"], i) /\ scripts["main"][i] \in X

Given(scripts, f, h, ins, dis) ==
  /\ ins => ~Emptied(f)
  /\ dis \/ Past(scripts, f, Gives) => ins \/ "veth" \notin h
  /\ dis /\ f["main"].mode = "runs" => Past(scripts, f, Disowns)

\* What may become of the record o of p when nothing is taken down.
Carries(scripts, f, p, r) ==
  p = "main" =>
    /\ Killed(r) \/ (/\ ~Killed(f[p])
                     /\ \A x : <<"held", x>> \in Range(f[p].objs) => <<"held", x>> \in Range(r.objs))
    /\ r.mode = "runs" =>
         \A i \in DOMAIN scripts[p] : f[p].pc <= i /\ i < r.pc => scripts[p][i] \notin Gives \cup Disowns

Fine(scripts, f, p, r) == Fits(scripts, f, p, r) /\ Carries(scripts, f, p, r)

\* A process that goes on or unwinds from the record o to r, and releases nothing.
Keeps(o, r) ==
  /\ r \in Process /\ r.mode \in {"runs", "leaves"} /\ r.parent = o.parent
  /\ o.masked => r.masked
  /\ <<"event_loop">> \in Range(o.objs) => <<"event_loop">> \in Range(r.objs)
  /\ \A k : Minds(o, k) => Minds(r, k)
  /\ \A x : <<"held", x>> \in Range(o.objs) => <<"held", x>> \in Range(r.objs)

LEMMA Grows ==
  ASSUME NEW o, NEW r \in Process, r.mode \in {"runs", "leaves"}, r.parent = o.parent, o.masked => r.masked,
         Range(o.objs) \subseteq Range(r.objs), Range(o.kids) \subseteq Range(r.kids)
  PROVE  Keeps(o, r)
BY DEF Keeps, Minds

LEMMA Shrinks ==
  ASSUME NEW o \in Process, NEW r \in Process, r.mode \in {"runs", "leaves"}, r.parent = o.parent,
         o.masked => r.masked, o.objs # <<>>, r.objs = Front(o.objs), r.kids = o.kids,
         o.objs[Len(o.objs)][1] \in {"unprivileged", "borrow", "threads", "pipe"}
  PROVE  Keeps(o, r)
<1> DEFINE t == o.objs[Len(o.objs)]
<1>1. o.objs \in Seq(Object)
  BY DEF Process
<1>2. Range(o.objs) = Range(r.objs) \cup {t}
  BY <1>1, RangeFront
<1>3. t[1] \in {"unprivileged", "borrow", "threads", "pipe"}
  OBVIOUS
<1> HIDE DEF t
<1>4. t # <<"event_loop">> /\ (\A k : t # <<"child", k>>) /\ \A x : t # <<"held", x>>
  BY <1>3
<1> QED BY <1>2, <1>4 DEF Keeps, Minds

\* The next statement was passed.
LEMMA Onward ==
  ASSUME NEW scripts, Orderly(scripts), NEW f, Family(scripts, f), NEW p \in Procs, NEW r,
         Keeps(f[p], r), f[p].mode = "runs", f[p].pc \in DOMAIN scripts[p],
         r.mode = "runs", r.pc = f[p].pc + 1, scripts[p][f[p].pc] \notin Forks,
         scripts[p][f[p].pc] \in Loops => r.masked /\ <<"event_loop">> \in Range(r.objs)
  PROVE  /\ Fits(scripts, f, p, r)
         /\ scripts[p][f[p].pc] \notin Gives \cup Disowns => Carries(scripts, f, p, r)
<1>1. f[p] \in Process /\ r \in Process
  BY DEF Family, Keeps
<1>2. scripts[p] \in Seq(Statement)
  BY DEF Orderly
<1>3. \A i \in DOMAIN scripts[p] : i < r.pc <=> (i < f[p].pc \/ i = f[p].pc)
  BY <1>1, <1>2
<1>4. \A i \in DOMAIN scripts[p] : f[p].pc <= i /\ i < r.pc => i = f[p].pc
  BY <1>1, <1>2
<1>5. f[p].pc <= r.pc
  BY <1>1 DEF Process
<1>6. Proper(scripts[p], r)
  <2>1. \A i \in DOMAIN scripts[p] : Behind(r, i) => Behind(f[p], i) \/ i = f[p].pc
    BY <1>3 DEF Behind
  <2>2. r.pc >= 1
    BY <1>1, <1>2 DEF Process
  <2> QED BY <2>1, <2>2 DEF Proper, Keeps, Family
<1>7. Fits(scripts, f, p, r)
  BY <1>1, <1>4, <1>5, <1>6 DEF Fits, Keeps, Lives
<1>8. ASSUME scripts[p][f[p].pc] \notin Gives \cup Disowns PROVE Carries(scripts, f, p, r)
  BY <1>4, <1>8 DEF Carries, Keeps, Killed
<1> QED BY <1>7, <1>8

\* The frames are left.
LEMMA Unwinds ==
  ASSUME NEW scripts, NEW f, Family(scripts, f), NEW p \in Procs, NEW r \in Process,
         f[p].mode \in {"runs", "leaves"}, r.mode = "leaves", r.parent = f[p].parent,
         \A k \in Procs : Lives(f[k]) /\ Minds(f[p], k) => Minds(r, k)
  PROVE  /\ Fits(scripts, f, p, r)
         /\ (\A x : <<"held", x>> \in Range(f[p].objs) => <<"held", x>> \in Range(r.objs)) =>
              Carries(scripts, f, p, r)
<1>1. Proper(scripts[p], r)
  BY DEF Proper, Behind
<1> QED BY <1>1 DEF Fits, Carries, Killed, Lives

\* The process notes something.
LEMMA Notes ==
  ASSUME NEW scripts, Orderly(scripts), NEW f, Family(scripts, f), NEW p \in Procs, NEW r \in Process,
         r.mode = f[p].mode, r.parent = f[p].parent, r.pc = f[p].pc, r.status = f[p].status,
         r.objs = f[p].objs, r.kids = f[p].kids, r.masked = f[p].masked
  PROVE  Fine(scripts, f, p, r)
<1>1. Proper(scripts[p], r)
  BY DEF Family, Proper, Behind
<1>2. \A k : Minds(f[p], k) => Minds(r, k)
  BY DEF Minds
<1>3. f[p].pc \in Nat /\ scripts[p] \in Seq(Statement)
  BY DEF Family, Process, Orderly
<1>4. \A i \in DOMAIN scripts[p] : i \in Nat
  BY <1>3
<1>5. f[p].pc <= r.pc /\ \A i \in DOMAIN scripts[p] : ~(f[p].pc <= i /\ i < r.pc)
  BY <1>3, <1>4
<1>6. p = "main" => r.mode # "user"
  BY DEF Family
<1> QED BY <1>1, <1>2, <1>5, <1>6 DEF Fine, Fits, Carries, Killed, Lives
\* The process ends, when it minds nobody.
LEMMA Finishes ==
  ASSUME NEW scripts, NEW f, Family(scripts, f), NEW p \in Procs, NEW r \in Process,
         r.mode = "gone", r.parent = f[p].parent, r.objs = <<>>, Lives(f[p]),
         ~f[p].masked \/ f[p].mode = "user" \/ f[p].objs = <<>>,
         r.status = "killed" \/ f[p].mode = "user" \/ f[p].objs = <<>>
  PROVE  Fine(scripts, f, p, r)
<1>1. ASSUME f[p].objs = <<>> PROVE Range(f[p].objs) = {}
  BY <1>1 DEF Range
<1>2. Proper(scripts[p], r)
  BY DEF Proper, Behind
<1>3. \A k : ~Minds(f[p], k)
  BY <1>1 DEF Minds
<1>4. Fits(scripts, f, p, r)
  BY <1>2, <1>3 DEF Fits, Lives
<1>5. f["main"].mode # "user"
  BY DEF Family
<1>6. Carries(scripts, f, p, r)
  BY <1>1, <1>5 DEF Carries, Killed, Lives
<1> QED BY <1>4, <1>6 DEF Fine

\* A process notes something in its record.
Marked(o, r) ==
  /\ r \in Process /\ r.mode = o.mode /\ r.parent = o.parent /\ r.pc = o.pc /\ r.status = o.status
  /\ r.objs = o.objs /\ r.kids = o.kids /\ r.masked = o.masked

LEMMA MarkedRecord ==
  ASSUME NEW o \in Process, NEW b \in BOOLEAN, NEW P \in SUBSET {"HUP", "TERM"}
  PROVE  /\ Marked(o, [o EXCEPT !.doomed = b]) /\ Marked(o, [o EXCEPT !.reaped = b])
         /\ Marked(o, [o EXCEPT !.pending = P])
<1>1. Marked(o, [o EXCEPT !.doomed = b])
  BY DEF Marked, Process
<1>2. Marked(o, [o EXCEPT !.reaped = b])
  BY DEF Marked, Process
<1>3. Marked(o, [o EXCEPT !.pending = P])
  BY DEF Marked, Process
<1> QED BY <1>1, <1>2, <1>3

LEMMA UnbornIsProcess ==
  Unborn \in Process /\ Unborn.mode = "none" /\ Unborn.pc = 1 /\ Unborn.objs = <<>> /\ Unborn.kids = <<>>
<1>1. <<>> \in Seq(Object) /\ <<>> \in Seq(Procs) /\ 1 \in Nat /\ {} \in SUBSET {"HUP", "TERM"}
  OBVIOUS
<1> QED BY <1>1 DEF Unborn, Process

LEMMA EndedIsProcess ==
  ASSUME NEW o \in Process, NEW status \in {"none", "ok", "fails", "finished", "killed"}
  PROVE  /\ Ended(o, status) \in Process /\ Ended(o, status).mode = "gone"
         /\ Ended(o, status).parent = o.parent /\ Ended(o, status).status = status
         /\ Ended(o, status).objs = <<>>
<1>1. o.parent \in Procs \cup {"none"}
  BY DEF Process
<1> QED BY <1>1, UnbornIsProcess DEF Ended, Process

LEMMA SignalledFine ==
  ASSUME NEW scripts, Orderly(scripts), NEW f, Family(scripts, f), NEW p \in Procs, NEW o \in Process,
         o.mode = f[p].mode, o.parent = f[p].parent, o.pc = f[p].pc, o.status = f[p].status,
         o.objs = f[p].objs, o.kids = f[p].kids, o.masked = f[p].masked, NEW sig \in {"HUP", "TERM"}
  PROVE  Fine(scripts, f, p, Signalled(o, sig))
<1> DEFINE r == Signalled(o, sig)
<1> SUFFICES Fine(scripts, f, p, r)
  OBVIOUS
<1>1. CASE o.mode = "user" \/ o.masked
  <2>1. r = [o EXCEPT !.pending = @ \cup {sig}]
    BY <1>1 DEF Signalled
  <2>2. [o EXCEPT !.pending = @ \cup {sig}] = [o EXCEPT !.pending = o.pending \cup {sig}]
    BY DEF Process
  <2>3. o.pending \cup {sig} \in SUBSET {"HUP", "TERM"}
    BY DEF Process
  <2>4. Marked(o, r)
    BY <2>1, <2>2, <2>3, MarkedRecord
  <2> HIDE DEF r
  <2> QED BY <2>4, Notes DEF Marked
<1>2. CASE ~(o.mode = "user" \/ o.masked) /\ o.mode \in {"runs", "leaves"}
  <2>1. r = Ended(o, "killed")
    BY <1>2 DEF Signalled
  <2>2. r \in Process /\ r.mode = "gone" /\ r.parent = o.parent /\ r.status = "killed" /\ r.objs = <<>>
    BY <2>1, EndedIsProcess
  <2> HIDE DEF r
  <2> QED BY <1>2, <2>2, Finishes DEF Lives
<1>3. CASE ~(o.mode = "user" \/ o.masked) /\ o.mode \notin {"runs", "leaves"}
  <2>1. r = o
    BY <1>3 DEF Signalled
  <2> QED BY <2>1, Notes
<1> QED BY <1>1, <1>2, <1>3
-----------------------------------------------------------------------------
(***************************************************************************)
(* What is held, from one set of processes to the next.                    *)
(***************************************************************************)
\* main passes no statement that gives the device away.
Over(scripts, f, g) ==
  g["main"].mode = "runs" =>
    /\ f["main"].mode = "runs" /\ f["main"].pc <= g["main"].pc
    /\ \A i \in DOMAIN scripts["main"] :
         f["main"].pc <= i /\ i < g["main"].pc => scripts["main"][i] \notin Gives \cup Disowns

LEMMA PastSame ==
  ASSUME NEW scripts, Orderly(scripts), NEW f \in [Procs -> Process], NEW g \in [Procs -> Process], Over(scripts, f, g)
  PROVE  /\ Past(scripts, g, Gives) => Past(scripts, f, Gives)
         /\ g["main"].mode = "runs" /\ Past(scripts, f, Disowns) => Past(scripts, g, Disowns)
<1>1. /\ "main" \in Procs
      /\ f["main"].pc \in Nat /\ g["main"].pc \in Nat /\ scripts["main"] \in Seq(Statement)
  BY DEF Procs, Process, Orderly
<1>2. \A i \in DOMAIN scripts["main"] : i \in Nat
  BY <1>1
<1>3. ASSUME g["main"].mode = "runs", NEW i \in DOMAIN scripts["main"]
      PROVE  /\ Behind(g["main"], i) => Behind(f["main"], i) \/ scripts["main"][i] \notin Gives \cup Disowns
             /\ Behind(f["main"], i) => Behind(g["main"], i)
  BY <1>1, <1>2, <1>3 DEF Over, Behind
<1>4. ASSUME Past(scripts, g, Gives) PROVE Past(scripts, f, Gives)
  <2>1. PICK i \in DOMAIN scripts["main"] : Behind(g["main"], i) /\ scripts["main"][i] \in Gives
    BY <1>4 DEF Past
  <2>2. g["main"].mode = "runs"
    BY <2>1 DEF Behind
  <2> QED BY <1>3, <2>1, <2>2 DEF Past
<1>5. ASSUME g["main"].mode = "runs", Past(scripts, f, Disowns) PROVE Past(scripts, g, Disowns)
  BY <1>3, <1>5 DEF Past
<1> QED BY <1>4, <1>5

\* The kernel destroys a namespace in which nobody lives.
LEMMA GivenKept ==
  ASSUME NEW scripts, Orderly(scripts), NEW f \in [Procs -> Process], NEW g \in [Procs -> Process], Over(scripts, f, g),
         NEW h, NEW ins \in BOOLEAN, NEW dis \in BOOLEAN, Given(scripts, f, h, ins, dis),
         NEW rest, rest \subseteq h, ins /\ Emptied(g) => "veth" \notin rest,
         NEW still \in BOOLEAN, still => ~Emptied(g), ins /\ ~Emptied(g) => still
  PROVE  Given(scripts, g, rest, still, dis)
<1>1. /\ Past(scripts, g, Gives) => Past(scripts, f, Gives)
      /\ g["main"].mode = "runs" /\ Past(scripts, f, Disowns) => Past(scripts, g, Disowns)
      /\ g["main"].mode = "runs" => f["main"].mode = "runs"
  BY PastSame DEF Over
<1>2. CASE ins /\ Emptied(g)
  BY <1>1, <1>2 DEF Given
<1>3. CASE ~(ins /\ Emptied(g))
  BY <1>1, <1>3 DEF Given
<1> QED BY <1>2, <1>3

LEMMA FineOver ==
  ASSUME NEW scripts, Orderly(scripts), NEW f, Family(scripts, f), NEW p \in Procs, NEW r, Fine(scripts, f, p, r)
  PROVE  /\ Over(scripts, f, [f EXCEPT ![p] = r])
         /\ \A h, dis, com : Cared(f, h, dis, com) => Cared([f EXCEPT ![p] = r], h, dis, com)
<1> DEFINE g == [f EXCEPT ![p] = r]
<1>1. f \in [Procs -> Process] /\ "main" \in Procs
  BY DEF Family, Procs
<1>2. IF p = "main" THEN g["main"] = r ELSE g["main"] = f["main"]
  BY <1>1
<1> HIDE DEF g
<1>3. f["main"].pc \in Nat /\ \A i \in DOMAIN scripts["main"] : i \in Nat
  <2>1. scripts["main"] \in Seq(Statement)
    BY <1>1 DEF Orderly
  <2> QED BY <1>1, <2>1 DEF Process
<1>4. CASE p = "main"
  <2>1. Over(scripts, f, g)
    BY <1>2, <1>4 DEF Over, Fine, Fits, Carries
  <2>2. \A h, dis, com : Cared(f, h, dis, com) => Cared(g, h, dis, com)
    BY <1>2, <1>4 DEF Cared, Fine, Carries
  <2> QED BY <2>1, <2>2 DEF g
<1>5. CASE p # "main"
  <2>1. Over(scripts, f, g)
    <3>1. f["main"].pc <= g["main"].pc
          /\ \A i \in DOMAIN scripts["main"] : ~(f["main"].pc <= i /\ i < g["main"].pc)
      BY <1>2, <1>3, <1>5
    <3> QED BY <1>2, <1>5, <3>1 DEF Over
  <2>2. \A h, dis, com : Cared(f, h, dis, com) => Cared(g, h, dis, com)
    BY <1>2, <1>5 DEF Cared
  <2> QED BY <2>1, <2>2 DEF g
<1> QED BY <1>4, <1>5
-----------------------------------------------------------------------------
(***************************************************************************)
(* The invariant, and the steps that keep it.                              *)
(***************************************************************************)
IInv ==
  /\ Orderly(prog.code) /\ Family(prog.code, proc)
  /\ inside \in BOOLEAN /\ disowned \in BOOLEAN
  /\ Given(prog.code, proc, held, inside, disowned)
  /\ Cared(proc, held, disowned, complained)

LEMMA IInvNext ==
  ASSUME IInv, UNCHANGED prog, Family(prog.code, proc'), inside' \in BOOLEAN, disowned' \in BOOLEAN,
         Given(prog.code, proc', held', inside', disowned'), Cared(proc', held', disowned', complained')
  PROVE  IInv'
BY DEF IInv

\* A step to the processes g that holds h but for what the kernel destroys.
LEMMA KernelKeeps ==
  ASSUME IInv, NEW g, NEW h, Kernel(g, h), UNCHANGED <<prog, disowned>>,
         Family(prog.code, g), Over(prog.code, proc, g), Given(prog.code, proc, h, inside, disowned),
         Cared(g, h, disowned, complained')
  PROVE  IInv'
<1> DEFINE h1 == IF inside /\ Emptied(g) THEN h \ {"veth"} ELSE h
<1>1. proc' = g /\ inside' = (inside /\ ~Emptied(g)) /\ held' = h1 /\ disowned' = disowned /\ prog' = prog
  BY DEF Kernel
<1>2. Given(prog.code, g, held', inside', disowned)
  <2>1. /\ proc \in [Procs -> Process] /\ g \in [Procs -> Process] /\ inside \in BOOLEAN /\ disowned \in BOOLEAN
        /\ Orderly(prog.code)
    BY DEF IInv, Family
  <2>2. inside' \in BOOLEAN /\ (inside' <=> inside /\ ~Emptied(g))
    BY <1>1
  <2>3. held' \subseteq h /\ (inside /\ Emptied(g) => "veth" \notin held')
    BY <1>1
  <2> QED BY <2>1, <2>2, <2>3, GivenKept
<1>3. h1 \subseteq h
  OBVIOUS
<1> HIDE DEF h1
<1>4. Cared(g, h1, disowned, complained')
  BY <1>3 DEF Cared
<1>5. inside' \in BOOLEAN /\ disowned' \in BOOLEAN
  BY <1>1 DEF IInv
<1> QED BY <1>1, <1>2, <1>4, <1>5, IInvNext

Plain ==
  \E p \in Procs : \E r : /\ Fine(prog.code, proc, p, r) /\ Becomes(p, r)
                          /\ UNCHANGED <<prog, disowned, complained>>

LEMMA PlainKeeps == IInv /\ Plain => IInv'
<1> SUFFICES ASSUME IInv, NEW p \in Procs, NEW r, Fine(prog.code, proc, p, r), Becomes(p, r),
                    UNCHANGED <<prog, disowned, complained>>
             PROVE  IInv'
  BY DEF Plain
<1> DEFINE g == [proc EXCEPT ![p] = r]
<1>1. Kernel(g, held)
  BY DEF Becomes
<1>2. Orderly(prog.code) /\ Family(prog.code, proc) /\ Cared(proc, held, disowned, complained)
      /\ Given(prog.code, proc, held, inside, disowned)
  BY DEF IInv
<1>3. Family(prog.code, g)
  BY <1>2, OneChanges DEF Fine
<1>4. Over(prog.code, proc, g) /\ Cared(g, held, disowned, complained)
  BY <1>2, FineOver
<1> HIDE DEF g
<1> QED BY <1>1, <1>2, <1>3, <1>4, KernelKeeps

-----------------------------------------------------------------------------
\* Where a process is.
LEMMA AtStatement ==
  ASSUME IInv, NEW p \in Procs, At(p)[1] # "end"
  PROVE  /\ proc[p].mode = "runs" /\ proc[p].pc \in DOMAIN prog.code[p]
         /\ At(p) = prog.code[p][proc[p].pc] /\ At(p) \in Statement /\ At(p) \in Range(prog.code[p])
<1>1. prog.code[p] \in Seq(Statement) /\ proc[p].pc \in Nat
  BY DEF IInv, Orderly, Family, Process
<1>2. proc[p].mode = "runs" /\ proc[p].pc <= Len(prog.code[p]) /\ At(p) = prog.code[p][proc[p].pc]
  BY DEF At
<1>3. proc[p].pc >= 1
  BY <1>2 DEF IInv, Family, Proper
<1>4. proc[p].pc \in DOMAIN prog.code[p]
  BY <1>1, <1>2, <1>3
<1>5. At(p) \in Statement
  BY <1>1, <1>2, <1>4
<1>6. At(p) \in Range(prog.code[p])
  BY <1>2, <1>4 DEF Range
<1> QED BY <1>2, <1>4, <1>5, <1>6

LEMMA StatementKinds ==
  ASSUME NEW s \in Statement
  PROVE  /\ s[1] \in {"fork", "adopt"} => s = <<s[1], s[2]>> /\ s[2] \in Procs \ {"main"}
         /\ s[1] = "exec" => s \in Execs
         /\ s[1] \in {"give", "disown", "event_loop"} => s = <<s[1]>>
         /\ s[1] # "fork" => s \notin Forks
         /\ s[1] # "give" => s \notin Gives
         /\ s[1] # "disown" => s \notin Disowns
         /\ s[1] # "event_loop" => s \notin Loops
BY DEF Statement, Execs, Forks, Gives, Disowns, Loops

\* A statement that neither forks nor has to do with the device, nor is the event loop.
LEMMA Advances ==
  ASSUME IInv, NEW p \in Procs, At(p)[1] \notin {"end", "fork", "give", "disown", "event_loop"},
         NEW r, Keeps(proc[p], r), r.mode = "runs", r.pc = proc[p].pc + 1
  PROVE  Fine(prog.code, proc, p, r)
<1>1. /\ proc[p].mode = "runs" /\ proc[p].pc \in DOMAIN prog.code[p]
      /\ At(p) = prog.code[p][proc[p].pc] /\ At(p) \in Statement
  BY AtStatement
<1>2. At(p) \notin Forks /\ At(p) \notin Gives \cup Disowns /\ At(p) \notin Loops
  BY <1>1, StatementKinds
<1>3. Orderly(prog.code) /\ Family(prog.code, proc)
  BY DEF IInv
<1> QED BY <1>1, <1>2, <1>3, Onward DEF Fine

LEMMA AdvancedIsProcess ==
  ASSUME IInv, NEW p \in Procs
  PROVE  /\ proc[p] \in Process /\ Advanced(p) \in Process
         /\ Advanced(p) = [proc[p] EXCEPT !.pc = proc[p].pc + 1]
<1>1. proc[p] \in Process
  BY DEF IInv, Family
<1>2. proc[p].pc + 1 \in Nat
  BY <1>1 DEF Process
<1> QED BY <1>1, <1>2 DEF Advanced, Process

\* p passes its statement; its frames stay as they are.
Passing(p, r) ==
  /\ r \in Process /\ r.mode = proc[p].mode /\ r.pc = proc[p].pc + 1 /\ r.parent = proc[p].parent
  /\ r.objs = proc[p].objs /\ r.kids = proc[p].kids /\ r.masked = proc[p].masked

LEMMA PassingKeeps ==
  ASSUME IInv, NEW p \in Procs, NEW r, Passing(p, r), Becomes(p, r), UNCHANGED <<prog, disowned, complained>>,
         At(p)[1] \notin {"end", "fork", "give", "disown", "event_loop"}
  PROVE  IInv'
<1>1. proc[p].mode = "runs"
  BY AtStatement
<1>2. Keeps(proc[p], r)
  BY <1>1, Grows DEF Passing
<1>3. Fine(prog.code, proc, p, r)
  BY <1>1, <1>2, Advances DEF Passing
<1> QED BY <1>3, PlainKeeps DEF Plain

LEMMA AdvancedPasses ==
  ASSUME IInv, NEW p \in Procs, NEW b \in BOOLEAN
  PROVE  /\ Passing(p, Advanced(p))
         /\ Passing(p, [Advanced(p) EXCEPT !.env = b]) /\ Passing(p, [Advanced(p) EXCEPT !.root = b])
         /\ Passing(p, [Advanced(p) EXCEPT !.status = "ok"])
         /\ Passing(p, [Advanced(p) EXCEPT !.status = "finished"])
         /\ Passing(p, [Advanced(p) EXCEPT !.status = "ok", !.pending = {}])
<1> DEFINE a == Advanced(p)
<1>1. a \in Process /\ a = [proc[p] EXCEPT !.pc = proc[p].pc + 1] /\ proc[p] \in Process
  BY AdvancedIsProcess
<1> HIDE DEF a
<1>2. Passing(p, a)
  BY <1>1 DEF Passing, Process
<1>3. Passing(p, [a EXCEPT !.env = b])
  BY <1>1, <1>2 DEF Passing, Process
<1>4. Passing(p, [a EXCEPT !.root = b])
  BY <1>1, <1>2 DEF Passing, Process
<1>5. Passing(p, [a EXCEPT !.status = "ok"])
  BY <1>1, <1>2 DEF Passing, Process
<1>6. Passing(p, [a EXCEPT !.status = "finished"])
  BY <1>1, <1>2 DEF Passing, Process
<1>7. Passing(p, [a EXCEPT !.status = "ok", !.pending = {}])
  <2> DEFINE q == [a EXCEPT !.status = "ok"]
  <2> HIDE DEF q
  <2>1. Passing(p, q)
    BY <1>5 DEF q
  <2>2. Marked(q, [q EXCEPT !.pending = {}])
    BY <2>1, MarkedRecord DEF Passing
  <2>3. Passing(p, [q EXCEPT !.pending = {}])
    BY <2>1, <2>2 DEF Passing, Marked
  <2> QED BY <2>3 DEF q
<1> QED BY <1>2, <1>3, <1>4, <1>5, <1>6, <1>7 DEF a

LEMMA PassesKeeps == ASSUME IInv, NEW p \in Procs, Passes(p) \/ DropsPrivileges(p) PROVE IInv'
<1>1. CASE At(p)[1] = "clear" /\ Becomes(p, [Advanced(p) EXCEPT !.env = FALSE])
           /\ UNCHANGED <<prog, disowned, complained>>
  BY <1>1, AdvancedPasses, PassingKeeps
<1>2. CASE At(p)[1] = "restore" /\ Becomes(p, [Advanced(p) EXCEPT !.env = TRUE])
           /\ UNCHANGED <<prog, disowned, complained>>
  BY <1>2, AdvancedPasses, PassingKeeps
<1>3. CASE At(p)[1] \in {"try", "user_try", "check", "run"} /\ Becomes(p, Advanced(p))
           /\ UNCHANGED <<prog, disowned, complained>>
  BY <1>3, AdvancedPasses, PassingKeeps
<1>4. CASE DropsPrivileges(p)
  BY <1>4, AdvancedPasses, PassingKeeps DEF DropsPrivileges
<1> QED BY <1>1, <1>2, <1>3, <1>4 DEF Passes

LEMMA MessagesKeep == ASSUME IInv, NEW p \in Procs, Send(p) \/ Receive(p) PROVE IInv'
<1>1. CASE Send(p)
  BY <1>1, AdvancedPasses, PassingKeeps DEF Send
<1>2. CASE Receive(p)
  BY <1>2, AdvancedPasses, PassingKeeps DEF Receive
<1> QED BY <1>1, <1>2

LEMMA LoopEndsKeep == ASSUME IInv, NEW p \in Procs, LoopSignal(p) \/ LoopFinishes(p) PROVE IInv'
<1>1. CASE LoopSignal(p)
  BY <1>1, AdvancedPasses, PassingKeeps DEF LoopSignal, Looping
<1>2. CASE LoopFinishes(p)
  BY <1>2, AdvancedPasses, PassingKeeps DEF LoopFinishes, Looping
<1> QED BY <1>1, <1>2

\* p passes its statement, after which it has one more object.
Appending(p, r, e) ==
  /\ r \in Process /\ r.mode = proc[p].mode /\ r.pc = proc[p].pc + 1 /\ r.parent = proc[p].parent
  /\ Range(r.objs) = Range(proc[p].objs) \cup {e} /\ r.kids = proc[p].kids
  /\ proc[p].masked => r.masked

LEMMA AppendingRecord ==
  ASSUME IInv, NEW p \in Procs, NEW a, NEW e \in Object, Passing(p, a)
  PROVE  Appending(p, [a EXCEPT !.objs = Append(@, e)], e)
<1>1. proc[p].objs \in Seq(Object)
  BY DEF IInv, Family, Process
<1>2. Append(a.objs, e) \in Seq(Object) /\ Range(Append(a.objs, e)) = Range(proc[p].objs) \cup {e}
  BY <1>1, RangeAppend DEF Passing
<1>3. a \in Process
  BY DEF Passing
<1>4. [a EXCEPT !.objs = Append(@, e)] = [a EXCEPT !.objs = Append(a.objs, e)]
  BY <1>3
<1> DEFINE q == Append(a.objs, e)
<1> HIDE DEF q
<1>5. Appending(p, [a EXCEPT !.objs = q], e)
  BY <1>2, <1>3 DEF Appending, Passing, Process, q
<1> QED BY <1>4, <1>5 DEF q

LEMMA LocalKeeps ==
  ASSUME IInv, NEW p \in Procs, BecomesUnprivileged(p) \/ BorrowsEnvironment(p) \/ NewLocal(p)
  PROVE  IInv'
<1>1. ASSUME NEW a, NEW e \in Object, Passing(p, a), Local(p, a, e), At(p)[1] = "object" PROVE IInv'
  <2> DEFINE r == [a EXCEPT !.objs = Append(@, e)]
  <2>1. Becomes(p, r) /\ UNCHANGED <<prog, disowned, complained>>
    BY <1>1 DEF Local
  <2>2. Appending(p, r, e)
    BY <1>1, AppendingRecord
  <2> HIDE DEF r
  <2>3. proc[p].mode = "runs"
    BY <1>1, AtStatement
  <2>4. Keeps(proc[p], r)
    BY <2>2, <2>3, Grows DEF Appending
  <2>5. Fine(prog.code, proc, p, r)
    BY <1>1, <2>2, <2>3, <2>4, Advances DEF Appending
  <2> QED BY <2>1, <2>5, PlainKeeps DEF Plain
<1>2. proc[p].root \in BOOLEAN
  BY DEF IInv, Family, Process
<1>3. <<"unprivileged", proc[p].root>> \in Object /\ <<"borrow">> \in Object
      /\ <<"threads">> \in Object /\ <<"pipe">> \in Object
  BY <1>2 DEF Object
<1>4. CASE BecomesUnprivileged(p)
  <2>1. Local(p, [Advanced(p) EXCEPT !.root = FALSE], <<"unprivileged", proc[p].root>>) /\ At(p)[1] = "object"
    BY <1>4 DEF BecomesUnprivileged
  <2> QED BY <1>1, <1>3, <2>1, AdvancedPasses
<1>5. CASE BorrowsEnvironment(p)
  <2>1. Local(p, [Advanced(p) EXCEPT !.env = TRUE], <<"borrow">>) /\ At(p)[1] = "object"
    BY <1>5 DEF BorrowsEnvironment
  <2> QED BY <1>1, <1>3, <2>1, AdvancedPasses
<1>6. CASE NewLocal(p)
  <2>1. Local(p, Advanced(p), <<At(p)[2]>>) /\ At(p)[1] = "object" /\ At(p)[2] \in {"threads", "pipe"}
    BY <1>6 DEF NewLocal
  <2>2. <<At(p)[2]>> \in Object
    BY <1>3, <2>1
  <2> QED BY <1>1, <2>1, <2>2, AdvancedPasses
<1> QED BY <1>4, <1>5, <1>6

LEMMA NewEventLoopKeeps == ASSUME IInv, NEW p \in Procs, NewEventLoop(p) PROVE IInv'
<1> DEFINE a == Advanced(p)
           q == Append(proc[p].objs, <<"event_loop">>)
           r == [a EXCEPT !.masked = TRUE, !.objs = q]
<1>1. /\ proc[p].mode = "runs" /\ proc[p].pc \in DOMAIN prog.code[p]
      /\ At(p) = prog.code[p][proc[p].pc] /\ At(p) \in Statement /\ At(p)[1] = "event_loop"
  BY AtStatement DEF NewEventLoop
<1>2. prog.code[p][proc[p].pc] \notin Forks \cup Gives \cup Disowns
  BY <1>1, StatementKinds
<1>3. proc[p].objs \in Seq(Object) /\ <<"event_loop">> \in Object /\ a \in Process
      /\ a = [proc[p] EXCEPT !.pc = proc[p].pc + 1] /\ proc[p] \in Process
  BY AdvancedIsProcess DEF Process, Object
<1>4. q \in Seq(Object) /\ Range(q) = Range(proc[p].objs) \cup {<<"event_loop">>}
  BY <1>3, RangeAppend
<1>5. Becomes(p, [[a EXCEPT !.masked = TRUE] EXCEPT !.objs = Append(@, <<"event_loop">>)])
      /\ UNCHANGED <<prog, disowned, complained>>
  BY DEF NewEventLoop, Local
<1> HIDE DEF a
<1>6. [[a EXCEPT !.masked = TRUE] EXCEPT !.objs = Append(@, <<"event_loop">>)]
        = [[a EXCEPT !.masked = TRUE] EXCEPT !.objs = q]
  BY <1>3 DEF Process
<1> HIDE DEF q
<1>7. /\ r \in Process /\ r.mode = "runs" /\ r.pc = proc[p].pc + 1 /\ r.parent = proc[p].parent
      /\ r.masked /\ r.objs = q /\ r.kids = proc[p].kids
  BY <1>1, <1>3, <1>4 DEF Process
<1>8. Becomes(p, r)
  BY <1>5, <1>6
<1> HIDE DEF r
<1>9. Keeps(proc[p], r)
  BY <1>4, <1>7, Grows
<1>10. Fine(prog.code, proc, p, r)
  <2>1. Orderly(prog.code) /\ Family(prog.code, proc) /\ <<"event_loop">> \in Range(r.objs)
    BY <1>4, <1>7 DEF IInv
  <2> QED BY <1>1, <1>2, <1>7, <1>9, <2>1, Onward DEF Fine
<1> QED BY <1>5, <1>8, <1>10, PlainKeeps DEF Plain
\* The child moves from an object of its own into the event loop, which is there.
LEMMA AdoptKeeps == ASSUME IInv, NEW p \in Procs, Adopt(p) PROVE IInv'
<1> DEFINE k == At(p)[2]
           o == proc[p].objs
           kids == Append(proc[p].kids, k)
           a == Advanced(p)
           r == [a EXCEPT !.objs = Front(o), !.kids = kids]
<1>1. /\ At(p)[1] = "adopt" /\ o # <<>> /\ o[Len(o)] = <<"child", k>>
      /\ Becomes(p, [a EXCEPT !.objs = Front(@), !.kids = Append(@, k)])
      /\ UNCHANGED <<prog, disowned, complained>>
  BY DEF Adopt
<1>2. /\ proc[p].mode = "runs" /\ proc[p].pc \in DOMAIN prog.code[p]
      /\ At(p) = prog.code[p][proc[p].pc] /\ At(p) \in Statement
  BY <1>1, AtStatement
<1>3. k \in Procs /\ At(p) = <<"adopt", k>>
  BY <1>1, <1>2, StatementKinds
<1>4. /\ a \in Process /\ proc[p] \in Process /\ a = [proc[p] EXCEPT !.pc = proc[p].pc + 1]
      /\ o \in Seq(Object) /\ proc[p].kids \in Seq(Procs)
  BY AdvancedIsProcess DEF Process
<1>5. Front(o) \in Seq(Object) /\ Range(o) = Range(Front(o)) \cup {<<"child", k>>}
  BY <1>1, <1>4, RangeFront
<1>6. kids \in Seq(Procs) /\ Range(kids) = Range(proc[p].kids) \cup {k}
  BY <1>3, <1>4, RangeAppend
<1>7. <<"event_loop">> \in Range(Front(o))
  <2>1. At(p) \in Adopts
    BY <1>3, <1>2 DEF Adopts, Statement
  <2>2. PICK j \in DOMAIN prog.code[p] : j < proc[p].pc /\ prog.code[p][j] \in Loops
    BY <1>2, <2>1 DEF IInv, Orderly, Before
  <2>3. <<"event_loop">> \in Range(o)
    BY <1>2, <2>2 DEF IInv, Family, Proper, Behind
  <2> QED BY <1>5, <2>3
<1> HIDE DEF a, k, kids
<1>8. [a EXCEPT !.objs = Front(@), !.kids = Append(@, k)] = r
  BY <1>4 DEF Process, kids
<1> DEFINE f == Front(o)
<1> HIDE DEF f
<1>9. /\ r \in Process /\ r.mode = "runs" /\ r.pc = proc[p].pc + 1 /\ r.parent = proc[p].parent
      /\ r.objs = f /\ r.kids = kids /\ r.masked = proc[p].masked
  <2>1. f \in Seq(Object)
    BY <1>5 DEF f
  <2> QED BY <1>2, <1>4, <1>6, <2>1 DEF Process, f
<1>10. Keeps(proc[p], r)
  <2> HIDE DEF r
  <2>1. Range(o) = Range(f) \cup {<<"child", k>>} /\ <<"event_loop">> \in Range(f)
    BY <1>5, <1>7 DEF f
  <2>2. \A c : Minds(proc[p], c) => Minds(r, c)
    BY <1>6, <1>9, <2>1 DEF Minds
  <2>3. \A x : <<"held", x>> # <<"child", k>>
    OBVIOUS
  <2> QED BY <1>9, <2>1, <2>2, <2>3 DEF Keeps
<1> HIDE DEF r
<1>11. Fine(prog.code, proc, p, r)
  BY <1>1, <1>9, <1>10, Advances
<1> QED BY <1>1, <1>8, <1>11, PlainKeeps DEF Plain

\* Who executes another program has forked nobody.
LEMMA ExecKeeps == ASSUME IInv, NEW p \in Procs, Exec(p) PROVE IInv'
<1> DEFINE r == [Unborn EXCEPT !.mode = "user", !.parent = proc[p].parent, !.doomed = proc[p].doomed]
<1>1. At(p)[1] = "exec" /\ Becomes(p, r) /\ UNCHANGED <<prog, disowned, complained>>
  BY DEF Exec
<1>2. proc[p].mode = "runs" /\ At(p) \in Execs /\ At(p) \in Range(prog.code[p])
  BY <1>1, AtStatement, StatementKinds
<1>3. p # "main" /\ Range(prog.code[p]) \cap Forks = {}
  <2>1. Range(prog.code[p]) \cap Execs # {}
    BY <1>2
  <2> QED BY <2>1 DEF IInv, Orderly
<1>4. proc[p].parent \in Procs \cup {"none"} /\ proc[p].doomed \in BOOLEAN
  BY DEF IInv, Family, Process
<1>5. r \in Process /\ r.mode = "user" /\ r.parent = proc[p].parent
  BY <1>4, UnbornIsProcess DEF Process
<1> HIDE DEF r
<1>6. \A k \in Procs \ {"main"} : ~(Lives(proc[k]) /\ proc[k].parent = p)
  <2>1. \A k \in Procs \ {"main"} : <<"fork", k>> \notin Range(prog.code[p])
    BY <1>3 DEF Forks
  <2> QED BY <2>1 DEF IInv, Family, Minded
<1>7. Proper(prog.code[p], r)
  BY <1>5 DEF Proper, Behind
<1>8. Fits(prog.code, proc, p, r)
  BY <1>2, <1>3, <1>5, <1>6, <1>7 DEF Fits, Lives
<1>9. Fine(prog.code, proc, p, r)
  BY <1>3, <1>8 DEF Fine, Carries
<1> QED BY <1>1, <1>9, PlainKeeps DEF Plain

\* A frame without an effect outside the process ends.
LEMMA PopKeeps ==
  ASSUME IInv, NEW p \in Procs, NEW q \in Process, Pop(p, q), proc[p].objs # <<>>,
         q.objs = proc[p].objs, q.kids = proc[p].kids, q.masked = proc[p].masked, q.parent = proc[p].parent,
         \/ At(p)[1] = "leave" /\ q.mode = "runs" /\ q.pc = proc[p].pc + 1
         \/ proc[p].mode = "leaves" /\ q.mode = "leaves"
  PROVE  IInv'
<1> DEFINE root == IF Top(p)[1] = "unprivileged" THEN Top(p)[2] ELSE q.root
           env == q.env /\ Top(p)[1] # "borrow"
           f == Front(proc[p].objs)
           r == [q EXCEPT !.root = root, !.env = env, !.objs = f]
<1>1. proc[p] \in Process /\ proc[p].objs \in Seq(Object)
  BY DEF IInv, Family, Process
<1>2. f \in Seq(Object) /\ Top(p) \in Object
  BY <1>1, RangeFront DEF Top
<1>3. root \in BOOLEAN /\ env \in BOOLEAN
  <2>1. Top(p)[1] = "unprivileged" => Top(p)[2] \in BOOLEAN
    BY <1>2 DEF Object
  <2>2. q.root \in BOOLEAN
    BY DEF Process
  <2> QED BY <2>1, <2>2
<1>4. /\ Top(p)[1] \in {"unprivileged", "borrow", "threads", "pipe"} /\ UNCHANGED <<prog, disowned, complained>>
      /\ Becomes(p, [q EXCEPT !.root = IF Top(p)[1] = "unprivileged" THEN Top(p)[2] ELSE @,
                              !.env = @ /\ Top(p)[1] # "borrow",
                              !.objs = Front(@)])
  BY DEF Pop
<1>5. [q EXCEPT !.root = IF Top(p)[1] = "unprivileged" THEN Top(p)[2] ELSE @,
                !.env = @ /\ Top(p)[1] # "borrow",
                !.objs = Front(@)] = r
  BY DEF Process
<1> HIDE DEF root, env, f
<1>6. /\ r \in Process /\ r.mode = q.mode /\ r.pc = q.pc /\ r.parent = q.parent
      /\ r.objs = f /\ r.kids = q.kids /\ r.masked = q.masked
  BY <1>2, <1>3 DEF Process
<1>7. Becomes(p, r)
  BY <1>4, <1>5
<1> HIDE DEF r
<1>8. Keeps(proc[p], r)
  <2>1. proc[p].objs[Len(proc[p].objs)][1] \in {"unprivileged", "borrow", "threads", "pipe"}
    BY <1>4 DEF Top
  <2>2. r.objs = Front(proc[p].objs)
    BY <1>6 DEF f
  <2> QED BY <1>1, <1>6, <2>1, <2>2, Shrinks
<1>9. Fine(prog.code, proc, p, r)
  <2>1. CASE At(p)[1] = "leave" /\ q.mode = "runs" /\ q.pc = proc[p].pc + 1
    BY <1>6, <1>8, <2>1, Advances
  <2>2. CASE proc[p].mode = "leaves" /\ q.mode = "leaves"
    BY <1>6, <1>8, <2>2, Unwinds DEF Fine, IInv, Keeps
  <2> QED BY <2>1, <2>2
<1> QED BY <1>4, <1>7, <1>9, PlainKeeps DEF Plain
LEMMA BlocksKeep == ASSUME IInv, NEW p \in Procs, Leave(p) \/ UnwindLocal(p) PROVE IInv'
<1>1. CASE Leave(p)
  <2>1. proc[p].mode = "runs"
    BY <1>1, AtStatement DEF Leave
  <2>2. Passing(p, Advanced(p))
    BY AdvancedPasses
  <2> QED BY <1>1, <2>1, <2>2, PopKeeps DEF Leave, Passing
<1>2. CASE UnwindLocal(p)
  <2>1. Pop(p, proc[p]) /\ proc[p].mode = "leaves" /\ proc[p].objs # <<>>
    BY <1>2 DEF UnwindLocal, Unwinding
  <2>2. proc[p] \in Process
    BY DEF IInv, Family
  <2> QED BY <2>1, <2>2, PopKeeps
<1> QED BY <1>1, <1>2

\* The outermost frame is left.
LEMMA LeavingFine ==
  ASSUME IInv, NEW p \in Procs, proc[p].mode = "runs", NEW status \in {"none", "ok", "fails", "finished", "killed"}
  PROVE  Fine(prog.code, proc, p, Leaving(p, status))
<1> DEFINE r == Leaving(p, status)
<1> SUFFICES Fine(prog.code, proc, p, r)
  OBVIOUS
<1>1. proc[p] \in Process
  BY DEF IInv, Family
<1>2. /\ r \in Process /\ r.mode = "leaves" /\ r.parent = proc[p].parent /\ r.objs = proc[p].objs
      /\ r.kids = proc[p].kids /\ r.masked = proc[p].masked
  BY <1>1 DEF Leaving, Process
<1> HIDE DEF r
<1>3. Keeps(proc[p], r)
  BY <1>2, Grows
<1> QED BY <1>2, <1>3, Unwinds DEF Fine, IInv, Keeps

LEMMA LeavingKeeps == ASSUME IInv, NEW p \in Procs, Throws(p) \/ Returns(p) PROVE IInv'
<1>1. CASE Throws(p)
  <2>1. proc[p].mode = "runs"
    BY <1>1, AtStatement DEF Throws
  <2>2. Fine(prog.code, proc, p, Leaving(p, "fails"))
    BY <2>1, LeavingFine
  <2>3. Becomes(p, Leaving(p, "fails")) /\ UNCHANGED <<prog, disowned, complained>>
    BY <1>1 DEF Throws, Failing
  <2> QED BY <2>2, <2>3, PlainKeeps DEF Plain
<1>2. CASE Returns(p)
  <2>1. proc[p].mode = "runs" /\ proc[p].status \in {"none", "ok", "fails", "finished", "killed"}
    BY <1>2 DEF Returns, IInv, Family, Process
  <2>2. Fine(prog.code, proc, p, Leaving(p, proc[p].status))
    BY <2>1, LeavingFine
  <2>3. Becomes(p, Leaving(p, proc[p].status)) /\ UNCHANGED <<prog, disowned, complained>>
    BY <1>2 DEF Returns
  <2> QED BY <2>2, <2>3, PlainKeeps DEF Plain
<1> QED BY <1>1, <1>2

LEMMA EndsKeep == ASSUME IInv, NEW p \in Procs, Exits(p) \/ UserEnds(p) PROVE IInv'
<1>1. ASSUME NEW status \in {"none", "ok", "fails", "finished", "killed"}, Becomes(p, Ended(proc[p], status)),
             UNCHANGED <<prog, disowned, complained>>,
             proc[p].mode = "user" \/ (proc[p].mode = "leaves" /\ proc[p].objs = <<>>)
      PROVE  IInv'
  <2> DEFINE r == Ended(proc[p], status)
  <2>1. Family(prog.code, proc) /\ proc[p] \in Process
    BY DEF IInv, Family
  <2>2. r \in Process /\ r.mode = "gone" /\ r.parent = proc[p].parent /\ r.objs = <<>>
    BY <2>1, EndedIsProcess
  <2>3. Becomes(p, r)
    BY <1>1
  <2> HIDE DEF r
  <2>4. Fine(prog.code, proc, p, r)
    BY <1>1, <2>1, <2>2, Finishes DEF Lives
  <2> QED BY <1>1, <2>3, <2>4, PlainKeeps DEF Plain
<1>2. CASE Exits(p)
  <2>1. proc[p].status \in {"none", "ok", "fails", "finished", "killed"}
    BY DEF IInv, Family, Process
  <2> QED BY <1>1, <1>2, <2>1 DEF Exits
<1>3. CASE UserEnds(p)
  BY <1>1, <1>3 DEF UserEnds
<1> QED BY <1>2, <1>3

LEMMA InterruptKeeps == ASSUME IInv, NEW p \in Procs, Interrupt(p) PROVE IInv'
<1>1. Becomes(p, Signalled(proc[p], "TERM")) /\ UNCHANGED <<prog, disowned, complained>>
  BY DEF Interrupt
<1>2. Orderly(prog.code) /\ Family(prog.code, proc) /\ proc[p] \in Process
  BY DEF IInv, Family
<1>3. Fine(prog.code, proc, p, Signalled(proc[p], "TERM"))
  BY <1>2, SignalledFine
<1> QED BY <1>1, <1>3, PlainKeeps DEF Plain

\* The last ChildProcess of k is destroyed: k gets a signal, or is gone.
LEMMA EndOfChildKeeps ==
  ASSUME IInv, NEW p \in Procs, NEW k \in Procs, NEW r, EndOfChild(p, k, r),
         Gone(k) => Fine(prog.code, proc, p, r)
  PROVE  IInv'
<1>1. CASE Gone(k)
  BY <1>1, PlainKeeps DEF EndOfChild, Plain
<1>2. CASE ~Gone(k)
  <2> DEFINE o == [proc[k] EXCEPT !.doomed = TRUE]
             c == Signalled(o, TerminationSignal(k))
  <2>1. Orderly(prog.code) /\ Family(prog.code, proc) /\ proc \in [Procs -> Process]
    BY DEF IInv, Family
  <2>2. Marked(proc[k], o)
    <3>1. proc[k] \in Process
      BY <2>1
    <3> QED BY <3>1, MarkedRecord
  <2>3. [proc EXCEPT ![k] = Signalled([@ EXCEPT !.doomed = TRUE], TerminationSignal(k))]
          = [proc EXCEPT ![k] = c]
    BY <2>1
  <2>4. Becomes(k, c) /\ UNCHANGED <<prog, disowned, complained>>
    BY <1>2, <2>3 DEF EndOfChild, Becomes
  <2>5. TerminationSignal(k) \in {"HUP", "TERM"}
    BY DEF TerminationSignal
  <2> HIDE DEF o
  <2>6. Fine(prog.code, proc, k, c)
    BY <2>1, <2>2, <2>5, SignalledFine DEF Marked
  <2> QED BY <2>4, <2>6, PlainKeeps DEF Plain
<1> QED BY <1>1, <1>2

LEMMA UnwindChildKeeps == ASSUME IInv, NEW p \in Procs, UnwindChild(p) PROVE IInv'
<1> DEFINE o == proc[p].objs
           k == Top(p)[2]
           f == Front(o)
           r == [proc[p] EXCEPT !.objs = f]
<1>1. proc[p].mode = "leaves" /\ o # <<>> /\ Top(p)[1] = "child" /\ EndOfChild(p, k, Popped(p))
  BY DEF UnwindChild, Unwinding
<1>2. proc[p] \in Process /\ o \in Seq(Object) /\ Family(prog.code, proc)
  BY DEF IInv, Family, Process
<1>3. f \in Seq(Object) /\ Top(p) \in Object /\ Range(o) = Range(f) \cup {Top(p)}
  BY <1>1, <1>2, RangeFront DEF Top
<1>4. Top(p) = <<"child", k>> /\ k \in Procs
  BY <1>1, <1>3 DEF Object
<1>5. Popped(p) = r
  BY <1>2 DEF Popped, Process
<1> HIDE DEF f, k
<1>6. r \in Process /\ r.mode = "leaves" /\ r.parent = proc[p].parent /\ r.objs = f
      /\ r.kids = proc[p].kids /\ r.masked = proc[p].masked
  BY <1>1, <1>2, <1>3 DEF Process
<1> HIDE DEF r
<1>7. ASSUME Gone(k) PROVE Fine(prog.code, proc, p, r)
  <2>1. ASSUME NEW c \in Procs, Lives(proc[c]), Minds(proc[p], c) PROVE Minds(r, c)
    <3>1. c # k
      BY <1>7, <2>1 DEF Lives, Gone
    <3>2. <<"child", c>> # Top(p) /\ <<"event_loop">> # Top(p)
      BY <1>4, <3>1
    <3> QED BY <1>3, <1>6, <2>1, <3>2 DEF Minds
  <2>2. \A x : <<"held", x>> # Top(p)
    BY <1>4
  <2> QED BY <1>1, <1>2, <1>3, <1>6, <2>1, <2>2, Unwinds DEF Fine
<1> QED BY <1>1, <1>4, <1>5, <1>7, EndOfChildKeeps
LEMMA UnwindLoopKeeps == ASSUME IInv, NEW p \in Procs, UnwindLoop(p) PROVE IInv'
<1> DEFINE o == proc[p].objs
           f == Front(o)
           kids == proc[p].kids
           t == Tail(kids)
<1>1. proc[p].mode = "leaves" /\ o # <<>> /\ Top(p)[1] = "event_loop"
  BY DEF UnwindLoop, Unwinding
<1>2. proc[p] \in Process /\ o \in Seq(Object) /\ kids \in Seq(Procs) /\ Family(prog.code, proc)
  BY DEF IInv, Family, Process
<1>3. f \in Seq(Object) /\ Top(p) \in Object /\ Range(o) = Range(f) \cup {Top(p)}
  BY <1>1, <1>2, RangeFront DEF Top
<1>4. Top(p) = <<"event_loop">>
  BY <1>1, <1>3 DEF Object
<1>5. CASE kids # <<>>
  <2> DEFINE k == Head(kids)
             r == [proc[p] EXCEPT !.kids = t]
  <2>1. t \in Seq(Procs) /\ k \in Procs /\ Range(kids) \subseteq Range(t) \cup {k}
    BY <1>2, <1>5, RangeTail
  <2>2. EndOfChild(p, k, [proc[p] EXCEPT !.kids = Tail(@)])
    BY <1>5 DEF UnwindLoop
  <2>3. [proc[p] EXCEPT !.kids = Tail(@)] = r
    BY <1>2 DEF Process
  <2> HIDE DEF t, k
  <2>4. r \in Process /\ r.mode = "leaves" /\ r.parent = proc[p].parent /\ r.objs = o
        /\ r.kids = t /\ r.masked = proc[p].masked
    BY <1>1, <1>2, <2>1 DEF Process
  <2> HIDE DEF r
  <2>5. ASSUME Gone(k) PROVE Fine(prog.code, proc, p, r)
    <3>1. ASSUME NEW c \in Procs, Lives(proc[c]), Minds(proc[p], c) PROVE Minds(r, c)
      <4>1. c # k
        BY <2>5, <3>1 DEF Lives, Gone
      <4> QED BY <2>1, <2>4, <3>1, <4>1 DEF Minds
    <3> QED BY <1>1, <1>2, <2>4, <3>1, Unwinds DEF Fine
  <2> QED BY <2>1, <2>2, <2>3, <2>5, EndOfChildKeeps
<1>6. CASE kids = <<>>
  <2> DEFINE r == [proc[p] EXCEPT !.objs = f]
  <2>1. Becomes(p, Popped(p)) /\ UNCHANGED <<prog, disowned, complained>>
    BY <1>6 DEF UnwindLoop
  <2>2. Popped(p) = r
    BY <1>2 DEF Popped, Process
  <2> HIDE DEF f
  <2>3. r \in Process /\ r.mode = "leaves" /\ r.parent = proc[p].parent /\ r.objs = f
        /\ r.kids = kids /\ r.masked = proc[p].masked
    BY <1>1, <1>2, <1>3 DEF Process
  <2> HIDE DEF r
  <2>4. Range(kids) = {}
    BY <1>6 DEF Range
  <2>5. ASSUME NEW c \in Procs, Minds(proc[p], c) PROVE Minds(r, c)
    <3>1. <<"child", c>> # Top(p)
      BY <1>4
    <3> QED BY <1>3, <2>3, <2>4, <2>5, <3>1 DEF Minds
  <2>6. \A x : <<"held", x>> # Top(p)
    BY <1>4
  <2>7. Fine(prog.code, proc, p, r)
    BY <1>1, <1>2, <1>3, <2>3, <2>5, <2>6, Unwinds DEF Fine
  <2> QED BY <2>1, <2>2, <2>7, PlainKeeps DEF Plain
<1> QED BY <1>5, <1>6

\* EventLoop::loop notes the child's end, and goes on or leaves.
LEMMA LoopChildKeeps == ASSUME IInv, NEW p \in Procs, LoopChild(p) PROVE IInv'
<1>1. PICK k \in Range(proc[p].kids) :
        LET known == [proc EXCEPT ![k].reaped = TRUE]
            all == \A c \in Range(proc[p].kids) : known[c].reaped
            after == CASE proc[k].status = "finished" /\ ~all -> proc[p]
                       [] proc[k].status \in {"fails", "killed"} -> Failing(p)
                       [] OTHER -> [Advanced(p) EXCEPT !.status = "ok"]
        IN /\ Found(p, k)
           /\ Kernel([known EXCEPT ![p] = after], held)
           /\ UNCHANGED <<prog, channel, disowned, complained, bugs, signals>>
  BY DEF LoopChild
<1> DEFINE c == [proc[k] EXCEPT !.reaped = TRUE]
           known == [proc EXCEPT ![k] = c]
<1>2. /\ Orderly(prog.code) /\ Family(prog.code, proc) /\ Cared(proc, held, disowned, complained)
      /\ Given(prog.code, proc, held, inside, disowned) /\ proc \in [Procs -> Process]
  BY DEF IInv, Family
<1>3. k \in Procs
  <2>1. proc[p].kids \in Seq(Procs)
    BY <1>2 DEF Process
  <2> QED BY <2>1 DEF Range
<1>4. Marked(proc[k], c)
  <2>1. proc[k] \in Process
    BY <1>2, <1>3
  <2> QED BY <2>1, MarkedRecord
<1>5. [proc EXCEPT ![k].reaped = TRUE] = known
  BY <1>2, <1>3
<1>6. /\ At(p)[1] = "loop" /\ proc[p].mode = "runs" /\ Gone(k) /\ k # p
      /\ UNCHANGED <<prog, disowned, complained>>
  BY <1>1, AtStatement DEF LoopChild, Looping, Found, Waitable, Gone
<1>7. PICK r \in {proc[p], Failing(p), [Advanced(p) EXCEPT !.status = "ok"]} : Kernel([known EXCEPT ![p] = r], held)
  BY <1>1, <1>5, Zenon
<1> HIDE DEF c
<1>8. Fine(prog.code, proc, k, c)
  BY <1>2, <1>3, <1>4, Notes DEF Marked
<1>9. Family(prog.code, known) /\ Over(prog.code, proc, known) /\ Cared(known, held, disowned, complained)
  BY <1>2, <1>3, <1>8, OneChanges, FineOver DEF Fine
<1>10. known[p] = proc[p] /\ known \in [Procs -> Process] /\ known[k] = c
       /\ \A q \in Procs : q # k => known[q] = proc[q]
  BY <1>2, <1>3, <1>4, <1>6 DEF Marked
<1> HIDE DEF known
<1>11. Fine(prog.code, proc, p, r)
  <2>1. CASE r = proc[p]
    BY <1>2, <2>1, Notes
  <2>2. CASE r = Failing(p)
    BY <1>6, <2>2, LeavingFine DEF Failing
  <2>3. CASE r = [Advanced(p) EXCEPT !.status = "ok"]
    <3>1. Passing(p, r)
      BY <2>3, AdvancedPasses
    <3>2. Keeps(proc[p], r)
      BY <1>6, <3>1, Grows DEF Passing
    <3> QED BY <1>6, <3>1, <3>2, Advances DEF Passing
  <2> QED BY <1>7, <2>1, <2>2, <2>3
\* What p may do does not depend on the mark.
<1>12. Fine(prog.code, known, p, r)
  <2>1. \A q \in Procs : (Lives(known[q]) <=> Lives(proc[q])) /\ known[q].parent = proc[q].parent
    BY <1>4, <1>10 DEF Lives, Marked
  <2> QED BY <1>10, <1>11, <2>1 DEF Fine, Fits, Carries
<1>13. /\ Family(prog.code, [known EXCEPT ![p] = r]) /\ Over(prog.code, known, [known EXCEPT ![p] = r])
       /\ Cared([known EXCEPT ![p] = r], held, disowned, complained)
  BY <1>2, <1>9, <1>12, OneChanges, FineOver DEF Fine
<1>14. Over(prog.code, proc, [known EXCEPT ![p] = r])
  <2>1. CASE k = "main"
    <3>1. [known EXCEPT ![p] = r]["main"].mode # "runs"
      BY <1>3, <1>4, <1>6, <1>10, <2>1 DEF Gone, Marked
    <3> QED BY <3>1 DEF Over
  <2>2. CASE k # "main"
    <3>1. known["main"] = proc["main"]
      BY <1>10, <2>2 DEF Procs
    <3> QED BY <1>13, <3>1 DEF Over
  <2> QED BY <2>1, <2>2
<1> QED BY <1>2, <1>6, <1>7, <1>13, <1>14, KernelKeeps
\* What is acquired gets an object of main's; a pair is made before one is given away.
LEMMA HoldsKeeps == ASSUME IInv, NEW p \in Procs, NEW x \in Things, Holds(p, x, {}) PROVE IInv'
<1> DEFINE e == <<"held", x>>
           r == [Advanced(p) EXCEPT !.objs = Append(@, e)]
           g == [proc EXCEPT ![p] = r]
           h == (held \ {}) \cup {x}
<1>1. At(p) = <<"object", x>> /\ Kernel(g, h) /\ UNCHANGED <<prog, disowned, complained>>
  BY DEF Holds
<1>2. /\ proc[p].mode = "runs" /\ proc[p].pc \in DOMAIN prog.code[p]
      /\ At(p) = prog.code[p][proc[p].pc] /\ At(p) \in Range(prog.code[p])
  BY <1>1, AtStatement
<1>3. p = "main"
  <2>1. At(p) \in Outliving
    BY <1>1 DEF Outliving, Things
  <2> QED BY <1>2, <2>1 DEF IInv, Orderly
<1>4. Passing(p, Advanced(p)) /\ e \in Object
  BY AdvancedPasses DEF Object
<1> HIDE DEF e
<1>5. Appending(p, r, e)
  BY <1>4, AppendingRecord
<1> HIDE DEF r
<1>6. Keeps(proc[p], r)
  BY <1>2, <1>5, Grows DEF Appending
<1>7. Fine(prog.code, proc, p, r)
  BY <1>1, <1>2, <1>5, <1>6, Advances DEF Appending
<1>8. Orderly(prog.code) /\ Family(prog.code, proc) /\ Cared(proc, held, disowned, complained)
      /\ Given(prog.code, proc, held, inside, disowned) /\ proc \in [Procs -> Process]
  BY DEF IInv, Family
<1>9. Family(prog.code, g) /\ Over(prog.code, proc, g) /\ Cared(g, held, disowned, complained)
  BY <1>7, <1>8, OneChanges, FineOver DEF Fine
<1>10. Cared(g, h, disowned, complained)
  <2>1. g["main"] = r
    BY <1>3, <1>8
  <2>2. e \in Range(r.objs)
    BY <1>5 DEF Appending
  <2> HIDE DEF g
  <2> QED BY <1>9, <2>1, <2>2 DEF Cared, e
<1>11. Given(prog.code, proc, h, inside, disowned)
  <2>1. CASE x = "veth"
    <3>1. prog.code["main"][proc["main"].pc] \in Veths
      BY <1>1, <1>2, <1>3, <2>1 DEF Veths
    <3>2. ~Past(prog.code, proc, Gives)
      BY <1>2, <1>3, <1>8, <3>1 DEF Past, Behind, Orderly, NoneAfter
    <3>3. Past(prog.code, proc, Disowns) => Past(prog.code, proc, Gives)
      <4>1. ASSUME Past(prog.code, proc, Disowns) PROVE Past(prog.code, proc, Gives)
        <5>1. PICK i \in DOMAIN prog.code["main"] : Behind(proc["main"], i) /\ prog.code["main"][i] \in Disowns
          BY <4>1 DEF Past
        <5>2. PICK j \in DOMAIN prog.code["main"] : j < i /\ prog.code["main"][j] \in Gives
          BY <1>8, <5>1 DEF Orderly, Before
        <5>3. i \in Nat /\ j \in Nat /\ proc["main"].pc \in Nat
          <6>1. prog.code["main"] \in Seq(Statement) /\ proc["main"] \in Process
            BY <1>3, <1>8 DEF Orderly
          <6> QED BY <6>1 DEF Process
        <5>4. Behind(proc["main"], j)
          BY <5>1, <5>2, <5>3 DEF Behind
        <5> QED BY <5>2, <5>4 DEF Past
      <4> QED BY <4>1
    <3> QED BY <1>2, <1>3, <1>8, <3>2, <3>3 DEF Given
  <2>2. CASE x # "veth"
    BY <1>8, <2>2 DEF Given
  <2> QED BY <2>1, <2>2
<1> HIDE DEF g, h
<1> QED BY <1>1, <1>9, <1>10, <1>11, KernelKeeps

LEMMA NewKeeps ==
  ASSUME IInv, NEW p \in Procs, NewRule(p) \/ NewVeth(p) \/ NewFile(p) \/ NewServer(p)
  PROVE  IInv'
<1>1. CASE NewRule(p)
  BY <1>1, HoldsKeeps DEF NewRule, Things
<1>2. CASE NewVeth(p)
  BY <1>2, HoldsKeeps DEF NewVeth, Things
<1>3. CASE NewFile(p)
  BY <1>3, HoldsKeeps DEF NewFile, Things
<1>4. CASE NewServer(p)
  <2>1. PICK n \in DOMAIN WebServers : Holds(p, WebServers[n], {})
    BY <1>4 DEF NewServer, Moved
  <2>2. WebServers[n] \in Things
    BY DEF Things, Range
  <2> QED BY <2>1, <2>2, HoldsKeeps
<1> QED BY <1>1, <1>2, <1>3, <1>4

LEMMA ForkKeeps == ASSUME IInv, NEW p \in Procs, Fork(p) PROVE IInv'
<1> DEFINE k == At(p)[2]
           r == [Advanced(p) EXCEPT !.objs = Append(@, <<"child", k>>)]
           c == [Unborn EXCEPT !.mode = "runs", !.parent = p, !.root = proc[p].root, !.env = proc[p].env]
           g == [proc EXCEPT ![p] = r, ![k] = c]
<1>1. At(p)[1] = "fork" /\ Kernel(g, held) /\ UNCHANGED <<prog, disowned, complained>>
  BY DEF Fork
<1>2. /\ proc[p].mode = "runs" /\ proc[p].pc \in DOMAIN prog.code[p]
      /\ At(p) = prog.code[p][proc[p].pc] /\ At(p) \in Statement
  BY <1>1, AtStatement
<1>3. At(p) = <<"fork", k>> /\ k \in Procs \ {"main"} /\ At(p) \notin Gives \cup Disowns
  BY <1>1, <1>2, StatementKinds
<1>4. Orderly(prog.code) /\ Family(prog.code, proc) /\ Cared(proc, held, disowned, complained)
      /\ Given(prog.code, proc, held, inside, disowned) /\ proc \in [Procs -> Process]
  BY DEF IInv, Family
<1>5. c \in Process /\ c.mode = "runs" /\ c.pc = 1 /\ c.parent = p
  <2>1. proc[p].root \in BOOLEAN /\ proc[p].env \in BOOLEAN
    BY <1>4 DEF Process
  <2> QED BY <2>1, UnbornIsProcess DEF Process
<1> HIDE DEF c
<1>6. Appending(p, r, <<"child", k>>)
  <2>1. Passing(p, Advanced(p)) /\ <<"child", k>> \in Object
    BY <1>3, AdvancedPasses DEF Object
  <2> QED BY <2>1, AppendingRecord
<1> HIDE DEF r, k
<1>7. /\ r \in Process /\ r.mode = "runs" /\ r.pc = proc[p].pc + 1 /\ r.parent = proc[p].parent
      /\ (proc[p].masked => r.masked) /\ Range(r.objs) = Range(proc[p].objs) \cup {<<"child", k>>}
      /\ r.kids = proc[p].kids
  BY <1>2, <1>6 DEF Appending
<1>8. Family(prog.code, g)
  BY <1>2, <1>3, <1>4, <1>5, <1>7, Born
\* For main it is a step like any other.
<1>9. g["main"] = IF p = "main" THEN r ELSE proc["main"]
  BY <1>3, <1>4 DEF Procs
<1> HIDE DEF g
<1>10. proc["main"].pc \in Nat /\ \A i \in DOMAIN prog.code["main"] : i \in Nat
  <2>1. proc["main"] \in Process /\ prog.code["main"] \in Seq(Statement)
    BY <1>4 DEF Orderly, Procs
  <2> QED BY <2>1 DEF Process
<1>11. Over(prog.code, proc, g)
  <2>1. CASE p = "main"
    <3>1. /\ proc["main"].pc <= r.pc
          /\ \A i \in DOMAIN prog.code["main"] : proc["main"].pc <= i /\ i < r.pc => i = proc["main"].pc
      BY <1>7, <1>10, <2>1
    <3> QED BY <1>2, <1>3, <1>7, <1>9, <2>1, <3>1 DEF Over
  <2>2. CASE p # "main"
    <3>1. /\ proc["main"].pc <= proc["main"].pc
          /\ \A i \in DOMAIN prog.code["main"] : ~(proc["main"].pc <= i /\ i < proc["main"].pc)
      BY <1>10
    <3> QED BY <1>9, <2>2, <3>1 DEF Over
  <2> QED BY <2>1, <2>2
<1>12. Cared(g, held, disowned, complained)
  BY <1>2, <1>4, <1>7, <1>9 DEF Cared, Killed
<1> QED BY <1>1, <1>4, <1>8, <1>11, <1>12, KernelKeeps
\* main is at one of the two statements about the device.
LEMMA AboutDevice ==
  ASSUME IInv, NEW p \in Procs, At(p)[1] \in {"give", "disown"},
         NEW g, g = [proc EXCEPT ![p] = Advanced(p)]
  PROVE  /\ proc["main"].mode = "runs" /\ proc["main"].pc \in DOMAIN prog.code["main"]
         /\ prog.code["main"][proc["main"].pc] = <<At(p)[1]>>
         /\ Family(prog.code, g) /\ g["main"].mode = "runs" /\ g["main"].pc = proc["main"].pc + 1
         /\ \A q \in Procs \ {"main"} : g[q] = proc[q]
         /\ Cared(g, held, disowned, complained)
<1> DEFINE r == Advanced(p)
<1>1. /\ proc[p].mode = "runs" /\ proc[p].pc \in DOMAIN prog.code[p]
      /\ At(p) = prog.code[p][proc[p].pc] /\ At(p) \in Statement /\ At(p) \in Range(prog.code[p])
  BY AtStatement
<1>2. At(p) = <<At(p)[1]>> /\ At(p) \notin Forks /\ At(p) \notin Loops
  BY <1>1, StatementKinds
<1>3. Orderly(prog.code) /\ Family(prog.code, proc) /\ Cared(proc, held, disowned, complained)
      /\ proc \in [Procs -> Process]
  BY DEF IInv, Family
<1>4. p = "main"
  <2>1. At(p) \in Gives \cup Disowns
    BY <1>2 DEF Gives, Disowns
  <2> QED BY <1>1, <1>3, <2>1 DEF Orderly
<1>5. Passing(p, r)
  BY AdvancedPasses
<1> HIDE DEF r
<1>6. Keeps(proc[p], r)
  BY <1>1, <1>5, Grows DEF Passing
<1>7. Fits(prog.code, proc, p, r)
  BY <1>1, <1>2, <1>3, <1>5, <1>6, Onward DEF Passing
<1>8. g = [proc EXCEPT ![p] = r]
  BY DEF r
<1>9. Family(prog.code, g)
  <2>1. Family(prog.code, [proc EXCEPT ![p] = r])
    BY <1>3, <1>7, OneChanges
  <2> QED BY <1>8, <2>1
<1>10. g["main"] = r /\ \A q \in Procs \ {"main"} : g[q] = proc[q]
  BY <1>3, <1>4, <1>8
<1>11. Cared(g, held, disowned, complained)
  BY <1>1, <1>3, <1>4, <1>5, <1>10 DEF Cared, Killed, Passing
<1> QED BY <1>1, <1>2, <1>4, <1>5, <1>9, <1>10, <1>11 DEF Passing

\* main is behind a statement of Y when it is at one of X, or behind one.
LEMMA PastBefore ==
  ASSUME NEW scripts, Orderly(scripts), NEW f \in [Procs -> Process], NEW X, NEW Y, Before(scripts["main"], Y, X),
         f["main"].mode = "runs", NEW i \in DOMAIN scripts["main"], i <= f["main"].pc, scripts["main"][i] \in X
  PROVE  Past(scripts, f, Y)
<1>1. scripts["main"] \in Seq(Statement) /\ f["main"].pc \in Nat
  BY DEF Orderly, Procs, Process
<1>2. PICK j \in DOMAIN scripts["main"] : j < i /\ scripts["main"][j] \in Y
  BY DEF Before
<1>3. j < f["main"].pc
  BY <1>1, <1>2
<1> QED BY <1>2, <1>3 DEF Past, Behind

LEMMA GiveKeeps == ASSUME IInv, NEW p \in Procs, Give(p) PROVE IInv'
<1> DEFINE g == [proc EXCEPT ![p] = Advanced(p)]
<1>1. /\ At(p)[1] = "give" /\ ~Gone("first") /\ inside' = TRUE /\ proc' = g
      /\ UNCHANGED <<prog, held, disowned, complained>>
  BY DEF Give
<1>2. g = [proc EXCEPT ![p] = Advanced(p)]
  OBVIOUS
<1> HIDE DEF g
<1>3. /\ proc["main"].mode = "runs" /\ proc["main"].pc \in DOMAIN prog.code["main"]
      /\ prog.code["main"][proc["main"].pc] \in Gives
      /\ Family(prog.code, g) /\ g["main"].mode = "runs" /\ g["main"].pc = proc["main"].pc + 1
      /\ \A q \in Procs \ {"main"} : g[q] = proc[q]
      /\ Cared(g, held, disowned, complained)
  BY <1>1, <1>2, AboutDevice DEF Gives
<1>4. Orderly(prog.code) /\ Family(prog.code, proc) /\ Given(prog.code, proc, held, inside, disowned)
      /\ disowned \in BOOLEAN /\ proc \in [Procs -> Process]
  BY DEF IInv, Family
<1>5. proc["main"].pc \in Nat /\ \A i \in DOMAIN prog.code["main"] : i \in Nat
  <2>1. proc["main"] \in Process /\ prog.code["main"] \in Seq(Statement)
    BY <1>4 DEF Orderly, Procs
  <2> QED BY <2>1 DEF Process
<1>6. ~Emptied(g)
  <2>1. Past(prog.code, proc, FirstForks)
    <3>1. proc["main"].pc <= proc["main"].pc
      BY <1>5
    <3> QED BY <1>3, <1>4, <3>1, PastBefore DEF Orderly
  <2>2. PICK i \in DOMAIN prog.code["main"] : Behind(proc["main"], i) /\ prog.code["main"][i] \in FirstForks
    BY <2>1 DEF Past
  <2>3. /\ "main" \in Procs /\ "first" \in Procs \ {"main"}
        /\ prog.code["main"][i] \in Forks /\ prog.code["main"][i][2] = "first"
    BY <2>2 DEF Procs, Forks, FirstForks
  <2>4. proc["first"].mode # "none"
    BY <1>4, <2>2, <2>3 DEF Family, Already
  <2>5. g["first"] = proc["first"]
    BY <1>3, <2>3
  <2> QED BY <1>1, <2>4, <2>5 DEF Emptied, Gone
<1>7. Past(prog.code, proc, Disowns) => Past(prog.code, g, Disowns)
  <2>1. \A i \in DOMAIN prog.code["main"] : Behind(proc["main"], i) => Behind(g["main"], i)
    BY <1>3, <1>5 DEF Behind
  <2> QED BY <2>1 DEF Past
<1>8. Given(prog.code, g, held, TRUE, disowned)
  BY <1>3, <1>4, <1>6, <1>7 DEF Given
<1> QED BY <1>1, <1>3, <1>4, <1>8, IInvNext

LEMMA DisownKeeps == ASSUME IInv, NEW p \in Procs, Disown(p) PROVE IInv'
<1> DEFINE g == [proc EXCEPT ![p] = Advanced(p)]
<1>1. /\ At(p)[1] = "disown" /\ Becomes(p, Advanced(p)) /\ disowned' = TRUE
      /\ UNCHANGED <<prog, complained>>
  BY DEF Disown
<1>2. /\ proc' = g /\ inside' = (inside /\ ~Emptied(g))
      /\ held' = IF inside /\ Emptied(g) THEN held \ {"veth"} ELSE held
  BY <1>1 DEF Becomes, Kernel
<1>3. g = [proc EXCEPT ![p] = Advanced(p)]
  OBVIOUS
<1> HIDE DEF g
<1>4. /\ proc["main"].mode = "runs" /\ proc["main"].pc \in DOMAIN prog.code["main"]
      /\ prog.code["main"][proc["main"].pc] \in Disowns
      /\ Family(prog.code, g) /\ g["main"].mode = "runs" /\ g["main"].pc = proc["main"].pc + 1
      /\ Cared(g, held, disowned, complained)
  BY <1>1, <1>3, AboutDevice DEF Disowns
<1>5. Orderly(prog.code) /\ Given(prog.code, proc, held, inside, disowned) /\ inside \in BOOLEAN
      /\ proc \in [Procs -> Process] /\ proc["main"].pc \in Nat
  BY DEF IInv, Family, Procs, Process
<1>6. proc["main"].pc <= proc["main"].pc /\ proc["main"].pc < proc["main"].pc + 1
  BY <1>5
<1>7. inside \/ "veth" \notin held
  <2>1. Past(prog.code, proc, Gives)
    BY <1>4, <1>5, <1>6, PastBefore DEF Orderly
  <2> QED BY <1>5, <2>1 DEF Given
<1>8. Past(prog.code, g, Disowns)
  BY <1>4, <1>6 DEF Past, Behind
<1>9. inside' \in BOOLEAN /\ (inside' => ~Emptied(g)) /\ (inside' \/ "veth" \notin held') /\ held' \subseteq held
  BY <1>2, <1>7
<1>10. Given(prog.code, g, held', inside', TRUE)
  BY <1>8, <1>9 DEF Given
<1>11. Cared(g, held', TRUE, complained)
  BY <1>4, <1>9 DEF Cared
<1> QED BY <1>1, <1>2, <1>4, <1>9, <1>10, <1>11, IInvNext

\* The object of something held is destroyed.
LEMMA PopHeld ==
  ASSUME IInv, NEW p \in Procs, Unwinding(p, "held"), NEW g, g = [proc EXCEPT ![p] = Popped(p)],
         NEW h, h \subseteq held, NEW com, complained \subseteq com,
         Top(p)[2] \notin h \/ Top(p)[2] \in com \/ (Top(p)[2] = "veth" /\ disowned)
  PROVE  /\ Family(prog.code, g) /\ Over(prog.code, proc, g)
         /\ Given(prog.code, proc, h, inside, disowned) /\ Cared(g, h, disowned, com)
<1> DEFINE o == proc[p].objs
           x == Top(p)[2]
           f == Front(o)
           r == [proc[p] EXCEPT !.objs = f]
<1>1. proc[p].mode = "leaves" /\ o # <<>> /\ Top(p)[1] = "held"
  BY DEF Unwinding
<1>2. /\ Orderly(prog.code) /\ Family(prog.code, proc) /\ Cared(proc, held, disowned, complained)
      /\ Given(prog.code, proc, held, inside, disowned) /\ proc \in [Procs -> Process]
      /\ proc[p] \in Process /\ o \in Seq(Object)
  BY DEF IInv, Family, Process
<1>3. f \in Seq(Object) /\ Top(p) \in Object /\ Range(o) = Range(f) \cup {Top(p)}
  BY <1>1, <1>2, RangeFront DEF Top
<1>4. Top(p) = <<"held", x>>
  BY <1>1, <1>3 DEF Object
<1>5. Popped(p) = r
  BY <1>2 DEF Popped, Process
<1> HIDE DEF f, x
<1>6. r \in Process /\ r.mode = "leaves" /\ r.parent = proc[p].parent /\ r.objs = f
      /\ r.kids = proc[p].kids /\ r.masked = proc[p].masked
  BY <1>1, <1>2, <1>3 DEF Process
<1> HIDE DEF r
<1>7. ASSUME NEW c \in Procs, Minds(proc[p], c) PROVE Minds(r, c)
  <2>1. <<"child", c>> # Top(p) /\ <<"event_loop">> # Top(p)
    BY <1>4
  <2> QED BY <1>3, <1>6, <1>7, <2>1 DEF Minds
<1>8. Fits(prog.code, proc, p, r)
  BY <1>1, <1>2, <1>6, <1>7, Unwinds
<1>9. Family(prog.code, g)
  BY <1>2, <1>5, <1>8, OneChanges
<1>10. g["main"] = IF p = "main" THEN r ELSE proc["main"]
  BY <1>2, <1>5 DEF Procs
<1>11. Over(prog.code, proc, g)
  <2>1. CASE p = "main"
    BY <1>6, <1>10, <2>1 DEF Over
  <2>2. CASE p # "main"
    <3>1. proc["main"].pc \in Nat /\ \A i \in DOMAIN prog.code["main"] : i \in Nat
      <4>1. proc["main"] \in Process /\ prog.code["main"] \in Seq(Statement)
        BY <1>2 DEF Orderly, Procs
      <4> QED BY <4>1 DEF Process
    <3>2. /\ proc["main"].pc <= proc["main"].pc
          /\ \A i \in DOMAIN prog.code["main"] : ~(proc["main"].pc <= i /\ i < proc["main"].pc)
      BY <3>1
    <3> QED BY <1>10, <2>2, <3>2 DEF Over
  <2> QED BY <2>1, <2>2
<1>12. Given(prog.code, proc, h, inside, disowned)
  BY <1>2 DEF Given
<1>13. Cared(g, h, disowned, com)
  <2>1. \A y : <<"held", y>> = Top(p) => y = x
    BY <1>4
  <2>2. CASE p = "main"
    <3>1. x \notin h \/ x \in com \/ (x = "veth" /\ disowned)
      BY DEF x
    <3> QED BY <1>1, <1>2, <1>3, <1>6, <1>10, <2>1, <2>2, <3>1 DEF Cared, Killed
  <2>3. CASE p # "main"
    BY <1>2, <1>10, <2>3 DEF Cared
  <2> QED BY <2>2, <2>3
<1> QED BY <1>9, <1>11, <1>12, <1>13

LEMMA TakeDownKeeps == ASSUME IInv, NEW p \in Procs, NEW x, NEW unable, TakeDown(p, x, unable) PROVE IInv'
<1> DEFINE g == [proc EXCEPT ![p] = Popped(p)]
<1>1. Unwinding(p, "held") /\ Top(p)[2] = x /\ UNCHANGED <<prog, disowned>>
  BY DEF TakeDown
<1>2. PICK done \in BOOLEAN : /\ Kernel(g, IF done THEN held \ {x} ELSE held)
                              /\ complained' = IF done THEN complained ELSE complained \cup {x}
  BY DEF TakeDown
<1> DEFINE h == IF done THEN held \ {x} ELSE held
<1>3. h \subseteq held /\ complained \subseteq complained' /\ (x \notin h \/ x \in complained')
  BY <1>2
<1>4. g = [proc EXCEPT ![p] = Popped(p)] /\ Kernel(g, h)
  BY <1>2
<1> HIDE DEF g, h
<1>5. /\ Family(prog.code, g) /\ Over(prog.code, proc, g)
      /\ Given(prog.code, proc, h, inside, disowned) /\ Cared(g, h, disowned, complained')
  BY <1>1, <1>3, <1>4, PopHeld
<1> QED BY <1>1, <1>4, <1>5, KernelKeeps

LEMMA EndsOfHeldKeep ==
  ASSUME IInv, NEW p \in Procs, EndOfRule(p) \/ EndOfVeth(p) \/ EndOfServer(p) \/ EndOfFile(p)
  PROVE  IInv'
<1>1. CASE EndOfRule(p)
  BY <1>1, TakeDownKeeps DEF EndOfRule
<1>2. CASE EndOfServer(p)
  BY <1>2, TakeDownKeeps DEF EndOfServer
<1>3. CASE EndOfFile(p)
  BY <1>3, TakeDownKeeps DEF EndOfFile
<1>4. CASE EndOfVeth(p)
  <2>1. CASE TakeDown(p, "veth", CannotRun(p))
    BY <2>1, TakeDownKeeps
  <2>2. CASE /\ disowned /\ Unwinding(p, "held") /\ Top(p)[2] = "veth"
             /\ Becomes(p, Popped(p)) /\ UNCHANGED <<prog, disowned, complained>>
    <3> DEFINE g == [proc EXCEPT ![p] = Popped(p)]
    <3>1. g = [proc EXCEPT ![p] = Popped(p)] /\ Kernel(g, held)
      BY <2>2 DEF Becomes
    <3> HIDE DEF g
    <3>2. held \subseteq held /\ complained \subseteq complained'
      BY <2>2
    <3>3. /\ Family(prog.code, g) /\ Over(prog.code, proc, g)
          /\ Given(prog.code, proc, held, inside, disowned) /\ Cared(g, held, disowned, complained')
      BY <2>2, <3>1, <3>2, PopHeld
    <3> QED BY <2>2, <3>1, <3>3, KernelKeeps
  <2> QED BY <1>4, <2>1, <2>2 DEF EndOfVeth
<1> QED BY <1>1, <1>2, <1>3, <1>4
-----------------------------------------------------------------------------
LEMMA InitIInv == Init => IInv
<1> SUFFICES ASSUME Init PROVE IInv
  OBVIOUS
<1>1. PICK g \in Programs : prog = [name |-> g.name, once |-> g.args.once, code |-> [p \in Procs |-> Script(g, p)]]
  BY DEF Init
<1>2. Orderly(prog.code)
  <2>1. prog.code = [p \in Procs |-> Script(g, p)]
    BY <1>1
  <2> QED BY <2>1, EveryProgram
<1> DEFINE first == [Unborn EXCEPT !.mode = "runs", !.root = TRUE, !.env = TRUE]
<1>3. first \in Process /\ first.mode = "runs" /\ first.pc = 1
  BY UnbornIsProcess DEF Process
<1> HIDE DEF first
<1>4. proc = [p \in Procs |-> IF p = "main" THEN first ELSE Unborn]
  BY DEF Init, first
<1>5. /\ "main" \in Procs /\ proc \in [Procs -> Process] /\ proc["main"] = first
      /\ \A p \in Procs \ {"main"} : proc[p] = Unborn
  BY <1>3, <1>4, UnbornIsProcess DEF Procs
<1>6. \A p \in Procs : \A i \in DOMAIN prog.code[p] : ~Behind(proc[p], i)
  <2> SUFFICES ASSUME NEW p \in Procs, NEW i \in DOMAIN prog.code[p] PROVE ~Behind(proc[p], i)
    OBVIOUS
  <2>1. prog.code[p] \in Seq(Statement)
    BY <1>2 DEF Orderly
  <2>2. i \in Nat /\ i >= 1
    BY <2>1
  <2> QED BY <1>3, <1>5, <2>2, UnbornIsProcess DEF Behind
<1>7. Family(prog.code, proc)
  <2>1. Minded(prog.code, proc)
    BY <1>5, UnbornIsProcess DEF Minded, Lives
  <2>2. NotYet(prog.code, proc)
    <3>1. \A p \in Procs : \A i \in DOMAIN prog.code[p] :
            prog.code[p][i] \in Forks => prog.code[p][i][2] \in Procs \ {"main"}
      BY DEF Forks
    <3> QED BY <1>5, <3>1, UnbornIsProcess DEF NotYet
  <2>3. Already(prog.code, proc)
    BY <1>6 DEF Already
  <2>4. \A p \in Procs : Proper(prog.code[p], proc[p])
    BY <1>3, <1>5, <1>6, UnbornIsProcess DEF Proper
  <2> QED BY <1>3, <1>5, <2>1, <2>2, <2>3, <2>4 DEF Family
<1>8. Given(prog.code, proc, held, inside, disowned)
  <2>1. ~Past(prog.code, proc, Gives)
    BY <1>5, <1>6 DEF Past
  <2> QED BY <2>1 DEF Given, Init
<1>9. Cared(proc, held, disowned, complained)
  BY DEF Cared, Init
<1>10. inside \in BOOLEAN /\ disowned \in BOOLEAN
  BY DEF Init
<1> QED BY <1>2, <1>7, <1>8, <1>9, <1>10 DEF IInv

LEMMA StepKeeps == ASSUME IInv, NEW p \in Procs, Step(p) PROVE IInv'
BY PassesKeeps, MessagesKeep, LoopEndsKeep, LocalKeeps, NewEventLoopKeeps, AdoptKeeps, ExecKeeps, BlocksKeep,
   LeavingKeeps, EndsKeep, UnwindChildKeeps, UnwindLoopKeeps, LoopChildKeeps, NewKeeps, ForkKeeps,
   GiveKeeps, DisownKeeps, EndsOfHeldKeep, Zenon DEF Step

LEMMA NextIInv == IInv /\ [Next]_vars => IInv'
<1> SUFFICES ASSUME IInv, [Next]_vars PROVE IInv'
  OBVIOUS
<1>1. ASSUME NEW p \in Procs, Step(p) PROVE IInv'
  BY <1>1, StepKeeps
<1>2. ASSUME NEW p \in Procs, LoopFinishes(p) \/ Throws(p) \/ UserEnds(p) \/ Interrupt(p) PROVE IInv'
  BY <1>2, LoopEndsKeep, LeavingKeeps, EndsKeep, InterruptKeeps, Zenon
<1>3. CASE UNCHANGED vars
  <2>1. /\ UNCHANGED prog /\ proc' = proc /\ held' = held /\ inside' = inside /\ disowned' = disowned
        /\ complained' = complained
    BY <1>3 DEF vars, kernel
  <2> QED BY <2>1, IInvNext DEF IInv
<1> QED BY <1>1, <1>2, <1>3 DEF Next

LEMMA Invariance == Spec => []IInv
<1>1. Init => IInv
  BY InitIInv
<1>2. IInv /\ [Next]_vars => IInv'
  BY NextIInv
<1> QED BY <1>1, <1>2, PTL DEF Spec

\* Each process has the parent that its program says.
LEMMA Parents ==
  ASSUME IInv, NEW k \in Procs \ {"main"}, Alive(k)
  PROVE  /\ proc[k].parent \in Procs /\ Alive(proc[k].parent) /\ ~Gone(proc[k].parent)
         /\ proc[k].parent = "main" \/ (proc[k].parent = "first" /\ k # "first")
<1> DEFINE q == proc[k].parent
<1>1. q \in Procs /\ <<"fork", k>> \in Range(prog.code[q]) /\ Minds(proc[q], k)
  BY DEF IInv, Family, Minded, Alive, Lives
<1>2. <<"fork", k>> \in Forks
  BY DEF Forks
<1>3. Orderly(prog.code)
  BY DEF IInv
<1>4. q \in {"main", "first"}
  BY <1>1, <1>2, <1>3 DEF Orderly
<1>5. q = "first" => k # "first"
  <2>1. ASSUME q = "first", k = "first" PROVE FALSE
    <3>1. <<"fork", "first">> \in {<<"fork", "dnsmasq">>, <<"fork", "command">>}
      BY <1>1, <1>2, <1>3, <2>1 DEF Orderly
    <3> QED BY <3>1
  <2> QED BY <2>1
<1> QED BY <1>1, <1>4, <1>5 DEF Minds, Alive, Gone

\* No child outlives the process that forked it, whatever signals they get, whatever throws:
\* PacketShell::start_uplink and ~ChildProcess.
THEOREM ChildrenDieFirst == Spec => []NoOrphans
<1>1. IInv => NoOrphans
  BY Parents DEF NoOrphans
<1> QED BY <1>1, Invariance, PTL

\* The rules, devices, servers and files that main acquired are taken down by the time it
\* exits, but those that a destructor said it could not take down; the device that is left
\* to the kernel goes with the last process of its namespace.
THEOREM NothingIsLeft == Spec => []NothingLeft
<1>1. ASSUME IInv PROVE NothingLeft
  <2> SUFFICES ASSUME Gone("main"), proc["main"].status # "killed", NEW x \in held PROVE x \in complained
    BY DEF NothingLeft
  <2>1. "main" \in Procs /\ "first" \in Procs \ {"main"} /\ "command" \in Procs \ {"main"}
    BY DEF Procs
  <2>2. ~Alive("main")
    BY DEF Alive, Gone
  <2>3. ~Alive("first")
    BY <1>1, <2>1, <2>2, Parents
  <2>4. ~Alive("command")
    BY <1>1, <2>1, <2>2, <2>3, Parents
  <2>5. proc["first"].mode \in {"none", "gone"} /\ proc["command"].mode \in {"none", "gone"}
    BY <1>1, <2>1, <2>3, <2>4 DEF IInv, Family, Process, Alive
  <2>6. ~inside /\ (disowned => "veth" \notin held)
    BY <1>1, <2>5 DEF IInv, Given, Emptied
  <2>7. proc["main"].objs = <<>>
    BY <1>1, <2>1 DEF IInv, Family, Proper, Gone
  <2>8. <<"held", x>> \notin Range(proc["main"].objs)
    BY <2>7 DEF Range
  <2> QED BY <1>1, <2>6, <2>8 DEF IInv, Cared, Killed
<1>2. IInv => NothingLeft
  BY <1>1
<1> QED BY <1>2, Invariance, PTL
-----------------------------------------------------------------------------
(***************************************************************************)
(* The errors the code calls BUG.  What a process stands on: its           *)
(* privileges, its environment and its objects, and what a statement makes *)
(* of them.                                                                *)
(***************************************************************************)
Standing == [root : BOOLEAN, env : BOOLEAN, objs : Seq(Object)]

Stand(root, env, objs) == [root |-> root, env |-> env, objs |-> objs]
Stands(o) == Stand(o.root, o.env, o.objs)

With(c, e) == Stand(c.root, c.env, Append(c.objs, e))

\* Without the last object.
Under(c) ==
  LET e == c.objs[Len(c.objs)]
  IN Stand(IF e[1] = "unprivileged" THEN e[2] ELSE c.root, c.env /\ e[1] # "borrow", Front(c.objs))

\* With an object of the kind x, or one for the thing x.
Made(x, c) ==
  CASE x = "unprivileged" -> Stand(FALSE, c.env, Append(c.objs, <<"unprivileged", c.root>>))
    [] x = "borrow" -> Stand(c.root, TRUE, Append(c.objs, <<"borrow">>))
    [] x \in {"threads", "pipe"} -> With(c, <<x>>)
    [] OTHER -> With(c, <<"held", x>>)

\* After the statement s.
After(s, c) ==
  CASE s[1] = "clear" -> Stand(c.root, FALSE, c.objs)
    [] s[1] = "restore" -> Stand(c.root, TRUE, c.objs)
    [] s[1] = "drop" -> Stand(FALSE, c.env, c.objs)
    [] s[1] = "object" -> Made(s[2], c)
    [] s[1] = "event_loop" -> With(c, <<"event_loop">>)
    [] s[1] = "fork" -> With(c, <<"child", s[2]>>)
    [] s[1] \in {"leave", "adopt"} -> Under(c)
    [] OTHER -> c

\* What has children in it, and so is destroyed after their end.
Shelters == {<<"event_loop">>} \cup ({"child"} \X Procs)
Holding(c, x) == <<"held", x>> \in Range(c.objs)
Threading(c) == <<"threads">> \in Range(c.objs)
Sheltering(c) == Range(c.objs) \cap Shelters # {}

\* Only things of W are held, all of them before there are children, and the last object, if
\* it holds something, can take it down by a command.
Sound(c, W) ==
  /\ \A x \in Things : Holding(c, x) => x \in W
  /\ Sheltering(c) => \A x \in W : Holding(c, x)
  /\ c.objs # <<>> /\ c.objs[Len(c.objs)][1] = "held" =>
       c.root /\ ~c.env /\ ~Threading(c) /\ ~Sheltering(c)

\* That stays so while the objects are destroyed one by one.
Unwindable(c, W) ==
  \E F \in SUBSET Standing :
    /\ c \in F
    /\ \A e \in F : Sound(e, W) /\ (e.objs # <<>> => Under(e) \in F)

\* The things that the processes of the program n set up: main only.
Wanted(n, p) ==
  IF p # "main" THEN {}
  ELSE CASE n = "packet" -> {"nat_pre", "nat_post"}
         [] n \in {"record", "proxy"} -> {"nat_pre", "nat_post", "dnat", "veth"}
         [] OTHER -> Range(WebServers) \cup {"hosts"}

\* What the process p of the program n inherits.
Begins(n, p) ==
  Stand(~(n \in {"packet", "record", "proxy"} /\ p = "command") /\ ~(n \in {"record", "proxy"} /\ p = "dnsmasq"),
        p = "main" \/ (n = "packet" /\ p = "command"), <<>>)

\* The statement s is not refused, nor what it starts, where a process of n stands on c.
Allowed(n, s, c) ==
  /\ s[1] = "check" \/ s = <<"object", "borrow">> => ~c.env
  /\ s[1] = "user_try" \/ s = <<"object", "threads">> => ~c.root
  /\ s[1] = "exec" => ~c.root \/ (~c.env /\ s[2] # "path")
  /\ s[1] = "fork" => ~Threading(c) /\ Begins(n, s[2]) = Stand(c.root, c.env, <<>>)
  /\ RunsCommand(s) => c.root /\ ~c.env /\ ~Threading(c)

\* l is what a process with the script s stands on at each of its statements.
Leads(l, s, n, W) ==
  /\ l \in [Nat -> Standing]
  /\ \A i \in Nat : Unwindable(l[i], W)
  /\ \A i \in DOMAIN s : Allowed(n, s[i], l[i]) /\ l[i + 1] = After(s[i], l[i])

\* So does a process of n that runs, and one that leaves can unwind.
Follows(n, scripts, p, o) ==
  \E l : /\ Leads(l, scripts[p], n, Wanted(n, p)) /\ l[1] = Begins(n, p)
         /\ o.mode = "runs" => Stands(o) = l[o.pc]
         /\ o.mode = "leaves" => Unwindable(Stands(o), Wanted(n, p))

\* main has begun to take things down once it has no children in an object.
Established(o) == o.mode = "runs" \/ (o.mode = "leaves" /\ Sheltering(o))

Owned ==
  /\ held \subseteq Wanted(prog.name, "main")
  /\ inside => proc["first"].mode # "none"
  /\ Established(proc["main"]) =>
       \A x \in Things : Holding(proc["main"], x) => x \in held \/ (x = "veth" /\ Gone("first"))

Careful ==
  /\ "veth" \in Wanted(prog.name, "main") => <<"fork", "command">> \notin Range(prog.code["main"])
  /\ \A p \in Procs : Follows(prog.name, prog.code, p, proc[p])
  /\ Owned /\ bugs = {}

-----------------------------------------------------------------------------
LEMMA PushObject ==
  ASSUME NEW o \in Seq(Object), NEW e \in Object
  PROVE  /\ Append(o, e) \in Seq(Object) /\ Append(o, e) # <<>>
         /\ Front(Append(o, e)) = o /\ Append(o, e)[Len(Append(o, e))] = e
         /\ Range(Append(o, e)) = Range(o) \cup {e}
<1> DEFINE a == Append(o, e)
<1>1. a \in Seq(Object) /\ Len(a) = Len(o) + 1 /\ Len(o) \in Nat /\ a[Len(o) + 1] = e
      /\ (\A i \in 1 .. Len(o) : a[i] = o[i]) /\ DOMAIN o = 1 .. Len(o)
  OBVIOUS
<1>2. Range(a) = Range(o) \cup {e}
  BY RangeAppend
<1> HIDE DEF a
<1>3. Front(a) \in Seq(Object) /\ Len(Front(a)) = Len(o) /\ \A i \in 1 .. Len(o) : Front(a)[i] = o[i]
  BY <1>1 DEF Front
<1>4. Front(a) = o
  BY <1>1, <1>3
<1>5. a # <<>>
  BY <1>1
<1> QED BY <1>1, <1>2, <1>4, <1>5 DEF a

LEMMA StandIs ==
  ASSUME NEW root \in BOOLEAN, NEW env \in BOOLEAN, NEW objs \in Seq(Object)
  PROVE  /\ Stand(root, env, objs) \in Standing /\ Stand(root, env, objs).root = root
         /\ Stand(root, env, objs).env = env /\ Stand(root, env, objs).objs = objs
BY DEF Stand, Standing

LEMMA StandingIs ==
  ASSUME NEW c \in Standing
  PROVE  c.root \in BOOLEAN /\ c.env \in BOOLEAN /\ c.objs \in Seq(Object) /\ c = Stand(c.root, c.env, c.objs)
BY DEF Stand, Standing

LEMMA UnderIs ==
  ASSUME NEW c \in Standing, c.objs # <<>>
  PROVE  Under(c) \in Standing /\ Range(Under(c).objs) \subseteq Range(c.objs)
<1> DEFINE e == c.objs[Len(c.objs)]
           root == IF e[1] = "unprivileged" THEN e[2] ELSE c.root
           env == c.env /\ e[1] # "borrow"
<1>1. c.root \in BOOLEAN /\ c.env \in BOOLEAN /\ c.objs \in Seq(Object)
  BY StandingIs
<1>2. Front(c.objs) \in Seq(Object) /\ e \in Object /\ Range(Front(c.objs)) \subseteq Range(c.objs)
  BY <1>1, RangeFront
<1>3. root \in BOOLEAN /\ env \in BOOLEAN
  <2>1. e[1] = "unprivileged" => e[2] \in BOOLEAN
    BY <1>2 DEF Object
  <2> QED BY <1>1, <2>1
<1>4. Under(c) = Stand(root, env, Front(c.objs))
  BY DEF Under
<1> HIDE DEF root, env
<1> QED BY <1>2, <1>3, <1>4, StandIs

LEMMA UnwindableIs ==
  ASSUME NEW c, NEW W, Unwindable(c, W)
  PROVE  c \in Standing /\ Sound(c, W) /\ (c.objs # <<>> => Unwindable(Under(c), W))
BY DEF Unwindable

LEMMA Rewinds ==
  ASSUME NEW c \in Standing, NEW W, Sound(c, W), c.objs = <<>> \/ Unwindable(Under(c), W)
  PROVE  Unwindable(c, W)
<1>1. CASE c.objs = <<>>
  <2>1. {c} \in SUBSET Standing /\ c \in {c} /\ \A e \in {c} : Sound(e, W) /\ (e.objs # <<>> => Under(e) \in {c})
    BY <1>1
  <2> QED BY <2>1 DEF Unwindable
<1>2. CASE Unwindable(Under(c), W)
  <2>1. PICK F \in SUBSET Standing :
          Under(c) \in F /\ \A e \in F : Sound(e, W) /\ (e.objs # <<>> => Under(e) \in F)
    BY <1>2 DEF Unwindable
  <2> DEFINE G == F \cup {c}
  <2>2. G \in SUBSET Standing /\ c \in G /\ \A e \in G : Sound(e, W) /\ (e.objs # <<>> => Under(e) \in G)
    BY <2>1
  <2> QED BY <2>2 DEF Unwindable
<1> QED BY <1>1, <1>2

\* Who holds nothing can always unwind.
LEMMA Unburdened ==
  ASSUME NEW c \in Standing, \A x \in Things : ~Holding(c, x)
  PROVE  Unwindable(c, {})
<1> DEFINE F == {e \in Standing : \A x \in Things : ~Holding(e, x)}
<1>1. ASSUME NEW e \in F PROVE Sound(e, {}) /\ (e.objs # <<>> => Under(e) \in F)
  <2>1. CASE e.objs = <<>>
    BY <2>1 DEF Sound
  <2>2. CASE e.objs # <<>>
    <3>1. e.objs \in Seq(Object)
      BY StandingIs
    <3>2. e.objs[Len(e.objs)] \in Object /\ e.objs[Len(e.objs)] \in Range(e.objs)
      BY <2>2, <3>1, RangeFront
    <3>3. e.objs[Len(e.objs)][1] # "held"
      <4>1. ASSUME e.objs[Len(e.objs)][1] = "held" PROVE FALSE
        <5>1. PICK x \in Things : e.objs[Len(e.objs)] = <<"held", x>>
          BY <3>2, <4>1 DEF Object
        <5> QED BY <3>2, <5>1 DEF Holding
      <4> QED BY <4>1
    <3>4. Under(e) \in F
      BY <2>2, UnderIs DEF Holding
    <3> QED BY <3>3, <3>4 DEF Sound
  <2> QED BY <2>1, <2>2
<1>2. F \in SUBSET Standing /\ c \in F
  OBVIOUS
<1> HIDE DEF F
<1> QED BY <1>1, <1>2 DEF Unwindable

\* How a process may go on from proc[p] to the record r: it has executed a program or exited,
\* only waited, passed its statement, left the outermost frame or an object in it, or
\* was forked.
Goes(p, r) ==
  \/ Lives(proc[p]) /\ r.mode \in {"user", "gone"}
  \/ r.mode = proc[p].mode /\ r.pc = proc[p].pc /\ Stands(r) = Stands(proc[p])
  \/ /\ At(p)[1] # "end" /\ (At(p)[1] \in {"leave", "adopt"} => proc[p].objs # <<>>)
     /\ r.mode = "runs" /\ r.pc = proc[p].pc + 1 /\ Stands(r) = After(At(p), Stands(proc[p]))
  \/ /\ proc[p].mode \in {"runs", "leaves"} /\ r.mode = "leaves"
     /\ \/ Stands(r) = Stands(proc[p])
        \/ proc[p].objs # <<>> /\ Stands(r) = Under(Stands(proc[p]))
  \/ /\ p # "main" /\ proc[p].mode = "none"
     /\ r.mode = "runs" /\ r.pc = 1 /\ Stands(r) = Begins(prog.name, p)

LEMMA StandsIs ==
  ASSUME NEW o \in Process
  PROVE  /\ Stands(o) \in Standing /\ Stands(o).root = o.root /\ Stands(o).env = o.env
         /\ Stands(o).objs = o.objs
<1>1. o.root \in BOOLEAN /\ o.env \in BOOLEAN /\ o.objs \in Seq(Object)
  BY DEF Process
<1> QED BY <1>1, StandIs DEF Stands

LEMMA GoesFollows ==
  ASSUME IInv, NEW p \in Procs, Follows(prog.name, prog.code, p, proc[p]), NEW r, Goes(p, r)
  PROVE  Follows(prog.name, prog.code, p, r)
<1> DEFINE n == prog.name
           s == prog.code[p]
           W == Wanted(n, p)
           o == proc[p]
<1>1. PICK l : /\ Leads(l, s, n, W) /\ l[1] = Begins(n, p)
               /\ o.mode = "runs" => Stands(o) = l[o.pc]
               /\ o.mode = "leaves" => Unwindable(Stands(o), W)
  BY DEF Follows
<1>2. o \in Process /\ o.pc \in Nat
  BY DEF IInv, Family, Process
<1>3. o.mode \in {"runs", "leaves"} => Unwindable(Stands(o), W)
  BY <1>1, <1>2 DEF Leads
<1> SUFFICES /\ r.mode = "runs" => Stands(r) = l[r.pc]
             /\ r.mode = "leaves" => Unwindable(Stands(r), W)
  BY <1>1 DEF Follows
<1>4. CASE Lives(o) /\ r.mode \in {"user", "gone"}
  BY <1>4
<1>5. CASE r.mode = o.mode /\ r.pc = o.pc /\ Stands(r) = Stands(o)
  BY <1>1, <1>5
<1>6. CASE /\ At(p)[1] # "end" /\ r.mode = "runs" /\ r.pc = o.pc + 1 /\ Stands(r) = After(At(p), Stands(o))
  <2>1. o.mode = "runs" /\ o.pc \in DOMAIN s /\ At(p) = s[o.pc]
    BY <1>6, AtStatement
  <2>2. l[o.pc + 1] = After(s[o.pc], l[o.pc])
    BY <1>1, <2>1 DEF Leads
  <2> QED BY <1>1, <1>6, <2>1, <2>2
<1>7. CASE /\ o.mode \in {"runs", "leaves"} /\ r.mode = "leaves"
           /\ Stands(r) = Stands(o) \/ (o.objs # <<>> /\ Stands(r) = Under(Stands(o)))
  <2>1. Stands(o).objs = o.objs
    BY <1>2, StandsIs
  <2> QED BY <1>3, <1>7, <2>1, UnwindableIs
<1>8. CASE r.mode = "runs" /\ r.pc = 1 /\ Stands(r) = Begins(n, p)
  BY <1>1, <1>8
<1> QED BY <1>4, <1>5, <1>6, <1>7, <1>8 DEF Goes

\* A step to the processes g that holds h but for what the kernel destroys.
LEMMA AllGo ==
  ASSUME IInv, Careful, NEW g \in [Procs -> Process], NEW h, Kernel(g, h), \A q \in Procs : Goes(q, g[q]),
         UNCHANGED prog, bugs' = {}, h \subseteq Wanted(prog.name, "main"),
         Established(g["main"]) =>
           \A x \in Things : Holding(g["main"], x) => x \in h \/ (x = "veth" /\ g["first"].mode = "gone")
  PROVE  Careful'
<1>1. proc' = g /\ inside' = (inside /\ ~Emptied(g)) /\ prog' = prog
      /\ held' = IF inside /\ Emptied(g) THEN h \ {"veth"} ELSE h
  BY DEF Kernel
<1>2. \A p \in Procs : Follows(prog.name, prog.code, p, g[p])
  BY GoesFollows DEF Careful
<1>3. "first" \in Procs /\ "main" \in Procs
  BY DEF Procs
<1>4. Goes("first", g["first"])
  BY <1>3
<1>5. proc["first"].mode # "none" => g["first"].mode # "none"
  BY <1>4 DEF Goes
<1>6. inside' => proc'["first"].mode # "none"
  BY <1>1, <1>5 DEF Careful, Owned
<1>7. inside /\ Emptied(g) => g["first"].mode = "gone"
  BY <1>5 DEF Careful, Owned, Emptied
<1>8. held' \subseteq Wanted(prog.name, "main")
  BY <1>1
<1>9. ASSUME Established(g["main"]), NEW x \in Things, Holding(g["main"], x)
      PROVE  x \in held' \/ (x = "veth" /\ g["first"].mode = "gone")
  <2>1. x \in h \/ (x = "veth" /\ g["first"].mode = "gone")
    BY <1>9
  <2>2. x \in h /\ x \notin held' => inside /\ Emptied(g) /\ x = "veth"
    BY <1>1
  <2> QED BY <1>7, <2>1, <2>2
<1>10. Owned'
  BY <1>1, <1>6, <1>8, <1>9 DEF Owned, Gone
<1> QED BY <1>1, <1>2, <1>10 DEF Careful

\* What a statement that acquires nothing leaves held.
LEMMA AfterHolds ==
  ASSUME NEW s \in Statement, s \notin Outliving, NEW c \in Standing,
         s[1] \in {"leave", "adopt"} => c.objs # <<>>, NEW x \in Things, Holding(After(s, c), x)
  PROVE  Holding(c, x)
<1>1. c.root \in BOOLEAN /\ c.env \in BOOLEAN /\ c.objs \in Seq(Object)
  BY StandingIs
<1>2. ASSUME NEW root, NEW env PROVE Stand(root, env, c.objs).objs = c.objs
  BY DEF Stand
<1>3. ASSUME NEW root, NEW env, NEW e \in Object, Holding(Stand(root, env, Append(c.objs, e)), x), e[1] # "held"
      PROVE  Holding(c, x)
  <2>1. Range(Append(c.objs, e)) = Range(c.objs) \cup {e}
    BY <1>1, PushObject
  <2>2. Stand(root, env, Append(c.objs, e)).objs = Append(c.objs, e)
    BY DEF Stand
  <2> QED BY <1>3, <2>1, <2>2 DEF Holding
<1>4. <<"unprivileged", c.root>> \in Object /\ <<"borrow">> \in Object /\ <<"event_loop">> \in Object
      /\ <<"threads">> \in Object /\ <<"pipe">> \in Object
  BY <1>1 DEF Object
<1>5. CASE s[1] \in {"clear", "restore", "drop"}
  <2>1. After(s, c) = Stand(c.root, FALSE, c.objs) \/ After(s, c) = Stand(c.root, TRUE, c.objs)
        \/ After(s, c) = Stand(FALSE, c.env, c.objs)
    BY <1>5 DEF After
  <2> QED BY <1>2, <2>1 DEF Holding
<1>6. CASE s = <<"object", "unprivileged">>
  <2>1. After(s, c) = Stand(FALSE, c.env, Append(c.objs, <<"unprivileged", c.root>>))
    BY <1>6 DEF After, Made
  <2> QED BY <1>3, <1>4, <2>1
<1>7. CASE s = <<"object", "borrow">>
  <2>1. After(s, c) = Stand(c.root, TRUE, Append(c.objs, <<"borrow">>))
    BY <1>7 DEF After, Made
  <2> QED BY <1>3, <1>4, <2>1
<1>8. CASE s \in {<<"object", "threads">>, <<"object", "pipe">>}
  <2>0. s[1] = "object" /\ s[2] \in {"threads", "pipe"}
    BY <1>8
  <2>1. After(s, c) = With(c, <<s[2]>>)
    BY <2>0 DEF After, Made
  <2> QED BY <1>3, <1>4, <1>8, <2>1 DEF With
<1>9. CASE s[1] = "event_loop"
  <2>1. After(s, c) = With(c, <<"event_loop">>)
    BY <1>9 DEF After
  <2> QED BY <1>3, <1>4, <2>1 DEF With
<1>10. CASE s[1] = "fork"
  <2>1. After(s, c) = With(c, <<"child", s[2]>>)
    BY <1>10 DEF After
  <2>2. <<"child", s[2]>> \in Object
    BY <1>10, StatementKinds DEF Object
  <2> QED BY <1>3, <2>1, <2>2 DEF With
<1>11. CASE s[1] \in {"leave", "adopt"}
  <2>1. After(s, c) = Under(c)
    BY <1>11 DEF After
  <2> QED BY <1>11, <2>1, UnderIs DEF Holding
<1>12. CASE s[1] \notin {"clear", "restore", "drop", "event_loop", "fork", "leave", "adopt"} /\ s[1] # "object"
  <2>1. After(s, c) = c
    BY <1>12 DEF After
  <2> QED BY <2>1
<1>13. s[1] = "object" => s = <<"object", s[2]>> /\ s[2] \in OtherObjects \cup Range(WebServers)
  BY DEF Statement
<1>14. s[1] = "object" => s \in {<<"object", "unprivileged">>, <<"object", "borrow">>, <<"object", "threads">>,
                                 <<"object", "pipe">>}
  BY <1>13 DEF Outliving, OtherObjects, Rules
<1> QED BY <1>5, <1>6, <1>7, <1>8, <1>9, <1>10, <1>11, <1>12, <1>14

\* main acquires nothing in a step that is not a statement for it.
LEMMA NoneAcquired ==
  ASSUME IInv, NEW r \in Process, Goes("main", r), At("main") \notin Outliving, Established(r)
  PROVE  Established(proc["main"]) /\ \A x \in Things : Holding(r, x) => Holding(proc["main"], x)
<1> DEFINE o == proc["main"]
           c == Stands(o)
           d == Stands(r)
<1>1. "main" \in Procs /\ o \in Process /\ o.mode # "none"
  BY DEF IInv, Family, Procs
<1>2. /\ c \in Standing /\ c.objs = o.objs /\ d \in Standing /\ d.objs = r.objs
  BY <1>1, StandsIs
<1>3. /\ \A x : (Holding(r, x) <=> Holding(d, x)) /\ (Holding(o, x) <=> Holding(c, x))
      /\ (Sheltering(r) <=> Sheltering(d)) /\ (Sheltering(o) <=> Sheltering(c))
  BY <1>2 DEF Holding, Sheltering
<1>4. r.mode \in {"runs", "leaves"}
  BY DEF Established
<1> HIDE DEF o, c, d
<1>5. CASE r.mode = o.mode /\ d = c
  BY <1>3, <1>5 DEF Established, o
<1>6. CASE /\ At("main")[1] # "end" /\ (At("main")[1] \in {"leave", "adopt"} => o.objs # <<>>)
           /\ d = After(At("main"), c)
  <2>1. o.mode = "runs" /\ At("main") \in Statement
    BY <1>1, <1>6, AtStatement DEF o
  <2>2. \A x \in Things : Holding(d, x) => Holding(c, x)
    BY <1>2, <1>6, <2>1, AfterHolds
  <2> QED BY <1>3, <2>1, <2>2 DEF Established, o
<1>7. CASE /\ o.mode \in {"runs", "leaves"} /\ r.mode = "leaves"
           /\ d = c \/ (o.objs # <<>> /\ d = Under(c))
  <2>1. Range(d.objs) \subseteq Range(c.objs)
    BY <1>2, <1>7, UnderIs
  <2>2. (\A x : Holding(d, x) => Holding(c, x)) /\ (Sheltering(d) => Sheltering(c))
    BY <2>1 DEF Holding, Sheltering
  <2> QED BY <1>3, <1>7, <2>2 DEF Established, o
<1> QED BY <1>1, <1>4, <1>5, <1>6, <1>7 DEF Goes, o, c, d

\* So for the steps that neither acquire nor take down.
LEMMA AllKeep ==
  ASSUME IInv, Careful, NEW g \in [Procs -> Process], Kernel(g, held), \A q \in Procs : Goes(q, g[q]),
         UNCHANGED <<prog, bugs>>, At("main") \notin Outliving \/ g["main"] = proc["main"]
  PROVE  Careful'
<1>1. "main" \in Procs /\ "first" \in Procs /\ bugs' = {} /\ held \subseteq Wanted(prog.name, "main")
  BY DEF Procs, Careful, Owned
<1>2. Gone("first") => g["first"].mode = "gone"
  <2>1. Goes("first", g["first"])
    BY <1>1
  <2>2. ASSUME Gone("first"), At("first")[1] # "end" PROVE FALSE
    BY <1>1, <2>2, AtStatement DEF Gone
  <2> QED BY <2>1, <2>2 DEF Goes, Gone, Lives
<1>3. ASSUME Established(g["main"]), NEW x \in Things, Holding(g["main"], x)
      PROVE  x \in held \/ (x = "veth" /\ g["first"].mode = "gone")
  <2>1. Established(proc["main"]) /\ Holding(proc["main"], x)
    <3>1. CASE At("main") \notin Outliving
      BY <1>1, <1>3, <3>1, NoneAcquired
    <3>2. CASE g["main"] = proc["main"]
      BY <1>3, <3>2
    <3> QED BY <3>1, <3>2
  <2> QED BY <1>2, <2>1 DEF Careful, Owned
<1> QED BY <1>1, <1>3, AllGo

LEMMA OneGoes ==
  ASSUME IInv, Careful, NEW p \in Procs, NEW r \in Process, Becomes(p, r), Goes(p, r),
         UNCHANGED <<prog, bugs>>, p # "main" \/ At(p) \notin Outliving
  PROVE  Careful'
<1> DEFINE g == [proc EXCEPT ![p] = r]
<1>1. g \in [Procs -> Process] /\ g[p] = r /\ \A q \in Procs : q # p => g[q] = proc[q]
  BY DEF IInv, Family
<1>2. Kernel(g, held)
  BY DEF Becomes
<1> HIDE DEF g
<1>3. \A q \in Procs : Goes(q, g[q])
  BY <1>1 DEF Goes
<1>4. At("main") \notin Outliving \/ g["main"] = proc["main"]
  BY <1>1 DEF Procs
<1> QED BY <1>1, <1>2, <1>3, <1>4, AllKeep

\* No statement is refused.
LEMMA NeverRefused ==
  ASSUME IInv, Careful, NEW p \in Procs, At(p)[1] # "end"
  PROVE  ~Refused(p, At(p)) /\ Allowed(prog.name, At(p), Stands(proc[p]))
<1> DEFINE s == At(p)
           o == proc[p]
           c == Stands(o)
<1>1. o.mode = "runs" /\ o.pc \in DOMAIN prog.code[p] /\ s = prog.code[p][o.pc] /\ s \in Statement
  BY AtStatement
<1>2. Allowed(prog.name, s, c)
  <2>1. PICK l : Leads(l, prog.code[p], prog.name, Wanted(prog.name, p)) /\ c = l[o.pc]
    BY <1>1 DEF Careful, Follows
  <2> QED BY <1>1, <2>1 DEF Leads
<1>3. c.root = o.root /\ c.env = o.env /\ c.objs = o.objs
  BY StandsIs DEF IInv, Family
<1>4. Threaded(p) <=> Threading(c)
  BY <1>3 DEF Threaded, Threading, Range
<1>5. s[1] = "check" => ~KeepsEnvironment(p)
  BY <1>2, <1>3 DEF Allowed, KeepsEnvironment
<1>6. s = <<"object", "borrow">> => ~BorrowsTwice(p)
  BY <1>2, <1>3 DEF Allowed, BorrowsTwice
<1>7. s[1] = "user_try" \/ s = <<"object", "threads">> => ~LooksAsRoot(p)
  BY <1>2, <1>3 DEF Allowed, LooksAsRoot
<1>8. s[1] = "exec" => ~ExecutesUnsafely(p, s[2] = "path")
  BY <1>2, <1>3 DEF Allowed, ExecutesUnsafely
<1>9. s[1] = "fork" => ~ForksThreads(p)
  BY <1>2, <1>4 DEF Allowed, ForksThreads
<1>10. RunsCommand(s) => ~CannotRun(p)
  BY <1>2, <1>3, <1>4 DEF Allowed, CannotRun
<1> HIDE DEF s, o, c
<1>11. ~Refused(p, s)
  BY <1>5, <1>6, <1>7, <1>8, <1>9, <1>10 DEF Refused
<1> QED BY <1>2, <1>11 DEF s, c, o

LEMMA AfterKinds ==
  ASSUME NEW s \in Statement, NEW c
  PROVE  /\ s[1] \in {"try", "user_try", "check", "run", "send", "receive", "give", "disown", "loop"} =>
              After(s, c) = c
         /\ s[1] = "clear" => After(s, c) = Stand(c.root, FALSE, c.objs)
         /\ s[1] = "restore" => After(s, c) = Stand(c.root, TRUE, c.objs)
         /\ s[1] = "drop" => After(s, c) = Stand(FALSE, c.env, c.objs)
         /\ s[1] = "event_loop" => After(s, c) = With(c, <<"event_loop">>)
         /\ s[1] = "fork" => After(s, c) = With(c, <<"child", s[2]>>)
         /\ s[1] \in {"leave", "adopt"} => After(s, c) = Under(c)
         /\ s[1] = "object" => After(s, c) = Made(s[2], c)
         /\ s[1] # "object" => s \notin Outliving
<1>1. s[1] \in {"try", "user_try", "check", "run", "send", "receive", "give", "disown", "loop"} => After(s, c) = c
  BY DEF After
<1>2. s[1] = "clear" => After(s, c) = Stand(c.root, FALSE, c.objs)
  BY DEF After
<1>3. s[1] = "restore" => After(s, c) = Stand(c.root, TRUE, c.objs)
  BY DEF After
<1>4. s[1] = "drop" => After(s, c) = Stand(FALSE, c.env, c.objs)
  BY DEF After
<1>5. s[1] = "event_loop" => After(s, c) = With(c, <<"event_loop">>)
  BY DEF After
<1>6. s[1] = "fork" => After(s, c) = With(c, <<"child", s[2]>>)
  BY DEF After
<1>7. s[1] \in {"leave", "adopt"} => After(s, c) = Under(c)
  BY DEF After
<1>8. s[1] = "object" => After(s, c) = Made(s[2], c)
  BY DEF After
<1>9. s[1] # "object" => s \notin Outliving
  BY DEF Outliving
<1> QED BY <1>1, <1>2, <1>3, <1>4, <1>5, <1>6, <1>7, <1>8, <1>9

LEMMA MadeKinds ==
  ASSUME NEW c
  PROVE  /\ Made("unprivileged", c) = Stand(FALSE, c.env, Append(c.objs, <<"unprivileged", c.root>>))
         /\ Made("borrow", c) = Stand(c.root, TRUE, Append(c.objs, <<"borrow">>))
         /\ Made("threads", c) = With(c, <<"threads">>)
         /\ Made("pipe", c) = With(c, <<"pipe">>)
         /\ \A x \in Things : Made(x, c) = With(c, <<"held", x>>)
<1>1. \A x \in Things : x \notin {"unprivileged", "borrow", "threads", "pipe"}
  BY ServersAssumption DEF Things, Rules, OtherObjects, Range
<1>2. \A x \in Things : Made(x, c) = With(c, <<"held", x>>)
  BY <1>1 DEF Made
<1>3. /\ Made("unprivileged", c) = Stand(FALSE, c.env, Append(c.objs, <<"unprivileged", c.root>>))
      /\ Made("borrow", c) = Stand(c.root, TRUE, Append(c.objs, <<"borrow">>))
  BY DEF Made
<1>4. Made("threads", c) = With(c, <<"threads">>) /\ Made("pipe", c) = With(c, <<"pipe">>)
  BY DEF Made
<1> QED BY <1>2, <1>3, <1>4

\* The records that the statements make.
LEMMA AdvancedStands ==
  ASSUME IInv, NEW p \in Procs, NEW b \in BOOLEAN
  PROVE  /\ Stands(Advanced(p)) = Stands(proc[p])
         /\ Stands([Advanced(p) EXCEPT !.env = b]) = Stand(proc[p].root, b, proc[p].objs)
         /\ Stands([Advanced(p) EXCEPT !.root = b]) = Stand(b, proc[p].env, proc[p].objs)
         /\ Stands([Advanced(p) EXCEPT !.masked = TRUE]) = Stands(proc[p])
         /\ Stands([Advanced(p) EXCEPT !.status = "ok"]) = Stands(proc[p])
         /\ Stands([Advanced(p) EXCEPT !.status = "finished"]) = Stands(proc[p])
         /\ Stands([Advanced(p) EXCEPT !.status = "ok", !.pending = {}]) = Stands(proc[p])
<1> DEFINE a == Advanced(p)
<1>1. a \in Process /\ a = [proc[p] EXCEPT !.pc = proc[p].pc + 1] /\ proc[p] \in Process
  BY AdvancedIsProcess
<1> HIDE DEF a
<1>2. a.root = proc[p].root /\ a.env = proc[p].env /\ a.objs = proc[p].objs
  BY <1>1 DEF Process
<1>3. /\ [a EXCEPT !.env = b].root = a.root /\ [a EXCEPT !.env = b].env = b /\ [a EXCEPT !.env = b].objs = a.objs
      /\ [a EXCEPT !.root = b].root = b /\ [a EXCEPT !.root = b].env = a.env /\ [a EXCEPT !.root = b].objs = a.objs
  BY <1>1 DEF Process
<1>4. ASSUME NEW q \in {[a EXCEPT !.masked = TRUE], [a EXCEPT !.status = "ok"], [a EXCEPT !.status = "finished"],
                        [a EXCEPT !.status = "ok", !.pending = {}]}
      PROVE  q.root = a.root /\ q.env = a.env /\ q.objs = a.objs
  BY <1>1, <1>4 DEF Process
<1> QED BY <1>2, <1>3, <1>4 DEF Stands, a

LEMMA AppendStands ==
  ASSUME IInv, NEW p \in Procs, NEW a \in Process, a.objs = proc[p].objs, NEW e \in Object
  PROVE  LET r == [a EXCEPT !.objs = Append(@, e)] IN
         /\ r \in Process /\ r.mode = a.mode /\ r.pc = a.pc
         /\ Stands(r) = Stand(a.root, a.env, Append(proc[p].objs, e))
<1>1. proc[p].objs \in Seq(Object)
  BY DEF IInv, Family, Process
<1> DEFINE q == Append(a.objs, e)
<1>2. q \in Seq(Object) /\ q = Append(proc[p].objs, e)
  BY <1>1, RangeAppend
<1>3. [a EXCEPT !.objs = Append(@, e)] = [a EXCEPT !.objs = q]
  OBVIOUS
<1> HIDE DEF q
<1>4. /\ [a EXCEPT !.objs = q] \in Process /\ [a EXCEPT !.objs = q].mode = a.mode /\ [a EXCEPT !.objs = q].pc = a.pc
      /\ [a EXCEPT !.objs = q].root = a.root /\ [a EXCEPT !.objs = q].env = a.env
      /\ [a EXCEPT !.objs = q].objs = q
  BY <1>2 DEF Process
<1> QED BY <1>2, <1>3, <1>4 DEF Stands

\* A statement of p that acquires nothing.
LEMMA StatementGoes ==
  ASSUME IInv, Careful, NEW p \in Procs, At(p)[1] # "end", At(p) \notin Outliving,
         At(p)[1] \in {"leave", "adopt"} => proc[p].objs # <<>>,
         NEW r \in Process, Becomes(p, r), UNCHANGED <<prog, bugs>>,
         r.mode = "runs", r.pc = proc[p].pc + 1, Stands(r) = After(At(p), Stands(proc[p]))
  PROVE  Careful'
BY OneGoes DEF Goes

LEMMA PassesCareful ==
  ASSUME IInv, Careful, NEW p \in Procs,
         Passes(p) \/ DropsPrivileges(p) \/ Send(p) \/ Receive(p) \/ Disown(p) \/ LoopSignal(p) \/ LoopFinishes(p)
  PROVE  Careful'
<1> DEFINE s == At(p)
           o == proc[p]
           c == Stands(o)
<1>1. o \in Process /\ c.root = o.root /\ c.env = o.env /\ c.objs = o.objs
  BY StandsIs DEF IInv, Family
<1>2. s[1] # "end" => o.mode = "runs" /\ s \in Statement
  BY AtStatement
<1>21. s[1] # "end" =>
         /\ s[1] = "clear" => After(s, c) = Stand(c.root, FALSE, c.objs)
         /\ s[1] = "restore" => After(s, c) = Stand(c.root, TRUE, c.objs)
         /\ s[1] = "drop" => After(s, c) = Stand(FALSE, c.env, c.objs)
  BY <1>2, AfterKinds
<1>3. ASSUME NEW r, Passing(p, r), Becomes(p, r), UNCHANGED <<prog, bugs>>,
             s[1] \notin {"end", "object", "leave", "adopt"}, Stands(r) = After(s, c)
      PROVE  Careful'
  <2>1. r \in Process /\ r.mode = "runs" /\ r.pc = o.pc + 1 /\ s \notin Outliving
    BY <1>2, <1>3, AfterKinds DEF Passing
  <2> QED BY <1>3, <2>1, StatementGoes
<1>4. CASE s[1] = "clear" /\ Becomes(p, [Advanced(p) EXCEPT !.env = FALSE]) /\ UNCHANGED <<prog, bugs>>
  <2>1. Passing(p, [Advanced(p) EXCEPT !.env = FALSE])
    BY AdvancedPasses
  <2>2. Stands([Advanced(p) EXCEPT !.env = FALSE]) = Stand(o.root, FALSE, o.objs)
    BY AdvancedStands
  <2>3. After(s, c) = Stand(o.root, FALSE, o.objs)
    <3> HIDE DEF s, c
    <3> QED BY <1>1, <1>21, <1>4
  <2> QED BY <1>3, <1>4, <2>1, <2>2, <2>3
<1>5. CASE s[1] = "restore" /\ Becomes(p, [Advanced(p) EXCEPT !.env = TRUE]) /\ UNCHANGED <<prog, bugs>>
  <2>1. Passing(p, [Advanced(p) EXCEPT !.env = TRUE])
    BY AdvancedPasses
  <2>2. Stands([Advanced(p) EXCEPT !.env = TRUE]) = Stand(o.root, TRUE, o.objs)
    BY AdvancedStands
  <2>3. After(s, c) = Stand(o.root, TRUE, o.objs)
    <3> HIDE DEF s, c
    <3> QED BY <1>1, <1>21, <1>5
  <2> QED BY <1>3, <1>5, <2>1, <2>2, <2>3
<1>6. CASE s[1] = "drop" /\ Becomes(p, [Advanced(p) EXCEPT !.root = FALSE]) /\ UNCHANGED <<prog, bugs>>
  <2>1. Passing(p, [Advanced(p) EXCEPT !.root = FALSE])
    BY AdvancedPasses
  <2>2. Stands([Advanced(p) EXCEPT !.root = FALSE]) = Stand(FALSE, o.env, o.objs)
    BY AdvancedStands
  <2>3. After(s, c) = Stand(FALSE, o.env, o.objs)
    <3> HIDE DEF s, c
    <3> QED BY <1>1, <1>21, <1>6
  <2> QED BY <1>3, <1>6, <2>1, <2>2, <2>3
<1>7. CASE /\ s[1] \in {"try", "user_try", "check", "run", "send", "receive", "give", "disown", "loop"}
           /\ \E r \in {Advanced(p), [Advanced(p) EXCEPT !.status = "finished"],
                        [Advanced(p) EXCEPT !.status = "ok", !.pending = {}]} : Becomes(p, r)
           /\ UNCHANGED <<prog, bugs>>
  <2>1. PICK r \in {Advanced(p), [Advanced(p) EXCEPT !.status = "finished"],
                    [Advanced(p) EXCEPT !.status = "ok", !.pending = {}]} : Becomes(p, r)
    BY <1>7
  <2>2. Passing(p, r)
    BY <2>1, AdvancedPasses
  <2>3. Stands(r) = c
    BY <2>1, AdvancedStands
  <2>4. After(s, c) = c
    BY <1>2, <1>7, AfterKinds
  <2> QED BY <1>3, <1>7, <2>1, <2>2, <2>3, <2>4
<1>8. ASSUME Passes(p) PROVE Careful'
  BY <1>4, <1>5, <1>7, <1>8 DEF Passes
<1>9. ASSUME DropsPrivileges(p) PROVE Careful'
  BY <1>6, <1>9 DEF DropsPrivileges
<1>10. ASSUME Send(p) \/ Receive(p) \/ Disown(p) PROVE Careful'
  BY <1>7, <1>10 DEF Send, Receive, Disown
<1>11. ASSUME LoopSignal(p) \/ LoopFinishes(p) PROVE Careful'
  BY <1>7, <1>11 DEF LoopSignal, LoopFinishes, Looping
<1> QED BY <1>8, <1>9, <1>10, <1>11

LEMMA LocalCareful ==
  ASSUME IInv, Careful, NEW p \in Procs,
         NewEventLoop(p) \/ BecomesUnprivileged(p) \/ BorrowsEnvironment(p) \/ NewLocal(p)
  PROVE  Careful'
<1> DEFINE s == At(p)
           o == proc[p]
           c == Stands(o)
<1>1. o \in Process /\ c.root = o.root /\ c.env = o.env /\ c.objs = o.objs
  BY StandsIs DEF IInv, Family
<1>2. s[1] # "end" => o.mode = "runs" /\ s \in Statement
  BY AtStatement
<1>3. ASSUME NEW a \in Process, NEW e \in Object, a.mode = o.mode, a.pc = o.pc + 1, a.objs = o.objs, Local(p, a, e),
             s[1] \in {"event_loop", "object"}, s \notin Outliving,
             After(s, c) = Stand(a.root, a.env, Append(o.objs, e))
      PROVE  Careful'
  <2> DEFINE r == [a EXCEPT !.objs = Append(@, e)]
  <2>1. r \in Process /\ r.mode = a.mode /\ r.pc = a.pc /\ Stands(r) = Stand(a.root, a.env, Append(o.objs, e))
    BY <1>3, AppendStands
  <2>2. Becomes(p, r) /\ UNCHANGED <<prog, bugs>>
    BY <1>3 DEF Local
  <2> HIDE DEF r
  <2> QED BY <1>2, <1>3, <2>1, <2>2, StatementGoes
<1>4. o.root \in BOOLEAN
  BY <1>1 DEF Process
<1>5. <<"unprivileged", o.root>> \in Object /\ <<"borrow">> \in Object /\ <<"threads">> \in Object
      /\ <<"pipe">> \in Object /\ <<"event_loop">> \in Object
  BY <1>4 DEF Object
<1>6. s \in {<<"object", "unprivileged">>, <<"object", "borrow">>, <<"object", "threads">>, <<"object", "pipe">>}
        => s \notin Outliving
  BY ServersAssumption DEF Outliving, Rules, OtherObjects, Range
<1> DEFINE a == Advanced(p)
<1>7. a \in Process /\ a = [o EXCEPT !.pc = o.pc + 1] /\ a.mode = o.mode /\ a.pc = o.pc + 1
      /\ a.objs = o.objs /\ a.root = o.root /\ a.env = o.env
  <2>1. a \in Process /\ a = [o EXCEPT !.pc = o.pc + 1]
    BY AdvancedIsProcess
  <2> HIDE DEF a
  <2> QED BY <1>1, <2>1 DEF Process
<1>8. s[1] # "end" => /\ s[1] = "event_loop" => After(s, c) = With(c, <<"event_loop">>)
                      /\ s[1] = "object" => After(s, c) = Made(s[2], c)
                      /\ s[1] # "object" => s \notin Outliving
  BY <1>2, AfterKinds
<1>9. \A e : With(c, e) = Stand(o.root, o.env, Append(o.objs, e))
  BY <1>1 DEF With
<1>10. /\ Made("unprivileged", c) = Stand(FALSE, o.env, Append(o.objs, <<"unprivileged", o.root>>))
       /\ Made("borrow", c) = Stand(o.root, TRUE, Append(o.objs, <<"borrow">>))
       /\ \A x \in {"threads", "pipe"} : Made(x, c) = Stand(o.root, o.env, Append(o.objs, <<x>>))
  BY <1>1, <1>9, MadeKinds
<1> HIDE DEF c
<1>11. CASE NewEventLoop(p)
  <2> DEFINE b == [a EXCEPT !.masked = TRUE]
  <2>1. s[1] = "event_loop" /\ Local(p, b, <<"event_loop">>)
    BY <1>11 DEF NewEventLoop
  <2> HIDE DEF a
  <2>2. b \in Process /\ b.mode = a.mode /\ b.pc = a.pc /\ b.objs = a.objs /\ b.root = a.root /\ b.env = a.env
    BY <1>7 DEF Process
  <2>3. After(s, c) = Stand(o.root, o.env, Append(o.objs, <<"event_loop">>)) /\ s \notin Outliving
    BY <1>8, <1>9, <2>1
  <2> HIDE DEF b, s, o
  <2> QED BY <1>3, <1>5, <1>7, <2>1, <2>2, <2>3
<1>12. CASE BecomesUnprivileged(p)
  <2> DEFINE b == [a EXCEPT !.root = FALSE]
  <2>1. s = <<"object", "unprivileged">> /\ Local(p, b, <<"unprivileged", o.root>>)
    BY <1>12 DEF BecomesUnprivileged
  <2> HIDE DEF a
  <2>2. b \in Process /\ b.mode = a.mode /\ b.pc = a.pc /\ b.objs = a.objs /\ b.root = FALSE /\ b.env = a.env
    BY <1>7 DEF Process
  <2>3. s[1] = "object" /\ s[2] = "unprivileged" /\ s \notin Outliving
    BY <1>6, <2>1
  <2> HIDE DEF b, s, o
  <2>4. After(s, c) = Stand(FALSE, o.env, Append(o.objs, <<"unprivileged", o.root>>))
    BY <1>8, <1>10, <2>3
  <2> QED BY <1>3, <1>5, <1>7, <2>1, <2>2, <2>3, <2>4
<1>13. CASE BorrowsEnvironment(p)
  <2> DEFINE b == [a EXCEPT !.env = TRUE]
  <2>1. s = <<"object", "borrow">> /\ Local(p, b, <<"borrow">>)
    BY <1>13 DEF BorrowsEnvironment
  <2> HIDE DEF a
  <2>2. b \in Process /\ b.mode = a.mode /\ b.pc = a.pc /\ b.objs = a.objs /\ b.root = a.root /\ b.env = TRUE
    BY <1>7 DEF Process
  <2>3. s[1] = "object" /\ s[2] = "borrow" /\ s \notin Outliving
    BY <1>6, <2>1
  <2> HIDE DEF b, s, o
  <2>4. After(s, c) = Stand(o.root, TRUE, Append(o.objs, <<"borrow">>))
    BY <1>8, <1>10, <2>3
  <2> QED BY <1>3, <1>5, <1>7, <2>1, <2>2, <2>3, <2>4
<1>14. CASE NewLocal(p)
  <2>1. s \in {<<"object", "threads">>, <<"object", "pipe">>} /\ Local(p, a, <<s[2]>>)
    BY <1>14 DEF NewLocal
  <2>2. s[1] = "object" /\ s[2] \in {"threads", "pipe"} /\ s \notin Outliving
    BY <1>6, <2>1
  <2> HIDE DEF a, s, o
  <2>3. After(s, c) = Stand(o.root, o.env, Append(o.objs, <<s[2]>>)) /\ <<s[2]>> \in Object
    BY <1>5, <1>8, <1>10, <2>2
  <2> QED BY <1>3, <1>7, <2>1, <2>2, <2>3
<1> QED BY <1>11, <1>12, <1>13, <1>14

\* What is acquired is wanted, and gets an object of main's.
LEMMA HoldsCareful == ASSUME IInv, Careful, NEW p \in Procs, NEW x \in Things, Holds(p, x, {}) PROVE Careful'
<1> DEFINE s == At(p)
           o == proc[p]
           c == Stands(o)
           a == Advanced(p)
           e == <<"held", x>>
           r == [a EXCEPT !.objs = Append(@, e)]
           g == [proc EXCEPT ![p] = r]
<1>1. s = <<"object", x>> /\ Kernel(g, (held \ {}) \cup {x}) /\ UNCHANGED <<prog, bugs>>
  BY DEF Holds
<1>2. o \in Process /\ c.root = o.root /\ c.env = o.env /\ c.objs = o.objs
  BY StandsIs DEF IInv, Family
<1>3. o.mode = "runs" /\ s \in Statement
  BY <1>1, AtStatement
<1>4. a \in Process /\ a = [o EXCEPT !.pc = o.pc + 1] /\ a.mode = o.mode /\ a.pc = o.pc + 1
      /\ a.objs = o.objs /\ a.root = o.root /\ a.env = o.env
  <2>1. a \in Process /\ a = [o EXCEPT !.pc = o.pc + 1]
    BY AdvancedIsProcess
  <2> HIDE DEF a
  <2> QED BY <1>2, <2>1 DEF Process
<1> HIDE DEF a
<1>5. e \in Object /\ o.objs \in Seq(Object)
  BY <1>2 DEF Object, Process
<1>6. r \in Process /\ r.mode = "runs" /\ r.pc = o.pc + 1 /\ Stands(r) = Stand(o.root, o.env, Append(o.objs, e))
  <2>1. r \in Process /\ r.mode = a.mode /\ r.pc = a.pc /\ Stands(r) = Stand(a.root, a.env, Append(o.objs, e))
    BY <1>4, <1>5, AppendStands
  <2> HIDE DEF r, e
  <2> QED BY <1>3, <1>4, <2>1
<1> HIDE DEF r
<1>7. Stands(r) = After(s, c)
  <2>1. After(s, c) = Made(x, c)
    <3>1. s[1] = "object" => After(s, c) = Made(s[2], c)
      BY <1>3, AfterKinds
    <3> HIDE DEF s, c
    <3> QED BY <1>1, <3>1
  <2>2. Made(x, c) = With(c, e)
    BY MadeKinds
  <2> QED BY <1>2, <1>6, <2>1, <2>2 DEF With
<1> HIDE DEF r
<1>8. g \in [Procs -> Process] /\ g[p] = r /\ \A q \in Procs : q # p => g[q] = proc[q]
  BY <1>6 DEF IInv, Family
<1> HIDE DEF g
<1>9. \A q \in Procs : Goes(q, g[q])
  BY <1>1, <1>6, <1>7, <1>8 DEF Goes
<1>10. Range(r.objs) = Range(o.objs) \cup {e}
  <2>1. r.objs = Append(o.objs, e)
    BY <1>6, StandsIs DEF Stand, Stands
  <2> QED BY <1>5, <2>1, RangeAppend
<1>11. x \in Wanted(prog.name, p)
  <2>1. Follows(prog.name, prog.code, p, r)
    BY <1>8, <1>9, GoesFollows DEF Careful
  <2>2. Unwindable(Stands(r), Wanted(prog.name, p))
    <3>1. r.pc \in Nat
      BY <1>6 DEF Process
    <3> QED BY <1>6, <2>1, <3>1 DEF Follows, Leads
  <2>3. Stands(r).objs = r.objs
    BY <1>6, StandsIs
  <2>4. Holding(Stands(r), x)
    BY <1>10, <2>3 DEF Holding
  <2> QED BY <2>2, <2>4, UnwindableIs DEF Sound
<1>12. p = "main"
  BY <1>11 DEF Wanted
<1>13. ASSUME NEW y \in Things, Holding(g["main"], y)
       PROVE  y \in held \cup {x} \/ (y = "veth" /\ g["first"].mode = "gone")
  <2>1. y = x \/ Holding(o, y)
    BY <1>8, <1>10, <1>12, <1>13 DEF Holding
  <2>2. Established(o)
    BY <1>3 DEF Established
  <2>3. g["first"] = proc["first"]
    BY <1>8, <1>12 DEF Procs
  <2> QED BY <1>12, <2>1, <2>2, <2>3 DEF Careful, Owned, Gone
<1>14. bugs' = {} /\ held \cup {x} \subseteq Wanted(prog.name, "main") /\ (held \ {}) \cup {x} = held \cup {x}
  BY <1>1, <1>11, <1>12 DEF Careful, Owned
<1> QED BY <1>1, <1>8, <1>9, <1>13, <1>14, AllGo

LEMMA NewCareful ==
  ASSUME IInv, Careful, NEW p \in Procs, NewRule(p) \/ NewVeth(p) \/ NewFile(p) \/ NewServer(p)
  PROVE  Careful'
<1>1. /\ Rules \subseteq Things /\ "veth" \in Things /\ "hosts" \in Things
      /\ \A n \in DOMAIN WebServers : WebServers[n] \in Things
  BY DEF Things, Range
<1>2. \A n : Moved(n) = {}
  BY DEF Moved
<1> QED BY <1>1, <1>2, HoldsCareful DEF NewRule, NewVeth, NewFile, NewServer

LEMMA ForkCareful == ASSUME IInv, Careful, NEW p \in Procs, Fork(p) PROVE Careful'
<1> DEFINE s == At(p)
           k == s[2]
           o == proc[p]
           a == Advanced(p)
           e == <<"child", k>>
           r == [a EXCEPT !.objs = Append(@, e)]
           c == [Unborn EXCEPT !.mode = "runs", !.parent = p, !.root = o.root, !.env = o.env]
           g == [proc EXCEPT ![p] = r, ![k] = c]
<1>1. s[1] = "fork" /\ Kernel(g, held) /\ UNCHANGED <<prog, bugs>>
  BY DEF Fork
<1>2. o.mode = "runs" /\ o.pc \in DOMAIN prog.code[p] /\ s = prog.code[p][o.pc] /\ s \in Statement
  BY <1>1, AtStatement
<1>3. s = <<"fork", k>> /\ k \in Procs \ {"main"} /\ s \notin Outliving
  BY <1>1, <1>2, StatementKinds, AfterKinds
<1>4. Allowed(prog.name, s, Stands(o)) /\ After(s, Stands(o)) = With(Stands(o), e)
  BY <1>1, <1>2, NeverRefused, AfterKinds
<1>5. o \in Process /\ Stands(o).root = o.root /\ Stands(o).env = o.env /\ Stands(o).objs = o.objs
  BY StandsIs DEF IInv, Family
<1>6. o.root \in BOOLEAN /\ o.env \in BOOLEAN /\ o.pc \in Nat
  BY <1>5 DEF Process
<1>7. c \in Process /\ c.mode = "runs" /\ c.pc = 1 /\ c.root = o.root /\ c.env = o.env /\ c.objs = <<>>
  BY <1>6, UnbornIsProcess DEF Process
<1>8. a \in Process /\ a.mode = o.mode /\ a.pc = o.pc + 1 /\ a.objs = o.objs /\ a.root = o.root /\ a.env = o.env
  <2>1. a \in Process /\ a = [o EXCEPT !.pc = o.pc + 1]
    BY AdvancedIsProcess
  <2> HIDE DEF a
  <2> QED BY <1>5, <2>1 DEF Process
<1>9. proc[k].mode = "none"
  <2>1. s \in Forks
    BY <1>3 DEF Forks
  <2>2. Ahead(o, o.pc)
    BY <1>2, <1>6 DEF Ahead
  <2> QED BY <1>2, <2>1, <2>2 DEF IInv, Family, NotYet
<1>10. Stands(c) = Begins(prog.name, k)
  <2>1. Begins(prog.name, k) = Stand(o.root, o.env, <<>>)
    BY <1>1, <1>4, <1>5 DEF Allowed
  <2> HIDE DEF c
  <2> QED BY <1>7, <2>1 DEF Stands
<1> HIDE DEF a, c
<1>11. r \in Process /\ r.mode = "runs" /\ r.pc = o.pc + 1 /\ Stands(r) = After(s, Stands(o))
  <2>1. e \in Object
    BY <1>3 DEF Object
  <2>2. r \in Process /\ r.mode = a.mode /\ r.pc = a.pc /\ Stands(r) = Stand(a.root, a.env, Append(o.objs, e))
    BY <1>8, <2>1, AppendStands
  <2> HIDE DEF r, e
  <2> QED BY <1>2, <1>4, <1>5, <1>8, <2>2 DEF With
<1> HIDE DEF r
<1>12. k # p
  BY <1>2, <1>9
<1>13. g \in [Procs -> Process] /\ g[p] = r /\ g[k] = c /\ \A q \in Procs \ {p, k} : g[q] = proc[q]
  BY <1>3, <1>7, <1>11, <1>12 DEF IInv, Family
<1> HIDE DEF g
<1>14. Goes(p, g[p])
  BY <1>1, <1>11, <1>13 DEF Goes
<1>15. Goes(k, g[k])
  BY <1>3, <1>7, <1>9, <1>10, <1>13 DEF Goes
<1>16. \A q \in Procs \ {p, k} : Goes(q, g[q])
  BY <1>13 DEF Goes
<1>17. \A q \in Procs : Goes(q, g[q])
  BY <1>14, <1>15, <1>16
<1>18. At("main") \notin Outliving \/ g["main"] = proc["main"]
  BY <1>3, <1>13 DEF Procs
<1> QED BY <1>1, <1>13, <1>17, <1>18, AllKeep

LEMMA AdoptCareful == ASSUME IInv, Careful, NEW p \in Procs, Adopt(p) PROVE Careful'
<1> DEFINE s == At(p)
           k == s[2]
           o == proc[p]
           a == Advanced(p)
           f == Front(o.objs)
           kids == Append(o.kids, k)
           r == [a EXCEPT !.objs = f, !.kids = kids]
<1>1. /\ s[1] = "adopt" /\ o.objs # <<>> /\ o.objs[Len(o.objs)] = <<"child", k>>
      /\ Becomes(p, [a EXCEPT !.objs = Front(@), !.kids = Append(@, k)])
      /\ UNCHANGED <<prog, bugs>>
  BY DEF Adopt
<1>2. o.mode = "runs" /\ s \in Statement
  BY <1>1, AtStatement
<1>3. k \in Procs /\ s \notin Outliving /\ After(s, Stands(o)) = Under(Stands(o))
  BY <1>1, <1>2, StatementKinds, AfterKinds
<1>4. o \in Process /\ Stands(o).root = o.root /\ Stands(o).env = o.env /\ Stands(o).objs = o.objs
  BY StandsIs DEF IInv, Family
<1>5. o.objs \in Seq(Object) /\ o.kids \in Seq(Procs) /\ o.env \in BOOLEAN
  BY <1>4 DEF Process
<1>6. f \in Seq(Object) /\ kids \in Seq(Procs)
  BY <1>1, <1>3, <1>5, RangeFront, RangeAppend
<1>7. a \in Process /\ a = [o EXCEPT !.pc = o.pc + 1] /\ a.mode = o.mode /\ a.pc = o.pc + 1 /\ a.objs = o.objs
      /\ a.kids = o.kids /\ a.root = o.root /\ a.env = o.env
  <2>1. a \in Process /\ a = [o EXCEPT !.pc = o.pc + 1]
    BY AdvancedIsProcess
  <2> HIDE DEF a
  <2> QED BY <1>4, <2>1 DEF Process
<1> HIDE DEF a
<1>8. [a EXCEPT !.objs = Front(@), !.kids = Append(@, k)] = r
  BY <1>7 DEF Process
<1>9. Under(Stands(o)) = Stand(o.root, o.env, f)
  BY <1>1, <1>4, <1>5 DEF Under
<1> HIDE DEF f, kids, k
<1>10. r \in Process /\ r.mode = a.mode /\ r.pc = a.pc /\ r.root = a.root /\ r.env = a.env /\ r.objs = f
  BY <1>6, <1>7 DEF Process
<1> HIDE DEF r
<1>11. Stands(r) = After(s, Stands(o))
  BY <1>3, <1>7, <1>9, <1>10 DEF Stands
<1> QED BY <1>1, <1>2, <1>3, <1>7, <1>8, <1>10, <1>11, StatementGoes

LEMMA ExecCareful == ASSUME IInv, Careful, NEW p \in Procs, Exec(p) PROVE Careful'
<1> DEFINE r == [Unborn EXCEPT !.mode = "user", !.parent = proc[p].parent, !.doomed = proc[p].doomed]
<1>1. At(p)[1] = "exec" /\ Becomes(p, r) /\ UNCHANGED <<prog, bugs>>
  BY DEF Exec
<1>2. proc[p].mode = "runs" /\ At(p) \in Statement
  BY <1>1, AtStatement
<1>3. At(p) \notin Outliving
  BY <1>1, <1>2, AfterKinds
<1>4. proc[p].parent \in Procs \cup {"none"} /\ proc[p].doomed \in BOOLEAN
  BY DEF IInv, Family, Process
<1>5. r \in Process /\ r.mode = "user"
  BY <1>4, UnbornIsProcess DEF Process
<1> HIDE DEF r
<1>6. Goes(p, r)
  BY <1>2, <1>5 DEF Goes, Lives
<1> QED BY <1>1, <1>3, <1>5, <1>6, OneGoes

LEMMA LoopChildCareful == ASSUME IInv, Careful, NEW p \in Procs, LoopChild(p) PROVE Careful'
<1>1. PICK k \in Range(proc[p].kids) :
        LET known == [proc EXCEPT ![k].reaped = TRUE]
            all == \A c \in Range(proc[p].kids) : known[c].reaped
            after == CASE proc[k].status = "finished" /\ ~all -> proc[p]
                       [] proc[k].status \in {"fails", "killed"} -> Failing(p)
                       [] OTHER -> [Advanced(p) EXCEPT !.status = "ok"]
        IN /\ Found(p, k)
           /\ Kernel([known EXCEPT ![p] = after], held)
           /\ UNCHANGED <<prog, channel, disowned, complained, bugs, signals>>
  BY DEF LoopChild
<1> DEFINE o == proc[p]
           c == [proc[k] EXCEPT !.reaped = TRUE]
           known == [proc EXCEPT ![k] = c]
<1>2. k \in Procs
  <2>1. proc[p].kids \in Seq(Procs)
    BY DEF IInv, Family, Process
  <2> QED BY <2>1 DEF Range
<1>3. o \in Process /\ proc[k] \in Process /\ proc \in [Procs -> Process]
  BY <1>2 DEF IInv, Family
<1>4. c \in Process /\ c.mode = proc[k].mode /\ c.pc = proc[k].pc /\ Stands(c) = Stands(proc[k])
  BY <1>3 DEF Process, Stands
<1>5. [proc EXCEPT ![k].reaped = TRUE] = known
  BY <1>2, <1>3
<1>6. At(p)[1] = "loop" /\ o.mode = "runs" /\ At(p) \in Statement /\ Gone(k) /\ k # p /\ UNCHANGED <<prog, bugs>>
  BY <1>1, AtStatement DEF LoopChild, Looping, Found, Waitable, Gone
<1>7. PICK r \in {o, Failing(p), [Advanced(p) EXCEPT !.status = "ok"]} : Kernel([known EXCEPT ![p] = r], held)
  BY <1>1, <1>5, Zenon
<1>8. r \in Process /\ Goes(p, r)
  <2>1. CASE r = o
    BY <1>3, <2>1 DEF Goes
  <2>2. CASE r = Failing(p)
    <3>1. r = [o EXCEPT !.mode = "leaves", !.pc = 0, !.status = "fails"]
      BY <2>2 DEF Failing, Leaving
    <3>2. r \in Process /\ r.mode = "leaves" /\ Stands(r) = Stands(o)
      BY <1>3, <3>1 DEF Process, Stands
    <3> QED BY <1>6, <3>2 DEF Goes
  <2>3. CASE r = [Advanced(p) EXCEPT !.status = "ok"]
    <3>1. Passing(p, r)
      BY <2>3, AdvancedPasses
    <3>2. Stands(r) = Stands(o)
      BY <2>3, AdvancedStands
    <3>3. After(At(p), Stands(o)) = Stands(o)
      BY <1>6, AfterKinds
    <3> QED BY <1>6, <3>1, <3>2, <3>3 DEF Goes, Passing
  <2> QED BY <1>7, <2>1, <2>2, <2>3
<1> DEFINE g == [known EXCEPT ![p] = r]
<1> HIDE DEF c
<1>9. g \in [Procs -> Process] /\ g[p] = r /\ g[k] = c /\ \A q \in Procs \ {p, k} : g[q] = proc[q]
  BY <1>2, <1>3, <1>4, <1>6, <1>8
<1>10. Kernel(g, held)
  BY <1>7
<1> HIDE DEF g, known
<1>11. \A q \in Procs : Goes(q, g[q])
  <2>1. Goes(k, g[k])
    BY <1>4, <1>9 DEF Goes
  <2>2. \A q \in Procs \ {p, k} : Goes(q, g[q])
    BY <1>9 DEF Goes
  <2> QED BY <1>8, <1>9, <2>1, <2>2
<1>12. At("main") \notin Outliving \/ g["main"] = proc["main"]
  <2>1. "main" \in Procs
    BY DEF Procs
  <2>2. CASE p = "main"
    BY <1>6, <2>2, AfterKinds
  <2>3. CASE k = "main"
    <3>1. At("main") = <<"end">>
      BY <1>6, <2>3 DEF At, Gone
    <3> QED BY <3>1 DEF Outliving
  <2> QED BY <1>9, <2>1, <2>2, <2>3
<1> QED BY <1>6, <1>9, <1>10, <1>11, <1>12, AllKeep

\* The device is given away when first has been forked.
LEMMA FirstWas == ASSUME IInv, NEW p \in Procs, At(p)[1] = "give" PROVE proc["first"].mode # "none"
<1> DEFINE g == [proc EXCEPT ![p] = Advanced(p)]
<1>1. g = [proc EXCEPT ![p] = Advanced(p)]
  OBVIOUS
<1> HIDE DEF g
<1>2. /\ proc["main"].mode = "runs" /\ proc["main"].pc \in DOMAIN prog.code["main"]
      /\ prog.code["main"][proc["main"].pc] \in Gives
  BY <1>1, AboutDevice DEF Gives
<1>3. Orderly(prog.code) /\ proc \in [Procs -> Process]
  BY DEF IInv, Family
<1>4. proc["main"].pc <= proc["main"].pc
  BY <1>3 DEF Process, Procs
<1>5. Past(prog.code, proc, FirstForks)
  BY <1>2, <1>3, <1>4, PastBefore DEF Orderly
<1>6. PICK i \in DOMAIN prog.code["main"] : Behind(proc["main"], i) /\ prog.code["main"][i] \in FirstForks
  BY <1>5 DEF Past
<1>7. "main" \in Procs /\ prog.code["main"][i] \in Forks /\ prog.code["main"][i][2] = "first"
  BY <1>6 DEF Procs, Forks, FirstForks
<1> QED BY <1>6, <1>7 DEF IInv, Family, Already

LEMMA GiveCareful == ASSUME IInv, Careful, NEW p \in Procs, Give(p) PROVE Careful'
<1> DEFINE r == Advanced(p)
           g == [proc EXCEPT ![p] = r]
<1>1. At(p)[1] = "give" /\ inside' = TRUE /\ proc' = g /\ UNCHANGED <<prog, held, bugs>>
  BY DEF Give
<1>2. proc[p].mode = "runs" /\ At(p) \in Statement
  BY <1>1, AtStatement
<1>3. At(p) \notin Outliving /\ After(At(p), Stands(proc[p])) = Stands(proc[p])
  BY <1>1, <1>2, AfterKinds
<1>4. Passing(p, r) /\ Stands(r) = Stands(proc[p])
  BY AdvancedPasses, AdvancedStands
<1> HIDE DEF r
<1>5. g \in [Procs -> Process] /\ g[p] = r /\ \A q \in Procs : q # p => g[q] = proc[q]
  BY <1>4 DEF IInv, Family, Passing
<1> HIDE DEF g
<1>6. \A q \in Procs : Goes(q, g[q])
  BY <1>1, <1>2, <1>3, <1>4, <1>5 DEF Goes, Passing
<1>7. \A q \in Procs : Follows(prog.name, prog.code, q, g[q])
  BY <1>6, GoesFollows DEF Careful
<1>8. "main" \in Procs /\ "first" \in Procs
  BY DEF Procs
<1>9. g["first"].mode # "none"
  <2>1. proc["first"].mode # "none"
    BY <1>1, FirstWas
  <2>2. Goes("first", g["first"])
    BY <1>6, <1>8
  <2> QED BY <2>1, <2>2 DEF Goes
<1>10. Gone("first") => g["first"].mode = "gone"
  BY <1>2, <1>5, <1>8 DEF Gone
<1>11. ASSUME Established(g["main"]), NEW x \in Things, Holding(g["main"], x)
       PROVE  x \in held \/ (x = "veth" /\ g["first"].mode = "gone")
  <2>1. Established(proc["main"]) /\ Holding(proc["main"], x)
    <3>1. CASE p = "main"
      BY <1>3, <1>5, <1>6, <1>8, <1>11, <3>1, NoneAcquired
    <3>2. CASE p # "main"
      BY <1>5, <1>8, <1>11, <3>2
    <3> QED BY <3>1, <3>2
  <2> QED BY <1>10, <2>1 DEF Careful, Owned
<1>12. Owned'
  BY <1>1, <1>9, <1>11 DEF Careful, Owned, Gone
<1> QED BY <1>1, <1>7, <1>12 DEF Careful

\* A block without an effect outside the process ends.
LEMMA PopCareful ==
  ASSUME IInv, Careful, NEW p \in Procs, NEW q \in Process, Pop(p, q), proc[p].objs # <<>>,
         q.objs = proc[p].objs, q.root = proc[p].root, q.env = proc[p].env,
         \/ At(p)[1] = "leave" /\ q.mode = "runs" /\ q.pc = proc[p].pc + 1
         \/ proc[p].mode = "leaves" /\ q.mode = "leaves"
  PROVE  Careful'
<1> DEFINE root == IF Top(p)[1] = "unprivileged" THEN Top(p)[2] ELSE q.root
           env == q.env /\ Top(p)[1] # "borrow"
           f == Front(proc[p].objs)
           r == [q EXCEPT !.root = root, !.env = env, !.objs = f]
<1>1. proc[p] \in Process /\ proc[p].objs \in Seq(Object)
  BY DEF IInv, Family, Process
<1>2. f \in Seq(Object) /\ Top(p) \in Object
  BY <1>1, RangeFront DEF Top
<1>3. root \in BOOLEAN /\ env \in BOOLEAN
  <2>1. Top(p)[1] = "unprivileged" => Top(p)[2] \in BOOLEAN
    BY <1>2 DEF Object
  <2>2. q.root \in BOOLEAN
    BY DEF Process
  <2> QED BY <2>1, <2>2
<1>4. UNCHANGED <<prog, bugs>>
      /\ Becomes(p, [q EXCEPT !.root = IF Top(p)[1] = "unprivileged" THEN Top(p)[2] ELSE @,
                              !.env = @ /\ Top(p)[1] # "borrow",
                              !.objs = Front(@)])
  BY DEF Pop
<1>5. [q EXCEPT !.root = IF Top(p)[1] = "unprivileged" THEN Top(p)[2] ELSE @,
                !.env = @ /\ Top(p)[1] # "borrow",
                !.objs = Front(@)] = r
  BY DEF Process
<1>6. Under(Stands(proc[p])) = Stand(root, env, f)
  <2>1. Stands(proc[p]).root = q.root /\ Stands(proc[p]).env = q.env /\ Stands(proc[p]).objs = proc[p].objs
    BY <1>1, StandsIs
  <2> QED BY <2>1 DEF Under, Top
<1> HIDE DEF root, env, f
<1>7. r \in Process /\ r.mode = q.mode /\ r.pc = q.pc /\ r.objs = f /\ r.root = root /\ r.env = env
  BY <1>2, <1>3 DEF Process
<1>8. Becomes(p, r)
  BY <1>4, <1>5
<1> HIDE DEF r
<1>9. Stands(r) = Under(Stands(proc[p]))
  BY <1>6, <1>7 DEF Stands
<1>10. CASE At(p)[1] = "leave" /\ q.mode = "runs" /\ q.pc = proc[p].pc + 1
  <2>1. At(p) \in Statement
    BY <1>10, AtStatement
  <2>2. At(p) \notin Outliving /\ After(At(p), Stands(proc[p])) = Under(Stands(proc[p]))
    BY <1>10, <2>1, AfterKinds
  <2> QED BY <1>4, <1>7, <1>8, <1>9, <1>10, <2>2, StatementGoes
<1>11. CASE proc[p].mode = "leaves" /\ q.mode = "leaves"
  <2>1. Goes(p, r)
    BY <1>7, <1>9, <1>11 DEF Goes
  <2>2. At(p) \notin Outliving
    BY <1>11 DEF At, Outliving
  <2> QED BY <1>4, <1>7, <1>8, <2>1, <2>2, OneGoes
<1> QED BY <1>10, <1>11

LEMMA BlocksCareful == ASSUME IInv, Careful, NEW p \in Procs, Leave(p) \/ UnwindLocal(p) PROVE Careful'
<1>1. proc[p] \in Process
  BY DEF IInv, Family
<1>2. CASE Leave(p)
  <2> DEFINE a == Advanced(p)
  <2>1. proc[p].mode = "runs" /\ At(p)[1] = "leave" /\ proc[p].objs # <<>> /\ Pop(p, a)
    BY <1>2, AtStatement DEF Leave
  <2>2. a \in Process /\ a = [proc[p] EXCEPT !.pc = proc[p].pc + 1]
    BY AdvancedIsProcess
  <2> HIDE DEF a
  <2>3. /\ a.mode = "runs" /\ a.pc = proc[p].pc + 1
        /\ a.objs = proc[p].objs /\ a.root = proc[p].root /\ a.env = proc[p].env
    BY <1>1, <2>1, <2>2 DEF Process
  <2> QED BY <2>1, <2>2, <2>3, PopCareful
<1>3. CASE UnwindLocal(p)
  <2>1. Pop(p, proc[p]) /\ proc[p].mode = "leaves" /\ proc[p].objs # <<>>
    BY <1>3 DEF UnwindLocal, Unwinding
  <2> QED BY <1>1, <2>1, PopCareful
<1> QED BY <1>2, <1>3

\* p gets no further object, nor a further life.
LEMMA StaysCareful ==
  ASSUME IInv, Careful, NEW p \in Procs, NEW r \in Process, Becomes(p, r), Goes(p, r), UNCHANGED <<prog, bugs>>,
         Established(r) => Established(proc[p]), Range(r.objs) \subseteq Range(proc[p].objs)
  PROVE  Careful'
<1> DEFINE g == [proc EXCEPT ![p] = r]
<1>1. g \in [Procs -> Process] /\ g[p] = r /\ \A q \in Procs : q # p => g[q] = proc[q]
  BY DEF IInv, Family
<1>2. Kernel(g, held)
  BY DEF Becomes
<1> HIDE DEF g
<1>3. \A q \in Procs : Goes(q, g[q])
  BY <1>1 DEF Goes
<1>4. "main" \in Procs /\ "first" \in Procs /\ bugs' = {} /\ held \subseteq Wanted(prog.name, "main")
  BY DEF Procs, Careful, Owned
<1>5. Gone("first") => g["first"].mode = "gone"
  <2>1. ASSUME Gone("first"), At("first")[1] # "end" PROVE FALSE
    BY <1>4, <2>1, AtStatement DEF Gone
  <2>2. Goes("first", g["first"])
    BY <1>3, <1>4
  <2> QED BY <2>1, <2>2 DEF Goes, Gone, Lives
<1>6. ASSUME Established(g["main"]), NEW x \in Things, Holding(g["main"], x)
      PROVE  x \in held \/ (x = "veth" /\ g["first"].mode = "gone")
  <2>1. Established(proc["main"]) /\ Holding(proc["main"], x)
    BY <1>1, <1>4, <1>6 DEF Holding
  <2> QED BY <1>5, <2>1 DEF Careful, Owned
<1> QED BY <1>1, <1>2, <1>3, <1>4, <1>6, AllGo

LEMMA LeavingCareful == ASSUME IInv, Careful, NEW p \in Procs, Throws(p) \/ Returns(p) PROVE Careful'
<1> DEFINE o == proc[p]
<1>1. ASSUME NEW status \in {"none", "ok", "fails", "finished", "killed"}, o.mode = "runs",
             Becomes(p, Leaving(p, status)), UNCHANGED <<prog, bugs>>
      PROVE  Careful'
  <2> DEFINE r == Leaving(p, status)
  <2>1. o \in Process
    BY DEF IInv, Family
  <2>2. r = [o EXCEPT !.mode = "leaves", !.pc = 0, !.status = status]
    BY DEF Leaving
  <2> HIDE DEF r
  <2>3. r \in Process /\ r.mode = "leaves" /\ Stands(r) = Stands(o) /\ r.objs = o.objs
    BY <2>1, <2>2 DEF Process, Stands
  <2>4. Becomes(p, r)
    BY <1>1 DEF r
  <2>5. Goes(p, r) /\ Established(o)
    BY <1>1, <2>3 DEF Goes, Established
  <2> QED BY <1>1, <2>3, <2>4, <2>5, StaysCareful
<1>2. CASE Throws(p)
  <2>1. At(p)[1] # "end" /\ Becomes(p, Leaving(p, "fails")) /\ UNCHANGED prog
    BY <1>2 DEF Throws, Failing
  <2>2. o.mode = "runs" /\ ~Refused(p, At(p))
    BY <2>1, AtStatement, NeverRefused
  <2>3. UNCHANGED bugs
    BY <1>2, <2>2 DEF Throws
  <2> QED BY <1>1, <2>1, <2>2, <2>3
<1>3. CASE Returns(p)
  <2>1. o.mode = "runs" /\ o.status \in {"none", "ok", "fails", "finished", "killed"}
    BY <1>3 DEF Returns, IInv, Family, Process
  <2> QED BY <1>1, <1>3, <2>1 DEF Returns
<1> QED BY <1>2, <1>3

LEMMA EndsCareful == ASSUME IInv, Careful, NEW p \in Procs, Exits(p) \/ UserEnds(p) PROVE Careful'
<1>1. ASSUME NEW status \in {"none", "ok", "fails", "finished", "killed"}, Becomes(p, Ended(proc[p], status)),
             UNCHANGED <<prog, bugs>>, proc[p].mode \in {"user", "leaves"}
      PROVE  Careful'
  <2> DEFINE r == Ended(proc[p], status)
  <2>1. proc[p] \in Process
    BY DEF IInv, Family
  <2>2. r \in Process /\ r.mode = "gone" /\ r.objs = <<>>
    BY <2>1, EndedIsProcess
  <2>3. Becomes(p, r)
    BY <1>1
  <2> HIDE DEF r
  <2>4. Goes(p, r) /\ ~Established(r) /\ Range(r.objs) = {}
    BY <1>1, <2>2 DEF Goes, Lives, Established, Range
  <2> QED BY <1>1, <2>2, <2>3, <2>4, StaysCareful
<1>2. CASE Exits(p)
  <2>1. proc[p].status \in {"none", "ok", "fails", "finished", "killed"}
    BY DEF IInv, Family, Process
  <2> QED BY <1>1, <1>2, <2>1 DEF Exits
<1>3. CASE UserEnds(p)
  BY <1>1, <1>3 DEF UserEnds
<1> QED BY <1>2, <1>3

\* Who gets a signal goes on as it was, or is gone.
LEMMA SignalledCareful ==
  ASSUME IInv, Careful, NEW p \in Procs, NEW o \in Process, NEW sig \in {"HUP", "TERM"},
         o.mode = proc[p].mode, o.pc = proc[p].pc, o.root = proc[p].root, o.env = proc[p].env, o.objs = proc[p].objs,
         Becomes(p, Signalled(o, sig)), UNCHANGED <<prog, bugs>>
  PROVE  Careful'
<1> DEFINE r == Signalled(o, sig)
<1>1. Becomes(p, r)
  OBVIOUS
<1>2. ASSUME r \in Process, r.mode = o.mode, r.pc = o.pc, r.root = o.root, r.env = o.env, r.objs = o.objs
      PROVE  Careful'
  <2> HIDE DEF r
  <2>1. Stands(r) = Stands(proc[p])
    BY <1>2 DEF Stands
  <2>2. Goes(p, r)
    BY <1>2, <2>1 DEF Goes
  <2>3. Established(r) => Established(proc[p])
    BY <1>2 DEF Established, Sheltering
  <2> QED BY <1>1, <1>2, <2>2, <2>3, StaysCareful
<1>3. CASE o.mode = "user" \/ o.masked
  <2>1. r = [o EXCEPT !.pending = @ \cup {sig}]
    BY <1>3 DEF Signalled
  <2>2. [o EXCEPT !.pending = @ \cup {sig}] = [o EXCEPT !.pending = o.pending \cup {sig}]
    BY DEF Process
  <2> DEFINE P == o.pending \cup {sig}
  <2>3. P \in SUBSET {"HUP", "TERM"}
    BY DEF Process
  <2>4. r = [o EXCEPT !.pending = P]
    BY <2>1, <2>2
  <2> HIDE DEF P, r
  <2>5. r \in Process /\ r.mode = o.mode /\ r.pc = o.pc /\ r.root = o.root /\ r.env = o.env /\ r.objs = o.objs
    BY <2>3, <2>4 DEF Process
  <2> QED BY <1>2, <2>5
<1>4. CASE ~(o.mode = "user" \/ o.masked) /\ o.mode \in {"runs", "leaves"}
  <2>1. r = Ended(o, "killed")
    BY <1>4 DEF Signalled
  <2>2. r \in Process /\ r.mode = "gone" /\ r.objs = <<>>
    BY <2>1, EndedIsProcess
  <2> HIDE DEF r
  <2>3. Goes(p, r) /\ ~Established(r) /\ Range(r.objs) = {}
    BY <1>4, <2>2 DEF Goes, Lives, Established, Range
  <2> QED BY <1>1, <2>2, <2>3, StaysCareful
<1>5. CASE ~(o.mode = "user" \/ o.masked) /\ o.mode \notin {"runs", "leaves"}
  <2>1. r = o
    BY <1>5 DEF Signalled
  <2> QED BY <1>2, <2>1
<1> QED BY <1>3, <1>4, <1>5

LEMMA InterruptCareful == ASSUME IInv, Careful, NEW p \in Procs, Interrupt(p) PROVE Careful'
<1>1. Becomes(p, Signalled(proc[p], "TERM")) /\ UNCHANGED <<prog, bugs>>
  BY DEF Interrupt
<1>2. proc[p] \in Process
  BY DEF IInv, Family
<1> QED BY <1>1, <1>2, SignalledCareful

\* The last object is destroyed that is neither of the blocks.
LEMMA PoppedStands ==
  ASSUME IInv, NEW p \in Procs, proc[p].objs # <<>>, Top(p)[1] \notin {"unprivileged", "borrow"}
  PROVE  /\ Popped(p) \in Process /\ Popped(p).mode = proc[p].mode
         /\ Stands(Popped(p)) = Under(Stands(proc[p])) /\ Popped(p).objs = Front(proc[p].objs)
         /\ Range(Popped(p).objs) \subseteq Range(proc[p].objs)
<1> DEFINE o == proc[p]
           f == Front(o.objs)
           r == [o EXCEPT !.objs = f]
<1>1. o \in Process /\ o.objs \in Seq(Object) /\ o.env \in BOOLEAN
  BY DEF IInv, Family, Process
<1>2. f \in Seq(Object) /\ Range(f) \subseteq Range(o.objs)
  BY <1>1, RangeFront
<1>3. Popped(p) = r
  BY <1>1 DEF Popped, Process
<1>4. Under(Stands(o)) = Stand(o.root, o.env, f)
  <2>1. Stands(o).root = o.root /\ Stands(o).env = o.env /\ Stands(o).objs = o.objs
    BY <1>1, StandsIs
  <2> QED BY <1>1, <2>1 DEF Under, Top
<1> HIDE DEF f
<1>5. r \in Process /\ r.mode = o.mode /\ r.root = o.root /\ r.env = o.env /\ r.objs = f
  BY <1>1, <1>2 DEF Process
<1> HIDE DEF r
<1>6. Stands(r) = Under(Stands(o))
  BY <1>4, <1>5 DEF Stands
<1> QED BY <1>2, <1>3, <1>5, <1>6 DEF f

LEMMA PoppedCareful ==
  ASSUME IInv, Careful, NEW p \in Procs, proc[p].mode = "leaves", proc[p].objs # <<>>,
         Top(p)[1] \notin {"unprivileged", "borrow"}, Becomes(p, Popped(p)), UNCHANGED <<prog, bugs>>
  PROVE  Careful'
<1>1. /\ Popped(p) \in Process /\ Popped(p).mode = "leaves"
      /\ Stands(Popped(p)) = Under(Stands(proc[p])) /\ Range(Popped(p).objs) \subseteq Range(proc[p].objs)
  BY PoppedStands
<1>2. Goes(p, Popped(p))
  BY <1>1 DEF Goes
<1>3. Established(Popped(p)) => Established(proc[p])
  BY <1>1 DEF Established, Sheltering
<1> QED BY <1>1, <1>2, <1>3, StaysCareful

LEMMA EndOfChildCareful ==
  ASSUME IInv, Careful, NEW p \in Procs, NEW k \in Procs, NEW r \in Process, EndOfChild(p, k, r),
         proc[p].mode = "leaves", r.mode = "leaves", Range(r.objs) \subseteq Range(proc[p].objs),
         Stands(r) = Stands(proc[p]) \/ (proc[p].objs # <<>> /\ Stands(r) = Under(Stands(proc[p])))
  PROVE  Careful'
<1>1. CASE Gone(k)
  <2>1. Becomes(p, r) /\ UNCHANGED <<prog, bugs>>
    BY <1>1 DEF EndOfChild
  <2>2. Goes(p, r)
    BY DEF Goes
  <2>3. Established(r) => Established(proc[p])
    BY DEF Established, Sheltering
  <2> QED BY <2>1, <2>2, <2>3, StaysCareful
<1>2. CASE ~Gone(k)
  <2> DEFINE o == [proc[k] EXCEPT !.doomed = TRUE]
             c == Signalled(o, TerminationSignal(k))
  <2>1. proc \in [Procs -> Process] /\ proc[k] \in Process
    BY DEF IInv, Family
  <2>2. o \in Process /\ o.mode = proc[k].mode /\ o.pc = proc[k].pc /\ o.root = proc[k].root
        /\ o.env = proc[k].env /\ o.objs = proc[k].objs
    BY <2>1 DEF Process
  <2>3. [proc EXCEPT ![k] = Signalled([@ EXCEPT !.doomed = TRUE], TerminationSignal(k))]
          = [proc EXCEPT ![k] = c]
    BY <2>1
  <2>4. Becomes(k, c) /\ UNCHANGED <<prog, bugs>>
    BY <1>2, <2>3 DEF EndOfChild, Becomes
  <2>5. TerminationSignal(k) \in {"HUP", "TERM"}
    BY DEF TerminationSignal
  <2> HIDE DEF o
  <2> QED BY <2>2, <2>4, <2>5, SignalledCareful
<1> QED BY <1>1, <1>2

LEMMA UnwindCareful == ASSUME IInv, Careful, NEW p \in Procs, UnwindChild(p) \/ UnwindLoop(p) PROVE Careful'
<1>1. proc[p] \in Process /\ proc[p].objs \in Seq(Object) /\ proc[p].kids \in Seq(Procs)
  BY DEF IInv, Family, Process
<1>2. CASE UnwindChild(p)
  <2>1. proc[p].mode = "leaves" /\ proc[p].objs # <<>> /\ Top(p)[1] = "child" /\ EndOfChild(p, Top(p)[2], Popped(p))
    BY <1>2 DEF UnwindChild, Unwinding
  <2>2. Top(p)[2] \in Procs
    <3>1. Top(p) \in Object
      BY <1>1, <2>1, RangeFront DEF Top
    <3> QED BY <2>1, <3>1 DEF Object
  <2>3. /\ Popped(p) \in Process /\ Popped(p).mode = "leaves"
        /\ Stands(Popped(p)) = Under(Stands(proc[p])) /\ Range(Popped(p).objs) \subseteq Range(proc[p].objs)
    BY <2>1, PoppedStands
  <2> QED BY <2>1, <2>2, <2>3, EndOfChildCareful
<1>3. CASE UnwindLoop(p) /\ proc[p].kids # <<>>
  <2> DEFINE k == Head(proc[p].kids)
             t == Tail(proc[p].kids)
             r == [proc[p] EXCEPT !.kids = t]
  <2>1. proc[p].mode = "leaves" /\ EndOfChild(p, k, [proc[p] EXCEPT !.kids = Tail(@)])
    BY <1>3 DEF UnwindLoop, Unwinding
  <2>2. t \in Seq(Procs) /\ k \in Procs
    BY <1>1, <1>3, RangeTail
  <2>3. [proc[p] EXCEPT !.kids = Tail(@)] = r
    BY <1>1 DEF Process
  <2> HIDE DEF t, k
  <2>4. r \in Process /\ r.mode = "leaves" /\ r.objs = proc[p].objs /\ r.root = proc[p].root /\ r.env = proc[p].env
    BY <1>1, <2>1, <2>2 DEF Process
  <2> HIDE DEF r
  <2>5. Stands(r) = Stands(proc[p])
    BY <2>4 DEF Stands
  <2> QED BY <2>1, <2>2, <2>3, <2>4, <2>5, EndOfChildCareful
<1>4. CASE UnwindLoop(p) /\ ~(proc[p].kids # <<>>)
  <2>1. /\ proc[p].mode = "leaves" /\ proc[p].objs # <<>> /\ Top(p)[1] = "event_loop"
        /\ Becomes(p, Popped(p)) /\ UNCHANGED <<prog, bugs>>
    BY <1>4 DEF UnwindLoop, Unwinding
  <2> QED BY <2>1, PoppedCareful
<1> QED BY <1>2, <1>3, <1>4

\* Who destroys an object for x is main, can run the command, and has no children in an object.
LEMMA AbleToTakeDown ==
  ASSUME IInv, Careful, NEW p \in Procs, Unwinding(p, "held")
  PROVE  p = "main" /\ ~CannotRun(p) /\ ~Sheltering(proc[p])
<1> DEFINE o == proc[p]
           c == Stands(o)
           e == o.objs[Len(o.objs)]
           W == Wanted(prog.name, p)
<1>1. o.mode = "leaves" /\ o.objs # <<>> /\ e[1] = "held"
  BY DEF Unwinding, Top
<1>2. o \in Process /\ c.root = o.root /\ c.env = o.env /\ c.objs = o.objs
  BY StandsIs DEF IInv, Family
<1>3. Sound(c, W)
  <2>1. Unwindable(c, W)
    BY <1>1 DEF Careful, Follows
  <2> QED BY <2>1, UnwindableIs
<1>4. e \in Object /\ e \in Range(o.objs)
  BY <1>1, <1>2, RangeFront DEF Process
<1>5. PICK x \in Things : e = <<"held", x>>
  BY <1>1, <1>4 DEF Object
<1>6. x \in W
  BY <1>2, <1>3, <1>4, <1>5 DEF Sound, Holding
<1>7. c.root /\ ~c.env /\ ~Threading(c) /\ ~Sheltering(c)
  BY <1>1, <1>2, <1>3 DEF Sound
<1>8. ~Threaded(p) /\ ~Sheltering(o)
  BY <1>2, <1>7 DEF Threaded, Threading, Sheltering, Range
<1> QED BY <1>2, <1>6, <1>7, <1>8 DEF Wanted, CannotRun

LEMMA TakeDownCareful ==
  ASSUME IInv, Careful, NEW p \in Procs, NEW x, NEW unable \in {FALSE, CannotRun(p)}, TakeDown(p, x, unable)
  PROVE  Careful'
<1> DEFINE r == Popped(p)
           g == [proc EXCEPT ![p] = r]
<1>1. Unwinding(p, "held") /\ UNCHANGED prog
  BY DEF TakeDown
<1>2. p = "main" /\ ~CannotRun(p) /\ ~Sheltering(proc[p])
  BY <1>1, AbleToTakeDown
<1>3. bugs' = {}
  BY <1>2 DEF TakeDown, Careful
<1>4. PICK h \in SUBSET held : Kernel(g, h)
  <2>1. PICK done \in BOOLEAN : Kernel(g, IF done THEN held \ {x} ELSE held)
    BY DEF TakeDown
  <2>2. (IF done THEN held \ {x} ELSE held) \in SUBSET held
    OBVIOUS
  <2> QED BY <2>1, <2>2
<1>5. proc[p].mode = "leaves" /\ proc[p].objs # <<>> /\ Top(p)[1] = "held"
  BY <1>1 DEF Unwinding
<1>6. /\ r \in Process /\ r.mode = "leaves" /\ Stands(r) = Under(Stands(proc[p]))
      /\ Range(r.objs) \subseteq Range(proc[p].objs)
  BY <1>5, PoppedStands
<1> HIDE DEF r
<1>7. g \in [Procs -> Process] /\ g[p] = r /\ \A q \in Procs : q # p => g[q] = proc[q]
  BY <1>6 DEF IInv, Family
<1> HIDE DEF g
<1>8. \A q \in Procs : Goes(q, g[q])
  BY <1>5, <1>6, <1>7 DEF Goes
<1>9. ~Established(g["main"])
  BY <1>2, <1>6, <1>7 DEF Established, Sheltering
<1>10. h \subseteq Wanted(prog.name, "main")
  BY <1>4 DEF Careful, Owned
<1> QED BY <1>1, <1>3, <1>4, <1>7, <1>8, <1>9, <1>10, AllGo

LEMMA EndsOfHeldCareful ==
  ASSUME IInv, Careful, NEW p \in Procs, EndOfRule(p) \/ EndOfVeth(p) \/ EndOfServer(p) \/ EndOfFile(p)
  PROVE  Careful'
<1>1. CASE EndOfRule(p)
  BY <1>1, TakeDownCareful DEF EndOfRule
<1>2. CASE EndOfServer(p)
  BY <1>2, TakeDownCareful DEF EndOfServer
<1>3. CASE EndOfFile(p)
  BY <1>3, TakeDownCareful DEF EndOfFile
<1>4. CASE EndOfVeth(p)
  <2>1. CASE TakeDown(p, "veth", CannotRun(p))
    BY <2>1, TakeDownCareful
  <2>2. CASE Unwinding(p, "held") /\ Becomes(p, Popped(p)) /\ UNCHANGED <<prog, bugs>>
    BY <2>2, PoppedCareful DEF Unwinding
  <2> QED BY <1>4, <2>1, <2>2 DEF EndOfVeth
<1> QED BY <1>1, <1>2, <1>3, <1>4

-----------------------------------------------------------------------------
LEMMA StepCareful == ASSUME IInv, Careful, NEW p \in Procs, Step(p) PROVE Careful'
BY PassesCareful, LocalCareful, NewCareful, ForkCareful, AdoptCareful, GiveCareful, ExecCareful, LoopChildCareful,
   BlocksCareful, LeavingCareful, UnwindCareful, EndsOfHeldCareful, EndsCareful, Zenon DEF Step

\* Every step keeps Careful.
LEMMA NextCareful == IInv /\ Careful /\ [Next]_vars => Careful'
<1> SUFFICES ASSUME IInv, Careful, [Next]_vars PROVE Careful'
  OBVIOUS
<1>1. ASSUME NEW p \in Procs, Step(p) PROVE Careful'
  BY <1>1, StepCareful
<1>2. ASSUME NEW p \in Procs, LoopFinishes(p) \/ Throws(p) \/ UserEnds(p) \/ Interrupt(p) PROVE Careful'
  BY <1>2, PassesCareful, LeavingCareful, EndsCareful, InterruptCareful, Zenon
<1>3. CASE UNCHANGED vars
  BY <1>3 DEF vars, kernel, Careful, Owned, Gone
<1> QED BY <1>1, <1>2, <1>3 DEF Next

(***************************************************************************)
(* The scripts: what a process stands on from its first statement to its   *)
(* last.                                                                   *)
(***************************************************************************)
\* A process of n with the script s goes from c to d.
Way(n, W, s, c, d) ==
  s \in Seq(Statement) /\ \E l : Leads(l, s, n, W) /\ l[1] = c /\ l[Len(s) + 1] = d

LEMMA WayJoin ==
  ASSUME NEW n, NEW W, NEW s, NEW t, NEW c, NEW d, NEW e, Way(n, W, s, c, d), Way(n, W, t, d, e)
  PROVE  Way(n, W, s \o t, c, e)
<1> DEFINE u == s \o t
           a == Len(s)
           b == Len(t)
<1>1. s \in Seq(Statement) /\ t \in Seq(Statement)
  BY DEF Way
<1>2. /\ a \in Nat /\ b \in Nat /\ DOMAIN s = 1 .. a /\ DOMAIN t = 1 .. b
      /\ u \in Seq(Statement) /\ DOMAIN u = 1 .. a + b /\ Len(u) = a + b
  BY <1>1
<1>3. \A i \in 1 .. a + b : u[i] = IF i <= a THEN s[i] ELSE t[i - a]
  BY <1>1
<1>4. PICK l1 : Leads(l1, s, n, W) /\ l1[1] = c /\ l1[a + 1] = d
  BY DEF Way
<1>5. PICK l2 : Leads(l2, t, n, W) /\ l2[1] = d /\ l2[b + 1] = e
  BY DEF Way
<1> HIDE DEF u, a, b
<1> DEFINE l == [i \in Nat |-> IF i <= a THEN l1[i] ELSE l2[i - a]]
<1>6. ASSUME NEW i \in Nat, i > a PROVE i - a \in Nat
  BY <1>2, <1>6
<1>7. l \in [Nat -> Standing] /\ \A i \in Nat : Unwindable(l[i], W)
  <2>1. ASSUME NEW i \in Nat PROVE l[i] \in Standing /\ Unwindable(l[i], W)
    <3>1. CASE i <= a
      <4>1. l[i] = l1[i]
        BY <3>1
      <4> HIDE DEF l
      <4> QED BY <1>4, <4>1 DEF Leads
    <3>2. CASE i > a
      <4>1. l[i] = l2[i - a] /\ i - a \in Nat
        BY <1>2, <1>6, <3>2
      <4> HIDE DEF l
      <4> QED BY <1>5, <4>1 DEF Leads
    <3> QED BY <1>2, <3>1, <3>2
  <2> QED BY <2>1
<1>8. l[a + 1] = l2[1]
  BY <1>2
<1>9. l[1] = c
  <2>1. CASE a = 0
    BY <1>4, <1>5, <1>8, <2>1
  <2>2. CASE a > 0
    BY <1>2, <1>4, <2>2
  <2> QED BY <1>2, <2>1, <2>2
<1>10. l[a + b + 1] = e
  <2>1. a + b + 1 \in Nat /\ ~(a + b + 1 <= a) /\ (a + b + 1) - a = b + 1
    BY <1>2
  <2> QED BY <1>5, <2>1
<1>11. ASSUME NEW i \in 1 .. a + b PROVE Allowed(n, u[i], l[i]) /\ l[i + 1] = After(u[i], l[i])
  <2>1. CASE i < a
    <3>1. i \in 1 .. a /\ i \in Nat /\ i + 1 \in Nat /\ i <= a /\ i + 1 <= a
      BY <1>2, <2>1
    <3>2. u[i] = s[i] /\ l[i] = l1[i] /\ l[i + 1] = l1[i + 1]
      BY <1>3, <3>1
    <3> QED BY <1>2, <1>4, <3>1, <3>2 DEF Leads
  <2>2. CASE i = a
    <3>1. i \in 1 .. a /\ i \in Nat /\ i <= a
      BY <1>2, <2>2
    <3>2. u[i] = s[i] /\ l[i] = l1[i] /\ l[i + 1] = l1[i + 1]
      BY <1>3, <1>4, <1>5, <1>8, <2>2, <3>1
    <3> QED BY <1>2, <1>4, <3>1, <3>2 DEF Leads
  <2>3. CASE i > a
    <3> DEFINE j == i - a
    <3>1. j \in 1 .. b /\ i \in Nat /\ i + 1 \in Nat /\ ~(i <= a) /\ ~(i + 1 <= a) /\ (i + 1) - a = j + 1
      BY <1>2, <2>3
    <3>2. u[i] = t[j] /\ l[i] = l2[j] /\ l[i + 1] = l2[j + 1]
      BY <1>3, <3>1
    <3> HIDE DEF j, l
    <3> QED BY <1>2, <1>5, <3>1, <3>2 DEF Leads
  <2> QED BY <1>2, <2>1, <2>2, <2>3
<1> HIDE DEF l
<1>12. Leads(l, u, n, W)
  BY <1>2, <1>7, <1>11 DEF Leads
<1>13. Way(n, W, u, c, e)
  BY <1>2, <1>9, <1>10, <1>12 DEF Way
<1> QED BY <1>13 DEF u

\* The way through a script t that is written out, by the sequence m of what is stood on.
LEMMA WayAlong ==
  ASSUME NEW n, NEW W, NEW t \in Seq(Statement), NEW m \in Seq(Standing), Len(m) = Len(t) + 1,
         \A i \in 1 .. Len(m) : Unwindable(m[i], W),
         \A i \in 1 .. Len(t) : Allowed(n, t[i], m[i]) /\ m[i + 1] = After(t[i], m[i])
  PROVE  Way(n, W, t, m[1], m[Len(m)])
<1> DEFINE k == Len(m)
           l == [i \in Nat |-> IF i \in 1 .. k THEN m[i] ELSE m[1]]
<1>1. k \in Nat /\ Len(t) \in Nat /\ DOMAIN t = 1 .. Len(t) /\ k = Len(t) + 1 /\ \A i \in 1 .. k : m[i] \in Standing
  OBVIOUS
<1>2. 1 \in 1 .. k /\ k \in 1 .. k /\ \A i \in 1 .. Len(t) : i \in 1 .. k /\ i + 1 \in 1 .. k
  BY <1>1
<1>3. \A i \in 1 .. k : i \in Nat /\ l[i] = m[i]
  OBVIOUS
<1>4. l \in [Nat -> Standing] /\ \A i \in Nat : Unwindable(l[i], W)
  BY <1>1, <1>2
<1> HIDE DEF l, k
<1>5. Leads(l, t, n, W)
  BY <1>1, <1>2, <1>3, <1>4 DEF Leads
<1>6. Len(m) = k
  BY DEF k
<1> QED BY <1>1, <1>2, <1>3, <1>5, <1>6 DEF Way

-----------------------------------------------------------------------------
\* A further object, but one of the blocks without privileges or with an environment.
LEMMA WithIs ==
  ASSUME NEW c \in Standing, NEW e \in Object, e[1] \notin {"unprivileged", "borrow"}
  PROVE  /\ With(c, e) \in Standing /\ With(c, e).root = c.root /\ With(c, e).env = c.env
         /\ With(c, e).objs # <<>> /\ Under(With(c, e)) = c
         /\ With(c, e).objs[Len(With(c, e).objs)] = e
         /\ \A x : Holding(With(c, e), x) <=> Holding(c, x) \/ e = <<"held", x>>
         /\ Threading(With(c, e)) <=> Threading(c) \/ e = <<"threads">>
         /\ Sheltering(With(c, e)) <=> Sheltering(c) \/ e \in Shelters
<1> DEFINE a == Append(c.objs, e)
           d == With(c, e)
<1>1. c.root \in BOOLEAN /\ c.env \in BOOLEAN /\ c.objs \in Seq(Object) /\ c = Stand(c.root, c.env, c.objs)
  BY StandingIs
<1>2. a \in Seq(Object) /\ a # <<>> /\ Front(a) = c.objs /\ a[Len(a)] = e /\ Range(a) = Range(c.objs) \cup {e}
  BY <1>1, PushObject
<1> HIDE DEF a
<1>3. d = Stand(c.root, c.env, a)
  BY DEF With, a
<1> HIDE DEF d
<1>4. d \in Standing /\ d.root = c.root /\ d.env = c.env /\ d.objs = a
  BY <1>1, <1>2, <1>3, StandIs
<1>5. Under(d) = c
  BY <1>1, <1>2, <1>4 DEF Under
<1>6. /\ \A x : Holding(d, x) <=> Holding(c, x) \/ e = <<"held", x>>
      /\ Threading(d) <=> Threading(c) \/ e = <<"threads">>
      /\ Sheltering(d) <=> Sheltering(c) \/ e \in Shelters
  BY <1>2, <1>4 DEF Holding, Threading, Sheltering
<1> QED BY <1>2, <1>4, <1>5, <1>6 DEF d

\* Such a block.
LEMMA BlockIs ==
  ASSUME NEW c \in Standing, NEW x \in {"unprivileged", "borrow"}, x = "borrow" => ~c.env
  PROVE  LET d == Made(x, c) IN
         /\ d \in Standing /\ d.objs # <<>> /\ Under(d) = c /\ d.objs[Len(d.objs)][1] = x
         /\ x = "unprivileged" => ~d.root /\ d.env = c.env
         /\ \A y : Holding(d, y) <=> Holding(c, y)
         /\ (Threading(d) <=> Threading(c)) /\ (Sheltering(d) <=> Sheltering(c))
<1> DEFINE e == IF x = "borrow" THEN <<"borrow">> ELSE <<"unprivileged", c.root>>
           root == x = "borrow" /\ c.root
           env == x = "borrow" \/ c.env
           a == Append(c.objs, e)
           d == Made(x, c)
<1>1. c.root \in BOOLEAN /\ c.env \in BOOLEAN /\ c.objs \in Seq(Object) /\ c = Stand(c.root, c.env, c.objs)
  BY StandingIs
<1>2. e \in Object /\ e \notin Shelters /\ e # <<"threads">> /\ e[1] = x /\ \A y : e # <<"held", y>>
  BY <1>1 DEF Object, Shelters
<1>3. a \in Seq(Object) /\ a # <<>> /\ Front(a) = c.objs /\ a[Len(a)] = e /\ Range(a) = Range(c.objs) \cup {e}
  BY <1>1, <1>2, PushObject
<1>4. d = Stand(root, env, a)
  <2>1. CASE x = "borrow"
    BY <1>1, <2>1, MadeKinds
  <2>2. CASE x = "unprivileged"
    BY <1>1, <2>2, MadeKinds
  <2> QED BY <2>1, <2>2
<1>5. (x = "unprivileged" => e[2] = c.root) /\ root \in BOOLEAN /\ env \in BOOLEAN
      /\ (x = "unprivileged" => ~root /\ env = c.env) /\ (x = "borrow" => root = c.root)
      /\ (env /\ x # "borrow") = c.env
  BY <1>1
<1> HIDE DEF a, d, e, root, env
<1>6. d \in Standing /\ d.root = root /\ d.env = env /\ d.objs = a
  BY <1>3, <1>4, <1>5, StandIs
<1>7. Under(d) = c
  BY <1>1, <1>2, <1>3, <1>5, <1>6 DEF Under
<1>8. (\A y : Holding(d, y) <=> Holding(c, y)) /\ (Threading(d) <=> Threading(c)) /\ (Sheltering(d) <=> Sheltering(c))
  BY <1>2, <1>3, <1>6 DEF Holding, Threading, Sheltering
<1> QED BY <1>2, <1>3, <1>5, <1>6, <1>7, <1>8 DEF d

\* The statement s takes a process of n from c to d.
Takes(n, s, c, d) == Allowed(n, s, c) /\ d = After(s, c)

LEMMA TakesPlain ==
  ASSUME NEW n, NEW s \in Statement, NEW c \in Standing
  PROVE  /\ s[1] \in {"try", "send", "receive", "disown", "loop"} => Takes(n, s, c, c)
         /\ s[1] = "clear" => Takes(n, s, c, Stand(c.root, FALSE, c.objs))
         /\ s[1] = "restore" => Takes(n, s, c, Stand(c.root, TRUE, c.objs))
         /\ s[1] = "drop" => Takes(n, s, c, Stand(FALSE, c.env, c.objs))
         /\ s[1] = "event_loop" => Takes(n, s, c, With(c, <<"event_loop">>))
         /\ s[1] = "leave" => Takes(n, s, c, Under(c))
<1>1. ASSUME s[1] \in {"try", "send", "receive", "disown", "loop", "clear", "restore", "drop", "event_loop", "leave"}
      PROVE  Allowed(n, s, c)
  <2>1. s # <<"object", "borrow">> /\ s # <<"object", "threads">> /\ ~RunsCommand(s)
    BY <1>1 DEF RunsCommand
  <2> QED BY <1>1, <2>1 DEF Allowed
<1> QED BY <1>1, AfterKinds DEF Takes

LEMMA TakesChild ==
  ASSUME NEW n, NEW k \in Procs \ {"main"}, NEW c \in Standing, ~Threading(c),
         Begins(n, k) = Stand(c.root, c.env, <<>>)
  PROVE  LET d == With(c, <<"child", k>>) IN
         /\ Takes(n, <<"fork", k>>, c, d) /\ Takes(n, <<"adopt", k>>, d, c)
<1> DEFINE d == With(c, <<"child", k>>)
<1>1. <<"fork", k>> \in Statement /\ <<"adopt", k>> \in Statement /\ <<"child", k>> \in Object
  BY DEF Statement, Object
<1>2. Under(d) = c
  BY <1>1, WithIs
<1>3. After(<<"fork", k>>, c) = d /\ After(<<"adopt", k>>, d) = c
  <2>1. After(<<"fork", k>>, c) = d
    BY DEF After
  <2>2. After(<<"adopt", k>>, d) = Under(d)
    BY DEF After
  <2> QED BY <1>2, <2>1, <2>2
<1>4. Allowed(n, <<"fork", k>>, c)
  BY DEF Allowed, RunsCommand
<1>5. Allowed(n, <<"adopt", k>>, d)
  BY DEF Allowed, RunsCommand
<1> QED BY <1>3, <1>4, <1>5 DEF Takes

LEMMA TakesThreads ==
  ASSUME NEW n, NEW c \in Standing, ~c.root
  PROVE  Takes(n, <<"object", "threads">>, c, With(c, <<"threads">>))
<1>1. After(<<"object", "threads">>, c) = With(c, <<"threads">>)
  BY DEF After, Made
<1>2. Allowed(n, <<"object", "threads">>, c)
  BY DEF Allowed, RunsCommand
<1> QED BY <1>1, <1>2 DEF Takes

\* Who does not hold anything.
Light(c) == c \in Standing /\ \A x \in Things : ~Holding(c, x)

LEMMA LightAlong ==
  ASSUME NEW n, NEW t \in Seq(Statement), NEW m \in Seq(Standing), Len(m) = Len(t) + 1,
         \A i \in 1 .. Len(m) : Light(m[i]), \A i \in 1 .. Len(t) : Takes(n, t[i], m[i], m[i + 1])
  PROVE  Way(n, {}, t, m[1], m[Len(m)])
<1>1. \A i \in 1 .. Len(m) : Unwindable(m[i], {})
  BY Unburdened DEF Light
<1> QED BY <1>1, WayAlong DEF Takes

LEMMA LightWith ==
  ASSUME NEW c, Light(c), NEW e \in {<<"event_loop">>, <<"threads">>} \cup ({"child"} \X Procs)
  PROVE  /\ Light(With(c, e)) /\ With(c, e).root = c.root /\ With(c, e).env = c.env
         /\ Threading(With(c, e)) <=> Threading(c) \/ e = <<"threads">>
<1>1. e \in Object /\ e[1] \notin {"unprivileged", "borrow"} /\ \A x : e # <<"held", x>>
  BY DEF Object
<1> QED BY <1>1, WithIs DEF Light

LEMMA LightStand ==
  ASSUME NEW c, Light(c), NEW root \in BOOLEAN, NEW env \in BOOLEAN
  PROVE  LET d == Stand(root, env, c.objs) IN
         Light(d) /\ d.root = root /\ d.env = env /\ d.objs = c.objs /\ (Threading(d) <=> Threading(c))
<1> DEFINE d == Stand(root, env, c.objs)
<1>1. c.objs \in Seq(Object)
  BY StandingIs DEF Light
<1>2. d \in Standing /\ d.root = root /\ d.env = env /\ d.objs = c.objs
  BY <1>1, StandIs
<1> HIDE DEF d
<1>3. Light(d) /\ (Threading(d) <=> Threading(c))
  BY <1>2 DEF Light, Holding, Threading
<1> QED BY <1>2, <1>3 DEF d

LEMMA LightStart ==
  ASSUME NEW root \in BOOLEAN, NEW env \in BOOLEAN
  PROVE  LET d == Stand(root, env, <<>>) IN
         Light(d) /\ d.root = root /\ d.env = env /\ d.objs = <<>> /\ ~Threading(d)
<1> DEFINE d == Stand(root, env, <<>>)
<1>1. <<>> \in Seq(Object) /\ Range(<<>>) = {}
  BY DEF Range
<1>2. d \in Standing /\ d.root = root /\ d.env = env /\ d.objs = <<>>
  BY <1>1 DEF Stand, Standing
<1> HIDE DEF d
<1>3. Light(d) /\ ~Threading(d)
  BY <1>1, <1>2 DEF Light, Holding, Threading
<1> QED BY <1>2, <1>3 DEF d

LEMMA LightLoop == ASSUME NEW n, NEW s, NEW c, NEW d, Way(n, {}, s, c, d), Light(d) PROVE Way(n, {}, s \o Loop, c, d)
<1>1. <<"loop">> \in Statement
  BY DEF Statement
<1>2. Takes(n, <<"loop">>, d, d)
  BY <1>1, TakesPlain DEF Light
<1> DEFINE m == <<d, d>>
<1>3. Loop \in Seq(Statement) /\ Len(Loop) = 1 /\ Loop[1] = <<"loop">>
  BY <1>1 DEF Loop
<1>4. m \in Seq(Standing) /\ Len(m) = 2 /\ m[1] = d /\ m[2] = d
  BY DEF Light
<1> HIDE DEF m
<1>5. Len(m) = Len(Loop) + 1 /\ (\A i \in 1 .. Len(m) : Light(m[i]))
      /\ (\A i \in 1 .. Len(Loop) : Takes(n, Loop[i], m[i], m[i + 1]))
  BY <1>2, <1>3, <1>4
<1>6. Way(n, {}, Loop, d, d)
  BY <1>3, <1>4, <1>5, LightAlong
<1> QED BY <1>6, WayJoin

LEMMA QueueWay ==
  ASSUME NEW n, NEW args, NEW side, NEW c, Light(c), ~c.root
  PROVE  \E d : Light(d) /\ Way(n, {}, Queue(args, side), c, d)
<1>1. CASE side \in args.metered
  <2> DEFINE d == With(c, <<"threads">>)
             t == << <<"object", "threads">> >>
             m == <<c, d>>
  <2>1. Light(d)
    BY LightWith
  <2>2. Takes(n, <<"object", "threads">>, c, d)
    BY TakesThreads DEF Light
  <2>3. <<"object", "threads">> \in Statement
    BY DEF Statement, OtherObjects
  <2> HIDE DEF d
  <2>4. t \in Seq(Statement) /\ Len(t) = 1 /\ t[1] = <<"object", "threads">>
    BY <2>3
  <2>5. m \in Seq(Standing) /\ Len(m) = 2 /\ m[1] = c /\ m[2] = d
    BY <2>1 DEF Light
  <2>6. Queue(args, side) = t
    BY <1>1 DEF Queue
  <2> HIDE DEF m, t
  <2>7. Len(m) = Len(t) + 1 /\ (\A i \in 1 .. Len(m) : Light(m[i]))
        /\ (\A i \in 1 .. Len(t) : Takes(n, t[i], m[i], m[i + 1]))
    BY <2>1, <2>2, <2>4, <2>5
  <2> QED BY <2>1, <2>4, <2>5, <2>6, <2>7, LightAlong
<1>2. CASE side \notin args.metered
  <2> DEFINE m == <<c>>
  <2>1. m \in Seq(Standing) /\ Len(m) = 1 /\ m[1] = c
    BY DEF Light
  <2>2. Queue(args, side) = <<>> /\ <<>> \in Seq(Statement) /\ Len(<<>>) = 0
    BY <1>2 DEF Queue
  <2> HIDE DEF m
  <2>3. Len(m) = Len(<<>>) + 1 /\ (\A i \in 1 .. Len(m) : Light(m[i]))
        /\ (\A i \in 1 .. Len(<<>>) : Takes(n, <<>>[i], m[i], m[i + 1]))
    BY <2>1, <2>2
  <2> QED BY <2>1, <2>2, <2>3, LightAlong
<1> QED BY <1>1, <1>2

LEMMA UplinkWay == ASSUME NEW args PROVE \E d : Way("packet", {}, Uplink(args), Begins("packet", "first"), d)
<1> DEFINE c1 == Stand(TRUE, FALSE, <<>>)
           c2 == With(c1, <<"event_loop">>)
           c3 == With(c2, <<"child", "dnsmasq">>)
           c4 == Stand(FALSE, c2.env, c2.objs)
           c5 == Stand(c4.root, TRUE, c4.objs)
           c6 == With(c5, <<"child", "command">>)
           m == <<c1, c2, c3, c2, c4, c5, c6, c5, c5>>
           t == << <<"event_loop">>, <<"fork", "dnsmasq">>, <<"adopt", "dnsmasq">>,
                   <<"drop">>, <<"restore">>,
                   <<"fork", "command">>, <<"adopt", "command">>, <<"send", "tun">> >>
<1>1. /\ <<"event_loop">> \in Statement /\ <<"drop">> \in Statement /\ <<"restore">> \in Statement
      /\ <<"send", "tun">> \in Statement
      /\ "dnsmasq" \in Procs \ {"main"} /\ "command" \in Procs \ {"main"}
  BY DEF Statement, Procs
<1>2. <<"fork", "dnsmasq">> \in Statement /\ <<"adopt", "dnsmasq">> \in Statement
      /\ <<"fork", "command">> \in Statement /\ <<"adopt", "command">> \in Statement
  BY <1>1 DEF Statement
<1>3. /\ Begins("packet", "first") = c1 /\ Begins("packet", "dnsmasq") = c1
      /\ Begins("packet", "command") = Stand(FALSE, TRUE, <<>>)
  BY DEF Begins
<1>4. Light(c1) /\ c1.root = TRUE /\ c1.env = FALSE /\ ~Threading(c1)
  BY LightStart
<1>5. c1 = Stand(TRUE, FALSE, <<>>)
  OBVIOUS
<1> HIDE DEF c1
<1>6. Light(c2) /\ c2.root = TRUE /\ c2.env = FALSE /\ ~Threading(c2)
  BY <1>4, LightWith
<1>7. Takes("packet", <<"event_loop">>, c1, c2)
  BY <1>1, <1>4, TakesPlain DEF Light
<1> HIDE DEF c2
<1>8. Light(c3)
  BY <1>1, <1>6, LightWith
<1>9. Takes("packet", <<"fork", "dnsmasq">>, c2, c3) /\ Takes("packet", <<"adopt", "dnsmasq">>, c3, c2)
  BY <1>1, <1>3, <1>5, <1>6, TakesChild DEF Light
<1> HIDE DEF c3
<1>10. Light(c4) /\ c4.root = FALSE /\ c4.env = FALSE /\ ~Threading(c4)
  <2>1. c4 = Stand(FALSE, FALSE, c2.objs)
    BY <1>6
  <2> HIDE DEF c4
  <2> QED BY <1>6, <2>1, LightStand
<1>11. Takes("packet", <<"drop">>, c2, c4)
  BY <1>1, <1>6, TakesPlain DEF Light
<1> HIDE DEF c4
<1>12. Light(c5) /\ c5.root = FALSE /\ c5.env = TRUE /\ ~Threading(c5)
  <2>1. c5 = Stand(FALSE, TRUE, c4.objs)
    BY <1>10
  <2> HIDE DEF c5
  <2> QED BY <1>10, <2>1, LightStand
<1>13. Takes("packet", <<"restore">>, c4, c5)
  BY <1>1, <1>10, TakesPlain DEF Light
<1> HIDE DEF c5
<1>14. Light(c6)
  BY <1>1, <1>12, LightWith
<1>15. Takes("packet", <<"fork", "command">>, c5, c6) /\ Takes("packet", <<"adopt", "command">>, c6, c5)
  BY <1>1, <1>3, <1>12, TakesChild DEF Light
<1>16. Takes("packet", <<"send", "tun">>, c5, c5)
  BY <1>1, <1>12, TakesPlain DEF Light
<1> HIDE DEF c6
<1>17. t \in Seq(Statement) /\ Len(t) = 8
  BY <1>1, <1>2
<1>18. m \in Seq(Standing) /\ Len(m) = 9 /\ m[1] = c1 /\ m[Len(m)] = c5
  BY <1>4, <1>6, <1>8, <1>10, <1>12, <1>14 DEF Light
<1>19. \A i \in 1 .. 9 : Light(m[i])
  BY <1>4, <1>6, <1>8, <1>10, <1>12, <1>14
<1>20. \A i \in 1 .. 8 : Takes("packet", t[i], m[i], m[i + 1])
  BY <1>7, <1>9, <1>11, <1>13, <1>15, <1>16
<1>21. Uplink(args) = (t \o Queue(args, "uplink")) \o Loop
  BY DEF Uplink
<1> HIDE DEF t, m
<1>22. Way("packet", {}, t, c1, c5)
  <2>1. Len(m) = Len(t) + 1 /\ (\A i \in 1 .. Len(m) : Light(m[i]))
        /\ (\A i \in 1 .. Len(t) : Takes("packet", t[i], m[i], m[i + 1]))
    BY <1>17, <1>18, <1>19, <1>20
  <2>2. Way("packet", {}, t, m[1], m[Len(m)])
    BY <1>17, <1>18, <2>1, LightAlong
  <2> QED BY <1>18, <2>2
<1>23. PICK d : Light(d) /\ Way("packet", {}, Queue(args, "uplink"), c5, d)
  BY <1>12, QueueWay
<1>24. Way("packet", {}, (t \o Queue(args, "uplink")) \o Loop, c1, d)
  BY <1>22, <1>23, WayJoin, LightLoop
<1> QED BY <1>3, <1>21, <1>24

LEMMA LightSteps ==
  ASSUME NEW n, NEW t \in Seq(Statement), NEW m \in Seq(Standing), NEW k \in Nat, NEW j \in Nat,
         Len(t) = k, Len(m) = j, j = k + 1, NEW c, NEW d, m[1] = c, m[j] = d,
         \A i \in 1 .. j : Light(m[i]), \A i \in 1 .. k : Takes(n, t[i], m[i], m[i + 1])
  PROVE  Way(n, {}, t, c, d)
<1>1. Way(n, {}, t, m[1], m[Len(m)])
  BY LightAlong
<1> QED BY <1>1

LEMMA DownlinkWay == ASSUME NEW args PROVE \E d : Way("packet", {}, Downlink(args), Begins("packet", "second"), d)
<1> DEFINE c1 == Stand(TRUE, FALSE, <<>>)
           c2 == Stand(FALSE, c1.env, c1.objs)
           c3 == Stand(c2.root, TRUE, c2.objs)
           c4 == With(c3, <<"event_loop">>)
           m == <<c1, c2, c3, c3, c4>>
           t == << <<"drop">>, <<"restore">>, <<"receive", "tun">>, <<"event_loop">> >>
<1>1. /\ <<"event_loop">> \in Statement /\ <<"drop">> \in Statement /\ <<"restore">> \in Statement
      /\ <<"receive", "tun">> \in Statement
  BY DEF Statement
<1>2. Begins("packet", "second") = c1
  BY DEF Begins
<1>3. Light(c1) /\ c1.root = TRUE /\ c1.env = FALSE
  BY LightStart
<1> HIDE DEF c1
<1>4. Light(c2) /\ c2.root = FALSE /\ c2.env = FALSE
  <2>1. c2 = Stand(FALSE, FALSE, c1.objs)
    BY <1>3
  <2> HIDE DEF c2
  <2> QED BY <1>3, <2>1, LightStand
<1>5. Takes("packet", <<"drop">>, c1, c2)
  BY <1>1, <1>3, TakesPlain DEF Light
<1> HIDE DEF c2
<1>6. Light(c3) /\ c3.root = FALSE /\ c3.env = TRUE
  BY <1>4, LightStand
<1>7. Takes("packet", <<"restore">>, c2, c3)
  BY <1>1, <1>4, TakesPlain DEF Light
<1> HIDE DEF c3
<1>8. Takes("packet", <<"receive", "tun">>, c3, c3) /\ Takes("packet", <<"event_loop">>, c3, c4)
  BY <1>1, <1>6, TakesPlain DEF Light
<1>9. Light(c4) /\ ~c4.root
  BY <1>6, LightWith
<1> HIDE DEF c4
<1>10. t \in Seq(Statement) /\ Len(t) = 4
  BY <1>1
<1>11. m \in Seq(Standing) /\ Len(m) = 5 /\ m[1] = c1 /\ m[5] = c4
  BY <1>3, <1>4, <1>6, <1>9 DEF Light
<1>12. \A i \in 1 .. 5 : Light(m[i])
  BY <1>3, <1>4, <1>6, <1>9
<1>13. \A i \in 1 .. 4 : Takes("packet", t[i], m[i], m[i + 1])
  BY <1>5, <1>7, <1>8
<1>14. Downlink(args) = (t \o Queue(args, "downlink")) \o Loop
  BY DEF Downlink
<1> HIDE DEF t, m
<1>15. Way("packet", {}, t, c1, c4)
  BY <1>10, <1>11, <1>12, <1>13, LightSteps, 5 = 4 + 1
<1>16. PICK d : Light(d) /\ Way("packet", {}, Queue(args, "downlink"), c4, d)
  BY <1>9, QueueWay
<1>17. Way("packet", {}, (t \o Queue(args, "downlink")) \o Loop, c1, d)
  BY <1>15, <1>16, WayJoin, LightLoop
<1> QED BY <1>2, <1>14, <1>17

LEMMA TakesExec ==
  ASSUME NEW n, NEW x, NEW c, ~c.root \/ (~c.env /\ x # "path")
  PROVE  Takes(n, <<"exec", x>>, c, c)
<1>1. After(<<"exec", x>>, c) = c
  BY DEF After
<1>2. Allowed(n, <<"exec", x>>, c)
  BY DEF Allowed, RunsCommand
<1> QED BY <1>1, <1>2 DEF Takes

\* The commands: as root, with the environment that is inherited or restored, or without root's privileges.
LEMMA CommandsWay ==
  ASSUME NEW n
  PROVE  /\ \E d : Way(n, {}, RootCommand, Stand(TRUE, FALSE, <<>>), d)
         /\ \E d : Way(n, {}, InheritedCommand, Stand(FALSE, TRUE, <<>>), d)
         /\ \E d : Way(n, {}, RestoringCommand, Stand(FALSE, FALSE, <<>>), d)
         /\ \E d : Way(n, {}, DroppingCommand, Stand(TRUE, FALSE, <<>>), d)
<1> DEFINE c1 == Stand(TRUE, FALSE, <<>>)
           c2 == Stand(FALSE, c1.env, c1.objs)
           c3 == Stand(c2.root, TRUE, c2.objs)
<1>1. /\ <<"exec", "path">> \in Statement /\ <<"exec", "absolute">> \in Statement
      /\ <<"drop">> \in Statement /\ <<"restore">> \in Statement
  BY DEF Statement
<1>2. Light(c1) /\ c1.root = TRUE /\ c1.env = FALSE /\ c1.objs = <<>>
  BY LightStart
<1>3. c2 = Stand(FALSE, FALSE, <<>>)
  BY <1>2
<1> HIDE DEF c1
<1>4. Light(c2) /\ c2.root = FALSE /\ c2.env = FALSE /\ c2.objs = <<>>
  <2> HIDE DEF c2
  <2> QED BY <1>3, LightStart
<1>5. Takes(n, <<"drop">>, c1, c2)
  BY <1>1, <1>2, TakesPlain DEF Light
<1> HIDE DEF c2
<1>6. c3 = Stand(FALSE, TRUE, <<>>)
  BY <1>4
<1>7. Light(c3) /\ c3.root = FALSE
  <2> HIDE DEF c3
  <2> QED BY <1>6, LightStart
<1>8. Takes(n, <<"restore">>, c2, c3)
  BY <1>1, <1>4, TakesPlain DEF Light
<1> HIDE DEF c3
<1>9. Takes(n, <<"exec", "path">>, c3, c3) /\ Takes(n, <<"exec", "absolute">>, c1, c1)
  BY <1>2, <1>7, TakesExec
<1>10. c1 \in Standing /\ c2 \in Standing /\ c3 \in Standing
  BY <1>2, <1>4, <1>7 DEF Light
<1>11. Way(n, {}, RootCommand, c1, c1)
  <2> DEFINE t == << <<"exec", "absolute">> >>
             m == <<c1, c1>>
  <2>1. t \in Seq(Statement) /\ Len(t) = 1 /\ m \in Seq(Standing) /\ Len(m) = 2 /\ m[1] = c1 /\ m[2] = c1
    BY <1>1, <1>10
  <2>2. (\A i \in 1 .. 2 : Light(m[i])) /\ \A i \in 1 .. 1 : Takes(n, t[i], m[i], m[i + 1])
    BY <1>2, <1>9
  <2>3. RootCommand = t
    BY DEF RootCommand
  <2> HIDE DEF t, m
  <2> QED BY <2>1, <2>2, <2>3, LightSteps, 2 = 1 + 1
<1>12. Way(n, {}, InheritedCommand, c3, c3)
  <2> DEFINE t == << <<"exec", "path">> >>
             m == <<c3, c3>>
  <2>1. t \in Seq(Statement) /\ Len(t) = 1 /\ m \in Seq(Standing) /\ Len(m) = 2 /\ m[1] = c3 /\ m[2] = c3
    BY <1>1, <1>10
  <2>2. (\A i \in 1 .. 2 : Light(m[i])) /\ \A i \in 1 .. 1 : Takes(n, t[i], m[i], m[i + 1])
    BY <1>7, <1>9
  <2>3. InheritedCommand = t
    BY DEF InheritedCommand
  <2> HIDE DEF t, m
  <2> QED BY <2>1, <2>2, <2>3, LightSteps, 2 = 1 + 1
<1>13. Way(n, {}, RestoringCommand, c2, c3)
  <2> DEFINE t == << <<"restore">>, <<"exec", "path">> >>
             m == <<c2, c3, c3>>
  <2>1. t \in Seq(Statement) /\ Len(t) = 2 /\ m \in Seq(Standing) /\ Len(m) = 3 /\ m[1] = c2 /\ m[3] = c3
    BY <1>1, <1>10
  <2>2. (\A i \in 1 .. 3 : Light(m[i])) /\ \A i \in 1 .. 2 : Takes(n, t[i], m[i], m[i + 1])
    BY <1>4, <1>7, <1>8, <1>9
  <2>3. RestoringCommand = t
    BY DEF RestoringCommand
  <2> HIDE DEF t, m
  <2> QED BY <2>1, <2>2, <2>3, LightSteps, 3 = 2 + 1
<1>14. Way(n, {}, DroppingCommand, c1, c3)
  <2> DEFINE t == << <<"drop">>, <<"restore">>, <<"exec", "path">> >>
             m == <<c1, c2, c3, c3>>
  <2>1. t \in Seq(Statement) /\ Len(t) = 3 /\ m \in Seq(Standing) /\ Len(m) = 4 /\ m[1] = c1 /\ m[4] = c3
    BY <1>1, <1>10
  <2>2. (\A i \in 1 .. 4 : Light(m[i])) /\ \A i \in 1 .. 3 : Takes(n, t[i], m[i], m[i + 1])
    BY <1>2, <1>4, <1>5, <1>7, <1>8, <1>9
  <2>3. DroppingCommand = t
    BY DEF DroppingCommand
  <2> HIDE DEF t, m
  <2> QED BY <2>1, <2>2, <2>3, LightSteps, 4 = 3 + 1
<1> QED BY <1>3, <1>6, <1>11, <1>12, <1>13, <1>14 DEF c1

\* The processes of mm-webrecord and mm-proxy.
LEMMA ContainerWay ==
  ASSUME NEW n \in {"record", "proxy"}
  PROVE  \E d : Way(n, {}, Container, Stand(TRUE, FALSE, <<>>), d)
<1> DEFINE c1 == Stand(TRUE, FALSE, <<>>)
           c2 == Stand(FALSE, c1.env, c1.objs)
           c3 == With(c2, <<"event_loop">>)
           c4 == With(c3, <<"child", "command">>)
           m == <<c1, c1, c2, c3, c4, c3>>
           t == << <<"receive", "go">>, <<"drop">>, <<"event_loop">>,
                   <<"fork", "command">>, <<"adopt", "command">> >>
<1>1. /\ <<"receive", "go">> \in Statement /\ <<"drop">> \in Statement /\ <<"event_loop">> \in Statement
      /\ "command" \in Procs \ {"main"}
  BY DEF Statement, Procs
<1>2. <<"fork", "command">> \in Statement /\ <<"adopt", "command">> \in Statement
  BY <1>1 DEF Statement
<1>3. Begins(n, "command") = Stand(FALSE, FALSE, <<>>)
  BY DEF Begins
<1>4. Light(c1) /\ c1.root = TRUE /\ c1.env = FALSE /\ ~Threading(c1)
  BY LightStart
<1> HIDE DEF c1
<1>5. Light(c2) /\ c2.root = FALSE /\ c2.env = FALSE /\ ~Threading(c2)
  <2>1. c2 = Stand(FALSE, FALSE, c1.objs)
    BY <1>4
  <2> HIDE DEF c2
  <2> QED BY <1>4, <2>1, LightStand
<1>6. Takes(n, <<"receive", "go">>, c1, c1) /\ Takes(n, <<"drop">>, c1, c2)
  BY <1>1, <1>4, TakesPlain DEF Light
<1> HIDE DEF c2
<1>7. Light(c3) /\ c3.root = FALSE /\ c3.env = FALSE /\ ~Threading(c3)
  BY <1>5, LightWith
<1>8. Takes(n, <<"event_loop">>, c2, c3)
  BY <1>1, <1>5, TakesPlain DEF Light
<1> HIDE DEF c3
<1>9. Light(c4)
  BY <1>1, <1>7, LightWith
<1>10. Takes(n, <<"fork", "command">>, c3, c4) /\ Takes(n, <<"adopt", "command">>, c4, c3)
  BY <1>1, <1>3, <1>7, TakesChild DEF Light
<1> HIDE DEF c4
<1>11. t \in Seq(Statement) /\ Len(t) = 5
  BY <1>1, <1>2
<1>12. m \in Seq(Standing) /\ Len(m) = 6 /\ m[1] = c1 /\ m[6] = c3
  BY <1>4, <1>5, <1>7, <1>9 DEF Light
<1>13. \A i \in 1 .. 6 : Light(m[i])
  BY <1>4, <1>5, <1>7, <1>9
<1>14. \A i \in 1 .. 5 : Takes(n, t[i], m[i], m[i + 1])
  BY <1>6, <1>8, <1>10
<1>15. Container = t \o Loop
  BY DEF Container
<1> HIDE DEF t, m
<1>16. Way(n, {}, t, c1, c3)
  BY <1>11, <1>12, <1>13, <1>14, LightSteps, 6 = 5 + 1
<1>17. Way(n, {}, t \o Loop, c1, c3)
  BY <1>7, <1>16, LightLoop
<1> QED BY <1>15, <1>17 DEF c1

LEMMA ServersWay ==
  ASSUME NEW n
  PROVE  /\ \E d : Way(n, {}, Recorder, Stand(TRUE, FALSE, <<>>), d)
         /\ \E d : Way(n, {}, ProxyServer, Stand(TRUE, FALSE, <<>>), d)
<1> DEFINE c1 == Stand(TRUE, FALSE, <<>>)
           c2 == Stand(FALSE, c1.env, c1.objs)
           c3 == With(c2, <<"event_loop">>)
<1>1. /\ <<"drop">> \in Statement /\ <<"user_try">> \in Statement /\ <<"event_loop">> \in Statement
      /\ <<"try">> \in Statement
  BY DEF Statement
<1>2. Light(c1) /\ c1.root = TRUE /\ c1.env = FALSE
  BY LightStart
<1> HIDE DEF c1
<1>3. Light(c2) /\ c2.root = FALSE
  <2>1. c2 = Stand(FALSE, FALSE, c1.objs)
    BY <1>2
  <2> HIDE DEF c2
  <2> QED BY <1>2, <2>1, LightStand
<1>4. Takes(n, <<"drop">>, c1, c2)
  BY <1>1, <1>2, TakesPlain DEF Light
<1> HIDE DEF c2
<1>5. Takes(n, <<"user_try">>, c2, c2)
  <2>1. After(<<"user_try">>, c2) = c2
    BY DEF After
  <2>2. Allowed(n, <<"user_try">>, c2)
    BY <1>3 DEF Allowed, RunsCommand
  <2> QED BY <2>1, <2>2 DEF Takes
<1>6. Light(c3)
  BY <1>3, LightWith
<1>7. Takes(n, <<"event_loop">>, c2, c3)
  BY <1>1, <1>3, TakesPlain DEF Light
<1> HIDE DEF c3
<1>8. Takes(n, <<"try">>, c3, c3)
  BY <1>1, <1>6, TakesPlain DEF Light
<1>9. c1 \in Standing /\ c2 \in Standing /\ c3 \in Standing
  BY <1>2, <1>3, <1>6 DEF Light
<1> DEFINE w == << <<"try">> >>
<1>10. Way(n, {}, w, c3, c3)
  <2> DEFINE m == <<c3, c3>>
  <2>1. w \in Seq(Statement) /\ Len(w) = 1 /\ m \in Seq(Standing) /\ Len(m) = 2 /\ m[1] = c3 /\ m[2] = c3
    BY <1>1, <1>9
  <2>2. (\A i \in 1 .. 2 : Light(m[i])) /\ \A i \in 1 .. 1 : Takes(n, w[i], m[i], m[i + 1])
    BY <1>6, <1>8
  <2> HIDE DEF w, m
  <2> QED BY <2>1, <2>2, LightSteps, 2 = 1 + 1
<1>11. \E d : Way(n, {}, Recorder, c1, d)
  <2> DEFINE t == << <<"drop">>, <<"user_try">>, <<"event_loop">> >>
             m == <<c1, c2, c2, c3>>
  <2>1. t \in Seq(Statement) /\ Len(t) = 3 /\ m \in Seq(Standing) /\ Len(m) = 4 /\ m[1] = c1 /\ m[4] = c3
    BY <1>1, <1>9
  <2>2. (\A i \in 1 .. 4 : Light(m[i])) /\ \A i \in 1 .. 3 : Takes(n, t[i], m[i], m[i + 1])
    BY <1>2, <1>3, <1>4, <1>5, <1>6, <1>7
  <2>3. Recorder = (t \o Loop) \o w
    BY DEF Recorder
  <2> HIDE DEF t, m, w
  <2>4. Way(n, {}, t, c1, c3)
    BY <2>1, <2>2, LightSteps, 4 = 3 + 1
  <2> QED BY <1>6, <1>10, <2>3, <2>4, LightLoop, WayJoin
<1>12. \E d : Way(n, {}, ProxyServer, c1, d)
  <2> DEFINE t == << <<"drop">>, <<"event_loop">> >>
             m == <<c1, c2, c3>>
  <2>1. t \in Seq(Statement) /\ Len(t) = 2 /\ m \in Seq(Standing) /\ Len(m) = 3 /\ m[1] = c1 /\ m[3] = c3
    BY <1>1, <1>9
  <2>2. (\A i \in 1 .. 3 : Light(m[i])) /\ \A i \in 1 .. 2 : Takes(n, t[i], m[i], m[i + 1])
    BY <1>2, <1>3, <1>4, <1>6, <1>7
  <2>3. ProxyServer = (t \o Loop) \o w
    BY DEF ProxyServer
  <2> HIDE DEF t, m, w
  <2>4. Way(n, {}, t, c1, c3)
    BY <2>1, <2>2, LightSteps, 3 = 2 + 1
  <2> QED BY <1>6, <1>10, <2>3, <2>4, LightLoop, WayJoin
<1> QED BY <1>11, <1>12 DEF c1

\* The processes but main.
LEMMA OthersWay ==
  ASSUME NEW g, NEW p \in Procs \ {"main"}
  PROVE  \E d : Way(g.name, Wanted(g.name, p), Script(g, p), Begins(g.name, p), d)
<1>1. Wanted(g.name, p) = {}
  BY DEF Wanted
<1>2. CASE g.name = "packet"
  <2>1. p = "first" => Script(g, p) = Uplink(g.args)
    BY <1>2 DEF Script
  <2>2. p = "second" => Script(g, p) = Downlink(g.args)
    BY <1>2 DEF Script
  <2>3. p = "dnsmasq" => Script(g, p) = RootCommand /\ Begins(g.name, p) = Stand(TRUE, FALSE, <<>>)
    BY <1>2 DEF Script, Begins
  <2>4. p = "command" => Script(g, p) = InheritedCommand /\ Begins(g.name, p) = Stand(FALSE, TRUE, <<>>)
    BY <1>2 DEF Script, Begins
  <2>5. p \in {"first", "second", "dnsmasq", "command"}
    BY DEF Procs
  <2> QED BY <1>1, <1>2, <2>1, <2>2, <2>3, <2>4, <2>5, UplinkWay, DownlinkWay, CommandsWay
<1>3. CASE g.name \in {"record", "proxy"}
  <2>1. p = "first" => Script(g, p) = Container /\ Begins(g.name, p) = Stand(TRUE, FALSE, <<>>)
    BY <1>3 DEF Script, Begins, ProxyContainer
  <2>2. p = "second" => Script(g, p) \in {Recorder, ProxyServer} /\ Begins(g.name, p) = Stand(TRUE, FALSE, <<>>)
    BY <1>3 DEF Script, Begins
  <2>3. p \in {"dnsmasq", "command"} =>
          Script(g, p) = RestoringCommand /\ Begins(g.name, p) = Stand(FALSE, FALSE, <<>>)
    BY <1>3 DEF Script, Begins
  <2>4. p \in {"first", "second", "dnsmasq", "command"}
    BY DEF Procs
  <2> QED BY <1>1, <1>3, <2>1, <2>2, <2>3, <2>4, ContainerWay, ServersWay, CommandsWay
<1>4. CASE g.name \notin {"packet", "record", "proxy"}
  <2>1. Begins(g.name, p) = Stand(TRUE, FALSE, <<>>)
    BY <1>4 DEF Begins
  <2>2. Script(g, p) \in {RootCommand, DroppingCommand}
    BY <1>4 DEF Script
  <2> QED BY <1>1, <2>1, <2>2, CommandsWay
<1> QED BY <1>2, <1>3, <1>4

\* main, when nothing hinders its commands.
Ready(c, W) == Unwindable(c, W) /\ c.root /\ ~c.env /\ ~Threading(c)

LEMMA ReadyStands == ASSUME NEW c, NEW W, Ready(c, W) PROVE c \in Standing /\ Sound(c, W)
BY UnwindableIs DEF Ready

LEMMA MainStarts ==
  ASSUME NEW n, NEW W
  PROVE  LET c == Stand(TRUE, FALSE, <<>>) IN
         /\ Ready(c, W) /\ ~Sheltering(c)
         /\ Way(n, W, Checked, Stand(TRUE, TRUE, <<>>), c)
<1> DEFINE c0 == Stand(TRUE, TRUE, <<>>)
           c == Stand(TRUE, FALSE, <<>>)
           m == <<c0, c, c>>
           t == << <<"clear">>, <<"check">> >>
<1>1. Light(c0) /\ c0.root = TRUE /\ c0.env = TRUE /\ c0.objs = <<>>
  BY LightStart
<1>2. Light(c) /\ c.root = TRUE /\ c.env = FALSE /\ c.objs = <<>> /\ ~Threading(c)
  BY LightStart
<1>3. c = Stand(c0.root, FALSE, c0.objs)
  BY <1>1
<1> HIDE DEF c0, c
<1>4. ASSUME NEW e, Light(e), e.objs = <<>> PROVE Unwindable(e, W) /\ ~Sheltering(e)
  <2>1. ~Sheltering(e)
    BY <1>4 DEF Sheltering, Range
  <2>2. Sound(e, W)
    BY <1>4, <2>1 DEF Sound, Light
  <2> QED BY <1>4, <2>1, <2>2, Rewinds DEF Light
<1>5. <<"clear">> \in Statement /\ <<"check">> \in Statement
  BY DEF Statement
<1>6. Takes(n, <<"clear">>, c0, c)
  BY <1>1, <1>3, <1>5, TakesPlain DEF Light
<1>7. Takes(n, <<"check">>, c, c)
  <2>1. After(<<"check">>, c) = c
    BY DEF After
  <2>2. Allowed(n, <<"check">>, c)
    BY <1>2 DEF Allowed, RunsCommand
  <2> QED BY <2>1, <2>2 DEF Takes
<1>8. t \in Seq(Statement) /\ Len(t) = 2
  BY <1>5
<1>9. m \in Seq(Standing) /\ Len(m) = 3 /\ m[1] = c0 /\ m[3] = c
  BY <1>1, <1>2 DEF Light
<1>10. \A i \in 1 .. 3 : Unwindable(m[i], W)
  BY <1>1, <1>2, <1>4
<1>11. \A i \in 1 .. 2 : Allowed(n, t[i], m[i]) /\ m[i + 1] = After(t[i], m[i])
  BY <1>6, <1>7 DEF Takes
<1>12. Checked = t
  BY DEF Checked
<1> HIDE DEF m, t
<1>13. Way(n, W, t, c0, c)
  <2>1. Len(m) = Len(t) + 1 /\ (\A i \in 1 .. Len(m) : Unwindable(m[i], W))
        /\ (\A i \in 1 .. Len(t) : Allowed(n, t[i], m[i]) /\ m[i + 1] = After(t[i], m[i]))
    BY <1>8, <1>9, <1>10, <1>11
  <2>2. Way(n, W, t, m[1], m[Len(m)])
    BY <1>8, <1>9, <2>1, WayAlong
  <2> QED BY <1>9, <2>2
<1>14. Ready(c, W) /\ ~Sheltering(c)
  BY <1>2, <1>4 DEF Ready
<1> QED BY <1>12, <1>13, <1>14 DEF c0, c

LEMMA WaySteps ==
  ASSUME NEW n, NEW W, NEW t \in Seq(Statement), NEW m \in Seq(Standing), NEW k \in Nat, NEW j \in Nat,
         Len(t) = k, Len(m) = j, j = k + 1, NEW c, NEW d, m[1] = c, m[j] = d,
         \A i \in 1 .. j : Unwindable(m[i], W), \A i \in 1 .. k : Takes(n, t[i], m[i], m[i + 1])
  PROVE  Way(n, W, t, c, d)
<1>1. Way(n, W, t, m[1], m[Len(m)])
  BY WayAlong DEF Takes
<1> QED BY <1>1

LEMMA ReadyPlain ==
  ASSUME NEW n, NEW W, NEW c, Ready(c, W), NEW s \in Statement,
         s[1] \in {"check", "run", "give", "disown", "send", "loop"}
  PROVE  Takes(n, s, c, c)
<1>1. After(s, c) = c
  BY AfterKinds
<1>2. s # <<"object", "borrow">> /\ s # <<"object", "threads">>
  OBVIOUS
<1>3. s[1] \notin {"user_try", "exec", "fork", "object"}
  OBVIOUS
<1>4. Allowed(n, s, c)
  BY <1>2, <1>3 DEF Allowed, Ready
<1> QED BY <1>1, <1>4 DEF Takes

LEMMA ReadyHolds ==
  ASSUME NEW n, NEW W, NEW c, Ready(c, W), ~Sheltering(c), NEW x \in Things, x \in W
  PROVE  LET d == With(c, <<"held", x>>) IN
         /\ Ready(d, W) /\ ~Sheltering(d) /\ Takes(n, <<"object", x>>, c, d)
         /\ \A y : Holding(d, y) <=> Holding(c, y) \/ y = x
<1> DEFINE e == <<"held", x>>
           d == With(c, e)
<1>1. c \in Standing /\ Sound(c, W)
  BY ReadyStands
<1>2. e \in Object /\ e[1] \notin {"unprivileged", "borrow"} /\ e # <<"threads">> /\ e \notin Shelters
      /\ \A y : e = <<"held", y>> <=> y = x
  BY DEF Object, Shelters
<1>3. /\ d \in Standing /\ d.root = c.root /\ d.env = c.env /\ d.objs # <<>> /\ Under(d) = c
      /\ \A y : Holding(d, y) <=> Holding(c, y) \/ e = <<"held", y>>
      /\ Threading(d) <=> Threading(c) \/ e = <<"threads">>
      /\ Sheltering(d) <=> Sheltering(c) \/ e \in Shelters
  <2> HIDE DEF e
  <2> QED BY <1>1, <1>2, WithIs
<1>4. After(<<"object", x>>, c) = d
  <2>1. After(<<"object", x>>, c) = Made(x, c)
    BY DEF After
  <2> QED BY <2>1, MadeKinds
<1>5. x \notin {"unprivileged", "borrow", "threads", "pipe"}
  BY ServersAssumption DEF Things, Rules, OtherObjects, Range
<1>6. Allowed(n, <<"object", x>>, c)
  BY <1>5 DEF Allowed, Ready
<1> HIDE DEF d, e
<1>7. Sound(d, W)
  BY <1>1, <1>2, <1>3 DEF Sound, Ready
<1>8. Unwindable(d, W)
  BY <1>3, <1>7, Rewinds DEF Ready
<1>9. Ready(d, W) /\ ~Sheltering(d)
  BY <1>2, <1>3, <1>8 DEF Ready
<1>10. \A y : Holding(d, y) <=> Holding(c, y) \/ y = x
  BY <1>2, <1>3
<1> QED BY <1>4, <1>6, <1>9, <1>10 DEF Takes, d, e

\* A child or the event loop, when all is held; or the socket pair.
LEMMA ReadyWith ==
  ASSUME NEW W \in SUBSET Things, NEW c, Ready(c, W), \A x \in W : Holding(c, x),
         NEW e \in {<<"event_loop">>, <<"pipe">>} \cup ({"child"} \X Procs)
  PROVE  LET d == With(c, e) IN Ready(d, W) /\ Under(d) = c /\ \A x \in W : Holding(d, x)
<1> DEFINE d == With(c, e)
<1>1. c \in Standing /\ Sound(c, W)
  BY ReadyStands
<1>2. e \in Object /\ e[1] \notin {"unprivileged", "borrow", "held"} /\ e # <<"threads">> /\ \A y : e # <<"held", y>>
  BY DEF Object
<1>3. /\ d \in Standing /\ d.root = c.root /\ d.env = c.env /\ d.objs # <<>> /\ Under(d) = c
      /\ d.objs[Len(d.objs)] = e
      /\ \A y : Holding(d, y) <=> Holding(c, y) \/ e = <<"held", y>>
      /\ Threading(d) <=> Threading(c) \/ e = <<"threads">>
  BY <1>1, <1>2, WithIs
<1> HIDE DEF d
<1>4. Sound(d, W)
  BY <1>1, <1>2, <1>3 DEF Sound
<1>5. Unwindable(d, W)
  BY <1>3, <1>4, Rewinds DEF Ready
<1>6. Ready(d, W) /\ \A x \in W : Holding(d, x)
  BY <1>2, <1>3, <1>5 DEF Ready
<1> QED BY <1>3, <1>6 DEF d

LEMMA ReadyChild ==
  ASSUME NEW n, NEW W \in SUBSET Things, NEW c, Ready(c, W), \A x \in W : Holding(c, x), NEW k \in Procs \ {"main"},
         Begins(n, k) = Stand(TRUE, FALSE, <<>>)
  PROVE  LET d == With(c, <<"child", k>>) IN
         /\ Ready(d, W) /\ Takes(n, <<"fork", k>>, c, d) /\ Takes(n, <<"adopt", k>>, d, c)
<1>1. c \in Standing
  BY ReadyStands
<1>2. c.root = TRUE /\ c.env = FALSE
  BY <1>1, StandingIs DEF Ready
<1>3. Stand(c.root, c.env, <<>>) = Stand(TRUE, FALSE, <<>>)
  BY <1>2
<1>4. Takes(n, <<"fork", k>>, c, With(c, <<"child", k>>)) /\ Takes(n, <<"adopt", k>>, With(c, <<"child", k>>), c)
  BY <1>1, <1>3, TakesChild DEF Ready
<1>5. Ready(With(c, <<"child", k>>), W)
  BY ReadyWith
<1> QED BY <1>4, <1>5

LEMMA ReadyBlock ==
  ASSUME NEW n, NEW W, NEW c, Unwindable(c, W), NEW x \in {"unprivileged", "borrow"}, x = "borrow" => ~c.env
  PROVE  LET d == Made(x, c) IN
         /\ Unwindable(d, W) /\ Takes(n, <<"object", x>>, c, d) /\ Takes(n, <<"leave">>, d, c)
         /\ x = "unprivileged" => ~d.root /\ d.env = c.env
<1> DEFINE d == Made(x, c)
<1>1. c \in Standing /\ Sound(c, W)
  BY UnwindableIs
<1>2. /\ d \in Standing /\ d.objs # <<>> /\ Under(d) = c /\ d.objs[Len(d.objs)][1] = x
      /\ x = "unprivileged" => ~d.root /\ d.env = c.env
      /\ \A y : Holding(d, y) <=> Holding(c, y)
      /\ (Threading(d) <=> Threading(c)) /\ (Sheltering(d) <=> Sheltering(c))
  BY <1>1, BlockIs
<1>3. After(<<"object", x>>, c) = d
  BY DEF After
<1>4. Allowed(n, <<"object", x>>, c)
  BY DEF Allowed, RunsCommand
<1>5. <<"leave">> \in Statement
  BY DEF Statement
<1> HIDE DEF d
<1>6. Sound(d, W)
  BY <1>1, <1>2 DEF Sound
<1>7. Unwindable(d, W)
  BY <1>2, <1>6, Rewinds
<1>8. Takes(n, <<"leave">>, d, c)
  BY <1>2, <1>5, TakesPlain
<1> QED BY <1>2, <1>3, <1>4, <1>7, <1>8 DEF Takes, d

LEMMA ReadyLoop ==
  ASSUME NEW n, NEW W, NEW s, NEW c, NEW d, Way(n, W, s, c, d), Ready(d, W)
  PROVE  Way(n, W, s \o Loop, c, d)
<1> DEFINE m == <<d, d>>
<1>1. <<"loop">> \in Statement
  BY DEF Statement
<1>2. Takes(n, <<"loop">>, d, d)
  BY <1>1, ReadyPlain
<1>3. Loop \in Seq(Statement) /\ Len(Loop) = 1 /\ Loop[1] = <<"loop">>
  BY <1>1 DEF Loop
<1>4. m \in Seq(Standing) /\ Len(m) = 2 /\ m[1] = d /\ m[2] = d
  BY ReadyStands
<1> HIDE DEF m
<1>5. (\A i \in 1 .. 2 : Unwindable(m[i], W)) /\ \A i \in 1 .. 1 : Takes(n, Loop[i], m[i], m[i + 1])
  BY <1>2, <1>3, <1>4 DEF Ready
<1>6. Way(n, W, Loop, d, d)
  BY <1>3, <1>4, <1>5, WaySteps, 2 = 1 + 1
<1> QED BY <1>6, WayJoin

\* The NAT rules; the event loop with its two ferries.
LEMMA PacketMainWay ==
  LET W == {"nat_pre", "nat_post"} IN
  \E d : Way("packet", W, PacketMain, Stand(TRUE, TRUE, <<>>), d)
<1> DEFINE W == {"nat_pre", "nat_post"}
           c0 == Stand(TRUE, TRUE, <<>>)
           c1 == Stand(TRUE, FALSE, <<>>)
           b1 == Made("unprivileged", c1)
           b2 == Made("borrow", b1)
           h1 == With(c1, <<"held", "nat_pre">>)
           h2 == With(h1, <<"held", "nat_post">>)
           e == With(h2, <<"event_loop">>)
           f == With(e, <<"child", "first">>)
           s == With(e, <<"child", "second">>)
           t == << <<"object", "unprivileged">>, <<"object", "borrow">>, <<"leave">>, <<"leave">>,
                   <<"object", "nat_pre">>, <<"object", "nat_post">>, <<"event_loop">>, <<"check">>,
                   <<"fork", "first">>, <<"adopt", "first">>, <<"fork", "second">>, <<"adopt", "second">> >>
           m == <<c1, b1, b2, b1, c1, h1, h2, e, e, f, e, s, e>>
<1>1. /\ <<"object", "unprivileged">> \in Statement /\ <<"object", "borrow">> \in Statement
      /\ <<"leave">> \in Statement
      /\ <<"object", "nat_pre">> \in Statement /\ <<"object", "nat_post">> \in Statement
      /\ <<"event_loop">> \in Statement /\ <<"check">> \in Statement
      /\ <<"fork", "first">> \in Statement /\ <<"adopt", "first">> \in Statement
      /\ <<"fork", "second">> \in Statement /\ <<"adopt", "second">> \in Statement
  BY DEF Statement, OtherObjects, Procs
<1>2. W \in SUBSET Things /\ "nat_pre" \in W /\ "nat_post" \in W /\ "nat_pre" \in Things /\ "nat_post" \in Things
      /\ \A x \in W : x = "nat_pre" \/ x = "nat_post"
  BY DEF Things, Rules
<1>3. /\ "first" \in Procs \ {"main"} /\ "second" \in Procs \ {"main"}
      /\ Begins("packet", "first") = Stand(TRUE, FALSE, <<>>) /\ Begins("packet", "second") = Stand(TRUE, FALSE, <<>>)
  BY DEF Begins, Procs
<1> HIDE DEF W
<1>4. Ready(c1, W) /\ ~Sheltering(c1) /\ Way("packet", W, Checked, c0, c1)
  BY MainStarts
<1>5. Unwindable(c1, W) /\ c1.env = FALSE
  BY <1>4, ReadyStands, StandingIs DEF Ready
<1> HIDE DEF c0, c1
<1>6. /\ Unwindable(b1, W) /\ ~b1.env
      /\ Takes("packet", <<"object", "unprivileged">>, c1, b1) /\ Takes("packet", <<"leave">>, b1, c1)
  BY <1>5, ReadyBlock
<1> HIDE DEF b1
<1>7. /\ Unwindable(b2, W)
      /\ Takes("packet", <<"object", "borrow">>, b1, b2) /\ Takes("packet", <<"leave">>, b2, b1)
  BY <1>6, ReadyBlock
<1> HIDE DEF b2
<1>8. /\ Ready(h1, W) /\ ~Sheltering(h1) /\ Takes("packet", <<"object", "nat_pre">>, c1, h1)
      /\ Holding(h1, "nat_pre")
  BY <1>2, <1>4, ReadyHolds
<1> HIDE DEF h1
<1>9. /\ Ready(h2, W) /\ Takes("packet", <<"object", "nat_post">>, h1, h2)
      /\ Holding(h2, "nat_pre") /\ Holding(h2, "nat_post")
  BY <1>2, <1>8, ReadyHolds
<1> HIDE DEF h2
<1>10. \A x \in W : Holding(h2, x)
  BY <1>2, <1>9
<1>11. Ready(e, W) /\ \A x \in W : Holding(e, x)
  BY <1>2, <1>9, <1>10, ReadyWith
<1>12. Takes("packet", <<"event_loop">>, h2, e)
  BY <1>1, <1>9, ReadyStands, TakesPlain
<1> HIDE DEF e
<1>13. Takes("packet", <<"check">>, e, e)
  BY <1>1, <1>11, ReadyPlain
<1>14. Ready(f, W) /\ Takes("packet", <<"fork", "first">>, e, f) /\ Takes("packet", <<"adopt", "first">>, f, e)
  BY <1>2, <1>3, <1>11, ReadyChild
<1>15. Ready(s, W) /\ Takes("packet", <<"fork", "second">>, e, s) /\ Takes("packet", <<"adopt", "second">>, s, e)
  BY <1>2, <1>3, <1>11, ReadyChild
<1> HIDE DEF f, s
<1>16. t \in Seq(Statement) /\ Len(t) = 12
  BY <1>1
<1>17. /\ Unwindable(h1, W) /\ Unwindable(h2, W) /\ Unwindable(e, W) /\ Unwindable(f, W) /\ Unwindable(s, W)
       /\ c1 \in Standing /\ b1 \in Standing /\ b2 \in Standing /\ h1 \in Standing /\ h2 \in Standing
       /\ e \in Standing /\ f \in Standing /\ s \in Standing
  BY <1>4, <1>6, <1>7, <1>8, <1>9, <1>11, <1>14, <1>15, ReadyStands, UnwindableIs DEF Ready
<1>18. m \in Seq(Standing) /\ Len(m) = 13 /\ m[1] = c1 /\ m[13] = e
  BY <1>17
<1>19. \A i \in 1 .. 13 : Unwindable(m[i], W)
  BY <1>5, <1>6, <1>7, <1>17
<1>20. \A i \in 1 .. 12 : Takes("packet", t[i], m[i], m[i + 1])
  BY <1>6, <1>7, <1>8, <1>9, <1>12, <1>13, <1>14, <1>15
<1>21. PacketMain = (Checked \o t) \o Loop
  BY DEF PacketMain, Construct, Checked, Loop
<1> HIDE DEF t, m
<1>22. Way("packet", W, t, c1, e)
  BY <1>16, <1>18, <1>19, <1>20, WaySteps, 13 = 12 + 1
<1>23. Way("packet", W, Checked \o t, c0, e)
  BY <1>4, <1>22, WayJoin
<1>24. Way("packet", W, (Checked \o t) \o Loop, c0, e)
  BY <1>11, <1>23, ReadyLoop
<1> QED BY <1>21, <1>24 DEF W, c0

\* The socket pair of mm-webrecord's main, and the end of its block.
LEMMA ReadyPipe ==
  ASSUME NEW n, NEW W \in SUBSET Things, NEW c, Ready(c, W), \A x \in W : Holding(c, x)
  PROVE  LET d == With(c, <<"pipe">>) IN
         /\ Ready(d, W) /\ (\A x \in W : Holding(d, x))
         /\ Takes(n, <<"object", "pipe">>, c, d) /\ Takes(n, <<"leave">>, d, c)
<1> DEFINE d == With(c, <<"pipe">>)
<1>1. Ready(d, W) /\ Under(d) = c /\ \A x \in W : Holding(d, x)
  BY ReadyWith
<1>2. After(<<"object", "pipe">>, c) = d
  <2>1. After(<<"object", "pipe">>, c) = Made("pipe", c)
    BY DEF After
  <2> QED BY <2>1, MadeKinds
<1> HIDE DEF d
<1>3. Allowed(n, <<"object", "pipe">>, c)
  BY DEF Allowed, RunsCommand
<1>4. <<"leave">> \in Statement
  BY DEF Statement
<1>5. Takes(n, <<"leave">>, d, c)
  BY <1>1, <1>4, TakesPlain, ReadyStands
<1> QED BY <1>1, <1>2, <1>3, <1>5 DEF Takes, d

\* The devices and the rules; the event loop; the container and the recorder.
LEMMA RecordMainWay ==
  ASSUME NEW n \in {"record", "proxy"}
  PROVE  LET W == {"nat_pre", "nat_post", "dnat", "veth"} IN
         \E d : Way(n, W, RecordMain, Stand(TRUE, TRUE, <<>>), d)
<1> DEFINE W == {"nat_pre", "nat_post", "dnat", "veth"}
           c0 == Stand(TRUE, TRUE, <<>>)
           c1 == Stand(TRUE, FALSE, <<>>)
           c2 == With(c1, <<"held", "veth">>)
           c3 == With(c2, <<"held", "nat_pre">>)
           c4 == With(c3, <<"held", "nat_post">>)
           c5 == With(c4, <<"held", "dnat">>)
           c6 == With(c5, <<"event_loop">>)
           c7 == With(c6, <<"pipe">>)
           c8 == With(c7, <<"child", "first">>)
           c9 == With(c6, <<"child", "second">>)
           t == << <<"object", "veth">>, <<"object", "nat_pre">>, <<"object", "nat_post">>,
                   <<"object", "dnat">>, <<"event_loop">>,
                   <<"object", "pipe">>, <<"fork", "first">>, <<"give">>, <<"disown">>,
                   <<"send", "go">>, <<"adopt", "first">>, <<"leave">>,
                   <<"fork", "second">>, <<"adopt", "second">> >>
           m == <<c1, c2, c3, c4, c5, c6, c7, c8, c8, c8, c8, c7, c6, c9, c6>>
<1>1. /\ <<"object", "veth">> \in Statement /\ <<"object", "nat_pre">> \in Statement
      /\ <<"object", "nat_post">> \in Statement /\ <<"object", "dnat">> \in Statement
      /\ <<"object", "pipe">> \in Statement /\ <<"leave">> \in Statement /\ <<"event_loop">> \in Statement
      /\ <<"give">> \in Statement /\ <<"disown">> \in Statement /\ <<"send", "go">> \in Statement
      /\ <<"fork", "first">> \in Statement /\ <<"adopt", "first">> \in Statement
      /\ <<"fork", "second">> \in Statement /\ <<"adopt", "second">> \in Statement
  BY DEF Statement, OtherObjects, Procs
<1>2. /\ W \in SUBSET Things /\ "nat_pre" \in W /\ "nat_post" \in W /\ "dnat" \in W /\ "veth" \in W
      /\ \A x \in W : x = "nat_pre" \/ x = "nat_post" \/ x = "dnat" \/ x = "veth"
  BY DEF Things, Rules
<1>3. /\ "first" \in Procs \ {"main"} /\ "second" \in Procs \ {"main"}
      /\ Begins(n, "first") = Stand(TRUE, FALSE, <<>>) /\ Begins(n, "second") = Stand(TRUE, FALSE, <<>>)
  BY DEF Begins, Procs
<1> HIDE DEF W
<1>4. Ready(c1, W) /\ ~Sheltering(c1) /\ Way(n, W, Checked, c0, c1)
  BY MainStarts
<1> HIDE DEF c0, c1
<1>5. Ready(c2, W) /\ ~Sheltering(c2) /\ Takes(n, <<"object", "veth">>, c1, c2) /\ Holding(c2, "veth")
  BY <1>2, <1>4, ReadyHolds
<1> HIDE DEF c2
<1>6. /\ Ready(c3, W) /\ ~Sheltering(c3) /\ Takes(n, <<"object", "nat_pre">>, c2, c3)
      /\ Holding(c3, "veth") /\ Holding(c3, "nat_pre")
  BY <1>2, <1>5, ReadyHolds
<1> HIDE DEF c3
<1>7. /\ Ready(c4, W) /\ ~Sheltering(c4) /\ Takes(n, <<"object", "nat_post">>, c3, c4)
      /\ Holding(c4, "veth") /\ Holding(c4, "nat_pre") /\ Holding(c4, "nat_post")
  BY <1>2, <1>6, ReadyHolds
<1> HIDE DEF c4
<1>8. /\ Ready(c5, W) /\ Takes(n, <<"object", "dnat">>, c4, c5)
      /\ Holding(c5, "veth") /\ Holding(c5, "nat_pre") /\ Holding(c5, "nat_post") /\ Holding(c5, "dnat")
  BY <1>2, <1>7, ReadyHolds
<1> HIDE DEF c5
<1>9. \A x \in W : Holding(c5, x)
  BY <1>2, <1>8
<1>10. Ready(c6, W) /\ \A x \in W : Holding(c6, x)
  BY <1>2, <1>8, <1>9, ReadyWith
<1>11. Takes(n, <<"event_loop">>, c5, c6)
  BY <1>1, <1>8, ReadyStands, TakesPlain
<1> HIDE DEF c6
<1>12. /\ Ready(c7, W) /\ (\A x \in W : Holding(c7, x))
       /\ Takes(n, <<"object", "pipe">>, c6, c7) /\ Takes(n, <<"leave">>, c7, c6)
  BY <1>2, <1>10, ReadyPipe
<1> HIDE DEF c7
<1>13. Ready(c8, W) /\ Takes(n, <<"fork", "first">>, c7, c8) /\ Takes(n, <<"adopt", "first">>, c8, c7)
  BY <1>2, <1>3, <1>12, ReadyChild
<1>14. Ready(c9, W) /\ Takes(n, <<"fork", "second">>, c6, c9) /\ Takes(n, <<"adopt", "second">>, c9, c6)
  BY <1>2, <1>3, <1>10, ReadyChild
<1> HIDE DEF c8, c9
<1>15. Takes(n, <<"give">>, c8, c8) /\ Takes(n, <<"disown">>, c8, c8) /\ Takes(n, <<"send", "go">>, c8, c8)
  BY <1>1, <1>13, ReadyPlain
<1>16. t \in Seq(Statement) /\ Len(t) = 14
  BY <1>1
<1>17. /\ Unwindable(c1, W) /\ Unwindable(c2, W) /\ Unwindable(c3, W) /\ Unwindable(c4, W) /\ Unwindable(c5, W)
       /\ Unwindable(c6, W) /\ Unwindable(c7, W) /\ Unwindable(c8, W) /\ Unwindable(c9, W)
       /\ c1 \in Standing /\ c2 \in Standing /\ c3 \in Standing /\ c4 \in Standing /\ c5 \in Standing
       /\ c6 \in Standing /\ c7 \in Standing /\ c8 \in Standing /\ c9 \in Standing
  BY <1>4, <1>5, <1>6, <1>7, <1>8, <1>10, <1>12, <1>13, <1>14, ReadyStands DEF Ready
<1>18. m \in Seq(Standing) /\ Len(m) = 15 /\ m[1] = c1 /\ m[15] = c6
  BY <1>17
<1>19. \A i \in 1 .. 15 : Unwindable(m[i], W)
  BY <1>17
<1>20. \A i \in 1 .. 14 : Takes(n, t[i], m[i], m[i + 1])
  BY <1>5, <1>6, <1>7, <1>8, <1>11, <1>12, <1>13, <1>14, <1>15
<1>21. RecordMain = (Checked \o t) \o Loop
  BY DEF RecordMain
<1> HIDE DEF t, m
<1>22. Way(n, W, t, c1, c6)
  BY <1>16, <1>18, <1>19, <1>20, WaySteps, 15 = 14 + 1
<1>23. Way(n, W, Checked \o t, c0, c6)
  BY <1>4, <1>22, WayJoin
<1>24. Way(n, W, (Checked \o t) \o Loop, c0, c6)
  BY <1>10, <1>23, ReadyLoop
<1> QED BY <1>21, <1>24 DEF W, c0

\* The objects of main of mm-webreplay after its first i servers; h is all of them.
Hosts == [j \in DOMAIN WebServers |-> <<"held", WebServers[j]>>]
Hosted(h, i) == [j \in 1 .. i |-> h[j]]

LEMMA HostsIs ==
  /\ Len(WebServers) \in Nat /\ DOMAIN WebServers = 1 .. Len(WebServers)
  /\ \A j \in DOMAIN WebServers :
       /\ WebServers[j] \in Range(WebServers) /\ WebServers[j] \in Things
       /\ WebServers[j] \notin OtherObjects
       /\ Hosts[j] = <<"held", WebServers[j]>> /\ Hosts[j] \in Object
<1>1. Len(WebServers) \in Nat /\ DOMAIN WebServers = 1 .. Len(WebServers)
  BY ServersAssumption
<1>2. ASSUME NEW j \in DOMAIN WebServers
      PROVE  /\ WebServers[j] \in Range(WebServers) /\ WebServers[j] \notin OtherObjects
             /\ Hosts[j] = <<"held", WebServers[j]>>
  BY ServersAssumption DEF Range, Hosts
<1>3. ASSUME NEW x \in Range(WebServers) PROVE x \in Things /\ <<"held", x>> \in Object
  BY DEF Things, Object
<1> QED BY <1>1, <1>2, <1>3

LEMMA HostedIs ==
  ASSUME NEW L \in Nat, NEW h, \A j \in 1 .. L : h[j] \in Object, NEW i \in 0 .. L
  PROVE  /\ Hosted(h, i) \in Seq(Object) /\ Len(Hosted(h, i)) = i
         /\ \A e \in Range(Hosted(h, i)) : \E j \in 1 .. i : e = h[j]
         /\ \A j \in 1 .. i : h[j] \in Range(Hosted(h, i))
<1>1. i \in Nat /\ \A j \in 1 .. i : h[j] \in Object
  OBVIOUS
<1>2. Hosted(h, i) \in Seq(Object) /\ Len(Hosted(h, i)) = i
  BY <1>1 DEF Hosted
<1>3. DOMAIN Hosted(h, i) = 1 .. i /\ \A j \in 1 .. i : Hosted(h, i)[j] = h[j]
  BY DEF Hosted
<1> QED BY <1>2, <1>3 DEF Range

LEMMA HostedMore ==
  ASSUME NEW L \in Nat, NEW h, \A j \in 1 .. L : h[j] \in Object, NEW i \in 1 .. L
  PROVE  /\ i - 1 \in 0 .. L /\ Hosted(h, i) # <<>> /\ Hosted(h, i)[Len(Hosted(h, i))] = h[i]
         /\ Hosted(h, i) = Append(Hosted(h, i - 1), h[i]) /\ Front(Hosted(h, i)) = Hosted(h, i - 1)
<1> DEFINE o == Hosted(h, i - 1)
           q == Hosted(h, i)
           e == h[i]
<1>1. i - 1 \in 0 .. L /\ i \in 0 .. L
  OBVIOUS
<1>2. o \in Seq(Object) /\ Len(o) = i - 1 /\ q \in Seq(Object) /\ Len(q) = i /\ e \in Object
  BY <1>1, HostedIs
<1>3. q[i] = e /\ \A j \in 1 .. i - 1 : q[j] = o[j]
  BY DEF Hosted
<1> HIDE DEF o, q, e
<1>4. q = Append(o, e)
  BY <1>2, <1>3
<1>5. Front(Append(o, e)) = o
  BY <1>2, PushObject
<1>6. q # <<>>
  BY <1>2
<1> QED BY <1>1, <1>2, <1>3, <1>4, <1>5, <1>6 DEF o, q, e

\* They are for things of W.
HeldOf(h, L, W) ==
  \A j \in 1 .. L : h[j] \in Object /\ h[j][1] = "held" /\ h[j][2] \in W /\ h[j] = <<"held", h[j][2]>>

LEMMA HostedReady ==
  ASSUME NEW W, NEW L \in Nat, NEW h, NEW i \in 0 .. L, HeldOf(h, L, W)
  PROVE  LET c == Stand(TRUE, FALSE, Hosted(h, i)) IN
         Ready(c, W) /\ ~Sheltering(c) /\ \A j \in 1 .. i : Holding(c, h[j][2])
<1> DEFINE st(j) == Stand(TRUE, FALSE, Hosted(h, j))
           F == {st(j) : j \in 0 .. L}
<1>0. \A j \in 1 .. L : h[j] \in Object /\ h[j][1] = "held" /\ h[j][2] \in W /\ h[j] = <<"held", h[j][2]>>
  BY DEF HeldOf
<1>1. \A j \in 1 .. L : h[j] \in Object
  BY <1>0
<1>2. ASSUME NEW j \in 0 .. L
      PROVE  st(j) \in Standing /\ st(j).root = TRUE /\ st(j).env = FALSE /\ st(j).objs = Hosted(h, j)
  BY <1>1, HostedIs, StandIs
<1>3. ASSUME NEW j \in 0 .. L, NEW c, c = st(j)
      PROVE  ~Threading(c) /\ ~Sheltering(c) /\ Sound(c, W) /\ \A k \in 1 .. j : Holding(c, h[k][2])
  <2>1. c.root = TRUE /\ c.env = FALSE /\ c.objs = Hosted(h, j)
    BY <1>2, <1>3
  <2>2. \A e \in Range(c.objs) : \E k \in 1 .. j : e = h[k]
    <3> DEFINE o == Hosted(h, j)
    <3>1. \A e \in Range(o) : \E k \in 1 .. j : e = h[k]
      BY <1>1, HostedIs
    <3> HIDE DEF o
    <3>2. c.objs = o
      BY <2>1 DEF o
    <3> QED BY <3>1, <3>2
  <2>3. \A e \in Range(c.objs) : e[1] = "held" /\ e[2] \in W /\ e = <<"held", e[2]>>
    <3>1. ASSUME NEW e \in Range(c.objs) PROVE e[1] = "held" /\ e[2] \in W /\ e = <<"held", e[2]>>
      <4>1. PICK k \in 1 .. j : e = h[k]
        BY <2>2
      <4>2. k \in 1 .. L
        OBVIOUS
      <4> QED BY <1>0, <4>1, <4>2
    <3> QED BY <3>1
  <2>4. ~Threading(c)
    BY <2>3 DEF Threading
  <2>5. ~Sheltering(c)
    BY <2>3 DEF Sheltering, Shelters
  <2>6. \A x : Holding(c, x) => x \in W
    BY <2>3 DEF Holding
  <2>7. \A k \in 1 .. j : Holding(c, h[k][2])
    <3>1. \A k \in 1 .. j : h[k] \in Range(c.objs)
      BY <1>1, <2>1, HostedIs
    <3>2. \A k \in 1 .. j : k \in 1 .. L
      OBVIOUS
    <3> QED BY <1>0, <3>1, <3>2 DEF Holding
  <2>8. Sound(c, W)
    BY <2>1, <2>4, <2>5, <2>6 DEF Sound
  <2> QED BY <2>4, <2>5, <2>7, <2>8
<1>4. ASSUME NEW j \in 1 .. L PROVE j - 1 \in 0 .. L /\ Under(st(j)) = st(j - 1)
  <2>1. j \in 0 .. L
    OBVIOUS
  <2> DEFINE o == Hosted(h, j)
             q == Hosted(h, j - 1)
             c == st(j)
  <2>2. j - 1 \in 0 .. L /\ o[Len(o)][1] = "held" /\ Front(o) = q
    <3>1. j - 1 \in 0 .. L /\ o[Len(o)] = h[j] /\ Front(o) = q
      BY <1>1, HostedMore
    <3> QED BY <1>0, <3>1
  <2>3. c.root = TRUE /\ c.env = FALSE /\ c.objs = o
    BY <1>2, <2>1
  <2> HIDE DEF c, o, q
  <2>4. Under(c) = Stand(TRUE, FALSE, q)
    BY <2>2, <2>3 DEF Under
  <2> QED BY <2>2, <2>4 DEF c, q
<1>5. \A c \in F : Sound(c, W) /\ (c.objs # <<>> => Under(c) \in F)
  <2>1. ASSUME NEW j \in 0 .. L PROVE Sound(st(j), W) /\ (st(j).objs # <<>> => Under(st(j)) \in F)
    <3>1. CASE j = 0
      <4> DEFINE o == Hosted(h, j)
      <4>1. o \in Seq(Object) /\ Len(o) = j
        BY <1>1, HostedIs, Zenon
      <4> HIDE DEF o
      <4>2. o = <<>>
        BY <3>1, <4>1
      <4>3. st(j).objs = <<>>
        BY <1>2, <4>2 DEF o
      <4> QED BY <1>3, <4>3
    <3>2. CASE j # 0
      <4>1. j \in 1 .. L
        BY <3>2
      <4> QED BY <1>3, <1>4, <4>1
    <3> QED BY <3>1, <3>2
  <2> QED BY <2>1
<1>6. F \in SUBSET Standing /\ st(i) \in F
  BY <1>2
<1>7. Unwindable(st(i), W)
  <2> HIDE DEF F
  <2> QED BY <1>5, <1>6 DEF Unwindable
<1>8. st(i).root = TRUE /\ st(i).env = FALSE /\ ~Threading(st(i)) /\ ~Sheltering(st(i))
      /\ \A k \in 1 .. i : Holding(st(i), h[k][2])
  BY <1>2, <1>3
<1> QED BY <1>7, <1>8 DEF Ready

LEMMA HostedStep ==
  ASSUME NEW n, NEW W, NEW c, Ready(c, W), NEW x \in Things, NEW o, c.objs = o
  PROVE  Takes(n, <<"object", x>>, c, Stand(TRUE, FALSE, Append(o, <<"held", x>>)))
<1> DEFINE d == Stand(TRUE, FALSE, Append(o, <<"held", x>>))
<1>1. c.root = TRUE /\ c.env = FALSE
  BY ReadyStands, StandingIs DEF Ready
<1>2. x \notin {"unprivileged", "borrow", "threads", "pipe"}
  BY ServersAssumption DEF Things, Rules, OtherObjects, Range
<1>3. d = With(c, <<"held", x>>)
  BY <1>1 DEF With
<1> HIDE DEF d
<1>4. After(<<"object", x>>, c) = d
  <2>1. After(<<"object", x>>, c) = Made(x, c)
    BY DEF After
  <2> QED BY <1>3, <2>1, MadeKinds
<1>5. Allowed(n, <<"object", x>>, c)
  BY <1>2 DEF Allowed, Ready
<1> QED BY <1>4, <1>5 DEF Takes, d

LEMMA HostedWay ==
  ASSUME NEW n, NEW W, Range(WebServers) \subseteq W
  PROVE  \E d : /\ Way(n, W, Servers, Stand(TRUE, FALSE, <<>>), d)
                /\ Ready(d, W) /\ ~Sheltering(d) /\ \A x \in Range(WebServers) : Holding(d, x)
<1>1. PICK L : L = Len(WebServers)
  OBVIOUS
<1>2. PICK h : h = Hosts
  OBVIOUS
<1>3. PICK v : v = WebServers
  OBVIOUS
<1> DEFINE st(j) == Stand(TRUE, FALSE, Hosted(h, j))
           m == [i \in 1 .. L + 1 |-> st(i - 1)]
<1>4. L \in Nat /\ L + 1 \in Nat /\ DOMAIN v = 1 .. L
  BY <1>1, <1>3, HostsIs
<1>5. \A j \in 1 .. L :
        v[j] \in Things /\ v[j] \notin OtherObjects /\ h[j] = <<"held", v[j]>> /\ h[j] \in Object /\ v[j] \in W
  BY <1>2, <1>3, <1>4, HostsIs
<1>6. \A j \in 1 .. L :
        /\ h[j] \in Object /\ h[j][1] = "held" /\ h[j][2] \in W /\ h[j] = <<"held", h[j][2]>>
        /\ h[j][2] = v[j]
  BY <1>5
<1>7. Servers \in Seq(Statement) /\ Len(Servers) = L /\ \A i \in 1 .. L : Servers[i] = <<"object", v[i]>>
  <2>1. PICK f : f = [i \in 1 .. L |-> <<"object", v[i]>>]
    OBVIOUS
  <2>2. ASSUME NEW i \in 1 .. L PROVE f[i] = <<"object", v[i]>> /\ f[i] \in Statement
    <3>1. f[i] = <<"object", v[i]>>
      BY <2>1
    <3>2. v[i] \in OtherObjects \cup Range(WebServers)
      BY <1>1, <1>3, HostsIs
    <3> QED BY <3>1, <3>2 DEF Statement
  <2>3. DOMAIN f = 1 .. L /\ f = [i \in 1 .. L |-> f[i]]
    BY <2>1
  <2>4. f \in Seq(Statement) /\ Len(f) = L
    BY <1>4, <2>2, <2>3
  <2>5. Servers = f
    BY <1>3, <1>4, <2>1 DEF Servers
  <2> QED BY <2>2, <2>4, <2>5
<1>8. ASSUME NEW i \in 0 .. L PROVE Ready(st(i), W) /\ ~Sheltering(st(i)) /\ \A j \in 1 .. i : Holding(st(i), v[j])
  <2>0. HeldOf(h, L, W)
    BY <1>6 DEF HeldOf
  <2>1. Ready(st(i), W) /\ ~Sheltering(st(i)) /\ \A j \in 1 .. i : Holding(st(i), h[j][2])
    BY <1>4, <2>0, HostedReady
  <2>2. \A j \in 1 .. i : j \in 1 .. L
    BY <1>4
  <2> QED BY <1>6, <2>1, <2>2
<1>9. ASSUME NEW i \in 1 .. L PROVE Takes(n, Servers[i], st(i - 1), st(i))
  <2> DEFINE c == st(i - 1)
             o == Hosted(h, i - 1)
             x == v[i]
  <2>1. i - 1 \in 0 .. L /\ Hosted(h, i) = Append(o, h[i])
    BY <1>4, <1>6, HostedMore
  <2>2. o \in Seq(Object)
    BY <1>4, <1>6, <2>1, HostedIs
  <2>3. st(i) = Stand(TRUE, FALSE, Append(o, <<"held", x>>))
    BY <1>5, <2>1
  <2>4. Ready(c, W) /\ x \in Things /\ Servers[i] = <<"object", x>>
    BY <1>5, <1>7, <1>8, <2>1
  <2>5. c.objs = o
    BY <2>2, StandIs
  <2> HIDE DEF o, x, c, st
  <2>6. Takes(n, <<"object", x>>, c, Stand(TRUE, FALSE, Append(o, <<"held", x>>)))
    BY <2>4, <2>5, HostedStep
  <2> QED BY <2>3, <2>4, <2>6 DEF c
<1>10. st(0) = Stand(TRUE, FALSE, <<>>)
  <2>1. Hosted(h, 0) = <<>>
    BY DEF Hosted
  <2> QED BY <2>1
<1> HIDE DEF st
<1>11. ASSUME NEW i \in 0 .. L PROVE st(i) \in Standing /\ Unwindable(st(i), W)
  BY <1>8, ReadyStands DEF Ready
<1>12. m \in Seq(Standing) /\ Len(m) = L + 1
  <2>1. \A i \in 1 .. L + 1 : i - 1 \in 0 .. L
    BY <1>4
  <2>2. \A i \in 1 .. L + 1 : st(i - 1) \in Standing
    BY <1>11, <2>1
  <2> QED BY <1>4, <2>2
<1>13. \A i \in 1 .. L + 1 : i - 1 \in 0 .. L /\ m[i] = st(i - 1)
  BY <1>4
<1>14. m[1] = st(0) /\ m[L + 1] = st(L)
  BY <1>4, <1>13
<1>15. ASSUME NEW i \in 1 .. L PROVE m[i] = st(i - 1) /\ m[i + 1] = st(i)
  <2>1. i \in 1 .. L + 1 /\ i + 1 \in 1 .. L + 1 /\ (i + 1) - 1 = i
    BY <1>4
  <2> QED BY <1>13, <2>1
<1> HIDE DEF m
<1>16. \A i \in 1 .. L + 1 : Unwindable(m[i], W)
  BY <1>11, <1>13
<1>17. \A i \in 1 .. L : Takes(n, Servers[i], m[i], m[i + 1])
  BY <1>9, <1>15
<1>18. Way(n, W, Servers, st(0), st(L))
  BY <1>4, <1>7, <1>12, <1>14, <1>16, <1>17, WaySteps
<1>19. Ready(st(L), W) /\ ~Sheltering(st(L)) /\ \A x \in Range(WebServers) : Holding(st(L), x)
  <2>1. L \in 0 .. L
    BY <1>4
  <2>2. \A x \in Range(WebServers) : \E j \in 1 .. L : x = v[j]
    BY <1>3, <1>4 DEF Range
  <2> QED BY <1>8, <2>1, <2>2
<1> QED BY <1>10, <1>18, <1>19

\* The servers and the hosts file; the event loop with dnsmasq and the command.
LEMMA ReplayMainWay ==
  ASSUME NEW n, n \notin {"packet", "record", "proxy"}
  PROVE  LET W == Range(WebServers) \cup {"hosts"} IN
         \E d : Way(n, W, ReplayMain, Stand(TRUE, TRUE, <<>>), d)
<1> DEFINE W == Range(WebServers) \cup {"hosts"}
           c0 == Stand(TRUE, TRUE, <<>>)
           c1 == Stand(TRUE, FALSE, <<>>)
           b == Made("unprivileged", c1)
           a == << <<"object", "unprivileged">>, <<"user_try">>, <<"leave">>, <<"run">> >>
           t == << <<"object", "hosts">>, <<"event_loop">>, <<"run">>,
                   <<"fork", "dnsmasq">>, <<"adopt", "dnsmasq">>,
                   <<"fork", "command">>, <<"adopt", "command">> >>
           m == <<c1, b, b, c1, c1>>
<1>1. /\ <<"object", "unprivileged">> \in Statement /\ <<"user_try">> \in Statement /\ <<"leave">> \in Statement
      /\ <<"run">> \in Statement /\ <<"object", "hosts">> \in Statement /\ <<"event_loop">> \in Statement
      /\ <<"fork", "dnsmasq">> \in Statement /\ <<"adopt", "dnsmasq">> \in Statement
      /\ <<"fork", "command">> \in Statement /\ <<"adopt", "command">> \in Statement
  BY DEF Statement, OtherObjects, Procs
<1>2. /\ W \in SUBSET Things /\ Range(WebServers) \subseteq W /\ "hosts" \in W /\ "hosts" \in Things
      /\ \A x \in W : x \in Range(WebServers) \/ x = "hosts"
  BY DEF Things
<1>3. /\ "dnsmasq" \in Procs \ {"main"} /\ "command" \in Procs \ {"main"}
      /\ Begins(n, "dnsmasq") = Stand(TRUE, FALSE, <<>>) /\ Begins(n, "command") = Stand(TRUE, FALSE, <<>>)
  BY DEF Begins, Procs
<1> HIDE DEF W
<1>4. Ready(c1, W) /\ Way(n, W, Checked, c0, c1)
  BY MainStarts
<1>5. \E d : Way(n, W, Servers, c1, d) /\ Ready(d, W) /\ ~Sheltering(d) /\ \A x \in Range(WebServers) : Holding(d, x)
  BY <1>2, HostedWay
<1> HIDE DEF c0, c1
<1>6. PICK s : /\ Way(n, W, Servers, c1, s) /\ Ready(s, W) /\ ~Sheltering(s)
               /\ \A x \in Range(WebServers) : Holding(s, x)
  BY <1>5
<1>7. /\ Unwindable(b, W) /\ ~b.root /\ Takes(n, <<"object", "unprivileged">>, c1, b) /\ Takes(n, <<"leave">>, b, c1)
  BY <1>4, ReadyBlock DEF Ready
<1> HIDE DEF b
<1>8. Takes(n, <<"user_try">>, b, b)
  <2>1. After(<<"user_try">>, b) = b
    BY DEF After
  <2>2. Allowed(n, <<"user_try">>, b)
    BY <1>7 DEF Allowed, RunsCommand
  <2> QED BY <2>1, <2>2 DEF Takes
<1>9. Takes(n, <<"run">>, c1, c1)
  BY <1>1, <1>4, ReadyPlain
<1>10. Way(n, W, a, c1, c1)
  <2>1. a \in Seq(Statement) /\ Len(a) = 4
    BY <1>1
  <2>2. c1 \in Standing /\ b \in Standing /\ Unwindable(c1, W)
    BY <1>4, <1>7, ReadyStands, UnwindableIs DEF Ready
  <2>3. m \in Seq(Standing) /\ Len(m) = 5 /\ m[1] = c1 /\ m[5] = c1
    BY <2>2
  <2>4. (\A i \in 1 .. 5 : Unwindable(m[i], W)) /\ \A i \in 1 .. 4 : Takes(n, a[i], m[i], m[i + 1])
    BY <1>7, <1>8, <1>9, <2>2
  <2> HIDE DEF a, m
  <2> QED BY <2>1, <2>3, <2>4, WaySteps, 5 = 4 + 1
<1> DEFINE h == With(s, <<"held", "hosts">>)
           e == With(h, <<"event_loop">>)
           f == With(e, <<"child", "dnsmasq">>)
           k == With(e, <<"child", "command">>)
           q == <<s, h, e, e, f, e, k, e>>
<1>11. /\ Ready(h, W) /\ Takes(n, <<"object", "hosts">>, s, h)
       /\ \A y : Holding(h, y) <=> Holding(s, y) \/ y = "hosts"
  BY <1>2, <1>6, ReadyHolds
<1> HIDE DEF h
<1>12. \A x \in W : Holding(h, x)
  BY <1>2, <1>6, <1>11
<1>13. Ready(e, W) /\ \A x \in W : Holding(e, x)
  BY <1>2, <1>11, <1>12, ReadyWith
<1>14. Takes(n, <<"event_loop">>, h, e)
  BY <1>1, <1>11, ReadyStands, TakesPlain
<1> HIDE DEF e
<1>15. Takes(n, <<"run">>, e, e)
  BY <1>1, <1>13, ReadyPlain
<1>16. Ready(f, W) /\ Takes(n, <<"fork", "dnsmasq">>, e, f) /\ Takes(n, <<"adopt", "dnsmasq">>, f, e)
  BY <1>2, <1>3, <1>13, ReadyChild
<1>17. Ready(k, W) /\ Takes(n, <<"fork", "command">>, e, k) /\ Takes(n, <<"adopt", "command">>, k, e)
  BY <1>2, <1>3, <1>13, ReadyChild
<1> HIDE DEF f, k
<1>18. Way(n, W, t, s, e)
  <2>1. t \in Seq(Statement) /\ Len(t) = 7
    BY <1>1
  <2>2. /\ s \in Standing /\ h \in Standing /\ e \in Standing /\ f \in Standing /\ k \in Standing
        /\ Unwindable(s, W) /\ Unwindable(h, W) /\ Unwindable(e, W) /\ Unwindable(f, W) /\ Unwindable(k, W)
    BY <1>6, <1>11, <1>13, <1>16, <1>17, ReadyStands DEF Ready
  <2>3. q \in Seq(Standing) /\ Len(q) = 8 /\ q[1] = s /\ q[8] = e
    BY <2>2
  <2>4. (\A i \in 1 .. 8 : Unwindable(q[i], W)) /\ \A i \in 1 .. 7 : Takes(n, t[i], q[i], q[i + 1])
    BY <1>11, <1>14, <1>15, <1>16, <1>17, <2>2
  <2> HIDE DEF t, q
  <2> QED BY <2>1, <2>3, <2>4, WaySteps, 8 = 7 + 1
<1>19. ReplayMain = (((Checked \o a) \o Servers) \o t) \o Loop
  BY DEF ReplayMain
<1> HIDE DEF a, t
<1>20. Way(n, W, Checked \o a, c0, c1)
  BY <1>4, <1>10, WayJoin
<1>21. Way(n, W, (Checked \o a) \o Servers, c0, s)
  BY <1>6, <1>20, WayJoin
<1>22. Way(n, W, ((Checked \o a) \o Servers) \o t, c0, e)
  BY <1>18, <1>21, WayJoin
<1>23. Way(n, W, (((Checked \o a) \o Servers) \o t) \o Loop, c0, e)
  BY <1>13, <1>22, ReadyLoop
<1> QED BY <1>19, <1>23 DEF W, c0

\* Every process of every program has a way through its script.
LEMMA ScriptsWay ==
  ASSUME NEW g, NEW p \in Procs
  PROVE  \E d : Way(g.name, Wanted(g.name, p), Script(g, p), Begins(g.name, p), d)
<1>1. CASE p = "main"
  <2>1. Begins(g.name, p) = Stand(TRUE, TRUE, <<>>)
    BY <1>1 DEF Begins
  <2>2. CASE g.name = "packet"
    <3>1. Script(g, p) = PacketMain /\ Wanted(g.name, p) = {"nat_pre", "nat_post"}
      BY <1>1, <2>2 DEF Script, Wanted
    <3> QED BY <2>1, <2>2, <3>1, PacketMainWay
  <2>3. CASE g.name \in {"record", "proxy"}
    <3>1. Script(g, p) = RecordMain /\ Wanted(g.name, p) = {"nat_pre", "nat_post", "dnat", "veth"}
      BY <1>1, <2>3 DEF Script, Wanted, ProxyMain
    <3> QED BY <2>1, <2>3, <3>1, RecordMainWay
  <2>4. CASE g.name \notin {"packet", "record", "proxy"}
    <3>1. Script(g, p) = ReplayMain /\ Wanted(g.name, p) = Range(WebServers) \cup {"hosts"}
      BY <1>1, <2>4 DEF Script, Wanted, ReplayDelayMain
    <3> QED BY <2>1, <2>4, <3>1, ReplayMainWay
  <2> QED BY <2>2, <2>3, <2>4
<1>2. CASE p # "main"
  BY <1>2, OthersWay
<1> QED BY <1>1, <1>2

LEMMA InitCareful == Init => Careful
<1> SUFFICES ASSUME Init PROVE Careful
  OBVIOUS
<1>1. PICK g \in Programs : prog = [name |-> g.name, once |-> g.args.once, code |-> [p \in Procs |-> Script(g, p)]]
  BY DEF Init
<1>2. prog.name = g.name /\ \A p \in Procs : prog.code[p] = Script(g, p)
  BY <1>1
<1> DEFINE first == [Unborn EXCEPT !.mode = "runs", !.root = TRUE, !.env = TRUE]
<1>3. /\ first.mode = "runs" /\ first.pc = 1 /\ first.root = TRUE /\ first.env = TRUE /\ first.objs = <<>>
      /\ Unborn.mode = "none"
  BY DEF Unborn
<1> HIDE DEF first
<1>4. proc = [p \in Procs |-> IF p = "main" THEN first ELSE Unborn]
  BY DEF Init, first
<1>5. "main" \in Procs /\ proc["main"] = first /\ \A p \in Procs \ {"main"} : proc[p] = Unborn
  BY <1>4 DEF Procs
<1>6. ASSUME NEW p \in Procs PROVE Follows(prog.name, prog.code, p, proc[p])
  <2>1. PICK d : Way(g.name, Wanted(g.name, p), Script(g, p), Begins(g.name, p), d)
    BY ScriptsWay
  <2>2. PICK l : Leads(l, prog.code[p], prog.name, Wanted(prog.name, p)) /\ l[1] = Begins(prog.name, p)
    BY <1>2, <2>1 DEF Way
  <2>3. proc[p].mode = "runs" => Stands(proc[p]) = l[proc[p].pc]
    <3>1. CASE p = "main"
      <4>1. Begins(prog.name, p) = Stand(TRUE, TRUE, <<>>)
        BY <3>1 DEF Begins
      <4> QED BY <1>3, <1>5, <2>2, <3>1, <4>1 DEF Stands
    <3>2. CASE p # "main"
      BY <1>3, <1>5, <3>2
    <3> QED BY <3>1, <3>2
  <2>4. proc[p].mode # "leaves"
    BY <1>3, <1>5
  <2> QED BY <2>2, <2>3, <2>4 DEF Follows
<1>7. "veth" \in Wanted(prog.name, "main") => <<"fork", "command">> \notin Range(prog.code["main"])
  <2> SUFFICES ASSUME "veth" \in Wanted(prog.name, "main") PROVE <<"fork", "command">> \notin Range(prog.code["main"])
    OBVIOUS
  <2>1. "veth" \notin Range(WebServers)
    BY ServersAssumption DEF OtherObjects, Range
  <2>2. prog.name \in {"record", "proxy"}
    BY <2>1 DEF Wanted
  <2>3. prog.code["main"] = RecordMain
    BY <1>2, <1>5, <2>2 DEF Script, ProxyMain
  <2>4. Range(RecordMain) \cap Forks = {<<"fork", "first">>, <<"fork", "second">>}
    BY RecordMainOrdered DEF Major, Ordered, Late
  <2>5. <<"fork", "command">> \in Forks
    BY DEF Forks, Procs
  <2>6. <<"fork", "command">> \notin {<<"fork", "first">>, <<"fork", "second">>}
    OBVIOUS
  <2> QED BY <2>3, <2>4, <2>5, <2>6
<1>8. Owned
  <2>1. held = {} /\ inside = FALSE
    BY DEF Init
  <2>2. \A x : ~Holding(proc["main"], x)
    BY <1>3, <1>5 DEF Holding, Range
  <2> QED BY <2>1, <2>2 DEF Owned
<1>9. bugs = {}
  BY DEF Init
<1> QED BY <1>6, <1>7, <1>8, <1>9 DEF Careful

\* Every process stands where its script leads, and the things that main holds are held.
LEMMA Carefulness == Spec => [](IInv /\ Careful)
<1>1. Init => IInv /\ Careful
  BY InitIInv, InitCareful
<1>2. IInv /\ Careful /\ [Next]_vars => (IInv /\ Careful)'
  BY NextIInv, NextCareful
<1> QED BY <1>1, <1>2, PTL DEF Spec

\* The errors the code calls BUG (util.cc, system_runner.cc, child_process.cc, packetshell.cc)
\* never occur, in a destructor neither, wherever a call throws or a signal arrives.
THEOREM NoBugOccurs == Spec => []NoBug
<1>1. IInv /\ Careful => NoBug
  BY DEF Careful, NoBug
<1> QED BY <1>1, Carefulness, PTL

\* Who has a child in an object or in the event loop, or main above such a process.
LEMMA MainShelters ==
  ASSUME IInv, NEW k \in Procs \ {"main"}, Alive(k)
  PROVE  /\ proc["main"].mode \in {"runs", "leaves"} /\ Sheltering(proc["main"])
         /\ <<"fork", k>> \in Range(prog.code["main"]) \/ Alive("first")
<1>1. ASSUME NEW j \in Procs \ {"main"}, Alive(j), proc[j].parent = "main"
      PROVE  proc["main"].mode \in {"runs", "leaves"} /\ Sheltering(proc["main"])
             /\ <<"fork", j>> \in Range(prog.code["main"])
  <2>1. Minds(proc["main"], j) /\ <<"fork", j>> \in Range(prog.code["main"])
    BY <1>1 DEF IInv, Family, Minded, Alive, Lives
  <2>2. <<"child", j>> \in Shelters /\ <<"event_loop">> \in Shelters
    BY DEF Shelters
  <2>3. Sheltering(proc["main"])
    BY <2>1, <2>2 DEF Minds, Sheltering
  <2> QED BY <2>1, <2>3 DEF Minds
<1>2. CASE proc[k].parent = "main"
  BY <1>1, <1>2
<1>3. CASE proc[k].parent # "main"
  <2>1. Alive("first") /\ "first" \in Procs \ {"main"}
    BY <1>3, Parents DEF Procs
  <2>2. proc["first"].parent = "main"
    BY <2>1, Parents
  <2> QED BY <1>1, <2>1, <2>2
<1> QED BY <1>2, <1>3

\* As long as a process lives that main waits for, nothing is taken down.
LEMMA AllIsHeld ==
  ASSUME IInv, Careful, NEW k \in Procs \ {"main"}, Alive(k),
         "veth" \in Wanted(prog.name, "main") => k = "command"
  PROVE  held = Wanted(prog.name, "main")
<1> DEFINE W == Wanted(prog.name, "main")
           o == proc["main"]
<1>1. o.mode \in {"runs", "leaves"} /\ Sheltering(o) /\ (<<"fork", k>> \in Range(prog.code["main"]) \/ Alive("first"))
  BY MainShelters
<1>2. "main" \in Procs /\ o \in Process
  BY DEF IInv, Family, Procs
<1>3. Unwindable(Stands(o), W)
  <2>1. Follows(prog.name, prog.code, "main", o)
    BY <1>2 DEF Careful
  <2>2. PICK l : /\ Leads(l, prog.code["main"], prog.name, W)
                 /\ o.mode = "runs" => Stands(o) = l[o.pc]
                 /\ o.mode = "leaves" => Unwindable(Stands(o), W)
    BY <2>1 DEF Follows
  <2>3. o.pc \in Nat
    BY <1>2 DEF Process
  <2> QED BY <1>1, <2>2, <2>3 DEF Leads
<1>4. Stands(o).objs = o.objs
  BY <1>2, StandsIs
<1> HIDE DEF o
<1>5. \A x \in W : Holding(o, x)
  <2>1. Sound(Stands(o), W)
    BY <1>3, UnwindableIs
  <2>2. Sheltering(Stands(o))
    BY <1>1, <1>4 DEF Sheltering
  <2>3. \A x \in W : Holding(Stands(o), x)
    BY <2>1, <2>2 DEF Sound
  <2> QED BY <1>4, <2>3 DEF Holding
<1>6. W \subseteq Things
  BY DEF Wanted, Things, Rules
<1>7. ASSUME "veth" \in W PROVE ~Gone("first")
  <2>1. <<"fork", k>> \notin Range(prog.code["main"])
    BY <1>7 DEF Careful
  <2> QED BY <1>1, <2>1 DEF Alive, Gone
<1>8. held \subseteq W
  BY DEF Careful, Owned
<1>9. \A x \in Things : Holding(o, x) => x \in held \/ (x = "veth" /\ Gone("first"))
  <2>1. Established(o)
    BY <1>1 DEF Established
  <2> QED BY <2>1 DEF Careful, Owned, o
<1> HIDE DEF W
<1>10. W \subseteq held
  BY <1>5, <1>6, <1>7, <1>9
<1> QED BY <1>8, <1>10 DEF W

\* While the user's command runs, the rules, devices and servers its traffic depends on are
\* there, during shutdown too; and so is the hosts file of mm-webreplay while dnsmasq runs: the
\* order of the local objects in the mains, which ~EventLoop and ~ChildProcess wait in.
THEOREM UsersAreServed == Spec => []UsersDieFirst
<1>1. ASSUME IInv, Careful PROVE UsersDieFirst
  <2>1. "hosts" \notin Range(WebServers) /\ "veth" \notin Range(WebServers)
    BY ServersAssumption DEF OtherObjects, Range
  <2>2. ASSUME proc["command"].mode = "user"
        PROVE  held \ {"hosts"} = CASE prog.name = "packet" -> {"nat_pre", "nat_post"}
                                    [] prog.name \in {"record", "proxy"} -> {"nat_pre", "nat_post", "dnat", "veth"}
                                    [] OTHER -> Range(WebServers)
    <3>1. "command" \in Procs \ {"main"} /\ Alive("command")
      BY <2>2 DEF Procs, Alive
    <3>2. held = Wanted(prog.name, "main")
      BY <1>1, <3>1, AllIsHeld
    <3> QED BY <2>1, <3>2 DEF Wanted
  <2>3. ASSUME prog.name \notin {"packet", "record", "proxy"}, proc["dnsmasq"].mode = "user"
        PROVE  "hosts" \in held
    <3>1. "dnsmasq" \in Procs \ {"main"} /\ Alive("dnsmasq")
      BY <2>3 DEF Procs, Alive
    <3>2. Wanted(prog.name, "main") = Range(WebServers) \cup {"hosts"}
      BY <2>3 DEF Wanted
    <3>3. held = Wanted(prog.name, "main")
      BY <1>1, <2>1, <3>1, <3>2, AllIsHeld
    <3> QED BY <3>2, <3>3
  <2> QED BY <2>2, <2>3 DEF UsersDieFirst
<1>2. IInv /\ Careful => UsersDieFirst
  BY <1>1
<1> QED BY <1>2, Carefulness, PTL
-----------------------------------------------------------------------------
(***************************************************************************)
(* EventLoop, the loop that Shell has one statement for: its types, that   *)
(* what the parent caches of its children is never wrong, and that no      *)
(* child is overlooked, for any number of children.                        *)
(***************************************************************************)
(***************************************************************************)
(* The kernel's report of a child agrees with the child's state, and a     *)
(* terminated child has nothing more to report.                            *)
(***************************************************************************)
ReportOK(c) ==
  /\ change[c] = "exited" => os[c] = "zombie"
  /\ change[c] = "stopped" => os[c] = "stopped"
  /\ change[c] = "continued" => os[c] = "running"
  /\ terminated[c] => os[c] = "zombie"
  /\ terminated[c] => change[c] = "none"

\* CachedStateFresh, for one child.
CacheOK(c) ==
  change[c] = "none" =>
    /\ terminated[c] <=> os[c] = "zombie"
    /\ ~terminated[c] => (running[c] <=> os[c] = "running")

\* The loops wait only for a child they have, and that has not been reaped.
AtOK ==
  pc \in {"wait", "reap"} => at <= NumChildren /\ ~terminated[at]

ChildInv ==
  /\ EventLoopConstants /\ TypeOK
  /\ \A c \in Children : ReportOK(c) /\ CacheOK(c)
  /\ AtOK

-----------------------------------------------------------------------------
LEMMA ChildInitially == EventLoopConstants /\ LoopInit => ChildInv
<1> SUFFICES ASSUME EventLoopConstants, LoopInit PROVE ChildInv
  OBVIOUS
<1>1. TypeOK
  BY DEF EventLoopConstants, LoopInit, TypeOK, Children
<1>2. ASSUME NEW c \in Children PROVE ReportOK(c) /\ CacheOK(c)
  BY DEF LoopInit, ReportOK, CacheOK
<1>3. AtOK
  BY DEF LoopInit, AtOK
<1> QED BY <1>1, <1>2, <1>3 DEF ChildInv

-----------------------------------------------------------------------------
(* The kernel's steps. *)

LEMMA ExitsStep == ASSUME ChildInv, NEW c \in Children, ChildExits(c) PROVE ChildInv'
<1>1. TypeOK'
  BY DEF ChildInv, EventLoopConstants, TypeOK, ChildExits, parent
<1>2. ASSUME NEW d \in Children PROVE ReportOK(d)' /\ CacheOK(d)'
  BY DEF ChildInv, TypeOK, ChildExits, parent, ReportOK, CacheOK
<1>3. AtOK'
  BY DEF ChildInv, ChildExits, parent, AtOK
<1> QED BY <1>1, <1>2, <1>3 DEF ChildInv

LEMMA StopsStep == ASSUME ChildInv, NEW c \in Children, Stops(c) PROVE ChildInv'
<1>1. TypeOK'
  BY DEF ChildInv, EventLoopConstants, TypeOK, Stops, parent
<1>2. ASSUME NEW d \in Children PROVE ReportOK(d)' /\ CacheOK(d)'
  BY DEF ChildInv, TypeOK, Stops, parent, ReportOK, CacheOK
<1>3. AtOK'
  BY DEF ChildInv, Stops, parent, AtOK
<1> QED BY <1>1, <1>2, <1>3 DEF ChildInv

\* Waking some children leaves kernel and cache in agreement.
LEMMA ContinuedKeeps ==
  ASSUME ChildInv, NEW C, Continued(C), UNCHANGED <<running, terminated>>
  PROVE  /\ os' \in [Children -> {"running", "stopped", "zombie"}]
         /\ change' \in [Children -> {"none", "exited", "stopped", "continued"}]
         /\ \A d \in Children : ReportOK(d)' /\ CacheOK(d)'
<1>1. os' \in [Children -> {"running", "stopped", "zombie"}]
  BY DEF ChildInv, TypeOK, Continued
<1>2. change' \in [Children -> {"none", "exited", "stopped", "continued"}]
  BY DEF ChildInv, TypeOK, Continued
<1>3. ASSUME NEW d \in Children PROVE ReportOK(d)' /\ CacheOK(d)'
  <2>1. CASE d \in C /\ os[d] = "stopped"
    <3>1. os'[d] = "running" /\ change'[d] = "continued"
      BY <2>1 DEF Continued
    <3> QED BY <2>1, <3>1 DEF ChildInv, ReportOK, CacheOK
  <2>2. CASE ~(d \in C /\ os[d] = "stopped")
    <3>1. os'[d] = os[d] /\ change'[d] = change[d]
      BY <2>2 DEF Continued
    <3> QED BY <3>1 DEF ChildInv, ReportOK, CacheOK
  <2> QED BY <2>1, <2>2
<1> QED BY <1>1, <1>2, <1>3

LEMMA ContinuesChildStep == ASSUME ChildInv, NEW c \in Children, ContinuesChild(c) PROVE ChildInv'
<1>1. Continued({c}) /\ UNCHANGED <<running, terminated>>
  BY DEF ContinuesChild, parent
<1>2. TypeOK'
  BY <1>1, ContinuedKeeps DEF ChildInv, TypeOK, ContinuesChild, parent
<1>3. AtOK'
  BY DEF ChildInv, ContinuesChild, parent, AtOK
<1> QED BY <1>1, <1>2, <1>3, ContinuedKeeps DEF ChildInv

\* A step that changes nothing of the children, seen or cached.
LEMMA QuietStep ==
  ASSUME ChildInv, UNCHANGED <<processes, running, terminated>>,
         pending' \subseteq {"CHLD", "CONT", "QUIT"},
         self' \in {"running", "stopped"},
         pc' \in {"poll", "search", "wait", "destroy", "reap", "done"},
         at' \in 1..(NumChildren + 1),
         outcome' \in {"none", "exit", "threw"},
         AtOK'
  PROVE  ChildInv'
<1>1. TypeOK'
  BY DEF ChildInv, TypeOK, processes
<1>2. ASSUME NEW d \in Children PROVE ReportOK(d)' /\ CacheOK(d)'
  BY DEF ChildInv, processes, ReportOK, CacheOK
<1> QED BY <1>1, <1>2 DEF ChildInv

-----------------------------------------------------------------------------
(* The parent's steps that only move its program counter, or take a signal. *)

LEMMA MovesStep ==
  ASSUME ChildInv,
         \/ ContinuesParent \/ AsksToQuit \/ ReadQuit \/ ReadChld
         \/ SkipChild \/ FindChild \/ SearchOver \/ SkipTerminated \/ Destroyed
  PROVE  ChildInv'
<1>0. EventLoopConstants
  BY DEF ChildInv
<1> USE <1>0 DEF EventLoopConstants
<1>1. CASE ContinuesParent
  BY <1>1, QuietStep DEF ContinuesParent, parent, ChildInv, TypeOK, AtOK
<1>2. CASE AsksToQuit
  BY <1>2, QuietStep DEF AsksToQuit, parent, ChildInv, TypeOK, AtOK
<1>3. CASE ReadQuit
  BY <1>3, QuietStep DEF ReadQuit, Finish, ChildInv, TypeOK, AtOK
<1>4. CASE ReadChld
  BY <1>4, QuietStep DEF ReadChld, ChildInv, TypeOK, AtOK
<1>5. CASE SkipChild
  BY <1>5, QuietStep DEF SkipChild, ChildInv, TypeOK, AtOK
<1>6. CASE FindChild
  BY <1>6, QuietStep DEF FindChild, ChildInv, TypeOK, AtOK
<1>7. CASE SearchOver
  BY <1>7, QuietStep DEF SearchOver, ChildInv, TypeOK, AtOK
<1>8. CASE SkipTerminated
  BY <1>8, QuietStep DEF SkipTerminated, ChildInv, TypeOK, AtOK
<1>9. CASE Destroyed
  BY <1>9, QuietStep DEF Destroyed, ChildInv, TypeOK, AtOK
<1> QED BY <1>1, <1>2, <1>3, <1>4, <1>5, <1>6, <1>7, <1>8, <1>9

LEMMA ReadContStep == ASSUME ChildInv, ReadCont PROVE ChildInv'
<1>1. Continued(ToResume) /\ UNCHANGED <<running, terminated>>
  BY DEF ReadCont, parent
<1>2. TypeOK'
  BY <1>1, ContinuedKeeps DEF ChildInv, TypeOK, ReadCont, parent
<1>3. AtOK'
  BY DEF ChildInv, ReadCont, parent, AtOK
<1> QED BY <1>1, <1>2, <1>3, ContinuedKeeps DEF ChildInv

LEMMA TerminateStep == ASSUME ChildInv, Terminate PROVE ChildInv'
<1>1. Continued({at} \cap ToResume) /\ UNCHANGED <<running, terminated>>
  BY DEF Terminate
<1>2. doomed' \in [Children -> BOOLEAN]
  BY DEF ChildInv, TypeOK, Terminate
<1>3. TypeOK'
  BY <1>1, <1>2, ContinuedKeeps DEF ChildInv, TypeOK, Terminate
<1>4. AtOK'
  BY DEF ChildInv, Terminate, AtOK
<1> QED BY <1>1, <1>3, <1>4, ContinuedKeeps DEF ChildInv

-----------------------------------------------------------------------------
(* ChildProcess::wait. *)

\* What wait() takes over from the kernel is the child's state.
LEMMA WaitKeeps ==
  ASSUME ChildInv, NEW c \in Children, ~terminated[c], change[c] # "none", Wait(c), os' = os
  PROVE  /\ change' \in [Children -> {"none", "exited", "stopped", "continued"}]
         /\ running' \in [Children -> BOOLEAN]
         /\ terminated' \in [Children -> BOOLEAN]
         /\ \A d \in Children : ReportOK(d)' /\ CacheOK(d)'
<1> USE DEF ChildInv, TypeOK
<1>1. /\ change' \in [Children -> {"none", "exited", "stopped", "continued"}]
      /\ terminated' \in [Children -> BOOLEAN]
  BY DEF Wait
<1>2. running' \in [Children -> BOOLEAN]
  BY DEF Wait
<1>3. /\ change'[c] = "none"
      /\ terminated'[c] <=> change[c] = "exited"
      /\ change[c] = "stopped" => ~running'[c]
      /\ change[c] = "continued" => running'[c]
  BY DEF Wait
<1>4. ReportOK(c)' /\ CacheOK(c)'
  BY <1>3 DEF ReportOK, CacheOK
<1>5. ASSUME NEW d \in Children, d # c PROVE ReportOK(d)' /\ CacheOK(d)'
  <2>1. change'[d] = change[d] /\ running'[d] = running[d] /\ terminated'[d] = terminated[d]
    BY <1>5 DEF Wait
  <2> QED BY <2>1 DEF ReportOK, CacheOK
<1> QED BY <1>1, <1>2, <1>4, <1>5

LEMMA WaitForChildStep == ASSUME ChildInv, WaitForChild \/ Reap PROVE ChildInv'
<1>0. EventLoopConstants
  BY DEF ChildInv
<1> USE <1>0 DEF EventLoopConstants
<1>1. /\ at \in Children /\ ~terminated[at] /\ change[at] # "none"
      /\ Wait(at) /\ os' = os
  BY DEF ChildInv, TypeOK, AtOK, Children, WaitForChild, WaitExited, WaitStopped, WaitContinued, Reap
<1>2. UNCHANGED <<code, doomed, stops>>
  BY DEF WaitForChild, WaitExited, WaitStopped, WaitContinued, Reap
<1>3. /\ pending' \subseteq {"CHLD", "CONT", "QUIT"}
      /\ self' \in {"running", "stopped"}
  BY DEF ChildInv, TypeOK, WaitForChild, WaitExited, WaitStopped, WaitContinued, Reap
<1>4. /\ pc' \in {"poll", "search", "destroy"}
      /\ at' \in 1..(NumChildren + 1)
      /\ outcome' \in {"none", "exit", "threw"}
  <2>1. CASE WaitExited
    BY <2>1 DEF ChildInv, TypeOK, WaitExited, Finish
  <2>2. CASE WaitStopped \/ WaitContinued \/ Reap
    BY <1>1, <2>2 DEF ChildInv, TypeOK, Children, WaitStopped, WaitContinued, Reap
  <2> QED BY <2>1, <2>2 DEF WaitForChild
<1>5. TypeOK'
  BY <1>1, <1>2, <1>3, <1>4, WaitKeeps DEF ChildInv, TypeOK
<1>6. AtOK'
  BY <1>4 DEF AtOK
<1> QED BY <1>1, <1>5, <1>6, WaitKeeps DEF ChildInv

-----------------------------------------------------------------------------
LEMMA ChildInductive == ASSUME ChildInv, [LoopNext]_loop_vars PROVE ChildInv'
<1>1. CASE \E c \in Children : Child(c)
  BY <1>1, ExitsStep, StopsStep, ContinuesChildStep DEF Child
<1>2. CASE ContinuesParent \/ AsksToQuit
  BY <1>2, MovesStep
<1>3. CASE HandleSignal
  BY <1>3, MovesStep, ReadContStep, WaitForChildStep DEF HandleSignal
<1>4. CASE Destroy
  BY <1>4, MovesStep, TerminateStep, WaitForChildStep DEF Destroy
<1>5. CASE UNCHANGED loop_vars
  BY <1>5, QuietStep DEF loop_vars, parent, ChildInv, TypeOK, AtOK
<1> QED BY <1>1, <1>2, <1>3, <1>4, <1>5 DEF LoopNext

\* The types of the loop's variables; in particular the loops over
\* child_processes_ (event_loop.cc:42 and the destructors) stay within it.
THEOREM SupervisorTypeCorrect == LoopSpec => []TypeOK
<1>1. LoopInit => ChildInv
  BY ChildInitially, EventLoopAssumption
<1>2. ChildInv /\ [LoopNext]_loop_vars => ChildInv'
  BY ChildInductive
<1>3. ChildInv => TypeOK
  BY DEF ChildInv
<1> QED BY <1>1, <1>2, <1>3, PTL DEF LoopSpec

\* running_ and terminated_ (child_process.cc:105-126) are what the kernel
\* knows of a child, unless waitid has something to report of it.
THEOREM CacheIsFresh == LoopSpec => []CachedStateFresh
<1>1. LoopInit => ChildInv
  BY ChildInitially, EventLoopAssumption
<1>2. ChildInv /\ [LoopNext]_loop_vars => ChildInv'
  BY ChildInductive
<1>3. ChildInv => CachedStateFresh
  BY DEF ChildInv, CacheOK, CachedStateFresh
<1> QED BY <1>1, <1>2, <1>3, PTL DEF LoopSpec

-----------------------------------------------------------------------------
(***************************************************************************)
(* No child is overlooked, as long as no child exits with the status that  *)
(* add_child_process names as its continue status: -1, which no status is, *)
(* unless the caller names one.                                            *)
(***************************************************************************)
NoContinueStatus == \A c \in Children : ContinueStatus[c] \notin Statuses

\* A child with something to report is still announced, or the search has yet
\* to come to it, or the loop has ended.
Announced(c) ==
  change[c] # "none" =>
    \/ "CHLD" \in pending
    \/ pc \in {"search", "wait"} /\ at <= c
    \/ pc \in {"destroy", "reap", "done"}

\* What a child exits with.
CodeOK(c) == change[c] = "exited" => code[c] \in Statuses

Watched == \A c \in Children : Announced(c) /\ CodeOK(c)

\* The children that run, stop and exit announce it.
LEMMA ChildWatched ==
  ASSUME ChildInv, Watched, NEW c \in Children, Child(c)
  PROVE  Watched'
<1>1. "CHLD" \in pending'
  BY DEF Child, ChildExits, Stops, ContinuesChild
<1>2. ASSUME NEW d \in Children PROVE CodeOK(d)'
  <2>1. CASE ChildExits(c)
    BY <2>1 DEF ChildInv, TypeOK, ChildExits, Watched, CodeOK
  <2>2. CASE Stops(c)
    BY <2>2 DEF ChildInv, TypeOK, Stops, Watched, CodeOK
  <2>3. CASE ContinuesChild(c)
    BY <2>3 DEF ChildInv, TypeOK, ContinuesChild, Continued, Watched, CodeOK
  <2> QED BY <2>1, <2>2, <2>3 DEF Child
<1> QED BY <1>1, <1>2 DEF Watched, Announced

\* Whoever is continued by the parent is announced by the kernel.
LEMMA ContinuedWatched ==
  ASSUME ChildInv, Watched, NEW C, Continued(C), code' = code,
         (pc' = pc /\ at' = at) \/ pc' \in {"destroy", "reap", "done"},
         pending \ {"CONT"} \subseteq pending', os' # os => "CHLD" \in pending'
  PROVE  Watched'
<1> SUFFICES ASSUME NEW c \in Children PROVE Announced(c)' /\ CodeOK(c)'
  BY DEF Watched
<1>1. change'[c] = "continued" \/ change'[c] = change[c]
  BY DEF Continued
<1>2. CodeOK(c)'
  BY <1>1 DEF Watched, CodeOK
<1>3. CASE change'[c] = change[c]
  BY <1>2, <1>3 DEF Watched, Announced
<1>4. CASE change'[c] # change[c]
  <2>1. os[c] = "stopped" /\ os'[c] = "running"
    BY <1>4 DEF Continued
  <2> QED BY <1>2, <2>1 DEF Announced
<1> QED BY <1>3, <1>4

\* wait() takes the report of one child and leaves those of the others.
LEMMA WaitWatched ==
  ASSUME NoContinueStatus, ChildInv, Watched, WaitForChild \/ Reap
  PROVE  Watched'
<1> SUFFICES ASSUME NEW c \in Children PROVE Announced(c)' /\ CodeOK(c)'
  BY DEF Watched
<1>1. at \in Children /\ change[at] # "none" /\ Wait(at) /\ code' = code
  BY DEF ChildInv, TypeOK, AtOK, Children, WaitForChild, WaitExited, WaitStopped, WaitContinued, Reap
<1>2. c = at => change'[c] = "none"
  BY <1>1 DEF Wait, ChildInv, TypeOK
<1>3. c # at => change'[c] = change[c]
  BY <1>1 DEF Wait
<1>4. CodeOK(c)'
  BY <1>1, <1>2, <1>3 DEF Watched, CodeOK
<1>5. Announced(c)
  BY DEF Watched
<1>6. CASE WaitExited
  <2>1. code[at] # ContinueStatus[at]
    BY <1>1, <1>6 DEF WaitExited, Watched, CodeOK, NoContinueStatus
  <2>2. pc' = "destroy"
    BY <1>6, <2>1 DEF WaitExited, Finish
  <2> QED BY <1>4, <2>2 DEF Announced
<1>7. CASE WaitStopped \/ WaitContinued
  <2>1. /\ pc = "wait" /\ pc' = "search" /\ at' = at + 1
        /\ pending \ {"CONT"} \subseteq pending'
    BY <1>7 DEF WaitStopped, WaitContinued
  <2>2. c # at /\ at <= c => at + 1 <= c
    BY <1>1 DEF Children
  <2> QED BY <1>2, <1>3, <1>4, <1>5, <2>1, <2>2 DEF Announced
<1>8. CASE Reap
  BY <1>4, <1>8 DEF Reap, Announced
<1> QED BY <1>6, <1>7, <1>8 DEF WaitForChild

LEMMA SearchWatched ==
  ASSUME ChildInv, Watched, ReadChld \/ SkipChild \/ FindChild \/ SearchOver
  PROVE  Watched'
<1> SUFFICES ASSUME NEW c \in Children PROVE Announced(c)' /\ CodeOK(c)'
  BY DEF Watched
<1>1. change' = change /\ code' = code
  BY DEF ReadChld, SkipChild, FindChild, SearchOver, processes
<1>2. CodeOK(c)' /\ Announced(c)
  BY <1>1 DEF Watched, CodeOK
<1>3. c \in 1..NumChildren /\ at \in Nat
  BY DEF Children, ChildInv, TypeOK
<1>4. CASE ReadChld
  BY <1>2, <1>3, <1>4 DEF ReadChld, Announced
<1>5. CASE SkipChild
  <2>1. c = at => change[c] = "none"
    BY <1>5 DEF SkipChild, ChildInv, ReportOK
  <2> QED BY <1>1, <1>2, <1>3, <1>5, <2>1 DEF SkipChild, Announced
<1>6. CASE FindChild
  BY <1>1, <1>2, <1>6 DEF FindChild, Announced
<1>7. CASE SearchOver
  BY <1>1, <1>2, <1>3, <1>7 DEF ChildInv, EventLoopConstants, SearchOver, Announced
<1> QED BY <1>4, <1>5, <1>6, <1>7

LEMMA StepWatched ==
  ASSUME NoContinueStatus, ChildInv, Watched, [LoopNext]_loop_vars
  PROVE  Watched'
<1>1. CASE \E c \in Children : Child(c)
  BY <1>1, ChildWatched
<1>2. CASE ReadCont
  <2>1. Continued(ToResume) /\ code' = code /\ pc' = pc /\ at' = at
    BY <1>2 DEF ReadCont, parent
  <2>2. pending \ {"CONT"} \subseteq pending' /\ (os' # os => "CHLD" \in pending')
    BY <1>2 DEF ReadCont
  <2> QED BY <2>1, <2>2, ContinuedWatched
<1>3. CASE Terminate
  <2>1. Continued({at} \cap ToResume) /\ code' = code /\ pc' = "reap"
    BY <1>3 DEF Terminate
  <2>2. pending \ {"CONT"} \subseteq pending' /\ (os' # os => "CHLD" \in pending')
    BY <1>3 DEF Terminate
  <2> QED BY <2>1, <2>2, ContinuedWatched
<1>4. CASE WaitForChild \/ Reap
  BY <1>4, WaitWatched
<1>5. CASE ReadChld \/ SkipChild \/ FindChild \/ SearchOver
  BY <1>5, SearchWatched
<1>6. CASE ContinuesParent \/ AsksToQuit \/ UNCHANGED loop_vars
  <2>1. /\ UNCHANGED <<change, code, pc, at>> /\ pending \subseteq pending'
    BY <1>6 DEF ContinuesParent, AsksToQuit, loop_vars, processes, parent
  <2> QED BY <2>1 DEF Watched, Announced, CodeOK
<1>7. CASE ReadQuit \/ SkipTerminated \/ Destroyed
  <2>1. UNCHANGED <<change, code>> /\ pc' \in {"destroy", "done"}
    BY <1>7 DEF ReadQuit, Finish, SkipTerminated, Destroyed, processes
  <2> QED BY <2>1 DEF Watched, Announced, CodeOK
<1> QED BY <1>1, <1>2, <1>3, <1>4, <1>5, <1>6, <1>7 DEF LoopNext, HandleSignal, Destroy

\* NoneOverlooked holds of every state: "we can't count on getting exactly one
\* SIGCHLD per waitable event, so search" (event_loop.cc:40-41) finds them all,
\* for any number of children, stops and signals.  Where a continue status is
\* used it does not: WaitExited gives the search up.
THEOREM NobodyOverlooked ==
  ASSUME NoContinueStatus
  PROVE  LoopSpec => []NoneOverlooked
<1>1. LoopInit => ChildInv /\ Watched
  BY ChildInitially, EventLoopAssumption DEF LoopInit, Watched, Announced, CodeOK
<1>2. ChildInv /\ Watched /\ [LoopNext]_loop_vars => (ChildInv /\ Watched)'
  BY ChildInductive, StepWatched
<1>3. Watched => NoneOverlooked
  BY DEF Watched, Announced, NoneOverlooked
<1> QED BY <1>1, <1>2, <1>3, PTL DEF LoopSpec
=============================================================================

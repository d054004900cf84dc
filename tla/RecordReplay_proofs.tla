------------------------- MODULE RecordReplay_proofs ------------------------
(***************************************************************************)
(* Proofs about RecordReplay: what a recorder's threads leave behind when  *)
(* they end, what the disk and the timers have of them, and what a replay  *)
(* of the directory answers; for any connections, requests and peers.      *)
(***************************************************************************)
EXTENDS RecordReplay, Sums_proofs

(***************************************************************************)
(* One connection: its thread's place p, round r, counts k and ends f, the *)
(* peers x that have reset it, and the number n of its requests.           *)
(***************************************************************************)
Places == {"none", "new", "start rtt", "connect", "stop rtt", "connect TLS", "accept TLS", "poll",
           "service", "start load", "stop load", "save", "serialize", "exit", "threw"}

Amounts == [sent : Nat, parsed : Nat, forwarded : Nat, answered : Nat, received : Nat, delivered : Nat]

Ends == [ended : SUBSET Sides, seen : SUBSET Sides]

\* The callbacks of a Poller::poll.
Turn == Seq(Actions \cup {"exit"})

\* Nothing overtakes what it comes from.
InOrder(k, n) ==
  /\ k \in Amounts
  /\ k.delivered <= k.received /\ k.received <= k.answered /\ k.answered <= k.forwarded
  /\ k.forwarded <= k.parsed /\ k.parsed <= k.sent /\ k.sent <= n

\* Once the server's end is read, all it will ever have answered is.
EndsRead(k, f) ==
  /\ f \in Ends /\ f.seen \subseteq f.ended
  /\ "server" \in f.seen => k.received = k.answered

\* A callback that writes has something to write.
HasWork(a, k) ==
  /\ a = "server out" => k.forwarded < k.parsed
  /\ a = "client out" => k.delivered < k.received

Turns(p, r, k, x) ==
  /\ r \in Turn /\ x \in SUBSET Sides
  /\ \A i, j \in DOMAIN r : r[i] = r[j] => i = j
  /\ \A i \in DOMAIN r : r[i] = "exit" => x # {}
  /\ p = "start load" => r # <<>> /\ r[1] = "server out"
  /\ p \in {"stop load", "save", "serialize"} => r # <<>> /\ r[1] = "client out"
  /\ p \in {"save", "serialize"} => k.delivered # 0
  /\ p \in {"service", "start load", "stop load"} => \A i \in DOMAIN r : HasWork(r[i], k)
  /\ p \in {"save", "serialize"} => \A i \in DOMAIN r : i # 1 => HasWork(r[i], k)

\* A thread that has left its loop for want of interest.
NothingDue(p, k, f, x) ==
  p = "exit" /\ x = {} => k.parsed = k.forwarded /\ k.received = k.delivered /\ f.seen # {}

ThreadOK(p, r, k, f, x, n) ==
  p \in Places /\ InOrder(k, n) /\ EndsRead(k, f) /\ Turns(p, r, k, x) /\ NothingDue(p, k, f, x)

Total(c) == Len(Requests(c))

Recorders == {"loop", "print", "exited", "crashed"}

ThreadsOK ==
  /\ script \in Scripts /\ recorder \in Recorders
  /\ pc \in [Connections -> Places] /\ round \in [Connections -> Turn]
  /\ count \in [Connections -> Amounts] /\ fin \in [Connections -> Ends]
  /\ reset \in [Connections -> SUBSET Sides]
  /\ \A c \in Connections : ThreadOK(pc[c], round[c], count[c], fin[c], reset[c], Total(c))

(***************************************************************************)
(* What is on the disk: records of responses that were delivered; those    *)
(* that are not complete are being written, or the disk was full.          *)
(***************************************************************************)
Saving(c) == pc[c] \in {"save", "serialize"}

DiskOK ==
  /\ \A u \in cut \cup whole : \E c \in Connections : \E n \in 1 .. count[c].delivered : u = <<c, n>>
  /\ \A u \in cut :
       diskFull \/ \E c \in Connections : pc[c] = "serialize" /\ u = <<c, count[c].delivered>>
  /\ \A c \in Connections : \A n \in 1 .. count[c].delivered :
       script[c].recorded /\ ~diskFull => <<c, n>> \in whole \/ (n = count[c].delivered /\ Saving(c))

(***************************************************************************)
(* The timers: what was started has its key in the map, at the moment it   *)
(* was started or a later one.                                             *)
(***************************************************************************)
Timers == {"rtt", "load"}

KeyOf(c, what) == IF what = 0 THEN Address(c) ELSE URL(c, what)
TimerOf(what) == IF what = 0 THEN "rtt" ELSE "load"

HasStart(m, key, i) == key \in DOMAIN m /\ m[key] >= i

Measured(t) == \E S : logger.measured[t] \in Seq(S)

HasTimers(l) == \E S : l \in [start : [Timers -> S], measured : [Timers -> S]]

TimersOK ==
  /\ HasTimers(logger)
  /\ \A t \in Timers : Measured(t) /\ \A key \in DOMAIN logger.start[t] : logger.start[t][key] \in Nat
  /\ starts \in Seq(Connections \X Nat)
  /\ \A i \in DOMAIN starts :
       HasStart(logger.start[TimerOf(starts[i][2])], KeyOf(starts[i][1], starts[i][2]), i)

-----------------------------------------------------------------------------
(***************************************************************************)
(* One connection, before and after a step.                                *)
(***************************************************************************)
LEMMA NextIsUnique == \A i, j \in Nat : i + 1 = j + 1 => i = j
OBVIOUS

LEMMA NextIsAtMost == \A i, j \in Nat : i < j => i + 1 <= j
OBVIOUS

LEMMA NextIsNotNothing == \A i \in Nat : i + 1 # 0
OBVIOUS

LEMMA TurnFacts ==
  ASSUME NEW r \in Turn, r # <<>>
  PROVE  /\ Head(r) = r[1] /\ 1 \in DOMAIN r /\ Tail(r) \in Turn
         /\ \A i \in DOMAIN Tail(r) : i + 1 \in DOMAIN r /\ i + 1 # 1 /\ Tail(r)[i] = r[i + 1]
         /\ DOMAIN Tail(r) \subseteq Nat
BY DEF Turn

LEMMA FreshThread ==
  ASSUME NEW n \in Nat
  PROVE  ThreadOK("none", <<>>, Nothing, [ended |-> {}, seen |-> {}], {}, n)
<1>1. Nothing \in Amounts
  BY DEF Nothing, Amounts
<1>2. InOrder(Nothing, n)
  BY <1>1 DEF InOrder, Nothing
<1>3. EndsRead(Nothing, [ended |-> {}, seen |-> {}])
  BY DEF EndsRead, Ends
<1>4. Turns("none", <<>>, Nothing, {})
  BY DEF Turns, Turn
<1> QED BY <1>2, <1>3, <1>4 DEF ThreadOK, Places, NothingDue

\* Places about which nothing is said.
Plain == {"none", "new", "start rtt", "connect", "stop rtt", "connect TLS", "accept TLS", "poll", "threw"}

LEMMA ToPlainPlace ==
  ASSUME NEW p, NEW r, NEW k, NEW f, NEW x, NEW n, ThreadOK(p, r, k, f, x, n), NEW q \in Plain
  PROVE  ThreadOK(q, r, k, f, x, n)
BY DEF ThreadOK, Plain, Places, Turns, NothingDue

\* A callback that takes more than one place.
LEMMA ToWriting ==
  ASSUME NEW p, NEW r, NEW k, NEW f, NEW x, NEW n, ThreadOK(p, r, k, f, x, n), NEW q,
         \/ p = "service" /\ r # <<>> /\ Head(r) = "server out" /\ q = "start load"
         \/ p = "service" /\ r # <<>> /\ Head(r) = "client out" /\ q = "stop load"
         \/ p = "save" /\ q = "serialize"
  PROVE  ThreadOK(q, r, k, f, x, n)
<1>1. r # <<>> => Head(r) = r[1]
  BY TurnFacts DEF ThreadOK, Turns
<1> QED BY <1>1 DEF ThreadOK, Places, Turns, NothingDue

LEMMA ToExit ==
  ASSUME NEW p, NEW r, NEW k, NEW f, NEW x, NEW n, ThreadOK(p, r, k, f, x, n),
         \/ p = "service" /\ r # <<>> /\ Head(r) = "exit"
         \/ k.parsed = k.forwarded /\ k.received = k.delivered /\ f.seen # {}
  PROVE  ThreadOK("exit", r, k, f, x, n)
<1>1. r # <<>> => Head(r) = r[1] /\ 1 \in DOMAIN r
  BY TurnFacts DEF ThreadOK, Turns
<1> QED BY <1>1 DEF ThreadOK, Places, Turns, NothingDue

\* What a callback leaves for the ones after it.
LEMMA AfterCallback ==
  ASSUME NEW p, NEW r, NEW k, NEW f, NEW x, NEW n, ThreadOK(p, r, k, f, x, n), r # <<>>,
         p \in {"service", "start load", "stop load", "save", "serialize"},
         NEW l, NEW g, InOrder(l, n), EndsRead(l, g),
         \A a : a # r[1] /\ HasWork(a, k) => HasWork(a, l), NEW q \in {"poll", "service"}
  PROVE  ThreadOK(q, Tail(r), l, g, x, n)
<1> DEFINE s == Tail(r)
<1>1. s \in Turn /\ 1 \in DOMAIN r /\ \A i \in DOMAIN s : i + 1 \in DOMAIN r /\ i + 1 # 1 /\ s[i] = r[i + 1]
      /\ DOMAIN s \subseteq Nat
  BY TurnFacts DEF ThreadOK, Turns
<1>2. \A i \in DOMAIN r : i # 1 => HasWork(r[i], k) /\ r[i] # r[1]
  BY <1>1 DEF ThreadOK, Turns
<1>3. \A i \in DOMAIN s : HasWork(s[i], l)
  BY <1>1, <1>2
<1>4. \A i, j \in DOMAIN s : s[i] = s[j] => i = j
  <2> TAKE i, j \in DOMAIN s
  <2>1. i \in Nat /\ j \in Nat
    BY <1>1
  <2>2. r[i + 1] = r[j + 1] => i + 1 = j + 1
    BY <1>1 DEF ThreadOK, Turns
  <2>3. s[i] = r[i + 1] /\ s[j] = r[j + 1]
    BY <1>1
  <2>4. i + 1 = j + 1 => i = j
    BY <2>1, NextIsUnique, Zenon
  <2> QED BY <2>2, <2>3, <2>4
<1>5. \A i \in DOMAIN s : s[i] = "exit" => x # {}
  BY <1>1 DEF ThreadOK, Turns
<1> HIDE DEF s
<1>6. Turns(q, s, l, x)
  BY <1>1, <1>3, <1>4, <1>5 DEF ThreadOK, Turns
<1> QED BY <1>6 DEF ThreadOK, Places, NothingDue, s

\* A response delivered and still to be saved.
LEMMA AfterDelivery ==
  ASSUME NEW r, NEW k, NEW f, NEW x, NEW n, ThreadOK("stop load", r, k, f, x, n),
         NEW l, InOrder(l, n), EndsRead(l, f), l.delivered # 0,
         \A a : a # r[1] /\ HasWork(a, k) => HasWork(a, l)
  PROVE  ThreadOK("save", r, l, f, x, n)
<1>1. r \in Turn /\ r # <<>> /\ r[1] = "client out" /\ 1 \in DOMAIN r
  BY TurnFacts DEF ThreadOK, Turns
<1>2. \A i \in DOMAIN r : i # 1 => HasWork(r[i], l)
  BY <1>1 DEF ThreadOK, Turns
<1>3. Turns("save", r, l, x)
  BY <1>1, <1>2 DEF ThreadOK, Turns
<1> QED BY <1>3 DEF ThreadOK, Places, NothingDue

-----------------------------------------------------------------------------
\* Counts that go up by what there is to count.

LEMMA CountSent ==
  ASSUME NEW k, NEW n \in Nat, NEW f, InOrder(k, n), EndsRead(k, f), NEW d \in Nat,
         k.sent + d <= n
  PROVE  LET l == [k EXCEPT !["sent"] = @ + d]
         IN /\ InOrder(l, n) /\ EndsRead(l, f) /\ l.delivered = k.delivered
            /\ \A a : HasWork(a, k) => HasWork(a, l)
<1> DEFINE l == [k EXCEPT !["sent"] = @ + d]
<1>1. /\ l \in Amounts /\ l.sent = k.sent + d
      /\ l.parsed = k.parsed /\ l.forwarded = k.forwarded /\ l.answered = k.answered
      /\ l.received = k.received /\ l.delivered = k.delivered
  BY DEF InOrder, Amounts
<1>2. k \in Amounts
  BY DEF InOrder
<1> HIDE DEF l
<1>3. InOrder(l, n)
  BY <1>1, <1>2 DEF InOrder, Amounts
<1>4. EndsRead(l, f)
  BY <1>1, <1>2 DEF InOrder, Amounts, EndsRead, Ends
<1>5. \A a : HasWork(a, k) => HasWork(a, l)
  <2>1. /\ k.forwarded < k.parsed => l.forwarded < l.parsed
        /\ k.delivered < k.received => l.delivered < l.received
    BY <1>1, <1>2 DEF Amounts
  <2> QED BY <1>1, <2>1 DEF HasWork
<1> QED BY <1>1, <1>3, <1>4, <1>5 DEF l

LEMMA CountParsed ==
  ASSUME NEW k, NEW n \in Nat, NEW f, InOrder(k, n), EndsRead(k, f), NEW d \in Nat,
         k.parsed + d <= k.sent
  PROVE  LET l == [k EXCEPT !["parsed"] = @ + d]
         IN /\ InOrder(l, n) /\ EndsRead(l, f) /\ l.delivered = k.delivered
            /\ \A a : HasWork(a, k) => HasWork(a, l)
<1> DEFINE l == [k EXCEPT !["parsed"] = @ + d]
<1>1. /\ l \in Amounts /\ l.parsed = k.parsed + d
      /\ l.sent = k.sent /\ l.forwarded = k.forwarded /\ l.answered = k.answered
      /\ l.received = k.received /\ l.delivered = k.delivered
  BY DEF InOrder, Amounts
<1>2. k \in Amounts
  BY DEF InOrder
<1> HIDE DEF l
<1>3. InOrder(l, n)
  BY <1>1, <1>2 DEF InOrder, Amounts
<1>4. EndsRead(l, f)
  BY <1>1, <1>2 DEF InOrder, Amounts, EndsRead, Ends
<1>5. \A a : HasWork(a, k) => HasWork(a, l)
  <2>1. /\ k.forwarded < k.parsed => l.forwarded < l.parsed
        /\ k.delivered < k.received => l.delivered < l.received
    BY <1>1, <1>2 DEF Amounts
  <2> QED BY <1>1, <2>1 DEF HasWork
<1> QED BY <1>1, <1>3, <1>4, <1>5 DEF l

LEMMA CountForwarded ==
  ASSUME NEW k, NEW n \in Nat, NEW f, InOrder(k, n), EndsRead(k, f), NEW d \in Nat,
         k.forwarded + d <= k.parsed
  PROVE  LET l == [k EXCEPT !["forwarded"] = @ + d]
         IN /\ InOrder(l, n) /\ EndsRead(l, f) /\ l.delivered = k.delivered
            /\ \A a : a # "server out" /\ HasWork(a, k) => HasWork(a, l)
<1> DEFINE l == [k EXCEPT !["forwarded"] = @ + d]
<1>1. /\ l \in Amounts /\ l.forwarded = k.forwarded + d
      /\ l.sent = k.sent /\ l.parsed = k.parsed /\ l.answered = k.answered
      /\ l.received = k.received /\ l.delivered = k.delivered
  BY DEF InOrder, Amounts
<1>2. k \in Amounts
  BY DEF InOrder
<1> HIDE DEF l
<1>3. InOrder(l, n)
  BY <1>1, <1>2 DEF InOrder, Amounts
<1>4. EndsRead(l, f)
  BY <1>1, <1>2 DEF InOrder, Amounts, EndsRead, Ends
<1>5. \A a : a # "server out" /\ HasWork(a, k) => HasWork(a, l)
  <2>1. /\ k.forwarded < k.parsed => l.forwarded < l.parsed \/ d # 0
        /\ k.delivered < k.received => l.delivered < l.received
    BY <1>1, <1>2 DEF Amounts
  <2> QED BY <1>1, <2>1 DEF HasWork
<1> QED BY <1>1, <1>3, <1>4, <1>5 DEF l

LEMMA CountAnswered ==
  ASSUME NEW k, NEW n \in Nat, NEW f, InOrder(k, n), EndsRead(k, f), NEW d \in Nat,
         k.answered + d <= k.forwarded, "server" \notin f.ended
  PROVE  LET l == [k EXCEPT !["answered"] = @ + d]
         IN /\ InOrder(l, n) /\ EndsRead(l, f) /\ l.delivered = k.delivered
            /\ \A a : HasWork(a, k) => HasWork(a, l)
<1> DEFINE l == [k EXCEPT !["answered"] = @ + d]
<1>1. /\ l \in Amounts /\ l.answered = k.answered + d
      /\ l.sent = k.sent /\ l.parsed = k.parsed /\ l.forwarded = k.forwarded
      /\ l.received = k.received /\ l.delivered = k.delivered
  BY DEF InOrder, Amounts
<1>2. k \in Amounts
  BY DEF InOrder
<1> HIDE DEF l
<1>3. InOrder(l, n)
  BY <1>1, <1>2 DEF InOrder, Amounts
<1>4. EndsRead(l, f)
  BY <1>1, <1>2 DEF InOrder, Amounts, EndsRead, Ends
<1>5. \A a : HasWork(a, k) => HasWork(a, l)
  <2>1. /\ k.forwarded < k.parsed => l.forwarded < l.parsed
        /\ k.delivered < k.received => l.delivered < l.received
    BY <1>1, <1>2 DEF Amounts
  <2> QED BY <1>1, <2>1 DEF HasWork
<1> QED BY <1>1, <1>3, <1>4, <1>5 DEF l

LEMMA CountReceived ==
  ASSUME NEW k, NEW n \in Nat, NEW f, InOrder(k, n), EndsRead(k, f), NEW d \in Nat,
         k.received + d <= k.answered
  PROVE  LET l == [k EXCEPT !["received"] = @ + d]
         IN /\ InOrder(l, n) /\ EndsRead(l, f) /\ l.delivered = k.delivered
            /\ \A a : HasWork(a, k) => HasWork(a, l)
<1> DEFINE l == [k EXCEPT !["received"] = @ + d]
<1>1. /\ l \in Amounts /\ l.received = k.received + d
      /\ l.sent = k.sent /\ l.parsed = k.parsed /\ l.forwarded = k.forwarded
      /\ l.answered = k.answered /\ l.delivered = k.delivered
  BY DEF InOrder, Amounts
<1>2. k \in Amounts
  BY DEF InOrder
<1> HIDE DEF l
<1>3. InOrder(l, n)
  BY <1>1, <1>2 DEF InOrder, Amounts
<1>4. EndsRead(l, f)
  BY <1>1, <1>2 DEF InOrder, Amounts, EndsRead, Ends
<1>5. \A a : HasWork(a, k) => HasWork(a, l)
  <2>1. /\ k.forwarded < k.parsed => l.forwarded < l.parsed
        /\ k.delivered < k.received => l.delivered < l.received
    BY <1>1, <1>2 DEF Amounts
  <2> QED BY <1>1, <2>1 DEF HasWork
<1> QED BY <1>1, <1>3, <1>4, <1>5 DEF l

LEMMA CountDelivered ==
  ASSUME NEW k, NEW n \in Nat, NEW f, InOrder(k, n), EndsRead(k, f), NEW d \in Nat,
         k.delivered + d <= k.received
  PROVE  LET l == [k EXCEPT !["delivered"] = @ + d]
         IN /\ InOrder(l, n) /\ EndsRead(l, f) /\ l.delivered = k.delivered + d
            /\ \A a : a # "client out" /\ HasWork(a, k) => HasWork(a, l)
<1> DEFINE l == [k EXCEPT !["delivered"] = @ + d]
<1>1. /\ l \in Amounts /\ l.delivered = k.delivered + d
      /\ l.sent = k.sent /\ l.parsed = k.parsed /\ l.forwarded = k.forwarded
      /\ l.answered = k.answered /\ l.received = k.received
  BY DEF InOrder, Amounts
<1>2. k \in Amounts
  BY DEF InOrder
<1> HIDE DEF l
<1>3. InOrder(l, n)
  BY <1>1, <1>2 DEF InOrder, Amounts
<1>4. EndsRead(l, f)
  BY <1>1, <1>2 DEF InOrder, Amounts, EndsRead, Ends
<1>5. \A a : a # "client out" /\ HasWork(a, k) => HasWork(a, l)
  <2>1. /\ k.forwarded < k.parsed => l.forwarded < l.parsed
        /\ k.delivered < k.received => l.delivered < l.received \/ d # 0
    BY <1>1, <1>2 DEF Amounts
  <2> QED BY <1>1, <2>1 DEF HasWork
<1> QED BY <1>1, <1>3, <1>4, <1>5 DEF l

-----------------------------------------------------------------------------
(***************************************************************************)
(* What the peers do.                                                      *)
(***************************************************************************)
LEMMA PeerCounts ==
  ASSUME NEW p, NEW r, NEW k, NEW f, NEW x, NEW n, ThreadOK(p, r, k, f, x, n), p # "exit",
         NEW l, InOrder(l, n), EndsRead(l, f), l.delivered = k.delivered,
         \A a : HasWork(a, k) => HasWork(a, l)
  PROVE  ThreadOK(p, r, l, f, x, n)
<1>1. Turns(p, r, l, x)
  BY DEF ThreadOK, Turns
<1> QED BY <1>1 DEF ThreadOK, NothingDue

LEMMA PeerEnded ==
  ASSUME NEW p, NEW r, NEW k, NEW f, NEW x, NEW n, ThreadOK(p, r, k, f, x, n), p # "exit",
         NEW side \in Sides
  PROVE  ThreadOK(p, r, k, [f EXCEPT !.ended = @ \cup {side}], x, n)
<1> DEFINE g == [f EXCEPT !.ended = @ \cup {side}]
<1>1. f \in Ends /\ g \in Ends /\ g.seen = f.seen /\ f.ended \subseteq g.ended
  BY DEF ThreadOK, EndsRead, Ends
<1> HIDE DEF g
<1>2. EndsRead(k, g)
  BY <1>1 DEF ThreadOK, EndsRead
<1>3. ThreadOK(p, r, k, g, x, n)
  BY <1>2 DEF ThreadOK, NothingDue
<1> QED BY <1>3 DEF g

LEMMA PeerReset ==
  ASSUME NEW p, NEW r, NEW k, NEW f, NEW x, NEW n, ThreadOK(p, r, k, f, x, n), p # "exit",
         NEW side \in Sides
  PROVE  ThreadOK(p, r, k, f, {side}, n)
BY DEF ThreadOK, Turns, NothingDue

\* The proxy reads an end of which nothing is unread.
LEMMA EndSeen ==
  ASSUME NEW k, NEW f, EndsRead(k, f), NEW side \in f.ended, side = "server" => k.received = k.answered
  PROVE  EndsRead(k, [f EXCEPT !.seen = @ \cup {side}])
<1> DEFINE g == [f EXCEPT !.seen = @ \cup {side}]
<1>1. g \in Ends /\ g.ended = f.ended /\ g.seen = f.seen \cup {side}
  BY DEF EndsRead, Ends
<1> HIDE DEF g
<1>2. EndsRead(k, g)
  BY <1>1 DEF EndsRead
<1> QED BY <1>2 DEF g

-----------------------------------------------------------------------------
(***************************************************************************)
(* The callbacks of a round are of different actions.                      *)
(***************************************************************************)
Different(s, A) == s \in Seq(A) /\ \A i, j \in DOMAIN s : s[i] = s[j] => i = j

LEMMA OneDifferent ==
  ASSUME NEW a, NEW A, a \in A
  PROVE  Different(<<a>>, A)
BY DEF Different

LEMMA NoneDifferent ==
  ASSUME NEW A
  PROVE  Different(<<>>, A)
BY DEF Different

LEMMA BothDifferent ==
  ASSUME NEW A, NEW B, NEW s, NEW t, Different(s, A), Different(t, B), A \cap B = {}
  PROVE  Different(s \o t, A \cup B)
<1> DEFINE w == s \o t
<1>1. s \in Seq(A \cup B) /\ t \in Seq(A \cup B)
  BY DEF Different
<1>2. /\ w \in Seq(A \cup B) /\ Len(w) = Len(s) + Len(t) /\ Len(s) \in Nat /\ Len(t) \in Nat
      /\ \A i \in 1..Len(s) : w[i] = s[i]
      /\ \A i \in (Len(s) + 1)..Len(w) : w[i] = t[i - Len(s)]
  BY <1>1
<1>3. (\A i \in 1..Len(s) : s[i] \in A) /\ \A i \in 1..Len(t) : t[i] \in B
  BY DEF Different
<1>4. DOMAIN w = 1..Len(w) /\ DOMAIN s = 1..Len(s) /\ DOMAIN t = 1..Len(t)
  BY <1>1, <1>2
<1> HIDE DEF w
<1>5. \A i, j \in DOMAIN w : w[i] = w[j] => i = j
  <2> SUFFICES ASSUME NEW i \in 1..Len(w), NEW j \in 1..Len(w), w[i] = w[j] PROVE i = j
    BY <1>4
  <2>1. /\ i \in 1..Len(s) \/ (i \in (Len(s) + 1)..Len(w) /\ i - Len(s) \in 1..Len(t))
        /\ j \in 1..Len(s) \/ (j \in (Len(s) + 1)..Len(w) /\ j - Len(s) \in 1..Len(t))
    BY <1>2
  <2>2. CASE i \in 1..Len(s) /\ j \in 1..Len(s)
    BY <1>2, <1>4, <2>2 DEF Different
  <2>3. CASE i \in 1..Len(s) /\ j \notin 1..Len(s)
    BY <1>2, <1>3, <2>1, <2>3
  <2>4. CASE i \notin 1..Len(s) /\ j \in 1..Len(s)
    BY <1>2, <1>3, <2>1, <2>4
  <2>5. CASE i \notin 1..Len(s) /\ j \notin 1..Len(s)
    <3>1. t[i - Len(s)] = t[j - Len(s)] /\ i - Len(s) \in DOMAIN t /\ j - Len(s) \in DOMAIN t
      BY <1>2, <1>4, <2>1, <2>5
    <3>2. i - Len(s) = j - Len(s)
      BY <3>1 DEF Different
    <3> QED BY <1>2, <3>2
  <2> QED BY <2>2, <2>3, <2>4, <2>5
<1>6. Different(w, A \cup B)
  BY <1>2, <1>5 DEF Different
<1> QED BY <1>6 DEF w

LEMMA MoreDifferent ==
  ASSUME NEW A, NEW B, NEW s, Different(s, A), A \subseteq B
  PROVE  Different(s, B)
BY DEF Different

ReadyOf(c, A) == {a \in A : Ready(c, a)}

LEMMA IfReadyDifferent ==
  ASSUME NEW c, NEW a
  PROVE  Different(IfReady(c, a), ReadyOf(c, {a}))
<1>1. CASE Ready(c, a)
  <2>1. a \in ReadyOf(c, {a}) /\ IfReady(c, a) = <<a>>
    BY <1>1 DEF ReadyOf, IfReady
  <2> QED BY <2>1, OneDifferent
<1>2. CASE ~Ready(c, a)
  <2>1. IfReady(c, a) = <<>>
    BY <1>2 DEF IfReady
  <2> QED BY <2>1, NoneDifferent
<1> QED BY <1>1, <1>2

LEMMA RoundDifferent ==
  ASSUME NEW c \in Connections
  PROVE  \/ reset[c] \in {{"server"}, {"client"}} /\ Different(Round(c), ReadyOf(c, Actions) \cup {"exit"})
         \/ reset[c] \notin {{"server"}, {"client"}} /\ Different(Round(c), ReadyOf(c, Actions))
<1>1. {"server"} # {"client"}
  OBVIOUS
<1>2. CASE reset[c] = {"server"}
  <2>1. Round(c) = <<"exit">>
    BY <1>2 DEF Round
  <2> QED BY <1>2, <2>1, OneDifferent
<1>3. CASE reset[c] = {"client"}
  <2>1. Round(c) = IfReady(c, "server in") \o <<"exit">>
    BY <1>1, <1>3 DEF Round
  <2>2. Different(<<"exit">>, {"exit"}) /\ Different(IfReady(c, "server in"), ReadyOf(c, {"server in"}))
    BY OneDifferent, IfReadyDifferent
  <2>3. Different(Round(c), ReadyOf(c, {"server in"}) \cup {"exit"})
    <3>1. ReadyOf(c, {"server in"}) \cap {"exit"} = {}
      BY DEF ReadyOf
    <3> DEFINE A == ReadyOf(c, {"server in"})
               B == {"exit"}
               a == IfReady(c, "server in")
               b == <<"exit">>
    <3> HIDE DEF A, B, a, b
    <3>2. Different(a \o b, A \cup B)
      <4>1. Different(a, A) /\ Different(b, B) /\ A \cap B = {}
        BY <2>2, <3>1 DEF A, B, a, b
      <4> QED BY <4>1, BothDifferent
    <3> QED BY <2>1, <3>2 DEF A, B, a, b
  <2>4. ReadyOf(c, {"server in"}) \cup {"exit"} \subseteq ReadyOf(c, Actions) \cup {"exit"}
    BY DEF ReadyOf, Actions
  <2>5. Different(Round(c), ReadyOf(c, Actions) \cup {"exit"})
    <3> DEFINE A == ReadyOf(c, {"server in"}) \cup {"exit"}
               B == ReadyOf(c, Actions) \cup {"exit"}
    <3>1. Different(Round(c), A) /\ A \subseteq B
      BY <2>3, <2>4
    <3> HIDE DEF A, B
    <3>2. Different(Round(c), B)
      BY <3>1, MoreDifferent
    <3> QED BY <3>2 DEF B
  <2> QED BY <1>3, <2>5
<1>4. CASE reset[c] \notin {{"server"}, {"client"}}
  <2> DEFINE a == IfReady(c, "server in")
             b == IfReady(c, "client in")
             d == IfReady(c, "server out")
             e == IfReady(c, "client out")
  <2>1. Round(c) = ((a \o b) \o d) \o e
    BY <1>4 DEF Round
  <2>2. Different(a \o b, ReadyOf(c, {"server in"}) \cup ReadyOf(c, {"client in"}))
    <3>1. ReadyOf(c, {"server in"}) \cap ReadyOf(c, {"client in"}) = {}
      BY DEF ReadyOf
    <3> QED BY <3>1, IfReadyDifferent, BothDifferent
  <2>3. Different((a \o b) \o d, (ReadyOf(c, {"server in"}) \cup ReadyOf(c, {"client in"}))
                                   \cup ReadyOf(c, {"server out"}))
    <3>1. (ReadyOf(c, {"server in"}) \cup ReadyOf(c, {"client in"})) \cap ReadyOf(c, {"server out"}) = {}
      BY DEF ReadyOf
    <3>2. Different(d, ReadyOf(c, {"server out"}))
      BY IfReadyDifferent
    <3> HIDE DEF a, b, d
    <3> QED BY <2>2, <3>1, <3>2, BothDifferent
  <2> DEFINE A == (ReadyOf(c, {"server in"}) \cup ReadyOf(c, {"client in"})) \cup ReadyOf(c, {"server out"})
  <2>4. Different(((a \o b) \o d) \o e, A \cup ReadyOf(c, {"client out"}))
    <3>1. A \cap ReadyOf(c, {"client out"}) = {}
      BY DEF ReadyOf
    <3>2. Different(e, ReadyOf(c, {"client out"}))
      BY IfReadyDifferent
    <3> HIDE DEF a, b, d, e, A
    <3>3. Different((a \o b) \o d, A)
      BY <2>3 DEF A
    <3> QED BY <3>1, <3>2, <3>3, BothDifferent
  <2>5. A \cup ReadyOf(c, {"client out"}) = ReadyOf(c, Actions)
    BY DEF ReadyOf, Actions
  <2> HIDE DEF a, b, d, e, A
  <2> QED BY <1>4, <2>1, <2>4, <2>5
<1> QED BY <1>2, <1>3, <1>4

LEMMA ToService ==
  ASSUME NEW c \in Connections,
         ThreadOK(pc[c], round[c], count[c], fin[c], reset[c], Total(c))
  PROVE  ThreadOK("service", Round(c), count[c], fin[c], reset[c], Total(c))
<1>1. /\ Round(c) \in Turn /\ \A i, j \in DOMAIN Round(c) : Round(c)[i] = Round(c)[j] => i = j
      /\ \A i \in DOMAIN Round(c) : \/ Round(c)[i] \in ReadyOf(c, Actions)
                                    \/ Round(c)[i] = "exit" /\ reset[c] # {}
  <2>1. ReadyOf(c, Actions) \subseteq Actions
    BY DEF ReadyOf
  <2>2. CASE reset[c] \in {{"server"}, {"client"}} /\ Different(Round(c), ReadyOf(c, Actions) \cup {"exit"})
    <3>1. Different(Round(c), Actions \cup {"exit"})
      BY <2>1, <2>2, MoreDifferent
    <3>2. \A i \in DOMAIN Round(c) : Round(c)[i] \in ReadyOf(c, Actions) \cup {"exit"}
      BY <2>2 DEF Different
    <3> QED BY <2>2, <3>1, <3>2 DEF Different, Turn
  <2>3. CASE Different(Round(c), ReadyOf(c, Actions))
    <3>1. Different(Round(c), Actions \cup {"exit"})
      BY <2>1, <2>3, MoreDifferent
    <3>2. \A i \in DOMAIN Round(c) : Round(c)[i] \in ReadyOf(c, Actions)
      BY <2>3 DEF Different
    <3> QED BY <3>1, <3>2 DEF Different, Turn
  <2> QED BY <2>2, <2>3, RoundDifferent
<1>2. count[c] \in Amounts
  BY DEF ThreadOK, InOrder
<1>3. \A a \in ReadyOf(c, Actions) : a # "exit" /\ HasWork(a, count[c])
  <2> SUFFICES ASSUME NEW a \in Actions, Ready(c, a) PROVE a # "exit" /\ HasWork(a, count[c])
    BY DEF ReadyOf
  <2>1. CASE a = "server out"
    <3>1. count[c].parsed - count[c].forwarded > 0
      BY <2>1 DEF Ready, Interested, Requested
    <3>2. count[c].forwarded < count[c].parsed
      BY <1>2, <3>1 DEF Amounts
    <3> QED BY <2>1, <3>2 DEF HasWork
  <2>2. CASE a = "client out"
    <3>1. count[c].received - count[c].delivered > 0
      BY <2>2 DEF Ready, Interested, Finished
    <3>2. count[c].delivered < count[c].received
      BY <1>2, <3>1 DEF Amounts
    <3> QED BY <2>2, <3>2 DEF HasWork
  <2>3. CASE a \in {"server in", "client in"}
    BY <2>3 DEF HasWork
  <2> QED BY <2>1, <2>2, <2>3 DEF Actions
<1>4. \A i \in DOMAIN Round(c) : HasWork(Round(c)[i], count[c]) /\ (Round(c)[i] = "exit" => reset[c] # {})
  <2>1. HasWork("exit", count[c])
    BY DEF HasWork
  <2> QED BY <1>1, <1>3, <2>1
<1>5. Turns("service", Round(c), count[c], reset[c])
  BY <1>1, <1>4 DEF ThreadOK, Turns
<1> QED BY <1>5 DEF ThreadOK, Places, NothingDue

-----------------------------------------------------------------------------
(***************************************************************************)
(* All connections.  A step changes one of them; the others are as before. *)
(***************************************************************************)
Inv == ThreadsOK /\ DiskOK /\ TimersOK

Moves(c, p, r, k, f, x) ==
  /\ pc' = [pc EXCEPT ![c] = p] /\ round' = [round EXCEPT ![c] = r]
  /\ count' = [count EXCEPT ![c] = k] /\ fin' = [fin EXCEPT ![c] = f]
  /\ reset' = [reset EXCEPT ![c] = x]

LEMMA ThreadAt ==
  ASSUME ThreadsOK, NEW c \in Connections
  PROVE  ThreadOK(pc[c], round[c], count[c], fin[c], reset[c], Total(c))
BY DEF ThreadsOK

LEMMA TotalIsNat ==
  ASSUME ThreadsOK, NEW c \in Connections
  PROVE  Total(c) \in Nat
<1>1. script \in Scripts /\ Requests(c) \in Seq(Heads)
  BY ScriptsAssumption DEF ThreadsOK, Connections, Requests
<1> QED BY <1>1 DEF Total

LEMMA AsItWas ==
  ASSUME ThreadsOK, NEW c \in Connections
  PROVE  /\ pc = [pc EXCEPT ![c] = pc[c]] /\ round = [round EXCEPT ![c] = round[c]]
         /\ count = [count EXCEPT ![c] = count[c]] /\ fin = [fin EXCEPT ![c] = fin[c]]
         /\ reset = [reset EXCEPT ![c] = reset[c]]
BY DEF ThreadsOK

LEMMA OnlyOne ==
  ASSUME ThreadsOK, NEW c \in Connections, NEW p, NEW r, NEW k, NEW f, NEW x, Moves(c, p, r, k, f, x)
  PROVE  /\ pc'[c] = p /\ round'[c] = r /\ count'[c] = k /\ fin'[c] = f /\ reset'[c] = x
         /\ \A d \in Connections : d # c =>
              /\ pc'[d] = pc[d] /\ round'[d] = round[d] /\ count'[d] = count[d]
              /\ fin'[d] = fin[d] /\ reset'[d] = reset[d]
BY DEF ThreadsOK, Moves

LEMMA ThreadsMove ==
  ASSUME ThreadsOK, NEW c \in Connections, NEW p, NEW r, NEW k, NEW f, NEW x, Moves(c, p, r, k, f, x),
         ThreadOK(p, r, k, f, x, Total(c)), script' = script, recorder' \in Recorders
  PROVE  ThreadsOK'
<1>1. p \in Places /\ r \in Turn /\ k \in Amounts /\ f \in Ends /\ x \in SUBSET Sides
  BY DEF ThreadOK, InOrder, EndsRead, Turns
<1>2. /\ pc' \in [Connections -> Places] /\ round' \in [Connections -> Turn]
      /\ count' \in [Connections -> Amounts] /\ fin' \in [Connections -> Ends]
      /\ reset' \in [Connections -> SUBSET Sides]
  BY <1>1 DEF ThreadsOK, Moves
<1>3. \A d \in Connections : ThreadOK(pc'[d], round'[d], count'[d], fin'[d], reset'[d], Total(d))
  BY OnlyOne, ThreadAt
<1>4. Connections' = Connections /\ \A d : Total(d)' = Total(d)
  BY DEF Connections, Total, Requests
<1> QED BY <1>2, <1>3, <1>4 DEF ThreadsOK

LEMMA TimersKept ==
  ASSUME TimersOK, UNCHANGED <<script, logger, starts>>
  PROVE  TimersOK'
<1>1. \A t : Measured(t)' = Measured(t)
  BY DEF Measured
<1>2. Connections' = Connections /\ \A c, n : KeyOf(c, n)' = KeyOf(c, n)
  BY DEF Connections, KeyOf, Address, URL, Requests
<1> QED BY <1>1, <1>2 DEF TimersOK

\* Nothing is written to the disk, and a thread that is saving stays where it is.
LEMMA DiskKept ==
  ASSUME DiskOK, UNCHANGED <<script, disk>>,
         \A c \in Connections : count'[c].delivered = count[c].delivered /\ (Saving(c) => pc'[c] = pc[c])
  PROVE  DiskOK'
<1>1. Connections' = Connections /\ cut' = cut /\ whole' = whole /\ diskFull' = diskFull
  BY DEF Connections, disk
<1>2. \A c \in Connections : (pc[c] = "serialize" => pc'[c] = "serialize") /\ (Saving(c) => Saving(c)')
  BY DEF Saving
<1>3. \A u \in cut \cup whole : \E c \in Connections : \E n \in 1 .. count'[c].delivered : u = <<c, n>>
  BY DEF DiskOK
<1>4. \A u \in cut :
        diskFull \/ \E c \in Connections : pc'[c] = "serialize" /\ u = <<c, count'[c].delivered>>
  BY <1>2 DEF DiskOK
<1>5. \A c \in Connections : \A n \in 1 .. count'[c].delivered :
        script'[c].recorded /\ ~diskFull => <<c, n>> \in whole \/ (n = count'[c].delivered /\ Saving(c)')
  BY <1>2 DEF DiskOK
<1> QED BY <1>1, <1>3, <1>4, <1>5 DEF DiskOK

LEMMA QuietMove ==
  ASSUME Inv, NEW c \in Connections, NEW p, NEW r, NEW k, NEW f, NEW x, Moves(c, p, r, k, f, x),
         ThreadOK(p, r, k, f, x, Total(c)), UNCHANGED <<script, logger, disk, starts>>,
         recorder' \in Recorders, k.delivered = count[c].delivered, Saving(c) => p = pc[c]
  PROVE  Inv'
<1>1. ThreadsOK' /\ TimersOK'
  BY ThreadsMove, TimersKept DEF Inv
<1>2. \A d \in Connections : count'[d].delivered = count[d].delivered /\ (Saving(d) => pc'[d] = pc[d])
  BY OnlyOne DEF Inv
<1>3. DiskOK'
  BY <1>2, DiskKept DEF Inv
<1> QED BY <1>1, <1>3 DEF Inv

LEMMA QuietPlace ==
  ASSUME Inv, NEW c \in Connections, NEW q, pc' = [pc EXCEPT ![c] = q],
         ThreadOK(q, round[c], count[c], fin[c], reset[c], Total(c)), ~Saving(c),
         UNCHANGED <<script, round, logger, disk, count, peers, starts>>, recorder' \in Recorders
  PROVE  Inv'
<1>1. Moves(c, q, round[c], count[c], fin[c], reset[c])
  BY AsItWas DEF Inv, Moves, peers
<1> QED BY <1>1, QuietMove

-----------------------------------------------------------------------------
(***************************************************************************)
(* The peers' steps and the thread's, those that leave the timers and the  *)
(* disk alone.                                                             *)
(***************************************************************************)
LEMMA RecorderRuns == Running => recorder \in Recorders
BY DEF Running, Recorders

LEMMA PeersKeep ==
  ASSUME Inv, NEW c \in Connections, PeerStep(c)
  PROVE  Inv'
<1> DEFINE p == pc[c]
           r == round[c]
           k == count[c]
           f == fin[c]
           x == reset[c]
<1>1. ThreadOK(p, r, k, f, x, Total(c)) /\ Total(c) \in Nat
  BY ThreadAt, TotalIsNat DEF Inv
<1>2. InOrder(k, Total(c)) /\ EndsRead(k, f) /\ k \in Amounts
  BY <1>1 DEF ThreadOK, InOrder
<1>3. Usable(c) /\ p # "exit" /\ x = {} /\ UNCHANGED <<script, recorder, pc, round, logger, disk, starts>>
  BY DEF PeerStep, ClientSends, ServerAnswers, PeerEnds, PeerResets, Usable, Over, thread, peers
<1>4. recorder' \in Recorders
  BY <1>3, RecorderRuns DEF Usable
<1>5. ASSUME NEW l, InOrder(l, Total(c)), EndsRead(l, f), \A a : HasWork(a, k) => HasWork(a, l),
             l.delivered = k.delivered, count' = [count EXCEPT ![c] = l], UNCHANGED peers
      PROVE  Inv'
  <2>1. ThreadOK(p, r, l, f, x, Total(c))
    BY <1>1, <1>3, <1>5, PeerCounts
  <2>2. Moves(c, p, r, l, f, x)
    BY <1>3, <1>5, AsItWas DEF Inv, Moves, peers
  <2> QED BY <1>3, <1>4, <1>5, <2>1, <2>2, QuietMove
<1>6. CASE ClientSends(c)
  <2> DEFINE l == [k EXCEPT !["sent"] = @ + 1]
  <2>1. count' = [count EXCEPT ![c] = l] /\ UNCHANGED peers
    BY <1>6 DEF ClientSends, Counts
  <2>2. k.sent + 1 <= Total(c)
    BY <1>1, <1>2, <1>6 DEF ClientSends, Total, Amounts
  <2>3. InOrder(l, Total(c)) /\ EndsRead(l, f) /\ l.delivered = k.delivered /\ \A a : HasWork(a, k) => HasWork(a, l)
    BY <1>1, <1>2, <2>2, CountSent
  <2> HIDE DEF l
  <2> QED BY <1>5, <2>1, <2>3
<1>7. CASE ServerAnswers(c)
  <2> DEFINE l == [k EXCEPT !["answered"] = @ + 1]
  <2>1. count' = [count EXCEPT ![c] = l] /\ UNCHANGED peers
    BY <1>7 DEF ServerAnswers, Counts
  <2>2. k.answered + 1 <= k.forwarded /\ "server" \notin f.ended
    BY <1>2, <1>7 DEF ServerAnswers, Amounts
  <2>3. InOrder(l, Total(c)) /\ EndsRead(l, f) /\ l.delivered = k.delivered /\ \A a : HasWork(a, k) => HasWork(a, l)
    BY <1>1, <1>2, <2>2, CountAnswered
  <2> HIDE DEF l
  <2> QED BY <1>5, <2>1, <2>3
<1>8. ASSUME NEW side \in Sides, PeerEnds(c, side) PROVE Inv'
  <2> DEFINE g == [f EXCEPT !.ended = @ \cup {side}]
  <2>1. fin' = [fin EXCEPT ![c] = g] /\ UNCHANGED <<count, reset>>
    BY <1>8 DEF PeerEnds
  <2>2. ThreadOK(p, r, k, g, x, Total(c))
    BY <1>1, <1>3, PeerEnded
  <2> HIDE DEF g
  <2>3. Moves(c, p, r, k, g, x)
    BY <1>3, <2>1, AsItWas DEF Inv, Moves
  <2> QED BY <1>3, <1>4, <2>2, <2>3, QuietMove
<1>9. ASSUME NEW side \in Sides, PeerResets(c, side) PROVE Inv'
  <2>1. reset' = [reset EXCEPT ![c] = {side}] /\ UNCHANGED <<count, fin>>
    BY <1>9 DEF PeerResets
  <2>2. ThreadOK(p, r, k, f, {side}, Total(c))
    BY <1>1, <1>3, PeerReset
  <2>3. Moves(c, p, r, k, f, {side})
    BY <1>3, <2>1, AsItWas DEF Inv, Moves
  <2> QED BY <1>3, <1>4, <2>2, <2>3, QuietMove
<1> QED BY <1>6, <1>7, <1>8, <1>9 DEF PeerStep

LEMMA PlainMovesKeep ==
  ASSUME Inv, NEW c \in Connections,
         Accept(c) \/ StartRtt(c) \/ Connect(c) \/ ConnectTLS(c) \/ AcceptTLS(c)
  PROVE  Inv'
<1>1. UNCHANGED <<script, recorder, round, logger, disk, count, peers, starts>> /\ Running
  BY DEF Accept, StartRtt, Connect, ConnectTLS, AcceptTLS, Goes, Throws
<1>2. PICK q \in Plain : pc' = [pc EXCEPT ![c] = q] /\ pc[c] \in Plain
  BY DEF Accept, StartRtt, Connect, ConnectTLS, AcceptTLS, Goes, Throws, Plain
<1>3. ThreadOK(q, round[c], count[c], fin[c], reset[c], Total(c)) /\ ~Saving(c)
  BY <1>2, ThreadAt, ToPlainPlace DEF Inv, Saving, Plain
<1> QED BY <1>1, <1>2, <1>3, QuietPlace, RecorderRuns

LEMMA CallbackFacts ==
  ASSUME Inv, NEW c \in Connections, NEW action, Callback(c, action)
  PROVE  /\ pc[c] = "service" /\ round[c] # <<>> /\ Head(round[c]) = action /\ round[c][1] = action
         /\ round[c] \in Turn /\ ~Saving(c) /\ HasWork(action, count[c])
         /\ ThreadOK("service", round[c], count[c], fin[c], reset[c], Total(c))
<1>1. pc[c] = "service" /\ round[c] # <<>> /\ Head(round[c]) = action
  BY DEF Callback
<1>2. ThreadOK("service", round[c], count[c], fin[c], reset[c], Total(c))
  BY <1>1, ThreadAt DEF Inv
<1>3. round[c] \in Turn /\ \A i \in DOMAIN round[c] : HasWork(round[c][i], count[c])
  BY <1>2 DEF ThreadOK, Turns
<1>4. round[c][1] = action /\ 1 \in DOMAIN round[c]
  BY <1>1, <1>3, TurnFacts
<1> QED BY <1>1, <1>2, <1>3, <1>4 DEF Saving

LEMMA PollKeeps ==
  ASSUME Inv, NEW c \in Connections, Poll(c)
  PROVE  Inv'
<1>1. /\ pc[c] = "poll" /\ ~Saving(c) /\ Running
      /\ UNCHANGED <<script, recorder, logger, disk, count, peers, starts>>
  BY DEF Poll, Saving, Goes
<1>2. ThreadOK("poll", round[c], count[c], fin[c], reset[c], Total(c))
  BY <1>1, ThreadAt DEF Inv
<1>3. CASE pc' = [pc EXCEPT ![c] = "service"] /\ round' = [round EXCEPT ![c] = Round(c)]
  <2>1. ThreadOK("service", Round(c), count[c], fin[c], reset[c], Total(c))
    BY ThreadAt, ToService DEF Inv
  <2>2. Moves(c, "service", Round(c), count[c], fin[c], reset[c])
    BY <1>1, <1>3, AsItWas DEF Inv, Moves, peers
  <2> QED BY <1>1, <2>1, <2>2, QuietMove, RecorderRuns
<1>4. CASE /\ \A action \in Actions : ~Interested(c, action)
           /\ pc' = [pc EXCEPT ![c] = "exit"] /\ UNCHANGED round
  <2>1. ~(Requested(c) > 0) /\ ~(Finished(c) > 0) /\ fin[c].seen # {}
    <3>1. /\ ~Interested(c, "server out") /\ ~Interested(c, "client out") /\ ~Interested(c, "client in")
      BY <1>4 DEF Actions
    <3> QED BY <3>1 DEF Interested
  <2>2. count[c].parsed = count[c].forwarded /\ count[c].received = count[c].delivered
    BY <1>2, <2>1 DEF ThreadOK, InOrder, Amounts, Requested, Finished
  <2>3. ThreadOK("exit", round[c], count[c], fin[c], reset[c], Total(c))
    BY <1>2, <2>1, <2>2, ToExit
  <2> QED BY <1>1, <1>4, <2>3, QuietPlace, RecorderRuns
<1> QED BY <1>3, <1>4 DEF Poll, Goes

LEMMA PlacesKeep ==
  ASSUME Inv, NEW c \in Connections, Exit(c) \/ StartLoad(c) \/ StopLoad(c)
  PROVE  Inv'
<1>1. UNCHANGED <<script, recorder, round, logger, disk, count, peers, starts>> /\ Running
  BY DEF Exit, StartLoad, StopLoad, Goes
<1>2. PICK q : /\ pc' = [pc EXCEPT ![c] = q]
               /\ \/ Callback(c, "exit") /\ q = "exit"
                  \/ Callback(c, "server out") /\ q = "start load"
                  \/ Callback(c, "client out") /\ q = "stop load"
  BY DEF Exit, StartLoad, StopLoad, Goes
<1>3. ThreadOK(q, round[c], count[c], fin[c], reset[c], Total(c)) /\ ~Saving(c)
  <2> DEFINE OK(s) == ThreadOK(s, round[c], count[c], fin[c], reset[c], Total(c))
  <2>1. OK("service") /\ round[c] # <<>> /\ ~Saving(c)
    BY <1>2, CallbackFacts
  <2>2. CASE Callback(c, "exit") /\ q = "exit"
    <3>1. Head(round[c]) = "exit"
      BY <2>2 DEF Callback
    <3>2. OK("exit")
      BY <2>1, <3>1, ToExit
    <3> QED BY <2>1, <2>2, <3>2
  <2>3. CASE Callback(c, "server out") /\ q = "start load"
    <3>1. Head(round[c]) = "server out"
      BY <2>3 DEF Callback
    <3>2. OK("start load")
      BY <2>1, <3>1, ToWriting
    <3> QED BY <2>1, <2>3, <3>2
  <2>4. CASE Callback(c, "client out") /\ q = "stop load"
    <3>1. Head(round[c]) = "client out"
      BY <2>4 DEF Callback
    <3>2. OK("stop load")
      BY <2>1, <3>1, ToWriting
    <3> QED BY <2>1, <2>4, <3>2
  <2> QED BY <1>2, <2>2, <2>3, <2>4
<1> QED BY <1>1, <1>2, <1>3, QuietPlace, RecorderRuns

\* A callback that is done: its thread goes on with the others, or polls again.
LEMMA ServedFacts ==
  ASSUME Inv, NEW c \in Connections, NEW here, Served(c, here)
  PROVE  /\ \E q \in {"poll", "service"} : pc' = [pc EXCEPT ![c] = q]
         /\ round' = [round EXCEPT ![c] = Tail(round[c])] /\ pc[c] = here /\ Running
BY DEF Served, Goes, Inv, ThreadsOK

LEMMA ReadKeeps ==
  ASSUME Inv, NEW c \in Connections, NEW action, Callback(c, action), NEW side, NEW what,
         \/ side = "server" /\ what = "received"
         \/ side = "client" /\ what = "parsed",
         Reads(c, side, what)
  PROVE  Inv'
<1> DEFINE r == round[c]
           k == count[c]
           f == fin[c]
           x == reset[c]
           n == Total(c)
<1>1. /\ pc[c] = "service" /\ r # <<>> /\ ~Saving(c) /\ ThreadOK("service", r, k, f, x, n)
      /\ UNCHANGED <<script, recorder, logger, disk, reset, starts>>
  BY CallbackFacts DEF Reads
<1>2. InOrder(k, n) /\ EndsRead(k, f) /\ k \in Amounts /\ n \in Nat
  <2>1. n \in Nat
    BY TotalIsNat DEF Inv
  <2> QED BY <1>1, <2>1 DEF ThreadOK, InOrder
<1>3. CASE Throws(c) /\ UNCHANGED <<round, count, fin>>
  <2>1. pc' = [pc EXCEPT ![c] = "threw"] /\ Running /\ "threw" \in Plain
    BY <1>3 DEF Throws, Goes, Plain
  <2>2. ThreadOK("threw", r, k, f, x, n)
    BY <1>1, <2>1, ToPlainPlace
  <2> QED BY <1>1, <1>3, <2>1, <2>2, QuietPlace, RecorderRuns DEF peers
<1>4. ASSUME Served(c, "service"), NEW l, NEW g, InOrder(l, n), EndsRead(l, g), \A a : HasWork(a, k) => HasWork(a, l),
             count' = [count EXCEPT ![c] = l], fin' = [fin EXCEPT ![c] = g], l.delivered = k.delivered
      PROVE  Inv'
  <2>1. PICK q \in {"poll", "service"} : pc' = [pc EXCEPT ![c] = q]
    BY <1>4, ServedFacts
  <2>2. round' = [round EXCEPT ![c] = Tail(r)] /\ Running
    BY <1>4, ServedFacts
  <2>3. ThreadOK(q, Tail(r), l, g, x, n)
    <3>1. \A a : a # r[1] /\ HasWork(a, k) => HasWork(a, l)
      BY <1>4
    <3> HIDE DEF r, k, f, x, n
    <3> QED BY <1>1, <1>4, <3>1, AfterCallback
  <2>4. Moves(c, q, Tail(r), l, g, x)
    BY <1>1, <1>4, <2>1, <2>2, AsItWas DEF Inv, Moves
  <2> QED BY <1>1, <1>4, <2>2, <2>3, <2>4, QuietMove, RecorderRuns
<1>5. ASSUME Served(c, "service"), NEW d \in 1 .. Unread(c, side), Counts(c, what, d), UNCHANGED fin PROVE Inv'
  <2>1. fin' = [fin EXCEPT ![c] = f]
    BY <1>5, AsItWas DEF Inv
  <2>2. CASE side = "server"
    <3> DEFINE l == [k EXCEPT !["received"] = @ + d]
    <3>1. count' = [count EXCEPT ![c] = l]
      BY <1>5, <2>2 DEF Counts
    <3>2. k.received + d <= k.answered /\ d \in Nat
      BY <1>2, <1>5, <2>2 DEF Unread, Amounts
    <3>3. InOrder(l, n) /\ EndsRead(l, f) /\ l.delivered = k.delivered /\ \A a : HasWork(a, k) => HasWork(a, l)
      BY <1>2, <3>2, CountReceived
    <3> HIDE DEF l
    <3> QED BY <1>4, <1>5, <2>1, <3>1, <3>3
  <2>3. CASE side = "client"
    <3> DEFINE l == [k EXCEPT !["parsed"] = @ + d]
    <3>1. count' = [count EXCEPT ![c] = l]
      BY <1>5, <2>3 DEF Counts
    <3>2. k.parsed + d <= k.sent /\ d \in Nat
      BY <1>2, <1>5, <2>3 DEF Unread, Amounts
    <3>3. InOrder(l, n) /\ EndsRead(l, f) /\ l.delivered = k.delivered /\ \A a : HasWork(a, k) => HasWork(a, l)
      BY <1>2, <3>2, CountParsed
    <3> HIDE DEF l
    <3> QED BY <1>4, <1>5, <2>1, <3>1, <3>3
  <2> QED BY <2>2, <2>3
<1>6. ASSUME Served(c, "service"), Unread(c, side) = 0, side \in f.ended,
             fin' = [fin EXCEPT ![c].seen = @ \cup {side}], UNCHANGED count
      PROVE  Inv'
  <2> DEFINE g == [f EXCEPT !.seen = @ \cup {side}]
  <2>1. count' = [count EXCEPT ![c] = k] /\ fin' = [fin EXCEPT ![c] = g]
    BY <1>6, AsItWas DEF Inv
  <2>2. side = "server" => k.received = k.answered
    BY <1>2, <1>6 DEF Unread, Amounts
  <2>3. EndsRead(k, g)
    BY <1>2, <1>6, <2>2, EndSeen
  <2> HIDE DEF g
  <2> QED BY <1>2, <1>4, <1>6, <2>1, <2>3
<1> QED BY <1>3, <1>5, <1>6 DEF Reads

LEMMA ReadsKeep ==
  ASSUME Inv, NEW c \in Connections, ServerIn(c) \/ ClientIn(c)
  PROVE  Inv'
<1>1. CASE ServerIn(c)
  BY <1>1, ReadKeeps DEF ServerIn
<1>2. CASE ClientIn(c)
  BY <1>2, ReadKeeps DEF ClientIn
<1> QED BY <1>1, <1>2

-----------------------------------------------------------------------------
(***************************************************************************)
(* The timers.                                                             *)
(***************************************************************************)
LEMMA NewTimers == NewTimeLogger \in [start : [Timers -> {<<>>}], measured : [Timers -> {<<>>}]]
<1>1. [rtt |-> <<>>, load |-> <<>>] \in [Timers -> {<<>>}]
  BY DEF Timers
<1> QED BY <1>1 DEF NewTimeLogger

LEMMA StartedTimers ==
  ASSUME NEW l, HasTimers(l), NEW timer \in Timers,
         NEW key, NEW now, NEW m, m = StartTimer(l, timer, key, now)
  PROVE  /\ m.measured = l.measured /\ m.start[timer] = With(l.start[timer], key, now)
         /\ \A t \in Timers : t # timer => m.start[t] = l.start[t]
         /\ HasTimers(m)
<1>0. PICK S : l \in [start : [Timers -> S], measured : [Timers -> S]]
  BY DEF HasTimers
<1> DEFINE v == With(l.start[timer], key, now)
           T == S \cup {v}
           s == [l.start EXCEPT ![timer] = v]
<1>1. m = [l EXCEPT !.start = s]
  BY DEF StartTimer
<1>2. s \in [Timers -> T] /\ s[timer] = v /\ \A t \in Timers : t # timer => s[t] = l.start[t]
  BY <1>0
<1>3. l.measured \in [Timers -> T]
  BY <1>0
<1> HIDE DEF s, T
<1>4. m \in [start : [Timers -> T], measured : [Timers -> T]] /\ m.start = s /\ m.measured = l.measured
  BY <1>0, <1>1, <1>2, <1>3
<1> QED BY <1>2, <1>4 DEF HasTimers

LEMMA StoppedTimers ==
  ASSUME NEW l, HasTimers(l), NEW timer \in Timers,
         NEW key, NEW started, NEW m, m = StopTimer(l, timer, key, started)
  PROVE  /\ m.start = l.start
         /\ m.measured[timer] = Append(l.measured[timer], [key |-> key, started |-> started])
         /\ \A t \in Timers : t # timer => m.measured[t] = l.measured[t]
         /\ HasTimers(m)
<1>0. PICK S : l \in [start : [Timers -> S], measured : [Timers -> S]]
  BY DEF HasTimers
<1> DEFINE v == Append(l.measured[timer], [key |-> key, started |-> started])
           T == S \cup {v}
           s == [l.measured EXCEPT ![timer] = v]
<1>1. m = [l EXCEPT !.measured = s]
  BY DEF StopTimer
<1>2. s \in [Timers -> T] /\ s[timer] = v /\ \A t \in Timers : t # timer => s[t] = l.measured[t]
  BY <1>0
<1>3. l.start \in [Timers -> T]
  BY <1>0
<1> HIDE DEF s, T
<1>4. m \in [start : [Timers -> T], measured : [Timers -> T]] /\ m.measured = s /\ m.start = l.start
  BY <1>0, <1>1, <1>2, <1>3
<1> QED BY <1>2, <1>4 DEF HasTimers

\* The moment of a start is later than all before it.
LEMMA StartKept ==
  ASSUME NEW m, \A key \in DOMAIN m : m[key] \in Nat, NEW key, NEW now \in Nat, NEW j, NEW i \in Nat,
         HasStart(m, j, i), i <= now
  PROVE  HasStart(With(m, key, now), j, i)
<1> DEFINE w == With(m, key, now)
<1>1. DOMAIN w = DOMAIN m \cup {key} /\ w[key] = now /\ \A h \in DOMAIN m : h # key => w[h] = m[h]
  BY DEF With
<1> HIDE DEF w
<1>2. HasStart(w, j, i)
  BY <1>1 DEF HasStart
<1> QED BY <1>2 DEF w

LEMMA LatestStart ==
  ASSUME NEW m, NEW key, NEW now \in Nat
  PROVE  HasStart(With(m, key, now), key, now)
<1> DEFINE w == With(m, key, now)
<1>1. key \in DOMAIN w /\ w[key] = now
  BY DEF With
<1> HIDE DEF w
<1>2. HasStart(w, key, now)
  BY <1>1 DEF HasStart
<1> QED BY <1>2 DEF w

LEMMA WithNats ==
  ASSUME NEW m, NEW key, NEW now \in Nat, \A h \in DOMAIN m : m[h] \in Nat
  PROVE  \A h \in DOMAIN With(m, key, now) : With(m, key, now)[h] \in Nat
BY DEF With

LEMMA StartedKeeps ==
  ASSUME TimersOK, NEW c \in Connections, NEW what \in Nat,
         Started(c, TimerOf(what), KeyOf(c, what), what), script' = script
  PROVE  TimersOK'
<1> DEFINE n == Len(starts) + 1
           timer == TimerOf(what)
           key == KeyOf(c, what)
<1>1. timer \in Timers /\ n \in Nat /\ <<c, what>> \in Connections \X Nat
  BY DEF Timers, TimerOf, TimersOK
<1>2. /\ starts' \in Seq(Connections \X Nat) /\ DOMAIN starts' = 1..n /\ starts'[n] = <<c, what>>
      /\ \A i \in 1..n : i # n => i \in DOMAIN starts /\ starts'[i] = starts[i] /\ i <= n
  BY <1>1 DEF Started, TimersOK
<1>3. logger' = StartTimer(logger, timer, key, n)
  BY DEF Started
<1> HIDE DEF n, timer, key
<1>4. HasTimers(logger)
  BY DEF TimersOK
<1>5. /\ logger'.measured = logger.measured /\ logger'.start[timer] = With(logger.start[timer], key, n)
      /\ \A t \in Timers : t # timer => logger'.start[t] = logger.start[t]
      /\ HasTimers(logger')
  BY <1>1, <1>3, <1>4, StartedTimers
<1>6. \A t \in Timers : Measured(t)' /\ \A h \in DOMAIN logger'.start[t] : logger'.start[t][h] \in Nat
  <2> SUFFICES ASSUME NEW t \in Timers
               PROVE  Measured(t)' /\ \A h \in DOMAIN logger'.start[t] : logger'.start[t][h] \in Nat
    OBVIOUS
  <2>1. Measured(t)'
    BY <1>5 DEF TimersOK, Measured
  <2>2. CASE t = timer
    <3>1. \A h \in DOMAIN With(logger.start[t], key, n) : With(logger.start[t], key, n)[h] \in Nat
      BY <1>1, WithNats DEF TimersOK
    <3> QED BY <1>5, <2>1, <2>2, <3>1
  <2>3. CASE t # timer
    BY <1>5, <2>1, <2>3 DEF TimersOK
  <2> QED BY <2>2, <2>3
<1>7. ASSUME NEW i \in 1..n
      PROVE  HasStart(logger'.start[TimerOf(starts'[i][2])], KeyOf(starts'[i][1], starts'[i][2]), i)
  <2>1. CASE i = n
    <3>1. HasStart(logger'.start[timer], key, n)
      BY <1>1, <1>5, LatestStart
    <3>2. starts'[i][1] = c /\ starts'[i][2] = what
      BY <1>2, <2>1
    <3> QED BY <2>1, <3>1, <3>2 DEF timer, key
  <2>2. CASE i # n
    <3> DEFINE t == TimerOf(starts[i][2])
               j == KeyOf(starts[i][1], starts[i][2])
    <3>1. starts'[i] = starts[i] /\ i <= n /\ i \in Nat /\ t \in Timers /\ HasStart(logger.start[t], j, i)
      BY <1>1, <1>2, <2>2 DEF Timers, TimerOf, TimersOK
    <3> HIDE DEF t, j
    <3>2. CASE t = timer
      <4>1. HasStart(With(logger.start[t], key, n), j, i)
        BY <1>1, <3>1, StartKept DEF TimersOK
      <4>2. HasStart(logger'.start[t], j, i)
        BY <1>5, <3>2, <4>1
      <4> QED BY <3>1, <4>2 DEF t, j
    <3>3. CASE t # timer
      <4>1. HasStart(logger'.start[t], j, i)
        BY <1>5, <3>1, <3>3
      <4> QED BY <3>1, <4>1 DEF t, j
    <3> QED BY <3>2, <3>3
  <2> QED BY <2>1, <2>2
<1>8. Connections' = Connections /\ \A d, m : KeyOf(d, m)' = KeyOf(d, m)
  BY DEF Connections, KeyOf, Address, URL, Requests
<1> QED BY <1>2, <1>5, <1>6, <1>7, <1>8 DEF TimersOK

LEMMA StoppedKeeps ==
  ASSUME TimersOK, NEW timer \in Timers, NEW key, NEW starting, Stopped(timer, key, starting),
         UNCHANGED <<script, starts>>
  PROVE  TimersOK'
<1>1. PICK started : logger' = StopTimer(logger, timer, key, started)
  BY DEF Stopped
<1>2. HasTimers(logger)
  BY DEF TimersOK
<1>3. /\ logger'.start = logger.start
      /\ logger'.measured[timer] = Append(logger.measured[timer], [key |-> key, started |-> started])
      /\ \A t \in Timers : t # timer => logger'.measured[t] = logger.measured[t]
      /\ HasTimers(logger')
  BY <1>1, <1>2, StoppedTimers
<1>4. \A t \in Timers : Measured(t)'
  <2> SUFFICES ASSUME NEW t \in Timers PROVE \E T : logger'.measured[t] \in Seq(T)
    BY DEF Measured
  <2>1. PICK T : logger.measured[t] \in Seq(T)
    BY DEF TimersOK, Measured
  <2>2. CASE t = timer
    <3> DEFINE e == [key |-> key, started |-> started]
    <3>1. Append(logger.measured[t], e) \in Seq(T \cup {e})
      BY <2>1
    <3> QED BY <1>3, <2>2, <3>1
  <2>3. CASE t # timer
    BY <1>3, <2>1, <2>3
  <2> QED BY <2>2, <2>3
<1>5. Connections' = Connections /\ \A d, m : KeyOf(d, m)' = KeyOf(d, m)
  BY DEF Connections, KeyOf, Address, URL, Requests
<1> QED BY <1>3, <1>4, <1>5 DEF TimersOK

LEMMA PlaceKeeps ==
  ASSUME Inv, NEW c \in Connections, NEW q, pc' = [pc EXCEPT ![c] = q],
         ThreadOK(q, round[c], count[c], fin[c], reset[c], Total(c)), ~Saving(c),
         UNCHANGED <<script, round, disk, count, peers>>, recorder' \in Recorders
  PROVE  ThreadsOK' /\ DiskOK'
<1>1. Moves(c, q, round[c], count[c], fin[c], reset[c])
  BY AsItWas DEF Inv, Moves, peers
<1>2. ThreadsOK'
  BY <1>1, ThreadsMove DEF Inv
<1>3. \A d \in Connections : count'[d].delivered = count[d].delivered /\ (Saving(d) => pc'[d] = pc[d])
  BY <1>1, OnlyOne DEF Inv
<1> QED BY <1>2, <1>3, DiskKept DEF Inv

LEMMA RttKeeps ==
  ASSUME Inv, NEW c \in Connections, RttStarted(c) \/ RttStopped(c)
  PROVE  Inv'
<1>1. UNCHANGED <<script, recorder, round, disk, count, peers>> /\ Running /\ ~Saving(c)
  BY DEF RttStarted, RttStopped, Goes, Saving
<1>2. PICK q \in Plain : pc' = [pc EXCEPT ![c] = q]
  BY DEF RttStarted, RttStopped, Goes, Plain
<1>3. ThreadOK(q, round[c], count[c], fin[c], reset[c], Total(c))
  BY <1>2, ThreadAt, ToPlainPlace DEF Inv
<1>4. ThreadsOK' /\ DiskOK'
  BY <1>1, <1>2, <1>3, PlaceKeeps, RecorderRuns
<1>5. CASE RttStarted(c)
  <2>1. Started(c, "rtt", Address(c), 0) /\ TimerOf(0) = "rtt" /\ KeyOf(c, 0) = Address(c)
    BY <1>5 DEF RttStarted, TimerOf, KeyOf
  <2>2. TimersOK'
    BY <1>1, <2>1, StartedKeeps DEF Inv
  <2> QED BY <1>4, <2>2 DEF Inv
<1>6. CASE RttStopped(c)
  <2>1. Stopped("rtt", Address(c), "start rtt") /\ "rtt" \in Timers /\ UNCHANGED starts
    BY <1>6 DEF RttStopped, Timers
  <2>2. TimersOK'
    BY <1>1, <2>1, StoppedKeeps DEF Inv
  <2> QED BY <1>4, <2>2 DEF Inv
<1> QED BY <1>5, <1>6

\* write() to a connection that is not what it was: the thread throws, or the process ends.
LEMMA BadWriteKeeps ==
  ASSUME Inv, NEW c \in Connections, ~Saving(c), Running, UNCHANGED <<script, disk, peers, round, count>>,
         \/ recorder' = "crashed" /\ UNCHANGED pc
         \/ Throws(c) /\ UNCHANGED recorder
  PROVE  ThreadsOK' /\ DiskOK'
<1>1. CASE recorder' = "crashed" /\ UNCHANGED pc
  <2>1. pc' = [pc EXCEPT ![c] = pc[c]] /\ recorder' \in Recorders
    BY <1>1, AsItWas DEF Inv, Recorders
  <2> QED BY <2>1, ThreadAt, PlaceKeeps DEF Inv
<1>2. CASE Throws(c) /\ UNCHANGED recorder
  <2>1. pc' = [pc EXCEPT ![c] = "threw"] /\ "threw" \in Plain
    BY <1>2 DEF Throws, Goes, Plain
  <2>2. ThreadOK("threw", round[c], count[c], fin[c], reset[c], Total(c))
    BY <2>1, ThreadAt, ToPlainPlace DEF Inv
  <2> QED BY <1>2, <2>1, <2>2, PlaceKeeps, RecorderRuns
<1> QED BY <1>1, <1>2

LEMMA ForwardKeeps ==
  ASSUME Inv, NEW c \in Connections, Forward(c)
  PROVE  Inv'
<1> DEFINE r == round[c]
           k == count[c]
           f == fin[c]
           x == reset[c]
           n == Total(c)
           m == k.forwarded + 1
           good == Counts(c, "forwarded", 1) /\ Served(c, "start load") /\ UNCHANGED recorder
           bad == /\ UNCHANGED <<round, count>>
                  /\ \/ recorder' = "crashed" /\ UNCHANGED pc
                     \/ Throws(c) /\ UNCHANGED recorder
<1>1. /\ pc[c] = "start load" /\ Running /\ Started(c, "load", URL(c, m), m)
      /\ UNCHANGED <<script, disk, peers>>
  BY DEF Forward
<1>0. good \/ bad
  <2>1. Writes(c, "server", "start load", "forwarded", Served(c, "start load"))
    BY DEF Forward
  <2> QED BY <2>1 DEF Writes
<1>2. ThreadOK("start load", r, k, f, x, n) /\ ~Saving(c)
  BY <1>1, ThreadAt DEF Inv, Saving
<1>3. /\ r \in Turn /\ r # <<>> /\ r[1] = "server out" /\ k.forwarded < k.parsed
      /\ InOrder(k, n) /\ EndsRead(k, f) /\ k \in Amounts
  <2>1. r \in Turn /\ r # <<>> /\ r[1] = "server out" /\ InOrder(k, n) /\ EndsRead(k, f)
    BY <1>2 DEF ThreadOK, Turns
  <2>2. 1 \in DOMAIN r
    BY <2>1, TurnFacts
  <2>3. HasWork("server out", k) /\ k \in Amounts
    BY <1>2, <2>1, <2>2 DEF ThreadOK, Turns, InOrder
  <2> QED BY <2>1, <2>3 DEF HasWork
<1>4. TimersOK'
  <2>1. m \in Nat /\ m # 0
    <3>1. k.forwarded \in Nat
      BY <1>3 DEF Amounts
    <3> QED BY <3>1
  <2>2. TimerOf(m) = "load" /\ KeyOf(c, m) = URL(c, m)
    BY <2>1 DEF TimerOf, KeyOf
  <2> HIDE DEF m
  <2> QED BY <1>1, <2>1, <2>2, StartedKeeps DEF Inv
<1>5. CASE good
  <2> DEFINE l == [k EXCEPT !["forwarded"] = @ + 1]
  <2>1. count' = [count EXCEPT ![c] = l]
    BY <1>5 DEF Counts
  <2>2. k.forwarded + 1 <= k.parsed /\ 1 \in Nat /\ n \in Nat
    <3>1. k.forwarded \in Nat /\ k.parsed \in Nat
      BY <1>3 DEF Amounts
    <3>2. k.forwarded + 1 <= k.parsed
      BY <1>3, <3>1, NextIsAtMost, Zenon
    <3> QED BY <3>2, TotalIsNat DEF Inv
  <2>3. /\ InOrder(l, n) /\ EndsRead(l, f) /\ l.delivered = k.delivered
        /\ \A a : a # "server out" /\ HasWork(a, k) => HasWork(a, l)
    BY <1>3, <2>2, CountForwarded
  <2> HIDE DEF l
  <2>4. PICK q \in {"poll", "service"} : pc' = [pc EXCEPT ![c] = q]
    BY <1>5, ServedFacts
  <2>5. round' = [round EXCEPT ![c] = Tail(r)]
    BY <1>5, ServedFacts
  <2>6. ThreadOK(q, Tail(r), l, f, x, n)
    <3> HIDE DEF r, k, f, x, n
    <3> QED BY <1>2, <1>3, <2>3, AfterCallback
  <2>7. Moves(c, q, Tail(r), l, f, x)
    BY <1>1, <2>1, <2>4, <2>5, AsItWas DEF Inv, Moves, peers
  <2>8. ThreadsOK'
    BY <1>1, <1>5, <2>6, <2>7, ThreadsMove, RecorderRuns DEF Inv
  <2>9. \A d \in Connections : count'[d].delivered = count[d].delivered /\ (Saving(d) => pc'[d] = pc[d])
    <3>1. /\ pc'[c] = q /\ count'[c] = l
          /\ \A d \in Connections : d # c => pc'[d] = pc[d] /\ count'[d] = count[d]
      BY <2>7, OnlyOne DEF Inv
    <3> QED BY <1>2, <2>3, <3>1
  <2>10. DiskOK'
    BY <1>1, <2>9, DiskKept DEF Inv
  <2> QED BY <1>4, <2>8, <2>10 DEF Inv
<1>6. CASE bad
  <2>1. ThreadsOK' /\ DiskOK'
    BY <1>1, <1>2, <1>6, BadWriteKeeps
  <2> QED BY <1>4, <2>1 DEF Inv
<1> QED BY <1>0, <1>5, <1>6

\* A response has been delivered, and is to be saved.
LEMMA DiskDelivered ==
  ASSUME DiskOK, NEW c \in Connections, count[c].delivered \in Nat,
         count'[c].delivered = count[c].delivered + 1, ~Saving(c),
         script[c].recorded => Saving(c)', UNCHANGED <<script, disk>>,
         \A d \in Connections : d # c => count'[d].delivered = count[d].delivered /\ pc'[d] = pc[d]
  PROVE  DiskOK'
<1>1. Connections' = Connections /\ cut' = cut /\ whole' = whole /\ diskFull' = diskFull
  BY DEF Connections, disk
<1>2. \A n \in 1 .. count[c].delivered : n \in 1 .. count'[c].delivered
  OBVIOUS
<1>3. \A u \in cut \cup whole : \E d \in Connections : \E n \in 1 .. count'[d].delivered : u = <<d, n>>
  <2> SUFFICES ASSUME NEW u \in cut \cup whole
               PROVE  \E d \in Connections : \E n \in 1 .. count'[d].delivered : u = <<d, n>>
    OBVIOUS
  <2>1. PICK d \in Connections : \E n \in 1 .. count[d].delivered : u = <<d, n>>
    BY DEF DiskOK
  <2>2. PICK n \in 1 .. count[d].delivered : u = <<d, n>>
    BY <2>1
  <2>3. n \in 1 .. count'[d].delivered
    BY <1>2
  <2> QED BY <2>2, <2>3
<1>4. \A u \in cut :
        diskFull \/ \E d \in Connections : pc'[d] = "serialize" /\ u = <<d, count'[d].delivered>>
  <2> SUFFICES ASSUME NEW u \in cut, ~diskFull
               PROVE  \E d \in Connections : pc'[d] = "serialize" /\ u = <<d, count'[d].delivered>>
    OBVIOUS
  <2>1. PICK d \in Connections : pc[d] = "serialize" /\ u = <<d, count[d].delivered>>
    BY DEF DiskOK
  <2>2. d # c
    BY <2>1 DEF Saving
  <2> QED BY <2>1, <2>2
<1>5. \A d \in Connections : \A n \in 1 .. count'[d].delivered :
        script'[d].recorded /\ ~diskFull => <<d, n>> \in whole \/ (n = count'[d].delivered /\ Saving(d)')
  <2> SUFFICES ASSUME NEW d \in Connections, NEW n \in 1 .. count'[d].delivered, script[d].recorded, ~diskFull
               PROVE  <<d, n>> \in whole \/ (n = count'[d].delivered /\ Saving(d)')
    OBVIOUS
  <2>1. CASE d = c
    <3>1. n \in 1 .. count[c].delivered \/ n = count'[c].delivered
      BY <2>1
    <3> QED BY <2>1, <3>1 DEF DiskOK
  <2>2. CASE d # c
    BY <2>2 DEF DiskOK, Saving
  <2> QED BY <2>1, <2>2
<1> QED BY <1>1, <1>3, <1>4, <1>5 DEF DiskOK

LEMMA DeliverKeeps ==
  ASSUME Inv, NEW c \in Connections, Deliver(c)
  PROVE  Inv'
<1> DEFINE r == round[c]
           k == count[c]
           f == fin[c]
           x == reset[c]
           n == Total(c)
           m == k.delivered + 1
           good == /\ Counts(c, "delivered", 1) /\ UNCHANGED recorder
                   /\ IF script[c].recorded THEN Goes(c, "stop load", "save") /\ UNCHANGED round
                      ELSE Served(c, "stop load")
           bad == /\ UNCHANGED <<round, count>>
                  /\ \/ recorder' = "crashed" /\ UNCHANGED pc
                     \/ Throws(c) /\ UNCHANGED recorder
<1>1. /\ pc[c] = "stop load" /\ Running /\ Stopped("load", URL(c, m), "start load")
      /\ UNCHANGED <<script, disk, peers, starts>>
  BY DEF Deliver
<1>0. good \/ bad
  <2>1. Writes(c, "client", "stop load", "delivered",
               IF script[c].recorded THEN Goes(c, "stop load", "save") /\ UNCHANGED round
               ELSE Served(c, "stop load"))
    BY DEF Deliver
  <2> QED BY <2>1 DEF Writes
<1>2. ThreadOK("stop load", r, k, f, x, n) /\ ~Saving(c)
  BY <1>1, ThreadAt DEF Inv, Saving
<1>3. /\ r \in Turn /\ r # <<>> /\ r[1] = "client out" /\ k.delivered < k.received
      /\ InOrder(k, n) /\ EndsRead(k, f) /\ k \in Amounts
  <2>1. r \in Turn /\ r # <<>> /\ r[1] = "client out" /\ InOrder(k, n) /\ EndsRead(k, f)
    BY <1>2 DEF ThreadOK, Turns
  <2>2. 1 \in DOMAIN r
    BY <2>1, TurnFacts
  <2>3. HasWork("client out", k) /\ k \in Amounts
    BY <1>2, <2>1, <2>2 DEF ThreadOK, Turns, InOrder
  <2> QED BY <2>1, <2>3 DEF HasWork
<1>4. TimersOK'
  BY <1>1, StoppedKeeps DEF Inv, Timers
<1>5. CASE good
  <2> DEFINE l == [k EXCEPT !["delivered"] = @ + 1]
  <2>1. count' = [count EXCEPT ![c] = l]
    BY <1>5 DEF Counts
  <2>2. k.delivered + 1 <= k.received /\ 1 \in Nat /\ n \in Nat /\ k.delivered \in Nat
    <3>1. k.delivered \in Nat /\ k.received \in Nat
      BY <1>3 DEF Amounts
    <3>2. k.delivered + 1 <= k.received
      BY <1>3, <3>1, NextIsAtMost, Zenon
    <3> QED BY <3>1, <3>2, TotalIsNat DEF Inv
  <2>3. /\ InOrder(l, n) /\ EndsRead(l, f) /\ l.delivered = k.delivered + 1
        /\ \A a : a # "client out" /\ HasWork(a, k) => HasWork(a, l)
    BY <1>3, <2>2, CountDelivered
  <2> HIDE DEF l
  <2>11. l.delivered # 0
    BY <2>2, <2>3, NextIsNotNothing, Zenon
  <2>4. \E q, s : /\ pc' = [pc EXCEPT ![c] = q] /\ round' = [round EXCEPT ![c] = s]
                  /\ ThreadOK(q, s, l, f, x, n) /\ (script[c].recorded => q = "save")
    <3>1. CASE script[c].recorded
      <4>1. pc' = [pc EXCEPT ![c] = "save"] /\ round' = [round EXCEPT ![c] = r]
        BY <1>5, <3>1, AsItWas DEF Goes, Inv
      <4>2. ThreadOK("save", r, l, f, x, n)
        <5> HIDE DEF r, k, f, x, n
        <5> QED BY <1>2, <1>3, <2>3, <2>11, AfterDelivery
      <4> QED BY <4>1, <4>2
    <3>2. CASE ~script[c].recorded
      <4>1. Served(c, "stop load")
        BY <1>5, <3>2
      <4>2. PICK q \in {"poll", "service"} : pc' = [pc EXCEPT ![c] = q]
        BY <4>1, ServedFacts
      <4>3. round' = [round EXCEPT ![c] = Tail(r)]
        BY <4>1, ServedFacts
      <4>4. ThreadOK(q, Tail(r), l, f, x, n)
        <5> HIDE DEF r, k, f, x, n
        <5> QED BY <1>2, <1>3, <2>3, AfterCallback
      <4> QED BY <3>2, <4>2, <4>3, <4>4
    <3> QED BY <3>1, <3>2
  <2>5. PICK q, s : /\ pc' = [pc EXCEPT ![c] = q] /\ round' = [round EXCEPT ![c] = s]
                    /\ ThreadOK(q, s, l, f, x, n) /\ (script[c].recorded => q = "save")
    BY <2>4
  <2>6. Moves(c, q, s, l, f, x)
    BY <1>1, <2>1, <2>5, AsItWas DEF Inv, Moves, peers
  <2>7. ThreadsOK'
    BY <1>1, <1>5, <2>5, <2>6, ThreadsMove, RecorderRuns DEF Inv
  <2>8. /\ count'[c] = l /\ pc'[c] = q
        /\ \A d \in Connections : d # c => count'[d] = count[d] /\ pc'[d] = pc[d]
    BY <2>6, OnlyOne DEF Inv
  <2>9. script[c].recorded => Saving(c)'
    BY <2>5, <2>8 DEF Saving
  <2>10. DiskOK'
    BY <1>1, <1>2, <2>2, <2>3, <2>8, <2>9, DiskDelivered DEF Inv
  <2> QED BY <1>4, <2>7, <2>10 DEF Inv
<1>6. CASE bad
  <2>1. ThreadsOK' /\ DiskOK'
    BY <1>1, <1>2, <1>6, BadWriteKeeps
  <2> QED BY <1>4, <2>1 DEF Inv
<1> QED BY <1>0, <1>5, <1>6

-----------------------------------------------------------------------------
(***************************************************************************)
(* The disk.                                                               *)
(***************************************************************************)
LEMMA SavingFacts ==
  ASSUME Inv, NEW c \in Connections, Saving(c)
  PROVE  /\ count[c].delivered \in Nat /\ count[c].delivered \in 1 .. count[c].delivered
         /\ round[c] \in Turn /\ round[c] # <<>>
         /\ ThreadOK(pc[c], round[c], count[c], fin[c], reset[c], Total(c))
<1>1. ThreadOK(pc[c], round[c], count[c], fin[c], reset[c], Total(c))
  BY ThreadAt DEF Inv
<1>2. count[c].delivered \in Nat
  BY <1>1 DEF ThreadOK, InOrder, Amounts
<1>3. count[c].delivered # 0 /\ round[c] \in Turn /\ round[c] # <<>>
  BY <1>1 DEF ThreadOK, Turns, Saving
<1> QED BY <1>1, <1>2, <1>3

LEMMA CreateKeeps ==
  ASSUME Inv, NEW c \in Connections, Create(c)
  PROVE  Inv'
<1> DEFINE u == <<c, count[c].delivered>>
<1>1. /\ pc[c] = "save" /\ pc' = [pc EXCEPT ![c] = "serialize"] /\ Running /\ cut' = cut \cup {u}
      /\ UNCHANGED <<script, recorder, round, logger, whole, diskFull, count, peers, starts>>
  BY DEF Create, Goes
<1>2. Saving(c)
  BY <1>1 DEF Saving
<1>3. ThreadOK("serialize", round[c], count[c], fin[c], reset[c], Total(c))
  BY <1>1, <1>2, SavingFacts, ToWriting
<1>4. Moves(c, "serialize", round[c], count[c], fin[c], reset[c])
  BY <1>1, AsItWas DEF Inv, Moves, peers
<1>5. ThreadsOK' /\ TimersOK'
  BY <1>1, <1>3, <1>4, ThreadsMove, RecorderRuns, TimersKept DEF Inv
<1>6. /\ count' = count /\ pc'[c] = "serialize" /\ \A d \in Connections : d # c => pc'[d] = pc[d]
      /\ Connections' = Connections
  BY <1>1, <1>4, OnlyOne DEF Inv, Connections
<1>7. \A v \in cut' \cup whole' : \E d \in Connections : \E n \in 1 .. count[d].delivered : v = <<d, n>>
  <2>1. count[c].delivered \in 1 .. count[c].delivered
    BY <1>2, SavingFacts
  <2> QED BY <1>1, <2>1 DEF Inv, DiskOK
<1>8. \A v \in cut' : diskFull \/ \E d \in Connections : pc'[d] = "serialize" /\ v = <<d, count[d].delivered>>
  <2> SUFFICES ASSUME NEW v \in cut', ~diskFull
               PROVE  \E d \in Connections : pc'[d] = "serialize" /\ v = <<d, count[d].delivered>>
    OBVIOUS
  <2>1. CASE v = u
    BY <1>6, <2>1
  <2>2. CASE v # u
    <3>1. v \in cut
      BY <1>1, <2>2
    <3>2. PICK d \in Connections : pc[d] = "serialize" /\ v = <<d, count[d].delivered>>
      BY <3>1 DEF Inv, DiskOK
    <3>3. pc'[d] = "serialize"
      BY <1>1, <1>6, <3>2
    <3> QED BY <3>2, <3>3
  <2> QED BY <2>1, <2>2
<1>9. \A d \in Connections : Saving(d) => Saving(d)'
  BY <1>6 DEF Saving
<1>10. DiskOK'
  BY <1>1, <1>6, <1>7, <1>8, <1>9 DEF Inv, DiskOK
<1> QED BY <1>5, <1>10 DEF Inv

LEMMA SerializeKeeps ==
  ASSUME Inv, NEW c \in Connections, Serialize(c)
  PROVE  Inv'
<1> DEFINE u == <<c, count[c].delivered>>
<1>1. /\ pc[c] = "serialize" /\ Served(c, "serialize") /\ cut' = cut \ {u} /\ whole' = whole \cup {u}
      /\ UNCHANGED <<script, recorder, logger, diskFull, count, peers, starts>>
  BY DEF Serialize
<1>2. Saving(c)
  BY <1>1 DEF Saving
<1>3. PICK q \in {"poll", "service"} : pc' = [pc EXCEPT ![c] = q]
  BY <1>1, ServedFacts
<1>4. round' = [round EXCEPT ![c] = Tail(round[c])] /\ Running
  BY <1>1, ServedFacts
<1>5. ThreadOK(q, Tail(round[c]), count[c], fin[c], reset[c], Total(c))
  <2>1. ThreadOK("serialize", round[c], count[c], fin[c], reset[c], Total(c)) /\ round[c] # <<>>
    BY <1>1, <1>2, SavingFacts
  <2>2. InOrder(count[c], Total(c)) /\ EndsRead(count[c], fin[c])
    BY <2>1 DEF ThreadOK
  <2> DEFINE k == count[c]
             r == round[c]
  <2>3. \A a : a # r[1] /\ HasWork(a, k) => HasWork(a, k)
    OBVIOUS
  <2> HIDE DEF k, r
  <2>4. ThreadOK(q, Tail(r), k, fin[c], reset[c], Total(c))
    BY <2>1, <2>2, <2>3, AfterCallback DEF k, r
  <2> QED BY <2>4 DEF k, r
<1>6. Moves(c, q, Tail(round[c]), count[c], fin[c], reset[c])
  BY <1>1, <1>3, <1>4, AsItWas DEF Inv, Moves, peers
<1>7. ThreadsOK' /\ TimersOK'
  BY <1>1, <1>4, <1>5, <1>6, ThreadsMove, RecorderRuns, TimersKept DEF Inv
<1>8. /\ count' = count /\ pc'[c] = q /\ \A d \in Connections : d # c => pc'[d] = pc[d]
      /\ Connections' = Connections
  BY <1>1, <1>6, OnlyOne DEF Inv, Connections
<1>9. \A v \in cut' \cup whole' : \E d \in Connections : \E n \in 1 .. count[d].delivered : v = <<d, n>>
  <2>1. count[c].delivered \in 1 .. count[c].delivered
    BY <1>2, SavingFacts
  <2> QED BY <1>1, <2>1 DEF Inv, DiskOK
<1>10. \A v \in cut' : diskFull \/ \E d \in Connections : pc'[d] = "serialize" /\ v = <<d, count[d].delivered>>
  <2> SUFFICES ASSUME NEW v \in cut', ~diskFull
               PROVE  \E d \in Connections : pc'[d] = "serialize" /\ v = <<d, count[d].delivered>>
    OBVIOUS
  <2>1. v \in cut /\ v # u
    BY <1>1
  <2>2. PICK d \in Connections : pc[d] = "serialize" /\ v = <<d, count[d].delivered>>
    BY <2>1 DEF Inv, DiskOK
  <2>3. d # c
    BY <2>1, <2>2
  <2> QED BY <1>8, <2>2, <2>3
<1>11. \A d \in Connections : \A n \in 1 .. count[d].delivered :
         script[d].recorded /\ ~diskFull => <<d, n>> \in whole' \/ (n = count[d].delivered /\ Saving(d)')
  <2> SUFFICES ASSUME NEW d \in Connections, NEW n \in 1 .. count[d].delivered, script[d].recorded, ~diskFull
               PROVE  <<d, n>> \in whole' \/ (n = count[d].delivered /\ Saving(d)')
    OBVIOUS
  <2>1. <<d, n>> \in whole \/ (n = count[d].delivered /\ Saving(d))
    BY DEF Inv, DiskOK
  <2>2. CASE d = c
    BY <1>1, <2>1, <2>2
  <2>3. CASE d # c
    BY <1>1, <1>8, <2>1, <2>3 DEF Saving
  <2> QED BY <2>2, <2>3
<1>12. DiskOK'
  BY <1>1, <1>8, <1>9, <1>10, <1>11 DEF DiskOK
<1> QED BY <1>7, <1>12 DEF Inv

LEMMA SerializeFailsKeeps ==
  ASSUME Inv, NEW c \in Connections, SerializeFails(c)
  PROVE  Inv'
<1>1. /\ pc' = [pc EXCEPT ![c] = "threw"] /\ Running /\ diskFull' = TRUE
      /\ UNCHANGED <<script, recorder, round, logger, cut, whole, count, peers, starts>>
  BY DEF SerializeFails, Goes
<1>2. ThreadOK("threw", round[c], count[c], fin[c], reset[c], Total(c))
  BY ThreadAt, ToPlainPlace DEF Inv, Plain
<1>3. Moves(c, "threw", round[c], count[c], fin[c], reset[c])
  BY <1>1, AsItWas DEF Inv, Moves, peers
<1>4. ThreadsOK' /\ TimersOK'
  BY <1>1, <1>2, <1>3, ThreadsMove, RecorderRuns, TimersKept DEF Inv
<1>5. Connections' = Connections
  BY <1>1 DEF Connections
<1>6. DiskOK'
  BY <1>1, <1>5 DEF Inv, DiskOK
<1> QED BY <1>4, <1>6 DEF Inv

-----------------------------------------------------------------------------
(***************************************************************************)
(* Every step of a recording.                                              *)
(***************************************************************************)
LEMMA InvStutters ==
  ASSUME Inv, UNCHANGED <<script, thread, logger, disk, count, peers, starts>>, recorder' \in Recorders
  PROVE  Inv'
<1>1. ThreadsOK'
  <2>1. /\ pc' = pc /\ round' = round /\ count' = count /\ fin' = fin /\ reset' = reset
        /\ Connections' = Connections /\ \A c : Total(c)' = Total(c)
    BY DEF thread, peers, Connections, Total, Requests
  <2> QED BY <2>1 DEF Inv, ThreadsOK
<1>2. DiskOK' /\ TimersOK'
  BY DiskKept, TimersKept DEF Inv, thread
<1> QED BY <1>1, <1>2 DEF Inv

LEMMA RecorderKeeps ==
  ASSUME Inv, RecorderStep
  PROVE  Inv'
BY InvStutters DEF RecorderStep, Quit, PrintAndExit, Crash, Recorders

LEMMA RecordKeeps ==
  ASSUME Inv, RecordStep
  PROVE  Inv'
<1>1. ASSUME NEW c \in Connections, ThreadStep(c) PROVE Inv'
  BY <1>1, PlainMovesKeep, RttKeeps, PollKeeps, PlacesKeep, ReadsKeep, ForwardKeeps, DeliverKeeps,
     CreateKeeps, SerializeKeeps, SerializeFailsKeeps DEF ThreadStep
<1> QED BY <1>1, RecorderKeeps, PlainMovesKeep, PeersKeep DEF RecordStep

LEMMA InvInit == RecordInit => Inv
<1> SUFFICES ASSUME Init PROVE Inv
  BY DEF RecordInit
<1>1. script \in Scripts /\ \A c \in Connections : Total(c) \in Nat
  BY ScriptsAssumption DEF Init, Connections, Total, Requests
<1>2. ThreadsOK
  <2>1. Nothing \in Amounts
    BY DEF Nothing, Amounts
  <2>2. \A c \in Connections : ThreadOK("none", <<>>, Nothing, [ended |-> {}, seen |-> {}], {}, Total(c))
    BY <1>1, FreshThread
  <2>3. /\ pc \in [Connections -> Places] /\ round \in [Connections -> Turn] /\ count \in [Connections -> Amounts]
        /\ fin \in [Connections -> Ends] /\ reset \in [Connections -> SUBSET Sides]
    <3>1. <<>> \in Turn /\ "none" \in Places /\ [ended |-> {}, seen |-> {}] \in Ends
      BY DEF Turn, Places, Ends
    <3> QED BY <2>1, <3>1 DEF Init
  <2>4. \A c \in Connections : ThreadOK(pc[c], round[c], count[c], fin[c], reset[c], Total(c))
    BY <2>2 DEF Init
  <2> QED BY <1>1, <2>3, <2>4 DEF Init, ThreadsOK, Recorders
<1>3. DiskOK
  BY DEF Init, DiskOK, Nothing
<1>4. TimersOK
  <2>1. HasTimers(logger)
    BY NewTimers DEF Init, HasTimers
  <2>2. \A t \in Timers : logger.start[t] = <<>> /\ logger.measured[t] = <<>>
    BY DEF Init, NewTimeLogger, Timers
  <2>3. \A t \in Timers : Measured(t)
    <3>1. <<>> \in Seq({})
      OBVIOUS
    <3> QED BY <2>2, <3>1 DEF Measured
  <2> QED BY <2>1, <2>2, <2>3 DEF Init, TimersOK
<1> QED BY <1>2, <1>3, <1>4 DEF Inv

-----------------------------------------------------------------------------
(***************************************************************************)
(* The longest common prefix of two sequences.                             *)
(***************************************************************************)
LEMMA PrefixesOf ==
  ASSUME NEW S, NEW a \in Seq(S)
  PROVE  /\ \A p \in Prefixes(a) : p \in Seq(S) /\ Len(p) \in Nat
         /\ <<>> \in Prefixes(a) /\ a \in Prefixes(a)
<1>1. /\ \A l \in 0 .. Len(a) : SubSeq(a, 1, l) \in Seq(S)
      /\ SubSeq(a, 1, 0) = <<>> /\ SubSeq(a, 1, Len(a)) = a /\ Len(a) \in Nat
  OBVIOUS
<1>2. \A p \in Prefixes(a) : p \in Seq(S)
  BY <1>1 DEF Prefixes
<1>3. 0 \in 0 .. Len(a) /\ Len(a) \in 0 .. Len(a)
  BY <1>1
<1>4. <<>> \in Prefixes(a) /\ a \in Prefixes(a)
  BY <1>1, <1>3 DEF Prefixes
<1> QED BY <1>2, <1>4

LEMMA Longest ==
  ASSUME NEW S, NEW a \in Seq(S), NEW b \in Seq(S)
  PROVE  LET p == LongestCommonPrefix({a, b})
         IN /\ p \in Seq(S) /\ IsPrefix(p, a) /\ IsPrefix(p, b)
            /\ \A q \in CommonPrefixes({a, b}) : Len(q) <= Len(p)
<1> DEFINE C == CommonPrefixes({a, b})
           T == {Len(q) : q \in C}
<1>1. \A q \in C : q \in Seq(S) /\ Len(q) \in Nat /\ IsPrefix(q, a) /\ IsPrefix(q, b)
  BY PrefixesOf DEF CommonPrefixes
<1>2. <<>> \in C
  <2>1. IsPrefix(<<>>, a) /\ IsPrefix(<<>>, b)
    BY DEF IsPrefix
  <2>2. <<>> \in Prefixes(a)
    BY PrefixesOf
  <2> QED BY <2>1, <2>2 DEF CommonPrefixes
<1>3. T \subseteq Nat /\ T # {} /\ \A n \in T : n <= Len(a)
  <2>1. \A q \in C : Len(q) <= Len(a)
    BY <1>1 DEF IsPrefix
  <2> HIDE DEF C
  <2> QED BY <1>1, <1>2, <2>1
<1>4. \E n \in T : \A m \in T : m <= n
  <2>1. Len(a) \in Nat
    OBVIOUS
  <2> HIDE DEF T
  <2> QED BY <1>3, <2>1, GreatestElement
<1>5. \E q \in C : \A o \in C : Len(o) <= Len(q)
  BY <1>4
<1>6. LongestCommonPrefix({a, b}) \in C /\ \A o \in C : Len(o) <= Len(LongestCommonPrefix({a, b}))
  BY <1>5 DEF LongestCommonPrefix
<1> QED BY <1>1, <1>6

LEMMA CommonPrefixBound ==
  ASSUME NEW S, NEW a \in Seq(S), NEW b \in Seq(S)
  PROVE  CommonPrefix(a, b) \in Nat /\ CommonPrefix(a, b) <= Len(b)
<1> DEFINE p == LongestCommonPrefix({a, b})
<1>1. p \in Seq(S) /\ IsPrefix(p, b)
  BY Longest
<1> HIDE DEF p
<1>2. Len(p) \in Nat /\ Len(p) <= Len(b)
  BY <1>1 DEF IsPrefix
<1> QED BY <1>2 DEF CommonPrefix, p

\* Two sequences that have all of the second in common.
LEMMA CommonPrefixWhole ==
  ASSUME NEW S, NEW a \in Seq(S), NEW b \in Seq(S), Len(b) <= CommonPrefix(a, b)
  PROVE  IsPrefix(b, a)
<1> DEFINE p == LongestCommonPrefix({a, b})
<1>1. p \in Seq(S) /\ IsPrefix(p, a) /\ IsPrefix(p, b) /\ Len(b) <= Len(p)
  BY Longest DEF CommonPrefix
<1> HIDE DEF p
<1>2. Len(p) = Len(b)
  BY <1>1 DEF IsPrefix
<1>3. SubSeq(p, 1, Len(p)) = p /\ SubSeq(b, 1, Len(b)) = b
  BY <1>1
<1>4. p = b
  BY <1>1, <1>2, <1>3 DEF IsPrefix
<1> QED BY <1>1, <1>4

LEMMA CommonPrefixSelf ==
  ASSUME NEW S, NEW a \in Seq(S)
  PROVE  CommonPrefix(a, a) = Len(a)
<1>1. a \in CommonPrefixes({a, a})
  BY PrefixesOf DEF CommonPrefixes, IsPrefix
<1>2. Len(a) <= CommonPrefix(a, a)
  BY <1>1, Longest DEF CommonPrefix
<1>3. CommonPrefix(a, a) <= Len(a) /\ CommonPrefix(a, a) \in Nat /\ Len(a) \in Nat
  BY CommonPrefixBound
<1> QED BY <1>2, <1>3

-----------------------------------------------------------------------------
(***************************************************************************)
(* What mm-webreplay makes of the directory.                               *)
(***************************************************************************)
Contents == {"empty", "broken"}

WholeFiles == {Record("whole", w[1], w[2]) : w \in whole}

Damaged(d) ==
  \/ cut # {} /\ (diskFull \/ \E c \in Connections : pc[c] = "serialize")
  \/ \E r \in whole : Requests(r[1])[r[2]].host = NoHeader
  \/ d = "save" /\ recorder = "exited"

ReplayOK ==
  /\ shell \in {"none", "refused", "serving"}
  /\ shell # "none" => ~Running
  /\ shell = "refused" => Damaged(directory)
  /\ shell = "serving" => Recorded(Files("empty", directory)) = WholeFiles
  /\ \A a \in replies : shell = "serving" /\ a.reply \in Replies(Files("empty", directory), a.server, a.request)

LEMMA LogFacts ==
  ASSUME NEW d, NEW f \in Logs(d)
  PROVE  f.save = (d = "save") /\ f.content = "broken" /\ recorder = "exited"
BY DEF Logs

LEMMA LoadsMeans ==
  ASSUME NEW content \in Contents, NEW d, Loads(Files(content, d))
  PROVE  Recorded(Files("empty", d)) = WholeFiles
<1>1. \A f \in Files(content, d) : f.save => f.content = "whole"
  BY DEF Loads, Recorded, Parses, Servable
<1>2. cut = {}
  <2> SUFFICES ASSUME NEW u \in cut PROVE FALSE
    OBVIOUS
  <2>1. Record(content, u[1], u[2]) \in Files(content, d)
    BY DEF Files
  <2>2. Record(content, u[1], u[2]).save = TRUE /\ Record(content, u[1], u[2]).content = content
    BY DEF Record
  <2> QED BY <1>1, <2>1, <2>2 DEF Contents
<1>3. \A f \in Logs(d) : ~f.save
  <2> SUFFICES ASSUME NEW f \in Logs(d), f.save PROVE FALSE
    OBVIOUS
  <2>1. f \in Files(content, d)
    BY DEF Files
  <2>2. f.content = "broken"
    BY LogFacts
  <2> QED BY <1>1, <2>1, <2>2
<1>4. Files("empty", d) = WholeFiles \cup Logs(d)
  BY <1>2 DEF Files, WholeFiles
<1>5. \A f \in WholeFiles : f.save
  BY DEF WholeFiles, Record
<1> QED BY <1>3, <1>4, <1>5 DEF Recorded

LEMMA RefusedMeans ==
  ASSUME DiskOK, NEW content \in Contents, NEW d, ~Loads(Files(content, d))
  PROVE  Damaged(d)
<1>1. PICK f \in Files(content, d) : f.save /\ ~(Parses(f) /\ Servable(f))
  BY DEF Loads, Recorded
<1>2. CASE f \in WholeFiles
  <2>1. PICK r \in whole : f = Record("whole", r[1], r[2])
    BY <1>2 DEF WholeFiles
  <2>2. f.content = "whole" /\ f.request = Requests(r[1])[r[2]]
    BY <2>1 DEF Record
  <2>3. Requests(r[1])[r[2]].host = NoHeader
    BY <1>1, <2>2 DEF Parses, Servable
  <2> QED BY <2>3 DEF Damaged
<1>3. CASE cut # {}
  BY <1>3 DEF Damaged, DiskOK
<1>4. CASE f \in Logs(d)
  BY <1>1, <1>4, LogFacts DEF Damaged
<1> QED BY <1>2, <1>3, <1>4 DEF Files, WholeFiles

-----------------------------------------------------------------------------
(***************************************************************************)
(* What a replay finds for a request the browser made before.              *)
(***************************************************************************)
LEMMA WholeIsOfRequests ==
  ASSUME ThreadsOK, DiskOK, NEW w \in whole
  PROVE  /\ w[1] \in Connections /\ w[2] \in DOMAIN Requests(w[1]) /\ w = <<w[1], w[2]>>
         /\ Requests(w[1])[w[2]] \in Heads
<1>1. PICK c \in Connections : \E n \in 1 .. count[c].delivered : w = <<c, n>>
  BY DEF DiskOK
<1>2. PICK n \in 1 .. count[c].delivered : w = <<c, n>>
  BY <1>1
<1>3. Requests(c) \in Seq(Heads)
  BY ScriptsAssumption DEF ThreadsOK, Connections, Requests
<1>4. count[c].delivered \in Nat /\ count[c].delivered <= Len(Requests(c))
  <2>1. InOrder(count[c], Total(c)) /\ Total(c) \in Nat
    BY ThreadAt, TotalIsNat DEF ThreadOK
  <2> QED BY <2>1 DEF InOrder, Amounts, Total
<1>5. n \in DOMAIN Requests(c) /\ Requests(c)[n] \in Heads
  BY <1>3, <1>4
<1> QED BY <1>2, <1>5

LEMMA ScoreFacts ==
  ASSUME NEW f, NEW q, f.content = "whole", f.request \in Heads, q.line \in Seq(STRING)
  PROVE  /\ MatchScore(f, q) \in Nat /\ MatchScore(f, q) <= Len(q.line)
         /\ MatchScore(f, q) > 0 => /\ f.secure = q.secure /\ f.request.host = q.host
                                    /\ f.request.agent = q.agent
                                    /\ MatchScore(f, q) = CommonPrefix(f.request.line, q.line)
<1>1. f.request.line \in Seq(STRING)
  BY DEF Heads
<1>2. CommonPrefix(f.request.line, q.line) \in Nat /\ CommonPrefix(f.request.line, q.line) <= Len(q.line)
  BY <1>1, CommonPrefixBound
<1>3. Len(q.line) \in Nat
  OBVIOUS
<1>4. \/ MatchScore(f, q) = 0
      \/ /\ f.secure = q.secure /\ f.request.host = q.host /\ f.request.agent = q.agent
         /\ MatchScore(f, q) = CommonPrefix(f.request.line, q.line)
  BY DEF MatchScore
<1> QED BY <1>2, <1>3, <1>4

\* A request that was recorded has matches, and they are of the same request.
LEMMA MatchesAreTheSame ==
  ASSUME ThreadsOK, DiskOK, NEW files, Recorded(files) = WholeFiles,
         NEW c \in Connections, NEW n \in DOMAIN Requests(c), <<c, n>> \in whole,
         NEW q, q = Asked(Requests(c)[n], script[c].secure)
  PROVE  /\ BestMatches(files, q) # {}
         /\ \A f \in BestMatches(files, q) :
              LET r == f.response
              IN Requests(r[1])[r[2]] = Requests(c)[n] /\ script[r[1]].secure = script[c].secure
<1> DEFINE h == Requests(c)[n]
           g == Record("whole", c, n)
           score(f) == MatchScore(f, q)
<1>1. h \in Heads /\ script \in Scripts
  BY ScriptsAssumption DEF ThreadsOK, Connections, Requests
<1>2. q.line = h.line /\ q.host = h.host /\ q.agent = h.agent /\ q.secure = script[c].secure /\ q.line \in Seq(STRING)
  BY <1>1 DEF Asked, Heads
<1>3. h.line # <<>> /\ Len(h.line) \in Nat /\ Len(h.line) > 0
  <2>1. h.line # <<>>
    BY <1>1, LinesAssumption DEF Connections, Requests
  <2> QED BY <1>2, <2>1
<1>4. \A f \in WholeFiles : f.content = "whole" /\ f.request \in Heads
  BY WholeIsOfRequests DEF WholeFiles, Record
<1>5. g \in WholeFiles /\ score(g) = Len(h.line)
  <2>1. g \in WholeFiles
    <3>1. <<c, n>>[1] = c /\ <<c, n>>[2] = n
      OBVIOUS
    <3> QED BY <3>1 DEF WholeFiles
  <2>2. g.content = "whole" /\ g.request = h /\ g.secure = script[c].secure
    BY DEF Record
  <2>3. score(g) = CommonPrefix(h.line, h.line)
    BY <1>2, <2>2 DEF MatchScore
  <2>4. CommonPrefix(h.line, h.line) = Len(h.line)
    BY <1>2, CommonPrefixSelf
  <2> QED BY <2>1, <2>3, <2>4
<1>6. \A f \in WholeFiles : score(f) \in Nat /\ score(f) <= Len(h.line)
  BY <1>2, <1>4, ScoreFacts
<1>7. g \in BestMatches(files, q)
  BY <1>3, <1>5, <1>6 DEF BestMatches
<1>8. ASSUME NEW f \in BestMatches(files, q)
      PROVE  LET r == f.response
             IN Requests(r[1])[r[2]] = Requests(c)[n] /\ script[r[1]].secure = script[c].secure
  <2>1. f \in WholeFiles /\ score(g) <= score(f) /\ score(f) > 0
    BY <1>5 DEF BestMatches
  <2>2. PICK w \in whole : f = Record("whole", w[1], w[2])
    BY <2>1 DEF WholeFiles
  <2> DEFINE i == Requests(w[1])[w[2]]
  <2>3. /\ w[1] \in Connections /\ w[2] \in DOMAIN Requests(w[1]) /\ i \in Heads
        /\ f.secure = script[w[1]].secure /\ f.request = i /\ f.response[1] = w[1] /\ f.response[2] = w[2]
    BY <2>2, WholeIsOfRequests DEF Record
  <2>4. /\ f.secure = q.secure /\ i.host = h.host /\ i.agent = h.agent
        /\ Len(h.line) <= CommonPrefix(i.line, h.line)
    <3>1. f.secure = q.secure /\ f.request.host = q.host /\ f.request.agent = q.agent
          /\ score(f) = CommonPrefix(f.request.line, q.line)
      BY <1>2, <1>4, <2>1, ScoreFacts
    <3> QED BY <1>2, <1>5, <2>1, <2>3, <3>1
  <2>5. i.line \in Seq(STRING)
    BY <2>3 DEF Heads
  <2>6. IsPrefix(h.line, i.line)
    BY <1>2, <2>4, <2>5, CommonPrefixWhole
  <2>7. ~IsStrictPrefix(h.line, i.line)
    BY <1>1, <2>3, LinesAssumption DEF Connections, Requests
  <2>8. h.line = i.line
    BY <2>6, <2>7 DEF IsStrictPrefix
  <2>9. i = h
    BY <1>1, <2>3, <2>4, <2>8 DEF Heads
  <2> QED BY <1>2, <2>3, <2>4, <2>9
<1> QED BY <1>7, <1>8

-----------------------------------------------------------------------------
(***************************************************************************)
(* The whole specification.                                                *)
(***************************************************************************)
WholeInv == Inv /\ ReplayOK

LEMMA OnlyWhileRunning == RecordStep => Running
<1>1. ASSUME NEW c \in Connections PROVE ThreadStep(c) => Running
  <2>1. StartRtt(c) \/ RttStarted(c) \/ Connect(c) \/ RttStopped(c) \/ ConnectTLS(c) \/ AcceptTLS(c) \/ Poll(c)
          \/ Exit(c) => Running
    BY DEF StartRtt, RttStarted, Connect, RttStopped, ConnectTLS, AcceptTLS, Poll, Exit, Usable, Goes, Throws
  <2>2. ServerIn(c) \/ ClientIn(c) => Running
    BY DEF ServerIn, ClientIn, Reads, Served, Usable, Goes, Throws
  <2>3. StartLoad(c) \/ Forward(c) \/ StopLoad(c) \/ Deliver(c) => Running
    BY DEF StartLoad, Forward, StopLoad, Deliver, Usable, Goes, Throws
  <2>4. Create(c) \/ Serialize(c) \/ SerializeFails(c) => Running
    BY DEF Create, Serialize, SerializeFails, Served, Usable, Goes, Throws
  <2> QED BY <2>1, <2>2, <2>3, <2>4 DEF ThreadStep
<1>2. ASSUME NEW c \in Connections PROVE PeerStep(c) => Running
  BY DEF PeerStep, ClientSends, ServerAnswers, PeerEnds, PeerResets, Usable
<1>3. ASSUME NEW c \in Connections PROVE Accept(c) => Running
  BY DEF Accept, Running
<1>4. RecorderStep => Running
  BY DEF RecorderStep, Quit, PrintAndExit, Crash, Running
<1> QED BY <1>1, <1>2, <1>3, <1>4 DEF RecordStep

LEMMA ReplayFrozen ==
  ASSUME UNCHANGED vars
  PROVE  /\ Running' = Running /\ WholeFiles' = WholeFiles /\ \A d : Damaged(d)' = Damaged(d)
         /\ \A content, d : Files(content, d)' = Files(content, d)
<1>1. UNCHANGED <<script, recorder, pc, cut, whole, diskFull>> /\ Connections' = Connections
  BY DEF vars, thread, disk, Connections
<1>2. \A content, c, n : Record(content, c, n)' = Record(content, c, n) /\ Requests(c)' = Requests(c)
  BY <1>1 DEF Record, Requests
<1>3. Running' = Running /\ WholeFiles' = WholeFiles
  BY <1>1, <1>2 DEF Running, WholeFiles
<1>4. \A d : Damaged(d)' = Damaged(d)
  BY <1>1, <1>2 DEF Damaged
<1>5. \A content, d : Files(content, d)' = Files(content, d)
  BY <1>1, <1>2 DEF Files, Logs
<1> QED BY <1>3, <1>4, <1>5

LEMMA InvFrozen ==
  ASSUME Inv, UNCHANGED vars
  PROVE  Inv'
<1>1. UNCHANGED <<script, thread, logger, disk, count, peers, starts>> /\ recorder' = recorder
  BY DEF vars
<1> QED BY <1>1, InvStutters DEF Inv, ThreadsOK

LEMMA WholeInit == RecordInit => WholeInv
<1> SUFFICES ASSUME RecordInit PROVE ReplayOK
  BY InvInit DEF WholeInv
<1> QED BY DEF RecordInit, ReplayOK

LEMMA WholeKept ==
  ASSUME WholeInv, [RecordNext]_allVars
  PROVE  WholeInv'
<1>1. CASE Recording(RecordStep)
  <2>1. Inv' /\ shell = "none" /\ UNCHANGED <<shell, replies>>
    BY <1>1, RecordKeeps, OnlyWhileRunning DEF WholeInv, ReplayOK, Recording, replay
  <2> QED BY <2>1 DEF WholeInv, ReplayOK
<1>2. CASE Replayshell
  <2>1. UNCHANGED vars /\ replies' = replies /\ ~Running /\ shell = "none"
    BY <1>2 DEF Replayshell
  <2>2. PICK content \in Contents, d \in Directories :
          directory' = d /\ shell' = IF Loads(Files(content, d)) THEN "serving" ELSE "refused"
    BY <1>2 DEF Replayshell, Contents
  <2>3. Inv' /\ ~Running'
    BY <2>1, InvFrozen, ReplayFrozen DEF WholeInv
  <2>4. replies' = {}
    BY <2>1 DEF WholeInv, ReplayOK
  <2>5. CASE shell' = "serving" /\ Loads(Files(content, d))
    <3>1. Recorded(Files("empty", d)) = WholeFiles
      BY <2>5, LoadsMeans
    <3>2. Recorded(Files("empty", directory)') = WholeFiles'
      BY <2>1, <2>2, <3>1, ReplayFrozen
    <3>3. Recorded(Files("empty", directory))' = WholeFiles'
      BY <3>2 DEF Recorded
    <3> QED BY <2>3, <2>4, <2>5, <3>3 DEF WholeInv, ReplayOK
  <2>6. CASE shell' = "refused" /\ ~Loads(Files(content, d))
    <3>1. Damaged(d)
      BY <2>6, RefusedMeans DEF WholeInv, Inv
    <3>2. Damaged(directory)'
      BY <2>1, <2>2, <3>1, ReplayFrozen
    <3> QED BY <2>3, <2>4, <2>6, <3>2 DEF WholeInv, ReplayOK
  <2> QED BY <2>2, <2>5, <2>6
<1>3. ASSUME UNCHANGED <<vars, directory, shell>>,
             \A a \in replies' : shell = "serving" /\ a.reply \in Replies(Files("empty", directory), a.server, a.request)
      PROVE  WholeInv'
  <2>1. Inv' /\ Running' = Running /\ WholeFiles' = WholeFiles /\ Damaged(directory)' = Damaged(directory)
    BY <1>3, InvFrozen, ReplayFrozen DEF WholeInv, Damaged
  <2>2. Files("empty", directory)' = Files("empty", directory)
    <3>1. PICK d : d = directory
      OBVIOUS
    <3>2. directory' = d
      BY <1>3, <3>1
    <3>3. Files("empty", directory)' = Files("empty", d)
      BY <1>3, <3>2, ReplayFrozen
    <3> QED BY <3>1, <3>3
  <2> DEFINE files == Files("empty", directory)
  <2>3. /\ shell \in {"none", "refused", "serving"} /\ (shell # "none" => ~Running)
        /\ (shell = "refused" => Damaged(directory)) /\ (shell = "serving" => Recorded(files) = WholeFiles)
    BY DEF WholeInv, ReplayOK
  <2> HIDE DEF files
  <2>4. files' = files /\ shell' = shell
    BY <1>3, <2>2 DEF files
  <2>5. (shell = "serving" => Recorded(files) = WholeFiles)'
    BY <2>1, <2>3, <2>4 DEF Recorded
  <2>6. (\A a \in replies : shell = "serving" /\ a.reply \in Replies(files, a.server, a.request))'
    <3>1. \A a \in replies' : shell = "serving" /\ a.reply \in Replies(files, a.server, a.request)
      BY <1>3 DEF files
    <3>2. \A s, q : Replies(files, s, q)' = Replies(files, s, q)
      BY <2>4 DEF Replies, Recorded, BestMatches
    <3> QED BY <2>4, <3>1, <3>2
  <2> QED BY <2>1, <2>3, <2>4, <2>5, <2>6 DEF WholeInv, ReplayOK, files
<1>4. ASSUME NEW q, NEW server, Replayserver(q, server) PROVE WholeInv'
  <2>1. PICK reply \in Replies(Files("empty", directory), server, q) :
          replies' = {[request |-> q, reply |-> reply, server |-> server]}
    BY <1>4 DEF Replayserver
  <2>2. shell = "serving" /\ UNCHANGED <<vars, directory, shell>>
    BY <1>4 DEF Replayserver
  <2>3. \A a \in replies' : a.reply \in Replies(Files("empty", directory), a.server, a.request)
    BY <2>1
  <2> QED BY <1>3, <2>2, <2>3
<1>5. CASE UNCHANGED allVars
  <2>1. UNCHANGED <<vars, directory, shell>> /\ replies' = replies
    BY <1>5 DEF allVars, replay
  <2> QED BY <1>3, <2>1 DEF WholeInv, ReplayOK
<1> QED BY <1>1, <1>2, <1>4, <1>5 DEF RecordNext

LEMMA WholeInvariant == Spec => []WholeInv
<1>1. RecordInit => WholeInv
  BY WholeInit
<1>2. WholeInv /\ [RecordNext]_allVars => WholeInv'
  BY WholeKept
<1> QED BY <1>1, <1>2, PTL DEF Spec

-----------------------------------------------------------------------------
(***************************************************************************)
(* The properties.                                                         *)
(***************************************************************************)
LEMMA LeavesNothingHolds == WholeInv => LeavesNothing
<1> SUFFICES ASSUME WholeInv, NEW c \in Connections, pc[c] = "exit", reset[c] = {}
             PROVE  /\ count[c].parsed = count[c].forwarded
                    /\ count[c].received = count[c].delivered
                    /\ "client" \notin fin[c].ended => count[c].answered = count[c].delivered
  BY DEF LeavesNothing
<1>1. ThreadOK("exit", round[c], count[c], fin[c], {}, Total(c))
  BY ThreadAt DEF WholeInv, Inv
<1>2. count[c].parsed = count[c].forwarded /\ count[c].received = count[c].delivered /\ fin[c].seen # {}
  BY <1>1 DEF ThreadOK, NothingDue
<1>3. fin[c].seen \subseteq fin[c].ended /\ fin[c].seen \subseteq Sides
      /\ ("server" \in fin[c].seen => count[c].received = count[c].answered)
  BY <1>1 DEF ThreadOK, EndsRead, Ends
<1> QED BY <1>2, <1>3 DEF Sides

LEMMA RefusesOnlyDamagedHolds == WholeInv => RefusesOnlyDamaged
BY DEF WholeInv, ReplayOK, RefusesOnlyDamaged, Damaged

LEMMA ReplaysWhatWasSeenHolds == WholeInv => ReplaysWhatWasSeen
<1> SUFFICES ASSUME WholeInv, NEW a \in replies, NEW c \in Connections, NEW n \in 1 .. count[c].delivered - 1,
                    script[c].recorded, ~diskFull, a.request = Asked(Requests(c)[n], script[c].secure)
             PROVE  \/ /\ a.reply.status = 200
                       /\ LET r == a.reply.response
                          IN Requests(r[1])[r[2]] = Requests(c)[n] /\ script[r[1]].secure = script[c].secure
                    \/ a.reply.status = 500 /\ (a.server.delays /\ ~a.server.file)
  BY DEF ReplaysWhatWasSeen
<1> DEFINE files == Files("empty", directory)
<1>1. <<c, n>> \in whole
  <2>1. count[c].delivered \in Nat
    BY ThreadAt DEF WholeInv, Inv, ThreadOK, InOrder, Amounts
  <2>2. n \in 1 .. count[c].delivered /\ n # count[c].delivered
    BY <2>1
  <2> QED BY <2>2 DEF WholeInv, Inv, DiskOK
<1>2. n \in DOMAIN Requests(c)
  BY <1>1, WholeIsOfRequests DEF WholeInv, Inv
<1>3. Recorded(files) = WholeFiles /\ a.reply \in Replies(files, a.server, a.request)
  BY DEF WholeInv, ReplayOK
<1> HIDE DEF files
<1>4. /\ BestMatches(files, a.request) # {}
      /\ \A f \in BestMatches(files, a.request) :
           LET r == f.response
           IN Requests(r[1])[r[2]] = Requests(c)[n] /\ script[r[1]].secure = script[c].secure
  BY <1>1, <1>2, <1>3, MatchesAreTheSame DEF WholeInv, Inv
<1>5. \A f \in Recorded(files) : Parses(f)
  BY <1>3 DEF WholeFiles, Record, Parses
<1>6. CASE a.server.delays /\ ~a.server.file
  <2>1. a.reply = Reply(500, None, 0)
    BY <1>3, <1>4, <1>5, <1>6 DEF Replies
  <2> QED BY <1>6, <2>1 DEF Reply
<1>7. CASE ~(a.server.delays /\ ~a.server.file)
  <2>1. PICK f \in BestMatches(files, a.request) : \E delay : a.reply = Reply(200, f.response, delay)
    BY <1>3, <1>4, <1>5, <1>7, SMTT(30) DEF Replies
  <2>2. a.reply.status = 200 /\ a.reply.response = f.response
    BY <2>1 DEF Reply
  <2> QED BY <1>4, <2>2
<1> QED BY <1>6, <1>7

-----------------------------------------------------------------------------
(***************************************************************************)
(* What is measured.                                                       *)
(***************************************************************************)
LEMMA OnlyStopsMeasure ==
  ASSUME Inv, RecordStep, NEW t \in Timers, logger'.measured[t] # logger.measured[t]
  PROVE  \E d \in Connections : \/ RttStopped(d) /\ t = "rtt"
                                \/ Deliver(d) /\ t = "load"
<1>1. PICK d \in Connections : Accept(d) \/ ThreadStep(d) \/ PeerStep(d)
  BY DEF RecordStep, RecorderStep, Quit, PrintAndExit, Crash
<1>2. logger' # logger
  OBVIOUS
<1>3. RttStarted(d) \/ RttStopped(d) \/ Forward(d) \/ Deliver(d)
  BY <1>1, <1>2 DEF Accept, ThreadStep, PeerStep, StartRtt, Connect, ConnectTLS, AcceptTLS, Poll, Exit,
       ServerIn, ClientIn, Reads, StartLoad, StopLoad, Create, Serialize, SerializeFails,
       ClientSends, ServerAnswers, PeerEnds, PeerResets
<1>4. HasTimers(logger)
  BY DEF Inv, TimersOK
<1>5. ASSUME NEW timer \in Timers, NEW key, NEW what, Started(d, timer, key, what) PROVE FALSE
  <2>1. logger' = StartTimer(logger, timer, key, Len(starts) + 1)
    BY <1>5 DEF Started
  <2> DEFINE now == Len(starts) + 1
  <2> HIDE DEF now
  <2>2. logger' = StartTimer(logger, timer, key, now)
    BY <2>1 DEF now
  <2>3. logger'.measured = logger.measured
    BY <1>4, <2>2, StartedTimers
  <2> QED BY <2>3
<1>6. ASSUME NEW timer \in Timers, NEW key, NEW starting, Stopped(timer, key, starting) PROVE t = timer
  <2>1. PICK started : logger' = StopTimer(logger, timer, key, started)
    BY <1>6 DEF Stopped
  <2>2. /\ logger'.start = logger.start
        /\ logger'.measured[timer] = Append(logger.measured[timer], [key |-> key, started |-> started])
        /\ \A s \in Timers : s # timer => logger'.measured[s] = logger.measured[s]
        /\ HasTimers(logger')
    BY <1>4, <2>1, StoppedTimers
  <2> QED BY <2>2
<1>7. ~RttStarted(d) /\ ~Forward(d)
  BY <1>5 DEF RttStarted, Forward, Timers
<1>8. (RttStopped(d) => t = "rtt") /\ (Deliver(d) => t = "load")
  BY <1>6 DEF RttStopped, Deliver, Timers
<1> QED BY <1>3, <1>7, <1>8

\* A measurement is taken from the epoch or from a start that is no earlier than any of its own.
LEMMA StoppedMeasures ==
  ASSUME TimersOK, NEW c, NEW what \in Nat, NEW t, NEW key, t = TimerOf(what), key = KeyOf(c, what),
         NEW starting, Stopped(t, key, starting)
  PROVE  LET taken == logger'.measured[t][Len(logger'.measured[t])]
         IN taken.started = Epoch \/ \A i \in DOMAIN starts : starts[i] = <<c, what>> => taken.started >= i
<1>1. PICK started : /\ logger' = StopTimer(logger, t, key, started)
                     /\ started = StartOf(logger, t, key) \/ started = Epoch
  BY DEF Stopped
<1>2. t \in Timers /\ HasTimers(logger) /\ Measured(t)
  BY DEF TimersOK, Timers, TimerOf
<1> DEFINE e == [key |-> key, started |-> started]
           m == logger'.measured[t]
<1>3. m = Append(logger.measured[t], e)
  BY <1>1, <1>2, StoppedTimers
<1>4. m[Len(m)] = e
  <2>1. PICK S : logger.measured[t] \in Seq(S)
    BY <1>2 DEF Measured
  <2> DEFINE s == logger.measured[t]
  <2>2. s \in Seq(S \cup {e}) /\ e \in S \cup {e}
    BY <2>1
  <2> HIDE DEF s, e
  <2>3. Append(s, e)[Len(Append(s, e))] = e
    BY <2>2
  <2> QED BY <1>3, <2>3 DEF s
<1>5. e.started = started
  OBVIOUS
<1>6. ASSUME started = StartOf(logger, t, key), NEW i \in DOMAIN starts, starts[i] = <<c, what>>
      PROVE  started >= i
  <2>1. starts[i][1] = c /\ starts[i][2] = what
    BY <1>6
  <2>2. HasStart(logger.start[t], key, i)
    BY <2>1 DEF TimersOK
  <2> QED BY <1>6, <2>2 DEF HasStart, StartOf
<1> HIDE DEF e, m
<1>7. m[Len(m)].started = Epoch \/ \A i \in DOMAIN starts : starts[i] = <<c, what>> => m[Len(m)].started >= i
  BY <1>1, <1>4, <1>5, <1>6
<1> QED BY <1>7 DEF m

\* A step that ends a measurement of c, as NeverOverstated says.
Measures(c, timer) ==
  /\ logger'.measured[timer] # logger.measured[timer]
  /\ pc[c] = (IF timer = "rtt" THEN "stop rtt" ELSE "stop load") /\ pc'[c] # pc[c]

LEMMA MeasuredIsNotOverstated ==
  ASSUME Inv, [RecordNext]_allVars, NEW c \in Connections, NEW timer \in Timers, Measures(c, timer)
  PROVE  LET taken == logger'.measured[timer][Len(logger'.measured[timer])]
             own == <<c, IF timer = "rtt" THEN 0 ELSE count[c].delivered + 1>>
         IN taken.started = Epoch \/ \A i \in DOMAIN starts : starts[i] = own => taken.started >= i
<1>1. RecordStep
  BY DEF RecordNext, Recording, Replayshell, Replayserver, allVars, vars, Measures
<1>2. PICK d \in Connections : (RttStopped(d) /\ timer = "rtt") \/ (Deliver(d) /\ timer = "load")
  BY <1>1, OnlyStopsMeasure DEF Measures
<1>3. \E q : pc' = [pc EXCEPT ![d] = q] \/ pc' = pc
  BY <1>2 DEF RttStopped, Deliver, Writes, Served, Goes, Throws
<1>4. d = c
  BY <1>3 DEF Measures, Inv, ThreadsOK
<1>5. CASE RttStopped(d) /\ timer = "rtt"
  <2>1. Stopped("rtt", KeyOf(c, 0), "start rtt") /\ TimerOf(0) = "rtt" /\ 0 \in Nat
    BY <1>4, <1>5 DEF RttStopped, KeyOf, TimerOf
  <2> QED BY <1>5, <2>1, StoppedMeasures DEF Inv
<1>6. CASE Deliver(d) /\ timer = "load"
  <2> DEFINE m == count[c].delivered + 1
  <2>1. m \in Nat /\ m # 0
    <3>1. count[c].delivered \in Nat
      BY ThreadAt DEF Inv, ThreadOK, InOrder, Amounts
    <3> QED BY <3>1
  <2>2. Stopped("load", URL(c, m), "start load")
    BY <1>4, <1>6 DEF Deliver
  <2> HIDE DEF m
  <2>3. URL(c, m) = KeyOf(c, m) /\ TimerOf(m) = "load"
    BY <2>1 DEF KeyOf, TimerOf
  <2>4. LET taken == logger'.measured["load"][Len(logger'.measured["load"])]
        IN taken.started = Epoch \/ \A i \in DOMAIN starts : starts[i] = <<c, m>> => taken.started >= i
    BY <2>1, <2>2, <2>3, StoppedMeasures DEF Inv
  <2> QED BY <1>6, <2>4 DEF m
<1> QED BY <1>2, <1>5, <1>6

-----------------------------------------------------------------------------
(***************************************************************************)
(* The theorems.                                                           *)
(***************************************************************************)

\* http_proxy.cc:60: a thread that leaves its loop for want of interest has delivered
\* and sent on all it should have, whatever the peers' ends overtook.
THEOREM NothingIsLeft == Spec => []LeavesNothing
BY WholeInvariant, LeavesNothingHolds, PTL

\* replayshell.cc:101: mm-webreplay refuses only what a recorder left unfinished, a
\* request without a Host, and the logs of a directory whose path has "save" in it.
THEOREM RefusalsAreDeserved == Spec => []RefusesOnlyDamaged
BY WholeInvariant, RefusesOnlyDamagedHolds, PTL

\* replayserver.cc:60-97: what was delivered and saved is what a replay answers, or a
\* response to a request that was just the same.
THEOREM ReplayIsFaithful == Spec => []ReplaysWhatWasSeen
BY WholeInvariant, ReplaysWhatWasSeenHolds, PTL

\* timelogger.hh:51: whichever connections share a key, a measurement is taken from the
\* epoch or from a start that is no earlier than its own.
THEOREM MeasurementsAreNotOverstated == Spec => NeverOverstated
<1>1. WholeInv /\ [RecordNext]_allVars =>
        [\A c \in Connections, timer \in {"rtt", "load"} :
           /\ logger'.measured[timer] # logger.measured[timer]
           /\ pc[c] = (IF timer = "rtt" THEN "stop rtt" ELSE "stop load") /\ pc'[c] # pc[c]
           => LET taken == logger'.measured[timer][Len(logger'.measured[timer])]
                  own == <<c, IF timer = "rtt" THEN 0 ELSE count[c].delivered + 1>>
              IN taken.started = Epoch \/ \A i \in DOMAIN starts : starts[i] = own => taken.started >= i]_allVars
  BY MeasuredIsNotOverstated DEF WholeInv, Measures, Timers
<1> QED BY <1>1, WholeInvariant, PTL DEF Spec, NeverOverstated
=============================================================================

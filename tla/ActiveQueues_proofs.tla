------------------------ MODULE ActiveQueues_proofs ------------------------
(***************************************************************************)
(* Proofs about CoDelQueue and PIEQueue, as ActiveQueues composes them.    *)
(***************************************************************************)
EXTENDS ActiveQueues, Sums_proofs, TLAPS

(***************************************************************************)
(* Queues of packets that fit into an opportunity of the link.             *)
(***************************************************************************)
Packet == [id : Nat, size : 1..PACKET_SIZE, arrival : Nat]

SizesOf(pkts) == [i \in 1..Len(pkts) |-> pkts[i].size]

\* The queue holds packets, and bytes is the total of their sizes.
Holds(q, pkts, bytes) ==
  /\ q.pkts = pkts /\ q.bytes = bytes
  /\ pkts \in Seq(Packet)
  /\ bytes = SumOf(SizesOf(pkts))

Well(q) == \E pkts \in Seq(Packet) : \E bytes \in Int : Holds(q, pkts, bytes)

LEMMA Constants ==
  /\ CoDel!CoDelConstants /\ PIE!PIEConstants
  /\ PACKET_SIZE \in Nat \ {0} /\ Sizes \subseteq 1..PACKET_SIZE
  /\ interval \in Nat \ {0} /\ target \in Nat \ {0}
BY ActiveQueuesAssumption DEF CoDel!CoDelConstants

LEMMA SizesAreInts ==
  ASSUME NEW s \in Seq(Packet)
  PROVE  /\ SizesOf(s) \in Seq(Int) /\ Len(SizesOf(s)) = Len(s) /\ Len(s) \in Nat
         /\ SumOf(SizesOf(s)) \in Int
         /\ \A i \in 1..Len(s) : SizesOf(s)[i] = s[i].size /\ s[i].size \in 1..PACKET_SIZE
<1>1. Len(s) \in Nat /\ \A i \in 1..Len(s) : s[i] \in Packet
  OBVIOUS
<1>2. \A i \in 1..Len(s) : s[i].size \in 1..PACKET_SIZE
  BY <1>1 DEF Packet
<1>3. SizesOf(s) \in Seq(Int) /\ Len(SizesOf(s)) = Len(s)
      /\ \A i \in 1..Len(s) : SizesOf(s)[i] = s[i].size
  BY <1>1, <1>2, Constants DEF SizesOf
<1>4. SumOf(SizesOf(s)) \in Int
  BY <1>3, SumType
<1> QED BY <1>1, <1>2, <1>3, <1>4

LEMMA TotalTail ==
  ASSUME NEW s \in Seq(Packet), s # <<>>
  PROVE  /\ Tail(s) \in Seq(Packet) /\ Len(s) = Len(Tail(s)) + 1
         /\ Head(s) \in Packet /\ Head(s).size \in 1..PACKET_SIZE
         /\ SumOf(SizesOf(s)) = Head(s).size + SumOf(SizesOf(Tail(s)))
<1> DEFINE t == Tail(s)
<1> DEFINE h == Head(s)
<1>1. /\ t \in Seq(Packet) /\ Len(s) = Len(t) + 1 /\ h = s[1] /\ h \in Packet
      /\ \A i \in 1..Len(t) : s[i + 1] = t[i]
      /\ Len(t) \in Nat /\ 1 \in 1..Len(s)
  OBVIOUS
<1> HIDE DEF t, h
<1> DEFINE v == SizesOf(t)
<1> DEFINE w == SizesOf(s)
<1>2. v \in Seq(Int) /\ w \in Seq(Int) /\ Len(w) = Len(v) + 1 /\ w[1] = h.size
  BY <1>1, SizesAreInts
<1>3. \A i \in 1..Len(v) : w[i + 1] = v[i]
  <2> TAKE i \in 1..Len(v)
  <2>1. i \in 1..Len(t) /\ i + 1 \in 1..Len(s)
    BY <1>1, SizesAreInts
  <2>2. w[i + 1] = s[i + 1].size /\ v[i] = t[i].size
    BY <1>1, <2>1, SizesAreInts
  <2> QED BY <1>1, <2>1, <2>2
<1> HIDE DEF v, w
<1>4. SumOf(w) = w[1] + SumOf(v)
  BY <1>2, <1>3, SumFirst
<1>5. h.size \in 1..PACKET_SIZE
  BY <1>1 DEF Packet
<1> QED BY <1>1, <1>2, <1>4, <1>5 DEF v, w, t, h

LEMMA TotalAppend ==
  ASSUME NEW s \in Seq(Packet), NEW p \in Packet
  PROVE  /\ Append(s, p) \in Seq(Packet)
         /\ SumOf(SizesOf(Append(s, p))) = SumOf(SizesOf(s)) + p.size
<1> DEFINE t == Append(s, p)
<1>1. /\ t \in Seq(Packet) /\ Len(t) = Len(s) + 1 /\ t[Len(t)] = p
      /\ \A i \in 1..Len(s) : t[i] = s[i]
      /\ Len(s) \in Nat
  OBVIOUS
<1> HIDE DEF t
<1> DEFINE v == SizesOf(s)
<1> DEFINE w == SizesOf(t)
<1>2. v \in Seq(Int) /\ w \in Seq(Int) /\ Len(w) = Len(v) + 1 /\ w[Len(w)] = p.size
  <2>1. Len(t) \in 1..Len(t)
    BY <1>1
  <2> QED BY <1>1, <2>1, SizesAreInts
<1>3. \A i \in 1..Len(v) : w[i] = v[i]
  <2> TAKE i \in 1..Len(v)
  <2>1. i \in 1..Len(s) /\ i \in 1..Len(t)
    BY <1>1, SizesAreInts
  <2>2. w[i] = t[i].size /\ v[i] = s[i].size
    BY <1>1, <2>1, SizesAreInts
  <2> QED BY <1>1, <2>1, <2>2
<1> HIDE DEF v, w
<1>4. SumOf(w) = SumOf(v) + w[Len(w)]
  BY <1>2, <1>3, SumLast
<1> QED BY <1>1, <1>2, <1>4 DEF v, w, t

\* A queue with more bytes than one packet can have has more than one packet.
LEMMA TwoPackets ==
  ASSUME NEW s \in Seq(Packet), s # <<>>, SumOf(SizesOf(s)) > PACKET_SIZE
  PROVE  Len(s) >= 2
<1>1. Len(s) = Len(Tail(s)) + 1 /\ Head(s).size \in 1..PACKET_SIZE /\ Len(Tail(s)) \in Nat
      /\ SumOf(SizesOf(s)) = Head(s).size + SumOf(SizesOf(Tail(s)))
  BY TotalTail
<1>2. CASE Len(Tail(s)) = 0
  <2>1. SizesOf(Tail(s)) = <<>>
    <3>1. Tail(s) = <<>>
      <4> DEFINE t == Tail(s)
      <4>1. t \in Seq(Packet) /\ Len(t) = 0
        BY <1>2, TotalTail
      <4> HIDE DEF t
      <4>2. t = <<>>
        BY <4>1
      <4> QED BY <4>2 DEF t
    <3>2. SizesOf(<<>>) = <<>>
      BY DEF SizesOf
    <3> QED BY <3>1, <3>2
  <2> DEFINE k == Head(s).size
  <2> DEFINE y == SumOf(SizesOf(s))
  <2>2. y = k + 0 /\ k \in 1..PACKET_SIZE /\ y > PACKET_SIZE
    BY <1>1, <2>1, SumEmpty
  <2> HIDE DEF k, y
  <2> QED BY <2>2, Constants
<1> QED BY <1>1, <1>2

-----------------------------------------------------------------------------
LEMMA PopWell ==
  ASSUME NEW q, Well(q), ~CoDel!Limited!Empty(q)
  PROVE  /\ Well(CoDel!Limited!Pop(q))
         /\ Len(CoDel!Limited!Pop(q).pkts) = Len(q.pkts) - 1
<1>1. PICK s \in Seq(Packet), b \in Int : Holds(q, s, b)
  BY DEF Well
<1>2. s # <<>> /\ q.pkts = s /\ q.bytes = b /\ b = SumOf(SizesOf(s))
  BY <1>1 DEF Holds, CoDel!Limited!Empty
<1> DEFINE t == Tail(s)
<1> DEFINE h == Head(s).size
<1> DEFINE q1 == CoDel!Limited!Pop(q)
<1>3. t \in Seq(Packet) /\ Len(s) = Len(t) + 1 /\ h \in Nat /\ b = h + SumOf(SizesOf(t))
      /\ Len(t) \in Nat /\ SumOf(SizesOf(t)) \in Int
  <2>1. t \in Seq(Packet) /\ Len(s) = Len(t) + 1 /\ h \in 1..PACKET_SIZE
        /\ SumOf(SizesOf(s)) = h + SumOf(SizesOf(t))
    BY <1>2, TotalTail
  <2> HIDE DEF t, h
  <2>2. Len(t) \in Nat /\ SumOf(SizesOf(t)) \in Int
    BY <2>1, SizesAreInts
  <2>3. h \in Nat
    BY <2>1, Constants
  <2> QED BY <1>2, <2>1, <2>2, <2>3
<1>4. q1.pkts = t /\ q1.bytes = b - h
  BY <1>2 DEF CoDel!Limited!Pop
<1> HIDE DEF t, h, q1
<1>5. Holds(q1, t, b - h)
  BY <1>3, <1>4 DEF Holds
<1>6. Well(q1)
  BY <1>3, <1>5 DEF Well
<1>7. Len(q1.pkts) = Len(q.pkts) - 1
  BY <1>2, <1>3, <1>4
<1> QED BY <1>6, <1>7 DEF q1

LEMMA EnqueueWell ==
  ASSUME NEW q, Well(q), NEW p \in Packet
  PROVE  Well(CoDel!Limited!EnqueueTail(q, p))
<1>1. PICK s \in Seq(Packet), b \in Int : Holds(q, s, b)
  BY DEF Well
<1>2. q.pkts = s /\ q.bytes = b /\ b = SumOf(SizesOf(s))
  BY <1>1 DEF Holds
<1> DEFINE t == Append(s, p)
<1> DEFINE k == p.size
<1> DEFINE q1 == CoDel!Limited!Accept(q, p)
<1>3. t \in Seq(Packet) /\ SumOf(SizesOf(t)) = b + k /\ k \in Int
  <2>1. t \in Seq(Packet) /\ SumOf(SizesOf(t)) = SumOf(SizesOf(s)) + k
    BY TotalAppend
  <2>2. k \in Int
    BY Constants DEF Packet
  <2> QED BY <1>2, <2>1, <2>2
<1>4. q1.pkts = t /\ q1.bytes = b + k
  BY <1>2 DEF CoDel!Limited!Accept
<1> HIDE DEF t, k, q1
<1>5. Holds(q1, t, b + k)
  BY <1>3, <1>4 DEF Holds
<1>6. Well(q1)
  BY <1>3, <1>5 DEF Well
<1> QED BY <1>6 DEF q1, CoDel!Limited!EnqueueTail

-----------------------------------------------------------------------------
(***************************************************************************)
(* CoDel's control law, and the times it gives to the drops of an episode. *)
(***************************************************************************)
\* The square root that the control law divides by exists.
LEMMA ControlLawOK ==
  ASSUME NEW t \in Int, NEW n \in Nat \ {0}
  PROVE  CoDel!ControlLaw(t, n) \in Int
<1> DEFINE T == {d \in Nat : d * d * n <= interval * interval}
<1>0. interval \in Nat \ {0}
  BY Constants
<1>1. 0 \in T /\ T \subseteq Nat
  <2>1. 0 * 0 * n = 0 /\ 0 <= interval * interval
    BY <1>0
  <2> QED BY <2>1
<1>2. ASSUME NEW d \in T PROVE d <= interval
  <2> SUFFICES ASSUME d > interval PROVE FALSE
    BY <1>0
  <2>1. d \in Nat /\ d * d * n <= interval * interval
    OBVIOUS
  <2>2. d * d > interval * interval
    BY <1>0, <2>1
  <2>3. d * d * n >= d * d
    BY <2>1
  <2> QED BY <1>0, <2>1, <2>2, <2>3
<1> HIDE DEF T
<1>3. \E d \in T : \A m \in T : m <= d
  BY <1>0, <1>1, <1>2, GreatestElement
<1>4. PICK d \in T : \A m \in T : m <= d
  BY <1>3
<1>5. d \in 0..interval /\ d + 1 \in Nat
  BY <1>0, <1>1, <1>2
<1>6. d + 1 \notin T
  BY <1>4, <1>5
<1>7. d * d * n <= interval * interval /\ (d + 1) * (d + 1) * n > interval * interval
  BY <1>0, <1>5, <1>6 DEF T
<1>8. (CHOOSE c \in 0..interval : /\ c * c * n <= interval * interval
                                  /\ (c + 1) * (c + 1) * n > interval * interval) \in 0..interval
  BY <1>5, <1>7
<1> QED BY <1>0, <1>8 DEF CoDel!ControlLaw

\* f gives the times of the first N drops of an episode.
DropTimes(N, start, first, f) ==
  f = [n \in 1..N |-> IF n = 1 THEN start ELSE CoDel!ControlLaw(f[n - 1], first + n - 2)]

LEMMA DropTimesExist ==
  ASSUME NEW N \in Nat \ {0}, NEW start \in Int, NEW first \in Nat \ {0}
  PROVE  \E f : DropTimes(N, start, first, f)
<1> DEFINE G == [i \in 1..(N - 1) |-> [v \in Int |-> CoDel!ControlLaw(v, first + i - 1)]]
<1>1. \A i \in 1..(N - 1) : first + i - 1 \in Nat \ {0}
  OBVIOUS
<1>2. G \in [1..(N - 1) -> [Int -> Int]] /\ N - 1 \in Nat
  BY <1>1, ControlLawOK
<1> HIDE DEF G
<1>3. PICK g \in [0..(N - 1) -> Int] : Chain(G, start, N - 1, g)
  BY <1>2, ChainExists
<1> DEFINE f == [n \in 1..N |-> g[n - 1]]
<1>4. ASSUME NEW n \in 1..N
      PROVE  f[n] = IF n = 1 THEN start ELSE CoDel!ControlLaw(f[n - 1], first + n - 2)
  <2>1. CASE n = 1
    BY <1>3, <2>1 DEF Chain
  <2>2. CASE n # 1
    <3>1. n - 1 \in 1..(N - 1) /\ n - 1 \in 1..N /\ (n - 1) - 1 \in 0..(N - 1)
          /\ first + (n - 1) - 1 = first + n - 2
      BY <2>2
    <3>2. g[n - 1] = G[n - 1][g[(n - 1) - 1]] /\ g[(n - 1) - 1] \in Int
      BY <1>3, <3>1 DEF Chain
    <3>3. G[n - 1][g[(n - 1) - 1]] = CoDel!ControlLaw(g[(n - 1) - 1], first + (n - 1) - 1)
      BY <3>1, <3>2 DEF G
    <3>4. f[n] = g[n - 1] /\ f[n - 1] = g[(n - 1) - 1]
      BY <3>1
    <3> HIDE DEF f
    <3> QED BY <2>2, <3>1, <3>2, <3>3, <3>4
  <2> QED BY <2>1, <2>2
<1>5. DropTimes(N, start, first, f)
  BY <1>4 DEF DropTimes
<1> QED BY <1>5

TimesOf(N, start, first) == CHOOSE f : DropTimes(N, start, first, f)

\* The same, drop after drop.
DropAfterDrop(N, start, first, c) ==
  /\ c[1] = start
  /\ \A n \in 2..N : c[n] = CoDel!ControlLaw(c[n - 1], first + n - 2)

LEMMA TimesUnfold ==
  ASSUME NEW N \in Nat \ {0}, NEW start \in Int, NEW first \in Nat \ {0}
  PROVE  DropAfterDrop(N, start, first, TimesOf(N, start, first))
<1> DEFINE c == TimesOf(N, start, first)
<1>1. DropTimes(N, start, first, c)
  BY DropTimesExist DEF TimesOf
<1> HIDE DEF c
<1>2. \A n \in 1..N : c[n] = IF n = 1 THEN start ELSE CoDel!ControlLaw(c[n - 1], first + n - 2)
  BY <1>1 DEF DropTimes
<1>3. 1 \in 1..N /\ \A n \in 2..N : n \in 1..N /\ n # 1
  OBVIOUS
<1>4. c[1] = start
  BY <1>2, <1>3
<1>5. \A n \in 2..N : c[n] = CoDel!ControlLaw(c[n - 1], first + n - 2)
  BY <1>2, <1>3
<1> QED BY <1>4, <1>5 DEF c, DropAfterDrop

LEMMA IdealIsTime ==
  ASSUME NEW d
  PROVE  CoDel!IdealDropTime(d) = TimesOf(d.nth, d.start, d.first)[d.nth]
BY DEF CoDel!IdealDropTime, TimesOf, DropTimes

\* The first drop of an episode is ideally when the episode starts.
LEMMA IdealFirst ==
  ASSUME NEW d, d.nth = 1, d.start \in Int, d.first \in Nat \ {0}
  PROVE  CoDel!IdealDropTime(d) = d.start
<1>1. CoDel!IdealDropTime(d) = TimesOf(1, d.start, d.first)[1]
  BY IdealIsTime
<1>2. DropAfterDrop(1, d.start, d.first, TimesOf(1, d.start, d.first))
  BY TimesUnfold
<1> QED BY <1>1, <1>2 DEF DropAfterDrop

\* Each is followed by the next as the control law says.
LEMMA IdealNext ==
  ASSUME NEW d, NEW e, d.nth \in Nat \ {0}, e.nth = d.nth + 1,
         d.start \in Int, e.start = d.start, d.first \in Nat \ {0}, e.first = d.first
  PROVE  CoDel!IdealDropTime(e) = CoDel!ControlLaw(CoDel!IdealDropTime(d), d.first + d.nth - 1)
<1> DEFINE n == d.nth
<1> DEFINE s == d.start
<1> DEFINE k == d.first
<1> DEFINE f == TimesOf(n, s, k)
<1> DEFINE g == TimesOf(n + 1, s, k)
<1>1. CoDel!IdealDropTime(d) = f[n] /\ CoDel!IdealDropTime(e) = g[n + 1]
  BY IdealIsTime
<1>2. n \in Nat \ {0} /\ n + 1 \in Nat \ {0} /\ s \in Int /\ k \in Nat \ {0}
      /\ k + (n + 1) - 2 = k + n - 1
  OBVIOUS
<1> HIDE DEF n, s, k
<1>8. DropAfterDrop(n, s, k, f) /\ DropAfterDrop(n + 1, s, k, g)
  BY <1>2, TimesUnfold
<1> HIDE DEF f, g
<1>3. f[1] = s /\ \A i \in 2..n : f[i] = CoDel!ControlLaw(f[i - 1], k + i - 2)
  BY <1>8 DEF DropAfterDrop
<1>4. g[1] = s /\ \A i \in 2..(n + 1) : g[i] = CoDel!ControlLaw(g[i - 1], k + i - 2)
  BY <1>8 DEF DropAfterDrop
<1>5. f[n] = g[n]
  <2> DEFINE F == [i \in 0..(n - 1) |-> f[i + 1]]
  <2> DEFINE G == [i \in 0..(n - 1) |-> g[i + 1]]
  <2>1. n - 1 \in Nat /\ F[0] = G[0]
    BY <1>2, <1>3, <1>4
  <2>2. ASSUME NEW i \in 1..(n - 1), F[i - 1] = G[i - 1] PROVE F[i] = G[i]
    <3>1. i + 1 \in 2..n /\ i + 1 \in 2..(n + 1) /\ (i + 1) - 1 = (i - 1) + 1
          /\ i \in 0..(n - 1) /\ i - 1 \in 0..(n - 1)
      BY <1>2
    <3>2. f[(i - 1) + 1] = g[(i - 1) + 1]
      BY <2>2, <3>1
    <3>3. f[i + 1] = g[i + 1]
      BY <1>3, <1>4, <3>1, <3>2
    <3> QED BY <3>1, <3>3
  <2> HIDE DEF F, G
  <2>3. \A i \in 0..(n - 1) : F[i] = G[i]
    BY <2>1, <2>2, AgreeUpTo
  <2>4. n - 1 \in 0..(n - 1) /\ (n - 1) + 1 = n
    BY <1>2
  <2> QED BY <2>3, <2>4 DEF F, G
<1>6. n + 1 \in 2..(n + 1) /\ (n + 1) - 1 = n
  BY <1>2
<1>7. g[n + 1] = CoDel!ControlLaw(g[n], k + n - 1)
  BY <1>2, <1>4, <1>6
<1> QED BY <1>1, <1>5, <1>7 DEF n, k

-----------------------------------------------------------------------------
(***************************************************************************)
(* The inductive invariant of CoDel.                                       *)
(***************************************************************************)
\* The timer runs while packets are found above target, and is over interval
\* after the first of them.
TimerOK ==
  /\ now \in Nat \ {0} /\ first_above_time \in Nat /\ above_since \in Nat
  /\ first_above_time = 0 <=> above_since = 0
  /\ first_above_time # 0 => first_above_time = above_since + interval

\* Where packets are dropped the timer is over and two packets are left.
MayDrop ==
  pc = "enter" \/ (pc = "dropping" /\ dropping) =>
    first_above_time # 0 /\ first_above_time <= now /\ Len(queue.pkts) \in Nat \ {0, 1}

\* In the dropping state the next drop is due when an ideal controller drops.
ScheduleOK ==
  /\ count \in Nat /\ lastcount \in Nat
  /\ last_drop.nth \in Nat
  /\ last_drop.nth # 0 => last_drop.start \in Int /\ last_drop.first \in Nat \ {0}
  /\ dropping => /\ last_drop.nth # 0
                 /\ count = last_drop.first + last_drop.nth - 1
                 /\ drop_next = CoDel!ControlLaw(CoDel!IdealDropTime(last_drop), count)

\* What the runs check of the last drop.
DropOK ==
  CoDel!DropsUnderPressure /\ CoDel!DropsOnSchedule /\ CoDel!OnlyPacketIsKept

CoDelInv == Well(queue) /\ TimerOK /\ MayDrop /\ ScheduleOK /\ DropOK

-----------------------------------------------------------------------------
LEMMA CoDelInitially == CoDel!Init => CoDelInv
<1> SUFFICES ASSUME CoDel!Init PROVE CoDelInv
  OBVIOUS
<1>1. Well(queue)
  <2> DEFINE none == <<>>
  <2>1. queue.pkts = none /\ queue.bytes = 0
    BY DEF CoDel!Init, CoDel!Limited!EmptyQueue
  <2>2. none \in Seq(Packet) /\ SizesOf(none) = none
    BY DEF SizesOf
  <2>3. Holds(queue, none, 0)
    BY <2>1, <2>2, SumEmpty DEF Holds
  <2> HIDE DEF none
  <2> QED BY <2>2, <2>3 DEF Well
<1>2. TimerOK /\ MayDrop
  BY DEF CoDel!Init, TimerOK, MayDrop
<1>3. last_drop.nth = 0 /\ count = 0 /\ lastcount = 0 /\ ~dropping
  BY DEF CoDel!Init, CoDel!NoDrop
<1>4. ScheduleOK /\ DropOK
  BY <1>3 DEF ScheduleOK, DropOK, CoDel!DropsUnderPressure, CoDel!DropsOnSchedule,
              CoDel!OnlyPacketIsKept
<1> QED BY <1>1, <1>2, <1>4 DEF CoDelInv

\* Taking a packet out restarts the timer, starts it or lets it run.
LEMMA DequeueTimer ==
  ASSUME Well(queue), TimerOK, ~CoDel!Limited!Empty(queue), CoDel!DoDequeue, now' = now
  PROVE  Well(queue)' /\ TimerOK'
<1>1. Well(queue')
  BY PopWell DEF CoDel!DoDequeue
<1>2. Well(queue)'
  BY <1>1 DEF Well
<1> DEFINE a == CoDel!Above(Head(queue.pkts), queue')
<1>3. /\ first_above_time' = IF ~a THEN 0
                             ELSE IF first_above_time = 0 THEN now + interval
                             ELSE first_above_time
      /\ above_since' = IF ~a THEN 0 ELSE IF above_since = 0 THEN now ELSE above_since
  BY DEF CoDel!DoDequeue, CoDel!AboveTime
<1> HIDE DEF a
<1>4. interval \in Nat \ {0}
  BY Constants
<1>5. TimerOK'
  BY <1>3, <1>4 DEF TimerOK
<1> QED BY <1>2, <1>5

\* A packet that may be dropped leaves the timer alone and two packets behind.
LEMMA DequeueMayDrop ==
  ASSUME Well(queue), TimerOK, ~CoDel!Limited!Empty(queue), CoDel!DoDequeue, CoDel!HeadOkToDrop
  PROVE  /\ first_above_time' = first_above_time
         /\ first_above_time # 0 /\ first_above_time <= now
         /\ Len(queue'.pkts) \in Nat \ {0, 1}
<1>1. queue' = CoDel!Limited!Pop(queue)
  BY DEF CoDel!DoDequeue
<1>2. CoDel!Above(Head(queue.pkts), queue') /\ first_above_time # 0 /\ now >= first_above_time
  BY <1>1 DEF CoDel!HeadOkToDrop, CoDel!OkToDrop
<1>3. first_above_time' = first_above_time
  BY <1>1, <1>2 DEF CoDel!DoDequeue, CoDel!AboveTime
<1>4. Len(queue'.pkts) \in Nat \ {0, 1}
  <2>1. queue'.pkts # <<>> /\ queue'.bytes > PACKET_SIZE
    BY <1>2 DEF CoDel!Above, CoDel!Limited!Empty
  <2>2. Well(queue')
    BY <1>1, PopWell
  <2>3. PICK s \in Seq(Packet), b \in Int : Holds(queue', s, b)
    BY <2>2 DEF Well
  <2>4. s # <<>> /\ SumOf(SizesOf(s)) > PACKET_SIZE /\ queue'.pkts = s
    BY <2>1, <2>3 DEF Holds
  <2>5. Len(s) >= 2 /\ Len(s) \in Nat
    BY <2>4, TwoPackets
  <2> QED BY <2>4, <2>5
<1> QED BY <1>2, <1>3, <1>4 DEF TimerOK

-----------------------------------------------------------------------------
LEMMA TickStep == ASSUME CoDelInv, CoDel!Tick PROVE CoDelInv'
<1>1. /\ UNCHANGED <<queue, first_above_time, above_since, pc, drop_next, count, lastcount,
                     dropping, last_drop>>
      /\ pc = "idle" /\ now' \in 1..MaxTime["codel"]
  BY DEF CoDel!Tick, CoDel!state, CoDel!history
<1>2. now' \in Nat \ {0}
  BY <1>1, Constants DEF CoDel!CoDelConstants
<1>3. Well(queue)' /\ TimerOK' /\ MayDrop'
  BY <1>1, <1>2 DEF CoDelInv, Well, TimerOK, MayDrop
<1>4. ScheduleOK' /\ DropOK'
  BY <1>1 DEF CoDelInv, ScheduleOK, DropOK, CoDel!DropsUnderPressure, CoDel!DropsOnSchedule,
              CoDel!OnlyPacketIsKept
<1> QED BY <1>3, <1>4 DEF CoDelInv

\* Nothing is dropped, and the schedule is left as it is or the dropping state ends.
LEMMA NoDropStep ==
  ASSUME CoDelInv, UNCHANGED <<drop_next, count, lastcount, last_drop>>,
         dropping' = dropping \/ dropping' = FALSE
  PROVE  ScheduleOK' /\ DropOK'
BY DEF CoDelInv, ScheduleOK, DropOK, CoDel!DropsUnderPressure, CoDel!DropsOnSchedule,
       CoDel!OnlyPacketIsKept

LEMMA EnqueueStep ==
  ASSUME CoDelInv, offered \in Nat, NEW size \in Sizes, CoDel!Enqueue(size) PROVE CoDelInv'
<1> DEFINE p == [id |-> offered', size |-> size, arrival |-> now]
<1>1. /\ UNCHANGED <<now, first_above_time, above_since, pc, drop_next, count, lastcount,
                     dropping, last_drop>>
      /\ pc = "idle" /\ offered' = offered + 1
      /\ queue' = CoDel!Limited!EnqueueTail(queue, p)
  BY DEF CoDel!Enqueue, CoDel!state
<1>2. p \in Packet
  BY <1>1, Constants DEF CoDelInv, TimerOK, Packet
<1>3. Well(queue')
  BY <1>1, <1>2, EnqueueWell DEF CoDelInv
<1>4. Well(queue)'
  BY <1>3 DEF Well
<1>5. TimerOK' /\ MayDrop'
  BY <1>1 DEF CoDelInv, TimerOK, MayDrop
<1>6. ScheduleOK' /\ DropOK'
  BY <1>1, NoDropStep
<1> QED BY <1>4, <1>5, <1>6 DEF CoDelInv

LEMMA DequeueOneStep == ASSUME CoDelInv, CoDel!DequeueOne PROVE CoDelInv'
<1>1. /\ ~CoDel!Limited!Empty(queue) /\ CoDel!DoDequeue /\ now' = now
      /\ pc' = "idle" /\ dropping' = FALSE
      /\ UNCHANGED <<drop_next, count, lastcount, last_drop>>
  BY DEF CoDel!DequeueOne, CoDel!Return
<1>2. Well(queue)' /\ TimerOK'
  BY <1>1, DequeueTimer DEF CoDelInv
<1>3. MayDrop'
  BY <1>1 DEF MayDrop
<1>4. ScheduleOK' /\ DropOK'
  BY <1>1, NoDropStep
<1> QED BY <1>2, <1>3, <1>4 DEF CoDelInv

LEMMA DequeueFirstStep == ASSUME CoDelInv, CoDel!DequeueFirst PROVE CoDelInv'
<1>1. /\ ~CoDel!Limited!Empty(queue) /\ CoDel!DoDequeue /\ CoDel!HeadOkToDrop /\ now' = now
      /\ UNCHANGED <<drop_next, count, lastcount, last_drop, dropping>>
  BY DEF CoDel!DequeueFirst
<1>2. Well(queue)' /\ TimerOK'
  BY <1>1, DequeueTimer DEF CoDelInv
<1>3. MayDrop'
  BY <1>1, DequeueMayDrop DEF CoDelInv, MayDrop
<1>4. ScheduleOK' /\ DropOK'
  BY <1>1, NoDropStep
<1> QED BY <1>2, <1>3, <1>4 DEF CoDelInv

\* The call is over without another drop, or dies where there is no packet.
LEMMA CallOverStep ==
  ASSUME CoDelInv, UNCHANGED <<now, queue, first_above_time, above_since, drop_next, count,
                               lastcount, dropping, last_drop>>,
         pc' \in {"idle", "aborted"}
  PROVE  CoDelInv'
<1>1. Well(queue)' /\ TimerOK' /\ MayDrop'
  BY DEF CoDelInv, Well, TimerOK, MayDrop
<1>2. ScheduleOK' /\ DropOK'
  BY NoDropStep
<1> QED BY <1>1, <1>2 DEF CoDelInv

LEMMA AbortsStep == ASSUME CoDelInv, CoDel!Aborts PROVE CoDelInv'
BY CallOverStep DEF CoDel!Aborts, CoDel!state, CoDel!history

LEMMA DropsOverStep == ASSUME CoDelInv, CoDel!DropsOver PROVE CoDelInv'
BY CallOverStep DEF CoDel!DropsOver, CoDel!Return, CoDel!state

\* What a discard records, where one is allowed.
LEMMA DiscardOK ==
  ASSUME CoDelInv, pc = "enter" \/ (pc = "dropping" /\ dropping),
         NEW start, NEW first, NEW nth, CoDel!Discard(start, first, nth),
         CoDel!IdealDropTime(last_drop') <= now
  PROVE  DropOK'
<1> DEFINE n == Len(queue.pkts)
<1>1. /\ first_above_time # 0 /\ first_above_time <= now /\ n \in Nat \ {0, 1}
      /\ above_since # 0 /\ first_above_time = above_since + interval
  BY DEF CoDelInv, MayDrop, TimerOK
<1>2. /\ last_drop'.time = now /\ last_drop'.since = above_since
      /\ last_drop'.left = n - 1
  BY DEF CoDel!Discard
<1>3. CoDel!DropsUnderPressure'
  BY <1>1, <1>2 DEF CoDel!DropsUnderPressure
<1>4. CoDel!OnlyPacketIsKept'
  <2>1. n - 1 # 0
    <3> HIDE DEF n
    <3> QED BY <1>1
  <2> QED BY <1>2, <2>1 DEF CoDel!OnlyPacketIsKept
<1>5. CoDel!DropsOnSchedule'
  BY <1>2 DEF CoDel!DropsOnSchedule
<1> QED BY <1>3, <1>4, <1>5 DEF DropOK

LEMMA EnterDroppingStep == ASSUME CoDelInv, CoDel!EnterDropping PROVE CoDelInv'
<1>1. CASE ~CoDel!Limited!DequeueAsserts(queue)
  BY <1>1, AbortsStep DEF CoDel!EnterDropping
<1>2. CASE CoDel!Limited!DequeueAsserts(queue)
  <2> DEFINE delta == count - lastcount
  <2> DEFINE b == delta > 1 /\ CoDel!Minus(now, drop_next) < 16 * interval
  <2>1. /\ pc = "enter" /\ ~CoDel!Limited!Empty(queue) /\ CoDel!DoDequeue /\ now' = now
        /\ pc' = "idle" /\ dropping' = TRUE
        /\ drop_next' = CoDel!ControlLaw(now, count') /\ CoDel!Discard(now, count', 1)
    BY <1>2 DEF CoDel!EnterDropping, CoDel!Return, CoDel!Limited!DequeueAsserts
  <2>2. count' = (IF b THEN delta ELSE 1) /\ lastcount' = (IF b THEN delta ELSE 1)
    BY <1>2 DEF CoDel!EnterDropping, CoDel!CountFrom
  <2>3. count' \in Nat \ {0} /\ lastcount' \in Nat /\ now \in Int /\ now <= now
    <3>1. count \in Nat /\ lastcount \in Nat /\ now \in Nat
      BY DEF CoDelInv, ScheduleOK, TimerOK
    <3>2. b => delta \in Nat \ {0}
      BY <3>1
    <3> HIDE DEF b, delta
    <3> QED BY <2>2, <3>1, <3>2
  <2>4. last_drop'.nth = 1 /\ last_drop'.start = now /\ last_drop'.first = count'
    BY <2>1 DEF CoDel!Discard
  <2>5. CoDel!IdealDropTime(last_drop') = now
    <3>1. last_drop'.nth = 1 /\ last_drop'.start \in Int /\ last_drop'.first \in Nat \ {0}
      BY <2>3, <2>4
    <3> QED BY <2>4, <3>1, IdealFirst
  <2>6. DropOK'
    BY <2>1, <2>3, <2>5, DiscardOK
  <2>7. Well(queue)' /\ TimerOK'
    BY <2>1, DequeueTimer DEF CoDelInv
  <2>8. MayDrop'
    BY <2>1 DEF MayDrop
  <2>9. ScheduleOK'
    <3>1. /\ count' \in Nat /\ lastcount' \in Nat /\ last_drop'.nth \in Nat \ {0}
          /\ last_drop'.start \in Int /\ last_drop'.first \in Nat \ {0}
          /\ count' = last_drop'.first + last_drop'.nth - 1
      <4> DEFINE c == count'
      <4> DEFINE x == last_drop'.first
      <4> DEFINE n == last_drop'.nth
      <4>1. c \in Nat \ {0} /\ x = c /\ n = 1
        BY <2>3, <2>4
      <4> HIDE DEF c, x, n
      <4>2. c = x + n - 1 /\ n \in Nat \ {0} /\ x \in Nat \ {0} /\ c \in Nat
        BY <4>1
      <4> QED BY <2>3, <2>4, <4>2 DEF c, x, n
    <3>2. drop_next' = CoDel!ControlLaw(CoDel!IdealDropTime(last_drop'), count')
      BY <2>1, <2>5
    <3>3. CoDel!IdealDropTime(last_drop)' = CoDel!IdealDropTime(last_drop')
      BY DEF CoDel!IdealDropTime
    <3> QED BY <3>1, <3>2, <3>3 DEF ScheduleOK
  <2> QED BY <2>6, <2>7, <2>8, <2>9 DEF CoDelInv
<1> QED BY <1>1, <1>2

LEMMA DropNextStep == ASSUME CoDelInv, CoDel!DropNext PROVE CoDelInv'
<1>1. CASE ~CoDel!Limited!DequeueAsserts(queue)
  BY <1>1, AbortsStep DEF CoDel!DropNext
<1>2. CASE CoDel!Limited!DequeueAsserts(queue)
  <2> DEFINE d == last_drop
  <2> DEFINE e == last_drop'
  <2>1. /\ pc = "dropping" /\ dropping /\ now >= drop_next
        /\ ~CoDel!Limited!Empty(queue) /\ CoDel!DoDequeue /\ now' = now
        /\ pc' = pc /\ count' = count + 1 /\ lastcount' = lastcount
        /\ CoDel!Discard(d.start, d.first, d.nth + 1)
        /\ IF CoDel!HeadOkToDrop
             THEN drop_next' = CoDel!ControlLaw(drop_next, count') /\ UNCHANGED dropping
             ELSE dropping' = FALSE /\ UNCHANGED drop_next
    BY <1>2 DEF CoDel!DropNext, CoDel!Limited!DequeueAsserts
  <2>2. /\ count \in Nat /\ lastcount \in Nat /\ d.nth \in Nat \ {0}
        /\ d.start \in Int /\ d.first \in Nat \ {0}
        /\ count = d.first + d.nth - 1
        /\ drop_next = CoDel!ControlLaw(CoDel!IdealDropTime(d), count)
    BY <2>1 DEF CoDelInv, ScheduleOK
  <2>3. e.nth = d.nth + 1 /\ e.start = d.start /\ e.first = d.first
    BY <2>1 DEF CoDel!Discard
  <2>4. CoDel!IdealDropTime(e) = drop_next
    <3> HIDE DEF d, e
    <3>1. CoDel!IdealDropTime(e) = CoDel!ControlLaw(CoDel!IdealDropTime(d), d.first + d.nth - 1)
      BY <2>2, <2>3, IdealNext
    <3> QED BY <2>2, <3>1
  <2>5. DropOK'
    BY <2>1, <2>4, DiscardOK
  <2>6. Well(queue)' /\ TimerOK'
    BY <2>1, DequeueTimer DEF CoDelInv
  <2>7. MayDrop'
    <3>1. CASE CoDel!HeadOkToDrop
      BY <2>1, <3>1, DequeueMayDrop DEF CoDelInv, MayDrop
    <3>2. CASE ~CoDel!HeadOkToDrop
      BY <2>1, <3>2 DEF MayDrop
    <3> QED BY <3>1, <3>2
  <2>8. ScheduleOK'
    <3>1. e.nth \in Nat \ {0} /\ e.start \in Int /\ e.first \in Nat \ {0}
          /\ count' \in Nat /\ lastcount' \in Nat /\ count' = e.first + e.nth - 1
      <4> DEFINE x == d.first
      <4> DEFINE n == d.nth
      <4>1. x \in Nat \ {0} /\ n \in Nat \ {0} /\ count = x + n - 1 /\ count' = count + 1
        BY <2>1, <2>2
      <4>2. e.first = x /\ e.nth = n + 1
        BY <2>3
      <4> HIDE DEF d, x, n, e
      <4>3. count' = x + (n + 1) - 1 /\ n + 1 \in Nat \ {0} /\ count' \in Nat
        BY <4>1
      <4> QED BY <2>1, <2>2, <2>3, <4>1, <4>2, <4>3
    <3>2. CoDel!IdealDropTime(last_drop)' = CoDel!IdealDropTime(e)
      BY DEF CoDel!IdealDropTime
    <3>3. dropping' => drop_next' = CoDel!ControlLaw(CoDel!IdealDropTime(e), count')
      BY <2>1, <2>4
    <3> QED BY <3>1, <3>2, <3>3 DEF ScheduleOK
  <2> QED BY <2>5, <2>6, <2>7, <2>8 DEF CoDelInv
<1> QED BY <1>1, <1>2

-----------------------------------------------------------------------------
(***************************************************************************)
(* PIE: periods that are made up for.                                      *)
(***************************************************************************)
\* How many periods are over, of a time that began with the last update.
Periods(x) == IF x > t_update THEN (x - 1) \div t_update ELSE 0

LEMMA PIEConstantsOK ==
  /\ t_update \in Nat \ {0} /\ qdelay_ref \in Nat \ {0} /\ max_burst \in Nat \ {0}
  /\ dq_threshold \in Nat /\ ClockSteps["pie"] \subseteq Nat /\ MaxTime["pie"] \in Nat
BY ActiveQueuesAssumption DEF PIE!PIEConstants

\* Once they are made up for none is over.
LEMMA PeriodsLeft ==
  ASSUME NEW x \in Int
  PROVE  Periods(x) \in Nat /\ x - Periods(x) * t_update <= t_update
<1> DEFINE T == t_update
<1> DEFINE m == (x - 1) \div T
<1> DEFINE r == (x - 1) % T
<1>1. T \in Nat \ {0}
  BY PIEConstantsOK
<1>2. CASE ~(x > T)
  BY <1>1, <1>2 DEF Periods
<1>3. CASE x > T
  <2>1. Periods(x) = m
    BY <1>3 DEF Periods
  <2>2. m \in Int /\ r \in Int /\ x - 1 = m * T + r /\ 0 <= r /\ r < T
    <3> HIDE DEF T
    <3> QED BY <1>1
  <2> HIDE DEF m, r, T
  <2>3. m >= 0
    <3> SUFFICES ASSUME m <= -1 PROVE FALSE
      BY <2>2
    <3>1. m * T <= -1 * T
      BY <1>1, <2>2
    <3> QED BY <1>1, <1>3, <2>2, <3>1
  <2>4. x - m * T <= T
    BY <1>1, <2>2
  <2> QED BY <2>1, <2>2, <2>3, <2>4 DEF T
<1> QED BY <1>2, <1>3

\* Later, as many are over as now and since now.
LEMMA PeriodsAdd ==
  ASSUME NEW x \in Int, NEW y \in Int, x <= y
  PROVE  Periods(y) = Periods(x) + Periods(y - Periods(x) * t_update)
<1> DEFINE T == t_update
<1> DEFINE m == (x - 1) \div T
<1> DEFINE r == (x - 1) % T
<1> DEFINE n == (y - 1) \div T
<1> DEFINE u == (y - 1) % T
<1>1. T \in Nat \ {0}
  BY PIEConstantsOK
<1>2. CASE ~(x > T)
  <2>1. Periods(x) = 0
    BY <1>2 DEF Periods
  <2>2. y - 0 * T = y
    BY <1>1
  <2>3. Periods(y) \in Nat
    BY PeriodsLeft
  <2> QED BY <2>1, <2>2, <2>3
<1>3. CASE x > T
  <2>1. Periods(x) = m /\ Periods(y) = n
    BY <1>1, <1>3 DEF Periods
  <2>2. /\ m \in Int /\ r \in Int /\ x - 1 = m * T + r /\ 0 <= r /\ r < T
        /\ n \in Int /\ u \in Int /\ y - 1 = n * T + u /\ 0 <= u /\ u < T
    <3> HIDE DEF T
    <3> QED BY <1>1
  <2> DEFINE z == y - m * T
  <2>3. z \in Int
    <3> HIDE DEF m, T
    <3> QED BY <1>1, <2>2
  <2>4. CASE z > T
    <3>1. Periods(z) = (z - 1) \div T
      BY <2>4 DEF Periods
    <3>2. z - 1 = (n - m) * T + u
      <4> HIDE DEF m, n, r, u, T
      <4>1. (n - m) * T = n * T - m * T
        BY <1>1, <2>2
      <4> QED BY <1>1, <2>2, <4>1
    <3>3. (z - 1) \div T = n - m
      <4> HIDE DEF m, n, r, u, T, z
      <4>1. u \in 0..(T - 1) /\ n - m \in Int
        BY <1>1, <2>2
      <4>2. ((n - m) * T + u) \div T = n - m
        BY <1>1, <4>1, Position
      <4> QED BY <3>2, <4>2
    <3>4. m + (n - m) = n
      <4> HIDE DEF m, n
      <4> QED BY <2>2
    <3> HIDE DEF m, n
    <3> QED BY <2>1, <3>1, <3>3, <3>4
  <2>5. CASE ~(z > T)
    <3>1. Periods(z) = 0
      BY <2>5 DEF Periods
    <3>2. y - 1 = m * T + (z - 1) /\ z - 1 \in 0..(T - 1)
      <4>1. x - m * T >= 1
        <5> HIDE DEF m, n, r, u, T
        <5> QED BY <1>1, <2>2
      <4>2. z >= x - m * T
        <5> HIDE DEF m, n, r, u, T
        <5> QED BY <1>1, <2>2
      <4>3. m * T \in Int
        <5> HIDE DEF m, T
        <5> QED BY <1>1, <2>2
      <4> HIDE DEF m, T
      <4> QED BY <1>1, <2>3, <2>5, <4>1, <4>2, <4>3
    <3>3. n = m
      <4> HIDE DEF m, T, z
      <4>1. (m * T + (z - 1)) \div T = m
        BY <1>1, <2>2, <3>2, Position
      <4> QED BY <3>2, <4>1
    <3>4. m = m + 0
      <4> HIDE DEF m
      <4> QED BY <2>2
    <3> HIDE DEF m, n
    <3> QED BY <2>1, <3>1, <3>3, <3>4
  <2> QED BY <2>4, <2>5
<1> QED BY <1>2, <1>3

-----------------------------------------------------------------------------
(***************************************************************************)
(* PIE: updates.                                                           *)
(***************************************************************************)
\* The status variables at time t: a measurement began at t or before.
Status(t) ==
  [drop_prob : Int, burst_allowance : Int, qdelay_old : Int, current_qdelay : Int,
   dq_count : Int, dq_tstamp : {u \in Int : u <= t}, avg_dq_rate : Int, last_update : Int]

LEMMA AdjustmentIsInt ==
  ASSUME NEW prob \in Int, NEW cur \in Int, NEW old \in Int
  PROVE  PIE!Adjustment(prob, cur, old) \in Int
<1> DEFINE w == IF prob < PIE!One \div 100 THEN 1 ELSE IF prob < PIE!One \div 10 THEN 4 ELSE 8
<1> DEFINE k == PIE!One \div 1024
<1> DEFINE c == cur - qdelay_ref + 10 * (cur - old)
<1>1. w \in Int /\ k \in Int /\ c \in Int
  BY PIEConstantsOK DEF PIE!One
<1>2. PIE!Adjustment(prob, cur, old) = c * w * k
  BY DEF PIE!Adjustment
<1> HIDE DEF w, k, c
<1>3. c * w * k \in Int
  BY <1>1
<1> QED BY <1>2, <1>3

\* An update moves last_update_ by one period.
LEMMA UpdateOK ==
  ASSUME NEW t \in Int, NEW s \in Status(t), NEW bytes \in Int
  PROVE  /\ PIE!Update(s, bytes) \in Status(t)
         /\ PIE!Update(s, bytes).last_update = s.last_update + t_update
<1> DEFINE old == s.current_qdelay
<1> DEFINE cur == IF s.avg_dq_rate > 0 THEN bytes \div s.avg_dq_rate ELSE 0
<1> DEFINE sum == s.drop_prob + PIE!Adjustment(s.drop_prob, cur, old)
<1> DEFINE prob == PIE!Least(PIE!Most(sum, 0), PIE!One)
<1> DEFINE decays == cur = 0 /\ old = 0 /\ bytes = 0 /\ sum <= PIE!One
<1> DEFINE np == IF decays THEN (prob * 98) \div 100 ELSE prob
<1> DEFINE nb == PIE!Most(0, s.burst_allowance - t_update)
<1> DEFINE nl == s.last_update + t_update
<1> DEFINE u == [s EXCEPT !.qdelay_old = old, !.current_qdelay = cur, !.drop_prob = np,
                          !.burst_allowance = nb, !.last_update = nl]
<1>1. /\ old \in Int /\ s.avg_dq_rate \in Int /\ s.drop_prob \in Int
      /\ s.burst_allowance \in Int /\ s.last_update \in Int /\ t_update \in Int
  BY PIEConstantsOK DEF Status
<1>2. cur \in Int
  BY <1>1
<1>3. sum \in Int
  <2>1. PIE!Adjustment(s.drop_prob, cur, old) \in Int
    <3> HIDE DEF cur, old
    <3> QED BY <1>1, <1>2, AdjustmentIsInt
  <2> QED BY <1>1, <2>1
<1>4. prob \in Int
  <2> HIDE DEF sum
  <2> QED BY <1>3 DEF PIE!Least, PIE!Most, PIE!One
<1>5. np \in Int /\ nb \in Int /\ nl \in Int
  <2>1. np \in Int
    <3> HIDE DEF prob, decays
    <3> QED BY <1>4
  <2>2. nb \in Int /\ nl \in Int
    BY <1>1 DEF PIE!Most
  <2> QED BY <2>1, <2>2
<1>6. PIE!Update(s, bytes) = IF PIE!Idle(u)
                               THEN [u EXCEPT !.dq_count = PIE!DQ_COUNT_INVALID, !.avg_dq_rate = 0,
                                              !.burst_allowance = max_burst]
                               ELSE u
  BY DEF PIE!Update
<1> HIDE DEF old, cur, np, nb, nl
<1>7. u \in Status(t) /\ u.last_update = nl
  BY <1>1, <1>2, <1>5 DEF Status
<1> HIDE DEF u
<1> DEFINE v == [u EXCEPT !.dq_count = PIE!DQ_COUNT_INVALID, !.avg_dq_rate = 0,
                          !.burst_allowance = max_burst]
<1>8. v \in Status(t) /\ v.last_update = nl
  <2>1. max_burst \in Int /\ PIE!DQ_COUNT_INVALID \in Int
    BY PIEConstantsOK DEF PIE!DQ_COUNT_INVALID
  <2> DEFINE v1 == [u EXCEPT !.dq_count = PIE!DQ_COUNT_INVALID]
  <2> DEFINE v2 == [v1 EXCEPT !.avg_dq_rate = 0]
  <2> DEFINE v3 == [v2 EXCEPT !.burst_allowance = max_burst]
  <2>2. v1 \in Status(t) /\ v1.last_update = nl
    BY <1>7, <2>1 DEF Status
  <2> HIDE DEF v1
  <2>3. v2 \in Status(t) /\ v2.last_update = nl
    BY <2>2 DEF Status
  <2> HIDE DEF v2
  <2>4. v3 \in Status(t) /\ v3.last_update = nl
    BY <2>1, <2>3 DEF Status
  <2> QED BY <2>4 DEF v1, v2
<1> HIDE DEF v
<1> QED BY <1>6, <1>7, <1>8 DEF nl, v

\* f gives the status after each of N updates.
Updates(s, bytes, N, f) ==
  f = [n \in 0..N |-> IF n = 0 THEN s ELSE PIE!Update(f[n - 1], bytes)]

After(s, bytes, N) == CHOOSE f : Updates(s, bytes, N, f)

\* The same, update after update.
UpdateByUpdate(t, s, bytes, N, c) ==
  /\ c[0] = s
  /\ \A n \in 1..N : c[n] = PIE!Update(c[n - 1], bytes)
  /\ \A n \in 0..N : c[n] \in Status(t) /\ c[n].last_update = s.last_update + n * t_update

LEMMA AfterUnfold ==
  ASSUME NEW t \in Int, NEW s \in Status(t), NEW bytes \in Int, NEW N \in Nat
  PROVE  UpdateByUpdate(t, s, bytes, N, After(s, bytes, N))
<1> DEFINE S == Status(t)
<1> DEFINE G == [i \in 1..N |-> [v \in S |-> PIE!Update(v, bytes)]]
<1>1. G \in [1..N -> [S -> S]]
  BY UpdateOK
<1> HIDE DEF G
<1>2. PICK f \in [0..N -> S] : Chain(G, s, N, f)
  BY <1>1, ChainExists
<1>3. Updates(s, bytes, N, f)
  <2>1. \A n \in 0..N : f[n] = IF n = 0 THEN s ELSE PIE!Update(f[n - 1], bytes)
    <3> TAKE n \in 0..N
    <3>1. CASE n = 0
      BY <1>2, <3>1 DEF Chain
    <3>2. CASE n # 0
      <4>1. n \in 1..N /\ n - 1 \in 0..N
        BY <3>2
      <4>2. f[n] = G[n][f[n - 1]] /\ f[n - 1] \in S
        BY <1>2, <4>1 DEF Chain
      <4> QED BY <3>2, <4>1, <4>2 DEF G
    <3> QED BY <3>1, <3>2
  <2> QED BY <1>2, <2>1 DEF Updates
<1> DEFINE c == After(s, bytes, N)
<1>4. Updates(s, bytes, N, c)
  BY <1>3 DEF After
<1> HIDE DEF c
<1>5. \A n \in 0..N : c[n] = IF n = 0 THEN s ELSE PIE!Update(c[n - 1], bytes)
  BY <1>4 DEF Updates
<1>6. c[0] = s /\ \A n \in 1..N : c[n] = PIE!Update(c[n - 1], bytes)
  BY <1>5
<1>7. \A n \in 0..N : c[n] \in S
  <2>1. \A n \in 1..N : c[n - 1] \in S => c[n] \in S
    BY <1>6, UpdateOK
  <2> HIDE DEF S
  <2> QED BY <1>6, <2>1, StaysIn DEF S
<1>8. \A n \in 0..N : c[n].last_update = s.last_update + n * t_update
  <2> DEFINE T == {n \in 0..N : c[n].last_update = s.last_update + n * t_update}
  <2>0. s.last_update \in Int /\ t_update \in Nat
    BY PIEConstantsOK DEF Status
  <2>1. 0 \in T
    <3>1. s.last_update = s.last_update + 0 * t_update
      BY <2>0
    <3> QED BY <1>6, <3>1
  <2>2. ASSUME NEW n \in 0..(N - 1), n \in T PROVE n + 1 \in T
    <3>1. n + 1 \in 1..N /\ (n + 1) - 1 = n /\ n \in 0..N /\ n + 1 \in 0..N
      OBVIOUS
    <3>2. c[n + 1] = PIE!Update(c[n], bytes) /\ c[n] \in S
      BY <1>6, <1>7, <3>1
    <3>3. c[n + 1].last_update = c[n].last_update + t_update
      BY <3>2, UpdateOK
    <3> DEFINE lu == s.last_update
    <3>4. c[n].last_update = lu + n * t_update
      BY <2>2
    <3>5. (lu + n * t_update) + t_update = lu + (n + 1) * t_update
      <4> HIDE DEF lu
      <4> QED BY <2>0, <3>1 DEF lu
    <3> QED BY <3>1, <3>3, <3>4, <3>5
  <2> HIDE DEF T
  <2>3. 0..N \subseteq T
    BY <2>1, <2>2, InductionUpTo
  <2> QED BY <2>3 DEF T
<1> QED BY <1>6, <1>7, <1>8 DEF UpdateByUpdate, c

\* After m updates and n more, m + n are made.
LEMMA AfterMore ==
  ASSUME NEW t \in Int, NEW s \in Status(t), NEW bytes \in Int, NEW m \in Nat, NEW n \in Nat
  PROVE  After(s, bytes, m + n)[m + n] = After(After(s, bytes, m)[m], bytes, n)[n]
<1> DEFINE f == After(s, bytes, m + n)
<1> DEFINE g == After(s, bytes, m)
<1> DEFINE r == g[m]
<1> DEFINE h == After(r, bytes, n)
<1>1. m + n \in Nat /\ m \in 0..m /\ n \in 0..n
  OBVIOUS
<1>2. UpdateByUpdate(t, s, bytes, m + n, f) /\ UpdateByUpdate(t, s, bytes, m, g)
  BY <1>1, AfterUnfold
<1>3. r \in Status(t)
  BY <1>1, <1>2 DEF UpdateByUpdate
<1>4. UpdateByUpdate(t, r, bytes, n, h)
  <2> HIDE DEF r
  <2> QED BY <1>3, AfterUnfold
<1> HIDE DEF f, g, h
<1>5. f[0] = s /\ \A i \in 1..(m + n) : f[i] = PIE!Update(f[i - 1], bytes)
  BY <1>2 DEF UpdateByUpdate
<1>6. g[0] = s /\ \A i \in 1..m : g[i] = PIE!Update(g[i - 1], bytes)
  BY <1>2 DEF UpdateByUpdate
<1>7. h[0] = r /\ \A i \in 1..n : h[i] = PIE!Update(h[i - 1], bytes)
  BY <1>4 DEF UpdateByUpdate
<1>8. \A i \in 0..m : f[i] = g[i]
  <2>1. \A i \in 1..m : f[i - 1] = g[i - 1] => f[i] = g[i]
    <3> TAKE i \in 1..m
    <3>1. i \in 1..(m + n)
      OBVIOUS
    <3> QED BY <1>5, <1>6, <3>1
  <2> QED BY <1>5, <1>6, <2>1, AgreeUpTo
<1> DEFINE F == [i \in 0..n |-> f[m + i]]
<1>9. F[0] = h[0]
  <2>1. F[0] = f[m] /\ m \in 0..m
    OBVIOUS
  <2> QED BY <1>7, <1>8, <2>1
<1>10. \A i \in 1..n : F[i - 1] = h[i - 1] => F[i] = h[i]
  <2> TAKE i \in 1..n
  <2>1. m + i \in 1..(m + n) /\ (m + i) - 1 = m + (i - 1) /\ i \in 0..n /\ i - 1 \in 0..n
    OBVIOUS
  <2>2. F[i] = f[m + i] /\ F[i - 1] = f[m + (i - 1)]
    BY <2>1
  <2> HIDE DEF F
  <2>3. f[m + i] = PIE!Update(f[(m + i) - 1], bytes)
    BY <1>5, <2>1
  <2> QED BY <1>7, <2>1, <2>2, <2>3
<1> HIDE DEF F
<1>11. \A i \in 0..n : F[i] = h[i]
  BY <1>9, <1>10, AgreeUpTo
<1>12. F[n] = f[m + n]
  BY <1>1 DEF F
<1> QED BY <1>1, <1>11, <1>12 DEF f, g, h

-----------------------------------------------------------------------------
LEMMA CalculateIsAfter ==
  ASSUME NEW s, NEW bytes, NEW t
  PROVE  /\ PIE!Missed(s, t) = Periods(t - s.last_update)
         /\ PIE!CalculateDropProb(s, bytes, t)
              = After(s, bytes, PIE!Missed(s, t))[PIE!Missed(s, t)]
<1>1. PIE!Missed(s, t) = Periods(t - s.last_update)
  BY DEF PIE!Missed, Periods
<1>2. PIE!CalculateDropProb(s, bytes, t) = After(s, bytes, PIE!Missed(s, t))[PIE!Missed(s, t)]
  BY DEF PIE!CalculateDropProb, After, Updates
<1> QED BY <1>1, <1>2

\* calculate_drop_prob makes up for all that was missed.
LEMMA CalculateOK ==
  ASSUME NEW t \in Int, NEW s \in Status(t), NEW bytes \in Int, NEW u \in Int
  PROVE  /\ PIE!CalculateDropProb(s, bytes, u) \in Status(t)
         /\ PIE!CalculateDropProb(s, bytes, u).last_update =
              s.last_update + PIE!Missed(s, u) * t_update
         /\ PIE!Missed(s, u) \in Nat
         /\ PIE!Missed(PIE!CalculateDropProb(s, bytes, u), u) = 0
<1> DEFINE N == PIE!Missed(s, u)
<1> DEFINE lu == s.last_update
<1> DEFINE r == PIE!CalculateDropProb(s, bytes, u)
<1>1. lu \in Int /\ t_update \in Nat \ {0}
  BY PIEConstantsOK DEF Status
<1>2. N = Periods(u - lu) /\ r = After(s, bytes, N)[N] /\ u - lu \in Int
  BY <1>1, CalculateIsAfter
<1>3. N \in Nat /\ (u - lu) - N * t_update <= t_update
  BY <1>2, PeriodsLeft
<1> HIDE DEF N, r
<1>4. UpdateByUpdate(t, s, bytes, N, After(s, bytes, N))
  BY <1>3, AfterUnfold
<1>5. r \in Status(t) /\ r.last_update = lu + N * t_update
  BY <1>2, <1>3, <1>4 DEF UpdateByUpdate
<1> DEFINE rl == r.last_update
<1> HIDE DEF lu, rl
<1>6. ~(u - rl > t_update)
  <2>1. rl = lu + N * t_update
    BY <1>5 DEF rl
  <2>2. u - rl = (u - lu) - N * t_update
    BY <1>1, <1>3, <2>1
  <2> QED BY <1>1, <1>2, <1>3, <2>1, <2>2
<1>7. PIE!Missed(r, u) = 0
  BY <1>6 DEF PIE!Missed, rl
<1> QED BY <1>3, <1>5, <1>7 DEF N, r, lu

\* It does nothing where nothing was missed.
LEMMA CalculateNothing ==
  ASSUME NEW t \in Int, NEW s \in Status(t), NEW bytes \in Int, NEW u \in Int,
         PIE!Missed(s, u) = 0
  PROVE  PIE!CalculateDropProb(s, bytes, u) = s
<1>1. PIE!CalculateDropProb(s, bytes, u) = After(s, bytes, 0)[0]
  BY CalculateIsAfter
<1>2. UpdateByUpdate(t, s, bytes, 0, After(s, bytes, 0))
  BY AfterUnfold
<1> QED BY <1>1, <1>2 DEF UpdateByUpdate

\* Now and later is the same as later, as long as the queue does not change.
LEMMA CalculateLater ==
  ASSUME NEW t \in Int, NEW s \in Status(t), NEW bytes \in Int, NEW u \in Int, t <= u
  PROVE  PIE!CalculateDropProb(s, bytes, u)
           = PIE!CalculateDropProb(PIE!CalculateDropProb(s, bytes, t), bytes, u)
<1> DEFINE m == PIE!Missed(s, t)
<1> DEFINE lu == s.last_update
<1> DEFINE r == PIE!CalculateDropProb(s, bytes, t)
<1> DEFINE n == PIE!Missed(r, u)
<1>1. lu \in Int /\ t_update \in Nat \ {0}
  BY PIEConstantsOK DEF Status
<1>2. /\ r \in Status(t) /\ r.last_update = lu + m * t_update /\ m \in Nat
      /\ r = After(s, bytes, m)[m] /\ m = Periods(t - lu)
  BY CalculateOK, CalculateIsAfter
<1>3. n \in Nat /\ n = Periods(u - r.last_update)
  <2>1. r \in Status(t)
    BY <1>2
  <2> HIDE DEF r
  <2> QED BY <2>1, CalculateOK, CalculateIsAfter
<1>4. PIE!Missed(s, u) = m + n
  <2>1. PIE!Missed(s, u) = Periods(u - lu)
    BY CalculateIsAfter
  <2> DEFINE rl == r.last_update
  <2>2. rl = lu + m * t_update /\ n = Periods(u - rl) /\ m \in Nat /\ m = Periods(t - lu)
    BY <1>2, <1>3
  <2> HIDE DEF rl, lu, m, n, r
  <2>3. u - rl = (u - lu) - m * t_update
    BY <1>1, <2>2
  <2>4. t - lu \in Int /\ u - lu \in Int /\ t - lu <= u - lu
    BY <1>1
  <2>5. Periods(u - lu) = Periods(t - lu) + Periods((u - lu) - Periods(t - lu) * t_update)
    BY <2>4, PeriodsAdd
  <2> QED BY <2>1, <2>2, <2>3, <2>5
<1>5. PIE!CalculateDropProb(s, bytes, u) = After(s, bytes, m + n)[m + n]
  BY <1>4, CalculateIsAfter
<1>6. PIE!CalculateDropProb(r, bytes, u) = After(r, bytes, n)[n]
  <2> HIDE DEF r
  <2> QED BY CalculateIsAfter
<1>7. After(s, bytes, m + n)[m + n] = After(After(s, bytes, m)[m], bytes, n)[n]
  <2>1. m \in Nat /\ n \in Nat
    BY <1>2, <1>3
  <2> HIDE DEF m, n
  <2> QED BY <2>1, AfterMore
<1> HIDE DEF m, n, r
<1> QED BY <1>2, <1>5, <1>6, <1>7 DEF r

-----------------------------------------------------------------------------
\* The measurement of a packet that leaves; dtime is never negative.
LEMMA MeasureOK ==
  ASSUME NEW t \in Int, NEW s \in Status(t), NEW size \in Int, NEW left \in Int
  PROVE  /\ PIE!Measure(s, size, left, t) \in Status(t)
         /\ PIE!Measure(s, size, left, t).last_update = s.last_update
<1> DEFINE lu == s.last_update
<1> DEFINE m == IF left >= dq_threshold /\ s.dq_count = PIE!DQ_COUNT_INVALID
                  THEN [s EXCEPT !.dq_tstamp = t, !.dq_count = 0] ELSE s
<1> DEFINE c == m.dq_count + size
<1> DEFINE dtime == t - m.dq_tstamp
<1> DEFINE sample == c \div dtime
<1> DEFINE e1 == [m EXCEPT !.dq_count = c]
<1> DEFINE rate == IF m.avg_dq_rate = 0 THEN sample
                   ELSE m.avg_dq_rate - m.avg_dq_rate \div 8 + sample \div 8
<1> DEFINE dq == IF left < dq_threshold THEN PIE!DQ_COUNT_INVALID ELSE 0
<1> DEFINE ts == IF left < dq_threshold THEN m.dq_tstamp ELSE t
<1> DEFINE ba == PIE!Most(0, m.burst_allowance - dtime)
<1> DEFINE e2 == [m EXCEPT !.avg_dq_rate = rate, !.dq_count = dq, !.dq_tstamp = ts,
                           !.burst_allowance = ba]
<1>1. m \in Status(t) /\ m.last_update = lu
  <2>1. t \in {u \in Int : u <= t} /\ 0 \in Int
    OBVIOUS
  <2> DEFINE s1 == [s EXCEPT !.dq_tstamp = t]
  <2> DEFINE s2 == [s1 EXCEPT !.dq_count = 0]
  <2>2. s1 \in Status(t) /\ s1.last_update = lu
    BY <2>1 DEF Status
  <2> HIDE DEF s1
  <2>3. s2 \in Status(t) /\ s2.last_update = lu
    BY <2>1, <2>2 DEF Status
  <2> QED BY <2>3 DEF s1
<1>2. PIE!Measure(s, size, left, t)
        = IF m.dq_count = PIE!DQ_COUNT_INVALID THEN m
          ELSE IF c <= dq_threshold \/ dtime = 0 THEN e1 ELSE e2
  BY DEF PIE!Measure
<1> HIDE DEF m
<1>3. /\ m.dq_count \in Int /\ m.avg_dq_rate \in Int /\ m.burst_allowance \in Int
      /\ m.dq_tstamp \in Int /\ m.dq_tstamp <= t
  BY <1>1 DEF Status
<1>4. c \in Int /\ dtime \in Nat
  BY <1>3
<1>5. e1 \in Status(t) /\ e1.last_update = lu
  <2> HIDE DEF c
  <2> QED BY <1>1, <1>4 DEF Status
<1>6. CASE dtime # 0
  <2>1. sample \in Int
    <3> HIDE DEF c, dtime
    <3> QED BY <1>4, <1>6
  <2>2. rate \in Int
    <3> HIDE DEF sample
    <3> QED BY <1>3, <2>1
  <2>3. dq \in Int
    BY DEF PIE!DQ_COUNT_INVALID
  <2>4. ts \in {u \in Int : u <= t}
    BY <1>3
  <2>5. ba \in Int
    BY <1>3, <1>4 DEF PIE!Most
  <2> HIDE DEF rate, dq, ts, ba
  <2> DEFINE s1 == [m EXCEPT !.avg_dq_rate = rate]
  <2> DEFINE s2 == [s1 EXCEPT !.dq_count = dq]
  <2> DEFINE s3 == [s2 EXCEPT !.dq_tstamp = ts]
  <2> DEFINE s4 == [s3 EXCEPT !.burst_allowance = ba]
  <2>6. s1 \in Status(t) /\ s1.last_update = lu
    BY <1>1, <2>2 DEF Status
  <2> HIDE DEF s1
  <2>7. s2 \in Status(t) /\ s2.last_update = lu
    BY <2>3, <2>6 DEF Status
  <2> HIDE DEF s2
  <2>8. s3 \in Status(t) /\ s3.last_update = lu
    BY <2>4, <2>7 DEF Status
  <2> HIDE DEF s3
  <2>9. s4 \in Status(t) /\ s4.last_update = lu
    BY <2>5, <2>8 DEF Status
  <2>10. e2 \in Status(t) /\ e2.last_update = lu
    BY <2>9 DEF s1, s2, s3
  <2> HIDE DEF e1, e2
  <2> QED BY <1>1, <1>2, <1>5, <2>10
<1>7. CASE dtime = 0
  <2> HIDE DEF e1, e2
  <2> QED BY <1>1, <1>2, <1>5, <1>7
<1> QED BY <1>6, <1>7

-----------------------------------------------------------------------------
(***************************************************************************)
(* The inductive invariant of PIE.                                         *)
(***************************************************************************)
Same == ~late => PIE!CalculateDropProb(pie, queue.bytes, now) = timer

PIEInv ==
  /\ now \in Nat /\ Well(queue)
  /\ pie \in Status(now) /\ timer \in Status(now)
  /\ Same

LEMMA LimitedIsLimited ==
  ASSUME NEW q, NEW p
  PROVE  /\ PIE!Limited!Pop(q) = CoDel!Limited!Pop(q)
         /\ PIE!Limited!Empty(q) = CoDel!Limited!Empty(q)
         /\ PIE!Limited!EnqueueTail(q, p) = CoDel!Limited!EnqueueTail(q, p)
         /\ PIE!Limited!EmptyQueue = CoDel!Limited!EmptyQueue
BY DEF PIE!Limited!Pop, CoDel!Limited!Pop, PIE!Limited!Empty, CoDel!Limited!Empty,
       PIE!Limited!EnqueueTail, CoDel!Limited!EnqueueTail,
       PIE!Limited!GoodWith, CoDel!Limited!GoodWith, PIE!Limited!Accept, CoDel!Limited!Accept,
       PIE!Limited!EmptyQueue, CoDel!Limited!EmptyQueue

LEMMA WellBytes ==
  ASSUME NEW q, Well(q)
  PROVE  q.bytes \in Int
BY DEF Well, Holds

LEMMA StatusLater ==
  ASSUME NEW t \in Int, NEW u \in Int, t <= u, NEW s \in Status(t)
  PROVE  s \in Status(u)
<1>1. {v \in Int : v <= t} \subseteq {v \in Int : v <= u}
  OBVIOUS
<1> DEFINE A == {v \in Int : v <= t}
<1> DEFINE B == {v \in Int : v <= u}
<1>2. s \in [drop_prob : Int, burst_allowance : Int, qdelay_old : Int, current_qdelay : Int,
             dq_count : Int, dq_tstamp : A, avg_dq_rate : Int, last_update : Int]
  BY DEF Status
<1> HIDE DEF A, B
<1>3. s \in [drop_prob : Int, burst_allowance : Int, qdelay_old : Int, current_qdelay : Int,
             dq_count : Int, dq_tstamp : B, avg_dq_rate : Int, last_update : Int]
  BY <1>1, <1>2 DEF A, B
<1> QED BY <1>3 DEF Status, B

LEMMA PIEInitially == PIE!Init /\ Well(queue) => PIEInv
<1> SUFFICES ASSUME PIE!Init, Well(queue) PROVE PIEInv
  OBVIOUS
<1> DEFINE new == PIE!NewPIE(1)
<1>1. now = 1 /\ pie = new /\ timer = new
  BY DEF PIE!Init
<1>2. new \in Status(1) /\ new.last_update = 1
  <2>1. PIE!DQ_COUNT_INVALID \in Int /\ 0 \in {u \in Int : u <= 1} /\ 0 \in Int /\ 1 \in Int
    BY DEF PIE!DQ_COUNT_INVALID
  <2> QED BY <2>1 DEF PIE!NewPIE, Status
<1> HIDE DEF new
<1>3. PIE!Missed(new, 1) = 0
  <2>1. ~(1 - 1 > t_update)
    BY PIEConstantsOK
  <2> QED BY <1>2, <2>1 DEF PIE!Missed
<1>4. PIE!CalculateDropProb(new, queue.bytes, 1) = new
  <2>1. queue.bytes \in Int
    BY WellBytes
  <2> QED BY <1>2, <1>3, <2>1, CalculateNothing
<1> QED BY <1>1, <1>2, <1>4 DEF PIEInv, Same

\* A clock that does not go back finds the timer's updates and those missed the same.
LEMMA PIETickStep == ASSUME PIEInv, PIE!Tick PROVE PIEInv'
<1> DEFINE b == queue.bytes
<1>1. PICK d \in ClockSteps["pie"] : now' = now + d
  BY DEF PIE!Tick
<1>2. now \in Nat /\ now' \in Nat /\ now <= now' /\ b \in Int
  BY <1>1, PIEConstantsOK, WellBytes DEF PIEInv
<1>3. queue' = queue /\ pie' = pie /\ late' = late
      /\ timer' = PIE!CalculateDropProb(timer, b, now')
  BY DEF PIE!Tick
<1>4. pie' \in Status(now') /\ timer \in Status(now')
  BY <1>2, <1>3, StatusLater DEF PIEInv
<1> HIDE DEF b
<1>5. timer' \in Status(now')
  <2>1. \A t, u \in Int : \A s \in Status(t) : PIE!CalculateDropProb(s, b, u) \in Status(t)
    BY <1>2, CalculateOK
  <2>2. now' \in Int
    BY <1>2
  <2> QED BY <1>3, <1>4, <2>1, <2>2
<1>6. ~late => PIE!CalculateDropProb(pie, b, now') = timer'
  <2> SUFFICES ASSUME ~late PROVE PIE!CalculateDropProb(pie, b, now') = timer'
    OBVIOUS
  <2>1. PIE!CalculateDropProb(pie, b, now) = timer /\ pie \in Status(now)
    BY DEF PIEInv, Same, b
  <2>2. PIE!CalculateDropProb(pie, b, now')
          = PIE!CalculateDropProb(PIE!CalculateDropProb(pie, b, now), b, now')
    BY <1>2, <2>1, CalculateLater
  <2> QED BY <1>3, <2>1, <2>2
<1>7. Same'
  <2>1. Same' <=> (~late' => PIE!CalculateDropProb(pie', queue'.bytes, now') = timer')
    BY DEF Same
  <2> QED BY <1>3, <1>6, <2>1 DEF b
<1>8. Well(queue)'
  BY <1>3 DEF PIEInv, Well
<1> QED BY <1>2, <1>3, <1>4, <1>5, <1>7, <1>8 DEF PIEInv, Status

\* enqueue() makes the updates that the timer has made.
LEMMA PIEEnqueueStep ==
  ASSUME PIEInv, offered \in Nat, NEW size \in Sizes, PIE!Enqueue(size) PROVE PIEInv'
<1> DEFINE b == queue.bytes
<1> DEFINE p == [id |-> offered', size |-> size, arrival |-> now]
<1> DEFINE tail == PIE!Limited!EnqueueTail(queue, p)
<1>1. /\ now' = now /\ timer' = timer /\ late' = late /\ offered' = offered + 1
      /\ pie' = PIE!CalculateDropProb(pie, b, now)
      /\ queue' = queue \/ queue' = tail
  BY DEF PIE!Enqueue
<1>2. now \in Int /\ pie \in Status(now) /\ b \in Int
  BY WellBytes DEF PIEInv
<1>3. Well(queue')
  <2>1. p \in Packet
    BY <1>1, Constants DEF PIEInv, Packet
  <2> HIDE DEF p
  <2>2. Well(tail)
    BY <2>1, LimitedIsLimited, EnqueueWell DEF PIEInv
  <2> HIDE DEF tail
  <2> QED BY <1>1, <2>2 DEF PIEInv
<1>4. Well(queue)'
  BY <1>3 DEF Well
<1> HIDE DEF b
<1>5. pie' \in Status(now) /\ PIE!Missed(pie', now) = 0
  BY <1>1, <1>2, CalculateOK
<1>6. PIE!CalculateDropProb(pie', queue'.bytes, now) = pie'
  <2>1. queue'.bytes \in Int
    BY <1>3, WellBytes
  <2> QED BY <1>2, <1>5, <2>1, CalculateNothing
<1>7. ~late => pie' = timer
  BY <1>1 DEF PIEInv, Same, b
<1>8. Same'
  <2>1. Same' <=> (~late' => PIE!CalculateDropProb(pie', queue'.bytes, now') = timer')
    BY DEF Same
  <2> QED BY <1>1, <1>6, <1>7, <2>1
<1> QED BY <1>1, <1>4, <1>5, <1>8 DEF PIEInv, Status

\* dequeue() makes none, unless it is late.
LEMMA PIEDequeueStep == ASSUME PIEInv, PIE!Dequeue PROVE PIEInv'
<1> DEFINE size == Head(queue.pkts).size
<1> DEFINE left == queue'.bytes
<1> DEFINE m == PIE!Measure(pie, size, left, now)
<1>1. /\ now' = now /\ queue' = CoDel!Limited!Pop(queue) /\ ~CoDel!Limited!Empty(queue)
      /\ pie' = PIE!CalculateDropProb(m, left, now)
      /\ timer' = PIE!Measure(timer, size, left, now)
      /\ late' = (late \/ PIE!Missed(pie, now) > 0)
  BY LimitedIsLimited DEF PIE!Dequeue
<1>2. now \in Int /\ pie \in Status(now) /\ timer \in Status(now) /\ queue.bytes \in Int
  BY WellBytes DEF PIEInv
<1>3. Well(queue')
  BY <1>1, PopWell DEF PIEInv
<1>4. Well(queue)'
  BY <1>3 DEF Well
<1>5. left \in Int /\ size \in Int
  <2>1. left \in Int
    BY <1>3, WellBytes
  <2>2. PICK s \in Seq(Packet), b \in Int : Holds(queue, s, b)
    BY DEF PIEInv, Well
  <2>3. queue.pkts = s /\ s # <<>>
    BY <1>1, <2>2 DEF Holds, CoDel!Limited!Empty
  <2>4. size \in 1..PACKET_SIZE
    BY <2>3, TotalTail
  <2> QED BY <2>1, <2>4, Constants
<1> HIDE DEF size, left
<1>6. m \in Status(now) /\ m.last_update = pie.last_update /\ timer' \in Status(now)
  BY <1>1, <1>2, <1>5, MeasureOK
<1> HIDE DEF m
<1>7. pie' \in Status(now) /\ PIE!Missed(pie', now) = 0
  BY <1>1, <1>2, <1>5, <1>6, CalculateOK
<1>8. PIE!CalculateDropProb(pie', left, now) = pie'
  BY <1>2, <1>5, <1>7, CalculateNothing
<1>9. ~late' => pie' = timer'
  <2> SUFFICES ASSUME ~late' PROVE pie' = timer'
    OBVIOUS
  <2>1. PIE!Missed(pie, now) \in Nat
    BY <1>2, CalculateOK
  <2>2. ~late /\ PIE!Missed(pie, now) = 0
    <3> DEFINE k == PIE!Missed(pie, now)
    <3>1. k \in Nat
      BY <2>1
    <3> HIDE DEF k
    <3>2. late' = (late \/ k > 0)
      BY <1>1 DEF k
    <3>3. ~late /\ ~(k > 0)
      BY <3>2, Zenon
    <3> QED BY <3>1, <3>3 DEF k
  <2>3. PIE!CalculateDropProb(pie, queue.bytes, now) = pie
    BY <1>2, <2>2, CalculateNothing
  <2>4. pie = timer
    BY <2>2, <2>3 DEF PIEInv, Same
  <2>5. PIE!Missed(m, now) = 0
    BY <1>6, <2>2 DEF PIE!Missed
  <2>6. pie' = m
    BY <1>1, <1>2, <1>5, <1>6, <2>5, CalculateNothing
  <2> QED BY <1>1, <2>4, <2>6 DEF m
<1>10. Same'
  <2>1. Same' <=> (~late' => PIE!CalculateDropProb(pie', queue'.bytes, now') = timer')
    BY DEF Same
  <2> QED BY <1>1, <1>8, <1>9, <2>1 DEF left
<1> QED BY <1>1, <1>4, <1>6, <1>7, <1>10 DEF PIEInv, Status

-----------------------------------------------------------------------------
(***************************************************************************)
(* Both, as get_packet_queue makes one or the other.                       *)
(***************************************************************************)
IInv ==
  /\ offered \in Nat
  /\ type = "codel" => CoDelInv
  /\ type = "pie" => PIEInv /\ last_drop.nth = 0

LEMMA Initially == Init => IInv
<1> SUFFICES ASSUME Init PROVE IInv
  OBVIOUS
<1>1. CoDel!Init /\ PIE!Init
  BY DEF Init
<1>2. offered \in Nat /\ last_drop.nth = 0
  BY <1>1 DEF CoDel!Init, CoDel!NoDrop
<1>3. CoDelInv
  BY <1>1, CoDelInitially
<1>4. PIEInv
  BY <1>1, <1>3, PIEInitially DEF CoDelInv
<1> QED BY <1>2, <1>3, <1>4 DEF IInv

LEMMA CoDelStep ==
  ASSUME CoDelInv, offered \in Nat, CoDel!Next
  PROVE  CoDelInv' /\ offered' \in Nat
<1>1. CoDelInv'
  BY TickStep, EnqueueStep, DequeueOneStep, DequeueFirstStep, EnterDroppingStep,
     DropNextStep, DropsOverStep DEF CoDel!Next
<1>2. offered' \in {offered, offered + 1}
  BY DEF CoDel!Next, CoDel!Tick, CoDel!Enqueue, CoDel!DequeueOne, CoDel!DequeueFirst,
         CoDel!EnterDropping, CoDel!DropNext, CoDel!DropsOver, CoDel!Aborts, CoDel!history
<1> QED BY <1>1, <1>2

LEMMA PIEStep ==
  ASSUME PIEInv, offered \in Nat, PIE!Next
  PROVE  PIEInv' /\ offered' \in Nat
<1>1. PIEInv'
  BY PIETickStep, PIEEnqueueStep, PIEDequeueStep DEF PIE!Next
<1>2. offered' \in {offered, offered + 1}
  BY DEF PIE!Next, PIE!Tick, PIE!Enqueue, PIE!Dequeue
<1> QED BY <1>1, <1>2

LEMMA IdleStep == ASSUME IInv, UNCHANGED vars PROVE IInv'
<1>1. /\ UNCHANGED <<type, now, queue, offered, first_above_time, drop_next, count, lastcount,
                     dropping, pc, above_since, last_drop, pie, timer, late>>
  BY DEF vars, codel_vars, pie_vars
<1>2. type = "codel" => CoDelInv'
  <2> SUFFICES ASSUME type = "codel" PROVE CoDelInv'
    OBVIOUS
  <2>1. CoDelInv
    BY DEF IInv
  <2>2. Well(queue)' /\ TimerOK' /\ MayDrop'
    BY <1>1, <2>1 DEF CoDelInv, Well, TimerOK, MayDrop
  <2>3. ScheduleOK' /\ DropOK'
    BY <1>1, <2>1, NoDropStep
  <2> QED BY <2>2, <2>3 DEF CoDelInv
<1>3. type = "pie" => PIEInv'
  BY <1>1 DEF IInv, PIEInv, Well, Status, Same
<1> QED BY <1>1, <1>2, <1>3 DEF IInv

LEMMA Inductive == ASSUME IInv, [Next]_vars PROVE IInv'
<1>1. CASE type = "codel" /\ CoDel!Next /\ UNCHANGED <<type, pie_vars>>
  BY <1>1, CoDelStep DEF IInv
<1>2. CASE type = "pie" /\ PIE!Next /\ UNCHANGED <<type, codel_vars>>
  BY <1>2, PIEStep DEF IInv, codel_vars
<1>3. CASE UNCHANGED vars
  BY <1>3, IdleStep
<1> QED BY <1>1, <1>2, <1>3 DEF Next

LEMMA InvariantHolds == Spec => []IInv
<1>1. Init => IInv
  BY Initially
<1>2. IInv /\ [Next]_vars => IInv'
  BY Inductive
<1> QED BY <1>1, <1>2, PTL DEF Spec

LEMMA TypeKept == Spec => [](type \in {"codel", "pie"})
<1>1. Init => type \in {"codel", "pie"}
  BY DEF Init
<1>2. type \in {"codel", "pie"} /\ [Next]_vars => (type \in {"codel", "pie"})'
  BY DEF Next, vars
<1> QED BY <1>1, <1>2, PTL DEF Spec

LEMMA LastDropOK == IInv /\ type \in {"codel", "pie"} => DropOK
BY DEF IInv, CoDelInv, DropOK, CoDel!DropsUnderPressure, CoDel!DropsOnSchedule,
       CoDel!OnlyPacketIsKept

\* dequeue() discards a packet only after an interval without a break above
\* target (codel_packet_queue.cc:39-51), whatever the packets and the clock,
\* which may be set back.
THEOREM PressureBeforeDrop == Spec => []DropsUnderPressure
<1>1. IInv /\ type \in {"codel", "pie"} => DropsUnderPressure
  BY LastDropOK DEF DropOK, DropsUnderPressure
<1> QED BY <1>1, InvariantHolds, TypeKept, PTL

\* Its drops are never ahead of those of an ideal controller: control_law
\* (codel_packet_queue.cc:56, 79, 89) is applied to the time of the last drop that
\* was due, not to the time it was made.
THEOREM NoDropTooEarly == Spec => []DropsOnSchedule
<1>1. IInv /\ type \in {"codel", "pie"} => DropsOnSchedule
  BY LastDropOK DEF DropOK, DropsOnSchedule
<1> QED BY <1>1, InvariantHolds, TypeKept, PTL

\* A packet alone is never discarded (codel_packet_queue.cc:24-25): more than
\* PACKET_SIZE bytes are at least two packets, as LinkQueue refuses larger ones.
THEOREM LastPacketIsKept == Spec => []OnlyPacketIsKept
<1>1. IInv /\ type \in {"codel", "pie"} => OnlyPacketIsKept
  BY LastDropOK DEF DropOK, OnlyPacketIsKept
<1> QED BY <1>1, InvariantHolds, TypeKept, PTL

\* calculate_drop_prob (pie_packet_queue.cc:126-188) makes up for every period
\* it missed as a timer would have, however many they are, as long as no
\* dequeue() comes after a missed period.
THEOREM MissedUpdatesMadeUp == Spec => []SameAsTimer
<1>1. IInv => SameAsTimer
  BY DEF IInv, PIEInv, Same, SameAsTimer, PIE!SameAsTimer
<1> QED BY <1>1, InvariantHolds, PTL
=============================================================================

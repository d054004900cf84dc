---------------------------- MODULE Ferry_proofs ---------------------------
(***************************************************************************)
(* Proofs about Ferry, whichever queue it has: it never waits busily,      *)
(* keeps the order of its packets, keeps their delays, and ends tidily.    *)
(* Its packets are numbered, so that a packet in the queue is the one read *)
(* under its number; what an AdvDelayQueue has counted, and when each      *)
(* packet is due, are functions of the packets read.                       *)
(***************************************************************************)
EXTENDS Ferry, Sums_proofs, FiniteSetTheorems

Packet == [version : 0..15, proto : 0..255, src : Nat, dst : Nat, sport : Nat, dport : Nat,
           size : Nat, id : Nat, sent : Nat]

Held == [release : Nat, pkt : Packet]

Rule == [fwd_delay : Nat, rev_delay : Nat, fwd_lim : Nat, fwd_alt_delay : Nat, rev_lim : Nat,
         rev_alt_delay : Nat]

(* The queues of each kind.  What a SwitchingLink knows of its switches is not
   looked at: the order and the delays do not depend on it. *)
ADelayQueue == [kind : {"delay"}, delay_ms : Nat, held : Seq(Held)]
AMeterQueue == [kind : {"meter"}, held : Seq(Packet)]
AnIIDLoss == [kind : {"loss"}, loss_rate : Nat, held : Seq(Packet)]
ALinkQueue == [kind : {"link"}, trace : Seq(Nat), held : Seq(Packet), output : Seq(Packet)]

SwitchingLink(q) ==
  /\ q.kind = "onoff"
  /\ q = [kind |-> "onoff", on_times |-> q.on_times, off_times |-> q.off_times,
          link_is_on |-> q.link_is_on, next_switch_time |-> q.next_switch_time,
          held |-> q.held]
  /\ q.held \in Seq(Packet)

Rules(rules) == rules \in [DOMAIN rules -> Rule]

AdvDelayQueue(q) ==
  /\ q.kind = "adv"
  /\ q = [kind |-> "adv", delay_ms |-> q.delay_ms, rules |-> q.rules, uplink |-> q.uplink,
          byte_counters |-> q.byte_counters, pkt_counters |-> q.pkt_counters,
          num_bytes |-> q.num_bytes, held |-> q.held]
  /\ q.delay_ms \in Nat /\ Rules(q.rules) /\ q.uplink \in BOOLEAN
  /\ q.byte_counters \in [Connections(q.rules) -> Nat]
  /\ DOMAIN q.pkt_counters \subseteq Connections(q.rules)
  /\ q.pkt_counters \in [DOMAIN q.pkt_counters -> Nat]
  /\ q.num_bytes \in Nat
  /\ q.held \in SUBSET Held /\ IsFiniteSet(q.held)

Plain(q) == q \in AMeterQueue \/ q \in AnIIDLoss \/ SwitchingLink(q)

FerryQueue(q) == q \in ADelayQueue \/ q \in ALinkQueue \/ AdvDelayQueue(q) \/ Plain(q)

-----------------------------------------------------------------------------
Actions == {"read", "write", "signal", "exit"}

Read == [pkt : Packet, time : Nat, held : BOOLEAN]
Write == [pkt : Packet, time : Nat]

TypeOK ==
  /\ Headers(command.program) \subseteq Header
  /\ side \in Sides
  /\ now \in Nat
  /\ awake \in 0..Slack
  /\ tun \in Seq(Packet)
  /\ signal \in BOOLEAN
  /\ FerryQueue(queue)
  /\ queue.kind = "adv" => queue.uplink = (side = "uplink")
  /\ pc \in {"ask", "interest", "poll", "service", "exited", "threw", "busy"}
  /\ interest \in SUBSET Actions
  /\ events \in SUBSET Actions
  /\ pc = "poll" => {"read", "signal"} \subseteq interest
  /\ pc = "service" /\ "read" \in events => tun # <<>>
  /\ reads \in Seq(Read)
  /\ written \in Seq(Write)

-----------------------------------------------------------------------------
(* Packets are numbered as they arrive. *)

\* The packets of a queue that is none with rules, the next to leave first.
Line(q) ==
  CASE q.kind = "delay" -> [i \in DOMAIN q.held |-> q.held[i].pkt]
    [] q.kind = "link" -> q.output \o q.held
    [] OTHER -> q.held

Queued(q) == IF q.kind = "adv" THEN {h.pkt : h \in q.held} ELSE {Line(q)[i] : i \in DOMAIN Line(q)}

IsReadIn(rs, p) == p.id \in DOMAIN rs /\ rs[p.id].pkt = p

Numbered ==
  /\ \A i \in DOMAIN reads : reads[i].pkt.id = i
  /\ \A j \in DOMAIN tun : tun[j].id = Len(reads) + j

Known ==
  /\ \A p \in Queued(queue) : IsReadIn(reads, p)
  /\ \A k \in DOMAIN written : IsReadIn(reads, written[k].pkt)

Accounted ==
  queue.kind # "link" =>
    \A i \in DOMAIN reads :
      reads[i].held => \/ \E k \in DOMAIN written : written[k].pkt = reads[i].pkt
                       \/ reads[i].pkt \in Queued(queue)

Numbers == Numbered /\ Known /\ Accounted

-----------------------------------------------------------------------------
\* What was pending when the interest was tested is pending when it is serviced.
WriteReady ==
  /\ pc = "poll" /\ "write" \in interest => PendingOutput(queue, now)
  /\ pc = "service" /\ "write" \in events => PendingOutput(queue, now)
  /\ pc # "busy"

-----------------------------------------------------------------------------
(* Order without rules. *)
LineOrdered ==
  queue.kind # "adv" =>
    /\ \A i, j \in DOMAIN Line(queue) : i < j => Line(queue)[i].id < Line(queue)[j].id
    /\ \A k \in DOMAIN written, j \in DOMAIN Line(queue) : written[k].pkt.id < Line(queue)[j].id
    /\ \A i, j \in DOMAIN written : i < j => written[i].pkt.id < written[j].pkt.id

-----------------------------------------------------------------------------
(* When packets are due, as the packets read before them determine it. *)
BytesIn(rs, js) == SumOf([j \in DOMAIN rs |-> IF j \in js THEN rs[j].pkt.size ELSE 0])

SentBefore(q, rs, p) ==
  {j \in 1..(p.id - 1) : /\ CountedPacket(q, rs[j].pkt)
                         /\ Connection(q, rs[j].pkt) = Connection(q, p)}

DelayIn(q, rs, p) ==
  CASE q.kind = "delay" -> q.delay_ms
    [] q.kind = "adv" /\ CountedPacket(q, p) ->
         DelayAfter(q, q.rules[RuleKey(q, p, RemotePort(q, p))], BytesIn(rs, SentBefore(q, rs, p)))
    [] q.kind = "adv" /\ ~CountedPacket(q, p) -> GetDelayFor(q, p)
    [] OTHER -> 0

DueIn(q, rs, p) == rs[p.id].time + DelayIn(q, rs, p)

\* The release times in the queue are those.
Releases ==
  /\ queue.kind = "delay" =>
       /\ \A i \in DOMAIN queue.held : queue.held[i].release = DueIn(queue, reads, queue.held[i].pkt)
       /\ \A i, j \in DOMAIN queue.held : i < j => queue.held[i].release <= queue.held[j].release
       /\ \A i \in DOMAIN queue.held : queue.held[i].release <= now + queue.delay_ms
  /\ queue.kind = "adv" =>
       /\ \A h \in queue.held : h.release = DueIn(queue, reads, h.pkt)

\* The counters of an AdvDelayQueue are those of the packets read.
SentOn(q, rs, c) == {i \in DOMAIN rs : CountedPacket(q, rs[i].pkt) /\ Connection(q, rs[i].pkt) = c}

CountersOf(q, rs) ==
  /\ q.num_bytes = BytesIn(rs, DOMAIN rs)
  /\ \A c \in Connections(q.rules) :
       /\ q.byte_counters[c] = BytesIn(rs, SentOn(q, rs, c))
       /\ IF SentOn(q, rs, c) = {} THEN c \notin DOMAIN q.pkt_counters
          ELSE c \in DOMAIN q.pkt_counters /\ q.pkt_counters[c] = Cardinality(SentOn(q, rs, c))

Counters == queue.kind = "adv" => CountersOf(queue, reads)

\* Order with rules.
AdvOrdered ==
  queue.kind = "adv" =>
    /\ \A i, j \in DOMAIN written : i < j =>
         /\ written[i].pkt.id # written[j].pkt.id
         /\ DueIn(queue, reads, written[i].pkt) <= DueIn(queue, reads, written[j].pkt)
    /\ \A i \in DOMAIN written : DueIn(queue, reads, written[i].pkt) <= written[i].time
    /\ \A i \in DOMAIN written : written[i].time <= now
    /\ \A i \in DOMAIN written, h \in queue.held :
         /\ written[i].pkt.id # h.pkt.id
         /\ DueIn(queue, reads, written[i].pkt) <= h.release

-----------------------------------------------------------------------------
(* Time. *)
TunInTime == \A j \in DOMAIN tun : tun[j].sent <= now /\ now <= tun[j].sent + awake

ReadsInTime ==
  \A i \in DOMAIN reads : /\ reads[i].pkt.sent <= reads[i].time
                          /\ reads[i].time <= reads[i].pkt.sent + Slack
                          /\ reads[i].time <= now

\* The process does not sleep beyond the time a packet of its queue is due: it
\* has asked how long, and the sooner it falls asleep the sooner it wakes up.
InTimeFor(due, t, up, at, ms, end) ==
  /\ t <= due + Slack + up
  /\ at = "interest" => ms \in Nat /\ (ms = 0 \/ t + ms <= due + up)
  /\ at = "poll" => end \in Nat /\ (end <= due + Slack \/ end <= t)

QueueInTime ==
  queue.kind # "link" =>
    \A p \in Queued(queue) : InTimeFor(DueIn(queue, reads, p), now, awake, pc, timeout, deadline)

WrittenInTime ==
  queue.kind # "link" =>
    \A k \in DOMAIN written :
      /\ DueIn(queue, reads, written[k].pkt) <= written[k].time
      /\ written[k].time <= DueIn(queue, reads, written[k].pkt) + 2 * Slack

InTime == TunInTime /\ ReadsInTime /\ QueueInTime /\ WrittenInTime

-----------------------------------------------------------------------------
(* The end. *)
LinkCount == queue.kind = "link" => Len(written) + Len(Line(queue)) = Len(reads)

LinkDone ==
  /\ pc = "poll" /\ "exit" \in interest =>
       Finished(queue) /\ ("write" \in interest \/ queue.output = <<>>)
  /\ pc = "service" /\ "exit" \in events =>
       Finished(queue) /\ ("write" \in events \/ queue.output = <<>>)
  /\ pc = "service" /\ "signal" \in events => signal
  /\ pc = "exited" /\ ~signal => Finished(queue) /\ queue.output = <<>>

SavedOK == pc \in {"exited", "threw"} /\ queue.kind = "adv" => saved = Saved(queue)

TidySoFar == LinkCount /\ LinkDone /\ SavedOK

-----------------------------------------------------------------------------
\* Sequences.
LEMMA SameSeq ==
  ASSUME NEW S, NEW v \in Seq(S), NEW w \in Seq(S), Len(v) = Len(w),
         \A i \in 1..Len(v) : v[i] = w[i]
  PROVE  v = w
OBVIOUS

LEMMA Concatenated ==
  ASSUME NEW S, NEW v \in Seq(S), NEW w \in Seq(S)
  PROVE  /\ v \o w \in Seq(S) /\ Len(v \o w) = Len(v) + Len(w)
         /\ \A i \in 1..(Len(v) + Len(w)) : (v \o w)[i] = IF i <= Len(v) THEN v[i] ELSE w[i - Len(v)]
OBVIOUS

\* The first n of h move to the end of o.
MovesFront(S, o, h, n) ==
  /\ SubSeq(h, 1, n) \in Seq(S) /\ SubSeq(h, n + 1, Len(h)) \in Seq(S)
  /\ o \o SubSeq(h, 1, n) \in Seq(S)
  /\ (o \o SubSeq(h, 1, n)) \o SubSeq(h, n + 1, Len(h)) = o \o h
  /\ o # <<>> => o \o SubSeq(h, 1, n) # <<>>

LEMMA MoveFront ==
  ASSUME NEW S, NEW o \in Seq(S), NEW h \in Seq(S), NEW n \in 0..Len(h)
  PROVE  MovesFront(S, o, h, n)
<1> DEFINE a == SubSeq(h, 1, n)
           b == SubSeq(h, n + 1, Len(h))
<1>1. /\ a \in Seq(S) /\ Len(a) = n /\ \A i \in 1..n : a[i] = h[i]
      /\ b \in Seq(S) /\ Len(b) = Len(h) - n /\ \A i \in 1..(Len(h) - n) : b[i] = h[n + i]
  <2>1. a \in Seq(S) /\ Len(a) = n /\ \A i \in 1..n : a[i] = h[i]
    OBVIOUS
  <2>2. b \in Seq(S) /\ Len(b) = Len(h) - n
    OBVIOUS
  <2>3. \A i \in 1..(Len(h) - n) : b[i] = h[n + i]
    OBVIOUS
  <2> QED BY <2>1, <2>2, <2>3
<1> HIDE DEF a, b
<1> DEFINE c == o \o a
<1>2. c \in Seq(S) /\ Len(c) = Len(o) + n /\ (o # <<>> => c # <<>>)
  <2>1. c \in Seq(S) /\ Len(c) = Len(o) + n
    BY <1>1, Concatenated
  <2>2. o # <<>> => Len(o) > 0 /\ Len(o) \in Nat
    OBVIOUS
  <2>3. c = <<>> => Len(c) = 0
    OBVIOUS
  <2> QED BY <2>1, <2>2, <2>3
<1>3. \A i \in 1..Len(o) : c[i] = o[i]
  BY <1>1
<1>4. \A i \in (Len(o) + 1)..(Len(o) + n) : c[i] = h[i - Len(o)]
  BY <1>1
<1> HIDE DEF c
<1> DEFINE d == c \o b
           e == o \o h
<1>5. d \in Seq(S) /\ Len(d) = Len(o) + Len(h) /\ e \in Seq(S) /\ Len(e) = Len(o) + Len(h)
  <2>1. Len(d) = Len(c) + Len(b) /\ d \in Seq(S)
    BY <1>1, <1>2, Concatenated
  <2>2. e \in Seq(S) /\ Len(e) = Len(o) + Len(h)
    OBVIOUS
  <2>3. Len(o) \in Nat /\ Len(h) \in Nat
    OBVIOUS
  <2> HIDE DEF d, e
  <2> QED BY <1>1, <1>2, <2>1, <2>2, <2>3
<1>6. ASSUME NEW i \in 1..Len(d) PROVE d[i] = e[i]
  <2>0. i \in 1..(Len(o) + Len(h)) /\ Len(o) \in Nat /\ Len(h) \in Nat /\ n \in Nat
    BY <1>5
  <2>4. /\ d[i] = IF i <= Len(o) + n THEN c[i] ELSE b[i - (Len(o) + n)]
        /\ e[i] = IF i <= Len(o) THEN o[i] ELSE h[i - Len(o)]
    <3>1. \A j \in 1..(Len(c) + Len(b)) : d[j] = IF j <= Len(c) THEN c[j] ELSE b[j - Len(c)]
      BY <1>1, <1>2, Concatenated, SMTT(30)
    <3>2. \A j \in 1..(Len(o) + Len(h)) : e[j] = IF j <= Len(o) THEN o[j] ELSE h[j - Len(o)]
      BY Concatenated
    <3>3. Len(c) + Len(b) = Len(o) + Len(h)
      BY <1>1, <1>2, <2>0
    <3> HIDE DEF d, e
    <3> QED BY <1>2, <2>0, <3>1, <3>2, <3>3
  <2> HIDE DEF d, e
  <2>1. CASE i <= Len(o)
    <3>1. d[i] = c[i] /\ e[i] = o[i] /\ i \in 1..Len(o)
      BY <2>0, <2>1, <2>4
    <3> QED BY <1>3, <3>1
  <2>2. CASE i > Len(o) /\ i <= Len(o) + n
    <3>1. d[i] = c[i] /\ e[i] = h[i - Len(o)] /\ i \in (Len(o) + 1)..(Len(o) + n)
      BY <2>0, <2>2, <2>4
    <3> QED BY <1>4, <3>1
  <2>3. CASE i > Len(o) + n
    <3>1. d[i] = b[i - (Len(o) + n)] /\ e[i] = h[i - Len(o)]
      BY <2>0, <2>3, <2>4
    <3>2. i - (Len(o) + n) \in 1..(Len(h) - n) /\ n + (i - (Len(o) + n)) = i - Len(o)
      BY <2>0, <2>3
    <3> QED BY <1>1, <3>1, <3>2
  <2> QED BY <2>0, <2>1, <2>2, <2>3
<1>7. d = e
  <2> HIDE DEF d, e
  <2> QED BY <1>5, <1>6, SameSeq
<1> QED BY <1>1, <1>2, <1>7 DEF a, b, c, MovesFront

LEMMA AppendRight ==
  ASSUME NEW S, NEW o \in Seq(S), NEW h \in Seq(S), NEW x \in S
  PROVE  o \o Append(h, x) = Append(o \o h, x)
<1> DEFINE a == Append(h, x)
           b == o \o h
<1>1. a \in Seq(S) /\ Len(a) = Len(h) + 1 /\ (\A i \in 1..Len(h) : a[i] = h[i]) /\ a[Len(h) + 1] = x
  OBVIOUS
<1>2. b \in Seq(S) /\ Len(b) = Len(o) + Len(h)
  OBVIOUS
<1> DEFINE d == o \o a
           e == Append(b, x)
<1>3. e \in Seq(S) /\ Len(e) = Len(o) + Len(h) + 1 /\ (\A i \in 1..Len(b) : e[i] = b[i]) /\ e[Len(b) + 1] = x
  <2> HIDE DEF b
  <2> QED BY <1>2
<1>4. \A i \in 1..Len(b) : b[i] = IF i <= Len(o) THEN o[i] ELSE h[i - Len(o)]
  OBVIOUS
<1> HIDE DEF a, b
<1>5. d \in Seq(S) /\ Len(d) = Len(o) + Len(h) + 1
  BY <1>1
<1>6. \A i \in 1..Len(d) : d[i] = IF i <= Len(o) THEN o[i] ELSE a[i - Len(o)]
  BY <1>1
<1> HIDE DEF d, e
<1>7. ASSUME NEW i \in 1..Len(d) PROVE d[i] = e[i]
  <2>0. Len(o) \in Nat /\ Len(h) \in Nat /\ i \in 1..(Len(o) + Len(h) + 1)
    BY <1>5
  <2>1. CASE i <= Len(o)
    <3>1. i \in 1..Len(b)
      BY <1>2, <2>0, <2>1
    <3> QED BY <1>3, <1>4, <1>6, <2>1, <3>1
  <2>2. CASE i > Len(o) /\ i <= Len(o) + Len(h)
    <3>1. i \in 1..Len(b) /\ i - Len(o) \in 1..Len(h) /\ ~(i <= Len(o))
      BY <1>2, <2>0, <2>2
    <3> QED BY <1>1, <1>3, <1>4, <1>6, <3>1
  <2>3. CASE i = Len(o) + Len(h) + 1
    <3>1. i - Len(o) = Len(h) + 1 /\ i = Len(b) + 1 /\ ~(i <= Len(o))
      BY <1>2, <2>0, <2>3
    <3> QED BY <1>1, <1>3, <1>6, <3>1
  <2> QED BY <2>0, <2>1, <2>2, <2>3
<1>8. d = e
  BY <1>3, <1>5, <1>7, SameSeq
<1> QED BY <1>8 DEF a, b, d, e

-----------------------------------------------------------------------------
(* What the methods of the queues do. *)
LEMMA Kinds ==
  ASSUME NEW q, FerryQueue(q)
  PROVE  /\ q.kind \in {"delay", "link", "adv", "meter", "loss", "onoff"}
         /\ q.kind = "delay" => q \in ADelayQueue
         /\ q.kind = "link" => q \in ALinkQueue
         /\ q.kind = "adv" => AdvDelayQueue(q)
         /\ q.kind \notin {"delay", "link", "adv"} => Plain(q)
<1>1. CASE q \in ADelayQueue
  BY <1>1 DEF ADelayQueue
<1>2. CASE q \in ALinkQueue
  BY <1>2 DEF ALinkQueue
<1>3. CASE AdvDelayQueue(q)
  <2>1. q.kind = "adv"
    BY <1>3 DEF AdvDelayQueue
  <2> QED BY <1>3, <2>1
<1>4. CASE Plain(q)
  <2>1. q.kind \in {"meter", "loss", "onoff"}
    BY <1>4 DEF Plain, AMeterQueue, AnIIDLoss, SwitchingLink
  <2> QED BY <1>4, <2>1
<1> QED BY <1>1, <1>2, <1>3, <1>4 DEF FerryQueue

SameSettings(q, r) ==
  /\ r.kind = q.kind
  /\ q.kind = "delay" => r.delay_ms = q.delay_ms
  /\ q.kind = "adv" => r.delay_ms = q.delay_ms /\ r.rules = q.rules /\ r.uplink = q.uplink

\* read_packet of a DelayQueue.
LEMMA DelayReads ==
  ASSUME NEW q \in ADelayQueue, NEW p \in Packet, NEW t \in Nat, NEW r \in ReadPacket(q, p, t)
  PROVE  /\ r \in ADelayQueue /\ r.delay_ms = q.delay_ms
         /\ r.held = Append(q.held, [release |-> t + q.delay_ms, pkt |-> p])
<1>1. q.kind = "delay" /\ q.delay_ms \in Nat /\ q.held \in Seq(Held)
  BY DEF ADelayQueue
<1>2. r = [q EXCEPT !.held = Append(q.held, [release |-> t + q.delay_ms, pkt |-> p])]
  BY <1>1 DEF ReadPacket, DelayReadPacket
<1>3. [release |-> t + q.delay_ms, pkt |-> p] \in Held
  BY <1>1 DEF Held
<1>4. Append(q.held, [release |-> t + q.delay_ms, pkt |-> p]) \in Seq(Held)
  BY <1>1, <1>3
<1> QED BY <1>2, <1>4 DEF ADelayQueue

\* read_packet of a queue that does not hold packets back.
LEMMA PlainReads ==
  ASSUME NEW q, Plain(q), NEW p \in Packet, NEW t \in Nat, NEW r \in ReadPacket(q, p, t)
  PROVE  /\ Plain(r) /\ r.kind = q.kind
         /\ r = q \/ r.held = Append(q.held, p)
<1>1. q.kind \in {"meter", "loss", "onoff"} /\ q.held \in Seq(Packet)
  BY DEF Plain, AMeterQueue, AnIIDLoss, SwitchingLink
<1>2. r \in LossReadPacket(q, p, t)
  BY <1>1 DEF ReadPacket
<1>3. r = q \/ r = [q EXCEPT !.held = Append(q.held, p)]
  BY <1>2 DEF LossReadPacket
<1>4. CASE r = q
  BY <1>4
<1>5. CASE r = [q EXCEPT !.held = Append(q.held, p)]
  <2>1. Append(q.held, p) \in Seq(Packet)
    BY <1>1
  <2>2. CASE q \in AMeterQueue
    BY <1>5, <2>1, <2>2 DEF AMeterQueue, Plain
  <2>3. CASE q \in AnIIDLoss
    BY <1>5, <2>1, <2>3 DEF AnIIDLoss, Plain
  <2>4. CASE SwitchingLink(q)
    <3>1. r = [kind |-> "onoff", on_times |-> q.on_times, off_times |-> q.off_times,
               link_is_on |-> q.link_is_on, next_switch_time |-> q.next_switch_time,
               held |-> Append(q.held, p)]
      BY <1>5, <2>4 DEF SwitchingLink
    <3>2. SwitchingLink(r) /\ r.held = Append(q.held, p)
      BY <2>1, <3>1 DEF SwitchingLink
    <3> QED BY <2>4, <3>1, <3>2 DEF Plain, SwitchingLink
  <2> QED BY <2>2, <2>3, <2>4 DEF Plain
<1> QED BY <1>3, <1>4, <1>5

\* rationalize of a LinkQueue moves packets from the queue to the output.
LEMMA LinkRationalizes ==
  ASSUME NEW q \in ALinkQueue, NEW t \in Nat
  PROVE  /\ Rationalize(q, t) \in ALinkQueue
         /\ Line(Rationalize(q, t)) = Line(q)
         /\ q.output # <<>> => Rationalize(q, t).output # <<>>
         /\ q.trace = <<>> => Rationalize(q, t) = q
<1> DEFINE at == {i \in DOMAIN q.trace : q.trace[i] <= t}
           used == Cardinality(at)
           sent == IF used < Len(q.held) THEN used ELSE Len(q.held)
           r == [q EXCEPT !.trace = SubSeq(q.trace, used + 1, Len(q.trace)),
                          !.held = SubSeq(q.held, sent + 1, Len(q.held)),
                          !.output = q.output \o SubSeq(q.held, 1, sent)]
<1>1. q.kind = "link" /\ q.trace \in Seq(Nat) /\ q.held \in Seq(Packet) /\ q.output \in Seq(Packet)
  BY DEF ALinkQueue
<1>2. Rationalize(q, t) = r
  BY DEF Rationalize
<1>3. used \in Nat /\ (q.trace = <<>> => used = 0)
  <2>1. DOMAIN q.trace = 1..Len(q.trace) /\ Len(q.trace) \in Nat
    BY <1>1
  <2>2. IsFiniteSet(1..Len(q.trace))
    BY <2>1, FS_Interval
  <2>3. IsFiniteSet(at)
    BY <2>1, <2>2, FS_Subset
  <2>4. q.trace = <<>> => at = {}
    OBVIOUS
  <2> QED BY <2>3, <2>4, FS_CardinalityType, FS_EmptySet
<1> HIDE DEF at, used
<1>4. sent \in 0..Len(q.held) /\ (used = 0 => sent = 0)
  BY <1>1, <1>3
<1> HIDE DEF sent
<1>5. SubSeq(q.trace, used + 1, Len(q.trace)) \in Seq(Nat)
  BY <1>1, <1>3
<1>6. /\ SubSeq(q.held, sent + 1, Len(q.held)) \in Seq(Packet)
      /\ SubSeq(q.held, 1, sent) \in Seq(Packet)
      /\ q.output \o SubSeq(q.held, 1, sent) \in Seq(Packet)
      /\ (q.output \o SubSeq(q.held, 1, sent)) \o SubSeq(q.held, sent + 1, Len(q.held))
           = q.output \o q.held
      /\ q.output # <<>> => q.output \o SubSeq(q.held, 1, sent) # <<>>
  <2>1. MovesFront(Packet, q.output, q.held, sent)
    BY <1>1, <1>4, MoveFront
  <2> QED BY <2>1 DEF MovesFront
<1>7. r \in ALinkQueue
  BY <1>5, <1>6 DEF ALinkQueue
<1>8. /\ r.kind = "link" /\ r.held = SubSeq(q.held, sent + 1, Len(q.held))
      /\ r.output = q.output \o SubSeq(q.held, 1, sent)
  BY <1>1 DEF ALinkQueue
<1>9. ASSUME q.trace = <<>> PROVE r = q
  <2>1. used = 0 /\ sent = 0
    BY <1>3, <1>4, <1>9
  <2>2. SubSeq(q.trace, used + 1, Len(q.trace)) = q.trace
    BY <1>1, <2>1
  <2>3. SubSeq(q.held, sent + 1, Len(q.held)) = q.held
    BY <1>1, <2>1
  <2>4. q.output \o SubSeq(q.held, 1, sent) = q.output
    BY <1>1, <2>1
  <2> QED BY <2>2, <2>3, <2>4 DEF ALinkQueue
<1>10. Line(r) = r.output \o r.held
  BY <1>8 DEF Line
<1>11. Line(q) = q.output \o q.held
  BY <1>1 DEF Line
<1> HIDE DEF r
<1> QED BY <1>2, <1>6, <1>7, <1>8, <1>9, <1>10, <1>11

LEMMA LinkReads ==
  ASSUME NEW q \in ALinkQueue, NEW p \in Packet, NEW t \in Nat, NEW r \in ReadPacket(q, p, t)
  PROVE  /\ r \in ALinkQueue
         /\ Line(r) = Append(Line(q), p)
         /\ q.output # <<>> => r.output # <<>>
         /\ q.trace = <<>> => r.trace = <<>> /\ r.output = q.output
<1> DEFINE s == Rationalize(q, t)
<1>1. /\ s \in ALinkQueue /\ Line(s) = Line(q)
      /\ q.output # <<>> => s.output # <<>>
      /\ q.trace = <<>> => s = q
  BY LinkRationalizes
<1>2. q.kind = "link"
  BY DEF ALinkQueue
<1>3. r = [s EXCEPT !.held = Append(s.held, p)]
  BY <1>2 DEF ReadPacket, LinkReadPacket
<1> HIDE DEF s
<1>4. s.kind = "link" /\ s.held \in Seq(Packet) /\ s.output \in Seq(Packet)
  BY <1>1 DEF ALinkQueue
<1>5. Append(s.held, p) \in Seq(Packet)
  BY <1>4
<1>6. r \in ALinkQueue /\ r.kind = "link" /\ r.output = s.output /\ r.trace = s.trace /\ r.held = Append(s.held, p)
  BY <1>1, <1>3, <1>5 DEF ALinkQueue
<1>7. Line(s) = s.output \o s.held /\ Line(r) = s.output \o Append(s.held, p)
  BY <1>4, <1>6 DEF Line
<1>8. s.output \o Append(s.held, p) = Append(s.output \o s.held, p)
  <2>1. \A o, h \in Seq(Packet) : \A x \in Packet : o \o Append(h, x) = Append(o \o h, x)
    BY AppendRight
  <2> QED BY <1>4, <2>1
<1> QED BY <1>1, <1>6, <1>7, <1>8

\* The delays of the rules are numbers.
LEMMA DelayIsNat ==
  ASSUME NEW q, AdvDelayQueue(q), NEW p \in Packet
  PROVE  /\ GetDelayFor(q, p) \in Nat
         /\ CountedPacket(q, p) =>
              /\ Connection(q, p) \in Connections(q.rules)
              /\ \A b \in Int : DelayAfter(q, q.rules[RuleKey(q, p, RemotePort(q, p))], b) \in Nat
<1>1. q.delay_ms \in Nat /\ q.byte_counters \in [Connections(q.rules) -> Nat]
  BY DEF AdvDelayQueue
<1>2. \A k \in DOMAIN q.rules : q.rules[k] \in Rule
  BY DEF AdvDelayQueue, Rules
<1>3. \A r \in Rule, b \in Int : DelayAfter(q, r, b) \in Nat /\ BaseDelay(q, r) \in Nat
  BY DEF DelayAfter, BaseDelay, Rule
<1>4. ASSUME CountedPacket(q, p)
      PROVE  /\ Connection(q, p) \in Connections(q.rules)
             /\ RuleKey(q, p, RemotePort(q, p)) \in DOMAIN q.rules
  <2>1. RuleKey(q, p, RemotePort(q, p)) \in DOMAIN q.rules
    BY <1>4 DEF CountedPacket
  <2>2. /\ RuleKey(q, p, RemotePort(q, p))[2] = RemoteAddress(q, p)
        /\ RuleKey(q, p, RemotePort(q, p))[3] = RemotePort(q, p)
    BY DEF RuleKey
  <2> QED BY <2>1, <2>2 DEF Connections, Connection
<1>5. CASE CountedPacket(q, p)
  <2>1. q.byte_counters[Connection(q, p)] \in Int
    BY <1>1, <1>4, <1>5
  <2> QED BY <1>2, <1>3, <1>4, <1>5, <2>1 DEF GetDelayFor
<1>6. CASE ~CountedPacket(q, p)
  <2>1. HasWildcardRule(q, p) => q.rules[RuleKey(q, p, WILDCARD_PORT)] \in Rule
    BY <1>2 DEF HasWildcardRule
  <2>2. RuleKey(q, p, RemotePort(q, p)) \in DOMAIN q.rules
          => q.rules[RuleKey(q, p, RemotePort(q, p))] \in Rule
    BY <1>2
  <2>3. 0 \in Int
    OBVIOUS
  <2>4. \A r \in Rule : BaseDelay(q, r) \in Nat
    BY <1>3, <2>3
  <2> QED BY <1>1, <1>6, <2>1, <2>2, <2>4 DEF GetDelayFor
<1> QED BY <1>5, <1>6

\* read_packet of an AdvDelayQueue.
PacketTaken(q, p, t, r) ==
  /\ AdvDelayQueue(r) /\ SameSettings(q, r)
  /\ r.held = q.held \cup {[release |-> t + GetDelayFor(q, p), pkt |-> p]}
  /\ [release |-> t + GetDelayFor(q, p), pkt |-> p] \in Held
  /\ r.num_bytes = q.num_bytes + p.size
  /\ CountedPacket(q, p) =>
       /\ r.byte_counters = Plus(q.byte_counters, Connection(q, p), p.size)
       /\ r.pkt_counters = Plus(q.pkt_counters, Connection(q, p), 1)
  /\ ~CountedPacket(q, p) =>
       r.byte_counters = q.byte_counters /\ r.pkt_counters = q.pkt_counters

LEMMA AdvReads ==
  ASSUME NEW q, AdvDelayQueue(q), NEW p \in Packet, NEW t \in Nat, NEW r \in ReadPacket(q, p, t)
  PROVE  ~Refuses(q, p) /\ PacketTaken(q, p, t, r)
<1> DEFINE new == [release |-> t + GetDelayFor(q, p), pkt |-> p]
           s == Counted(q, p)
<1>1. q.kind = "adv"
  BY DEF AdvDelayQueue
<1>2. ~Refuses(q, p) /\ r = [s EXCEPT !.num_bytes = s.num_bytes + p.size, !.held = s.held \cup {new}]
  BY <1>1 DEF ReadPacket, AdvReadPacket
<1>3. new \in Held
  BY DelayIsNat DEF Held
<1>4. p.size \in Nat
  BY DEF Packet
<1> HIDE DEF new
<1> DEFINE bytes == IF CountedPacket(q, p) THEN Plus(q.byte_counters, Connection(q, p), p.size)
                    ELSE q.byte_counters
           pkts == IF CountedPacket(q, p) THEN Plus(q.pkt_counters, Connection(q, p), 1)
                   ELSE q.pkt_counters
<1>5. s = [kind |-> "adv", delay_ms |-> q.delay_ms, rules |-> q.rules, uplink |-> q.uplink,
           byte_counters |-> bytes, pkt_counters |-> pkts,
           num_bytes |-> q.num_bytes, held |-> q.held]
  <2>1. CASE CountedPacket(q, p)
    <3> DEFINE b == Plus(q.byte_counters, Connection(q, p), p.size)
               c == Plus(q.pkt_counters, Connection(q, p), 1)
    <3>1. s = [q EXCEPT !.byte_counters = b, !.pkt_counters = c]
      BY <2>1 DEF Counted
    <3>2. bytes = b /\ pkts = c
      BY <2>1
    <3> HIDE DEF b, c, s, bytes, pkts
    <3> QED BY <3>1, <3>2 DEF AdvDelayQueue
  <2>2. CASE ~CountedPacket(q, p)
    <3>1. s = q /\ bytes = q.byte_counters /\ pkts = q.pkt_counters
      BY <2>2 DEF Counted
    <3> HIDE DEF s, bytes, pkts
    <3> QED BY <3>1 DEF AdvDelayQueue
  <2> QED BY <2>1, <2>2
<1>6. /\ bytes \in [Connections(q.rules) -> Nat]
      /\ DOMAIN pkts \subseteq Connections(q.rules)
      /\ pkts \in [DOMAIN pkts -> Nat]
  <2>1. /\ q.byte_counters \in [Connections(q.rules) -> Nat]
        /\ DOMAIN q.pkt_counters \subseteq Connections(q.rules)
        /\ q.pkt_counters \in [DOMAIN q.pkt_counters -> Nat]
    BY DEF AdvDelayQueue
  <2>2. CASE CountedPacket(q, p)
    <3>1. Connection(q, p) \in Connections(q.rules)
      BY <2>2, DelayIsNat
    <3> DEFINE c == Connection(q, p)
    <3> HIDE DEF c
    <3>2. Plus(q.byte_counters, c, p.size) \in [Connections(q.rules) -> Nat]
      BY <1>4, <2>1, <3>1 DEF Plus, c
    <3>3. /\ DOMAIN Plus(q.pkt_counters, c, 1) \subseteq Connections(q.rules)
          /\ Plus(q.pkt_counters, c, 1) \in [DOMAIN Plus(q.pkt_counters, c, 1) -> Nat]
      BY <2>1, <3>1 DEF Plus, c
    <3> QED BY <2>2, <3>2, <3>3 DEF c
  <2>3. CASE ~CountedPacket(q, p)
    BY <2>1, <2>3
  <2> QED BY <2>2, <2>3
<1>7. /\ bytes = IF CountedPacket(q, p) THEN Plus(q.byte_counters, Connection(q, p), p.size)
                 ELSE q.byte_counters
      /\ pkts = IF CountedPacket(q, p) THEN Plus(q.pkt_counters, Connection(q, p), 1)
                ELSE q.pkt_counters
  OBVIOUS
<1> HIDE DEF s, bytes, pkts
<1>8. r = [kind |-> "adv", delay_ms |-> q.delay_ms, rules |-> q.rules, uplink |-> q.uplink,
           byte_counters |-> bytes, pkt_counters |-> pkts,
           num_bytes |-> q.num_bytes + p.size, held |-> q.held \cup {new}]
  BY <1>2, <1>5
<1>9. q.held \cup {new} \in SUBSET Held /\ IsFiniteSet(q.held \cup {new})
  BY <1>3, FS_AddElement DEF AdvDelayQueue
<1>10. /\ r.kind = "adv" /\ r.delay_ms = q.delay_ms /\ r.rules = q.rules /\ r.uplink = q.uplink
       /\ r.byte_counters = bytes /\ r.pkt_counters = pkts
       /\ r.num_bytes = q.num_bytes + p.size /\ r.held = q.held \cup {new}
  BY <1>8
<1>11. q.num_bytes + p.size \in Nat /\ q.delay_ms \in Nat /\ Rules(q.rules) /\ q.uplink \in BOOLEAN
  BY <1>4 DEF AdvDelayQueue
<1>12. AdvDelayQueue(r)
  BY <1>6, <1>8, <1>9, <1>10, <1>11 DEF AdvDelayQueue
<1>13. SameSettings(q, r)
  BY <1>1, <1>10 DEF SameSettings
<1>14. r.held = q.held \cup {new} /\ r.num_bytes = q.num_bytes + p.size
  BY <1>10
<1>15. [release |-> t + GetDelayFor(q, p), pkt |-> p] = new
  BY DEF new
<1> QED BY <1>2, <1>3, <1>7, <1>10, <1>12, <1>13, <1>14, <1>15 DEF PacketTaken

\* Only an AdvDelayQueue refuses a packet.
LEMMA OnlyRulesRefuse ==
  ASSUME NEW q, FerryQueue(q), NEW p \in Packet, NEW t \in Nat, ReadPacket(q, p, t) = {}
  PROVE  q.kind = "adv" /\ Refuses(q, p)
<1>1. CASE q.kind = "delay"
  BY <1>1 DEF ReadPacket, DelayReadPacket
<1>2. CASE q.kind = "link"
  BY <1>2 DEF ReadPacket, LinkReadPacket
<1>3. CASE q.kind = "adv"
  BY <1>3 DEF ReadPacket, AdvReadPacket
<1>4. CASE q.kind \notin {"delay", "link", "adv"}
  <2>1. Plain(q)
    BY <1>4, Kinds
  <2>2. LossReadPacket(q, p, t) = {}
    BY <1>4 DEF ReadPacket
  <2>3. DropPacket(q) = {}
    <3> DEFINE after(drops) == IF drops THEN q ELSE [q EXCEPT !.held = Append(q.held, p)]
    <3>1. LossReadPacket(q, p, t) = {after(drops) : drops \in DropPacket(q)}
      BY Zenon DEF LossReadPacket
    <3> HIDE DEF after
    <3> QED BY <2>2, <3>1
  <2>4. CASE q \in AMeterQueue
    BY <2>3, <2>4 DEF DropPacket, AMeterQueue
  <2>5. CASE q \in AnIIDLoss
    <3>1. q.kind = "loss" /\ q.loss_rate \in Nat
      BY <2>5 DEF AnIIDLoss
    <3>2. q.loss_rate > 0 \/ q.loss_rate < 100
      BY <3>1
    <3>3. TRUE \in DropPacket(q) \/ FALSE \in DropPacket(q)
      BY <3>1, <3>2 DEF DropPacket
    <3> QED BY <2>3, <3>3
  <2>6. CASE SwitchingLink(q)
    BY <2>3, <2>6 DEF DropPacket, SwitchingLink
  <2> QED BY <2>1, <2>4, <2>5, <2>6 DEF Plain
<1> QED BY <1>1, <1>2, <1>3, <1>4

\* write_packets of a DelayQueue: the packets at the head, as far as they are due.
FirstWritten(q, t, w, n) ==
  /\ n \in 0..Len(q.held)
  /\ w.queue \in ADelayQueue /\ w.queue.delay_ms = q.delay_ms
  /\ w.queue.held = SubSeq(q.held, n + 1, Len(q.held))
  /\ w.out = [i \in 1..n |-> q.held[i].pkt]
  /\ \A i \in 1..n : q.held[i].release <= t
  /\ \A m \in 0..Len(q.held) : (\A i \in 1..m : q.held[i].release <= t) => m <= n

LEMMA DelayWrites ==
  ASSUME NEW q \in ADelayQueue, NEW t \in Nat, NEW w \in WritePackets(q, t)
  PROVE  \E n : FirstWritten(q, t, w, n)
<1> DEFINE due == {m \in 0..Len(q.held) : \A i \in 1..m : q.held[i].release <= t}
           n == CHOOSE k \in due : \A j \in due : j <= k
<1>1. q.kind = "delay" /\ q.delay_ms \in Nat /\ q.held \in Seq(Held) /\ Len(q.held) \in Nat
  BY DEF ADelayQueue
<1>2. w = [queue |-> [q EXCEPT !.held = SubSeq(q.held, n + 1, Len(q.held))],
           out |-> [i \in 1..n |-> q.held[i].pkt]]
  BY <1>1 DEF WritePackets, DelayWritePackets
<1>3. n \in due /\ \A j \in due : j <= n
  <2>1. due \subseteq Nat /\ due # {} /\ \A m \in due : m <= Len(q.held)
    <3>1. 0 \in 0..Len(q.held) /\ \A i \in 1..0 : q.held[i].release <= t
      BY <1>1
    <3> QED BY <1>1, <3>1
  <2> HIDE DEF due
  <2>2. \E k \in due : \A j \in due : j <= k
    BY <1>1, <2>1, GreatestElement
  <2> QED BY <2>2
<1>4. n \in 0..Len(q.held) /\ \A i \in 1..n : q.held[i].release <= t
  BY <1>3
<1>5. \A m \in 0..Len(q.held) : (\A i \in 1..m : q.held[i].release <= t) => m <= n
  BY <1>3
<1> HIDE DEF n, due
<1>6. SubSeq(q.held, n + 1, Len(q.held)) \in Seq(Held)
  BY <1>1, <1>4
<1>7. /\ w.queue = [q EXCEPT !.held = SubSeq(q.held, n + 1, Len(q.held))]
      /\ w.out = [i \in 1..n |-> q.held[i].pkt]
  BY <1>2
<1>8. /\ w.queue \in ADelayQueue /\ w.queue.delay_ms = q.delay_ms
      /\ w.queue.held = SubSeq(q.held, n + 1, Len(q.held))
  BY <1>6, <1>7 DEF ADelayQueue
<1> QED BY <1>4, <1>5, <1>7, <1>8 DEF FirstWritten

LEMMA PlainWrites ==
  ASSUME NEW q, Plain(q), NEW t \in Nat, NEW w \in WritePackets(q, t)
  PROVE  /\ Plain(w.queue) /\ w.queue.kind = q.kind
         /\ w.queue.held = <<>> /\ w.out = q.held
<1>1. q.kind \in {"meter", "loss", "onoff"} /\ q.held \in Seq(Packet)
  BY DEF Plain, AMeterQueue, AnIIDLoss, SwitchingLink
<1>2. w.queue = [q EXCEPT !.held = <<>>] /\ w.out = q.held
  BY <1>1 DEF WritePackets, LossWritePackets
<1>3. <<>> \in Seq(Packet)
  OBVIOUS
<1>4. CASE q \in AMeterQueue
  BY <1>2, <1>3, <1>4 DEF AMeterQueue, Plain
<1>5. CASE q \in AnIIDLoss
  BY <1>2, <1>3, <1>5 DEF AnIIDLoss, Plain
<1>6. CASE SwitchingLink(q)
  <2>1. w.queue = [kind |-> "onoff", on_times |-> q.on_times, off_times |-> q.off_times,
                   link_is_on |-> q.link_is_on, next_switch_time |-> q.next_switch_time,
                   held |-> <<>>]
    BY <1>2, <1>6 DEF SwitchingLink
  <2> QED BY <1>2, <1>3, <1>6, <2>1 DEF SwitchingLink, Plain
<1> QED BY <1>4, <1>5, <1>6 DEF Plain

LEMMA LinkWrites ==
  ASSUME NEW q \in ALinkQueue, NEW t \in Nat, NEW w \in WritePackets(q, t)
  PROVE  /\ w.queue \in ALinkQueue
         /\ w.queue.trace = q.trace /\ w.queue.held = q.held /\ w.queue.output = <<>>
         /\ w.out = q.output
<1>1. q.kind = "link"
  BY DEF ALinkQueue
<1>2. w = [queue |-> [q EXCEPT !.output = <<>>], out |-> q.output]
  BY <1>1 DEF WritePackets
<1>3. w.queue = [q EXCEPT !.output = <<>>] /\ w.out = q.output /\ <<>> \in Seq(Packet)
  BY <1>2
<1> QED BY <1>3 DEF ALinkQueue

\* write_packets of an AdvDelayQueue: the packets that are due, in that order.
DueAt(q, t) == {h \in q.held : h.release <= t}

DueRemoved(q, t, r) ==
  /\ AdvDelayQueue(r) /\ SameSettings(q, r)
  /\ r.held = q.held \ DueAt(q, t)
  /\ r.byte_counters = q.byte_counters /\ r.pkt_counters = q.pkt_counters
  /\ r.num_bytes = q.num_bytes

DueInOrder(q, t, out, s) ==
  /\ s \in Seq(DueAt(q, t))
  /\ DueAt(q, t) = {s[i] : i \in DOMAIN s}
  /\ \A i, j \in DOMAIN s : i # j => s[i] # s[j]
  /\ \A i, j \in DOMAIN s : i < j => s[i].release <= s[j].release
  /\ out = [i \in DOMAIN s |-> s[i].pkt]

LEMMA AdvWrites ==
  ASSUME NEW q, AdvDelayQueue(q), NEW t \in Nat, NEW w \in WritePackets(q, t)
  PROVE  DueRemoved(q, t, w.queue) /\ \E s : DueInOrder(q, t, w.out, s)
<1> DEFINE due == {h \in q.held : h.release <= t}
<1>1. q.kind = "adv"
  BY DEF AdvDelayQueue
<1>2. PICK s \in SetToSeqs(due) :
        /\ \A i, j \in DOMAIN s : i < j => s[i].release <= s[j].release
        /\ w = [queue |-> [q EXCEPT !.held = q.held \ due], out |-> [i \in DOMAIN s |-> s[i].pkt]]
  BY <1>1 DEF WritePackets, AdvWritePackets
<1>3. IsFiniteSet(due) /\ due \subseteq q.held /\ q.held \in SUBSET Held /\ IsFiniteSet(q.held)
  BY FS_Subset DEF AdvDelayQueue
<1>4. w.queue = [q EXCEPT !.held = q.held \ due] /\ w.out = [i \in DOMAIN s |-> s[i].pkt]
  BY <1>2
<1>5. q.held \ due \in SUBSET Held /\ IsFiniteSet(q.held \ due)
  BY <1>3, FS_Difference
<1> DEFINE size == Cardinality(due)
<1>6. size \in Nat /\ IsFiniteSet(1..size) /\ Cardinality(1..size) = size
  <2>1. size \in Nat
    BY <1>3, FS_CardinalityType
  <2> HIDE DEF size
  <2>2. /\ IsFiniteSet(1..size)
        /\ Cardinality(1..size) = IF 1 > size THEN 0 ELSE size - 1 + 1
    BY <2>1, FS_Interval
  <2>3. (IF 1 > size THEN 0 ELSE size - 1 + 1) = size
    BY <2>1
  <2> QED BY <2>1, <2>2, <2>3
<1>7. s \in [1..size -> due] /\ \A i, j \in 1..size : i # j => s[i] # s[j]
  BY <1>2 DEF SetToSeqs
<1>8. s \in Injection(1..size, due)
  BY <1>7 DEF Injection, IsInjective
<1>9. s \in Surjection(1..size, due)
  BY <1>3, <1>6, <1>8, FS_Injection
<1>10. due = {s[i] : i \in DOMAIN s}
  BY <1>7, <1>9 DEF Surjection
<1>11. s \in Seq(due) /\ Len(s) = size /\ DOMAIN s = 1..size
  BY <1>6, <1>7
<1> DEFINE rest == q.held \ due
<1>12. w.queue = [q EXCEPT !.held = rest]
  BY <1>4
<1>13. rest \in SUBSET Held /\ IsFiniteSet(rest)
  BY <1>5
<1>14. /\ AdvDelayQueue(w.queue) /\ SameSettings(q, w.queue) /\ w.queue.held = rest
       /\ w.queue.byte_counters = q.byte_counters /\ w.queue.pkt_counters = q.pkt_counters
       /\ w.queue.num_bytes = q.num_bytes
  <2> HIDE DEF rest
  <2>1. w.queue = [kind |-> "adv", delay_ms |-> q.delay_ms, rules |-> q.rules, uplink |-> q.uplink,
                   byte_counters |-> q.byte_counters, pkt_counters |-> q.pkt_counters,
                   num_bytes |-> q.num_bytes, held |-> rest]
    BY <1>12 DEF AdvDelayQueue
  <2> DEFINE r == w.queue
  <2>2. /\ r.kind = "adv" /\ r.delay_ms = q.delay_ms /\ r.rules = q.rules /\ r.uplink = q.uplink
        /\ r.byte_counters = q.byte_counters /\ r.pkt_counters = q.pkt_counters
        /\ r.num_bytes = q.num_bytes /\ r.held = rest
    BY <2>1
  <2> HIDE DEF r
  <2>3. r = [kind |-> "adv", delay_ms |-> q.delay_ms, rules |-> q.rules, uplink |-> q.uplink,
             byte_counters |-> q.byte_counters, pkt_counters |-> q.pkt_counters,
             num_bytes |-> q.num_bytes, held |-> rest]
    BY <2>1 DEF r
  <2>4. AdvDelayQueue(r)
    BY <1>13, <2>2, <2>3 DEF AdvDelayQueue
  <2>5. SameSettings(q, r)
    BY <1>1, <2>2 DEF SameSettings
  <2> QED BY <2>2, <2>4, <2>5 DEF r
<1>15. DueAt(q, t) = due
  BY DEF DueAt
<1> HIDE DEF due
<1>16. DueRemoved(q, t, w.queue)
  BY <1>14, <1>15 DEF DueRemoved
<1>17. DueInOrder(q, t, w.out, s)
  BY <1>2, <1>4, <1>7, <1>10, <1>11, <1>15 DEF DueInOrder
<1> QED BY <1>16, <1>17

\* What is pending, by kind: wait_time of a queue that has packets is not positive.
LEMMA MinOfHeld ==
  ASSUME NEW q, AdvDelayQueue(q), q.held # {}
  PROVE  \E g \in q.held : /\ Min({h.release : h \in q.held}) = g.release
                           /\ \A h \in q.held : g.release <= h.release
<1> DEFINE times == {h.release : h \in q.held}
<1>1. \A h \in q.held : h.release \in Nat
  BY DEF AdvDelayQueue, Held
<1>2. times \subseteq Nat /\ times # {}
  BY <1>1
<1>3. \E n \in times : \A m \in times : n <= m
  <2> HIDE DEF times
  <2> QED BY <1>2, LeastElement
<1>4. Min(times) \in times /\ \A m \in times : Min(times) <= m
  BY <1>3 DEF Min
<1> QED BY <1>4

LEMMA PendingIs ==
  ASSUME NEW q, FerryQueue(q), NEW t \in Nat
  PROVE  /\ q.kind = "delay" =>
              (PendingOutput(q, t) <=> q.held # <<>> /\ q.held[1].release <= t)
         /\ q.kind = "adv" => (PendingOutput(q, t) <=> \E h \in q.held : h.release <= t)
         /\ q.kind = "link" => (PendingOutput(q, t) <=> q.output # <<>>)
         /\ q.kind \notin {"delay", "adv", "link"} => (PendingOutput(q, t) <=> q.held # <<>>)
<1>1. CASE q.kind = "delay"
  <2>1. q.held \in Seq(Held)
    BY <1>1, Kinds DEF ADelayQueue
  <2>2. PendingOutput(q, t) <=> DelayWaitTime(q, t) <= 0
    BY <1>1 DEF PendingOutput, DelayPendingOutput
  <2>3. CASE q.held = <<>>
    BY <1>1, <2>2, <2>3 DEF DelayWaitTime, NoHurry
  <2>4. CASE q.held # <<>>
    <3>1. Head(q.held) = q.held[1] /\ q.held[1] \in Held
      BY <2>1, <2>4
    <3>2. q.held[1].release \in Nat
      BY <3>1 DEF Held
    <3> QED BY <1>1, <2>2, <2>4, <3>1, <3>2 DEF DelayWaitTime, Until
  <2> QED BY <2>3, <2>4
<1>2. CASE q.kind = "adv"
  <2>0. AdvDelayQueue(q)
    BY <1>2, Kinds
  <2>1. \A h \in q.held : h.release \in Nat
    BY <2>0 DEF AdvDelayQueue, Held
  <2>2. PendingOutput(q, t) <=> AdvWaitTime(q, t) <= 0
    BY <1>2 DEF PendingOutput, AdvPendingOutput
  <2>3. CASE q.held = {}
    BY <1>2, <2>2, <2>3 DEF AdvWaitTime, NoHurry
  <2>4. CASE q.held # {}
    <3>1. PICK g \in q.held : /\ Min({h.release : h \in q.held}) = g.release
                              /\ \A h \in q.held : g.release <= h.release
      BY <2>0, <2>4, MinOfHeld
    <3>2. AdvWaitTime(q, t) = Until(g.release, t)
      BY <2>4, <3>1 DEF AdvWaitTime
    <3>3. AdvWaitTime(q, t) <= 0 <=> g.release <= t
      BY <2>1, <3>2 DEF Until
    <3> QED BY <1>2, <2>1, <2>2, <3>1, <3>3
  <2> QED BY <2>3, <2>4
<1>3. CASE q.kind = "link"
  BY <1>3 DEF PendingOutput
<1>4. CASE q.kind \notin {"delay", "adv", "link"}
  BY <1>4 DEF PendingOutput, LossPendingOutput
<1> QED BY <1>1, <1>2, <1>3, <1>4

\* What is pending stays pending as time passes, and when a packet is read.
LEMMA PendingStays ==
  ASSUME NEW q, FerryQueue(q), NEW t \in Nat, PendingOutput(q, t)
  PROVE  /\ PendingOutput(q, t + 1)
         /\ \A p \in Packet : \A r \in ReadPacket(q, p, t) : FerryQueue(r) => PendingOutput(r, t)
<1>1. CASE q.kind = "delay"
  <2>1. q \in ADelayQueue /\ q.held \in Seq(Held)
    BY <1>1, Kinds DEF ADelayQueue
  <2>2. q.held # <<>> /\ q.held[1].release <= t
    BY <1>1, PendingIs
  <2>3. q.held[1].release \in Nat
    <3>1. q.held[1] \in Held
      BY <2>1, <2>2
    <3> QED BY <3>1 DEF Held
  <2>4. q.held[1].release <= t + 1 /\ t + 1 \in Nat
    BY <2>2, <2>3
  <2>5. PendingOutput(q, t + 1)
    BY <1>1, <2>2, <2>4, PendingIs
  <2>6. ASSUME NEW p \in Packet, NEW r \in ReadPacket(q, p, t), FerryQueue(r)
        PROVE  PendingOutput(r, t)
    <3> DEFINE h == [release |-> t + q.delay_ms, pkt |-> p]
    <3>1. r \in ADelayQueue /\ r.held = Append(q.held, h)
      BY <2>1, DelayReads
    <3> HIDE DEF h
    <3>2. r.held # <<>> /\ r.held[1] = q.held[1]
      BY <2>1, <2>2, <3>1
    <3>3. r.kind = "delay"
      BY <3>1 DEF ADelayQueue
    <3> QED BY <2>2, <2>6, <3>2, <3>3, PendingIs
  <2> QED BY <2>5, <2>6
<1>2. CASE q.kind = "adv"
  <2>0. AdvDelayQueue(q)
    BY <1>2, Kinds
  <2>1. PICK h \in q.held : h.release <= t
    BY <1>2, PendingIs
  <2>2. h.release \in Nat
    BY <2>0 DEF AdvDelayQueue, Held
  <2>3. h.release <= t + 1 /\ t + 1 \in Nat
    BY <2>1, <2>2
  <2>4. PendingOutput(q, t + 1)
    BY <1>2, <2>3, PendingIs
  <2>5. ASSUME NEW p \in Packet, NEW r \in ReadPacket(q, p, t), FerryQueue(r)
        PROVE  PendingOutput(r, t)
    <3>0. PacketTaken(q, p, t, r)
      BY <2>0, AdvReads
    <3>1. h \in r.held /\ r.kind = "adv"
      BY <3>0 DEF PacketTaken, AdvDelayQueue
    <3> QED BY <2>1, <2>5, <3>1, PendingIs
  <2> QED BY <2>4, <2>5
<1>3. CASE q.kind = "link"
  <2>1. q \in ALinkQueue /\ q.output # <<>>
    BY <1>3, Kinds, PendingIs
  <2>2. PendingOutput(q, t + 1)
    BY <1>3, <2>1 DEF PendingOutput
  <2>3. ASSUME NEW p \in Packet, NEW r \in ReadPacket(q, p, t), FerryQueue(r)
        PROVE  PendingOutput(r, t)
    <3>1. r \in ALinkQueue /\ r.output # <<>>
      BY <2>1, LinkReads
    <3>2. r.kind = "link"
      BY <3>1 DEF ALinkQueue
    <3> QED BY <3>1, <3>2 DEF PendingOutput
  <2> QED BY <2>2, <2>3
<1>4. CASE q.kind \notin {"delay", "adv", "link"}
  <2>1. Plain(q) /\ q.held # <<>>
    BY <1>4, Kinds, PendingIs
  <2>2. PendingOutput(q, t + 1)
    BY <1>4, <2>1 DEF PendingOutput, LossPendingOutput
  <2>3. ASSUME NEW p \in Packet, NEW r \in ReadPacket(q, p, t), FerryQueue(r)
        PROVE  PendingOutput(r, t)
    <3>1. r.kind = q.kind /\ (r = q \/ r.held = Append(q.held, p))
      BY <2>1, PlainReads
    <3>2. q.held \in Seq(Packet)
      BY <2>1 DEF Plain, AMeterQueue, AnIIDLoss, SwitchingLink
    <3>3. r.held # <<>>
      BY <2>1, <3>1, <3>2
    <3> QED BY <1>4, <3>1, <3>3 DEF PendingOutput, LossPendingOutput
  <2> QED BY <2>2, <2>3
<1> QED BY <1>1, <1>2, <1>3, <1>4

\* What is pending is written.
LEMMA WritesSomething ==
  ASSUME NEW q, FerryQueue(q), NEW t \in Nat, PendingOutput(q, t), NEW w \in WritePackets(q, t)
  PROVE  w.out # <<>>
<1>1. CASE q.kind = "delay"
  <2>1. q \in ADelayQueue /\ q.held \in Seq(Held)
    BY <1>1, Kinds DEF ADelayQueue
  <2>2. q.held # <<>> /\ q.held[1].release <= t
    BY <1>1, PendingIs
  <2>3. PICK n : FirstWritten(q, t, w, n)
    BY <2>1, DelayWrites
  <2>4. 1 \in 0..Len(q.held) /\ \A i \in 1..1 : q.held[i].release <= t
    BY <2>1, <2>2
  <2>5. n \in Nat /\ 1 <= n
    BY <2>1, <2>3, <2>4 DEF FirstWritten
  <2>6. DOMAIN w.out = 1..n /\ 1 \in 1..n
    BY <2>3, <2>5 DEF FirstWritten
  <2>7. DOMAIN w.out # {}
    BY <2>6
  <2> QED BY <2>7
<1>2. CASE q.kind = "adv"
  <2>1. AdvDelayQueue(q) /\ DueAt(q, t) # {}
    BY <1>2, Kinds, PendingIs DEF DueAt
  <2>2. PICK s : DueInOrder(q, t, w.out, s)
    BY <2>1, AdvWrites
  <2>3. DOMAIN w.out = DOMAIN s /\ DOMAIN s # {}
    BY <2>1, <2>2 DEF DueInOrder
  <2> QED BY <2>3
<1>3. CASE q.kind = "link"
  <2>1. q \in ALinkQueue /\ q.output # <<>>
    BY <1>3, Kinds, PendingIs
  <2> QED BY <2>1, LinkWrites
<1>4. CASE q.kind \notin {"delay", "adv", "link"}
  <2>1. Plain(q) /\ q.held # <<>>
    BY <1>4, Kinds, PendingIs
  <2> QED BY <2>1, PlainWrites
<1> QED BY <1>1, <1>2, <1>3, <1>4

-----------------------------------------------------------------------------
(* The same, for a queue of any kind. *)
LEMMA PlainType ==
  ASSUME NEW q, Plain(q)
  PROVE  q.kind \in {"meter", "loss", "onoff"} /\ q.held \in Seq(Packet)
BY DEF Plain, AMeterQueue, AnIIDLoss, SwitchingLink

LEMMA LineType ==
  ASSUME NEW q, FerryQueue(q), q.kind # "adv"
  PROVE  Line(q) \in Seq(Packet)
<1>1. CASE q.kind = "delay"
  <2>1. q.held \in Seq(Held)
    BY <1>1, Kinds DEF ADelayQueue
  <2>2. \A h \in Held : h.pkt \in Packet
    BY DEF Held
  <2>3. [i \in DOMAIN q.held |-> q.held[i].pkt] \in Seq(Packet)
    BY <2>1, <2>2
  <2> QED BY <1>1, <2>3 DEF Line
<1>2. CASE q.kind = "link"
  <2>1. q.held \in Seq(Packet) /\ q.output \in Seq(Packet)
    BY <1>2, Kinds DEF ALinkQueue
  <2>2. q.output \o q.held \in Seq(Packet)
    BY <2>1, Concatenated
  <2> QED BY <1>2, <2>2 DEF Line
<1>3. CASE q.kind \notin {"delay", "link"}
  BY <1>3, Kinds, PlainType DEF Line
<1> QED BY <1>1, <1>2, <1>3

\* read_packet: the queue keeps its kind and takes the packet at the end, or drops it.
LEMMA Reads ==
  ASSUME NEW q, FerryQueue(q), NEW p \in Packet, NEW t \in Nat, NEW r \in ReadPacket(q, p, t)
  PROVE  /\ FerryQueue(r) /\ SameSettings(q, r)
         /\ q.kind # "adv" => \/ Line(r) = Append(Line(q), p)
                              \/ Line(r) = Line(q) /\ r = q
         /\ PendingOutput(q, t) => PendingOutput(r, t)
         /\ Finished(q) => Finished(r) /\ r.output = q.output
<1>1. /\ FerryQueue(r) /\ SameSettings(q, r)
      /\ q.kind # "adv" => \/ Line(r) = Append(Line(q), p)
                           \/ Line(r) = Line(q) /\ r = q
      /\ Finished(q) => Finished(r) /\ r.output = q.output
  <2>1. CASE q.kind = "delay"
    <3> DEFINE h == [release |-> t + q.delay_ms, pkt |-> p]
    <3>1. q \in ADelayQueue /\ q.held \in Seq(Held) /\ q.delay_ms \in Nat
      BY <2>1, Kinds DEF ADelayQueue
    <3>2. r \in ADelayQueue /\ r.delay_ms = q.delay_ms /\ r.held = Append(q.held, h)
      BY <3>1, DelayReads
    <3>3. r.kind = "delay"
      BY <3>2 DEF ADelayQueue
    <3>4. h \in Held /\ h.pkt = p
      BY <3>1 DEF Held
    <3> HIDE DEF h
    <3>5. [i \in DOMAIN r.held |-> r.held[i].pkt] = Append([i \in DOMAIN q.held |-> q.held[i].pkt], p)
      <4> DEFINE a == [i \in DOMAIN r.held |-> r.held[i].pkt]
                 b == [i \in DOMAIN q.held |-> q.held[i].pkt]
      <4>1. /\ Len(r.held) = Len(q.held) + 1 /\ DOMAIN r.held = 1..(Len(q.held) + 1)
            /\ r.held[Len(q.held) + 1] = h /\ \A i \in 1..Len(q.held) : r.held[i] = q.held[i]
        BY <3>1, <3>2, <3>4
      <4>2. /\ \A i \in 1..(Len(q.held) + 1) : a[i] = r.held[i].pkt
            /\ DOMAIN a = 1..(Len(q.held) + 1)
        BY <4>1
      <4>3. Line(r) = a /\ Line(q) = b /\ a \in Seq(Packet) /\ b \in Seq(Packet)
        BY <2>1, <3>1, <3>2, <3>3, LineType DEF FerryQueue, Line
      <4>4. \A i \in 1..Len(q.held) : b[i] = q.held[i].pkt
        BY <3>1
      <4>5. DOMAIN b = 1..Len(q.held) /\ Len(q.held) \in Nat
        BY <3>1
      <4> HIDE DEF a, b
      <4>6. Len(a) = Len(q.held) + 1 /\ Len(b) = Len(q.held)
        BY <4>2, <4>3, <4>5
      <4> DEFINE c == Append(b, p)
      <4>7. c \in Seq(Packet) /\ Len(c) = Len(a) /\ c[Len(q.held) + 1] = p /\ \A i \in 1..Len(q.held) : c[i] = b[i]
        BY <4>3, <4>6
      <4>8. ASSUME NEW i \in 1..Len(a) PROVE a[i] = c[i]
        BY <3>4, <4>1, <4>2, <4>4, <4>5, <4>6, <4>7
      <4> HIDE DEF c
      <4>9. a = c
        BY <4>3, <4>7, <4>8, SameSeq
      <4> QED BY <4>9 DEF a, b, c
    <3> QED BY <2>1, <3>2, <3>3, <3>5 DEF FerryQueue, SameSettings, Line, Finished
  <2>2. CASE q.kind = "link"
    <3>1. q \in ALinkQueue
      BY <2>2, Kinds
    <3>2. /\ r \in ALinkQueue /\ Line(r) = Append(Line(q), p)
          /\ q.trace = <<>> => r.trace = <<>> /\ r.output = q.output
      BY <3>1, LinkReads
    <3>3. r.kind = "link"
      BY <3>2 DEF ALinkQueue
    <3> QED BY <2>2, <3>2, <3>3 DEF FerryQueue, SameSettings, Finished
  <2>3. CASE q.kind = "adv"
    <3>1. AdvDelayQueue(q)
      BY <2>3, Kinds
    <3>2. PacketTaken(q, p, t, r)
      BY <3>1, AdvReads
    <3> QED BY <2>3, <3>2 DEF PacketTaken, FerryQueue, Finished
  <2>4. CASE q.kind \notin {"delay", "link", "adv"}
    <3>1. Plain(q)
      BY <2>4, Kinds
    <3>2. Plain(r) /\ r.kind = q.kind /\ (r = q \/ r.held = Append(q.held, p))
      BY <3>1, PlainReads
    <3>3. Line(q) = q.held /\ Line(r) = r.held
      BY <2>4, <3>2 DEF Line
    <3> QED BY <2>4, <3>2, <3>3 DEF FerryQueue, SameSettings, Finished
  <2> QED BY <2>1, <2>2, <2>3, <2>4
<1>2. PendingOutput(q, t) => PendingOutput(r, t)
  BY <1>1, PendingStays
<1> QED BY <1>1, <1>2

\* write_packets: packets leave from the head of the line.
LEMMA Writes ==
  ASSUME NEW q, FerryQueue(q), NEW t \in Nat, NEW w \in WritePackets(q, t)
  PROVE  /\ FerryQueue(w.queue) /\ SameSettings(q, w.queue)
         /\ w.out \in Seq(Packet)
         /\ q.kind # "adv" => \E n \in 0..Len(Line(q)) :
              /\ w.out = SubSeq(Line(q), 1, n)
              /\ Line(w.queue) = SubSeq(Line(q), n + 1, Len(Line(q)))
         /\ Finished(q) => Finished(w.queue) /\ w.queue.output = <<>>
<1>1. CASE q.kind = "delay"
  <2>1. q \in ADelayQueue /\ q.held \in Seq(Held) /\ q.delay_ms \in Nat
    BY <1>1, Kinds DEF ADelayQueue
  <2>2. PICK n : FirstWritten(q, t, w, n)
    BY <2>1, DelayWrites
  <2>3. /\ n \in 0..Len(q.held) /\ w.queue \in ADelayQueue /\ w.queue.delay_ms = q.delay_ms
        /\ w.queue.held = SubSeq(q.held, n + 1, Len(q.held))
        /\ w.out = [i \in 1..n |-> q.held[i].pkt]
    BY <2>2 DEF FirstWritten
  <2>4. w.queue.kind = "delay"
    BY <2>3 DEF ADelayQueue
  <2>5. Line(q) = [i \in DOMAIN q.held |-> q.held[i].pkt] /\ Line(q) \in Seq(Packet)
    BY <1>1, LineType DEF Line
  <2>6. Line(w.queue) = [i \in DOMAIN w.queue.held |-> w.queue.held[i].pkt]
    BY <2>4 DEF Line
  <2>7. Len(Line(q)) = Len(q.held) /\ \A i \in 1..Len(q.held) : Line(q)[i] = q.held[i].pkt
    BY <2>1, <2>5
  <2> DEFINE a == SubSeq(Line(q), 1, n)
             b == SubSeq(Line(q), n + 1, Len(Line(q)))
             c == SubSeq(q.held, n + 1, Len(q.held))
             d == [i \in DOMAIN c |-> c[i].pkt]
  <2>8. a \in Seq(Packet) /\ Len(a) = n /\ (\A i \in 1..n : a[i] = Line(q)[i])
    BY <2>3, <2>5, <2>7
  <2>9. /\ b \in Seq(Packet) /\ Len(b) = Len(q.held) - n
        /\ \A i \in 1..(Len(q.held) - n) : b[i] = Line(q)[n + i]
    BY <2>3, <2>5, <2>7
  <2>10. Len(c) = Len(q.held) - n /\ c \in Seq(Held) /\ \A i \in 1..(Len(q.held) - n) : c[i] = q.held[n + i]
    BY <2>1, <2>3
  <2>11. n \in Nat /\ Len(q.held) \in Nat /\ n <= Len(q.held)
    BY <2>1, <2>3
  <2> HIDE DEF a, b, c
  <2>12. w.out = a
    <3>1. DOMAIN w.out = 1..n /\ DOMAIN a = 1..n
      BY <2>3, <2>8
    <3>2. \A i \in 1..n : w.out[i] = a[i]
      BY <2>3, <2>7, <2>8, <2>11
    <3>3. a = [i \in 1..n |-> a[i]] /\ w.out = [i \in 1..n |-> w.out[i]]
      BY <2>3, <2>8
    <3> QED BY <3>2, <3>3
  <2>13. d = b
    <3>1. DOMAIN c = 1..(Len(q.held) - n) /\ DOMAIN b = 1..(Len(q.held) - n)
      BY <2>9, <2>10
    <3>2. \A i \in 1..(Len(q.held) - n) : n + i \in 1..Len(q.held)
      BY <2>11
    <3>3. \A i \in 1..(Len(q.held) - n) : c[i].pkt = b[i]
      BY <2>7, <2>9, <2>10, <3>2
    <3>4. b = [i \in 1..(Len(q.held) - n) |-> b[i]]
      BY <2>9
    <3> QED BY <3>1, <3>3, <3>4
  <2>14. Line(w.queue) = b
    BY <2>3, <2>6, <2>13 DEF c
  <2>15. n \in 0..Len(Line(q)) /\ w.out \in Seq(Packet)
    BY <2>3, <2>7, <2>8, <2>12
  <2> QED BY <1>1, <2>3, <2>4, <2>12, <2>14, <2>15 DEF a, b, FerryQueue, SameSettings, Finished
<1>2. CASE q.kind = "link"
  <2>1. q \in ALinkQueue /\ q.held \in Seq(Packet) /\ q.output \in Seq(Packet)
    BY <1>2, Kinds DEF ALinkQueue
  <2>2. /\ w.queue \in ALinkQueue /\ w.queue.trace = q.trace /\ w.queue.held = q.held
        /\ w.queue.output = <<>> /\ w.out = q.output
    BY <2>1, LinkWrites
  <2>3. w.queue.kind = "link"
    BY <2>2 DEF ALinkQueue
  <2>4. Line(q) = q.output \o q.held /\ Line(w.queue) = <<>> \o q.held
    BY <1>2, <2>2, <2>3 DEF Line
  <2>5. Line(w.queue) = q.held
    BY <2>1, <2>4
  <2> DEFINE o == q.output
             h == q.held
             l == o \o h
             n == Len(o)
  <2>6. /\ l \in Seq(Packet) /\ Len(l) = Len(o) + Len(h)
        /\ \A i \in 1..(Len(o) + Len(h)) : l[i] = IF i <= Len(o) THEN o[i] ELSE h[i - Len(o)]
    BY <2>1, Concatenated
  <2>7. n \in Nat /\ Len(h) \in Nat /\ o \in Seq(Packet) /\ h \in Seq(Packet) /\ n = Len(o)
    BY <2>1
  <2>8. l = Line(q) /\ w.out = o /\ Line(w.queue) = h
    BY <2>2, <2>4, <2>5
  <2> HIDE DEF l, o, h, n
  <2>9. SubSeq(l, 1, n) = o
    <3> DEFINE a == SubSeq(l, 1, n)
    <3>1. a \in Seq(Packet) /\ Len(a) = n /\ \A i \in 1..n : a[i] = l[i]
      BY <2>6, <2>7
    <3>2. \A i \in 1..n : l[i] = o[i]
      BY <2>6, <2>7
    <3> HIDE DEF a
    <3>3. a = o
      BY <2>7, <3>1, <3>2, SameSeq
    <3> QED BY <3>3 DEF a
  <2>10. SubSeq(l, n + 1, Len(l)) = h
    <3> DEFINE a == SubSeq(l, n + 1, Len(l))
    <3>1. a \in Seq(Packet) /\ Len(a) = Len(h) /\ \A i \in 1..Len(h) : a[i] = l[n + i]
      BY <2>6, <2>7
    <3>2. \A i \in 1..Len(h) : l[n + i] = h[i]
      <4> TAKE i \in 1..Len(h)
      <4>1. n + i \in 1..(Len(o) + Len(h)) /\ ~(n + i <= Len(o)) /\ (n + i) - Len(o) = i
        BY <2>7
      <4> QED BY <2>6, <4>1
    <3> HIDE DEF a
    <3>3. a = h
      BY <2>7, <3>1, <3>2, SameSeq
    <3> QED BY <3>3 DEF a
  <2>11. n \in 0..Len(Line(q))
    BY <2>6, <2>7, <2>8
  <2>12. w.out = SubSeq(Line(q), 1, n) /\ Line(w.queue) = SubSeq(Line(q), n + 1, Len(Line(q)))
    BY <2>8, <2>9, <2>10
  <2>13. w.out \in Seq(Packet)
    BY <2>7, <2>8
  <2> QED BY <1>2, <2>2, <2>3, <2>11, <2>12, <2>13 DEF FerryQueue, SameSettings, Finished
<1>3. CASE q.kind = "adv"
  <2>1. AdvDelayQueue(q)
    BY <1>3, Kinds
  <2>2. DueRemoved(q, t, w.queue)
    BY <2>1, AdvWrites
  <2>3. PICK s : DueInOrder(q, t, w.out, s)
    BY <2>1, AdvWrites
  <2>4. DueAt(q, t) \subseteq Held /\ \A h \in Held : h.pkt \in Packet
    BY <2>1 DEF AdvDelayQueue, DueAt, Held
  <2>5. s \in Seq(Held) /\ w.out = [i \in DOMAIN s |-> s[i].pkt]
    BY <2>3, <2>4 DEF DueInOrder
  <2>6. w.out \in Seq(Packet)
    BY <2>4, <2>5
  <2> QED BY <1>3, <2>2, <2>6 DEF DueRemoved, FerryQueue, Finished
<1>4. CASE q.kind \notin {"delay", "link", "adv"}
  <2>1. Plain(q) /\ q.held \in Seq(Packet)
    BY <1>4, Kinds, PlainType
  <2>2. Plain(w.queue) /\ w.queue.kind = q.kind /\ w.queue.held = <<>> /\ w.out = q.held
    BY <2>1, PlainWrites
  <2>3. Line(q) = q.held /\ Line(w.queue) = <<>>
    BY <1>4, <2>2 DEF Line
  <2>4. SubSeq(q.held, 1, Len(q.held)) = q.held /\ SubSeq(q.held, Len(q.held) + 1, Len(q.held)) = <<>>
    BY <2>1
  <2>5. Len(q.held) \in 0..Len(q.held)
    BY <2>1
  <2> QED BY <1>4, <2>1, <2>2, <2>3, <2>4, <2>5 DEF FerryQueue, SameSettings, Finished
<1> QED BY <1>1, <1>2, <1>3, <1>4

\* wait_time: what is in the queue stays, and the wait is not longer than it may be.
LEMMA Waits ==
  ASSUME NEW q, FerryQueue(q), NEW t \in Nat, NEW w \in WaitTime(q, t)
  PROVE  /\ FerryQueue(w.queue) /\ SameSettings(q, w.queue)
         /\ q.kind # "adv" => Line(w.queue) = Line(q)
         /\ q.kind \in {"adv", "delay"} => w.queue = q
         /\ q.kind = "delay" /\ q.held # <<>> => w.ms = Until(q.held[1].release, t)
         /\ q.kind = "adv" /\ q.held # {} =>
              \E g \in q.held : /\ w.ms = Until(g.release, t)
                                /\ \A h \in q.held : g.release <= h.release
         /\ q.kind \notin {"delay", "link", "adv"} =>
              w.queue.held = q.held /\ (q.held # <<>> => w.ms = 0)
<1>1. CASE q.kind = "delay"
  <2>1. w.queue = q /\ w.ms = DelayWaitTime(q, t)
    BY <1>1 DEF WaitTime
  <2>2. q.held # <<>> => w.ms = Until(q.held[1].release, t)
    BY <2>1 DEF DelayWaitTime
  <2> QED BY <1>1, <2>1, <2>2 DEF SameSettings
<1>2. CASE q.kind = "link"
  <2>1. q \in ALinkQueue
    BY <1>2, Kinds
  <2>2. w.queue = Rationalize(q, t)
    BY <1>2 DEF WaitTime, LinkWaitTime
  <2>3. w.queue \in ALinkQueue /\ Line(w.queue) = Line(q)
    BY <2>1, <2>2, LinkRationalizes
  <2>4. w.queue.kind = "link"
    BY <2>3 DEF ALinkQueue
  <2> QED BY <1>2, <2>3, <2>4 DEF SameSettings, FerryQueue
<1>3. CASE q.kind = "adv"
  <2>1. AdvDelayQueue(q)
    BY <1>3, Kinds
  <2>2. w.queue = q /\ w.ms = AdvWaitTime(q, t)
    BY <1>3 DEF WaitTime
  <2>3. ASSUME q.held # {}
        PROVE  \E g \in q.held : /\ w.ms = Until(g.release, t)
                                 /\ \A h \in q.held : g.release <= h.release
    <3>1. PICK g \in q.held : /\ Min({h.release : h \in q.held}) = g.release
                              /\ \A h \in q.held : g.release <= h.release
      BY <2>1, <2>3, MinOfHeld
    <3> QED BY <2>2, <2>3, <3>1 DEF AdvWaitTime
  <2> QED BY <1>3, <2>2, <2>3 DEF SameSettings
<1>4. CASE q.kind \notin {"delay", "link", "adv"}
  <2>1. Plain(q) /\ q.held \in Seq(Packet)
    BY <1>4, Kinds, PlainType
  <2>2. CASE q.kind = "onoff"
    <3>1. w \in SwitchingWaitTime(q, t)
      BY <2>2 DEF WaitTime
    <3>2. PICK s \in Switch(q, t) :
            /\ w.queue = s.queue
            /\ w.ms = IF LossWaitTime(s.queue) = 0 THEN 0
                      ELSE IF s.queue.next_switch_time - t > NoHurry THEN NoHurry
                      ELSE s.queue.next_switch_time - t
      BY <3>1 DEF SwitchingWaitTime
    <3>3. \/ s.queue = q
          \/ \E on, next : s.queue = [q EXCEPT !.link_is_on = on, !.next_switch_time = next]
      <4>1. CASE q.next_switch_time > t
        <5>1. Switch(q, t) = {[queue |-> q, toggles |-> <<>>]}
          BY <4>1, Zenon DEF Switch
        <5>2. s.queue = q
          BY <3>2, <5>1
        <5> QED BY <5>2, Zenon
      <4>2. CASE ~(q.next_switch_time > t)
        <5> DEFINE switched(r) == [q EXCEPT !.link_is_on = r.on, !.next_switch_time = r.next]
        <5>1. Switch(q, t) = {[queue |-> switched(r), toggles |-> r.toggles] : r \in Switches(q, t)}
          BY <4>2, Zenon DEF Switch
        <5>2. \E r : s.queue = switched(r)
          <6> HIDE DEF switched
          <6> QED BY <3>2, <5>1
        <5> QED BY <5>2, Zenon
      <4> QED BY <4>1, <4>2
    <3>4. SwitchingLink(q)
      BY <2>1, <2>2 DEF Plain, AMeterQueue, AnIIDLoss
    <3>5. SwitchingLink(s.queue) /\ s.queue.held = q.held /\ s.queue.kind = "onoff"
      <4>1. CASE s.queue = q
        BY <2>2, <3>4, <4>1
      <4>2. ASSUME NEW on, NEW next, s.queue = [q EXCEPT !.link_is_on = on, !.next_switch_time = next]
            PROVE  SwitchingLink(s.queue) /\ s.queue.held = q.held /\ s.queue.kind = "onoff"
        <5>1. s.queue = [kind |-> "onoff", on_times |-> q.on_times, off_times |-> q.off_times,
                         link_is_on |-> on, next_switch_time |-> next, held |-> q.held]
          BY <3>4, <4>2 DEF SwitchingLink
        <5> QED BY <2>1, <5>1 DEF SwitchingLink
      <4> QED BY <3>3, <4>1, <4>2
    <3>6. q.held # <<>> => w.ms = 0
      BY <3>2, <3>5 DEF LossWaitTime
    <3>7. Line(w.queue) = Line(q)
      BY <2>2, <3>2, <3>5 DEF Line
    <3> QED BY <1>4, <2>2, <3>2, <3>5, <3>6, <3>7 DEF SameSettings, FerryQueue, Plain
  <2>3. CASE q.kind # "onoff"
    <3>1. w.queue = q /\ w.ms = LossWaitTime(q)
      BY <1>4, <2>3 DEF WaitTime
    <3> QED BY <1>4, <3>1 DEF LossWaitTime, SameSettings
  <2> QED BY <2>2, <2>3
<1> QED BY <1>1, <1>2, <1>3, <1>4

-----------------------------------------------------------------------------
(* Type correctness. *)
LEMMA NoPackets == <<>> \in Seq(Packet) /\ <<>> \in Seq(Held) /\ <<>> \in Seq(Read) /\ <<>> \in Seq(Write)
OBVIOUS

\* The rules of a file whose lines are not refused.
LEMMA RulesParsed ==
  ASSUME NEW lines \in Seq(Seq(Nat)), \A i \in DOMAIN lines : ValidLine(lines[i])
  PROVE  Rules(ParseRules(lines))
<1> DEFINE last(k) == Max({i \in DOMAIN lines : Key(lines[i]) = k})
<1>1. ASSUME NEW l \in Seq(Nat), ValidLine(l)
      PROVE  RuleOf(l) \in Rule
  <2>1. Len(l) \in 5..9
    BY <1>1 DEF ValidLine
  <2>2. l[4] \in Nat /\ l[5] \in Nat
    BY <2>1
  <2>3. Len(l) >= 7 => l[6] \in Nat /\ l[7] \in Nat
    BY <2>1
  <2>4. MAX_LIM \in Nat
    BY FerryAssumption
  <2>5. Len(l) = 9 => l[6] \in Nat /\ l[7] \in Nat
    BY <2>1, <2>3
  <2> QED BY <2>2, <2>3, <2>4, <2>5 DEF RuleOf, Rule
<1>2. ASSUME NEW k \in {Key(lines[i]) : i \in DOMAIN lines}
      PROVE  last(k) \in DOMAIN lines
  <2> DEFINE T == {i \in DOMAIN lines : Key(lines[i]) = k}
  <2>1. T \subseteq Nat /\ T # {} /\ \A m \in T : m <= Len(lines)
    BY <1>2
  <2>2. Len(lines) \in Nat
    OBVIOUS
  <2> HIDE DEF T
  <2>3. PICK n \in T : \A m \in T : m <= n
    BY <2>1, <2>2, GreatestElement
  <2>4. \A m \in T : n >= m
    BY <2>1, <2>3
  <2>5. Max(T) \in T
    BY <2>3, <2>4 DEF Max
  <2>6. T \subseteq DOMAIN lines
    BY DEF T
  <2> QED BY <2>5, <2>6 DEF T
<1>3. \A k \in {Key(lines[i]) : i \in DOMAIN lines} : RuleOf(lines[last(k)]) \in Rule
  <2> TAKE k \in {Key(lines[i]) : i \in DOMAIN lines}
  <2>1. last(k) \in DOMAIN lines
    BY <1>2
  <2> HIDE DEF last
  <2>2. lines[last(k)] \in Seq(Nat) /\ ValidLine(lines[last(k)])
    BY <2>1
  <2> QED BY <1>1, <2>2
<1>4. ParseRules(lines) = [k \in {Key(lines[i]) : i \in DOMAIN lines} |-> RuleOf(lines[last(k)])]
  BY DEF ParseRules
<1> HIDE DEF last
<1> QED BY <1>3, <1>4 DEF Rules

LEMMA NewQueueType ==
  ASSUME NEW cmd \in Commands, Legal(cmd), NEW s \in Sides
  PROVE  LET q == NewQueue(cmd, s) IN
         /\ FerryQueue(q)
         /\ q.kind = "adv" => /\ q.uplink = (s = "uplink") /\ q.held = {} /\ q.num_bytes = 0
                              /\ q.byte_counters = [c \in Connections(q.rules) |-> 0]
                              /\ q.pkt_counters = <<>>
         /\ q.kind # "adv" => q.held = <<>>
         /\ q.kind = "link" => q.output = <<>>
<1> DEFINE q == NewQueue(cmd, s)
<1>1. CASE cmd \in [program : {"mm-delay"}, delay_ms : Nat]
  <2>1. q = [kind |-> "delay", delay_ms |-> cmd.delay_ms, held |-> <<>>]
    BY <1>1 DEF NewQueue, DelayShell, NewDelayQueue
  <2>2. q \in ADelayQueue /\ q.kind = "delay" /\ q.held = <<>>
    BY <1>1, <2>1, NoPackets DEF ADelayQueue
  <2> HIDE DEF q
  <2> QED BY <2>2 DEF FerryQueue, q
<1>2. CASE cmd \in [program : {"mm-meter"}]
  <2>1. q = [kind |-> "meter", held |-> <<>>]
    BY <1>2 DEF NewQueue, NewMeterQueue
  <2>2. q \in AMeterQueue /\ q.kind = "meter" /\ q.held = <<>>
    BY <2>1, NoPackets DEF AMeterQueue
  <2> HIDE DEF q
  <2> QED BY <2>2 DEF FerryQueue, Plain, q
<1>3. CASE cmd \in [program : {"mm-link"}, trace : Seq(Nat)]
  <2>1. q = [kind |-> "link", trace |-> cmd.trace, held |-> <<>>, output |-> <<>>]
    BY <1>3 DEF NewQueue, NewLinkQueue
  <2>2. q \in ALinkQueue /\ q.kind = "link" /\ q.held = <<>> /\ q.output = <<>>
    BY <1>3, <2>1, NoPackets DEF ALinkQueue
  <2> HIDE DEF q
  <2> QED BY <2>2 DEF FerryQueue, q
<1>4. CASE cmd \in [program : {"mm-loss"}, link : Sides, loss_rate : Nat]
  <2> DEFINE rate == IF s = cmd.link THEN cmd.loss_rate ELSE 0
  <2>0. rate \in Nat
    BY <1>4
  <2>1. q = [kind |-> "loss", loss_rate |-> rate, held |-> <<>>]
    BY <1>4 DEF NewQueue, LossShell, NewIIDLoss
  <2> HIDE DEF rate
  <2>2. q \in AnIIDLoss /\ q.kind = "loss" /\ q.held = <<>>
    BY <2>0, <2>1, NoPackets DEF AnIIDLoss
  <2> HIDE DEF q
  <2> QED BY <2>2 DEF FerryQueue, Plain, q
<1>5. CASE cmd \in [program : {"mm-onoff"}, link : Sides, on_times : SUBSET Nat, off_times : SUBSET Nat]
  <2>1. \E a, b, c : q = NewSwitchingLink(a, b, c)
    BY <1>5 DEF NewQueue, OnOffShell
  <2>2. PICK a, b, c : q = NewSwitchingLink(a, b, c)
    BY <2>1
  <2>3. q = [kind |-> "onoff", on_times |-> a, off_times |-> b, link_is_on |-> FALSE,
             next_switch_time |-> c, held |-> <<>>]
    BY <2>2 DEF NewSwitchingLink
  <2> HIDE DEF q
  <2>4. SwitchingLink(q) /\ q.kind = "onoff" /\ q.held = <<>>
    BY <2>3, NoPackets DEF SwitchingLink
  <2> QED BY <2>4 DEF FerryQueue, Plain, q
<1>6. CASE cmd \in [program : {"mm-adv-delay"}, delay_ms : Nat, lines : Seq(Seq(Nat))]
  <2> DEFINE rules == ParseRules(cmd.lines)
             zero == [c \in Connections(rules) |-> 0]
             up == s = "uplink"
  <2>0. cmd.program = "mm-adv-delay" /\ cmd.delay_ms \in Nat /\ cmd.lines \in Seq(Seq(Nat))
    BY <1>6
  <2>1. \A i \in DOMAIN cmd.lines : ValidLine(cmd.lines[i])
    BY <2>0 DEF Legal, AdvDelayShellLegal
  <2>2. Rules(rules)
    BY <2>0, <2>1, RulesParsed
  <2>3. zero \in [Connections(rules) -> Nat]
    OBVIOUS
  <2>4. q = [kind |-> "adv", delay_ms |-> cmd.delay_ms, rules |-> rules, uplink |-> up,
             byte_counters |-> zero, pkt_counters |-> <<>>, num_bytes |-> 0, held |-> {}]
    BY <2>0 DEF NewQueue, AdvDelayShell, NewAdvDelayQueue
  <2>5. up \in BOOLEAN
    OBVIOUS
  <2> HIDE DEF q, rules, up
  <2>6. /\ q.kind = "adv" /\ q.delay_ms = cmd.delay_ms /\ q.rules = rules /\ q.uplink = up
        /\ q.byte_counters = zero /\ q.pkt_counters = <<>> /\ q.num_bytes = 0 /\ q.held = {}
    BY <2>4
  <2> HIDE DEF zero
  <2>7. DOMAIN <<>> = {} /\ <<>> \in [{} -> Nat] /\ IsFiniteSet({})
    BY FS_EmptySet
  <2>8. AdvDelayQueue(q)
    BY <2>0, <2>2, <2>3, <2>4, <2>5, <2>6, <2>7 DEF AdvDelayQueue
  <2> QED BY <2>6, <2>8 DEF FerryQueue, q, zero, up
<1> QED BY <1>1, <1>2, <1>3, <1>4, <1>5, <1>6 DEF Commands

LEMMA TypeInit ==
  Init => /\ TypeOK
          /\ queue.kind = "adv" => /\ queue.held = {} /\ queue.num_bytes = 0
                                   /\ queue.byte_counters = [c \in Connections(queue.rules) |-> 0]
                                   /\ queue.pkt_counters = <<>>
          /\ queue.kind # "adv" => queue.held = <<>>
          /\ queue.kind = "link" => queue.output = <<>>
<1> SUFFICES ASSUME Init
             PROVE  /\ TypeOK
                    /\ queue.kind = "adv" => /\ queue.held = {} /\ queue.num_bytes = 0
                                             /\ queue.byte_counters = [c \in Connections(queue.rules) |-> 0]
                                             /\ queue.pkt_counters = <<>>
                    /\ queue.kind # "adv" => queue.held = <<>>
                    /\ queue.kind = "link" => queue.output = <<>>
  OBVIOUS
<1>1. PICK f \in Ferries : Legal(f.command) /\ command = f.command /\ side = f.side
  BY DEF Init
<1>2. /\ command \in Commands /\ Legal(command) /\ side \in Sides
      /\ Headers(command.program) \subseteq Header
  BY <1>1, FerryAssumption
<1>3. queue = NewQueue(command, side)
  BY DEF Init
<1> DEFINE q == NewQueue(command, side)
<1>4. /\ FerryQueue(q)
      /\ q.kind = "adv" => /\ q.uplink = (side = "uplink") /\ q.held = {} /\ q.num_bytes = 0
                           /\ q.byte_counters = [c \in Connections(q.rules) |-> 0]
                           /\ q.pkt_counters = <<>>
      /\ q.kind # "adv" => q.held = <<>>
      /\ q.kind = "link" => q.output = <<>>
  BY <1>2, NewQueueType
<1>5. TypeOK
  <2>1. FerryQueue(queue) /\ (queue.kind = "adv" => queue.uplink = (side = "uplink"))
    BY <1>3, <1>4
  <2>2. Slack \in Nat
    BY FerryAssumption
  <2>3. now = 0 /\ awake = 0 /\ signal = FALSE /\ pc = "ask" /\ interest = {} /\ events = {}
    BY DEF Init
  <2>4. tun \in Seq(Packet) /\ reads \in Seq(Read) /\ written \in Seq(Write)
    BY NoPackets DEF Init
  <2>5. now \in Nat /\ awake \in 0..Slack /\ signal \in BOOLEAN
    <3>1. 0 \in Nat /\ 0 \in 0..Slack
      BY <2>2
    <3> QED BY <2>3, <3>1
  <2> QED BY <1>2, <2>1, <2>3, <2>4, <2>5 DEF TypeOK
<1> HIDE DEF q
<1> QED BY <1>3, <1>4, <1>5 DEF q

LEMMA PopPacket ==
  ASSUME NEW S, NEW w \in Seq(S), w # <<>>
  PROVE  /\ Head(w) \in S /\ Tail(w) \in Seq(S)
         /\ w[1] = Head(w) /\ 1 \in DOMAIN w
         /\ Len(Tail(w)) = Len(w) - 1
         /\ \A i \in 1..(Len(w) - 1) : Tail(w)[i] = w[i + 1] /\ i + 1 \in DOMAIN w
OBVIOUS

\* The packets written, with the time.
LEMMA Stamped ==
  ASSUME NEW out \in Seq(Packet), NEW t \in Nat
  PROVE  LET w == [i \in DOMAIN out |-> [pkt |-> out[i], time |-> t]] IN
         /\ w \in Seq(Write) /\ Len(w) = Len(out)
         /\ \A i \in 1..Len(out) : w[i].pkt = out[i] /\ w[i].time = t
<1>1. \A i \in 1..Len(out) : [pkt |-> out[i], time |-> t] \in Write
  BY DEF Write
<1>2. DOMAIN out = 1..Len(out) /\ Len(out) \in Nat
  OBVIOUS
<1> QED BY <1>1, <1>2

LEMMA NewPacketType ==
  TypeOK => \A h \in Headers(command.program) :
              /\ NewPacket(h) \in Packet
              /\ NewPacket(h).id = Len(reads) + Len(tun) + 1 /\ NewPacket(h).sent = now
<1> SUFFICES ASSUME TypeOK, NEW h \in Headers(command.program)
             PROVE  /\ NewPacket(h) \in Packet
                    /\ NewPacket(h).id = Len(reads) + Len(tun) + 1 /\ NewPacket(h).sent = now
  OBVIOUS
<1>1. h \in Header /\ now \in Nat /\ Len(reads) \in Nat /\ Len(tun) \in Nat
  BY DEF TypeOK
<1> QED BY <1>1 DEF Header, Packet, NewPacket, arrivals

\* A packet that is refused: its bytes are counted, and nothing else changes.
BytesCounted(q, p, r) ==
  /\ AdvDelayQueue(r) /\ SameSettings(q, r)
  /\ r.held = q.held /\ r.byte_counters = q.byte_counters /\ r.pkt_counters = q.pkt_counters
  /\ r.num_bytes = q.num_bytes + p.size

LEMMA RefusedBytes ==
  ASSUME NEW q, AdvDelayQueue(q), NEW p \in Packet, NEW r,
         r = [q EXCEPT !.num_bytes = q.num_bytes + p.size]
  PROVE  BytesCounted(q, p, r)
<1> DEFINE n == q.num_bytes + p.size
<1>1. n \in Nat
  BY DEF AdvDelayQueue, Packet
<1>2. r = [q EXCEPT !.num_bytes = n]
  OBVIOUS
<1> HIDE DEF n
<1>3. r = [kind |-> "adv", delay_ms |-> q.delay_ms, rules |-> q.rules, uplink |-> q.uplink,
           byte_counters |-> q.byte_counters, pkt_counters |-> q.pkt_counters,
           num_bytes |-> n, held |-> q.held]
  BY <1>2 DEF AdvDelayQueue
<1>4. /\ r.kind = "adv" /\ r.delay_ms = q.delay_ms /\ r.rules = q.rules /\ r.uplink = q.uplink
      /\ r.byte_counters = q.byte_counters /\ r.pkt_counters = q.pkt_counters
      /\ r.num_bytes = n /\ r.held = q.held
  BY <1>3
<1>5. AdvDelayQueue(r)
  BY <1>1, <1>3, <1>4 DEF AdvDelayQueue
<1>6. q.kind = "adv"
  BY DEF AdvDelayQueue
<1> QED BY <1>4, <1>5, <1>6 DEF BytesCounted, SameSettings, n

LEMMA TypeStep == TypeOK /\ [Next]_vars => TypeOK'
<1> SUFFICES ASSUME TypeOK, [Next]_vars PROVE TypeOK'
  OBVIOUS
<1> USE DEF loop, history
<1>0. Slack \in Nat
  BY FerryAssumption
<1>1. ASSUME Tick PROVE TypeOK'
  <2>1. now' \in Nat /\ awake' \in 0..Slack
    BY <1>0, <1>1 DEF Tick, TypeOK
  <2> QED BY <1>1, <2>1 DEF Tick, TypeOK
<1>2. ASSUME NEW h \in Headers(command.program), Arrive(h) PROVE TypeOK'
  <2>1. tun' \in Seq(Packet) /\ tun' # <<>>
    <3>1. NewPacket(h) \in Packet
      BY NewPacketType
    <3>2. tun \in Seq(Packet) /\ tun' = Append(tun, NewPacket(h))
      BY <1>2 DEF Arrive, TypeOK
    <3> QED BY <3>1, <3>2
  <2> QED BY <1>2, <2>1 DEF Arrive, TypeOK
<1>3. ASSUME AskToQuit PROVE TypeOK'
  BY <1>3 DEF AskToQuit, TypeOK
<1>4. ASSUME AskWaitTime PROVE TypeOK'
  <2>1. PICK w \in WaitTime(queue, now) : queue' = w.queue
    BY <1>4 DEF AskWaitTime
  <2>2. FerryQueue(queue) /\ now \in Nat
    BY DEF TypeOK
  <2>3. FerryQueue(queue') /\ SameSettings(queue, queue')
    BY <2>1, <2>2, Waits
  <2> QED BY <1>4, <2>3 DEF AskWaitTime, TypeOK, SameSettings
<1>5. ASSUME Poll PROVE TypeOK'
  <2>1. awake' \in 0..Slack
    BY <1>0, <1>5 DEF Poll, TypeOK
  <2>2. interest' \in SUBSET Actions /\ {"read", "signal"} \subseteq interest'
    BY <1>5 DEF Poll, Actions
  <2> QED BY <1>5, <2>1, <2>2 DEF Poll, TypeOK
<1>6. ASSUME PollTimesOut PROVE TypeOK'
  BY <1>6 DEF PollTimesOut, TypeOK
<1>7. ASSUME PollReturns PROVE TypeOK'
  <2>1. Ready \in SUBSET Actions /\ ("read" \in Ready => tun # <<>>)
    BY DEF Ready, TypeOK
  <2> QED BY <1>7, <2>1 DEF PollReturns, TypeOK
<1>8. ASSUME ServiceRead PROVE TypeOK'
  <2> DEFINE p == Head(tun)
  <2>1. p \in Packet /\ tun' \in Seq(Packet)
    <3>1. tun \in Seq(Packet) /\ tun # <<>> /\ tun' = Tail(tun)
      BY <1>8 DEF ServiceRead, TypeOK
    <3> QED BY <3>1, PopPacket
  <2>2. FerryQueue(queue) /\ now \in Nat
    BY DEF TypeOK
  <2>3. ASSUME NEW b \in BOOLEAN
        PROVE  Append(reads, [pkt |-> p, time |-> now, held |-> b]) \in Seq(Read)
    <3>1. [pkt |-> p, time |-> now, held |-> b] \in Read
      BY <2>1, <2>2 DEF Read
    <3>2. reads \in Seq(Read)
      BY DEF TypeOK
    <3> QED BY <3>1, <3>2
  <2>4. FerryQueue(queue') /\ SameSettings(queue, queue') /\ reads' \in Seq(Read)
    <3>1. CASE \E q \in ReadPacket(queue, p, now) :
                 /\ queue' = q
                 /\ reads' = Append(reads, [pkt |-> p, time |-> now, held |-> q.held # queue.held])
      <4>1. PICK q \in ReadPacket(queue, p, now) :
                 /\ queue' = q
                 /\ reads' = Append(reads, [pkt |-> p, time |-> now, held |-> q.held # queue.held])
        BY <3>1
      <4>2. FerryQueue(q) /\ SameSettings(queue, q)
        BY <2>1, <2>2, Reads
      <4>3. reads' \in Seq(Read)
        <5> DEFINE b == q.held # queue.held
        <5>1. b \in BOOLEAN /\ reads' = Append(reads, [pkt |-> p, time |-> now, held |-> b])
          BY <4>1
        <5> HIDE DEF b
        <5> QED BY <5>1, <2>3
      <4> QED BY <4>1, <4>2, <4>3
    <3>2. CASE /\ ReadPacket(queue, p, now) = {}
               /\ queue' = [queue EXCEPT !.num_bytes = @ + p.size]
               /\ reads' = Append(reads, [pkt |-> p, time |-> now, held |-> FALSE])
      <4>1. queue.kind = "adv"
        BY <2>1, <2>2, <3>2, OnlyRulesRefuse
      <4>2. BytesCounted(queue, p, queue')
        BY <2>1, <2>2, <3>2, <4>1, Kinds, RefusedBytes
      <4> QED BY <2>3, <3>2, <4>1, <4>2 DEF BytesCounted, FerryQueue, SameSettings
    <3> QED BY <1>8, <3>1, <3>2 DEF ServiceRead
  <2>5. pc' \in {"service", "threw"} /\ events' \in SUBSET Actions /\ "read" \notin events'
    BY <1>8 DEF ServiceRead, TypeOK
  <2> QED BY <1>8, <2>1, <2>4, <2>5 DEF ServiceRead, TypeOK, SameSettings
<1>9. ASSUME ServiceWrite PROVE TypeOK'
  <2>1. FerryQueue(queue) /\ now \in Nat /\ written \in Seq(Write)
    BY DEF TypeOK
  <2>2. PICK w \in WritePackets(queue, now) :
          /\ queue' = w.queue
          /\ written' = written \o [i \in DOMAIN w.out |-> [pkt |-> w.out[i], time |-> now]]
          /\ pc' = IF w.out = <<>> THEN "busy" ELSE pc
    BY <1>9 DEF ServiceWrite
  <2>3. FerryQueue(w.queue) /\ SameSettings(queue, w.queue) /\ w.out \in Seq(Packet)
    BY <2>1, Writes
  <2>4. written' \in Seq(Write)
    <3>1. [i \in DOMAIN w.out |-> [pkt |-> w.out[i], time |-> now]] \in Seq(Write)
      BY <2>1, <2>3, Stamped
    <3> QED BY <2>1, <2>2, <3>1, Concatenated
  <2>5. pc' \in {"service", "busy"} /\ events' \in SUBSET Actions /\ "read" \notin events'
    BY <1>9, <2>2 DEF ServiceWrite, TypeOK
  <2> QED BY <1>9, <2>2, <2>3, <2>4, <2>5 DEF ServiceWrite, TypeOK, SameSettings
<1>10. ASSUME ServiceExit PROVE TypeOK'
  BY <1>10 DEF ServiceExit, TypeOK
<1>11. ASSUME ServiceOver PROVE TypeOK'
  BY <1>11 DEF ServiceOver, TypeOK
<1>12. ASSUME UNCHANGED vars PROVE TypeOK'
  BY <1>12 DEF vars, TypeOK
<1> QED BY <1>1, <1>2, <1>3, <1>4, <1>5, <1>6, <1>7, <1>8, <1>9, <1>10, <1>11, <1>12
        DEF Next, Loop, Service

\* The ferry's state is of its type, whatever queue it has.
THEOREM TypeCorrect == Spec => []TypeOK
<1>1. Init => TypeOK
  BY TypeInit
<1>2. TypeOK /\ [Next]_vars => TypeOK'
  BY TypeStep
<1> QED BY <1>1, <1>2, PTL DEF Spec

\* What the read of a packet does, whether it is taken or refused.
Reading(p) ==
  /\ tun # <<>> /\ p = Head(tun) /\ p \in Packet /\ tun' = Tail(tun)
  /\ \E b \in BOOLEAN : /\ reads' = Append(reads, [pkt |-> p, time |-> now, held |-> b])
                        /\ b = (queue'.held # queue.held)
  /\ \/ queue' \in ReadPacket(queue, p, now) /\ pc' = pc /\ saved' = saved
     \/ /\ queue.kind = "adv" /\ Refuses(queue, p) /\ BytesCounted(queue, p, queue')
        /\ pc' = "threw" /\ saved' = Saved(queue')

LEMMA ServiceReads == TypeOK /\ ServiceRead => Reading(Head(tun))
<1> SUFFICES ASSUME TypeOK, ServiceRead PROVE Reading(Head(tun))
  OBVIOUS
<1> DEFINE p == Head(tun)
<1>1. tun # <<>> /\ p \in Packet /\ tun' = Tail(tun) /\ FerryQueue(queue) /\ now \in Nat
  <2>1. tun \in Seq(Packet) /\ tun # <<>> /\ tun' = Tail(tun)
    BY DEF ServiceRead, TypeOK
  <2> QED BY <2>1, PopPacket DEF TypeOK
<1>2. CASE /\ \E q \in ReadPacket(queue, p, now) :
                 /\ queue' = q
                 /\ reads' = Append(reads, [pkt |-> p, time |-> now, held |-> q.held # queue.held])
           /\ UNCHANGED <<pc, saved>>
  <2> DEFINE b == queue'.held # queue.held
  <2>1. queue' \in ReadPacket(queue, p, now) /\ b \in BOOLEAN
    BY <1>2
  <2>2. reads' = Append(reads, [pkt |-> p, time |-> now, held |-> b])
    BY <1>2
  <2>3. pc' = pc /\ saved' = saved
    BY <1>2
  <2>4. \E c \in BOOLEAN : /\ reads' = Append(reads, [pkt |-> p, time |-> now, held |-> c])
                           /\ c = (queue'.held # queue.held)
    BY <2>1, <2>2, Zenon
  <2> QED BY <1>1, <2>1, <2>3, <2>4 DEF Reading
<1>3. CASE /\ ReadPacket(queue, p, now) = {}
           /\ queue' = [queue EXCEPT !.num_bytes = @ + p.size]
           /\ reads' = Append(reads, [pkt |-> p, time |-> now, held |-> FALSE])
           /\ pc' = "threw"
           /\ saved' = IF queue'.kind = "adv" THEN Saved(queue') ELSE <<>>
  <2>1. queue.kind = "adv" /\ Refuses(queue, p)
    BY <1>1, <1>3, OnlyRulesRefuse
  <2>2. BytesCounted(queue, p, queue')
    BY <1>1, <1>3, <2>1, Kinds, RefusedBytes
  <2>3. queue'.kind = "adv" /\ queue'.held = queue.held
    BY <2>1, <2>2 DEF BytesCounted, SameSettings
  <2>4. \E c \in BOOLEAN : /\ reads' = Append(reads, [pkt |-> p, time |-> now, held |-> c])
                           /\ c = (queue'.held # queue.held)
    BY <1>3, <2>3, Zenon
  <2> QED BY <1>1, <1>3, <2>1, <2>2, <2>3, <2>4 DEF Reading
<1> QED BY <1>2, <1>3 DEF ServiceRead, Destroy

\* What the write of packets does.
Writing(w) ==
  /\ w \in WritePackets(queue, now) /\ queue' = w.queue
  /\ w.out \in Seq(Packet)
  /\ FerryQueue(w.queue) /\ SameSettings(queue, w.queue)
  /\ pc' = IF w.out = <<>> THEN "busy" ELSE pc
  /\ written' \in Seq(Write) /\ Len(written') = Len(written) + Len(w.out)
  /\ \A i \in 1..Len(written) : written'[i] = written[i]
  /\ \A i \in 1..Len(w.out) : /\ written'[Len(written) + i].pkt = w.out[i]
                              /\ written'[Len(written) + i].time = now

LEMMA ServiceWrites == TypeOK /\ ServiceWrite => \E w : Writing(w)
<1> SUFFICES ASSUME TypeOK, ServiceWrite PROVE \E w : Writing(w)
  OBVIOUS
<1>1. FerryQueue(queue) /\ now \in Nat /\ written \in Seq(Write)
  BY DEF TypeOK
<1>2. PICK w \in WritePackets(queue, now) :
        /\ queue' = w.queue
        /\ written' = written \o [i \in DOMAIN w.out |-> [pkt |-> w.out[i], time |-> now]]
        /\ pc' = IF w.out = <<>> THEN "busy" ELSE pc
  BY DEF ServiceWrite
<1>3. FerryQueue(w.queue) /\ SameSettings(queue, w.queue) /\ w.out \in Seq(Packet)
  BY <1>1, Writes
<1> DEFINE u == [i \in DOMAIN w.out |-> [pkt |-> w.out[i], time |-> now]]
<1>4. u \in Seq(Write) /\ Len(u) = Len(w.out)
      /\ \A i \in 1..Len(w.out) : u[i].pkt = w.out[i] /\ u[i].time = now
  BY <1>1, <1>3, Stamped
<1>5. written' = written \o u
  BY <1>2
<1> HIDE DEF u
<1>6. /\ written' \in Seq(Write) /\ Len(written') = Len(written) + Len(w.out)
      /\ \A i \in 1..(Len(written) + Len(w.out)) :
           written'[i] = IF i <= Len(written) THEN written[i] ELSE u[i - Len(written)]
  <2> DEFINE v == written \o u
  <2>1. /\ v \in Seq(Write) /\ Len(v) = Len(written) + Len(u)
        /\ \A i \in 1..(Len(written) + Len(u)) :
             v[i] = IF i <= Len(written) THEN written[i] ELSE u[i - Len(written)]
    <3>1. written \in Seq(Write) /\ u \in Seq(Write)
      BY <1>1, <1>4
    <3> QED BY <3>1
  <2>2. v = written'
    BY <1>5
  <2> HIDE DEF v
  <2> QED BY <1>4, <2>1, <2>2
<1>7. Len(written) \in Nat /\ Len(w.out) \in Nat
  BY <1>1, <1>3
<1>8. \A i \in 1..Len(written) : written'[i] = written[i]
  BY <1>6, <1>7
<1>9. ASSUME NEW i \in 1..Len(w.out)
      PROVE  written'[Len(written) + i] = u[i]
  <2>1. /\ Len(written) + i \in 1..(Len(written) + Len(w.out)) /\ ~(Len(written) + i <= Len(written))
        /\ (Len(written) + i) - Len(written) = i
    BY <1>7
  <2> QED BY <1>6, <2>1
<1>10. Writing(w)
  BY <1>2, <1>3, <1>4, <1>6, <1>8, <1>9 DEF Writing
<1> QED BY <1>10

-----------------------------------------------------------------------------
(* The loop never waits busily. *)
LEMMA WriteReadyStep == TypeOK /\ WriteReady /\ [Next]_vars => WriteReady'
<1> SUFFICES ASSUME TypeOK, WriteReady, [Next]_vars PROVE WriteReady'
  OBVIOUS
<1> USE DEF loop, history
<1>0. FerryQueue(queue) /\ now \in Nat
  BY DEF TypeOK
<1>1. ASSUME Tick PROVE WriteReady'
  <2>1. PendingOutput(queue, now) => PendingOutput(queue, now + 1)
    BY <1>0, PendingStays
  <2> QED BY <1>1, <2>1 DEF Tick, WriteReady
<1>2. ASSUME NEW h \in Headers(command.program), Arrive(h) PROVE WriteReady'
  BY <1>2 DEF Arrive, WriteReady
<1>3. ASSUME AskToQuit PROVE WriteReady'
  BY <1>3 DEF AskToQuit, WriteReady
<1>4. ASSUME AskWaitTime PROVE WriteReady'
  BY <1>4 DEF AskWaitTime, WriteReady
<1>5. ASSUME Poll PROVE WriteReady'
  <2>1. "write" \in interest' => PendingOutput(queue, now)
    BY <1>5 DEF Poll
  <2>2. pc' = "poll" /\ queue' = queue /\ now' = now
    BY <1>5 DEF Poll
  <2> QED BY <2>1, <2>2 DEF WriteReady
<1>6. ASSUME PollTimesOut PROVE WriteReady'
  BY <1>6 DEF PollTimesOut, WriteReady
<1>7. ASSUME PollReturns PROVE WriteReady'
  <2>1. "write" \in events' => PendingOutput(queue, now)
    BY <1>7 DEF PollReturns, Ready, WriteReady
  <2> QED BY <1>7, <2>1 DEF PollReturns, WriteReady
<1>8. ASSUME ServiceRead PROVE WriteReady'
  <2>1. Reading(Head(tun))
    BY <1>8, ServiceReads
  <2>2. CASE queue' \in ReadPacket(queue, Head(tun), now) /\ pc' = pc
    <3>1. PendingOutput(queue, now) => PendingOutput(queue', now)
      BY <1>0, <2>1, <2>2, Reads DEF Reading
    <3> QED BY <1>8, <2>2, <3>1 DEF ServiceRead, WriteReady
  <2>3. CASE pc' = "threw"
    BY <2>3 DEF WriteReady
  <2> QED BY <2>1, <2>2, <2>3 DEF Reading
<1>9. ASSUME ServiceWrite PROVE WriteReady'
  <2>1. PICK w : Writing(w)
    BY <1>9, ServiceWrites
  <2>2. PendingOutput(queue, now)
    BY <1>9 DEF ServiceWrite, WriteReady
  <2>3. w.out # <<>>
    BY <1>0, <2>1, <2>2, WritesSomething DEF Writing
  <2>4. pc' = pc
    BY <2>1, <2>3 DEF Writing
  <2> QED BY <1>9, <2>4 DEF ServiceWrite, WriteReady
<1>10. ASSUME ServiceExit PROVE WriteReady'
  BY <1>10 DEF ServiceExit, WriteReady
<1>11. ASSUME ServiceOver PROVE WriteReady'
  BY <1>11 DEF ServiceOver, WriteReady
<1>12. ASSUME UNCHANGED vars PROVE WriteReady'
  BY <1>12 DEF vars, WriteReady
<1> QED BY <1>1, <1>2, <1>3, <1>4, <1>5, <1>6, <1>7, <1>8, <1>9, <1>10, <1>11, <1>12
        DEF Next, Loop, Service

\* Poller never throws "busy wait detected" (util/poller.cc:72-75), whatever
\* queue it polls for and whatever is read between the test and the write.
THEOREM NeverBusy == Spec => []NoBusyWait
<1>1. Init => WriteReady
  BY DEF Init, WriteReady
<1>2. TypeOK /\ WriteReady /\ [Next]_vars => WriteReady'
  BY WriteReadyStep
<1>3. WriteReady => NoBusyWait
  BY DEF WriteReady, NoBusyWait
<1>4. Spec => []TypeOK
  BY TypeCorrect
<1> QED BY <1>1, <1>2, <1>3, <1>4, PTL DEF Spec

-----------------------------------------------------------------------------
(* The steps, as the packets see them. *)

\* No packet moves.
Quiet ==
  /\ tun' = tun /\ reads' = reads /\ written' = written
  /\ now' \in {now, now + 1}
  /\ FerryQueue(queue') /\ SameSettings(queue, queue')
  /\ queue.kind # "adv" => Line(queue') = Line(queue)
  /\ queue.kind \in {"adv", "delay"} => queue' = queue

\* A packet arrives.
Arriving(p) ==
  /\ p \in Packet /\ p.id = Len(reads) + Len(tun) + 1 /\ p.sent = now
  /\ tun' = Append(tun, p) /\ reads' = reads /\ written' = written /\ now' = now
  /\ queue' = queue

LEMMA Steps ==
  TypeOK /\ [Next]_vars => \/ Quiet
                           \/ \E p : Arriving(p)
                           \/ ServiceRead /\ Reading(Head(tun)) /\ written' = written /\ now' = now
                           \/ ServiceWrite /\ (\E w : Writing(w)) /\ reads' = reads /\ tun' = tun
                              /\ now' = now
<1> SUFFICES ASSUME TypeOK, [Next]_vars
             PROVE  \/ Quiet
                    \/ \E p : Arriving(p)
                    \/ ServiceRead /\ Reading(Head(tun)) /\ written' = written /\ now' = now
                    \/ ServiceWrite /\ (\E w : Writing(w)) /\ reads' = reads /\ tun' = tun
                       /\ now' = now
  OBVIOUS
<1> USE DEF loop, history
<1>0. FerryQueue(queue) /\ now \in Nat
  BY DEF TypeOK
<1>1. SameSettings(queue, queue)
  BY DEF SameSettings
<1>2. ASSUME queue' = queue, tun' = tun, reads' = reads, written' = written, now' \in {now, now + 1}
      PROVE  Quiet
  BY <1>0, <1>1, <1>2 DEF Quiet
<1>3. CASE Tick
  BY <1>2, <1>3 DEF Tick
<1>4. ASSUME NEW h \in Headers(command.program), Arrive(h) PROVE \E p : Arriving(p)
  <2>1. NewPacket(h) \in Packet /\ NewPacket(h).id = Len(reads) + Len(tun) + 1 /\ NewPacket(h).sent = now
    BY NewPacketType
  <2>2. Arriving(NewPacket(h))
    BY <1>4, <2>1 DEF Arrive, Arriving
  <2> QED BY <2>2
<1>5. CASE AskToQuit
  BY <1>2, <1>5 DEF AskToQuit
<1>6. CASE AskWaitTime
  <2>1. PICK w \in WaitTime(queue, now) : queue' = w.queue
    BY <1>6 DEF AskWaitTime
  <2>2. /\ FerryQueue(queue') /\ SameSettings(queue, queue')
        /\ queue.kind # "adv" => Line(queue') = Line(queue)
        /\ queue.kind \in {"adv", "delay"} => queue' = queue
    BY <1>0, <2>1, Waits
  <2>3. tun' = tun /\ reads' = reads /\ written' = written /\ now' = now
    BY <1>6 DEF AskWaitTime
  <2> QED BY <2>2, <2>3 DEF Quiet
<1>7. CASE Poll
  BY <1>2, <1>7 DEF Poll
<1>8. CASE PollTimesOut
  BY <1>2, <1>8 DEF PollTimesOut
<1>9. CASE PollReturns
  BY <1>2, <1>9 DEF PollReturns
<1>10. CASE ServiceRead
  BY <1>10, ServiceReads DEF ServiceRead
<1>11. CASE ServiceWrite
  BY <1>11, ServiceWrites DEF ServiceWrite
<1>12. CASE ServiceExit
  BY <1>2, <1>12 DEF ServiceExit
<1>13. CASE ServiceOver
  BY <1>2, <1>13 DEF ServiceOver
<1>14. CASE UNCHANGED vars
  BY <1>2, <1>14 DEF vars
<1> QED BY <1>3, <1>4, <1>5, <1>6, <1>7, <1>8, <1>9, <1>10, <1>11, <1>12, <1>13, <1>14
        DEF Next, Loop, Service

\* What a read does to the history.
Recorded(p) ==
  /\ p = tun[1] /\ 1 \in DOMAIN tun
  /\ tun' \in Seq(Packet) /\ Len(tun') = Len(tun) - 1
  /\ \A j \in 1..(Len(tun) - 1) : tun'[j] = tun[j + 1] /\ j + 1 \in DOMAIN tun
  /\ Len(reads') = Len(reads) + 1
  /\ \A i \in 1..Len(reads) : reads'[i] = reads[i]
  /\ reads'[Len(reads) + 1] \in Read
  /\ reads'[Len(reads) + 1].pkt = p /\ reads'[Len(reads) + 1].time = now
  /\ reads'[Len(reads) + 1].held = (queue'.held # queue.held)

LEMMA ReadingRecords ==
  ASSUME TypeOK, NEW p, Reading(p)
  PROVE  Recorded(p)
<1>1. tun \in Seq(Packet) /\ tun # <<>> /\ p = Head(tun) /\ tun' = Tail(tun) /\ p \in Packet
  BY DEF TypeOK, Reading
<1>2. /\ p = tun[1] /\ 1 \in DOMAIN tun /\ tun' \in Seq(Packet) /\ Len(tun') = Len(tun) - 1
      /\ \A j \in 1..(Len(tun) - 1) : tun'[j] = tun[j + 1] /\ j + 1 \in DOMAIN tun
  BY <1>1, PopPacket
<1>3. PICK b \in BOOLEAN : /\ reads' = Append(reads, [pkt |-> p, time |-> now, held |-> b])
                           /\ b = (queue'.held # queue.held)
  BY DEF Reading
<1> DEFINE x == [pkt |-> p, time |-> now, held |-> b]
<1>4. x \in Read /\ x.pkt = p /\ x.time = now /\ x.held = b
  BY <1>1 DEF Read, TypeOK
<1>5. reads' = Append(reads, x) /\ reads \in Seq(Read)
  BY <1>3 DEF TypeOK
<1> HIDE DEF x
<1>6. /\ Len(reads') = Len(reads) + 1 /\ reads'[Len(reads) + 1] = x
      /\ \A i \in 1..Len(reads) : reads'[i] = reads[i]
  BY <1>4, <1>5
<1> QED BY <1>2, <1>3, <1>4, <1>6 DEF Recorded

\* The packets of a queue after a read, and after a write.
LEMMA ReadQueued ==
  ASSUME NEW q, FerryQueue(q), NEW p \in Packet, NEW t \in Nat, NEW r \in ReadPacket(q, p, t)
  PROVE  /\ Queued(q) \subseteq Queued(r) /\ Queued(r) \subseteq Queued(q) \cup {p}
         /\ q.kind # "link" /\ r.held # q.held => p \in Queued(r)
<1>0. FerryQueue(r) /\ r.kind = q.kind
  BY Reads DEF SameSettings
<1>1. CASE q.kind = "adv"
  <2> DEFINE g == [release |-> t + GetDelayFor(q, p), pkt |-> p]
  <2>1. AdvDelayQueue(q)
    BY <1>1, Kinds
  <2>2. PacketTaken(q, p, t, r)
    BY <2>1, AdvReads
  <2>3. r.held = q.held \cup {g} /\ g.pkt = p
    BY <2>2 DEF PacketTaken
  <2> HIDE DEF g
  <2> QED BY <1>0, <1>1, <2>3 DEF Queued
<1>2. CASE q.kind # "adv"
  <2>1. Line(r) = Append(Line(q), p) \/ (Line(r) = Line(q) /\ r = q)
    BY <1>2, Reads
  <2>2. Line(q) \in Seq(Packet)
    BY <1>2, LineType
  <2>3. Queued(q) = {Line(q)[i] : i \in DOMAIN Line(q)} /\ Queued(r) = {Line(r)[i] : i \in DOMAIN Line(r)}
    BY <1>0, <1>2 DEF Queued
  <2>4. CASE Line(r) = Append(Line(q), p)
    <3> DEFINE v == Line(q)
               w == Line(r)
    <3>1. w = Append(v, p) /\ v \in Seq(Packet)
      BY <2>2, <2>4
    <3> HIDE DEF v, w
    <3>2. /\ DOMAIN v \subseteq DOMAIN w /\ DOMAIN w = DOMAIN v \cup {Len(v) + 1}
          /\ \A i \in DOMAIN v : w[i] = v[i]
          /\ w[Len(v) + 1] = p
      BY <3>1
    <3>3. Queued(q) = {v[i] : i \in DOMAIN v} /\ Queued(r) = {w[i] : i \in DOMAIN w}
      BY <2>3 DEF v, w
    <3> QED BY <3>2, <3>3
  <2>5. CASE Line(r) = Line(q) /\ r = q
    BY <2>3, <2>5
  <2> QED BY <2>1, <2>4, <2>5
<1> QED BY <1>1, <1>2

LEMMA SplitAt ==
  ASSUME NEW S, NEW v \in Seq(S), NEW n \in 0..Len(v)
  PROVE  /\ DOMAIN SubSeq(v, 1, n) = 1..n /\ \A i \in 1..n : SubSeq(v, 1, n)[i] = v[i] /\ i \in DOMAIN v
         /\ DOMAIN SubSeq(v, n + 1, Len(v)) = 1..(Len(v) - n)
         /\ \A i \in 1..(Len(v) - n) : SubSeq(v, n + 1, Len(v))[i] = v[n + i] /\ n + i \in DOMAIN v
         /\ \A i \in DOMAIN v : i \in 1..n \/ (i - n \in 1..(Len(v) - n) /\ n + (i - n) = i)
<1>1. DOMAIN SubSeq(v, 1, n) = 1..n /\ \A i \in 1..n : SubSeq(v, 1, n)[i] = v[i] /\ i \in DOMAIN v
  OBVIOUS
<1>2. DOMAIN SubSeq(v, n + 1, Len(v)) = 1..(Len(v) - n)
  OBVIOUS
<1>3. \A i \in 1..(Len(v) - n) : SubSeq(v, n + 1, Len(v))[i] = v[n + i] /\ n + i \in DOMAIN v
  OBVIOUS
<1>4. \A i \in DOMAIN v : i \in 1..n \/ (i - n \in 1..(Len(v) - n) /\ n + (i - n) = i)
  OBVIOUS
<1> QED BY <1>1, <1>2, <1>3, <1>4

LEMMA WriteQueued ==
  ASSUME NEW q, FerryQueue(q), NEW t \in Nat, NEW w \in WritePackets(q, t)
  PROVE  Queued(q) = Queued(w.queue) \cup {w.out[i] : i \in DOMAIN w.out}
<1>0. FerryQueue(w.queue) /\ w.queue.kind = q.kind
  BY Writes DEF SameSettings
<1>1. CASE q.kind = "adv"
  <2>1. AdvDelayQueue(q)
    BY <1>1, Kinds
  <2>2. DueRemoved(q, t, w.queue) /\ \E s : DueInOrder(q, t, w.out, s)
    BY <2>1, AdvWrites
  <2>3. PICK s : DueInOrder(q, t, w.out, s)
    BY <2>2
  <2>4. /\ w.queue.held = q.held \ DueAt(q, t) /\ DueAt(q, t) \subseteq q.held
        /\ DueAt(q, t) = {s[i] : i \in DOMAIN s}
        /\ DOMAIN w.out = DOMAIN s /\ \A i \in DOMAIN s : w.out[i] = s[i].pkt
    BY <2>2, <2>3 DEF DueRemoved, DueInOrder, DueAt
  <2>5. {w.out[i] : i \in DOMAIN w.out} = {h.pkt : h \in DueAt(q, t)}
    BY <2>4
  <2>6. Queued(q) = {h.pkt : h \in q.held} /\ Queued(w.queue) = {h.pkt : h \in w.queue.held}
    BY <1>0, <1>1 DEF Queued
  <2> QED BY <2>4, <2>5, <2>6
<1>2. CASE q.kind # "adv"
  <2> DEFINE v == Line(q)
             a == w.out
             b == Line(w.queue)
  <2>1. PICK n \in 0..Len(v) : a = SubSeq(v, 1, n) /\ b = SubSeq(v, n + 1, Len(v))
    BY <1>2, Writes
  <2>2. v \in Seq(Packet)
    BY <1>2, LineType
  <2>3. /\ Queued(q) = {v[i] : i \in DOMAIN v}
        /\ Queued(w.queue) = {b[i] : i \in DOMAIN b}
    BY <1>0, <1>2 DEF Queued
  <2> HIDE DEF v, b
  <2>4. /\ DOMAIN a = 1..n /\ (\A i \in 1..n : a[i] = v[i] /\ i \in DOMAIN v)
        /\ DOMAIN b = 1..(Len(v) - n)
        /\ \A i \in 1..(Len(v) - n) : b[i] = v[n + i] /\ n + i \in DOMAIN v
        /\ \A i \in DOMAIN v : i \in 1..n \/ (i - n \in 1..(Len(v) - n) /\ n + (i - n) = i)
    BY <2>1, <2>2, SplitAt
  <2>5. ASSUME NEW x \in Queued(q) PROVE x \in Queued(w.queue) \cup {a[i] : i \in DOMAIN a}
    <3>1. PICK i \in DOMAIN v : x = v[i]
      BY <2>3, <2>5
    <3>2. CASE i \in 1..n
      BY <2>4, <3>1, <3>2
    <3>3. CASE i - n \in 1..(Len(v) - n) /\ n + (i - n) = i
      <4>1. b[i - n] = v[i] /\ i - n \in DOMAIN b
        BY <2>4, <3>3
      <4> QED BY <2>3, <3>1, <4>1
    <3> QED BY <2>4, <3>2, <3>3
  <2>6. ASSUME NEW x \in Queued(w.queue) \cup {a[i] : i \in DOMAIN a} PROVE x \in Queued(q)
    BY <2>3, <2>4, <2>6
  <2> QED BY <2>5, <2>6
<1> QED BY <1>1, <1>2

\* A read is not forgotten.
LEMMA StillRead ==
  ASSUME TypeOK, TypeOK', NEW p, Recorded(p), NEW x, IsReadIn(reads, x)
  PROVE  IsReadIn(reads', x)
<1>1. reads \in Seq(Read) /\ reads' \in Seq(Read) /\ x.id \in DOMAIN reads /\ reads[x.id].pkt = x
  BY DEF TypeOK, IsReadIn
<1>2. x.id \in 1..Len(reads) /\ DOMAIN reads' = 1..Len(reads')
  BY <1>1
<1>3. reads'[x.id] = reads[x.id] /\ Len(reads') = Len(reads) + 1
  BY <1>2 DEF Recorded
<1>4. x.id \in DOMAIN reads'
  BY <1>1, <1>2, <1>3
<1> QED BY <1>1, <1>3, <1>4 DEF IsReadIn

\* What a write does to the history.
LEMMA Longer ==
  ASSUME NEW v \in Seq(Write), NEW u \in Seq(Write), NEW o \in Seq(Packet), Len(u) = Len(v) + Len(o)
  PROVE  /\ Len(v) \in Nat /\ Len(o) \in Nat
         /\ \A k \in DOMAIN v : k \in 1..Len(v) /\ k \in DOMAIN u
         /\ \A i \in DOMAIN o : i \in 1..Len(o) /\ Len(v) + i \in DOMAIN u
         /\ \A k \in DOMAIN u : \/ k \in DOMAIN v
                                \/ k - Len(v) \in DOMAIN o /\ Len(v) + (k - Len(v)) = k
OBVIOUS

Appended(w) ==
  /\ \A k \in DOMAIN written : k \in DOMAIN written' /\ written'[k] = written[k]
  /\ \A i \in DOMAIN w.out : /\ Len(written) + i \in DOMAIN written'
                             /\ written'[Len(written) + i].pkt = w.out[i]
                             /\ written'[Len(written) + i].time = now
  /\ \A k \in DOMAIN written' :
       \/ k \in DOMAIN written
       \/ /\ k - Len(written) \in DOMAIN w.out /\ Len(written) + (k - Len(written)) = k
          /\ written'[k].pkt = w.out[k - Len(written)] /\ written'[k].time = now

LEMMA WritingAppends ==
  ASSUME TypeOK, NEW w, Writing(w)
  PROVE  Appended(w)
<1>1. /\ written \in Seq(Write) /\ written' \in Seq(Write) /\ w.out \in Seq(Packet)
      /\ Len(written') = Len(written) + Len(w.out)
      /\ \A i \in 1..Len(written) : written'[i] = written[i]
      /\ \A i \in 1..Len(w.out) : /\ written'[Len(written) + i].pkt = w.out[i]
                                  /\ written'[Len(written) + i].time = now
  BY DEF TypeOK, Writing
<1>2. /\ \A k \in DOMAIN written : k \in 1..Len(written) /\ k \in DOMAIN written'
      /\ \A i \in DOMAIN w.out : i \in 1..Len(w.out) /\ Len(written) + i \in DOMAIN written'
      /\ \A k \in DOMAIN written' :
           \/ k \in DOMAIN written
           \/ k - Len(written) \in DOMAIN w.out /\ Len(written) + (k - Len(written)) = k
  BY <1>1, Longer
<1>3. ASSUME NEW i \in DOMAIN w.out
      PROVE  /\ Len(written) + i \in DOMAIN written'
             /\ written'[Len(written) + i].pkt = w.out[i]
             /\ written'[Len(written) + i].time = now
  BY <1>1, <1>2
<1>4. ASSUME NEW k \in DOMAIN written', k \notin DOMAIN written
      PROVE  /\ k - Len(written) \in DOMAIN w.out /\ Len(written) + (k - Len(written)) = k
             /\ written'[k].pkt = w.out[k - Len(written)] /\ written'[k].time = now
  <2>1. k - Len(written) \in DOMAIN w.out /\ Len(written) + (k - Len(written)) = k
    BY <1>2, <1>4
  <2>2. /\ written'[Len(written) + (k - Len(written))].pkt = w.out[k - Len(written)]
        /\ written'[Len(written) + (k - Len(written))].time = now
    BY <1>3, <2>1
  <2> QED BY <2>1, <2>2
<1>5. \A k \in DOMAIN written : k \in DOMAIN written' /\ written'[k] = written[k]
  BY <1>1, <1>2
<1> QED BY <1>3, <1>4, <1>5, Zenon DEF Appended

-----------------------------------------------------------------------------
(* Packets are numbered, and every one read is accounted for. *)
LEMMA NumbersInit == Init => Numbers
<1> SUFFICES ASSUME Init PROVE Numbers
  OBVIOUS
<1>1. tun = <<>> /\ reads = <<>> /\ written = <<>>
  BY DEF Init
<1>2. FerryQueue(queue) /\ (queue.kind = "adv" => queue.held = {})
      /\ (queue.kind # "adv" => queue.held = <<>>) /\ (queue.kind = "link" => queue.output = <<>>)
  BY TypeInit DEF TypeOK
<1>3. Queued(queue) = {}
  <2>1. CASE queue.kind = "adv"
    BY <1>2, <2>1 DEF Queued
  <2>2. CASE queue.kind # "adv"
    <3>1. Line(queue) = <<>>
      BY <1>2, <2>2 DEF Line
    <3> QED BY <2>2, <3>1 DEF Queued
  <2> QED BY <2>1, <2>2
<1> QED BY <1>1, <1>3 DEF Numbers, Numbered, Known, Accounted

LEMMA NumbersStep == TypeOK /\ TypeOK' /\ Numbers /\ [Next]_vars => Numbers'
<1> SUFFICES ASSUME TypeOK, TypeOK', Numbers, [Next]_vars PROVE Numbers'
  OBVIOUS
<1>0. /\ FerryQueue(queue) /\ now \in Nat /\ reads \in Seq(Read) /\ tun \in Seq(Packet)
      /\ written \in Seq(Write) /\ reads' \in Seq(Read) /\ written' \in Seq(Write)
      /\ Len(reads) \in Nat /\ Len(tun) \in Nat
  BY DEF TypeOK
<1>1. CASE Quiet
  <2>1. tun' = tun /\ reads' = reads /\ written' = written /\ queue'.kind = queue.kind
    BY <1>1 DEF Quiet, SameSettings
  <2>2. Queued(queue') = Queued(queue)
    <3>1. CASE queue.kind = "adv"
      BY <1>1, <3>1 DEF Quiet
    <3>2. CASE queue.kind # "adv"
      BY <1>1, <2>1, <3>2 DEF Quiet, Queued
    <3> QED BY <3>1, <3>2
  <2> QED BY <2>1, <2>2 DEF Numbers, Numbered, Known, Accounted
<1>2. ASSUME NEW p, Arriving(p) PROVE Numbers'
  <2>1. /\ p.id = Len(reads) + Len(tun) + 1 /\ tun' = Append(tun, p) /\ reads' = reads
        /\ written' = written /\ queue' = queue /\ p \in Packet
    BY <1>2 DEF Arriving
  <2>2. \A j \in DOMAIN tun' : tun'[j].id = Len(reads) + j
    <3> TAKE j \in DOMAIN tun'
    <3>1. CASE j \in DOMAIN tun
      BY <1>0, <2>1, <3>1 DEF Numbers, Numbered
    <3>2. CASE j = Len(tun) + 1
      <4>1. tun'[j] = p
        BY <1>0, <2>1, <3>2
      <4> QED BY <1>0, <2>1, <3>2, <4>1
    <3> QED BY <1>0, <2>1, <3>1, <3>2
  <2> QED BY <2>1, <2>2 DEF Numbers, Numbered, Known, Accounted
<1>3. ASSUME ServiceRead, Reading(Head(tun)), written' = written PROVE Numbers'
  <2> DEFINE p == Head(tun)
  <2>1. Recorded(p) /\ p \in Packet
    BY <1>3, ReadingRecords DEF Reading
  <2> HIDE DEF p
  <2>2. p.id = Len(reads) + 1
    BY <1>0, <2>1 DEF Recorded, Numbers, Numbered
  <2>3. Numbered'
    <3>1. ASSUME NEW i \in DOMAIN reads' PROVE reads'[i].pkt.id = i
      <4>1. i \in 1..(Len(reads) + 1)
        BY <1>0, <2>1 DEF Recorded
      <4>2. CASE i \in 1..Len(reads)
        BY <1>0, <2>1, <4>2 DEF Recorded, Numbers, Numbered
      <4>3. CASE i = Len(reads) + 1
        BY <2>1, <2>2, <4>3 DEF Recorded
      <4> QED BY <1>0, <4>1, <4>2, <4>3
    <3>2. ASSUME NEW j \in DOMAIN tun' PROVE tun'[j].id = Len(reads') + j
      <4>1. j \in 1..(Len(tun) - 1)
        BY <2>1 DEF Recorded
      <4>2. tun'[j] = tun[j + 1] /\ j + 1 \in DOMAIN tun /\ Len(reads') = Len(reads) + 1
        BY <2>1, <4>1 DEF Recorded
      <4>3. tun[j + 1].id = Len(reads) + (j + 1)
        BY <4>2 DEF Numbers, Numbered
      <4> QED BY <1>0, <4>1, <4>2, <4>3
    <3> QED BY <3>1, <3>2 DEF Numbered
  <2>4. IsReadIn(reads', p)
    BY <1>0, <2>1, <2>2 DEF Recorded, IsReadIn
  <2>5. \A x : IsReadIn(reads, x) => IsReadIn(reads', x)
    BY <2>1, StillRead
  <2>6. /\ Queued(queue') \subseteq Queued(queue) \cup {p}
        /\ Queued(queue) \subseteq Queued(queue')
        /\ queue.kind # "link" /\ queue'.held # queue.held => p \in Queued(queue')
        /\ queue'.kind = queue.kind
    <3>1. CASE queue' \in ReadPacket(queue, p, now)
      BY <1>0, <2>1, <3>1, ReadQueued, Reads DEF SameSettings
    <3>2. CASE queue.kind = "adv" /\ BytesCounted(queue, p, queue')
      BY <3>2 DEF BytesCounted, SameSettings, Queued
    <3> QED BY <1>3, <3>1, <3>2 DEF Reading, p
  <2>7. Known'
    BY <1>3, <2>4, <2>5, <2>6 DEF Known, Numbers
  <2>8. ASSUME queue'.kind # "link", NEW i \in DOMAIN reads', reads'[i].held
        PROVE  \/ \E k \in DOMAIN written : written[k].pkt = reads'[i].pkt
               \/ reads'[i].pkt \in Queued(queue')
    <3>1. i \in 1..(Len(reads) + 1)
      BY <1>0, <2>1 DEF Recorded
    <3>2. CASE i \in 1..Len(reads)
      <4>1. i \in DOMAIN reads /\ reads'[i] = reads[i] /\ queue.kind # "link"
        BY <1>0, <2>1, <2>6, <2>8, <3>2 DEF Recorded
      <4>2. \/ \E k \in DOMAIN written : written[k].pkt = reads[i].pkt
            \/ reads[i].pkt \in Queued(queue)
        BY <2>8, <4>1 DEF Numbers, Accounted
      <4> QED BY <2>6, <4>1, <4>2
    <3>3. CASE i = Len(reads) + 1
      BY <2>1, <2>6, <2>8, <3>3 DEF Recorded
    <3> QED BY <1>0, <3>1, <3>2, <3>3
  <2>9. Accounted'
    BY <1>3, <2>8 DEF Accounted
  <2> QED BY <2>3, <2>7, <2>9 DEF Numbers
<1>4. ASSUME NEW w, Writing(w), reads' = reads, tun' = tun PROVE Numbers'
  <2>1. Queued(queue) = Queued(queue') \cup {w.out[i] : i \in DOMAIN w.out} /\ queue'.kind = queue.kind
    BY <1>0, <1>4, WriteQueued DEF Writing, SameSettings
  <2>2. Appended(w)
    BY <1>4, WritingAppends
  <2>3. ASSUME NEW k \in DOMAIN written'
        PROVE  \/ k \in DOMAIN written /\ written'[k] = written[k]
               \/ \E i \in DOMAIN w.out : written'[k].pkt = w.out[i]
    BY <2>2 DEF Appended
  <2>4. ASSUME NEW x, \/ \E k \in DOMAIN written : written[k].pkt = x
                      \/ \E i \in DOMAIN w.out : w.out[i] = x
        PROVE  \E k \in DOMAIN written' : written'[k].pkt = x
    BY <2>2, <2>4 DEF Appended
  <2>5. Known'
    <3>1. \A x \in Queued(queue') : IsReadIn(reads', x)
      BY <1>4, <2>1 DEF Known, Numbers
    <3>2. ASSUME NEW k \in DOMAIN written' PROVE IsReadIn(reads', written'[k].pkt)
      <4>1. \A i \in DOMAIN w.out : w.out[i] \in Queued(queue)
        BY <2>1
      <4> QED BY <1>4, <2>3, <4>1 DEF Known, Numbers
    <3> QED BY <3>1, <3>2 DEF Known
  <2>6. ASSUME queue'.kind # "link", NEW i \in DOMAIN reads, reads[i].held
        PROVE  \/ \E k \in DOMAIN written' : written'[k].pkt = reads[i].pkt
               \/ reads[i].pkt \in Queued(queue')
    <3>1. \/ \E k \in DOMAIN written : written[k].pkt = reads[i].pkt
          \/ reads[i].pkt \in Queued(queue)
      BY <2>1, <2>6 DEF Accounted, Numbers
    <3> QED BY <2>1, <2>4, <3>1
  <2>7. Accounted'
    BY <1>4, <2>6 DEF Accounted
  <2>8. Numbered'
    BY <1>4 DEF Numbers, Numbered
  <2> QED BY <2>5, <2>7, <2>8 DEF Numbers
<1> QED BY <1>1, <1>2, <1>3, <1>4, Steps

-----------------------------------------------------------------------------
(* Order without rules. *)
LEMMA PacketFields ==
  /\ \A p \in Packet : p.id \in Nat /\ p.sent \in Nat /\ p.size \in Nat
  /\ \A r \in Read : r.pkt \in Packet /\ r.time \in Nat /\ r.held \in BOOLEAN
  /\ \A w \in Write : w.pkt \in Packet /\ w.time \in Nat
BY DEF Packet, Read, Write

LEMMA LineOrderedStep ==
  TypeOK /\ TypeOK' /\ Numbers /\ LineOrdered /\ [Next]_vars => LineOrdered'
<1> SUFFICES ASSUME TypeOK, TypeOK', Numbers, LineOrdered, [Next]_vars, queue'.kind # "adv"
             PROVE  LineOrdered'
  BY DEF LineOrdered
<1>0. /\ FerryQueue(queue) /\ now \in Nat /\ reads \in Seq(Read) /\ written \in Seq(Write)
      /\ Len(reads) \in Nat
  BY DEF TypeOK
<1>1. ASSUME queue.kind # "adv"
      PROVE  /\ Line(queue) \in Seq(Packet)
             /\ \A i, j \in DOMAIN Line(queue) : i < j => Line(queue)[i].id < Line(queue)[j].id
             /\ \A k \in DOMAIN written, j \in DOMAIN Line(queue) : written[k].pkt.id < Line(queue)[j].id
             /\ \A i, j \in DOMAIN written : i < j => written[i].pkt.id < written[j].pkt.id
  BY <1>0, <1>1, LineType DEF LineOrdered
<1>2. CASE Quiet
  <2>1. queue.kind # "adv" /\ Line(queue') = Line(queue) /\ written' = written
    BY <1>2 DEF Quiet, SameSettings
  <2> QED BY <1>1, <2>1 DEF LineOrdered
<1>3. ASSUME NEW p, Arriving(p) PROVE LineOrdered'
  BY <1>3 DEF Arriving, LineOrdered
<1>4. ASSUME ServiceRead, Reading(Head(tun)), written' = written PROVE LineOrdered'
  <2> DEFINE p == Head(tun)
             v == Line(queue)
             u == Line(queue')
  <2>1. Recorded(p) /\ p \in Packet
    BY <1>4, ReadingRecords DEF Reading
  <2>2. queue' \in ReadPacket(queue, p, now) /\ queue.kind # "adv"
    <3>1. \/ queue' \in ReadPacket(queue, p, now)
          \/ queue.kind = "adv" /\ SameSettings(queue, queue')
      BY <1>4 DEF Reading, BytesCounted
    <3>2. SameSettings(queue, queue')
      BY <1>0, <2>1, <3>1, Reads
    <3> QED BY <3>1, <3>2 DEF SameSettings
  <2> HIDE DEF p
  <2>3. p.id = Len(reads) + 1
    BY <1>0, <2>1 DEF Recorded, Numbers, Numbered, TypeOK
  <2>4. u = Append(v, p) \/ u = v
    BY <1>0, <2>1, <2>2, Reads
  <2>5. v \in Seq(Packet)
    BY <1>1, <2>2
  <2>6. \A j \in DOMAIN v : v[j].id <= Len(reads)
    <3> TAKE j \in DOMAIN v
    <3>1. v[j] \in Queued(queue)
      BY <2>2 DEF Queued
    <3>2. IsReadIn(reads, v[j])
      BY <3>1 DEF Numbers, Known
    <3> QED BY <1>0, <3>2 DEF IsReadIn
  <2>7. \A k \in DOMAIN written : written[k].pkt.id <= Len(reads)
    <3> TAKE k \in DOMAIN written
    <3>1. IsReadIn(reads, written[k].pkt)
      BY DEF Numbers, Known
    <3> QED BY <1>0, <3>1 DEF IsReadIn
  <2>8. /\ \A i, j \in DOMAIN v : i < j => v[i].id < v[j].id
        /\ \A k \in DOMAIN written, j \in DOMAIN v : written[k].pkt.id < v[j].id
        /\ \A i, j \in DOMAIN written : i < j => written[i].pkt.id < written[j].pkt.id
    BY <1>1, <2>2
  <2> HIDE DEF v
  <2>9. CASE u = Append(v, p)
    <3> HIDE DEF u
    <3>1. /\ \A i \in DOMAIN v : i \in DOMAIN u /\ u[i] = v[i]
          /\ \A i \in DOMAIN u : (i \in DOMAIN v /\ i <= Len(v)) \/ (i = Len(v) + 1 /\ u[i] = p)
          /\ Len(v) \in Nat
      BY <2>5, <2>9
    <3>2. \A i \in DOMAIN v : v[i].id \in Nat
      <4>1. \A i \in DOMAIN v : v[i] \in Packet
        BY <2>5
      <4> QED BY <4>1, PacketFields
    <3>3. \A k \in DOMAIN written : written[k].pkt.id \in Nat
      <4>1. \A k \in DOMAIN written : written[k] \in Write
        BY <1>0
      <4> QED BY <4>1, PacketFields
    <3>4. ASSUME NEW i \in DOMAIN u, NEW j \in DOMAIN u, i < j PROVE u[i].id < u[j].id
      <4>1. CASE j \in DOMAIN v /\ j <= Len(v)
        <5>1. i \in DOMAIN v
          BY <3>1, <3>4, <4>1
        <5> QED BY <2>8, <3>1, <3>4, <4>1, <5>1
      <4>2. CASE j = Len(v) + 1 /\ u[j] = p
        <5>1. i \in DOMAIN v
          BY <3>1, <3>4, <4>2
        <5>2. v[i].id < p.id
          BY <1>0, <2>3, <2>6, <3>2, <5>1
        <5> QED BY <3>1, <4>2, <5>1, <5>2
      <4> QED BY <3>1, <4>1, <4>2
    <3>5. ASSUME NEW k \in DOMAIN written, NEW j \in DOMAIN u PROVE written[k].pkt.id < u[j].id
      <4>1. written[k].pkt.id < p.id
        BY <1>0, <2>3, <2>7, <3>3
      <4> QED BY <2>8, <3>1, <4>1
    <3> QED BY <1>4, <2>8, <3>4, <3>5 DEF LineOrdered, u
  <2>10. CASE u = v
    BY <1>4, <2>8, <2>10 DEF LineOrdered
  <2> QED BY <2>4, <2>9, <2>10
<1>5. ASSUME NEW w, Writing(w) PROVE LineOrdered'
  <2> DEFINE v == Line(queue)
             a == w.out
             u == Line(queue')
  <2>1. queue.kind # "adv" /\ queue' = w.queue /\ w \in WritePackets(queue, now)
    BY <1>5 DEF Writing, SameSettings
  <2>2. PICK n \in 0..Len(v) : a = SubSeq(v, 1, n) /\ u = SubSeq(v, n + 1, Len(v))
    BY <1>0, <2>1, Writes
  <2>3. /\ v \in Seq(Packet)
        /\ \A i, j \in DOMAIN v : i < j => v[i].id < v[j].id
        /\ \A k \in DOMAIN written, j \in DOMAIN v : written[k].pkt.id < v[j].id
        /\ \A i, j \in DOMAIN written : i < j => written[i].pkt.id < written[j].pkt.id
    BY <1>1, <2>1
  <2> HIDE DEF v, u
  <2>4. /\ DOMAIN a = 1..n /\ (\A i \in 1..n : a[i] = v[i] /\ i \in DOMAIN v)
        /\ DOMAIN u = 1..(Len(v) - n)
        /\ \A i \in 1..(Len(v) - n) : u[i] = v[n + i] /\ n + i \in DOMAIN v
    BY <2>2, <2>3, SplitAt
  <2>5. Appended(w)
    BY <1>5, WritingAppends
  <2>6. Len(written) \in Nat /\ DOMAIN written = 1..Len(written)
    BY <1>0
  <2>7. ASSUME NEW k \in DOMAIN written'
        PROVE  \/ k \in DOMAIN written /\ written'[k] = written[k] /\ k \in 1..Len(written)
               \/ \E i \in 1..n : /\ k = Len(written) + i /\ i \in DOMAIN v
                                  /\ written'[k].pkt = v[i]
    <3>1. CASE k \in DOMAIN written
      BY <2>5, <2>6, <3>1 DEF Appended
    <3>2. CASE k \notin DOMAIN written
      <4>1. /\ k - Len(written) \in DOMAIN a /\ Len(written) + (k - Len(written)) = k
            /\ written'[k].pkt = a[k - Len(written)]
        BY <2>5, <3>2 DEF Appended
      <4> QED BY <2>4, <4>1
    <3> QED BY <3>1, <3>2
  <2>8. ASSUME NEW i \in DOMAIN u, NEW j \in DOMAIN u, i < j PROVE u[i].id < u[j].id
    <3>1. /\ u[i] = v[n + i] /\ n + i \in DOMAIN v /\ u[j] = v[n + j] /\ n + j \in DOMAIN v
          /\ i \in Nat /\ j \in Nat /\ n \in Nat
      BY <2>4
    <3>2. n + i < n + j
      BY <2>8, <3>1
    <3> QED BY <2>3, <3>1, <3>2
  <2>9. ASSUME NEW k \in DOMAIN written', NEW j \in DOMAIN u PROVE written'[k].pkt.id < u[j].id
    <3>1. j \in 1..(Len(v) - n) /\ u[j] = v[n + j] /\ n + j \in DOMAIN v /\ n \in Nat
      BY <2>4
    <3>2. CASE k \in DOMAIN written /\ written'[k] = written[k]
      BY <2>3, <3>1, <3>2
    <3>3. ASSUME NEW i \in 1..n, i \in DOMAIN v, written'[k].pkt = v[i] PROVE written'[k].pkt.id < u[j].id
      <4>1. i < n + j
        BY <3>1
      <4> QED BY <2>3, <3>1, <3>3, <4>1
    <3> QED BY <2>7, <3>2, <3>3
  <2>10. ASSUME NEW k \in DOMAIN written', NEW l \in DOMAIN written', k < l
         PROVE  written'[k].pkt.id < written'[l].pkt.id
    <3>1. CASE l \in DOMAIN written /\ written'[l] = written[l] /\ l \in 1..Len(written)
      <4>1. k \in DOMAIN written /\ written'[k] = written[k]
        BY <2>6, <2>7, <2>10, <3>1
      <4> QED BY <2>3, <2>10, <3>1, <4>1
    <3>2. ASSUME NEW j \in 1..n, l = Len(written) + j, j \in DOMAIN v, written'[l].pkt = v[j]
          PROVE  written'[k].pkt.id < written'[l].pkt.id
      <4>1. CASE k \in DOMAIN written /\ written'[k] = written[k]
        BY <2>3, <3>2, <4>1
      <4>2. ASSUME NEW i \in 1..n, k = Len(written) + i, i \in DOMAIN v, written'[k].pkt = v[i]
            PROVE  written'[k].pkt.id < written'[l].pkt.id
        <5>1. i < j
          BY <2>6, <2>10, <3>2, <4>2
        <5> QED BY <2>3, <3>2, <4>2, <5>1
      <4> QED BY <2>7, <4>1, <4>2
    <3> QED BY <2>7, <3>1, <3>2
  <2> QED BY <2>8, <2>9, <2>10 DEF LineOrdered, u
<1> QED BY <1>2, <1>3, <1>4, <1>5, Steps

-----------------------------------------------------------------------------
(* When packets are due. *)
LEMMA BytesSame ==
  ASSUME NEW rs, NEW S, NEW T, \A j \in DOMAIN rs : j \in S <=> j \in T
  PROVE  BytesIn(rs, S) = BytesIn(rs, T)
<1>1. [j \in DOMAIN rs |-> IF j \in S THEN rs[j].pkt.size ELSE 0]
        = [j \in DOMAIN rs |-> IF j \in T THEN rs[j].pkt.size ELSE 0]
  OBVIOUS
<1> QED BY <1>1, Zenon DEF BytesIn

\* rs with one more read.
OneMore(rs, us) ==
  /\ rs \in Seq(Read) /\ us \in Seq(Read) /\ Len(us) = Len(rs) + 1
  /\ \A i \in 1..Len(rs) : us[i] = rs[i]

LEMMA BytesGrow ==
  ASSUME NEW rs, NEW us, OneMore(rs, us), NEW S
  PROVE  /\ BytesIn(rs, S) \in Int
         /\ BytesIn(us, S) = BytesIn(rs, S) + IF Len(us) \in S THEN us[Len(us)].pkt.size ELSE 0
<1> DEFINE v == [j \in DOMAIN rs |-> IF j \in S THEN rs[j].pkt.size ELSE 0]
           w == [j \in DOMAIN us |-> IF j \in S THEN us[j].pkt.size ELSE 0]
<1>0. /\ rs \in Seq(Read) /\ us \in Seq(Read) /\ Len(us) = Len(rs) + 1
      /\ \A i \in 1..Len(rs) : us[i] = rs[i]
  BY DEF OneMore
<1>1. ASSUME NEW f \in Seq(Read), NEW g, g = [j \in DOMAIN f |-> IF j \in S THEN f[j].pkt.size ELSE 0]
      PROVE  g \in Seq(Int) /\ Len(g) = Len(f) /\ DOMAIN g = 1..Len(f)
             /\ \A j \in 1..Len(f) : g[j] = IF j \in S THEN f[j].pkt.size ELSE 0
  <2>1. \A j \in 1..Len(f) : f[j].pkt.size \in Int
    <3>1. \A j \in 1..Len(f) : f[j] \in Read
      OBVIOUS
    <3> QED BY <3>1, PacketFields
  <2>2. DOMAIN f = 1..Len(f) /\ Len(f) \in Nat
    OBVIOUS
  <2> QED BY <1>1, <2>1, <2>2
<1>2. v \in Seq(Int) /\ Len(v) = Len(rs) /\ \A j \in 1..Len(rs) : v[j] = IF j \in S THEN rs[j].pkt.size ELSE 0
  <2> HIDE DEF v
  <2> QED BY <1>0, <1>1 DEF v
<1>3. w \in Seq(Int) /\ Len(w) = Len(us) /\ \A j \in 1..Len(us) : w[j] = IF j \in S THEN us[j].pkt.size ELSE 0
  <2> HIDE DEF w
  <2> QED BY <1>0, <1>1 DEF w
<1>4. SumOf(v) = BytesIn(rs, S) /\ SumOf(w) = BytesIn(us, S)
  BY DEF BytesIn
<1> HIDE DEF v, w
<1>5. Len(rs) \in Nat /\ Len(us) \in 1..Len(us)
  BY <1>0
<1>6. \A j \in 1..Len(v) : w[j] = v[j]
  <2> TAKE j \in 1..Len(v)
  <2>1. j \in 1..Len(rs) /\ j \in 1..Len(us) /\ us[j] = rs[j]
    BY <1>0, <1>2, <1>5
  <2>2. v[j] = IF j \in S THEN rs[j].pkt.size ELSE 0
    BY <1>2, <2>1
  <2>3. w[j] = IF j \in S THEN us[j].pkt.size ELSE 0
    BY <1>3, <2>1
  <2> QED BY <2>1, <2>2, <2>3
<1>6a. Len(w) = Len(v) + 1 /\ v \in Seq(Int) /\ w \in Seq(Int)
  BY <1>0, <1>2, <1>3
<1>7. SumOf(w) = SumOf(v) + w[Len(w)]
  BY <1>6, <1>6a, SumLast
<1>8. SumOf(v) \in Int
  BY <1>2, SumType
<1> QED BY <1>3, <1>4, <1>5, <1>7, <1>8

\* What a rule says does not depend on what has been counted.
SameRules(q, r) == r.delay_ms = q.delay_ms /\ r.rules = q.rules /\ r.uplink = q.uplink

LEMMA RulesDecide ==
  ASSUME NEW q, NEW r, SameRules(q, r), NEW p
  PROVE  /\ CountedPacket(r, p) <=> CountedPacket(q, p)
         /\ Connection(r, p) = Connection(q, p)
         /\ RuleKey(r, p, RemotePort(r, p)) = RuleKey(q, p, RemotePort(q, p))
         /\ \A rule, b : DelayAfter(r, rule, b) = DelayAfter(q, rule, b)
         /\ ~CountedPacket(q, p) => GetDelayFor(r, p) = GetDelayFor(q, p)
<1>1. /\ r.delay_ms = q.delay_ms /\ r.rules = q.rules /\ r.uplink = q.uplink
  BY DEF SameRules
<1>2. \A port : RuleKey(r, p, port) = RuleKey(q, p, port)
  BY <1>1 DEF RuleKey, RemoteAddress
<1>3. RemotePort(r, p) = RemotePort(q, p) /\ Connection(r, p) = Connection(q, p)
  BY <1>1 DEF RemotePort, Connection, RemoteAddress
<1>4. HasWildcardRule(r, p) <=> HasWildcardRule(q, p)
  BY <1>1, <1>2 DEF HasWildcardRule
<1>5. CountedPacket(r, p) <=> CountedPacket(q, p)
  BY <1>1, <1>2, <1>3, <1>4 DEF CountedPacket
<1>6. \A rule, b : DelayAfter(r, rule, b) = DelayAfter(q, rule, b)
  BY <1>1 DEF DelayAfter
<1>7. \A rule : BaseDelay(r, rule) = BaseDelay(q, rule)
  BY <1>1 DEF BaseDelay
<1>8. ~CountedPacket(q, p) => GetDelayFor(r, p) = GetDelayFor(q, p)
  BY <1>1, <1>2, <1>3, <1>4, <1>5, <1>7 DEF GetDelayFor
<1> QED BY <1>2, <1>3, <1>5, <1>6, <1>8

\* The delay a packet read earlier is due does not change.
LEMMA DueStays ==
  ASSUME NEW q, NEW r, SameSettings(q, r), q.kind = "adv" => SameRules(q, r),
         NEW rs, NEW us, rs = us \/ OneMore(rs, us), NEW p \in Packet, IsReadIn(rs, p)
  PROVE  DueIn(r, us, p) = DueIn(q, rs, p)
<1>0. r.kind = q.kind /\ (q.kind = "delay" => r.delay_ms = q.delay_ms)
  BY DEF SameSettings
<1>1. us[p.id] = rs[p.id] /\ \A j \in 1..(p.id - 1) : us[j] = rs[j]
  <2>1. CASE rs = us
    BY <2>1
  <2>2. CASE OneMore(rs, us)
    <3>1. p.id \in Nat /\ Len(rs) \in Nat /\ p.id \in 1..Len(rs)
      BY <2>2, PacketFields DEF OneMore, IsReadIn
    <3>2. \A j \in 1..(p.id - 1) : j \in 1..Len(rs)
      BY <3>1
    <3> QED BY <2>2, <3>1, <3>2 DEF OneMore
  <2> QED BY <2>1, <2>2
<1>2. CASE q.kind = "adv"
  <2>1. /\ CountedPacket(r, p) <=> CountedPacket(q, p)
        /\ RuleKey(r, p, RemotePort(r, p)) = RuleKey(q, p, RemotePort(q, p))
        /\ \A rule, b : DelayAfter(r, rule, b) = DelayAfter(q, rule, b)
        /\ ~CountedPacket(q, p) => GetDelayFor(r, p) = GetDelayFor(q, p)
        /\ r.rules = q.rules
    BY <1>2, RulesDecide DEF SameRules
  <2>2. SentBefore(r, us, p) = SentBefore(q, rs, p)
    <3>1. \A x : (CountedPacket(r, x) <=> CountedPacket(q, x)) /\ Connection(r, x) = Connection(q, x)
      BY <1>2, RulesDecide
    <3> QED BY <1>1, <3>1 DEF SentBefore
  <2> DEFINE S == SentBefore(q, rs, p)
  <2>3. BytesIn(us, S) = BytesIn(rs, S)
    <3>1. CASE rs = us
      BY <3>1
    <3>2. CASE OneMore(rs, us)
      <4>1. p.id \in Nat /\ Len(rs) \in Nat /\ p.id \in 1..Len(rs) /\ Len(us) = Len(rs) + 1
        BY <3>2, PacketFields DEF OneMore, IsReadIn
      <4>2. Len(us) \notin S
        <5>1. S \subseteq 1..(p.id - 1)
          BY DEF SentBefore
        <5>2. Len(us) \notin 1..(p.id - 1)
          BY <4>1
        <5> HIDE DEF S
        <5> QED BY <5>1, <5>2
      <4> HIDE DEF S
      <4>3. BytesIn(rs, S) \in Int /\ BytesIn(us, S) = BytesIn(rs, S) + 0
        BY <3>2, <4>2, BytesGrow
      <4> QED BY <4>3
    <3> QED BY <3>1, <3>2
  <2> HIDE DEF S
  <2>4. DelayIn(r, us, p) = DelayIn(q, rs, p)
    <3>1. CASE CountedPacket(q, p)
      <4> DEFINE rule == q.rules[RuleKey(q, p, RemotePort(q, p))]
      <4>1. DelayIn(q, rs, p) = DelayAfter(q, rule, BytesIn(rs, SentBefore(q, rs, p)))
        BY <1>2, <3>1 DEF DelayIn
      <4>2. DelayIn(r, us, p) = DelayAfter(r, r.rules[RuleKey(r, p, RemotePort(r, p))],
                                           BytesIn(us, SentBefore(r, us, p)))
        BY <1>0, <1>2, <2>1, <3>1 DEF DelayIn
      <4>3. r.rules[RuleKey(r, p, RemotePort(r, p))] = rule
        BY <2>1
      <4> HIDE DEF rule
      <4>4. DelayIn(r, us, p) = DelayAfter(q, rule, BytesIn(us, SentBefore(r, us, p)))
        BY <2>1, <4>2, <4>3
      <4>5. BytesIn(us, SentBefore(r, us, p)) = BytesIn(rs, SentBefore(q, rs, p))
        BY <2>2, <2>3 DEF S
      <4> QED BY <4>1, <4>4, <4>5
    <3>2. CASE ~CountedPacket(q, p)
      BY <1>0, <1>2, <2>1, <3>2 DEF DelayIn
    <3> QED BY <3>1, <3>2
  <2> QED BY <1>1, <2>4 DEF DueIn
<1>3. CASE q.kind # "adv"
  <2>1. DelayIn(r, us, p) = DelayIn(q, rs, p)
    BY <1>0, <1>3 DEF DelayIn
  <2> QED BY <1>1, <2>1 DEF DueIn
<1> QED BY <1>2, <1>3

-----------------------------------------------------------------------------
(* The counters of an AdvDelayQueue. *)

\* The queue and the packets read, with one more.
LEMMA GrowsByOne ==
  ASSUME TypeOK, TypeOK', NEW p, Recorded(p)
  PROVE  OneMore(reads, reads') /\ Len(reads') = Len(reads) + 1 /\ Len(reads) \in Nat
         /\ reads'[Len(reads')].pkt = p /\ reads'[Len(reads')].time = now
BY DEF TypeOK, Recorded, OneMore

LEMMA CountersRead ==
  ASSUME NEW q, NEW r, AdvDelayQueue(q), SameRules(q, r),
         NEW rs, NEW us, OneMore(rs, us), NEW p \in Packet, us[Len(us)].pkt = p, CountersOf(q, rs),
         r.num_bytes = q.num_bytes + p.size,
         CountedPacket(q, p) =>
           /\ r.byte_counters = Plus(q.byte_counters, Connection(q, p), p.size)
           /\ r.pkt_counters = Plus(q.pkt_counters, Connection(q, p), 1),
         ~CountedPacket(q, p) =>
           r.byte_counters = q.byte_counters /\ r.pkt_counters = q.pkt_counters
  PROVE  CountersOf(r, us)
<1> DEFINE n == Len(us)
<1>0. /\ rs \in Seq(Read) /\ us \in Seq(Read) /\ n = Len(rs) + 1 /\ Len(rs) \in Nat
      /\ \A i \in 1..Len(rs) : us[i] = rs[i]
      /\ DOMAIN rs = 1..Len(rs) /\ DOMAIN us = 1..n
  BY DEF OneMore
<1> DEFINE size == p.size
<1>s. size \in Nat
  BY PacketFields
<1>1. \A S : /\ BytesIn(rs, S) \in Int
             /\ BytesIn(us, S) = BytesIn(rs, S) + IF n \in S THEN size ELSE 0
  <2> TAKE S
  <2>1. /\ BytesIn(rs, S) \in Int
        /\ BytesIn(us, S) = BytesIn(rs, S) + IF n \in S THEN us[n].pkt.size ELSE 0
    BY BytesGrow
  <2> QED BY <2>1
<1> HIDE DEF n
<1>2. r.num_bytes = BytesIn(us, DOMAIN us)
  <2>1. BytesIn(us, DOMAIN us) = BytesIn(rs, DOMAIN us) + size
    BY <1>0, <1>1
  <2>2. BytesIn(rs, DOMAIN us) = BytesIn(rs, DOMAIN rs)
    BY <1>0, BytesSame
  <2> QED BY <2>1, <2>2 DEF CountersOf
<1>3. \A x : (CountedPacket(r, x) <=> CountedPacket(q, x)) /\ Connection(r, x) = Connection(q, x)
  BY RulesDecide
<1>4. r.rules = q.rules
  BY DEF SameRules
<1>5. ASSUME NEW c \in Connections(q.rules)
      PROVE  /\ r.byte_counters[c] = BytesIn(us, SentOn(r, us, c))
             /\ IF SentOn(r, us, c) = {} THEN c \notin DOMAIN r.pkt_counters
                ELSE /\ c \in DOMAIN r.pkt_counters
                     /\ r.pkt_counters[c] = Cardinality(SentOn(r, us, c))
  <2> DEFINE S == SentOn(q, rs, c)
             T == SentOn(r, us, c)
             own == CountedPacket(q, p) /\ Connection(q, p) = c
  <2>1. T = IF own THEN S \cup {n} ELSE S
    <3>1. \A i \in 1..Len(rs) : us[i] = rs[i]
      BY <1>0
    <3>2. T = {i \in DOMAIN us : CountedPacket(q, us[i].pkt) /\ Connection(q, us[i].pkt) = c}
      BY <1>3 DEF SentOn
    <3>3. S = {i \in DOMAIN rs : CountedPacket(q, rs[i].pkt) /\ Connection(q, rs[i].pkt) = c}
      BY DEF SentOn
    <3> HIDE DEF S, T
    <3>4. \A i : i \in DOMAIN us <=> i \in DOMAIN rs \/ i = n
      BY <1>0
    <3>5. \A i : i \in T <=> (i \in S \/ (i = n /\ own))
      <4> TAKE i
      <4>1. CASE i \in DOMAIN rs
        <5>1. us[i] = rs[i] /\ i # n
          BY <1>0, <4>1
        <5> QED BY <3>2, <3>3, <3>4, <4>1, <5>1
      <4>2. CASE i = n
        <5>1. us[i].pkt = p /\ n \notin DOMAIN rs
          BY <1>0, <4>2 DEF n
        <5> QED BY <3>2, <3>3, <3>4, <4>2, <5>1
      <4>3. CASE i \notin DOMAIN us
        BY <3>2, <3>3, <3>4, <4>3
      <4> QED BY <3>4, <4>1, <4>2, <4>3
    <3> QED BY <3>5
  <2>2. S \subseteq 1..Len(rs) /\ n \notin S /\ IsFiniteSet(S)
    <3>1. S \subseteq 1..Len(rs)
      BY <1>0 DEF SentOn
    <3>2. IsFiniteSet(1..Len(rs))
      BY <1>0, FS_Interval
    <3>3. IsFiniteSet(S)
      BY <3>1, <3>2, FS_Subset
    <3>4. n \notin 1..Len(rs)
      BY <1>0
    <3> QED BY <3>1, <3>3, <3>4
  <2>3. /\ q.byte_counters[c] = BytesIn(rs, S)
        /\ IF S = {} THEN c \notin DOMAIN q.pkt_counters
           ELSE c \in DOMAIN q.pkt_counters /\ q.pkt_counters[c] = Cardinality(S)
    BY DEF CountersOf
  <2> HIDE DEF S, T
  <2>4. /\ c \in DOMAIN q.byte_counters /\ q.byte_counters[c] \in Nat
        /\ c \in DOMAIN q.pkt_counters => q.pkt_counters[c] \in Nat
    BY DEF AdvDelayQueue
  <2>5. CASE own
    <3>1. T = S \cup {n} /\ Connection(q, p) = c
      BY <2>1, <2>5
    <3>2. /\ r.byte_counters = Plus(q.byte_counters, c, size)
          /\ r.pkt_counters = Plus(q.pkt_counters, c, 1)
      BY <2>5
    <3>3. r.byte_counters[c] = q.byte_counters[c] + size
      BY <2>4, <3>2 DEF Plus
    <3>4. BytesIn(us, T) = BytesIn(rs, T) + size
      BY <1>1, <3>1
    <3>5. BytesIn(rs, T) = BytesIn(rs, S)
      <4>1. \A j \in DOMAIN rs : j \in T <=> j \in S
        BY <1>0, <3>1
      <4> QED BY <4>1, BytesSame
    <3>6. c \in DOMAIN r.pkt_counters
      BY <3>2 DEF Plus
    <3>7. r.pkt_counters[c] = (IF c \in DOMAIN q.pkt_counters THEN q.pkt_counters[c] ELSE 0) + 1
      BY <3>2 DEF Plus
    <3>8. Cardinality(T) = Cardinality(S) + 1
      BY <2>2, <3>1, FS_AddElement
    <3>9. T # {}
      BY <3>1
    <3>10. r.pkt_counters[c] = Cardinality(T)
      <4>1. CASE S = {}
        <5>1. Cardinality(S) = 0
          BY <4>1, FS_EmptySet
        <5> QED BY <2>3, <3>7, <3>8, <4>1, <5>1
      <4>2. CASE S # {}
        BY <2>3, <3>7, <3>8, <4>2
      <4> QED BY <4>1, <4>2
    <3> QED BY <2>3, <3>3, <3>4, <3>5, <3>6, <3>9, <3>10 DEF T
  <2>6. CASE ~own
    <3>1. T = S
      BY <2>1, <2>6
    <3>2. BytesIn(us, S) = BytesIn(rs, S)
      <4>1. BytesIn(rs, S) \in Int /\ BytesIn(us, S) = BytesIn(rs, S) + 0
        BY <1>1, <2>2
      <4> QED BY <4>1
    <3>3. CASE ~CountedPacket(q, p)
      BY <2>3, <3>1, <3>2, <3>3 DEF T
    <3>4. CASE CountedPacket(q, p) /\ Connection(q, p) # c
      <4> DEFINE d == Connection(q, p)
      <4>1. /\ r.byte_counters = Plus(q.byte_counters, d, size)
            /\ r.pkt_counters = Plus(q.pkt_counters, d, 1)
        BY <3>4
      <4>2. d # c
        BY <3>4
      <4> HIDE DEF d
      <4>3. r.byte_counters[c] = q.byte_counters[c] + 0
        BY <2>4, <4>1, <4>2 DEF Plus
      <4>4. /\ c \in DOMAIN r.pkt_counters <=> c \in DOMAIN q.pkt_counters
            /\ c \in DOMAIN q.pkt_counters => r.pkt_counters[c] = q.pkt_counters[c] + 0
        BY <4>1, <4>2 DEF Plus
      <4>5. /\ r.byte_counters[c] = q.byte_counters[c]
            /\ c \in DOMAIN q.pkt_counters => r.pkt_counters[c] = q.pkt_counters[c]
        BY <2>4, <4>3, <4>4
      <4> QED BY <2>3, <3>1, <3>2, <4>4, <4>5 DEF T
    <3> QED BY <2>6, <3>3, <3>4
  <2> QED BY <2>5, <2>6
<1> QED BY <1>2, <1>4, <1>5 DEF CountersOf

\* What reading p makes of an AdvDelayQueue.
AdvGets(q, p, t, r) ==
  /\ AdvDelayQueue(q) /\ SameRules(q, r) /\ r.kind = "adv"
  /\ r.num_bytes = q.num_bytes + p.size
  /\ CountedPacket(q, p) => /\ r.byte_counters = Plus(q.byte_counters, Connection(q, p), p.size)
                            /\ r.pkt_counters = Plus(q.pkt_counters, Connection(q, p), 1)
  /\ ~CountedPacket(q, p) => r.byte_counters = q.byte_counters /\ r.pkt_counters = q.pkt_counters
  /\ \/ r.held = q.held
     \/ r.held = q.held \cup {[release |-> t + GetDelayFor(q, p), pkt |-> p]}

LEMMA AdvReading ==
  ASSUME TypeOK, NEW p, Reading(p), queue.kind = "adv"
  PROVE  AdvGets(queue, p, now, queue')
<1>0. FerryQueue(queue) /\ now \in Nat /\ p \in Packet
  BY DEF TypeOK, Reading
<1>1. AdvDelayQueue(queue)
  BY <1>0, Kinds
<1>2. CASE queue' \in ReadPacket(queue, p, now)
  <2>1. PacketTaken(queue, p, now, queue')
    BY <1>0, <1>1, <1>2, AdvReads
  <2> QED BY <1>1, <2>1 DEF PacketTaken, AdvGets, SameSettings, SameRules
<1>3. CASE Refuses(queue, p) /\ BytesCounted(queue, p, queue')
  <2>1. ~CountedPacket(queue, p)
    BY <1>3 DEF Refuses, CountedPacket, TCP, ICMP
  <2> QED BY <1>1, <1>3, <2>1 DEF BytesCounted, AdvGets, SameSettings, SameRules
<1> QED BY <1>2, <1>3 DEF Reading

LEMMA CountersStep == TypeOK /\ TypeOK' /\ Counters /\ [Next]_vars => Counters'
<1> SUFFICES ASSUME TypeOK, TypeOK', Counters, [Next]_vars, queue'.kind = "adv"
             PROVE  CountersOf(queue', reads')
  BY DEF Counters
<1>1. CASE Quiet
  BY <1>1 DEF Quiet, SameSettings, Counters
<1>2. ASSUME NEW p, Arriving(p) PROVE CountersOf(queue', reads')
  BY <1>2 DEF Arriving, Counters
<1>3. ASSUME Reading(Head(tun)) PROVE CountersOf(queue', reads')
  <2> DEFINE p == Head(tun)
  <2>1. queue.kind = "adv"
    <3>1. FerryQueue(queue) /\ now \in Nat /\ p \in Packet
      BY <1>3 DEF TypeOK, Reading
    <3>2. queue' \in ReadPacket(queue, p, now) => SameSettings(queue, queue')
      BY <3>1, Reads
    <3> QED BY <1>3, <3>2 DEF Reading, SameSettings
  <2>2. AdvGets(queue, p, now, queue') /\ p \in Packet /\ Recorded(p)
    BY <1>3, <2>1, AdvReading, ReadingRecords DEF Reading
  <2> HIDE DEF p
  <2>3. OneMore(reads, reads') /\ reads'[Len(reads')].pkt = p
    BY <2>2, GrowsByOne
  <2>4. CountersOf(queue, reads)
    BY <2>1 DEF Counters
  <2> QED BY <2>2, <2>3, <2>4, CountersRead DEF AdvGets
<1>4. ASSUME NEW w, Writing(w), reads' = reads PROVE CountersOf(queue', reads')
  <2>1. queue.kind = "adv" /\ queue' = w.queue /\ w \in WritePackets(queue, now)
    BY <1>4 DEF Writing, SameSettings
  <2>2. FerryQueue(queue) /\ now \in Nat /\ AdvDelayQueue(queue)
    BY <2>1, Kinds DEF TypeOK
  <2>3. DueRemoved(queue, now, queue')
    BY <2>1, <2>2, AdvWrites
  <2>4. /\ SameRules(queue, queue') /\ queue'.num_bytes = queue.num_bytes
        /\ queue'.byte_counters = queue.byte_counters /\ queue'.pkt_counters = queue.pkt_counters
    BY <2>1, <2>3 DEF DueRemoved, SameSettings, SameRules
  <2>5. \A c : SentOn(queue', reads, c) = SentOn(queue, reads, c)
    <3>1. \A x : (CountedPacket(queue', x) <=> CountedPacket(queue, x))
                 /\ Connection(queue', x) = Connection(queue, x)
      BY <2>4, RulesDecide
    <3> QED BY <3>1 DEF SentOn
  <2>6. CountersOf(queue, reads) /\ queue'.rules = queue.rules
    BY <2>1, <2>4 DEF Counters, SameRules
  <2> QED BY <1>4, <2>4, <2>5, <2>6 DEF CountersOf
<1> QED BY <1>1, <1>2, <1>3, <1>4, Steps

LEMMA CountersInit == Init => Counters
<1> SUFFICES ASSUME Init, queue.kind = "adv" PROVE CountersOf(queue, reads)
  BY DEF Counters
<1>1. /\ queue.num_bytes = 0 /\ queue.byte_counters = [c \in Connections(queue.rules) |-> 0]
      /\ queue.pkt_counters = <<>>
  BY TypeInit
<1>2. reads = <<>>
  BY DEF Init
<1>3. \A S : BytesIn(<<>>, S) = 0
  <2> TAKE S
  <2>1. [j \in DOMAIN <<>> |-> IF j \in S THEN <<>>[j].pkt.size ELSE 0] = <<>>
    OBVIOUS
  <2>2. SumOf(<<>>) = 0
    BY SumEmpty
  <2> QED BY <2>1, <2>2, Zenon DEF BytesIn
<1>4. \A c : SentOn(queue, <<>>, c) = {}
  BY DEF SentOn
<1>5. DOMAIN queue.pkt_counters = {}
  BY <1>1
<1>6. queue.num_bytes = BytesIn(reads, DOMAIN reads)
  BY <1>1, <1>2, <1>3
<1>7. ASSUME NEW c \in Connections(queue.rules)
      PROVE  /\ queue.byte_counters[c] = BytesIn(reads, SentOn(queue, reads, c))
             /\ SentOn(queue, reads, c) = {} /\ c \notin DOMAIN queue.pkt_counters
  <2>1. queue.byte_counters[c] = 0
    BY <1>1
  <2> QED BY <1>2, <1>3, <1>4, <1>5, <2>1
<1> QED BY <1>6, <1>7 DEF CountersOf

-----------------------------------------------------------------------------
(* The release times are those at which packets are due. *)
LEMMA SettingsKept ==
  TypeOK /\ TypeOK' /\ [Next]_vars =>
    /\ SameSettings(queue, queue')
    /\ reads = reads' \/ OneMore(reads, reads')
<1> SUFFICES ASSUME TypeOK, TypeOK', [Next]_vars
             PROVE  SameSettings(queue, queue') /\ (reads = reads' \/ OneMore(reads, reads'))
  OBVIOUS
<1>1. CASE Quiet
  BY <1>1 DEF Quiet
<1>2. ASSUME NEW p, Arriving(p) PROVE SameSettings(queue, queue') /\ reads = reads'
  BY <1>2 DEF Arriving, SameSettings
<1>3. ASSUME NEW p, Reading(p) PROVE SameSettings(queue, queue') /\ OneMore(reads, reads')
  <2>1. FerryQueue(queue) /\ now \in Nat /\ p \in Packet
    BY <1>3 DEF TypeOK, Reading
  <2>2. SameSettings(queue, queue')
    <3>1. queue' \in ReadPacket(queue, p, now) => SameSettings(queue, queue')
      BY <2>1, Reads
    <3> QED BY <1>3, <3>1 DEF Reading, BytesCounted
  <2> QED BY <1>3, <2>2, ReadingRecords, GrowsByOne
<1>4. ASSUME NEW w, Writing(w) PROVE SameSettings(queue, queue')
  BY <1>4 DEF Writing
<1> QED BY <1>1, <1>2, <1>3, <1>4, Steps

LEMMA DueKept ==
  TypeOK /\ TypeOK' /\ [Next]_vars =>
    \A x \in Packet : IsReadIn(reads, x) => DueIn(queue', reads', x) = DueIn(queue, reads, x)
<1> SUFFICES ASSUME TypeOK, TypeOK', [Next]_vars, NEW x \in Packet, IsReadIn(reads, x)
             PROVE  DueIn(queue', reads', x) = DueIn(queue, reads, x)
  OBVIOUS
<1>1. SameSettings(queue, queue') /\ (reads = reads' \/ OneMore(reads, reads'))
  BY SettingsKept
<1>2. queue.kind = "adv" => SameRules(queue, queue')
  BY <1>1 DEF SameSettings, SameRules
<1> QED BY <1>1, <1>2, DueStays

\* The packet just read is due as its queue has reckoned.
LEMMA NewDue ==
  ASSUME TypeOK, TypeOK', Numbers, Counters, NEW p, Reading(p)
  PROVE  /\ queue.kind = "delay" => DueIn(queue', reads', p) = now + queue.delay_ms
         /\ queue.kind = "adv" => DueIn(queue', reads', p) = now + GetDelayFor(queue, p)
         /\ queue.kind \notin {"delay", "adv"} => DueIn(queue', reads', p) = now
         /\ p \in Packet /\ p.id = Len(reads) + 1 /\ IsReadIn(reads', p)
<1>0. /\ FerryQueue(queue) /\ now \in Nat /\ p \in Packet /\ reads \in Seq(Read)
      /\ reads' \in Seq(Read)
  BY DEF TypeOK, Reading
<1>1. Recorded(p)
  BY ReadingRecords
<1>2. /\ OneMore(reads, reads') /\ Len(reads') = Len(reads) + 1 /\ Len(reads) \in Nat
      /\ reads'[Len(reads')].pkt = p /\ reads'[Len(reads')].time = now
  BY <1>1, GrowsByOne
<1>3. p.id = Len(reads')
  BY <1>0, <1>1, <1>2 DEF Recorded, Numbers, Numbered
<1>4. DueIn(queue', reads', p) = now + DelayIn(queue', reads', p)
  BY <1>2, <1>3 DEF DueIn
<1>5. SameSettings(queue, queue')
  <2>1. queue' \in ReadPacket(queue, p, now) => SameSettings(queue, queue')
    BY <1>0, Reads
  <2> QED BY <2>1 DEF Reading, BytesCounted
<1>9. IsReadIn(reads', p) /\ p.id = Len(reads) + 1 /\ p \in Packet
  BY <1>0, <1>2, <1>3 DEF IsReadIn
<1>6. CASE queue.kind = "delay"
  <2>1. DelayIn(queue', reads', p) = queue.delay_ms
    BY <1>5, <1>6 DEF DelayIn, SameSettings
  <2> QED BY <1>4, <1>6, <1>9, <2>1
<1>7. CASE queue.kind = "adv"
  <2>1. AdvGets(queue, p, now, queue')
    BY <1>7, AdvReading
  <2>2. SameRules(queue, queue') /\ AdvDelayQueue(queue) /\ queue'.kind = "adv"
    BY <2>1 DEF AdvGets
  <2>3. /\ CountedPacket(queue', p) <=> CountedPacket(queue, p)
        /\ RuleKey(queue', p, RemotePort(queue', p)) = RuleKey(queue, p, RemotePort(queue, p))
        /\ \A rule, b : DelayAfter(queue', rule, b) = DelayAfter(queue, rule, b)
        /\ ~CountedPacket(queue, p) => GetDelayFor(queue', p) = GetDelayFor(queue, p)
        /\ \A x : (CountedPacket(queue', x) <=> CountedPacket(queue, x))
                  /\ Connection(queue', x) = Connection(queue, x)
    BY <2>2, RulesDecide
  <2>4. CASE CountedPacket(queue, p)
    <3> DEFINE c == Connection(queue, p)
               rule == queue.rules[RuleKey(queue, p, RemotePort(queue, p))]
    <3>1. c \in Connections(queue.rules)
      BY <1>0, <2>2, <2>4, DelayIsNat
    <3>2. queue.byte_counters[c] = BytesIn(reads, SentOn(queue, reads, c))
      BY <1>7, <3>1 DEF Counters, CountersOf
    <3>3. SentBefore(queue', reads', p) = SentOn(queue, reads, c)
      <4>1. 1..(p.id - 1) = DOMAIN reads /\ \A i \in DOMAIN reads : reads'[i] = reads[i]
        BY <1>0, <1>2, <1>3 DEF OneMore
      <4> DEFINE P(x) == CountedPacket(queue, x) /\ Connection(queue, x) = c
                 R(x) == CountedPacket(queue', x) /\ Connection(queue', x) = Connection(queue', p)
      <4>2. \A x : R(x) <=> P(x)
        BY <2>3
      <4>3. SentOn(queue, reads, c) = {i \in DOMAIN reads : P(reads[i].pkt)}
        BY DEF SentOn
      <4>4. SentBefore(queue', reads', p) = {i \in 1..(p.id - 1) : R(reads'[i].pkt)}
        BY DEF SentBefore
      <4> HIDE DEF P, R
      <4> QED BY <4>1, <4>2, <4>3, <4>4
    <3>4. BytesIn(reads', SentOn(queue, reads, c)) = BytesIn(reads, SentOn(queue, reads, c))
      <4> DEFINE S == SentOn(queue, reads, c)
      <4>1. Len(reads') \notin S
        <5>1. S \subseteq DOMAIN reads
          BY DEF SentOn
        <5>2. Len(reads') \notin DOMAIN reads
          BY <1>0, <1>2
        <5> QED BY <5>1, <5>2
      <4> HIDE DEF S
      <4>2. BytesIn(reads, S) \in Int /\ BytesIn(reads', S) = BytesIn(reads, S) + 0
        BY <1>2, <4>1, BytesGrow
      <4> QED BY <4>2 DEF S
    <3>5. GetDelayFor(queue, p) = DelayAfter(queue, rule, queue.byte_counters[c])
      BY <2>4 DEF GetDelayFor
    <3>6. DelayIn(queue', reads', p)
            = DelayAfter(queue', queue'.rules[RuleKey(queue', p, RemotePort(queue', p))],
                         BytesIn(reads', SentBefore(queue', reads', p)))
      BY <2>2, <2>3, <2>4 DEF DelayIn
    <3>7. queue'.rules[RuleKey(queue', p, RemotePort(queue', p))] = rule
      BY <2>2, <2>3 DEF SameRules
    <3> HIDE DEF rule, c
    <3>8. DelayIn(queue', reads', p) = DelayAfter(queue, rule, BytesIn(reads', SentBefore(queue', reads', p)))
      BY <2>3, <3>6, <3>7
    <3>9. BytesIn(reads', SentBefore(queue', reads', p)) = queue.byte_counters[c]
      BY <3>2, <3>3, <3>4
    <3>10. DelayIn(queue', reads', p) = GetDelayFor(queue, p)
      BY <3>5, <3>8, <3>9
    <3> QED BY <1>4, <1>7, <1>9, <3>10
  <2>5. CASE ~CountedPacket(queue, p)
    <3>1. DelayIn(queue', reads', p) = GetDelayFor(queue, p)
      BY <2>2, <2>3, <2>5 DEF DelayIn
    <3> QED BY <1>4, <1>7, <1>9, <3>1
  <2> QED BY <2>4, <2>5
<1>8. CASE queue.kind \notin {"delay", "adv"}
  <2>1. DelayIn(queue', reads', p) = 0
    BY <1>5, <1>8 DEF DelayIn, SameSettings
  <2>2. DueIn(queue', reads', p) = now + 0
    BY <1>4, <2>1
  <2>3. DueIn(queue', reads', p) = now
    BY <1>0, <2>2
  <2> QED BY <1>8, <1>9, <2>3
<1> QED BY <1>6, <1>7, <1>8

\* A packet that is held is in the queue, and has been read.
LEMMA HeldIsRead ==
  ASSUME TypeOK, Numbers
  PROVE  /\ queue.kind = "delay" =>
              /\ queue \in ADelayQueue
              /\ \A i \in DOMAIN queue.held : /\ queue.held[i].pkt \in Packet
                                              /\ queue.held[i].release \in Nat
                                              /\ queue.held[i].pkt \in Queued(queue)
                                              /\ IsReadIn(reads, queue.held[i].pkt)
         /\ queue.kind = "adv" =>
              /\ AdvDelayQueue(queue)
              /\ \A h \in queue.held : /\ h.pkt \in Packet /\ h.release \in Nat
                                       /\ h.pkt \in Queued(queue)
                                       /\ IsReadIn(reads, h.pkt)
<1>0. FerryQueue(queue)
  BY DEF TypeOK
<1>1. \A h \in Held : h.pkt \in Packet /\ h.release \in Nat
  BY DEF Held
<1>2. ASSUME queue.kind = "delay", NEW i \in DOMAIN queue.held
      PROVE  /\ queue.held[i].pkt \in Packet
             /\ queue.held[i].release \in Nat
             /\ queue.held[i].pkt \in Queued(queue)
             /\ IsReadIn(reads, queue.held[i].pkt)
  <2>1. queue \in ADelayQueue
    BY <1>0, <1>2, Kinds
  <2>2. queue.held \in Seq(Held) /\ queue.held[i] \in Held
    BY <1>2, <2>1 DEF ADelayQueue
  <2>3. Line(queue) = [j \in DOMAIN queue.held |-> queue.held[j].pkt]
    BY <1>2 DEF Line
  <2>4. i \in DOMAIN Line(queue) /\ Line(queue)[i] = queue.held[i].pkt
    BY <1>2, <2>3
  <2>5. queue.held[i].pkt \in Queued(queue)
    BY <1>2, <2>4 DEF Queued
  <2> QED BY <1>1, <2>2, <2>5 DEF Numbers, Known
<1>3. ASSUME queue.kind = "adv", NEW h \in queue.held
      PROVE  /\ h.pkt \in Packet /\ h.release \in Nat
             /\ h.pkt \in Queued(queue)
             /\ IsReadIn(reads, h.pkt)
  <2>1. AdvDelayQueue(queue)
    BY <1>0, <1>3, Kinds
  <2>2. h \in Held
    BY <1>3, <2>1 DEF AdvDelayQueue
  <2>3. h.pkt \in Queued(queue)
    BY <1>3 DEF Queued
  <2> QED BY <1>1, <2>2, <2>3 DEF Numbers, Known
<1> QED BY <1>0, <1>2, <1>3, Kinds

LEMMA ReleasesStep ==
  TypeOK /\ TypeOK' /\ Numbers /\ Counters /\ Releases /\ [Next]_vars => Releases'
<1> SUFFICES ASSUME TypeOK, TypeOK', Numbers, Counters, Releases, [Next]_vars
             PROVE  Releases'
  OBVIOUS
<1>0. FerryQueue(queue) /\ now \in Nat
  BY DEF TypeOK
<1>1. \A x \in Packet : IsReadIn(reads, x) => DueIn(queue', reads', x) = DueIn(queue, reads, x)
  BY DueKept
<1>2. SameSettings(queue, queue')
  BY SettingsKept
<1>3. ASSUME queue'.kind = "delay"
      PROVE  /\ \A i \in DOMAIN queue'.held : queue'.held[i].release = DueIn(queue', reads', queue'.held[i].pkt)
             /\ \A i, j \in DOMAIN queue'.held : i < j => queue'.held[i].release <= queue'.held[j].release
             /\ \A i \in DOMAIN queue'.held : queue'.held[i].release <= now' + queue'.delay_ms
  <2> DEFINE v == queue.held
             u == queue'.held
             d == queue.delay_ms
  <2>1. queue.kind = "delay" /\ queue'.delay_ms = d
    BY <1>2, <1>3 DEF SameSettings
  <2>2. queue \in ADelayQueue /\ v \in Seq(Held) /\ d \in Nat
    BY <1>0, <2>1, Kinds DEF ADelayQueue
  <2>3. /\ \A i \in DOMAIN v : v[i].release = DueIn(queue, reads, v[i].pkt)
        /\ \A i, j \in DOMAIN v : i < j => v[i].release <= v[j].release
        /\ \A i \in DOMAIN v : v[i].release <= now + d
    BY <2>1 DEF Releases
  <2>4. \A i \in DOMAIN v : v[i].pkt \in Packet /\ v[i].release \in Nat /\ IsReadIn(reads, v[i].pkt)
    BY <2>1, HeldIsRead
  <2>5. \A i \in DOMAIN v : v[i].release = DueIn(queue', reads', v[i].pkt)
    BY <1>1, <2>3, <2>4
  <2>6. ASSUME u = v, now' \in {now, now + 1}
        PROVE  /\ \A i \in DOMAIN u : u[i].release = DueIn(queue', reads', u[i].pkt)
               /\ \A i, j \in DOMAIN u : i < j => u[i].release <= u[j].release
               /\ \A i \in DOMAIN u : u[i].release <= now' + d
    <3> HIDE DEF u, v, d
    <3> QED BY <1>0, <2>2, <2>3, <2>4, <2>5, <2>6
  <2>7. CASE Quiet
    BY <2>1, <2>6, <2>7 DEF Quiet
  <2>8. ASSUME NEW p, Arriving(p) PROVE u = v /\ now' = now
    BY <2>8 DEF Arriving
  <2>9. ASSUME NEW p, Reading(p), now' = now
        PROVE  /\ \A i \in DOMAIN u : u[i].release = DueIn(queue', reads', u[i].pkt)
               /\ \A i, j \in DOMAIN u : i < j => u[i].release <= u[j].release
               /\ \A i \in DOMAIN u : u[i].release <= now' + d
    <3> DEFINE h == [release |-> now + d, pkt |-> p]
    <3>1. p \in Packet /\ queue' \in ReadPacket(queue, p, now)
      BY <2>1, <2>9 DEF Reading
    <3>2. u = Append(v, h)
      BY <1>0, <2>2, <3>1, DelayReads
    <3>3. h.release = now + d /\ h.pkt = p /\ h \in Held
      BY <1>0, <2>2, <3>1 DEF Held
    <3>4. h.release = DueIn(queue', reads', p)
      BY <2>1, <2>9, <3>3, NewDue
    <3> HIDE DEF u, v, h, d
    <3>5. /\ \A i \in DOMAIN v : i \in DOMAIN u /\ u[i] = v[i]
          /\ \A i \in DOMAIN u : (i \in DOMAIN v /\ i <= Len(v)) \/ (i = Len(v) + 1 /\ u[i] = h)
          /\ Len(v) \in Nat
      BY <2>2, <3>2, <3>3
    <3>6. ASSUME NEW i \in DOMAIN u, NEW j \in DOMAIN u, i < j PROVE u[i].release <= u[j].release
      <4>1. CASE j \in DOMAIN v /\ j <= Len(v)
        <5>1. i \in DOMAIN v
          BY <3>5, <3>6, <4>1
        <5> QED BY <2>3, <3>5, <3>6, <4>1, <5>1
      <4>2. CASE j = Len(v) + 1 /\ u[j] = h
        <5>1. i \in DOMAIN v
          BY <3>5, <3>6, <4>2
        <5>2. v[i].release <= now + d
          BY <2>3, <5>1
        <5> QED BY <3>3, <3>5, <4>2, <5>1, <5>2
      <4> QED BY <3>5, <4>1, <4>2
    <3>7. ASSUME NEW i \in DOMAIN u
          PROVE  u[i].release = DueIn(queue', reads', u[i].pkt) /\ u[i].release <= now + d
      <4>1. CASE i \in DOMAIN v
        BY <2>3, <2>5, <3>5, <4>1
      <4>2. CASE u[i] = h
        <5>1. now + d <= now + d
          BY <1>0, <2>2
        <5> QED BY <3>3, <3>4, <4>2, <5>1
      <4> QED BY <3>5, <4>1, <4>2
    <3> QED BY <2>9, <3>6, <3>7
  <2>10. ASSUME NEW w, Writing(w), now' = now
         PROVE  /\ \A i \in DOMAIN u : u[i].release = DueIn(queue', reads', u[i].pkt)
                /\ \A i, j \in DOMAIN u : i < j => u[i].release <= u[j].release
                /\ \A i \in DOMAIN u : u[i].release <= now' + d
    <3>1. w \in WritePackets(queue, now) /\ queue' = w.queue
      BY <2>10 DEF Writing
    <3>2. \E n : FirstWritten(queue, now, w, n)
      BY <1>0, <2>2, <3>1, DelayWrites
    <3>3. PICK n \in 0..Len(v) : u = SubSeq(v, n + 1, Len(v))
      BY <3>1, <3>2 DEF FirstWritten
    <3> HIDE DEF u, v, d
    <3>4. /\ DOMAIN u = 1..(Len(v) - n)
          /\ \A i \in 1..(Len(v) - n) : u[i] = v[n + i] /\ n + i \in DOMAIN v
      BY <2>2, <3>3, SplitAt
    <3>5. ASSUME NEW i \in DOMAIN u, NEW j \in DOMAIN u, i < j PROVE u[i].release <= u[j].release
      <4>1. n + i < n + j /\ n + i \in DOMAIN v /\ n + j \in DOMAIN v
        BY <3>4, <3>5
      <4> QED BY <2>3, <3>4, <4>1
    <3> QED BY <2>3, <2>5, <2>10, <3>4, <3>5
  <2> QED BY <2>1, <2>6, <2>7, <2>8, <2>9, <2>10, Steps
<1>4. ASSUME queue'.kind = "adv", NEW h \in queue'.held
      PROVE  h.release = DueIn(queue', reads', h.pkt)
  <2>1. queue.kind = "adv"
    BY <1>2, <1>4 DEF SameSettings
  <2>2. \A g \in queue.held : g.release = DueIn(queue', reads', g.pkt)
    BY <1>1, <2>1, HeldIsRead DEF Releases
  <2>3. CASE Quiet
    BY <1>4, <2>1, <2>2, <2>3 DEF Quiet
  <2>4. ASSUME NEW p, Arriving(p) PROVE queue' = queue
    BY <2>4 DEF Arriving
  <2>5. ASSUME NEW p, Reading(p) PROVE h.release = DueIn(queue', reads', h.pkt)
    <3> DEFINE g == [release |-> now + GetDelayFor(queue, p), pkt |-> p]
    <3>1. queue'.held = queue.held \/ queue'.held = queue.held \cup {g}
      BY <2>1, <2>5, AdvReading DEF AdvGets
    <3>2. g.release = now + GetDelayFor(queue, p) /\ g.pkt = p
      OBVIOUS
    <3>3. g.release = DueIn(queue', reads', p)
      BY <2>1, <2>5, <3>2, NewDue
    <3> HIDE DEF g
    <3> QED BY <1>4, <2>2, <3>1, <3>2, <3>3
  <2>6. ASSUME NEW w, Writing(w) PROVE queue'.held \subseteq queue.held
    <3>1. AdvDelayQueue(queue) /\ w \in WritePackets(queue, now) /\ queue' = w.queue
      BY <1>0, <2>1, <2>6, Kinds DEF Writing
    <3>2. DueRemoved(queue, now, queue')
      BY <1>0, <3>1, AdvWrites
    <3> QED BY <3>2 DEF DueRemoved
  <2> QED BY <1>4, <2>2, <2>3, <2>4, <2>5, <2>6, Steps
<1> QED BY <1>3, <1>4, Zenon DEF Releases

-----------------------------------------------------------------------------
(* Order with rules. *)
LEMMA DelayOfNew ==
  ASSUME NEW q, AdvDelayQueue(q), NEW p \in Packet
  PROVE  GetDelayFor(q, p) \in Nat
BY DelayIsNat

\* The delay of a packet that was read, and when it is due.
LEMMA DueType ==
  ASSUME NEW q, FerryQueue(q), NEW rs \in Seq(Read), NEW p \in Packet, IsReadIn(rs, p)
  PROVE  /\ DelayIn(q, rs, p) \in Nat
         /\ DueIn(q, rs, p) \in Nat /\ DueIn(q, rs, p) = rs[p.id].time + DelayIn(q, rs, p)
<1>1. DelayIn(q, rs, p) \in Nat
  <2>1. CASE q.kind = "delay"
    <3>1. q.delay_ms \in Nat
      BY <2>1, Kinds DEF ADelayQueue
    <3>2. DelayIn(q, rs, p) = q.delay_ms
      BY <2>1 DEF DelayIn
    <3> QED BY <3>1, <3>2
  <2>2. CASE q.kind = "adv" /\ CountedPacket(q, p)
    <3> DEFINE b == BytesIn(rs, SentBefore(q, rs, p))
    <3>1. AdvDelayQueue(q)
      BY <2>2, Kinds
    <3>2. b \in Int
      <4> DEFINE us == Append(rs, rs[p.id])
      <4>1. OneMore(rs, us)
        BY DEF OneMore, IsReadIn
      <4> QED BY <4>1, BytesGrow
    <3> HIDE DEF b
    <3>3. DelayAfter(q, q.rules[RuleKey(q, p, RemotePort(q, p))], b) \in Nat
      BY <2>2, <3>1, <3>2, DelayIsNat
    <3>4. DelayIn(q, rs, p) = DelayAfter(q, q.rules[RuleKey(q, p, RemotePort(q, p))], b)
      BY <2>2 DEF DelayIn, b
    <3> QED BY <3>3, <3>4
  <2>3. CASE q.kind = "adv" /\ ~CountedPacket(q, p)
    <3>1. GetDelayFor(q, p) \in Nat
      BY <2>3, Kinds, DelayOfNew
    <3>2. DelayIn(q, rs, p) = GetDelayFor(q, p)
      BY <2>3 DEF DelayIn
    <3> QED BY <3>1, <3>2
  <2>4. CASE q.kind \notin {"delay", "adv"}
    <3>1. DelayIn(q, rs, p) = 0
      BY <2>4 DEF DelayIn
    <3> QED BY <3>1
  <2> QED BY <2>1, <2>2, <2>3, <2>4
<1>2. rs[p.id].time \in Nat
  BY PacketFields DEF IsReadIn
<1> QED BY <1>1, <1>2 DEF DueIn

LEMMA WrittenIsRead ==
  ASSUME TypeOK, Numbers
  PROVE  \A k \in DOMAIN written : /\ written[k].pkt \in Packet /\ written[k].time \in Nat
                                   /\ IsReadIn(reads, written[k].pkt)
<1>1. written \in Seq(Write)
  BY DEF TypeOK
<1>2. \A k \in DOMAIN written : written[k] \in Write
  BY <1>1
<1> QED BY <1>2, PacketFields DEF Numbers, Known

LEMMA AdvOrderedStep ==
  TypeOK /\ TypeOK' /\ Numbers /\ Counters /\ Releases /\ AdvOrdered /\ [Next]_vars => AdvOrdered'
<1> SUFFICES ASSUME TypeOK, TypeOK', Numbers, Counters, Releases, AdvOrdered, [Next]_vars,
                    queue'.kind = "adv"
             PROVE  AdvOrdered'
  BY DEF AdvOrdered
<1> DEFINE due(x) == DueIn(queue, reads, x)
           then(x) == DueIn(queue', reads', x)
<1>0. FerryQueue(queue) /\ now \in Nat
  BY DEF TypeOK
<1>1. \A x \in Packet : IsReadIn(reads, x) => then(x) = due(x)
  BY DueKept
<1>2. queue.kind = "adv" /\ AdvDelayQueue(queue)
  BY <1>0, SettingsKept, Kinds DEF SameSettings
<1>3. \A h \in queue.held : /\ h.pkt \in Packet /\ h.release \in Nat /\ IsReadIn(reads, h.pkt)
                            /\ h.release = due(h.pkt)
  BY <1>2, HeldIsRead DEF Releases
<1>4. \A k \in DOMAIN written : /\ written[k].pkt \in Packet /\ written[k].time \in Nat
                                /\ IsReadIn(reads, written[k].pkt)
                                /\ then(written[k].pkt) = due(written[k].pkt)
  BY <1>1, WrittenIsRead
<1>5. /\ \A i, j \in DOMAIN written : i < j =>
           written[i].pkt.id # written[j].pkt.id /\ due(written[i].pkt) <= due(written[j].pkt)
      /\ \A i \in DOMAIN written : due(written[i].pkt) <= written[i].time /\ written[i].time <= now
      /\ \A i \in DOMAIN written, h \in queue.held :
           written[i].pkt.id # h.pkt.id /\ due(written[i].pkt) <= h.release
  BY <1>2 DEF AdvOrdered
<1> DEFINE Goal == /\ \A i, j \in DOMAIN written' : i < j =>
                        /\ written'[i].pkt.id # written'[j].pkt.id
                        /\ then(written'[i].pkt) <= then(written'[j].pkt)
                   /\ \A i \in DOMAIN written' : then(written'[i].pkt) <= written'[i].time
                   /\ \A i \in DOMAIN written' : written'[i].time <= now'
                   /\ \A i \in DOMAIN written', h \in queue'.held :
                        written'[i].pkt.id # h.pkt.id /\ then(written'[i].pkt) <= h.release
<1> SUFFICES Goal
  BY DEF AdvOrdered
<1> HIDE DEF due, then
<1>6. ASSUME written' = written, queue'.held = queue.held, now' \in {now, now + 1} PROVE Goal
  <2>1. \A i \in DOMAIN written : written[i].time <= now'
    BY <1>0, <1>4, <1>5, <1>6
  <2> QED BY <1>4, <1>5, <1>6, <2>1
<1>7. CASE Quiet
  BY <1>2, <1>6, <1>7 DEF Quiet
<1>8. ASSUME NEW p, Arriving(p) PROVE Goal
  BY <1>6, <1>8 DEF Arriving
<1>9. ASSUME NEW p, Reading(p), written' = written, now' = now PROVE Goal
  <2> DEFINE g == [release |-> now + GetDelayFor(queue, p), pkt |-> p]
  <2>1. queue'.held = queue.held \/ queue'.held = queue.held \cup {g}
    BY <1>2, <1>9, AdvReading DEF AdvGets
  <2>2. g.release = now + GetDelayFor(queue, p) /\ g.pkt = p
    OBVIOUS
  <2> HIDE DEF g
  <2>3. p \in Packet /\ p.id = Len(reads) + 1
    BY <1>9, NewDue
  <2>4. GetDelayFor(queue, p) \in Nat
    BY <1>2, <2>3, DelayOfNew
  <2>5. ASSUME NEW i \in DOMAIN written
        PROVE  written[i].pkt.id # p.id /\ due(written[i].pkt) <= g.release
    <3>1. written[i].pkt.id \in DOMAIN reads /\ reads \in Seq(Read)
      BY <1>4 DEF IsReadIn, TypeOK
    <3>2. written[i].pkt.id # p.id
      BY <2>3, <3>1
    <3>3. due(written[i].pkt) <= written[i].time /\ written[i].time <= now /\ written[i].time \in Nat
      BY <1>4, <1>5
    <3>4. due(written[i].pkt) \in Int
      BY <1>2, <1>4, DueType DEF due, TypeOK
    <3> QED BY <1>0, <2>2, <2>4, <3>2, <3>3, <3>4
  <2>6. \A i \in DOMAIN written, h \in queue'.held :
          written[i].pkt.id # h.pkt.id /\ due(written[i].pkt) <= h.release
    BY <1>5, <2>1, <2>2, <2>5
  <2>7. /\ \A i, j \in DOMAIN written' : i < j =>
             /\ written'[i].pkt.id # written'[j].pkt.id
             /\ then(written'[i].pkt) <= then(written'[j].pkt)
        /\ \A i \in DOMAIN written' : then(written'[i].pkt) <= written'[i].time
        /\ \A i \in DOMAIN written' : written'[i].time <= now'
    BY <1>4, <1>5, <1>9
  <2>8. \A i \in DOMAIN written', h \in queue'.held :
          written'[i].pkt.id # h.pkt.id /\ then(written'[i].pkt) <= h.release
    BY <1>4, <1>9, <2>6
  <2> QED BY <2>7, <2>8
<1>10. ASSUME NEW w, Writing(w), now' = now PROVE Goal
  <2>1. w \in WritePackets(queue, now) /\ queue' = w.queue
    BY <1>10 DEF Writing
  <2>2. DueRemoved(queue, now, queue') /\ \E s : DueInOrder(queue, now, w.out, s)
    BY <1>0, <1>2, <2>1, AdvWrites
  <2>3. PICK s : DueInOrder(queue, now, w.out, s)
    BY <2>2
  <2>4. /\ \A i \in DOMAIN s : s[i] \in queue.held /\ s[i].release <= now
        /\ \A i, j \in DOMAIN s : i # j => s[i] # s[j]
        /\ \A i, j \in DOMAIN s : i < j => s[i].release <= s[j].release
        /\ DOMAIN w.out = DOMAIN s /\ \A i \in DOMAIN s : w.out[i] = s[i].pkt
        /\ \A h \in queue'.held : h \in queue.held /\ h.release > now /\ \A i \in DOMAIN s : h # s[i]
    <3>1. /\ s \in Seq(DueAt(queue, now)) /\ DueAt(queue, now) = {s[i] : i \in DOMAIN s}
          /\ \A i, j \in DOMAIN s : i # j => s[i] # s[j]
          /\ \A i, j \in DOMAIN s : i < j => s[i].release <= s[j].release
          /\ w.out = [i \in DOMAIN s |-> s[i].pkt]
      BY <2>3 DEF DueInOrder
    <3>2. \A i \in DOMAIN s : s[i] \in DueAt(queue, now)
      BY <3>1
    <3>3. queue'.held = queue.held \ DueAt(queue, now)
      BY <2>2 DEF DueRemoved
    <3>4. \A h \in queue.held : h \notin DueAt(queue, now) => h.release > now
      BY <1>0, <1>3 DEF DueAt
    <3>5. \A h \in DueAt(queue, now) : h \in queue.held /\ h.release <= now
      BY DEF DueAt
    <3> QED BY <3>1, <3>2, <3>3, <3>4, <3>5
  <2>5. \A g, h \in queue.held : g.pkt.id = h.pkt.id => g = h
    <3> SUFFICES ASSUME NEW g \in queue.held, NEW h \in queue.held, g.pkt.id = h.pkt.id PROVE g = h
      OBVIOUS
    <3>1. g.pkt = h.pkt
      BY <1>3 DEF IsReadIn
    <3>2. g.release = h.release
      BY <1>3, <3>1
    <3>3. g \in Held /\ h \in Held
      BY <1>2 DEF AdvDelayQueue
    <3> QED BY <3>1, <3>2, <3>3 DEF Held
  <2>6. Appended(w)
    BY <1>10, WritingAppends
  <2>7. Len(written) \in Nat /\ DOMAIN written = 1..Len(written)
    BY DEF TypeOK
  <2>8. ASSUME NEW k \in DOMAIN written'
        PROVE  \/ k \in DOMAIN written /\ written'[k] = written[k] /\ k \in 1..Len(written)
               \/ \E i \in DOMAIN s : /\ k = Len(written) + i
                                      /\ written'[k].pkt = s[i].pkt /\ written'[k].time = now
    <3>1. CASE k \in DOMAIN written
      BY <2>6, <2>7, <3>1 DEF Appended
    <3>2. CASE k \notin DOMAIN written
      <4>1. /\ k - Len(written) \in DOMAIN w.out /\ Len(written) + (k - Len(written)) = k
            /\ written'[k].pkt = w.out[k - Len(written)] /\ written'[k].time = now
        BY <2>6, <3>2 DEF Appended
      <4> QED BY <2>4, <4>1
    <3> QED BY <3>1, <3>2
  <2>9. \A i \in DOMAIN s : then(s[i].pkt) = s[i].release /\ s[i].release \in Nat
    BY <1>1, <1>3, <2>4
  <2>10. \A i \in DOMAIN s : i \in Nat
    BY <2>3 DEF DueInOrder
  <2>11. ASSUME NEW k \in DOMAIN written', NEW l \in DOMAIN written', k < l
         PROVE  /\ written'[k].pkt.id # written'[l].pkt.id
                /\ then(written'[k].pkt) <= then(written'[l].pkt)
    <3>1. CASE l \in DOMAIN written /\ written'[l] = written[l] /\ l \in 1..Len(written)
      <4>1. k \in DOMAIN written /\ written'[k] = written[k]
        BY <2>7, <2>8, <2>10, <2>11, <3>1
      <4> QED BY <1>4, <1>5, <2>11, <3>1, <4>1
    <3>2. ASSUME NEW j \in DOMAIN s, l = Len(written) + j, written'[l].pkt = s[j].pkt
          PROVE  /\ written'[k].pkt.id # written'[l].pkt.id
                 /\ then(written'[k].pkt) <= then(written'[l].pkt)
      <4>1. CASE k \in DOMAIN written /\ written'[k] = written[k]
        BY <1>4, <1>5, <2>4, <2>9, <3>2, <4>1
      <4>2. ASSUME NEW i \in DOMAIN s, k = Len(written) + i, written'[k].pkt = s[i].pkt
            PROVE  /\ written'[k].pkt.id # written'[l].pkt.id
                   /\ then(written'[k].pkt) <= then(written'[l].pkt)
        <5>1. i < j /\ i # j
          BY <2>7, <2>10, <2>11, <3>2, <4>2
        <5>2. s[i].pkt.id # s[j].pkt.id
          BY <2>4, <2>5, <5>1
        <5> QED BY <2>4, <2>9, <3>2, <4>2, <5>1, <5>2
      <4> QED BY <2>8, <4>1, <4>2
    <3> QED BY <2>8, <3>1, <3>2
  <2>12. ASSUME NEW k \in DOMAIN written'
         PROVE  then(written'[k].pkt) <= written'[k].time /\ written'[k].time <= now'
    <3>1. CASE k \in DOMAIN written /\ written'[k] = written[k]
      BY <1>4, <1>5, <1>10, <3>1
    <3>2. ASSUME NEW i \in DOMAIN s, written'[k].pkt = s[i].pkt, written'[k].time = now
          PROVE  then(written'[k].pkt) <= written'[k].time /\ written'[k].time <= now'
      BY <1>0, <1>10, <2>4, <2>9, <3>2
    <3> QED BY <2>8, <3>1, <3>2
  <2>13. ASSUME NEW k \in DOMAIN written', NEW h \in queue'.held
         PROVE  written'[k].pkt.id # h.pkt.id /\ then(written'[k].pkt) <= h.release
    <3>1. CASE k \in DOMAIN written /\ written'[k] = written[k]
      BY <1>4, <1>5, <2>4, <3>1
    <3>2. ASSUME NEW i \in DOMAIN s, written'[k].pkt = s[i].pkt
          PROVE  written'[k].pkt.id # h.pkt.id /\ then(written'[k].pkt) <= h.release
      <4>1. h \in queue.held /\ h.release > now /\ h # s[i] /\ s[i] \in queue.held /\ s[i].release <= now
        BY <2>4
      <4>2. s[i].pkt.id # h.pkt.id
        BY <2>5, <4>1
      <4> QED BY <1>0, <1>3, <2>9, <3>2, <4>1, <4>2
    <3> QED BY <2>8, <3>1, <3>2
  <2> QED BY <2>11, <2>12, <2>13
<1> QED BY <1>7, <1>8, <1>9, <1>10, Steps

\* Numbers, counters and releases are as they should be in every reachable state.
Regular == Numbers /\ Counters /\ Releases

LEMMA RegularInit == Init => Regular
<1> SUFFICES ASSUME Init PROVE Releases
  BY NumbersInit, CountersInit DEF Regular
<1>1. queue.kind = "adv" => queue.held = {}
  BY TypeInit
<1>2. queue.kind # "adv" => queue.held = <<>>
  BY TypeInit
<1> QED BY <1>1, <1>2 DEF Releases

LEMMA AlwaysRegular == Spec => [](TypeOK /\ Regular)
<1>1. Init => Regular
  BY RegularInit
<1>2. TypeOK /\ TypeOK' /\ Regular /\ [Next]_vars => Regular'
  BY NumbersStep, CountersStep, ReleasesStep DEF Regular
<1>3. Spec => []TypeOK
  BY TypeCorrect
<1> QED BY <1>1, <1>2, <1>3, PTL DEF Spec

\* The delay the properties speak of is the one the invariant does.
LEMMA DueIsDueIn ==
  ASSUME TypeOK, Numbers, NEW p \in Packet, IsReadIn(reads, p)
  PROVE  /\ ReadOf(p) = p.id
         /\ DueDelay(p.id) = DelayIn(queue, reads, p)
         /\ Due(p) = DueIn(queue, reads, p)
<1>1. ReadOf(p) = p.id
  <2>1. \A i \in DOMAIN reads : reads[i].pkt = p => i = p.id
    BY DEF Numbers, Numbered
  <2>2. p.id \in DOMAIN reads /\ reads[p.id].pkt = p
    BY DEF IsReadIn
  <2> QED BY <2>1, <2>2 DEF ReadOf
<1>2. reads[p.id].pkt = p
  BY DEF IsReadIn
<1>3. \A js : Bytes(js) = BytesIn(reads, js)
  BY Zenon DEF Bytes, BytesIn
<1>4. Earlier(p.id) = SentBefore(queue, reads, p)
  BY <1>2 DEF Earlier, SentBefore
<1>5. DueDelay(p.id) = DelayIn(queue, reads, p)
  <2>1. CASE queue.kind = "delay"
    BY <2>1 DEF DueDelay, DelayIn
  <2>2. CASE queue.kind = "adv" /\ CountedPacket(queue, p)
    <3> DEFINE rule == queue.rules[RuleKey(queue, p, RemotePort(queue, p))]
               b == Bytes(Earlier(p.id))
    <3>1. DueDelay(p.id) =
            IF b < (IF side = "uplink" THEN rule.fwd_lim ELSE rule.rev_lim)
              THEN IF side = "uplink" THEN rule.fwd_delay ELSE rule.rev_delay
              ELSE IF side = "uplink" THEN rule.fwd_alt_delay ELSE rule.rev_alt_delay
      BY <1>2, <2>2 DEF DueDelay
    <3>2. DelayIn(queue, reads, p) = DelayAfter(queue, rule, b)
      BY <1>3, <1>4, <2>2 DEF DelayIn
    <3>3. queue.uplink = (side = "uplink")
      BY <2>2 DEF TypeOK
    <3> HIDE DEF rule, b
    <3>4. CASE side = "uplink"
      BY <3>1, <3>2, <3>3, <3>4 DEF DelayAfter
    <3>5. CASE side # "uplink"
      <4>1. queue.uplink = FALSE
        BY <3>3, <3>5, Zenon
      <4> QED BY <3>1, <3>2, <3>5, <4>1 DEF DelayAfter
    <3> QED BY <3>4, <3>5
  <2>3. CASE queue.kind = "adv" /\ ~CountedPacket(queue, p)
    BY <1>2, <2>3 DEF DueDelay, DelayIn
  <2>4. CASE queue.kind \notin {"delay", "adv"}
    BY <2>4 DEF DueDelay, DelayIn
  <2> QED BY <2>1, <2>2, <2>3, <2>4
<1> QED BY <1>1, <1>5 DEF Due, DueIn

\* Packets leave in the order of their arrival, none twice; out of a queue with
\* rules in the order in which they are due (packetshell.cc:187-194, and the
\* write_packets of the six queues).
THEOREM LeaveInOrder == Spec => []InOrder
<1>1. Init => LineOrdered /\ AdvOrdered
  <2> SUFFICES ASSUME Init PROVE LineOrdered /\ AdvOrdered
    OBVIOUS
  <2>1. written = <<>>
    BY DEF Init
  <2>2. queue.kind # "adv" => Line(queue) = <<>>
    <3>1. FerryQueue(queue) /\ (queue.kind # "adv" => queue.held = <<>>)
          /\ (queue.kind = "link" => queue.output = <<>>)
      BY TypeInit DEF TypeOK
    <3> QED BY <3>1 DEF Line
  <2> QED BY <2>1, <2>2 DEF LineOrdered, AdvOrdered
<1>2. TypeOK /\ Regular /\ (TypeOK /\ Regular)' /\ LineOrdered /\ AdvOrdered /\ [Next]_vars
        => (LineOrdered /\ AdvOrdered)'
  BY LineOrderedStep, AdvOrderedStep DEF Regular
<1>3. TypeOK /\ Regular /\ LineOrdered /\ AdvOrdered => InOrder
  <2> SUFFICES ASSUME TypeOK, Numbers, LineOrdered, AdvOrdered,
                      NEW i \in DOMAIN written, NEW j \in DOMAIN written, i < j
               PROVE  IF queue.kind = "adv"
                        THEN /\ written[i].pkt.id # written[j].pkt.id
                             /\ Due(written[i].pkt) <= Due(written[j].pkt)
                        ELSE written[i].pkt.id < written[j].pkt.id
    BY DEF InOrder, Regular
  <2>1. CASE queue.kind = "adv"
    <3>1. \A k \in DOMAIN written : written[k].pkt \in Packet /\ IsReadIn(reads, written[k].pkt)
      BY WrittenIsRead
    <3>2. \A k \in DOMAIN written : Due(written[k].pkt) = DueIn(queue, reads, written[k].pkt)
      BY <3>1, DueIsDueIn
    <3> QED BY <2>1, <3>2 DEF AdvOrdered
  <2>2. CASE queue.kind # "adv"
    BY <2>2 DEF LineOrdered
  <2> QED BY <2>1, <2>2
<1>4. Spec => [](TypeOK /\ Regular)
  BY AlwaysRegular
<1> QED BY <1>1, <1>2, <1>3, <1>4, PTL DEF Spec

-----------------------------------------------------------------------------
(* Time. *)

\* What is read is read at once, save for the time the process is awake.
LEMMA TunInTimeStep == TypeOK /\ TypeOK' /\ TunInTime /\ [Next]_vars => TunInTime'
<1> SUFFICES ASSUME TypeOK, TypeOK', TunInTime, [Next]_vars PROVE TunInTime'
  OBVIOUS
<1> USE DEF loop, history
<1>0. /\ now \in Nat /\ awake \in Nat /\ awake' \in Nat /\ tun \in Seq(Packet)
      /\ \A j \in DOMAIN tun : tun[j].sent \in Nat
  <2>1. Slack \in Nat /\ awake \in 0..Slack /\ awake' \in 0..Slack /\ now \in Nat /\ tun \in Seq(Packet)
    BY FerryAssumption DEF TypeOK
  <2>2. \A j \in DOMAIN tun : tun[j] \in Packet
    BY <2>1
  <2> QED BY <2>1, <2>2, PacketFields
<1>1. CASE Tick
  <2>1. now' = now + 1 /\ tun' = tun
    BY <1>1 DEF Tick
  <2>2. CASE Asleep
    <3>1. tun = <<>>
      BY <2>2 DEF Asleep, Ready, TypeOK
    <3> QED BY <2>1, <3>1 DEF TunInTime
  <2>3. CASE ~Asleep
    <3>1. awake' = awake + 1
      BY <1>1, <2>3 DEF Tick
    <3> QED BY <1>0, <2>1, <3>1 DEF TunInTime
  <2> QED BY <2>2, <2>3
<1>2. ASSUME NEW h \in Headers(command.program), Arrive(h) PROVE TunInTime'
  <2>1. now' = now /\ awake' = awake /\ tun' = Append(tun, NewPacket(h))
    BY <1>2 DEF Arrive
  <2>2. NewPacket(h).sent = now
    BY NewPacketType
  <2> DEFINE p == NewPacket(h)
  <2> HIDE DEF p
  <2>3. \A j \in DOMAIN tun' : (j \in DOMAIN tun /\ tun'[j] = tun[j]) \/ tun'[j] = p
    BY <1>0, <2>1 DEF p
  <2>4. p.sent <= now /\ now <= p.sent + awake
    BY <1>0, <2>2 DEF p
  <2> QED BY <2>1, <2>3, <2>4 DEF TunInTime
<1>3. CASE Poll
  <2>1. now' = now /\ tun' = tun /\ pc' = "poll" /\ awake' = IF Asleep' THEN 0 ELSE awake
    BY <1>3 DEF Poll
  <2>2. Asleep' => tun' = <<>>
    BY DEF Asleep, Ready, TypeOK
  <2> QED BY <2>1, <2>2 DEF TunInTime
<1>4. CASE ServiceRead
  <2>1. now' = now /\ awake' = awake /\ Recorded(Head(tun))
    BY <1>4, ServiceReads, ReadingRecords DEF ServiceRead
  <2>2. \A j \in DOMAIN tun' : tun'[j] = tun[j + 1] /\ j + 1 \in DOMAIN tun
    BY <1>0, <2>1 DEF Recorded
  <2> QED BY <2>1, <2>2 DEF TunInTime
<1>5. CASE UNCHANGED <<now, awake, tun>>
  BY <1>5 DEF TunInTime
<1>6. AskToQuit \/ AskWaitTime \/ PollTimesOut \/ PollReturns \/ ServiceWrite \/ ServiceExit \/ ServiceOver
      \/ UNCHANGED vars => UNCHANGED <<now, awake, tun>>
  BY DEF AskToQuit, AskWaitTime, PollTimesOut, PollReturns, ServiceWrite, ServiceExit, ServiceOver, vars
<1> QED BY <1>1, <1>2, <1>3, <1>4, <1>5, <1>6 DEF Next, Loop, Service

LEMMA ReadsInTimeStep ==
  TypeOK /\ TypeOK' /\ TunInTime /\ ReadsInTime /\ [Next]_vars => ReadsInTime'
<1> SUFFICES ASSUME TypeOK, TypeOK', TunInTime, ReadsInTime, [Next]_vars PROVE ReadsInTime'
  OBVIOUS
<1>0. /\ now \in Nat /\ awake \in Nat /\ awake <= Slack /\ Slack \in Nat /\ reads \in Seq(Read)
      /\ reads' \in Seq(Read)
      /\ \A i \in DOMAIN reads : reads[i].time \in Nat
  <2>1. now \in Nat /\ Slack \in Nat /\ awake \in 0..Slack /\ reads \in Seq(Read) /\ reads' \in Seq(Read)
    BY FerryAssumption DEF TypeOK
  <2>2. \A i \in DOMAIN reads : reads[i] \in Read
    BY <2>1
  <2> QED BY <2>1, <2>2, PacketFields
<1>1. ASSUME reads' = reads, now' \in {now, now + 1} PROVE ReadsInTime'
  BY <1>0, <1>1 DEF ReadsInTime
<1>2. CASE Quiet
  BY <1>1, <1>2 DEF Quiet
<1>3. ASSUME NEW p, Arriving(p) PROVE ReadsInTime'
  BY <1>1, <1>3 DEF Arriving
<1>4. ASSUME Reading(Head(tun)), now' = now PROVE ReadsInTime'
  <2> DEFINE p == Head(tun)
  <2>1. Recorded(p) /\ p \in Packet
    BY <1>4, ReadingRecords DEF Reading
  <2> HIDE DEF p
  <2>2. p.sent <= now /\ now <= p.sent + awake /\ p.sent \in Nat
    BY <2>1, PacketFields DEF Recorded, TunInTime
  <2>3. \A i \in DOMAIN reads' : (i \in DOMAIN reads /\ reads'[i] = reads[i])
                                   \/ (reads'[i].pkt = p /\ reads'[i].time = now)
    BY <1>0, <2>1 DEF Recorded
  <2>4. p.sent <= now /\ now <= p.sent + Slack /\ now <= now
    BY <1>0, <2>2
  <2> QED BY <1>4, <2>3, <2>4 DEF ReadsInTime
<1> QED BY <1>1, <1>2, <1>3, <1>4, Steps

\* The packets of a queue have been read.
LEMMA QueuedIsRead ==
  ASSUME TypeOK, Numbers, NEW p \in Queued(queue)
  PROVE  /\ p \in Packet /\ IsReadIn(reads, p)
         /\ DueIn(queue, reads, p) \in Nat
         /\ DueIn(queue, reads, p) = reads[p.id].time + DelayIn(queue, reads, p)
         /\ DelayIn(queue, reads, p) \in Nat
<1>0. FerryQueue(queue) /\ reads \in Seq(Read)
  BY DEF TypeOK
<1>1. p \in Packet
  <2>1. CASE queue.kind = "adv"
    <3>1. PICK h \in queue.held : p = h.pkt
      BY <2>1 DEF Queued
    <3> QED BY <2>1, <3>1, HeldIsRead
  <2>2. CASE queue.kind # "adv"
    <3>1. Line(queue) \in Seq(Packet)
      BY <1>0, <2>2, LineType
    <3>2. PICK i \in DOMAIN Line(queue) : p = Line(queue)[i]
      BY <2>2 DEF Queued
    <3> QED BY <3>1, <3>2
  <2> QED BY <2>1, <2>2
<1>2. IsReadIn(reads, p)
  BY DEF Numbers, Known
<1> QED BY <1>0, <1>1, <1>2, DueType

\* How long a queue says the process may sleep.
LEMMA AsksInTime ==
  ASSUME TypeOK, Numbers, Releases, ReadsInTime, queue.kind # "link",
         NEW w \in WaitTime(queue, now), NEW p \in Queued(queue)
  PROVE  w.ms \in Nat /\ (w.ms = 0 \/ now + w.ms <= DueIn(queue, reads, p))
<1> DEFINE d == DueIn(queue, reads, p)
<1>0. FerryQueue(queue) /\ now \in Nat /\ d \in Nat
  BY QueuedIsRead DEF TypeOK
<1> HIDE DEF d
<1>1. \A g \in Nat : Until(g, now) \in Nat /\ (Until(g, now) = 0 \/ now + Until(g, now) = g)
  BY <1>0 DEF Until
<1>2. CASE queue.kind = "delay"
  <2>1. queue.held \in Seq(Held)
    BY <1>0, <1>2, Kinds DEF ADelayQueue
  <2>2. PICK i \in DOMAIN queue.held : p = queue.held[i].pkt
    <3>1. PICK i \in DOMAIN Line(queue) : p = Line(queue)[i]
      BY <1>2 DEF Queued
    <3>2. Line(queue) = [j \in DOMAIN queue.held |-> queue.held[j].pkt]
      BY <1>2 DEF Line
    <3> QED BY <3>1, <3>2
  <2>3. queue.held # <<>> /\ 1 \in DOMAIN queue.held /\ i \in Nat /\ 1 <= i
    BY <2>1, <2>2
  <2>4. w.ms = Until(queue.held[1].release, now)
    BY <1>0, <1>2, <2>3, Waits
  <2>5. queue.held[1].release \in Nat /\ queue.held[i].release \in Nat
    BY <1>2, <2>2, <2>3, HeldIsRead
  <2>6. queue.held[i].release = d /\ queue.held[1].release <= queue.held[i].release
    <3>1. i = 1 \/ 1 < i
      BY <2>3
    <3>2. 1 < i => queue.held[1].release <= queue.held[i].release
      BY <1>2, <2>2, <2>3 DEF Releases
    <3>3. queue.held[i].release = d
      BY <1>2, <2>2 DEF Releases, d
    <3> QED BY <2>5, <3>1, <3>2, <3>3
  <2> QED BY <1>0, <1>1, <2>4, <2>5, <2>6 DEF d
<1>3. CASE queue.kind = "adv"
  <2>1. PICK h \in queue.held : p = h.pkt
    BY <1>3 DEF Queued
  <2>2. PICK g \in queue.held : w.ms = Until(g.release, now) /\ \A k \in queue.held : g.release <= k.release
    BY <1>0, <1>3, <2>1, Waits
  <2>3. g.release \in Nat /\ h.release \in Nat /\ g.release <= h.release
    BY <1>3, <2>1, <2>2, HeldIsRead
  <2>4. h.release = d
    BY <1>3, <2>1 DEF Releases, d
  <2> QED BY <1>0, <1>1, <2>2, <2>3, <2>4 DEF d
<1>4. CASE queue.kind \notin {"delay", "adv"}
  <2>1. queue.held # <<>>
    <3>1. Queued(queue) = {queue.held[i] : i \in DOMAIN queue.held}
      BY <1>4 DEF Queued, Line
    <3> QED BY <3>1
  <2>2. w.ms = 0
    BY <1>0, <1>4, <2>1, Waits
  <2> QED BY <2>2
<1> QED BY <1>2, <1>3, <1>4

\* Nor is a packet held for longer than that and the time the process is awake.
LEMMA QueueInTimeStep ==
  TypeOK /\ TypeOK' /\ Regular /\ ReadsInTime /\ QueueInTime /\ [Next]_vars => QueueInTime'
<1> SUFFICES ASSUME TypeOK, TypeOK', Numbers, Counters, Releases, ReadsInTime, QueueInTime,
                    [Next]_vars, queue'.kind # "link"
             PROVE  QueueInTime'
  BY DEF QueueInTime, Regular
<1> USE DEF loop, history
<1> DEFINE due(x) == DueIn(queue, reads, x)
           then(x) == DueIn(queue', reads', x)
           inTime(d) == InTimeFor(d, now, awake, pc, timeout, deadline)
           laterInTime(d) == InTimeFor(d, now', awake', pc', timeout', deadline')
<1>0. /\ FerryQueue(queue) /\ now \in Nat /\ Slack \in Nat /\ queue.kind # "link"
      /\ awake \in Nat /\ awake <= Slack
  <2>1. Slack \in Nat /\ awake \in 0..Slack
    BY FerryAssumption DEF TypeOK
  <2>2. SameSettings(queue, queue')
    BY SettingsKept
  <2> QED BY <2>1, <2>2 DEF TypeOK, SameSettings
<1>1. ASSUME NEW x \in Queued(queue)
      PROVE  x \in Packet /\ due(x) \in Nat /\ then(x) = due(x) /\ inTime(due(x))
  <2>1. x \in Packet /\ IsReadIn(reads, x) /\ due(x) \in Nat
    BY <1>1, QueuedIsRead
  <2>2. then(x) = due(x)
    BY <2>1, DueKept
  <2> QED BY <1>0, <1>1, <2>1, <2>2 DEF QueueInTime
<1> HIDE DEF due, then
<1>2. ASSUME Queued(queue') \subseteq Queued(queue), \A d \in Nat : inTime(d) => laterInTime(d)
      PROVE  QueueInTime'
  <2> SUFFICES ASSUME NEW x \in Queued(queue') PROVE laterInTime(then(x))
    BY DEF QueueInTime, then
  <2> DEFINE d == due(x)
  <2>1. d \in Nat /\ then(x) = d /\ inTime(d)
    BY <1>1, <1>2
  <2> QED BY <1>2, <2>1 DEF InTimeFor
<1>3. CASE Tick
  <2>1. /\ now' = now + 1 /\ pc' = pc /\ timeout' = timeout /\ deadline' = deadline
        /\ queue' = queue
    BY <1>3 DEF Tick
  <2>2. ASSUME NEW d \in Nat, inTime(d) PROVE laterInTime(d)
    <3>1. CASE Asleep
      <4>1. pc = "poll" /\ awake' = 0 /\ ~(deadline # Never /\ now >= deadline)
        BY <1>3, <3>1 DEF Tick, Asleep, TimedOut
      <4>2. deadline \in Nat /\ (deadline <= d + Slack \/ deadline <= now)
        BY <2>2, <4>1 DEF InTimeFor
      <4>3. now < deadline
        BY <1>0, <4>1, <4>2 DEF Never
      <4> QED BY <1>0, <2>1, <4>1, <4>2, <4>3 DEF InTimeFor
    <3>2. CASE ~Asleep
      <4>1. awake' = awake + 1
        BY <1>3, <3>2 DEF Tick
      <4> QED BY <1>0, <2>1, <2>2, <4>1 DEF InTimeFor
    <3> QED BY <3>1, <3>2
  <2> QED BY <1>2, <2>1, <2>2
<1>4. CASE AskWaitTime
  <2>1. PICK w \in WaitTime(queue, now) : queue' = w.queue /\ timeout' = w.ms
    BY <1>4 DEF AskWaitTime
  <2>2. now' = now /\ awake' = awake /\ pc' = "interest"
    BY <1>4 DEF AskWaitTime
  <2>3. Queued(queue') = Queued(queue)
    <3>1. queue.kind # "adv" => Line(queue') = Line(queue)
      BY <1>0, <2>1, Waits
    <3>2. queue.kind = "adv" => queue' = queue
      BY <1>0, <2>1, Waits
    <3>3. queue'.kind = queue.kind
      BY <1>0, <2>1, Waits DEF SameSettings
    <3> QED BY <3>1, <3>2, <3>3 DEF Queued
  <2>4. ASSUME NEW x \in Queued(queue) PROVE laterInTime(then(x))
    <3> DEFINE d == due(x)
    <3>1. d \in Nat /\ then(x) = d /\ inTime(d)
      BY <1>1
    <3>2. w.ms \in Nat /\ (w.ms = 0 \/ now + w.ms <= d)
      BY <1>0, AsksInTime DEF due
    <3> HIDE DEF d
    <3> QED BY <1>0, <2>1, <2>2, <3>1, <3>2 DEF InTimeFor
  <2> QED BY <2>3, <2>4 DEF QueueInTime, then
<1>5. CASE Poll
  <2>1. /\ now' = now /\ queue' = queue /\ pc = "interest" /\ pc' = "poll"
        /\ deadline' = IF timeout < 0 THEN Never ELSE now + timeout
        /\ awake' = IF Asleep' THEN 0 ELSE awake
    BY <1>5 DEF Poll
  <2>2. ASSUME NEW d \in Nat, inTime(d) PROVE laterInTime(d)
    <3>1. /\ now <= d + Slack + awake
          /\ timeout \in Nat /\ (timeout = 0 \/ now + timeout <= d + awake)
      BY <2>1, <2>2 DEF InTimeFor
    <3>2. deadline' = now + timeout
      BY <2>1, <3>1
    <3>3. CASE Asleep'
      <4>1. awake' = 0 /\ ~(deadline' # Never /\ now' >= deadline')
        BY <2>1, <3>3 DEF Asleep, TimedOut
      <4>2. now < now + timeout
        BY <1>0, <2>1, <3>1, <3>2, <4>1 DEF Never
      <4> QED BY <1>0, <2>1, <3>1, <3>2, <4>1, <4>2 DEF InTimeFor
    <3>4. CASE ~Asleep'
      <4>1. awake' = awake
        BY <2>1, <3>4
      <4> QED BY <1>0, <2>1, <3>1, <3>2, <4>1 DEF InTimeFor
    <3> QED BY <3>3, <3>4
  <2> QED BY <1>2, <2>1, <2>2
<1>6. CASE ServiceRead
  <2> DEFINE p == Head(tun)
  <2>1. Reading(p) /\ now' = now /\ awake' = awake
    BY <1>6, ServiceReads DEF ServiceRead
  <2> HIDE DEF p
  <2>2. p \in Packet /\ pc' \in {pc, "threw"} /\ pc = "service"
    BY <1>6, <2>1 DEF Reading, ServiceRead
  <2>3. then(p) \in Nat /\ now <= then(p)
    <3>1. queue.kind = "delay" => queue.delay_ms \in Nat
      BY <1>0, Kinds DEF ADelayQueue
    <3>2. queue.kind = "adv" => GetDelayFor(queue, p) \in Nat
      BY <1>0, <2>2, Kinds, DelayOfNew
    <3>3. /\ queue.kind = "delay" => then(p) = now + queue.delay_ms
          /\ queue.kind = "adv" => then(p) = now + GetDelayFor(queue, p)
          /\ queue.kind \notin {"delay", "adv"} => then(p) = now
      BY <2>1, NewDue DEF then
    <3> QED BY <1>0, <3>1, <3>2, <3>3
  <2>4. Queued(queue') \subseteq Queued(queue) \cup {p}
    <3>1. CASE queue' \in ReadPacket(queue, p, now)
      BY <1>0, <2>2, <3>1, ReadQueued
    <3>2. CASE queue.kind = "adv" /\ BytesCounted(queue, p, queue')
      BY <3>2 DEF BytesCounted, SameSettings, Queued
    <3> QED BY <2>1, <3>1, <3>2 DEF Reading
  <2>5. ASSUME NEW x \in Queued(queue') PROVE laterInTime(then(x))
    <3>1. CASE x \in Queued(queue)
      <4>1. due(x) \in Nat /\ then(x) = due(x) /\ inTime(due(x))
        BY <1>1, <3>1
      <4> QED BY <1>0, <2>1, <2>2, <4>1 DEF InTimeFor
    <3>2. CASE x = p
      BY <1>0, <2>1, <2>2, <2>3, <3>2 DEF InTimeFor
    <3> QED BY <2>4, <3>1, <3>2
  <2> QED BY <2>5 DEF QueueInTime, then
<1>7. CASE ServiceWrite
  <2>1. PICK w : Writing(w)
    BY <1>7, ServiceWrites
  <2>2. Queued(queue') \subseteq Queued(queue)
    BY <1>0, <2>1, WriteQueued DEF Writing
  <2>3. now' = now /\ awake' = awake /\ pc' \in {"service", "busy"}
    BY <1>7 DEF ServiceWrite
  <2>4. \A d \in Nat : inTime(d) => laterInTime(d)
    BY <2>3 DEF InTimeFor
  <2> QED BY <1>2, <2>2, <2>4
<1>8. CASE /\ queue' = queue /\ now' = now /\ awake' = awake
           /\ pc' \in {"ask", "service", "exited"} \/ UNCHANGED <<pc, timeout, deadline>>
  BY <1>2, <1>8 DEF InTimeFor
<1>9. ASSUME NEW h \in Headers(command.program), Arrive(h) PROVE QueueInTime'
  BY <1>8, <1>9 DEF Arrive
<1>10. AskToQuit \/ PollTimesOut \/ PollReturns \/ ServiceExit \/ ServiceOver \/ UNCHANGED vars
         => QueueInTime'
  BY <1>8 DEF AskToQuit, PollTimesOut, PollReturns, ServiceExit, ServiceOver, vars
<1> QED BY <1>3, <1>4, <1>5, <1>6, <1>7, <1>9, <1>10 DEF Next, Loop, Service

\* No packet is written before it is due.
LEMMA WritesWhatIsDue ==
  ASSUME TypeOK, Numbers, Releases, ReadsInTime, queue.kind # "link",
         NEW w \in WritePackets(queue, now), NEW i \in DOMAIN w.out
  PROVE  w.out[i] \in Queued(queue) /\ DueIn(queue, reads, w.out[i]) <= now
<1> DEFINE p == w.out[i]
<1>0. FerryQueue(queue) /\ now \in Nat
  BY DEF TypeOK
<1>1. p \in Queued(queue)
  BY <1>0, WriteQueued
<1>2. CASE queue.kind = "delay"
  <2>1. queue \in ADelayQueue /\ queue.held \in Seq(Held)
    BY <1>0, <1>2, Kinds DEF ADelayQueue
  <2>2. PICK n : FirstWritten(queue, now, w, n)
    BY <1>0, <2>1, DelayWrites
  <2>3. /\ n \in 0..Len(queue.held) /\ w.out = [j \in 1..n |-> queue.held[j].pkt]
        /\ \A j \in 1..n : queue.held[j].release <= now
    BY <2>2 DEF FirstWritten
  <2>4. i \in 1..n /\ p = queue.held[i].pkt /\ i \in DOMAIN queue.held
    BY <2>1, <2>3
  <2>5. DueIn(queue, reads, p) = queue.held[i].release
    BY <1>2, <2>4 DEF Releases
  <2> QED BY <1>1, <2>3, <2>4, <2>5
<1>3. CASE queue.kind = "adv"
  <2>1. AdvDelayQueue(queue)
    BY <1>0, <1>3, Kinds
  <2>2. PICK s : DueInOrder(queue, now, w.out, s)
    BY <1>0, <2>1, AdvWrites
  <2>3. /\ w.out = [j \in DOMAIN s |-> s[j].pkt]
        /\ DueAt(queue, now) = {s[j] : j \in DOMAIN s}
    BY <2>2 DEF DueInOrder
  <2>4. s[i] \in DueAt(queue, now) /\ p = s[i].pkt
    BY <2>3
  <2>5. s[i] \in queue.held /\ s[i].release <= now
    BY <2>4 DEF DueAt
  <2>6. DueIn(queue, reads, p) = s[i].release
    BY <1>3, <2>4, <2>5 DEF Releases
  <2> QED BY <1>1, <2>5, <2>6
<1>4. CASE queue.kind \notin {"delay", "adv"}
  <2> HIDE DEF p
  <2>1. DelayIn(queue, reads, p) = 0
    BY <1>4 DEF DelayIn
  <2>2. DueIn(queue, reads, p) = reads[p.id].time + 0 /\ IsReadIn(reads, p)
    BY <1>1, <2>1, QueuedIsRead
  <2>3. p.id \in DOMAIN reads
    BY <2>2 DEF IsReadIn
  <2>4. reads[p.id].time \in Nat /\ reads[p.id].time <= now
    <3>1. reads[p.id] \in Read
      BY <2>3 DEF TypeOK
    <3> QED BY <2>3, <3>1, PacketFields DEF ReadsInTime
  <2>5. DueIn(queue, reads, p) <= now
    BY <2>2, <2>4
  <2> QED BY <1>1, <2>5 DEF p
<1> QED BY <1>2, <1>3, <1>4

LEMMA WrittenInTimeStep ==
  TypeOK /\ TypeOK' /\ Regular /\ ReadsInTime /\ QueueInTime /\ WrittenInTime /\ [Next]_vars
    => WrittenInTime'
<1> SUFFICES ASSUME TypeOK, TypeOK', Numbers, Releases, ReadsInTime, QueueInTime, WrittenInTime,
                    [Next]_vars, queue'.kind # "link"
             PROVE  WrittenInTime'
  BY DEF WrittenInTime, Regular
<1> DEFINE due(x) == DueIn(queue, reads, x)
           then(x) == DueIn(queue', reads', x)
<1>0. /\ FerryQueue(queue) /\ now \in Nat /\ Slack \in Nat /\ queue.kind # "link"
      /\ awake \in Nat /\ awake <= Slack
  <2>1. Slack \in Nat /\ awake \in 0..Slack
    BY FerryAssumption DEF TypeOK
  <2>2. SameSettings(queue, queue')
    BY SettingsKept
  <2> QED BY <2>1, <2>2 DEF TypeOK, SameSettings
<1>1. ASSUME NEW k \in DOMAIN written
      PROVE  /\ then(written[k].pkt) = due(written[k].pkt)
             /\ due(written[k].pkt) <= written[k].time
             /\ written[k].time <= due(written[k].pkt) + 2 * Slack
  <2>1. written[k].pkt \in Packet /\ IsReadIn(reads, written[k].pkt)
    BY <1>1, WrittenIsRead
  <2>2. then(written[k].pkt) = due(written[k].pkt)
    BY <2>1, DueKept
  <2> QED BY <1>0, <1>1, <2>2 DEF WrittenInTime
<1>2. ASSUME NEW x \in Queued(queue)
      PROVE  due(x) \in Nat /\ then(x) = due(x) /\ now <= due(x) + Slack + awake
  <2>1. x \in Packet /\ IsReadIn(reads, x) /\ due(x) \in Nat
    BY <1>2, QueuedIsRead
  <2>2. then(x) = due(x)
    BY <2>1, DueKept
  <2> QED BY <1>0, <1>2, <2>1, <2>2 DEF QueueInTime, InTimeFor
<1>3. ASSUME NEW w, Writing(w), NEW i \in DOMAIN w.out
      PROVE  /\ then(w.out[i]) <= now
             /\ now <= then(w.out[i]) + 2 * Slack
  <2>1. w \in WritePackets(queue, now)
    BY <1>3 DEF Writing
  <2>2. w.out[i] \in Queued(queue) /\ due(w.out[i]) <= now
    BY <1>0, <1>3, <2>1, WritesWhatIsDue
  <2> HIDE DEF due, then
  <2> DEFINE d == due(w.out[i])
  <2>3. d \in Nat /\ then(w.out[i]) = d /\ now <= d + Slack + awake /\ d <= now
    BY <1>2, <2>2
  <2> HIDE DEF d
  <2> QED BY <1>0, <2>3
<1> HIDE DEF due
<1>4. CASE written' = written
  BY <1>1, <1>4 DEF WrittenInTime
<1>5. ASSUME NEW w, Writing(w) PROVE WrittenInTime'
  <2>1. Appended(w)
    BY <1>5, WritingAppends
  <2>2. ASSUME NEW k \in DOMAIN written'
        PROVE  /\ then(written'[k].pkt) <= written'[k].time
               /\ written'[k].time <= then(written'[k].pkt) + 2 * Slack
    <3> HIDE DEF then
    <3>1. CASE k \in DOMAIN written
      BY <1>1, <2>1, <3>1 DEF Appended
    <3>2. CASE k \notin DOMAIN written
      <4>1. /\ k - Len(written) \in DOMAIN w.out
            /\ written'[k].pkt = w.out[k - Len(written)] /\ written'[k].time = now
        BY <2>1, <2>2, <3>2 DEF Appended
      <4> QED BY <1>3, <1>5, <4>1
    <3> QED BY <3>1, <3>2
  <2> QED BY <2>2 DEF WrittenInTime
<1> QED BY <1>4, <1>5, Steps DEF Quiet, Arriving

LEMMA InTimeInit == Init => InTime
<1> SUFFICES ASSUME Init PROVE InTime
  OBVIOUS
<1>1. tun = <<>> /\ reads = <<>> /\ written = <<>>
  BY DEF Init
<1>2. Queued(queue) = {}
  <2>1. /\ FerryQueue(queue)
        /\ queue.kind = "adv" => queue.held = {}
        /\ queue.kind # "adv" => queue.held = <<>>
        /\ queue.kind = "link" => queue.output = <<>>
    BY TypeInit DEF TypeOK
  <2>2. queue.kind # "adv" => Line(queue) = <<>>
    BY <2>1 DEF Line
  <2> QED BY <2>1, <2>2 DEF Queued
<1> QED BY <1>1, <1>2 DEF InTime, TunInTime, ReadsInTime, QueueInTime, WrittenInTime

LEMMA InTimeMeans == TypeOK /\ Regular /\ InTime => DelayKept
<1> SUFFICES ASSUME TypeOK, Numbers, InTime, queue.kind # "link"
             PROVE  DelayKept
  BY DEF Regular, DelayKept
<1>0. /\ FerryQueue(queue) /\ now \in Nat /\ Slack \in Nat /\ awake \in Nat /\ awake <= Slack
      /\ tun \in Seq(Packet) /\ reads \in Seq(Read)
  <2>1. Slack \in Nat /\ awake \in 0..Slack
    BY FerryAssumption DEF TypeOK
  <2> QED BY <2>1 DEF TypeOK
<1>1. ASSUME NEW p \in Packet, IsReadIn(reads, p)
      PROVE  /\ Due(p) = DueIn(queue, reads, p) /\ DueDelay(ReadOf(p)) = DueDelay(p.id)
             /\ DueDelay(p.id) \in Nat /\ p.sent \in Nat /\ DueIn(queue, reads, p) \in Nat
             /\ DueIn(queue, reads, p) <= p.sent + DueDelay(p.id) + Slack
  <2>1. /\ ReadOf(p) = p.id /\ DueDelay(p.id) = DelayIn(queue, reads, p)
        /\ Due(p) = DueIn(queue, reads, p)
    BY <1>1, DueIsDueIn
  <2>2. /\ DelayIn(queue, reads, p) \in Nat /\ DueIn(queue, reads, p) \in Nat
        /\ DueIn(queue, reads, p) = reads[p.id].time + DelayIn(queue, reads, p)
    BY <1>0, <1>1, DueType
  <2>3. reads[p.id].pkt = p /\ p.id \in DOMAIN reads /\ reads[p.id] \in Read
    BY <1>0, <1>1 DEF IsReadIn
  <2>4. reads[p.id].time \in Nat /\ p.sent \in Nat /\ reads[p.id].time <= p.sent + Slack
    BY <2>3, PacketFields DEF InTime, ReadsInTime
  <2> DEFINE d == DelayIn(queue, reads, p)
             t == reads[p.id].time
  <2>5. d \in Nat /\ t \in Nat /\ p.sent \in Nat /\ t <= p.sent + Slack
    BY <2>2, <2>4
  <2> HIDE DEF d, t
  <2>6. t + d <= p.sent + d + Slack
    BY <1>0, <2>5
  <2> QED BY <2>1, <2>2, <2>4, <2>6 DEF d, t
<1>2. ASSUME NEW k \in DOMAIN written
      PROVE  /\ Due(written[k].pkt) <= written[k].time
             /\ ~Late(written[k].pkt, DueDelay(ReadOf(written[k].pkt)), written[k].time)
  <2> DEFINE p == written[k].pkt
             t == written[k].time
             u == DueIn(queue, reads, p)
             d == DueDelay(p.id)
  <2>1. p \in Packet /\ IsReadIn(reads, p) /\ t \in Nat
    BY <1>2, WrittenIsRead
  <2>2. /\ Due(p) = u /\ DueDelay(ReadOf(p)) = d
        /\ d \in Nat /\ p.sent \in Nat /\ u \in Nat /\ u <= p.sent + d + Slack
    BY <1>1, <2>1
  <2>3. u <= t /\ t <= u + 2 * Slack
    BY <1>2 DEF InTime, WrittenInTime
  <2> HIDE DEF p, t, u, d
  <2>4. ~(t > p.sent + d + 3 * Slack)
    BY <1>0, <2>1, <2>2, <2>3
  <2> QED BY <2>2, <2>3, <2>4 DEF Late, p, t
<1>3. ASSUME NEW j \in DOMAIN tun PROVE ~Late(tun[j], 0, now)
  <2>1. tun[j] \in Packet
    BY <1>0, <1>3
  <2>2. tun[j].sent \in Nat /\ now <= tun[j].sent + awake
    BY <1>3, <2>1, PacketFields DEF InTime, TunInTime
  <2> QED BY <1>0, <2>2 DEF Late
<1>4. ASSUME NEW i \in DOMAIN reads, reads[i].held, \A k \in DOMAIN written : written[k].pkt # reads[i].pkt
      PROVE  ~Late(reads[i].pkt, DueDelay(i), now)
  <2> DEFINE p == reads[i].pkt
             u == DueIn(queue, reads, p)
             d == DueDelay(i)
  <2>1. p \in Queued(queue) /\ p.id = i
    BY <1>4 DEF Numbers, Accounted, Numbered
  <2>2. p \in Packet /\ IsReadIn(reads, p)
    BY <2>1, QueuedIsRead
  <2>3. d \in Nat /\ p.sent \in Nat /\ u \in Nat /\ u <= p.sent + d + Slack
    BY <1>1, <2>1, <2>2
  <2>4. now <= u + Slack + awake
    BY <2>1 DEF InTime, QueueInTime, InTimeFor
  <2> HIDE DEF p, u, d
  <2>5. ~(now > p.sent + d + 3 * Slack)
    BY <1>0, <2>3, <2>4
  <2> QED BY <2>5 DEF Late, p, d
<1> QED BY <1>2, <1>3, <1>4 DEF DelayKept

\* The delay is kept: no packet leaves before it is due, and none is held longer
\* than its delay and three times what the process takes, once awake, to sleep
\* again (delay_queue.cc, adv_delay_queue.cc, loss_queue.cc, poller.cc:45-75).
THEOREM DelaysAreKept == Spec => []DelayKept
<1>1. Init => InTime
  BY InTimeInit
<1>2. TypeOK /\ Regular /\ (TypeOK /\ Regular)' /\ InTime /\ [Next]_vars => InTime'
  BY TunInTimeStep, ReadsInTimeStep, QueueInTimeStep, WrittenInTimeStep DEF InTime
<1>3. TypeOK /\ Regular /\ InTime => DelayKept
  BY InTimeMeans
<1>4. Spec => [](TypeOK /\ Regular)
  BY AlwaysRegular
<1> QED BY <1>1, <1>2, <1>3, <1>4, PTL DEF Spec

-----------------------------------------------------------------------------
(* The end. *)

\* A link loses no packet.
LEMMA LinkCountStep == TypeOK /\ TypeOK' /\ LinkCount /\ [Next]_vars => LinkCount'
<1> SUFFICES ASSUME TypeOK, TypeOK', LinkCount, [Next]_vars, queue'.kind = "link"
             PROVE  LinkCount'
  BY DEF LinkCount
<1>0. /\ FerryQueue(queue) /\ FerryQueue(queue') /\ now \in Nat /\ queue.kind = "link"
      /\ Line(queue) \in Seq(Packet) /\ Line(queue') \in Seq(Packet)
      /\ reads \in Seq(Read) /\ written \in Seq(Write)
      /\ Len(written) + Len(Line(queue)) = Len(reads)
  <2>1. queue.kind = "link"
    BY SettingsKept DEF SameSettings
  <2> QED BY <2>1, LineType DEF TypeOK, LinkCount
<1>1. ASSUME Line(queue') = Line(queue), reads' = reads, written' = written PROVE LinkCount'
  BY <1>0, <1>1 DEF LinkCount
<1>2. CASE Quiet
  BY <1>0, <1>1, <1>2 DEF Quiet
<1>3. ASSUME NEW p, Arriving(p) PROVE LinkCount'
  BY <1>1, <1>3 DEF Arriving
<1>4. ASSUME Reading(Head(tun)), written' = written PROVE LinkCount'
  <2> DEFINE p == Head(tun)
  <2>1. p \in Packet /\ Recorded(p) /\ queue' \in ReadPacket(queue, p, now)
    BY <1>0, <1>4, ReadingRecords DEF Reading
  <2> HIDE DEF p
  <2>2. Line(queue') = Append(Line(queue), p)
    <3>1. queue \in ALinkQueue
      BY <1>0, Kinds
    <3> QED BY <1>0, <2>1, <3>1, LinkReads
  <2> DEFINE v == Line(queue)
             u == Line(queue')
  <2>3. Len(u) = Len(v) + 1 /\ Len(v) \in Nat
    <3>1. u = Append(v, p) /\ v \in Seq(Packet)
      BY <1>0, <2>2
    <3> HIDE DEF u, v
    <3> QED BY <3>1
  <2>4. Len(reads') = Len(reads) + 1
    BY <2>1 DEF Recorded
  <2> HIDE DEF u, v
  <2>5. Len(written) + Len(u) = Len(reads')
    BY <1>0, <2>3, <2>4 DEF v
  <2> QED BY <1>4, <2>5 DEF LinkCount, u
<1>5. ASSUME NEW w, Writing(w), reads' = reads PROVE LinkCount'
  <2> DEFINE v == Line(queue)
             u == Line(queue')
  <2>1. PICK n \in 0..Len(v) : w.out = SubSeq(v, 1, n) /\ u = SubSeq(v, n + 1, Len(v))
    BY <1>0, <1>5, Writes DEF Writing
  <2>2. v \in Seq(Packet)
    BY <1>0
  <2>3. Len(written') = Len(written) + Len(w.out)
    BY <1>5 DEF Writing
  <2> HIDE DEF u, v
  <2>4. Len(w.out) = n /\ Len(u) = Len(v) - n /\ Len(v) \in Nat /\ n \in Nat
    BY <2>1, <2>2
  <2>5. Len(written) + Len(v) = Len(reads) /\ Len(written) \in Nat
    BY <1>0 DEF v
  <2>6. Len(written') + Len(u) = Len(reads)
    BY <2>3, <2>4, <2>5
  <2> QED BY <1>5, <2>6 DEF LinkCount, u
<1> QED BY <1>2, <1>3, <1>4, <1>5, Steps

\* A link that has finished exits once what it has put out is written.
LEMMA LinkDoneStep == TypeOK /\ TypeOK' /\ LinkDone /\ [Next]_vars => LinkDone'
<1> SUFFICES ASSUME TypeOK, TypeOK', LinkDone, [Next]_vars PROVE LinkDone'
  OBVIOUS
<1> USE DEF loop, history
<1>0. FerryQueue(queue) /\ now \in Nat /\ events \in SUBSET Actions
  BY DEF TypeOK
<1>1. CASE UNCHANGED <<pc, queue, interest, events, signal>>
  BY <1>1 DEF LinkDone
<1>2. CASE Tick
  BY <1>1, <1>2 DEF Tick
<1>3. ASSUME NEW h \in Headers(command.program), Arrive(h) PROVE LinkDone'
  BY <1>1, <1>3 DEF Arrive
<1>4. CASE AskToQuit
  BY <1>4 DEF AskToQuit, LinkDone
<1>5. CASE AskWaitTime
  BY <1>5 DEF AskWaitTime, LinkDone
<1>6. CASE Poll
  <2>1. /\ pc' = "poll" /\ queue' = queue
        /\ "exit" \in interest' => Finished(queue)
        /\ PendingOutput(queue, now) => "write" \in interest'
    BY <1>6 DEF Poll
  <2>2. Finished(queue) => PendingOutput(queue, now) \/ queue.output = <<>>
    BY DEF Finished, PendingOutput
  <2> QED BY <2>1, <2>2 DEF LinkDone
<1>7. CASE PollTimesOut
  BY <1>7 DEF PollTimesOut, LinkDone
<1>8. CASE PollReturns
  <2>1. /\ pc = "poll" /\ pc' = "service" /\ queue' = queue /\ signal' = signal
        /\ events' = Ready
    BY <1>8 DEF PollReturns
  <2>2. /\ "exit" \in Ready => "exit" \in interest
        /\ "write" \in interest => "write" \in Ready
        /\ "signal" \in Ready => signal
    BY DEF Ready
  <2> QED BY <2>1, <2>2 DEF LinkDone
<1>9. CASE ServiceRead
  <2> DEFINE p == Head(tun)
  <2>1. Reading(p) /\ signal' = signal /\ pc = "service" /\ pc' \in {"service", "threw"}
    BY <1>9, ServiceReads DEF ServiceRead, Reading
  <2>2. p \in Packet
    BY <2>1 DEF Reading
  <2> HIDE DEF p
  <2>3. CASE pc' = "threw"
    BY <2>3 DEF LinkDone
  <2>4. CASE pc' = "service"
    <3>1. queue' \in ReadPacket(queue, p, now) /\ events' = events \ {"read"}
      BY <1>9, <2>1, <2>4 DEF Reading, ServiceRead
    <3>2. Finished(queue) => Finished(queue') /\ queue'.output = queue.output
      BY <1>0, <2>2, <3>1, Reads
    <3> QED BY <2>1, <2>4, <3>1, <3>2 DEF LinkDone
  <2> QED BY <2>1, <2>3, <2>4
<1>10. CASE ServiceWrite
  <2>1. PICK w : Writing(w)
    BY <1>10, ServiceWrites
  <2>2. /\ signal' = signal /\ pc = "service" /\ pc' \in {"service", "busy"}
        /\ events' = events \ {"write"}
    BY <1>10 DEF ServiceWrite
  <2>3. Finished(queue) => Finished(queue') /\ queue'.output = <<>>
    <3>1. ASSUME Finished(queue) PROVE queue \in ALinkQueue /\ queue.kind = "link"
      BY <1>0, <3>1, Kinds DEF Finished
    <3>2. ASSUME Finished(queue) PROVE w.queue.kind = "link" /\ w.queue.trace = queue.trace /\ w.queue.output = <<>>
      BY <1>0, <2>1, <3>1, <3>2, LinkWrites DEF Writing, ALinkQueue
    <3> QED BY <2>1, <3>2 DEF Finished, Writing
  <2> QED BY <2>2, <2>3 DEF LinkDone
<1>11. CASE ServiceExit
  <2>1. /\ pc = "service" /\ pc' = "exited" /\ queue' = queue /\ signal' = signal
        /\ events \cap {"read", "write"} = {} /\ events # {}
    BY <1>11 DEF ServiceExit
  <2>2. "signal" \in events \/ ("exit" \in events /\ "write" \notin events)
    BY <1>0, <2>1 DEF Actions
  <2> QED BY <2>1, <2>2 DEF LinkDone
<1>12. CASE ServiceOver
  BY <1>12 DEF ServiceOver, LinkDone
<1>13. CASE UNCHANGED vars
  BY <1>1, <1>13 DEF vars
<1> QED BY <1>2, <1>3, <1>4, <1>5, <1>6, <1>7, <1>8, <1>9, <1>10, <1>11, <1>12, <1>13
        DEF Next, Loop, Service

\* The destructor saves the counters the queue ends with.
LEMMA SavedStep == TypeOK /\ SavedOK /\ [Next]_vars => SavedOK'
<1> SUFFICES ASSUME TypeOK, SavedOK, [Next]_vars PROVE SavedOK'
  OBVIOUS
<1> USE DEF loop, history
<1>1. CASE pc' \notin {"exited", "threw"}
  BY <1>1 DEF SavedOK
<1>2. CASE UNCHANGED <<pc, queue, saved>>
  BY <1>2 DEF SavedOK
<1>3. CASE ServiceRead
  <2>1. pc = "service" /\ Reading(Head(tun))
    BY <1>3, ServiceReads DEF ServiceRead
  <2> QED BY <1>1, <2>1 DEF Reading, SavedOK
<1>4. CASE ServiceExit
  BY <1>4 DEF ServiceExit, Destroy, SavedOK
<1>5. ASSUME NEW h \in Headers(command.program), Arrive(h) PROVE SavedOK'
  BY <1>2, <1>5 DEF Arrive
<1>6. Tick \/ AskToQuit \/ AskWaitTime \/ Poll \/ PollTimesOut \/ PollReturns \/ ServiceWrite
        \/ ServiceOver \/ UNCHANGED vars => SavedOK'
  BY <1>1, <1>2 DEF Tick, AskToQuit, AskWaitTime, Poll, PollTimesOut, PollReturns, ServiceWrite,
                    ServiceOver, vars
<1> QED BY <1>3, <1>4, <1>5, <1>6 DEF Next, Loop, Service

LEMMA TidyMeans == TypeOK /\ Regular /\ WriteReady /\ TidySoFar => EndsTidily
<1> SUFFICES ASSUME TypeOK, Counters, WriteReady, TidySoFar PROVE EndsTidily
  BY DEF Regular
<1>1. ReadyIsWritten
  <2> SUFFICES ASSUME pc = "exited", ~signal
               PROVE  /\ queue.kind = "link" /\ queue.output = <<>>
                      /\ Len(written) + Len(queue.held) = Len(reads)
    BY DEF ReadyIsWritten
  <2>1. queue.kind = "link" /\ queue.output = <<>>
    BY DEF TidySoFar, LinkDone, Finished
  <2>2. queue.held \in Seq(Packet)
    BY <2>1, Kinds DEF TypeOK, ALinkQueue
  <2>3. Line(queue) = queue.held
    <3> DEFINE v == queue.held
    <3>1. Line(queue) = <<>> \o v /\ v \in Seq(Packet)
      BY <2>1, <2>2 DEF Line
    <3> HIDE DEF v
    <3>2. Line(queue) = v
      BY <3>1
    <3> QED BY <3>2 DEF v
  <2> QED BY <2>1, <2>3 DEF TidySoFar, LinkCount
<1>2. CountersSaved
  <2> SUFFICES ASSUME Over, queue.kind = "adv"
               PROVE  /\ saved.bytes = Bytes(DOMAIN reads)
                      /\ \A c \in Connections(queue.rules) :
                           LET sent == {i \in DOMAIN reads : /\ CountedPacket(queue, reads[i].pkt)
                                                             /\ Connection(queue, reads[i].pkt) = c}
                           IN  /\ saved.per_conn[c] = Bytes(sent)
                               /\ IF sent = {} THEN c \notin DOMAIN saved.pkts
                                               ELSE saved.pkts[c] = Cardinality(sent)
    BY DEF CountersSaved
  <2>1. /\ saved.bytes = queue.num_bytes /\ saved.per_conn = queue.byte_counters
        /\ saved.pkts = queue.pkt_counters
    BY DEF Over, WriteReady, TidySoFar, SavedOK, Saved
  <2>2. \A js : Bytes(js) = BytesIn(reads, js)
    BY Zenon DEF Bytes, BytesIn
  <2>3. CountersOf(queue, reads)
    BY DEF Counters
  <2>4. ASSUME NEW c \in Connections(queue.rules)
        PROVE  LET sent == {i \in DOMAIN reads : /\ CountedPacket(queue, reads[i].pkt)
                                                 /\ Connection(queue, reads[i].pkt) = c}
               IN  /\ saved.per_conn[c] = Bytes(sent)
                   /\ IF sent = {} THEN c \notin DOMAIN saved.pkts
                                   ELSE saved.pkts[c] = Cardinality(sent)
    <3>1. SentOn(queue, reads, c) = {i \in DOMAIN reads : /\ CountedPacket(queue, reads[i].pkt)
                                                          /\ Connection(queue, reads[i].pkt) = c}
      BY DEF SentOn
    <3>2. /\ saved.per_conn[c] = Bytes(SentOn(queue, reads, c))
          /\ IF SentOn(queue, reads, c) = {} THEN c \notin DOMAIN saved.pkts
             ELSE saved.pkts[c] = Cardinality(SentOn(queue, reads, c))
      BY <2>1, <2>2, <2>3 DEF CountersOf
    <3> QED BY <3>1, <3>2
  <2> QED BY <2>1, <2>2, <2>3, <2>4 DEF CountersOf
<1> QED BY <1>1, <1>2 DEF EndsTidily

\* A ferry that ends leaves nothing undone: what a finished link has put out is
\* written, and what a queue with rules has counted is saved, however it ends
\* (packetshell.cc:187-194, adv_delay_queue.cc:21-86).
THEOREM TidyToTheEnd == Spec => []EndsTidily
<1>1. Init => WriteReady /\ TidySoFar
  <2> SUFFICES ASSUME Init PROVE WriteReady /\ LinkCount /\ LinkDone /\ SavedOK
    BY DEF TidySoFar
  <2>1. WriteReady /\ LinkDone /\ SavedOK
    BY DEF Init, WriteReady, LinkDone, SavedOK
  <2>2. LinkCount
    <3>1. queue.kind = "link" => Line(queue) = <<>>
      BY TypeInit DEF Line
    <3> QED BY <3>1 DEF Init, LinkCount
  <2> QED BY <2>1, <2>2
<1>2. TypeOK /\ Regular /\ (TypeOK /\ Regular)' /\ WriteReady /\ TidySoFar /\ [Next]_vars
        => (WriteReady /\ TidySoFar)'
  BY WriteReadyStep, LinkCountStep, LinkDoneStep, SavedStep DEF TidySoFar
<1>3. TypeOK /\ Regular /\ WriteReady /\ TidySoFar => EndsTidily
  BY TidyMeans
<1>4. Spec => [](TypeOK /\ Regular)
  BY AlwaysRegular
<1> QED BY <1>1, <1>2, <1>3, <1>4, PTL DEF Spec
=============================================================================

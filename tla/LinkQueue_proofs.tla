-------------------------- MODULE LinkQueue_proofs --------------------------
(***************************************************************************)
(* Proofs about LinkQueue, for every trace, packet size, limit and clock,  *)
(* and, in the last part, about LiveGraph, for every width and amounts.    *)
(***************************************************************************)
EXTENDS LinkQueue, LiveGraph, Sums_proofs, FiniteSetTheorems, TLAPS

(***************************************************************************)
(* The inductive invariant.                                                *)
(***************************************************************************)
\* The queue holds packets that fit into an opportunity, counts them, and is
\* within its limits.
Within(q) ==
  /\ q \in Queue
  /\ \A i \in 1..Len(q.pkts) : q.pkts[i].size \in 1..PACKET_SIZE
  /\ q.count = Len(q.pkts)
  /\ Good(q)

\* So does the packet in transit, and the one about to be enqueued, which
\* carries the time the call has read.
TransitFits ==
  /\ bytes_left <= packet_in_transit.size
  /\ call.op = "read" => call.pkt.size \in 1..PACKET_SIZE /\ call.pkt.arrival = call.now

\* All that is still to be sent arrived before the time t.
PendingBefore(t) ==
  /\ \A i \in 1..Len(packet_queue.pkts) : packet_queue.pkts[i].arrival < t
  /\ bytes_left # 0 => packet_in_transit.arrival < t

\* Every pending packet arrived before the opportunity that may send it: the
\* one in progress, or else the next.
PendingInTime ==
  /\ pc = "send" => /\ PendingBefore(delivery.time)
                    /\ ~finished => delivery.time <= next_delivery_time
  /\ (pc # "send" /\ ~finished) => PendingBefore(next_delivery_time)

IInv ==
  /\ TypeOK
  /\ AssertionsHold
  /\ Within(packet_queue)
  /\ TransitFits
  /\ PendingInTime
  /\ DelayPositive

\* The configurations in which one departure makes room for any arrival: with
\* a byte limit, drophead may have to drop several, and its assertion fails.
OneDropIsEnough == Discipline = "drophead" => ByteLimit = 0

-----------------------------------------------------------------------------
LEMMA AppendIsSeq ==
  ASSUME NEW S, NEW s \in Seq(S), NEW e \in S
  PROVE  Append(s, e) \in Seq(S)
OBVIOUS

LEMMA ElementOf ==
  ASSUME NEW S, NEW s \in Seq(S)
  PROVE  Len(s) \in Nat /\ \A i \in 1..Len(s) : s[i] \in S
OBVIOUS

LEMMA NextIndex ==
  ASSUME NEW n \in Nat \ {0}, NEW i \in 0..(n - 1)
  PROVE  (i + 1) % n = IF i + 1 = n THEN 0 ELSE i + 1
OBVIOUS

\* next_delivery_time is a time, and an opportunity moves it forward or not at all.
LEMMA NextTimeIsNat ==
  ASSUME TypeOK
  PROVE  /\ next_delivery_time \in Nat
         /\ schedule \in Seq(Nat) /\ Len(schedule) \in Nat \ {0}
         /\ schedule[Len(schedule)] \in Nat
<1>1. ValidSchedule(schedule)
  BY LinkAssumption DEF TypeOK
<1>2. schedule \in Seq(Nat) /\ Len(schedule) \in Nat \ {0}
  BY <1>1 DEF ValidSchedule
<1>3. next_delivery + 1 \in 1..Len(schedule)
  BY <1>2 DEF TypeOK
<1>4. schedule[next_delivery + 1] \in Nat /\ schedule[Len(schedule)] \in Nat
  BY <1>2, <1>3
<1>5. base_timestamp \in Nat
  BY DEF TypeOK
<1> QED
  BY <1>2, <1>4, <1>5 DEF next_delivery_time

LEMMA NextTimeIsNatNext == TypeOK' => next_delivery_time' \in Nat
<1> DEFINE P == next_delivery_time \in Nat
<1>1. TypeOK => P
  BY NextTimeIsNat
<1>2. TypeOK' => P'
  <2> HIDE DEF P
  <2> QED BY <1>1, PTL
<1> QED BY <1>2

LEMMA AdvanceMovesOn ==
  ASSUME TypeOK, ~finished, Advance, UNCHANGED trace
  PROVE  /\ next_delivery' \in 0..(Len(schedule') - 1)
         /\ base_timestamp' \in Nat /\ finished' \in BOOLEAN
         /\ ~finished' => next_delivery_time <= next_delivery_time'
<1> DEFINE n == Len(schedule)
<1>1. ValidSchedule(schedule)
  BY LinkAssumption DEF TypeOK
<1>2. /\ schedule \in Seq(Nat) /\ n \in Nat \ {0}
      /\ schedule[n] \in Nat /\ next_delivery_time \in Nat
  BY NextTimeIsNat
<1>3. next_delivery \in 0..(n - 1) /\ base_timestamp \in Nat /\ finished \in BOOLEAN
  BY DEF TypeOK
<1>4. schedule' = schedule
  BY DEF trace
<1>5. CASE next_delivery + 1 = n
  <2>1. next_delivery' = 0
    BY <1>2, <1>3, <1>5, NextIndex DEF Advance
  <2>2. schedule[1] \in Nat /\ next_delivery_time = schedule[n] + base_timestamp
    BY <1>2, <1>3, <1>5 DEF next_delivery_time
  <2>3. CASE repeat
    <3>1. base_timestamp' = base_timestamp + schedule[n] /\ finished' = finished
      BY <2>1, <2>3 DEF Advance
    <3>2. next_delivery_time' = schedule[1] + base_timestamp'
      BY <1>4, <2>1 DEF next_delivery_time
    <3> QED
      BY <1>2, <1>3, <1>4, <2>1, <2>2, <3>1, <3>2, SMTT(30)
  <2>4. CASE ~repeat
    <3>1. base_timestamp' = base_timestamp /\ finished' = TRUE
      BY <2>1, <2>4 DEF Advance
    <3> QED
      BY <1>2, <1>3, <1>4, <2>1, <3>1
  <2> QED BY <2>3, <2>4
<1>6. CASE next_delivery + 1 # n
  <2>1. next_delivery' = next_delivery + 1
    BY <1>2, <1>3, <1>6, NextIndex DEF Advance
  <2>2. next_delivery' # 0 /\ base_timestamp' = base_timestamp /\ finished' = finished
    BY <1>3, <2>1 DEF Advance
  <2>3. next_delivery + 1 \in 1..n /\ next_delivery + 2 \in 1..n
    BY <1>2, <1>3, <1>6
  <2>4. schedule[next_delivery + 1] <= schedule[next_delivery + 2]
    BY <1>1, <1>3, <2>3 DEF ValidSchedule
  <2>5. next_delivery_time' = schedule[next_delivery + 2] + base_timestamp
    BY <1>3, <1>4, <2>1, <2>2 DEF next_delivery_time
  <2>6. schedule[next_delivery + 1] \in Nat /\ schedule[next_delivery + 2] \in Nat
    BY <1>2, <2>3
  <2>7. next_delivery_time <= next_delivery_time'
    <3>1. next_delivery_time = schedule[next_delivery + 1] + base_timestamp
      BY DEF next_delivery_time
    <3> QED BY <1>3, <2>4, <2>5, <2>6, <3>1
  <2>8. next_delivery' \in 0..(Len(schedule') - 1)
    BY <1>2, <1>3, <1>4, <1>6, <2>1
  <2> QED
    BY <1>3, <2>2, <2>7, <2>8
<1> QED BY <1>5, <1>6

-----------------------------------------------------------------------------
\* What dequeueing and enqueueing do to a queue that is within its limits.
LEMMA PopWithin ==
  ASSUME NEW q, Within(q), ~Empty(q)
  PROVE  /\ Within(Pop(q))
         /\ Head(q.pkts) \in Packet /\ Head(q.pkts).size \in 1..PACKET_SIZE
         /\ Head(q.pkts) = q.pkts[1]
         /\ \A i \in 1..Len(Pop(q).pkts) : i + 1 \in 1..Len(q.pkts)
                                         /\ Pop(q).pkts[i] = q.pkts[i + 1]
<1> DEFINE h == Head(q.pkts)
<1> DEFINE t == Tail(q.pkts)
<1>1. q.pkts \in Seq(Packet) /\ q.pkts # <<>> /\ q.bytes \in Int /\ q.count = Len(q.pkts)
  BY DEF Within, Queue, Empty
<1>2. /\ h = q.pkts[1] /\ h \in Packet /\ h.size \in 1..PACKET_SIZE
      /\ t \in Seq(Packet) /\ Len(t) = Len(q.pkts) - 1
      /\ \A i \in 1..Len(t) : i + 1 \in 1..Len(q.pkts) /\ t[i] = q.pkts[i + 1]
  BY <1>1 DEF Within
<1>3. Pop(q) \in Queue
  BY <1>1, <1>2 DEF Pop, Queue, Packet
<1>4. Pop(q).count = Len(Pop(q).pkts)
  BY <1>1, <1>2 DEF Pop
<1>5. Good(Pop(q))
  <2>1. Good(q) /\ q.count \in Int /\ h.size \in Nat
    BY <1>1, <1>2 DEF Within, Queue, Packet
  <2>2. Pop(q).bytes = q.bytes - h.size /\ Pop(q).count = q.count - 1
    BY DEF Pop
  <2> QED BY <1>1, <2>1, <2>2, LimitsAssumption DEF Good, GoodWith
<1>6. Pop(q).pkts = t
  BY DEF Pop
<1>7. \A i \in 1..Len(t) : t[i].size \in 1..PACKET_SIZE
  BY <1>2 DEF Within
<1> QED
  BY <1>2, <1>3, <1>4, <1>5, <1>6, <1>7 DEF Within

LEMMA AcceptWithin ==
  ASSUME NEW q, Within(q), NEW p \in Packet, p.size \in 1..PACKET_SIZE
  PROVE  LET full == Accept(q, p)
         IN  /\ full \in Queue
             /\ full.count = Len(full.pkts) /\ full.count = q.count + 1
             /\ full.bytes = q.bytes + p.size
             /\ full.pkts = Append(q.pkts, p)
             /\ \A i \in 1..Len(full.pkts) : full.pkts[i].size \in 1..PACKET_SIZE
<1>1. q.pkts \in Seq(Packet) /\ q.bytes \in Int /\ q.count = Len(q.pkts)
  BY DEF Within, Queue
<1>2. /\ Append(q.pkts, p) \in Seq(Packet) /\ Len(Append(q.pkts, p)) = Len(q.pkts) + 1
      /\ \A i \in 1..Len(Append(q.pkts, p)) :
           Append(q.pkts, p)[i] = IF i <= Len(q.pkts) THEN q.pkts[i] ELSE p
  BY <1>1
<1>3. \A i \in 1..Len(Append(q.pkts, p)) : Append(q.pkts, p)[i].size \in 1..PACKET_SIZE
  BY <1>1, <1>2 DEF Within
<1>4. Accept(q, p) \in Queue
  BY <1>1, <1>2 DEF Accept, Queue, Packet
<1>5. Accept(q, p).count = q.count + 1 /\ Accept(q, p).bytes = q.bytes + p.size
      /\ Accept(q, p).pkts = Append(q.pkts, p)
  BY DEF Accept
<1> QED
  BY <1>1, <1>2, <1>3, <1>4, <1>5

LEMMA EnqueueWithin ==
  ASSUME OneDropIsEnough, NEW q, Within(q), NEW p \in Packet, p.size \in 1..PACKET_SIZE
  PROVE  LET e == Enqueue(q, p)
         IN  /\ EnqueueAsserts(q, p)
             /\ Within(e)
             /\ \A i \in 1..Len(e.pkts) :
                  e.pkts[i] = p \/ \E j \in 1..Len(q.pkts) : e.pkts[i] = q.pkts[j]
             /\ q.count + 1 - e.count \in Nat
             /\ q.bytes + p.size - e.bytes \in Nat
<1> DEFINE full == Accept(q, p)
<1>1. q.pkts \in Seq(Packet) /\ q.bytes \in Int /\ q.count \in Int /\ p.size \in Nat
      /\ q.count = Len(q.pkts)
  BY DEF Within, Queue, Packet
<1>2. /\ full \in Queue
      /\ full.count = Len(full.pkts) /\ full.count = q.count + 1
      /\ full.bytes = q.bytes + p.size
      /\ full.pkts = Append(q.pkts, p)
      /\ \A i \in 1..Len(full.pkts) : full.pkts[i].size \in 1..PACKET_SIZE
  BY AcceptWithin
<1>3. \A i \in 1..Len(full.pkts) :
        full.pkts[i] = p \/ \E j \in 1..Len(q.pkts) : full.pkts[i] = q.pkts[j]
  BY <1>1, <1>2
<1>4. Good(full) <=> GoodWith(q.bytes + p.size, q.count + 1)
  BY <1>2 DEF Good
<1>5. CASE Good(full) /\ Enqueue(q, p) = full
  <2>1. EnqueueAsserts(q, p)
    BY <1>4, <1>5 DEF EnqueueAsserts, EnqueueHeadAsserts, EnqueueTail
  <2>2. Within(full)
    BY <1>2, <1>5 DEF Within
  <2>3. q.count + 1 - full.count = 0 /\ q.bytes + p.size - full.bytes = 0
    BY <1>1, <1>2
  <2> QED BY <1>3, <1>5, <2>1, <2>2, <2>3
<1>6. CASE ~Good(full) /\ Enqueue(q, p) = q /\ Discipline # "drophead"
  <2>1. Good(q)
    BY DEF Within
  <2>2. EnqueueAsserts(q, p)
    BY <1>4, <1>6, <2>1 DEF EnqueueAsserts, EnqueueTail
  <2>3. q.count + 1 - q.count \in Nat /\ q.bytes + p.size - q.bytes \in Nat
    BY <1>1
  <2> QED BY <1>6, <2>2, <2>3
<1>7. CASE ~Good(full) /\ Enqueue(q, p) = Pop(full) /\ Discipline = "drophead"
  <2> DEFINE t == Tail(full.pkts)
  <2>1. /\ full.pkts \in Seq(Packet) /\ full.pkts # <<>>
        /\ Head(full.pkts) = full.pkts[1] /\ Head(full.pkts).size \in Nat
    <3>1. full.pkts \in Seq(Packet) /\ Len(full.pkts) = Len(q.pkts) + 1
      BY <1>1, <1>2
    <3>2. Head(full.pkts) = full.pkts[1] /\ 1 \in 1..Len(full.pkts) /\ full.pkts # <<>>
      BY <1>1, <3>1
    <3> QED BY <1>2, <3>1, <3>2
  <2>2. /\ t \in Seq(Packet) /\ Len(t) = Len(full.pkts) - 1
        /\ \A i \in 1..Len(t) : i + 1 \in 1..Len(full.pkts) /\ t[i] = full.pkts[i + 1]
    BY <2>1
  <2>3. /\ Pop(full).pkts = t /\ Pop(full).count = q.count
        /\ Pop(full).bytes = full.bytes - Head(full.pkts).size
    BY <1>1, <1>2 DEF Pop
  <2>4. Pop(full) \in Queue
    BY <1>1, <1>2, <2>1, <2>2, <2>3 DEF Pop, Queue
  <2>5. Good(Pop(full))
    BY <1>1, <1>7, <2>3 DEF Within, Good, GoodWith, OneDropIsEnough
  <2>6. Within(Pop(full))
    BY <1>1, <1>2, <2>2, <2>3, <2>4, <2>5 DEF Within
  <2>7. EnqueueAsserts(q, p)
    BY <1>7, <2>1, <2>5 DEF EnqueueAsserts, EnqueueHeadAsserts, DequeueAsserts, Empty
  <2>8. \A i \in 1..Len(t) : t[i] = p \/ \E j \in 1..Len(q.pkts) : t[i] = q.pkts[j]
    BY <1>3, <2>2
  <2>9. /\ q.count + 1 - Pop(full).count \in Nat
        /\ q.bytes + p.size - Pop(full).bytes \in Nat
    BY <1>1, <1>2, <2>1, <2>3
  <2> QED BY <1>7, <2>3, <2>6, <2>7, <2>8, <2>9
<1>8. \/ Good(full) /\ Enqueue(q, p) = full
      \/ ~Good(full) /\ Enqueue(q, p) = q /\ Discipline # "drophead"
      \/ ~Good(full) /\ Enqueue(q, p) = Pop(full) /\ Discipline = "drophead"
  BY <1>4 DEF Enqueue, EnqueueHead, EnqueueTail
<1> QED BY <1>5, <1>6, <1>7, <1>8

-----------------------------------------------------------------------------
LEMMA Initially == Init => IInv
<1> SUFFICES ASSUME Init PROVE IInv
  OBVIOUS
<1>1. TypeOK
  <2>1. 0 \in 0..(Len(schedule) - 1)
    BY LinkAssumption DEF Init, ValidSchedule
  <2>2. /\ EmptyQueue \in Queue /\ NoPacket \in Packet
        /\ NoCall \in [op : {"none", "read", "wait"}, now : Nat, pkt : Packet]
        /\ NoDelivery \in [time : Nat, left : 0..PACKET_SIZE]
    BY LinkAssumption DEF EmptyQueue, Queue, NoPacket, Packet, NoCall, NoDelivery
  <2>3. 0 \in 0..PACKET_SIZE /\ StartTime \in Nat
    BY LinkAssumption
  <2>4. [packets |-> 0, bytes |-> 0] \in [packets : Nat, bytes : Nat]
    OBVIOUS
  <2>5. /\ now \in Nat /\ schedule \in Schedules /\ repeat \in Repeats
        /\ next_delivery \in 0..(Len(schedule) - 1)
        /\ base_timestamp \in Nat /\ finished \in BOOLEAN
    BY <2>1, <2>3 DEF Init
  <2>6. /\ packet_queue \in Queue /\ packet_in_transit \in Packet
        /\ bytes_left \in 0..PACKET_SIZE /\ output_queue \in Seq(Packet)
        /\ call \in [op : {"none", "read", "wait"}, now : Nat, pkt : Packet]
        /\ delivery \in [time : Nat, left : 0..PACKET_SIZE]
    BY <2>2, <2>3 DEF Init
  <2>7. /\ offered \in Seq(Packet) /\ slots \in Seq(Nat)
        /\ departures \in Seq([pkt : Packet, time : Nat])
        /\ delivered \in Nat /\ drops \in [packets : Nat, bytes : Nat]
        /\ pc \in {"idle", "rationalize", "send", "threw", "aborted"}
    BY <2>4 DEF Init
  <2> QED
    BY <2>5, <2>6, <2>7 DEF TypeOK
<1>2. Within(packet_queue)
  BY LimitsAssumption DEF Init, Within, EmptyQueue, Queue, Good, GoodWith
<1>3. TransitFits /\ DelayPositive /\ PendingInTime /\ AssertionsHold
  BY DEF Init, TransitFits, NoPacket, NoCall, DelayPositive, PendingInTime, PendingBefore,
     EmptyQueue, AssertionsHold
<1> QED BY <1>1, <1>2, <1>3 DEF IInv

\* Steps that touch neither the position in the trace nor what is on the link.
LEMMA Elsewhere ==
  ASSUME IInv, TypeOK', AssertionsHold', pc # "send", pc' # "send",
         UNCHANGED <<trace, position, link, departures>>,
         call'.op = "read" => call'.pkt.size \in 1..PACKET_SIZE /\ call'.pkt.arrival = call'.now
  PROVE  IInv'
<1>1. Within(packet_queue')
  BY DEF IInv, link
<1>2. TransitFits'
  BY DEF IInv, TransitFits, link
<1>3. PendingInTime'
  BY DEF IInv, PendingInTime, PendingBefore, next_delivery_time, link, position, trace
<1>4. DelayPositive'
  BY DEF IInv, DelayPositive
<1> QED BY <1>1, <1>2, <1>3, <1>4 DEF IInv, Within

LEMMA TickStep == ASSUME IInv, Tick PROVE IInv'
<1>1. TypeOK' /\ AssertionsHold'
  BY DEF IInv, Tick, TypeOK, AssertionsHold, trace, position, link, history
<1>2. TransitFits
  BY DEF IInv
<1> QED
  BY <1>1, <1>2, Elsewhere DEF Tick, history, TransitFits

LEMMA ReadPacketStep == ASSUME IInv, NEW size \in Sizes, ReadPacket(size) PROVE IInv'
<1>1. TransitFits /\ TypeOK
  BY DEF IInv
<1>2. size \in Nat \ {0}
  BY LinkAssumption
<1>3. CASE size > PACKET_SIZE
  <2>1. TypeOK' /\ AssertionsHold'
    BY <1>1, <1>3 DEF ReadPacket, TypeOK, AssertionsHold, trace, position, link, history
  <2> QED
    BY <1>1, <1>3, <2>1, Elsewhere DEF ReadPacket, history, TransitFits
<1>4. CASE ~(size > PACKET_SIZE)
  <2>1. /\ pc = "idle" /\ pc' = "rationalize"
        /\ call' = [op |-> "read", now |-> now,
                    pkt |-> [id |-> Len(offered) + 1, size |-> size, arrival |-> now]]
    BY <1>4 DEF ReadPacket
  <2>2. size \in 1..PACKET_SIZE
    BY <1>2, <1>4, LinkAssumption
  <2>3. call' \in [op : {"none", "read", "wait"}, now : Nat, pkt : Packet]
    BY <1>1, <1>2, <2>1 DEF TypeOK, Packet
  <2>4. TypeOK' /\ AssertionsHold'
    BY <1>1, <2>1, <2>3 DEF ReadPacket, TypeOK, AssertionsHold, trace, position, link, history
  <2> QED
    BY <2>1, <2>2, <2>4, Elsewhere DEF ReadPacket, history
<1> QED BY <1>3, <1>4

LEMMA WaitTimeStep == ASSUME IInv, WaitTime PROVE IInv'
<1>1. TypeOK
  BY DEF IInv
<1>2. call' = [op |-> "wait", now |-> now, pkt |-> NoPacket]
  BY DEF WaitTime
<1>3. call' \in [op : {"none", "read", "wait"}, now : Nat, pkt : Packet]
  BY <1>1, <1>2 DEF TypeOK, NoPacket, Packet
<1>4. TypeOK' /\ AssertionsHold'
  BY <1>1, <1>3 DEF WaitTime, TypeOK, AssertionsHold, trace, position, link, history
<1> QED
  BY <1>2, <1>4, Elsewhere DEF WaitTime, history

LEMMA WritePacketsStep == ASSUME IInv, WritePackets PROVE IInv'
<1>1. TypeOK /\ TransitFits
  BY DEF IInv
<1>2. delivered' \in Nat /\ output_queue' \in Seq(Packet)
  BY <1>1 DEF WritePackets, TypeOK
<1>3. TypeOK' /\ AssertionsHold'
  BY <1>1, <1>2 DEF WritePackets, TypeOK, AssertionsHold, trace, position, link
<1> QED
  BY <1>1, <1>3, Elsewhere DEF WritePackets, TransitFits

LEMMA FinishWaitStep == ASSUME IInv, FinishWait PROVE IInv'
<1>1. TypeOK
  BY DEF IInv
<1>2. call' = NoCall /\ NoCall \in [op : {"none", "read", "wait"}, now : Nat, pkt : Packet]
  BY DEF FinishWait, NoCall, NoPacket, Packet
<1>3. TypeOK' /\ AssertionsHold'
  BY <1>1, <1>2 DEF FinishWait, TypeOK, AssertionsHold, trace, position, link, history
<1> QED
  BY <1>2, <1>3, Elsewhere DEF FinishWait, history, NoCall

-----------------------------------------------------------------------------
LEMMA UseADeliveryOpportunityStep == ASSUME IInv, UseADeliveryOpportunity PROVE IInv'
<1>1. TypeOK /\ TransitFits /\ PendingInTime /\ DelayPositive /\ Within(packet_queue)
  BY DEF IInv
<1>2. /\ pc = "rationalize" /\ ~finished /\ Advance /\ UNCHANGED <<trace, link>> /\ pc' = "send"
      /\ delivery' = [time |-> next_delivery_time, left |-> PACKET_SIZE]
      /\ slots' = Append(slots, next_delivery_time)
      /\ UNCHANGED <<now, output_queue, call, offered, departures, delivered, drops>>
  BY DEF UseADeliveryOpportunity, Due
<1>3. next_delivery_time \in Nat
  BY <1>1, NextTimeIsNat
<1>4. /\ next_delivery' \in 0..(Len(schedule') - 1)
      /\ base_timestamp' \in Nat /\ finished' \in BOOLEAN
      /\ ~finished' => next_delivery_time <= next_delivery_time'
  BY <1>1, <1>2, AdvanceMovesOn
<1>5. TypeOK' /\ AssertionsHold'
  <2>1. delivery' \in [time : Nat, left : 0..PACKET_SIZE]
    BY <1>2, <1>3, LinkAssumption
  <2>2. slots' \in Seq(Nat)
    BY <1>1, <1>2, <1>3 DEF TypeOK
  <2> QED
    BY <1>1, <1>2, <1>4, <2>1, <2>2 DEF TypeOK, AssertionsHold, trace, link
<1>6. PendingBefore(next_delivery_time)
  BY <1>1, <1>2 DEF PendingInTime
<1>7. /\ delivery'.time = next_delivery_time
      /\ packet_queue' = packet_queue /\ packet_in_transit' = packet_in_transit
      /\ bytes_left' = bytes_left
  BY <1>2 DEF link
<1>8. PendingBefore(delivery.time)'
  BY <1>6, <1>7 DEF PendingBefore
<1>9. PendingInTime'
  BY <1>2, <1>4, <1>7, <1>8 DEF PendingInTime
<1>10. TransitFits' /\ DelayPositive' /\ Within(packet_queue')
  BY <1>1, <1>2, <1>7 DEF TransitFits, DelayPositive
<1> QED BY <1>5, <1>9, <1>10 DEF IInv, Within

\* The assertions of the loop body hold, and it leaves the invariant true,
\* when the packet fits and arrived before the opportunity.
LEMMA SendBytesStep ==
  ASSUME IInv, pc = "send", delivery.left > 0,
         NEW p \in Packet, NEW left \in 1..PACKET_SIZE, left <= p.size,
         p.arrival < delivery.time,
         NEW q, Within(q),
         \A i \in 1..Len(q.pkts) : q.pkts[i].arrival < delivery.time,
         SendBytes(p, left, q)
  PROVE  IInv'
<1> DEFINE amount == AmountToSend(left)
<1>1. TypeOK /\ TransitFits /\ PendingInTime /\ DelayPositive
  BY DEF IInv
<1>2. /\ delivery.time \in Nat /\ delivery.left \in 1..PACKET_SIZE /\ PACKET_SIZE \in Nat
      /\ p.arrival \in Nat /\ p.size \in Nat /\ left \in Nat
  <2>1. delivery \in [time : Nat, left : 0..PACKET_SIZE]
    BY <1>1 DEF TypeOK
  <2> QED BY <2>1, LinkAssumption DEF Packet
<1>3. TransitAsserts(p, left)
  BY <1>2 DEF TransitAsserts
<1>4. amount \in 1..left /\ amount \in 1..delivery.left
  BY <1>2 DEF AmountToSend, Lesser
<1>5. /\ packet_in_transit' = p /\ packet_queue' = q /\ pc' = "send"
      /\ bytes_left' = left - amount
      /\ delivery' = [delivery EXCEPT !.left = @ - amount]
      /\ UNCHANGED <<now, trace, position, call, offered, slots, delivered, drops>>
  BY <1>3 DEF SendBytes
<1>6. bytes_left' \in 0..PACKET_SIZE /\ bytes_left' <= p.size
  BY <1>2, <1>4, <1>5
<1>7. delivery' = [time |-> delivery.time, left |-> delivery.left - amount]
      /\ delivery' \in [time : Nat, left : 0..PACKET_SIZE]
  <2>1. delivery.left - amount \in 0..PACKET_SIZE
    BY <1>2, <1>4
  <2> HIDE DEF amount
  <2>2. delivery \in [time : Nat, left : 0..PACKET_SIZE]
    BY <1>1 DEF TypeOK
  <2> QED BY <1>2, <1>5, <2>1, <2>2
<1>8. \/ UNCHANGED <<departures, output_queue>>
      \/ /\ departures' = Append(departures, [pkt |-> p, time |-> delivery.time])
         /\ output_queue' = Append(output_queue, p)
  BY <1>3 DEF SendBytes
<1>9. /\ departures \in Seq([pkt : Packet, time : Nat]) /\ output_queue \in Seq(Packet)
      /\ [pkt |-> p, time |-> delivery.time] \in [pkt : Packet, time : Nat]
  <2>1. departures \in Seq([pkt : Packet, time : Nat]) /\ output_queue \in Seq(Packet)
    BY <1>1 DEF TypeOK
  <2>2. [pkt |-> p, time |-> delivery.time] \in [pkt : Packet, time : Nat]
    BY <1>2
  <2> QED BY <2>1, <2>2
<1>10. departures' \in Seq([pkt : Packet, time : Nat]) /\ output_queue' \in Seq(Packet)
  <2> DEFINE e == [pkt |-> p, time |-> delivery.time]
  <2>1. Append(departures, e) \in Seq([pkt : Packet, time : Nat])
    BY <1>9, AppendIsSeq
  <2>2. Append(output_queue, p) \in Seq(Packet)
    BY <1>9, AppendIsSeq
  <2> QED BY <1>8, <1>9, <2>1, <2>2
<1>11. DelayPositive'
  <2>1. CASE departures' = departures
    BY <1>1, <2>1 DEF DelayPositive
  <2>2. CASE departures' = Append(departures, [pkt |-> p, time |-> delivery.time])
    <3>1. \A i \in 1..Len(departures') :
            departures'[i] = IF i <= Len(departures) THEN departures[i]
                                                     ELSE [pkt |-> p, time |-> delivery.time]
      BY <1>9, <2>2
    <3>2. Len(departures') = Len(departures) + 1 /\ Len(departures) \in Nat
      BY <1>9, <2>2
    <3> SUFFICES ASSUME NEW i \in 1..Len(departures')
                 PROVE  departures'[i].pkt.arrival < departures'[i].time
      BY DEF DelayPositive
    <3>3. CASE i <= Len(departures)
      BY <1>1, <3>1, <3>2, <3>3 DEF DelayPositive
    <3>4. CASE ~(i <= Len(departures))
      BY <3>1, <3>4
    <3> QED BY <3>3, <3>4
  <2> QED BY <1>8, <2>1, <2>2
<1>12. TypeOK' /\ AssertionsHold'
  <2>1. packet_queue' \in Queue
    BY <1>5 DEF Within
  <2> QED
    BY <1>1, <1>5, <1>6, <1>7, <1>10, <2>1 DEF TypeOK, AssertionsHold, trace, position
<1>13. TransitFits'
  BY <1>1, <1>5, <1>6 DEF TransitFits
<1>14. PendingInTime'
  <2>1. PendingBefore(delivery.time)'
    BY <1>5, <1>7 DEF PendingBefore
  <2>2. ~finished' => delivery'.time <= next_delivery_time'
    BY <1>1, <1>5, <1>7 DEF PendingInTime, next_delivery_time, position, trace
  <2> QED BY <1>5, <2>1, <2>2 DEF PendingInTime
<1>15. Within(packet_queue)'
  BY <1>5 DEF Within
<1> QED BY <1>11, <1>12, <1>13, <1>14, <1>15 DEF IInv

LEMMA SendInTransitStep == ASSUME IInv, SendInTransit PROVE IInv'
<1>1. /\ TypeOK /\ TransitFits /\ PendingInTime /\ Within(packet_queue)
      /\ pc = "send" /\ delivery.left > 0 /\ bytes_left # 0
      /\ SendBytes(packet_in_transit, bytes_left, packet_queue)
  BY DEF IInv, SendInTransit
<1>2. packet_in_transit \in Packet /\ bytes_left \in 1..PACKET_SIZE
  BY <1>1 DEF TypeOK
<1>3. bytes_left <= packet_in_transit.size
  BY <1>1 DEF TransitFits
<1>4. PendingBefore(delivery.time)
  BY <1>1 DEF PendingInTime
<1> QED BY <1>1, <1>2, <1>3, <1>4, SendBytesStep DEF PendingBefore

LEMMA SendNextStep == ASSUME IInv, SendNext PROVE IInv'
<1> DEFINE p == Head(packet_queue.pkts)
<1> DEFINE q == Pop(packet_queue)
<1>1. /\ TypeOK /\ PendingInTime /\ Within(packet_queue)
      /\ pc = "send" /\ delivery.left > 0 /\ ~Empty(packet_queue)
  BY DEF IInv, SendNext
<1>2. /\ Within(q)
      /\ p \in Packet /\ p.size \in 1..PACKET_SIZE /\ p = packet_queue.pkts[1]
      /\ \A i \in 1..Len(q.pkts) : i + 1 \in 1..Len(packet_queue.pkts)
                                /\ q.pkts[i] = packet_queue.pkts[i + 1]
  BY <1>1, PopWithin
<1>3. SendBytes(p, p.size, q)
  BY <1>1, <1>2 DEF SendNext, DequeueAsserts, Within
<1>4. 1 \in 1..Len(packet_queue.pkts)
  BY <1>1 DEF Within, Queue, Empty
<1>5. PendingBefore(delivery.time)
  BY <1>1 DEF PendingInTime
<1>6. p.arrival < delivery.time
  BY <1>2, <1>4, <1>5 DEF PendingBefore
<1>7. \A i \in 1..Len(q.pkts) : q.pkts[i].arrival < delivery.time
  BY <1>2, <1>5 DEF PendingBefore
<1>8. p.size <= p.size
  BY <1>2, LinkAssumption
<1> HIDE DEF p, q
<1> QED BY <1>1, <1>2, <1>3, <1>6, <1>7, <1>8, SendBytesStep

LEMMA OpportunityOverStep == ASSUME IInv, OpportunityOver PROVE IInv'
<1>1. /\ TypeOK /\ TransitFits /\ PendingInTime /\ DelayPositive /\ Within(packet_queue)
      /\ pc = "send" /\ pc' = "rationalize" /\ delivery' = NoDelivery
      /\ UNCHANGED <<now, trace, position, link, output_queue, call, history>>
  BY DEF IInv, OpportunityOver
<1>2. NoDelivery \in [time : Nat, left : 0..PACKET_SIZE]
  BY LinkAssumption DEF NoDelivery
<1>3. TypeOK' /\ AssertionsHold'
  BY <1>1, <1>2 DEF TypeOK, AssertionsHold, trace, position, link, history
<1>4. /\ packet_queue' = packet_queue /\ packet_in_transit' = packet_in_transit
      /\ bytes_left' = bytes_left /\ finished' = finished /\ call' = call
      /\ departures' = departures /\ next_delivery_time' = next_delivery_time
  BY <1>1 DEF next_delivery_time, trace, position, link, history
<1>5. PendingInTime'
  <2> SUFFICES ASSUME ~finished PROVE PendingBefore(next_delivery_time)'
    BY <1>1, <1>4 DEF PendingInTime
  <2>1. PendingBefore(delivery.time) /\ delivery.time <= next_delivery_time
    BY <1>1 DEF PendingInTime
  <2>2. /\ next_delivery_time \in Nat /\ delivery.time \in Nat /\ packet_in_transit.arrival \in Nat
        /\ \A i \in 1..Len(packet_queue.pkts) : packet_queue.pkts[i].arrival \in Nat
    <3>1. packet_queue.pkts \in Seq(Packet) /\ packet_in_transit \in Packet
      BY <1>1 DEF TypeOK, Queue
    <3>2. \A i \in 1..Len(packet_queue.pkts) : packet_queue.pkts[i] \in Packet
      BY <3>1
    <3> QED BY <1>1, <3>1, <3>2, NextTimeIsNat DEF TypeOK, Packet
  <2> QED BY <1>4, <2>1, <2>2 DEF PendingBefore
<1>6. TransitFits' /\ DelayPositive' /\ Within(packet_queue')
  BY <1>1, <1>4 DEF TransitFits, DelayPositive
<1> QED BY <1>3, <1>5, <1>6 DEF IInv, Within

\* The two assertions of read_packet itself.
LEMMA Grows ==
  ASSUME OneDropIsEnough, Within(packet_queue), NEW p \in Packet, p.size \in 1..PACKET_SIZE
  PROVE  GrowthAsserts(Enqueue(packet_queue, p), p)
<1> DEFINE q == Enqueue(packet_queue, p)
<1>1. /\ Within(q) /\ packet_queue.count + 1 - q.count \in Nat
      /\ packet_queue.bytes + p.size - q.bytes \in Nat
  BY EnqueueWithin
<1>2. packet_queue.count \in Int /\ packet_queue.bytes \in Int /\ q.count \in Int /\ q.bytes \in Int
  BY <1>1 DEF Within, Queue
<1> HIDE DEF q
<1>3. q.count <= packet_queue.count + 1
  <2> DEFINE a == packet_queue.count
             b == q.count
  <2>1. a \in Int /\ b \in Int /\ a + 1 - b \in Nat
    BY <1>1, <1>2
  <2> HIDE DEF a, b
  <2>2. b <= a + 1
    BY <2>1
  <2> QED BY <2>2 DEF a, b
<1>4. q.bytes <= packet_queue.bytes + p.size
  <2> DEFINE a == packet_queue.bytes
             b == q.bytes
             c == p.size
  <2>1. a \in Int /\ b \in Int /\ c \in Int /\ a + c - b \in Nat
    BY <1>1, <1>2
  <2> HIDE DEF a, b, c
  <2>2. b <= a + c
    BY <2>1
  <2> QED BY <2>2 DEF a, b, c
<1> QED BY <1>3, <1>4 DEF GrowthAsserts, q

LEMMA FinishReadStep == ASSUME OneDropIsEnough, IInv, FinishRead PROVE IInv'
<1> DEFINE p == call.pkt
<1> DEFINE q == Enqueue(packet_queue, p)
<1>1. TypeOK /\ TransitFits /\ PendingInTime /\ DelayPositive /\ Within(packet_queue)
  BY DEF IInv
<1>2. /\ pc = "rationalize" /\ call.op = "read" /\ ~Due(call.now)
      /\ offered' = Append(offered, p) /\ call' = NoCall
      /\ UNCHANGED <<now, trace, position, packet_in_transit, bytes_left, output_queue,
                     delivery, slots, departures, delivered>>
  BY DEF FinishRead, CaughtUp
<1>3. /\ p \in Packet /\ p.size \in 1..PACKET_SIZE /\ p.arrival = call.now /\ call.now \in Nat
  <2>1. call \in [op : {"none", "read", "wait"}, now : Nat, pkt : Packet]
    BY <1>1 DEF TypeOK
  <2> QED BY <1>1, <1>2, <2>1 DEF TransitFits
<1>4. /\ EnqueueAsserts(packet_queue, p)
      /\ Within(q)
      /\ \A i \in 1..Len(q.pkts) :
           q.pkts[i] = p \/ \E j \in 1..Len(packet_queue.pkts) : q.pkts[i] = packet_queue.pkts[j]
      /\ packet_queue.count + 1 - q.count \in Nat
      /\ packet_queue.bytes + p.size - q.bytes \in Nat
  BY <1>1, <1>3, EnqueueWithin
<1>5. /\ packet_queue' = q /\ pc' = "idle"
      /\ drops' = [packets |-> drops.packets + Missing(q, p).packets,
                   bytes |-> drops.bytes + Missing(q, p).bytes]
  <2>1. GrowthAsserts(q, p)
    BY <1>1, <1>3, Grows
  <2> QED BY <1>4, <2>1 DEF FinishRead
<1>6. drops' \in [packets : Nat, bytes : Nat]
  <2>1. Missing(q, p).packets \in Nat /\ Missing(q, p).bytes \in Nat
    BY <1>4 DEF Missing
  <2>2. drops.packets \in Nat /\ drops.bytes \in Nat
    BY <1>1 DEF TypeOK
  <2> HIDE DEF p, q
  <2> QED BY <1>5, <2>1, <2>2
<1>7. offered' \in Seq(Packet)
  BY <1>1, <1>2, <1>3 DEF TypeOK
<1>8. NoCall \in [op : {"none", "read", "wait"}, now : Nat, pkt : Packet]
  BY DEF NoCall, NoPacket, Packet
<1>9. TypeOK' /\ AssertionsHold'
  <2>1. packet_queue' \in Queue
    BY <1>4, <1>5 DEF Within
  <2> QED
    BY <1>1, <1>2, <1>5, <1>6, <1>7, <1>8, <2>1 DEF TypeOK, AssertionsHold, trace, position
<1>10. /\ finished' = finished /\ next_delivery_time' = next_delivery_time
       /\ bytes_left' = bytes_left /\ packet_in_transit' = packet_in_transit
       /\ departures' = departures
  BY <1>2 DEF next_delivery_time, trace, position
<1>11. PendingInTime'
  <2> SUFFICES ASSUME ~finished PROVE PendingBefore(next_delivery_time)'
    BY <1>5, <1>10 DEF PendingInTime
  <2>1. PendingBefore(next_delivery_time)
    BY <1>1, <1>2 DEF PendingInTime
  <2>2. next_delivery_time \in Nat
    BY <1>1, NextTimeIsNat
  <2>3. p.arrival < next_delivery_time
    BY <1>2, <1>3, <2>2 DEF Due
  <2>4. \A i \in 1..Len(q.pkts) : q.pkts[i].arrival < next_delivery_time
    BY <1>4, <2>1, <2>3 DEF PendingBefore
  <2> HIDE DEF p, q
  <2> QED BY <1>5, <1>10, <2>1, <2>4 DEF PendingBefore
<1>12. TransitFits'
  BY <1>1, <1>2, <1>10 DEF TransitFits, NoCall
<1>13. DelayPositive'
  BY <1>1, <1>10 DEF DelayPositive
<1>14. Within(packet_queue)'
  BY <1>4, <1>5 DEF Within
<1> QED BY <1>9, <1>11, <1>12, <1>13, <1>14 DEF IInv

-----------------------------------------------------------------------------
LEMMA Inductive == ASSUME OneDropIsEnough, IInv, [Next]_vars PROVE IInv'
<1>1. CASE Tick
  BY <1>1, TickStep
<1>2. CASE \E size \in Sizes : ReadPacket(size)
  BY <1>2, ReadPacketStep
<1>3. CASE WaitTime
  BY <1>3, WaitTimeStep
<1>4. CASE WritePackets
  BY <1>4, WritePacketsStep
<1>5. CASE UseADeliveryOpportunity
  BY <1>5, UseADeliveryOpportunityStep
<1>6. CASE SendInTransit
  BY <1>6, SendInTransitStep
<1>7. CASE SendNext
  BY <1>7, SendNextStep
<1>8. CASE OpportunityOver
  BY <1>8, OpportunityOverStep
<1>9. CASE FinishRead
  BY <1>9, FinishReadStep
<1>10. CASE FinishWait
  BY <1>10, FinishWaitStep
<1>11. CASE UNCHANGED vars
  BY <1>11 DEF vars, trace, position, link, history, IInv, TypeOK, AssertionsHold, Within,
     TransitFits, PendingInTime, PendingBefore, next_delivery_time, DelayPositive
<1> QED
  BY <1>1, <1>2, <1>3, <1>4, <1>5, <1>6, <1>7, <1>8, <1>9, <1>10, <1>11 DEF Next, Rationalize

\* In every configuration where one drop makes room for an arrival, no
\* assertion of LinkQueue or of its queue fails, for every trace and clock.
THEOREM NoAssertionFails == ASSUME OneDropIsEnough PROVE Spec => []AssertionsHold
<1>1. Init => IInv
  BY Initially
<1>2. IInv /\ [Next]_vars => IInv'
  BY Inductive
<1>3. IInv => AssertionsHold
  BY DEF IInv
<1> QED BY <1>1, <1>2, <1>3, PTL DEF Spec

\* Every variable has its type (link_queue.hh), for every trace and clock.
THEOREM TypeCorrect == ASSUME OneDropIsEnough PROVE Spec => []TypeOK
<1>1. Init => IInv
  BY Initially
<1>2. IInv /\ [Next]_vars => IInv'
  BY Inductive
<1>3. IInv => TypeOK
  BY DEF IInv
<1> QED BY <1>1, <1>2, <1>3, PTL DEF Spec

\* Every departure recorded by record_departure lies strictly after the
\* arrival of its packet, so the logged delay never underflows.
THEOREM DelaysArePositive == ASSUME OneDropIsEnough PROVE Spec => []DelayPositive
<1>1. Init => IInv
  BY Initially
<1>2. IInv /\ [Next]_vars => IInv'
  BY Inductive
<1>3. IInv => DelayPositive
  BY DEF IInv
<1> QED BY <1>1, <1>2, <1>3, PTL DEF Spec

-----------------------------------------------------------------------------
(***************************************************************************)
(* The link implements LinkService.                                        *)
(***************************************************************************)
\* The packet that a read is about to enqueue has the next number.
NextNumber == call.op = "read" => call.pkt.id = Len(offered) + 1

LEMMA NextNumberKept == ASSUME IInv, NextNumber, [Next]_vars PROVE NextNumber'
<1>1. CASE UNCHANGED <<call, offered>>
  BY <1>1 DEF NextNumber
<1>2. CASE call'.op # "read"
  BY <1>2 DEF NextNumber
<1>3. ASSUME NEW size \in Sizes, ReadPacket(size) PROVE NextNumber'
  <2>1. CASE size > PACKET_SIZE
    BY <1>1, <1>3, <2>1 DEF ReadPacket, history
  <2>2. CASE ~(size > PACKET_SIZE)
    BY <1>3, <2>2 DEF ReadPacket, history, NextNumber
  <2> QED BY <2>1, <2>2
<1>4. CASE UseADeliveryOpportunity
  BY <1>1, <1>4 DEF UseADeliveryOpportunity
<1>5. CASE SendInTransit
  BY <1>1, <1>5 DEF SendInTransit, SendBytes
<1>6. CASE SendNext
  BY <1>1, <1>6 DEF SendNext, SendBytes, history
<1>7. CASE OpportunityOver
  BY <1>1, <1>7 DEF OpportunityOver, history
<1>8. CASE Tick \/ WritePackets \/ UNCHANGED vars
  BY <1>1, <1>8 DEF Tick, WritePackets, vars, history
<1>9. CASE WaitTime \/ FinishRead \/ FinishWait
  BY <1>2, <1>9 DEF WaitTime, FinishRead, FinishWait, NoCall
<1> QED
  BY <1>3, <1>4, <1>5, <1>6, <1>7, <1>8, <1>9 DEF Next, Rationalize

-----------------------------------------------------------------------------
LEMMA IdsOf ==
  ASSUME NEW s \in Seq(Packet)
  PROVE  /\ Ids(s) \in Seq(Nat) /\ Len(Ids(s)) = Len(s)
         /\ \A i \in 1..Len(s) : Ids(s)[i] = s[i].id
<1>1. Len(s) \in Nat /\ \A i \in 1..Len(s) : s[i].id \in Nat
  <2>1. \A i \in 1..Len(s) : s[i] \in Packet
    OBVIOUS
  <2> QED BY <2>1 DEF Packet
<1> QED BY <1>1 DEF Ids

LEMMA TailOf ==
  ASSUME NEW S, NEW s \in Seq(S), s # <<>>
  PROVE  /\ Tail(s) \in Seq(S) /\ Len(Tail(s)) = Len(s) - 1 /\ Len(s) \in Nat \ {0}
         /\ Head(s) = s[1] /\ s[1] \in S
         /\ \A i \in 1..(Len(s) - 1) : Tail(s)[i] = s[i + 1]
OBVIOUS

LEMMA AppendOf ==
  ASSUME NEW S, NEW s \in Seq(S), NEW e \in S
  PROVE  /\ Append(s, e) \in Seq(S) /\ Len(Append(s, e)) = Len(s) + 1 /\ Len(s) \in Nat
         /\ \A i \in 1..(Len(s) + 1) : Append(s, e)[i] = IF i <= Len(s) THEN s[i] ELSE e
OBVIOUS

LEMMA RestOf ==
  ASSUME NEW S, NEW s \in Seq(S), NEW k \in 1..Len(s)
  PROVE  /\ SubSeq(s, k + 1, Len(s)) \in Seq(S) /\ Len(SubSeq(s, k + 1, Len(s))) = Len(s) - k
         /\ \A i \in 1..(Len(s) - k) : SubSeq(s, k + 1, Len(s))[i] = s[i + k]
<1> DEFINE n == Len(s)
<1> DEFINE t == SubSeq(s, k + 1, n)
<1>1. n \in Nat /\ k \in 1..n
  OBVIOUS
<1>2. t \in Seq(S) /\ Len(t) = n - k
  BY <1>1
<1>3. \A i \in 1..(n - k) : t[i] = s[i + k]
  <2> TAKE i \in 1..(n - k)
  <2>1. t[i] = s[(k + 1) + i - 1]
    BY <1>1
  <2>2. (k + 1) + i - 1 = i + k
    BY <1>1
  <2> QED BY <2>1, <2>2
<1> QED BY <1>2, <1>3

LEMMA SameSequence ==
  ASSUME NEW S, NEW s \in Seq(S), NEW t \in Seq(S), Len(s) = Len(t),
         \A i \in 1..Len(s) : s[i] = t[i]
  PROVE  s = t
OBVIOUS

\* The line when p is in transit and r waits behind it.
LEMMA LineWith ==
  ASSUME NEW p \in Packet, NEW r \in Seq(Packet)
  PROVE  LET s == <<p>> \o r
         IN  /\ s \in Seq(Packet) /\ Len(s) = Len(r) + 1
             /\ s[1] = p /\ \A i \in 1..Len(r) : s[i + 1] = r[i]
OBVIOUS

\* The oldest packet is delivered.
LEMMA DeliverIds ==
  ASSUME NEW s \in Seq(Packet), NEW p \in Packet, NEW r \in Seq(Packet), s = <<p>> \o r
  PROVE  Ids(s) # <<>> /\ Head(Ids(s)) = p.id /\ Tail(Ids(s)) = Ids(r)
<1>1. Len(s) = Len(r) + 1 /\ s[1] = p /\ Len(r) \in Nat
      /\ \A i \in 1..Len(r) : s[i + 1] = r[i]
  BY LineWith
<1>2. /\ Ids(s) \in Seq(Nat) /\ Len(Ids(s)) = Len(s)
      /\ \A i \in 1..Len(s) : Ids(s)[i] = s[i].id
  BY IdsOf
<1>3. /\ Ids(r) \in Seq(Nat) /\ Len(Ids(r)) = Len(r)
      /\ \A i \in 1..Len(r) : Ids(r)[i] = r[i].id
  BY IdsOf
<1>4. Ids(s) # <<>> /\ Head(Ids(s)) = p.id
  BY <1>1, <1>2, SMTT(30)
<1>5. /\ Tail(Ids(s)) \in Seq(Nat) /\ Len(Tail(Ids(s))) = Len(r)
      /\ \A i \in 1..Len(r) : Tail(Ids(s))[i] = Ids(s)[i + 1]
  <2>1. Len(Ids(s)) - 1 = Len(r)
    BY <1>1, <1>2
  <2> QED BY <1>2, <1>4, <2>1, TailOf, SMTT(30)
<1>6. \A i \in 1..Len(r) : Tail(Ids(s))[i] = Ids(r)[i]
  <2> TAKE i \in 1..Len(r)
  <2>1. i + 1 \in 1..Len(s)
    BY <1>1
  <2>2. Tail(Ids(s))[i] = Ids(s)[i + 1] /\ Ids(r)[i] = r[i].id
    BY <1>3, <1>5
  <2>3. Ids(s)[i + 1] = s[i + 1].id /\ s[i + 1] = r[i]
    BY <1>1, <1>2, <2>1
  <2> QED BY <2>2, <2>3
<1>7. Tail(Ids(s)) = Ids(r)
  BY <1>3, <1>5, <1>6, SameSequence
<1> QED BY <1>4, <1>7

LEMMA AppendIds ==
  ASSUME NEW s \in Seq(Packet), NEW p \in Packet
  PROVE  Ids(Append(s, p)) = Append(Ids(s), p.id)
<1> DEFINE t == Append(s, p)
<1>1. /\ t \in Seq(Packet) /\ Len(t) = Len(s) + 1 /\ Len(s) \in Nat
      /\ \A i \in 1..Len(t) : t[i] = IF i <= Len(s) THEN s[i] ELSE p
  OBVIOUS
<1> HIDE DEF t
<1>2. /\ Ids(s) \in Seq(Nat) /\ Len(Ids(s)) = Len(s)
      /\ \A i \in 1..Len(s) : Ids(s)[i] = s[i].id
  BY IdsOf
<1>3. /\ Ids(t) \in Seq(Nat) /\ Len(Ids(t)) = Len(t)
      /\ \A i \in 1..Len(t) : Ids(t)[i] = t[i].id
  BY <1>1, IdsOf
<1>4. p.id \in Nat
  BY DEF Packet
<1> DEFINE u == Append(Ids(s), p.id)
<1>5. /\ u \in Seq(Nat) /\ Len(u) = Len(s) + 1
      /\ \A i \in 1..Len(u) : u[i] = IF i <= Len(s) THEN Ids(s)[i] ELSE p.id
  BY <1>2, <1>4, AppendOf
<1> HIDE DEF u
<1>6. \A i \in 1..Len(t) : Ids(t)[i] = u[i]
  <2> TAKE i \in 1..Len(t)
  <2>0. i \in 1..Len(u) /\ Ids(t)[i] = t[i].id
    BY <1>1, <1>3, <1>5
  <2>1. CASE i <= Len(s)
    <3>1. i \in 1..Len(s) /\ t[i] = s[i] /\ u[i] = Ids(s)[i]
      BY <1>1, <1>5, <2>0, <2>1
    <3> QED BY <1>2, <2>0, <3>1
  <2>2. CASE ~(i <= Len(s))
    <3>1. t[i] = p /\ u[i] = p.id
      BY <1>1, <1>5, <2>0, <2>2
    <3> QED BY <2>0, <3>1
  <2> QED BY <2>1, <2>2
<1>7. Ids(t) = u
  BY <1>1, <1>3, <1>5, <1>6, SameSequence
<1> QED BY <1>7 DEF t, u

\* Removing one packet from the line, seen in its identities.
LEMMA WithoutOne ==
  ASSUME NEW l \in Seq(Nat), NEW k \in 1..Len(l), NEW m \in Seq(Nat),
         Len(m) = Len(l) - 1,
         \A i \in 1..Len(m) : m[i] = IF i < k THEN l[i] ELSE l[i + 1]
  PROVE  m = Service!Without(l, k)
<1> DEFINE a == SubSeq(l, 1, k - 1)
<1> DEFINE b == SubSeq(l, k + 1, Len(l))
<1>0. Len(l) \in Nat /\ k \in Nat
  OBVIOUS
<1>1. a \in Seq(Nat) /\ Len(a) = k - 1 /\ \A i \in 1..(k - 1) : a[i] = l[i]
  BY <1>0, SMTT(30)
<1>2. b \in Seq(Nat) /\ Len(b) = Len(l) - k /\ \A i \in 1..(Len(l) - k) : b[i] = l[i + k]
  BY <1>0, RestOf
<1> HIDE DEF a, b
<1> DEFINE c == a \o b
<1>3. /\ c \in Seq(Nat) /\ Len(c) = Len(a) + Len(b)
      /\ \A i \in 1..Len(a) : c[i] = a[i]
      /\ \A i \in 1..Len(b) : c[Len(a) + i] = b[i]
  <2>1. a \in Seq(Nat) /\ b \in Seq(Nat)
    BY <1>1, <1>2
  <2> QED BY <2>1, SMTT(30)
<1> HIDE DEF c
<1>4. Len(c) = Len(m)
  BY <1>0, <1>1, <1>2, <1>3
<1>5. \A i \in 1..Len(m) : m[i] = c[i]
  <2> TAKE i \in 1..Len(m)
  <2>1. CASE i < k
    <3>1. i \in 1..(k - 1)
      BY <1>0, <2>1
    <3> QED BY <1>1, <1>3, <2>1, <3>1
  <2>2. CASE ~(i < k)
    <3> DEFINE j == i - (k - 1)
    <3>1. j \in 1..(Len(l) - k) /\ (k - 1) + j = i /\ j + k = i + 1
      BY <1>0, <2>2
    <3>2. c[(k - 1) + j] = b[j] /\ b[j] = l[j + k]
      BY <1>1, <1>2, <1>3, <3>1
    <3> HIDE DEF j
    <3> QED BY <2>2, <3>1, <3>2
  <2> QED BY <2>1, <2>2
<1>6. m = c
  BY <1>3, <1>4, <1>5, SameSequence
<1> QED BY <1>6 DEF Service!Without, c, a, b

-----------------------------------------------------------------------------
LEMMA WaitingIsSeq ==
  ASSUME IInv
  PROVE  /\ packet_queue.pkts \in Seq(Packet) /\ packet_in_transit \in Packet
         /\ bytes_left \in Nat /\ Waiting \in Seq(Packet)
<1>1. packet_queue.pkts \in Seq(Packet) /\ packet_in_transit \in Packet /\ bytes_left \in Nat
  BY LinkAssumption DEF IInv, TypeOK, Queue
<1> QED BY <1>1, LineWith DEF Waiting

\* A step of the link that leaves these alone is not a step of the service.
LEMMA ServiceStutters ==
  ASSUME UNCHANGED <<link, output_queue, offered>>
  PROVE  UNCHANGED Service!serviceVars
BY DEF link, Service!serviceVars, Waiting, Ids

\* Moving bytes of the oldest packet commits it, and delivers it with the last of them.
LEMMA SendBytesServes ==
  ASSUME IInv, IInv', pc = "send", delivery.left > 0,
         NEW p \in Packet, NEW left \in 1..PACKET_SIZE, left <= p.size,
         p.arrival < delivery.time,
         NEW q, q.pkts \in Seq(Packet), Waiting = <<p>> \o q.pkts,
         SendBytes(p, left, q)
  PROVE  [Service!Next]_Service!serviceVars
<1>1. TypeOK
  BY DEF IInv
<1>2. /\ delivery.left \in 1..PACKET_SIZE /\ PACKET_SIZE \in Nat /\ delivery.time \in Nat
      /\ p.arrival \in Nat
  <2>1. delivery \in [time : Nat, left : 0..PACKET_SIZE]
    BY <1>1 DEF TypeOK
  <2> QED BY <2>1, LinkAssumption DEF Packet
<1>3. TransitAsserts(p, left)
  BY <1>2 DEF TransitAsserts
<1>4. /\ packet_in_transit' = p /\ packet_queue' = q
      /\ IF bytes_left' # 0
           THEN UNCHANGED output_queue
           ELSE output_queue' = Append(output_queue, p)
      /\ offered' = offered
  BY <1>3 DEF SendBytes
<1>5. /\ Ids(Waiting) # <<>> /\ Head(Ids(Waiting)) = p.id
      /\ Tail(Ids(Waiting)) = Ids(q.pkts)
  <2>1. Waiting \in Seq(Packet)
    BY WaitingIsSeq
  <2> QED BY <2>1, DeliverIds
<1>6. CASE bytes_left' # 0
  <2>1. Waiting' = Waiting /\ output_queue' = output_queue
    BY <1>4, <1>6 DEF Waiting
  <2>2. Ids(Waiting)' = Ids(Waiting) /\ Ids(output_queue)' = Ids(output_queue)
    BY <2>1 DEF Ids
  <2>3. Service!Commit
    BY <1>4, <1>5, <1>6, <2>2 DEF Service!Commit
  <2> QED BY <2>3 DEF Service!Next
<1>7. CASE bytes_left' = 0
  <2>1. Waiting' = q.pkts /\ output_queue' = Append(output_queue, p)
    BY <1>4, <1>7 DEF Waiting
  <2>2. output_queue \in Seq(Packet)
    BY <1>1 DEF TypeOK
  <2>3. Ids(Waiting)' = Ids(q.pkts)
    BY <2>1 DEF Ids
  <2>4. Ids(output_queue)' = Ids(Append(output_queue, p))
    BY <2>1 DEF Ids
  <2>5. Ids(output_queue)' = Append(Ids(output_queue), p.id)
    BY <2>2, <2>4, AppendIds
  <2>6. Service!Deliver
    BY <1>4, <1>5, <1>7, <2>3, <2>5 DEF Service!Deliver
  <2> QED BY <2>6 DEF Service!Next
<1> QED BY <1>6, <1>7

LEMMA SendInTransitServes ==
  ASSUME IInv, IInv', SendInTransit
  PROVE  [Service!Next]_Service!serviceVars
<1>1. /\ TypeOK /\ TransitFits /\ PendingInTime
      /\ pc = "send" /\ delivery.left > 0 /\ bytes_left # 0
      /\ SendBytes(packet_in_transit, bytes_left, packet_queue)
  BY DEF IInv, SendInTransit
<1>2. packet_in_transit \in Packet /\ bytes_left \in 1..PACKET_SIZE
  BY <1>1 DEF TypeOK
<1>3. bytes_left <= packet_in_transit.size /\ packet_in_transit.arrival < delivery.time
  BY <1>1 DEF TransitFits, PendingInTime, PendingBefore
<1>4. Waiting = <<packet_in_transit>> \o packet_queue.pkts
  BY <1>1 DEF Waiting
<1>5. packet_queue.pkts \in Seq(Packet)
  BY WaitingIsSeq
<1> QED BY <1>1, <1>2, <1>3, <1>4, <1>5, SendBytesServes

LEMMA SendNextServes ==
  ASSUME IInv, IInv', SendNext
  PROVE  [Service!Next]_Service!serviceVars
<1> DEFINE p == Head(packet_queue.pkts)
<1> DEFINE q == Pop(packet_queue)
<1>1. /\ TypeOK /\ PendingInTime /\ Within(packet_queue)
      /\ pc = "send" /\ delivery.left > 0 /\ bytes_left = 0 /\ ~Empty(packet_queue)
  BY DEF IInv, SendNext
<1>2. /\ Within(q) /\ p \in Packet /\ p.size \in 1..PACKET_SIZE /\ p = packet_queue.pkts[1]
  BY <1>1, PopWithin
<1>3. SendBytes(p, p.size, q)
  BY <1>1, <1>2 DEF SendNext, DequeueAsserts, Within
<1>4. packet_queue.pkts \in Seq(Packet) /\ packet_queue.pkts # <<>> /\ Waiting = packet_queue.pkts
  BY <1>1, WaitingIsSeq DEF Empty, Waiting
<1>5. p.arrival < delivery.time
  <2>1. 1 \in 1..Len(packet_queue.pkts)
    BY <1>4
  <2> QED BY <1>1, <1>2, <2>1 DEF PendingInTime, PendingBefore
<1>6. q.pkts = Tail(packet_queue.pkts)
  BY DEF Pop
<1>7. q.pkts \in Seq(Packet) /\ packet_queue.pkts = <<p>> \o q.pkts
  <2> DEFINE s == packet_queue.pkts
  <2>1. s \in Seq(Packet) /\ s # <<>>
    BY <1>4
  <2> HIDE DEF s
  <2>2. Tail(s) \in Seq(Packet) /\ s = <<Head(s)>> \o Tail(s)
    BY <2>1
  <2> QED BY <1>6, <2>2 DEF s
<1>8. p.size <= p.size
  BY <1>2, LinkAssumption
<1> HIDE DEF p, q
<1>9. Waiting = <<p>> \o q.pkts
  BY <1>4, <1>7
<1> QED BY <1>1, <1>2, <1>3, <1>5, <1>7, <1>8, <1>9, SendBytesServes

LEMMA WritePacketsServes ==
  ASSUME IInv, WritePackets
  PROVE  [Service!Next]_Service!serviceVars
<1>1. output_queue \in Seq(Packet) /\ output_queue # <<>> /\ output_queue' = <<>>
  BY DEF IInv, TypeOK, WritePackets
<1>2. Ids(output_queue) # <<>>
  <2>1. Len(Ids(output_queue)) = Len(output_queue) /\ Len(output_queue) # 0
    BY <1>1, IdsOf
  <2> QED BY <2>1
<1>3. Ids(output_queue)' = <<>>
  BY <1>1 DEF Ids
<1>4. UNCHANGED <<link, offered>>
  BY DEF WritePackets
<1>5. Waiting' = Waiting /\ bytes_left' = bytes_left /\ offered' = offered
  BY <1>4 DEF Waiting, link
<1>6. Ids(Waiting)' = Ids(Waiting)
  BY <1>5 DEF Ids
<1>7. Service!PickUp
  BY <1>2, <1>3, <1>5, <1>6 DEF Service!PickUp
<1> QED BY <1>7 DEF Service!Next

\* What the line looks like when a packet p joins it and, with k > 0, the one
\* at place k leaves.
LEMMA OfferServes ==
  ASSUME NEW p \in Packet, p.id = Len(offered) + 1,
         offered \in Seq(Packet), offered' = Append(offered, p),
         UNCHANGED <<bytes_left, output_queue>>,
         Waiting \in Seq(Packet),
         NEW l, l = Append(Ids(Waiting), p.id),
         \/ Ids(Waiting)' = l
         \/ /\ Discipline # "infinite"
            /\ \E k \in 1..Len(l) : /\ bytes_left # 0 => k # 1
                                    /\ Ids(Waiting)' = Service!Without(l, k)
  PROVE  [Service!Next]_Service!serviceVars
<1>1. Len(offered)' = Len(offered) + 1
  BY AppendOf
<1>2. Ids(output_queue)' = Ids(output_queue)
  BY DEF Ids
<1>3. Service!Offer
  BY <1>1, <1>2 DEF Service!Offer
<1> QED BY <1>3 DEF Service!Next

LEMMA WithoutIds ==
  ASSUME NEW v \in Seq(Packet), NEW k \in 1..Len(v), NEW w \in Seq(Packet),
         Len(w) = Len(v) - 1,
         \A i \in 1..Len(w) : w[i] = IF i < k THEN v[i] ELSE v[i + 1]
  PROVE  Ids(w) = Service!Without(Ids(v), k)
<1>0. Len(v) \in Nat /\ k \in Nat
  OBVIOUS
<1>1. /\ Ids(v) \in Seq(Nat) /\ Len(Ids(v)) = Len(v)
      /\ \A i \in 1..Len(v) : Ids(v)[i] = v[i].id
  BY IdsOf
<1>2. /\ Ids(w) \in Seq(Nat) /\ Len(Ids(w)) = Len(w)
      /\ \A i \in 1..Len(w) : Ids(w)[i] = w[i].id
  BY IdsOf
<1> DEFINE l == Ids(v)
<1> DEFINE m == Ids(w)
<1>3. \A i \in 1..Len(m) : m[i] = IF i < k THEN l[i] ELSE l[i + 1]
  <2> TAKE i \in 1..Len(m)
  <2>1. i \in 1..Len(w) /\ i \in 1..Len(v) /\ i + 1 \in 1..Len(v)
    BY <1>0, <1>2
  <2>2. m[i] = w[i].id /\ l[i] = v[i].id /\ l[i + 1] = v[i + 1].id
    BY <1>1, <1>2, <2>1
  <2> HIDE DEF l, m
  <2> QED BY <2>1, <2>2
<1>4. l \in Seq(Nat) /\ m \in Seq(Nat) /\ Len(m) = Len(l) - 1 /\ k \in 1..Len(l)
  BY <1>1, <1>2
<1> HIDE DEF l, m
<1>5. m = Service!Without(l, k)
  BY <1>3, <1>4, WithoutOne
<1> QED BY <1>5 DEF l, m

\* The newcomer is accepted, refused, or accepted in exchange for the oldest
\* packet that is not in transit.
LEMMA FinishReadServes ==
  ASSUME OneDropIsEnough, IInv, NextNumber, FinishRead
  PROVE  [Service!Next]_Service!serviceVars
<1> DEFINE p == call.pkt
<1> DEFINE Q == packet_queue.pkts
<1> DEFINE full == Accept(packet_queue, p)
<1> DEFINE A == Append(Q, p)
<1> DEFINE V == Append(Waiting, p)
<1>1. TypeOK /\ TransitFits /\ Within(packet_queue)
  BY DEF IInv
<1>2. /\ call.op = "read" /\ offered' = Append(offered, p)
      /\ bytes_left' = bytes_left /\ packet_in_transit' = packet_in_transit
      /\ UNCHANGED <<bytes_left, output_queue>>
  BY DEF FinishRead
<1>3. p \in Packet /\ p.size \in 1..PACKET_SIZE /\ p.id = Len(offered) + 1
  <2>1. call \in [op : {"none", "read", "wait"}, now : Nat, pkt : Packet]
    BY <1>1 DEF TypeOK
  <2> QED BY <1>1, <1>2, <2>1 DEF TransitFits, NextNumber
<1>4. packet_queue' = Enqueue(packet_queue, p)
  <2>1. EnqueueAsserts(packet_queue, p) /\ GrowthAsserts(Enqueue(packet_queue, p), p)
    BY <1>1, <1>3, EnqueueWithin, Grows
  <2> QED BY <2>1 DEF FinishRead
<1>5. /\ Q \in Seq(Packet) /\ packet_in_transit \in Packet /\ Waiting \in Seq(Packet)
      /\ offered \in Seq(Packet)
  BY <1>1, WaitingIsSeq DEF TypeOK
<1>6. /\ Waiting = IF bytes_left = 0 THEN Q ELSE <<packet_in_transit>> \o Q
      /\ Waiting' = IF bytes_left = 0 THEN packet_queue'.pkts
                                      ELSE <<packet_in_transit>> \o packet_queue'.pkts
  BY <1>2 DEF Waiting
<1>7. full.pkts = A /\ Good(full) = GoodWith(packet_queue.bytes + p.size, packet_queue.count + 1)
  BY DEF Accept, Good
<1>8. \/ packet_queue' = full
      \/ packet_queue' = packet_queue /\ ~Good(full) /\ Discipline # "drophead"
      \/ packet_queue'.pkts = Tail(A) /\ Discipline = "drophead"
  BY <1>4, <1>7 DEF Enqueue, EnqueueHead, EnqueueTail, Pop
<1>9. Ids(V) = Append(Ids(Waiting), p.id)
  BY <1>3, <1>5, AppendIds
<1>10. /\ A \in Seq(Packet) /\ Len(A) = Len(Q) + 1 /\ Len(Q) \in Nat
       /\ \A i \in 1..(Len(Q) + 1) : A[i] = IF i <= Len(Q) THEN Q[i] ELSE p
  BY <1>3, <1>5, AppendOf
<1>11. /\ V \in Seq(Packet) /\ Len(V) = Len(Waiting) + 1 /\ Len(Waiting) \in Nat
       /\ \A i \in 1..(Len(Waiting) + 1) : V[i] = IF i <= Len(Waiting) THEN Waiting[i] ELSE p
  BY <1>3, <1>5, AppendOf
<1>12. bytes_left # 0 => /\ Len(Waiting) = Len(Q) + 1 /\ Waiting[1] = packet_in_transit
                         /\ \A i \in 1..Len(Q) : Waiting[i + 1] = Q[i]
  BY <1>5, <1>6, LineWith
<1>13. Len(Append(Ids(Waiting), p.id)) = Len(V)
  BY <1>9, <1>11, IdsOf
<1>14. ASSUME NEW k \in 1..Len(V), bytes_left # 0 => k # 1, Discipline # "infinite",
              Waiting' \in Seq(Packet), Len(Waiting') = Len(Waiting),
              \A i \in 1..Len(Waiting') : Waiting'[i] = IF i < k THEN V[i] ELSE V[i + 1]
       PROVE  [Service!Next]_Service!serviceVars
  <2>1. Ids(Waiting)' = Ids(Waiting')
    BY DEF Ids
  <2> DEFINE w == Waiting'
  <2>2. w \in Seq(Packet) /\ Len(w) = Len(V) - 1
        /\ \A i \in 1..Len(w) : w[i] = IF i < k THEN V[i] ELSE V[i + 1]
    BY <1>11, <1>14
  <2> HIDE DEF w, V
  <2>3. Ids(w) = Service!Without(Ids(V), k)
    BY <1>11, <1>14, <2>2, WithoutIds
  <2>4. Ids(Waiting)' = Service!Without(Append(Ids(Waiting), p.id), k)
    BY <1>9, <2>1, <2>3 DEF w
  <2> HIDE DEF p
  <2> QED BY <1>2, <1>3, <1>5, <1>13, <1>14, <2>4, OfferServes
<1>15. CASE packet_queue' = full
  <2>1. Waiting' = IF bytes_left = 0 THEN A ELSE <<packet_in_transit>> \o A
    BY <1>6, <1>7, <1>15
  <2>2. Waiting' = V
    <3>1. CASE bytes_left = 0
      BY <1>6, <2>1, <3>1
    <3>2. CASE bytes_left # 0
      <4> DEFINE u == <<packet_in_transit>> \o A
      <4>1. u \in Seq(Packet) /\ Len(u) = Len(A) + 1 /\ u[1] = packet_in_transit
            /\ \A i \in 1..Len(A) : u[i + 1] = A[i]
        BY <1>5, <1>10, LineWith
      <4> HIDE DEF u, A, V
      <4>2. Len(u) = Len(V)
        BY <1>10, <1>11, <1>12, <3>2, <4>1
      <4>3. \A i \in 1..Len(u) : u[i] = V[i]
        <5> TAKE i \in 1..Len(u)
        <5>1. i \in 1..(Len(Q) + 2)
          BY <1>10, <4>1
        <5>2. CASE i = 1
          BY <1>10, <1>11, <1>12, <3>2, <4>1, <5>2
        <5>3. CASE i # 1
          <6> DEFINE j == i - 1
          <6>1. j \in 1..(Len(Q) + 1) /\ i = j + 1
            BY <1>10, <5>1, <5>3
          <6>2. u[j + 1] = A[j]
            BY <1>10, <4>1, <6>1
          <6> HIDE DEF j
          <6>3. CASE j <= Len(Q)
            <7>1. A[j] = Q[j] /\ Waiting[j + 1] = Q[j] /\ V[j + 1] = Waiting[j + 1]
              BY <1>10, <1>11, <1>12, <3>2, <6>1, <6>3
            <7> QED BY <6>1, <6>2, <7>1
          <6>4. CASE ~(j <= Len(Q))
            <7>1. A[j] = p /\ V[j + 1] = p
              BY <1>10, <1>11, <1>12, <3>2, <6>1, <6>4
            <7> QED BY <6>1, <6>2, <7>1
          <6> QED BY <6>3, <6>4
        <5> QED BY <5>2, <5>3
      <4>4. u = V
        BY <1>11, <4>1, <4>2, <4>3, SameSequence
      <4> QED BY <2>1, <3>2, <4>4 DEF u
    <3> QED BY <3>1, <3>2
  <2>3. Ids(Waiting)' = Append(Ids(Waiting), p.id)
    BY <1>9, <2>2 DEF Ids
  <2> HIDE DEF p
  <2> QED BY <1>2, <1>3, <1>5, <2>3, OfferServes
<1>16. CASE packet_queue' = packet_queue /\ ~Good(full) /\ Discipline # "drophead"
  <2>1. Discipline # "infinite"
    BY <1>16, LimitsAssumption DEF Good, GoodWith
  <2>2. Waiting' = Waiting
    BY <1>6, <1>16
  <2>3. \A i \in 1..Len(Waiting') : Waiting'[i] = IF i < Len(V) THEN V[i] ELSE V[i + 1]
    BY <1>11, <2>2
  <2>4. Len(V) \in 1..Len(V) /\ (bytes_left # 0 => Len(V) # 1)
    BY <1>10, <1>11, <1>12
  <2> QED BY <1>5, <1>14, <2>1, <2>2, <2>3, <2>4
<1>17. CASE packet_queue'.pkts = Tail(A) /\ Discipline = "drophead"
  <2> DEFINE t == Tail(A)
  <2>1. t \in Seq(Packet) /\ Len(t) = Len(Q) /\ \A i \in 1..Len(Q) : t[i] = A[i + 1]
    <3>1. A # <<>> /\ Len(A) - 1 = Len(Q)
      BY <1>10
    <3> HIDE DEF A
    <3> QED BY <1>10, <3>1, TailOf
  <2>2. CASE bytes_left = 0
    <3>1. Waiting' = t /\ Waiting = Q /\ V = A
      BY <1>6, <1>17, <2>2
    <3>2. \A i \in 1..Len(Waiting') : Waiting'[i] = IF i < 1 THEN V[i] ELSE V[i + 1]
      BY <2>1, <3>1
    <3>3. 1 \in 1..Len(V)
      BY <1>11
    <3> QED BY <1>14, <1>17, <2>1, <2>2, <3>1, <3>2, <3>3
  <2>3. CASE bytes_left # 0
    <3> DEFINE u == <<packet_in_transit>> \o t
    <3> HIDE DEF t
    <3>1. u \in Seq(Packet) /\ Len(u) = Len(t) + 1 /\ u[1] = packet_in_transit
          /\ \A i \in 1..Len(t) : u[i + 1] = t[i]
      BY <1>5, <2>1, LineWith
    <3>2. Waiting' = u
      BY <1>6, <1>17, <2>3 DEF t
    <3> HIDE DEF u, V, A
    <3>3. Len(u) = Len(Waiting) /\ 2 \in 1..Len(V)
      BY <1>10, <1>11, <1>12, <2>1, <2>3, <3>1
    <3>4. \A i \in 1..Len(u) : u[i] = IF i < 2 THEN V[i] ELSE V[i + 1]
      <4> TAKE i \in 1..Len(u)
      <4>1. i \in 1..(Len(Q) + 1)
        BY <1>10, <2>1, <3>1
      <4>2. CASE i = 1
        BY <1>10, <1>11, <1>12, <2>3, <3>1, <4>2
      <4>3. CASE i # 1
        <5> DEFINE j == i - 1
        <5>1. j \in 1..Len(Q) /\ i = j + 1
          BY <1>10, <4>1, <4>3
        <5> HIDE DEF j
        <5>2. u[j + 1] = A[j + 1]
          BY <1>10, <2>1, <3>1, <5>1
        <5>3. CASE j + 1 <= Len(Q)
          <6>1. A[j + 1] = Q[j + 1] /\ Waiting[(j + 1) + 1] = Q[j + 1]
                /\ V[(j + 1) + 1] = Waiting[(j + 1) + 1]
            <7>1. j + 1 \in 1..Len(Q) /\ (j + 1) + 1 \in 1..Len(Waiting)
                  /\ j + 1 \in 1..(Len(Q) + 1) /\ (j + 1) + 1 \in 1..(Len(Waiting) + 1)
              BY <1>10, <1>12, <2>3, <5>1, <5>3
            <7> QED BY <1>10, <1>11, <1>12, <2>3, <5>3, <7>1, SMTT(30)
          <6> QED BY <1>10, <5>1, <5>2, <6>1
        <5>4. CASE ~(j + 1 <= Len(Q))
          <6>1. A[j + 1] = p /\ V[(j + 1) + 1] = p
            BY <1>10, <1>11, <1>12, <2>3, <5>1, <5>4
          <6> QED BY <1>10, <5>1, <5>2, <6>1
        <5> QED BY <5>3, <5>4
      <4> QED BY <4>2, <4>3
    <3>5. Waiting' \in Seq(Packet) /\ Len(Waiting') = Len(Waiting)
          /\ \A i \in 1..Len(Waiting') : Waiting'[i] = IF i < 2 THEN V[i] ELSE V[i + 1]
      BY <3>1, <3>2, <3>3, <3>4
    <3> QED BY <1>14, <1>17, <3>3, <3>5
  <2> QED BY <2>2, <2>3
<1> QED BY <1>8, <1>15, <1>16, <1>17

-----------------------------------------------------------------------------
LEMMA StepServes ==
  ASSUME OneDropIsEnough, IInv, NextNumber, IInv', [Next]_vars
  PROVE  [Service!Next]_Service!serviceVars
<1>1. CASE UNCHANGED <<link, output_queue, offered>>
  BY <1>1, ServiceStutters
<1>2. CASE Tick \/ (\E size \in Sizes : ReadPacket(size)) \/ WaitTime \/ FinishWait
  BY <1>1, <1>2 DEF Tick, ReadPacket, WaitTime, FinishWait, history
<1>3. CASE UseADeliveryOpportunity \/ OpportunityOver \/ UNCHANGED vars
  BY <1>1, <1>3 DEF UseADeliveryOpportunity, OpportunityOver, vars, history
<1> QED
  BY <1>2, <1>3, SendInTransitServes, SendNextServes, WritePacketsServes, FinishReadServes
  DEF Next, Rationalize

LEMMA InitServes == Init => Service!Init
<1> SUFFICES ASSUME Init PROVE Service!Init
  OBVIOUS
<1>1. /\ offered = <<>> /\ Waiting = <<>> /\ bytes_left = 0 /\ output_queue = <<>>
  BY DEF Init, Waiting, EmptyQueue
<1>2. Ids(<<>>) = <<>> /\ Len(<<>>) = 0
  BY DEF Ids
<1> QED BY <1>1, <1>2 DEF Service!Init

\* Every behaviour of the link is one of LinkService: order is kept, nothing
\* comes out twice, at most one packet is lost for each one offered, and never
\* the one in transit; without limits nothing is lost (rationalize, read_packet
\* and the enqueue and dequeue of the three disciplines).
THEOREM LinkImplementsService == ASSUME OneDropIsEnough PROVE Spec => ImplementsService
<1>1. Init => IInv /\ NextNumber
  BY Initially DEF Init, NoCall, NextNumber
<1>2. IInv /\ NextNumber /\ [Next]_vars => IInv' /\ NextNumber'
  BY Inductive, NextNumberKept
<1>3. Init => Service!Init
  BY InitServes
<1>4. IInv /\ NextNumber /\ IInv' /\ [Next]_vars => [Service!Next]_Service!serviceVars
  BY StepServes
<1> QED BY <1>1, <1>2, <1>3, <1>4, PTL DEF Spec, ImplementsService, Service!Spec

-----------------------------------------------------------------------------
(***************************************************************************)
(* The log of the link adds up.                                            *)
(***************************************************************************)
LEMMA SizesOf ==
  ASSUME NEW s \in Seq(Packet)
  PROVE  /\ [i \in 1..Len(s) |-> s[i].size] \in Seq(Int)
         /\ Len([i \in 1..Len(s) |-> s[i].size]) = Len(s) /\ Len(s) \in Nat
         /\ SumSizes(s) \in Int
<1>1. Len(s) \in Nat /\ \A i \in 1..Len(s) : s[i].size \in Int
  <2>1. \A i \in 1..Len(s) : s[i] \in Packet
    OBVIOUS
  <2> QED BY <2>1 DEF Packet
<1> DEFINE w == [i \in 1..Len(s) |-> s[i].size]
<1>2. w \in Seq(Int) /\ Len(w) = Len(s)
  BY <1>1
<1> HIDE DEF w
<1>3. SumOf(w) \in Int
  BY <1>2, SumType
<1> QED BY <1>1, <1>2, <1>3 DEF SumSizes, w

LEMMA SizesLast ==
  ASSUME NEW s \in Seq(Packet), NEW t \in Seq(Packet), Len(t) = Len(s) + 1,
         \A i \in 1..Len(s) : t[i] = s[i]
  PROVE  SumSizes(t) = SumSizes(s) + t[Len(t)].size
<1> DEFINE v == [i \in 1..Len(s) |-> s[i].size]
<1> DEFINE w == [i \in 1..Len(t) |-> t[i].size]
<1>1. v \in Seq(Int) /\ Len(v) = Len(s) /\ Len(s) \in Nat
  BY SizesOf
<1>2. w \in Seq(Int) /\ Len(w) = Len(t)
  BY SizesOf
<1>3. \A i \in 1..Len(v) : w[i] = v[i]
  BY <1>1, <1>2
<1>4. w[Len(w)] = t[Len(t)].size
  BY <1>1, <1>2
<1> HIDE DEF v, w
<1>5. SumOf(w) = SumOf(v) + w[Len(w)]
  BY <1>1, <1>2, <1>3, SumLast
<1> QED BY <1>4, <1>5 DEF SumSizes, v, w

LEMMA SizesFirst ==
  ASSUME NEW s \in Seq(Packet), NEW t \in Seq(Packet), Len(t) = Len(s) + 1,
         \A i \in 1..Len(s) : t[i + 1] = s[i]
  PROVE  SumSizes(t) = t[1].size + SumSizes(s)
<1> DEFINE v == [i \in 1..Len(s) |-> s[i].size]
<1> DEFINE w == [i \in 1..Len(t) |-> t[i].size]
<1>1. v \in Seq(Int) /\ Len(v) = Len(s) /\ Len(s) \in Nat
  BY SizesOf
<1>2. w \in Seq(Int) /\ Len(w) = Len(t)
  BY SizesOf
<1>3. \A i \in 1..Len(v) : w[i + 1] = v[i]
  <2> TAKE i \in 1..Len(v)
  <2>1. i \in 1..Len(s) /\ i + 1 \in 1..Len(t)
    BY <1>1
  <2> QED BY <2>1
<1>4. w[1] = t[1].size
  BY <1>1, <1>2
<1> HIDE DEF v, w
<1>5. SumOf(w) = w[1] + SumOf(v)
  BY <1>1, <1>2, <1>3, SumFirst
<1> QED BY <1>4, <1>5 DEF SumSizes, v, w

LEMMA SizesAppend ==
  ASSUME NEW s \in Seq(Packet), NEW p \in Packet
  PROVE  SumSizes(Append(s, p)) = SumSizes(s) + p.size
<1> DEFINE t == Append(s, p)
<1>1. t \in Seq(Packet) /\ Len(t) = Len(s) + 1 /\ t[Len(t)] = p
      /\ \A i \in 1..Len(s) : t[i] = s[i]
  OBVIOUS
<1> HIDE DEF t
<1>2. SumSizes(t) = SumSizes(s) + t[Len(t)].size
  BY <1>1, SizesLast
<1> QED BY <1>1, <1>2 DEF t

LEMMA SizesTail ==
  ASSUME NEW s \in Seq(Packet), s # <<>>
  PROVE  SumSizes(s) = Head(s).size + SumSizes(Tail(s))
<1>1. Tail(s) \in Seq(Packet) /\ Len(s) = Len(Tail(s)) + 1 /\ Head(s) = s[1]
      /\ \A i \in 1..Len(Tail(s)) : s[i + 1] = Tail(s)[i]
  OBVIOUS
<1> QED BY <1>1, SizesFirst

LEMMA SizesWith ==
  ASSUME NEW p \in Packet, NEW r \in Seq(Packet)
  PROVE  SumSizes(<<p>> \o r) = p.size + SumSizes(r)
<1> DEFINE t == <<p>> \o r
<1>1. t \in Seq(Packet) /\ Len(t) = Len(r) + 1 /\ t[1] = p
      /\ \A i \in 1..Len(r) : t[i + 1] = r[i]
  BY LineWith
<1> HIDE DEF t
<1> QED BY <1>1, SizesFirst DEF t

LEMMA SizesEmpty == SumSizes(<<>>) = 0
<1>1. [i \in 1..Len(<<>>) |-> <<>>[i].size] = <<>>
  OBVIOUS
<1> QED BY <1>1, SumEmpty DEF SumSizes

\* What is still on the link, with and without a packet in transit.
WaitingSizesOK ==
  /\ Len(Waiting) = Len(packet_queue.pkts) + (IF bytes_left = 0 THEN 0 ELSE 1)
  /\ SumSizes(Waiting) = SumSizes(packet_queue.pkts)
                         + (IF bytes_left = 0 THEN 0 ELSE packet_in_transit.size)
  /\ Len(packet_queue.pkts) \in Nat /\ SumSizes(packet_queue.pkts) \in Int
  /\ packet_in_transit.size \in Nat

LEMMA WaitingSizes == IInv => WaitingSizesOK
<1> SUFFICES ASSUME IInv PROVE WaitingSizesOK
  OBVIOUS
<1>1. packet_queue.pkts \in Seq(Packet) /\ packet_in_transit \in Packet
  BY WaitingIsSeq
<1>2. Len(packet_queue.pkts) \in Nat /\ SumSizes(packet_queue.pkts) \in Int
      /\ packet_in_transit.size \in Nat
  BY <1>1, SizesOf DEF Packet
<1>3. CASE bytes_left = 0
  BY <1>2, <1>3 DEF Waiting, WaitingSizesOK
<1>4. CASE bytes_left # 0
  <2>1. Waiting = <<packet_in_transit>> \o packet_queue.pkts
    BY <1>4 DEF Waiting
  <2>2. Len(Waiting) = Len(packet_queue.pkts) + 1
    BY <1>1, <2>1, LineWith
  <2>3. SumSizes(Waiting) = packet_in_transit.size + SumSizes(packet_queue.pkts)
    BY <1>1, <2>1, SizesWith
  <2> QED BY <1>2, <1>4, <2>2, <2>3 DEF WaitingSizesOK
<1> QED BY <1>3, <1>4

LEMMA WaitingSizesNext == IInv' => WaitingSizesOK'
<1>1. IInv => WaitingSizesOK
  BY WaitingSizes
<1> QED BY <1>1, PTL

DepartedOK ==
  /\ Departed \in Seq(Packet) /\ Len(Departed) = Len(departures)
  /\ \A i \in 1..Len(departures) : Departed[i] = departures[i].pkt

LEMMA DepartedIsSeq == TypeOK => DepartedOK
<1> SUFFICES ASSUME TypeOK PROVE DepartedOK
  OBVIOUS
<1>1. departures \in Seq([pkt : Packet, time : Nat])
  BY DEF TypeOK
<1>2. Len(departures) \in Nat /\ \A i \in 1..Len(departures) : departures[i].pkt \in Packet
  <2>1. \A i \in 1..Len(departures) : departures[i] \in [pkt : Packet, time : Nat]
    BY <1>1, ElementOf
  <2> QED BY <1>1, <2>1, ElementOf
<1> QED BY <1>2 DEF Departed, DepartedOK

LEMMA DepartedIsSeqNext == TypeOK' => DepartedOK'
<1>1. TypeOK => DepartedOK
  BY DepartedIsSeq
<1> QED BY <1>1, PTL

\* r waits in the queue q.
Holds(q, r) == q.pkts = r

\* A step of the loop moves a packet from the line to the departed, or none.
LEMMA SendBytesConserves ==
  ASSUME IInv, IInv', Conservation, pc = "send", delivery.left > 0,
         NEW p \in Packet, NEW left \in 1..PACKET_SIZE, left <= p.size,
         p.arrival < delivery.time,
         NEW q, Within(q), NEW r, Holds(q, r),
         Len(Waiting) = Len(r) + 1, SumSizes(Waiting) = p.size + SumSizes(r),
         SendBytes(p, left, q)
  PROVE  Conservation'
<1>1. TypeOK /\ TypeOK' /\ r \in Seq(Packet)
  BY DEF IInv, Within, Queue, Holds
<1>2. /\ delivery.left \in 1..PACKET_SIZE /\ PACKET_SIZE \in Nat /\ delivery.time \in Nat
      /\ p.arrival \in Nat /\ p.size \in Nat
  <2>1. delivery \in [time : Nat, left : 0..PACKET_SIZE]
    BY <1>1 DEF TypeOK
  <2> QED BY <2>1, LinkAssumption DEF Packet
<1>3. TransitAsserts(p, left)
  BY <1>2 DEF TransitAsserts
<1>4. /\ packet_in_transit' = p /\ packet_queue' = q
      /\ IF bytes_left' # 0
           THEN UNCHANGED departures
           ELSE departures' = Append(departures, [pkt |-> p, time |-> delivery.time])
      /\ offered' = offered /\ drops' = drops /\ pc' = "send"
  BY <1>3 DEF SendBytes
<1>5. /\ Len(offered) = Len(departures) + Len(Waiting) + drops.packets
      /\ SumSizes(offered) = SumSizes(Departed) + SumSizes(Waiting) + drops.bytes
  BY DEF Conservation
<1>6. /\ Len(Waiting') = Len(r) + (IF bytes_left' = 0 THEN 0 ELSE 1)
      /\ SumSizes(Waiting') = SumSizes(r) + (IF bytes_left' = 0 THEN 0 ELSE p.size)
  <2>1. CASE bytes_left' = 0
    <3>1. Waiting' = r
      BY <1>4, <2>1 DEF Waiting, Holds
    <3> QED BY <1>1, <2>1, <3>1, SizesOf
  <2>2. CASE bytes_left' # 0
    <3>1. Waiting' = <<p>> \o r
      BY <1>4, <2>2 DEF Waiting, Holds
    <3>2. Len(Waiting') = Len(r) + 1
      BY <1>1, <3>1, LineWith
    <3>3. SumSizes(Waiting') = p.size + SumSizes(r)
      BY <1>1, <3>1, SizesWith
    <3>4. SumSizes(r) \in Int
      BY <1>1, SizesOf
    <3> QED BY <1>2, <2>2, <3>2, <3>3, <3>4
  <2> QED BY <2>1, <2>2
<1>7. /\ Len(offered') = Len(offered) /\ SumSizes(offered)' = SumSizes(offered)
      /\ SumSizes(Departed)' = SumSizes(Departed') /\ SumSizes(Waiting)' = SumSizes(Waiting')
  BY <1>4 DEF SumSizes
<1>8. /\ SumSizes(r) \in Int /\ Len(r) \in Nat /\ SumSizes(Departed) \in Int
      /\ Len(departures) \in Nat /\ drops.packets \in Nat /\ drops.bytes \in Nat
  BY <1>1, DepartedIsSeq, SizesOf DEF TypeOK, DepartedOK
<1>9. CASE bytes_left' # 0
  <2>1. departures' = departures
    BY <1>4, <1>9
  <2>2. Departed' = Departed
    BY <2>1 DEF Departed
  <2> QED BY <1>2, <1>4, <1>5, <1>6, <1>7, <1>8, <1>9, <2>1, <2>2 DEF Conservation
<1>10. CASE bytes_left' = 0
  <2> DEFINE e == [pkt |-> p, time |-> delivery.time]
  <2>1. departures \in Seq([pkt : Packet, time : Nat]) /\ e \in [pkt : Packet, time : Nat]
    BY <1>1, <1>2 DEF TypeOK
  <2>2. e.pkt = p /\ departures' = Append(departures, e)
    BY <1>4, <1>10
  <2> HIDE DEF e
  <2>3. /\ Len(departures') = Len(departures) + 1
        /\ \A i \in 1..(Len(departures) + 1) :
             departures'[i] = IF i <= Len(departures) THEN departures[i] ELSE e
    BY <2>1, <2>2, AppendOf
  <2>4. /\ Departed \in Seq(Packet) /\ Len(Departed) = Len(departures)
        /\ \A i \in 1..Len(departures) : Departed[i] = departures[i].pkt
    BY <1>1, DepartedIsSeq DEF DepartedOK
  <2>5. /\ Departed' \in Seq(Packet) /\ Len(Departed') = Len(departures')
        /\ \A i \in 1..Len(departures') : Departed'[i] = departures'[i].pkt
    BY <1>1, DepartedIsSeqNext DEF DepartedOK
  <2>6. \A i \in 1..Len(Departed) : Departed'[i] = Departed[i]
    <3> TAKE i \in 1..Len(Departed)
    <3>1. i \in 1..Len(departures) /\ i \in 1..Len(departures') /\ i <= Len(departures)
          /\ i \in 1..(Len(departures) + 1)
      BY <1>8, <2>3, <2>4
    <3> QED BY <2>3, <2>4, <2>5, <3>1
  <2>7. Departed'[Len(Departed')] = p
    <3>1. Len(departures') \in 1..(Len(departures) + 1) /\ ~(Len(departures') <= Len(departures))
          /\ Len(departures') \in 1..Len(departures')
      BY <1>8, <2>3
    <3> QED BY <2>2, <2>3, <2>5, <3>1
  <2>8. SumSizes(Departed') = SumSizes(Departed) + p.size
    <3> DEFINE d == Departed'
    <3>1. d \in Seq(Packet) /\ Len(d) = Len(Departed) + 1 /\ d[Len(d)] = p
          /\ \A i \in 1..Len(Departed) : d[i] = Departed[i]
      BY <2>3, <2>4, <2>5, <2>6, <2>7
    <3> HIDE DEF d
    <3>2. SumSizes(d) = SumSizes(Departed) + d[Len(d)].size
      BY <2>4, <3>1, SizesLast
    <3> QED BY <3>1, <3>2 DEF d
  <2>9. Len(offered') = Len(departures') + Len(Waiting') + drops'.packets
    <3>1. Len(Waiting') = Len(r)
      BY <1>6, <1>8, <1>10
    <3>2. Len(departures') = Len(departures) + 1 /\ drops' = drops /\ Len(offered') = Len(offered)
      BY <1>4, <1>7, <2>3
    <3> QED BY <1>5, <1>8, <3>1, <3>2
  <2>10. SumSizes(offered)' = SumSizes(Departed)' + SumSizes(Waiting)' + drops'.bytes
    BY <1>2, <1>4, <1>5, <1>6, <1>7, <1>8, <1>10, <2>8
  <2> QED BY <2>9, <2>10 DEF Conservation
<1> QED BY <1>9, <1>10

LEMMA SendInTransitConserves ==
  ASSUME IInv, IInv', Conservation, SendInTransit
  PROVE  Conservation'
<1>1. /\ TypeOK /\ TransitFits /\ PendingInTime /\ Within(packet_queue)
      /\ pc = "send" /\ delivery.left > 0 /\ bytes_left # 0
      /\ SendBytes(packet_in_transit, bytes_left, packet_queue)
  BY DEF IInv, SendInTransit
<1>2. packet_in_transit \in Packet /\ bytes_left \in 1..PACKET_SIZE
  BY <1>1 DEF TypeOK
<1>3. bytes_left <= packet_in_transit.size /\ packet_in_transit.arrival < delivery.time
  BY <1>1 DEF TransitFits, PendingInTime, PendingBefore
<1> DEFINE r == packet_queue.pkts
<1>4. Len(Waiting) = Len(r) + 1 /\ SumSizes(Waiting) = packet_in_transit.size + SumSizes(r)
  BY <1>1, WaitingSizes DEF WaitingSizesOK
<1> HIDE DEF r
<1>5. Holds(packet_queue, r)
  BY DEF r, Holds
<1> QED BY <1>1, <1>2, <1>3, <1>4, <1>5, SendBytesConserves

LEMMA SendNextConserves ==
  ASSUME IInv, IInv', Conservation, SendNext
  PROVE  Conservation'
<1> DEFINE p == Head(packet_queue.pkts)
<1> DEFINE q == Pop(packet_queue)
<1> DEFINE r == Tail(packet_queue.pkts)
<1>1. /\ TypeOK /\ PendingInTime /\ Within(packet_queue)
      /\ pc = "send" /\ delivery.left > 0 /\ bytes_left = 0 /\ ~Empty(packet_queue)
  BY DEF IInv, SendNext
<1>2. /\ Within(q) /\ p \in Packet /\ p.size \in 1..PACKET_SIZE /\ p = packet_queue.pkts[1]
  BY <1>1, PopWithin
<1>3. SendBytes(p, p.size, q)
  BY <1>1, <1>2 DEF SendNext, DequeueAsserts, Within
<1>4. packet_queue.pkts \in Seq(Packet) /\ packet_queue.pkts # <<>> /\ Waiting = packet_queue.pkts
  BY <1>1, WaitingIsSeq DEF Empty, Waiting
<1>5. p.arrival < delivery.time
  <2>1. 1 \in 1..Len(packet_queue.pkts)
    BY <1>4
  <2> QED BY <1>1, <1>2, <2>1 DEF PendingInTime, PendingBefore
<1>6. Holds(q, r)
  BY DEF Pop, Holds
<1>7. Len(Waiting) = Len(r) + 1 /\ SumSizes(Waiting) = p.size + SumSizes(r)
  <2> DEFINE s == packet_queue.pkts
  <2>1. s \in Seq(Packet) /\ s # <<>> /\ Waiting = s
    BY <1>4
  <2> HIDE DEF s
  <2>2. Len(s) = Len(Tail(s)) + 1 /\ SumSizes(s) = Head(s).size + SumSizes(Tail(s))
    BY <2>1, SizesTail
  <2> QED BY <2>1, <2>2 DEF s
<1>8. p.size <= p.size
  BY <1>2, LinkAssumption
<1> HIDE DEF p, q, r
<1> QED BY <1>1, <1>2, <1>3, <1>5, <1>6, <1>7, <1>8, SendBytesConserves

\* Steps that count nothing.
LEMMA ConservationKept ==
  ASSUME Conservation, pc # "aborted", UNCHANGED <<offered, departures, link, drops>>
  PROVE  Conservation'
<1>1. /\ Len(offered)' = Len(offered) /\ SumSizes(offered)' = SumSizes(offered)
      /\ Len(departures)' = Len(departures) /\ SumSizes(Departed)' = SumSizes(Departed)
      /\ Len(Waiting)' = Len(Waiting) /\ SumSizes(Waiting)' = SumSizes(Waiting)
      /\ drops' = drops
  BY DEF link, Waiting, Departed, SumSizes
<1> QED BY <1>1 DEF Conservation

LEMMA FinishReadConserves ==
  ASSUME OneDropIsEnough, IInv, IInv', Conservation, FinishRead
  PROVE  Conservation'
<1> DEFINE p == call.pkt
<1> DEFINE Q == packet_queue.pkts
<1> DEFINE A == Append(Q, p)
<1> DEFINE full == Accept(packet_queue, p)
<1> DEFINE q == Enqueue(packet_queue, p)
<1>1. TypeOK /\ TransitFits /\ Within(packet_queue)
  BY DEF IInv
<1>2. /\ call.op = "read" /\ offered' = Append(offered, p)
      /\ bytes_left' = bytes_left /\ packet_in_transit' = packet_in_transit
      /\ departures' = departures
  BY DEF FinishRead
<1>3. p \in Packet /\ p.size \in 1..PACKET_SIZE /\ p.size \in Nat
  <2>1. call \in [op : {"none", "read", "wait"}, now : Nat, pkt : Packet]
    BY <1>1 DEF TypeOK
  <2> QED BY <1>1, <1>2, <2>1 DEF TransitFits, Packet
<1>4. /\ packet_queue' = q
      /\ drops' = [packets |-> drops.packets + Missing(q, p).packets,
                   bytes |-> drops.bytes + Missing(q, p).bytes]
  <2>1. EnqueueAsserts(packet_queue, p) /\ GrowthAsserts(Enqueue(packet_queue, p), p)
    BY <1>1, <1>3, EnqueueWithin, Grows
  <2> QED BY <2>1 DEF FinishRead
<1>5. /\ Q \in Seq(Packet) /\ packet_queue.bytes \in Int /\ packet_queue.count = Len(Q)
      /\ offered \in Seq(Packet) /\ drops.packets \in Nat /\ drops.bytes \in Nat
  BY <1>1 DEF TypeOK, Within, Queue
<1>6. /\ A \in Seq(Packet) /\ Len(A) = Len(Q) + 1 /\ Len(Q) \in Nat
      /\ SumSizes(A) = SumSizes(Q) + p.size /\ SumSizes(Q) \in Int
  BY <1>3, <1>5, AppendOf, SizesAppend, SizesOf
<1>7. Len(offered') = Len(offered) + 1 /\ SumSizes(offered)' = SumSizes(offered) + p.size
  <2>1. Len(offered') = Len(offered) + 1
    BY <1>2, <1>3, <1>5, AppendOf
  <2>2. SumSizes(Append(offered, p)) = SumSizes(offered) + p.size
    BY <1>3, <1>5, SizesAppend
  <2>3. SumSizes(offered)' = SumSizes(offered')
    BY DEF SumSizes
  <2> QED BY <1>2, <2>1, <2>2, <2>3
\* The queue keeps all but as many packets and bytes as are counted as missing.
<1>8. /\ Len(packet_queue'.pkts) + Missing(q, p).packets = Len(Q) + 1
      /\ SumSizes(packet_queue'.pkts) + Missing(q, p).bytes = SumSizes(Q) + p.size
      /\ Missing(q, p).packets \in Int /\ Missing(q, p).bytes \in Int
  <2> DEFINE qb == packet_queue.bytes
  <2> DEFINE k == p.size
  <2>1. full.pkts = A /\ full.count = Len(Q) + 1 /\ full.bytes = qb + k
    BY <1>5 DEF Accept
  <2>2. \/ q = full
        \/ q = packet_queue
        \/ q = Pop(full)
    BY DEF Enqueue, EnqueueHead, EnqueueTail
  <2>3. /\ Missing(q, p).packets = Len(Q) + 1 - q.count
        /\ Missing(q, p).bytes = qb + k - q.bytes
    BY <1>5 DEF Missing
  <2> DEFINE n == Len(Q)
  <2> DEFINE y == SumSizes(Q)
  <2>4. n \in Nat /\ y \in Int /\ k \in Nat /\ qb \in Int
        /\ Len(A) = n + 1 /\ SumSizes(A) = y + k
    BY <1>3, <1>5, <1>6
  <2>5. SUFFICES \E h \in Nat : \E c \in Int : /\ Len(q.pkts) + c = n + 1 /\ SumSizes(q.pkts) + h = y + k
                                           /\ q.count = n + 1 - c /\ q.bytes = qb + k - h
    <3>1. PICK h \in Nat, c \in Int : /\ Len(q.pkts) + c = n + 1 /\ SumSizes(q.pkts) + h = y + k
                                      /\ q.count = n + 1 - c /\ q.bytes = qb + k - h
      BY <2>5
    <3>2. Missing(q, p).packets = n + 1 - (n + 1 - c) /\ Missing(q, p).bytes = qb + k - (qb + k - h)
      BY <2>3, <3>1
    <3>3. n + 1 - (n + 1 - c) = c /\ qb + k - (qb + k - h) = h
      <4> HIDE DEF n, qb, k
      <4> QED BY <2>4, SMTT(30)
    <3> QED BY <1>4, <3>1, <3>2, <3>3
  <2>6. CASE q = full
    <3>1. Len(q.pkts) = n + 1 /\ SumSizes(q.pkts) = y + k /\ q.count = n + 1 /\ q.bytes = qb + k
      BY <2>1, <2>4, <2>6
    <3> HIDE DEF n, y, k, q, qb
    <3> QED BY <2>4, <3>1
  <2>7. CASE q = packet_queue
    <3>1. Len(q.pkts) = n /\ SumSizes(q.pkts) = y /\ q.count = n /\ q.bytes = qb
      BY <1>5, <2>7
    <3> HIDE DEF n, y, k, q, qb
    <3> QED BY <2>4, <3>1
  <2>8. CASE q = Pop(full)
    <3> DEFINE h == Head(A).size
    <3>1. /\ h \in Nat /\ Len(Tail(A)) = n /\ SumSizes(A) = h + SumSizes(Tail(A))
          /\ SumSizes(Tail(A)) \in Int
      <4> HIDE DEF A
      <4>1. A # <<>>
        BY <1>6
      <4>2. Head(A) \in Packet /\ Tail(A) \in Seq(Packet) /\ Len(Tail(A)) = Len(Q)
        BY <1>6, <4>1, TailOf
      <4> QED BY <1>6, <4>1, <4>2, SizesTail, SizesOf DEF Packet
    <3>2. q.pkts = Tail(A) /\ q.count = full.count - 1 /\ q.bytes = full.bytes - h
      BY <2>1, <2>8 DEF Pop
    <3>3. q.count = n + 1 - 1 /\ q.bytes = qb + k - h
      <4> DEFINE f == [pkts |-> A, bytes |-> qb + k, count |-> n + 1]
      <4>1. full = f
        BY <1>5 DEF Accept
      <4>2. Pop(f).count = f.count - 1 /\ Pop(f).bytes = f.bytes - h
        BY DEF Pop
      <4>3. f.count = n + 1 /\ f.bytes = qb + k
        OBVIOUS
      <4>4. q = Pop(f)
        BY <2>8, <4>1
      <4>5. f.count - 1 = n + 1 - 1 /\ f.bytes - h = qb + k - h
        <5> HIDE DEF n, qb, k, h, A
        <5> QED BY <2>4, <3>1
      <4> HIDE DEF f, q, full, n, qb, k, h
      <4> QED BY <4>2, <4>4, <4>5
    <3>4. Len(q.pkts) + 1 = n + 1 /\ SumSizes(q.pkts) + h = y + k
      <4> HIDE DEF h, n, y, k, A
      <4>1. Len(Tail(A)) + 1 = n + 1 /\ SumSizes(Tail(A)) + h = y + k
        BY <2>4, <3>1
      <4> QED BY <3>2, <4>1
    <3> QED BY <3>1, <3>3, <3>4
  <2> QED BY <2>2, <2>6, <2>7, <2>8
<1>9. /\ Len(Waiting) = Len(Q) + (IF bytes_left = 0 THEN 0 ELSE 1)
      /\ SumSizes(Waiting) = SumSizes(Q) + (IF bytes_left = 0 THEN 0 ELSE packet_in_transit.size)
      /\ packet_in_transit.size \in Nat
  BY WaitingSizes DEF WaitingSizesOK
<1>10. /\ Len(Waiting)' = Len(packet_queue'.pkts) + (IF bytes_left = 0 THEN 0 ELSE 1)
       /\ SumSizes(Waiting)' = SumSizes(packet_queue'.pkts)
                               + (IF bytes_left = 0 THEN 0 ELSE packet_in_transit.size)
       /\ Len(packet_queue'.pkts) \in Nat /\ SumSizes(packet_queue'.pkts) \in Int
  BY <1>2, WaitingSizesNext DEF WaitingSizesOK
<1>11. SumSizes(Departed)' = SumSizes(Departed) /\ Len(departures)' = Len(departures)
       /\ SumSizes(Departed) \in Int /\ Len(departures) \in Nat
  <2>1. Departed' = Departed
    BY <1>2 DEF Departed
  <2> QED BY <1>1, <1>2, <2>1, DepartedIsSeq, SizesOf DEF SumSizes, DepartedOK
<1>12. /\ Len(offered) = Len(departures) + Len(Waiting) + drops.packets
       /\ SumSizes(offered) = SumSizes(Departed) + SumSizes(Waiting) + drops.bytes
  BY DEF Conservation, FinishRead
<1>13. /\ drops'.packets = drops.packets + Missing(q, p).packets
       /\ drops'.bytes = drops.bytes + Missing(q, p).bytes
  BY <1>4
<1> DEFINE mp == Missing(q, p).packets
<1> DEFINE mb == Missing(q, p).bytes
<1> DEFINE n == Len(packet_queue'.pkts)
<1> DEFINE z == SumSizes(packet_queue'.pkts)
<1> DEFINE m == Len(Q)
<1> DEFINE y == SumSizes(Q)
<1> DEFINE k == p.size
<1> DEFINE dp == drops.packets
<1> DEFINE db == drops.bytes
<1> DEFINE np == drops'.packets
<1> DEFINE nb == drops'.bytes
<1>14. n + mp = m + 1 /\ n \in Nat /\ m \in Nat /\ mp \in Int
       /\ np = dp + mp /\ dp \in Nat
  BY <1>5, <1>6, <1>8, <1>10, <1>13
<1>15. z + mb = y + k /\ z \in Int /\ y \in Int /\ k \in Nat /\ mb \in Int
       /\ nb = db + mb /\ db \in Nat
  BY <1>3, <1>5, <1>6, <1>8, <1>10, <1>13
<1>16. /\ Len(Waiting) = m + (IF bytes_left = 0 THEN 0 ELSE 1)
       /\ Len(Waiting)' = n + (IF bytes_left = 0 THEN 0 ELSE 1)
  BY <1>9, <1>10
<1>17. /\ SumSizes(Waiting) = y + (IF bytes_left = 0 THEN 0 ELSE packet_in_transit.size)
       /\ SumSizes(Waiting)' = z + (IF bytes_left = 0 THEN 0 ELSE packet_in_transit.size)
       /\ packet_in_transit.size \in Nat
  BY <1>9, <1>10
<1>18. Len(offered') = Len(offered) + 1 /\ SumSizes(offered)' = SumSizes(offered) + k
  BY <1>7
<1> DEFINE it == packet_in_transit.size
<1>19. /\ Len(offered) = Len(departures) + Len(Waiting) + dp
       /\ SumSizes(offered) = SumSizes(Departed) + SumSizes(Waiting) + db
  BY <1>12
<1>20. /\ SumSizes(Waiting) = y + (IF bytes_left = 0 THEN 0 ELSE it)
       /\ SumSizes(Waiting)' = z + (IF bytes_left = 0 THEN 0 ELSE it)
       /\ it \in Nat
  BY <1>17
<1> DEFINE ld == Len(departures)
<1> DEFINE sd == SumSizes(Departed)
<1>21. ld \in Nat /\ Len(departures)' = ld /\ sd \in Int /\ SumSizes(Departed)' = sd
       /\ Len(offered) = ld + Len(Waiting) + dp /\ SumSizes(offered) = sd + SumSizes(Waiting) + db
  BY <1>11, <1>19
<1> HIDE DEF mp, mb, n, z, m, y, k, dp, db, np, nb, it, ld, sd
<1>22. Len(offered') = ld + Len(Waiting)' + np
  <2>1. Len(offered') = ld + (m + (IF bytes_left = 0 THEN 0 ELSE 1)) + dp + 1
    BY <1>16, <1>18, <1>21
  <2> QED BY <1>14, <1>16, <1>21, <2>1
<1>23. SumSizes(offered)' = sd + SumSizes(Waiting)' + nb
  <2>1. SumSizes(offered)' = sd + (y + (IF bytes_left = 0 THEN 0 ELSE it)) + db + k
    BY <1>18, <1>20, <1>21
  <2> QED BY <1>15, <1>20, <1>21, <2>1
<1> QED BY <1>21, <1>22, <1>23 DEF Conservation, np, nb

LEMMA StepConserves ==
  ASSUME OneDropIsEnough, IInv, IInv', Conservation, [Next]_vars
  PROVE  Conservation'
<1>0. pc # "aborted"
  BY DEF IInv, AssertionsHold
<1>1. CASE Tick
  BY <1>0, <1>1, ConservationKept DEF Tick, history
<1>2. CASE \E size \in Sizes : ReadPacket(size)
  BY <1>0, <1>2, ConservationKept DEF ReadPacket, history
<1>3. CASE WaitTime
  BY <1>0, <1>3, ConservationKept DEF WaitTime, history
<1>4. CASE WritePackets
  BY <1>0, <1>4, ConservationKept DEF WritePackets
<1>5. CASE UseADeliveryOpportunity
  BY <1>0, <1>5, ConservationKept DEF UseADeliveryOpportunity
<1>6. CASE SendInTransit
  BY <1>6, SendInTransitConserves
<1>7. CASE SendNext
  BY <1>7, SendNextConserves
<1>8. CASE OpportunityOver
  BY <1>0, <1>8, ConservationKept DEF OpportunityOver, history
<1>9. CASE FinishRead
  BY <1>9, FinishReadConserves
<1>10. CASE FinishWait
  BY <1>0, <1>10, ConservationKept DEF FinishWait, history
<1>11. CASE UNCHANGED vars
  BY <1>0, <1>11, ConservationKept DEF vars, history
<1> QED
  BY <1>1, <1>2, <1>3, <1>4, <1>5, <1>6, <1>7, <1>8, <1>9, <1>10, <1>11 DEF Next, Rationalize

LEMMA InitConserves == Init => Conservation
<1> SUFFICES ASSUME Init PROVE Conservation
  OBVIOUS
<1>1. /\ offered = <<>> /\ departures = <<>> /\ Waiting = <<>>
      /\ drops.packets = 0 /\ drops.bytes = 0
  BY DEF Init, Waiting, EmptyQueue
<1>2. Departed = <<>>
  BY <1>1 DEF Departed
<1> QED BY <1>1, <1>2, SizesEmpty DEF Conservation

\* Conservation holds of every state, whatever the trace, the limits and the
\* clock: the log of read_packet and record_departure accounts for every packet
\* and every byte.
THEOREM LogAddsUp ==
  ASSUME OneDropIsEnough
  PROVE  Spec => []Conservation
<1>1. Init => IInv /\ Conservation
  BY Initially, InitConserves
<1>2. IInv /\ Conservation /\ [Next]_vars => (IInv /\ Conservation)'
  BY Inductive, StepConserves
<1> QED BY <1>1, <1>2, PTL DEF Spec

(***************************************************************************)
(* The opportunities are those of the trace.                               *)
(***************************************************************************)
\* While the link is not finished it has been through the trace q times, the
\* base has moved by as many periods, and next_delivery more are used up; a trace
\* that is not repeated is in its first turn.
Turn(q) ==
  /\ Len(slots) = q * Len(schedule) + next_delivery
  /\ base_timestamp = StartTime + q * schedule[Len(schedule)]
  /\ repeat \/ q = 0

TurnKept == ~finished => \E q \in Nat : Turn(q)

LEMMA UseFollowsTrace ==
  ASSUME TypeOK, TurnKept, SlotTimes, UseADeliveryOpportunity
  PROVE  TurnKept' /\ SlotTimes'
<1> DEFINE n == Len(schedule)
<1> DEFINE last == schedule[Len(schedule)]
<1> DEFINE k == Len(slots)
<1>1. /\ ~finished /\ slots' = Append(slots, next_delivery_time) /\ Advance
      /\ schedule' = schedule /\ repeat' = repeat
  BY DEF UseADeliveryOpportunity, Due, trace
<1>2. /\ n \in Nat \ {0} /\ next_delivery \in 0..(n - 1) /\ slots \in Seq(Nat) /\ k \in Nat
      /\ last \in Nat /\ base_timestamp \in Nat /\ next_delivery_time \in Nat /\ StartTime \in Nat
      /\ schedule \in Seq(Nat)
  BY NextTimeIsNat, LinkAssumption DEF TypeOK
<1>3. PICK q \in Nat :
        k = q * n + next_delivery /\ base_timestamp = StartTime + q * last /\ (repeat \/ q = 0)
  BY <1>1 DEF TurnKept, Turn
<1>4. /\ Len(slots') = k + 1 /\ slots'[k + 1] = next_delivery_time
      /\ \A j \in 1..k : slots'[j] = slots[j]
  BY <1>1, <1>2
<1>5. k \div n = q /\ k % n = next_delivery
  <2> HIDE DEF n, k, last
  <2> DEFINE i == next_delivery
  <2>1. n \in Nat \ {0} /\ i \in 0..(n - 1) /\ q \in Int
    BY <1>2
  <2>2. k = q * n + i
    BY <1>3
  <2> HIDE DEF i
  <2>3. (q * n + i) \div n = q /\ (q * n + i) % n = i
    BY <2>1, Position
  <2> QED BY <2>2, <2>3 DEF i
<1>6. slots'[k + 1] = StartTime + (((k + 1) - 1) \div n) * last + schedule[(((k + 1) - 1) % n) + 1]
  <2>1. (k + 1) - 1 = k
    BY <1>2
  <2>2. next_delivery_time = schedule[next_delivery + 1] + base_timestamp
    BY DEF next_delivery_time
  <2>3. schedule[next_delivery + 1] \in Nat
    BY <1>2
  <2>4. schedule[next_delivery + 1] + base_timestamp = StartTime + q * last + schedule[next_delivery + 1]
    BY <1>2, <1>3, <2>3
  <2> QED BY <1>4, <1>5, <2>1, <2>2, <2>4
<1>9. OnePass'
  <2>1. CASE next_delivery + 1 = n
    <3>1. next_delivery' = 0
      BY <1>1, <1>2, <2>1, NextIndex DEF Advance
    <3>2. IF repeat THEN finished' = finished ELSE finished'
      BY <1>1, <3>1 DEF Advance
    <3>3. ~repeat => k + 1 = n
      <4> HIDE DEF n, k
      <4> QED BY <1>2, <1>3, <2>1
    <3> QED BY <1>1, <1>2, <1>4, <3>2, <3>3 DEF OnePass
  <2>2. CASE next_delivery + 1 # n
    <3>1. next_delivery' # 0 /\ finished' = finished
      BY <1>1, <1>2, <2>2, NextIndex DEF Advance
    <3>2. ~repeat => k + 1 < n
      <4> HIDE DEF n, k
      <4> QED BY <1>2, <1>3, <2>2
    <3> QED BY <1>1, <1>2, <1>4, <3>1, <3>2 DEF OnePass
  <2> QED BY <2>1, <2>2
<1>7. SlotTimes'
  <2> SUFFICES ASSUME NEW j \in 1..Len(slots')
               PROVE  slots'[j] = StartTime + ((j - 1) \div Len(schedule')) * schedule'[Len(schedule')]
                                            + schedule'[((j - 1) % Len(schedule')) + 1]
    BY <1>9 DEF SlotTimes
  <2>1. j \in 1..k \/ j = k + 1
    BY <1>2, <1>4
  <2>2. CASE j \in 1..k
    BY <1>1, <1>4, <2>2 DEF SlotTimes
  <2>3. CASE j = k + 1
    BY <1>1, <1>6, <2>3
  <2> QED BY <2>1, <2>2, <2>3
<1>8. TurnKept'
  <2> SUFFICES ASSUME ~finished' PROVE \E t \in Nat : Turn(t)'
    BY DEF TurnKept
  <2>1. CASE next_delivery + 1 = n
    <3>1. next_delivery' = 0
      BY <1>1, <1>2, <2>1, NextIndex DEF Advance
    <3>2. base_timestamp' = base_timestamp + last /\ repeat
      BY <1>1, <3>1 DEF Advance
    <3>3. k + 1 = (q + 1) * n + 0 /\ base_timestamp' = StartTime + (q + 1) * last
      <4> HIDE DEF n, k, last
      <4>1. (q + 1) * n = q * n + n /\ q * n \in Int
        BY <1>2
      <4>2. (q + 1) * last = q * last + last /\ q * last \in Int
        BY <1>2
      <4> QED BY <1>2, <1>3, <2>1, <3>2, <4>1, <4>2
    <3> QED BY <1>1, <1>4, <3>1, <3>2, <3>3 DEF Turn
  <2>2. CASE next_delivery + 1 # n
    <3>1. next_delivery' = next_delivery + 1 /\ base_timestamp' = base_timestamp
      BY <1>1, <1>2, <2>2, NextIndex DEF Advance
    <3>2. k + 1 = q * n + (next_delivery + 1)
      BY <1>2, <1>3
    <3> QED BY <1>1, <1>3, <1>4, <3>1, <3>2 DEF Turn
  <2> QED BY <2>1, <2>2
<1> QED BY <1>7, <1>8

LEMMA TraceKept ==
  ASSUME TurnKept, SlotTimes, UNCHANGED <<trace, position, slots>>
  PROVE  TurnKept' /\ SlotTimes'
BY DEF TurnKept, Turn, SlotTimes, OnePass, trace, position

LEMMA StepFollowsTrace ==
  ASSUME TypeOK, TurnKept, SlotTimes, [Next]_vars
  PROVE  TurnKept' /\ SlotTimes'
<1>1. UseADeliveryOpportunity \/ UNCHANGED <<trace, position, slots>>
  BY DEF Next, Rationalize, vars, history, Tick, ReadPacket, WaitTime, WritePackets,
         SendInTransit, SendNext, SendBytes, OpportunityOver, FinishRead, FinishWait
<1> QED BY <1>1, UseFollowsTrace, TraceKept

LEMMA InitFollowsTrace == Init => TurnKept /\ SlotTimes
<1> SUFFICES ASSUME Init PROVE TurnKept /\ SlotTimes
  OBVIOUS
<1>1. /\ slots = <<>> /\ next_delivery = 0 /\ base_timestamp = StartTime /\ schedule \in Schedules
      /\ ~finished
  BY DEF Init
<1>2. Len(schedule) \in Nat \ {0} /\ schedule[Len(schedule)] \in Nat /\ StartTime \in Nat
  BY <1>1, LinkAssumption DEF ValidSchedule
<1>3. Turn(0)
  BY <1>1, <1>2 DEF Turn
<1> QED BY <1>1, <1>2, <1>3 DEF TurnKept, SlotTimes, OnePass

\* SlotTimes holds of every state: the opportunities used up are those of the
\* trace, in order, none skipped and none used twice, however late and in
\* whatever batches rationalize replays them; a trace that is not repeated ends
\* after one pass.
THEOREM SlotsFollowTrace ==
  ASSUME OneDropIsEnough
  PROVE  Spec => []SlotTimes
<1>1. Init => IInv /\ TurnKept /\ SlotTimes
  BY Initially, InitFollowsTrace
<1>2. IInv /\ TurnKept /\ SlotTimes /\ [Next]_vars => (IInv /\ TurnKept /\ SlotTimes)'
  BY Inductive, StepFollowsTrace DEF IInv
<1> QED BY <1>1, <1>2, PTL DEF Spec

(***************************************************************************)
(* The link without limits is the ideal server.                            *)
(***************************************************************************)
\* A clock that is set back can stamp an arrival before an opportunity that is
\* already used up; the comparison with the ideal server needs one that is not.
ClockNotSetBack == \A d \in ClockSteps : d >= 0

\* The bytes of the packets in o that arrived before t.
ArrivedIn(o, t) == SumOf([i \in 1..Len(o) |-> IF o[i].arrival < t THEN o[i].size ELSE 0])

\* f says how much the ideal server has sent by each of the opportunities sl,
\* when the packets o are offered.
IsIdeal(f, sl, o) ==
  /\ f[0] = 0
  /\ \A k \in 1..Len(sl) : f[k] = Lesser(f[k - 1] + PACKET_SIZE, ArrivedIn(o, sl[k]))
  /\ \A k \in 0..Len(sl) : f[k] \in Int

\* A total of the sizes up to a time is one of numbers.
LEMMA ArrivedSizes ==
  ASSUME NEW o \in Seq(Packet), NEW t \in Int
  PROVE  /\ [i \in 1..Len(o) |-> IF o[i].arrival < t THEN o[i].size ELSE 0] \in Seq(Int)
         /\ ArrivedIn(o, t) \in Int
<1> DEFINE w == [i \in 1..Len(o) |-> IF o[i].arrival < t THEN o[i].size ELSE 0]
<1>1. Len(o) \in Nat /\ \A i \in 1..Len(o) : o[i].size \in Int
  <2>1. \A i \in 1..Len(o) : o[i] \in Packet
    BY ElementOf
  <2> QED BY <2>1, ElementOf DEF Packet
<1>2. w \in Seq(Int)
  BY <1>1
<1> HIDE DEF w
<1>3. SumOf(w) \in Int
  BY <1>2, SumType
<1> QED BY <1>2, <1>3 DEF ArrivedIn, w

\* Packets that all arrived before t count in full; one that did not, not at all.
LEMMA ArrivedAll ==
  ASSUME NEW o \in Seq(Packet), NEW t \in Int, \A i \in 1..Len(o) : o[i].arrival < t
  PROVE  ArrivedIn(o, t) = SumSizes(o)
<1>1. [i \in 1..Len(o) |-> IF o[i].arrival < t THEN o[i].size ELSE 0]
        = [i \in 1..Len(o) |-> o[i].size]
  OBVIOUS
<1> QED BY <1>1 DEF ArrivedIn, SumSizes

LEMMA ArrivedLater ==
  ASSUME NEW o \in Seq(Packet), NEW p \in Packet, NEW t \in Int, t <= p.arrival
  PROVE  ArrivedIn(Append(o, p), t) = ArrivedIn(o, t)
<1> DEFINE q == Append(o, p)
<1> DEFINE v == [i \in 1..Len(o) |-> IF o[i].arrival < t THEN o[i].size ELSE 0]
<1> DEFINE w == [i \in 1..Len(q) |-> IF q[i].arrival < t THEN q[i].size ELSE 0]
<1>1. q \in Seq(Packet) /\ Len(q) = Len(o) + 1 /\ q[Len(q)] = p /\ Len(o) \in Nat
      /\ \A i \in 1..Len(o) : q[i] = o[i]
  OBVIOUS
<1>2. p.arrival \in Nat /\ ~(p.arrival < t)
  BY DEF Packet
<1> HIDE DEF q
<1>3. v \in Seq(Int) /\ w \in Seq(Int)
  BY <1>1, ArrivedSizes
<1>4. Len(w) = Len(v) + 1 /\ w[Len(w)] = 0 /\ \A i \in 1..Len(v) : w[i] = v[i]
  <2>1. Len(v) = Len(o) /\ Len(w) = Len(q)
    BY <1>1
  <2>2. w[Len(w)] = 0
    BY <1>1, <1>2, <2>1
  <2>3. \A i \in 1..Len(o) : i \in 1..Len(q)
    BY <1>1
  <2> QED BY <1>1, <2>1, <2>2, <2>3
<1> HIDE DEF v, w
<1>5. SumOf(w) = SumOf(v) + w[Len(w)] /\ SumOf(v) \in Int
  BY <1>3, <1>4, SumLast, SumType
<1>6. SumOf(w) = SumOf(v)
  BY <1>4, <1>5
<1> QED BY <1>6 DEF ArrivedIn, v, w, q

LEMMA IdealServiceIs == TypeOK => IsIdeal(IdealService, slots, offered)
<1> SUFFICES ASSUME TypeOK PROVE IsIdeal(IdealService, slots, offered)
  OBVIOUS
<1> DEFINE n == Len(slots)
<1> DEFINE B(k) == ArrivedIn(offered, slots[k])
<1> DEFINE G == [k \in 1..n |-> [x \in Int |-> Lesser(x + PACKET_SIZE, B(k))]]
<1> DEFINE P(g) == g = [k \in 0..n |-> IF k = 0 THEN 0 ELSE Lesser(g[k - 1] + PACKET_SIZE, B(k))]
<1>1. n \in Nat /\ offered \in Seq(Packet) /\ PACKET_SIZE \in Nat
      /\ \A k \in 1..n : slots[k] \in Int
  BY LinkAssumption, ElementOf, SMTT(30) DEF TypeOK
<1>2. \A k \in 1..n : B(k) \in Int
  BY <1>1, ArrivedSizes
<1>3. G \in [1..n -> [Int -> Int]]
  <2>1. \A k \in 1..n : \A x \in Int : Lesser(x + PACKET_SIZE, B(k)) \in Int
    <3> HIDE DEF B
    <3> QED BY <1>1, <1>2 DEF Lesser
  <2> HIDE DEF B, n
  <2> QED BY <2>1
<1>4. PICK f \in [0..n -> Int] : Chain(G, 0, n, f)
  <2>1. 0 \in Int
    OBVIOUS
  <2> HIDE DEF G, n
  <2> QED BY <1>1, <1>3, <2>1, ChainExists
<1>5. P(f)
  <2>1. \A k \in 1..n : f[k] = G[k][f[k - 1]] /\ f[k - 1] \in Int /\ k # 0
    <3> HIDE DEF G
    <3>1. \A k \in 1..n : k - 1 \in 0..n
      BY <1>1
    <3> QED BY <1>4, <3>1, SMTT(30) DEF Chain
  <2>2. \A k \in 1..n : f[k] = Lesser(f[k - 1] + PACKET_SIZE, B(k))
    <3> HIDE DEF B, n
    <3> QED BY <2>1
  <2>3. \A k \in 0..n : k = 0 \/ k \in 1..n
    BY <1>1
  <2>4. f[0] = 0
    BY <1>4 DEF Chain
  <2> HIDE DEF B, n
  <2>5. \A k \in 0..n : f[k] = IF k = 0 THEN 0 ELSE Lesser(f[k - 1] + PACKET_SIZE, B(k))
    BY <2>2, <2>3, <2>4
  <2>6. f = [k \in 0..n |-> f[k]]
    BY <1>4
  <2> QED BY <2>5, <2>6
<1>6. IdealService = CHOOSE g : P(g)
  BY DEF IdealService, BytesArrivedBefore, ArrivedIn
<1> HIDE DEF P
<1>7. P(IdealService)
  BY <1>5, <1>6
<1> DEFINE s == IdealService
<1>8. s = [k \in 0..n |-> IF k = 0 THEN 0 ELSE Lesser(s[k - 1] + PACKET_SIZE, B(k))]
  BY <1>7 DEF P
<1> HIDE DEF s, B, n
<1>9. s[0] = 0 /\ \A k \in 1..n : s[k] = Lesser(s[k - 1] + PACKET_SIZE, B(k))
  <2>1. 0 \in 0..n /\ \A k \in 1..n : k \in 0..n /\ k # 0
    BY <1>1
  <2> QED BY <1>8, <2>1
<1>10. \A k \in 0..n : s[k] \in Int
  <2>1. \A k \in 1..n : s[k - 1] \in Int => s[k] \in Int
    BY <1>1, <1>2, <1>9 DEF Lesser
  <2>2. n \in Nat /\ s[0] \in Int
    BY <1>1, <1>9
  <2> QED BY <2>1, <2>2, StaysIn
<1> QED BY <1>9, <1>10 DEF IsIdeal, s, B, n

LEMMA IdealServiceIsNext == TypeOK' => IsIdeal(IdealService', slots', offered')
<1> DEFINE P == IsIdeal(IdealService, slots, offered)
<1>1. TypeOK => P
  BY IdealServiceIs
<1>2. TypeOK' => P'
  <2> HIDE DEF P
  <2> QED BY <1>1, PTL
<1>3. P' <=> IsIdeal(IdealService', slots', offered')
  BY DEF IsIdeal, ArrivedIn, SumOf, Lesser
<1> QED BY <1>2, <1>3

\* One more opportunity changes nothing of what was sent before it.
LEMMA IdealExtends ==
  ASSUME NEW sl \in Seq(Nat), NEW t \in Nat, NEW o, NEW f, NEW g,
         IsIdeal(f, sl, o), IsIdeal(g, Append(sl, t), o)
  PROVE  /\ \A k \in 0..Len(sl) : g[k] = f[k]
         /\ g[Len(sl) + 1] = Lesser(f[Len(sl)] + PACKET_SIZE, ArrivedIn(o, t))
<1> DEFINE n == Len(sl)
<1> DEFINE r == Append(sl, t)
<1>1. n \in Nat /\ Len(r) = n + 1 /\ r[n + 1] = t /\ (\A k \in 1..n : r[k] = sl[k])
      /\ n + 1 \in 1..Len(r) /\ (n + 1) - 1 = n /\ (\A k \in 1..n : k \in 1..Len(r)) /\ n \in 0..n
  OBVIOUS
<1> HIDE DEF r
<1>2. \A k \in 1..n : g[k - 1] = f[k - 1] => g[k] = f[k]
  <2> TAKE k \in 1..n
  <2>1. f[k] = Lesser(f[k - 1] + PACKET_SIZE, ArrivedIn(o, sl[k]))
    BY DEF IsIdeal
  <2>2. g[k] = Lesser(g[k - 1] + PACKET_SIZE, ArrivedIn(o, r[k]))
    BY <1>1 DEF IsIdeal, r
  <2> QED BY <1>1, <2>1, <2>2
<1>3. g[0] = f[0]
  BY DEF IsIdeal
<1>4. \A k \in 0..n : g[k] = f[k]
  <2>1. n \in Nat
    BY <1>1
  <2> HIDE DEF n
  <2>2. Lockstep(n, g, f)
    BY <1>2, <1>3 DEF Lockstep
  <2>3. Agree(n, g, f)
    BY <2>1, <2>2, LockstepAgree
  <2> QED BY <2>3 DEF Agree
<1>5. g[n + 1] = Lesser(g[n] + PACKET_SIZE, ArrivedIn(o, t))
  BY <1>1 DEF IsIdeal, r
<1> QED BY <1>1, <1>4, <1>5

\* Nor does a packet that arrives no earlier than every opportunity so far.
LEMMA IdealUnmoved ==
  ASSUME NEW sl \in Seq(Nat), NEW o \in Seq(Packet), NEW p \in Packet, NEW f, NEW g,
         \A k \in 1..Len(sl) : sl[k] <= p.arrival,
         IsIdeal(f, sl, o), IsIdeal(g, sl, Append(o, p))
  PROVE  \A k \in 0..Len(sl) : g[k] = f[k]
<1>1. \A k \in 1..Len(sl) : ArrivedIn(Append(o, p), sl[k]) = ArrivedIn(o, sl[k])
  <2>1. \A k \in 1..Len(sl) : sl[k] \in Int
    BY ElementOf
  <2> QED BY <2>1, ArrivedLater
<1>2. \A k \in 1..Len(sl) : g[k - 1] = f[k - 1] => g[k] = f[k]
  BY <1>1 DEF IsIdeal
<1>3. g[0] = f[0] /\ Len(sl) \in Nat
  BY DEF IsIdeal
<1> DEFINE n == Len(sl)
<1> HIDE DEF n
<1>4. n \in Nat /\ Lockstep(n, g, f)
  BY <1>2, <1>3 DEF n, Lockstep
<1>5. Agree(n, g, f)
  BY <1>4, LockstepAgree
<1> QED BY <1>5 DEF n, Agree

-----------------------------------------------------------------------------
\* How much of what was offered has left the link, in bytes.
Sent == SumSizes(Departed)
        + (IF bytes_left = 0 THEN 0 ELSE packet_in_transit.size - bytes_left)

\* Nothing is dropped; every opportunity used up is in the past, and every
\* packet offered arrived before the next one.
SlotsArePast ==
  /\ drops.bytes = 0
  /\ pc \in {"rationalize", "send"} => call.now = now
  /\ \A k \in 1..Len(slots) : slots[k] <= now
  /\ ~finished => \A i \in 1..Len(offered) : offered[i].arrival < next_delivery_time

\* One of the opportunities sl is at that time and carries byte x, when the
\* server has sent f[k] bytes by the k-th.
CarriedAt(time, x, sl, f) ==
  \E k \in 1..Len(sl) : time = sl[k] /\ f[k - 1] < x /\ x <= f[k]

\* Between opportunities the link has sent what the ideal server has; during
\* one, it is short of it by what the opportunity has left or by what waits.
KeepsUp ==
  /\ pc # "send" => Sent = IdealService[Len(slots)]
  /\ pc = "send" =>
       /\ slots # <<>> /\ delivery.time = slots[Len(slots)]
       /\ ArrivedIn(offered, delivery.time) = SumSizes(offered)
       /\ Sent + delivery.left = IdealService[Len(slots) - 1] + PACKET_SIZE
  /\ \A i \in 1..Len(departures) :
       CarriedAt(departures[i].time, SumSizes(SubSeq(Departed, 1, i)), slots, IdealService)

\* The beginnings of a sequence are those of a longer one.
LEMMA Beginnings ==
  ASSUME NEW s \in Seq(Packet), NEW t \in Seq(Packet), Len(t) = Len(s) + 1,
         \A i \in 1..Len(s) : t[i] = s[i]
  PROVE  /\ \A i \in 1..Len(s) : SubSeq(t, 1, i) = SubSeq(s, 1, i)
         /\ SubSeq(t, 1, Len(t)) = t
<1>1. ASSUME NEW i \in 1..Len(s) PROVE SubSeq(t, 1, i) = SubSeq(s, 1, i)
  OBVIOUS
<1>2. SubSeq(t, 1, Len(t)) = t
  OBVIOUS
<1> QED BY <1>1, <1>2

LEMMA SizesNat ==
  ASSUME NEW s \in Seq(Packet)
  PROVE  SumSizes(s) >= 0
<1> DEFINE v == <<>>
<1> DEFINE w == [i \in 1..Len(s) |-> s[i].size]
<1>1. v \in Seq(Int) /\ Len(v) = 0
  OBVIOUS
<1>2. w \in Seq(Int) /\ Len(w) = Len(s) /\ Len(s) \in Nat
  BY SizesOf
<1>3. \A i \in 1..Len(w) : 0 <= w[i]
  <2>1. \A i \in 1..Len(s) : s[i] \in Packet
    BY ElementOf
  <2> QED BY <1>2, <2>1 DEF Packet
<1>4. SumOf(v) = 0
  BY SumEmpty
<1> HIDE DEF v, w
<1>5. (Len(v) + 1)..Len(w) = 1..Len(w) /\ Len(v) <= Len(w) /\ 1..Len(v) = {}
  BY <1>1, <1>2
<1>6. SumOf(v) <= SumOf(w)
  BY <1>1, <1>2, <1>3, <1>5, SumMonotone
<1>7. SumOf(w) \in Int
  BY <1>2, SumType
<1> QED BY <1>4, <1>6, <1>7 DEF SumSizes, w

\* No more is sent than was offered, and all of it when nothing waits.
SentOK ==
  /\ Sent \in Int /\ SumSizes(offered) \in Int
  /\ Sent <= SumSizes(offered)
  /\ (bytes_left = 0 /\ Empty(packet_queue)) => Sent = SumSizes(offered)

LEMMA SentWithinOffered ==
  ASSUME IInv, Conservation, drops.bytes = 0
  PROVE  SentOK
<1> DEFINE sd == SumSizes(Departed)
<1> DEFINE sq == SumSizes(packet_queue.pkts)
<1> DEFINE it == packet_in_transit.size
<1>1. SumSizes(offered) = sd + SumSizes(Waiting)
      /\ SumSizes(Waiting) = sq + (IF bytes_left = 0 THEN 0 ELSE it)
  <2>1. SumSizes(offered) = sd + SumSizes(Waiting) + drops.bytes
    BY DEF IInv, AssertionsHold, Conservation
  <2>2. SumSizes(Waiting) = sq + (IF bytes_left = 0 THEN 0 ELSE it) /\ sq \in Int /\ it \in Nat
    BY WaitingSizes DEF WaitingSizesOK
  <2>3. sd \in Int
    BY DepartedIsSeq, SizesOf DEF IInv, DepartedOK
  <2> HIDE DEF sd, sq, it
  <2> QED BY <2>1, <2>2, <2>3
<1>2. sd \in Int /\ sq \in Int /\ sq >= 0 /\ it \in Nat
  <2>1. packet_queue.pkts \in Seq(Packet)
    BY WaitingIsSeq
  <2> QED BY <2>1, DepartedIsSeq, WaitingSizes, SizesOf, SizesNat DEF IInv, DepartedOK, WaitingSizesOK
<1>3. bytes_left \in Nat /\ bytes_left <= it
  <2>1. bytes_left \in 0..PACKET_SIZE
    BY DEF IInv, TypeOK
  <2> QED BY <2>1, LinkAssumption DEF IInv, TransitFits
<1>4. Empty(packet_queue) => sq = 0
  BY SizesEmpty DEF Empty
<1>5. Sent = sd + (IF bytes_left = 0 THEN 0 ELSE it - bytes_left)
  BY DEF Sent
<1> HIDE DEF sd, sq, it
<1> QED BY <1>1, <1>2, <1>3, <1>4, <1>5 DEF SentOK

-----------------------------------------------------------------------------
\* Steps between opportunities that neither offer nor send.
LEMMA QuietKeepsUp ==
  ASSUME TypeOK, TypeOK', SlotsArePast, KeepsUp,
         UNCHANGED <<trace, position, link, offered, slots, departures, drops>>,
         pc # "send", pc' # "send", now <= now', pc' = "rationalize" => call'.now = now'
  PROVE  SlotsArePast' /\ KeepsUp'
<1>1. IdealService' = IdealService
  BY DEF IdealService, BytesArrivedBefore, SumOf, Lesser
<1>2. Departed' = Departed /\ bytes_left' = bytes_left /\ packet_in_transit' = packet_in_transit
  BY DEF Departed, link
<1>3. Sent' = Sent
  BY <1>2 DEF Sent, SumSizes
<1>4. KeepsUp'
  <2>1. \A i \in 1..Len(departures) :
          CarriedAt(departures[i].time, SumSizes(SubSeq(Departed, 1, i)), slots, IdealService)
    BY DEF KeepsUp
  <2>2. \A i \in 1..Len(departures') :
          CarriedAt(departures[i].time, SumSizes(SubSeq(Departed, 1, i)), slots, IdealService)'
    BY <1>1, <1>2, <2>1 DEF CarriedAt, SumSizes
  <2> QED BY <1>1, <1>3, <2>2 DEF KeepsUp
<1>5. \A k \in 1..Len(slots) : slots[k] <= now'
  <2>1. \A k \in 1..Len(slots) : slots[k] \in Nat /\ slots[k] <= now
    BY ElementOf DEF TypeOK, SlotsArePast
  <2>2. now \in Nat /\ now' \in Nat
    BY DEF TypeOK
  <2> QED BY <2>1, <2>2
<1>6. SlotsArePast'
  BY <1>5 DEF SlotsArePast, next_delivery_time, position, trace
<1> QED BY <1>4, <1>6

\* An opportunity that comes due: everything offered arrived before it.
LEMMA UseKeepsUp ==
  ASSUME TypeOK, TypeOK', SlotsArePast, KeepsUp, UseADeliveryOpportunity
  PROVE  SlotsArePast' /\ KeepsUp'
<1> DEFINE n == Len(slots)
<1> DEFINE t == next_delivery_time
<1>1. /\ pc = "rationalize" /\ pc' = "send" /\ ~finished /\ t <= call.now /\ Advance
      /\ slots' = Append(slots, t)
      /\ delivery' = [time |-> t, left |-> PACKET_SIZE]
      /\ UNCHANGED <<now, trace, link, call, offered, departures, drops>>
  BY DEF UseADeliveryOpportunity, Due
<1>2. /\ t \in Nat /\ slots \in Seq(Nat) /\ offered \in Seq(Packet) /\ now \in Nat
      /\ PACKET_SIZE \in Nat
  BY NextTimeIsNat, LinkAssumption DEF TypeOK
<1>3. /\ n \in Nat /\ Len(slots') = n + 1 /\ slots'[n + 1] = t
      /\ \A k \in 1..n : slots'[k] = slots[k]
  BY <1>1, <1>2
<1>4. ~finished' => t <= next_delivery_time' /\ next_delivery_time' \in Nat
  <2>1. ~finished' => t <= next_delivery_time'
    BY <1>1, AdvanceMovesOn
  <2> QED BY <2>1, NextTimeIsNatNext
<1>5. \A i \in 1..Len(offered) : offered[i].arrival < t /\ offered[i].arrival \in Nat
  <2>1. \A i \in 1..Len(offered) : offered[i] \in Packet
    BY <1>2, ElementOf
  <2> QED BY <1>1, <2>1 DEF SlotsArePast, Packet
<1> DEFINE f == IdealService
<1> DEFINE g == IdealService'
<1>6. IsIdeal(f, slots, offered) /\ IsIdeal(g, Append(slots, t), offered)
  BY <1>1, IdealServiceIs, IdealServiceIsNext
<1>7. SlotsArePast'
  <2>1. t <= now
    BY <1>1 DEF SlotsArePast
  <2>2. \A k \in 1..Len(slots') : slots'[k] <= now'
    <3> TAKE k \in 1..Len(slots')
    <3>1. k \in 1..n \/ k = n + 1
      BY <1>3
    <3> QED BY <1>1, <1>3, <2>1, <3>1 DEF SlotsArePast
  <2>3. ~finished' => \A i \in 1..Len(offered') : offered'[i].arrival < next_delivery_time'
    <3> DEFINE u == next_delivery_time'
    <3>1. ~finished' => t <= u /\ u \in Nat
      BY <1>4
    <3> HIDE DEF u, t
    <3>2. ~finished' => \A i \in 1..Len(offered) : offered[i].arrival < u
      BY <1>2, <1>5, <3>1
    <3> QED BY <1>1, <3>2 DEF u
  <2> QED BY <1>1, <2>2, <2>3 DEF SlotsArePast
<1> HIDE DEF f, g, t
<1>8. (\A k \in 0..n : g[k] = f[k]) /\ (\A k \in 0..n : f[k] \in Int)
  <2>1. \A k \in 0..n : g[k] = f[k]
    BY <1>2, <1>6, IdealExtends
  <2>2. \A k \in 0..n : f[k] \in Int
    BY <1>6 DEF IsIdeal
  <2> QED BY <2>1, <2>2
<1>9. Sent' = Sent /\ Departed' = Departed
  <2>1. Departed' = Departed /\ bytes_left' = bytes_left /\ packet_in_transit' = packet_in_transit
    BY <1>1 DEF Departed, link
  <2> QED BY <2>1 DEF Sent, SumSizes
<1>10. Sent' + delivery'.left = g[Len(slots') - 1] + PACKET_SIZE
  <2>1. Sent = f[n]
    BY <1>1 DEF KeepsUp, f
  <2>2. Len(slots') - 1 = n /\ n \in 0..n
    BY <1>3
  <2> QED BY <1>1, <1>8, <1>9, <2>1, <2>2
<1>11. ArrivedIn(offered, t) = SumSizes(offered)
  BY <1>2, <1>5, ArrivedAll
<1>12. ArrivedIn(offered', delivery'.time) = SumSizes(offered')
  BY <1>1, <1>11 DEF ArrivedIn, SumSizes
<1>13. \A i \in 1..Len(departures) :
         CarriedAt(departures[i].time, SumSizes(SubSeq(Departed, 1, i)), Append(slots, t), g)
  <2> TAKE i \in 1..Len(departures)
  <2> DEFINE d == departures[i].time
  <2> DEFINE x == SumSizes(SubSeq(Departed, 1, i))
  <2>1. CarriedAt(d, x, slots, f)
    BY DEF KeepsUp, f
  <2> HIDE DEF d, x
  <2>2. PICK k \in 1..n : d = slots[k] /\ f[k - 1] < x /\ x <= f[k]
    BY <2>1 DEF CarriedAt
  <2>3. k \in 1..Len(slots') /\ k \in 0..n /\ k - 1 \in 0..n /\ slots'[k] = slots[k]
    BY <1>3
  <2>4. CarriedAt(d, x, slots', g)
    BY <1>8, <2>2, <2>3 DEF CarriedAt
  <2> QED BY <1>1, <2>4 DEF d, x
<1>14. \A i \in 1..Len(departures') :
         CarriedAt(departures[i].time, SumSizes(SubSeq(Departed, 1, i)), slots, IdealService)'
  BY <1>1, <1>9, <1>13 DEF CarriedAt, SumSizes, g
<1>15. slots' # <<>> /\ delivery'.time = slots'[Len(slots')]
  BY <1>1, <1>3
<1>16. KeepsUp'
  <2>1. ArrivedIn(offered, delivery.time)' = SumSizes(offered)'
    BY <1>12 DEF ArrivedIn, SumSizes
  <2> QED BY <1>1, <1>10, <1>14, <1>15, <2>1 DEF KeepsUp, g
<1> QED BY <1>7, <1>16

\* Bytes of a packet leave: the opportunity has as many fewer left, and the
\* one that completes the packet is the one that carries its last byte.
LEMMA SendBytesKeepsUp ==
  ASSUME IInv, IInv', SlotsArePast, KeepsUp, SentOK', pc = "send", delivery.left > 0,
         NEW p \in Packet, NEW left \in 1..PACKET_SIZE, left <= p.size,
         p.arrival < delivery.time, NEW q, SendBytes(p, left, q),
         Sent = SumSizes(Departed) + (p.size - left)
  PROVE  SlotsArePast' /\ KeepsUp'
<1> DEFINE a == AmountToSend(left)
<1> DEFINE n == Len(slots)
<1> DEFINE f == IdealService
<1> DEFINE sd == SumSizes(Departed)
<1> DEFINE so == SumSizes(offered)
<1> DEFINE dl == delivery.left
<1> DEFINE sz == p.size
<1>1. TypeOK /\ TypeOK'
  BY DEF IInv
<1>2. /\ dl \in 1..PACKET_SIZE /\ PACKET_SIZE \in Nat /\ delivery.time \in Nat
      /\ p.arrival \in Nat /\ sz \in Nat /\ left <= sz
  <2>1. delivery \in [time : Nat, left : 0..PACKET_SIZE]
    BY <1>1 DEF TypeOK
  <2> QED BY <2>1, LinkAssumption DEF Packet
<1>3. TransitAsserts(p, left)
  BY <1>2 DEF TransitAsserts
<1>4. a \in 1..left /\ a \in 1..dl
  BY <1>2 DEF AmountToSend, Lesser
<1>5. /\ packet_in_transit' = p /\ bytes_left' = left - a /\ pc' = "send"
      /\ delivery' = [delivery EXCEPT !.left = @ - a]
      /\ IF bytes_left' # 0
           THEN UNCHANGED departures
           ELSE departures' = Append(departures, [pkt |-> p, time |-> delivery.time])
      /\ UNCHANGED <<now, trace, position, call, offered, slots, drops>>
  BY <1>3 DEF SendBytes
<1>6. SlotsArePast'
  BY <1>5 DEF SlotsArePast, next_delivery_time, position, trace
<1>7. f' = f
  BY <1>5 DEF IdealService, BytesArrivedBefore, SumOf, Lesser
<1>8. delivery'.time = delivery.time /\ delivery'.left = dl - a
  <2>1. delivery \in [time : Nat, left : 0..PACKET_SIZE]
    BY <1>1 DEF TypeOK
  <2> HIDE DEF a
  <2> QED BY <1>5, <2>1
<1>9. /\ slots # <<>> /\ delivery.time = slots[n]
      /\ ArrivedIn(offered, delivery.time) = so
      /\ Sent + dl = f[n - 1] + PACKET_SIZE
      /\ \A i \in 1..Len(departures) :
           CarriedAt(departures[i].time, SumSizes(SubSeq(Departed, 1, i)), slots, f)
  BY DEF KeepsUp
<1>10. /\ IsIdeal(f, slots, offered)
       /\ n \in 1..n /\ n - 1 \in 0..n /\ n \in 0..n
  <2>1. slots \in Seq(Nat)
    BY <1>1 DEF TypeOK
  <2>2. n \in 1..n /\ n - 1 \in 0..n /\ n \in 0..n
    BY <1>9, <2>1
  <2> QED BY <1>1, <2>2, IdealServiceIs
<1>11. f[n] = Lesser(f[n - 1] + PACKET_SIZE, so) /\ f[n - 1] \in Int
  <2> HIDE DEF f, n, so
  <2>1. f[n] = Lesser(f[n - 1] + PACKET_SIZE, ArrivedIn(offered, slots[n])) /\ f[n - 1] \in Int
    BY <1>10 DEF IsIdeal, n
  <2> QED BY <1>9, <2>1
<1>12. /\ Departed \in Seq(Packet) /\ Len(Departed) = Len(departures) /\ sd \in Int
       /\ Len(departures) \in Nat
       /\ \A i \in 1..Len(departures) : Departed[i] = departures[i].pkt
  <2>1. DepartedOK
    BY <1>1, DepartedIsSeq
  <2>2. Departed \in Seq(Packet)
    BY <2>1 DEF DepartedOK
  <2> QED BY <2>1, <2>2, SizesOf DEF DepartedOK
<1>13. Sent = sd + (sz - left) /\ Sent \in Int
  <2> HIDE DEF sd, sz
  <2>1. Sent = sd + (sz - left)
    BY DEF sd, sz
  <2> QED BY <1>2, <1>12, <2>1
<1>14. ArrivedIn(offered, delivery.time)' = SumSizes(offered)'
  BY <1>5, <1>8, <1>9 DEF ArrivedIn, SumSizes
<1>15. Sent' <= so /\ Sent' \in Int /\ so \in Int
  <2>1. SumSizes(offered)' = so
    BY <1>5 DEF SumSizes
  <2> QED BY <2>1 DEF SentOK
<1> HIDE DEF a
<1>16. CASE bytes_left' # 0
  <2>1. departures' = departures /\ Departed' = Departed
    BY <1>5, <1>16 DEF Departed
  <2>2. SumSizes(Departed)' = sd
    BY <2>1 DEF SumSizes
  <2>3. Sent' = sd + (sz - (left - a))
    BY <1>5, <1>16, <2>2 DEF Sent
  <2>4. Sent' + delivery'.left = f[n - 1] + PACKET_SIZE
    <3> DEFINE x == Sent'
    <3> DEFINE y == Sent
    <3> DEFINE z == f[n - 1]
    <3> DEFINE w == delivery'.left
    <3>1. x = sd + (sz - (left - a)) /\ y = sd + (sz - left) /\ y + dl = z + PACKET_SIZE /\ w = dl - a
      BY <1>8, <1>9, <1>13, <2>3
    <3>2. sd \in Int /\ z \in Int
      BY <1>11, <1>12
    <3> HIDE DEF sd, sz, dl, f, n, x, y, z, w
    <3>3. x + w = z + PACKET_SIZE
      BY <1>2, <1>4, <3>1, <3>2
    <3> QED BY <3>3 DEF x, w, z
  <2>5. \A i \in 1..Len(departures') :
          CarriedAt(departures[i].time, SumSizes(SubSeq(Departed, 1, i)), slots, IdealService)'
    BY <1>5, <1>7, <1>9, <2>1 DEF CarriedAt, SumSizes
  <2> QED BY <1>5, <1>6, <1>7, <1>8, <1>9, <1>14, <2>4, <2>5 DEF KeepsUp
<1>17. CASE bytes_left' = 0
  <2> DEFINE e == [pkt |-> p, time |-> delivery.time]
  <2>1. departures \in Seq([pkt : Packet, time : Nat]) /\ e \in [pkt : Packet, time : Nat]
    BY <1>1, <1>2 DEF TypeOK
  <2>2. e.pkt = p /\ e.time = delivery.time /\ departures' = Append(departures, e)
    BY <1>5, <1>17
  <2> HIDE DEF e
  <2> DEFINE m == Len(departures)
  <2> DEFINE D == Departed'
  <2>3. /\ Len(departures') = m + 1 /\ departures'[m + 1] = e
        /\ \A i \in 1..m : departures'[i] = departures[i]
    BY <1>12, <2>1, <2>2
  <2>4. D \in Seq(Packet) /\ Len(D) = m + 1 /\ D[m + 1] = p /\ \A i \in 1..m : D[i] = Departed[i]
    <3>1. DepartedOK'
      BY <1>1, DepartedIsSeqNext
    <3>2. /\ D \in Seq(Packet) /\ Len(D) = m + 1
          /\ \A i \in 1..(m + 1) : D[i] = departures'[i].pkt
      BY <2>3, <3>1 DEF DepartedOK
    <3>3. m + 1 \in 1..(m + 1) /\ \A i \in 1..m : i \in 1..(m + 1)
      BY <1>12
    <3> QED BY <1>12, <2>2, <2>3, <3>2, <3>3
  <2>5. SumSizes(D) = sd + sz
    <3> HIDE DEF D, m
    <3>1. Len(D) = Len(Departed) + 1 /\ D[Len(D)] = p /\ \A i \in 1..Len(Departed) : D[i] = Departed[i]
      BY <1>12, <2>4 DEF m
    <3>2. SumSizes(D) = SumSizes(Departed) + D[Len(D)].size
      BY <1>12, <2>4, <3>1, SizesLast
    <3> QED BY <3>1, <3>2
  <2>6. Sent' = sd + sz
    <3>1. SumSizes(Departed)' = SumSizes(D)
      BY DEF SumSizes
    <3>2. Sent' = SumSizes(D) + 0
      BY <1>17, <3>1 DEF Sent
    <3> HIDE DEF D, sd, sz
    <3> QED BY <1>2, <1>12, <2>5, <3>2
  <2>7. a = left
    BY <1>4, <1>5, <1>17
  <2>8. Sent' = Sent + a
    <3> HIDE DEF sd, sz
    <3> QED BY <1>2, <1>12, <1>13, <2>6, <2>7
  <2>9. Sent' + delivery'.left = f[n - 1] + PACKET_SIZE
    <3> HIDE DEF dl, f, n
    <3> QED BY <1>2, <1>4, <1>8, <1>9, <1>11, <1>13, <2>8
  <2>10. f[n - 1] < Sent' /\ Sent' <= f[n]
    <3> DEFINE x == Sent'
    <3> DEFINE y == Sent
    <3> DEFINE z == f[n - 1]
    <3>1. x = y + a /\ y + dl = z + PACKET_SIZE /\ y \in Int /\ z \in Int /\ x \in Int /\ so \in Int
      BY <1>9, <1>11, <1>13, <1>15, <2>8
    <3>2. x <= so /\ f[n] = Lesser(z + PACKET_SIZE, so)
      BY <1>11, <1>15
    <3> HIDE DEF x, y, z, f, n, so, dl
    <3>3. z < x /\ x <= z + PACKET_SIZE
      BY <1>2, <1>4, <3>1
    <3>4. x <= f[n]
      BY <3>2, <3>3 DEF Lesser
    <3> QED BY <3>3, <3>4 DEF x, z
  <2>11. \A i \in 1..m : SubSeq(D, 1, i) = SubSeq(Departed, 1, i)
    <3> HIDE DEF D
    <3> QED BY <1>12, <2>4, Beginnings
  <2>12. SubSeq(D, 1, m + 1) = D
    <3> HIDE DEF D
    <3> QED BY <1>12, <2>4
  <2>13. \A i \in 1..Len(departures') :
           CarriedAt(departures'[i].time, SumSizes(SubSeq(D, 1, i)), slots, f)
    <3> TAKE i \in 1..Len(departures')
    <3>1. i \in 1..m \/ i = m + 1
      BY <1>12, <2>3
    <3>2. CASE i \in 1..m
      <4> HIDE DEF f, D
      <4> QED BY <1>9, <2>3, <2>11, <3>2
    <3>3. CASE i = m + 1
      <4>1. departures'[i].time = slots[n] /\ SumSizes(SubSeq(D, 1, i)) = Sent'
        BY <1>9, <2>2, <2>3, <2>5, <2>6, <2>12, <3>3
      <4> HIDE DEF f, D
      <4> QED BY <1>10, <2>10, <4>1 DEF CarriedAt
    <3> QED BY <3>1, <3>2, <3>3
  <2>14. \A i \in 1..Len(departures') :
           CarriedAt(departures[i].time, SumSizes(SubSeq(Departed, 1, i)), slots, IdealService)'
    BY <1>5, <1>7, <2>13 DEF CarriedAt, SumSizes
  <2> QED BY <1>5, <1>6, <1>7, <1>8, <1>9, <1>14, <2>9, <2>14 DEF KeepsUp
<1> QED BY <1>16, <1>17

\* When an opportunity is over the link is where the ideal server is: either
\* all of its bytes are used, or there is nothing left to send.
LEMMA OverKeepsUp ==
  ASSUME TypeOK, SlotsArePast, KeepsUp, SentOK, OpportunityOver
  PROVE  SlotsArePast' /\ KeepsUp'
<1> DEFINE n == Len(slots)
<1> DEFINE f == IdealService
<1> DEFINE so == SumSizes(offered)
<1> DEFINE dl == delivery.left
<1>1. /\ pc = "send" /\ pc' = "rationalize"
      /\ dl = 0 \/ (bytes_left = 0 /\ Empty(packet_queue))
      /\ UNCHANGED <<now, trace, position, link, call, offered, slots, departures, drops>>
  BY DEF OpportunityOver, history
<1>2. SlotsArePast'
  BY <1>1 DEF SlotsArePast, next_delivery_time, position, trace
<1>3. f' = f
  BY <1>1 DEF IdealService, BytesArrivedBefore, SumOf, Lesser
<1>4. Departed' = Departed /\ bytes_left' = bytes_left /\ packet_in_transit' = packet_in_transit
  BY <1>1 DEF Departed, link
<1>5. Sent' = Sent
  BY <1>4 DEF Sent, SumSizes
<1>6. /\ slots # <<>> /\ delivery.time = slots[n]
      /\ ArrivedIn(offered, delivery.time) = so
      /\ Sent + dl = f[n - 1] + PACKET_SIZE
      /\ \A i \in 1..Len(departures) :
           CarriedAt(departures[i].time, SumSizes(SubSeq(Departed, 1, i)), slots, f)
  BY <1>1 DEF KeepsUp
<1>7. f[n] = Lesser(f[n - 1] + PACKET_SIZE, so) /\ f[n - 1] \in Int
  <2>1. slots \in Seq(Nat)
    BY DEF TypeOK
  <2>2. n \in 1..n /\ n - 1 \in 0..n
    BY <1>6, <2>1
  <2>3. IsIdeal(f, slots, offered)
    BY IdealServiceIs
  <2> HIDE DEF f, n, so
  <2>4. f[n] = Lesser(f[n - 1] + PACKET_SIZE, ArrivedIn(offered, slots[n])) /\ f[n - 1] \in Int
    BY <2>2, <2>3 DEF IsIdeal, n
  <2> QED BY <1>6, <2>4
<1>8. /\ Sent \in Int /\ so \in Int /\ Sent <= so
      /\ (bytes_left = 0 /\ Empty(packet_queue)) => Sent = so
  BY DEF SentOK
<1>9. dl \in 0..PACKET_SIZE /\ PACKET_SIZE \in Nat
  BY LinkAssumption DEF TypeOK
<1>10. Sent = f[n]
  <2> DEFINE y == Sent
  <2> DEFINE z == f[n - 1]
  <2>1. y \in Int /\ z \in Int /\ so \in Int /\ y <= so /\ y + dl = z + PACKET_SIZE
        /\ f[n] = Lesser(z + PACKET_SIZE, so)
    BY <1>6, <1>7, <1>8
  <2>2. dl = 0 \/ y = so
    BY <1>1, <1>8
  <2> HIDE DEF y, z, f, n, so, dl
  <2>3. y = f[n]
    BY <1>9, <2>1, <2>2 DEF Lesser
  <2> QED BY <2>3 DEF y
<1>11. \A i \in 1..Len(departures') :
         CarriedAt(departures[i].time, SumSizes(SubSeq(Departed, 1, i)), slots, IdealService)'
  BY <1>1, <1>3, <1>4, <1>6 DEF CarriedAt, SumSizes
<1> QED BY <1>1, <1>2, <1>3, <1>5, <1>10, <1>11 DEF KeepsUp

\* A packet that arrives is no earlier than the opportunities used up, and
\* earlier than the next one; without limits it is enqueued.
LEMMA FinishReadKeepsUp ==
  ASSUME Discipline = "infinite", IInv, IInv', SlotsArePast, KeepsUp, FinishRead
  PROVE  SlotsArePast' /\ KeepsUp'
<1> DEFINE p == call.pkt
<1> DEFINE q == packet_queue
<1> DEFINE f == IdealService
<1>1. TypeOK /\ TypeOK' /\ TransitFits /\ pc' # "aborted"
  BY DEF IInv, AssertionsHold
<1>2. /\ pc = "rationalize" /\ call.op = "read" /\ ~Due(call.now) /\ pc' = "idle"
      /\ offered' = Append(offered, p)
      /\ drops' = [packets |-> drops.packets + Missing(Enqueue(q, p), p).packets,
                   bytes |-> drops.bytes + Missing(Enqueue(q, p), p).bytes]
      /\ UNCHANGED <<now, trace, position, packet_in_transit, bytes_left, slots, departures>>
  BY <1>1 DEF FinishRead, CaughtUp
<1>3. p \in Packet /\ p.arrival = now /\ now \in Nat /\ offered \in Seq(Packet) /\ slots \in Seq(Nat)
      /\ p.size \in Nat /\ q.bytes \in Int
  BY <1>1, <1>2 DEF TypeOK, TransitFits, SlotsArePast, Packet, Queue
<1>4. drops'.bytes = 0
  <2>1. PacketLimit = 0 /\ ByteLimit = 0
    BY LimitsAssumption
  <2>2. Enqueue(q, p) = Accept(q, p)
    BY <2>1 DEF Enqueue, EnqueueTail, GoodWith
  <2>3. Missing(Enqueue(q, p), p).bytes = q.bytes + p.size - (q.bytes + p.size)
    BY <2>2 DEF Missing, Accept
  <2>4. drops.bytes = 0
    BY DEF SlotsArePast
  <2> QED BY <1>2, <1>3, <2>3, <2>4
<1>5. \A k \in 1..Len(slots) : slots[k] <= p.arrival
  BY <1>3 DEF SlotsArePast
<1>6. ~finished => p.arrival < next_delivery_time
  <2>1. next_delivery_time \in Nat
    BY <1>1, NextTimeIsNat
  <2>2. call.now = now
    BY <1>2 DEF SlotsArePast
  <2> QED BY <1>2, <1>3, <2>1, <2>2 DEF Due
<1>7. ~finished => \A i \in 1..Len(offered') : offered'[i].arrival < next_delivery_time
  <2>1. \A i \in 1..Len(offered') : offered'[i] = p \/ (i \in 1..Len(offered) /\ offered'[i] = offered[i])
    BY <1>2, <1>3
  <2>2. ~finished => \A i \in 1..Len(offered) : offered[i].arrival < next_delivery_time
    BY DEF SlotsArePast
  <2> QED BY <1>6, <2>1, <2>2
<1>8. SlotsArePast'
  <2>1. next_delivery_time' = next_delivery_time /\ finished' = finished
    BY <1>2 DEF next_delivery_time, position, trace
  <2> QED BY <1>2, <1>4, <1>7, <2>1 DEF SlotsArePast
<1> DEFINE g == IdealService'
<1>9. IsIdeal(f, slots, offered) /\ IsIdeal(g, slots, Append(offered, p))
  BY <1>1, <1>2, IdealServiceIs, IdealServiceIsNext
<1>10. \A k \in 0..Len(slots) : g[k] = f[k]
  <2> HIDE DEF f, g, p
  <2> QED BY <1>3, <1>5, <1>9, IdealUnmoved
<1>11. Departed' = Departed
  BY <1>2 DEF Departed
<1>12. Sent' = Sent
  BY <1>2, <1>11 DEF Sent, SumSizes
<1> HIDE DEF f, g, p
<1>13. Sent = f[Len(slots)] /\ Len(slots) \in 0..Len(slots)
  BY <1>2, <1>3 DEF KeepsUp, f
<1>14. \A i \in 1..Len(departures) :
         CarriedAt(departures[i].time, SumSizes(SubSeq(Departed, 1, i)), slots, g)
  <2> TAKE i \in 1..Len(departures)
  <2> DEFINE d == departures[i].time
  <2> DEFINE x == SumSizes(SubSeq(Departed, 1, i))
  <2>1. CarriedAt(d, x, slots, f)
    BY DEF KeepsUp, f
  <2> HIDE DEF d, x
  <2>2. PICK k \in 1..Len(slots) : d = slots[k] /\ f[k - 1] < x /\ x <= f[k]
    BY <2>1 DEF CarriedAt
  <2>3. k \in 0..Len(slots) /\ k - 1 \in 0..Len(slots)
    BY <1>3
  <2>4. CarriedAt(d, x, slots, g)
    BY <1>10, <2>2, <2>3 DEF CarriedAt
  <2> QED BY <2>4 DEF d, x
<1>15. \A i \in 1..Len(departures') :
         CarriedAt(departures[i].time, SumSizes(SubSeq(Departed, 1, i)), slots, IdealService)'
  BY <1>2, <1>11, <1>14 DEF CarriedAt, SumSizes, g
<1>16. Sent' = IdealService'[Len(slots')]
  BY <1>2, <1>10, <1>12, <1>13 DEF g
<1>17. KeepsUp'
  BY <1>2, <1>15, <1>16 DEF KeepsUp
<1> QED BY <1>8, <1>17

LEMMA SentOKNext == (IInv /\ Conservation /\ drops.bytes = 0)' => SentOK'
<1>1. IInv /\ Conservation /\ drops.bytes = 0 => SentOK
  BY SentWithinOffered
<1> QED BY <1>1, PTL

LEMMA StepKeepsUp ==
  ASSUME Discipline = "infinite", ClockNotSetBack, IInv, IInv', Conservation, Conservation',
         SlotsArePast, KeepsUp, [Next]_vars
  PROVE  SlotsArePast' /\ KeepsUp'
<1>0. TypeOK /\ TypeOK'
  BY DEF IInv
<1>a. now \in Nat /\ now <= now
  BY <1>0 DEF TypeOK
<1>1. CASE Tick
  <2>1. PICK d \in ClockSteps : now' = now + d
    BY <1>1 DEF Tick
  <2>2. now <= now'
    BY <1>a, <2>1, LinkAssumption DEF ClockNotSetBack
  <2> QED BY <1>0, <1>1, <2>2, QuietKeepsUp DEF Tick, history
<1>2. CASE \E size \in Sizes : ReadPacket(size)
  <2>1. PICK size \in Sizes : ReadPacket(size)
    BY <1>2
  <2>2. pc = "idle" /\ pc' # "send" /\ now' = now /\ (pc' = "rationalize" => call'.now = now')
    BY <2>1 DEF ReadPacket
  <2>3. UNCHANGED <<trace, position, link, offered, slots, departures, drops>>
    BY <2>1 DEF ReadPacket, history
  <2> QED BY <1>0, <1>a, <2>2, <2>3, QuietKeepsUp
<1>3. CASE WaitTime
  BY <1>0, <1>a, <1>3, QuietKeepsUp DEF WaitTime, history
<1>4. CASE WritePackets
  BY <1>0, <1>a, <1>4, QuietKeepsUp DEF WritePackets
<1>5. CASE UseADeliveryOpportunity
  BY <1>0, <1>5, UseKeepsUp
<1>6. CASE SendInTransit
  <2>1. /\ TransitFits /\ PendingInTime /\ pc = "send" /\ delivery.left > 0 /\ bytes_left # 0
        /\ SendBytes(packet_in_transit, bytes_left, packet_queue)
    BY <1>6 DEF IInv, SendInTransit
  <2>2. packet_in_transit \in Packet /\ bytes_left \in 1..PACKET_SIZE
    BY <1>0, <2>1 DEF TypeOK
  <2>3. bytes_left <= packet_in_transit.size /\ packet_in_transit.arrival < delivery.time
    BY <2>1 DEF TransitFits, PendingInTime, PendingBefore
  <2>4. Sent = SumSizes(Departed) + (packet_in_transit.size - bytes_left)
    BY <2>1 DEF Sent
  <2>5. (drops.bytes)' = 0
    BY <2>1 DEF SendBytes, SlotsArePast
  <2> QED BY <2>1, <2>2, <2>3, <2>4, <2>5, SentOKNext, SendBytesKeepsUp
<1>7. CASE SendNext
  <2> DEFINE p == Head(packet_queue.pkts)
  <2> DEFINE q == Pop(packet_queue)
  <2>1. /\ PendingInTime /\ Within(packet_queue)
        /\ pc = "send" /\ delivery.left > 0 /\ bytes_left = 0 /\ ~Empty(packet_queue)
    BY <1>7 DEF IInv, SendNext
  <2>2. /\ Within(q) /\ p \in Packet /\ p.size \in 1..PACKET_SIZE /\ p = packet_queue.pkts[1]
    BY <2>1, PopWithin
  <2>3. SendBytes(p, p.size, q)
    BY <1>7, <2>1, <2>2 DEF SendNext, DequeueAsserts, Within
  <2>4. packet_queue.pkts \in Seq(Packet) /\ packet_queue.pkts # <<>>
    BY <2>1, WaitingIsSeq DEF Empty
  <2>5. p.arrival < delivery.time
    <3>1. 1 \in 1..Len(packet_queue.pkts)
      BY <2>4
    <3> QED BY <2>1, <2>2, <3>1 DEF PendingInTime, PendingBefore
  <2>6. Sent = SumSizes(Departed) + (p.size - p.size) /\ p.size <= p.size
    <3>1. Sent = SumSizes(Departed) + 0
      BY <2>1 DEF Sent
    <3>2. p.size - p.size = 0 /\ p.size <= p.size
      BY <2>2, LinkAssumption
    <3> QED BY <3>1, <3>2
  <2>7. (drops.bytes)' = 0
    BY <2>3 DEF SendBytes, SlotsArePast
  <2>8. SentOK'
    BY <2>7, SentOKNext
  <2> HIDE DEF p, q
  <2> QED BY <2>1, <2>2, <2>3, <2>5, <2>6, <2>8, SendBytesKeepsUp
<1>8. CASE OpportunityOver
  <2>1. SentOK
    BY SentWithinOffered DEF SlotsArePast
  <2> QED BY <1>0, <1>8, <2>1, OverKeepsUp
<1>9. CASE FinishRead
  BY <1>9, FinishReadKeepsUp
<1>10. CASE FinishWait
  BY <1>0, <1>a, <1>10, QuietKeepsUp DEF FinishWait, history
<1>11. CASE UNCHANGED vars
  <2>1. UNCHANGED <<now, pc, call, delivery, trace, position, link, offered, slots, departures, drops>>
    BY <1>11 DEF vars, history
  <2>2. IdealService' = IdealService /\ Departed' = Departed
    BY <2>1 DEF IdealService, BytesArrivedBefore, SumOf, Lesser, Departed
  <2>3. Sent' = Sent
    BY <2>1, <2>2 DEF Sent, SumSizes, link
  <2>4. SlotsArePast'
    BY <2>1 DEF SlotsArePast, next_delivery_time, position, trace
  <2>5. KeepsUp'
    BY <2>1, <2>2, <2>3 DEF KeepsUp, CarriedAt, ArrivedIn, SumSizes
  <2> QED BY <2>4, <2>5
<1> QED
  BY <1>1, <1>2, <1>3, <1>4, <1>5, <1>6, <1>7, <1>8, <1>9, <1>10, <1>11 DEF Next, Rationalize

LEMMA InitKeepsUp == Init => SlotsArePast /\ KeepsUp
<1> SUFFICES ASSUME Init PROVE SlotsArePast /\ KeepsUp
  OBVIOUS
<1>1. /\ pc = "idle" /\ offered = <<>> /\ slots = <<>> /\ departures = <<>> /\ bytes_left = 0
      /\ drops.bytes = 0
  BY DEF Init
<1>2. SlotsArePast
  BY <1>1 DEF SlotsArePast
<1>3. Departed = <<>>
  BY <1>1 DEF Departed
<1>4. Sent = 0
  BY <1>1, <1>3, SizesEmpty DEF Sent
<1>5. IdealService[0] = 0
  BY Initially, IdealServiceIs DEF IInv, IsIdeal
<1>6. KeepsUp
  BY <1>1, <1>4, <1>5 DEF KeepsUp
<1> QED BY <1>2, <1>6

LEMMA KeepsUpIsIdeal == KeepsUp => IdealLink
BY DEF KeepsUp, IdealLink, Sent, CarriedAt

\* IdealLink holds of every state as long as the clock is not set back: a link
\* without limits has sent, byte for byte and opportunity for opportunity, what
\* a server has that takes PACKET_SIZE bytes per opportunity of the trace, for
\* every trace and however late rationalize is called; each departure is
\* stamped with the opportunity that carried its last byte.
THEOREM LinkIsIdeal ==
  ASSUME ClockNotSetBack
  PROVE  Spec => []IdealLink
<1>1. CASE Discipline # "infinite"
  <2>1. IdealLink
    BY <1>1 DEF IdealLink
  <2> QED BY <2>1, PTL
<1>2. CASE Discipline = "infinite"
  <2> DEFINE Inv == IInv /\ Conservation /\ SlotsArePast /\ KeepsUp
  <2>1. OneDropIsEnough
    BY <1>2 DEF OneDropIsEnough
  <2>2. Init => Inv
    BY Initially, InitConserves, InitKeepsUp
  <2>3. Inv /\ [Next]_vars => Inv'
    BY <1>2, <2>1, Inductive, StepConserves, StepKeepsUp
  <2>4. Inv => IdealLink
    BY KeepsUpIsIdeal
  <2> QED BY <2>2, <2>3, <2>4, PTL DEF Spec
<1> QED BY <1>1, <1>2
-----------------------------------------------------------------------------
(***************************************************************************)
(* BinnedLiveGraph, on which a link may show what its queue counts: that a *)
(* value is counted in no bin before the one in which its call began, and  *)
(* in none that has not begun, and that a bin with values is drawn once,   *)
(* with all that was counted in it, for every width of the bins and of the *)
(* graph and however the two threads take turns.                           *)
(***************************************************************************)
\* The bin of a later time is not an earlier bin (current_bin_ = timestamp() / bin_width_ms_).
LEMMA BinsFollowTime ==
  ASSUME LiveGraphConstants, NEW a \in Nat, NEW b \in Nat, a <= b
  PROVE  a \div Width <= b \div Width
<1> DEFINE q == a \div Width
           r == b \div Width
<1>1. q \in Int /\ r \in Int
  BY DEF LiveGraphConstants
<1>2. Width * q <= a /\ b < Width * r + Width
  BY DEF LiveGraphConstants
<1>3. ASSUME r + 1 <= q PROVE FALSE
  <2>1. Width * (r + 1) <= Width * q
    BY <1>1, <1>3 DEF LiveGraphConstants
  <2>2. Width * (r + 1) = Width * r + Width
    BY <1>1 DEF LiveGraphConstants
  <2> QED
    BY <1>1, <1>2, <2>1, <2>2 DEF LiveGraphConstants
<1> QED
  BY <1>1, <1>3

-----------------------------------------------------------------------------
\* The times, of the clock, of the call and of each thread's advance().
TimesOK ==
  /\ clock \in Nat
  /\ adding.began \in 0 .. clock
  /\ ts["main"] \in 0 .. clock
  /\ ts["animator"] \in 0 .. clock
  /\ DOMAIN ts = {"main", "animator"}

\* No bin has begun before its time.
BinOK == bin \in Int /\ bin <= clock \div Width

\* The ferry's thread has the mutex only in its own advance(), which it began after the call.
MutexOK ==
  mutex = "main" => main = "advance" /\ adding.began <= ts["main"]

\* What advance() has achieved is not undone before the value is added.
UpToDate == main = "update" => adding.began \div Width <= bin

GraphInv == LiveGraphConstants /\ TimesOK /\ BinOK /\ MutexOK /\ UpToDate

LEMMA GraphInvStart == LiveGraphConstants /\ GraphInit => GraphInv
<1> SUFFICES ASSUME LiveGraphConstants, GraphInit PROVE GraphInv
  OBVIOUS
<1>1. clock \in Nat /\ clock \div Width \in Int
  BY DEF GraphInit, LiveGraphConstants
<1> QED
  BY <1>1 DEF GraphInit, GraphInv, TimesOK, BinOK, MutexOK, UpToDate, NoAdding, Nobody

\* The bins of the clock, of a call and of an advance() are in the order of their times.
LEMMA BinsInOrder ==
  ASSUME LiveGraphConstants, TimesOK
  PROVE  /\ clock \div Width \in Int /\ adding.began \div Width \in Int
         /\ \A t \in {"main", "animator"} :
              ts[t] \div Width \in Int /\ ts[t] \div Width <= clock \div Width
         /\ adding.began \div Width <= clock \div Width
         /\ adding.began <= ts["main"] => adding.began \div Width <= ts["main"] \div Width
BY BinsFollowTime DEF TimesOK, LiveGraphConstants

\* A bin that ends in advance(), whichever thread calls it, was over.
LEMMA NewBinKept ==
  ASSUME GraphInv, NEW t \in {"main", "animator"}, NewBin(t)
  PROVE  GraphInv'
<1> USE DEF GraphInv
<1>1. TimesOK' /\ MutexOK'
  BY DEF NewBin, ferry, TimesOK, MutexOK
<1>2. BinOK' /\ UpToDate'
  BY BinsInOrder DEF NewBin, ferry, BinOK, UpToDate
<1> QED
  BY <1>1, <1>2

LEMMA LockKept ==
  ASSUME GraphInv, NEW t \in {"main", "animator"}, Lock(t)
  PROVE  GraphInv'
<1> USE DEF GraphInv
<1>1. TimesOK'
  BY DEF Lock, ferry, TimesOK
<1>2. MutexOK'
  BY DEF Lock, ferry, TimesOK, MutexOK, Place
<1>3. BinOK' /\ UpToDate'
  BY DEF Lock, ferry, BinOK, UpToDate
<1> QED
  BY <1>1, <1>2, <1>3

LEMMA GraphInvKept == GraphInv /\ [GraphNext]_graph_vars => GraphInv'
<1> SUFFICES ASSUME GraphInv, [GraphNext]_graph_vars PROVE GraphInv'
  OBVIOUS
<1> USE DEF GraphInv
<1>1. CASE TimePasses
  <2>1. TimesOK' /\ MutexOK' /\ UpToDate'
    BY <1>1 DEF TimePasses, ferry, bins, TimesOK, MutexOK, UpToDate
  <2>2. clock \in Nat /\ clock' \in Nat /\ clock <= clock' /\ bin' = bin
    BY <1>1 DEF TimePasses, bins, TimesOK
  <2>3. clock \div Width <= clock' \div Width
    BY <2>2, BinsFollowTime
  <2>4. clock \div Width \in Int /\ clock' \div Width \in Int
    BY <2>2 DEF LiveGraphConstants
  <2>5. bin \in Int /\ bin <= clock \div Width
    BY DEF BinOK
  <2>6. bin' \in Int /\ bin' <= clock' \div Width
    <3> DEFINE q == clock \div Width
               r == clock' \div Width
    <3>1. q \in Int /\ r \in Int /\ q <= r /\ bin \in Int /\ bin <= q /\ bin' = bin
      BY <2>2, <2>3, <2>4, <2>5
    <3> HIDE DEF q, r
    <3>2. bin' <= r
      BY <3>1
    <3> QED
      BY <3>1, <3>2 DEF r
  <2>7. BinOK'
    BY <2>6 DEF BinOK
  <2> QED
    BY <2>1, <2>7
<1>2. CASE Construct \/ FirstPoint \/ Destroy \/ Join
  BY <1>2
     DEF Construct, FirstPoint, Destroy, Join, bins, TimesOK, BinOK, MutexOK, UpToDate
<1>3. ASSUME NEW amount \in Amounts, Call(amount) PROVE GraphInv'
  BY <1>3 DEF Call, bins, TimesOK, BinOK, MutexOK, UpToDate
<1>4. CASE Lock("main") \/ Lock("animator")
  BY <1>4, LockKept
<1>5. CASE NewBin("main") \/ NewBin("animator")
  BY <1>5, NewBinKept
<1>6. CASE MainAdvanced
  <2>1. TimesOK' /\ BinOK' /\ MutexOK'
    BY <1>6 DEF MainAdvanced, Advanced, Nobody, TimesOK, BinOK, MutexOK
  <2>2. UpToDate'
    BY <1>6, BinsInOrder DEF MainAdvanced, Advanced, BinOK, MutexOK, UpToDate
  <2> QED
    BY <2>1, <2>2
<1>7. CASE Update
  BY <1>7 DEF Update, NoAdding, Nobody, TimesOK, BinOK, MutexOK, UpToDate
<1>8. CASE NewBinTooEarly
  BY <1>8 DEF NewBinTooEarly, Nobody, TimesOK, BinOK, MutexOK, UpToDate
<1>9. CASE AnimatorAdvanced
  BY <1>9 DEF AnimatorAdvanced, Advanced, Nobody, ferry, TimesOK, BinOK, MutexOK, UpToDate
<1>10. CASE Draw
  BY <1>10 DEF Draw, ferry, TimesOK, BinOK, MutexOK, UpToDate
<1>11. CASE Loop \/ Present \/ Shown \/ XEvent \/ UNCHANGED graph_vars
  BY <1>11
     DEF Loop, Present, Shown, XEvent, graph_vars, ferry, bins, TimesOK,
         BinOK, MutexOK, UpToDate
<1> QED
  BY <1>1, <1>2, <1>3, <1>4, <1>5, <1>6, <1>7, <1>8, <1>9, <1>10, <1>11 DEF GraphNext, Main, Animator

-----------------------------------------------------------------------------
\* Only Update counts a value, in a bin that is then up to date.
LEMMA StepCountsOnTime ==
  ASSUME GraphInv, [GraphNext]_graph_vars, landed' # landed
  PROVE  adding.began \div Width <= bin /\ bin <= clock \div Width
<1>1. Update
  BY DEF GraphNext, Main, Animator, TimePasses, Construct, FirstPoint, Destroy,
         Join, Call, Lock, NewBin,
         MainAdvanced, NewBinTooEarly, AnimatorAdvanced, Draw, Loop, Present,
         Shown, XEvent,
         graph_vars, ferry
<1> QED
  BY <1>1 DEF Update, GraphInv, UpToDate, BinOK

\* add_value_now and set_max_value_now (binned_livegraph.cc:97-121) give up the lock
\* between advance() and the update, and yet count a value in no bin before that of
\* the call, nor in one that has not begun.
THEOREM CountsOnTime == GraphSpec => CountedOnTime
<1>1. GraphInv /\ [GraphNext]_graph_vars =>
        [landed' # landed => adding.began \div Width <= bin /\ bin <= clock \div Width]_graph_vars
  BY StepCountsOnTime
<1> QED
  BY <1>1, LiveGraphAssumption, GraphInvStart, GraphInvKept, PTL DEF GraphSpec, CountedOnTime

-----------------------------------------------------------------------------
(***************************************************************************)
(* What the points show.  The state is an argument, so that the lemmas     *)
(* about one state hold for the next as well.                              *)
(***************************************************************************)
Landed == [amount : Nat, bin : Nat]

\* The calls l that landed in bin b, and their total.
In(l, b) == {x \in DOMAIN l : l[x].bin = b}
Share(l, b) == [x \in DOMAIN l |-> IF l[x].bin = b THEN l[x].amount ELSE 0]
TotalOf(l, b) == SumOf(Share(l, b))

\* A value v is that of bin b: of a bin without calls, what a new bin begins with, or 0.
RightFor(k, l, b, v) ==
  IF k = "rate" THEN v = TotalOf(l, b)
  ELSE \/ In(l, b) = {} /\ v <= 0
       \/ /\ \E x \in In(l, b) : v = l[x].amount
          /\ \A x \in In(l, b) : l[x].amount <= v

\* The value of the bin B that has not ended is right, and nothing is counted ahead of it.
CurrentFor(k, l, B, v) ==
  /\ RightFor(k, l, B, v)
  /\ \A b \in Nat : B < b => In(l, b) = {} /\ TotalOf(l, b) = 0

\* The time at which the point of a bin is drawn.
End(b) == (b + 1) * Width

\* The points p are of bins that have ended, one of each, with its value; they are there
\* as long as they are on the screen.
PointsFor(k, l, B, p, t) ==
  /\ \A i \in DOMAIN p : p[i][1] = 0 \/ \E b \in 0 .. B - 1 : p[i][1] = End(b)
  /\ \A i \in DOMAIN p : \A b \in 0 .. B - 1 : p[i][1] = End(b) => RightFor(k, l, b, p[i][2])
  /\ \A i, j \in DOMAIN p : p[i][1] = p[j][1] /\ p[i][1] # 0 => i = j
  /\ \A b \in 0 .. B - 1 :
       In(l, b) # {} /\ t - LogicalWidth <= End(b) => \E i \in DOMAIN p : p[i][1] = End(b)

DrawnType ==
  /\ landed \in Seq(Landed) /\ points \in Seq(Nat \X Int)
  /\ value \in Int /\ bin \in Nat /\ adding.amount \in Nat

\* The animation thread has the mutex only in its own advance().
AnimatorMutex == mutex = "animator" => animator = "advance"

\* As long as initialize_new_bin_ was there when it was called.
Drawn ==
  animator # "threw" /\ ~Crashed =>
    CurrentFor(kind, landed, bin, value) /\ PointsFor(kind, landed, bin, points, clock)

DrawnInv == GraphInv /\ DrawnType /\ AnimatorMutex /\ Drawn

-----------------------------------------------------------------------------
\* No two bins have their points at the same time, nor at that of the first point.
LEMMA EndOK ==
  ASSUME LiveGraphConstants
  PROVE  /\ \A b \in Nat : End(b) \in Nat /\ End(b) # 0
         /\ \A a, b \in Nat : End(a) = End(b) => a = b
<1>1. \A b \in Nat : End(b) \in Nat /\ End(b) # 0
  <2> SUFFICES ASSUME NEW b \in Nat PROVE End(b) \in Nat /\ End(b) # 0
    OBVIOUS
  <2>1. End(b) = b * Width + Width /\ b * Width \in Nat
    BY DEF End, LiveGraphConstants
  <2> QED BY <2>1 DEF LiveGraphConstants
<1>2. ASSUME NEW a \in Nat, NEW b \in Nat, a < b PROVE End(a) # End(b)
  <2>1. PICK d \in Nat : b = a + 1 + d
    BY <1>2, b - a - 1 \in Nat
  <2>2. /\ End(a) = a * Width + Width /\ End(b) = a * Width + Width + Width + d * Width
        /\ a * Width \in Nat /\ d * Width \in Nat
    BY <2>1 DEF End, LiveGraphConstants
  <2> QED BY <2>2 DEF LiveGraphConstants
<1>3. \A a, b \in Nat : End(a) = End(b) => a = b
  BY <1>2
<1> QED BY <1>1, <1>3

LEMMA ShareType ==
  ASSUME NEW l \in Seq(Landed), NEW b
  PROVE  Share(l, b) \in Seq(Int) /\ TotalOf(l, b) \in Int /\ DOMAIN l = 1 .. Len(l)
<1>1. DOMAIN l = 1 .. Len(l) /\ Len(l) \in Nat /\ \A x \in 1 .. Len(l) : l[x] \in Landed
  OBVIOUS
<1>2. Share(l, b) \in [1 .. Len(l) -> Int]
  BY <1>1 DEF Share, Landed
<1>3. Share(l, b) \in Seq(Int)
  BY <1>1, <1>2
<1> QED BY <1>1, <1>3, SumType DEF TotalOf

\* A call is added to the total of its bin and to no other.
Adds(l, m, a, B, b) ==
  /\ m \in Seq(Landed)
  /\ TotalOf(m, b) = TotalOf(l, b) + (IF b = B THEN a ELSE 0)
  /\ In(m, b) = IF b = B THEN In(l, b) \cup {Len(m)} ELSE In(l, b)
  /\ \A x \in In(l, b) : m[x] = l[x]
  /\ m[Len(m)].amount = a

LEMMA CountOne ==
  ASSUME NEW l \in Seq(Landed), NEW a \in Nat, NEW B \in Nat, NEW b \in Nat,
         NEW m, m = Append(l, [amount |-> a, bin |-> B])
  PROVE  Adds(l, m, a, B, b)
<1>1. /\ m \in Seq(Landed) /\ Len(m) = Len(l) + 1 /\ Len(l) \in Nat
      /\ DOMAIN l = 1 .. Len(l) /\ DOMAIN m = 1 .. Len(m)
      /\ m[Len(m)] = [amount |-> a, bin |-> B]
      /\ \A x \in 1 .. Len(l) : m[x] = l[x]
  BY DEF Landed
<1>2. Share(l, b) \in Seq(Int) /\ Share(m, b) \in Seq(Int)
  BY <1>1, ShareType
<1>3. /\ Len(Share(l, b)) = Len(l) /\ Len(Share(m, b)) = Len(m)
      /\ \A x \in 1 .. Len(l) : Share(m, b)[x] = Share(l, b)[x]
      /\ Share(m, b)[Len(m)] = IF b = B THEN a ELSE 0
  BY <1>1 DEF Share
<1>4. TotalOf(m, b) = TotalOf(l, b) + (IF b = B THEN a ELSE 0)
  <2> DEFINE v == Share(l, b)
             w == Share(m, b)
  <2>1. v \in Seq(Int) /\ w \in Seq(Int) /\ Len(w) = Len(v) + 1 /\ \A x \in 1 .. Len(v) : w[x] = v[x]
    BY <1>1, <1>2, <1>3
  <2>2. TotalOf(l, b) = SumOf(v) /\ TotalOf(m, b) = SumOf(w) /\ w[Len(w)] = IF b = B THEN a ELSE 0
    BY <1>3 DEF TotalOf
  <2> HIDE DEF v, w
  <2>3. SumOf(w) = SumOf(v) + w[Len(w)]
    BY <2>1, SumLast
  <2> QED BY <2>2, <2>3
<1>5. In(m, b) = IF b = B THEN In(l, b) \cup {Len(m)} ELSE In(l, b)
  BY <1>1 DEF In
<1>6. \A x \in In(l, b) : m[x] = l[x]
  BY <1>1 DEF In
<1>7. m[Len(m)].amount = a
  BY <1>1
<1>8. m \in Seq(Landed)
  BY <1>1
<1> QED BY <1>4, <1>5, <1>6, <1>7, <1>8 DEF Adds

\* What a bin's value is depends on the calls of this bin alone.
LEMMA OtherBins ==
  ASSUME NEW k, NEW l \in Seq(Landed), NEW a \in Nat, NEW B \in Nat, NEW b \in Nat, b # B,
         NEW m, Adds(l, m, a, B, b), NEW v
  PROVE  RightFor(k, m, b, v) <=> RightFor(k, l, b, v)
<1>1. TotalOf(m, b) = TotalOf(l, b) /\ In(m, b) = In(l, b) /\ \A x \in In(l, b) : m[x] = l[x]
  <2>1. TotalOf(l, b) \in Int
    BY ShareType
  <2> QED BY <2>1 DEF Adds
<1> QED BY <1>1 DEF RightFor

\* What add_value_now and set_max_value_now make of the value.
Counted(k, v, a) == IF k = "rate" THEN v + a ELSE IF v < a THEN a ELSE v

LEMMA CountCurrent ==
  ASSUME NEW k, NEW l \in Seq(Landed), NEW a \in Nat, NEW B \in Nat, NEW v \in Int,
         NEW m, \A b \in Nat : Adds(l, m, a, B, b), CurrentFor(k, l, B, v)
  PROVE  CurrentFor(k, m, B, Counted(k, v, a))
<1>1. Adds(l, m, a, B, B) /\ TotalOf(l, B) \in Int
  BY ShareType
<1>2. RightFor(k, l, B, v)
  BY DEF CurrentFor
<1>3. ASSUME k = "rate" PROVE RightFor(k, m, B, Counted(k, v, a))
  <2>1. TotalOf(m, B) = TotalOf(l, B) + a /\ v = TotalOf(l, B)
    BY <1>1, <1>2, <1>3 DEF RightFor, Adds
  <2> QED BY <1>1, <1>3, <2>1 DEF RightFor, Counted
<1>4. ASSUME k # "rate" PROVE RightFor(k, m, B, Counted(k, v, a))
  <2> DEFINE w == Counted(k, v, a)
  <2>1. w = (IF v < a THEN a ELSE v) /\ In(m, B) = In(l, B) \cup {Len(m)}
        /\ m[Len(m)].amount = a /\ \A x \in In(l, B) : m[x] = l[x]
    BY <1>1, <1>4 DEF Counted, Adds
  <2>2. \A x \in In(l, B) : l[x].amount \in Nat
    <3>1. \A x \in DOMAIN l : l[x] \in Landed
      OBVIOUS
    <3> QED BY <3>1 DEF In, Landed
  <2>3. CASE In(l, B) = {} /\ v <= 0
    <3>1. w = a /\ In(m, B) = {Len(m)}
      BY <2>1, <2>3
    <3>2. \E x \in In(m, B) : w = m[x].amount
      BY <2>1, <3>1
    <3>3. \A x \in In(m, B) : m[x].amount <= w
      BY <2>1, <3>1
    <3> QED BY <1>4, <3>2, <3>3 DEF RightFor
  <2>4. CASE (\E x \in In(l, B) : v = l[x].amount) /\ \A x \in In(l, B) : l[x].amount <= v
    <3>1. (\E x \in In(m, B) : w = m[x].amount)
      BY <2>1, <2>4
    <3>2. ASSUME NEW x \in In(m, B) PROVE m[x].amount <= w
      <4>1. CASE x = Len(m)
        BY <2>1, <4>1
      <4>2. CASE x \in In(l, B)
        <5>1. m[x].amount = l[x].amount /\ l[x].amount <= v /\ l[x].amount \in Nat
          BY <2>1, <2>2, <2>4, <4>2
        <5> QED BY <2>1, <5>1
      <4> QED BY <2>1, <4>1, <4>2
    <3> QED BY <1>4, <3>1, <3>2 DEF RightFor
  <2> QED BY <1>2, <1>4, <2>3, <2>4 DEF RightFor
<1>5. ASSUME NEW b \in Nat, B < b PROVE In(m, b) = {} /\ TotalOf(m, b) = 0
  <2>1. Adds(l, m, a, B, b)
    OBVIOUS
  <2>2. In(l, b) = {} /\ TotalOf(l, b) = 0
    BY <1>5 DEF CurrentFor
  <2> QED BY <1>5, <2>1, <2>2 DEF Adds
<1> QED BY <1>3, <1>4, <1>5 DEF CurrentFor

LEMMA CountPoints ==
  ASSUME NEW k, NEW l \in Seq(Landed), NEW a \in Nat, NEW B \in Nat, NEW p, NEW t,
         NEW m, \A b \in Nat : Adds(l, m, a, B, b), PointsFor(k, l, B, p, t)
  PROVE  PointsFor(k, m, B, p, t)
<1>1. ASSUME NEW b \in 0 .. B - 1
      PROVE  (\A v : RightFor(k, m, b, v) <=> RightFor(k, l, b, v)) /\ In(m, b) = In(l, b)
  <2>1. b \in Nat /\ b # B
    BY <1>1
  <2>2. Adds(l, m, a, B, b)
    BY <2>1
  <2>3. \A v : RightFor(k, m, b, v) <=> RightFor(k, l, b, v)
    BY <2>1, <2>2, OtherBins
  <2>4. In(m, b) = In(l, b)
    BY <2>1, <2>2 DEF Adds
  <2> QED BY <2>3, <2>4
<1> QED BY <1>1 DEF PointsFor

\* What a new bin begins with is right for a bin in which nothing has been counted.
NewValue(k) == IF k = "rate" THEN 0 ELSE 0 - 1

LEMMA EndBinCurrent ==
  ASSUME NEW k, NEW l, NEW B \in Nat, NEW v, CurrentFor(k, l, B, v)
  PROVE  CurrentFor(k, l, B + 1, NewValue(k))
<1>1. In(l, B + 1) = {} /\ TotalOf(l, B + 1) = 0
  BY DEF CurrentFor
<1>2. RightFor(k, l, B + 1, NewValue(k))
  BY <1>1 DEF RightFor, NewValue
<1>3. \A b \in Nat : B + 1 < b => B < b
  OBVIOUS
<1> QED BY <1>2, <1>3 DEF CurrentFor

\* The points q are those of p and one more, e.
Extends(p, q, n, e) ==
  /\ q[n] = e /\ n \in DOMAIN q /\ n \notin DOMAIN p
  /\ \A i \in DOMAIN p : i \in DOMAIN q /\ q[i] = p[i]
  /\ \A i \in DOMAIN q : i \in DOMAIN p \/ i = n

LEMMA AppendExtends ==
  ASSUME NEW S, NEW p \in Seq(S), NEW e \in S
  PROVE  Extends(p, Append(p, e), Len(p) + 1, e)
BY DEF Extends

\* A bin that ends gets its point.
LEMMA EndBinPoints ==
  ASSUME LiveGraphConstants, NEW k, NEW l, NEW B \in Nat, NEW v \in Int, NEW p \in Seq(Nat \X Int), NEW t,
         CurrentFor(k, l, B, v), PointsFor(k, l, B, p, t)
  PROVE  PointsFor(k, l, B + 1, Append(p, <<End(B), v>>), t)
<1> DEFINE e == <<End(B), v>>
<1> DEFINE q == Append(p, e)
<1> DEFINE n == Len(p) + 1
<1>0. e \in Nat \X Int /\ e[1] = End(B) /\ e[2] = v
  BY EndOK
<1> HIDE DEF e
<1>1. Extends(p, q, n, e)
  BY <1>0, AppendExtends
<1> HIDE DEF q, n
<1>2. q[n][1] = End(B) /\ q[n][2] = v
  BY <1>0, <1>1 DEF Extends
<1>3. 0 .. (B + 1) - 1 = (0 .. B - 1) \cup {B} /\ B \notin 0 .. B - 1 /\ \A b \in 0 .. B - 1 : b \in Nat
  OBVIOUS
<1>4. \A i \in DOMAIN p : p[i][1] # End(B)
  BY <1>3, EndOK DEF PointsFor
<1>5. RightFor(k, l, B, v)
  BY DEF CurrentFor
<1>6. ASSUME NEW i \in DOMAIN q
      PROVE  /\ q[i][1] = 0 \/ \E b \in 0 .. (B + 1) - 1 : q[i][1] = End(b)
             /\ \A b \in 0 .. (B + 1) - 1 : q[i][1] = End(b) => RightFor(k, l, b, q[i][2])
             /\ \A j \in DOMAIN q : q[i][1] = q[j][1] /\ q[i][1] # 0 => i = j
  <2>1. CASE i \in DOMAIN p
    <3>1. q[i] = p[i]
      BY <1>1, <2>1 DEF Extends
    <3>2. q[i][1] = 0 \/ \E b \in 0 .. (B + 1) - 1 : q[i][1] = End(b)
      BY <1>3, <2>1, <3>1 DEF PointsFor
    <3>3. \A b \in 0 .. (B + 1) - 1 : q[i][1] = End(b) => RightFor(k, l, b, q[i][2])
      BY <1>3, <1>4, <2>1, <3>1 DEF PointsFor
    <3>4. \A j \in DOMAIN q : q[i][1] = q[j][1] /\ q[i][1] # 0 => i = j
      BY <1>1, <1>2, <1>4, <2>1, <3>1 DEF PointsFor, Extends
    <3> QED BY <3>2, <3>3, <3>4
  <2>2. CASE i = n
    <3>1. \A b \in 0 .. (B + 1) - 1 : q[i][1] = End(b) => b = B
      BY <1>2, <1>3, <2>2, EndOK
    <3>2. \A j \in DOMAIN q : q[i][1] = q[j][1] => i = j
      BY <1>1, <1>2, <1>4, <2>2 DEF Extends
    <3> QED BY <1>2, <1>3, <1>5, <2>2, <3>1, <3>2
  <2> QED BY <1>1, <2>1, <2>2 DEF Extends
<1>7. ASSUME NEW b \in 0 .. (B + 1) - 1, In(l, b) # {}, t - LogicalWidth <= End(b)
      PROVE  \E i \in DOMAIN q : q[i][1] = End(b)
  <2>1. CASE b = B
    BY <1>1, <1>2, <2>1 DEF Extends
  <2>2. CASE b \in 0 .. B - 1
    <3>1. PICK i \in DOMAIN p : p[i][1] = End(b)
      BY <1>7, <2>2 DEF PointsFor
    <3> QED BY <1>1, <3>1 DEF Extends
  <2> QED BY <1>3, <2>1, <2>2
<1>8. PointsFor(k, l, B + 1, q, t)
  BY <1>6, <1>7 DEF PointsFor
<1> QED BY <1>8 DEF q, e

\* The point with which the constructor begins is of no bin.
LEMMA FirstPoints ==
  ASSUME LiveGraphConstants, NEW k, NEW l, NEW B \in Nat, NEW p \in Seq(Nat \X Int), NEW t, PointsFor(k, l,
         B, p, t)
  PROVE  PointsFor(k, l, B, Append(p, <<0, 0>>), t)
<1> DEFINE q == Append(p, <<0, 0>>)
<1> DEFINE n == Len(p) + 1
<1>1. Extends(p, q, n, <<0, 0>>)
  BY AppendExtends
<1> HIDE DEF q, n
<1>2. q[n][1] = 0 /\ \A b \in 0 .. B - 1 : End(b) # 0
  BY <1>1, EndOK, SMTT(30) DEF Extends
<1>3. ASSUME NEW i \in DOMAIN q
      PROVE  /\ q[i][1] = 0 \/ \E b \in 0 .. B - 1 : q[i][1] = End(b)
             /\ \A b \in 0 .. B - 1 : q[i][1] = End(b) => RightFor(k, l, b, q[i][2])
             /\ \A j \in DOMAIN q : q[i][1] = q[j][1] /\ q[i][1] # 0 => i = j
  <2>1. CASE i \in DOMAIN p
    <3>1. q[i] = p[i]
      BY <1>1, <2>1 DEF Extends
    <3>2. /\ q[i][1] = 0 \/ \E b \in 0 .. B - 1 : q[i][1] = End(b)
          /\ \A b \in 0 .. B - 1 : q[i][1] = End(b) => RightFor(k, l, b, q[i][2])
      BY <2>1, <3>1 DEF PointsFor
    <3>3. ASSUME NEW j \in DOMAIN q, q[i][1] = q[j][1], q[i][1] # 0 PROVE i = j
      <4>1. j \in DOMAIN p /\ q[j] = p[j]
        BY <1>1, <1>2, <3>3 DEF Extends
      <4> QED BY <2>1, <3>1, <3>3, <4>1 DEF PointsFor
    <3> QED BY <3>2, <3>3
  <2>2. CASE i = n
    BY <1>2, <2>2
  <2> QED BY <1>1, <2>1, <2>2 DEF Extends
<1>4. ASSUME NEW b \in 0 .. B - 1, In(l, b) # {}, t - LogicalWidth <= End(b)
      PROVE  \E i \in DOMAIN q : q[i][1] = End(b)
  <2>1. PICK i \in DOMAIN p : p[i][1] = End(b)
    BY <1>4 DEF PointsFor
  <2> QED BY <1>1, <2>1 DEF Extends
<1> QED BY <1>3, <1>4 DEF PointsFor, q

\* The points q are those of p without the first n.
Drops(p, q, n) ==
  /\ \A i \in DOMAIN q : i \in Int /\ i + n \in DOMAIN p /\ q[i] = p[i + n]
  /\ \A i \in DOMAIN p : i \notin 1 .. n => i - n \in DOMAIN q /\ q[i - n] = p[i]

LEMMA Shift ==
  ASSUME NEW N \in Nat, NEW n \in 0 .. N
  PROVE  /\ \A i \in 1 .. N - n : i \in Int /\ i + n \in 1 .. N
         /\ \A i \in 1 .. N : i \notin 1 .. n => i - n \in 1 .. N - n /\ (i - n) + n = i
OBVIOUS

LEMMA SubSeqDrops ==
  ASSUME NEW S, NEW p \in Seq(S), NEW n \in 0 .. Len(p)
  PROVE  Drops(p, SubSeq(p, n + 1, Len(p)), n)
<1> DEFINE q == SubSeq(p, n + 1, Len(p))
           N == Len(p)
<1>1. N \in Nat /\ n \in 0 .. N /\ DOMAIN p = 1 .. N
  OBVIOUS
<1>2. DOMAIN q = 1 .. N - n /\ \A i \in 1 .. N - n : q[i] = p[i + n]
  OBVIOUS
<1> HIDE DEF q, N
<1>3. /\ \A i \in 1 .. N - n : i \in Int /\ i + n \in 1 .. N
      /\ \A i \in 1 .. N : i \notin 1 .. n => i - n \in 1 .. N - n /\ (i - n) + n = i
  BY <1>1, Shift
<1>4. Drops(p, q, n)
  BY <1>1, <1>2, <1>3 DEF Drops
<1> QED BY <1>4 DEF q

\* Points that have left the screen may go.
LEMMA DropPoints ==
  ASSUME LiveGraphConstants, NEW k, NEW l, NEW B \in Nat, NEW p, NEW q, NEW t \in Nat, NEW n \in Nat,
         Drops(p, q, n),
         \A i \in 1 .. n : p[i][1] < t - LogicalWidth, PointsFor(k, l, B, p, t)
  PROVE  PointsFor(k, l, B, q, t)
<1>1. ASSUME NEW i \in DOMAIN q
      PROVE  /\ q[i][1] = 0 \/ \E b \in 0 .. B - 1 : q[i][1] = End(b)
             /\ \A b \in 0 .. B - 1 : q[i][1] = End(b) => RightFor(k, l, b, q[i][2])
             /\ \A j \in DOMAIN q : q[i][1] = q[j][1] /\ q[i][1] # 0 => i = j
  <2>1. i + n \in DOMAIN p /\ q[i] = p[i + n]
    BY DEF Drops
  <2>2. /\ q[i][1] = 0 \/ \E b \in 0 .. B - 1 : q[i][1] = End(b)
        /\ \A b \in 0 .. B - 1 : q[i][1] = End(b) => RightFor(k, l, b, q[i][2])
    BY <2>1 DEF PointsFor
  <2>3. ASSUME NEW j \in DOMAIN q, q[i][1] = q[j][1], q[i][1] # 0 PROVE i = j
    <3>1. j + n \in DOMAIN p /\ q[j] = p[j + n] /\ i \in Int /\ j \in Int
      BY DEF Drops
    <3>2. i + n = j + n
      BY <2>1, <2>3, <3>1 DEF PointsFor
    <3> QED BY <3>1, <3>2
  <2> QED BY <2>2, <2>3
<1>2. ASSUME NEW b \in 0 .. B - 1, In(l, b) # {}, t - LogicalWidth <= End(b)
      PROVE  \E i \in DOMAIN q : q[i][1] = End(b)
  <2>1. PICK i \in DOMAIN p : p[i][1] = End(b)
    BY <1>2 DEF PointsFor
  <2>2. b \in Nat /\ End(b) \in Nat
    <3>1. b \in Nat
      OBVIOUS
    <3> QED BY <3>1, EndOK
  <2>3. i \notin 1 .. n
    <3> SUFFICES ASSUME i \in 1 .. n PROVE FALSE
      OBVIOUS
    <3>1. End(b) < t - LogicalWidth
      BY <2>1
    <3> QED BY <1>2, <2>2, <3>1 DEF LiveGraphConstants
  <2>4. i - n \in DOMAIN q /\ q[i - n] = p[i]
    BY <2>3 DEF Drops
  <2> QED BY <2>1, <2>4
<1> QED BY <1>1, <1>2 DEF PointsFor

LEMMA LaterPoints ==
  ASSUME LiveGraphConstants, NEW k, NEW l, NEW B \in Nat, NEW p, NEW t \in Nat, NEW u \in Nat, t <= u,
         PointsFor(k, l, B, p, t)
  PROVE  PointsFor(k, l, B, p, u)
<1>1. ASSUME NEW b \in 0 .. B - 1, u - LogicalWidth <= End(b) PROVE t - LogicalWidth <= End(b)
  <2>1. b \in Nat
    OBVIOUS
  <2>2. End(b) \in Nat
    BY <2>1, EndOK
  <2> QED BY <1>1, <2>2 DEF LiveGraphConstants
<1> QED BY <1>1 DEF PointsFor

-----------------------------------------------------------------------------
\* How many points blocking_draw takes out, all of them old.
LEMMA PoppedOK ==
  ASSUME points \in Seq(Nat \X Int)
  PROVE  Popped \in 0 .. Len(points) /\ \A i \in 1 .. Popped : Old(points[i])
<1> DEFINE Fits(k) == /\ k < Len(points) \/ k = 0
                      /\ \A i \in 1 .. k : Old(points[i]) /\ Old(points[i + 1])
           Stops(k) == k + 1 < Len(points) => ~(Old(points[k + 1]) /\ Old(points[k + 2]))
           T == {k \in 0 .. Len(points) : Fits(k)}
<1>1. Len(points) \in Nat
  OBVIOUS
<1>2. PICK k \in T : \A j \in T : j <= k
  <2>1. T \subseteq Nat /\ 0 \in T /\ \A j \in T : j <= Len(points)
    BY <1>1
  <2> HIDE DEF T
  <2> QED BY <1>1, <2>1, GreatestElement
<1>3. Stops(k)
  <2> SUFFICES ASSUME k + 1 < Len(points), Old(points[k + 1]), Old(points[k + 2]) PROVE FALSE
    OBVIOUS
  <2>1. k \in Nat /\ k + 1 \in 0 .. Len(points)
    BY <1>1, <1>2
  <2>2. ASSUME NEW i \in 1 .. k + 1 PROVE Old(points[i]) /\ Old(points[i + 1])
    <3>1. CASE i \in 1 .. k
      BY <1>2, <3>1
    <3>2. CASE i = k + 1
      <4>1. i + 1 = k + 2
        BY <2>1, <3>2
      <4> QED BY <3>2, <4>1
    <3> QED BY <2>1, <3>1, <3>2
  <2>3. k + 1 \in T
    BY <2>1, <2>2
  <2> HIDE DEF T, Fits
  <2> QED BY <1>2, <2>1, <2>3
<1>4. k \in 0 .. Len(points) /\ Fits(k) /\ Stops(k)
  BY <1>2, <1>3
<1>5. Popped = CHOOSE j \in 0 .. Len(points) : Fits(j) /\ Stops(j)
  BY DEF Popped
<1> HIDE DEF Stops
<1>6. Popped \in 0 .. Len(points) /\ Fits(Popped)
  BY <1>4, <1>5
<1> QED BY <1>6

-----------------------------------------------------------------------------
(***************************************************************************)
(* The inductive invariant.                                                *)
(***************************************************************************)
LEMMA DrawnInvStart == LiveGraphConstants /\ GraphInit => DrawnInv
<1> SUFFICES ASSUME LiveGraphConstants, GraphInit PROVE DrawnInv
  OBVIOUS
<1>1. GraphInv
  BY GraphInvStart
<1>2. DrawnType /\ AnimatorMutex
  <2>1. clock \div Width \in Nat
    BY DEF GraphInit, LiveGraphConstants
  <2> QED BY <2>1 DEF GraphInit, DrawnType, AnimatorMutex, NoAdding, Nobody
<1>3. landed = <<>> /\ points = <<>> /\ value = 0
  BY DEF GraphInit
<1>4. \A b : In(landed, b) = {} /\ TotalOf(landed, b) = 0
  <2> SUFFICES ASSUME NEW b PROVE In(landed, b) = {} /\ TotalOf(landed, b) = 0
    OBVIOUS
  <2>1. DOMAIN landed = {} /\ Share(landed, b) = <<>>
    BY <1>3 DEF Share
  <2> QED BY <2>1, SumEmpty DEF In, TotalOf
<1>5. \A k, b : RightFor(k, landed, b, 0)
  BY <1>4 DEF RightFor
<1>6. CurrentFor(kind, landed, bin, value)
  BY <1>3, <1>4, <1>5 DEF CurrentFor
<1>7. PointsFor(kind, landed, bin, points, clock)
  <2>1. DOMAIN points = {}
    BY <1>3
  <2> QED BY <1>4, <2>1 DEF PointsFor
<1> QED BY <1>1, <1>2, <1>6, <1>7 DEF DrawnInv, Drawn

\* A step that leaves the bins and what was counted alone.
LEMMA NothingDrawn ==
  ASSUME GraphInv, DrawnType, Drawn, UNCHANGED <<kind, landed, value, bin, points>>,
         clock' \in Nat, clock <= clock',
         animator' # "threw" => animator # "threw", main' # "crashed" => main # "crashed"
  PROVE  Drawn'
<1> SUFFICES ASSUME animator' # "threw", ~Crashed'
             PROVE  /\ CurrentFor(kind', landed', bin', value')
                    /\ PointsFor(kind', landed', bin', points', clock')
  BY DEF Drawn
<1>1. CurrentFor(kind, landed, bin, value) /\ PointsFor(kind, landed, bin, points, clock)
  BY DEF Drawn, Crashed
<1>2. clock \in Nat /\ bin \in Nat
  BY DEF GraphInv, TimesOK, DrawnType
<1>3. PointsFor(kind, landed, bin, points, clock')
  BY <1>1, <1>2, LaterPoints DEF GraphInv
<1> QED BY <1>1, <1>3

LEMMA NewBinDrawn ==
  ASSUME DrawnInv, NEW t \in {"main", "animator"}, NewBin(t)
  PROVE  DrawnType' /\ Drawn'
<1>1. /\ points' = Append(points, <<End(bin), value>>) /\ value' = NewValue(kind) /\ bin' = bin + 1
      /\ UNCHANGED <<kind, clock, landed, animator, main, adding>>
  BY DEF NewBin, AddPoint, Point, End, NewBinValue, NewValue, ferry
<1>2. /\ landed \in Seq(Landed) /\ points \in Seq(Nat \X Int)
      /\ value \in Int /\ bin \in Nat /\ adding.amount \in Nat
  BY DEF DrawnInv, DrawnType
<1>3. DrawnType'
  <2> DEFINE e == <<End(bin), value>>
  <2>1. e \in Nat \X Int
    BY <1>2, EndOK DEF DrawnInv, GraphInv
  <2> HIDE DEF e
  <2>2. Append(points, e) \in Seq(Nat \X Int)
    BY <1>2, <2>1
  <2>3. NewValue(kind) \in Int
    BY DEF NewValue
  <2>4. points' \in Seq(Nat \X Int)
    BY <1>1, <2>2 DEF e
  <2> QED BY <1>1, <1>2, <2>3, <2>4 DEF DrawnType
<1>4. Drawn'
  <2> SUFFICES ASSUME animator' # "threw", ~Crashed'
               PROVE  /\ CurrentFor(kind', landed', bin', value')
                      /\ PointsFor(kind', landed', bin', points', clock')
    BY DEF Drawn
  <2>1. CurrentFor(kind, landed, bin, value) /\ PointsFor(kind, landed, bin, points, clock)
    BY <1>1 DEF DrawnInv, Drawn, Crashed
  <2>2. CurrentFor(kind, landed, bin + 1, NewValue(kind))
    BY <1>2, <2>1, EndBinCurrent
  <2>3. PointsFor(kind, landed, bin + 1, Append(points, <<End(bin), value>>), clock)
    BY <1>2, <2>1, EndBinPoints DEF DrawnInv, GraphInv
  <2> QED BY <1>1, <2>2, <2>3
<1> QED BY <1>3, <1>4

LEMMA UpdateDrawn ==
  ASSUME DrawnInv, Update
  PROVE  DrawnType' /\ Drawn'
<1> DEFINE a == adding.amount
           r == [amount |-> a, bin |-> bin]
<1>1. /\ landed' = Append(landed, r) /\ value' = Counted(kind, value, a)
      /\ adding'.amount = 0 /\ UNCHANGED <<kind, clock, bin, points, animator>>
      /\ main = "update" /\ main' = "idle"
  BY DEF Update, Counted, NoAdding
<1>2. /\ landed \in Seq(Landed) /\ points \in Seq(Nat \X Int)
      /\ value \in Int /\ bin \in Nat /\ a \in Nat
  BY DEF DrawnInv, DrawnType
<1>3. DrawnType'
  <2>1. r \in Landed
    BY <1>2 DEF Landed
  <2> HIDE DEF r
  <2>2. landed' \in Seq(Landed)
    BY <1>1, <1>2, <2>1
  <2>3. Counted(kind, value, a) \in Int
    BY <1>2 DEF Counted
  <2> QED BY <1>1, <1>2, <2>2, <2>3 DEF DrawnType
<1>4. \A b \in Nat : Adds(landed, landed', a, bin, b)
  BY <1>1, <1>2, CountOne
<1> HIDE DEF a, r
<1>5. Drawn'
  <2> SUFFICES ASSUME animator' # "threw", ~Crashed'
               PROVE  /\ CurrentFor(kind', landed', bin', value')
                      /\ PointsFor(kind', landed', bin', points', clock')
    BY DEF Drawn
  <2>1. CurrentFor(kind, landed, bin, value) /\ PointsFor(kind, landed, bin, points, clock)
    BY <1>1 DEF DrawnInv, Drawn, Crashed
  <2>2. CurrentFor(kind, landed', bin, Counted(kind, value, a))
    BY <1>2, <1>4, <2>1, CountCurrent
  <2>3. PointsFor(kind, landed', bin, points, clock)
    BY <1>2, <1>4, <2>1, CountPoints
  <2> QED BY <1>1, <2>2, <2>3
<1> QED BY <1>3, <1>5

LEMMA FirstPointDrawn ==
  ASSUME DrawnInv, FirstPoint
  PROVE  DrawnType' /\ Drawn'
<1>1. /\ points' = Append(points, <<0, 0>>) /\ main = "first point" /\ main' = "idle"
      /\ UNCHANGED <<kind, clock, landed, animator, value, bin, adding>>
  BY DEF FirstPoint, AddPoint
<1>2. DrawnType
  BY DEF DrawnInv
<1>3. DrawnType'
  <2>1. Append(points, <<0, 0>>) \in Seq(Nat \X Int)
    BY <1>2 DEF DrawnType
  <2> QED BY <1>1, <1>2, <2>1 DEF DrawnType
<1>4. Drawn'
  <2> SUFFICES ASSUME animator' # "threw", ~Crashed'
               PROVE  /\ CurrentFor(kind', landed', bin', value')
                      /\ PointsFor(kind', landed', bin', points', clock')
    BY DEF Drawn
  <2>1. CurrentFor(kind, landed, bin, value) /\ PointsFor(kind, landed, bin, points, clock)
    BY <1>1 DEF DrawnInv, Drawn, Crashed
  <2>2. PointsFor(kind, landed, bin, Append(points, <<0, 0>>), clock)
    BY <1>2, <2>1, FirstPoints DEF DrawnType, DrawnInv, GraphInv
  <2> QED BY <1>1, <2>1, <2>2
<1> QED BY <1>3, <1>4

LEMMA DrawDrawn ==
  ASSUME DrawnInv, Draw
  PROVE  DrawnType' /\ Drawn'
<1>1. /\ points' = SubSeq(points, Popped + 1, Len(points)) /\ animator = "draw" /\ animator' = "present"
      /\ UNCHANGED <<kind, clock, landed, main, value, bin, adding>>
  BY DEF Draw, ferry
<1>2. DrawnType
  BY DEF DrawnInv
<1>3. Popped \in 0 .. Len(points) /\ \A i \in 1 .. Popped : Old(points[i])
  BY <1>2, PoppedOK DEF DrawnType
<1>4. DrawnType'
  <2>1. SubSeq(points, Popped + 1, Len(points)) \in Seq(Nat \X Int)
    BY <1>2, <1>3 DEF DrawnType
  <2> QED BY <1>1, <1>2, <2>1 DEF DrawnType
<1>5. \A i \in 1 .. Popped : points[i][1] < clock - LogicalWidth
  <2>1. clock \in Nat /\ ts["animator"] \in 0 .. clock
    BY DEF DrawnInv, GraphInv, TimesOK
  <2>2. \A i \in 1 .. Popped : points[i][1] \in Nat
    BY <1>2, <1>3 DEF DrawnType
  <2> QED BY <1>3, <2>1, <2>2 DEF Old, DrawnInv, GraphInv, LiveGraphConstants
<1>6. Drawn'
  <2> SUFFICES ASSUME animator' # "threw", ~Crashed'
               PROVE  /\ CurrentFor(kind', landed', bin', value')
                      /\ PointsFor(kind', landed', bin', points', clock')
    BY DEF Drawn
  <2>1. CurrentFor(kind, landed, bin, value) /\ PointsFor(kind, landed, bin, points, clock)
    BY <1>1 DEF DrawnInv, Drawn, Crashed
  <2>2. clock \in Nat
    BY DEF DrawnInv, GraphInv, TimesOK
  <2>3. PointsFor(kind, landed, bin, SubSeq(points, Popped + 1, Len(points)), clock)
    <3>1. Drops(points, SubSeq(points, Popped + 1, Len(points)), Popped)
      BY <1>2, <1>3, SubSeqDrops DEF DrawnType
    <3>2. Popped \in Nat /\ bin \in Nat
      BY <1>2, <1>3 DEF DrawnType
    <3> QED BY <1>5, <2>1, <2>2, <3>1, <3>2, DropPoints DEF DrawnInv, GraphInv
  <2> QED BY <1>1, <2>1, <2>3
<1> QED BY <1>4, <1>6

LEMMA DrawnInvKept == DrawnInv /\ [GraphNext]_graph_vars => DrawnInv'
<1> SUFFICES ASSUME DrawnInv, [GraphNext]_graph_vars PROVE DrawnInv'
  OBVIOUS
<1>1. GraphInv' /\ GraphInv /\ DrawnType /\ Drawn /\ AnimatorMutex /\ clock \in Nat
  BY GraphInvKept DEF DrawnInv, GraphInv, TimesOK
<1> DEFINE Still == UNCHANGED <<kind, landed, value, bin, points>> /\ clock' \in Nat /\ clock <= clock'
<1>2. ASSUME Still, adding'.amount \in Nat, animator' # "threw" => animator # "threw",
             main' # "crashed" => main # "crashed"
      PROVE  DrawnType' /\ Drawn'
  BY <1>1, <1>2, NothingDrawn DEF DrawnType
<1>3. CASE TimePasses
  <2>1. Still /\ UNCHANGED <<adding, animator, main, mutex>>
    BY <1>1, <1>3 DEF TimePasses, ferry, bins
  <2> QED BY <1>1, <1>2, <2>1 DEF DrawnInv, DrawnType, AnimatorMutex
<1>4. CASE Construct \/ Destroy \/ Join
  <2>1. Still /\ UNCHANGED <<adding, animator, mutex>> /\ main # "crashed"
    <3>1. UNCHANGED <<kind, clock, adding, landed, animator, bins>> /\ main \in {"construct", "idle", "join"}
      BY <1>4 DEF Construct, Destroy, Join
    <3> QED BY <1>1, <3>1 DEF bins
  <2> QED BY <1>1, <1>2, <2>1 DEF DrawnInv, DrawnType, AnimatorMutex
<1>5. ASSUME NEW amount \in Amounts, Call(amount) PROVE DrawnInv'
  <2>1. Still /\ UNCHANGED <<animator, mutex>> /\ main # "crashed" /\ adding'.amount \in Nat
    BY <1>1, <1>5 DEF Call, bins, GraphInv, LiveGraphConstants
  <2> QED BY <1>1, <1>2, <2>1 DEF DrawnInv, AnimatorMutex
<1>6. ASSUME NEW t \in {"main", "animator"}, Lock(t) PROVE DrawnInv'
  <2>1. Still /\ UNCHANGED <<adding, animator, main>> /\ (t = "animator" => animator = "advance") /\ mutex' = t
    BY <1>1, <1>6 DEF Lock, Place, ferry
  <2> QED BY <1>1, <1>2, <2>1 DEF DrawnInv, DrawnType, AnimatorMutex
<1>7. ASSUME NEW t \in {"main", "animator"}, NewBin(t) PROVE DrawnInv'
  <2>1. UNCHANGED <<animator, mutex>>
    BY <1>7 DEF NewBin
  <2> QED BY <1>1, <1>7, <2>1, NewBinDrawn DEF DrawnInv, AnimatorMutex
<1>8. CASE MainAdvanced
  <2>1. Still /\ UNCHANGED <<adding, animator>> /\ main # "crashed" /\ mutex' = "nobody"
    BY <1>1, <1>8 DEF MainAdvanced, Advanced, GraphInv, MutexOK, Nobody
  <2> QED BY <1>1, <1>2, <2>1 DEF DrawnInv, DrawnType, AnimatorMutex
<1>9. CASE Update
  <2>1. UNCHANGED <<animator, mutex>>
    BY <1>9 DEF Update
  <2> QED BY <1>1, <1>9, <2>1, UpdateDrawn DEF DrawnInv, AnimatorMutex
<1>10. CASE FirstPoint
  <2>1. UNCHANGED <<animator, mutex>>
    BY <1>10 DEF FirstPoint
  <2> QED BY <1>1, <1>10, <2>1, FirstPointDrawn DEF DrawnInv, AnimatorMutex
<1>11. CASE Draw
  <2>1. mutex' = mutex /\ mutex # "animator"
    BY <1>1, <1>11 DEF Draw, AnimatorMutex
  <2> QED BY <1>1, <1>11, <2>1, DrawDrawn DEF DrawnInv, AnimatorMutex
<1>12. CASE NewBinTooEarly
  <2>1. Drawn' /\ AnimatorMutex'
    BY <1>12 DEF NewBinTooEarly, Drawn, Crashed, AnimatorMutex, Nobody
  <2>2. UNCHANGED <<landed, value, bin, adding>> /\ points' = Append(points, <<End(bin), value>>)
    BY <1>12 DEF NewBinTooEarly, AddPoint, Point, End
  <2>3. DrawnType'
    <3> DEFINE e == <<End(bin), value>>
    <3>1. e \in Nat \X Int
      BY <1>1, EndOK DEF DrawnType, GraphInv
    <3> HIDE DEF e
    <3>2. Append(points, e) \in Seq(Nat \X Int)
      BY <1>1, <3>1 DEF DrawnType
    <3>3. points' \in Seq(Nat \X Int)
      BY <2>2, <3>2 DEF e
    <3> QED BY <1>1, <2>2, <3>3 DEF DrawnType
  <2> QED BY <1>1, <2>1, <2>3 DEF DrawnInv
<1>13. CASE AnimatorAdvanced
  <2>1. Still /\ UNCHANGED <<adding, main>> /\ animator # "threw" /\ mutex' = "nobody"
    BY <1>1, <1>13 DEF AnimatorAdvanced, Advanced, AnimatorMutex, Nobody, ferry
  <2> QED BY <1>1, <1>2, <2>1 DEF DrawnInv, DrawnType, AnimatorMutex
<1>14. CASE Loop \/ Present \/ Shown
  <2>1. Still /\ UNCHANGED <<adding, main, mutex>> /\ animator # "threw" /\ mutex # "animator"
    BY <1>1, <1>14 DEF Loop, Present, Shown, AnimatorMutex, ferry, bins
  <2> QED BY <1>1, <1>2, <2>1 DEF DrawnInv, DrawnType, AnimatorMutex
<1>15. CASE XEvent \/ UNCHANGED graph_vars
  <2>1. Still /\ UNCHANGED <<adding, main, mutex, animator>>
    BY <1>1, <1>15 DEF XEvent, graph_vars, ferry, bins
  <2> QED BY <1>1, <1>2, <2>1 DEF DrawnInv, DrawnType, AnimatorMutex
<1> QED
  BY <1>3, <1>4, <1>5, <1>6, <1>7, <1>8, <1>9, <1>10, <1>11, <1>12, <1>13, <1>14, <1>15
  DEF GraphNext, Main, Animator

\* The graph adds and counts as one does elsewhere.
LEMMA SameSum == ASSUME NEW w PROVE SumOf(w) = SumOf(w)
BY Zenon DEF SumOf, SumOf

LEMMA SameCardinality == ASSUME NEW S PROVE Cardinality(S) = Cardinality(S)
BY Zenon DEF Cardinality, Cardinality

\* The point of a bin that is on the screen is the one the invariant tells of.
LEMMA DrawnOnce == DrawnInv => BinsAreDrawnOnce
<1> SUFFICES ASSUME DrawnInv, animator # "threw", ~Crashed, NEW b \in 0 .. bin - 1,
                    CountedIn(b) # {}, (b + 1) * Width >= clock - LogicalWidth
             PROVE  LET of == {i \in DOMAIN points : points[i][1] = (b + 1) * Width}
                    IN  /\ Cardinality(of) = 1
                        /\ \A i \in of :
                             IF kind = "rate" THEN points[i][2] = Total(b) ELSE Greatest(b,
                             points[i][2])
  BY SameCardinality DEF BinsAreDrawnOnce
<1> DEFINE of == {i \in DOMAIN points : points[i][1] = (b + 1) * Width}
<1>1. PointsFor(kind, landed, bin, points, clock)
  BY DEF DrawnInv, Drawn
<1>2. /\ In(landed, b) = CountedIn(b) /\ TotalOf(landed, b) = Total(b) /\ End(b) = (b + 1) * Width
      /\ b \in Nat /\ End(b) \in Nat /\ End(b) # 0 /\ clock \in Nat
  <2>1. b \in Nat
    BY DEF DrawnInv, DrawnType
  <2>2. End(b) \in Nat /\ End(b) # 0 /\ clock \in Nat
    BY <2>1, EndOK DEF DrawnInv, GraphInv, TimesOK
  <2>3. TotalOf(landed, b) = Total(b)
    BY SameSum DEF TotalOf, Total, Share
  <2> QED BY <2>1, <2>2, <2>3 DEF In, CountedIn, End
<1>3. clock - LogicalWidth <= End(b)
  BY <1>2
<1>4. PICK i \in DOMAIN points : points[i][1] = End(b)
  BY <1>1, <1>2, <1>3 DEF PointsFor
<1>5. of = {i}
  BY <1>1, <1>2, <1>4 DEF PointsFor
<1>6. RightFor(kind, landed, b, points[i][2])
  BY <1>1, <1>4 DEF PointsFor
<1>7. IF kind = "rate" THEN points[i][2] = Total(b) ELSE Greatest(b, points[i][2])
  BY <1>2, <1>6 DEF RightFor, Greatest
<1>8. Cardinality(of) = 1
  BY <1>5, FS_Singleton
<1> QED BY <1>5, <1>7, <1>8

\* advance() (binned_livegraph.cc:72-95), which both threads call, adds the point of every
\* bin that is over once and with its value, and blocking_draw (graph.cc:66-76) takes out
\* only points that have left the screen.
THEOREM EveryBinIsDrawn == GraphSpec => []BinsAreDrawnOnce
<1> QED
  BY LiveGraphAssumption, DrawnInvStart, DrawnInvKept, DrawnOnce, PTL DEF GraphSpec
=============================================================================

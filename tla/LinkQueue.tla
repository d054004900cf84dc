----------------------------- MODULE LinkQueue -----------------------------
(***************************************************************************)
(* LinkQueue (src/frontend/link_queue.cc): one direction of the trace      *)
(* driven link of mm-link.  The trace is a list of delivery opportunities  *)
(* of PACKET_SIZE bytes; rationalize(now) replays every opportunity that   *)
(* has come due since the last call, late ones included, and moves bytes   *)
(* of queued packets through it.  A packet may span several opportunities  *)
(* and an opportunity may carry several packets.                           *)
(*                                                                         *)
(* The object belongs to one thread, so a call is not interleaved with     *)
(* another; its loops are unrolled, one action per iteration, and pc says  *)
(* where the call is.  The client here is the most general one: any method *)
(* at any time.  now is CLOCK_REALTIME, read once per call.                *)
(***************************************************************************)
EXTENDS PacketQueue, Sums

CONSTANTS
  PACKET_SIZE,   \* bytes per delivery opportunity, and the largest packet
  Schedules,     \* the trace files considered
  Repeats,       \* the values of repeat_ considered (FALSE is --once)
  Sizes,         \* the packet sizes offered to the link
  ClockSteps,    \* how far the clock may move at once; negative when it is set back
  StartTime,     \* timestamp() when the object is constructed
  MaxTime,       \* bound: the clock stays in 0..MaxTime
  MaxPackets     \* bound: packets offered to the link

\* What the constructor accepts: at least one timestamp, none smaller than
\* the one before it, and a trace that lasts for a nonzero amount of time.
ValidSchedule(s) ==
  /\ s \in Seq(Nat)
  /\ s # <<>>
  /\ \A i, j \in 1..Len(s) : i <= j => s[i] <= s[j]
  /\ s[Len(s)] # 0

ASSUME LinkAssumption ==
  /\ PACKET_SIZE \in Nat \ {0}
  /\ \A s \in Schedules : ValidSchedule(s)
  /\ Repeats \subseteq BOOLEAN
  /\ Sizes \subseteq Nat \ {0}
  /\ ClockSteps \subseteq Int
  /\ StartTime \in Nat
  /\ MaxTime \in Nat /\ StartTime <= MaxTime
  /\ MaxPackets \in Nat

VARIABLES
  now,                \* the clock
  schedule, repeat,   \* schedule_ and repeat_, fixed at construction
  next_delivery,      \* next_delivery_, an index from 0 into the schedule
  base_timestamp,     \* base_timestamp_
  finished,           \* finished_
  packet_queue,       \* packet_queue_
  packet_in_transit,  \* packet_in_transit_
  bytes_left,         \* packet_in_transit_bytes_left_
  output_queue,       \* output_queue_, as packets
  pc,                 \* where the call in progress is
  call,               \* its method, the time it read and its argument
  delivery            \* this_delivery_time and bytes_left_in_this_delivery

VARIABLES             \* history: what the log of the link would hold
  offered,            \* the packets given to read_packet, in order
  slots,              \* the times of the opportunities used up so far
  departures,         \* departed packets, in order, each with its departure time
  delivered,          \* how many packets write_packets has handed over
  drops               \* total of the "d" lines: packets and bytes

trace == <<schedule, repeat>>
position == <<next_delivery, base_timestamp, finished>>
link == <<packet_queue, packet_in_transit, bytes_left>>
history == <<offered, slots, departures, delivered, drops>>
vars == <<now, trace, position, link, output_queue, pc, call, delivery, history>>

NoPacket == [id |-> 0, size |-> 0, arrival |-> 0]
NoCall == [op |-> "none", now |-> 0, pkt |-> NoPacket]
NoDelivery == [time |-> 0, left |-> 0]

Lesser(a, b) == IF a <= b THEN a ELSE b

-----------------------------------------------------------------------------
Init ==
  /\ now = StartTime
  /\ schedule \in Schedules
  /\ repeat \in Repeats
  /\ next_delivery = 0
  /\ base_timestamp = StartTime
  /\ finished = FALSE
  /\ packet_queue = EmptyQueue
  /\ packet_in_transit = NoPacket
  /\ bytes_left = 0
  /\ output_queue = <<>>
  /\ pc = "idle"
  /\ call = NoCall
  /\ delivery = NoDelivery
  /\ offered = <<>>
  /\ slots = <<>>
  /\ departures = <<>>
  /\ delivered = 0
  /\ drops = [packets |-> 0, bytes |-> 0]

\* CLOCK_REALTIME moves.  It is read once per call, so it need not move during one.
\* It is not set back to before the program's start, where timestamp() would wrap
\* around to nearly 2^64 and rationalize() replay the trace up to there.
Tick ==
  /\ pc = "idle"
  /\ \E d \in ClockSteps : now + d \in 0..MaxTime /\ now' = now + d
  /\ UNCHANGED <<trace, position, link, output_queue, pc, call, delivery, history>>

-----------------------------------------------------------------------------
\* next_delivery_time(); once finished it is 2^64 - 1, which no clock reaches.
next_delivery_time == schedule[next_delivery + 1] + base_timestamp

\* A bug "<" for "<=" in the loop of rationalize would be.
DueStrictly(t) == ~finished /\ next_delivery_time < t

Due(t) == ~finished /\ next_delivery_time <= t

\* Entry of read_packet.  A packet larger than an opportunity is refused with
\* an exception before anything else happens.
ReadPacket(size) ==
  /\ pc = "idle"
  /\ Len(offered) < MaxPackets
  /\ IF size > PACKET_SIZE
       THEN pc' = "threw" /\ UNCHANGED call
       ELSE /\ pc' = "rationalize"
            /\ call' = [op |-> "read", now |-> now,
                        pkt |-> [id |-> Len(offered) + 1, size |-> size, arrival |-> now]]
  /\ UNCHANGED <<now, trace, position, link, output_queue, delivery, history>>

\* Entry of wait_time.
WaitTime ==
  /\ pc = "idle"
  /\ pc' = "rationalize"
  /\ call' = [op |-> "wait", now |-> now, pkt |-> NoPacket]
  /\ UNCHANGED <<now, trace, position, link, output_queue, delivery, history>>

\* write_packets: everything that has departed is written, in order.
WritePackets ==
  /\ pc = "idle"
  /\ output_queue # <<>>
  /\ output_queue' = <<>>
  /\ delivered' = delivered + Len(output_queue)
  /\ UNCHANGED <<now, trace, position, link, pc, call, delivery,
                 offered, slots, departures, drops>>

-----------------------------------------------------------------------------

\* The position after an opportunity, had the base moved by the first
\* timestamp and not by the last.
WrapByFirst ==
  /\ next_delivery' = (next_delivery + 1) % Len(schedule)
  /\ IF next_delivery' # 0
       THEN UNCHANGED <<base_timestamp, finished>>
       ELSE IF repeat
              THEN base_timestamp' = base_timestamp + schedule[1] /\ UNCHANGED finished
              ELSE finished' = TRUE /\ UNCHANGED base_timestamp

\* The position after an opportunity; at the end of the trace it starts over,
\* or the link is finished.
Advance ==
  /\ next_delivery' = (next_delivery + 1) % Len(schedule)
  /\ IF next_delivery' # 0
       THEN UNCHANGED <<base_timestamp, finished>>
       ELSE IF repeat
              THEN base_timestamp' = base_timestamp + schedule[Len(schedule)] /\ UNCHANGED finished
              ELSE finished' = TRUE /\ UNCHANGED base_timestamp

\* Head of the loop of rationalize: use_a_delivery_opportunity burns an
\* opportunity that is due, whether or not there is anything to send.
UseADeliveryOpportunity ==
  /\ pc = "rationalize"
  /\ Due(call.now)
  /\ delivery' = [time |-> next_delivery_time, left |-> PACKET_SIZE]
  /\ slots' = Append(slots, next_delivery_time)
  /\ Advance
  /\ pc' = "send"
  /\ UNCHANGED <<now, trace, link, output_queue, call, offered, departures, delivered, drops>>

-----------------------------------------------------------------------------
\* A packet that does not fit into what is left of an opportunity would have
\* to wait for one that has room for all of it.
AmountIfWhole(left) == IF left <= delivery.left THEN left ELSE 0

\* How many bytes of the delivery opportunity can be used.
AmountToSend(left) == Lesser(delivery.left, left)

\* The assertions at the head of the loop body.
TransitAsserts(p, left) ==
  /\ p.arrival <= delivery.time
  /\ left <= PACKET_SIZE
  /\ left > 0
  /\ left <= p.size

\* The loop body once the packet p, with left bytes to go, is in transit and
\* q is behind it.
SendBytes(p, left, q) ==
  /\ packet_in_transit' = p
  /\ packet_queue' = q
  /\ IF ~TransitAsserts(p, left)
       THEN pc' = "aborted" /\ UNCHANGED <<bytes_left, delivery, departures, output_queue>>
       ELSE /\ pc' = "send"
            /\ bytes_left' = left - AmountToSend(left)
            /\ delivery' = [delivery EXCEPT !.left = @ - AmountToSend(left)]
            /\ IF bytes_left' # 0
                 THEN UNCHANGED <<departures, output_queue>>
                 ELSE /\ departures' = Append(departures, [pkt |-> p, time |-> delivery.time])
                      /\ output_queue' = Append(output_queue, p)
  /\ UNCHANGED <<now, trace, position, call, offered, slots, delivered, drops>>

\* A packet was left unfinished by an earlier opportunity.
SendInTransit ==
  /\ pc = "send"
  /\ delivery.left > 0
  /\ bytes_left # 0
  /\ SendBytes(packet_in_transit, bytes_left, packet_queue)

\* Nothing is in transit: the next packet is dequeued.
SendNext ==
  /\ pc = "send"
  /\ delivery.left > 0
  /\ bytes_left = 0
  /\ ~Empty(packet_queue)
  /\ IF DequeueAsserts(packet_queue)
       THEN LET p == Head(packet_queue.pkts) IN SendBytes(p, p.size, Pop(packet_queue))
       ELSE /\ pc' = "aborted"
            /\ UNCHANGED <<now, trace, position, link, output_queue, call, delivery, history>>

\* An opportunity that carries one packet, however small.
OpportunityOverAfterOne ==
  /\ pc = "send"
  /\ delivery.left < PACKET_SIZE \/ (bytes_left = 0 /\ Empty(packet_queue))
  /\ pc' = "rationalize"
  /\ delivery' = NoDelivery
  /\ UNCHANGED <<now, trace, position, link, output_queue, call, history>>

\* The opportunity is used up, or what is left of it is wasted.
OpportunityOver ==
  /\ pc = "send"
  /\ delivery.left = 0 \/ (bytes_left = 0 /\ Empty(packet_queue))
  /\ pc' = "rationalize"
  /\ delivery' = NoDelivery
  /\ UNCHANGED <<now, trace, position, link, output_queue, call, history>>

-----------------------------------------------------------------------------
\* The loop of rationalize ends when no opportunity is due.
CaughtUp == ~Due(call.now)

\* The same, had the packet that arrives been left out of the count.
MissingWithoutArrival(q, p) ==
  [packets |-> packet_queue.count - q.count, bytes |-> packet_queue.bytes - q.bytes]

\* The packets and bytes that read_packet finds missing after the enqueue.
Missing(q, p) ==
  [packets |-> packet_queue.count + 1 - q.count,
   bytes |-> packet_queue.bytes + p.size - q.bytes]

\* The assertions of read_packet behind the enqueue: the queue has not grown by
\* more than the packet, so that what is missing is no negative number.
GrowthAsserts(q, p) ==
  /\ q.count <= packet_queue.count + 1
  /\ q.bytes <= packet_queue.bytes + p.size

\* The rest of read_packet: record the arrival, enqueue, record the drops.
FinishRead ==
  /\ pc = "rationalize"
  /\ call.op = "read"
  /\ CaughtUp
  /\ LET p == call.pkt
         q == Enqueue(packet_queue, p)
     IN  /\ offered' = Append(offered, p)
         /\ IF EnqueueAsserts(packet_queue, p) /\ GrowthAsserts(q, p)
              THEN /\ packet_queue' = q
                   /\ drops' = [packets |-> drops.packets + Missing(q, p).packets,
                                bytes |-> drops.bytes + Missing(q, p).bytes]
                   /\ pc' = "idle"
              ELSE pc' = "aborted" /\ UNCHANGED <<packet_queue, drops>>
  /\ call' = NoCall
  /\ UNCHANGED <<now, trace, position, packet_in_transit, bytes_left, output_queue,
                 delivery, slots, departures, delivered>>

\* The rest of wait_time: the caller sleeps until the next opportunity.
FinishWait ==
  /\ pc = "rationalize"
  /\ call.op = "wait"
  /\ CaughtUp
  /\ pc' = "idle"
  /\ call' = NoCall
  /\ UNCHANGED <<now, trace, position, link, output_queue, delivery, history>>

-----------------------------------------------------------------------------
Rationalize ==
  \/ UseADeliveryOpportunity
  \/ SendInTransit
  \/ SendNext
  \/ OpportunityOver

Next ==
  \/ Tick
  \/ \E size \in Sizes : ReadPacket(size)
  \/ WaitTime
  \/ WritePackets
  \/ Rationalize
  \/ FinishRead
  \/ FinishWait

Spec == Init /\ [][Next]_vars

\* The thread that owns the link is scheduled: a call in progress goes on.
FairSpec == Spec /\ WF_vars(Rationalize \/ FinishRead \/ FinishWait)

-----------------------------------------------------------------------------
(***************************************************************************)
(* Properties.                                                             *)
(***************************************************************************)
Waiting == IF bytes_left = 0 THEN packet_queue.pkts
                             ELSE <<packet_in_transit>> \o packet_queue.pkts

Departed == [i \in 1..Len(departures) |-> departures[i].pkt]

SumSizes(pkts) == SumOf([i \in 1..Len(pkts) |-> pkts[i].size])

\* Every variable has its type; the indices stay inside the schedule.
TypeOK ==
  /\ now \in Nat
  /\ schedule \in Schedules /\ repeat \in Repeats
  /\ next_delivery \in 0..(Len(schedule) - 1)
  /\ base_timestamp \in Nat /\ finished \in BOOLEAN
  /\ packet_queue \in Queue
  /\ packet_in_transit \in Packet /\ bytes_left \in 0..PACKET_SIZE
  /\ output_queue \in Seq(Packet)
  /\ pc \in {"idle", "rationalize", "send", "threw", "aborted"}
  /\ call \in [op : {"none", "read", "wait"}, now : Nat, pkt : Packet]
  /\ delivery \in [time : Nat, left : 0..PACKET_SIZE]
  /\ offered \in Seq(Packet) /\ slots \in Seq(Nat)
  /\ departures \in Seq([pkt : Packet, time : Nat])
  /\ delivered \in Nat /\ drops \in [packets : Nat, bytes : Nat]

\* No assertion of read_packet, rationalize or the queue's methods ever fails
\* (link_queue.cc 175-176, 231-234; the queues' assert( good() )).  In
\* particular a packet is never sent in an opportunity that is not after its
\* arrival, whatever the clock does and however late the link is replayed.
AssertionsHold == pc # "aborted"

\* The recorded queueing delay, departure_time - arrival_time in unsigned
\* arithmetic (record_departure), is at least one millisecond: an opportunity
\* never serves a packet that arrived in the same millisecond or later.
DelayPositive ==
  \A i \in 1..Len(departures) : departures[i].pkt.arrival < departures[i].time

\* The log adds up: what "+" lines counted is what "-" lines and "d" lines
\* counted plus what is still inside, in packets and in bytes
\* (read_packet's missing_packets and missing_bytes).
Conservation ==
  pc # "aborted" =>
    /\ Len(offered) = Len(departures) + Len(Waiting) + drops.packets
    /\ SumSizes(offered) = SumSizes(Departed) + SumSizes(Waiting) + drops.bytes

OnePass ==
  /\ finished => Len(slots) = Len(schedule) /\ ~repeat
  /\ ~repeat => Len(slots) <= Len(schedule) /\ (Len(slots) = Len(schedule) => finished)

\* The k-th opportunity is the k-th of the trace, repeated with the period of
\* its last timestamp: none is skipped or used twice, however late and in
\* whatever batches the link is replayed; and with --once (repeat_ is false) the
\* link is finished after exactly one pass, and only then.
SlotTimes ==
  /\ \A k \in 1..Len(slots) :
       slots[k] = StartTime + ((k - 1) \div Len(schedule)) * schedule[Len(schedule)]
                            + schedule[((k - 1) % Len(schedule)) + 1]
  /\ OnePass

\* The bytes an ideal server has sent by the k-th opportunity: PACKET_SIZE
\* per opportunity, as far as bytes had arrived before it.
BytesArrivedBefore(t) ==
  SumOf([i \in 1..Len(offered) |-> IF offered[i].arrival < t THEN offered[i].size ELSE 0])

IdealService ==
  LET served[k \in 0..Len(slots)] ==
        IF k = 0 THEN 0
                 ELSE Lesser(served[k - 1] + PACKET_SIZE, BytesArrivedBefore(slots[k]))
  IN served

\* With no limit on the queue the link is that server, byte for byte and
\* opportunity for opportunity, no matter when rationalize was called: no
\* opportunity is wasted while bytes wait, no bytes are carried over from an
\* idle one, and each departure is stamped with the opportunity that
\* completed it.
IdealLink ==
  (pc \in {"idle", "rationalize"} /\ Discipline = "infinite") =>
    LET sent == SumSizes(Departed) + (IF bytes_left = 0 THEN 0
                                      ELSE packet_in_transit.size - bytes_left)
        upto(i) == SumSizes(SubSeq(Departed, 1, i))
    IN  /\ sent = IdealService[Len(slots)]
        /\ \A i \in 1..Len(departures) :
             \E k \in 1..Len(slots) :
               /\ departures[i].time = slots[k]
               /\ IdealService[k - 1] < upto(i) /\ upto(i) <= IdealService[k]

\* The packets and the bytes in progress, seen from the ends of the link.
Ids(pkts) == [i \in 1..Len(pkts) |-> pkts[i].id]

Service ==
  INSTANCE LinkService WITH
    Lossy <- Discipline # "infinite",
    offers <- Len(offered),
    inside <- Ids(Waiting),
    committed <- bytes_left # 0,
    out <- Ids(output_queue)

\* The link implements the service: order, at most once, one loss per offer and
\* none of a packet in transit, none at all without limits.
ImplementsService == Service!Spec

\* Every call returns: rationalize runs out of due opportunities and of bytes
\* to put into each.
CallsReturn == (pc \notin {"idle", "threw", "aborted"}) ~> (pc \in {"idle", "aborted"})
=============================================================================

---------------------------- MODULE CoDelQueue -----------------------------
(***************************************************************************)
(* CODELPacketQueue (packet/codel_packet_queue.cc), the packet queue of    *)
(* mm-link that drops when packets are taken out: once packets have waited *)
(* target_ or longer for interval_, it enters a dropping state in which it *)
(* discards packets at times that get closer with every drop.              *)
(*                                                                         *)
(* A call of dequeue() takes one packet after another; each is an action.  *)
(* The packet that is returned is the first: the others, which dequeue     *)
(* keeps in a variable of its inner scope, are gone.                       *)
(***************************************************************************)
EXTENDS Integers, Sequences

CONSTANTS
  PacketLimit, ByteLimit,   \* limits of the queue, 0 for none
  target, interval,         \* target_ and interval_, in milliseconds
  PACKET_SIZE,              \* the size up to which a queue counts as short
  Word,                     \* uint64_t wraps around at this value
  Sizes,                    \* sizes of packets; LinkQueue refuses larger ones
  ClockSteps,               \* how far the clock may move at once
  ArrivalTimes,             \* bound: the times at which packets may arrive
  MaxTime,                  \* bound: the clock stays in 1..MaxTime
  MaxPackets                \* bound: packets offered to the queue

Limited == INSTANCE PacketQueue WITH Discipline <- "droptail"

\* What the constants have to be; assumed where the module is instantiated.
CoDelConstants ==
  /\ PacketLimit \in Nat /\ ByteLimit \in Nat
  /\ PacketLimit # 0 \/ ByteLimit # 0
  /\ target \in Nat \ {0} /\ interval \in Nat \ {0}
  /\ PACKET_SIZE \in Nat \ {0} /\ Sizes \subseteq 1..PACKET_SIZE
  /\ MaxTime \in Nat /\ MaxPackets \in Nat
  /\ Word \in Nat /\ Word > MaxTime + 16 * interval

VARIABLES
  now,               \* the clock; a call reads it once
  queue,             \* the packets and counters of DroppingPacketQueue
  first_above_time,  \* first_above_time_, 0 when the queue is not above target
  drop_next,         \* drop_next_
  count, lastcount,  \* count_ and lastcount_
  dropping,          \* dropping_
  pc,                \* where a call of dequeue() is
  result             \* r.p of that call

VARIABLES            \* history
  offered,           \* how many packets were offered to enqueue()
  above_since,       \* since when every packet taken was found above target, or 0
  last_out,          \* the last packet returned by dequeue()
  last_drop          \* the last discard, and the episode it belongs to

state == <<first_above_time, drop_next, count, lastcount, dropping>>
history == <<offered, above_since, last_out, last_drop>>
vars == <<now, queue, state, pc, result, history>>

Nothing == [id |-> 0, size |-> 0, arrival |-> 0]
NoDrop == [time |-> 0, since |-> 0, left |-> 0, start |-> 0, first |-> 0, nth |-> 0]

Init ==
  /\ now = 1
  /\ queue = Limited!EmptyQueue
  /\ first_above_time = 0
  /\ drop_next = 0
  /\ count = 0
  /\ lastcount = 0
  /\ dropping = FALSE
  /\ pc = "idle"
  /\ result = Nothing
  /\ offered = 0
  /\ above_since = 0
  /\ last_out = 0
  /\ last_drop = NoDrop

Tick ==
  /\ pc = "idle"
  /\ \E d \in ClockSteps : now + d \in 1..MaxTime /\ now' = now + d
  /\ UNCHANGED <<queue, state, pc, result, history>>

Enqueue(size) ==
  /\ pc = "idle"
  /\ offered < MaxPackets /\ now \in ArrivalTimes
  /\ offered' = offered + 1
  /\ queue' = Limited!EnqueueTail(queue, [id |-> offered', size |-> size, arrival |-> now])
  /\ UNCHANGED <<now, state, pc, result, above_since, last_out, last_drop>>

-----------------------------------------------------------------------------
\* Unsigned subtraction.
Minus(a, b) == (a - b) % Word

\* control_law: t plus interval / sqrt(n), rounded down.
ControlLaw(t, n) ==
  t + CHOOSE d \in 0..interval : /\ d * d * n <= interval * interval
                                 /\ (d + 1) * (d + 1) * n > interval * interval

\* The same, had the test for a short queue been one for an empty one.
AboveUnlessEmpty(p, q) == ~Limited!Empty(q) /\ Minus(now, p.arrival) >= target

\* The packet p has waited too long, and the queue q behind it is not short.
Above(p, q) ==
  /\ ~Limited!Empty(q)
  /\ Minus(now, p.arrival) >= target
  /\ q.bytes > PACKET_SIZE

\* dodequeue's timer, had it not been restarted when the queue recovers.
AboveTimeKept(p, q) ==
  IF first_above_time = 0 /\ Above(p, q) THEN now + interval ELSE first_above_time

\* The timer: interval_ from when the queue was first found above target.
AboveTime(p, q) ==
  IF ~Above(p, q) THEN 0
  ELSE IF first_above_time = 0 THEN now + interval
  ELSE first_above_time

\* The packet may be dropped: the timer was running, and it is over.
OkToDrop(p, q) == Above(p, q) /\ first_above_time # 0 /\ now >= first_above_time

\* dodequeue: the oldest packet leaves the queue, and the timer is updated.
DoDequeue ==
  /\ queue' = Limited!Pop(queue)
  /\ first_above_time' = AboveTime(Head(queue.pkts), queue')
  /\ above_since' = IF ~Above(Head(queue.pkts), queue') THEN 0
                    ELSE IF above_since = 0 THEN now
                    ELSE above_since

\* Whether the packet dodequeue takes may be dropped.
HeadOkToDrop == OkToDrop(Head(queue.pkts), Limited!Pop(queue))

\* DroppingPacketQueue::dequeue asserts that there is a packet.
Aborts ==
  /\ ~Limited!DequeueAsserts(queue)
  /\ pc' = "aborted"
  /\ UNCHANGED <<now, queue, state, result, history>>

Return(p) ==
  /\ pc' = "idle"
  /\ result' = Nothing
  /\ last_out' = p.id

-----------------------------------------------------------------------------
\* The first packet of a call, outside the dropping state or as it ends.
\* LinkQueue calls dequeue() only when the queue is not empty.
DequeueOne ==
  /\ pc = "idle" /\ ~Limited!Empty(queue)
  /\ ~HeadOkToDrop
  /\ dropping' = FALSE
  /\ DoDequeue
  /\ Return(Head(queue.pkts))
  /\ UNCHANGED <<now, drop_next, count, lastcount, offered, last_drop>>

\* The first packet of a call that may drop.
DequeueFirst ==
  /\ pc = "idle" /\ ~Limited!Empty(queue)
  /\ HeadOkToDrop
  /\ pc' = IF dropping THEN "dropping" ELSE "enter"
  /\ DoDequeue
  /\ result' = Head(queue.pkts)
  /\ UNCHANGED <<now, drop_next, count, lastcount, dropping, offered, last_out, last_drop>>

\* The counters at the start of an episode.
CountFrom(n) == count' = n /\ lastcount' = n

\* One more packet is discarded, the nth of an episode that began at start with
\* a count of first.
Discard(start, first, nth) ==
  last_drop' = [time |-> now, since |-> above_since, left |-> Len(queue.pkts) - 1,
                start |-> start, first |-> first, nth |-> nth]

\* The dropping state is entered with the discard of a packet.
EnterDropping ==
  /\ pc = "enter"
  /\ IF ~Limited!DequeueAsserts(queue) THEN Aborts
     ELSE /\ DoDequeue
          /\ dropping' = TRUE
          /\ LET delta == count - lastcount
             IN  CountFrom(IF delta > 1 /\ Minus(now, drop_next) < 16 * interval
                             THEN delta ELSE 1)
          /\ drop_next' = ControlLaw(now, count')
          /\ Discard(now, count', 1)
          /\ Return(result)
          /\ UNCHANGED <<now, offered>>

\* The loop of dequeue, had the time of the next drop been left as it was.
DropNextAtOnce ==
  /\ pc = "dropping" /\ dropping /\ now >= drop_next
  /\ IF ~Limited!DequeueAsserts(queue) THEN Aborts
     ELSE /\ DoDequeue
          /\ count' = count + 1
          /\ dropping' = HeadOkToDrop
          /\ Discard(last_drop.start, last_drop.first, last_drop.nth + 1)
          /\ UNCHANGED <<now, drop_next, lastcount, pc, result, offered, last_out>>

\* The loop of dequeue: discard a packet for every drop that has become due.
DropNext ==
  /\ pc = "dropping" /\ dropping /\ now >= drop_next
  /\ IF ~Limited!DequeueAsserts(queue) THEN Aborts
     ELSE /\ DoDequeue
          /\ count' = count + 1
          /\ IF HeadOkToDrop
               THEN drop_next' = ControlLaw(drop_next, count') /\ UNCHANGED dropping
               ELSE dropping' = FALSE /\ UNCHANGED drop_next
          /\ Discard(last_drop.start, last_drop.first, last_drop.nth + 1)
          /\ UNCHANGED <<now, lastcount, pc, result, offered, last_out>>

\* No drop is due, or the dropping state has ended.
DropsOver ==
  /\ pc = "dropping"
  /\ ~dropping \/ now < drop_next
  /\ Return(result)
  /\ UNCHANGED <<now, queue, state, offered, above_since, last_drop>>

Next ==
  \/ Tick
  \/ \E size \in Sizes : Enqueue(size)
  \/ DequeueOne \/ DequeueFirst
  \/ EnterDropping
  \/ DropNext \/ DropsOver

Spec == Init /\ [][Next]_vars

-----------------------------------------------------------------------------
(***************************************************************************)
(* Properties.                                                             *)
(***************************************************************************)

\* A packet is discarded only when, up to the packet before it, the queue had
\* been above target without a break for interval_ or longer.
DropsUnderPressure ==
  last_drop.nth # 0 => /\ last_drop.since # 0
                       /\ last_drop.since + interval <= last_drop.time

\* The times at which an ideal controller drops: interval_ / sqrt(count_)
\* after one another, count_ rising by one with every drop.
IdealDropTime(d) ==
  LET at[n \in 1..d.nth] == IF n = 1 THEN d.start
                                     ELSE ControlLaw(at[n - 1], d.first + n - 2)
  IN  at[d.nth]

\* No drop comes before its time, however late dequeue() is called and
\* however many drops one call has to make up for.
DropsOnSchedule ==
  last_drop.nth # 0 => IdealDropTime(last_drop) <= last_drop.time

\* "We ignore the drop decision if the current packet is the only one in the
\* queue" (codel_packet_queue.cc:24-25).  The packet that is discarded is not
\* the one the decision was about but one behind it; even so there is always
\* another left, since one packet alone is at most PACKET_SIZE bytes.
OnlyPacketIsKept == last_drop.nth # 0 => last_drop.left # 0
=============================================================================

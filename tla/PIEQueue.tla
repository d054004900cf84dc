------------------------------ MODULE PIEQueue -----------------------------
(***************************************************************************)
(* PIEPacketQueue (packet/pie_packet_queue.cc), the packet queue of        *)
(* mm-link that drops arrivals with a probability which it works out, once *)
(* every t_update_ milliseconds, from the delay it estimates.  It has no   *)
(* timer: every call first makes up for the periods that were missed.      *)
(*                                                                         *)
(* Probabilities are integers, in units of 1 / One.  Beside the state of   *)
(* the code there is that of a queue with a timer, which the comment in    *)
(* calculate_drop_prob compares it with.                                   *)
(***************************************************************************)
EXTENDS Integers, Sequences

CONSTANTS
  PacketLimit, ByteLimit,   \* limits of the queue, 0 for none
  qdelay_ref, max_burst,    \* qdelay_ref_ and max_burst_, in milliseconds
  t_update,                 \* t_update_, in milliseconds
  dq_threshold,             \* dq_threshold_, in bytes
  PACKET_SIZE,              \* the size of which two fit in a short queue
  Sizes,                    \* sizes of packets
  ClockSteps,               \* how far the clock may move at once; never back
  MaxTime,                  \* bound: the clock stays in 1..MaxTime
  MaxPackets                \* bound: packets offered to the queue

Limited == INSTANCE PacketQueue WITH Discipline <- "droptail"

\* What the constants have to be; assumed where the module is instantiated.
PIEConstants ==
  /\ qdelay_ref \in Nat \ {0} /\ max_burst \in Nat \ {0}
  /\ t_update \in Nat \ {0} /\ dq_threshold \in Nat
  /\ ClockSteps \subseteq Nat /\ MaxTime \in Nat /\ MaxPackets \in Nat

VARIABLES
  now,       \* the clock
  queue,     \* the packets and counters of DroppingPacketQueue
  pie,       \* the status variables of the code
  timer,     \* history: those of a queue with a timer
  late,      \* history: a dequeue() came later than an update was due
  offered,   \* history: how many packets were offered to enqueue()
  last_out   \* history: the last packet returned by dequeue()

vars == <<now, queue, pie, timer, late, offered, last_out>>

One == 102400
DQ_COUNT_INVALID == -1

NewPIE(t) ==
  [drop_prob |-> 0, burst_allowance |-> 0, qdelay_old |-> 0, current_qdelay |-> 0,
   dq_count |-> DQ_COUNT_INVALID, dq_tstamp |-> 0, avg_dq_rate |-> 0, last_update |-> t]

Init ==
  /\ now = 1
  /\ queue = Limited!EmptyQueue
  /\ pie = NewPIE(now)
  /\ timer = NewPIE(now)
  /\ late = FALSE
  /\ offered = 0
  /\ last_out = 0

-----------------------------------------------------------------------------
Least(a, b) == IF a < b THEN a ELSE b
Most(a, b) == IF a > b THEN a ELSE b

\* alpha_ = 1/8 times how far the delay is from its target, and beta_ = 5/4
\* times its growth, both smaller while the probability is small.
Adjustment(prob, cur, old) ==
  LET weight == IF prob < One \div 100 THEN 1 ELSE IF prob < One \div 10 THEN 4 ELSE 8
  IN  (cur - qdelay_ref + 10 * (cur - old)) * weight * (One \div 1024)

\* The queue has been idle: the estimate of the rate is discarded, and a burst allowed.
Idle(s) ==
  /\ s.drop_prob = 0
  /\ s.current_qdelay < qdelay_ref \div 2
  /\ s.qdelay_old < qdelay_ref \div 2
  /\ s.avg_dq_rate > 0

\* One period of calculate_drop_prob, with so many bytes in the queue.
Update(s, bytes) ==
  LET old == s.current_qdelay
      cur == IF s.avg_dq_rate > 0 THEN bytes \div s.avg_dq_rate ELSE 0
      sum == s.drop_prob + Adjustment(s.drop_prob, cur, old)
      prob == Least(Most(sum, 0), One)
      decays == cur = 0 /\ old = 0 /\ bytes = 0 /\ sum <= One
      u == [s EXCEPT !.qdelay_old = old, !.current_qdelay = cur,
                     !.drop_prob = IF decays THEN (prob * 98) \div 100 ELSE prob,
                     !.burst_allowance = Most(0, @ - t_update),
                     !.last_update = @ + t_update]
  IN  IF Idle(u) THEN [u EXCEPT !.dq_count = DQ_COUNT_INVALID, !.avg_dq_rate = 0,
                                !.burst_allowance = max_burst]
                 ELSE u

\* The periods that have passed at time t without an update.
Missed(s, t) == IF t - s.last_update > t_update THEN (t - s.last_update - 1) \div t_update ELSE 0

\* calculate_drop_prob, had it made up for one period only.
CalculateDropProbOnce(s, bytes, t) == IF Missed(s, t) > 0 THEN Update(s, bytes) ELSE s

\* calculate_drop_prob at time t.
CalculateDropProb(s, bytes, t) ==
  LET after[n \in 0..Missed(s, t)] == IF n = 0 THEN s ELSE Update(after[n - 1], bytes)
  IN  after[Missed(s, t)]

\* The outcomes of drop_early.
DropEarly(s, bytes) ==
  IF \/ s.burst_allowance > 0
     \/ s.qdelay_old < qdelay_ref \div 2 /\ s.drop_prob < One \div 5
     \/ bytes < 2 * PACKET_SIZE
    THEN {FALSE}
    ELSE {drops \in BOOLEAN : IF drops THEN s.drop_prob > 0 ELSE s.drop_prob < One}

\* The measurement of the departure rate, with a packet of so many bytes taken
\* out and so many bytes left.
Measure(s, size, left, t) ==
  LET m == IF left >= dq_threshold /\ s.dq_count = DQ_COUNT_INVALID
             THEN [s EXCEPT !.dq_tstamp = t, !.dq_count = 0] ELSE s
      count == m.dq_count + size
      dtime == t - m.dq_tstamp
      sample == count \div dtime
  IN  IF m.dq_count = DQ_COUNT_INVALID THEN m
      ELSE IF count <= dq_threshold \/ dtime = 0 THEN [m EXCEPT !.dq_count = count]
      ELSE [m EXCEPT
              !.avg_dq_rate = IF @ = 0 THEN sample ELSE @ - @ \div 8 + sample \div 8,
              !.dq_count = IF left < dq_threshold THEN DQ_COUNT_INVALID ELSE 0,
              !.dq_tstamp = IF left < dq_threshold THEN @ ELSE t,
              !.burst_allowance = Most(0, @ - dtime)]

-----------------------------------------------------------------------------
\* Time passes; a timer makes the updates when they are due.
Tick ==
  /\ \E d \in ClockSteps : now + d <= MaxTime /\ now' = now + d
  /\ timer' = CalculateDropProb(timer, queue.bytes, now')
  /\ UNCHANGED <<queue, pie, late, offered, last_out>>

\* enqueue: the updates, then the limits, then the lot.
Enqueue(size) ==
  /\ offered < MaxPackets
  /\ offered' = offered + 1
  /\ pie' = CalculateDropProb(pie, queue.bytes, now)
  /\ LET tail == Limited!EnqueueTail(queue, [id |-> offered', size |-> size, arrival |-> now])
     IN  \E drops \in DropEarly(pie', queue.bytes) : queue' = IF drops THEN queue ELSE tail
  /\ UNCHANGED <<now, timer, late, last_out>>

\* dequeue: the packet and the measurement, then the updates.
Dequeue ==
  /\ ~Limited!Empty(queue)
  /\ queue' = Limited!Pop(queue)
  /\ last_out' = Head(queue.pkts).id
  /\ LET size == Head(queue.pkts).size
     IN  /\ pie' = CalculateDropProb(Measure(pie, size, queue'.bytes, now), queue'.bytes, now)
         /\ timer' = Measure(timer, size, queue'.bytes, now)
  /\ late' = (late \/ Missed(pie, now) > 0)
  /\ UNCHANGED <<now, offered>>

Next == Tick \/ (\E size \in Sizes : Enqueue(size)) \/ Dequeue

Spec == Init /\ [][Next]_vars

-----------------------------------------------------------------------------
(***************************************************************************)
(* Properties.                                                             *)
(***************************************************************************)
\* "In the interval [last_update_, now] no change occured in queue occupancy so
\* when this value is used (at enqueue) it will be identical to that of a
\* timer-based drop probability calculation" (pie_packet_queue.cc:133-135).
\* That is so, for the probability and all it is worked out from and however
\* many periods were missed, as long as no dequeue() comes after a missed
\* period: dequeue() makes up for it when it has taken its packet out.
SameAsTimer == ~late => CalculateDropProb(pie, queue.bytes, now) = timer

=============================================================================

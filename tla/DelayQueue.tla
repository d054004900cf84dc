----------------------------- MODULE DelayQueue ----------------------------
(***************************************************************************)
(* DelayQueue (frontend/delay_queue.cc), the ferry queue of mm-delay:      *)
(* every packet is released delay_ms_ after it was read.  Its packets are  *)
(* a sequence of release times and packets.                                *)
(***************************************************************************)
EXTENDS Integers, Sequences

NewDelayQueue(delay_ms) == [kind |-> "delay", delay_ms |-> delay_ms, held |-> <<>>]

\* read_packet, had the packet been put in front of the others.
DelayReadPacketInFront(q, p, t) ==
  {[q EXCEPT !.held = <<[release |-> t + q.delay_ms, pkt |-> p]>> \o @]}

DelayReadPacket(q, p, t) ==
  {[q EXCEPT !.held = Append(@, [release |-> t + q.delay_ms, pkt |-> p])]}

\* The packets at the head that are due are written.
DelayWritePackets(q, t) ==
  LET due == {n \in 0..Len(q.held) : \A i \in 1..n : q.held[i].release <= t}
      n == CHOOSE k \in due : \A j \in due : j <= k
  IN  {[queue |-> [q EXCEPT !.held = SubSeq(@, n + 1, Len(@))],
        out |-> [i \in 1..n |-> q.held[i].pkt]]}

\* The longest wait, numeric_limits<uint16_t>::max(), of a queue in no hurry.
NoHurry == 65535

\* Milliseconds from t until the time of a release or a switch.
Until(release, t) == IF release <= t THEN 0 ELSE release - t

DelayWaitTime(q, t) == IF q.held = <<>> THEN NoHurry ELSE Until(Head(q.held).release, t)

DelayPendingOutput(q, t) == DelayWaitTime(q, t) <= 0
=============================================================================

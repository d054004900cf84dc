----------------------------- MODULE LossQueues ----------------------------
(***************************************************************************)
(* The ferry queues that do not hold packets back: LossQueue with its two  *)
(* subclasses IIDLoss and SwitchingLink (frontend/loss_queue.cc), of       *)
(* mm-loss and mm-onoff, and MeterQueue (frontend/meter_queue.cc), of      *)
(* mm-meter.  What a random generator returns is any member of a set.      *)
(***************************************************************************)
EXTENDS DelayQueue

NewMeterQueue == [kind |-> "meter", held |-> <<>>]

\* The loss rate in percent.
NewIIDLoss(loss_rate) == [kind |-> "loss", loss_rate |-> loss_rate, held |-> <<>>]

\* on_times and off_times are the milliseconds the two exponential
\* distributions may return; a mean of 0 always gives 0.  The link is off
\* until the first wait_time(), at which its first on-time begins.
NewSwitchingLink(on_times, off_times, t) ==
  [kind |-> "onoff", on_times |-> on_times, off_times |-> off_times,
   link_is_on |-> FALSE, next_switch_time |-> t, held |-> <<>>]

\* The outcomes of drop_packet.
DropPacket(q) ==
  CASE q.kind = "meter" -> {FALSE}
    [] q.kind = "loss" -> {drops \in BOOLEAN : IF drops THEN q.loss_rate > 0 ELSE q.loss_rate < 100}
    [] q.kind = "onoff" -> {~q.link_is_on}

LossReadPacket(q, p, t) ==
  {IF drops THEN q ELSE [q EXCEPT !.held = Append(@, p)] : drops \in DropPacket(q)}

LossWritePackets(q, t) == {[queue |-> [q EXCEPT !.held = <<>>], out |-> q.held]}

\* LossQueue::wait_time and MeterQueue::wait_time.
LossWaitTime(q) == IF q.held = <<>> THEN NoHurry ELSE 0

LossPendingOutput(q) == q.held # <<>>

\* The loop of SwitchingLink::wait_time: the link switches as often as it is
\* due, each time for as long as the distribution says.  toggles are the times at which it did.
Switches(q, t) ==
  LET Longest == CHOOSE d \in q.on_times \cup q.off_times :
                   \A e \in q.on_times \cup q.off_times : e <= d
      from[on \in BOOLEAN, next \in q.next_switch_time..(t + Longest)] ==
        IF next > t THEN {[on |-> on, next |-> next, toggles |-> <<>>]}
        ELSE UNION {{[r EXCEPT !.toggles = <<next>> \o @] : r \in from[~on, next + d]} :
                      d \in IF on THEN q.off_times ELSE q.on_times}
  IN  from[q.link_is_on, q.next_switch_time]

\* The queue after that loop.
Switch(q, t) ==
  IF q.next_switch_time > t THEN {[queue |-> q, toggles |-> <<>>]}
  ELSE {[queue |-> [q EXCEPT !.link_is_on = r.on, !.next_switch_time = r.next],
         toggles |-> r.toggles] : r \in Switches(q, t)}

\* SwitchingLink::wait_time, had it not been for the next switch.
SwitchingWaitTimeUnlimited(q, t) ==
  {[queue |-> s.queue, toggles |-> s.toggles, ms |-> LossWaitTime(s.queue)] : s \in Switch(q, t)}

\* SwitchingLink::wait_time: not longer than until the next switch.
SwitchingWaitTime(q, t) ==
  {[queue |-> s.queue, toggles |-> s.toggles,
    ms |-> IF LossWaitTime(s.queue) = 0 THEN 0
           ELSE IF s.queue.next_switch_time - t > NoHurry THEN NoHurry
           ELSE s.queue.next_switch_time - t] : s \in Switch(q, t)}
=============================================================================

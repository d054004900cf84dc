---------------------------- MODULE FerryQueues ----------------------------
(***************************************************************************)
(* The FerryQueueType of a PacketShell: the queue each front end gives to  *)
(* its two ferries (frontend/delayshell.cc, lossshell.cc, onoffshell.cc,   *)
(* meter.cc, advdelayshell.cc, linkshell.cc), and its methods, whichever   *)
(* class it is of.  A front end's command line is a record.                *)
(*                                                                         *)
(* The LinkQueue of mm-link --once is here as its ferry sees it: a trace   *)
(* of opportunities, each for one packet, after which it has finished.     *)
(* The module of that name has the whole of it.                            *)
(***************************************************************************)
EXTENDS LossQueues, AdvDelayQueue

CONSTANT Forever   \* the bound of an on-time or off-time, 2^30

Sides == {"uplink", "downlink"}

\* The command lines, as their front ends read them; times are in milliseconds.
Commands ==
  [program : {"mm-delay"}, delay_ms : Nat]
    \cup [program : {"mm-meter"}]
    \cup [program : {"mm-link"}, trace : Seq(Nat)]
    \cup [program : {"mm-loss"}, link : Sides, loss_rate : Nat]
    \cup [program : {"mm-onoff"}, link : Sides, on_times : SUBSET Nat, off_times : SUBSET Nat]
    \cup [program : {"mm-adv-delay"}, delay_ms : Nat, lines : Seq(Seq(Nat))]

DelayShell(cmd, side) == NewDelayQueue(cmd.delay_ms)

\* The side that is not named loses nothing.
LossShell(cmd, side) == NewIIDLoss(IF side = cmd.link THEN cmd.loss_rate ELSE 0)

LossShellLegal(cmd) == cmd.loss_rate \in 0..100 /\ cmd.link \in Sides

\* The side that is not named is on for as long as can be, and off for no time.
OnOffShell(cmd, side) ==
  IF side = cmd.link THEN NewSwitchingLink(cmd.on_times, cmd.off_times, 0)
                     ELSE NewSwitchingLink({Forever}, {0}, 0)

OnOffShellLegal(cmd) ==
  ~(cmd.on_times = {0} /\ cmd.off_times = {0}) /\ cmd.link \in Sides

AdvDelayShell(cmd, side) ==
  NewAdvDelayQueue(cmd.delay_ms, ParseRules(cmd.lines), side = "uplink")

AdvDelayShellLegal(cmd) == \A i \in DOMAIN cmd.lines : ValidLine(cmd.lines[i])

\* The command line is not answered with an error.
Legal(cmd) ==
  CASE cmd.program = "mm-loss" -> LossShellLegal(cmd)
    [] cmd.program = "mm-onoff" -> OnOffShellLegal(cmd)
    [] cmd.program = "mm-adv-delay" -> AdvDelayShellLegal(cmd)
    [] OTHER -> TRUE

-----------------------------------------------------------------------------
NewLinkQueue(trace) == [kind |-> "link", trace |-> trace, held |-> <<>>, output |-> <<>>]

\* The opportunities up to t are used, each for the packet at the head.
Rationalize(q, t) ==
  LET used == Cardinality({i \in DOMAIN q.trace : q.trace[i] <= t})
      sent == IF used < Len(q.held) THEN used ELSE Len(q.held)
  IN  [q EXCEPT !.trace = SubSeq(@, used + 1, Len(@)),
                !.held = SubSeq(@, sent + 1, Len(@)),
                !.output = @ \o SubSeq(q.held, 1, sent)]

\* The wait of a finished link is -1 - now in 64 bits, cut to 32.
AfterTheEnd == {-1, 0, NoHurry}

LinkWaitTime(q, t) ==
  LET r == Rationalize(q, t)
  IN  {[queue |-> r, toggles |-> <<>>, ms |-> ms] :
         ms \in IF r.trace = <<>> THEN AfterTheEnd ELSE {Head(r.trace) - t}}

LinkReadPacket(q, p, t) ==
  LET r == Rationalize(q, t) IN {[r EXCEPT !.held = Append(@, p)]}

-----------------------------------------------------------------------------
NewQueue(cmd, side) ==
  CASE cmd.program = "mm-delay" -> DelayShell(cmd, side)
    [] cmd.program = "mm-loss" -> LossShell(cmd, side)
    [] cmd.program = "mm-onoff" -> OnOffShell(cmd, side)
    [] cmd.program = "mm-meter" -> NewMeterQueue
    [] cmd.program = "mm-adv-delay" -> AdvDelayShell(cmd, side)
    [] cmd.program = "mm-link" -> NewLinkQueue(cmd.trace)

\* read_packet: the possible queues, none if it throws.
ReadPacket(q, p, t) ==
  CASE q.kind = "delay" -> DelayReadPacket(q, p, t)
    [] q.kind = "adv" -> AdvReadPacket(q, p, t)
    [] q.kind = "link" -> LinkReadPacket(q, p, t)
    [] OTHER -> LossReadPacket(q, p, t)

\* write_packets: the possible pairs of a queue and the packets written.
WritePackets(q, t) ==
  CASE q.kind = "delay" -> DelayWritePackets(q, t)
    [] q.kind = "adv" -> AdvWritePackets(q, t)
    [] q.kind = "link" -> {[queue |-> [q EXCEPT !.output = <<>>], out |-> q.output]}
    [] OTHER -> LossWritePackets(q, t)

\* wait_time: the possible queues with the milliseconds, and the times at which a link switched.
WaitTime(q, t) ==
  CASE q.kind = "delay" -> {[queue |-> q, toggles |-> <<>>, ms |-> DelayWaitTime(q, t)]}
    [] q.kind = "adv" -> {[queue |-> q, toggles |-> <<>>, ms |-> AdvWaitTime(q, t)]}
    [] q.kind = "link" -> LinkWaitTime(q, t)
    [] q.kind = "onoff" -> SwitchingWaitTime(q, t)
    [] OTHER -> {[queue |-> q, toggles |-> <<>>, ms |-> LossWaitTime(q)]}

PendingOutput(q, t) ==
  CASE q.kind = "delay" -> DelayPendingOutput(q, t)
    [] q.kind = "adv" -> AdvPendingOutput(q, t)
    [] q.kind = "link" -> q.output # <<>>
    [] OTHER -> LossPendingOutput(q)

Finished(q) == q.kind = "link" /\ q.trace = <<>>
=============================================================================

------------------------------- MODULE Ferry -------------------------------
(***************************************************************************)
(* A ferry of PacketShell (packet/packetshell.cc, Ferry::loop): the event  *)
(* loop of one process that carries packets one way, from its TUN device   *)
(* through a ferry queue to its sibling's TUN device.  The loop is that of *)
(* EventLoop::internal_loop over Poller::poll; the queue is one of those   *)
(* of FerryQueues, whose operators stand for the methods it calls.         *)
(*                                                                         *)
(* Between the call of wait_time(), the test of what the actions are       *)
(* interested in, the return of poll(2) and each callback, time passes and *)
(* packets arrive.  A TUN device can always be written to.                 *)
(***************************************************************************)
EXTENDS FerryQueues, Sums

CONSTANTS
  Ferries,      \* the ferries that are run: a command line, and a direction
  Headers(_),   \* the headers of the packets that may arrive, by program
  Slack,        \* the longest the process takes, once awake, to sleep again
  MaxTime,      \* bound: the clock stays in 0..MaxTime
  MaxPackets(_) \* bound: packets that arrive, by program

\* What the queues look at of an IP packet, the two ports being those of TCP or UDP.
Header == [version : 0..15, proto : 0..255, src : Nat, dst : Nat, sport : Nat, dport : Nat,
           size : Nat]

ASSUME FerryAssumption ==
  /\ Slack \in Nat /\ MaxTime \in Nat
  /\ \A f \in Ferries :
       /\ f.command \in Commands
       /\ f.side \in Sides
       /\ Headers(f.command.program) \subseteq Header
  /\ Forever > MaxTime /\ MAX_LIM \in Nat

VARIABLES
  command,    \* the command line, which does not change
  side,       \* whether this is the uplink or the downlink ferry
  now,        \* the clock, which is not set back here
  awake,      \* how long the process has been awake
  tun,        \* packets waiting to be read from the TUN device
  signal,     \* SIGHUP, SIGTERM, SIGQUIT or SIGINT is pending at the signalfd
  queue,      \* ferry_queue
  pc,         \* where the loop is
  timeout,    \* what wait_time() returned
  interest,   \* the actions whose fd is polled, by what they do
  deadline,   \* when poll(2) times out
  events      \* the actions still to be serviced

VARIABLES     \* history
  reads,      \* packets read, with the time, and whether the queue holds them
  written,    \* packets written to the sibling, with the time
  toggles,    \* when a SwitchingLink went on or off
  saved       \* the counters an AdvDelayQueue saved in its destructor

arrivals == Len(reads) + Len(tun)

loop == <<pc, timeout, interest, deadline, events>>
history == <<reads, written, toggles, saved>>
vars == <<command, side, now, awake, tun, signal, queue, loop, history>>

Never == -1

Init ==
  /\ \E f \in Ferries : Legal(f.command) /\ command = f.command /\ side = f.side
  /\ now = 0
  /\ awake = 0
  /\ tun = <<>>
  /\ signal = FALSE
  /\ queue = NewQueue(command, side)
  /\ pc = "ask"
  /\ timeout = 0
  /\ interest = {}
  /\ deadline = Never
  /\ events = {}
  /\ reads = <<>>
  /\ written = <<>>
  /\ toggles = <<>>
  /\ saved = <<>>

-----------------------------------------------------------------------------
\* The actions poll(2) finds ready.
Ready ==
  {a \in interest : CASE a = "read" -> tun # <<>>
                      [] a = "signal" -> signal
                      [] OTHER -> TRUE}

TimedOut == deadline # Never /\ now >= deadline

Asleep == pc = "poll" /\ Ready = {} /\ ~TimedOut

\* The process has ended, or is about to.
Over == pc \in {"exited", "threw", "busy"}

\* Time passes while the process sleeps, and for at most Slack while it does not.
Tick ==
  /\ now < MaxTime /\ ~Over
  /\ Asleep \/ awake < Slack
  /\ now' = now + 1
  /\ awake' = IF Asleep THEN 0 ELSE awake + 1
  /\ UNCHANGED <<command, side, tun, signal, queue, loop, history>>

\* The packet with that header that arrives now.
NewPacket(h) ==
  [version |-> h.version, proto |-> h.proto, src |-> h.src, dst |-> h.dst, sport |-> h.sport,
   dport |-> h.dport, size |-> h.size, id |-> arrivals + 1, sent |-> now]

Arrive(h) ==
  /\ arrivals < MaxPackets(command.program) /\ ~Over
  /\ tun' = Append(tun, NewPacket(h))
  /\ UNCHANGED <<command, side, now, awake, signal, queue, loop, history>>

AskToQuit ==
  /\ ~signal /\ ~Over
  /\ signal' = TRUE
  /\ UNCHANGED <<command, side, now, awake, tun, queue, loop, history>>

-----------------------------------------------------------------------------
\* internal_loop: poll( wait_time() ).
AskWaitTime ==
  /\ pc = "ask"
  /\ \E w \in WaitTime(queue, now) :
       /\ queue' = w.queue
       /\ timeout' = w.ms
       /\ toggles' = toggles \o w.toggles
  /\ pc' = "interest"
  /\ UNCHANGED <<command, side, now, awake, tun, signal, interest, deadline, events,
                 reads, written, saved>>

\* Poller::poll up to poll(2).  The TUN device and the signalfd are always of
\* interest, so the loop never ends for want of something to poll.
Poll ==
  /\ pc = "interest"
  /\ interest' = {"read", "signal"}
                   \cup (IF PendingOutput(queue, now) THEN {"write"} ELSE {})
                   \cup (IF Finished(queue) THEN {"exit"} ELSE {})
  /\ deadline' = IF timeout < 0 THEN Never ELSE now + timeout
  /\ pc' = "poll"
  /\ UNCHANGED <<command, side, now, tun, signal, queue, timeout, events, history>>
  /\ awake' = IF Asleep' THEN 0 ELSE awake

PollTimesOut ==
  /\ pc = "poll" /\ Ready = {} /\ TimedOut
  /\ pc' = "ask"
  /\ UNCHANGED <<command, side, now, awake, tun, signal, queue, timeout, interest, deadline,
                 events, history>>

\* Had revents not been compared with events.
PollReturnsUnmasked ==
  /\ pc = "poll" /\ Ready # {}
  /\ events' = Ready \cup {"write"}
  /\ pc' = "service"
  /\ UNCHANGED <<command, side, now, awake, tun, signal, queue, timeout, interest, deadline,
                 history>>

PollReturns ==
  /\ pc = "poll" /\ Ready # {}
  /\ events' = Ready
  /\ pc' = "service"
  /\ UNCHANGED <<command, side, now, awake, tun, signal, queue, timeout, interest, deadline,
                 history>>

-----------------------------------------------------------------------------
(* The callbacks, in the order in which the actions were added. *)

\* The queue is destroyed as the loop returns or throws.
Destroy(q) == saved' = IF q.kind = "adv" THEN Saved(q) ELSE <<>>

\* read_packet may throw: the AdvDelayQueue has then counted the packet's bytes only.
ServiceRead ==
  /\ pc = "service" /\ "read" \in events
  /\ LET p == Head(tun) IN
       \/ /\ \E q \in ReadPacket(queue, p, now) :
               /\ queue' = q
               /\ reads' = Append(reads, [pkt |-> p, time |-> now, held |-> q.held # queue.held])
          /\ events' = events \ {"read"}
          /\ UNCHANGED <<pc, saved>>
       \/ /\ ReadPacket(queue, p, now) = {}
          /\ queue' = [queue EXCEPT !.num_bytes = @ + p.size]
          /\ reads' = Append(reads, [pkt |-> p, time |-> now, held |-> FALSE])
          /\ pc' = "threw"
          /\ events' = {}
          /\ Destroy(queue')
  /\ tun' = Tail(tun)
  /\ UNCHANGED <<command, side, now, awake, signal, timeout, interest, deadline, written,
                 toggles>>

\* A callback that does not write although it was called for is a busy wait,
\* which Poller takes for an error.
ServiceWrite ==
  /\ pc = "service" /\ "read" \notin events /\ "write" \in events
  /\ \E w \in WritePackets(queue, now) :
       /\ queue' = w.queue
       /\ written' = written \o [i \in DOMAIN w.out |-> [pkt |-> w.out[i], time |-> now]]
       /\ pc' = IF w.out = <<>> THEN "busy" ELSE pc
  /\ events' = events \ {"write"}
  /\ UNCHANGED <<command, side, now, awake, tun, signal, timeout, interest, deadline, reads,
                 toggles, saved>>

\* Exit with status 77 before what is ready has been written.
ServiceExitFirst ==
  /\ pc = "service" /\ "read" \notin events /\ events \cap {"exit", "signal"} # {}
  /\ pc' = "exited"
  /\ events' = {}
  /\ Destroy(queue)
  /\ UNCHANGED <<command, side, now, awake, tun, signal, queue, timeout, interest, deadline,
                 reads, written, toggles>>

\* Exit with status 77, or because of a signal.
ServiceExit ==
  /\ pc = "service" /\ events \cap {"read", "write"} = {} /\ events # {}
  /\ pc' = "exited"
  /\ events' = {}
  /\ Destroy(queue)
  /\ UNCHANGED <<command, side, now, awake, tun, signal, queue, timeout, interest, deadline,
                 reads, written, toggles>>

ServiceOver ==
  /\ pc = "service" /\ events = {}
  /\ pc' = "ask"
  /\ UNCHANGED <<command, side, now, awake, tun, signal, queue, timeout, interest, deadline,
                 events, history>>

-----------------------------------------------------------------------------
Service == ServiceRead \/ ServiceWrite \/ ServiceExit \/ ServiceOver

Loop == AskWaitTime \/ Poll \/ PollTimesOut \/ PollReturns \/ Service

Next ==
  \/ Tick
  \/ \E h \in Headers(command.program) : Arrive(h)
  \/ AskToQuit
  \/ Loop

Spec == Init /\ [][Next]_vars

-----------------------------------------------------------------------------
(***************************************************************************)
(* Properties.                                                             *)
(***************************************************************************)
\* Poller's runtime_error( "busy wait detected" ) is never thrown: what was
\* pending when the interest was tested can still be written later, whatever
\* was read in between.
NoBusyWait == pc # "busy"

\* The reads of the same connection before the ith, and their bytes.
Earlier(i) ==
  {j \in 1..(i - 1) : /\ CountedPacket(queue, reads[j].pkt)
                      /\ Connection(queue, reads[j].pkt) = Connection(queue, reads[i].pkt)}

Bytes(js) == SumOf([j \in DOMAIN reads |-> IF j \in js THEN reads[j].pkt.size ELSE 0])

\* The delay the ith packet read is due, worked out from the packets before
\* it: with a limit it depends on what the connection has sent this way.
DueDelay(i) ==
  LET p == reads[i].pkt
  IN  CASE queue.kind = "delay" -> queue.delay_ms
        [] queue.kind = "adv" /\ CountedPacket(queue, p) ->
             LET rule == queue.rules[RuleKey(queue, p, RemotePort(queue, p))]
                 lim == IF side = "uplink" THEN rule.fwd_lim ELSE rule.rev_lim
             IN  IF Bytes(Earlier(i)) < lim
                   THEN IF side = "uplink" THEN rule.fwd_delay ELSE rule.rev_delay
                   ELSE IF side = "uplink" THEN rule.fwd_alt_delay ELSE rule.rev_alt_delay
        [] queue.kind = "adv" /\ ~CountedPacket(queue, p) -> GetDelayFor(queue, p)
        [] OTHER -> 0

\* The read of a packet, and when the packet is due.
ReadOf(p) == CHOOSE i \in DOMAIN reads : reads[i].pkt = p
Due(p) == reads[ReadOf(p)].time + DueDelay(ReadOf(p))

\* Packets leave in the order of their arrival, none twice; out of a queue with
\* rules, whose delays differ, in the order in which they are due.
InOrder ==
  \A i, j \in DOMAIN written : i < j =>
    IF queue.kind = "adv"
      THEN /\ written[i].pkt.id # written[j].pkt.id
           /\ Due(written[i].pkt) <= Due(written[j].pkt)
      ELSE written[i].pkt.id < written[j].pkt.id

\* The delay is kept, whatever rule it comes from and whatever was read and
\* written before: no packet leaves before it is due, and none is held longer
\* than its delay and the time the process itself takes: to read the packet,
\* to fall asleep after it has asked how long, and to write it.
Late(p, delay, t) == t > p.sent + delay + 3 * Slack

DelayKept ==
  queue.kind # "link" =>
    /\ \A i \in DOMAIN written :
         /\ Due(written[i].pkt) <= written[i].time
         /\ ~Late(written[i].pkt, DueDelay(ReadOf(written[i].pkt)), written[i].time)
    /\ ~Over =>
         /\ \A i \in DOMAIN tun : ~Late(tun[i], 0, now)
         /\ \A i \in DOMAIN reads :
              reads[i].held /\ (\A k \in DOMAIN written : written[k].pkt # reads[i].pkt)
                => ~Late(reads[i].pkt, DueDelay(i), now)

\* The link was on at time t, as far as it is known to have switched.
OnAt(t) == Cardinality({i \in DOMAIN toggles : toggles[i] <= t}) % 2 = 1

\* Losses are those of the link: although a SwitchingLink learns that it has
\* switched only when it is asked for its wait time, a packet is dropped only if
\* the link was off, and kept only if it was on, no longer ago than the process
\* takes to fall asleep and to wake up.  The other direction loses nothing.
LossFollowsLink ==
  \A i \in DOMAIN reads :
    /\ queue.kind = "onoff" =>
         \E t \in (reads[i].time - 2 * Slack - 1)..reads[i].time : OnAt(t) = reads[i].held
    /\ queue.kind \in {"loss", "onoff"} /\ side # command.link => reads[i].held

\* Of its own accord a ferry ends only with a link that has finished, and what
\* was ready by then has been written: the exit is polled for together with
\* the write, but serviced after it.
ReadyIsWritten ==
  pc = "exited" /\ ~signal =>
    /\ queue.kind = "link"
    /\ queue.output = <<>>
    /\ Len(written) + Len(queue.held) = Len(reads)

\* However a ferry with rules ends, by a signal or by an exception, the counters
\* its queue's destructor saves are those of the packets it has read.
CountersSaved ==
  Over /\ queue.kind = "adv" =>
    /\ saved.bytes = Bytes(DOMAIN reads)
    /\ \A c \in Connections(queue.rules) :
         LET sent == {i \in DOMAIN reads : /\ CountedPacket(queue, reads[i].pkt)
                                           /\ Connection(queue, reads[i].pkt) = c}
         IN  /\ saved.per_conn[c] = Bytes(sent)
             /\ IF sent = {} THEN c \notin DOMAIN saved.pkts
                             ELSE saved.pkts[c] = Cardinality(sent)

\* A ferry that ends, in whatever way, leaves nothing undone: what was ready to
\* be written, and what had been counted (packetshell.cc:187-194,
\* adv_delay_queue.cc:21-86).
EndsTidily == ReadyIsWritten /\ CountersSaved
=============================================================================

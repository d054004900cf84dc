--------------------------- MODULE AdvDelayQueue ---------------------------
(***************************************************************************)
(* AdvDelayQueue (frontend/adv_delay_queue.cc), the ferry queue of         *)
(* mm-adv-delay, and the delay rules it is given (frontend/delay_rule.cc). *)
(* A packet is delayed by the rule for its protocol, remote address and    *)
(* port; a rule for a TCP port changes its delay once a limit of bytes is  *)
(* reached.  Rules are kept in a map from protocol, address and port.      *)
(***************************************************************************)
EXTENDS DelayQueue, SequencesExt

CONSTANT MAX_LIM   \* numeric_limits<uint64_t>::max()

ICMP == 1
TCP == 6
UDP == 17
WILDCARD_PORT == 0

\* A line of a rules file that parse_rules does not refuse: protocol, address,
\* port, two delays and perhaps, for each direction, a limit and the delay from there on.
ValidLine(line) ==
  /\ Len(line) \in 5..9
  /\ line[1] <= 255 /\ line[3] <= 65535

\* The rule of a line.  In one with nine columns the sixth and the seventh
\* are read for both directions; an eighth column alone is not looked at.
RuleOf(line) ==
  [fwd_delay |-> line[4], rev_delay |-> line[5],
   fwd_lim |-> IF Len(line) >= 7 THEN line[6] ELSE MAX_LIM,
   fwd_alt_delay |-> IF Len(line) >= 7 THEN line[7] ELSE line[4],
   rev_lim |-> IF Len(line) = 9 THEN line[6] ELSE MAX_LIM,
   rev_alt_delay |-> IF Len(line) = 9 THEN line[7] ELSE line[5]]

Key(line) == SubSeq(line, 1, 3)

\* parse_rules of a file without a line it refuses; a later line replaces an earlier one.
ParseRules(lines) ==
  [k \in {Key(lines[i]) : i \in DOMAIN lines} |->
     RuleOf(lines[Max({i \in DOMAIN lines : Key(lines[i]) = k})])]

\* The constructor sets a byte counter for every address and port with a rule.
Connections(rules) == {<<k[2], k[3]>> : k \in DOMAIN rules}

NewAdvDelayQueue(delay_ms, rules, uplink) ==
  [kind |-> "adv", delay_ms |-> delay_ms, rules |-> rules, uplink |-> uplink,
   byte_counters |-> [c \in Connections(rules) |-> 0], pkt_counters |-> <<>>,
   num_bytes |-> 0, held |-> {}]

-----------------------------------------------------------------------------
\* The other end of a packet, as seen from inside the shell.
RemoteAddress(q, p) == IF q.uplink THEN p.dst ELSE p.src
RemotePort(q, p) == IF q.uplink THEN p.dport ELSE p.sport

RuleKey(q, p, port) == <<p.proto, RemoteAddress(q, p), port>>

\* The protocol and address of a packet have a rule, for some port.
HasAddressRule(q, p) ==
  \E k \in DOMAIN q.rules : k[1] = p.proto /\ k[2] = RemoteAddress(q, p)

HasWildcardRule(q, p) == RuleKey(q, p, WILDCARD_PORT) \in DOMAIN q.rules

\* get_delay_for_tcp's counters apply: there is a rule for the very port.
CountedPacket(q, p) ==
  /\ p.version = 4 /\ p.proto = TCP
  /\ ~HasWildcardRule(q, p)
  /\ RuleKey(q, p, RemotePort(q, p)) \in DOMAIN q.rules

\* read_packet throws: get_delay_for_ipv6 compares what is the protocol of an
\* IPv4 header (in an IPv6 header a byte of the source address) with 6, or an
\* ICMP rule has a port.  A packet smaller than an IP header, of which a pointer
\* is thrown that nobody catches, does not come out of a TUN device.
Refuses(q, p) ==
  \/ p.version # 4 /\ p.proto # 6
  \/ /\ p.version = 4 /\ p.proto = ICMP
     /\ HasAddressRule(q, p) /\ ~HasWildcardRule(q, p)

BaseDelay(q, rule) == IF q.uplink THEN rule.fwd_delay ELSE rule.rev_delay

\* DelayAfter, had the limit been the last byte with the first delay.
DelayAfterBeyondLimit(q, rule, bytes) ==
  IF q.uplink
    THEN IF bytes <= rule.fwd_lim THEN rule.fwd_delay ELSE rule.fwd_alt_delay
    ELSE IF bytes <= rule.rev_lim THEN rule.rev_delay ELSE rule.rev_alt_delay

\* The delay of a connection on which bytes were sent before.
DelayAfter(q, rule, bytes) ==
  IF q.uplink
    THEN IF bytes < rule.fwd_lim THEN rule.fwd_delay ELSE rule.fwd_alt_delay
    ELSE IF bytes < rule.rev_lim THEN rule.rev_delay ELSE rule.rev_alt_delay

Connection(q, p) == <<RemoteAddress(q, p), RemotePort(q, p)>>

\* get_delay_for of a packet that is not refused.
GetDelayFor(q, p) ==
  IF CountedPacket(q, p)
    THEN DelayAfter(q, q.rules[RuleKey(q, p, RemotePort(q, p))],
                    q.byte_counters[Connection(q, p)])
  ELSE IF p.version = 4 /\ HasWildcardRule(q, p)
    THEN BaseDelay(q, q.rules[RuleKey(q, p, WILDCARD_PORT)])
  ELSE IF p.version = 4 /\ p.proto = UDP /\ RuleKey(q, p, RemotePort(q, p)) \in DOMAIN q.rules
    THEN BaseDelay(q, q.rules[RuleKey(q, p, RemotePort(q, p))])
  ELSE q.delay_ms

\* One more packet in a map of counters of connections, which may lack its own.
Plus(counters, c, n) ==
  [d \in DOMAIN counters \cup {c} |->
     (IF d \in DOMAIN counters THEN counters[d] ELSE 0) + (IF d = c THEN n ELSE 0)]

\* get_delay_for_tcp's counters.
Counted(q, p) ==
  IF ~CountedPacket(q, p) THEN q
  ELSE [q EXCEPT !.byte_counters = Plus(@, Connection(q, p), p.size),
                 !.pkt_counters = Plus(@, Connection(q, p), 1)]

AdvReadPacket(q, p, t) ==
  IF Refuses(q, p) THEN {}
  ELSE {[Counted(q, p) EXCEPT
           !.num_bytes = @ + p.size,
           !.held = @ \cup {[release |-> t + GetDelayFor(q, p), pkt |-> p]}]}

\* A priority queue: in the order of the release times, packets with the same
\* release time in any order.
AdvWritePackets(q, t) ==
  LET due == {h \in q.held : h.release <= t}
  IN  {[queue |-> [q EXCEPT !.held = @ \ due], out |-> [i \in DOMAIN s |-> s[i].pkt]] :
         s \in {r \in SetToSeqs(due) : \A i, j \in DOMAIN r : i < j => r[i].release <= r[j].release}}

AdvWaitTime(q, t) ==
  IF q.held = {} THEN NoHurry ELSE Until(Min({h.release : h \in q.held}), t)

AdvPendingOutput(q, t) == AdvWaitTime(q, t) <= 0

\* What the destructor saves: all bytes, bytes and packets of each connection.
Saved(q) == [bytes |-> q.num_bytes, per_conn |-> q.byte_counters, pkts |-> q.pkt_counters]
=============================================================================

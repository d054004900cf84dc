------------------------------ MODULE MCFerry ------------------------------
(***************************************************************************)
(* The command lines and the packets of Ferry for TLC.                     *)
(***************************************************************************)
EXTENDS Ferry

Plain == [version |-> 4, proto |-> TCP, src |-> 1, dst |-> 1, sport |-> 80, dport |-> 80, size |-> 40]

\* Two connections of one address with rules, each with a limit of bytes;
\* an address whose rule is for every port; one with a rule for ICMP and for UDP.
MCLines ==
  << <<TCP, 1, 80, 2, 1, 40, 0>>, <<TCP, 1, 443, 1, 1, 30, 2, 9, 9>>,
     <<UDP, 2, 80, 0, 1>>, <<ICMP, 2, WILDCARD_PORT, 0, 2>>, <<ICMP, 1, 7, 1, 1>> >>

MCDelay == [program |-> "mm-delay", delay_ms |-> 2]
MCMeter == [program |-> "mm-meter"]
MCLink == [program |-> "mm-link", trace |-> <<1, 3, 3>>]
MCLoss == [program |-> "mm-loss", link |-> "uplink", loss_rate |-> 50]
MCNoLoss == [program |-> "mm-loss", link |-> "uplink", loss_rate |-> 101]
MCOnOff == [program |-> "mm-onoff", link |-> "downlink", on_times |-> {1, 2}, off_times |-> {0, 2}]
MCAdvDelay == [program |-> "mm-adv-delay", delay_ms |-> 1, lines |-> MCLines]

MCFerries ==
  [command : {MCDelay, MCMeter, MCLink}, side : {"uplink"}]
    \cup [command : {MCLoss, MCNoLoss, MCOnOff, MCAdvDelay}, side : Sides]

MCHeaders(program) ==
  IF program # "mm-adv-delay" THEN {Plain}
  ELSE {Plain,
        [Plain EXCEPT !.sport = 443, !.dport = 443],
        [Plain EXCEPT !.proto = UDP, !.dst = 2],
        [Plain EXCEPT !.proto = ICMP, !.dst = 2],
        [Plain EXCEPT !.version = 6, !.proto = 6],
        [Plain EXCEPT !.version = 6, !.proto = 128]}

MCMaxPackets(program) == IF program \in {"mm-delay", "mm-meter", "mm-link"} THEN 3 ELSE 2
=============================================================================

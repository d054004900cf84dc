--------------------------- MODULE ShellPrograms ---------------------------
(***************************************************************************)
(* The programs of mahimahi as the sequences of statements that acquire,   *)
(* hand over and need something: the mains of src/frontend, the processes  *)
(* of PacketShell (packet/packetshell.cc) and those of mm-webrecord,       *)
(* mm-proxy and mm-webreplay.  Shell.tla says what a statement does.       *)
(*                                                                         *)
(* A program has the processes main; first, the child in the new network   *)
(* namespace; second, its sibling outside; dnsmasq; and command, which is  *)
(* what the user asked to run.  A statement is a tuple of a kind and of    *)
(* what it is about:                                                       *)
(*   clear, restore, drop       the environment and the privileges         *)
(*   try, user_try              calls that may throw and leave nothing     *)
(*                              behind; the second kind asserts that the   *)
(*                              process is not root.  Such calls are part  *)
(*                              of the statement after them when there is  *)
(*                              one that may throw                         *)
(*   check                      a test of the environment                  *)
(*   run                        a command run to its end by root           *)
(*   object, event_loop         a local object is constructed; its kinds   *)
(*                              include the blocks without privileges and  *)
(*                              with the user's environment, and threads   *)
(*   leave                      the end of the last object's block         *)
(*   fork, adopt                a child; its move into the event loop      *)
(*   give, disown               the veth device moves into the namespace   *)
(*   send, receive              a message between parent and child, which  *)
(*                              the receiver waits for                     *)
(*   loop                       EventLoop::loop                            *)
(*   exec                       ezexec of a command, with or without PATH  *)
(***************************************************************************)
EXTENDS Naturals, Sequences

CONSTANT WebServers   \* bound: the web servers of a recording, in their order

\* What else a process may construct.
OtherObjects == {"unprivileged", "borrow", "threads", "pipe", "hosts", "veth", "nat_pre", "nat_post", "dnat"}

\* The names of the servers are not theirs.
ASSUME ServersAssumption ==
  /\ WebServers \in Seq(STRING)
  /\ \A i \in DOMAIN WebServers : WebServers[i] \notin OtherObjects

Sides == {"uplink", "downlink"}

-----------------------------------------------------------------------------
(* What the command line asks of the queues of the two sides.              *)

\* The fields are: the ferries end when the traces do; the sides whose
\* queue starts graph threads.
Quiet == [once |-> FALSE, metered |-> {}]

\* mm-meter: --meter-uplink and --meter-downlink; mm-link's --meter-all is both.
MeterArguments(options) ==
  [Quiet EXCEPT !.metered = {s \in Sides : <<"meter", s>> \in options}]

\* mm-link: the other options that matter here.
LinkArguments(options) ==
  [once    |-> <<"once", "both">> \in options,
   metered |-> {s \in Sides : <<"meter-delay", s>> \in options} \cup MeterArguments(options).metered]

-----------------------------------------------------------------------------
(* PacketShell.                                                            *)

\* The start of every main.
Checked == << <<"clear">>, <<"check">> >>

\* EventLoop::loop; it is unprivileged only as long as it runs.
Loop == << <<"loop">> >>

\* PacketShell::PacketShell: the addresses, which need the user's
\* MAHIMAHI_BASE; the TUN device and the DNS proxy; the two NAT rules; the
\* event loop, last.
Construct ==
  << <<"object", "unprivileged">>, <<"object", "borrow">>, <<"leave">>, <<"leave">>,
     <<"object", "nat_pre">>, <<"object", "nat_post">>, <<"event_loop">>, <<"check">> >>

\* mm-delay, mm-loss, mm-onoff, mm-meter, mm-link and mm-adv-delay; a
\* queue of mm-link is made from its name, which may be unknown, as its side is started.
PacketMain ==
  Checked \o Construct
    \o << <<"fork", "first">>, <<"adopt", "first">>, <<"fork", "second">>, <<"adopt", "second">> >>
    \o Loop

\* A side's queue; a LinkQueue's or MeterQueue's graphs have threads.
Queue(args, side) == IF side \in args.metered THEN << <<"object", "threads">> >> ELSE <<>>

\* Had the queue, and with it the threads of its graphs, been made before the command was forked.
UplinkQueueFirst(args) ==
  << <<"event_loop">>,
     <<"fork", "dnsmasq">>, <<"adopt", "dnsmasq">>,
     <<"drop">>, <<"restore">>,
     <<"object", "threads">>, <<"fork", "command">>, <<"adopt", "command">>, <<"send", "tun">> >> \o Loop

\* The child of start_uplink: its TUN device and route; the ferry; the inner
\* DNS proxy and dnsmasq; the command; its TUN device for the downlink; the queue.
Uplink(args) ==
  << <<"event_loop">>,
     <<"fork", "dnsmasq">>, <<"adopt", "dnsmasq">>,
     <<"drop">>, <<"restore">>,
     <<"fork", "command">>, <<"adopt", "command">>, <<"send", "tun">> >>
    \o Queue(args, "uplink") \o Loop

\* The child of start_downlink.
Downlink(args) ==
  << <<"drop">>, <<"restore">>, <<"receive", "tun">>, <<"event_loop">> >>
    \o Queue(args, "downlink") \o Loop

\* start_dnsmasq and run: a command of root's.
RootCommand == << <<"exec", "absolute">> >>

\* The command of PacketShell inherits the environment its parent restored.
InheritedCommand == << <<"exec", "path">> >>

-----------------------------------------------------------------------------
(* mm-webrecord and mm-proxy.                                              *)

\* Had the devices been left to the kernel before one is in the namespace.
RecordMainDisownsFirst ==
  Checked
    \o << <<"object", "veth">>,
          <<"object", "nat_pre">>, <<"object", "nat_post">>,
          <<"object", "dnat">>, <<"event_loop">>,
          <<"object", "pipe">>, <<"fork", "first">>, <<"disown">>, <<"give">>,
          <<"send", "go">>, <<"adopt", "first">>, <<"leave">>,
          <<"fork", "second">>, <<"adopt", "second">> >> \o Loop

\* The veth pair and its address; the NAT rules; the HTTP proxy; the DNAT
\* rule; the event loop; the container, which waits until its device is in its namespace.
RecordMain ==
  Checked
    \o << <<"object", "veth">>,
          <<"object", "nat_pre">>, <<"object", "nat_post">>,
          <<"object", "dnat">>, <<"event_loop">>,
          <<"object", "pipe">>, <<"fork", "first">>, <<"give">>, <<"disown">>,
          <<"send", "go">>, <<"adopt", "first">>, <<"leave">>,
          <<"fork", "second">>, <<"adopt", "second">> >> \o Loop

ProxyMain == RecordMain

\* "recordshell": device, route, DNS proxy, the user's command.
Container ==
  << <<"receive", "go">>, <<"drop">>, <<"event_loop">>,
     <<"fork", "command">>, <<"adopt", "command">> >> \o Loop

\* "proxyshell".
ProxyContainer == Container

\* The command of a container restores the environment itself.
RestoringCommand == << <<"restore">>, <<"exec", "path">> >>

\* "recorder": it makes the directory as the user, serves, and writes what TimeLogger saw.
Recorder ==
  << <<"drop">>, <<"user_try">>, <<"event_loop">> >> \o Loop \o << <<"try">> >>

\* "proxy".
ProxyServer == << <<"drop">>, <<"event_loop">> >> \o Loop \o << <<"try">> >>

-----------------------------------------------------------------------------
(* mm-webreplay, with or without a delay of the servers.                   *)

Servers == [i \in DOMAIN WebServers |-> <<"object", WebServers[i]>>]

\* The namespace; the recording, read as the user; the interfaces; the
\* servers; the hosts file; the event loop; dnsmasq; the command.
ReplayMain ==
  Checked
    \o << <<"object", "unprivileged">>, <<"user_try">>, <<"leave">>, <<"run">> >>
    \o Servers
    \o << <<"object", "hosts">>, <<"event_loop">>, <<"run">>,
          <<"fork", "dnsmasq">>, <<"adopt", "dnsmasq">>,
          <<"fork", "command">>, <<"adopt", "command">> >> \o Loop

ReplayDelayMain == ReplayMain

\* The command of mm-webreplay drops the privileges itself.
DroppingCommand == << <<"drop">>, <<"restore">>, <<"exec", "path">> >>

-----------------------------------------------------------------------------
\* The statements of process p of a program.
Script(prog, p) ==
  CASE prog.name = "packet" ->
         (CASE p = "main" -> PacketMain [] p = "first" -> Uplink(prog.args)
            [] p = "second" -> Downlink(prog.args) [] p = "dnsmasq" -> RootCommand
            [] OTHER -> InheritedCommand)
    [] prog.name = "record" ->
         (CASE p = "main" -> RecordMain [] p = "first" -> Container
            [] p = "second" -> Recorder [] OTHER -> RestoringCommand)
    [] prog.name = "proxy" ->
         (CASE p = "main" -> ProxyMain [] p = "first" -> ProxyContainer
            [] p = "second" -> ProxyServer [] OTHER -> RestoringCommand)
    [] prog.name = "replay" ->
         (CASE p = "main" -> ReplayMain [] p = "dnsmasq" -> RootCommand [] OTHER -> DroppingCommand)
    [] OTHER ->
         (CASE p = "main" -> ReplayDelayMain [] p = "dnsmasq" -> RootCommand
            [] OTHER -> DroppingCommand)
=============================================================================

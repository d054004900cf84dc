------------------------------ MODULE MCShell ------------------------------
\* Shell for TLC: the programs, with the options of mm-link and mm-meter that
\* change what is started.
EXTENDS Shell

Packet(args) == [name |-> "packet", args |-> args]
Other(name) == [name |-> name, args |-> Quiet]

MCServers == <<"server1", "server2">>

MCPrograms ==
  {Packet(LinkArguments({<<"once", "both">>, <<"meter", "uplink">>})),
   Other("record"), Other("replay")}
=============================================================================

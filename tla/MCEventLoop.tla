---------------------------- MODULE MCEventLoop ----------------------------
(***************************************************************************)
(* Constants of EventLoop for TLC: two children of add_child_process, as   *)
(* in the shells, and the two ferries of PacketShell, which may exit with  *)
(* status 77.                                                              *)
(***************************************************************************)
EXTENDS EventLoop

NormalChildren == [c \in Children |-> -1]
FerryChildren == [c \in Children |-> 77]
=============================================================================

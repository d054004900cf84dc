--------------------------- MODULE MCActiveQueues --------------------------
(***************************************************************************)
(* Constants of ActiveQueues for TLC.  CoDel's clock may be set back.      *)
(***************************************************************************)
EXTENDS ActiveQueues

MCClockSteps == [codel |-> {1, 2, -1}, pie |-> {1, 4}]
MCMaxTime == [codel |-> 8, pie |-> 10]
MCMaxPackets == [codel |-> 10, pie |-> 5]
=============================================================================

---------------------------- MODULE MCLinkQueue ----------------------------
(***************************************************************************)
(* Constants of LinkQueue for TLC.                                         *)
(***************************************************************************)
EXTENDS LinkQueue

\* A trace that starts at 0, one with two opportunities in one millisecond,
\* and one of a single line.
MCSchedules == {<<0, 2>>, <<1, 1, 3>>, <<2>>}

Forward == {1, 2}
ForwardAndBack == {1, 2, -1}
=============================================================================

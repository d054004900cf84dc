----------------------------- MODULE TimeLogger ----------------------------
(***************************************************************************)
(* The timers all connections share (timelogger.hh): two maps of starting  *)
(* moments, written under the mutex of the start, read under none, and     *)
(* what was measured.  Both maps are kept the same way, so an operator     *)
(* says which one it is about: "rtt", by server address, or "load", by the *)
(* URL of the request's first line.  A moment is a number; a measurement   *)
(* is the start it was taken from.                                         *)
(***************************************************************************)
EXTENDS Naturals, Sequences

\* A map in which the key has this value.
With(map, key, value) == [k \in DOMAIN map \cup {key} |-> IF k = key THEN value ELSE map[k]]

NewTimeLogger == [start |-> [rtt |-> <<>>, load |-> <<>>], measured |-> [rtt |-> <<>>, load |-> <<>>]]

\* What operator[] makes of a key that is missing: the epoch.
Epoch == 0

\* A logger that keeps the first start of a key.
StartTimerOnce(logger, timer, key, now) ==
  IF key \in DOMAIN logger.start[timer] THEN logger
  ELSE [logger EXCEPT !.start[timer] = With(@, key, now)]

\* startRttTimer, startObjLoadTimer: the last start of a key counts.
StartTimer(logger, timer, key, now) ==
  [logger EXCEPT !.start[timer] = With(@, key, now)]

StartOf(logger, timer, key) ==
  IF key \in DOMAIN logger.start[timer] THEN logger.start[timer][key] ELSE Epoch

\* stopRttTimer, stopObjLoadTimer, once the start has been looked up.
StopTimer(logger, timer, key, started) ==
  [logger EXCEPT !.measured[timer] = Append(@, [key |-> key, started |-> started])]
=============================================================================

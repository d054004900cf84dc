---------------------------- MODULE ActiveQueues ---------------------------
(***************************************************************************)
(* The packet queues of mm-link that manage their length: get_packet_queue *)
(* (frontend/linkshell.cc) makes one or the other, by its name, of         *)
(* CoDelQueue and PIEQueue, and the link knows only enqueue and dequeue.   *)
(* Only the variables of the queue that was made change.                   *)
(***************************************************************************)
EXTENDS Integers, Sequences

CONSTANTS
  PacketLimit, ByteLimit, PACKET_SIZE, Sizes,    \* of both
  target, interval, Word, ArrivalTimes,          \* of CoDel
  qdelay_ref, max_burst, t_update, dq_threshold, \* of PIE
  ClockSteps, MaxTime, MaxPackets                \* bounds of each, by its name

VARIABLES
  type,                                          \* the name of the queue
  now, queue, offered, last_out,                 \* of both
  first_above_time, drop_next, count, lastcount, dropping, pc, result,
  above_since, last_drop,                        \* of CoDel
  pie, timer, late                               \* of PIE

codel_vars == <<first_above_time, drop_next, count, lastcount, dropping, pc, result,
                above_since, last_drop>>
pie_vars == <<pie, timer, late>>
vars == <<type, now, queue, offered, last_out, codel_vars, pie_vars>>

CoDel == INSTANCE CoDelQueue WITH
  ClockSteps <- ClockSteps["codel"], MaxTime <- MaxTime["codel"], MaxPackets <- MaxPackets["codel"]
PIE == INSTANCE PIEQueue WITH
  ClockSteps <- ClockSteps["pie"], MaxTime <- MaxTime["pie"], MaxPackets <- MaxPackets["pie"]

ASSUME ActiveQueuesAssumption == CoDel!CoDelConstants /\ PIE!PIEConstants

Init == type \in {"codel", "pie"} /\ CoDel!Init /\ PIE!Init

Next ==
  \/ type = "codel" /\ CoDel!Next /\ UNCHANGED <<type, pie_vars>>
  \/ type = "pie" /\ PIE!Next /\ UNCHANGED <<type, codel_vars>>

Spec == Init /\ [][Next]_vars

-----------------------------------------------------------------------------
(***************************************************************************)
(* Properties of the queues, as CoDelQueue and PIEQueue state them.        *)
(***************************************************************************)

\* CoDel discards only after an interval without a break above target.
DropsUnderPressure == CoDel!DropsUnderPressure

\* CoDel's drops are not ahead of the schedule of an ideal controller.
DropsOnSchedule == CoDel!DropsOnSchedule

\* CoDel does not discard the only packet it has.
OnlyPacketIsKept == CoDel!OnlyPacketIsKept

\* PIE without a timer works out what it would with one, unless a dequeue() is late.
SameAsTimer == type = "pie" => PIE!SameAsTimer
=============================================================================

------------------------------ MODULE LiveGraph ----------------------------
(***************************************************************************)
(* BinnedLiveGraph, with the parts of Graph and XWindow it calls: the      *)
(* thread of a ferry that counts packets, the animation thread that draws  *)
(* what was counted, and the X server that shows it.                       *)
(*                                                                         *)
(* A step of advance() is a bin, as the mutex is kept for all of them      *)
(* while Graph::data_mutex_ is taken for each.  There is one line; a value *)
(* is what was counted, before it becomes a rate; where things are drawn   *)
(* is left out.  The clock is not set back.  A present gives rise to two   *)
(* events of the X server, in either order; since both are waited for, the *)
(* three pixmaps that take turns are never in use when they are drawn.     *)
(***************************************************************************)
EXTENDS Integers, Sequences, FiniteSets, Sums

CONSTANTS
  Kinds,         \* "rate" sums what is counted in a bin, "delay" keeps the greatest
  Width,         \* bin_width_ms_
  LogicalWidth,  \* logical_width(), and the second blocking_draw adds to it
  Amounts,       \* what may be counted
  MaxCalls,      \* bound on the calls
  LastTime       \* bound on the clock

\* The bins of the two queues are of 250 or 500 milliseconds; a width of 0 would divide by 0.
\* What is counted is unsigned.
LiveGraphConstants ==
  Width \in Nat \ {0} /\ LogicalWidth \in Nat /\ Amounts \subseteq Nat

ASSUME LiveGraphAssumption == LiveGraphConstants

VARIABLES
  kind,      \* the member of Kinds
  clock,     \* timestamp()
  main,      \* where the ferry's thread is
  adding,    \* the call it is in: its amount, and when it began
  animator,  \* where the animation thread is
  mutex,     \* who holds mutex_
  ts,        \* the time each thread read in advance()
  halt,      \* halt_
  value,     \* value_this_bin_
  bin,       \* current_bin_
  points,    \* Graph::data_points_: pairs of a time and a value
  owed,      \* the events the X server still owes: "complete" and "idle"
  calls,     \* bound: how many calls there have been
  landed     \* history: what each call has counted, in order, and its bin

ferry == <<main, adding, calls, landed>>
bins == <<mutex, ts, value, bin, points>>
graph_vars == <<kind, clock, ferry, animator, bins, halt, owed>>

Nobody == "nobody"
\* What initialize_new_bin_ makes of a bin.
NewBinValue == IF kind = "rate" THEN 0 ELSE 0 - 1

NoAdding == [amount |-> 0, began |-> 0]

\* The members up to the thread have been initialised.
GraphInit ==
  /\ kind \in Kinds
  /\ clock \in 0 .. Width
  /\ main = "construct"
  /\ adding = NoAdding
  /\ animator = "loop"
  /\ mutex = Nobody
  /\ ts = [t \in {"main", "animator"} |-> 0]
  /\ halt = FALSE
  /\ value = 0
  /\ bin = clock \div Width
  /\ points = <<>>
  /\ owed = {}
  /\ calls = 0
  /\ landed = <<>>

Crashed == main = "crashed"

TimePasses ==
  /\ clock < LastTime /\ ~Crashed
  /\ clock' = clock + 1
  /\ UNCHANGED <<kind, ferry, animator, bins, halt, owed>>

-----------------------------------------------------------------------------
(***************************************************************************)
(* advance(), which both threads call.                                     *)
(***************************************************************************)
Place(t) == IF t = "main" THEN main ELSE animator

Lock(t) ==
  /\ Place(t) = "advance" /\ ~Crashed
  /\ mutex = Nobody
  /\ mutex' = t
  /\ ts' = [ts EXCEPT ![t] = clock]
  /\ UNCHANGED <<kind, clock, ferry, animator, value, bin, points, halt, owed>>

Point == <<(bin + 1) * Width, value>>
AddPoint(p) == points' = Append(points, p)

\* A bin that is reset before its point is added.
NewBinFirst(t) ==
  /\ mutex = t /\ bin < ts[t] \div Width
  /\ main # "construct"
  /\ AddPoint(<<(bin + 1) * Width, NewBinValue>>)
  /\ value' = NewBinValue
  /\ bin' = bin + 1
  /\ UNCHANGED <<kind, clock, ferry, animator, mutex, ts, halt, owed>>

NewBin(t) ==
  /\ mutex = t /\ bin < ts[t] \div Width
  /\ main # "construct"
  /\ AddPoint(Point)
  /\ value' = NewBinValue
  /\ bin' = bin + 1
  /\ UNCHANGED <<kind, clock, ferry, animator, mutex, ts, halt, owed>>

\* initialize_new_bin_ is constructed after the thread that calls it is started: called
\* before that it crashes, or throws, which ends the animation.
NewBinTooEarly ==
  /\ mutex = "animator" /\ bin < ts["animator"] \div Width
  /\ main = "construct"
  /\ AddPoint(Point)
  /\ mutex' = Nobody
  /\ \/ animator' = "threw" /\ UNCHANGED main
     \/ main' = "crashed" /\ UNCHANGED animator
  /\ UNCHANGED <<kind, clock, adding, calls, landed, ts, value, bin, halt, owed>>

Advanced(t) == mutex = t /\ bin >= ts[t] \div Width /\ mutex' = Nobody

-----------------------------------------------------------------------------
(***************************************************************************)
(* The ferry's thread: the rest of the constructor, add_value_now and      *)
(* set_max_value_now, and the destructor.                                  *)
(***************************************************************************)
Construct ==
  /\ main = "construct"
  /\ main' = "first point"
  /\ UNCHANGED <<kind, clock, adding, calls, landed, animator, bins, halt, owed>>

FirstPoint ==
  /\ main = "first point"
  /\ main' = "idle"
  /\ AddPoint(<<0, 0>>)
  /\ UNCHANGED <<kind, clock, adding, calls, landed, animator, mutex, ts, value, bin, halt, owed>>

\* A call that does not bring the bins up to date.
CallUpdate(amount) ==
  /\ main = "idle" /\ ~halt /\ calls < MaxCalls
  /\ main' = "update"
  /\ adding' = [amount |-> amount, began |-> clock]
  /\ calls' = calls + 1
  /\ UNCHANGED <<kind, clock, landed, animator, bins, halt, owed>>

Call(amount) ==
  /\ main = "idle" /\ ~halt /\ calls < MaxCalls
  /\ main' = "advance"
  /\ adding' = [amount |-> amount, began |-> clock]
  /\ calls' = calls + 1
  /\ UNCHANGED <<kind, clock, landed, animator, bins, halt, owed>>

MainAdvanced ==
  /\ Advanced("main")
  /\ main' = "update"
  /\ ts' = [ts EXCEPT !["main"] = 0]
  /\ UNCHANGED <<kind, clock, adding, calls, landed, animator, value, bin, points, halt, owed>>

\* The mutex is taken again: the bins may have moved on since.
Update ==
  /\ main = "update" /\ mutex = Nobody
  /\ main' = "idle"
  /\ adding' = NoAdding
  /\ value' = IF kind = "rate" THEN value + adding.amount
              ELSE IF value < adding.amount THEN adding.amount ELSE value
  /\ landed' = Append(landed, [amount |-> adding.amount, bin |-> bin])
  /\ UNCHANGED <<kind, clock, calls, animator, mutex, ts, bin, points, halt, owed>>

Destroy ==
  /\ main = "idle"
  /\ halt' = TRUE
  /\ main' = "join"
  /\ UNCHANGED <<kind, clock, adding, calls, landed, animator, bins, owed>>

Join ==
  /\ main = "join" /\ animator \in {"done", "threw"}
  /\ main' = "over"
  /\ UNCHANGED <<kind, clock, adding, calls, landed, animator, bins, halt, owed>>

-----------------------------------------------------------------------------
(***************************************************************************)
(* The animation thread: animation_loop, blocking_draw and present.        *)
(***************************************************************************)
LoopForever ==
  /\ animator = "loop" /\ ~Crashed
  /\ animator' = "advance"
  /\ UNCHANGED <<kind, clock, ferry, bins, halt, owed>>

Loop ==
  /\ animator = "loop" /\ ~Crashed
  /\ animator' = IF halt THEN "done" ELSE "advance"
  /\ UNCHANGED <<kind, clock, ferry, bins, halt, owed>>

AnimatorAdvanced ==
  /\ Advanced("animator")
  /\ animator' = "draw"
  /\ UNCHANGED <<kind, clock, ferry, ts, value, bin, points, halt, owed>>

Old(p) == p[1] < ts["animator"] - LogicalWidth

\* The front goes while the point after it is old too.
Popped ==
  CHOOSE k \in 0 .. Len(points) :
    /\ k < Len(points) \/ k = 0
    /\ \A i \in 1 .. k : Old(points[i]) /\ Old(points[i + 1])
    /\ k + 1 < Len(points) => ~(Old(points[k + 1]) /\ Old(points[k + 2]))

Draw ==
  /\ animator = "draw" /\ ~Crashed
  /\ points' = SubSeq(points, Popped + 1, Len(points))
  /\ ts' = [ts EXCEPT !["animator"] = 0]
  /\ animator' = "present"
  /\ UNCHANGED <<kind, clock, ferry, mutex, value, bin, halt, owed>>

\* present() waits for the completion of the last one.
Present ==
  /\ animator = "present" /\ ~Crashed
  /\ "complete" \notin owed
  /\ owed' = owed \cup {"complete", "idle"}
  /\ animator' = "shown"
  /\ UNCHANGED <<kind, clock, ferry, bins, halt>>

Shown ==
  /\ animator = "shown" /\ ~Crashed
  /\ "idle" \notin owed
  /\ animator' = "loop"
  /\ UNCHANGED <<kind, clock, ferry, bins, halt, owed>>

XEvent ==
  /\ owed # {} /\ ~Crashed
  /\ \E e \in owed : owed' = owed \ {e}
  /\ UNCHANGED <<kind, clock, ferry, animator, bins, halt>>

-----------------------------------------------------------------------------
Main ==
  \/ Construct \/ FirstPoint \/ MainAdvanced \/ Update \/ Join
  \/ Lock("main") \/ NewBin("main")

Animator ==
  \/ Loop \/ AnimatorAdvanced \/ Draw \/ Present \/ Shown \/ NewBinTooEarly
  \/ Lock("animator") \/ NewBin("animator")

GraphNext == TimePasses \/ Main \/ Animator \/ XEvent \/ Destroy \/ (\E amount \in Amounts : Call(amount))

GraphSpec == GraphInit /\ [][GraphNext]_graph_vars

\* Both threads are scheduled, mutex_ is granted to a thread that keeps asking, and
\* the X server sends its events.
FairGraphSpec ==
  /\ GraphSpec
  /\ WF_graph_vars(Main) /\ WF_graph_vars(Animator) /\ WF_graph_vars(XEvent)
  /\ SF_graph_vars(Lock("main")) /\ SF_graph_vars(Lock("animator")) /\ SF_graph_vars(Update)

-----------------------------------------------------------------------------
(***************************************************************************)
(* Properties.                                                             *)
(***************************************************************************)
CountedIn(b) == {l \in DOMAIN landed : landed[l].bin = b}

Total(b) == SumOf([l \in DOMAIN landed |-> IF landed[l].bin = b THEN landed[l].amount ELSE 0])

Greatest(b, v) ==
  /\ \E l \in CountedIn(b) : v = landed[l].amount
  /\ \A l \in CountedIn(b) : landed[l].amount <= v

\* binned_livegraph.cc:85-101, graph.cc:62-72: every bin that is over and still on the
\* screen, and in which something was counted, has one point, with all of that,
\* although two threads advance the bins and one of them drops the points that have
\* left the screen.
BinsAreDrawnOnce ==
  animator # "threw" /\ ~Crashed =>
    \A b \in 0 .. bin - 1 :
      LET of == {i \in DOMAIN points : points[i][1] = (b + 1) * Width}
      IN CountedIn(b) # {} /\ (b + 1) * Width >= clock - LogicalWidth =>
           /\ Cardinality(of) = 1
           /\ \A i \in of :
                IF kind = "rate" THEN points[i][2] = Total(b) ELSE Greatest(b, points[i][2])

\* binned_livegraph.cc:107: advance() gives up the lock before the value is added, so
\* the bin may be a later one than that of the call, but never an earlier one, nor one
\* that has not begun.
CountedOnTime ==
  [][landed' # landed => adding.began \div Width <= bin /\ bin <= clock \div Width]_graph_vars

\* binned_livegraph.cc:131: the destructor, and with it the end of the ferry, comes back.
Destroyed == (main = "join") ~> (main = "over")
=============================================================================

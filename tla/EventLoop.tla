----------------------------- MODULE EventLoop -----------------------------
(***************************************************************************)
(* The supervision of child processes by EventLoop (util/event_loop.cc)    *)
(* and ChildProcess (util/child_process.cc): a parent that blocks its      *)
(* signals, reads them one by one from a signalfd, and follows its         *)
(* children as they stop, continue and exit, until one of them ends the    *)
(* loop; then the destructors take the rest of the children down.          *)
(*                                                                         *)
(* The other file descriptors of the loop are left out.  The kernel's part *)
(* is external: a blocked signal is pending once however often it was      *)
(* sent, and a child has at most one change of state to wait for, the last *)
(* one.  Signals are read in any order.                                    *)
(***************************************************************************)
EXTENDS Integers

CONSTANTS
  NumChildren,     \* child_processes_, in the order in which they were added
  ContinueStatus,  \* the status a child may exit with; -1 from add_child_process
  Statuses,        \* the statuses children exit with
  MaxStops         \* bound: how often children are stopped from outside

Children == 1..NumChildren

EventLoopConstants ==
  /\ NumChildren \in Nat \ {0}
  /\ ContinueStatus \in [Children -> Int]
  /\ Statuses \subseteq Nat
  /\ MaxStops \in Nat

ASSUME EventLoopAssumption == EventLoopConstants

VARIABLES
  os,          \* kernel: each child's state
  change,      \* kernel: the change of state waitid has to report, if any
  code,        \* kernel: the status of a child that exited
  doomed,      \* kernel: the child was sent its termination signal
  pending,     \* kernel: the signals pending for the parent
  self,        \* kernel: the parent is running or stopped
  stops,       \* how often children were stopped
  running,     \* running_ of each child
  terminated,  \* terminated_ of each child
  pc,          \* where the parent is
  at,          \* the child its loop is at
  outcome      \* how internal_loop ended

processes == <<os, change, code, doomed, stops>>
parent == <<running, terminated, pc, at, outcome>>
loop_vars == <<processes, pending, self, parent>>

LoopInit ==
  /\ os = [c \in Children |-> "running"]
  /\ change = [c \in Children |-> "none"]
  /\ code = [c \in Children |-> 0]
  /\ doomed = [c \in Children |-> FALSE]
  /\ pending = {}
  /\ self = "running"
  /\ stops = 0
  /\ running = [c \in Children |-> TRUE]
  /\ terminated = [c \in Children |-> FALSE]
  /\ pc = "poll"
  /\ at = 1
  /\ outcome = "none"

-----------------------------------------------------------------------------
(* The children and the user, by way of the kernel. *)

ChildExits(c) ==
  /\ os[c] = "running"
  /\ os' = [os EXCEPT ![c] = "zombie"]
  /\ change' = [change EXCEPT ![c] = "exited"]
  /\ code' \in {[code EXCEPT ![c] = s] : s \in Statuses}
  /\ pending' = pending \cup {"CHLD"}
  /\ UNCHANGED <<doomed, stops, self, parent>>

Stops(c) ==
  /\ os[c] = "running"
  /\ stops < MaxStops
  /\ stops' = stops + 1
  /\ os' = [os EXCEPT ![c] = "stopped"]
  /\ change' = [change EXCEPT ![c] = "stopped"]
  /\ pending' = pending \cup {"CHLD"}
  /\ UNCHANGED <<code, doomed, self, parent>>

\* SIGCONT is sent to the children in C, by the user's shell or by the parent.
Continued(C) ==
  LET woken == {c \in C : os[c] = "stopped"} IN
  /\ os' = [c \in Children |-> IF c \in woken THEN "running" ELSE os[c]]
  /\ change' = [c \in Children |-> IF c \in woken THEN "continued" ELSE change[c]]

ContinuesChild(c) ==
  /\ os[c] = "stopped"
  /\ Continued({c})
  /\ pending' = pending \cup {"CHLD"}
  /\ UNCHANGED <<code, doomed, stops, self, parent>>

\* The user resumes the parent (fg), which wakes it whether or not it blocks SIGCONT.
ContinuesParent ==
  /\ self' = "running"
  /\ pending' = pending \cup {"CONT"}
  /\ UNCHANGED <<processes, parent>>

\* SIGHUP, SIGTERM, SIGQUIT or SIGINT.
AsksToQuit ==
  /\ pending' = pending \cup {"QUIT"}
  /\ UNCHANGED <<processes, self, parent>>

-----------------------------------------------------------------------------
(* handle_signal. *)

Finish(how) == outcome' = how /\ pc' = "destroy" /\ at' = 1

\* The children that ChildProcess::resume sends SIGCONT to.
ToResume == {c \in Children : ~running[c] /\ ~terminated[c]}

ReadQuit ==
  /\ pc = "poll" /\ self = "running" /\ "QUIT" \in pending
  /\ pending' = pending \ {"QUIT"}
  /\ Finish("exit")
  /\ UNCHANGED <<processes, self, running, terminated>>

ReadCont ==
  /\ pc = "poll" /\ self = "running" /\ "CONT" \in pending
  /\ Continued(ToResume)
  /\ pending' = (pending \ {"CONT"}) \cup (IF os' = os THEN {} ELSE {"CHLD"})
  /\ UNCHANGED <<code, doomed, stops, self, parent>>

ReadChld ==
  /\ pc = "poll" /\ self = "running" /\ "CHLD" \in pending
  /\ pending' = pending \ {"CHLD"}
  /\ pc' = "search" /\ at' = 1
  /\ UNCHANGED <<processes, self, running, terminated, outcome>>

\* The search passes over children that have nothing to report.
SkipChild ==
  /\ pc = "search" /\ self = "running" /\ at <= NumChildren
  /\ terminated[at] \/ change[at] = "none"
  /\ at' = at + 1
  /\ UNCHANGED <<processes, pending, self, running, terminated, pc, outcome>>

FindChild ==
  /\ pc = "search" /\ self = "running" /\ at <= NumChildren
  /\ ~terminated[at] /\ change[at] # "none"
  /\ pc' = "wait"
  /\ UNCHANGED <<processes, pending, self, running, terminated, at, outcome>>

SearchOver ==
  /\ pc = "search" /\ self = "running" /\ at > NumChildren
  /\ pc' = "poll"
  /\ UNCHANGED <<processes, pending, self, running, terminated, at, outcome>>

\* ChildProcess::wait, had a continued child been left for the next stop to correct.
WaitIgnoresContinue(c) ==
  /\ change' = [change EXCEPT ![c] = "none"]
  /\ terminated' = [terminated EXCEPT ![c] = change[c] = "exited"]
  /\ running' = [running EXCEPT ![c] = @ /\ change[c] # "stopped"]

\* ChildProcess::wait, without its tests of what waitid reports.
Wait(c) ==
  /\ change' = [change EXCEPT ![c] = "none"]
  /\ terminated' = [terminated EXCEPT ![c] = change[c] = "exited"]
  /\ running' = [running EXCEPT ![c] = CASE change[c] = "stopped" -> FALSE
                                         [] change[c] = "continued" -> TRUE
                                         [] OTHER -> @]

\* A child has exited.  A status of its own that is neither 0 nor the
\* continue status is an error; the loop goes on only for the continue
\* status, and the search for other children is then given up.
WaitExited ==
  /\ pc = "wait" /\ self = "running" /\ change[at] = "exited"
  /\ Wait(at)
  /\ CASE code[at] \notin {0, ContinueStatus[at]} -> Finish("threw")
       [] code[at] = ContinueStatus[at] /\ ~(\A c \in Children : terminated'[c]) ->
            pc' = "poll" /\ UNCHANGED <<at, outcome>>
       [] OTHER -> Finish("exit")
  /\ UNCHANGED <<os, code, doomed, stops, pending, self>>

\* Had the parent not been suspended with its child.
WaitStoppedGoesOn ==
  /\ pc = "wait" /\ self = "running" /\ change[at] = "stopped"
  /\ Wait(at)
  /\ pc' = "search" /\ at' = at + 1
  /\ UNCHANGED <<os, code, doomed, stops, pending, self, outcome>>

\* A child was stopped, and the parent stops itself; that discards a pending SIGCONT.
WaitStopped ==
  /\ pc = "wait" /\ self = "running" /\ change[at] = "stopped"
  /\ Wait(at)
  /\ self' = "stopped"
  /\ pending' = pending \ {"CONT"}
  /\ pc' = "search" /\ at' = at + 1
  /\ UNCHANGED <<os, code, doomed, stops, outcome>>

\* Had the search been given up after one child.
WaitContinuedReturns ==
  /\ pc = "wait" /\ self = "running" /\ change[at] = "continued"
  /\ Wait(at)
  /\ pc' = "poll"
  /\ UNCHANGED <<os, code, doomed, stops, pending, self, at, outcome>>

\* Nothing is done about a child that was continued.
WaitContinued ==
  /\ pc = "wait" /\ self = "running" /\ change[at] = "continued"
  /\ Wait(at)
  /\ pc' = "search" /\ at' = at + 1
  /\ UNCHANGED <<os, code, doomed, stops, pending, self, outcome>>

-----------------------------------------------------------------------------
(* ~ChildProcess, child after child. *)

SkipTerminated ==
  /\ pc = "destroy" /\ self = "running"
  /\ at <= NumChildren /\ terminated[at]
  /\ at' = at + 1
  /\ UNCHANGED <<processes, pending, self, running, terminated, pc, outcome>>

\* The destructor, had it only sent the signal.
TerminateWithoutResume ==
  /\ pc = "destroy" /\ self = "running"
  /\ at <= NumChildren /\ ~terminated[at]
  /\ doomed' = [doomed EXCEPT ![at] = TRUE]
  /\ pc' = "reap"
  /\ UNCHANGED <<os, change, pending, code, stops, self, running, terminated, at, outcome>>

\* The child is resumed if it is known to be stopped, and sent its signal.
Terminate ==
  /\ pc = "destroy" /\ self = "running"
  /\ at <= NumChildren /\ ~terminated[at]
  /\ Continued({at} \cap ToResume)
  /\ pending' = pending \cup (IF os' = os THEN {} ELSE {"CHLD"})
  /\ doomed' = [doomed EXCEPT ![at] = TRUE]
  /\ pc' = "reap"
  /\ UNCHANGED <<code, stops, self, running, terminated, at, outcome>>

\* The blocking wait of the destructor returns with any change of state.
Reap ==
  /\ pc = "reap" /\ self = "running" /\ change[at] # "none"
  /\ Wait(at)
  /\ pc' = "destroy"
  /\ UNCHANGED <<os, code, doomed, stops, pending, self, at, outcome>>

Destroyed ==
  /\ pc = "destroy" /\ self = "running" /\ at > NumChildren
  /\ pc' = "done"
  /\ UNCHANGED <<processes, pending, self, running, terminated, at, outcome>>

-----------------------------------------------------------------------------
WaitForChild == WaitExited \/ WaitStopped \/ WaitContinued

Destroy == SkipTerminated \/ Terminate \/ Reap \/ Destroyed

HandleSignal ==
  \/ ReadQuit \/ ReadCont \/ ReadChld
  \/ SkipChild \/ FindChild \/ SearchOver
  \/ WaitForChild

Child(c) == ChildExits(c) \/ Stops(c) \/ ContinuesChild(c)

LoopNext ==
  \/ \E c \in Children : Child(c)
  \/ ContinuesParent
  \/ AsksToQuit
  \/ HandleSignal
  \/ Destroy

LoopSpec == LoopInit /\ [][LoopNext]_loop_vars

\* The parent is scheduled and reads the signals that stay pending; a child
\* obeys its termination signal; the user does not leave the parent stopped.
Fairness ==
  /\ WF_loop_vars(HandleSignal \/ Destroy)
  /\ WF_loop_vars(ReadCont) /\ WF_loop_vars(ReadChld)
  /\ \A c \in Children : WF_loop_vars(doomed[c] /\ ChildExits(c))
  /\ WF_loop_vars(self = "stopped" /\ ContinuesParent)

FairLoopSpec == LoopSpec /\ Fairness

-----------------------------------------------------------------------------
(***************************************************************************)
(* Properties.                                                             *)
(***************************************************************************)
TypeOK ==
  /\ os \in [Children -> {"running", "stopped", "zombie"}]
  /\ change \in [Children -> {"none", "exited", "stopped", "continued"}]
  /\ code \in [Children -> Nat]
  /\ doomed \in [Children -> BOOLEAN]
  /\ pending \subseteq {"CHLD", "CONT", "QUIT"}
  /\ self \in {"running", "stopped"}
  /\ stops \in 0..MaxStops
  /\ running \in [Children -> BOOLEAN]
  /\ terminated \in [Children -> BOOLEAN]
  /\ pc \in {"poll", "search", "wait", "destroy", "reap", "done"}
  /\ at \in 1..(NumChildren + 1)
  /\ outcome \in {"none", "exit", "threw"}

\* What ChildProcess caches of a child (running_, terminated_) is what the
\* kernel knows of it, except for a change that waitid still has to report.
CachedStateFresh ==
  \A c \in Children : change[c] = "none" =>
    /\ terminated[c] <=> os[c] = "zombie"
    /\ ~terminated[c] => (running[c] <=> os[c] = "running")

\* event_loop.cc:40-41: "find which children are waitable", "we can't count on
\* getting exactly one SIGCHLD per waitable event, so search": when the parent
\* goes back to sleep with no SIGCHLD to come, no child is left waitable.
NoneOverlooked ==
  (pc = "poll" /\ "CHLD" \notin pending) => \A c \in Children : change[c] = "none"

\* Parent and children move together.  A stop of a child is followed by a stop
\* of the parent ("suspend parent too"), unless the child goes on by itself or
\* the loop ends; a SIGCONT to the parent resumes the children known to be
\* stopped, unless a further stop suspends it once more or the loop ends.
MoveTogether ==
  \A c \in Children :
    /\ (os[c] = "stopped") ~> (os[c] # "stopped" \/ self = "stopped" \/ pc = "done")
    /\ (os[c] = "stopped" /\ ~running[c] /\ "CONT" \in pending /\ self = "running")
         ~> (os[c] # "stopped" \/ self = "stopped" \/ pc \in {"destroy", "done"})

\* The loop does not outlive its children, and once it has ended the destructors
\* finish: none of them waits for ever for a child, stopped or not, that the
\* loop knew or did not know about.
ShutdownCompletes ==
  ((\A c \in Children : os[c] = "zombie") \/ pc = "destroy") ~> (pc = "done")
=============================================================================

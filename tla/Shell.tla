------------------------------- MODULE Shell -------------------------------
(***************************************************************************)
(* The life of a mahimahi program: processes that fork, change privileges  *)
(* and environment, acquire NAT rules, devices, servers and files, wait    *)
(* for one another, and take everything down again by unwinding their      *)
(* stacks, whether a command ended, a signal arrived or a call threw.      *)
(* ShellPrograms has the statements of the programs.                       *)
(*                                                                         *)
(* Any statement but an assignment may throw.  A signal kills a process    *)
(* that has not blocked it, without unwinding.  The stop and continue      *)
(* signals are EventLoop.tla's subject and are left out here.              *)
(***************************************************************************)
EXTENDS ShellPrograms, FiniteSets, SequencesExt

CONSTANTS
  Programs,     \* the programs the user may start
  Interrupted,  \* bound: the processes that get signals from outside
  MaxSignals    \* bound: how many of them

ASSUME ShellAssumption == MaxSignals \in Nat

Procs == {"main", "first", "second", "dnsmasq", "command"}

VARIABLES
  prog,        \* the program: its name and its processes' statements
  proc,        \* its processes
  told,        \* those whose end a SIGCHLD stood for that was read
  channel,     \* what was sent and not yet received
  held,        \* what outlives its process: rules, servers, files, the veth pair
  inside,      \* the inner veth device is in first's namespace
  disowned,    \* kernel_will_destroy_ of the pair
  complained,  \* what could not be taken down, which a destructor reported
  bugs,        \* the internal errors thrown
  signals      \* the signals from outside so far

kernel == <<held, inside, disowned, complained>>
vars == <<prog, proc, told, channel, kernel, bugs, signals>>

Unborn == [mode |-> "none", parent |-> "none", pc |-> 1, status |-> "none", objs |-> <<>>,
           kids |-> <<>>, reaped |-> FALSE, doomed |-> FALSE, root |-> FALSE, env |-> FALSE,
           masked |-> FALSE, pending |-> {}]

Init ==
  /\ prog \in {[name |-> g.name, once |-> g.args.once, code |-> [p \in Procs |-> Script(g, p)]] :
                g \in Programs}
  /\ proc = [p \in Procs |-> IF p = "main"
                               THEN [Unborn EXCEPT !.mode = "runs", !.root = TRUE, !.env = TRUE]
                               ELSE Unborn]
  /\ told = {} /\ channel = {} /\ held = {} /\ inside = FALSE /\ disowned = FALSE
  /\ complained = {} /\ bugs = {} /\ signals = 0

-----------------------------------------------------------------------------
(* Processes. *)

Alive(p) == proc[p].mode \in {"runs", "leaves", "user"}
Gone(p) == proc[p].mode = "gone"

\* The statement that p is at.
At(p) == LET s == prog.code[p] IN
         IF proc[p].mode = "runs" /\ proc[p].pc <= Len(s) THEN s[proc[p].pc] ELSE <<"end">>

Threaded(p) == \E i \in DOMAIN proc[p].objs : proc[p].objs[i] = <<"threads">>

\* Had start_dnsmasq not asked for a signal of its own.
AlwaysHangup(p) == "HUP"

\* The signal of a ChildProcess that was not told another one, and of start_dnsmasq's.
TerminationSignal(p) == IF p = "dnsmasq" THEN "TERM" ELSE "HUP"

\* dnsmasq reads its configuration again when it gets a SIGHUP.
Obeyed(p) == IF p = "dnsmasq" THEN {"TERM"} ELSE {"HUP", "TERM"}

\* The record of a process that has ended: what is left for its parent to wait for.
Ended(r, status) == [Unborn EXCEPT !.mode = "gone", !.parent = r.parent, !.status = status]

\* The record of a process that gets a signal.
Signalled(r, sig) ==
  IF r.mode = "user" \/ r.masked THEN [r EXCEPT !.pending = @ \cup {sig}]
  ELSE IF r.mode \in {"runs", "leaves"} THEN Ended(r, "killed") ELSE r

\* When nothing is left in the namespace of first the kernel destroys it, with the device in it.
Emptied(procs) == \A p \in {"first", "command"} : procs[p].mode \in {"none", "gone"}

Kernel(procs, h) ==
  /\ proc' = procs
  /\ inside' = (inside /\ ~Emptied(procs))
  /\ held' = IF inside /\ Emptied(procs) THEN h \ {"veth"} ELSE h

Becomes(p, r) == Kernel([proc EXCEPT ![p] = r], held)

Advanced(p) == [proc[p] EXCEPT !.pc = @ + 1]

\* The outermost frame is left, by an exception or not.
Leaving(p, status) == [proc[p] EXCEPT !.mode = "leaves", !.pc = 0, !.status = status]

Failing(p) == Leaving(p, "fails")

-----------------------------------------------------------------------------
(* Statements. *)

\* The tests that no execution should fail.  check_requirements, and
\* PacketShell's constructor: the environment was cleared.
KeepsEnvironment(p) == proc[p].env

\* TemporaryEnvironment's constructor.
BorrowsTwice(p) == proc[p].env

\* assert_not_root, when files are the user's.
LooksAsRoot(p) == proc[p].root

\* ezexec: root's environment is empty, and root does not search PATH.
ExecutesUnsafely(p, path) == proc[p].root /\ (proc[p].env \/ path)

\* do_clone: a process with threads does not fork.
ForksThreads(p) == Threaded(p)

\* The commands of run() are root's work: ip, iptables, apache2.
CannotRun(p) == ~proc[p].root \/ proc[p].env \/ Threaded(p)

RunsCommand(s) ==
  \/ s[1] \in {"run", "give"}
  \/ s[1] = "object" /\ s[2] \notin {"unprivileged", "borrow", "threads", "pipe", "hosts"}

Refused(p, s) ==
  CASE s[1] = "check" -> KeepsEnvironment(p)
    [] s = <<"object", "borrow">> -> BorrowsTwice(p)
    [] s[1] = "user_try" \/ s = <<"object", "threads">> -> LooksAsRoot(p)
    [] s[1] = "exec" -> ExecutesUnsafely(p, s[2] = "path")
    [] s[1] = "fork" -> ForksThreads(p)
    [] RunsCommand(s) -> CannotRun(p)
    [] OTHER -> FALSE

\* A statement throws: a system call failed, the arguments were wrong, a test failed.
Throws(p) ==
  /\ At(p)[1] \notin {"end", "clear", "leave", "disown"}
  /\ Becomes(p, Failing(p))
  /\ bugs' = IF Refused(p, At(p)) THEN bugs \cup {At(p)} ELSE bugs
  /\ UNCHANGED <<prog, told, channel, disowned, complained, signals>>

\* A statement without further effect; or one that sets environ.
Passes(p) ==
  /\ \/ At(p)[1] = "clear" /\ Becomes(p, [Advanced(p) EXCEPT !.env = FALSE])
     \/ At(p)[1] = "restore" /\ Becomes(p, [Advanced(p) EXCEPT !.env = TRUE])
     \/ At(p)[1] \in {"try", "user_try", "check", "run"} /\ ~Refused(p, At(p)) /\ Becomes(p, Advanced(p))
  /\ UNCHANGED <<prog, told, channel, disowned, complained, bugs, signals>>

\* drop_privileges, for good.
DropsPrivileges(p) ==
  /\ At(p)[1] = "drop"
  /\ Becomes(p, [Advanced(p) EXCEPT !.root = FALSE])
  /\ UNCHANGED <<prog, told, channel, disowned, complained, bugs, signals>>

\* Objects that outlive no process: EventLoop, which blocks the signals;
\* TemporarilyUnprivileged; TemporaryEnvironment; a graph's thread; the socket pair.
Local(p, r, object) ==
  /\ ~Refused(p, At(p))
  /\ Becomes(p, [r EXCEPT !.objs = Append(@, object)])
  /\ UNCHANGED <<prog, told, channel, disowned, complained, bugs, signals>>

NewEventLoop(p) ==
  At(p)[1] = "event_loop" /\ Local(p, [Advanced(p) EXCEPT !.masked = TRUE], <<"event_loop">>)

BecomesUnprivileged(p) ==
  /\ At(p) = <<"object", "unprivileged">>
  /\ Local(p, [Advanced(p) EXCEPT !.root = FALSE], <<"unprivileged", proc[p].root>>)

BorrowsEnvironment(p) ==
  At(p) = <<"object", "borrow">> /\ Local(p, [Advanced(p) EXCEPT !.env = TRUE], <<"borrow">>)

NewLocal(p) ==
  At(p) \in {<<"object", "threads">>, <<"object", "pipe">>} /\ Local(p, Advanced(p), <<At(p)[2]>>)

\* Objects for what outlives its process.
Holds(p, x, lost) ==
  /\ At(p) = <<"object", x>> /\ ~Refused(p, At(p))
  /\ Kernel([proc EXCEPT ![p] = [Advanced(p) EXCEPT !.objs = Append(@, <<"held", x>>)]],
            (held \ lost) \cup {x})
  /\ UNCHANGED <<prog, told, channel, disowned, complained, bugs, signals>>

\* NATRule: NAT has two, DNAT one.
Rules == {"nat_pre", "nat_post", "dnat"}
NewRule(p) == \E x \in Rules : Holds(p, x, {})

NewVeth(p) == Holds(p, "veth", {})

NewFile(p) == Holds(p, "hosts", {})

\* What the destructors take down when the vector of servers grows past n, had ~WebServer
\* not asked moved_away_.
MovedReleases(n) == {WebServers[i] : i \in 1..(n - 1)}

\* WebServer's move constructor has marked them.
Moved(n) == {}

NewServer(p) == \E n \in DOMAIN WebServers : Holds(p, WebServers[n], Moved(n))

\* The child starts unmasked with what it inherits.
Fork(p) ==
  LET k == At(p)[2] IN
  /\ At(p)[1] = "fork" /\ ~Refused(p, At(p))
  /\ Kernel([proc EXCEPT ![p] = [Advanced(p) EXCEPT !.objs = Append(@, <<"child", k>>)],
                         ![k] = [Unborn EXCEPT !.mode = "runs", !.parent = p,
                                               !.root = proc[p].root, !.env = proc[p].env]], held)
  /\ UNCHANGED <<prog, told, channel, disowned, complained, bugs, signals>>

\* The child is the last object; it moves into the loop's vector.
Adopt(p) ==
  LET k == At(p)[2]
      o == proc[p].objs IN
  /\ At(p)[1] = "adopt" /\ o # <<>> /\ o[Len(o)] = <<"child", k>>
  /\ Becomes(p, [Advanced(p) EXCEPT !.objs = Front(@), !.kids = Append(@, k)])
  /\ UNCHANGED <<prog, told, channel, disowned, complained, bugs, signals>>

\* "ip link set dev ... netns", which needs the process whose namespace it is.
Give(p) ==
  /\ At(p)[1] = "give" /\ ~Refused(p, At(p)) /\ ~Gone("first")
  /\ inside' = TRUE
  /\ proc' = [proc EXCEPT ![p] = Advanced(p)]
  /\ UNCHANGED <<prog, told, channel, held, disowned, complained, bugs, signals>>

Disown(p) ==
  /\ At(p)[1] = "disown"
  /\ Becomes(p, Advanced(p))
  /\ disowned' = TRUE
  /\ UNCHANGED <<prog, told, channel, complained, bugs, signals>>

Send(p) ==
  /\ At(p)[1] = "send"
  /\ Becomes(p, Advanced(p))
  /\ channel' = channel \cup {At(p)[2]}
  /\ UNCHANGED <<prog, told, disowned, complained, bugs, signals>>

Receive(p) ==
  /\ At(p)[1] = "receive" /\ At(p)[2] \in channel
  /\ Becomes(p, Advanced(p))
  /\ channel' = channel \ {At(p)[2]}
  /\ UNCHANGED <<prog, told, disowned, complained, bugs, signals>>

\* ezexec of what the user asked for, or of dnsmasq.
Exec(p) ==
  /\ At(p)[1] = "exec" /\ ~Refused(p, At(p))
  /\ Becomes(p, [Unborn EXCEPT !.mode = "user", !.parent = proc[p].parent, !.doomed = proc[p].doomed])
  /\ UNCHANGED <<prog, told, channel, disowned, complained, bugs, signals>>

-----------------------------------------------------------------------------
(* EventLoop::loop; the details are EventLoop.tla's. *)

Looping(p) == At(p)[1] = "loop"

\* A signal to quit is read.
LoopSignal(p) ==
  /\ Looping(p) /\ proc[p].pending # {}
  /\ Becomes(p, [Advanced(p) EXCEPT !.status = "ok", !.pending = {}])
  /\ UNCHANGED <<prog, told, channel, disowned, complained, bugs, signals>>

\* The children whose end waitid still has to report.
Waitable(p) == {k \in Range(proc[p].kids) : Gone(k) /\ ~proc[k].reaped}

\* The search takes the children in the order in which they were added.
Found(p, k) ==
  \E i \in DOMAIN proc[p].kids :
    /\ k = proc[p].kids[i] /\ k \in Waitable(p)
    /\ \A j \in 1..(i - 1) : proc[p].kids[j] \notin Waitable(p)

\* A SIGCHLD is read: there is one when a child has ended since the last, for
\* all that have.  The search is given up at the first child found.
\* PacketShell's two children are special: the loop goes on when they exit with
\* 77, and of another that has ended behind the same SIGCHLD it is not told again.
LoopChild(p) ==
  /\ Looping(p) /\ Waitable(p) \ told # {}
  /\ told' = told \cup Waitable(p)
  /\ \E k \in Range(proc[p].kids) :
       LET known == [proc EXCEPT ![k].reaped = TRUE]
           all == \A c \in Range(proc[p].kids) : known[c].reaped
           after == CASE proc[k].status = "finished" /\ ~all -> proc[p]
                      [] proc[k].status \in {"fails", "killed"} -> Failing(p)
                      [] OTHER -> [Advanced(p) EXCEPT !.status = "ok"]
       IN /\ Found(p, k)
          /\ Kernel([known EXCEPT ![p] = after], held)
          /\ UNCHANGED <<prog, channel, disowned, complained, bugs, signals>>

\* Ferry::loop, when its queue is finished.
LoopFinishes(p) ==
  /\ Looping(p) /\ prog.name = "packet" /\ prog.once /\ p \in {"first", "second"}
  /\ Becomes(p, [Advanced(p) EXCEPT !.status = "finished"])
  /\ UNCHANGED <<prog, told, channel, disowned, complained, bugs, signals>>

-----------------------------------------------------------------------------
(* The ends of objects. *)

Top(p) == proc[p].objs[Len(proc[p].objs)]
Popped(p) == [proc[p] EXCEPT !.objs = Front(@)]

\* The end of a block, or of a statement that threw: an object that releases
\* nothing outside the process.
Pop(p, r) ==
  /\ Top(p)[1] \in {"unprivileged", "borrow", "threads", "pipe"}
  /\ Becomes(p, [r EXCEPT !.root = IF Top(p)[1] = "unprivileged" THEN Top(p)[2] ELSE @,
                          !.env = @ /\ Top(p)[1] # "borrow",
                          !.objs = Front(@)])
  /\ UNCHANGED <<prog, told, channel, disowned, complained, bugs, signals>>

Leave(p) == At(p)[1] = "leave" /\ proc[p].objs # <<>> /\ Pop(p, Advanced(p))

Returns(p) ==
  /\ proc[p].mode = "runs" /\ proc[p].pc > Len(prog.code[p])
  /\ Becomes(p, Leaving(p, proc[p].status))
  /\ UNCHANGED <<prog, told, channel, disowned, complained, bugs, signals>>

Unwinding(p, kind) ==
  proc[p].mode = "leaves" /\ proc[p].objs # <<>> /\ Top(p)[1] = kind

UnwindLocal(p) ==
  \E kind \in {"unprivileged", "borrow", "threads", "pipe"} : Unwinding(p, kind) /\ Pop(p, proc[p])

\* A destructor takes x down by a command or a system call, and prints that it could not.
TakeDown(p, x, unable) ==
  /\ Unwinding(p, "held") /\ Top(p)[2] = x
  /\ \E done \in IF unable THEN {FALSE} ELSE BOOLEAN :
       /\ Kernel([proc EXCEPT ![p] = Popped(p)], IF done THEN held \ {x} ELSE held)
       /\ complained' = IF done THEN complained ELSE complained \cup {x}
  /\ bugs' = IF unable THEN bugs \cup {x} ELSE bugs
  /\ UNCHANGED <<prog, told, channel, disowned, signals>>

\* ~NATRule
EndOfRule(p) == \E x \in Rules : TakeDown(p, x, CannotRun(p))

\* ~VirtualEthernetPair
EndOfVeth(p) ==
  \/ ~disowned /\ TakeDown(p, "veth", CannotRun(p))
  \/ /\ disowned /\ Unwinding(p, "held") /\ Top(p)[2] = "veth"
     /\ Becomes(p, Popped(p))
     /\ UNCHANGED <<prog, told, channel, disowned, complained, bugs, signals>>

\* ~WebServer, and ~TempFile of its configuration.
EndOfServer(p) == \E x \in Range(WebServers) : TakeDown(p, x, CannotRun(p))

\* ~TempFile
EndOfFile(p) == TakeDown(p, "hosts", FALSE)

\* Had ~ChildProcess not waited.
EndOfChildNoWait(p, k, r) ==
  /\ Kernel([proc EXCEPT ![p] = r,
                         ![k] = Signalled([@ EXCEPT !.doomed = TRUE], TerminationSignal(k))], held)
  /\ UNCHANGED <<prog, told, channel, disowned, complained, bugs, signals>>

\* ~ChildProcess: the signal, and the wait for the child's end.
EndOfChild(p, k, r) ==
  /\ IF Gone(k)
       THEN Becomes(p, r)
       ELSE /\ ~proc[k].doomed
            /\ Kernel([proc EXCEPT ![k] = Signalled([@ EXCEPT !.doomed = TRUE], TerminationSignal(k))],
                      held)
  /\ UNCHANGED <<prog, told, channel, disowned, complained, bugs, signals>>

UnwindChild(p) == Unwinding(p, "child") /\ EndOfChild(p, Top(p)[2], Popped(p))

\* ~EventLoop destroys its children in the order in which they were added.
UnwindLoop(p) ==
  /\ Unwinding(p, "event_loop")
  /\ IF proc[p].kids # <<>>
       THEN EndOfChild(p, Head(proc[p].kids), [proc[p] EXCEPT !.kids = Tail(@)])
       ELSE /\ Becomes(p, Popped(p))
            /\ UNCHANGED <<prog, told, channel, disowned, complained, bugs, signals>>

\* The process exits.
Exits(p) ==
  /\ proc[p].mode = "leaves" /\ proc[p].objs = <<>>
  /\ Becomes(p, Ended(proc[p], proc[p].status))
  /\ UNCHANGED <<prog, told, channel, disowned, complained, bugs, signals>>

-----------------------------------------------------------------------------
(* The programs that were executed, and the user. *)

UserEnds(p) ==
  /\ proc[p].mode = "user"
  /\ \E status \in {"ok", "fails"} : Becomes(p, Ended(proc[p], status))
  /\ UNCHANGED <<prog, told, channel, disowned, complained, bugs, signals>>

Obeys(p) == proc[p].pending \cap Obeyed(p) # {} /\ UserEnds(p)

\* A signal from outside to one of mahimahi's own processes.
Interrupt(p) ==
  /\ p \in Interrupted /\ proc[p].mode \in {"runs", "leaves"} /\ signals < MaxSignals
  /\ Becomes(p, Signalled(proc[p], "TERM"))
  /\ signals' = signals + 1
  /\ UNCHANGED <<prog, told, channel, disowned, complained, bugs>>

-----------------------------------------------------------------------------
Step(p) ==
  \/ Passes(p) \/ DropsPrivileges(p)
  \/ NewEventLoop(p) \/ BecomesUnprivileged(p) \/ BorrowsEnvironment(p) \/ NewLocal(p)
  \/ NewRule(p) \/ NewVeth(p) \/ NewFile(p) \/ NewServer(p)
  \/ Fork(p) \/ Adopt(p) \/ Give(p) \/ Disown(p)
  \/ Send(p) \/ Receive(p) \/ Exec(p)
  \/ LoopSignal(p) \/ LoopChild(p)
  \/ Leave(p) \/ Returns(p) \/ UnwindLocal(p) \/ UnwindChild(p) \/ UnwindLoop(p)
  \/ EndOfRule(p) \/ EndOfVeth(p) \/ EndOfServer(p) \/ EndOfFile(p)
  \/ Exits(p)

Next == \E p \in Procs :
  Step(p) \/ LoopFinishes(p) \/ Throws(p) \/ UserEnds(p) \/ Interrupt(p)

Spec == Init /\ [][Next]_vars

\* A statement that cannot succeed throws.
MustThrow(p) ==
  /\ Refused(p, At(p)) \/ (At(p)[1] = "give" /\ Gone("first"))
  /\ Throws(p)

\* Some process that can go on does (none can for ever), and when one ferry's
\* trace has ended the other's does; a program that was executed obeys the
\* signal that ends it.
Schedule ==
  \/ \E p \in Procs : Step(p) \/ MustThrow(p)
  \/ Gone("first") /\ LoopFinishes("second")

Obedience == \E p \in Procs : Obeys(p)

FairSpec == Spec /\ WF_vars(Schedule) /\ WF_vars(Obedience)

-----------------------------------------------------------------------------
(***************************************************************************)
(* Properties.                                                             *)
(***************************************************************************)

\* No child outlives the process that forked it, however either of them ends.
NoOrphans == \A p \in Procs : (Alive(p) /\ p # "main") => ~Gone(proc[p].parent)

\* A program that was not killed before it blocked its signals takes down
\* everything it set up, except what it said it could not.
NothingLeft == (Gone("main") /\ proc["main"].status # "killed") => held \subseteq complained

\* While the user's command runs, the rules, devices and servers its traffic
\* depends on are there, during shutdown too; and so is the file of dnsmasq.
UsersDieFirst ==
  /\ proc["command"].mode = "user" =>
       held \ {"hosts"} = CASE prog.name = "packet" -> {"nat_pre", "nat_post"}
                            [] prog.name \in {"record", "proxy"} -> {"nat_pre", "nat_post", "dnat", "veth"}
                            [] OTHER -> Range(WebServers)
  /\ (prog.name \notin {"packet", "record", "proxy"} /\ proc["dnsmasq"].mode = "user") => "hosts" \in held

\* util.cc:88,167, system_runner.cc:25,29, child_process.cc:28, packetshell.cc:36,204:
\* the errors the code calls BUG never occur, in destructors neither.
NoBug == bugs = {}

\* event_loop.cc:62: PacketShell's loop has gone on after the end of one ferry,
\* which was finished, and the other's end was behind the same SIGCHLD.
Overlooks ==
  /\ prog.name = "packet" /\ prog.once /\ Looping("main") /\ proc["main"].pending = {}
  /\ proc["first"].reaped /\ proc["first"].status = "finished"
  /\ Gone("second") /\ ~proc["second"].reaped /\ "second" \in told

\* Once a program was told to end, or its command has ended, it does end, but for
\* the wait of wait_for_exit for the end of a ferry that it has overlooked: then it
\* ends if it is told to.
Ends ==
  (proc["main"].mode = "leaves" \/ proc["main"].pending # {} \/ Gone("command"))
    ~> (Gone("main") \/ Overlooks)
=============================================================================

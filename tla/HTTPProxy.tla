----------------------------- MODULE HTTPProxy -----------------------------
(***************************************************************************)
(* The recorder: mm-webrecord's unprivileged child, whose event loop gives *)
(* every connection it accepts a detached thread (HTTPProxy::handle_tcp),  *)
(* and ends the process when it is told to quit, whatever the threads are  *)
(* doing.  The threads share the TimeLogger and the HTTPDiskStore.  The    *)
(* server of mm-proxyshell is the same without a store.                    *)
(*                                                                         *)
(* A message is a number: the requests of a connection are 1, 2, ... and   *)
(* the response to request n is response n; TCP keeps both in order, and   *)
(* what the parsers do with the bytes is module HTTPParser.  The peers are *)
(* external: they send, answer, end their half and reset as they like.     *)
(* The sockets' buffers take a whole message.                              *)
(***************************************************************************)
EXTENDS TimeLogger

CONSTANTS
  Scripts   \* what may happen: for each connection its server's address, its port
            \* being 443, its requests, whether they are recorded, the peers that
            \* end or reset it, and whether the disk may be full

Sides == {"client", "server"}

\* What is told apart of a request; NoHeader of Replay stands for no Host.
Heads == [line : Seq(STRING), host : STRING, agent : STRING]

ASSUME ScriptsAssumption ==
  \A s \in Scripts : \A c \in DOMAIN s :
    /\ s[c].requests \in Seq(Heads)
    /\ {s[c].secure, s[c].recorded, s[c].diskFills} \subseteq BOOLEAN
    /\ s[c].ends \cup s[c].resets \subseteq Sides

VARIABLES
  script,    \* the member of Scripts
  recorder,  \* the event loop's thread: "loop", "print", and at the end "exited", with
             \* a log at least begun, or "crashed", without
  pc,        \* where the thread of each connection is
  round,     \* the callbacks of its Poller::poll still to run, "exit" at a POLLHUP
  broken,    \* connections whose SSL_connect returned -1, which nobody sees
  logger,    \* the TimeLogger
  cut,       \* the records whose file exists and is not complete
  whole,     \* the records whose file is complete
  diskFull,  \* whether a save failed
  count,     \* how many messages of each connection have come how far
  fin,       \* the peers that have ended their half, and what the proxy has read of it
  reset,     \* the peers that have reset the connection
  starts     \* history: what was started, in order; its indices are the moments

thread == <<pc, round, broken>>
disk == <<cut, whole, diskFull>>
peers == <<fin, reset>>
vars == <<script, recorder, thread, logger, disk, count, peers, starts>>

Connections == DOMAIN script
Requests(c) == script[c].requests
Address(c) == script[c].address
\* What is between the first spaces of the first line; the Host is not part of it.
URL(c, n) == LET line == Requests(c)[n].line IN SubSeq(line, 2, Len(line) - 1)

Nothing == [sent |-> 0, parsed |-> 0, forwarded |-> 0, answered |-> 0, received |-> 0, delivered |-> 0]

Init ==
  /\ script \in Scripts
  /\ recorder = "loop"
  /\ pc = [c \in Connections |-> "none"]
  /\ round = [c \in Connections |-> <<>>]
  /\ broken = {}
  /\ logger = NewTimeLogger
  /\ cut = {} /\ whole = {} /\ diskFull = FALSE
  /\ count = [c \in Connections |-> Nothing]
  /\ fin = [c \in Connections |-> [ended |-> {}, seen |-> {}]]
  /\ reset = [c \in Connections |-> {}]
  /\ starts = <<>>

Running == recorder \in {"loop", "print"}
Over(c) == pc[c] \in {"exit", "threw"}
Goes(c, here, there) == pc[c] = here /\ pc' = [pc EXCEPT ![c] = there] /\ Running
Throws(c) == Goes(c, pc[c], "threw")
Counts(c, what, k) == count' = [count EXCEPT ![c][what] = @ + k]

-----------------------------------------------------------------------------
(***************************************************************************)
(* The peers of connection c.                                              *)
(***************************************************************************)
Usable(c) == Running /\ ~Over(c) /\ reset[c] = {}

ClientSends(c) ==
  /\ Usable(c) /\ pc[c] # "none" /\ "client" \notin fin[c].ended
  /\ count[c].sent < Len(Requests(c))
  /\ Counts(c, "sent", 1)
  /\ UNCHANGED <<script, recorder, thread, logger, disk, peers, starts>>

ServerAnswers(c) ==
  /\ Usable(c) /\ "server" \notin fin[c].ended
  /\ count[c].answered < count[c].forwarded
  /\ Counts(c, "answered", 1)
  /\ UNCHANGED <<script, recorder, thread, logger, disk, peers, starts>>

PeerEnds(c, side) ==
  /\ Usable(c) /\ pc[c] \notin {"none", "new", "start rtt", "connect"}
  /\ side \in script[c].ends \ fin[c].ended
  /\ fin' = [fin EXCEPT ![c].ended = @ \cup {side}]
  /\ UNCHANGED <<script, recorder, thread, logger, disk, count, reset, starts>>

PeerResets(c, side) ==
  /\ Usable(c) /\ pc[c] \notin {"none", "new", "start rtt", "connect"}
  /\ side \in script[c].resets
  /\ reset' = [reset EXCEPT ![c] = {side}]
  /\ UNCHANGED <<script, recorder, thread, logger, disk, count, fin, starts>>

-----------------------------------------------------------------------------
(***************************************************************************)
(* A thread until its connections stand.  A timer is started under the     *)
(* mutex of that timer's start: nobody else is at the same place.          *)
(***************************************************************************)
Accept(c) ==
  /\ recorder = "loop"
  /\ Goes(c, "none", "new")
  /\ UNCHANGED <<script, recorder, round, broken, logger, disk, count, peers, starts>>

Unlocked(place) == \A c \in Connections : pc[c] # place

StartRtt(c) ==
  /\ Unlocked("start rtt")
  /\ Goes(c, "new", "start rtt")
  /\ UNCHANGED <<script, recorder, round, broken, logger, disk, count, peers, starts>>

\* The measurement's own start is the moment its thread asked for it.
Started(c, timer, key, what) ==
  /\ starts' = Append(starts, <<c, what>>)
  /\ logger' = StartTimer(logger, timer, key, Len(starts) + 1)

RttStarted(c) ==
  /\ Goes(c, "start rtt", "connect")
  /\ Started(c, "rtt", Address(c), 0)
  /\ UNCHANGED <<script, recorder, round, broken, disk, count, peers>>

Connect(c) ==
  /\ Goes(c, "connect", "stop rtt") \/ (pc[c] = "connect" /\ Throws(c))
  /\ UNCHANGED <<script, recorder, round, broken, logger, disk, count, peers, starts>>

\* The lookup of a start takes no lock.  It may miss its key, and find the epoch,
\* when a start is writing to the same map meanwhile.
Stopped(timer, key, starting) ==
  \E started \in {StartOf(logger, timer, key)}
                 \cup IF Unlocked(starting) THEN {} ELSE {Epoch} :
    logger' = StopTimer(logger, timer, key, started)

RttStopped(c) ==
  /\ Goes(c, "stop rtt", IF script[c].secure THEN "connect TLS" ELSE "poll")
  /\ Stopped("rtt", Address(c), "start rtt")
  /\ UNCHANGED <<script, recorder, round, broken, disk, count, peers, starts>>

\* SecureSocket::connect throws if SSL_connect returns 0, and takes -1 for success.
ConnectTLS(c) ==
  /\ \/ Goes(c, "connect TLS", "accept TLS") /\ broken' \in {broken, broken \cup {c}}
     \/ pc[c] = "connect TLS" /\ Throws(c) /\ UNCHANGED broken
  /\ UNCHANGED <<script, recorder, round, logger, disk, count, peers, starts>>

AcceptTLS(c) ==
  /\ Goes(c, "accept TLS", "poll") \/ (pc[c] = "accept TLS" /\ Throws(c))
  /\ UNCHANGED <<script, recorder, round, broken, logger, disk, count, peers, starts>>

-----------------------------------------------------------------------------
(***************************************************************************)
(* HTTPProxy::loop.  Poller::poll sees the actions in the order they were  *)
(* added, and quits at the first whose socket has been reset.              *)
(***************************************************************************)
Requested(c) == count[c].parsed - count[c].forwarded
Finished(c) == count[c].received - count[c].delivered

\* A proxy that stops delivering when the server has closed its connection.
InterestedInOpen(c, action) ==
  /\ fin[c].seen = {}
  /\ CASE action = "server out" -> Requested(c) > 0
       [] action = "client out" -> Finished(c) > 0
       [] OTHER -> TRUE

\* A proxy that listens to the server only while a request waits to be written.
InterestedWhileRequested(c, action) ==
  CASE action = "server out" -> Requested(c) > 0
    [] action = "client out" -> Finished(c) > 0
    [] action = "server in" -> fin[c].seen = {} /\ Requested(c) > 0
    [] OTHER -> fin[c].seen = {}

\* An In action is not asked for once either peer's end has been read.
Interested(c, action) ==
  CASE action = "server out" -> Requested(c) > 0
    [] action = "client out" -> Finished(c) > 0
    [] OTHER -> fin[c].seen = {}

Unread(c, side) ==
  IF side = "server" THEN count[c].answered - count[c].received
  ELSE count[c].sent - count[c].parsed

Readable(c, side) == Unread(c, side) > 0 \/ side \in fin[c].ended

Ready(c, action) ==
  /\ Interested(c, action)
  /\ action = "server in" => Readable(c, "server")
  /\ action = "client in" => Readable(c, "client")

Actions == {"server in", "client in", "server out", "client out"}

IfReady(c, action) == IF Ready(c, action) THEN <<action>> ELSE <<>>

Round(c) ==
  CASE reset[c] = {"server"} -> <<"exit">>
    [] reset[c] = {"client"} -> IfReady(c, "server in") \o <<"exit">>
    [] OTHER -> IfReady(c, "server in") \o IfReady(c, "client in")
                  \o IfReady(c, "server out") \o IfReady(c, "client out")

Poll(c) ==
  /\ pc[c] = "poll"
  /\ IF \E action \in Actions : Interested(c, action)
       THEN /\ Round(c) # <<>>
            /\ Goes(c, "poll", "service")
            /\ round' = [round EXCEPT ![c] = Round(c)]
       ELSE Goes(c, "poll", "exit") /\ UNCHANGED round
  /\ UNCHANGED <<script, recorder, broken, logger, disk, count, peers, starts>>

Callback(c, action) == pc[c] = "service" /\ round[c] # <<>> /\ Head(round[c]) = action

\* The callback has run and Poller::poll goes on.
Served(c, here) ==
  /\ Goes(c, here, IF Len(round[c]) = 1 THEN "poll" ELSE "service")
  /\ round' = [round EXCEPT ![c] = Tail(@)]

Exit(c) ==
  /\ Callback(c, "exit")
  /\ Goes(c, "service", "exit")
  /\ UNCHANGED <<script, recorder, round, broken, logger, disk, count, peers, starts>>

\* read() and the parser: some of the messages that have come, or the peer's end.
Reads(c, side, what) ==
  /\ IF side \in reset[c] \/ (side = "server" /\ c \in broken)
       THEN Throws(c) /\ UNCHANGED <<round, count, fin>>
       ELSE /\ Served(c, "service")
            /\ \/ \E k \in 1 .. Unread(c, side) : Counts(c, what, k) /\ UNCHANGED fin
               \/ /\ Unread(c, side) = 0 /\ side \in fin[c].ended
                  /\ fin' = [fin EXCEPT ![c].seen = @ \cup {side}]
                  /\ UNCHANGED count
  /\ UNCHANGED <<script, recorder, broken, logger, disk, reset, starts>>

ServerIn(c) == Callback(c, "server in") /\ Reads(c, "server", "received")
ClientIn(c) == Callback(c, "client in") /\ Reads(c, "client", "parsed")

\* write() to a peer that has reset throws, or raises SIGPIPE, which nobody blocks
\* and which ends the process, when the peer had ended its half before that.
Writes(c, side, here, what, then) ==
  IF side \in reset[c] \/ (side = "server" /\ c \in broken)
    THEN /\ IF side \in fin[c].ended /\ side \in reset[c]
              THEN recorder' = "crashed" /\ UNCHANGED pc
              ELSE Throws(c) /\ UNCHANGED recorder
         /\ UNCHANGED <<round, count>>
    ELSE Counts(c, what, 1) /\ then /\ UNCHANGED recorder

StartLoad(c) ==
  /\ Callback(c, "server out")
  /\ Unlocked("start load")
  /\ Goes(c, "service", "start load")
  /\ UNCHANGED <<script, recorder, round, broken, logger, disk, count, peers, starts>>

Forward(c) ==
  LET n == count[c].forwarded + 1 IN
  /\ pc[c] = "start load" /\ Running
  /\ Started(c, "load", URL(c, n), n)
  /\ Writes(c, "server", "start load", "forwarded", Served(c, "start load"))
  /\ UNCHANGED <<script, broken, disk, peers>>

StopLoad(c) ==
  /\ Callback(c, "client out")
  /\ Goes(c, "service", "stop load")
  /\ UNCHANGED <<script, recorder, round, broken, logger, disk, count, peers, starts>>

Deliver(c) ==
  LET n == count[c].delivered + 1 IN
  /\ pc[c] = "stop load" /\ Running
  /\ Stopped("load", URL(c, n), "start load")
  /\ Writes(c, "client", "stop load", "delivered",
            IF script[c].recorded THEN Goes(c, "stop load", "save") /\ UNCHANGED round
            ELSE Served(c, "stop load"))
  /\ UNCHANGED <<script, broken, disk, peers, starts>>

-----------------------------------------------------------------------------
(***************************************************************************)
(* HTTPDiskStore::save: mkstemp makes an empty file, then the record is    *)
(* serialised into it, both under the store's mutex.  A file that could    *)
(* not be filled stays.                                                    *)
(***************************************************************************)

Create(c) ==
  /\ Unlocked("serialize")
  /\ Goes(c, "save", "serialize")
  /\ cut' = cut \cup {<<c, count[c].delivered>>}
  /\ UNCHANGED <<script, recorder, round, broken, logger, whole, diskFull, count, peers, starts>>

Serialize(c) ==
  /\ pc[c] = "serialize"
  /\ Served(c, "serialize")
  /\ cut' = cut \ {<<c, count[c].delivered>>}
  /\ whole' = whole \cup {<<c, count[c].delivered>>}
  /\ UNCHANGED <<script, recorder, broken, logger, diskFull, count, peers, starts>>

SerializeFails(c) ==
  /\ script[c].diskFills
  /\ Goes(c, "serialize", "threw")
  /\ diskFull' = TRUE
  /\ UNCHANGED <<script, recorder, round, broken, logger, cut, whole, count, peers, starts>>

-----------------------------------------------------------------------------
(***************************************************************************)
(* The process: its event loop quits on a signal, the logs are written,    *)
(* and _exit ends the threads where they are.  A start that inserts into a *)
(* map while another thread looks up a start in it may crash the process;  *)
(* and so may a measurement that is added while the logs are written from  *)
(* what was measured, for which no mutex is taken.  The loop may also end  *)
(* by an exception, of accept() say, and no log is written then: what it   *)
(* leaves is what mm-webreplay reads of a directory without "save" in its  *)
(* path after an exit, so there is no action for it.                       *)
(***************************************************************************)
Quit ==
  /\ recorder = "loop"
  /\ recorder' = "print"
  /\ UNCHANGED <<script, thread, logger, disk, count, peers, starts>>

\* print_map and save_rtt.
PrintAndExit ==
  /\ recorder = "print"
  /\ recorder' = "exited"
  /\ UNCHANGED <<script, thread, logger, disk, count, peers, starts>>

Crash ==
  /\ Running
  /\ \/ ~Unlocked("start rtt") /\ ~Unlocked("stop rtt")
     \/ ~Unlocked("start load") /\ ~Unlocked("stop load")
     \/ recorder = "print" /\ (~Unlocked("stop rtt") \/ ~Unlocked("stop load"))
  /\ recorder' = "crashed"
  /\ UNCHANGED <<script, thread, logger, disk, count, peers, starts>>

ThreadStep(c) ==
  \/ StartRtt(c) \/ RttStarted(c) \/ Connect(c) \/ RttStopped(c)
  \/ ConnectTLS(c) \/ AcceptTLS(c)
  \/ Poll(c) \/ Exit(c) \/ ServerIn(c) \/ ClientIn(c)
  \/ StartLoad(c) \/ Forward(c) \/ StopLoad(c) \/ Deliver(c)
  \/ Create(c) \/ Serialize(c) \/ SerializeFails(c)

PeerStep(c) ==
  \/ ClientSends(c) \/ ServerAnswers(c)
  \/ \E side \in Sides : PeerEnds(c, side) \/ PeerResets(c, side)
=============================================================================

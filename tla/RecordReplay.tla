---------------------------- MODULE RecordReplay ---------------------------
(***************************************************************************)
(* A recording and its replay: the recorder of HTTPProxy fills a directory *)
(* until its process is over; then mm-webreplay loads the directory, and   *)
(* serves it, or throws.                                                   *)
(***************************************************************************)
EXTENDS HTTPProxy, Replay

CONSTANTS
  Directories,  \* whether the directory's path has "save" in it
  Servers,      \* the CGI program: whether it is replayserver_delay, and its delay file
  Replayed      \* the requests made of the replay

\* A first line ends with its HTTP version, so none is the beginning of another.
ASSUME LinesAssumption ==
  \A s \in Scripts : \A c, d \in DOMAIN s : \A i \in DOMAIN s[c].requests, j \in DOMAIN s[d].requests :
    LET line == s[c].requests[i].line
    IN line # <<>> /\ ~IsStrictPrefix(line, s[d].requests[j].line)

VARIABLES
  directory,  \* the member of Directories the recording is in
  shell,      \* mm-webreplay: "none", "refused" or "serving"
  replies     \* a request made of it, with its reply: the CGI program keeps nothing

replay == <<directory, shell, replies>>
allVars == <<vars, replay>>

RecordInit ==
  /\ Init
  /\ directory = "unknown"
  /\ shell = "none"
  /\ replies = {}

-----------------------------------------------------------------------------
(***************************************************************************)
(* The directory: a file for every record, and, if the recorder came to    *)
(* write them, the two logs, which are no protocol buffers.                *)
(***************************************************************************)
Record(content, c, n) ==
  [save |-> TRUE, content |-> content, secure |-> script[c].secure,
   request |-> Requests(c)[n], response |-> <<c, n>>]

Logs(d) == IF recorder = "exited" THEN {[save |-> d = "save", content |-> "broken"]} ELSE {}

\* A record the recorder did not finish may have reached the file in part, or not at all.
Files(content, d) ==
  {Record("whole", w[1], w[2]) : w \in whole} \cup {Record(content, u[1], u[2]) : u \in cut}
    \cup Logs(d)

Asked(request, secure) ==
  [line |-> request.line, host |-> request.host, agent |-> request.agent, secure |-> secure]

Recording(step) == step /\ UNCHANGED replay

Replayshell ==
  /\ ~Running /\ shell = "none"
  /\ \E content \in {"empty", "broken"}, d \in Directories :
       /\ directory' = d
       /\ shell' = IF Loads(Files(content, d)) THEN "serving" ELSE "refused"
  /\ UNCHANGED <<vars, replies>>

Replayserver(q, server) ==
  /\ shell = "serving"
  /\ replies = {}
  /\ \E reply \in Replies(Files("empty", directory), server, q) :
       replies' = {[request |-> q, reply |-> reply, server |-> server]}
  /\ UNCHANGED <<vars, directory, shell>>

RecorderStep == Quit \/ PrintAndExit \/ Crash

RecordStep ==
  \/ RecorderStep
  \/ \E c \in Connections : Accept(c) \/ ThreadStep(c) \/ PeerStep(c)

RecordNext ==
  \/ Recording(RecordStep)
  \/ Replayshell
  \/ \E q \in Replayed, server \in Servers : Replayserver(q, server)

Spec == RecordInit /\ [][RecordNext]_allVars

\* Threads are scheduled and live servers answer; nobody has to end a recording.
FairSpec ==
  /\ Spec
  /\ \A c \in UNION {DOMAIN s : s \in Scripts} :
       /\ WF_allVars(c \in Connections /\ ThreadStep(c) /\ UNCHANGED replay)
       /\ WF_allVars(c \in Connections /\ ServerAnswers(c) /\ UNCHANGED replay)

-----------------------------------------------------------------------------
(***************************************************************************)
(* Properties.                                                             *)
(***************************************************************************)

\* http_proxy.cc:60: the two In actions are not asked for once either end has been
\* read.  A thread that leaves its loop for want of interest has delivered every
\* response its server sent, unless the client had ended its half, and sent on
\* every request it had read.
LeavesNothing ==
  \A c \in Connections :
    pc[c] = "exit" /\ reset[c] = {} =>
      /\ count[c].parsed = count[c].forwarded
      /\ count[c].received = count[c].delivered
      /\ "client" \notin fin[c].ended => count[c].answered = count[c].delivered

\* timelogger.hh:51: the maps are shared by all connections, and a URL without its host
\* is the key.  What is measured is never more than what it took, except when the
\* unlocked lookup misses its key.
NeverOverstated ==
  [][\A c \in Connections, timer \in {"rtt", "load"} :
       /\ logger'.measured[timer] # logger.measured[timer]
       /\ pc[c] = (IF timer = "rtt" THEN "stop rtt" ELSE "stop load") /\ pc'[c] # pc[c]
       => LET taken == logger'.measured[timer][Len(logger'.measured[timer])]
              own == <<c, IF timer = "rtt" THEN 0 ELSE count[c].delivered + 1>>
          IN taken.started = Epoch \/ \A i \in DOMAIN starts : starts[i] = own => taken.started >= i]_allVars

\* replayshell.cc:101: mm-webreplay throws only for what a recorder left unfinished, for
\* a request without a Host, and in a directory whose path has "save" in it.
RefusesOnlyDamaged ==
  shell = "refused" =>
    \/ cut # {} /\ (diskFull \/ \E c \in Connections : pc[c] = "serialize")
    \/ \E r \in whole : Requests(r[1])[r[2]].host = NoHeader
    \/ directory = "save" /\ recorder = "exited"

\* replayserver.cc:60-97: a response the browser got, but for the last of a connection,
\* which may not have been saved, is what it gets again for the same request, or the
\* response to another request that was just the same.
ReplaysWhatWasSeen ==
  \A a \in replies, c \in Connections : \A n \in 1 .. count[c].delivered - 1 :
    /\ script[c].recorded /\ ~diskFull
    /\ a.request = Asked(Requests(c)[n], script[c].secure)
    => \/ /\ a.reply.status = 200
          /\ LET r == a.reply.response
             IN Requests(r[1])[r[2]] = Requests(c)[n] /\ script[r[1]].secure = script[c].secure
       \/ a.reply.status = 500 /\ (a.server.delays /\ ~a.server.file)

\* http_proxy.cc:41-103: a request a client has sent is answered, unless a peer has ended
\* or reset the connection, or TLS or the disk failed.
Answers ==
  \A c \in UNION {DOMAIN s : s \in Scripts} :
    []<>(\/ c \notin Connections \/ ~Running \/ count[c].delivered = count[c].sent
         \/ fin[c].ended # {} \/ reset[c] # {} \/ c \in broken \/ pc[c] = "threw")
=============================================================================

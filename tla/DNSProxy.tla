------------------------------ MODULE DNSProxy -----------------------------
(***************************************************************************)
(* The thread DNSProxy::handle_tcp starts for a connection: a Poller with  *)
(* four actions relays bytes between the client and the DNS server through *)
(* two ByteStreamQueues, until no action is interested any more.           *)
(*                                                                         *)
(* The sockets block, so a write returns only when the kernel has taken    *)
(* all its bytes: WriteSome moves them as the peer makes room.  The peers  *)
(* and the kernel's socket buffers are external.  A peer may end its half  *)
(* of the connection, or reset it, whenever it likes.                      *)
(***************************************************************************)
EXTENDS ByteStreamQueue, FiniteSets

CONSTANTS
  SocketBuffer,  \* bytes a socket buffer of the kernel holds
  MaxBytes,      \* bound on the bytes a peer sends
  Resets         \* whether the peers reset connections

ASSUME SocketAssumption ==
  /\ SocketBuffer \in Nat \ {0}
  /\ MaxBytes \in Nat
  /\ 1 .. MaxBytes \subseteq Byte
  /\ Resets \in BOOLEAN

Side == {"client", "server"}

Other(s) == IF s = "client" THEN "server" ELSE "client"

\* The actions in the order of add_action: the socket of each, its direction
\* and the queue it pushes to or pops from.  from[s] is filled from socket s.
Actions == 1 .. 4
SocketOf(i) == IF i \in {1, 3} THEN "server" ELSE "client"
IsIn(i) == i \in {1, 2}
QueueOf(i) == IF IsIn(i) THEN SocketOf(i) ELSE Other(SocketOf(i))

VARIABLES
  from,      \* from_client and from_server
  eof,       \* FileDescriptor::eof_ of each socket; its In action is cancelled with it
  pc,        \* "poll", "service", "writing", and at the end "exit", "threw" or "aborted"
             \* ("threw" stands for the end by SIGPIPE too, which takes the whole ferry along)
  at,        \* the action Poller::poll looks at
  ready,     \* the actions with revents & events, as poll returned them
  hangup,    \* the sockets with POLLERR or POLLHUP, as poll returned them
  left,      \* bytes the write in progress has still to hand to the kernel
  sent,      \* external: how many bytes each peer has sent; byte n is the number n
  inbox,     \* external: bytes received on each socket that the proxy has not read
  outbox,    \* external: bytes written to each socket that its peer has not read
  received,  \* external: bytes each peer has read
  shut,      \* external: whether the peer has ended its half of the connection
  reset      \* external: whether the peer has reset the connection

program == <<from, eof, pc, at, ready, hangup, left>>
peers == <<sent, inbox, outbox, received, shut, reset>>
vars == <<program, peers>>

Init ==
  /\ from = [s \in Side |-> EmptyByteQueue]
  /\ eof = [s \in Side |-> FALSE]
  /\ pc = "poll"
  /\ at = 1
  /\ ready = {}
  /\ hangup = {}
  /\ left = 0
  /\ sent = [s \in Side |-> 0]
  /\ inbox = [s \in Side |-> <<>>]
  /\ outbox = [s \in Side |-> <<>>]
  /\ received = [s \in Side |-> <<>>]
  /\ shut = [s \in Side |-> FALSE]
  /\ reset = [s \in Side |-> FALSE]

Ended == pc \in {"exit", "threw", "aborted"}

-----------------------------------------------------------------------------
(***************************************************************************)
(* The peers.  After a reset what was sent to the peer is gone, but what   *)
(* the proxy had received from it can still be read.                       *)
(***************************************************************************)
PeerSends(s) ==
  /\ ~shut[s] /\ ~reset[s] /\ ~Ended
  /\ sent[s] < MaxBytes
  /\ Len(inbox[s]) < SocketBuffer
  /\ sent' = [sent EXCEPT ![s] = @ + 1]
  /\ inbox' = [inbox EXCEPT ![s] = Append(@, sent[s] + 1)]
  /\ UNCHANGED <<program, outbox, received, shut, reset>>

PeerReads(s) ==
  /\ ~reset[s]
  /\ outbox[s] # <<>>
  /\ received' = [received EXCEPT ![s] = Append(@, Head(outbox[s]))]
  /\ outbox' = [outbox EXCEPT ![s] = Tail(@)]
  /\ UNCHANGED <<program, sent, inbox, shut, reset>>

PeerShutsDown(s) ==
  /\ ~shut[s] /\ ~reset[s] /\ ~Ended
  /\ shut' = [shut EXCEPT ![s] = TRUE]
  /\ UNCHANGED <<program, sent, inbox, outbox, received, reset>>

PeerResets(s) ==
  /\ Resets /\ ~reset[s] /\ ~Ended
  /\ reset' = [reset EXCEPT ![s] = TRUE]
  /\ outbox' = [outbox EXCEPT ![s] = <<>>]
  /\ UNCHANGED <<program, sent, inbox, received, shut>>

-----------------------------------------------------------------------------
(***************************************************************************)
(* Poller::poll.                                                           *)
(***************************************************************************)

\* A Poller that does not mind an EOF it has seen.
InterestedAfterEOF(i) ==
  IF IsIn(i) THEN SpaceAvailable(from[QueueOf(i)]) ELSE NonEmpty(from[QueueOf(i)])

\* A relay without the space_available of its In actions.
InterestedWithoutSpace(i) ==
  IF IsIn(i) THEN ~eof[SocketOf(i)] ELSE NonEmpty(from[QueueOf(i)])

\* A relay that cancels both actions of a direction upon EOF.
InterestedUntilEOF(i) ==
  /\ ~eof[QueueOf(i)]
  /\ IF IsIn(i) THEN SpaceAvailable(from[QueueOf(i)]) ELSE NonEmpty(from[QueueOf(i)])

\* An action that is not cancelled, whose fd has not had EOF when it is an In
\* action, and whose when_interested holds.
Interested(i) ==
  IF IsIn(i)
    THEN ~eof[SocketOf(i)] /\ SpaceAvailable(from[QueueOf(i)])
    ELSE NonEmpty(from[QueueOf(i)])

NothingInteresting == \A i \in Actions : ~Interested(i)

\* poll(2): what the kernel reports of the socket of an action.
Readable(s) == inbox[s] # <<>> \/ shut[s] \/ reset[s]
Writable(s) == Len(outbox[s]) < SocketBuffer \/ reset[s]
Reports(i) == IF IsIn(i) THEN Readable(SocketOf(i)) ELSE Writable(SocketOf(i))
ReadyNow == {i \in Actions : Interested(i) /\ Reports(i)}

NobodyInterested ==
  /\ pc = "poll"
  /\ NothingInteresting
  /\ pc' = "exit"
  /\ UNCHANGED <<from, eof, at, ready, hangup, left, peers>>

\* A timeout of the 60 seconds changes nothing: the loop calls poll again.
Poll ==
  /\ pc = "poll"
  /\ ~NothingInteresting
  /\ hangup' = {s \in Side : reset[s]}
  /\ ready' = ReadyNow
  /\ ready' # {} \/ hangup' # {}
  /\ pc' = "service"
  /\ at' = 1
  /\ UNCHANGED <<from, eof, left, peers>>

PollOver ==
  /\ pc = "service" /\ at > 4
  /\ pc' = "poll"
  /\ UNCHANGED <<from, eof, at, ready, hangup, left, peers>>

\* POLLERR or POLLHUP on any descriptor, asked for or not, ends the loop.
HangUp ==
  /\ pc = "service" /\ at <= 4
  /\ SocketOf(at) \in hangup
  /\ pc' = "exit"
  /\ UNCHANGED <<from, eof, at, ready, hangup, left, peers>>

Skip ==
  /\ pc = "service" /\ at <= 4
  /\ SocketOf(at) \notin hangup
  /\ at \notin ready
  /\ at' = at + 1
  /\ UNCHANGED <<from, eof, pc, ready, hangup, left, peers>>

Calls(i) ==
  /\ pc = "service" /\ at = i
  /\ SocketOf(i) \notin hangup
  /\ i \in ready

-----------------------------------------------------------------------------
(***************************************************************************)
(* The callbacks.                                                          *)
(***************************************************************************)

\* ByteStreamQueue::push: the read, and Cancel upon EOF.  A read takes as much
\* as it likes of what there is.
Reads(i) ==
  LET s == SocketOf(i) IN
  /\ Calls(i)
  /\ IsIn(i)
  /\ \/ \E n \in 1 .. ContiguousToPush(from[s]) :
          /\ n <= Len(inbox[s])
          /\ from' = [from EXCEPT ![s] = Push(@, SubSeq(inbox[s], 1, n))]
          /\ inbox' = [inbox EXCEPT ![s] = SubSeq(@, n + 1, Len(@))]
          /\ UNCHANGED eof
     \/ /\ inbox[s] = <<>> /\ shut[s]
        /\ eof' = [eof EXCEPT ![s] = TRUE]
        /\ UNCHANGED <<from, inbox>>
  /\ at' = at + 1
  /\ UNCHANGED <<pc, ready, hangup, left, sent, outbox, received, shut, reset>>

\* ByteStreamQueue::pop up to its write.
StartsWrite(i) ==
  /\ Calls(i)
  /\ ~IsIn(i)
  /\ pc' = "writing"
  /\ left' = ContiguousToPop(from[QueueOf(i)])
  /\ UNCHANGED <<from, eof, at, ready, hangup, peers>>

\* The assertions at the head of push() and pop(): room for the one, bytes for the other.
AssertionFails(i) ==
  IF IsIn(i) THEN ~SpaceAvailable(from[SocketOf(i)]) ELSE ~NonEmpty(from[QueueOf(i)])

Callback(i) ==
  /\ Calls(i)
  /\ IF AssertionFails(i)
       THEN /\ pc' = "aborted"
            /\ UNCHANGED <<from, eof, at, ready, hangup, left, peers>>
       ELSE Reads(i) \/ StartsWrite(i)

\* A write that goes on with the first byte again after a short one.
UnwrittenFromStart == SubSeq(BytesIn(from[QueueOf(at)]), 1, left)

\* The bytes of the write in progress that the kernel does not have yet.
Unwritten == SubSeq(BytesIn(from[QueueOf(at)]), ContiguousToPop(from[QueueOf(at)]) - left + 1,
                    ContiguousToPop(from[QueueOf(at)]))

WriteSome ==
  LET s == SocketOf(at)
      room == SocketBuffer - Len(outbox[s])
      n == IF room < left THEN room ELSE left
  IN
  /\ pc = "writing" /\ ~reset[s]
  /\ n > 0
  /\ outbox' = [outbox EXCEPT ![s] = @ \o SubSeq(Unwritten, 1, n)]
  /\ left' = left - n
  /\ UNCHANGED <<from, eof, pc, at, ready, hangup, sent, inbox, received, shut, reset>>

\* write() returns: it has handed everything over, or the connection was reset
\* after a part of it, and that part is its result.
WriteReturns ==
  LET q == QueueOf(at) IN
  /\ pc = "writing"
  /\ left = 0 \/ (reset[SocketOf(at)] /\ left < ContiguousToPop(from[q]))
  /\ from' = [from EXCEPT ![q] = Pop(@, ContiguousToPop(@) - left)]
  /\ left' = 0
  /\ pc' = "service"
  /\ at' = at + 1
  /\ UNCHANGED <<eof, ready, hangup, peers>>

\* write fails on a connection that was reset, and read when nothing is left to
\* read there, nor an EOF: SystemCall throws.  (The kernel may also kill the
\* process with SIGPIPE, which nothing ignores.)
Throws ==
  LET s == SocketOf(at) IN
  /\ reset[s]
  /\ \/ /\ pc = "service" /\ at <= 4 /\ Calls(at) /\ IsIn(at) /\ ~AssertionFails(at)
        /\ inbox[s] = <<>> /\ ~shut[s]
     \/ pc = "writing" /\ left = ContiguousToPop(from[QueueOf(at)])
  /\ pc' = "threw"
  /\ UNCHANGED <<from, eof, at, ready, hangup, left, peers>>

ProxySteps ==
  \/ NobodyInterested \/ Poll \/ PollOver \/ HangUp \/ Skip
  \/ \E i \in Actions : Callback(i)
  \/ WriteSome \/ WriteReturns \/ Throws

Next ==
  \/ ProxySteps
  \/ \E s \in Side : PeerSends(s) \/ PeerReads(s) \/ PeerShutsDown(s) \/ PeerResets(s)

Spec == Init /\ [][Next]_vars

\* The thread is scheduled, and a peer reads at last what it is sent, whatever
\* becomes of its own sending.  Nothing makes a peer send, shut down or reset.
FairSpec == Spec /\ WF_vars(ProxySteps) /\ \A s \in Side : WF_vars(PeerReads(s))

-----------------------------------------------------------------------------
\* The types, with the indexes of both rings inside the buffer.
TypeOK ==
  /\ from \in [Side -> ByteQueue]
  /\ eof \in [Side -> BOOLEAN]
  /\ pc \in {"poll", "service", "writing", "exit", "threw", "aborted"}
  /\ at \in 1 .. 5
  /\ ready \subseteq Actions
  /\ hangup \subseteq Side
  /\ left \in 0 .. BufferSize - 1
  /\ sent \in [Side -> 0 .. MaxBytes]
  /\ inbox \in [Side -> Seq(Byte)]
  /\ outbox \in [Side -> Seq(Byte)]
  /\ received \in [Side -> Seq(Byte)]
  /\ shut \in [Side -> BOOLEAN]
  /\ reset \in [Side -> BOOLEAN]

\* What poll() found out before any callback ran still holds when an action's
\* turn comes: the assertions at the head of push() and pop() never fail.
AssertionsHold == pc # "aborted"

\* The bytes from[s] holds that have not reached the kernel.
Waiting(s) ==
  IF pc = "writing" /\ QueueOf(at) = s
    THEN SubSeq(BytesIn(from[s]), ContiguousToPop(from[s]) - left + 1, AvailableToPop(from[s]))
    ELSE BytesIn(from[s])

FirstBytes(n) == [i \in 1 .. n |-> i]

\* The relay is transparent: at every moment, also in the middle of a write, the
\* bytes a peer has read, those on their way to it, those in the ring and those
\* not read yet are all the bytes the other peer has sent, once each, in order.
Intact ==
  \A s \in Side :
    LET o == Other(s) IN
    /\ received[o] = FirstBytes(Len(received[o]))
    /\ ~reset[o] => received[o] \o outbox[o] \o Waiting(s) \o inbox[s] = FirstBytes(sent[s])

\* Unless a connection was reset, the thread ends, and closes both sockets, only
\* when both peers have ended their halves and nothing is left to relay.
NothingLost ==
  (pc \in {"exit", "threw"} /\ \A s \in Side : ~reset[s]) =>
    \A s \in Side : shut[s] /\ inbox[s] = <<>> /\ ~NonEmpty(from[s])

\* What the relay is for: nothing is changed, and nothing left behind.
Transparent == Intact /\ NothingLost

\* Every byte arrives at last, also while a ring is full, while the other
\* direction is idle or ended, or while a write blocks, unless a reset ends it
\* all.  (What has arrived is never more than what was sent, and both only grow.)
Relayed ==
  \A s \in Side : []<>(Len(received[Other(s)]) = sent[s] \/ \E r \in Side : reset[r])

\* The thread goes away, and the connections with it, once both peers have ended
\* their halves, or one of them has reset its connection.
Ends == ((\A s \in Side : shut[s]) \/ (\E s \in Side : reset[s])) ~> Ended
=============================================================================

---------------------------- MODULE PacketQueue ----------------------------
(***************************************************************************)
(* The packet queues of mm-link whose drop rule looks only at the size of  *)
(* the queue: InfinitePacketQueue, DropTailPacketQueue and                 *)
(* DropHeadPacketQueue (src/packet).  A queue is a record of its packets,  *)
(* oldest first, and of the two counters the code keeps beside them; a     *)
(* packet is a record of an identity, a size in bytes and the arrival time *)
(* QueuedPacket carries.  The operators are the methods of the classes, as *)
(* functions from a queue to a queue; an assert() is an operator of its    *)
(* own, and the module that calls the method decides what an abort means.  *)
(***************************************************************************)
EXTENDS Integers, Sequences

CONSTANTS
  Discipline,   \* "infinite", "droptail" or "drophead"
  PacketLimit,  \* packet_limit_, 0 when the queue has none
  ByteLimit     \* byte_limit_, 0 when the queue has none

\* linkshell.cc make_packet_queue and the constructors: a dropping queue has
\* a limit, the infinite queue takes no arguments.
ASSUME LimitsAssumption ==
  /\ Discipline \in {"infinite", "droptail", "drophead"}
  /\ PacketLimit \in Nat
  /\ ByteLimit \in Nat
  /\ Discipline = "infinite" <=> (PacketLimit = 0 /\ ByteLimit = 0)

-----------------------------------------------------------------------------
Packet == [id : Nat, size : Nat, arrival : Nat]

Queue == [pkts : Seq(Packet), bytes : Int, count : Int]

EmptyQueue == [pkts |-> <<>>, bytes |-> 0, count |-> 0]

Empty(q) == q.pkts = <<>>

GoodWith(bytes, count) ==
  /\ ByteLimit # 0 => bytes <= ByteLimit
  /\ PacketLimit # 0 => count <= PacketLimit

Good(q) == GoodWith(q.bytes, q.count)

Accept(q, p) ==
  [pkts |-> Append(q.pkts, p), bytes |-> q.bytes + p.size, count |-> q.count + 1]

\* A dequeue() that takes the head and removes the packet at the back.
PopWrongEnd(q) ==
  [pkts |-> SubSeq(q.pkts, 1, Len(q.pkts) - 1), bytes |-> q.bytes - Head(q.pkts).size,
   count |-> q.count - 1]

\* dequeue() without its assertions: the caller takes Head(q.pkts).
Pop(q) ==
  [pkts |-> Tail(q.pkts), bytes |-> q.bytes - Head(q.pkts).size, count |-> q.count - 1]

\* The two assertions of DroppingPacketQueue::dequeue.  Without limits, as in
\* the infinite queue, the second is vacuous.
DequeueAsserts(q) == ~Empty(q) /\ Good(Pop(q))

\* DropTailPacketQueue::enqueue: a packet that does not fit is dropped.
EnqueueTail(q, p) ==
  IF GoodWith(q.bytes + p.size, q.count + 1) THEN Accept(q, p) ELSE q

\* The newcomer is accepted and nothing leaves.
EnqueueHeadUnchecked(q, p) == Accept(q, p)

\* DropHeadPacketQueue::enqueue: the newcomer is accepted, then packets leave
\* from the head until the limits are met.  Each of them leaves through
\* dequeue(), whose assertion demands that one departure is enough, so the
\* loop either stops after one round or the process is gone.
EnqueueHead(q, p) ==
  LET full == Accept(q, p) IN IF Good(full) THEN full ELSE Pop(full)

EnqueueHeadAsserts(q, p) ==
  LET full == Accept(q, p) IN Good(full) \/ DequeueAsserts(full)

-----------------------------------------------------------------------------
\* AbstractPacketQueue::enqueue of the discipline in use.
Enqueue(q, p) ==
  IF Discipline = "drophead" THEN EnqueueHead(q, p) ELSE EnqueueTail(q, p)

\* Every assertion met inside that call holds.
EnqueueAsserts(q, p) ==
  IF Discipline = "drophead" THEN EnqueueHeadAsserts(q, p)
                             ELSE Good(EnqueueTail(q, p))
=============================================================================

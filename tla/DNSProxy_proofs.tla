--------------------------- MODULE DNSProxy_proofs -------------------------
(***************************************************************************)
(* The relay of DNSProxy never fails an assertion of its rings and passes  *)
(* on every byte in order, for rings and socket buffers of every size,     *)
(* however its peers behave.                                               *)
(***************************************************************************)
EXTENDS DNSProxy, SequenceTheorems, TLAPS

(***************************************************************************)
(* The ring of ByteStreamQueue is a bounded queue of bytes: push() appends *)
(* to what the ring holds and pop() removes from its front, for buffers of *)
(* every size and wherever the two indexes are.                            *)
(***************************************************************************)
\* A ring of n slots holds up to n - 1 bytes: what can be popped and what can
\* be pushed add up to that, and neither is ever negative (available_to_pop and
\* available_to_push, whose unsigned results would be huge otherwise).
LEMMA RingCapacity ==
  ASSUME NEW q \in ByteQueue
  PROVE  /\ AvailableToPop(q) \in 0 .. BufferSize - 1
         /\ AvailableToPush(q) \in 0 .. BufferSize - 1
         /\ AvailableToPop(q) + AvailableToPush(q) = BufferSize - 1
BY BufferSizeAssumption DEF ByteQueue, Slots, AvailableToPop, AvailableToPush

\* One read, and one write, moves at least a byte if there is room or there are
\* bytes, never more than that, and never past the end of the buffer.
LEMMA ContiguousIsPart ==
  ASSUME NEW q \in ByteQueue
  PROVE  /\ ContiguousToPush(q) \in 0 .. AvailableToPush(q)
         /\ ContiguousToPop(q) \in 0 .. AvailableToPop(q)
         /\ SpaceAvailable(q) => ContiguousToPush(q) > 0
         /\ NonEmpty(q) => ContiguousToPop(q) > 0
         /\ q.push + ContiguousToPush(q) <= BufferSize
         /\ q.pop + ContiguousToPop(q) <= BufferSize
<1>1. /\ AvailableToPop(q) \in 0 .. BufferSize - 1
      /\ AvailableToPush(q) \in 0 .. BufferSize - 1
  BY RingCapacity
<1>2. q.push \in 0 .. BufferSize - 1 /\ q.pop \in 0 .. BufferSize - 1
  BY DEF ByteQueue, Slots
<1>3. \A i \in 0 .. BufferSize - 1, n \in 0 .. BufferSize - 1 :
        /\ UpToEnd(i, n) \in 0 .. n
        /\ n > 0 => UpToEnd(i, n) > 0
        /\ i + UpToEnd(i, n) <= BufferSize
  BY BufferSizeAssumption DEF UpToEnd
<1> QED
  BY <1>1, <1>2, <1>3 DEF ContiguousToPush, ContiguousToPop, SpaceAvailable, NonEmpty

\* The indexes of a ring after n bytes were pushed, as integers: size b, push
\* index p, pop index o.
LEMMA PushedIndexes ==
  ASSUME NEW b \in Nat, b > 1,
         NEW p \in 0 .. b - 1, NEW o \in 0 .. b - 1,
         NEW n \in Nat, n >= 1,
         p + n <= b,
         n <= o - p - 1 + (IF o > p THEN 0 ELSE b)
  PROVE  LET a == p - o + (IF o > p THEN b ELSE 0)
             At(i) == IF o + i >= b THEN o + i - b ELSE o + i
             r == IF p + n = b THEN 0 ELSE p + n
         IN /\ r - o + (IF o > r THEN b ELSE 0) = a + n
            /\ \A i \in 1 .. a : At(i - 1) \in 0 .. b - 1 /\ At(i - 1) \notin p .. p + n - 1
            /\ \A i \in a + 1 .. a + n : At(i - 1) = p + (i - a) - 1
<1>1. CASE o > p
  BY <1>1
<1>2. CASE o <= p
  BY <1>2
<1> QED
  BY <1>1, <1>2

\* The bytes a ring holds are a sequence of bytes.
LEMMA BytesInIsSeq ==
  ASSUME NEW q \in ByteQueue
  PROVE  /\ BytesIn(q) \in Seq(Byte)
         /\ Len(BytesIn(q)) = AvailableToPop(q)
<1>1. \A i \in 1 .. AvailableToPop(q) : SlotAfter(q, i - 1) \in Slots
  BY BufferSizeAssumption DEF ByteQueue, Slots, AvailableToPop, SlotAfter
<1>2. \A i \in 1 .. AvailableToPop(q) : q.buffer[SlotAfter(q, i - 1)] \in Byte
  BY <1>1 DEF ByteQueue
<1>3. AvailableToPop(q) \in Nat
  BY RingCapacity, BufferSizeAssumption
<1>4. BytesIn(q) \in [1 .. AvailableToPop(q) -> Byte]
  BY <1>2 DEF BytesIn
<1> QED
  BY <1>3, <1>4

\* push() of what one read returned appends it.
THEOREM PushAppends ==
  ASSUME NEW q \in ByteQueue,
         NEW chunk \in Seq(Byte),
         Len(chunk) \in 1 .. ContiguousToPush(q)
  PROVE  /\ Push(q, chunk) \in ByteQueue
         /\ AvailableToPop(Push(q, chunk)) = AvailableToPop(q) + Len(chunk)
         /\ BytesIn(Push(q, chunk)) = BytesIn(q) \o chunk
<1> DEFINE r == Push(q, chunk)
           n == Len(chunk)
           a == AvailableToPop(q)
<1>1. n \in Nat /\ n >= 1 /\ n <= AvailableToPush(q) /\ q.push + n <= BufferSize
  BY ContiguousIsPart, RingCapacity, BufferSizeAssumption DEF ByteQueue, Slots
<1>2. q.push \in Slots /\ q.pop \in Slots /\ q.buffer \in [Slots -> Byte]
  BY DEF ByteQueue
<1>3. r.push = Wrapped(q.push + n) /\ r.pop = q.pop
  BY DEF Push
<1>4. \A i \in Slots : r.buffer[i] = IF i \in q.push .. q.push + n - 1
                                       THEN chunk[i - q.push + 1] ELSE q.buffer[i]
  BY DEF Push
<1>5. r \in ByteQueue
  <2>1. \A i \in q.push .. q.push + n - 1 : chunk[i - q.push + 1] \in Byte
    BY <1>1, <1>2 DEF Slots
  <2>2. [i \in Slots |-> IF i \in q.push .. q.push + n - 1
                           THEN chunk[i - q.push + 1] ELSE q.buffer[i]] \in [Slots -> Byte]
    BY <2>1, <1>2
  <2>3. Wrapped(q.push + n) \in Slots
    BY <1>1, <1>2, BufferSizeAssumption DEF Slots, Wrapped
  <2> QED
    BY <2>2, <2>3, <1>2 DEF Push, ByteQueue
<1>6. /\ AvailableToPop(r) = a + n
      /\ \A i \in 1 .. a : SlotAfter(q, i - 1) \in Slots
                            /\ SlotAfter(q, i - 1) \notin q.push .. q.push + n - 1
      /\ \A i \in a + 1 .. a + n : SlotAfter(q, i - 1) = q.push + (i - a) - 1
  <2>1. /\ BufferSize \in Nat /\ BufferSize > 1
        /\ q.push \in 0 .. BufferSize - 1 /\ q.pop \in 0 .. BufferSize - 1
        /\ n \in Nat /\ n >= 1 /\ q.push + n <= BufferSize
        /\ n <= q.pop - q.push - 1 + (IF q.pop > q.push THEN 0 ELSE BufferSize)
    BY <1>1, <1>2, BufferSizeAssumption DEF Slots, AvailableToPush
  <2>2. /\ r.push = IF q.push + n = BufferSize THEN 0 ELSE q.push + n
        /\ r.pop = q.pop
    BY <1>3 DEF Wrapped
  <2> HIDE DEF r, n
  <2>3. AvailableToPop(r) = a + n
    BY <2>1, <2>2, PushedIndexes, SMTT(30) DEF AvailableToPop
  <2>4. \A i \in 1 .. a : SlotAfter(q, i - 1) \in Slots
                           /\ SlotAfter(q, i - 1) \notin q.push .. q.push + n - 1
    BY <2>1, PushedIndexes DEF AvailableToPop, SlotAfter, Slots
  <2>5. \A i \in a + 1 .. a + n : SlotAfter(q, i - 1) = q.push + (i - a) - 1
    <3>1. a = q.push - q.pop + (IF q.pop > q.push THEN BufferSize ELSE 0)
      BY DEF AvailableToPop
    <3>2. \A i : SlotAfter(q, i - 1) = IF q.pop + (i - 1) >= BufferSize
                                       THEN q.pop + (i - 1) - BufferSize ELSE q.pop + (i - 1)
      BY DEF SlotAfter
    <3> DEFINE p == q.push
               o == q.pop
               At(i) == SlotAfter(q, i - 1)
    <3>3. /\ p \in 0 .. BufferSize - 1 /\ o \in 0 .. BufferSize - 1
          /\ n \in Nat /\ p + n <= BufferSize
          /\ n <= o - p - 1 + (IF o > p THEN 0 ELSE BufferSize)
          /\ a = p - o + (IF o > p THEN BufferSize ELSE 0)
          /\ \A i : At(i) = IF o + (i - 1) >= BufferSize
                             THEN o + (i - 1) - BufferSize ELSE o + (i - 1)
      BY <2>1, <3>1, <3>2
    <3> HIDE DEF a, p, o, At
    <3>4. \A i \in a + 1 .. a + n : At(i) = p + (i - a) - 1
      BY <3>3, BufferSizeAssumption
    <3> QED
      BY <3>4 DEF At, p
  <2> QED
    BY <2>3, <2>4, <2>5
<1>7. a \in Nat /\ a + n <= BufferSize - 1
  <2> HIDE DEF n
  <2> QED
    BY <1>1, RingCapacity, BufferSizeAssumption
<1>8. \A i \in 1 .. a + n :
         r.buffer[SlotAfter(q, i - 1)] = IF i <= a THEN q.buffer[SlotAfter(q, i - 1)] ELSE chunk[i - a]
  <2> TAKE i \in 1 .. a + n
  <2>1. CASE i <= a
    BY <2>1, <1>4, <1>6, <1>7
  <2>2. CASE i > a
    <3>1. SlotAfter(q, i - 1) = q.push + (i - a) - 1
      BY <2>2, <1>1, <1>6, <1>7
    <3>2. SlotAfter(q, i - 1) \in q.push .. q.push + n - 1
          /\ SlotAfter(q, i - 1) \in Slots
          /\ SlotAfter(q, i - 1) - q.push + 1 = i - a
      BY <3>1, <2>2, <1>1, <1>2, <1>7, BufferSizeAssumption, SMTT(30) DEF Slots
    <3> QED
      BY <3>2, <2>2, <1>4, <1>7
  <2> QED
    BY <2>1, <2>2, <1>7
<1>9. BytesIn(r) = [i \in 1 .. a + n |-> r.buffer[SlotAfter(q, i - 1)]]
  BY <1>3, <1>6 DEF BytesIn, SlotAfter
<1>10. BytesIn(r) = BytesIn(q) \o chunk
  <2> DEFINE c == BytesIn(q) \o chunk
  <2>1. BytesIn(q) \in Seq(Byte) /\ Len(BytesIn(q)) = a
    BY BytesInIsSeq
  <2>2. /\ c \in Seq(Byte)
        /\ Len(c) = a + n
        /\ \A i \in 1 .. a + n : c[i] = IF i <= a THEN BytesIn(q)[i] ELSE chunk[i - a]
    <3>1. /\ c \in Seq(Byte)
          /\ Len(c) = Len(BytesIn(q)) + Len(chunk)
          /\ \A i \in 1 .. Len(BytesIn(q)) + Len(chunk) :
               c[i] = IF i <= Len(BytesIn(q)) THEN BytesIn(q)[i] ELSE chunk[i - Len(BytesIn(q))]
      BY <2>1, ConcatProperties, Zenon
    <3> QED
      BY <2>1, <3>1, Zenon
  <2>3. \A i \in 1 .. a : BytesIn(q)[i] = q.buffer[SlotAfter(q, i - 1)]
    BY DEF BytesIn
  <2>4. \A i \in 1 .. a + n : c[i] = BytesIn(r)[i]
    <3> HIDE DEF c, n, r
    <3> QED
      BY <2>2, <2>3, <1>1, <1>7, <1>8, <1>9, SMTT(30)
  <2>5. BytesIn(r) \in Seq(Byte) /\ Len(BytesIn(r)) = a + n
    BY <1>5, <1>6, BytesInIsSeq
  <2> HIDE DEF c, r
  <2>6. BytesIn(r) = c
    BY <2>2, <2>4, <2>5, SeqEqual
  <2> QED
    BY <2>6 DEF c
<1> QED
  BY <1>5, <1>6, <1>10

\* pop() of what one write took removes it from the front.
THEOREM PopRemoves ==
  ASSUME NEW q \in ByteQueue,
         NEW n \in 1 .. ContiguousToPop(q)
  PROVE  /\ Pop(q, n) \in ByteQueue
         /\ AvailableToPop(Pop(q, n)) = AvailableToPop(q) - n
         /\ BytesIn(Pop(q, n)) = SubSeq(BytesIn(q), n + 1, AvailableToPop(q))
<1> DEFINE r == Pop(q, n)
           a == AvailableToPop(q)
<1>1. n \in Nat /\ n >= 1 /\ n <= a /\ q.pop + n <= BufferSize /\ a \in Nat /\ a < BufferSize
  BY ContiguousIsPart, RingCapacity, BufferSizeAssumption DEF ByteQueue, Slots
<1>2. q.push \in Slots /\ q.pop \in Slots /\ q.buffer \in [Slots -> Byte]
  BY DEF ByteQueue
<1>3. r.push = q.push /\ r.pop = Wrapped(q.pop + n) /\ r.buffer = q.buffer
  BY DEF Pop, ByteQueue
<1>4. r \in ByteQueue
  <2>1. Wrapped(q.pop + n) \in Slots
    BY <1>1, <1>2, BufferSizeAssumption DEF Slots, Wrapped
  <2> QED
    BY <2>1, <1>2 DEF Pop, ByteQueue
<1>5. AvailableToPop(r) = a - n
  BY <1>1, <1>2, <1>3, BufferSizeAssumption DEF AvailableToPop, Wrapped, Slots
<1>6. \A i \in 1 .. a - n : SlotAfter(r, i - 1) = SlotAfter(q, i + n - 1)
  BY <1>1, <1>2, <1>3, BufferSizeAssumption DEF SlotAfter, Wrapped, Slots
<1>7. BytesIn(r) = [i \in 1 .. a - n |-> q.buffer[SlotAfter(q, i + n - 1)]]
  BY <1>3, <1>5, <1>6 DEF BytesIn
<1>8. SubSeq(BytesIn(q), n + 1, a) = [i \in 1 .. a - n |-> BytesIn(q)[i + n]]
  <2>1. BytesIn(q) \in Seq(Byte) /\ Len(BytesIn(q)) = a
    BY BytesInIsSeq
  <2> QED
    BY <2>1, <1>1
<1>9. \A i \in 1 .. a - n : BytesIn(q)[i + n] = q.buffer[SlotAfter(q, i + n - 1)]
  BY <1>1 DEF BytesIn
<1>10. BytesIn(r) = SubSeq(BytesIn(q), n + 1, a)
  BY <1>7, <1>8, <1>9
<1> QED
  BY <1>4, <1>5, <1>10

-----------------------------------------------------------------------------
\* What when_interested told poll() of an action.
Fits(i) ==
  IF IsIn(i) THEN SpaceAvailable(from[QueueOf(i)]) ELSE NonEmpty(from[QueueOf(i)])

\* It still holds for the actions whose turn has not passed: each ring is filled
\* by one action and emptied by one other, so that the callbacks before it can
\* only have made room in a ring to be filled and added bytes to one to be emptied.
StillInteresting ==
  pc \in {"service", "writing"} => \A i \in ready : i >= at => Fits(i)

\* A write in progress is one of the two Out actions, and has at most left what
\* pop() gave it.
WriteFits ==
  pc = "writing" =>
    /\ at \in {3, 4}
    /\ NonEmpty(from[QueueOf(at)])
    /\ left <= ContiguousToPop(from[QueueOf(at)])

IInv == TypeOK /\ AssertionsHold /\ StillInteresting /\ WriteFits

-----------------------------------------------------------------------------
\* A socket, and the ring an action uses, belong to one of the two sides.
LEMMA Sides ==
  /\ \A i \in Actions : SocketOf(i) \in Side /\ QueueOf(i) \in Side
  /\ \A s \in Side : Other(s) \in Side
BY DEF Actions, SocketOf, QueueOf, IsIn, Other, Side

\* Every ring is filled by one action and emptied by one other.
LEMMA OneFillsOneEmpties ==
  ASSUME NEW i \in Actions, NEW j \in Actions, i # j, QueueOf(i) = QueueOf(j)
  PROVE  IsIn(i) <=> ~IsIn(j)
BY DEF Actions, SocketOf, QueueOf, IsIn, Other

LEMMA EmptyRing == EmptyByteQueue \in ByteQueue
BY BufferSizeAssumption, ByteAssumption DEF EmptyByteQueue, ByteQueue, Slots

\* At the start nothing has been asked of the Poller yet.
LEMMA InitIInv == Init => IInv
<1> SUFFICES ASSUME Init PROVE IInv
  OBVIOUS
<1>1. TypeOK
  BY EmptyRing, BufferSizeAssumption, SocketAssumption DEF Init, TypeOK
<1> QED
  BY <1>1 DEF Init, IInv, AssertionsHold, StillInteresting, WriteFits

\* What the peers do touches none of the program's state.
LEMMA PeersKeepIInv ==
  ASSUME IInv, NEW s \in Side,
         PeerSends(s) \/ PeerReads(s) \/ PeerShutsDown(s) \/ PeerResets(s)
  PROVE  IInv'
<1>1. UNCHANGED program
  BY DEF PeerSends, PeerReads, PeerShutsDown, PeerResets
<1>2. TypeOK'
  <2>1. CASE PeerSends(s)
    <3>1. sent[s] + 1 \in 0 .. MaxBytes /\ sent[s] + 1 \in Byte
      BY <2>1, SocketAssumption DEF PeerSends, IInv, TypeOK
    <3> QED
      BY <2>1, <3>1 DEF PeerSends, IInv, TypeOK, program
  <2>2. CASE PeerReads(s)
    <3>1. Head(outbox[s]) \in Byte /\ Tail(outbox[s]) \in Seq(Byte)
      BY <2>2 DEF PeerReads, IInv, TypeOK
    <3> QED
      BY <2>2, <3>1 DEF PeerReads, IInv, TypeOK, program
  <2>3. CASE PeerShutsDown(s)
    BY <2>3 DEF PeerShutsDown, IInv, TypeOK, program
  <2>4. CASE PeerResets(s)
    BY <2>4 DEF PeerResets, IInv, TypeOK, program
  <2> QED
    BY <2>1, <2>2, <2>3, <2>4
<1> QED
  BY <1>1, <1>2 DEF IInv, AssertionsHold, StillInteresting, WriteFits, Fits, program

\* Steps of the Poller itself.
LEMMA PollerKeepsIInv ==
  ASSUME IInv, NobodyInterested \/ Poll \/ PollOver \/ HangUp \/ Skip
  PROVE  IInv'
<1>1. CASE NobodyInterested
  BY <1>1 DEF NobodyInterested, peers, IInv, TypeOK, AssertionsHold, StillInteresting, WriteFits
<1>2. CASE Poll
  <2>1. /\ ready' \subseteq Actions
        /\ \A i \in ready' : Interested(i)
    BY <1>2 DEF Poll, ReadyNow
  <2>2. \A i \in ready' : Fits(i)'
    BY <1>2, <2>1 DEF Poll, Interested, Fits, QueueOf
  <2> QED
    BY <1>2, <2>1, <2>2 DEF Poll, peers, IInv, TypeOK, AssertionsHold, StillInteresting, WriteFits
<1>3. CASE PollOver
  BY <1>3 DEF PollOver, peers, IInv, TypeOK, AssertionsHold, StillInteresting, WriteFits
<1>4. CASE HangUp
  BY <1>4 DEF HangUp, peers, IInv, TypeOK, AssertionsHold, StillInteresting, WriteFits
<1>5. CASE Skip
  <2>1. TypeOK' /\ AssertionsHold' /\ WriteFits'
    BY <1>5 DEF Skip, peers, IInv, TypeOK, AssertionsHold, WriteFits
  <2>2. StillInteresting'
    <3> SUFFICES ASSUME NEW j \in ready', j >= at'
                 PROVE  Fits(j)'
      BY DEF StillInteresting
    <3>1. j \in ready /\ j \in Nat /\ at \in Nat /\ at' = at + 1 /\ pc = "service" /\ UNCHANGED from
      BY <1>5 DEF Skip, IInv, TypeOK, Actions
    <3>2. j >= at
      BY <3>1
    <3> QED
      BY <3>1, <3>2 DEF IInv, StillInteresting, Fits
  <2> QED
    BY <2>1, <2>2 DEF IInv
<1> QED
  BY <1>1, <1>2, <1>3, <1>4, <1>5

\* What poll() asked still holds for the action that is called: this is the step
\* that needs StillInteresting.
LEMMA CalledFits ==
  ASSUME IInv, NEW i \in Actions, Calls(i)
  PROVE  Fits(i)
BY DEF Calls, IInv, StillInteresting, Actions

\* A read pushes at least one byte to a ring that no later action fills.
LEMMA ReadsKeepsIInv ==
  ASSUME IInv, NEW i \in Actions, Reads(i)
  PROVE  IInv'
<1> DEFINE s == SocketOf(i)
<1>1. s \in Side /\ QueueOf(i) = s /\ at = i /\ IsIn(i) /\ pc = "service" /\ i \in ready
  BY Sides DEF Reads, Calls, QueueOf
<1>2. from[s] \in ByteQueue /\ inbox[s] \in Seq(Byte) /\ at \in 1 .. 4
  BY <1>1 DEF IInv, TypeOK, Actions
<1>3. /\ at' = at + 1
      /\ UNCHANGED <<pc, ready, hangup, left, sent, outbox, received, shut, reset>>
  BY DEF Reads
<1>4. CASE inbox[s] = <<>> /\ shut[s] /\ eof' = [eof EXCEPT ![s] = TRUE]
           /\ UNCHANGED <<from, inbox>>
  <2>1. TypeOK'
    BY <1>1, <1>2, <1>3, <1>4 DEF IInv, TypeOK
  <2>2. StillInteresting'
    <3> SUFFICES ASSUME NEW j \in ready', j >= at'
                 PROVE  Fits(j)'
      BY DEF StillInteresting
    <3>1. j \in ready /\ j \in Nat /\ at \in Nat /\ at' = at + 1 /\ UNCHANGED from
      BY <1>3, <1>4 DEF IInv, TypeOK, Actions
    <3>2. j >= at
      BY <3>1
    <3> QED
      BY <1>1, <3>1, <3>2 DEF IInv, StillInteresting, Fits
  <2> QED
    BY <1>1, <1>3, <2>1, <2>2 DEF IInv, AssertionsHold, WriteFits
<1>5. ASSUME NEW n \in 1 .. ContiguousToPush(from[s]),
             n <= Len(inbox[s]),
             from' = [from EXCEPT ![s] = Push(@, SubSeq(inbox[s], 1, n))],
             inbox' = [inbox EXCEPT ![s] = SubSeq(@, n + 1, Len(@))],
             UNCHANGED eof
      PROVE  IInv'
  <2> DEFINE chunk == SubSeq(inbox[s], 1, n)
  <2>1. n \in Nat /\ n >= 1 /\ n <= ContiguousToPush(from[s])
    BY <1>2, ContiguousIsPart, RingCapacity, BufferSizeAssumption
  <2>2. chunk \in Seq(Byte) /\ Len(chunk) = n
    BY <1>2, <1>5, <2>1
  <2>3. SubSeq(inbox[s], n + 1, Len(inbox[s])) \in Seq(Byte)
    BY <1>2, <1>5, <2>1
  <2>4. /\ Push(from[s], chunk) \in ByteQueue
        /\ AvailableToPop(Push(from[s], chunk)) = AvailableToPop(from[s]) + n
    <3> HIDE DEF chunk
    <3> QED
      BY <1>2, <2>1, <2>2, PushAppends
  <2>5. TypeOK'
    BY <1>1, <1>2, <1>3, <1>5, <2>3, <2>4 DEF IInv, TypeOK
  <2>6. NonEmpty(from'[s])
    <3>1. AvailableToPop(from[s]) \in Nat
      BY <1>2, RingCapacity, BufferSizeAssumption
    <3>2. from'[s] = Push(from[s], chunk)
      BY <1>1, <1>5 DEF IInv, TypeOK
    <3> QED
      BY <2>1, <2>4, <3>1, <3>2 DEF NonEmpty
  <2>7. StillInteresting'
    <3> SUFFICES ASSUME NEW j \in ready', j >= at'
                 PROVE  Fits(j)'
      BY DEF StillInteresting
    <3>1. j \in ready /\ j \in Actions /\ j # i /\ j >= at
      BY <1>1, <1>2, <1>3 DEF IInv, TypeOK, Actions
    <3>2. CASE QueueOf(j) = s
      <4>1. ~IsIn(j)
        BY <1>1, <3>1, <3>2, OneFillsOneEmpties
      <4> QED
        BY <3>2, <4>1, <2>6 DEF Fits
    <3>3. CASE QueueOf(j) # s
      <4>1. from'[QueueOf(j)] = from[QueueOf(j)]
        BY <1>5, <3>1, <3>3, Sides DEF IInv, TypeOK
      <4>2. Fits(j)
        BY <1>1, <3>1 DEF IInv, StillInteresting
      <4> QED
        BY <4>1, <4>2 DEF Fits
    <3> QED
      BY <3>2, <3>3
  <2> QED
    BY <1>1, <1>3, <2>5, <2>7 DEF IInv, AssertionsHold, WriteFits
<1> QED
  BY <1>4, <1>5 DEF Reads

\* A write pops from a ring that no later action empties.
LEMMA WritesKeepIInv ==
  ASSUME IInv, WriteSome \/ WriteReturns \/ \E i \in Actions : StartsWrite(i)
  PROVE  IInv'
<1>1. ASSUME NEW i \in Actions, StartsWrite(i)
      PROVE  IInv'
  <2> DEFINE q == QueueOf(i)
  <2>1. q \in Side /\ at = i /\ ~IsIn(i) /\ pc = "service" /\ NonEmpty(from[q])
    BY <1>1, CalledFits, Sides DEF StartsWrite, Calls, Fits
  <2>2. from[q] \in ByteQueue
    BY <2>1 DEF IInv, TypeOK
  <2>3. ContiguousToPop(from[q]) \in 0 .. BufferSize - 1
    BY <2>2, ContiguousIsPart, RingCapacity, BufferSizeAssumption
  <2>4. /\ pc' = "writing" /\ left' = ContiguousToPop(from[q])
        /\ UNCHANGED <<from, eof, at, ready, hangup, peers>>
    BY <1>1 DEF StartsWrite
  <2>5. TypeOK'
    BY <2>3, <2>4 DEF IInv, TypeOK, peers
  <2>6. StillInteresting'
    BY <2>1, <2>4 DEF IInv, StillInteresting, Fits
  <2>7. WriteFits'
    BY <2>1, <2>3, <2>4, BufferSizeAssumption DEF WriteFits, IsIn, Actions
  <2> QED
    BY <2>4, <2>5, <2>6, <2>7 DEF IInv, AssertionsHold
<1>2. ASSUME pc = "writing"
      PROVE  /\ at \in Actions /\ ~IsIn(at)
             /\ SocketOf(at) \in Side /\ QueueOf(at) \in Side
             /\ from[QueueOf(at)] \in ByteQueue
             /\ ContiguousToPop(from[QueueOf(at)]) \in Nat
             /\ left \in Nat /\ left <= ContiguousToPop(from[QueueOf(at)])
             /\ ContiguousToPop(from[QueueOf(at)]) > 0
  <2>1. at \in Actions /\ ~IsIn(at) /\ left \in Nat
        /\ left <= ContiguousToPop(from[QueueOf(at)]) /\ NonEmpty(from[QueueOf(at)])
    BY <1>2, BufferSizeAssumption DEF IInv, TypeOK, WriteFits, Actions, IsIn
  <2>2. from[QueueOf(at)] \in ByteQueue
    BY <2>1, Sides DEF IInv, TypeOK
  <2>3. /\ ContiguousToPop(from[QueueOf(at)]) \in Nat
        /\ ContiguousToPop(from[QueueOf(at)]) > 0
    BY <2>1, <2>2, ContiguousIsPart, RingCapacity, BufferSizeAssumption
  <2> QED
    BY <2>1, <2>2, <2>3, Sides
<1>3. CASE WriteSome
  <2> DEFINE s == SocketOf(at)
             q == from[QueueOf(at)]
             room == SocketBuffer - Len(outbox[s])
             n == IF room < left THEN room ELSE left
  <2>1. /\ pc = "writing" /\ n > 0
        /\ outbox' = [outbox EXCEPT ![s] = @ \o SubSeq(Unwritten, 1, n)]
        /\ left' = left - n
        /\ UNCHANGED <<from, eof, pc, at, ready, hangup, sent, inbox, received, shut, reset>>
    BY <1>3 DEF WriteSome
  <2>2. at \in Actions /\ s \in Side /\ q \in ByteQueue /\ left \in Nat
        /\ left <= ContiguousToPop(q) /\ ContiguousToPop(q) \in Nat
    BY <1>2, <2>1
  <2>3. outbox[s] \in Seq(Byte)
    BY <2>2 DEF IInv, TypeOK
  <2>4. n \in Nat /\ n <= left
    BY <2>1, <2>2, <2>3, SocketAssumption
  <2>5. ContiguousToPop(q) <= AvailableToPop(q) /\ AvailableToPop(q) \in Nat
    BY <2>2, ContiguousIsPart, RingCapacity, BufferSizeAssumption
  <2>6. Unwritten \in Seq(Byte) /\ Len(Unwritten) = left
    <3>1. BytesIn(q) \in Seq(Byte) /\ Len(BytesIn(q)) = AvailableToPop(q)
      BY <2>2, BytesInIsSeq
    <3> QED
      BY <2>2, <2>5, <3>1 DEF Unwritten
  <2>7. SubSeq(Unwritten, 1, n) \in Seq(Byte)
    <3> HIDE DEF n
    <3> QED
      BY <2>4, <2>6
  <2>8. outbox[s] \o SubSeq(Unwritten, 1, n) \in Seq(Byte)
    <3> HIDE DEF n
    <3> QED
      BY <2>3, <2>7
  <2>9. left' \in 0 .. BufferSize - 1 /\ left' <= left
    <3> HIDE DEF n
    <3> QED
      BY <2>1, <2>2, <2>4, BufferSizeAssumption DEF IInv, TypeOK
  <2>10. TypeOK'
    <3> HIDE DEF n
    <3> QED
      BY <2>1, <2>2, <2>8, <2>9 DEF IInv, TypeOK
  <2>11. StillInteresting' /\ WriteFits'
    <3>1. StillInteresting'
      BY <2>1 DEF IInv, StillInteresting, Fits
    <3>2. left' \in Nat /\ left' <= ContiguousToPop(q)
      BY <2>2, <2>9, BufferSizeAssumption
    <3> QED
      BY <2>1, <3>1, <3>2 DEF IInv, WriteFits
  <2> QED
    BY <2>1, <2>10, <2>11 DEF IInv, AssertionsHold
<1>4. CASE WriteReturns
  <2> DEFINE q == QueueOf(at)
             n == ContiguousToPop(from[q]) - left
  <2>1. /\ pc = "writing"
        /\ left = 0 \/ left < ContiguousToPop(from[q])
        /\ from' = [from EXCEPT ![q] = Pop(@, n)]
        /\ left' = 0 /\ pc' = "service" /\ at' = at + 1
        /\ UNCHANGED <<eof, ready, hangup, peers>>
    BY <1>4 DEF WriteReturns
  <2>2. at \in Actions /\ ~IsIn(at) /\ q \in Side /\ from[q] \in ByteQueue
    BY <1>2, <2>1
  <2>3. n \in 1 .. ContiguousToPop(from[q])
    BY <1>2, <2>1
  <2>4. Pop(from[q], n) \in ByteQueue
    <3> HIDE DEF n
    <3> QED
      BY <2>2, <2>3, PopRemoves
  <2>5. TypeOK'
    <3>1. from' \in [Side -> ByteQueue]
      <4> HIDE DEF n
      <4> QED
        BY <2>1, <2>2, <2>4 DEF IInv, TypeOK
    <3>2. left' \in 0 .. BufferSize - 1 /\ at' \in 1 .. 5
      BY <2>1, <2>2, BufferSizeAssumption DEF Actions
    <3> QED
      BY <2>1, <3>1, <3>2 DEF IInv, TypeOK, peers
  <2>6. StillInteresting'
    <3> SUFFICES ASSUME NEW j \in ready', j >= at'
                 PROVE  Fits(j)'
      BY DEF StillInteresting
    <3>1. j \in ready /\ j \in Actions /\ j # at /\ j >= at
      BY <2>1, <2>2 DEF IInv, TypeOK, Actions
    <3>2. ~IsIn(j)
      BY <2>2, <3>1 DEF Actions, IsIn
    <3>3. QueueOf(j) # q
      BY <2>2, <3>1, <3>2, OneFillsOneEmpties
    <3>4. from'[QueueOf(j)] = from[QueueOf(j)]
      BY <2>1, <3>1, <3>3, Sides DEF IInv, TypeOK
    <3>5. Fits(j)
      BY <2>1, <3>1 DEF IInv, StillInteresting
    <3> QED
      BY <3>4, <3>5 DEF Fits
  <2> QED
    BY <2>1, <2>5, <2>6 DEF IInv, AssertionsHold, WriteFits
<1> QED
  BY <1>1, <1>3, <1>4

\* A callback keeps the invariant: its assertion holds.
LEMMA CallbacksKeepIInv ==
  ASSUME IInv, NEW i \in Actions, Callback(i)
  PROVE  IInv'
<1>1. ~AssertionFails(i)
  BY CalledFits DEF Callback, AssertionFails, Fits, QueueOf
<1> QED
  BY <1>1, ReadsKeepsIInv, WritesKeepIInv DEF Callback

\* Each step of the program or of its peers keeps the invariant.
LEMMA NextIInv == IInv /\ [Next]_vars => IInv'
<1> SUFFICES ASSUME IInv, [Next]_vars PROVE IInv'
  OBVIOUS
<1>1. CASE Throws
  BY <1>1 DEF Throws, peers, IInv, TypeOK, AssertionsHold, StillInteresting, WriteFits
<1>2. CASE UNCHANGED vars
  BY <1>2 DEF vars, program, peers, IInv, TypeOK, AssertionsHold, StillInteresting, WriteFits, Fits
<1> QED
  BY <1>1, <1>2, PeersKeepIInv, PollerKeepsIInv, CallbacksKeepIInv, WritesKeepIInv
     DEF Next, ProxySteps

\* The invariant of the relay.
LEMMA Invariance == Spec => []IInv
<1>1. Init => IInv
  BY InitIInv
<1>2. IInv /\ [Next]_vars => IInv'
  BY NextIInv
<1> QED
  BY <1>1, <1>2, PTL DEF Spec

\* push() is never called on a full ring and pop() never on an empty one, although
\* poll() asked before the callbacks of the same round ran: the assertions of
\* bytestream_queue.cc hold for rings and socket buffers of every size.
THEOREM RelayNeverAborts == Spec => []AssertionsHold
<1>1. IInv => AssertionsHold
  BY DEF IInv
<1> QED
  BY <1>1, Invariance, PTL

\* The variables keep their types, both indexes of each ring inside its buffer.
THEOREM RelayTypeCorrect == Spec => []TypeOK
<1>1. IInv => TypeOK
  BY DEF IInv
<1> QED
  BY <1>1, Invariance, PTL

(***************************************************************************)
(* The relay is transparent, for rings and socket buffers of every size:   *)
(* no byte is lost, repeated or moved past another between one peer and    *)
(* the other, and none is left behind when the thread ends.                *)
(***************************************************************************)
\* EOF is seen only where the peer has ended its half and all it sent was read.
EOFIsLast == \A s \in Side : eof[s] => shut[s] /\ inbox[s] = <<>>

\* poll() reports an error only of a connection that was reset.
HangUpIsReset == \A s \in hangup : reset[s]

Relay == IInv /\ EOFIsLast /\ HangUpIsReset /\ Transparent

-----------------------------------------------------------------------------
(***************************************************************************)
(* Sequences.                                                              *)
(***************************************************************************)

\* The bytes a peer has sent.
LEMMA FirstBytesIsSeq ==
  ASSUME NEW S, NEW n \in Nat, 1 .. n \subseteq S
  PROVE  /\ FirstBytes(n) \in Seq(S)
         /\ Len(FirstBytes(n)) = n
         /\ \A i \in 1 .. n : FirstBytes(n)[i] = i
<1>1. FirstBytes(n) \in [1 .. n -> S] /\ \A i \in 1 .. n : FirstBytes(n)[i] = i
  BY DEF FirstBytes
<1> QED
  BY <1>1

\* The next byte it sends follows those.
LEMMA FirstBytesAppend ==
  ASSUME NEW S, NEW n \in Nat, 1 .. n + 1 \subseteq S
  PROVE  FirstBytes(n + 1) = Append(FirstBytes(n), n + 1)
<1>1. n + 1 \in Nat /\ 1 .. n \subseteq S /\ n + 1 \in S
  OBVIOUS
<1>2. /\ FirstBytes(n) \in Seq(S) /\ Len(FirstBytes(n)) = n
      /\ \A i \in 1 .. n : FirstBytes(n)[i] = i
  BY <1>1, FirstBytesIsSeq
<1>3. /\ FirstBytes(n + 1) \in Seq(S) /\ Len(FirstBytes(n + 1)) = n + 1
      /\ \A i \in 1 .. n + 1 : FirstBytes(n + 1)[i] = i
  BY <1>1, FirstBytesIsSeq
<1> DEFINE f == FirstBytes(n)
           g == FirstBytes(n + 1)
<1>4. g = Append(f, n + 1)
  <2> HIDE DEF f, g
  <2>1. f \in Seq(S) /\ g \in Seq(S) /\ Len(f) = n /\ Len(g) = n + 1
        /\ (\A i \in 1 .. n : f[i] = i) /\ (\A i \in 1 .. n + 1 : g[i] = i)
    BY <1>2, <1>3 DEF f, g
  <2>2. /\ Append(f, n + 1) \in Seq(S)
        /\ Len(Append(f, n + 1)) = n + 1
        /\ \A i \in 1 .. n + 1 : Append(f, n + 1)[i] = i
    BY <1>1, <2>1, AppendProperties
  <2> QED
    BY <2>1, <2>2, SeqEqual
<1> QED
  BY <1>4

\* A sequence that begins the first n bytes is itself the first bytes.
LEMMA BeginningOfFirstBytes ==
  ASSUME NEW S, NEW n \in Nat, 1 .. n \subseteq S, NEW r \in Seq(S), NEW t \in Seq(S),
         r \o t = FirstBytes(n)
  PROVE  r = FirstBytes(Len(r))
<1>1. /\ Len(FirstBytes(n)) = n
      /\ \A i \in 1 .. n : FirstBytes(n)[i] = i
  BY FirstBytesIsSeq
<1>2. Len(r) \in Nat /\ Len(t) \in Nat /\ Len(r) + Len(t) = n
  BY <1>1, ConcatProperties
<1>3. 1 .. Len(r) \subseteq S /\ 1 .. Len(r) \subseteq 1 .. n
  BY <1>2
<1>4. \A i \in 1 .. Len(r) : r[i] = i
  <2>1. \A i \in 1 .. Len(r) : r[i] = FirstBytes(n)[i]
    BY <1>2, ConcatProperties
  <2> QED
    BY <1>1, <1>3, <2>1
<1>5. /\ FirstBytes(Len(r)) \in Seq(S) /\ Len(FirstBytes(Len(r))) = Len(r)
      /\ \A i \in 1 .. Len(r) : FirstBytes(Len(r))[i] = i
  BY <1>2, <1>3, FirstBytesIsSeq
<1> QED
  BY <1>4, <1>5, SeqEqual

\* The first n of the bytes of b, moved to the end of a, and what stays behind.
LEMMA MoveAlong ==
  ASSUME NEW S, NEW a \in Seq(S), NEW b \in Seq(S), NEW n \in 0 .. Len(b)
  PROVE  /\ SubSeq(b, 1, n) \in Seq(S)
         /\ SubSeq(b, n + 1, Len(b)) \in Seq(S)
         /\ (a \o SubSeq(b, 1, n)) \o SubSeq(b, n + 1, Len(b)) = a \o b
<1>1. SubSeq(b, 1, n) \in Seq(S) /\ SubSeq(b, n + 1, Len(b)) \in Seq(S)
  <2>1. /\ 1 \in Int /\ n \in Int /\ n + 1 \in Int /\ Len(b) \in Int
        /\ \A i \in 1 .. n : b[i] \in S
        /\ \A i \in n + 1 .. Len(b) : b[i] \in S
    BY ElementOfSeq
  <2> QED
    BY <2>1, SubSeqProperties
<1>2. SubSeq(b, 1, n) \o SubSeq(b, n + 1, Len(b)) = SubSeq(b, 1, Len(b))
  <2>1. 1 \in 1 .. Len(b) + 1 /\ n \in 1 - 1 .. Len(b) /\ Len(b) \in n .. Len(b)
    OBVIOUS
  <2> QED
    BY <2>1, ConcatAdjacentSubSeq
<1>3. SubSeq(b, 1, Len(b)) = b
  BY SubSeqFull
<1> DEFINE x == SubSeq(b, 1, n)
           y == SubSeq(b, n + 1, Len(b))
<1>4. (a \o x) \o y = a \o (x \o y)
  <2> HIDE DEF x, y
  <2>1. x \in Seq(S) /\ y \in Seq(S)
    BY <1>1 DEF x, y
  <2> QED
    BY <2>1, ConcatAssociative, SMTT(30)
<1> QED
  BY <1>1, <1>2, <1>3, <1>4

\* Two neighbouring parts of a sequence.
LEMMA AdjacentParts ==
  ASSUME NEW S, NEW b \in Seq(S), NEW k \in Nat, NEW m \in Nat, k <= m, m <= Len(b)
  PROVE  SubSeq(b, k + 1, m) \o SubSeq(b, m + 1, Len(b)) = SubSeq(b, k + 1, Len(b))
<1>1. k + 1 \in 1 .. Len(b) + 1 /\ m \in (k + 1) - 1 .. Len(b) /\ Len(b) \in m .. Len(b)
  OBVIOUS
<1> QED
  BY <1>1, ConcatAdjacentSubSeq

-----------------------------------------------------------------------------
(***************************************************************************)
(* The bytes on their way from one peer to the other.                      *)
(***************************************************************************)

\* All that peer s has sent, wherever it is now.
Stream(s) == received[Other(s)] \o outbox[Other(s)] \o Waiting(s) \o inbox[s]

IntactFrom(s) ==
  /\ received[Other(s)] = FirstBytes(Len(received[Other(s)]))
  /\ ~reset[Other(s)] => Stream(s) = FirstBytes(sent[s])

\* An action that pops from a ring writes to the socket of the other side.
LEMMA OutGoesAcross ==
  ASSUME NEW i \in Actions, ~IsIn(i)
  PROVE  SocketOf(i) = Other(QueueOf(i))
BY DEF Actions, SocketOf, QueueOf, IsIn, Other

\* The parts of a stream are sequences of bytes.
LEMMA StreamParts ==
  ASSUME IInv, NEW s \in Side
  PROVE  /\ received[Other(s)] \in Seq(Byte)
         /\ outbox[Other(s)] \in Seq(Byte)
         /\ Waiting(s) \in Seq(Byte)
         /\ inbox[s] \in Seq(Byte)
         /\ BytesIn(from[s]) \in Seq(Byte)
         /\ Len(BytesIn(from[s])) = AvailableToPop(from[s])
         /\ ContiguousToPop(from[s]) \in 0 .. Len(BytesIn(from[s]))
<1>1. from[s] \in ByteQueue /\ left \in Nat
  BY BufferSizeAssumption DEF IInv, TypeOK
<1>2. /\ BytesIn(from[s]) \in Seq(Byte)
      /\ Len(BytesIn(from[s])) = AvailableToPop(from[s])
      /\ AvailableToPop(from[s]) \in Nat
      /\ ContiguousToPop(from[s]) \in 0 .. AvailableToPop(from[s])
  BY <1>1, BytesInIsSeq, RingCapacity, ContiguousIsPart, BufferSizeAssumption
<1>3. Waiting(s) \in Seq(Byte)
  <2>1. CASE pc = "writing" /\ QueueOf(at) = s
    <3>1. left <= ContiguousToPop(from[s])
      BY <2>1 DEF IInv, WriteFits
    <3> QED
      BY <1>1, <1>2, <2>1, <3>1 DEF Waiting
  <2>2. CASE ~(pc = "writing" /\ QueueOf(at) = s)
    BY <1>2, <2>2 DEF Waiting
  <2> QED
    BY <2>1, <2>2
<1> QED
  BY <1>2, <1>3, Sides DEF IInv, TypeOK

\* The same of both streams, and in the next state.
PartsAreSequences ==
  \A s \in Side : /\ received[Other(s)] \in Seq(Byte)
                  /\ outbox[Other(s)] \in Seq(Byte)
                  /\ Waiting(s) \in Seq(Byte)
                  /\ inbox[s] \in Seq(Byte)

LEMMA NextStreamParts == IInv' => PartsAreSequences'
<1>1. IInv => PartsAreSequences
  BY StreamParts DEF PartsAreSequences
<1> QED
  BY <1>1, PTL

\* The stream is what was sent: then what has been received begins it.  A peer
\* that resets its connection reads nothing more.
LEMMA StreamIsIntact ==
  ASSUME IInv', NEW s \in Side, IntactFrom(s),
         reset'[Other(s)] => received'[Other(s)] = received[Other(s)],
         ~reset'[Other(s)] => Stream(s)' = FirstBytes(sent'[s])
  PROVE  IntactFrom(s)'
<1>1. CASE reset'[Other(s)]
  BY <1>1 DEF IntactFrom
<1>2. CASE ~reset'[Other(s)]
  <2> DEFINE r == received'[Other(s)]
             t == outbox'[Other(s)]
             w == Waiting(s)'
             i == inbox'[s]
             rest == (t \o w) \o i
  <2>1. r \in Seq(Byte) /\ rest \in Seq(Byte) /\ Stream(s)' = r \o rest
    <3>1. r \in Seq(Byte) /\ t \in Seq(Byte) /\ w \in Seq(Byte) /\ i \in Seq(Byte)
      BY NextStreamParts DEF PartsAreSequences
    <3>2. Stream(s)' = r \o t \o w \o i
      BY DEF Stream
    <3> HIDE DEF r, t, w, i
    <3>3. rest \in Seq(Byte) /\ r \o t \o w \o i = r \o rest
      BY <3>1, SMTT(30)
    <3> QED
      BY <3>1, <3>2, <3>3
  <2>2. sent'[s] \in Nat /\ 1 .. sent'[s] \subseteq Byte
    BY SocketAssumption DEF IInv, TypeOK
  <2>3. r = FirstBytes(Len(r))
    <3> HIDE DEF r, rest
    <3> QED
      BY <1>2, <2>1, <2>2, BeginningOfFirstBytes
  <2> QED
    BY <1>2, <2>3 DEF IntactFrom
<1> QED
  BY <1>1, <1>2

\* What touches neither the peers' bytes nor those that wait changes nothing.
LEMMA UntouchedStream ==
  ASSUME NEW s \in Side, IntactFrom(s),
         UNCHANGED <<sent, inbox, outbox, received, reset>>,
         ~reset[Other(s)] => Waiting(s)' = Waiting(s)
  PROVE  IntactFrom(s)'
BY DEF IntactFrom, Stream

\* A byte a peer sends is the next one, and comes behind all others.
LEMMA SendKeepsIntact ==
  ASSUME IInv, IInv', NEW p \in Side, PeerSends(p), NEW s \in Side, IntactFrom(s)
  PROVE  IntactFrom(s)'
<1>1. UNCHANGED <<outbox, received, reset>> /\ Waiting(s)' = Waiting(s)
  BY DEF PeerSends, program, Waiting
<1>2. CASE s # p
  BY <1>1, <1>2 DEF PeerSends, IInv, TypeOK, IntactFrom, Stream
<1>3. CASE s = p
  <2> DEFINE x == received[Other(s)] \o outbox[Other(s)] \o Waiting(s)
             i == inbox[s]
             n == sent[s]
  <2>1. n \in Nat /\ n + 1 \in 1 .. MaxBytes /\ inbox'[s] = Append(i, n + 1) /\ sent'[s] = n + 1
    BY <1>3, SocketAssumption DEF PeerSends, IInv, TypeOK
  <2>2. 1 .. n + 1 \subseteq Byte
    BY <2>1, SocketAssumption
  <2>3. x \in Seq(Byte) /\ i \in Seq(Byte)
    BY StreamParts
  <2>4. Stream(s)' = Append(x \o i, n + 1)
    <3>1. Stream(s)' = x \o Append(i, n + 1)
      BY <1>1, <2>1 DEF Stream
    <3>2. x \o Append(i, n + 1) = Append(x \o i, n + 1)
      <4> HIDE DEF x, i
      <4> QED
        BY <2>1, <2>2, <2>3
    <3> QED
      BY <3>1, <3>2
  <2>5. CASE ~reset[Other(s)]
    <3>1. FirstBytes(n + 1) = Append(FirstBytes(n), n + 1)
      BY <2>1, <2>2, FirstBytesAppend
    <3>2. x \o i = FirstBytes(n)
      BY <2>5 DEF IntactFrom, Stream
    <3>3. Stream(s)' = FirstBytes(sent'[s])
      BY <2>1, <2>4, <3>1, <3>2
    <3> QED
      BY <1>1, <3>3 DEF IntactFrom
  <2>6. CASE reset[Other(s)]
    BY <1>1, <2>6 DEF IntactFrom
  <2> QED
    BY <2>5, <2>6
<1> QED
  BY <1>2, <1>3

\* A peer reads the byte that comes first of those on their way to it.
LEMMA ReceiveKeepsIntact ==
  ASSUME IInv, IInv', NEW p \in Side, PeerReads(p), NEW s \in Side, IntactFrom(s)
  PROVE  IntactFrom(s)'
<1>1. UNCHANGED <<sent, inbox, reset>> /\ Waiting(s)' = Waiting(s)
  BY DEF PeerReads, program, Waiting
<1>2. CASE Other(s) # p
  BY <1>1, <1>2, Sides DEF PeerReads, IInv, TypeOK, IntactFrom, Stream
<1>3. CASE Other(s) = p
  <2> DEFINE r == received[p]
             t == outbox[p]
  <2>1. /\ r \in Seq(Byte) /\ t \in Seq(Byte) /\ t # <<>> /\ ~reset[p]
        /\ received'[p] = Append(r, Head(t)) /\ outbox'[p] = Tail(t)
    BY DEF PeerReads, IInv, TypeOK
  <2>2. Append(r, Head(t)) \o Tail(t) = r \o t
    <3> HIDE DEF r, t
    <3>1. /\ Head(t) \in Byte /\ Tail(t) \in Seq(Byte)
          /\ Len(Tail(t)) = Len(t) - 1 /\ Head(t) = t[1]
          /\ \A j \in 1 .. Len(t) - 1 : Tail(t)[j] = t[j + 1]
      BY <2>1
    <3> QED
      BY <2>1, <3>1
  <2>3. Stream(s)' = Stream(s)
    BY <1>1, <1>3, <2>1, <2>2 DEF Stream
  <2> QED
    BY <1>1, <1>3, <2>1, <2>3, StreamIsIntact DEF IntactFrom
<1> QED
  BY <1>2, <1>3

\* A read moves bytes from the socket to the end of the ring of the same side.
LEMMA ReadKeepsIntact ==
  ASSUME IInv, IInv', NEW a \in Actions, Reads(a), NEW s \in Side, IntactFrom(s)
  PROVE  IntactFrom(s)'
<1>1. /\ pc = "service" /\ UNCHANGED <<pc, left, sent, outbox, received, reset>>
      /\ Waiting(s) = BytesIn(from[s]) /\ Waiting(s)' = BytesIn(from'[s])
  BY DEF Reads, Calls, Waiting
<1>2. CASE UNCHANGED <<from, inbox>>
  BY <1>1, <1>2, UntouchedStream
<1>3. ASSUME NEW n \in 1 .. ContiguousToPush(from[SocketOf(a)]),
             n <= Len(inbox[SocketOf(a)]),
             from' = [from EXCEPT ![SocketOf(a)] = Push(@, SubSeq(inbox[SocketOf(a)], 1, n))],
             inbox' = [inbox EXCEPT ![SocketOf(a)] = SubSeq(@, n + 1, Len(@))]
      PROVE  IntactFrom(s)'
  <2>1. CASE s # SocketOf(a)
    <3>1. from'[s] = from[s] /\ inbox'[s] = inbox[s]
      BY <1>3, <2>1 DEF IInv, TypeOK
    <3> QED
      BY <1>1, <3>1 DEF IntactFrom, Stream
  <2>2. CASE s = SocketOf(a)
    <3> DEFINE x == received[Other(s)] \o outbox[Other(s)]
               w == BytesIn(from[s])
               i == inbox[s]
               chunk == SubSeq(i, 1, n)
               rest == SubSeq(i, n + 1, Len(i))
    <3>1. x \in Seq(Byte) /\ w \in Seq(Byte) /\ i \in Seq(Byte) /\ from[s] \in ByteQueue
      BY StreamParts DEF IInv, TypeOK
    <3>2. n \in Nat /\ n >= 1 /\ n <= Len(i)
      BY <1>3, <2>2, <3>1, ContiguousIsPart, RingCapacity, BufferSizeAssumption
    <3>3. chunk \in Seq(Byte) /\ Len(chunk) = n /\ rest \in Seq(Byte)
      BY <3>1, <3>2
    <3>4. from'[s] = Push(from[s], chunk) /\ inbox'[s] = rest
      BY <1>3, <2>2 DEF IInv, TypeOK
    <3>5. Waiting(s)' = w \o chunk
      <4>1. BytesIn(Push(from[s], chunk)) = w \o chunk
        <5>1. Len(chunk) \in 1 .. ContiguousToPush(from[s])
          BY <1>3, <2>2, <3>3
        <5> HIDE DEF chunk
        <5> QED
          BY <3>1, <3>3, <5>1, PushAppends
      <4> QED
        BY <1>1, <3>4, <4>1
    <3>6. (x \o (w \o chunk)) \o rest = (x \o w) \o i
      <4>1. chunk \o rest = i
        <5> HIDE DEF i
        <5> QED
          BY <3>1, <3>2
      <4>2. (x \o (w \o chunk)) \o rest = (x \o w) \o (chunk \o rest)
        <5> HIDE DEF x, w, chunk, rest
        <5> QED
          BY <3>1, <3>3, SMTT(30)
      <4> QED
        BY <4>1, <4>2
    <3>7. Stream(s)' = Stream(s)
      BY <1>1, <3>4, <3>5, <3>6 DEF Stream
    <3> QED
      BY <1>1, <3>7, StreamIsIntact DEF IntactFrom
  <2> QED
    BY <2>1, <2>2
<1> QED
  BY <1>2, <1>3 DEF Reads

\* A write that begins has moved nothing yet.
LEMMA StartsWriteKeepsIntact ==
  ASSUME IInv, NEW a \in Actions, StartsWrite(a), NEW s \in Side, IntactFrom(s)
  PROVE  IntactFrom(s)'
<1>1. /\ pc = "service" /\ pc' = "writing" /\ at = a
      /\ left' = ContiguousToPop(from[QueueOf(a)])
      /\ UNCHANGED <<from, at, sent, inbox, outbox, received, reset>>
  BY DEF StartsWrite, Calls, peers
<1>2. Waiting(s) = BytesIn(from[s])
  BY <1>1 DEF Waiting
<1>3. CASE QueueOf(a) # s
  BY <1>1, <1>2, <1>3, UntouchedStream DEF Waiting
<1>4. CASE QueueOf(a) = s
  <2> DEFINE b == BytesIn(from[s])
             c == ContiguousToPop(from[s])
  <2>1. b \in Seq(Byte) /\ Len(b) = AvailableToPop(from[s]) /\ c \in Nat
    BY StreamParts
  <2>2. Waiting(s)' = SubSeq(b, c - c + 1, Len(b))
    BY <1>1, <1>4, <2>1 DEF Waiting
  <2>3. SubSeq(b, c - c + 1, Len(b)) = b
    <3> HIDE DEF b, c
    <3> QED
      BY <2>1
  <2> QED
    BY <1>1, <1>2, <2>2, <2>3, UntouchedStream
<1> QED
  BY <1>3, <1>4

\* What a write has handed to the kernel stands before what it has not.
LEMMA WriteSomeKeepsIntact ==
  ASSUME IInv, IInv', WriteSome, NEW s \in Side, IntactFrom(s)
  PROVE  IntactFrom(s)'
<1>1. /\ pc = "writing" /\ at \in Actions /\ ~IsIn(at)
      /\ left \in Nat /\ left <= ContiguousToPop(from[QueueOf(at)])
      /\ UNCHANGED <<from, pc, at, sent, inbox, received, reset>>
  <2>1. pc = "writing" /\ UNCHANGED <<from, pc, at, sent, inbox, received, reset>>
    BY DEF WriteSome
  <2>2. at \in Actions /\ ~IsIn(at) /\ left <= ContiguousToPop(from[QueueOf(at)])
    BY <2>1 DEF IInv, WriteFits, IsIn, Actions
  <2>3. left \in Nat
    BY BufferSizeAssumption DEF IInv, TypeOK
  <2> QED
    BY <2>1, <2>2, <2>3
<1>2. SocketOf(at) = Other(QueueOf(at)) /\ QueueOf(at) \in Side
  BY <1>1, OutGoesAcross, Sides
<1>3. PICK n \in Nat : /\ n <= left /\ left' = left - n
                       /\ outbox' = [outbox EXCEPT ![SocketOf(at)] = @ \o SubSeq(Unwritten, 1, n)]
  <2> DEFINE room == SocketBuffer - Len(outbox[SocketOf(at)])
             k == IF room < left THEN room ELSE left
  <2>1. /\ k > 0 /\ left' = left - k
        /\ outbox' = [outbox EXCEPT ![SocketOf(at)] = @ \o SubSeq(Unwritten, 1, k)]
    BY DEF WriteSome
  <2>2. room \in Int
    BY <1>1, SocketAssumption, Sides DEF IInv, TypeOK
  <2>3. k \in Nat /\ k <= left
    <3> HIDE DEF room
    <3> QED
      BY <1>1, <2>1, <2>2
  <2> HIDE DEF k
  <2> QED
    BY <2>1, <2>3
<1>4. CASE QueueOf(at) # s
  <2>1. Other(s) # SocketOf(at)
    BY <1>2, <1>4 DEF Other, Side
  <2>2. outbox'[Other(s)] = outbox[Other(s)] /\ Waiting(s)' = Waiting(s)
    BY <1>1, <1>3, <1>4, <2>1, Sides DEF IInv, TypeOK, Waiting
  <2> QED
    BY <1>1, <2>2 DEF IntactFrom, Stream
<1>5. CASE QueueOf(at) = s
  <2> DEFINE b == BytesIn(from[s])
             c == ContiguousToPop(from[s])
             k == c - left
             x == received[Other(s)]
             t == outbox[Other(s)]
             moved == SubSeq(SubSeq(b, k + 1, c), 1, n)
             behind == SubSeq(b, k + n + 1, Len(b))
             before == SubSeq(b, k + 1, Len(b))
  <2>1. /\ x \in Seq(Byte) /\ t \in Seq(Byte) /\ b \in Seq(Byte)
        /\ Len(b) = AvailableToPop(from[s]) /\ c \in Nat /\ c <= Len(b)
    BY StreamParts
  <2>2. k \in Nat /\ k + n <= c
    BY <1>1, <1>3, <1>5, <2>1
  <2>3. Waiting(s) = before /\ Waiting(s)' = behind
    <3>1. c - (left - n) + 1 = k + n + 1
      <4> HIDE DEF c
      <4> QED
        BY <1>1, <1>3, <2>1
    <3> QED
      BY <1>1, <1>3, <1>5, <2>1, <3>1 DEF Waiting
  <2>4. outbox'[Other(s)] = t \o moved
    BY <1>2, <1>3, <1>5, Sides DEF IInv, TypeOK, Unwritten
  <2>5. moved = SubSeq(b, k + 1, k + n)
    <3> HIDE DEF b, c, k
    <3> QED
      BY <1>3, <2>1, <2>2
  <2>6. SubSeq(b, k + 1, k + n) \o behind = before
    <3> DEFINE m == k + n
    <3>1. k \in Nat /\ m \in Nat /\ k <= m /\ m <= Len(b)
      BY <2>1, <2>2
    <3>2. SubSeq(b, k + 1, m) \o SubSeq(b, m + 1, Len(b)) = SubSeq(b, k + 1, Len(b))
      <4> HIDE DEF b, k, m
      <4> QED
        BY <2>1, <3>1, AdjacentParts
    <3> QED
      BY <3>2
  <2>7. moved \in Seq(Byte) /\ behind \in Seq(Byte) /\ before \in Seq(Byte)
    <3>1. behind \in Seq(Byte) /\ before \in Seq(Byte) /\ SubSeq(b, k + 1, k + n) \in Seq(Byte)
      <4> HIDE DEF b, c, k
      <4> QED
        BY <1>3, <2>1, <2>2
    <3> QED
      BY <2>5, <3>1
  <2>8. (x \o (t \o moved)) \o behind = (x \o t) \o before
    <3>1. moved \o behind = before
      BY <2>5, <2>6
    <3>2. (x \o (t \o moved)) \o behind = (x \o t) \o (moved \o behind)
      <4>1. x \in Seq(Byte) /\ t \in Seq(Byte) /\ moved \in Seq(Byte) /\ behind \in Seq(Byte)
        BY <2>1, <2>7
      <4> HIDE DEF x, t, b, c, k, moved, behind, before
      <4> QED
        BY <4>1, SMTT(30)
    <3> QED
      BY <3>1, <3>2
  <2>9. Stream(s)' = Stream(s)
    BY <1>1, <2>3, <2>4, <2>8 DEF Stream
  <2> QED
    BY <1>1, <2>9, StreamIsIntact DEF IntactFrom
<1> QED
  BY <1>4, <1>5

\* When a write returns, what it has handed over leaves the ring, and nothing else.
LEMMA WriteReturnsKeepsIntact ==
  ASSUME IInv, WriteReturns, NEW s \in Side, IntactFrom(s)
  PROVE  IntactFrom(s)'
<1> DEFINE n == ContiguousToPop(from[QueueOf(at)]) - left
<1>1. /\ pc = "writing" /\ pc' = "service"
      /\ at \in Actions /\ left \in Nat
      /\ left <= ContiguousToPop(from[QueueOf(at)])
      /\ left = 0 \/ left < ContiguousToPop(from[QueueOf(at)])
      /\ NonEmpty(from[QueueOf(at)])
      /\ from' = [from EXCEPT ![QueueOf(at)] = Pop(@, n)]
      /\ UNCHANGED <<sent, inbox, outbox, received, reset>>
  BY BufferSizeAssumption DEF WriteReturns, peers, IInv, TypeOK, WriteFits, Actions
<1>2. QueueOf(at) \in Side /\ Waiting(s)' = BytesIn(from'[s])
  BY <1>1, Sides DEF Waiting
<1>3. CASE QueueOf(at) # s
  <2>1. from'[s] = from[s]
    BY <1>1, <1>3 DEF IInv, TypeOK
  <2> QED
    BY <1>1, <1>2, <1>3, <2>1, UntouchedStream DEF Waiting
<1>4. CASE QueueOf(at) = s
  <2>1. from[s] \in ByteQueue /\ from'[s] = Pop(from[s], n)
    BY <1>1, <1>4 DEF IInv, TypeOK
  <2>2. n \in 1 .. ContiguousToPop(from[s])
    BY <1>1, <1>4, <2>1, ContiguousIsPart, RingCapacity, BufferSizeAssumption
  <2>3. BytesIn(Pop(from[s], n)) = SubSeq(BytesIn(from[s]), n + 1, AvailableToPop(from[s]))
    <3> HIDE DEF n
    <3> QED
      BY <2>1, <2>2, PopRemoves
  <2>4. Waiting(s)' = Waiting(s)
    BY <1>1, <1>2, <1>4, <2>1, <2>3 DEF Waiting
  <2> QED
    BY <1>1, <2>4, UntouchedStream
<1> QED
  BY <1>3, <1>4

\* The Poller moves no bytes, nor does a peer that shuts down or resets its
\* connection.  What a failed write leaves behind was for a peer that is gone.
LEMMA QuietKeepsIntact ==
  ASSUME IInv, NEW s \in Side, IntactFrom(s),
         \/ NobodyInterested \/ Poll \/ PollOver \/ HangUp \/ Skip \/ Throws
         \/ \E p \in Side : PeerShutsDown(p) \/ PeerResets(p)
         \/ UNCHANGED vars
  PROVE  IntactFrom(s)'
<1>1. CASE NobodyInterested \/ Poll \/ PollOver \/ HangUp \/ Skip
  <2>1. /\ pc # "writing" /\ pc' # "writing"
        /\ UNCHANGED <<from, sent, inbox, outbox, received, reset>>
    BY <1>1 DEF NobodyInterested, Poll, PollOver, HangUp, Skip, peers
  <2> QED
    BY <2>1, UntouchedStream DEF Waiting
<1>2. CASE Throws
  <2>1. /\ reset[SocketOf(at)] /\ pc' = "threw"
        /\ UNCHANGED <<from, sent, inbox, outbox, received, reset>>
    BY <1>2 DEF Throws, peers
  <2>2. CASE pc = "writing" /\ QueueOf(at) = s
    <3>1. at \in Actions /\ ~IsIn(at)
      BY <2>2 DEF IInv, WriteFits, Actions, IsIn
    <3>2. reset[Other(s)]
      BY <2>1, <2>2, <3>1, OutGoesAcross
    <3> QED
      BY <2>1, <3>2, UntouchedStream
  <2>3. CASE ~(pc = "writing" /\ QueueOf(at) = s)
    BY <2>1, <2>3, UntouchedStream DEF Waiting
  <2> QED
    BY <2>2, <2>3
<1>3. ASSUME NEW p \in Side, PeerShutsDown(p)
      PROVE  IntactFrom(s)'
  BY <1>3, UntouchedStream DEF PeerShutsDown, program, Waiting
<1>4. ASSUME NEW p \in Side, PeerResets(p)
      PROVE  IntactFrom(s)'
  <2>1. /\ UNCHANGED <<from, pc, at, left, sent, inbox, received>>
        /\ reset' = [reset EXCEPT ![p] = TRUE]
        /\ outbox' = [outbox EXCEPT ![p] = <<>>]
    BY <1>4 DEF PeerResets, program
  <2>2. CASE Other(s) = p
    BY <2>1, <2>2, Sides DEF IInv, TypeOK, IntactFrom
  <2>3. CASE Other(s) # p
    <3>1. reset'[Other(s)] = reset[Other(s)] /\ outbox'[Other(s)] = outbox[Other(s)]
      BY <2>1, <2>3, Sides DEF IInv, TypeOK
    <3> QED
      BY <2>1, <3>1 DEF IntactFrom, Stream, Waiting
  <2> QED
    BY <2>2, <2>3
<1>5. CASE UNCHANGED vars
  BY <1>5, UntouchedStream DEF vars, program, peers, Waiting
<1> QED
  BY <1>1, <1>2, <1>3, <1>4, <1>5

\* Every step keeps both streams intact.
LEMMA NextIntact ==
  ASSUME IInv, IInv', [Next]_vars, NEW s \in Side, IntactFrom(s)
  PROVE  IntactFrom(s)'
<1>1. ASSUME NEW i \in Actions, Callback(i)
      PROVE  IntactFrom(s)'
  <2>1. ~AssertionFails(i)
    BY <1>1, CalledFits DEF Callback, AssertionFails, Fits, QueueOf
  <2> QED
    BY <1>1, <2>1, ReadKeepsIntact, StartsWriteKeepsIntact DEF Callback
<1>2. ASSUME NEW p \in Side, PeerSends(p) \/ PeerReads(p) \/ PeerShutsDown(p) \/ PeerResets(p)
      PROVE  IntactFrom(s)'
  BY <1>2, SendKeepsIntact, ReceiveKeepsIntact, QuietKeepsIntact
<1> QED
  BY <1>1, <1>2, QuietKeepsIntact, WriteSomeKeepsIntact, WriteReturnsKeepsIntact
     DEF Next, ProxySteps

-----------------------------------------------------------------------------
(***************************************************************************)
(* The end of the thread.                                                  *)
(***************************************************************************)

\* An EOF stays the last thing of its socket, and an error report stays true.
LEMMA NextLast ==
  ASSUME IInv, IInv', [Next]_vars, EOFIsLast, HangUpIsReset
  PROVE  EOFIsLast' /\ HangUpIsReset'
<1>1. CASE NobodyInterested \/ PollOver \/ HangUp \/ Skip \/ Throws
  BY <1>1 DEF NobodyInterested, PollOver, HangUp, Skip, Throws, peers, EOFIsLast, HangUpIsReset
<1>2. CASE Poll
  BY <1>2 DEF Poll, peers, EOFIsLast, HangUpIsReset
<1>3. ASSUME NEW i \in Actions, Callback(i)
      PROVE  EOFIsLast' /\ HangUpIsReset'
  <2>1. CASE Reads(i)
    <3>1. UNCHANGED <<hangup, reset, shut>>
      BY <2>1 DEF Reads
    <3>2. CASE inbox[SocketOf(i)] = <<>> /\ shut[SocketOf(i)]
               /\ eof' = [eof EXCEPT ![SocketOf(i)] = TRUE] /\ UNCHANGED <<from, inbox>>
      BY <3>1, <3>2 DEF EOFIsLast, HangUpIsReset, IInv, TypeOK
    <3>3. ASSUME NEW n \in 1 .. ContiguousToPush(from[SocketOf(i)]),
                 n <= Len(inbox[SocketOf(i)]),
                 inbox' = [inbox EXCEPT ![SocketOf(i)] = SubSeq(@, n + 1, Len(@))],
                 UNCHANGED eof
          PROVE  EOFIsLast' /\ HangUpIsReset'
      <4>1. n \in Nat /\ n >= 1
        <5>1. from[SocketOf(i)] \in ByteQueue
          BY Sides DEF IInv, TypeOK
        <5> QED
          BY <5>1, ContiguousIsPart, RingCapacity, BufferSizeAssumption
      <4>2. inbox[SocketOf(i)] # <<>>
        BY <3>3, <4>1
      <4>3. \A s \in Side : s # SocketOf(i) => inbox'[s] = inbox[s]
        BY <3>3 DEF IInv, TypeOK
      <4> QED
        BY <3>1, <3>3, <4>2, <4>3 DEF EOFIsLast, HangUpIsReset
    <3> QED
      BY <2>1, <3>2, <3>3 DEF Reads
  <2>2. CASE UNCHANGED <<eof, hangup, peers>>
    BY <2>2 DEF peers, EOFIsLast, HangUpIsReset
  <2> QED
    BY <1>3, <2>1, <2>2 DEF Callback, StartsWrite
<1>4. CASE WriteSome \/ WriteReturns
  BY <1>4 DEF WriteSome, WriteReturns, peers, EOFIsLast, HangUpIsReset
<1>5. ASSUME NEW p \in Side, PeerSends(p)
      PROVE  EOFIsLast' /\ HangUpIsReset'
  BY <1>5 DEF PeerSends, program, EOFIsLast, HangUpIsReset, IInv, TypeOK
<1>6. ASSUME NEW p \in Side, PeerReads(p) \/ PeerShutsDown(p) \/ PeerResets(p)
      PROVE  EOFIsLast' /\ HangUpIsReset'
  BY <1>6 DEF PeerReads, PeerShutsDown, PeerResets, program, EOFIsLast, HangUpIsReset, IInv, TypeOK
<1>7. CASE UNCHANGED vars
  BY <1>7 DEF vars, program, peers, EOFIsLast, HangUpIsReset
<1> QED
  BY <1>1, <1>2, <1>3, <1>4, <1>5, <1>6, <1>7 DEF Next, ProxySteps

\* Nobody is interested in anything only when both sockets have had EOF and both
\* rings are empty: a ring that is empty has room, so it was EOF that ended the
\* interest of the action that fills it.
LEMMA NobodyInterestedIsDone ==
  ASSUME IInv, NothingInteresting, NEW s \in Side
  PROVE  eof[s] /\ ~NonEmpty(from[s])
<1>1. PICK i \in Actions : IsIn(i) /\ SocketOf(i) = s
  <2>1. 1 \in Actions /\ IsIn(1) /\ SocketOf(1) = "server"
    BY DEF Actions, IsIn, SocketOf
  <2>2. 2 \in Actions /\ IsIn(2) /\ SocketOf(2) = "client"
    BY DEF Actions, IsIn, SocketOf
  <2> QED
    BY <2>1, <2>2 DEF Side
<1>2. PICK j \in Actions : ~IsIn(j) /\ QueueOf(j) = s
  <2>1. 3 \in Actions /\ ~IsIn(3) /\ QueueOf(3) = "client"
    BY DEF Actions, IsIn, SocketOf, QueueOf, Other
  <2>2. 4 \in Actions /\ ~IsIn(4) /\ QueueOf(4) = "server"
    BY DEF Actions, IsIn, SocketOf, QueueOf, Other
  <2> QED
    BY <2>1, <2>2 DEF Side
<1>3. ~NonEmpty(from[s])
  BY <1>2 DEF NothingInteresting, Interested
<1>4. SpaceAvailable(from[s])
  <2>1. from[s] \in ByteQueue
    BY DEF IInv, TypeOK
  <2> QED
    BY <1>3, <2>1, RingCapacity, BufferSizeAssumption DEF NonEmpty, SpaceAvailable
<1> QED
  BY <1>1, <1>3, <1>4 DEF NothingInteresting, Interested, QueueOf

\* The thread ends because nobody is interested, or because of a reset.  A peer
\* that goes on reading afterwards changes nothing of what was left.
LEMMA NextNothingLost ==
  ASSUME IInv, [Next]_vars, EOFIsLast, HangUpIsReset, NothingLost
  PROVE  NothingLost'
<1>1. CASE NobodyInterested
  <2>1. NothingInteresting /\ UNCHANGED <<from, inbox, shut>>
    BY <1>1 DEF NobodyInterested, peers
  <2> QED
    BY <2>1, NobodyInterestedIsDone DEF EOFIsLast, NothingLost
<1>2. CASE HangUp \/ Throws
  <2>1. \E s \in Side : reset'[s]
    <3>1. CASE HangUp
      BY <3>1, Sides DEF HangUp, peers, HangUpIsReset, IInv, TypeOK
    <3>2. CASE Throws
      <4>1. at \in Actions
        BY <3>2 DEF Throws, IInv, TypeOK, WriteFits, Actions
      <4> QED
        BY <3>2, <4>1, Sides DEF Throws, peers
    <3> QED
      BY <1>2, <3>1, <3>2
  <2> QED
    BY <2>1 DEF NothingLost
<1>3. CASE Poll \/ PollOver \/ Skip \/ WriteSome \/ WriteReturns
  <2>1. pc' \notin {"exit", "threw"}
    BY <1>3 DEF Poll, PollOver, Skip, WriteSome, WriteReturns
  <2> QED
    BY <2>1 DEF NothingLost
<1>4. ASSUME NEW i \in Actions, Callback(i)
      PROVE  NothingLost'
  <2>1. pc' \notin {"exit", "threw"}
    BY <1>4 DEF Callback, Reads, StartsWrite, Calls
  <2> QED
    BY <2>1 DEF NothingLost
<1>5. ASSUME NEW p \in Side, PeerSends(p) \/ PeerShutsDown(p) \/ PeerResets(p)
      PROVE  NothingLost'
  <2>1. pc' \notin {"exit", "threw"}
    BY <1>5 DEF PeerSends, PeerShutsDown, PeerResets, program, Ended
  <2> QED
    BY <2>1 DEF NothingLost
<1>6. ASSUME NEW p \in Side, PeerReads(p)
      PROVE  NothingLost'
  BY <1>6 DEF PeerReads, program, NothingLost
<1>7. CASE UNCHANGED vars
  BY <1>7 DEF vars, program, peers, NothingLost
<1> QED
  BY <1>1, <1>2, <1>3, <1>4, <1>5, <1>6, <1>7 DEF Next, ProxySteps

-----------------------------------------------------------------------------
\* Intact is IntactFrom for both sides.
LEMMA IntactIsBoth == Intact <=> \A s \in Side : IntactFrom(s)
BY DEF Intact, IntactFrom, Stream

\* At the start nothing has been sent.
LEMMA InitRelay == Init => Relay
<1> SUFFICES ASSUME Init PROVE Relay
  OBVIOUS
<1>1. IInv
  BY InitIInv
<1>2. EOFIsLast /\ HangUpIsReset /\ NothingLost
  BY DEF Init, EOFIsLast, HangUpIsReset, NothingLost
<1>3. FirstBytes(0) = <<>>
  BY FirstBytesIsSeq
<1>4. ASSUME NEW s \in Side
      PROVE  IntactFrom(s)
  <2>1. /\ received[Other(s)] = <<>> /\ outbox[Other(s)] = <<>> /\ inbox[s] = <<>>
        /\ sent[s] = 0 /\ from[s] = EmptyByteQueue /\ pc = "poll"
    BY Sides DEF Init
  <2>2. Waiting(s) = <<>>
    <3>1. AvailableToPop(from[s]) = 0
      BY <2>1 DEF EmptyByteQueue, AvailableToPop
    <3>2. BytesIn(from[s]) \in Seq(Byte) /\ Len(BytesIn(from[s])) = 0
      BY <1>1, <3>1, StreamParts
    <3> QED
      BY <2>1, <3>2 DEF Waiting
  <2> QED
    BY <1>3, <2>1, <2>2 DEF IntactFrom, Stream
<1> QED
  BY <1>1, <1>2, <1>4, IntactIsBoth DEF Relay, Transparent

\* Each step keeps the invariant.
LEMMA NextRelay == Relay /\ [Next]_vars => Relay'
<1> SUFFICES ASSUME Relay, [Next]_vars PROVE Relay'
  OBVIOUS
<1>1. IInv'
  BY NextIInv DEF Relay
<1>2. EOFIsLast' /\ HangUpIsReset'
  BY <1>1, NextLast DEF Relay
<1>3. NothingLost'
  BY NextNothingLost DEF Relay, Transparent
<1>4. Intact'
  <2>1. \A s \in Side : IntactFrom(s)
    BY IntactIsBoth DEF Relay, Transparent
  <2>2. \A s \in Side : IntactFrom(s)'
    BY <1>1, <2>1, NextIntact DEF Relay
  <2> QED
    BY <2>2 DEF Intact, IntactFrom, Stream
<1> QED
  BY <1>1, <1>2, <1>3, <1>4 DEF Relay, Transparent

\* The relay loses, repeats, changes and reorders nothing, at any moment of any
\* run, and when its thread ends without a reset it has relayed everything: for
\* every size of the rings and of the socket buffers, however little a read or a
\* write moves at a time.
THEOREM RelayIsTransparent == Spec => []Transparent
<1>1. Init => Relay
  BY InitRelay
<1>2. Relay /\ [Next]_vars => Relay'
  BY NextRelay
<1>3. Relay => Transparent
  BY DEF Relay
<1> QED
  BY <1>1, <1>2, <1>3, PTL DEF Spec
=============================================================================

# mahimahi in TLA+

mahimahi records and replays web sites under emulated network conditions. Its
shells (`mm-link`, `mm-delay`, `mm-loss`, `mm-onoff`, `mm-adv-delay`, `mm-meter`)
put a program into a network namespace of its own and carry its packets over a
*ferry queue* that delays, drops or paces them; other tools proxy, record and
replay HTTP. This directory holds TLA+ models of the parts with the hard
behaviour, the TLC configurations that check them on small instances, and TLAPS
proofs for all values of the constants. Paths below are relative to the
repository's `src/` directory.

## 1. Inventory

### Components

| Component | State | Operations | What makes it correct |
|---|---|---|---|
| Packet queues (`packet/*_packet_queue.*`) | packets, their count and bytes, limits | `enqueue`, `dequeue`, `good_with`, `accept` | counters agree with contents, limits hold, assertions never fail |
| CoDel (`packet/codel_packet_queue.*`) | the above; `first_above_time_`, `drop_next_`, `count_`, `lastcount_`, `dropping_` | `enqueue`, `dequeue`, `dodequeue`, `control_law` | drops only after a full interval above target, at the rate of the control law, never the last packet |
| PIE (`packet/pie_packet_queue.*`) | the above; rate estimate, drop probability, burst allowance | `enqueue`, `dequeue`, `calculate_drop_prob` | probability in [0, 1], all missed periods replayed, burst passes |
| LinkQueue (`frontend/link_queue.*`) | trace, index, base timestamp, packet in transit, output queue | `read_packet`, `rationalize`, `wait_time`, `write_packets` | the trace is served exactly, whenever it is called; order; accounting in the log |
| DelayQueue (`frontend/delay_queue.*`) | packets with release times | `read_packet`, `write_packets`, `wait_time` | the delay is kept, order |
| AdvDelayQueue, delay rules, `pktinfo` | rules by address, port, protocol; priority queue; byte counters | the same | the right rule wins, order within a flow |
| LossQueue, IIDLoss, SwitchingLink (`frontend/loss_queue.*`) | packets, link state, time of the next switch | the same | drops only while off, the switch process is not skipped |
| MeterQueue (`frontend/meter_queue.*`) | packets, live graph | the same | nothing lost, order |
| Front ends (`frontend/*shell.cc`, `meter.cc`) | command line, environment, privileges | `main` | what is set up is taken down; privileges are dropped before the user's command runs |
| Poller (`util/poller.*`) | actions, `pollfd`s | `poll` | interest is tested, then one callback per ready action in order; exits, cancellations, busy wait |
| EventLoop, SignalFD (`util/event_loop.*`) | signal mask, children, poller | `internal_loop`, `handle_signal` | no change of a child is missed; suspended and resumed together; ends when it should |
| ChildProcess (`util/child_process.*`) | pid, `running_`, `terminated_`, status | `waitable`, `wait`, `resume`, `signal`, destructor | cache agrees with the kernel; the destructor ends and leaves no child |
| PacketShell and Ferry (`packet/packetshell.*`) | TUN devices, NAT rule, socket pair, two child processes | `start_uplink`, `start_downlink`, `Ferry::loop`, `wait_for_exit` | each ferry carries its direction; output is not lost at exit |
| DNSProxy, ByteStreamQueue (`util/dns_proxy.*`, `util/bytestream_queue.*`) | listeners, one thread per request, two ring buffers per TCP connection | `handle_udp`, `handle_tcp`, `push`, `pop` | bytes in order, none lost or repeated, half-close, timeout |
| Addresses, interfaces, devices, NAT (`util/address.*`, `interfaces.*`, `netdevice.*`, `nat.*`) | kernel configuration | constructors, destructors | two addresses that are free |
| Files, sockets, privileges (`util/file_descriptor.*`, `socket.*`, `util.*`, `temp_file.*`) | descriptors, EOF flag, service counts | read, write, accept, connect | short writes are continued, EOF is remembered |
| HTTP parsing (`http/`) | message state, buffers | `parse`, `new_request_arrived`, `read` | same messages however the bytes are split |
| HTTPProxy, SecureSocket, backing store (`httpserver/`, `http/backing_store.*`) | request and response queues, one thread per connection | `loop`, `save` | every request forwarded once, responses in order and saved |
| TimeLogger (`httpserver/timelogger.*`) | maps of timers, mutexes | start, stop | maps are not corrupted |
| Replay server (`frontend/replayserver*.cc`, `web_server.*`, `replayshell.cc`) | recorded exchanges | match a request | the best match is served |
| Live graphs (`graphing/binned_livegraph.*`, `graph.*`) | bins, animation thread | `add_value_now`, `set_max_value_now`, `advance` | every value is added to its bin once |
| Drawing, protocol buffers, scripts, traces | | | |

### How they interact

`PacketShell` starts two child processes, both managed by its `EventLoop`. Each
child runs a `Ferry`, an `EventLoop` of its own: the *uplink* in the new
namespace (with the user's command and dnsmasq as children), the *downlink*
outside, which receives the inner TUN device through a socket pair. A ferry
calls `read_packet` when its TUN device is readable, `write_packets` when
`pending_output()`, and exits with status 77 when `finished()`; `wait_time()`
gives the timeout of `poll(2)`. `LinkQueue` owns a packet queue and calls it
from `read_packet` (enqueue) and `rationalize` (dequeue). Signals reach the loop
through a signalfd. The proxies run one `Poller` per connection in a detached
thread.

### What is hard

* **Time.** All queues read `CLOCK_REALTIME`, at calls whose times they do not
  choose. `LinkQueue` is late by design and replays the past; `DelayQueue` asks
  how long to sleep before it sleeps; CoDel and PIE catch up with missed drops
  and periods. The clock may be set back.
* **Signals and children.** SIGCHLD is pending once for many events; what is
  cached of a child lags behind; the parent stops itself; the destructor waits
  without a timeout.
* **Order inside a poll round.** Interest is tested before `poll(2)` and used
  after other callbacks have run.
* **Boundaries.** Packets that span opportunities, traces that wrap around,
  limits in bytes, unsigned differences, ring buffers.
* **Threads.** The animation thread of the live graph, the proxies' threads, and
  the maps of timers they share.
* **Partial failure.** Any call of a set-up may throw, and any process may be
  killed, when half of the rules, devices, servers and children are there; a
  recording may be cut off in the middle of a file, which is read much later.

`PROJECT.json` lists each hazard at its line with the properties that cover it.

## 2. Modules

| Module | Models | Role |
|---|---|---|
| `PacketQueue` | infinite, droptail, drophead | operators from queue to queue, one per method |
| `LinkQueue` | `frontend/link_queue.cc` | state machine, one action per step of a call; extends `PacketQueue` |
| `LinkService` | what one direction of a link promises | abstract specification |
| `CoDelQueue`, `PIEQueue` | `packet/codel_packet_queue.cc`, `packet/pie_packet_queue.cc` | state machines; both use `PacketQueue` |
| `ActiveQueues` | `get_packet_queue` of `frontend/linkshell.cc` | one of the two, by its name |
| `DelayQueue`, `LossQueues`, `AdvDelayQueue` | the ferry queues of those names, `MeterQueue`, `delay_rule.cc` | operators, one per method |
| `FerryQueues` | the queue each front end gives to its ferries, and its methods by kind | operators; extends the three above |
| `Ferry` | `Ferry::loop`, `Poller::poll`, `internal_loop` | state machine; extends `FerryQueues` |
| `EventLoop` | `handle_signal`, `ChildProcess` | state machine of a parent, its children and the kernel |
| `ShellPrograms` | the `main`s, `PacketShell`, the processes they fork | programs as sequences of statements |
| `Shell` | what the statements do: fork, privileges, objects and their destructors, exceptions | state machine of up to five processes; extends `ShellPrograms` |
| `ByteStreamQueue` | `util/bytestream_queue.*` | operators on the ring buffer, one per method |
| `DNSProxy` | `DNSProxy::handle_tcp` with `Poller::poll` | state machine of one connection and its two peers; extends `ByteStreamQueue` |
| `HTTPParser` | `http/`: message sequence, messages, chunked parser | state machine of one parser, one action per step of `parse` |
| `TimeLogger` | `httpserver/timelogger.hh` | operators on its maps |
| `HTTPProxy` | `httpserver/http_proxy.cc`, `secure_socket.cc`, `http/backing_store.cc` | state machine of the recorder's threads; extends `TimeLogger` |
| `Replay` | `replayserver.cc`, `replayserver_delay.cc`, the loading in `replayshell.cc` | operators on a directory of records |
| `RecordReplay` | a recording and the replay of its directory | composition of `HTTPProxy` and `Replay` |
| `LiveGraph` | `graphing/binned_livegraph.cc`, parts of `graph.cc` and `display.cc` | state machine of two threads and the X server |
| `Sums` | | the sum of a sequence as a recursive function, so that proofs can use it |
| `*_proofs` | | theorems and proofs |
| `MC*` | | constants for TLC |

### PacketQueue and LinkQueue

A queue is a record of the packets and the two counters; the methods are
operators. `assert()` is an operator too (`DequeueAsserts`, `EnqueueAsserts`),
and `LinkQueue` goes to `pc = "aborted"` when one fails.

A `LinkQueue` belongs to one thread. A call is entered by `ReadPacket` or
`WaitTime`, which read the clock once as the code does, goes through the loops of
`rationalize` (`UseADeliveryOpportunity`, then `SendInTransit` / `SendNext` until
`OpportunityOver`), and ends in `FinishRead` or `FinishWait`. `ReadPacket` with
more than `PACKET_SIZE` bytes ends in `pc = "threw"`. `next_delivery_time` is the
sum of the trace entry and the base; the value for a finished link, 2^64 - 1, is
the conjunct `~finished` of `Due`. The history variables hold what the log would
show. `pending_output()` only tests whether the output queue is empty, which is the
guard of `WritePackets`. The assertions of `read_packet` are in `GrowthAsserts`. The
wording of the log is left out. The client is the most general one: any call at any
time. The clock may be set back, but not before the moment the program started: the
unsigned difference of `timestamp.cc:27` would wrap around then.

`LinkService` is what `LinkQueue` promises those at its ends: order, at most one
delivery, one loss per arrival and none of a packet whose transmission has begun,
no loss without limits. The refinement mapping takes the packet in transit and
the queue for the line, and the output queue for what can be picked up.

### CoDelQueue, PIEQueue and ActiveQueues

CoDel's `dequeue()` takes one packet after another (`DequeueOne` /
`DequeueFirst`, `EnterDropping`, `DropNext`, `DropsOver`). The code keeps all but
the first of them in a variable of an inner scope that hides the outer one, so
the first packet is returned and the later ones are discarded; the model does the
same. Unsigned 64 bit differences are taken modulo `Word`. `ControlLaw` is the
integer part of `interval / sqrt(count)`, exactly. Packets are at most
`PACKET_SIZE`, which `LinkQueue::read_packet` ensures.

PIE keeps its state in one record, so that the same operators can be applied to
the state of the code and to that of a queue with a timer, which the comment in
`calculate_drop_prob` compares it with: the history variable `timer` is that
state, updated by `Tick` as the periods end. A probability is in parts of
`One` = 102400, in which all the steps of the code but the halving of an idle
queue are whole numbers. A drop is a choice where the probability is neither 0
nor 1.

### Ferry and its queues

The steps of the loop are actions because time passes and packets arrive between
them: `AskWaitTime` (the argument of `poll`), `Poll` (interest and timeout),
`PollReturns` / `PollTimesOut`, and the callbacks in their order, `ServiceRead`,
`ServiceWrite`, `ServiceExit`; `Destroy` is the end of the process with the
destructor of its queue. The queue is a record whose `kind` says which class it
is of; a method is an operator that returns the *set* of what it may do, since
losses and on-times are random. A front end's command line is a record too, and
`Legal` is what its `main` refuses.

Delay rules keep what `parse_rules` makes of a line, including that the sixth and
seventh column are read for both directions (`RuleOf`). The heap of
`AdvDelayQueue` gives no order among equal times, so `AdvWritePackets` is a set of
orders. `LinkQueue` appears here for `--once`, as a trace of opportunities for
whole packets, because what matters to its ferry is when it has output and when
it has finished. `Slack` bounds how long the process, once awake, takes until it
sleeps again; nothing else is assumed of the scheduler. The clock only moves
forward here.

### EventLoop

Kernel state (`os`, `change`, `pending`, `self`) stands beside what the program
caches (`running`, `terminated`). `change` is the one event `waitid` has to
report for a child, a later one replacing an earlier one; `pending` is the set of
pending signals, so that two SIGCHLD are one. `ReadQuit`, `ReadCont`, `ReadChld`
take a signal from the signalfd; `SkipChild`, `FindChild`, `WaitExited`,
`WaitStopped`, `WaitContinued` are the search of `handle_signal`, between whose
steps children go on changing; `Terminate` and `Reap` are the destructor. An
exception unwinds into the same destructors.

### Shell and ShellPrograms

A program has up to five processes: `main`, its two children (the ferries of a
`PacketShell`, or the container and the recorder), dnsmasq and the user's
command. `ShellPrograms` gives each its sequence of statements, in the order of
the source; a statement acquires an object, forks, hands something over, waits,
or needs something (privileges, the environment, a single thread). `Shell` says
what a statement does: it may throw, and then the stack of objects is unwound in
the reverse order of construction, each destructor acting on the kernel state
(`held`), on children, or on privileges. Children inherit the stack of their
parent and forget what is `moved`; `_exit` skips their destructors. A signal kills a
process that has not masked its signals, and is read by the loop of one that has. One
SIGCHLD may stand for the ends of several children: `told` has those whose ends the
SIGCHLDs read so far stood for, and `LoopChild` reads the next one and gives up its
search at the first child found. The errors the code calls `BUG` are collected in `bugs`. Stops and continuations are
`EventLoop`'s subject. `mm-proxyshell` and the replay shell with delays run the
programs of `mm-webrecord` and `mm-webreplay`.

### ByteStreamQueue and DNSProxy

A ring is the buffer and its two indexes; `Push` and `Pop` take the contiguous
part, as `push` and `pop` do, so that bytes which wrap around need two calls.
`DNSProxy` is the thread `handle_tcp` starts for a connection. `Poll` tests the
interest of the four actions and takes the answer of `poll(2)`; the callbacks
then run in the order of `add_action`, while the peers go on. `Reads` is `push`,
with `Cancel` upon EOF; `StartsWrite`, `WriteSome`, `WriteReturns` are `pop`, whose
write blocks until the kernel has every byte. `HangUp` is the end of the loop
upon POLLERR or POLLHUP, `Throws` a failing read or write. The peers and the
kernel's buffers are external: a peer sends, reads, ends its half and resets
whenever it likes. The listening sockets, `accept`, and the failure of the first
`connect` are left out, and so is `handle_udp`.

### HTTPParser

A stream is a sequence of tokens, CR, LF and words (a first line, a header, a
chunk header, a byte of a body), and a read may end between any two of them.
`Parse` and `ParseEOF` are the two kinds of call; the actions under `ParsingStep`
are the cases of `parsing_step` and, with `pc = "chunks"`, of the loop of
`ChunkedBodyParser::read`, whose own buffer and counters are kept as they are. An
assertion that fails leads to `pc = "aborted"`, an exception to `pc = "threw"`.
The module serves requests and responses: the `kind` of a script says which of
the two subclasses parses it. Every message of a script is marked with how it is
delimited, from the RFC and not from the code (`length`); the properties compare
what the parser produces with that. Text is abstracted: constants say which key a
header has and which number it holds.

### HTTPProxy, TimeLogger, Replay and RecordReplay

`HTTPProxy` is the recorder, with a thread for each connection that loops over
`Poll`, the four callbacks and `Served`. A message is one unit here (the parser has
a module of its own); `count` says how many messages of a connection have come
how far, from `sent` to `delivered`. `StartRtt` to `RttStopped`, `StartLoad` and
`StopLoad` are the timers; a start is written under a mutex and looked up under
none, so `Crash` is possible when two threads meet, and when the logs are written
while a thread adds a measurement. A write to a peer that had ended its half before
it reset the connection raises SIGPIPE, which ends the recorder too (`Writes`).
`Create` and `Serialize` are the
two steps of `save`. `Quit` and `PrintAndExit` end the process, whatever the
threads are doing. An end of the recorder's loop by an exception has no action of its
own: it leaves on the disk what `Quit` and `PrintAndExit` leave, but for the two logs,
which a replay reads only if "save" is in the path of the directory.

`RecordReplay` lets `mm-webreplay` load the directory that results: `Recorded` is
the filter on the path, `Loads` the checks, `BestMatches` the choice of
`replayserver`, `GetServerDelay` the rows of a delay file.

### LiveGraph

The thread of a ferry calls `add_value_now` or `set_max_value_now` (`Call`,
`Update`), the animation thread loops (`Loop` to `Shown`); both go through
`advance` (`Lock`, `NewBin`), a bin at a time. `Construct` is the rest of the
constructor, which runs while the thread is already there: `NewBinTooEarly` is a
call of `initialize_new_bin_` before it has been constructed, after which the
process has crashed or the animation has ended. The X server owes two events
after each picture.

## 3. Runs

| Run | Instance | Shows |
|---|---|---|
| `link_infinite` | traces <<0,2>>, <<1,1,3>>, <<2>>, with and without repetition; opportunities of 3 bytes, packets of 1 to 3; clock 1..6 in steps of 1 or 2 | the link is an ideal server (`IdealLink`), opportunities follow the trace, in exactly one pass with `--once` (`SlotTimes`), calls return, refinement of `LinkService` |
| `link_drophead` | the same traces, limit of 2 packets, 4 packets, clock that may be set back, packets that are too large | delays stay positive, drops are accounted for, assertions hold |
| `packet_queues` | CoDel with target 1, interval 2, 10 packets of 1 and 2, clock 1..8 in steps of 1 or 2 and set back; PIE with periods of 2, 5 packets, clock 1..10 in steps of 1 or 4 | CoDel: pressure, schedule and last packet over several episodes, with wrapped differences. PIE: the timer's probability, unless a dequeue is late |
| `ferry_queues` | `mm-delay` (2 ms), `mm-meter`, `mm-link --once`, `mm-loss`, `mm-onoff`, `mm-adv-delay` with five rules; both directions where they differ; 2 or 3 packets, clock to 6, slack 1 | order, delay, losses, end, no busy wait |
| `shell_children` | two ordinary children, 2 stops, exits with 0 or 1 | cache, nothing overlooked, suspension and resumption together, termination |
| `shell_lifetimes` | `mm-link --once` with a graph on one side, `mm-webrecord`, `mm-webreplay` with two servers; every call may fail, one signal at any time | no orphans, nothing left, the command does not outlive what it needs, no `BUG`, an end unless that of a ferry is overlooked |
| `dns_relay` | rings of 3 bytes (2 usable), socket buffers of 1, 3 bytes each way, resets | relayed bytes are intact at every moment, nothing is lost at the end; every byte arrives, the thread ends |
| `http_messages` | 81 streams of two requests or two responses, with bodies of known length, chunked (with and without trailers, with CRLF in the data) and until EOF, and unsupported messages; every split, EOF anywhere | the messages are those sent, as soon as they are sent, with their requests; only what is malformed is refused |
| `record_replay` | five scripts: one page twice; two pages that differ in their query, with half-closes and resets; TLS; a disk that fills; no recording | requests are answered, the loop leaves nothing behind, the replay refuses only a damaged record and serves what was seen, timers are never overstated |
| `live_graph` | bins of 1, 2 values, clock to 4, both kinds of graph | every bin with a value is drawn once with all its values, values in time, the destructor ends |
| `drophead_bytes` | limit of 4 bytes | **violation**: `assert( good() )` in `dequeue` fails |
| `ferries_coalesced` | two ferries, with status 77, no stops | **violation**: the second exit is overlooked |

**Bounds.** The traces hold the cases that differ: an opportunity at 0, two in
one millisecond, a trace of one line; the clock runs through each at least twice.
With 3 bytes per opportunity a packet can fit, fill it, share it or span two.
Three or four packets are enough to have one in transit, one or two queued and
one dropped. CoDel's packets leave room for an episode of at least three drops, a
recovery and a second episode that resumes with a higher count; PIE's clock for
five periods, two of which are made up for at once. In the ferry, two or three
packets let one be in each place, with one arriving while the loop is in any of
its steps; the rules hold a limit that the second packet passes, a wildcard port,
and delays whose releases meet. Two children are needed for one to be overlooked;
two stops let both be stopped, or one stop again while the loop is at work. A ring
of three bytes wraps around after two and is full with two; a socket buffer
smaller than what is sent makes writes block half-way. A second message shows
whether the first one ended where it should; the chunks hold sizes of several
tokens and of one, and CRLF as data. Two connections are enough to share a timer
and a URL, two requests for a query to decide. Two values may fall in one bin or
in two, and the clock moves on by several bins between two steps. One signal, and
one failing call at any point of any process, since each failure unwinds the
process it happens in. Every bound is a constant whose comment begins with "bound".

**Fairness.** `LinkQueue`: a call in progress goes on (the thread is scheduled);
nothing is assumed about when calls are made. `EventLoop`: the parent is
scheduled, a pending signal is read at last, a child that runs obeys its
termination signal, and the user does not leave the parent stopped. The third is
an assumption about the children: one that ignores SIGHUP does hang the
destructor. `Shell`: some process that can go on does (`Schedule`), and dnsmasq and
the user's command obey the signals they are known to obey (`Obedience`); the
choice is fair to all processes together, which is weaker than to each.
`DNSProxy`: the thread is scheduled, and a peer reads at last what it is sent;
nothing makes a peer send, end its half or reset. A peer that never reads does
block its thread for ever. `RecordReplay`: threads are scheduled, and a live server
answers; nobody has to end a recording. `LiveGraph`: both threads are scheduled,
the mutex is granted to a thread that keeps asking (strong fairness of `Lock` and
`Update`, which `std::mutex` gives in practice and not by its specification), and
the X server sends its events. `Ferry`, the packet queues and `HTTPParser` are
checked for safety only; the timing property of `Ferry` is a safety property under
`Slack`.

`CHECK_DEADLOCK FALSE` is set where a run really ends: after an exception or an
abort, when the bounded clock and supply of packets are used up, or after exit.

### What the properties do not say

Some are stated with an exception, because the code does not do without it.

* `SameAsTimer`: the comment at `packet/pie_packet_queue.cc:130-135` says that the
  replayed periods give what a timer gives, since the occupancy has not changed.
  That holds as long as no dequeue comes later than an update was due (`late`): an
  enqueue makes up for the missed periods before it adds its packet, but a dequeue
  does so after it has removed one, and replays them with too small an occupancy.
* `BinsAreDrawnOnce` excepts the runs in which the animation thread was too early
  for the constructor (`graphing/binned_livegraph.cc:28-34`).
* `RefusesOnlyDamaged` excepts a recording directory with "save" in its path: the
  filter of `frontend/replayshell.cc:99` looks at the whole path, so that the two
  logs are read as records there, and refused. It excepts what a recorder left
  unfinished as well: one cut file makes the whole directory useless.
* `NeverOverstated` excepts a lookup that finds no start, which gives the time
  since the epoch; and it allows a time to be too short, as the URL that is the key
  has no host in it (`httpserver/timelogger.hh:51`).
* `LeavesNothing` and `Answers` except a client that has ended its half before the
  response: the proxy stops reading the server then (`http_proxy.cc:60`).
* `Ends` of `Shell` excepts the wait of `mm-link --once` for a ferry whose end was
  behind the same SIGCHLD as that of the other, which had finished (`Overlooks`,
  `util/event_loop.cc:62`): without the exception TLC finds it violated, by what
  `ferries_coalesced` shows of the loop itself. The program still ends when it is told
  to. (`DNSProxy` has an `Ends` as well, of a connection whose peers end their halves.)
* `EndsTidily` says what holds when a ferry ends, not that it does.
* `DropsUnderPressure`, `DropsOnSchedule` and `OnlyPacketIsKept` say when CoDel drops
  and how much, and nothing of which packet is judged and which is dropped.
* `BinsAreDrawnOnce` is about the bins in which something was counted.
* `NothingLeft` excepts a program killed before it has blocked its signals.
* `MessagesAreAsSent` is about streams that announce trailers exactly when they
  have them; `RefusesOnlyMalformed` about final responses.
* `NoBusyWait` and `DelayKept` are about a clock that is not set back.

### Disagreements found

* `drophead_bytes`: `DropHeadPacketQueue::enqueue` drops in a loop, but each
  `dequeue` asserts that the limits hold afterwards. With a byte limit, one
  arrival can need two drops, and `mm-link` aborts.
* `ferries_coalesced`: `handle_signal` returns `Continue` after the first child
  that exited with its continue status, although its comment says that one SIGCHLD
  may stand for several children. `wait_for_exit` then waits for ever.

Met while the code was translated, and not checked by a run:

* `mm-link(1)` documents "#" in the log as an unused delivery opportunity
  (`man/mm-link.1:68-72`); the line is written for each one (`link_queue.cc:196`).
  Packets that CoDel and PIE drop have no line at all, as drop lines come from
  `read_packet`.
* An interim response (1xx) takes a request from the queue like any other
  (`http/http_response_parser.cc:15`), so that the final response finds none and
  `parse` throws, although the rules for body sizes know interim responses.
* A line of nine columns in a rules file gets its reverse limit and delay from
  columns 6 and 7 again, and columns 8 and 9 are not read (`frontend/delay_rule.cc`).
* `AdvDelayQueue::get_delay_for_ipv6` looks for the value 6 where an IPv4 header has
  its protocol, which in an IPv6 header is the second byte of the source address;
  a packet without it there is refused by an exception, which ends the ferry.
* SIGPIPE is not ignored: a write to a peer that has ended its half and reset its
  connection ends the whole process and not only its thread. In `DNSProxy` the state
  "threw" stands for both; in `HTTPProxy` the recorder crashes.
* `SSL_connect` reports failure as -1, which is not the 0 that `secure_socket.cc:130`
  tests; the failure is seen at the first read or write. (`SSL_accept` is checked
  against 1, in lines 137 to 142, and its failure is noticed at once.)

## 4. Proofs

Proved for all values of the constants that satisfy the named assumptions:

* `LinkQueue_proofs`: `TypeCorrect`, `NoAssertionFails`, `DelaysArePositive`,
  assuming `OneDropIsEnough` (drophead without a byte limit, the case in which the
  assertion does fail). The invariant `IInv` adds to types and assertions that
  the queue counts its packets, is within its limits and holds only packets that
  fit (`Within`), that the packet in transit has at most its size to go
  (`TransitFits`), and, the heart of it, that everything pending arrived before the
  opportunity that may serve it (`PendingInTime`): before the one in progress
  while sending, before the next one otherwise. A packet can therefore only be
  enqueued after the loop has left no due opportunity behind, and the clock needs
  no assumption at all. Without `PendingInTime` neither the assertion at the head
  of the loop nor the positive delay is inductive.
  `LinkImplementsService` is the refinement: `IInv` and that the packet being read
  has the next number make every step one of `LinkService` or a stutter.
  `LogAddsUp` (`Conservation`) is inductive as it stands, once the sums of the
  packets in each place are known to grow by what is moved. `SlotsFollowTrace`
  (`SlotTimes`) needs the turn of the trace the base timestamp belongs to
  (`TurnKept`), which without repetition is the first. `LinkIsIdeal` (`IdealLink`) assumes `ClockNotSetBack` as well: with
  the clock set back a packet may arrive before an opportunity that is used up. Its
  invariant says that the opportunities used are past (`SlotsArePast`) and that
  what has been sent is what the ideal server has carried after as many of them,
  what is left of the present one accounted for (`KeepsUp`).
* `Shell_proofs`, last part, of `EventLoop`, the loop that `Shell` has one statement for:
  `CacheIsFresh` and `SupervisorTypeCorrect`, for any number of children.
  The invariant adds that what `waitid` would report agrees with the child's state
  (`ReportOK`), and that the loops wait only for a child that exists and was not
  reaped (`AtOK`). `NobodyOverlooked` assumes that no child exits with its continue
  status (`NoContinueStatus`), the case in which `ferries_coalesced` shows a child
  overlooked; its invariant `Watched` says that a child with a change to report is
  still ahead of the search, unless SIGCHLD is pending again.
* `ActiveQueues_proofs`: `PressureBeforeDrop`, `NoDropTooEarly`, `LastPacketIsKept`
  and `MissedUpdatesMadeUp`, for all targets, intervals, periods and word sizes. For
  CoDel the invariant ties the timer to the time since which packets were above
  target (`TimerOK`), says what is known where a packet may be dropped (`MayDrop`),
  and that the next drop is due when an ideal controller drops (`ScheduleOK`). For
  PIE it is that replaying the missed periods now would give what the timer has
  (`Same`); it rests on a replay of m and then n periods being one of m + n.
* `Ferry_proofs`: `TypeCorrect`, `NeverBusy`, `LeaveInOrder`, `DelaysAreKept` and
  `TidyToTheEnd`, for a ferry with any of the six queues, every command line, rules
  file, limit and slack. What each method does to a queue of each kind is stated once
  (`Reads`, `Writes`, `Waits`). `NeverBusy` needs that what is pending stays pending
  as time passes and when a packet is read (`PendingStays`, `WriteReady`). For the
  rest packets are numbered (`Numbers`), an `AdvDelayQueue` has counted exactly the
  packets read (`Counters`), and the release times in a queue are the times the packets
  are due, worked out from the packets read before them (`Releases`): a rule with a
  limit makes the delay of a packet depend on all of them, and `DueKept` says that
  it does not change once it is read. Order then follows from `LineOrdered` or
  `AdvOrdered`, and the delay from `InTime`: where the loop waits, it is for no longer
  than until the first packet is due, plus what it has been awake before it slept.
* `Sums_proofs`: what `SumOf` gives for every sequence, and that functions defined
  by recursion exist and agree. Induction is by the least element of the set of
  counterexamples (`LeastElement`, `InductionUpTo`), which needs no operator as a
  parameter.
* `DNSProxy_proofs`, first part: `PushAppends` and `PopRemoves`: for every size of the
  buffer, a push appends to the bytes the ring holds and a pop removes its first
  ones, across the end of the buffer too, which makes the ring a bounded queue.
  They rest on lemmas about the indexes (`RingCapacity`, `ContiguousIsPart`,
  `PushedIndexes`).
* `DNSProxy_proofs`, of the relay: `RelayTypeCorrect` and `RelayNeverAborts`: for every size of
  buffer, and any number of bytes, the assertions of `push` and `pop` hold. The
  invariant adds that an action whose turn is still to come in a round keeps the
  interest it had before `poll` (`StillInteresting`), because the callbacks before
  it in the round work on other actions' ends of the rings, and that a write in
  progress is of bytes the ring still holds (`WriteFits`).
* `DNSProxy_proofs` also has `RelayIsTransparent`: what each peer has read, what is on
  its way to it, what waits in the ring and what was not read yet are together, at
  every moment, the bytes the other peer has sent, and without a reset nothing is
  left when the thread ends. Every step either moves bytes from one of these places
  to the end of the next (`PushAppends` and `PopRemoves` say so of the ring) or
  moves none. The invariant adds that an EOF is seen only where nothing is left to
  read (`EOFIsLast`) and that an error `poll` has reported is a reset
  (`HangUpIsReset`). That the thread may end when no action is interested rests on an
  empty ring having room (`NobodyInterestedIsDone`).
* `LinkQueue_proofs`, last part, of `LiveGraph`, on which a link may show what it counts:
  `CountsOnTime`, for every width of the bins: a value is
  counted in no bin before that of its call, nor in one that has not begun. The
  invariant says that no bin begins before its time (`BinOK`), that the ferry's
  thread has the mutex only in an `advance()` that it began after its call
  (`MutexOK`), and that what this `advance()` has achieved stays true after the mutex
  has been given up (`UpToDate`). It rests on the monotony of the division
  (`BinsFollowTime`).
  `EveryBinIsDrawn` (`BinsAreDrawnOnce`), for every width, logical width and set of
  amounts, says what the points and the value show of the calls that have landed: the
  value is right for the current bin and nothing has landed in a later one
  (`CurrentFor`); every point has the end of a different bin that is over and that
  bin's total or maximum, and no bin still on the screen lacks one (`PointsFor`).
  It holds as long as no thread used `initialize_new_bin_` before it was there, and it
  needs that only the thread that has the mutex is in the middle of an `advance()`.
* `Shell_proofs`: `ChildrenDieFirst` (`NoOrphans`) and `NothingIsLeft` (`NothingLeft`),
  for every program and its options, every list of web servers, and any signals to any
  of the processes. It is assumed that `MaxSignals` is a number (`ShellAssumption`) and
  that no web server has the name of another object (`ServersAssumption`). What the
  proofs need of the scripts is an order of their statements (`Orderly`): the event
  loop, whose constructor blocks the signals, comes before every fork; no statement
  forks twice and no child is forked by two processes; only main acquires what outlives
  a process, gives the veth device away and then disowns it, after its child is there.
  `EveryProgram` shows it of every program, and the steps use nothing else of the
  scripts. The invariant has three more parts. `Family`: every living child is minded
  by the parent that forked it, which lives, has its signals blocked, and has the
  `ChildProcess` object or an event loop with the child in it; a process that has gone
  has no objects, so it saw the end of its children first. `Given`: the inner veth
  device is in the namespace only while somebody lives there, and one given away is
  there or gone. `Cared`: what is held has an object of main's that will take it down,
  or a destructor has complained of it, or it is the disowned pair; unless main was
  killed. TLC checked this invariant on the instance of `MCShell` before it was proved.
* `Shell_proofs`, second part: `NoBugOccurs` (`NoBug`) and `UsersAreServed` (`UsersDieFirst`),
  as generally and from the same assumptions. These need more of the scripts than the
  order of their statements: what a process *stands on* at each of them, its privileges,
  its environment and its objects. `After` says what a statement makes of that,
  `Allowed` where the code's tests let it pass, for the process itself and for what a
  forked child inherits (`Begins`), and `Unwindable` that however many objects are
  destroyed next, one that takes something down finds root's privileges, an empty
  environment, no threads and no child still to wait for. A script `Leads` somewhere when
  its statements one after the other are allowed. That is shown of every process of
  every program, any number of web servers included (`ScriptsWay`, from `WayJoin` and a
  lemma for each kind of statement), and nothing else of the scripts is used. The
  invariant `Careful` adds to `IInv` that a process that runs stands where its script
  leads and one that leaves can unwind (`Follows`), and that what main has an object for
  is held until its children's end, but for the device that goes with its namespace
  (`Owned`). `NoBug` is part of it. For `UsersDieFirst`, a living command or dnsmasq has
  main wait for it, or for the process above it (`MainShelters`); main's object or
  event loop for that came after everything it acquires, so all of that is held
  (`AllIsHeld`). TLC cannot evaluate `Careful`, whose quantifiers range over all
  functions to standings; the two properties are what it checked.

* `RecordReplay_proofs`: for any connections, what peers send on them, where they are
  reset and where the recorder is interrupted. `NothingIsLeft` (`LeavesNothing`),
  `RefusalsAreDeserved` (`RefusesOnlyDamaged`), `ReplayIsFaithful` (`ReplaysWhatWasSeen`)
  and, an action property, `MeasurementsAreNotOverstated` (`NeverOverstated`). The
  invariant says where a thread is and what is then true of its counts (`ThreadsOK`):
  each side has parsed no more than was sent and delivered no more than was parsed, an
  action whose turn is still to come keeps its interest, and a thread ends in order only
  when nothing is left to pass on. `DiskOK` adds that what is on the disk was
  delivered, that a cut file is being written or met a full disk, and that a delivered
  response is on the disk or its thread is about to save it; `TimersOK`, that a timer that
  was started still has its key in the map, at that moment or a later one, whatever
  other threads did to the map; `ReplayOK`, that the shell's view of the directory is
  what the recorder has left there. It is assumed that scripts are scripts
  (`ScriptsAssumption`) and that no first line is the beginning of another
  (`LinesAssumption`): each ends with its HTTP version, so a longest common prefix is
  the whole line only for equal lines.
* `HTTPParser_proofs`: `WhatIsSentIsParsed` (`MessagesAreAsSent`), `ResponsesAreMatched`
  (`Matched`) and `OnlyMalformedIsRefused` (`RefusesOnlyMalformed`), for any stream of
  messages, cut into any pieces. The invariant says that everything the parser holds
  is a window of the stream (`ReadsWhatIsSent`, `Window`), and for each state of the
  message and of the chunked body which window it is (`ReadingOK`): what has been parsed
  ends where the buffer begins, and a chunked body's parser has seen what is
  acknowledged and not a word of the next message. `MatchOK` says that the requests
  in the queue are those of the responses not begun. `StreamsAssumption` is that
  messages are framed as their length says, and one read to the end of the stream is the
  last; what is sent otherwise is a message of its own kind in the model and is what
  `RefusesOnlyMalformed` is about.

`Shell_proofs` extends `EventLoop` besides `Shell`, and `LinkQueue_proofs` extends
`LiveGraph` besides `LinkQueue`; so that no name is defined twice these two call their
specifications `LoopSpec` and `GraphSpec`.

The type invariants `TypeOK` are stated in the proof modules' components and
proved, and no run spends its time on them.

Only model-checked: liveness (`CallsReturn`, those of `EventLoop`, `Shell`,
`DNSProxy`, `RecordReplay` and `LiveGraph`), which under fairness is out of the
prover's reach, like ENABLED; and `LossFollowsLink`, because the switches of a link are
a recursion that ends only when times of zero length do not go on for ever
(`Switches`).

## 5. Plan

1. *DNSProxy*: the UDP half (the TCP half is done).
2. *Interfaces*: the choice of two unassigned addresses, and two shells that are
   started at the same time.

## 6. Not modelled

Which addresses, routes and device names the kernel is given; the UDP threads of
the DNS proxy, one request and one reply each; TLS itself, protocol buffers, Cairo,
Pango and Apache, which are libraries and programs of others; the report scripts
and the traces. They configure the kernel or call libraries and keep no state of
their own that a property could be about. The byte counter of the unlimited queue,
an `int` in the code, is not bounded in the model: reaching its limit takes 2 GB
of backlog.

# A TLA+ model of zhiyu_xihe

The repository (`src/zhiyu_xihe`) holds the programs of a GNSS positioning
product: a driver for Android receivers that corrects its positions with clock
and orbit messages (*xihe*), an inertial program, and the servers that carry
their data. All of it is C with POSIX threads, sockets and epoll. This
directory has TLA+ modules for the parts where threads, connections and
failures meet, the TLC configurations that check them, and TLAPS proofs about
the transfer relay and its memory pool, the driver's threads, its correction
stream, serial parsers and report mailbox, the channel server with its circular
lists, and the navigation program.

Source paths below are relative to `src/zhiyu_xihe`.

## The system

| component | state | operations | hard behaviour |
|---|---|---|---|
| **Transfer relay** (`transfer_server/src`; `transfer2_server` and `transfer3_server` are copies) | a pool of 20 nodes, a ring of 10 node pointers, a queue mutex and condition, two threads with a socket each | `connect_data_server_thread` reads packets and pushes, `connect_gnss_tcp_server_thread` pops, writes a 40-byte frame and returns the node; `gnss_queue_push` drops the oldest when full | push drops while pop takes; node returned in two steps; signal after unlock; `uint32_t` wrap in the full test; failed and short writes; reconnection |
| **Relay memory pool** (`gnss_mempool.c`) | free list linked through the nodes, count, high-water mark, pool mutex | create, get, return | a node is cleared before the mutex is taken; two threads |
| **Driver, middle layer** (`iwise_gps_loc_hal/iwise_loc_handle_layer2`) | `status` with `status_mutex`/`status_cond`, data area with `data_mutex`/`resolve_cond`, three threads | `iwise_loc_init/start/stop/destroy`; `hardware_handle`, `xihe_handle`, `pos_handle` | life-cycle calls against three waiting threads; conditions broadcast once; wrong mutex unlocked; correction copied without a mutex |
| **Driver, top layer** (`iwise_loc_interface_layer1`) | mailbox of one event, `report_thread_status` bits | `iwise_init/start_fix/stop_fix/close`, `iwise_inter_event_cb`, `report_thread` | `if` around `pthread_cond_wait`; overwritten events; close joins |
| **TCP channel server** (`tcp_channel_server`) | ten channels of a receiving and a sending server, each with a pool of 100 peers (circular free and use lists); one epoll instance | `zy_epoll_run`, `zy_tcpserver_accept`, `zy_tcpserver_msg_handle`, `send_all_tcpclient_msg` | edge-triggered events; stale events of a batch for nodes that a broadcast gave back; a list walked while it shrinks; pool exhausted |
| **UDP discovery** (`gnss_udp_server`, `gnss_service_list`) | a socket, a shared buffer | one datagram answered per event | edge-triggered, one `recvfrom` per event |
| **TCP client** (`tcpclient`) | a descriptor per client, shared by nothing but the kernel's table | connect, send, reconnect on a failed write | a write fails after the peer closed; numbers of closed descriptors are given out again to another thread |
| **INS control** (`ins_logic_control`) | one-place mailboxes for an inertial sample and a fix, result record | the imu thread and driver callbacks store, the filter in main takes, both send over TCP clients | wait without a predicate, `trylock`, mutexes initialised after the driver starts |
| **Correction stream** (`iwise_net_xihe_module.c`, `iwise_pool.c`) | 4096-byte buffer with `start`/`end`, bad-message and timeout counts, a socket, copies of the server settings | connecting, framing on 0xD3, compaction, reconnection | frames cut anywhere by `recv`; length over `PACKAGE_SIZE`; compaction at the boundary; failed connects; settings that change meanwhile |
| **Serial parsers** (`iwise_serial_parser.c`, `iwise_nmea_parser.c`, `Parserlib/rcv/ublox.c`) | `is_nmea`, `is_raw`, the line buffer with its static index, the message buffer | one byte at a time from the read loop of `hardware_handle` | automaton state that outlives a line, noise, a stop; lines and messages cut anywhere by `read` |
| **NTRIP thread** (`iwise_net_rtk_module.c`) | a socket, a file descriptor of the serial port | forwards RTK data to the receiver | is never joined; descriptor closed elsewhere |
| Vendored or generated | RTKLIB and the PPP filter, BNC's correction decoder, zlog, inih, IMU platform code | | not modelled |

How they interact: the receiver's bytes reach `hardware_handle`, which posts
observations to the data area; `pos_handle` solves them with the correction
`xihe_handle` keeps there, and reports through the event callback into the
mailbox of the top layer, whose report thread calls the application. The
on-board programs send positions to the servers over TCP; the relay moves
packets from a data server to the GNSS server; a channel server copies what
its receiving peers send to all its sending peers.

What makes each correct: nodes have one owner and never leak; a ring keeps
order and gives up only its oldest; no thread sleeps on work that is there; no
thread runs on a freed context; a call that joins threads comes back; an event
or observation is used once, and the latest is never forgotten; a peer's node
and its descriptor live and die together; each waiting connection is accepted; a
byte stream yields the same frames and positions however it is cut, and is
understood again after noise; data that came is read.
`PROJECT.json` lists the hazards line by line with the properties that cover
them.

## Modules

    RelayFifo  <== TransferRelay
    NodePool   <== GnssMempool    --- GnssMempoolProofs
    TransferRelay --> RelayPool <-- GnssMempool   --- RelayProofs
    NodePool   <== ChannelServer (twice) --- ChannelServerProofs
    ZyMempool (operators) --> ChannelServer
    XiheStream  --- XiheStreamProofs
    LocHandle     --- LocHandleProofs
    LocInterface  --- LocInterfaceProofs
    SerialParser  --- SerialParserProofs
    TcpClients --> InsLogic       --- InsLogicProofs

`A <== B`: B implements A under a refinement mapping, checked as a property.
`A --> B`: B composes the actions of A with others. `---`: the proofs about it.
The `MC` modules only extend a module for TLC.

**TransferRelay.** Both threads with a program counter each (`rpc`, `spc`). A
step is what a thread does between two points where the other can see it: a
critical section, a system call, an access to unprotected shared memory. The
queue mutex is a variable because a push holds it over several steps
(`PushLock`, `DropClear`, `DropLink`, `DropSkip`, `PushStore`); the pool mutex
guards single steps. A packet is its number; a zeroed buffer is 0.
`LooksFull` is the test `(tail+1-head)%n` in 32-bit arithmetic, with the
remainder of 2^32 as `WrapRem`. `ReaderReadTimeout`, `ReaderReadError`,
`SenderWrite` (which may be short), `SenderWriteFails` are the outcomes of the
system calls. A NULL node is dereferenced at once: `rpc = "crashed"`.

**RelayFifo** is the promise of the comments over `gnss_queue_push`: first in,
first out, the oldest is given up for room. `Strict` asks that the buffer is
full then.

**GnssMempool** keeps the links, the count and the high-water mark as the code
does; returning a node is two steps (`ReturnUnmark` before the lock,
`ReturnLink` under it). Who has a node is not in the pool: `holds` is a history
variable, and `Hand` is the pop by which the reader's node becomes the
sender's. `IsFreeList` says that the links run through exactly the free nodes
and end. **NodePool** is the promise: a node is with one client or available,
and a client is refused only when none is.

**RelayPool** composes both: the threads of TransferRelay are the clients of
GnssMempool, and each call of the pool is one joint step. TransferRelay takes
any free node; here it is the head of the list. `PoolAgrees` says that the two
agree about every node, and RelayPool implements TransferRelay
(`PoolRefinesRelay`), so what is proved of the one holds of the other.

**XiheStream.** The network thread of the driver as a step per `recv` or
`connect_server` with the checks behind it, per turn of the parse loop, and for
the compaction. The buffer, `start` and `end` are those of the code, with bytes
as numbers, since the scan and the length arithmetic are what can go wrong
(`FrameLength` has the precedence of `|` and `+`). What the server sends and
how `recv` cuts it is free. `clean`, `stream`, `ends`, `got` and `parsed` are
the history of a connection that began with an empty buffer and has carried
only good frames: nothing in the code reads them. `connect_server` can fail
before and after its `socket` and `connect` (`Failures`); `open` has the
sockets the thread really has. In LocHandle the same thread is coarser: there
its bytes are choices, and what counts is its locks.

**SerialParser.** The read loop of `hardware_handle` with
`iwise_serial_parser_input` below it. A step is a `read` or a byte. A byte
stands for all that the automata treat alike: the text of a line is one byte,
so are the two that begin a message, and the four with its type and length.
Checksums fit what was sent and nothing else, so `Kept` forgets what a buffer
holds when it can no more become a message, and keeps how much it is. The
receiver says whole messages, noise, or the rest of a message that began before
the port was opened. The data of a message may hold what a line begins or ends
with and what a message begins with; a length found where there is none can be
anything up to `MaxRaw`. A position is reported in the modes the thread reports
in (standalone and xihe; the others are left out), and of the receivers the
parser can be built for the model has the ublox one (`Android.mk` selects
NOVATEL). A line is given up at 256 bytes but its index goes on;
`MsgRoom` is what lies between `nmea_msg` (120 bytes) and the first field in
use, the results of other kinds of lines behind it included, where a few bytes
more do no harm that a report shows: behind that the thread is `"wild"` and
nothing more is promised. `noisy`, `framed`, `quiet` and `due` are history:
`due` counts the positions that were said and not reported.

**LocHandle.** One application thread makes the calls (bounded by `MaxCalls`);
`iwise_loc_destroy` is four steps, the broadcast and a join for each thread.
The three threads have a program counter each (the NTRIP thread uses nothing of
the context and is left out, as are mutexes and conditions that cannot be
made); the wait loop they share is `WaitEnter`/`WaitResume`/`SpuriousWake`.
`status_mutex` is only held for single steps; `data_mutex` has a holder.
Unlocking it without holding it (`iwise_pos_module.c:70`) is a choice between
nothing happening and its release under the holder, which the history variable
`stolen` remembers. The correction is a pair, and copying it without the mutex
is two steps. Under the mutex a copy and the flag behind it are a step each
(`HwCopyObs`, `HwPostObs`; `PosCopy`, `PosMark`), so that two threads which
both think they hold it are seen to mix. The hardware thread posts every
ephemeris; only the first is modelled, since a further one changes nothing
here.

**LocInterface.** The report thread, the mailbox, and the status as a set of
bits. The threads below are `Post`; they may post until the middle layer's
destroy has joined them. Whether waits return without a signal is the variable
`spurious`, chosen at the start: one run covers both platforms.

**ZyMempool** has the list operations of the channel server's pool as operators
on a record with the fields of `zy_mempool_t`; each assignment of the code is a
LET or EXCEPT, in its order. **ChannelServer** is one channel with both its
servers. The server's thread is one sequence of steps: `EpollWait` fetches a
batch (`EpollFails` is an interrupted wait, which ends the server), `Accept*`
and `Msg*` handle one event each, and a broadcast takes one step per peer
(`CastWrite`, `CastFails`), so that the network can act in between. Events of a
batch name nodes, not connections, as `data.ptr` does. After `AcceptWild` (the
uninitialised pointer of an exhausted pool) nothing is promised and the model
stops. Data of a connection is a flag: only whether there is some decides what
the code does.

**TcpClients** is `zy_tcpclient.c` for several threads: `socket_fd` of each
client, and of each descriptor of the kernel whether it is open, connected, and
to which server. `zy_tcpclient_send` is a sequence of steps (`Write`,
`WriteFails`, `Close`, `Socket`, `Connect`, `ConnectFails`, `Rewrite`), because
between the close and the socket another thread can get the number. Servers
come and go, and a connection to one that is gone breaks at once, later or
never. What a frame says is left out; a short write counts as a write, as the
code has it. **InsLogic** is the navigation program over it: `main` starts the
clients, the driver, the sensor and the filter, whose calls of `get_ins_data`,
`get_gps_data` and `get_result_data` are its loop; the imu thread stores and
signals; the report thread of the driver sends (`SendReport`) and stores fixes
(`LockFix`, `CopyFix`, `FlagFix`). A fix is its number. That every client is
used by one thread only is the assumption `InsAssumption`, read off the calls.
A sixth client, of the log, is started and never sent on; it may be among
`Clients` and in no list but `StartOrder`. The clients are the only ones that
open and close descriptors in the model. In the program there are others, of
which the correction thread may close a number twice (below): `OwnServer` says
nothing of that.

## Checks

| run | what it asks | bounds |
|---|---|---|
| `relay` | ownership, leaks, data under the sender, lost wake-ups, the FIFO, the linked list against NodePool, agreement of the relay with its pool; every packet leaves and every node returns | ring of 3, whose length does not divide 2^32 as that of the ring of ten does not; 4 nodes, 6 packets: the ring fills, drops, wraps, and looks full early |
| `corrections` | no good frame of a clean connection is lost, reordered or left unparsed, room before every `recv`, no socket lost over the reconnections | buffer of 16, `recv` of 7: two recvs and two bytes, so that a compaction moves a part of a frame; frames of 6 and 7 bytes, one with a preamble inside, a bad checksum and an oversize length; 2 messages, 2 connections, 3 calls, 2 descriptors |
| `corrections_compaction` (violation) | the compaction moves what is not parsed | the same buffer, good frames only, 3 of them, one reconnection after a timeout |
| `serial` | positions reported exactly once however reads cut them; the parser finds its way back | lines of 3 bytes and messages of 4, lengths up to 6 behind a wrong beginning, so that what is taken for a message can end in the next but one; reads of 2, 4 bytes on the port; a line is given up at 4 bytes, and the next one may fill the 7 of `MsgRoom` or overrun them, as 256 bytes and a line do the 280 of the code |
| `handle` | no thread on a freed context, no observation used twice, stop takes effect, observations are used, destroy returns if no thread was about to wait | 4 calls (such as init, start, destroy, init, or init, start, stop, start), 2 observations, 1 correction, oversize messages |
| `handle_destroy` (violation) | destroy always returns | 2 calls |
| `handle_torn` (violation) | a position uses one correction | 2 corrections |
| `reports` | no sleep on an event, no event twice, the last one delivered | 5 events |
| `close` (violation) | `iwise_close` returns | 2 events |
| `channel` | lists sound, nodes and connections one to one, broadcast reaches all, NodePool twice, no edge lost: data is read, ended peers leave | 2 nodes per server, 3 connections: the pool is exhausted, and a node is used again in the batch that holds a stale event for it |
| `channel_accept` (violation) | every connection is accepted | 2 connections |
| `ins` | descriptors belong to their clients and none is lost, a lost server is reached again, the filter gets the last fix and none twice | a client of each of the two threads that send, 3 descriptors (more than clients, so that a lost one shows), 2 fixes, so that one overwrites the other |

The type invariants of the relay, the correction stream and the navigation
program are proved (`TypeCorrect`) and not checked again in their runs.

Every property of a passing run has a mutation of the code model in
`PROJECT.json` that breaks it. The mutated operators stand before the
definitions they replace and say so.

### Fairness

Nothing in the environment is fair: data servers, clients, the application and
the receiver owe nothing, and no wait need end without a signal.

- Relay: a push that has begun ends, and the sender is scheduled and its calls
  return (its server is on the same intranet, `transfer.c:169`).
- LocHandle: threads are scheduled, and their calls return: `select` within a
  second, `recv` and `connect` within two, the timed wait within two. Mutexes
  are granted to a thread that keeps asking (strong fairness on the lock
  steps), and a chunk has finitely many messages (`XiheChunkEnds`).
- LocInterface: the report thread runs, callbacks return, and the middle layer
  ends its threads once close has begun.
- XiheStream: the thread is scheduled, `recv` and `connect` return within two
  seconds. `Delivered` is promised only while the connection lasts and the
  settings stay.
- SerialParser: the thread is scheduled, `select` returns within a second. That
  the receiver goes on is a premise of `Resynchronises`, and so is that from
  some time on its messages have no preamble within their data (`quiet`): with
  one the parser may never find its way back (below).
- ChannelServer: the one thread is scheduled. `EdgesHandled` is promised as
  long as the server runs (`Running`) and the connection is not reset.
- InsLogic: threads are scheduled and their system calls return. Sensor,
  receiver and network owe nothing: `FixUsed` holds if samples keep coming, and
  `Reconnects` of a server that stays up and a client that keeps sending.

## Proofs

`RelayProofs` proves of TransferRelay, for every pool, ring length of at least
two, frame length and number of packets (`RelayAssumption`):

- `TypeCorrect`, `Ownership`, `NothingLeaks`, `DataIntact`, `WakeupKept`,
  `DropSound`: the safety invariants of the relay;
- `ReaderLives`: with more nodes than slots the reader always gets a node;
- `ExactRingDropsOnlyWhenFull`: a ring whose length divides 2^32 drops only
  when it is full;
- `TenLooksFullEarly`: the ring of ten of the program looks full with three
  packets in it, the first of the findings below.

The argument is one inductive invariant `IInv`. `ExclusiveOwner` alone is not
inductive: a drop clears and links `items[head]`, so one needs to know that the
ring is not empty then, that the sender cannot pop meanwhile and that the reader
still has its own node. `IInv` adds `MutexInv` (a push, and only a push, holds
the mutex over steps), `HandsInv` (a thread's pointer is set exactly where the
code relies on it), `RingInv` (a drop finds a packet, a store finds room),
`PacketInv` (packets in live slots are not cleared ones) and `CountInv`. There
is a lemma per action that changes the ring or the pool, and one for all
others. The arithmetic of the full test is in `EmptyNeverLooksFull`,
`FullLooksFull` and `LooksFullExact`: an empty ring never looks full, a full
one always does, whatever 2^32 leaves. `ReaderLives` counts: live slots are
mapped one to one to nodes, so the nodes outside the free list number at most
the packets in the ring and the two in the threads' hands.

`FifoImplemented`, its second part, is the refinement: every step of the
relay is a step of RelayFifo or a stutter, for every ring, pool and number of
packets. The queue of the abstract buffer is the packets in the slots from
`head` to `tail` (`Positions`, `QueueOf`); `PutStep`, `GiveUpStep` and
`TakeStep` say what happens to it, and `NumberInv` that the packet on its way
into the ring is the last one that was read. Where the length divides 2^32 the
strict buffer is implemented, which gives up its oldest only when it is full.

`GnssMempoolProofs` proves `FreeListKept` and `PoolImplemented`: for any threads
and any number of nodes the links run through exactly the free nodes, and the
list implements NodePool. The invariant has a witness of the list as a sequence
without repetition (`IsFreeList`); a get takes its head off and a return puts
one before it. `RoomForReturned` counts: a node being returned is not in the
list.

The third part of `RelayProofs` brings both together, for nodes numbered from 1
on (`RelayPoolAssumption`, which the first two parts do not use; the code numbers
its nodes so). `BothInv` is the invariant of the relay,
that of the pool, and `PoolAgrees`. From it follow `PoolRefinesRelay` (every
step of the composition is one of TransferRelay), `Agreement`, `FreeListKept`
and `PoolImplemented`.

`XiheStreamProofs` proves, for every buffer of at least two packages, every set
of good frames of 6 bytes to a package, and anything else the servers may send
(`StreamAssumption`):

- `TypeCorrect`, `RoomKept` (`RoomToReceive`) and `SocketsSafe` (`SocketsKept`)
  from `SafeInv`, which adds `RoomInv`: when the parse loop is left, fewer bytes
  than a package are unparsed, so the compaction makes room for a whole one.
- `NothingLost` (`CleanStreamParsed`). `FrameInv` says that the stream is the
  frames one after the other, `ParsedInv` that the buffer goes on exactly behind
  the last one parsed and that, when the loop is left, the next has not been
  received whole. The heart is `CleanFrame`: on a clean stream the scan for 0xD3
  stops where it begins, and the length it computes is the next frame's, so the
  branches for bad and oversize frames are never taken.
- `FrameLengthExact`: when the computed length is right.

`SerialParserProofs` proves, for every length of a line, a message, a read and
the port (`SerialAssumption`), `TypeCorrect` (`TypeOK`) and `EveryFixHeard`
(`FixesHeard`). That `due` never falls below 0 and is 0 when everything is read
is not inductive: one has to know which of the unread bytes will be heard as
positions. `Told` therefore splits what was said into messages of three or four
bytes, with where each begins, the mode the parser is in and the positions
reported up to each, and `Hearing` says that the parser is `j` bytes into the
`p`-th of them, that what is unread goes on from there with nothing else behind
it unless there was noise, and that `due` are the positions of those that are
left. `ParserAt` is the state of both automata within a message. `ParserMoves`
is the heart: byte by byte each message is heard, a line in raw mode is not,
and the last byte of a message leaves `is_nmea`, the index and the message
buffer as the next one needs them. A message more is `OneMore`, a byte less is
`OneLess`, noise behind the messages is `Longer`; when the parser is at rest,
the messages begin anew (`RestHears`, which needs `RestInv`: outside raw mode
the message buffer is empty). `Told` is a witness in the proof and no variable,
so TLC has no part in checking this invariant; the property itself it checks in
the run `serial`.

`LocHandleProofs` proves, for any number of calls, observations and
corrections, `ThreadsEndFirst` (`NoThreadOnFreedContext`) and `NoneUsedTwice`
(`FlaggedIsUnused`). `JoinInv` says which threads have ended at each join, and
that the context is there until the last one; `MailInv` that the observation in
the mailbox is never older than the one used last. `ThreadStep` is the one
argument for all the steps that leave the mailbox alone. `MutexInv` says that a
thread holds `data_mutex` wherever it counts on it, unless it was released under
its holder; without that premise `FlaggedIsUnused` is false.

`LocInterfaceProofs` proves, for any number of events, `NoEventSleptOn`
(`NoSleepOnEvent`) and, without spurious wake-ups, `NothingRepeated`
(`NoRepeat`). `NewInv` orders the three numbers: what was delivered, what was
taken, what was posted; a thread that was woken finds the status set, which is
why looking at it once suffices there.

`InsLogicProofs` proves, for any clients, any lists of them that respect
`InsAssumption`, and any number of fixes:

- `TypeCorrect`, `ClientsKeepTheirServers` (`OwnServer`), `DescriptorsKept`
  (`NoDescriptorLost`): the reconnections of two threads never mix or lose
  descriptors, although no lock protects them;
- `FixesAreNew` (`FlaggedFixIsNew`), if no fix comes before `gps_mutex` is
  initialised.

`OwnServer` is not inductive: a close must hit a descriptor that only the
closing client has, and a client between its close and its next socket has a
number that means nothing. `ThreadInv` says what each thread may be sending:
only its own clients (`TodoInv`), and nobody sends before every client is
started (`StartInv`). From it `OneThreadPerClient` and `SenderHolds` follow: a
client in `zy_tcpclient_send` is a holder exactly when it is not at "socket".
`NewDescriptor` is the one argument for a first start and for a reconnection: a
free number is no holder's. For the fixes, `FixInv` ties `gps_mutex` to the two
steps of the report thread that it protects; that `InitMutexes` cannot undo it
is where the assumption is needed.

`ChannelServerProofs` proves, for every size of the pools and every number of
connections (`ZyMempoolAssumption`, `ChannelAssumption`):

- `TypeCorrect` (`TypeOK`) and `ListsAlwaysSound` (`ListsSound`): both circular
  lists of both pools stay sound;
- `NodesAndConnections` (`NodePerConnection`): nodes in use and open connections
  are one to one;
- `BroadcastsReach` (`BroadcastReachesAll`): the walk of a broadcast along the
  list it takes the failed peers out of misses nobody and repeats nobody;
- `PoolsImplemented` (`ImplementsPools`): each step is one of NodePool or a
  stutter, for both servers.

The model walks the lists as the code does, with a recursive function, and
`PoolSound` speaks of the nodes that walk meets. Neither is handy for a step
that changes links, so the proofs keep a witness: `Ring(nx, lt, k, w)` says that
the sequence `w` of k different nodes is a circle along `next` and backwards
along `last`, and `Listed` that a pool's two lists are two such circles that
share out its nodes. `TakeOut`, `PutFirst` and `PutAlone` say what the three
groups of assignments in `zy_mempool.c` do to a circle, `Move` puts them
together for a node that goes from one list to the other, and `GetListed` and
`ReturnListed` are `zy_mempool_get_node` and `zy_mempool_return_node`.
`WalkMeets` is what brings the walk back: k steps along a circle of k places
meet its members and nothing else. It needs an induction over the steps, which
the library's induction theorems do not give here, since they take an operator
as a parameter. `UpTo` gives one over a set of numbers instead, from the least
element of a set (`LeastOf`) and the well-founded order of the numbers.

`IInv` adds to the properties `NodeInv` (a node that is not in use has no
descriptor or one closed long ago, so that only the nodes of the use list count),
`WatchInv` (epoll watches open connections only), `BacklogInv` (a waiting
connection is in one place of one backlog, so that accept does not open one
twice), `EventInv` (a batch has one event for a node at most, and the node is in
use unless the broadcast has forgotten its descriptor) and `CastInv` (the nodes
from `peer` on along the use list are those whose connections are unwritten).
`EventInv` is where stale events are settled: `MsgEnd` leaves the descriptor's
number in the node it gives back, which is harmless only because this was the
batch's last event for that node, and the broadcast, after which there may be
one, writes -1 first. `CastInv` is kept by a failed write because
`ReturnFacts` says that returning a node leaves the links between the other
used nodes alone.

Only model-checked: every liveness property (`WF_`, `SF_` and ENABLED are
outside the prover). Every safety property of the passing runs is proved.

## Findings

1. `gnss_queue.c:48`: unsigned wrap-around makes the ring of ten look full with
   three packets in it, and a push drops a packet it has room for
   (`TenLooksFullEarly`; the `relay` run has the same early drops).
2. `iwise_net_xihe_module.c:143`: the wait loops look at `DESTROY` only after a
   wake-up; a thread that gets there late sleeps for ever and
   `iwise_loc_destroy` does not return (`handle_destroy`).
3. `iwise_net_xihe_module.c:307`: the correction is written without the mutex
   under which it is read (`handle_torn`).
4. `iwise_loc_interface.c:326`: close stores 1 where the thread ends on 2
   (`close`).
5. `zy_tcpserver.c:162`: one accept per edge (`channel_accept`).
6. `iwise_pool.c:59`: the scan for 0xD3 can leave `start` behind `end`, and the
   compaction then calls `memmove` with a negative length
   (`corrections_compaction`).

Seen while modelling, and part of the models without a run of their own: after
a short write the relay writes a whole frame length again (`transfer.c:206`); a
correction longer than `PACKAGE_SIZE` makes the parse loop spin
(`iwise_net_xihe_module.c:291`, `XiheOversize`; `DestroyReturnsIfSettled`
excepts that); the position thread unlocks a mutex it does not hold when a
wake-up finds the driver stopped (`iwise_pos_module.c:70`): if that releases it
under the hardware thread and the driver is started again, both are in the
critical section and an observation can be used that is then marked as new,
which is why `FlaggedIsUnused` asks for `~stolen`; an event that was not taken
yet is overwritten although posting it returned 0
(`iwise_loc_interface.c:236`); a peer that is reset keeps its node until a
write to it fails, which on the receiving side never happens
(`zy_tcpserver.c:173`). In the navigation program: `get_ins_data` waits without
a predicate, so a late signal delivers a sample twice and a sample stored
meanwhile is missed (`ins_main.c:266`); `gps_mutex` is initialised after the
driver that locks it was started (`ins_main.c:740`; with `EarlyFix = TRUE`,
`FlaggedFixIsNew` fails. The run has FALSE, since a first fix needs an
observation and an ephemeris received after the start, and the filter polls for
fixes only after 170 samples of calibration); `ins_gps_callback` drops every
fix with a first coordinate under 1 (`:227`); `do_send_ins` copies as many
bytes as a pointer has instead of the results (`data_parse.c:213`);
`location_callback` does not free its buffer (`zy_gnss.c:41`); a client that a
slow server makes wait (EAGAIN) is connected anew (`zy_tcpclient.c:48`). In the
correction stream (`iwise_net_xihe_module.c`): when `start` is one behind `end`
the first byte of the next chunk is skipped (`:283`); a main server on another
port than 8001 makes the thread reconnect after every `recv`, because the
extension port is compared with the port in use, and the bytes of that `recv`
are dropped (`:232`); a failed connect closes its socket and leaves the number,
which the next attempt closes again (`:86`), when it may be another thread's;
on destroy the thread ends without closing its socket (`:218-221`), which
`SocketsKept` does not exclude, since its number is still known; what is left
in the buffer stays there over a reconnection, but for the one after bad
frames; the length of a payload of 506 to 511 bytes comes out 256 too small
(`:289`). In the serial parsers: a message that yields nothing, such as one
part of an ephemeris, leaves raw mode on and the lines behind it unheard until
an observation comes (`iwise_hardware_data_module.c:196`, `framed`); the index
of the line buffer goes on when a line is given up for its length, so that the
next one is lost, and several of them run over the fields behind the buffer
(`iwise_nmea_parser.c:437`, `ParseWild`); the init clears 1000 bytes of a
smaller array (`iwise_serial_parser.c:29`); `sync_ubx` looks for the preamble
in every byte, so that a port opened in the middle of a message may take its
data for one, and with a receiver that repeats itself and a length that fits
its period the parser stays misframed for ever (`ublox.c:265-293`;
`Resynchronises` fails with `MaxRaw` of 6 when `SayMessage` has no guard. No
document promises otherwise, so the property is stated without such data). In
the channel server: an interrupted `epoll_wait` ends it (`zy_epoll.c:52`).

## Plan

1. *Done.* TransferRelay, RelayFifo, GnssMempool, NodePool, their composition
   RelayPool; proofs of safety and of both refinements.
2. *Done.* LocHandle, LocInterface, ZyMempool, ChannelServer; their runs.
3. *Done.* XiheStream and its proofs; SerialParser.
4. *Done.* TcpClients, InsLogic and InsLogicProofs.
5. *Done.* LocHandleProofs and LocInterfaceProofs.
6. *Done.* ChannelServerProofs, with the circular lists of ZyMempool.
7. *Done.* SerialParserProofs: every safety property that a run checks is proved.

## Not modelled

Most of the source lines are libraries: RTKLIB and its receivers' formats, the
PPP filter and BNC's correction decoder (floating point, no concurrency), zlog,
inih and the IMU platform code (third party). `transfer2_server` and
`transfer3_server` repeat the relay under other names. The models cover the
product's own control code, a small part of the tree by lines.

- Configuration parsers: run once before any thread.
- The serial device, the vtable and the output files: pure I/O or forwarding.
- The NTRIP thread: it is never stopped or joined and shares nothing with the
  other threads but the number of the serial descriptor, which it writes to.
- UDP discovery: one thread and one socket, and nothing is kept between
  datagrams. Its memory pool has a path of its own for the last free node, but
  the clients' pool is never asked for a node, and the events' pool once.
- Which fields a line has and what a raw message says: data. GST, GSV and RMC
  lines are lines without a position.
- SerialParser together with the mailbox of LocInterface: their composition has
  more states than a run can visit, and they meet only in the step by which a
  report posts an event; that one may come at any time is already in
  LocInterface.
- Code that nobody calls (`zy_mempool_free_node`, `zy_mempool_destory`,
  `gnss_mempool_get_node_by_index`, `gnss_mempool_destory`, `zy_tcpserver_stop`,
  `zy_tcpserver_destory`) has no action.

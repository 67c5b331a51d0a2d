# UDSP socket: a TLA+ model

UDSP carries packets of any size over UDP in up to 256 streams per direction.
Within a stream packets are numbered, put in order by the receiver and, if the
stream is reliable, acknowledged and repeated. A network thread per socket keeps
connections alive, shares the channel between streams by priority, searches for
the path MTU and adapts the speed. This directory models these parts, checks
them with TLC and proves what matters most with TLAPS.

File and line numbers refer to `src/UdspSocket/`. `PROJECT.json` maps every
definition to the lines it stands for and lists the hazards the properties are
about.

## The system and its model

| Part | Code | Model |
| --- | --- | --- |
| packet ids, comparisons across the wrap | `Impl.hpp` 288-337 | `PacketIds` |
| receiving half of a stream | `Impl.hpp` 248-421, `Stream.cpp` 181-252, 650-918, 972-1018 | `RxStream`, `RxProofs` |
| sending half of a stream | `Impl.hpp` 193-219, `Stream.cpp` 123-172, 253-323, 463-604, 627-649, 919-965, 1020-1051 | `TxStream`, `TxProofs` |
| what a stream promises | `src/README.md` 74-80 | `OrderedDelivery` |
| both halves and the network | `Connection.cpp` 104-136, 689-705 | `Stream`, `StreamProofs` |
| search in the sending fifo | `Connection.cpp` 72-102 | `FindPacketIdx`, `LoopProofs` |
| chunks in a datagram | `Impl.hpp` 104-181, `Connection.cpp` 104-150, 689-705, sizes in `Stream.cpp` | `Datagram`, `LoopProofs` |
| stream priorities | `Stream.cpp` 62-97, 264-461, `Impl.hpp` 220-246 | `Priorities`, `PriorityProofs` |
| connection life cycle | `Impl.cpp` 24-131, `Connection.cpp` 199-284, 509-583, 722-775 | `Session`, `SessionProofs` |
| threads, mutex, commands, callbacks | the same and `Stream.cpp` 123-172, 1053-1094 | `Impl`, `ImplProofs` |
| path MTU search | `Connection.cpp` 47-53, 173-190, 303-332, 651-658, 706-709 | `PathMtu`, `ControlProofs` |
| transmission limit and loss | `Connection.cpp` 47-70, 372-388, 585-686, 720-761 | `Traffic`, `ControlProofs` |

The parts interact in few places. `process()` receives datagrams, takes the
mutex for `process_ts` (commands, timeouts, erasing), then writes packets for
every connection. A packet has a header (round trip, loss, path MTU answer) and
chunks of streams. `Impl` has the threads, `Session` the two ends of connections,
`Stream` what the chunks do, `Datagram` how they are laid out, `PathMtu` and
`Traffic` what the header does. Each is checked with the others left open: where
one part decides when another acts, the other may act at any time.

### Streams

`RxStream` has the fifo (`rxFifo`), `frontPacketId`, `isNew`, the waiting acks
and a log of the calls of `onReceived`. `ReadChunk` is `readChunk` for the three
data chunks. `WriteAcknowledge`, `WriteRepeatInfo` and `WriteNoMeta` are the
outcomes of `writeMetaChunk`. Each runs `processRxFifo` where the code does.

`TxStream` has the queued commands, the fifo, the cursor `packetFifoIdx`,
`nextPacketId` and a log of the calls of `onDelivered`. `Send` is `send_ts`,
`DoCommands` is `doCommands`, `WriteDataChunk` and `WriteNoData` are the outcomes
of `writeDataChunk`, `ReadAcknowledge` and `ReadRepeatInfo` the rest of
`readChunk`.

`Stream` joins them by a set of chunks in flight. A chunk is lost when it is
sent, stays in flight for any time, and may be delivered twice if `Duplicates`.
`OrderedDelivery` says what the two applications may rely on, in terms of packets
only: ends of packets are reported in order and once each, and the sender of a
reliable packet hears `'s'` only when the receiver is through with it.
`StreamKeepsPromise` is its specification under the mapping `sent <-
nextPacketId`, `through <- SettledIds`, `received <- rxLog`, `reported <- txLog`.

`FindPacketIdx` is `findPacketIdx`, one action per turn of its loop, on any run
of consecutive ids, which is what `send_ts` appends and `processTxFifo` pops.
`TxStream` uses the index it returns.

Abstractions:

- **Time.** A packet is `timedOut` or `expired` once its `timeout_us` has
  passed, at any moment. The code tells "passed" by `<=` in one place
  (`Stream.cpp` 298) and by `<` in another (1029); the microsecond of equality is
  taken as passed in both.
- **Choices by RTT.** Whether a packet rests and whether the cursor returns to
  the front depend on the RTT: both are nondeterministic. So is the receiver's
  cursor `packetIdx`.
- **Data.** Sizes are in units; the receiver records which units it holds.
- **Loops.** A loop that pops a fifo is one step that pops the first `k`
  packets, for the `k` at which the loop stops. `FrontAfter` gives `frontPacketId`
  after that in closed form, exact while a fifo spans less than half of the ids.
- **One stream.** The code keeps one list of acks per connection; here it holds
  the acks of one stream. The callbacks are set.

### Datagrams

`Datagram` is one datagram from `writePacket` to the loop of `onUdpReceived`.
`WriteMetaChunk` and `WriteDataChunk` append a chunk that fits, `ReadChunk` takes
one. A chunk has its type and up to two numbers, each written in the number of
bytes `getNumberOfBits` says, with the remainder modulo that width stored. The
widths are constants (`Max_u8` ...). Which packet a chunk is about is left out;
`EndData` may fill the datagram up with zeros, as in a test of the bandwidth.

### Priorities

`Priorities` has the map of streams, the vectors `update` builds from it, the
index of the stream whose turn it is, and the bytes sent per priority.
`WriteDataChunk` is one call: the streams that have a packet are an input, so is
the size of the chunk, and products are taken modulo `UINT32_MAX + 1`. `Orders` are
the orders in which an `unordered_map` may list some streams, so `Updated` is the set
of what `update` may build. There are finitely many streams (an id is a `uint8_t`). A change of reliability alone, which
sets `isStreamsChanged`, is an input of `SetTxStreamPriority`.

### Connections

`Session` has some clients and one server. A connection is its
`connectionId`, its age since the last packet, the ticks until it is erased, and
the id left in `txBuffer`, which is what a Disconnect is sent with. A tick is a
keep-alive period. While `conditions` are bad datagrams are lost, repeated and
delayed and programs are stopped or killed and restarted; once they are good
nothing of this happens. A packet that ends a window of packets is answered at once
(`Connection.cpp` 729-775); any packet may be such a one, but in good conditions
none is, so that a period ends. Random ids do not collide (`IdsInUse`).

`Impl` has the two threads of one socket with one connection. The steps of the
application's thread are the parts of its calls between which the network thread
may run; those of the network thread are `onUdpReceived`, the parts of
`process_ts`, and the loop after it. The callbacks a step makes are listed in
`todo` and called one by one; in those of `SendsIn` the application may call
`send`, which takes the mutex. Where the code touches `commands` or the streams
without the mutex while the other thread does, the outcome is either order or
`crashed`. When a packet is acknowledged or times out is open; packets are
acknowledged in order, since the order is the subject of `TxStream`. It is assumed
that the application uses no `Connection*` after `disconnect()` or
`onDisconnected`, as the example client does, and that no call of `send` takes the
two seconds between the loss of a connection and its erasure. The latter is
`NoCallLastsTwoSeconds`, a guard of `Erase` that stands for no condition of the
code: the two seconds are all the code has to ensure it. Whether `onReceived` with
`'d'` is among the callbacks of a lost connection depends on the receiving streams,
which `Impl` leaves open.

### Path MTU and traffic

`PathMtu` has a prober, an answerer and the sizes of probes and answers in
flight, for a path that does not change. `ProcessProbe` is what
`processConnection` does when the timer is due, `Silence` and `PartialReset` are
`partialReset` with and without a probe at once. `isClean` is a history variable:
every probe of this search that fits the path was answered before the next one.

`Traffic` is one direction: `ReceivePacket` computes the loss of a window,
`HeaderReceived` takes the loss and the round trip and moves `txLimit_B_s`.
Whether a round trip is too long, and whether `nextRTTProbe_us` has come, are
inputs. A header carries the current loss of the receiver, and packets arrive in
order: the code says itself that reordering falsifies the loss
(`Connection.cpp` 726-728).

## Runs

| Run | Checks | Distinct states |
| --- | --- | --- |
| `halves` | `RxTypeOK`, `RxInOrder`, `RxConsecutive`, `RxAcksSettled`, `RxFrontAdvances`; `TxTypeOK`, `TxReportsInOrder`, `TxNothingLost`, `TxEventuallyReported` | 22,731 |
| `stream` | `FrontIsTrue`, `StreamKeepsPromise` | 238,041 |
| `stream_repeat` | `NetTypeOK`, `OffsetsInPacket`, `ConfirmedIsSettled`, `SettledIsConfirmed` | 29,990 |
| `loops` | `FindsPacket`, `IndexesInFifo`, `FindEnds`, `FitsPMTU`, `ReadsBack` | 84,912 |
| `priority` | `VecMatchesMap`, `TurnComes`, `SharesKept`, `RealtimeShareKept` | 88,924 |
| `control` | `PMTUFitsPath`, `SearchIsExact`, `SearchEnds`; `LossIsTrue`, `ProbingAfterBadRun`, `LimitRecovers` | 302,201 |
| `session` | `SessionTypeOK`, `ServerToldInTurn`, `ConnectionRecovers` | 137,717 |
| `impl` | `SendsAccounted`, `SharedStateGuarded`, `CallsUseConnection`, `CallbacksUnlocked`, `CallsReturn` | 62,235 |

What they show, and why the bounds are enough:

- `halves`: `RxStream` and `TxStream` side by side, each with any input. They share
  no state, so in a behaviour only one of them moves. The receiver has two packets
  of one and two units with a threshold of one, so that packets with and without a
  copy meet, and every chunk in every order; `UINT32_MAX` is 15, so that a quarter
  of the ids is 3. The sender has a window of one, so the cursor meets its limit,
  both reliabilities and packets in pieces.
- `stream`: three packets, hence a hole with packets on both sides and a receiving
  fifo that overflows, two chunks in flight that overtake each other, and both
  reliabilities. Of `rxLog` only the last end of a packet is compared between
  states (`VIEW`): no guard reads the log, and since ends so far are in order, a new
  one that is above the last is above all.
- `stream_repeat`: one packet of three pieces, so that one in the middle can be
  missing, duplicates included. `SettledIsConfirmed` says that a lost ack is made
  good: a reliable packet the receiver is through with leads to `'s'` or to the
  sender's timeout, because chunks that come again are acknowledged again. With one
  packet there is no hole before it; a complete packet of pieces behind a hole is
  not acknowledged again until the hole is filled or given up, which this run does
  not show.
- `loops`: `FindPacketIdx` on every fifo of consecutive ids of a 4-bit id space,
  the empty and the full one included; `Datagram` on path MTUs at which a chunk
  just fits or just does not, with widths scaled so that every number of bytes
  occurs. The two share no state, so each is explored with the smallest input of
  the other.
- `priority`: three streams over four priorities, chunks of 25 and 50 bytes, 175
  bytes a second, counts that wrap at 15000 / 100 bytes. So a realtime stream
  passes 98 % and the pseudo-random choice is made, and with High, Medium and Low
  competing each is chosen, Low once the others have their percentages. `SharesKept`
  and `RealtimeShareKept` are about seconds without a wrap; the code wraps at 42.9 MB
  of one priority, which a second at the 70 MB/s `src/README.md` mentions exceeds. `TurnComes` allows one turn more than a round:
  an index that survives a rebuilding may give the first stream two turns.
- `session`: one client and a server with two ids to draw; a timeout of two and an
  erasure of one period keep the order of the code's 4 s and 2 s. With one client
  `ConnectionRecovers` does not show that clients do not share a connection;
  `shared_id` shows that they may.
- `impl`: three sends from either thread, as a client and as a server.
- `control`: `PathMtu` and `Traffic`, of which again only one moves in a behaviour.
  The search has steps 8, 4, 2 and two tries; a path just above the base size and
  one just too small for the first step; two sizes in flight in each direction and
  one reset. The traffic has windows of two packets, eight packet numbers, three bad
  round trips to start a search and two to end it.

Deadlock is not checked where the system may rest: a stream with nothing to send,
a search that has returned, a socket that was stopped.

**Fairness.** `TxFairness`: `doCommands` and `writeDataChunk` run again and again
and time passes; `process()` runs `process_ts` in every turn and `writePacket` at
least once per keep-alive period. It is assumed that a datagram is not filled by
acks for ever; nothing is assumed of the network. `FairSpec` of `Stream`: of the
data that is sent again and again, and of the acks, not all are lost, and chunks in
flight arrive; no packet has to time out. The code repeats data and acks for just
such a network: over one that loses every ack nothing is ever confirmed.
`FindFairSpec` and `LoopsSpec`: a function that is called runs on. `PathMtu`: a due timer is served. `Traffic`:
packets are sent, headers of the peer keep coming (its keep-alives), and a round
trip under measurement is answered in the end. `Session`: both threads run,
datagrams arrive once conditions are good, and the application calls `connect`
while it is not connected, as the example client does. `Impl`: strong fairness for
whoever waits for the mutex, which the network thread leaves for up to 10 ms in
every round; datagrams do not keep it in `onUdpReceived` for ever.

### Where the code and its documentation disagree

Four runs end in a violation:

| Run | Property violated | What happens |
| --- | --- | --- |
| `piece_gap` | `DeliveredWhole` | `offset_B` is overwritten before it is copied to `offsetRepeat_B`, so the lost piece is never asked for, and the packet is reported with `'s'`. |
| `shared_id` | `OneClientPerConnection` | Clients that have lost their connections send with `connectionId` 0. The server makes one connection of them, with the address of the first. |
| `callbacks` | `SendsInCallbacksReturn` | `onDelivered` and `onReceived` with `'d'` are called by `process_ts` with the mutex held (`Stream.cpp` 1064, 1084), so that a `send` in them waits for its own thread; the NOTEs at `UdspSocket.hpp` 58 and 65 name `onDisconnected` only. |
| `confirmed` | `ConfirmedIsDelivered` | The receiver gives up a missing reliable packet and reports `'t'` (`Stream.cpp` 999). The late retransmission is acknowledged (690), and the sender reports `'s'`. |

Two more configurations of the same models show what a reader should know:

| Configuration | Property violated | What happens |
| --- | --- | --- |
| `MCStreamPieces` (`MCStream`) | `PiecesInOrder` | Pieces of an unbuffered packet are handed over (`Stream.cpp` 889) before an earlier packet that waits in the fifo. |
| `MCStreamWrap` | `RxConsecutive` | At the wrap `emplace` appends the last id of the fifo once more (`Impl.hpp` 370). |

Met while modelling and visible in the models without being violations: the
expected count across the wrap of packet numbers is one short
(`Connection.cpp` 745), which `LossIsTrue` allows for; a Disconnect of a stopped
server carries the connection's id, by which a client does not find its
connection, so that the client learns of it by timeout; `commands.clear()` at a
Disconnect and `connect()` with another address race with the other thread
(`SharedStateGuarded` names both).

## Proofs

Every invariant, action property and refinement that a passing run checks is also
a theorem. All hold for every value of the constants that the modules'
assumptions admit, and so for any number of packets, chunks in flight, streams,
clients and calls; an assumption a theorem adds to those is named here.

| Module | Theorem | Statement |
| --- | --- | --- |
| `RxProofs` | `RxTypeCorrect` | `RxSpec => []RxTypeOK` |
| | `RxInvariant`, `RxOrder`, `RxFifoConsecutive`, `RxAcknowledged`, `RxFrontMonotone` | `RxSpec => []RxInv`, `[]RxInOrder`, `[]RxConsecutive`, `[]RxAcksSettled`, `RxFrontAdvances`, assuming `NoWrap` |
| `TxProofs` | `TxTypeCorrect`, `TxOrder`, `TxComplete` | `TxSpec => []TxTypeOK`, `[]TxReportsInOrder`, `[]TxNothingLost`, assuming `TxNoWrap` |
| `StreamProofs` | `StreamInvariant`, `StreamNetType`, `StreamFrontIsTrue`, `StreamOffsets`, `StreamConfirmed` | `Spec => []StreamInv`, `[]NetTypeOK`, `[]FrontIsTrue`, `[]OffsetsInPacket`, `[]ConfirmedIsSettled`, assuming `StreamNoWrap` |
| | `StreamReceives`, `StreamSends`, `StreamPromise` | `Spec => RxSpec`, `TxSpec`, `StreamKeepsPromise`, assuming `StreamNoWrap` |
| `LoopProofs` | `FindCorrect`, `FindInBounds` | `FindSpec => []FindsPacket`, `[]IndexesInFifo` |
| | `FindHalves` | a turn of `findPacketIdx` returns or leaves at most half of the indexes |
| | `DatagramFits`, `DatagramReadBack` | `Spec => []FitsPMTU`, `[]ReadsBack` |
| `PriorityProofs` | `Shares`, `RealtimeShare` | `Spec => []SharesKept`, `[]RealtimeShareKept` |
| | `VecUpToDate`, `Turns` | `Spec => []VecMatchesMap`, `[]TurnComes` |
| `SessionProofs` | `SessionInvariant`, `SessionType`, `ServerTold` | `Spec => []SessionInv`, `[]SessionTypeOK`, `ServerToldInTurn` |
| `ImplProofs` | `Guarded`, `CallbacksRunUnlocked`, `PointersLive`, `Accounted` | `Spec => []SharedStateGuarded`, `[]CallbacksUnlocked`, `[]CallsUseConnection`, `[]SendsAccounted` |
| `ControlProofs` | `PMTUSafe`, `PMTUExact`, `CodeIsExact` | `Spec => []PMTUFitsPath`, `[]SearchIsExact` if the steps halve to the last one; the third for 128, 4 and 3 tries |
| | `TrafficLoss`, `TrafficProbing` | `TrafficSpec => []LossIsTrue`, assuming `NoLap`; `TrafficSpec => ProbingAfterBadRun` |

**Receiving half.** `NoWrap` keeps the ids that arrive in the first quarter of the
id space; `MCStreamWrap` shows that the consecutive fifo is lost at the wrap. None
of the properties is inductive. That reports are in order rests on every reported
id lying below the first id of the fifo, or below `frontPacketId` if it is empty,
and on the fifo being consecutive and not starting after `frontPacketId`. `RxInv`
is the conjunction of these facts and of what is known of the waiting acks; each
handler preserves it on the fifo that `get` returns, and `processRxFifo` on any
fifo that satisfies it.

**Sending half.** `TxInv` says that reports are numbered from 0, the fifo
continues them, and `nextPacketId` continues the fifo. `processTxFifo` only moves
packets from the head of the fifo to the end of the reports, so it is proved once
and used by every action. `TxNoWrap` bounds the packets by the id space.

**Stream.** `StreamNoWrap` is `NoWrap` and that no more packets are sent than the
receiver has ids for. `StreamInv` joins `TxInv` and `RxInv` by what is true of
everything under way (`InFlight`). A chunk is about a packet that was sent and a
position inside it. A chunk with `isFront` has only reported packets before it. An
ack is of a packet the receiver is through with. These facts last while a chunk is
delayed or repeated, because reports and settled packets only grow. Two
predicates carry the invariant through the handlers. `SoundHalf` says of the
sender that a reliable packet is acknowledged, or reported with `'s'`, only if the
receiver settled it. `Knows` says of the receiver that it holds only packets below
a bound, asks only for positions it was told of, and takes no settled packet back.
`StreamStep` then shows that every step keeps `StreamInv` and is a step or a
stutter of `RxStream`, of `TxStream` and of `OrderedDelivery`; so all that is
proved of the halves holds in a stream.

**Search.** An id the fifo holds stays between the two ends (`Bracketed`), which
rests on `Halves`: of the two halves one does not wrap, and the comparison with its
ends decides. `FindHalves` bounds the turns by the binary digits of the size.

**Datagram.** `DatagramInv` says that the chunks lie one after another from the
header to `offset_B` (`Chain`), that each says what was meant and that those read
are a prefix. A piece fits since it is computed for a size of two bytes and a
smaller one takes less room.

**Priorities.** `ShareInv` adds to the two share properties that nothing has been
sent before the first choice of a second. The step is arithmetic: a priority is
chosen only if the integer quotient is below its percentage (`DivBelow`), or if all
others that compete have theirs. `TurnInv` is about turns: while the vectors are
up to date, the times a stream was passed over and the turns until it is asked
first (`Distance`) together do not exceed the size of its vector, and an index
past the end of the vector, left from before a rebuilding, finds all streams at
the start of their waiting. `TurnComes` allows for the one turn that such an index
costs.

**Connections.** `SessionInv` says that datagrams and connections are between a
client and the server, and that a connection of the server waits to be erased
exactly if its application was told `onDisconnected`. So no step can tell the
application twice, or erase what it was told of without telling it.

**Threads.** `MutexInv` ties the mutex to the places of the threads, `ListInv` and
`TodoInv` say which callbacks may be due where, `LifeInv` ties the application's
pointer to the connection: while it may be used the connection exists, and of a
server's connection that waits to be erased it is used no more or the loss is among
the callbacks due. `CallbacksRunUnlocked` follows from where the network thread is
when a callback is due: with the mutex held it is at the places of `process_ts` that
make the callbacks of a lost connection and no others. `AccountInv` says that a packet is
in one place at a time: being sent, in `commands`, in a stream, among the
callbacks due, or reported. It also says that a packet in none of these was sent
before the application stopped the socket, connected elsewhere or was told of the
loss (`excused`), or that this callback is still due. A connection of a server
that waits to be erased, with this callback made, has every call so far excused.

**Path MTU.** `SizesCrossed` says that every size in an answer, stored or under
way, has crossed the path. `Narrowed` says that in a clean search the last probe
is the one for the current step, or has just been answered, so a step is given up
only for a size that does not fit.

**Traffic.** `LossInv` follows the number of the last packet received: it is the
processed one plus what was received and lost since, modulo the numbers, and in the
window the receiver believes in. One case is apart: when the processed packet is
the last one before the wrap, the first one after it opens a window and nothing is
computed. `NoLap` says that a window and a run of lost packets fit in half of the
numbers (the code has windows of 8 packets and 32-bit numbers). `ProbeInv` ties
`RTTCount` to the bad round trips in a row while no search is under way.

**Only model-checked:** liveness, because it rests on fairness, and with it on
`ENABLED`, which the prover does not reason about: `TxEventuallyReported`,
`SettledIsConfirmed`,
`FindEnds`, `SearchEnds`, `LimitRecovers`, `ConnectionRecovers`, `CallsReturn`. Of
`FindEnds` the measure is proved (`FindHalves`), of the others nothing. The
theorems with `NoWrap`, `TxNoWrap` and `StreamNoWrap` say nothing of ids at the
wrap, where `RxConsecutive` does not hold.

## Not modelled

- **Clocks and floating point.** `SmoothModelHolt` (`Impl.hpp` 42-76), the pacing
  of a round by the time since the last one (`Connection.cpp` 334-370), the RTT
  value itself. A measured round trip of 0 counts as 400 us (588) and may become a
  `minRTT_us` no later round trip comes near; the comparison is an input of
  `Traffic`.
- **Statistics for the application** (`Connection.cpp` 390-505). Nothing depends on
  them. `txCount_B_s` counts packets sent at 773-774 twice.
- **A path that changes.** `PathMtu` has no path that shrinks. The code meets it by
  `partialReset` after two seconds of silence only.
- **Streams across a reconnection.** A server that times out alone numbers its
  packets from 0 while the client keeps `frontPacketId`. `Stream` and `Session`
  together would show it; each alone fills the time of a run.
- **More than one connection in `Impl`**, `listen()` on a socket in use, and the
  migration of a client to another address (a TODO at `Connection.cpp` 564).
- **Undefined behaviour in memory.** `Stream.cpp` 493 writes to a packet that
  `processTxFifo` may have destroyed; `disconnect()` reads the map of connections
  before it takes the mutex.
- **The operating system's sockets** (`UdpSocket.*`), except what they do to
  datagrams and the loop of `UDPSocket::process`; getters and setters of
  `UdspSocket.hpp`; tests and example programs.

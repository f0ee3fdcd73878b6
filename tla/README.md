# A TLA+ development of GoVPP

GoVPP is a Go client for the binary API of VPP. This directory models the parts
of it that are concurrent and have to stay correct while VPP is slow, hangs,
dies and comes back: package `core`, the adapters below it that talk to VPP
through a socket and through shared memory, and the packet rings of gomemif. TLC
checks the models on small instances; TLAPS proves many of their invariants for
every size.

## 1. Inventory

| Component (source) | State | Operations | Talks to | What is hard |
|---|---|---|---|---|
| request context (`core/request_handler.go`) | none | pack, unpack, `compareSeqNumbers`, `nextSeqNum` | every request and reply | 16-bit wrap-around |
| API channels (`core/channel.go`, `request_handler.go`, pools of `connection.go`) | pooled `Channel` objects (ID, sequence number, two Go channels, delayed reply, timeout), map of channels, ID pool | `NewAPIChannel`, `SendRequest`, `SendMultiRequest`, `ReceiveReply`, `SetReplyTimeout`, `Close`, `watchRequests`, `msgCallback`, `Reset` | adapter (`SendMsg`, callback) | one goroutine per channel, one shared reader goroutine, a goroutine per returned object, recycling while replies are outstanding |
| connection loop (`core/connection.go`) | `vppConnected`, `healthCheckDone/Exited`, counters, event channel | `AsyncConnect`, `connectLoop`, `healthCheckLoop`, `Disconnect` | adapter, an API channel of its own, the program through `connChan` | timeouts against late replies, outages, `Disconnect` at any time |
| notifications and watchers (`core/channel.go`, `stream.go`, `request_handler.go`) | map of subscriptions, a Go channel each, a goroutine per watcher | `SubscribeNotification`, `Unsubscribe`, `WatchEvent`, `Close`, `sendNotifications` | reader goroutine, program | closing channels that another goroutine sends on; cancellation |
| API trace (`core/trace.go`) | installed trace, WaitGroup, bounded buffer, records | `NewTrace`, `Close`, `Clear`, `GetRecords`, `registerNew`, `send` | `processRequest`, `msgCallback` | two uses of the trace per request, replacement, blocking under a lock |
| streams (`core/stream.go`) | a pooled `Channel` and timeout each | `NewStream`, `SendMsg`, `RecvMsg`, `Invoke`, `Close` | as API channels, without the request goroutine | recycling; replies are not compared with requests |
| statistics connection (`core/stats.go`) | event channel, cached directories, goroutine `monitorSocket` | `AsyncConnectStats`, `updateStats`, `Disconnect` | statsclient, the program | retries; closing the event channel against the goroutine |
| statsclient (`adapter/statsclient`) | mapped segment, `accessLock`, goroutine that watches the socket file | `PrepareDir`, `UpdateDir`, `Connect`, `reconnect`, `Disconnect` | VPP through shared memory | reads without a lock against VPP's updates; unmapping under a reader |
| socketclient, tcpclient (`adapter/`) | socket, buffered reader and writer, `writeMu`, `quit`, reader goroutine | `Connect`, `Disconnect`, `SendMsg`, `readerLoop` | VPP, `core` | several writers, partial reads, a reader across reconnects |
| gomemif (`extras/gomemif`) | rings in shared memory, eventfd, control channel | `WritePacket`, `ReadPacket`, `Tx_burst`, `Rx_burst`, `Refill`, handshake | peer process | 16-bit cursors, two processes without a lock |
| proxy (`proxy/`) | connections, stream table | RPC handlers, connection watchers | `core`, net/rpc | a watcher replaces the connection under the handlers |
| codec (`codec/`) | none | encode, decode | everything | layout, lengths |
| mock adapter (`adapter/mock`) | queues of prepared replies | test double | `core` in tests | - |
| libmemif (`extras/libmemif`) | in a C library | cgo wrapper | libmemif | - |
| binapigen, binapi, cmd, examples | none worth a state machine | generator, generated code, front ends | - | - |

How they interact. A program calls an API channel or a stream, which puts a
context (channel ID, multipart bit, sequence number) on the message and gives it
to the adapter, which writes it to the socket under `writeMu`. The adapter's one
`readerLoop` reassembles what VPP sends and calls `msgCallback`, which finds the
`Channel` of the context under `channelsLock` and hands a copy of the reply over,
or hands an event to its subscribers. The background loop of the connection
probes VPP through a channel of its own, reports to `connChan`, and disconnects
and reconnects the adapter. The trace hangs off both directions. Statistics go
another way: `updateStats` has statsclient read the shared segment, while one
goroutine of the adapter remaps it when VPP restarts and one of `core` lists it
now and then to report whether it is there.

What makes each correct: a reply reaches the request it answers or nobody; IDs
and objects are neither lost nor shared; a goroutine that serves everybody is
never blocked by one; an outage is reported, repaired or given up, and
`Disconnect` is final; a subscriber gets each event and nothing is sent on a
closed channel; tracing never disturbs what it traces; statistics are those of
one moment, and memory is mapped while it is read; messages cross the socket
whole and in order, with one reader at a time; a ring is a FIFO queue. The
places where that may fail are the `hazards` of `PROJECT.json`.

## 2. Modules

| Module | Models | Runs |
|---|---|---|
| `RequestContext` | context format and cyclic comparison, as operators over widths `SeqMod`, `IdMod` | through `ApiChannel` |
| `ApiChannel` (EXTENDS `RequestContext`) | API channels | `api_ordering`, `api_reuse` |
| `ConnectionLoop` | connection loop and health check | `connection_loop`, `connection_unwatched` |
| `Notifications` | subscriptions and watchers | `notifications` |
| `Trace` | API trace | `trace` |
| `Stream` | streams and `Invoke` | `stream`, `invoke_stale_reply` |
| `StatsSegment` | the segment, VPP's changes of it, one read of it | through `StatsClient` |
| `StatsClient` (EXTENDS `StatsSegment`) | retries, lock, reconnects, restarts of VPP around those reads | `stats_client` |
| `StatsConnection` (EXTENDS `StatsClient`) | the health check of `core/stats.go` and its `Disconnect` | `stats_disconnect` |
| `SocketClient` | the socket adapter, both ends of the socket | `socket_client` |
| `PacketQueue` | abstract: a bounded FIFO queue | `ImplementsQueue` |
| `MemifRing` | a memif ring and both its peers; implements `PacketQueue` | `memif_ring` |
| `ApiChannelProofs` (with `RequestContext`), `ConnectionLoopProofs`, `SocketClientProofs`, `StatsClientProofs`, `NotificationsProofs`, `TraceProofs`, `StreamProofs`, `MemifRingProofs` | theorems | checked by TLAPS |

Definitions keep the names of the code. Operators whose comment says "Mutant
of" are deliberate mistakes: each property is checked to fail when its mutant
replaces the definition it names.

### ApiChannel

State: per `Channel` object its fields (`id`, `reqChan`, `replyChan`,
`lastSeqNum`, `delayedReply`, `replyTimeout`) and `home`, its place in the life
cycle; per connection `channels` (the map) and `freeIds` (the queue in
`idPool`); per goroutine where it is (`watcher`, `user`, `callback`). VPP is a
queue of messages answered in order, each answer possibly missing, and a link
that drops and returns. Ghosts: every request carries a unique `tag`;
`sent`, `received`, `lost`, `sendErrors` count what happened to it. The code
never looks at a ghost.

| Action | Code |
|---|---|
| `NewAPIChannel`, `Close`, `SendRequest`, `SetReplyTimeout` | the methods of those names |
| `TakeRequest`, `RejectRequest`, `SendToVPP`, `SendFails`, `SendPing`, `SendPingFails` | `watchRequests` and the steps of `processRequest`; the request and its ping are two sends |
| `SendErrorReply`, `DropErrorReply`, `DeliverReply`, `DropReply` | the two outcomes of `sendReply`, called by the watcher and by the reader |
| `VppReplies`, `VppSendsDetail` | VPP answers, and `msgCallback` up to its lookup |
| `ReceiveReply`, `TakeReply`, `ReplyTimesOut` | `receiveReplyInternal` with `processReply`; the delayed reply first |
| `ReleaseFromMap`, `ReleasePutId`, `ResetAndPut` | the three steps of `releaseAPIChannel`, the last in a goroutine |

`replyTimeout` is "none", the default, until its user sets one; only then does
`ReplyTimesOut` happen. `NewAPIChannel` is one step: until it has stored the
object in the map nobody else knows the object or the ID. A `SendMsg` (`InSend`)
may never return.

### ConnectionLoop

State: `loop` is where `backgroudConnectionLoop` stands; `vppConnected` the
flag; `adapterOpen` the adapter's `Connect` calls minus its `Disconnect` calls;
`connChan` the event channel and `seen` what the program has read of it;
`caller` the callers of `Disconnect`; `vpp` (up, hung, down) and `link` the
outside. The loop's own API channel is reduced to the probes its watcher and VPP
hold and to its one-slot `replyChan`. Time is reduced to which timeouts can
fire: `freshReply` says that some reply arrived during the present wait of
`HealthCheckReplyTimeout`. `connectVPP` has no failure after the adapter's
`Connect`, because `retrieveMessageIDs` never returns an error.

A probe takes two steps: `ProbeTick` (the ticker, and draining an old reply) and
`SendProbe`, the send to `reqChan`. That has one slot, and its watcher one probe
in hand, so that the loop blocks at the send when the watcher is in a write that
does not return. The adapter's writes return for sure when `WritesReturn`: VPP
reads, or the connection is dead. With a hung VPP they may or may not, be it the
watcher's probe or the `sockclnt_delete` of the adapter's `Disconnect`
(`CleanupCloses`, `DisconnectCloses`). `Connect` writes to a new, empty socket.

### Notifications

State: the map as one list per message and its set of keys; per subscription
the capacity-bounded `notifChan`, whether it is closed, and for a watcher the
position and the event in hand of `watcher.watch`. `WatchEvent` is two actions
because its goroutine starts before the subscription is added. Delivery is one
action: it happens under the read lock, subscribing under the write lock, and
receivers of different channels do not affect each other. `due` is a ghost: what
an active subscriber with room has to get, computed without looking at the list.

### Trace

State: the installed trace, `traceLock` while a goroutine blocks holding it,
and per trace the WaitGroup, the buffer, the record in the collecting
goroutine's hand and the stored records. `Register`, `Record`, `send` are the
steps of `processRequest` around `SendMsg`; a multipart request does the same
again for its ping. `msgCallback` registers and records under one lock.
`SendMsgReturns` may never come.

`GetRecords` is the call up to `wg.Wait`, where it sleeps until a `Done` brings
the counter to zero (`Done`, `Woken`), the `make` (`MakeList`), and the copy with
the sort (`Copy`). Three things panic, and the program stops (`Panicked`): a
negative WaitGroup (`Overdone`); a WaitGroup that is used again before its waiter
has left (`reused`); and the sort of a list with nil records (`nilSort`). The
order the sort makes is not modelled: no property speaks of it. `QuietStart`
confines `NewTrace` to moments without a request in flight.

### Stream

State: the pool, the objects on their way to it, the map, per user the stream
it has open, VPP's queue, and the reader between lookup and send. IDs are never
reused, because the code hands out 32767 of them in turn; `ApiChannel` covers
reuse. Sequence numbers are counted per stream, which is all a reader of `got`
can tell. VPP answers a request with one to `MaxDetails` replies in a row
(`Answered`), as it does for a dump; `part` tells them apart, the code does not.

`DefaultReplyTimeout` is 0, which leaves the timer channel of `recvReply` nil.
So only `Limited` users, who set a timeout or whose context ends, have their
wait end without a reply (`RecvFails`).

### StatsSegment and StatsClient

`segment` holds, per life of VPP, the two shared words (`epoch`, `inProgress`)
and the directory; `history` is a ghost, its content for each epoch. VPP locks,
changes entries one at a time, bumps the epoch, unlocks: four actions, and it
may die between any two. A read is one action per load: `rd[x]` holds the
locals of the call, `dir[x]` the cached directory of the caller. An entry is a
name and a generation; VPP may rename it. Around that: `accessLock` (`writer`,
`locked`), `connected`, `mapped` (the life whose segment is mapped, 0 for none),
the goroutine of the socket monitor (`monitor`), the caller of `Disconnect`
(`user`), the socket file and its pending `Remove` events (`removals`). A load
through an unmapped segment stops the program (`faulted`).

| Action | Code |
|---|---|
| `Call`, `Check`, `RLock`, `RUnlock` | `updateStats` of `core/stats.go`; `isConnected`, lock and deferred unlock of `PrepareDir` and `UpdateDir` |
| `CompareEpoch`, `StartEpoch`, `StartProgress`, `ReadEntry`, `ReadFails`, `EndEpoch`, `EndProgress` | the loads in between: `UpdateDir`'s comparison, `accessStart`, the entries, `accessEnd` or `readErr` |
| `TakeRemoval`, `ReconnectLock`, `ReconnectDisconnect`, `WaitForSocket`, `ReconnectConnect`, `ReconnectFails`, `MonitorDone` | `monitorSocket` and `reconnect` of the adapter |
| `DisconnectDone`, `DisconnectSwap`, `DisconnectUnmap` | `Disconnect`, which takes no lock |
| `VppLock` ... `VppUnlock`, `VppStops`, `VppStarts` | VPP (external) |

`StatsConnection` composes this with the goroutine of `core/stats.go` that lists
the statistics now and then: its state, the event channel, and what
`StatsConnection.Disconnect` closes after the adapter's `Disconnect`.

### SocketClient

`conn` counts connections and stands for `c.conn`, `c.reader` and `c.writer`;
`sock` is the present one: pieces in flight both ways, what either side has done
to it, and the piece VPP expects next. A message is a header and `Parts` pieces
of data: a reader gets what has arrived, a writer may stop between pieces and
goes on through whatever `c.writer` then is. `buf` is the one buffer of
`readerLoop`; what its callback keeps is a copy (`own`) or a slice of it.

| Action | Code |
|---|---|
| `SendMsg`, `LockWriter`, `WritePiece`, `WriteFails` | `SendMsg`, `writeMsg` with header, data and `Flush` |
| `Connect`, `OpenReads`, `OpenFails`, `StartReader` | `Connect`, `connect`, `open`: its reply may be any message that decodes |
| `CloseQuit`, `CloseRead`, `WaitReader`, `CloseReads`, `CloseConn` | `Disconnect`, `close`, `disconnect` |
| `ReaderTop`, `ReadPiece`, `ReadError`, `Callback` | `readerLoop`, `readMsg`; the copy is the one `msgCallback` makes |
| `VppReads`, `VppSends`, `VppGoes` | VPP (external) |

`tcpclient` has the same steps. The one difference, that a TCP socket shut for
reading may still yield what the peer sends, is a branch of `CloseRead`.

### MemifRing and PacketQueue

Shared: `head`, `tail`, the descriptors and buffers (`ring`), the eventfd. Each
peer has its locals (`w`, `r`) and its own cursor (`lastRead`). Each look at a
shared cursor, each buffer copied and each move of a cursor is an action, so that
the peers interleave at every point where they can see each other. The kind of
ring, the reader's interface and interrupt mode are chosen in `Init`.
`setDescLength` writes 16 of the 32 bits of a length (`LengthSet`; `LenMod` stands
for 2^16). The steps of `Refill` are fewer than the code's: a master's `tail` and
the lengths it writes are one step. The other peer, which writes the ring, looks
at `tail` and not at those lengths, so that no order of them differs for it.

| Action | Code |
|---|---|
| `WriteStart`, `WriteBuffer`, `WritePublish` | `WritePacket`, and `Tx_burst` for one packet |
| `ReadStart`, `ReadBuffer`, `ReadRefill`, `PostHead` | `ReadPacket` |
| `BurstStart`, `BurstBuffer`, `BurstEnd`, `Refill`, `PostHead` | `Rx_burst`, `Refill` |

`PacketQueue` says what a ring promises: buffers enter behind, several at once,
leave from the front, as they were put in, never more than the ring holds.
`MemifRing` implements it: the queue is what lies between the reader's cursor and
the writer's, read from the shared memory.

## 3. What the runs show

| Run | Bounds | Result |
|---|---|---|
| `api_ordering` | 1 channel, 3 requests, 1 detail per dump, 1 fault, start number 0 or 6 of 8 (wraps), a reply timeout set or not; 1,015,376 states | no foreign reply, complete dumps, every simple reply accounted for, delayed replies kept |
| `api_reuse` | 2 objects, 3 IDs, 3 opens, 2 requests, buffers of 1, no reply timeout; 189,301 states | no foreign reply across reuse and stale pointers; IDs exclusive and conserved; `Close` gives everything back unless a `SendMsg` never returns; the reader is never stuck |
| `connection_loop` | 1 reconnect attempt, 2 tolerated probe timeouts, 3 changes of VPP, 2 callers of `Disconnect`, event channel of 1; 210,293 states | adapter opened and closed in balance, `Disconnect` final, events alternate and tell the state; VPP that stays up is really connected to again, if it is probed; an outage for good ends in Failed and `Disconnect` returns, unless `Blocked` in a write to a hung VPP |
| `notifications` | 2 subscriptions, 1 watcher, 2 messages, 2 events, channels of 1 | each active subscriber gets each event once and in order; no send on a closed channel; a watcher's events channel gets closed though nobody reads |
| `trace` | 2 traces, 3 messages, size 2, buffer 1, traces created between requests; 133,969 states | `GetRecords` returns what was in the buffer when it was called, and does return unless it panics, a message stays registered or a `SendMsg` never returns; no send on a closed buffer; requests are never blocked for ever |
| `stream` | 2 invokers, one with a limit and one without, 1 stream, 2 objects, 2 opens, 2 requests per stream, 2 answers per request; 166,391 states | objects conserved; own replies, and the details of each dump, in order and once; an `Invoke` that waits returns, and its channel goes back, if it is limited or once the reader has a reply for its channel |
| `stats_client` | 1 reader, 2 entries, 2 names, 2 lives of VPP, 1 change, 2 tries; 379,389 states | a call without an error returns one moment's directory; memory is unmapped under a reader only after a failed reconnect or in a race with `Disconnect`; calls return; the client follows a restart |
| `socket_client` | 1 sender, the connecting goroutine, 2 pieces, socket of 4 pieces, 2 connections, 2 events each; 785,757 states | VPP reads whole messages; the program gets each message whole, once and in order; one reader at a time, and one while connected; `Connect` and `Disconnect` return |
| `memif_ring` | ring of 4, cursors modulo 8, packets of up to 2 buffers, 4 packets, both directions, both interfaces, polled and with interrupts; 132,969 states | the ring is a FIFO queue; cursors never lap; packets arrive as wholes; posted buffers have their full length; what is published is read |

The bounds let each interesting case happen at least once together with
another: a wrap within three requests, or within the packets written to a ring; a
reuse of an object by a different user while an old reply is in the reader's
hand; a full buffer next to an empty one; an outage during a reconnect; two
closers at once; a record in each of buffer, hand and list; a change of the
segment that begins, or ends, at any load of a reader, and a restart in the
middle of it; a connection replaced while a sender waits for a full socket; a
ring that fills up in the middle of a packet. In `api_reuse` there are as many
IDs as opens; with fewer, `ApiChannelProofs` covers what happens. Every bound is
a guard of one action (`MaxOpens` of opening, `MaxChanges` of VPP's changes, and
so on), never a constraint on other behaviour; `MaxProbes` lets VPP forget a
probe. Deadlock checking is off everywhere: programs that have done all they are
bounded to do stop, and so does a VPP that is free not to answer.

### Disagreements with the documents

Each of these runs ends in the violation of one property:

| Run | Finding |
|---|---|
| `invoke_stale_reply` | `Invoke` may return the late reply to another, timed-out `Invoke` |
| `stats_disconnect` | after `StatsConnection.Disconnect` the health check goroutine sends its last event on the closed event channel, and panics |
| `connection_unwatched` | if no channel ID is free when the connection is up, the health check ends, and nothing reconnects when VPP has restarted |

The models contain more, without a run of its own:

* the error of a failed control ping of a multipart request is only logged
  (`SendPingFails`), where `api/api.go:94` says that errors are delivered;
* a watcher whose context ends before its subscription is added leaves that in
  the map for ever (`WatchEvent`); and the key of a message outlives its last
  subscriber, so that a reply with that ID is taken for an event
  (`isNotificationMessage`);
* `NewTrace` while a request is in flight makes a WaitGroup negative, and the
  program panics: with `QuietStart = FALSE` in place of the run's `TRUE` a state
  that is `Overdone` is reached. `GetRecords` panics in two more ways. A `Clear`
  between its two halves leaves nil records in its list, which the sort
  dereferences (`nilSort`), where `api/trace.go:25-26` says that it returns
  messages; and a message registered between the `Done` that wakes it and its
  return from `wg.Wait` is a reuse of the WaitGroup (`reused`). Both states are
  reached under the run's bounds and are part of `Panicked`. Closing a trace that
  was replaced switches its successor off (`Close` of `Trace`). A received
  message that cannot be decoded stays registered and keeps `GetRecords` waiting: that is the
  exception `GetRecordsReturns` makes, by the ghost `orphans`. Messages that
  overlap without a pause keep the WaitGroup above zero and `GetRecords` waiting:
  the bound `MaxMessages` ends them;
* `Invoke` without a deadline waits as long as VPP is silent, since
  `DefaultReplyTimeout` is 0 (`RecvFails` only for `Limited` users);
* with a hung VPP and a full socket the first probe of the health check stays in
  `SendMsg`, the second in `reqChan`, and the third blocks the loop itself, after
  two failed checks. The report needs one more than the default threshold of two,
  so that this outage is never reported and `Disconnect` waits for ever
  (`Blocked`, excepted by `GivesUp` and `DisconnectReturns`), where
  `connection.go:48` calls the threshold the "number of failed health checks
  until the error is reported";
* `WritePacket` and `Tx_burst` copy `pkt[:]`, not `pkt[n:]`, into every buffer after
  the first, so that a packet that needs several arrives as its beginning
  repeated (`CopiedFrom`), where `packet_writer.go:20-21` says that the packet is
  written. A property that compares each `from` with the bytes before it fails;
* `setDescLength` writes 16 of the 32 bits of a length (`LengthSet`), so that with
  buffers of 65536 bytes or more (`interface.go:70` allows them) a slave posts
  lengths of earlier packets: with `LenMod = 2` in `MemifRing.cfg` both
  `PostedBuffersWhole` and `PacketsFramed` fail;
* a recycled channel keeps the reply timeout its previous user set
  (`NewAPIChannel`);
* the check of epoch and `inProgress` has three windows, which the ghost `exact`
  of `EndProgress` marks and `OneEpoch` excepts: VPP ends its change between the
  two loads of `accessEnd`; the epoch moves between `UpdateDir`'s comparison and
  `accessStart`; a restarted VPP happens to have the epoch of the cached
  directory;
* a reconnect to the stats segment that fails leaves it unmapped with the
  client's `connected` cleared; a later reconnect takes that for an error before
  it tries, so that nothing connects again, where `core/stats.go:128-130` says
  that the connection loop tries to reconnect. `FollowsRestart` excepts it
  (`failed`). A reader that passed `isConnected` before that reads memory that
  is gone (`ReconnectProtected`); so does one that meets the program's
  `Disconnect`, which takes no lock; and a `Disconnect` in the middle of a
  reconnect leaves the segment mapped, where `statsclient.go:152-153` says that
  it unmaps it;
* `writeMsg` has no deadline and keeps `writeMu`: while VPP does not read,
  `Disconnect` waits behind it (`Stuck`, excepted by `UserReturns`). The modules
  above the adapter let a send be the one that does not return: `InSend` in
  `CloseReleases`, `Blocked` in `GivesUp` and `DisconnectReturns`,
  `[](pc[s] = "sending")` in `GetRecordsReturns`. A sender
  that waits there while the connection is replaced goes on with the rest of its
  message on the new one (`straddled`, excepted by `Framed`);
* `Rx_burst` clears the eventfd after its look at the cursor, so that a packet
  published in between waits for the next interrupt (excepted by
  `EventuallyRead`), and it ignores chains: each buffer counts as a packet
  (`PacketsFramed` is about `ReadPacket`). A master's `Refill` also writes
  lengths into descriptors the slave has published (why `PacketQueue` leaves
  lengths out). `Tx_burst` looks at the free slots once and does not count those
  its earlier packets took: with `TxBurst = 2` `RingInvariant` and
  `ImplementsQueue` fail, so the run keeps to bursts of one.

### Fairness

Goroutines that can run do run, and timers fire: weak fairness of each goroutine's
steps. Strong fairness stands for promises of the Go runtime: a `select` with
several ready cases picks at random, so a closed `healthCheckDone` or a finished
context that is offered again and again is taken (`HealthCheckTerminates`,
`WatchEnds`); a `sync.Mutex` is handed to a starved waiter (`Trace`, `Recording`,
`LockWriter`); and for one timeout counted in rounds of a loop: `accessStart` gives up after
`MaxWaitInProgress` (`StatsClient`). For `accessLock` none is needed: the model's
reconnects are finitely many, and Go's `RWMutex` lets waiting readers in after
each writer. Nothing is asked of programs, except in `ConnectionLoop`, whose
consumer reads `connChan`, and in `MemifRing`, whose reader goes on reading.

Except in `ConnectionLoop` nothing is asked of VPP, and so nothing of a write to
its socket either: `writeMsg` has no deadline. No fairness is stated for the `SendMsg` of an API
channel's watcher (`InSend`), of a traced request (`SendMsgReturns`) or of a
stream (`SendMsg`); each property says what a write that never returns holds up.
`ConnectionLoop` asks two things. A write returns while VPP is up, for it
reads the socket in the end, and on a dead connection, with an error
(`WritesReturn`); and a VPP that is up answers a control ping in the end. It
works its queue off in order, and without that `Disconnect` could wait as long
as other replies keep prolonging the probe. VPP may stay hung or dead.

## 4. What is proved

Eight proof modules, one per component (`PROJECT.json` lists the theorems).
Nothing is assumed but the named assumptions of the models and what is said
here; the constants have any value these admit. TLC checked the inductive
invariants on small instances before their proofs, all but `Explained` below,
whose accounts of the requests are too many to enumerate.

**`ApiChannelProofs`.** The request context, for every `SeqMod` and `IdMod`:
`compareSeqNumbers` is 0 for equal numbers only, antisymmetric except at half the
space, and tells a number that lags by less than half the space as older, across
wrap-around; unpack inverts pack.

For every number of objects, IDs, requests, opens and faults and every buffer
size: `TypeOK`, `IdsExclusive` and `IdsConserved`. `IdsExclusive` is not inductive
alone: whether a step of `releaseAPIChannel` can happen depends on where the
watcher is, so that the life cycle `home` and the watcher's position must be tied
together. `Phases` does that, and the inductive invariant is
`TypeOK /\ Phases /\ IdsExclusive` (`OwnershipCorrect`); a new ID is the head of
`freeIds`, which `IdsExclusive` keeps apart from owned IDs and free of repetition.
`IdsConserved`, `Len(freeIds) + Cardinality(Owners) = MaxID`, follows: only three
actions change either summand, and the cardinalities need the finiteness of
`Objects`.

`NoForeignReply` compares tags, which the code does not have, so its invariant has
to say what the tag of a message tells about the numbers it carries. `Explained`
says that there is an account of the requests so far, `f`, with the object, ID,
number and kind of each, such that the numbers of one object follow each other
(`Numbered`), no ID in the account has another owner now (`Addressed`), and every
request, message, reply and request context anywhere has the numbers of its tag
(`Requested`, `Answered`). Two requests of one object then have different wrapped
numbers, and a reply that `compareSeqNumbers` finds equal is the right one. This
is where the two hypotheses come from: `MaxRequests <= SeqMod` (no number comes
round while a reply with it may be outstanding) and `MaxOpens <= MaxID` (no ID is
handed out twice). Neither can be dropped. A reply that VPP owes for 65536
requests carries the number of a newer one, and a reply to an ID that was
recycled reaches the new owner, whose numbers start anywhere. Within one round
of both, the theorem covers reuse of objects, stale pointers of the reader,
delayed replies and failures.

`DelayedReplyKept` needs neither hypothesis. While a user waits at its select its
slot is empty (`SlotFree`), because `ReceiveReply` looked there first; so the one
reply the select parks cannot overwrite another.

`SimpleReplyAccounted` counts places. `Placed` says at which one of seven stages a
request is: in `reqChan`, in the watcher's hand, with VPP, in the reader's hand,
in `replyChan`, in the slot, or nowhere, the last just when it is in `lost`. Each
action moves it one stage on or leaves it, and has a lemma of its own. That an
answer goes to the right `replyChan` and that a returned request is not waited on
any more are again facts about numbers, so the invariant `AccountInv` contains
that of `NoForeignReply`, and the theorem has its hypotheses.

`MultiComplete` needs two facts. The last reply of a dump comes behind its
details (`LastInOrder`): wherever the last reply has got to, the stages before
it hold nothing of that request. `Dequeued`, `Processed`, `Served`, `Handed`,
`Fetched` and `Finished` name what is empty by then, each containing the one
before, and no step makes one of them false again. And of a dump its user still
waits on, and of which nothing was lost, every detail sent is returned, in the
reader's hand, in `replyChan` or in the slot (`DetailsCounted`). When the last
reply is returned the three places are empty, so that sent and received agree,
and from then on neither changes. `CompleteInv` puts both on top of the
invariant of `NoForeignReply`, whose hypotheses the theorem has: that the detail
a user takes belongs to the request it waits on is again a fact about numbers.

**`ConnectionLoopProofs`**, for any number of callers of `Disconnect`, any limits
and any event buffer, a buffer of none included: `TypeOK`, `AdapterBalanced`,
`DisconnectFinal`, `EventTellsState` and `EventOrder`. None is inductive alone.
What ties them together is `LoopState`: where the background loop stands decides
whether `vppConnected` holds and which event was sent last, and a caller of
`Disconnect` that is past its wait has seen the loop end. It makes the
compare-and-swap of `disconnectVPP` decide between the loop and the callers, keeps
the adapter's count in {0, 1}, and admits each `sendConnEvent` only after an event
it may follow. `Told` says that the newest event not read yet, or else the last
one read, is the last one sent, until one is discarded. The inductive invariant
is `TypeOK /\ LoopState /\ AdapterBalanced /\ Told` (`LoopInvariant`).

**`SocketClientProofs`**, for any number of senders, pieces, connections and
events: `OneReader`, `ReaderServes`, `Framed` and `DeliveredInOrder`. The first two
follow from `Phases`, which says in which phases of the connecting goroutine a
reader may be left. `Framed` is about what lies in the socket, not only about what
VPP has read: `Chained` says that each piece in flight goes on with the message of
the piece before it, and that the last is followed by what the holder of `writeMu`
will write next (`Pending`); `Mutex` says that only the holder writes. The
invariant is `TypeOK /\ Phases /\ Mutex /\ Stream /\ Framed`, where `Stream` asks
for `Chained` while the connection is up and no sender came over from an earlier
one. `DeliveredInOrder` is about the other direction, through VPP's writes, the
socket, the reader's buffer and the pieces `readMsg` has of the current message.
All of these are ranges of one stream of pieces; `Reading` says that they lie next
to each other in it, so that what was delivered is its beginning, cut at message
boundaries.

**`StatsClientProofs`**, for any number of readers, entries, changes and restarts:
`OneEpoch` and `ReconnectProtected`. The second follows from `Locks`: while a
reader holds `accessLock` the monitor is outside of the steps between unmapping
and mapping. The argument for the first is that epochs only grow, and that VPP
bumps the epoch before it lowers `inProgress`. So if, at any moment of a read, the
epoch is still that of its start and `inProgress` is down, VPP has not begun a
change since, and what was read so far is the content of that epoch in `history`
(`Reads`). For a refresh, whose entries come in part from the cached directory,
that directory must be the content of its own epoch, unless that epoch, or its
life, is over (`Dirs`). `Segments` ties memory to `history`. The assumptions are
that there are entries, numbered from 1, and names.

**`NotificationsProofs`**, for any number of subscriptions, message IDs and events:
`TypeOK`, `NoSendOnClosed` and `ActiveGetsAll`. `ListsSound` says that what is on a
list of `subscriptions` is open, for that message, and there once. It rests on a
detail of `Unsubscribe`, which removes one element: were a subscription listed
twice, a closed one would stay. `BeforeOpen` covers a watcher whose goroutine runs
before its subscription is added, and `HandSound` the event in a watcher's hand.

**`TraceProofs`**, for any number of traces, goroutines and messages and every
size: `TypeOK`; `NoSendOnClosed`, from `LockHeld` (who records holds `traceLock`,
and the installed trace is open), whenever traces are created and closed; and,
under `QuietStart`, that the WaitGroup never goes negative (`~Overdone`, in
`WaitGroupCovers`) and that `GetRecords` returns what it must (`WaitCoversSent`). `Counted` says that a
WaitGroup counts every message in a buffer, in the collector's hand, and in that
of a goroutine between registration and record; `Found` follows each record that
a caller must see through the three places it can be in. `QuietStart` confines
`NewTrace` to moments without a request in flight: otherwise the program does
panic (section 3). The other two panics are not excluded. The goroutines must be finitely many, for their number is
counted.

**`StreamProofs`**, for any number of users and streams and finitely many objects:
`TypeOK`, `ObjectsConserved` and `OwnRepliesInOrder`. `StreamsOwn` says that an open
stream has an object, under its ID in the map, and shares it with no other. The
second theorem follows replies from VPP's queue through the reader's hand and the
object's channel to the user: each of these is in order and before the next
(`InOrder`), per ID, and no number is ahead of the stream's requests (`AllSent`).
Order is that of `Earlier`, which counts the details of a dump: VPP's next answer
comes after all it has given (`NextAnswer`).

**`MemifRingProofs`**, for every ring size, every range of the cursors that is a
multiple of it, both directions and both interfaces: `RingInvariant` and the
refinement of `PacketQueue`, `ImplementsQueue`. `CursorsOrdered` measures both
cursors' distances from what the reader has given back: their sum stays within
the ring, so that comparing wrapped cursors is unambiguous. `ReaderShape` and
`WriterShape` say what the peers remember in the middle of a call. For the
refinement `QInv` adds that what the reader has taken of a packet is what the
queue had in front (`GotFresh`); each publication of the writer is then a `Put`
of the queue, each step of the reader's cursor a `Take`, and all other writes to
shared memory happen in slots the queue does not see. The hypothesis is
`TxBurst = 1`: for larger bursts both properties fail (`packet_writer.go:117`,
section 3), so that it cannot be dropped either.

On top of these come `PostedBuffersWhole` and `PacketsFramed`, for every length of
packets and buffers too. For the first, `LengthsInv` says that a slot the slave
has posted, or is about to post, has its full length: a packet under way has only
filled buffers to the end, and the buffers of a finished one are excepted until it
is published and they are posted no more. For the second, `FramesInv` says that
what the reader has not read is a row of whole packets (`Framed`), that what the
writer has filled is a packet or its start (`BeingWritten`), and that `ReadPacket`
has a part of the packet it is at and will find the rest (`BeingRead`). A packet
of `n` bytes takes `Parts(n)` buffers; hence the writer, which counts bytes, and
the reader, which follows the flag `next`, agree on where it ends. Both have
`TxBurst = 1` and a second hypothesis, `PacketBufferSize < LenMod`: the 16 bits
that `setDescLength` writes must be all of a length. Without it both fail
(section 3).

**Only model-checked:** liveness, which is beyond the prover: `CloseReleases`,
`ReaderNeverStuck`, `GivesUp`, `Reconnects`, `DisconnectReturns`, `EventsClosed`,
`TraceNeverBlocks`, `GetRecordsReturns`, `InvokeReturns`, `CallsReturn`,
`FollowsRestart`, `UserReturns` and `EventuallyRead`. Every other property of a
passing run is a theorem (`PacketQueue` states no fairness, so that its refinement
is among them).

## 5. What is left out

Most lines of the repository are generated bindings (`binapi`), which have no
behaviour of their own. Of the rest:

* Message contents. A message is a request's identity and, for a dump, detail or
  last part; encoding may fail where the code handles it. So `codec` is not
  modelled: it is pure.
* `CheckCompatiblity`, `GetMessageID`, `LookupByID`: they read. That
  `retrieveMessageIDs` writes `msgMapByPath` without its lock is a data race the
  models do not show.
* `NewAPIChannelBuffered` with sizes other than the default; one Go channel
  shared by several subscriptions; message IDs that change across a restart.
* `receiveReplyTimeout` set to 0, which is a drop at once and is among the
  outcomes of the modelled drop.
* The adapters' `WaitReady`, the message table, the layouts of the two versions
  of the stats segment, patterns; the attempts of `core/stats.go` before its
  first connection.
* Of the statistics client: `UpdateDir` with a nil directory vector, which returns
  nil without `accessEnd` (`statsclient.go:289-292`; the vector is nil only before
  VPP has filled the segment, and `accessEnd` releases nothing); an entry with an
  empty name, at which `getStatEntriesOnIndex` returns what it has so far (542-543;
  `listIndexes` has skipped empty names when it has patterns, as `core/stats.go`
  gives it, so that VPP must have changed the entry in between, which `accessEnd`
  sees); that a refresh skips entries whose type changed or whose
  data is nil (639-643), for an entry is a name and a generation here; and a
  failure of fsnotify, which leaves a connected client without a monitor
  (436-440), and would excuse `FollowsRestart`.
* The steps inside `NewAPIChannel`, and `GetRecordsForChannel`, which filters what
  `GetRecords` returns and dereferences the nil record of a list of one.
* The control channel of gomemif (the handshake), regions and offsets, and memory
  that is weaker than sequentially consistent: the code has no barriers, and the
  ring is modelled for a platform that needs none.
* `proxy`: forwards calls to connections modelled here; its watchers, which
  replace a lost connection under the handlers, are the one thing of its own.
* `libmemif` (the state is in a C library), the mock adapter (a test double), the
  generator, command line tools and examples: sequential code around the rest.

## 6. Plan

Done: the modules of section 2, and the proofs of section 4, which cover every
safety and action property of the passing runs.

What could be added: the control channel of gomemif, and the watchers of
`proxy/server.go` over `ConnectionLoop`'s events; the hypothesis `TxBurst = 1`
would go if `Tx_burst` counted the slots its earlier packets took.

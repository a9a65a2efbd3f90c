# ntdcp: a verification project

`ntdcp` is a small communication stack in C++ for nodes that share simple media
(radio, UART): frames on a byte stream, a flooding network layer, and a
connection-oriented transport layer on top. This directory holds TLA+ modules
that model it, TLC configurations that check them on small instances, and proofs
that TLAPS checks for every instance. Paths below are relative to the
repository; `transport.cpp` is `ntdcp/src/transport.cpp` and so on.

## 1. The system

| Component | State | Operations | Talks to |
|---|---|---|---|
| `Socket` (`transport.cpp:106-378`) | connection state, at most one unacknowledged outgoing message (`m_send_task`), one acknowledgement to send (`m_ack_task`), `m_incoming` (at most 10 buffers), the last id received and the last id given, two counters | `connect`, `send`, `get_received`, `close`, `receive`, `pick_outgoing`, `send_connection_submit` | called by the application and by `TransportLayer` |
| `Acceptor` (`transport.cpp:57-96`) | cache of the last ten requests, by message id | `receive` creates a socket, or finds the one of a repeated request | called by `TransportLayer`; calls back the application with a new socket |
| `TransportLayer` (`transport.cpp:390-542`) | registered sockets and acceptors | `serve_incoming` dispatches messages, `serve_outgoing` picks them | `NetworkLayer::incoming`, `NetworkLayer::send` |
| `NetworkLayer` (`network.cpp`) | package ids seen (100), queues per device | `send`, `serve`, `incoming`, forwarding with a hop limit | `ChannelLayer`, `IPhysicalInterface` |
| header codec (`network.cpp:176-342`) | none | `encode`, `decode` | `NetworkLayer` |
| `ChannelLayer` (`channel.cpp`) | candidates for a frame, search position | `encode`, `decode` | reads a device's `RingBuffer` |
| `RingBuffer` (`utils.cpp:197-364`) | a vector and two positions | `put`, `get`, `extract`, `skip`, `operator[]`, `clear` | filled by a device, read by `ChannelLayer` |
| `CachingSet`, `CachingMap` (`caching-set.hpp`) | a list in order of use and a map | `check_update`, `put_update`, `get_update`, `get`, `erase` | `NetworkLayer`, `Acceptor` |
| `VirtualPhysicalInterface`, `TransmissionMedium` (`virtual-device.cpp`) | last transmission, attached devices | `send`, `receive_from_medium` | stand for the hardware in the tests |
| `QueueLocking` (`synchronization.hpp`) | a bounded queue | `push`, `pop` | `m_incoming` of a socket |
| `Buffer`, `SegmentBuffer`, `MemBlock`, `Package`, `BitReader`, `Node` | containers, an unused earlier format, empty classes | | |

A node calls `serve()` of its layers from one loop, so within a node calls do
not overlap; the concurrency is between nodes, through the media.

**What is hard.** Messages are lost, delayed, reordered and repeated (every task
is retransmitted until it is acknowledged or times out). A connection is set up
by a request that is retransmitted to an acceptor which must recognise its
copies. An acknowledgement is a single number, compared with the number of the
one pending task. Ids are 16 bits. `pick_outgoing` reads an `std::optional` that
may be empty. All hazards are in `PROJECT.json`, each at the line where it bites.

**What makes each part correct.**
- *Socket*: no payload is delivered twice or out of order; an acknowledgement
  that clears a task means that its payload has arrived; a task ends; both ends
  end closed; the counters tell what is pending and what is lost.
- *Acceptor and dispatcher*: one socket per request; a connected client has a
  socket at the other end that is its own.
- *Ring buffer*: a bounded first-in-first-out queue of bytes.
- *Channel*: every intact frame comes out once, in order, whatever noise is
  around it. *Network*: a package reaches its destination at most once and
  flooding ends. *Codec*: `decode` inverts `encode`.

## 2. Modules

| Module | Models | Extends or uses |
|---|---|---|
| `Socket` | the members of a socket as a record, every member function as an operator on it | |
| `CachingMap` | the list and the map of the cache | |
| `Transport` | several clients, one acceptor with its sockets, the links between them; the actions | `Socket`, `CachingMap` |
| `Stream` | abstract: streams with at-most-once delivery, order, truthful confirmations | |
| `TransportProps` | types, invariants, action properties, liveness, the refinements of `Stream` | `Transport`, `Stream` |
| `TransportInv` | the inductive invariants, and the hypotheses of theorems that need some | `TransportProps` |
| `MCTransport`, `MCStreams` | constants for TLC | the two above |
| `RingBuffer` | `class RingBuffer` | `ByteQueue` |
| `ByteQueue` | abstract: a bounded queue of bytes | |
| `MCRingBuffer` | constants for TLC | `RingBuffer` |
| `CachingSet` | the set of package ids a node remembers | `CachingMap` (its list) |
| `Header` | the codec of the network header, on bytes | |
| `Network` | several nodes on several media: queues, ring buffers, caches, forwarding; the actions | `Header`, `CachingSet` |
| `Delivery` | abstract: packages reach their addressees, each once until its id is forgotten | |
| `NetworkProps` | types, invariants, liveness, the refinement of `Delivery` | `Network`, `Delivery` |
| `NetworkInv` | the inductive invariants | `NetworkProps` |
| `MCNetwork`, `MCHops` | constants for TLC | the two above |
| `Channel` | one `ChannelLayer` on the bytes of a node's devices, and its properties | |
| `ChannelInv` | the inductive invariant for one device | `Channel` |
| `MCChannel` | constants for TLC | `ChannelInv` |
| `SequenceLemmas`, `CachingMapProofs` | lemmas about queues, about the cache | |
| `TransportProofs`, `StreamProofs`, `HeaderProofs`, `NetworkProofs`, `ChannelProofs`, `RingBufferProofs` | theorems and proofs | the modules they are about |

### How `Transport` corresponds to the code

A step is one call into one socket. `CallConnect`, `CallSend`, `CallSendEmpty`,
`CallGetReceived`, `CallClose` and `Destroy` are calls of the application.
`Transmit`, `Expire` and `ForceAck` are the outcomes of one `pick_outgoing`
together with the `send` to the network of what it returned; `ReceiveMessage`,
`AcceptAgain`, `AcceptNew` and `Discard` are the outcomes of handling one message
in `serve_incoming`. `Lose` is the network's. Splitting the serve loops into
single messages and sockets allows every interleaving the real loops have, and
more.

*Clocks.* `transport.cpp` reads the clock only to compare an elapsed time with
an option. Each comparison is an input of the action, so all values of the
options and all schedules are covered. `sent_count` and `last_pick` decide
nothing else and are left out. A retransmission is due whenever it likes.

*Numbers.* Ids and counters are taken modulo `IdMod`, 2^16 in the code and 3 to 8
in the runs. The 32-bit random numbers are cut to 16 bits before they are used as
ids, so `RequestIds` is a set of ids.

*Payloads.* The n-th buffer that socket s sends is the pair `<<s, n>>`. A buffer
in a task or a message is a sequence of at most one payload; `<<>>` is the null or
empty buffer.

*Memory.* `m_ack_task` keeps its storage when it has no value, and
`pick_outgoing` reads it: so the model has a flag `has` beside the contents. The
initial contents of the storage come from `Garbage`: `Fresh` is a storage whose
flag reads as already sent, `Stale` and `Dirty` have others.

*Network.* Between two nodes there is a sequence of messages; with `Reorder` any of
them may be taken next. A message may be lost (`Lose`); it is not duplicated by the
network (`NetworkLayer` suppresses duplicates by package id), but retransmission
by the socket gives copies. `m_sockets` of a layer is a set ordered by addresses
in memory: where several sockets match, any may be the first.

*Histories.* `sent`, `taken`, `confirmed`, `overflowed` record what the properties
speak of and guard nothing.

### How `Network` corresponds to the code

A *device* is a pair of a node and a medium, so a topology is a set of pairs. `Send` and
`Incoming` are the application's calls. `ServeIncoming(d)` handles one package of the ring
buffer of device d: one turn of the inner loop of `serve_incoming`, `retransmit` included.
`ServeOutgoing(d, deaf)` is one turn of the loop of `serve_outgoing`, with the transmission
that `TransmissionMedium::send` makes of it. The loops only fix an order among
these turns, so splitting them adds interleavings and removes none.

- *Bytes.* What waits in queues and ring buffers are the bytes that `Encode` makes of a
  header and data; `ServeIncoming` decodes them with `Decode`, or drops what `Decodes`
  refuses, and `retransmit` encodes them again. `Base` is the number of values of a byte
  and `HopEscape` the mark for a hop limit that has a byte of its own, 256 and 15 in
  the code: the sizes of addresses and the shifts are powers of `Base`, so a small base reaches
  addresses of four bytes in a small instance. Everyone is `Base - 1`, the code's `0xFF`.
- *Channel.* That what is put into a ring buffer is decoded once and in order is the
  contract of the channel layer, whose own module checks it.
- *Data.* The data of the k-th call of `send` is the byte k: copies are recognised by it.
- *Loss.* `deaf` is the set of devices that miss a transmission because of their own
  (`tx_to_rx_time`) or because the medium is broken. A ring buffer without room refuses the
  frame. `lost` remembers that either happened. `busy()` is scheduling: a busy device
  does not take its `ServeOutgoing` step.
- *Histories.* `taken`, `sends`, `forgotten` and `lost` guard nothing, but for `lost`,
  which bounds the deaf transmissions to the time before anything is lost.

### How `Channel` corresponds to the code

`Receive(d, block)` is a block of bytes from device d, refused whole if it does not fit.
`serve_incoming` visits the devices in turn: `PassBy` where nothing has come, else
`decode`, which repeats `decode_single` until nothing is found. `DecodeSingle` is one such call:
`Found` is what `find_next_headers` does to the buffer, the candidates and the
search position, `Succeed` and `Fail` are the outcomes of `find_sucessful_instance`. All devices share
the candidates and the position, as in the code. When the shared position points
behind a device's buffer, the code skips past its end and an unsigned
size wraps around: what it reads then was never received and the model stops there
(`InRange`). `TypeOK` includes that a node with one device never gets there, and that is proved. The eight
bytes of a header are abstracted to its first one and what it says (`Header`), and a checksum to the body it fits;
offsets, sizes, limits and their exclusive comparisons are those of the code.
`stream` and `frames` are histories: offsets into the moving buffer are compared with
absolute places in the stream.

### How `RingBuffer` corresponds to the code

Every action is one call; `result` is what it returned. Callers of `extract`,
`skip` and `operator[]` never ask for more than `size()`: their ranges say so.
The abstract `ByteQueue` has the same calls on a sequence of bytes; the refinement
mapping is `Waiting`, the bytes from `m_p_read` on.

## 3. Runs

| Run | Shows |
|---|---|
| `fifo_stream` | Links keep the order, one message is lost, each end sends up to two payloads, `m_incoming` holds one buffer (it overflows at either end), the application reads. Types; the count of missed messages (`MissedIsLost`) and of unconfirmed ones (`ClientUnconfirmedIsPending`, with its inductive invariant `UnconfirmedInv`); both directions refine `Stream` with order and truthful confirmations, and the inductive invariant behind that holds (`OrderInv`). |
| `reordering` | Links reorder, tasks time out, sockets are destroyed, `m_ack_task` storages start stale. No payload is queued twice, the acceptor's side gets payloads in order, the client's confirmations are truthful (its data cannot have the id of a request: `NumberedApart`); the inductive invariants of the proofs hold (`StreamInv`, `ConfirmInv`). |
| `progress` | Under fairness, with two payloads in each direction: requests are answered, payloads arrive, no socket stays busy. |
| `close` | Under fairness: a client's close takes effect at the peer, also when it replaces data or a null buffer (which is never acknowledged); an idle closed socket has a closed peer (`CloseConfirmed`, with its inductive invariant `CloseInv`). |
| `two_clients` | Two clients of one node, concurrent connection requests: one socket per request, the right socket for each client, and the inductive invariants behind both (`RequestInv`, `ConnectionInv`). |
| `ring_buffer` | Every state of a buffer of 4 bytes over two byte values, every block of up to 5 bytes. |
| `network` | Three nodes in a triangle and a fourth behind one of them, with addresses of one, two, three and four bytes (in base 8); one package to the far node, one to everyone, ids that may coincide, a cache of one id, ring buffers of two packages, a lost transmission. Types; a package is delivered once unless its id was forgotten (`DeliveredOnce`); the inductive invariants of the proofs (`NetworkInv`, `FloodInv`); the nodes implement `Delivery` (`ImplementsDelivery`: source, id and data are those sent, through every encoding and decoding on the way); when flooding has ended without loss, every package with an id of its own is where it should be (`FloodingReaches`); flooding ends (`FloodingEnds`). |
| `channel` | Streams of up to 7 bytes over four byte values, two of them whole frames one inside the other, one the header of an empty frame, arriving byte by byte or frame by frame and decoded at any time: offsets stay in the buffer, frames decoded are frames of the stream, disjoint and in order, when `decode` returns no intact frame was missed, and a ring buffer that is full gets room again (`FullBufferDrains`) unless a header waits for more than the buffer can hold; the inductive invariant of the proofs holds (`ChannelInv`). |
| `confirmed_delivered` | *violation*: a full `m_incoming` loses an acknowledged payload. |
| `wraparound` | *violation*: after the ids wrap around new data is acknowledged and dropped. |
| `hop_limit` | *violation*: in base 256, a package with a hop limit of 15 is decoded with its id and its hop limit mixed up. |
| `shared_decoder` | *violation*: a node with two devices misses an intact frame on one of them (`NoFrameMissed`), since it skips what was searched on the other. |

**Bounds.** `NetCap` bounds the messages on a link (1 or 2: enough for a message to
be overtaken, or repeated by its retransmission, while the answer to the first is
under way). `MaxFaults` = 1 loss or timeout: retransmission is unlimited, so a single
loss puts any message before or after any other. `MaxOutgoing` bounds the
ids a socket gives (up to 3). The submit is the first message of an accepted socket, so in `fifo_stream`
and `progress` clients have ids 1 and 2 and the slot has 1 to 3: two payloads in each direction, which could
arrive in the wrong order. An error in the comparison of ids shows with two
consecutive ones, and the wraparound run has three with modulus 3.
`QueueMax` is 1 where the queue must overflow: the second payload does not fit unless the first was read.
Requests, ports and stale storage come from sets of one or two. The guards of `MaxOutgoing` stop the application, so
the runs say `CHECK_DEADLOCK FALSE`: when everything is acknowledged and nobody
calls, the real system is quiet as well.

A slot stands for one socket object and is used once (`FreeSlots`). In `reordering` there is one, so that
a request that comes after its socket was destroyed finds no room and waits. That the acceptor then creates
another socket (`AcceptNew` with the id in the cache) takes a second slot; with it and destruction
the state space grows out of the time a run may take, and the theorems cover it: they hold for any number of slots.
Null buffers are sent in `close` only; that they do not count as missed is left to `NothingMissed`.

In `network`, `SeenMax` is 1 so that the second package drives out the id of the first (100 in the code), and `PackageIds` has
two values so that the packages may share one; a ring of three is the smallest in which
copies come back. Base 8 has addresses of every size below 4096, with 512 as the first of four bytes and the others
the first of their sizes, where a size that is off by one shows. `RetransmitBack` is empty in the run (with it the state space grows out of the
time a run may take); the theorems cover it. In `channel` a header has
2 bytes; streams of 7 hold a frame in a frame with noise on both sides, or
three small frames; a ring buffer of 6 is smaller than the stream, and so small that it fills up with
a header of the largest frame and noise. `hop_limit` and `shared_decoder` stop at their first
counterexample.

**Fairness.** In `Transport`, `FairSpec` has weak fairness of serving only: a socket's due
transmission (`Transmit`, `ForceAck`) and the handling of messages of a
link. A node calls `serve()` in its loop and `serve_outgoing` visits every
socket; a retransmission is due again after `restransmission_time`. Nothing is
assumed of the application, and losses are finitely many (`MaxFaults`). Timeouts
(`Expire`) are off in the liveness runs: with them a request may of course end
unanswered. In `Network`, weak fairness says that some device is served as long as one has
something to do: `serve()` is called in a loop, and no device stays busy, since
`tx_time` is finite. Nothing is assumed of `Send` and `Incoming`. In `Channel`, weak fairness of `Serve` says
that `serve_incoming` is called again and again; nothing is assumed of `Receive`.

**Mutants.** For every property of a passing run `PROJECT.json` names a mutated
operator (marked "Mutant" in the modules) with which TLC finds the property violated.

## 4. Proofs

Assumed are the named assumptions on constants: `SocketAssumption`, `TransportAssumption`,
`RingBufferAssumption`, `HeaderAssumption`, `NetworkAssumption` and `ChannelAssumption`; for the streams also
`NoWrapAssumption`: ids given by `create_send_task` stay below the modulus, which excludes the wraparound that
the run `wraparound` shows to be harmful; for the network also `CarriedAssumption`: addresses are below 2^31
and hop limits below 15, which is what the codec carries (`hop_limit` shows what happens beyond). A theorem
that needs more says so in its `ASSUME`; each such hypothesis is explained below, with what the code does
without it.

**Transport.** `TransportProofs` first says what every operator of `Socket` does to every member
(`CreateSendTaskDoes` ... `ReceiveDoes`) and from that what any step is (`StepForms`: a call, a transmission,
a reception, an answer to a request, a new socket, or nothing but messages lost). The invariants are proved
over these forms.

- `TypeCorrect`: `Spec => []TypeOK`. `TypeOK` is inductive; the work is in the cache (`CachingMapProofs`: list
  and map stay consistent through every operation) and in the records of sockets and messages.
- `ConnectionInvariant`, and from it `ConnectedClientHasPeer` (`ConnectedHasPeer`), on any network and for any
  numbers of clients and slots. A client believes the source port of whatever submit it gets, so the invariant
  says that a submit on its way names the port of a socket which was created for the node and port it goes to
  (`SubmitNamesPeer`), and that a used slot keeps its address and ports.
- `RequestInvariant`, and from it `RequestHasOneSocket` (`OneSocketPerRequest`), assuming `FewClients`: no
  more clients than the cache has room for. (Beyond, a copy of an evicted request makes a second socket.) Two
  clients may draw the same id: then the later one gets no socket, which does no harm to this property. Every
  client makes one request, so there is a function from clients to ids which tasks, messages, cache and
  sockets agree with (`RequestsOf`), and the cache knows the registered socket of every client under that id
  (`KnownSockets`).
- `UnconfirmedInvariant`, and from it `ClientCountsPending` (`ClientUnconfirmedIsPending`), assuming
  `Untimed`: no task times out (that would not be counted back) and no accepted socket gets the number of the
  listening port. The second is needed since a client that is not connected yet may send an acknowledgement
  read from the empty `m_ack_task` to the listening port, and `random()` may have given a new socket just that
  port: it then takes the stray message for its client's. The submit takes back what the request counted
  because it acknowledges it, so the invariant says that all answers on their way to a waiting client do.
- `CloseInvariant`, and from it `ClosePeerClosed` (`CloseConfirmed`), assuming `Orderly`: one client, links
  that keep the order, no timeouts; any number of slots, losses and destructions. TLC shows the property
  violated when any of the three is dropped: a late copy of a request reopens a closed socket; so does the
  request of a second client that drew the same id; and a timeout drops the task that closes. The invariant is
  about requests: once a close submit is on its way to a client, or a socket is closed and idle, the client
  has been answered and no copy of its request is left (`AllAsked`). On an ordered link a request is in front
  of whatever closes (`RequestsFirst`), which is why the acceptor's socket can know that it handles a close
  behind the last request (`NoneToAsk`).
- `StreamProofs!StreamInvariant`: `Spec => []StreamInv`, and from it `NeverTwice` (`AtMostOnce`) and
  `AcceptorInOrder` (`AcceptorStreamsInOrder`), for any number of clients and slots, under reordering, loss,
  timeouts, closing and destruction. "No payload is queued twice" is not inductive by itself: a message on its
  way could carry a payload already queued under a newer number. `StreamInv` therefore says, too, that a
  payload travels and waits only under the number it was given when it was sent, that a client's numbers
  increase, that messages and sockets carry addresses and ports of real ends, and that what a socket has
  queued has numbers up to its `m_last_received_message_id`; hence a copy of it is recognised as old.
  `SocketStep` states what a step of one socket may do to all this when it neither sends nor delivers a
  payload; most actions are proved to be such a step, and `CallSend`, `CallGetReceived`, `ReceiveMessage` and
  `AcceptNew` have lemmas of their own.
- `StreamProofs!ConfirmInvariant`: `Spec => []ConfirmInv`, under the same conditions. A client takes a message
  with the id of its task for the acknowledgement of its data. That it is one needs an account of all places
  an acknowledgement may come from: the `m_ack_task` of the acceptor's socket, or its storage after that, the
  task it is copied into, and the messages made of it. All acknowledge a request, or an id that the client has
  used before, and the last one it used only if the data has arrived (`HarmlessAck`).
- `StreamProofs!AnyStreamImplemented`: `Spec => ImplementsAnyStream`. `send()` maps to an offer, a reception
  to a delivery, a refusal or a confirmation, all else to stutters. Confirmations are truthful for
  `NumberedApart`, the clients whose data cannot have an id of `RequestIds`: for the others the late
  acknowledgement of the request confirms data with the same id (section 5).
- `StreamProofs!OrderInvariant`: `Spec => []OrderInv`, assuming `OrderlyApart`: one client, links that keep the
  order, no timeouts, and no data with the number of a request. From it follow `FifoStreamImplemented`
  (`ImplementsFifoStream`: both directions are ordered, both ends' confirmations are truthful),
  `ConfirmedHasArrived` (`ConfirmedReached`) and `NothingMissed` (`MissedIsLost`: the counter of missed messages
  stays 0, and up to `m_last_received_message_id` nothing of the peer is missing), for any number of slots,
  losses and destructions, any size of `m_incoming`, and closing by either end. In the instance of
  `fifo_stream`, TLC finds `ImplementsFifoStream` violated when any of the four is dropped: with a second client
  that draws the same id, with reordering, with timeouts and with `RequestIds = {1}`. In the first three cases a
  request comes when the socket it leads to has sent data already: the acceptor answers it with a submit, whose
  number is 1 again, and the socket numbers new data like data it sent before. `OrderInv` therefore says what
  holds until all requests are gone (`~ AllAsked`: the acceptor's socket has sent its submit only, and the
  client may have sent one message), and that a request is in front of all messages of the client which the
  acceptor will hear (`LateOrder`). From then on numbers only grow, and the two ends are never more than one
  message apart (`ClientConnected`, `SlotConnected`), which is what stop-and-wait means here: a message on its
  way has at most the number after the last one received (`ToServerOrder`, `ToClientOrder`), and whatever
  acknowledges a number, in a task, in the storage of `m_ack_task` or on its way, comes from an end that has got
  everything up to it (`ClientGot`, `SlotGot`). The proof has a lemma for each end and each direction
  (`ClientOrderStep`, `SlotOrderStep`, `ToClientMessages`, `ToServerMessages`, `LateMessages`).

**Network.**

- `HeaderProofs!DecodeInvertsEncode`: for every base of at least two, what `Encode` makes is decoded to the
  same header and data, if the addresses are below half the range of four bytes (`Carried`), the id has two
  bytes and the hop limit is below the escape. The lemmas follow the bytes: division and remainder by the base
  give an address back from its bytes whatever its size (`AddressCarried`), the pieces stand where `Decode`
  cuts them out (`Layout`), the flag holds the sizes (`FlagHolds`).
- `NetworkProofs!NetworkInvariant`: `Spec => []NetworkInv`, and from it `TypeCorrect` and `NoCopyDelivered`
  (`DeliveredOnce`), for every topology, cache size, option `retransmit_back` and loss, and however ids
  coincide. `DeliveredOnce` needs that all bytes on their way are the encoding of a package that was sent,
  with fewer hops left, and that no package travels which is for its own sender (`Travels`: such a one is
  delivered without being put into the cache), and that a node has checked the id of whatever it took
  (`Arrived`). A copy is delivered only if its id is not in the cache; if another copy was delivered before,
  the same id was checked, so it has been forgotten. `CheckKeeps` says what the cache may forget.
- `NetworkProofs!FloodInvariant` and from it `FloodReaches` (`FloodingReaches`), for every cache size and
  interleaving, and whatever ids the other packages have. The theorem assumes that the media connect all nodes
  (`Connected`) and that no node has the broadcast address as its own, since its broadcasts would count as
  packages to itself. `FloodingReaches` speaks of the end; before that a package is on its way everywhere at
  once, and a node may discard the copy with hops left because a shorter-lived one came first. `FloodInv` says
  of every moment without loss that who knows a package has passed it on: each device that hears one of its
  devices belongs to a node that knows it, too, has a copy in its ring buffer, or one waits in the queue of
  the device it hears (`GetsFrom`). This holds as long as the hop limit allows for the number of nodes that
  know the package, as every copy has lost a hop for each of them at most (`Lasting`), and of several copies
  waiting in a queue the first one counts (`FirstIn`). When all is quiet, the nodes that know the package
  therefore are a set that no medium leads out of: all of them.
- `NetworkProofs!DeliveryImplemented`: `Spec => ImplementsDelivery`. What is delivered is `taken` followed by
  `m_incoming`; `Send` maps to a submission, `ServeIncoming` to a delivery or a step that only forgets, all
  else to stutters. That what is delivered is what was sent comes from `DecodeInvertsEncode` and `Travels`,
  that it was not delivered before from `Arrived`.
- `ChannelProofs!DecoderCorrect`: `Devices = 1 => (Spec => []ChannelInv)`, and from it `ChannelTypeCorrect`,
  `FramesInStream` (`FramesAreInStream`) and `NoneMissed` (`NoFrameMissed`), for every set of bytes, headers
  and sizes, every capacity and every way in which the bytes come. One device is assumed because with several
  the decoder loses frames: `shared_decoder` finds `NoFrameMissed` violated with two.
  `NoFrameMissed` speaks of the moment when `decode` returns;
  the invariant says of every moment that a header which has been searched is a candidate, or has a wrong
  checksum, or its frame shares bytes with one that was decoded (`SearchedIsKnown`), and that the candidates
  are headers of the stream at the offsets where the code believes them, in order (`CandidatesInStream`), with
  room for a header behind the search position. `FoundIsRight` carries it through `find_next_headers`,
  `FailKeeps` and `SucceedKeeps` through `find_sucessful_instance`; why those before and behind a taken
  candidate may be dropped is `CandidatesAccounted`, and `Least` and `OnlyIsPart` are about what the code's
  loops over headers and candidates pick.
- `RingBufferProofs!PositionsInRange` and `RingBufferIsQueue`: for every capacity, the positions stay in the
  vector and every call refines the call of the queue.

Out of the prover's reach and only model-checked: liveness (`EveryRequestConnects`, `EverySendReached`,
`EveryTaskConfirmed`, `CloseReachesPeer`, `FloodingEnds`, `FullBufferDrains`). Every safety property that a
passing run checks, and both refinements of `Stream`, are proved.

## 5. Known deviations not kept as runs

Met while modelling and reproduced with TLC; the model contains each of them.
- `transport.cpp:287`: a connection request is numbered by `random_nonzero()` cut to 16 bits,
  data by 1, 2, ...; the late acknowledgement of a request with a small id confirms the data
  message with the same id, which may not have arrived. With `RequestIds = {1}` in `confirmed_delivered.cfg`,
  `QueueMax = 3` and `ConfirmedReached` as the invariant TLC shows it.
- `transport.cpp:351`: a socket that has been told it is closed, with both tasks empty, may
  still send an acknowledgement read from the storage of `m_ack_task`, where the test says "Nothing
  should be sent because close submit received" (`tests/test-transport.cpp:274`).
- `transport.cpp:232`: the close submit decrements `m_unconfirmed_to_remote` after
  its acknowledgement has done so: the unsigned counter goes below zero
  (`tests/test-transport.cpp:270` marks such expectations "These fail").
- `transport.cpp:299`: a repeated connection request increments the counter of the
  accepted socket again; it never returns to 0.
- `transport.cpp:351`: the call that detects the timeout of a connection request
  may still send an acknowledgement read from the empty `m_ack_task`.
- `transport.cpp:147`: the answer to a repeated request also sets the numbers back to 1. If the submit had
  timed out and data 2 was sent, the next data are number 2 again: the client acknowledges them as a copy and
  never queues them, and its count of missed messages stays 0. `MissedIsLost` and `ImplementsFifoStream` show
  it with `expire` in the calls of `fifo_stream.cfg`.
- `transport.cpp:344`: a task that times out does not decrement
  `m_unconfirmed_to_remote`.
- `transport.cpp:72`: of two clients with the same request id the later one is never
  answered: the acceptor finds the first one's socket in its cache.
- `transport.cpp:151`: a late copy of a request reopens a closed socket.
- `transport.cpp:490`: `connection_close` reaches connected sockets only, so the
  branch `transport.cpp:236-238` is never taken, and two ends that close at the same
  time retransmit until their tasks time out.
- `transport.cpp:72`, `caching-set.hpp:116`: a late copy of a request that was
  evicted from the cache makes a second socket.

More are plain in the code and outside the runs:
- `channel.cpp:48`: with several devices, a frame found in the buffer of one also throws away the candidates
  before it, which may be those of another. Its bytes stay, so a later search may find the header again.
- `channel.cpp:15`: a false header whose frame would end beyond the capacity of the ring buffer keeps a
  candidate waiting, nothing is trimmed, the buffer fills, and `put` refuses everything from then on,
  unless a frame gets in and out first (the exception in `FullBufferDrains`). A true header may do the same: when the
  candidate before it is discarded, the bytes before it are not, since the buffer is only rewound while
  there is no candidate, so the frame's end lies further back than its size needs.
- `network.cpp:332`: `x << 24` is an `int`: an address from 2^31 on is decoded with its
  upper 32 bits set, and of one from 2^32 on only four bytes are sent (`network.cpp:286`). `Header` has both;
  `CarriedAssumption` excludes them.

## 6. Plan and what is not modelled

Done: sections 2 to 4. What could follow:
1. `Transport` over `Network`: a transport message as the data of a package, so that the links
   of `Transport` are replaced by the delivery that `Network` is proved to implement. On small
   instances the product of both state spaces is out of TLC's reach.
2. More proofs: `OrderInv` for several clients with request ids of their own, where each pair of ends keeps
   its order; with timeouts, what is still true of numbers once no copy of a request is left.
3. `Network` with frames of different sizes in ring buffers of bytes, in place of the contract of the channel.

Not modelled: `Buffer`, `SegmentBuffer` and `MemBlock` (containers), `BitReader`
and `Package` (unused), logging, the unlocked readers of `QueueLocking` (the program
has one thread), removal of acceptors, the error paths of
`TransportLayer::decode`. The table of components in `PROJECT.json` says so for each.

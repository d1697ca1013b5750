# Verification of the AWS CDI SDK

TLA+ models of the SDK's core (`src/src/cdi`, `src/src/common`), the TLC
configurations that check them on small instances, and TLAPS proofs about them.
Paths below are relative to the repository; line numbers are those of the
modelled commit.

    tlc -config MCQueueTwoWriters.cfg MCQueue      # one run
    tlapm CdiQueue_proofs.tla                      # the proofs of one component

`PROJECT.json` lists the components, the runs, a mutant of the code for every
property that holds, the source lines of every definition (`map`), the hazards
the properties are aimed at, and the theorems.

## 1. Inventory

The SDK moves uncompressed video, audio and ancillary payloads between
applications over AWS EFA. An application creates an *adapter*, on it
*connections* (Tx or Rx), and each connection has *endpoints* (one per remote
peer; in a Tx connection one per destination, *stream* in the API's words).

| Component | State | Operations | Interacts through | What makes it correct |
|---|---|---|---|---|
| Queue (`queue.c`) | ring of list entries, read and write pointer, two signals | push, pop, with or without wait, flush, growth | every pair of threads of the SDK | no torn copy, first in first out, no lost wake-up |
| FIFO (`fifo.c`) | ring, two locks, two signals, full callback | read, write, flush | application callbacks, probe control | as the queue; nobody stuck behind a lock |
| Signals (`os_linux.c`) | counter and state per signal, mutex, other waiters | set, clear, wait for one or any of several | every thread | no lost wake-up; a signal nobody waits for can be deleted |
| Endpoint Manager (`endpoint_manager.c`) | endpoint list, command queue per endpoint, barrier (count, four signals), thread | queue reset/start, destroy one endpoint, shut down; barrier for poll and payload threads; connection state | signals and counters shared by five kinds of thread | threads stopped while resources change; counts exact; every command carried out; shutdown and destroy return |
| Adapter, poll thread (`adapter.c`) | endpoints in a poll group, Tx work signal, packet kept for a retry | poll, enqueue packets, start, reset, destroy | Endpoint Manager, EFA adapter, Tx/Rx callbacks | no packet left when the thread sleeps; none sent after its endpoint was reset |
| Tx connection (`internal_tx.c`) | payload queue, payload in progress, work request pools, list of completed requests | accept a payload, packetize, complete, flush on a reset | packetizer, adapter, callback thread | every accepted payload comes back exactly once, after its last packet |
| Packetizer (`payload.c`) | position in the scatter-gather list | next packet | Tx payload thread | packets cover the payload once, in order, none above the size limit |
| Rx connection (`internal_rx.c`) | window of payload states, pools, free-buffer queue, back pressure | receive packet, send payload, free buffers, flush on a reset | poll thread, application, receive buffer | a payload is delivered whole, once and in order; every packet buffer goes back |
| Packet reordering (`rx_reorder_packets.c`) | list of runs of consecutive packets | insert packet, join runs | Rx connection | runs disjoint, maximal, in order, contents right |
| Payload reordering (`rx_reorder_payloads.c`) | index of the next payload to deliver | look up, advance, flush the oldest | Rx connection | order across wrap-around; late packets told from early ones |
| Receive buffer (`receive_buffer.c`) | ordered list of payloads and times, thread | insert, send when due, flush | Rx connection | order kept, nothing late for ever |
| Pool (`pool.c`) | free list, in-use list | get, put, put all, grow | everything | an item is either free or in use, once |
| Probe (`adapter_efa_probe*.c`) | a state machine on each side, timeouts, retries | reset, version, ping, probe packets over EFA | control interface, Endpoint Manager | both sides agree that they are connected, and find out when they no longer are |
| Control interface, socket adapter | UDP sockets | send and receive datagrams | Probe | – (may lose, duplicate, delay) |
| EFA adapter (`adapter_efa*.c`) | libfabric endpoint, posted buffers, packets in flight | post, poll completions, open, close | Adapter, Probe | every posted work request completes once |
| Protocol (`protocol*.c`) | negotiated version | encode, decode, negotiate | Probe, Tx, Rx | decode inverts encode; both sides choose one version |
| AVM and raw API (`cdi_avm_*.c`, `baseline_profile*.c`, `anc_payloads.c`) | table of profiles | register and look up profiles, configurations as text, ancillary packets | application | what is sent is what is read; the table is whole for whoever searches it |
| Core (`internal.c`) | global lists, adapters and connections | create, destroy, transmit | application | a failed or completed call leaves nothing behind, threads run on live objects |
| Timeouts (`timeout.c`) | ordered list, thread | add, remove, expire | the unit tests only | fires or is removed, never both |
| Statistics, CloudWatch | counters, t-digest, requests | gather, post | Tx, Rx | – |
| Logger, lists, utilities | – | – | everything | primitives of every model |

Hard behaviours: five kinds of thread per connection that share signals and
queues without a common lock; one barrier that must stop them for a reset; a
probe protocol over UDP that loses, duplicates and delays; resets at any moment
of packetizing, of receiving and of delivering; packets and payloads out of
order in windows that wrap; pools that run out in the middle of an operation;
releases of the SDK that have to understand each other; constructors of twenty
steps any of which may fail; objects destroyed by one thread while another
waits on a signal inside them.

## 2. Plan

| # | Modules | Subject | Abstract specification | Proofs | State |
|---|---|---|---|---|---|
| 1 | `CdiQueue`, `BoundedQueue` | queue | bounded first-in first-out queue | types, safety, refinement | done |
| 2 | `EndpointManager` | barrier, commands, destroy, shutdown | – | types, counts, rounds of a receiver, destruction | done; rounds of a transmitter cannot be proved, they fail |
| 3 | `CdiFifo` | FIFO | `BoundedQueue` again | types, locks, wake-ups, refinement | done |
| 4 | `ProfileRegistry`, `BaselineProfiles`, `Ancillary`, `Avm` | AVM payloads | – | the table | done; formats are model-checked |
| 5 | `OsSignals` | signals of Linux | – | `DeletableWhenUnused`, no lost wake-up | done |
| 6 | `RxConnection` | packets to payloads to the application | payloads delivered whole and in order | types, conservation, window count, runs, order of delivery | done; resets and linear buffers to do |
| 7 | `TxPayloads`, `CdiPool` | payload from the application to its callback, packets, resets | each payload comes back once | types, conservation, `PacketsBelongToPayloads`, `ReturnsOnce`, until a loss | done for a connection that lasts; what resets do is checked |
| 8 | `Probe` | both state machines over a lossy channel | – | types, counts, `PacketsMeetTheirOwner` | done; `OnlyProvenConnections` and `NeverWaitsForItself` depend on how much goes wrong (section 5) |
| 9 | `Protocol`, `Packetizer`, `Interop` | releases that meet, packets they exchange | – | – (folds over data) | checked |
| 10 | `Objects`, `Lifecycle` | construction and destruction | – | – (a program that is executed) | checked |
| 11 | growth of `CdiPool`, receive buffer, resets in `RxConnection` | | | pool: free and in use are disjoint | to do |

`EndpointManager` treats the carrying out of a command as one step; what a
reset does to payloads in progress is an action of `TxPayloads`, how the probe
comes to ask for it is in `Probe`. All modules are written without RECURSIVE
operators, with named assumptions on their constants, so that proofs can be
added beside them.

## 3. The modules and the code

### `CdiQueue`, `BoundedQueue`: the queue

One popping thread and any number of pushing threads (several only with
`kQueueMultipleWritersFlag`, which is how the SDK uses it). A step is one access
to memory that the threads share, so that every interleaving of the lock-free
code is there.

| Model | Code (`queue.c`) |
|---|---|
| `next`, `item`, numbered list entries | `CdiQueueEntry` objects, `next_ptr` and `item_data_buffer` |
| `entry_read_ptr`, `entry_write_ptr`, `queue_item_count`, `queue_cur_grow_count`, the two signals, `multiple_writer_cs` | fields of `CdiQueueState` of those names |
| `w_*`, `r_*` | locals and control point of a call of `CdiQueuePush`, `CdiQueuePushWaitMultiple`; `CdiQueuePop`, `CdiQueuePopWaitMultiple` |
| `PushReserve`, `PushHasRoom`, `PushGrows`, `PushRefused`, `PushCopy`, `PushPublish`, `PushSignal` | `CdiQueuePush` with `QueueIncrease` and `AddEntriesToBuffers` |
| `PushWaitCall`, `PushWaitFullEntry`, `PushWaitCheck`, `PushWaitSignals`, ... | `CdiQueuePushWaitMultiple`, `WaitForSignals` |
| `Pop...`, `PopWait...` | `CdiQueuePop`, `CdiQueuePopWaitMultiple`, `WaitForSignals` |
| `Flush` | `CdiQueueFlush`, while no call of the queue is under way (its callers have to see to that) |

The signals are the manual-reset signals of `os_linux.c`: the lowest index that is
set wins, and setting a signal releases the threads that block on it even if it
is cleared before they run. `sent`, `out` and `got` are history variables.
`BoundedQueue` is the abstract specification; its queue is the items
published and not yet passed by the read pointer.

### `CdiFifo`: the FIFO

| Model | Code (`fifo.c`) |
|---|---|
| `head_index`, `tail_index`, `item_array`, the locks and signals | fields of `CdiFifoState` |
| `WriteCall` ... `WriteRelease` | `CdiFifoWrite`, one step per shared access; the lock is held for the whole call, waits included |
| the step at `"callback"` | the callback of a full FIFO, called under both locks |
| `ReadCall` ... `ReadRelease`, `flushing` | `CdiFifoRead`, and `CdiFifoFlush`, which calls it until it fails |

It implements `BoundedQueue` with one place less than it was created with. A
wait is `CdiOsSignalsWait` as `OsSignals` shows it.

### `OsSignals`: what threads sleep on

| Model | Code (`os_linux.c`) |
|---|---|
| `number`, `active` | `signal_count` without its lowest bit, and that bit |
| `others`, `slots` | `num_other_sigs`, `other_sigs_ptr_array` |
| `Set...` with `SetNotify` | `CdiOsSignalSet`: its own sleepers under the mutex, those of other signals after it |
| `WaitCall`, `WaitLock`, `WaitAdd`, `WaitRegister`, `WaitCheck`, `WaitUnregister`, ... | `CdiOsSignalsWait` for any signal of an array, with time-outs and wake-ups without a reason |

A wait for all signals of an array is left out; nothing in the SDK uses it.

### `EndpointManager`: the barrier

One connection, its poll thread, payload thread (transmitter only), Endpoint
Manager thread, the application thread that destroys the connection and, for
each endpoint, a probe thread that queues resets and starts and a thread that
may destroy the endpoint.

| Model | Code |
|---|---|
| `endpoint_list`, `command_queue`, `got_new_command`, the signals and counts | `EndpointManagerState`, `InternalEndpointState` |
| `SetCommand`, `SetCommandSignal` | `SetCommand`, in the two steps between which the signal is not yet set; the lock is `state_lock` |
| `Increment...`, `Decrement...` | `IncrementThreadWaitCount`, `DecrementThreadWaitCount`, one step per signal |
| `Manager...` | `EndpointManagerThread` |
| `PollCloses` ... `PollLeaves` | `EndpointManagerPoll` |
| `PollPass`, `PollStops`, `PollDrained`, `PollNext`, `PollWakes` | `PollThread`, `DataPoll` (`adapter.c`) |
| `Payload...` | `TxPayloadThread` (`internal_tx.c`), `EndpointManagerThreadWait` |
| `DestroyCall` ... `DestroyChecks` | `EndpointManagerEndpointDestroy` |
| `Shutdown...` | `EndpointManagerShutdownConnection`, `EndpointManagerDestroy` |

`Init` is a connection whose threads have registered. A command's effect on the
adapter and on payloads is the one step between `"execute"` and `"walk"`.
Work (payloads, completions, probe packets) appears as the actions
`WorkArrives` and `ProbePacket`, which only wake threads. Endpoints that are
freed while a thread walks the list are followed to any endpoint (`NextOf`).

### `RxConnection`: packets to payloads

The poll thread and the application, from a connection being established until
it is lost.

| Model | Code |
|---|---|
| `payload_state_array`, `rxreorder_current_index`, `rxreorder_buffered_packet_count`, `total_packet_count`, `back_pressure` | fields of `RxEndpointState` and `RxConState` (`private.h`) |
| a payload state's `runs` | its list of `CdiReorderList`s: each run is the sequence of its packets |
| `owner`, `held` | its `payload_memory_state_ptr` and the packet buffers on that state's list |
| `Placed`, `ListsFor` | `RxReorderPacket`, `ProcessList` (`rx_reorder_packets.c`) |
| `Packet...`, one action per outcome | `RxPacketReceive` (`internal_rx.c`) with `InitializePayloadState`, `FinalizePayload`, `RxReorderPayloadError` |
| `SendReady`, `SendEnds` | `RxReorderPayloadSendReadyPayloads`, `RxSendPayload` |
| `FlushSends`, `FlushSkips`, `FlushEnds` | `FlushPartialPayload`'s loop over the window (`rx_reorder_payloads.c`) |
| `AppTakes`, `AppFrees`, `RxPollFreeBuffer` | `AppCallbackPayloadThread`, `CdiCoreRxFreeBuffer`, `RxPollFreeBuffer` |

What is abstracted: one endpoint; `kCdiSgl` buffers; the data of a packet is one
unit; a payload state per number and a scatter-gather entry per packet buffer,
so that these two pools do not run out while those of memory states and
reorder lists do; assertions do nothing, as in a release build. The network
delivers each packet once and in any order (the reliable datagrams of EFA), and
a transmitter has at most `InFlight` payloads under way: its pool of payload
states does not grow (`internal_tx.c:574`), but a payload gives its state back when
its own packets are acknowledged, so that payloads may overtake one whose packet
is late. `arrived` is what `RxPacketReceive` has seen; the adapter hands packets over
in the order in which it received, i.e. acknowledged, them. `sent`, `starved` and
`lost` are history variables.

### `TxPayloads`, `CdiPool`: a payload and its packets

The sending side of one connection: application threads, the payload thread,
the poll thread, the callback thread, the probe as the source of losses, and
the Endpoint Manager's resets and starts.

| Model | Code |
|---|---|
| `CdiPool...`, `HasItem`, `NextItem`, `InUse` | a pool without growth (`pool.c`): the free list is a stack, the in-use list keeps the order in which the flush walks it |
| `Submit`, `GetPayloadState`, `PushPayload`, `Refuse` | `TxPayloadInternal` (`internal_tx.c`), between its steps other threads run |
| `payload_thread.pc`, `.state` | control point of `TxPayloadThread` and its `payload_processing_state` |
| `TakePayload`, `TakeNotification`, `TakeCompletion`, `LeaveBarrier` | the wait for a payload or a signal, `EndpointManagerThreadWait` |
| `FreeCompleted`, `Disconnected`, `GetWorkRequest`, `OutOfEntries`, `MakePacket`, `Enqueue` | `ProcessWorkRequestCompletionQueue` and the states of the loop, `PayloadPacketizerPacketGet` (`payload.c`) |
| `SendPacket`, `NothingToSend`, `NextEndpoint` | `DataPoll` with `GetNextPacket` (`adapter.c`), one step per endpoint of the walk |
| `RecheckReferences`, `PollAgain`, `Sleeps` | `PollThread` after the walk: the work signal and the sleep |
| `CompletePacket`, `TransferComplete`, `PutPayloadState` | `CdiAdapterTxPacketComplete`, `TxPacketWorkRequestComplete`, `PayloadTransferComplete` |
| `InvokeAppCallback` | `AppCallbackPayloadThread` (`internal.c`) |
| `LoseConnection`, `QueueCommand`, `Establish` | the probe (`adapter_efa_probe*.c`) |
| `ResetEndpoint`, `StartEndpoint` | the commands in `EndpointManagerThread`: `TxPayloadThreadFlushResources`, `CdiAdapterPollThreadFlushResources`, `CdiAdapterResetEndpoint` |

What is abstracted: bytes are counted in packets; a packet takes two
scatter-gather entries, its header's and its data's, and one of the two may be
held until the other is free; a payload has one source entry; packet headers
are as many as work requests, and large headers are left out; the signal of a
queue is set while the queue has items (how that can fail is the subject of
`CdiQueue`); the adapter's completions are taken one at a time, in any order;
the walk that looks again at the reference counts takes an endpoint a step; the
barrier is passed as it should be (how it is not is the subject of
`EndpointManager`), so that the flush is one step. `accepted`, `returned`,
`unacked`, `dropped` and `raced` are history variables.

`dropped` are payloads whose message found the queue to the callback thread
full: the code frees their source entries and tells nobody
(`internal_tx.c:666`). `raced` is set when a flush meets a call of
`TxPayloadInternal` that has its payload state and has not pushed it: the flush
puts the state back into the pool, the call pushes it nevertheless, and two
payloads share it (`internal_tx.c:799`). From there on anything may happen.

### `Probe`: from UDP to a connection

Both state machines, for both sides of this version of the SDK.

| Model | Code |
|---|---|
| `tx`, `rx` | `ProbeEndpointState` with its Tx or Rx part, and the adapter endpoint |
| `fifo` | `control_packet_fifo_handle`: control packets and state changes for one thread |
| `network`, `Lose`, `TxDeliver`, `RxDeliver` | the UDP control interface: packets may be lost, come twice or late |
| `TxProcessState`, `TxRead` | `ProbeControlThread` with `ProbeTxControlProcessProbeState`, `ProbeTxControlProcessPacket` (`adapter_efa_probe_tx.c`) |
| `RxProcessState`, `RxRead` | the same of `adapter_efa_probe_rx.c` |
| `commands`, `TxExecute...`, `RxExecute...`, `RxDestroyed` | resets and starts queued with the Endpoint Manager, carried out at a time of its own |
| `efa`, `EfaArrive`, `EfaComplete`, `EfaReceive` | probe packets and payloads over libfabric, completions, and the switch of callbacks (`EfaConnectionEnableApplication`) |
| `Tick` | time: units, with the code's constants in their real order |

Packet numbers and addresses are kept relative to the newest one. A counter
example that needs a packet to outlive 65536 commands is not found.

### `Protocol`, `Packetizer`, `Interop`: releases that meet

| Model | Code |
|---|---|
| `ProtocolVersionSet...`, `Negotiated` | `protocol.c`, `protocol_v1.c`, `protocol_v2.c`: how the version of the other side selects a protocol |
| `HeaderInit...`, `HeaderDecode...`, `ProbeHeader...` | what the headers of payload packets and probe commands keep of what they are made from, and their sizes |
| `PayloadInit`, and the operators of `Packetizer` | `payload.c`: pieces of the application's buffers, units, the limits of size and of entries, going on after an empty pool |
| `TxSends` ... `RxReplaced` | the handshake of `adapter_efa_probe_tx.c`, `adapter_efa_probe_rx.c` without its timers |
| `TxPayload`, `TxPacket`, `RxPacket` | cutting, sending and storing of payloads |

Bytes are abstracted to the fields of the packed structures with their widths,
payload data to positions. Releases are taken to be this code with their own
version numbers; release 1 knows the first layout only.

### `Objects`, `Lifecycle`: construction and destruction

`Objects` writes down, for every function that creates or destroys an object of
the SDK, its steps: what it allocates, stores, frees, signals, joins, in the
order of the code, and its error path. `Lifecycle` executes these programs, one
step at a time, for an application that initializes, creates and destroys, and
lets one step anywhere fail. `held` is what exists, `ptr` which pointers are not
null, `stack` the calls in progress. `Uses` lists what each thread uses once it
runs. The pools of a receiver that are sized by the protocol's payload numbers are
made, or made larger, when the probe learns the version (`VersionIsKnown`). What one
failure is known to do to the code is listed with its line in
`KnownLoss`, `KnownCrash` and `KnownStart`; everything else must be clean.

### `ProfileRegistry`, `BaselineProfiles`, `Ancillary`, `Avm`: media

| Model | Code |
|---|---|
| `ProfileRegistry` | `baseline_profile.c`: the table, filled by the first search under a static mutex and a flag looked at twice, extended by the application without the mutex |
| `BaselineProfiles` | `baseline_profiles_1_00.c`, `baseline_profiles_2_00.c`, `baseline_profiles.c`: configuration to text and back, unit sizes |
| `Ancillary` | `anc_payloads.c`, `cdi_avm_payloads_api.c`: words of ten bits with parity and checksum through words of 32 bits |
| `Avm` | `cdi_avm_api.c`, `internal_rx.c`: `CdiAvmTxPayload` to the receiver's callback, threads of one program that share the table |

## 4. The runs

| Run | Instance | Question |
|---|---|---|
| `queue_two_writers` | two pushers under the lock, two items, ring of 2 that grows once by 1, 3 pushes, timeouts | `NoTornCopy`, `PopperSleepsOnlyWhenEmpty`, refinement of `BoundedQueue` |
| `queue_waits` | one pusher, one popper, both wait for ever, ring grows once, 4 pushes | neither sleeps on a queue it could use; both get going again |
| `fifo` | two writers, ring of 3, 3 writes, waits timed or abortable, with and without callback | refinement of `BoundedQueue`; sleepers return |
| `signals` | three threads, an array of two signals, 2 slots, 1 set, 3 waits | a wait for a signal that was set ends; unused signals can be deleted |
| `manager_endpoints` | receiver or transmitter, two endpoints, a reset, two destructions, shutdown | counts exact, live endpoints, destruction, `DoneIsFinal` |
| `manager_commands` | receiver, one endpoint, two resets or starts, destruction, shutdown | commands in the barrier; every command, destruction and shutdown comes to its end |
| `rx` | 10 packets in 6 payloads of 1, 2 and 4 packets, a window of 4 | order of delivery, reorder lists, conservation of pools, count of the window |
| `tx` | one application thread, two streams, two payloads of 2 packets, 3 work requests, 5 scatter-gather entries, 2 batches, 2 packets in the adapter, 1 message, failing sends and completions, one loss | conservation, exact reference counts, nothing comes back twice, everything comes back, a reset leaves nothing |
| `probe` | one connection, one fault anywhere, or payloads under way and an error of the receiver | nobody waits for itself, packets meet their owner, only proven connections are reported, and one comes about |
| `interop` | releases 1.0, 2.0, 2.1, 2.3, 2.4, two payloads, two faults, a receiver may be replaced | both sides settle on the same; payloads are read as they were cut; they connect |
| `lifecycle` | a Tx and an Rx connection, one failure anywhere | nothing lost, nothing misused |
| `avm` | every value of every field, 22 lists of ancillary packets, payloads of other senders, one damaged bit, three threads on the table | the table is whole, configurations and packets arrive, damage is reported |

**Why the bounds are enough.** The queue's ring of two entries is full after
one item, wraps with every second and, with a growth, takes each of its
branches (full, grown, refused) in each wait; 3 and 4 pushes pass the ring's
end twice, and what is bounded is only how often it happens. The FIFO's ring of
three holds two items: with three writes it is full, empty and wrapped. Three
threads and two slots let one waiter enter and leave a slot while another is
found there by a set; a third waiter would find no place, which is a case of
its own (section 6). In the Endpoint Manager two endpoints are what it takes
for one to be destroyed while the other is walked, polled or destroyed; two
commands on a queue of two fill it, so that the shutdown command meets a full
queue; one command and a shutdown give the barrier two rounds, the number in
which one round can be confused with the next. In `MCRx.cfg` payload numbers
end at 4, so that the sixth payload has the number and the slot of the first, and
two payloads under way with a window of 4 packets are just what five slots can
take (`NumbersFit`). The window has room for the payload of four packets, so that
`DeliversInOrder`, which says nothing once the window was full, is asked of all six
payloads, across the wrap, and when the sixth is complete before the fifth: an
index that wraps a slot too early, its mutant, is found. Four packets in a payload
give two runs with a gap that a packet closes; two reorder lists, five memory states
(`PayloadNumMax + 1`), seven packet buffers, the window, a callback queue of 2 and a
free queue of 1 all run out in some behaviours and in others do not. In `MCTx.cfg` two payloads of
two packets need four work requests and eight scatter-gather entries where
there are three and five, so that the payload thread stops in the middle of a
payload and of a packet; the odd number leaves it with half of a packet; one
message slot is full when the callback thread is slow; the single loss meets
payloads in every stage, and a second meets nothing that the first did not,
since a reset empties all queues and pools; that free work requests keep a
pointer to their last payload (section 6) is harmless where a request taken
again finds its entries, as with the payloads here. Three constraints narrow that run: it ends at
`raced` (`BeforeRace`); connections are lost only where the other stream is not
in use, since a reset flushes the payloads of all (`OneEndpointIsLost`); and
the call that is refused comes before the payload thread has begun
(`LastCallIsRefused`). In `MCProbe.cfg` the probe's FIFO has 5 places where the
code has 20; below 4 (with a fault) or 5 (while payloads are sent) the probe
thread does wait for itself. In `MCInterop.cfg` a packet of 66 bytes holds two
bytes or more of payload, so that three headers of different sizes give
different cuts; units of 20 bits have a group of 5 bytes, and three entries
split packets at the ends of buffers. `MCAvm.cfg` takes the values of the
fields one field at a time, since no field's text depends on another's, and
lists of packets with 0 to 18 words, which pass through all layouts of a word, in
a buffer that has room or is a word short (a list without packets is written past
such a buffer, section 6);
`OneThingAtATime` keeps apart what does not meet: the application's
registrations and the contents of payloads.

**What a payload needs must fit**: a payload of more packets than
`WorkRequests`, than half of `PacketSglEntries` or of more batches than
`Batches` allow stops for ever, because nothing of a payload is freed until all
of it has been acknowledged (`internal_tx.c:984`); with `Batches = 1` TLC shows
it for two packets. In the code these limits are 12,000 entries, thus 6,000
packets with one entry of data each, and 48 batches.

**Symmetry** is used in `queue_two_writers` and `manager_endpoints`, which
state no liveness: pushers, items and endpoints are interchangeable there.

**Deadlock** is checked in the runs of the queue and of the Endpoint Manager.
The others model calls that are used up, payloads that end, or an application
that has shut down, and stop there.

**Fairness.** `CdiQueue`: a thread in the middle of a call goes on, since the
operating system schedules every runnable thread, and a wait whose abort signal
is set and seen returns. Nobody has to call a queue function, set the abort
signal or let a timeout expire. `CdiFifo`: the same, and a writer that waits
for the write lock gets it at some time (strong fairness: the lock is a mutex
that others take again and again). `OsSignals`: a thread that is not asleep goes
on, and one that waits for a mutex gets it (strong fairness). `EndpointManager`:
weak fairness of each of the four threads, of an announced command and of a
destroyer. The one strong assumption, of `PayloadNotified`, says that the
payload queue is not full for ever: `TxPayloadThread` prefers the queue to the
new-command signal (`CdiQueuePopWaitMultiple` looks at its signals only when
the queue is empty), so that a transmitter that always finds a payload does not
enter the barrier. Nothing is assumed about when the application shuts down,
destroys, or the probe resets. `TxPayloads`: each of the three threads goes on,
a call of `TxPayloadInternal` that was begun comes to its end, and the network
acknowledges every packet it was given, which is strong fairness of each
packet's completion, since the poll thread takes completions only in a part of
its loop. Nobody has to submit a payload. `Probe`: the threads, the network and
the clock go on (one step of them is always taken while one is possible), and
an application that sends goes on sending; faults are bounded. `Interop`: the
handshake goes on. The other modules state no liveness.

## 5. The proofs

Each is about every value of the constants that the named assumption of its
module admits. None of the properties is inductive as it stands; each proof
module defines an invariant `IInv` that is, proves that `Init` implies it and
that every action preserves it (one case per action, or per few that touch the
same variables), and takes the theorems from it. TLC checked each `IInv` on the
instance of a run before it was proved.

**`CdiQueue_proofs`** (`QueueAssumption`): `Invariance`, `TypeCorrect`,
`NoTornCopies`, `NoLostPopWakeUp`, `NoLostPushWakeUp`, `Refinement`. What makes
the properties inductive is `RingInv`: there is a listing `c` of all entries,
each once, in the order of their links, that begins at the read pointer; the
write pointer stands `Occupancy` entries behind it, and the entries between hold
the items pushed and not yet popped, in order. To this come `LockInv` (one
pusher past its reservation), `PusherInv` (what a pusher has read earlier is
still good enough: the read pointer can only have moved on, which makes room,
and nobody else moves the write pointer), `PopperInv` and `WaitInv` (who sleeps
has a wake-up on its way whenever there is something to wake up for). Three
lemmas say what an operation does to the listing: a pop or flush rotates it
(`CycleRotates`, `RingRotates`), a push leaves it and extends the occupied part
(`RingCopies`, `RingPublishes`), a growth inserts a run of new entries behind
the write entry (`CycleGrows`). `NoLostPushWakeUp` is for a queue without
`kQueueMultipleWritersFlag` (section 6).

**`CdiFifo_proofs`** (`FifoAssumption`): `Invariance`, `Exclusion`,
`NoLostWakeUp`, `Refinement`. `IInv` says who holds each of the two locks
(`ReadLockInv`, `WriteLockInv`), that what one side has seen of the other's
index stays good enough (`TakeInv`, `CopyInv`), and that the reader, or a
writer, that is about to sleep, or asleep, while there is something for it has
a thread that is just about to set its signal (`ReaderIsTold`,
`WritersAreTold`). The refinement maps the move of the head index to the put of
the bounded queue and the read of an item to its get; arithmetic of the ring is
in lemmas about `Held` and `Contents`.

**`EndpointManager_proofs`** (`ManagerAssumption`): `Invariance`, `TypeCorrect`,
`CountsHold`, `AssertsHold`, `DestroyedStaysGone`, `EndpointsStayLive`,
`BarrierHolds`, `DoneForGood`. The counts are cardinalities: of the threads in
the barrier (`CountInNumbers` turns it into a sum over the two threads) and of
the places taken in the command queues (`PlaceAdded`, `PlacesFreed`).
`RoundInv` carries `BarrierHolds` and `EndpointsStayLive`: between
`all_threads_waiting_signal` and `command_done_signal` the poll thread of a
receiver stands inside the barrier, neither still entering nor already leaving.
`ShutdownInv` orders what the shutdown has waited for, so that nobody else
frees endpoints behind the poll thread. The two asserts of
`endpoint_manager.c:331` and 421 follow from the counts. The rounds of a
transmitter are not proved because they go wrong (section 6,
`PayloadThreadIsStopped`): `RoundInv` speaks of receivers.

**`ProfileRegistry_proofs`** (`RegistryAssumption`): `RegistryStaysWhole`,
`FilledOnce`, and the invariant they rest on. `MutexInv` and `FlagInv` say what the
double check of `initialized` achieves: whoever is past it finds both releases
registered; `TableInv` and `AppendInv` say that entries stay distinct as long as
no registration was early or concurrent (`raced`).

**`OsSignals_proofs`** (`SignalsAssumption`): `Invariance`, `UnusedIsDeletable`,
`WakeUpsArrive`, `SlotsAreFound`, all as long as no wait has failed for want of a
slot (`overflow`; section 6 says what happens then). A thread that leaves a signal empties
*any* slot that names its first signal, also one another thread has filled, so
no slot has an owner and "each waiting thread has the slot it filled" is not
inductive, it is false. `PlacesInv` says instead that the slots of a signal
*can be given* to the threads it counts, one each, such that a slot names the
first signal of who was given it, a search has not passed the slot it is going
to find, and the thread that sets the signal has not passed the slot of a
sleeper that missed the change. Every step but four keeps the distribution
(`QuietPlaces`); a thread that is counted in gets a free slot by the pigeonhole
principle (`FreeSlot`, `AddedPlaces`), and a thread that takes or empties the
slot given to another one changes slots with it, which moves the other one up
(`SwapPlaces`), the only direction that is safe. The proof needs that signals
and threads are not the value `None`, an addition to `SignalsAssumption`.

**`Probe_proofs`** (`ProbeAssumption`, of which the proof needs that a FIFO has at
least two places: the code's has 20, its last place stays free): `TypeCorrect`,
`OwnersAreMet` and the invariant they rest on, for any number of probe packets,
retries and faults. `TypeOK` is itself a statement about limits: retries, waits
and resets never pass `TX_COMMAND_MAX_RETRIES`, `EFA_TX_PROBE_ACK_MAX_RETRIES`,
`RX_RESET_COMMAND_MAX_RETRIES`, whatever order messages, timeouts and the Endpoint
Manager come in; `CountInv` adds that a count at its limit is seen by the state that
tests it. `OwnerInv` strengthens `PacketsMeetTheirOwner`: a probe packet under way
belongs to a round of the transmitter that is not over, so that the completion
that ends the round is the last one; `PeerInv` says a reset takes the packet along
with the peer. Three properties of this module are not proved.
`OnlyProvenConnections` holds with the one fault of `MCProbe.cfg`, and not in general: with
four commands outstanding at a late Endpoint Manager (start, start, reset, start) and a late `Connected` that falls between the two `EfaStart` they bring,
`EfaTxProbeAcks` begins with the acknowledgements of the start before it
(section 6). `NeverWaitsForItself` depends on how many messages can be under way
at once, i.e. on `FifoSize` against the faults. `Settles` is liveness.

**`RxConnection_proofs`** (`RxAssumption`): `Invariance`, `TypeCorrect`,
`ResourcesStay`, `WindowCount`, `Runs`, `InOrder`, for any payloads and packets in any order,
any window, and pools and queues of any size that may run out at any packet.
`IInv` has three parts. `Kinds` says what a slot of the window can hold (`Sound`):
a payload that has ended with an error or is ignored holds no runs, a complete
one at most one, and the runs of one that is being received are `Maximal` and
have as many packets as it counts. `Balance` has the four sums that no step
changes. A sum is defined as the size of a set with as many elements as its
terms say (`Total`), because folds are out of the prover's reach; `TotalChanged`,
`TotalSkipped`, `TotalInserted`, `TotalAppended` and `TotalRemoved` say what a change of
one slot, or of one end of a queue, does to it. `Flushed` says which slots a flush
has dealt with (`Visited`, an interval that wraps): they count nothing, so that
a flush that has gone round leaves a window of no packets. That flush and the
limit are one property: without `Flushed`, "below the limit after each packet" is
not inductive. The reorder lists are in lemmas of their own (`Spliced`,
`PlacedFacts`, `PlacedMaximal`): placing a packet replaces at most two runs by one
that has their packets and the new one. The proof needs that no payload state
is the value `None`, an addition to `RxAssumption`.

`InOrder` is `DeliversInOrder` under `NumbersFit`: `InFlight + Window <= LastIndex + 2`, and
the payload numbers wrap where the slots do (they are fewer, or a multiple of
them). Both are needed (section 6), and both hold for the library with protocol
2: 8 payloads under way, a window of 5000 packets, 8192 slots and 65536 numbers;
`max_simultaneous_tx_payloads` may be up to 3193. The invariant is `Ordered`: until a
pool runs out or the window is full, the first `Len(sent)` payloads have been
delivered whole, the index stands at the slot of the next one, and for each payload of
the window what its slot holds `Follows` from the packets that have arrived:
nothing, a state that waits for packet zero, one in progress, or one complete run.
No packet is of a payload beyond the window (`SlotsSuffice`): between the awaited payload and the packet's lie fewer
than `InFlight` incomplete payloads, and fewer than `Window` complete ones, since each
counts a packet at least in the window (`CompleteCounts`, an injection of payloads
into the units of the sum). `RunsOfPayload` says that maximal runs with as many
packets as the payload are one run with all of them, so that `PacketMismatch` never
happens here; `SlotForFacts` that the slots of a window are distinct, from six
lemmas on remainders.

**`TxPayloads_proofs`** (`TxAssumption`): `CalmInvariant`, `NothingIsLostOrDoubled`,
`PacketsBelongUntilALoss`, `ReturnsOnceUntilALoss`, for any number of application
threads, streams, payloads of any number of packets, and pools and queues of any
size that may run out at any step. Two hypotheses, both because the claim is
false without: `"Retry" \notin SendResults`, since a packet whose send must be tried again
is lost when the walk over the endpoints ends (section 6); and `losses = 0`, i.e.
until the first reset (`Undisturbed` has it in `ResourcesAreConserved` already), since a
reset may flush what is not in use. Sends and acknowledgements may fail. `IInv` says
where everything is. `SlotsApart`: a payload state in use is with one caller, in
the queue, in the hand of the payload thread, on its way, or in the hand of the
poll thread. `LinesApart`, `PacketsBelong`, `RequestsApart`: a work request is in the list being
built, in one batch of one endpoint, in flight, completed, or waiting to be
freed, once, and those on their way name a payload state that is in use and not
fresh, of their endpoint. `PacketsCounted` and `LastIsLast` tell when a payload is complete: the
packets completed and those on their way are at most those made, all of them
once the thread has moved on, and one of them is marked last once all are made;
without them a payload state could be given back while packets name it.
`Counted` is the reference count as a sum of packets and of payloads that have begun and
whose last packet is out; `EntriesKeptTrack` includes the entries of a packet
that is half made; `ToldOnce` joins the messages, the calls made and the payloads held. `Control`
says what each thread has in its hands at each step. Frames (`SlotsFrame` to `QuietFrame`)
say what a step leaves alone; large steps have a lemma for their effect
(`PacketMade`, `PacketCompleted`, `FreeEffect`) and one for the invariant.
`WorkRequestsHavePlaces` states that the places are disjoint by adding up
cardinalities; the proof goes from pairwise disjointness to the sum
(`RequestsArePlaced`).

**Only model-checked**: liveness (everything under fairness) and ENABLED are out
of the prover's reach, and so is what a fold over data computes for every input
(`Packetizer`, `Protocol`, `Ancillary`, `BaselineProfiles`, and the refinement
of payloads as text or bits). `Lifecycle` executes programs that are data: its
properties are about the particular programs of `Objects`, which TLC runs
through. Of `TxPayloads`, `ResetLeavesNothing`, and what becomes of `ReturnsOnce` and
`PacketsBelongToPayloads` after a loss, stay with TLC: what a flush frees is found
by a fold over the work requests in use, and rests on pointers that may be
stale (`FlushesOnlyWhatIsInUse`), so that the two hold of some instances only.
`NeverWaitsForItself` and `OnlyProvenConnections` depend on the sizes of queues against
what is under way, as said above. `Interop` and
`Avm` are about formats, i.e. folds over data.

## 6. Findings

No run expects a violation. What follows was found while modelling: properties
stated in the modules that TLC refutes on the instance named with each, and
what the reading of the code showed.

Refuted properties:

- `AbortEndsPopWait` (`MCQueueWaits.cfg` with `GrowCount = 0`, `MaxGrowCount = 0` and
  `MaxPushes = 3`): a push publishes its item before it sets the signal. A popper that
  takes the item in between, and calls again on the empty queue, is woken by
  the late signal and then finds it set for ever: it spins without looking at its
  timeout or abort signal until something is pushed (`queue.c:471`). The FIFO has the
  same late set on both sides.
- `WaitingPushReturns` and `PusherSleepsOnlyWhenFull` with two pushers that wait: each
  clears the signal the other waits for (`queue.c:501`). No queue of the SDK is used
  in that way.
- `ShutdownCompletes` without its `~Transmitter` (`MCManagerCommands.cfg` with
  `Transmitters = {TRUE}` and `MaxCommands = 1`): the payload thread that sees `got_shutdown` takes part in one more round, which may be
  an earlier command's; the shutdown's round then never fills.
- `PayloadThreadIsStopped` (`MCManagerCommands.cfg` with `Transmitters = {TRUE}`): the poll thread enters the next round of the
  barrier while the payload thread has not left the last: it is counted in its
  place, and a command is carried out while the payload thread works.
- `PollThreadStops` (the same with `MaxCommands = 0`, `Destroyers = {TRUE}`): after
  the last stream has been destroyed the shutdown has no endpoint to send its
  command to; the poll thread sleeps on.
- `PollThreadIsStopped`, `DrainIsStopped` (`MCManagerCommands.cfg`): the decision to
  poll an endpoint is made before the barrier is complete and carried out after, so
  that a receiver polls an endpoint during its reset (`endpoint_manager.c:1290`); the
  last polls of a receiver that shuts down do not take part in the barrier
  (`adapter.c:328`).
- `DestroyReturns` (`MCManagerCommands.cfg` with two endpoints and `MaxCommands = 0`):
  of two endpoints destroyed at a time, one's probe thread spins on the shared
  `endpoints_destroyed_signal` while the poll thread joins it.
- `SeekPassesThrownAway` (`MCRx.cfg`): the window is moved to the first payload that is
  left after back pressure, but a thrown-away payload has been given a slot and
  counts as one (`rx_reorder_payloads.c:278`).
- `DeliversInOrder` without `NumbersFit`. With numbers that wrap elsewhere than the
  slots (`PayloadNumMax = 2`, `Buffer = 2`, `Window = 2`, payloads of one packet) the index
  waits at a slot that the next payload does not get; the code's numbers are
  powers of 2. With too few slots (`MCRx.cfg` with `InFlight = 3`) payloads complete behind one
  that waits for a late packet, until one comes round to its slot: its packets are
  taken for those of the one that waits, as `RxPacketReceive` compares no payload
  numbers. The static assertion compares the window with the slots
  (`rx_reorder_payloads.c:34`), not with the numbers: protocol 1 has 256 of them
  (`protocol_v1.c:467`) and the same window of 5000 packets, so that 255 payloads of
  fewer than 20 packets each, sent while one packet is late, are enough. With
  protocol 2 there is no such case.
- `OnePayloadPerState` (`MCRx.cfg`): a late packet of a payload that was flushed and
  ignored long ago starts a new state in its slot, and the payload whose number falls
  into the slot next gets its packets mixed with it (`internal_rx.c:291`).
- `EveryPayloadReturns` (`MCTx.cfg` with `SendResults = {"Ok", "Retry"}`): `packet_ptr`,
  which keeps a packet whose send must be tried again, is a local variable of
  `DataPoll`: when the walk over the endpoints ends the packet is gone, and its
  payload never completes (`adapter.c:276`).
- `FlushesOnlyWhatIsInUse` (`MCTx.cfg` with `Streams = 1`, payloads of 2, 1 and 3 packets,
  `PayloadNumMax = 3`, `Messages = 2`, no failures, of the constraints `BeforeRace` alone):
  of the work requests of a payload that completes, only the last gets
  `payload_state_ptr = NULL`, "so it cannot be accidentally used later"
  (`internal_tx.c:985`); the others go back to the pool with the pointer. When one is
  taken for a packet that has to wait for scatter-gather entries (of which there
  are as many as work requests, `configuration.h:104` and 112, and a packet needs two
  or more: they run out first), it is in use and names the earlier payload. A
  reset at that moment frees that payload again (839): its state and its source
  entries are put a second time, the free list has the same state twice, and the
  application that was told `kCdiStatusOk` is told `kCdiStatusSendFailed`. With it
  `ReturnsOnce` fails; in the instance of `MCTx.cfg` itself a request taken again
  always finds its entries.
- `OkMeansAcknowledged` (`MCTx.cfg`): a completion with an error is counted like one
  without (`adapter_efa_tx.c:203`), and the application is told `kCdiStatusOk`.

- `StaysInBuffer` (`MCAvm.cfg`): `CdiAvmPacketizeAncillaryData` is to "abort when it
  would grow larger than the buffer size" (`cdi_avm_payloads_api.c:187`), but compares
  the sizes once per packet only (193): with no packets and a buffer of less than 4
  bytes the payload header is written past its end, and the status is `kCdiStatusOk`.
  `Avm` sends such a payload, with that word as it was written or overwritten;
  `PacketsArrive` is about the payloads that had room.

Visible in the models, outside what the properties state:

- Tx: a flush empties the payload queue without a word to the application, and
  payloads with no work request yet are forgotten; it is of the whole connection, so
  that a reset of one stream takes payloads and work requests of the others away, and
  clears the work signal of all; any command, also a start, makes the payload thread
  drop the payload in its hand (`internal_tx.c:252`).
- Rx: the memory state of an erred payload that meets a full callback queue is lost
  (`internal_rx.c:1049`); a payload whose `FinalizePayload` fails is delivered as
  complete; the assertion in line 918 is not true of an erred payload; a complete
  payload that `FlushPartialPayload` uncovers waits for the next packet. A reset
  leaves `rxreorder_current_index` (812) and `free_buffer_queue` (1157) as they are;
  `RxEnqueueFreeBuffer` returns with `endpoint_lock` held when the endpoint is not
  connected (1134); an empty scatter-gather pool drops entries
  (`rx_reorder_packets.c:275`).
- Signals: a waiter that finds no slot (the 51st) subtracts `num_other_sigs` a second
  time on its way out (`os_linux.c:849`, 861), and later sets look at too few slots.
  The properties of `OsSignals` exclude it (`overflow`).
- FIFO: the callback of a full FIFO takes the read lock under the write lock and
  deadlocks with a reader that sleeps in a read (CloudWatch's callback reads,
  `cloudwatch.c:63`).
- Probe: `Connected` may be told of an endpoint that was closed meanwhile; a late
  duplicate of a reset resets a good connection; a stale `EfaStart` in the FIFO meets
  an assertion (`crash`); completions of the application's packets count as probe
  acknowledgements while it sends (hence `~sends` in `PacketsMeetTheirOwner`); with
  `ReusesAddress` the receiver stays disconnected while payloads flow; with a FIFO of
  the transmitter that holds `EfaStart`, `EfaConnected`, `ResetDone` in this order the
  count of acknowledged packets is stale when the probe starts again
  (`OnlyProvenConnections`; the steps from that FIFO on were run by TLC, that an
  Endpoint Manager late enough fills it so was found by reading).
- Protocol: the test of the major version in `protocol_v2.c:485` includes equality, so
  that a newer probe version is accepted and the third branch is dead; the reset of a
  connected transmitter is written with the negotiated version
  (`adapter_efa_probe_tx.c:285`) although `adapter_efa_probe.c:33` says resets carry
  1.0: a receiver replaced by release 1 never reconnects (`Stuck`);
  `packet_sequence_num` has 16 bits (`payload.h:49`) and wraps to a second packet 0;
  `protocol_handle` is freed on a reset (`adapter_efa_probe_rx.c:273`) while the poll
  thread may read through it (`internal_rx.c:886`); `RxEndpointCreateDynamicPools`
  destroys pools in use when a sender of protocol 2 follows one of protocol 1;
  `cdi_core_api.h:359` says that units are not split, which `payload.c:211` does when a
  group does not fit.
- AVM: a registration before the first search becomes the default although
  `baseline_profile.c:165` and the API's comment say 01.00 is; unsynchronised
  registrations can be lost (`raced`); a configuration that fails to parse has been
  cleared and partly filled, against "no parameters are written"
  (`cdi_baseline_profile_api.h`); an empty ancillary packet reads an uninitialised
  `user_data[0]` in an assertion; the count of packets is cut to 16 bits; the payload
  has a header of one word (`cdi_avm_payloads_api.c:167` and 189, `anc_payloads.c:135`),
  as `PacketsArrive` states, where `cdi_avm_payloads_api.h:129` says "prefixed with a
  two-word header".
- Lifecycle: the failures of `KnownLoss` and `KnownCrash`, each with its line
  (`pool.c:302`, `adapter_efa_rx.c:238`, `adapter_socket.c:246`, `adapter.c:554`, 758,
  842, 951, `internal.c:507`, 709, `internal_tx.c:516`, 705, `endpoint_manager.c:581`,
  `logger.c:307`); the status of a receiver whose pools could not be made when the
  version was known is ignored (`adapter_efa.c:1220`), and the first packet is looked
  up in a pool that is not there (by reading); and a payload thread that a shared
  start signal starts on a half-built connection (`os_linux.c:435`).

## 7. Not modelled

Threads registering and endpoints being created while a connection runs (`Init`
of `EndpointManager` starts after it) and `EndpointManagerConnectionStateChange`;
what a reset does to a receiver's window, and linear receive buffers; large
packet headers and several connections in one poll thread; growth of pools; the
thread of the receive buffer, whose only subject is real time; `timeout.c`,
which only the unit tests use; waits for all signals; statistics, the
formatting and files of the logger, sockets, `os_windows.c`; the raw API, which
passes its arguments on. libfabric, the sockets and the web service are the
environment. Memory ordering is sequentially consistent in all modules: the
code uses atomic built-ins for the queue's pointers and full barriers in its
signals. `PROJECT.json` lists each part with its status.

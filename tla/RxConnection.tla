---------------------------- MODULE RxConnection ----------------------------
(***************************************************************************)
(* The receiving side of a connection: packets that the network delivers   *)
(* in any order become payloads, and payloads reach the application in the *)
(* order in which they were sent (src/cdi/internal_rx.c,                   *)
(* rx_reorder_packets.c, rx_reorder_payloads.c).                           *)
(*                                                                         *)
(* Two threads.  PollThread receives packets (RxPacketReceive), sends      *)
(* payloads that are ready, flushes the window when it is full and takes   *)
(* back what the application has freed (RxPollFreeBuffer); the application *)
(* takes payloads from the callback queue and frees them in any order.     *)
(*                                                                         *)
(* One endpoint, scatter-gather mode (kCdiSgl), from a connection being    *)
(* established until it is lost: resets are not part of this module.       *)
(* There is a payload state for every payload number and a scatter-gather  *)
(* entry for every packet buffer, so those two pools never run out here.   *)
(* The data of a packet is one unit.  The assertions of RxPacketReceive do *)
(* nothing, as in a release build.                                         *)
(***************************************************************************)
EXTENDS Integers, SequencesExt, FiniteSetsExt

CONSTANTS
  Sizes,         \* packets of each payload, in the order of sending
  InFlight,      \* payloads the transmitter has under way at once
  PayloadNumMax, \* payload_num_max of the protocol: numbers wrap after it
  Buffer,        \* CDI_MAX_RX_PAYLOAD_OUT_OF_ORDER_BUFFER
  Window,        \* CDI_MAX_RX_PACKET_OUT_OF_ORDER_WINDOW
  PacketBuffers, \* packet buffers posted to the adapter
  ReorderLists,  \* size of reorder_entries_pool
  QueueSize,     \* size of active_payload_complete_queue
  FreeQueueSize, \* size of free_buffer_queue
  None           \* an empty slot of payload_state_array_ptr

(* CdiPayloadState.                                                        *)
States == {"Idle", "InProgress", "PacketZeroPending", "Complete", "Error", "Ignore"}

ASSUME RxAssumption ==
  /\ Sizes \in Seq(Nat \ {0})
  /\ {InFlight, PacketBuffers, ReorderLists, QueueSize,
      FreeQueueSize, PayloadNumMax} \subseteq Nat \ {0}
  /\ Buffer \in Nat \ {0} /\ Window \in 1 .. Buffer
  /\ None \notin [state : States, runs : Seq(Seq([payload : Nat, sequence : Nat])),
                  expected : Nat, packet_count : Nat, last_total_packet_count : Nat,
                  owner : BOOLEAN, held : Nat]

VARIABLES
  arrived,       \* packets the network has delivered
  posted,        \* packet buffers the adapter can fill
  payload_state_array, rxreorder_current_index,
  rxreorder_buffered_packet_count, total_packet_count,
  back_pressure, \* back_pressure_state of the connection is Active
  free_memory, free_lists, \* items left in the two pools
  complete_queue,    \* active_payload_complete_queue
  held_by_app,       \* packet buffers of each payload the application has
  free_buffer_queue, \* packet buffers of each payload it has freed
  pc,                \* PollThread: "poll", "send" or "flush"
  flush_idx, flush_start,
  sent,          \* history: what RxSendPayload was called with
  starved,       \* history: a pool was empty or the window was full
  lost           \* history: memory states that nothing refers to any more

network == <<arrived, posted, total_packet_count>>
window == <<payload_state_array, rxreorder_current_index,
            rxreorder_buffered_packet_count>>
pools == <<free_memory, free_lists>>
application == <<held_by_app, free_buffer_queue>>
flushing == <<flush_idx, flush_start>>
history == <<sent, starved, lost>>
vars == <<network, window, back_pressure, pools, complete_queue, application,
          pc, flushing, history>>

Payloads == 1 .. Len(Sizes)
Packet(k, s) == [payload |-> k, sequence |-> s]
PacketsOf(k) == {Packet(k, s) : s \in 0 .. Sizes[k] - 1}
Whole(k) == [i \in 1 .. Sizes[k] |-> Packet(k, i - 1)]

(* Numbers start at 0; a number has the slot of its low bits.              *)
LastIndex == Min({PayloadNumMax, Buffer - 1})
Slots == 0 .. LastIndex
SlotOf(p) == ((p.payload - 1) % (PayloadNumMax + 1)) % Buffer

\* Mutant: the index wraps a slot too early.
WrapsEarly(i) == IF i + 1 >= LastIndex THEN 0 ELSE i + 1

AdvanceStateArrayIndex(i) == IF i + 1 > LastIndex THEN 0 ELSE i + 1

(* RxEndpointCreateDynamicPools: memory states, one per payload number.    *)
MemoryStates == PayloadNumMax + 1

(***************************************************************************)
(* A reorder list ("run") is a sequence of packets, the reorder lists of a *)
(* payload are a sequence of runs.                                         *)
(***************************************************************************)
Top(run) == Head(run).sequence
Bottom(run) == Last(run).sequence

(* The runs that ProcessList passes when it looks for the place of p.      *)
Passed(runs, p) ==
  Max({n \in 0 .. Len(runs) : \A i \in 1 .. n : p.sequence > Bottom(runs[i])})
FitsBelow(runs, p) ==
  LET n == Passed(runs, p) IN n > 0 /\ p.sequence = Bottom(runs[n]) + 1
\* Mutant: the run below is joined only when there is none above.
FitsAboveFirst(runs, p) ==
  runs # <<>> /\ Passed(runs, p) = 0 /\ p.sequence = Top(runs[1]) - 1

FitsAbove(runs, p) ==
  LET n == Passed(runs, p) IN n < Len(runs) /\ p.sequence = Top(runs[n + 1]) - 1

(* How many reorder lists storing p takes from the pool (-1: gives back).  *)
ListsFor(runs, p) ==
  1 - (IF FitsBelow(runs, p) THEN 1 ELSE 0) - (IF FitsAbove(runs, p) THEN 1 ELSE 0)

(* RxReorderPacket: p joins the run above it, the run below it, both or    *)
(* neither.                                                                *)
Placed(runs, p) ==
  LET n == Passed(runs, p)
      above == IF FitsBelow(runs, p) THEN runs[n] ELSE <<>>
      below == IF FitsAbove(runs, p) THEN runs[n + 1] ELSE <<>>
  IN  SubSeq(runs, 1, IF above = <<>> THEN n ELSE n - 1)
      \o << above \o <<p>> \o below >>
      \o SubSeq(runs, IF below = <<>> THEN n + 1 ELSE n + 2, Len(runs))

(* The sum of the values of a function, as the size of a set that has f[x] *)
(* elements for every x.                                                   *)
Units(f) == UNION {{x} \X (1 .. f[x]) : x \in DOMAIN f}
Total(f) == Cardinality(Units(f))

Received(runs) == Total([r \in DOMAIN runs |-> Len(runs[r])])

(***************************************************************************)
(* Payload states.  "owner" says that the state holds a memory state and,  *)
(* through it, the packet buffers it counts in "held".                     *)
(***************************************************************************)
Pending == {"InProgress", "PacketZeroPending"}
NewState ==
  [state |-> "Idle", runs |-> <<>>, expected |-> 0, packet_count |-> 0,
   last_total_packet_count |-> 0, owner |-> FALSE, held |-> 0]

IsStale(st) == total_packet_count - st.last_total_packet_count > Window

(* The payload state that a packet for slot i finds.                       *)
StateGet(i) ==
  LET st == payload_state_array[i]
  IN  IF st = None THEN NewState
      ELSE IF st.state = "Ignore" /\ IsStale(st) THEN NewState
      ELSE st

(* InitializePayloadState or, for a payload in progress, the effect of     *)
(* packet zero.                                                            *)
Started(st, p) ==
  IF p.sequence = 0 /\ st.state \in {"Idle", "PacketZeroPending"}
  THEN [st EXCEPT !.state = "InProgress", !.expected = Sizes[p.payload], !.owner = TRUE]
  ELSE [st EXCEPT !.state = IF @ = "Idle" THEN "PacketZeroPending" ELSE @,
                  !.owner = TRUE]

\* Mutant: the list of packet buffers is freed but not cleared.
ErredKeepsBuffers(st) == [st EXCEPT !.state = "Error", !.runs = <<>>]

(* RxReorderPayloadError: all but the memory state is freed.               *)
Erred(st) == [st EXCEPT !.state = "Error", !.runs = <<>>, !.held = 0]

Stored(st, p) ==
  [st EXCEPT !.runs = Placed(@, p), !.held = @ + 1, !.packet_count = @ + 1,
             !.last_total_packet_count = total_packet_count]
IsFull(st) == st.state = "InProgress" /\ Received(st.runs) >= st.expected
IsGood(st) == Received(st.runs) = st.expected /\ Len(st.runs) = 1

(* FinalizePayload fails: the payload is complete all the same, without    *)
(* the packets of more than one run.                                       *)
Mismatched(st, p) ==
  [st EXCEPT !.state = "Complete",
             !.runs = LET r == Placed(@, p) IN IF Len(r) = 1 THEN r ELSE <<>>]
-----------------------------------------------------------------------------
Init ==
  /\ arrived = {} /\ posted = PacketBuffers /\ total_packet_count = 0
  /\ payload_state_array = [i \in Slots |-> None]
  /\ rxreorder_current_index = 0 /\ rxreorder_buffered_packet_count = 0
  /\ back_pressure = FALSE
  /\ free_memory = MemoryStates /\ free_lists = ReorderLists
  /\ complete_queue = <<>> /\ held_by_app = <<>> /\ free_buffer_queue = <<>>
  /\ pc = "poll" /\ flush_idx = 0 /\ flush_start = 0
  /\ sent = <<>> /\ starved = FALSE /\ lost = 0

(***************************************************************************)
(* RxPacketReceive.  The transmitter sends a payload only when fewer than  *)
(* InFlight of those before it, not always the last, are not acknowledged. *)
(***************************************************************************)
InNetwork(p) ==
  /\ p \in PacketsOf(p.payload) \ arrived
  /\ Cardinality({k \in 1 .. p.payload - 1 : ~ (PacketsOf(k) \subseteq arrived)}) < InFlight

Arrive(p) ==
  /\ pc = "poll" /\ posted > 0 /\ InNetwork(p)
  /\ arrived' = arrived \cup {p}
  /\ total_packet_count' = total_packet_count + 1
  /\ pc' = "send"
  /\ UNCHANGED <<application, flushing, sent, lost>>

HasRoom == Len(complete_queue) < QueueSize
Notice == [status |-> "BackPressure", owner |-> FALSE, held |-> 0]

(* CdiAdapterFreeBuffer takes the packet back at once; while there is back *)
(* pressure the application hears of every packet thrown away.             *)
ThrowAway(active) ==
  /\ complete_queue' = IF active /\ HasRoom
                       THEN Append(complete_queue, Notice) ELSE complete_queue
  /\ UNCHANGED <<rxreorder_current_index, rxreorder_buffered_packet_count>>

(* The payload is complete, erred or ignored.                              *)
PacketUnwanted(p) ==
  /\ Arrive(p)
  /\ StateGet(SlotOf(p)).state \in {"Complete", "Error", "Ignore"}
  /\ ThrowAway(back_pressure)
  /\ UNCHANGED <<posted, payload_state_array, back_pressure, pools, starved>>

(* The pool of memory states is empty.                                     *)
PacketStarved(p) ==
  /\ Arrive(p)
  /\ StateGet(SlotOf(p)).state = "Idle" /\ free_memory = 0
  /\ payload_state_array' = [payload_state_array EXCEPT ![SlotOf(p)] = NewState]
  /\ back_pressure' = TRUE /\ starved' = TRUE
  /\ ThrowAway(TRUE)
  /\ UNCHANGED <<posted, pools>>

(* A packet for a payload that has a memory state, or gets one.            *)
PacketWanted(p) ==
  /\ Arrive(p)
  /\ LET st == StateGet(SlotOf(p))
     IN  \/ st.state = "Idle" /\ free_memory > 0 /\ free_memory' = free_memory - 1
         \/ st.state \in Pending /\ UNCHANGED free_memory

WantedBy(p) == Started(StateGet(SlotOf(p)), p)

(* The pool of reorder lists is empty.                                     *)
PacketNoList(p) ==
  LET st == WantedBy(p)
  IN  /\ PacketWanted(p)
      /\ ListsFor(st.runs, p) > free_lists
      /\ payload_state_array' = [payload_state_array EXCEPT ![SlotOf(p)] = Erred(st)]
      /\ posted' = posted + st.held
      /\ free_lists' = free_lists + Len(st.runs)
      /\ starved' = TRUE
      /\ ThrowAway(back_pressure)
      /\ UNCHANGED back_pressure

(* What becomes of slot i when packet p is kept.                           *)
Keep(p, st) ==
  /\ posted' = posted - 1
  /\ payload_state_array' = [payload_state_array EXCEPT ![SlotOf(p)] = st]
  /\ rxreorder_buffered_packet_count' = rxreorder_buffered_packet_count + 1
  /\ UNCHANGED <<complete_queue, starved>>

PacketStored(p) ==
  LET st == WantedBy(p)
  IN  /\ PacketWanted(p)
      /\ ListsFor(st.runs, p) <= free_lists
      /\ ~IsFull(Stored(st, p))
      /\ Keep(p, Stored(st, p))
      /\ free_lists' = free_lists - ListsFor(st.runs, p)
      /\ UNCHANGED <<rxreorder_current_index, back_pressure>>

(* RxReorderPayloadSeekFirstPayload: to the first slot in use, if any.     *)
SeekFirst(array) ==
  LET Ahead(d) == (rxreorder_current_index + d) % (LastIndex + 1)
      used == {d \in 0 .. LastIndex : array[Ahead(d)] # None}
  IN  IF used = {} THEN rxreorder_current_index ELSE Ahead(Min(used))

(* The last packet of a payload.                                           *)
PacketCompletes(p) ==
  LET st == WantedBy(p)
      done == Stored(st, p)
  IN  /\ PacketWanted(p)
      /\ ListsFor(st.runs, p) <= free_lists
      /\ IsFull(done) /\ IsGood(done)
      /\ Keep(p, [done EXCEPT !.state = "Complete"])
      /\ free_lists' = free_lists - ListsFor(st.runs, p) + 1
      /\ rxreorder_current_index' =
           IF back_pressure THEN SeekFirst(payload_state_array') ELSE rxreorder_current_index
      /\ back_pressure' = FALSE

(* Enough data, but not one run of the expected size.                      *)
PacketMismatch(p) ==
  LET st == WantedBy(p)
  IN  /\ PacketWanted(p)
      /\ ListsFor(st.runs, p) <= free_lists
      /\ IsFull(Stored(st, p)) /\ ~IsGood(Stored(st, p))
      /\ payload_state_array' =
           [payload_state_array EXCEPT ![SlotOf(p)] = Mismatched(st, p)]
      /\ free_lists' = free_lists + Len(st.runs)
      /\ ThrowAway(back_pressure)
      /\ UNCHANGED <<posted, back_pressure, starved>>

RxPacketReceive(p) ==
  \/ PacketUnwanted(p) \/ PacketStarved(p) \/ PacketNoList(p)
  \/ PacketStored(p) \/ PacketCompletes(p) \/ PacketMismatch(p)

(***************************************************************************)
(* SendPayloadIfCompleteOrError, for a state that is one or the other.  If *)
(* the queue is full a complete payload is freed; of an erred one the      *)
(* memory state stays behind.                                              *)
(***************************************************************************)
Entry(st) ==
  [status |-> IF st.state = "Complete" THEN "Ok" ELSE "Error",
   owner |-> TRUE, held |-> st.held]
(* FinalizePayload has left one run, or none of a payload with an error.   *)
Sgl(st) == IF st.runs = <<>> THEN <<>> ELSE Head(st.runs)
Freed(st) == ~HasRoom /\ st.state = "Complete"
\* Mutant: SetIgnoreState leaves the packet count.
IgnoredKeepsCount(st) == [st EXCEPT !.state = "Ignore", !.owner = FALSE]

Ignored(st) == [st EXCEPT !.state = "Ignore", !.packet_count = 0, !.owner = FALSE]
AfterSend(st) == IF st.state = "Complete" THEN None ELSE Ignored(st)
DecreasePacketWindowCount(n) == Max({rxreorder_buffered_packet_count - n, 0})

SendPayload(i, st) ==
  /\ complete_queue' = IF HasRoom THEN Append(complete_queue, Entry(st)) ELSE complete_queue
  /\ free_memory' = IF Freed(st) THEN free_memory + 1 ELSE free_memory
  /\ lost' = IF HasRoom \/ Freed(st) THEN lost ELSE lost + 1
  /\ rxreorder_buffered_packet_count' = DecreasePacketWindowCount(st.packet_count)
  /\ payload_state_array' = [payload_state_array EXCEPT ![i] = AfterSend(st)]
  /\ rxreorder_current_index' = AdvanceStateArrayIndex(i)
  /\ sent' = Append(sent, [status |-> Entry(st).status, sgl |-> Sgl(st)])

IsReady(st) == IF st = None THEN FALSE ELSE st.state \in {"Complete", "Error"}

(* RxReorderPayloadSendReadyPayloads, one payload per step.                *)
SendReady ==
  LET i == rxreorder_current_index
      st == payload_state_array[i]
  IN  /\ pc = "send" /\ IsReady(st)
      /\ SendPayload(i, st)
      /\ posted' = IF Freed(st) THEN posted + st.held ELSE posted
      /\ UNCHANGED <<arrived, total_packet_count, back_pressure, free_lists,
                     application, pc, flushing, starved>>

WindowFull == rxreorder_buffered_packet_count >= Window
SendEnds ==
  /\ pc = "send" /\ ~IsReady(payload_state_array[rxreorder_current_index])
  /\ pc' = IF WindowFull THEN "flush" ELSE "poll"
  /\ starved' = (starved \/ WindowFull)
  /\ flush_idx' = rxreorder_current_index /\ flush_start' = rxreorder_current_index
  /\ UNCHANGED <<network, window, back_pressure, pools, complete_queue, application,
                 sent, lost>>

(* FlushPartialPayload, one slot per step: a pending payload is erred, an  *)
(* erred or complete one is sent.                                          *)
FlushNext ==
  /\ flush_idx' = AdvanceStateArrayIndex(flush_idx)
  /\ pc' = IF flush_idx' = flush_start THEN "poll" ELSE "flush"
  /\ UNCHANGED <<arrived, total_packet_count, back_pressure, application,
                 flush_start, starved>>
IsPending(st) == IF st = None THEN FALSE ELSE st.state \in Pending
FlushSends ==
  LET st == payload_state_array[flush_idx]
      out == IF IsPending(st) THEN Erred(st) ELSE st
  IN  /\ pc = "flush" /\ WindowFull
      /\ IsPending(st) \/ IsReady(st)
      /\ SendPayload(flush_idx, out)
      /\ posted' = IF IsPending(st) \/ Freed(out) THEN posted + st.held ELSE posted
      /\ free_lists' = IF IsPending(st) THEN free_lists + Len(st.runs) ELSE free_lists
      /\ FlushNext
FlushSkips ==
  LET st == payload_state_array[flush_idx]
  IN  /\ pc = "flush" /\ WindowFull
      /\ ~IsPending(st) /\ ~IsReady(st)
      /\ FlushNext
      /\ UNCHANGED <<posted, window, pools, complete_queue, sent, lost>>
FlushEnds ==
  /\ pc = "flush" /\ ~WindowFull
  /\ pc' = "poll"
  /\ UNCHANGED <<network, window, back_pressure, pools, complete_queue, application,
                 flushing, history>>

(***************************************************************************)
(* The application's callback, CdiCoreRxFreeBuffer (RxEnqueueFreeBuffer)   *)
(* and RxPollFreeBuffer.  Of a payload only the number of its packet       *)
(* buffers matters from here on.                                           *)
(***************************************************************************)
AppTakes ==
  /\ complete_queue # <<>>
  /\ complete_queue' = Tail(complete_queue)
  /\ held_by_app' = LET e == Head(complete_queue)
                    IN  IF e.owner THEN Append(held_by_app, e.held) ELSE held_by_app
  /\ UNCHANGED <<network, window, back_pressure, pools, free_buffer_queue, pc,
                 flushing, history>>

AppFrees(i) ==
  /\ Len(free_buffer_queue) < FreeQueueSize
  /\ free_buffer_queue' = Append(free_buffer_queue, held_by_app[i])
  /\ held_by_app' = RemoveAt(held_by_app, i)
  /\ UNCHANGED <<network, window, back_pressure, pools, complete_queue, pc,
                 flushing, history>>

RxPollFreeBuffer ==
  /\ pc = "poll" /\ free_buffer_queue # <<>>
  /\ posted' = posted + Total(free_buffer_queue)
  /\ free_memory' = free_memory + Len(free_buffer_queue)
  /\ free_buffer_queue' = <<>>
  /\ UNCHANGED <<arrived, total_packet_count, window, back_pressure, free_lists,
                 complete_queue, held_by_app, pc, flushing, history>>

Poll ==
  \/ \E k \in Payloads : \E p \in PacketsOf(k) : RxPacketReceive(p)
  \/ SendReady \/ SendEnds \/ FlushSends \/ FlushSkips \/ FlushEnds
  \/ RxPollFreeBuffer
App == AppTakes \/ \E i \in DOMAIN held_by_app : AppFrees(i)

Next == Poll \/ App
Spec == Init /\ [][Next]_vars

-----------------------------------------------------------------------------
Packets == UNION {PacketsOf(k) : k \in Payloads}
PayloadState ==
  [state : States, runs : Seq(Seq(Packets)), expected : Nat, packet_count : Nat,
   last_total_packet_count : Nat, owner : BOOLEAN, held : Nat]
Notices == [status : {"Ok", "Error", "BackPressure"}, owner : BOOLEAN, held : Nat]

(* Every variable keeps its type.                                          *)
TypeOK ==
  /\ arrived \subseteq Packets
  /\ posted \in 0 .. PacketBuffers /\ total_packet_count \in Nat
  /\ payload_state_array \in [Slots -> PayloadState \cup {None}]
  /\ rxreorder_current_index \in Slots /\ rxreorder_buffered_packet_count \in Nat
  /\ back_pressure \in BOOLEAN /\ starved \in BOOLEAN
  /\ free_memory \in 0 .. MemoryStates /\ free_lists \in 0 .. ReorderLists
  /\ Len(complete_queue) <= QueueSize /\ Len(free_buffer_queue) <= FreeQueueSize
  /\ complete_queue \in Seq(Notices)
  /\ held_by_app \in Seq(Nat) /\ free_buffer_queue \in Seq(Nat)
  /\ pc \in {"poll", "send", "flush"} /\ flush_idx \in Slots /\ flush_start \in Slots
  /\ sent \in Seq([status : {"Ok", "Error"}, sgl : Seq(Packets)])
  /\ lost \in Nat

(* While no pool has run out and the window has not been full, the payloads *)
(* sent to the application are those whose packets and predecessors have   *)
(* all arrived: each once, in the order of sending across every wrap of    *)
(* the payload number, status Ok, with all of its packets in order.        *)
DeliversInOrder ==
  ~starved /\ pc = "poll" =>
    sent = [k \in 1 .. Max({n \in 0 .. Len(Sizes) : \A j \in 1 .. n : PacketsOf(j) \subseteq arrived})
              |-> [status |-> "Ok", sgl |-> Whole(k)]]

Used == {i \in Slots : payload_state_array[i] # None}
OfOnePayload(runs) ==
  \A r, q \in DOMAIN runs : \A i \in DOMAIN runs[r], j \in DOMAIN runs[q] :
    runs[r][i].payload = runs[q][j].payload

(* Each run has consecutive packets, and there is a gap between two.       *)
Maximal(runs) ==
  /\ \A r \in DOMAIN runs : \A j \in DOMAIN runs[r] :
       runs[r][j].sequence = Top(runs[r]) + j - 1
  /\ \A r \in 1 .. Len(runs) - 1 : Top(runs[r + 1]) > Bottom(runs[r]) + 1

(* Whatever the order of arrival, and also when pools run out, the reorder *)
(* lists of a payload that is being received are what ProcessList is for:  *)
(* as few as its packets allow, and together they have every packet that   *)
(* was kept.                                                               *)
RunsAreMaximal ==
  \A i \in Used :
    LET st == payload_state_array[i]
    IN  st.state \in Pending =>
          /\ OfOnePayload(st.runs) => Maximal(st.runs)
          /\ Received(st.runs) = st.packet_count /\ st.held = st.packet_count

(* What the payload state of a slot has: packet buffers, a memory state,   *)
(* reorder lists, packets in the window.                                   *)
Owns(st) == IF st = None THEN FALSE ELSE st.owner
HeldIn(st) == IF Owns(st) THEN st.held ELSE 0
MemoryIn(st) == IF Owns(st) THEN 1 ELSE 0
ListsIn(st) == IF IsPending(st) THEN Len(st.runs) ELSE 0
CountIn(st) == IF st = None THEN 0 ELSE st.packet_count

(* No packet buffer is lost and none is given back twice: each is posted,  *)
(* or held by exactly one payload, wherever that payload is.               *)
BuffersAreConserved ==
  posted + Total([i \in Slots |-> HeldIn(payload_state_array[i])])
         + Total([j \in DOMAIN complete_queue |-> complete_queue[j].held])
         + Total(held_by_app) + Total(free_buffer_queue)
  = PacketBuffers

(* No item of the pools is lost but the memory states of erred payloads    *)
(* that found the callback queue full.                                     *)
PoolsAreConserved ==
  /\ free_memory + lost + Len(held_by_app) + Len(free_buffer_queue)
       + Total([i \in Slots |-> MemoryIn(payload_state_array[i])])
       + Total([j \in DOMAIN complete_queue |-> IF complete_queue[j].owner THEN 1 ELSE 0])
     = MemoryStates
  /\ free_lists + Total([i \in Slots |-> ListsIn(payload_state_array[i])]) = ReorderLists

(* Nothing a payload takes is lost or given back twice.                    *)
ResourcesAreConserved == BuffersAreConserved /\ PoolsAreConserved

(* The window count is the number of packets of the payloads in it, and    *)
(* when PollThread has dealt with a packet it is below the limit, as the   *)
(* assertion in FlushPartialPayload has it.                                *)
WindowCountIsExact ==
  /\ rxreorder_buffered_packet_count =
       Total([i \in Slots |-> CountIn(payload_state_array[i])])
  /\ pc = "poll" => ~WindowFull

(* The first payload that completes after back pressure moves the window   *)
(* to "the first payload", "to prevent Rx payload reorder logic from       *)
(* waiting for a payload that may have been thrown away" (RxPacketReceive): *)
(* it never stays at a payload of which every packet was thrown away.      *)
SeekPassesThrownAway ==
  [][back_pressure /\ ~back_pressure' =>
       LET i == rxreorder_current_index'
           ForSlot == {p \in arrived' : SlotOf(p) = i}
       IN  /\ ForSlot # {}
           /\ PacketsOf(Max({p.payload : p \in ForSlot})) \subseteq arrived'
           => payload_state_array'[i] # NewState]_vars

(* All packets of a payload state are of the payload the state was         *)
(* initialized for: "we have logic looking for in-progress payloads that   *)
(* have the wrong payload number at the front end of RxPacketReceive()"    *)
(* (InitializePayloadState).                                               *)
OnePayloadPerState ==
  \A i \in Used : OfOnePayload(payload_state_array[i].runs)
=============================================================================

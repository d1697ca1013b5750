----------------------------- MODULE TxPayloads -----------------------------
(***************************************************************************)
(* The sending side of a connection: a payload on its way from the         *)
(* application to the adapter and back (src/cdi/internal_tx.c, adapter.c,  *)
(* adapter_efa_tx.c).                                                      *)
(*                                                                         *)
(* Four kinds of threads: the application's, which call TxPayloadInternal; *)
(* TxPayloadThread, which cuts payloads into packets and queues them in    *)
(* batches; PollThread, which sends packets, takes the adapter's           *)
(* completions and sleeps when there is nothing to do; and                 *)
(* AppCallbackPayloadThread, which gives payloads back.  The probe loses   *)
(* and regains the connection, and the Endpoint Manager carries out its    *)
(* resets and starts while the two threads in the middle stand still.      *)
(*                                                                         *)
(* Packets and work requests are one to one, so a packet is named by its   *)
(* work request.  A packet takes two scatter-gather entries, its header    *)
(* and its data, and a payload has one source entry; bytes are counted in  *)
(* packets.  There are as many packet headers as work requests.  What the  *)
(* signals of a queue do is the subject of CdiQueue: here the signal of a  *)
(* queue is set while it has items.                                        *)
(***************************************************************************)
EXTENDS Integers, FiniteSetsExt, CdiPool

CONSTANTS
  App,               \* application threads
  Streams,           \* endpoints of the connection
  Packets,           \* packets of each payload, in the order of acceptance
  MaxTxPayloads,     \* max_simultaneous_tx_payloads
  WorkRequests,      \* MAX_TX_PACKET_WORK_REQUESTS_PER_CONNECTION
  PacketSglEntries,  \* TX_PACKET_SGL_ENTRY_SIZE_PER_CONNECTION
  PayloadSglEntries, \* max_simultaneous_tx_payload_sgl_entries
  Batches,           \* MAX_TX_PACKET_BATCHES_PER_CONNECTION
  InProcess,         \* SIMULTANEOUS_TX_PACKET_LIMIT
  PayloadNumMax,     \* payload_num_max of the protocol
  Messages,          \* MAX_PAYLOADS_PER_CONNECTION
  SendResults,       \* what the adapter's Send may return
  AckResults,        \* what a completion may say
  MaxLosses,         \* bound on the losses of the connection
  None               \* a null pointer, no command

ASSUME TxAssumption ==
  /\ Packets \in Seq(Nat \ {0})
  /\ {Streams, MaxTxPayloads, WorkRequests, PacketSglEntries,
      PayloadSglEntries, Batches, InProcess, Messages} \subseteq Nat \ {0}
  /\ MaxTxPayloads > 1 /\ PayloadNumMax \in Nat
  /\ SendResults \subseteq {"Ok", "Retry", "Failed"}
  /\ AckResults \subseteq {"Ok", "Failed"}
  /\ MaxLosses \in Nat
  /\ None \notin Int

Payload == 1 .. Len(Packets)
Endpoint == 1 .. Streams
Slot == 1 .. MaxTxPayloads
WorkRequest == 1 .. WorkRequests
EntriesPerPacket == 2

VARIABLES
  app,                          \* per application thread: its call
  accepted_count,               \* payloads that got a payload state
  payload_states, payload_state_pool,
  payload_sgl_entries,          \* free entries of the source lists
  payload_queue,
  payload_thread,               \* TxPayloadThread and its variables
  work_requests, work_request_pool,
  packet_sgl_entries,           \* free entries of the packets' lists
  work_req_comp_queue,          \* the requests of its lists, one after the other
  tx_packet_queue, tx_packet_waiting_list,
  in_flight,                    \* packets the adapter has, per endpoint
  tx_in_flight_ref_count, tx_poll_do_work_signal,
  poll_thread,                  \* PollThread and its variables
  app_payload_message_queue,
  payload_num,                  \* next payload number of each endpoint
  connection, command, losses,  \* the probe's view and its commands
  accepted,  \* history: payloads for which TxPayloadInternal returned Ok
  returned,  \* history: the status codes of each payload's callbacks
  unacked,   \* history: payloads with a packet that failed
  dropped,   \* history: payloads whose message found the queue full
  raced      \* history: a flush met a call of TxPayloadInternal

states == <<payload_states, payload_state_pool>>
requests == <<work_requests, work_request_pool, packet_sgl_entries>>
waiting == <<tx_packet_queue, tx_packet_waiting_list>>
link == <<connection, command, losses>>
history == <<accepted, returned, unacked, dropped, raced>>
vars == <<app, accepted_count, states, payload_sgl_entries, payload_queue,
          payload_thread, requests, work_req_comp_queue, waiting, in_flight,
          tx_in_flight_ref_count, tx_poll_do_work_signal, poll_thread,
          app_payload_message_queue, payload_num, link, history>>

Connected(e) == connection[e] = "Connected"
(* new_command_signal of the Endpoint Manager.                             *)
Notified == \E e \in Endpoint : command[e] # None

Numbers(n) == [i \in 1 .. n |-> i]
EndpointList == Numbers(Streams)

NewPayloadState(p, e) ==
  [payload |-> p, endpoint |-> e, payload_num |-> 0, packet_sequence_num |-> 0,
   transferred |-> 0, completed |-> <<>>]

Init ==
  /\ app = [a \in App |-> [pc |-> "idle", endpoint |-> 1, slot |-> None]]
  /\ accepted_count = 0
  /\ payload_states = [s \in Slot |-> NewPayloadState(None, 1)]
  /\ payload_state_pool = CdiPoolCreate(Numbers(MaxTxPayloads))
  /\ payload_sgl_entries = PayloadSglEntries
  /\ payload_queue = <<>>
  /\ payload_thread = [pc |-> "wait", state |-> "Idle", slot |-> None,
                       request |-> None, entries |-> 0, list |-> <<>>,
                       batch |-> 1, last |-> FALSE]
  /\ work_requests = [w \in WorkRequest |->
       [payload_state |-> None, payload_num |-> 0, last |-> FALSE]]
  /\ work_request_pool = CdiPoolCreate(Numbers(WorkRequests))
  /\ packet_sgl_entries = PacketSglEntries
  /\ work_req_comp_queue = <<>>
  /\ tx_packet_queue = [e \in Endpoint |-> <<>>]
  /\ tx_packet_waiting_list = [e \in Endpoint |-> <<>>]
  /\ in_flight = [e \in Endpoint |-> {}]
  /\ tx_in_flight_ref_count = [e \in Endpoint |-> 0]
  /\ tx_poll_do_work_signal = FALSE
  /\ poll_thread = [pc |-> "endpoint", left |-> EndpointList, packet |-> None,
                    idle |-> TRUE, slot |-> None]
  /\ app_payload_message_queue = <<>>
  /\ payload_num = [e \in Endpoint |-> 0]
  /\ connection = [e \in Endpoint |-> "Connected"]
  /\ command = [e \in Endpoint |-> None]
  /\ losses = 0
  /\ accepted = {} /\ returned = [p \in Payload |-> <<>>]
  /\ unacked = {} /\ dropped = {} /\ raced = FALSE

CannotGet == ~HasItem(payload_state_pool) \/ payload_sgl_entries = 0

(***************************************************************************)
(* TxPayloadInternal, in three steps: the check of the connection, the     *)
(* payload state with its source entries, the push into the queue.  The    *)
(* call after the last payload is made only where it is refused.           *)
(***************************************************************************)
Submit(a) ==
  /\ app[a].pc = "idle" /\ (accepted_count < Len(Packets) \/ CannotGet)
  /\ \E e \in Endpoint :
       /\ Connected(e)
       /\ app' = [app EXCEPT ![a] = [pc |-> "get", endpoint |-> e, slot |-> None]]
  /\ UNCHANGED <<accepted_count, states, payload_sgl_entries, payload_queue,
                 payload_thread, requests, work_req_comp_queue, waiting, in_flight,
                 tx_in_flight_ref_count, tx_poll_do_work_signal, poll_thread,
                 app_payload_message_queue, payload_num, link, history>>

(* The call fails: no payload state (kCdiStatusQueueFull) or no source     *)
(* entry (kCdiStatusAllocationFailed, the payload state goes back).        *)
Refuse(a) ==
  /\ app[a].pc = "get" /\ CannotGet
  /\ app' = [app EXCEPT ![a].pc = "idle"]
  /\ UNCHANGED <<accepted_count, states, payload_sgl_entries, payload_queue,
                 payload_thread, requests, work_req_comp_queue, waiting, in_flight,
                 tx_in_flight_ref_count, tx_poll_do_work_signal, poll_thread,
                 app_payload_message_queue, payload_num, link, history>>

GetPayloadState(a) ==
  /\ app[a].pc = "get" /\ ~CannotGet /\ accepted_count < Len(Packets)
  /\ LET s == NextItem(payload_state_pool)
     IN  /\ payload_states' = [payload_states EXCEPT
              ![s] = NewPayloadState(accepted_count + 1, app[a].endpoint)]
         /\ app' = [app EXCEPT ![a].pc = "push", ![a].slot = s]
  /\ payload_state_pool' = CdiPoolGet(payload_state_pool)
  /\ accepted_count' = accepted_count + 1
  /\ payload_sgl_entries' = payload_sgl_entries - 1
  /\ UNCHANGED <<payload_queue, payload_thread, requests, work_req_comp_queue, waiting,
                 in_flight, tx_in_flight_ref_count, tx_poll_do_work_signal, poll_thread,
                 app_payload_message_queue, payload_num, link, history>>

PushPayload(a) ==
  /\ app[a].pc = "push"
  /\ app' = [app EXCEPT ![a].pc = "idle", ![a].slot = None]
  /\ \/ /\ Len(payload_queue) < MaxTxPayloads - 1
        /\ payload_queue' = Append(payload_queue, app[a].slot)
        /\ accepted' = accepted \cup {payload_states[app[a].slot].payload}
        /\ UNCHANGED <<payload_state_pool, payload_sgl_entries>>
     \/ /\ Len(payload_queue) = MaxTxPayloads - 1
        /\ payload_state_pool' = CdiPoolPut(payload_state_pool, app[a].slot)
        /\ payload_sgl_entries' = payload_sgl_entries + 1
        /\ UNCHANGED <<payload_queue, accepted>>
  /\ UNCHANGED <<accepted_count, payload_states, payload_thread, requests,
                 work_req_comp_queue, waiting, in_flight, tx_in_flight_ref_count,
                 tx_poll_do_work_signal, poll_thread, app_payload_message_queue,
                 payload_num, link, returned, unacked, dropped, raced>>

(***************************************************************************)
(* AppCallbackPayloadThread: the source entries are freed, the application *)
(* is called.                                                              *)
(***************************************************************************)
InvokeAppCallback ==
  /\ app_payload_message_queue # <<>>
  /\ LET m == Head(app_payload_message_queue)
     IN  returned' = [returned EXCEPT ![m.payload] = Append(@, m.status)]
  /\ app_payload_message_queue' = Tail(app_payload_message_queue)
  /\ payload_sgl_entries' = payload_sgl_entries + 1
  /\ UNCHANGED <<app, accepted_count, states, payload_queue, payload_thread, requests,
                 work_req_comp_queue, waiting, in_flight, tx_in_flight_ref_count,
                 tx_poll_do_work_signal, poll_thread, payload_num, link,
                 accepted, unacked, dropped, raced>>

(***************************************************************************)
(* TxPayloadThread.                                                        *)
(***************************************************************************)
Thread(pc) == payload_thread.pc = pc
Goto(pc) == payload_thread' = [payload_thread EXCEPT !.pc = pc]
OnlyPayloadThread ==
  UNCHANGED <<app, accepted_count, payload_state_pool, payload_sgl_entries,
              poll_thread, app_payload_message_queue, link, history>>

(* A queue with a payload in it is preferred to the other signals.         *)
TakesPayload ==
  Thread("wait") /\ payload_thread.state = "Idle" /\ payload_queue # <<>>

(* A payload is received: its reference is counted, then the signal set.   *)
TakePayload ==
  /\ TakesPayload
  /\ LET s == Head(payload_queue)
     IN  /\ payload_thread' = [payload_thread EXCEPT
              !.pc = "signal", !.state = "WorkReceived", !.slot = s]
         /\ tx_in_flight_ref_count' =
              [tx_in_flight_ref_count EXCEPT ![payload_states[s].endpoint] = @ + 1]
  /\ payload_queue' = Tail(payload_queue)
  /\ OnlyPayloadThread
  /\ UNCHANGED <<payload_states, requests, work_req_comp_queue, waiting, in_flight,
                 tx_poll_do_work_signal, payload_num>>

SetDoWorkSignal ==
  /\ Thread("signal") /\ Goto("free")
  /\ tx_poll_do_work_signal' = TRUE
  /\ OnlyPayloadThread
  /\ UNCHANGED <<payload_states, payload_queue, requests, work_req_comp_queue, waiting,
                 in_flight, tx_in_flight_ref_count, payload_num>>

TakeNotification ==
  /\ Thread("wait") /\ ~TakesPayload /\ Notified /\ Goto("barrier")
  /\ OnlyPayloadThread
  /\ UNCHANGED <<payload_states, payload_queue, requests, work_req_comp_queue, waiting,
                 in_flight, tx_in_flight_ref_count, tx_poll_do_work_signal, payload_num>>

HasCompletions == work_req_comp_queue # <<>>
TakeCompletion ==
  /\ Thread("wait") /\ ~TakesPayload /\ ~Notified
  /\ HasCompletions /\ Goto("free")
  /\ OnlyPayloadThread
  /\ UNCHANGED <<payload_states, payload_queue, requests, work_req_comp_queue, waiting,
                 in_flight, tx_in_flight_ref_count, tx_poll_do_work_signal, payload_num>>

(* The Endpoint Manager is done: the payload in hand is forgotten.         *)
EmptyHand == [payload_thread EXCEPT !.state = "Idle", !.slot = None]
LeaveBarrier ==
  /\ Thread("barrier") /\ ~Notified
  /\ payload_thread' = [EmptyHand EXCEPT !.pc = "free"]
  /\ OnlyPayloadThread
  /\ UNCHANGED <<payload_states, payload_queue, requests, work_req_comp_queue, waiting,
                 in_flight, tx_in_flight_ref_count, tx_poll_do_work_signal, payload_num>>

(* ProcessWorkRequestCompletionQueue, then, for a new payload, its number. *)
FreedRequests == PutEach(work_request_pool, work_req_comp_queue)
NextPayloadNum(n) == IF n + 1 > PayloadNumMax THEN 0 ELSE n + 1

FreeCompleted ==
  /\ Thread("free")
  /\ work_request_pool' = FreedRequests
  /\ packet_sgl_entries' =
       packet_sgl_entries + EntriesPerPacket * Len(work_req_comp_queue)
  /\ work_req_comp_queue' = <<>>
  /\ IF payload_thread.state = "WorkReceived"
     THEN LET s == payload_thread.slot
              e == payload_states[s].endpoint
          IN  /\ payload_states' =
                   [payload_states EXCEPT ![s].payload_num = payload_num[e]]
              /\ payload_num' = [payload_num EXCEPT ![e] = NextPayloadNum(@)]
              /\ payload_thread' = [payload_thread EXCEPT
                   !.pc = "build", !.state = "GetWorkRequest", !.entries = 0,
                   !.list = <<>>, !.batch = 1, !.last = FALSE]
     ELSE /\ Goto(IF payload_thread.state = "Idle" THEN "wait" ELSE "build")
          /\ UNCHANGED <<payload_states, payload_num>>
  /\ OnlyPayloadThread
  /\ UNCHANGED <<payload_queue, work_requests, waiting, in_flight,
                 tx_in_flight_ref_count, tx_poll_do_work_signal>>

(* The top of the packet loop: only a connected endpoint gets packets.     *)
OnTheWay == payload_states[payload_thread.slot]
Disconnected ==
  /\ Thread("build") /\ ~Connected(OnTheWay.endpoint) /\ Goto("wait")
  /\ OnlyPayloadThread
  /\ UNCHANGED <<payload_states, payload_queue, requests, work_req_comp_queue, waiting,
                 in_flight, tx_in_flight_ref_count, tx_poll_do_work_signal, payload_num>>

(* A turn of the loop enters at the state it finds and falls through to    *)
(* the next ones.                                                          *)
Reaches(pc, state) ==
  \/ Thread(pc)
  \/ Thread("build") /\ payload_thread.state = state /\ Connected(OnTheWay.endpoint)

GetWorkRequest ==
  /\ Reaches("get", "GetWorkRequest")
  /\ IF HasItem(work_request_pool)
     THEN /\ payload_thread' = [payload_thread EXCEPT
               !.pc = "packet", !.state = "Packetizing", !.entries = 0,
               !.request = NextItem(work_request_pool)]
          /\ work_request_pool' = CdiPoolGet(work_request_pool)
     ELSE Goto("wait") /\ UNCHANGED work_request_pool
  /\ OnlyPayloadThread
  /\ UNCHANGED <<payload_states, payload_queue, work_requests, packet_sgl_entries,
                 work_req_comp_queue, waiting, in_flight, tx_in_flight_ref_count,
                 tx_poll_do_work_signal, payload_num>>

\* Mutant: the packetizer starts the packet again.
StartsAgain == 0

(* PayloadPacketizerPacketGet keeps what it has when the pool runs dry.    *)
EntriesKept == payload_thread.entries + packet_sgl_entries
EntriesMissing == EntriesPerPacket - payload_thread.entries
OutOfEntries ==
  /\ Reaches("packet", "Packetizing") /\ EntriesMissing > packet_sgl_entries
  /\ payload_thread' =
       [payload_thread EXCEPT !.pc = "wait", !.entries = EntriesKept]
  /\ packet_sgl_entries' = 0
  /\ OnlyPayloadThread
  /\ UNCHANGED <<payload_states, payload_queue, work_requests, work_request_pool,
                 work_req_comp_queue, waiting, in_flight, tx_in_flight_ref_count,
                 tx_poll_do_work_signal, payload_num>>

MakePacket ==
  /\ Reaches("packet", "Packetizing") /\ EntriesMissing <= packet_sgl_entries
  /\ packet_sgl_entries' = packet_sgl_entries - EntriesMissing
  /\ LET s == payload_thread.slot
         w == payload_thread.request
         last == OnTheWay.packet_sequence_num + 1 = Packets[OnTheWay.payload]
         full == last \/ Len(payload_thread.list) + 1 >= payload_thread.batch
     IN  /\ payload_states' = [payload_states EXCEPT ![s].packet_sequence_num = @ + 1]
         /\ work_requests' = [work_requests EXCEPT ![w] =
              [payload_state |-> s, payload_num |-> OnTheWay.payload_num, last |-> last]]
         /\ payload_thread' = [payload_thread EXCEPT
              !.pc = IF full THEN "enqueue" ELSE "build",
              !.state = IF full THEN "Enqueuing" ELSE "GetWorkRequest",
              !.request = None, !.entries = 0, !.list = Append(@, w), !.last = last]
         /\ tx_in_flight_ref_count' =
              [tx_in_flight_ref_count EXCEPT ![OnTheWay.endpoint] = @ + 1]
  /\ OnlyPayloadThread
  /\ UNCHANGED <<payload_queue, work_request_pool, work_req_comp_queue, waiting,
                 in_flight, tx_poll_do_work_signal, payload_num>>

Enqueue ==
  /\ Reaches("enqueue", "Enqueuing")
  /\ LET e == OnTheWay.endpoint
     IN  IF Len(tx_packet_queue[e]) < Batches
         THEN /\ tx_packet_queue' =
                   [tx_packet_queue EXCEPT ![e] = Append(@, payload_thread.list)]
              /\ payload_thread' = [payload_thread EXCEPT
                   !.list = <<>>, !.batch = @ * 2,
                   !.pc = IF payload_thread.last THEN "wait" ELSE "build",
                   !.state = IF payload_thread.last THEN "Idle" ELSE "GetWorkRequest",
                   !.slot = IF payload_thread.last THEN None ELSE @]
         ELSE Goto("wait") /\ UNCHANGED tx_packet_queue
  /\ OnlyPayloadThread
  /\ UNCHANGED <<payload_states, payload_queue, requests, work_req_comp_queue,
                 tx_packet_waiting_list, in_flight, tx_in_flight_ref_count,
                 tx_poll_do_work_signal, payload_num>>

PayloadThreadStep ==
  \/ TakePayload \/ SetDoWorkSignal \/ TakeNotification \/ TakeCompletion
  \/ LeaveBarrier \/ FreeCompleted \/ Disconnected \/ GetWorkRequest
  \/ OutOfEntries \/ MakePacket \/ Enqueue

(***************************************************************************)
(* PollThread and DataPoll.  The walk over the endpoints stops while the   *)
(* Endpoint Manager has something to do.                                   *)
(***************************************************************************)
Polls(pc) == poll_thread.pc = pc
OnlyPollThread ==
  UNCHANGED <<app, accepted_count, payload_queue, payload_thread, payload_num, link,
              accepted, returned, raced>>
PollTo(pc) == poll_thread' = [poll_thread EXCEPT !.pc = pc]

Polled == Head(poll_thread.left)
(* GetNextPacket takes a batch from the queue when it has none left.       *)
TakesBatch(e) == tx_packet_waiting_list[e] = <<>> /\ tx_packet_queue[e] # <<>>
Waiting(e) ==
  IF TakesBatch(e) THEN Head(tx_packet_queue[e]) ELSE tx_packet_waiting_list[e]
AdapterFull(e) == Cardinality(in_flight[e]) >= InProcess
TakesPacket(e) == poll_thread.packet = None /\ ~AdapterFull(e) /\ Waiting(e) # <<>>
PacketToSend(e) ==
  IF TakesPacket(e) THEN Head(Waiting(e)) ELSE poll_thread.packet

IdleAfter(e, flying) == poll_thread.idle /\ flying = {}

SendPacket ==
  /\ Polls("endpoint") /\ ~Notified
  /\ LET e == Polled
         w == PacketToSend(e)
     IN  /\ w # None
         /\ IF TakesPacket(e)
            THEN /\ tx_packet_waiting_list' =
                      [tx_packet_waiting_list EXCEPT ![e] = Tail(Waiting(e))]
                 /\ tx_packet_queue' = [tx_packet_queue EXCEPT
                      ![e] = IF TakesBatch(e) THEN Tail(@) ELSE @]
            ELSE UNCHANGED waiting
         /\ \E result \in SendResults :
              /\ in_flight' = [in_flight EXCEPT
                   ![e] = IF result = "Ok" THEN @ \cup {w} ELSE @]
              /\ poll_thread' = [poll_thread EXCEPT
                   !.pc = "completions", !.idle = IdleAfter(e, in_flight'[e]),
                   !.packet = IF result = "Retry" THEN w ELSE None]
              /\ unacked' = IF result = "Failed"
                   THEN unacked \cup {payload_states[work_requests[w].payload_state].payload}
                   ELSE unacked
  /\ OnlyPollThread
  /\ UNCHANGED <<states, payload_sgl_entries, requests, work_req_comp_queue,
                 tx_in_flight_ref_count, tx_poll_do_work_signal,
                 app_payload_message_queue, dropped>>

NothingToSend ==
  /\ Polls("endpoint") /\ ~Notified /\ PacketToSend(Polled) = None
  /\ poll_thread' = [poll_thread EXCEPT
       !.pc = "completions", !.idle = IdleAfter(Polled, in_flight[Polled])]
  /\ OnlyPollThread
  /\ UNCHANGED <<states, payload_sgl_entries, requests, work_req_comp_queue, waiting,
                 in_flight, tx_in_flight_ref_count, tx_poll_do_work_signal,
                 app_payload_message_queue, unacked, dropped>>

(* CdiAdapterTxPacketComplete, and TxPacketWorkRequestComplete up to the   *)
(* push of a complete payload's requests into the completion queue.        *)
References(w) == IF work_requests[w].last THEN 2 ELSE 1

\* Mutant: a payload is done one packet early.
IsAlmostTransferred(st) == st.transferred + 2 >= Packets[st.payload]

IsTransferred(st) == st.transferred + 1 >= Packets[st.payload]

CompletePacket(w, result) ==
  /\ Polls("completions") /\ tx_in_flight_ref_count[Polled] # 0
  /\ w \in in_flight[Polled]
  /\ in_flight' = [in_flight EXCEPT ![Polled] = @ \ {w}]
  /\ tx_in_flight_ref_count' =
       [tx_in_flight_ref_count EXCEPT ![Polled] = @ - References(w)]
  /\ LET s == work_requests[w].payload_state
         st == payload_states[s]
         completed == Append(st.completed, w)
     IN  IF st.payload_num # work_requests[w].payload_num
         THEN UNCHANGED <<payload_states, work_requests, work_req_comp_queue,
                          poll_thread, unacked>>
         ELSE /\ payload_states' = [payload_states EXCEPT
                   ![s].transferred = @ + 1, ![s].completed = completed]
              /\ unacked' = IF result = "Ok" THEN unacked ELSE unacked \cup {st.payload}
              /\ IF IsTransferred(st)
                 THEN /\ work_requests' = [work_requests EXCEPT ![w].payload_state = None]
                      /\ work_req_comp_queue' = work_req_comp_queue \o completed
                      /\ poll_thread' = [poll_thread EXCEPT !.pc = "transfer", !.slot = s]
                 ELSE UNCHANGED <<work_requests, work_req_comp_queue, poll_thread>>
  /\ OnlyPollThread
  /\ UNCHANGED <<payload_state_pool, payload_sgl_entries, work_request_pool,
                 packet_sgl_entries, waiting, tx_poll_do_work_signal,
                 app_payload_message_queue, dropped>>

(* PayloadTransferComplete: the message, then the payload state.  When the *)
(* message queue is full the application is not told.                      *)
Message(s, status) == [payload |-> payload_states[s].payload, status |-> status]

TransferComplete ==
  /\ Polls("transfer") /\ PollTo("put")
  /\ IF Len(app_payload_message_queue) < Messages
     THEN /\ app_payload_message_queue' =
               Append(app_payload_message_queue, Message(poll_thread.slot, "Ok"))
          /\ UNCHANGED <<payload_sgl_entries, dropped>>
     ELSE /\ payload_sgl_entries' = payload_sgl_entries + 1
          /\ dropped' = dropped \cup {payload_states[poll_thread.slot].payload}
          /\ UNCHANGED app_payload_message_queue
  /\ OnlyPollThread
  /\ UNCHANGED <<states, requests, work_req_comp_queue, waiting, in_flight,
                 tx_in_flight_ref_count, tx_poll_do_work_signal, unacked>>

PutPayloadState ==
  /\ Polls("put")
  /\ payload_state_pool' = CdiPoolPut(payload_state_pool, poll_thread.slot)
  /\ poll_thread' = [poll_thread EXCEPT !.pc = "completions", !.slot = None]
  /\ OnlyPollThread
  /\ UNCHANGED <<payload_states, payload_sgl_entries, requests, work_req_comp_queue,
                 waiting, in_flight, tx_in_flight_ref_count, tx_poll_do_work_signal,
                 app_payload_message_queue, unacked, dropped>>

(* The next endpoint.  After the last one the packet of a refused Send is  *)
(* gone, and with nothing in flight the signal to work is cleared.         *)
NextEndpoint ==
  /\ Polls("completions")
  /\ LET atEnd == Tail(poll_thread.left) = <<>>
         clears == atEnd /\ poll_thread.idle /\ tx_poll_do_work_signal
     IN  /\ poll_thread' = [poll_thread EXCEPT
              !.pc = CASE clears -> "recheck"
                       [] atEnd /\ ~clears -> "wait"
                       [] OTHER -> "endpoint",
              !.left = IF atEnd THEN EndpointList ELSE Tail(@),
              !.packet = IF atEnd THEN None ELSE @]
         /\ tx_poll_do_work_signal' = (tx_poll_do_work_signal /\ ~clears)
  /\ OnlyPollThread
  /\ UNCHANGED <<states, payload_sgl_entries, requests, work_req_comp_queue, waiting,
                 in_flight, tx_in_flight_ref_count, app_payload_message_queue, unacked, dropped>>

\* Mutant: the signal is cleared without another look.
SeesNothing(e) == FALSE

(* Was it right to clear the signal?                                       *)
IsBusy(e) == tx_in_flight_ref_count[e] # 0
RecheckReferences ==
  /\ Polls("recheck")
  /\ LET busy == IsBusy(Polled)
         atEnd == busy \/ Tail(poll_thread.left) = <<>>
     IN  /\ tx_poll_do_work_signal' = (tx_poll_do_work_signal \/ busy)
         /\ poll_thread' = [poll_thread EXCEPT
              !.pc = IF atEnd THEN "wait" ELSE "recheck",
              !.left = IF atEnd THEN EndpointList ELSE Tail(@)]
  /\ OnlyPollThread
  /\ UNCHANGED <<states, payload_sgl_entries, requests, work_req_comp_queue, waiting,
                 in_flight, tx_in_flight_ref_count, app_payload_message_queue, unacked, dropped>>

(* The thread sleeps when all endpoints are idle and no signal is set.     *)
Sleeps ==
  Polls("wait") /\ poll_thread.idle /\ ~tx_poll_do_work_signal /\ ~Notified
PollAgain ==
  /\ Polls("wait") /\ ~Sleeps
  /\ poll_thread' = [poll_thread EXCEPT !.pc = "endpoint", !.idle = TRUE]
  /\ OnlyPollThread
  /\ UNCHANGED <<states, payload_sgl_entries, requests, work_req_comp_queue, waiting,
                 in_flight, tx_in_flight_ref_count, tx_poll_do_work_signal,
                 app_payload_message_queue, unacked, dropped>>

PollThreadStep ==
  \/ SendPacket \/ NothingToSend
  \/ \E w \in WorkRequest, result \in AckResults : CompletePacket(w, result)
  \/ TransferComplete \/ PutPayloadState \/ NextEndpoint \/ RecheckReferences
  \/ PollAgain

(***************************************************************************)
(* The probe loses the connection, has it reset and started again, and     *)
(* finds it established.                                                   *)
(***************************************************************************)
OnlyLink ==
  UNCHANGED <<app, accepted_count, states, payload_sgl_entries, payload_queue,
              payload_thread, requests, work_req_comp_queue, waiting, in_flight,
              tx_in_flight_ref_count, tx_poll_do_work_signal, poll_thread,
              app_payload_message_queue, payload_num, history>>

LoseConnection(e) ==
  /\ connection[e] \in {"Connected", "Started"} /\ command[e] = None
  /\ losses < MaxLosses /\ losses' = losses + 1
  /\ connection' = [connection EXCEPT ![e] = "Lost"]
  /\ UNCHANGED command /\ OnlyLink
QueueCommand(e, from, c) ==
  /\ connection[e] = from /\ command[e] = None
  /\ command' = [command EXCEPT ![e] = c]
  /\ UNCHANGED <<connection, losses>> /\ OnlyLink
Establish(e) ==
  /\ connection[e] = "Started" /\ command[e] = None
  /\ connection' = [connection EXCEPT ![e] = "Connected"]
  /\ UNCHANGED <<command, losses>> /\ OnlyLink

ProbeStep ==
  \E e \in Endpoint :
    \/ LoseConnection(e) \/ Establish(e)
    \/ QueueCommand(e, "Lost", "Reset") \/ QueueCommand(e, "Reset", "Start")

(***************************************************************************)
(* EndpointManagerThread carries out a command while TxPayloadThread and   *)
(* PollThread stand at the barrier.                                        *)
(***************************************************************************)
AtBarrier == Thread("barrier") /\ Polls("endpoint")

StartEndpoint(e) ==
  /\ AtBarrier /\ command[e] = "Start"
  /\ command' = [command EXCEPT ![e] = None]
  /\ connection' = [connection EXCEPT ![e] = "Started"]
  /\ poll_thread' = [poll_thread EXCEPT !.packet = None]
  /\ UNCHANGED <<app, accepted_count, states, payload_sgl_entries, payload_queue,
                 payload_thread, requests, work_req_comp_queue, waiting, in_flight,
                 tx_in_flight_ref_count, tx_poll_do_work_signal,
                 app_payload_message_queue, payload_num, losses, history>>

(* TxPayloadThreadFlushResources walks the work requests in use.  At the   *)
(* first of another payload it gives back the payload it was at, and       *)
(* remembers none, so that the next request starts afresh.                 *)
WalkRequest(walk, w) ==
  LET s == work_requests[w].payload_state
  IN  IF s = walk.at THEN walk
      ELSE IF walk.at = None THEN [walk EXCEPT !.at = s]
      ELSE [at |-> None, failed |-> Append(walk.failed, walk.at)]
\* Mutant: the completed requests are not put back before the walk.
FailedOrCompletedPayloads ==
  LET walk == FoldLeft(WalkRequest, [at |-> None, failed |-> <<>>],
                       work_request_pool.in_use)
  IN  IF walk.at = None THEN walk.failed ELSE Append(walk.failed, walk.at)

FailedPayloads ==
  LET walk == FoldLeft(WalkRequest, [at |-> None, failed |-> <<>>],
                       FreedRequests.in_use)
  IN  IF walk.at = None THEN walk.failed ELSE Append(walk.failed, walk.at)

\* Mutant: only the batch that is being sent is flushed.
KeepsQueue(e) == tx_packet_queue
EmptyQueue(e) == [tx_packet_queue EXCEPT ![e] = <<>>]

ResetEndpoint(e) ==
  /\ AtBarrier /\ command[e] = "Reset"
  /\ LET failed == FailedPayloads
         told == SubSeq(failed, 1, Min({Len(failed),
                          Messages - Len(app_payload_message_queue)}))
     IN  /\ app_payload_message_queue' = app_payload_message_queue \o
              [i \in 1 .. Len(told) |-> Message(told[i], "SendFailed")]
         /\ payload_sgl_entries' = payload_sgl_entries + Len(failed) - Len(told)
         /\ dropped' = dropped \cup {payload_states[failed[i]].payload :
                                       i \in Len(told) + 1 .. Len(failed)}
         /\ payload_state_pool' = CdiPoolPutAll(PutEach(payload_state_pool, failed))
  /\ payload_queue' = <<>>
  /\ work_req_comp_queue' = <<>>
  /\ work_request_pool' = CdiPoolPutAll(FreedRequests)
  /\ packet_sgl_entries' = PacketSglEntries
  /\ payload_num' = [payload_num EXCEPT ![e] = 0]
  \* CdiAdapterPollThreadFlushResources and CdiAdapterResetEndpoint
  /\ tx_packet_queue' = EmptyQueue(e)
  /\ tx_packet_waiting_list' = [tx_packet_waiting_list EXCEPT ![e] = <<>>]
  /\ in_flight' = [in_flight EXCEPT ![e] = {}]
  /\ tx_in_flight_ref_count' = [tx_in_flight_ref_count EXCEPT ![e] = 0]
  /\ tx_poll_do_work_signal' = FALSE
  /\ poll_thread' = [poll_thread EXCEPT !.packet = None]
  /\ connection' = [connection EXCEPT ![e] = "Reset"]
  /\ command' = [command EXCEPT ![e] = None]
  /\ raced' = (raced \/ \E a \in App : app[a].pc = "push")
  /\ UNCHANGED <<app, accepted_count, payload_states, payload_thread, work_requests,
                 losses, accepted, returned, unacked>>

ManagerStep == \E e \in Endpoint : StartEndpoint(e) \/ ResetEndpoint(e)

AppStep ==
  \E a \in App : Submit(a) \/ Refuse(a) \/ GetPayloadState(a) \/ PushPayload(a)

Next ==
  \/ AppStep \/ InvokeAppCallback \/ PayloadThreadStep \/ PollThreadStep
  \/ ProbeStep \/ ManagerStep

Spec == Init /\ [][Next]_vars

(***************************************************************************)
(* Every thread goes on, a call that was begun comes to its end, and the   *)
(* network acknowledges each packet it was given.                          *)
(***************************************************************************)
FairSpec ==
  /\ Spec
  /\ \A a \in App : WF_vars(Refuse(a) \/ GetPayloadState(a) \/ PushPayload(a))
  /\ WF_vars(InvokeAppCallback)
  /\ WF_vars(PayloadThreadStep)
  /\ WF_vars(PollThreadStep)
  /\ \A w \in WorkRequest :
       SF_vars(\E result \in AckResults : CompletePacket(w, result))

-----------------------------------------------------------------------------
(***************************************************************************)
(* Where a packet can be between MakePacket and its completion.  What      *)
(* TxPayloadThread has in hand at the barrier it forgets when it leaves.   *)
(***************************************************************************)
Building ==
  IF Thread("barrier") \/ payload_thread.state \in {"Idle", "WorkReceived"} THEN {}
  ELSE ToSet(payload_thread.list)
Queued(e) ==
  (UNION {ToSet(b) : b \in ToSet(tx_packet_queue[e])}) \cup ToSet(tx_packet_waiting_list[e])
OnItsWay(e) ==
  Queued(e) \cup in_flight[e]
  \cup {w \in Building : payload_states[work_requests[w].payload_state].endpoint = e}

(* A payload state holds its payload until PayloadTransferComplete has     *)
(* passed it on.                                                           *)
Holding ==
  InUse(payload_state_pool)
  \ (IF Polls("put") THEN {poll_thread.slot} ELSE {})
Completed(s) == ToSet(payload_states[s].completed)

(* The connection has lasted and every packet was sent and acknowledged.   *)
Undisturbed == losses = 0 /\ unacked = {}

(* The application is called at most once for a payload, and for no        *)
(* payload it was told had been refused.  A flush that uses a pointer left *)
(* in a work request (FlushesOnlyWhatIsInUse) calls it again: with resets  *)
(* it is checked where a request taken again never waits for entries.      *)
ReturnsOnce ==
  \A p \in Payload :
    /\ Len(returned[p])
         + Cardinality({i \in DOMAIN app_payload_message_queue :
                          app_payload_message_queue[i].payload = p}) <= 1
    /\ returned[p] # <<>> => p \in accepted

(* Source entries are free, held by a payload state or held by a message;  *)
(* the comment at internal_tx.c:872 relies on it.                          *)
SourceEntriesHavePlaces ==
  payload_sgl_entries + Cardinality(Holding) + Len(app_payload_message_queue)
    = PayloadSglEntries

(* A work request in use is in exactly one place, and a packet's entries   *)
(* go with it.                                                             *)
InHand ==
  IF payload_thread.state = "Packetizing" THEN {payload_thread.request} ELSE {}
WorkRequestsHavePlaces ==
  LET queued == UNION {Queued(e) : e \in Endpoint}
      flying == UNION {in_flight[e] : e \in Endpoint}
      freed == ToSet(work_req_comp_queue)
      completed == UNION {Completed(s) : s \in Holding \ {poll_thread.slot}}
      used == InUse(work_request_pool)
  IN  /\ used = Building \cup InHand \cup queued \cup flying \cup freed \cup completed
      /\ Cardinality(used) =
           Cardinality(Building) + Cardinality(InHand) + Cardinality(queued)
             + Cardinality(flying) + Cardinality(freed) + Cardinality(completed)
      /\ packet_sgl_entries + payload_thread.entries
           + EntriesPerPacket * (Cardinality(used) - Cardinality(InHand))
             = PacketSglEntries

(* Whatever the adapter or a queue holds belongs to a payload that is      *)
(* still there, of the same number and endpoint.                           *)
PacketsBelongToPayloads ==
  \A e \in Endpoint : \A w \in OnItsWay(e) :
    LET s == work_requests[w].payload_state
    IN  /\ w \in InUse(work_request_pool)
        /\ s \in InUse(payload_state_pool)
        /\ payload_states[s].endpoint = e
        /\ payload_states[s].payload_num = work_requests[w].payload_num

(* The reference count: one for each packet on its way and one for each    *)
(* payload that TxPayloadThread has taken and whose last packet is not     *)
(* acknowledged.                                                           *)
Begun(e) ==
  {s \in Holding \ {poll_thread.slot} :
     /\ payload_states[s].endpoint = e
     /\ s \notin ToSet(payload_queue)
     /\ \A a \in App : app[a].slot # s
     /\ \A w \in Completed(s) : ~work_requests[w].last}
ReferenceCountIsExact ==
  \A e \in Endpoint :
    tx_in_flight_ref_count[e] = Cardinality(OnItsWay(e)) + Cardinality(Begun(e))

(* As long as the connection lasts and every packet is acknowledged,       *)
(* nothing of the three pools leaks, nothing is given back twice, and the  *)
(* reference count neither lets PollThread sleep over packets              *)
(* (adapter.c:444) nor keeps it awake without any.                         *)
ResourcesAreConserved ==
  Undisturbed =>
    SourceEntriesHavePlaces /\ WorkRequestsHavePlaces /\ ReferenceCountIsExact

(* No packet is left over, or is made, between a reset and the next        *)
(* connection: the receiver starts from payload 0.                         *)
ResetLeavesNothing ==
  \A e \in Endpoint : connection[e] \in {"Reset", "Started"} =>
    OnItsWay(e) = {}

(* A payload state that has been given back is not used again: the comment *)
(* at internal_tx.c:985 clears payload_state_ptr so that "it cannot be     *)
(* accidentally used later", but does so in one of the payload's work      *)
(* requests only.  TxPayloadThreadFlushResources meets the others.         *)
FlushesOnlyWhatIsInUse ==
  [][\A e \in Endpoint :
       ResetEndpoint(e) => ToSet(FailedPayloads) \subseteq InUse(payload_state_pool)]_vars

(* kCdiStatusOk says that the receiver has acknowledged the payload.       *)
OkMeansAcknowledged ==
  \A p \in unacked : \A i \in DOMAIN returned[p] : returned[p][i] # "Ok"

(* Every accepted payload comes back (cdi_raw_api.h: the callback will be  *)
(* invoked), unless its message found the queue full, the connection was   *)
(* lost or a packet failed.                                                *)
EveryPayloadReturns ==
  \A p \in Payload :
    p \in accepted ~> returned[p] # <<>> \/ p \in dropped \/ ~Undisturbed
=============================================================================

----------------------------- MODULE Lifecycle ------------------------------
(***************************************************************************)
(* The life of the objects of the SDK: an application initializes it,      *)
(* creates an adapter and connections, an Rx connection gets its endpoint  *)
(* when the remote side asks for it, and everything is destroyed again.    *)
(* Each call executes the steps of Objects.tla one by one, and one of the  *)
(* allocations and calls on the way may fail, after which the application  *)
(* goes on, and may try again, unless the failure left something behind.   *)
(***************************************************************************)
EXTENDS Objects, Naturals, FiniteSets

CONSTANT Connections  \* those used, a subset of {<<"Send">>, <<"Receive">>}

ASSUME ConnectionsAssumption ==
  Connections \subseteq {<<"Send">>, <<"Receive">>}

VARIABLES
  held,       \* the resources that exist
  ptr,        \* the pointers that are not NULL
  locks,      \* the critical sections reserved, in order
  signalled,  \* the signals that are set
  stack,      \* the calls in progress, the innermost first
  owned,      \* what the application has created and can destroy
  fault,      \* what failed, and the calls it failed in
  crash       \* the first wrong access, or <<>>

vars == <<held, ptr, locks, signalled, stack, owned, fault, crash>>

None == [what |-> <<>>, within |-> {}]
Past == [None EXCEPT !.what = <<"past">>]  \* in an earlier request

Init ==
  /\ held = {} /\ ptr = {} /\ locks = <<>> /\ signalled = {} /\ stack = <<>>
  /\ owned = {} /\ fault = None /\ crash = <<>>

-----------------------------------------------------------------------------
(* What each function does.                                                *)
CodeOf(fn, x) ==
  CASE fn = "CdiOsThreadCreatePinned" -> CdiOsThreadCreatePinned(x)
    [] fn = "CdiOsThreadJoin" -> CdiOsThreadJoin(x)
    [] fn = "CdiQueueCreate" -> CdiQueueCreate(x)
    [] fn = "CdiQueueDestroy" -> CdiQueueDestroy(x)
    [] fn = "PoolCreate" -> PoolCreate(x)
    [] fn = "CdiPoolCreate" -> CdiPoolCreate(x)
    [] fn = "CdiPoolDestroy" -> CdiPoolDestroy(x)
    [] fn = "CdiFifoCreate" -> CdiFifoCreate(x)
    [] fn = "CdiFifoDestroy" -> CdiFifoDestroy(x)
    [] fn = "CdiLoggerInitialize" -> CdiLoggerInitialize(x)
    [] fn = "CdiLoggerCreateLog" -> CdiLoggerCreateLog(x)
    [] fn = "CdiLoggerDestroyLog" -> CdiLoggerDestroyLog(x)
    [] fn = "CdiLoggerShutdown" -> CdiLoggerShutdown(x)
    [] fn = "CloudWatchCreate" -> CloudWatchCreate(x)
    [] fn = "CloudWatchDestroy" -> CloudWatchDestroy(x)
    [] fn = "StatsCreate" -> StatsCreate(x)
    [] fn = "StatsConfigure" -> StatsConfigure(x)
    [] fn = "CreateStatsThread" -> CreateStatsThread(x)
    [] fn = "StatsThreadDestroy" -> StatsThreadDestroy(x)
    [] fn = "StatsDestroy" -> StatsDestroy(x)
    [] fn = "CdiGlobalInitialization" -> CdiGlobalInitialization(x)
    [] fn = "CleanupGlobalResources" -> CleanupGlobalResources(x)
    [] fn = "AdapterInitializeInternal" -> AdapterInitializeInternal(x)
    [] fn = "NetworkAdapterDestroyInternal" -> NetworkAdapterDestroyInternal(x)
    [] fn = "AdapterShutdownInternal" -> AdapterShutdownInternal(x)
    [] fn = "SocketNetworkAdapterInitialize" -> SocketNetworkAdapterInitialize(x)
    [] fn = "SocketAdapterShutdown" -> SocketAdapterShutdown(x)
    [] fn = "EfaNetworkAdapterInitialize" -> EfaNetworkAdapterInitialize(x)
    [] fn = "EfaAdapterShutdown" -> EfaAdapterShutdown(x)
    [] fn = "CdiAdapterCreateConnection" -> CdiAdapterCreateConnection(x)
    [] fn = "CdiAdapterStopConnection" -> CdiAdapterStopConnection(x)
    [] fn = "CdiAdapterDestroyConnection" -> CdiAdapterDestroyConnection(x)
    [] fn = "PollThreadCreate" -> PollThreadCreate(x)
    [] fn = "PollThreadDestroy" -> PollThreadDestroy(x)
    [] fn = "PollThreadConnectionRemove" -> PollThreadConnectionRemove(x)
    [] fn = "EfaConnectionCreate" -> EfaConnectionCreate(x)
    [] fn = "EfaConnectionDestroy" -> EfaConnectionDestroy(x)
    [] fn = "EfaConnectionRelease" -> EfaConnectionRelease(x)
    [] fn = "ControlInterfaceCreate" -> ControlInterfaceCreate(x)
    [] fn = "ControlInterfaceDestroy" -> ControlInterfaceDestroy(x)
    [] fn = "ControlInterfaceStop" -> ControlInterfaceStop(x)
    [] fn = "CdiAdapterOpenEndpoint" -> CdiAdapterOpenEndpoint(x)
    [] fn = "CdiAdapterStartEndpoint" -> CdiAdapterStartEndpoint(x)
    [] fn = "CdiAdapterResetEndpoint" -> CdiAdapterResetEndpoint(x)
    [] fn = "CdiAdapterCloseEndpoint" -> CdiAdapterCloseEndpoint(x)
    [] fn = "SocketEndpointOpen" -> SocketEndpointOpen(x)
    [] fn = "SocketReceiverFree" -> SocketReceiverFree(x)
    [] fn = "SocketReceiverStop" -> SocketReceiverStop(x)
    [] fn = "SocketEndpointClose" -> SocketEndpointClose(x)
    [] fn = "EfaEndpointOpen" -> EfaEndpointOpen(x)
    [] fn = "EfaEndpointStart" -> EfaEndpointStart(x)
    [] fn = "EfaEndpointClose" -> EfaEndpointClose(x)
    [] fn = "EfaEndpointRelease" -> EfaEndpointRelease(x)
    [] fn = "LibFabricEndpointOpen" -> LibFabricEndpointOpen(x)
    [] fn = "LibFabricEndpointClose" -> LibFabricEndpointClose(x)
    [] fn = "CreatePacketPool" -> CreatePacketPool(x)
    [] fn = "FreePacketPool" -> FreePacketPool(x)
    [] fn = "ProbeEndpointCreate" -> ProbeEndpointCreate(x)
    [] fn = "ProbeEndpointStop" -> ProbeEndpointStop(x)
    [] fn = "ProbeEndpointDestroy" -> ProbeEndpointDestroy(x)
    [] fn = "EndpointManagerCreate" -> EndpointManagerCreate(x)
    [] fn = "EndpointManagerDestroy" -> EndpointManagerDestroy(x)
    [] fn = "EndpointManagerShutdownConnection" ->
         EndpointManagerShutdownConnection(x)
    [] fn = "EndpointManagerTxCreateEndpoint" ->
         EndpointManagerTxCreateEndpoint(x)
    [] fn = "EndpointManagerRxCreateEndpoint" ->
         EndpointManagerRxCreateEndpoint(x)
    [] fn = "CreateEndpointCommonResources" -> CreateEndpointCommonResources(x)
    [] fn = "DestroyEndpoint" -> DestroyEndpoint(x)
    [] fn = "ConnectionCommonResourcesCreate" ->
         ConnectionCommonResourcesCreate(x)
    [] fn = "ConnectionCommonResourcesDestroy" ->
         ConnectionCommonResourcesDestroy(x)
    [] fn = "TxCreateInternal" -> TxCreateInternal(x)
    [] fn = "TxCreateConnection" -> TxCreateConnection(x)
    [] fn = "TxConnectionDestroyInternal" -> TxConnectionDestroyInternal(x)
    [] fn = "RxCreateInternal" -> RxCreateInternal(x)
    [] fn = "RxConnectionDestroyInternal" -> RxConnectionDestroyInternal(x)
    [] fn = "EndpointManagerProtocolVersionSet" ->
         EndpointManagerProtocolVersionSet(x, FALSE)
    [] fn = "EndpointManagerLargerVersionSet" ->
         EndpointManagerProtocolVersionSet(x, TRUE)
    [] fn = "RxEndpointCreateDynamicPools" ->
         RxEndpointCreateDynamicPools(x, FALSE)
    [] fn = "RxEndpointRecreateDynamicPools" ->
         RxEndpointCreateDynamicPools(x, TRUE)
    [] fn = "RxBufferInit" -> RxBufferInit(x)
    [] fn = "RxBufferDestroy" -> RxBufferDestroy(x)
    [] fn = "ConnectionDestroyInternal" -> ConnectionDestroyInternal(x)
    [] fn = "ConnectionUnlist" -> ConnectionUnlist(x)
    [] fn = "ConnectionShutdownInternal" -> ConnectionShutdownInternal(x)

Frame(fn, x) == [fn |-> fn, of |-> x, at |-> 1, failing |-> FALSE]
Top == Head(stack)
Steps(frame) == IF frame.failing THEN CodeOf(frame.fn, frame.of).otherwise
                                 ELSE CodeOf(frame.fn, frame.of).body
Finished(frame) == frame.at > Len(Steps(frame))
Now == Steps(Top)[Top.at]
Skips(step) == \/ ~(step.when \subseteq ptr)
               \/ step.unless \cap ptr # {}
Under(x) == {r \in ptr : IsPrefix(x, r)}

-----------------------------------------------------------------------------
(* The threads: the signal each waits for before it starts and the one it  *)
(* exits for, and what it uses while it runs.                              *)
Threads == {Front(r) : r \in {h \in held : Last(h) = "pthread"}}
StartSignal(t) ==
  LET c == Con(t)
  IN CASE Last(t) \in {"payload_thread", "app_payload_message_thread",
                       "manager_thread", "stats_thread", "cw_thread"} ->
            {c ** "start_signal"}
       [] Last(t) = "poll_thread" -> {Front(t) ** "start_signal"}
       [] Last(t) = "probe_thread" ->
            {Front(Front(Front(t))) ** "start_signal"}
       [] OTHER -> {}
ExitSignal(t) ==
  CASE Last(t) \in {"system_monitor_thread", "manager_thread", "buffer_thread",
                    "payload_thread", "app_payload_message_thread"} ->
         Front(t) ** "shutdown_signal"
    [] Last(t) \in {"cw_thread", "stats_thread"} ->
         Front(t) ** "thread_exit_signal"
    [] Last(t) = "poll_thread" -> Front(Front(t)) ** "shutdown_signal"
    [] Last(t) = "probe_thread" ->
         Front(Front(Front(t))) ** "shutdown_signal"
    [] Last(t) = "receive_thread" -> Front(t) ** "shutdown"
Started(t) == StartSignal(t) \subseteq signalled
Fields(x, names) == {x} \cup {x ** n : n \in names}

SystemMonitorThread(x) == {x ** "shutdown_signal"}
TxPayloadThread(c) ==
  Fields(c, {"log", "shutdown_signal", "payload_queue", "work_req_comp_queue",
             "work_request_pool", "packet_sgl_entry_pool"})
    \cup Fields(Manager(c), {"new_command_signal", "state_lock"})
AppCallbackPayloadThread(c) ==
  Fields(c, {"log", "shutdown_signal", "app_payload_message_queue",
             "error_message_pool"} \cup
            (IF Sends(c) THEN {"payload_sgl_entry_pool"} ELSE {}))
EndpointManagerThread(m) ==
  Fields(m, {"all_threads_waiting_signal", "shutdown_signal",
             "poll_thread_exit_signal", "state_lock"})
    \cup {Con(m) ** "log"}
StatsThread(s) ==
  Fields(s, {"stats_thread_args", "thread_exit_signal", "stats_data_lock", "td",
             "cloudwatch"})
    \cup Fields(Con(s), {"log", "shutdown_signal"})
CloudWatchThread(w) ==
  Fields(w, {"thread_exit_signal", "stat_fifo", "config_data_lock"})
    \cup Fields(Con(w), {"log", "shutdown_signal"})
(* A poll thread leaves its connections alone once they have left its list *)
(* and the Endpoint Manager once it was told to exit.                      *)
PollThread(p) ==
  Fields(p, {"connection_list_lock", "connection_list_changed_signal",
             "connection_list_processed_signal"})
    \cup (IF Front(p) ** "list_entry" \in held THEN {Front(p)} ELSE {})
    \cup (IF IsControl(p) \/ Front(p) ** "shutdown_signal" \in signalled
            THEN {} ELSE Fields(Manager(Con(p)), {"new_command_signal"}))
ProbeControlThread(p) ==
  Fields(p, {"control_packet_fifo", "ack_lock"})
    \cup {Front(p), Front(Front(p)), Manager(Con(p)),
          Con(p) ** "adapter_connection" ** "control_interface"}
SocketReceiveThread(x) ==
  Fields(x, {"receive_buffer_pool", "shutdown"})
    \cup Fields(Front(x), {"socket"})
    \cup Fields(Con(x) ** "adapter_connection", {"shutdown_signal"})
ReceiveBufferThread(b) ==
  Fields(b, {"shutdown_signal", "input_queue", "delay_pool"})
    \cup Fields(Con(b), {"app_payload_message_queue"})
Uses(t) ==
  LET x == Front(t)
  IN CASE Last(t) = "system_monitor_thread" -> SystemMonitorThread(x)
       [] Last(t) = "payload_thread" -> TxPayloadThread(x)
       [] Last(t) = "app_payload_message_thread" -> AppCallbackPayloadThread(x)
       [] Last(t) = "manager_thread" -> EndpointManagerThread(x)
       [] Last(t) = "stats_thread" -> StatsThread(x)
       [] Last(t) = "cw_thread" -> CloudWatchThread(x)
       [] Last(t) = "poll_thread" -> PollThread(x)
       [] Last(t) = "probe_thread" -> ProbeControlThread(x)
       [] Last(t) = "receive_thread" -> SocketReceiveThread(x)
       [] Last(t) = "buffer_thread" -> ReceiveBufferThread(x)

-----------------------------------------------------------------------------
(* A step.  What is wrong to do: to use the field of an object that is     *)
(* gone, to follow a pointer to what is gone or NULL, to destroy a         *)
(* critical section that is reserved or release one that is not, and to    *)
(* wait for a thread that cannot start or was not asked to exit.           *)
InLiveObject(r) == Len(r) = 1 \/ Front(r) \in held \cup {Cdi, Logger}
IsWrong(step) ==
  LET r == step.of
      dangles == r \in ptr /\ r \notin held
  IN CASE step.op \in {"get", "store", "null", "attempt", "insert", "drop",
                       "undo"} -> ~InLiveObject(r)
       [] step.op = "free" -> ~InLiveObject(r) \/ dangles \/ r \in Range(locks)
       [] step.op = "freeonly" -> dangles \/ r \in Range(locks)
       [] step.op = "reserve" -> r \notin held
       [] step.op = "release" -> r \notin held \cap Range(locks)
       [] step.op = "signal" -> ~InLiveObject(r) \/ dangles
       [] step.op = "touch" -> r \notin held
       [] step.op = "join" ->
            LET t == Front(r)
            IN \/ r \notin held
               \/ ~(StartSignal(t) \subseteq held)
               \/ Started(t) /\ ExitSignal(t) \notin signalled
       [] OTHER -> FALSE
(* Of two pointers tested the second is read if the first is not NULL, and *)
(* whether an object is in a list is read from the list.                   *)
IsMisuse(step) ==
  \/ \E p \in step.when : /\ step.when \ {p} \subseteq ptr
                         /\ Last(p) # "list_entry" /\ ~InLiveObject(p)
  \/ ~Skips(step) /\ IsWrong(step)

Midway == stack # <<>> /\ crash = <<>> /\ ~Finished(Top)
Executes(ops) == Midway /\ ~IsMisuse(Now) /\ ~Skips(Now) /\ Now.op \in ops
Advanced == [Top EXCEPT !.at = @ + 1]
Onwards == stack' = <<Advanced>> \o Tail(stack)
Calls(fn, x) == stack' = <<Frame(fn, x), Advanced>> \o Tail(stack)
OnErrorPath(frame) == [frame EXCEPT !.at = 1, !.failing = TRUE]

Misuse ==
  /\ Midway /\ IsMisuse(Now)
  /\ crash' = <<Top.fn, Now.of>>
  /\ UNCHANGED <<held, ptr, locks, signalled, stack, owned, fault>>

Skip ==
  /\ Midway /\ ~IsMisuse(Now) /\ Skips(Now)
  /\ Onwards
  /\ UNCHANGED <<held, ptr, locks, signalled, owned, fault, crash>>

Take ==
  /\ Executes({"get", "local", "insert"})
  /\ held' = held \cup {Now.of}
  /\ ptr' = CASE Now.op = "get" -> (ptr \ Under(Now.of)) \cup {Now.of}
              [] Now.op = "insert" -> ptr \cup {Now.of}
              [] OTHER -> ptr
  /\ signalled' = signalled \ {Now.of}
  /\ Onwards
  /\ UNCHANGED <<locks, owned, fault, crash>>

Fail ==
  /\ Executes({"get", "local", "attempt"}) /\ fault = None
  /\ ptr' = IF Now.op = "get" THEN ptr \ {Now.of} ELSE ptr
  /\ fault' = [what |-> Now.of, within |-> {f.fn : f \in Range(stack)}]
  /\ stack' = <<OnErrorPath(Top)>> \o Tail(stack)
  /\ UNCHANGED <<held, locks, signalled, owned, crash>>

GiveBack ==
  /\ Executes({"drop", "discard", "free", "freeonly"})
  /\ IF Now.op \in {"free", "freeonly"} /\ Now.of \notin ptr
       THEN UNCHANGED <<held, ptr>>
       ELSE /\ held' = held \ {Now.of}
            /\ ptr' = ptr \ (IF Now.op \in {"drop", "free"}
                               THEN Under(Now.of) ELSE Under(Now.of) \ {Now.of})
  /\ signalled' = signalled \cap held'
  /\ Onwards
  /\ UNCHANGED <<locks, owned, fault, crash>>

(* A thread that has not started gets its start signal, to exit.           *)
JoinThread ==
  /\ Executes({"join"})
  /\ held' = held \ {Now.of} /\ ptr' = ptr \ {Now.of}
  /\ signalled' = signalled \cup StartSignal(Front(Now.of))
  /\ Onwards
  /\ UNCHANGED <<locks, owned, fault, crash>>

Point ==
  /\ Executes({"store", "null", "attempt", "touch"})
  /\ ptr' = CASE Now.op = "store" -> ptr \cup {Now.of}
              [] Now.op = "null" -> ptr \ {Now.of}
              [] OTHER -> ptr
  /\ Onwards
  /\ UNCHANGED <<held, locks, signalled, owned, fault, crash>>

Lock ==
  /\ Executes({"reserve", "release"})
  /\ locks' = IF Now.op = "reserve" THEN Append(locks, Now.of)
                                    ELSE RemoveFirst(locks, Now.of)
  /\ Onwards
  /\ UNCHANGED <<held, ptr, signalled, owned, fault, crash>>

SetSignal ==
  /\ Executes({"signal"})
  /\ signalled' = signalled \cup ({Now.of} \cap ptr)
  /\ Onwards
  /\ UNCHANGED <<held, ptr, locks, owned, fault, crash>>

Call ==
  /\ Executes({"make", "try", "undo"})
  /\ Calls(Now.fn, Now.of)
  /\ UNCHANGED <<held, ptr, locks, signalled, owned, fault, crash>>

(* The caller has already moved on: the step that called is the one before.*)
Return ==
  /\ Len(stack) > 1 /\ crash = <<>> /\ Finished(Top)
  /\ LET caller == stack[2]
         fails == /\ Top.failing /\ ~caller.failing
                  /\ Steps(caller)[caller.at - 1].op = "make"
     IN stack' = <<IF fails THEN OnErrorPath(caller) ELSE caller>>
                   \o SubSeq(stack, 3, Len(stack))
  /\ UNCHANGED <<held, ptr, locks, signalled, owned, fault, crash>>

-----------------------------------------------------------------------------
(* The calls of the application, that of the control interface which       *)
(* creates the endpoint of an Rx connection, and that of the probe when    *)
(* it learns the protocol version of the remote side.                      *)
Creators == {"CdiGlobalInitialization", "AdapterInitializeInternal",
             "TxCreateInternal", "RxCreateInternal"}
Destroyers == {"CleanupGlobalResources", "NetworkAdapterDestroyInternal",
               "ConnectionDestroyInternal"}
(* What exists without belonging to something the application has.  The    *)
(* logger keeps what its static pointers hold for the next initialization. *)
Residue == {r \in held : /\ <<Head(r)>> \notin owned
                         /\ Head(r) = "logger" => Cdi \notin owned
                         /\ ~(InitializesOnce(r) /\ r \in ptr)}
Idle == stack = <<>> /\ crash = <<>> /\ Residue = {}
Requests(fn, x) ==
  /\ Idle
  /\ stack' = <<Frame(fn, x)>>
  /\ fault' = IF fault = None THEN None ELSE Past
  /\ UNCHANGED <<held, ptr, locks, signalled, owned, crash>>

Initialize ==
  Cdi \notin owned /\ Requests("CdiGlobalInitialization", Cdi)
Shutdown == owned = {Cdi} /\ Requests("CleanupGlobalResources", Cdi)
CreateAdapter ==
  /\ Cdi \in owned /\ Adapter \notin owned
  /\ Requests("AdapterInitializeInternal", Adapter)
DestroyAdapter ==
  /\ Adapter \in owned /\ owned \cap Connections = {}
  /\ Requests("NetworkAdapterDestroyInternal", Adapter)
(* One connection at a time: they share the lists of the adapter only.     *)
CreateConnection(c) ==
  /\ Adapter \in owned /\ owned \cap Connections = {}
  /\ Requests(IF c = <<"Send">> THEN "TxCreateInternal" ELSE "RxCreateInternal",
              c)
DestroyConnection(c) == c \in owned /\ Requests("ConnectionDestroyInternal", c)
RemoteConnects(c) ==
  /\ c \in owned /\ ~Sends(c) /\ Endpoint(c) \notin held
  /\ Requests("EndpointManagerRxCreateEndpoint", Endpoint(c))
VersionIsKnown(c, larger) ==
  /\ c \in owned /\ Endpoint(c) ** "list_entry" \in held
  /\ Requests(IF larger THEN "EndpointManagerLargerVersionSet"
              ELSE "EndpointManagerProtocolVersionSet", Endpoint(c))

Complete ==
  /\ Len(stack) = 1 /\ crash = <<>> /\ Finished(Top)
  /\ owned' = CASE Top.fn \in Creators /\ ~Top.failing -> owned \cup {Top.of}
                [] Top.fn \in Destroyers -> owned \ {Top.of}
                [] OTHER -> owned
  /\ stack' = <<>>
  /\ UNCHANGED <<held, ptr, locks, signalled, fault, crash>>

Next ==
  \/ Misuse \/ Skip \/ Take \/ Fail \/ GiveBack \/ JoinThread
  \/ Point \/ Lock \/ SetSignal \/ Call \/ Return \/ Complete
  \/ Initialize \/ Shutdown \/ CreateAdapter \/ DestroyAdapter
  \/ \E c \in Connections :
       \/ CreateConnection(c) \/ DestroyConnection(c) \/ RemoteConnects(c)
       \/ \E larger \in BOOLEAN : VersionIsKnown(c, larger)

Spec == Init /\ [][Next]_vars

-----------------------------------------------------------------------------
(* What one failure is known to do to the code, with the line of each.     *)
Gone(r) == r \notin held
KnownLoss(r) ==
  LET c == <<Head(r)>>
  IN /\ fault # None
     /\ \/ Last(r) \in {"items",           \* pool.c:302
                        "memory_region",   \* adapter_efa_rx.c:238
                        "socket"}          \* adapter_socket.c:246
           /\ Gone(Front(r))
        \/ /\ Len(r) > 2 /\ r[3] \in {"tx_header_pool", "tx_extra_header_pool"}
           /\ Gone(SubSeq(r, 1, 2))        \* adapter.c:842, adapter_efa.c:727
        \/ /\ c \in Connections           \* not listed, internal.c:709
           /\ \/ "CdiLoggerCreateLog" \in fault.within
              \/ "ConnectionCommonResourcesCreate" \in fault.within
              \/ fault.what = c ** "buffer_delay_ms"
        \/ /\ c \in Connections           \* left alone, internal_tx.c:705
           /\ "EndpointManagerTxCreateEndpoint" \in fault.within
        \/ /\ c = Adapter                 \* internal.c:507
           /\ \E a \in {Adapter, ControlAdapter} :
                fault.what \in {a ** "connection_list_lock", a ** "adapter_lock"}
KnownCrash ==
  /\ fault # None
  /\ <<crash[1], Last(crash[2])>> \in
       {<<"TxCreateConnection", "Send">>,                  \* internal_tx.c:516
        <<"EndpointManagerCreate", "endpoint_manager">>,   \* endpoint_manager.c:581
        <<"PollThreadCreate", "poll_thread_state">>,       \* adapter.c:758
        <<"PollThreadConnectionRemove",
          "connection_list_lock">>,                        \* adapter.c:554
        <<"CdiAdapterDestroyConnection", "adapter_state">>,  \* adapter.c:842
        <<"CdiAdapterOpenEndpoint", "adapter_endpoint">>,  \* adapter.c:951
        <<"CdiLoggerDestroyLog", "file_data">>,            \* logger.c:307
        <<"CdiLoggerDestroyLog", "callback_data">>}
(* The start signal is that of all the threads of the connection,          *)
(* os_linux.c:435.                                                         *)
KnownStart(t) ==
  Last(t) = "payload_thread" /\ "TxCreateConnection" \in fault.within

(* When no call is in progress, all that exists belongs to what the        *)
(* application still has, whatever failed and whichever destructor         *)
(* followed, and no critical section is left reserved: what a constructor  *)
(* takes, its error path or the destructor gives back.                     *)
NothingIsLost ==
  stack = <<>> => locks = <<>> /\ \A r \in Residue : KnownLoss(r)

(* At every step of a construction or a destruction, the threads that have *)
(* started find all they use, and those that have not find their signal.   *)
ThreadsRunOnLiveState ==
  \A t \in Threads :
     IF Started(t) THEN Uses(t) \subseteq held \/ KnownStart(t)
                   ELSE StartSignal(t) \subseteq held

(* No function uses or destroys what was never made or is already gone,    *)
(* or waits for a thread that was not told to end, and no thread runs on   *)
(* what is not there: the order of a constructor and of a destructor, and  *)
(* of the error paths that leave it half of the object.                    *)
NoMisuse == (crash = <<>> \/ KnownCrash) /\ ThreadsRunOnLiveState
=============================================================================

------------------------------ MODULE Objects -------------------------------
(***************************************************************************)
(* How the objects of the SDK are built and taken down: for each function  *)
(* that creates or destroys one, the steps that take or give back a        *)
(* resource, in the order of the code, and the steps of its error path.    *)
(* Lifecycle.tla executes them.                                            *)
(*                                                                         *)
(* A resource is named by the path of the pointer that holds it: the       *)
(* connection is <<"Send">> or <<"Receive">>, the lock of the queue in its *)
(* field payload_queue is <<"Send", "payload_queue",                       *)
(* "multiple_writer_cs">>, and the block of memory an object lives in has  *)
(* the name of the object.                                                 *)
(***************************************************************************)
EXTENDS Sequences, SequencesExt

x ** field == Append(x, field)

(***************************************************************************)
(* The steps.  A step is skipped when one of the pointers in "when" is     *)
(* NULL, or one of those in "unless" is not.  One that fails goes on at    *)
(* the error path (otherwise), which ends in a failed return.              *)
(***************************************************************************)
Step(op, fn, of, when) ==
  [op |-> op, fn |-> fn, of |-> of, when |-> when, unless |-> {}]
Do(op, r) == Step(op, "", r, {})
IfSet(x, step) == [step EXCEPT !.when = @ \cup {x}]
Unless(x, step) == [step EXCEPT !.unless = @ \cup {x}]
IfNull(step) == Unless(step.of, step)  \* unless it is there already
Get(r) == Do("get", r)         \* take r and store the pointer, or NULL
GetLocal(r) == Do("local", r)  \* take r, the pointer is a local variable
Discard(r) == Do("discard", r) \* give r back by that variable
Store(r) == Do("store", r)     \* store that pointer
Null(r) == Do("null", r)       \* set the pointer to NULL
Attempt(r) == Do("attempt", r) \* a call that may fail and takes nothing
Insert(r) == Do("insert", r)   \* what cannot fail: an entry of a list
Drop(r) == Do("drop", r)       \* take the entry out, if it is in
Free(r) == Do("free", r)       \* if not NULL, give back r and set to NULL
FreeOnly(r) == Do("freeonly", r)  \* the pointer is not reset
Reserve(r) == Do("reserve", r)
Release(r) == Do("release", r)
Signal(r) == Do("signal", r)   \* CdiOsSignalSet, if not NULL
Touch(r) == Do("touch", r)     \* dereference the pointer to r
Join(t) == Do("join", t)       \* wait for the thread
Make(fn, x) == Step("make", fn, x, {})  \* a call whose failure is this one's
Try(fn, x) == Step("try", fn, x, {})    \* a call whose failure is ignored
Undo(fn, x) == Step("undo", fn, x, {x}) \* a destructor, if x is not NULL
UndoIf(fn, x, r) == Step("undo", fn, x, {r})  \* if the pointer to r is not

If(condition, steps) == IF condition THEN steps ELSE <<>>
Code(body, otherwise) == [body |-> body, otherwise |-> otherwise]
Plain(body) == Code(body, <<>>)
FreeAll(x, fields) == [i \in DOMAIN fields |-> Free(x ** fields[i])]
GetAll(x, fields) == [i \in DOMAIN fields |-> Get(x ** fields[i])]

-----------------------------------------------------------------------------
(* Threads: is_done, and the thread.                                       *)
CdiOsThreadCreatePinned(t) ==
  Code(<<Get(t), Get(t ** "is_done"), Get(t ** "pthread")>>,
       <<IfSet(t, Free(t ** "is_done")), Free(t)>>)
CdiOsThreadJoin(t) ==
  Plain(<<Join(t ** "pthread"), Free(t ** "is_done"), FreeOnly(t)>>)
SdkThreadJoin(t, shutdown) ==
  <<Signal(shutdown), Undo("CdiOsThreadJoin", t), Null(t)>>

(* Queues, by the flags they are created with.                             *)
PopWaits(q) ==
  \/ Last(q) \in {"payload_queue", "work_req_comp_queue",
                  "app_payload_message_queue", "input_queue"}
  \/ Last(q) = "tx_packet_queue" /\ "control_interface" \in Range(q)
MultipleWriters(q) == Last(q) \in {"payload_queue", "free_buffer_queue"}
CdiQueueCreate(q) ==
  Code(<<GetLocal(q ** "items"), Get(q), Store(q ** "items")>>
         \o If(PopWaits(q), <<Get(q ** "wake_pop_waiters_signal")>>)
         \o If(MultipleWriters(q), <<Get(q ** "multiple_writer_cs")>>),
       <<Undo("CdiQueueDestroy", q), Discard(q ** "items"), Null(q)>>)
CdiQueueDestroy(q) ==
  Plain(<<Free(q ** "items"), Free(q ** "multiple_writer_cs"),
          Free(q ** "wake_pop_waiters_signal"), FreeOnly(q)>>)

(* Pools, by their flag thread_safe and where their items are.             *)
ThreadSafe(p) == Last(p) \notin {"work_request_pool", "packet_sgl_entry_pool",
  "tx_header_pool", "tx_extra_header_pool", "packet_sgl_entries_pool",
  "delay_pool"}
ExistingBuffer(p) == Last(p) \in {"tx_header_pool", "tx_extra_header_pool",
                                  "probe_work_request_pool"}
PoolCreate(p) ==
  Code(<<Get(p)>> \o If(ThreadSafe(p), <<Get(p ** "lock")>>)
         \o If(~ExistingBuffer(p), <<Store(p ** "items")>>),
       <<Undo("CdiPoolDestroy", p), Null(p)>>)
CdiPoolCreate(p) ==
  Plain(If(~ExistingBuffer(p), <<GetLocal(p ** "items")>>)
          \o <<Make("PoolCreate", p)>>)
CdiPoolDestroy(p) ==
  Plain(If(~ExistingBuffer(p), <<Free(p ** "items")>>)
          \o <<Free(p ** "lock"), FreeOnly(p)>>)

CdiFifoCreate(f) ==
  Code(<<Get(f)>>
         \o GetAll(f, <<"read_lock", "write_lock", "just_pushed_signal",
                        "just_popped_signal", "item_array">>),
       <<Undo("CdiFifoDestroy", f), Null(f)>>)
CdiFifoDestroy(f) ==
  Plain(FreeAll(f, <<"read_lock", "write_lock", "just_pushed_signal",
                     "just_popped_signal", "item_array">>)
          \o <<FreeOnly(f)>>)

-----------------------------------------------------------------------------
(* The logger.  The global log goes to a callback of the application and   *)
(* that of a connection to a file, so that both have data of their own.    *)
Logger == <<"logger">>
ListLock == Logger ** "log_state_list_lock"
StdoutLog == Logger ** "stdout_log"
InitializesOnce(r) ==
  r \in {ListLock, Logger ** "multiline_free_list_lock", StdoutLog,
         StdoutLog ** "list_entry"}
LogData(l) == l ** (IF Last(l) = "log" THEN "file_data" ELSE "callback_data")
CdiLoggerInitialize(l) ==
  Code(<<IfNull(Get(ListLock)), IfNull(Get(l ** "multiline_free_list_lock")),
         IfNull(Make("CdiLoggerCreateLog", l ** "stdout_log")),
         Get(l ** "log_thread_data"), Insert(l ** "initialization_ref_count")>>,
       <<>>)
CdiLoggerCreateLog(l) ==
  Code(<<Reserve(ListLock), Get(l)>>
         \o If(Last(l) # "stdout_log", <<Get(LogData(l))>>)
         \o If(Last(l) = "log", <<Get(LogData(l) ** "file_handle")>>)
         \o <<Insert(l ** "list_entry"), Release(ListLock)>>,
       <<Release(ListLock), Undo("CdiLoggerDestroyLog", l), Null(l)>>)
(* The reference count of the data, which is dereferenced first, is zero   *)
(* again only if the log had been entered in the list.                     *)
CdiLoggerDestroyLog(l) ==
  Plain(<<Reserve(ListLock), Touch(LogData(l)),
          IfSet(l ** "list_entry", Free(LogData(l) ** "file_handle")),
          IfSet(l ** "list_entry", Free(LogData(l))),
          Drop(l ** "list_entry"), FreeOnly(l), Release(ListLock)>>)
CdiLoggerShutdown(l) ==
  Plain(<<Drop(l ** "initialization_ref_count"),
          Drop(l ** "stdout_log" ** "list_entry"),
          Free(ListLock), Free(l ** "multiline_free_list_lock"),
          Free(l ** "log_thread_data"), Free(l ** "stdout_log")>>)

(* CloudWatch and the statistics of a connection.  One destination is      *)
(* compiled in.                                                            *)
CloudWatchCreate(c) ==
  Code(<<Get(c), Get(c ** "config_data_lock"),
         Make("CdiFifoCreate", c ** "stat_fifo"),
         Get(c ** "thread_exit_signal"),
         Make("CdiOsThreadCreatePinned", c ** "cw_thread")>>,
       <<Undo("CloudWatchDestroy", c), Null(c)>>)
CloudWatchDestroy(c) ==
  Plain(<<IfSet(c ** "cw_thread", Signal(c ** "thread_exit_signal")),
          Undo("CdiOsThreadJoin", c ** "cw_thread"), Null(c ** "cw_thread"),
          Free(c ** "thread_exit_signal"),
               Undo("CdiFifoDestroy", c ** "stat_fifo"), Null(c ** "stat_fifo"),
               Free(c ** "config_data_lock"), FreeOnly(c)>>)
StatsCreate(s) ==
  Code(<<Get(s)>> \o GetAll(s, <<"td", "thread_exit_signal", "stats_data_lock">>)
         \o <<Make("CloudWatchCreate", s ** "cloudwatch")>>,
       <<Undo("StatsDestroy", s), Null(s)>>)
CreateStatsThread(s) ==
  Code(<<Get(s ** "stats_thread_args"),
         Make("CdiOsThreadCreatePinned", s ** "stats_thread")>>,
       <<Free(s ** "stats_thread_args")>>)
StatsThreadDestroy(s) ==
  LET thread == s ** "stats_thread"
  IN Plain(<<IfSet(thread, Signal(s ** "thread_exit_signal")),
             Undo("CdiOsThreadJoin", thread), Null(thread),
             Free(s ** "stats_thread_args")>>)
StatsDestroy(s) ==
  Plain(<<Undo("StatsThreadDestroy", s),
          Undo("CloudWatchDestroy", s ** "cloudwatch"),
          Null(s ** "cloudwatch")>>
          \o FreeAll(s, <<"stats_data_lock", "thread_exit_signal", "td">>)
          \o <<FreeOnly(s)>>)

-----------------------------------------------------------------------------
(* The SDK, with CloudWatch and without the metrics gathering service.     *)
Cdi == <<"cdi">>
AdapterList == Cdi ** "adapter_handle_list_lock"
CdiGlobalInitialization(g) ==
  Code(<<Get(AdapterList), Make("CdiLoggerInitialize", Logger),
         Get(g ** "logger"), Make("CdiLoggerCreateLog", g ** "global_log"),
         Get(g ** "cw_sdk"), Get(g ** "shutdown_signal"),
         Make("CdiOsThreadCreatePinned", g ** "system_monitor_thread"),
         Insert(g)>>,
       <<Make("CleanupGlobalResources", g)>>)
CleanupGlobalResources(g) ==
  Plain(SdkThreadJoin(g ** "system_monitor_thread", g ** "shutdown_signal")
          \o <<Free(g ** "shutdown_signal"), FreeOnly(AdapterList),
               Free(g ** "cw_sdk"),
               Undo("CdiLoggerDestroyLog", g ** "global_log"),
               Null(g ** "global_log"),
               UndoIf("CdiLoggerShutdown", Logger,
                      Logger ** "initialization_ref_count"),
               Free(g ** "logger"), Drop(g)>>)

(* An adapter: the EFA adapter of the application, or the socket adapter   *)
(* of its control interface.                                               *)
Adapter == <<"adapter">>
Efa == Adapter ** "type_specific"
ControlAdapter == Efa ** "control_interface_adapter"
AdapterInitializeInternal(a) ==
  Code(<<Reserve(AdapterList), IfSet(Adapter ** "list_entry", Touch(Adapter)),
         IfSet(ControlAdapter ** "list_entry", Touch(ControlAdapter)), Get(a),
         Make(IF a = Adapter THEN "EfaNetworkAdapterInitialize"
                             ELSE "SocketNetworkAdapterInitialize", a),
         Get(a ** "connection_list_lock"), Insert(a ** "list_entry"),
         Get(a ** "adapter_lock"), Release(AdapterList)>>,
       <<IfSet(a, Free(a ** "adapter_lock")),
         IfSet(a, Free(a ** "connection_list_lock")),
         Free(a), Release(AdapterList)>>)
NetworkAdapterDestroyInternal(a) ==
  Plain(<<Reserve(AdapterList), Drop(a ** "list_entry"),
          Undo("AdapterShutdownInternal", a), Release(AdapterList)>>)
AdapterShutdownInternal(a) ==
  Plain(<<Reserve(a ** "adapter_lock"), Free(a ** "connection_list_lock"),
          Undo(IF a = Adapter THEN "EfaAdapterShutdown"
                              ELSE "SocketAdapterShutdown", a),
          Release(a ** "adapter_lock"), Free(a ** "adapter_lock"), Free(a)>>)
SocketNetworkAdapterInitialize(a) == Plain(<<Get(a ** "ret_tx_buffer")>>)
SocketAdapterShutdown(a) == Plain(<<Free(a ** "ret_tx_buffer")>>)
EfaNetworkAdapterInitialize(a) ==
  Code(<<Get(Efa), Get(Efa ** "libfabric_lock"),
         Attempt(Efa ** "environment"), Attempt(Efa ** "libfabric_api_1_9"),
         Attempt(Efa ** "libfabric_api_new"), Get(a ** "tx_payload_buffer"),
         Make("CdiPoolCreate", a ** "probe_work_request_pool"),
         Make("AdapterInitializeInternal", ControlAdapter)>>,
       <<Undo("EfaAdapterShutdown", a)>>)
EfaAdapterShutdown(a) ==
  Plain(<<IfSet(Efa, Undo("NetworkAdapterDestroyInternal", ControlAdapter)),
          IfSet(Efa, Free(Efa ** "libfabric_lock")), Free(Efa),
          Undo("CdiPoolDestroy", a ** "probe_work_request_pool"),
          Null(a ** "probe_work_request_pool"), Free(a ** "tx_payload_buffer")>>)

-----------------------------------------------------------------------------
(* The connection of an adapter and its poll thread.  A control connection *)
(* is bidirectional.                                                       *)
Con(x) == <<Head(x)>>
IsControl(x) == "control_interface" \in Range(x)
Sends(x) == ~IsControl(x) /\ Con(x) = <<"Send">>
CanTransmit(x) == IsControl(x) \/ Con(x) = <<"Send">>
AdapterOf(x) == IF IsControl(x) THEN ControlAdapter ELSE Adapter
PollState(c) == c ** "poll_thread_state"
CdiAdapterCreateConnection(c) ==
  Code(<<Reserve(AdapterOf(c) ** "adapter_lock"), Get(c),
         Get(c ** "shutdown_signal"), Get(c ** "endpoint_lock"),
         Insert(c ** "adapter_state")>>
         \o If(CanTransmit(c), <<Get(c ** "tx_poll_do_work_signal")>>)
         \o If(Sends(c), <<Get(c ** "tx_header_buffer"),
                           Make("CdiPoolCreate", c ** "tx_header_pool"),
                           Make("CdiPoolCreate", c ** "tx_extra_header_pool")>>)
         \o <<Make("PollThreadCreate", c)>>
         \o If(~IsControl(c), <<Make("EfaConnectionCreate", c)>>)
         \o <<Release(AdapterOf(c) ** "adapter_lock")>>,
       <<Undo("CdiAdapterDestroyConnection", c), Null(c),
         Release(AdapterOf(c) ** "adapter_lock")>>)
PollThreadCreate(c) ==
  LET p == PollState(c)
  IN Code(<<GetLocal(p)>> \o GetAll(p, <<"connection_list_changed_signal",
              "connection_list_processed_signal", "connection_list_lock",
              "start_signal">>)
            \o <<Store(p), Insert(c ** "list_entry"),
                 Make("CdiOsThreadCreatePinned", p ** "poll_thread"),
                 Insert(p ** "list_entry")>>,
          <<Touch(p), Make("PollThreadDestroy", c)>>)
PollThreadDestroy(c) ==
  LET p == PollState(c)
  IN Plain(<<IfSet(p ** "poll_thread", Signal(c ** "shutdown_signal")),
             Undo("CdiOsThreadJoin", p ** "poll_thread"),
             Null(p ** "poll_thread")>>
             \o FreeAll(p, <<"start_signal", "connection_list_lock",
                    "connection_list_processed_signal",
                    "connection_list_changed_signal">>)
             \o <<Discard(p)>>)
PollThreadConnectionRemove(c) ==
  LET p == PollState(c)
  IN Plain(<<Reserve(p ** "connection_list_lock"), Drop(c ** "list_entry"),
             Release(p ** "connection_list_lock"), Null(p),
             Reserve(AdapterOf(c) ** "adapter_lock"), Drop(p ** "list_entry"),
             Release(AdapterOf(c) ** "adapter_lock"),
             Make("PollThreadDestroy", c)>>)
CdiAdapterStopConnection(c) ==
  Plain(<<UndoIf("PollThreadConnectionRemove", c, PollState(c))>>)
CdiAdapterDestroyConnection(c) ==
  Plain(<<Touch(c ** "adapter_state"), Reserve(AdapterOf(c) ** "adapter_lock"),
          Undo("CdiAdapterStopConnection", c)>>
          \o If(~IsControl(c), <<Undo("EfaConnectionDestroy", c)>>)
          \o <<Free(c ** "tx_header_buffer"),
               Release(AdapterOf(c) ** "adapter_lock"),
               Free(c ** "tx_poll_do_work_signal"), Free(c ** "shutdown_signal"),
               Free(c ** "endpoint_lock"), Drop(c ** "adapter_state"),
               FreeOnly(c)>>)
EfaConnectionCreate(c) ==
  Code(<<Get(c ** "type_specific"),
         Make("ControlInterfaceCreate", c ** "control_interface"),
         Make("CdiAdapterStartEndpoint",
              c ** "control_interface" ** "adapter_endpoint")>>,
       <<Undo("EfaConnectionDestroy", c)>>)
EfaConnectionDestroy(c) ==
  LET x == c ** "type_specific"
  IN Plain(<<UndoIf("EfaConnectionRelease", c, x)>>)
EfaConnectionRelease(c) ==
  Plain(<<Undo("ControlInterfaceDestroy", c ** "control_interface"),
          Null(c ** "control_interface"),
          Undo("CdiPoolDestroy", c ** "tx_extra_header_pool"),
          Null(c ** "tx_extra_header_pool"),
          Undo("CdiPoolDestroy", c ** "tx_header_pool"),
          Null(c ** "tx_header_pool"), Free(c ** "type_specific")>>)
ControlInterfaceCreate(k) ==
  Code(<<Get(k), Make("CdiPoolCreate", k ** "control_work_request_pool"),
         Make("CdiAdapterCreateConnection", k ** "adapter_connection"),
         Make("CdiAdapterOpenEndpoint", k ** "adapter_endpoint")>>,
       <<Undo("ControlInterfaceDestroy", k), Null(k)>>)
ControlInterfaceDestroy(k) ==
  LET c == k ** "adapter_connection"
      e == k ** "adapter_endpoint"
  IN Plain(<<UndoIf("ControlInterfaceStop", c, c),
             Undo("CdiAdapterCloseEndpoint", e), Null(e),
             Undo("CdiPoolDestroy", k ** "control_work_request_pool"),
             Null(k ** "control_work_request_pool"),
             Undo("CdiAdapterDestroyConnection", c), Null(c), FreeOnly(k)>>)
ControlInterfaceStop(c) ==
  Plain(<<Signal(c ** "shutdown_signal"), Undo("CdiAdapterStopConnection", c)>>)

-----------------------------------------------------------------------------
(* Endpoints of an adapter: that of a control interface is a socket that   *)
(* sends and receives, and those of the application go through libfabric.  *)
AdapterCon(e) ==
  IF IsControl(e) THEN Front(e) ** "adapter_connection"
                  ELSE Con(e) ** "adapter_connection"
CdiAdapterOpenEndpoint(e) ==
  Code(<<Get(e), Get(e ** "start_signal"), Get(e ** "shutdown_signal"),
         Touch(AdapterCon(e))>>
         \o If(CanTransmit(e), <<Make("CdiQueueCreate", e ** "tx_packet_queue")>>)
         \o <<Make(IF IsControl(e) THEN "SocketEndpointOpen"
                                   ELSE "EfaEndpointOpen", e)>>,
       <<Touch(e), Undo("CdiAdapterCloseEndpoint", e), Null(e)>>)
CdiAdapterStartEndpoint(e) ==
  Plain(<<Touch(e), IfSet(PollState(AdapterCon(e)),
                          Signal(PollState(AdapterCon(e)) ** "start_signal")),
          Signal(e ** "start_signal")>>
          \o If(~IsControl(e), <<Make("EfaEndpointStart", e)>>))
ClosesWithoutStartSignal(e) ==
  Plain(<<Signal(e ** "shutdown_signal"),
          Undo(IF IsControl(e) THEN "SocketEndpointClose"
                               ELSE "EfaEndpointClose", e),
          Undo("CdiQueueDestroy", e ** "tx_packet_queue"),
          Free(e ** "shutdown_signal"), Drop(e ** "protocol_handle"),
          FreeOnly(e)>>)
CdiAdapterCloseEndpoint(e) ==
  Plain(<<Signal(e ** "shutdown_signal"),
          Undo(IF IsControl(e) THEN "SocketEndpointClose"
                               ELSE "EfaEndpointClose", e),
          Undo("CdiQueueDestroy", e ** "tx_packet_queue"),
          Free(e ** "shutdown_signal"), Free(e ** "start_signal"),
          Drop(e ** "protocol_handle"), FreeOnly(e)>>)

SocketEndpointOpen(e) ==
  LET x == e ** "type_specific"
  IN Code(<<Get(e ** "socket"), Get(x), Get(x ** "shutdown"),
            Make("CdiPoolCreate", x ** "receive_buffer_pool"),
            Make("CdiOsThreadCreatePinned", x ** "receive_thread"),
            Insert(e ** "protocol_handle")>>,
          <<Undo("SocketReceiverFree", x), Free(x)>>)
SocketReceiverFree(x) ==
  Plain(<<Undo("CdiPoolDestroy", x ** "receive_buffer_pool"),
          Free(x ** "shutdown"), Free(Front(x) ** "socket")>>)
SocketEndpointClose(e) ==
  LET x == e ** "type_specific"
  IN Plain(<<UndoIf("SocketReceiverStop", x, x), Free(x)>>)
SocketReceiverStop(x) ==
  Plain(SdkThreadJoin(x ** "receive_thread", x ** "shutdown")
          \o <<Undo("CdiPoolDestroy", x ** "receive_buffer_pool"),
               Free(x ** "shutdown"), Free(Front(x) ** "socket")>>)

LibfabricLock == Efa ** "libfabric_lock"
EfaEndpointOpen(e) ==
  LET x == e ** "type_specific"
  IN Code(<<Get(x), Make("LibFabricEndpointOpen", x)>>
            \o If(~Sends(e),
                  <<Make("CdiPoolCreate", x ** "packet_sgl_entries_pool")>>)
            \o <<Make("ProbeEndpointCreate", x ** "probe_endpoint")>>,
          <<Undo("EfaEndpointClose", e)>>)
EfaEndpointStart(e) ==
  LET x == e ** "type_specific"
  IN Plain(<<Reserve(LibfabricLock), Touch(x), Release(LibfabricLock),
             Touch(x ** "probe_endpoint" ** "control_packet_fifo")>>)
EfaEndpointClose(e) ==
  LET x == e ** "type_specific"
  IN Plain(<<UndoIf("EfaEndpointRelease", x, x)>>)
EfaEndpointRelease(x) ==
  Plain(<<Undo("LibFabricEndpointClose", x), Undo("LibFabricEndpointClose", x),
          Undo("ProbeEndpointStop", x ** "probe_endpoint"),
          Undo("ProbeEndpointDestroy", x ** "probe_endpoint"),
          Null(x ** "probe_endpoint")>>
          \o If(~Sends(x), <<Undo("CdiPoolDestroy", x ** "packet_sgl_entries_pool"),
                             Null(x ** "packet_sgl_entries_pool")>>)
          \o <<Free(x)>>)
(* The endpoint of the adapter is reset before it is closed.               *)
CdiAdapterResetEndpoint(e) ==
  LET x == e ** "type_specific"
  IN Plain(<<Undo("LibFabricEndpointClose", x),
             Touch(x ** "probe_endpoint" ** "control_packet_fifo")>>)
LibFabricEndpointOpen(x) ==
  Code(<<Reserve(LibfabricLock), Attempt(x ** "hints")>>
         \o GetAll(x, <<"fabric_info", "fabric", "domain", "completion_queue",
                        "address_vector", "endpoint">>)
         \o <<Attempt(x ** "endpoint" ** "enable")>>
         \o (IF Sends(x) THEN <<Get(x ** "user_payload_memory_region"),
                                Get(x ** "internal_memory_region")>>
                         ELSE <<Make("CreatePacketPool", x ** "allocated_buffer")>>)
         \o <<Attempt(x ** "local_ipv6_gid_array"), Release(LibfabricLock)>>,
       <<Undo("LibFabricEndpointClose", x), Release(LibfabricLock)>>)
LibFabricEndpointClose(x) ==
  Plain(<<Reserve(LibfabricLock)>>
          \o FreeAll(x, <<"endpoint", "address_vector", "completion_queue">>)
          \o (IF Sends(x)
                 THEN FreeAll(x, <<"internal_memory_region",
                                   "user_payload_memory_region">>)
                 ELSE <<Undo("FreePacketPool", x ** "allocated_buffer")>>)
          \o FreeAll(x, <<"domain", "fabric", "fabric_info">>)
          \o <<Release(LibfabricLock)>>)
CreatePacketPool(b) ==
  Code(<<GetLocal(b), Get(b ** "memory_region"), Attempt(b ** "PostRxBuffer"),
         Store(b)>>,
       <<Discard(b)>>)
FreePacketPool(b) == Plain(<<Free(b ** "memory_region"), Free(b)>>)

ProbeEndpointCreate(p) ==
  Code(<<Get(p), Insert(p ** "protocol_handle_sdk"),
         Insert(p ** "protocol_handle_v1"),
         Make("CdiFifoCreate", p ** "control_packet_fifo"),
         Get(p ** "ack_lock"),
         Make("CdiOsThreadCreatePinned", p ** "probe_thread")>>,
       <<Undo("ProbeEndpointDestroy", p), Null(p)>>)
ProbeEndpointStop(p) ==
  Plain(SdkThreadJoin(p ** "probe_thread", Front(Front(p)) ** "shutdown_signal"))
ProbeEndpointDestroy(p) ==
  Plain(<<UndoIf("ProbeEndpointStop", p, p ** "probe_thread"),
          Undo("CdiFifoDestroy", p ** "control_packet_fifo"),
          Null(p ** "control_packet_fifo"), Free(p ** "ack_lock"),
          Drop(p ** "protocol_handle_sdk"), Drop(p ** "protocol_handle_v1"),
          FreeOnly(p)>>)

-----------------------------------------------------------------------------
(* The Endpoint Manager of a connection and its endpoint.                  *)
Manager(c) == c ** "endpoint_manager"
Endpoint(c) == c ** "endpoint"
ManagerSignals == <<"shutdown_signal", "new_command_signal",
  "all_threads_running_signal", "poll_thread_exit_signal",
  "all_threads_waiting_signal", "command_done_signal",
  "endpoints_destroyed_signal">>
EndpointManagerCreate(m) ==
  LET c == Con(m)
  IN Code(<<Get(m)>> \o GetAll(m, ManagerSignals)
            \o GetAll(m, <<"endpoint_list_lock", "state_lock">>)
            \o <<Make("CdiQueueCreate", m ** "destroy_endpoint_queue"),
                 Make("StatsCreate", c ** "stats_state"),
                 Try("StatsConfigure", c ** "stats_state"),
                 Make("CdiOsThreadCreatePinned", m ** "manager_thread")>>,
          <<Undo("EndpointManagerDestroy", m), FreeOnly(m), Null(m)>>)
StatsConfigure(s) ==
  Plain(<<Undo("StatsThreadDestroy", s), Make("CreateStatsThread", s)>>)
EndpointManagerDestroy(m) ==
  LET s == Con(m) ** "stats_state"
  IN Plain(<<Undo("CdiOsThreadJoin", m ** "manager_thread"),
             Null(m ** "manager_thread"),
             Undo("StatsDestroy", s), Null(s),
             Undo("CdiQueueDestroy", m ** "destroy_endpoint_queue"),
             Null(m ** "destroy_endpoint_queue"),
             Free(m ** "state_lock"), Free(m ** "endpoint_list_lock")>>
             \o FreeAll(m, Reverse(ManagerSignals)) \o <<FreeOnly(m)>>)
DestroysAdapterConnectionFirst(m) ==
  LET c == Con(m)
  IN Plain(<<Undo("StatsDestroy", c ** "stats_state"), Null(c ** "stats_state")>>
             \o If(Sends(c), SdkThreadJoin(c ** "payload_thread",
                                           c ** "shutdown_signal"))
             \o <<Undo("CdiAdapterDestroyConnection", c ** "adapter_connection"),
                  UndoIf("DestroyEndpoint", Endpoint(c),
                         Endpoint(c) ** "list_entry"),
                  Signal(m ** "shutdown_signal")>>)
EndpointManagerShutdownConnection(m) ==
  LET c == Con(m)
  IN Plain(<<IfSet(c ** "adapter_connection",
                   Signal(c ** "adapter_connection" ** "shutdown_signal")),
             Undo("StatsDestroy", c ** "stats_state"), Null(c ** "stats_state")>>
             \o If(Sends(c), SdkThreadJoin(c ** "payload_thread",
                                           c ** "shutdown_signal"))
             \o <<UndoIf("DestroyEndpoint", Endpoint(c),
                         Endpoint(c) ** "list_entry"),
                  Signal(m ** "shutdown_signal"),
                  Undo("CdiAdapterDestroyConnection",
                       c ** "adapter_connection")>>)

EndpointManagerTxCreateEndpoint(e) ==
  LET lock == Manager(Con(e)) ** "endpoint_list_lock"
      c == Con(e)
  IN Code(<<Reserve(lock), Make("CreateEndpointCommonResources", e),
            Get(e ** "payload_num_lock"),
            Make("CdiAdapterOpenEndpoint", e ** "adapter_endpoint"),
            Signal(c ** "start_signal"),
            Try("CdiAdapterStartEndpoint", e ** "adapter_endpoint"),
            Reserve(lock), Insert(e ** "list_entry"), Release(lock),
            Release(lock)>>,
          <<Undo("DestroyEndpoint", e), Null(e), Release(lock)>>)
EndpointManagerRxCreateEndpoint(e) ==
  LET lock == Manager(Con(e)) ** "endpoint_list_lock"
      c == Con(e)
  IN Code(<<Make("CreateEndpointCommonResources", e),
            Make("CdiQueueCreate", e ** "free_buffer_queue"),
            Make("CdiAdapterOpenEndpoint", e ** "adapter_endpoint"),
            Signal(c ** "start_signal"),
            Try("CdiAdapterStartEndpoint", e ** "adapter_endpoint"),
            Reserve(lock), Insert(e ** "list_entry"), Release(lock)>>,
          <<Undo("DestroyEndpoint", e), Null(e)>>)
CreateEndpointCommonResources(e) ==
  Code(<<Get(e), Make("CdiQueueCreate", e ** "command_queue")>>, <<Free(e)>>)
DestroyEndpoint(e) ==
  LET c == Con(e)
      lock == c ** "adapter_connection" ** "endpoint_lock"
      a == e ** "adapter_endpoint"
      list == Manager(c) ** "endpoint_list_lock"
  IN Plain(<<Reserve(lock)>>
             \o If(Sends(e), <<Touch(c ** "payload_queue")>>)
             \o <<Undo("CdiAdapterResetEndpoint", a),
                  Undo("CdiAdapterCloseEndpoint", a), Null(a)>>
             \o (IF Sends(e)
                    THEN <<Free(e ** "payload_num_lock")>>
                    ELSE <<Undo("CdiQueueDestroy", e ** "free_buffer_queue"),
                           Null(e ** "free_buffer_queue")>>)
             \o <<Reserve(list), Drop(e ** "list_entry"), Release(list),
                  Undo("CdiQueueDestroy", e ** "command_queue"),
                  FreeOnly(e), Release(lock)>>)

-----------------------------------------------------------------------------
(* Connections.  The second signal is created also when the first was not. *)
ConnectionCommonResourcesCreate(c) ==
  Code(<<Get(c ** "start_signal"), Get(c ** "shutdown_signal"),
         Make("EndpointManagerCreate", Manager(c)),
         Make("CdiQueueCreate", c ** "app_payload_message_queue"),
         Make("CdiPoolCreate", c ** "error_message_pool"),
         Reserve(Adapter ** "connection_list_lock"), Insert(c ** "list_entry"),
         Release(Adapter ** "connection_list_lock")>>,
       <<Unless(c ** "start_signal", Get(c ** "shutdown_signal"))>>)
ConnectionCommonResourcesDestroy(c) ==
  Plain(<<Undo("CdiPoolDestroy", c ** "error_message_pool"),
          Null(c ** "error_message_pool"),
          Undo("CdiQueueDestroy", c ** "app_payload_message_queue"),
          Null(c ** "app_payload_message_queue"),
          Undo("EndpointManagerDestroy", Manager(c)), Null(Manager(c)),
          Free(c ** "shutdown_signal"), Free(c ** "start_signal")>>)

DestroyPools(c, pools) ==
  FlattenSeq([i \in DOMAIN pools |->
    <<Undo("CdiPoolDestroy", c ** pools[i]), Null(c ** pools[i])>>])
TxPools == <<"work_request_pool", "packet_sgl_entry_pool",
             "payload_state_pool", "payload_sgl_entry_pool">>
TxCreateConnection(c) ==
  Code(<<Get(c), Make("CdiLoggerCreateLog", c ** "log"),
         Make("ConnectionCommonResourcesCreate", c),
         Make("CdiQueueCreate", c ** "payload_queue"),
         Make("CdiOsThreadCreatePinned", c ** "payload_thread")>>
         \o [i \in DOMAIN TxPools |-> Make("CdiPoolCreate", c ** TxPools[i])]
         \o <<Make("CdiQueueCreate", c ** "work_req_comp_queue"),
              Make("CdiOsThreadCreatePinned", c ** "app_payload_message_thread"),
              Make("CdiAdapterCreateConnection", c ** "adapter_connection")>>,
       <<Touch(c), Undo("ConnectionDestroyInternal", c), Null(c)>>)
TxCreateInternal(c) ==
  Code(<<Make("TxCreateConnection", c),
         Make("EndpointManagerTxCreateEndpoint", Endpoint(c))>>, <<>>)
TxConnectionDestroyInternal(c) ==
  Plain(<<Undo("CdiQueueDestroy", c ** "work_req_comp_queue"),
          Null(c ** "work_req_comp_queue")>>
          \o DestroyPools(c, Reverse(TxPools))
          \o <<Undo("CdiQueueDestroy", c ** "payload_queue"),
               Null(c ** "payload_queue")>>)

RxPools == <<"payload_sgl_entry_pool", "reorder_entries_pool",
             "linear_buffer_pool">>
DynamicPools == <<"rx_payload_state_pool", "payload_memory_state_pool">>
RxCreateInternal(c) ==
  Code(<<Get(c), Attempt(c ** "buffer_delay_ms"),
         Make("CdiLoggerCreateLog", c ** "log"),
         Make("ConnectionCommonResourcesCreate", c)>>
         \o [i \in DOMAIN RxPools |-> Make("CdiPoolCreate", c ** RxPools[i])]
         \o <<Make("RxBufferInit", c ** "receive_buffer"),
              Make("CdiOsThreadCreatePinned", c ** "app_payload_message_thread"),
              Make("CdiAdapterCreateConnection", c ** "adapter_connection"),
              Signal(c ** "start_signal")>>,
       <<Undo("ConnectionDestroyInternal", c), Null(c)>>)
RxConnectionDestroyInternal(c) ==
  Plain(DestroyPools(c, <<DynamicPools[1]>>)
          \o <<Undo("RxBufferDestroy", c ** "receive_buffer"),
               Null(c ** "receive_buffer")>>
          \o DestroyPools(c, Reverse(RxPools) \o <<DynamicPools[2]>>))
(* The probe learns the version of the remote side.  A receiver's pools    *)
(* with an item per payload number are made then, and made again when the  *)
(* numbers are more than those of the version before (larger).             *)
EndpointManagerProtocolVersionSet(e, larger) ==
  LET handle == e ** "adapter_endpoint" ** "protocol_handle"
  IN Code(<<Drop(handle), Insert(handle)>>
            \o If(~Sends(e), <<Make(IF larger THEN "RxEndpointRecreateDynamicPools"
                                    ELSE "RxEndpointCreateDynamicPools", Con(e))>>),
          <<>>)
RxEndpointCreateDynamicPools(c, larger) ==
  Code(FlattenSeq([i \in DOMAIN DynamicPools |->
         If(larger, DestroyPools(c, <<DynamicPools[i]>>))
           \o <<IfNull(Make("CdiPoolCreate", c ** DynamicPools[i]))>>]),
       <<>>)
RxBufferInit(b) ==
  Code(<<Get(b), Make("CdiQueueCreate", b ** "input_queue"),
         Make("CdiPoolCreate", b ** "delay_pool"), Get(b ** "shutdown_signal"),
         Make("CdiOsThreadCreatePinned", b ** "buffer_thread")>>,
       <<Undo("RxBufferDestroy", b), Null(b)>>)
RxBufferDestroy(b) ==
  Plain(SdkThreadJoin(b ** "buffer_thread", b ** "shutdown_signal")
          \o <<Free(b ** "shutdown_signal"),
               Undo("CdiPoolDestroy", b ** "delay_pool"), Null(b ** "delay_pool"),
               Undo("CdiQueueDestroy", b ** "input_queue"),
               Null(b ** "input_queue"), FreeOnly(b)>>)

(* A connection is destroyed only if the list of its adapter has it, which *)
(* the local variable locked remembers.                                    *)
ConnectionDestroyInternal(c) ==
  LET lock == Adapter ** "connection_list_lock"
  IN Plain(<<Reserve(lock), UndoIf("ConnectionUnlist", c, c ** "list_entry"),
             Release(lock),
             UndoIf("ConnectionShutdownInternal", c, c ** "unlocked")>>)
ConnectionUnlist(c) ==
  Plain(<<Drop(c ** "list_entry"), Insert(c ** "unlocked")>>)
ConnectionShutdownInternal(c) ==
  Plain(<<Drop(c ** "unlocked"), Undo("EndpointManagerShutdownConnection", Manager(c))>>
          \o SdkThreadJoin(c ** "app_payload_message_thread",
                           c ** "shutdown_signal")
          \o <<Make(IF Sends(c) THEN "TxConnectionDestroyInternal"
                                ELSE "RxConnectionDestroyInternal", c),
               Make("ConnectionCommonResourcesDestroy", c),
               Undo("CdiLoggerDestroyLog", c ** "log"), Null(c ** "log"),
               FreeOnly(c)>>)

=============================================================================

-------------------------- MODULE EndpointManager ---------------------------
(***************************************************************************)
(* The Endpoint Manager of one connection (src/cdi/endpoint_manager.c):    *)
(* the barrier that stops the connection's threads while a reset, start or *)
(* shutdown command is carried out on one of its endpoints.                *)
(*                                                                         *)
(* Threads: "poll" is PollThread of adapter.c, which takes part through    *)
(* EndpointManagerPoll and never blocks; "payload" is TxPayloadThread of   *)
(* internal_tx.c, which takes part through EndpointManagerThreadWait and   *)
(* exists in a transmitter only; "manager" is EndpointManagerThread; "app" *)
(* is the application thread in EndpointManagerShutdownConnection.  Every  *)
(* endpoint has a probe thread that queues resets and starts for it (c_pc) *)
(* and a thread that may ask for it to be destroyed (d_pc): the same probe *)
(* thread in a receiver, a thread of the application in a transmitter.     *)
(*                                                                         *)
(* Signals are manual-reset.  A thread waits for one in two steps: it      *)
(* finds the signal set or blocks ("block_..."), and a later set releases  *)
(* it even if the signal is cleared before it runs again.                  *)
(***************************************************************************)
EXTENDS Integers, FiniteSets, SequencesExt

CONSTANTS
  Endpoints,    \* the endpoints the connection is created with
  Transmitters, \* TRUE in it: Tx connections, FALSE in it: Rx connections
  QueueSize,    \* MAX_ENDPOINT_COMMAND_QUEUE_SIZE
  Changes,      \* the commands the probe threads queue: "Reset", "Start"
  MaxCommands,  \* bound on the resets and starts that are queued
  Destroyers,   \* those of Transmitters whose single endpoints are destroyed
  None          \* not an endpoint

ASSUME ManagerAssumption ==
  /\ IsFiniteSet(Endpoints) /\ Endpoints # {}
  /\ Transmitters \subseteq BOOLEAN /\ Destroyers \subseteq BOOLEAN
  /\ QueueSize \in Nat \ {0}
  /\ Changes \subseteq {"Reset", "Start"}
  /\ MaxCommands \in Nat
  /\ None \notin Endpoints

VARIABLES
  endpoint_list,             \* the endpoints, oldest first
  command_queue,             \* per endpoint: command_queue_handle
  got_new_command,           \* per endpoint
  ep_got_shutdown,           \* per endpoint: got_shutdown
  queued_to_destroy,         \* per endpoint
  ep_shutdown_signal,        \* per endpoint: its adapter endpoint is closing
  destroy_queue,             \* destroy_endpoint_queue_handle
  endpoints_destroyed_signal,
  got_shutdown, thread_done,
  state_lock,                \* a thread is in the middle of SetCommand
  new_command_signal, queued_commands_count, command_done_signal,
  shutdown_signal,           \* of the Endpoint Manager
  adapter_shutdown_signal,   \* of the adapter connection
  con_shutdown_signal,       \* of the connection
  poll_thread_waiting, poll_thread_exit_signal,
  all_threads_waiting_signal, all_threads_running_signal,
  thread_wait_count, registered_thread_count,
  pc,                        \* control point of the four threads
  p_ep, p_closing, p_destroyed, p_do_poll, p_exit, p_stopping, \* PollThread
  t_leaving,                                           \* TxPayloadThread
  m_ep, m_command, keep_alive,                         \* EndpointManagerThread
  a_ep, sent_command,                                  \* the shutdown
  c_pc, d_pc,
  issued                     \* resets and starts queued so far

endpoint == <<command_queue, got_new_command, ep_got_shutdown, queued_to_destroy,
              ep_shutdown_signal>>
destroying == <<endpoint_list, destroy_queue, endpoints_destroyed_signal>>
command == <<new_command_signal, queued_commands_count, command_done_signal>>
stopping == <<got_shutdown, thread_done, shutdown_signal, adapter_shutdown_signal,
              con_shutdown_signal, poll_thread_exit_signal>>
barrier == <<all_threads_waiting_signal, all_threads_running_signal,
             thread_wait_count, registered_thread_count>>
poller == <<poll_thread_waiting, p_ep, p_closing, p_destroyed, p_do_poll, p_exit,
            p_stopping>>
manager == <<t_leaving, m_ep, m_command, keep_alive>>
app == <<a_ep, sent_command>>
others == <<c_pc, d_pc, issued>>
vars == <<endpoint, destroying, command, stopping, state_lock, barrier, pc, poller,
          manager, app, others>>

Commands == {"Reset", "Start", "Shutdown"}
Threads == {"poll", "payload", "manager", "app"}

(* The connection has a payload thread.                                    *)
Transmitter == pc.payload # "none"

(* Walking endpoint_list: EndpointManagerGetFirstEndpoint and ...Next.     *)
(* What follows an endpoint that is no longer there is read from memory    *)
(* that has been freed.                                                    *)
InList(e) == \E i \in DOMAIN endpoint_list : endpoint_list[i] = e
Position(e) == CHOOSE i \in DOMAIN endpoint_list : endpoint_list[i] = e
First == IF endpoint_list = <<>> THEN None ELSE Head(endpoint_list)
NextOf(e) ==
  IF InList(e)
  THEN {IF Position(e) = Len(endpoint_list) THEN None
        ELSE endpoint_list[Position(e) + 1]}
  ELSE {endpoint_list[j] : j \in DOMAIN endpoint_list} \cup {None}

Init ==
  /\ endpoint_list \in {s \in [1 .. Cardinality(Endpoints) -> Endpoints] :
                          \A i, j \in DOMAIN s : s[i] = s[j] => i = j}
  /\ command_queue = [e \in Endpoints |-> <<>>]
  /\ got_new_command = [e \in Endpoints |-> FALSE]
  /\ ep_got_shutdown = [e \in Endpoints |-> FALSE]
  /\ queued_to_destroy = [e \in Endpoints |-> FALSE]
  /\ ep_shutdown_signal = [e \in Endpoints |-> FALSE]
  /\ destroy_queue = <<>> /\ endpoints_destroyed_signal = FALSE
  /\ got_shutdown = FALSE /\ thread_done = FALSE /\ state_lock = FALSE
  /\ new_command_signal = FALSE /\ queued_commands_count = 0
  /\ command_done_signal = FALSE
  /\ shutdown_signal = FALSE /\ adapter_shutdown_signal = FALSE
  /\ con_shutdown_signal = FALSE
  /\ poll_thread_waiting = FALSE /\ poll_thread_exit_signal = FALSE
  /\ all_threads_waiting_signal = FALSE /\ all_threads_running_signal = TRUE
  /\ thread_wait_count = 0
  /\ \E transmits \in Transmitters :
       /\ registered_thread_count = (IF transmits THEN 2 ELSE 1)
       /\ pc = [poll |-> "pass", payload |-> IF transmits THEN "run" ELSE "none",
                manager |-> "loop", app |-> "idle"]
  /\ p_ep = None /\ p_closing = None /\ p_destroyed = FALSE
  /\ p_do_poll = FALSE /\ p_exit = FALSE /\ p_stopping = FALSE
  /\ t_leaving = FALSE
  /\ m_ep = None /\ m_command = "Reset" /\ keep_alive = TRUE
  /\ a_ep = None /\ sent_command = FALSE
  /\ c_pc = [e \in Endpoints |-> "idle"]
  /\ d_pc = [e \in Endpoints |-> "idle"]
  /\ issued = 0

Goto(t, l) == pc' = [pc EXCEPT ![t] = l]

(* CdiOsSignalSet(command_done_signal) by thread t, which goes on to l.    *)
SetDone(t, l) ==
  /\ command_done_signal' = TRUE
  /\ pc' = [s \in Threads |->
              IF s = t THEN l
              ELSE IF pc[s] = "block_done"
                   THEN IF s = "payload" THEN "dec" ELSE "wait_exit"
              ELSE pc[s]]

(* A critical section under state_lock that is one step here.              *)
Locked == ~state_lock

QueueHasRoom(e) == Len(command_queue[e]) < QueueSize

(***************************************************************************)
(* SetCommand: under state_lock, the command is queued and then announced. *)
(***************************************************************************)
QueueCommand(e, c) ==
  /\ ep_got_shutdown' = [ep_got_shutdown EXCEPT ![e] = (c = "Shutdown")]
  /\ IF QueueHasRoom(e)
     THEN /\ command_queue' = [command_queue EXCEPT ![e] = Append(@, c)]
          /\ queued_commands_count' = queued_commands_count + 1
          /\ got_new_command' = [got_new_command EXCEPT ![e] = TRUE]
          /\ state_lock' = TRUE
     ELSE /\ got_new_command' = [got_new_command EXCEPT ![e] = FALSE]
          /\ UNCHANGED <<command_queue, queued_commands_count, state_lock>>

(* EndpointManagerQueueEndpointReset and ...Start, by the probe thread of  *)
(* the endpoint.                                                           *)
SetCommand(e) ==
  /\ c_pc[e] = "idle" /\ issued < MaxCommands
  /\ InList(e) /\ ~ep_shutdown_signal[e] /\ ~ep_got_shutdown[e]
  /\ Transmitter \/ d_pc[e] = "idle"
  /\ Locked
  /\ \E c \in Changes : QueueCommand(e, c)
  /\ issued' = issued + 1
  /\ c_pc' = [c_pc EXCEPT ![e] = IF state_lock' THEN "signal" ELSE "idle"]
  /\ UNCHANGED <<queued_to_destroy, ep_shutdown_signal, destroying, new_command_signal,
                 command_done_signal, stopping, barrier, pc, poller, manager, app, d_pc>>

(* Mutant: the command is queued and nobody is told.                       *)
AnnounceNothing == UNCHANGED new_command_signal

Announce == new_command_signal' = TRUE

SetCommandSignal(e) ==
  /\ c_pc[e] = "signal"
  /\ Announce
  /\ state_lock' = FALSE
  /\ c_pc' = [c_pc EXCEPT ![e] = "idle"]
  /\ UNCHANGED <<endpoint, destroying, queued_commands_count, command_done_signal,
                 stopping, barrier, pc, poller, manager, app, d_pc, issued>>

(***************************************************************************)
(* IncrementThreadWaitCount and DecrementThreadWaitCount, by t.            *)
(***************************************************************************)
(* new_command_signal after the last thread has arrived.                   *)
NewCommandKept ==
  new_command_signal /\ (thread_done \/ queued_commands_count # 0)

(* Mutants: the last thread to leave ignores that the Endpoint Manager     *)
(* thread is done; it forgets to clear the signal.                         *)
CommandDoneCleared == FALSE
CommandDoneStale == command_done_signal

(* command_done_signal after the last thread has left.                     *)
CommandDoneKept == command_done_signal /\ thread_done

Increment(t) ==
  /\ pc[t] = "inc"
  /\ thread_wait_count' = thread_wait_count + 1
  /\ Goto(t, IF thread_wait_count' >= registered_thread_count THEN "clear_new"
             ELSE IF t = "poll" THEN "next" ELSE "wait_done")
  /\ UNCHANGED <<endpoint, destroying, command, stopping, state_lock,
                 all_threads_waiting_signal, all_threads_running_signal,
                 registered_thread_count, poller, manager, app, others>>

IncrementClearsNew(t) ==
  /\ pc[t] = "clear_new" /\ Locked
  /\ new_command_signal' = NewCommandKept
  /\ Goto(t, "clear_running")
  /\ UNCHANGED <<endpoint, destroying, queued_commands_count, command_done_signal,
                 stopping, state_lock, barrier, poller, manager, app, others>>

IncrementClearsRunning(t) ==
  /\ pc[t] = "clear_running"
  /\ all_threads_running_signal' = FALSE
  /\ Goto(t, "set_waiting")
  /\ UNCHANGED <<endpoint, destroying, command, stopping, state_lock,
                 all_threads_waiting_signal, thread_wait_count,
                 registered_thread_count, poller, manager, app, others>>

IncrementSetsWaiting(t) ==
  /\ pc[t] = "set_waiting"
  /\ all_threads_waiting_signal' = TRUE
  /\ Goto(t, IF t = "poll" THEN "next" ELSE "wait_done")
  /\ UNCHANGED <<endpoint, destroying, command, stopping, state_lock,
                 all_threads_running_signal, thread_wait_count,
                 registered_thread_count, poller, manager, app, others>>

AfterDecrement(t) ==
  IF t = "poll" THEN "leave" ELSE IF t_leaving THEN "ended" ELSE "top"

Decrement(t) ==
  /\ pc[t] = "dec"
  /\ thread_wait_count' = thread_wait_count - 1
  /\ Goto(t, IF thread_wait_count' = 0 THEN "clear_done" ELSE AfterDecrement(t))
  /\ UNCHANGED <<endpoint, destroying, command, stopping, state_lock,
                 all_threads_waiting_signal, all_threads_running_signal,
                 registered_thread_count, poller, manager, app, others>>

DecrementClearsDone(t) ==
  /\ pc[t] = "clear_done" /\ Locked
  /\ command_done_signal' = CommandDoneKept
  /\ Goto(t, "set_running")
  /\ UNCHANGED <<endpoint, destroying, new_command_signal, queued_commands_count,
                 stopping, state_lock, barrier, poller, manager, app, others>>

(* Releases the payload thread if it is blocked on the signal.             *)
DecrementSetsRunning(t) ==
  /\ pc[t] = "set_running"
  /\ all_threads_running_signal' = TRUE
  /\ pc' = [s \in Threads |-> IF s = t THEN AfterDecrement(t)
                              ELSE IF pc[s] = "block_running" THEN "inc"
                              ELSE pc[s]]
  /\ UNCHANGED <<endpoint, destroying, command, stopping, state_lock,
                 all_threads_waiting_signal, thread_wait_count,
                 registered_thread_count, poller, manager, app, others>>

Counting(t) ==
  \/ Increment(t) \/ IncrementClearsNew(t) \/ IncrementClearsRunning(t)
  \/ IncrementSetsWaiting(t)
  \/ Decrement(t) \/ DecrementClearsDone(t) \/ DecrementSetsRunning(t)

(***************************************************************************)
(* TxPayloadThread.  At "run" it works on payloads or waits for a payload, *)
(* a completion or the new-command signal; the shutdown signals it looks   *)
(* at only at the top of its loop.                                         *)
(***************************************************************************)
PayloadLeavesBy == IF got_shutdown THEN "wait_running" ELSE "ended"

PayloadTop ==
  /\ pc.payload = "top"
  /\ t_leaving' = (con_shutdown_signal \/ got_shutdown)
  /\ Goto("payload", IF t_leaving' THEN PayloadLeavesBy ELSE "run")
  /\ UNCHANGED <<endpoint, destroying, command, stopping, state_lock, barrier,
                 poller, m_ep, m_command, keep_alive, app, others>>

PayloadNotified ==
  /\ pc.payload = "run" /\ new_command_signal
  /\ Goto("payload", "wait_running")
  /\ UNCHANGED <<endpoint, destroying, command, stopping, state_lock, barrier,
                 poller, manager, app, others>>

(* A payload or a completion arrives; a payload wakes the poll thread by   *)
(* means of tx_poll_do_work_signal.                                        *)
WorkArrives ==
  /\ pc.payload = "run"
  /\ pc' = [s \in Threads |-> IF s = "payload" THEN "top"
                              ELSE IF pc[s] = "asleep" THEN "pass" ELSE pc[s]]
  /\ UNCHANGED <<endpoint, destroying, command, stopping, state_lock, barrier,
                 poller, manager, app, others>>

(* EndpointManagerThreadWait: its two waits.                               *)
PayloadWaitsRunning ==
  /\ pc.payload = "wait_running"
  /\ Goto("payload", IF all_threads_running_signal THEN "inc" ELSE "block_running")
  /\ UNCHANGED <<endpoint, destroying, command, stopping, state_lock, barrier,
                 poller, manager, app, others>>

WaitsDone(t, next) ==
  /\ pc[t] = "wait_done"
  /\ Goto(t, IF command_done_signal THEN next ELSE "block_done")
  /\ UNCHANGED <<endpoint, destroying, command, stopping, state_lock, barrier,
                 poller, manager, app, others>>

Payload ==
  \/ PayloadTop \/ PayloadNotified \/ PayloadWaitsRunning
  \/ WaitsDone("payload", "dec") \/ Counting("payload")

(***************************************************************************)
(* EndpointManagerThread.                                                  *)
(***************************************************************************)
ManagerLoop ==
  /\ pc.manager = "loop"
  /\ Goto("manager", IF shutdown_signal \/ ~keep_alive THEN "exit" ELSE "wait")
  /\ UNCHANGED <<endpoint, destroying, command, stopping, state_lock, barrier,
                 poller, manager, app, others>>

(* CdiOsSignalsWait: the first of the three signals that is set counts.    *)
ManagerWakes ==
  /\ pc.manager = "wait"
  /\ IF all_threads_waiting_signal
     THEN /\ all_threads_waiting_signal' = FALSE
          /\ m_ep' = First
          /\ Goto("manager", IF First = None THEN "done" ELSE "walk")
     ELSE /\ shutdown_signal \/ poll_thread_exit_signal
          /\ Goto("manager", "done")
          /\ UNCHANGED <<all_threads_waiting_signal, m_ep>>
  /\ UNCHANGED <<endpoint, destroying, command, stopping, state_lock,
                 all_threads_running_signal, thread_wait_count,
                 registered_thread_count, poller, t_leaving, m_command, keep_alive,
                 app, others>>

ManagerPops ==
  /\ pc.manager = "walk" /\ command_queue[m_ep] # <<>>
  /\ m_command' = Head(command_queue[m_ep])
  /\ command_queue' = [command_queue EXCEPT ![m_ep] = Tail(@)]
  /\ Goto("manager", "count")
  /\ UNCHANGED <<got_new_command, ep_got_shutdown, queued_to_destroy,
                 ep_shutdown_signal, destroying, command, stopping, state_lock,
                 barrier, poller, t_leaving, m_ep, keep_alive, app, others>>

ManagerCounts ==
  /\ pc.manager = "count"
  /\ queued_commands_count' = queued_commands_count - 1
  /\ Goto("manager", "execute")
  /\ UNCHANGED <<endpoint, destroying, new_command_signal, command_done_signal,
                 stopping, state_lock, barrier, poller, manager, app, others>>

(* FlushResources or CdiAdapterStartEndpoint comes to its end.             *)
ManagerExecutes ==
  /\ pc.manager = "execute"
  /\ keep_alive' = (keep_alive /\ m_command # "Shutdown")
  /\ Goto("manager", "walk")
  /\ UNCHANGED <<endpoint, destroying, command, stopping, state_lock, barrier,
                 poller, t_leaving, m_ep, m_command, app, others>>

ManagerNextEndpoint ==
  /\ pc.manager = "walk" /\ command_queue[m_ep] = <<>>
  /\ m_ep' \in NextOf(m_ep)
  /\ Goto("manager", IF m_ep' = None THEN "done" ELSE "walk")
  /\ UNCHANGED <<endpoint, destroying, command, stopping, state_lock, barrier,
                 poller, t_leaving, m_command, keep_alive, app, others>>

ManagerDone ==
  /\ pc.manager = "done"
  /\ SetDone("manager", "loop")
  /\ UNCHANGED <<endpoint, destroying, new_command_signal, queued_commands_count,
                 stopping, state_lock, barrier, poller, manager, app, others>>

ManagerExits ==
  /\ pc.manager = "exit" /\ Locked
  /\ thread_done' = TRUE
  /\ new_command_signal' = TRUE
  /\ SetDone("manager", "ended")
  /\ UNCHANGED <<endpoint, destroying, queued_commands_count, got_shutdown,
                 shutdown_signal, adapter_shutdown_signal, con_shutdown_signal,
                 poll_thread_exit_signal, state_lock, barrier, poller, manager,
                 app, others>>

Manager ==
  \/ ManagerLoop \/ ManagerWakes \/ ManagerPops \/ ManagerCounts \/ ManagerExecutes
  \/ ManagerNextEndpoint \/ ManagerDone \/ ManagerExits

(***************************************************************************)
(* EndpointManagerEndpointDestroy, by the thread that gives up endpoint e. *)
(* An application does not destroy an endpoint while it destroys its       *)
(* connection.                                                             *)
(***************************************************************************)
DestroyCall(e) ==
  /\ Transmitter \in Destroyers /\ d_pc[e] = "idle"
  /\ IF Transmitter THEN pc.app = "idle"
     ELSE c_pc[e] = "idle" /\ ~ep_shutdown_signal[e]
  /\ InList(e) /\ ~queued_to_destroy[e]
  /\ queued_to_destroy' = [queued_to_destroy EXCEPT ![e] = TRUE]
  /\ d_pc' = [d_pc EXCEPT ![e] = "clear"]
  /\ UNCHANGED <<command_queue, got_new_command, ep_got_shutdown, ep_shutdown_signal,
                 destroying, command, stopping, state_lock, barrier, pc, poller,
                 manager, app, c_pc, issued>>

DestroyClears(e) ==
  /\ d_pc[e] = "clear"
  /\ endpoints_destroyed_signal' = FALSE
  /\ d_pc' = [d_pc EXCEPT ![e] = "push"]
  /\ UNCHANGED <<endpoint, endpoint_list, destroy_queue, command, stopping, state_lock,
                 barrier, pc, poller, manager, app, c_pc, issued>>

DestroyQueues(e) ==
  /\ d_pc[e] = "push"
  /\ destroy_queue' = Append(destroy_queue, e)
  /\ d_pc' = [d_pc EXCEPT ![e] = "notify"]
  /\ UNCHANGED <<endpoint, endpoint_list, endpoints_destroyed_signal, command, stopping,
                 state_lock, barrier, pc, poller, manager, app, c_pc, issued>>

DestroyNotifies(e) ==
  /\ d_pc[e] = "notify"
  /\ new_command_signal' = TRUE
  /\ d_pc' = [d_pc EXCEPT ![e] = "wait"]
  /\ UNCHANGED <<endpoint, destroying, queued_commands_count, command_done_signal,
                 stopping, state_lock, barrier, pc, poller, manager, app, c_pc, issued>>

(* The adapter endpoint owns the third signal: for a thread that closing   *)
(* the adapter endpoint does not join, the signal is gone with it and its  *)
(* state is anything.                                                      *)
DestroyWaits(e) ==
  /\ d_pc[e] \in {"wait", "block"}
  /\ \E closing \in IF Transmitter /\ ~InList(e) THEN BOOLEAN
                     ELSE {ep_shutdown_signal[e]} :
       d_pc' = [d_pc EXCEPT ![e] =
                 IF d_pc[e] = "wait" /\ endpoints_destroyed_signal THEN "check"
                 ELSE IF con_shutdown_signal \/ closing THEN "returned"
                 ELSE "block"]
  /\ UNCHANGED <<endpoint, destroying, command, stopping, state_lock, barrier, pc,
                 poller, manager, app, c_pc, issued>>

(* Mutant: some endpoint is destroyed, which one is not looked up.         *)
DestroyTrustsSignal(e) == "returned"

DestroyGoesOn(e) == IF InList(e) THEN "notify" ELSE "returned"

DestroyChecks(e) ==
  /\ d_pc[e] = "check"
  /\ d_pc' = [d_pc EXCEPT ![e] = DestroyGoesOn(e)]
  /\ UNCHANGED <<endpoint, destroying, command, stopping, state_lock, barrier, pc,
                 poller, manager, app, c_pc, issued>>

Destroyer(e) ==
  \/ DestroyClears(e) \/ DestroyQueues(e) \/ DestroyNotifies(e) \/ DestroyWaits(e)
  \/ DestroyChecks(e)

(***************************************************************************)
(* DestroyEndpoint(e): closing the adapter endpoint sets its shutdown      *)
(* signal and joins its probe thread; then e leaves the list together with *)
(* the commands still queued for it.                                       *)
(***************************************************************************)
(* Mutant: the probe thread is joined without being told.                  *)
ClosingSilently(e) == UNCHANGED ep_shutdown_signal

Closing(e) == ep_shutdown_signal' = [ep_shutdown_signal EXCEPT ![e] = TRUE]

ProbeThreadEnded(e) ==
  /\ c_pc[e] = "idle"
  /\ Transmitter \/ d_pc[e] \in {"idle", "returned"}

Closed(e) ==
  /\ ProbeThreadEnded(e)
  /\ endpoint_list' =
       IF InList(e) THEN RemoveAt(endpoint_list, Position(e)) ELSE endpoint_list
  /\ queued_commands_count' = queued_commands_count - Len(command_queue[e])
  /\ command_queue' = [command_queue EXCEPT ![e] = <<>>]

(***************************************************************************)
(* PollThread: DataPoll walks the endpoints; EndpointManagerPoll is called *)
(* for each of them.                                                       *)
(***************************************************************************)
(* Mutant: the poll thread looks at the signal of the connection.          *)
StoppingLate == con_shutdown_signal

Stopping == adapter_shutdown_signal \/ got_shutdown

PollPass ==
  /\ pc.poll = "pass" /\ (p_stopping \/ ~Stopping)
  /\ p_ep' = First
  /\ p_destroyed' = FALSE
  /\ Goto("poll", IF First = None THEN "end" ELSE "visit")
  /\ UNCHANGED <<endpoint, destroying, command, stopping, state_lock, barrier,
                 poll_thread_waiting, p_closing, p_do_poll, p_exit, p_stopping, manager,
                 app, others>>

(* A receiver that is shutting down polls every endpoint once more; then   *)
(* EndpointManagerPollThreadExit takes over.                               *)
PollStops ==
  /\ pc.poll = "pass" /\ ~p_stopping /\ Stopping
  /\ p_stopping' = TRUE
  /\ Goto("poll", IF Transmitter THEN "pass" ELSE "drain")
  /\ UNCHANGED <<endpoint, destroying, command, stopping, state_lock, barrier,
                 poll_thread_waiting, p_ep, p_closing, p_destroyed, p_do_poll, p_exit,
                 manager, app, others>>

PollDrained ==
  /\ pc.poll = "drain"
  /\ Goto("poll", "pass")
  /\ UNCHANGED <<endpoint, destroying, command, stopping, state_lock, barrier,
                 poller, manager, app, others>>

(* Mutant: endpoints are destroyed although commands are carried out.      *)
PollDestroysAnytime == destroy_queue # <<>>

PollMayDestroy == ~poll_thread_waiting /\ destroy_queue # <<>>

PollCloses ==
  /\ pc.poll = "visit" /\ PollMayDestroy
  /\ p_closing' = Head(destroy_queue)
  /\ destroy_queue' = Tail(destroy_queue)
  /\ Closing(p_closing')
  /\ Goto("poll", "close")
  /\ UNCHANGED <<command_queue, got_new_command, ep_got_shutdown, queued_to_destroy,
                 endpoint_list, endpoints_destroyed_signal, command, stopping,
                 state_lock, barrier, poll_thread_waiting, p_ep, p_destroyed,
                 p_do_poll, p_exit, p_stopping, manager, app, others>>

PollClosed ==
  /\ pc.poll = "close"
  /\ Closed(p_closing)
  /\ p_destroyed' = TRUE
  /\ Goto("poll", "visit")
  /\ UNCHANGED <<got_new_command, ep_got_shutdown, queued_to_destroy,
                 ep_shutdown_signal, destroy_queue, endpoints_destroyed_signal,
                 new_command_signal, command_done_signal, stopping, state_lock,
                 barrier, poll_thread_waiting, p_ep, p_closing, p_do_poll, p_exit,
                 p_stopping, manager, app, others>>

(* Tells the threads in EndpointManagerEndpointDestroy.  If the endpoint at *)
(* hand is one of those destroyed, the walk starts again; if the Endpoint  *)
(* Manager thread is done, nothing may be polled.                          *)
PollDestroyed ==
  /\ pc.poll = "visit" /\ ~PollMayDestroy
  /\ endpoints_destroyed_signal' = (endpoints_destroyed_signal \/ p_destroyed)
  /\ d_pc' = [e \in Endpoints |->
                IF p_destroyed /\ d_pc[e] = "block" THEN "check" ELSE d_pc[e]]
  /\ p_destroyed' = FALSE
  /\ p_do_poll' = FALSE /\ p_exit' = thread_done
  /\ p_ep' = IF InList(p_ep) THEN p_ep ELSE First
  /\ Goto("poll", IF First = None THEN "end"
                  ELSE IF ~InList(p_ep) THEN "visit"
                  ELSE IF ~thread_done THEN "command"
                  ELSE IF poll_thread_waiting THEN "dec" ELSE "next")
  /\ UNCHANGED <<endpoint, endpoint_list, destroy_queue, command, stopping, state_lock,
                 barrier, poll_thread_waiting, p_closing, p_stopping, manager, app,
                 c_pc, issued>>

PollNoCommand ==
  /\ pc.poll = "command" /\ ~new_command_signal /\ ~poll_thread_waiting
  /\ Goto("poll", IF p_stopping THEN "next" ELSE "polling")
  /\ UNCHANGED <<endpoint, destroying, command, stopping, state_lock, barrier,
                 poller, manager, app, others>>

PollEnters ==
  /\ pc.poll = "command" /\ new_command_signal /\ ~poll_thread_waiting
  /\ poll_thread_waiting' = TRUE
  /\ Goto("poll", "inc")
  /\ UNCHANGED <<endpoint, destroying, command, stopping, state_lock, barrier,
                 p_ep, p_closing, p_destroyed, p_do_poll, p_exit, p_stopping, manager,
                 app, others>>

(* While it waits for the others it polls the endpoints without a command. *)
PollWaits ==
  /\ pc.poll = "command" /\ poll_thread_waiting
  /\ p_do_poll' = ~got_new_command[p_ep]
  /\ Goto("poll", IF command_done_signal THEN "dec"
                  ELSE IF p_do_poll' /\ ~p_stopping THEN "polling" ELSE "next")
  /\ UNCHANGED <<endpoint, destroying, command, stopping, state_lock, barrier,
                 poll_thread_waiting, p_ep, p_closing, p_destroyed, p_exit, p_stopping,
                 manager, app, others>>

(* After DecrementThreadWaitCount: because the Endpoint Manager thread is  *)
(* done, or because the commands are.                                      *)
(* Mutant: the poll thread still takes itself for waiting.                 *)
PollStaysWaiting == UNCHANGED poll_thread_waiting

PollGoesOn == poll_thread_waiting' = FALSE

PollLeaves ==
  /\ pc.poll = "leave" /\ (p_exit \/ Locked)
  /\ PollGoesOn
  /\ LET empty == ~p_exit /\ command_queue[p_ep] = <<>>
     IN  /\ got_new_command' = [got_new_command EXCEPT ![p_ep] = @ /\ ~empty]
         /\ Goto("poll", IF (p_do_poll \/ empty) /\ ~p_stopping THEN "polling" ELSE "next")
  /\ UNCHANGED <<command_queue, ep_got_shutdown, queued_to_destroy, ep_shutdown_signal,
                 destroying, command, stopping, state_lock, barrier, p_ep, p_closing,
                 p_destroyed, p_do_poll, p_exit, p_stopping, manager, app, others>>

(* RxPollProcess, the sending of a packet, CdiAdapterPollEndpoint.         *)
PollPolled ==
  /\ pc.poll = "polling"
  /\ Goto("poll", "next")
  /\ UNCHANGED <<endpoint, destroying, command, stopping, state_lock, barrier,
                 poller, manager, app, others>>

(* On to the next endpoint.  At the end of the walk a thread that stops    *)
(* exits unless it is still waiting; when all its endpoints are idle a     *)
(* transmitter sleeps until a signal is set.                               *)
PollNext ==
  /\ \/ pc.poll = "next" /\ p_ep' \in NextOf(p_ep)
     \/ pc.poll = "end" /\ p_ep' = None
  /\ LET exits == p_ep' = None /\ p_stopping /\ ~poll_thread_waiting
         sleeps == p_ep' = None /\ ~exits /\ Transmitter /\ ~new_command_signal
     IN  /\ poll_thread_exit_signal' = (poll_thread_exit_signal \/ exits)
         /\ \E l \in IF p_ep' # None THEN {"visit"}
                     ELSE IF exits THEN {"ended"}
                     ELSE IF sleeps THEN {"pass", "asleep"} ELSE {"pass"} :
              Goto("poll", l)
  /\ UNCHANGED <<endpoint, destroying, command, got_shutdown, thread_done,
                 shutdown_signal, adapter_shutdown_signal, con_shutdown_signal,
                 state_lock, barrier, poll_thread_waiting, p_closing, p_destroyed,
                 p_do_poll, p_exit, p_stopping, manager, app, others>>

(* A probe packet to be sent sets tx_poll_do_work_signal.                  *)
ProbePacket ==
  /\ pc.poll = "asleep" /\ endpoint_list # <<>>
  /\ Goto("poll", "pass")
  /\ UNCHANGED <<endpoint, destroying, command, stopping, state_lock, barrier,
                 poller, manager, app, others>>

PollWakes ==
  /\ pc.poll = "asleep" /\ new_command_signal
  /\ Goto("poll", "pass")
  /\ UNCHANGED <<endpoint, destroying, command, stopping, state_lock, barrier,
                 poller, manager, app, others>>

Poll ==
  \/ PollPass \/ PollStops \/ PollDrained \/ PollCloses
  \/ PollClosed \/ PollDestroyed \/ PollNoCommand \/ PollEnters
  \/ PollWaits \/ PollLeaves \/ PollPolled \/ PollNext \/ PollWakes
  \/ Counting("poll")

(***************************************************************************)
(* EndpointManagerShutdownConnection, then the join of                     *)
(* EndpointManagerDestroy.                                                 *)
(***************************************************************************)
Shutdown ==
  /\ pc.app = "idle"
  /\ got_shutdown' = TRUE
  /\ a_ep' = First
  /\ Goto("app", IF First = None THEN "adapter" ELSE "command")
  /\ UNCHANGED <<endpoint, destroying, command, thread_done, shutdown_signal,
                 adapter_shutdown_signal, con_shutdown_signal,
                 poll_thread_exit_signal, state_lock, barrier, poller, manager,
                 sent_command, others>>

ShutdownCommand ==
  /\ pc.app = "command" /\ Locked
  /\ IF ep_got_shutdown[a_ep]
     THEN UNCHANGED <<endpoint, queued_commands_count, state_lock>>
     ELSE /\ QueueCommand(a_ep, "Shutdown")
          /\ UNCHANGED <<queued_to_destroy, ep_shutdown_signal>>
  /\ Goto("app", IF state_lock' THEN "signal" ELSE "next")
  /\ UNCHANGED <<destroying, new_command_signal, command_done_signal, stopping,
                 barrier, poller, manager, app, others>>

ShutdownSignal ==
  /\ pc.app = "signal"
  /\ Announce
  /\ state_lock' = FALSE
  /\ sent_command' = TRUE
  /\ Goto("app", "next")
  /\ UNCHANGED <<endpoint, destroying, queued_commands_count, command_done_signal,
                 stopping, barrier, poller, manager, a_ep, others>>

ShutdownNext ==
  /\ pc.app = "next"
  /\ a_ep' \in NextOf(a_ep)
  /\ Goto("app", IF a_ep' = None THEN "adapter" ELSE "command")
  /\ UNCHANGED <<endpoint, destroying, command, stopping, state_lock, barrier,
                 poller, manager, sent_command, others>>

ShutdownAdapter ==
  /\ pc.app = "adapter"
  /\ adapter_shutdown_signal' = TRUE
  /\ Goto("app", IF sent_command THEN "wait_done" ELSE "wait_exit")
  /\ UNCHANGED <<endpoint, destroying, command, got_shutdown, thread_done,
                 shutdown_signal, con_shutdown_signal, poll_thread_exit_signal,
                 state_lock, barrier, poller, manager, app, others>>

(* poll_thread_exit_signal is never cleared; joining the payload thread    *)
(* sets the shutdown signal of the connection first.                       *)
ShutdownJoins ==
  /\ pc.app = "wait_exit" /\ poll_thread_exit_signal
  /\ con_shutdown_signal' = Transmitter
  /\ Goto("app", "join")
  /\ UNCHANGED <<endpoint, destroying, command, got_shutdown, thread_done,
                 shutdown_signal, adapter_shutdown_signal, poll_thread_exit_signal,
                 state_lock, barrier, poller, manager, app, others>>

ShutdownCloses ==
  /\ pc.app = "join" /\ pc.payload \in {"ended", "none"} /\ First # None
  /\ a_ep' = First
  /\ Closing(First)
  /\ Goto("app", "close")
  /\ UNCHANGED <<command_queue, got_new_command, ep_got_shutdown, queued_to_destroy,
                 destroying, command, stopping, state_lock, barrier, poller, manager,
                 sent_command, others>>

ShutdownClosed ==
  /\ pc.app = "close"
  /\ Closed(a_ep)
  /\ Goto("app", "join")
  /\ UNCHANGED <<got_new_command, ep_got_shutdown, queued_to_destroy,
                 ep_shutdown_signal, destroy_queue, endpoints_destroyed_signal,
                 new_command_signal, command_done_signal, stopping, state_lock,
                 barrier, poller, manager, app, others>>

ShutdownManager ==
  /\ pc.app = "join" /\ pc.payload \in {"ended", "none"} /\ First = None
  /\ shutdown_signal' = TRUE
  /\ Goto("app", "destroy")
  /\ UNCHANGED <<endpoint, destroying, command, got_shutdown, thread_done,
                 adapter_shutdown_signal, con_shutdown_signal,
                 poll_thread_exit_signal, state_lock, barrier, poller, manager,
                 app, others>>

ShutdownEnds ==
  /\ pc.app = "destroy" /\ pc.manager = "ended"
  /\ Goto("app", "ended")
  /\ UNCHANGED <<endpoint, destroying, command, stopping, state_lock, barrier,
                 poller, manager, app, others>>

App ==
  \/ ShutdownCommand \/ ShutdownSignal \/ ShutdownNext \/ ShutdownAdapter
  \/ WaitsDone("app", "wait_exit") \/ ShutdownJoins \/ ShutdownCloses
  \/ ShutdownClosed \/ ShutdownManager \/ ShutdownEnds

Terminated == pc.app = "ended" /\ UNCHANGED vars

Next ==
  \/ Poll \/ WorkArrives \/ ProbePacket \/ Payload \/ Manager \/ App \/ Shutdown \/ Terminated
  \/ \E e \in Endpoints : \/ SetCommand(e) \/ SetCommandSignal(e)
                          \/ DestroyCall(e) \/ Destroyer(e)

Spec == Init /\ [][Next]_vars

(* Every thread keeps running, and the payload queue is not kept full      *)
(* forever: a transmitter that always finds a payload does not look at the *)
(* new-command signal.  Nothing is assumed about when commands, destroys   *)
(* and the shutdown are asked for.                                         *)
FairSpec ==
  /\ Spec
  /\ WF_vars(Poll) /\ WF_vars(Payload) /\ WF_vars(Manager) /\ WF_vars(App)
  /\ SF_vars(PayloadNotified)
  /\ \A e \in Endpoints : WF_vars(SetCommandSignal(e)) /\ WF_vars(Destroyer(e))

-----------------------------------------------------------------------------
PollPoints == {"pass", "drain", "visit", "close", "command", "inc", "clear_new",
               "clear_running", "set_waiting", "dec", "clear_done", "set_running",
               "leave", "polling", "next", "end", "asleep", "ended"}
PayloadPoints == {"top", "run", "wait_running", "block_running", "inc", "clear_new",
                  "clear_running", "set_waiting", "wait_done", "block_done", "dec",
                  "clear_done", "set_running", "ended", "none"}
ManagerPoints == {"loop", "wait", "walk", "count", "execute", "done", "exit", "ended"}
AppPoints == {"idle", "command", "signal", "next", "adapter", "wait_done", "block_done",
              "wait_exit", "join", "close", "destroy", "ended"}
EndpointOrNone == Endpoints \cup {None}

(* Type invariant.                                                         *)
EndpointsOK ==
  /\ endpoint_list \in Seq(Endpoints) /\ destroy_queue \in Seq(Endpoints)
  /\ command_queue \in [Endpoints -> Seq(Commands)]
  /\ \A e \in Endpoints : Len(command_queue[e]) <= QueueSize
  /\ got_new_command \in [Endpoints -> BOOLEAN]
  /\ ep_got_shutdown \in [Endpoints -> BOOLEAN]
  /\ queued_to_destroy \in [Endpoints -> BOOLEAN]
  /\ ep_shutdown_signal \in [Endpoints -> BOOLEAN]
  /\ c_pc \in [Endpoints -> {"idle", "signal"}]
  /\ d_pc \in [Endpoints -> {"idle", "clear", "push", "notify", "wait", "block",
                             "check", "returned"}]
SignalsOK ==
  /\ endpoints_destroyed_signal \in BOOLEAN /\ got_shutdown \in BOOLEAN
  /\ thread_done \in BOOLEAN /\ state_lock \in BOOLEAN
  /\ new_command_signal \in BOOLEAN /\ command_done_signal \in BOOLEAN
  /\ shutdown_signal \in BOOLEAN /\ adapter_shutdown_signal \in BOOLEAN
  /\ con_shutdown_signal \in BOOLEAN /\ poll_thread_waiting \in BOOLEAN
  /\ poll_thread_exit_signal \in BOOLEAN
  /\ all_threads_waiting_signal \in BOOLEAN
  /\ all_threads_running_signal \in BOOLEAN /\ p_destroyed \in BOOLEAN
  /\ p_do_poll \in BOOLEAN /\ p_exit \in BOOLEAN /\ p_stopping \in BOOLEAN
  /\ t_leaving \in BOOLEAN /\ keep_alive \in BOOLEAN
  /\ sent_command \in BOOLEAN
ThreadsOK ==
  /\ {queued_commands_count, thread_wait_count} \subseteq Int
  /\ registered_thread_count = IF Transmitter THEN 2 ELSE 1
  /\ {p_ep, p_closing, m_ep, a_ep} \subseteq EndpointOrNone
  /\ m_command \in Commands
  /\ DOMAIN pc = Threads
  /\ pc.poll \in PollPoints /\ pc.payload \in PayloadPoints
  /\ pc.manager \in ManagerPoints /\ pc.app \in AppPoints
  /\ issued \in 0 .. MaxCommands
TypeOK == EndpointsOK /\ SignalsOK /\ ThreadsOK

(* A thread is in the barrier from its increment to its decrement.         *)
InBarrier(t) ==
  IF t = "poll"
  THEN /\ poll_thread_waiting
       /\ pc.poll \notin {"inc", "clear_done", "set_running", "leave"}
  ELSE pc[t] \in {"clear_new", "clear_running", "set_waiting", "wait_done",
                  "block_done", "dec"}

(* The count that opens and closes the barrier is the number of threads in *)
(* it, however the shutdown of the connection, the end of the Endpoint     *)
(* Manager thread and the commands interleave.                             *)
CountsThreadsInBarrier ==
  thread_wait_count = Cardinality({t \in {"poll", "payload"} : InBarrier(t)})

(* queued_commands_count is what the command queues hold, also when an     *)
(* endpoint is destroyed together with commands that wait for it; the      *)
(* Endpoint Manager thread counts a command off after it took it.          *)
Queued == {place \in Endpoints \X (1 .. QueueSize) :
             place[2] <= Len(command_queue[place[1]])}
CountsQueuedCommands ==
  queued_commands_count =
    Cardinality(Queued) + (IF pc.manager = "count" THEN 1 ELSE 0)

(* Both counts that the threads wait on and clear signals by are exact.    *)
(* So neither goes below zero: the code asserts that of the commands when  *)
(* one is taken off a queue (endpoint_manager.c:331 and :279) and of the   *)
(* waiting threads (:421).                                                 *)
CountsAreExact == CountsThreadsInBarrier /\ CountsQueuedCommands

Processing == pc.manager \in {"walk", "count", "execute"}

(* The Endpoint Manager thread of a receiver walks endpoints that exist:   *)
(* none is freed under it, by the poll thread (endpoint_manager.c:1265) or *)
(* by the application that shuts the connection down.                      *)
ProcessesLiveEndpoints == Processing /\ ~Transmitter => InList(m_ep)

(* A receiver carries out commands only while its poll thread is in the    *)
(* barrier, also in the second round that a command causes.                *)
ProcessesInBarrier == Processing /\ ~Transmitter => InBarrier("poll")

(* Once the Endpoint Manager thread is done, nobody blocks on it any more: *)
(* command_done_signal and new_command_signal stay set, whoever was about  *)
(* to clear them.  This is what state_lock guards thread_done for.         *)
DoneIsFinal ==
  [][thread_done => command_done_signal' /\ new_command_signal']_vars

(* A thread that destroys one endpoint goes on when that endpoint is gone, *)
(* or is being closed, and never because of another endpoint's destruction *)
(* that sets the same endpoints_destroyed_signal.                          *)
DestroyedIsGone ==
  \A e \in Endpoints : d_pc[e] = "returned" =>
    ~InList(e) \/ ep_shutdown_signal[e] \/ con_shutdown_signal

(* CdiCoreConnectionDestroy of a receiver comes back: "wait for all        *)
(* threads associated with this connection to process being shutdown"      *)
(* (endpoint_manager.c:735) does not wait forever.  A payload thread that  *)
(* leaves in the round of an earlier command breaks this for transmitters  *)
(* (internal_tx.c:400).                                                    *)
ShutdownCompletes ==
  (pc.app # "idle" /\ ~Transmitter) ~> (pc.app = "ended")

(* EndpointManagerEndpointDestroy comes back, whether the poll thread      *)
(* destroys the endpoint or the shutdown of the connection is faster.      *)
DestroyReturns ==
  \A e \in Endpoints :
    (d_pc[e] = "clear" /\ ~Transmitter) ~> (d_pc[e] = "returned")

(* Every reset or start that is queued is carried out, unless its endpoint *)
(* is destroyed first.                                                     *)
CommandsExecute ==
  \A e \in Endpoints :
    (InList(e) /\ command_queue[e] # <<>> /\ ~Transmitter)
      ~> (~InList(e) \/ command_queue[e] = <<>>)

(* The comment in endpoint_manager.c:729 of the shutdown: "set shutdown    *)
(* flags so poll threads exit their main loop".                            *)
PollThreadStops == adapter_shutdown_signal ~> p_stopping

(* "All threads related to an endpoint must be blocked before any resource *)
(* changes such as flushing queues or returning used memory pool items to  *)
(* their pool can be made" (endpoint_manager.c:23): the poll thread does   *)
(* not poll an endpoint while a command is carried out on it.              *)
PollThreadIsStopped ==
  ~(pc.manager = "execute" /\ pc.poll = "polling" /\ p_ep = m_ep)

(* The same of a receiver's last polls when it is shut down.               *)
DrainIsStopped == ~(pc.manager = "execute" /\ pc.poll = "drain" /\ InList(m_ep))

(* The same of the payload thread of a transmitter, which blocks in        *)
(* EndpointManagerThreadWait "in case a previous state change has not      *)
(* finished" (endpoint_manager.c:793).                                     *)
PayloadThreadIsStopped == ~(pc.manager = "execute" /\ pc.payload = "run")
=============================================================================

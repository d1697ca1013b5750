----------------------- MODULE EndpointManager_proofs -----------------------
(***************************************************************************)
(* Proofs about the Endpoint Manager of endpoint_manager.c, under          *)
(* ManagerAssumption alone: for any finite set of endpoints, any size of   *)
(* the command queues and any commands of the application.  Its counts are *)
(* exact, its asserts hold, an endpoint that was waited for is gone, and   *)
(* the commands of a receiver are carried out on live endpoints with the   *)
(* poll thread held in the barrier.  The rounds of a transmitter are left  *)
(* out: its payload thread can leave the barrier in a round before the one *)
(* it was asked for, and RoundInv is not true of it.                       *)
(***************************************************************************)
EXTENDS EndpointManager, FiniteSetTheorems, FunctionTheorems, SequenceTheorems, TLAPS

(* Where a thread is on its way into the barrier, and on its way out.      *)
Entering == {"inc", "clear_new", "clear_running", "set_waiting"}
Leaving == {"dec", "clear_done", "set_running", "leave"}

(* The poll thread enters and leaves the barrier with its flag set, and    *)
(* destroys endpoints, and ends, without it.                               *)
FlagInv ==
  /\ pc.poll \in Entering \cup Leaving => poll_thread_waiting
  /\ pc.poll \in {"close", "ended"} => ~poll_thread_waiting

(* The Endpoint Manager thread is done when it has ended; its last sets of *)
(* the two signals are not undone.                                         *)
DoneInv ==
  /\ thread_done <=> pc.manager = "ended"
  /\ thread_done => command_done_signal /\ new_command_signal

(* What the shutdown has waited for stays so.                              *)
ShutdownInv ==
  /\ poll_thread_exit_signal => pc.poll = "ended"
  /\ con_shutdown_signal \/ shutdown_signal \/ pc.app \in {"join", "close", "destroy", "ended"}
       => poll_thread_exit_signal
  /\ con_shutdown_signal => pc.app \in {"join", "close", "destroy", "ended"}

(* A round of the barrier: its command is announced by                     *)
(* all_threads_waiting_signal, carried out, and reported by                *)
(* command_done_signal.  The poll thread of a receiver is past its entry   *)
(* before the round, and leaves only after the report.                     *)
Working == pc.manager \in {"walk", "count", "execute", "done"}
Busy == all_threads_waiting_signal \/ Working
RoundInv ==
  ~Transmitter =>
    /\ ~(all_threads_waiting_signal /\ Working)
    /\ ~thread_done /\ pc.poll # "ended" /\ Busy =>
         /\ poll_thread_waiting /\ pc.poll \notin Entering \cup Leaving
         /\ ~command_done_signal
    /\ ~thread_done /\ pc.poll # "ended" /\ command_done_signal =>
         poll_thread_waiting /\ pc.poll \notin Entering \cup {"set_running", "leave"}
    /\ ~thread_done /\ pc.poll = "ended" => ~all_threads_waiting_signal /\ ~Processing

(* The endpoint a thread works on is one.                                  *)
PointersInv ==
  /\ pc.poll = "close" => p_closing \in Endpoints
  /\ pc.manager \in {"walk", "count", "execute"} => m_ep \in Endpoints
  /\ pc.app \in {"command", "signal", "next", "close"} => a_ep \in Endpoints

(* The inductive invariant.  Besides the properties it names, it takes the *)
(* rounds of the barrier for ProcessesInBarrier and ProcessesLiveEndpoints, *)
(* and the order of the shutdown for DestroyedIsGone.                      *)
IInv ==
  /\ TypeOK /\ PointersInv /\ FlagInv /\ DoneInv /\ ShutdownInv /\ RoundInv
  /\ CountsThreadsInBarrier /\ CountsQueuedCommands
  /\ DestroyedIsGone /\ ProcessesLiveEndpoints

-----------------------------------------------------------------------------
(* The threads in the barrier are two at most.                             *)
LEMMA TwoThreads ==
  ASSUME NEW S \in SUBSET {"poll", "payload"}
  PROVE  Cardinality(S) = (IF "poll" \in S THEN 1 ELSE 0)
                            + (IF "payload" \in S THEN 1 ELSE 0)
<1>1. S = {} \/ S = {"poll"} \/ S = {"payload"} \/ S = {"poll", "payload"}
  OBVIOUS
<1>2. CASE S = {}
  BY <1>2, FS_EmptySet
<1>3. CASE S = {"poll"}
  BY <1>3, FS_Singleton
<1>4. CASE S = {"payload"}
  <2>1. Cardinality(S) = 1 /\ "poll" \notin S /\ "payload" \in S
    BY <1>4, FS_Singleton
  <2>2. QED
    BY <2>1
<1>5. CASE S = {"poll", "payload"}
  <2>1. IsFiniteSet({"poll"}) /\ Cardinality({"poll"}) = 1
    BY FS_Singleton
  <2>2. Cardinality({"poll"} \cup {"payload"}) = 2
    BY <2>1, FS_AddElement
  <2>3. S = {"poll"} \cup {"payload"}
    BY <1>5
  <2>4. QED
    BY <2>2, <2>3
<1>6. QED
  BY <1>1, <1>2, <1>3, <1>4, <1>5

(* The places taken in the command queues q, and how many they are.        *)
Queues == {q \in [Endpoints -> Seq(Commands)] : \A e \in Endpoints : Len(q[e]) <= QueueSize}
Places(q) == {place \in Endpoints \X (1 .. QueueSize) : place[2] <= Len(q[place[1]])}

(* There are finitely many places.                                         *)
LEMMA PlacesFinite ==
  ASSUME NEW q
  PROVE  IsFiniteSet(Places(q)) /\ Cardinality(Places(q)) \in Nat
<1>1. IsFiniteSet(1 .. QueueSize)
  BY ManagerAssumption, FS_Interval
<1>2. IsFiniteSet(Endpoints \X (1 .. QueueSize))
  BY <1>1, ManagerAssumption, FS_Product
<1>3. QED
  BY <1>2, FS_Subset, FS_CardinalityType DEF Places

(* A command more is a place more, and a command less a place less.        *)
LEMMA PlaceAdded ==
  ASSUME NEW q \in Queues, NEW r \in Queues, NEW e \in Endpoints,
         Len(r[e]) = Len(q[e]) + 1,
         \A f \in Endpoints \ {e} : Len(r[f]) = Len(q[f])
  PROVE  Cardinality(Places(r)) = Cardinality(Places(q)) + 1
<1> DEFINE n == Len(r[e])
<1>1. n \in 1 .. QueueSize /\ \A f \in Endpoints : Len(q[f]) \in Nat /\ Len(r[f]) \in Nat
  BY ManagerAssumption DEF Queues
<1>2. Places(r) = Places(q) \cup {<<e, n>>}
  BY <1>1 DEF Places
<1>3. <<e, n>> \notin Places(q)
  BY <1>1 DEF Places
<1>4. IsFiniteSet(Places(q)) BY PlacesFinite
<1>5. QED
  BY ONLY <1>2, <1>3, <1>4, FS_AddElement

(* The first n places of an endpoint are n.                                *)
LEMMA OwnPlaces ==
  ASSUME NEW e \in Endpoints, NEW n \in Nat
  PROVE  IsFiniteSet({e} \X (1 .. n)) /\ Cardinality({e} \X (1 .. n)) = n
<1>1. IsFiniteSet(1 .. n) /\ Cardinality(1 .. n) = n
  BY FS_Interval
<1>2. IsFiniteSet({e}) /\ Cardinality({e}) = 1
  BY FS_Singleton
<1>3. QED
  BY <1>1, <1>2, FS_Product

(* Emptying the queue of an endpoint frees as many places as it held.      *)
LEMMA PlacesFreed ==
  ASSUME NEW q \in Queues, NEW r \in Queues, NEW e \in Endpoints, Len(r[e]) = 0,
         \A f \in Endpoints \ {e} : Len(r[f]) = Len(q[f])
  PROVE  Cardinality(Places(r)) = Cardinality(Places(q)) - Len(q[e])
<1> DEFINE n == Len(q[e])
           own == {e} \X (1 .. n)
<1>1. /\ n \in 0 .. QueueSize
      /\ \A f \in Endpoints : Len(q[f]) \in Nat /\ Len(r[f]) \in Nat
  BY ManagerAssumption DEF Queues
<1>2. IsFiniteSet(own) /\ Cardinality(own) = n
  BY <1>1, ManagerAssumption, OwnPlaces
<1>3. /\ \A place \in own : place \in Endpoints \X (1 .. QueueSize) /\ place[2] <= n
      /\ \A place \in own : place[1] = e
  BY <1>1, ManagerAssumption
<1>4. own \subseteq Places(q)
  BY <1>3 DEF Places
<1>5. Places(r) \subseteq Places(q) \ own
  BY <1>1, <1>3, ManagerAssumption DEF Places
<1>6. ASSUME NEW place \in Places(q), place \notin own
      PROVE  place \in Places(r)
  <2>1. place[1] \in Endpoints /\ place[2] \in 1 .. QueueSize /\ place = <<place[1], place[2]>>
        /\ place[2] <= Len(q[place[1]])
    BY DEF Places
  <2>2. place[1] # e
    BY <1>6, <2>1
  <2>3. QED
    BY <2>1, <2>2 DEF Places
<1>7. Places(r) = Places(q) \ own /\ Places(q) \cap own = own
  BY <1>4, <1>5, <1>6
<1> HIDE DEF own, n
<1>8. IsFiniteSet(Places(q))
  BY PlacesFinite
<1>9. Cardinality(Places(q) \ own) = Cardinality(Places(q)) - Cardinality(Places(q) \cap own)
  BY <1>8, FS_Difference
<1>10. QED
  BY <1>2, <1>7, <1>9 DEF n

(* An endpoint that leaves the list makes nobody a member of it.           *)
LEMMA PartsShrink ==
  ASSUME NEW s \in Seq(Endpoints), NEW i \in 1 .. Len(s),
         NEW left \in Seq(Endpoints), Len(left) = i - 1,
         NEW right \in Seq(Endpoints), Len(right) = Len(s) - i,
         \A k \in 1 .. i - 1 : left[k] = s[k],
         \A k \in 1 .. Len(s) - i : right[k] = s[i + k]
  PROVE  \A k \in DOMAIN (left \o right) : \E l \in DOMAIN s : (left \o right)[k] = s[l]
<1> DEFINE all == left \o right
<1>1. /\ all \in Seq(Endpoints) /\ Len(all) = Len(left) + Len(right)
      /\ \A k \in 1 .. Len(left) + Len(right) :
           all[k] = IF k <= Len(left) THEN left[k] ELSE right[k - Len(left)]
  BY ConcatProperties
<1> HIDE DEF all
<1>2. Len(s) \in Nat /\ Len(left) \in Nat /\ DOMAIN all = 1 .. Len(s) - 1
  BY <1>1
<1>3. ASSUME NEW k \in 1 .. Len(s) - 1, k < i
      PROVE  all[k] = s[k]
  <2>1. k \in 1 .. Len(left) + Len(right) /\ k <= Len(left) /\ k \in 1 .. i - 1
    BY <1>2, <1>3
  <2>2. all[k] = left[k]
    BY ONLY <1>1, <2>1
  <2>3. QED
    BY <2>1, <2>2
<1>4. ASSUME NEW k \in 1 .. Len(s) - 1, k >= i
      PROVE  all[k] = s[k + 1]
  <2>1. k - (i - 1) \in 1 .. Len(s) - i /\ i + (k - (i - 1)) = k + 1
    BY <1>2, <1>4
  <2>2. k \in 1 .. Len(left) + Len(right) /\ ~(k <= Len(left))
    BY <1>2, <1>4
  <2>3. all[k] = right[k - Len(left)]
    BY ONLY <1>1, <2>2
  <2>4. QED
    BY <2>1, <2>3
<1>5. \A k \in 1 .. Len(s) - 1 : k < i \/ k >= i
  BY <1>2
<1>6. \A k \in 1 .. Len(s) - 1 : k \in DOMAIN s /\ k + 1 \in DOMAIN s
  BY <1>2
<1>7. QED
  BY <1>2, <1>3, <1>4, <1>5, <1>6 DEF all

(* RemoveAt of the list, as DestroyEndpoint takes an endpoint out of it.   *)
LEMMA RemovalShrinks ==
  ASSUME NEW s \in Seq(Endpoints), NEW i \in 1 .. Len(s)
  PROVE  /\ RemoveAt(s, i) \in Seq(Endpoints)
         /\ \A k \in DOMAIN RemoveAt(s, i) : \E l \in DOMAIN s : RemoveAt(s, i)[k] = s[l]
<1>1. /\ SubSeq(s, 1, i - 1) \in Seq(Endpoints) /\ Len(SubSeq(s, 1, i - 1)) = i - 1
      /\ \A k \in 1 .. i - 1 : SubSeq(s, 1, i - 1)[k] = s[k]
  OBVIOUS
<1>2. /\ SubSeq(s, i + 1, Len(s)) \in Seq(Endpoints)
      /\ Len(SubSeq(s, i + 1, Len(s))) = Len(s) - i
      /\ \A k \in 1 .. Len(s) - i : SubSeq(s, i + 1, Len(s))[k] = s[i + k]
  OBVIOUS
<1> DEFINE left == SubSeq(s, 1, i - 1)
           right == SubSeq(s, i + 1, Len(s))
<1>3. RemoveAt(s, i) = left \o right
  BY DEF RemoveAt
<1> HIDE DEF left, right
<1>4. left \o right \in Seq(Endpoints)
  BY <1>1, <1>2, ConcatProperties DEF left, right
<1>5. \A k \in DOMAIN (left \o right) : \E l \in DOMAIN s : (left \o right)[k] = s[l]
  <2>1. left \in Seq(Endpoints) /\ right \in Seq(Endpoints)
        /\ Len(left) = i - 1 /\ Len(right) = Len(s) - i
        /\ (\A k \in 1 .. i - 1 : left[k] = s[k])
        /\ \A k \in 1 .. Len(s) - i : right[k] = s[i + k]
    BY <1>1, <1>2 DEF left, right
  <2>2. QED
    BY <2>1, PartsShrink
<1>6. QED
  BY <1>3, <1>4, <1>5

(* The same of DestroyEndpoint.                                            *)
LEMMA ClosedShrinks ==
  ASSUME TypeOK, NEW e \in Endpoints, Closed(e)
  PROVE  /\ endpoint_list' \in Seq(Endpoints)
         /\ \A f \in Endpoints : InList(f)' => InList(f)
<1>1. CASE InList(e)
  <2>1. Position(e) \in 1 .. Len(endpoint_list)
    BY <1>1 DEF InList, Position, TypeOK, EndpointsOK
  <2>2. endpoint_list' = RemoveAt(endpoint_list, Position(e))
    BY <1>1 DEF Closed
  <2>3. QED
    BY <2>1, <2>2, RemovalShrinks DEF TypeOK, EndpointsOK, InList
<1>2. CASE ~InList(e)
  BY <1>2 DEF Closed, InList, TypeOK, EndpointsOK
<1>3. QED
  BY <1>1, <1>2

(* Walks over the list lead from its members to its members.               *)
LEMMA FirstIsMember ==
  ASSUME TypeOK
  PROVE  First \in EndpointOrNone /\ (First # None => InList(First))
BY DEF TypeOK, EndpointsOK, First, InList, EndpointOrNone

(* EndpointManagerGetNextEndpoint stays in the list.                       *)
LEMMA NextIsMember ==
  ASSUME TypeOK, NEW e, NEW f \in NextOf(e)
  PROVE  f \in EndpointOrNone /\ (f # None => InList(f))
<1>1. CASE InList(e)
  <2>1. Position(e) \in 1 .. Len(endpoint_list) /\ Len(endpoint_list) \in Nat
    BY <1>1 DEF InList, Position, TypeOK, EndpointsOK
  <2>2. CASE Position(e) = Len(endpoint_list)
    BY <1>1, <2>2 DEF NextOf, EndpointOrNone
  <2>3. CASE Position(e) # Len(endpoint_list)
    <3>1. f = endpoint_list[Position(e) + 1]
      BY <1>1, <2>3 DEF NextOf
    <3>2. Position(e) + 1 \in DOMAIN endpoint_list
      BY <2>1, <2>3 DEF TypeOK, EndpointsOK
    <3>3. QED
      BY <3>1, <3>2 DEF InList, TypeOK, EndpointsOK, EndpointOrNone
  <2>4. QED
    BY <2>2, <2>3
<1>2. CASE ~InList(e)
  BY <1>2 DEF NextOf, InList, TypeOK, EndpointsOK, EndpointOrNone
<1>3. QED
  BY <1>1, <1>2

(* What DestroyEndpoint and SetCommand leave of the types.                 *)
LEMMA ClosingKeepsTypes ==
  ASSUME TypeOK, NEW e, Closing(e)
  PROVE  ep_shutdown_signal' \in [Endpoints -> BOOLEAN]
BY DEF TypeOK, EndpointsOK, Closing

(* The list and the queues that DestroyEndpoint leaves have their types.   *)
LEMMA ClosedKeepsTypes ==
  ASSUME TypeOK, NEW e \in Endpoints, Closed(e)
  PROVE  command_queue' \in [Endpoints -> Seq(Commands)]
         /\ (\A f \in Endpoints : Len(command_queue'[f]) <= QueueSize)
         /\ queued_commands_count' \in Int
BY ManagerAssumption DEF TypeOK, EndpointsOK, ThreadsOK, Closed

(* So have the queue and the flags that SetCommand leaves.                 *)
LEMMA QueueKeepsTypes ==
  ASSUME TypeOK, NEW e \in Endpoints, NEW c \in Commands, QueueCommand(e, c)
  PROVE  /\ command_queue' \in [Endpoints -> Seq(Commands)]
         /\ \A f \in Endpoints : Len(command_queue'[f]) <= QueueSize
         /\ got_new_command' \in [Endpoints -> BOOLEAN]
         /\ ep_got_shutdown' \in [Endpoints -> BOOLEAN]
         /\ state_lock' \in BOOLEAN
<1>1. got_new_command' \in [Endpoints -> BOOLEAN] /\ ep_got_shutdown' \in [Endpoints -> BOOLEAN]
  BY DEF TypeOK, EndpointsOK, QueueCommand
<1>2. state_lock' \in BOOLEAN
  BY DEF TypeOK, SignalsOK, QueueCommand
<1>3. CASE QueueHasRoom(e)
  <2>1. command_queue' = [command_queue EXCEPT ![e] = Append(command_queue[e], c)]
    BY <1>3 DEF QueueCommand
  <2>2. /\ Append(command_queue[e], c) \in Seq(Commands)
        /\ Len(Append(command_queue[e], c)) = Len(command_queue[e]) + 1
    BY DEF TypeOK, EndpointsOK
  <2>3. Len(command_queue[e]) + 1 <= QueueSize
    BY <1>3, ManagerAssumption DEF QueueHasRoom, TypeOK, EndpointsOK
  <2>4. QED
    BY <1>1, <1>2, <2>1, <2>2, <2>3 DEF TypeOK, EndpointsOK
<1>4. CASE ~QueueHasRoom(e)
  BY <1>1, <1>2, <1>4 DEF TypeOK, EndpointsOK, QueueCommand
<1>5. QED
  BY <1>3, <1>4

(* Every step keeps the types of what belongs to the threads.              *)
LEMMA ThreadsPreserved ==
  ASSUME TypeOK, PointersInv, [Next]_vars
  PROVE  ThreadsOK'
<1> USE ManagerAssumption, FirstIsMember, NextIsMember DEF TypeOK, ThreadsOK,
     Transmitter, PollPoints, PayloadPoints, ManagerPoints, AppPoints,
     Commands, Threads, EndpointOrNone
<1>1. CASE UNCHANGED vars \/ Terminated
  BY <1>1 DEF Terminated, vars, endpoint, destroying, command, stopping,
     barrier, poller, manager, app, others
<1>2. CASE \/ PollPass \/ PollStops \/ PollDrained \/ PollClosed
           \/ PollDestroyed \/ PollNoCommand
  BY <1>2 DEF PollPass, PollStops, PollDrained, PollClosed, Closed,
     PollDestroyed, PollMayDestroy, PollNoCommand, Goto, vars, endpoint,
     destroying, command, stopping, barrier, poller, manager, app, others
<1>3. CASE PollCloses
  <2>1. p_closing' \in Endpoints
    BY <1>3 DEF PollCloses, PollMayDestroy, EndpointsOK
  <2>2. QED
    BY <1>3, <2>1 DEF PollCloses, Goto, command, barrier, manager, app, others
<1>4. CASE \/ PollEnters \/ PollWaits \/ PollLeaves \/ PollPolled \/ PollNext
           \/ PollWakes
  BY <1>4 DEF PollEnters, PollWaits, PollLeaves, PollGoesOn, PollPolled,
     PollNext, PollWakes, Goto, vars, endpoint, destroying, command, stopping,
     barrier, poller, manager, app, others
<1>5. ASSUME NEW t \in {"poll", "payload"},
             \/ Increment(t) \/ IncrementClearsNew(t)
             \/ IncrementClearsRunning(t) \/ IncrementSetsWaiting(t)
             \/ Decrement(t) \/ DecrementClearsDone(t)
             \/ DecrementSetsRunning(t)
      PROVE  ThreadsOK'
  BY <1>5 DEF Increment, Goto, IncrementClearsNew, NewCommandKept,
     IncrementClearsRunning, IncrementSetsWaiting, Decrement, AfterDecrement,
     DecrementClearsDone, CommandDoneKept, DecrementSetsRunning, vars,
     endpoint, destroying, command, stopping, barrier, poller, manager, app,
     others
<1>6. CASE \/ PayloadTop \/ PayloadNotified \/ PayloadWaitsRunning
           \/ WorkArrives \/ ProbePacket
  BY <1>6 DEF PayloadTop, PayloadLeavesBy, PayloadNotified,
     PayloadWaitsRunning, WorkArrives, ProbePacket, Goto, vars, endpoint,
     destroying, command, stopping, barrier, poller, manager, app, others
<1>7. CASE \/ ManagerLoop \/ ManagerWakes \/ ManagerCounts \/ ManagerExecutes
           \/ ManagerNextEndpoint \/ ManagerDone \/ ManagerExits
  BY <1>7 DEF ManagerLoop, ManagerWakes, ManagerCounts, ManagerExecutes,
     ManagerNextEndpoint, ManagerDone, SetDone, ManagerExits, Goto, vars,
     endpoint, destroying, command, stopping, barrier, poller, manager, app,
     others
<1>8. CASE ManagerPops
  <2>1. command_queue[m_ep] \in Seq(Commands) /\ command_queue[m_ep] # <<>>
    BY <1>8 DEF ManagerPops, EndpointsOK, PointersInv
  <2>2. m_command' \in Commands
    BY <1>8, <2>1 DEF ManagerPops
  <2>3. QED
    BY <1>8, <2>2 DEF ManagerPops, Goto, command, barrier, poller, app, others
<1>9. CASE \/ Shutdown \/ ShutdownCommand \/ ShutdownSignal \/ ShutdownNext
           \/ ShutdownAdapter
  BY <1>9 DEF Shutdown, ShutdownCommand, QueueCommand, QueueHasRoom,
     ShutdownSignal, Announce, ShutdownNext, ShutdownAdapter, Goto, vars,
     endpoint, destroying, command, stopping, barrier, poller, manager, app,
     others
<1>10. CASE \/ ShutdownJoins \/ ShutdownCloses \/ ShutdownClosed
           \/ ShutdownManager \/ ShutdownEnds
  BY <1>10 DEF ShutdownJoins, ShutdownCloses, Closing, ShutdownClosed, Closed,
     ShutdownManager, ShutdownEnds, Goto, vars, endpoint, destroying, command,
     stopping, barrier, poller, manager, app, others
<1>11. CASE WaitsDone("payload", "dec") \/ WaitsDone("app", "wait_exit")
  BY <1>11 DEF WaitsDone, Goto, vars, endpoint, destroying, command, stopping,
     barrier, poller, manager, app, others
<1>12. ASSUME NEW e \in Endpoints,
             \/ SetCommand(e) \/ SetCommandSignal(e) \/ DestroyCall(e)
             \/ DestroyClears(e) \/ DestroyQueues(e) \/ DestroyNotifies(e)
             \/ DestroyWaits(e) \/ DestroyChecks(e)
      PROVE  ThreadsOK'
  BY <1>12 DEF SetCommand, QueueCommand, QueueHasRoom, SetCommandSignal,
     Announce, DestroyCall, DestroyClears, DestroyQueues, DestroyNotifies,
     DestroyWaits, DestroyChecks, DestroyGoesOn, vars, endpoint, destroying,
     command, stopping, barrier, poller, manager, app, others
<1>13. QED
  BY <1>1, <1>2, <1>3, <1>4, <1>5, <1>6, <1>7, <1>8, <1>9, <1>10, <1>11, <1>12
     DEF Next, Poll, Counting, Payload, Manager, App, Destroyer

(* Every step keeps the types of the signals and the flags.                *)
LEMMA SignalsPreserved ==
  ASSUME TypeOK, [Next]_vars
  PROVE  SignalsOK'
<1> USE DEF TypeOK, SignalsOK
<1>1. CASE UNCHANGED vars \/ Terminated
  BY <1>1 DEF Terminated, vars, endpoint, destroying, command, stopping,
     barrier, poller, manager, app, others
<1>2. CASE PollStops
  BY <1>2 DEF PollStops, Goto, vars, endpoint, destroying, command, stopping,
     barrier, poller, manager, app, others
<1>3. CASE PollDrained
  BY <1>3 DEF PollDrained, Goto, vars, endpoint, destroying, command,
     stopping, barrier, poller, manager, app, others
<1>4. CASE PollCloses
  BY <1>4 DEF PollCloses, Closing, PollMayDestroy, Goto, vars, endpoint,
     destroying, command, stopping, barrier, poller, manager, app, others
<1>5. CASE PollClosed
  BY <1>5 DEF PollClosed, Closed, Goto, vars, endpoint, destroying, command,
     stopping, barrier, poller, manager, app, others
<1>6. CASE PollNoCommand
  BY <1>6 DEF PollNoCommand, Goto, vars, endpoint, destroying, command,
     stopping, barrier, poller, manager, app, others
<1>7. CASE PollPass
  <2>1. p_destroyed' \in BOOLEAN
    BY <1>7 DEF PollPass
  <2>2. QED
    BY <1>7, <2>1 DEF PollPass, vars, endpoint, destroying, command, stopping,
       barrier, poller, manager, app, others
<1>8. CASE PollDestroyed
  <2>1. /\ endpoints_destroyed_signal' \in BOOLEAN /\ p_destroyed' \in BOOLEAN
        /\ p_do_poll' \in BOOLEAN /\ p_exit' \in BOOLEAN
    BY <1>8 DEF PollDestroyed
  <2>2. QED
    BY <1>8, <2>1 DEF PollDestroyed, vars, endpoint, destroying, command,
       stopping, barrier, poller, manager, app, others
<1>9. CASE PollEnters
  BY <1>9 DEF PollEnters, Goto, vars, endpoint, destroying, command, stopping,
     barrier, poller, manager, app, others
<1>10. CASE PollWaits
  BY <1>10 DEF PollWaits, Goto, vars, endpoint, destroying, command, stopping,
     barrier, poller, manager, app, others
<1>11. CASE PollPolled
  BY <1>11 DEF PollPolled, Goto, vars, endpoint, destroying, command,
     stopping, barrier, poller, manager, app, others
<1>12. CASE PollNext
  BY <1>12 DEF PollNext, Goto, vars, endpoint, destroying, command, stopping,
     barrier, poller, manager, app, others
<1>13. CASE PollWakes
  BY <1>13 DEF PollWakes, Goto, vars, endpoint, destroying, command, stopping,
     barrier, poller, manager, app, others
<1>14. CASE PollLeaves
  <2>1. poll_thread_waiting' \in BOOLEAN
    BY <1>14 DEF PollLeaves, PollGoesOn
  <2>2. QED
    BY <1>14, <2>1 DEF PollLeaves, vars, endpoint, destroying, command,
       stopping, barrier, poller, manager, app, others
<1>15. ASSUME NEW t \in {"poll", "payload"}, Increment(t)
      PROVE  SignalsOK'
  BY <1>15 DEF Increment, Goto, vars, endpoint, destroying, command, stopping,
     barrier, poller, manager, app, others
<1>16. ASSUME NEW t \in {"poll", "payload"}, IncrementClearsNew(t)
      PROVE  SignalsOK'
  BY <1>16 DEF IncrementClearsNew, NewCommandKept, Goto, vars, endpoint,
     destroying, command, stopping, barrier, poller, manager, app, others
<1>17. ASSUME NEW t \in {"poll", "payload"}, IncrementSetsWaiting(t)
      PROVE  SignalsOK'
  BY <1>17 DEF IncrementSetsWaiting, Goto, vars, endpoint, destroying,
     command, stopping, barrier, poller, manager, app, others
<1>18. ASSUME NEW t \in {"poll", "payload"}, Decrement(t)
      PROVE  SignalsOK'
  BY <1>18 DEF Decrement, AfterDecrement, Goto, vars, endpoint, destroying,
     command, stopping, barrier, poller, manager, app, others
<1>19. ASSUME NEW t \in {"poll", "payload"}, DecrementClearsDone(t)
      PROVE  SignalsOK'
  BY <1>19 DEF DecrementClearsDone, CommandDoneKept, Goto, vars, endpoint,
     destroying, command, stopping, barrier, poller, manager, app, others
<1>20. ASSUME NEW t \in {"poll", "payload"}, DecrementSetsRunning(t)
      PROVE  SignalsOK'
  BY <1>20 DEF DecrementSetsRunning, AfterDecrement, Goto, vars, endpoint,
     destroying, command, stopping, barrier, poller, manager, app, others
<1>21. ASSUME NEW t \in {"poll", "payload"}, IncrementClearsRunning(t)
      PROVE  SignalsOK'
  <2>1. all_threads_running_signal' \in BOOLEAN
    BY <1>21 DEF IncrementClearsRunning
  <2>2. QED
    BY <1>21, <2>1 DEF IncrementClearsRunning, vars, endpoint, destroying,
       command, stopping, barrier, poller, manager, app, others
<1>22. CASE PayloadTop
  BY <1>22 DEF PayloadTop, PayloadLeavesBy, Goto, vars, endpoint, destroying,
     command, stopping, barrier, poller, manager, app, others
<1>23. CASE PayloadNotified
  BY <1>23 DEF PayloadNotified, Goto, vars, endpoint, destroying, command,
     stopping, barrier, poller, manager, app, others
<1>24. CASE PayloadWaitsRunning
  BY <1>24 DEF PayloadWaitsRunning, Goto, vars, endpoint, destroying, command,
     stopping, barrier, poller, manager, app, others
<1>25. CASE WorkArrives
  BY <1>25 DEF WorkArrives, Goto, vars, endpoint, destroying, command,
     stopping, barrier, poller, manager, app, others
<1>26. CASE ProbePacket
  BY <1>26 DEF ProbePacket, Goto, vars, endpoint, destroying, command,
     stopping, barrier, poller, manager, app, others
<1>27. CASE ManagerLoop
  BY <1>27 DEF ManagerLoop, Goto, vars, endpoint, destroying, command,
     stopping, barrier, poller, manager, app, others
<1>28. CASE ManagerPops
  BY <1>28 DEF ManagerPops, Goto, vars, endpoint, destroying, command,
     stopping, barrier, poller, manager, app, others
<1>29. CASE ManagerCounts
  BY <1>29 DEF ManagerCounts, Goto, vars, endpoint, destroying, command,
     stopping, barrier, poller, manager, app, others
<1>30. CASE ManagerExecutes
  BY <1>30 DEF ManagerExecutes, Goto, vars, endpoint, destroying, command,
     stopping, barrier, poller, manager, app, others
<1>31. CASE ManagerNextEndpoint
  BY <1>31 DEF ManagerNextEndpoint, Goto, vars, endpoint, destroying, command,
     stopping, barrier, poller, manager, app, others
<1>32. CASE ManagerDone
  BY <1>32 DEF ManagerDone, SetDone, Goto, vars, endpoint, destroying,
     command, stopping, barrier, poller, manager, app, others
<1>33. CASE ManagerExits
  BY <1>33 DEF ManagerExits, SetDone, Goto, vars, endpoint, destroying,
     command, stopping, barrier, poller, manager, app, others
<1>34. CASE ManagerWakes
  <2>1. all_threads_waiting_signal' \in BOOLEAN
    BY <1>34 DEF ManagerWakes
  <2>2. QED
    BY <1>34, <2>1 DEF ManagerWakes, vars, endpoint, destroying, command,
       stopping, barrier, poller, manager, app, others
<1>35. CASE Shutdown
  BY <1>35 DEF Shutdown, Goto, vars, endpoint, destroying, command, stopping,
     barrier, poller, manager, app, others
<1>36. CASE ShutdownNext
  BY <1>36 DEF ShutdownNext, Goto, vars, endpoint, destroying, command,
     stopping, barrier, poller, manager, app, others
<1>37. CASE ShutdownAdapter
  BY <1>37 DEF ShutdownAdapter, Goto, vars, endpoint, destroying, command,
     stopping, barrier, poller, manager, app, others
<1>38. CASE ShutdownCommand
  <2>1. state_lock' \in BOOLEAN
    BY <1>38 DEF ShutdownCommand, QueueCommand, endpoint
  <2>2. QED
    BY <1>38, <2>1 DEF ShutdownCommand, vars, endpoint, destroying, command,
       stopping, barrier, poller, manager, app, others
<1>39. CASE ShutdownSignal
  <2>1. new_command_signal' \in BOOLEAN /\ state_lock' \in BOOLEAN /\ sent_command' \in BOOLEAN
    BY <1>39 DEF ShutdownSignal, Announce
  <2>2. QED
    BY <1>39, <2>1 DEF ShutdownSignal, vars, endpoint, destroying, command,
       stopping, barrier, poller, manager, app, others
<1>40. CASE ShutdownCloses
  BY <1>40 DEF ShutdownCloses, Closing, Goto, vars, endpoint, destroying,
     command, stopping, barrier, poller, manager, app, others
<1>41. CASE ShutdownClosed
  BY <1>41 DEF ShutdownClosed, Closed, Goto, vars, endpoint, destroying,
     command, stopping, barrier, poller, manager, app, others
<1>42. CASE ShutdownManager
  BY <1>42 DEF ShutdownManager, Goto, vars, endpoint, destroying, command,
     stopping, barrier, poller, manager, app, others
<1>43. CASE ShutdownEnds
  BY <1>43 DEF ShutdownEnds, Goto, vars, endpoint, destroying, command,
     stopping, barrier, poller, manager, app, others
<1>44. CASE ShutdownJoins
  <2>1. con_shutdown_signal' \in BOOLEAN
    BY <1>44 DEF ShutdownJoins, Transmitter
  <2>2. QED
    BY <1>44, <2>1 DEF ShutdownJoins, vars, endpoint, destroying, command,
       stopping, barrier, poller, manager, app, others
<1>45. CASE WaitsDone("payload", "dec") \/ WaitsDone("app", "wait_exit")
  BY <1>45 DEF WaitsDone, Goto, vars, endpoint, destroying, command, stopping,
     barrier, poller, manager, app, others
<1>46. CASE WaitsDone("payload", "dec") \/ WaitsDone("app", "wait_exit")
  BY <1>46 DEF WaitsDone, Goto, vars, endpoint, destroying, command, stopping,
     barrier, poller, manager, app, others
<1>47. ASSUME NEW e \in Endpoints, DestroyCall(e)
      PROVE  SignalsOK'
  BY <1>47 DEF DestroyCall, vars, endpoint, destroying, command, stopping,
     barrier, poller, manager, app, others
<1>48. ASSUME NEW e \in Endpoints, DestroyQueues(e)
      PROVE  SignalsOK'
  BY <1>48 DEF DestroyQueues, vars, endpoint, destroying, command, stopping,
     barrier, poller, manager, app, others
<1>49. ASSUME NEW e \in Endpoints, DestroyNotifies(e)
      PROVE  SignalsOK'
  BY <1>49 DEF DestroyNotifies, vars, endpoint, destroying, command, stopping,
     barrier, poller, manager, app, others
<1>50. ASSUME NEW e \in Endpoints, DestroyWaits(e)
      PROVE  SignalsOK'
  BY <1>50 DEF DestroyWaits, vars, endpoint, destroying, command, stopping,
     barrier, poller, manager, app, others
<1>51. ASSUME NEW e \in Endpoints, DestroyChecks(e)
      PROVE  SignalsOK'
  BY <1>51 DEF DestroyChecks, DestroyGoesOn, vars, endpoint, destroying,
     command, stopping, barrier, poller, manager, app, others
<1>52. ASSUME NEW e \in Endpoints, SetCommand(e)
      PROVE  SignalsOK'
  <2>1. state_lock' \in BOOLEAN
    BY <1>52 DEF SetCommand, QueueCommand
  <2>2. QED
    BY <1>52, <2>1 DEF SetCommand, vars, endpoint, destroying, command,
       stopping, barrier, poller, manager, app, others
<1>53. ASSUME NEW e \in Endpoints, SetCommandSignal(e)
      PROVE  SignalsOK'
  <2>1. new_command_signal' \in BOOLEAN /\ state_lock' \in BOOLEAN
    BY <1>53 DEF SetCommandSignal, Announce
  <2>2. QED
    BY <1>53, <2>1 DEF SetCommandSignal, vars, endpoint, destroying, command,
       stopping, barrier, poller, manager, app, others
<1>54. ASSUME NEW e \in Endpoints, DestroyClears(e)
      PROVE  SignalsOK'
  <2>1. endpoints_destroyed_signal' \in BOOLEAN
    BY <1>54 DEF DestroyClears
  <2>2. QED
    BY <1>54, <2>1 DEF DestroyClears, vars, endpoint, destroying, command,
       stopping, barrier, poller, manager, app, others
<1>55. QED
  BY <1>1, <1>2, <1>3, <1>4, <1>5, <1>6, <1>7, <1>8, <1>9, <1>10, <1>11,
     <1>12, <1>13, <1>14, <1>15, <1>16, <1>17, <1>18, <1>19, <1>20, <1>21,
     <1>22, <1>23, <1>24, <1>25, <1>26, <1>27, <1>28, <1>29, <1>30, <1>31,
     <1>32, <1>33, <1>34, <1>35, <1>36, <1>37, <1>38, <1>39, <1>40, <1>41,
     <1>42, <1>43, <1>44, <1>45, <1>46, <1>47, <1>48, <1>49, <1>50, <1>51,
     <1>52, <1>53, <1>54 DEF Next, Poll, Counting, Payload, Manager, App,
     Destroyer

(* Every step keeps the types of the endpoints, and the command queues     *)
(* within their size.                                                      *)
LEMMA EndpointsPreserved ==
  ASSUME TypeOK, PointersInv, [Next]_vars
  PROVE  EndpointsOK'
<1> USE ManagerAssumption DEF TypeOK, EndpointsOK, PointersInv, Commands
<1>1. CASE UNCHANGED vars \/ Terminated
  BY <1>1 DEF Terminated, vars, endpoint, destroying, command, stopping,
     barrier, poller, manager, app, others
<1>2. CASE \/ PollPass \/ PollStops \/ PollDrained \/ PollDestroyed
           \/ PollNoCommand
  BY <1>2 DEF PollPass, PollStops, PollDrained, PollDestroyed, PollMayDestroy,
     PollNoCommand, Goto, vars, endpoint, destroying, command, stopping,
     barrier, poller, manager, app, others
<1>3. CASE PollCloses
  <2>1. ep_shutdown_signal' \in [Endpoints -> BOOLEAN]
    BY <1>3, ClosingKeepsTypes DEF PollCloses
  <2>2. destroy_queue' \in Seq(Endpoints)
    BY <1>3 DEF PollCloses, PollMayDestroy
  <2>3. QED
    BY <1>3, <2>1, <2>2 DEF PollCloses, others
<1>4. CASE PollClosed
  <2>1. p_closing \in Endpoints /\ Closed(p_closing)
    BY <1>4 DEF PollClosed
  <2>2. /\ endpoint_list' \in Seq(Endpoints) /\ command_queue' \in [Endpoints -> Seq(Commands)]
        /\ \A f \in Endpoints : Len(command_queue'[f]) <= QueueSize
    BY <2>1, ClosedShrinks, ClosedKeepsTypes
  <2>3. QED
    BY <1>4, <2>2 DEF PollClosed, destroying, others
<1>5. CASE \/ PollEnters \/ PollWaits \/ PollLeaves \/ PollPolled \/ PollNext
           \/ PollWakes
  BY <1>5 DEF PollEnters, PollWaits, PollLeaves, PollGoesOn, PollPolled,
     PollNext, PollWakes, Goto, vars, endpoint, destroying, command, stopping,
     barrier, poller, manager, app, others
<1>6. ASSUME NEW t \in {"poll", "payload"},
             \/ Increment(t) \/ IncrementClearsNew(t)
             \/ IncrementClearsRunning(t) \/ IncrementSetsWaiting(t)
             \/ Decrement(t) \/ DecrementClearsDone(t)
             \/ DecrementSetsRunning(t)
      PROVE  EndpointsOK'
  BY <1>6 DEF Increment, Goto, IncrementClearsNew, NewCommandKept,
     IncrementClearsRunning, IncrementSetsWaiting, Decrement, AfterDecrement,
     DecrementClearsDone, CommandDoneKept, DecrementSetsRunning, vars,
     endpoint, destroying, command, stopping, barrier, poller, manager, app,
     others
<1>7. CASE \/ PayloadTop \/ PayloadNotified \/ PayloadWaitsRunning
           \/ WorkArrives \/ ProbePacket
  BY <1>7 DEF PayloadTop, PayloadLeavesBy, PayloadNotified,
     PayloadWaitsRunning, WorkArrives, ProbePacket, Goto, vars, endpoint,
     destroying, command, stopping, barrier, poller, manager, app, others
<1>8. CASE \/ ManagerLoop \/ ManagerWakes \/ ManagerCounts \/ ManagerExecutes
           \/ ManagerNextEndpoint \/ ManagerDone \/ ManagerExits
  BY <1>8 DEF ManagerLoop, ManagerWakes, ManagerCounts, ManagerExecutes,
     ManagerNextEndpoint, ManagerDone, SetDone, ManagerExits, Goto, vars,
     endpoint, destroying, command, stopping, barrier, poller, manager, app,
     others
<1>9. CASE ManagerPops
  <2>1. m_ep \in Endpoints /\ command_queue[m_ep] \in Seq(Commands) /\ command_queue[m_ep] # <<>>
    BY <1>9 DEF ManagerPops
  <2>2. /\ Tail(command_queue[m_ep]) \in Seq(Commands)
        /\ Len(Tail(command_queue[m_ep])) = Len(command_queue[m_ep]) - 1
    BY <2>1
  <2>3. command_queue' = [command_queue EXCEPT ![m_ep] = Tail(command_queue[m_ep])]
    BY <1>9 DEF ManagerPops
  <2>4. /\ command_queue' \in [Endpoints -> Seq(Commands)]
        /\ \A f \in Endpoints : Len(command_queue'[f]) <= QueueSize
    BY <2>1, <2>2, <2>3
  <2>5. QED
    BY <1>9, <2>4 DEF ManagerPops, destroying, others
<1>10. CASE Shutdown \/ ShutdownSignal \/ ShutdownNext \/ ShutdownAdapter
  BY <1>10 DEF Shutdown, ShutdownSignal, Announce, ShutdownNext,
     ShutdownAdapter, Goto, vars, endpoint, destroying, command, stopping,
     barrier, poller, manager, app, others
<1>11. CASE ShutdownCommand
  <2>1. CASE ep_got_shutdown[a_ep]
    BY <1>11, <2>1 DEF ShutdownCommand, endpoint, destroying, others
  <2>2. CASE ~ep_got_shutdown[a_ep]
    <3>1. a_ep \in Endpoints /\ QueueCommand(a_ep, "Shutdown") /\ "Shutdown" \in Commands
      BY <1>11, <2>2 DEF ShutdownCommand
    <3>2. /\ command_queue' \in [Endpoints -> Seq(Commands)]
          /\ \A f \in Endpoints : Len(command_queue'[f]) <= QueueSize
          /\ got_new_command' \in [Endpoints -> BOOLEAN]
          /\ ep_got_shutdown' \in [Endpoints -> BOOLEAN]
      BY <3>1, QueueKeepsTypes
    <3>3. QED
      BY <1>11, <2>2, <3>2 DEF ShutdownCommand, destroying, others
  <2>3. QED
    BY <2>1, <2>2
<1>12. CASE ShutdownJoins \/ ShutdownManager \/ ShutdownEnds
  BY <1>12 DEF ShutdownJoins, ShutdownManager, ShutdownEnds, Goto, vars,
     endpoint, destroying, command, stopping, barrier, poller, manager, app,
     others
<1>13. CASE ShutdownCloses
  <2>1. ep_shutdown_signal' \in [Endpoints -> BOOLEAN]
    BY <1>13, ClosingKeepsTypes DEF ShutdownCloses
  <2>2. QED
    BY <1>13, <2>1 DEF ShutdownCloses, destroying, others
<1>14. CASE ShutdownClosed
  <2>1. a_ep \in Endpoints /\ Closed(a_ep)
    BY <1>14 DEF ShutdownClosed
  <2>2. /\ endpoint_list' \in Seq(Endpoints) /\ command_queue' \in [Endpoints -> Seq(Commands)]
        /\ \A f \in Endpoints : Len(command_queue'[f]) <= QueueSize
    BY <2>1, ClosedShrinks, ClosedKeepsTypes
  <2>3. QED
    BY <1>14, <2>2 DEF ShutdownClosed, destroying, others
<1>15. CASE WaitsDone("payload", "dec") \/ WaitsDone("app", "wait_exit")
  BY <1>15 DEF WaitsDone, Goto, vars, endpoint, destroying, command, stopping,
     barrier, poller, manager, app, others
<1>16. ASSUME NEW e \in Endpoints, SetCommand(e)
      PROVE  EndpointsOK'
  <2>1. PICK c \in Changes : QueueCommand(e, c)
    BY <1>16 DEF SetCommand
  <2>2. c \in Commands
    OBVIOUS
  <2>3. /\ command_queue' \in [Endpoints -> Seq(Commands)]
        /\ \A f \in Endpoints : Len(command_queue'[f]) <= QueueSize
        /\ got_new_command' \in [Endpoints -> BOOLEAN]
        /\ ep_got_shutdown' \in [Endpoints -> BOOLEAN]
    BY <2>1, <2>2, QueueKeepsTypes
  <2>4. QED
    BY <1>16, <2>3 DEF SetCommand, destroying
<1>17. ASSUME NEW e \in Endpoints, SetCommandSignal(e)
      PROVE  EndpointsOK'
  BY <1>17 DEF SetCommandSignal, Announce, vars, endpoint, destroying,
     command, stopping, barrier, poller, manager, app, others
<1>18. ASSUME NEW e \in Endpoints, DestroyCall(e)
      PROVE  EndpointsOK'
  BY <1>18 DEF DestroyCall, vars, endpoint, destroying, command, stopping,
     barrier, poller, manager, app, others
<1>19. ASSUME NEW e \in Endpoints, DestroyClears(e)
      PROVE  EndpointsOK'
  BY <1>19 DEF DestroyClears, vars, endpoint, destroying, command, stopping,
     barrier, poller, manager, app, others
<1>20. ASSUME NEW e \in Endpoints, DestroyQueues(e)
      PROVE  EndpointsOK'
  BY <1>20 DEF DestroyQueues, vars, endpoint, destroying, command, stopping,
     barrier, poller, manager, app, others
<1>21. ASSUME NEW e \in Endpoints, DestroyNotifies(e)
      PROVE  EndpointsOK'
  BY <1>21 DEF DestroyNotifies, vars, endpoint, destroying, command, stopping,
     barrier, poller, manager, app, others
<1>22. ASSUME NEW e \in Endpoints, DestroyWaits(e)
      PROVE  EndpointsOK'
  BY <1>22 DEF DestroyWaits, vars, endpoint, destroying, command, stopping,
     barrier, poller, manager, app, others
<1>23. ASSUME NEW e \in Endpoints, DestroyChecks(e)
      PROVE  EndpointsOK'
  BY <1>23 DEF DestroyChecks, DestroyGoesOn, vars, endpoint, destroying,
     command, stopping, barrier, poller, manager, app, others
<1>24. QED
  BY <1>1, <1>2, <1>3, <1>4, <1>5, <1>6, <1>7, <1>8, <1>9, <1>10, <1>11,
     <1>12, <1>13, <1>14, <1>15, <1>16, <1>17, <1>18, <1>19, <1>20, <1>21,
     <1>22, <1>23 DEF Next, Poll, Counting, Payload, Manager, App, Destroyer

(* Every step leaves a thread that works on an endpoint one to work on.    *)
LEMMA PointersPreserved ==
  ASSUME TypeOK, PointersInv, [Next]_vars
  PROVE  PointersInv'
<1> USE FirstIsMember, NextIsMember DEF TypeOK, ThreadsOK, PointersInv,
     EndpointOrNone, Threads, PollPoints, ManagerPoints, AppPoints,
     EndpointsOK
<1>1. CASE UNCHANGED vars \/ Terminated
  BY <1>1 DEF Terminated, vars, endpoint, destroying, command, stopping,
     barrier, poller, manager, app, others
<1>2. CASE \/ PollPass \/ PollStops \/ PollDrained \/ PollCloses \/ PollClosed
           \/ PollDestroyed \/ PollNoCommand
  BY <1>2 DEF PollPass, PollStops, PollDrained, PollCloses, Closing,
     PollMayDestroy, PollClosed, Closed, PollDestroyed, PollNoCommand, Goto,
     vars, endpoint, destroying, command, stopping, barrier, poller, manager,
     app, others
<1>3. CASE \/ PollEnters \/ PollWaits \/ PollLeaves \/ PollPolled \/ PollNext
           \/ PollWakes
  BY <1>3 DEF PollEnters, PollWaits, PollLeaves, PollGoesOn, PollPolled,
     PollNext, PollWakes, Goto, vars, endpoint, destroying, command, stopping,
     barrier, poller, manager, app, others
<1>4. ASSUME NEW t \in {"poll", "payload"},
             \/ Increment(t) \/ IncrementClearsNew(t)
             \/ IncrementClearsRunning(t) \/ IncrementSetsWaiting(t)
             \/ Decrement(t) \/ DecrementClearsDone(t)
             \/ DecrementSetsRunning(t)
      PROVE  PointersInv'
  BY <1>4 DEF Increment, Goto, IncrementClearsNew, NewCommandKept,
     IncrementClearsRunning, IncrementSetsWaiting, Decrement, AfterDecrement,
     DecrementClearsDone, CommandDoneKept, DecrementSetsRunning, vars,
     endpoint, destroying, command, stopping, barrier, poller, manager, app,
     others
<1>5. CASE \/ PayloadTop \/ PayloadNotified \/ PayloadWaitsRunning
           \/ WorkArrives \/ ProbePacket
  BY <1>5 DEF PayloadTop, PayloadLeavesBy, PayloadNotified,
     PayloadWaitsRunning, WorkArrives, ProbePacket, Goto, vars, endpoint,
     destroying, command, stopping, barrier, poller, manager, app, others
<1>6. CASE \/ ManagerLoop \/ ManagerWakes \/ ManagerPops \/ ManagerCounts
           \/ ManagerExecutes \/ ManagerNextEndpoint \/ ManagerDone
           \/ ManagerExits
  BY <1>6 DEF ManagerLoop, ManagerWakes, ManagerPops, ManagerCounts,
     ManagerExecutes, ManagerNextEndpoint, ManagerDone, SetDone, ManagerExits,
     Goto, vars, endpoint, destroying, command, stopping, barrier, poller,
     manager, app, others
<1>7. CASE \/ Shutdown \/ ShutdownCommand \/ ShutdownSignal \/ ShutdownNext
           \/ ShutdownAdapter
  BY <1>7 DEF Shutdown, ShutdownCommand, QueueCommand, QueueHasRoom,
     ShutdownSignal, Announce, ShutdownNext, ShutdownAdapter, Goto, vars,
     endpoint, destroying, command, stopping, barrier, poller, manager, app,
     others
<1>8. CASE \/ ShutdownJoins \/ ShutdownCloses \/ ShutdownClosed
           \/ ShutdownManager \/ ShutdownEnds
  BY <1>8 DEF ShutdownJoins, ShutdownCloses, Closing, ShutdownClosed, Closed,
     ShutdownManager, ShutdownEnds, Goto, vars, endpoint, destroying, command,
     stopping, barrier, poller, manager, app, others
<1>9. CASE WaitsDone("payload", "dec") \/ WaitsDone("app", "wait_exit")
  BY <1>9 DEF WaitsDone, Goto, vars, endpoint, destroying, command, stopping,
     barrier, poller, manager, app, others
<1>10. ASSUME NEW e \in Endpoints,
             \/ SetCommand(e) \/ SetCommandSignal(e) \/ DestroyCall(e)
             \/ DestroyClears(e) \/ DestroyQueues(e) \/ DestroyNotifies(e)
             \/ DestroyWaits(e) \/ DestroyChecks(e)
      PROVE  PointersInv'
  BY <1>10 DEF SetCommand, QueueCommand, QueueHasRoom, SetCommandSignal,
     Announce, DestroyCall, DestroyClears, DestroyQueues, DestroyNotifies,
     DestroyWaits, DestroyChecks, DestroyGoesOn, vars, endpoint, destroying,
     command, stopping, barrier, poller, manager, app, others
<1>11. QED
  BY <1>1, <1>2, <1>3, <1>4, <1>5, <1>6, <1>7, <1>8, <1>9, <1>10 DEF Next,
     Poll, Counting, Payload, Manager, App, Destroyer


(* The count of the barrier in numbers.                                    *)
InNumbers == thread_wait_count = (IF InBarrier("poll") THEN 1 ELSE 0)
                                   + (IF InBarrier("payload") THEN 1 ELSE 0)
(* Adding up the threads of the barrier gives its count.                   *)
LEMMA CountInNumbers ==
  /\ CountsThreadsInBarrier <=> InNumbers
  /\ CountsThreadsInBarrier' <=> InNumbers'
<1> DEFINE S == {t \in {"poll", "payload"} : InBarrier(t)}
<1>1. /\ "poll" \in S <=> InBarrier("poll")
      /\ "payload" \in S <=> InBarrier("payload")
      /\ S \in SUBSET {"poll", "payload"}
  OBVIOUS
<1>2. /\ "poll" \in S' <=> InBarrier("poll")'
      /\ "payload" \in S' <=> InBarrier("payload")'
      /\ S' \in SUBSET {"poll", "payload"}
  OBVIOUS
<1>3. /\ CountsThreadsInBarrier <=> thread_wait_count = Cardinality(S)
      /\ CountsThreadsInBarrier' <=> thread_wait_count' = Cardinality(S')
  BY DEF CountsThreadsInBarrier
<1> HIDE DEF S
<1>4. /\ Cardinality(S) = (IF "poll" \in S THEN 1 ELSE 0) + (IF "payload" \in S THEN 1 ELSE 0)
      /\ Cardinality(S') = (IF "poll" \in S' THEN 1 ELSE 0) + (IF "payload" \in S' THEN 1 ELSE 0)
  BY <1>1, <1>2, TwoThreads
<1>5. QED
  BY <1>1, <1>2, <1>3, <1>4 DEF InNumbers

(* What SetCommand and DestroyEndpoint do to the number of commands.       *)
LEMMA QueuedArePlaces ==
  /\ Queued = Places(command_queue) /\ Queued' = Places(command_queue')
  /\ TypeOK => command_queue \in Queues
BY DEF Queued, Places, Queues, TypeOK, EndpointsOK

(* SetCommand counts the command it queues.                                *)
LEMMA QueueCounts ==
  ASSUME TypeOK, NEW e \in Endpoints, NEW c \in Commands, QueueCommand(e, c)
  PROVE  queued_commands_count' - Cardinality(Queued') = queued_commands_count - Cardinality(Queued)
<1>1. queued_commands_count \in Int /\ Cardinality(Queued) \in Nat
  BY QueuedArePlaces, PlacesFinite DEF TypeOK, ThreadsOK
<1>2. CASE QueueHasRoom(e)
  <2>1. /\ command_queue' = [command_queue EXCEPT ![e] = Append(command_queue[e], c)]
        /\ queued_commands_count' = queued_commands_count + 1
    BY <1>2 DEF QueueCommand
  <2>2. command_queue' \in Queues
    BY QueueKeepsTypes DEF Queues
  <2>3. /\ Len(command_queue'[e]) = Len(command_queue[e]) + 1
        /\ \A f \in Endpoints \ {e} : Len(command_queue'[f]) = Len(command_queue[f])
    BY <2>1 DEF TypeOK, EndpointsOK
  <2>4. Cardinality(Places(command_queue')) = Cardinality(Places(command_queue)) + 1
    BY <2>2, <2>3, PlaceAdded, QueuedArePlaces
  <2>5. QED
    BY <1>1, <2>1, <2>4, QueuedArePlaces
<1>3. CASE ~QueueHasRoom(e)
  BY <1>3, QueuedArePlaces DEF QueueCommand
<1>4. QED
  BY <1>2, <1>3

(* DestroyEndpoint counts out the commands it throws away.                 *)
LEMMA ClosedCounts ==
  ASSUME TypeOK, NEW e \in Endpoints, Closed(e)
  PROVE  queued_commands_count' - Cardinality(Queued') = queued_commands_count - Cardinality(Queued)
<1>1. /\ queued_commands_count \in Int /\ Cardinality(Queued) \in Nat
      /\ Len(command_queue[e]) \in Nat
  BY QueuedArePlaces, PlacesFinite DEF TypeOK, ThreadsOK, EndpointsOK
<1>2. /\ command_queue' = [command_queue EXCEPT ![e] = <<>>]
      /\ queued_commands_count' = queued_commands_count - Len(command_queue[e])
  BY DEF Closed
<1>3. command_queue' \in Queues
  BY ClosedKeepsTypes DEF Queues
<1>4. /\ Len(command_queue'[e]) = 0
      /\ \A f \in Endpoints \ {e} : Len(command_queue'[f]) = Len(command_queue[f])
  BY <1>2 DEF TypeOK, EndpointsOK
<1>5. Cardinality(Places(command_queue'))
        = Cardinality(Places(command_queue)) - Len(command_queue[e])
  BY <1>3, <1>4, PlacesFreed, QueuedArePlaces
<1>6. QED
  BY <1>1, <1>2, <1>5, QueuedArePlaces

(* Every step keeps what the threads' flags, the end of the Endpoint       *)
(* Manager thread and the shutdown say of each other.                      *)
LEMMA ControlPreserved ==
  ASSUME IInv, [Next]_vars
  PROVE  FlagInv' /\ DoneInv' /\ ShutdownInv'
<1> USE DEF IInv, TypeOK, ThreadsOK, FlagInv, DoneInv, ShutdownInv,
     PollPoints, PayloadPoints, ManagerPoints, AppPoints, Commands, Threads,
     EndpointOrNone, Entering, Leaving
<1>1. CASE UNCHANGED vars \/ Terminated
  BY <1>1 DEF Terminated, vars, endpoint, destroying, command, stopping,
     barrier, poller, manager, app, others
<1>2. CASE \/ PollPass \/ PollStops \/ PollDrained \/ PollCloses \/ PollClosed
           \/ PollDestroyed \/ PollNoCommand
  BY <1>2 DEF PollPass, PollStops, PollDrained, PollCloses, Closing,
     PollMayDestroy, PollClosed, Closed, PollDestroyed, PollNoCommand, Goto,
     vars, endpoint, destroying, command, stopping, barrier, poller, manager,
     app, others
<1>3. CASE PollEnters \/ PollWaits \/ PollLeaves
  BY <1>3 DEF PollEnters, PollWaits, PollLeaves, PollGoesOn, Goto, vars,
     endpoint, destroying, command, stopping, barrier, poller, manager, app,
     others
<1>4. CASE PollPolled
  BY <1>4 DEF PollPolled, Goto, vars, endpoint, destroying, command, stopping,
     barrier, poller, manager, app, others
<1>5. CASE PollNext
  BY <1>5 DEF PollNext, Goto, vars, endpoint, destroying, command, stopping,
     barrier, poller, manager, app, others
<1>6. CASE PollWakes
  BY <1>6 DEF PollWakes, Goto, vars, endpoint, destroying, command, stopping,
     barrier, poller, manager, app, others
<1>7. ASSUME NEW t \in {"poll", "payload"}, Increment(t)
      PROVE  FlagInv' /\ DoneInv' /\ ShutdownInv'
  BY <1>7 DEF Increment, Goto, vars, endpoint, destroying, command, stopping,
     barrier, poller, manager, app, others
<1>8. ASSUME NEW t \in {"poll", "payload"}, IncrementClearsNew(t)
      PROVE  FlagInv' /\ DoneInv' /\ ShutdownInv'
  BY <1>8 DEF IncrementClearsNew, NewCommandKept, Goto, vars, endpoint,
     destroying, command, stopping, barrier, poller, manager, app, others
<1>9. ASSUME NEW t \in {"poll", "payload"}, IncrementClearsRunning(t)
      PROVE  FlagInv' /\ DoneInv' /\ ShutdownInv'
  BY <1>9 DEF IncrementClearsRunning, Goto, vars, endpoint, destroying,
     command, stopping, barrier, poller, manager, app, others
<1>10. ASSUME NEW t \in {"poll", "payload"}, IncrementSetsWaiting(t)
      PROVE  FlagInv' /\ DoneInv' /\ ShutdownInv'
  BY <1>10 DEF IncrementSetsWaiting, Goto, vars, endpoint, destroying,
     command, stopping, barrier, poller, manager, app, others
<1>11. ASSUME NEW t \in {"poll", "payload"}, Decrement(t)
      PROVE  FlagInv' /\ DoneInv' /\ ShutdownInv'
  BY <1>11 DEF Decrement, AfterDecrement, Goto, vars, endpoint, destroying,
     command, stopping, barrier, poller, manager, app, others
<1>12. ASSUME NEW t \in {"poll", "payload"}, DecrementClearsDone(t)
      PROVE  FlagInv' /\ DoneInv' /\ ShutdownInv'
  BY <1>12 DEF DecrementClearsDone, CommandDoneKept, Goto, vars, endpoint,
     destroying, command, stopping, barrier, poller, manager, app, others
<1>13. ASSUME NEW t \in {"poll", "payload"}, DecrementSetsRunning(t)
      PROVE  FlagInv' /\ DoneInv' /\ ShutdownInv'
  BY <1>13 DEF DecrementSetsRunning, AfterDecrement, Goto, vars, endpoint,
     destroying, command, stopping, barrier, poller, manager, app, others
<1>14. CASE \/ PayloadTop \/ PayloadNotified \/ PayloadWaitsRunning
           \/ WorkArrives \/ ProbePacket
  BY <1>14 DEF PayloadTop, PayloadLeavesBy, PayloadNotified,
     PayloadWaitsRunning, WorkArrives, ProbePacket, Goto, vars, endpoint,
     destroying, command, stopping, barrier, poller, manager, app, others
<1>15. CASE \/ ManagerLoop \/ ManagerWakes \/ ManagerPops \/ ManagerCounts
           \/ ManagerExecutes \/ ManagerNextEndpoint \/ ManagerDone
           \/ ManagerExits
  BY <1>15 DEF ManagerLoop, ManagerWakes, ManagerPops, ManagerCounts,
     ManagerExecutes, ManagerNextEndpoint, ManagerDone, SetDone, ManagerExits,
     Goto, vars, endpoint, destroying, command, stopping, barrier, poller,
     manager, app, others
<1>16. CASE \/ Shutdown \/ ShutdownCommand \/ ShutdownSignal \/ ShutdownNext
           \/ ShutdownAdapter
  BY <1>16 DEF Shutdown, ShutdownCommand, QueueCommand, QueueHasRoom,
     ShutdownSignal, Announce, ShutdownNext, ShutdownAdapter, Goto, vars,
     endpoint, destroying, command, stopping, barrier, poller, manager, app,
     others
<1>17. CASE \/ ShutdownJoins \/ ShutdownCloses \/ ShutdownClosed
           \/ ShutdownManager \/ ShutdownEnds
  BY <1>17 DEF ShutdownJoins, ShutdownCloses, Closing, ShutdownClosed, Closed,
     ShutdownManager, ShutdownEnds, Goto, vars, endpoint, destroying, command,
     stopping, barrier, poller, manager, app, others
<1>18. CASE WaitsDone("payload", "dec") \/ WaitsDone("app", "wait_exit")
  BY <1>18 DEF WaitsDone, Goto, vars, endpoint, destroying, command, stopping,
     barrier, poller, manager, app, others
<1>19. ASSUME NEW e \in Endpoints,
             \/ SetCommand(e) \/ SetCommandSignal(e) \/ DestroyCall(e)
             \/ DestroyClears(e) \/ DestroyQueues(e) \/ DestroyNotifies(e)
             \/ DestroyWaits(e) \/ DestroyChecks(e)
      PROVE  FlagInv' /\ DoneInv' /\ ShutdownInv'
  BY <1>19 DEF SetCommand, QueueCommand, QueueHasRoom, SetCommandSignal,
     Announce, DestroyCall, DestroyClears, DestroyQueues, DestroyNotifies,
     DestroyWaits, DestroyChecks, DestroyGoesOn, vars, endpoint, destroying,
     command, stopping, barrier, poller, manager, app, others
<1>20. QED
  BY <1>1, <1>2, <1>3, <1>4, <1>5, <1>6, <1>7, <1>8, <1>9, <1>10, <1>11,
     <1>12, <1>13, <1>14, <1>15, <1>16, <1>17, <1>18, <1>19 DEF Next, Poll,
     Counting, Payload, Manager, App, Destroyer

(* No step puts an endpoint back into the list.                            *)
LEMMA ListShrinks ==
  ASSUME TypeOK, PointersInv, [Next]_vars
  PROVE  \A f \in Endpoints : InList(f)' => InList(f)
<1> USE ClosedShrinks DEF PointersInv, InList
<1>1. CASE UNCHANGED vars \/ Terminated
  BY <1>1 DEF Terminated, vars, endpoint, destroying, command, stopping,
     barrier, poller, manager, app, others
<1>2. CASE \/ PollPass \/ PollStops \/ PollDrained \/ PollCloses
           \/ PollDestroyed \/ PollNoCommand
  BY <1>2 DEF PollPass, PollStops, PollDrained, PollCloses, Closing,
     PollMayDestroy, PollDestroyed, PollNoCommand, Goto, vars, endpoint,
     destroying, command, stopping, barrier, poller, manager, app, others
<1>3. CASE PollClosed
  BY <1>3, ClosedShrinks DEF PollClosed
<1>4. CASE \/ PollEnters \/ PollWaits \/ PollLeaves \/ PollPolled \/ PollNext
           \/ PollWakes
  BY <1>4 DEF PollEnters, PollWaits, PollLeaves, PollGoesOn, PollPolled,
     PollNext, PollWakes, Goto, vars, endpoint, destroying, command, stopping,
     barrier, poller, manager, app, others
<1>5. ASSUME NEW t \in {"poll", "payload"},
             \/ Increment(t) \/ IncrementClearsNew(t)
             \/ IncrementClearsRunning(t) \/ IncrementSetsWaiting(t)
             \/ Decrement(t) \/ DecrementClearsDone(t)
             \/ DecrementSetsRunning(t)
      PROVE  \A f \in Endpoints : InList(f)' => InList(f)
  BY <1>5 DEF Increment, Goto, IncrementClearsNew, NewCommandKept,
     IncrementClearsRunning, IncrementSetsWaiting, Decrement, AfterDecrement,
     DecrementClearsDone, CommandDoneKept, DecrementSetsRunning, vars,
     endpoint, destroying, command, stopping, barrier, poller, manager, app,
     others
<1>6. CASE \/ PayloadTop \/ PayloadNotified \/ PayloadWaitsRunning
           \/ WorkArrives \/ ProbePacket
  BY <1>6 DEF PayloadTop, PayloadLeavesBy, PayloadNotified,
     PayloadWaitsRunning, WorkArrives, ProbePacket, Goto, vars, endpoint,
     destroying, command, stopping, barrier, poller, manager, app, others
<1>7. CASE \/ ManagerLoop \/ ManagerWakes \/ ManagerPops \/ ManagerCounts
           \/ ManagerExecutes \/ ManagerNextEndpoint \/ ManagerDone
           \/ ManagerExits
  BY <1>7 DEF ManagerLoop, ManagerWakes, ManagerPops, ManagerCounts,
     ManagerExecutes, ManagerNextEndpoint, ManagerDone, SetDone, ManagerExits,
     Goto, vars, endpoint, destroying, command, stopping, barrier, poller,
     manager, app, others
<1>8. CASE \/ Shutdown \/ ShutdownCommand \/ ShutdownSignal \/ ShutdownNext
           \/ ShutdownAdapter
  BY <1>8 DEF Shutdown, ShutdownCommand, QueueCommand, QueueHasRoom,
     ShutdownSignal, Announce, ShutdownNext, ShutdownAdapter, Goto, vars,
     endpoint, destroying, command, stopping, barrier, poller, manager, app,
     others
<1>9. CASE ShutdownJoins \/ ShutdownCloses \/ ShutdownManager \/ ShutdownEnds
  BY <1>9 DEF ShutdownJoins, ShutdownCloses, Closing, ShutdownManager,
     ShutdownEnds, Goto, vars, endpoint, destroying, command, stopping,
     barrier, poller, manager, app, others
<1>10. CASE ShutdownClosed
  BY <1>10, ClosedShrinks DEF ShutdownClosed
<1>11. CASE WaitsDone("payload", "dec") \/ WaitsDone("app", "wait_exit")
  BY <1>11 DEF WaitsDone, Goto, vars, endpoint, destroying, command, stopping,
     barrier, poller, manager, app, others
<1>12. ASSUME NEW e \in Endpoints,
             \/ SetCommand(e) \/ SetCommandSignal(e) \/ DestroyCall(e)
             \/ DestroyClears(e) \/ DestroyQueues(e) \/ DestroyNotifies(e)
             \/ DestroyWaits(e) \/ DestroyChecks(e)
      PROVE  \A f \in Endpoints : InList(f)' => InList(f)
  BY <1>12 DEF SetCommand, QueueCommand, QueueHasRoom, SetCommandSignal,
     Announce, DestroyCall, DestroyClears, DestroyQueues, DestroyNotifies,
     DestroyWaits, DestroyChecks, DestroyGoesOn, vars, endpoint, destroying,
     command, stopping, barrier, poller, manager, app, others
<1>13. QED
  BY <1>1, <1>2, <1>3, <1>4, <1>5, <1>6, <1>7, <1>8, <1>9, <1>10, <1>11, <1>12
     DEF Next, Poll, Counting, Payload, Manager, App, Destroyer

(* Every step keeps destroyed endpoints out of the list.                   *)
LEMMA DestroyedPreserved ==
  ASSUME IInv, [Next]_vars
  PROVE  DestroyedIsGone'
<1> USE ListShrinks DEF IInv, TypeOK, EndpointsOK, ShutdownInv,
     DestroyedIsGone
<1>1. CASE UNCHANGED vars \/ Terminated
  BY <1>1 DEF Terminated, vars, endpoint, destroying, command, stopping,
     barrier, poller, manager, app, others
<1>2. CASE PollPass
  BY <1>2 DEF PollPass, Goto, vars, endpoint, destroying, command, stopping,
     barrier, poller, manager, app, others
<1>3. CASE PollStops
  BY <1>3 DEF PollStops, Goto, vars, endpoint, destroying, command, stopping,
     barrier, poller, manager, app, others
<1>4. CASE PollDrained
  BY <1>4 DEF PollDrained, Goto, vars, endpoint, destroying, command,
     stopping, barrier, poller, manager, app, others
<1>5. CASE PollCloses
  BY <1>5 DEF PollCloses, Closing, PollMayDestroy, Goto, vars, endpoint,
     destroying, command, stopping, barrier, poller, manager, app, others
<1>6. CASE PollClosed
  BY <1>6 DEF PollClosed, Closed, Goto, vars, endpoint, destroying, command,
     stopping, barrier, poller, manager, app, others
<1>7. CASE PollDestroyed
  BY <1>7 DEF PollDestroyed, PollMayDestroy, Goto, vars, endpoint, destroying,
     command, stopping, barrier, poller, manager, app, others
<1>8. CASE PollNoCommand
  BY <1>8 DEF PollNoCommand, Goto, vars, endpoint, destroying, command,
     stopping, barrier, poller, manager, app, others
<1>9. CASE \/ PollEnters \/ PollWaits \/ PollLeaves \/ PollPolled \/ PollNext
           \/ PollWakes
  BY <1>9 DEF PollEnters, PollWaits, PollLeaves, PollGoesOn, PollPolled,
     PollNext, PollWakes, Goto, vars, endpoint, destroying, command, stopping,
     barrier, poller, manager, app, others
<1>10. ASSUME NEW t \in {"poll", "payload"},
             \/ Increment(t) \/ IncrementClearsNew(t)
             \/ IncrementClearsRunning(t) \/ IncrementSetsWaiting(t)
             \/ Decrement(t) \/ DecrementClearsDone(t)
             \/ DecrementSetsRunning(t)
      PROVE  DestroyedIsGone'
  BY <1>10 DEF Increment, Goto, IncrementClearsNew, NewCommandKept,
     IncrementClearsRunning, IncrementSetsWaiting, Decrement, AfterDecrement,
     DecrementClearsDone, CommandDoneKept, DecrementSetsRunning, vars,
     endpoint, destroying, command, stopping, barrier, poller, manager, app,
     others
<1>11. CASE \/ PayloadTop \/ PayloadNotified \/ PayloadWaitsRunning
           \/ WorkArrives \/ ProbePacket
  BY <1>11 DEF PayloadTop, PayloadLeavesBy, PayloadNotified,
     PayloadWaitsRunning, WorkArrives, ProbePacket, Goto, vars, endpoint,
     destroying, command, stopping, barrier, poller, manager, app, others
<1>12. CASE \/ ManagerLoop \/ ManagerWakes \/ ManagerPops \/ ManagerCounts
           \/ ManagerExecutes \/ ManagerNextEndpoint \/ ManagerDone
           \/ ManagerExits
  BY <1>12 DEF ManagerLoop, ManagerWakes, ManagerPops, ManagerCounts,
     ManagerExecutes, ManagerNextEndpoint, ManagerDone, SetDone, ManagerExits,
     Goto, vars, endpoint, destroying, command, stopping, barrier, poller,
     manager, app, others
<1>13. CASE \/ Shutdown \/ ShutdownCommand \/ ShutdownSignal \/ ShutdownNext
           \/ ShutdownAdapter
  BY <1>13 DEF Shutdown, ShutdownCommand, QueueCommand, QueueHasRoom,
     ShutdownSignal, Announce, ShutdownNext, ShutdownAdapter, Goto, vars,
     endpoint, destroying, command, stopping, barrier, poller, manager, app,
     others
<1>14. CASE ShutdownJoins
  BY <1>14 DEF ShutdownJoins, Goto, vars, endpoint, destroying, command,
     stopping, barrier, poller, manager, app, others
<1>15. CASE ShutdownCloses
  BY <1>15 DEF ShutdownCloses, Closing, Goto, vars, endpoint, destroying,
     command, stopping, barrier, poller, manager, app, others
<1>16. CASE ShutdownClosed
  BY <1>16 DEF ShutdownClosed, Closed, Goto, vars, endpoint, destroying,
     command, stopping, barrier, poller, manager, app, others
<1>17. CASE ShutdownManager
  BY <1>17 DEF ShutdownManager, Goto, vars, endpoint, destroying, command,
     stopping, barrier, poller, manager, app, others
<1>18. CASE ShutdownEnds
  BY <1>18 DEF ShutdownEnds, Goto, vars, endpoint, destroying, command,
     stopping, barrier, poller, manager, app, others
<1>19. CASE WaitsDone("payload", "dec") \/ WaitsDone("app", "wait_exit")
  BY <1>19 DEF WaitsDone, Goto, vars, endpoint, destroying, command, stopping,
     barrier, poller, manager, app, others
<1>20. ASSUME NEW e \in Endpoints,
             \/ SetCommand(e) \/ SetCommandSignal(e) \/ DestroyCall(e)
             \/ DestroyClears(e) \/ DestroyQueues(e) \/ DestroyNotifies(e)
             \/ DestroyWaits(e) \/ DestroyChecks(e)
      PROVE  DestroyedIsGone'
  BY <1>20 DEF SetCommand, QueueCommand, QueueHasRoom, SetCommandSignal,
     Announce, DestroyCall, DestroyClears, DestroyQueues, DestroyNotifies,
     DestroyWaits, DestroyChecks, DestroyGoesOn, vars, endpoint, destroying,
     command, stopping, barrier, poller, manager, app, others
<1>21. QED
  BY <1>1, <1>2, <1>3, <1>4, <1>5, <1>6, <1>7, <1>8, <1>9, <1>10, <1>11,
     <1>12, <1>13, <1>14, <1>15, <1>16, <1>17, <1>18, <1>19, <1>20 DEF Next,
     Poll, Counting, Payload, Manager, App, Destroyer

(* Every step keeps the count of the threads in the barrier exact.         *)
LEMMA BarrierPreserved ==
  ASSUME IInv, [Next]_vars
  PROVE  InNumbers'
<1> USE CountInNumbers DEF IInv, TypeOK, ThreadsOK, FlagInv, InNumbers,
     InBarrier, PollPoints, PayloadPoints, ManagerPoints, AppPoints, Commands,
     Threads, EndpointOrNone, Entering, Leaving
<1>1. CASE UNCHANGED vars \/ Terminated
  BY <1>1 DEF Terminated, vars, endpoint, destroying, command, stopping,
     barrier, poller, manager, app, others
<1>2. CASE \/ PollPass \/ PollStops \/ PollDrained \/ PollCloses \/ PollClosed
           \/ PollDestroyed \/ PollNoCommand
  BY <1>2 DEF PollPass, PollStops, PollDrained, PollCloses, Closing,
     PollMayDestroy, PollClosed, Closed, PollDestroyed, PollNoCommand, Goto,
     vars, endpoint, destroying, command, stopping, barrier, poller, manager,
     app, others
<1>3. CASE \/ PollEnters \/ PollWaits \/ PollLeaves \/ PollPolled \/ PollNext
           \/ PollWakes
  BY <1>3 DEF PollEnters, PollWaits, PollLeaves, PollGoesOn, PollPolled,
     PollNext, PollWakes, Goto, vars, endpoint, destroying, command, stopping,
     barrier, poller, manager, app, others
<1>4. ASSUME NEW t \in {"poll", "payload"},
             \/ Increment(t) \/ IncrementClearsNew(t)
             \/ IncrementClearsRunning(t) \/ IncrementSetsWaiting(t)
             \/ Decrement(t) \/ DecrementClearsDone(t)
             \/ DecrementSetsRunning(t)
      PROVE  InNumbers'
  BY <1>4 DEF Increment, Goto, IncrementClearsNew, NewCommandKept,
     IncrementClearsRunning, IncrementSetsWaiting, Decrement, AfterDecrement,
     DecrementClearsDone, CommandDoneKept, DecrementSetsRunning, vars,
     endpoint, destroying, command, stopping, barrier, poller, manager, app,
     others
<1>5. CASE \/ PayloadTop \/ PayloadNotified \/ PayloadWaitsRunning
           \/ WorkArrives \/ ProbePacket
  BY <1>5 DEF PayloadTop, PayloadLeavesBy, PayloadNotified,
     PayloadWaitsRunning, WorkArrives, ProbePacket, Goto, vars, endpoint,
     destroying, command, stopping, barrier, poller, manager, app, others
<1>6. CASE \/ ManagerLoop \/ ManagerWakes \/ ManagerPops \/ ManagerCounts
           \/ ManagerExecutes \/ ManagerNextEndpoint \/ ManagerDone
           \/ ManagerExits
  BY <1>6 DEF ManagerLoop, ManagerWakes, ManagerPops, ManagerCounts,
     ManagerExecutes, ManagerNextEndpoint, ManagerDone, SetDone, ManagerExits,
     Goto, vars, endpoint, destroying, command, stopping, barrier, poller,
     manager, app, others
<1>7. CASE \/ Shutdown \/ ShutdownCommand \/ ShutdownSignal \/ ShutdownNext
           \/ ShutdownAdapter
  BY <1>7 DEF Shutdown, ShutdownCommand, QueueCommand, QueueHasRoom,
     ShutdownSignal, Announce, ShutdownNext, ShutdownAdapter, Goto, vars,
     endpoint, destroying, command, stopping, barrier, poller, manager, app,
     others
<1>8. CASE \/ ShutdownJoins \/ ShutdownCloses \/ ShutdownClosed
           \/ ShutdownManager \/ ShutdownEnds
  BY <1>8 DEF ShutdownJoins, ShutdownCloses, Closing, ShutdownClosed, Closed,
     ShutdownManager, ShutdownEnds, Goto, vars, endpoint, destroying, command,
     stopping, barrier, poller, manager, app, others
<1>9. CASE WaitsDone("payload", "dec") \/ WaitsDone("app", "wait_exit")
  BY <1>9 DEF WaitsDone, Goto, vars, endpoint, destroying, command, stopping,
     barrier, poller, manager, app, others
<1>10. ASSUME NEW e \in Endpoints,
             \/ SetCommand(e) \/ SetCommandSignal(e) \/ DestroyCall(e)
             \/ DestroyClears(e) \/ DestroyQueues(e) \/ DestroyNotifies(e)
             \/ DestroyWaits(e) \/ DestroyChecks(e)
      PROVE  InNumbers'
  BY <1>10 DEF SetCommand, QueueCommand, QueueHasRoom, SetCommandSignal,
     Announce, DestroyCall, DestroyClears, DestroyQueues, DestroyNotifies,
     DestroyWaits, DestroyChecks, DestroyGoesOn, vars, endpoint, destroying,
     command, stopping, barrier, poller, manager, app, others
<1>11. QED
  BY <1>1, <1>2, <1>3, <1>4, <1>5, <1>6, <1>7, <1>8, <1>9, <1>10 DEF Next,
     Poll, Counting, Payload, Manager, App, Destroyer

(* Every step keeps the order of a round: its signals and the places of    *)
(* the poll thread of a receiver.                                          *)
LEMMA RoundPreserved ==
  ASSUME IInv, [Next]_vars
  PROVE  RoundInv'
<1> USE CountInNumbers DEF IInv, TypeOK, ThreadsOK, FlagInv, DoneInv,
     ShutdownInv, InNumbers, InBarrier, RoundInv, Transmitter, Busy, Working,
     Processing, PollPoints, PayloadPoints, ManagerPoints, AppPoints,
     Commands, Threads, EndpointOrNone, Entering, Leaving
<1>1. CASE UNCHANGED vars \/ Terminated
  BY <1>1 DEF Terminated, vars, endpoint, destroying, command, stopping,
     barrier, poller, manager, app, others
<1>2. CASE PollPass
  BY <1>2 DEF PollPass, Goto, vars, endpoint, destroying, command, stopping,
     barrier, poller, manager, app, others
<1>3. CASE PollStops
  BY <1>3 DEF PollStops, Goto, vars, endpoint, destroying, command, stopping,
     barrier, poller, manager, app, others
<1>4. CASE PollDrained
  BY <1>4 DEF PollDrained, Goto, vars, endpoint, destroying, command,
     stopping, barrier, poller, manager, app, others
<1>5. CASE PollCloses
  BY <1>5 DEF PollCloses, Closing, PollMayDestroy, Goto, vars, endpoint,
     destroying, command, stopping, barrier, poller, manager, app, others
<1>6. CASE PollClosed
  BY <1>6 DEF PollClosed, Closed, Goto, vars, endpoint, destroying, command,
     stopping, barrier, poller, manager, app, others
<1>7. CASE PollDestroyed
  BY <1>7 DEF PollDestroyed, PollMayDestroy, Goto, vars, endpoint, destroying,
     command, stopping, barrier, poller, manager, app, others
<1>8. CASE PollNoCommand
  BY <1>8 DEF PollNoCommand, Goto, vars, endpoint, destroying, command,
     stopping, barrier, poller, manager, app, others
<1>9. CASE \/ PollEnters \/ PollWaits \/ PollLeaves \/ PollPolled \/ PollNext
           \/ PollWakes
  BY <1>9 DEF PollEnters, PollWaits, PollLeaves, PollGoesOn, PollPolled,
     PollNext, PollWakes, Goto, vars, endpoint, destroying, command, stopping,
     barrier, poller, manager, app, others
<1>10. ASSUME NEW t \in {"poll", "payload"}, Increment(t)
      PROVE  RoundInv'
  BY <1>10 DEF Increment, Goto, vars, endpoint, destroying, command, stopping,
     barrier, poller, manager, app, others
<1>11. ASSUME NEW t \in {"poll", "payload"}, IncrementClearsNew(t)
      PROVE  RoundInv'
  BY <1>11 DEF IncrementClearsNew, NewCommandKept, Goto, vars, endpoint,
     destroying, command, stopping, barrier, poller, manager, app, others
<1>12. ASSUME NEW t \in {"poll", "payload"}, IncrementClearsRunning(t)
      PROVE  RoundInv'
  BY <1>12 DEF IncrementClearsRunning, Goto, vars, endpoint, destroying,
     command, stopping, barrier, poller, manager, app, others
<1>13. ASSUME NEW t \in {"poll", "payload"}, IncrementSetsWaiting(t)
      PROVE  RoundInv'
  BY <1>13 DEF IncrementSetsWaiting, Goto, vars, endpoint, destroying,
     command, stopping, barrier, poller, manager, app, others
<1>14. ASSUME NEW t \in {"poll", "payload"}, Decrement(t)
      PROVE  RoundInv'
  BY <1>14 DEF Decrement, AfterDecrement, Goto, vars, endpoint, destroying,
     command, stopping, barrier, poller, manager, app, others
<1>15. ASSUME NEW t \in {"poll", "payload"}, DecrementClearsDone(t)
      PROVE  RoundInv'
  BY <1>15 DEF DecrementClearsDone, CommandDoneKept, Goto, vars, endpoint,
     destroying, command, stopping, barrier, poller, manager, app, others
<1>16. ASSUME NEW t \in {"poll", "payload"}, DecrementSetsRunning(t)
      PROVE  RoundInv'
  BY <1>16 DEF DecrementSetsRunning, AfterDecrement, Goto, vars, endpoint,
     destroying, command, stopping, barrier, poller, manager, app, others
<1>17. CASE \/ PayloadTop \/ PayloadNotified \/ PayloadWaitsRunning
           \/ WorkArrives \/ ProbePacket
  BY <1>17 DEF PayloadTop, PayloadLeavesBy, PayloadNotified,
     PayloadWaitsRunning, WorkArrives, ProbePacket, Goto, vars, endpoint,
     destroying, command, stopping, barrier, poller, manager, app, others
<1>18. CASE \/ ManagerLoop \/ ManagerWakes \/ ManagerPops \/ ManagerCounts
           \/ ManagerExecutes \/ ManagerNextEndpoint \/ ManagerDone
           \/ ManagerExits
  BY <1>18 DEF ManagerLoop, ManagerWakes, ManagerPops, ManagerCounts,
     ManagerExecutes, ManagerNextEndpoint, ManagerDone, SetDone, ManagerExits,
     Goto, vars, endpoint, destroying, command, stopping, barrier, poller,
     manager, app, others
<1>19. CASE \/ Shutdown \/ ShutdownCommand \/ ShutdownSignal \/ ShutdownNext
           \/ ShutdownAdapter
  BY <1>19 DEF Shutdown, ShutdownCommand, QueueCommand, QueueHasRoom,
     ShutdownSignal, Announce, ShutdownNext, ShutdownAdapter, Goto, vars,
     endpoint, destroying, command, stopping, barrier, poller, manager, app,
     others
<1>20. CASE ShutdownJoins
  BY <1>20 DEF ShutdownJoins, Goto, vars, endpoint, destroying, command,
     stopping, barrier, poller, manager, app, others
<1>21. CASE ShutdownCloses
  BY <1>21 DEF ShutdownCloses, Closing, Goto, vars, endpoint, destroying,
     command, stopping, barrier, poller, manager, app, others
<1>22. CASE ShutdownClosed
  BY <1>22 DEF ShutdownClosed, Closed, Goto, vars, endpoint, destroying,
     command, stopping, barrier, poller, manager, app, others
<1>23. CASE ShutdownManager
  BY <1>23 DEF ShutdownManager, Goto, vars, endpoint, destroying, command,
     stopping, barrier, poller, manager, app, others
<1>24. CASE ShutdownEnds
  BY <1>24 DEF ShutdownEnds, Goto, vars, endpoint, destroying, command,
     stopping, barrier, poller, manager, app, others
<1>25. CASE WaitsDone("payload", "dec") \/ WaitsDone("app", "wait_exit")
  BY <1>25 DEF WaitsDone, Goto, vars, endpoint, destroying, command, stopping,
     barrier, poller, manager, app, others
<1>26. ASSUME NEW e \in Endpoints,
             \/ SetCommand(e) \/ SetCommandSignal(e) \/ DestroyCall(e)
             \/ DestroyClears(e) \/ DestroyQueues(e) \/ DestroyNotifies(e)
             \/ DestroyWaits(e) \/ DestroyChecks(e)
      PROVE  RoundInv'
  BY <1>26 DEF SetCommand, QueueCommand, QueueHasRoom, SetCommandSignal,
     Announce, DestroyCall, DestroyClears, DestroyQueues, DestroyNotifies,
     DestroyWaits, DestroyChecks, DestroyGoesOn, vars, endpoint, destroying,
     command, stopping, barrier, poller, manager, app, others
<1>27. QED
  BY <1>1, <1>2, <1>3, <1>4, <1>5, <1>6, <1>7, <1>8, <1>9, <1>10, <1>11,
     <1>12, <1>13, <1>14, <1>15, <1>16, <1>17, <1>18, <1>19, <1>20, <1>21,
     <1>22, <1>23, <1>24, <1>25, <1>26 DEF Next, Poll, Counting, Payload,
     Manager, App, Destroyer

(* Every step leaves the endpoint that the Endpoint Manager thread works   *)
(* on in the list.                                                         *)
LEMMA LivePreserved ==
  ASSUME IInv, [Next]_vars
  PROVE  ProcessesLiveEndpoints'
<1> USE DEF IInv, TypeOK, ThreadsOK, FlagInv, DoneInv, ShutdownInv, RoundInv,
     ProcessesLiveEndpoints, Transmitter, Busy, Working, Processing, InList,
     PollPoints, PayloadPoints, ManagerPoints, AppPoints, Commands, Threads,
     EndpointOrNone, Entering, Leaving
<1>1. CASE UNCHANGED vars \/ Terminated
  BY <1>1 DEF Terminated, vars, endpoint, destroying, command, stopping,
     barrier, poller, manager, app, others
<1>2. CASE \/ PollPass \/ PollStops \/ PollDrained \/ PollCloses \/ PollClosed
           \/ PollDestroyed \/ PollNoCommand
  BY <1>2 DEF PollPass, PollStops, PollDrained, PollCloses, Closing,
     PollMayDestroy, PollClosed, Closed, PollDestroyed, PollNoCommand, Goto,
     vars, endpoint, destroying, command, stopping, barrier, poller, manager,
     app, others
<1>3. CASE \/ PollEnters \/ PollWaits \/ PollLeaves \/ PollPolled \/ PollNext
           \/ PollWakes
  BY <1>3 DEF PollEnters, PollWaits, PollLeaves, PollGoesOn, PollPolled,
     PollNext, PollWakes, Goto, vars, endpoint, destroying, command, stopping,
     barrier, poller, manager, app, others
<1>4. ASSUME NEW t \in {"poll", "payload"},
             \/ Increment(t) \/ IncrementClearsNew(t)
             \/ IncrementClearsRunning(t) \/ IncrementSetsWaiting(t)
             \/ Decrement(t) \/ DecrementClearsDone(t)
             \/ DecrementSetsRunning(t)
      PROVE  ProcessesLiveEndpoints'
  BY <1>4 DEF Increment, Goto, IncrementClearsNew, NewCommandKept,
     IncrementClearsRunning, IncrementSetsWaiting, Decrement, AfterDecrement,
     DecrementClearsDone, CommandDoneKept, DecrementSetsRunning, vars,
     endpoint, destroying, command, stopping, barrier, poller, manager, app,
     others
<1>5. CASE \/ PayloadTop \/ PayloadNotified \/ PayloadWaitsRunning
           \/ WorkArrives \/ ProbePacket
  BY <1>5 DEF PayloadTop, PayloadLeavesBy, PayloadNotified,
     PayloadWaitsRunning, WorkArrives, ProbePacket, Goto, vars, endpoint,
     destroying, command, stopping, barrier, poller, manager, app, others
<1>6. CASE \/ ManagerLoop \/ ManagerPops \/ ManagerCounts \/ ManagerExecutes
           \/ ManagerDone \/ ManagerExits
  BY <1>6 DEF ManagerLoop, ManagerPops, ManagerCounts, ManagerExecutes,
     ManagerDone, SetDone, ManagerExits, Goto, vars, endpoint, destroying,
     command, stopping, barrier, poller, manager, app, others
<1>7. CASE ManagerWakes
  <2>1. CASE all_threads_waiting_signal /\ m_ep' # None /\ endpoint_list' = endpoint_list
    <3>1. \E k \in DOMAIN endpoint_list : endpoint_list[k] = m_ep'
      BY <1>7, <2>1, FirstIsMember DEF ManagerWakes
    <3>2. QED
      BY <2>1, <3>1
  <2>2. CASE ~Processing' \/ Transmitter'
    BY <2>2
  <2>3. QED
    BY <1>7, <2>1, <2>2 DEF ManagerWakes, Goto, destroying
<1>8. CASE ManagerNextEndpoint
  <2>1. CASE m_ep' # None /\ endpoint_list' = endpoint_list
    <3>1. \E k \in DOMAIN endpoint_list : endpoint_list[k] = m_ep'
      BY <1>8, <2>1, NextIsMember DEF ManagerNextEndpoint
    <3>2. QED
      BY <2>1, <3>1
  <2>2. CASE ~Processing' \/ Transmitter'
    BY <2>2
  <2>3. QED
    BY <1>8, <2>1, <2>2 DEF ManagerNextEndpoint, Goto, destroying
<1>9. CASE \/ Shutdown \/ ShutdownCommand \/ ShutdownSignal \/ ShutdownNext
           \/ ShutdownAdapter
  BY <1>9 DEF Shutdown, ShutdownCommand, QueueCommand, QueueHasRoom,
     ShutdownSignal, Announce, ShutdownNext, ShutdownAdapter, Goto, vars,
     endpoint, destroying, command, stopping, barrier, poller, manager, app,
     others
<1>10. CASE \/ ShutdownJoins \/ ShutdownCloses \/ ShutdownClosed
           \/ ShutdownManager \/ ShutdownEnds
  BY <1>10 DEF ShutdownJoins, ShutdownCloses, Closing, ShutdownClosed, Closed,
     ShutdownManager, ShutdownEnds, Goto, vars, endpoint, destroying, command,
     stopping, barrier, poller, manager, app, others
<1>11. CASE WaitsDone("payload", "dec") \/ WaitsDone("app", "wait_exit")
  BY <1>11 DEF WaitsDone, Goto, vars, endpoint, destroying, command, stopping,
     barrier, poller, manager, app, others
<1>12. ASSUME NEW e \in Endpoints,
             \/ SetCommand(e) \/ SetCommandSignal(e) \/ DestroyCall(e)
             \/ DestroyClears(e) \/ DestroyQueues(e) \/ DestroyNotifies(e)
             \/ DestroyWaits(e) \/ DestroyChecks(e)
      PROVE  ProcessesLiveEndpoints'
  BY <1>12 DEF SetCommand, QueueCommand, QueueHasRoom, SetCommandSignal,
     Announce, DestroyCall, DestroyClears, DestroyQueues, DestroyNotifies,
     DestroyWaits, DestroyChecks, DestroyGoesOn, vars, endpoint, destroying,
     command, stopping, barrier, poller, manager, app, others
<1>13. QED
  BY <1>1, <1>2, <1>3, <1>4, <1>5, <1>6, <1>7, <1>8, <1>9, <1>10, <1>11, <1>12
     DEF Next, Poll, Counting, Payload, Manager, App, Destroyer

(* Every step keeps the count of the queued commands exact.                *)
LEMMA QueuedPreserved ==
  ASSUME IInv, [Next]_vars
  PROVE  CountsQueuedCommands'
<1> USE QueuedArePlaces DEF IInv, TypeOK, ThreadsOK, PointersInv,
     CountsQueuedCommands, Threads
<1>1. CASE UNCHANGED vars \/ Terminated
  BY <1>1 DEF Terminated, vars, endpoint, destroying, command, stopping,
     barrier, poller, manager, app, others
<1>2. CASE \/ PollPass \/ PollStops \/ PollDrained \/ PollCloses
           \/ PollDestroyed \/ PollNoCommand
  BY <1>2 DEF PollPass, PollStops, PollDrained, PollCloses, Closing,
     PollMayDestroy, PollDestroyed, PollNoCommand, Goto, vars, endpoint,
     destroying, command, stopping, barrier, poller, manager, app, others
<1>3. CASE PollClosed
  <2>1. p_closing \in Endpoints /\ Closed(p_closing)
    BY <1>3 DEF PollClosed
  <2>2. queued_commands_count' - Cardinality(Queued') = queued_commands_count - Cardinality(Queued)
    BY <2>1, ClosedCounts
  <2>3. Cardinality(Queued) \in Nat /\ Cardinality(Queued') \in Nat
    BY QueuedArePlaces, PlacesFinite
  <2>4. queued_commands_count' \in Int /\ pc'.manager = pc.manager
    BY <1>3, <2>1, ClosedKeepsTypes DEF PollClosed, Goto
  <2>5. QED
    BY <2>2, <2>3, <2>4
<1>4. CASE \/ PollEnters \/ PollWaits \/ PollLeaves \/ PollPolled \/ PollNext
           \/ PollWakes
  BY <1>4 DEF PollEnters, PollWaits, PollLeaves, PollGoesOn, PollPolled,
     PollNext, PollWakes, Goto, vars, endpoint, destroying, command, stopping,
     barrier, poller, manager, app, others
<1>5. ASSUME NEW t \in {"poll", "payload"},
             \/ Increment(t) \/ IncrementClearsNew(t)
             \/ IncrementClearsRunning(t) \/ IncrementSetsWaiting(t)
             \/ Decrement(t) \/ DecrementClearsDone(t)
             \/ DecrementSetsRunning(t)
      PROVE  CountsQueuedCommands'
  BY <1>5 DEF Increment, Goto, IncrementClearsNew, NewCommandKept,
     IncrementClearsRunning, IncrementSetsWaiting, Decrement, AfterDecrement,
     DecrementClearsDone, CommandDoneKept, DecrementSetsRunning, vars,
     endpoint, destroying, command, stopping, barrier, poller, manager, app,
     others
<1>6. CASE \/ PayloadTop \/ PayloadNotified \/ PayloadWaitsRunning
           \/ WorkArrives \/ ProbePacket
  BY <1>6 DEF PayloadTop, PayloadLeavesBy, PayloadNotified,
     PayloadWaitsRunning, WorkArrives, ProbePacket, Goto, vars, endpoint,
     destroying, command, stopping, barrier, poller, manager, app, others
<1>7. CASE \/ ManagerLoop \/ ManagerWakes \/ ManagerExecutes
           \/ ManagerNextEndpoint \/ ManagerDone \/ ManagerExits
  BY <1>7 DEF ManagerLoop, ManagerWakes, ManagerExecutes, ManagerNextEndpoint,
     ManagerDone, SetDone, ManagerExits, Goto, vars, endpoint, destroying,
     command, stopping, barrier, poller, manager, app, others
<1>8. CASE ManagerPops
  <2>1. m_ep \in Endpoints /\ command_queue[m_ep] \in Seq(Commands) /\ command_queue[m_ep] # <<>>
    BY <1>8 DEF ManagerPops, EndpointsOK
  <2>2. command_queue' = [command_queue EXCEPT ![m_ep] = Tail(command_queue[m_ep])]
    BY <1>8 DEF ManagerPops
  <2>3. /\ command_queue \in Queues /\ command_queue' \in Queues
        /\ Len(command_queue[m_ep]) = Len(command_queue'[m_ep]) + 1
        /\ \A f \in Endpoints \ {m_ep} : Len(command_queue[f]) = Len(command_queue'[f])
    <3>1. /\ Tail(command_queue[m_ep]) \in Seq(Commands)
          /\ Len(Tail(command_queue[m_ep])) = Len(command_queue[m_ep]) - 1
          /\ Len(command_queue[m_ep]) \in Nat
      BY <2>1
    <3>2. /\ command_queue' \in [Endpoints -> Seq(Commands)]
          /\ command_queue'[m_ep] = Tail(command_queue[m_ep])
          /\ \A f \in Endpoints \ {m_ep} : command_queue'[f] = command_queue[f]
      BY <2>1, <2>2, <3>1 DEF EndpointsOK
    <3>3. ASSUME NEW f \in Endpoints
          PROVE  Len(command_queue'[f]) <= QueueSize
      <4>1. Len(command_queue[f]) <= QueueSize /\ Len(command_queue[f]) \in Nat
        BY DEF EndpointsOK
      <4>2. CASE f = m_ep
        BY <3>1, <3>2, <4>1, <4>2, ManagerAssumption
      <4>3. CASE f # m_ep
        BY <3>2, <4>1, <4>3
      <4>4. QED
        BY <4>2, <4>3
    <3>4. QED
      BY <2>1, <3>1, <3>2, <3>3, QueuedArePlaces DEF Queues
  <2>4. Cardinality(Places(command_queue)) = Cardinality(Places(command_queue')) + 1
    BY <2>1, <2>3, PlaceAdded
  <2>5. Cardinality(Places(command_queue')) \in Nat
    BY PlacesFinite
  <2>6. /\ pc.manager = "walk" /\ pc'.manager = "count"
        /\ queued_commands_count' = queued_commands_count
    BY <1>8 DEF ManagerPops, Goto, command
  <2>7. QED
    BY <2>4, <2>5, <2>6, QueuedArePlaces
<1>9. CASE ManagerCounts
  <2>1. /\ Queued' = Queued /\ Cardinality(Queued) \in Nat
        /\ queued_commands_count' = queued_commands_count - 1
        /\ pc.manager = "count" /\ pc'.manager = "execute"
    BY <1>9, QueuedArePlaces, PlacesFinite DEF ManagerCounts, Goto, endpoint
  <2>2. QED
    BY <2>1
<1>10. CASE Shutdown \/ ShutdownSignal \/ ShutdownNext \/ ShutdownAdapter
  BY <1>10 DEF Shutdown, ShutdownSignal, Announce, ShutdownNext,
     ShutdownAdapter, Goto, vars, endpoint, destroying, command, stopping,
     barrier, poller, manager, app, others
<1>11. CASE ShutdownCommand
  <2>0. pc'.manager = pc.manager
    BY <1>11 DEF ShutdownCommand, Goto
  <2>1. CASE ep_got_shutdown[a_ep]
    BY <1>11, <2>0, <2>1, QueuedArePlaces DEF ShutdownCommand, endpoint
  <2>2. CASE ~ep_got_shutdown[a_ep]
    <3>1. a_ep \in Endpoints /\ QueueCommand(a_ep, "Shutdown") /\ "Shutdown" \in Commands
      BY <1>11, <2>2 DEF ShutdownCommand, Commands
    <3>2. queued_commands_count' - Cardinality(Queued')
            = queued_commands_count - Cardinality(Queued)
      BY <3>1, QueueCounts
    <3>3. Cardinality(Queued) \in Nat /\ Cardinality(Queued') \in Nat
      BY QueuedArePlaces, PlacesFinite
    <3>4. queued_commands_count' \in Int
      BY <3>1 DEF QueueCommand
    <3>5. QED
      BY <2>0, <3>2, <3>3, <3>4
  <2>3. QED
    BY <2>1, <2>2
<1>12. CASE ShutdownJoins \/ ShutdownCloses \/ ShutdownManager \/ ShutdownEnds
  BY <1>12 DEF ShutdownJoins, ShutdownCloses, Closing, ShutdownManager,
     ShutdownEnds, Goto, vars, endpoint, destroying, command, stopping,
     barrier, poller, manager, app, others
<1>13. CASE ShutdownClosed
  <2>1. a_ep \in Endpoints /\ Closed(a_ep)
    BY <1>13 DEF ShutdownClosed
  <2>2. queued_commands_count' - Cardinality(Queued') = queued_commands_count - Cardinality(Queued)
    BY <2>1, ClosedCounts
  <2>3. Cardinality(Queued) \in Nat /\ Cardinality(Queued') \in Nat
    BY QueuedArePlaces, PlacesFinite
  <2>4. queued_commands_count' \in Int /\ pc'.manager = pc.manager
    BY <1>13, <2>1, ClosedKeepsTypes DEF ShutdownClosed, Goto
  <2>5. QED
    BY <2>2, <2>3, <2>4
<1>14. CASE WaitsDone("payload", "dec") \/ WaitsDone("app", "wait_exit")
  BY <1>14 DEF WaitsDone, Goto, vars, endpoint, destroying, command, stopping,
     barrier, poller, manager, app, others
<1>15. ASSUME NEW e \in Endpoints,
             \/ SetCommandSignal(e) \/ DestroyCall(e) \/ DestroyClears(e)
             \/ DestroyQueues(e) \/ DestroyNotifies(e) \/ DestroyWaits(e)
             \/ DestroyChecks(e)
      PROVE  CountsQueuedCommands'
  BY <1>15 DEF SetCommandSignal, Announce, DestroyCall, DestroyClears,
     DestroyQueues, DestroyNotifies, DestroyWaits, DestroyChecks,
     DestroyGoesOn, vars, endpoint, destroying, command, stopping, barrier,
     poller, manager, app, others
<1>16. ASSUME NEW e \in Endpoints, SetCommand(e)
      PROVE  CountsQueuedCommands'
  <2>1. \E c \in Commands : QueueCommand(e, c)
    BY <1>16, ManagerAssumption DEF SetCommand, Commands
  <2>2. queued_commands_count' - Cardinality(Queued') = queued_commands_count - Cardinality(Queued)
    BY <2>1, QueueCounts
  <2>3. Cardinality(Queued) \in Nat /\ Cardinality(Queued') \in Nat
    BY QueuedArePlaces, PlacesFinite
  <2>4. queued_commands_count' \in Int /\ pc'.manager = pc.manager
    BY <1>16, <2>1 DEF SetCommand, QueueCommand
  <2>5. QED
    BY <2>2, <2>3, <2>4
<1>17. QED
  BY <1>1, <1>2, <1>3, <1>4, <1>5, <1>6, <1>7, <1>8, <1>9, <1>10, <1>11,
     <1>12, <1>13, <1>14, <1>15, <1>16 DEF Next, Poll, Counting, Payload,
     Manager, App, Destroyer

(* The Endpoint Manager thread ends once.                                  *)
LEMMA DoneStaysSet ==
  ASSUME thread_done, [Next]_vars
  PROVE  thread_done'
<1>1. CASE UNCHANGED vars \/ Terminated
  BY <1>1 DEF Terminated, vars, endpoint, destroying, command, stopping,
     barrier, poller, manager, app, others
<1>2. CASE \/ PollPass \/ PollStops \/ PollDrained \/ PollCloses \/ PollClosed
           \/ PollDestroyed \/ PollNoCommand
  BY <1>2 DEF PollPass, PollStops, PollDrained, PollCloses, Closing,
     PollMayDestroy, PollClosed, Closed, PollDestroyed, PollNoCommand, Goto,
     vars, endpoint, destroying, command, stopping, barrier, poller, manager,
     app, others
<1>3. CASE \/ PollEnters \/ PollWaits \/ PollLeaves \/ PollPolled \/ PollNext
           \/ PollWakes
  BY <1>3 DEF PollEnters, PollWaits, PollLeaves, PollGoesOn, PollPolled,
     PollNext, PollWakes, Goto, vars, endpoint, destroying, command, stopping,
     barrier, poller, manager, app, others
<1>4. ASSUME NEW t \in {"poll", "payload"},
             \/ Increment(t) \/ IncrementClearsNew(t)
             \/ IncrementClearsRunning(t) \/ IncrementSetsWaiting(t)
             \/ Decrement(t) \/ DecrementClearsDone(t)
             \/ DecrementSetsRunning(t)
      PROVE  thread_done'
  BY <1>4 DEF Increment, Goto, IncrementClearsNew, NewCommandKept,
     IncrementClearsRunning, IncrementSetsWaiting, Decrement, AfterDecrement,
     DecrementClearsDone, CommandDoneKept, DecrementSetsRunning, vars,
     endpoint, destroying, command, stopping, barrier, poller, manager, app,
     others
<1>5. CASE \/ PayloadTop \/ PayloadNotified \/ PayloadWaitsRunning
           \/ WorkArrives \/ ProbePacket
  BY <1>5 DEF PayloadTop, PayloadLeavesBy, PayloadNotified,
     PayloadWaitsRunning, WorkArrives, ProbePacket, Goto, vars, endpoint,
     destroying, command, stopping, barrier, poller, manager, app, others
<1>6. CASE \/ ManagerLoop \/ ManagerWakes \/ ManagerPops \/ ManagerCounts
           \/ ManagerExecutes \/ ManagerNextEndpoint \/ ManagerDone
           \/ ManagerExits
  BY <1>6 DEF ManagerLoop, ManagerWakes, ManagerPops, ManagerCounts,
     ManagerExecutes, ManagerNextEndpoint, ManagerDone, SetDone, ManagerExits,
     Goto, vars, endpoint, destroying, command, stopping, barrier, poller,
     manager, app, others
<1>7. CASE \/ Shutdown \/ ShutdownCommand \/ ShutdownSignal \/ ShutdownNext
           \/ ShutdownAdapter
  BY <1>7 DEF Shutdown, ShutdownCommand, QueueCommand, QueueHasRoom,
     ShutdownSignal, Announce, ShutdownNext, ShutdownAdapter, Goto, vars,
     endpoint, destroying, command, stopping, barrier, poller, manager, app,
     others
<1>8. CASE \/ ShutdownJoins \/ ShutdownCloses \/ ShutdownClosed
           \/ ShutdownManager \/ ShutdownEnds
  BY <1>8 DEF ShutdownJoins, ShutdownCloses, Closing, ShutdownClosed, Closed,
     ShutdownManager, ShutdownEnds, Goto, vars, endpoint, destroying, command,
     stopping, barrier, poller, manager, app, others
<1>9. CASE WaitsDone("payload", "dec") \/ WaitsDone("app", "wait_exit")
  BY <1>9 DEF WaitsDone, Goto, vars, endpoint, destroying, command, stopping,
     barrier, poller, manager, app, others
<1>10. ASSUME NEW e \in Endpoints,
             \/ SetCommand(e) \/ SetCommandSignal(e) \/ DestroyCall(e)
             \/ DestroyClears(e) \/ DestroyQueues(e) \/ DestroyNotifies(e)
             \/ DestroyWaits(e) \/ DestroyChecks(e)
      PROVE  thread_done'
  BY <1>10 DEF SetCommand, QueueCommand, QueueHasRoom, SetCommandSignal,
     Announce, DestroyCall, DestroyClears, DestroyQueues, DestroyNotifies,
     DestroyWaits, DestroyChecks, DestroyGoesOn, vars, endpoint, destroying,
     command, stopping, barrier, poller, manager, app, others
<1>11. QED
  BY <1>1, <1>2, <1>3, <1>4, <1>5, <1>6, <1>7, <1>8, <1>9, <1>10 DEF Next,
     Poll, Counting, Payload, Manager, App, Destroyer

-----------------------------------------------------------------------------
(* The initial state: both threads outside the barrier, nothing queued.    *)
LEMMA InitHolds == Init => IInv
<1> SUFFICES ASSUME Init
             PROVE  IInv
  OBVIOUS
<1> USE ManagerAssumption
<1>1. DOMAIN pc = Threads /\ pc.poll = "pass" /\ pc.payload \in {"run", "none"}
      /\ pc.manager = "loop" /\ pc.app = "idle"
      /\ registered_thread_count = IF Transmitter THEN 2 ELSE 1
  BY DEF Init, Threads, Transmitter
<1>2. EndpointsOK
  <2>1. Cardinality(Endpoints) \in Nat
    BY FS_CardinalityType
  <2>2. endpoint_list \in [1 .. Cardinality(Endpoints) -> Endpoints]
    BY DEF Init
  <2>3. endpoint_list \in Seq(Endpoints)
    BY <2>1, <2>2
  <2>4. QED
    BY <2>3 DEF Init, EndpointsOK
<1>3. SignalsOK
  BY DEF Init, SignalsOK
<1>4. ThreadsOK
  BY <1>1 DEF Init, ThreadsOK, PollPoints, PayloadPoints, ManagerPoints, AppPoints,
              Commands, EndpointOrNone
<1>5. FlagInv /\ PointersInv /\ DoneInv /\ ShutdownInv
  BY <1>1 DEF Init, FlagInv, PointersInv, DoneInv, ShutdownInv, Entering, Leaving
<1>6. DestroyedIsGone /\ ProcessesLiveEndpoints /\ RoundInv
  BY <1>1 DEF Init, DestroyedIsGone, ProcessesLiveEndpoints, RoundInv, Processing,
              Working, Busy
<1>7. CountsThreadsInBarrier
  BY <1>1, CountInNumbers DEF Init, InNumbers, InBarrier
<1>8. CountsQueuedCommands
  <2>1. Queued = {}
    BY DEF Init, Queued
  <2>2. QED
    BY <1>1, <2>1, FS_EmptySet DEF Init, CountsQueuedCommands
<1>9. QED
  BY <1>2, <1>3, <1>4, <1>5, <1>6, <1>7, <1>8 DEF IInv, TypeOK

(* The inductive invariant holds in every state, for any endpoints, any    *)
(* size of the command queues, and receivers and transmitters alike.       *)
THEOREM Invariance == Spec => []IInv
<1>1. TypeOK /\ PointersInv /\ [Next]_vars => TypeOK'
  BY ThreadsPreserved, SignalsPreserved, EndpointsPreserved DEF TypeOK
<1>2. IInv /\ [Next]_vars => IInv'
  <2> SUFFICES ASSUME IInv, [Next]_vars
               PROVE  IInv'
    OBVIOUS
  <2>1. TypeOK' /\ PointersInv'
    BY <1>1, PointersPreserved DEF IInv
  <2>2. FlagInv' /\ DoneInv' /\ ShutdownInv'
    BY ControlPreserved
  <2>3. CountsThreadsInBarrier' /\ CountsQueuedCommands'
    BY BarrierPreserved, CountInNumbers, QueuedPreserved
  <2>4. DestroyedIsGone' /\ RoundInv' /\ ProcessesLiveEndpoints'
    BY DestroyedPreserved, RoundPreserved, LivePreserved
  <2>5. QED
    BY <2>1, <2>2, <2>3, <2>4 DEF IInv
<1>3. QED
  BY InitHolds, <1>2, PTL DEF Spec

(* Every variable keeps its type.                                          *)
THEOREM TypeCorrect == Spec => []TypeOK
<1>1. IInv => TypeOK
  BY DEF IInv
<1>2. QED
  BY Invariance, <1>1, PTL

(* The counts by which the barrier opens and closes, and by which signals  *)
(* are cleared, are exact (IncrementThreadWaitCount, SetCommand).          *)
THEOREM CountsHold == Spec => []CountsAreExact
<1>1. IInv => CountsAreExact
  BY DEF IInv, CountsAreExact
<1>2. QED
  BY Invariance, <1>1, PTL

(* The asserts of endpoint_manager.c:331 and :421: no count is zero when   *)
(* it is about to be taken down.                                           *)
CountsArePositive ==
  /\ pc.manager = "count" => queued_commands_count > 0
  /\ \A t \in {"poll", "payload"} : pc[t] = "dec" => thread_wait_count > 0
(* The asserts on the two counts of the manager hold in every state.       *)
THEOREM AssertsHold == Spec => []CountsArePositive
<1>1. ASSUME IInv
      PROVE  CountsArePositive
  <2>1. pc.manager = "count" => queued_commands_count > 0
    <3>1. Cardinality(Queued) \in Nat
      BY QueuedArePlaces, PlacesFinite
    <3>2. QED
      BY <1>1, <3>1 DEF IInv, CountsQueuedCommands
  <2>2. ASSUME NEW t \in {"poll", "payload"}, pc[t] = "dec"
        PROVE  thread_wait_count > 0
    BY <1>1, <2>2, CountInNumbers DEF IInv, InNumbers, InBarrier, FlagInv, Leaving
  <2>3. QED
    BY <2>1, <2>2 DEF CountsArePositive
<1>2. QED
  BY Invariance, <1>1, PTL

(* Who destroys an endpoint goes on when that one is gone, not another     *)
(* (EndpointManagerEndpointDestroy).                                       *)
THEOREM DestroyedStaysGone == Spec => []DestroyedIsGone
<1>1. IInv => DestroyedIsGone
  BY DEF IInv
<1>2. QED
  BY Invariance, <1>1, PTL

(* The Endpoint Manager thread of a receiver finds the endpoints it walks  *)
(* over alive (EndpointManagerThread).                                     *)
THEOREM EndpointsStayLive == Spec => []ProcessesLiveEndpoints
<1>1. IInv => ProcessesLiveEndpoints
  BY DEF IInv
<1>2. QED
  BY Invariance, <1>1, PTL

(* Commands of a receiver are carried out with its poll thread in the      *)
(* barrier, round after round (EndpointManagerThread, EndpointManagerPoll).*)
THEOREM BarrierHolds == Spec => []ProcessesInBarrier
<1>1. ASSUME IInv
      PROVE  ProcessesInBarrier
  <2> SUFFICES ASSUME Processing, ~Transmitter
               PROVE  InBarrier("poll")
    BY DEF ProcessesInBarrier
  <2>1. ~thread_done /\ Busy
    BY <1>1 DEF IInv, DoneInv, Processing, Busy, Working
  <2>2. pc.poll # "ended" /\ poll_thread_waiting /\ pc.poll \notin Entering \cup Leaving
    BY <1>1, <2>1 DEF IInv, RoundInv
  <2>3. QED
    BY <2>2 DEF InBarrier, Entering, Leaving
<1>2. QED
  BY Invariance, <1>1, PTL

(* After the Endpoint Manager thread has ended nobody blocks on it, because *)
(* both signals stay set (EndpointManagerThread, state_lock).              *)
THEOREM DoneForGood == Spec => DoneIsFinal
<1>1. IInv /\ IInv' /\ [Next]_vars
        => [thread_done => command_done_signal' /\ new_command_signal']_vars
  <2> SUFFICES ASSUME IInv, IInv', [Next]_vars, thread_done
               PROVE  command_done_signal' /\ new_command_signal'
    OBVIOUS
  <2>1. thread_done'
    BY DoneStaysSet
  <2>2. QED
    BY <2>1 DEF IInv, DoneInv
<1>2. QED
  BY Invariance, <1>1, PTL DEF Spec, DoneIsFinal
=============================================================================

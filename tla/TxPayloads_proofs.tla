-------------------------- MODULE TxPayloads_proofs -------------------------
(***************************************************************************)
(* Proofs about the sending side of a connection that lasts, for any       *)
(* payloads, streams, pools and queues, and any sends and acknowledgements *)
(* that fail: nothing a payload takes is lost or held twice, a packet      *)
(* belongs to its payload as long as it is on its way, and the application *)
(* is called once.                                                         *)
(***************************************************************************)
EXTENDS TxPayloads, FiniteSetTheorems, WellFoundedInduction, SequenceTheorems, TLAPS

(* What the two threads have in hand.                                      *)
Doing == payload_thread.state
Hand == payload_thread.slot
Request == payload_thread.request
List == payload_thread.list
Parked == poll_thread.slot
AppSlot == [a \in App |-> app[a].slot]
Used == InUse(payload_state_pool)

(* The types of the variables.  A pool hands an item out and takes it back *)
(* as one that is not free.                                                *)
PoolKind(pool, Items) ==
  /\ pool \in [free : Seq(Items), in_use : Seq(Items)]
  /\ IsInjective(pool.free)
  /\ ToSet(pool.free) \cap InUse(pool) = {}
States == {"Idle", "WorkReceived", "GetWorkRequest", "Packetizing", "Enqueuing"}
Status == {"Ok", "SendFailed"}

AppKind ==
  app \in [App -> [pc : {"idle", "get", "push"}, endpoint : Endpoint,
                   slot : Slot \cup {None}]]
StateKind ==
  /\ payload_states \in
       [Slot -> [payload : Payload \cup {None}, endpoint : Endpoint, payload_num : Int,
                 packet_sequence_num : Nat, transferred : Nat,
                 completed : Seq(WorkRequest)]]
  /\ PoolKind(payload_state_pool, Slot)
  /\ payload_queue \in Seq(Slot)
ThreadKind ==
  payload_thread \in
    [pc : {"wait", "signal", "free", "build", "packet", "enqueue"}, state : States,
     slot : Slot \cup {None}, request : WorkRequest \cup {None}, entries : Nat,
     list : Seq(WorkRequest), batch : Nat, last : BOOLEAN]
RequestKind ==
  /\ work_requests \in
       [WorkRequest -> [payload_state : Slot \cup {None}, payload_num : Int,
                        last : BOOLEAN]]
  /\ PoolKind(work_request_pool, WorkRequest)
  /\ packet_sgl_entries \in Nat
  /\ work_req_comp_queue \in Seq(WorkRequest)
LineKind ==
  /\ tx_packet_queue \in [Endpoint -> Seq(Seq(WorkRequest))]
  /\ tx_packet_waiting_list \in [Endpoint -> Seq(WorkRequest)]
  /\ in_flight \in [Endpoint -> SUBSET WorkRequest]
  /\ tx_in_flight_ref_count \in [Endpoint -> Int]
  /\ payload_num \in [Endpoint -> Int]
PollKind ==
  /\ poll_thread \in
       [pc : {"endpoint", "completions", "transfer", "put", "recheck", "wait"},
        left : Seq(Endpoint) \ {<<>>}, packet : {None}, idle : BOOLEAN,
        slot : Slot \cup {None}]
  /\ tx_poll_do_work_signal \in BOOLEAN
ReturnKind ==
  /\ app_payload_message_queue \in Seq([payload : Payload, status : Status])
  /\ payload_sgl_entries \in Int
  /\ accepted_count \in 0 .. Len(Packets)
  /\ accepted \subseteq 1 .. accepted_count
  /\ returned \in [Payload -> Seq(Status)]
Kinds ==
  AppKind /\ StateKind /\ ThreadKind /\ RequestKind /\ LineKind /\ PollKind /\ ReturnKind

(* The connection has not been lost.                                       *)
Calm == \A e \in Endpoint : Connected(e) /\ command[e] = None

(* What the threads hold at each of their steps.                           *)
Control ==
  /\ \A a \in App : AppSlot[a] = None <=> app[a].pc # "push"
  /\ Hand = None <=> Doing = "Idle"
  /\ Request = None <=> Doing # "Packetizing"
  /\ payload_thread.entries <= EntriesPerPacket
  /\ Doing # "Packetizing" => payload_thread.entries = 0
  /\ Doing \in {"Idle", "WorkReceived"} => List = <<>>
  /\ Doing = "Enqueuing" => List # <<>>
  /\ Thread("signal") => Doing = "WorkReceived"
  /\ Doing = "WorkReceived" => Thread("signal") \/ Thread("free")
  /\ Thread("build") => Doing \notin {"Idle", "WorkReceived"}
  /\ Thread("packet") => Doing = "Packetizing"
  /\ Thread("enqueue") => Doing = "Enqueuing"
  /\ Parked = None <=> ~Polls("transfer") /\ ~Polls("put")

(* A payload state in use is at one place.                                 *)
Calling == {AppSlot[a] : a \in App} \ {None}
Unbegun == Calling \cup ToSet(payload_queue)
SlotsApart ==
  /\ \A a, b \in App : AppSlot[a] = AppSlot[b] /\ AppSlot[a] # None => a = b
  /\ IsInjective(payload_queue)
  /\ Calling \cap ToSet(payload_queue) = {}
  /\ Hand \notin Unbegun /\ Parked \notin Unbegun
  /\ Hand # None => Hand # Parked
  /\ Unbegun \subseteq Used
  /\ Hand # None => Hand \in Used
  /\ Parked # None => Parked \in Used

(* No packet of it has been made yet.                                      *)
Fresh == Unbegun \cup (IF Doing = "WorkReceived" THEN {Hand} ELSE {})
FreshIsNew ==
  \A s \in Fresh :
    /\ payload_states[s].packet_sequence_num = 0
    /\ payload_states[s].transferred = 0
    /\ payload_states[s].completed = <<>>

(* Each payload has its own payload state.                                 *)
PayloadsApart ==
  /\ \A s \in Used : payload_states[s].payload \in 1 .. accepted_count
  /\ \A s, t \in Used : payload_states[s].payload = payload_states[t].payload => s = t
  /\ \A s \in Used \ Calling : payload_states[s].payload \in accepted

(* Batches and the batch being sent, as one line of packets.               *)
InLine(batches, list) == (UNION {ToSet(b) : b \in ToSet(batches)}) \cup ToSet(list)
Lined(batches, list) ==
  /\ IsInjective(list)
  /\ \A i \in DOMAIN batches :
       /\ IsInjective(batches[i])
       /\ ToSet(batches[i]) \cap ToSet(list) = {}
       /\ \A j \in DOMAIN batches :
            i # j => ToSet(batches[i]) \cap ToSet(batches[j]) = {}
Sent(e) == Queued(e) \cup in_flight[e]
LinesApart ==
  /\ IsInjective(List)
  /\ \A e \in Endpoint :
       /\ Lined(tx_packet_queue[e], tx_packet_waiting_list[e])
       /\ Queued(e) \cap in_flight[e] = {}
       /\ ToSet(List) \cap Sent(e) = {}

(* The packets on their way and whose they are.                            *)
Moving == ToSet(List) \cup (UNION {Sent(e) : e \in Endpoint})
Held == {Request} \ {None}
StateOf(w) == work_requests[w].payload_state
Live == Used \ {Parked}
PacketsBelong ==
  /\ \A w \in Moving :
       /\ StateOf(w) \in Live \ Fresh
       /\ work_requests[w].payload_num = payload_states[StateOf(w)].payload_num
  /\ \A w \in ToSet(List) : StateOf(w) = Hand
  /\ \A e \in Endpoint : \A w \in Sent(e) : payload_states[StateOf(w)].endpoint = e

(* The other places of work requests.                                      *)
Freed == ToSet(work_req_comp_queue)
Holder == InUse(work_request_pool)
RequestsApart ==
  /\ IsInjective(work_req_comp_queue)
  /\ Moving \cap Freed = {}
  /\ Request \notin Moving \cup Freed
  /\ Moving \cup Freed \subseteq Holder
  /\ Request # None => Request \in Holder
  /\ \A s \in Live :
       /\ IsInjective(payload_states[s].completed)
       /\ Completed(s) \subseteq Holder
       /\ Completed(s) \cap (Moving \cup Freed \cup {Request}) = {}
       /\ \A w \in Completed(s) : StateOf(w) = s
NothingLeaks ==
  Undisturbed =>
    Holder = Moving \cup Freed \cup Held \cup (UNION {Completed(s) : s \in Live})

(* The packets of a payload, and the last one.                             *)
Mine(s) == {w \in Moving : StateOf(w) = s}
Size(s) == Packets[payload_states[s].payload]
Made(s) == payload_states[s].packet_sequence_num
PacketsCounted ==
  /\ \A s \in Live :
       /\ payload_states[s].transferred = Len(payload_states[s].completed)
       /\ Made(s) <= Size(s)
       /\ payload_states[s].transferred + Cardinality(Mine(s)) <= Made(s)
       /\ s \notin Fresh \cup {Hand} => Made(s) = Size(s)
  /\ Doing \in {"GetWorkRequest", "Packetizing"} => Made(Hand) < Size(Hand)
  /\ Doing = "Enqueuing" => (payload_thread.last <=> Made(Hand) = Size(Hand))
LastIsLast ==
  \A s \in Live :
    /\ \A v, w \in Mine(s) \cup Completed(s) :
         work_requests[v].last /\ work_requests[w].last => v = w
    /\ Made(s) < Size(s) => \A w \in Mine(s) \cup Completed(s) : ~work_requests[w].last
    /\ Undisturbed /\ Made(s) = Size(s) =>
         \E w \in Mine(s) \cup Completed(s) : work_requests[w].last

OnWay(e) == {w \in Moving : payload_states[StateOf(w)].endpoint = e}
BegunAt(e) ==
  {s \in Live : /\ payload_states[s].endpoint = e /\ s \notin Unbegun
                /\ \A w \in Completed(s) : ~work_requests[w].last}
Counted ==
  Undisturbed => \A e \in Endpoint :
    tx_in_flight_ref_count[e] = Cardinality(OnWay(e)) + Cardinality(BegunAt(e))
EntriesKeptTrack ==
  packet_sgl_entries + payload_thread.entries
    + EntriesPerPacket * (Cardinality(Holder) - Cardinality(Held)) = PacketSglEntries

(* A payload the application is told about, or will be.                    *)
ToldOnce ==
  /\ \A i, j \in DOMAIN app_payload_message_queue :
       app_payload_message_queue[i].payload = app_payload_message_queue[j].payload => i = j
  /\ \A i \in DOMAIN app_payload_message_queue :
       LET p == app_payload_message_queue[i].payload
       IN  /\ p \in accepted /\ returned[p] = <<>>
           /\ \A s \in Holding : payload_states[s].payload # p
  /\ \A p \in Payload : returned[p] # <<>> =>
       /\ Len(returned[p]) = 1 /\ p \in accepted
       /\ \A s \in Holding : payload_states[s].payload # p

Core ==
  /\ FreshIsNew /\ LinesApart /\ PacketsBelong /\ RequestsApart /\ NothingLeaks
  /\ PacketsCounted /\ LastIsLast /\ Counted /\ EntriesKeptTrack
Placed == Core /\ SlotsApart /\ PayloadsApart /\ SourceEntriesHavePlaces /\ ToldOnce
IInv == Kinds /\ Calm /\ Control /\ Placed
CalmIInv == losses \in Nat /\ (losses = 0 => IInv)

-----------------------------------------------------------------------------
(* Sequences without doubles, and pools.                                   *)

(* The items of a sequence, which are as many as it is long when none is   *)
(* twice in it.                                                            *)
LEMMA ItemsOf ==
  \A S : \A s \in Seq(S) :
    /\ ToSet(s) \subseteq S /\ IsFiniteSet(ToSet(s))
    /\ IsInjective(s) => Cardinality(ToSet(s)) = Len(s)
<1> TAKE S
<1> TAKE s \in Seq(S)
<1>0. Len(s) \in Nat OBVIOUS
<1>1. IsFiniteSet(1 .. Len(s)) /\ Cardinality(1 .. Len(s)) = Len(s)
  BY <1>0, FS_Interval
<1>2. s \in Surjection(1 .. Len(s), ToSet(s)) BY DEF Surjection, ToSet
<1>3. ASSUME IsInjective(s) PROVE s \in Bijection(1 .. Len(s), ToSet(s))
  BY <1>2, <1>3 DEF Bijection, Injection, IsInjective, Surjection
<1>4. ToSet(s) \subseteq S BY DEF ToSet
<1> HIDE DEF ToSet, IsInjective
<1>5. IsFiniteSet(ToSet(s)) BY <1>1, <1>2, FS_Surjection
<1>6. ASSUME IsInjective(s) PROVE Cardinality(ToSet(s)) = Len(s)
  <2>1. s \in Bijection(1 .. Len(s), ToSet(s)) BY <1>3, <1>6
  <2>2. ExistsBijection(1 .. Len(s), ToSet(s)) BY <2>1 DEF ExistsBijection
  <2> QED BY <2>2, FS_CountingElements
<1> QED BY <1>4, <1>5, <1>6

(* The empty sequence.                                                     *)
LEMMA ItemsOfNone == ToSet(<<>>) = {} /\ IsInjective(<<>>)
BY DEF ToSet, IsInjective

(* What Append adds to the items.                                          *)
LEMMA ItemsAppended ==
  \A S : \A s \in Seq(S), x \in S :
    /\ Append(s, x) \in Seq(S)
    /\ ToSet(Append(s, x)) = ToSet(s) \cup {x}
    /\ IsInjective(s) /\ x \notin ToSet(s) => IsInjective(Append(s, x))
<1> TAKE S
<1> TAKE s \in Seq(S), x \in S
<1>1. ToSet(Append(s, x)) = ToSet(s) \cup {x}
  <2>1. \A y \in ToSet(s) : y \in ToSet(Append(s, x)) BY DEF ToSet
  <2>2. x \in ToSet(Append(s, x))
    <3>1. Append(s, x)[Len(s) + 1] = x /\ Len(s) + 1 \in DOMAIN Append(s, x) OBVIOUS
    <3> QED BY <3>1 DEF ToSet
  <2>3. \A y \in ToSet(Append(s, x)) : y \in ToSet(s) \cup {x} BY DEF ToSet
  <2> QED BY <2>1, <2>2, <2>3
<1>2. IsInjective(s) /\ x \notin ToSet(s) => IsInjective(Append(s, x))
  BY DEF IsInjective, ToSet
<1> QED BY <1>1, <1>2

(* What Tail takes from the items.                                         *)
LEMMA ItemsTaken ==
  \A S : \A s \in Seq(S) :
    s # <<>> =>
      /\ Head(s) \in S /\ Tail(s) \in Seq(S)
      /\ ToSet(s) = {Head(s)} \cup ToSet(Tail(s))
      /\ IsInjective(s) => IsInjective(Tail(s)) /\ Head(s) \notin ToSet(Tail(s))
<1> TAKE S
<1> SUFFICES ASSUME NEW s \in Seq(S), s # <<>>
             PROVE  /\ Head(s) \in S /\ Tail(s) \in Seq(S)
                    /\ ToSet(s) = {Head(s)} \cup ToSet(Tail(s))
                    /\ IsInjective(s) =>
                         IsInjective(Tail(s)) /\ Head(s) \notin ToSet(Tail(s))
  OBVIOUS
<1> DEFINE t == Tail(s)
<1>1. Head(s) \in S /\ t \in Seq(S) /\ Len(t) = Len(s) - 1 /\ Len(s) \in Nat /\ Head(s) = s[1]
      /\ Len(s) > 0
  OBVIOUS
<1>2. \A i \in 1 .. Len(t) : t[i] = s[i + 1] OBVIOUS
<1> HIDE DEF t
<1>3. ToSet(s) = {Head(s)} \cup ToSet(t)
  <2>1. \A y \in ToSet(t) : y \in ToSet(s) BY <1>1, <1>2 DEF ToSet
  <2>2. \A i \in DOMAIN s : i # 1 => s[i] \in ToSet(t)
    <3> SUFFICES ASSUME NEW i \in DOMAIN s, i # 1 PROVE s[i] \in ToSet(t) OBVIOUS
    <3>1. i - 1 \in 1 .. Len(t) /\ t[i - 1] = s[i] BY <1>1, <1>2
    <3> QED BY <1>1, <3>1 DEF ToSet
  <2>3. s[1] \in ToSet(s) BY <1>1 DEF ToSet
  <2> QED BY <1>1, <2>1, <2>2, <2>3 DEF ToSet
<1>4. ASSUME IsInjective(s) PROVE IsInjective(t) /\ Head(s) \notin ToSet(t)
  <2>0. \A i \in 1 .. Len(t) : i + 1 \in DOMAIN s /\ i + 1 # 1 /\ t[i] = s[i + 1]
    BY <1>1, <1>2
  <2>1. \A i, j \in 1 .. Len(t) : t[i] = t[j] => i = j
    <3> SUFFICES ASSUME NEW i \in 1 .. Len(t), NEW j \in 1 .. Len(t), t[i] = t[j]
                 PROVE  i = j
      OBVIOUS
    <3>1. i + 1 = j + 1 BY <1>4, <2>0 DEF IsInjective
    <3> QED BY <3>1
  <2>2. \A i \in 1 .. Len(t) : t[i] # s[1]
    <3>1. 1 \in DOMAIN s BY <1>1
    <3> QED BY <1>4, <2>0, <3>1 DEF IsInjective
  <2> QED BY <1>1, <2>1, <2>2 DEF IsInjective, ToSet
<1> QED BY <1>1, <1>3, <1>4 DEF t

(* The items of two sequences in a row.                                    *)
LEMMA ItemsJoined ==
  \A S : \A s, t \in Seq(S) :
    /\ s \o t \in Seq(S)
    /\ ToSet(s \o t) = ToSet(s) \cup ToSet(t)
    /\ IsInjective(s) /\ IsInjective(t) /\ ToSet(s) \cap ToSet(t) = {} => IsInjective(s \o t)
<1> TAKE S
<1> TAKE s, t \in Seq(S)
<1> DEFINE r == s \o t
<1>1. r \in Seq(S) /\ Len(r) = Len(s) + Len(t) /\ Len(s) \in Nat /\ Len(t) \in Nat OBVIOUS
<1>2. \A i \in 1 .. Len(r) : r[i] = IF i <= Len(s) THEN s[i] ELSE t[i - Len(s)] OBVIOUS
<1>a. DOMAIN r = 1 .. Len(r) /\ DOMAIN s = 1 .. Len(s) /\ DOMAIN t = 1 .. Len(t) OBVIOUS
<1> HIDE DEF r
<1>3. ToSet(r) = ToSet(s) \cup ToSet(t)
  <2>1. \A i \in DOMAIN s : s[i] \in ToSet(r)
    <3> TAKE i \in DOMAIN s
    <3>1. i \in DOMAIN r /\ r[i] = s[i] BY <1>1, <1>2, <1>a
    <3> QED BY <3>1 DEF ToSet
  <2>2. \A i \in DOMAIN t : t[i] \in ToSet(r)
    <3> TAKE i \in DOMAIN t
    <3>1. Len(s) + i \in DOMAIN r /\ r[Len(s) + i] = t[i] BY <1>1, <1>2, <1>a
    <3> QED BY <3>1 DEF ToSet
  <2>3. \A i \in DOMAIN r : r[i] \in ToSet(s) \cup ToSet(t)
    <3> TAKE i \in DOMAIN r
    <3>1. CASE i <= Len(s)
      <4>1. i \in DOMAIN s /\ r[i] = s[i] BY <1>1, <1>2, <1>a, <3>1
      <4> QED BY <4>1 DEF ToSet
    <3>2. CASE i > Len(s)
      <4>1. i - Len(s) \in DOMAIN t /\ r[i] = t[i - Len(s)] BY <1>1, <1>2, <1>a, <3>2
      <4> QED BY <4>1 DEF ToSet
    <3> QED BY <1>1, <1>a, <3>1, <3>2
  <2> QED BY <2>1, <2>2, <2>3 DEF ToSet
<1>4. ASSUME IsInjective(s), IsInjective(t), ToSet(s) \cap ToSet(t) = {}
      PROVE  IsInjective(r)
  <2>1. \A i \in DOMAIN s, j \in DOMAIN t : s[i] # t[j] BY <1>4 DEF ToSet
  <2> SUFFICES ASSUME NEW i \in 1 .. Len(r), NEW j \in 1 .. Len(r), r[i] = r[j]
               PROVE  i = j
    BY <1>a DEF IsInjective
  <2> DEFINE m == Len(s)
  <2>2. i \in Nat /\ j \in Nat /\ m \in Nat BY <1>1
  <2>3. CASE i <= m /\ j <= m
    <3>1. i \in DOMAIN s /\ j \in DOMAIN s BY <1>a, <2>2, <2>3
    <3>2. r[i] = s[i] /\ r[j] = s[j] BY <1>2, <2>3
    <3> QED BY <1>4, <3>1, <3>2 DEF IsInjective
  <2>4. CASE i > m /\ j > m
    <3>1. i - m \in DOMAIN t /\ j - m \in DOMAIN t BY <1>1, <1>a, <2>2, <2>4
    <3>2. r[i] = t[i - m] /\ r[j] = t[j - m] BY <1>2, <2>2, <2>4
    <3>3. i - m = j - m BY <1>4, <3>1, <3>2 DEF IsInjective
    <3> QED BY <2>2, <3>3
  <2>5. CASE i <= m /\ j > m
    <3>1. i \in DOMAIN s /\ j - m \in DOMAIN t BY <1>1, <1>a, <2>2, <2>5
    <3>2. r[i] = s[i] /\ r[j] = t[j - m] BY <1>2, <2>2, <2>5
    <3> QED BY <2>1, <3>1, <3>2
  <2>6. CASE i > m /\ j <= m
    <3>1. i - m \in DOMAIN t /\ j \in DOMAIN s BY <1>1, <1>a, <2>2, <2>6
    <3>2. r[i] = t[i - m] /\ r[j] = s[j] BY <1>2, <2>2, <2>6
    <3> QED BY <2>1, <3>1, <3>2
  <2> QED BY <2>2, <2>3, <2>4, <2>5, <2>6
<1> QED BY <1>1, <1>3, <1>4 DEF r

(* Reverse has the same items.                                             *)
LEMMA ItemsReversed ==
  \A S : \A s \in Seq(S) :
    /\ Reverse(s) \in Seq(S) /\ ToSet(Reverse(s)) = ToSet(s)
    /\ IsInjective(s) => IsInjective(Reverse(s))
<1> TAKE S
<1> TAKE s \in Seq(S)
<1> DEFINE r == Reverse(s)
<1>1. Len(s) \in Nat /\ DOMAIN s = 1 .. Len(s) /\ DOMAIN r = 1 .. Len(s)
      /\ \A i \in 1 .. Len(s) : r[i] = s[(Len(s) - i) + 1]
  BY DEF Reverse
<1>2. r \in Seq(S)
  <2>1. \A i \in 1 .. Len(s) : (Len(s) - i) + 1 \in 1 .. Len(s) BY <1>1
  <2>2. \A i \in 1 .. Len(s) : s[(Len(s) - i) + 1] \in S BY <2>1
  <2> QED BY <1>1, <2>2 DEF Reverse
<1> HIDE DEF r
<1>3. ToSet(r) = ToSet(s)
  <2>1. \A i \in 1 .. Len(s) : s[i] = r[(Len(s) - i) + 1] /\ (Len(s) - i) + 1 \in 1 .. Len(s)
    BY <1>1
  <2>2. \A i \in 1 .. Len(s) : r[i] = s[(Len(s) - i) + 1] /\ (Len(s) - i) + 1 \in 1 .. Len(s)
    BY <1>1
  <2> QED BY <1>1, <2>1, <2>2 DEF ToSet
<1>4. IsInjective(s) => IsInjective(r) BY <1>1 DEF IsInjective
<1> QED BY <1>2, <1>3, <1>4 DEF r

(* The items that Without leaves.                                          *)
LEMMA ItemsWithout ==
  \A S : \A s \in Seq(S) : \A A :
    Without(s, A) \in Seq(S) /\ ToSet(Without(s, A)) = ToSet(s) \ A
<1> TAKE S
<1> TAKE s \in Seq(S)
<1> TAKE A
<1> DEFINE kept == {i \in DOMAIN s : s[i] \notin A}
<1> DEFINE R(i) == {k \in kept : k <= i}
<1> DEFINE n == Cardinality(kept)
<1> DEFINE rank == [i \in kept |-> Cardinality(R(i))]
<1> DEFINE w == Without(s, A)
<1>1. IsFiniteSet(1 .. Len(s)) /\ DOMAIN s = 1 .. Len(s) /\ Len(s) \in Nat BY FS_Interval
<1>2. IsFiniteSet(kept) /\ n \in Nat
  <2>1. kept \in SUBSET (1 .. Len(s)) BY <1>1
  <2> HIDE DEF kept
  <2> QED BY <1>1, <2>1, FS_Subset, FS_CardinalityType DEF n
<1>k. \A i \in kept : i \in Nat BY <1>1
<1>w. w = [j \in 1 .. n |-> s[CHOOSE i \in kept : Cardinality(R(i)) = j]] BY DEF Without
<1>d. \A i \in kept : i \in DOMAIN s /\ s[i] \notin A OBVIOUS
<1>e. \A i \in DOMAIN s : s[i] \notin A => i \in kept OBVIOUS
<1> HIDE DEF kept, w
<1>3. \A i \in kept : R(i) \in SUBSET kept /\ i \in R(i) BY <1>k
<1>4. \A i \in kept : IsFiniteSet(R(i)) /\ Cardinality(R(i)) \in 1 .. n
  <2> TAKE i \in kept
  <2> DEFINE T == R(i)
  <2>1. T \in SUBSET kept /\ i \in T BY <1>3
  <2> HIDE DEF T
  <2>2. IsFiniteSet(T) /\ Cardinality(T) <= n BY <1>2, <2>1, FS_Subset DEF n
  <2>3. Cardinality(T) \in Nat /\ Cardinality(T) # 0
    BY <2>1, <2>2, FS_CardinalityType, FS_EmptySet
  <2>4. IsFiniteSet(T) /\ Cardinality(T) \in 1 .. n BY <1>2, <2>2, <2>3
  <2> QED BY <2>4 DEF T
<1>5. \A i, k \in kept : i < k => Cardinality(R(i)) < Cardinality(R(k))
  <2> SUFFICES ASSUME NEW i \in kept, NEW k \in kept, i < k
               PROVE  Cardinality(R(i)) < Cardinality(R(k))
    OBVIOUS
  <2> DEFINE T == R(i)
  <2> DEFINE U == R(k)
  <2>1. T \in SUBSET U /\ T # U
    <3>1. k \in U /\ k \notin T BY <1>k
    <3>2. \A x \in T : x \in U BY <1>k
    <3> QED BY <3>1, <3>2
  <2>2. IsFiniteSet(U) BY <1>4
  <2> HIDE DEF T, U
  <2>3. Cardinality(T) < Cardinality(U)
    BY <2>1, <2>2, FS_Subset, FS_CardinalityType
  <2> QED BY <2>3 DEF T, U
<1> HIDE DEF R
<1>6. rank \in Injection(kept, 1 .. n)
  <2>1. rank \in [kept -> 1 .. n] BY <1>4
  <2>2. \A i, k \in kept : rank[i] = rank[k] => i = k
    <3> SUFFICES ASSUME NEW i \in kept, NEW k \in kept, i # k
                 PROVE  Cardinality(R(i)) # Cardinality(R(k))
      OBVIOUS
    <3>1. i < k \/ k < i BY <1>k
    <3>2. Cardinality(R(i)) \in Int /\ Cardinality(R(k)) \in Int BY <1>2, <1>4
    <3>3. Cardinality(R(i)) < Cardinality(R(k)) \/ Cardinality(R(k)) < Cardinality(R(i))
      BY <1>5, <3>1
    <3> QED BY <3>2, <3>3
  <2> HIDE DEF rank
  <2>3. DOMAIN rank = kept BY <2>1
  <2> QED BY <2>1, <2>2, <2>3 DEF Injection, IsInjective
<1>7. \A j \in 1 .. n : \E i \in kept : Cardinality(R(i)) = j
  <2>1. IsFiniteSet(1 .. n) /\ Cardinality(1 .. n) = n BY <1>2, FS_Interval
  <2> DEFINE f == rank
  <2>2. f \in Injection(kept, 1 .. n) BY <1>6
  <2> HIDE DEF f, rank
  <2>3. f \in Surjection(kept, 1 .. n) BY <2>1, <2>2, FS_Injection DEF n
  <2>4. \A j \in 1 .. n : \E i \in kept : f[i] = j BY <2>3 DEF Surjection
  <2> QED BY <2>4 DEF f, rank
<1> DEFINE c == [j \in 1 .. n |-> CHOOSE i \in kept : Cardinality(R(i)) = j]
<1>8. \A j \in 1 .. n : c[j] \in kept /\ Cardinality(R(c[j])) = j BY <1>7
<1>9. \A j \in 1 .. n : w[j] = s[c[j]] BY <1>w
<1>10. DOMAIN w = 1 .. n BY <1>w
<1>11. \A i \in kept : \E j \in 1 .. n : c[j] = i
  <2> TAKE i \in kept
  <2> DEFINE j == Cardinality(R(i))
  <2>1. j \in 1 .. n BY <1>4
  <2>2. c[j] \in kept /\ Cardinality(R(c[j])) = j BY <1>8, <2>1
  <2> HIDE DEF c
  <2>3. ~(c[j] < i) /\ ~(i < c[j])
    <3>1. Cardinality(R(i)) \in Int /\ ~(Cardinality(R(i)) < Cardinality(R(i))) BY <1>2, <1>4
    <3>2. Cardinality(R(c[j])) = Cardinality(R(i)) BY <2>2 DEF j
    <3> QED BY <1>5, <2>2, <3>1, <3>2
  <2>4. c[j] = i BY <1>k, <2>2, <2>3
  <2> QED BY <2>1, <2>4
<1> HIDE DEF c
<1>12. \A j \in 1 .. n : w[j] \in S BY <1>8, <1>9, <1>d
<1>13. w \in Seq(S)
  <2>1. w = [j \in 1 .. n |-> w[j]] BY <1>w, <1>10
  <2> QED BY <1>2, <1>12, <2>1
<1>14. ToSet(w) \subseteq ToSet(s) \ A BY <1>8, <1>9, <1>10, <1>d DEF ToSet
<1>15. ToSet(s) \ A \subseteq ToSet(w)
  <2> SUFFICES ASSUME NEW i \in DOMAIN s, s[i] \notin A PROVE s[i] \in ToSet(w)
    BY DEF ToSet
  <2>1. PICK j \in 1 .. n : c[j] = i BY <1>11, <1>e
  <2>2. w[j] = s[i] /\ j \in DOMAIN w BY <1>9, <1>10, <2>1
  <2> QED BY <2>2 DEF ToSet
<1> QED BY <1>13, <1>14, <1>15 DEF w

(* A new pool is all free.                                                 *)
LEMMA PoolCreated ==
  \A n \in Nat : PoolKind(CdiPoolCreate(Numbers(n)), 1 .. n)
                 /\ InUse(CdiPoolCreate(Numbers(n))) = {}
BY ItemsOfNone DEF PoolKind, CdiPoolCreate, Numbers, InUse, IsInjective

(* CdiPoolGet puts an item in use that was not.                            *)
LEMMA PoolGot ==
  \A S : \A pool :
    PoolKind(pool, S) /\ HasItem(pool) =>
      /\ PoolKind(CdiPoolGet(pool), S)
      /\ NextItem(pool) \in S /\ NextItem(pool) \notin InUse(pool)
      /\ InUse(CdiPoolGet(pool)) = InUse(pool) \cup {NextItem(pool)}
<1> SUFFICES ASSUME NEW S, NEW pool, PoolKind(pool, S), HasItem(pool)
             PROVE  /\ PoolKind(CdiPoolGet(pool), S)
                    /\ NextItem(pool) \in S /\ NextItem(pool) \notin InUse(pool)
                    /\ InUse(CdiPoolGet(pool)) = InUse(pool) \cup {NextItem(pool)}
  OBVIOUS
<1> DEFINE x == NextItem(pool)
<1>1. pool.free \in Seq(S) /\ pool.in_use \in Seq(S) /\ IsInjective(pool.free)
      /\ ToSet(pool.free) \cap ToSet(pool.in_use) = {} /\ pool.free # <<>>
  BY DEF PoolKind, HasItem, InUse
<1>2. x \in S /\ Tail(pool.free) \in Seq(S) /\ IsInjective(Tail(pool.free))
      /\ ToSet(pool.free) = {x} \cup ToSet(Tail(pool.free)) /\ x \notin ToSet(Tail(pool.free))
  BY <1>1, ItemsTaken DEF NextItem
<1> HIDE DEF x
<1> DEFINE one == <<x>>
<1>3. one \in Seq(S) /\ ToSet(one) = {x} BY <1>2 DEF ToSet
<1>5. CdiPoolGet(pool) = [free |-> Tail(pool.free), in_use |-> one \o pool.in_use]
  BY DEF CdiPoolGet, x
<1> HIDE DEF one
<1>4. one \o pool.in_use \in Seq(S)
      /\ ToSet(one \o pool.in_use) = {x} \cup ToSet(pool.in_use)
  BY <1>1, <1>3, ItemsJoined
<1>6. PoolKind(CdiPoolGet(pool), S) BY <1>1, <1>2, <1>4, <1>5 DEF PoolKind, InUse
<1>7. InUse(CdiPoolGet(pool)) = InUse(pool) \cup {x} BY <1>4, <1>5 DEF InUse
<1>8. x \in S /\ x \notin InUse(pool) BY <1>1, <1>2 DEF InUse
<1> QED BY <1>6, <1>7, <1>8 DEF x

(* CdiPoolPut of an item in use takes it, and no other, out of use.        *)
LEMMA PoolPut ==
  \A S : \A pool : \A x \in InUse(pool) :
    PoolKind(pool, S) =>
      PoolKind(CdiPoolPut(pool, x), S) /\ InUse(CdiPoolPut(pool, x)) = InUse(pool) \ {x}
<1> SUFFICES ASSUME NEW S, NEW pool, NEW x \in InUse(pool), PoolKind(pool, S)
             PROVE  PoolKind(CdiPoolPut(pool, x), S)
                    /\ InUse(CdiPoolPut(pool, x)) = InUse(pool) \ {x}
  OBVIOUS
<1>1. pool.free \in Seq(S) /\ pool.in_use \in Seq(S) /\ IsInjective(pool.free)
      /\ ToSet(pool.free) \cap ToSet(pool.in_use) = {} /\ x \in ToSet(pool.in_use)
  BY DEF PoolKind, InUse
<1>2. x \in S BY <1>1, ItemsOf
<1> DEFINE one == <<x>>
<1>3. one \in Seq(S) /\ ToSet(one) = {x} /\ IsInjective(one)
  BY <1>2 DEF ToSet, IsInjective
<1>7. CdiPoolPut(pool, x) =
        [free |-> one \o pool.free, in_use |-> Without(pool.in_use, {x})]
  BY DEF CdiPoolPut
<1> HIDE DEF one
<1>4. x \notin ToSet(pool.free) BY <1>1
<1>5. one \o pool.free \in Seq(S) /\ IsInjective(one \o pool.free)
      /\ ToSet(one \o pool.free) = {x} \cup ToSet(pool.free)
  BY <1>1, <1>3, <1>4, ItemsJoined
<1> DEFINE left == Without(pool.in_use, {x})
<1>6. left \in Seq(S) /\ ToSet(left) = ToSet(pool.in_use) \ {x} BY <1>1, ItemsWithout
<1> DEFINE free == one \o pool.free
<1>8. CdiPoolPut(pool, x) = [free |-> free, in_use |-> left] BY <1>7
<1>9. free \in Seq(S) /\ IsInjective(free) /\ ToSet(free) = {x} \cup ToSet(pool.free)
  BY <1>5
<1> HIDE DEF free, left
<1>10. ToSet(free) \cap ToSet(left) = {} BY <1>1, <1>6, <1>9
<1> QED BY <1>6, <1>8, <1>9, <1>10 DEF PoolKind, InUse

(* So do several puts of different items in use.                           *)
LEMMA PoolPutEach ==
  \A S : \A pool : \A list \in Seq(S) :
    PoolKind(pool, S) /\ IsInjective(list) /\ ToSet(list) \subseteq InUse(pool) =>
      /\ PoolKind(PutEach(pool, list), S)
      /\ InUse(PutEach(pool, list)) = InUse(pool) \ ToSet(list)
<1> SUFFICES ASSUME NEW S, NEW pool, NEW list \in Seq(S), PoolKind(pool, S),
                    IsInjective(list), ToSet(list) \subseteq InUse(pool)
             PROVE  /\ PoolKind(PutEach(pool, list), S)
                    /\ InUse(PutEach(pool, list)) = InUse(pool) \ ToSet(list)
  OBVIOUS
<1>1. pool.free \in Seq(S) /\ pool.in_use \in Seq(S) /\ IsInjective(pool.free)
      /\ ToSet(pool.free) \cap ToSet(pool.in_use) = {}
      /\ ToSet(list) \subseteq ToSet(pool.in_use)
  BY DEF PoolKind, InUse
<1> DEFINE r == Reverse(list)
<1>2. r \in Seq(S) /\ ToSet(r) = ToSet(list) /\ IsInjective(r) BY ItemsReversed
<1> HIDE DEF r
<1>3. ToSet(r) \cap ToSet(pool.free) = {} BY <1>1, <1>2
<1>4. r \o pool.free \in Seq(S) /\ IsInjective(r \o pool.free)
      /\ ToSet(r \o pool.free) = ToSet(list) \cup ToSet(pool.free)
  BY <1>1, <1>2, <1>3, ItemsJoined
<1> DEFINE left == Without(pool.in_use, ToSet(list))
<1>5. left \in Seq(S) /\ ToSet(left) = ToSet(pool.in_use) \ ToSet(list)
  BY <1>1, ItemsWithout
<1> HIDE DEF left
<1>6. PutEach(pool, list) = [free |-> r \o pool.free, in_use |-> left]
  BY DEF PutEach, r, left
<1> QED BY <1>1, <1>4, <1>5, <1>6 DEF PoolKind, InUse

-----------------------------------------------------------------------------
(* Lines of packets, and sizes of sets.                                    *)

(* What it means to be in a line of batches.                               *)
LEMMA InLineIs ==
  \A q, l : \A x : x \in InLine(q, l) <=>
    x \in ToSet(l) \/ \E b \in ToSet(q) : x \in ToSet(b)
<1> TAKE q, l
<1> TAKE x
<1> DEFINE M == {ToSet(b) : b \in ToSet(q)}
<1>1. InLine(q, l) = (UNION M) \cup ToSet(l) BY DEF InLine
<1>2. (\E m \in M : x \in m) <=> \E b \in ToSet(q) : x \in ToSet(b)
  <2>1. \A b \in ToSet(q) : ToSet(b) \in M OBVIOUS
  <2>2. \A m \in M : \E b \in ToSet(q) : m = ToSet(b) OBVIOUS
  <2> HIDE DEF M
  <2> QED BY <2>1, <2>2
<1> HIDE DEF M
<1>3. x \in UNION M <=> \E m \in M : x \in m OBVIOUS
<1> DEFINE U == UNION M
<1> DEFINE T == ToSet(l)
<1> DEFINE I == InLine(q, l)
<1>4. I = U \cup T BY <1>1
<1>5. x \in U <=> \E b \in ToSet(q) : x \in ToSet(b) BY <1>2, <1>3
<1> HIDE DEF I, U, T
<1>6. x \in I <=> x \in U \/ x \in T BY <1>4
<1> QED BY <1>5, <1>6 DEF I, T

(* The types of the items of a line.                                       *)
LEMMA LineOf ==
  \A S : \A q \in Seq(Seq(S)), l \in Seq(S) :
    InLine(q, l) \subseteq S /\ \A i \in DOMAIN q : ToSet(q[i]) \subseteq InLine(q, l)
<1> TAKE S
<1> TAKE q \in Seq(Seq(S)), l \in Seq(S)
<1>1. \A i \in DOMAIN q : q[i] \in Seq(S) /\ q[i] \in ToSet(q) BY DEF ToSet
<1>2. ToSet(q) \subseteq Seq(S) BY ItemsOf
<1>3. ToSet(l) \subseteq S BY ItemsOf
<1>4. \A b \in Seq(S) : ToSet(b) \subseteq S BY ItemsOf
<1>5. \A x \in InLine(q, l) : x \in S BY <1>2, <1>3, <1>4, InLineIs
<1>6. \A i \in DOMAIN q : \A x \in ToSet(q[i]) : x \in InLine(q, l) BY <1>1, InLineIs
<1> QED BY <1>5, <1>6

(* The first packet of the batch being sent leaves the line.               *)
LEMMA LineTaken ==
  \A S : \A q \in Seq(Seq(S)), l \in Seq(S) :
    Lined(q, l) /\ l # <<>> =>
      /\ Lined(q, Tail(l))
      /\ InLine(q, l) = {Head(l)} \cup InLine(q, Tail(l))
      /\ Head(l) \notin InLine(q, Tail(l))
<1> SUFFICES ASSUME NEW S, NEW q \in Seq(Seq(S)), NEW l \in Seq(S), Lined(q, l), l # <<>>
             PROVE  /\ Lined(q, Tail(l))
                    /\ InLine(q, l) = {Head(l)} \cup InLine(q, Tail(l))
                    /\ Head(l) \notin InLine(q, Tail(l))
  OBVIOUS
<1>1. IsInjective(l) BY DEF Lined
<1> DEFINE t == Tail(l)
<1> DEFINE h == Head(l)
<1>2. ToSet(l) = {h} \cup ToSet(t) /\ IsInjective(t) /\ h \notin ToSet(t)
  BY <1>1, ItemsTaken
<1> HIDE DEF t, h
<1>3. \A i \in DOMAIN q : ToSet(q[i]) \cap ToSet(l) = {} BY DEF Lined
<1>4. Lined(q, t) BY <1>2, <1>3 DEF Lined
<1>5. InLine(q, l) = {h} \cup InLine(q, t)
  <2>1. \A x : x \in InLine(q, l) <=> x = h \/ x \in InLine(q, t) BY <1>2, InLineIs
  <2> QED BY <2>1
<1>6. \A b \in ToSet(q) : h \notin ToSet(b)
  <2> TAKE b \in ToSet(q)
  <2>1. PICK i \in DOMAIN q : q[i] = b BY DEF ToSet
  <2>2. ToSet(b) \cap ToSet(l) = {} BY <1>3, <2>1
  <2> QED BY <1>2, <2>2
<1>7. h \notin InLine(q, t) BY <1>2, <1>6, InLineIs
<1> QED BY <1>4, <1>5, <1>7 DEF t, h

(* The next batch becomes the one being sent.                              *)
LEMMA BatchTaken ==
  \A S : \A q \in Seq(Seq(S)) :
    Lined(q, <<>>) /\ q # <<>> =>
      /\ Head(q) \in Seq(S) /\ Tail(q) \in Seq(Seq(S))
      /\ Lined(Tail(q), Head(q))
      /\ InLine(q, <<>>) = InLine(Tail(q), Head(q))
<1> SUFFICES ASSUME NEW S, NEW q \in Seq(Seq(S)), Lined(q, <<>>), q # <<>>
             PROVE  /\ Head(q) \in Seq(S) /\ Tail(q) \in Seq(Seq(S))
                    /\ Lined(Tail(q), Head(q))
                    /\ InLine(q, <<>>) = InLine(Tail(q), Head(q))
  OBVIOUS
<1> DEFINE t == Tail(q)
<1> DEFINE h == Head(q)
<1>1. h \in Seq(S) /\ t \in Seq(Seq(S)) /\ h = q[1] /\ Len(t) = Len(q) - 1 /\ Len(q) \in Nat
      /\ \A i \in 1 .. Len(t) : t[i] = q[i + 1]
  OBVIOUS
<1>0. DOMAIN t = 1 .. Len(t) /\ DOMAIN q = 1 .. Len(q) /\ 1 \in DOMAIN q /\ Len(q) > 0
  OBVIOUS
<1>2. ToSet(q) = {h} \cup ToSet(t) BY ItemsTaken
<1> HIDE DEF t, h
<1>3. \A i \in DOMAIN q : IsInjective(q[i])
      /\ \A j \in DOMAIN q : i # j => ToSet(q[i]) \cap ToSet(q[j]) = {}
  BY DEF Lined
<1>4. \A i \in DOMAIN t : i + 1 \in DOMAIN q /\ t[i] = q[i + 1] /\ i + 1 # 1
  BY <1>0, <1>1
<1>5. \A i, j \in DOMAIN t : i # j => i + 1 # j + 1 BY <1>0
<1>6. Lined(t, h) BY <1>0, <1>1, <1>3, <1>4, <1>5 DEF Lined
<1>7. InLine(q, <<>>) = InLine(t, h)
  <2>1. \A x : x \in InLine(q, <<>>) <=> x \in InLine(t, h) BY <1>2, ItemsOfNone, InLineIs
  <2> QED BY <2>1
<1> QED BY <1>1, <1>6, <1>7 DEF t, h

(* A batch joins the line.                                                 *)
LEMMA BatchAppended ==
  \A S : \A q \in Seq(Seq(S)), l, b \in Seq(S) :
    Lined(q, l) /\ IsInjective(b) /\ ToSet(b) \cap InLine(q, l) = {} =>
      Lined(Append(q, b), l) /\ InLine(Append(q, b), l) = InLine(q, l) \cup ToSet(b)
<1> SUFFICES ASSUME NEW S, NEW q \in Seq(Seq(S)), NEW l \in Seq(S), NEW b \in Seq(S),
                    Lined(q, l), IsInjective(b), ToSet(b) \cap InLine(q, l) = {}
             PROVE  Lined(Append(q, b), l)
                    /\ InLine(Append(q, b), l) = InLine(q, l) \cup ToSet(b)
  OBVIOUS
<1> DEFINE r == Append(q, b)
<1>1. DOMAIN r = 1 .. Len(q) + 1 /\ DOMAIN q = 1 .. Len(q) /\ Len(q) \in Nat
      /\ r[Len(q) + 1] = b /\ \A i \in 1 .. Len(q) : r[i] = q[i]
  OBVIOUS
<1>2. ToSet(r) = ToSet(q) \cup {b} BY ItemsAppended
<1> HIDE DEF r
<1>3. InLine(r, l) = InLine(q, l) \cup ToSet(b)
  <2>1. \A x : x \in InLine(r, l) <=> x \in InLine(q, l) \/ x \in ToSet(b)
    BY <1>2, InLineIs
  <2> QED BY <2>1
<1>4. ToSet(b) \cap ToSet(l) = {} /\ \A i \in DOMAIN q : ToSet(b) \cap ToSet(q[i]) = {}
  <2>1. ToSet(l) \subseteq InLine(q, l) BY InLineIs
  <2> QED BY <2>1, LineOf
<1>5. \A i \in DOMAIN r : i = Len(q) + 1 \/ i \in DOMAIN q BY <1>1
<1>6. \A i \in DOMAIN r : IsInjective(r[i]) /\ ToSet(r[i]) \cap ToSet(l) = {}
  BY <1>1, <1>4, <1>5 DEF Lined
<1>7. \A i, j \in DOMAIN r : i # j => ToSet(r[i]) \cap ToSet(r[j]) = {}
  <2> SUFFICES ASSUME NEW i \in DOMAIN r, NEW j \in DOMAIN r, i # j
               PROVE  ToSet(r[i]) \cap ToSet(r[j]) = {}
    OBVIOUS
  <2>1. CASE i = Len(q) + 1
    <3>1. j \in DOMAIN q /\ r[j] = q[j] /\ r[i] = b BY <1>1, <1>5, <2>1
    <3> QED BY <1>4, <3>1
  <2>2. CASE j = Len(q) + 1
    <3>1. i \in DOMAIN q /\ r[i] = q[i] /\ r[j] = b BY <1>1, <1>5, <2>2
    <3> QED BY <1>4, <3>1
  <2>3. CASE i \in DOMAIN q /\ j \in DOMAIN q
    <3>1. r[i] = q[i] /\ r[j] = q[j] BY <1>1, <2>3
    <3> QED BY <2>3, <3>1 DEF Lined
  <2> QED BY <1>5, <2>1, <2>2, <2>3
<1>8. IsInjective(l) BY DEF Lined
<1>9. Lined(r, l) BY <1>6, <1>7, <1>8 DEF Lined
<1> QED BY <1>3, <1>9 DEF r

(* A line of nothing.                                                      *)
LEMMA EmptyLine == Lined(<<>>, <<>>) /\ InLine(<<>>, <<>>) = {}
<1>1. DOMAIN <<>> = {} /\ ToSet(<<>>) = {} /\ IsInjective(<<>>) BY ItemsOfNone
<1> QED BY <1>1 DEF Lined, InLine

(* The size of a set that gains or loses one element.                      *)
LEMMA OneMore ==
  ASSUME NEW S, NEW x, IsFiniteSet(S)
  PROVE  /\ x \notin S => Cardinality(S \cup {x}) = Cardinality(S) + 1
         /\ x \in S => Cardinality(S \ {x}) = Cardinality(S) - 1
         /\ IsFiniteSet(S \cup {x}) /\ IsFiniteSet(S \ {x})
         /\ Cardinality(S) \in Nat
BY FS_AddElement, FS_RemoveElement, FS_CardinalityType

(* The size of the union of two sets apart.                                *)
LEMMA DisjointUnion ==
  ASSUME NEW S, NEW T, IsFiniteSet(S), IsFiniteSet(T), S \cap T = {}
  PROVE  IsFiniteSet(S \cup T) /\ Cardinality(S \cup T) = Cardinality(S) + Cardinality(T)
<1>1. Cardinality({}) = 0 BY FS_EmptySet
<1>2. Cardinality(S) \in Int /\ Cardinality(T) \in Int BY FS_CardinalityType
<1>3. Cardinality(S \cup T) = Cardinality(S) + Cardinality(T) - Cardinality({})
  BY FS_Union
<1> QED BY <1>1, <1>2, <1>3, FS_Union

-----------------------------------------------------------------------------
(* Constants, types and steps that leave things alone.                     *)

(* The types of the constants and of what is computed from them.           *)
LEMMA ConstantFacts ==
  /\ Packets \in Seq(Nat \ {0}) /\ \A p \in Payload : Packets[p] \in Nat /\ Packets[p] > 0
  /\ Streams \in Nat /\ Streams > 0 /\ MaxTxPayloads \in Nat /\ WorkRequests \in Nat
  /\ PacketSglEntries \in Nat /\ PayloadSglEntries \in Nat /\ Batches \in Nat
  /\ Messages \in Nat /\ PayloadNumMax \in Nat /\ EntriesPerPacket = 2
  /\ None \notin Slot /\ None \notin WorkRequest /\ None \notin Payload
  /\ Slot \subseteq Nat /\ WorkRequest \subseteq Nat /\ IsFiniteSet(Slot)
  /\ IsFiniteSet(WorkRequest)
<1>1. Packets \in Seq(Nat \ {0}) BY TxAssumption
<1>2. \A p \in Payload : Packets[p] \in Nat /\ Packets[p] > 0 BY <1>1 DEF Payload
<1>3. /\ Streams \in Nat \ {0} /\ MaxTxPayloads \in Nat \ {0} /\ WorkRequests \in Nat \ {0}
      /\ PacketSglEntries \in Nat \ {0} /\ PayloadSglEntries \in Nat \ {0}
      /\ Batches \in Nat \ {0} /\ Messages \in Nat \ {0} /\ PayloadNumMax \in Nat
  BY TxAssumption
<1>4. /\ None \notin Slot /\ None \notin WorkRequest /\ None \notin Payload
  <2>1. None \notin Int BY TxAssumption
  <2> QED BY <1>1, <1>3, <2>1 DEF Slot, WorkRequest, Payload
<1>5. IsFiniteSet(Slot) /\ IsFiniteSet(WorkRequest)
  BY <1>3, FS_Interval DEF Slot, WorkRequest
<1>6. Slot \subseteq Nat /\ WorkRequest \subseteq Nat BY <1>3 DEF Slot, WorkRequest
<1>7. Streams > 0 /\ EntriesPerPacket = 2 BY <1>3 DEF EntriesPerPacket
<1> QED BY <1>1, <1>2, <1>3, <1>4, <1>5, <1>6, <1>7

(* What it means that a packet is on its way.                              *)
LEMMA MovingIs ==
  \A w : w \in Moving <=> w \in ToSet(List) \/ \E e \in Endpoint : w \in Sent(e)
<1> TAKE w
<1> DEFINE M == {Sent(e) : e \in Endpoint}
<1> DEFINE U == UNION M
<1>1. w \in U <=> \E e \in Endpoint : w \in Sent(e)
  <2>1. \A e \in Endpoint : Sent(e) \in M OBVIOUS
  <2>2. \A m \in M : \E e \in Endpoint : m = Sent(e) OBVIOUS
  <2> HIDE DEF M
  <2> QED BY <2>1, <2>2
<1>2. Moving = ToSet(List) \cup U BY DEF Moving
<1> HIDE DEF U
<1> QED BY <1>1, <1>2

(* The packets queued for an endpoint are its line.                        *)
LEMMA QueuedIs ==
  \A e : Queued(e) = InLine(tx_packet_queue[e], tx_packet_waiting_list[e])
BY DEF Queued, InLine

(* The types of the places, all of them finite.                            *)
LEMMA SetsTyped ==
  ASSUME Kinds
  PROVE  /\ Used \subseteq Slot /\ IsFiniteSet(Used) /\ IsFiniteSet(Holding)
         /\ Live \subseteq Used /\ IsFiniteSet(Live)
         /\ Calling \subseteq Slot /\ ToSet(payload_queue) \subseteq Slot
         /\ Unbegun \subseteq Slot
         /\ Moving \subseteq WorkRequest /\ IsFiniteSet(Moving)
         /\ ToSet(List) \subseteq WorkRequest
         /\ Freed \subseteq WorkRequest /\ IsFiniteSet(Freed)
         /\ Holder \subseteq WorkRequest /\ IsFiniteSet(Holder)
         /\ \A s \in Slot : Completed(s) \subseteq WorkRequest
         /\ Hand \in Slot \cup {None} /\ Parked \in Slot \cup {None}
         /\ Request \in WorkRequest \cup {None}
<1>1. /\ payload_state_pool.in_use \in Seq(Slot) /\ work_request_pool.in_use \in Seq(WorkRequest)
      /\ payload_queue \in Seq(Slot) /\ work_req_comp_queue \in Seq(WorkRequest)
      /\ List \in Seq(WorkRequest)
      /\ \A s \in Slot : payload_states[s].completed \in Seq(WorkRequest)
      /\ \A a \in App : app[a].slot \in Slot \cup {None}
      /\ Hand \in Slot \cup {None} /\ Parked \in Slot \cup {None}
      /\ Request \in WorkRequest \cup {None}
  BY DEF Kinds, AppKind, StateKind, PoolKind, ThreadKind, RequestKind, PollKind, List, Hand,
         Parked, Request
<1>2. Used \subseteq Slot /\ IsFiniteSet(Used) BY <1>1, ItemsOf DEF Used, InUse
<1>3. Holder \subseteq WorkRequest /\ IsFiniteSet(Holder) BY <1>1, ItemsOf DEF Holder, InUse
<1>4. ToSet(payload_queue) \subseteq Slot /\ Freed \subseteq WorkRequest /\ IsFiniteSet(Freed)
      /\ ToSet(List) \subseteq WorkRequest
  BY <1>1, ItemsOf DEF Freed
<1>5. \A s \in Slot : Completed(s) \subseteq WorkRequest BY <1>1, ItemsOf DEF Completed
<1>6. Calling \subseteq Slot BY <1>1 DEF Calling, AppSlot
<1>7. \A e \in Endpoint : Sent(e) \subseteq WorkRequest
  <2> TAKE e \in Endpoint
  <2>1. tx_packet_queue[e] \in Seq(Seq(WorkRequest))
        /\ tx_packet_waiting_list[e] \in Seq(WorkRequest) /\ in_flight[e] \subseteq WorkRequest
    BY DEF Kinds, LineKind
  <2> QED BY <2>1, LineOf, QueuedIs DEF Sent
<1>8. Moving \subseteq WorkRequest BY <1>4, <1>7, MovingIs
<1>9. IsFiniteSet(Moving) BY <1>8, ConstantFacts, FS_Subset
<1>10. Live \subseteq Used /\ IsFiniteSet(Live) BY <1>2, FS_Subset DEF Live
<1>11. IsFiniteSet(Holding)
  <2>1. Holding \subseteq Used BY DEF Holding, Used
  <2> QED BY <1>2, <2>1, FS_Subset
<1> QED BY <1>1, <1>2, <1>3, <1>4, <1>5, <1>6, <1>8, <1>9, <1>10, <1>11 DEF Unbegun

(* SlotsApart is about the places of payload states only.                  *)
LEMMA SlotsFrame ==
  ASSUME SlotsApart, AppSlot' = AppSlot, payload_queue' = payload_queue, Hand' = Hand,
         Parked' = Parked, Used' = Used
  PROVE  SlotsApart'
BY DEF SlotsApart, Unbegun, Calling

(* When those do not change, the fresh ones are the same.                  *)
LEMMA SetsFrame ==
  ASSUME AppSlot' = AppSlot, payload_queue' = payload_queue, Hand' = Hand,
         Doing' = Doing
  PROVE  Calling' = Calling /\ Unbegun' = Unbegun /\ Fresh' = Fresh
BY DEF Calling, Unbegun, Fresh

(* FreshIsNew stays when no payload state becomes fresh.                   *)
LEMMA FreshFrame ==
  ASSUME FreshIsNew, Fresh' \subseteq Fresh, payload_states' = payload_states
  PROVE  FreshIsNew'
BY DEF FreshIsNew

(* PayloadsApart stays when no payload is accepted or begun.               *)
LEMMA PayloadsFrame ==
  ASSUME PayloadsApart, Used' \subseteq Used, payload_states' = payload_states,
         accepted_count' = accepted_count, accepted' = accepted,
         Used' \cap Calling \subseteq Calling'
  PROVE  PayloadsApart'
BY DEF PayloadsApart

(* LinesApart is about the places of packets only.                         *)
LEMMA LinesFrame ==
  ASSUME LinesApart, List' = List, tx_packet_queue' = tx_packet_queue,
         tx_packet_waiting_list' = tx_packet_waiting_list, in_flight' = in_flight
  PROVE  LinesApart' /\ Moving' = Moving /\ \A e : Sent(e)' = Sent(e)
<1>1. \A e : Queued(e)' = Queued(e) BY DEF Queued
<1>2. \A e : Sent(e)' = Sent(e) BY <1>1 DEF Sent
<1>3. LinesApart' BY <1>1, <1>2 DEF LinesApart
<1>4. Moving' = Moving BY <1>2 DEF Moving
<1> QED BY <1>2, <1>3, <1>4

(* PacketsBelong stays when packets leave and payload states in use stay.  *)
LEMMA BelongFrame ==
  ASSUME PacketsBelong, Moving' \subseteq Moving, ToSet(List)' \subseteq ToSet(List),
         work_requests' = work_requests, payload_states' = payload_states,
         Live \ Fresh \subseteq Live' \ Fresh', Hand' = Hand \/ ToSet(List)' = {},
         \A e \in Endpoint : Sent(e)' \subseteq Sent(e)
  PROVE  PacketsBelong'
BY DEF PacketsBelong, StateOf

(* RequestsApart stays when no work request goes to another place.         *)
LEMMA RequestsFrame ==
  ASSUME RequestsApart, work_req_comp_queue' = work_req_comp_queue, Moving' \subseteq Moving,
         Request' = Request \/ Request' = None, None \notin WorkRequest,
         Moving \cup Freed \subseteq WorkRequest,
         Holder' = Holder, Live' \subseteq Live, payload_states' = payload_states,
         work_requests' = work_requests, \A s \in Live : None \notin Completed(s)
  PROVE  RequestsApart'
<1>1. Freed' = Freed /\ \A s : Completed(s)' = Completed(s) /\ \A w : StateOf(w)' = StateOf(w)
  BY DEF Freed, Completed, StateOf
<1> QED BY <1>1 DEF RequestsApart

(* PacketsCounted stays when no packet is made or completed.               *)
LEMMA CountedFrame ==
  ASSUME PacketsCounted, Live' \subseteq Live, payload_states' = payload_states,
         work_requests' = work_requests, Moving' = Moving,
         Fresh \cap Live' \subseteq Fresh' \cup {Hand'}, Hand' = Hand, Doing' = Doing,
         payload_thread.last' = payload_thread.last
  PROVE  PacketsCounted'
<1>1. \A s : Mine(s)' = Mine(s) /\ Size(s)' = Size(s) /\ Made(s)' = Made(s)
  BY DEF Mine, Size, Made, StateOf
<1>2. \A s \in Live' : /\ payload_states'[s].transferred = Len(payload_states'[s].completed)
                       /\ Made(s)' <= Size(s)'
                       /\ payload_states'[s].transferred + Cardinality(Mine(s)') <= Made(s)'
  BY <1>1 DEF PacketsCounted
<1>3. \A s \in Live' : s \notin Fresh' \cup {Hand'} => Made(s)' = Size(s)'
  BY <1>1 DEF PacketsCounted
<1>4. /\ Doing' \in {"GetWorkRequest", "Packetizing"} => Made(Hand)' < Size(Hand)'
      /\ Doing' = "Enqueuing" => (payload_thread.last' <=> Made(Hand)' = Size(Hand)')
  BY <1>1 DEF PacketsCounted, Made, Size
<1> QED BY <1>2, <1>3, <1>4 DEF PacketsCounted

(* What is undisturbed after a step was so before it.                      *)
LEMMA UndisturbedFrame ==
  ASSUME losses' = losses, unacked \subseteq unacked', Undisturbed'
  PROVE  Undisturbed
BY DEF Undisturbed

(* LastIsLast stays when no packet is made or completed.                   *)
LEMMA LastFrame ==
  ASSUME LastIsLast, Live' \subseteq Live, payload_states' = payload_states,
         work_requests' = work_requests, Moving' = Moving,
         losses' = losses, unacked \subseteq unacked'
  PROVE  LastIsLast'
<1>1. \A s : Mine(s)' = Mine(s) /\ Size(s)' = Size(s) /\ Made(s)' = Made(s)
             /\ Completed(s)' = Completed(s)
  BY DEF Mine, Size, Made, StateOf, Completed
<1>2. Undisturbed' => Undisturbed BY UndisturbedFrame
<1> QED BY <1>1, <1>2 DEF LastIsLast

(* NothingLeaks stays when the places of the work requests do.             *)
LEMMA NothingLeaksFrame ==
  ASSUME NothingLeaks, losses' = losses, unacked \subseteq unacked', Holder' = Holder,
         Moving' = Moving, work_req_comp_queue' = work_req_comp_queue, Request' = Request,
         Live' = Live, payload_states' = payload_states
  PROVE  NothingLeaks'
<1>1. Freed' = Freed /\ \A s : Completed(s)' = Completed(s) BY DEF Freed, Completed
<1>2. Undisturbed' => Undisturbed BY UndisturbedFrame
<1> QED BY <1>1, <1>2 DEF NothingLeaks, Held

(* Counted stays when no packet is made or completed and none begins.      *)
LEMMA ReferencesFrame ==
  ASSUME Counted, losses' = losses, unacked \subseteq unacked',
         tx_in_flight_ref_count' = tx_in_flight_ref_count, Moving' = Moving,
         work_requests' = work_requests, payload_states' = payload_states,
         Live' \ Unbegun' = Live \ Unbegun
  PROVE  Counted'
<1>1. \A e : OnWay(e)' = OnWay(e) BY DEF OnWay, StateOf
<1>2. \A e : BegunAt(e)' = BegunAt(e)
  <2>1. \A e : BegunAt(e) = {s \in Live \ Unbegun : payload_states[s].endpoint = e
                               /\ \A w \in Completed(s) : ~work_requests[w].last}
    BY DEF BegunAt
  <2>2. \A e : BegunAt(e)' = {s \in Live' \ Unbegun' : payload_states'[s].endpoint = e
                               /\ \A w \in Completed(s)' : ~work_requests'[w].last}
    BY DEF BegunAt
  <2>3. \A s : Completed(s)' = Completed(s) BY DEF Completed
  <2> QED BY <2>1, <2>2, <2>3
<1>3. Undisturbed' => Undisturbed BY UndisturbedFrame
<1> QED BY <1>1, <1>2, <1>3 DEF Counted

(* EntriesKeptTrack stays when no work request is got or put.              *)
LEMMA EntriesFrame ==
  ASSUME EntriesKeptTrack, packet_sgl_entries' = packet_sgl_entries,
         payload_thread.entries' = payload_thread.entries, Holder' = Holder,
         Request' = Request
  PROVE  EntriesKeptTrack'
BY DEF EntriesKeptTrack, Held

(* The entries of the payloads stay with the payloads held.                *)
LEMMA SourceFrame ==
  ASSUME SourceEntriesHavePlaces, payload_sgl_entries' = payload_sgl_entries,
         Holding' = Holding, app_payload_message_queue' = app_payload_message_queue
  PROVE  SourceEntriesHavePlaces'
BY DEF SourceEntriesHavePlaces

(* ToldOnce stays when nothing new is told and no payload begins.          *)
LEMMA ToldFrame ==
  ASSUME ToldOnce, app_payload_message_queue' = app_payload_message_queue,
         returned' = returned, accepted \subseteq accepted', Holding' \subseteq Holding,
         payload_states' = payload_states
  PROVE  ToldOnce'
BY DEF ToldOnce

(* A step that leaves the packets alone keeps all that is about them ...   *)
LEMMA CoreFrame ==
  ASSUME Kinds, Core, Unbegun' = Unbegun, Fresh' = Fresh, Hand' = Hand, Doing' = Doing,
         Live' = Live, Request' = Request, List' = List,
         payload_thread.last' = payload_thread.last,
         payload_thread.entries' = payload_thread.entries, unacked \subseteq unacked',
         UNCHANGED <<payload_states, requests, work_req_comp_queue, waiting, in_flight,
                     tx_in_flight_ref_count, losses>>
  PROVE  Core'
<1>1. Holder' = Holder BY DEF Holder, requests
<1>2. LinesApart' /\ Moving' = Moving /\ \A e : Sent(e)' = Sent(e)
  BY LinesFrame DEF Core, waiting
<1>3. FreshIsNew' BY FreshFrame DEF Core
<1>4. PacketsBelong' BY <1>2, BelongFrame DEF Core, requests
<1>5. RequestsApart'
  <2>1. Moving \cup Freed \subseteq WorkRequest /\ None \notin WorkRequest
        /\ \A s \in Live : None \notin Completed(s)
    BY SetsTyped, ConstantFacts
  <2> QED BY <1>1, <1>2, <2>1, RequestsFrame DEF Core, requests
<1>6. NothingLeaks' BY <1>1, <1>2, NothingLeaksFrame DEF Core
<1>7. PacketsCounted' BY <1>2, CountedFrame DEF Core, requests
<1>8. LastIsLast' BY <1>2, LastFrame DEF Core, requests
<1>9. Counted' BY <1>2, ReferencesFrame DEF Core, requests
<1>10. EntriesKeptTrack' BY <1>1, EntriesFrame DEF Core, requests
<1> QED BY <1>2, <1>3, <1>4, <1>5, <1>6, <1>7, <1>8, <1>9, <1>10 DEF Core

(* ... and one that leaves the payload states where they are, everything.  *)
LEMMA QuietFrame ==
  ASSUME Kinds, Placed,
         AppSlot' = AppSlot, Hand' = Hand, Doing' = Doing, Parked' = Parked,
         Request' = Request, List' = List, Holding' = Holding,
         payload_thread.last' = payload_thread.last,
         payload_thread.entries' = payload_thread.entries,
         UNCHANGED <<accepted_count, states, payload_sgl_entries, payload_queue, requests,
                     work_req_comp_queue, waiting, in_flight, tx_in_flight_ref_count,
                     app_payload_message_queue, losses, accepted, returned, unacked>>
  PROVE  Placed'
<1>1. Used' = Used /\ Live' = Live BY DEF Used, Live, states
<1>2. Calling' = Calling /\ Unbegun' = Unbegun /\ Fresh' = Fresh BY SetsFrame
<1>3. Core' BY <1>1, <1>2, CoreFrame DEF Placed, states
<1>4. SlotsApart' BY <1>1, SlotsFrame DEF Placed
<1>5. PayloadsApart' BY <1>1, <1>2, PayloadsFrame DEF Placed, states
<1>6. SourceEntriesHavePlaces' BY SourceFrame DEF Placed
<1>7. ToldOnce' BY ToldFrame DEF Placed, states
<1> QED BY <1>3, <1>4, <1>5, <1>6, <1>7 DEF Placed

-----------------------------------------------------------------------------
(* Steps that move nothing.                                                *)

(* A call of the application begins, or is refused at once.                *)
LEMMA SubmitStep ==
  ASSUME IInv, NEW a \in App, Submit(a) \/ Refuse(a)
  PROVE  IInv'
<1>1. app \in [App -> [pc : {"idle", "get", "push"}, endpoint : Endpoint,
                       slot : Slot \cup {None}]]
      /\ \A b \in App : app[b].slot = None <=> app[b].pc # "push"
  BY DEF IInv, Kinds, AppKind, Control, AppSlot
<1>3. app[a].slot = None BY <1>1 DEF Submit, Refuse
<1>2. PICK pc \in {"idle", "get"}, e \in Endpoint :
        app' = [app EXCEPT ![a] = [pc |-> pc, endpoint |-> e, slot |-> None]]
  <2>1. CASE Submit(a)
    <3>1. PICK e \in Endpoint :
            app' = [app EXCEPT ![a] = [pc |-> "get", endpoint |-> e, slot |-> None]]
      BY <2>1 DEF Submit
    <3> QED BY <3>1
  <2>2. CASE Refuse(a)
    <3>1. app' = [app EXCEPT ![a] = [app[a] EXCEPT !.pc = "idle"]] BY <2>2 DEF Refuse
    <3>2. app[a].endpoint \in Endpoint
          /\ [app[a] EXCEPT !.pc = "idle"]
               = [pc |-> "idle", endpoint |-> app[a].endpoint, slot |-> None]
      BY <1>1, <1>3
    <3> QED BY <3>1, <3>2
  <2> QED BY <2>1, <2>2
<1>4. /\ app' \in [App -> [pc : {"idle", "get", "push"}, endpoint : Endpoint,
                           slot : Slot \cup {None}]]
      /\ \A b \in App : app'[b].slot = app[b].slot
      /\ \A b \in App : app'[b].slot = None <=> app'[b].pc # "push"
  BY <1>1, <1>2, <1>3
<1>5. AppSlot' = AppSlot BY <1>4 DEF AppSlot
<1>6. UNCHANGED <<accepted_count, states, payload_sgl_entries, payload_queue,
                 payload_thread, requests, work_req_comp_queue, waiting, in_flight,
                 tx_in_flight_ref_count, tx_poll_do_work_signal, poll_thread,
                 app_payload_message_queue, payload_num, link, history>>
  BY DEF Submit, Refuse
<1>7. Hand' = Hand /\ Doing' = Doing /\ Parked' = Parked /\ Request' = Request /\ List' = List
      /\ Holding' = Holding /\ payload_thread.last' = payload_thread.last
      /\ payload_thread.entries' = payload_thread.entries
  BY <1>6 DEF Hand, Doing, Parked, Request, List, Holding, Polls, states
<1>8. Kinds'
  <2>1. AppKind' BY <1>4 DEF AppKind
  <2>2. StateKind' /\ ThreadKind' /\ RequestKind'
    BY <1>6 DEF IInv, Kinds, StateKind, ThreadKind, RequestKind, states, requests
  <2>3. LineKind' /\ PollKind' /\ ReturnKind'
    BY <1>6 DEF IInv, Kinds, LineKind, PollKind, ReturnKind, waiting, history
  <2> QED BY <2>1, <2>2, <2>3 DEF Kinds
<1>9. Calm' BY <1>6 DEF IInv, Calm, Connected, link
<1>10. Control' BY <1>4, <1>6, <1>7 DEF IInv, Control, Thread, Polls, AppSlot
<1>11. Placed' BY <1>5, <1>6, <1>7, QuietFrame DEF IInv, link, history
<1> QED BY <1>8, <1>9, <1>10, <1>11 DEF IInv

(* TxPayloadThread goes on to another step.                                *)

(* The payload thread goes on to another wait.                             *)
LEMMA ThreadQuiet ==
  ASSUME IInv, NEW pc \in {"wait", "free"}, Goto(pc), OnlyPayloadThread,
         ~Thread("signal") \/ pc = "free", Doing = "WorkReceived" => pc = "free",
         UNCHANGED <<payload_states, payload_queue, requests, work_req_comp_queue, waiting,
                 in_flight, tx_in_flight_ref_count, payload_num>>,
         tx_poll_do_work_signal' \in BOOLEAN
  PROVE  IInv'
<1>1. ThreadKind BY DEF IInv, Kinds
<1>2. /\ ThreadKind' /\ payload_thread'.pc = pc
      /\ Hand' = Hand /\ Doing' = Doing /\ Request' = Request /\ List' = List
      /\ payload_thread'.last = payload_thread.last
      /\ payload_thread'.entries = payload_thread.entries
  BY <1>1 DEF ThreadKind, Goto, Hand, Doing, Request, List
<1>3. AppSlot' = AppSlot /\ Parked' = Parked /\ Holding' = Holding
  BY DEF OnlyPayloadThread, AppSlot, Parked, Holding, Polls
<1>4. Kinds'
  <2>1. AppKind' /\ StateKind' /\ RequestKind' /\ LineKind' /\ PollKind' /\ ReturnKind'
    BY DEF OnlyPayloadThread, IInv, Kinds, AppKind, StateKind, RequestKind, LineKind, PollKind,
           ReturnKind, requests, waiting, history
  <2> QED BY <1>2, <2>1 DEF Kinds
<1>5. Calm' BY DEF IInv, OnlyPayloadThread, Calm, Connected, link
<1>6. Control'
  <2>1. app' = app /\ poll_thread' = poll_thread BY DEF OnlyPayloadThread
  <2> QED BY <1>2, <1>3, <2>1 DEF IInv, Control, Thread, Polls
<1>7. Placed'
  <2>1. UNCHANGED <<accepted_count, states, payload_sgl_entries, payload_queue, requests,
                    work_req_comp_queue, waiting, in_flight, tx_in_flight_ref_count,
                    app_payload_message_queue, losses, accepted, returned, unacked>>
    BY DEF OnlyPayloadThread, link, history, states
  <2> QED BY <1>2, <1>3, <2>1, QuietFrame DEF IInv
<1> QED BY <1>4, <1>5, <1>6, <1>7 DEF IInv

(* It wakes the poll thread, or is woken by a completion.                  *)
LEMMA SignalStep ==
  ASSUME IInv, SetDoWorkSignal \/ TakeCompletion
  PROVE  IInv'
<1>1. CASE SetDoWorkSignal BY <1>1, ThreadQuiet DEF SetDoWorkSignal
<1>2. CASE TakeCompletion
  <2>1. ~Thread("signal") BY <1>2 DEF TakeCompletion, Thread
  <2>2. tx_poll_do_work_signal' \in BOOLEAN
    BY <1>2 DEF TakeCompletion, IInv, Kinds, PollKind
  <2> QED BY <1>2, <2>1, <2>2, ThreadQuiet DEF TakeCompletion
<1> QED BY <1>1, <1>2

(* The poll thread goes on to another endpoint or to sleep.                *)
LEMMA PollQuiet ==
  ASSUME IInv, OnlyPollThread, PollKind', Parked' = Parked, Polls("put")' = Polls("put"),
         Polls("transfer")' = Polls("transfer"),
         UNCHANGED <<states, payload_sgl_entries, requests, work_req_comp_queue, waiting,
                 in_flight, tx_in_flight_ref_count, app_payload_message_queue, unacked>>
  PROVE  IInv'
<1>1. Hand' = Hand /\ Doing' = Doing /\ Request' = Request /\ List' = List
      /\ payload_thread'.last = payload_thread.last
      /\ payload_thread'.entries = payload_thread.entries
      /\ AppSlot' = AppSlot /\ Holding' = Holding
  BY DEF OnlyPollThread, Hand, Doing, Request, List, AppSlot, Parked, Holding, states
<1>2. Kinds'
  <2>1. AppKind' /\ StateKind' /\ ThreadKind' /\ RequestKind' /\ LineKind' /\ ReturnKind'
    BY DEF OnlyPollThread, IInv, Kinds, AppKind, StateKind, ThreadKind, RequestKind, LineKind,
           ReturnKind, requests, waiting, states
  <2> QED BY <2>1 DEF Kinds
<1>3. Calm' BY DEF IInv, OnlyPollThread, Calm, Connected, link
<1>4. Control' BY <1>1 DEF IInv, Control, Thread, OnlyPollThread
<1>5. Placed'
  <2>1. UNCHANGED <<accepted_count, states, payload_sgl_entries, payload_queue, requests,
                    work_req_comp_queue, waiting, in_flight, tx_in_flight_ref_count,
                    app_payload_message_queue, losses, accepted, returned, unacked>>
    BY DEF OnlyPollThread, link
  <2> QED BY <1>1, <2>1, QuietFrame DEF IInv
<1> QED BY <1>2, <1>3, <1>4, <1>5 DEF IInv

(* The types of the walk over the endpoints.                               *)
LEMMA LeftFacts ==
  /\ EndpointList \in Seq(Endpoint) \ {<<>>}
  /\ \A left \in Seq(Endpoint) \ {<<>>} :
       Head(left) \in Endpoint /\ Tail(left) \in Seq(Endpoint)
<1>1. EndpointList \in Seq(Endpoint) /\ Len(EndpointList) > 0
  BY ConstantFacts DEF EndpointList, Numbers, Endpoint
<1> QED BY <1>1

(* The steps of the poll thread that move nothing.                         *)
LEMMA PollStep ==
  ASSUME IInv, NothingToSend \/ NextEndpoint \/ RecheckReferences \/ PollAgain
  PROVE  IInv'
<1>1. PollKind BY DEF IInv, Kinds
<1>2. OnlyPollThread
      /\ UNCHANGED <<states, payload_sgl_entries, requests, work_req_comp_queue, waiting,
                 in_flight, tx_in_flight_ref_count, app_payload_message_queue, unacked>>
  BY DEF NothingToSend, NextEndpoint, RecheckReferences, PollAgain
<1>3. PollKind' /\ Parked' = Parked /\ Polls("put")' = Polls("put")
      /\ Polls("transfer")' = Polls("transfer")
  <2>1. CASE NothingToSend
    <3>1. IdleAfter(Polled, in_flight[Polled]) \in BOOLEAN BY <1>1 DEF IdleAfter, PollKind
    <3> QED BY <1>1, <2>1, <3>1 DEF NothingToSend, PollKind, Polls, Parked
  <2>2. CASE NextEndpoint
    BY <1>1, <2>2, LeftFacts DEF NextEndpoint, PollKind, Polls, Parked
  <2>3. CASE RecheckReferences
    BY <1>1, <2>3, LeftFacts DEF RecheckReferences, PollKind, Polls, Parked, IsBusy
  <2>4. CASE PollAgain BY <1>1, <2>4 DEF PollAgain, PollKind, Polls, Parked
  <2> QED BY <2>1, <2>2, <2>3, <2>4
<1> QED BY <1>2, <1>3, PollQuiet

-----------------------------------------------------------------------------
(* A payload gets its payload state.                                       *)

(* What TxPayloadInternal does when it takes a payload state.              *)
LEMMA GetEffect ==
  ASSUME IInv, NEW a \in App, GetPayloadState(a)
  PROVE  \E s \in Slot :
    /\ s \notin Used /\ PoolKind(payload_state_pool', Slot) /\ Used' = Used \cup {s}
    /\ payload_states'[s] = NewPayloadState(accepted_count + 1, app[a].endpoint)
    /\ \A t \in Slot \ {s} : payload_states'[t] = payload_states[t]
    /\ StateKind' /\ AppKind' /\ AppSlot[a] = None /\ AppSlot' = [AppSlot EXCEPT ![a] = s]
    /\ app'[a].pc = "push" /\ \A b \in App \ {a} : app'[b] = app[b]
    /\ accepted_count + 1 \in Payload
<1> DEFINE s == NextItem(payload_state_pool)
<1>1. AppKind /\ StateKind /\ ReturnKind /\ PoolKind(payload_state_pool, Slot)
      /\ HasItem(payload_state_pool)
  BY DEF IInv, Kinds, StateKind, GetPayloadState, CannotGet
<1>2. /\ PoolKind(CdiPoolGet(payload_state_pool), Slot)
      /\ s \in Slot /\ s \notin InUse(payload_state_pool)
      /\ InUse(CdiPoolGet(payload_state_pool)) = InUse(payload_state_pool) \cup {s}
  BY <1>1, PoolGot
<1> HIDE DEF s
<1>3. /\ payload_states' = [payload_states EXCEPT
              ![s] = NewPayloadState(accepted_count + 1, app[a].endpoint)]
      /\ app' = [app EXCEPT ![a].pc = "push", ![a].slot = s]
      /\ payload_state_pool' = CdiPoolGet(payload_state_pool)
      /\ app[a].pc = "get" /\ accepted_count < Len(Packets) /\ payload_queue' = payload_queue
  BY DEF GetPayloadState, s
<1>4. app[a].slot = None BY <1>3 DEF IInv, Control, AppSlot
<1>5. AppKind' BY <1>1, <1>2, <1>3 DEF AppKind
<1>6. AppSlot' = [AppSlot EXCEPT ![a] = s] BY <1>1, <1>3 DEF AppSlot, AppKind
<1>7. app'[a].pc = "push" /\ \A b \in App \ {a} : app'[b] = app[b] BY <1>1, <1>3 DEF AppKind
<1>8. accepted_count + 1 \in Payload
  <2>1. accepted_count \in 0 .. Len(Packets) /\ Len(Packets) \in Nat
    BY <1>1, ConstantFacts DEF ReturnKind
  <2> QED BY <1>3, <2>1 DEF Payload
<1>9. NewPayloadState(accepted_count + 1, app[a].endpoint) \in
        [payload : Payload \cup {None}, endpoint : Endpoint, payload_num : Int,
         packet_sequence_num : Nat, transferred : Nat, completed : Seq(WorkRequest)]
  BY <1>1, <1>8 DEF NewPayloadState, AppKind
<1>10. StateKind' BY <1>1, <1>2, <1>3, <1>9 DEF StateKind
<1>11. Used' = Used \cup {s} /\ s \notin Used BY <1>2, <1>3 DEF Used
<1>12. payload_states'[s] = NewPayloadState(accepted_count + 1, app[a].endpoint)
       /\ \A t \in Slot \ {s} : payload_states'[t] = payload_states[t]
  BY <1>1, <1>2, <1>3 DEF StateKind
<1>13. AppSlot[a] = None BY <1>4 DEF AppSlot
<1> QED BY <1>2, <1>3, <1>5, <1>6, <1>7, <1>8, <1>10, <1>11, <1>12, <1>13

(* The state is new: no packet and no place refers to it.                  *)
LEMMA GetStep ==
  ASSUME IInv, NEW a \in App, GetPayloadState(a)
  PROVE  IInv'
<1>1. PICK s \in Slot :
    /\ s \notin Used /\ PoolKind(payload_state_pool', Slot) /\ Used' = Used \cup {s}
    /\ payload_states'[s] = NewPayloadState(accepted_count + 1, app[a].endpoint)
    /\ \A t \in Slot \ {s} : payload_states'[t] = payload_states[t]
    /\ StateKind' /\ AppKind' /\ AppSlot[a] = None /\ AppSlot' = [AppSlot EXCEPT ![a] = s]
    /\ app'[a].pc = "push" /\ \A b \in App \ {a} : app'[b] = app[b]
    /\ accepted_count + 1 \in Payload
  BY GetEffect
<1>2. /\ accepted_count' = accepted_count + 1
      /\ payload_sgl_entries' = payload_sgl_entries - 1
      /\ UNCHANGED <<payload_queue, payload_thread, requests, work_req_comp_queue, waiting,
                 in_flight, tx_in_flight_ref_count, tx_poll_do_work_signal, poll_thread,
                 app_payload_message_queue, payload_num, link, history>>
  BY DEF GetPayloadState
<1>3. /\ Kinds /\ Placed /\ Control /\ Calm BY DEF IInv
<1>4. Hand' = Hand /\ Doing' = Doing /\ Parked' = Parked /\ Request' = Request /\ List' = List
      /\ payload_thread'.last = payload_thread.last
      /\ payload_thread'.entries = payload_thread.entries
  BY <1>2 DEF Hand, Doing, Parked, Request, List
<1>5. s # None /\ s \notin Unbegun /\ s # Hand /\ s # Parked
  BY <1>1, <1>3, ConstantFacts DEF Placed, Core, SlotsApart
<1>6. Calling' = Calling \cup {s}
  <2>1. DOMAIN AppSlot = App BY DEF AppSlot
  <2> QED BY <1>1, <1>5, <2>1 DEF Calling
<1>7. Unbegun' = Unbegun \cup {s} BY <1>2, <1>6 DEF Unbegun
<1>8. Fresh' = Fresh \cup {s} BY <1>4, <1>7 DEF Fresh
<1>9. Live' = Live \cup {s} BY <1>1, <1>4, <1>5 DEF Live
<1>10. Holding' = Holding \cup {s}
  <2>1. Polls("put")' = Polls("put") /\ poll_thread'.slot = poll_thread.slot BY <1>2 DEF Polls
  <2>2. Used = InUse(payload_state_pool) /\ s # poll_thread.slot BY <1>5 DEF Used, Parked
  <2> QED BY <1>1, <2>1, <2>2 DEF Holding, Used
<1>11. \A t \in Used : payload_states'[t] = payload_states[t]
  BY <1>1, <1>3, SetsTyped
<1>12. NewPayloadState(accepted_count + 1, app[a].endpoint).payload = accepted_count + 1
       /\ NewPayloadState(accepted_count + 1, app[a].endpoint).packet_sequence_num = 0
       /\ NewPayloadState(accepted_count + 1, app[a].endpoint).transferred = 0
       /\ NewPayloadState(accepted_count + 1, app[a].endpoint).completed = <<>>
  BY DEF NewPayloadState
<1>13. accepted_count \in Nat /\ accepted \subseteq 1 .. accepted_count
       /\ accepted_count \in 0 .. Len(Packets) /\ Len(Packets) \in Nat
  BY <1>3, ConstantFacts DEF Kinds, ReturnKind
<1>14. Kinds'
  <2>1. ThreadKind' /\ RequestKind' /\ LineKind' /\ PollKind'
    <3>1. ThreadKind' BY <1>2, <1>3 DEF Kinds, ThreadKind
    <3>2. RequestKind' BY <1>2, <1>3 DEF Kinds, RequestKind, requests
    <3>3. LineKind' BY <1>2, <1>3 DEF Kinds, LineKind, waiting
    <3>4. PollKind' BY <1>2, <1>3 DEF Kinds, PollKind
    <3> QED BY <3>1, <3>2, <3>3, <3>4
  <2>2. accepted_count' \in 0 .. Len(Packets) /\ accepted \subseteq 1 .. accepted_count'
    <3>1. accepted_count' = accepted_count + 1 /\ accepted_count + 1 \in 1 .. Len(Packets)
      BY <1>1, <1>2 DEF Payload
    <3> QED BY <3>1, <1>13
  <2>3. payload_sgl_entries' \in Int BY <1>2, <1>3 DEF Kinds, ReturnKind
  <2>4. UNCHANGED <<app_payload_message_queue, accepted, returned>> BY <1>2 DEF history
  <2>5. ReturnKind' BY <1>3, <2>2, <2>3, <2>4 DEF Kinds, ReturnKind
  <2> QED BY <1>1, <2>1, <2>5 DEF Kinds
<1>15. Calm' BY <1>2, <1>3 DEF Calm, Connected, link
<1>16. Control'
  <2>1. \A b \in App : AppSlot'[b] = None <=> app'[b].pc # "push"
    <3>1. DOMAIN AppSlot = App BY DEF AppSlot
    <3>2. \A b \in App \ {a} : AppSlot'[b] = AppSlot[b] BY <1>1, <3>1
    <3>3. AppSlot'[a] = s BY <1>1, <3>1
    <3> QED BY <1>1, <1>3, <1>5, <3>2, <3>3 DEF Control
  <2> QED BY <1>2, <1>3, <1>4, <2>1 DEF Control, Thread, Polls
<1>17. SlotsApart'
  <2>1. \A b, c \in App : AppSlot'[b] = AppSlot'[c] /\ AppSlot'[b] # None => b = c
    <3>1. DOMAIN AppSlot = App BY DEF AppSlot
    <3>2. AppSlot'[a] = s /\ \A b \in App \ {a} : AppSlot'[b] = AppSlot[b] BY <1>1, <3>1
    <3>3. \A b \in App : AppSlot[b] # s BY <1>5 DEF Unbegun, Calling
    <3> QED BY <1>3, <3>2, <3>3 DEF Placed, Core, SlotsApart
  <2>2. Calling' \cap ToSet(payload_queue') = {}
    BY <1>2, <1>3, <1>5, <1>6 DEF Placed, Core, SlotsApart, Unbegun
  <2>3. IsInjective(payload_queue') BY <1>2, <1>3 DEF Placed, Core, SlotsApart
  <2>4. /\ Hand' \notin Unbegun' /\ Parked' \notin Unbegun'
        /\ Hand' # None => Hand' # Parked'
        /\ Unbegun' \subseteq Used'
        /\ Hand' # None => Hand' \in Used'
        /\ Parked' # None => Parked' \in Used'
    BY <1>1, <1>3, <1>4, <1>5, <1>7 DEF Placed, Core, SlotsApart
  <2> QED BY <2>1, <2>2, <2>3, <2>4 DEF SlotsApart
<1>18. FreshIsNew'
  <2>1. Fresh \subseteq Slot
    BY <1>3, SetsTyped, ConstantFacts DEF Fresh, Control
  <2>2. \A t \in Fresh : t = s \/ payload_states'[t] = payload_states[t] BY <1>1, <2>1
  <2> QED BY <1>1, <1>3, <1>8, <1>12, <2>2 DEF Placed, Core, FreshIsNew
<1>19. PayloadsApart'
  <2>1. \A t \in Used : payload_states'[t].payload \in 1 .. accepted_count
    BY <1>3, <1>11 DEF Placed, Core, PayloadsApart
  <2>2. payload_states'[s].payload = accepted_count + 1 BY <1>1, <1>12
  <2>3. \A t \in Used' : payload_states'[t].payload \in 1 .. accepted_count'
    BY <1>1, <1>2, <1>13, <2>1, <2>2
  <2>4. \A t, u \in Used' : payload_states'[t].payload = payload_states'[u].payload => t = u
    <3>1. \A t \in Used : payload_states'[t].payload # accepted_count + 1 BY <1>13, <2>1
    <3>2. \A t, u \in Used : payload_states'[t].payload = payload_states'[u].payload => t = u
      BY <1>3, <1>11 DEF Placed, Core, PayloadsApart
    <3> QED BY <1>1, <2>2, <3>1, <3>2
  <2>5. \A t \in Used' \ Calling' : payload_states'[t].payload \in accepted'
    BY <1>1, <1>2, <1>3, <1>6, <1>11 DEF Placed, Core, PayloadsApart, history
  <2> QED BY <2>3, <2>4, <2>5 DEF PayloadsApart
<1>20. LinesApart' /\ Moving' = Moving /\ \A e : Sent(e)' = Sent(e)
  BY <1>2, <1>3, <1>4, LinesFrame DEF Placed, Core, waiting
<1>21. \A w : StateOf(w)' = StateOf(w) BY <1>2 DEF StateOf, requests
<1>22. \A w \in Moving : StateOf(w) \in Live \ Fresh /\ StateOf(w) \in Used
  BY <1>3 DEF Placed, Core, PacketsBelong, Live
<1>23. PacketsBelong'
  <2>1. \A w \in Moving : /\ StateOf(w)' \in Live' \ Fresh'
                          /\ work_requests'[w].payload_num
                               = payload_states'[StateOf(w)'].payload_num
    <3> TAKE w \in Moving
    <3>1. work_requests' = work_requests BY <1>2 DEF requests
    <3>2. payload_states'[StateOf(w)'] = payload_states[StateOf(w)] BY <1>11, <1>21, <1>22
    <3>3. work_requests[w].payload_num = payload_states[StateOf(w)].payload_num
      BY <1>3 DEF Placed, Core, PacketsBelong
    <3>4. StateOf(w)' \in Live' \ Fresh' BY <1>1, <1>8, <1>9, <1>21, <1>22
    <3> QED BY <3>1, <3>2, <3>3, <3>4
  <2>2. \A w \in ToSet(List)' : StateOf(w)' = Hand'
    BY <1>3, <1>4, <1>21 DEF Placed, Core, PacketsBelong
  <2>3. \A e \in Endpoint : \A w \in Sent(e)' : payload_states'[StateOf(w)'].endpoint = e
    <3> TAKE e \in Endpoint
    <3> TAKE w \in Sent(e)'
    <3>1. w \in Sent(e) /\ w \in Moving BY <1>20, MovingIs
    <3>2. payload_states'[StateOf(w)'] = payload_states[StateOf(w)] BY <1>11, <1>21, <1>22, <3>1
    <3> QED BY <1>3, <3>1, <3>2 DEF Placed, Core, PacketsBelong
  <2> QED BY <1>20, <2>1, <2>2, <2>3 DEF PacketsBelong
<1>24. Completed(s)' = {} /\ \A t \in Used : Completed(t)' = Completed(t)
  BY <1>1, <1>11, <1>12, ItemsOfNone DEF Completed
<1>25. Holder' = Holder /\ Freed' = Freed /\ Held' = Held
       /\ work_req_comp_queue' = work_req_comp_queue
  BY <1>2, <1>4 DEF Holder, Freed, Held, requests
<1>26. Live \subseteq Used BY <1>3, SetsTyped
<1>27. RequestsApart'
  <2>1. \A t \in Live : /\ IsInjective(payload_states'[t].completed)
       /\ Completed(t)' \subseteq Holder'
       /\ Completed(t)' \cap (Moving' \cup Freed' \cup {Request'}) = {}
       /\ \A w \in Completed(t)' : StateOf(w)' = t
    BY <1>3, <1>4, <1>11, <1>20, <1>21, <1>24, <1>25, <1>26 DEF Placed, Core, RequestsApart
  <2>2. IsInjective(payload_states'[s].completed) BY <1>1, <1>12, ItemsOfNone
  <2>3. \A t \in Live' : /\ IsInjective(payload_states'[t].completed)
       /\ Completed(t)' \subseteq Holder'
       /\ Completed(t)' \cap (Moving' \cup Freed' \cup {Request'}) = {}
       /\ \A w \in Completed(t)' : StateOf(w)' = t
    BY <1>9, <1>24, <2>1, <2>2
  <2> QED BY <1>3, <1>4, <1>20, <1>25, <2>3 DEF Placed, Core, RequestsApart
<1>28. Undisturbed' = Undisturbed BY <1>2 DEF Undisturbed, link, history
<1>29. NothingLeaks'
  <2> DEFINE C == {Completed(t) : t \in Live}
  <2> DEFINE D == {Completed(t)' : t \in Live'}
  <2>1. UNION D = UNION C
    <3>1. \A t \in Live : Completed(t)' = Completed(t) BY <1>24, <1>26
    <3>2. D = C \cup {{}} BY <1>9, <1>24, <3>1
    <3> HIDE DEF C, D
    <3> QED BY <3>2
  <2> QED BY <1>3, <1>20, <1>25, <1>28, <2>1 DEF Placed, Core, NothingLeaks
<1>30. \A t : Mine(t)' = Mine(t) BY <1>20, <1>21 DEF Mine
<1>31. \A t \in Used : Size(t)' = Size(t) /\ Made(t)' = Made(t) BY <1>11 DEF Size, Made
<1>32. Mine(s) = {} BY <1>1, <1>22 DEF Mine
<1>33. Made(s)' = 0 /\ Size(s)' = Packets[accepted_count + 1] BY <1>1, <1>12 DEF Made, Size
<1>34. Size(s)' \in Nat /\ Size(s)' > 0 BY <1>1, <1>33, ConstantFacts
<1>35. PacketsCounted'
  <2>1. \A t \in Live :
       /\ payload_states'[t].transferred = Len(payload_states'[t].completed)
       /\ Made(t)' <= Size(t)'
       /\ payload_states'[t].transferred + Cardinality(Mine(t)') <= Made(t)'
       /\ t \notin Fresh' \cup {Hand'} => Made(t)' = Size(t)'
    BY <1>3, <1>4, <1>8, <1>11, <1>26, <1>30, <1>31 DEF Placed, Core, PacketsCounted
  <2>2. /\ payload_states'[s].transferred = Len(payload_states'[s].completed)
        /\ Made(s)' <= Size(s)'
        /\ payload_states'[s].transferred + Cardinality(Mine(s)') <= Made(s)'
        /\ s \in Fresh'
    <3>1. Cardinality({}) = 0 BY FS_EmptySet
    <3>2. Len(<<>>) = 0 OBVIOUS
    <3>3. payload_states'[s].transferred = 0 /\ payload_states'[s].completed = <<>>
      BY <1>1, <1>12
    <3>4. Mine(s)' = {} BY <1>30, <1>32
    <3>5. s \in Fresh' BY <1>8
    <3>6. Made(s)' <= Size(s)' BY <1>33, <1>34
    <3>7. payload_states'[s].transferred + Cardinality(Mine(s)') <= Made(s)'
      BY <1>33, <3>1, <3>3, <3>4
    <3> QED BY <3>2, <3>3, <3>5, <3>6, <3>7
  <2>3. /\ Doing' \in {"GetWorkRequest", "Packetizing"} => Made(Hand)' < Size(Hand)'
        /\ Doing' = "Enqueuing" => (payload_thread'.last <=> Made(Hand)' = Size(Hand)')
    <3>1. ASSUME Doing # "Idle" PROVE Made(Hand)' = Made(Hand) /\ Size(Hand)' = Size(Hand)
      <4>1. Hand \in Used BY <1>3, <3>1 DEF Placed, Core, SlotsApart, Control
      <4>2. payload_states'[Hand'] = payload_states[Hand] BY <1>4, <1>11, <4>1
      <4> QED BY <4>2 DEF Made, Size
    <3> QED BY <1>3, <1>4, <3>1 DEF Placed, Core, PacketsCounted
  <2> QED BY <1>9, <2>1, <2>2, <2>3 DEF PacketsCounted
<1>36. LastIsLast'
  <2>1. work_requests' = work_requests BY <1>2 DEF requests
  <2>2. \A t \in Live : Mine(t)' = Mine(t) /\ Completed(t)' = Completed(t)
                        /\ Size(t)' = Size(t) /\ Made(t)' = Made(t)
    BY <1>24, <1>26, <1>30, <1>31
  <2>3. \A t \in Live :
        /\ \A v, w \in Mine(t)' \cup Completed(t)' :
             work_requests'[v].last /\ work_requests'[w].last => v = w
        /\ Made(t)' < Size(t)' =>
             \A w \in Mine(t)' \cup Completed(t)' : ~work_requests'[w].last
        /\ Undisturbed' /\ Made(t)' = Size(t)' =>
             \E w \in Mine(t)' \cup Completed(t)' : work_requests'[w].last
    BY <1>3, <1>28, <2>1, <2>2 DEF Placed, Core, LastIsLast
  <2>4. Mine(s)' \cup Completed(s)' = {} BY <1>24, <1>30, <1>32
  <2>5. Made(s)' # Size(s)' BY <1>33, <1>34
  <2> QED BY <1>9, <2>3, <2>4, <2>5 DEF LastIsLast
<1>37. Counted'
  <2>1. \A e : OnWay(e)' = OnWay(e)
    <3>1. \A w \in Moving : payload_states'[StateOf(w)'] = payload_states[StateOf(w)]
      BY <1>11, <1>21, <1>22
    <3> QED BY <1>20, <3>1 DEF OnWay
  <2>2. \A e : BegunAt(e)' = BegunAt(e)
    <3>1. \A t \in Live : payload_states'[t] = payload_states[t] /\ Completed(t)' = Completed(t)
                          /\ t # s
      BY <1>1, <1>11, <1>24, <1>26
    <3>2. work_requests' = work_requests BY <1>2 DEF requests
    <3> QED BY <1>7, <1>9, <3>1, <3>2 DEF BegunAt
  <2> QED BY <1>2, <1>3, <1>28, <2>1, <2>2 DEF Placed, Core, Counted
<1>38. EntriesKeptTrack' BY <1>2, <1>3, <1>4, <1>25, EntriesFrame DEF Placed, Core, requests
<1>39. SourceEntriesHavePlaces'
  <2>1. s \notin Holding BY <1>1 DEF Holding, Used
  <2>2. Cardinality(Holding') = Cardinality(Holding) + 1 /\ Cardinality(Holding) \in Nat
    BY <1>3, <1>10, <2>1, SetsTyped, OneMore
  <2>3. payload_sgl_entries \in Int /\ Len(app_payload_message_queue) \in Nat
        /\ app_payload_message_queue' = app_payload_message_queue
    BY <1>2, <1>3 DEF Kinds, ReturnKind
  <2>4. payload_sgl_entries + Cardinality(Holding) + Len(app_payload_message_queue)
          = PayloadSglEntries
    BY <1>3 DEF Placed, Core, SourceEntriesHavePlaces
  <2> QED BY <1>2, <2>2, <2>3, <2>4 DEF SourceEntriesHavePlaces
<1>40. ToldOnce'
  <2>1. accepted_count + 1 \notin accepted BY <1>13
  <2>2. payload_states'[s].payload = accepted_count + 1 BY <1>1, <1>12
  <2>3. \A t \in Holding : payload_states'[t] = payload_states[t]
    BY <1>11 DEF Holding, Used
  <2> QED BY <1>2, <1>3, <1>10, <2>1, <2>2, <2>3 DEF Placed, Core, ToldOnce, history
<1>41. Placed'
  BY <1>17, <1>18, <1>19, <1>20, <1>23, <1>27, <1>29, <1>35, <1>36, <1>37, <1>38, <1>39, <1>40
  DEF Placed, Core
<1> QED BY <1>14, <1>15, <1>16, <1>41 DEF IInv

-----------------------------------------------------------------------------
(* It goes to the queue, or back; the application is told.                 *)

(* The call gives up the payload state it pushes.                          *)
LEMMA PushedOff ==
  ASSUME IInv, NEW a \in App, PushPayload(a)
  PROVE  LET s == app[a].slot
         IN  /\ s \in Slot /\ s \in Calling /\ s \in Used /\ s # Hand /\ s # Parked
             /\ s \notin ToSet(payload_queue) /\ AppSlot' = [AppSlot EXCEPT ![a] = None]
             /\ AppKind' /\ Calling' = Calling \ {s}
             /\ \A b \in App : AppSlot'[b] = None <=> app'[b].pc # "push"
             /\ \A b, c \in App : AppSlot'[b] = AppSlot'[c] /\ AppSlot'[b] # None => b = c
<1> DEFINE s == app[a].slot
<1>1. AppKind /\ SlotsApart /\ Control BY DEF IInv, Kinds, Placed
<1>2. app[a].pc = "push" /\ app' = [app EXCEPT ![a].pc = "idle", ![a].slot = None]
  BY DEF PushPayload
<1>3. AppSlot[a] = s BY DEF AppSlot
<1>4. s # None /\ s \in Slot BY <1>1, <1>2, <1>3 DEF Control, AppKind
<1>5. AppKind' /\ AppSlot' = [AppSlot EXCEPT ![a] = None] /\ app'[a].pc = "idle"
      /\ \A b \in App \ {a} : app'[b] = app[b]
  BY <1>1, <1>2 DEF AppKind, AppSlot
<1> HIDE DEF s
<1>6. s \in Calling BY <1>3, <1>4 DEF Calling
<1>7. s \in Used /\ s # Hand /\ s # Parked /\ s \notin ToSet(payload_queue)
  BY <1>1, <1>6 DEF SlotsApart, Unbegun
<1>d. DOMAIN AppSlot = App BY DEF AppSlot
<1>8. AppSlot'[a] = None /\ \A b \in App \ {a} : AppSlot'[b] = AppSlot[b] BY <1>5, <1>d
<1>9. \A b \in App \ {a} : AppSlot[b] # s BY <1>1, <1>3, <1>4 DEF SlotsApart
<1>10. Calling' = Calling \ {s}
  <2>1. \A x : x \in Calling' => x \in Calling /\ x # s BY <1>8, <1>9 DEF Calling
  <2>2. \A x : x \in Calling /\ x # s => x \in Calling' BY <1>3, <1>8 DEF Calling
  <2> QED BY <2>1, <2>2
<1>11. \A b \in App : AppSlot'[b] = None <=> app'[b].pc # "push"
  BY <1>1, <1>5, <1>8 DEF Control
<1>12. \A b, c \in App : AppSlot'[b] = AppSlot'[c] /\ AppSlot'[b] # None => b = c
  BY <1>1, <1>8 DEF SlotsApart
<1> QED BY <1>4, <1>5, <1>6, <1>7, <1>10, <1>11, <1>12 DEF s

(* The payload state goes to the queue of the payload thread.              *)
LEMMA AcceptStep ==
  ASSUME IInv, NEW a \in App, PushPayload(a), payload_queue' # payload_queue
  PROVE  IInv'
<1> DEFINE s == app[a].slot
<1>1. /\ s \in Slot /\ s \in Calling /\ s \in Used /\ s # Hand /\ s # Parked
      /\ s \notin ToSet(payload_queue) /\ AppSlot' = [AppSlot EXCEPT ![a] = None]
      /\ AppKind' /\ Calling' = Calling \ {s}
      /\ \A b \in App : AppSlot'[b] = None <=> app'[b].pc # "push"
      /\ \A b, c \in App : AppSlot'[b] = AppSlot'[c] /\ AppSlot'[b] # None => b = c
  BY PushedOff
<1>2. /\ payload_queue' = Append(payload_queue, s)
      /\ accepted' = accepted \cup {payload_states[s].payload}
      /\ UNCHANGED <<payload_state_pool, payload_sgl_entries, accepted_count, payload_states,
                 payload_thread, requests, work_req_comp_queue, waiting, in_flight,
                 tx_in_flight_ref_count, tx_poll_do_work_signal, poll_thread,
                 app_payload_message_queue, payload_num, link, returned, unacked, dropped, raced>>
  BY DEF PushPayload
<1> HIDE DEF s
<1>3. Kinds /\ Control /\ Calm /\ Placed /\ Core /\ SlotsApart /\ PayloadsApart
  BY DEF IInv, Placed
<1>4. Hand' = Hand /\ Doing' = Doing /\ Parked' = Parked /\ Request' = Request /\ List' = List
      /\ payload_thread'.last = payload_thread.last
      /\ payload_thread'.entries = payload_thread.entries
      /\ Holding' = Holding /\ Used' = Used /\ Live' = Live
  BY <1>2 DEF Hand, Doing, Parked, Request, List, Holding, Polls, Used, Live
<1>5. payload_queue \in Seq(Slot) BY <1>3 DEF Kinds, StateKind
<1>6. payload_queue' \in Seq(Slot) /\ ToSet(payload_queue') = ToSet(payload_queue) \cup {s}
      /\ IsInjective(payload_queue')
  BY <1>1, <1>2, <1>3, <1>5, ItemsAppended DEF SlotsApart
<1>7. Unbegun' = Unbegun BY <1>1, <1>6 DEF Unbegun
<1>8. Fresh' = Fresh BY <1>4, <1>7 DEF Fresh
<1>9. payload_states[s].payload \in 1 .. accepted_count BY <1>1, <1>3 DEF PayloadsApart
<1>10. Kinds'
  <2>1. StateKind' /\ ThreadKind' /\ RequestKind'
    BY <1>2, <1>3, <1>6 DEF Kinds, StateKind, ThreadKind, RequestKind, requests
  <2>2. LineKind' /\ PollKind' BY <1>2, <1>3 DEF Kinds, LineKind, PollKind, waiting
  <2>3. ReturnKind' BY <1>2, <1>3, <1>9 DEF Kinds, ReturnKind
  <2> QED BY <1>1, <2>1, <2>2, <2>3 DEF Kinds
<1>11. Calm' BY <1>2, <1>3 DEF Calm, Connected, link
<1>12. Control' BY <1>1, <1>2, <1>3, <1>4 DEF Control, Thread, Polls
<1>13. Core' BY <1>2, <1>3, <1>4, <1>7, <1>8, CoreFrame DEF link
<1>14. SlotsApart'
  <2>1. Calling' \cap ToSet(payload_queue)' = {} BY <1>1, <1>3, <1>6 DEF SlotsApart
  <2> QED BY <1>1, <1>3, <1>4, <1>6, <1>7, <2>1 DEF SlotsApart
<1>15. PayloadsApart' BY <1>1, <1>2, <1>3, <1>4 DEF PayloadsApart
<1>16. SourceEntriesHavePlaces' BY <1>2, <1>3, <1>4, SourceFrame DEF Placed
<1>17. ToldOnce' BY <1>2, <1>3, <1>4, ToldFrame DEF Placed
<1> QED BY <1>10, <1>11, <1>12, <1>13, <1>14, <1>15, <1>16, <1>17 DEF IInv, Placed

(* The queue is full: the payload state goes back to the pool.             *)
LEMMA QueueFullStep ==
  ASSUME IInv, NEW a \in App, PushPayload(a), payload_queue' = payload_queue
  PROVE  IInv'
<1> DEFINE s == app[a].slot
<1>1. /\ s \in Slot /\ s \in Calling /\ s \in Used /\ s # Hand /\ s # Parked
      /\ s \notin ToSet(payload_queue) /\ AppSlot' = [AppSlot EXCEPT ![a] = None]
      /\ AppKind' /\ Calling' = Calling \ {s}
      /\ \A b \in App : AppSlot'[b] = None <=> app'[b].pc # "push"
      /\ \A b, c \in App : AppSlot'[b] = AppSlot'[c] /\ AppSlot'[b] # None => b = c
  BY PushedOff
<1>3. Kinds /\ Control /\ Calm /\ Placed /\ Core /\ SlotsApart /\ PayloadsApart
  BY DEF IInv, Placed
<1>2. /\ payload_state_pool' = CdiPoolPut(payload_state_pool, s)
      /\ payload_sgl_entries' = payload_sgl_entries + 1
      /\ UNCHANGED <<payload_queue, accepted, accepted_count, payload_states,
                 payload_thread, requests, work_req_comp_queue, waiting, in_flight,
                 tx_in_flight_ref_count, tx_poll_do_work_signal, poll_thread,
                 app_payload_message_queue, payload_num, link, returned, unacked, dropped, raced>>
  <2>1. payload_queue \in Seq(Slot) BY <1>3 DEF Kinds, StateKind
  <2>2. payload_queue' # Append(payload_queue, s) BY <1>1, <2>1
  <2> QED BY <2>2 DEF PushPayload
<1> HIDE DEF s
<1>4. PoolKind(payload_state_pool', Slot) /\ Used' = Used \ {s}
  <2>1. PoolKind(payload_state_pool, Slot) /\ s \in InUse(payload_state_pool)
    BY <1>1, <1>3 DEF Kinds, StateKind, Used
  <2> QED BY <1>2, <2>1, PoolPut DEF Used
<1>5. Hand' = Hand /\ Doing' = Doing /\ Parked' = Parked /\ Request' = Request /\ List' = List
      /\ payload_thread'.last = payload_thread.last
      /\ payload_thread'.entries = payload_thread.entries
  BY <1>2 DEF Hand, Doing, Parked, Request, List
<1>6. Unbegun' = Unbegun \ {s} BY <1>1, <1>2 DEF Unbegun
<1>7. Fresh' = Fresh \ {s} BY <1>1, <1>5, <1>6 DEF Fresh
<1>8. Live' = Live \ {s} BY <1>4, <1>5 DEF Live
<1>9. Holding' = Holding \ {s} /\ s \in Holding
  <2>1. Polls("put")' = Polls("put") /\ poll_thread'.slot = poll_thread.slot BY <1>2 DEF Polls
  <2> QED BY <1>1, <1>4, <2>1 DEF Holding, Used, Parked
<1>10. Kinds'
  <2>1. StateKind' /\ ThreadKind' /\ RequestKind'
    BY <1>2, <1>3, <1>4 DEF Kinds, StateKind, ThreadKind, RequestKind, requests
  <2>2. LineKind' /\ PollKind' BY <1>2, <1>3 DEF Kinds, LineKind, PollKind, waiting
  <2>3. ReturnKind' BY <1>2, <1>3 DEF Kinds, ReturnKind
  <2> QED BY <1>1, <2>1, <2>2, <2>3 DEF Kinds
<1>11. Calm' BY <1>2, <1>3 DEF Calm, Connected, link
<1>12. Control' BY <1>1, <1>2, <1>3, <1>5 DEF Control, Thread, Polls
<1>13. Core'
  <2>1. LinesApart' /\ Moving' = Moving /\ \A e : Sent(e)' = Sent(e)
    BY <1>2, <1>3, <1>5, LinesFrame DEF Core, waiting
  <2>2. FreshIsNew' BY <1>2, <1>3, <1>7, FreshFrame DEF Core
  <2>3. s \in Fresh /\ s \in Unbegun BY <1>1 DEF Fresh, Unbegun
  <2>4. PacketsBelong'
    <3>1. Live \ Fresh \subseteq Live' \ Fresh' BY <1>7, <1>8, <2>3
    <3> QED BY <1>2, <1>3, <1>5, <2>1, <3>1, BelongFrame DEF Core, requests
  <2>5. Holder' = Holder BY <1>2 DEF Holder, requests
  <2>6. RequestsApart'
    <3>1. Moving \cup Freed \subseteq WorkRequest /\ None \notin WorkRequest
          /\ \A t \in Live : None \notin Completed(t)
      BY <1>3, SetsTyped, ConstantFacts
    <3> QED BY <1>2, <1>3, <1>5, <1>8, <2>1, <2>5, <3>1, RequestsFrame DEF Core, requests
  <2>7. NothingLeaks'
    <3>1. Undisturbed' = Undisturbed BY <1>2 DEF Undisturbed, link
    <3>2. \A t : Completed(t)' = Completed(t) BY <1>2 DEF Completed
    <3>3. Completed(s) = {} BY <1>3, <2>3, ItemsOfNone DEF Core, FreshIsNew, Completed
    <3> DEFINE C == {Completed(t) : t \in Live}
    <3> DEFINE D == {Completed(t)' : t \in Live'}
    <3>4. UNION D = UNION C
      <4>1. D \subseteq C /\ C \subseteq D \cup {{}} BY <1>8, <3>2, <3>3
      <4> HIDE DEF C, D
      <4> QED BY <4>1
    <3>5. Freed' = Freed /\ Held' = Held BY <1>2, <1>5 DEF Freed, Held
    <3> QED BY <1>3, <2>1, <2>5, <3>1, <3>4, <3>5 DEF Core, NothingLeaks
  <2>8. PacketsCounted'
    <3>1. Fresh \cap Live' \subseteq Fresh' \cup {Hand'} /\ Live' \subseteq Live BY <1>7, <1>8
    <3> QED BY <1>2, <1>3, <1>5, <2>1, <3>1, CountedFrame DEF Core, requests
  <2>9. LastIsLast' BY <1>2, <1>3, <1>8, <2>1, LastFrame DEF Core, requests, link
  <2>10. Counted'
    <3>1. Live' \ Unbegun' = Live \ Unbegun BY <1>6, <1>8, <2>3
    <3> QED BY <1>2, <1>3, <2>1, <3>1, ReferencesFrame DEF Core, requests, link
  <2>11. EntriesKeptTrack' BY <1>2, <1>3, <1>5, <2>5, EntriesFrame DEF Core, requests
  <2> QED BY <2>1, <2>2, <2>4, <2>6, <2>7, <2>8, <2>9, <2>10, <2>11 DEF Core
<1>14. SlotsApart'
  <2>1. Calling' \cap ToSet(payload_queue)' = {} BY <1>1, <1>2, <1>3 DEF SlotsApart
  <2>2. IsInjective(payload_queue)' BY <1>2, <1>3 DEF SlotsApart
  <2> QED BY <1>1, <1>3, <1>4, <1>5, <1>6, <2>1, <2>2 DEF SlotsApart
<1>15. PayloadsApart' BY <1>1, <1>2, <1>3, <1>4, PayloadsFrame
<1>16. SourceEntriesHavePlaces'
  <2>1. Cardinality(Holding') = Cardinality(Holding) - 1 /\ Cardinality(Holding) \in Nat
    BY <1>3, <1>9, SetsTyped, OneMore
  <2>2. payload_sgl_entries \in Int /\ Len(app_payload_message_queue) \in Nat
        /\ app_payload_message_queue' = app_payload_message_queue
    BY <1>2, <1>3 DEF Kinds, ReturnKind
  <2>3. payload_sgl_entries + Cardinality(Holding) + Len(app_payload_message_queue)
          = PayloadSglEntries
    BY <1>3 DEF Placed, SourceEntriesHavePlaces
  <2> QED BY <1>2, <2>1, <2>2, <2>3 DEF SourceEntriesHavePlaces
<1>17. ToldOnce' BY <1>2, <1>3, <1>9, ToldFrame DEF Placed
<1> QED BY <1>10, <1>11, <1>12, <1>13, <1>14, <1>15, <1>16, <1>17 DEF IInv, Placed

(* The application is told of the payload at the head of the queue.        *)
LEMMA CallbackStep ==
  ASSUME IInv, InvokeAppCallback
  PROVE  IInv'
<1> DEFINE q == app_payload_message_queue
<1> DEFINE m == Head(q)
<1>1. /\ q # <<>> /\ returned' = [returned EXCEPT ![m.payload] = Append(@, m.status)]
      /\ q' = Tail(q) /\ payload_sgl_entries' = payload_sgl_entries + 1
      /\ UNCHANGED <<app, accepted_count, states, payload_queue, payload_thread, requests,
                 work_req_comp_queue, waiting, in_flight, tx_in_flight_ref_count,
                 tx_poll_do_work_signal, poll_thread, payload_num, link,
                 accepted, unacked, dropped, raced>>
  BY DEF InvokeAppCallback
<1>2. Kinds /\ Control /\ Calm /\ Placed /\ Core /\ SlotsApart /\ PayloadsApart
  BY DEF IInv, Placed
<1>3. q \in Seq([payload : Payload, status : Status]) /\ returned \in [Payload -> Seq(Status)]
      /\ payload_sgl_entries \in Int
  BY <1>2 DEF Kinds, ReturnKind
<1>4. q' \in Seq([payload : Payload, status : Status]) /\ Len(q) \in Nat /\ Len(q) > 0
      /\ Len(q') = Len(q) - 1 /\ m = q[1] /\ m \in [payload : Payload, status : Status]
      /\ (\A i \in 1 .. Len(q') : q'[i] = q[i + 1])
      /\ \A i \in 1 .. Len(q) : q[i] \in [payload : Payload, status : Status]
  <2> DEFINE M == [payload : Payload, status : Status]
  <2> DEFINE r == q'
  <2>1. q \in Seq(M) /\ q # <<>> /\ r = Tail(q) BY <1>1, <1>3
  <2> HIDE DEF M, r
  <2> HIDE DEF q
  <2>2. r \in Seq(M) /\ Len(q) \in Nat /\ Len(q) > 0 /\ Len(r) = Len(q) - 1
        /\ Head(q) = q[1] /\ Head(q) \in M /\ (\A i \in 1 .. Len(r) : r[i] = q[i + 1])
        /\ \A i \in 1 .. Len(q) : q[i] \in M
    BY <2>1
  <2> QED BY <2>2 DEF M, r
<1> DEFINE p == m.payload
<1>5. p \in Payload /\ m.status \in Status BY <1>4
<1>d. DOMAIN q = 1 .. Len(q) /\ DOMAIN q' = 1 .. Len(q') BY <1>3, <1>4
<1>p. p = q[1].payload /\ 1 \in DOMAIN q BY <1>4, <1>d
<1> HIDE DEF q, m, p
<1>6. returned' \in [Payload -> Seq(Status)] /\ Len(returned'[p]) = Len(returned[p]) + 1
      /\ \A r \in Payload \ {p} : returned'[r] = returned[r]
  BY <1>1, <1>3, <1>5 DEF p
<1>7. Hand' = Hand /\ Doing' = Doing /\ Parked' = Parked /\ Request' = Request /\ List' = List
      /\ payload_thread'.last = payload_thread.last
      /\ payload_thread'.entries = payload_thread.entries /\ AppSlot' = AppSlot
      /\ Holding' = Holding /\ Used' = Used /\ Live' = Live
  BY <1>1 DEF Hand, Doing, Parked, Request, List, Holding, Polls, Used, Live, AppSlot, states
<1>8. Calling' = Calling /\ Unbegun' = Unbegun /\ Fresh' = Fresh BY <1>1, <1>7, SetsFrame
<1>9. Core' BY <1>1, <1>2, <1>7, <1>8, CoreFrame DEF states, link
<1>10. SlotsApart' /\ PayloadsApart'
  BY <1>1, <1>2, <1>7, <1>8, SlotsFrame, PayloadsFrame DEF states
<1>11. Calm' /\ Control'
  BY <1>1, <1>2, <1>7 DEF Calm, Connected, Control, Thread, Polls, link
<1>12. Kinds'
  <2>1. AppKind' /\ StateKind' /\ ThreadKind' /\ RequestKind'
    BY <1>1, <1>2 DEF Kinds, AppKind, StateKind, ThreadKind, RequestKind, requests, states
  <2>2. LineKind' /\ PollKind' BY <1>1, <1>2 DEF Kinds, LineKind, PollKind, waiting
  <2>3. ReturnKind' BY <1>1, <1>2, <1>3, <1>4, <1>6 DEF Kinds, ReturnKind, q
  <2> QED BY <2>1, <2>2, <2>3 DEF Kinds
<1>13. SourceEntriesHavePlaces'
  <2> DEFINE h == Cardinality(Holding)
  <2>1. h \in Nat BY <1>2, SetsTyped, FS_CardinalityType
  <2>2. payload_sgl_entries + h + Len(q) = PayloadSglEntries
    BY <1>2 DEF Placed, SourceEntriesHavePlaces, q
  <2>3. SourceEntriesHavePlaces' <=> payload_sgl_entries' + h + Len(q') = PayloadSglEntries
    BY <1>7 DEF SourceEntriesHavePlaces, q
  <2> HIDE DEF h
  <2> QED BY <1>1, <1>3, <1>4, <2>1, <2>2, <2>3
<1>14. ToldOnce'
  <2>1. ToldOnce BY <1>2 DEF Placed
  <2>2. \A i \in DOMAIN q' : i + 1 \in DOMAIN q /\ q'[i] = q[i + 1] /\ i + 1 # 1 /\ i \in Nat
    BY <1>4, <1>d
  <2>3. \A i, j \in DOMAIN q : q[i].payload = q[j].payload => i = j BY <2>1 DEF ToldOnce, q
  <2>4. \A i \in DOMAIN q : /\ q[i].payload \in accepted /\ returned[q[i].payload] = <<>>
                            /\ \A s \in Holding : payload_states[s].payload # q[i].payload
    BY <2>1 DEF ToldOnce, q
  <2>5. \A i, j \in DOMAIN q' : q'[i].payload = q'[j].payload => i = j
    <3> SUFFICES ASSUME NEW i \in DOMAIN q', NEW j \in DOMAIN q', q'[i].payload = q'[j].payload
                 PROVE  i = j
      OBVIOUS
    <3>1. i + 1 = j + 1 BY <2>2, <2>3
    <3> QED BY <2>2, <3>1
  <2>6. payload_states' = payload_states /\ accepted' = accepted BY <1>1 DEF states
  <2>7. \A i \in DOMAIN q' : /\ q'[i].payload \in accepted' /\ returned'[q'[i].payload] = <<>>
                            /\ \A s \in Holding' : payload_states'[s].payload # q'[i].payload
    <3> TAKE i \in DOMAIN q'
    <3>1. i + 1 \in DOMAIN q /\ q'[i] = q[i + 1] /\ q[i + 1].payload # p
      BY <1>p, <2>2, <2>3
    <3>2. q[i + 1] \in [payload : Payload, status : Status] BY <1>4, <1>d, <3>1
    <3>3. q[i + 1].payload \in Payload BY <3>2
    <3> QED BY <1>6, <1>7, <2>4, <2>6, <3>1, <3>3
  <2>8. \A r \in Payload : returned'[r] # <<>> =>
          /\ Len(returned'[r]) = 1 /\ r \in accepted'
          /\ \A s \in Holding' : payload_states'[s].payload # r
    <3> TAKE r \in Payload
    <3>1. CASE r = p
      <4>1. returned[p] = <<>> /\ p \in accepted
            /\ \A s \in Holding : payload_states[s].payload # p
        BY <1>p, <2>4
      <4>2. Len(returned'[p]) = 1 BY <1>6, <4>1
      <4> QED BY <1>7, <2>6, <3>1, <4>1, <4>2
    <3>2. CASE r # p BY <1>6, <1>7, <2>1, <2>6, <3>2 DEF ToldOnce
    <3> QED BY <3>1, <3>2
  <2> QED BY <2>5, <2>7, <2>8 DEF ToldOnce, q
<1> QED BY <1>9, <1>10, <1>11, <1>12, <1>13, <1>14 DEF IInv, Placed

-----------------------------------------------------------------------------
(* It is taken up, and given up.                                           *)

(* The payload thread takes the next payload from the queue.               *)
LEMMA TakeStep ==
  ASSUME IInv, TakePayload
  PROVE  IInv'
<1> DEFINE s == Head(payload_queue)
<1>1. Kinds /\ Control /\ Calm /\ Placed /\ Core /\ SlotsApart /\ PayloadsApart
  BY DEF IInv, Placed
<1>2. payload_queue \in Seq(Slot) /\ payload_queue # <<>> /\ IsInjective(payload_queue)
  BY <1>1 DEF Kinds, StateKind, SlotsApart, TakePayload, TakesPayload
<1>3. s \in Slot /\ Tail(payload_queue) \in Seq(Slot)
      /\ ToSet(payload_queue) = {s} \cup ToSet(Tail(payload_queue))
      /\ IsInjective(Tail(payload_queue)) /\ s \notin ToSet(Tail(payload_queue))
  BY <1>2, ItemsTaken
<1>4. /\ payload_queue' = Tail(payload_queue)
      /\ payload_thread' = [payload_thread EXCEPT
              !.pc = "signal", !.state = "WorkReceived", !.slot = s]
      /\ tx_in_flight_ref_count' =
              [tx_in_flight_ref_count EXCEPT ![payload_states[s].endpoint] = @ + 1]
      /\ UNCHANGED <<app, accepted_count, payload_state_pool, payload_sgl_entries,
              poll_thread, app_payload_message_queue, link, history, payload_states, requests,
              work_req_comp_queue, waiting, in_flight, tx_poll_do_work_signal, payload_num>>
      /\ Doing = "Idle" /\ Thread("wait")
  BY DEF TakePayload, TakesPayload, OnlyPayloadThread, Doing
<1> HIDE DEF s
<1>5. payload_queue' \in Seq(Slot) /\ ToSet(payload_queue') = ToSet(payload_queue) \ {s}
      /\ IsInjective(payload_queue') /\ s \in ToSet(payload_queue)
  BY <1>3, <1>4
<1>6. Hand = None /\ List = <<>> /\ Request = None /\ payload_thread.entries = 0
  BY <1>1, <1>4 DEF Control
<1>7. ThreadKind BY <1>1 DEF Kinds
<1>8. /\ ThreadKind' /\ payload_thread'.pc = "signal" /\ Doing' = "WorkReceived" /\ Hand' = s
      /\ Request' = Request /\ List' = List /\ payload_thread'.last = payload_thread.last
      /\ payload_thread'.entries = payload_thread.entries
  BY <1>3, <1>4, <1>7 DEF ThreadKind, States, Doing, Hand, Request, List
<1>9. AppSlot' = AppSlot /\ Parked' = Parked /\ Holding' = Holding /\ Used' = Used
      /\ Live' = Live /\ Calling' = Calling
  BY <1>4 DEF AppSlot, Parked, Holding, Polls, Used, Live, Calling
<1>10. s \notin Calling /\ s # Parked /\ s \in Used /\ s \in Unbegun
  BY <1>1, <1>5 DEF SlotsApart, Unbegun
<1>11. Unbegun' = Unbegun \ {s} BY <1>5, <1>9, <1>10 DEF Unbegun
<1>12. Fresh = Unbegun /\ Fresh' = Fresh BY <1>4, <1>8, <1>10, <1>11 DEF Fresh
<1>13. s # None BY <1>3, ConstantFacts
<1>14. Kinds'
  <2>1. AppKind' /\ StateKind' /\ RequestKind'
    BY <1>1, <1>4, <1>5 DEF Kinds, AppKind, StateKind, RequestKind, requests
  <2>2. PollKind' /\ ReturnKind'
    BY <1>1, <1>4 DEF Kinds, PollKind, ReturnKind, history
  <2>3. tx_in_flight_ref_count' \in [Endpoint -> Int]
    <3>1. payload_states[s].endpoint \in Endpoint BY <1>1, <1>3 DEF Kinds, StateKind
    <3>2. tx_in_flight_ref_count \in [Endpoint -> Int] BY <1>1 DEF Kinds, LineKind
    <3> QED BY <1>4, <3>1, <3>2
  <2>4. LineKind' BY <1>1, <1>4, <2>3 DEF Kinds, LineKind, waiting
  <2> QED BY <1>8, <2>1, <2>2, <2>4 DEF Kinds
<1>15. Calm' BY <1>1, <1>4 DEF Calm, Connected, link
<1>16. Control' BY <1>1, <1>4, <1>6, <1>8, <1>9, <1>13 DEF Control, Thread, Polls
<1>17. SlotsApart'
  <2>1. Calling' \cap ToSet(payload_queue)' = {} BY <1>1, <1>5, <1>9 DEF SlotsApart
  <2> QED BY <1>1, <1>5, <1>8, <1>9, <1>10, <1>11, <2>1 DEF SlotsApart
<1>18. PayloadsApart' BY <1>1, <1>4, <1>9, PayloadsFrame DEF history
<1>19. LinesApart' /\ Moving' = Moving /\ \A e : Sent(e)' = Sent(e)
  BY <1>1, <1>4, <1>8, LinesFrame DEF Core, waiting
<1>20. FreshIsNew' BY <1>1, <1>4, <1>12, FreshFrame DEF Core
<1>21. PacketsBelong'
  <2>1. ToSet(List)' = {} /\ ToSet(List) = {} BY <1>6, <1>8, ItemsOfNone
  <2> QED BY <1>1, <1>4, <1>9, <1>12, <1>19, <2>1, BelongFrame DEF Core, requests
<1>22. Holder' = Holder BY <1>4 DEF Holder, requests
<1>23. RequestsApart'
  <2>1. Moving \cup Freed \subseteq WorkRequest /\ None \notin WorkRequest
        /\ \A t \in Live : None \notin Completed(t)
    BY <1>1, SetsTyped, ConstantFacts
  <2> QED BY <1>1, <1>4, <1>8, <1>9, <1>19, <1>22, <2>1, RequestsFrame DEF Core, requests
<1>24. NothingLeaks'
  BY <1>1, <1>4, <1>8, <1>9, <1>19, <1>22, NothingLeaksFrame DEF Core, link, history
<1>25. PacketsCounted'
  <2>1. \A t : Mine(t)' = Mine(t) /\ Size(t)' = Size(t) /\ Made(t)' = Made(t)
    BY <1>4, <1>19 DEF Mine, Size, Made, StateOf, requests
  <2>2. None \notin Live BY <1>1, SetsTyped, ConstantFacts
  <2>3. \A t \in Live' :
       /\ payload_states'[t].transferred = Len(payload_states'[t].completed)
       /\ Made(t)' <= Size(t)'
       /\ payload_states'[t].transferred + Cardinality(Mine(t)') <= Made(t)'
    BY <1>1, <1>4, <1>9, <2>1 DEF Core, PacketsCounted
  <2>4. \A t \in Live' : t \notin Fresh' \cup {Hand'} => Made(t)' = Size(t)'
    BY <1>1, <1>6, <1>9, <1>12, <2>1, <2>2 DEF Core, PacketsCounted
  <2> QED BY <1>8, <2>3, <2>4 DEF PacketsCounted
<1>26. LastIsLast' BY <1>1, <1>4, <1>9, <1>19, LastFrame DEF Core, requests, link, history
<1>27. Counted'
  <2>1. Undisturbed' = Undisturbed BY <1>4 DEF Undisturbed, link, history
  <2>2. \A e : OnWay(e)' = OnWay(e) BY <1>4, <1>19 DEF OnWay, StateOf, requests
  <2> DEFINE f == payload_states[s].endpoint
  <2>3. Completed(s) = {} /\ \A t : Completed(t)' = Completed(t)
    BY <1>1, <1>4, <1>10, <1>12, ItemsOfNone DEF Core, FreshIsNew, Completed
  <2>4. s \in Live BY <1>10 DEF Live
  <2>5. payload_states' = payload_states /\ work_requests' = work_requests
    BY <1>4 DEF requests
  <2>6. \A e : BegunAt(e)' = IF e = f THEN BegunAt(e) \cup {s} ELSE BegunAt(e)
    <3> TAKE e
    <3>1. BegunAt(e)' = {t \in Live : /\ payload_states[t].endpoint = e /\ t \notin Unbegun'
                /\ \A w \in Completed(t) : ~work_requests[w].last}
      BY <1>9, <2>3, <2>5 DEF BegunAt
    <3>2. \A t \in Live : t \in BegunAt(e)' <=> (t \in BegunAt(e) \/ (t = s /\ e = f))
      BY <1>11, <2>3, <3>1 DEF BegunAt
    <3>3. BegunAt(e)' \subseteq Live /\ BegunAt(e) \subseteq Live BY <3>1 DEF BegunAt
    <3> QED BY <2>4, <3>2, <3>3
  <2>7. \A e : s \notin BegunAt(e) /\ BegunAt(e) \subseteq Live BY <1>10 DEF BegunAt
  <2>8. \A e : IsFiniteSet(BegunAt(e)) BY <1>1, <2>7, SetsTyped, FS_Subset
  <2>9. f \in Endpoint BY <1>1, <1>3 DEF Kinds, StateKind
  <2>10. tx_in_flight_ref_count' = [tx_in_flight_ref_count EXCEPT ![f] = @ + 1]
         /\ tx_in_flight_ref_count \in [Endpoint -> Int]
    BY <1>1, <1>4 DEF Kinds, LineKind
  <2>11. \A e : Cardinality(OnWay(e)) \in Int
    <3>1. \A e : OnWay(e) \subseteq Moving BY DEF OnWay
    <3> QED BY <1>1, <3>1, SetsTyped, FS_Subset, FS_CardinalityType
  <2> HIDE DEF f
  <2> SUFFICES ASSUME Undisturbed', NEW e \in Endpoint
               PROVE  tx_in_flight_ref_count'[e]
                        = Cardinality(OnWay(e)') + Cardinality(BegunAt(e)')
    BY DEF Counted
  <2>12. tx_in_flight_ref_count[e] = Cardinality(OnWay(e)) + Cardinality(BegunAt(e))
    BY <1>1, <2>1 DEF Core, Counted
  <2>13. Cardinality(BegunAt(e)) \in Int BY <2>8, FS_CardinalityType
  <2>14. CASE e = f
    <3>1. Cardinality(BegunAt(e)') = Cardinality(BegunAt(e)) + 1
      BY <2>6, <2>7, <2>8, <2>14, OneMore
    <3>2. tx_in_flight_ref_count'[e] = tx_in_flight_ref_count[e] + 1 BY <2>10, <2>14
    <3> QED BY <2>2, <2>11, <2>12, <2>13, <3>1, <3>2
  <2>15. CASE e # f
    <3>1. BegunAt(e)' = BegunAt(e) BY <2>6, <2>15
    <3>2. tx_in_flight_ref_count'[e] = tx_in_flight_ref_count[e] BY <2>10, <2>15
    <3> QED BY <2>2, <2>12, <3>1, <3>2
  <2> QED BY <2>14, <2>15
<1>28. EntriesKeptTrack' BY <1>1, <1>4, <1>8, <1>22, EntriesFrame DEF Core, requests
<1>29. SourceEntriesHavePlaces' BY <1>1, <1>4, <1>9, SourceFrame DEF Placed
<1>30. ToldOnce' BY <1>1, <1>4, <1>9, ToldFrame DEF Placed, history
<1>31. Core'
  BY <1>19, <1>20, <1>21, <1>23, <1>24, <1>25, <1>26, <1>27, <1>28 DEF Core
<1> QED BY <1>14, <1>15, <1>16, <1>17, <1>18, <1>29, <1>30, <1>31 DEF IInv, Placed

(* PayloadTransferComplete: the payload state is no longer held, the       *)
(* message is.                                                             *)
LEMMA TransferStep ==
  ASSUME IInv, TransferComplete
  PROVE  IInv'
<1> DEFINE s == Parked
<1> DEFINE q == app_payload_message_queue
<1> DEFINE p == payload_states[s].payload
<1>1. Kinds /\ Control /\ Calm /\ Placed /\ Core /\ SlotsApart /\ PayloadsApart
  BY DEF IInv, Placed
<1>2. /\ poll_thread' = [poll_thread EXCEPT !.pc = "put"] /\ Polls("transfer")
      /\ UNCHANGED <<app, accepted_count, payload_queue, payload_thread, payload_num, link,
              accepted, returned, raced, states, requests, work_req_comp_queue, waiting,
              in_flight, tx_in_flight_ref_count, tx_poll_do_work_signal, unacked>>
  BY DEF TransferComplete, PollTo, OnlyPollThread
<1>3. \/ q' = Append(q, [payload |-> p, status |-> "Ok"])
           /\ payload_sgl_entries' = payload_sgl_entries
      \/ q' = q /\ payload_sgl_entries' = payload_sgl_entries + 1
  BY DEF TransferComplete, Message, Parked
<1>4. PollKind BY <1>1 DEF Kinds
<1>5. PollKind' /\ poll_thread'.pc = "put" /\ Parked' = Parked
  BY <1>2, <1>4 DEF PollKind, Parked
<1>6. s # None /\ s \in Used /\ s \notin Calling
  BY <1>1, <1>2 DEF Control, SlotsApart, Unbegun
<1>7. s \in Slot BY <1>1, <1>6, SetsTyped
<1>8. Hand' = Hand /\ Doing' = Doing /\ Request' = Request /\ List' = List
      /\ payload_thread'.last = payload_thread.last
      /\ payload_thread'.entries = payload_thread.entries /\ AppSlot' = AppSlot
      /\ Used' = Used /\ Live' = Live
  BY <1>2, <1>5 DEF Hand, Doing, Request, List, Used, Live, AppSlot, states
<1>9. Holding = Used /\ Holding' = Used \ {s}
  BY <1>2, <1>5, <1>8 DEF Holding, Polls, Used, Parked
<1>10. Calling' = Calling /\ Unbegun' = Unbegun /\ Fresh' = Fresh BY <1>2, <1>8, SetsFrame
<1>11. Core' BY <1>1, <1>2, <1>8, <1>10, CoreFrame DEF states, link
<1>12. SlotsApart' /\ PayloadsApart'
  BY <1>1, <1>2, <1>5, <1>8, <1>10, SlotsFrame, PayloadsFrame DEF states
<1>13. Calm' BY <1>1, <1>2 DEF Calm, Connected, link
<1>14. Control'
  <2>1. Parked' # None /\ Polls("put")' BY <1>5, <1>6 DEF Polls
  <2>2. payload_thread' = payload_thread /\ app' = app BY <1>2
  <2> QED BY <1>1, <1>8, <2>1, <2>2 DEF Control, Thread
<1>15. p \in 1 .. accepted_count /\ p \in accepted BY <1>1, <1>6 DEF PayloadsApart
<1>16. p \in Payload /\ [payload |-> p, status |-> "Ok"] \in [payload : Payload, status : Status]
  <2>1. accepted_count \in 0 .. Len(Packets) /\ Len(Packets) \in Nat
    BY <1>1, ConstantFacts DEF Kinds, ReturnKind
  <2>2. p \in Payload BY <1>15, <2>1 DEF Payload
  <2> QED BY <2>2 DEF Status
<1>17. q \in Seq([payload : Payload, status : Status]) /\ payload_sgl_entries \in Int
  BY <1>1 DEF Kinds, ReturnKind
<1> DEFINE m == [payload |-> p, status |-> "Ok"]
<1> DEFINE M == [payload : Payload, status : Status]
<1>18. m \in M /\ q \in Seq(M) /\ m.payload = p BY <1>16, <1>17
<1>19. \/ q' = Append(q, m) /\ payload_sgl_entries' = payload_sgl_entries
       \/ q' = q /\ payload_sgl_entries' = payload_sgl_entries + 1
  BY <1>3
<1>20. ToldOnce /\ SourceEntriesHavePlaces BY <1>1 DEF Placed
<1>21. \A i, j \in DOMAIN q : q[i].payload = q[j].payload => i = j BY <1>20 DEF ToldOnce
<1>22. \A i \in DOMAIN q : /\ q[i].payload \in accepted /\ returned[q[i].payload] = <<>>
                           /\ \A t \in Holding : payload_states[t].payload # q[i].payload
  BY <1>20 DEF ToldOnce
<1>23. \A r \in Payload : returned[r] # <<>> =>
          /\ Len(returned[r]) = 1 /\ r \in accepted
          /\ \A t \in Holding : payload_states[t].payload # r
  BY <1>20 DEF ToldOnce
<1>24. \A t \in Used : payload_states[t].payload = p => t = s BY <1>1, <1>6 DEF PayloadsApart
<1>p. p = payload_states[s].payload /\ s = Parked OBVIOUS
<1>q. \A i, j \in DOMAIN q' : q'[i].payload = q'[j].payload => i = j
  <2> HIDE DEF q, m, M, p, s
  <2>1. CASE q' = q BY <1>21, <2>1
  <2>2. CASE q' = Append(q, m)
    <3>1. DOMAIN q = 1 .. Len(q) /\ DOMAIN q' = 1 .. Len(q) + 1 /\ Len(q) \in Nat
          /\ q'[Len(q) + 1] = m /\ \A i \in 1 .. Len(q) : q'[i] = q[i]
      BY <1>18, <2>2
    <3>2. \A i \in DOMAIN q : q[i].payload # p BY <1>6, <1>9, <1>22, <1>p
    <3> QED BY <1>18, <1>21, <3>1, <3>2
  <2> QED BY <1>19, <2>1, <2>2
<1>r. \A i \in DOMAIN q' : /\ q'[i].payload \in accepted /\ returned[q'[i].payload] = <<>>
                           /\ \A t \in Holding' : payload_states[t].payload # q'[i].payload
  <2> HIDE DEF q, m, M, p, s
  <2>1. \A i \in DOMAIN q' : (i \in DOMAIN q /\ q'[i] = q[i]) \/ q'[i] = m
    <3>1. CASE q' = Append(q, m)
      <4>1. DOMAIN q = 1 .. Len(q) /\ DOMAIN q' = 1 .. Len(q) + 1 /\ Len(q) \in Nat
          /\ q'[Len(q) + 1] = m /\ \A i \in 1 .. Len(q) : q'[i] = q[i]
        BY <1>18, <3>1
      <4> QED BY <4>1
    <3> QED BY <1>19, <3>1
  <2>2. returned[p] = <<>> BY <1>6, <1>9, <1>16, <1>23, <1>p
  <2>3. \A t \in Holding' : payload_states[t].payload # p BY <1>9, <1>24
  <2> QED BY <1>9, <1>15, <1>18, <1>22, <2>1, <2>2, <2>3
<1>25. ToldOnce'
  <2>1. accepted' = accepted /\ returned' = returned /\ payload_states' = payload_states
    BY <1>2 DEF states
  <2>2. \A r \in Payload : returned'[r] # <<>> =>
          /\ Len(returned'[r]) = 1 /\ r \in accepted'
          /\ \A t \in Holding' : payload_states'[t].payload # r
    BY <1>9, <1>23, <2>1
  <2> QED BY <1>q, <1>r, <2>1, <2>2 DEF ToldOnce
<1>26. q' \in Seq(M) /\ payload_sgl_entries' \in Int
  <2>1. payload_sgl_entries' \in Int BY <1>17, <1>19
  <2> HIDE DEF q, m, M
  <2>2. Append(q, m) \in Seq(M) BY <1>18
  <2> QED BY <1>18, <1>19, <2>1, <2>2
<1>27. Kinds'
  <2>1. AppKind' /\ StateKind' /\ ThreadKind' /\ RequestKind'
    BY <1>1, <1>2 DEF Kinds, AppKind, StateKind, ThreadKind, RequestKind, requests, states
  <2>2. LineKind' BY <1>1, <1>2 DEF Kinds, LineKind, waiting
  <2>3. ReturnKind' BY <1>1, <1>2, <1>26 DEF Kinds, ReturnKind
  <2> QED BY <1>5, <2>1, <2>2, <2>3 DEF Kinds
<1>28. SourceEntriesHavePlaces'
  <2>1. IsFiniteSet(Used) BY <1>1, SetsTyped
  <2> HIDE DEF s
  <2>2. Cardinality(Holding') = Cardinality(Holding) - 1 /\ Cardinality(Holding) \in Int
    <3>1. Cardinality(Used \ {s}) = Cardinality(Used) - 1 /\ Cardinality(Used) \in Nat
      BY <1>6, <2>1, OneMore
    <3> QED BY <1>9, <3>1
  <2>3. payload_sgl_entries + Cardinality(Holding) + Len(q) = PayloadSglEntries
    BY <1>20 DEF SourceEntriesHavePlaces
  <2> HIDE DEF m, M
  <2>4. payload_sgl_entries' + Len(q') = payload_sgl_entries + Len(q) + 1
        /\ Len(q) \in Int /\ Len(q') \in Int
    BY <1>17, <1>18, <1>19
  <2>5. payload_sgl_entries' + Cardinality(Holding') + Len(q') = PayloadSglEntries
    <3> DEFINE a == payload_sgl_entries
    <3> DEFINE b == payload_sgl_entries'
    <3> DEFINE c == Cardinality(Holding)
    <3> DEFINE d == Cardinality(Holding')
    <3> DEFINE e == Len(q)
    <3> DEFINE f == Len(q')
    <3>1. a \in Int /\ b \in Int /\ c \in Int /\ e \in Int /\ f \in Int
          /\ d = c - 1 /\ a + c + e = PayloadSglEntries /\ b + f = a + e + 1
      BY <1>17, <1>26, <2>2, <2>3, <2>4
    <3> HIDE DEF a, b, c, d, e, f
    <3>2. b + d + f = PayloadSglEntries BY <3>1
    <3> QED BY <3>2 DEF b, d, f
  <2> QED BY <2>5 DEF SourceEntriesHavePlaces, q
<1> QED BY <1>11, <1>12, <1>13, <1>14, <1>25, <1>27, <1>28 DEF IInv, Placed

(* The payload state of a completed payload goes back to the pool.         *)
LEMMA PutStep ==
  ASSUME IInv, PutPayloadState
  PROVE  IInv'
<1> DEFINE s == Parked
<1>1. Kinds /\ Control /\ Calm /\ Placed /\ Core /\ SlotsApart /\ PayloadsApart
  BY DEF IInv, Placed
<1>2. /\ poll_thread' = [poll_thread EXCEPT !.pc = "completions", !.slot = None]
      /\ payload_state_pool' = CdiPoolPut(payload_state_pool, s) /\ Polls("put")
      /\ UNCHANGED <<app, accepted_count, payload_queue, payload_thread, payload_num, link,
              accepted, returned, raced, payload_states, payload_sgl_entries, requests,
              work_req_comp_queue, waiting, in_flight, tx_in_flight_ref_count,
              tx_poll_do_work_signal, app_payload_message_queue, unacked>>
  BY DEF PutPayloadState, OnlyPollThread, Parked
<1>3. PollKind BY <1>1 DEF Kinds
<1>4. PollKind' /\ poll_thread'.pc = "completions" /\ Parked' = None
  BY <1>2, <1>3 DEF PollKind, Parked
<1>5. s # None /\ s \in Used /\ s \notin Unbegun /\ s # Hand
  BY <1>1, <1>2 DEF Control, SlotsApart
<1>h. s = Parked OBVIOUS
<1> HIDE DEF s
<1>6. PoolKind(payload_state_pool', Slot) /\ Used' = Used \ {s}
  <2>1. PoolKind(payload_state_pool, Slot) /\ s \in InUse(payload_state_pool)
    BY <1>1, <1>5 DEF Kinds, StateKind, Used
  <2> QED BY <1>2, <2>1, PoolPut DEF Used
<1>7. Hand' = Hand /\ Doing' = Doing /\ Request' = Request /\ List' = List
      /\ payload_thread'.last = payload_thread.last
      /\ payload_thread'.entries = payload_thread.entries /\ AppSlot' = AppSlot
  BY <1>2 DEF Hand, Doing, Request, List, AppSlot
<1>8. Live' = Live
  <2>1. None \notin Used BY <1>1, SetsTyped, ConstantFacts
  <2> QED BY <1>4, <1>6, <1>h, <2>1 DEF Live
<1>9. Holding' = Holding BY <1>2, <1>4, <1>6, <1>h DEF Holding, Polls, Used, Parked
<1>10. Calling' = Calling /\ Unbegun' = Unbegun /\ Fresh' = Fresh BY <1>2, <1>7, SetsFrame
<1>11. Core' BY <1>1, <1>2, <1>7, <1>8, <1>10, CoreFrame DEF link
<1>12. SlotsApart'
  <2>1. None \notin Unbegun BY <1>1, SetsTyped, ConstantFacts
  <2>2. payload_queue' = payload_queue BY <1>2
  <2> QED BY <1>1, <1>4, <1>5, <1>6, <1>7, <1>10, <2>1, <2>2 DEF SlotsApart
<1>13. PayloadsApart' BY <1>1, <1>2, <1>6, <1>10, PayloadsFrame
<1>14. Calm' BY <1>1, <1>2 DEF Calm, Connected, link
<1>15. Control'
  <2>1. ~Polls("put")' /\ ~Polls("transfer")' BY <1>4 DEF Polls
  <2>2. payload_thread' = payload_thread /\ app' = app BY <1>2
  <2> QED BY <1>1, <1>4, <1>7, <2>1, <2>2 DEF Control, Thread
<1>16. SourceEntriesHavePlaces' BY <1>1, <1>2, <1>9, SourceFrame DEF Placed
<1>17. ToldOnce' BY <1>1, <1>2, <1>9, ToldFrame DEF Placed
<1>18. Kinds'
  <2>1. AppKind' /\ StateKind' /\ ThreadKind' /\ RequestKind'
    BY <1>1, <1>2, <1>6 DEF Kinds, AppKind, StateKind, ThreadKind, RequestKind, requests
  <2>2. LineKind' /\ ReturnKind' BY <1>1, <1>2 DEF Kinds, LineKind, ReturnKind, waiting
  <2> QED BY <1>4, <2>1, <2>2 DEF Kinds
<1> QED BY <1>11, <1>12, <1>13, <1>14, <1>15, <1>16, <1>17, <1>18 DEF IInv, Placed

-----------------------------------------------------------------------------
(* Completed work requests are freed.                                      *)

(* What the payload thread does with completed work requests.              *)
LEMMA FreeEffect ==
  ASSUME IInv, FreeCompleted
  PROVE  /\ StateKind' /\ ThreadKind' /\ RequestKind' /\ LineKind' /\ Control'
         /\ Holder' = Holder \ Freed /\ work_req_comp_queue' = <<>>
         /\ packet_sgl_entries' = packet_sgl_entries + 2 * Len(work_req_comp_queue)
         /\ work_requests' = work_requests /\ payload_thread'.entries = payload_thread.entries
         /\ Hand' = Hand /\ List' = List /\ Request' = Request
         /\ \A t \in Slot :
              /\ payload_states'[t].payload = payload_states[t].payload
              /\ payload_states'[t].endpoint = payload_states[t].endpoint
              /\ payload_states'[t].packet_sequence_num = payload_states[t].packet_sequence_num
              /\ payload_states'[t].transferred = payload_states[t].transferred
              /\ payload_states'[t].completed = payload_states[t].completed
              /\ t # Hand \/ Doing # "WorkReceived" => payload_states'[t] = payload_states[t]
         /\ \/ Doing # "WorkReceived" /\ Doing' = Doing
               /\ payload_thread'.last = payload_thread.last
            \/ Doing = "WorkReceived" /\ Doing' = "GetWorkRequest"
<1>1. Kinds /\ Control /\ Core /\ ThreadKind /\ StateKind /\ LineKind /\ RequestKind
  BY DEF IInv, Placed, Kinds
<1>2. /\ work_request_pool' = PutEach(work_request_pool, work_req_comp_queue)
      /\ packet_sgl_entries' = packet_sgl_entries + EntriesPerPacket * Len(work_req_comp_queue)
      /\ work_req_comp_queue' = <<>>
      /\ UNCHANGED <<app, payload_state_pool, poll_thread, payload_queue, work_requests, waiting,
                     in_flight, tx_in_flight_ref_count>>
  BY DEF FreeCompleted, FreedRequests, OnlyPayloadThread
<1>3. PoolKind(work_request_pool', WorkRequest) /\ Holder' = Holder \ Freed
  <2>1. PoolKind(work_request_pool, WorkRequest) /\ work_req_comp_queue \in Seq(WorkRequest)
        /\ IsInjective(work_req_comp_queue)
        /\ ToSet(work_req_comp_queue) \subseteq InUse(work_request_pool)
    BY <1>1 DEF RequestKind, Core, RequestsApart, Freed, Holder
  <2> QED BY <1>2, <2>1, PoolPutEach DEF Holder, Freed
<1>4. RequestKind'
  <2>1. packet_sgl_entries' \in Nat /\ work_req_comp_queue' \in Seq(WorkRequest)
    BY <1>1, <1>2, ConstantFacts DEF RequestKind
  <2> QED BY <1>1, <1>2, <1>3, <2>1 DEF RequestKind
<1>5. packet_sgl_entries' = packet_sgl_entries + 2 * Len(work_req_comp_queue)
  BY <1>2, ConstantFacts
<1>6. AppSlot' = AppSlot /\ app' = app /\ Parked' = Parked /\ poll_thread' = poll_thread
  BY <1>2 DEF AppSlot, Parked
<1>7. CASE Doing # "WorkReceived"
  <2>1. /\ payload_thread' = [payload_thread EXCEPT
             !.pc = IF payload_thread.state = "Idle" THEN "wait" ELSE "build"]
        /\ UNCHANGED <<payload_states, payload_num>>
    BY <1>7 DEF FreeCompleted, Doing, Goto
  <2>2. /\ ThreadKind' /\ Hand' = Hand /\ List' = List /\ Request' = Request /\ Doing' = Doing
        /\ payload_thread'.pc = (IF Doing = "Idle" THEN "wait" ELSE "build")
        /\ payload_thread'.entries = payload_thread.entries
        /\ payload_thread'.last = payload_thread.last
    BY <1>1, <2>1 DEF ThreadKind, Hand, List, Request, Doing
  <2>3. Control' BY <1>1, <1>6, <1>7, <2>2 DEF Control, Thread, Polls
  <2>4. StateKind' /\ LineKind' BY <1>1, <1>2, <2>1 DEF StateKind, LineKind, waiting
  <2> QED BY <1>2, <1>3, <1>4, <1>5, <1>7, <2>1, <2>2, <2>3, <2>4
<1>8. CASE Doing = "WorkReceived"
  <2> DEFINE s == Hand
  <2> DEFINE e == payload_states[s].endpoint
  <2>1. /\ payload_states' = [payload_states EXCEPT ![s].payload_num = payload_num[e]]
        /\ payload_num' = [payload_num EXCEPT ![e] = NextPayloadNum(@)]
        /\ payload_thread' = [payload_thread EXCEPT
                   !.pc = "build", !.state = "GetWorkRequest", !.entries = 0,
                   !.list = <<>>, !.batch = 1, !.last = FALSE]
    BY <1>8 DEF FreeCompleted, Doing, Hand
  <2>2. s \in Slot /\ List = <<>> /\ Request = None /\ payload_thread.entries = 0
    BY <1>1, <1>8, SetsTyped DEF Control
  <2>3. /\ ThreadKind' /\ Hand' = Hand /\ List' = <<>> /\ Request' = Request
        /\ Doing' = "GetWorkRequest" /\ payload_thread'.pc = "build"
        /\ payload_thread'.entries = 0
    <3>1. payload_thread' = [pc |-> "build", state |-> "GetWorkRequest",
                 slot |-> payload_thread.slot, request |-> payload_thread.request,
                 entries |-> 0, list |-> <<>>, batch |-> 1, last |-> FALSE]
      BY <1>1, <2>1 DEF ThreadKind
    <3>2. payload_thread.slot \in Slot \cup {None}
          /\ payload_thread.request \in WorkRequest \cup {None}
      BY <1>1 DEF ThreadKind
    <3>3. 0 \in Nat /\ 1 \in Nat /\ <<>> \in Seq(WorkRequest) /\ "GetWorkRequest" \in States
      BY DEF States
    <3>4. ThreadKind' BY <3>1, <3>2, <3>3 DEF ThreadKind
    <3> QED BY <3>1, <3>4 DEF Hand, List, Request, Doing
  <2>4. e \in Endpoint BY <1>1, <2>2 DEF StateKind
  <2> HIDE DEF s, e
  <2>5. payload_num[e] \in Int BY <1>1, <2>4 DEF LineKind
  <2>6. LineKind'
    <3>1. NextPayloadNum(payload_num[e]) \in Int BY <2>5 DEF NextPayloadNum
    <3>2. payload_num' \in [Endpoint -> Int] BY <1>1, <2>1, <2>4, <3>1 DEF LineKind
    <3> QED BY <1>1, <1>2, <3>2 DEF LineKind, waiting
  <2>7. StateKind' BY <1>1, <1>2, <2>1, <2>2, <2>5 DEF StateKind
  <2>8. \A t \in Slot :
              /\ payload_states'[t].payload = payload_states[t].payload
              /\ payload_states'[t].endpoint = payload_states[t].endpoint
              /\ payload_states'[t].packet_sequence_num = payload_states[t].packet_sequence_num
              /\ payload_states'[t].transferred = payload_states[t].transferred
              /\ payload_states'[t].completed = payload_states[t].completed
              /\ t # s => payload_states'[t] = payload_states[t]
    BY <1>1, <2>1, <2>2 DEF StateKind
  <2>9. Control' BY <1>1, <1>6, <1>8, <2>2, <2>3 DEF Control, Thread, Polls
  <2> QED BY <1>2, <1>3, <1>4, <1>5, <1>8, <2>2, <2>3, <2>6, <2>7, <2>8, <2>9 DEF s
<1> QED BY <1>7, <1>8

(* They go back with their entries, and the next payload begins.           *)
LEMMA FreeStep ==
  ASSUME IInv, FreeCompleted
  PROVE  IInv'
<1>1. /\ StateKind' /\ ThreadKind' /\ RequestKind' /\ LineKind' /\ Control'
      /\ Holder' = Holder \ Freed /\ work_req_comp_queue' = <<>>
      /\ packet_sgl_entries' = packet_sgl_entries + 2 * Len(work_req_comp_queue)
      /\ work_requests' = work_requests /\ payload_thread'.entries = payload_thread.entries
      /\ Hand' = Hand /\ List' = List /\ Request' = Request
  BY FreeEffect
<1>2. \A t \in Slot :
              /\ payload_states'[t].payload = payload_states[t].payload
              /\ payload_states'[t].endpoint = payload_states[t].endpoint
              /\ payload_states'[t].packet_sequence_num = payload_states[t].packet_sequence_num
              /\ payload_states'[t].transferred = payload_states[t].transferred
              /\ payload_states'[t].completed = payload_states[t].completed
              /\ t # Hand \/ Doing # "WorkReceived" => payload_states'[t] = payload_states[t]
  BY FreeEffect
<1>3. \/ Doing # "WorkReceived" /\ Doing' = Doing
         /\ payload_thread'.last = payload_thread.last
      \/ Doing = "WorkReceived" /\ Doing' = "GetWorkRequest"
  BY FreeEffect
<1>4. UNCHANGED <<app, accepted_count, payload_state_pool, payload_sgl_entries, poll_thread,
                  app_payload_message_queue, link, history, payload_queue, waiting, in_flight,
                  tx_in_flight_ref_count, tx_poll_do_work_signal>>
  BY DEF FreeCompleted, OnlyPayloadThread
<1>5. Kinds /\ Control /\ Calm /\ Placed /\ Core /\ SlotsApart /\ PayloadsApart
  BY DEF IInv, Placed
<1>6. AppSlot' = AppSlot /\ Parked' = Parked /\ Holding' = Holding /\ Used' = Used
      /\ Live' = Live /\ Calling' = Calling /\ Unbegun' = Unbegun
  BY <1>4 DEF AppSlot, Parked, Holding, Polls, Used, Live, Calling, Unbegun
<1>7. Used \subseteq Slot /\ Live \subseteq Used /\ Live \subseteq Slot BY <1>5, SetsTyped
<1>8. Fresh' \subseteq Fresh BY <1>1, <1>3, <1>6 DEF Fresh
<1>9. Fresh \subseteq Fresh' \cup {Hand} BY <1>1, <1>3, <1>6 DEF Fresh
<1>10. Fresh \subseteq Slot
  BY <1>5, <1>6, <1>7, SetsTyped, ConstantFacts DEF Fresh, Control
<1>11. Kinds'
  <2>1. AppKind' /\ PollKind' /\ ReturnKind'
    BY <1>4, <1>5 DEF Kinds, AppKind, PollKind, ReturnKind, history
  <2> QED BY <1>1, <2>1 DEF Kinds
<1>12. Calm' BY <1>4, <1>5 DEF Calm, Connected, link
<1>13. SlotsApart' BY <1>1, <1>4, <1>5, <1>6, SlotsFrame
<1>14. PayloadsApart' BY <1>2, <1>4, <1>5, <1>6, <1>7 DEF PayloadsApart, history
<1>15. LinesApart' /\ Moving' = Moving /\ \A e : Sent(e)' = Sent(e)
  BY <1>1, <1>4, <1>5, LinesFrame DEF Core, waiting
<1>16. FreshIsNew' BY <1>2, <1>5, <1>8, <1>10 DEF Core, FreshIsNew
<1>17. \A w : StateOf(w)' = StateOf(w) BY <1>1 DEF StateOf
<1>18. \A w \in Moving : StateOf(w) \in Live \ Fresh
                         /\ payload_states'[StateOf(w)] = payload_states[StateOf(w)]
  <2> TAKE w \in Moving
  <2>1. StateOf(w) \in Live \ Fresh BY <1>5 DEF Core, PacketsBelong
  <2>2. StateOf(w) # Hand \/ Doing # "WorkReceived" BY <2>1 DEF Fresh
  <2> QED BY <1>2, <1>7, <2>1, <2>2
<1>19. PacketsBelong'
  <2>1. PacketsBelong BY <1>5 DEF Core
  <2>2. \A w \in Moving : /\ StateOf(w)' \in Live' \ Fresh'
          /\ work_requests'[w].payload_num = payload_states'[StateOf(w)'].payload_num
    BY <1>1, <1>6, <1>8, <1>17, <1>18, <2>1 DEF PacketsBelong
  <2>3. \A w \in ToSet(List)' : StateOf(w)' = Hand' BY <1>1, <1>17, <2>1 DEF PacketsBelong
  <2>4. \A e \in Endpoint : \A w \in Sent(e)' : payload_states'[StateOf(w)'].endpoint = e
    <3> TAKE e \in Endpoint
    <3> TAKE w \in Sent(e)'
    <3>1. w \in Sent(e) /\ w \in Moving BY <1>15, MovingIs
    <3> QED BY <1>17, <1>18, <2>1, <3>1 DEF PacketsBelong
  <2> QED BY <1>15, <2>2, <2>3, <2>4 DEF PacketsBelong
<1>20. Freed' = {} /\ Held' = Held BY <1>1, ItemsOfNone DEF Freed, Held
<1>21. \A t \in Live : Completed(t)' = Completed(t) BY <1>2, <1>7 DEF Completed
<1>22. RequestsApart'
  <2>1. RequestsApart BY <1>5 DEF Core
  <2>2. \A s \in Live' :
       /\ IsInjective(payload_states'[s].completed)
       /\ Completed(s)' \subseteq Holder'
       /\ Completed(s)' \cap (Moving' \cup Freed' \cup {Request'}) = {}
       /\ \A w \in Completed(s)' : StateOf(w)' = s
    <3> TAKE s \in Live'
    <3>1. s \in Live /\ s \in Slot BY <1>6, <1>7
    <3>2. payload_states'[s].completed = payload_states[s].completed BY <1>2, <3>1
    <3>3. Completed(s)' = Completed(s) BY <1>21, <3>1
    <3>4. IsInjective(payload_states[s].completed) BY <2>1, <3>1 DEF RequestsApart
    <3>5. /\ Completed(s) \subseteq Holder
          /\ Completed(s) \cap (Moving \cup Freed \cup {Request}) = {}
          /\ \A w \in Completed(s) : StateOf(w) = s
      BY <2>1, <3>1 DEF RequestsApart
    <3>6. IsInjective(payload_states'[s].completed) BY <3>2, <3>4
    <3> QED BY <1>1, <1>15, <1>17, <1>20, <3>3, <3>5, <3>6
  <2> QED BY <1>1, <1>15, <1>20, <2>1, <2>2, ItemsOfNone DEF RequestsApart
<1>23. Undisturbed' = Undisturbed BY <1>4 DEF Undisturbed, link, history
<1>24. NothingLeaks'
  <2> DEFINE C == UNION {Completed(t) : t \in Live}
  <2> DEFINE D == UNION {Completed(t)' : t \in Live'}
  <2>1. D = C
    <3>1. {Completed(t)' : t \in Live'} = {Completed(t) : t \in Live} BY <1>6, <1>21
    <3> QED BY <3>1
  <2>2. C \cap Freed = {}
    <3>1. \A t \in Live : Completed(t) \cap Freed = {} BY <1>5 DEF Core, RequestsApart
    <3> QED BY <3>1
  <2>3. Moving \cap Freed = {} /\ Held \cap Freed = {}
    BY <1>5 DEF Core, RequestsApart, Held
  <2>4. Undisturbed => Holder = Moving \cup Freed \cup Held \cup C
    BY <1>5 DEF Core, NothingLeaks
  <2>5. NothingLeaks' <=> (Undisturbed' => Holder' = Moving' \cup Freed' \cup Held' \cup D)
    BY DEF NothingLeaks
  <2> HIDE DEF C, D
  <2> QED BY <1>1, <1>15, <1>20, <1>23, <2>1, <2>2, <2>3, <2>4, <2>5
<1>25. \A t \in Slot : Size(t)' = Size(t) /\ Made(t)' = Made(t) BY <1>2 DEF Size, Made
<1>26. \A t : Mine(t)' = Mine(t) BY <1>15, <1>17 DEF Mine
<1>27. PacketsCounted'
  <2>1. PacketsCounted BY <1>5 DEF Core
  <2>2. \A t \in Live' :
       /\ payload_states'[t].transferred = Len(payload_states'[t].completed)
       /\ Made(t)' <= Size(t)'
       /\ payload_states'[t].transferred + Cardinality(Mine(t)') <= Made(t)'
    <3> TAKE t \in Live'
    <3>1. t \in Live /\ t \in Slot BY <1>6, <1>7
    <3> QED BY <1>2, <1>25, <1>26, <2>1, <3>1 DEF PacketsCounted
  <2>3. \A t \in Live' : t \notin Fresh' \cup {Hand'} => Made(t)' = Size(t)'
    BY <1>1, <1>6, <1>7, <1>9, <1>25, <2>1 DEF PacketsCounted
  <2>4. CASE Doing = "WorkReceived"
    <3>1. Hand \in Fresh BY <2>4 DEF Fresh
    <3>2. Hand \in Used /\ Hand \in Slot BY <1>7, <1>10, <3>1, <2>4, <1>5 DEF SlotsApart, Control
    <3>3. Made(Hand) = 0 BY <1>5, <3>1 DEF Core, FreshIsNew, Made
    <3>4. payload_states[Hand].payload \in Payload
      <4>1. payload_states[Hand].payload \in 1 .. accepted_count
        BY <1>5, <3>2 DEF PayloadsApart
      <4>2. accepted_count \in 0 .. Len(Packets) /\ Len(Packets) \in Nat
        BY <1>5, ConstantFacts DEF Kinds, ReturnKind
      <4> QED BY <4>1, <4>2 DEF Payload
    <3>5. Size(Hand) \in Nat /\ Size(Hand) > 0 BY <3>4, ConstantFacts DEF Size
    <3>6. Made(Hand)' = 0 /\ Size(Hand)' = Size(Hand)
      BY <1>1, <1>25, <3>2, <3>3 DEF Made, Size
    <3>7. Made(Hand)' < Size(Hand)' BY <3>5, <3>6
    <3>8. Doing' = "GetWorkRequest" BY <1>3, <2>4
    <3> QED BY <2>2, <2>3, <3>7, <3>8 DEF PacketsCounted
  <2>5. CASE Doing # "WorkReceived"
    <3>1. Doing' = Doing /\ payload_thread'.last = payload_thread.last BY <1>3, <2>5
    <3>2. ASSUME Doing # "Idle"
          PROVE  Made(Hand)' = Made(Hand) /\ Size(Hand)' = Size(Hand)
      <4>1. Hand \in Slot BY <1>5, <3>2, SetsTyped DEF Control
      <4> QED BY <1>1, <1>25, <4>1 DEF Made, Size
    <3> QED BY <2>1, <2>2, <2>3, <3>1, <3>2 DEF PacketsCounted
  <2> QED BY <2>4, <2>5
<1>28. LastIsLast'
  <2>1. LastIsLast BY <1>5 DEF Core
  <2> SUFFICES ASSUME NEW s \in Live'
               PROVE  /\ \A v, w \in Mine(s)' \cup Completed(s)' :
                           work_requests'[v].last /\ work_requests'[w].last => v = w
                      /\ Made(s)' < Size(s)' =>
                           \A w \in Mine(s)' \cup Completed(s)' : ~work_requests'[w].last
                      /\ Undisturbed' /\ Made(s)' = Size(s)' =>
                           \E w \in Mine(s)' \cup Completed(s)' : work_requests'[w].last
    BY DEF LastIsLast
  <2>2. s \in Live /\ s \in Slot BY <1>6, <1>7
  <2>3. Mine(s)' = Mine(s) /\ Completed(s)' = Completed(s) /\ Made(s)' = Made(s)
        /\ Size(s)' = Size(s)
    BY <1>21, <1>25, <1>26, <2>2
  <2> QED BY <1>1, <1>23, <2>1, <2>2, <2>3 DEF LastIsLast
<1>29. Counted'
  <2>1. \A e : OnWay(e)' = OnWay(e) BY <1>15, <1>17, <1>18 DEF OnWay
  <2>2. \A e : BegunAt(e)' = BegunAt(e)
    <3>1. \A t \in Live : payload_states'[t].endpoint = payload_states[t].endpoint
      BY <1>2, <1>7
    <3> QED BY <1>1, <1>6, <1>21, <3>1 DEF BegunAt
  <2> QED BY <1>4, <1>5, <1>23, <2>1, <2>2 DEF Core, Counted
<1>30. EntriesKeptTrack'
  <2>1. IsFiniteSet(Holder) /\ work_req_comp_queue \in Seq(WorkRequest)
    BY <1>5, SetsTyped DEF Kinds, RequestKind
  <2>2. IsInjective(work_req_comp_queue) /\ Freed \subseteq Holder
    BY <1>5 DEF Core, RequestsApart
  <2>3. Cardinality(Freed) = Len(work_req_comp_queue) BY <2>1, <2>2, ItemsOf DEF Freed
  <2>4. Holder \cap Freed = Freed BY <2>2
  <2>5. Cardinality(Holder \ Freed) = Cardinality(Holder) - Cardinality(Holder \cap Freed)
    BY <2>1, FS_Difference
  <2> DEFINE h == Cardinality(Holder)
  <2> DEFINE k == Cardinality(Holder')
  <2> DEFINE c == Len(work_req_comp_queue)
  <2> DEFINE x == Cardinality(Held)
  <2>14. h \in Int BY <2>1, FS_CardinalityType
  <2>15. c \in Int BY <2>1
  <2>16. k = h - c BY <1>1, <2>3, <2>4, <2>5
  <2>6. k = h - c /\ h \in Int /\ c \in Int BY <2>14, <2>15, <2>16
  <2>7. IsFiniteSet(Held) BY FS_Singleton, FS_Difference DEF Held
  <2>8. x \in Int BY <2>7, FS_CardinalityType
  <2>9. packet_sgl_entries \in Int /\ payload_thread.entries \in Int
    BY <1>5 DEF Kinds, RequestKind, ThreadKind
  <2>10. packet_sgl_entries + payload_thread.entries + 2 * (h - x) = PacketSglEntries
    BY <1>5, ConstantFacts DEF Core, EntriesKeptTrack
  <2>11. packet_sgl_entries' = packet_sgl_entries + 2 * c BY <1>1
  <2>13. EntriesKeptTrack' <=>
           packet_sgl_entries' + payload_thread.entries + 2 * (k - x) = PacketSglEntries
    BY <1>1, <1>20, ConstantFacts DEF EntriesKeptTrack
  <2> HIDE DEF h, k, c, x
  <2>12. packet_sgl_entries' + payload_thread.entries + 2 * (k - x) = PacketSglEntries
    BY <2>6, <2>8, <2>9, <2>10, <2>11
  <2> QED BY <2>12, <2>13
<1>31. SourceEntriesHavePlaces' BY <1>4, <1>5, <1>6, SourceFrame DEF Placed
<1>32. ToldOnce'
  <2>1. \A t \in Holding : payload_states'[t].payload = payload_states[t].payload
    BY <1>2, <1>7 DEF Holding, Used
  <2> QED BY <1>4, <1>5, <1>6, <2>1 DEF Placed, ToldOnce, history
<1>33. Core'
  BY <1>15, <1>16, <1>19, <1>22, <1>24, <1>27, <1>28, <1>29, <1>30 DEF Core
<1> QED BY <1>1, <1>11, <1>12, <1>13, <1>14, <1>31, <1>32, <1>33 DEF IInv, Placed

-----------------------------------------------------------------------------
(* A work request for the next packet.                                     *)

(* A work request for the next packet.                                     *)
LEMMA GetItem ==
  ASSUME IInv, GetWorkRequest, HasItem(work_request_pool)
  PROVE  IInv'
<1> DEFINE w == NextItem(work_request_pool)
<1>1. Kinds /\ Control /\ Calm /\ Placed /\ Core /\ SlotsApart /\ PayloadsApart
  BY DEF IInv, Placed
<1>2. /\ payload_thread' = [payload_thread EXCEPT
               !.pc = "packet", !.state = "Packetizing", !.entries = 0, !.request = w]
      /\ work_request_pool' = CdiPoolGet(work_request_pool)
      /\ UNCHANGED <<app, accepted_count, payload_state_pool, payload_sgl_entries,
              poll_thread, app_payload_message_queue, link, history, payload_states,
              payload_queue, work_requests, packet_sgl_entries, work_req_comp_queue, waiting,
              in_flight, tx_in_flight_ref_count, tx_poll_do_work_signal, payload_num>>
  BY DEF GetWorkRequest, OnlyPayloadThread
<1>3. Doing = "GetWorkRequest"
  <2>1. payload_thread.pc # "get" BY <1>1 DEF Kinds, ThreadKind
  <2> QED BY <2>1 DEF GetWorkRequest, Reaches, Thread, Doing
<1>4. /\ w \in WorkRequest /\ w \notin Holder /\ PoolKind(work_request_pool', WorkRequest)
      /\ Holder' = Holder \cup {w}
  <2>1. PoolKind(work_request_pool, WorkRequest) BY <1>1 DEF Kinds, RequestKind
  <2> QED BY <1>2, <2>1, PoolGot DEF Holder
<1> HIDE DEF w
<1>5. w # None BY <1>4, ConstantFacts
<1>6. ThreadKind BY <1>1 DEF Kinds
<1>7. /\ ThreadKind' /\ payload_thread'.pc = "packet" /\ Doing' = "Packetizing" /\ Hand' = Hand
      /\ Request' = w /\ List' = List /\ payload_thread'.last = payload_thread.last
      /\ payload_thread'.entries = 0
  <2>1. payload_thread' = [pc |-> "packet", state |-> "Packetizing",
               slot |-> payload_thread.slot, request |-> w, entries |-> 0,
               list |-> payload_thread.list, batch |-> payload_thread.batch,
               last |-> payload_thread.last]
    BY <1>2, <1>6 DEF ThreadKind
  <2> QED BY <1>4, <1>6, <2>1 DEF ThreadKind, States, Doing, Hand, Request, List
<1>8. AppSlot' = AppSlot /\ Parked' = Parked /\ Holding' = Holding /\ Used' = Used
      /\ Live' = Live /\ Calling' = Calling /\ Unbegun' = Unbegun
  BY <1>2 DEF AppSlot, Parked, Holding, Polls, Used, Live, Calling, Unbegun
<1>9. Fresh' = Fresh BY <1>3, <1>7, <1>8 DEF Fresh
<1>10. Request = None /\ payload_thread.entries = 0 /\ Hand # None
  BY <1>1, <1>3 DEF Control
<1>11. Kinds'
  <2>1. AppKind' /\ StateKind' /\ RequestKind'
    BY <1>1, <1>2, <1>4 DEF Kinds, AppKind, StateKind, RequestKind
  <2>2. PollKind' /\ ReturnKind' /\ LineKind'
    BY <1>1, <1>2 DEF Kinds, PollKind, ReturnKind, LineKind, history, waiting
  <2> QED BY <1>7, <2>1, <2>2 DEF Kinds
<1>12. Calm' BY <1>1, <1>2 DEF Calm, Connected, link
<1>13. Control'
  <2>1. Parked' = Parked /\ poll_thread' = poll_thread /\ app' = app BY <1>2, <1>8
  <2>2. 0 <= EntriesPerPacket BY ConstantFacts
  <2> QED BY <1>1, <1>3, <1>5, <1>7, <1>8, <1>10, <2>1, <2>2 DEF Control, Thread, Polls
<1>14. SlotsApart' BY <1>1, <1>2, <1>7, <1>8, SlotsFrame
<1>15. PayloadsApart' BY <1>1, <1>2, <1>8, PayloadsFrame DEF history
<1>16. LinesApart' /\ Moving' = Moving /\ \A e : Sent(e)' = Sent(e)
  BY <1>1, <1>2, <1>7, LinesFrame DEF Core, waiting
<1>17. FreshIsNew' BY <1>1, <1>2, <1>9, FreshFrame DEF Core
<1>18. PacketsBelong' BY <1>1, <1>2, <1>7, <1>8, <1>9, <1>16, BelongFrame DEF Core
<1>19. Freed' = Freed /\ \A t : Completed(t)' = Completed(t) BY <1>2 DEF Freed, Completed
<1>20. RequestsApart'
  <2>1. RequestsApart BY <1>1 DEF Core
  <2>2. work_req_comp_queue' = work_req_comp_queue /\ payload_states' = payload_states
        /\ work_requests' = work_requests
    BY <1>2
  <2>3. Moving \cup Freed \subseteq Holder BY <2>1 DEF RequestsApart
  <2>4. \A s \in Live' :
       /\ IsInjective(payload_states'[s].completed)
       /\ Completed(s)' \subseteq Holder'
       /\ Completed(s)' \cap (Moving' \cup Freed' \cup {Request'}) = {}
       /\ \A v \in Completed(s)' : StateOf(v)' = s
    <3> TAKE s \in Live'
    <3>1. /\ IsInjective(payload_states[s].completed)
          /\ Completed(s) \subseteq Holder
          /\ Completed(s) \cap (Moving \cup Freed \cup {Request}) = {}
          /\ \A v \in Completed(s) : StateOf(v) = s
      BY <1>8, <2>1 DEF RequestsApart
    <3> QED BY <1>4, <1>7, <1>16, <1>19, <2>2, <3>1 DEF StateOf
  <2>5. IsInjective(work_req_comp_queue) /\ Moving \cap Freed = {} BY <2>1 DEF RequestsApart
  <2> QED BY <1>4, <1>7, <1>16, <1>19, <2>2, <2>3, <2>4, <2>5 DEF RequestsApart
<1>21. Held = {} /\ Held' = {w} BY <1>5, <1>7, <1>10 DEF Held
<1>22. Undisturbed' = Undisturbed BY <1>2 DEF Undisturbed, link, history
<1>23. NothingLeaks'
  <2>1. {Completed(s)' : s \in Live'} = {Completed(s) : s \in Live} BY <1>8, <1>19
  <2>2. Undisturbed =>
          Holder = Moving \cup Freed \cup Held \cup (UNION {Completed(s) : s \in Live})
    BY <1>1 DEF Core, NothingLeaks
  <2> DEFINE C == UNION {Completed(s) : s \in Live}
  <2>3. NothingLeaks' <=> (Undisturbed' => Holder' = Moving' \cup Freed' \cup Held' \cup C)
    BY <2>1 DEF NothingLeaks
  <2>4. Undisturbed => Holder = Moving \cup Freed \cup Held \cup C BY <2>2
  <2> HIDE DEF C
  <2> QED BY <1>4, <1>16, <1>19, <1>21, <1>22, <2>3, <2>4
<1>24. PacketsCounted'
  <2>1. PacketsCounted BY <1>1 DEF Core
  <2>2. \A t : Mine(t)' = Mine(t) /\ Made(t)' = Made(t) /\ Size(t)' = Size(t)
    BY <1>2, <1>16 DEF Mine, Made, Size, StateOf
  <2>3. Made(Hand)' < Size(Hand)'
    <3>1. Made(Hand) < Size(Hand) BY <1>3, <2>1 DEF PacketsCounted
    <3> QED BY <1>2, <1>7, <3>1 DEF Made, Size
  <2> QED BY <1>2, <1>7, <1>8, <1>9, <2>1, <2>2, <2>3 DEF PacketsCounted
<1>25. LastIsLast' BY <1>1, <1>2, <1>8, <1>16, LastFrame DEF Core, link, history
<1>26. Counted' BY <1>1, <1>2, <1>8, <1>16, ReferencesFrame DEF Core, link, history
<1>27. EntriesKeptTrack'
  <2>1. IsFiniteSet(Holder) BY <1>1, SetsTyped
  <2>2. Cardinality(Holder') = Cardinality(Holder) + 1 /\ Cardinality(Holder) \in Nat
    BY <1>4, <2>1, OneMore
  <2>3. Cardinality(Held) = 0 /\ Cardinality(Held') = 1 BY <1>21, FS_EmptySet, FS_Singleton
  <2>4. packet_sgl_entries' = packet_sgl_entries /\ packet_sgl_entries \in Int
    BY <1>1, <1>2 DEF Kinds, RequestKind
  <2>5. packet_sgl_entries + 0 + 2 * (Cardinality(Holder) - 0) = PacketSglEntries
    BY <1>1, <1>10, <2>3, ConstantFacts DEF Core, EntriesKeptTrack
  <2> DEFINE h == Cardinality(Holder)
  <2> DEFINE k == Cardinality(Holder')
  <2>6. h \in Int /\ k = h + 1 /\ packet_sgl_entries + 0 + 2 * (h - 0) = PacketSglEntries
    BY <2>2, <2>5
  <2>7. EntriesKeptTrack' <=> packet_sgl_entries + 0 + 2 * (k - 1) = PacketSglEntries
    BY <1>7, <2>3, <2>4, ConstantFacts DEF EntriesKeptTrack
  <2> HIDE DEF h, k
  <2> QED BY <2>4, <2>6, <2>7
<1>28. SourceEntriesHavePlaces' BY <1>1, <1>2, <1>8, SourceFrame DEF Placed
<1>29. ToldOnce' BY <1>1, <1>2, <1>8, ToldFrame DEF Placed, history
<1>30. Core'
  BY <1>16, <1>17, <1>18, <1>20, <1>23, <1>24, <1>25, <1>26, <1>27 DEF Core
<1> QED BY <1>11, <1>12, <1>13, <1>14, <1>15, <1>28, <1>29, <1>30 DEF IInv, Placed

(* That, or no work request is left.                                       *)
LEMMA GetRequestStep ==
  ASSUME IInv, GetWorkRequest
  PROVE  IInv'
<1>1. CASE HasItem(work_request_pool) BY <1>1, GetItem
<1>2. CASE ~HasItem(work_request_pool)
  <2>1. Goto("wait") /\ OnlyPayloadThread
        /\ UNCHANGED <<payload_states, payload_queue, requests, work_req_comp_queue, waiting,
                 in_flight, tx_in_flight_ref_count, tx_poll_do_work_signal, payload_num>>
    BY <1>2 DEF GetWorkRequest, requests
  <2>2. payload_thread.pc # "get" /\ tx_poll_do_work_signal \in BOOLEAN
    BY DEF IInv, Kinds, ThreadKind, PollKind
  <2>3. Thread("build") /\ Doing = "GetWorkRequest"
    BY <2>2 DEF GetWorkRequest, Reaches, Thread, Doing
  <2>4. ~Thread("signal") BY <2>3 DEF Thread
  <2>5. tx_poll_do_work_signal' \in BOOLEAN BY <2>1, <2>2
  <2> QED BY <2>1, <2>3, <2>4, <2>5, ThreadQuiet
<1> QED BY <1>1, <1>2

(* The packet waits for scatter-gather entries, some in hand.              *)
LEMMA OutOfEntriesStep ==
  ASSUME IInv, OutOfEntries
  PROVE  IInv'
<1> DEFINE n == payload_thread.entries + packet_sgl_entries
<1>1. Kinds /\ Control /\ Calm /\ Placed /\ Core /\ SlotsApart /\ PayloadsApart
  BY DEF IInv, Placed
<1>2. /\ payload_thread' = [payload_thread EXCEPT !.pc = "wait", !.entries = n]
      /\ packet_sgl_entries' = 0 /\ EntriesPerPacket - payload_thread.entries > packet_sgl_entries
      /\ UNCHANGED <<app, accepted_count, payload_state_pool, payload_sgl_entries,
              poll_thread, app_payload_message_queue, link, history, payload_states,
              payload_queue, work_requests, work_request_pool, work_req_comp_queue, waiting,
              in_flight, tx_in_flight_ref_count, tx_poll_do_work_signal, payload_num>>
  BY DEF OutOfEntries, OnlyPayloadThread, EntriesKept, EntriesMissing
<1>3. Doing = "Packetizing"
  BY <1>1 DEF OutOfEntries, Reaches, Doing, Control
<1>4. ThreadKind /\ packet_sgl_entries \in Nat /\ payload_thread.entries \in Nat
  BY <1>1 DEF Kinds, RequestKind, ThreadKind
<1>5. n \in Nat /\ n <= EntriesPerPacket
  <2> DEFINE a == payload_thread.entries
  <2> DEFINE b == packet_sgl_entries
  <2>1. EntriesPerPacket = 2 BY ConstantFacts
  <2>2. a \in Nat /\ b \in Nat /\ 2 - a > b BY <1>2, <1>4, <2>1
  <2> HIDE DEF a, b
  <2>3. a + b \in Nat /\ a + b <= 2 BY <2>2
  <2> QED BY <2>1, <2>3 DEF a, b
<1>e. n = payload_thread.entries + packet_sgl_entries OBVIOUS
<1> HIDE DEF n
<1>6. /\ ThreadKind' /\ payload_thread'.pc = "wait" /\ Doing' = Doing /\ Hand' = Hand
      /\ Request' = Request /\ List' = List /\ payload_thread'.last = payload_thread.last
      /\ payload_thread'.entries = n
  BY <1>2, <1>4, <1>5 DEF ThreadKind, Doing, Hand, Request, List
<1>7. AppSlot' = AppSlot /\ Parked' = Parked /\ Holding' = Holding /\ Used' = Used
      /\ Live' = Live /\ Calling' = Calling /\ Unbegun' = Unbegun /\ Holder' = Holder
  BY <1>2 DEF AppSlot, Parked, Holding, Polls, Used, Live, Calling, Unbegun, Holder
<1>8. Fresh' = Fresh BY <1>6, <1>7 DEF Fresh
<1>9. Kinds'
  <2>1. AppKind' /\ StateKind' /\ RequestKind'
    BY <1>1, <1>2 DEF Kinds, AppKind, StateKind, RequestKind
  <2>2. PollKind' /\ ReturnKind' /\ LineKind'
    BY <1>1, <1>2 DEF Kinds, PollKind, ReturnKind, LineKind, history, waiting
  <2> QED BY <1>6, <2>1, <2>2 DEF Kinds
<1>10. Calm' BY <1>1, <1>2 DEF Calm, Connected, link
<1>11. Control'
  <2>1. poll_thread' = poll_thread /\ app' = app BY <1>2
  <2> QED BY <1>1, <1>3, <1>5, <1>6, <1>7, <2>1 DEF Control, Thread, Polls
<1>12. SlotsApart' BY <1>1, <1>2, <1>6, <1>7, SlotsFrame
<1>13. PayloadsApart' BY <1>1, <1>2, <1>7, PayloadsFrame DEF history
<1>14. LinesApart' /\ Moving' = Moving /\ \A e : Sent(e)' = Sent(e)
  BY <1>1, <1>2, <1>6, LinesFrame DEF Core, waiting
<1>15. FreshIsNew' BY <1>1, <1>2, <1>8, FreshFrame DEF Core
<1>16. PacketsBelong' BY <1>1, <1>2, <1>6, <1>7, <1>8, <1>14, BelongFrame DEF Core
<1>17. RequestsApart'
  <2>1. Moving \cup Freed \subseteq WorkRequest /\ None \notin WorkRequest
        /\ \A t \in Live : None \notin Completed(t)
    BY <1>1, SetsTyped, ConstantFacts
  <2> QED BY <1>1, <1>2, <1>6, <1>7, <1>14, <2>1, RequestsFrame DEF Core
<1>18. NothingLeaks'
  BY <1>1, <1>2, <1>6, <1>7, <1>14, NothingLeaksFrame DEF Core, link, history
<1>19. PacketsCounted' BY <1>1, <1>2, <1>6, <1>7, <1>8, <1>14, CountedFrame DEF Core
<1>20. LastIsLast' BY <1>1, <1>2, <1>7, <1>14, LastFrame DEF Core, link, history
<1>21. Counted' BY <1>1, <1>2, <1>7, <1>14, ReferencesFrame DEF Core, link, history
<1>22. EntriesKeptTrack'
  <2>1. Held' = Held BY <1>6 DEF Held
  <2> DEFINE m == EntriesPerPacket * (Cardinality(Holder) - Cardinality(Held))
  <2>2. packet_sgl_entries + payload_thread.entries + m = PacketSglEntries
    BY <1>1 DEF Core, EntriesKeptTrack
  <2>3. EntriesKeptTrack' <=> 0 + n + m = PacketSglEntries
    BY <1>2, <1>6, <1>7, <2>1, ConstantFacts DEF EntriesKeptTrack
  <2> HIDE DEF m
  <2>4. 0 + n = packet_sgl_entries + payload_thread.entries BY <1>4, <1>5, <1>e
  <2> QED BY <2>2, <2>3, <2>4
<1>23. SourceEntriesHavePlaces' BY <1>1, <1>2, <1>7, SourceFrame DEF Placed
<1>24. ToldOnce' BY <1>1, <1>2, <1>7, ToldFrame DEF Placed, history
<1>25. Core'
  BY <1>14, <1>15, <1>16, <1>17, <1>18, <1>19, <1>20, <1>21, <1>22 DEF Core
<1> QED BY <1>9, <1>10, <1>11, <1>12, <1>13, <1>23, <1>24, <1>25 DEF IInv, Placed

-----------------------------------------------------------------------------
(* A batch is queued.                                                      *)

(* What the payload thread does with a batch it can queue.                 *)
LEMMA BatchQueued ==
  ASSUME IInv, Enqueue, tx_packet_queue' # tx_packet_queue
  PROVE  /\ LineKind' /\ ThreadKind' /\ LinesApart' /\ Moving' = Moving
         /\ Doing = "Enqueuing" /\ Hand \in Slot /\ List' = <<>> /\ Request' = Request
         /\ payload_thread'.entries = payload_thread.entries
         /\ \A f \in Endpoint : \A w \in Sent(f)' :
              w \in Sent(f) \/ (w \in ToSet(List) /\ f = payload_states[Hand].endpoint)
         /\ \/ payload_thread.last /\ Doing' = "Idle" /\ Hand' = None
               /\ payload_thread'.pc = "wait"
            \/ ~payload_thread.last /\ Doing' = "GetWorkRequest" /\ Hand' = Hand
               /\ payload_thread'.pc = "build"
<1>1. Kinds /\ Control /\ Core /\ LinesApart /\ ThreadKind /\ LineKind
  BY DEF IInv, Placed, Core, Kinds
<1>2. Doing = "Enqueuing" BY <1>1 DEF Enqueue, Reaches, Doing, Control
<1>3. Hand \in Slot
  <2>1. Hand # None BY <1>1, <1>2 DEF Control
  <2> QED BY <1>1, <2>1, SetsTyped
<1>4. PICK e \in Endpoint : e = payload_states[Hand].endpoint
  <2>1. payload_states[Hand].endpoint \in Endpoint BY <1>1, <1>3 DEF Kinds, StateKind
  <2> QED BY <2>1
<1> DEFINE q == tx_packet_queue[e]
<1> DEFINE l == tx_packet_waiting_list[e]
<1>5. /\ tx_packet_queue' = [tx_packet_queue EXCEPT ![e] = Append(@, List)]
      /\ payload_thread' = [payload_thread EXCEPT
                   !.list = <<>>, !.batch = @ * 2,
                   !.pc = IF payload_thread.last THEN "wait" ELSE "build",
                   !.state = IF payload_thread.last THEN "Idle" ELSE "GetWorkRequest",
                   !.slot = IF payload_thread.last THEN None ELSE @]
      /\ UNCHANGED <<tx_packet_waiting_list, in_flight, tx_in_flight_ref_count, payload_num>>
  BY <1>4 DEF Enqueue, OnTheWay, List, Hand
<1>6. List \in Seq(WorkRequest) BY <1>1 DEF ThreadKind, List
<1>7. q \in Seq(Seq(WorkRequest)) /\ l \in Seq(WorkRequest) BY <1>1, <1>4 DEF LineKind
<1>8. /\ Lined(q, l) /\ IsInjective(List) /\ ToSet(List) \cap InLine(q, l) = {}
      /\ Queued(e) \cap in_flight[e] = {} /\ ToSet(List) \cap Sent(e) = {}
  BY <1>1, <1>4, QueuedIs DEF LinesApart, Sent
<1>9. Lined(Append(q, List), l) /\ InLine(Append(q, List), l) = InLine(q, l) \cup ToSet(List)
  BY <1>6, <1>7, <1>8, BatchAppended
<1>10. tx_packet_queue'[e] = Append(q, List) /\ tx_packet_waiting_list'[e] = l
       /\ in_flight' = in_flight
       /\ \A f \in Endpoint \ {e} : tx_packet_queue'[f] = tx_packet_queue[f]
  BY <1>1, <1>5, <1>4 DEF LineKind
<1>11. Queued(e)' = Queued(e) \cup ToSet(List)
  <2>1. Queued(e)' = InLine(tx_packet_queue'[e], tx_packet_waiting_list'[e])
    BY DEF Queued, InLine
  <2> QED BY <1>9, <1>10, <2>1, QueuedIs
<1>12. \A f \in Endpoint \ {e} : Queued(f)' = Queued(f) /\ Sent(f)' = Sent(f)
  BY <1>5, <1>10 DEF Queued, Sent
<1>13. Sent(e)' = Sent(e) \cup ToSet(List) BY <1>10, <1>11 DEF Sent
<1>14. LineKind'
  <2>1. Append(q, List) \in Seq(Seq(WorkRequest)) BY <1>6, <1>7
  <2>2. tx_packet_queue' \in [Endpoint -> Seq(Seq(WorkRequest))]
    <3> HIDE DEF q
    <3>1. tx_packet_queue' = [tx_packet_queue EXCEPT ![e] = Append(q, List)]
      BY <1>5, <1>4 DEF q
    <3> QED BY <1>1, <1>4, <2>1, <3>1 DEF LineKind
  <2> QED BY <1>1, <1>5, <2>2 DEF LineKind
<1>15. /\ ThreadKind' /\ List' = <<>> /\ Request' = Request
       /\ payload_thread'.entries = payload_thread.entries
       /\ payload_thread'.pc = (IF payload_thread.last THEN "wait" ELSE "build")
       /\ Doing' = (IF payload_thread.last THEN "Idle" ELSE "GetWorkRequest")
       /\ Hand' = (IF payload_thread.last THEN None ELSE Hand)
  <2>1. payload_thread' = [pc |-> IF payload_thread.last THEN "wait" ELSE "build",
               state |-> IF payload_thread.last THEN "Idle" ELSE "GetWorkRequest",
               slot |-> IF payload_thread.last THEN None ELSE payload_thread.slot,
               request |-> payload_thread.request, entries |-> payload_thread.entries,
               list |-> <<>>, batch |-> payload_thread.batch * 2,
               last |-> payload_thread.last]
    BY <1>1, <1>5 DEF ThreadKind
  <2>2. /\ payload_thread.slot \in Slot \cup {None} /\ payload_thread.last \in BOOLEAN
        /\ payload_thread.request \in WorkRequest \cup {None} /\ payload_thread.entries \in Nat
        /\ payload_thread.batch * 2 \in Nat /\ <<>> \in Seq(WorkRequest)
    BY <1>1 DEF ThreadKind
  <2>3. /\ (IF payload_thread.last THEN None ELSE payload_thread.slot) \in Slot \cup {None}
        /\ (IF payload_thread.last THEN "Idle" ELSE "GetWorkRequest") \in States
        /\ (IF payload_thread.last THEN "wait" ELSE "build")
             \in {"wait", "signal", "free", "build", "packet", "enqueue"}
    BY <2>2 DEF States
  <2>4. ThreadKind' BY <2>1, <2>2, <2>3 DEF ThreadKind
  <2> QED BY <2>1, <2>4 DEF List, Request, Doing, Hand
<1>16. ToSet(List)' = {} /\ IsInjective(List') BY <1>15, ItemsOfNone
<1>17. LinesApart'
  <2> SUFFICES ASSUME NEW f \in Endpoint
               PROVE  /\ Lined(tx_packet_queue[f], tx_packet_waiting_list[f])'
                      /\ Queued(f)' \cap in_flight'[f] = {}
                      /\ ToSet(List)' \cap Sent(f)' = {}
    BY <1>16 DEF LinesApart
  <2>1. CASE f = e
    <3>1. Lined(tx_packet_queue[f], tx_packet_waiting_list[f])'
      BY <1>9, <1>10, <2>1 DEF Lined
    <3>2. Queued(f)' \cap in_flight'[f] = {} BY <1>8, <1>10, <1>11, <2>1 DEF Sent
    <3> QED BY <1>16, <3>1, <3>2
  <2>2. CASE f # e
    <3>1. Lined(tx_packet_queue[f], tx_packet_waiting_list[f])'
      <4>1. Lined(tx_packet_queue[f], tx_packet_waiting_list[f]) BY <1>1 DEF LinesApart
      <4>2. /\ tx_packet_queue'[f] = tx_packet_queue[f]
            /\ tx_packet_waiting_list'[f] = tx_packet_waiting_list[f]
        BY <1>5, <2>2
      <4> QED BY <4>1, <4>2
    <3>2. in_flight'[f] = in_flight[f] /\ Queued(f)' = Queued(f) BY <1>10, <1>12, <2>2
    <3>3. Queued(f) \cap in_flight[f] = {} BY <1>1 DEF LinesApart
    <3>4. ToSet(List)' \cap Sent(f)' = {} BY <1>16
    <3> QED BY <3>1, <3>2, <3>3, <3>4
  <2> QED BY <2>1, <2>2
<1>18. Moving' = Moving
  <2>1. \A w : w \in Moving' <=> w \in ToSet(List)' \/ \E f \in Endpoint : w \in Sent(f)'
    BY DEF Moving
  <2>2. \A w : (\E f \in Endpoint : w \in Sent(f)')
                 <=> (w \in ToSet(List) \/ \E f \in Endpoint : w \in Sent(f))
    BY <1>4, <1>12, <1>13
  <2> QED BY <1>16, <2>1, <2>2, MovingIs
<1>19. \A f \in Endpoint : \A w \in Sent(f)' : w \in Sent(f) \/ (w \in ToSet(List) /\ f = e)
  BY <1>12, <1>13
<1> QED BY <1>2, <1>3, <1>14, <1>15, <1>17, <1>18, <1>19, <1>4

(* A batch goes to the endpoint, or the queue is full.                     *)
LEMMA EnqueueStep ==
  ASSUME IInv, Enqueue
  PROVE  IInv'
<1>1. CASE tx_packet_queue' = tx_packet_queue
  <2>1. LineKind /\ Control /\ ThreadKind /\ PollKind BY DEF IInv, Kinds
  <2>2. Thread("enqueue") \/ Thread("build") BY DEF Enqueue, Reaches
  <2>3. Doing = "Enqueuing" BY <2>1 DEF Enqueue, Reaches, Doing, Control
  <2>4. Goto("wait")
    <3> DEFINE e == payload_states[Hand].endpoint
    <3>1. Hand \in Slot
      <4>1. Hand # None BY <2>1, <2>3 DEF Control
      <4> QED BY <4>1, SetsTyped DEF IInv
    <3>2. e \in Endpoint BY <3>1 DEF IInv, Kinds, StateKind
    <3> HIDE DEF e
    <3>3. tx_packet_queue[e] \in Seq(Seq(WorkRequest)) BY <2>1, <3>2 DEF LineKind
    <3>4. Append(tx_packet_queue[e], List) # tx_packet_queue[e]
      <4>1. List \in Seq(WorkRequest) BY <2>1 DEF ThreadKind, List
      <4>2. Len(Append(tx_packet_queue[e], List)) = Len(tx_packet_queue[e]) + 1
            /\ Len(tx_packet_queue[e]) \in Nat
        BY <3>3, <4>1
      <4> QED BY <4>2
    <3>5. tx_packet_queue' # [tx_packet_queue EXCEPT ![e] = Append(@, List)]
      BY <1>1, <2>1, <3>2, <3>4 DEF LineKind
    <3> QED BY <3>5 DEF Enqueue, OnTheWay, List, Hand, e
  <2>5. OnlyPayloadThread
        /\ UNCHANGED <<payload_states, payload_queue, requests, work_req_comp_queue, waiting,
                 in_flight, tx_in_flight_ref_count, tx_poll_do_work_signal, payload_num>>
    BY <1>1 DEF Enqueue, waiting
  <2>6. ~Thread("signal") /\ Doing # "WorkReceived" BY <2>2, <2>3 DEF Thread
  <2>7. tx_poll_do_work_signal' \in BOOLEAN BY <2>1, <2>5 DEF PollKind
  <2> QED BY <2>4, <2>5, <2>6, <2>7, ThreadQuiet
<1>2. CASE tx_packet_queue' # tx_packet_queue
  <2>1. Kinds /\ Control /\ Calm /\ Placed /\ Core /\ SlotsApart /\ PayloadsApart
    BY DEF IInv, Placed
  <2>2. UNCHANGED <<app, accepted_count, payload_state_pool, payload_sgl_entries,
              poll_thread, app_payload_message_queue, link, history, payload_states,
              payload_queue, requests, work_req_comp_queue, in_flight,
              tx_in_flight_ref_count, tx_poll_do_work_signal, payload_num>>
    BY DEF Enqueue, OnlyPayloadThread
  <2>3. /\ LineKind' /\ ThreadKind' /\ LinesApart' /\ Moving' = Moving
        /\ Doing = "Enqueuing" /\ Hand \in Slot /\ List' = <<>> /\ Request' = Request
        /\ payload_thread'.entries = payload_thread.entries
    BY <1>2, BatchQueued
  <2>4. \A f \in Endpoint : \A w \in Sent(f)' :
              w \in Sent(f) \/ (w \in ToSet(List) /\ f = payload_states[Hand].endpoint)
    BY <1>2, BatchQueued
  <2>5. \/ payload_thread.last /\ Doing' = "Idle" /\ Hand' = None
               /\ payload_thread'.pc = "wait"
        \/ ~payload_thread.last /\ Doing' = "GetWorkRequest" /\ Hand' = Hand
               /\ payload_thread'.pc = "build"
    BY <1>2, BatchQueued
  <2>6. AppSlot' = AppSlot /\ Parked' = Parked /\ Holding' = Holding /\ Used' = Used
        /\ Live' = Live /\ Calling' = Calling /\ Unbegun' = Unbegun /\ Holder' = Holder
    BY <2>2 DEF AppSlot, Parked, Holding, Polls, Used, Live, Calling, Unbegun, Holder, requests
  <2>7. Fresh' = Fresh BY <2>3, <2>5, <2>6 DEF Fresh
  <2>8. None \notin Slot /\ Hand # None /\ ToSet(List)' = {} /\ Request = None
        /\ payload_thread.entries = 0
    BY <2>1, <2>3, ConstantFacts, ItemsOfNone DEF Control
  <2>9. Kinds'
    <3>1. AppKind' /\ StateKind' /\ RequestKind'
      BY <2>1, <2>2 DEF Kinds, AppKind, StateKind, RequestKind, requests
    <3>2. PollKind' /\ ReturnKind'
      BY <2>1, <2>2 DEF Kinds, PollKind, ReturnKind, history
    <3> QED BY <2>3, <3>1, <3>2 DEF Kinds
  <2>10. Calm' BY <2>1, <2>2 DEF Calm, Connected, link
  <2>11. Control'
    <3>1. poll_thread' = poll_thread /\ app' = app BY <2>2
    <3> QED BY <2>1, <2>3, <2>5, <2>6, <2>8, <3>1 DEF Control, Thread, Polls
  <2>12. SlotsApart'
    <3>1. None \notin Unbegun BY <2>1, SetsTyped, ConstantFacts
    <3>2. payload_queue' = payload_queue /\ AppSlot' = AppSlot BY <2>2, <2>6
    <3> QED BY <2>1, <2>5, <2>6, <3>1, <3>2 DEF SlotsApart
  <2>13. PayloadsApart' BY <2>1, <2>2, <2>6, PayloadsFrame DEF history
  <2>14. FreshIsNew' BY <2>1, <2>2, <2>7, FreshFrame DEF Core
  <2>15. \A w : StateOf(w)' = StateOf(w) BY <2>2 DEF StateOf, requests
  <2>16. PacketsBelong'
    <3>1. PacketsBelong BY <2>1 DEF Core
    <3>2. payload_states' = payload_states /\ work_requests' = work_requests
      BY <2>2 DEF requests
    <3>3. \A e \in Endpoint : \A w \in Sent(e)' : payload_states'[StateOf(w)'].endpoint = e
      BY <2>4, <2>15, <3>1, <3>2 DEF PacketsBelong
    <3> QED BY <2>3, <2>6, <2>7, <2>8, <2>15, <3>1, <3>2, <3>3 DEF PacketsBelong
  <2>17. RequestsApart'
    <3>1. Moving \cup Freed \subseteq WorkRequest /\ None \notin WorkRequest
          /\ \A t \in Live : None \notin Completed(t)
      BY <2>1, SetsTyped, ConstantFacts
    <3> QED BY <2>1, <2>2, <2>3, <2>6, <3>1, RequestsFrame DEF Core, requests
  <2>18. NothingLeaks'
    BY <2>1, <2>2, <2>3, <2>6, NothingLeaksFrame DEF Core, link, history, requests
  <2>19. PacketsCounted'
    <3>1. PacketsCounted BY <2>1 DEF Core
    <3>2. \A t : Mine(t)' = Mine(t) /\ Size(t)' = Size(t) /\ Made(t)' = Made(t)
      BY <2>2, <2>3, <2>15 DEF Mine, Size, Made
    <3>3. payload_states' = payload_states BY <2>2
    <3>4. payload_thread.last <=> Made(Hand) = Size(Hand) BY <2>3, <3>1 DEF PacketsCounted
    <3>5. Hand \in Live BY <2>1, <2>8 DEF SlotsApart, Live
    <3>6. Made(Hand) <= Size(Hand) BY <3>1, <3>5 DEF PacketsCounted
    <3>7. Made(Hand) \in Int /\ Size(Hand) \in Int
      <4>1. Made(Hand) \in Int BY <2>1, <2>3 DEF Kinds, StateKind, Made
      <4>2. payload_states[Hand].payload \in 1 .. accepted_count
        BY <2>1, <3>5 DEF PayloadsApart, Live
      <4>3. accepted_count \in 0 .. Len(Packets) /\ Len(Packets) \in Nat
        BY <2>1, ConstantFacts DEF Kinds, ReturnKind
      <4>4. payload_states[Hand].payload \in Payload BY <4>2, <4>3 DEF Payload
      <4>5. Size(Hand) \in Int BY <4>4, ConstantFacts DEF Size
      <4> QED BY <4>1, <4>5
    <3>8. \A t \in Live' :
         /\ payload_states'[t].transferred = Len(payload_states'[t].completed)
         /\ Made(t)' <= Size(t)'
         /\ payload_states'[t].transferred + Cardinality(Mine(t)') <= Made(t)'
      BY <2>6, <3>1, <3>2, <3>3 DEF PacketsCounted
    <3>9. \A t \in Live' : t \notin Fresh' \cup {Hand'} => Made(t)' = Size(t)'
      BY <2>5, <2>6, <2>7, <3>1, <3>2, <3>4 DEF PacketsCounted
    <3>10. Doing' \in {"GetWorkRequest", "Packetizing"} => Made(Hand)' < Size(Hand)'
      <4>1. ASSUME Hand' = Hand PROVE Made(Hand)' = Made(Hand) /\ Size(Hand)' = Size(Hand)
        BY <3>3, <4>1 DEF Made, Size
      <4> QED BY <2>5, <3>4, <3>6, <3>7, <4>1
    <3> QED BY <2>5, <3>8, <3>9, <3>10 DEF PacketsCounted
  <2>20. LastIsLast' BY <2>1, <2>2, <2>3, <2>6, LastFrame DEF Core, link, history, requests
  <2>21. Counted' BY <2>1, <2>2, <2>3, <2>6, ReferencesFrame DEF Core, link, history, requests
  <2>22. EntriesKeptTrack' BY <2>1, <2>2, <2>3, <2>6, EntriesFrame DEF Core, requests
  <2>23. SourceEntriesHavePlaces' BY <2>1, <2>2, <2>6, SourceFrame DEF Placed
  <2>24. ToldOnce' BY <2>1, <2>2, <2>6, ToldFrame DEF Placed, history
  <2>25. Core'
    BY <2>3, <2>14, <2>16, <2>17, <2>18, <2>19, <2>20, <2>21, <2>22 DEF Core
  <2> QED BY <2>9, <2>10, <2>11, <2>12, <2>13, <2>23, <2>24, <2>25 DEF IInv, Placed
<1> QED BY <1>1, <1>2

-----------------------------------------------------------------------------
(* A packet is sent.                                                       *)

(* What the poll thread does with the packet it sends.                     *)
LEMMA PacketTaken ==
  ASSUME IInv, SendPacket, "Retry" \notin SendResults
  PROVE  \E e \in Endpoint, w \in WorkRequest :
           /\ LineKind' /\ PollKind' /\ LinesApart'
           /\ poll_thread'.pc = "completions" /\ Parked' = Parked
           /\ w \in Sent(e) /\ \A f \in Endpoint \ {e} : Sent(f)' = Sent(f)
           /\ \/ Sent(e)' = Sent(e) /\ unacked' = unacked
              \/ Sent(e)' = Sent(e) \ {w} /\ unacked' # {} /\ unacked \subseteq unacked'
<1>1. Kinds /\ Control /\ Core /\ LinesApart /\ PollKind /\ LineKind
  BY DEF IInv, Placed, Core, Kinds
<1>2. PICK e \in Endpoint : e = Polled
  BY <1>1, LeftFacts DEF PollKind, Polled
<1> DEFINE q == tx_packet_queue[e]
<1> DEFINE l == tx_packet_waiting_list[e]
<1> DEFINE r == Waiting(e)
<1> DEFINE p == IF TakesBatch(e) THEN Tail(q) ELSE q
<1>3. TakesPacket(e) /\ PacketToSend(e) = Head(r)
  BY <1>1, <1>2 DEF SendPacket, PacketToSend, PollKind
<1>4. PICK w : w = Head(r) OBVIOUS
<1>5. PICK result \in SendResults :
        /\ tx_packet_waiting_list' = [tx_packet_waiting_list EXCEPT ![e] = Tail(r)]
        /\ tx_packet_queue' = [tx_packet_queue EXCEPT
                      ![e] = IF TakesBatch(e) THEN Tail(@) ELSE @]
        /\ in_flight' = [in_flight EXCEPT ![e] = IF result = "Ok" THEN @ \cup {w} ELSE @]
        /\ poll_thread' = [poll_thread EXCEPT
               !.pc = "completions", !.idle = IdleAfter(e, in_flight'[e]),
               !.packet = IF result = "Retry" THEN w ELSE None]
        /\ unacked' = IF result = "Failed"
             THEN unacked \cup {payload_states[work_requests[w].payload_state].payload}
             ELSE unacked
  BY <1>2, <1>3, <1>4 DEF SendPacket
<1>6. UNCHANGED <<payload_thread, payload_num, tx_in_flight_ref_count,
                  tx_poll_do_work_signal>>
  BY DEF SendPacket, OnlyPollThread
<1>7. result \in {"Ok", "Failed"} BY TxAssumption
<1>8. q \in Seq(Seq(WorkRequest)) /\ l \in Seq(WorkRequest) /\ in_flight[e] \subseteq WorkRequest
  BY <1>1 DEF LineKind
<1>9. Lined(q, l) /\ Queued(e) = InLine(q, l) /\ Queued(e) \cap in_flight[e] = {}
  BY <1>1, QueuedIs DEF LinesApart
<1>10. r # <<>> BY <1>3 DEF TakesPacket
<1>11. /\ p \in Seq(Seq(WorkRequest)) /\ r \in Seq(WorkRequest)
       /\ Lined(p, r) /\ InLine(p, r) = InLine(q, l)
  <2>1. CASE TakesBatch(e)
    <3>1. l = <<>> /\ q # <<>> /\ p = Tail(q) /\ r = Head(q)
      BY <2>1 DEF TakesBatch, Waiting
    <3>2. Lined(q, <<>>) BY <1>9, <3>1
    <3>3. /\ Head(q) \in Seq(WorkRequest) /\ Tail(q) \in Seq(Seq(WorkRequest))
          /\ Lined(Tail(q), Head(q)) /\ InLine(q, <<>>) = InLine(Tail(q), Head(q))
      <4> HIDE DEF q, p, l, r
      <4> QED BY <1>8, <3>1, <3>2, BatchTaken
    <3> HIDE DEF q, p, l, r
    <3> QED BY <3>1, <3>3
  <2>2. CASE ~TakesBatch(e)
    <3>1. p = q /\ r = l BY <2>2 DEF Waiting
    <3> HIDE DEF q, p, l, r
    <3> QED BY <1>8, <1>9, <3>1
  <2> QED BY <2>1, <2>2
<1>12. /\ Lined(p, Tail(r)) /\ InLine(p, r) = {w} \cup InLine(p, Tail(r))
       /\ w \notin InLine(p, Tail(r)) /\ w \in WorkRequest /\ Tail(r) \in Seq(WorkRequest)
  <2> HIDE DEF p, r
  <2>1. Head(r) \in WorkRequest /\ Tail(r) \in Seq(WorkRequest) BY <1>10, <1>11, ItemsTaken
  <2> QED BY <1>4, <1>10, <1>11, <2>1, LineTaken
<1>13. /\ tx_packet_queue'[e] = p /\ tx_packet_waiting_list'[e] = Tail(r)
       /\ in_flight'[e] = (IF result = "Ok" THEN in_flight[e] \cup {w} ELSE in_flight[e])
       /\ \A f \in Endpoint \ {e} : /\ tx_packet_queue'[f] = tx_packet_queue[f]
            /\ tx_packet_waiting_list'[f] = tx_packet_waiting_list[f]
            /\ in_flight'[f] = in_flight[f]
  <2>1. tx_packet_queue' = [tx_packet_queue EXCEPT ![e] = p] BY <1>5
  <2> HIDE DEF p, r
  <2> QED BY <1>1, <1>5, <2>1 DEF LineKind
<1> HIDE DEF p, r, q, l
<1>14. Queued(e)' = Queued(e) \ {w} /\ w \in Queued(e)
  <2>1. Queued(e)' = InLine(tx_packet_queue'[e], tx_packet_waiting_list'[e])
    BY DEF Queued, InLine
  <2> QED BY <1>9, <1>11, <1>12, <1>13, <2>1
<1>15. \A f \in Endpoint \ {e} : Queued(f)' = Queued(f) /\ Sent(f)' = Sent(f)
  BY <1>13 DEF Queued, Sent
<1>16. w \in Sent(e) /\ Sent(e)' = (IF result = "Ok" THEN Sent(e) ELSE Sent(e) \ {w})
  BY <1>9, <1>13, <1>14 DEF Sent
<1>17. LineKind'
  <2>1. tx_packet_queue' \in [Endpoint -> Seq(Seq(WorkRequest))]
    <3>1. tx_packet_queue' = [tx_packet_queue EXCEPT ![e] = p] BY <1>5 DEF p, q
    <3> QED BY <1>1, <1>11, <3>1 DEF LineKind
  <2>2. tx_packet_waiting_list' \in [Endpoint -> Seq(WorkRequest)]
    BY <1>1, <1>5, <1>12 DEF LineKind
  <2>3. in_flight' \in [Endpoint -> SUBSET WorkRequest]
    <3> DEFINE y == IF result = "Ok" THEN in_flight[e] \cup {w} ELSE in_flight[e]
    <3>1. in_flight' = [in_flight EXCEPT ![e] = y] BY <1>5
    <3>2. y \in SUBSET WorkRequest BY <1>8, <1>12
    <3> HIDE DEF y
    <3> QED BY <1>1, <3>1, <3>2 DEF LineKind
  <2> QED BY <1>1, <1>6, <2>1, <2>2, <2>3 DEF LineKind
<1>18. PollKind' /\ poll_thread'.pc = "completions" /\ Parked' = Parked
  <2>1. IdleAfter(e, in_flight'[e]) \in BOOLEAN BY <1>1 DEF IdleAfter, PollKind
  <2>2. PICK idle \in BOOLEAN : idle = IdleAfter(e, in_flight'[e]) BY <2>1
  <2>3. poll_thread' = [poll_thread EXCEPT !.pc = "completions", !.idle = idle,
                                           !.packet = None]
    BY <1>5, <1>7, <2>2
  <2> QED BY <1>1, <1>6, <2>3 DEF PollKind, Parked
<1>19. LinesApart'
  <2>1. List' = List BY <1>6 DEF List
  <2> SUFFICES ASSUME NEW f \in Endpoint
               PROVE  /\ Lined(tx_packet_queue[f], tx_packet_waiting_list[f])'
                      /\ Queued(f)' \cap in_flight'[f] = {}
                      /\ ToSet(List)' \cap Sent(f)' = {}
    BY <1>1, <2>1 DEF LinesApart
  <2>2. CASE f = e
    <3>1. Lined(tx_packet_queue[f], tx_packet_waiting_list[f])'
      BY <1>12, <1>13, <2>2 DEF Lined
    <3>2. Queued(f)' \cap in_flight'[f] = {} BY <1>9, <1>13, <1>14, <2>2
    <3>3. ToSet(List)' \cap Sent(f)' = {} BY <1>1, <1>16, <2>1, <2>2 DEF LinesApart
    <3> QED BY <3>1, <3>2, <3>3
  <2>3. CASE f # e
    <3>1. Lined(tx_packet_queue[f], tx_packet_waiting_list[f])'
      BY <1>1, <1>13, <2>3 DEF LinesApart, Lined
    <3>2. Queued(f)' \cap in_flight'[f] = {} BY <1>1, <1>13, <1>15, <2>3 DEF LinesApart
    <3>3. ToSet(List)' \cap Sent(f)' = {} BY <1>1, <1>15, <2>1, <2>3 DEF LinesApart
    <3> QED BY <3>1, <3>2, <3>3
  <2> QED BY <2>2, <2>3
<1>20. \/ Sent(e)' = Sent(e) /\ unacked' = unacked
       \/ Sent(e)' = Sent(e) \ {w} /\ unacked' # {} /\ unacked \subseteq unacked'
  BY <1>5, <1>7, <1>16
<1> QED BY <1>12, <1>15, <1>16, <1>17, <1>18, <1>19, <1>20

(* A packet is in flight, or its send has failed.                          *)
LEMMA SendStep ==
  ASSUME IInv, SendPacket, "Retry" \notin SendResults
  PROVE  IInv'
<1>1. Kinds /\ Control /\ Calm /\ Placed /\ Core /\ SlotsApart /\ PayloadsApart
  BY DEF IInv, Placed
<1>2. PICK e \in Endpoint, w \in WorkRequest :
           /\ LineKind' /\ PollKind' /\ LinesApart'
           /\ poll_thread'.pc = "completions" /\ Parked' = Parked
           /\ w \in Sent(e) /\ \A f \in Endpoint \ {e} : Sent(f)' = Sent(f)
           /\ \/ Sent(e)' = Sent(e) /\ unacked' = unacked
              \/ Sent(e)' = Sent(e) \ {w} /\ unacked' # {} /\ unacked \subseteq unacked'
  BY PacketTaken
<1>3. UNCHANGED <<app, accepted_count, payload_queue, payload_thread, payload_num, link,
              accepted, returned, raced, states, payload_sgl_entries, requests,
              work_req_comp_queue, tx_in_flight_ref_count, tx_poll_do_work_signal,
              app_payload_message_queue, dropped>>
  BY DEF SendPacket, OnlyPollThread
<1>4. Hand' = Hand /\ Doing' = Doing /\ Request' = Request /\ List' = List
      /\ payload_thread'.last = payload_thread.last
      /\ payload_thread'.entries = payload_thread.entries /\ AppSlot' = AppSlot
      /\ Used' = Used /\ Live' = Live /\ Holder' = Holder
  BY <1>2, <1>3 DEF Hand, Doing, Request, List, Used, Live, AppSlot, states, Holder, requests
<1>5. Parked' = None
  <2>1. Polls("endpoint") BY DEF SendPacket
  <2>2. ~Polls("transfer") /\ ~Polls("put") BY <2>1 DEF Polls
  <2> QED BY <1>1, <1>2, <2>2 DEF Control
<1>6. Holding' = Holding
  <2>1. Holding = Used
    <3>1. Polls("endpoint") BY DEF SendPacket
    <3>2. ~Polls("put") BY <3>1 DEF Polls
    <3> QED BY <3>2 DEF Holding, Used
  <2>2. ~Polls("put")' BY <1>2 DEF Polls
  <2>3. Holding' = Used' BY <2>2 DEF Holding, Used
  <2> QED BY <1>4, <2>1, <2>3
<1>7. Calling' = Calling /\ Unbegun' = Unbegun /\ Fresh' = Fresh BY <1>3, <1>4, SetsFrame
<1>8. /\ \A f \in Endpoint : Sent(f)' \subseteq Sent(f)
      /\ unacked \subseteq unacked' /\ losses' = losses
      /\ Undisturbed' => \A f \in Endpoint : Sent(f)' = Sent(f)
  BY <1>2, <1>3 DEF Undisturbed, link
<1>9. \A v : v \in Moving' <=> v \in ToSet(List) \/ \E f \in Endpoint : v \in Sent(f)'
  BY <1>4 DEF Moving
<1>10. Moving' \subseteq Moving BY <1>8, <1>9, MovingIs
<1>11. Undisturbed' => Undisturbed /\ Moving' = Moving
  <2>1. ASSUME Undisturbed' PROVE Moving' = Moving
    <3>1. \A f \in Endpoint : Sent(f)' = Sent(f) BY <1>8, <2>1
    <3>2. \A v : v \in Moving' <=> v \in Moving BY <1>9, <3>1, MovingIs
    <3> QED BY <3>2
  <2> QED BY <1>8, <2>1, UndisturbedFrame
<1>12. Kinds'
  <2>1. AppKind' /\ StateKind' /\ ThreadKind' /\ RequestKind'
    BY <1>1, <1>3 DEF Kinds, AppKind, StateKind, ThreadKind, RequestKind, requests, states
  <2>2. ReturnKind' BY <1>1, <1>3 DEF Kinds, ReturnKind
  <2> QED BY <1>2, <2>1, <2>2 DEF Kinds
<1>13. Calm' BY <1>1, <1>3 DEF Calm, Connected, link
<1>14. Control'
  <2>1. ~Polls("put")' /\ ~Polls("transfer")' BY <1>2 DEF Polls
  <2>2. payload_thread' = payload_thread /\ app' = app BY <1>3
  <2> QED BY <1>1, <1>4, <1>5, <2>1, <2>2 DEF Control, Thread
<1>15. SlotsApart' BY <1>1, <1>2, <1>3, <1>4, SlotsFrame
<1>16. PayloadsApart' BY <1>1, <1>3, <1>4, <1>7, PayloadsFrame DEF states
<1>17. FreshIsNew' BY <1>1, <1>3, <1>7, FreshFrame DEF Core, states
<1>18. PacketsBelong' BY <1>1, <1>3, <1>4, <1>7, <1>8, <1>10, BelongFrame DEF Core, states, requests
<1>19. RequestsApart'
  <2>1. Moving \cup Freed \subseteq WorkRequest /\ None \notin WorkRequest
        /\ \A t \in Live : None \notin Completed(t)
    BY <1>1, SetsTyped, ConstantFacts
  <2> QED BY <1>1, <1>3, <1>4, <1>10, <2>1, RequestsFrame DEF Core, requests, states
<1>20. payload_states' = payload_states /\ work_requests' = work_requests
       /\ work_req_comp_queue' = work_req_comp_queue
       /\ tx_in_flight_ref_count' = tx_in_flight_ref_count
  BY <1>3 DEF states, requests
<1>21. NothingLeaks'
  <2>1. CASE Undisturbed'
    <3>1. Moving' = Moving BY <1>11, <2>1
    <3> QED BY <1>1, <1>4, <1>8, <1>20, <3>1, NothingLeaksFrame DEF Core
  <2>2. CASE ~Undisturbed' BY <2>2 DEF NothingLeaks
  <2> QED BY <2>1, <2>2
<1>22. \A t : Mine(t)' \subseteq Mine(t) /\ Size(t)' = Size(t) /\ Made(t)' = Made(t)
              /\ Completed(t)' = Completed(t)
  BY <1>10, <1>20 DEF Mine, Size, Made, StateOf, Completed
<1>23. PacketsCounted'
  <2>1. PacketsCounted BY <1>1 DEF Core
  <2>2. \A t \in Live' : payload_states'[t].transferred + Cardinality(Mine(t)') <= Made(t)'
    <3> TAKE t \in Live'
    <3>1. t \in Live /\ t \in Slot BY <1>1, <1>4, SetsTyped
    <3>2. payload_states[t].transferred + Cardinality(Mine(t)) <= Made(t)
      BY <2>1, <3>1 DEF PacketsCounted
    <3>3. IsFiniteSet(Mine(t)) /\ Mine(t)' \subseteq Mine(t)
      <4>1. Mine(t) \subseteq Moving BY DEF Mine
      <4> QED BY <1>1, <1>22, <4>1, SetsTyped, FS_Subset
    <3>4. /\ Cardinality(Mine(t)') <= Cardinality(Mine(t))
          /\ Cardinality(Mine(t)) \in Nat /\ Cardinality(Mine(t)') \in Nat
      BY <3>3, FS_Subset, FS_CardinalityType
    <3>5. payload_states[t].transferred \in Nat /\ Made(t) \in Nat
      BY <1>1, <3>1 DEF Kinds, StateKind, Made
    <3>6. payload_states'[t].transferred = payload_states[t].transferred /\ Made(t)' = Made(t)
      BY <1>20, <1>22
    <3> QED BY <3>2, <3>4, <3>5, <3>6
  <2>3. \A t \in Live' :
       /\ payload_states'[t].transferred = Len(payload_states'[t].completed)
       /\ Made(t)' <= Size(t)'
       /\ t \notin Fresh' \cup {Hand'} => Made(t)' = Size(t)'
    BY <1>4, <1>7, <1>20, <1>22, <2>1 DEF PacketsCounted
  <2>4. Made(Hand)' = Made(Hand) /\ Size(Hand)' = Size(Hand)
    BY <1>4, <1>20 DEF Made, Size
  <2> QED BY <1>4, <2>1, <2>2, <2>3, <2>4 DEF PacketsCounted
<1>24. LastIsLast'
  <2>1. LastIsLast BY <1>1 DEF Core
  <2> SUFFICES ASSUME NEW s \in Live'
               PROVE  /\ \A v, u \in Mine(s)' \cup Completed(s)' :
                           work_requests'[v].last /\ work_requests'[u].last => v = u
                      /\ Made(s)' < Size(s)' =>
                           \A v \in Mine(s)' \cup Completed(s)' : ~work_requests'[v].last
                      /\ Undisturbed' /\ Made(s)' = Size(s)' =>
                           \E v \in Mine(s)' \cup Completed(s)' : work_requests'[v].last
    BY DEF LastIsLast
  <2>2. s \in Live BY <1>4
  <2>3. Undisturbed' => Undisturbed /\ Mine(s)' = Mine(s) BY <1>11, <1>20 DEF Mine, StateOf
  <2> QED BY <1>20, <1>22, <2>1, <2>2, <2>3 DEF LastIsLast
<1>25. Counted'
  <2>1. CASE Undisturbed'
    <3>1. Moving' = Moving BY <1>11, <2>1
    <3> QED BY <1>1, <1>4, <1>7, <1>8, <1>20, <3>1, ReferencesFrame DEF Core
  <2>2. CASE ~Undisturbed' BY <2>2 DEF Counted
  <2> QED BY <2>1, <2>2
<1>26. EntriesKeptTrack' BY <1>1, <1>3, <1>4, EntriesFrame DEF Core, requests
<1>27. SourceEntriesHavePlaces' BY <1>1, <1>3, <1>6, SourceFrame DEF Placed
<1>28. ToldOnce' BY <1>1, <1>3, <1>6, ToldFrame DEF Placed, states
<1>29. Core'
  BY <1>2, <1>17, <1>18, <1>19, <1>21, <1>23, <1>24, <1>25, <1>26 DEF Core
<1> QED BY <1>12, <1>13, <1>14, <1>15, <1>16, <1>27, <1>28, <1>29 DEF IInv, Placed

-----------------------------------------------------------------------------
(* A packet is made.                                                       *)

(* What the payload thread does for the next packet of a payload.          *)
LEMMA PacketMade ==
  ASSUME IInv, MakePacket
  PROVE  \E w \in WorkRequest, s \in Slot, e \in Endpoint :
    /\ w = Request /\ s = Hand /\ e = payload_states[s].endpoint /\ Doing = "Packetizing"
    /\ StateKind' /\ ThreadKind' /\ RequestKind' /\ LineKind'
    /\ Hand' = s /\ Request' = None /\ List' = Append(List, w)
    /\ payload_thread'.entries = 0
    /\ packet_sgl_entries' = packet_sgl_entries + payload_thread.entries - 2
    /\ \/ Doing' = "Enqueuing" /\ payload_thread'.pc = "enqueue"
       \/ Doing' = "GetWorkRequest" /\ payload_thread'.pc = "build"
          /\ Made(s) + 1 # Size(s)
    /\ payload_thread'.last <=> Made(s) + 1 = Size(s)
    /\ work_requests'[w].payload_state = s
    /\ work_requests'[w].payload_num = payload_states[s].payload_num
    /\ work_requests'[w].last <=> Made(s) + 1 = Size(s)
    /\ \A v \in WorkRequest \ {w} : work_requests'[v] = work_requests[v]
    /\ payload_states'[s].packet_sequence_num = Made(s) + 1
    /\ \A t \in Slot :
         /\ payload_states'[t].payload = payload_states[t].payload
         /\ payload_states'[t].endpoint = payload_states[t].endpoint
         /\ payload_states'[t].payload_num = payload_states[t].payload_num
         /\ payload_states'[t].transferred = payload_states[t].transferred
         /\ payload_states'[t].completed = payload_states[t].completed
         /\ t # s => payload_states'[t] = payload_states[t]
    /\ tx_in_flight_ref_count'[e] = tx_in_flight_ref_count[e] + 1
    /\ \A f \in Endpoint \ {e} : tx_in_flight_ref_count'[f] = tx_in_flight_ref_count[f]
<1>1. Kinds /\ Control /\ Core /\ ThreadKind /\ StateKind /\ LineKind /\ RequestKind
  BY DEF IInv, Placed, Kinds
<1>2. Doing = "Packetizing" BY <1>1 DEF MakePacket, Reaches, Doing, Control
<1>3. Hand \in Slot /\ Request \in WorkRequest
  <2>1. Hand # None /\ Request # None BY <1>1, <1>2 DEF Control
  <2> QED BY <1>1, <2>1, SetsTyped
<1>4. PICK s \in Slot, w \in WorkRequest : s = Hand /\ w = Request BY <1>3
<1>5. PICK e \in Endpoint : e = payload_states[s].endpoint
  <2>1. payload_states[s].endpoint \in Endpoint BY <1>1 DEF StateKind
  <2> QED BY <2>1
<1>6. PICK last \in BOOLEAN : last <=> Made(s) + 1 = Size(s) OBVIOUS
<1>7. PICK full \in BOOLEAN : full <=> last \/ Len(List) + 1 >= payload_thread.batch OBVIOUS
<1>8. /\ payload_states' = [payload_states EXCEPT ![s].packet_sequence_num = @ + 1]
      /\ work_requests' = [work_requests EXCEPT ![w] =
           [payload_state |-> s, payload_num |-> payload_states[s].payload_num,
            last |-> Made(s) + 1 = Size(s)]]
      /\ tx_in_flight_ref_count' = [tx_in_flight_ref_count EXCEPT ![e] = @ + 1]
  BY <1>4, <1>5 DEF MakePacket, OnTheWay, Hand, Request, Made, Size
<1>9. payload_thread' = [payload_thread EXCEPT
              !.pc = IF full THEN "enqueue" ELSE "build",
              !.state = IF full THEN "Enqueuing" ELSE "GetWorkRequest",
              !.request = None, !.entries = 0, !.list = Append(@, w),
              !.last = Made(s) + 1 = Size(s)]
  <2>1. full <=> Made(s) + 1 = Size(s) \/ Len(List) + 1 >= payload_thread.batch
    BY <1>6, <1>7
  <2> QED BY <1>4, <2>1 DEF MakePacket, OnTheWay, Hand, Request, Made, Size, List
<1>10. /\ EntriesPerPacket - payload_thread.entries <= packet_sgl_entries
       /\ packet_sgl_entries' =
            packet_sgl_entries - (EntriesPerPacket - payload_thread.entries)
       /\ UNCHANGED <<payload_state_pool, payload_queue, work_request_pool,
                      work_req_comp_queue, waiting, in_flight, payload_num>>
  BY DEF MakePacket, EntriesMissing, OnlyPayloadThread
<1>11. packet_sgl_entries \in Nat /\ payload_thread.entries \in Nat
  BY <1>1 DEF RequestKind, ThreadKind
<1>12. packet_sgl_entries' \in Nat
       /\ packet_sgl_entries' = packet_sgl_entries + payload_thread.entries - 2
  BY <1>10, <1>11, ConstantFacts
<1>13. (Made(s) + 1 = Size(s)) = last BY <1>6
<1>14. work_requests' = [work_requests EXCEPT ![w] =
           [payload_state |-> s, payload_num |-> payload_states[s].payload_num,
            last |-> last]]
  BY <1>8, <1>13
<1>15. payload_states[s].payload_num \in Int /\ Made(s) \in Nat
  BY <1>1 DEF StateKind, Made
<1>16. RequestKind'
  <2> DEFINE y == [payload_state |-> s, payload_num |-> payload_states[s].payload_num,
                   last |-> last]
  <2>1. y \in [payload_state : Slot \cup {None}, payload_num : Int, last : BOOLEAN] BY <1>15
  <2>2. work_requests' = [work_requests EXCEPT ![w] = y] BY <1>14
  <2> HIDE DEF y
  <2>3. work_requests' \in
       [WorkRequest -> [payload_state : Slot \cup {None}, payload_num : Int,
                        last : BOOLEAN]]
    BY <1>1, <2>1, <2>2 DEF RequestKind
  <2> QED BY <1>1, <1>10, <1>12, <2>3 DEF RequestKind
<1>17. StateKind'
  <2> DEFINE R == [payload : Payload \cup {None}, endpoint : Endpoint, payload_num : Int,
                   packet_sequence_num : Nat, transferred : Nat,
                   completed : Seq(WorkRequest)]
  <2> DEFINE y == [payload_states[s] EXCEPT !.packet_sequence_num = Made(s) + 1]
  <2>1. payload_states \in [Slot -> R] BY <1>1 DEF StateKind
  <2>2. y \in R
    <3>1. payload_states[s] \in R /\ Made(s) + 1 \in Nat BY <1>15, <2>1
    <3> QED BY <3>1
  <2>3. payload_states' = [payload_states EXCEPT ![s] = y] BY <1>8 DEF Made
  <2>4. payload_states' \in [Slot -> R]
    <3> HIDE DEF R, y
    <3> QED BY <2>1, <2>2, <2>3
  <2> QED BY <1>1, <1>10, <2>4 DEF StateKind
<1>18. LineKind'
  <2>1. tx_in_flight_ref_count' \in [Endpoint -> Int] BY <1>1, <1>8 DEF LineKind
  <2> QED BY <1>1, <1>10, <2>1 DEF LineKind, waiting
<1>19. List \in Seq(WorkRequest) BY <1>1 DEF ThreadKind, List
<1>20. Append(List, w) \in Seq(WorkRequest) BY <1>19, ItemsAppended
<1>21. payload_thread' = [pc |-> IF full THEN "enqueue" ELSE "build",
              state |-> IF full THEN "Enqueuing" ELSE "GetWorkRequest",
              slot |-> payload_thread.slot, request |-> None, entries |-> 0,
              list |-> Append(List, w), batch |-> payload_thread.batch, last |-> last]
  BY <1>1, <1>9, <1>13 DEF ThreadKind, List
<1>22. /\ (IF full THEN "enqueue" ELSE "build")
             \in {"wait", "signal", "free", "build", "packet", "enqueue"}
       /\ (IF full THEN "Enqueuing" ELSE "GetWorkRequest") \in States
       /\ payload_thread.slot \in Slot \cup {None} /\ payload_thread.batch \in Nat
  BY <1>1 DEF ThreadKind, States
<1>23. ThreadKind' BY <1>20, <1>21, <1>22 DEF ThreadKind
<1>24. /\ Hand' = s /\ Request' = None /\ List' = Append(List, w)
       /\ payload_thread'.entries = 0 /\ payload_thread'.last = last
       /\ payload_thread'.pc = (IF full THEN "enqueue" ELSE "build")
       /\ Doing' = (IF full THEN "Enqueuing" ELSE "GetWorkRequest")
  BY <1>4, <1>21 DEF Hand, Request, List, Doing
<1>25. /\ work_requests'[w].payload_state = s
       /\ work_requests'[w].payload_num = payload_states[s].payload_num
       /\ work_requests'[w].last <=> Made(s) + 1 = Size(s)
       /\ \A v \in WorkRequest \ {w} : work_requests'[v] = work_requests[v]
  <2>1. w \in DOMAIN work_requests /\ DOMAIN work_requests = WorkRequest
    BY <1>1 DEF RequestKind
  <2> QED BY <1>6, <1>14, <2>1
<1>26. /\ payload_states'[s].packet_sequence_num = Made(s) + 1
       /\ \A t \in Slot :
            /\ payload_states'[t].payload = payload_states[t].payload
            /\ payload_states'[t].endpoint = payload_states[t].endpoint
            /\ payload_states'[t].payload_num = payload_states[t].payload_num
            /\ payload_states'[t].transferred = payload_states[t].transferred
            /\ payload_states'[t].completed = payload_states[t].completed
            /\ t # s => payload_states'[t] = payload_states[t]
  BY <1>1, <1>8 DEF StateKind, Made
<1>27. /\ tx_in_flight_ref_count'[e] = tx_in_flight_ref_count[e] + 1
       /\ \A f \in Endpoint \ {e} : tx_in_flight_ref_count'[f] = tx_in_flight_ref_count[f]
  BY <1>1, <1>8 DEF LineKind
<1>28. \/ Doing' = "Enqueuing" /\ payload_thread'.pc = "enqueue"
       \/ Doing' = "GetWorkRequest" /\ payload_thread'.pc = "build" /\ Made(s) + 1 # Size(s)
  BY <1>6, <1>7, <1>24
<1>29. payload_thread'.last <=> Made(s) + 1 = Size(s) BY <1>6, <1>24
<1> QED
  BY <1>2, <1>4, <1>5, <1>12, <1>16, <1>17, <1>18, <1>23, <1>24, <1>25, <1>26, <1>27, <1>28,
     <1>29

(* The packet joins the batch; the last one of a payload is marked.        *)
LEMMA MakeStep ==
  ASSUME IInv, MakePacket
  PROVE  IInv'
<1>1. Kinds /\ Control /\ Calm /\ Placed /\ Core /\ SlotsApart /\ PayloadsApart
  BY DEF IInv, Placed
<1>2. PICK w \in WorkRequest, s \in Slot, e \in Endpoint :
    /\ w = Request /\ s = Hand /\ e = payload_states[s].endpoint /\ Doing = "Packetizing"
    /\ StateKind' /\ ThreadKind' /\ RequestKind' /\ LineKind'
    /\ Hand' = s /\ Request' = None /\ List' = Append(List, w)
    /\ payload_thread'.entries = 0
    /\ packet_sgl_entries' = packet_sgl_entries + payload_thread.entries - 2
    /\ \/ Doing' = "Enqueuing" /\ payload_thread'.pc = "enqueue"
       \/ Doing' = "GetWorkRequest" /\ payload_thread'.pc = "build"
          /\ Made(s) + 1 # Size(s)
    /\ payload_thread'.last <=> Made(s) + 1 = Size(s)
    /\ work_requests'[w].payload_state = s
    /\ work_requests'[w].payload_num = payload_states[s].payload_num
    /\ work_requests'[w].last <=> Made(s) + 1 = Size(s)
    /\ \A v \in WorkRequest \ {w} : work_requests'[v] = work_requests[v]
    /\ payload_states'[s].packet_sequence_num = Made(s) + 1
    /\ \A t \in Slot :
         /\ payload_states'[t].payload = payload_states[t].payload
         /\ payload_states'[t].endpoint = payload_states[t].endpoint
         /\ payload_states'[t].payload_num = payload_states[t].payload_num
         /\ payload_states'[t].transferred = payload_states[t].transferred
         /\ payload_states'[t].completed = payload_states[t].completed
         /\ t # s => payload_states'[t] = payload_states[t]
    /\ tx_in_flight_ref_count'[e] = tx_in_flight_ref_count[e] + 1
    /\ \A f \in Endpoint \ {e} : tx_in_flight_ref_count'[f] = tx_in_flight_ref_count[f]
  BY PacketMade
<1>3. UNCHANGED <<app, accepted_count, payload_state_pool, payload_sgl_entries, poll_thread,
                  app_payload_message_queue, link, history, payload_queue, work_request_pool,
                  work_req_comp_queue, waiting, in_flight, tx_poll_do_work_signal, payload_num>>
  BY DEF MakePacket, OnlyPayloadThread
<1>4. AppSlot' = AppSlot /\ Parked' = Parked /\ Holding' = Holding /\ Used' = Used
      /\ Live' = Live /\ Calling' = Calling /\ Unbegun' = Unbegun /\ Holder' = Holder
      /\ Freed' = Freed
  BY <1>3 DEF AppSlot, Parked, Holding, Polls, Used, Live, Calling, Unbegun, Holder, Freed
<1>5. Used \subseteq Slot /\ Live \subseteq Used /\ Live \subseteq Slot
      /\ Moving \subseteq WorkRequest /\ Unbegun \subseteq Slot
  BY <1>1, SetsTyped
<1>6. w # None /\ s # None BY ConstantFacts
<1>7. s \in Live /\ s \notin Unbegun BY <1>1, <1>2, <1>6 DEF SlotsApart, Live
<1>8. Fresh' = Fresh /\ Fresh = Unbegun BY <1>2, <1>4 DEF Fresh
<1>9. Held = {w} /\ Held' = {} BY <1>2, <1>6 DEF Held
<1>10. /\ w \notin Moving /\ w \notin Freed /\ w \in Holder
       /\ \A t \in Live : w \notin Completed(t)
  <2>1. RequestsApart BY <1>1 DEF Core
  <2>2. Request = w BY <1>2
  <2>3. \A t \in Live : Completed(t) \cap (Moving \cup Freed \cup {w}) = {}
    BY <2>1, <2>2 DEF RequestsApart
  <2> QED BY <1>6, <2>1, <2>2, <2>3 DEF RequestsApart
<1>11. \A f : Sent(f)' = Sent(f) /\ Queued(f)' = Queued(f)
  BY <1>3 DEF Sent, Queued, waiting
<1>12. LinesApart' /\ ToSet(List)' = ToSet(List) \cup {w} /\ Moving' = Moving \cup {w}
  <2>1. List \in Seq(WorkRequest) /\ LinesApart
    BY <1>1 DEF Kinds, ThreadKind, List, Core
  <2>2. w \notin ToSet(List) /\ \A f \in Endpoint : w \notin Sent(f) BY <1>10, MovingIs
  <2>3. ToSet(List') = ToSet(List) \cup {w} /\ IsInjective(List')
    BY <1>2, <2>1, <2>2, ItemsAppended DEF LinesApart
  <2>4. ToSet(List)' = ToSet(List) \cup {w} BY <2>3
  <2>5. \A v : v \in Moving' <=> v \in ToSet(List)' \/ \E f \in Endpoint : v \in Sent(f)'
    BY DEF Moving
  <2>6. \A v : v \in Moving' <=> v \in Moving \cup {w}
    BY <1>11, <2>4, <2>5, MovingIs
  <2>7. \A f \in Endpoint : Lined(tx_packet_queue[f], tx_packet_waiting_list[f])'
    BY <1>3, <2>1 DEF LinesApart, Lined, waiting
  <2>8. \A f \in Endpoint : Queued(f)' \cap in_flight'[f] = {} /\ ToSet(List)' \cap Sent(f)' = {}
    BY <1>3, <1>11, <2>1, <2>2, <2>4 DEF LinesApart
  <2>9. LinesApart' BY <2>3, <2>7, <2>8 DEF LinesApart
  <2> QED BY <2>4, <2>6, <2>9
<1>13. StateOf(w)' = s /\ \A v \in WorkRequest \ {w} : StateOf(v)' = StateOf(v)
  BY <1>2 DEF StateOf
<1>14. Kinds'
  <2>1. AppKind' /\ PollKind' /\ ReturnKind'
    BY <1>1, <1>3 DEF Kinds, AppKind, PollKind, ReturnKind, history
  <2> QED BY <1>2, <2>1 DEF Kinds
<1>15. Calm' BY <1>1, <1>3 DEF Calm, Connected, link
<1>16. Control'
  <2>1. poll_thread' = poll_thread /\ app' = app BY <1>3
  <2>2. 0 <= EntriesPerPacket BY ConstantFacts
  <2> QED BY <1>1, <1>2, <1>4, <1>6, <2>1, <2>2 DEF Control, Thread, Polls
<1>17. SlotsApart' BY <1>1, <1>2, <1>3, <1>4, SlotsFrame
<1>18. PayloadsApart'
  <2>1. accepted_count' = accepted_count /\ accepted' = accepted BY <1>3 DEF history
  <2>2. \A t \in Used : payload_states'[t].payload = payload_states[t].payload BY <1>2, <1>5
  <2> QED BY <1>1, <1>4, <2>1, <2>2 DEF PayloadsApart
<1>19. FreshIsNew'
  <2>1. \A t \in Fresh : payload_states'[t] = payload_states[t] BY <1>2, <1>5, <1>7, <1>8
  <2> QED BY <1>1, <1>8, <2>1 DEF Core, FreshIsNew
<1>20. \A v \in Moving : v # w /\ v \in WorkRequest /\ work_requests'[v] = work_requests[v]
  BY <1>2, <1>5, <1>10
<1>21. PacketsBelong'
  <2>1. PacketsBelong BY <1>1 DEF Core
  <2>2. s \in Live' \ Fresh' BY <1>4, <1>7, <1>8
  <2>3. \A v \in Moving' : /\ StateOf(v)' \in Live' \ Fresh'
          /\ work_requests'[v].payload_num = payload_states'[StateOf(v)'].payload_num
    <3> TAKE v \in Moving'
    <3>1. CASE v = w BY <1>2, <1>13, <2>2, <3>1
    <3>2. CASE v # w
      <4>1. v \in Moving BY <1>12, <3>2
      <4>2. StateOf(v) \in Live \ Fresh
            /\ work_requests[v].payload_num = payload_states[StateOf(v)].payload_num
        BY <2>1, <4>1 DEF PacketsBelong
      <4>3. StateOf(v)' = StateOf(v) /\ work_requests'[v] = work_requests[v]
        BY <1>13, <1>20, <4>1
      <4> QED BY <1>2, <1>4, <1>5, <1>8, <4>2, <4>3
    <3> QED BY <3>1, <3>2
  <2>4. \A v \in ToSet(List)' : StateOf(v)' = Hand'
    <3> TAKE v \in ToSet(List)'
    <3>1. CASE v = w BY <1>2, <1>13, <3>1
    <3>2. CASE v # w
      <4>1. v \in ToSet(List) BY <1>12, <3>2
      <4>2. v \in WorkRequest BY <1>5, <4>1, MovingIs
      <4> QED BY <1>2, <1>13, <2>1, <3>2, <4>1, <4>2 DEF PacketsBelong
    <3> QED BY <3>1, <3>2
  <2>5. \A f \in Endpoint : \A v \in Sent(f)' : payload_states'[StateOf(v)'].endpoint = f
    <3> TAKE f \in Endpoint
    <3> TAKE v \in Sent(f)'
    <3>1. v \in Sent(f) /\ v \in Moving BY <1>11, MovingIs
    <3>2. StateOf(v)' = StateOf(v) BY <1>13, <1>20, <3>1
    <3>3. StateOf(v) \in Slot BY <1>5, <2>1, <3>1 DEF PacketsBelong
    <3> QED BY <1>2, <2>1, <3>1, <3>2, <3>3 DEF PacketsBelong
  <2> QED BY <2>3, <2>4, <2>5 DEF PacketsBelong
<1>22. \A t \in Live : Completed(t)' = Completed(t) BY <1>2, <1>5 DEF Completed
<1>23. RequestsApart'
  <2>1. RequestsApart BY <1>1 DEF Core
  <2>2. None \notin WorkRequest /\ Freed \subseteq WorkRequest
        /\ \A t \in Live : Completed(t) \subseteq WorkRequest
    BY <1>1, <1>5, SetsTyped, ConstantFacts
  <2>3. \A t \in Live' :
       /\ IsInjective(payload_states'[t].completed)
       /\ Completed(t)' \subseteq Holder'
       /\ Completed(t)' \cap (Moving' \cup Freed' \cup {Request'}) = {}
       /\ \A v \in Completed(t)' : StateOf(v)' = t
    <3> TAKE t \in Live'
    <3>0. t \in Live /\ t \in Slot BY <1>4, <1>5
    <3>1. /\ IsInjective(payload_states[t].completed)
          /\ Completed(t) \subseteq Holder
          /\ Completed(t) \cap (Moving \cup Freed \cup {Request}) = {}
          /\ \A v \in Completed(t) : StateOf(v) = t
      BY <2>1, <3>0 DEF RequestsApart
    <3>2. payload_states'[t].completed = payload_states[t].completed /\ Completed(t)' = Completed(t)
      BY <1>2, <1>22, <3>0
    <3>3. w \notin Completed(t) /\ Completed(t) \subseteq WorkRequest BY <1>10, <2>2, <3>0
    <3>4. IsInjective(payload_states'[t].completed) BY <3>1, <3>2
    <3>5. Completed(t)' \cap (Moving' \cup Freed' \cup {Request'}) = {}
      BY <1>2, <1>4, <1>12, <2>2, <3>1, <3>2, <3>3
    <3>6. \A v \in Completed(t)' : StateOf(v)' = t BY <1>13, <3>1, <3>2, <3>3
    <3> QED BY <1>4, <3>1, <3>2, <3>4, <3>5, <3>6
  <2>4. work_req_comp_queue' = work_req_comp_queue BY <1>3
  <2> QED BY <1>2, <1>4, <1>5, <1>10, <1>12, <2>1, <2>2, <2>3, <2>4 DEF RequestsApart
<1>24. Undisturbed' = Undisturbed BY <1>3 DEF Undisturbed, link, history
<1>25. NothingLeaks'
  <2>1. {Completed(t)' : t \in Live'} = {Completed(t) : t \in Live} BY <1>4, <1>22
  <2> DEFINE C == UNION {Completed(t) : t \in Live}
  <2>2. Undisturbed => Holder = Moving \cup Freed \cup Held \cup C
    BY <1>1 DEF Core, NothingLeaks
  <2>3. NothingLeaks' <=> (Undisturbed' => Holder' = Moving' \cup Freed' \cup Held' \cup C)
    BY <2>1 DEF NothingLeaks
  <2> HIDE DEF C
  <2> QED BY <1>4, <1>9, <1>12, <1>24, <2>2, <2>3
<1>26. /\ Mine(s)' = Mine(s) \cup {w} /\ w \notin Mine(s)
       /\ \A t : t # s => Mine(t)' = Mine(t)
  BY <1>10, <1>12, <1>13, <1>20 DEF Mine
<1>27. /\ \A t \in Slot : Size(t)' = Size(t) /\ (t # s => Made(t)' = Made(t))
       /\ Made(s)' = Made(s) + 1
  BY <1>2 DEF Size, Made
<1>28. /\ \A t \in Live : IsFiniteSet(Mine(t)) /\ Cardinality(Mine(t)) \in Nat
       /\ Made(s) \in Nat /\ Size(s) \in Nat /\ Made(s) < Size(s)
       /\ payload_states[s].transferred \in Nat
  <2>1. \A t : Mine(t) \subseteq Moving BY DEF Mine
  <2>2. \A t : IsFiniteSet(Mine(t)) BY <1>1, <2>1, SetsTyped, FS_Subset
  <2>3. Made(s) \in Nat /\ payload_states[s].transferred \in Nat
    BY <1>1 DEF Kinds, StateKind, Made
  <2>4. payload_states[s].payload \in 1 .. accepted_count
    BY <1>1, <1>5, <1>7 DEF PayloadsApart
  <2>5. accepted_count \in 0 .. Len(Packets) /\ Len(Packets) \in Nat
    BY <1>1, ConstantFacts DEF Kinds, ReturnKind
  <2>6. payload_states[s].payload \in Payload BY <2>4, <2>5 DEF Payload
  <2>7. Size(s) \in Nat BY <2>6, ConstantFacts DEF Size
  <2>8. Made(s) < Size(s) BY <1>1, <1>2 DEF Core, PacketsCounted
  <2> QED BY <2>2, <2>3, <2>7, <2>8, FS_CardinalityType
<1>29. PacketsCounted'
  <2>1. PacketsCounted BY <1>1 DEF Core
  <2>2. \A t \in Live' :
       /\ payload_states'[t].transferred = Len(payload_states'[t].completed)
       /\ Made(t)' <= Size(t)'
       /\ payload_states'[t].transferred + Cardinality(Mine(t)') <= Made(t)'
       /\ t \notin Fresh' \cup {Hand'} => Made(t)' = Size(t)'
    <3> TAKE t \in Live'
    <3>1. t \in Live /\ t \in Slot BY <1>4, <1>5
    <3>2. payload_states'[t].transferred = Len(payload_states'[t].completed)
      BY <1>2, <2>1, <3>1 DEF PacketsCounted
    <3>3. CASE t = s
      <4>1. payload_states[s].transferred + Cardinality(Mine(s)) <= Made(s)
        BY <1>7, <2>1 DEF PacketsCounted
      <4>2. Cardinality(Mine(s)') = Cardinality(Mine(s)) + 1 BY <1>7, <1>26, <1>28, OneMore
      <4>3. payload_states'[s].transferred = payload_states[s].transferred BY <1>2
      <4>4. Made(s)' <= Size(s)' BY <1>27, <1>28
      <4>5. Cardinality(Mine(s)) \in Nat BY <1>7, <1>28
      <4>6. payload_states'[s].transferred + Cardinality(Mine(s)') <= Made(s)'
        BY <1>27, <1>28, <4>1, <4>2, <4>3, <4>5
      <4> QED BY <1>2, <3>2, <3>3, <4>4, <4>6
    <3>4. CASE t # s
      <4>1. payload_states'[t] = payload_states[t] /\ Mine(t)' = Mine(t)
            /\ Size(t)' = Size(t) /\ Made(t)' = Made(t)
        BY <1>2, <1>26, <1>27, <3>1, <3>4
      <4> QED BY <1>2, <1>8, <2>1, <3>1, <3>2, <3>4, <4>1 DEF PacketsCounted
    <3> QED BY <3>3, <3>4
  <2>3. Made(Hand)' = Made(s) + 1 /\ Size(Hand)' = Size(s)
    BY <1>2 DEF Made, Size
  <2>4. Doing' \in {"GetWorkRequest", "Packetizing"} => Made(Hand)' < Size(Hand)'
    BY <1>2, <1>28, <2>3
  <2>5. Doing' = "Enqueuing" => (payload_thread'.last <=> Made(Hand)' = Size(Hand)')
    BY <1>2, <2>3
  <2> QED BY <2>2, <2>4, <2>5 DEF PacketsCounted
<1>30. LastIsLast'
  <2>1. LastIsLast BY <1>1 DEF Core
  <2> SUFFICES ASSUME NEW t \in Live'
               PROVE  /\ \A v, u \in Mine(t)' \cup Completed(t)' :
                           work_requests'[v].last /\ work_requests'[u].last => v = u
                      /\ Made(t)' < Size(t)' =>
                           \A v \in Mine(t)' \cup Completed(t)' : ~work_requests'[v].last
                      /\ Undisturbed' /\ Made(t)' = Size(t)' =>
                           \E v \in Mine(t)' \cup Completed(t)' : work_requests'[v].last
    BY DEF LastIsLast
  <2>2. t \in Live /\ t \in Slot BY <1>4, <1>5
  <2>3. \A v \in Mine(t) \cup Completed(t) : v # w /\ work_requests'[v] = work_requests[v]
    <3>1. Mine(t) \subseteq Moving BY DEF Mine
    <3>2. Completed(t) \subseteq WorkRequest BY <1>1, <2>2, SetsTyped
    <3>3. \A v \in Completed(t) : v # w /\ v \in WorkRequest BY <1>10, <2>2, <3>2
    <3>4. \A v \in Completed(t) : v # w /\ work_requests'[v] = work_requests[v]
      BY <1>2, <3>3
    <3> QED BY <1>20, <3>1, <3>4
  <2>4. Completed(t)' = Completed(t) /\ Size(t)' = Size(t) BY <1>22, <1>27, <2>2
  <2>5. CASE t = s
    <3>1. \A v \in Mine(s) \cup Completed(s) : ~work_requests'[v].last
      BY <1>28, <2>1, <2>2, <2>3, <2>5 DEF LastIsLast
    <3>2. Mine(s)' \cup Completed(s)' = Mine(s) \cup Completed(s) \cup {w}
      BY <1>26, <2>4, <2>5
    <3>3. Made(s)' = Size(s)' <=> work_requests'[w].last BY <1>2, <1>27, <2>4, <2>5
    <3>4. Made(s)' < Size(s)' => ~work_requests'[w].last BY <1>27, <1>28, <2>4, <2>5, <3>3
    <3> QED BY <2>5, <3>1, <3>2, <3>3, <3>4
  <2>6. CASE t # s
    <3>1. Mine(t)' = Mine(t) /\ Made(t)' = Made(t) BY <1>26, <1>27, <2>2, <2>6
    <3>2. /\ \A v, u \in Mine(t) \cup Completed(t) :
               work_requests[v].last /\ work_requests[u].last => v = u
          /\ Made(t) < Size(t) => \A v \in Mine(t) \cup Completed(t) : ~work_requests[v].last
          /\ Undisturbed /\ Made(t) = Size(t) =>
               \E v \in Mine(t) \cup Completed(t) : work_requests[v].last
      BY <2>1, <2>2 DEF LastIsLast
    <3> QED BY <1>24, <2>3, <2>4, <3>1, <3>2
  <2> QED BY <2>5, <2>6
<1>31. Counted'
  <2>1. \A f : OnWay(f)' = IF f = e THEN OnWay(f) \cup {w} ELSE OnWay(f)
    <3>1. \A v \in Moving : StateOf(v)' = StateOf(v) /\ StateOf(v) \in Slot
      BY <1>1, <1>5, <1>13, <1>20 DEF Core, PacketsBelong
    <3>2. \A v \in Moving : payload_states'[StateOf(v)'].endpoint
                              = payload_states[StateOf(v)].endpoint
      BY <1>2, <3>1
    <3>3. payload_states'[StateOf(w)'].endpoint = e BY <1>2, <1>13
    <3> QED BY <1>12, <3>2, <3>3 DEF OnWay
  <2>2. \A f : BegunAt(f)' = BegunAt(f)
    <3>1. \A t \in Live : /\ payload_states'[t].endpoint = payload_states[t].endpoint
                          /\ Completed(t)' = Completed(t)
                          /\ \A v \in Completed(t) : work_requests'[v] = work_requests[v]
      <4> TAKE t \in Live
      <4>1. Completed(t) \subseteq WorkRequest /\ w \notin Completed(t)
        BY <1>1, <1>5, <1>10, SetsTyped
      <4> QED BY <1>2, <1>5, <1>22, <4>1
    <3> QED BY <1>4, <3>1 DEF BegunAt
  <2>3. \A f : w \notin OnWay(f) /\ IsFiniteSet(OnWay(f)) /\ Cardinality(OnWay(f)) \in Nat
    <3>1. \A f : OnWay(f) \subseteq Moving BY DEF OnWay
    <3> QED BY <1>1, <1>10, <3>1, SetsTyped, FS_Subset, FS_CardinalityType
  <2>4. \A f : Cardinality(BegunAt(f)) \in Nat
    <3>1. \A f : BegunAt(f) \subseteq Live BY DEF BegunAt
    <3> QED BY <1>1, <3>1, SetsTyped, FS_Subset, FS_CardinalityType
  <2> SUFFICES ASSUME Undisturbed', NEW f \in Endpoint
               PROVE  tx_in_flight_ref_count'[f]
                        = Cardinality(OnWay(f)') + Cardinality(BegunAt(f)')
    BY DEF Counted
  <2>5. tx_in_flight_ref_count[f] = Cardinality(OnWay(f)) + Cardinality(BegunAt(f))
    BY <1>1, <1>24 DEF Core, Counted
  <2>6. CASE f = e
    <3>1. Cardinality(OnWay(f)') = Cardinality(OnWay(f)) + 1 BY <2>1, <2>3, <2>6, OneMore
    <3>2. tx_in_flight_ref_count'[f] = tx_in_flight_ref_count[f] + 1 BY <1>2, <2>6
    <3>3. Cardinality(OnWay(f)) \in Nat /\ Cardinality(BegunAt(f)) \in Nat BY <2>3, <2>4
    <3> QED BY <2>2, <2>5, <3>1, <3>2, <3>3
  <2>7. CASE f # e
    <3>1. OnWay(f)' = OnWay(f) BY <2>1, <2>7
    <3>2. tx_in_flight_ref_count'[f] = tx_in_flight_ref_count[f] BY <1>2, <2>7
    <3> QED BY <2>2, <2>5, <3>1, <3>2
  <2> QED BY <2>6, <2>7
<1>32. EntriesKeptTrack'
  <2>1. Cardinality(Held) = 1 /\ Cardinality(Held') = 0 BY <1>9, FS_EmptySet, FS_Singleton
  <2> DEFINE h == Cardinality(Holder)
  <2>2. h \in Int BY <1>1, SetsTyped, FS_CardinalityType
  <2>3. packet_sgl_entries \in Int /\ payload_thread.entries \in Int
    BY <1>1 DEF Kinds, RequestKind, ThreadKind
  <2>4. packet_sgl_entries + payload_thread.entries + 2 * (h - 1) = PacketSglEntries
    BY <1>1, <2>1, ConstantFacts DEF Core, EntriesKeptTrack
  <2>5. packet_sgl_entries' = packet_sgl_entries + payload_thread.entries - 2 BY <1>2
  <2>6. EntriesKeptTrack' <=> packet_sgl_entries' + 0 + 2 * (h - 0) = PacketSglEntries
    BY <1>2, <1>4, <2>1, ConstantFacts DEF EntriesKeptTrack
  <2> HIDE DEF h
  <2>7. packet_sgl_entries' + 0 + 2 * (h - 0) = PacketSglEntries BY <2>2, <2>3, <2>4, <2>5
  <2> QED BY <2>6, <2>7
<1>33. SourceEntriesHavePlaces' BY <1>1, <1>3, <1>4, SourceFrame DEF Placed
<1>34. ToldOnce'
  <2>1. \A t \in Holding : payload_states'[t].payload = payload_states[t].payload
    BY <1>2, <1>5 DEF Holding, Used
  <2> QED BY <1>1, <1>3, <1>4, <2>1 DEF Placed, ToldOnce, history
<1>35. Core'
  BY <1>12, <1>19, <1>21, <1>23, <1>25, <1>29, <1>30, <1>31, <1>32 DEF Core
<1> QED BY <1>14, <1>15, <1>16, <1>17, <1>18, <1>33, <1>34, <1>35 DEF IInv, Placed

-----------------------------------------------------------------------------
(* A packet is completed.                                                  *)

(* A completion takes one reference, two with the last packet.             *)
LEMMA ReferencesDropped ==
  ASSUME Kinds, Counted, NEW e \in Endpoint, NEW w, NEW s, NEW k \in {1, 2},
         w \in OnWay(e), \A f \in Endpoint : OnWay(f)' = OnWay(f) \ {w},
         \A f \in Endpoint \ {e} : w \notin OnWay(f) /\ BegunAt(f)' = BegunAt(f),
         Undisturbed' => Undisturbed,
         Undisturbed' => \/ k = 2 /\ s \in BegunAt(e) /\ BegunAt(e)' = BegunAt(e) \ {s}
                         \/ k = 1 /\ BegunAt(e)' = BegunAt(e),
         tx_in_flight_ref_count'[e] = tx_in_flight_ref_count[e] - k,
         \A f \in Endpoint \ {e} : tx_in_flight_ref_count'[f] = tx_in_flight_ref_count[f]
  PROVE  Counted'
<1>1. \A f : IsFiniteSet(OnWay(f)) /\ Cardinality(OnWay(f)) \in Nat
  <2>1. \A f : OnWay(f) \subseteq Moving BY DEF OnWay
  <2> QED BY <2>1, SetsTyped, FS_Subset, FS_CardinalityType
<1>2. \A f : IsFiniteSet(BegunAt(f)) /\ Cardinality(BegunAt(f)) \in Nat
  <2>1. \A f : BegunAt(f) \subseteq Live BY DEF BegunAt
  <2> QED BY <2>1, SetsTyped, FS_Subset, FS_CardinalityType
<1> SUFFICES ASSUME Undisturbed', NEW f \in Endpoint
             PROVE  tx_in_flight_ref_count'[f]
                      = Cardinality(OnWay(f)') + Cardinality(BegunAt(f)')
  BY DEF Counted
<1>3. tx_in_flight_ref_count[f] = Cardinality(OnWay(f)) + Cardinality(BegunAt(f))
  BY DEF Counted
<1>4. CASE f = e
  <2>1. Cardinality(OnWay(f)') = Cardinality(OnWay(f)) - 1 BY <1>1, <1>4, OneMore
  <2>2. Cardinality(BegunAt(f)') = Cardinality(BegunAt(f)) - (k - 1)
    <3>1. CASE k = 1 BY <1>2, <1>4, <3>1
    <3>2. CASE k = 2
      <4>1. s \in BegunAt(f) /\ BegunAt(f)' = BegunAt(f) \ {s} BY <1>4, <3>2
      <4>2. Cardinality(BegunAt(f)') = Cardinality(BegunAt(f)) - 1 BY <1>2, <4>1, OneMore
      <4> QED BY <3>2, <4>2
    <3> QED BY <3>1, <3>2
  <2>3. tx_in_flight_ref_count'[f] = tx_in_flight_ref_count[f] - k BY <1>4
  <2> QED BY <1>1, <1>2, <1>3, <2>1, <2>2, <2>3
<1>5. CASE f # e
  <2>1. OnWay(f)' = OnWay(f) BY <1>5
  <2> QED BY <1>3, <1>5, <2>1
<1> QED BY <1>4, <1>5

(* What a completion does, for the last packet of a payload to arrive or   *)
(* not.                                                                    *)
LEMMA PacketCompleted ==
  ASSUME IInv, NEW w \in WorkRequest, NEW result \in AckResults, CompletePacket(w, result)
  PROVE  \E e \in Endpoint, s \in Slot :
    /\ s = StateOf(w) /\ payload_states[s].endpoint = e /\ s \in Live \ Fresh
    /\ w \in Moving /\ w \in Sent(e) /\ Parked = None /\ Polls("completions")
    /\ StateKind' /\ LineKind' /\ LinesApart' /\ Moving' = Moving \ {w}
    /\ \A f \in Endpoint : Sent(f)' = Sent(f) \ {w}
    /\ payload_states'[s].transferred = payload_states[s].transferred + 1
    /\ payload_states'[s].completed = Append(payload_states[s].completed, w)
    /\ \A t \in Slot :
         /\ payload_states'[t].payload = payload_states[t].payload
         /\ payload_states'[t].endpoint = payload_states[t].endpoint
         /\ payload_states'[t].payload_num = payload_states[t].payload_num
         /\ payload_states'[t].packet_sequence_num = payload_states[t].packet_sequence_num
         /\ t # s => payload_states'[t] = payload_states[t]
    /\ tx_in_flight_ref_count'[e] = tx_in_flight_ref_count[e] - References(w)
    /\ \A f \in Endpoint \ {e} : tx_in_flight_ref_count'[f] = tx_in_flight_ref_count[f]
    /\ unacked \subseteq unacked'
    /\ IF payload_states[s].transferred + 1 >= Size(s)
       THEN /\ work_requests' = [work_requests EXCEPT ![w].payload_state = None]
            /\ work_req_comp_queue' =
                 work_req_comp_queue \o Append(payload_states[s].completed, w)
            /\ poll_thread' = [poll_thread EXCEPT !.pc = "transfer", !.slot = s]
       ELSE UNCHANGED <<work_requests, work_req_comp_queue, poll_thread>>
<1>1. Kinds /\ Control /\ Core /\ LinesApart /\ PacketsBelong /\ StateKind /\ LineKind /\ PollKind
  BY DEF IInv, Placed, Core, Kinds
<1>2. PICK e \in Endpoint : e = Polled
  BY <1>1, LeftFacts DEF PollKind, Polled
<1>3. w \in in_flight[e] /\ in_flight' = [in_flight EXCEPT ![e] = @ \ {w}]
      /\ tx_in_flight_ref_count' = [tx_in_flight_ref_count EXCEPT ![e] = @ - References(w)]
      /\ Polls("completions")
  BY <1>2 DEF CompletePacket
<1>4. w \in Sent(e) /\ w \in Moving BY <1>3, MovingIs DEF Sent
<1>5. PICK s \in Slot : s = StateOf(w) /\ s \in Live \ Fresh
  BY <1>1, <1>4, SetsTyped DEF PacketsBelong
<1>6. payload_states[s].endpoint = e
      /\ work_requests[w].payload_num = payload_states[s].payload_num
  BY <1>1, <1>4, <1>5 DEF PacketsBelong
<1> DEFINE c == Append(payload_states[s].completed, w)
<1>7. payload_states' = [payload_states EXCEPT ![s].transferred = @ + 1, ![s].completed = c]
      /\ unacked \subseteq unacked'
      /\ IF payload_states[s].transferred + 1 >= Size(s)
         THEN /\ work_requests' = [work_requests EXCEPT ![w].payload_state = None]
              /\ work_req_comp_queue' = work_req_comp_queue \o c
              /\ poll_thread' = [poll_thread EXCEPT !.pc = "transfer", !.slot = s]
         ELSE UNCHANGED <<work_requests, work_req_comp_queue, poll_thread>>
  BY <1>5, <1>6 DEF CompletePacket, StateOf, IsTransferred, Size
<1>8. UNCHANGED <<payload_thread, payload_queue, payload_num, waiting, payload_state_pool>>
  BY DEF CompletePacket, OnlyPollThread
<1> DEFINE R == [payload : Payload \cup {None}, endpoint : Endpoint, payload_num : Int,
                 packet_sequence_num : Nat, transferred : Nat, completed : Seq(WorkRequest)]
<1> DEFINE y == [payload_states[s] EXCEPT !.transferred = @ + 1, !.completed = c]
<1>9. payload_states \in [Slot -> R] BY <1>1 DEF StateKind
<1>10. payload_states' = [payload_states EXCEPT ![s] = y]
  <2>1. payload_states'[s] = y BY <1>7, <1>9
  <2> HIDE DEF y, R
  <2>2. \A t \in Slot \ {s} : payload_states'[t] = payload_states[t] BY <1>7, <1>9
  <2>3. payload_states' = [t \in Slot |-> payload_states'[t]]
    BY <1>7, <1>9
  <2> QED BY <1>9, <2>1, <2>2, <2>3
<1>11. y \in R
  <2>1. payload_states[s] \in R BY <1>9
  <2>2. c \in Seq(WorkRequest) /\ payload_states[s].transferred + 1 \in Nat
    <3>1. payload_states[s].completed \in Seq(WorkRequest) /\ payload_states[s].transferred \in Nat
      BY <2>1
    <3> QED BY <3>1, ItemsAppended
  <2> HIDE DEF c
  <2> QED BY <2>1, <2>2
<1>12. StateKind'
  <2>1. payload_states' \in [Slot -> R]
    <3> HIDE DEF R, y
    <3> QED BY <1>9, <1>10, <1>11
  <2> QED BY <1>1, <1>8, <2>1 DEF StateKind
<1>13. /\ payload_states'[s].transferred = payload_states[s].transferred + 1
       /\ payload_states'[s].completed = Append(payload_states[s].completed, w)
       /\ \A t \in Slot :
         /\ payload_states'[t].payload = payload_states[t].payload
         /\ payload_states'[t].endpoint = payload_states[t].endpoint
         /\ payload_states'[t].payload_num = payload_states[t].payload_num
         /\ payload_states'[t].packet_sequence_num = payload_states[t].packet_sequence_num
         /\ t # s => payload_states'[t] = payload_states[t]
  <2>1. payload_states[s] \in R /\ DOMAIN payload_states = Slot BY <1>9
  <2> HIDE DEF R, c
  <2>2. payload_states'[s] = y /\ \A t \in Slot \ {s} : payload_states'[t] = payload_states[t]
    <3> HIDE DEF y
    <3> QED BY <1>10, <2>1
  <2>3. /\ y.transferred = payload_states[s].transferred + 1 /\ y.completed = c
        /\ y.payload = payload_states[s].payload /\ y.endpoint = payload_states[s].endpoint
        /\ y.payload_num = payload_states[s].payload_num
        /\ y.packet_sequence_num = payload_states[s].packet_sequence_num
    BY <2>1 DEF R
  <2> HIDE DEF y
  <2> QED BY <2>2, <2>3 DEF c
<1>14. Parked = None BY <1>1, <1>3 DEF Control, Polls
<1>15. LineKind'
  <2>1. References(w) \in Int BY DEF References
  <2>2. tx_in_flight_ref_count' \in [Endpoint -> Int] BY <1>1, <1>3, <2>1 DEF LineKind
  <2>3. in_flight' \in [Endpoint -> SUBSET WorkRequest] BY <1>1, <1>3 DEF LineKind
  <2> QED BY <1>1, <1>8, <2>2, <2>3 DEF LineKind, waiting
<1>16. tx_in_flight_ref_count'[e] = tx_in_flight_ref_count[e] - References(w)
       /\ \A f \in Endpoint \ {e} : tx_in_flight_ref_count'[f] = tx_in_flight_ref_count[f]
  BY <1>1, <1>3 DEF LineKind
<1>17. \A f : Queued(f)' = Queued(f) BY <1>8 DEF Queued, waiting
<1>18. in_flight'[e] = in_flight[e] \ {w}
       /\ \A f \in Endpoint \ {e} : in_flight'[f] = in_flight[f]
  BY <1>1, <1>3 DEF LineKind
<1>19. w \notin Queued(e) /\ w \notin ToSet(List) BY <1>1, <1>3, <1>4 DEF LinesApart
<1>20. \A f \in Endpoint \ {e} : w \notin Sent(f) BY <1>1, <1>5, <1>6 DEF PacketsBelong
<1>21. \A f \in Endpoint : Sent(f)' = Sent(f) \ {w}
  <2> TAKE f \in Endpoint
  <2>1. CASE f = e BY <1>17, <1>18, <1>19, <2>1 DEF Sent
  <2>2. CASE f # e
    <3>1. Sent(f)' = Sent(f) BY <1>17, <1>18, <2>2 DEF Sent
    <3> QED BY <1>20, <2>2, <3>1
  <2> QED BY <2>1, <2>2
<1>22. List' = List BY <1>8 DEF List
<1>23. Moving' = Moving \ {w}
  <2>1. \A v : v \in Moving' <=> v \in ToSet(List) \/ \E f \in Endpoint : v \in Sent(f)'
    BY <1>22 DEF Moving
  <2>2. \A v : v \in Moving' <=> v \in Moving /\ v # w BY <1>19, <1>21, <2>1, MovingIs
  <2> QED BY <2>2
<1>24. LinesApart'
  <2> SUFFICES ASSUME NEW f \in Endpoint
               PROVE  /\ Lined(tx_packet_queue[f], tx_packet_waiting_list[f])'
                      /\ Queued(f)' \cap in_flight'[f] = {}
                      /\ ToSet(List)' \cap Sent(f)' = {}
    BY <1>1, <1>22 DEF LinesApart
  <2>1. Lined(tx_packet_queue[f], tx_packet_waiting_list[f])'
    BY <1>1, <1>8 DEF LinesApart, Lined, waiting
  <2>2. in_flight'[f] \subseteq in_flight[f] BY <1>18
  <2> QED BY <1>1, <1>17, <1>21, <1>22, <2>1, <2>2 DEF LinesApart
<1>25. /\ unacked \subseteq unacked'
       /\ IF payload_states[s].transferred + 1 >= Size(s)
          THEN /\ work_requests' = [work_requests EXCEPT ![w].payload_state = None]
               /\ work_req_comp_queue' =
                    work_req_comp_queue \o Append(payload_states[s].completed, w)
               /\ poll_thread' = [poll_thread EXCEPT !.pc = "transfer", !.slot = s]
          ELSE UNCHANGED <<work_requests, work_req_comp_queue, poll_thread>>
  BY <1>7
<1>26. s = StateOf(w) /\ payload_states[s].endpoint = e /\ s \in Live \ Fresh
       /\ w \in Moving /\ w \in Sent(e) /\ Parked = None /\ Polls("completions")
  BY <1>3, <1>4, <1>5, <1>6, <1>14
<1> HIDE DEF c, R, y
<1> WITNESS e \in Endpoint, s \in Slot
<1> QED BY <1>12, <1>13, <1>15, <1>16, <1>21, <1>23, <1>24, <1>25, <1>26

(* The payload has packets left to complete.                               *)
LEMMA CompletedStays ==
  ASSUME IInv, NEW w \in WorkRequest, NEW result \in AckResults, CompletePacket(w, result),
         payload_states[StateOf(w)].transferred + 1 < Size(StateOf(w))
  PROVE  IInv'
<1>1. Kinds /\ Control /\ Calm /\ Placed /\ Core /\ SlotsApart /\ PayloadsApart
  BY DEF IInv, Placed
<1>2. PICK e \in Endpoint, s \in Slot :
    /\ s = StateOf(w) /\ payload_states[s].endpoint = e /\ s \in Live \ Fresh
    /\ w \in Moving /\ w \in Sent(e) /\ Parked = None /\ Polls("completions")
    /\ StateKind' /\ LineKind' /\ LinesApart' /\ Moving' = Moving \ {w}
    /\ \A f \in Endpoint : Sent(f)' = Sent(f) \ {w}
    /\ payload_states'[s].transferred = payload_states[s].transferred + 1
    /\ payload_states'[s].completed = Append(payload_states[s].completed, w)
    /\ \A t \in Slot :
         /\ payload_states'[t].payload = payload_states[t].payload
         /\ payload_states'[t].endpoint = payload_states[t].endpoint
         /\ payload_states'[t].payload_num = payload_states[t].payload_num
         /\ payload_states'[t].packet_sequence_num = payload_states[t].packet_sequence_num
         /\ t # s => payload_states'[t] = payload_states[t]
    /\ tx_in_flight_ref_count'[e] = tx_in_flight_ref_count[e] - References(w)
    /\ \A f \in Endpoint \ {e} : tx_in_flight_ref_count'[f] = tx_in_flight_ref_count[f]
    /\ unacked \subseteq unacked'
    /\ IF payload_states[s].transferred + 1 >= Size(s)
       THEN /\ work_requests' = [work_requests EXCEPT ![w].payload_state = None]
            /\ work_req_comp_queue' =
                 work_req_comp_queue \o Append(payload_states[s].completed, w)
            /\ poll_thread' = [poll_thread EXCEPT !.pc = "transfer", !.slot = s]
       ELSE UNCHANGED <<work_requests, work_req_comp_queue, poll_thread>>
  BY PacketCompleted
<1>3. Used \subseteq Slot /\ Live \subseteq Used /\ Live \subseteq Slot
      /\ Moving \subseteq WorkRequest /\ IsFiniteSet(Moving)
  BY <1>1, SetsTyped
<1>4. /\ Size(s) \in Nat /\ payload_states[s].transferred \in Nat /\ Made(s) \in Nat
      /\ payload_states[s].completed \in Seq(WorkRequest)
  <2>1. payload_states[s].payload \in 1 .. accepted_count
    BY <1>1, <1>2, <1>3 DEF PayloadsApart
  <2>2. accepted_count \in 0 .. Len(Packets) /\ Len(Packets) \in Nat
    BY <1>1, ConstantFacts DEF Kinds, ReturnKind
  <2>3. payload_states[s].payload \in Payload BY <2>1, <2>2 DEF Payload
  <2>4. Size(s) \in Nat BY <2>3, ConstantFacts DEF Size
  <2> QED BY <1>1, <2>4 DEF Kinds, StateKind, Made
<1>5. UNCHANGED <<work_requests, work_req_comp_queue, poll_thread>>
  <2>1. payload_states[s].transferred + 1 < Size(s) BY <1>2
  <2>2. ~(payload_states[s].transferred + 1 >= Size(s)) BY <1>4, <2>1
  <2> QED BY <1>2, <2>2
<1>6. UNCHANGED <<app, accepted_count, payload_queue, payload_thread, payload_num, link,
              accepted, returned, raced, payload_state_pool, payload_sgl_entries,
              work_request_pool, packet_sgl_entries, waiting, tx_poll_do_work_signal,
              app_payload_message_queue, dropped>>
  BY DEF CompletePacket, OnlyPollThread
<1>7. Hand' = Hand /\ Doing' = Doing /\ Request' = Request /\ List' = List
      /\ payload_thread'.last = payload_thread.last
      /\ payload_thread'.entries = payload_thread.entries /\ AppSlot' = AppSlot
      /\ Used' = Used /\ Live' = Live /\ Holder' = Holder /\ Parked' = Parked
      /\ Holding' = Holding /\ Freed' = Freed
  BY <1>5, <1>6
     DEF Hand, Doing, Request, List, Used, Live, AppSlot, Holder, Parked, Holding, Polls, Freed
<1>8. Calling' = Calling /\ Unbegun' = Unbegun /\ Fresh' = Fresh BY <1>6, <1>7, SetsFrame
<1>9. \A v : StateOf(v)' = StateOf(v) BY <1>5 DEF StateOf
<1>10. /\ Completed(s)' = Completed(s) \cup {w}
       /\ \A t \in Slot \ {s} : Completed(t)' = Completed(t)
       /\ IsInjective(payload_states[s].completed) /\ w \notin Completed(s)
       /\ IsInjective(payload_states'[s].completed)
  <2>1. ToSet(Append(payload_states[s].completed, w))
          = ToSet(payload_states[s].completed) \cup {w}
    BY <1>4, ItemsAppended
  <2>2. RequestsApart BY <1>1 DEF Core
  <2>3. IsInjective(payload_states[s].completed) /\ w \notin Completed(s)
    BY <1>2, <2>2 DEF RequestsApart
  <2>4. IsInjective(Append(payload_states[s].completed, w))
    BY <1>4, <2>3, ItemsAppended DEF Completed
  <2> QED BY <1>2, <2>1, <2>3, <2>4 DEF Completed
<1>11. /\ Mine(s)' = Mine(s) \ {w} /\ w \in Mine(s) /\ \A t : t # s => Mine(t)' = Mine(t)
  BY <1>2, <1>9 DEF Mine
<1>12. \A t \in Slot : Size(t)' = Size(t) /\ Made(t)' = Made(t) BY <1>2 DEF Size, Made
<1>13. Undisturbed' => Undisturbed
  <2>1. losses' = losses BY <1>6 DEF link
  <2> QED BY <1>2, <2>1, UndisturbedFrame
<1>14. Kinds'
  <2>1. AppKind' /\ ThreadKind' /\ RequestKind'
    BY <1>1, <1>5, <1>6 DEF Kinds, AppKind, ThreadKind, RequestKind
  <2>2. ReturnKind' /\ PollKind' BY <1>1, <1>5, <1>6 DEF Kinds, ReturnKind, PollKind
  <2> QED BY <1>2, <2>1, <2>2 DEF Kinds
<1>15. Calm' BY <1>1, <1>6 DEF Calm, Connected, link
<1>16. Control' BY <1>1, <1>5, <1>6, <1>7 DEF Control, Thread, Polls
<1>17. SlotsApart' BY <1>1, <1>6, <1>7, SlotsFrame
<1>18. PayloadsApart'
  <2>1. accepted_count' = accepted_count /\ accepted' = accepted BY <1>6
  <2>2. \A t \in Used : payload_states'[t].payload = payload_states[t].payload BY <1>2, <1>3
  <2> QED BY <1>1, <1>7, <1>8, <2>1, <2>2 DEF PayloadsApart
<1>19. FreshIsNew'
  <2>1. \A t \in Fresh : payload_states'[t] = payload_states[t]
    <3>1. Unbegun \subseteq Slot /\ Hand \in Slot \cup {None} BY <1>1, SetsTyped
    <3>2. Doing = "WorkReceived" => Hand # None BY <1>1 DEF Control
    <3>3. Fresh \subseteq Slot BY <3>1, <3>2 DEF Fresh
    <3> QED BY <1>2, <3>3
  <2> QED BY <1>1, <1>8, <2>1 DEF Core, FreshIsNew
<1>20. PacketsBelong'
  <2>1. PacketsBelong BY <1>1 DEF Core
  <2>2. \A v \in Moving' : /\ StateOf(v)' \in Live' \ Fresh'
          /\ work_requests'[v].payload_num = payload_states'[StateOf(v)'].payload_num
    BY <1>2, <1>3, <1>5, <1>7, <1>8, <1>9, <2>1 DEF PacketsBelong
  <2>3. \A v \in ToSet(List)' : StateOf(v)' = Hand' BY <1>7, <1>9, <2>1 DEF PacketsBelong
  <2>4. \A f \in Endpoint : \A v \in Sent(f)' : payload_states'[StateOf(v)'].endpoint = f
    <3> TAKE f \in Endpoint
    <3> TAKE v \in Sent(f)'
    <3>1. v \in Sent(f) /\ v \in Moving BY <1>2, MovingIs
    <3>2. StateOf(v) \in Slot /\ payload_states[StateOf(v)].endpoint = f
      BY <1>3, <2>1, <3>1 DEF PacketsBelong
    <3> QED BY <1>2, <1>9, <3>2
  <2> QED BY <2>2, <2>3, <2>4 DEF PacketsBelong
<1>21. RequestsApart'
  <2>1. RequestsApart BY <1>1 DEF Core
  <2>2. \A t \in Live' :
       /\ IsInjective(payload_states'[t].completed)
       /\ Completed(t)' \subseteq Holder'
       /\ Completed(t)' \cap (Moving' \cup Freed' \cup {Request'}) = {}
       /\ \A v \in Completed(t)' : StateOf(v)' = t
    <3> TAKE t \in Live'
    <3>1. t \in Live /\ t \in Slot BY <1>3, <1>7
    <3>2. /\ IsInjective(payload_states[t].completed)
          /\ Completed(t) \subseteq Holder
          /\ Completed(t) \cap (Moving \cup Freed \cup {Request}) = {}
          /\ \A v \in Completed(t) : StateOf(v) = t
      BY <2>1, <3>1 DEF RequestsApart
    <3>3. w \in Holder /\ w \notin Freed /\ w # Request BY <1>2, <2>1 DEF RequestsApart
    <3>4. CASE t = s
      <4>1. Completed(s)' = Completed(s) \cup {w} /\ StateOf(w) = s BY <1>2, <1>10
      <4>2. Completed(s)' \subseteq Holder' /\ \A v \in Completed(s)' : StateOf(v)' = s
        BY <1>7, <1>9, <3>2, <3>3, <3>4, <4>1
      <4>3. Completed(s)' \cap (Moving' \cup Freed' \cup {Request'}) = {}
        BY <1>2, <1>7, <3>2, <3>3, <3>4, <4>1
      <4>4. IsInjective(payload_states'[t].completed) BY <1>10, <3>4
      <4> QED BY <3>4, <4>2, <4>3, <4>4
    <3>5. CASE t # s
      <4>1. payload_states'[t].completed = payload_states[t].completed
            /\ Completed(t)' = Completed(t)
        BY <1>2, <1>10, <3>1, <3>5
      <4>2. IsInjective(payload_states'[t].completed) BY <3>2, <4>1
      <4> QED BY <1>2, <1>7, <1>9, <3>2, <4>1, <4>2
    <3> QED BY <3>4, <3>5
  <2>3. work_req_comp_queue' = work_req_comp_queue BY <1>5
  <2> QED BY <1>2, <1>7, <2>1, <2>2, <2>3 DEF RequestsApart
<1>22. NothingLeaks'
  <2> DEFINE C == UNION {Completed(t) : t \in Live}
  <2> DEFINE D == UNION {Completed(t)' : t \in Live'}
  <2>1. D = C \cup {w}
    <3>1. \A v : v \in C <=> \E t \in Live : v \in Completed(t) OBVIOUS
    <3>2. \A v : v \in D <=> \E t \in Live : v \in Completed(t)' BY <1>7
    <3>3. \A t \in Live : \A v : v \in Completed(t)' <=> v \in Completed(t) \/ (t = s /\ v = w)
      BY <1>2, <1>3, <1>10
    <3>4. s \in Live BY <1>2, <1>3
    <3>5. \A v : v \in D <=> v \in C \/ v = w BY <3>1, <3>2, <3>3, <3>4
    <3> HIDE DEF C, D
    <3> QED BY <3>5
  <2>2. Undisturbed => Holder = Moving \cup Freed \cup Held \cup C
    BY <1>1 DEF Core, NothingLeaks
  <2>3. NothingLeaks' <=> (Undisturbed' => Holder' = Moving' \cup Freed' \cup Held' \cup D)
    BY DEF NothingLeaks
  <2>4. Held' = Held BY <1>7 DEF Held
  <2> HIDE DEF C, D
  <2> QED BY <1>2, <1>7, <1>13, <2>1, <2>2, <2>3, <2>4
<1>23. \A t : IsFiniteSet(Mine(t)) /\ Cardinality(Mine(t)) \in Nat
  <2>1. \A t : Mine(t) \subseteq Moving BY DEF Mine
  <2> QED BY <1>3, <2>1, FS_Subset, FS_CardinalityType
<1>24. PacketsCounted'
  <2>1. PacketsCounted BY <1>1 DEF Core
  <2>2. \A t \in Live' :
       /\ payload_states'[t].transferred = Len(payload_states'[t].completed)
       /\ Made(t)' <= Size(t)'
       /\ payload_states'[t].transferred + Cardinality(Mine(t)') <= Made(t)'
       /\ t \notin Fresh' \cup {Hand'} => Made(t)' = Size(t)'
    <3> TAKE t \in Live'
    <3>1. t \in Live /\ t \in Slot BY <1>3, <1>7
    <3>2. /\ payload_states[t].transferred = Len(payload_states[t].completed)
          /\ Made(t) <= Size(t)
          /\ payload_states[t].transferred + Cardinality(Mine(t)) <= Made(t)
          /\ t \notin Fresh \cup {Hand} => Made(t) = Size(t)
      BY <2>1, <3>1 DEF PacketsCounted
    <3>3. Made(t)' <= Size(t)' /\ (t \notin Fresh' \cup {Hand'} => Made(t)' = Size(t)')
      BY <1>7, <1>8, <1>12, <3>1, <3>2
    <3>4. CASE t = s
      <4>1. Cardinality(Mine(s)') = Cardinality(Mine(s)) - 1 BY <1>11, <1>23, OneMore
      <4>2. payload_states'[s].transferred + Cardinality(Mine(s)') <= Made(s)'
        BY <1>2, <1>4, <1>12, <1>23, <3>2, <3>4, <4>1
      <4>3. Len(Append(payload_states[s].completed, w)) = Len(payload_states[s].completed) + 1
        BY <1>4
      <4>4. payload_states'[s].transferred = Len(payload_states'[s].completed)
        BY <1>2, <3>2, <3>4, <4>3
      <4> QED BY <3>3, <3>4, <4>2, <4>4
    <3>5. CASE t # s
      <4>1. payload_states'[t] = payload_states[t] /\ Mine(t)' = Mine(t) /\ Made(t)' = Made(t)
        BY <1>2, <1>11, <1>12, <3>1, <3>5
      <4> QED BY <3>2, <3>3, <4>1
    <3> QED BY <3>4, <3>5
  <2>3. ASSUME Doing # "Idle"
        PROVE  Made(Hand)' = Made(Hand) /\ Size(Hand)' = Size(Hand)
    <3>1. Hand \in Slot BY <1>1, <2>3, SetsTyped DEF Control
    <3> QED BY <1>2, <1>7, <3>1 DEF Made, Size
  <2> QED BY <1>7, <2>1, <2>2, <2>3 DEF PacketsCounted
<1>25. LastIsLast'
  <2>1. LastIsLast BY <1>1 DEF Core
  <2> SUFFICES ASSUME NEW t \in Live'
               PROVE  /\ \A v, u \in Mine(t)' \cup Completed(t)' :
                           work_requests'[v].last /\ work_requests'[u].last => v = u
                      /\ Made(t)' < Size(t)' =>
                           \A v \in Mine(t)' \cup Completed(t)' : ~work_requests'[v].last
                      /\ Undisturbed' /\ Made(t)' = Size(t)' =>
                           \E v \in Mine(t)' \cup Completed(t)' : work_requests'[v].last
    BY DEF LastIsLast
  <2>2. t \in Live /\ t \in Slot BY <1>3, <1>7
  <2>3. Mine(t)' \cup Completed(t)' = Mine(t) \cup Completed(t) BY <1>10, <1>11, <2>2
  <2> QED BY <1>5, <1>12, <1>13, <2>1, <2>2, <2>3 DEF LastIsLast
<1>26. Counted'
  <2>1. PacketsBelong /\ RequestsApart /\ LastIsLast BY <1>1 DEF Core
  <2>2. \A v \in Moving : payload_states'[StateOf(v)].endpoint = payload_states[StateOf(v)].endpoint
    BY <1>2, <1>3, <2>1 DEF PacketsBelong
  <2>3. \A f \in Endpoint : OnWay(f)' = OnWay(f) \ {w} BY <1>2, <1>9, <2>2 DEF OnWay
  <2>4. w \in OnWay(e) /\ \A f \in Endpoint \ {e} : w \notin OnWay(f) BY <1>2 DEF OnWay
  <2>5. \A f \in Endpoint : \A t \in Live \ {s} : t \in BegunAt(f)' <=> t \in BegunAt(f)
    <3>1. \A t \in Live \ {s} : Completed(t)' = Completed(t)
                               /\ payload_states'[t].endpoint = payload_states[t].endpoint
      BY <1>2, <1>3, <1>10
    <3> QED BY <1>5, <1>7, <1>8, <3>1 DEF BegunAt
  <2>6. \A f \in Endpoint : BegunAt(f)' \subseteq Live /\ BegunAt(f) \subseteq Live
    BY <1>7 DEF BegunAt
  <2>7. \A f \in Endpoint \ {e} : s \notin BegunAt(f) /\ s \notin BegunAt(f)'
    BY <1>2 DEF BegunAt
  <2>8. \A f \in Endpoint \ {e} : BegunAt(f)' = BegunAt(f) BY <2>5, <2>6, <2>7
  <2>9. s \notin Unbegun BY <1>2 DEF Fresh
  <2>10. s \in BegunAt(e) <=> \A v \in Completed(s) : ~work_requests[v].last
    BY <1>2, <2>9 DEF BegunAt
  <2>11. s \in BegunAt(e)' <=> \A v \in Completed(s) \cup {w} : ~work_requests[v].last
    BY <1>2, <1>5, <1>7, <1>8, <1>10, <2>9 DEF BegunAt
  <2>12. CASE work_requests[w].last
    <3>1. \A v \in Completed(s) : ~work_requests[v].last
      BY <1>2, <1>10, <1>11, <2>1, <2>12 DEF LastIsLast
    <3>2. s \in BegunAt(e) /\ s \notin BegunAt(e)' BY <2>10, <2>11, <2>12, <3>1
    <3>3. BegunAt(e)' = BegunAt(e) \ {s} BY <2>5, <2>6, <3>2
    <3>4. References(w) = 2 BY <2>12 DEF References
    <3> QED BY <1>1, <1>2, <1>13, <2>3, <2>4, <2>8, <3>2, <3>3, <3>4, ReferencesDropped DEF Core
  <2>13. CASE ~work_requests[w].last
    <3>1. s \in BegunAt(e) <=> s \in BegunAt(e)' BY <2>10, <2>11, <2>13
    <3>2. BegunAt(e)' = BegunAt(e) BY <2>5, <2>6, <3>1
    <3>3. References(w) = 1 BY <2>13 DEF References
    <3>4. /\ tx_in_flight_ref_count'[e] = tx_in_flight_ref_count[e] - 1
          /\ \A f \in Endpoint \ {e} : tx_in_flight_ref_count'[f] = tx_in_flight_ref_count[f]
      BY <1>2, <3>3
    <3>5. 1 \in {1, 2} /\ Kinds /\ Counted BY <1>1 DEF Core
    <3> QED BY <1>13, <2>3, <2>4, <2>8, <3>2, <3>4, <3>5, ReferencesDropped
  <2> QED BY <2>12, <2>13
<1>27. EntriesKeptTrack' BY <1>1, <1>6, <1>7, EntriesFrame DEF Core
<1>28. SourceEntriesHavePlaces' BY <1>1, <1>6, <1>7, SourceFrame DEF Placed
<1>29. ToldOnce'
  <2>1. \A t \in Holding : payload_states'[t].payload = payload_states[t].payload
    BY <1>2, <1>3 DEF Holding, Used
  <2> QED BY <1>1, <1>6, <1>7, <2>1 DEF Placed, ToldOnce
<1>30. Core'
  BY <1>2, <1>19, <1>20, <1>21, <1>22, <1>24, <1>25, <1>26, <1>27 DEF Core
<1> QED BY <1>14, <1>15, <1>16, <1>17, <1>18, <1>28, <1>29, <1>30 DEF IInv, Placed

(* It has not: its work requests and its payload state part.               *)
LEMMA CompletedGoes ==
  ASSUME IInv, NEW w \in WorkRequest, NEW result \in AckResults, CompletePacket(w, result),
         payload_states[StateOf(w)].transferred + 1 >= Size(StateOf(w))
  PROVE  IInv'
<1>1. Kinds /\ Control /\ Calm /\ Placed /\ Core /\ SlotsApart /\ PayloadsApart
  BY DEF IInv, Placed
<1>2. PICK e \in Endpoint, s \in Slot :
    /\ s = StateOf(w) /\ payload_states[s].endpoint = e /\ s \in Live \ Fresh
    /\ w \in Moving /\ w \in Sent(e) /\ Parked = None /\ Polls("completions")
    /\ StateKind' /\ LineKind' /\ LinesApart' /\ Moving' = Moving \ {w}
    /\ \A f \in Endpoint : Sent(f)' = Sent(f) \ {w}
    /\ payload_states'[s].transferred = payload_states[s].transferred + 1
    /\ payload_states'[s].completed = Append(payload_states[s].completed, w)
    /\ \A t \in Slot :
         /\ payload_states'[t].payload = payload_states[t].payload
         /\ payload_states'[t].endpoint = payload_states[t].endpoint
         /\ payload_states'[t].payload_num = payload_states[t].payload_num
         /\ payload_states'[t].packet_sequence_num = payload_states[t].packet_sequence_num
         /\ t # s => payload_states'[t] = payload_states[t]
    /\ tx_in_flight_ref_count'[e] = tx_in_flight_ref_count[e] - References(w)
    /\ \A f \in Endpoint \ {e} : tx_in_flight_ref_count'[f] = tx_in_flight_ref_count[f]
    /\ unacked \subseteq unacked'
    /\ IF payload_states[s].transferred + 1 >= Size(s)
       THEN /\ work_requests' = [work_requests EXCEPT ![w].payload_state = None]
            /\ work_req_comp_queue' =
                 work_req_comp_queue \o Append(payload_states[s].completed, w)
            /\ poll_thread' = [poll_thread EXCEPT !.pc = "transfer", !.slot = s]
       ELSE UNCHANGED <<work_requests, work_req_comp_queue, poll_thread>>
  BY PacketCompleted
<1>3. Used \subseteq Slot /\ Live \subseteq Used /\ Live \subseteq Slot
      /\ Moving \subseteq WorkRequest /\ IsFiniteSet(Moving)
  BY <1>1, SetsTyped
<1>4. /\ Size(s) \in Nat /\ payload_states[s].transferred \in Nat /\ Made(s) \in Nat
      /\ payload_states[s].completed \in Seq(WorkRequest)
  <2>1. payload_states[s].payload \in 1 .. accepted_count
    BY <1>1, <1>2, <1>3 DEF PayloadsApart
  <2>2. accepted_count \in 0 .. Len(Packets) /\ Len(Packets) \in Nat
    BY <1>1, ConstantFacts DEF Kinds, ReturnKind
  <2>3. payload_states[s].payload \in Payload BY <2>1, <2>2 DEF Payload
  <2>4. Size(s) \in Nat BY <2>3, ConstantFacts DEF Size
  <2> QED BY <1>1, <2>4 DEF Kinds, StateKind, Made
<1>5. /\ work_requests' = [work_requests EXCEPT ![w].payload_state = None]
      /\ work_req_comp_queue' = work_req_comp_queue \o Append(payload_states[s].completed, w)
      /\ poll_thread' = [poll_thread EXCEPT !.pc = "transfer", !.slot = s]
  BY <1>2
<1>6. UNCHANGED <<app, accepted_count, payload_queue, payload_thread, payload_num, link,
              accepted, returned, raced, payload_state_pool, payload_sgl_entries,
              work_request_pool, packet_sgl_entries, waiting, tx_poll_do_work_signal,
              app_payload_message_queue, dropped>>
  BY DEF CompletePacket, OnlyPollThread
<1>7. Hand' = Hand /\ Doing' = Doing /\ Request' = Request /\ List' = List
      /\ payload_thread'.last = payload_thread.last
      /\ payload_thread'.entries = payload_thread.entries /\ AppSlot' = AppSlot
      /\ Used' = Used /\ Holder' = Holder /\ Calling' = Calling /\ Unbegun' = Unbegun
      /\ Fresh' = Fresh
  BY <1>6
     DEF Hand, Doing, Request, List, Used, AppSlot, Holder, Calling, Unbegun, Fresh
<1>8. PollKind' /\ Parked' = s /\ poll_thread'.pc = "transfer"
  <2>1. PollKind BY <1>1 DEF Kinds
  <2> QED BY <1>5, <1>6, <2>1 DEF PollKind, Parked
<1>9. Live' = Live \ {s} /\ Live = Used
  <2>1. None \notin Used BY <1>1, SetsTyped, ConstantFacts
  <2> QED BY <1>2, <1>7, <1>8, <2>1 DEF Live
<1>10. Holding' = Holding
  <2>1. ~Polls("put") /\ ~Polls("put")' BY <1>2, <1>8 DEF Polls
  <2> QED BY <1>6, <2>1 DEF Holding
<1>11. RequestKind'
       /\ (\A v \in WorkRequest : work_requests'[v].last = work_requests[v].last
             /\ work_requests'[v].payload_num = work_requests[v].payload_num)
       /\ \A v \in WorkRequest \ {w} : work_requests'[v] = work_requests[v]
  <2> DEFINE y == [work_requests[w] EXCEPT !.payload_state = None]
  <2> DEFINE R == [payload_state : Slot \cup {None}, payload_num : Int, last : BOOLEAN]
  <2>1. RequestKind /\ work_requests \in [WorkRequest -> R] BY <1>1 DEF Kinds, RequestKind
  <2>2. y \in R /\ y.last = work_requests[w].last
        /\ y.payload_num = work_requests[w].payload_num
    <3>1. work_requests[w] \in R BY <2>1
    <3> QED BY <3>1
  <2>3. work_requests' = [work_requests EXCEPT ![w] = y] BY <1>5
  <2>4. Append(payload_states[s].completed, w) \in Seq(WorkRequest)
        /\ work_req_comp_queue \in Seq(WorkRequest)
    BY <1>4, <2>1, ItemsAppended DEF RequestKind
  <2>5. work_req_comp_queue' \in Seq(WorkRequest) BY <1>5, <2>4, ItemsJoined
  <2> HIDE DEF y, R
  <2>6. work_requests' \in [WorkRequest -> R] BY <2>1, <2>2, <2>3
  <2>7. RequestKind' BY <1>6, <2>1, <2>5, <2>6 DEF RequestKind, R
  <2>8. work_requests'[w] = y /\ \A v \in WorkRequest \ {w} : work_requests'[v] = work_requests[v]
    BY <2>1, <2>3
  <2> QED BY <2>2, <2>7, <2>8
<1>12. \A v \in WorkRequest \ {w} : StateOf(v)' = StateOf(v) BY <1>11 DEF StateOf
<1>13. RequestsApart /\ PacketsBelong /\ PacketsCounted /\ LastIsLast /\ NothingLeaks
  BY <1>1 DEF Core
<1>14. /\ IsInjective(payload_states[s].completed) /\ Completed(s) \subseteq Holder
       /\ Completed(s) \cap (Moving \cup Freed \cup {Request}) = {}
       /\ \A v \in Completed(s) : StateOf(v) = s
       /\ w \notin Completed(s) /\ w \in Holder /\ w \notin Freed /\ w # Request
  BY <1>2, <1>13 DEF RequestsApart
<1>15. Freed' = Freed \cup Completed(s) \cup {w} /\ IsInjective(work_req_comp_queue')
  <2> DEFINE c == Append(payload_states[s].completed, w)
  <2>1. c \in Seq(WorkRequest) /\ ToSet(c) = Completed(s) \cup {w} /\ IsInjective(c)
    BY <1>4, <1>14, ItemsAppended DEF Completed
  <2>2. work_req_comp_queue \in Seq(WorkRequest) /\ IsInjective(work_req_comp_queue)
    BY <1>1, <1>13 DEF Kinds, RequestKind, RequestsApart
  <2>3. ToSet(work_req_comp_queue) \cap ToSet(c) = {} BY <1>14, <2>1 DEF Freed
  <2>4. work_req_comp_queue' = work_req_comp_queue \o c BY <1>5
  <2> HIDE DEF c
  <2>5. ToSet(work_req_comp_queue') = ToSet(work_req_comp_queue) \cup ToSet(c)
        /\ IsInjective(work_req_comp_queue')
    BY <2>1, <2>2, <2>3, <2>4, ItemsJoined
  <2> QED BY <2>1, <2>5 DEF Freed
<1>16. \A t : IsFiniteSet(Mine(t)) /\ Cardinality(Mine(t)) \in Nat
  <2>1. \A t : Mine(t) \subseteq Moving BY DEF Mine
  <2> QED BY <1>3, <2>1, FS_Subset, FS_CardinalityType
<1>17. Mine(s) = {w} /\ Made(s) = Size(s)
  <2>1. w \in Mine(s) BY <1>2 DEF Mine
  <2>2. Cardinality(Mine(s) \ {w}) = Cardinality(Mine(s)) - 1 BY <1>16, <2>1, OneMore
  <2>3. /\ Made(s) <= Size(s)
        /\ payload_states[s].transferred + Cardinality(Mine(s)) <= Made(s)
    BY <1>2, <1>13 DEF PacketsCounted
  <2>4. payload_states[s].transferred + 1 >= Size(s) BY <1>2
  <2>5. IsFiniteSet(Mine(s) \ {w}) BY <1>16, <2>1, OneMore
  <2>6. Cardinality(Mine(s) \ {w}) \in Nat BY <2>5, FS_CardinalityType
  <2>7. Cardinality(Mine(s) \ {w}) = 0 /\ Made(s) = Size(s)
    BY <1>4, <1>16, <2>2, <2>3, <2>4, <2>6
  <2>8. Mine(s) \ {w} = {} BY <2>5, <2>7, FS_EmptySet
  <2> QED BY <2>1, <2>7, <2>8
<1>18. s # Hand
  <2> SUFFICES ASSUME s = Hand PROVE FALSE OBVIOUS
  <2>1. Hand # None BY ConstantFacts
  <2>2. Doing # "Idle" /\ Doing # "WorkReceived" BY <1>1, <1>2, <2>1 DEF Control, Fresh
  <2>3. Doing \notin {"GetWorkRequest", "Packetizing"}
    BY <1>4, <1>13, <1>17 DEF PacketsCounted
  <2>4. Doing = "Enqueuing" BY <1>1, <2>2, <2>3 DEF Kinds, ThreadKind, States, Doing
  <2>5. List # <<>> /\ List \in Seq(WorkRequest)
    BY <1>1, <2>4 DEF Control, Kinds, ThreadKind, List
  <2>6. Head(List) \in ToSet(List) BY <2>5, ItemsTaken
  <2>7. Head(List) \in Mine(s) BY <1>13, <2>6, MovingIs DEF PacketsBelong, Mine
  <2>8. w \in ToSet(List) BY <1>17, <2>6, <2>7
  <2> QED BY <1>1, <1>2, <2>8 DEF Core, LinesApart
<1>19. /\ \A t : t # s => Mine(t)' = Mine(t)
       /\ \A v \in Moving' : v # w /\ v \in Moving /\ v \in WorkRequest /\ StateOf(v) # s
  <2>1. \A v \in Moving' : v # w /\ v \in Moving /\ v \in WorkRequest BY <1>2, <1>3
  <2>2. \A v \in Moving' : StateOf(v) # s BY <1>17, <2>1 DEF Mine
  <2> QED BY <1>2, <1>12, <2>1, <2>2 DEF Mine
<1>20. \A t \in Slot : /\ Size(t)' = Size(t) /\ Made(t)' = Made(t)
                       /\ t # s => Completed(t)' = Completed(t)
  BY <1>2 DEF Size, Made, Completed
<1>21. Undisturbed' => Undisturbed
  <2>1. losses' = losses BY <1>6 DEF link
  <2> QED BY <1>2, <2>1, UndisturbedFrame
<1>22. Kinds'
  <2>1. AppKind' /\ ThreadKind' /\ ReturnKind'
    BY <1>1, <1>6 DEF Kinds, AppKind, ThreadKind, ReturnKind
  <2> QED BY <1>2, <1>8, <1>11, <2>1 DEF Kinds
<1>23. Calm' BY <1>1, <1>6 DEF Calm, Connected, link
<1>24. Control'
  <2>1. Parked' # None /\ Polls("transfer")' BY <1>8, ConstantFacts DEF Polls
  <2>2. payload_thread' = payload_thread /\ app' = app BY <1>6
  <2> QED BY <1>1, <1>7, <2>1, <2>2 DEF Control, Thread
<1>25. SlotsApart'
  <2>1. s \notin Unbegun /\ s \in Used BY <1>2, <1>9 DEF Fresh
  <2>2. payload_queue' = payload_queue BY <1>6
  <2> QED BY <1>1, <1>7, <1>8, <1>18, <2>1, <2>2 DEF SlotsApart
<1>26. PayloadsApart'
  <2>1. accepted_count' = accepted_count /\ accepted' = accepted BY <1>6
  <2>2. \A t \in Used : payload_states'[t].payload = payload_states[t].payload BY <1>2, <1>3
  <2> QED BY <1>1, <1>7, <2>1, <2>2 DEF PayloadsApart
<1>27. FreshIsNew'
  <2>1. \A t \in Fresh : payload_states'[t] = payload_states[t]
    <3>1. Unbegun \subseteq Slot /\ Hand \in Slot \cup {None} BY <1>1, SetsTyped
    <3>2. Doing = "WorkReceived" => Hand # None BY <1>1 DEF Control
    <3>3. Fresh \subseteq Slot BY <3>1, <3>2 DEF Fresh
    <3> QED BY <1>2, <3>3
  <2> QED BY <1>1, <1>7, <2>1 DEF Core, FreshIsNew
<1>28. PacketsBelong'
  <2>1. \A v \in Moving' : /\ StateOf(v)' \in Live' \ Fresh'
          /\ work_requests'[v].payload_num = payload_states'[StateOf(v)'].payload_num
    <3> TAKE v \in Moving'
    <3>1. StateOf(v) \in Live \ Fresh /\ StateOf(v) # s /\ StateOf(v)' = StateOf(v)
          /\ work_requests'[v] = work_requests[v]
          /\ work_requests[v].payload_num = payload_states[StateOf(v)].payload_num
      BY <1>11, <1>12, <1>13, <1>19 DEF PacketsBelong
    <3>2. payload_states'[StateOf(v)] = payload_states[StateOf(v)] BY <1>2, <1>3, <3>1
    <3> QED BY <1>7, <1>9, <3>1, <3>2
  <2>2. \A v \in ToSet(List)' : StateOf(v)' = Hand'
    <3> TAKE v \in ToSet(List)'
    <3>1. v \in ToSet(List) BY <1>7
    <3>2. v # w BY <1>1, <1>2, <3>1 DEF Core, LinesApart
    <3>3. v \in WorkRequest BY <1>3, <3>1, MovingIs
    <3> QED BY <1>7, <1>12, <1>13, <3>1, <3>2, <3>3 DEF PacketsBelong
  <2>3. \A f \in Endpoint : \A v \in Sent(f)' : payload_states'[StateOf(v)'].endpoint = f
    <3> TAKE f \in Endpoint
    <3> TAKE v \in Sent(f)'
    <3>1. v \in Sent(f) /\ v # w /\ v \in Moving BY <1>2, MovingIs
    <3>2. StateOf(v)' = StateOf(v) BY <1>3, <1>12, <3>1
    <3>3. StateOf(v) \in Slot /\ payload_states[StateOf(v)].endpoint = f
      BY <1>3, <1>13, <3>1 DEF PacketsBelong
    <3> QED BY <1>2, <3>2, <3>3
  <2> QED BY <2>1, <2>2, <2>3 DEF PacketsBelong
<1>29. RequestsApart'
  <2>1. \A t \in Live' :
       /\ IsInjective(payload_states'[t].completed)
       /\ Completed(t)' \subseteq Holder'
       /\ Completed(t)' \cap (Moving' \cup Freed' \cup {Request'}) = {}
       /\ \A v \in Completed(t)' : StateOf(v)' = t
    <3> TAKE t \in Live'
    <3>1. t \in Live /\ t \in Slot /\ t # s BY <1>3, <1>9
    <3>2. /\ IsInjective(payload_states[t].completed)
          /\ Completed(t) \subseteq Holder
          /\ Completed(t) \cap (Moving \cup Freed \cup {Request}) = {}
          /\ \A v \in Completed(t) : StateOf(v) = t
      BY <1>13, <3>1 DEF RequestsApart
    <3>3. payload_states'[t].completed = payload_states[t].completed
          /\ Completed(t)' = Completed(t)
      BY <1>2, <1>20, <3>1
    <3>4. IsInjective(payload_states'[t].completed) BY <3>2, <3>3
    <3>5. Completed(t) \cap Completed(s) = {} /\ w \notin Completed(t)
      BY <1>2, <1>14, <3>1, <3>2
    <3>6. Completed(t)' \cap (Moving' \cup Freed' \cup {Request'}) = {}
      BY <1>2, <1>7, <1>15, <3>2, <3>3, <3>5
    <3>7. Completed(t) \subseteq WorkRequest BY <1>1, <3>1, SetsTyped
    <3>8. \A v \in Completed(t)' : StateOf(v)' = t BY <1>12, <3>2, <3>3, <3>5, <3>7
    <3> QED BY <1>7, <3>2, <3>3, <3>4, <3>6, <3>8
  <2>2. Moving' \cap Freed' = {} /\ Moving' \cup Freed' \subseteq Holder'
        /\ Request' \notin Moving' \cup Freed'
    BY <1>2, <1>7, <1>13, <1>14, <1>15 DEF RequestsApart
  <2>3. Request' # None => Request' \in Holder' BY <1>7, <1>13 DEF RequestsApart
  <2> QED BY <1>15, <2>1, <2>2, <2>3 DEF RequestsApart
<1>30. NothingLeaks'
  <2> DEFINE C == UNION {Completed(t) : t \in Live}
  <2> DEFINE D == UNION {Completed(t)' : t \in Live'}
  <2>1. C = D \cup Completed(s)
    <3>1. \A v : v \in C <=> \E t \in Live : v \in Completed(t) OBVIOUS
    <3>2. \A v : v \in D <=> \E t \in Live \ {s} : v \in Completed(t)' BY <1>9
    <3>3. \A t \in Live \ {s} : Completed(t)' = Completed(t) BY <1>3, <1>20
    <3>4. \A v : v \in C <=> v \in D \/ v \in Completed(s) BY <1>2, <3>1, <3>2, <3>3
    <3> HIDE DEF C, D
    <3> QED BY <3>4
  <2>2. Undisturbed => Holder = Moving \cup Freed \cup Held \cup C
    BY <1>13 DEF NothingLeaks
  <2>3. NothingLeaks' <=> (Undisturbed' => Holder' = Moving' \cup Freed' \cup Held' \cup D)
    BY DEF NothingLeaks
  <2>4. Held' = Held BY <1>7 DEF Held
  <2> HIDE DEF C, D
  <2> QED BY <1>2, <1>7, <1>15, <1>21, <2>1, <2>2, <2>3, <2>4
<1>31. PacketsCounted'
  <2>1. \A t \in Live' :
       /\ payload_states'[t].transferred = Len(payload_states'[t].completed)
       /\ Made(t)' <= Size(t)'
       /\ payload_states'[t].transferred + Cardinality(Mine(t)') <= Made(t)'
       /\ t \notin Fresh' \cup {Hand'} => Made(t)' = Size(t)'
    <3> TAKE t \in Live'
    <3>1. t \in Live /\ t \in Slot /\ t # s BY <1>3, <1>9
    <3>2. payload_states'[t] = payload_states[t] /\ Mine(t)' = Mine(t) /\ Made(t)' = Made(t)
          /\ Size(t)' = Size(t)
      BY <1>2, <1>19, <1>20, <3>1
    <3> QED BY <1>7, <1>13, <3>1, <3>2 DEF PacketsCounted
  <2>2. ASSUME Doing # "Idle"
        PROVE  Made(Hand)' = Made(Hand) /\ Size(Hand)' = Size(Hand)
    <3>1. Hand \in Slot BY <1>1, <2>2, SetsTyped DEF Control
    <3> QED BY <1>2, <1>7, <3>1 DEF Made, Size
  <2> QED BY <1>7, <1>13, <2>1, <2>2 DEF PacketsCounted
<1>32. LastIsLast'
  <2> SUFFICES ASSUME NEW t \in Live'
               PROVE  /\ \A v, u \in Mine(t)' \cup Completed(t)' :
                           work_requests'[v].last /\ work_requests'[u].last => v = u
                      /\ Made(t)' < Size(t)' =>
                           \A v \in Mine(t)' \cup Completed(t)' : ~work_requests'[v].last
                      /\ Undisturbed' /\ Made(t)' = Size(t)' =>
                           \E v \in Mine(t)' \cup Completed(t)' : work_requests'[v].last
    BY DEF LastIsLast
  <2>1. t \in Live /\ t \in Slot /\ t # s BY <1>3, <1>9
  <2>2. Mine(t)' = Mine(t) /\ Completed(t)' = Completed(t) /\ Made(t)' = Made(t)
        /\ Size(t)' = Size(t)
    BY <1>19, <1>20, <2>1
  <2>3. \A v \in Mine(t) \cup Completed(t) : work_requests'[v].last = work_requests[v].last
    <3>1. Mine(t) \subseteq WorkRequest /\ Completed(t) \subseteq WorkRequest
      BY <1>1, <1>3, <2>1, SetsTyped DEF Mine
    <3> QED BY <1>11, <3>1
  <2>4. /\ \A v, u \in Mine(t) \cup Completed(t) :
               work_requests[v].last /\ work_requests[u].last => v = u
        /\ Made(t) < Size(t) => \A v \in Mine(t) \cup Completed(t) : ~work_requests[v].last
        /\ Undisturbed /\ Made(t) = Size(t) =>
               \E v \in Mine(t) \cup Completed(t) : work_requests[v].last
    BY <1>13, <2>1 DEF LastIsLast
  <2> QED BY <1>21, <2>2, <2>3, <2>4
<1>33. Counted'
  <2>1. \A v \in Moving' : StateOf(v)' = StateOf(v) /\ StateOf(v) \in Slot
          /\ payload_states'[StateOf(v)].endpoint = payload_states[StateOf(v)].endpoint
    BY <1>2, <1>3, <1>12, <1>13, <1>19 DEF PacketsBelong
  <2>2. \A f \in Endpoint : OnWay(f)' = OnWay(f) \ {w} BY <1>2, <2>1 DEF OnWay
  <2>3. w \in OnWay(e) /\ \A f \in Endpoint \ {e} : w \notin OnWay(f) BY <1>2 DEF OnWay
  <2>4. \A f \in Endpoint : \A t \in Live \ {s} : t \in BegunAt(f)' <=> t \in BegunAt(f)
    <3>1. \A t \in Live \ {s} :
             /\ Completed(t)' = Completed(t) /\ Completed(t) \subseteq WorkRequest
             /\ payload_states'[t].endpoint = payload_states[t].endpoint
      BY <1>1, <1>2, <1>3, <1>20, SetsTyped
    <3> QED BY <1>7, <1>9, <1>11, <3>1 DEF BegunAt
  <2>5. \A f \in Endpoint : BegunAt(f)' \subseteq Live \ {s} /\ BegunAt(f) \subseteq Live
    BY <1>9 DEF BegunAt
  <2>6. \A f \in Endpoint \ {e} : s \notin BegunAt(f) BY <1>2 DEF BegunAt
  <2>7. \A f \in Endpoint \ {e} : BegunAt(f)' = BegunAt(f) BY <2>4, <2>5, <2>6
  <2>8. BegunAt(e)' = BegunAt(e) \ {s} BY <2>4, <2>5
  <2>9. s \in BegunAt(e) <=> \A v \in Completed(s) : ~work_requests[v].last
    BY <1>2 DEF BegunAt, Fresh
  <2>10. Kinds /\ Counted BY <1>1 DEF Core
  <2>11. w \in Mine(s) \cup Completed(s) /\ Completed(s) \subseteq Mine(s) \cup Completed(s)
    BY <1>17
  <2>12. CASE work_requests[w].last
    <3>1. \A v \in Completed(s) : ~work_requests[v].last
      BY <1>2, <1>13, <1>14, <2>11, <2>12 DEF LastIsLast
    <3>2. s \in BegunAt(e) BY <2>9, <3>1
    <3>3. References(w) = 2 BY <2>12 DEF References
    <3>4. /\ tx_in_flight_ref_count'[e] = tx_in_flight_ref_count[e] - 2
          /\ \A f \in Endpoint \ {e} : tx_in_flight_ref_count'[f] = tx_in_flight_ref_count[f]
      BY <1>2, <3>3
    <3>5. 2 \in {1, 2} OBVIOUS
    <3> QED BY <1>21, <2>2, <2>3, <2>7, <2>8, <2>10, <3>2, <3>4, <3>5, ReferencesDropped
  <2>13. CASE ~work_requests[w].last
    <3>1. ASSUME Undisturbed' PROVE BegunAt(e)' = BegunAt(e)
      <4>1. \E v \in Mine(s) \cup Completed(s) : work_requests[v].last
        BY <1>2, <1>13, <1>17, <1>21, <3>1 DEF LastIsLast
      <4>2. \E v \in Completed(s) : work_requests[v].last BY <1>17, <2>13, <4>1
      <4>3. s \notin BegunAt(e) BY <2>9, <4>2
      <4> QED BY <2>8, <4>3
    <3>2. References(w) = 1 BY <2>13 DEF References
    <3>3. /\ tx_in_flight_ref_count'[e] = tx_in_flight_ref_count[e] - 1
          /\ \A f \in Endpoint \ {e} : tx_in_flight_ref_count'[f] = tx_in_flight_ref_count[f]
      BY <1>2, <3>2
    <3>4. 1 \in {1, 2} OBVIOUS
    <3> QED BY <1>21, <2>2, <2>3, <2>7, <2>10, <3>1, <3>3, <3>4, ReferencesDropped
  <2> QED BY <2>12, <2>13
<1>34. EntriesKeptTrack' BY <1>1, <1>6, <1>7, EntriesFrame DEF Core
<1>35. SourceEntriesHavePlaces' BY <1>1, <1>6, <1>10, SourceFrame DEF Placed
<1>36. ToldOnce'
  <2>1. \A t \in Holding : payload_states'[t].payload = payload_states[t].payload
    BY <1>2, <1>3 DEF Holding, Used
  <2> QED BY <1>1, <1>6, <1>10, <2>1 DEF Placed, ToldOnce
<1>37. Core'
  BY <1>2, <1>27, <1>28, <1>29, <1>30, <1>31, <1>32, <1>33, <1>34 DEF Core
<1> QED BY <1>22, <1>23, <1>24, <1>25, <1>26, <1>35, <1>36, <1>37 DEF IInv, Placed

(* Every completion keeps the invariant.                                   *)
LEMMA CompleteStep ==
  ASSUME IInv, NEW w \in WorkRequest, NEW result \in AckResults, CompletePacket(w, result)
  PROVE  IInv'
<1> DEFINE a == payload_states[StateOf(w)].transferred + 1
<1> DEFINE b == Size(StateOf(w))
<1>1. a \in Int /\ b \in Int
  <2>1. PICK e \in Endpoint, s \in Slot : s = StateOf(w) /\ s \in Live
    BY PacketCompleted
  <2>2. Kinds /\ PayloadsApart /\ s \in Used BY <2>1 DEF IInv, Placed, Live
  <2>3. payload_states[s].payload \in 1 .. accepted_count BY <2>2 DEF PayloadsApart
  <2>4. accepted_count \in 0 .. Len(Packets) /\ Len(Packets) \in Nat
    BY <2>2, ConstantFacts DEF Kinds, ReturnKind
  <2>5. payload_states[s].payload \in Payload BY <2>3, <2>4 DEF Payload
  <2>6. b \in Int BY <2>1, <2>5, ConstantFacts DEF Size
  <2>7. a \in Int BY <2>1, <2>2 DEF Kinds, StateKind
  <2> QED BY <2>6, <2>7
<1>2. CASE a < b BY <1>2, CompletedStays
<1>3. CASE a >= b BY <1>3, CompletedGoes
<1>4. a < b \/ a >= b
  <2> HIDE DEF a, b
  <2> QED BY <1>1
<1> QED BY <1>2, <1>3, <1>4

-----------------------------------------------------------------------------
(* The invariant, and what follows from it.                                *)

(* The invariant holds at the start.                                       *)
LEMMA InitIsPlaced ==
  ASSUME Init
  PROVE  IInv
<1>1. /\ app = [a \in App |-> [pc |-> "idle", endpoint |-> 1, slot |-> None]]
      /\ accepted_count = 0 /\ payload_queue = <<>>
      /\ payload_states = [s \in Slot |-> NewPayloadState(None, 1)]
      /\ payload_state_pool = CdiPoolCreate(Numbers(MaxTxPayloads))
      /\ payload_sgl_entries = PayloadSglEntries
      /\ payload_thread = [pc |-> "wait", state |-> "Idle", slot |-> None,
                       request |-> None, entries |-> 0, list |-> <<>>,
                       batch |-> 1, last |-> FALSE]
      /\ work_requests = [w \in WorkRequest |->
           [payload_state |-> None, payload_num |-> 0, last |-> FALSE]]
      /\ work_request_pool = CdiPoolCreate(Numbers(WorkRequests))
      /\ packet_sgl_entries = PacketSglEntries /\ work_req_comp_queue = <<>>
  BY DEF Init
<1>2. /\ tx_packet_queue = [e \in Endpoint |-> <<>>]
      /\ tx_packet_waiting_list = [e \in Endpoint |-> <<>>]
      /\ in_flight = [e \in Endpoint |-> {}]
      /\ tx_in_flight_ref_count = [e \in Endpoint |-> 0]
      /\ tx_poll_do_work_signal = FALSE
      /\ poll_thread = [pc |-> "endpoint", left |-> EndpointList, packet |-> None,
                    idle |-> TRUE, slot |-> None]
      /\ app_payload_message_queue = <<>> /\ payload_num = [e \in Endpoint |-> 0]
      /\ connection = [e \in Endpoint |-> "Connected"] /\ command = [e \in Endpoint |-> None]
      /\ accepted = {} /\ returned = [p \in Payload |-> <<>>]
  BY DEF Init
<1>3. 1 \in Endpoint BY ConstantFacts DEF Endpoint
<1>4. PoolKind(payload_state_pool, Slot) /\ Used = {}
      /\ PoolKind(work_request_pool, WorkRequest) /\ Holder = {}
  BY <1>1, ConstantFacts, PoolCreated DEF Slot, WorkRequest, Used, Holder
<1>5. Hand = None /\ Doing = "Idle" /\ Request = None /\ List = <<>> /\ Parked = None
      /\ Live = {} /\ Held = {} /\ Freed = {} /\ ToSet(List) = {} /\ IsInjective(List)
      /\ ToSet(payload_queue) = {} /\ \A a \in App : AppSlot[a] = None
  BY <1>1, <1>2, <1>4, ItemsOfNone
     DEF Hand, Doing, Request, List, Parked, Live, Held, Freed, AppSlot
<1>6. Calling = {} /\ Unbegun = {} /\ Fresh = {} BY <1>5 DEF Calling, Unbegun, Fresh
<1>7. \A e \in Endpoint : Queued(e) = {} /\ in_flight[e] = {} /\ Sent(e) = {}
  BY <1>2, EmptyLine, QueuedIs DEF Sent
<1>8. Moving = {} BY <1>5, <1>7, MovingIs
<1>9. Kinds
  <2>1. AppKind BY <1>1, <1>3 DEF AppKind
  <2>2. StateKind
    <3>1. <<>> \in Seq(WorkRequest) /\ <<>> \in Seq(Slot) OBVIOUS
    <3>2. NewPayloadState(None, 1) \in
       [payload : Payload \cup {None}, endpoint : Endpoint, payload_num : Int,
                 packet_sequence_num : Nat, transferred : Nat,
                 completed : Seq(WorkRequest)]
      BY <1>3, <3>1 DEF NewPayloadState
    <3> QED BY <1>1, <1>4, <3>1, <3>2 DEF StateKind
  <2>3. ThreadKind BY <1>1 DEF ThreadKind, States
  <2>4. RequestKind BY <1>1, <1>4, ConstantFacts DEF RequestKind
  <2>5. LineKind BY <1>2 DEF LineKind
  <2>6. PollKind BY <1>2, LeftFacts DEF PollKind
  <2>7. ReturnKind BY <1>1, <1>2, ConstantFacts DEF ReturnKind
  <2> QED BY <2>1, <2>2, <2>3, <2>4, <2>5, <2>6, <2>7 DEF Kinds
<1>10. Calm BY <1>2 DEF Calm, Connected
<1>11. Control
  <2>1. \A a \in App : AppSlot[a] = None /\ app[a].pc # "push" BY <1>1, <1>5
  <2>2. payload_thread.pc = "wait" /\ payload_thread.entries = 0 /\ poll_thread.pc = "endpoint"
    BY <1>1, <1>2
  <2> QED BY <1>5, <2>1, <2>2, ConstantFacts DEF Control, Thread, Polls
<1>12. SlotsApart BY <1>1, <1>5, <1>6, ItemsOfNone DEF SlotsApart
<1>13. PayloadsApart BY <1>4 DEF PayloadsApart
<1>14. LinesApart
  <2>1. \A e \in Endpoint : Lined(tx_packet_queue[e], tx_packet_waiting_list[e])
    BY <1>2, EmptyLine
  <2> QED BY <1>5, <1>7, <2>1 DEF LinesApart
<1>15. FreshIsNew /\ PacketsBelong BY <1>5, <1>6, <1>7, <1>8 DEF FreshIsNew, PacketsBelong
<1>16. RequestsApart BY <1>1, <1>4, <1>5, <1>8, ItemsOfNone DEF RequestsApart
<1>17. NothingLeaks BY <1>4, <1>5, <1>8 DEF NothingLeaks
<1>18. PacketsCounted /\ LastIsLast BY <1>5 DEF PacketsCounted, LastIsLast
<1>19. Counted
  <2>1. \A e : OnWay(e) = {} /\ BegunAt(e) = {} BY <1>5, <1>8 DEF OnWay, BegunAt
  <2>2. \A e \in Endpoint : tx_in_flight_ref_count[e] = 0 BY <1>2
  <2> QED BY <2>1, <2>2, FS_EmptySet DEF Counted
<1>20. EntriesKeptTrack
  <2>1. Cardinality(Holder) = 0 /\ Cardinality(Held) = 0 BY <1>4, <1>5, FS_EmptySet
  <2>2. packet_sgl_entries = PacketSglEntries /\ payload_thread.entries = 0 BY <1>1
  <2> QED BY <2>1, <2>2, ConstantFacts DEF EntriesKeptTrack
<1>21. SourceEntriesHavePlaces
  <2>1. Holding = {} BY <1>4 DEF Holding, Used
  <2>2. Cardinality(Holding) = 0 /\ Len(app_payload_message_queue) = 0
    BY <1>2, <2>1, FS_EmptySet
  <2> QED BY <1>1, <2>2, ConstantFacts DEF SourceEntriesHavePlaces
<1>22. ToldOnce BY <1>2 DEF ToldOnce
<1>23. Core BY <1>14, <1>15, <1>16, <1>17, <1>18, <1>19, <1>20 DEF Core
<1> QED BY <1>9, <1>10, <1>11, <1>12, <1>13, <1>21, <1>22, <1>23 DEF IInv, Placed

(* A step that changes nothing keeps it.                                   *)
LEMMA StutterKeeps ==
  ASSUME IInv, UNCHANGED vars
  PROVE  IInv'
<1>1. Kinds /\ Control /\ Calm /\ Placed BY DEF IInv
<1>2. UNCHANGED <<app, accepted_count, states, payload_sgl_entries, payload_queue,
          payload_thread, requests, work_req_comp_queue, waiting, in_flight,
          tx_in_flight_ref_count, tx_poll_do_work_signal, poll_thread,
          app_payload_message_queue, payload_num, link, history>>
  BY DEF vars
<1>3. AppSlot' = AppSlot /\ Hand' = Hand /\ Doing' = Doing /\ Parked' = Parked
      /\ Request' = Request /\ List' = List /\ Holding' = Holding
  BY <1>2 DEF AppSlot, Hand, Doing, Parked, Request, List, Holding, Polls, states
<1>4. payload_thread.last' = payload_thread.last
      /\ payload_thread.entries' = payload_thread.entries
  BY <1>2
<1>5. Placed' BY <1>1, <1>2, <1>3, <1>4, QuietFrame DEF link, history
<1>6. Calm' BY <1>1, <1>2 DEF Calm, Connected, link
<1>7. Control' BY <1>1, <1>2, <1>3 DEF Control, Thread, Polls
<1>8. Kinds'
  <2>1. AppKind' /\ StateKind' /\ ThreadKind' /\ RequestKind'
    BY <1>1, <1>2 DEF Kinds, AppKind, StateKind, ThreadKind, RequestKind, requests, states
  <2>2. LineKind' /\ PollKind' /\ ReturnKind'
    BY <1>1, <1>2 DEF Kinds, LineKind, PollKind, ReturnKind, waiting, history
  <2> QED BY <2>1, <2>2 DEF Kinds
<1> QED BY <1>5, <1>6, <1>7, <1>8 DEF IInv

(* A loss is never forgotten.                                              *)
LEMMA LossesGrow ==
  ASSUME losses \in Nat, [Next]_vars
  PROVE  losses' \in Nat /\ (losses' = 0 => losses = 0 /\ UNCHANGED losses)
<1>1. CASE UNCHANGED vars BY <1>1 DEF vars, link
<1>2. CASE AppStep
  BY <1>2 DEF AppStep, Submit, Refuse, GetPayloadState, PushPayload, link
<1>3. CASE InvokeAppCallback BY <1>3 DEF InvokeAppCallback, link
<1>4. CASE PayloadThreadStep
  <2>1. OnlyPayloadThread
    BY <1>4 DEF PayloadThreadStep, TakePayload, SetDoWorkSignal, TakeNotification,
                TakeCompletion, LeaveBarrier, FreeCompleted, Disconnected, GetWorkRequest,
                OutOfEntries, MakePacket, Enqueue
  <2> QED BY <2>1 DEF OnlyPayloadThread, link
<1>5. CASE PollThreadStep
  <2>1. OnlyPollThread
    BY <1>5 DEF PollThreadStep, SendPacket, NothingToSend, CompletePacket, TransferComplete,
                PutPayloadState, NextEndpoint, RecheckReferences, PollAgain
  <2> QED BY <2>1 DEF OnlyPollThread, link
<1>6. CASE ProbeStep
  BY <1>6 DEF ProbeStep, LoseConnection, Establish, QueueCommand
<1>7. CASE ManagerStep BY <1>7 DEF ManagerStep, StartEndpoint, ResetEndpoint
<1> QED BY <1>1, <1>2, <1>3, <1>4, <1>5, <1>6, <1>7 DEF Next

(* Every step of a connection that lasts keeps it.                         *)
LEMMA CalmStep ==
  ASSUME IInv, [Next]_vars, losses' = losses, "Retry" \notin SendResults
  PROVE  IInv'
<1>1. Kinds /\ Control /\ Calm BY DEF IInv
<1>2. ~Notified BY <1>1 DEF Calm, Notified
<1>3. ~Thread("barrier") BY <1>1 DEF Kinds, ThreadKind, Thread
<1>4. CASE UNCHANGED vars BY <1>4, StutterKeeps
<1>5. CASE AppStep
  <2>1. PICK a \in App : Submit(a) \/ Refuse(a) \/ GetPayloadState(a) \/ PushPayload(a)
    BY <1>5 DEF AppStep
  <2> QED BY <2>1, SubmitStep, GetStep, AcceptStep, QueueFullStep
<1>6. CASE InvokeAppCallback BY <1>6, CallbackStep
<1>7. CASE PayloadThreadStep
  <2>1. ~TakeNotification BY <1>2 DEF TakeNotification
  <2>2. ~LeaveBarrier BY <1>3 DEF LeaveBarrier
  <2>3. ~Disconnected
    <3> SUFFICES ASSUME Disconnected PROVE FALSE OBVIOUS
    <3>1. Thread("build") /\ ~Connected(payload_states[Hand].endpoint)
      BY DEF Disconnected, OnTheWay, Hand
    <3>2. Hand # None BY <1>1, <3>1 DEF Control
    <3>3. Hand \in Slot BY <1>1, <3>2, SetsTyped
    <3>4. payload_states[Hand].endpoint \in Endpoint BY <1>1, <3>3 DEF Kinds, StateKind
    <3> QED BY <1>1, <3>1, <3>4 DEF Calm
  <2> QED
    BY <1>7, <2>1, <2>2, <2>3, TakeStep, SignalStep, FreeStep, GetRequestStep,
       OutOfEntriesStep, MakeStep, EnqueueStep DEF PayloadThreadStep
<1>8. CASE PollThreadStep
  BY <1>8, SendStep, PollStep, CompleteStep, TransferStep, PutStep DEF PollThreadStep
<1>9. CASE ProbeStep
  <2>1. PICK e \in Endpoint :
          \/ LoseConnection(e) \/ Establish(e)
          \/ QueueCommand(e, "Lost", "Reset") \/ QueueCommand(e, "Reset", "Start")
    BY <1>9 DEF ProbeStep
  <2>2. connection[e] = "Connected" BY <1>1 DEF Calm, Connected
  <2>3. losses \in Nat => losses + 1 # losses OBVIOUS
  <2>4. LoseConnection(e)
    BY <2>1, <2>2 DEF Establish, QueueCommand
  <2> QED BY <2>3, <2>4 DEF LoseConnection
<1>10. ~ManagerStep BY <1>3 DEF ManagerStep, StartEndpoint, ResetEndpoint, AtBarrier
<1> QED BY <1>4, <1>5, <1>6, <1>7, <1>8, <1>9, <1>10 DEF Next

(* The inductive invariant of a connection that has lasted, for any        *)
(* payloads, pools and queues and any number of application threads: who   *)
(* has each payload state and each work request, whose packets are where,  *)
(* how many are left and which is the last, what is counted, and what the  *)
(* application knows. A send that must be tried again is excluded:         *)
(* DataPoll may lose its packet.                                           *)
THEOREM CalmInvariant ==
  ASSUME "Retry" \notin SendResults
  PROVE  Spec => []CalmIInv
<1>1. Init => CalmIInv
  <2> SUFFICES ASSUME Init PROVE CalmIInv OBVIOUS
  <2>1. losses = 0 BY DEF Init
  <2> QED BY <2>1, InitIsPlaced DEF CalmIInv
<1>2. CalmIInv /\ [Next]_vars => CalmIInv'
  <2> SUFFICES ASSUME CalmIInv, [Next]_vars PROVE CalmIInv' OBVIOUS
  <2>1. losses' \in Nat /\ (losses' = 0 => losses = 0 /\ UNCHANGED losses)
    BY LossesGrow DEF CalmIInv
  <2>2. ASSUME losses' = 0 PROVE IInv'
    <3>1. IInv /\ losses' = losses BY <2>1, <2>2 DEF CalmIInv
    <3> QED BY <3>1, CalmStep
  <2> QED BY <2>1, <2>2 DEF CalmIInv
<1> QED BY <1>1, <1>2, PTL DEF Spec

(* What the invariant says of the places of work requests.                 *)
LEMMA RequestsArePlaced ==
  ASSUME IInv, Undisturbed
  PROVE  WorkRequestsHavePlaces
<1> DEFINE queued == UNION {Queued(e) : e \in Endpoint}
<1> DEFINE flying == UNION {in_flight[e] : e \in Endpoint}
<1> DEFINE completed == UNION {Completed(s) : s \in Holding \ {poll_thread.slot}}
<1>1. Kinds /\ Control /\ Core /\ LinesApart /\ RequestsApart /\ PacketsBelong
  BY DEF IInv, Placed, Core
<1>2. Building = ToSet(List)
  <2>1. ~Thread("barrier") BY <1>1 DEF Kinds, ThreadKind, Thread
  <2>2. Doing \in {"Idle", "WorkReceived"} => ToSet(List) = {}
    BY <1>1, ItemsOfNone DEF Control
  <2> QED BY <2>1, <2>2 DEF Building, Doing, List
<1>3. InHand = Held
  <2>1. Request = None <=> Doing # "Packetizing" BY <1>1 DEF Control
  <2> QED BY <2>1 DEF InHand, Held, Request, Doing
<1>4. Holding \ {poll_thread.slot} = Live BY DEF Holding, Live, Used, Parked
<1>5. completed = UNION {Completed(s) : s \in Live} BY <1>4
<1>6. /\ \A w : w \in queued <=> \E e \in Endpoint : w \in Queued(e)
      /\ \A w : w \in flying <=> \E e \in Endpoint : w \in in_flight[e]
      /\ \A w : w \in completed <=> \E s \in Live : w \in Completed(s)
  BY <1>5
<1> HIDE DEF queued, flying, completed
<1>7. Moving = ToSet(List) \cup queued \cup flying
  <2>1. \A w : w \in Moving <=> w \in ToSet(List) \/ w \in queued \/ w \in flying
    BY <1>6, MovingIs DEF Sent
  <2> QED BY <2>1
<1>8. ToSet(List) \cap queued = {} /\ ToSet(List) \cap flying = {} /\ queued \cap flying = {}
  <2>1. \A e \in Endpoint : Queued(e) \cap in_flight[e] = {} /\ ToSet(List) \cap Sent(e) = {}
    BY <1>1 DEF LinesApart
  <2>2. \A e, f \in Endpoint : \A w : w \in Sent(e) /\ w \in Sent(f) => e = f
    BY <1>1 DEF PacketsBelong
  <2>3. \A e \in Endpoint : Queued(e) \subseteq Sent(e) /\ in_flight[e] \subseteq Sent(e)
    BY DEF Sent
  <2> QED BY <1>6, <2>1, <2>2, <2>3
<1>9. Moving \cap Freed = {} /\ Moving \cap Held = {} /\ Freed \cap Held = {}
      /\ completed \cap (Moving \cup Freed \cup Held) = {}
  <2>1. Moving \cap Freed = {} /\ Request \notin Moving \cup Freed BY <1>1 DEF RequestsApart
  <2>2. \A s \in Live : Completed(s) \cap (Moving \cup Freed \cup {Request}) = {}
    BY <1>1 DEF RequestsApart
  <2> QED BY <1>6, <2>1, <2>2 DEF Held
<1>10. Holder = ToSet(List) \cup Held \cup queued \cup flying \cup Freed \cup completed
  <2>1. Holder = Moving \cup Freed \cup Held \cup completed
    BY <1>1, <1>5 DEF Core, NothingLeaks
  <2> QED BY <1>7, <2>1
<1>11. IsFiniteSet(Holder) BY <1>1, SetsTyped
<1> DEFINE B == ToSet(List)
<1> DEFINE BH == B \cup Held
<1> DEFINE BHQ == BH \cup queued
<1> DEFINE BHQF == BHQ \cup flying
<1> DEFINE BHQFR == BHQF \cup Freed
<1>12. /\ IsFiniteSet(B) /\ IsFiniteSet(Held) /\ IsFiniteSet(queued) /\ IsFiniteSet(flying)
       /\ IsFiniteSet(Freed) /\ IsFiniteSet(completed)
  <2>1. /\ B \subseteq Holder /\ Held \subseteq Holder /\ queued \subseteq Holder
        /\ flying \subseteq Holder /\ Freed \subseteq Holder /\ completed \subseteq Holder
    BY <1>10
  <2> QED BY <1>11, <2>1, FS_Subset
<1>13. /\ B \cap Held = {} /\ BH \cap queued = {} /\ BHQ \cap flying = {}
       /\ BHQF \cap Freed = {} /\ BHQFR \cap completed = {}
  BY <1>7, <1>8, <1>9
<1>14. Holder = BHQFR \cup completed BY <1>10
<1> HIDE DEF B
<1>15. IsFiniteSet(BH) /\ Cardinality(BH) = Cardinality(B) + Cardinality(Held)
  BY <1>12, <1>13, DisjointUnion
<1> HIDE DEF BH
<1>16. IsFiniteSet(BHQ) /\ Cardinality(BHQ) = Cardinality(BH) + Cardinality(queued)
  BY <1>12, <1>13, <1>15, DisjointUnion
<1> HIDE DEF BHQ
<1>17. IsFiniteSet(BHQF) /\ Cardinality(BHQF) = Cardinality(BHQ) + Cardinality(flying)
  BY <1>12, <1>13, <1>16, DisjointUnion
<1> HIDE DEF BHQF
<1>18. IsFiniteSet(BHQFR) /\ Cardinality(BHQFR) = Cardinality(BHQF) + Cardinality(Freed)
  BY <1>12, <1>13, <1>17, DisjointUnion
<1> HIDE DEF BHQFR
<1>19. Cardinality(Holder) = Cardinality(BHQFR) + Cardinality(completed)
  BY <1>12, <1>13, <1>14, <1>18, DisjointUnion
<1>20. Cardinality(Holder) = Cardinality(B) + Cardinality(Held) + Cardinality(queued)
         + Cardinality(flying) + Cardinality(Freed) + Cardinality(completed)
  BY <1>15, <1>16, <1>17, <1>18, <1>19
<1>21. packet_sgl_entries + payload_thread.entries
           + EntriesPerPacket * (Cardinality(Holder) - Cardinality(Held)) = PacketSglEntries
  BY <1>1 DEF Core, EntriesKeptTrack
<1>22. Holder = InUse(work_request_pool) /\ Freed = ToSet(work_req_comp_queue)
       /\ Building = B /\ InHand = Held
  BY <1>2, <1>3 DEF Holder, Freed, B
<1>23. queued = UNION {Queued(e) : e \in Endpoint}
       /\ flying = UNION {in_flight[e] : e \in Endpoint}
       /\ completed = UNION {Completed(s) : s \in Holding \ {poll_thread.slot}}
  BY DEF queued, flying, completed
<1>24. Holder = B \cup Held \cup queued \cup flying \cup Freed \cup completed
  BY <1>10 DEF B
<1> QED BY <1>20, <1>21, <1>22, <1>23, <1>24 DEF WorkRequestsHavePlaces

(* The property and the invariant count the same packets.                  *)
LEMMA ItsWayIs ==
  ASSUME IInv
  PROVE  /\ \A e \in Endpoint : OnItsWay(e) = OnWay(e)
         /\ \A e : Begun(e) = BegunAt(e)
<1>1. Kinds /\ Control /\ Core /\ PacketsBelong
  BY DEF IInv, Placed, Core
<1>2. Building = ToSet(List)
  <2>1. ~Thread("barrier") BY <1>1 DEF Kinds, ThreadKind, Thread
  <2>2. Doing \in {"Idle", "WorkReceived"} => ToSet(List) = {}
    BY <1>1, ItemsOfNone DEF Control
  <2> QED BY <2>1, <2>2 DEF Building, Doing, List
<1>3. \A e \in Endpoint : OnItsWay(e) = OnWay(e)
  <2> TAKE e \in Endpoint
  <2>1. \A w : w \in OnItsWay(e) <=>
          w \in Sent(e) \/ (w \in ToSet(List) /\ payload_states[StateOf(w)].endpoint = e)
    BY <1>2 DEF OnItsWay, Sent, StateOf
  <2>2. \A w : w \in OnWay(e) <=> w \in Moving /\ payload_states[StateOf(w)].endpoint = e
    BY DEF OnWay
  <2>3. \A f \in Endpoint : \A w \in Sent(f) : payload_states[StateOf(w)].endpoint = f
    BY <1>1 DEF PacketsBelong
  <2>4. \A w : w \in OnItsWay(e) <=> w \in OnWay(e) BY <2>1, <2>2, <2>3, MovingIs
  <2>5. OnWay(e) \subseteq Moving BY DEF OnWay
  <2>6. OnItsWay(e) = {w \in Moving : w \in OnWay(e)}
    <3>1. \A w : w \in OnItsWay(e) <=> w \in {v \in Moving : v \in OnWay(e)}
      BY <2>4, <2>5
    <3> HIDE DEF Moving
    <3> QED BY <3>1 DEF OnItsWay
  <2> QED BY <2>5, <2>6
<1>4. \A e : Begun(e) = BegunAt(e)
  <2>1. Holding \ {poll_thread.slot} = Live BY DEF Holding, Live, Used, Parked
  <2>2. None \notin Live BY <1>1, SetsTyped, ConstantFacts
  <2>3. \A s \in Live : s \notin Unbegun <=>
          s \notin ToSet(payload_queue) /\ \A a \in App : app[a].slot # s
    BY <2>2 DEF Unbegun, Calling, AppSlot
  <2> QED BY <2>1, <2>3 DEF Begun, BegunAt
<1> QED BY <1>3, <1>4

(* The invariant has what the run checks of the resources ...              *)
LEMMA PlacedIsConserved ==
  ASSUME CalmIInv
  PROVE  ResourcesAreConserved
<1> SUFFICES ASSUME Undisturbed
             PROVE  SourceEntriesHavePlaces /\ WorkRequestsHavePlaces /\ ReferenceCountIsExact
  BY DEF ResourcesAreConserved
<1>1. IInv BY DEF CalmIInv, Undisturbed
<1>2. SourceEntriesHavePlaces BY <1>1 DEF IInv, Placed
<1>3. Counted BY <1>1 DEF IInv, Placed, Core
<1>4. ReferenceCountIsExact BY <1>1, <1>3, ItsWayIs DEF Counted, ReferenceCountIsExact
<1> QED BY <1>1, <1>2, <1>4, RequestsArePlaced

(* ... of the packets ...                                                  *)
LEMMA PlacedBelong ==
  ASSUME IInv
  PROVE  PacketsBelongToPayloads
<1>1. Kinds /\ PacketsBelong /\ RequestsApart BY DEF IInv, Placed, Core
<1> SUFFICES ASSUME NEW e \in Endpoint, NEW w \in OnItsWay(e)
             PROVE  /\ w \in Holder /\ StateOf(w) \in Used
                    /\ payload_states[StateOf(w)].endpoint = e
                    /\ payload_states[StateOf(w)].payload_num = work_requests[w].payload_num
  BY DEF PacketsBelongToPayloads, Holder, Used, StateOf
<1>2. w \in Moving /\ payload_states[StateOf(w)].endpoint = e BY ItsWayIs DEF OnWay
<1> QED BY <1>1, <1>2, SetsTyped DEF PacketsBelong, RequestsApart

(* ... and of what the application is told.                                *)
LEMMA ToldIsOnce ==
  ASSUME IInv
  PROVE  ReturnsOnce
<1>1. Kinds /\ ToldOnce BY DEF IInv, Placed
<1> SUFFICES ASSUME NEW p \in Payload
             PROVE  /\ Len(returned[p])
                         + Cardinality({i \in DOMAIN app_payload_message_queue :
                              app_payload_message_queue[i].payload = p}) <= 1
                    /\ returned[p] # <<>> => p \in accepted
  BY DEF ReturnsOnce
<1> DEFINE I == {i \in DOMAIN app_payload_message_queue :
                              app_payload_message_queue[i].payload = p}
<1>2. returned[p] # <<>> => Len(returned[p]) = 1 /\ p \in accepted BY <1>1 DEF ToldOnce
<1>3. \A i \in I : returned[p] = <<>> BY <1>1 DEF ToldOnce
<1>4. \A i, j \in I : i = j BY <1>1 DEF ToldOnce
<1> HIDE DEF I
<1>5. CASE I = {}
  <2>1. Cardinality(I) = 0 BY <1>5, FS_EmptySet
  <2>2. Len(<<>>) = 0 OBVIOUS
  <2>3. Len(returned[p]) = 0 \/ Len(returned[p]) = 1
    <3>1. CASE returned[p] = <<>> BY <2>2, <3>1
    <3>2. CASE returned[p] # <<>> BY <1>2, <3>2
    <3> QED BY <3>1, <3>2
  <2>4. Len(returned[p]) + Cardinality(I) <= 1
    <3> DEFINE n == Len(returned[p])
    <3> DEFINE c == Cardinality(I)
    <3>1. c = 0 /\ (n = 0 \/ n = 1) BY <2>1, <2>3
    <3> HIDE DEF n, c
    <3>2. n + c <= 1 BY <3>1
    <3> QED BY <3>2 DEF n, c
  <2> QED BY <1>2, <2>4 DEF I
<1>6. CASE I # {}
  <2>1. PICK i : i \in I BY <1>6
  <2>2. I = {i} BY <1>4, <2>1
  <2>3. Cardinality(I) = 1 BY <2>2, FS_Singleton
  <2>4. returned[p] = <<>> BY <1>3, <2>1
  <2>5. Len(returned[p]) = 0 BY <2>4
  <2>6. Len(returned[p]) + Cardinality(I) <= 1 BY <2>3, <2>5
  <2> QED BY <1>2, <2>6 DEF I
<1> QED BY <1>5, <1>6

(* As long as the connection lasts and every packet is sent and            *)
(* acknowledged, no source entry, work request or packet entry is lost or  *)
(* held twice, and the reference count that PollThread sleeps and flushes  *)
(* by is the number of packets and payloads it stands for.                 *)
THEOREM NothingIsLostOrDoubled ==
  ASSUME "Retry" \notin SendResults
  PROVE  Spec => []ResourcesAreConserved
<1>1. CalmIInv => ResourcesAreConserved BY PlacedIsConserved
<1> QED BY <1>1, CalmInvariant, PTL

(* As long as the connection lasts, a packet on its way has a work request *)
(* and a payload state in use, those of its own payload, although the poll *)
(* thread returns them to the pools while the payload thread takes new     *)
(* ones.                                                                   *)
THEOREM PacketsBelongUntilALoss ==
  ASSUME "Retry" \notin SendResults
  PROVE  Spec => [](losses = 0 => PacketsBelongToPayloads)
<1>1. CalmIInv => (losses = 0 => PacketsBelongToPayloads) BY PlacedBelong DEF CalmIInv
<1> QED BY <1>1, CalmInvariant, PTL

(* As long as the connection lasts, the application is called at most once *)
(* for a payload, and for none it was told had been refused, also when     *)
(* sends or acknowledgements fail.                                         *)
THEOREM ReturnsOnceUntilALoss ==
  ASSUME "Retry" \notin SendResults
  PROVE  Spec => [](losses = 0 => ReturnsOnce)
<1>1. CalmIInv => (losses = 0 => ReturnsOnce) BY ToldIsOnce DEF CalmIInv
<1> QED BY <1>1, CalmInvariant, PTL
=============================================================================

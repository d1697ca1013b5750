----------------------------- MODULE OsSignals ------------------------------
(***************************************************************************)
(* Signals on Linux (os_linux.c): manual-reset events built from a mutex,  *)
(* a condition variable and a counter, and the wait for any of several.    *)
(* Every thread of the SDK sleeps in one of these two waits.               *)
(*                                                                         *)
(* CdiOsSignalsWait sleeps on the condition of its first signal and enters *)
(* that signal in other_sigs_ptr_array of the rest without taking their    *)
(* mutexes; CdiOsSignalSet wakes its own sleepers, and then those of every *)
(* signal entered.  CdiOsSignalWait is the wait for an array of one.       *)
(*                                                                         *)
(* signal_count holds a counter and, in its lowest bit, the state: they    *)
(* are number and active here.  The read-modify-write of CdiOsSignalSet is *)
(* one step, because a CdiOsSignalClear in the middle is overwritten and   *)
(* so comes before it.                                                     *)
(***************************************************************************)
EXTENDS Integers, Sequences, FiniteSets

CONSTANTS
  Threads,
  Signals,
  Arrays,             \* Arrays[t]: what thread t waits for
  MaxThreadsWaiting,  \* MAX_THREADS_WAITING
  MaxSets, MaxWaits,  \* bounds on calls of CdiOsSignalSet and of the waits
  None

ASSUME SignalsAssumption ==
  /\ Arrays \in [Threads -> SUBSET Seq(Signals)]
  /\ \A t \in Threads : \A a \in Arrays[t] :
       /\ Len(a) > 0
       /\ \A m, n \in 1 .. Len(a) : a[m] = a[n] => m = n
  /\ MaxThreadsWaiting \in Nat \ {0}
  /\ MaxSets \in Nat /\ MaxWaits \in Nat
  /\ None \notin Signals \cup Threads

VARIABLES
  number,    \* signal_count without its lowest bit
  active,    \* its lowest bit
  others,    \* num_other_sigs
  slots,     \* other_sigs_ptr_array
  mutex,     \* the thread that has locked the mutex
  pc,        \* where each thread is
  array,     \* signal_array
  seen,      \* signal_count_array
  i,         \* the signal of the array, or the slot, a thread is at
  j,         \* the slot a thread registers in or leaves
  sets,      \* calls of CdiOsSignalSet so far
  waits,     \* and of the waits
  failed,    \* the threads whose wait has found no place
  overflow   \* such a wait has been

vars == <<number, active, others, slots, mutex, pc, array, seen, i, j, sets,
          waits, failed, overflow>>
book == <<sets, waits, failed, overflow>>

Slots == 1 .. MaxThreadsWaiting
First(t) == array[t][1]
This(t) == array[t][i[t]]
Waits == {"Look", "Lock", "Add", "Register", "Check", "Asleep", "Woken",
          "TimedOut", "Unregister", "Subtract"}
Sets == {"Looks", "Next", "Notify"}
Registered == {"Check", "Asleep", "Woken", "TimedOut"}

TypeOK ==
  /\ number \in [Signals -> 0 .. MaxSets]
  /\ active \in [Signals -> BOOLEAN]
  /\ others \in [Signals -> Int]
  /\ slots \in [Signals -> [Slots -> Signals \cup {None}]]
  /\ mutex \in [Signals -> Threads \cup {None}]
  /\ pc \in [Threads -> {"Idle"} \cup Waits \cup Sets]
  /\ array \in [Threads -> Seq(Signals)]
  /\ seen \in [Threads -> Seq(0 .. MaxSets)]
  /\ i \in [Threads -> Nat]
  /\ j \in [Threads -> Nat]
  /\ sets \in 0 .. MaxSets
  /\ waits \in 0 .. MaxWaits
  /\ failed \subseteq Threads
  /\ overflow \in BOOLEAN

-----------------------------------------------------------------------------
(* CdiOsSignalCreate for every signal.                                     *)
Init ==
  /\ number = [s \in Signals |-> 0]
  /\ active = [s \in Signals |-> FALSE]
  /\ others = [s \in Signals |-> 0]
  /\ slots = [s \in Signals |-> [k \in Slots |-> None]]
  /\ mutex = [s \in Signals |-> None]
  /\ pc = [t \in Threads |-> "Idle"]
  /\ array = [t \in Threads |-> <<>>]
  /\ seen = [t \in Threads |-> <<>>]
  /\ i = [t \in Threads |-> 1]
  /\ j = [t \in Threads |-> 1]
  /\ sets = 0 /\ waits = 0
  /\ failed = {} /\ overflow = FALSE

(* pthread_cond_broadcast on the condition of s.                           *)
Sleeps(t, s) == pc[t] = "Asleep" /\ First(t) = s
Broadcast(s, t, next) ==
  pc' = [u \in Threads |-> IF u = t THEN next
                           ELSE IF Sleeps(u, s) THEN "Woken" ELSE pc[u]]

Goto(t, next) == pc' = [pc EXCEPT ![t] = next]
Step(t) == i' = [i EXCEPT ![t] = @ + 1]

(* The call returns, and its local variables are gone.                     *)
Return(t) ==
  /\ Goto(t, "Idle")
  /\ array' = [array EXCEPT ![t] = <<>>]
  /\ seen' = [seen EXCEPT ![t] = <<>>]
  /\ i' = [i EXCEPT ![t] = 1]
  /\ j' = [j EXCEPT ![t] = 1]

-----------------------------------------------------------------------------
(* CdiOsSignalClear takes no lock.                                         *)
Clear(t) ==
  /\ pc[t] = "Idle"
  /\ \E s \in Signals : active' = [active EXCEPT ![s] = FALSE]
  /\ UNCHANGED <<number, others, slots, mutex, pc, array, seen, i, j, book>>

(* CdiOsSignalSet: the array of the thread is the signal it sets, and then *)
(* the signal it wakes.                                                    *)
Set(t) ==
  /\ pc[t] = "Idle" /\ sets < MaxSets
  /\ \E s \in Signals :
       /\ mutex[s] = None
       /\ number' = [number EXCEPT ![s] = @ + 1]
       /\ active' = [active EXCEPT ![s] = TRUE]
       /\ array' = [array EXCEPT ![t] = <<s>>]
       /\ Broadcast(s, t, "Looks")
  /\ sets' = sets + 1
  /\ UNCHANGED <<others, slots, mutex, seen, i, j, waits, failed,
                 overflow>>

SetLooks(t) ==
  /\ pc[t] = "Looks"
  /\ IF others[First(t)] > 0
     THEN Goto(t, "Next") /\ UNCHANGED <<array, seen, i, j>>
     ELSE Return(t)
  /\ UNCHANGED <<number, active, others, slots, mutex, book>>

\* A mutant: the count taken for the end of the array.
LastCounted(t) == others[First(t)]
LastSlot(t) == MaxThreadsWaiting

(* The pointer is copied out of the slot before the mutex is taken.        *)
SetNext(t) ==
  /\ pc[t] = "Next"
  /\ \/ /\ i[t] > LastSlot(t)
        /\ Return(t)
     \/ /\ i[t] <= LastSlot(t)
        /\ slots[First(t)][i[t]] = None
        /\ Step(t)
        /\ UNCHANGED <<pc, array, seen, j>>
     \/ /\ i[t] <= LastSlot(t)
        /\ slots[First(t)][i[t]] # None
        /\ array' = [array EXCEPT ![t] = <<First(t), slots[First(t)][i[t]]>>]
        /\ Goto(t, "Notify")
        /\ UNCHANGED <<seen, i, j>>
  /\ UNCHANGED <<number, active, others, slots, mutex, book>>

SetNotify(t) ==
  /\ pc[t] = "Notify"
  /\ mutex[array[t][2]] = None
  /\ Broadcast(array[t][2], t, "Next")
  /\ array' = [array EXCEPT ![t] = <<First(t)>>]
  /\ Step(t)
  /\ UNCHANGED <<number, active, others, slots, mutex, seen, j, book>>

-----------------------------------------------------------------------------
WaitCall(t) ==
  /\ pc[t] = "Idle" /\ waits < MaxWaits
  /\ waits' = waits + 1
  /\ \E a \in Arrays[t] : array' = [array EXCEPT ![t] = a]
  /\ failed' = failed \ {t}
  /\ Goto(t, "Look")
  /\ UNCHANGED <<number, active, others, slots, mutex, seen, i, j, sets,
                 overflow>>

(* Is a signal active already?  If none is, their counts are remembered.   *)
WaitLook(t) ==
  /\ pc[t] = "Look"
  /\ \/ /\ active[This(t)]
        /\ Return(t)
     \/ /\ ~active[This(t)]
        /\ seen' = [seen EXCEPT ![t] = Append(@, number[This(t)])]
        /\ Step(t)
        /\ Goto(t, IF i[t] < Len(array[t]) THEN "Look" ELSE "Lock")
        /\ UNCHANGED <<array, j>>
  /\ UNCHANGED <<number, active, others, slots, mutex, book>>

(* From here on the thread holds the mutex of its first signal.            *)
WaitLock(t) ==
  /\ pc[t] = "Lock"
  /\ mutex[First(t)] = None
  /\ mutex' = [mutex EXCEPT ![First(t)] = t]
  /\ i' = [i EXCEPT ![t] = IF Len(array[t]) > 1 THEN 2 ELSE 1]
  /\ Goto(t, IF Len(array[t]) > 1 THEN "Add" ELSE "Check")
  /\ UNCHANGED <<number, active, others, slots, array, seen, j, book>>

\* A mutant: a thread that times out keeps its places.
KeepsPlaces(t) ==
  /\ mutex' = [mutex EXCEPT ![First(t)] = None]
  /\ Return(t)
(* The mutex is given up, and the places are left one after the other.     *)
Leaves(t) ==
  /\ mutex' = [mutex EXCEPT ![First(t)] = None]
  /\ IF Len(array[t]) = 1
     THEN Return(t)
     ELSE /\ i' = [i EXCEPT ![t] = 2]
          /\ j' = [j EXCEPT ![t] = 1]
          /\ Goto(t, "Unregister")
          /\ UNCHANGED <<array, seen>>

(* A place among the threads that wait for a signal.  When there are too   *)
(* many the wait fails, and its own count is taken back; it goes on to     *)
(* look for a slot all the same.                                           *)
Fails(t) == failed' = failed \cup {t} /\ overflow' = TRUE
WaitAdd(t) ==
  /\ pc[t] = "Add"
  /\ \/ /\ others[This(t)] < MaxThreadsWaiting
        /\ others' = [others EXCEPT ![This(t)] = @ + 1]
        /\ UNCHANGED <<failed, overflow>>
     \/ /\ others[This(t)] >= MaxThreadsWaiting
        /\ Fails(t)
        /\ UNCHANGED others
  /\ j' = [j EXCEPT ![t] = 1]
  /\ Goto(t, "Register")
  /\ UNCHANGED <<number, active, slots, mutex, array, seen, i, sets, waits>>

(* On to the next signal of the array; after the last one, to the wait.    *)
NextPlace(t) ==
  \/ /\ i[t] < Len(array[t])
     /\ Step(t) /\ Goto(t, "Add")
     /\ UNCHANGED <<mutex, array, seen, j>>
  \/ /\ i[t] = Len(array[t]) /\ t \notin failed'
     /\ i' = [i EXCEPT ![t] = 1] /\ Goto(t, "Check")
     /\ UNCHANGED <<mutex, array, seen, j>>
  \/ /\ i[t] = Len(array[t]) /\ t \in failed'
     /\ Leaves(t)

WaitRegister(t) ==
  /\ pc[t] = "Register"
  /\ \/ /\ j[t] <= MaxThreadsWaiting
        /\ slots[This(t)][j[t]] = None
        /\ slots' = [slots EXCEPT ![This(t)] = [@ EXCEPT ![j[t]] = First(t)]]
        /\ UNCHANGED <<others, failed, overflow>>
        /\ NextPlace(t)
     \/ /\ j[t] <= MaxThreadsWaiting
        /\ slots[This(t)][j[t]] # None
        /\ j' = [j EXCEPT ![t] = @ + 1]
        /\ UNCHANGED <<others, slots, mutex, pc, array, seen, i, failed,
                       overflow>>
     \/ /\ j[t] > MaxThreadsWaiting
        /\ others' = [others EXCEPT ![This(t)] = @ - 1]
        /\ Fails(t)
        /\ NextPlace(t)
        /\ UNCHANGED slots
  /\ UNCHANGED <<number, active, sets, waits>>

(* Has a count changed?  If none has, pthread_cond_wait gives up the mutex *)
(* and sleeps in one step.                                                 *)
WaitCheck(t) ==
  /\ pc[t] = "Check"
  /\ \/ /\ number[This(t)] # seen[t][i[t]]
        /\ Leaves(t)
     \/ /\ number[This(t)] = seen[t][i[t]]
        /\ i[t] < Len(array[t])
        /\ Step(t)
        /\ UNCHANGED <<mutex, pc, array, seen, j>>
     \/ /\ number[This(t)] = seen[t][i[t]]
        /\ i[t] = Len(array[t])
        /\ mutex' = [mutex EXCEPT ![First(t)] = None]
        /\ Goto(t, "Asleep")
        /\ UNCHANGED <<array, seen, i, j>>
  /\ UNCHANGED <<number, active, others, slots, book>>

(* A wake-up without a reason, or the end of pthread_cond_timedwait.       *)
Wakes(t) ==
  /\ pc[t] = "Asleep"
  /\ \E next \in {"Woken", "TimedOut"} : Goto(t, next)
  /\ UNCHANGED <<number, active, others, slots, mutex, array, seen, i, j, book>>

Relock(t) ==
  /\ pc[t] = "Woken"
  /\ mutex[First(t)] = None
  /\ mutex' = [mutex EXCEPT ![First(t)] = t]
  /\ i' = [i EXCEPT ![t] = 1]
  /\ Goto(t, "Check")
  /\ UNCHANGED <<number, active, others, slots, array, seen, j, book>>

WaitTimedOut(t) ==
  /\ pc[t] = "TimedOut"
  /\ mutex[First(t)] = None
  /\ Leaves(t)
  /\ UNCHANGED <<number, active, others, slots, book>>

NextLeft(t) ==
  IF i[t] = Len(array[t])
  THEN Return(t)
  ELSE /\ Step(t)
       /\ j' = [j EXCEPT ![t] = 1]
       /\ Goto(t, "Unregister")
       /\ UNCHANGED <<array, seen>>

(* Any slot with the thread's first signal will do.                        *)
WaitUnregister(t) ==
  /\ pc[t] = "Unregister"
  /\ \/ /\ j[t] <= MaxThreadsWaiting
        /\ slots[This(t)][j[t]] = First(t)
        /\ slots' = [slots EXCEPT ![This(t)] = [@ EXCEPT ![j[t]] = None]]
        /\ Goto(t, "Subtract")
        /\ UNCHANGED <<array, seen, i, j>>
     \/ /\ j[t] <= MaxThreadsWaiting
        /\ slots[This(t)][j[t]] # First(t)
        /\ j' = [j EXCEPT ![t] = @ + 1]
        /\ UNCHANGED <<slots, pc, array, seen, i>>
     \/ /\ j[t] > MaxThreadsWaiting
        /\ NextLeft(t)
        /\ UNCHANGED slots
  /\ UNCHANGED <<number, active, others, mutex, book>>

WaitSubtract(t) ==
  /\ pc[t] = "Subtract"
  /\ others' = [others EXCEPT ![This(t)] = @ - 1]
  /\ NextLeft(t)
  /\ UNCHANGED <<number, active, slots, mutex, book>>

-----------------------------------------------------------------------------
(* What a thread does inside a call, without calls and without luck.       *)
Works(t) ==
  \/ SetLooks(t) \/ SetNext(t) \/ SetNotify(t)
  \/ WaitLook(t) \/ WaitLock(t) \/ WaitAdd(t) \/ WaitRegister(t)
  \/ WaitCheck(t) \/ Relock(t) \/ WaitTimedOut(t)
  \/ WaitUnregister(t) \/ WaitSubtract(t)

Next == \E t \in Threads :
          Clear(t) \/ Set(t) \/ WaitCall(t) \/ Wakes(t) \/ Works(t)

Spec == Init /\ [][Next]_vars

(* The kernel hands a mutex to every thread that keeps asking for it.      *)
TakesMutex(t) == SetNotify(t) \/ WaitLock(t) \/ Relock(t) \/ WaitTimedOut(t)
FairSpec ==
  Spec /\ \A t \in Threads : WF_vars(Works(t)) /\ SF_vars(TakesMutex(t))

-----------------------------------------------------------------------------
(* Properties.  They hold while no more threads wait for a signal than it  *)
(* has slots: the failure of the 51st wait takes the count of another one. *)
Changed(t, n) == number[array[t][n]] # seen[t][n]

(* CdiOsSignalDelete asserts that nobody is entered in the signal: once    *)
(* nobody waits for it, its count is zero and its slots are empty.         *)
DeletableWhenUnused ==
  overflow \/ \A s \in Signals :
    (\A t \in Threads : pc[t] \in Waits =>
       \A n \in 2 .. Len(array[t]) : array[t][n] # s)
    => others[s] = 0 /\ \A k \in Slots : slots[s][k] = None

(* A thread that waits for a signal that was set returns.                  *)
SetEndsWait ==
  \A t \in Threads :
    (pc[t] \in Registered /\ \E n \in 1 .. Len(array[t]) : Changed(t, n))
      ~> (overflow \/ pc[t] = "Idle")
=============================================================================

------------------------- MODULE OsSignals_proofs ---------------------------
(***************************************************************************)
(* Proofs about the signals of os_linux.c, for any threads, signals and    *)
(* arrays to wait for: while no wait fails for want of a slot, the counts  *)
(* and the slots of each signal belong to the threads that wait for it,    *)
(* every search finds its slot, and no wake-up is lost.                    *)
(*                                                                         *)
(* The heart of the invariant is PlacesInv.  A thread that leaves a signal *)
(* empties any slot that names its first signal, which may be the slot     *)
(* another thread has filled; so a slot is not owned by who filled it.     *)
(* But the slots can be given to the threads so that each has one, and a   *)
(* thread that searches has not passed the one it was given.               *)
(***************************************************************************)
EXTENDS OsSignals, FiniteSetTheorems, TLAPS

(* What the local variables of a call are at its places.                   *)
Distinct(a) == \A m, n \in 1 .. Len(a) : a[m] = a[n] => m = n
LocalAt(t) ==
  /\ pc[t] # "Idle" => array[t] # <<>>
  /\ pc[t] \in Waits => Distinct(array[t])
  /\ pc[t] = "Idle" => i[t] = 1 /\ seen[t] = <<>>
  /\ pc[t] = "Notify" => Len(array[t]) = 2
  /\ pc[t] = "Look" => i[t] \in 1 .. Len(array[t]) /\ Len(seen[t]) = i[t] - 1
  /\ pc[t] \in Waits \ {"Look"} => Len(seen[t]) = Len(array[t])
  /\ pc[t] = "Check" => i[t] \in 1 .. Len(array[t])
  /\ pc[t] \in {"Add", "Register", "Unregister", "Subtract"} =>
       i[t] \in 2 .. Len(array[t])
  /\ pc[t] \in {"Looks", "Next", "Notify"} => i[t] >= 1
  /\ pc[t] = "Looks" => i[t] = 1
  /\ pc[t] \in {"Register", "Unregister"} => j[t] >= 1
LocalInv == \A t \in Threads : LocalAt(t)
SetsInv == \A s \in Signals : number[s] <= sets
FailedInv == overflow \/ failed = {}

(* From its lock to its sleep a waiter holds the mutex of its first signal.*)
MutexInv == \A t \in Threads :
  pc[t] \in {"Add", "Register", "Check"} => mutex[First(t)] = t

(* The n-th signal of the array counts the thread.                         *)
Counts(t, n) ==
  \/ pc[t] = "Add" /\ n < i[t]
  \/ pc[t] = "Register" /\ n <= i[t]
  \/ pc[t] \in Registered
  \/ pc[t] \in {"Unregister", "Subtract"} /\ n >= i[t]
Counted(t, s) == \E n \in 2 .. Len(array[t]) : array[t][n] = s /\ Counts(t, n)
Waiters(s) == {t \in Threads : Counted(t, s)}
HasSlot(t, s) == ~(pc[t] \in {"Register", "Subtract"} /\ This(t) = s)
Searches(t, s) == pc[t] \in {"Register", "Unregister"} /\ This(t) = s

(* t has looked at the n-th signal before it was set, and sleeps or will.  *)
Missed(t, n) ==
  (pc[t] = "Asleep" \/ (pc[t] = "Check" /\ n < i[t])) /\ Changed(t, n)
(* u has set s and comes to the slot k, or to another of the same signal f.*)
Comes(u, s, k, f) ==
  /\ pc[u] \in Sets /\ First(u) = s
  /\ \/ pc[u] = "Looks"
     \/ pc[u] = "Next" /\ i[u] <= k
     \/ pc[u] = "Notify" /\ (i[u] < k \/ array[u][2] = f)

(* The threads that s counts can be given slots of s, one each, such that  *)
(* a search goes up to the slot of the thread or ends before it.           *)
Placed(s, place) ==
  /\ \A t, u \in Threads :
       Counted(t, s) /\ Counted(u, s) /\ place[t] = place[u] => t = u
  /\ \A t \in Threads : Counted(t, s) =>
       /\ slots[s][place[t]] = IF HasSlot(t, s) THEN First(t) ELSE None
       /\ Searches(t, s) => j[t] <= place[t]
       /\ \A n \in 2 .. Len(array[t]) : array[t][n] = s /\ Missed(t, n) =>
            \E u \in Threads : Comes(u, s, place[t], First(t))
  /\ \A k \in Slots : slots[s][k] # None =>
       \E t \in Threads : Counted(t, s) /\ HasSlot(t, s) /\ place[t] = k
PlacesInv == \A s \in Signals : \E place \in [Threads -> Slots] : Placed(s, place)
CountInv == \A s \in Signals :
  IsFiniteSet(Waiters(s)) /\ others[s] = Cardinality(Waiters(s))
FirstInv == \A t \in Threads : pc[t] \in Waits => ~Missed(t, 1)

IInv ==
  /\ TypeOK /\ LocalInv /\ SetsInv /\ FailedInv /\ MutexInv /\ FirstInv
  /\ overflow \/ (PlacesInv /\ CountInv)

(* A thread that sleeps although one of its signals was set is about to be *)
(* woken by the thread that set it.                                        *)
NoLostWakeUp ==
  overflow \/ \A t \in Threads : pc[t] = "Asleep" =>
    \A n \in 1 .. Len(array[t]) : Changed(t, n) =>
      \E u \in Threads : pc[u] \in Sets /\ First(u) = array[t][n]
(* A search of a leaving thread finds a slot.                              *)
SearchesEnd ==
  overflow \/ \A t \in Threads :
    pc[t] \in {"Register", "Unregister"} => j[t] \in Slots

-----------------------------------------------------------------------------
(* What a step leaves alone.                                               *)

(* A step of the thread t, and what it leaves of another thread.           *)
Acts(t) == Clear(t) \/ Set(t) \/ WaitCall(t) \/ Wakes(t) \/ Works(t)
Stays(u) ==
  /\ pc'[u] = pc[u] \/ (pc[u] = "Asleep" /\ pc'[u] = "Woken")
  /\ array'[u] = array[u] /\ seen'[u] = seen[u] /\ i'[u] = i[u] /\ j'[u] = j[u]

(* A step of t moves another thread only by waking it.                     *)
LEMMA OthersStay ==
  ASSUME TypeOK, NEW t \in Threads, Acts(t)
  PROVE  \A u \in Threads \ {t} : Stays(u)
<1>1. CASE Clear(t) BY <1>1 DEF Clear, Stays
<1>2. CASE Set(t) BY <1>2 DEF Set, Stays, TypeOK, Broadcast, Sleeps
<1>3. CASE WaitCall(t) BY <1>3 DEF WaitCall, Stays, TypeOK, Goto
<1>4. CASE Wakes(t) BY <1>4 DEF Wakes, Stays, TypeOK, Goto
<1>5. CASE SetLooks(t) BY <1>5 DEF SetLooks, Stays, TypeOK, Goto, Return
<1>6. CASE SetNext(t) BY <1>6 DEF SetNext, Stays, TypeOK, Goto, Return, Step
<1>7. CASE SetNotify(t) BY <1>7 DEF SetNotify, Stays, TypeOK, Broadcast, Sleeps, Step
<1>8. CASE WaitLook(t) BY <1>8 DEF WaitLook, Stays, TypeOK, Goto, Return, Step
<1>9. CASE WaitLock(t) BY <1>9 DEF WaitLock, Stays, TypeOK, Goto
<1>10. CASE WaitAdd(t) BY <1>10 DEF WaitAdd, Stays, TypeOK, Goto
<1>11. CASE WaitRegister(t)
  BY <1>11 DEF WaitRegister, NextPlace, Leaves, Stays, TypeOK, Goto, Return, Step
<1>12. CASE WaitCheck(t)
  BY <1>12 DEF WaitCheck, Leaves, Stays, TypeOK, Goto, Return, Step
<1>13. CASE Relock(t) BY <1>13 DEF Relock, Stays, TypeOK, Goto
<1>14. CASE WaitTimedOut(t)
  BY <1>14 DEF WaitTimedOut, Leaves, Stays, TypeOK, Goto, Return
<1>15. CASE WaitUnregister(t)
  BY <1>15 DEF WaitUnregister, NextLeft, Stays, TypeOK, Goto, Return, Step
<1>16. CASE WaitSubtract(t)
  BY <1>16 DEF WaitSubtract, NextLeft, Stays, TypeOK, Goto, Return, Step
<1> QED BY <1>1, <1>2, <1>3, <1>4, <1>5, <1>6, <1>7, <1>8, <1>9, <1>10, <1>11,
  <1>12, <1>13, <1>14, <1>15, <1>16 DEF Acts, Works

-----------------------------------------------------------------------------
(* The types.                                                              *)

(* TypeOK in two parts.                                                    *)
LocalTypes ==
  /\ pc \in [Threads -> {"Idle"} \cup Waits \cup Sets]
  /\ array \in [Threads -> Seq(Signals)]
  /\ seen \in [Threads -> Seq(0 .. MaxSets)]
  /\ i \in [Threads -> Nat]
  /\ j \in [Threads -> Nat]
(* The slots of one signal.                                                *)
Rows == [Slots -> Signals \cup {None}]
GlobalTypes ==
  /\ number \in [Signals -> 0 .. MaxSets]
  /\ active \in [Signals -> BOOLEAN]
  /\ others \in [Signals -> Int]
  /\ slots \in [Signals -> [Slots -> Signals \cup {None}]]
  /\ mutex \in [Signals -> Threads \cup {None}]
  /\ sets \in 0 .. MaxSets
  /\ waits \in 0 .. MaxWaits
  /\ failed \subseteq Threads
  /\ overflow \in BOOLEAN

(* The types after a return.                                               *)
LEMMA ReturnTypes ==
  ASSUME TypeOK, NEW t \in Threads, Return(t)
  PROVE  LocalTypes'
<1>1. pc' \in [Threads -> {"Idle"} \cup Waits \cup Sets] BY DEF TypeOK, Return, Goto
<1>2. array' \in [Threads -> Seq(Signals)]
  <2>1. <<>> \in Seq(Signals) OBVIOUS
  <2> QED BY <2>1 DEF TypeOK, Return
<1>3. seen' \in [Threads -> Seq(0 .. MaxSets)]
  <2>1. <<>> \in Seq(0 .. MaxSets) OBVIOUS
  <2> QED BY <2>1 DEF TypeOK, Return
<1>4. i' \in [Threads -> Nat] /\ j' \in [Threads -> Nat] BY DEF TypeOK, Return
<1> QED BY <1>1, <1>2, <1>3, <1>4 DEF LocalTypes

(* The types when a wait ends and its places are to be left.               *)
LEMMA LeavesTypes ==
  ASSUME TypeOK, NEW t \in Threads, Leaves(t)
  PROVE  LocalTypes'
<1>1. CASE Return(t) BY <1>1, ReturnTypes
<1>2. CASE /\ i' = [i EXCEPT ![t] = 2] /\ j' = [j EXCEPT ![t] = 1]
           /\ Goto(t, "Unregister") /\ UNCHANGED <<array, seen>>
  BY <1>2 DEF LocalTypes, Goto, TypeOK, Waits
<1> QED BY <1>1, <1>2 DEF Leaves

(* The types when a wait goes on to its next place.                        *)
LEMMA NextPlaceTypes ==
  ASSUME TypeOK, NEW t \in Threads, NextPlace(t)
  PROVE  LocalTypes'
<1>1. CASE i[t] = Len(array[t]) /\ t \in failed' /\ Leaves(t) BY <1>1, LeavesTypes
<1>2. CASE Goto(t, "Add") /\ Step(t) /\ UNCHANGED <<array, seen, j>>
  BY <1>2 DEF LocalTypes, Goto, Step, TypeOK, Waits
<1>3. CASE Goto(t, "Check") /\ i' = [i EXCEPT ![t] = 1] /\ UNCHANGED <<array, seen, j>>
  BY <1>3 DEF LocalTypes, Goto, TypeOK, Waits
<1> QED BY <1>1, <1>2, <1>3 DEF NextPlace

(* The types when a wait goes on to the next place to leave.               *)
LEMMA NextLeftTypes ==
  ASSUME TypeOK, NEW t \in Threads, NextLeft(t)
  PROVE  LocalTypes'
<1>1. CASE Return(t) BY <1>1, ReturnTypes
<1>2. CASE /\ Step(t) /\ j' = [j EXCEPT ![t] = 1]
           /\ Goto(t, "Unregister") /\ UNCHANGED <<array, seen>>
  BY <1>2 DEF LocalTypes, Goto, Step, TypeOK, Waits
<1> QED BY <1>1, <1>2 DEF NextLeft

(* The index of a thread goes up.                                          *)
LEMMA StepType ==
  ASSUME i \in [Threads -> Nat], NEW t \in Threads, Step(t)
  PROVE  i' \in [Threads -> Nat]
<1>1. i[t] + 1 \in Nat OBVIOUS
<1> QED BY <1>1 DEF Step

(* Each step keeps the types of what belongs to a thread.                  *)
LEMMA LocalTypesStep ==
  ASSUME SignalsAssumption, TypeOK, LocalInv, NEW t \in Threads, Acts(t)
  PROVE  LocalTypes'
<1>0. LocalAt(t) BY DEF LocalInv
<1>f. pc[t] # "Idle" => First(t) \in Signals BY <1>0 DEF First, LocalAt, TypeOK
<1>t. pc[t] \in {"Look", "Check", "Add", "Register", "Unregister", "Subtract"}
        => This(t) \in Signals BY <1>0 DEF This, LocalAt, TypeOK
<1>b. ASSUME NEW s, NEW next \in Waits \cup Sets, Broadcast(s, t, next)
      PROVE  pc' \in [Threads -> {"Idle"} \cup Waits \cup Sets]
  BY <1>b DEF Broadcast, TypeOK, Waits
<1>1. CASE Clear(t) BY <1>1 DEF Clear, TypeOK, LocalTypes
<1>2. CASE Set(t)
  <2>1. pc' \in [Threads -> {"Idle"} \cup Waits \cup Sets]
    BY <1>2, <1>b DEF Set, Sets
  <2>2. array' \in [Threads -> Seq(Signals)]
    <3>1. PICK s \in Signals : array' = [array EXCEPT ![t] = <<s>>] BY <1>2 DEF Set
    <3>2. <<s>> \in Seq(Signals) OBVIOUS
    <3> QED BY <3>1, <3>2 DEF TypeOK
  <2> QED BY <2>1, <2>2, <1>2 DEF Set, TypeOK, LocalTypes
<1>3. CASE WaitCall(t)
  BY <1>3 DEF WaitCall, Goto, Waits, SignalsAssumption, TypeOK, LocalTypes
<1>4. CASE Wakes(t) BY <1>4 DEF Wakes, Goto, Waits, TypeOK, LocalTypes
<1>5. CASE SetLooks(t)
  <2>1. CASE Return(t) BY <2>1, ReturnTypes
  <2>2. CASE Goto(t, "Next") /\ UNCHANGED <<array, seen, i, j>>
    BY <2>2 DEF TypeOK, LocalTypes, Goto, Sets
  <2> QED BY <2>1, <2>2, <1>5 DEF SetLooks
<1>6. CASE SetNext(t)
  <2>1. CASE Return(t) BY <2>1, ReturnTypes
  <2>2. CASE Step(t) /\ UNCHANGED <<pc, array, seen, j>>
    BY <2>2 DEF TypeOK, LocalTypes, Step
  <2>3. CASE /\ i[t] <= LastSlot(t) /\ slots[First(t)][i[t]] # None
             /\ array' = [array EXCEPT ![t] = <<First(t), slots[First(t)][i[t]]>>]
             /\ Goto(t, "Notify") /\ UNCHANGED <<seen, i, j>>
    <3>1. i[t] \in Slots
      BY <2>3, <1>6, <1>0 DEF SetNext, LocalAt, LastSlot, Slots, TypeOK, SignalsAssumption
    <3>2. slots[First(t)][i[t]] \in Signals
      BY <3>1, <2>3, <1>6, <1>f DEF SetNext, TypeOK
    <3>3. First(t) \in Signals BY <1>6, <1>f DEF SetNext
    <3>4. <<First(t), slots[First(t)][i[t]]>> \in Seq(Signals) BY <3>2, <3>3
    <3>5. array' \in [Threads -> Seq(Signals)] BY <3>4, <2>3 DEF TypeOK
    <3> QED BY <3>5, <2>3 DEF TypeOK, LocalTypes, Goto, Sets
  <2> QED BY <2>1, <2>2, <2>3, <1>6 DEF SetNext
<1>7. CASE SetNotify(t)
  <2>1. pc' \in [Threads -> {"Idle"} \cup Waits \cup Sets]
    BY <1>7, <1>b DEF SetNotify, Sets
  <2>2. <<First(t)>> \in Seq(Signals) BY <1>7, <1>f DEF SetNotify
  <2>3. array' \in [Threads -> Seq(Signals)]
    <3> DEFINE q == <<First(t)>>
    <3>1. array' = [array EXCEPT ![t] = q] BY <1>7 DEF SetNotify
    <3>2. array \in [Threads -> Seq(Signals)] BY DEF TypeOK
    <3>3. q \in Seq(Signals) BY <2>2
    <3> HIDE DEF q
    <3> QED BY ONLY <3>1, <3>2, <3>3
  <2>4. i' \in [Threads -> Nat] BY <1>7, StepType DEF SetNotify, TypeOK
  <2>5. seen' = seen /\ j' = j BY <1>7 DEF SetNotify
  <2>6. seen \in [Threads -> Seq(0 .. MaxSets)] /\ j \in [Threads -> Nat] BY DEF TypeOK
  <2> QED BY ONLY <2>1, <2>3, <2>4, <2>5, <2>6 DEF LocalTypes
<1>8. CASE WaitLook(t)
  <2>1. CASE Return(t) BY <2>1, ReturnTypes
  <2>2. CASE /\ seen' = [seen EXCEPT ![t] = Append(@, number[This(t)])]
             /\ Step(t) /\ Goto(t, IF i[t] < Len(array[t]) THEN "Look" ELSE "Lock")
             /\ UNCHANGED <<array, j>>
    <3>1. number[This(t)] \in 0 .. MaxSets BY <1>8, <1>t DEF WaitLook, TypeOK
    <3>2. Append(seen[t], number[This(t)]) \in Seq(0 .. MaxSets) BY <3>1 DEF TypeOK
    <3>3. seen' \in [Threads -> Seq(0 .. MaxSets)]
      <4> DEFINE q == Append(seen[t], number[This(t)])
      <4>1. seen' = [seen EXCEPT ![t] = q] BY <2>2
      <4>2. seen \in [Threads -> Seq(0 .. MaxSets)] BY DEF TypeOK
      <4>3. q \in Seq(0 .. MaxSets) BY <3>2
      <4> HIDE DEF q
      <4> QED BY ONLY <4>1, <4>2, <4>3
    <3>4. \E next \in Waits : Goto(t, next) BY <2>2 DEF Waits
    <3>5. pc' \in [Threads -> {"Idle"} \cup Waits \cup Sets] BY <3>4 DEF Goto, TypeOK
    <3>6. i' \in [Threads -> Nat] BY <2>2, StepType DEF TypeOK
    <3>7. array' = array /\ j' = j BY <2>2
    <3>8. array \in [Threads -> Seq(Signals)] /\ j \in [Threads -> Nat] BY DEF TypeOK
    <3> QED BY ONLY <3>3, <3>5, <3>6, <3>7, <3>8 DEF LocalTypes
  <2> QED BY <2>1, <2>2, <1>8 DEF WaitLook
<1>9. CASE WaitLock(t) BY <1>9 DEF WaitLock, Goto, Waits, TypeOK, LocalTypes
<1>10. CASE WaitAdd(t) BY <1>10 DEF WaitAdd, Goto, Waits, TypeOK, LocalTypes
<1>11. CASE WaitRegister(t)
  <2>1. CASE NextPlace(t) BY <2>1, NextPlaceTypes
  <2>2. CASE j' = [j EXCEPT ![t] = @ + 1] /\ UNCHANGED <<pc, array, seen, i>>
    BY <2>2 DEF TypeOK, LocalTypes
  <2> QED BY <2>1, <2>2, <1>11 DEF WaitRegister
<1>12. CASE WaitCheck(t)
  <2>1. CASE Leaves(t) BY <2>1, LeavesTypes
  <2>2. CASE Step(t) /\ UNCHANGED <<pc, array, seen, j>>
    BY <2>2 DEF TypeOK, LocalTypes, Step
  <2>3. CASE Goto(t, "Asleep") /\ UNCHANGED <<array, seen, i, j>>
    BY <2>3 DEF TypeOK, LocalTypes, Goto, Waits
  <2> QED BY <2>1, <2>2, <2>3, <1>12 DEF WaitCheck
<1>13. CASE Relock(t) BY <1>13 DEF Relock, Goto, Waits, TypeOK, LocalTypes
<1>14. CASE WaitTimedOut(t) BY <1>14, LeavesTypes DEF WaitTimedOut
<1>15. CASE WaitUnregister(t)
  <2>1. CASE NextLeft(t) BY <2>1, NextLeftTypes
  <2>2. CASE Goto(t, "Subtract") /\ UNCHANGED <<array, seen, i, j>>
    BY <2>2 DEF TypeOK, LocalTypes, Goto, Waits
  <2>3. CASE j' = [j EXCEPT ![t] = @ + 1] /\ UNCHANGED <<pc, array, seen, i>>
    BY <2>3 DEF TypeOK, LocalTypes
  <2> QED BY <2>1, <2>2, <2>3, <1>15 DEF WaitUnregister
<1>16. CASE WaitSubtract(t) BY <1>16, NextLeftTypes DEF WaitSubtract
<1> QED BY <1>1, <1>2, <1>3, <1>4, <1>5, <1>6, <1>7, <1>8, <1>9, <1>10, <1>11,
  <1>12, <1>13, <1>14, <1>15, <1>16 DEF Acts, Works

(* A counter of a signal goes up or down by one.                           *)
LEMMA Counters ==
  ASSUME others \in [Signals -> Int], NEW s \in Signals,
         \/ others' = others
         \/ others' = [others EXCEPT ![s] = @ + 1]
         \/ others' = [others EXCEPT ![s] = @ - 1]
  PROVE  others' \in [Signals -> Int]
<1>1. others[s] + 1 \in Int /\ others[s] - 1 \in Int OBVIOUS
<1>2. ASSUME NEW n \in Int
      PROVE  [others EXCEPT ![s] = n] \in [Signals -> Int]
  OBVIOUS
<1> QED BY <1>1, <1>2

(* The slots of a signal are written.                                      *)
LEMMA RowChanged ==
  ASSUME slots \in [Signals -> [Slots -> Signals \cup {None}]], NEW s \in Signals,
         NEW row \in Rows,
         slots' = slots \/ slots' = [slots EXCEPT ![s] = row]
  PROVE  slots' \in [Signals -> [Slots -> Signals \cup {None}]]
BY DEF Rows

(* One slot is written.                                                    *)
LEMMA RowWritten ==
  ASSUME NEW old \in Rows, NEW k, NEW x \in Signals \cup {None}
  PROVE  [old EXCEPT ![k] = x] \in Rows
BY DEF Rows

(* Each step keeps the types, and the bound of the counters of the signals.*)
LEMMA TypeStep ==
  ASSUME SignalsAssumption, TypeOK, LocalInv, SetsInv, NEW t \in Threads, Acts(t)
  PROVE  TypeOK' /\ SetsInv'
<1>l. LocalTypes' BY LocalTypesStep
<1>0. LocalAt(t) BY DEF LocalInv
<1>f. pc[t] # "Idle" => First(t) \in Signals BY <1>0 DEF First, LocalAt, TypeOK
<1>t. pc[t] \in {"Look", "Check", "Add", "Register", "Unregister", "Subtract"}
        => This(t) \in Signals BY <1>0 DEF This, LocalAt, TypeOK
<1> SUFFICES GlobalTypes' /\ SetsInv'
  BY <1>l DEF TypeOK, LocalTypes, GlobalTypes
<1> USE DEF TypeOK, GlobalTypes, SetsInv, book
<1>m. ASSUME Leaves(t) PROVE mutex' \in [Signals -> Threads \cup {None}]
  <2>1. mutex' = [mutex EXCEPT ![First(t)] = None] BY <1>m DEF Leaves
  <2> QED BY <2>1
<1>c. ASSUME Fails(t) \/ UNCHANGED <<failed, overflow>>
      PROVE  failed' \subseteq Threads /\ overflow' \in BOOLEAN
  <2>1. CASE Fails(t) BY <2>1 DEF Fails
  <2>2. CASE UNCHANGED <<failed, overflow>> BY <2>2
  <2> QED BY <1>c, <2>1, <2>2
<1>1. CASE Clear(t) BY <1>1 DEF Clear
<1>2. CASE Set(t)
  <2>1. sets' \in 0 .. MaxSets /\ sets' = sets + 1 BY <1>2, SignalsAssumption DEF Set
  <2>2. PICK s \in Signals : /\ number' = [number EXCEPT ![s] = @ + 1]
                             /\ active' = [active EXCEPT ![s] = TRUE]
    BY <1>2 DEF Set
  <2>3. number[s] + 1 \in 0 .. MaxSets BY <2>1, SignalsAssumption
  <2>4. number' \in [Signals -> 0 .. MaxSets] BY <2>2, <2>3
  <2>5. \A r \in Signals : number'[r] <= sets'
    <3> TAKE r \in Signals
    <3>1. number[r] \in Int /\ number[r] <= sets /\ sets \in Int BY SignalsAssumption
    <3>2. number'[r] = IF r = s THEN number[s] + 1 ELSE number[r] BY <2>2
    <3> QED BY <3>1, <3>2, <2>1
  <2> QED BY <2>1, <2>2, <2>4, <2>5, <1>2 DEF Set
<1>3. CASE WaitCall(t) BY <1>3, SignalsAssumption DEF WaitCall
<1>4. CASE Wakes(t) BY <1>4 DEF Wakes
<1>5. CASE SetLooks(t) BY <1>5 DEF SetLooks
<1>6. CASE SetNext(t) BY <1>6 DEF SetNext
<1>7. CASE SetNotify(t) BY <1>7 DEF SetNotify
<1>8. CASE WaitLook(t) BY <1>8 DEF WaitLook
<1>9. CASE WaitLock(t) BY <1>9 DEF WaitLock
<1>10. CASE WaitAdd(t)
  <2>3. \/ others' = [others EXCEPT ![This(t)] = @ + 1]
        \/ UNCHANGED others
    BY <1>10 DEF WaitAdd
  <2>4. This(t) \in Signals BY <1>10, <1>t DEF WaitAdd
  <2>1. others' \in [Signals -> Int] BY <2>3, <2>4, Counters
  <2>2. Fails(t) \/ UNCHANGED <<failed, overflow>> BY <1>10 DEF WaitAdd
  <2> QED BY <2>1, <2>2, <1>c, <1>10 DEF WaitAdd
<1>11. CASE WaitRegister(t)
  <2>1. slots' \in [Signals -> [Slots -> Signals \cup {None}]]
    <3>1. \/ slots' = slots
          \/ slots' = [slots EXCEPT ![This(t)] = [@ EXCEPT ![j[t]] = First(t)]]
      BY <1>11 DEF WaitRegister
    <3>2. This(t) \in Signals BY <1>11, <1>t DEF WaitRegister
    <3>3. First(t) \in Signals \cup {None} BY <1>11, <1>f DEF WaitRegister
    <3>4. slots[This(t)] \in Rows BY <3>2 DEF Rows
    <3>7. First(t) \in Signals \cup {None} BY <3>3
    <3>8. [slots[This(t)] EXCEPT ![j[t]] = First(t)] \in Rows BY ONLY <3>4, <3>7, RowWritten
    <3>5. PICK row \in Rows : row = [slots[This(t)] EXCEPT ![j[t]] = First(t)] BY ONLY <3>8
    <3>6. slots' = slots \/ slots' = [slots EXCEPT ![This(t)] = row] BY <3>1, <3>5
    <3> QED BY <3>2, <3>6, RowChanged
  <2>2. others' \in [Signals -> Int]
    <3>1. others' = others \/ others' = [others EXCEPT ![This(t)] = @ - 1]
      BY <1>11 DEF WaitRegister
    <3>2. This(t) \in Signals BY <1>11, <1>t DEF WaitRegister
    <3> QED BY <3>1, <3>2, Counters
  <2>4. Fails(t) \/ UNCHANGED <<failed, overflow>> BY <1>11 DEF WaitRegister
  <2>3. mutex' \in [Signals -> Threads \cup {None}]
    BY <1>11, <1>m DEF WaitRegister, NextPlace
  <2> QED BY <2>1, <2>2, <2>3, <2>4, <1>c, <1>11 DEF WaitRegister
<1>12. CASE WaitCheck(t)
  <2>1. Leaves(t) \/ mutex' = mutex \/ mutex' = [mutex EXCEPT ![First(t)] = None]
    BY <1>12 DEF WaitCheck
  <2>2. mutex' \in [Signals -> Threads \cup {None}]
    <3>1. CASE Leaves(t) BY <3>1, <1>m
    <3>2. CASE mutex' = mutex \/ mutex' = [mutex EXCEPT ![First(t)] = None]
      BY ONLY <3>2, mutex \in [Signals -> Threads \cup {None}]
    <3> QED BY ONLY <2>1, <3>1, <3>2
  <2> QED BY <2>2, <1>12 DEF WaitCheck
<1>13. CASE Relock(t) BY <1>13 DEF Relock
<1>14. CASE WaitTimedOut(t) BY <1>14, <1>m DEF WaitTimedOut
<1>15. CASE WaitUnregister(t)
  <2>1. slots' \in [Signals -> [Slots -> Signals \cup {None}]]
    <3>1. \/ slots' = slots
          \/ slots' = [slots EXCEPT ![This(t)] = [@ EXCEPT ![j[t]] = None]]
      BY <1>15 DEF WaitUnregister
    <3>2. This(t) \in Signals BY <1>15, <1>t DEF WaitUnregister
    <3>4. slots[This(t)] \in Rows BY <3>2 DEF Rows
    <3>7. None \in Signals \cup {None} BY Zenon
    <3>8. [slots[This(t)] EXCEPT ![j[t]] = None] \in Rows BY ONLY <3>4, <3>7, RowWritten
    <3>5. PICK row \in Rows : row = [slots[This(t)] EXCEPT ![j[t]] = None] BY ONLY <3>8
    <3>6. slots' = slots \/ slots' = [slots EXCEPT ![This(t)] = row] BY <3>1, <3>5
    <3> QED BY <3>2, <3>6, RowChanged
  <2> QED BY <2>1, <1>15 DEF WaitUnregister
<1>16. CASE WaitSubtract(t)
  <2>2. This(t) \in Signals BY <1>16, <1>t DEF WaitSubtract
  <2>3. others' = [others EXCEPT ![This(t)] = @ - 1] BY <1>16 DEF WaitSubtract
  <2>1. others' \in [Signals -> Int] BY <2>2, <2>3, Counters
  <2> QED BY <2>1, <1>16 DEF WaitSubtract
<1> QED BY <1>1, <1>2, <1>3, <1>4, <1>5, <1>6, <1>7, <1>8, <1>9, <1>10, <1>11,
  <1>12, <1>13, <1>14, <1>15, <1>16 DEF Acts, Works

-----------------------------------------------------------------------------
(* The local variables and the mutexes.                                    *)
(* Each step keeps what the local variables of a call are at its places.   *)
LEMMA LocalStep ==
  ASSUME SignalsAssumption, TypeOK, LocalInv, NEW t \in Threads, Acts(t)
  PROVE  LocalInv'
<1>a. \A u \in Threads \ {t} : Stays(u) BY OthersStay
<1>b. ASSUME NEW u \in Threads \ {t} PROVE LocalAt(u)'
  <2>1. LocalAt(u) /\ Stays(u) /\ pc[u] \in {"Idle"} \cup Waits \cup Sets
    BY <1>a DEF LocalInv, TypeOK
  <2>2. CASE pc'[u] = pc[u]
    BY <2>1, <2>2 DEF LocalAt, Stays, Distinct
  <2>3. CASE pc[u] = "Asleep" /\ pc'[u] = "Woken"
    BY <2>1, <2>3 DEF LocalAt, Stays, Distinct, Waits
  <2> QED BY <2>1, <2>2, <2>3 DEF Stays
<1> SUFFICES LocalAt(t)' BY <1>b DEF LocalInv
<1>0. /\ LocalAt(t)
      /\ array[t] \in Seq(Signals) /\ seen[t] \in Seq(0 .. MaxSets)
      /\ i[t] \in Nat /\ j[t] \in Nat
  BY DEF LocalInv, TypeOK
<1>r. ASSUME Return(t) PROVE LocalAt(t)'
  <2>1. pc'[t] = "Idle" /\ i'[t] = 1 /\ seen'[t] = <<>>
    BY <1>r DEF Return, Goto, TypeOK
  <2> QED BY <2>1 DEF LocalAt, Waits
<1>l. ASSUME Leaves(t), pc[t] \in {"Register", "Check", "TimedOut"} PROVE LocalAt(t)'
  <2>1. CASE Len(array[t]) = 1 BY <2>1, <1>l, <1>r DEF Leaves
  <2>2. CASE Len(array[t]) # 1
    <3>1. pc'[t] = "Unregister" /\ i'[t] = 2 /\ j'[t] = 1 /\ array' = array /\ seen' = seen
      BY <2>2, <1>l DEF Leaves, Goto, TypeOK
    <3>2. Len(array[t]) \in Nat /\ array[t] # <<>> /\ Distinct(array[t])
            /\ Len(seen[t]) = Len(array[t])
      BY <1>0, <1>l DEF LocalAt, Waits
    <3>4. Len(array[t]) # 0 BY <3>2, <1>0
    <3>5. \A k \in Nat : k # 0 /\ k # 1 => k >= 2 OBVIOUS
    <3>6. Len(array[t]) \in Nat BY <1>0
    <3>3. Len(array[t]) >= 2 BY ONLY <3>4, <3>5, <3>6, <2>2
    <3> QED BY <3>1, <3>2, <3>3 DEF LocalAt, Waits, Distinct
  <2> QED BY <2>1, <2>2
<1>n. ASSUME NextLeft(t), pc[t] \in {"Unregister", "Subtract"} PROVE LocalAt(t)'
  <2>1. CASE i[t] = Len(array[t]) BY <2>1, <1>n, <1>r DEF NextLeft
  <2>2. CASE i[t] # Len(array[t])
    <3>1. /\ pc'[t] = "Unregister" /\ i'[t] = i[t] + 1 /\ j'[t] = 1
          /\ array' = array /\ seen' = seen
      BY <2>2, <1>n DEF NextLeft, Goto, Step, TypeOK
    <3> QED BY <3>1, <2>2, <1>0, <1>n DEF LocalAt, Waits, Distinct
  <2> QED BY <2>1, <2>2
<1>p. ASSUME NextPlace(t), pc[t] = "Register" PROVE LocalAt(t)'
  <2>1. CASE Leaves(t) BY <2>1, <1>l, <1>p
  <2>2. CASE /\ i[t] < Len(array[t]) /\ Step(t) /\ Goto(t, "Add")
             /\ UNCHANGED <<mutex, array, seen, j>>
    <3>1. pc'[t] = "Add" /\ i'[t] = i[t] + 1 BY <2>2 DEF Step, Goto, TypeOK
    <3> QED BY <3>1, <2>2, <1>0, <1>p DEF LocalAt, Waits, Distinct
  <2>3. CASE /\ i[t] = Len(array[t])
             /\ i' = [i EXCEPT ![t] = 1] /\ Goto(t, "Check")
             /\ UNCHANGED <<mutex, array, seen, j>>
    <3>1. pc'[t] = "Check" /\ i'[t] = 1 BY <2>3 DEF Goto, TypeOK
    <3> QED BY <3>1, <2>3, <1>0, <1>p DEF LocalAt, Waits, Distinct
  <2> QED BY <1>p, <2>1, <2>2, <2>3 DEF NextPlace
<1>1. CASE Clear(t) BY <1>0, <1>1 DEF Clear, LocalAt, Distinct
<1>2. CASE Set(t)
  <2>1. PICK s \in Signals : array' = [array EXCEPT ![t] = <<s>>] /\ Broadcast(s, t, "Looks")
    BY <1>2 DEF Set
  <2>2. pc'[t] = "Looks" /\ i'[t] = 1 /\ array'[t] = <<s>>
    BY <2>1, <1>2, <1>0 DEF Set, Broadcast, TypeOK, LocalAt
  <2> QED BY <2>2 DEF LocalAt, Waits
<1>3. CASE WaitCall(t)
  <2>1. PICK a \in Arrays[t] : array' = [array EXCEPT ![t] = a] BY <1>3 DEF WaitCall
  <2>2. pc'[t] = "Look" /\ array'[t] = a /\ i'[t] = 1 /\ seen'[t] = <<>>
    BY <1>3, <2>1, <1>0 DEF WaitCall, Goto, TypeOK, LocalAt
  <2>3. a \in Seq(Signals) /\ Len(a) > 0 /\ Distinct(a)
    BY DEF SignalsAssumption, Distinct
  <2> QED BY <2>2, <2>3 DEF LocalAt, Waits, Distinct
<1>4. CASE Wakes(t)
  <2>1. pc'[t] \in {"Woken", "TimedOut"} BY <1>4 DEF Wakes, Goto, TypeOK
  <2> QED BY <2>1, <1>4, <1>0 DEF Wakes, LocalAt, Waits, Distinct
<1>5. CASE SetLooks(t)
  <2>1. CASE Return(t) BY <2>1, <1>r
  <2>2. CASE Goto(t, "Next") /\ UNCHANGED <<array, seen, i, j>>
    <3>1. pc'[t] = "Next" BY <2>2 DEF Goto, TypeOK
    <3> QED BY <3>1, <2>2, <1>5, <1>0 DEF SetLooks, LocalAt, Waits
  <2> QED BY <2>1, <2>2, <1>5 DEF SetLooks
<1>6. CASE SetNext(t)
  <2>1. CASE Return(t) BY <2>1, <1>r
  <2>2. CASE Step(t) /\ UNCHANGED <<pc, array, seen, j>>
    <3>1. pc'[t] = "Next" /\ i'[t] = i[t] + 1 BY <1>6, <2>2 DEF SetNext, Step, TypeOK
    <3> QED BY <3>1, <2>2, <1>6, <1>0 DEF SetNext, LocalAt, Waits
  <2>3. CASE /\ array' = [array EXCEPT ![t] = <<First(t), slots[First(t)][i[t]]>>]
             /\ Goto(t, "Notify") /\ UNCHANGED <<seen, i, j>>
    <3>1. pc'[t] = "Notify" /\ array'[t] = <<First(t), slots[First(t)][i[t]]>>
      BY <2>3 DEF Goto, TypeOK
    <3> QED BY <3>1, <2>3, <1>6, <1>0 DEF SetNext, LocalAt, Waits
  <2> QED BY <2>1, <2>2, <2>3, <1>6 DEF SetNext
<1>7. CASE SetNotify(t)
  <2>1. pc'[t] = "Next" /\ i'[t] = i[t] + 1 /\ array'[t] = <<First(t)>>
    BY <1>7 DEF SetNotify, Broadcast, Step, TypeOK
  <2> QED BY <2>1, <1>7, <1>0 DEF SetNotify, LocalAt, Waits
<1>8. CASE WaitLook(t)
  <2>1. CASE Return(t) BY <2>1, <1>r
  <2>2. CASE /\ seen' = [seen EXCEPT ![t] = Append(@, number[This(t)])]
             /\ Step(t) /\ Goto(t, IF i[t] < Len(array[t]) THEN "Look" ELSE "Lock")
             /\ UNCHANGED <<array, j>>
    <3>1. /\ pc'[t] = IF i[t] < Len(array[t]) THEN "Look" ELSE "Lock"
          /\ i'[t] = i[t] + 1 /\ seen'[t] = Append(seen[t], number[This(t)])
      BY <2>2 DEF Goto, Step, TypeOK
    <3>2. Len(seen'[t]) = Len(seen[t]) + 1 BY <3>1, <1>0
    <3> QED BY <3>1, <3>2, <2>2, <1>8, <1>0 DEF WaitLook, LocalAt, Waits, Distinct
  <2> QED BY <2>1, <2>2, <1>8 DEF WaitLook
<1>9. CASE WaitLock(t)
  <2>1. IF Len(array[t]) > 1 THEN pc'[t] = "Add" /\ i'[t] = 2
                             ELSE pc'[t] = "Check" /\ i'[t] = 1
    BY <1>9 DEF WaitLock, Goto, TypeOK
  <2> QED BY <2>1, <1>9, <1>0 DEF WaitLock, LocalAt, Waits, Distinct
<1>10. CASE WaitAdd(t)
  <2>1. pc'[t] = "Register" /\ j'[t] = 1 BY <1>10 DEF WaitAdd, Goto, TypeOK
  <2> QED BY <2>1, <1>10, <1>0 DEF WaitAdd, LocalAt, Waits, Distinct
<1>11. CASE WaitRegister(t)
  <2>1. CASE NextPlace(t) BY <2>1, <1>p, <1>11 DEF WaitRegister
  <2>2. CASE j' = [j EXCEPT ![t] = @ + 1] /\ UNCHANGED <<pc, array, seen, i>>
    <3>1. j'[t] = j[t] + 1 BY <2>2 DEF TypeOK
    <3> QED BY <3>1, <2>2, <1>11, <1>0 DEF WaitRegister, LocalAt, Waits, Distinct
  <2> QED BY <2>1, <2>2, <1>11 DEF WaitRegister
<1>12. CASE WaitCheck(t)
  <2>1. CASE Leaves(t) BY <2>1, <1>l, <1>12 DEF WaitCheck
  <2>2. CASE i[t] < Len(array[t]) /\ Step(t) /\ UNCHANGED <<pc, array, seen, j>>
    <3>1. i'[t] = i[t] + 1 BY <2>2 DEF Step, TypeOK
    <3> QED BY <3>1, <2>2, <1>12, <1>0 DEF WaitCheck, LocalAt, Waits, Distinct
  <2>3. CASE Goto(t, "Asleep") /\ UNCHANGED <<array, seen, i, j>>
    <3>1. pc'[t] = "Asleep" BY <2>3 DEF Goto, TypeOK
    <3> QED BY <3>1, <2>3, <1>12, <1>0 DEF WaitCheck, LocalAt, Waits, Distinct
  <2> QED BY <2>1, <2>2, <2>3, <1>12 DEF WaitCheck
<1>13. CASE Relock(t)
  <2>1. pc'[t] = "Check" /\ i'[t] = 1 BY <1>13 DEF Relock, Goto, TypeOK
  <2>2. Len(array[t]) >= 1 BY <1>13, <1>0 DEF Relock, LocalAt
  <2> QED BY <2>1, <2>2, <1>13, <1>0 DEF Relock, LocalAt, Waits, Distinct
<1>14. CASE WaitTimedOut(t) BY <1>14, <1>l DEF WaitTimedOut
<1>15. CASE WaitUnregister(t)
  <2>1. CASE NextLeft(t) BY <2>1, <1>n, <1>15 DEF WaitUnregister
  <2>2. CASE Goto(t, "Subtract") /\ UNCHANGED <<array, seen, i, j>>
    <3>1. pc'[t] = "Subtract" BY <2>2 DEF Goto, TypeOK
    <3> QED BY <3>1, <2>2, <1>15, <1>0 DEF WaitUnregister, LocalAt, Waits, Distinct
  <2>3. CASE j' = [j EXCEPT ![t] = @ + 1] /\ UNCHANGED <<pc, array, seen, i>>
    <3>1. j'[t] = j[t] + 1 BY <2>3 DEF TypeOK
    <3> QED BY <3>1, <2>3, <1>15, <1>0 DEF WaitUnregister, LocalAt, Waits, Distinct
  <2> QED BY <2>1, <2>2, <2>3, <1>15 DEF WaitUnregister
<1>16. CASE WaitSubtract(t) BY <1>16, <1>n DEF WaitSubtract
<1> QED BY <1>1, <1>2, <1>3, <1>4, <1>5, <1>6, <1>7, <1>8, <1>9, <1>10, <1>11,
  <1>12, <1>13, <1>14, <1>15, <1>16 DEF Acts, Works

(* Each step leaves the mutex of its first signal to a thread that waits   *)
(* there.                                                                  *)
LEMMA MutexStep ==
  ASSUME SignalsAssumption, TypeOK, LocalInv, MutexInv, NEW t \in Threads, Acts(t)
  PROVE  MutexInv'
<1>a. \A u \in Threads \ {t} : Stays(u) BY OthersStay
<1>0. LocalAt(t) BY DEF LocalInv
<1>1. ASSUME NEW u \in Threads \ {t}, pc'[u] \in {"Add", "Register", "Check"}
      PROVE  mutex'[First(u)] = u /\ First(u)' = First(u)
  <2>1. pc[u] \in {"Add", "Register", "Check"} /\ First(u)' = First(u)
    BY <1>a, <1>1 DEF Stays, First
  <2>4. mutex[First(u)] = u /\ u # None BY <2>1 DEF MutexInv, SignalsAssumption
  <2>5. array[u] # <<>> /\ array[u] \in Seq(Signals) BY <2>1 DEF LocalInv, LocalAt, TypeOK
  <2>2. mutex[First(u)] = u /\ u # None /\ First(u) \in Signals BY <2>4, <2>5 DEF First
  <2>3. mutex' = mutex \/ \E x \in Threads \cup {None} :
          mutex' = [mutex EXCEPT ![First(t)] = x] /\ mutex[First(t)] \in {None, t}
    <3>1. ASSUME Leaves(t), mutex[First(t)] \in {None, t}
          PROVE  \E x \in Threads \cup {None} :
                   mutex' = [mutex EXCEPT ![First(t)] = x] /\ mutex[First(t)] \in {None, t}
      BY <3>1 DEF Leaves
    <3>2. CASE Clear(t) BY <3>2 DEF Clear
    <3>3. CASE Set(t) BY <3>3 DEF Set
    <3>4. CASE WaitCall(t) BY <3>4 DEF WaitCall
    <3>5. CASE Wakes(t) BY <3>5 DEF Wakes
    <3>6. CASE SetLooks(t) BY <3>6 DEF SetLooks
    <3>7. CASE SetNext(t) BY <3>7 DEF SetNext
    <3>8. CASE SetNotify(t) BY <3>8 DEF SetNotify
    <3>9. CASE WaitLook(t) BY <3>9 DEF WaitLook
    <3>10. CASE WaitLock(t) BY <3>10 DEF WaitLock
    <3>11. CASE WaitAdd(t) BY <3>11 DEF WaitAdd
    <3>12. CASE WaitRegister(t)
      <4>1. mutex[First(t)] = t BY <3>12 DEF WaitRegister, MutexInv
      <4>2. mutex' = mutex \/ Leaves(t) BY <3>12 DEF WaitRegister, NextPlace
      <4> QED BY <4>1, <4>2, <3>1
    <3>13. CASE WaitCheck(t)
      <4>1. mutex[First(t)] = t BY <3>13 DEF WaitCheck, MutexInv
      <4>2. mutex' = mutex \/ Leaves(t) \/ mutex' = [mutex EXCEPT ![First(t)] = None]
        BY <3>13 DEF WaitCheck
      <4> QED BY <4>1, <4>2, <3>1
    <3>14. CASE Relock(t) BY <3>14 DEF Relock
    <3>15. CASE WaitTimedOut(t) BY <3>15, <3>1 DEF WaitTimedOut
    <3>16. CASE WaitUnregister(t) BY <3>16 DEF WaitUnregister
    <3>17. CASE WaitSubtract(t) BY <3>17 DEF WaitSubtract
    <3> QED BY <3>2, <3>3, <3>4, <3>5, <3>6, <3>7, <3>8, <3>9, <3>10, <3>11, <3>12,
      <3>13, <3>14, <3>15, <3>16, <3>17 DEF Acts, Works
  <2> QED BY <2>1, <2>2, <2>3 DEF TypeOK
<1>2. ASSUME pc'[t] \in {"Add", "Register", "Check"}
      PROVE  mutex'[First(t)] = t /\ First(t)' = First(t)
  <2>l. ASSUME Leaves(t) PROVE FALSE
    <3>1. pc'[t] \in {"Idle", "Unregister"} BY <2>l DEF Leaves, Return, Goto, TypeOK
    <3> QED BY <3>1, <1>2
  <2>r. ASSUME Return(t) PROVE FALSE
    <3>1. pc'[t] = "Idle" BY <2>r DEF Return, Goto, TypeOK
    <3> QED BY <3>1, <1>2
  <2>n. ASSUME NextLeft(t) PROVE FALSE
    <3>1. pc'[t] \in {"Idle", "Unregister"} BY <2>n DEF NextLeft, Return, Goto, TypeOK
    <3> QED BY <3>1, <1>2
  <2>m. pc[t] \in {"Add", "Register", "Check"} => mutex[First(t)] = t BY DEF MutexInv
  <2>1. ASSUME mutex' = mutex, array' = array, pc[t] \in {"Add", "Register", "Check"}
        PROVE  mutex'[First(t)] = t /\ First(t)' = First(t)
    BY <2>1, <2>m DEF First
  <2>2. ASSUME mutex' = [mutex EXCEPT ![First(t)] = t], array' = array, pc[t] # "Idle"
        PROVE  mutex'[First(t)] = t /\ First(t)' = First(t)
    <3>1. First(t) \in Signals BY <2>2, <1>0 DEF First, LocalAt, TypeOK
    <3> QED BY <2>2, <3>1 DEF First, TypeOK
  <2>3. CASE Clear(t) BY <1>2, <2>3 DEF Clear
  <2>4. CASE Set(t)
    <3>1. pc'[t] = "Looks" BY <2>4 DEF Set, Broadcast, TypeOK
    <3> QED BY <3>1, <1>2
  <2>5. CASE WaitCall(t)
    <3>1. pc'[t] = "Look" BY <2>5 DEF WaitCall, Goto, TypeOK
    <3> QED BY <3>1, <1>2
  <2>6. CASE Wakes(t)
    <3>1. pc'[t] \in {"Woken", "TimedOut"} BY <2>6 DEF Wakes, Goto, TypeOK
    <3> QED BY <3>1, <1>2
  <2>7. CASE SetLooks(t)
    <3>1. pc'[t] = "Next" BY <2>7, <2>r DEF SetLooks, Goto, TypeOK
    <3> QED BY <3>1, <1>2
  <2>8. CASE SetNext(t)
    <3>1. pc'[t] \in {"Next", "Notify"} BY <2>8, <2>r DEF SetNext, Goto, TypeOK
    <3> QED BY <3>1, <1>2
  <2>9. CASE SetNotify(t)
    <3>1. pc'[t] = "Next" BY <2>9 DEF SetNotify, Broadcast, TypeOK
    <3> QED BY <3>1, <1>2
  <2>10. CASE WaitLook(t)
    <3>1. pc'[t] \in {"Look", "Lock"} BY <2>10, <2>r DEF WaitLook, Goto, TypeOK
    <3> QED BY <3>1, <1>2
  <2>11. CASE WaitLock(t) BY <2>11, <2>2 DEF WaitLock
  <2>12. CASE WaitAdd(t) BY <2>12, <2>1 DEF WaitAdd
  <2>13. CASE WaitRegister(t)
    BY <2>13, <2>1, <2>l DEF WaitRegister, NextPlace
  <2>14. CASE WaitCheck(t)
    <3>1. CASE Goto(t, "Asleep") BY <3>1, <1>2 DEF Goto, TypeOK
    <3>2. CASE mutex' = mutex /\ array' = array BY <3>2, <2>14, <2>1 DEF WaitCheck
    <3> QED BY <3>1, <3>2, <2>14, <2>l DEF WaitCheck
  <2>15. CASE Relock(t) BY <2>15, <2>2 DEF Relock
  <2>16. CASE WaitTimedOut(t) BY <2>16, <2>l DEF WaitTimedOut
  <2>17. CASE WaitUnregister(t)
    <3>1. pc'[t] \in {"Unregister", "Subtract"} BY <2>17, <2>n DEF WaitUnregister, Goto, TypeOK
    <3> QED BY <3>1, <1>2
  <2>18. CASE WaitSubtract(t) BY <2>18, <2>n DEF WaitSubtract
  <2> QED BY <2>3, <2>4, <2>5, <2>6, <2>7, <2>8, <2>9, <2>10, <2>11, <2>12,
    <2>13, <2>14, <2>15, <2>16, <2>17, <2>18 DEF Acts, Works
<1>3. ASSUME NEW u \in Threads, pc'[u] \in {"Add", "Register", "Check"}
      PROVE  mutex'[First(u)'] = u
  BY <1>1, <1>2, <1>3
<1>4. ASSUME NEW u \in Threads PROVE First(u)' = array'[u][1] BY DEF First
<1> QED BY <1>3, <1>4 DEF MutexInv, First

(* A counter changes in CdiOsSignalSet alone, which holds the mutex.       *)
LEMMA NumberStep ==
  ASSUME TypeOK, NEW t \in Threads, Acts(t)
  PROVE  \/ number' = number
         \/ \E s \in Signals : /\ number' = [number EXCEPT ![s] = @ + 1]
                               /\ Set(t) /\ mutex[s] = None
                               /\ array' = [array EXCEPT ![t] = <<s>>]
                               /\ Broadcast(s, t, "Looks")
<1>1. CASE Set(t) BY <1>1 DEF Set
<1>2. CASE ~Set(t)
  BY <1>2 DEF Acts, Works, Clear, WaitCall, Wakes, SetLooks, SetNext, SetNotify,
    WaitLook, WaitLock, WaitAdd, WaitRegister, WaitCheck, Relock, WaitTimedOut,
    WaitUnregister, WaitSubtract
<1> QED BY <1>1, <1>2

-----------------------------------------------------------------------------
(* A wake-up that a thread has missed was missed before, or has just been  *)
(* sent.                                                                   *)
(* A thread comes to sleep, or past its first signal, from its check of the*)
(* counters alone.                                                         *)
LEMMA SleepsAfterCheck ==
  ASSUME TypeOK, LocalInv, NEW t \in Threads, Acts(t), pc'[t] \in {"Asleep", "Check"}
  PROVE  WaitCheck(t) \/ (pc'[t] = "Check" /\ i'[t] = 1)
<1> SUFFICES ASSUME ~WaitCheck(t) PROVE pc'[t] = "Check" /\ i'[t] = 1
  OBVIOUS
<1>r. ASSUME Return(t) PROVE FALSE
  <2>1. pc'[t] = "Idle" BY <1>r DEF Return, Goto, TypeOK
  <2> QED BY <2>1
<1>l. ASSUME Leaves(t) PROVE FALSE
  <2>1. pc'[t] \in {"Idle", "Unregister"} BY <1>l DEF Leaves, Return, Goto, TypeOK
  <2> QED BY <2>1
<1>n. ASSUME NextLeft(t) PROVE FALSE
  <2>1. pc'[t] \in {"Idle", "Unregister"} BY <1>n DEF NextLeft, Return, Goto, TypeOK
  <2> QED BY <2>1
<1>g. ASSUME NEW next, Goto(t, next) PROVE pc'[t] = next BY <1>g DEF Goto, TypeOK
<1>1. CASE Clear(t) BY <1>1 DEF Clear
<1>2. CASE Set(t) BY <1>2 DEF Set, Broadcast
<1>3. CASE WaitCall(t) BY <1>3, <1>g DEF WaitCall
<1>4. CASE Wakes(t)
  <2>1. PICK next \in {"Woken", "TimedOut"} : Goto(t, next) BY <1>4 DEF Wakes
  <2> QED BY <2>1, <1>g
<1>5. CASE SetLooks(t)
  <2>1. pc'[t] = "Next" BY <1>5, <1>r, <1>g DEF SetLooks
  <2> QED BY <2>1
<1>6. CASE SetNext(t)
  <2>1. pc'[t] \in {"Next", "Notify"} BY <1>6, <1>r, <1>g DEF SetNext
  <2> QED BY <2>1
<1>7. CASE SetNotify(t) BY <1>7 DEF SetNotify, Broadcast
<1>8. CASE WaitLook(t)
  <2>1. pc'[t] \in {"Look", "Lock"} BY <1>8, <1>r, <1>g DEF WaitLook
  <2> QED BY <2>1
<1>9. CASE WaitLock(t)
  <2>1. pc'[t] = "Add" \/ (pc'[t] = "Check" /\ i'[t] = 1)
    BY <1>9, <1>g DEF WaitLock, TypeOK
  <2> QED BY <2>1
<1>10. CASE WaitAdd(t) BY <1>10, <1>g DEF WaitAdd
<1>11. CASE WaitRegister(t)
  <2>1. pc'[t] \in {"Add", "Register"} \/ (pc'[t] = "Check" /\ i'[t] = 1)
    BY <1>11, <1>l, <1>g DEF WaitRegister, NextPlace, TypeOK
  <2> QED BY <2>1
<1>13. CASE Relock(t) BY <1>13, <1>g DEF Relock, TypeOK
<1>14. CASE WaitTimedOut(t) BY <1>14, <1>l DEF WaitTimedOut
<1>15. CASE WaitUnregister(t)
  <2>1. pc'[t] \in {"Unregister", "Subtract"} BY <1>15, <1>n, <1>g DEF WaitUnregister
  <2> QED BY <2>1
<1>16. CASE WaitSubtract(t) BY <1>16, <1>n DEF WaitSubtract
<1> QED BY <1>1, <1>2, <1>3, <1>4, <1>5, <1>6, <1>7, <1>8, <1>9, <1>10, <1>11,
  <1>13, <1>14, <1>15, <1>16 DEF Acts, Works

(* A change that a thread has missed after a step it had missed before, or *)
(* the step is the one that set the signal, and then it is not the first   *)
(* signal of the thread: that one wakes its sleepers at once.              *)
LEMMA MissedBefore ==
  ASSUME SignalsAssumption, TypeOK, LocalInv, MutexInv, NEW t \in Threads, Acts(t),
         NEW u \in Threads, NEW n \in Nat \ {0}, n <= Len(array'[u]), Missed(u, n)'
  PROVE  /\ array'[u] = array[u]
         /\ pc[u] \in {"Asleep", "Check"}
         /\ \/ Missed(u, n)
            \/ /\ n # 1 /\ u # t
               /\ Set(t) /\ First(t)' = array[u][n] /\ pc'[t] = "Looks"
<1>a. \A v \in Threads \ {t} : Stays(v) BY OthersStay
<1>m. pc'[u] = "Asleep" \/ (pc'[u] = "Check" /\ n < i'[u]) BY DEF Missed
<1>d. number'[array'[u][n]] # seen'[u][n] BY DEF Missed, Changed
<1>1. CASE u = t
  <2>1. WaitCheck(t)
    <3>1. WaitCheck(t) \/ (pc'[t] = "Check" /\ i'[t] = 1)
      BY <1>1, <1>m, SleepsAfterCheck
    <3> QED BY <3>1, <1>m, <1>1
  <2>2. ~Leaves(t)
    <3>1. ASSUME Leaves(t) PROVE pc'[t] \in {"Idle", "Unregister"}
      BY <3>1 DEF Leaves, Return, Goto, TypeOK
    <3> QED BY <3>1, <1>m, <1>1
  <2>3. /\ pc[t] = "Check" /\ number' = number /\ array' = array /\ seen' = seen
        /\ number[This(t)] = seen[t][i[t]]
        /\ \/ i' = [i EXCEPT ![t] = @ + 1] /\ pc' = pc
           \/ i[t] = Len(array[t])
    BY <2>1, <2>2 DEF WaitCheck, Step
  <2>4. i[t] \in Nat BY DEF TypeOK
  <2>5. n <= i[t]
    <3>1. CASE i' = [i EXCEPT ![t] = @ + 1] /\ pc' = pc
      <4>1. i'[t] = i[t] + 1 BY <3>1 DEF TypeOK
      <4> QED BY <4>1, <3>1, <2>3, <2>4, <1>m, <1>1
    <3>2. CASE i[t] = Len(array[t]) BY <3>2, <2>3, <1>1
    <3> QED BY <3>1, <3>2, <2>3
  <2>6. n # i[t] BY <1>1, <1>d, <2>3 DEF This
  <2> QED BY <1>1, <1>d, <2>3, <2>4, <2>5, <2>6 DEF Missed, Changed
<1>2. CASE u # t
  <2>1. Stays(u) BY <1>2, <1>a
  <2>2. /\ array'[u] = array[u] /\ seen'[u] = seen[u] /\ i'[u] = i[u] /\ pc'[u] = pc[u]
    BY <2>1, <1>m DEF Stays
  <2>3. CASE number' = number BY <2>2, <2>3, <1>m, <1>d DEF Missed, Changed
  <2>4. CASE \E s \in Signals :
               /\ number' = [number EXCEPT ![s] = @ + 1]
               /\ Set(t) /\ mutex[s] = None
               /\ array' = [array EXCEPT ![t] = <<s>>]
               /\ Broadcast(s, t, "Looks")
    <3>1. PICK s \in Signals :
               /\ number' = [number EXCEPT ![s] = @ + 1]
               /\ Set(t) /\ mutex[s] = None
               /\ array' = [array EXCEPT ![t] = <<s>>]
               /\ Broadcast(s, t, "Looks")
      BY <2>4
    <3>2. CASE array[u][n] # s
      <4>1. array[u] \in Seq(Signals) /\ n \in 1 .. Len(array[u]) BY <2>2 DEF TypeOK
      <4>2. array[u][n] \in Signals BY <4>1
      <4>3. number'[array[u][n]] = number[array[u][n]] BY <4>2, <3>1, <3>2 DEF TypeOK
      <4> QED BY <4>3, <2>2, <1>m, <1>d DEF Missed, Changed
    <3>3. CASE array[u][n] = s
      <4>1. pc'[t] = "Looks" /\ array'[t] = <<s>> BY <3>1 DEF Broadcast, TypeOK
      <4>2. First(t)' = s BY <4>1 DEF First
      <4>3. n # 1
        <5> SUFFICES ASSUME n = 1 PROVE FALSE OBVIOUS
        <5>1. First(u) = s BY <3>3 DEF First
        <5>2. CASE pc[u] = "Check"
          <6>1. mutex[s] = u BY <5>1, <5>2 DEF MutexInv
          <6> QED BY <6>1, <3>1 DEF SignalsAssumption
        <5>3. CASE pc[u] = "Asleep"
          <6>1. pc'[u] = "Woken" BY <5>3, <5>1, <3>1, <1>2 DEF Broadcast, Sleeps
          <6> QED BY <6>1, <1>m
        <5> QED BY <5>2, <5>3, <2>2, <1>m
      <4> QED BY <4>1, <4>2, <4>3, <3>1, <3>3, <2>2, <1>m, <1>2
    <3> QED BY <3>2, <3>3
  <2> QED BY <2>3, <2>4, NumberStep
<1> QED BY <1>1, <1>2

(* Each step keeps that no thread has missed its first signal.             *)
LEMMA FirstStep ==
  ASSUME SignalsAssumption, TypeOK, LocalInv, MutexInv, FirstInv,
         NEW t \in Threads, Acts(t)
  PROVE  FirstInv'
<1> SUFFICES ASSUME NEW u \in Threads, pc'[u] \in Waits, Missed(u, 1)' PROVE FALSE
  BY DEF FirstInv
<1>1. LocalInv' BY LocalStep
<1>2. 1 <= Len(array'[u])
  <2>1. array'[u] # <<>> BY <1>1 DEF LocalInv, LocalAt, Waits
  <2>2. array'[u] \in Seq(Signals) BY LocalTypesStep DEF LocalTypes
  <2> QED BY <2>1, <2>2
<1>3. pc[u] \in {"Asleep", "Check"} /\ Missed(u, 1) BY <1>2, MissedBefore
<1> QED BY <1>3 DEF FirstInv, Waits

-----------------------------------------------------------------------------
(* What a step does to the counts and slots of one signal.                 *)

(* u is counted, and has a slot, as before.                                *)
SameCount(u, s) == Counted(u, s)' <=> Counted(u, s)
SameView(u, s) ==
  /\ SameCount(u, s)
  /\ Counted(u, s) => /\ First(u)' = First(u)
                      /\ HasSlot(u, s)' <=> HasSlot(u, s)

(* A thread that is only woken is counted as before and has the slots it   *)
(* had.                                                                    *)
LEMMA StaysView ==
  ASSUME NEW u \in Threads, Stays(u), NEW s
  PROVE  /\ SameView(u, s)
         /\ First(u)' = First(u)
         /\ Searches(u, s)' <=> Searches(u, s)
<1>1. ASSUME NEW n PROVE Counts(u, n)' <=> Counts(u, n)
  BY DEF Counts, Stays, Registered
<1>2. SameCount(u, s)
  BY <1>1 DEF SameCount, Counted, Stays
<1>3. First(u)' = First(u) BY DEF First, Stays
<1>4. (HasSlot(u, s)' <=> HasSlot(u, s)) /\ (Searches(u, s)' <=> Searches(u, s))
  BY DEF HasSlot, Searches, This, Stays
<1> QED BY <1>2, <1>3, <1>4 DEF SameView

(* A thread outside of these places is counted by no signal.               *)
LEMMA Uncounted ==
  ASSUME NEW u, NEW s,
         pc[u] \notin {"Add", "Register", "Unregister", "Subtract"} \cup Registered
  PROVE  ~Counted(u, s)
BY DEF Counted, Counts

(* The same after the step.                                                *)
LEMMA UncountedNext ==
  ASSUME NEW u, NEW s,
         pc'[u] \notin {"Add", "Register", "Unregister", "Subtract"} \cup Registered
  PROVE  ~Counted(u, s)'
BY DEF Counted, Counts

(* The thread looks for its slot of s, and goes on after a slot of another.*)
Search(t, s) ==
  Counted(t, s) /\ Searches(t, s)' =>
    \/ j'[t] = 1
    \/ /\ Searches(t, s) /\ j'[t] = j[t] + 1
       /\ slots[s][j[t]] # IF HasSlot(t, s) THEN First(t) ELSE None
(* A step that changes neither the count nor the slots of s.               *)
Quiet(t, s) ==
  /\ SameView(t, s)
  /\ slots'[s] = slots[s] /\ others'[s] = others[s]
  /\ Search(t, s)
(* The four steps that do, for This(t).                                    *)
Added(t) ==
  /\ pc[t] = "Add" /\ others[This(t)] < MaxThreadsWaiting
  /\ others' = [others EXCEPT ![This(t)] = @ + 1] /\ slots' = slots
  /\ pc'[t] = "Register" /\ j'[t] = 1 /\ array' = array /\ i' = i
Entered(t) ==
  /\ pc[t] = "Register" /\ slots[This(t)][j[t]] = None
  /\ slots' = [slots EXCEPT ![This(t)] = [@ EXCEPT ![j[t]] = First(t)]]
  /\ others' = others
  /\ array' = array
  /\ \/ pc'[t] = "Add" /\ i'[t] = i[t] + 1
     \/ pc'[t] = "Check" /\ i'[t] = 1 /\ i[t] = Len(array[t])
Left(t) ==
  /\ pc[t] = "Unregister" /\ slots[This(t)][j[t]] = First(t)
  /\ slots' = [slots EXCEPT ![This(t)] = [@ EXCEPT ![j[t]] = None]]
  /\ others' = others
  /\ array' = array /\ i' = i /\ pc'[t] = "Subtract"
Subtracted(t) ==
  /\ pc[t] = "Subtract"
  /\ others' = [others EXCEPT ![This(t)] = @ - 1] /\ slots' = slots
  /\ \/ pc'[t] = "Idle" /\ i[t] = Len(array[t])
     \/ /\ pc'[t] = "Unregister" /\ i'[t] = i[t] + 1 /\ j'[t] = 1
        /\ array' = array
Special(t) == Added(t) \/ Entered(t) \/ Left(t) \/ Subtracted(t)

(* The end of a wait changes no count and no slot yet.                     *)
LEMMA LeavesQuiet ==
  ASSUME TypeOK, LocalInv, NEW t \in Threads, NEW s \in Signals, Leaves(t),
         pc[t] \in Registered, slots' = slots, others' = others
  PROVE  Quiet(t, s)
<1>1. CASE Len(array[t]) = 1
  <2>1. pc'[t] = "Idle" BY <1>1 DEF Leaves, Return, Goto, TypeOK
  <2>2. ~Counted(t, s)' BY <2>1, UncountedNext DEF Registered
  <2>3. ~Counted(t, s) BY <1>1 DEF Counted
  <2> QED BY <2>2, <2>3 DEF Quiet, SameView, SameCount, Search
<1>2. CASE Len(array[t]) # 1
  <2>1. pc'[t] = "Unregister" /\ i'[t] = 2 /\ j'[t] = 1 /\ array' = array
    BY <1>2 DEF Leaves, Goto, TypeOK
  <2>2. \A n \in 2 .. Len(array[t]) : Counts(t, n)' /\ Counts(t, n)
    BY <2>1 DEF Counts
  <2>3. SameCount(t, s) BY <2>1, <2>2 DEF SameCount, Counted
  <2>4. HasSlot(t, s)' /\ HasSlot(t, s) BY <2>1 DEF HasSlot, Registered
  <2> QED BY <2>1, <2>3, <2>4 DEF Quiet, SameView, Search, First
<1> QED BY <1>1, <1>2

(* The four steps that change a count or a slot change nothing for the     *)
(* other signals.                                                          *)
LEMMA SpecialElsewhere ==
  ASSUME TypeOK, LocalInv, NEW t \in Threads, NEW s \in Signals, Special(t), s # This(t)
  PROVE  Quiet(t, s)
<1>0. LocalAt(t) /\ i[t] \in Nat /\ Len(array[t]) \in Nat BY DEF LocalInv, TypeOK
<1>1. CASE Added(t)
  <2>1. \A n \in 2 .. Len(array[t]) : n # i[t] => (Counts(t, n)' <=> Counts(t, n))
    BY <1>1, <1>0 DEF Added, Counts, Registered
  <2>2. SameCount(t, s) BY <2>1, <1>1 DEF SameCount, Counted, Added, This
  <2>3. HasSlot(t, s)' /\ HasSlot(t, s) /\ ~Searches(t, s)'
    BY <1>1 DEF HasSlot, Searches, Added, This
  <2> QED BY <2>2, <2>3, <1>1 DEF Quiet, SameView, Search, First, Added, TypeOK
<1>2. CASE Entered(t)
  <2>1. \A n \in 2 .. Len(array[t]) : Counts(t, n)' <=> Counts(t, n)
    BY <1>2, <1>0 DEF Entered, Counts, Registered
  <2>2. SameCount(t, s) BY <2>1, <1>2 DEF SameCount, Counted, Entered
  <2>3. HasSlot(t, s)' /\ HasSlot(t, s) /\ ~Searches(t, s)'
    BY <1>2 DEF HasSlot, Searches, Entered
  <2>4. slots'[s] = slots[s] BY <1>2 DEF Entered, TypeOK
  <2> QED BY <2>2, <2>3, <2>4, <1>2 DEF Quiet, SameView, Search, First, Entered
<1>3. CASE Left(t)
  <2>1. \A n \in 2 .. Len(array[t]) : Counts(t, n)' <=> Counts(t, n)
    BY <1>3, <1>0 DEF Left, Counts, Registered
  <2>2. SameCount(t, s) BY <2>1, <1>3 DEF SameCount, Counted, Left
  <2>3. HasSlot(t, s)' /\ HasSlot(t, s) /\ ~Searches(t, s)'
    BY <1>3 DEF HasSlot, Searches, Left, This
  <2>4. slots'[s] = slots[s] BY <1>3 DEF Left, TypeOK
  <2> QED BY <2>2, <2>3, <2>4, <1>3 DEF Quiet, SameView, Search, First, Left
<1>4. CASE Subtracted(t)
  <2>1. others'[s] = others[s] /\ slots'[s] = slots[s] BY <1>4 DEF Subtracted, TypeOK
  <2>2. CASE pc'[t] = "Idle" /\ i[t] = Len(array[t])
    <3>1. ~Counted(t, s)' BY <2>2, UncountedNext DEF Registered
    <3>2. \A n \in 2 .. Len(array[t]) : Counts(t, n) => n = i[t]
      BY <2>2, <1>4, <1>0 DEF Subtracted, Counts, Registered
    <3>3. ~Counted(t, s) BY <3>2 DEF Counted, This
    <3> QED BY <3>1, <3>3, <2>1 DEF Quiet, SameView, SameCount, Search
  <2>3. CASE pc'[t] = "Unregister" /\ i'[t] = i[t] + 1 /\ j'[t] = 1 /\ array' = array
    <3>1. \A n \in 2 .. Len(array[t]) : n # i[t] => (Counts(t, n)' <=> Counts(t, n))
      BY <2>3, <1>4, <1>0 DEF Subtracted, Counts, Registered
    <3>2. SameCount(t, s)
      <4>1. \A n \in 2 .. Len(array[t]) : array[t][n] = s => n # i[t] BY DEF This
      <4> QED BY <3>1, <4>1, <2>3 DEF SameCount, Counted
    <3>3. HasSlot(t, s)' /\ HasSlot(t, s)
      BY <2>3, <1>4 DEF HasSlot, Subtracted
    <3> QED BY <3>2, <3>3, <2>1, <2>3 DEF Quiet, SameView, Search, First
  <2> QED BY <2>2, <2>3, <1>4 DEF Subtracted
<1> QED BY <1>1, <1>2, <1>3, <1>4 DEF Special

(* Once a wait has found no place this is remembered, and until then no    *)
(* wait fails.                                                             *)
LEMMA OverflowStays ==
  ASSUME TypeOK, FailedInv, NEW t \in Threads, Acts(t)
  PROVE  /\ overflow => overflow'
         /\ FailedInv'
<1>1. \/ UNCHANGED <<failed, overflow>>
      \/ failed' = failed \ {t} /\ overflow' = overflow
      \/ overflow'
  <2>1. CASE Clear(t) BY <2>1 DEF Clear, book
  <2>2. CASE Set(t) BY <2>2 DEF Set
  <2>3. CASE WaitCall(t) BY <2>3 DEF WaitCall
  <2>4. CASE Wakes(t) BY <2>4 DEF Wakes, book
  <2>5. CASE WaitAdd(t) BY <2>5 DEF WaitAdd, Fails
  <2>6. CASE WaitRegister(t) BY <2>6 DEF WaitRegister, Fails
  <2>7. CASE SetLooks(t) \/ SetNext(t) \/ SetNotify(t)
    BY <2>7 DEF SetLooks, SetNext, SetNotify, book
  <2>8. CASE WaitLook(t) \/ WaitLock(t) \/ WaitCheck(t)
    BY <2>8 DEF WaitLook, WaitLock, WaitCheck, book
  <2>9. CASE Relock(t) \/ WaitTimedOut(t) \/ WaitUnregister(t) \/ WaitSubtract(t)
    BY <2>9 DEF Relock, WaitTimedOut, WaitUnregister, WaitSubtract, book
  <2> QED BY <2>1, <2>2, <2>3, <2>4, <2>5, <2>6, <2>7, <2>8, <2>9 DEF Acts, Works
<1> QED BY <1>1 DEF FailedInv

(* While every wait finds a place each step is quiet for a signal, or one  *)
(* of the four.                                                            *)
LEMMA ViewStep ==
  ASSUME SignalsAssumption, TypeOK, LocalInv, FailedInv, ~overflow', SearchesEnd,
         NEW t \in Threads, Acts(t), NEW s \in Signals
  PROVE  Quiet(t, s) \/ Special(t)
<1>0. LocalAt(t) /\ i[t] \in Nat /\ Len(array[t]) \in Nat BY DEF LocalInv, TypeOK
<1>f. failed = {} /\ ~overflow BY OverflowStays DEF FailedInv
<1>u. ASSUME pc[t] \notin {"Add", "Register", "Unregister", "Subtract"} \cup Registered,
             pc'[t] \notin {"Add", "Register", "Unregister", "Subtract"} \cup Registered,
             slots' = slots, others' = others
      PROVE  Quiet(t, s)
  <2>1. ~Counted(t, s) /\ ~Counted(t, s)' BY <1>u, Uncounted, UncountedNext
  <2> QED BY <2>1, <1>u DEF Quiet, SameView, SameCount, Search
<1>r. ASSUME NEW r \in Registered, pc[t] \in Registered, pc'[t] = r, array' = array,
             slots' = slots, others' = others
      PROVE  Quiet(t, s)
  <2>1. \A n : Counts(t, n) /\ Counts(t, n)' BY <1>r DEF Counts
  <2>2. SameCount(t, s) BY <2>1, <1>r DEF SameCount, Counted
  <2>3. HasSlot(t, s) /\ HasSlot(t, s)' /\ ~Searches(t, s)'
    BY <1>r DEF HasSlot, Searches, Registered
  <2> QED BY <2>2, <2>3, <1>r DEF Quiet, SameView, Search, First
<1>g. ASSUME NEW next, Goto(t, next) PROVE pc'[t] = next BY <1>g DEF Goto, TypeOK
<1>t. ASSUME Return(t) PROVE pc'[t] = "Idle" BY <1>t, <1>g DEF Return
<1>1. CASE Clear(t)
  BY <1>1 DEF Clear, Quiet, SameView, SameCount, Counted, Counts, HasSlot, This, First,
     Search, Searches
<1>2. CASE Set(t)
  <2>1. pc'[t] = "Looks" BY <1>2 DEF Set, Broadcast
  <2> QED BY <2>1, <1>2, <1>u DEF Set, Registered
<1>3. CASE WaitCall(t) BY <1>3, <1>g, <1>u DEF WaitCall, Registered
<1>4. CASE Wakes(t)
  <2>1. PICK next \in {"Woken", "TimedOut"} : Goto(t, next) BY <1>4 DEF Wakes
  <2>2. pc'[t] = next BY <2>1, <1>g
  <2> QED BY <2>1, <2>2, <1>4, <1>r DEF Wakes, Registered
<1>5. CASE SetLooks(t)
  <2>1. pc'[t] \in {"Next", "Idle"} BY <1>5, <1>g, <1>t DEF SetLooks
  <2> QED BY <2>1, <1>5, <1>u DEF SetLooks, Registered
<1>6. CASE SetNext(t)
  <2>1. pc'[t] \in {"Next", "Idle", "Notify"} BY <1>6, <1>g, <1>t DEF SetNext
  <2> QED BY <2>1, <1>6, <1>u DEF SetNext, Registered
<1>7. CASE SetNotify(t)
  <2>1. pc'[t] = "Next" BY <1>7 DEF SetNotify, Broadcast
  <2> QED BY <2>1, <1>7, <1>u DEF SetNotify, Registered
<1>8. CASE WaitLook(t)
  <2>1. pc'[t] \in {"Look", "Lock", "Idle"} BY <1>8, <1>g, <1>t DEF WaitLook
  <2> QED BY <2>1, <1>8, <1>u DEF WaitLook, Registered
<1>9. CASE WaitLock(t)
  <2>1. ~Counted(t, s) BY <1>9, Uncounted DEF WaitLock, Registered
  <2>2. ~Counted(t, s)'
    <3>1. CASE Len(array[t]) > 1
      <4>1. pc'[t] = "Add" /\ i'[t] = 2 BY <3>1, <1>9 DEF WaitLock, Goto, TypeOK
      <4> QED BY <4>1 DEF Counted, Counts, Registered
    <3>2. CASE ~(Len(array[t]) > 1)
      BY <3>2, <1>0, <1>9 DEF WaitLock, Counted
    <3> QED BY <3>1, <3>2
  <2> QED BY <2>1, <2>2, <1>9 DEF WaitLock, Quiet, SameView, SameCount, Search
<1>10. CASE WaitAdd(t)
  <2>1. ~Fails(t) BY DEF Fails
  <2>2. pc'[t] = "Register" /\ j'[t] = 1 BY <1>10 DEF WaitAdd, Goto, TypeOK
  <2> QED BY <2>1, <2>2, <1>10 DEF WaitAdd, Special, Added
<1>11. CASE WaitRegister(t)
  <2>1. ~Fails(t) BY DEF Fails
  <2>2. CASE /\ slots[This(t)][j[t]] = None
             /\ slots' = [slots EXCEPT ![This(t)] = [@ EXCEPT ![j[t]] = First(t)]]
             /\ UNCHANGED <<others, failed, overflow>>
             /\ NextPlace(t)
    <3>1. failed' = {} BY <2>2, <1>f
    <3>2. \/ i[t] < Len(array[t]) /\ Step(t) /\ Goto(t, "Add") /\ array' = array
          \/ i[t] = Len(array[t]) /\ i' = [i EXCEPT ![t] = 1] /\ Goto(t, "Check") /\ array' = array
      BY <3>1, <2>2 DEF NextPlace
    <3>3. \/ pc'[t] = "Add" /\ i'[t] = i[t] + 1 /\ array' = array
          \/ pc'[t] = "Check" /\ i'[t] = 1 /\ i[t] = Len(array[t]) /\ array' = array
      BY <3>2, <1>g DEF Step, TypeOK
    <3> QED BY <3>3, <2>2, <1>11 DEF Special, Entered, WaitRegister
  <2>3. CASE /\ slots[This(t)][j[t]] # None
             /\ j' = [j EXCEPT ![t] = @ + 1]
             /\ UNCHANGED <<others, slots, mutex, pc, array, seen, i, failed, overflow>>
    <3>1. \A n : Counts(t, n)' <=> Counts(t, n) BY <2>3 DEF Counts
    <3>2. SameCount(t, s) BY <3>1, <2>3 DEF SameCount, Counted
    <3>3. HasSlot(t, s)' <=> HasSlot(t, s) BY <2>3 DEF HasSlot, This
    <3>4. j'[t] = j[t] + 1 BY <2>3 DEF TypeOK
    <3>5. Searches(t, s)' => Searches(t, s) /\ ~HasSlot(t, s) /\ This(t) = s
      BY <1>11, <2>3 DEF WaitRegister, Searches, HasSlot, This
    <3> QED BY <3>2, <3>3, <3>4, <3>5, <2>3 DEF Quiet, SameView, Search, First
  <2>4. j[t] <= MaxThreadsWaiting BY <1>11, <1>f DEF SearchesEnd, WaitRegister, Slots
  <2>5. j[t] \in Nat /\ MaxThreadsWaiting \in Nat BY DEF TypeOK, SignalsAssumption
  <2> QED BY <2>1, <2>2, <2>3, <2>4, <2>5, <1>11 DEF WaitRegister
<1>12. CASE WaitCheck(t)
  <2>1. pc[t] \in Registered /\ slots' = slots /\ others' = others
    BY <1>12 DEF WaitCheck, Registered
  <2>2. CASE Leaves(t) BY <2>1, <2>2, LeavesQuiet
  <2>3. CASE Goto(t, "Asleep") /\ array' = array
    BY <2>1, <2>3, <1>g, <1>r DEF Registered
  <2>4. CASE pc' = pc /\ array' = array
    BY <2>1, <2>4, <1>r
  <2> QED BY <2>2, <2>3, <2>4, <1>12 DEF WaitCheck
<1>13. CASE Relock(t)
  <2>1. pc'[t] = "Check" BY <1>13, <1>g DEF Relock
  <2> QED BY <2>1, <1>13, <1>r DEF Relock, Registered
<1>14. CASE WaitTimedOut(t) BY <1>14, LeavesQuiet DEF WaitTimedOut, Registered
<1>15. CASE WaitUnregister(t)
  <2>2. CASE /\ slots[This(t)][j[t]] = First(t)
             /\ slots' = [slots EXCEPT ![This(t)] = [@ EXCEPT ![j[t]] = None]]
             /\ Goto(t, "Subtract")
             /\ UNCHANGED <<array, seen, i, j>>
    BY <2>2, <1>g, <1>15 DEF WaitUnregister, Special, Left
  <2>3. CASE /\ slots[This(t)][j[t]] # First(t)
             /\ j' = [j EXCEPT ![t] = @ + 1]
             /\ UNCHANGED <<slots, pc, array, seen, i>>
    <3>1. \A n : Counts(t, n)' <=> Counts(t, n) BY <2>3 DEF Counts
    <3>2. SameCount(t, s) BY <3>1, <2>3 DEF SameCount, Counted
    <3>3. HasSlot(t, s)' /\ HasSlot(t, s) BY <1>15, <2>3 DEF HasSlot, This, WaitUnregister
    <3>4. j'[t] = j[t] + 1 BY <2>3 DEF TypeOK
    <3>5. Searches(t, s)' => Searches(t, s) /\ This(t) = s
      BY <1>15, <2>3 DEF WaitUnregister, Searches, This
    <3>6. others' = others BY <1>15 DEF WaitUnregister
    <3> QED BY <3>2, <3>3, <3>4, <3>5, <3>6, <2>3 DEF Quiet, SameView, Search, First
  <2>4. j[t] <= MaxThreadsWaiting BY <1>15, <1>f DEF SearchesEnd, WaitUnregister, Slots
  <2>5. j[t] \in Nat /\ MaxThreadsWaiting \in Nat BY DEF TypeOK, SignalsAssumption
  <2> QED BY <2>2, <2>3, <2>4, <2>5, <1>15 DEF WaitUnregister
<1>16. CASE WaitSubtract(t)
  <2>1. \/ pc'[t] = "Idle" /\ i[t] = Len(array[t])
        \/ pc'[t] = "Unregister" /\ i'[t] = i[t] + 1 /\ j'[t] = 1 /\ array' = array
    <3>1. \/ Return(t) /\ i[t] = Len(array[t])
          \/ /\ Step(t) /\ j' = [j EXCEPT ![t] = 1] /\ Goto(t, "Unregister")
             /\ array' = array
      BY <1>16 DEF WaitSubtract, NextLeft
    <3> QED BY <3>1, <1>g, <1>t DEF Step, TypeOK
  <2> QED BY <2>1, <1>16 DEF WaitSubtract, Special, Subtracted
<1> QED BY <1>1, <1>2, <1>3, <1>4, <1>5, <1>6, <1>7, <1>8, <1>9, <1>10, <1>11,
  <1>12, <1>13, <1>14, <1>15, <1>16 DEF Acts, Works

-----------------------------------------------------------------------------
(* The slots that are given to the threads.                                *)
(* The thread that has set s comes to the slot of a sleeping thread until  *)
(* it has woken it: it does not pass the slot, and when it wakes it holds  *)
(* no stale pointer.                                                       *)
LEMMA ComesStep ==
  ASSUME SignalsAssumption, TypeOK, LocalInv, MutexInv, NEW t \in Threads, Acts(t),
         NEW s \in Signals, NEW place \in [Threads -> Slots], Placed(s, place),
         others[s] > 0,
         NEW u \in Threads, Counted(u, s), HasSlot(u, s), First(u)' = First(u),
         pc[u] \in {"Asleep", "Check"}, pc'[u] \in {"Asleep", "Check"},
         NEW v \in Threads, Comes(v, s, place[u], First(u))
  PROVE  Comes(v, s, place[u], First(u))'
<1>k. place[u] \in Slots /\ place[u] \in Nat /\ place[u] >= 1 /\ place[u] <= MaxThreadsWaiting
  BY DEF Slots
<1>f. First(u) \in Signals /\ First(u) # None
  BY DEF First, LocalInv, LocalAt, TypeOK, SignalsAssumption
<1>h. slots[s][place[u]] = First(u) BY DEF Placed
<1>1. CASE v # t
  <2>1. Stays(v) BY <1>1, OthersStay
  <2>2. pc'[v] = pc[v] BY <2>1 DEF Stays, Comes, Sets
  <2>3. First(v)' = First(v) BY <2>1 DEF First, Stays
  <2> QED BY <2>1, <2>2, <2>3 DEF Comes, Stays
<1>2. CASE v = t
  <2>0. LocalAt(t) /\ i[t] \in Nat BY DEF LocalInv, TypeOK
  <2>1. pc[t] \in Sets /\ First(t) = s BY <1>2 DEF Comes
  <2>2. SetLooks(t) \/ SetNext(t) \/ SetNotify(t)
    BY <2>1 DEF Sets, Acts, Works, Clear, Set, WaitCall, Wakes, WaitLook, WaitLock, WaitAdd,
       WaitRegister, WaitCheck, Relock, WaitTimedOut, WaitUnregister, WaitSubtract
  <2>3. CASE SetLooks(t)
    <3>1. pc'[t] = "Next" /\ i'[t] = 1 /\ First(t)' = s
      BY <2>3, <2>1, <2>0 DEF SetLooks, Goto, First, LocalAt, TypeOK
    <3> QED BY <3>1, <1>2, <1>k DEF Comes, Sets
  <2>4. CASE SetNext(t)
    <3>1. i[t] <= place[u] /\ i[t] >= 1
      BY <2>4, <1>2, <2>0 DEF SetNext, Comes, LocalAt
    <3>2. CASE slots[First(t)][i[t]] = None /\ Step(t) /\ UNCHANGED <<pc, array, seen, j>>
      <4>1. i[t] # place[u] BY <3>2, <2>1, <1>h, <1>f
      <4>4. i'[t] = i[t] + 1 BY <3>2 DEF Step, TypeOK
      <4>2. i'[t] <= place[u] BY <4>1, <4>4, <3>1, <2>0, <1>k
      <4>3. pc'[t] = "Next" /\ First(t)' = s BY <3>2, <2>4, <2>1 DEF SetNext, First
      <4> QED BY <4>2, <4>3, <1>2 DEF Comes, Sets
    <3>3. CASE /\ array' = [array EXCEPT ![t] = <<First(t), slots[First(t)][i[t]]>>]
               /\ Goto(t, "Notify") /\ UNCHANGED <<seen, i, j>>
      <4>1. pc'[t] = "Notify" /\ i'[t] = i[t] /\ array'[t] = <<s, slots[s][i[t]]>>
        BY <3>3, <2>1 DEF Goto, TypeOK
      <4>2. First(t)' = s /\ array'[t][2] = slots[s][i[t]] BY <4>1 DEF First
      <4>3. CASE i[t] = place[u]
        <5>1. array'[t][2] = First(u)' BY <4>3, <4>2, <1>h
        <5> QED BY <5>1, <4>1, <4>2, <1>2 DEF Comes, Sets
      <4>4. CASE i[t] # place[u]
        <5>1. i'[t] < place[u] BY <4>4, <3>1, <4>1, <1>k, <2>0
        <5> QED BY <5>1, <4>1, <4>2, <1>2 DEF Comes, Sets
      <4> QED BY <4>3, <4>4
    <3>4. ~(i[t] > LastSlot(t)) BY <3>1, <1>k, <2>0 DEF LastSlot, SignalsAssumption
    <3> QED BY <3>2, <3>3, <3>4, <2>4 DEF SetNext
  <2>5. CASE SetNotify(t)
    <3>1. pc'[t] = "Next" /\ i'[t] = i[t] + 1 /\ array'[t] = <<s>>
      BY <2>5, <2>1 DEF SetNotify, Broadcast, Step, TypeOK
    <3>2. First(t)' = s BY <3>1 DEF First
    <3>3. i[t] < place[u] \/ array[t][2] = First(u)
      BY <2>5, <1>2 DEF SetNotify, Comes
    <3>4. array[t][2] # First(u)
      <4> SUFFICES ASSUME array[t][2] = First(u) PROVE FALSE OBVIOUS
      <4>1. CASE pc[u] = "Check"
        BY <4>1, <2>5 DEF SetNotify, MutexInv, SignalsAssumption
      <4>2. CASE pc[u] = "Asleep"
        <5>1. u # t BY <4>2, <2>1 DEF Sets
        <5>2. pc'[u] = "Woken" BY <5>1, <4>2, <2>5 DEF SetNotify, Broadcast, Sleeps
        <5> QED BY <5>2
      <4> QED BY <4>1, <4>2
    <3>5. i'[t] <= place[u] BY <3>1, <3>3, <3>4, <1>k, <2>0
    <3> QED BY <3>1, <3>2, <3>5, <1>2 DEF Comes, Sets
  <2> QED BY <2>2, <2>3, <2>4, <2>5
<1> QED BY <1>1, <1>2

(* After each step somebody comes for each thread that has missed a change.*)
LEMMA MissedStep ==
  ASSUME SignalsAssumption, TypeOK, LocalInv, MutexInv, CountInv,
         NEW t \in Threads, Acts(t),
         NEW s \in Signals, NEW place \in [Threads -> Slots], Placed(s, place),
         NEW u \in Threads, NEW n \in 2 .. Len(array'[u]), array'[u][n] = s, Missed(u, n)'
  PROVE  \E v \in Threads : Comes(v, s, place[u], First(u))'
<1>1. /\ array'[u] = array[u]
      /\ pc[u] \in {"Asleep", "Check"}
      /\ \/ Missed(u, n)
         \/ Set(t) /\ First(t)' = array[u][n] /\ pc'[t] = "Looks"
  <2>1. n \in Nat \ {0} /\ n <= Len(array'[u])
    <3>1. array'[u] \in Seq(Signals) BY LocalTypesStep DEF LocalTypes
    <3>2. Len(array'[u]) \in Nat BY <3>1
    <3> QED BY <3>2
  <2> QED BY <2>1, MissedBefore
<1>2. CASE Set(t) /\ First(t)' = s /\ pc'[t] = "Looks"
  BY <1>2 DEF Comes, Sets
<1>3. CASE Missed(u, n)
  <2>1. First(u)' = First(u) BY <1>1 DEF First
  <2>2. Counts(u, n) BY <1>1 DEF Counts, Registered
  <2>3. Counted(u, s) BY <2>2, <1>1 DEF Counted
  <2>4. HasSlot(u, s) BY <1>1 DEF HasSlot
  <2>5. pc'[u] \in {"Asleep", "Check"} BY DEF Missed
  <2>6. PICK v \in Threads : Comes(v, s, place[u], First(u))
    BY <1>1, <1>3, <2>3 DEF Placed
  <2>7. others[s] > 0
    <3>1. u \in Waiters(s) /\ IsFiniteSet(Waiters(s)) /\ others[s] = Cardinality(Waiters(s))
      BY <2>3 DEF Waiters, CountInv
    <3>2. Cardinality(Waiters(s)) # 0 BY <3>1, FS_EmptySet
    <3> QED BY <3>1, <3>2, FS_CardinalityType
  <2> QED BY <1>1, <2>1, <2>3, <2>4, <2>5, <2>6, <2>7, ComesStep
<1> QED BY <1>1, <1>2, <1>3

(* A quiet step leaves to each thread the slot it was given.               *)
LEMMA QuietPlaces ==
  ASSUME SignalsAssumption, TypeOK, LocalInv, MutexInv, CountInv,
         NEW t \in Threads, Acts(t), NEW s \in Signals, Quiet(t, s),
         NEW place \in [Threads -> Slots], Placed(s, place)
  PROVE  Placed(s, place)'
<1>v. ASSUME NEW u \in Threads
      PROVE  /\ Counted(u, s)' <=> Counted(u, s)
             /\ Counted(u, s) => First(u)' = First(u) /\ (HasSlot(u, s)' <=> HasSlot(u, s))
  <2>1. CASE u = t BY <2>1 DEF Quiet, SameView, SameCount
  <2>2. CASE u # t
    <3>1. Stays(u) BY <2>2, OthersStay
    <3> QED BY <3>1, StaysView DEF SameView, SameCount
  <2> QED BY <2>1, <2>2
<1>q. slots'[s] = slots[s] BY DEF Quiet
<1>1. \A u, w \in Threads :
        Counted(u, s)' /\ Counted(w, s)' /\ place[u] = place[w] => u = w
  BY <1>v DEF Placed
<1>2. ASSUME NEW u \in Threads, Counted(u, s)'
      PROVE  slots'[s][place[u]] = IF HasSlot(u, s)' THEN First(u)' ELSE None
  <2>1. Counted(u, s) BY <1>2, <1>v
  <2>2. slots[s][place[u]] = IF HasSlot(u, s) THEN First(u) ELSE None
    BY <2>1 DEF Placed
  <2> QED BY <2>1, <2>2, <1>v, <1>q
<1>3. ASSUME NEW u \in Threads, Counted(u, s)', Searches(u, s)'
      PROVE  j'[u] <= place[u]
  <2>1. Counted(u, s) BY <1>3, <1>v
  <2>2. place[u] \in Nat /\ place[u] >= 1 BY DEF Slots
  <2>3. CASE u # t
    <3>1. Stays(u) BY <2>3, OthersStay
    <3>2. Searches(u, s) /\ j'[u] = j[u] BY <3>1, <1>3, StaysView DEF Stays
    <3> QED BY <3>2, <2>1 DEF Placed
  <2>4. CASE u = t
    <3>1. CASE j'[t] = 1 BY <3>1, <2>2, <2>4
    <3>2. CASE /\ Searches(t, s) /\ j'[t] = j[t] + 1
               /\ slots[s][j[t]] # IF HasSlot(t, s) THEN First(t) ELSE None
      <4>1. slots[s][place[t]] = IF HasSlot(t, s) THEN First(t) ELSE None
        BY <2>1, <2>4 DEF Placed
      <4>2. j[t] # place[t] BY <4>1, <3>2
      <4>3. j[t] <= place[t] BY <3>2, <2>1, <2>4 DEF Placed
      <4>4. j[t] \in Nat BY DEF TypeOK
      <4> QED BY <4>2, <4>3, <4>4, <3>2, <2>2, <2>4
    <3> QED BY <3>1, <3>2, <2>1, <2>4, <1>3 DEF Quiet, Search
  <2> QED BY <2>3, <2>4
<1>4. ASSUME NEW u \in Threads, NEW n \in 2 .. Len(array'[u]), array'[u][n] = s, Missed(u, n)'
      PROVE  \E v \in Threads : Comes(v, s, place[u], First(u))'
  BY <1>4, MissedStep
<1>5. ASSUME NEW k \in Slots, slots'[s][k] # None
      PROVE  \E u \in Threads : Counted(u, s)' /\ HasSlot(u, s)' /\ place[u] = k
  <2>1. PICK u \in Threads : Counted(u, s) /\ HasSlot(u, s) /\ place[u] = k
    BY <1>5, <1>q DEF Placed
  <2> QED BY <2>1, <1>v
<1> HIDE DEF Counted, HasSlot, Searches, Missed, Comes, First
<1> QED BY <1>1, <1>2, <1>3, <1>4, <1>5 DEF Placed

(* Who has the slot a and who has the slot b change.                       *)
Swapped(place, a, b) ==
  [u \in Threads |-> IF place[u] = a THEN b ELSE IF place[u] = b THEN a ELSE place[u]]

(* A thread that takes or empties a slot is counted as before.             *)
LEMMA SwapCount ==
  ASSUME TypeOK, LocalInv, NEW t \in Threads, NEW s, Entered(t) \/ Left(t)
  PROVE  SameCount(t, s)
<1>0. LocalAt(t) /\ i[t] \in Nat /\ Len(array[t]) \in Nat BY DEF LocalInv, TypeOK
<1>1. \A n \in 2 .. Len(array[t]) : Counts(t, n)' <=> Counts(t, n)
  <2>1. CASE Entered(t) BY <2>1, <1>0 DEF Entered, Counts, Registered
  <2>2. CASE Left(t) BY <2>2, <1>0 DEF Left, Counts, Registered
  <2> QED BY <2>1, <2>2
<1>2. array' = array BY DEF Entered, Left
<1> QED BY <1>1, <1>2 DEF SameCount, Counted

(* A thread takes, or empties, the first slot that suits it, which may be  *)
(* the one that was given to another thread: the two change slots, and the *)
(* other one moves up.                                                     *)
LEMMA SwapPlaces ==
  ASSUME SignalsAssumption, TypeOK, LocalInv, MutexInv, CountInv, SearchesEnd, ~overflow,
         NEW t \in Threads, Acts(t), NEW s \in Signals, s = This(t),
         Entered(t) \/ Left(t),
         NEW place \in [Threads -> Slots], Placed(s, place)
  PROVE  \E place2 \in [Threads -> Slots] : Placed(s, place2)'
<1>0. LocalAt(t) /\ i[t] \in Nat /\ Len(array[t]) \in Nat BY DEF LocalInv, TypeOK
<1>p. pc[t] \in {"Register", "Unregister"} BY DEF Entered, Left
<1>j. j[t] \in Slots /\ place[t] \in Slots BY <1>p DEF SearchesEnd
<1>c. Counted(t, s)
  <2>1. i[t] \in 2 .. Len(array[t]) BY <1>0, <1>p DEF LocalAt
  <2>2. Counts(t, i[t]) BY <1>0, <1>p DEF Counts
  <2> QED BY <2>1, <2>2 DEF Counted, This
<1>s. j[t] <= place[t] BY <1>c, <1>p DEF Placed, Searches
<1>q. Swapped(place, j[t], place[t]) \in [Threads -> Slots] BY <1>j DEF Swapped
<1>t. PICK place2 \in [Threads -> Slots] : place2 = Swapped(place, j[t], place[t])
  BY <1>q
<1>a. array' = array BY DEF Entered, Left
<1>f. First(t)' = First(t) /\ First(t) \in Signals /\ First(t) # None
  <2>1. array[t] # <<>> /\ array[t] \in Seq(Signals) BY <1>0, <1>p DEF LocalAt, TypeOK
  <2>2. First(t) \in Signals BY <2>1 DEF First
  <2> QED BY <1>a, <2>2 DEF First, SignalsAssumption
<1>v. ASSUME NEW u \in Threads PROVE Counted(u, s)' <=> Counted(u, s)
  <2>1. CASE u # t
    <3>1. Stays(u) BY <2>1, OthersStay
    <3> QED BY <3>1, StaysView DEF SameView, SameCount
  <2>2. CASE u = t BY <2>2, SwapCount DEF SameCount
  <2> QED BY <2>1, <2>2
<1>w. ASSUME NEW u \in Threads, u # t
      PROVE  /\ First(u)' = First(u) /\ (HasSlot(u, s)' <=> HasSlot(u, s))
             /\ (Searches(u, s)' <=> Searches(u, s)) /\ j'[u] = j[u]
             /\ HasSlot(u, s)' \in BOOLEAN
             /\ Counted(u, s) => First(u) # None
  <2>1. Stays(u) BY <1>w, OthersStay
  <2>2. ASSUME Counted(u, s) PROVE First(u) # None
    <3>1. pc[u] # "Idle" BY <2>2 DEF Counted, Counts, Registered
    <3> QED BY <3>1 DEF First, LocalInv, LocalAt, TypeOK, SignalsAssumption
  <2>3. HasSlot(u, s)' <=> HasSlot(u, s)
    BY <2>1 DEF HasSlot, This, Stays
  <2> QED BY <2>1, <2>2, <2>3, StaysView DEF Stays, HasSlot
<1>h. ASSUME NEW u \in Threads, u # t, Counted(u, s)
      PROVE  /\ place[u] # place[t]
             /\ place2[u] = IF place[u] = j[t] THEN place[t] ELSE place[u]
             /\ place2[u] >= place[u]
  <2>1. place[u] # place[t] BY <1>h, <1>c DEF Placed
  <2>2. place2[u] = IF place[u] = j[t] THEN place[t] ELSE place[u] BY <2>1, <1>t DEF Swapped
  <2>3. place[u] \in Nat BY DEF Slots
  <2> QED BY <2>1, <2>2, <2>3, <1>s
<1>g. place2[t] = j[t] BY <1>t DEF Swapped
<1>o. slots[s][place[t]] = IF HasSlot(t, s) THEN First(t) ELSE None BY <1>c DEF Placed
<1>1. ASSUME NEW u \in Threads, NEW w \in Threads, Counted(u, s), Counted(w, s),
             place2[u] = place2[w]
      PROVE  u = w
  <2>1. ASSUME NEW x \in Threads, Counted(x, s), x # t PROVE place2[x] # j[t]
    BY <2>1, <1>h, <1>j
  <2>2. CASE u = t BY <2>2, <2>1, <1>1, <1>g
  <2>3. CASE w = t BY <2>3, <2>1, <1>1, <1>g
  <2>4. CASE u # t /\ w # t
    <3>1. place[u] = place[w] BY <2>4, <1>1, <1>h
    <3> QED BY <3>1, <1>1 DEF Placed
  <2> QED BY <2>2, <2>3, <2>4
<1>m. ASSUME NEW u \in Threads, NEW n \in 2 .. Len(array'[u]), array'[u][n] = s, Missed(u, n)'
      PROVE  \E v \in Threads : Comes(v, s, place2[u], First(u))'
  <2>1. PICK v \in Threads : Comes(v, s, place[u], First(u))' BY <1>m, MissedStep
  <2>2. u # t
    <3>1. CASE Left(t) BY <3>1, <1>m DEF Left, Missed
    <3>2. CASE Entered(t)
      <4>1. n \in Int /\ n >= 2 OBVIOUS
      <4> QED BY <4>1, <3>2, <1>m DEF Entered, Missed
    <3> QED BY <3>1, <3>2
  <2>3. Counted(u, s)
    <3>1. Counts(u, n)' BY <1>m DEF Missed, Counts, Registered
    <3>2. Counted(u, s)' BY <3>1, <1>m DEF Counted
    <3> QED BY <3>2, <1>v
  <2>4. place[u] \in Nat /\ place2[u] \in Nat /\ place[u] <= place2[u]
    BY <2>2, <2>3, <1>h, <1>t DEF Slots
  <2>5. i'[v] \in Int BY LocalTypesStep DEF LocalTypes
  <2>6. Comes(v, s, place2[u], First(u))' BY <2>1, <2>4, <2>5 DEF Comes
  <2> QED BY <2>6
<1>5. ASSUME NEW u \in Threads, Counted(u, s), u # t
      PROVE  /\ slots'[s][place2[u]] = IF HasSlot(u, s)' THEN First(u)' ELSE None
             /\ Searches(u, s)' => j'[u] <= place2[u]
  <2>0. slots[s][place[u]] = IF HasSlot(u, s) THEN First(u) ELSE None
    BY <1>5 DEF Placed
  <2>1. ASSUME Searches(u, s)' PROVE j'[u] <= place2[u]
    <3>1. j[u] <= place[u] BY <2>1, <1>5, <1>w DEF Placed
    <3>2. j[u] \in Nat /\ place[u] \in Nat /\ place2[u] \in Nat
      BY <1>t DEF TypeOK, Slots
    <3> QED BY <3>1, <3>2, <1>h, <1>w, <1>5
  <2>2. \A k \in Slots : k # j[t] => slots'[s][k] = slots[s][k]
    BY DEF Entered, Left, TypeOK
  <2>3. CASE place[u] # j[t]
    <3>1. place2[u] = place[u] /\ place[u] \in Slots BY <2>3, <1>h, <1>5
    <3> QED BY <3>1, <2>0, <2>1, <2>2, <2>3, <1>w, <1>5
  <2>4. CASE place[u] = j[t]
    <3>1. place2[u] = place[t] /\ place[t] # j[t] BY <2>4, <1>h, <1>5
    <3>2. slots'[s][place2[u]] = slots[s][place[t]] BY <3>1, <2>2, <1>j
    <3>3. CASE Entered(t)
      <4>1. ~HasSlot(t, s) BY <3>3 DEF Entered, HasSlot
      <4>2. ~HasSlot(u, s) BY <3>3, <2>0, <2>4, <1>w, <1>5 DEF Entered
      <4> QED BY <4>1, <4>2, <3>2, <1>o, <1>w, <1>5, <2>1
    <3>4. CASE Left(t)
      <4>1. HasSlot(t, s) BY <3>4 DEF Left, HasSlot
      <4>2. slots[s][j[t]] = First(t) BY <3>4 DEF Left
      <4>3. HasSlot(u, s) /\ First(u) = First(t) BY <4>2, <2>0, <2>4, <1>f
      <4> QED BY <4>1, <4>3, <3>2, <1>o, <1>w, <1>5, <2>1
    <3> QED BY <3>3, <3>4
  <2> QED BY <2>3, <2>4
<1>6. /\ slots'[s][place2[t]] = IF HasSlot(t, s)' THEN First(t)' ELSE None
      /\ ~Searches(t, s)'
  <2>1. CASE Entered(t)
    <3>1. HasSlot(t, s)' /\ ~Searches(t, s)' BY <2>1 DEF Entered, HasSlot, Searches
    <3>2. slots'[s][j[t]] = First(t) BY <2>1, <1>j DEF Entered, TypeOK
    <3> QED BY <3>1, <3>2, <1>g, <1>f
  <2>2. CASE Left(t)
    <3>1. ~HasSlot(t, s)' /\ ~Searches(t, s)' BY <2>2 DEF Left, HasSlot, Searches, This
    <3>2. slots'[s][j[t]] = None BY <2>2, <1>j DEF Left, TypeOK
    <3> QED BY <3>1, <3>2, <1>g
  <2> QED BY <2>1, <2>2
<1>7. ASSUME NEW k \in Slots, slots'[s][k] # None
      PROVE  \E u \in Threads : Counted(u, s) /\ HasSlot(u, s)' /\ place2[u] = k
  <2>1. CASE Entered(t)
    <3>0. HasSlot(t, s)' /\ ~HasSlot(t, s) BY <2>1 DEF Entered, HasSlot
    <3>1. CASE k = j[t] BY <3>0, <3>1, <1>c, <1>g
    <3>2. CASE k # j[t]
      <4>1. slots[s][k] # None BY <3>2, <2>1, <1>7 DEF Entered, TypeOK
      <4>2. PICK u \in Threads : Counted(u, s) /\ HasSlot(u, s) /\ place[u] = k
        BY <4>1 DEF Placed
      <4>3. u # t BY <4>2, <3>0
      <4>4. place2[u] = k BY <4>2, <4>3, <3>2, <1>h
      <4> QED BY <4>2, <4>3, <4>4, <1>w
    <3> QED BY <3>1, <3>2
  <2>2. CASE Left(t)
    <3>1. k # j[t] BY <2>2, <1>7 DEF Left, TypeOK
    <3>2. slots[s][k] # None BY <3>1, <2>2, <1>7 DEF Left, TypeOK
    <3>3. PICK u \in Threads : Counted(u, s) /\ HasSlot(u, s) /\ place[u] = k
      BY <3>2 DEF Placed
    <3>4. CASE u # t
      <4>1. place2[u] = k BY <3>3, <3>4, <3>1, <1>h
      <4> QED BY <3>3, <3>4, <4>1, <1>w
    <3>5. CASE u = t
      <4>1. slots[s][j[t]] # None BY <2>2, <1>f DEF Left
      <4>2. PICK o \in Threads : Counted(o, s) /\ HasSlot(o, s) /\ place[o] = j[t]
        BY <4>1, <1>j DEF Placed
      <4>3. o # t BY <4>2, <3>1, <3>3, <3>5
      <4>4. place2[o] = k BY <4>2, <4>3, <3>3, <3>5, <1>h
      <4> QED BY <4>2, <4>3, <4>4, <1>w
    <3> QED BY <3>4, <3>5
  <2> QED BY <2>1, <2>2
<1> HIDE DEF Counted, HasSlot, Searches, Missed, Comes, First
<1>9. ASSUME NEW u \in Threads, Counted(u, s)'
      PROVE  /\ slots'[s][place2[u]] = IF HasSlot(u, s)' THEN First(u)' ELSE None
             /\ Searches(u, s)' => j'[u] <= place2[u]
             /\ \A n \in 2 .. Len(array'[u]) : array'[u][n] = s /\ Missed(u, n)' =>
                  \E v \in Threads : Comes(v, s, place2[u], First(u))'
  BY <1>9, <1>v, <1>m, <1>5, <1>6
<1>10. \A u, w \in Threads :
         Counted(u, s)' /\ Counted(w, s)' /\ place2[u] = place2[w] => u = w
  BY <1>v, <1>1
<1>8. Placed(s, place2)' BY <1>v, <1>9, <1>10, <1>7 DEF Placed
<1> QED BY <1>t, <1>8

(* A thread that is counted in finds a slot that nobody was given.         *)
LEMMA FreeSlot ==
  ASSUME SignalsAssumption, NEW s \in Signals, NEW place \in [Threads -> Slots],
         IsFiniteSet(Waiters(s)), Cardinality(Waiters(s)) < MaxThreadsWaiting
  PROVE  \E k \in Slots : \A u \in Waiters(s) : place[u] # k
<1> SUFFICES ASSUME \A k \in Slots : \E u \in Waiters(s) : place[u] = k PROVE FALSE
  OBVIOUS
<1> DEFINE f == [k \in Slots |-> CHOOSE u \in Waiters(s) : place[u] = k]
<1>1. f \in [Slots -> Waiters(s)] /\ \A k \in Slots : place[f[k]] = k OBVIOUS
<1>2. IsFiniteSet(Slots) /\ Cardinality(Slots) = MaxThreadsWaiting
  BY FS_Interval DEF Slots, SignalsAssumption
<1> HIDE DEF f
<1> DEFINE T == Waiters(s)
<1>3. /\ IsFiniteSet(T) /\ Cardinality(T) < Cardinality(Slots)
      /\ f \in [Slots -> T] /\ IsFiniteSet(Slots)
  BY <1>1, <1>2
<1> HIDE DEF T
<1>4. \E k, l \in Slots : k # l /\ f[k] = f[l] BY ONLY <1>3, FS_PigeonHole
<1> QED BY <1>1, <1>4

(* A thread that is counted in is given a free slot.                       *)
LEMMA AddedPlaces ==
  ASSUME SignalsAssumption, TypeOK, LocalInv, MutexInv, CountInv,
         NEW t \in Threads, Acts(t), NEW s \in Signals, s = This(t), Added(t),
         NEW place \in [Threads -> Slots], Placed(s, place)
  PROVE  /\ \E place2 \in [Threads -> Slots] : Placed(s, place2)'
         /\ IsFiniteSet(Waiters(s))' /\ others'[s] = Cardinality(Waiters(s))'
<1>0. LocalAt(t) /\ i[t] \in Nat /\ Len(array[t]) \in Nat BY DEF LocalInv, TypeOK
<1>i. i[t] \in 2 .. Len(array[t]) BY <1>0 DEF LocalAt, Added
<1>w. ASSUME NEW u \in Threads, u # t
      PROVE  /\ Counted(u, s)' <=> Counted(u, s)
             /\ First(u)' = First(u) /\ (HasSlot(u, s)' <=> HasSlot(u, s))
             /\ (Searches(u, s)' <=> Searches(u, s)) /\ j'[u] = j[u]
  <2>1. Stays(u) BY <1>w, OthersStay
  <2>2. HasSlot(u, s)' <=> HasSlot(u, s) BY <2>1 DEF HasSlot, This, Stays
  <2> QED BY <2>1, <2>2, StaysView DEF SameView, SameCount, Stays
<1>t. ~Counted(t, s)
  <2>1. \A n \in 2 .. Len(array[t]) : Counts(t, n) => n # i[t]
    <3>1. pc[t] = "Add" BY DEF Added
    <3> QED BY <1>0, <1>i, <3>1 DEF Counts, Registered
  <2>2. \A n \in 2 .. Len(array[t]) : array[t][n] = s => n = i[t]
    <3>1. "Add" \in Waits BY DEF Waits
    <3>2. pc[t] = "Add" BY DEF Added
    <3>3. Distinct(array[t]) BY <1>0, <3>1, <3>2 DEF LocalAt
    <3>4. s = array[t][i[t]] BY DEF This
    <3> QED BY ONLY <1>i, <3>3, <3>4 DEF Distinct
  <2> QED BY <2>1, <2>2 DEF Counted
<1>n. Counted(t, s)'
  <2>1. i' = i /\ array' = array /\ pc'[t] = "Register" BY DEF Added
  <2>2. PICK n \in 2 .. Len(array[t]) : n = i[t] BY <1>i
  <2>3. n <= i'[t] BY <2>1, <2>2, <1>0
  <2>4. Counts(t, n)' BY <2>1, <2>3 DEF Counts
  <2>5. array'[t][n] = s BY <2>1, <2>2 DEF This
  <2> QED BY <2>1, <2>4, <2>5 DEF Counted
<1>s. slots'[s] = slots[s] /\ j'[t] = 1 /\ ~HasSlot(t, s)'
  BY DEF Added, HasSlot, This
<1>c. IsFiniteSet(Waiters(s)) /\ others[s] = Cardinality(Waiters(s)) BY DEF CountInv
<1>k. PICK k \in Slots : \A u \in Waiters(s) : place[u] # k
  <2>1. Cardinality(Waiters(s)) < MaxThreadsWaiting BY <1>c DEF Added
  <2> QED BY <1>c, <2>1, FreeSlot
<1>f. slots[s][k] = None
  <2> SUFFICES ASSUME slots[s][k] # None PROVE FALSE OBVIOUS
  <2>1. PICK u \in Threads : Counted(u, s) /\ place[u] = k BY DEF Placed
  <2> QED BY <2>1, <1>k DEF Waiters
<1>q. [place EXCEPT ![t] = k] \in [Threads -> Slots] OBVIOUS
<1>p. PICK place2 \in [Threads -> Slots] : place2 = [place EXCEPT ![t] = k] BY <1>q
<1>h. place2[t] = k /\ \A u \in Threads : u # t => place2[u] = place[u]
  BY <1>p
<1>1. ASSUME NEW u \in Threads, NEW w \in Threads, Counted(u, s)', Counted(w, s)',
             place2[u] = place2[w]
      PROVE  u = w
  <2>1. ASSUME NEW x \in Threads, x # t, Counted(x, s)' PROVE place2[x] # k
    BY <2>1, <1>w, <1>k, <1>h DEF Waiters
  <2>2. CASE u = t \/ w = t BY <2>2, <2>1, <1>1, <1>h
  <2>3. CASE u # t /\ w # t BY <2>3, <1>1, <1>h, <1>w DEF Placed
  <2> QED BY <2>2, <2>3
<1>m. ASSUME NEW u \in Threads, NEW n \in 2 .. Len(array'[u]), array'[u][n] = s, Missed(u, n)'
      PROVE  \E v \in Threads : Comes(v, s, place2[u], First(u))'
  <2>1. u # t BY <1>m DEF Added, Missed
  <2>2. \E v \in Threads : Comes(v, s, place[u], First(u))' BY <1>m, MissedStep
  <2> QED BY <2>1, <2>2, <1>h
<1>2. ASSUME NEW u \in Threads, Counted(u, s)'
      PROVE  /\ slots'[s][place2[u]] = IF HasSlot(u, s)' THEN First(u)' ELSE None
             /\ Searches(u, s)' => j'[u] <= place2[u]
             /\ \A n \in 2 .. Len(array'[u]) : array'[u][n] = s /\ Missed(u, n)' =>
                  \E v \in Threads : Comes(v, s, place2[u], First(u))'
  <2>1. CASE u = t
    <3>1. 1 <= k BY DEF Slots
    <3> QED BY <2>1, <3>1, <1>h, <1>s, <1>f, <1>m
  <2>2. CASE u # t
    <3>1. /\ slots[s][place[u]] = IF HasSlot(u, s) THEN First(u) ELSE None
          /\ Searches(u, s) => j[u] <= place[u]
      BY <2>2, <1>2, <1>w DEF Placed
    <3>2. place2[u] = place[u] BY <2>2, <1>h
    <3> QED BY <3>1, <3>2, <2>2, <1>w, <1>s, <1>m
  <2> QED BY <2>1, <2>2
<1>3. ASSUME NEW l \in Slots, slots'[s][l] # None
      PROVE  \E u \in Threads : Counted(u, s)' /\ HasSlot(u, s)' /\ place2[u] = l
  <2>1. PICK u \in Threads : Counted(u, s) /\ HasSlot(u, s) /\ place[u] = l
    BY <1>3, <1>s DEF Placed
  <2> QED BY <2>1, <1>t, <1>w, <1>h
<1>4. IsFiniteSet(Waiters(s)') /\ others'[s] = Cardinality(Waiters(s)')
  <2>1. Waiters(s)' = Waiters(s) \cup {t} /\ t \notin Waiters(s)
    BY <1>w, <1>n, <1>t DEF Waiters
  <2>2. others'[s] = others[s] + 1 BY DEF Added, TypeOK
  <2>3. /\ IsFiniteSet(Waiters(s) \cup {t})
        /\ Cardinality(Waiters(s) \cup {t}) = Cardinality(Waiters(s)) + 1
    BY <2>1, <1>c, FS_AddElement
  <2> QED BY <2>1, <2>2, <2>3, <1>c
<1> HIDE DEF Counted, HasSlot, Searches, Missed, Comes, First
<1>5. Placed(s, place2)' BY <1>1, <1>2, <1>3 DEF Placed
<1> QED BY <1>4, <1>5

(* A thread that is counted out gives its slot up.                         *)
LEMMA SubtractedPlaces ==
  ASSUME SignalsAssumption, TypeOK, LocalInv, MutexInv, CountInv,
         NEW t \in Threads, Acts(t), NEW s \in Signals, s = This(t), Subtracted(t),
         NEW place \in [Threads -> Slots], Placed(s, place)
  PROVE  /\ Placed(s, place)'
         /\ IsFiniteSet(Waiters(s))' /\ others'[s] = Cardinality(Waiters(s))'
<1>0. LocalAt(t) /\ i[t] \in Nat /\ Len(array[t]) \in Nat BY DEF LocalInv, TypeOK
<1>i. i[t] \in 2 .. Len(array[t]) BY <1>0 DEF LocalAt, Subtracted
<1>w. ASSUME NEW u \in Threads, u # t
      PROVE  /\ Counted(u, s)' <=> Counted(u, s)
             /\ First(u)' = First(u) /\ (HasSlot(u, s)' <=> HasSlot(u, s))
             /\ (Searches(u, s)' <=> Searches(u, s)) /\ j'[u] = j[u]
  <2>1. Stays(u) BY <1>w, OthersStay
  <2>2. HasSlot(u, s)' <=> HasSlot(u, s) BY <2>1 DEF HasSlot, This, Stays
  <2> QED BY <2>1, <2>2, StaysView DEF SameView, SameCount, Stays
<1>t. ~Counted(t, s)'
  <2>1. CASE pc'[t] = "Idle" BY <2>1, UncountedNext DEF Registered
  <2>2. CASE pc'[t] = "Unregister" /\ i'[t] = i[t] + 1 /\ array' = array
    <3>1. \A n \in 2 .. Len(array[t]) : Counts(t, n)' => n # i[t]
      BY <2>2, <1>0 DEF Counts, Registered
    <3>2. \A n \in 2 .. Len(array[t]) : array[t][n] = s => n = i[t]
      BY <1>0, <1>i DEF Subtracted, LocalAt, Distinct, This, Waits
    <3> QED BY <3>1, <3>2, <2>2 DEF Counted
  <2> QED BY <2>1, <2>2 DEF Subtracted
<1>n. Counted(t, s)
  <2>1. Counts(t, i[t]) BY <1>0 DEF Subtracted, Counts
  <2> QED BY <2>1, <1>i DEF Counted, This
<1>s. slots'[s] = slots[s] /\ ~HasSlot(t, s)
  BY DEF Subtracted, HasSlot
<1>c. IsFiniteSet(Waiters(s)) /\ others[s] = Cardinality(Waiters(s)) BY DEF CountInv
<1>1. \A u, w \in Threads :
        Counted(u, s)' /\ Counted(w, s)' /\ place[u] = place[w] => u = w
  BY <1>w, <1>t DEF Placed
<1>m. ASSUME NEW u \in Threads, NEW n \in 2 .. Len(array'[u]), array'[u][n] = s, Missed(u, n)'
      PROVE  \E v \in Threads : Comes(v, s, place[u], First(u))'
  BY <1>m, MissedStep
<1>2. ASSUME NEW u \in Threads, Counted(u, s)'
      PROVE  /\ slots'[s][place[u]] = IF HasSlot(u, s)' THEN First(u)' ELSE None
             /\ Searches(u, s)' => j'[u] <= place[u]
             /\ \A n \in 2 .. Len(array'[u]) : array'[u][n] = s /\ Missed(u, n)' =>
                  \E v \in Threads : Comes(v, s, place[u], First(u))'
  <2>1. u # t BY <1>2, <1>t
  <2>2. /\ slots[s][place[u]] = IF HasSlot(u, s) THEN First(u) ELSE None
        /\ Searches(u, s) => j[u] <= place[u]
    BY <2>1, <1>2, <1>w DEF Placed
  <2> QED BY <2>1, <2>2, <1>w, <1>s, <1>m
<1>3. ASSUME NEW l \in Slots, slots'[s][l] # None
      PROVE  \E u \in Threads : Counted(u, s)' /\ HasSlot(u, s)' /\ place[u] = l
  <2>1. PICK u \in Threads : Counted(u, s) /\ HasSlot(u, s) /\ place[u] = l
    BY <1>3, <1>s DEF Placed
  <2> QED BY <2>1, <1>s, <1>w
<1>4. IsFiniteSet(Waiters(s)') /\ others'[s] = Cardinality(Waiters(s)')
  <2>1. Waiters(s)' = Waiters(s) \ {t} /\ t \in Waiters(s)
    BY <1>w, <1>n, <1>t DEF Waiters
  <2>2. others'[s] = others[s] - 1 BY DEF Subtracted, TypeOK
  <2>3. /\ IsFiniteSet(Waiters(s) \ {t})
        /\ Cardinality(Waiters(s) \ {t}) = Cardinality(Waiters(s)) - 1
    BY <2>1, <1>c, FS_RemoveElement
  <2> QED BY <2>1, <2>2, <2>3, <1>c
<1> HIDE DEF Counted, HasSlot, Searches, Missed, Comes, First
<1>5. Placed(s, place)' BY <1>1, <1>2, <1>3 DEF Placed
<1> QED BY <1>4, <1>5

(* The count of a signal is right when neither it nor its threads change.  *)
LEMMA SameWaiters ==
  ASSUME TypeOK, NEW t \in Threads, Acts(t), NEW s \in Signals, SameCount(t, s),
         others'[s] = others[s], CountInv
  PROVE  IsFiniteSet(Waiters(s))' /\ others'[s] = Cardinality(Waiters(s))'
<1>1. ASSUME NEW u \in Threads PROVE Counted(u, s)' <=> Counted(u, s)
  <2>1. CASE u = t BY <2>1 DEF SameCount
  <2>2. CASE u # t
    <3>1. Stays(u) BY <2>2, OthersStay
    <3> QED BY <3>1, StaysView DEF SameView, SameCount
  <2> QED BY <2>1, <2>2
<1>2. Waiters(s)' = Waiters(s) BY <1>1 DEF Waiters
<1> QED BY <1>2 DEF CountInv

(* Every search ends at the slot the thread was given, or before it.       *)
LEMMA SearchesStay == IInv => SearchesEnd
<1> SUFFICES ASSUME IInv, ~overflow, NEW t \in Threads, pc[t] \in {"Register", "Unregister"}
             PROVE  j[t] \in Slots
  BY DEF SearchesEnd
<1>1. LocalAt(t) /\ i[t] \in 2 .. Len(array[t]) /\ array[t] \in Seq(Signals) /\ j[t] \in Nat
        /\ j[t] >= 1 /\ MaxThreadsWaiting \in Nat
  BY SignalsAssumption DEF IInv, LocalInv, LocalAt, TypeOK, SignalsAssumption
<1>2. This(t) \in Signals BY <1>1 DEF This
<1>3. PICK place \in [Threads -> Slots] : Placed(This(t), place)
  BY <1>2 DEF IInv, PlacesInv
<1>4. Counted(t, This(t))
  <2>1. Counts(t, i[t]) BY <1>1 DEF Counts
  <2> QED BY <2>1, <1>1 DEF Counted, This
<1>5. j[t] <= place[t] BY <1>3, <1>4 DEF Placed, Searches
<1>6. place[t] \in Slots OBVIOUS
<1> QED BY <1>1, <1>5, <1>6 DEF Slots

(* Each step keeps that the slots can be given and that the counts are     *)
(* right.                                                                  *)
LEMMA PlacesStep ==
  ASSUME SignalsAssumption, IInv, NEW t \in Threads, Acts(t), ~overflow'
  PROVE  PlacesInv' /\ CountInv'
<1>0. /\ TypeOK /\ LocalInv /\ FailedInv /\ MutexInv /\ ~overflow /\ PlacesInv /\ CountInv
      /\ SearchesEnd
  BY OverflowStays, SearchesStay DEF IInv
<1>1. ASSUME NEW s \in Signals
      PROVE  /\ \E place \in [Threads -> Slots] : Placed(s, place)'
             /\ IsFiniteSet(Waiters(s))' /\ others'[s] = Cardinality(Waiters(s))'
  <2>1. PICK place \in [Threads -> Slots] : Placed(s, place) BY <1>0 DEF PlacesInv
  <2>2. CASE Quiet(t, s)
    <3>1. Placed(s, place)' BY <2>1, <2>2, <1>0, QuietPlaces
    <3>2. SameCount(t, s) /\ others'[s] = others[s] BY <2>2 DEF Quiet, SameView
    <3>3. IsFiniteSet(Waiters(s))' /\ others'[s] = Cardinality(Waiters(s))'
      BY <3>2, <1>0, SameWaiters
    <3> QED BY <3>1, <3>3
  <2>3. CASE s = This(t) /\ Added(t) BY <2>1, <2>3, <1>0, AddedPlaces
  <2>4. CASE s = This(t) /\ Subtracted(t) BY <2>1, <2>4, <1>0, SubtractedPlaces
  <2>5. CASE s = This(t) /\ (Entered(t) \/ Left(t))
    <3>1. \E place2 \in [Threads -> Slots] : Placed(s, place2)'
      BY <2>1, <2>5, <1>0, SwapPlaces
    <3>2. SameCount(t, s) BY <2>5, <1>0, SwapCount
    <3>3. others'[s] = others[s] BY <2>5 DEF Entered, Left
    <3>4. IsFiniteSet(Waiters(s))' /\ others'[s] = Cardinality(Waiters(s))'
      BY <3>2, <3>3, <1>0, SameWaiters
    <3> QED BY <3>1, <3>4
  <2> QED BY <2>2, <2>3, <2>4, <2>5, <1>0, ViewStep, SpecialElsewhere DEF Special
<1>2. ASSUME NEW s \in Signals PROVE \E place \in [Threads -> Slots] : Placed(s, place)'
  BY <1>1
<1>3. ASSUME NEW s \in Signals
      PROVE  IsFiniteSet(Waiters(s))' /\ others'[s] = Cardinality(Waiters(s))'
  BY <1>1
<1>4. PlacesInv' BY <1>2 DEF PlacesInv, Slots
<1>5. CountInv' BY <1>3 DEF CountInv
<1> QED BY <1>4, <1>5

-----------------------------------------------------------------------------
(* The theorems.                                                           *)
(* The invariant at the start.                                             *)
LEMMA InitInv ==
  ASSUME SignalsAssumption, Init
  PROVE  IInv
<1> USE DEF Init
<1>1. TypeOK
  <2>1. <<>> \in Seq(Signals) /\ <<>> \in Seq(0 .. MaxSets) OBVIOUS
  <2>2. 0 \in 0 .. MaxSets /\ 0 \in 0 .. MaxWaits BY DEF SignalsAssumption
  <2>3. array \in [Threads -> Seq(Signals)] /\ seen \in [Threads -> Seq(0 .. MaxSets)]
    BY <2>1
  <2>4. number \in [Signals -> 0 .. MaxSets] /\ sets \in 0 .. MaxSets /\ waits \in 0 .. MaxWaits
    BY <2>2
  <2>5. others \in [Signals -> Int] /\ failed \subseteq Threads OBVIOUS
  <2>7. active \in [Signals -> BOOLEAN] OBVIOUS
  <2>8. overflow \in BOOLEAN OBVIOUS
  <2>6. /\ slots \in [Signals -> [Slots -> Signals \cup {None}]]
        /\ mutex \in [Signals -> Threads \cup {None}]
        /\ pc \in [Threads -> {"Idle"} \cup Waits \cup Sets]
        /\ i \in [Threads -> Nat] /\ j \in [Threads -> Nat]
    OBVIOUS
  <2> QED BY <2>3, <2>4, <2>5, <2>6, <2>7, <2>8 DEF TypeOK
<1>2. LocalInv BY DEF LocalInv, LocalAt, Waits
<1>3. SetsInv /\ FailedInv /\ MutexInv BY DEF SetsInv, FailedInv, MutexInv
<1>4. FirstInv BY DEF FirstInv, Waits
<1>5. \A t \in Threads, s \in Signals : ~Counted(t, s) BY DEF Counted
<1>6. CountInv
  <2>1. \A s \in Signals : Waiters(s) = {} BY <1>5 DEF Waiters
  <2>2. IsFiniteSet({}) /\ Cardinality({}) = 0 BY FS_EmptySet
  <2> QED BY <2>1, <2>2 DEF CountInv
<1>7. PlacesInv
  <2>1. [t \in Threads |-> 1] \in [Threads -> Slots] BY DEF Slots, SignalsAssumption
  <2>2. PICK place \in [Threads -> Slots] : TRUE BY <2>1
  <2>3. \A s \in Signals : Placed(s, place) BY <1>5 DEF Placed
  <2> QED BY <2>3 DEF PlacesInv
<1> QED BY <1>1, <1>2, <1>3, <1>4, <1>6, <1>7 DEF IInv

(* A step that changes nothing keeps the invariant.                        *)
LEMMA StutterInv ==
  ASSUME IInv, UNCHANGED vars
  PROVE  IInv'
<1> USE DEF vars
<1>1. TypeOK' BY DEF IInv, TypeOK
<1>2. LocalInv' BY DEF IInv, LocalInv, LocalAt, Distinct
<1>3. SetsInv' /\ FailedInv' BY DEF IInv, SetsInv, FailedInv
<1>4. MutexInv' BY DEF IInv, MutexInv, First
<1>5. FirstInv' BY DEF IInv, FirstInv, Missed, Changed
<1>6. ASSUME NEW t, NEW s PROVE Counted(t, s)' <=> Counted(t, s)
  BY DEF Counted, Counts
<1>7. CountInv => CountInv'
  <2>1. \A s \in Signals : Waiters(s)' = Waiters(s) BY <1>6 DEF Waiters
  <2> QED BY <2>1 DEF CountInv
<1>8. PlacesInv => PlacesInv'
  BY DEF PlacesInv, Placed, Counted, Counts, HasSlot, Searches, Missed, Changed, Comes,
         First, This
<1> QED BY <1>1, <1>2, <1>3, <1>4, <1>5, <1>7, <1>8 DEF IInv

(* The inductive invariant of the signals, for any threads, signals, arrays*)
(* to wait for and number of slots: the counts of waiting threads and the  *)
(* tables of other_sigs_ptr_array agree with where the threads are.        *)
THEOREM Invariance == Spec => []IInv
<1>1. Init => IInv BY SignalsAssumption, InitInv
<1>2. IInv /\ [Next]_vars => IInv'
  <2> SUFFICES ASSUME IInv, [Next]_vars PROVE IInv'
    OBVIOUS
  <2>1. CASE UNCHANGED vars BY <2>1, StutterInv
  <2>2. ASSUME NEW t \in Threads, Acts(t) PROVE IInv'
    <3>1. TypeOK' /\ SetsInv' BY <2>2, SignalsAssumption, TypeStep DEF IInv
    <3>2. LocalInv' BY <2>2, SignalsAssumption, LocalStep DEF IInv
    <3>3. FailedInv' BY <2>2, OverflowStays DEF IInv
    <3>4. MutexInv' BY <2>2, SignalsAssumption, MutexStep DEF IInv
    <3>5. FirstInv' BY <2>2, SignalsAssumption, FirstStep DEF IInv
    <3>6. overflow' \/ (PlacesInv' /\ CountInv') BY <2>2, SignalsAssumption, PlacesStep
    <3> QED BY <3>1, <3>2, <3>3, <3>4, <3>5, <3>6 DEF IInv
  <2> QED BY <2>1, <2>2 DEF Next, Acts
<1> QED BY <1>1, <1>2, PTL DEF Spec

(* A signal that nobody waits for has a count of zero and only empty slots:*)
(* CdiOsSignalDelete may free it, and its asserts hold.                    *)
THEOREM UnusedIsDeletable == Spec => []DeletableWhenUnused
<1>1. IInv => DeletableWhenUnused
  <2> SUFFICES ASSUME IInv, ~overflow, NEW s \in Signals,
                      \A t \in Threads : pc[t] \in Waits =>
                        \A n \in 2 .. Len(array[t]) : array[t][n] # s
               PROVE  others[s] = 0 /\ \A k \in Slots : slots[s][k] = None
    BY DEF DeletableWhenUnused
  <2>1. \A t \in Threads : ~Counted(t, s)
    BY DEF Counted, Counts, Registered, Waits
  <2>2. Waiters(s) = {} BY <2>1 DEF Waiters
  <2>3. others[s] = 0 BY <2>2, FS_EmptySet DEF IInv, CountInv
  <2>4. PICK place \in [Threads -> Slots] : Placed(s, place) BY DEF IInv, PlacesInv
  <2> QED BY <2>1, <2>3, <2>4 DEF Placed
<1> QED BY <1>1, Invariance, PTL

(* No thread sleeps on after one of its signals was set, unless the thread *)
(* that set it is still in CdiOsSignalSet: although neither the slots nor  *)
(* the first signal are locked when the other signals are set.             *)
THEOREM WakeUpsArrive == Spec => []NoLostWakeUp
<1>1. IInv => NoLostWakeUp
  <2> SUFFICES ASSUME IInv, ~overflow, NEW t \in Threads, pc[t] = "Asleep",
                      NEW n \in 1 .. Len(array[t]), Changed(t, n)
               PROVE  \E u \in Threads : pc[u] \in Sets /\ First(u) = array[t][n]
    BY DEF NoLostWakeUp
  <2>1. Missed(t, n) BY DEF Missed
  <2>2. array[t] \in Seq(Signals) /\ Len(array[t]) \in Nat BY DEF IInv, TypeOK
  <2>3. n # 1 BY <2>1 DEF IInv, FirstInv, Waits
  <2>4. n \in 2 .. Len(array[t]) BY <2>2, <2>3
  <2>5. array[t][n] \in Signals BY <2>2
  <2>6. PICK place \in [Threads -> Slots] : Placed(array[t][n], place)
    BY <2>5 DEF IInv, PlacesInv
  <2>7. Counted(t, array[t][n]) BY <2>4 DEF Counted, Counts, Registered
  <2>8. PICK u \in Threads : Comes(u, array[t][n], place[t], First(t))
    BY <2>1, <2>4, <2>6, <2>7 DEF Placed
  <2> QED BY <2>8 DEF Comes
<1> QED BY <1>1, Invariance, PTL

(* The loops of CdiOsSignalsWait over the slots never come to their end    *)
(* without one.                                                            *)
THEOREM SlotsAreFound == Spec => []SearchesEnd
BY SearchesStay, Invariance, PTL

=============================================================================

--------------------------- MODULE CdiFifo_proofs ---------------------------
(***************************************************************************)
(* Proofs about the FIFO of fifo.c, for any writers, any items and any     *)
(* ring of two places or more: it implements BoundedQueue, at most one     *)
(* writer works on it at a time, and nobody sleeps over a change of it     *)
(* without a wake-up on its way.                                           *)
(***************************************************************************)
EXTENDS CdiFifo, TLAPS

(* Who is past a lock is who holds it; a writer takes the lock of the      *)
(* reader for the callback only.                                           *)
ReadLockInv ==
  /\ r_pc \notin {"idle", "lock"} <=> read_lock = "reader"
  /\ \A w \in Writers : read_lock = w => w_pc[w] = "release"
WriteLockInv == \A w \in Writers : w_pc[w] \notin {"idle", "lock"} <=> write_lock = w

(* What each side has seen of the indexes stays good enough: the other can *)
(* only have made more room, or more items.                                *)
TakeInv == r_pc \in {"take", "move"} => ~Empty
CopyInv == \A w \in Writers :
  /\ w_pc[w] \in {"copy", "move"} => ~Full
  /\ w_pc[w] # "idle" => w_val[w] \in Data
  /\ w_pc[w] = "move" => item_array[head_index] = w_val[w]

(* A wait of the reader that finds an item there has been told so, or will *)
(* be: the writer that brought it sets the signal next.  Likewise a wait   *)
(* of a writer that finds room.                                            *)
ReaderIsTold ==
  /\ r_pc = "wait" /\ ~Empty =>
       just_pushed_signal \/ \E w \in Writers : w_pc[w] = "set"
  /\ r_pc \in Asleep /\ ~Empty => \E w \in Writers : w_pc[w] = "set"
WritersAreTold == \A w \in Writers :
  /\ w_pc[w] = "wait" /\ ~Full => just_popped_signal \/ r_pc = "set"
  /\ w_pc[w] \in Asleep /\ ~Full => r_pc = "set"

IInv == /\ TypeOK /\ ReadLockInv /\ WriteLockInv /\ TakeInv /\ CopyInv
        /\ ReaderIsTold /\ WritersAreTold

-----------------------------------------------------------------------------
(* The ring.                                                               *)
(* The index after i is another index of the ring.                         *)
LEMMA FollowingStays ==
  ASSUME NEW i \in 0 .. ItemCount - 1
  PROVE  Following(i) \in 0 .. ItemCount - 1 /\ Following(i) # i
BY FifoAssumption DEF Following

(* Different indexes have different indexes after them.                    *)
LEMMA FollowingDiffers ==
  ASSUME NEW i \in 0 .. ItemCount - 1, NEW j \in 0 .. ItemCount - 1, i # j
  PROVE  Following(i) # Following(j)
BY FifoAssumption DEF Following

-----------------------------------------------------------------------------
(* Each step keeps each part of the invariant.                             *)
(* The types.                                                              *)
LEMMA TypePreserved ==
  ASSUME IInv, [Next]_vars
  PROVE  TypeOK'
<1> USE FifoAssumption, FollowingStays DEF IInv, TypeOK, CopyInv, WriterPlaces, ReaderPlaces, Asleep
<1>1. CASE UNCHANGED vars
  BY <1>1 DEF vars, indexes, signals, locks, writer, reader
<1>2. CASE SetAbort
  BY <1>2 DEF SetAbort, vars, indexes, signals, locks, writer, reader
<1>3. CASE ReadCall
  BY <1>3 DEF ReadCall, vars, indexes, signals, locks, writer, reader
<1>4. CASE FlushCall
  BY <1>4 DEF FlushCall, Calls, vars, indexes, signals, locks, writer, reader
<1>5. CASE ReadLock
  BY <1>5 DEF ReadLock, vars, indexes, signals, locks, writer, reader
<1>6. CASE ReadClear
  BY <1>6 DEF ReadClear, vars, indexes, signals, locks, writer, reader
<1>7. CASE ReadCheck
  BY <1>7 DEF ReadCheck, vars, indexes, signals, locks, writer, reader
<1>8. CASE ReadWait
  BY <1>8 DEF ReadWait, vars, indexes, signals, locks, writer, reader
<1>9. CASE ReadGivesUp
  BY <1>9 DEF ReadGivesUp, vars, indexes, signals, locks, writer, reader
<1>10. CASE ReadTake
  BY <1>10 DEF ReadTake, vars, indexes, signals, locks, writer, reader
<1>11. CASE ReadMove
  BY <1>11 DEF ReadMove, vars, indexes, signals, locks, writer, reader
<1>12. CASE ReadSet
  BY <1>12 DEF ReadSet, vars, indexes, signals, locks, writer, reader
<1>13. CASE ReadRelease
  BY <1>13 DEF ReadRelease, vars, indexes, signals, locks, writer, reader
<1>14. ASSUME NEW w \in Writers, WriteCall(w)
      PROVE  TypeOK'
  BY <1>14 DEF WriteCall, Goto, vars, indexes, signals, locks, writer, reader
<1>15. ASSUME NEW w \in Writers, WriteLock(w)
      PROVE  TypeOK'
  BY <1>15 DEF WriteLock, Goto, vars, indexes, signals, locks, writer, reader
<1>16. ASSUME NEW w \in Writers, WriteClear(w)
      PROVE  TypeOK'
<2>1. w_pc' \in [Writers -> WriterPlaces]
  BY <1>16 DEF WriteClear, Goto
<2>2. just_popped_signal' \in BOOLEAN
  BY <1>16 DEF WriteClear
<2>3. QED
  BY <1>16, <2>1, <2>2 DEF WriteClear, vars, indexes, signals, locks, writer, reader
<1>17. ASSUME NEW w \in Writers, WriteCheck(w)
      PROVE  TypeOK'
  BY <1>17 DEF WriteCheck, Goto, WriteFindsFull, vars, indexes, signals, locks, writer, reader
<1>18. ASSUME NEW w \in Writers, WriteWait(w)
      PROVE  TypeOK'
  BY <1>18 DEF WriteWait, Goto, Failed, vars, indexes, signals, locks, writer, reader
<1>19. ASSUME NEW w \in Writers, WriteGivesUp(w)
      PROVE  TypeOK'
  BY <1>19 DEF WriteGivesUp, Goto, Failed, vars, indexes, signals, locks, writer, reader
<1>20. ASSUME NEW w \in Writers, WriteCallback(w)
      PROVE  TypeOK'
  BY <1>20 DEF WriteCallback, Goto, vars, indexes, signals, locks, writer, reader
<1>21. ASSUME NEW w \in Writers, WriteCopy(w)
      PROVE  TypeOK'
  BY <1>21 DEF WriteCopy, Goto, vars, indexes, signals, locks, writer, reader
<1>22. ASSUME NEW w \in Writers, WriteMove(w)
      PROVE  TypeOK'
  BY <1>22 DEF WriteMove, Goto, vars, indexes, signals, locks, writer, reader
<1>23. ASSUME NEW w \in Writers, WriteSet(w)
      PROVE  TypeOK'
  BY <1>23 DEF WriteSet, Goto, vars, indexes, signals, locks, writer, reader
<1>24. ASSUME NEW w \in Writers, WriteRelease(w)
      PROVE  TypeOK'
  BY <1>24 DEF WriteRelease, Goto, vars, indexes, signals, locks, writer, reader
<1>25. QED
  BY <1>1, <1>2, <1>3, <1>4, <1>5, <1>6, <1>7, <1>8, <1>9, <1>10, <1>11,
     <1>12, <1>13, <1>14, <1>15, <1>16, <1>17, <1>18, <1>19, <1>20, <1>21,
     <1>22, <1>23, <1>24 DEF Next, ReadWorks, WriteWorks

(* The locks.                                                              *)
LEMMA LocksPreserved ==
  ASSUME IInv, [Next]_vars
  PROVE  ReadLockInv' /\ WriteLockInv'
<1> USE FifoAssumption
    DEF IInv, TypeOK, ReadLockInv, WriteLockInv, WriterPlaces, ReaderPlaces, Asleep
<1>1. CASE UNCHANGED vars
  BY <1>1 DEF vars, indexes, signals, locks, writer, reader
<1>2. CASE SetAbort
  BY <1>2 DEF SetAbort, vars, indexes, signals, locks, writer, reader
<1>3. CASE ReadCall
  BY <1>3 DEF ReadCall, vars, indexes, signals, locks, writer, reader
<1>4. CASE FlushCall
  BY <1>4 DEF FlushCall, vars, indexes, signals, locks, writer, reader
<1>5. CASE ReadLock
  BY <1>5 DEF ReadLock, vars, indexes, signals, locks, writer, reader
<1>6. CASE ReadClear
  BY <1>6 DEF ReadClear, vars, indexes, signals, locks, writer, reader
<1>7. CASE ReadCheck
  BY <1>7 DEF ReadCheck, vars, indexes, signals, locks, writer, reader
<1>8. CASE ReadWait
  BY <1>8 DEF ReadWait, vars, indexes, signals, locks, writer, reader
<1>9. CASE ReadGivesUp
  BY <1>9 DEF ReadGivesUp, vars, indexes, signals, locks, writer, reader
<1>10. CASE ReadTake
  BY <1>10 DEF ReadTake, vars, indexes, signals, locks, writer, reader
<1>11. CASE ReadMove
  BY <1>11 DEF ReadMove, vars, indexes, signals, locks, writer, reader
<1>12. CASE ReadSet
  BY <1>12 DEF ReadSet, vars, indexes, signals, locks, writer, reader
<1>13. CASE ReadRelease
  BY <1>13 DEF ReadRelease, vars, indexes, signals, locks, writer, reader
<1>14. ASSUME NEW w \in Writers, WriteCall(w)
      PROVE  ReadLockInv' /\ WriteLockInv'
  BY <1>14 DEF WriteCall, Goto, vars, indexes, signals, locks, writer, reader
<1>15. ASSUME NEW w \in Writers, WriteLock(w)
      PROVE  ReadLockInv' /\ WriteLockInv'
  BY <1>15 DEF WriteLock, Goto, vars, indexes, signals, locks, writer, reader
<1>16. ASSUME NEW w \in Writers, WriteClear(w)
      PROVE  ReadLockInv' /\ WriteLockInv'
  BY <1>16 DEF WriteClear, Goto, vars, indexes, signals, locks, writer, reader
<1>17. ASSUME NEW w \in Writers, WriteCheck(w)
      PROVE  ReadLockInv' /\ WriteLockInv'
  BY <1>17 DEF WriteCheck, Goto, WriteFindsFull, vars, indexes, signals, locks, writer, reader
<1>18. ASSUME NEW w \in Writers, WriteWait(w)
      PROVE  ReadLockInv' /\ WriteLockInv'
  BY <1>18 DEF WriteWait, Goto, Failed, vars, indexes, signals, locks, writer, reader
<1>19. ASSUME NEW w \in Writers, WriteGivesUp(w)
      PROVE  ReadLockInv' /\ WriteLockInv'
  BY <1>19 DEF WriteGivesUp, Goto, Failed, vars, indexes, signals, locks, writer, reader
<1>20. ASSUME NEW w \in Writers, WriteCallback(w)
      PROVE  ReadLockInv' /\ WriteLockInv'
  BY <1>20 DEF WriteCallback, Goto, vars, indexes, signals, locks, writer, reader
<1>21. ASSUME NEW w \in Writers, WriteCopy(w)
      PROVE  ReadLockInv' /\ WriteLockInv'
  BY <1>21 DEF WriteCopy, Goto, vars, indexes, signals, locks, writer, reader
<1>22. ASSUME NEW w \in Writers, WriteMove(w)
      PROVE  ReadLockInv' /\ WriteLockInv'
  BY <1>22 DEF WriteMove, Goto, vars, indexes, signals, locks, writer, reader
<1>23. ASSUME NEW w \in Writers, WriteSet(w)
      PROVE  ReadLockInv' /\ WriteLockInv'
  BY <1>23 DEF WriteSet, Goto, vars, indexes, signals, locks, writer, reader
<1>24. ASSUME NEW w \in Writers, WriteRelease(w)
      PROVE  ReadLockInv' /\ WriteLockInv'
  BY <1>24 DEF WriteRelease, Goto, vars, indexes, signals, locks, writer, reader
<1>25. QED
  BY <1>1, <1>2, <1>3, <1>4, <1>5, <1>6, <1>7, <1>8, <1>9, <1>10, <1>11,
     <1>12, <1>13, <1>14, <1>15, <1>16, <1>17, <1>18, <1>19, <1>20, <1>21,
     <1>22, <1>23, <1>24 DEF Next, ReadWorks, WriteWorks

(* What was seen of the indexes: the step of the other side makes room, or *)
(* brings an item, and only the holder of the lock moves its own.          *)
LEMMA SeenPreserved ==
  ASSUME IInv, [Next]_vars
  PROVE  TakeInv' /\ CopyInv'
<1> USE FifoAssumption, FollowingStays, FollowingDiffers
    DEF IInv, TypeOK, WriteLockInv, TakeInv, CopyInv, Empty, Full,
        WriterPlaces, ReaderPlaces, Asleep
<1>1. CASE UNCHANGED vars
  BY <1>1 DEF vars, indexes, signals, locks, writer, reader
<1>2. CASE SetAbort
  BY <1>2 DEF SetAbort, vars, indexes, signals, locks, writer, reader
<1>3. CASE ReadCall
  BY <1>3 DEF ReadCall, vars, indexes, signals, locks, writer, reader
<1>4. CASE FlushCall
  BY <1>4 DEF FlushCall, vars, indexes, signals, locks, writer, reader
<1>5. CASE ReadLock
  BY <1>5 DEF ReadLock, vars, indexes, signals, locks, writer, reader
<1>6. CASE ReadClear
  BY <1>6 DEF ReadClear, vars, indexes, signals, locks, writer, reader
<1>7. CASE ReadCheck
  BY <1>7 DEF ReadCheck, vars, indexes, signals, locks, writer, reader
<1>8. CASE ReadWait
  BY <1>8 DEF ReadWait, vars, indexes, signals, locks, writer, reader
<1>9. CASE ReadGivesUp
  BY <1>9 DEF ReadGivesUp, vars, indexes, signals, locks, writer, reader
<1>10. CASE ReadTake
  BY <1>10 DEF ReadTake, vars, indexes, signals, locks, writer, reader
<1>11. CASE ReadMove
  BY <1>11 DEF ReadMove, vars, indexes, signals, locks, writer, reader
<1>12. CASE ReadSet
  BY <1>12 DEF ReadSet, vars, indexes, signals, locks, writer, reader
<1>13. CASE ReadRelease
  BY <1>13 DEF ReadRelease, vars, indexes, signals, locks, writer, reader
<1>14. ASSUME NEW w \in Writers, WriteCall(w)
      PROVE  TakeInv' /\ CopyInv'
  BY <1>14 DEF WriteCall, Goto, vars, indexes, signals, locks, writer, reader
<1>15. ASSUME NEW w \in Writers, WriteLock(w)
      PROVE  TakeInv' /\ CopyInv'
  BY <1>15 DEF WriteLock, Goto, vars, indexes, signals, locks, writer, reader
<1>16. ASSUME NEW w \in Writers, WriteClear(w)
      PROVE  TakeInv' /\ CopyInv'
  BY <1>16 DEF WriteClear, Goto, vars, indexes, signals, locks, writer, reader
<1>17. ASSUME NEW w \in Writers, WriteCheck(w)
      PROVE  TakeInv' /\ CopyInv'
  BY <1>17 DEF WriteCheck, Goto, WriteFindsFull, vars, indexes, signals, locks, writer, reader
<1>18. ASSUME NEW w \in Writers, WriteWait(w)
      PROVE  TakeInv' /\ CopyInv'
  BY <1>18 DEF WriteWait, Goto, Failed, vars, indexes, signals, locks, writer, reader
<1>19. ASSUME NEW w \in Writers, WriteGivesUp(w)
      PROVE  TakeInv' /\ CopyInv'
  BY <1>19 DEF WriteGivesUp, Goto, Failed, vars, indexes, signals, locks, writer, reader
<1>20. ASSUME NEW w \in Writers, WriteCallback(w)
      PROVE  TakeInv' /\ CopyInv'
  BY <1>20 DEF WriteCallback, Goto, vars, indexes, signals, locks, writer, reader
<1>21. ASSUME NEW w \in Writers, WriteCopy(w)
      PROVE  TakeInv' /\ CopyInv'
  BY <1>21 DEF WriteCopy, Goto, vars, indexes, signals, locks, writer, reader
<1>22. ASSUME NEW w \in Writers, WriteMove(w)
      PROVE  TakeInv' /\ CopyInv'
  BY <1>22 DEF WriteMove, Goto, vars, indexes, signals, locks, writer, reader
<1>23. ASSUME NEW w \in Writers, WriteSet(w)
      PROVE  TakeInv' /\ CopyInv'
  BY <1>23 DEF WriteSet, Goto, vars, indexes, signals, locks, writer, reader
<1>24. ASSUME NEW w \in Writers, WriteRelease(w)
      PROVE  TakeInv' /\ CopyInv'
  BY <1>24 DEF WriteRelease, Goto, vars, indexes, signals, locks, writer, reader
<1>25. QED
  BY <1>1, <1>2, <1>3, <1>4, <1>5, <1>6, <1>7, <1>8, <1>9, <1>10, <1>11,
     <1>12, <1>13, <1>14, <1>15, <1>16, <1>17, <1>18, <1>19, <1>20, <1>21,
     <1>22, <1>23, <1>24 DEF Next, ReadWorks, WriteWorks

(* The signals: ReadClear comes before the look at the indexes, and each   *)
(* change of an index before the set.                                      *)
LEMMA TellingPreserved ==
  ASSUME IInv, [Next]_vars
  PROVE  ReaderIsTold' /\ WritersAreTold'
<1> USE FifoAssumption, FollowingStays, FollowingDiffers
    DEF IInv, TypeOK, ReadLockInv, WriteLockInv, TakeInv, CopyInv, ReaderIsTold,
        WritersAreTold, Empty, Full, WriterPlaces, ReaderPlaces, Asleep
<1>1. CASE UNCHANGED vars
  BY <1>1 DEF vars, indexes, signals, locks, writer, reader
<1>2. CASE SetAbort
  BY <1>2 DEF SetAbort, vars, indexes, signals, locks, writer, reader
<1>3. CASE ReadCall
  BY <1>3 DEF ReadCall, vars, indexes, signals, locks, writer, reader
<1>4. CASE FlushCall
  BY <1>4 DEF FlushCall, vars, indexes, signals, locks, writer, reader
<1>5. CASE ReadLock
  BY <1>5 DEF ReadLock, vars, indexes, signals, locks, writer, reader
<1>6. CASE ReadClear
  BY <1>6 DEF ReadClear, vars, indexes, signals, locks, writer, reader
<1>7. CASE ReadCheck
  BY <1>7 DEF ReadCheck, vars, indexes, signals, locks, writer, reader
<1>8. CASE ReadWait
  BY <1>8 DEF ReadWait, vars, indexes, signals, locks, writer, reader
<1>9. CASE ReadGivesUp
  BY <1>9 DEF ReadGivesUp, vars, indexes, signals, locks, writer, reader
<1>10. CASE ReadTake
  BY <1>10 DEF ReadTake, vars, indexes, signals, locks, writer, reader
<1>11. CASE ReadMove
  BY <1>11 DEF ReadMove, vars, indexes, signals, locks, writer, reader
<1>12. CASE ReadSet
  BY <1>12 DEF ReadSet, vars, indexes, signals, locks, writer, reader
<1>13. CASE ReadRelease
  BY <1>13 DEF ReadRelease, vars, indexes, signals, locks, writer, reader
<1>14. ASSUME NEW w \in Writers, WriteCall(w)
      PROVE  ReaderIsTold' /\ WritersAreTold'
  BY <1>14 DEF WriteCall, Goto, vars, indexes, signals, locks, writer, reader
<1>15. ASSUME NEW w \in Writers, WriteLock(w)
      PROVE  ReaderIsTold' /\ WritersAreTold'
  BY <1>15 DEF WriteLock, Goto, vars, indexes, signals, locks, writer, reader
<1>16. ASSUME NEW w \in Writers, WriteClear(w)
      PROVE  ReaderIsTold' /\ WritersAreTold'
  BY <1>16 DEF WriteClear, Goto, vars, indexes, signals, locks, writer, reader
<1>17. ASSUME NEW w \in Writers, WriteCheck(w)
      PROVE  ReaderIsTold' /\ WritersAreTold'
  BY <1>17 DEF WriteCheck, Goto, WriteFindsFull, vars, indexes, signals, locks, writer, reader
<1>18. ASSUME NEW w \in Writers, WriteWait(w)
      PROVE  ReaderIsTold' /\ WritersAreTold'
  BY <1>18 DEF WriteWait, Goto, Failed, vars, indexes, signals, locks, writer, reader
<1>19. ASSUME NEW w \in Writers, WriteGivesUp(w)
      PROVE  ReaderIsTold' /\ WritersAreTold'
  BY <1>19 DEF WriteGivesUp, Goto, Failed, vars, indexes, signals, locks, writer, reader
<1>20. ASSUME NEW w \in Writers, WriteCallback(w)
      PROVE  ReaderIsTold' /\ WritersAreTold'
  BY <1>20 DEF WriteCallback, Goto, vars, indexes, signals, locks, writer, reader
<1>21. ASSUME NEW w \in Writers, WriteCopy(w)
      PROVE  ReaderIsTold' /\ WritersAreTold'
  BY <1>21 DEF WriteCopy, Goto, vars, indexes, signals, locks, writer, reader
<1>22. ASSUME NEW w \in Writers, WriteMove(w)
      PROVE  ReaderIsTold' /\ WritersAreTold'
  BY <1>22 DEF WriteMove, Goto, vars, indexes, signals, locks, writer, reader
<1>23. ASSUME NEW w \in Writers, WriteSet(w)
      PROVE  ReaderIsTold' /\ WritersAreTold'
  BY <1>23 DEF WriteSet, Goto, vars, indexes, signals, locks, writer, reader
<1>24. ASSUME NEW w \in Writers, WriteRelease(w)
      PROVE  ReaderIsTold' /\ WritersAreTold'
  BY <1>24 DEF WriteRelease, Goto, vars, indexes, signals, locks, writer, reader
<1>25. QED
  BY <1>1, <1>2, <1>3, <1>4, <1>5, <1>6, <1>7, <1>8, <1>9, <1>10, <1>11,
     <1>12, <1>13, <1>14, <1>15, <1>16, <1>17, <1>18, <1>19, <1>20, <1>21,
     <1>22, <1>23, <1>24 DEF Next, ReadWorks, WriteWorks

(* The initial state: both sides outside, no lock held.                    *)
LEMMA InitHolds == Init => IInv
<1> SUFFICES ASSUME Init
             PROVE  IInv
  OBVIOUS
<1>1. TypeOK
  <2>1. /\ head_index \in 0 .. ItemCount - 1 /\ tail_index \in 0 .. ItemCount - 1
        /\ item_array \in [0 .. ItemCount - 1 -> Data \cup {None}]
        /\ writes \in 0 .. MaxWrites
    BY FifoAssumption DEF Init
  <2>2. /\ w_pc \in [Writers -> WriterPlaces]
        /\ w_val \in [Writers -> Data \cup {None}]
        /\ w_call \in [Writers -> Calls \cup {None}]
    BY DEF Init, WriterPlaces
  <2>3. QED
    BY <2>1, <2>2 DEF Init, TypeOK, ReaderPlaces
<1>2. ReadLockInv /\ WriteLockInv
  BY FifoAssumption DEF Init, ReadLockInv, WriteLockInv
<1>3. TakeInv /\ CopyInv /\ ReaderIsTold /\ WritersAreTold
  BY DEF Init, TakeInv, CopyInv, ReaderIsTold, WritersAreTold, Asleep
<1>4. QED
  BY <1>1, <1>2, <1>3 DEF IInv

(* The inductive invariant holds in every state: the types, who holds the  *)
(* locks, that what each side has seen of the other's index stays good     *)
(* enough, and that whoever waits is told of a change.                     *)
THEOREM Invariance == Spec => []IInv
<1>1. IInv /\ [Next]_vars => IInv'
  BY TypePreserved, LocksPreserved, SeenPreserved, TellingPreserved DEF IInv
<1>2. QED
  BY InitHolds, <1>1, PTL DEF Spec

(* At most one writer works on the FIFO at a time, and the callback for a  *)
(* full FIFO runs while the reader is outside (CdiFifoWrite, fifo.c).      *)
OneWriterWorks ==
  /\ \A v, w \in Writers :
       w_pc[v] \notin {"idle", "lock"} /\ w_pc[w] \notin {"idle", "lock"} => v = w
  /\ \A w \in Writers : read_lock = w => r_pc \in {"idle", "lock"}
(* The write lock and the read lock let one thread in at a time.           *)
THEOREM Exclusion == Spec => []OneWriterWorks
<1>1. IInv => OneWriterWorks
  BY FifoAssumption DEF IInv, TypeOK, ReadLockInv, WriteLockInv, OneWriterWorks
<1>2. QED
  BY Invariance, <1>1, PTL

(* Neither side sleeps over what it waits for without a wake-up on its way *)
(* (CdiFifoRead and CdiFifoWrite clear their signal before they look).     *)
SleepsOnlyWithReason ==
  /\ r_pc \in Asleep /\ ~Empty => \E w \in Writers : w_pc[w] = "set"
  /\ \A w \in Writers : w_pc[w] \in Asleep /\ ~Full => r_pc = "set"
(* Nobody sleeps for ever beside the room or the item it waits for.        *)
THEOREM NoLostWakeUp == Spec => []SleepsOnlyWithReason
<1>1. IInv => SleepsOnlyWithReason
  BY DEF IInv, ReaderIsTold, WritersAreTold, SleepsOnlyWithReason
<1>2. QED
  BY Invariance, <1>1, PTL

-----------------------------------------------------------------------------
(* The items from index f up to, but not at, index h of a ring.            *)
Distance(f, h) == IF f <= h THEN h - f ELSE h + ItemCount - f
Slice(ring, f, h) == [k \in 1 .. Distance(f, h) |-> ring[Wrapped(f + k - 1)]]

(* The abstract queue is the slice from the first item to the head.        *)
LEMMA ContentsAreSlice == Contents = Slice(item_array, First, head_index)
BY DEF Contents, Held, Slice, Distance

(* An item at the end of a slice: it is appended.                          *)
LEMMA SliceAppends ==
  ASSUME NEW ring, NEW f \in 0 .. ItemCount - 1, NEW h \in 0 .. ItemCount - 1,
         Following(h) # f
  PROVE  /\ Slice(ring, f, Following(h)) = Append(Slice(ring, f, h), ring[h])
         /\ Len(Slice(ring, f, h)) < ItemCount - 1
<1>1. /\ Distance(f, h) \in Nat /\ Distance(f, h) < ItemCount - 1
      /\ Distance(f, Following(h)) = Distance(f, h) + 1
      /\ Wrapped(f + Distance(f, h)) = h
  BY FifoAssumption DEF Distance, Following, Wrapped
<1>2. Slice(ring, f, h) = [k \in 1 .. Distance(f, h) |-> ring[Wrapped(f + k - 1)]]
  BY DEF Slice
<1>3. Slice(ring, f, Following(h))
        = [k \in 1 .. Distance(f, h) + 1 |-> ring[Wrapped(f + k - 1)]]
  BY <1>1 DEF Slice
<1>4. QED
  BY <1>1, <1>2, <1>3

(* The first item of a slice that is not empty: it is the head, and the    *)
(* slice from the index after it is the tail.                              *)
LEMMA SliceBegins ==
  ASSUME NEW ring, NEW f \in 0 .. ItemCount - 1, NEW h \in 0 .. ItemCount - 1,
         f # h
  PROVE  /\ Slice(ring, f, h) # <<>>
         /\ Head(Slice(ring, f, h)) = ring[f]
         /\ Tail(Slice(ring, f, h)) = Slice(ring, Following(f), h)
<1>1. /\ Distance(f, h) \in Nat /\ Distance(f, h) > 0
      /\ Distance(Following(f), h) = Distance(f, h) - 1
      /\ Wrapped(f) = f
      /\ \A k \in 1 .. Distance(f, h) - 1 : Wrapped(Following(f) + k - 1) = Wrapped(f + k)
  BY FifoAssumption DEF Distance, Following, Wrapped
<1>2. Slice(ring, f, h) = [k \in 1 .. Distance(f, h) |-> ring[Wrapped(f + k - 1)]]
  BY DEF Slice
<1>3. Slice(ring, Following(f), h)
        = [k \in 1 .. Distance(f, h) - 1 |-> ring[Wrapped(f + k)]]
  BY <1>1 DEF Slice
<1>4. QED
  BY <1>1, <1>2, <1>3

(* The place at the head is not in the slice up to the head.               *)
LEMMA SliceEnds ==
  ASSUME NEW f \in 0 .. ItemCount - 1, NEW h \in 0 .. ItemCount - 1,
         NEW k \in 1 .. Distance(f, h)
  PROVE  Wrapped(f + k - 1) \in 0 .. ItemCount - 1 /\ Wrapped(f + k - 1) # h
BY FifoAssumption DEF Distance, Wrapped

-----------------------------------------------------------------------------
(* The refinement: ReadTake takes an item out, WriteMove puts one in, and  *)
(* no other step changes what the abstract queue sees.                     *)
(* The first item is in the ring.                                          *)
LEMMA FirstType == IInv => First \in 0 .. ItemCount - 1
BY FollowingStays DEF IInv, TypeOK, First

(* The reader's take is the abstract Get.                                  *)
LEMMA TakesOne ==
  ASSUME IInv, ReadTake
  PROVE  Q!Get
<1>1. /\ tail_index \in 0 .. ItemCount - 1 /\ head_index \in 0 .. ItemCount - 1
      /\ tail_index # head_index /\ r_pc = "take"
  BY DEF IInv, TypeOK, TakeInv, Empty, ReadTake
<1>2. First = tail_index /\ First' = Following(tail_index)
  BY <1>1 DEF ReadTake, First, indexes
<1>3. /\ Contents = Slice(item_array, tail_index, head_index)
      /\ Contents' = Slice(item_array, Following(tail_index), head_index)
  BY <1>2 DEF ReadTake, indexes, Contents, Held, Slice, Distance
<1>4. QED
  BY <1>1, <1>3, SliceBegins DEF Q!Get, ReadTake

(* A writer's move of the head is the abstract Put.                        *)
LEMMA PutsOne ==
  ASSUME IInv, NEW w \in Writers, WriteMove(w)
  PROVE  Q!Put
<1>1. /\ First \in 0 .. ItemCount - 1 /\ head_index \in 0 .. ItemCount - 1
      /\ item_array[head_index] \in Data
      /\ Following(head_index) # tail_index
  BY FirstType DEF IInv, TypeOK, CopyInv, WriteMove, Full
<1>2. Following(head_index) # First
  BY <1>1, FollowingDiffers DEF IInv, TypeOK, TakeInv, Empty, First
<1>3. First' = First
  BY DEF WriteMove, First, reader
<1>4. /\ Contents = Slice(item_array, First, head_index)
      /\ Contents' = Slice(item_array, First, Following(head_index))
  BY <1>3, ContentsAreSlice DEF WriteMove, Contents, Held, Slice, Distance
<1>5. QED
  BY <1>1, <1>2, <1>4, SliceAppends DEF Q!Put, WriteMove, reader

(* The copy of an item goes to a place outside the slice.                  *)
LEMMA CopyIsHidden ==
  ASSUME IInv, NEW w \in Writers, WriteCopy(w)
  PROVE  UNCHANGED <<Contents, got>>
<1>1. First' = First
  BY DEF WriteCopy, First, reader
<1>2. /\ Contents = Slice(item_array, First, head_index)
      /\ Contents' = Slice(item_array', First, head_index)
  BY <1>1 DEF WriteCopy, Contents, Held, Slice, Distance
<1>3. /\ item_array \in [0 .. ItemCount - 1 -> Data \cup {None}]
      /\ head_index \in 0 .. ItemCount - 1 /\ First \in 0 .. ItemCount - 1
  BY FirstType DEF IInv, TypeOK
<1>4. ASSUME NEW k \in 1 .. Distance(First, head_index)
      PROVE  item_array'[Wrapped(First + k - 1)] = item_array[Wrapped(First + k - 1)]
  BY <1>3, SliceEnds DEF WriteCopy
<1>5. QED
  BY <1>2, <1>4 DEF WriteCopy, Slice, reader

(* The reader moves its index past the item it took.                       *)
LEMMA MoveIsHidden ==
  ASSUME ReadMove
  PROVE  UNCHANGED <<Contents, got>>
<1>1. First' = First
  BY DEF ReadMove, First
<1>2. QED
  BY <1>1 DEF ReadMove, Contents, Held

(* The other steps leave the ring alone, and the reader does not come to,  *)
(* nor leave, the place between taking an item and moving its index.       *)
LEMMA OthersAreHidden ==
  ASSUME UNCHANGED indexes, UNCHANGED got, r_pc = "move" <=> r_pc' = "move"
  PROVE  UNCHANGED <<Contents, got>>
<1>1. First' = First
  BY DEF First, indexes
<1>2. QED
  BY <1>1 DEF Contents, Held, indexes

(* The FIFO implements a queue of item_count - 1 places (fifo.c, 41): items *)
(* come out once each and in order, and none is lost or written over.      *)
THEOREM Refinement == Spec => ImplementsBoundedQueue
<1>1. Init => Q!Init
  BY FifoAssumption DEF Init, Q!Init, Contents, Held, First
<1>2. IInv /\ [Next]_vars => [Q!Next]_(Q!abstractVars)
  <2> SUFFICES ASSUME IInv, [Next]_vars
               PROVE  Q!Next \/ UNCHANGED <<Contents, got>>
    BY DEF Q!abstractVars
  <2>1. CASE ReadTake
    BY <2>1, TakesOne DEF Q!Next
  <2>2. CASE ReadMove
    BY <2>2, MoveIsHidden
  <2>3. ASSUME NEW w \in Writers, WriteMove(w)
        PROVE  Q!Next
    BY <2>3, PutsOne DEF Q!Next
  <2>4. ASSUME NEW w \in Writers, WriteCopy(w)
        PROVE  UNCHANGED <<Contents, got>>
    BY <2>4, CopyIsHidden
  <2>5. CASE \/ UNCHANGED vars \/ SetAbort \/ ReadCall \/ FlushCall
             \/ ReadLock \/ ReadClear \/ ReadCheck \/ ReadWait \/ ReadGivesUp
             \/ ReadSet \/ ReadRelease
    BY <2>5, OthersAreHidden
       DEF vars, reader, SetAbort, ReadCall, FlushCall, ReadLock, ReadClear,
           ReadCheck, ReadWait, ReadGivesUp, ReadSet, ReadRelease
  <2>6. ASSUME NEW w \in Writers,
               \/ WriteCall(w) \/ WriteLock(w) \/ WriteClear(w) \/ WriteCheck(w)
               \/ WriteWait(w) \/ WriteGivesUp(w) \/ WriteCallback(w)
               \/ WriteSet(w) \/ WriteRelease(w)
        PROVE  UNCHANGED <<Contents, got>>
    BY <2>6, OthersAreHidden
       DEF reader, Asleep, WriteCall, WriteLock, WriteClear, WriteCheck, WriteWait,
           WriteGivesUp, WriteCallback, WriteSet, WriteRelease
  <2>7. QED
    BY <2>1, <2>2, <2>3, <2>4, <2>5, <2>6 DEF Next, ReadWorks, WriteWorks
<1>3. QED
  BY Invariance, <1>1, <1>2, PTL DEF ImplementsBoundedQueue, Q!Spec, Spec
=============================================================================

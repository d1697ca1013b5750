------------------------------ MODULE CdiFifo -------------------------------
(***************************************************************************)
(* The FIFO of fifo.c: a circular array with one lock for each side, each  *)
(* held for the whole call, a wait for room or for an item included.  It   *)
(* carries the packets and state changes of a probe to its thread, the     *)
(* expired timers, and statistics: many writers, one reader.               *)
(*                                                                         *)
(* CdiOsSignalsWait is taken as OsSignals shows it: it returns at once     *)
(* with the first signal of its array that is active, or sleeps until one  *)
(* is set, cleared again or not.                                           *)
(***************************************************************************)
EXTENDS Integers, Sequences, FiniteSets

CONSTANTS
  Writers,
  Data,
  None,       \* no item, no thread, no call
  ItemCount,  \* item_count
  MaxWrites   \* bound on calls of CdiFifoWrite

(* A call waits for a time, or without limit and with an abort signal.     *)
Calls == {"Timed", "UntilAborted"}

ASSUME FifoAssumption ==
  /\ ItemCount \in Nat /\ ItemCount >= 2
  /\ MaxWrites \in Nat
  /\ None \notin Data \cup Writers \cup Calls \cup {"reader"}
  /\ "reader" \notin Writers

VARIABLES
  head_index, tail_index, item_array,
  read_lock, write_lock,
  just_pushed_signal, just_popped_signal,
  abort_signal,   \* the abort_wait_signal of the calls that pass one
  full_cb_ptr,    \* whether the FIFO was created with a callback
  w_pc, w_val, w_call,  \* writers: place, data_ptr, kind of wait
  r_pc, r_call,         \* the reader
  flushing,       \* the reader is in CdiFifoFlush
  got,            \* history: the item read last
  writes          \* history: calls of CdiFifoWrite

indexes == <<head_index, tail_index, item_array>>
signals == <<just_pushed_signal, just_popped_signal>>
locks   == <<read_lock, write_lock>>
writer  == <<w_pc, w_val, w_call>>
reader  == <<r_pc, r_call, flushing, got>>
vars == <<indexes, locks, signals, abort_signal, full_cb_ptr, writer, reader, writes>>

(* (index + 1) % item_count                                                *)
Following(index) == IF index = ItemCount - 1 THEN 0 ELSE index + 1
Empty == head_index = tail_index
Full == Following(head_index) = tail_index

WriterPlaces == {"idle", "lock", "clear", "check", "wait", "blocked", "aborted",
                 "again", "callback", "copy", "move", "set", "release"}
ReaderPlaces == {"idle", "lock", "clear", "check", "wait", "blocked", "aborted",
                 "again", "take", "move", "set", "release"}

(* In CdiOsSignalsWait, and not yet past its look at the changed signals:  *)
(* the FIFO's own, which comes first, can still set it off.                *)
Asleep == {"blocked", "aborted"}

TypeOK ==
  /\ head_index \in 0 .. ItemCount - 1
  /\ tail_index \in 0 .. ItemCount - 1
  /\ item_array \in [0 .. ItemCount - 1 -> Data \cup {None}]
  /\ read_lock \in Writers \cup {"reader", None}
  /\ write_lock \in Writers \cup {None}
  /\ just_pushed_signal \in BOOLEAN /\ just_popped_signal \in BOOLEAN
  /\ abort_signal \in BOOLEAN /\ full_cb_ptr \in BOOLEAN
  /\ w_pc \in [Writers -> WriterPlaces]
  /\ w_val \in [Writers -> Data \cup {None}]
  /\ w_call \in [Writers -> Calls \cup {None}]
  /\ r_pc \in ReaderPlaces /\ r_call \in Calls \cup {None}
  /\ flushing \in BOOLEAN
  /\ got \in Data \cup {None}
  /\ writes \in 0 .. MaxWrites

-----------------------------------------------------------------------------
(* CdiFifoCreate                                                           *)
Init ==
  /\ head_index = 0 /\ tail_index = 0
  /\ item_array = [k \in 0 .. ItemCount - 1 |-> None]
  /\ read_lock = None /\ write_lock = None
  /\ just_pushed_signal = FALSE /\ just_popped_signal = FALSE
  /\ abort_signal = FALSE
  /\ full_cb_ptr \in BOOLEAN
  /\ w_pc = [w \in Writers |-> "idle"]
  /\ w_val = [w \in Writers |-> None]
  /\ w_call = [w \in Writers |-> None]
  /\ r_pc = "idle" /\ r_call = None
  /\ flushing = FALSE
  /\ got = None
  /\ writes = 0

(* The owner of the FIFO sets the abort signal when it shuts down.         *)
SetAbort ==
  /\ ~abort_signal
  /\ abort_signal' = TRUE
  /\ r_pc' = IF r_pc = "blocked" /\ r_call = "UntilAborted" THEN "aborted" ELSE r_pc
  /\ w_pc' = [w \in Writers |-> IF w_pc[w] = "blocked" /\ w_call[w] = "UntilAborted"
                                THEN "aborted" ELSE w_pc[w]]
  /\ UNCHANGED <<indexes, locks, signals, full_cb_ptr, w_val, w_call, r_call,
                 flushing, got, writes>>

-----------------------------------------------------------------------------
(* CdiFifoRead                                                             *)
ReadCall ==
  /\ r_pc = "idle"
  /\ r_pc' = "lock"
  /\ r_call' \in Calls
  /\ UNCHANGED <<indexes, locks, signals, abort_signal, full_cb_ptr, writer,
                 flushing, got, writes>>

(* CdiFifoFlush reads with a time-out of 0 until a read fails.             *)
FlushCall ==
  /\ r_pc = "idle"
  /\ r_pc' = "lock"
  /\ r_call' = "Timed"
  /\ flushing' = TRUE
  /\ UNCHANGED <<indexes, locks, signals, abort_signal, full_cb_ptr, writer, got, writes>>

ReadLock ==
  /\ r_pc = "lock" /\ read_lock = None
  /\ read_lock' = "reader"
  /\ r_pc' = "clear"
  /\ UNCHANGED <<indexes, write_lock, signals, abort_signal, full_cb_ptr, writer,
                 r_call, flushing, got, writes>>

ReadClear ==
  /\ r_pc = "clear"
  /\ just_pushed_signal' = FALSE
  /\ r_pc' = "check"
  /\ UNCHANGED <<indexes, locks, just_popped_signal, abort_signal, full_cb_ptr,
                 writer, r_call, flushing, got, writes>>

(* Before the wait and after each.                                         *)
ReadCheck ==
  /\ r_pc \in {"check", "again"}
  /\ r_pc' = IF Empty THEN "wait" ELSE "take"
  /\ UNCHANGED <<indexes, locks, signals, abort_signal, full_cb_ptr, writer,
                 r_call, flushing, got, writes>>

\* A mutant: the signal is cleared when the wait begins.
ReadClearsThenWaits ==
  /\ r_pc = "wait"
  /\ just_pushed_signal' = FALSE
  /\ r_pc' = IF abort_signal /\ r_call = "UntilAborted" THEN "release" ELSE "blocked"
  /\ flushing' = IF r_pc' = "release" THEN FALSE ELSE flushing
  /\ UNCHANGED <<indexes, locks, just_popped_signal, abort_signal, full_cb_ptr,
                 writer, r_call, got, writes>>
(* The signal of the FIFO is never cleared in the loop, and comes before   *)
(* the one that aborts the wait.                                           *)
ReadWait ==
  /\ r_pc = "wait"
  /\ r_pc' = IF just_pushed_signal THEN "again"
             ELSE IF abort_signal /\ r_call = "UntilAborted" THEN "release"
             ELSE "blocked"
  /\ flushing' = IF r_pc' = "release" THEN FALSE ELSE flushing
  /\ UNCHANGED <<indexes, locks, signals, abort_signal, full_cb_ptr, writer,
                 r_call, got, writes>>

ReadGivesUp ==
  /\ r_pc = "aborted" \/ (r_pc = "blocked" /\ r_call = "Timed")
  /\ r_pc' = "release"
  /\ flushing' = FALSE
  /\ UNCHANGED <<indexes, locks, signals, abort_signal, full_cb_ptr, writer,
                 r_call, got, writes>>

ReadTake ==
  /\ r_pc = "take"
  /\ got' = item_array[tail_index]
  /\ r_pc' = "move"
  /\ UNCHANGED <<indexes, locks, signals, abort_signal, full_cb_ptr, writer,
                 r_call, flushing, writes>>

ReadMove ==
  /\ r_pc = "move"
  /\ tail_index' = Following(tail_index)
  /\ r_pc' = "set"
  /\ UNCHANGED <<head_index, item_array, locks, signals, abort_signal, full_cb_ptr,
                 writer, r_call, flushing, got, writes>>

ReadSet ==
  /\ r_pc = "set"
  /\ just_popped_signal' = TRUE
  /\ w_pc' = [w \in Writers |-> IF w_pc[w] \in Asleep THEN "again" ELSE w_pc[w]]
  /\ r_pc' = "release"
  /\ UNCHANGED <<indexes, locks, just_pushed_signal, abort_signal, full_cb_ptr,
                 w_val, w_call, r_call, flushing, got, writes>>

ReadRelease ==
  /\ r_pc = "release"
  /\ read_lock' = None
  /\ r_pc' = IF flushing THEN "lock" ELSE "idle"
  /\ r_call' = IF flushing THEN r_call ELSE None
  /\ UNCHANGED <<indexes, write_lock, signals, abort_signal, full_cb_ptr, writer,
                 flushing, got, writes>>

ReadWorks ==
  \/ ReadLock \/ ReadClear \/ ReadCheck \/ ReadWait \/ ReadGivesUp
  \/ ReadTake \/ ReadMove \/ ReadSet \/ ReadRelease

-----------------------------------------------------------------------------
(* CdiFifoWrite                                                            *)
Goto(w, pc) == w_pc' = [w_pc EXCEPT ![w] = pc]

WriteCall(w) ==
  /\ w_pc[w] = "idle" /\ writes < MaxWrites
  /\ writes' = writes + 1
  /\ \E d \in Data : w_val' = [w_val EXCEPT ![w] = d]
  /\ \E c \in Calls : w_call' = [w_call EXCEPT ![w] = c]
  /\ Goto(w, "lock")
  /\ UNCHANGED <<indexes, locks, signals, abort_signal, full_cb_ptr, reader>>

WriteLock(w) ==
  /\ w_pc[w] = "lock" /\ write_lock = None
  /\ write_lock' = w
  /\ Goto(w, "clear")
  /\ UNCHANGED <<indexes, read_lock, signals, abort_signal, full_cb_ptr, w_val,
                 w_call, reader, writes>>

WriteClear(w) ==
  /\ w_pc[w] = "clear"
  /\ just_popped_signal' = FALSE
  /\ Goto(w, "check")
  /\ UNCHANGED <<indexes, locks, just_pushed_signal, abort_signal, full_cb_ptr,
                 w_val, w_call, reader, writes>>

\* A mutant: the last place is used too.
NoPlaceLeft == FALSE
WriteFindsFull == Full
WriteCheck(w) ==
  /\ w_pc[w] \in {"check", "again"}
  /\ Goto(w, IF WriteFindsFull THEN "wait" ELSE "copy")
  /\ UNCHANGED <<indexes, locks, signals, abort_signal, full_cb_ptr, w_val,
                 w_call, reader, writes>>

(* The write has failed.                                                   *)
Failed == IF full_cb_ptr THEN "callback" ELSE "release"

WriteWait(w) ==
  /\ w_pc[w] = "wait"
  /\ Goto(w, IF just_popped_signal THEN "again"
             ELSE IF abort_signal /\ w_call[w] = "UntilAborted" THEN Failed
             ELSE "blocked")
  /\ UNCHANGED <<indexes, locks, signals, abort_signal, full_cb_ptr, w_val,
                 w_call, reader, writes>>

WriteGivesUp(w) ==
  /\ w_pc[w] = "aborted" \/ (w_pc[w] = "blocked" /\ w_call[w] = "Timed")
  /\ Goto(w, Failed)
  /\ UNCHANGED <<indexes, locks, signals, abort_signal, full_cb_ptr, w_val,
                 w_call, reader, writes>>

(* The callback is given the item at the tail, and the item before the     *)
(* head; it runs under both locks.                                         *)
WriteCallback(w) ==
  /\ w_pc[w] = "callback" /\ read_lock = None
  /\ read_lock' = w
  /\ Goto(w, "release")
  /\ UNCHANGED <<indexes, write_lock, signals, abort_signal, full_cb_ptr, w_val,
                 w_call, reader, writes>>

WriteCopy(w) ==
  /\ w_pc[w] = "copy"
  /\ item_array' = [item_array EXCEPT ![head_index] = w_val[w]]
  /\ Goto(w, "move")
  /\ UNCHANGED <<head_index, tail_index, locks, signals, abort_signal, full_cb_ptr,
                 w_val, w_call, reader, writes>>

WriteMove(w) ==
  /\ w_pc[w] = "move"
  /\ head_index' = Following(head_index)
  /\ Goto(w, "set")
  /\ UNCHANGED <<tail_index, item_array, locks, signals, abort_signal, full_cb_ptr,
                 w_val, w_call, reader, writes>>

WriteSet(w) ==
  /\ w_pc[w] = "set"
  /\ just_pushed_signal' = TRUE
  /\ r_pc' = IF r_pc \in Asleep THEN "again" ELSE r_pc
  /\ Goto(w, "release")
  /\ UNCHANGED <<indexes, locks, just_popped_signal, abort_signal, full_cb_ptr,
                 w_val, w_call, r_call, flushing, got, writes>>

WriteRelease(w) ==
  /\ w_pc[w] = "release"
  /\ write_lock' = None
  /\ read_lock' = IF read_lock = w THEN None ELSE read_lock
  /\ Goto(w, "idle")
  /\ w_val' = [w_val EXCEPT ![w] = None]
  /\ w_call' = [w_call EXCEPT ![w] = None]
  /\ UNCHANGED <<indexes, signals, abort_signal, full_cb_ptr, reader, writes>>

WriteWorks(w) ==
  \/ WriteLock(w) \/ WriteClear(w) \/ WriteCheck(w) \/ WriteWait(w)
  \/ WriteGivesUp(w) \/ WriteCallback(w) \/ WriteCopy(w) \/ WriteMove(w)
  \/ WriteSet(w) \/ WriteRelease(w)

-----------------------------------------------------------------------------
Next ==
  \/ SetAbort
  \/ ReadCall \/ FlushCall \/ ReadWorks
  \/ \E w \in Writers : WriteCall(w) \/ WriteWorks(w)

Spec == Init /\ [][Next]_vars

(* The threads keep running, a lock goes to every thread that waits for it *)
(* long enough, and a wait with a time-out ends.                           *)
FairSpec ==
  /\ Spec
  /\ WF_vars(ReadWorks)
  /\ \A w \in Writers : WF_vars(WriteWorks(w)) /\ SF_vars(WriteLock(w))

-----------------------------------------------------------------------------
(* Properties.                                                             *)

(* The items between the tail and the head; the reader has taken the one   *)
(* at the tail once it has copied it.                                      *)
Wrapped(k) == IF k < ItemCount THEN k ELSE k - ItemCount
First == IF r_pc = "move" THEN Following(tail_index) ELSE tail_index
Held == IF First <= head_index THEN head_index - First
        ELSE head_index + ItemCount - First
Contents == [k \in 1 .. Held |-> item_array[Wrapped(First + k - 1)]]

(* The FIFO implements a queue of item_count - 1 places: items come out    *)
(* once each and in order, and none is written over while it is read.      *)
Q == INSTANCE BoundedQueue WITH Capacity <- ItemCount - 1, NoItem <- None,
                              q <- Contents
ImplementsBoundedQueue == Q!Spec

(* A read that sleeps while there is an item returns, and so does a write  *)
(* that sleeps while there is room, unless the FIFO has a callback: a      *)
(* writer that has failed then waits for the lock of a reader, which may   *)
(* sleep with it until an item is written.                                 *)
SleepersReturn ==
  /\ (r_pc \in Asleep /\ ~Empty) ~> r_pc = "release"
  /\ \A w \in Writers : (~full_cb_ptr /\ w_pc[w] \in Asleep /\ ~Full) ~> w_pc[w] = "release"
=============================================================================

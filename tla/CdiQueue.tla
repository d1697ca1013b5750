------------------------------ MODULE CdiQueue ------------------------------
(***************************************************************************)
(* The lock-free queue of src/common/src/queue.c: a circular singly linked *)
(* list with a read and a write pointer, one popping thread, one pushing   *)
(* thread or several that share multiple_writer_cs, growth of the ring by  *)
(* the pusher while the popper walks it, and two manual-reset signals on   *)
(* which CdiQueuePopWait and CdiQueuePushWait block.                       *)
(*                                                                         *)
(* List entries are numbers: the array CdiQueueCreate allocates is         *)
(* 1 .. ItemCount + 1, each array QueueIncrease allocates continues the    *)
(* numbering.  A step is one access to memory the threads share; what a    *)
(* thread does to its own locals is folded into the access before it.      *)
(*                                                                         *)
(* sent, out and got are history variables: the items published through    *)
(* the write pointer, how many of them the read pointer has passed, and    *)
(* the last item handed to the caller of a pop.                            *)
(***************************************************************************)
EXTENDS Integers, Sequences

CONSTANTS
  Writers,          \* the threads that push
  Data,             \* the items they push
  ItemCount,        \* item_count of CdiQueueCreate
  GrowCount,        \* grow_count
  MaxGrowCount,     \* max_grow_count
  MultipleWriters,  \* TRUE: kQueueMultipleWritersFlag was given
  FiniteTimeout,    \* TRUE: waits have a timeout, FALSE: CDI_INFINITE
  MaxPushes,        \* bound on the number of items pushed
  NoOne,            \* not a thread: multiple_writer_cs is free
  NoItem            \* not an item: an entry that was never written

ASSUME QueueAssumption ==
  /\ ItemCount \in Nat \ {0}
  /\ GrowCount \in Nat
  /\ MaxGrowCount \in Nat
  /\ MultipleWriters \in BOOLEAN
  /\ FiniteTimeout \in BOOLEAN
  /\ MaxPushes \in Nat
  /\ NoOne \notin Writers
  /\ NoItem \notin Data
  /\ ~MultipleWriters => \A v, w \in Writers : v = w

VARIABLES
  next,                     \* next_ptr of every list entry
  item,                     \* item_data_buffer of every list entry
  queue_item_count,         \* entries in the ring
  queue_cur_grow_count,     \* times the ring has grown
  entry_read_ptr,
  entry_write_ptr,
  wake_pop_waiters_signal,  \* set by a push
  wake_push_waiters_signal, \* set by a pop
  multiple_writer_cs,       \* the pusher that holds the lock, or NoOne
  abort_wait_signal,        \* the caller's signal that aborts its waits
  w_pc, w_waits,            \* per pusher: control point, in CdiQueuePushWait?
  w_val,                    \* the item being pushed
  w_read, w_write, w_new,   \* entry_read_ptr, entry_write_ptr, new_write_ptr
  w_full,                   \* new_write_ptr of CdiQueuePushWaitMultiple
  r_pc, r_waits, r_val,     \* the popper: control point, mode, item copied
  sent, out, got

ring    == <<next, item, queue_item_count, queue_cur_grow_count>>
signals == <<wake_pop_waiters_signal, wake_push_waiters_signal>>
writer  == <<w_pc, w_waits, w_val, w_read, w_write, w_new, w_full>>
reader  == <<r_pc, r_waits, r_val>>
history == <<sent, out, got>>
vars == <<ring, entry_read_ptr, entry_write_ptr, signals, multiple_writer_cs,
          abort_wait_signal, writer, reader, history>>

(* Items between the read and the write pointer, and the most that fit.    *)
Occupancy == Len(sent) - out
Capacity  == ItemCount + GrowCount * MaxGrowCount

Entries == 1 .. queue_item_count

(***************************************************************************)
(* CdiQueueCreate: one entry more than asked for, linked into a circle.    *)
(***************************************************************************)
Init ==
  /\ queue_item_count = ItemCount + 1
  /\ queue_cur_grow_count = 0
  /\ next = [e \in 1 .. ItemCount + 1 |-> IF e = ItemCount + 1 THEN 1 ELSE e + 1]
  /\ item = [e \in 1 .. ItemCount + 1 |-> NoItem]
  /\ entry_write_ptr = 1
  /\ entry_read_ptr = 1
  /\ wake_pop_waiters_signal = FALSE
  /\ wake_push_waiters_signal = FALSE
  /\ multiple_writer_cs = NoOne
  /\ abort_wait_signal = FALSE
  /\ w_pc = [w \in Writers |-> "idle"]
  /\ w_waits = [w \in Writers |-> FALSE]
  /\ w_val = [w \in Writers |-> NoItem]
  /\ w_read = [w \in Writers |-> 1]
  /\ w_write = [w \in Writers |-> 1]
  /\ w_new = [w \in Writers |-> 1]
  /\ w_full = [w \in Writers |-> 1]
  /\ r_pc = "idle" /\ r_waits = FALSE /\ r_val = NoItem
  /\ sent = <<>> /\ out = 0 /\ got = NoItem

(***************************************************************************)
(* CdiOsSignalsWait as the queue calls it: the queue's own signal is       *)
(* element 0 of the array, the caller's abort signal follows, the first    *)
(* one found active wins.  CdiOsSignalSet wakes the blocked threads even   *)
(* if the signal is cleared before they run.                               *)
(***************************************************************************)
WakePusher(w) == IF w_pc[w] = "blocked" THEN "wait" ELSE w_pc[w]

(***************************************************************************)
(* CdiQueuePush and CdiQueuePushWaitMultiple.                              *)
(***************************************************************************)
Goto(w, pc) == w_pc' = [w_pc EXCEPT ![w] = pc]

(* The call returns; its parameters and locals are gone.                   *)
Return(w) ==
  /\ Goto(w, "idle")
  /\ w_waits' = [w_waits EXCEPT ![w] = FALSE]
  /\ w_val' = [w_val EXCEPT ![w] = NoItem]
  /\ w_read' = [w_read EXCEPT ![w] = 1]
  /\ w_write' = [w_write EXCEPT ![w] = 1]
  /\ w_new' = [w_new EXCEPT ![w] = 1]
  /\ w_full' = [w_full EXCEPT ![w] = 1]

MayPush(w) == w_pc[w] = "idle" /\ Len(sent) < MaxPushes

PushCall(w) ==
  /\ MayPush(w)
  /\ \E d \in Data : w_val' = [w_val EXCEPT ![w] = d]
  /\ w_waits' = [w_waits EXCEPT ![w] = FALSE]
  /\ Goto(w, "reserve")
  /\ UNCHANGED <<ring, entry_read_ptr, entry_write_ptr, signals, w_read, w_write,
                 w_new, w_full, multiple_writer_cs, abort_wait_signal, reader, history>>

(* CdiQueuePushWait first clears the signal ...                            *)
PushWaitCall(w) ==
  /\ MayPush(w)
  /\ \E d \in Data : w_val' = [w_val EXCEPT ![w] = d]
  /\ w_waits' = [w_waits EXCEPT ![w] = TRUE]
  /\ wake_push_waiters_signal' = FALSE
  /\ Goto(w, "full_entry")
  /\ UNCHANGED <<ring, entry_read_ptr, entry_write_ptr, wake_pop_waiters_signal,
                 w_read, w_write, w_new, w_full, multiple_writer_cs,
                 abort_wait_signal, reader, history>>

(* ... then notes which read pointer value would mean "full".  It holds no *)
(* lock, so another pusher may move the write pointer at any time.         *)
FullEntryIsWriteEntry(w) ==  \* mutant: the write entry instead of the one after it
  /\ w_pc[w] = "full_entry"
  /\ w_full' = [w_full EXCEPT ![w] = entry_write_ptr]
  /\ Goto(w, "reserve")
  /\ UNCHANGED <<ring, entry_read_ptr, entry_write_ptr, signals, w_waits, w_val,
                 w_read, w_write, w_new, multiple_writer_cs, abort_wait_signal,
                 reader, history>>

PushWaitFullEntry(w) ==
  /\ w_pc[w] = "full_entry"
  /\ w_full' = [w_full EXCEPT ![w] = next[entry_write_ptr]]
  /\ Goto(w, "reserve")
  /\ UNCHANGED <<ring, entry_read_ptr, entry_write_ptr, signals, w_waits, w_val,
                 w_read, w_write, w_new, multiple_writer_cs, abort_wait_signal,
                 reader, history>>

PushReserve(w) ==
  /\ w_pc[w] = "reserve"
  /\ IF MultipleWriters
     THEN multiple_writer_cs = NoOne /\ multiple_writer_cs' = w
     ELSE UNCHANGED multiple_writer_cs
  /\ w_read' = [w_read EXCEPT ![w] = entry_read_ptr]
  /\ Goto(w, "check")
  /\ UNCHANGED <<ring, entry_read_ptr, entry_write_ptr, signals, w_waits, w_val,
                 w_write, w_new, w_full, abort_wait_signal, reader, history>>

Release == multiple_writer_cs' = NoOne

(* The ring looks full: what the pusher read as the read pointer may be    *)
(* out of date by now.                                                     *)
LooksFull(w) == next[entry_write_ptr] = w_read[w]

PushHasRoom(w) ==
  /\ w_pc[w] = "check"
  /\ ~LooksFull(w)
  /\ w_write' = [w_write EXCEPT ![w] = entry_write_ptr]
  /\ w_new' = [w_new EXCEPT ![w] = next[entry_write_ptr]]
  /\ Goto(w, "copy")
  /\ UNCHANGED <<ring, entry_read_ptr, entry_write_ptr, signals, w_waits, w_val,
                 w_read, w_full, multiple_writer_cs, abort_wait_signal, reader, history>>

(* QueueIncrease and AddEntriesToBuffers: the new entries go in behind the *)
(* write entry.                                                            *)
GrownToFirstEntry(n) ==  \* mutant: the new entries lead back to the first one
  [e \in 1 .. n + GrowCount |->
     IF e = entry_write_ptr THEN n + 1
     ELSE IF e = n + GrowCount THEN 1
     ELSE IF e > n THEN e + 1
     ELSE next[e]]

Grown(n) ==
  [e \in 1 .. n + GrowCount |->
     IF e = entry_write_ptr THEN n + 1
     ELSE IF e = n + GrowCount THEN next[entry_write_ptr]
     ELSE IF e > n THEN e + 1
     ELSE next[e]]

MayGrow == GrowCount > 0 /\ queue_cur_grow_count < MaxGrowCount

PushGrows(w) ==
  /\ w_pc[w] = "check"
  /\ LooksFull(w)
  /\ MayGrow
  /\ next' = Grown(queue_item_count)
  /\ item' = [e \in 1 .. queue_item_count + GrowCount |->
                IF e > queue_item_count THEN NoItem ELSE item[e]]
  /\ queue_item_count' = queue_item_count + GrowCount
  /\ queue_cur_grow_count' = queue_cur_grow_count + 1
  /\ w_write' = [w_write EXCEPT ![w] = entry_write_ptr]
  /\ w_new' = [w_new EXCEPT ![w] = queue_item_count + 1]
  /\ Goto(w, "copy")
  /\ UNCHANGED <<entry_read_ptr, entry_write_ptr, signals, w_waits, w_val, w_read,
                 w_full, multiple_writer_cs, abort_wait_signal, reader, history>>

PushAnyway(w) ==  \* mutant: QueueIncrease failed and nobody looks at its result
  /\ w_pc[w] = "check"
  /\ LooksFull(w)
  /\ w_write' = [w_write EXCEPT ![w] = entry_write_ptr]
  /\ w_new' = [w_new EXCEPT ![w] = next[entry_write_ptr]]
  /\ Goto(w, "copy")
  /\ UNCHANGED <<ring, entry_read_ptr, entry_write_ptr, signals, w_waits, w_val,
                 w_read, w_full, multiple_writer_cs, abort_wait_signal, reader, history>>

(* Not growable, grown as often as allowed, or CdiOsMemAllocZero failed:   *)
(* CdiQueuePush returns false, CdiQueuePushWait goes on to wait.           *)
PushRefused(w) ==
  /\ w_pc[w] = "check"
  /\ LooksFull(w)
  /\ Release
  /\ IF w_waits[w] THEN /\ Goto(w, "wait")
                        /\ UNCHANGED <<w_waits, w_val, w_read, w_write, w_new, w_full>>
                   ELSE Return(w)
  /\ UNCHANGED <<ring, entry_read_ptr, entry_write_ptr, signals,
                 abort_wait_signal, reader, history>>

CopyToNewWritePtr(w) ==  \* mutant: the item goes into the entry after the write entry
  /\ w_pc[w] = "copy"
  /\ item' = [item EXCEPT ![w_new[w]] = w_val[w]]
  /\ Goto(w, "publish")
  /\ UNCHANGED <<next, queue_item_count, queue_cur_grow_count, entry_read_ptr,
                 entry_write_ptr, signals, w_waits, w_val, w_read, w_write, w_new,
                 w_full, multiple_writer_cs, abort_wait_signal, reader, history>>

PushCopy(w) ==
  /\ w_pc[w] = "copy"
  /\ item' = [item EXCEPT ![w_write[w]] = w_val[w]]
  /\ Goto(w, "publish")
  /\ UNCHANGED <<next, queue_item_count, queue_cur_grow_count, entry_read_ptr,
                 entry_write_ptr, signals, w_waits, w_val, w_read, w_write, w_new,
                 w_full, multiple_writer_cs, abort_wait_signal, reader, history>>

PushPublish(w) ==
  /\ w_pc[w] = "publish"
  /\ entry_write_ptr' = w_new[w]
  /\ sent' = Append(sent, w_val[w])
  /\ Goto(w, "signal")
  /\ UNCHANGED <<ring, entry_read_ptr, signals, w_waits, w_val, w_read, w_write,
                 w_new, w_full, multiple_writer_cs, abort_wait_signal, reader,
                 out, got>>

WakeWithoutSetting(w) ==  \* mutant: a thread about to block misses the wake-up
  /\ w_pc[w] = "signal"
  /\ r_pc' = IF r_pc = "blocked" THEN "wait" ELSE r_pc
  /\ Release
  /\ Return(w)
  /\ UNCHANGED <<ring, entry_read_ptr, entry_write_ptr, signals,
                 abort_wait_signal, r_waits, r_val, history>>

PushSignal(w) ==
  /\ w_pc[w] = "signal"
  /\ wake_pop_waiters_signal' = TRUE
  /\ r_pc' = IF r_pc = "blocked" THEN "wait" ELSE r_pc
  /\ Release
  /\ Return(w)
  /\ UNCHANGED <<ring, entry_read_ptr, entry_write_ptr, wake_push_waiters_signal,
                 abort_wait_signal, r_waits, r_val, history>>

(***************************************************************************)
(* WaitForSignals on behalf of CdiQueuePushWait: loop until the read       *)
(* pointer differs from the "full" value, in which case push again.        *)
(***************************************************************************)
PushWaitCheck(w) ==
  /\ w_pc[w] = "wait"
  /\ Goto(w, IF entry_read_ptr = w_full[w] THEN "signals" ELSE "reserve")
  /\ UNCHANGED <<ring, entry_read_ptr, entry_write_ptr, signals, w_waits, w_val,
                 w_read, w_write, w_new, w_full, multiple_writer_cs,
                 abort_wait_signal, reader, history>>

PushWaitForEdge(w) ==  \* mutant: blocks although the signal is set already
  /\ w_pc[w] = "signals"
  /\ wake_push_waiters_signal \/ ~abort_wait_signal
  /\ Goto(w, "blocked")
  /\ UNCHANGED <<ring, entry_read_ptr, entry_write_ptr, signals, w_waits, w_val,
                 w_read, w_write, w_new, w_full, multiple_writer_cs,
                 abort_wait_signal, reader, history>>

PushWaitSignals(w) ==
  /\ w_pc[w] = "signals"
  /\ wake_push_waiters_signal \/ ~abort_wait_signal
  /\ Goto(w, IF wake_push_waiters_signal THEN "wait" ELSE "blocked")
  /\ UNCHANGED <<ring, entry_read_ptr, entry_write_ptr, signals, w_waits, w_val,
                 w_read, w_write, w_new, w_full, multiple_writer_cs,
                 abort_wait_signal, reader, history>>

(* Aborted, on entry to CdiOsSignalsWait or while blocked, or timed out.   *)
PushWaitEnds(w) ==
  /\ \/ w_pc[w] = "signals" /\ ~wake_push_waiters_signal /\ abort_wait_signal
     \/ w_pc[w] = "blocked" /\ (abort_wait_signal \/ FiniteTimeout)
  /\ Return(w)
  /\ UNCHANGED <<ring, entry_read_ptr, entry_write_ptr, signals, multiple_writer_cs,
                 abort_wait_signal, reader, history>>

(***************************************************************************)
(* CdiQueuePop and CdiQueuePopWaitMultiple.                                *)
(***************************************************************************)
PopReturns == r_pc' = "idle" /\ r_waits' = FALSE /\ r_val' = NoItem

PopCall ==
  /\ r_pc = "idle"
  /\ r_waits' \in BOOLEAN
  /\ r_pc' = "clear"
  /\ UNCHANGED <<ring, entry_read_ptr, entry_write_ptr, signals, multiple_writer_cs,
                 abort_wait_signal, writer, r_val, history>>

PopClear ==
  /\ r_pc = "clear"
  /\ wake_pop_waiters_signal' = FALSE
  /\ r_pc' = "load"
  /\ UNCHANGED <<ring, entry_read_ptr, entry_write_ptr, wake_push_waiters_signal,
                 multiple_writer_cs, abort_wait_signal, writer, r_waits, r_val, history>>

PopLoad ==
  /\ r_pc = "load"
  /\ r_waits \/ entry_read_ptr # entry_write_ptr
  /\ r_pc' = IF entry_read_ptr # entry_write_ptr THEN "copy" ELSE "wait"
  /\ UNCHANGED <<ring, entry_read_ptr, entry_write_ptr, signals, multiple_writer_cs,
                 abort_wait_signal, writer, r_waits, r_val, history>>

(* CdiQueuePop of an empty queue returns false.                            *)
PopEmpty ==
  /\ r_pc = "load"
  /\ ~r_waits /\ entry_read_ptr = entry_write_ptr
  /\ PopReturns
  /\ UNCHANGED <<ring, entry_read_ptr, entry_write_ptr, signals, multiple_writer_cs,
                 abort_wait_signal, writer, history>>

PopCopy ==
  /\ r_pc = "copy"
  /\ r_val' = item[entry_read_ptr]
  /\ r_pc' = "advance"
  /\ UNCHANGED <<ring, entry_read_ptr, entry_write_ptr, signals, multiple_writer_cs,
                 abort_wait_signal, writer, r_waits, history>>

PopAdvancesToWriter ==  \* mutant: skips the items behind the one it took
  /\ r_pc = "advance"
  /\ entry_read_ptr' = entry_write_ptr
  /\ out' = out + 1
  /\ got' = r_val
  /\ r_pc' = "signal"
  /\ UNCHANGED <<ring, entry_write_ptr, signals, multiple_writer_cs,
                 abort_wait_signal, writer, r_waits, r_val, sent>>

PopAdvance ==
  /\ r_pc = "advance"
  /\ entry_read_ptr' = next[entry_read_ptr]
  /\ out' = out + 1
  /\ got' = r_val
  /\ r_pc' = "signal"
  /\ UNCHANGED <<ring, entry_write_ptr, signals, multiple_writer_cs,
                 abort_wait_signal, writer, r_waits, r_val, sent>>

PopWakesWithoutSetting ==  \* mutant: a pusher about to block misses the wake-up
  /\ r_pc = "signal"
  /\ w_pc' = [w \in Writers |-> WakePusher(w)]
  /\ PopReturns
  /\ UNCHANGED <<ring, entry_read_ptr, entry_write_ptr, signals,
                 multiple_writer_cs, abort_wait_signal, w_waits, w_val, w_read,
                 w_write, w_new, w_full, history>>

PopSignal ==
  /\ r_pc = "signal"
  /\ wake_push_waiters_signal' = TRUE
  /\ w_pc' = [w \in Writers |-> WakePusher(w)]
  /\ PopReturns
  /\ UNCHANGED <<ring, entry_read_ptr, entry_write_ptr, wake_pop_waiters_signal,
                 multiple_writer_cs, abort_wait_signal, w_waits, w_val, w_read,
                 w_write, w_new, w_full, history>>

(* WaitForSignals on behalf of CdiQueuePopWait: loop until the write       *)
(* pointer differs from the read pointer, in which case pop again.         *)
PopWaitCheck ==
  /\ r_pc = "wait"
  /\ r_pc' = IF entry_write_ptr = entry_read_ptr THEN "signals" ELSE "clear"
  /\ UNCHANGED <<ring, entry_read_ptr, entry_write_ptr, signals, multiple_writer_cs,
                 abort_wait_signal, writer, r_waits, r_val, history>>

PopWaitForEdge ==  \* mutant: blocks although the signal is set already
  /\ r_pc = "signals"
  /\ wake_pop_waiters_signal \/ ~abort_wait_signal
  /\ r_pc' = "blocked"
  /\ UNCHANGED <<ring, entry_read_ptr, entry_write_ptr, signals, multiple_writer_cs,
                 abort_wait_signal, writer, r_waits, r_val, history>>

PopWaitSignals ==
  /\ r_pc = "signals"
  /\ wake_pop_waiters_signal \/ ~abort_wait_signal
  /\ r_pc' = IF wake_pop_waiters_signal THEN "wait" ELSE "blocked"
  /\ UNCHANGED <<ring, entry_read_ptr, entry_write_ptr, signals, multiple_writer_cs,
                 abort_wait_signal, writer, r_waits, r_val, history>>

PopWaitEnds ==
  /\ \/ r_pc = "signals" /\ ~wake_pop_waiters_signal /\ abort_wait_signal
     \/ r_pc = "blocked" /\ (abort_wait_signal \/ FiniteTimeout)
  /\ PopReturns
  /\ UNCHANGED <<ring, entry_read_ptr, entry_write_ptr, signals, multiple_writer_cs,
                 abort_wait_signal, writer, history>>

(***************************************************************************)
(* CdiQueueFlush, whose caller must keep the other threads out, and the    *)
(* caller's abort signal (a shutdown signal: once set it stays set).       *)
(***************************************************************************)
Flush ==
  /\ r_pc = "idle" /\ \A w \in Writers : w_pc[w] = "idle"
  /\ entry_read_ptr' = entry_write_ptr
  /\ out' = Len(sent)
  /\ UNCHANGED <<ring, entry_write_ptr, signals, multiple_writer_cs,
                 abort_wait_signal, writer, reader, sent, got>>

Abort ==
  /\ ~abort_wait_signal
  /\ abort_wait_signal' = TRUE
  /\ UNCHANGED <<ring, entry_read_ptr, entry_write_ptr, signals, multiple_writer_cs,
                 writer, reader, history>>

Push(w) ==
  \/ PushReserve(w) \/ PushHasRoom(w) \/ PushGrows(w) \/ PushRefused(w)
  \/ PushCopy(w) \/ PushPublish(w) \/ PushSignal(w)

PushWait(w) ==
  \/ PushWaitFullEntry(w) \/ PushWaitCheck(w) \/ PushWaitSignals(w)

Pop == PopClear \/ PopLoad \/ PopEmpty \/ PopCopy \/ PopAdvance \/ PopSignal

PopWait == PopWaitCheck \/ PopWaitSignals

Next ==
  \/ \E w \in Writers : \/ PushCall(w) \/ PushWaitCall(w)
                        \/ Push(w) \/ PushWait(w) \/ PushWaitEnds(w)
  \/ PopCall \/ Pop \/ PopWait \/ PopWaitEnds
  \/ Flush \/ Abort

Spec == Init /\ [][Next]_vars

(* The operating system runs every thread that can run; nobody has to call *)
(* a queue function, set the abort signal or let a timeout expire.         *)
FairSpec ==
  /\ Spec
  /\ \A w \in Writers : WF_vars(Push(w)) /\ WF_vars(PushWait(w))
  /\ WF_vars(Pop) /\ WF_vars(PopWait)
  /\ WF_vars(PopWaitEnds /\ abort_wait_signal)
  /\ \A w \in Writers : WF_vars(PushWaitEnds(w) /\ abort_wait_signal)

-----------------------------------------------------------------------------
RingTypeOK ==
  /\ queue_cur_grow_count \in 0 .. MaxGrowCount
  /\ queue_item_count = ItemCount + 1 + GrowCount * queue_cur_grow_count
  /\ queue_item_count \in Nat \ {0}
  /\ next \in [Entries -> Entries]
  /\ item \in [Entries -> Data \cup {NoItem}]
  /\ entry_read_ptr \in Entries
  /\ entry_write_ptr \in Entries

SignalTypeOK ==
  /\ wake_pop_waiters_signal \in BOOLEAN
  /\ wake_push_waiters_signal \in BOOLEAN
  /\ multiple_writer_cs \in Writers \cup {NoOne}
  /\ abort_wait_signal \in BOOLEAN

PusherTypeOK ==
  /\ w_pc \in [Writers -> {"idle", "full_entry", "reserve", "check", "copy",
                          "publish", "signal", "wait", "signals", "blocked"}]
  /\ w_waits \in [Writers -> BOOLEAN]
  /\ w_val \in [Writers -> Data \cup {NoItem}]
  /\ w_read \in [Writers -> Entries]
  /\ w_write \in [Writers -> Entries]
  /\ w_new \in [Writers -> Entries]
  /\ w_full \in [Writers -> Entries]

PopperTypeOK ==
  /\ r_pc \in {"idle", "clear", "load", "copy", "advance", "signal",
               "wait", "signals", "blocked"}
  /\ r_waits \in BOOLEAN
  /\ r_val \in Data \cup {NoItem}
  /\ sent \in Seq(Data)
  /\ out \in 0 .. Len(sent)
  /\ got \in Data \cup {NoItem}

TypeOK == RingTypeOK /\ SignalTypeOK /\ PusherTypeOK /\ PopperTypeOK

(* No entry is written while the popper copies it out, although neither    *)
(* side takes a lock the other one respects: the comment in CdiQueuePush   *)
(* that the read operation always has valid data.                          *)
NoTornCopy ==
  r_pc = "copy" => \A w \in Writers : w_pc[w] = "copy" => w_write[w] # entry_read_ptr

(* What a pop is about to return is the oldest item pushed and not yet     *)
(* popped, whatever the pushers do to the ring (growth included) meanwhile.*)
PopsInOrder ==
  r_pc = "advance" => Occupancy > 0 /\ r_val = sent[out + 1]

(* No lost wake-up of CdiQueuePopWait: the popper sleeps on a queue that   *)
(* holds an item only while the pusher of that item is on its way to set   *)
(* the signal.                                                             *)
PopperSleepsOnlyWhenEmpty ==
  r_pc = "blocked" /\ Occupancy > 0 => \E w \in Writers : w_pc[w] = "signal"

(* No lost wake-up of CdiQueuePushWait, for a single pushing thread: it    *)
(* sleeps while there is room only if the popper that made the room is on  *)
(* its way to set the signal.                                              *)
PusherSleepsOnlyWhenFull ==
  \A w \in Writers :
    w_pc[w] = "blocked" /\ Occupancy < queue_item_count - 1 => r_pc = "signal"

(* The queue is a bounded first-in first-out queue: every push that        *)
(* publishes, every pop that advances and every flush is one atomic        *)
(* operation of the abstract queue, all other steps are invisible.         *)
Queued == SubSeq(sent, out + 1, Len(sent))
BQ == INSTANCE BoundedQueue WITH q <- Queued
ImplementsBoundedQueue == BQ!Spec

(* A popper that waits while the queue holds an item gets an item or, its  *)
(* wait having been aborted or timed out, returns.                         *)
WaitingPopReturns ==
  (r_waits /\ r_pc # "idle" /\ Occupancy > 0) ~> (r_pc \in {"signal", "idle"})

(* A single pusher that waits while the queue has room gets to push.       *)
WaitingPushReturns ==
  \A w \in Writers :
    (w_pc[w] \in {"wait", "signals", "blocked"} /\ Occupancy < queue_item_count - 1)
      ~> (w_pc[w] \in {"copy", "idle"})

(* What cdi_queue_api.h says of CdiQueuePopWait: the wait on an empty      *)
(* queue ends when the abort signal is set.                                *)
AbortEndsPopWait ==
  (abort_wait_signal /\ r_pc \in {"wait", "signals", "blocked"})
    ~> (r_pc \notin {"wait", "signals", "blocked"})

-----------------------------------------------------------------------------
(***************************************************************************)
(* The inductive invariant.  c lists the ring of n entries from the read   *)
(* entry on: the first Len(s) - o of them hold the items still queued, the *)
(* next one is the write entry.                                            *)
(***************************************************************************)
Cycle(c, n, nx) ==
  /\ \A i, j \in 0 .. n - 1 : c[i] = c[j] => i = j
  /\ \A i \in 0 .. n - 2 : nx[c[i]] = c[i + 1]
  /\ nx[c[n - 1]] = c[0]

Ring(c, n, nx, it, rd, wr, s, o) ==
  /\ Cycle(c, n, nx)
  /\ Len(s) - o \in 0 .. n - 1
  /\ c[0] = rd
  /\ c[Len(s) - o] = wr
  /\ \A i \in 0 .. Len(s) - o - 1 : it[c[i]] = s[o + 1 + i]

RingInv ==
  \E c \in [0 .. queue_item_count - 1 -> Entries] :
    Ring(c, queue_item_count, next, item, entry_read_ptr, entry_write_ptr, sent, out)

(* One pusher at a time is past the reservation of the write entry.        *)
Critical == {"check", "copy", "publish", "signal"}

LockInv ==
  MultipleWriters => \A w \in Writers : w_pc[w] \in Critical => multiple_writer_cs = w

HasRoom == Occupancy < queue_item_count - 1

(* What a pusher has read before is still good enough: the read pointer    *)
(* can only have moved on, the write pointer has not moved.                *)
PusherInvOf(w) ==
  /\ w_pc[w] # "idle" => w_val[w] \in Data
  /\ w_pc[w] = "check" => w_read[w] = entry_read_ptr \/ HasRoom
  /\ w_pc[w] \in {"copy", "publish"} =>
       w_write[w] = entry_write_ptr /\ w_new[w] = next[entry_write_ptr] /\ HasRoom
  /\ w_pc[w] = "publish" => item[w_write[w]] = w_val[w]

PusherInv == \A w \in Writers : PusherInvOf(w)

PopperInv ==
  /\ r_pc = "copy" => Occupancy > 0
  /\ PopsInOrder
  /\ r_pc \in {"signals", "blocked"} /\ Occupancy > 0 =>
       \/ \E w \in Writers : w_pc[w] = "signal"
       \/ r_pc = "signals" /\ wake_pop_waiters_signal

(* With a single pusher, the read pointer value it waits on is the one     *)
(* that makes the ring full.                                               *)
WaitInvOf(w) ==
  /\ w_pc[w] \in {"full_entry", "wait", "signals", "blocked"} => w_waits[w]
  /\ w_waits[w] /\ w_pc[w] \in {"reserve", "check", "wait", "signals", "blocked"}
       => w_full[w] = next[entry_write_ptr]
  /\ w_pc[w] \in {"signals", "blocked"} /\ HasRoom =>
       r_pc = "signal" \/ (w_pc[w] = "signals" /\ wake_push_waiters_signal)

WaitInv == ~MultipleWriters => \A w \in Writers : WaitInvOf(w)

IInv == TypeOK /\ RingInv /\ LockInv /\ PusherInv /\ PopperInv /\ WaitInv
=============================================================================

---------------------------- MODULE BoundedQueue ----------------------------
(***************************************************************************)
(* What the SDK's two thread-to-thread queues (CdiQueue in queue.c and     *)
(* CdiFifo in fifo.c) promise their callers: items come out once each, in  *)
(* the order in which they went in, the queue never holds more than its    *)
(* capacity, and only a flush discards anything.                           *)
(***************************************************************************)
EXTENDS Naturals, Sequences

CONSTANTS Data,      \* the items that can be queued
          NoItem,    \* not an item: nothing has been read yet
          Capacity   \* the most items the queue can hold

VARIABLES q,         \* the items in the queue, oldest first
          got        \* the item most recently handed to a reader

abstractVars == <<q, got>>

Init == q = <<>> /\ got = NoItem

Put == /\ Len(q) < Capacity
       /\ \E d \in Data : q' = Append(q, d)
       /\ UNCHANGED got

Get == /\ q # <<>>
       /\ got' = Head(q)
       /\ q' = Tail(q)

Flush == q' = <<>> /\ UNCHANGED got

Next == Put \/ Get \/ Flush

Spec == Init /\ [][Next]_abstractVars
=============================================================================

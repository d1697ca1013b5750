------------------------------ MODULE CdiPool ------------------------------
(***************************************************************************)
(* The memory pool of src/common/src/pool.c as a value: "free" is the free *)
(* list, a stack, and "in_use" the list of the items handed out, the       *)
(* latest first.  Pools here do not grow (NO_GROW_COUNT).                  *)
(***************************************************************************)
EXTENDS SequencesExt

CdiPoolCreate(items) == [free |-> items, in_use |-> <<>>]

(* CdiPoolGet fails when the free list is empty, and returns its head.     *)
HasItem(pool) == pool.free # <<>>
NextItem(pool) == Head(pool.free)
CdiPoolGet(pool) ==
  [free |-> Tail(pool.free), in_use |-> <<NextItem(pool)>> \o pool.in_use]

(* A list without some items, the others in their order.                   *)
Without(list, items) ==
  LET kept == {i \in DOMAIN list : list[i] \notin items}
      Rank(i) == Cardinality({k \in kept : k <= i})
  IN  [j \in 1 .. Cardinality(kept) |-> list[CHOOSE i \in kept : Rank(i) = j]]

(* CdiPoolPut takes the item from wherever it is in the in-use list.       *)
CdiPoolPut(pool, item) ==
  [free |-> <<item>> \o pool.free, in_use |-> Without(pool.in_use, {item})]

(* The items of a sequence, put back one after the other.                  *)
PutEach(pool, items) ==
  [free |-> Reverse(items) \o pool.free,
   in_use |-> Without(pool.in_use, ToSet(items))]

(* CdiPoolPutAll puts back the head of the in-use list until it is empty.  *)
CdiPoolPutAll(pool) ==
  [free |-> Reverse(pool.in_use) \o pool.free, in_use |-> <<>>]

InUse(pool) == ToSet(pool.in_use)
=============================================================================

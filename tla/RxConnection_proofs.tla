------------------------ MODULE RxConnection_proofs ------------------------
(***************************************************************************)
(* Proofs about the receiving side of a connection, for any payloads, any  *)
(* sizes of the window, the pools and the queues, and every order of       *)
(* arrival: every variable keeps its type, nothing a payload takes is lost *)
(* or given back twice, the window count is exact and below its limit when *)
(* a packet has been dealt with, the reorder lists of a payload are as few *)
(* as its packets allow, and payloads reach the application in the order   *)
(* in which they were sent.                                                *)
(***************************************************************************)
EXTENDS RxConnection, FiniteSetTheorems, WellFoundedInduction, SequenceTheorems, TLAPS

(* A run has a packet at least, and the parts ProcessList takes runs apart to. *)
Run == Seq(Packets) \ {<<>>}
RunLists == Seq(Run)
(* Runs k + 1 to m - 1 replaced with one.                                  *)
Splice(runs, k, m, mid) ==
  SubSeq(runs, 1, k) \o <<mid>> \o SubSeq(runs, m, Len(runs))
(* The run that p becomes part of, and the runs around it.                 *)
RunOf(runs, p) ==
  (IF FitsBelow(runs, p) THEN runs[Passed(runs, p)] ELSE <<>>)
    \o <<p>> \o (IF FitsAbove(runs, p) THEN runs[Passed(runs, p) + 1] ELSE <<>>)
Before(runs, p) == IF FitsBelow(runs, p) THEN Passed(runs, p) - 1 ELSE Passed(runs, p)
After(runs, p) == IF FitsAbove(runs, p) THEN Passed(runs, p) + 2 ELSE Passed(runs, p) + 1
(* The places of an interval when place i is left out.                     *)
Skip(n, i) == [j \in 1 .. n |-> IF j < i THEN j ELSE j + 1]
(* A number for each member of D.                                          *)
Counts(D) == [D -> Nat]
(* g has the n values of f, and one more at place i.                       *)
Inserted(n, i, f, g) ==
  /\ n \in Nat /\ i \in 1 .. n + 1 /\ f \in [1 .. n -> Nat]
  /\ g \in [1 .. n + 1 -> Nat]
  /\ \A j \in 1 .. n : f[j] = IF j < i THEN g[j] ELSE g[j + 1]
(* Q has the lengths of runs spliced with one of length a + 1 + b.         *)
Joined(L, Q, N, n, k, m, a, b) ==
  /\ {N, k, m, a, b} \subseteq Nat /\ n \in 0 .. N /\ L \in [1 .. N -> Nat]
  /\ (k = n /\ a = 0) \/ (n > 0 /\ k = n - 1 /\ a = L[n])
  /\ (m = n + 1 /\ b = 0) \/ (n < N /\ m = n + 2 /\ b = L[n + 1])
  /\ Q \in [1 .. N + k + 2 - m -> Nat]
  /\ \A j \in 1 .. N + k + 2 - m : Q[j] = IF j <= k THEN L[j]
       ELSE IF j = k + 1 THEN a + 1 + b ELSE L[j - k - 2 + m]
(* Packet x is in one of the runs.                                         *)
Has(runs, x) == \E r \in DOMAIN runs : \E j \in DOMAIN runs[r] : runs[r][j] = x

(* The states a payload can be in when the packets of got have arrived.    *)
Sound(got) ==
  {st \in PayloadState :
     /\ st.runs \in RunLists
     /\ \A r \in DOMAIN st.runs : \A j \in DOMAIN st.runs[r] : st.runs[r][j] \in got
     /\ st.owner <=> st.state \notin {"Idle", "Ignore"}
     /\ st.state \in {"Idle", "Ignore"} => st.packet_count = 0
     /\ st.state \in {"Idle", "Ignore", "Error"} => st.runs = <<>> /\ st.held = 0
     /\ st.state = "Complete" => Len(st.runs) <= 1
     /\ st.state \in Pending =>
          /\ st.packet_count = Received(st.runs) /\ st.held = st.packet_count
          /\ OfOnePayload(st.runs) => Maximal(st.runs)}
(* What CdiQueue holds for the application: no buffers without a memory.   *)
Notes == {e \in Notices : ~e.owner => e.held = 0}
(* What a slot of the window, and the whole window, can hold.              *)
SlotStates(got) == Sound(got) \cup {None}
Arrays(got) == [Slots -> SlotStates(got)]
(* b is array a with another state for slot i.                             *)
Changed(a, b, i, new) == b = [a EXCEPT ![i] = new]

(* What the slots, and the queue of the callbacks, have of each resource.   *)
HeldTotal(a) == Total([i \in Slots |-> HeldIn(a[i])])
MemoryTotal(a) == Total([i \in Slots |-> MemoryIn(a[i])])
ListsTotal(a) == Total([i \in Slots |-> ListsIn(a[i])])
CountTotal(a) == Total([i \in Slots |-> CountIn(a[i])])
HeldOf(q) == Total([j \in DOMAIN q |-> q[j].held])
OwnedOf(q) == Total([j \in DOMAIN q |-> IF q[j].owner THEN 1 ELSE 0])

(* The slots a flush that began at slot s has dealt with when it is at i.  *)
Visited(s, i) == IF i >= s THEN s .. i - 1 ELSE Slots \ (i .. s - 1)

(* The inductive invariant: what each variable holds, ...                  *)
Kinds ==
  /\ arrived \subseteq Packets /\ total_packet_count \in Nat
  /\ payload_state_array \in Arrays(arrived)
  /\ complete_queue \in Seq(Notes) /\ Len(complete_queue) <= QueueSize
  /\ held_by_app \in Seq(Nat)
  /\ free_buffer_queue \in Seq(Nat) /\ Len(free_buffer_queue) <= FreeQueueSize
  /\ posted \in Nat /\ free_memory \in Nat /\ free_lists \in Nat /\ lost \in Nat
  /\ rxreorder_current_index \in Slots
  /\ back_pressure \in BOOLEAN /\ starved \in BOOLEAN
  /\ pc \in {"poll", "send", "flush"} /\ flush_idx \in Slots /\ flush_start \in Slots
  /\ sent \in Seq([status : {"Ok", "Error"}, sgl : Seq(Packets)])
(* ... the sums that no step changes, ...                                  *)
Balance ==
  /\ posted + HeldTotal(payload_state_array) + HeldOf(complete_queue)
       + Total(held_by_app) + Total(free_buffer_queue) = PacketBuffers
  /\ free_memory + lost + Len(held_by_app) + Len(free_buffer_queue)
       + MemoryTotal(payload_state_array) + OwnedOf(complete_queue) = MemoryStates
  /\ free_lists + ListsTotal(payload_state_array) = ReorderLists
  /\ rxreorder_buffered_packet_count = CountTotal(payload_state_array)
(* ... and why a flush leaves the window below its limit.                  *)
Flushed ==
  /\ pc = "flush" => \A i \in Visited(flush_start, flush_idx) :
                       CountIn(payload_state_array[i]) = 0
  /\ pc = "poll" => rxreorder_buffered_packet_count < Window
IInv == Kinds /\ Balance /\ Flushed

(* The condition for the order of payloads: there is a slot for every      *)
(* payload under way and for as many complete ones, of one packet, as the  *)
(* window can hold behind it, and the numbers wrap where the slots do.     *)
NumbersFit ==
  /\ InFlight + Window <= LastIndex + 2
  /\ PayloadNumMax < Buffer \/ (PayloadNumMax + 1) % Buffer = 0
(* The slot of payload k, and what becomes of the payload's state and of   *)
(* the state st in its slot when the packets of got have arrived.          *)
SlotFor(k) == (k - 1) % (LastIndex + 1)
Due(k, got) ==
  IF PacketsOf(k) \subseteq got THEN "Complete"
  ELSE IF Packet(k, 0) \in got THEN "InProgress" ELSE "PacketZeroPending"
Follows(st, k, got) ==
  IF \A x \in got : x.payload # k THEN st = None
  ELSE /\ k \in Payloads /\ st # None /\ st.state = Due(k, got)
       /\ \A x : Has(st.runs, x) <=> x \in got /\ x.payload = k
       /\ st.state = "InProgress" => st.expected = Sizes[k]
       /\ st.state = "Complete" => st.runs = <<Whole(k)>>
       /\ st.packet_count \in Nat \ {0}
(* The first n payloads have been sent, and the window is at the next one. *)
Delivered(n) ==
  /\ n <= Len(Sizes)
  /\ \A k \in 1 .. n : /\ PacketsOf(k) \subseteq arrived
                       /\ sent[k] = [status |-> "Ok", sgl |-> Whole(k)]
Awaited(n) ==
  /\ rxreorder_current_index = SlotFor(n + 1)
  /\ \A x \in arrived : x.payload <= n + LastIndex + 1
  /\ \A k \in n + 1 .. n + LastIndex + 1 :
       Follows(payload_state_array[SlotFor(k)], k, arrived)
(* The inductive invariant of the order, until a pool runs out.            *)
Ordered ==
  ~ starved =>
    /\ ~ back_pressure /\ pc # "flush"
    /\ Delivered(Len(sent)) /\ Awaited(Len(sent))
    /\ pc = "poll" /\ Len(sent) < Len(Sizes) => ~ (PacketsOf(Len(sent) + 1) \subseteq arrived)

-----------------------------------------------------------------------------
(***************************************************************************)
(* Sums.                                                                   *)
(***************************************************************************)
(* The sum of finitely many numbers is a number.                           *)
LEMMA UnitsFinite ==
  ASSUME NEW E, IsFiniteSet(E), NEW g \in [E -> Nat]
  PROVE  IsFiniteSet(Units(g)) /\ Total(g) \in Nat
<1> DEFINE part(y) == {y} \X (1 .. g[y])
<1> DEFINE parts == {part(y) : y \in E}
<1> DEFINE h == [y \in E |-> part(y)]
<1>1. IsFiniteSet(parts)
  <2>1. h \in Surjection(E, parts) BY DEF Surjection
  <2> HIDE DEF h, parts
  <2> QED BY <2>1, FS_Surjection
<1>2. \A y \in E : IsFiniteSet(part(y))
  <2> TAKE y \in E
  <2>1. IsFiniteSet({y}) BY FS_Singleton
  <2>2. IsFiniteSet(1 .. g[y]) BY FS_Interval
  <2> QED BY <2>1, <2>2, FS_Product
<1>3. IsFiniteSet(UNION parts) BY <1>1, <1>2, FS_UNION
<1>4. Units(g) = UNION parts BY DEF Units
<1>5. IsFiniteSet(Units(g)) BY <1>3, <1>4
<1> QED BY <1>5, FS_CardinalityType DEF Total

(* A sum is one term and the sum of the others.                            *)
LEMMA TotalSplit ==
  ASSUME NEW D, NEW f \in [D -> Nat], IsFiniteSet(D), NEW x \in D
  PROVE  LET rest == [y \in D \ {x} |-> f[y]]
         IN  Total(rest) \in Nat /\ Total(f) = Total(rest) + f[x]
<1> DEFINE rest == [y \in D \ {x} |-> f[y]]
<1> DEFINE one == {x}
<1> DEFINE upto == 1 .. f[x]
<1> DEFINE own == one \X upto
<1>2. IsFiniteSet(D \ {x}) BY FS_RemoveElement
<1>3. rest \in [D \ {x} -> Nat] OBVIOUS
<1>4. IsFiniteSet(Units(rest)) BY <1>2, <1>3, UnitsFinite
<1>5. IsFiniteSet(own) /\ Cardinality(own) = f[x]
  <2>1. IsFiniteSet(one) /\ Cardinality(one) = 1 BY FS_Singleton
  <2>2. IsFiniteSet(upto) /\ Cardinality(upto) = f[x] BY FS_Interval
  <2> HIDE DEF one, upto
  <2>3. IsFiniteSet(own) /\ Cardinality(own) = 1 * f[x] BY <2>1, <2>2, FS_Product
  <2> QED BY <2>3
<1>6. Units(rest) \cap own = {} BY DEF Units
<1>7. Units(f) = Units(rest) \cup own BY DEF Units
<1>8. Cardinality({}) = 0 BY FS_EmptySet
<1>9. Cardinality(Units(rest)) \in Nat BY <1>4, FS_CardinalityType
<1>10. Cardinality(Units(f)) = Cardinality(Units(rest)) + Cardinality(own) - 0
  <2> HIDE DEF rest, own
  <2> QED BY <1>4, <1>5, <1>6, <1>7, <1>8, FS_Union
<1>11. Cardinality(Units(f)) = Cardinality(Units(rest)) + f[x] BY <1>5, <1>9, <1>10
<1> QED BY <1>9, <1>11 DEF Total

(* No term is more than the sum.                                           *)
LEMMA TotalBound ==
  ASSUME NEW D, IsFiniteSet(D), NEW f \in [D -> Nat], NEW x \in D
  PROVE  f[x] <= Total(f)
<1> DEFINE rest == [y \in D \ {x} |-> f[y]]
<1>1. Total(rest) \in Nat /\ Total(f) = Total(rest) + f[x] BY TotalSplit
<1> HIDE DEF rest
<1> QED BY <1>1

(* When one term changes, the sum changes by as much.                      *)
LEMMA TotalChanged ==
  ASSUME NEW D, IsFiniteSet(D), NEW f \in [D -> Nat], NEW g \in [D -> Nat],
         NEW x \in D, \A y \in D \ {x} : g[y] = f[y]
  PROVE  Total(g) = Total(f) - f[x] + g[x]
<1> DEFINE rest == [y \in D \ {x} |-> f[y]]
<1>1. Total(rest) \in Nat /\ Total(f) = Total(rest) + f[x] BY TotalSplit
<1>2. rest = [y \in D \ {x} |-> g[y]] OBVIOUS
<1>3. Total(g) = Total(rest) + g[x] BY <1>2, TotalSplit
<1> HIDE DEF rest
<1>4. f[x] \in Nat /\ g[x] \in Nat OBVIOUS
<1> QED BY <1>1, <1>3, <1>4

(* The sum of zeros is zero.                                               *)
LEMMA TotalZero ==
  ASSUME NEW D, NEW f \in [D -> Nat], \A x \in D : f[x] = 0
  PROVE  Total(f) = 0
<1>1. \A x \in D : {x} \X (1 .. f[x]) = {} OBVIOUS
<1>2. Units(f) = {} BY <1>1 DEF Units
<1> QED BY <1>2, FS_EmptySet DEF Total

(* The order of the terms does not matter.                                 *)
LEMMA TotalMoved ==
  ASSUME NEW D, NEW E, IsFiniteSet(D), NEW f \in [D -> Nat], NEW g \in [E -> Nat],
         NEW h \in Bijection(D, E), \A x \in D : g[h[x]] = f[x]
  PROVE  Total(g) = Total(f)
<1> DEFINE move == [u \in Units(f) |-> <<h[u[1]], u[2]>>]
<1>1. \A u \in Units(f) : /\ u[1] \in D /\ u[2] \in 1 .. f[u[1]] /\ u = <<u[1], u[2]>>
  BY DEF Units
<1>2. \A x \in D : \A n : n \in 1 .. f[x] => <<x, n>> \in Units(f) BY DEF Units
<1>3. \A y \in E : \A n : n \in 1 .. g[y] => <<y, n>> \in Units(g) BY DEF Units
<1>4. \A v \in Units(g) : /\ v[1] \in E /\ v[2] \in 1 .. g[v[1]] /\ v = <<v[1], v[2]>>
  BY DEF Units
<1>5. /\ h \in [D -> E] /\ \A a, b \in D : h[a] = h[b] => a = b
      /\ \A y \in E : \E x \in D : h[x] = y
  BY DEF Bijection, Injection, Surjection, IsInjective
<1>6. move \in [Units(f) -> Units(g)] BY <1>1, <1>3, <1>5
<1>7. ASSUME NEW u \in Units(f), NEW v \in Units(f), move[u] = move[v] PROVE u = v
  <2>1. h[u[1]] = h[v[1]] /\ u[2] = v[2] BY <1>7
  <2> QED BY <2>1, <1>1, <1>5
<1>8. ASSUME NEW v \in Units(g) PROVE \E u \in Units(f) : move[u] = v
  <2>1. PICK x \in D : h[x] = v[1] BY <1>4, <1>5
  <2>2. v[2] \in 1 .. f[x] BY <2>1, <1>4
  <2>3. <<x, v[2]>> \in Units(f) BY <1>2, <2>2
  <2>4. move[<<x, v[2]>>] = v BY <2>1, <2>3, <1>4
  <2> QED BY <2>3, <2>4
<1>9. move \in Bijection(Units(f), Units(g))
  <2> HIDE DEF move
  <2> QED BY <1>6, <1>7, <1>8 DEF Bijection, Injection, Surjection, IsInjective
<1>10. ExistsBijection(Units(f), Units(g)) BY <1>9 DEF ExistsBijection
<1>11. IsFiniteSet(Units(f)) BY UnitsFinite
<1> QED BY <1>10, <1>11, FS_Bijection DEF Total

(* Leaving out a place keeps all the others, each once.                    *)
LEMMA SkipIsBijection ==
  ASSUME NEW n \in Nat, NEW i \in 1 .. n + 1
  PROVE  Skip(n, i) \in Bijection(1 .. n, (1 .. n + 1) \ {i})
<1> DEFINE D == 1 .. n
<1> DEFINE E == (1 .. n + 1) \ {i}
<1> DEFINE h == Skip(n, i)
<1>1. \A j \in D : h[j] \in E BY DEF Skip
<1>2. \A a, b \in D : h[a] = h[b] => a = b BY DEF Skip
<1>3. \A y \in E : \E x \in D : h[x] = y
  <2> TAKE y \in E
  <2>1. CASE y < i BY <2>1 DEF Skip
  <2>2. CASE y > i
    <3>1. y - 1 \in D /\ h[y - 1] = y BY <2>2 DEF Skip
    <3> QED BY <3>1
  <2> QED BY <2>1, <2>2
<1>4. h \in [D -> E] BY <1>1 DEF Skip
<1> HIDE DEF h, D, E
<1>5. h \in Bijection(D, E)
  BY <1>2, <1>3, <1>4 DEF Bijection, Injection, Surjection, IsInjective
<1> QED BY <1>5 DEF h, D, E

(* The terms but one, moved: the sum has the value of that one more.       *)
LEMMA TotalWithOne ==
  ASSUME NEW D, NEW C, IsFiniteSet(D), IsFiniteSet(C), NEW x \in D,
         NEW g \in Counts(D), NEW f \in Counts(C),
         NEW h \in Bijection(C, D \ {x}), \A y \in C : g[h[y]] = f[y]
  PROVE  Total(g) = Total(f) + g[x]
<1> USE DEF Counts
<1> DEFINE rest == [y \in D \ {x} |-> g[y]]
<1>1. Total(rest) \in Nat /\ Total(g) = Total(rest) + g[x] BY TotalSplit
<1>2. rest \in [D \ {x} -> Nat] OBVIOUS
<1>3. \A y \in C : h[y] \in D \ {x} BY DEF Bijection, Injection
<1>4. \A y \in C : rest[h[y]] = f[y] BY <1>3
<1> HIDE DEF rest
<1>5. Total(rest) = Total(f)
  <2> DEFINE E == D \ {x}
  <2>1. rest \in [E -> Nat] /\ h \in Bijection(C, E) BY <1>2
  <2> HIDE DEF E
  <2>2. f \in [C -> Nat] OBVIOUS
  <2> QED BY ONLY IsFiniteSet(C), <1>4, <2>1, <2>2, TotalMoved
<1> QED BY ONLY <1>1, <1>5

(* A term inserted at place i adds its value to the sum.                   *)
LEMMA TotalInserted ==
  ASSUME NEW n, NEW i, NEW f, NEW g, Inserted(n, i, f, g)
  PROVE  Total(g) = Total(f) + g[i]
<1> DEFINE D == 1 .. n + 1
<1> DEFINE C == 1 .. n
<1> DEFINE h == Skip(n, i)
<1>1. IsFiniteSet(D) /\ IsFiniteSet(C) BY FS_Interval DEF Inserted
<1>2. i \in D /\ g \in Counts(D) /\ f \in Counts(C) BY DEF Counts, Inserted
<1>3. h \in Bijection(C, D \ {i}) BY SkipIsBijection DEF Inserted
<1>4. \A y \in C : g[h[y]] = f[y] BY DEF Skip, Inserted
<1> HIDE DEF D, C, h
<1> QED BY ONLY <1>1, <1>2, <1>3, <1>4, TotalWithOne

(* The greatest of some numbers is one of them and at least each.          *)
LEMMA MaxOfNats ==
  ASSUME NEW n \in Nat, NEW S \in SUBSET (0 .. n), S # {}
  PROVE  Max(S) \in S /\ \A y \in S : Max(S) >= y
<1> DEFINE T == {n - x : x \in S}
<1>1. T \subseteq Nat /\ T # {}
  <2>1. \A x \in S : x \in Int /\ n - x \in Nat OBVIOUS
  <2>2. PICK x \in S : TRUE OBVIOUS
  <2>3. n - x \in T OBVIOUS
  <2> QED BY <2>1, <2>3
<1>2. PICK m \in T : \A y \in T : ~ (<<y, m>> \in OpToRel(<, Nat))
  BY <1>1, NatLessThanWellFounded, WFMin
<1>3. \A y \in T : ~ (y < m) BY <1>1, <1>2 DEF OpToRel
<1>4. PICK x \in S : m = n - x OBVIOUS
<1>5. \A y \in S : x >= y
  <2> TAKE y \in S
  <2>1. n - y \in T OBVIOUS
  <2>2. ~ (n - y < n - x) BY <2>1, <1>3, <1>4
  <2>3. x \in 0 .. n /\ y \in 0 .. n
    BY ONLY x \in S, y \in S, S \in SUBSET (0 .. n)
  <2> HIDE DEF T
  <2> QED BY ONLY <2>2, <2>3, n \in Nat
<1> QED BY <1>4, <1>5 DEF Max

(* What Append adds to the sum of a sequence.                              *)
LEMMA TotalAppended ==
  ASSUME NEW s \in Seq(Nat), NEW v \in Nat
  PROVE  Total(Append(s, v)) = Total(s) + v
<1> DEFINE g == Append(s, v)
<1>1. Len(s) \in Nat /\ s \in [1 .. Len(s) -> Nat] BY LenProperties
<1>2. g \in [1 .. Len(s) + 1 -> Nat] /\ g[Len(s) + 1] = v /\ \A j \in 1 .. Len(s) : g[j] = s[j]
  <2>1. g \in Seq(Nat) /\ Len(g) = Len(s) + 1 BY AppendProperties
  <2> HIDE DEF g
  <2>2. g \in [1 .. Len(s) + 1 -> Nat] BY <2>1, LenProperties
  <2> USE DEF g
  <2> QED BY <2>2, AppendProperties
<1> HIDE DEF g
<1> DEFINE n == Len(s)
<1>3. n \in Nat /\ n + 1 \in 1 .. n + 1 /\ s \in [1 .. n -> Nat] /\ g \in [1 .. n + 1 -> Nat]
  BY <1>1, <1>2
<1>4. \A j \in 1 .. n : s[j] = IF j < n + 1 THEN g[j] ELSE g[j + 1] BY <1>1, <1>2
<1> HIDE DEF n
<1>5. Total(g) = Total(s) + g[n + 1]
  <2>1. Inserted(n, n + 1, s, g) BY <1>3, <1>4 DEF Inserted
  <2> QED BY <2>1, TotalInserted
<1> QED BY <1>2, <1>5 DEF g, n

(* What RemoveAt takes from the sum of a sequence.                         *)
LEMMA TotalRemoved ==
  ASSUME NEW s \in Seq(Nat), NEW i \in 1 .. Len(s)
  PROVE  /\ RemoveAt(s, i) \in Seq(Nat) /\ Len(RemoveAt(s, i)) = Len(s) - 1
         /\ Total(s) = Total(RemoveAt(s, i)) + s[i]
<1> DEFINE r == RemoveAt(s, i)
<1> DEFINE n == Len(s) - 1
<1>1. Len(s) \in Nat /\ s \in [1 .. Len(s) -> Nat] /\ n \in Nat BY LenProperties
<1>2. r \in Seq(Nat) /\ Len(r) = n /\ \A j \in 1 .. n : r[j] = IF j < i THEN s[j] ELSE s[j + 1]
  <2> DEFINE a == SubSeq(s, 1, i - 1)
  <2> DEFINE b == SubSeq(s, i + 1, Len(s))
  <2>1. a \in Seq(Nat) /\ Len(a) = i - 1 /\ \A j \in 1 .. i - 1 : a[j] = s[j]
    <3>1. \A j \in 1 .. i - 1 : s[j] \in Nat BY <1>1
    <3> QED BY <1>1, <3>1, SubSeqProperties
  <2>2. b \in Seq(Nat) /\ Len(b) = Len(s) - i
        /\ \A j \in 1 .. Len(s) - i : b[j] = s[i + j]
    <3>1. \A j \in i + 1 .. Len(s) : s[j] \in Nat BY <1>1
    <3>2. /\ b \in Seq(Nat)
          /\ Len(b) = IF i + 1 <= Len(s) THEN Len(s) - (i + 1) + 1 ELSE 0
          /\ \A j \in 1 .. Len(s) - (i + 1) + 1 : b[j] = s[i + 1 + j - 1]
      BY <1>1, <3>1, SubSeqProperties
    <3> HIDE DEF b
    <3>3. \A j \in 1 .. Len(s) - i : b[j] = s[i + j]
      <4> TAKE j \in 1 .. Len(s) - i
      <4>1. j \in 1 .. Len(s) - (i + 1) + 1 /\ i + 1 + j - 1 = i + j BY <1>1
      <4> QED BY <3>2, <4>1
    <3>4. Len(s) \in Int BY <1>1
    <3>5. b \in Seq(Nat) /\ Len(b) = IF i + 1 <= Len(s) THEN Len(s) - (i + 1) + 1 ELSE 0 BY <3>2
    <3>6. Len(b) = Len(s) - i BY <3>4, <3>5
    <3> QED BY <3>3, <3>5, <3>6
  <2>3. r = a \o b BY DEF RemoveAt
  <2> HIDE DEF a, b, r
  <2>4. /\ r \in Seq(Nat) /\ Len(r) = Len(a) + Len(b)
        /\ \A j \in 1 .. Len(a) + Len(b) : r[j] = IF j <= Len(a) THEN a[j] ELSE b[j - Len(a)]
    BY <2>1, <2>2, <2>3, ConcatProperties
  <2>5. Len(a) + Len(b) = n BY <1>1, <2>1, <2>2
  <2>7. \A j \in 1 .. n : r[j] = IF j <= i - 1 THEN a[j] ELSE b[j - (i - 1)]
    <3>1. Len(a) = i - 1 BY <2>1
    <3> QED BY <2>4, <2>5, <3>1
  <2>8. n \in Nat BY <1>1
  <2> HIDE DEF n
  <2>6. ASSUME NEW j \in 1 .. n PROVE r[j] = IF j < i THEN s[j] ELSE s[j + 1]
    <3>1. CASE j < i
      <4>1. j \in 1 .. i - 1 BY <1>1, <3>1
      <4>2. r[j] = a[j] BY <2>7, <2>8, <4>1
      <4> QED BY <2>1, <3>1, <4>1, <4>2
    <3>2. CASE j >= i
      <4>1. j - (i - 1) \in 1 .. Len(s) - i /\ i + (j - (i - 1)) = j + 1 BY <1>1, <3>2 DEF n
      <4>2. r[j] = b[j - (i - 1)] BY <2>7, <2>8, <3>2
      <4>3. b[j - (i - 1)] = s[j + 1] BY <2>2, <4>1
      <4> QED BY <3>2, <4>2, <4>3
    <3> QED BY <3>1, <3>2, <1>1
  <2> QED BY <2>4, <2>5, <2>6
<1> HIDE DEF r
<1>3. r \in [1 .. n -> Nat] BY <1>2, LenProperties
<1>4. s \in [1 .. n + 1 -> Nat] /\ i \in 1 .. n + 1 BY <1>1
<1> HIDE DEF n
<1>5. Total(s) = Total(r) + s[i]
  <2>1. Inserted(n, i, r, s) BY <1>1, <1>2, <1>3, <1>4 DEF Inserted
  <2> QED BY <2>1, TotalInserted
<1> QED BY <1>2, <1>5 DEF r, n

(* The sum of the empty sequence.                                          *)
LEMMA TotalOfNone == Total(<<>>) = 0
<1>1. Units(<<>>) = {} BY DEF Units
<1> QED BY <1>1, FS_EmptySet DEF Total

(* The runs of a splice, one by one.                                       *)
LEMMA Spliced ==
  ASSUME NEW runs \in RunLists, NEW k \in 0 .. Len(runs),
         NEW m \in 1 .. Len(runs) + 1, NEW mid \in Run
  PROVE  LET q == Splice(runs, k, m, mid)
         IN  /\ q \in RunLists /\ Len(q) = k + 2 + Len(runs) - m
             /\ \A j \in 1 .. Len(q) : q[j] = IF j <= k THEN runs[j]
                                              ELSE IF j = k + 1 THEN mid ELSE runs[j - k - 2 + m]
<1> DEFINE a == SubSeq(runs, 1, k)
<1> DEFINE c == SubSeq(runs, m, Len(runs))
<1> DEFINE b == <<mid>>
<1> DEFINE ab == a \o b
<1> DEFINE q == ab \o c
<1>1. Len(runs) \in Nat /\ runs \in [1 .. Len(runs) -> Run] BY LenProperties DEF RunLists
<1>2. a \in Seq(Run) /\ Len(a) = k /\ \A j \in 1 .. k : a[j] = runs[j]
  <2>1. \A j \in 1 .. k : runs[j] \in Run BY <1>1
  <2>2. /\ a \in Seq(Run) /\ Len(a) = IF 1 <= k THEN k - 1 + 1 ELSE 0
        /\ \A j \in 1 .. k - 1 + 1 : a[j] = runs[1 + j - 1]
    BY <1>1, <2>1, SubSeqProperties
  <2> HIDE DEF a
  <2> QED BY <1>1, <2>2
<1>3. /\ c \in Seq(Run) /\ Len(c) = Len(runs) - m + 1
      /\ \A j \in 1 .. Len(runs) - m + 1 : c[j] = runs[m + j - 1]
  <2>1. \A j \in m .. Len(runs) : runs[j] \in Run BY <1>1
  <2>2. /\ c \in Seq(Run) /\ Len(c) = IF m <= Len(runs) THEN Len(runs) - m + 1 ELSE 0
        /\ \A j \in 1 .. Len(runs) - m + 1 : c[j] = runs[m + j - 1]
    BY <1>1, <2>1, SubSeqProperties
  <2> HIDE DEF c
  <2> QED BY <1>1, <2>2
<1>4. b \in Seq(Run) /\ Len(b) = 1 /\ b[1] = mid OBVIOUS
<1> HIDE DEF a, b, c
<1>5. /\ ab \in Seq(Run) /\ Len(ab) = Len(a) + Len(b)
      /\ \A j \in 1 .. Len(a) + Len(b) : ab[j] = IF j <= Len(a) THEN a[j] ELSE b[j - Len(a)]
  BY <1>2, <1>4, ConcatProperties
<1> HIDE DEF ab
<1>6. /\ q \in Seq(Run) /\ Len(q) = Len(ab) + Len(c)
      /\ \A j \in 1 .. Len(ab) + Len(c) : q[j] = IF j <= Len(ab) THEN ab[j] ELSE c[j - Len(ab)]
  <2>1. ab \in Seq(Run) /\ c \in Seq(Run) BY <1>3, <1>5
  <2> QED BY <2>1, ConcatProperties
<1> HIDE DEF q
<1>7. q \in Seq(Run) /\ Len(q) = k + 2 + Len(runs) - m BY <1>1, <1>2, <1>3, <1>4, <1>5, <1>6
<1>8. ASSUME NEW j \in 1 .. Len(q)
      PROVE  q[j] = IF j <= k THEN runs[j] ELSE IF j = k + 1 THEN mid ELSE runs[j - k - 2 + m]
  <2>1. Len(ab) = k + 1 /\ Len(q) = Len(ab) + Len(c) BY <1>2, <1>4, <1>5, <1>6
  <2>2. CASE j <= k
    <3>1. q[j] = ab[j] BY <1>1, <1>6, <1>7, <2>1, <2>2
    <3>2. ab[j] = a[j]
      <4>1. Len(a) = k /\ Len(b) = 1 /\ k \in Nat BY <1>2, <1>4
      <4>2. j \in 1 .. Len(a) + Len(b) /\ j <= Len(a) BY <1>7, <2>2, <4>1
      <4> QED BY <1>5, <4>2
    <3>3. a[j] = runs[j] BY <1>1, <1>2, <1>7, <2>2
    <3> QED BY <2>2, <3>1, <3>2, <3>3
  <2>3. CASE j = k + 1
    <3>1. q[j] = ab[j] BY <1>1, <1>2, <1>3, <1>6, <2>1, <2>3
    <3>2. ab[j] = b[1] BY <1>2, <1>4, <1>5, <2>3
    <3> QED BY <1>4, <2>3, <3>1, <3>2
  <2>4. CASE j > k + 1
    <3>1. q[j] = c[j - (k + 1)] BY <1>1, <1>3, <1>6, <2>1, <2>4
    <3>2. j - (k + 1) \in 1 .. Len(runs) - m + 1 BY <1>1, <1>3, <2>1, <2>4
    <3>3. c[j - (k + 1)] = runs[m + (j - (k + 1)) - 1] BY <1>3, <3>2
    <3>4. m + (j - (k + 1)) - 1 = j - k - 2 + m BY <1>1
    <3> QED BY <2>4, <3>1, <3>3, <3>4
  <2> QED BY <2>2, <2>3, <2>4, <1>7
<1>9. q = Splice(runs, k, m, mid) BY DEF Splice, q, ab, a, b, c
<1> QED BY <1>7, <1>8, <1>9 DEF RunLists

-----------------------------------------------------------------------------
(***************************************************************************)
(* The reorder lists: what placing a packet does to them.                  *)
(***************************************************************************)
(* The parts of a packet.                                                  *)
LEMMA PacketFacts ==
  \A p \in Packets : /\ p.sequence \in Nat /\ p.payload \in Payloads
                     /\ p = Packet(p.payload, p.sequence)
<1> SUFFICES ASSUME NEW k \in Payloads, NEW p \in PacketsOf(k)
             PROVE  /\ p.sequence \in Nat /\ p.payload \in Payloads
                     /\ p = Packet(p.payload, p.sequence)
  BY DEF Packets
<1>1. Sizes[k] \in Nat BY RxAssumption, ElementOfSeq DEF Payloads
<1>2. PICK s \in 0 .. Sizes[k] - 1 : p = Packet(k, s) BY DEF PacketsOf
<1> QED BY <1>1, <1>2 DEF Packet

(* The ends of a run.                                                      *)
LEMMA RunFacts ==
  \A run \in Run : /\ run \in Seq(Packets) /\ Len(run) \in Nat \ {0}
                   /\ run \in [1 .. Len(run) -> Packets]
                   /\ Top(run) = run[1].sequence /\ Top(run) \in Nat
                   /\ Bottom(run) = run[Len(run)].sequence /\ Bottom(run) \in Nat
<1> TAKE run \in Run
<1>1. run \in Seq(Packets) /\ run # <<>> BY DEF Run
<1>2. Len(run) \in Nat \ {0} /\ run \in [1 .. Len(run) -> Packets] BY <1>1, LenProperties, EmptySeq
<1>3. run[1] \in Packets /\ run[Len(run)] \in Packets BY <1>2
<1>4. Head(run) = run[1] BY <1>1, <1>2
<1> QED BY <1>1, <1>2, <1>3, <1>4, PacketFacts DEF Top, Bottom, Last

(* ProcessList stops at the first run that does not end before p.          *)
LEMMA PassedFacts ==
  ASSUME NEW runs \in RunLists, NEW p \in Packets
  PROVE  LET n == Passed(runs, p)
         IN  /\ n \in 0 .. Len(runs)
             /\ \A i \in 1 .. n : p.sequence > Bottom(runs[i])
             /\ n < Len(runs) => p.sequence <= Bottom(runs[n + 1])
<1> DEFINE S == {n \in 0 .. Len(runs) : \A i \in 1 .. n : p.sequence > Bottom(runs[i])}
<1> DEFINE n == Passed(runs, p)
<1>1. Len(runs) \in Nat /\ runs \in [1 .. Len(runs) -> Run] BY LenProperties DEF RunLists
<1>2. 0 \in S BY <1>1
<1>3. Max(S) \in S /\ \A y \in S : Max(S) >= y
  <2>1. S \in SUBSET (0 .. Len(runs)) /\ S # {} BY <1>2
  <2> HIDE DEF S
  <2> QED BY <1>1, <2>1, MaxOfNats
<1>4. n = Max(S) BY DEF Passed
<1> HIDE DEF n
<1>5. n \in 0 .. Len(runs) /\ \A i \in 1 .. n : p.sequence > Bottom(runs[i]) BY <1>3, <1>4
<1>6. ASSUME n < Len(runs), p.sequence > Bottom(runs[n + 1]) PROVE FALSE
  <2>1. n + 1 \in 0 .. Len(runs) /\ n \in Int BY <1>1, <1>5, <1>6
  <2>2. \A i \in 1 .. n + 1 : i \in 1 .. n \/ i = n + 1 BY <2>1
  <2>3. n + 1 \in S BY <1>5, <1>6, <2>1, <2>2
  <2> HIDE DEF S
  <2> QED BY <1>3, <1>4, <2>1, <2>3
<1>7. n < Len(runs) => p.sequence <= Bottom(runs[n + 1])
  <2> SUFFICES ASSUME n < Len(runs) PROVE p.sequence <= Bottom(runs[n + 1]) OBVIOUS
  <2>1. n + 1 \in 1 .. Len(runs) BY <1>1, <1>5
  <2>2. Bottom(runs[n + 1]) \in Nat /\ p.sequence \in Nat BY <1>1, <2>1, RunFacts, PacketFacts
  <2> QED BY <1>6, <2>2
<1> QED BY <1>5, <1>7 DEF n

(* What it means that p fits the run below or above its place.             *)
LEMMA FitsFacts ==
  ASSUME NEW runs \in RunLists, NEW p \in Packets
  PROVE  LET n == Passed(runs, p)
         IN  /\ FitsBelow(runs, p) \in BOOLEAN /\ FitsAbove(runs, p) \in BOOLEAN
             /\ FitsBelow(runs, p) => /\ n \in 1 .. Len(runs) /\ runs[n] \in Run
                                      /\ p.sequence = Bottom(runs[n]) + 1
             /\ FitsAbove(runs, p) => /\ n + 1 \in 1 .. Len(runs) /\ runs[n + 1] \in Run
                                      /\ p.sequence = Top(runs[n + 1]) - 1
             /\ Before(runs, p) \in 0 .. Len(runs) /\ After(runs, p) \in 1 .. Len(runs) + 1
             /\ Before(runs, p) < After(runs, p)
             /\ ListsFor(runs, p) = Before(runs, p) + 2 - After(runs, p)
<1> DEFINE n == Passed(runs, p)
<1>1. Len(runs) \in Nat /\ runs \in [1 .. Len(runs) -> Run] BY LenProperties DEF RunLists
<1>2. n \in 0 .. Len(runs) BY PassedFacts
<1>3. FitsBelow(runs, p) = (n > 0 /\ p.sequence = Bottom(runs[n]) + 1) BY DEF FitsBelow
<1>4. FitsAbove(runs, p) = (n < Len(runs) /\ p.sequence = Top(runs[n + 1]) - 1) BY DEF FitsAbove
<1> HIDE DEF n
<1>5. FitsBelow(runs, p) => n \in 1 .. Len(runs) /\ runs[n] \in Run
  <2>1. FitsBelow(runs, p) => n > 0 BY <1>3
  <2>2. n > 0 => n \in 1 .. Len(runs) BY <1>1, <1>2
  <2>3. n \in 1 .. Len(runs) => runs[n] \in Run BY <1>1
  <2> QED BY <2>1, <2>2, <2>3
<1>6. FitsAbove(runs, p) => n + 1 \in 1 .. Len(runs) /\ runs[n + 1] \in Run
  <2>1. FitsAbove(runs, p) => n < Len(runs) BY <1>4
  <2>2. n < Len(runs) => n + 1 \in 1 .. Len(runs) BY <1>1, <1>2
  <2>3. n + 1 \in 1 .. Len(runs) => runs[n + 1] \in Run BY <1>1
  <2> QED BY <2>1, <2>2, <2>3
<1>7. Before(runs, p) = (IF FitsBelow(runs, p) THEN n - 1 ELSE n) BY DEF Before, n
<1>8. After(runs, p) = (IF FitsAbove(runs, p) THEN n + 2 ELSE n + 1) BY DEF After, n
<1>9. Before(runs, p) \in 0 .. Len(runs) BY <1>1, <1>2, <1>5, <1>7
<1>10. After(runs, p) \in 1 .. Len(runs) + 1 BY <1>1, <1>2, <1>6, <1>8
<1>11. ListsFor(runs, p) = Before(runs, p) + 2 - After(runs, p)
  BY <1>1, <1>2, <1>7, <1>8 DEF ListsFor
<1>12. Before(runs, p) < After(runs, p) BY <1>1, <1>2, <1>7, <1>8
<1> QED BY <1>3, <1>4, <1>5, <1>6, <1>9, <1>10, <1>11, <1>12 DEF n

(* The packets of the run that p becomes part of.                          *)
LEMMA RunOfFacts ==
  ASSUME NEW runs \in RunLists, NEW p \in Packets
  PROVE  LET n == Passed(runs, p)
             run == RunOf(runs, p)
             a == IF FitsBelow(runs, p) THEN Len(runs[n]) ELSE 0
             b == IF FitsAbove(runs, p) THEN Len(runs[n + 1]) ELSE 0
         IN  /\ a \in Nat /\ b \in Nat
             /\ run \in Run /\ Len(run) = a + 1 + b
             /\ \A j \in 1 .. a : FitsBelow(runs, p) /\ run[j] = runs[n][j]
             /\ run[a + 1] = p
             /\ \A j \in 1 .. b : FitsAbove(runs, p) /\ run[a + 1 + j] = runs[n + 1][j]
<1> DEFINE n == Passed(runs, p)
<1> DEFINE fb == FitsBelow(runs, p)
<1> DEFINE fa == FitsAbove(runs, p)
<1> DEFINE x == IF fb THEN runs[n] ELSE <<>>
<1> DEFINE y == IF fa THEN runs[n + 1] ELSE <<>>
<1> DEFINE a == IF fb THEN Len(runs[n]) ELSE 0
<1> DEFINE b == IF fa THEN Len(runs[n + 1]) ELSE 0
<1> DEFINE xp == x \o <<p>>
<1> DEFINE run == xp \o y
<1>1. /\ fb \in BOOLEAN /\ fa \in BOOLEAN
      /\ fb => runs[n] \in Run
      /\ fa => runs[n + 1] \in Run
  BY FitsFacts
<1>2. x \in Seq(Packets) /\ Len(x) = a /\ a \in Nat
  <2>1. CASE fb BY <1>1, <2>1, RunFacts
  <2>2. CASE ~fb BY <2>2
  <2> QED BY <2>1, <2>2
<1>3. y \in Seq(Packets) /\ Len(y) = b /\ b \in Nat
  <2>1. CASE fa BY <1>1, <2>1, RunFacts
  <2>2. CASE ~fa BY <2>2
  <2> QED BY <2>1, <2>2
<1>4. a > 0 => fb /\ x = runs[n] OBVIOUS
<1>5. b > 0 => fa /\ y = runs[n + 1] OBVIOUS
<1>6. run = RunOf(runs, p) BY DEF RunOf
<1> HIDE DEF x, y, a, b, fa, fb, n
<1>7. <<p>> \in Seq(Packets) /\ Len(<<p>>) = 1 /\ <<p>>[1] = p OBVIOUS
<1>8. /\ xp \in Seq(Packets) /\ Len(xp) = a + 1
      /\ \A j \in 1 .. a : xp[j] = x[j]
      /\ xp[a + 1] = p
  <2>1. /\ xp \in Seq(Packets) /\ Len(xp) = Len(x) + Len(<<p>>)
        /\ \A j \in 1 .. Len(x) + Len(<<p>>) :
             xp[j] = IF j <= Len(x) THEN x[j] ELSE <<p>>[j - Len(x)]
    BY <1>2, <1>7, ConcatProperties
  <2> HIDE DEF xp
  <2>2. a + 1 \in 1 .. a + 1 /\ ~ (a + 1 <= a) /\ a + 1 - a = 1 BY <1>2
  <2> QED BY <1>2, <1>7, <2>1, <2>2
<1> HIDE DEF xp
<1>9. /\ run \in Seq(Packets) /\ Len(run) = a + 1 + b
      /\ \A j \in 1 .. a + 1 + b : run[j] = IF j <= a + 1 THEN xp[j] ELSE y[j - (a + 1)]
  <2>1. /\ run \in Seq(Packets) /\ Len(run) = Len(xp) + Len(y)
        /\ \A j \in 1 .. Len(xp) + Len(y) : run[j] = IF j <= Len(xp) THEN xp[j] ELSE y[j - Len(xp)]
    BY <1>3, <1>8, ConcatProperties
  <2> HIDE DEF run
  <2> QED BY <1>3, <1>8, <2>1
<1> HIDE DEF run
<1>10. run # <<>> /\ run \in Run BY <1>2, <1>3, <1>9, EmptySeq DEF Run
<1>11. \A j \in 1 .. a : fb /\ run[j] = runs[n][j]
  <2> TAKE j \in 1 .. a
  <2>1. j \in 1 .. a + 1 + b /\ j <= a + 1 /\ a > 0 BY <1>2, <1>3
  <2> QED BY <1>4, <1>8, <1>9, <2>1
<1>12. run[a + 1] = p
  <2>1. a + 1 \in 1 .. a + 1 + b /\ a + 1 <= a + 1 BY <1>2, <1>3
  <2> QED BY <1>8, <1>9, <2>1
<1>13. \A j \in 1 .. b : fa /\ run[a + 1 + j] = runs[n + 1][j]
  <2> TAKE j \in 1 .. b
  <2>1. a + 1 + j \in 1 .. a + 1 + b /\ ~ (a + 1 + j <= a + 1) /\ b > 0 /\ a + 1 + j - (a + 1) = j
    BY <1>2, <1>3
  <2> DEFINE i == a + 1 + j
  <2>2. i \in 1 .. a + 1 + b /\ ~ (i <= a + 1) /\ i - (a + 1) = j BY <1>2, <1>3
  <2>3. run[i] = y[j]
    <3> HIDE DEF i
    <3> QED BY <1>9, <2>2
  <2> QED BY <1>5, <2>1, <2>3
<1> QED BY <1>2, <1>3, <1>6, <1>9, <1>10, <1>11, <1>12, <1>13 DEF n, a, b, fa, fb

(* The runs after p has been placed, one by one.                           *)
LEMMA PlacedFacts ==
  ASSUME NEW runs \in RunLists, NEW p \in Packets
  PROVE  LET q == Placed(runs, p)
             k == Before(runs, p)
             m == After(runs, p)
         IN  /\ q \in RunLists /\ Len(q) = Len(runs) + ListsFor(runs, p)
             /\ \A j \in 1 .. Len(q) : q[j] = IF j <= k THEN runs[j]
                  ELSE IF j = k + 1 THEN RunOf(runs, p) ELSE runs[j - k - 2 + m]
<1> DEFINE n == Passed(runs, p)
<1> DEFINE k == Before(runs, p)
<1> DEFINE m == After(runs, p)
<1> DEFINE mid == RunOf(runs, p)
<1> DEFINE r == Splice(runs, k, m, mid)
<1>1. mid \in Run BY RunOfFacts
<1>2. /\ k \in 0 .. Len(runs) /\ m \in 1 .. Len(runs) + 1 /\ ListsFor(runs, p) = k + 2 - m
      /\ FitsBelow(runs, p) => runs[n] \in Run
      /\ FitsAbove(runs, p) => runs[n + 1] \in Run
  BY FitsFacts
<1>3. <<>> \notin Run BY DEF Run
<1>4. Placed(runs, p) = r
  <2>1. ((IF FitsBelow(runs, p) THEN runs[n] ELSE <<>>) = <<>>) <=> ~FitsBelow(runs, p)
    BY <1>2, <1>3
  <2>2. ((IF FitsAbove(runs, p) THEN runs[n + 1] ELSE <<>>) = <<>>) <=> ~FitsAbove(runs, p)
    BY <1>2, <1>3
  <2> QED BY <2>1, <2>2 DEF Placed, RunOf, Before, After, Splice
<1> HIDE DEF k, m, mid, n
<1>5. Len(runs) \in Nat BY LenProperties DEF RunLists
<1>6. /\ r \in RunLists /\ Len(r) = k + 2 + Len(runs) - m
      /\ \A j \in 1 .. Len(r) : r[j] = IF j <= k THEN runs[j]
                                       ELSE IF j = k + 1 THEN mid ELSE runs[j - k - 2 + m]
  <2>1. k \in 0 .. Len(runs) /\ m \in 1 .. Len(runs) + 1 BY <1>2
  <2> QED BY <1>1, <2>1, Spliced
<1> HIDE DEF r
<1>7. Len(r) = Len(runs) + ListsFor(runs, p) BY <1>2, <1>5, <1>6
<1> QED BY <1>4, <1>6, <1>7 DEF k, m, mid, RunLists

(* What becomes of the sum of the lengths.                                 *)
LEMMA JoinedTotals ==
  ASSUME NEW N, NEW n, NEW L, NEW Q, NEW k, NEW m, NEW a, NEW b,
         Joined(L, Q, N, n, k, m, a, b)
  PROVE  Total(Q) = Total(L) + 1
<1> SUFFICES ASSUME N \in Nat, n \in 0 .. N, L \in [1 .. N -> Nat],
                    k \in Nat, m \in Nat, a \in Nat, b \in Nat
             PROVE  Total(Q) = Total(L) + 1
  BY DEF Joined
<1> DEFINE D == 1 .. N
<1>0. IsFiniteSet(D) /\ Total(L) \in Nat BY FS_Interval, UnitsFinite
<1>1. CASE k = n /\ a = 0 /\ m = n + 1 /\ b = 0
  <2>1. N + k + 2 - m = N + 1 BY <1>1
  <2>2. Q \in [1 .. N + 1 -> Nat] BY <2>1 DEF Joined
  <2>3. n + 1 \in 1 .. N + 1 /\ Q[n + 1] = 1 BY <1>1, <2>1 DEF Joined
  <2>4. ASSUME NEW j \in 1 .. N PROVE L[j] = IF j < n + 1 THEN Q[j] ELSE Q[j + 1]
    <3>1. CASE j < n + 1
      <4>1. Q[j] = L[j] BY <1>1, <2>1, <3>1 DEF Joined
      <4> QED BY <3>1, <4>1
    <3>2. CASE j >= n + 1
      <4>1. j + 1 \in 1 .. N + 1 /\ ~ (j + 1 <= n) /\ j + 1 # n + 1 /\ j + 1 - n - 2 + (n + 1) = j
        BY <3>2
      <4>2. Q[j + 1] = L[j] BY <1>1, <2>1, <4>1 DEF Joined
      <4> QED BY <3>2, <4>2
    <3> QED BY <3>1, <3>2
  <2>5. Total(Q) = Total(L) + Q[n + 1]
    <3>1. Inserted(N, n + 1, L, Q) BY <2>2, <2>3, <2>4 DEF Inserted
    <3> QED BY <3>1, TotalInserted
  <2> QED BY <2>3, <2>5
<1>2. CASE n > 0 /\ k = n - 1 /\ a = L[n] /\ m = n + 1 /\ b = 0
  <2>1. N + k + 2 - m = N BY <1>2
  <2>2. Q \in [D -> Nat] BY <2>1 DEF Joined
  <2>3. n \in D /\ Q[n] = L[n] + 1 BY <1>2, <2>1 DEF Joined
  <2>4. \A j \in D \ {n} : Q[j] = L[j]
    <3> TAKE j \in D \ {n}
    <3>1. j \in D /\ j # n /\ j - (n - 1) - 2 + (n + 1) = j OBVIOUS
    <3> QED BY <1>2, <2>1, <3>1 DEF Joined
  <2>5. Total(Q) = Total(L) - L[n] + Q[n]
    <3> HIDE DEF D
    <3>1. L \in [D -> Nat] BY DEF D
    <3>2. n \in D BY <2>3
    <3> QED BY ONLY <1>0, <2>2, <2>4, <3>1, <3>2, TotalChanged
  <2>6. L[n] \in Nat BY <2>3
  <2> QED BY <1>0, <2>3, <2>5, <2>6
<1>3. CASE k = n /\ a = 0 /\ n < N /\ m = n + 2 /\ b = L[n + 1]
  <2>1. N + k + 2 - m = N BY <1>3
  <2>2. Q \in [D -> Nat] BY <2>1 DEF Joined
  <2>3. n + 1 \in D /\ Q[n + 1] = L[n + 1] + 1 BY <1>3, <2>1 DEF Joined
  <2>4. \A j \in D \ {n + 1} : Q[j] = L[j]
    <3> TAKE j \in D \ {n + 1}
    <3>1. j \in D /\ j # n + 1 /\ j - n - 2 + (n + 2) = j OBVIOUS
    <3> QED BY <1>3, <2>1, <3>1 DEF Joined
  <2>5. Total(Q) = Total(L) - L[n + 1] + Q[n + 1]
    <3> DEFINE x == n + 1
    <3>1. L \in [D -> Nat] /\ x \in D BY <2>3
    <3>2. \A j \in D \ {x} : Q[j] = L[j] BY <2>4
    <3> HIDE DEF D, x
    <3>3. Total(Q) = Total(L) - L[x] + Q[x]
      BY ONLY <1>0, <2>2, <3>1, <3>2, TotalChanged
    <3> QED BY <3>3 DEF x
  <2>6. L[n + 1] \in Nat BY <2>3
  <2> QED BY <1>0, <2>3, <2>5, <2>6
<1>4. CASE n > 0 /\ k = n - 1 /\ a = L[n] /\ n < N /\ m = n + 2 /\ b = L[n + 1]
  <2> DEFINE M == [L EXCEPT ![n] = a + 1 + b]
  <2> DEFINE N1 == N - 1
  <2>1. N + k + 2 - m = N1 /\ N1 \in Nat /\ N1 + 1 = N BY <1>4
  <2>2. Q \in [1 .. N1 -> Nat] BY <2>1 DEF Joined
  <2>3. n \in D /\ n + 1 \in 1 .. N1 + 1 /\ n # n + 1 BY <1>4
  <2>4. M \in [D -> Nat] /\ M \in [1 .. N1 + 1 -> Nat] /\ \A j \in D \ {n} : M[j] = L[j]
    <3>1. a + 1 + b \in Nat OBVIOUS
    <3>2. M \in [D -> Nat] BY <3>1
    <3>3. D = 1 .. N1 + 1 BY <2>1
    <3>4. \A j \in D \ {n} : M[j] = L[j] OBVIOUS
    <3> QED BY <3>2, <3>3, <3>4
  <2>5. M[n] = a + 1 + b /\ M[n + 1] = b BY <1>4, <2>3
  <2> HIDE DEF M, N1
  <2>6. ASSUME NEW j \in 1 .. N1 PROVE Q[j] = IF j < n + 1 THEN M[j] ELSE M[j + 1]
    <3>0. j \in 1 .. N + k + 2 - m BY <2>1
    <3>1. CASE j < n
      <4>1. j <= k /\ j \in D \ {n} BY <1>4, <2>1, <3>1
      <4>2. Q[j] = L[j] BY <3>0, <4>1 DEF Joined
      <4> QED BY <2>4, <3>1, <4>1, <4>2
    <3>2. CASE j = n BY <1>4, <2>5, <3>0, <3>2 DEF Joined
    <3>3. CASE j > n
      <4>a. j \in Nat /\ n \in Nat /\ k \in Nat /\ m \in Nat /\ N1 \in Nat /\ j <= N1
        BY <2>1
      <4>b. k = n - 1 /\ m = n + 2 BY <1>4
      <4>c. ~ (j <= k) /\ j # k + 1 /\ j - k - 2 + m = j + 1
        BY ONLY <3>3, <4>a, <4>b
      <4>d. j + 1 \in 1 .. N1 + 1 /\ j + 1 # n BY ONLY <3>3, <4>a
      <4>e. D = 1 .. N1 + 1 BY <2>1
      <4>1. ~ (j <= k) /\ j # k + 1 /\ j - k - 2 + m = j + 1 /\ j + 1 \in D \ {n}
        BY ONLY <4>c, <4>d, <4>e
      <4>3. Q[j] = L[j - k - 2 + m] BY <3>0, <4>1 DEF Joined
      <4>2. Q[j] = L[j + 1] BY <4>1, <4>3
      <4> QED BY <2>4, <3>3, <4>1, <4>2
    <3> QED BY <3>1, <3>2, <3>3
  <2>7. Total(M) = Total(Q) + M[n + 1]
    <3>1. Inserted(N1, n + 1, Q, M) BY <2>1, <2>2, <2>3, <2>4, <2>6 DEF Inserted
    <3> QED BY <3>1, TotalInserted
  <2>8. Total(M) = Total(L) - L[n] + M[n]
    <3> HIDE DEF D
    <3>1. L \in [D -> Nat] BY DEF D
    <3>2. n \in D BY <2>3
    <3>3. M \in [D -> Nat] /\ \A j \in D \ {n} : M[j] = L[j] BY <2>4
    <3> QED BY ONLY <1>0, <3>1, <3>2, <3>3, TotalChanged
  <2>9. Total(Q) \in Nat
    <3>1. IsFiniteSet(1 .. N1) BY <2>1, FS_Interval
    <3> QED BY <2>2, <3>1, UnitsFinite
  <2>10. L[n] \in Nat BY <2>3
  <2>11. Total(M) = Total(Q) + b BY <2>5, <2>7
  <2>12. Total(M) = Total(L) - L[n] + (L[n] + 1 + b) BY <1>4, <2>5, <2>8
  <2>13. Total(L) \in Nat BY <1>0
  <2>14. \A t, l, x \in Nat : t + b = l - x + (x + 1 + b) => t = l + 1 OBVIOUS
  <2> QED BY <2>9, <2>10, <2>11, <2>12, <2>13, <2>14
<1> QED BY <1>1, <1>2, <1>3, <1>4 DEF Joined

(* Placing a packet makes the packets of all runs one more.                *)
LEMMA PlacedReceived ==
  ASSUME NEW runs \in RunLists, NEW p \in Packets
  PROVE  Received(Placed(runs, p)) = Received(runs) + 1
<1> DEFINE q == Placed(runs, p)
<1> DEFINE N == Len(runs)
<1> DEFINE n == Passed(runs, p)
<1> DEFINE k == Before(runs, p)
<1> DEFINE m == After(runs, p)
<1> DEFINE a == IF FitsBelow(runs, p) THEN Len(runs[n]) ELSE 0
<1> DEFINE b == IF FitsAbove(runs, p) THEN Len(runs[n + 1]) ELSE 0
<1> DEFINE L == [r \in DOMAIN runs |-> Len(runs[r])]
<1> DEFINE Q == [r \in DOMAIN q |-> Len(q[r])]
<1>1. N \in Nat /\ runs \in [1 .. N -> Run] BY LenProperties DEF RunLists
<1>2. n \in 0 .. N BY PassedFacts
<1>3. /\ FitsBelow(runs, p) \in BOOLEAN /\ FitsAbove(runs, p) \in BOOLEAN
      /\ k \in 0 .. N /\ m \in 1 .. N + 1 /\ ListsFor(runs, p) = k + 2 - m
      /\ FitsBelow(runs, p) => n \in 1 .. N
      /\ FitsAbove(runs, p) => n + 1 \in 1 .. N
  BY FitsFacts
<1>4. a \in Nat /\ b \in Nat /\ Len(RunOf(runs, p)) = a + 1 + b BY RunOfFacts
<1>5. /\ q \in RunLists /\ Len(q) = N + ListsFor(runs, p)
      /\ \A j \in 1 .. Len(q) : q[j] = IF j <= k THEN runs[j]
                  ELSE IF j = k + 1 THEN RunOf(runs, p) ELSE runs[j - k - 2 + m]
  BY PlacedFacts
<1>6. q \in [1 .. Len(q) -> Run] /\ Len(q) \in Nat BY <1>5, LenProperties DEF RunLists
<1>7. L \in [1 .. N -> Nat] /\ \A j \in 1 .. N : L[j] = Len(runs[j])
  BY <1>1, RunFacts
<1>8. (k = n /\ a = 0) \/ (n > 0 /\ k = n - 1 /\ a = L[n])
  <2>1. CASE FitsBelow(runs, p)
    <3>1. n > 0 /\ k = n - 1 /\ a = Len(runs[n]) /\ n \in 1 .. N BY <1>2, <1>3, <2>1 DEF Before
    <3> HIDE DEF L, k, a, n, N
    <3> QED BY <1>7, <3>1
  <2>2. CASE ~FitsBelow(runs, p) BY <2>2 DEF Before
  <2> QED BY <2>1, <2>2
<1>9. (m = n + 1 /\ b = 0) \/ (n < N /\ m = n + 2 /\ b = L[n + 1])
  <2>1. CASE FitsAbove(runs, p)
    <3>1. n < N /\ m = n + 2 /\ b = Len(runs[n + 1]) /\ n + 1 \in 1 .. N
      BY <1>1, <1>2, <1>3, <2>1 DEF After
    <3> HIDE DEF L, m, b, n, N
    <3> QED BY <1>7, <3>1
  <2>2. CASE ~FitsAbove(runs, p) BY <2>2 DEF After
  <2> QED BY <2>1, <2>2
<1>10. Len(q) = N + k + 2 - m BY <1>1, <1>3, <1>5
<1>11. Q \in [1 .. N + k + 2 - m -> Nat] BY <1>6, <1>10, RunFacts
<1>12. ASSUME NEW j \in 1 .. N + k + 2 - m
       PROVE  Q[j] = IF j <= k THEN L[j]
                     ELSE IF j = k + 1 THEN a + 1 + b ELSE L[j - k - 2 + m]
  <2>1. j \in 1 .. Len(q) /\ j \in DOMAIN q /\ Q[j] = Len(q[j]) BY <1>6, <1>10
  <2>2. CASE j <= k
    <3>1. q[j] = runs[j] BY <1>5, <2>1, <2>2
    <3>2. j \in 1 .. N BY <1>1, <1>3, <2>2
    <3> QED BY <1>7, <2>1, <2>2, <3>1, <3>2
  <2>3. CASE j = k + 1
    <3>1. ~ (j <= k) BY <1>3, <2>3
    <3>2. q[j] = RunOf(runs, p) BY <1>5, <2>1, <2>3, <3>1
    <3> QED BY <1>4, <2>1, <2>3, <3>1, <3>2
  <2>4. CASE j > k + 1
    <3>1. ~ (j <= k) /\ j # k + 1 /\ j - k - 2 + m \in 1 .. N BY <1>1, <1>3, <2>4
    <3>2. q[j] = runs[j - k - 2 + m] BY <1>5, <2>1, <3>1
    <3> QED BY <1>7, <2>1, <3>1, <3>2
  <2>5. j \in Int /\ k \in Int BY <1>3
  <2> HIDE DEF L, Q, q, k, m, n, N, a, b
  <2>6. j <= k \/ j = k + 1 \/ j > k + 1 BY <2>5
  <2> QED BY <2>2, <2>3, <2>4, <2>6
<1> HIDE DEF q, k, m, n, N, a, b, L, Q
<1>13. k \in Nat /\ m \in Nat BY <1>1, <1>3
<1>14. Joined(L, Q, N, n, k, m, a, b)
  BY <1>1, <1>2, <1>4, <1>7, <1>8, <1>9, <1>11, <1>12, <1>13 DEF Joined
<1>15. Total(Q) = Total(L) + 1 BY <1>14, JoinedTotals
<1> QED BY <1>15 DEF Received, L, Q, q

(* Placing p adds p, and loses and invents nothing.                        *)
LEMMA PlacedHas ==
  ASSUME NEW runs \in RunLists, NEW p \in Packets
  PROVE  \A x : Has(Placed(runs, p), x) <=> x = p \/ Has(runs, x)
<1> DEFINE q == Placed(runs, p)
<1> DEFINE N == Len(runs)
<1> DEFINE n == Passed(runs, p)
<1> DEFINE k == Before(runs, p)
<1> DEFINE m == After(runs, p)
<1> DEFINE run == RunOf(runs, p)
<1> DEFINE a == IF FitsBelow(runs, p) THEN Len(runs[n]) ELSE 0
<1> DEFINE b == IF FitsAbove(runs, p) THEN Len(runs[n + 1]) ELSE 0
<1>1. N \in Nat /\ runs \in [1 .. N -> Run] BY LenProperties DEF RunLists
<1>2. n \in 0 .. N BY PassedFacts
<1>3. /\ k \in 0 .. N /\ m \in 1 .. N + 1 /\ ListsFor(runs, p) = k + 2 - m
      /\ FitsBelow(runs, p) => n \in 1 .. N
      /\ FitsAbove(runs, p) => n + 1 \in 1 .. N
  BY FitsFacts
<1>4. /\ a \in Nat /\ b \in Nat /\ run \in Run /\ Len(run) = a + 1 + b
      /\ \A j \in 1 .. a : FitsBelow(runs, p) /\ run[j] = runs[n][j]
      /\ run[a + 1] = p
      /\ \A j \in 1 .. b : FitsAbove(runs, p) /\ run[a + 1 + j] = runs[n + 1][j]
  BY RunOfFacts
<1>5. /\ q \in RunLists /\ Len(q) = N + ListsFor(runs, p)
      /\ \A j \in 1 .. Len(q) : q[j] = IF j <= k THEN runs[j]
                  ELSE IF j = k + 1 THEN run ELSE runs[j - k - 2 + m]
  BY PlacedFacts
<1>6. q \in [1 .. Len(q) -> Run] /\ Len(q) = N + k + 2 - m
  BY <1>1, <1>3, <1>5, LenProperties DEF RunLists
<1>7. /\ k = IF FitsBelow(runs, p) THEN n - 1 ELSE n
      /\ m = IF FitsAbove(runs, p) THEN n + 2 ELSE n + 1
  BY DEF Before, After
<1>8. DOMAIN run = 1 .. a + 1 + b BY <1>4, RunFacts
<1>9. /\ FitsBelow(runs, p) => DOMAIN runs[n] = 1 .. a
      /\ FitsAbove(runs, p) => DOMAIN runs[n + 1] = 1 .. b
  BY <1>1, <1>3, RunFacts
<1>10. DOMAIN runs = 1 .. N /\ DOMAIN q = 1 .. Len(q) BY <1>1, <1>6
<1> HIDE DEF q, N, n, k, m, a, b, run
<1>11. ASSUME NEW x, Has(q, x) PROVE x = p \/ Has(runs, x)
  <2>0. PICK r \in 1 .. Len(q) : \E j \in DOMAIN q[r] : q[r][j] = x BY <1>10, <1>11 DEF Has
  <2>1. PICK j \in DOMAIN q[r] : q[r][j] = x BY <2>0
  <2>2. CASE r <= k
    <3>1. q[r] = runs[r] /\ r \in 1 .. N BY <1>1, <1>3, <1>5, <2>2
    <3> QED BY <1>10, <2>1, <3>1 DEF Has
  <2>3. CASE r = k + 1
    <3>0. ~ (r <= k) BY <1>3, <2>3
    <3>1. q[r] = run /\ j \in 1 .. a + 1 + b BY <1>5, <1>8, <2>3, <3>0
    <3>2. CASE j <= a
      <4>1. j \in 1 .. a BY <1>4, <3>1, <3>2
      <4>2. n \in 1 .. N /\ j \in DOMAIN runs[n] /\ runs[n][j] = x
        BY <1>3, <1>4, <1>9, <2>1, <3>1, <4>1
      <4> QED BY <1>10, <4>2 DEF Has
    <3>3. CASE j = a + 1 BY <1>4, <2>1, <3>1, <3>3
    <3>4. CASE j > a + 1
      <4> DEFINE i == j - (a + 1)
      <4>1. i \in 1 .. b /\ a + 1 + i = j BY <1>4, <3>1, <3>4
      <4> HIDE DEF i
      <4>2. n + 1 \in 1 .. N /\ i \in DOMAIN runs[n + 1] /\ runs[n + 1][i] = x
        BY <1>3, <1>4, <1>9, <2>1, <3>1, <4>1
      <4> QED BY <1>10, <4>2 DEF Has
    <3> QED BY <1>4, <3>1, <3>2, <3>3, <3>4
  <2>4. CASE r > k + 1
    <3>1. q[r] = runs[r - k - 2 + m] /\ r - k - 2 + m \in 1 .. N BY <1>1, <1>3, <1>5, <1>6, <2>4
    <3> QED BY <1>10, <2>1, <3>1 DEF Has
  <2> QED BY <1>3, <2>2, <2>3, <2>4
<1>12. Has(q, p)
  <2>1. k + 1 \in 1 .. Len(q) BY <1>1, <1>3, <1>6
  <2>2. q[k + 1] = run BY <1>3, <1>5, <2>1
  <2>3. a + 1 \in DOMAIN run BY <1>4, <1>8
  <2> QED BY <1>4, <1>10, <2>1, <2>2, <2>3 DEF Has
<1>13. ASSUME NEW x, Has(runs, x) PROVE Has(q, x)
  <2>0. PICK r \in 1 .. N : \E j \in DOMAIN runs[r] : runs[r][j] = x BY <1>10, <1>13 DEF Has
  <2>1. PICK j \in DOMAIN runs[r] : runs[r][j] = x BY <2>0
  <2>2. CASE r <= k
    <3>1. r \in 1 .. Len(q) /\ q[r] = runs[r] BY <1>1, <1>2, <1>3, <1>5, <1>6, <1>7, <2>2
    <3> QED BY <1>10, <2>1, <3>1 DEF Has
  <2>3. CASE r >= m
    <3> DEFINE i == r + k + 2 - m
    <3>1. i \in 1 .. Len(q) /\ ~ (i <= k) /\ i # k + 1 /\ i - k - 2 + m = r
      BY <1>1, <1>3, <1>6, <2>3
    <3> HIDE DEF i
    <3>2. q[i] = runs[i - k - 2 + m] BY <1>5, <3>1
    <3> QED BY <1>10, <2>1, <3>1, <3>2 DEF Has
  <2>4. CASE r > k /\ r < m
    <3>0. k + 1 \in 1 .. Len(q) /\ q[k + 1] = run BY <1>1, <1>3, <1>5, <1>6
    <3>1. (r = n /\ FitsBelow(runs, p)) \/ (r = n + 1 /\ FitsAbove(runs, p))
      <4>1. CASE FitsBelow(runs, p) /\ r = n BY <4>1
      <4>2. CASE FitsBelow(runs, p) /\ r # n BY <1>1, <1>2, <1>7, <2>4, <4>2
      <4>3. CASE ~FitsBelow(runs, p) BY <1>1, <1>2, <1>7, <2>4, <4>3
      <4> QED BY <4>1, <4>2, <4>3
    <3>2. CASE r = n /\ FitsBelow(runs, p)
      <4>1. j \in 1 .. a /\ run[j] = x BY <1>4, <1>9, <2>1, <3>2
      <4>2. j \in DOMAIN run BY <1>4, <1>8, <4>1
      <4> QED BY <1>10, <3>0, <4>1, <4>2 DEF Has
    <3>3. CASE r = n + 1 /\ FitsAbove(runs, p)
      <4>1. j \in 1 .. b /\ run[a + 1 + j] = x BY <1>4, <1>9, <2>1, <3>3
      <4>2. a + 1 + j \in DOMAIN run BY <1>4, <1>8, <4>1
      <4> QED BY <1>10, <3>0, <4>1, <4>2 DEF Has
    <3> QED BY <3>1, <3>2, <3>3
  <2> QED BY <1>3, <2>2, <2>3, <2>4
<1> QED BY <1>11, <1>12, <1>13 DEF q

(* All packets of some runs are of one payload.                            *)
LEMMA OneFacts ==
  ASSUME NEW runs
  PROVE  OfOnePayload(runs) <=> \A x, y : Has(runs, x) /\ Has(runs, y) => x.payload = y.payload
<1>1. ASSUME OfOnePayload(runs), NEW x, NEW y, Has(runs, x), Has(runs, y)
      PROVE  x.payload = y.payload
  <2>1. PICK r \in DOMAIN runs : \E j \in DOMAIN runs[r] : runs[r][j] = x BY <1>1 DEF Has
  <2>2. PICK i \in DOMAIN runs[r] : runs[r][i] = x BY <2>1
  <2>3. PICK q \in DOMAIN runs : \E j \in DOMAIN runs[q] : runs[q][j] = y BY <1>1 DEF Has
  <2>4. PICK j \in DOMAIN runs[q] : runs[q][j] = y BY <2>3
  <2>5. runs[r][i].payload = runs[q][j].payload BY <1>1 DEF OfOnePayload
  <2> QED BY <2>2, <2>4, <2>5
<1>2. ASSUME \A x, y : Has(runs, x) /\ Has(runs, y) => x.payload = y.payload
      PROVE  OfOnePayload(runs)
  <2>1. \A r \in DOMAIN runs : \A j \in DOMAIN runs[r] : Has(runs, runs[r][j]) BY DEF Has
  <2> QED BY <1>2, <2>1 DEF OfOnePayload
<1> QED BY <1>1, <1>2

(* Then they were before p was placed, and p is of that payload.           *)
LEMMA PlacedOne ==
  ASSUME NEW runs \in RunLists, NEW p \in Packets, OfOnePayload(Placed(runs, p))
  PROVE  OfOnePayload(runs) /\ \A x : Has(runs, x) => x.payload = p.payload
<1> DEFINE q == Placed(runs, p)
<1>1. \A x : Has(q, x) <=> x = p \/ Has(runs, x) BY PlacedHas
<1>2. \A x, y : Has(q, x) /\ Has(q, y) => x.payload = y.payload BY OneFacts
<1> HIDE DEF q
<1>3. \A x, y : Has(runs, x) /\ Has(runs, y) => x.payload = y.payload BY <1>1, <1>2
<1>4. \A x : Has(runs, x) => x.payload = p.payload BY <1>1, <1>2
<1> QED BY <1>3, <1>4, OneFacts

(* Where p stands among the runs.                                          *)
LEMMA PlaceOf ==
  ASSUME NEW runs \in RunLists, NEW p \in Packets, ~Has(runs, p), Maximal(runs),
         \A x : Has(runs, x) => x.payload = p.payload
  PROVE  LET n == Passed(runs, p)
         IN  /\ n > 0 => p.sequence > Bottom(runs[n])
             /\ n < Len(runs) => p.sequence < Top(runs[n + 1])
<1> DEFINE n == Passed(runs, p)
<1> DEFINE N == Len(runs)
<1>1. N \in Nat /\ runs \in [1 .. N -> Run] BY LenProperties DEF RunLists
<1>2. /\ n \in 0 .. N /\ \A i \in 1 .. n : p.sequence > Bottom(runs[i])
      /\ n < N => p.sequence <= Bottom(runs[n + 1])
  BY PassedFacts
<1> HIDE DEF n, N
<1>3. n > 0 => p.sequence > Bottom(runs[n]) BY <1>1, <1>2
<1>4. ASSUME n < N PROVE p.sequence < Top(runs[n + 1])
  <2> DEFINE run == runs[n + 1]
  <2>1. n + 1 \in 1 .. N /\ run \in Run BY <1>1, <1>2, <1>4
  <2>2. /\ Len(run) \in Nat \ {0} /\ run \in [1 .. Len(run) -> Packets]
        /\ Top(run) \in Nat /\ Bottom(run) = run[Len(run)].sequence
    BY <2>1, RunFacts
  <2>3. \A j \in 1 .. Len(run) : run[j].sequence = Top(run) + j - 1 BY <1>1, <2>1, <2>2 DEF Maximal
  <2>4. \A j \in 1 .. Len(run) : Has(runs, run[j])
    BY <1>1, <2>1, <2>2 DEF Has
  <2>5. p.sequence <= Bottom(run) /\ p.sequence \in Nat BY <1>2, <1>4, PacketFacts
  <2> HIDE DEF run
  <2>6. Bottom(run) = Top(run) + Len(run) - 1 BY <2>2, <2>3
  <2>7. ASSUME p.sequence >= Top(run) PROVE FALSE
    <3> DEFINE j == p.sequence - Top(run) + 1
    <3>1. j \in 1 .. Len(run) /\ Top(run) + j - 1 = p.sequence BY <2>2, <2>5, <2>6, <2>7
    <3> HIDE DEF j
    <3>2. run[j].sequence = p.sequence /\ run[j].payload = p.payload /\ run[j] \in Packets
      BY <2>2, <2>3, <2>4, <3>1
    <3>3. run[j] = p BY <3>2, PacketFacts
    <3> QED BY <2>4, <3>1, <3>3
  <2>8. p.sequence < Top(run) BY <2>2, <2>5, <2>7
  <2> QED BY <2>8 DEF run
<1> QED BY <1>3, <1>4 DEF n, N

(* Placing a new packet leaves maximal runs maximal.                       *)
LEMMA PlacedMaximal ==
  ASSUME NEW runs \in RunLists, NEW p \in Packets, ~Has(runs, p),
         OfOnePayload(runs) => Maximal(runs), OfOnePayload(Placed(runs, p))
  PROVE  Maximal(Placed(runs, p))
<1> DEFINE q == Placed(runs, p)
<1> DEFINE N == Len(runs)
<1> DEFINE n == Passed(runs, p)
<1> DEFINE s == p.sequence
<1> DEFINE k == Before(runs, p)
<1> DEFINE m == After(runs, p)
<1> DEFINE run == RunOf(runs, p)
<1> DEFINE fb == FitsBelow(runs, p)
<1> DEFINE fa == FitsAbove(runs, p)
<1> DEFINE a == IF fb THEN Len(runs[n]) ELSE 0
<1> DEFINE b == IF fa THEN Len(runs[n + 1]) ELSE 0
<1> DEFINE t == IF fb THEN Top(runs[n]) ELSE s
<1>1. N \in Nat /\ runs \in [1 .. N -> Run] BY LenProperties DEF RunLists
<1>2. n \in 0 .. N BY PassedFacts
<1>3. /\ k \in 0 .. N /\ m \in 1 .. N + 1 /\ ListsFor(runs, p) = k + 2 - m
      /\ fb => n \in 1 .. N /\ s = Bottom(runs[n]) + 1
      /\ fa => n + 1 \in 1 .. N /\ s = Top(runs[n + 1]) - 1
  BY FitsFacts
<1>4. /\ a \in Nat /\ b \in Nat /\ run \in Run /\ Len(run) = a + 1 + b
      /\ \A j \in 1 .. a : fb /\ run[j] = runs[n][j]
      /\ run[a + 1] = p
      /\ \A j \in 1 .. b : fa /\ run[a + 1 + j] = runs[n + 1][j]
  BY RunOfFacts
<1>5. /\ q \in RunLists /\ Len(q) = N + ListsFor(runs, p)
      /\ \A j \in 1 .. Len(q) : q[j] = IF j <= k THEN runs[j]
                  ELSE IF j = k + 1 THEN run ELSE runs[j - k - 2 + m]
  BY PlacedFacts
<1>6. q \in [1 .. Len(q) -> Run] /\ Len(q) = N + k + 2 - m
  BY <1>1, <1>3, <1>5, LenProperties DEF RunLists
<1>7. k = (IF fb THEN n - 1 ELSE n) /\ m = IF fa THEN n + 2 ELSE n + 1
  BY DEF Before, After
<1>8. Maximal(runs) /\ \A x : Has(runs, x) => x.payload = p.payload BY PlacedOne
<1>9. /\ n > 0 => s > Bottom(runs[n])
      /\ n < N => s < Top(runs[n + 1])
  BY <1>8, PlaceOf
<1>10. /\ ~fb /\ n > 0 => s # Bottom(runs[n]) + 1
       /\ ~fa /\ n < N => s # Top(runs[n + 1]) - 1
  BY DEF FitsBelow, FitsAbove
<1>11. s \in Nat BY PacketFacts
<1>12. \A r \in 1 .. N : /\ Top(runs[r]) \in Nat /\ Bottom(runs[r]) \in Nat
                         /\ Len(runs[r]) \in Nat \ {0} /\ DOMAIN runs[r] = 1 .. Len(runs[r])
                         /\ Bottom(runs[r]) = runs[r][Len(runs[r])].sequence
  BY <1>1, RunFacts
<1>13. \A r \in 1 .. N : \A j \in 1 .. Len(runs[r]) : runs[r][j].sequence = Top(runs[r]) + j - 1
  BY <1>1, <1>8, <1>12 DEF Maximal
<1>14. \A r \in 1 .. N : Bottom(runs[r]) = Top(runs[r]) + Len(runs[r]) - 1 BY <1>12, <1>13
<1>15. \A r \in 1 .. N - 1 : Top(runs[r + 1]) > Bottom(runs[r]) + 1 BY <1>8 DEF Maximal
<1>16. s = t + a /\ t \in Nat
  <2>1. CASE fb
    <3>1. n \in 1 .. N /\ s = Bottom(runs[n]) + 1 /\ a = Len(runs[n]) /\ t = Top(runs[n])
      BY <1>3, <2>1
    <3> HIDE DEF n, N, s, fb, a, t
    <3>2. /\ Top(runs[n]) \in Nat /\ Len(runs[n]) \in Nat
          /\ Bottom(runs[n]) = Top(runs[n]) + Len(runs[n]) - 1
      BY <1>12, <1>14, <3>1
    <3> QED BY <3>1, <3>2
  <2>2. CASE ~fb BY <1>11, <2>2
  <2> QED BY <2>1, <2>2
<1>17. fb => a = Len(runs[n]) /\ t = Top(runs[n]) OBVIOUS
<1>18. fa => b = Len(runs[n + 1]) OBVIOUS
<1>19. ~fb => t = s /\ a = 0 OBVIOUS
<1>20. ~fa => b = 0 OBVIOUS
<1> HIDE DEF q, N, n, s, k, m, run, fb, fa, a, b, t
<1>21. ASSUME NEW j \in 1 .. a + 1 + b PROVE run[j].sequence = t + j - 1
  <2>1. CASE j <= a
    <3>1. j \in 1 .. a BY <1>4, <2>1
    <3>2. fb /\ run[j] = runs[n][j] /\ n \in 1 .. N BY <1>3, <1>4, <3>1
    <3>3. runs[n][j].sequence = Top(runs[n]) + j - 1 BY <1>13, <1>17, <3>1, <3>2
    <3> QED BY <1>17, <3>2, <3>3
  <2>2. CASE j = a + 1
    <3>1. run[j].sequence = s BY <1>4, <2>2 DEF s
    <3> QED BY <1>4, <1>16, <2>2, <3>1
  <2>3. CASE j > a + 1
    <3> DEFINE i == j - (a + 1)
    <3>1. i \in 1 .. b /\ a + 1 + i = j BY <1>4, <2>3
    <3> HIDE DEF i
    <3>2. fa /\ run[j] = runs[n + 1][i] BY <1>4, <3>1
    <3>3. n + 1 \in 1 .. N /\ s = Top(runs[n + 1]) - 1 /\ Top(runs[n + 1]) \in Nat
      BY <1>3, <1>12, <3>2
    <3>4. runs[n + 1][i].sequence = Top(runs[n + 1]) + i - 1 BY <1>13, <1>18, <3>1, <3>2, <3>3
    <3>5. a \in Nat /\ t \in Nat /\ i \in Int BY <1>4, <1>16, <3>1
    <3> QED BY <1>16, <3>1, <3>2, <3>3, <3>4, <3>5
  <2> QED BY <1>4, <2>1, <2>2, <2>3
<1>22. Top(run) = t /\ Bottom(run) = s + b
  <2>1. Top(run) = run[1].sequence /\ Bottom(run) = run[a + 1 + b].sequence BY <1>4, RunFacts
  <2>2. 1 \in 1 .. a + 1 + b /\ a + 1 + b \in 1 .. a + 1 + b BY <1>4
  <2>3. run[1].sequence = t + 1 - 1 /\ run[a + 1 + b].sequence = t + (a + 1 + b) - 1
    BY <1>21, <2>2
  <2> QED BY <1>4, <1>16, <2>1, <2>3
<1>23. ASSUME NEW r \in 1 .. Len(q), NEW j \in DOMAIN q[r]
       PROVE  q[r][j].sequence = Top(q[r]) + j - 1
  <2>1. CASE r <= k
    <3>1. q[r] = runs[r] /\ r \in 1 .. N BY <1>1, <1>3, <1>5, <2>1
    <3> QED BY <1>12, <1>13, <3>1
  <2>2. CASE r = k + 1
    <3>0. ~ (r <= k) BY <1>3, <2>2
    <3>1. q[r] = run BY <1>5, <2>2, <3>0
    <3>2. DOMAIN run = 1 .. a + 1 + b BY <1>4, RunFacts
    <3> QED BY <1>21, <1>22, <3>1, <3>2
  <2>3. CASE r > k + 1
    <3>1. q[r] = runs[r - k - 2 + m] /\ r - k - 2 + m \in 1 .. N BY <1>1, <1>3, <1>5, <1>6, <2>3
    <3> QED BY <1>12, <1>13, <3>1
  <2> QED BY <1>3, <2>1, <2>2, <2>3
<1>24. ASSUME NEW r \in 1 .. Len(q) - 1
       PROVE  Top(q[r + 1]) > Bottom(q[r]) + 1
  <2>0. r \in 1 .. Len(q) /\ r + 1 \in 1 .. Len(q) /\ k \in Int /\ m \in Int BY <1>1, <1>3, <1>6
  <2>1. CASE r < k
    <3>1. q[r] = runs[r] /\ q[r + 1] = runs[r + 1] /\ r \in 1 .. N - 1
      BY <1>1, <1>3, <1>5, <2>0, <2>1
    <3> QED BY <1>15, <3>1
  <2>2. CASE r = k
    <3>1. q[r] = runs[k] /\ q[r + 1] = run BY <1>5, <2>0, <2>2
    <3>2. CASE fb
      <4>1. k = n - 1 /\ k \in 1 .. N - 1 /\ k + 1 = n BY <1>1, <1>2, <1>7, <2>2, <3>2
      <4>2. Top(runs[n]) > Bottom(runs[k]) + 1 BY <1>15, <4>1
      <4> QED BY <1>17, <1>22, <3>1, <3>2, <4>2
    <3>3. CASE ~fb
      <4>1. k = n /\ n > 0 /\ n \in 1 .. N BY <1>1, <1>2, <1>7, <2>2, <3>3
      <4>2. s > Bottom(runs[n]) + 1 BY <1>9, <1>10, <1>11, <1>12, <3>3, <4>1
      <4> QED BY <1>19, <1>22, <3>1, <3>3, <4>1, <4>2
    <3> QED BY <3>2, <3>3
  <2>3. CASE r = k + 1
    <3>1. ~ (r <= k) /\ ~ (r + 1 <= k) /\ r + 1 # k + 1 /\ (r + 1) - k - 2 + m = m BY <2>0, <2>3
    <3>2. q[r] = run BY <1>5, <2>0, <2>3, <3>1
    <3>3. q[r + 1] = runs[m] BY <1>5, <2>0, <3>1
    <3>4. m <= N BY <1>1, <1>3, <1>6, <2>0, <2>3
    <3>5. CASE fa
      <4>1. m = n + 2 /\ n + 1 \in 1 .. N - 1 /\ n + 1 + 1 = m /\ n + 1 \in 1 .. N
        BY <1>1, <1>2, <1>7, <3>4, <3>5
      <4>2. Top(runs[m]) > Bottom(runs[n + 1]) + 1 BY <1>15, <4>1
      <4>3. s = Top(runs[n + 1]) - 1 /\ b = Len(runs[n + 1]) BY <1>3, <1>18, <3>5
      <4>4. Bottom(runs[n + 1]) = s + b 
        <5>1. /\ Top(runs[n + 1]) \in Nat /\ b \in Nat
              /\ Bottom(runs[n + 1]) = Top(runs[n + 1]) + Len(runs[n + 1]) - 1
          BY <1>4, <1>12, <1>14, <4>1
        <5> QED BY <1>11, <4>3, <5>1
      <4> QED BY <1>22, <3>2, <3>3, <4>2, <4>4
    <3>6. CASE ~fa
      <4>1. m = n + 1 /\ n < N /\ n + 1 \in 1 .. N BY <1>1, <1>2, <1>7, <3>4, <3>6
      <4>2. Top(runs[n + 1]) > s + 1 BY <1>9, <1>10, <1>11, <1>12, <3>6, <4>1
      <4>3. Bottom(run) = s BY <1>11, <1>20, <1>22, <3>6
      <4> QED BY <3>2, <3>3, <4>1, <4>2, <4>3
    <3> QED BY <3>5, <3>6
  <2>4. CASE r > k + 1
    <3> DEFINE i == r - k - 2 + m
    <3>1. i \in 1 .. N - 1 /\ ~ (r <= k) /\ r # k + 1 /\ ~ (r + 1 <= k) /\ r + 1 # k + 1
          /\ r + 1 - k - 2 + m = i + 1
      BY <1>1, <1>3, <1>6, <2>0, <2>4
    <3>2. q[r] = runs[i] BY <1>5, <2>0, <3>1
    <3>3. q[r + 1] = runs[r + 1 - k - 2 + m] BY <1>5, <2>0, <3>1
    <3>4. q[r + 1] = runs[i + 1] BY <3>1, <3>3
    <3> HIDE DEF i
    <3> QED BY <1>15, <3>1, <3>2, <3>4
  <2> QED BY <2>0, <2>1, <2>2, <2>3, <2>4
<1>25. DOMAIN q = 1 .. Len(q) BY <1>6
<1> QED BY <1>23, <1>24, <1>25 DEF Maximal, q

-----------------------------------------------------------------------------
(***************************************************************************)
(* The constants and the payload states.                                   *)
(***************************************************************************)
(* The types of the constants and of what is computed from them.           *)
LEMMA Constants ==
  /\ {InFlight, PacketBuffers, ReorderLists, QueueSize, FreeQueueSize, PayloadNumMax}
       \subseteq Nat \ {0}
  /\ Buffer \in Nat \ {0} /\ Window \in Nat \ {0}
  /\ LastIndex \in Nat /\ LastIndex <= PayloadNumMax /\ LastIndex <= Buffer - 1
  /\ LastIndex \in {PayloadNumMax, Buffer - 1}
  /\ IsFiniteSet(Slots) /\ MemoryStates \in Nat
<1>1. /\ {InFlight, PacketBuffers, ReorderLists, QueueSize, FreeQueueSize, PayloadNumMax}
           \subseteq Nat \ {0}
      /\ Buffer \in Nat \ {0} /\ Window \in Nat \ {0}
  BY RxAssumption
<1> DEFINE S == {PayloadNumMax, Buffer - 1}
<1>2. \E x \in S : \A y \in S : x =< y
  <2>1. PayloadNumMax \in Int /\ Buffer - 1 \in Int BY <1>1
  <2>2. CASE PayloadNumMax =< Buffer - 1 BY <2>1, <2>2
  <2>3. CASE Buffer - 1 =< PayloadNumMax BY <2>1, <2>3
  <2> QED BY <2>1, <2>2, <2>3
<1>3. Min(S) \in S /\ \A y \in S : Min(S) =< y
  <2> HIDE DEF S
  <2> QED BY <1>2 DEF Min
<1>4. LastIndex = Min(S) BY DEF LastIndex
<1>5. /\ LastIndex \in {PayloadNumMax, Buffer - 1}
       /\ LastIndex <= PayloadNumMax /\ LastIndex <= Buffer - 1
  BY <1>3, <1>4
<1>6. LastIndex \in Nat BY <1>1, <1>5
<1>7. IsFiniteSet(Slots) BY <1>6, FS_Interval DEF Slots
<1>8. MemoryStates \in Nat BY <1>1 DEF MemoryStates
<1> QED BY <1>1, <1>5, <1>6, <1>7, <1>8

(* A remainder is below the divisor.                                       *)
LEMMA Modulo ==
  ASSUME NEW x \in Nat, NEW n \in Nat \ {0}
  PROVE  x % n \in 0 .. n - 1 /\ x % n <= x
<1>1. x % n \in 0 .. n - 1 OBVIOUS
<1>2. CASE x < n
  <2>1. x % n = x BY <1>2
  <2> QED BY <1>1, <2>1
<1>3. CASE x >= n BY <1>1, <1>3
<1> QED BY <1>1, <1>2, <1>3

(* Every packet has a slot.                                                *)
LEMMA SlotFacts ==
  ASSUME NEW p \in Packets
  PROVE  SlotOf(p) \in Slots
<1>1. p.payload \in Payloads BY PacketFacts
<1>2. p.payload - 1 \in Nat BY <1>1 DEF Payloads
<1> DEFINE x == (p.payload - 1) % (PayloadNumMax + 1)
<1>3. x \in 0 .. PayloadNumMax
  <2> DEFINE y == p.payload - 1
  <2> DEFINE n == PayloadNumMax + 1
  <2>1. y \in Nat /\ n \in Nat \ {0} /\ n - 1 = PayloadNumMax BY <1>2, Constants
  <2> HIDE DEF y, n
  <2>2. y % n \in 0 .. n - 1 BY <2>1, Modulo
  <2> QED BY <2>1, <2>2 DEF y, n
<1>4. x % Buffer \in 0 .. Buffer - 1 /\ x % Buffer <= x
  <2>1. x \in Nat /\ Buffer \in Nat \ {0} BY <1>3, Constants
  <2> HIDE DEF x
  <2> QED BY <2>1, Modulo
<1>5. SlotOf(p) = x % Buffer BY DEF SlotOf
<1> HIDE DEF x
<1> QED BY <1>3, <1>4, <1>5, Constants DEF Slots

(* The index of the window stays in it.                                    *)
LEMMA IndexFacts ==
  /\ 0 \in Slots
  /\ \A i \in Slots : AdvanceStateArrayIndex(i) \in Slots
BY Constants DEF Slots, AdvanceStateArrayIndex

(* So it does when it is moved to the first slot in use.                   *)
LEMMA SeekFacts ==
  ASSUME NEW a, rxreorder_current_index \in Slots
  PROVE  SeekFirst(a) \in Slots
<1> DEFINE Ahead(d) == (rxreorder_current_index + d) % (LastIndex + 1)
<1> DEFINE used == {d \in 0 .. LastIndex : a[Ahead(d)] # None}
<1>1. SeekFirst(a) = IF used = {} THEN rxreorder_current_index ELSE Ahead(Min(used))
  BY DEF SeekFirst
<1>2. LastIndex \in Nat BY Constants
<1>3. ASSUME used # {} PROVE Ahead(Min(used)) \in Slots
  <2>1. used \subseteq Nat BY <1>2
  <2> HIDE DEF used
  <2>2. PICK x \in used : \A y \in used : ~ (<<y, x>> \in OpToRel(<, Nat))
    BY <1>3, <2>1, NatLessThanWellFounded, WFMin
  <2>3. \A y \in used : x =< y
    <3> TAKE y \in used
    <3>1. x \in Nat /\ y \in Nat BY <2>1
    <3>2. ~ (y < x) BY <2>2, <3>1 DEF OpToRel
    <3> QED BY <3>1, <3>2
  <2>4. Min(used) \in Nat BY <2>1, <2>3 DEF Min
  <2>5. rxreorder_current_index + Min(used) \in Nat BY <2>4, <1>2 DEF Slots
  <2> HIDE DEF Ahead
  <2>6. Ahead(Min(used)) \in 0 .. LastIndex
    <3> DEFINE x1 == rxreorder_current_index + Min(used)
    <3>1. x1 \in Nat /\ LastIndex + 1 \in Nat \ {0} BY <1>2, <2>5
    <3> HIDE DEF x1
    <3>2. x1 % (LastIndex + 1) \in 0 .. (LastIndex + 1) - 1 BY <3>1, Modulo
    <3> QED BY <1>2, <3>2 DEF Ahead, x1
  <2> QED BY <2>6 DEF Slots
<1> HIDE DEF used, Ahead
<1> QED BY <1>1, <1>3

(* An empty slot is told from every payload state.                         *)
LEMMA NoneIsNoState ==
  \A st \in PayloadState : st # None
<1> TAKE st \in PayloadState
<1>1. \A p \in Packets : p \in [payload : Nat, sequence : Nat]
  <2> TAKE p \in Packets
  <2>1. p.sequence \in Nat /\ p.payload \in Payloads /\ p = Packet(p.payload, p.sequence)
    BY PacketFacts
  <2>2. p.payload \in Nat BY <2>1 DEF Payloads
  <2> QED BY <2>1, <2>2 DEF Packet
<1> DEFINE R == [payload : Nat, sequence : Nat]
<1>2. Packets \subseteq R BY <1>1
<1> HIDE DEF R
<1>3. \A s \in Seq(Packets) : s \in Seq(R) BY <1>2, SeqMonotonic
<1>4. Seq(Packets) \subseteq Seq(R) BY <1>3
<1>5. \A s \in Seq(Seq(Packets)) : s \in Seq(Seq(R)) BY <1>4, SeqMonotonic
<1>6. st.runs \in Seq(Seq(R)) BY <1>5 DEF PayloadState
<1>7. st \in [state : States, runs : Seq(Seq(R)),
              expected : Nat, packet_count : Nat, last_total_packet_count : Nat,
              owner : BOOLEAN, held : Nat]
  <2> DEFINE T == Seq(Seq(R))
  <2> HIDE DEF T
  <2>1. st.runs \in T BY <1>6 DEF T
  <2>3. st \in [state : States, runs : T, expected : Nat, packet_count : Nat,
               last_total_packet_count : Nat, owner : BOOLEAN, held : Nat]
    BY <2>1 DEF PayloadState
  <2> QED BY <2>3 DEF T
<1> QED BY <1>7, RxAssumption DEF R

(* The types of the parts of a payload state.                              *)
LEMMA SoundFacts ==
  ASSUME NEW got, NEW st \in Sound(got)
  PROVE  /\ st \in PayloadState /\ st # None
         /\ st.state \in States /\ st.runs \in RunLists /\ st.expected \in Nat
         /\ st.packet_count \in Nat /\ st.last_total_packet_count \in Nat
         /\ st.owner \in BOOLEAN /\ st.held \in Nat /\ Len(st.runs) \in Nat
<1>1. st \in PayloadState /\ st.runs \in RunLists BY DEF Sound
<1>2. Len(st.runs) \in Nat BY <1>1, LenProperties DEF RunLists
<1> QED BY <1>1, <1>2, NoneIsNoState DEF PayloadState

(* No runs at all.                                                         *)
LEMMA EmptyRuns ==
  /\ <<>> \in RunLists /\ Received(<<>>) = 0 /\ Maximal(<<>>) /\ Len(<<>>) = 0
  /\ DOMAIN <<>> = {} /\ \A x : ~ Has(<<>>, x)
<1>1. <<>> \in RunLists /\ Len(<<>>) = 0 /\ DOMAIN <<>> = {} BY DEF RunLists
<1> DEFINE L == [r \in DOMAIN <<>> |-> Len(<<>>[r])]
<1>2. L = <<>> BY <1>1
<1>3. Received(<<>>) = 0 BY <1>2, TotalOfNone DEF Received
<1>4. Maximal(<<>>) BY <1>1 DEF Maximal
<1> QED BY <1>1, <1>3, <1>4 DEF Has

(* Non-empty runs are runs.                                                *)
LEMMA RunsType == \A runs \in RunLists : runs \in Seq(Seq(Packets))
<1>1. Run \subseteq Seq(Packets) BY DEF Run
<1> QED BY <1>1, SeqMonotonic DEF RunLists

(* What all the packets of some runs have in common.                       *)
LEMMA HasFacts ==
  ASSUME NEW runs, NEW got
  PROVE  (\A r \in DOMAIN runs : \A j \in DOMAIN runs[r] : runs[r][j] \in got)
           <=> \A x : Has(runs, x) => x \in got
BY DEF Has

(* A state that is sound stays so when more packets have arrived.          *)
LEMMA SoundGrows ==
  ASSUME NEW got, NEW more, got \subseteq more, NEW st \in Sound(got)
  PROVE  st \in Sound(more)
BY DEF Sound

(* The state of a payload that begins.                                     *)
LEMMA NewIsSound ==
  ASSUME NEW got
  PROVE  NewState \in Sound(got)
<1>1. NewState \in PayloadState BY EmptyRuns, RunsType DEF NewState, PayloadState, States
<1> QED BY <1>1, EmptyRuns DEF Sound, NewState, Pending

(* What a packet finds.                                                    *)
LEMMA Found ==
  ASSUME NEW i \in Slots, payload_state_array \in Arrays(arrived)
  PROVE  LET st == StateGet(i)
             old == payload_state_array[i]
         IN  /\ st \in Sound(arrived)
             /\ HeldIn(st) = HeldIn(old) /\ MemoryIn(st) = MemoryIn(old)
             /\ ListsIn(st) = ListsIn(old) /\ CountIn(st) = CountIn(old)
<1> DEFINE old == payload_state_array[i]
<1> DEFINE st == StateGet(i)
<1> DEFINE N == NewState
<1>1. N \in Sound(arrived) BY NewIsSound
<1>2. N # None /\ old \in Sound(arrived) \cup {None}
  BY <1>1, SoundFacts DEF Arrays, SlotStates
<1>3. /\ N.owner = FALSE /\ N.state = "Idle" /\ N.packet_count = 0 BY DEF NewState
<1>4. st = old \/ (st = N /\ (old = None \/ old.state = "Ignore")) BY DEF StateGet
<1>5. st # None BY <1>2, <1>4 DEF StateGet
<1> HIDE DEF N, old, st
<1>6. CASE st = old BY <1>2, <1>5, <1>6 DEF old, st
<1>7. CASE st = N /\ old = None
  BY <1>1, <1>2, <1>3, <1>7 DEF HeldIn, MemoryIn, ListsIn, CountIn, Owns,
    IsPending, Pending, old, st
<1>8. CASE st = N /\ old # None /\ old.state = "Ignore"
  <2>1. old \in Sound(arrived) /\ old.owner = FALSE /\ old.packet_count = 0
    BY <1>2, <1>8, SoundFacts DEF Sound
  <2> QED BY <1>1, <1>2, <1>3, <1>8, <2>1
        DEF HeldIn, MemoryIn, ListsIn, CountIn, Owns, IsPending, Pending, old, st
<1> QED BY <1>4, <1>6, <1>7, <1>8

(* The state of a packet that is wanted.                                   *)
LEMMA StartedFacts ==
  ASSUME NEW got, NEW st \in Sound(got), st.state \in {"Idle"} \cup Pending, NEW p \in Packets
  PROVE  LET w == Started(st, p)
         IN  /\ w \in Sound(got) /\ w.state \in Pending /\ w.owner = TRUE
             /\ w.runs = st.runs /\ w.held = st.held /\ w.packet_count = st.packet_count
             /\ w.last_total_packet_count = st.last_total_packet_count
<1> DEFINE w == Started(st, p)
<1>1. p.payload \in Payloads BY PacketFacts
<1>2. Sizes[p.payload] \in Nat BY <1>1, RxAssumption, ElementOfSeq DEF Payloads
<1>3. st \in PayloadState BY SoundFacts
<1>4. w \in PayloadState /\ w.state \in Pending /\ w.owner = TRUE
      /\ w.runs = st.runs /\ w.held = st.held /\ w.packet_count = st.packet_count
      /\ w.last_total_packet_count = st.last_total_packet_count
  <2>1. CASE p.sequence = 0 /\ st.state \in {"Idle", "PacketZeroPending"}
    <3>1. w = [st EXCEPT !.state = "InProgress", !.expected = Sizes[p.payload], !.owner = TRUE]
      BY <2>1 DEF Started
    <3> QED BY <1>2, <1>3, <3>1 DEF PayloadState, States, Pending
  <2>2. CASE ~ (p.sequence = 0 /\ st.state \in {"Idle", "PacketZeroPending"})
    <3>1. w = [st EXCEPT !.state = IF @ = "Idle" THEN "PacketZeroPending" ELSE @, !.owner = TRUE]
      BY <2>2 DEF Started
    <3> QED BY <1>3, <3>1 DEF PayloadState, States, Pending
  <2> QED BY <2>1, <2>2
<1> HIDE DEF w
<1>5. st.state = "Idle" => st.runs = <<>> /\ st.held = 0 /\ st.packet_count = 0 BY DEF Sound
<1>6. /\ w.runs \in RunLists
      /\ \A r \in DOMAIN w.runs : \A j \in DOMAIN w.runs[r] : w.runs[r][j] \in got
  BY <1>4 DEF Sound
<1>7. /\ w.packet_count = Received(w.runs) /\ w.held = w.packet_count
      /\ OfOnePayload(w.runs) => Maximal(w.runs)
  <2>1. CASE st.state = "Idle" BY <1>4, <1>5, <2>1, EmptyRuns
  <2>2. CASE st.state \in Pending BY <1>4, <2>2 DEF Sound
  <2> QED BY <2>1, <2>2
<1>8. w \in Sound(got)
  <2>1. w.state \notin {"Idle", "Ignore", "Error", "Complete"} BY <1>4 DEF Pending
  <2> QED BY <1>4, <1>6, <1>7, <2>1 DEF Sound
<1> QED BY <1>4, <1>8 DEF w

(* What a packet becomes part of.                                          *)
LEMMA StoredFacts ==
  ASSUME NEW got, NEW w \in Sound(got), w.state \in Pending, NEW p \in Packets, p \notin got,
         total_packet_count \in Nat
  PROVE  LET s == Stored(w, p)
         IN  /\ s \in Sound(got \cup {p}) /\ s.state = w.state /\ s.owner = TRUE
             /\ s.runs = Placed(w.runs, p) /\ Len(s.runs) = Len(w.runs) + ListsFor(w.runs, p)
             /\ s.held = w.held + 1 /\ s.packet_count = w.packet_count + 1
             /\ ListsFor(w.runs, p) \in Int
<1> DEFINE s == Stored(w, p)
<1> DEFINE q == Placed(w.runs, p)
<1>1. /\ w \in PayloadState /\ w.runs \in RunLists /\ w.packet_count \in Nat /\ w.held \in Nat
      /\ Len(w.runs) \in Nat
  BY SoundFacts
<1>2. /\ w.owner = TRUE /\ w.packet_count = Received(w.runs) /\ w.held = w.packet_count
      /\ OfOnePayload(w.runs) => Maximal(w.runs)
      /\ \A x : Has(w.runs, x) => x \in got
  BY HasFacts DEF Sound, Pending
<1>3. q \in RunLists /\ Len(q) = Len(w.runs) + ListsFor(w.runs, p) BY <1>1, PlacedFacts
<1>4. Received(q) = Received(w.runs) + 1 BY <1>1, PlacedReceived
<1>5. \A x : Has(q, x) => x \in got \cup {p} BY <1>1, <1>2, PlacedHas
<1>6. OfOnePayload(q) => Maximal(q)
  <2>1. ~ Has(w.runs, p) BY <1>2
  <2> QED BY <1>1, <1>2, <2>1, PlacedMaximal
<1>7. ListsFor(w.runs, p) \in Int
  <2>1. ListsFor(w.runs, p) = Before(w.runs, p) + 2 - After(w.runs, p)
        /\ Before(w.runs, p) \in 0 .. Len(w.runs) /\ After(w.runs, p) \in 1 .. Len(w.runs) + 1
    BY <1>1, FitsFacts
  <2> QED BY <1>1, <2>1
<1>8. q \in Seq(Seq(Packets)) BY <1>3, RunsType
<1> HIDE DEF q
<1>9. s = [w EXCEPT !.runs = q, !.held = w.held + 1, !.packet_count = w.packet_count + 1,
                    !.last_total_packet_count = total_packet_count]
  BY DEF Stored, q
<1> DEFINE T == Seq(Seq(Packets))
<1> DEFINE h == w.held + 1
<1> DEFINE c == w.packet_count + 1
<1>10. /\ s \in PayloadState /\ s.state = w.state /\ s.owner = TRUE /\ s.runs = q
       /\ s.held = w.held + 1 /\ s.packet_count = w.packet_count + 1
  <2>1. h \in Nat /\ c \in Nat BY <1>1
  <2>2. q \in T BY <1>8
  <2>3. s = [w EXCEPT !.runs = q, !.held = h, !.packet_count = c,
                     !.last_total_packet_count = total_packet_count]
    BY <1>9
  <2>4. PayloadState = [state : States, runs : T, expected : Nat, packet_count : Nat,
                        last_total_packet_count : Nat, owner : BOOLEAN, held : Nat]
    BY DEF PayloadState
  <2>5. w \in PayloadState /\ w.owner = TRUE BY <1>1, <1>2
  <2> HIDE DEF T, h, c, s
  <2>6. /\ s \in PayloadState /\ s.state = w.state /\ s.owner = TRUE /\ s.runs = q
        /\ s.held = h /\ s.packet_count = c
    BY <2>1, <2>2, <2>3, <2>4, <2>5
  <2> QED BY <2>6 DEF h, c
<1> HIDE DEF s
<1>11. \A r \in DOMAIN s.runs : \A j \in DOMAIN s.runs[r] : s.runs[r][j] \in got \cup {p}
  BY <1>5, <1>10, HasFacts
<1>12. s.state \notin {"Idle", "Ignore", "Error", "Complete"} BY <1>10 DEF Pending
<1>13. s \in Sound(got \cup {p})
  BY <1>2, <1>3, <1>4, <1>6, <1>10, <1>11, <1>12 DEF Sound
<1> QED BY <1>3, <1>7, <1>10, <1>13 DEF s, q

(* A payload that is complete.                                             *)
LEMMA DoneFacts ==
  ASSUME NEW got, NEW st \in Sound(got), st.state \in Pending, Len(st.runs) = 1
  PROVE  LET d == [st EXCEPT !.state = "Complete"]
         IN  /\ d \in Sound(got) /\ d.state = "Complete" /\ d.owner = TRUE
             /\ d.held = st.held /\ d.packet_count = st.packet_count
<1> DEFINE d == [st EXCEPT !.state = "Complete"]
<1>1. st \in PayloadState /\ st.owner = TRUE BY SoundFacts DEF Sound, Pending
<1>2. /\ d \in PayloadState /\ d.state = "Complete" /\ d.owner = TRUE /\ d.runs = st.runs
      /\ d.held = st.held /\ d.packet_count = st.packet_count
  BY <1>1 DEF PayloadState, States
<1> HIDE DEF d
<1>3. st.runs \in RunLists
      /\ \A r \in DOMAIN st.runs : \A j \in DOMAIN st.runs[r] : st.runs[r][j] \in got
  BY DEF Sound
<1>4. /\ Len(d.runs) <= 1
      /\ d.state \notin {"Idle", "Ignore", "Error", "InProgress", "PacketZeroPending"}
  <2>1. Len(st.runs) \in Nat BY SoundFacts
  <2>2. Len(d.runs) = Len(st.runs) BY <1>2
  <2>3. Len(d.runs) <= 1 BY <2>1, <2>2
  <2>4. d.state \notin {"Idle", "Ignore", "Error", "InProgress", "PacketZeroPending"}
    BY <1>2
  <2> QED BY <2>3, <2>4
<1>5. d \in Sound(got) BY <1>2, <1>3, <1>4 DEF Sound, Pending
<1> QED BY <1>2, <1>5 DEF d

(* A payload that is complete, but not as one run.                         *)
LEMMA MismatchedFacts ==
  ASSUME NEW got, NEW w \in Sound(got), w.state \in Pending, NEW p \in Packets
  PROVE  LET d == Mismatched(w, p)
         IN  /\ d \in Sound(got \cup {p}) /\ d.state = "Complete" /\ d.owner = TRUE
             /\ d.held = w.held /\ d.packet_count = w.packet_count
<1> DEFINE d == Mismatched(w, p)
<1> DEFINE q == IF Len(Placed(w.runs, p)) = 1 THEN Placed(w.runs, p) ELSE <<>>
<1>1. w \in PayloadState /\ w.owner = TRUE /\ w.runs \in RunLists BY SoundFacts DEF Sound, Pending
<1>2. \A x : Has(w.runs, x) => x \in got BY HasFacts DEF Sound
<1>3. q \in RunLists /\ Len(q) <= 1
  <2>1. Placed(w.runs, p) \in RunLists BY <1>1, PlacedFacts
  <2>2. CASE Len(Placed(w.runs, p)) = 1
    <3>1. q = Placed(w.runs, p) BY <2>2
    <3>2. Len(q) \in Nat BY <2>1, <3>1 DEF RunLists
    <3> HIDE DEF q
    <3>3. Len(q) = Len(Placed(w.runs, p)) BY <3>1
    <3>4. Len(q) = 1 BY <2>2, <3>3
    <3>5. q \in RunLists BY <2>1, <3>1
    <3>6. Len(q) <= 1 BY <3>4
    <3> QED BY <3>5, <3>6
  <2>3. CASE Len(Placed(w.runs, p)) # 1
    <3>1. q = <<>> BY <2>3
    <3> QED BY <3>1, EmptyRuns
  <2> QED BY <2>2, <2>3
<1>4. \A x : Has(q, x) => x \in got \cup {p} BY <1>1, <1>2, PlacedHas, EmptyRuns
<1>5. q \in Seq(Seq(Packets)) BY <1>3, RunsType
<1> HIDE DEF q
<1>6. d = [w EXCEPT !.state = "Complete", !.runs = q] BY DEF Mismatched, q
<1>7. /\ d \in PayloadState /\ d.state = "Complete" /\ d.owner = TRUE /\ d.runs = q
      /\ d.held = w.held /\ d.packet_count = w.packet_count
  BY <1>1, <1>5, <1>6 DEF PayloadState, States
<1> HIDE DEF d
<1>8. \A r \in DOMAIN d.runs : \A j \in DOMAIN d.runs[r] : d.runs[r][j] \in got \cup {p}
  <2>1. \A r \in DOMAIN q : \A j \in DOMAIN q[r] : q[r][j] \in got \cup {p}
    BY ONLY <1>4, HasFacts
  <2> QED BY ONLY <1>7, <2>1
<1>9. d \in Sound(got \cup {p}) BY <1>3, <1>7, <1>8 DEF Sound, Pending
<1> QED BY <1>7, <1>9 DEF d

(* A payload with an error has the memory state and no more.               *)
LEMMA ErredFacts ==
  ASSUME NEW got, NEW st \in Sound(got), st.state \in Pending
  PROVE  LET e == Erred(st)
         IN  /\ e \in Sound(got) /\ e.state = "Error" /\ e.owner = TRUE /\ e.held = 0
             /\ e.packet_count = st.packet_count /\ e.runs = <<>>
<1> DEFINE e == Erred(st)
<1>1. st \in PayloadState /\ st.owner = TRUE BY SoundFacts DEF Sound, Pending
<1>2. <<>> \in Seq(Seq(Packets)) BY EmptySeq
<1>3. /\ e \in PayloadState /\ e.state = "Error" /\ e.owner = TRUE /\ e.runs = <<>>
      /\ e.held = 0 /\ e.packet_count = st.packet_count
  BY <1>1, <1>2 DEF PayloadState, States, Erred
<1> HIDE DEF e
<1>4. e \in Sound(got) BY <1>3, EmptyRuns DEF Sound, Pending
<1> QED BY <1>3, <1>4 DEF e

(* A slot has nothing of a payload that has been sent.                     *)
LEMMA AfterSendFacts ==
  ASSUME NEW got, NEW st \in Sound(got), st.state \in {"Complete", "Error"}
  PROVE  LET a == AfterSend(st)
         IN  /\ a \in Sound(got) \cup {None}
             /\ HeldIn(a) = 0 /\ MemoryIn(a) = 0 /\ ListsIn(a) = 0 /\ CountIn(a) = 0
<1> DEFINE a == AfterSend(st)
<1>1. CASE st.state = "Complete"
  <2>1. a = None BY <1>1 DEF AfterSend
  <2> QED BY <2>1 DEF HeldIn, MemoryIn, ListsIn, CountIn, Owns, IsPending
<1>2. CASE st.state = "Error"
  <2>1. a = [st EXCEPT !.state = "Ignore", !.packet_count = 0, !.owner = FALSE]
    BY <1>2 DEF AfterSend, Ignored
  <2>2. st \in PayloadState /\ st.runs = <<>> /\ st.held = 0 BY <1>2, SoundFacts DEF Sound
  <2>3. /\ a \in PayloadState /\ a.state = "Ignore" /\ a.runs = <<>> /\ a.held = 0
        /\ a.packet_count = 0 /\ a.owner = FALSE
    BY <2>1, <2>2 DEF PayloadState, States
  <2> HIDE DEF a
  <2>4. a \in Sound(got) BY <2>3, EmptyRuns DEF Sound, Pending
  <2> QED BY <2>3, <2>4 DEF HeldIn, MemoryIn, ListsIn, CountIn, Owns, IsPending, Pending, a
<1> QED BY <1>1, <1>2

-----------------------------------------------------------------------------
(***************************************************************************)
(* The sums over the slots and over the queue of the callbacks.            *)
(***************************************************************************)
(* The sums over the slots when one of them changes.                       *)
LEMMA PartsAreNumbers ==
  ASSUME NEW got, NEW st \in SlotStates(got)
  PROVE  HeldIn(st) \in Nat /\ MemoryIn(st) \in Nat /\ ListsIn(st) \in Nat /\ CountIn(st) \in Nat
<1>1. CASE st = None
  BY <1>1 DEF HeldIn, MemoryIn, ListsIn, CountIn, Owns, IsPending
<1>2. CASE st \in Sound(got)
  <2>1. /\ st # None /\ st.owner \in BOOLEAN /\ st.held \in Nat /\ st.packet_count \in Nat
        /\ Len(st.runs) \in Nat
    BY <1>2, SoundFacts
  <2> QED BY <2>1 DEF HeldIn, MemoryIn, ListsIn, CountIn, Owns, IsPending
<1> QED BY <1>1, <1>2 DEF SlotStates

(* The slots stay sound when more packets have arrived.                    *)
LEMMA ArraysGrow ==
  ASSUME NEW got, NEW more, got \subseteq more, NEW a \in Arrays(got)
  PROVE  a \in Arrays(more)
<1>1. SlotStates(got) \subseteq SlotStates(more) BY SoundGrows DEF SlotStates
<1> QED BY <1>1 DEF Arrays

(* When one slot changes, each sum changes by what the slot had and has.   *)
LEMMA SlotChanged ==
  ASSUME NEW got, NEW more, got \subseteq more, NEW a \in Arrays(got),
         NEW i \in Slots, NEW new, new \in SlotStates(more),
         NEW b, Changed(a, b, i, new)
  PROVE  /\ b \in Arrays(more)
         /\ \A j \in Slots : b[j] = IF j = i THEN new ELSE a[j]
         /\ HeldTotal(b) = HeldTotal(a) - HeldIn(a[i]) + HeldIn(new)
         /\ MemoryTotal(b) = MemoryTotal(a) - MemoryIn(a[i]) + MemoryIn(new)
         /\ ListsTotal(b) = ListsTotal(a) - ListsIn(a[i]) + ListsIn(new)
         /\ CountTotal(b) = CountTotal(a) - CountIn(a[i]) + CountIn(new)
<1>1. IsFiniteSet(Slots) BY Constants
<1>2. a \in Arrays(more)
  BY ArraysGrow
<1>3. /\ b \in Arrays(more)
      /\ \A j \in Slots : b[j] = IF j = i THEN new ELSE a[j]
  BY <1>2 DEF Arrays, Changed
<1>4. b[i] = new /\ \A j \in Slots \ {i} : b[j] = a[j] BY <1>3
<1>5. HeldTotal(b) = HeldTotal(a) - HeldIn(a[i]) + HeldIn(new)
  <2> DEFINE f == [j \in Slots |-> HeldIn(a[j])]
  <2> DEFINE g == [j \in Slots |-> HeldIn(b[j])]
  <2>1. f \in [Slots -> Nat] /\ g \in [Slots -> Nat] BY <1>2, <1>3, PartsAreNumbers DEF Arrays
  <2>2. \A y \in Slots \ {i} : g[y] = f[y] BY <1>4
  <2>3. f[i] = HeldIn(a[i]) /\ g[i] = HeldIn(new) BY <1>4
  <2>4. Total(f) = HeldTotal(a) /\ Total(g) = HeldTotal(b) BY DEF HeldTotal
  <2> HIDE DEF f, g
  <2>5. Total(g) = Total(f) - f[i] + g[i] BY <1>1, <2>1, <2>2, TotalChanged
  <2> QED BY <2>3, <2>4, <2>5
<1>6. MemoryTotal(b) = MemoryTotal(a) - MemoryIn(a[i]) + MemoryIn(new)
  <2> DEFINE f == [j \in Slots |-> MemoryIn(a[j])]
  <2> DEFINE g == [j \in Slots |-> MemoryIn(b[j])]
  <2>1. f \in [Slots -> Nat] /\ g \in [Slots -> Nat] BY <1>2, <1>3, PartsAreNumbers DEF Arrays
  <2>2. \A y \in Slots \ {i} : g[y] = f[y] BY <1>4
  <2>3. f[i] = MemoryIn(a[i]) /\ g[i] = MemoryIn(new) BY <1>4
  <2>4. Total(f) = MemoryTotal(a) /\ Total(g) = MemoryTotal(b) BY DEF MemoryTotal
  <2> HIDE DEF f, g
  <2>5. Total(g) = Total(f) - f[i] + g[i] BY <1>1, <2>1, <2>2, TotalChanged
  <2> QED BY <2>3, <2>4, <2>5
<1>7. ListsTotal(b) = ListsTotal(a) - ListsIn(a[i]) + ListsIn(new)
  <2> DEFINE f == [j \in Slots |-> ListsIn(a[j])]
  <2> DEFINE g == [j \in Slots |-> ListsIn(b[j])]
  <2>1. f \in [Slots -> Nat] /\ g \in [Slots -> Nat] BY <1>2, <1>3, PartsAreNumbers DEF Arrays
  <2>2. \A y \in Slots \ {i} : g[y] = f[y] BY <1>4
  <2>3. f[i] = ListsIn(a[i]) /\ g[i] = ListsIn(new) BY <1>4
  <2>4. Total(f) = ListsTotal(a) /\ Total(g) = ListsTotal(b) BY DEF ListsTotal
  <2> HIDE DEF f, g
  <2>5. Total(g) = Total(f) - f[i] + g[i] BY <1>1, <2>1, <2>2, TotalChanged
  <2> QED BY <2>3, <2>4, <2>5
<1>8. CountTotal(b) = CountTotal(a) - CountIn(a[i]) + CountIn(new)
  <2> DEFINE f == [j \in Slots |-> CountIn(a[j])]
  <2> DEFINE g == [j \in Slots |-> CountIn(b[j])]
  <2>1. f \in [Slots -> Nat] /\ g \in [Slots -> Nat] BY <1>2, <1>3, PartsAreNumbers DEF Arrays
  <2>2. \A y \in Slots \ {i} : g[y] = f[y] BY <1>4
  <2>3. f[i] = CountIn(a[i]) /\ g[i] = CountIn(new) BY <1>4
  <2>4. Total(f) = CountTotal(a) /\ Total(g) = CountTotal(b) BY DEF CountTotal
  <2> HIDE DEF f, g
  <2>5. Total(g) = Total(f) - f[i] + g[i] BY <1>1, <2>1, <2>2, TotalChanged
  <2> QED BY <2>3, <2>4, <2>5
<1> QED BY <1>3, <1>5, <1>6, <1>7, <1>8

(* The sums are numbers, and none of them is less than the part of a slot. *)
LEMMA SumsAreNumbers ==
  ASSUME NEW got, NEW a \in Arrays(got)
  PROVE  /\ HeldTotal(a) \in Nat /\ MemoryTotal(a) \in Nat
         /\ ListsTotal(a) \in Nat /\ CountTotal(a) \in Nat
         /\ \A i \in Slots : /\ HeldIn(a[i]) \in Nat /\ HeldIn(a[i]) <= HeldTotal(a)
                             /\ MemoryIn(a[i]) \in Nat /\ MemoryIn(a[i]) <= MemoryTotal(a)
                             /\ ListsIn(a[i]) \in Nat /\ ListsIn(a[i]) <= ListsTotal(a)
                             /\ CountIn(a[i]) \in Nat /\ CountIn(a[i]) <= CountTotal(a)
<1>1. IsFiniteSet(Slots) BY Constants
<1>2. HeldTotal(a) \in Nat /\ \A i \in Slots : HeldIn(a[i]) \in Nat /\ HeldIn(a[i]) <= HeldTotal(a)
  <2> DEFINE f == [j \in Slots |-> HeldIn(a[j])]
  <2>1. f \in [Slots -> Nat] BY PartsAreNumbers DEF Arrays
  <2>2. \A i \in Slots : f[i] = HeldIn(a[i]) OBVIOUS
  <2>3. Total(f) = HeldTotal(a) BY DEF HeldTotal
  <2> HIDE DEF f
  <2> QED BY <1>1, <2>1, <2>2, <2>3, UnitsFinite, TotalBound
<1>3. MemoryTotal(a) \in Nat
      /\ \A i \in Slots : MemoryIn(a[i]) \in Nat /\ MemoryIn(a[i]) <= MemoryTotal(a)
  <2> DEFINE f == [j \in Slots |-> MemoryIn(a[j])]
  <2>1. f \in [Slots -> Nat] BY PartsAreNumbers DEF Arrays
  <2>2. \A i \in Slots : f[i] = MemoryIn(a[i]) OBVIOUS
  <2>3. Total(f) = MemoryTotal(a) BY DEF MemoryTotal
  <2> HIDE DEF f
  <2> QED BY <1>1, <2>1, <2>2, <2>3, UnitsFinite, TotalBound
<1>4. ListsTotal(a) \in Nat
      /\ \A i \in Slots : ListsIn(a[i]) \in Nat /\ ListsIn(a[i]) <= ListsTotal(a)
  <2> DEFINE f == [j \in Slots |-> ListsIn(a[j])]
  <2>1. f \in [Slots -> Nat] BY PartsAreNumbers DEF Arrays
  <2>2. \A i \in Slots : f[i] = ListsIn(a[i]) OBVIOUS
  <2>3. Total(f) = ListsTotal(a) BY DEF ListsTotal
  <2> HIDE DEF f
  <2> QED BY <1>1, <2>1, <2>2, <2>3, UnitsFinite, TotalBound
<1>5. CountTotal(a) \in Nat
      /\ \A i \in Slots : CountIn(a[i]) \in Nat /\ CountIn(a[i]) <= CountTotal(a)
  <2> DEFINE f == [j \in Slots |-> CountIn(a[j])]
  <2>1. f \in [Slots -> Nat] BY PartsAreNumbers DEF Arrays
  <2>2. \A i \in Slots : f[i] = CountIn(a[i]) OBVIOUS
  <2>3. Total(f) = CountTotal(a) BY DEF CountTotal
  <2> HIDE DEF f
  <2> QED BY <1>1, <2>1, <2>2, <2>3, UnitsFinite, TotalBound
<1> QED BY <1>2, <1>3, <1>4, <1>5

(* The sums over a queue of payloads.                                      *)
LEMMA NoteFacts ==
  \A e \in Notes : /\ e.owner \in BOOLEAN /\ e.held \in Nat /\ e \in Notices
                   /\ (IF e.owner THEN 1 ELSE 0) \in Nat
                   /\ ~ e.owner => e.held = 0
<1> SUFFICES ASSUME NEW e \in Notes
             PROVE  /\ e.owner \in BOOLEAN /\ e.held \in Nat /\ e \in Notices
                    /\ (IF e.owner THEN 1 ELSE 0) \in Nat /\ ~ e.owner => e.held = 0
  OBVIOUS
<1>1. e \in Notices /\ (~ e.owner => e.held = 0) BY DEF Notes
<1>2. e.owner \in BOOLEAN /\ e.held \in Nat BY <1>1 DEF Notices
<1> QED BY <1>1, <1>2

(* The sums over the queue are numbers.                                    *)
LEMMA QueueSums ==
  ASSUME NEW q \in Seq(Notes)
  PROVE  HeldOf(q) \in Nat /\ OwnedOf(q) \in Nat
<1> DEFINE f == [j \in DOMAIN q |-> q[j].held]
<1> DEFINE g == [j \in DOMAIN q |-> IF q[j].owner THEN 1 ELSE 0]
<1>1. DOMAIN q = 1 .. Len(q) /\ Len(q) \in Nat /\ \A j \in DOMAIN q : q[j] \in Notes OBVIOUS
<1>2. IsFiniteSet(DOMAIN q) BY <1>1, FS_Interval
<1>3. f \in [DOMAIN q -> Nat] /\ g \in [DOMAIN q -> Nat] BY <1>1, NoteFacts
<1>4. HeldOf(q) = Total(f) /\ OwnedOf(q) = Total(g) BY DEF HeldOf, OwnedOf
<1> HIDE DEF f, g
<1> QED BY <1>2, <1>3, <1>4, UnitsFinite

(* What Append adds to the sums over the queue.                            *)
LEMMA QueueAppended ==
  ASSUME NEW q \in Seq(Notes), NEW e \in Notes
  PROVE  LET r == Append(q, e)
         IN  /\ r \in Seq(Notes) /\ Len(r) = Len(q) + 1
             /\ HeldOf(r) = HeldOf(q) + e.held
             /\ OwnedOf(r) = OwnedOf(q) + IF e.owner THEN 1 ELSE 0
<1> DEFINE r == Append(q, e)
<1> DEFINE n == Len(q)
<1> DEFINE i == n + 1
<1>1. /\ r \in Seq(Notes) /\ Len(r) = n + 1 /\ n \in Nat /\ DOMAIN q = 1 .. n
      /\ DOMAIN r = 1 .. n + 1 /\ r[i] = e
      /\ (\A j \in 1 .. n : r[j] = q[j] /\ q[j] \in Notes) /\ \A j \in 1 .. n + 1 : r[j] \in Notes
  OBVIOUS
<1> HIDE DEF r
<1>2. i \in 1 .. n + 1 /\ \A j \in 1 .. n : j < i BY <1>1
<1>3. HeldOf(r) = HeldOf(q) + e.held
  <2> DEFINE f == [j \in 1 .. n |-> q[j].held]
  <2> DEFINE g == [j \in 1 .. n + 1 |-> r[j].held]
  <2>1. f \in [1 .. n -> Nat] /\ g \in [1 .. n + 1 -> Nat] BY <1>1, NoteFacts
  <2>2. \A j \in 1 .. n : f[j] = IF j < i THEN g[j] ELSE g[j + 1] BY <1>1, <1>2
  <2>3. g[i] = e.held BY <1>1, <1>2
  <2>4. HeldOf(q) = Total(f) /\ HeldOf(r) = Total(g) BY <1>1 DEF HeldOf
  <2> HIDE DEF f, g, i
  <2> HIDE DEF n
  <2>5. n \in Nat /\ i \in 1 .. n + 1 BY <1>1, <1>2
  <2>6. Total(g) = Total(f) + g[i]
    <3>1. Inserted(n, i, f, g) BY <2>1, <2>2, <2>5 DEF Inserted
    <3> QED BY <3>1, TotalInserted
  <2> QED BY <2>3, <2>4, <2>6
<1>4. OwnedOf(r) = OwnedOf(q) + IF e.owner THEN 1 ELSE 0
  <2> DEFINE f == [j \in 1 .. n |-> IF q[j].owner THEN 1 ELSE 0]
  <2> DEFINE g == [j \in 1 .. n + 1 |-> IF r[j].owner THEN 1 ELSE 0]
  <2>1. f \in [1 .. n -> Nat] /\ g \in [1 .. n + 1 -> Nat] OBVIOUS
  <2>2. \A j \in 1 .. n : f[j] = IF j < i THEN g[j] ELSE g[j + 1] BY <1>1, <1>2
  <2>3. g[i] = IF e.owner THEN 1 ELSE 0 BY <1>1, <1>2
  <2>4. OwnedOf(q) = Total(f) /\ OwnedOf(r) = Total(g) BY <1>1 DEF OwnedOf
  <2> HIDE DEF f, g, i
  <2> HIDE DEF n
  <2>5. n \in Nat /\ i \in 1 .. n + 1 BY <1>1, <1>2
  <2>6. Total(g) = Total(f) + g[i]
    <3>1. Inserted(n, i, f, g) BY <2>1, <2>2, <2>5 DEF Inserted
    <3> QED BY <3>1, TotalInserted
  <2> QED BY <2>3, <2>4, <2>6
<1> QED BY <1>1, <1>3, <1>4 DEF r

(* What the application takes from the sums over the queue.                *)
LEMMA QueueTaken ==
  ASSUME NEW q \in Seq(Notes), q # <<>>
  PROVE  LET r == Tail(q)
             e == Head(q)
         IN  /\ r \in Seq(Notes) /\ Len(r) = Len(q) - 1 /\ e \in Notes
             /\ HeldOf(q) = HeldOf(r) + e.held
             /\ OwnedOf(q) = OwnedOf(r) + IF e.owner THEN 1 ELSE 0
<1> DEFINE r == Tail(q)
<1> DEFINE e == Head(q)
<1> DEFINE n == Len(r)
<1>1. /\ r \in Seq(Notes) /\ Len(q) = n + 1 /\ n \in Nat /\ DOMAIN r = 1 .. n
      /\ DOMAIN q = 1 .. n + 1 /\ q[1] = e /\ e \in Notes
      /\ \A j \in 1 .. n : r[j] = q[j + 1] /\ r[j] \in Notes
      /\ \A j \in 1 .. n + 1 : q[j] \in Notes
  OBVIOUS
<1> HIDE DEF r, e
<1>2. 1 \in 1 .. n + 1 /\ \A j \in 1 .. n : ~ (j < 1) BY <1>1
<1>3. HeldOf(q) = HeldOf(r) + e.held
  <2> DEFINE f == [j \in 1 .. n |-> r[j].held]
  <2> DEFINE g == [j \in 1 .. n + 1 |-> q[j].held]
  <2>1. f \in [1 .. n -> Nat] /\ g \in [1 .. n + 1 -> Nat] BY <1>1, NoteFacts
  <2>2. \A j \in 1 .. n : f[j] = IF j < 1 THEN g[j] ELSE g[j + 1] BY <1>1, <1>2
  <2>3. g[1] = e.held BY <1>1, <1>2
  <2>4. HeldOf(r) = Total(f) /\ HeldOf(q) = Total(g) BY <1>1 DEF HeldOf
  <2> HIDE DEF f, g, n
  <2>5. n \in Nat /\ 1 \in 1 .. n + 1 BY <1>1, <1>2
  <2>6. Total(g) = Total(f) + g[1]
    <3>1. Inserted(n, 1, f, g) BY <2>1, <2>2, <2>5 DEF Inserted
    <3> QED BY <3>1, TotalInserted
  <2> QED BY <2>3, <2>4, <2>6
<1>4. OwnedOf(q) = OwnedOf(r) + IF e.owner THEN 1 ELSE 0
  <2> DEFINE f == [j \in 1 .. n |-> IF r[j].owner THEN 1 ELSE 0]
  <2> DEFINE g == [j \in 1 .. n + 1 |-> IF q[j].owner THEN 1 ELSE 0]
  <2>1. f \in [1 .. n -> Nat] /\ g \in [1 .. n + 1 -> Nat] OBVIOUS
  <2>2. \A j \in 1 .. n : f[j] = IF j < 1 THEN g[j] ELSE g[j + 1] BY <1>1, <1>2
  <2>3. g[1] = IF e.owner THEN 1 ELSE 0 BY <1>1, <1>2
  <2>4. OwnedOf(r) = Total(f) /\ OwnedOf(q) = Total(g) BY <1>1 DEF OwnedOf
  <2> HIDE DEF f, g, n
  <2>5. n \in Nat /\ 1 \in 1 .. n + 1 BY <1>1, <1>2
  <2>6. Total(g) = Total(f) + g[1]
    <3>1. Inserted(n, 1, f, g) BY <2>1, <2>2, <2>5 DEF Inserted
    <3> QED BY <3>1, TotalInserted
  <2> QED BY <2>3, <2>4, <2>6
<1> QED BY <1>1, <1>3, <1>4 DEF r, e

-----------------------------------------------------------------------------
(***************************************************************************)
(* The steps.                                                              *)
(***************************************************************************)
(* A flush deals with one slot per step and ends when it has gone round.   *)
LEMMA Round ==
  ASSUME NEW s \in Slots, NEW i \in Slots
  PROVE  LET n == AdvanceStateArrayIndex(i)
         IN  /\ n = s => Slots \subseteq Visited(s, i) \cup {i}
             /\ n # s => Visited(s, n) \subseteq Visited(s, i) \cup {i}
             /\ Visited(s, s) = {} /\ Visited(s, i) \subseteq Slots
<1>1. LastIndex \in Nat BY Constants
<1> HIDE DEF LastIndex
<1> QED BY <1>1 DEF Visited, Slots, AdvanceStateArrayIndex

(* What a state that is in use adds to the sums.                           *)
LEMMA OwnedParts ==
  ASSUME NEW got, NEW st \in Sound(got), st.owner = TRUE
  PROVE  /\ HeldIn(st) = st.held /\ MemoryIn(st) = 1 /\ CountIn(st) = st.packet_count
         /\ st.state \in Pending => ListsIn(st) = Len(st.runs)
         /\ st.state \notin Pending => ListsIn(st) = 0
<1>1. st # None BY SoundFacts
<1> QED BY <1>1 DEF HeldIn, MemoryIn, ListsIn, CountIn, Owns, IsPending

(* What a state that is not in use adds to the sums: nothing.              *)
LEMMA FreeParts ==
  ASSUME NEW got, NEW st \in Sound(got), st.state \in {"Idle", "Ignore"}
  PROVE  /\ st.owner = FALSE /\ st.held = 0 /\ st.packet_count = 0
         /\ st.runs = <<>> /\ Len(st.runs) = 0
         /\ HeldIn(st) = 0 /\ MemoryIn(st) = 0 /\ CountIn(st) = 0 /\ ListsIn(st) = 0
<1>1. st # None /\ st.owner \in BOOLEAN BY SoundFacts
<1>2. /\ st.owner = FALSE /\ st.held = 0 /\ st.packet_count = 0 /\ st.runs = <<>>
      /\ st.state \notin Pending
  BY <1>1 DEF Sound, Pending
<1> QED BY <1>1, <1>2, EmptyRuns DEF HeldIn, MemoryIn, ListsIn, CountIn, Owns, IsPending

(* The arrival of a packet.                                                *)
LEMMA ArriveFacts ==
  ASSUME IInv, NEW p \in Packets, Arrive(p)
  PROVE  /\ p \notin arrived /\ arrived' = arrived \cup {p} /\ arrived' \subseteq Packets
         /\ arrived \subseteq arrived' /\ total_packet_count' \in Nat /\ posted > 0
         /\ pc' = "send" /\ UNCHANGED <<application, flushing, sent, lost>>
         /\ Flushed' /\ SlotOf(p) \in Slots
<1>1. /\ p \notin arrived /\ arrived' = arrived \cup {p} /\ arrived' \subseteq Packets
      /\ total_packet_count' = total_packet_count + 1 /\ posted > 0
      /\ pc' = "send" /\ UNCHANGED <<application, flushing, sent, lost>>
  BY DEF Arrive, InNetwork, IInv, Kinds
<1>2. total_packet_count' \in Nat BY <1>1 DEF IInv, Kinds
<1>3. Flushed' BY <1>1 DEF Flushed
<1> QED BY <1>1, <1>2, <1>3, SlotFacts

(* A packet thrown away changes no sum.                                    *)
LEMMA ThrowAwayFacts ==
  ASSUME IInv, NEW active, ThrowAway(active)
  PROVE  /\ complete_queue' \in Seq(Notes) /\ Len(complete_queue') <= QueueSize
         /\ HeldOf(complete_queue') = HeldOf(complete_queue)
         /\ OwnedOf(complete_queue') = OwnedOf(complete_queue)
         /\ UNCHANGED <<rxreorder_current_index, rxreorder_buffered_packet_count>>
<1>1. complete_queue \in Seq(Notes) /\ Len(complete_queue) <= QueueSize /\ QueueSize \in Nat
  BY Constants DEF IInv, Kinds
<1>2. Notice \in Notes /\ Notice.held = 0 /\ Notice.owner = FALSE BY DEF Notice, Notes, Notices
<1>3. UNCHANGED <<rxreorder_current_index, rxreorder_buffered_packet_count>> BY DEF ThrowAway
<1>4. CASE complete_queue' = complete_queue BY <1>1, <1>3, <1>4
<1>5. CASE complete_queue' = Append(complete_queue, Notice) /\ HasRoom
  <2>1. /\ complete_queue' \in Seq(Notes) /\ Len(complete_queue') = Len(complete_queue) + 1
        /\ HeldOf(complete_queue') = HeldOf(complete_queue) + 0
        /\ OwnedOf(complete_queue') = OwnedOf(complete_queue) + 0
    BY <1>1, <1>2, <1>5, QueueAppended
  <2>2. Len(complete_queue) < QueueSize /\ Len(complete_queue) \in Nat BY <1>1, <1>5 DEF HasRoom
  <2>3. HeldOf(complete_queue) \in Nat /\ OwnedOf(complete_queue) \in Nat BY <1>1, QueueSums
  <2> QED BY <1>1, <1>3, <2>1, <2>2, <2>3
<1> QED BY <1>4, <1>5 DEF ThrowAway

(* The state of the payload of a packet that is wanted, and what its slot  *)
(* had.                                                                    *)
LEMMA WantedFacts ==
  ASSUME IInv, NEW p \in Packets, PacketWanted(p)
  PROVE  LET w == WantedBy(p)
             old == payload_state_array[SlotOf(p)]
         IN  /\ Arrive(p) /\ w \in Sound(arrived) /\ w.state \in Pending /\ w.owner = TRUE
             /\ w.held \in Nat /\ w.packet_count \in Nat /\ Len(w.runs) \in Nat
             /\ HeldIn(old) = w.held /\ ListsIn(old) = Len(w.runs)
             /\ CountIn(old) = w.packet_count /\ MemoryIn(old) \in Nat
             /\ free_memory' = free_memory + MemoryIn(old) - 1 /\ free_memory' \in Nat
<1> DEFINE st == StateGet(SlotOf(p))
<1> DEFINE w == WantedBy(p)
<1> DEFINE old == payload_state_array[SlotOf(p)]
<1>1. /\ payload_state_array \in Arrays(arrived) /\ SlotOf(p) \in Slots
      /\ free_memory \in Nat
  BY SlotFacts DEF IInv, Kinds
<1>2. /\ Arrive(p)
      /\ \/ st.state = "Idle" /\ free_memory > 0 /\ free_memory' = free_memory - 1
         \/ st.state \in Pending /\ free_memory' = free_memory
  BY DEF PacketWanted
<1>3. /\ st \in Sound(arrived)
      /\ HeldIn(st) = HeldIn(old) /\ MemoryIn(st) = MemoryIn(old)
      /\ ListsIn(st) = ListsIn(old) /\ CountIn(st) = CountIn(old)
  BY <1>1, Found
<1>4. w = Started(st, p) BY DEF WantedBy
<1> HIDE DEF st, old
<1>5. /\ w \in Sound(arrived) /\ w.state \in Pending /\ w.owner = TRUE
      /\ w.runs = st.runs /\ w.held = st.held /\ w.packet_count = st.packet_count
  <2>1. st.state \in {"Idle"} \cup Pending BY <1>2
  <2> HIDE DEF w
  <2> QED BY <1>3, <1>4, <2>1, StartedFacts
<1> HIDE DEF w
<1>6. w.held \in Nat /\ w.packet_count \in Nat /\ Len(w.runs) \in Nat BY <1>5, SoundFacts
<1>7. CASE st.state = "Idle"
  <2>1. /\ st.held = 0 /\ st.packet_count = 0 /\ Len(st.runs) = 0
        /\ HeldIn(st) = 0 /\ MemoryIn(st) = 0 /\ CountIn(st) = 0 /\ ListsIn(st) = 0
    BY <1>3, <1>7, FreeParts
  <2>2. free_memory > 0 /\ free_memory' = free_memory - 1 BY <1>2, <1>7 DEF Pending
  <2> QED BY <1>1, <1>2, <1>3, <1>5, <1>6, <2>1, <2>2 DEF st, w, old
<1>8. CASE st.state \in Pending
  <2>1. st.owner = TRUE BY <1>3, <1>8, SoundFacts DEF Sound, Pending
  <2>2. /\ HeldIn(st) = st.held /\ MemoryIn(st) = 1 /\ CountIn(st) = st.packet_count
        /\ ListsIn(st) = Len(st.runs)
    BY <1>3, <1>8, <2>1, OwnedParts
  <2>3. free_memory' = free_memory BY <1>2, <1>8 DEF Pending
  <2> QED BY <1>1, <1>2, <1>3, <1>5, <1>6, <2>2, <2>3 DEF st, w, old
<1> QED BY <1>2, <1>7, <1>8

(* The numbers in the sums.                                                *)
LEMMA NumbersOfKinds ==
  ASSUME IInv
  PROVE  /\ posted \in Nat /\ free_memory \in Nat /\ free_lists \in Nat /\ lost \in Nat
         /\ HeldOf(complete_queue) \in Nat /\ OwnedOf(complete_queue) \in Nat
         /\ Total(held_by_app) \in Nat /\ Total(free_buffer_queue) \in Nat
         /\ Len(held_by_app) \in Nat /\ Len(free_buffer_queue) \in Nat
         /\ HeldTotal(payload_state_array) \in Nat /\ MemoryTotal(payload_state_array) \in Nat
         /\ ListsTotal(payload_state_array) \in Nat /\ CountTotal(payload_state_array) \in Nat
<1>1. /\ posted \in Nat /\ free_memory \in Nat /\ free_lists \in Nat /\ lost \in Nat
      /\ complete_queue \in Seq(Notes)
      /\ held_by_app \in Seq(Nat) /\ free_buffer_queue \in Seq(Nat)
      /\ payload_state_array \in Arrays(arrived)
  BY DEF IInv, Kinds
<1>2. \A s \in Seq(Nat) : Total(s) \in Nat /\ Len(s) \in Nat
  <2> SUFFICES ASSUME NEW s \in Seq(Nat) PROVE Total(s) \in Nat /\ Len(s) \in Nat
    OBVIOUS
  <2>1. s \in [1 .. Len(s) -> Nat] /\ Len(s) \in Nat OBVIOUS
  <2>2. IsFiniteSet(1 .. Len(s)) BY <2>1, FS_Interval
  <2> QED BY <2>1, <2>2, UnitsFinite
<1>3. HeldOf(complete_queue) \in Nat /\ OwnedOf(complete_queue) \in Nat BY <1>1, QueueSums
<1> QED BY <1>1, <1>2, <1>3, SumsAreNumbers

(* A step that moves what is counted between the slots, the pools and the  *)
(* queue of the callbacks.                                                 *)
LEMMA Conserved ==
  ASSUME IInv, Kinds', Flushed',
         held_by_app' = held_by_app, free_buffer_queue' = free_buffer_queue,
         posted' + HeldTotal(payload_state_array') + HeldOf(complete_queue')
           = posted + HeldTotal(payload_state_array) + HeldOf(complete_queue),
         free_memory' + lost' + MemoryTotal(payload_state_array') + OwnedOf(complete_queue')
           = free_memory + lost + MemoryTotal(payload_state_array) + OwnedOf(complete_queue),
         free_lists' + ListsTotal(payload_state_array')
           = free_lists + ListsTotal(payload_state_array),
         rxreorder_buffered_packet_count' = CountTotal(payload_state_array')
  PROVE  IInv'
<1> DEFINE x == Total(held_by_app)
<1> DEFINE y == Total(free_buffer_queue)
<1> DEFINE m == Len(held_by_app)
<1> DEFINE n == Len(free_buffer_queue)
<1> DEFINE h == HeldTotal(payload_state_array)
<1> DEFINE o == MemoryTotal(payload_state_array)
<1> DEFINE i == HeldOf(complete_queue)
<1> DEFINE j == OwnedOf(complete_queue)
<1> DEFINE hh == HeldTotal(payload_state_array')
<1> DEFINE oo == MemoryTotal(payload_state_array')
<1> DEFINE ii == HeldOf(complete_queue')
<1> DEFINE jj == OwnedOf(complete_queue')
<1> DEFINE p == posted'
<1> DEFINE f == free_memory'
<1> DEFINE l == lost'
<1>1. /\ posted \in Nat /\ free_memory \in Nat /\ lost \in Nat
      /\ x \in Nat /\ y \in Nat /\ m \in Nat /\ n \in Nat
      /\ h \in Nat /\ o \in Nat /\ i \in Nat /\ j \in Nat
  BY NumbersOfKinds
<1>2. /\ p \in Nat /\ f \in Nat /\ l \in Nat
      /\ hh \in Nat /\ oo \in Nat /\ ii \in Nat /\ jj \in Nat
  <2>1. payload_state_array' \in Arrays(arrived') /\ complete_queue' \in Seq(Notes)
        /\ p \in Nat /\ f \in Nat /\ l \in Nat
    BY DEF Kinds
  <2> QED BY <2>1, SumsAreNumbers, QueueSums
<1>3. /\ posted + h + i + x + y = PacketBuffers
      /\ free_memory + lost + m + n + o + j = MemoryStates
  BY DEF IInv, Balance
<1>4. p + hh + ii = posted + h + i OBVIOUS
<1>5. f + l + oo + jj = free_memory + lost + o + j OBVIOUS
<1>6. free_lists' + ListsTotal(payload_state_array') = ReorderLists BY DEF IInv, Balance
<1>7. p + hh + ii + x + y = PacketBuffers
  <2> HIDE DEF h, i, x, y, p, hh, ii
  <2> QED BY <1>1, <1>2, <1>3, <1>4
<1>8. f + l + m + n + oo + jj = MemoryStates
  <2> DEFINE u == free_memory
  <2> DEFINE v == lost
  <2>1. /\ u \in Nat /\ v \in Nat /\ m \in Nat /\ n \in Nat /\ o \in Nat /\ j \in Nat
        /\ f \in Nat /\ l \in Nat /\ oo \in Nat /\ jj \in Nat
        /\ u + v + m + n + o + j = MemoryStates
        /\ f + l + oo + jj = u + v + o + j
    BY <1>1, <1>2, <1>3, <1>5
  <2> HIDE DEF u, v, m, n, o, j, f, l, oo, jj
  <2> QED BY <2>1
<1> HIDE DEF h, o, i, j
<1>9. Balance' BY <1>6, <1>7, <1>8 DEF Balance
<1> QED BY <1>9 DEF IInv

(* A step that leaves the queue of the callbacks out of it.                *)
LEMMA SlotsAndPools ==
  ASSUME IInv, Kinds', Flushed', lost' = lost,
         held_by_app' = held_by_app, free_buffer_queue' = free_buffer_queue,
         HeldOf(complete_queue') = HeldOf(complete_queue),
         OwnedOf(complete_queue') = OwnedOf(complete_queue),
         posted' + HeldTotal(payload_state_array')
           = posted + HeldTotal(payload_state_array),
         free_memory' + MemoryTotal(payload_state_array')
           = free_memory + MemoryTotal(payload_state_array),
         free_lists' + ListsTotal(payload_state_array')
           = free_lists + ListsTotal(payload_state_array),
         rxreorder_buffered_packet_count' = CountTotal(payload_state_array')
  PROVE  IInv'
<1> DEFINE o == MemoryTotal(payload_state_array)
<1> DEFINE oo == MemoryTotal(payload_state_array')
<1> DEFINE f == free_memory'
<1>1. lost \in Nat /\ o \in Nat /\ free_memory \in Nat BY NumbersOfKinds
<1>2. f \in Nat /\ oo \in Nat BY SumsAreNumbers DEF Kinds
<1>3. f + oo = free_memory + o OBVIOUS
<1>4. f + lost + oo = free_memory + lost + o
  <2> HIDE DEF o, oo, f
  <2> QED BY <1>1, <1>2, <1>3
<1>5. posted' + HeldTotal(payload_state_array') + HeldOf(complete_queue')
        = posted + HeldTotal(payload_state_array) + HeldOf(complete_queue)
  OBVIOUS
<1>6. free_memory' + lost' + MemoryTotal(payload_state_array') + OwnedOf(complete_queue')
        = free_memory + lost + MemoryTotal(payload_state_array) + OwnedOf(complete_queue)
  BY <1>4
<1> QED BY <1>5, <1>6, Conserved

(* One step each: a packet.                                                *)
LEMMA UnwantedStep ==
  ASSUME IInv, NEW p \in Packets, PacketUnwanted(p)
  PROVE  IInv'
<1>1. Arrive(p) /\ ThrowAway(back_pressure)
      /\ UNCHANGED <<posted, payload_state_array, back_pressure, pools, starved>>
  BY DEF PacketUnwanted
<1>2. /\ arrived' \subseteq Packets /\ arrived \subseteq arrived' /\ total_packet_count' \in Nat
      /\ pc' = "send" /\ UNCHANGED <<application, flushing, sent, lost>> /\ Flushed'
  BY <1>1, ArriveFacts
<1>3. /\ complete_queue' \in Seq(Notes) /\ Len(complete_queue') <= QueueSize
      /\ HeldOf(complete_queue') = HeldOf(complete_queue)
      /\ OwnedOf(complete_queue') = OwnedOf(complete_queue)
      /\ UNCHANGED <<rxreorder_current_index, rxreorder_buffered_packet_count>>
  BY <1>1, ThrowAwayFacts
<1>4. payload_state_array' \in Arrays(arrived')
  <2>1. payload_state_array \in Arrays(arrived) BY DEF IInv, Kinds
  <2>2. payload_state_array \in Arrays(arrived') BY <1>2, <2>1, ArraysGrow
  <2> QED BY <1>1, <2>2
<1>5. Kinds' BY <1>1, <1>2, <1>3, <1>4 DEF IInv, Kinds, application, flushing, pools
<1>6. Balance' BY <1>1, <1>2, <1>3 DEF IInv, Balance, application, pools
<1> QED BY <1>2, <1>5, <1>6 DEF IInv

(* No memory state for the payload.                                        *)
LEMMA StarvedStep ==
  ASSUME IInv, NEW p \in Packets, PacketStarved(p)
  PROVE  IInv'
<1> DEFINE i == SlotOf(p)
<1> DEFINE a == payload_state_array
<1>1. Arrive(p) /\ ThrowAway(TRUE) /\ StateGet(i).state = "Idle"
      /\ a' = [a EXCEPT ![i] = NewState]
      /\ back_pressure' = TRUE /\ starved' = TRUE /\ UNCHANGED <<posted, pools>>
  BY DEF PacketStarved
<1>2. /\ arrived' \subseteq Packets /\ arrived \subseteq arrived' /\ total_packet_count' \in Nat
      /\ pc' = "send" /\ UNCHANGED <<application, flushing, sent, lost>> /\ Flushed'
      /\ i \in Slots
  BY <1>1, ArriveFacts
<1>3. /\ complete_queue' \in Seq(Notes) /\ Len(complete_queue') <= QueueSize
      /\ HeldOf(complete_queue') = HeldOf(complete_queue)
      /\ OwnedOf(complete_queue') = OwnedOf(complete_queue)
      /\ UNCHANGED <<rxreorder_current_index, rxreorder_buffered_packet_count>>
  BY <1>1, ThrowAwayFacts
<1>4. a \in Arrays(arrived) BY DEF IInv, Kinds
<1>5. HeldIn(a[i]) = 0 /\ MemoryIn(a[i]) = 0 /\ ListsIn(a[i]) = 0 /\ CountIn(a[i]) = 0
  BY <1>1, <1>2, <1>4, Found, FreeParts
<1>6. /\ NewState \in Sound(arrived')
      /\ HeldIn(NewState) = 0 /\ MemoryIn(NewState) = 0
      /\ ListsIn(NewState) = 0 /\ CountIn(NewState) = 0
  <2>1. NewState \in Sound(arrived') /\ NewState.state = "Idle" BY NewIsSound DEF NewState
  <2> QED BY <2>1, FreeParts
<1>7. /\ a' \in Arrays(arrived')
      /\ HeldTotal(a') = HeldTotal(a) - HeldIn(a[i]) + HeldIn(NewState)
      /\ MemoryTotal(a') = MemoryTotal(a) - MemoryIn(a[i]) + MemoryIn(NewState)
      /\ ListsTotal(a') = ListsTotal(a) - ListsIn(a[i]) + ListsIn(NewState)
      /\ CountTotal(a') = CountTotal(a) - CountIn(a[i]) + CountIn(NewState)
  <2>1. NewState \in SlotStates(arrived') BY <1>6 DEF SlotStates
  <2>2. Changed(a, a', i, NewState) BY <1>1 DEF Changed
  <2> QED BY <1>2, <1>4, <2>1, <2>2, SlotChanged
<1>8. /\ HeldTotal(a) \in Nat /\ MemoryTotal(a) \in Nat
      /\ ListsTotal(a) \in Nat /\ CountTotal(a) \in Nat
  BY <1>4, SumsAreNumbers
<1>9. /\ HeldTotal(a') = HeldTotal(a) /\ MemoryTotal(a') = MemoryTotal(a)
      /\ ListsTotal(a') = ListsTotal(a) /\ CountTotal(a') = CountTotal(a)
  BY <1>5, <1>6, <1>7, <1>8
<1>10. Kinds' BY <1>1, <1>2, <1>3, <1>7 DEF IInv, Kinds, application, flushing, pools
<1>11. Balance' BY <1>1, <1>2, <1>3, <1>9 DEF IInv, Balance, application, pools
<1> QED BY <1>2, <1>10, <1>11 DEF IInv

(* What the steps that change the payload of a packet have in common.      *)
LEMMA SlotStep ==
  ASSUME IInv, NEW p \in Packets, PacketWanted(p), NEW new \in Sound(arrived'),
         new.owner = TRUE,
         payload_state_array' = [payload_state_array EXCEPT ![SlotOf(p)] = new]
  PROVE  LET w == WantedBy(p)
             a == payload_state_array
         IN  /\ a' \in Arrays(arrived')
             /\ w.held \in Nat /\ new.held \in Nat
             /\ w.packet_count \in Nat /\ new.packet_count \in Nat
             /\ Len(w.runs) \in Nat /\ Len(new.runs) \in Nat
             /\ HeldTotal(a) \in Nat /\ HeldTotal(a') = HeldTotal(a) - w.held + new.held
             /\ free_memory' \in Nat /\ MemoryTotal(a) \in Nat /\ MemoryTotal(a') \in Nat
             /\ free_memory' + MemoryTotal(a') = free_memory + MemoryTotal(a)
             /\ ListsTotal(a) \in Nat
             /\ new.state \in Pending =>
                  ListsTotal(a') = ListsTotal(a) - Len(w.runs) + Len(new.runs)
             /\ new.state \notin Pending => ListsTotal(a') = ListsTotal(a) - Len(w.runs)
             /\ CountTotal(a) \in Nat
             /\ CountTotal(a') = CountTotal(a) - w.packet_count + new.packet_count
<1> DEFINE i == SlotOf(p)
<1> DEFINE a == payload_state_array
<1> DEFINE w == WantedBy(p)
<1> DEFINE old == a[i]
<1>1. a \in Arrays(arrived) /\ free_memory \in Nat BY DEF IInv, Kinds
<1>2. /\ Arrive(p) /\ w.held \in Nat /\ w.packet_count \in Nat /\ Len(w.runs) \in Nat
      /\ HeldIn(old) = w.held /\ ListsIn(old) = Len(w.runs)
      /\ CountIn(old) = w.packet_count /\ MemoryIn(old) \in Nat
      /\ free_memory' = free_memory + MemoryIn(old) - 1 /\ free_memory' \in Nat
  BY WantedFacts
<1>3. arrived \subseteq arrived' /\ i \in Slots BY <1>2, ArriveFacts
<1>4. /\ HeldIn(new) = new.held /\ MemoryIn(new) = 1 /\ CountIn(new) = new.packet_count
      /\ new.state \in Pending => ListsIn(new) = Len(new.runs)
      /\ new.state \notin Pending => ListsIn(new) = 0
      /\ new.held \in Nat /\ new.packet_count \in Nat /\ Len(new.runs) \in Nat
  BY OwnedParts, SoundFacts
<1>5. /\ a' \in Arrays(arrived')
      /\ HeldTotal(a') = HeldTotal(a) - HeldIn(old) + HeldIn(new)
      /\ MemoryTotal(a') = MemoryTotal(a) - MemoryIn(old) + MemoryIn(new)
      /\ ListsTotal(a') = ListsTotal(a) - ListsIn(old) + ListsIn(new)
      /\ CountTotal(a') = CountTotal(a) - CountIn(old) + CountIn(new)
  <2>1. new \in SlotStates(arrived') BY DEF SlotStates
  <2>2. Changed(a, a', i, new) BY DEF Changed
  <2> QED BY <1>1, <1>3, <2>1, <2>2, SlotChanged
<1>6. /\ HeldTotal(a) \in Nat /\ MemoryTotal(a) \in Nat
      /\ ListsTotal(a) \in Nat /\ CountTotal(a) \in Nat
  BY <1>1, SumsAreNumbers
<1>7. MemoryTotal(a') \in Nat BY <1>5, SumsAreNumbers
<1> HIDE DEF w, old, i
<1>8. free_memory' + MemoryTotal(a') = free_memory + MemoryTotal(a)
  BY <1>1, <1>2, <1>4, <1>5, <1>6
<1>9. HeldTotal(a') = HeldTotal(a) - w.held + new.held BY <1>2, <1>4, <1>5
<1>10. CountTotal(a') = CountTotal(a) - w.packet_count + new.packet_count
  BY <1>2, <1>4, <1>5
<1>11. new.state \in Pending => ListsTotal(a') = ListsTotal(a) - Len(w.runs) + Len(new.runs)
  BY <1>2, <1>4, <1>5
<1>12. new.state \notin Pending => ListsTotal(a') = ListsTotal(a) - Len(w.runs)
  BY <1>2, <1>4, <1>5, <1>6
<1> QED BY <1>2, <1>4, <1>5, <1>6, <1>7, <1>8, <1>9, <1>10, <1>11, <1>12 DEF w

(* No reorder list for the packet.                                         *)
LEMMA NoListStep ==
  ASSUME IInv, NEW p \in Packets, PacketNoList(p)
  PROVE  IInv'
<1> DEFINE w == WantedBy(p)
<1> DEFINE a == payload_state_array
<1>1. /\ PacketWanted(p) /\ ThrowAway(back_pressure)
      /\ a' = [a EXCEPT ![SlotOf(p)] = Erred(w)]
      /\ posted' = posted + w.held /\ free_lists' = free_lists + Len(w.runs)
      /\ starved' = TRUE /\ UNCHANGED back_pressure
  BY DEF PacketNoList
<1>2. Arrive(p) /\ w \in Sound(arrived) /\ w.state \in Pending
  BY <1>1, WantedFacts
<1>3. /\ arrived' \subseteq Packets /\ arrived \subseteq arrived' /\ total_packet_count' \in Nat
      /\ pc' = "send" /\ UNCHANGED <<application, flushing, sent, lost>> /\ Flushed'
  BY <1>2, ArriveFacts
<1>4. /\ complete_queue' \in Seq(Notes) /\ Len(complete_queue') <= QueueSize
      /\ HeldOf(complete_queue') = HeldOf(complete_queue)
      /\ OwnedOf(complete_queue') = OwnedOf(complete_queue)
      /\ UNCHANGED <<rxreorder_current_index, rxreorder_buffered_packet_count>>
  BY <1>1, ThrowAwayFacts
<1> DEFINE e == Erred(w)
<1>5. /\ e \in Sound(arrived') /\ e.owner = TRUE /\ e.held = 0 /\ e.state \notin Pending
      /\ e.packet_count = w.packet_count
  <2>1. /\ e \in Sound(arrived) /\ e.state = "Error" /\ e.owner = TRUE /\ e.held = 0
        /\ e.packet_count = w.packet_count
    BY <1>2, ErredFacts
  <2>2. e \in Sound(arrived') BY <1>3, <2>1, SoundGrows
  <2> QED BY <2>1, <2>2 DEF Pending
<1> HIDE DEF e
<1>6. a' = [a EXCEPT ![SlotOf(p)] = e] BY <1>1 DEF e
<1>7. /\ a' \in Arrays(arrived')
      /\ w.held \in Nat /\ w.packet_count \in Nat /\ Len(w.runs) \in Nat
      /\ HeldTotal(a) \in Nat /\ HeldTotal(a') = HeldTotal(a) - w.held + e.held
      /\ free_memory' \in Nat /\ MemoryTotal(a) \in Nat /\ MemoryTotal(a') \in Nat
      /\ free_memory' + MemoryTotal(a') = free_memory + MemoryTotal(a)
      /\ ListsTotal(a) \in Nat /\ ListsTotal(a') = ListsTotal(a) - Len(w.runs)
      /\ CountTotal(a) \in Nat /\ CountTotal(a') = CountTotal(a) - w.packet_count + e.packet_count
  BY <1>1, <1>5, <1>6, SlotStep
<1> HIDE DEF w
<1>8. Kinds'
  <2>1. posted \in Nat /\ free_lists \in Nat BY NumbersOfKinds
  <2>3. w.held \in Nat /\ Len(w.runs) \in Nat BY <1>7
  <2>4. posted' = posted + w.held /\ free_lists' = free_lists + Len(w.runs) BY <1>1
  <2>2. posted' \in Nat /\ free_lists' \in Nat BY <2>1, <2>3, <2>4
  <2> QED BY <1>1, <1>3, <1>4, <1>7, <2>2 DEF IInv, Kinds, application, flushing
<1>9. posted \in Nat /\ free_lists \in Nat
      /\ UNCHANGED <<held_by_app, free_buffer_queue, lost>>
  BY <1>3, NumbersOfKinds DEF application
<1>10. posted' + HeldTotal(a') = posted + HeldTotal(a)
  <2>1. posted' = posted + w.held /\ w.held \in Nat /\ HeldTotal(a) \in Nat /\ posted \in Nat
    BY <1>1, <1>7, <1>9
  <2>2. HeldTotal(a') = HeldTotal(a) - w.held + e.held /\ e.held = 0 BY <1>5, <1>7
  <2> QED BY <2>1, <2>2
<1>11. free_lists' + ListsTotal(a') = free_lists + ListsTotal(a) BY <1>1, <1>7, <1>9
<1>12. rxreorder_buffered_packet_count' = CountTotal(a') BY <1>4, <1>5, <1>7 DEF IInv, Balance
<1> QED BY <1>3, <1>4, <1>7, <1>8, <1>9, <1>10, <1>11, <1>12, SlotsAndPools

(* A packet that is kept.                                                  *)
LEMMA KeptStep ==
  ASSUME IInv, NEW p \in Packets, PacketWanted(p), NEW new \in Sound(arrived'),
         new.owner = TRUE, new.held = WantedBy(p).held + 1,
         new.packet_count = WantedBy(p).packet_count + 1, Keep(p, new),
         free_lists' \in Nat,
         free_lists' = free_lists + Len(WantedBy(p).runs)
                         - (IF new.state \in Pending THEN Len(new.runs) ELSE 0),
         rxreorder_current_index' \in Slots, back_pressure' \in BOOLEAN
  PROVE  IInv'
<1> DEFINE w == WantedBy(p)
<1> DEFINE a == payload_state_array
<1>1. /\ posted' = posted - 1 /\ a' = [a EXCEPT ![SlotOf(p)] = new]
      /\ rxreorder_buffered_packet_count' = rxreorder_buffered_packet_count + 1
      /\ complete_queue' = complete_queue /\ starved' = starved
  BY DEF Keep
<1>2. /\ arrived' \subseteq Packets /\ total_packet_count' \in Nat /\ posted > 0
      /\ pc' = "send" /\ UNCHANGED <<application, flushing, sent, lost>> /\ Flushed'
  BY WantedFacts, ArriveFacts
<1>3. /\ a' \in Arrays(arrived')
      /\ w.held \in Nat /\ w.packet_count \in Nat
      /\ Len(w.runs) \in Nat /\ Len(new.runs) \in Nat
      /\ HeldTotal(a) \in Nat /\ HeldTotal(a') = HeldTotal(a) - w.held + new.held
      /\ free_memory' \in Nat
      /\ free_memory' + MemoryTotal(a') = free_memory + MemoryTotal(a)
      /\ ListsTotal(a) \in Nat
      /\ new.state \in Pending => ListsTotal(a') = ListsTotal(a) - Len(w.runs) + Len(new.runs)
      /\ new.state \notin Pending => ListsTotal(a') = ListsTotal(a) - Len(w.runs)
      /\ CountTotal(a) \in Nat
      /\ CountTotal(a') = CountTotal(a) - w.packet_count + new.packet_count
  BY <1>1, SlotStep
<1>4. /\ new.held = w.held + 1 /\ new.packet_count = w.packet_count + 1
      /\ free_lists' = free_lists + Len(w.runs)
                         - (IF new.state \in Pending THEN Len(new.runs) ELSE 0)
  OBVIOUS
<1>5. posted \in Nat /\ free_lists \in Nat BY NumbersOfKinds
<1> HIDE DEF w
<1>6. posted' \in Nat BY <1>1, <1>2, <1>5
<1>7. posted' + HeldTotal(a') = posted + HeldTotal(a)
  <2>1. posted' = posted - 1 BY <1>1
  <2>2. HeldTotal(a') = HeldTotal(a) - w.held + (w.held + 1) BY <1>3, <1>4
  <2>3. w.held \in Nat /\ HeldTotal(a) \in Nat BY <1>3
  <2> QED BY <1>5, <2>1, <2>2, <2>3
<1>8. rxreorder_buffered_packet_count' = CountTotal(a')
  <2>1. CountTotal(a') = CountTotal(a) - w.packet_count + (w.packet_count + 1) BY <1>3, <1>4
  <2>2. w.packet_count \in Nat /\ CountTotal(a) \in Nat BY <1>3
  <2>3. rxreorder_buffered_packet_count' = CountTotal(a) + 1 BY <1>1 DEF IInv, Balance
  <2> QED BY <2>1, <2>2, <2>3
<1>9. free_lists' + ListsTotal(a') = free_lists + ListsTotal(a)
  <2> DEFINE m == Len(w.runs)
  <2> DEFINE n == Len(new.runs)
  <2> DEFINE T == ListsTotal(a)
  <2> DEFINE f == free_lists'
  <2> DEFINE U == ListsTotal(a')
  <2>1. m \in Nat /\ n \in Nat /\ T \in Nat BY <1>3
  <2>2. CASE new.state \in Pending
    <3>1. f = free_lists + m - n /\ U = T - m + n BY <1>3, <1>4, <2>2
    <3> HIDE DEF m, n, T, f, U
    <3>2. f + U = free_lists + T BY <1>5, <2>1, <3>1
    <3> QED BY <3>2 DEF T, f, U
  <2>3. CASE new.state \notin Pending
    <3>1. f = free_lists + m - 0 /\ U = T - m BY <1>3, <1>4, <2>3
    <3> HIDE DEF m, n, T, f, U
    <3>2. f + U = free_lists + T BY <1>5, <2>1, <3>1
    <3> QED BY <3>2 DEF T, f, U
  <2> QED BY <2>2, <2>3
<1>10. Kinds'
  BY <1>1, <1>2, <1>3, <1>6 DEF IInv, Kinds, application, flushing
<1>11. /\ HeldOf(complete_queue') = HeldOf(complete_queue)
       /\ OwnedOf(complete_queue') = OwnedOf(complete_queue)
       /\ lost' = lost /\ held_by_app' = held_by_app /\ free_buffer_queue' = free_buffer_queue
  BY <1>1, <1>2 DEF application
<1> QED BY <1>2, <1>3, <1>7, <1>8, <1>9, <1>10, <1>11, SlotsAndPools

(* A packet that is not the last of its payload.                           *)
LEMMA StoredStep ==
  ASSUME IInv, NEW p \in Packets, PacketStored(p)
  PROVE  IInv'
<1> DEFINE w == WantedBy(p)
<1> DEFINE s == Stored(w, p)
<1>1. /\ PacketWanted(p) /\ ListsFor(w.runs, p) <= free_lists /\ Keep(p, s)
      /\ free_lists' = free_lists - ListsFor(w.runs, p)
      /\ UNCHANGED <<rxreorder_current_index, back_pressure>>
  BY DEF PacketStored
<1>2. /\ Arrive(p) /\ w \in Sound(arrived) /\ w.state \in Pending
      /\ Len(w.runs) \in Nat
  BY <1>1, WantedFacts
<1>3. p \notin arrived /\ arrived' = arrived \cup {p} BY <1>2, ArriveFacts
<1>4. free_lists \in Nat /\ total_packet_count \in Nat BY DEF IInv, Kinds
<1>5. /\ s \in Sound(arrived \cup {p}) /\ s.state = w.state /\ s.owner = TRUE
      /\ Len(s.runs) = Len(w.runs) + ListsFor(w.runs, p)
      /\ s.held = w.held + 1 /\ s.packet_count = w.packet_count + 1
      /\ ListsFor(w.runs, p) \in Int
  BY <1>2, <1>3, <1>4, StoredFacts
<1> DEFINE l == ListsFor(w.runs, p)
<1> DEFINE m == Len(w.runs)
<1> DEFINE n == Len(s.runs)
<1>6. free_lists' \in Nat /\ free_lists' = free_lists + m - n
  <2>1. l \in Int /\ m \in Nat /\ n = m + l /\ l <= free_lists /\ free_lists' = free_lists - l
    BY <1>1, <1>2, <1>5
  <2> HIDE DEF l, m, n
  <2> QED BY <1>4, <2>1
<1>7. rxreorder_current_index' \in Slots /\ back_pressure' \in BOOLEAN BY <1>1 DEF IInv, Kinds
<1>8. s.state \in Pending /\ s \in Sound(arrived') BY <1>2, <1>3, <1>5
<1> HIDE DEF s
<1>9. free_lists' = free_lists + Len(w.runs) - (IF s.state \in Pending THEN Len(s.runs) ELSE 0)
  BY <1>6, <1>8
<1> QED BY <1>1, <1>5, <1>6, <1>7, <1>8, <1>9, KeptStep

(* The last packet of a payload.                                           *)
LEMMA CompletesStep ==
  ASSUME IInv, NEW p \in Packets, PacketCompletes(p)
  PROVE  IInv'
<1> DEFINE w == WantedBy(p)
<1> DEFINE s == Stored(w, p)
<1> DEFINE d == [s EXCEPT !.state = "Complete"]
<1>1. /\ PacketWanted(p) /\ ListsFor(w.runs, p) <= free_lists /\ Keep(p, d)
      /\ Len(s.runs) = 1
      /\ free_lists' = free_lists - ListsFor(w.runs, p) + 1
      /\ rxreorder_current_index' = IF back_pressure THEN SeekFirst(payload_state_array')
                                    ELSE rxreorder_current_index
      /\ back_pressure' = FALSE
  BY DEF PacketCompletes, IsGood
<1>2. /\ Arrive(p) /\ w \in Sound(arrived) /\ w.state \in Pending
      /\ Len(w.runs) \in Nat
  BY <1>1, WantedFacts
<1>3. p \notin arrived /\ arrived' = arrived \cup {p} BY <1>2, ArriveFacts
<1>4. /\ free_lists \in Nat /\ total_packet_count \in Nat /\ rxreorder_current_index \in Slots
  BY DEF IInv, Kinds
<1>5. /\ s \in Sound(arrived \cup {p}) /\ s.state = w.state
      /\ Len(s.runs) = Len(w.runs) + ListsFor(w.runs, p)
      /\ s.held = w.held + 1 /\ s.packet_count = w.packet_count + 1
      /\ ListsFor(w.runs, p) \in Int
  BY <1>2, <1>3, <1>4, StoredFacts
<1>6. free_lists' \in Nat /\ free_lists' = free_lists + Len(w.runs)
  <2> DEFINE l == ListsFor(w.runs, p)
  <2> DEFINE m == Len(w.runs)
  <2>1. l \in Int /\ m \in Nat /\ 1 = m + l /\ free_lists' = free_lists - l + 1
    BY <1>1, <1>2, <1>5
  <2> HIDE DEF l, m
  <2>2. free_lists' \in Nat /\ free_lists' = free_lists + m BY <1>4, <2>1
  <2> QED BY <2>2 DEF m
<1>7. rxreorder_current_index' \in Slots /\ back_pressure' \in BOOLEAN
  BY <1>1, <1>4, SeekFacts
<1>8. s.state \in Pending /\ s \in Sound(arrived') /\ Len(s.runs) = 1
  BY <1>1, <1>2, <1>3, <1>5
<1>9. /\ d \in Sound(arrived') /\ d.state = "Complete" /\ d.owner = TRUE
      /\ d.held = s.held /\ d.packet_count = s.packet_count
  <2> HIDE DEF s
  <2> QED BY <1>8, DoneFacts
<1> HIDE DEF d
<1>10. /\ d.held = w.held + 1 /\ d.packet_count = w.packet_count + 1 /\ Keep(p, d)
  BY <1>1, <1>5, <1>9
<1>11. free_lists' = free_lists + Len(w.runs) - (IF d.state \in Pending THEN Len(d.runs) ELSE 0)
  <2>1. d.state \notin Pending BY <1>9 DEF Pending
  <2>2. Len(w.runs) \in Nat /\ free_lists \in Nat BY <1>2, <1>4
  <2>3. free_lists' = free_lists + Len(w.runs) - 0 BY <1>6, <2>2
  <2> QED BY <2>1, <2>3
<1> QED BY <1>1, <1>6, <1>7, <1>9, <1>10, <1>11, KeptStep

(* Enough packets, but not one run.                                        *)
LEMMA MismatchStep ==
  ASSUME IInv, NEW p \in Packets, PacketMismatch(p)
  PROVE  IInv'
<1> DEFINE w == WantedBy(p)
<1> DEFINE a == payload_state_array
<1> DEFINE e == Mismatched(w, p)
<1>1. /\ PacketWanted(p) /\ ThrowAway(back_pressure)
      /\ a' = [a EXCEPT ![SlotOf(p)] = e] /\ free_lists' = free_lists + Len(w.runs)
      /\ UNCHANGED <<posted, back_pressure, starved>>
  BY DEF PacketMismatch
<1>2. Arrive(p) /\ w \in Sound(arrived) /\ w.state \in Pending
  BY <1>1, WantedFacts
<1>3. /\ arrived' \subseteq Packets /\ arrived' = arrived \cup {p} /\ total_packet_count' \in Nat
      /\ pc' = "send" /\ UNCHANGED <<application, flushing, sent, lost>> /\ Flushed'
  BY <1>2, ArriveFacts
<1>4. /\ complete_queue' \in Seq(Notes) /\ Len(complete_queue') <= QueueSize
      /\ HeldOf(complete_queue') = HeldOf(complete_queue)
      /\ OwnedOf(complete_queue') = OwnedOf(complete_queue)
      /\ UNCHANGED <<rxreorder_current_index, rxreorder_buffered_packet_count>>
  BY <1>1, ThrowAwayFacts
<1>5. /\ e \in Sound(arrived') /\ e.owner = TRUE /\ e.held = w.held /\ e.state \notin Pending
      /\ e.packet_count = w.packet_count
  <2>1. /\ e \in Sound(arrived \cup {p}) /\ e.state = "Complete" /\ e.owner = TRUE
        /\ e.held = w.held /\ e.packet_count = w.packet_count
    BY <1>2, MismatchedFacts
  <2> QED BY <1>3, <2>1 DEF Pending
<1> HIDE DEF e
<1>6. /\ a' \in Arrays(arrived')
      /\ w.held \in Nat /\ w.packet_count \in Nat /\ Len(w.runs) \in Nat
      /\ HeldTotal(a) \in Nat /\ HeldTotal(a') = HeldTotal(a) - w.held + e.held
      /\ free_memory' \in Nat
      /\ free_memory' + MemoryTotal(a') = free_memory + MemoryTotal(a)
      /\ ListsTotal(a) \in Nat /\ ListsTotal(a') = ListsTotal(a) - Len(w.runs)
      /\ CountTotal(a) \in Nat /\ CountTotal(a') = CountTotal(a) - w.packet_count + e.packet_count
  BY <1>1, <1>5, SlotStep
<1> HIDE DEF w
<1>7. posted \in Nat /\ free_lists \in Nat
      /\ lost' = lost /\ held_by_app' = held_by_app /\ free_buffer_queue' = free_buffer_queue
  BY <1>3, NumbersOfKinds DEF application
<1>8. free_lists' \in Nat /\ free_lists' + ListsTotal(a') = free_lists + ListsTotal(a)
  <2>1. Len(w.runs) \in Nat /\ free_lists' = free_lists + Len(w.runs) BY <1>1, <1>6
  <2>2. ListsTotal(a) \in Nat /\ ListsTotal(a') = ListsTotal(a) - Len(w.runs) BY <1>6
  <2> QED BY <1>7, <2>1, <2>2
<1>9. Kinds'
  BY <1>1, <1>3, <1>4, <1>6, <1>8 DEF IInv, Kinds, application, flushing
<1>10. posted' + HeldTotal(a') = posted + HeldTotal(a)
  <2>1. w.held \in Nat /\ HeldTotal(a) \in Nat BY <1>6
  <2>2. HeldTotal(a') = HeldTotal(a) - w.held + w.held /\ posted' = posted BY <1>1, <1>5, <1>6
  <2> QED BY <2>1, <2>2
<1>11. rxreorder_buffered_packet_count' = CountTotal(a')
  <2>1. w.packet_count \in Nat /\ CountTotal(a) \in Nat BY <1>6
  <2>2. CountTotal(a') = CountTotal(a) - w.packet_count + w.packet_count BY <1>5, <1>6
  <2>3. rxreorder_buffered_packet_count' = CountTotal(a) BY <1>4 DEF IInv, Balance
  <2> QED BY <2>1, <2>2, <2>3
<1> QED BY <1>3, <1>4, <1>6, <1>7, <1>8, <1>9, <1>10, <1>11, SlotsAndPools

(* One step each: a payload that is sent.                                  *)
LEMMA MaxWithZero ==
  ASSUME NEW x \in Nat
  PROVE  Max({x, 0}) = x
<1>1. {x, 0} \in SUBSET (0 .. x) /\ {x, 0} # {} OBVIOUS
<1>2. Max({x, 0}) \in {x, 0} /\ \A y \in {x, 0} : Max({x, 0}) >= y
  <2> DEFINE S == {x, 0}
  <2>1. S \in SUBSET (0 .. x) /\ S # {} BY <1>1
  <2> HIDE DEF S
  <2>2. Max(S) \in S /\ \A y \in S : Max(S) >= y BY <2>1, MaxOfNats
  <2> QED BY <2>2 DEF S
<1> QED BY <1>2

(* What the application is told of a payload.                              *)
LEMMA EntryFacts ==
  ASSUME NEW got, NEW st \in Sound(got), got \subseteq Packets,
         st.state \in {"Complete", "Error"}
  PROVE  /\ st.owner = TRUE /\ st.held \in Nat /\ (st.state = "Error" => st.held = 0)
         /\ Entry(st) \in Notes /\ Entry(st).held = st.held /\ Entry(st).owner = TRUE
         /\ [status |-> Entry(st).status, sgl |-> Sgl(st)]
              \in [status : {"Ok", "Error"}, sgl : Seq(Packets)]
<1>1. st.owner = TRUE /\ st.held \in Nat /\ (st.state = "Error" => st.held = 0)
      /\ st.runs \in RunLists
  BY SoundFacts DEF Sound
<1>2. /\ Entry(st) \in Notes /\ Entry(st).held = st.held /\ Entry(st).owner = TRUE
      /\ Entry(st).status \in {"Ok", "Error"}
  BY <1>1 DEF Entry, Notes, Notices
<1>3. Sgl(st) \in Seq(Packets)
  <2>1. st.runs \in Seq(Seq(Packets)) BY <1>1, RunsType
  <2>2. CASE st.runs = <<>> BY <2>2 DEF Sgl
  <2>3. CASE st.runs # <<>>
    <3> DEFINE T == Seq(Packets)
    <3>1. st.runs \in Seq(T) BY <2>1
    <3> HIDE DEF T
    <3>2. Head(st.runs) \in T BY <3>1, <2>3
    <3> QED BY <2>3, <3>2 DEF Sgl, T
  <2> QED BY <2>2, <2>3
<1> QED BY <1>1, <1>2, <1>3

(* What sending a payload does to the sums.                                *)
LEMMA SendFacts ==
  ASSUME IInv, NEW i \in Slots, NEW st \in Sound(arrived), st.state \in {"Complete", "Error"},
         st.packet_count = CountIn(payload_state_array[i]), SendPayload(i, st)
  PROVE  LET a == payload_state_array
             q == complete_queue
         IN  /\ a' \in Arrays(arrived)
             /\ \A j \in Slots : CountIn(a'[j]) = IF j = i THEN 0 ELSE CountIn(a[j])
             /\ HeldTotal(a) \in Nat /\ HeldTotal(a') = HeldTotal(a) - HeldIn(a[i])
             /\ MemoryTotal(a) \in Nat /\ MemoryTotal(a') = MemoryTotal(a) - MemoryIn(a[i])
             /\ ListsTotal(a) \in Nat /\ ListsTotal(a') = ListsTotal(a) - ListsIn(a[i])
             /\ rxreorder_buffered_packet_count' = CountTotal(a')
             /\ rxreorder_current_index' \in Slots
             /\ q' \in Seq(Notes) /\ Len(q') <= QueueSize
             /\ HeldOf(q) \in Nat /\ OwnedOf(q) \in Nat /\ OwnedOf(q') \in Nat
             /\ HeldOf(q') = IF Freed(st) THEN HeldOf(q) ELSE HeldOf(q) + st.held
             /\ free_memory' \in Nat /\ lost' \in Nat
             /\ free_memory' + lost' + OwnedOf(q') = free_memory + lost + OwnedOf(q) + 1
             /\ sent' \in Seq([status : {"Ok", "Error"}, sgl : Seq(Packets)])
             /\ st.held \in Nat
<1> DEFINE a == payload_state_array
<1> DEFINE q == complete_queue
<1> DEFINE new == AfterSend(st)
<1> DEFINE Msg == [status : {"Ok", "Error"}, sgl : Seq(Packets)]
<1>1. /\ q' = (IF HasRoom THEN Append(q, Entry(st)) ELSE q)
      /\ free_memory' = (IF Freed(st) THEN free_memory + 1 ELSE free_memory)
      /\ lost' = (IF HasRoom \/ Freed(st) THEN lost ELSE lost + 1)
      /\ rxreorder_buffered_packet_count' =
           Max({rxreorder_buffered_packet_count - st.packet_count, 0})
      /\ Changed(a, a', i, new)
      /\ rxreorder_current_index' = AdvanceStateArrayIndex(i)
      /\ sent' = Append(sent, [status |-> Entry(st).status, sgl |-> Sgl(st)])
  BY DEF SendPayload, DecreasePacketWindowCount, Changed
<1>2. /\ a \in Arrays(arrived) /\ q \in Seq(Notes) /\ Len(q) <= QueueSize
      /\ arrived \subseteq Packets /\ free_memory \in Nat /\ lost \in Nat
      /\ sent \in Seq(Msg)
      /\ rxreorder_buffered_packet_count = CountTotal(a)
  BY DEF IInv, Kinds, Balance
<1>3. /\ st.owner = TRUE /\ st.held \in Nat /\ (st.state = "Error" => st.held = 0)
      /\ Entry(st) \in Notes /\ Entry(st).held = st.held /\ Entry(st).owner = TRUE
      /\ [status |-> Entry(st).status, sgl |-> Sgl(st)] \in Msg
  BY <1>2, EntryFacts
<1>4. /\ new \in SlotStates(arrived)
      /\ HeldIn(new) = 0 /\ MemoryIn(new) = 0 /\ ListsIn(new) = 0 /\ CountIn(new) = 0
  BY AfterSendFacts DEF SlotStates
<1> HIDE DEF new
<1>5. /\ a' \in Arrays(arrived)
      /\ \A j \in Slots : a'[j] = IF j = i THEN new ELSE a[j]
      /\ HeldTotal(a') = HeldTotal(a) - HeldIn(a[i]) + HeldIn(new)
      /\ MemoryTotal(a') = MemoryTotal(a) - MemoryIn(a[i]) + MemoryIn(new)
      /\ ListsTotal(a') = ListsTotal(a) - ListsIn(a[i]) + ListsIn(new)
      /\ CountTotal(a') = CountTotal(a) - CountIn(a[i]) + CountIn(new)
  <2>1. arrived \subseteq arrived OBVIOUS
  <2> QED BY <1>1, <1>2, <1>4, <2>1, SlotChanged
<1>6. /\ HeldTotal(a) \in Nat /\ MemoryTotal(a) \in Nat
      /\ ListsTotal(a) \in Nat /\ CountTotal(a) \in Nat
      /\ HeldIn(a[i]) \in Nat /\ MemoryIn(a[i]) \in Nat /\ ListsIn(a[i]) \in Nat
      /\ CountIn(a[i]) \in Nat /\ CountIn(a[i]) <= CountTotal(a)
  BY <1>2, SumsAreNumbers
<1>7. /\ HeldTotal(a') = HeldTotal(a) - HeldIn(a[i])
      /\ MemoryTotal(a') = MemoryTotal(a) - MemoryIn(a[i])
      /\ ListsTotal(a') = ListsTotal(a) - ListsIn(a[i])
      /\ CountTotal(a') = CountTotal(a) - CountIn(a[i])
  BY <1>4, <1>5, <1>6
<1>8. \A j \in Slots : CountIn(a'[j]) = IF j = i THEN 0 ELSE CountIn(a[j]) BY <1>4, <1>5
<1>9. rxreorder_buffered_packet_count' = CountTotal(a')
  <2> DEFINE x == CountTotal(a) - CountIn(a[i])
  <2>1. x \in Nat BY <1>6
  <2>2. rxreorder_buffered_packet_count' = Max({x, 0}) BY <1>1, <1>2
  <2>3. x = CountTotal(a') BY <1>7
  <2> HIDE DEF x
  <2> QED BY <2>1, <2>2, <2>3, MaxWithZero
<1>10. rxreorder_current_index' \in Slots BY <1>1, IndexFacts
<1>11. sent' \in Seq(Msg)
  <2> HIDE DEF Msg
  <2> QED BY <1>1, <1>2, <1>3
<1>12. HeldOf(q) \in Nat /\ OwnedOf(q) \in Nat BY <1>2, QueueSums
<1>13. CASE HasRoom
  <2>1. Freed(st) = FALSE BY <1>13 DEF Freed
  <2>2. q' = Append(q, Entry(st)) /\ free_memory' = free_memory /\ lost' = lost
    BY <1>1, <1>13, <2>1
  <2>3. /\ q' \in Seq(Notes) /\ Len(q') = Len(q) + 1 /\ HeldOf(q') = HeldOf(q) + st.held
        /\ OwnedOf(q') = OwnedOf(q) + 1
    BY <1>2, <1>3, <2>2, QueueAppended
  <2>4. Len(q') <= QueueSize
    <3>1. Len(q) < QueueSize /\ Len(q) \in Nat /\ QueueSize \in Nat
      BY <1>2, <1>13, Constants DEF HasRoom
    <3> QED BY <2>3, <3>1
  <2>5. free_memory' + lost' + OwnedOf(q') = free_memory + lost + OwnedOf(q) + 1
    BY <1>2, <1>12, <2>2, <2>3
  <2>6. OwnedOf(q') \in Nat BY <1>12, <2>3
  <2> QED BY <1>2, <1>3, <1>5, <1>6, <1>7, <1>8, <1>9, <1>10, <1>11, <1>12,
             <2>1, <2>2, <2>3, <2>4, <2>5, <2>6
<1>14. CASE ~ HasRoom /\ st.state = "Complete"
  <2>1. Freed(st) = TRUE BY <1>14 DEF Freed
  <2>2. q' = q /\ free_memory' = free_memory + 1 /\ lost' = lost BY <1>1, <1>14, <2>1
  <2>3. free_memory' + lost' + OwnedOf(q') = free_memory + lost + OwnedOf(q) + 1
    BY <1>2, <1>12, <2>2
  <2>4. free_memory' \in Nat BY <1>2, <2>2
  <2> QED BY <1>2, <1>3, <1>5, <1>6, <1>7, <1>8, <1>9, <1>10, <1>11, <1>12,
             <2>1, <2>2, <2>3, <2>4
<1>15. CASE ~ HasRoom /\ st.state = "Error"
  <2>1. Freed(st) = FALSE BY <1>15 DEF Freed
  <2>2. q' = q /\ free_memory' = free_memory /\ lost' = lost + 1 BY <1>1, <1>15, <2>1
  <2>3. free_memory' + lost' + OwnedOf(q') = free_memory + lost + OwnedOf(q) + 1
    BY <1>2, <1>12, <2>2
  <2>4. lost' \in Nat BY <1>2, <2>2
  <2>5. HeldOf(q') = HeldOf(q) + st.held BY <1>3, <1>12, <1>15, <2>2
  <2> QED BY <1>2, <1>3, <1>5, <1>6, <1>7, <1>8, <1>9, <1>10, <1>11, <1>12,
             <2>1, <2>2, <2>3, <2>4, <2>5
<1> QED BY <1>13, <1>14, <1>15

(* The payload the window is at is sent.                                   *)
LEMMA SendReadyStep ==
  ASSUME IInv, SendReady
  PROVE  IInv'
<1> DEFINE i == rxreorder_current_index
<1> DEFINE a == payload_state_array
<1> DEFINE q == complete_queue
<1> DEFINE st == a[i]
<1>1. /\ pc = "send" /\ IsReady(st) /\ SendPayload(i, st)
      /\ posted' = (IF Freed(st) THEN posted + st.held ELSE posted)
      /\ UNCHANGED <<arrived, total_packet_count, back_pressure, free_lists,
                     application, pc, flushing, starved>>
  BY DEF SendReady
<1>2. i \in Slots /\ a \in Arrays(arrived) BY DEF IInv, Kinds
<1>3. st \in Sound(arrived) /\ st.state \in {"Complete", "Error"}
  BY <1>1, <1>2 DEF IsReady, Arrays, SlotStates
<1>4. st.owner = TRUE BY <1>3, SoundFacts DEF Sound
<1>5. /\ HeldIn(st) = st.held /\ MemoryIn(st) = 1 /\ CountIn(st) = st.packet_count
      /\ ListsIn(st) = 0
  BY <1>3, <1>4, OwnedParts DEF Pending
<1>6. /\ a' \in Arrays(arrived)
      /\ HeldTotal(a) \in Nat /\ HeldTotal(a') = HeldTotal(a) - HeldIn(a[i])
      /\ MemoryTotal(a) \in Nat /\ MemoryTotal(a') = MemoryTotal(a) - MemoryIn(a[i])
      /\ ListsTotal(a) \in Nat /\ ListsTotal(a') = ListsTotal(a) - ListsIn(a[i])
      /\ rxreorder_buffered_packet_count' = CountTotal(a')
      /\ rxreorder_current_index' \in Slots
      /\ q' \in Seq(Notes) /\ Len(q') <= QueueSize
      /\ HeldOf(q) \in Nat /\ OwnedOf(q) \in Nat /\ OwnedOf(q') \in Nat
      /\ HeldOf(q') = (IF Freed(st) THEN HeldOf(q) ELSE HeldOf(q) + st.held)
      /\ free_memory' \in Nat /\ lost' \in Nat
      /\ free_memory' + lost' + OwnedOf(q') = free_memory + lost + OwnedOf(q) + 1
      /\ sent' \in Seq([status : {"Ok", "Error"}, sgl : Seq(Packets)])
      /\ st.held \in Nat
  BY <1>1, <1>2, <1>3, <1>5, SendFacts
<1>7. /\ posted \in Nat /\ free_lists \in Nat /\ free_memory \in Nat /\ lost \in Nat
  BY NumbersOfKinds
<1>8. posted' \in Nat
  <2> DEFINE h == st.held
  <2>1. h \in Nat /\ posted \in Nat BY <1>6, <1>7
  <2>2. posted' = posted + h \/ posted' = posted BY <1>1
  <2> HIDE DEF h
  <2> QED BY <2>1, <2>2
<1>9. Kinds' BY <1>1, <1>6, <1>8 DEF IInv, Kinds, application, flushing
<1>10. Flushed' BY <1>1 DEF Flushed
<1>11. posted' + HeldTotal(a') + HeldOf(q') = posted + HeldTotal(a) + HeldOf(q)
  <2> DEFINE x == HeldTotal(a)
  <2> DEFINE xx == HeldTotal(a')
  <2> DEFINE y == HeldOf(q)
  <2> DEFINE yy == HeldOf(q')
  <2> DEFINE h == st.held
  <2> DEFINE p == posted'
  <2>1. x \in Nat /\ y \in Nat /\ h \in Nat /\ xx = x - h BY <1>5, <1>6
  <2>2. \/ p = posted + h /\ yy = y
        \/ p = posted /\ yy = y + h
    BY <1>1, <1>6
  <2> HIDE DEF x, xx, y, yy, h, p
  <2>3. p + xx + yy = posted + x + y BY <1>7, <2>1, <2>2
  <2> QED BY <2>3 DEF x, xx, y, yy, p
<1>12. free_memory' + lost' + MemoryTotal(a') + OwnedOf(q')
         = free_memory + lost + MemoryTotal(a) + OwnedOf(q)
  <2> DEFINE x == MemoryTotal(a)
  <2> DEFINE xx == MemoryTotal(a')
  <2> DEFINE y == OwnedOf(q)
  <2> DEFINE yy == OwnedOf(q')
  <2> DEFINE f == free_memory'
  <2> DEFINE l == lost'
  <2>1. x \in Nat /\ y \in Nat /\ yy \in Nat /\ f \in Nat /\ l \in Nat
        /\ xx = x - 1 /\ f + l + yy = free_memory + lost + y + 1
    BY <1>5, <1>6
  <2> HIDE DEF x, xx, y, yy, f, l
  <2>2. f + l + xx + yy = free_memory + lost + x + y BY <1>7, <2>1
  <2> QED BY <2>2 DEF x, xx, y, yy, f, l
<1>13. free_lists' + ListsTotal(a') = free_lists + ListsTotal(a)
  <2>1. free_lists' = free_lists /\ ListsTotal(a') = ListsTotal(a) BY <1>1, <1>5, <1>6
  <2> QED BY <2>1
<1>14. held_by_app' = held_by_app /\ free_buffer_queue' = free_buffer_queue
  BY <1>1 DEF application
<1>15. rxreorder_buffered_packet_count' = CountTotal(a') BY <1>6
<1> QED BY <1>9, <1>10, <1>11, <1>12, <1>13, <1>14, <1>15, Conserved

(* It is not ready: a flush begins when the window is full.                *)
LEMMA SendEndsStep ==
  ASSUME IInv, SendEnds
  PROVE  IInv'
<1>1. /\ pc' = (IF WindowFull THEN "flush" ELSE "poll")
      /\ starved' = (starved \/ WindowFull)
      /\ flush_idx' = rxreorder_current_index /\ flush_start' = rxreorder_current_index
      /\ UNCHANGED <<network, window, back_pressure, pools, complete_queue, application,
                     sent, lost>>
  BY DEF SendEnds
<1>2. Kinds' /\ Balance'
  <2>1. starved' \in BOOLEAN BY <1>1 DEF IInv, Kinds, WindowFull
  <2> QED BY <1>1, <2>1 DEF IInv, Kinds, Balance, network, window, pools, application
<1>3. Flushed'
  <2>1. rxreorder_current_index \in Slots /\ Window \in Nat
    BY Constants DEF IInv, Kinds
  <2>2. Visited(flush_start, flush_idx)' = {} BY <1>1, <2>1, Round
  <2>3. pc' = "poll" => rxreorder_buffered_packet_count < Window
    <3>1. rxreorder_buffered_packet_count \in Nat BY NumbersOfKinds DEF IInv, Balance
    <3> QED BY <1>1, <2>1, <3>1 DEF WindowFull
  <2> QED BY <1>1, <2>2, <2>3 DEF Flushed, window
<1> QED BY <1>2, <1>3 DEF IInv

(* The slot a flush is at is dealt with, and it goes on or is over.        *)
LEMMA FlushedOn ==
  ASSUME IInv, pc = "flush", FlushNext, payload_state_array' \in Arrays(arrived),
         \A j \in Slots : CountIn(payload_state_array'[j])
                            = IF j = flush_idx THEN 0 ELSE CountIn(payload_state_array[j]),
         rxreorder_buffered_packet_count' = CountTotal(payload_state_array')
  PROVE  Flushed' /\ flush_idx' \in Slots
<1> DEFINE b == payload_state_array'
<1> DEFINE n == AdvanceStateArrayIndex(flush_idx)
<1>1. /\ flush_idx' = n /\ flush_start' = flush_start
      /\ pc' = IF n = flush_start THEN "poll" ELSE "flush"
  BY DEF FlushNext
<1>2. flush_idx \in Slots /\ flush_start \in Slots /\ n \in Slots
  BY IndexFacts DEF IInv, Kinds
<1>3. /\ n = flush_start => Slots \subseteq Visited(flush_start, flush_idx) \cup {flush_idx}
      /\ n # flush_start =>
           Visited(flush_start, n) \subseteq Visited(flush_start, flush_idx) \cup {flush_idx}
      /\ Visited(flush_start, flush_idx) \subseteq Slots
  BY <1>2, Round
<1>4. \A j \in Visited(flush_start, flush_idx) \cup {flush_idx} : CountIn(b[j]) = 0
  BY <1>2, <1>3 DEF IInv, Flushed
<1> HIDE DEF n
<1>5. CASE n = flush_start
  <2>1. \A j \in Slots : CountIn(b[j]) = 0 BY <1>3, <1>4, <1>5
  <2> DEFINE g == [j \in Slots |-> CountIn(b[j])]
  <2>2. g \in [Slots -> Nat] /\ \A j \in Slots : g[j] = 0 BY <2>1
  <2>3. CountTotal(b) = Total(g) BY DEF CountTotal
  <2> HIDE DEF g
  <2>4. CountTotal(b) = 0 BY <2>2, <2>3, TotalZero
  <2>5. rxreorder_buffered_packet_count' < Window BY <2>4, Constants
  <2> QED BY <1>1, <1>2, <1>5, <2>5 DEF Flushed
<1>6. CASE n # flush_start
  <2>1. \A j \in Visited(flush_start, n) : CountIn(b[j]) = 0 BY <1>3, <1>4, <1>6
  <2> QED BY <1>1, <1>2, <1>6, <2>1 DEF Flushed
<1> QED BY <1>5, <1>6

(* A flush finds nothing to send in a slot.                                *)
LEMMA FlushSkipsStep ==
  ASSUME IInv, FlushSkips
  PROVE  IInv'
<1> DEFINE a == payload_state_array
<1> DEFINE st == a[flush_idx]
<1>1. /\ pc = "flush" /\ ~IsPending(st) /\ ~IsReady(st) /\ FlushNext
      /\ UNCHANGED <<posted, window, pools, complete_queue, sent, lost>>
      /\ UNCHANGED <<arrived, total_packet_count, back_pressure, application,
                     flush_start, starved>>
      /\ pc' \in {"poll", "flush"}
  BY DEF FlushSkips, FlushNext
<1>2. flush_idx \in Slots /\ a \in Arrays(arrived) BY DEF IInv, Kinds
<1>3. CountIn(st) = 0
  <2>1. CASE st = None BY <2>1 DEF CountIn
  <2>2. CASE st # None
    <3>1. st \in Sound(arrived) BY <1>2, <2>2 DEF Arrays, SlotStates
    <3>2. st.state \in States BY <3>1, SoundFacts
    <3>3. st.state \in {"Idle", "Ignore"}
      BY <1>1, <2>2, <3>2 DEF States, IsPending, IsReady, Pending
    <3> QED BY <3>1, <3>3, FreeParts
  <2> QED BY <2>1, <2>2
<1>4. a' = a /\ rxreorder_buffered_packet_count' = CountTotal(a')
  BY <1>1 DEF window, IInv, Balance
<1>5. Flushed' /\ flush_idx' \in Slots
  <2>1. \A j \in Slots : CountIn(a'[j]) = IF j = flush_idx THEN 0 ELSE CountIn(a[j])
    BY <1>3, <1>4
  <2>2. a' \in Arrays(arrived) BY <1>2, <1>4
  <2> QED BY <1>1, <1>4, <2>1, <2>2, FlushedOn
<1>6. Kinds' BY <1>1, <1>5 DEF IInv, Kinds, window, pools, application
<1>7. Balance' BY <1>1 DEF IInv, Balance, window, pools, application
<1> QED BY <1>5, <1>6, <1>7 DEF IInv

(* A flush has made room.                                                  *)
LEMMA FlushEndsStep ==
  ASSUME IInv, FlushEnds
  PROVE  IInv'
<1>1. /\ ~ WindowFull /\ pc' = "poll"
      /\ UNCHANGED <<network, window, back_pressure, pools, complete_queue, application,
                     flushing, history>>
  BY DEF FlushEnds
<1>2. Kinds' /\ Balance'
  BY <1>1 DEF IInv, Kinds, Balance, network, window, pools, application, flushing, history
<1>3. rxreorder_buffered_packet_count < Window
  <2>1. rxreorder_buffered_packet_count \in Nat /\ Window \in Nat
    BY NumbersOfKinds, Constants DEF IInv, Balance
  <2> QED BY <1>1, <2>1 DEF WindowFull
<1>4. Flushed' BY <1>1, <1>3 DEF Flushed, window
<1> QED BY <1>2, <1>4 DEF IInv

(* A flush sends a payload, as an error when packets are missing.          *)
LEMMA FlushSendsStep ==
  ASSUME IInv, FlushSends
  PROVE  IInv'
<1> DEFINE i == flush_idx
<1> DEFINE a == payload_state_array
<1> DEFINE q == complete_queue
<1> DEFINE st == a[i]
<1> DEFINE out == IF IsPending(st) THEN Erred(st) ELSE st
<1>1. /\ pc = "flush" /\ (IsPending(st) \/ IsReady(st)) /\ SendPayload(i, out)
      /\ posted' = (IF IsPending(st) \/ Freed(out) THEN posted + st.held ELSE posted)
      /\ free_lists' = (IF IsPending(st) THEN free_lists + Len(st.runs) ELSE free_lists)
      /\ FlushNext
      /\ UNCHANGED <<arrived, total_packet_count, back_pressure, application,
                     flush_start, starved>>
      /\ pc' \in {"poll", "flush"}
  BY DEF FlushSends, FlushNext
<1>2. i \in Slots /\ a \in Arrays(arrived) BY DEF IInv, Kinds
<1>3. /\ st \in Sound(arrived)
      /\ IsPending(st) <=> st.state \in Pending
      /\ ~ IsPending(st) => st.state \in {"Complete", "Error"}
  <2>1. st \in Sound(arrived) BY <1>1, <1>2 DEF IsReady, IsPending, Arrays, SlotStates
  <2>2. st # None BY <2>1, SoundFacts
  <2> QED BY <1>1, <2>1, <2>2 DEF IsReady, IsPending
<1>4. st.owner = TRUE /\ Len(st.runs) \in Nat BY <1>3, SoundFacts DEF Sound, Pending
<1>5. /\ HeldIn(st) = st.held /\ MemoryIn(st) = 1 /\ CountIn(st) = st.packet_count
      /\ IsPending(st) => ListsIn(st) = Len(st.runs)
      /\ ~ IsPending(st) => ListsIn(st) = 0
      /\ st.held \in Nat
  BY <1>3, <1>4, OwnedParts, SoundFacts
<1>6. /\ out \in Sound(arrived) /\ out.state \in {"Complete", "Error"}
      /\ out.packet_count = st.packet_count
      /\ IsPending(st) => out.held = 0 /\ out.state = "Error"
      /\ ~ IsPending(st) => out.held = st.held
  <2>1. CASE IsPending(st)
    <3>1. /\ Erred(st) \in Sound(arrived) /\ Erred(st).state = "Error"
          /\ Erred(st).held = 0 /\ Erred(st).packet_count = st.packet_count
      BY <1>3, <2>1, ErredFacts
    <3>2. out = Erred(st) BY <2>1
    <3> HIDE DEF out
    <3> QED BY <2>1, <3>1, <3>2
  <2>2. CASE ~ IsPending(st)
    <3>1. out = st BY <2>2
    <3> QED BY <1>3, <2>2, <3>1
  <2> QED BY <2>1, <2>2
<1> HIDE DEF out
<1>7. out.packet_count = CountIn(a[i]) BY <1>5, <1>6
<1>8. /\ a' \in Arrays(arrived)
      /\ \A j \in Slots : CountIn(a'[j]) = IF j = i THEN 0 ELSE CountIn(a[j])
      /\ HeldTotal(a) \in Nat /\ HeldTotal(a') = HeldTotal(a) - HeldIn(a[i])
      /\ MemoryTotal(a) \in Nat /\ MemoryTotal(a') = MemoryTotal(a) - MemoryIn(a[i])
      /\ ListsTotal(a) \in Nat /\ ListsTotal(a') = ListsTotal(a) - ListsIn(a[i])
      /\ rxreorder_buffered_packet_count' = CountTotal(a')
      /\ rxreorder_current_index' \in Slots
      /\ q' \in Seq(Notes) /\ Len(q') <= QueueSize
      /\ HeldOf(q) \in Nat /\ OwnedOf(q) \in Nat /\ OwnedOf(q') \in Nat
      /\ HeldOf(q') = (IF Freed(out) THEN HeldOf(q) ELSE HeldOf(q) + out.held)
      /\ free_memory' \in Nat /\ lost' \in Nat
      /\ free_memory' + lost' + OwnedOf(q') = free_memory + lost + OwnedOf(q) + 1
      /\ sent' \in Seq([status : {"Ok", "Error"}, sgl : Seq(Packets)])
  BY <1>1, <1>2, <1>6, <1>7, SendFacts
<1>9. /\ posted \in Nat /\ free_lists \in Nat /\ free_memory \in Nat /\ lost \in Nat
  BY NumbersOfKinds
<1>10. posted' \in Nat /\ free_lists' \in Nat BY <1>1, <1>4, <1>5, <1>9
<1>11. Flushed' /\ flush_idx' \in Slots BY <1>1, <1>8, FlushedOn
<1>12. Kinds' BY <1>1, <1>8, <1>10, <1>11 DEF IInv, Kinds, application
<1>13. posted' + HeldTotal(a') + HeldOf(q') = posted + HeldTotal(a) + HeldOf(q)
  <2> DEFINE x == HeldTotal(a)
  <2> DEFINE xx == HeldTotal(a')
  <2> DEFINE y == HeldOf(q)
  <2> DEFINE yy == HeldOf(q')
  <2> DEFINE h == st.held
  <2> DEFINE p == posted'
  <2>1. x \in Nat /\ y \in Nat /\ h \in Nat /\ xx = x - h BY <1>5, <1>8
  <2>2. CASE IsPending(st)
    <3>1. out.held = 0 /\ Freed(out) = FALSE BY <1>6, <2>2 DEF Freed
    <3>2. p = posted + h /\ yy = y BY <1>1, <1>8, <2>2, <3>1
    <3> HIDE DEF x, xx, y, yy, h, p
    <3>3. p + xx + yy = posted + x + y BY <1>9, <2>1, <3>2
    <3> QED BY <3>3 DEF x, xx, y, yy, p
  <2>3. CASE ~ IsPending(st)
    <3>1. out.held = h BY <1>6, <2>3
    <3>2. \/ p = posted + h /\ yy = y
          \/ p = posted /\ yy = y + h
      BY <1>1, <1>8, <2>3, <3>1
    <3> HIDE DEF x, xx, y, yy, h, p
    <3>3. p + xx + yy = posted + x + y BY <1>9, <2>1, <3>2
    <3> QED BY <3>3 DEF x, xx, y, yy, p
  <2> QED BY <2>2, <2>3
<1>14. free_memory' + lost' + MemoryTotal(a') + OwnedOf(q')
         = free_memory + lost + MemoryTotal(a) + OwnedOf(q)
  <2> DEFINE x == MemoryTotal(a)
  <2> DEFINE xx == MemoryTotal(a')
  <2> DEFINE y == OwnedOf(q)
  <2> DEFINE yy == OwnedOf(q')
  <2> DEFINE f == free_memory'
  <2> DEFINE l == lost'
  <2>1. x \in Nat /\ y \in Nat /\ yy \in Nat /\ f \in Nat /\ l \in Nat
        /\ xx = x - 1 /\ f + l + yy = free_memory + lost + y + 1
    BY <1>5, <1>8
  <2> HIDE DEF x, xx, y, yy, f, l
  <2>2. f + l + xx + yy = free_memory + lost + x + y BY <1>9, <2>1
  <2> QED BY <2>2 DEF x, xx, y, yy, f, l
<1>15. free_lists' + ListsTotal(a') = free_lists + ListsTotal(a)
  <2> DEFINE x == ListsTotal(a)
  <2> DEFINE xx == ListsTotal(a')
  <2> DEFINE m == Len(st.runs)
  <2> DEFINE f == free_lists'
  <2>1. x \in Nat /\ m \in Nat BY <1>4, <1>8
  <2>2. \/ f = free_lists + m /\ xx = x - m
        \/ f = free_lists /\ xx = x - 0
    BY <1>1, <1>5, <1>8
  <2> HIDE DEF x, xx, m, f
  <2>3. f + xx = free_lists + x BY <1>9, <2>1, <2>2
  <2> QED BY <2>3 DEF x, xx, f
<1>16. held_by_app' = held_by_app /\ free_buffer_queue' = free_buffer_queue
       /\ rxreorder_buffered_packet_count' = CountTotal(a')
  BY <1>1, <1>8 DEF application
<1> QED BY <1>11, <1>12, <1>13, <1>14, <1>15, <1>16, Conserved

(* A step that moves what is counted between the pools, the queues and the *)
(* application.                                                            *)
LEMMA AppBalance ==
  ASSUME IInv, payload_state_array' = payload_state_array, free_lists' = free_lists,
         rxreorder_buffered_packet_count' = rxreorder_buffered_packet_count, lost' = lost,
         posted' \in Nat, free_memory' \in Nat,
         HeldOf(complete_queue') \in Nat, OwnedOf(complete_queue') \in Nat,
         Total(held_by_app') \in Nat, Total(free_buffer_queue') \in Nat,
         Len(held_by_app') \in Nat, Len(free_buffer_queue') \in Nat,
         posted' + HeldOf(complete_queue') + Total(held_by_app') + Total(free_buffer_queue')
           = posted + HeldOf(complete_queue) + Total(held_by_app) + Total(free_buffer_queue),
         free_memory' + OwnedOf(complete_queue') + Len(held_by_app') + Len(free_buffer_queue')
           = free_memory + OwnedOf(complete_queue) + Len(held_by_app) + Len(free_buffer_queue)
  PROVE  Balance'
<1> DEFINE a == HeldTotal(payload_state_array)
<1> DEFINE p1 == posted
<1> DEFINE p2 == posted'
<1> DEFINE q1 == HeldOf(complete_queue)
<1> DEFINE q2 == HeldOf(complete_queue')
<1> DEFINE h1 == Total(held_by_app)
<1> DEFINE h2 == Total(held_by_app')
<1> DEFINE f1 == Total(free_buffer_queue)
<1> DEFINE f2 == Total(free_buffer_queue')
<1> DEFINE b == MemoryTotal(payload_state_array)
<1> DEFINE l == lost
<1> DEFINE r1 == free_memory
<1> DEFINE r2 == free_memory'
<1> DEFINE s1 == OwnedOf(complete_queue)
<1> DEFINE s2 == OwnedOf(complete_queue')
<1> DEFINE t1 == Len(held_by_app)
<1> DEFINE t2 == Len(held_by_app')
<1> DEFINE u1 == Len(free_buffer_queue)
<1> DEFINE u2 == Len(free_buffer_queue')
<1>1. /\ a \in Nat /\ p1 \in Nat /\ q1 \in Nat /\ h1 \in Nat /\ f1 \in Nat
      /\ b \in Nat /\ l \in Nat /\ r1 \in Nat /\ s1 \in Nat /\ t1 \in Nat /\ u1 \in Nat
  BY NumbersOfKinds
<1>2. /\ p2 \in Nat /\ q2 \in Nat /\ h2 \in Nat /\ f2 \in Nat
      /\ r2 \in Nat /\ s2 \in Nat /\ t2 \in Nat /\ u2 \in Nat
  OBVIOUS
<1>3. p1 + a + q1 + h1 + f1 = PacketBuffers BY DEF IInv, Balance
<1>4. r1 + l + t1 + u1 + b + s1 = MemoryStates BY DEF IInv, Balance
<1>5. p2 + q2 + h2 + f2 = p1 + q1 + h1 + f1 OBVIOUS
<1>6. r2 + s2 + t2 + u2 = r1 + s1 + t1 + u1 OBVIOUS
<1>7. p2 + a + q2 + h2 + f2 = PacketBuffers
  <2>1. /\ a \in Nat /\ p1 \in Nat /\ q1 \in Nat /\ h1 \in Nat /\ f1 \in Nat
        /\ p2 \in Nat /\ q2 \in Nat /\ h2 \in Nat /\ f2 \in Nat
        /\ p1 + a + q1 + h1 + f1 = PacketBuffers /\ p2 + q2 + h2 + f2 = p1 + q1 + h1 + f1
    BY <1>1, <1>2, <1>3, <1>5
  <2> HIDE DEF a, p1, p2, q1, q2, h1, h2, f1, f2
  <2>2. p2 + a + q2 + h2 + f2 = a + (p2 + q2 + h2 + f2) BY <2>1
  <2>3. p1 + a + q1 + h1 + f1 = a + (p1 + q1 + h1 + f1) BY <2>1
  <2> QED BY <2>1, <2>2, <2>3
<1>8. r2 + l + t2 + u2 + b + s2 = MemoryStates
  <2>1. /\ b \in Nat /\ l \in Nat /\ r1 \in Nat /\ s1 \in Nat /\ t1 \in Nat /\ u1 \in Nat
        /\ r2 \in Nat /\ s2 \in Nat /\ t2 \in Nat /\ u2 \in Nat
        /\ r1 + l + t1 + u1 + b + s1 = MemoryStates /\ r2 + s2 + t2 + u2 = r1 + s1 + t1 + u1
    BY <1>1, <1>2, <1>4, <1>6
  <2> HIDE DEF b, l, r1, r2, s1, s2, t1, t2, u1, u2
  <2>2. r2 + l + t2 + u2 + b + s2 = l + b + (r2 + s2 + t2 + u2) BY <2>1
  <2>3. r1 + l + t1 + u1 + b + s1 = l + b + (r1 + s1 + t1 + u1) BY <2>1
  <2> QED BY <2>1, <2>2, <2>3
<1>9. free_lists' + ListsTotal(payload_state_array') = ReorderLists
      /\ rxreorder_buffered_packet_count' = CountTotal(payload_state_array')
  BY DEF IInv, Balance
<1> QED BY <1>7, <1>8, <1>9 DEF Balance

(* One step each: the application.                                         *)
LEMMA AppTakesStep ==
  ASSUME IInv, AppTakes
  PROVE  IInv'
<1> DEFINE q == complete_queue
<1> DEFINE e == Head(q)
<1> DEFINE h == held_by_app
<1>1. /\ q # <<>> /\ q' = Tail(q)
      /\ h' = (IF e.owner THEN Append(h, e.held) ELSE h)
      /\ UNCHANGED <<network, window, back_pressure, pools, free_buffer_queue, pc,
                     flushing, history>>
  BY DEF AppTakes
<1>2. /\ q \in Seq(Notes) /\ Len(q) <= QueueSize /\ h \in Seq(Nat)
      /\ QueueSize \in Nat /\ Len(q) \in Nat
  BY Constants DEF IInv, Kinds
<1>3. /\ q' \in Seq(Notes) /\ Len(q') = Len(q) - 1 /\ e \in Notes
      /\ HeldOf(q) = HeldOf(q') + e.held
      /\ OwnedOf(q) = OwnedOf(q') + IF e.owner THEN 1 ELSE 0
  BY <1>1, <1>2, QueueTaken
<1>4. e.owner \in BOOLEAN /\ e.held \in Nat /\ (~ e.owner => e.held = 0)
  BY <1>3, NoteFacts
<1>5. HeldOf(q') \in Nat /\ OwnedOf(q') \in Nat BY <1>3, QueueSums
<1>6. /\ h' \in Seq(Nat) /\ Total(h') + HeldOf(q') = Total(h) + HeldOf(q)
      /\ Len(h') + OwnedOf(q') = Len(h) + OwnedOf(q)
      /\ Total(h) \in Nat /\ Total(h') \in Nat /\ Len(h) \in Nat /\ Len(h') \in Nat
  <2> DEFINE T == Total(h)
  <2> DEFINE x == HeldOf(q')
  <2> DEFINE y == OwnedOf(q')
  <2> DEFINE n == Len(h)
  <2>1. T \in Nat /\ n \in Nat BY NumbersOfKinds
  <2>2. CASE e.owner
    <3>1. h' = Append(h, e.held) BY <1>1, <2>2
    <3>2. h' \in Seq(Nat) /\ Len(h') = n + 1 BY <1>2, <1>4, <3>1
    <3>3. Total(h') = T + e.held BY <1>2, <1>4, <3>1, TotalAppended
    <3>4. HeldOf(q) = x + e.held /\ OwnedOf(q) = y + 1 BY <1>3, <2>2
    <3>5. x \in Nat /\ y \in Nat /\ e.held \in Nat BY <1>4, <1>5
    <3> HIDE DEF T, x, y, n, e
    <3>6. /\ (T + e.held) + x = T + (x + e.held) /\ (n + 1) + y = n + (y + 1)
          /\ T + e.held \in Nat /\ n + 1 \in Nat
      BY <2>1, <3>5
    <3> QED BY <2>1, <3>2, <3>3, <3>4, <3>6 DEF T, x, y, n
  <2>3. CASE ~ e.owner
    <3>1. h' = h /\ e.held = 0 BY <1>1, <1>4, <2>3
    <3>2. HeldOf(q) = x /\ OwnedOf(q) = y BY <1>3, <1>5, <2>3, <3>1
    <3> QED BY <1>2, <2>1, <3>1, <3>2
  <2> QED BY <1>4, <2>2, <2>3
<1>7. Len(q') <= QueueSize BY <1>2, <1>3
<1>8. Kinds' BY <1>1, <1>3, <1>6, <1>7 DEF IInv, Kinds, network, window, pools, flushing, history
<1>9. Flushed' BY <1>1 DEF IInv, Flushed, window, flushing
<1>10. /\ posted' = posted /\ payload_state_array' = payload_state_array
       /\ free_buffer_queue' = free_buffer_queue /\ free_memory' = free_memory
       /\ lost' = lost /\ free_lists' = free_lists
       /\ rxreorder_buffered_packet_count' = rxreorder_buffered_packet_count
  BY <1>1 DEF network, window, pools, history
<1>11. /\ posted \in Nat /\ free_memory \in Nat /\ HeldOf(q) \in Nat /\ OwnedOf(q) \in Nat
       /\ Total(free_buffer_queue) \in Nat /\ Len(free_buffer_queue) \in Nat
  BY NumbersOfKinds
<1>12. posted' + HeldOf(q') + Total(h') + Total(free_buffer_queue')
         = posted + HeldOf(q) + Total(h) + Total(free_buffer_queue)
  <2> DEFINE x == HeldOf(q)
  <2> DEFINE xx == HeldOf(q')
  <2> DEFINE y == Total(h)
  <2> DEFINE yy == Total(h')
  <2> DEFINE z == Total(free_buffer_queue)
  <2> DEFINE w == posted
  <2>1. x \in Nat /\ xx \in Nat /\ y \in Nat /\ yy \in Nat /\ z \in Nat /\ w \in Nat
        /\ yy + xx = y + x
    BY <1>5, <1>6, <1>11
  <2> HIDE DEF x, xx, y, yy, z, w
  <2>2. w + xx + yy + z = w + x + y + z BY <2>1
  <2> QED BY <1>10, <2>2 DEF x, xx, y, yy, z, w
<1>13. free_memory' + OwnedOf(q') + Len(h') + Len(free_buffer_queue')
         = free_memory + OwnedOf(q) + Len(h) + Len(free_buffer_queue)
  <2> DEFINE x == OwnedOf(q)
  <2> DEFINE xx == OwnedOf(q')
  <2> DEFINE y == Len(h)
  <2> DEFINE yy == Len(h')
  <2> DEFINE z == Len(free_buffer_queue)
  <2> DEFINE w == free_memory
  <2>1. x \in Nat /\ xx \in Nat /\ y \in Nat /\ yy \in Nat /\ z \in Nat /\ w \in Nat
        /\ yy + xx = y + x
    BY <1>5, <1>6, <1>11
  <2> HIDE DEF x, xx, y, yy, z, w
  <2>2. w + xx + yy + z = w + x + y + z BY <2>1
  <2> QED BY <1>10, <2>2 DEF x, xx, y, yy, z, w
<1>14. /\ posted' \in Nat /\ free_memory' \in Nat
       /\ HeldOf(q') \in Nat /\ OwnedOf(q') \in Nat
       /\ Total(h') \in Nat /\ Total(free_buffer_queue') \in Nat
       /\ Len(h') \in Nat /\ Len(free_buffer_queue') \in Nat
  BY <1>5, <1>6, <1>10, <1>11
<1>15. Balance' BY <1>10, <1>12, <1>13, <1>14, AppBalance
<1> QED BY <1>8, <1>9, <1>15 DEF IInv

(* The application frees a payload.                                        *)
LEMMA AppFreesStep ==
  ASSUME IInv, NEW i \in DOMAIN held_by_app, AppFrees(i)
  PROVE  IInv'
<1> DEFINE f == free_buffer_queue
<1> DEFINE h == held_by_app
<1> DEFINE v == h[i]
<1>1. /\ Len(f) < FreeQueueSize /\ f' = Append(f, v) /\ h' = RemoveAt(h, i)
      /\ UNCHANGED <<network, window, back_pressure, pools, complete_queue, pc,
                     flushing, history>>
  BY DEF AppFrees
<1>2. /\ f \in Seq(Nat) /\ h \in Seq(Nat) /\ i \in 1 .. Len(h) /\ v \in Nat
      /\ FreeQueueSize \in Nat /\ Len(f) \in Nat /\ Len(h) \in Nat
  BY Constants DEF IInv, Kinds
<1>3. /\ h' \in Seq(Nat) /\ Len(h') = Len(h) - 1 /\ Total(h) = Total(h') + v
      /\ Len(h') \in Nat
  <2>1. /\ RemoveAt(h, i) \in Seq(Nat) /\ Len(RemoveAt(h, i)) = Len(h) - 1
        /\ Total(h) = Total(RemoveAt(h, i)) + v
    BY <1>2, TotalRemoved
  <2> QED BY <1>1, <2>1
<1>4. f' \in Seq(Nat) /\ Len(f') = Len(f) + 1 /\ Total(f') = Total(f) + v
  <2> HIDE DEF v
  <2>1. f' = Append(f, v) BY <1>1
  <2>2. Total(Append(f, v)) = Total(f) + v BY <1>2, TotalAppended
  <2> QED BY <1>2, <2>1, <2>2
<1>5. Len(f') <= FreeQueueSize /\ Len(f') \in Nat BY <1>1, <1>2, <1>4
<1>6. Total(h') \in Nat
  <2>1. h' \in [1 .. Len(h') -> Nat] BY <1>3
  <2>2. IsFiniteSet(1 .. Len(h')) BY <1>3, FS_Interval
  <2> QED BY <2>1, <2>2, UnitsFinite
<1>7. /\ posted' = posted /\ payload_state_array' = payload_state_array
      /\ complete_queue' = complete_queue /\ free_memory' = free_memory
      /\ lost' = lost /\ free_lists' = free_lists
      /\ rxreorder_buffered_packet_count' = rxreorder_buffered_packet_count
  BY <1>1 DEF network, window, pools, history
<1>8. /\ posted \in Nat /\ free_memory \in Nat /\ HeldOf(complete_queue) \in Nat
      /\ OwnedOf(complete_queue) \in Nat /\ Total(f) \in Nat /\ Total(h) \in Nat
  BY NumbersOfKinds
<1>9. Kinds' BY <1>1, <1>3, <1>4, <1>5 DEF IInv, Kinds, network, window, pools, flushing, history
<1>10. Flushed' BY <1>1 DEF IInv, Flushed, window, flushing
<1>11. posted' + HeldOf(complete_queue') + Total(h') + Total(f')
         = posted + HeldOf(complete_queue) + Total(h) + Total(f)
  <2> DEFINE w == posted
  <2> DEFINE x == HeldOf(complete_queue)
  <2> DEFINE y == Total(h)
  <2> DEFINE yy == Total(h')
  <2> DEFINE z == Total(f)
  <2> DEFINE zz == Total(f')
  <2>1. w \in Nat /\ x \in Nat /\ y \in Nat /\ yy \in Nat /\ z \in Nat /\ v \in Nat
        /\ y = yy + v /\ zz = z + v
    BY <1>2, <1>3, <1>4, <1>6, <1>8
  <2> HIDE DEF v, w, x, y, yy, z, zz
  <2>2. w + x + yy + zz = w + x + y + z BY <2>1
  <2> QED BY <1>7, <2>2 DEF w, x, y, yy, z, zz
<1>12. free_memory' + OwnedOf(complete_queue') + Len(h') + Len(f')
         = free_memory + OwnedOf(complete_queue) + Len(h) + Len(f)
  <2> DEFINE w == free_memory
  <2> DEFINE x == OwnedOf(complete_queue)
  <2> DEFINE y == Len(h)
  <2> DEFINE yy == Len(h')
  <2> DEFINE z == Len(f)
  <2> DEFINE zz == Len(f')
  <2>1. w \in Nat /\ x \in Nat /\ y \in Nat /\ yy \in Nat /\ z \in Nat
        /\ yy = y - 1 /\ zz = z + 1
    BY <1>2, <1>3, <1>4, <1>8
  <2> HIDE DEF w, x, y, yy, z, zz
  <2>2. w + x + yy + zz = w + x + y + z BY <2>1
  <2> QED BY <1>7, <2>2 DEF w, x, y, yy, z, zz
<1>13. /\ posted' \in Nat /\ free_memory' \in Nat
       /\ HeldOf(complete_queue') \in Nat /\ OwnedOf(complete_queue') \in Nat
       /\ Total(h') \in Nat /\ Total(f') \in Nat
       /\ Len(h') \in Nat /\ Len(f') \in Nat
  <2>1. Total(f') \in Nat BY <1>2, <1>4, <1>8
  <2>2. /\ posted' \in Nat /\ free_memory' \in Nat /\ HeldOf(complete_queue') \in Nat
        /\ OwnedOf(complete_queue') \in Nat
    BY <1>7, <1>8
  <2> QED BY <1>3, <1>5, <1>6, <2>1, <2>2
<1>14. Balance' BY <1>7, <1>11, <1>12, <1>13, AppBalance
<1> QED BY <1>9, <1>10, <1>14 DEF IInv

(* PollThread takes back what the application has freed.                   *)
LEMMA PollFreeStep ==
  ASSUME IInv, RxPollFreeBuffer
  PROVE  IInv'
<1> DEFINE f == free_buffer_queue
<1> DEFINE h == held_by_app
<1>1. /\ posted' = posted + Total(f) /\ free_memory' = free_memory + Len(f) /\ f' = <<>>
      /\ UNCHANGED <<arrived, total_packet_count, window, back_pressure, free_lists,
                     complete_queue, held_by_app, pc, flushing, history>>
  BY DEF RxPollFreeBuffer
<1>2. /\ posted \in Nat /\ free_memory \in Nat /\ HeldOf(complete_queue) \in Nat
      /\ OwnedOf(complete_queue) \in Nat /\ Total(f) \in Nat /\ Total(h) \in Nat
      /\ Len(f) \in Nat /\ Len(h) \in Nat
  BY NumbersOfKinds
<1>3. posted' \in Nat /\ free_memory' \in Nat BY <1>1, <1>2
<1>4. Total(f') = 0 /\ Len(f') = 0 /\ f' \in Seq(Nat) BY <1>1, TotalOfNone
<1>5. /\ payload_state_array' = payload_state_array /\ h' = h
      /\ complete_queue' = complete_queue
      /\ lost' = lost /\ free_lists' = free_lists
      /\ rxreorder_buffered_packet_count' = rxreorder_buffered_packet_count
  BY <1>1 DEF window, history
<1>6. Len(f') <= FreeQueueSize
  <2>1. FreeQueueSize \in Nat BY Constants
  <2> QED BY <1>4, <2>1
<1>7. Kinds' BY <1>1, <1>3, <1>4, <1>6 DEF IInv, Kinds, window, flushing, history
<1>8. Flushed' BY <1>1 DEF IInv, Flushed, window, flushing
<1>9. posted' + HeldOf(complete_queue') + Total(h') + Total(f')
        = posted + HeldOf(complete_queue) + Total(h) + Total(f)
  <2> DEFINE w == posted
  <2> DEFINE ww == posted'
  <2> DEFINE x == HeldOf(complete_queue)
  <2> DEFINE y == Total(h)
  <2> DEFINE z == Total(f)
  <2> DEFINE zz == Total(f')
  <2>1. w \in Nat /\ x \in Nat /\ y \in Nat /\ z \in Nat /\ ww = w + z /\ zz = 0
    BY <1>1, <1>2, <1>4
  <2> HIDE DEF w, ww, x, y, z, zz
  <2>2. ww + x + y + zz = w + x + y + z BY <2>1
  <2> QED BY <1>5, <2>2 DEF w, ww, x, y, z, zz
<1>10. free_memory' + OwnedOf(complete_queue') + Len(h') + Len(f')
         = free_memory + OwnedOf(complete_queue) + Len(h) + Len(f)
  <2> DEFINE w == free_memory
  <2> DEFINE ww == free_memory'
  <2> DEFINE x == OwnedOf(complete_queue)
  <2> DEFINE y == Len(h)
  <2> DEFINE z == Len(f)
  <2> DEFINE zz == Len(f')
  <2>1. w \in Nat /\ x \in Nat /\ y \in Nat /\ z \in Nat /\ ww = w + z /\ zz = 0
    BY <1>1, <1>2, <1>4
  <2> HIDE DEF w, ww, x, y, z, zz
  <2>2. ww + x + y + zz = w + x + y + z BY <2>1
  <2> QED BY <1>5, <2>2 DEF w, ww, x, y, z, zz
<1>11. /\ posted' \in Nat /\ free_memory' \in Nat
       /\ HeldOf(complete_queue') \in Nat /\ OwnedOf(complete_queue') \in Nat
       /\ Total(h') \in Nat /\ Total(f') \in Nat
       /\ Len(h') \in Nat /\ Len(f') \in Nat
  BY <1>2, <1>3, <1>4, <1>5
<1>12. Balance' BY <1>5, <1>9, <1>10, <1>11, AppBalance
<1> QED BY <1>7, <1>8, <1>12 DEF IInv

-----------------------------------------------------------------------------
(***************************************************************************)
(* The order of payloads: while no pool runs out and the window does not   *)
(* fill up, the state in each slot follows from the packets that have      *)
(* arrived, and the first payload that is not complete has the slot of     *)
(* rxreorder_current_index.                                                *)
(***************************************************************************)
(* x is q times n, and r.                                                  *)
Divides(x, n, q, r) ==
  /\ n \in Nat \ {0} /\ q \in Int /\ r \in Int /\ 0 <= r /\ r < n
  /\ x = (n * q) + r

(* Dividing has one result ...                                             *)
LEMMA Remainder ==
  ASSUME NEW x, NEW n, NEW q, NEW r, Divides(x, n, q, r)
  PROVE  x % n = r
BY DEF Divides

(* ... and every number has it.                                            *)
LEMMA Division ==
  ASSUME NEW x \in Nat, NEW n \in Nat \ {0}
  PROVE  \E q : Divides(x, n, q, x % n)
<1> DEFINE q == x \div n
<1> DEFINE r == x % n
<1>1. q \in Int /\ r \in 0 .. n - 1 /\ x = (n * q) + r OBVIOUS
<1>2. r \in Int /\ 0 <= r /\ r < n
  <2> HIDE DEF r, q
  <2> QED BY <1>1
<1>3. Divides(x, n, q, r)
  <2> HIDE DEF r, q
  <2> QED BY <1>1, <1>2 DEF Divides
<1> QED BY <1>3

(* The remainder counts up and wraps, ...                                  *)
LEMMA RemainderNext ==
  ASSUME NEW x \in Nat, NEW n \in Nat \ {0}
  PROVE  (x + 1) % n = IF x % n = n - 1 THEN 0 ELSE (x % n) + 1
<1> DEFINE r == x % n
<1>1. PICK q : Divides(x, n, q, r) BY Division
<1> HIDE DEF r
<1>2. q \in Int /\ r \in Int /\ 0 <= r /\ r < n /\ x = (n * q) + r BY <1>1 DEF Divides
<1>3. n * (q + 1) = (n * q) + n /\ n * q \in Int BY <1>2
<1>4. CASE r = n - 1
  <2>1. Divides(x + 1, n, q + 1, 0) BY <1>2, <1>3, <1>4 DEF Divides
  <2> QED BY <1>4, <2>1, Remainder DEF r
<1>5. CASE r # n - 1
  <2>1. Divides(x + 1, n, q, r + 1) BY <1>2, <1>3, <1>5 DEF Divides
  <2> QED BY <1>5, <2>1, Remainder DEF r
<1> QED BY <1>4, <1>5

(* ... is the same one round later, ...                                    *)
LEMMA RemainderRound ==
  ASSUME NEW x \in Nat, NEW n \in Nat \ {0}
  PROVE  (x + n) % n = x % n
<1> DEFINE r == x % n
<1>1. PICK q : Divides(x, n, q, r) BY Division
<1> HIDE DEF r
<1>2. q \in Int /\ r \in Int /\ 0 <= r /\ r < n /\ x = (n * q) + r BY <1>1 DEF Divides
<1>3. n * (q + 1) = (n * q) + n /\ n * q \in Int BY <1>2
<1>4. Divides(x + n, n, q + 1, r) BY <1>2, <1>3 DEF Divides
<1> QED BY <1>4, Remainder DEF r

(* ... differs between numbers less than a round apart, ...                *)
LEMMA RemaindersDiffer ==
  ASSUME NEW x \in Nat, NEW y \in Nat, NEW n \in Nat \ {0}, x < y, y < x + n
  PROVE  y % n # x % n
<1> SUFFICES ASSUME y % n = x % n PROVE FALSE OBVIOUS
<1> DEFINE r == x % n
<1>1. PICK q : Divides(x, n, q, r) BY Division
<1>2. PICK u : Divides(y, n, u, r) BY Division
<1> HIDE DEF r
<1>3. q \in Int /\ u \in Int /\ r \in Int /\ x = (n * q) + r /\ y = (n * u) + r
  BY <1>1, <1>2 DEF Divides
<1>4. n * q \in Int /\ n * u \in Int /\ n * (q + 1) = (n * q) + n BY <1>3
<1>5. n * q < n * u /\ n * u < n * (q + 1) BY <1>3, <1>4
<1>6. CASE u <= q 
  <2>1. n * u <= n * q BY <1>3, <1>6
  <2> QED BY <1>4, <1>5, <2>1
<1>7. CASE u >= q + 1
  <2>1. n * (q + 1) <= n * u BY <1>3, <1>7
  <2> QED BY <1>4, <1>5, <2>1
<1> QED BY <1>3, <1>6, <1>7

(* ... and is that of the number taken modulo a multiple of the divisor.   *)
LEMMA RemainderTwice ==
  ASSUME NEW x \in Nat, NEW n \in Nat \ {0}, NEW b \in Nat \ {0}, n % b = 0
  PROVE  (x % n) % b = x % b
<1> DEFINE r == x % n
<1> DEFINE v == r % b
<1>1. PICK q : Divides(x, n, q, r) BY Division
<1>2. PICK c : Divides(n, b, c, 0) BY Division
<1>3. r \in Nat OBVIOUS
<1> HIDE DEF r
<1>4. PICK u : Divides(r, b, u, v) BY <1>3, Division
<1> HIDE DEF v
<1>5. /\ q \in Int /\ c \in Int /\ u \in Int /\ v \in Int /\ 0 <= v /\ v < b
      /\ x = (n * q) + r /\ n = (b * c) + 0 /\ r = (b * u) + v
  BY <1>1, <1>2, <1>4 DEF Divides
<1> DEFINE d == c * q
<1>6. d \in Int BY <1>5
<1>7. n * q = b * d
  <2>1. b * c \in Int /\ (b * c) * q = b * (c * q) BY <1>5
  <2>2. n = b * c BY <1>5, <2>1
  <2> QED BY <2>1, <2>2
<1> HIDE DEF d
<1>8. b * (d + u) = (b * d) + (b * u) /\ b * d \in Int /\ b * u \in Int BY <1>5, <1>6
<1>9. x = (b * (d + u)) + v BY <1>5, <1>7, <1>8
<1>10. Divides(x, b, d + u, v) BY <1>5, <1>6, <1>9 DEF Divides
<1> QED BY <1>10, Remainder DEF v, r

(* Between any two runs, not only neighbours, there is a gap.              *)
LEMMA Apart ==
  ASSUME NEW runs \in RunLists, Maximal(runs),
         NEW r \in 1 .. Len(runs), NEW q \in 1 .. Len(runs), r < q
  PROVE  Top(runs[q]) > Bottom(runs[r]) + 1
<1> DEFINE N == Len(runs)
<1> DEFINE Bad == {i \in 1 .. N : i > r /\ ~ (Top(runs[i]) > Bottom(runs[r]) + 1)}
<1>1. N \in Nat /\ runs \in [1 .. N -> Run] BY LenProperties DEF RunLists
<1>2. \A i \in 1 .. N : /\ Top(runs[i]) \in Nat /\ Bottom(runs[i]) \in Nat
                        /\ Len(runs[i]) \in Nat \ {0} /\ DOMAIN runs[i] = 1 .. Len(runs[i])
                        /\ Bottom(runs[i]) = runs[i][Len(runs[i])].sequence
  BY <1>1, RunFacts
<1>3. \A i \in 1 .. N : Bottom(runs[i]) = Top(runs[i]) + Len(runs[i]) - 1
  <2> TAKE i \in 1 .. N
  <2>1. Len(runs[i]) \in 1 .. Len(runs[i]) BY <1>2
  <2>2. runs[i][Len(runs[i])].sequence = Top(runs[i]) + Len(runs[i]) - 1
    BY <1>1, <1>2, <2>1 DEF Maximal
  <2> QED BY <1>2, <2>2
<1>4. \A i \in 1 .. N - 1 : Top(runs[i + 1]) > Bottom(runs[i]) + 1 BY DEF Maximal
<1>5. ASSUME Bad # {} PROVE FALSE
  <2>1. Bad \subseteq Nat OBVIOUS
  <2>2. PICK m \in Bad : \A y \in Bad : ~ (<<y, m>> \in OpToRel(<, Nat))
    BY <1>5, <2>1, NatLessThanWellFounded, WFMin
  <2>3. \A y \in Bad : ~ (y < m) BY <2>1, <2>2 DEF OpToRel
  <2>4. m \in 1 .. N /\ m > r /\ ~ (Top(runs[m]) > Bottom(runs[r]) + 1) OBVIOUS
  <2>5. m - 1 \notin Bad BY <1>1, <2>3, <2>4
  <2>6. m - 1 \in 1 .. N - 1 /\ m - 1 \in 1 .. N /\ (m - 1) + 1 = m BY <1>1, <2>4
  <2> DEFINE l == m - 1
  <2>7. Top(runs[m]) > Bottom(runs[l]) + 1
    <3>1. l \in 1 .. N - 1 /\ l + 1 = m BY <2>6
    <3> HIDE DEF l
    <3> QED BY <1>4, <3>1
  <2>8. l = r \/ Top(runs[l]) > Bottom(runs[r]) + 1 BY <2>4, <2>5, <2>6
  <2>9. l \in 1 .. N BY <2>6
  <2>10. m \in 1 .. N /\ r \in 1 .. N OBVIOUS
  <2> HIDE DEF l, Bad
  <2> DEFINE bl == Bottom(runs[l])
  <2> DEFINE tl == Top(runs[l])
  <2> DEFINE br == Bottom(runs[r])
  <2> DEFINE tm == Top(runs[m])
  <2>11. tl \in Nat /\ bl \in Nat /\ br \in Nat /\ tm \in Nat BY <1>2, <2>9, <2>10
  <2>12. bl >= tl
    <3>1. Len(runs[l]) \in Nat \ {0} /\ bl = tl + Len(runs[l]) - 1 BY <1>2, <1>3, <2>9
    <3> HIDE DEF bl, tl
    <3> QED BY <2>11, <3>1
  <2>13. tm > bl + 1 /\ ~ (tm > br + 1) BY <2>4, <2>7
  <2>14. bl = br \/ tl > br + 1 BY <2>8
  <2> HIDE DEF bl, tl, br, tm
  <2> QED BY <2>11, <2>12, <2>13, <2>14
<1>6. q \notin Bad BY <1>5
<1> QED BY <1>6

(* Runs of a payload have all of its packets when they have as many, and   *)
(* then they are one run with every packet in its place.                   *)
LEMMA RunsOfPayload ==
  ASSUME NEW runs \in RunLists, Maximal(runs), NEW k \in Payloads,
         \A x : Has(runs, x) => x \in PacketsOf(k)
  PROVE  /\ Received(runs) \in Nat /\ Received(runs) <= Sizes[k]
         /\ Received(runs) = Sizes[k] <=> \A x \in PacketsOf(k) : Has(runs, x)
         /\ Received(runs) = Sizes[k] => runs = <<Whole(k)>>
<1> DEFINE N == Len(runs)
<1> DEFINE S == Sizes[k]
<1> DEFINE L == [r \in DOMAIN runs |-> Len(runs[r])]
<1> DEFINE U == Units(L)
<1> DEFINE T == 0 .. S - 1
<1> DEFINE f == [u \in U |-> runs[u[1]][u[2]].sequence]
<1>1. N \in Nat /\ runs \in [1 .. N -> Run] /\ DOMAIN runs = 1 .. N
  BY LenProperties DEF RunLists
<1>2. S \in Nat \ {0} BY RxAssumption, ElementOfSeq DEF Payloads
<1>3. \A i \in 1 .. N : /\ Top(runs[i]) \in Nat /\ Bottom(runs[i]) \in Nat
                        /\ Len(runs[i]) \in Nat \ {0} /\ DOMAIN runs[i] = 1 .. Len(runs[i])
                        /\ Bottom(runs[i]) = runs[i][Len(runs[i])].sequence
  BY <1>1, RunFacts
<1>4. \A i \in 1 .. N : \A j \in 1 .. Len(runs[i]) : runs[i][j].sequence = Top(runs[i]) + j - 1
  BY <1>1, <1>3 DEF Maximal
<1>5. \A i \in 1 .. N : Bottom(runs[i]) = Top(runs[i]) + Len(runs[i]) - 1
  <2> TAKE i \in 1 .. N
  <2>1. Len(runs[i]) \in 1 .. Len(runs[i]) BY <1>3
  <2>2. runs[i][Len(runs[i])].sequence = Top(runs[i]) + Len(runs[i]) - 1 BY <1>4, <2>1
  <2> QED BY <1>3, <2>2
<1>6. \A i \in 1 .. N : \A j \in 1 .. Len(runs[i]) :
        runs[i][j].sequence \in T /\ runs[i][j] = Packet(k, runs[i][j].sequence)
  <2> TAKE i \in 1 .. N
  <2> TAKE j \in 1 .. Len(runs[i])
  <2>1. Has(runs, runs[i][j]) BY <1>1, <1>3 DEF Has
  <2>2. PICK s \in T : runs[i][j] = Packet(k, s) BY <2>1 DEF PacketsOf
  <2> QED BY <2>2 DEF Packet
<1>7. L \in [1 .. N -> Nat] /\ \A i \in 1 .. N : L[i] = Len(runs[i]) BY <1>1, <1>3
<1>8. Received(runs) = Cardinality(U) BY DEF Received, Total
<1>9. Received(runs) \in Nat
  <2>1. IsFiniteSet(1 .. N) BY <1>1, FS_Interval
  <2> HIDE DEF L
  <2>2. Total(L) \in Nat BY <1>7, <2>1, UnitsFinite
  <2> QED BY <2>2 DEF Received, L
<1>10. \A u \in U : u[1] \in 1 .. N /\ u[2] \in 1 .. Len(runs[u[1]]) /\ u = <<u[1], u[2]>>
  <2> HIDE DEF L
  <2> QED BY <1>7 DEF Units
<1>11. \A i \in 1 .. N : \A j \in 1 .. Len(runs[i]) : <<i, j>> \in U
  <2> HIDE DEF L
  <2> QED BY <1>7 DEF Units
<1>12. \A i, j \in 1 .. N : i < j => Top(runs[j]) > Bottom(runs[i]) + 1
  BY <1>1, Apart
<1> HIDE DEF U
<1>13. f \in [U -> T] BY <1>6, <1>10
<1>14. \A u \in U : /\ f[u] = Top(runs[u[1]]) + u[2] - 1
                    /\ Top(runs[u[1]]) <= f[u] /\ f[u] <= Bottom(runs[u[1]])
  <2> TAKE u \in U
  <2> DEFINE i == u[1]
  <2> DEFINE j == u[2]
  <2>1. i \in 1 .. N /\ j \in 1 .. Len(runs[i]) BY <1>10
  <2>2. f[u] = runs[i][j].sequence OBVIOUS
  <2> HIDE DEF i, j, f
  <2>3. f[u] = Top(runs[i]) + j - 1 BY <1>4, <2>1, <2>2
  <2>4. /\ Top(runs[i]) \in Nat /\ Len(runs[i]) \in Nat
        /\ Bottom(runs[i]) = Top(runs[i]) + Len(runs[i]) - 1
    BY <1>3, <1>5, <2>1
  <2>5. Top(runs[i]) <= f[u] /\ f[u] <= Bottom(runs[i]) BY <2>1, <2>3, <2>4
  <2> QED BY <2>3, <2>5 DEF i, j
<1>15. ASSUME NEW u \in U, NEW v \in U, f[u] = f[v] PROVE u = v
  <2>1. /\ u[1] \in 1 .. N /\ v[1] \in 1 .. N /\ u[2] \in Int /\ v[2] \in Int
        /\ u = <<u[1], u[2]>> /\ v = <<v[1], v[2]>>
    BY <1>3, <1>10
  <2> DEFINE i == u[1]
  <2> DEFINE j == v[1]
  <2>2. /\ Top(runs[i]) <= f[u] /\ f[u] <= Bottom(runs[i])
        /\ Top(runs[j]) <= f[u] /\ f[u] <= Bottom(runs[j])
    BY <1>14, <1>15
  <2>3. f[u] \in Int BY <1>13
  <2>4. i \in 1 .. N /\ j \in 1 .. N BY <2>1
  <2>5. i = j
    <3> HIDE DEF i, j, f
    <3>1. /\ Top(runs[i]) \in Nat /\ Bottom(runs[i]) \in Nat
          /\ Top(runs[j]) \in Nat /\ Bottom(runs[j]) \in Nat
      BY <1>3, <2>4
    <3>2. ~ (i < j) BY <1>12, <2>2, <2>3, <2>4, <3>1
    <3>3. ~ (j < i) BY <1>12, <2>2, <2>3, <2>4, <3>1
    <3> QED BY <2>4, <3>2, <3>3
  <2>6. u[2] = v[2]
    <3>1. /\ f[u] = Top(runs[i]) + u[2] - 1 /\ f[v] = Top(runs[i]) + v[2] - 1
          /\ Top(runs[i]) \in Nat
      BY <1>3, <1>14, <2>1, <2>5
    <3> DEFINE t == Top(runs[i])
    <3> DEFINE x == u[2]
    <3> DEFINE y == v[2]
    <3>2. t + x - 1 = t + y - 1 /\ t \in Nat /\ x \in Int /\ y \in Int
      BY <1>15, <2>1, <3>1
    <3> HIDE DEF t, x, y
    <3>3. x = y BY <3>2
    <3> QED BY <3>3 DEF x, y
  <2> QED BY <2>1, <2>5, <2>6
<1> HIDE DEF f
<1>16. f \in Injection(U, T) BY <1>13, <1>15 DEF Injection, IsInjective
<1>17. IsFiniteSet(T) /\ Cardinality(T) = S
  <2> DEFINE b == S - 1
  <2>1. b \in Int /\ b >= 0 /\ b - 0 + 1 = S BY <1>2
  <2> HIDE DEF b
  <2>2. IsFiniteSet(0 .. b) /\ Cardinality(0 .. b) = IF 0 > b THEN 0 ELSE b - 0 + 1
    BY <2>1, FS_Interval
  <2>3. Cardinality(0 .. b) = S BY <2>1, <2>2
  <2> QED BY <2>2, <2>3 DEF b
<1>18. /\ Cardinality(U) <= Cardinality(T)
       /\ Cardinality(U) = Cardinality(T) <=> f \in Surjection(U, T)
  <2> HIDE DEF T
  <2> QED BY <1>16, <1>17, FS_Injection
<1>19. f \in Surjection(U, T) <=> \A s \in T : \E u \in U : f[u] = s
  BY <1>13 DEF Surjection
<1>20. Received(runs) <= S BY <1>8, <1>17, <1>18
<1>21. Received(runs) = S <=> \A s \in T : \E u \in U : f[u] = s BY <1>8, <1>17, <1>18, <1>19
<1>22. (\A s \in T : \E u \in U : f[u] = s) <=> \A x \in PacketsOf(k) : Has(runs, x)
  <2>1. ASSUME \A s \in T : \E u \in U : f[u] = s, NEW x \in PacketsOf(k) PROVE Has(runs, x)
    <3>1. PICK s \in T : x = Packet(k, s) BY DEF PacketsOf
    <3>2. PICK u \in U : f[u] = s BY <2>1
    <3>3. u[1] \in 1 .. N /\ u[2] \in 1 .. Len(runs[u[1]]) BY <1>10
    <3>4. runs[u[1]][u[2]].sequence = s BY <3>2 DEF f
    <3>5. runs[u[1]][u[2]] = x BY <1>6, <3>1, <3>3, <3>4
    <3> QED BY <1>1, <1>3, <3>3, <3>5 DEF Has
  <2>2. ASSUME \A x \in PacketsOf(k) : Has(runs, x), NEW s \in T PROVE \E u \in U : f[u] = s
    <3>1. Packet(k, s) \in PacketsOf(k) BY DEF PacketsOf
    <3>2. PICK i \in 1 .. N : \E j \in DOMAIN runs[i] : runs[i][j] = Packet(k, s)
      BY <1>1, <2>2, <3>1 DEF Has
    <3>3. PICK j \in 1 .. Len(runs[i]) : runs[i][j] = Packet(k, s) BY <1>3, <3>2
    <3>4. <<i, j>> \in U BY <1>11
    <3>5. f[<<i, j>>] = s BY <3>3, <3>4 DEF f, Packet
    <3> QED BY <3>4, <3>5
  <2> QED BY <2>1, <2>2
<1>23. ASSUME \A s \in T : \E u \in U : f[u] = s PROVE runs = <<Whole(k)>>
  <2>1. \A s \in T : \E i \in 1 .. N : Top(runs[i]) <= s /\ s <= Bottom(runs[i])
    BY <1>10, <1>14, <1>23
  <2>2. 0 \in T BY <1>2
  <2>3. N > 0 BY <1>1, <2>1, <2>2
  <2>4. ~ (N > 1)
    <3> SUFFICES ASSUME N > 1 PROVE FALSE OBVIOUS
    <3> DEFINE b == Bottom(runs[1]) + 1
    <3>1. 1 \in 1 .. N /\ 2 \in 1 .. N BY <1>1, <2>3
    <3>2. b \in Nat /\ Top(runs[2]) > b
      <4>1. Bottom(runs[1]) \in Nat BY <1>3, <3>1
      <4>2. Top(runs[2]) > Bottom(runs[1]) + 1 BY <1>12, <3>1
      <4> QED BY <4>1, <4>2
    <3>3. Top(runs[2]) \in T
      <4>1. 1 \in 1 .. Len(runs[2]) /\ Top(runs[2]) \in Nat BY <1>3, <3>1
      <4>2. runs[2][1].sequence = Top(runs[2]) + 1 - 1 BY <1>4, <3>1, <4>1
      <4>3. runs[2][1].sequence \in T BY <1>6, <3>1, <4>1
      <4> HIDE DEF T
      <4> QED BY <4>1, <4>2, <4>3
    <3>4. b \in T BY <1>2, <3>2, <3>3
    <3>5. PICK i \in 1 .. N : Top(runs[i]) <= b /\ b <= Bottom(runs[i]) BY <2>1, <3>4
    <3>6. i # 1 BY <1>3, <3>1, <3>5
    <3>7. 1 < i BY <1>1, <3>6
    <3>8. Top(runs[i]) > b BY <1>12, <3>1, <3>7
    <3>9. Top(runs[i]) \in Nat BY <1>3
    <3> HIDE DEF b
    <3> QED BY <3>2, <3>5, <3>8, <3>9
  <2>5. N = 1 BY <1>1, <2>3, <2>4
  <2> DEFINE run == runs[1]
  <2>6. run \in Run /\ Len(run) \in Nat \ {0} /\ run \in [1 .. Len(run) -> Packets]
    BY <1>1, <2>5, RunFacts
  <2>7. Top(run) \in Nat /\ Bottom(run) = Top(run) + Len(run) - 1 BY <1>3, <1>5, <2>5
  <2>8. \A s \in T : Top(run) <= s /\ s <= Bottom(run) BY <2>1, <2>5
  <2>9. \A j \in 1 .. Len(run) : /\ run[j].sequence = Top(run) + j - 1
                                 /\ run[j].sequence \in T
                                 /\ run[j] = Packet(k, run[j].sequence)
    BY <1>4, <1>6, <2>5
  <2> HIDE DEF run
  <2>10. Top(run) = 0 BY <1>2, <2>2, <2>7, <2>8
  <2>11. Len(run) = S
    <3>1. S - 1 \in T BY <1>2
    <3>2. S - 1 <= Bottom(run) BY <2>8, <3>1
    <3>3. Len(run) \in 1 .. Len(run) BY <2>6
    <3>4. run[Len(run)].sequence = Top(run) + Len(run) - 1 /\ run[Len(run)].sequence \in T
      BY <2>9, <3>3
    <3>5. Len(run) - 1 \in T BY <2>6, <2>10, <3>4
    <3> QED BY <1>2, <2>6, <2>7, <2>10, <3>2, <3>5
  <2>12. \A j \in 1 .. S : run[j] = Packet(k, j - 1) BY <2>6, <2>9, <2>10, <2>11
  <2>13. run = Whole(k) BY <2>6, <2>11, <2>12 DEF Whole
  <2>14. runs = <<run>> BY <1>1, <2>5 DEF run
  <2> QED BY <2>13, <2>14
<1> QED BY <1>9, <1>20, <1>21, <1>22, <1>23

(* The slots of payloads: packets and the window agree on them, they come  *)
(* one after the other, and no two payloads of a window share one.         *)
LEMMA SlotForFacts ==
  /\ SlotFor(1) = 0
  /\ \A k \in Nat \ {0} : /\ SlotFor(k) \in Slots
                          /\ SlotFor(k + 1) = AdvanceStateArrayIndex(SlotFor(k))
                          /\ SlotFor(k + LastIndex + 1) = SlotFor(k)
  /\ \A j, k \in Nat \ {0} : j < k /\ k <= j + LastIndex => SlotFor(j) # SlotFor(k)
  /\ NumbersFit => \A p \in Packets : SlotOf(p) = SlotFor(p.payload)
<1> DEFINE n == LastIndex + 1
<1>1. n \in Nat \ {0} /\ LastIndex \in Nat /\ LastIndex = n - 1 BY Constants
<1>2. \A k : SlotFor(k) = (k - 1) % n BY DEF SlotFor
<1>3. Slots = 0 .. n - 1
  <2>1. LastIndex = n - 1 BY <1>1
  <2> QED BY <2>1 DEF Slots
<1>4. \A i : AdvanceStateArrayIndex(i) = IF i + 1 > n - 1 THEN 0 ELSE i + 1
  BY <1>1 DEF AdvanceStateArrayIndex
<1> HIDE DEF n
<1>5. SlotFor(1) = 0
  <2>1. (1 - 1) % n = 0 BY <1>1
  <2> QED BY <1>2, <2>1
<1>6. ASSUME NEW k \in Nat \ {0}
      PROVE  /\ SlotFor(k) \in Slots
             /\ SlotFor(k + 1) = AdvanceStateArrayIndex(SlotFor(k))
             /\ SlotFor(k + LastIndex + 1) = SlotFor(k)
  <2> DEFINE x == k - 1
  <2>1. x \in Nat /\ k + 1 - 1 = x + 1 /\ k + LastIndex + 1 - 1 = x + n BY <1>1
  <2>2. /\ SlotFor(k) = x % n /\ SlotFor(k + 1) = (x + 1) % n
        /\ SlotFor(k + LastIndex + 1) = (x + n) % n
    <3>1. \A i, l \in Int : i - 1 = l => SlotFor(i) = l % n BY <1>2
    <3>2. k \in Int /\ k - 1 = x OBVIOUS
    <3> DEFINE i == k + 1
    <3> DEFINE j == k + LastIndex + 1
    <3> DEFINE y == x + 1
    <3> DEFINE z == x + n
    <3>3. /\ i \in Int /\ j \in Int /\ x \in Int /\ y \in Int /\ z \in Int
          /\ i - 1 = y /\ j - 1 = z
      BY <1>1, <2>1
    <3> HIDE DEF x, i, j, y, z
    <3>4. SlotFor(k) = x % n /\ SlotFor(i) = y % n /\ SlotFor(j) = z % n
      BY <3>1, <3>2, <3>3
    <3> QED BY <3>4 DEF i, j, y, z
  <2> HIDE DEF x
  <2>3. x % n \in 0 .. n - 1 BY <1>1, <2>1, Modulo
  <2>4. (x + 1) % n = IF x % n = n - 1 THEN 0 ELSE (x % n) + 1
    BY <1>1, <2>1, RemainderNext
  <2>5. (x + n) % n = x % n BY <1>1, <2>1, RemainderRound
  <2> DEFINE r == x % n
  <2>6. SlotFor(k) = r /\ r \in 0 .. n - 1 BY <2>2, <2>3
  <2>7. SlotFor(k + 1) = IF r = n - 1 THEN 0 ELSE r + 1 BY <2>2, <2>4
  <2> HIDE DEF r
  <2>8. (r + 1 > n - 1) <=> r = n - 1 BY <1>1, <2>6
  <2>9. SlotFor(k + 1) = AdvanceStateArrayIndex(SlotFor(k)) BY <1>4, <2>6, <2>7, <2>8
  <2> QED BY <1>3, <2>2, <2>5, <2>6, <2>9
<1>7. ASSUME NEW j \in Nat \ {0}, NEW k \in Nat \ {0}, j < k, k <= j + LastIndex
      PROVE  SlotFor(j) # SlotFor(k)
  <2> DEFINE x == j - 1
  <2> DEFINE y == k - 1
  <2>1. x \in Nat /\ y \in Nat /\ x < y /\ y < x + n BY <1>1, <1>7
  <2>2. SlotFor(j) = x % n /\ SlotFor(k) = y % n BY <1>2
  <2> HIDE DEF x, y
  <2>3. y % n # x % n BY <1>1, <2>1, RemaindersDiffer
  <2> QED BY <2>2, <2>3
<1>8. ASSUME NumbersFit, NEW p \in Packets PROVE SlotOf(p) = SlotFor(p.payload)
  <2> DEFINE x == p.payload - 1
  <2> DEFINE c == PayloadNumMax + 1
  <2> DEFINE b == Buffer
  <2>1. x \in Nat BY PacketFacts DEF Payloads
  <2>2. c \in Nat \ {0} /\ b \in Nat \ {0} /\ PayloadNumMax \in Nat BY Constants
  <2>3. n \in {c, b} /\ n <= c /\ n <= b BY <2>2, Constants DEF n
  <2>4. c <= b \/ c % b = 0 BY <2>2, <1>8 DEF NumbersFit
  <2>5. SlotOf(p) = (x % c) % b BY DEF SlotOf
  <2>6. SlotFor(p.payload) = x % n BY <1>2
  <2> HIDE DEF x, b, c
  <2>7. CASE c <= b
    <3>1. n = c BY <2>2, <2>3, <2>7
    <3>2. x % c \in 0 .. c - 1 BY <2>1, <2>2, Modulo
    <3> DEFINE r == x % c
    <3>3. r \in Nat /\ r < b BY <2>2, <2>7, <3>2
    <3> HIDE DEF r
    <3>4. r % b = r BY <2>2, <3>3
    <3> QED BY <2>5, <2>6, <3>1, <3>4 DEF r
  <2>8. CASE c % b = 0 /\ ~ (c <= b)
    <3>1. n = b BY <2>2, <2>3, <2>8
    <3>2. (x % c) % b = x % b BY <2>1, <2>2, <2>8, RemainderTwice
    <3> QED BY <2>5, <2>6, <3>1, <3>2
  <2> QED BY <2>4, <2>7, <2>8
<1> QED BY <1>5, <1>6, <1>7, <1>8

(* A packet of another payload means nothing to the state of payload k.    *)
LEMMA FollowsOther ==
  ASSUME NEW st, NEW k \in Nat, NEW got, NEW p \in Packets, p.payload # k, Follows(st, k, got)
  PROVE  Follows(st, k, got \cup {p})
<1> DEFINE more == got \cup {p}
<1>1. \A x : x \in more /\ x.payload = k <=> x \in got /\ x.payload = k OBVIOUS
<1>2. p \notin PacketsOf(k) /\ p # Packet(k, 0) BY DEF PacketsOf, Packet
<1>3. (PacketsOf(k) \subseteq more) <=> (PacketsOf(k) \subseteq got) BY <1>2
<1>4. Packet(k, 0) \in more <=> Packet(k, 0) \in got BY <1>2
<1>5. Due(k, more) = Due(k, got) BY <1>3, <1>4 DEF Due
<1>6. (\A x \in more : x.payload # k) <=> (\A x \in got : x.payload # k) BY <1>1
<1> HIDE DEF more
<1> QED BY <1>1, <1>5, <1>6 DEF Follows, more

(* The packets of a payload.                                               *)
LEMMA PayloadFacts ==
  ASSUME NEW k \in Payloads
  PROVE  /\ Packet(k, 0) \in PacketsOf(k) /\ PacketsOf(k) \subseteq Packets
         /\ \A x \in PacketsOf(k) : x.payload = k
         /\ \A x \in Packets : x.payload = k => x \in PacketsOf(k)
         /\ Sizes[k] \in Nat \ {0} /\ k \in Nat \ {0} /\ k <= Len(Sizes)
<1>1. Sizes[k] \in Nat \ {0} /\ k \in Nat \ {0} /\ k <= Len(Sizes)
  BY RxAssumption, ElementOfSeq DEF Payloads
<1>2. Packet(k, 0) \in PacketsOf(k) BY <1>1 DEF PacketsOf
<1>3. PacketsOf(k) \subseteq Packets BY DEF Packets
<1>4. \A x \in PacketsOf(k) : x.payload = k BY DEF PacketsOf, Packet
<1>5. ASSUME NEW x \in Packets, x.payload = k PROVE x \in PacketsOf(k)
  <2>1. PICK j \in Payloads : x \in PacketsOf(j) BY DEF Packets
  <2>2. x.payload = j BY <2>1 DEF PacketsOf, Packet
  <2> QED BY <1>5, <2>1, <2>2
<1> QED BY <1>1, <1>2, <1>3, <1>4, <1>5

(* A complete payload behind the one that is awaited counts in the window. *)
LEMMA CompleteCounts ==
  ASSUME IInv, Awaited(Len(sent)),
         NEW J \in SUBSET (Len(sent) + 1 .. Len(sent) + LastIndex + 1),
         \A j \in J : j \in Payloads /\ PacketsOf(j) \subseteq arrived
  PROVE  Cardinality(J) <= rxreorder_buffered_packet_count
<1> DEFINE n == Len(sent)
<1> DEFINE a == payload_state_array
<1> DEFINE f == [i \in Slots |-> CountIn(a[i])]
<1> DEFINE g == [j \in J |-> <<SlotFor(j), 1>>]
<1>1. n \in Nat /\ LastIndex \in Nat /\ IsFiniteSet(Slots) /\ a \in Arrays(arrived)
  BY Constants DEF IInv, Kinds
<1>2. f \in [Slots -> Nat]
  <2>1. \A i \in Slots : CountIn(a[i]) \in Nat BY <1>1, PartsAreNumbers DEF Arrays
  <2> QED BY <2>1
<1>3. \A j \in J : j \in Nat \ {0} /\ SlotFor(j) \in Slots
  <2>1. \A j \in n + 1 .. n + LastIndex + 1 : j \in Nat \ {0} BY <1>1
  <2> QED BY <2>1, SlotForFacts
<1>4. ASSUME NEW j \in J PROVE f[SlotFor(j)] >= 1
  <2> DEFINE st == a[SlotFor(j)]
  <2>1. Follows(st, j, arrived) BY DEF Awaited
  <2>2. j \in Payloads /\ PacketsOf(j) \subseteq arrived OBVIOUS
  <2> HIDE DEF st
  <2>3. ~ \A x \in arrived : x.payload # j
    <3> DEFINE z == Packet(j, 0)
    <3>1. z \in PacketsOf(j) BY <2>2, PayloadFacts
    <3>2. z.payload = j BY DEF Packet
    <3> HIDE DEF z
    <3> QED BY <2>2, <3>1, <3>2
  <2>4. st # None /\ st.packet_count \in Nat \ {0} BY <2>1, <2>3 DEF Follows
  <2>5. CountIn(st) = st.packet_count BY <2>4 DEF CountIn
  <2>6. f[SlotFor(j)] = CountIn(st) BY <1>3 DEF st
  <2> HIDE DEF f
  <2> QED BY <2>4, <2>5, <2>6
<1>5. \A i, j \in J : SlotFor(i) = SlotFor(j) => i = j
  <2> SUFFICES ASSUME NEW i \in J, NEW j \in J, i # j PROVE SlotFor(i) # SlotFor(j) OBVIOUS
  <2>1. i \in Nat \ {0} /\ j \in Nat \ {0} BY <1>3
  <2>2. /\ i \in n + 1 .. n + LastIndex + 1
        /\ j \in n + 1 .. n + LastIndex + 1
    OBVIOUS
  <2>3. (i < j /\ j <= i + LastIndex) \/ (j < i /\ i <= j + LastIndex)
    BY <1>1, <2>1, <2>2
  <2> QED BY <2>1, <2>3, SlotForFacts
<1> HIDE DEF f, n
<1>6. g \in Injection(J, Units(f))
  <2>1. \A j \in J : <<SlotFor(j), 1>> \in Units(f)
    <3> TAKE j \in J
    <3> DEFINE i == SlotFor(j)
    <3>1. i \in DOMAIN f /\ f[i] \in Nat /\ f[i] >= 1 BY <1>2, <1>3, <1>4
    <3> HIDE DEF i
    <3>2. 1 \in 1 .. f[i] BY <3>1
    <3> QED BY <3>1, <3>2 DEF Units, i
  <2>2. g \in [J -> Units(f)] BY <2>1
  <2>3. \A i, j \in J : g[i] = g[j] => i = j BY <1>5
  <2> HIDE DEF g
  <2> QED BY <2>2, <2>3 DEF Injection, IsInjective
<1> HIDE DEF g
<1>7. IsFiniteSet(Units(f)) BY <1>1, <1>2, UnitsFinite
<1>8. Cardinality(J) <= Cardinality(Units(f)) BY <1>6, <1>7, FS_Injection
<1>9. rxreorder_buffered_packet_count = Cardinality(Units(f))
  BY DEF IInv, Balance, CountTotal, Total, f
<1> QED BY <1>8, <1>9

(* No packet is of a payload that has no slot: between it and the one that *)
(* is awaited are fewer than InFlight payloads that are not complete and   *)
(* fewer than Window that are.                                             *)
LEMMA SlotsSuffice ==
  ASSUME NumbersFit, IInv, Delivered(Len(sent)), Awaited(Len(sent)), NEW p \in Packets, Arrive(p)
  PROVE  p.payload <= Len(sent) + LastIndex + 1
<1> DEFINE n == Len(sent)
<1> DEFINE k == p.payload
<1> DEFINE W == n + 1 .. n + LastIndex + 1
<1> DEFINE J == {j \in W : PacketsOf(j) \subseteq arrived}
<1> DEFINE K == {j \in 1 .. k - 1 : ~ (PacketsOf(j) \subseteq arrived)}
<1>1. Cardinality(K) < InFlight BY DEF Arrive, InNetwork
<1>2. pc = "poll" BY DEF Arrive
<1>3. k \in Nat \ {0} /\ k <= Len(Sizes) /\ Len(Sizes) \in Nat
  BY PacketFacts, PayloadFacts, RxAssumption, LenProperties
<1>4. /\ n \in Nat /\ LastIndex \in Nat /\ InFlight \in Nat /\ Window \in Nat
      /\ InFlight + Window <= LastIndex + 2
  BY Constants DEF NumbersFit, IInv, Kinds
<1> SUFFICES ASSUME k > n + LastIndex + 1 PROVE FALSE
  <2> HIDE DEF n, k, W, J, K
  <2> QED BY <1>3, <1>4 DEF n, k
<1>5. IsFiniteSet(K) /\ Cardinality(K) \in Nat
  <2> DEFINE e == k - 1
  <2>1. IsFiniteSet(1 .. e)
    <3>1. e \in Int BY <1>3
    <3> HIDE DEF e
    <3> QED BY <3>1, FS_Interval
  <2>2. K \in SUBSET (1 .. k - 1) OBVIOUS
  <2> HIDE DEF K, k
  <2> QED BY <2>1, <2>2, FS_Subset, FS_CardinalityType
<1>6. IsFiniteSet(W) /\ Cardinality(W) = LastIndex + 1
  <2> DEFINE b == n + 1
  <2> DEFINE e == n + LastIndex + 1
  <2>1. b \in Int /\ e \in Int /\ b <= e /\ e - b + 1 = LastIndex + 1 BY <1>4
  <2> HIDE DEF b, e
  <2>2. IsFiniteSet(b .. e) /\ Cardinality(b .. e) = e - b + 1 BY <2>1, FS_Interval
  <2> QED BY <2>1, <2>2 DEF b, e
<1>7. \A j \in W : j \in 1 .. k - 1
  <2> HIDE DEF n, k
  <2> QED BY <1>3, <1>4
<1>8. IsFiniteSet(J) /\ Cardinality(J) \in Nat /\ Cardinality(J) < Window
  <2>1. J \in SUBSET W OBVIOUS
  <2>2. IsFiniteSet(J) /\ Cardinality(J) \in Nat
    <3> HIDE DEF J, W
    <3> QED BY <1>6, <2>1, FS_Subset, FS_CardinalityType
  <2>3. \A j \in J : j \in Payloads /\ PacketsOf(j) \subseteq arrived
    <3>1. \A j \in 1 .. k - 1 : j \in Payloads
      <4> HIDE DEF k
      <4> QED BY <1>3 DEF Payloads
    <3> QED BY <1>7, <3>1
  <2> HIDE DEF J
  <2>4. Cardinality(J) <= rxreorder_buffered_packet_count BY <2>1, <2>3, CompleteCounts
  <2>5. rxreorder_buffered_packet_count < Window BY <1>2 DEF IInv, Flushed
  <2>6. rxreorder_buffered_packet_count \in Nat BY NumbersOfKinds DEF IInv, Balance
  <2> QED BY <1>4, <2>2, <2>4, <2>5, <2>6
<1>9. W \subseteq J \cup K BY <1>7
<1> HIDE DEF J, K, W, n, k
<1> DEFINE U == J \cup K
<1> DEFINE I == J \cap K
<1>10. /\ IsFiniteSet(U) /\ Cardinality(U) = Cardinality(J) + Cardinality(K) - Cardinality(I)
       /\ Cardinality(I) \in Nat
  <2>1. IsFiniteSet(I)
    <3>1. I \in SUBSET J OBVIOUS
    <3> HIDE DEF I
    <3> QED BY <1>8, <3>1, FS_Subset
  <2> QED BY <1>5, <1>8, <2>1, FS_Union, FS_CardinalityType
<1>11. Cardinality(W) <= Cardinality(U)
  <2>1. W \in SUBSET U BY <1>9
  <2> HIDE DEF U
  <2> QED BY <1>10, <2>1, FS_Subset
<1> HIDE DEF U, I
<1> QED BY <1>1, <1>4, <1>5, <1>6, <1>8, <1>10, <1>11

(* The packet that arrives is of a payload of the window, and finds its    *)
(* slot.                                                                   *)
LEMMA ArrivesAwaited ==
  ASSUME NumbersFit, IInv, Ordered, ~ starved, NEW p \in Packets, Arrive(p)
  PROVE  LET n == Len(sent)
             k == p.payload
         IN  /\ n \in Nat /\ k \in Payloads /\ k > n /\ k <= n + LastIndex + 1
             /\ k \in n + 1 .. n + LastIndex + 1 /\ p \in PacketsOf(k) /\ p \notin arrived
             /\ SlotOf(p) = SlotFor(k)
             /\ Follows(payload_state_array[SlotOf(p)], k, arrived)
<1> DEFINE n == Len(sent)
<1> DEFINE k == p.payload
<1>1. p \in PacketsOf(k) \ arrived BY DEF Arrive, InNetwork
<1>2. Delivered(n) /\ Awaited(n) BY DEF Ordered
<1>3. n \in Nat BY DEF IInv, Kinds
<1>4. k \in Payloads BY PacketFacts
<1>5. k \in Nat \ {0} /\ k <= Len(Sizes) BY <1>4, PayloadFacts
<1>6. SlotOf(p) = SlotFor(k) BY SlotForFacts
<1>7. LastIndex \in Nat BY Constants
<1>8. k <= n + LastIndex + 1 BY <1>2, SlotsSuffice
<1> HIDE DEF n, k
<1>9. k > n
  <2> SUFFICES ASSUME k <= n PROVE FALSE BY <1>3, <1>5
  <2>1. k \in 1 .. n BY <1>3, <1>5
  <2> QED BY <1>1, <1>2, <2>1 DEF Delivered
<1>10. k \in n + 1 .. n + LastIndex + 1 BY <1>3, <1>5, <1>7, <1>8, <1>9
<1>11. Follows(payload_state_array[SlotOf(p)], k, arrived) BY <1>2, <1>6, <1>10 DEF Awaited
<1> QED BY <1>1, <1>3, <1>4, <1>6, <1>8, <1>9, <1>10, <1>11 DEF n, k

(* Its payload is not complete yet.                                        *)
LEMMA FoundFollows ==
  ASSUME NEW i, NEW p \in Packets, p \notin arrived,
         Follows(payload_state_array[i], p.payload, arrived)
  PROVE  LET st == StateGet(i)
             k == p.payload
         IN  /\ st.state = IF \A x \in arrived : x.payload # k THEN "Idle" ELSE Due(k, arrived)
             /\ st.state \in {"Idle", "InProgress", "PacketZeroPending"}
             /\ \A x : Has(st.runs, x) <=> x \in arrived /\ x.payload = k
             /\ st.state = "InProgress" => st.expected = Sizes[k]
<1> DEFINE old == payload_state_array[i]
<1> DEFINE st == StateGet(i)
<1> DEFINE k == p.payload
<1>1. Due(k, arrived) \in {"InProgress", "PacketZeroPending"}
  <2>1. p \in PacketsOf(k) BY PacketFacts, PayloadFacts
  <2> QED BY <2>1 DEF Due
<1>2. CASE \A x \in arrived : x.payload # k
  <2>1. old = None BY <1>2 DEF Follows
  <2>2. st = NewState BY <2>1 DEF StateGet
  <2>3. st.state = "Idle" /\ st.runs = <<>> BY <2>2 DEF NewState
  <2> HIDE DEF st
  <2> QED BY <1>2, <2>3, EmptyRuns DEF st
<1>3. CASE ~ \A x \in arrived : x.payload # k
  <2>1. /\ old # None /\ old.state = Due(k, arrived)
        /\ \A x : Has(old.runs, x) <=> x \in arrived /\ x.payload = k
        /\ old.state = "InProgress" => old.expected = Sizes[k]
    BY <1>3 DEF Follows
  <2>2. st = old BY <1>1, <2>1 DEF StateGet
  <2> HIDE DEF st, old, k
  <2> QED BY <1>1, <1>3, <2>1, <2>2 DEF st, old, k
<1> QED BY <1>2, <1>3

(* What becomes of the payload of a packet that is wanted: it is complete  *)
(* when all of its packets are there, as one run, and goes on otherwise.   *)
LEMMA WantedFollows ==
  ASSUME NumbersFit, IInv, Ordered, ~ starved, NEW p \in Packets, PacketWanted(p)
  PROVE  LET s == Stored(WantedBy(p), p)
         IN  /\ IsFull(s) => /\ IsGood(s)
                             /\ Follows([s EXCEPT !.state = "Complete"], p.payload, arrived')
             /\ ~ IsFull(s) => Follows(s, p.payload, arrived')
<1> DEFINE k == p.payload
<1> DEFINE st == StateGet(SlotOf(p))
<1> DEFINE w == WantedBy(p)
<1> DEFINE s == Stored(w, p)
<1>1. /\ Arrive(p) /\ w \in Sound(arrived) /\ w.state \in Pending
      /\ w.packet_count \in Nat
  BY WantedFacts
<1>2. arrived' = arrived \cup {p} /\ arrived' \subseteq Packets BY <1>1, ArriveFacts
<1>3. /\ k \in Payloads /\ p \in PacketsOf(k) /\ p \notin arrived
      /\ Follows(payload_state_array[SlotOf(p)], k, arrived)
  BY <1>1, ArrivesAwaited
<1>4. /\ st.state = IF \A x \in arrived : x.payload # k THEN "Idle" ELSE Due(k, arrived)
      /\ st.state \in {"Idle", "InProgress", "PacketZeroPending"}
      /\ \A x : Has(st.runs, x) <=> x \in arrived /\ x.payload = k
      /\ st.state = "InProgress" => st.expected = Sizes[k]
  <2> DEFINE i == SlotOf(p)
  <2>1. Follows(payload_state_array[i], p.payload, arrived) /\ p \notin arrived BY <1>3
  <2> HIDE DEF i
  <2>2. LET z == StateGet(i)
        IN  /\ z.state = IF \A x \in arrived : x.payload # p.payload
                         THEN "Idle" ELSE Due(p.payload, arrived)
            /\ z.state \in {"Idle", "InProgress", "PacketZeroPending"}
            /\ \A x : Has(z.runs, x) <=> x \in arrived /\ x.payload = p.payload
            /\ z.state = "InProgress" => z.expected = Sizes[p.payload]
    BY <2>1, FoundFollows
  <2> QED BY <2>2 DEF i
<1>5. st \in PayloadState
  <2>1. payload_state_array \in Arrays(arrived) /\ SlotOf(p) \in Slots
    BY SlotFacts DEF IInv, Kinds
  <2> QED BY <2>1, Found, SoundFacts
<1>6. p.payload = k OBVIOUS
<1> HIDE DEF k
<1>7. Sizes[k] \in Nat \ {0} /\ k \in Nat BY <1>3, PayloadFacts
<1>8. Packet(k, 0) \in PacketsOf(k) BY <1>3, PayloadFacts
<1>9. Packet(k, 0).payload = k BY DEF Packet
<1>10. \A x \in PacketsOf(k) : x.payload = k BY <1>3, PayloadFacts
<1>11. \A x \in Packets : x.payload = k => x \in PacketsOf(k) BY <1>3, PayloadFacts
<1>12. p = Packet(k, 0) <=> p.sequence = 0
  <2>1. p = Packet(k, p.sequence) BY PacketFacts DEF k
  <2>2. Packet(k, 0).sequence = 0 BY DEF Packet
  <2> QED BY <2>1, <2>2
<1>13. w = Started(st, p) BY DEF WantedBy
<1> HIDE DEF st
<1>14. /\ w.runs = st.runs
       /\ w.state = (IF Packet(k, 0) \in arrived' THEN "InProgress" ELSE "PacketZeroPending")
       /\ w.state = "InProgress" => w.expected = Sizes[k]
  <2>1. ~ (PacketsOf(k) \subseteq arrived) BY <1>3
  <2>2. st.state = "InProgress" <=> Packet(k, 0) \in arrived
    <3>1. CASE \A x \in arrived : x.payload # k
      <4> DEFINE z == Packet(k, 0)
      <4>1. z.payload = k BY <1>9
      <4> HIDE DEF z
      <4>2. z \notin arrived BY <3>1, <4>1
      <4> QED BY <1>4, <3>1, <4>2 DEF z
    <3>2. CASE ~ \A x \in arrived : x.payload # k BY <1>4, <2>1, <3>2 DEF Due
    <3> QED BY <3>1, <3>2
  <2>3. CASE p.sequence = 0 /\ st.state \in {"Idle", "PacketZeroPending"}
    <3>1. w = [st EXCEPT !.state = "InProgress", !.expected = Sizes[k], !.owner = TRUE]
      BY <1>13, <2>3 DEF Started, k
    <3>2. Packet(k, 0) \in arrived' BY <1>2, <1>12, <2>3
    <3> QED BY <1>5, <3>1, <3>2 DEF PayloadState
  <2>4. CASE ~ (p.sequence = 0 /\ st.state \in {"Idle", "PacketZeroPending"})
    <3>1. w = [st EXCEPT !.state = IF @ = "Idle" THEN "PacketZeroPending" ELSE @, !.owner = TRUE]
      BY <1>13, <2>4 DEF Started
    <3>2. /\ w.runs = st.runs /\ w.expected = st.expected
          /\ w.state = IF st.state = "Idle" THEN "PacketZeroPending" ELSE st.state
      BY <1>5, <3>1 DEF PayloadState
    <3>3. Packet(k, 0) \in arrived' <=> Packet(k, 0) \in arrived \/ p.sequence = 0
      BY <1>2, <1>12
    <3>4. p.sequence = 0 => Packet(k, 0) \in arrived BY <1>4, <2>2, <2>4
    <3> QED BY <1>4, <2>2, <3>2, <3>3, <3>4
  <2> QED BY <2>3, <2>4
<1> HIDE DEF w
<1>15. total_packet_count \in Nat BY DEF IInv, Kinds
<1>16. /\ s \in Sound(arrived') /\ s.state = w.state /\ s.runs = Placed(w.runs, p)
       /\ s.packet_count = w.packet_count + 1
  BY <1>1, <1>2, <1>3, <1>15, StoredFacts
<1>17. s.expected = w.expected BY <1>1, SoundFacts DEF Stored, PayloadState
<1>18. \A x : Has(s.runs, x) <=> x \in arrived' /\ x.payload = k
  <2>1. w.runs \in RunLists BY <1>1, SoundFacts
  <2>2. \A x : Has(Placed(w.runs, p), x) <=> x = p \/ Has(w.runs, x) BY <2>1, PlacedHas
  <2>3. \A x : Has(st.runs, x) <=> x \in arrived /\ x.payload = k BY <1>4
  <2>4. w.runs = st.runs /\ s.runs = Placed(w.runs, p) BY <1>14, <1>16
  <2> DEFINE old == st.runs
  <2> DEFINE new == s.runs
  <2>5. /\ \A x : Has(new, x) <=> x = p \/ Has(old, x)
        /\ \A x : Has(old, x) <=> x \in arrived /\ x.payload = k
    BY <2>2, <2>3, <2>4
  <2> HIDE DEF old, new, s
  <2>6. \A x : x \in arrived' <=> x = p \/ x \in arrived BY <1>2
  <2>7. \A x : Has(new, x) <=> x \in arrived' /\ x.payload = k BY ONLY <1>6, <2>5, <2>6
  <2> QED BY <2>7 DEF new
<1> HIDE DEF s
<1>19. /\ s.runs \in RunLists /\ s \in PayloadState /\ s # None
       /\ s.packet_count \in Nat \ {0}
  <2>1. s.packet_count \in Nat \ {0} BY <1>1, <1>16
  <2> QED BY <1>16, <2>1, SoundFacts
<1>20. Maximal(s.runs)
  <2>1. OfOnePayload(s.runs) BY <1>18, OneFacts
  <2> QED BY <1>1, <1>16, <2>1 DEF Sound
<1>21. \A x : Has(s.runs, x) => x \in PacketsOf(k)
  <2> SUFFICES ASSUME NEW x, Has(s.runs, x) PROVE x \in PacketsOf(k) OBVIOUS
  <2>1. x \in arrived' /\ x.payload = k BY <1>18
  <2>2. x \in Packets BY <1>2, <2>1
  <2> QED BY <1>11, <2>1, <2>2
<1>22. /\ Received(s.runs) \in Nat /\ Received(s.runs) <= Sizes[k]
       /\ Received(s.runs) = Sizes[k] <=> \A x \in PacketsOf(k) : Has(s.runs, x)
       /\ Received(s.runs) = Sizes[k] => s.runs = <<Whole(k)>>
  BY <1>3, <1>19, <1>20, <1>21, RunsOfPayload
<1>23. PacketsOf(k) \subseteq arrived' <=> Received(s.runs) = Sizes[k] BY <1>18, <1>22, <1>10
<1>24. ~ \A x \in arrived' : x.payload # k BY <1>2, <1>6
<1>25. s.state = (IF Packet(k, 0) \in arrived' THEN "InProgress" ELSE "PacketZeroPending")
       /\ (s.state = "InProgress" => s.expected = Sizes[k])
  BY <1>14, <1>16, <1>17
<1>26. IsFull(s) <=> PacketsOf(k) \subseteq arrived'
  <2>1. ASSUME PacketsOf(k) \subseteq arrived' PROVE IsFull(s)
    <3>1. Packet(k, 0) \in arrived' BY <1>8, <2>1
    <3>2. s.state = "InProgress" /\ s.expected = Sizes[k] BY <1>25, <3>1
    <3>3. Received(s.runs) = Sizes[k] BY <1>23, <2>1
    <3> QED BY <1>22, <3>2, <3>3 DEF IsFull
  <2>2. ASSUME IsFull(s) PROVE PacketsOf(k) \subseteq arrived'
    <3>1. Received(s.runs) >= Sizes[k] BY <1>25, <2>2 DEF IsFull
    <3>2. Received(s.runs) = Sizes[k] BY <1>7, <1>22, <3>1
    <3> QED BY <1>23, <3>2
  <2> QED BY <2>1, <2>2
<1>27. ASSUME IsFull(s)
       PROVE  IsGood(s) /\ Follows([s EXCEPT !.state = "Complete"], k, arrived')
  <2>1. PacketsOf(k) \subseteq arrived' /\ Received(s.runs) = Sizes[k] /\ s.runs = <<Whole(k)>>
    BY <1>22, <1>23, <1>26, <1>27
  <2>2. s.expected = Sizes[k] BY <1>25, <1>27 DEF IsFull
  <2>3. Len(s.runs) = 1 BY <2>1
  <2>4. IsGood(s) BY <2>1, <2>2, <2>3 DEF IsGood
  <2> DEFINE d == [s EXCEPT !.state = "Complete"]
  <2>5. /\ d.state = "Complete" /\ d.runs = s.runs /\ d.packet_count = s.packet_count
        /\ d \in PayloadState
    BY <1>19 DEF PayloadState, States
  <2>6. d # None BY <2>5, NoneIsNoState
  <2>7. Due(k, arrived') = "Complete" BY <2>1 DEF Due
  <2> HIDE DEF d
  <2>8. Follows(d, k, arrived')
    BY <1>3, <1>18, <1>19, <1>24, <2>1, <2>5, <2>6, <2>7 DEF Follows
  <2> QED BY <2>4, <2>8 DEF d
<1>28. ASSUME ~ IsFull(s) PROVE Follows(s, k, arrived')
  <2>1. Due(k, arrived') = s.state BY <1>25, <1>26, <1>28 DEF Due
  <2>2. s.state # "Complete" BY <1>25
  <2> QED BY <1>3, <1>18, <1>19, <1>24, <1>25, <2>1, <2>2 DEF Follows
<1> QED BY <1>27, <1>28 DEF s, w, k

(* A payload state that follows its packets keeps the order when it is put *)
(* in its slot; the other slots are not those of its payload.              *)
LEMMA ArrivalKeepsOrder ==
  ASSUME NumbersFit, IInv, Ordered, ~ starved, NEW p \in Packets, Arrive(p), NEW new,
         Changed(payload_state_array, payload_state_array', SlotOf(p), new),
         Follows(new, p.payload, arrived'),
         UNCHANGED rxreorder_current_index, ~ back_pressure'
  PROVE  Ordered'
<1> DEFINE n == Len(sent)
<1> DEFINE k == p.payload
<1> DEFINE a == payload_state_array
<1> DEFINE b == payload_state_array'
<1>1. /\ n \in Nat /\ k \in Payloads /\ k <= n + LastIndex + 1
      /\ k \in n + 1 .. n + LastIndex + 1 /\ SlotOf(p) = SlotFor(k)
  BY ArrivesAwaited
<1>2. /\ arrived' = arrived \cup {p} /\ arrived \subseteq arrived' /\ pc' = "send"
      /\ sent' = sent
  BY ArriveFacts
<1>3. Delivered(n) /\ Awaited(n) /\ pc = "poll" BY DEF Ordered, Arrive
<1>4. Delivered(Len(sent))' BY <1>2, <1>3 DEF Delivered
<1>5. /\ a \in Arrays(arrived) /\ SlotOf(p) \in Slots /\ LastIndex \in Nat
      /\ b = [a EXCEPT ![SlotOf(p)] = new]
  BY SlotFacts, Constants DEF IInv, Kinds, Changed
<1>6. p.payload = k OBVIOUS
<1> HIDE DEF k, n, a, b
<1>7. \A x \in arrived' : x.payload <= n + LastIndex + 1
  BY <1>1, <1>2, <1>3, <1>6 DEF Awaited
<1>8. ASSUME NEW j \in n + 1 .. n + LastIndex + 1
      PROVE  Follows(b[SlotFor(j)], j, arrived')
  <2>1. SlotFor(j) \in Slots /\ j \in Nat \ {0} /\ k \in Nat \ {0}
    <3>1. j \in Nat \ {0} /\ k \in Nat \ {0} BY <1>1, <1>5
    <3> QED BY <3>1, SlotForFacts
  <2>2. CASE j = k
    <3>1. b[SlotFor(j)] = new BY <1>1, <1>5, <2>2 DEF Arrays
    <3> QED BY <1>6, <2>2, <3>1
  <2>3. CASE j # k
    <3>1. SlotFor(j) # SlotFor(k)
      <4>1. (j < k /\ k <= j + LastIndex) \/ (k < j /\ j <= k + LastIndex)
        BY <1>1, <1>5, <2>1, <2>3
      <4> QED BY <2>1, <4>1, SlotForFacts
    <3>2. b[SlotFor(j)] = a[SlotFor(j)] BY <1>1, <1>5, <2>1, <3>1 DEF Arrays
    <3>3. Follows(a[SlotFor(j)], j, arrived) BY <1>3 DEF Awaited, a, n
    <3>4. j \in Nat /\ p.payload # j BY <1>6, <2>1, <2>3
    <3> DEFINE st == a[SlotFor(j)]
    <3>5. Follows(st, j, arrived) BY <3>3
    <3> HIDE DEF st
    <3>6. Follows(st, j, arrived \cup {p}) BY <3>4, <3>5, FollowsOther
    <3> QED BY <1>2, <3>2, <3>6 DEF st
  <2> QED BY <2>2, <2>3
<1>9. Awaited(Len(sent))'
  <2>1. rxreorder_current_index' = SlotFor(n + 1) BY <1>3 DEF Awaited
  <2> QED BY <1>2, <1>7, <1>8, <2>1 DEF Awaited, n, b
<1> QED BY <1>2, <1>4, <1>9 DEF Ordered

(* A packet keeps the order, or a pool has run out: while none has, it is  *)
(* never of a payload that was sent, erred or ignored, and never the last  *)
(* one of a payload that is not one run of the expected size.              *)
LEMMA ReceiveKeepsOrder ==
  ASSUME NumbersFit, IInv, Ordered, NEW p \in Packets, RxPacketReceive(p)
  PROVE  Ordered'
<1> SUFFICES ASSUME ~ starved' PROVE Ordered' BY DEF Ordered
<1> DEFINE i == SlotOf(p)
<1> DEFINE w == WantedBy(p)
<1> DEFINE s == Stored(w, p)
<1>1. ~ PacketStarved(p) /\ ~ PacketNoList(p) BY DEF PacketStarved, PacketNoList
<1>2. Arrive(p) /\ ~ starved
  <2>1. CASE PacketUnwanted(p) BY <2>1 DEF PacketUnwanted
  <2>2. CASE PacketStored(p) BY <2>2 DEF PacketStored, PacketWanted, Keep
  <2>3. CASE PacketCompletes(p) BY <2>3 DEF PacketCompletes, PacketWanted, Keep
  <2>4. CASE PacketMismatch(p) BY <2>4 DEF PacketMismatch, PacketWanted
  <2> QED BY <1>1, <2>1, <2>2, <2>3, <2>4 DEF RxPacketReceive
<1>3. ~ back_pressure BY <1>2 DEF Ordered
<1>4. CASE PacketUnwanted(p)
  <2>1. StateGet(i).state \in {"Complete", "Error", "Ignore"} BY <1>4 DEF PacketUnwanted
  <2>2. p \notin arrived /\ Follows(payload_state_array[i], p.payload, arrived)
    BY <1>2, ArrivesAwaited
  <2> HIDE DEF i
  <2>3. StateGet(i).state \in {"Idle", "InProgress", "PacketZeroPending"}
    BY <2>2, FoundFollows
  <2> QED BY <2>1, <2>3
<1>5. CASE PacketStored(p)
  <2>1. /\ PacketWanted(p) /\ ~ IsFull(s)
        /\ Changed(payload_state_array, payload_state_array', i, s)
        /\ UNCHANGED rxreorder_current_index /\ ~ back_pressure'
    BY <1>3, <1>5 DEF PacketStored, Keep, Changed
  <2>2. Follows(s, p.payload, arrived') BY <1>2, <2>1, WantedFollows
  <2> HIDE DEF s
  <2> QED BY <1>2, <2>1, <2>2, ArrivalKeepsOrder
<1>6. CASE PacketCompletes(p)
  <2> DEFINE d == [s EXCEPT !.state = "Complete"]
  <2>1. /\ PacketWanted(p) /\ IsFull(s)
        /\ Changed(payload_state_array, payload_state_array', i, d)
        /\ UNCHANGED rxreorder_current_index /\ ~ back_pressure'
    BY <1>3, <1>6 DEF PacketCompletes, Keep, Changed
  <2>2. Follows(d, p.payload, arrived') BY <1>2, <2>1, WantedFollows
  <2> HIDE DEF d
  <2> QED BY <1>2, <2>1, <2>2, ArrivalKeepsOrder
<1>7. CASE PacketMismatch(p)
  <2>1. PacketWanted(p) /\ IsFull(s) /\ ~ IsGood(s) BY <1>7 DEF PacketMismatch
  <2>2. IsGood(s) BY <1>2, <2>1, WantedFollows
  <2> QED BY <2>1, <2>2
<1> QED BY <1>1, <1>4, <1>5, <1>6, <1>7 DEF RxPacketReceive

(* The payload that is sent is the next one, with all of its packets, and  *)
(* leaves its slot empty for the payload that has the slot next.           *)
LEMMA SendKeepsOrder ==
  ASSUME NumbersFit, IInv, Ordered, SendReady
  PROVE  Ordered'
<1> DEFINE i == rxreorder_current_index
<1> DEFINE a == payload_state_array
<1> DEFINE b == payload_state_array'
<1> DEFINE st == a[i]
<1> DEFINE n == Len(sent)
<1> DEFINE e == [status |-> Entry(st).status, sgl |-> Sgl(st)]
<1>1. /\ pc = "send" /\ IsReady(st) /\ b = [a EXCEPT ![i] = AfterSend(st)]
      /\ rxreorder_current_index' = AdvanceStateArrayIndex(i) /\ sent' = Append(sent, e)
      /\ UNCHANGED <<arrived, back_pressure, pc, starved>>
  BY DEF SendReady, SendPayload
<1> SUFFICES ASSUME ~ starved PROVE Ordered' BY <1>1 DEF Ordered
<1>2. ~ back_pressure /\ Delivered(n) /\ Awaited(n) BY DEF Ordered
<1>3. /\ a \in Arrays(arrived) /\ i \in Slots /\ n \in Nat
      /\ sent \in Seq([status : {"Ok", "Error"}, sgl : Seq(Packets)])
      /\ arrived \subseteq Packets
  BY DEF IInv, Kinds
<1>4. LastIndex \in Nat BY Constants
<1> DEFINE k == n + 1
<1>5. k \in Nat \ {0} /\ i = SlotFor(k) BY <1>2, <1>3 DEF Awaited
<1>6. Follows(st, k, arrived)
  <2>1. k \in n + 1 .. n + LastIndex + 1 BY <1>3, <1>4
  <2>2. Follows(a[SlotFor(k)], k, arrived) BY <1>2, <2>1 DEF Awaited
  <2> QED BY <1>5, <2>2
<1> HIDE DEF st, k
<1>7. /\ k \in Payloads /\ PacketsOf(k) \subseteq arrived
      /\ st.state = "Complete" /\ st.runs = <<Whole(k)>>
  <2>1. st # None /\ st.state \in {"Complete", "Error"} BY <1>1 DEF IsReady
  <2>2. k \in Payloads /\ st.state = Due(k, arrived)
        /\ (st.state = "Complete" => st.runs = <<Whole(k)>>)
    BY <1>6, <2>1 DEF Follows
  <2> QED BY <2>1, <2>2 DEF Due
<1>8. AfterSend(st) = None /\ e = [status |-> "Ok", sgl |-> Whole(k)]
  <2>1. Sgl(st) = Whole(k) BY <1>7 DEF Sgl
  <2>2. Entry(st).status = "Ok" BY <1>7 DEF Entry
  <2> QED BY <1>7, <2>1, <2>2 DEF AfterSend
<1> HIDE DEF e
<1>9. k = n + 1 BY DEF k
<1>10. /\ Len(sent') = k /\ sent'[k] = e
       /\ \A j \in 1 .. n : sent'[j] = sent[j]
  <2> DEFINE T == Seq([status : {"Ok", "Error"}, sgl : Seq(Packets)])
  <2>1. e \in [status : {"Ok", "Error"}, sgl : Seq(Packets)]
    <3>1. Whole(k) \in Seq(Packets)
      <4>1. Sizes[k] \in Nat BY <1>7, PayloadFacts
      <4>2. \A j \in 1 .. Sizes[k] : Packet(k, j - 1) \in PacketsOf(k)
        BY <4>1 DEF PacketsOf
      <4>3. \A j \in 1 .. Sizes[k] : Packet(k, j - 1) \in Packets
        BY <1>7, <4>2, PayloadFacts
      <4> QED BY <4>1, <4>3 DEF Whole
    <3> QED BY <1>8, <3>1
  <2> QED BY <1>1, <1>3, <1>9, <2>1
<1>11. Delivered(Len(sent))'
  <2>1. k <= Len(Sizes) BY <1>7, PayloadFacts
  <2>2. ASSUME NEW j \in 1 .. k
        PROVE  PacketsOf(j) \subseteq arrived /\ sent'[j] = [status |-> "Ok", sgl |-> Whole(j)]
    <3>1. CASE j = k BY <1>7, <1>8, <1>10, <3>1
    <3>2. CASE j # k
      <4>1. j \in 1 .. n BY <1>3, <1>9, <3>2
      <4> QED BY <1>2, <1>10, <4>1 DEF Delivered
    <3> QED BY <3>1, <3>2
  <2> QED BY <1>1, <1>10, <2>1, <2>2 DEF Delivered
<1>12. \A x \in arrived : x.payload <= k + LastIndex + 1
  <2>1. \A x \in Packets : x.payload \in Nat BY PacketFacts DEF Payloads
  <2>2. \A x \in arrived : x.payload <= n + LastIndex + 1 BY <1>2 DEF Awaited
  <2> HIDE DEF n
  <2>3. \A x \in Nat : x <= n + LastIndex + 1 => x <= k + LastIndex + 1 BY <1>3, <1>4, <1>9
  <2> QED BY <1>3, <2>1, <2>2, <2>3
<1>13. ASSUME NEW j \in k + 1 .. k + LastIndex + 1 PROVE Follows(b[SlotFor(j)], j, arrived)
  <2>1. j \in Nat \ {0} /\ SlotFor(j) \in Slots
    <3>1. j \in Nat \ {0} BY <1>4, <1>5
    <3> QED BY <3>1, SlotForFacts
  <2>2. CASE j = k + LastIndex + 1
    <3>1. SlotFor(j) = i BY <1>5, <2>2, SlotForFacts
    <3>2. b[SlotFor(j)] = None BY <1>1, <1>3, <1>8, <3>1 DEF Arrays
    <3>3. \A x \in arrived : x.payload # j
      <4> SUFFICES ASSUME NEW x \in arrived, x.payload = j PROVE FALSE OBVIOUS
      <4>1. j <= n + LastIndex + 1 BY <1>2 DEF Awaited
      <4> HIDE DEF n
      <4> QED BY <1>3, <1>4, <1>9, <2>2, <4>1
    <3> QED BY <3>2, <3>3 DEF Follows
  <2>3. CASE j # k + LastIndex + 1
    <3>1. k < j /\ j <= k + LastIndex BY <1>4, <1>5, <2>1, <2>3
    <3>2. SlotFor(j) # i BY <1>5, <2>1, <3>1, SlotForFacts
    <3>3. b[SlotFor(j)] = a[SlotFor(j)] BY <1>1, <1>3, <2>1, <3>2 DEF Arrays
    <3>4. j \in n + 1 .. n + LastIndex + 1
      <4> HIDE DEF n
      <4> QED BY <1>3, <1>4, <1>9, <2>1, <3>1
    <3>5. Follows(a[SlotFor(j)], j, arrived) BY <1>2, <3>4 DEF Awaited
    <3> QED BY <3>3, <3>5
  <2> QED BY <2>2, <2>3
<1>14. Awaited(Len(sent))'
  <2>1. AdvanceStateArrayIndex(i) = SlotFor(k + 1) BY <1>5, SlotForFacts
  <2> QED BY <1>1, <1>10, <1>12, <1>13, <2>1 DEF Awaited
<1> QED BY <1>1, <1>2, <1>11, <1>14 DEF Ordered

(* When there is nothing left to send, the next payload is not complete.   *)
LEMMA SendEndsKeepsOrder ==
  ASSUME NumbersFit, IInv, Ordered, SendEnds
  PROVE  Ordered'
<1> DEFINE n == Len(sent)
<1> DEFINE k == n + 1
<1> DEFINE st == payload_state_array[rxreorder_current_index]
<1>1. /\ ~ IsReady(st) /\ starved' = (starved \/ WindowFull)
      /\ pc' = IF WindowFull THEN "flush" ELSE "poll"
      /\ UNCHANGED <<arrived, payload_state_array, rxreorder_current_index, back_pressure, sent>>
  BY DEF SendEnds, network, window
<1> SUFFICES ASSUME ~ starved, ~ WindowFull PROVE Ordered' BY <1>1 DEF Ordered
<1>2. ~ back_pressure /\ Delivered(n) /\ Awaited(n) BY DEF Ordered
<1>3. n \in Nat /\ LastIndex \in Nat /\ Len(Sizes) \in Nat
  BY Constants, RxAssumption, LenProperties DEF IInv, Kinds
<1>4. Delivered(Len(sent))' BY <1>1, <1>2 DEF Delivered
<1>5. Awaited(Len(sent))' BY <1>1, <1>2 DEF Awaited
<1>6. ASSUME n < Len(Sizes), PacketsOf(k) \subseteq arrived PROVE FALSE
  <2>1. k \in n + 1 .. n + LastIndex + 1 BY <1>3
  <2>2. Follows(st, k, arrived) BY <1>2, <2>1 DEF Awaited
  <2>3. k \in Payloads BY <1>3, <1>6 DEF Payloads
  <2> HIDE DEF k, st
  <2>4. Packet(k, 0) \in arrived /\ Packet(k, 0).payload = k
    <3>1. Packet(k, 0) \in PacketsOf(k) BY <2>3, PayloadFacts
    <3> QED BY <1>6, <3>1 DEF Packet
  <2>5. ~ \A x \in arrived : x.payload # k
    <3> DEFINE z == Packet(k, 0)
    <3>1. z \in arrived /\ z.payload = k BY <2>4
    <3> HIDE DEF z
    <3> QED BY <3>1
  <2>6. st # None /\ st.state = "Complete" BY <1>6, <2>2, <2>5 DEF Follows, Due
  <2> QED BY <1>1, <2>6 DEF IsReady
<1>7. pc' = "poll" /\ ~ back_pressure' BY <1>1, <1>2
<1>8. Len(sent)' < Len(Sizes) => ~ (PacketsOf(Len(sent)' + 1) \subseteq arrived')
  BY <1>1, <1>6
<1> QED BY <1>4, <1>5, <1>7, <1>8 DEF Ordered

(* The order is there at the start, ...                                    *)
LEMMA OrderAtStart == Init => Ordered
<1> SUFFICES ASSUME Init PROVE Ordered OBVIOUS
<1>1. /\ arrived = {} /\ payload_state_array = [i \in Slots |-> None]
      /\ rxreorder_current_index = 0 /\ back_pressure = FALSE
      /\ pc = "poll" /\ sent = <<>>
  BY DEF Init
<1>2. Len(sent) = 0 /\ Len(Sizes) \in Nat /\ LastIndex \in Nat
  BY <1>1, RxAssumption, LenProperties, Constants
<1>3. Delivered(0) BY <1>2 DEF Delivered
<1>4. Awaited(0)
  <2>1. rxreorder_current_index = SlotFor(0 + 1) BY <1>1, SlotForFacts
  <2>2. ASSUME NEW k \in 0 + 1 .. 0 + LastIndex + 1
        PROVE  Follows(payload_state_array[SlotFor(k)], k, arrived)
    <3>1. k \in Nat \ {0} BY <1>2
    <3>2. SlotFor(k) \in Slots BY <3>1, SlotForFacts
    <3> QED BY <1>1, <3>2 DEF Follows
  <2> QED BY <1>1, <2>1, <2>2 DEF Awaited
<1>5. 0 < Len(Sizes) => ~ (PacketsOf(0 + 1) \subseteq arrived)
  <2> SUFFICES ASSUME 0 < Len(Sizes) PROVE ~ (PacketsOf(1) \subseteq arrived) OBVIOUS
  <2>1. 1 \in Payloads BY <1>2 DEF Payloads
  <2>2. Packet(1, 0) \in PacketsOf(1) BY <2>1, PayloadFacts
  <2> QED BY <1>1, <2>2
<1> QED BY <1>1, <1>2, <1>3, <1>4, <1>5 DEF Ordered

(* ... every step keeps it, ...                                            *)
LEMMA OrderKept == NumbersFit /\ IInv /\ Ordered /\ [Next]_vars => Ordered'
<1> SUFFICES ASSUME NumbersFit, IInv, Ordered, [Next]_vars PROVE Ordered' OBVIOUS
<1>1. ASSUME NEW k \in Payloads, NEW p \in PacketsOf(k), RxPacketReceive(p) PROVE Ordered'
  <2>1. p \in Packets BY <1>1 DEF Packets
  <2> QED BY <1>1, <2>1, ReceiveKeepsOrder
<1>2. CASE SendReady BY <1>2, SendKeepsOrder
<1>3. CASE SendEnds BY <1>3, SendEndsKeepsOrder
<1>4. CASE FlushSends \/ FlushSkips \/ FlushEnds
  <2>1. pc = "flush" /\ starved' = starved
    BY <1>4 DEF FlushSends, FlushSkips, FlushEnds, FlushNext, history
  <2> QED BY <2>1 DEF Ordered
<1>5. ASSUME UNCHANGED <<arrived, payload_state_array, rxreorder_current_index,
                         back_pressure, pc, sent, starved>>
      PROVE  Ordered'
  BY <1>5 DEF Ordered, Delivered, Awaited
<1>6. CASE RxPollFreeBuffer BY <1>5, <1>6 DEF RxPollFreeBuffer, window, history
<1>7. CASE AppTakes BY <1>5, <1>7 DEF AppTakes, network, window, history
<1>8. ASSUME NEW i \in DOMAIN held_by_app, AppFrees(i) PROVE Ordered'
  BY <1>5, <1>8 DEF AppFrees, network, window, history
<1>9. CASE UNCHANGED vars BY <1>5, <1>9 DEF vars, network, window, history
<1> QED BY <1>1, <1>2, <1>3, <1>4, <1>6, <1>7, <1>8, <1>9 DEF Next, Poll, App

(* ... and it is the order of DeliversInOrder.                             *)
LEMMA OrderDelivers == IInv /\ Ordered => DeliversInOrder
<1> SUFFICES ASSUME IInv, Ordered, ~ starved, pc = "poll" PROVE DeliversInOrder
  BY DEF DeliversInOrder
<1> DEFINE n == Len(sent)
<1> DEFINE l == Len(Sizes)
<1> DEFINE S == {m \in 0 .. l : \A j \in 1 .. m : PacketsOf(j) \subseteq arrived}
<1>1. Delivered(n) /\ (n < l => ~ (PacketsOf(n + 1) \subseteq arrived)) BY DEF Ordered
<1>2. n \in Nat /\ l \in Nat /\ sent \in Seq([status : {"Ok", "Error"}, sgl : Seq(Packets)])
  BY RxAssumption, LenProperties DEF IInv, Kinds
<1>3. n <= l /\ n \in S
  <2>1. n <= l /\ \A j \in 1 .. n : PacketsOf(j) \subseteq arrived BY <1>1 DEF Delivered
  <2> HIDE DEF n, l
  <2>2. n \in 0 .. l BY <1>2, <2>1
  <2> QED BY <2>1, <2>2
<1>4. Max(S) \in S /\ Max(S) >= n
  <2>1. S \in SUBSET (0 .. l) /\ S # {} BY <1>3
  <2> HIDE DEF S, l
  <2> QED BY <1>2, <1>3, <2>1, MaxOfNats
<1>5. Max(S) = n
  <2> DEFINE m == Max(S)
  <2>1. m \in 0 .. l /\ (\A j \in 1 .. m : PacketsOf(j) \subseteq arrived) BY <1>4
  <2>2. m >= n BY <1>4
  <2> HIDE DEF m, n, l, S
  <2>3. m > n => n < l /\ n + 1 \in 1 .. m BY <1>2, <2>1
  <2>4. ~ (m > n) BY <1>1, <2>1, <2>3
  <2> QED BY <1>2, <2>1, <2>2, <2>4 DEF m
<1>6. sent = [k \in 1 .. n |-> [status |-> "Ok", sgl |-> Whole(k)]]
  <2>1. \A k \in 1 .. n : sent[k] = [status |-> "Ok", sgl |-> Whole(k)] BY <1>1 DEF Delivered
  <2>2. DOMAIN sent = 1 .. n /\ sent = [k \in DOMAIN sent |-> sent[k]] BY <1>2
  <2> QED BY <2>1, <2>2
<1> QED BY <1>5, <1>6 DEF DeliversInOrder

-----------------------------------------------------------------------------
(***************************************************************************)
(* The theorems.                                                           *)
(***************************************************************************)
(* The invariant holds at the start ...                                    *)
LEMMA InitHolds == Init => IInv
<1> SUFFICES ASSUME Init PROVE IInv OBVIOUS
<1> DEFINE a == payload_state_array
<1>1. /\ arrived = {} /\ posted = PacketBuffers /\ total_packet_count = 0
      /\ a = [i \in Slots |-> None]
      /\ rxreorder_current_index = 0 /\ rxreorder_buffered_packet_count = 0
      /\ back_pressure = FALSE
      /\ free_memory = MemoryStates /\ free_lists = ReorderLists
      /\ complete_queue = <<>> /\ held_by_app = <<>> /\ free_buffer_queue = <<>>
      /\ pc = "poll" /\ flush_idx = 0 /\ flush_start = 0
      /\ sent = <<>> /\ starved = FALSE /\ lost = 0
  BY DEF Init
<1>2. /\ {PacketBuffers, ReorderLists, QueueSize, FreeQueueSize} \subseteq Nat
      /\ Window \in Nat \ {0} /\ MemoryStates \in Nat
  BY Constants
<1>3. Kinds
  <2>1. a \in Arrays(arrived) BY <1>1 DEF Arrays, SlotStates
  <2>2. /\ complete_queue \in Seq(Notes) /\ Len(complete_queue) <= QueueSize
        /\ held_by_app \in Seq(Nat)
        /\ free_buffer_queue \in Seq(Nat) /\ Len(free_buffer_queue) <= FreeQueueSize
        /\ sent \in Seq([status : {"Ok", "Error"}, sgl : Seq(Packets)])
    BY <1>1, <1>2
  <2> QED BY <1>1, <1>2, <2>1, <2>2, IndexFacts DEF Kinds
<1>4. HeldTotal(a) = 0 /\ MemoryTotal(a) = 0 /\ ListsTotal(a) = 0 /\ CountTotal(a) = 0
  <2> DEFINE h == [i \in Slots |-> HeldIn(a[i])]
  <2> DEFINE m == [i \in Slots |-> MemoryIn(a[i])]
  <2> DEFINE l == [i \in Slots |-> ListsIn(a[i])]
  <2> DEFINE c == [i \in Slots |-> CountIn(a[i])]
  <2>1. HeldIn(None) = 0 /\ MemoryIn(None) = 0 /\ ListsIn(None) = 0 /\ CountIn(None) = 0
    BY DEF HeldIn, MemoryIn, ListsIn, CountIn, Owns, IsPending
  <2>2. /\ h \in [Slots -> Nat] /\ \A i \in Slots : h[i] = 0
        /\ m \in [Slots -> Nat] /\ \A i \in Slots : m[i] = 0
        /\ l \in [Slots -> Nat] /\ \A i \in Slots : l[i] = 0
        /\ c \in [Slots -> Nat] /\ \A i \in Slots : c[i] = 0
    BY <1>1, <2>1
  <2>3. HeldTotal(a) = Total(h) /\ MemoryTotal(a) = Total(m) /\ ListsTotal(a) = Total(l)
        /\ CountTotal(a) = Total(c)
    BY DEF HeldTotal, MemoryTotal, ListsTotal, CountTotal
  <2> HIDE DEF h, m, l, c
  <2>4. Total(h) = 0 BY <2>2, TotalZero
  <2>5. Total(m) = 0 BY <2>2, TotalZero
  <2>6. Total(l) = 0 BY <2>2, TotalZero
  <2>7. Total(c) = 0 BY <2>2, TotalZero
  <2> QED BY <2>3, <2>4, <2>5, <2>6, <2>7
<1>5. HeldOf(<<>>) = 0 /\ OwnedOf(<<>>) = 0
  <2> DEFINE q == <<>>
  <2> DEFINE h == [j \in DOMAIN q |-> q[j].held]
  <2> DEFINE o == [j \in DOMAIN q |-> IF q[j].owner THEN 1 ELSE 0]
  <2>1. DOMAIN q = {} BY EmptyRuns
  <2>2. h \in [{} -> Nat] /\ o \in [{} -> Nat] BY <2>1
  <2>3. HeldOf(q) = Total(h) /\ OwnedOf(q) = Total(o) BY DEF HeldOf, OwnedOf
  <2> HIDE DEF h, o
  <2>4. Total(h) = 0 BY <2>2, TotalZero
  <2>5. Total(o) = 0 BY <2>2, TotalZero
  <2> QED BY <2>3, <2>4, <2>5
<1>6. Balance BY <1>1, <1>2, <1>4, <1>5, TotalOfNone DEF Balance
<1>7. Flushed BY <1>1, <1>2 DEF Flushed
<1> QED BY <1>3, <1>6, <1>7 DEF IInv

(* ... and every step keeps it.                                            *)
LEMMA NextHolds == IInv /\ [Next]_vars => IInv'
<1> SUFFICES ASSUME IInv, [Next]_vars PROVE IInv' OBVIOUS
<1>1. ASSUME NEW k \in Payloads, NEW p \in PacketsOf(k), RxPacketReceive(p) PROVE IInv'
  <2>1. p \in Packets BY <1>1 DEF Packets
  <2>2. CASE PacketUnwanted(p) BY <2>1, <2>2, UnwantedStep
  <2>3. CASE PacketStarved(p) BY <2>1, <2>3, StarvedStep
  <2>4. CASE PacketNoList(p) BY <2>1, <2>4, NoListStep
  <2>5. CASE PacketStored(p) BY <2>1, <2>5, StoredStep
  <2>6. CASE PacketCompletes(p) BY <2>1, <2>6, CompletesStep
  <2>7. CASE PacketMismatch(p) BY <2>1, <2>7, MismatchStep
  <2> QED BY <1>1, <2>2, <2>3, <2>4, <2>5, <2>6, <2>7 DEF RxPacketReceive
<1>2. CASE SendReady BY <1>2, SendReadyStep
<1>3. CASE SendEnds BY <1>3, SendEndsStep
<1>4. CASE FlushSends BY <1>4, FlushSendsStep
<1>5. CASE FlushSkips BY <1>5, FlushSkipsStep
<1>6. CASE FlushEnds BY <1>6, FlushEndsStep
<1>7. CASE RxPollFreeBuffer BY <1>7, PollFreeStep
<1>8. CASE AppTakes BY <1>8, AppTakesStep
<1>9. ASSUME NEW i \in DOMAIN held_by_app, AppFrees(i) PROVE IInv' BY <1>9, AppFreesStep
<1>10. CASE UNCHANGED vars
  BY <1>10 DEF IInv, Kinds, Balance, Flushed, vars, network, window, pools, application,
                flushing, history
<1> QED BY <1>1, <1>2, <1>3, <1>4, <1>5, <1>6, <1>7, <1>8, <1>9, <1>10 DEF Next, Poll, App

(* The inductive invariant holds in every state of every behaviour.        *)
THEOREM Invariance == Spec => []IInv
BY InitHolds, NextHolds, PTL DEF Spec

(* Every variable keeps its type, for any number of payloads, slots and    *)
(* buffers: no pool is overdrawn or overfilled, and no queue has more than *)
(* it can hold.                                                            *)
THEOREM TypeCorrect == Spec => []TypeOK
<1>1. IInv => TypeOK
  <2> SUFFICES ASSUME IInv PROVE TypeOK OBVIOUS
  <2>1. /\ posted \in Nat /\ free_memory \in Nat /\ free_lists \in Nat /\ lost \in Nat
        /\ HeldOf(complete_queue) \in Nat /\ OwnedOf(complete_queue) \in Nat
        /\ Total(held_by_app) \in Nat /\ Total(free_buffer_queue) \in Nat
        /\ Len(held_by_app) \in Nat /\ Len(free_buffer_queue) \in Nat
        /\ HeldTotal(payload_state_array) \in Nat /\ MemoryTotal(payload_state_array) \in Nat
        /\ ListsTotal(payload_state_array) \in Nat /\ CountTotal(payload_state_array) \in Nat
    BY NumbersOfKinds
  <2>2. /\ {PacketBuffers, ReorderLists, QueueSize, FreeQueueSize} \subseteq Nat
        /\ MemoryStates \in Nat
    BY Constants
  <2>3. posted <= PacketBuffers
    <3> DEFINE a == HeldTotal(payload_state_array)
    <3> DEFINE b == HeldOf(complete_queue)
    <3> DEFINE c == Total(held_by_app)
    <3> DEFINE d == Total(free_buffer_queue)
    <3>1. /\ posted + a + b + c + d = PacketBuffers
          /\ a \in Nat /\ b \in Nat /\ c \in Nat /\ d \in Nat
      BY <2>1 DEF IInv, Balance
    <3>2. posted \in Nat /\ PacketBuffers \in Nat BY <2>1, <2>2
    <3> HIDE DEF a, b, c, d
    <3>3. posted <= posted + (a + b + c + d) BY <3>1, <3>2
    <3>4. posted + (a + b + c + d) = PacketBuffers BY <3>1, <3>2
    <3> QED BY <3>3, <3>4
  <2>4. free_memory <= MemoryStates
    <3> DEFINE a == MemoryTotal(payload_state_array)
    <3> DEFINE b == OwnedOf(complete_queue)
    <3> DEFINE c == Len(held_by_app)
    <3> DEFINE d == Len(free_buffer_queue)
    <3>1. /\ free_memory + lost + c + d + a + b = MemoryStates
          /\ a \in Nat /\ b \in Nat /\ c \in Nat /\ d \in Nat
      BY <2>1 DEF IInv, Balance
    <3>2. free_memory \in Nat /\ lost \in Nat /\ MemoryStates \in Nat BY <2>1, <2>2
    <3> HIDE DEF a, b, c, d
    <3>3. free_memory <= free_memory + (lost + c + d + a + b) BY <3>1, <3>2
    <3>4. free_memory + (lost + c + d + a + b) = MemoryStates BY <3>1, <3>2
    <3> QED BY <3>3, <3>4
  <2>5. free_lists <= ReorderLists
    <3> DEFINE a == ListsTotal(payload_state_array)
    <3>1. free_lists + a = ReorderLists /\ a \in Nat BY <2>1 DEF IInv, Balance
    <3> HIDE DEF a
    <3> QED BY <2>1, <2>2, <3>1
  <2>6. rxreorder_buffered_packet_count \in Nat BY <2>1 DEF IInv, Balance
  <2>7. payload_state_array \in [Slots -> PayloadState \cup {None}]
    <3>1. SlotStates(arrived) \subseteq PayloadState \cup {None} BY DEF SlotStates, Sound
    <3> QED BY <3>1 DEF IInv, Kinds, Arrays
  <2>8. complete_queue \in Seq(Notices)
    <3>1. Notes \subseteq Notices BY DEF Notes
    <3> QED BY <3>1 DEF IInv, Kinds
  <2>9. /\ posted \in 0 .. PacketBuffers /\ free_memory \in 0 .. MemoryStates
        /\ free_lists \in 0 .. ReorderLists
    BY <2>1, <2>2, <2>3, <2>4, <2>5
  <2> QED BY <2>1, <2>6, <2>7, <2>8, <2>9 DEF TypeOK, IInv, Kinds
<1> QED BY <1>1, Invariance, PTL

(* No packet buffer, memory state or reorder list is lost or given back    *)
(* twice, whatever arrives in whatever order, whichever pools run out and  *)
(* however late the application frees what it has; the one exception, a    *)
(* memory state lost for each payload with an error that found the queue   *)
(* of callbacks full, is counted (RxSendPayload, RxPollFreeBuffer,         *)
(* RxReorderPayloadError).                                                 *)
THEOREM ResourcesStay == Spec => []ResourcesAreConserved
<1>1. IInv => ResourcesAreConserved
  BY DEF IInv, Balance, ResourcesAreConserved, BuffersAreConserved, PoolsAreConserved,
         HeldTotal, MemoryTotal, ListsTotal, HeldOf, OwnedOf
<1> QED BY <1>1, Invariance, PTL

(* The window count is exact and PollThread leaves it below the limit: a   *)
(* flush sends all the payloads it has to (FlushPartialPayload,            *)
(* RxReorderPayloadSendReadyPayloads).                                     *)
THEOREM WindowCount == Spec => []WindowCountIsExact
<1>1. IInv => WindowCountIsExact
  <2> SUFFICES ASSUME IInv PROVE WindowCountIsExact OBVIOUS
  <2>1. rxreorder_buffered_packet_count = CountTotal(payload_state_array) BY DEF IInv, Balance
  <2>2. pc = "poll" => ~ WindowFull
    <3>1. rxreorder_buffered_packet_count \in Nat /\ Window \in Nat
      BY <2>1, NumbersOfKinds, Constants
    <3> QED BY <3>1 DEF IInv, Flushed, WindowFull
  <2> QED BY <2>1, <2>2 DEF WindowCountIsExact, CountTotal
<1> QED BY <1>1, Invariance, PTL

(* The reorder lists of a payload are consecutive packets with a gap       *)
(* between two lists, so as few as its packets allow, in every order of    *)
(* arrival, and hold every packet that was kept (RxReorderPacket,          *)
(* ProcessList).                                                           *)
THEOREM Runs == Spec => []RunsAreMaximal
<1>1. IInv => RunsAreMaximal
  <2> SUFFICES ASSUME IInv, NEW i \in Used, payload_state_array[i].state \in Pending
               PROVE  LET st == payload_state_array[i]
                      IN  /\ OfOnePayload(st.runs) => Maximal(st.runs)
                          /\ Received(st.runs) = st.packet_count /\ st.held = st.packet_count
    BY DEF RunsAreMaximal
  <2>1. payload_state_array[i] \in Sound(arrived)
    BY DEF Used, IInv, Kinds, Arrays, SlotStates
  <2> QED BY <2>1 DEF Sound
<1> QED BY <1>1, Invariance, PTL

(* Until a pool is empty or the window full, the application gets the      *)
(* payloads in the order of sending, each once and with all its packets in *)
(* order, whatever the order of arrival and across every wrap of the       *)
(* payload number (RxReorderPayloadSendReadyPayloads, RxReorderPacket,     *)
(* FinalizePayload).  NumbersFit holds for the library's numbers with      *)
(* protocol 2: 8 payloads under way unless the connection is configured    *)
(* for more (CDI_MAX_SIMULTANEOUS_TX_PAYLOADS_PER_CONNECTION), a window of *)
(* 5000 packets (CDI_MAX_RX_PACKET_OUT_OF_ORDER_WINDOW), 65536 numbers and *)
(* 8192 slots (CDI_MAX_RX_PAYLOAD_OUT_OF_ORDER_BUFFER).  The 256 numbers   *)
(* of protocol 1 do not fit that window.                                   *)
THEOREM InOrder == ASSUME NumbersFit PROVE Spec => []DeliversInOrder
<1>1. Init /\ NumbersFit => Ordered BY OrderAtStart
<1>2. IInv /\ Ordered /\ [Next]_vars => Ordered' BY OrderKept, NumbersFit
<1> QED BY <1>1, <1>2, OrderDelivers, Invariance, PTL DEF Spec
=============================================================================

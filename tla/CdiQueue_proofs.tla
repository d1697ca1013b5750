--------------------------- MODULE CdiQueue_proofs ---------------------------
(***************************************************************************)
(* Proofs about CdiQueue, for any number of pushers (sharing the lock),    *)
(* any items and any size and growth of the queue.                         *)
(***************************************************************************)
EXTENDS CdiQueue, SequenceTheorems, TLAPS

(***************************************************************************)
(* What the three operations that touch the ring do to it.                 *)
(***************************************************************************)

Rotated(c, n, k) ==
  [i \in 0 .. n - 1 |-> IF i + k < n THEN c[i + k] ELSE c[i + k - n]]

(* Moving the read pointer on by k queued items (a pop moves it by one, a  *)
(* flush by all of them) rotates the ring.                                 *)
LEMMA CycleRotates ==
  ASSUME NEW n \in Nat \ {0}, NEW k \in 0 .. n - 1,
         NEW E, NEW c \in [0 .. n - 1 -> E], NEW nx, Cycle(c, n, nx)
  PROVE  /\ Rotated(c, n, k) \in [0 .. n - 1 -> E]
         /\ \A i \in 0 .. n - 1 - k : Rotated(c, n, k)[i] = c[i + k]
         /\ Cycle(Rotated(c, n, k), n, nx)
<1> DEFINE d == Rotated(c, n, k)
<1>1. \A i \in 0 .. n - 1 - k : d[i] = c[i + k]
  BY DEF Rotated
<1>2. \A i \in n - k .. n - 1 : d[i] = c[i + k - n]
  BY DEF Rotated
<1>3. d \in [0 .. n - 1 -> E]
  BY DEF Rotated
<1> HIDE DEF d
<1>4. ASSUME NEW i \in 0 .. n - 1, NEW j \in 0 .. n - 1, d[i] = d[j]
      PROVE  i = j
  <2>1. \A x, y \in 0 .. n - 1 : c[x] = c[y] => x = y
    BY DEF Cycle
  <2>2. CASE i \in 0 .. n - 1 - k /\ j \in 0 .. n - 1 - k
    BY <2>1, <2>2, <1>4, <1>1
  <2>3. CASE i \in 0 .. n - 1 - k /\ j \in n - k .. n - 1
    BY <2>1, <2>3, <1>4, <1>1, <1>2
  <2>4. CASE i \in n - k .. n - 1 /\ j \in 0 .. n - 1 - k
    BY <2>1, <2>4, <1>4, <1>1, <1>2
  <2>5. CASE i \in n - k .. n - 1 /\ j \in n - k .. n - 1
    BY <2>1, <2>5, <1>4, <1>2
  <2> QED BY <2>2, <2>3, <2>4, <2>5
<1>5. ASSUME NEW i \in 0 .. n - 2 PROVE nx[d[i]] = d[i + 1]
  <2>1. CASE i + k < n - 1
    <3>1. d[i] = c[i + k] /\ d[i + 1] = c[i + 1 + k] /\ i + 1 + k = i + k + 1
      BY <2>1, <1>1
    <3>2. nx[c[i + k]] = c[i + k + 1]
      BY <2>1 DEF Cycle
    <3> QED BY <3>1, <3>2
  <2>2. CASE i + k = n - 1
    <3>1. d[i] = c[i + k] /\ d[i + 1] = c[i + 1 + k - n] /\ i + 1 + k - n = 0
      BY <2>2, <1>1, <1>2
    <3> QED BY <2>2, <3>1 DEF Cycle
  <2>3. CASE i + k > n - 1
    <3>1. /\ d[i] = c[i + k - n] /\ d[i + 1] = c[i + 1 + k - n]
          /\ i + 1 + k - n = i + k - n + 1
      BY <2>3, <1>2
    <3>2. nx[c[i + k - n]] = c[i + k - n + 1]
      BY <2>3 DEF Cycle
    <3> QED BY <3>1, <3>2
  <2> QED BY <2>1, <2>2, <2>3
<1>6. nx[d[n - 1]] = d[0]
  <2>1. CASE k = 0
    <3>1. d[n - 1] = c[n - 1] /\ d[0] = c[0]
      BY <2>1, <1>1
    <3> QED BY <3>1 DEF Cycle
  <2>2. CASE k # 0
    <3>1. d[n - 1] = c[n - 1 + k - n] /\ d[0] = c[k] /\ n - 1 + k - n = k - 1
      BY <2>2, <1>1, <1>2
    <3>2. nx[c[k - 1]] = c[k - 1 + 1] /\ k - 1 + 1 = k
      BY <2>2 DEF Cycle
    <3> QED BY <3>1, <3>2
  <2> QED BY <2>1, <2>2
<1>7. \A i, j \in 0 .. n - 1 : d[i] = d[j] => i = j
  BY <1>4
<1>8. \A i \in 0 .. n - 2 : nx[d[i]] = d[i + 1]
  BY <1>5
<1>9. Cycle(d, n, nx)
  BY <1>6, <1>7, <1>8 DEF Cycle
<1> QED BY <1>1, <1>3, <1>9 DEF d

(* A ring of entries is the same ring seen from its reader, k pops later.  *)
LEMMA RingRotates ==
  ASSUME NEW n \in Nat \ {0}, NEW k \in Nat, NEW o \in Nat, NEW S, NEW s \in Seq(S),
         NEW E, NEW c \in [0 .. n - 1 -> E], NEW nx, NEW it, NEW rd, NEW wr,
         Ring(c, n, nx, it, rd, wr, s, o), k <= Len(s) - o
  PROVE  /\ Rotated(c, n, k) \in [0 .. n - 1 -> E]
         /\ Ring(Rotated(c, n, k), n, nx, it, c[k], wr, s, o + k)
<1> DEFINE d == Rotated(c, n, k)
<1>1. /\ Len(s) \in Nat
      /\ Len(s) - o \in 0 .. n - 1
      /\ k \in 0 .. n - 1
  BY DEF Ring
<1>2. Cycle(c, n, nx)
  BY DEF Ring
<1>3. /\ d \in [0 .. n - 1 -> E]
      /\ \A i \in 0 .. n - 1 - k : d[i] = c[i + k]
      /\ Cycle(d, n, nx)
  BY <1>1, <1>2, CycleRotates
<1> HIDE DEF d
<1>4. d[0] = c[k]
  BY <1>1, <1>3
<1>5. d[Len(s) - (o + k)] = wr
  <2>1. /\ Len(s) - (o + k) \in 0 .. n - 1 - k
        /\ Len(s) - (o + k) + k = Len(s) - o
    BY <1>1
  <2> QED BY <2>1, <1>3 DEF Ring
<1>6. \A i \in 0 .. Len(s) - (o + k) - 1 : it[d[i]] = s[o + k + 1 + i]
  <2> SUFFICES ASSUME NEW i \in 0 .. Len(s) - (o + k) - 1
               PROVE  it[d[i]] = s[o + k + 1 + i]
    OBVIOUS
  <2>1. i + k \in 0 .. Len(s) - o - 1 /\ i \in 0 .. n - 1 - k
    BY <1>1
  <2>2. it[c[i + k]] = s[o + 1 + (i + k)]
    BY <2>1 DEF Ring
  <2>3. o + 1 + (i + k) = o + k + 1 + i
    BY <1>1
  <2> QED BY <2>1, <2>2, <2>3, <1>3
<1>7. Len(s) - (o + k) \in 0 .. n - 1
  BY <1>1
<1>8. Ring(d, n, nx, it, c[k], wr, s, o + k)
  BY <1>3, <1>4, <1>5, <1>6, <1>7 DEF Ring
<1> QED BY <1>3, <1>8 DEF d

(* Writing the write entry leaves the queued items alone.                  *)
LEMMA RingCopies ==
  ASSUME NEW n \in Nat \ {0}, NEW o \in Nat, NEW S, NEW s \in Seq(S),
         NEW E, NEW c \in [0 .. n - 1 -> E], NEW nx, NEW V, NEW it \in [E -> V],
         NEW rd, NEW wr, NEW v,
         Ring(c, n, nx, it, rd, wr, s, o)
  PROVE  Ring(c, n, nx, [it EXCEPT ![wr] = v], rd, wr, s, o)
<1>0. /\ Len(s) \in Nat
      /\ Len(s) - o \in 0 .. n - 1
      /\ wr \in E
  BY DEF Ring, Cycle
<1>1. \A i \in 0 .. Len(s) - o - 1 : c[i] # wr /\ c[i] \in E
  BY <1>0 DEF Ring, Cycle
<1> QED BY <1>0, <1>1 DEF Ring, Cycle

(* Publishing the entry written makes it the last item queued.             *)
LEMMA RingPublishes ==
  ASSUME NEW n \in Nat \ {0}, NEW o \in Nat, NEW S, NEW s \in Seq(S), NEW v \in S,
         NEW E, NEW c \in [0 .. n - 1 -> E], NEW nx, NEW it, NEW rd, NEW wr,
         Ring(c, n, nx, it, rd, wr, s, o),
         it[wr] = v, Len(s) - o < n - 1
  PROVE  Ring(c, n, nx, it, rd, nx[wr], Append(s, v), o)
<1>0. /\ Len(s) \in Nat
      /\ Len(s) - o \in 0 .. n - 2
  BY DEF Ring, Cycle
<1> DEFINE t == Append(s, v)
<1>1. /\ t \in Seq(S)
      /\ Len(t) = Len(s) + 1
      /\ \A i \in 1 .. Len(s) : t[i] = s[i]
      /\ t[Len(s) + 1] = v
  OBVIOUS
<1> HIDE DEF t
<1>2. c[Len(t) - o] = nx[wr]
  <2>1. nx[c[Len(s) - o]] = c[Len(s) - o + 1]
    BY <1>0 DEF Ring, Cycle
  <2> QED BY <2>1, <1>0, <1>1 DEF Ring, Cycle
<1>3. \A i \in 0 .. Len(t) - o - 1 : it[c[i]] = t[o + 1 + i]
  <2> SUFFICES ASSUME NEW i \in 0 .. Len(t) - o - 1 PROVE it[c[i]] = t[o + 1 + i]
    OBVIOUS
  <2>1. CASE i = Len(s) - o
    <3>1. it[c[i]] = v
      BY <2>1 DEF Ring, Cycle
    <3>2. o + 1 + i = Len(s) + 1
      BY <2>1, <1>0
    <3> QED BY <3>1, <3>2, <1>1
  <2>2. CASE i # Len(s) - o
    <3>1. i \in 0 .. Len(s) - o - 1 /\ o + 1 + i \in 1 .. Len(s)
      BY <2>2, <1>0, <1>1
    <3> QED BY <3>1, <1>1 DEF Ring, Cycle
  <2> QED BY <2>1, <2>2
<1>4. Len(t) - o \in 0 .. n - 1
  BY <1>0, <1>1
<1>5. Ring(c, n, nx, it, rd, nx[wr], t, o)
  BY <1>2, <1>3, <1>4 DEF Ring, Cycle
<1> QED BY <1>5 DEF t

(* QueueIncrease puts g new entries between the write entry and the one    *)
(* that follows it.                                                        *)
Extended(c, n, m, g) ==
  [i \in 0 .. n + g - 1 |-> IF i <= m THEN c[i]
                            ELSE IF i <= m + g THEN n + (i - m)
                            ELSE c[i - g]]

(* The links after the growth: ring of n entries, write entry wr.          *)
Relinked(n, g, wr, nx, nx2) ==
  /\ nx2[n + g] = nx[wr]
  /\ nx2[wr] = n + 1
  /\ \A e \in 1 .. n : e # wr => nx2[e] = nx[e]
  /\ \A e \in n + 1 .. n + g - 1 : nx2[e] = e + 1

(* New entries linked in behind a written one leave a single cycle.        *)
LEMMA CycleGrows ==
  ASSUME NEW n \in Nat \ {0}, NEW g \in Nat \ {0}, NEW m \in 0 .. n - 1,
         NEW c \in [0 .. n - 1 -> 1 .. n], NEW nx, NEW nx2,
         Cycle(c, n, nx), Relinked(n, g, c[m], nx, nx2)
  PROVE  /\ Extended(c, n, m, g) \in [0 .. n + g - 1 -> 1 .. n + g]
         /\ \A i \in 0 .. m : Extended(c, n, m, g)[i] = c[i]
         /\ Cycle(Extended(c, n, m, g), n + g, nx2)
<1> DEFINE d == Extended(c, n, m, g)
<1>1. \A i \in 0 .. m : d[i] = c[i]
  BY DEF Extended
<1>2. \A i \in m + 1 .. m + g : d[i] = n + (i - m)
  BY DEF Extended
<1>3. \A i \in m + g + 1 .. n + g - 1 : d[i] = c[i - g]
  BY DEF Extended
<1>4. d \in [0 .. n + g - 1 -> 1 .. n + g]
  BY DEF Extended
<1> HIDE DEF d
<1>5. \A i \in 0 .. n - 1 : c[i] \in 1 .. n
  OBVIOUS
<1>6. \A x, y \in 0 .. n - 1 : c[x] = c[y] => x = y
  BY DEF Cycle
<1>7. ASSUME NEW i \in 0 .. n + g - 1, NEW j \in 0 .. n + g - 1, d[i] = d[j]
      PROVE  i = j
  <2>1. ASSUME NEW x \in 0 .. m PROVE d[x] = c[x] /\ x \in 0 .. n - 1 /\ d[x] \in 1 .. n
    BY <1>1, <1>5
  <2>2. ASSUME NEW x \in m + 1 .. m + g PROVE d[x] = n + (x - m) /\ d[x] > n
    BY <1>2
  <2>3. ASSUME NEW x \in m + g + 1 .. n + g - 1
        PROVE  d[x] = c[x - g] /\ x - g \in 0 .. n - 1 /\ x - g > m /\ d[x] \in 1 .. n
    BY <1>3, <1>5
  <2>4. CASE i \in 0 .. m
    <3>1. CASE j \in 0 .. m
      BY <2>1, <2>4, <3>1, <1>6, <1>7
    <3>2. CASE j \in m + 1 .. m + g
      BY <2>1, <2>2, <2>4, <3>2, <1>7
    <3>3. CASE j \in m + g + 1 .. n + g - 1
      BY <2>1, <2>3, <2>4, <3>3, <1>6, <1>7
    <3> QED BY <3>1, <3>2, <3>3
  <2>5. CASE i \in m + 1 .. m + g
    <3>1. CASE j \in 0 .. m
      BY <2>1, <2>2, <2>5, <3>1, <1>7
    <3>2. CASE j \in m + 1 .. m + g
      BY <2>2, <2>5, <3>2, <1>7
    <3>3. CASE j \in m + g + 1 .. n + g - 1
      BY <2>2, <2>3, <2>5, <3>3, <1>7
    <3> QED BY <3>1, <3>2, <3>3
  <2>6. CASE i \in m + g + 1 .. n + g - 1
    <3>1. CASE j \in 0 .. m
      BY <2>1, <2>3, <2>6, <3>1, <1>6, <1>7
    <3>2. CASE j \in m + 1 .. m + g
      BY <2>2, <2>3, <2>6, <3>2, <1>7
    <3>3. CASE j \in m + g + 1 .. n + g - 1
      <4>1. i - g = j - g
        BY <2>3, <2>6, <3>3, <1>6, <1>7
      <4> QED BY <4>1
    <3> QED BY <3>1, <3>2, <3>3
  <2> QED BY <2>4, <2>5, <2>6
<1>8. ASSUME NEW i \in 0 .. n + g - 2 PROVE nx2[d[i]] = d[i + 1]
  <2>1. CASE i \in 0 .. m - 1
    <3>1. c[i] \in 1 .. n /\ c[i] # c[m] /\ nx[c[i]] = c[i + 1]
      BY <2>1 DEF Cycle
    <3>2. d[i] = c[i] /\ d[i + 1] = c[i + 1]
      BY <2>1, <1>1
    <3>3. nx2[c[i]] = nx[c[i]]
      BY <3>1, Zenon DEF Relinked
    <3> QED BY <3>1, <3>2, <3>3, Zenon
  <2>2. CASE i = m
    <3>1. d[m] = c[m] /\ d[m + 1] = n + (m + 1 - m) /\ n + (m + 1 - m) = n + 1
      BY <1>1, <1>2
    <3> QED BY <2>2, <3>1 DEF Relinked
  <2>3. CASE i \in m + 1 .. m + g - 1
    <3>1. d[i] = n + (i - m) /\ n + (i - m) \in n + 1 .. n + g - 1
      BY <2>3, <1>2
    <3>2. d[i + 1] = n + (i + 1 - m) /\ n + (i + 1 - m) = n + (i - m) + 1
      BY <2>3, <1>2
    <3> QED BY <3>1, <3>2 DEF Relinked
  <2>4. CASE i = m + g
    <3>1. m + 1 \in 0 .. n - 1 /\ i + 1 \in m + g + 1 .. n + g - 1 /\ i + 1 - g = m + 1
      BY <2>4
    <3>2. d[i] = n + (i - m) /\ n + (i - m) = n + g
      BY <2>4, <1>2
    <3>3. d[i + 1] = c[m + 1]
      BY <3>1, <1>3
    <3>4. nx[c[m]] = c[m + 1]
      BY <3>1 DEF Cycle
    <3> QED BY <3>2, <3>3, <3>4 DEF Relinked
  <2>5. CASE i \in m + g + 1 .. n + g - 2
    <3>1. i - g \in m + 1 .. n - 2 /\ i + 1 - g = (i - g) + 1
      BY <2>5
    <3>2. d[i] = c[i - g] /\ d[i + 1] = c[i + 1 - g]
      BY <2>5, <1>3
    <3>3. c[i - g] \in 1 .. n /\ c[i - g] # c[m] /\ nx[c[i - g]] = c[(i - g) + 1]
      <4> DEFINE x == i - g
      <4>1. x \in 0 .. n - 1 /\ x \in 0 .. n - 2 /\ m \in 0 .. n - 1 /\ x # m
        BY <3>1
      <4> HIDE DEF x
      <4>2. c[x] \in 1 .. n
        BY <4>1
      <4>3. c[x] # c[m]
        BY <4>1, Zenon DEF Cycle
      <4>4. nx[c[x]] = c[x + 1]
        BY <4>1, Zenon DEF Cycle
      <4> QED BY <4>2, <4>3, <4>4 DEF x
    <3>4. nx2[c[i - g]] = nx[c[i - g]]
      BY <3>3, Zenon DEF Relinked
    <3>5. c[i + 1 - g] = c[(i - g) + 1]
      BY <3>1
    <3>6. nx2[d[i]] = nx[c[i - g]] /\ d[i + 1] = nx[c[i - g]]
      BY <3>2, <3>3, <3>4, <3>5, Zenon
    <3> QED BY <3>6, Zenon
  <2>6. \/ i \in 0 .. m - 1 \/ i = m \/ i \in m + 1 .. m + g - 1
        \/ i = m + g \/ i \in m + g + 1 .. n + g - 2
    OBVIOUS
  <2> QED BY <2>1, <2>2, <2>3, <2>4, <2>5, <2>6, Zenon
<1>9. nx2[d[n + g - 1]] = d[0]
  <2>1. nx[c[n - 1]] = c[0] /\ d[0] = c[0]
    BY <1>1 DEF Cycle
  <2>2. CASE m = n - 1
    <3>1. d[n + g - 1] = n + (n + g - 1 - m) /\ n + (n + g - 1 - m) = n + g
      BY <2>2, <1>2
    <3> QED BY <2>1, <2>2, <3>1 DEF Relinked
  <2>3. CASE m # n - 1
    <3>1. n + g - 1 \in m + g + 1 .. n + g - 1 /\ n + g - 1 - g = n - 1
      BY <2>3
    <3>2. d[n + g - 1] = c[n - 1]
      BY <3>1, <1>3
    <3>3. c[n - 1] \in 1 .. n /\ c[n - 1] # c[m]
      BY <2>3 DEF Cycle
    <3> QED BY <2>1, <3>2, <3>3 DEF Relinked
  <2> QED BY <2>2, <2>3
<1>10. \A i \in 0 .. n + g - 2 : nx2[d[i]] = d[i + 1]
  BY <1>8
<1>11. \A i, j \in 0 .. n + g - 1 : d[i] = d[j] => i = j
  BY <1>7
<1>12. Cycle(d, n + g, nx2)
  BY <1>9, <1>10, <1>11, SMTT(20) DEF Cycle
<1> QED BY <1>1, <1>4, <1>12, Zenon DEF d

(* A ring that grows by new entries keeps what is queued, in its order.    *)
LEMMA RingGrows ==
  ASSUME NEW n \in Nat \ {0}, NEW g \in Nat \ {0}, NEW o \in Nat,
         NEW S, NEW s \in Seq(S), NEW c \in [0 .. n - 1 -> 1 .. n],
         NEW nx, NEW it, NEW rd, NEW wr,
         NEW nx2, NEW it2,
         Ring(c, n, nx, it, rd, wr, s, o),
         Relinked(n, g, wr, nx, nx2),
         \A e \in 1 .. n : it2[e] = it[e]
  PROVE  /\ Extended(c, n, Len(s) - o, g) \in [0 .. n + g - 1 -> 1 .. n + g]
         /\ Ring(Extended(c, n, Len(s) - o, g), n + g, nx2, it2, rd, wr, s, o)
<1> DEFINE d == Extended(c, n, Len(s) - o, g)
<1>1. Len(s) \in Nat /\ Len(s) - o \in 0 .. n - 1 /\ c[Len(s) - o] = wr
  BY DEF Ring
<1>2. Cycle(c, n, nx)
  BY DEF Ring
<1>3. /\ d \in [0 .. n + g - 1 -> 1 .. n + g]
      /\ \A i \in 0 .. Len(s) - o : d[i] = c[i]
      /\ Cycle(d, n + g, nx2)
  BY <1>1, <1>2, CycleGrows
<1> HIDE DEF d
<1>4. d[0] = rd /\ d[Len(s) - o] = wr
  <2>1. 0 \in 0 .. Len(s) - o /\ Len(s) - o \in 0 .. Len(s) - o
    BY <1>1
  <2>2. c[0] = rd
    BY DEF Ring
  <2> QED BY <2>1, <2>2, <1>1, <1>3
<1>5. \A i \in 0 .. Len(s) - o - 1 : it2[d[i]] = s[o + 1 + i]
  <2> SUFFICES ASSUME NEW i \in 0 .. Len(s) - o - 1 PROVE it2[d[i]] = s[o + 1 + i]
    OBVIOUS
  <2>1. i \in 0 .. n - 1 /\ i \in 0 .. Len(s) - o
    BY <1>1
  <2>2. d[i] = c[i] /\ c[i] \in 1 .. n
    BY <2>1, <1>3
  <2>3. it[c[i]] = s[o + 1 + i]
    BY DEF Ring
  <2> QED BY <2>2, <2>3
<1>6. Len(s) - o \in 0 .. (n + g) - 1
  BY <1>1
<1>7. Ring(d, n + g, nx2, it2, rd, wr, s, o)
  BY <1>3, <1>4, <1>5, <1>6 DEF Ring
<1> QED BY <1>3, <1>7 DEF d

(***************************************************************************)
(* What the ring says about the two pointers, and the lock about pushers.  *)
(***************************************************************************)
LEMMA RingPointers ==
  ASSUME TypeOK, RingInv
  PROVE  /\ Occupancy \in 0 .. queue_item_count - 1
         /\ entry_read_ptr = entry_write_ptr <=> Occupancy = 0
         /\ next[entry_write_ptr] = entry_read_ptr <=> ~HasRoom
         /\ Occupancy > 0 => item[entry_read_ptr] = sent[out + 1]
<1> DEFINE n == queue_item_count
           m == Occupancy
<1>1. n \in Nat \ {0} /\ sent \in Seq(Data) /\ out \in Nat /\ Len(sent) \in Nat
  BY DEF TypeOK, RingTypeOK, PopperTypeOK
<1>2. PICK c \in [0 .. n - 1 -> Entries] :
        Ring(c, n, next, item, entry_read_ptr, entry_write_ptr, sent, out)
  BY DEF RingInv
<1>3. /\ Cycle(c, n, next)
      /\ m \in 0 .. n - 1
      /\ c[0] = entry_read_ptr
      /\ c[m] = entry_write_ptr
      /\ \A i \in 0 .. m - 1 : item[c[i]] = sent[out + 1 + i]
  BY <1>2 DEF Ring, Occupancy
<1> HIDE DEF m, n
<1>4. \A i, j \in 0 .. n - 1 : c[i] = c[j] => i = j
  BY <1>3 DEF Cycle
<1>5. entry_read_ptr = entry_write_ptr <=> m = 0
  BY <1>1, <1>3, <1>4
<1>6. next[entry_write_ptr] = entry_read_ptr <=> ~(m < n - 1)
  <2>1. CASE m = n - 1
    BY <2>1, <1>1, <1>3 DEF Cycle
  <2>2. CASE m < n - 1
    <3>1. next[c[m]] = c[m + 1] /\ m + 1 \in 0 .. n - 1 /\ m + 1 # 0
      BY <2>2, <1>1, <1>3 DEF Cycle
    <3>2. c[m + 1] # c[0]
      BY <3>1, <1>1, <1>4
    <3> QED BY <2>2, <3>1, <3>2, <1>3
  <2> QED BY <2>1, <2>2, <1>1, <1>3
<1>7. m > 0 => item[entry_read_ptr] = sent[out + 1]
  <2> SUFFICES ASSUME m > 0 PROVE item[c[0]] = sent[out + 1]
    BY <1>3
  <2>1. 0 \in 0 .. m - 1 /\ out + 1 + 0 = out + 1
    BY <1>1, <1>3
  <2> QED BY <2>1, <1>3
<1> QED BY <1>3, <1>5, <1>6, <1>7 DEF m, n, HasRoom

(* The lock lets one writer into the queue.                                *)
LEMMA OnePusher ==
  ASSUME LockInv, NEW v \in Writers, NEW w \in Writers,
         w_pc[v] \in Critical, w_pc[w] \in Critical
  PROVE  v = w
BY QueueAssumption DEF LockInv

(***************************************************************************)
(* Every step preserves each part of the inductive invariant.              *)
(***************************************************************************)
LEMMA InitInv == Init => IInv
<1> SUFFICES ASSUME Init PROVE IInv
  OBVIOUS
<1> USE QueueAssumption
<1>1. TypeOK
  <2>1. RingTypeOK
    <3>1. GrowCount * 0 = 0
      OBVIOUS
    <3> QED BY <3>1 DEF Init, RingTypeOK, Entries
  <2>2. SignalTypeOK
    BY DEF Init, SignalTypeOK
  <2>3. PusherTypeOK
    BY DEF Init, PusherTypeOK, Entries
  <2>4. PopperTypeOK
    <3>1. sent \in Seq(Data) /\ Len(sent) = 0
      BY DEF Init
    <3>2. out \in 0 .. Len(sent)
      BY <3>1 DEF Init
    <3>3. /\ r_pc = "idle" /\ r_waits \in BOOLEAN
          /\ r_val \in Data \cup {NoItem} /\ got \in Data \cup {NoItem}
      BY DEF Init
    <3> QED BY <3>1, <3>2, <3>3 DEF PopperTypeOK
  <2> QED BY <2>1, <2>2, <2>3, <2>4 DEF TypeOK
<1>2. RingInv
  <2> DEFINE c == [i \in 0 .. ItemCount |-> i + 1]
  <2>1. c \in [0 .. queue_item_count - 1 -> Entries]
    BY DEF Init, Entries
  <2>2. Len(sent) - out = 0 /\ queue_item_count - 1 = ItemCount
    BY DEF Init
  <2>3. \A i \in 0 .. ItemCount : c[i] = i + 1
    OBVIOUS
  <2>4. Cycle(c, queue_item_count, next)
    <3>1. \A i \in 0 .. queue_item_count - 2 : next[c[i]] = c[i + 1]
      BY <2>3 DEF Init
    <3>2. next[c[queue_item_count - 1]] = c[0]
      BY <2>2, <2>3 DEF Init
    <3>3. \A i, j \in 0 .. queue_item_count - 1 : c[i] = c[j] => i = j
      BY <2>2, <2>3
    <3> QED BY <3>1, <3>2, <3>3 DEF Cycle
  <2>5. Ring(c, queue_item_count, next, item, entry_read_ptr, entry_write_ptr, sent, out)
    BY <2>2, <2>3, <2>4 DEF Init, Ring
  <2> QED BY <2>1, <2>5 DEF RingInv
<1>3. \A w \in Writers : w_pc[w] = "idle"
  BY DEF Init
<1>4. LockInv
  BY <1>3 DEF LockInv, Critical
<1>5. PusherInv
  BY <1>3 DEF PusherInv, PusherInvOf
<1>6. PopperInv
  BY DEF Init, PopperInv, PopsInOrder
<1>7. WaitInv
  BY <1>3 DEF WaitInv, WaitInvOf
<1> QED BY <1>1, <1>2, <1>4, <1>5, <1>6, <1>7 DEF IInv

(* The pushers and poppers leave the ring alone in most of their steps.    *)
LEMMA RingUntouched ==
  RingInv /\ UNCHANGED <<ring, entry_read_ptr, entry_write_ptr, sent, out>> => RingInv'
BY DEF RingInv, Entries, ring

(* Each step keeps the types of the ring.                                  *)
LEMMA RingTypeStep == IInv /\ [Next]_vars => RingTypeOK'
<1> SUFFICES ASSUME IInv, [Next]_vars PROVE RingTypeOK'
  OBVIOUS
<1> USE QueueAssumption DEF ring, history
<1>1. RingTypeOK /\ PusherTypeOK /\ PopperTypeOK
  BY DEF IInv, TypeOK
<1>2. CASE UNCHANGED <<ring, entry_read_ptr, entry_write_ptr>>
  BY <1>1, <1>2 DEF RingTypeOK, Entries
<1>3. ASSUME NEW w \in Writers, PushGrows(w) PROVE RingTypeOK'
  <2>1. /\ queue_cur_grow_count' = queue_cur_grow_count + 1
        /\ queue_item_count' = queue_item_count + GrowCount
        /\ queue_cur_grow_count < MaxGrowCount
        /\ UNCHANGED <<entry_read_ptr, entry_write_ptr>>
    BY <1>3 DEF PushGrows, MayGrow
  <2>2. GrowCount * (queue_cur_grow_count + 1) = GrowCount * queue_cur_grow_count + GrowCount
    BY <1>1 DEF RingTypeOK
  <2>3. /\ queue_cur_grow_count' \in 0 .. MaxGrowCount
        /\ queue_item_count' = ItemCount + 1 + GrowCount * queue_cur_grow_count'
        /\ queue_item_count' \in Nat \ {0}
    BY <1>1, <2>1, <2>2 DEF RingTypeOK
  <2>4. Entries \subseteq Entries' /\ Entries' = 1 .. queue_item_count + GrowCount
    BY <1>1, <2>1 DEF RingTypeOK, Entries
  <2>5. next' \in [Entries' -> Entries']
    BY <1>1, <1>3, <2>4 DEF PushGrows, Grown, MayGrow, RingTypeOK, Entries
  <2>6. item' \in [Entries' -> Data \cup {NoItem}]
    BY <1>1, <1>3, <2>4 DEF PushGrows, RingTypeOK, Entries
  <2>7. entry_read_ptr' \in Entries' /\ entry_write_ptr' \in Entries'
    BY <1>1, <2>1, <2>4 DEF RingTypeOK
  <2> QED BY <2>3, <2>5, <2>6, <2>7 DEF RingTypeOK
<1>4. ASSUME NEW w \in Writers, PushCopy(w) PROVE RingTypeOK'
  BY <1>1, <1>4 DEF PushCopy, RingTypeOK, PusherTypeOK, Entries
<1>5. ASSUME NEW w \in Writers, PushPublish(w) PROVE RingTypeOK'
  BY <1>1, <1>5 DEF PushPublish, RingTypeOK, PusherTypeOK, Entries
<1>6. CASE PopAdvance
  BY <1>1, <1>6 DEF PopAdvance, RingTypeOK, Entries
<1>7. CASE Flush
  BY <1>1, <1>7 DEF Flush, RingTypeOK, Entries
<1>8. ASSUME NEW w \in Writers,
             \/ PushCall(w) \/ PushWaitCall(w) \/ PushWaitFullEntry(w) \/ PushReserve(w)
             \/ PushHasRoom(w) \/ PushRefused(w) \/ PushSignal(w) \/ PushWaitCheck(w)
             \/ PushWaitSignals(w) \/ PushWaitEnds(w)
      PROVE  UNCHANGED <<ring, entry_read_ptr, entry_write_ptr>>
  BY <1>8 DEF PushCall, PushWaitCall, PushWaitFullEntry, PushReserve, PushHasRoom,
              PushRefused, PushSignal, PushWaitCheck, PushWaitSignals, PushWaitEnds
<1>9. CASE PopCall \/ PopClear \/ PopLoad \/ PopEmpty \/ PopCopy \/ PopSignal
           \/ PopWaitCheck \/ PopWaitSignals \/ PopWaitEnds \/ Abort \/ UNCHANGED vars
  <2>1. UNCHANGED <<ring, entry_read_ptr, entry_write_ptr>>
    BY <1>9 DEF PopCall, PopClear, PopLoad, PopEmpty, PopCopy, PopSignal, PopWaitCheck,
                PopWaitSignals, PopWaitEnds, Abort, vars
  <2> QED BY <2>1, <1>2
<1> QED BY <1>2, <1>3, <1>4, <1>5, <1>6, <1>7, <1>8, <1>9
        DEF Next, Push, PushWait, Pop, PopWait

(* Each step keeps the types of the signals.                               *)
LEMMA SignalTypeStep == IInv /\ [Next]_vars => SignalTypeOK'
<1> SUFFICES ASSUME IInv, [Next]_vars PROVE SignalTypeOK'
  OBVIOUS
<1> USE QueueAssumption DEF SignalTypeOK, signals
<1>1. SignalTypeOK
  BY DEF IInv, TypeOK
<1>2. ASSUME NEW w \in Writers,
             \/ PushCall(w) \/ PushWaitCall(w) \/ Push(w) \/ PushWait(w) \/ PushWaitEnds(w)
      PROVE  SignalTypeOK'
  BY <1>1, <1>2
     DEF PushCall, PushWaitCall, Push, PushReserve, PushHasRoom, PushGrows, PushRefused,
         PushCopy, PushPublish, PushSignal, Release, PushWait, PushWaitFullEntry,
         PushWaitCheck, PushWaitSignals, PushWaitEnds
<1>3. CASE PopCall \/ Pop \/ PopWait \/ PopWaitEnds
  BY <1>1, <1>3 DEF PopCall, Pop, PopClear, PopLoad, PopEmpty, PopCopy, PopAdvance,
                    PopSignal, PopWait, PopWaitCheck, PopWaitSignals, PopWaitEnds
<1>4. CASE Flush \/ Abort \/ UNCHANGED vars
  BY <1>1, <1>4 DEF Flush, Abort, vars
<1> QED BY <1>2, <1>3, <1>4 DEF Next

(* Growth is the only step that changes the set of entries.                *)
LEMMA EntriesGrow == IInv /\ [Next]_vars => Entries \subseteq Entries'
<1> SUFFICES ASSUME IInv, [Next]_vars PROVE Entries \subseteq Entries'
  OBVIOUS
<1>1. queue_item_count \in Nat /\ GrowCount \in Nat
  BY QueueAssumption DEF IInv, TypeOK, RingTypeOK
<1>2. \/ queue_item_count' = queue_item_count
      \/ queue_item_count' = queue_item_count + GrowCount
  <2> USE DEF ring
  <2>1. ASSUME NEW w \in Writers,
               \/ PushCall(w) \/ PushWaitCall(w) \/ Push(w) \/ PushWait(w) \/ PushWaitEnds(w)
        PROVE  <1>2!1 \/ <1>2!2
    BY <2>1
       DEF PushCall, PushWaitCall, Push, PushReserve, PushHasRoom, PushGrows, PushRefused,
           PushCopy, PushPublish, PushSignal, PushWait, PushWaitFullEntry,
           PushWaitCheck, PushWaitSignals, PushWaitEnds
  <2>2. CASE PopCall \/ Pop \/ PopWait \/ PopWaitEnds \/ Flush \/ Abort \/ UNCHANGED vars
    BY <2>2 DEF PopCall, Pop, PopClear, PopLoad, PopEmpty, PopCopy, PopAdvance, PopSignal,
                PopWait, PopWaitCheck, PopWaitSignals, PopWaitEnds, Flush, Abort, vars
  <2> QED BY <2>1, <2>2 DEF Next
<1> QED BY <1>1, <1>2 DEF Entries

(* Each step keeps the types of the writers.                               *)
LEMMA PusherTypeStep == IInv /\ [Next]_vars => PusherTypeOK'
<1> SUFFICES ASSUME IInv, [Next]_vars PROVE PusherTypeOK'
  OBVIOUS
<1>1. PusherTypeOK /\ RingTypeOK
  BY DEF IInv, TypeOK
<1>2. /\ Entries \subseteq Entries'
      /\ 1 \in Entries'
      /\ entry_read_ptr \in Entries'
      /\ entry_write_ptr \in Entries'
      /\ next[entry_write_ptr] \in Entries'
  <2>1. 1 \in Entries
    BY <1>1 DEF RingTypeOK, Entries
  <2> QED BY <1>1, <2>1, EntriesGrow DEF RingTypeOK
<1> USE DEF PusherTypeOK
<1>3. CASE UNCHANGED writer
  BY <1>1, <1>2, <1>3 DEF writer
<1>4. ASSUME NEW w \in Writers, Return(w) PROVE PusherTypeOK'
  BY <1>1, <1>2, <1>4 DEF Return, Goto
<1>5. ASSUME NEW w \in Writers, NEW pc, Goto(w, pc),
             pc \in {"idle", "full_entry", "reserve", "check", "copy",
                     "publish", "signal", "wait", "signals", "blocked"}
      PROVE  w_pc' \in [Writers -> {"idle", "full_entry", "reserve", "check", "copy",
                               "publish", "signal", "wait", "signals", "blocked"}]
  BY <1>1, <1>5 DEF Goto
<1>6. ASSUME NEW w \in Writers, PushCall(w) \/ PushWaitCall(w) PROVE PusherTypeOK'
  BY <1>1, <1>2, <1>6, <1>5 DEF PushCall, PushWaitCall
<1>7. ASSUME NEW w \in Writers, PushWaitFullEntry(w) PROVE PusherTypeOK'
  BY <1>1, <1>2, <1>7, <1>5 DEF PushWaitFullEntry
<1>8. ASSUME NEW w \in Writers, PushReserve(w) PROVE PusherTypeOK'
  BY <1>1, <1>2, <1>8, <1>5 DEF PushReserve
<1>9. ASSUME NEW w \in Writers, PushHasRoom(w) PROVE PusherTypeOK'
  BY <1>1, <1>2, <1>9, <1>5 DEF PushHasRoom
<1>10. ASSUME NEW w \in Writers, PushGrows(w) PROVE PusherTypeOK'
  <2>1. queue_item_count + 1 \in Entries'
    BY <1>1, <1>10, QueueAssumption DEF PushGrows, MayGrow, RingTypeOK, Entries
  <2> QED BY <1>1, <1>2, <1>10, <1>5, <2>1 DEF PushGrows
<1>11. ASSUME NEW w \in Writers, PushRefused(w) PROVE PusherTypeOK'
  <2>1. CASE w_waits[w]
    BY <1>1, <1>2, <1>11, <1>5, <2>1 DEF PushRefused
  <2>2. CASE ~w_waits[w]
    BY <1>4, <1>11, <2>2 DEF PushRefused
  <2> QED BY <2>1, <2>2
<1>12. ASSUME NEW w \in Writers, PushCopy(w) \/ PushPublish(w) PROVE PusherTypeOK'
  BY <1>1, <1>2, <1>12, <1>5 DEF PushCopy, PushPublish
<1>13. ASSUME NEW w \in Writers, PushSignal(w) \/ PushWaitEnds(w) PROVE PusherTypeOK'
  BY <1>4, <1>13 DEF PushSignal, PushWaitEnds
<1>14. ASSUME NEW w \in Writers, PushWaitCheck(w) \/ PushWaitSignals(w) PROVE PusherTypeOK'
  BY <1>1, <1>2, <1>14, <1>5 DEF PushWaitCheck, PushWaitSignals
<1>15. CASE PopSignal
  BY <1>1, <1>2, <1>15 DEF PopSignal, WakePusher
<1>16. CASE PopCall \/ PopClear \/ PopLoad \/ PopEmpty \/ PopCopy \/ PopAdvance
            \/ PopWaitCheck \/ PopWaitSignals \/ PopWaitEnds \/ Flush \/ Abort \/ UNCHANGED vars
  BY <1>16, <1>3 DEF PopCall, PopClear, PopLoad, PopEmpty, PopCopy, PopAdvance,
                PopWaitCheck, PopWaitSignals, PopWaitEnds, Flush, Abort, vars
<1> HIDE DEF PusherTypeOK
<1> QED BY <1>6, <1>7, <1>8, <1>9, <1>10, <1>11, <1>12, <1>13, <1>14, <1>15, <1>16
        DEF Next, Push, PushWait, Pop, PopWait

(* Each step keeps the types of the reader.                                *)
LEMMA PopperTypeStep == IInv /\ [Next]_vars => PopperTypeOK'
<1> SUFFICES ASSUME IInv, [Next]_vars PROVE PopperTypeOK'
  OBVIOUS
<1>1. PopperTypeOK
  BY DEF IInv, TypeOK
<1> USE DEF history, reader
<1>2. CASE UNCHANGED <<reader, history>>
  BY <1>1, <1>2 DEF PopperTypeOK
<1>3. ASSUME NEW w \in Writers,
             \/ PushCall(w) \/ PushWaitCall(w) \/ PushReserve(w) \/ PushHasRoom(w)
             \/ PushGrows(w) \/ PushRefused(w) \/ PushCopy(w) \/ PushWait(w) \/ PushWaitEnds(w)
      PROVE  UNCHANGED <<reader, history>>
  BY <1>3
     DEF PushCall, PushWaitCall, PushReserve, PushHasRoom, PushGrows, PushRefused,
         PushCopy, PushWait, PushWaitFullEntry, PushWaitCheck, PushWaitSignals, PushWaitEnds
<1>4. ASSUME NEW w \in Writers, PushPublish(w) PROVE PopperTypeOK'
  <2>1. w_val[w] \in Data
    BY <1>4 DEF IInv, PusherInv, PusherInvOf, PushPublish
  <2> QED BY <1>1, <1>4, <2>1 DEF PushPublish, PopperTypeOK
<1>5. ASSUME NEW w \in Writers, PushSignal(w) PROVE PopperTypeOK'
  BY <1>1, <1>5 DEF PushSignal, PopperTypeOK
<1>6. CASE PopCall \/ PopClear \/ PopLoad \/ PopEmpty \/ PopWaitCheck \/ PopWaitSignals
           \/ PopWaitEnds \/ PopSignal
  BY <1>1, <1>6 DEF PopCall, PopClear, PopLoad, PopEmpty, PopWaitCheck, PopWaitSignals,
                    PopWaitEnds, PopSignal, PopReturns, PopperTypeOK
<1>7. CASE PopCopy
  <2>1. item[entry_read_ptr] \in Data \cup {NoItem}
    BY DEF IInv, TypeOK, RingTypeOK
  <2> QED BY <1>1, <1>7, <2>1 DEF PopCopy, PopperTypeOK
<1>8. CASE PopAdvance
  <2>1. Occupancy > 0
    BY <1>8 DEF IInv, PopperInv, PopsInOrder, PopAdvance
  <2> QED BY <1>1, <1>8, <2>1 DEF PopAdvance, PopperTypeOK, Occupancy
<1>9. CASE Flush
  BY <1>1, <1>9 DEF Flush, PopperTypeOK
<1>10. CASE Abort \/ UNCHANGED vars
  BY <1>2, <1>10 DEF Abort, vars
<1> QED BY <1>2, <1>3, <1>4, <1>5, <1>6, <1>7, <1>8, <1>9, <1>10
        DEF Next, Push, PushWait, Pop, PopWait

(* Each step keeps the ring a ring that holds what was sent and not read.  *)
LEMMA RingStep == IInv /\ [Next]_vars => RingInv'
<1> SUFFICES ASSUME IInv, [Next]_vars PROVE RingInv'
  OBVIOUS
<1>1. /\ RingInv /\ TypeOK
      /\ queue_item_count \in Nat \ {0}
      /\ sent \in Seq(Data)
      /\ out \in Nat
      /\ Len(sent) \in Nat
      /\ item \in [Entries -> Data \cup {NoItem}]
      /\ Entries = 1 .. queue_item_count
  BY DEF IInv, TypeOK, RingTypeOK, PopperTypeOK, Entries
<1>2. PICK c \in [0 .. queue_item_count - 1 -> Entries] :
        Ring(c, queue_item_count, next, item, entry_read_ptr, entry_write_ptr, sent, out)
  BY <1>1 DEF RingInv
<1> USE DEF ring, history
<1>3. CASE UNCHANGED <<ring, entry_read_ptr, entry_write_ptr, sent, out>>
  BY <1>1, <1>3, RingUntouched
<1>4. ASSUME NEW w \in Writers, PushGrows(w) PROVE RingInv'
  <2> DEFINE n == queue_item_count
             d == Extended(c, n, Len(sent) - out, GrowCount)
  <2>1. GrowCount \in Nat \ {0}
    BY <1>4, QueueAssumption DEF PushGrows, MayGrow
  <2>2. entry_write_ptr \in 1 .. n
    BY <1>1 DEF TypeOK, RingTypeOK
  <2>3. Relinked(n, GrowCount, entry_write_ptr, next, next')
    BY <1>1, <1>4, <2>1, <2>2 DEF Relinked, PushGrows, Grown
  <2>4. \A e \in 1 .. n : item'[e] = item[e]
    BY <1>1, <1>4, <2>1 DEF PushGrows
  <2>5. /\ d \in [0 .. n + GrowCount - 1 -> 1 .. n + GrowCount]
        /\ Ring(d, n + GrowCount, next', item', entry_read_ptr, entry_write_ptr, sent, out)
    BY <1>1, <1>2, <2>1, <2>3, <2>4, RingGrows
  <2>6. /\ queue_item_count' = n + GrowCount
        /\ UNCHANGED <<entry_read_ptr, entry_write_ptr, sent, out>>
    BY <1>4 DEF PushGrows
  <2> HIDE DEF d
  <2>7. d \in [0 .. queue_item_count' - 1 -> Entries']
    <3>1. Entries' = 1 .. n + GrowCount /\ queue_item_count' - 1 = n + GrowCount - 1
      BY <1>1, <2>1, <2>6 DEF Entries
    <3> QED BY <2>5, <3>1
  <2>8. Ring(d, queue_item_count', next', item', entry_read_ptr', entry_write_ptr', sent', out')
    BY <2>5, <2>6, Zenon
  <2> QED BY <2>7, <2>8, Zenon DEF RingInv
<1>5. ASSUME NEW w \in Writers, PushCopy(w) PROVE RingInv'
  <2>1. w_write[w] = entry_write_ptr
    BY <1>5 DEF IInv, PusherInv, PusherInvOf, PushCopy
  <2>2. Ring(c, queue_item_count, next, item', entry_read_ptr, entry_write_ptr, sent, out)
    BY <1>1, <1>2, <1>5, <2>1, RingCopies DEF PushCopy
  <2> QED BY <1>1, <1>5, <2>2 DEF PushCopy, RingInv, Entries
<1>6. ASSUME NEW w \in Writers, PushPublish(w) PROVE RingInv'
  <2>1. /\ w_new[w] = next[entry_write_ptr]
        /\ item[entry_write_ptr] = w_val[w]
        /\ w_val[w] \in Data
        /\ Len(sent) - out < queue_item_count - 1
    BY <1>6 DEF IInv, PusherInv, PusherInvOf, PushPublish, HasRoom, Occupancy
  <2>2. Ring(c, queue_item_count, next, item, entry_read_ptr, next[entry_write_ptr],
             Append(sent, w_val[w]), out)
    BY <1>1, <1>2, <2>1, RingPublishes
  <2> QED BY <1>1, <1>6, <2>1, <2>2 DEF PushPublish, RingInv, Entries
<1>7. CASE PopAdvance
  <2>1. 1 <= Len(sent) - out
    BY <1>1, <1>7 DEF IInv, PopperInv, PopsInOrder, PopAdvance, Occupancy
  <2>2. next[entry_read_ptr] = c[1]
    BY <1>1, <1>2, <2>1 DEF Ring, Cycle
  <2>3. /\ Rotated(c, queue_item_count, 1) \in [0 .. queue_item_count - 1 -> Entries]
        /\ Ring(Rotated(c, queue_item_count, 1), queue_item_count, next, item, c[1],
                entry_write_ptr, sent, out + 1)
    BY <1>1, <1>2, <2>1, RingRotates
  <2> QED BY <1>1, <1>7, <2>2, <2>3 DEF PopAdvance, RingInv, Entries
<1>8. CASE Flush
  <2> DEFINE k == Len(sent) - out
  <2>1. k \in Nat /\ out + k = Len(sent) /\ k <= Len(sent) - out /\ c[k] = entry_write_ptr
    BY <1>1, <1>2 DEF Ring
  <2> HIDE DEF k
  <2>2. /\ Rotated(c, queue_item_count, k) \in [0 .. queue_item_count - 1 -> Entries]
        /\ Ring(Rotated(c, queue_item_count, k), queue_item_count, next, item, c[k],
                entry_write_ptr, sent, out + k)
    BY <1>1, <1>2, <2>1, RingRotates
  <2> QED BY <1>1, <1>8, <2>1, <2>2 DEF Flush, RingInv, Entries
<1>9. ASSUME NEW w \in Writers,
             \/ PushCall(w) \/ PushWaitCall(w) \/ PushWaitFullEntry(w) \/ PushReserve(w)
             \/ PushHasRoom(w) \/ PushRefused(w) \/ PushSignal(w) \/ PushWaitCheck(w)
             \/ PushWaitSignals(w) \/ PushWaitEnds(w)
      PROVE  UNCHANGED <<ring, entry_read_ptr, entry_write_ptr, sent, out>>
  BY <1>9 DEF PushCall, PushWaitCall, PushWaitFullEntry, PushReserve, PushHasRoom,
              PushRefused, PushSignal, PushWaitCheck, PushWaitSignals, PushWaitEnds
<1>10. CASE PopCall \/ PopClear \/ PopLoad \/ PopEmpty \/ PopCopy \/ PopSignal
            \/ PopWaitCheck \/ PopWaitSignals \/ PopWaitEnds \/ Abort \/ UNCHANGED vars
  <2>1. UNCHANGED <<ring, entry_read_ptr, entry_write_ptr, sent, out>>
    BY <1>10 DEF PopCall, PopClear, PopLoad, PopEmpty, PopCopy, PopSignal, PopWaitCheck,
                 PopWaitSignals, PopWaitEnds, Abort, vars
  <2> QED BY <2>1, <1>3
<1> QED BY <1>3, <1>4, <1>5, <1>6, <1>7, <1>8, <1>9, <1>10
        DEF Next, Push, PushWait, Pop, PopWait

(* How a step moves the pushers' control points.                           *)
LEMMA LockStep == IInv /\ [Next]_vars => LockInv'
<1> SUFFICES ASSUME IInv, [Next]_vars, MultipleWriters, NEW v \in Writers, w_pc'[v] \in Critical
             PROVE  multiple_writer_cs' = v
  BY DEF LockInv
<1>1. /\ LockInv
      /\ w_pc \in [Writers -> {"idle", "full_entry", "reserve", "check", "copy",
                             "publish", "signal", "wait", "signals", "blocked"}]
  BY DEF IInv, TypeOK, PusherTypeOK
<1> USE DEF writer, LockInv, Critical
<1>2. ASSUME NEW w \in Writers,
             \/ PushCall(w) \/ PushWaitCall(w) \/ PushWaitFullEntry(w)
             \/ PushWaitCheck(w) \/ PushWaitSignals(w) \/ PushWaitEnds(w)
      PROVE  multiple_writer_cs' = v
  BY <1>1, <1>2 DEF PushCall, PushWaitCall, PushWaitFullEntry, PushWaitCheck,
                    PushWaitSignals, PushWaitEnds, Return, Goto
<1>3. ASSUME NEW w \in Writers, PushReserve(w) PROVE multiple_writer_cs' = v
  BY <1>1, <1>3, QueueAssumption DEF PushReserve, Goto
<1>4. ASSUME NEW w \in Writers,
             PushHasRoom(w) \/ PushGrows(w) \/ PushCopy(w) \/ PushPublish(w)
      PROVE  multiple_writer_cs' = v
  BY <1>1, <1>4 DEF PushHasRoom, PushGrows, PushCopy, PushPublish, Goto
<1>5. ASSUME NEW w \in Writers, PushRefused(w) \/ PushSignal(w)
      PROVE  multiple_writer_cs' = v
  <2>1. w_pc[w] \in Critical /\ w_pc'[w] \notin Critical
    BY <1>1, <1>5 DEF PushRefused, PushSignal, Return, Goto
  <2>2. v # w /\ w_pc[v] \in Critical
    BY <1>1, <1>5, <2>1 DEF PushRefused, PushSignal, Return, Goto
  <2> QED BY <1>1, <2>1, <2>2
<1>6. CASE PopSignal
  BY <1>1, <1>6 DEF PopSignal, WakePusher
<1>7. CASE PopCall \/ PopClear \/ PopLoad \/ PopEmpty \/ PopCopy \/ PopAdvance
           \/ PopWaitCheck \/ PopWaitSignals \/ PopWaitEnds \/ Flush \/ Abort \/ UNCHANGED vars
  BY <1>1, <1>7 DEF PopCall, PopClear, PopLoad, PopEmpty, PopCopy, PopAdvance,
                PopWaitCheck, PopWaitSignals, PopWaitEnds, Flush, Abort, vars
<1> QED BY <1>2, <1>3, <1>4, <1>5, <1>6, <1>7 DEF Next, Push, PushWait, Pop, PopWait

(* Each step keeps what a writer knows in the middle of a push.            *)
LEMMA PusherStep == IInv /\ [Next]_vars => PusherInv'
<1> SUFFICES ASSUME IInv, [Next]_vars, NEW v \in Writers PROVE PusherInvOf(v)'
  BY DEF PusherInv
<1>1. /\ PusherTypeOK /\ TypeOK /\ RingInv /\ LockInv
      /\ PusherInvOf(v)
      /\ queue_item_count \in Nat \ {0}
      /\ Occupancy \in 0 .. queue_item_count - 1
  BY RingPointers DEF IInv, TypeOK, RingTypeOK, PusherInv
<1> USE DEF ring, signals, writer, history
(* A step of another pusher w, or one that changes nothing v relies on.    *)
<1>2. ASSUME w_pc'[v] = w_pc[v], w_val'[v] = w_val[v], w_pc[v] \notin Critical
      PROVE  PusherInvOf(v)'
  BY <1>1, <1>2 DEF PusherInvOf, Critical
<1>3. ASSUME \/ w_pc'[v] = w_pc[v]
             \/ w_pc[v] = "blocked" /\ w_pc'[v] = "wait",
             w_val'[v] = w_val[v], w_read'[v] = w_read[v], w_write'[v] = w_write[v],
             w_new'[v] = w_new[v],
             UNCHANGED <<ring, entry_read_ptr, entry_write_ptr, sent, out>>
      PROVE  PusherInvOf(v)'
  BY <1>1, <1>3 DEF PusherInvOf, HasRoom, Occupancy
<1>4. ASSUME NEW w \in Writers,
             \/ PushHasRoom(w) \/ PushGrows(w) \/ PushRefused(w) \/ PushCopy(w)
             \/ PushPublish(w) \/ PushSignal(w),
             v # w
      PROVE  PusherInvOf(v)'
  <2>1. w_pc[w] \in Critical
    BY <1>4 DEF PushHasRoom, PushGrows, PushRefused, PushCopy, PushPublish, PushSignal, Critical
  <2>2. w_pc[v] \notin Critical
    BY <1>1, <1>4, <2>1, OnePusher
  <2>3. w_pc'[v] = w_pc[v] /\ w_val'[v] = w_val[v]
    BY <1>1, <1>4 DEF PushHasRoom, PushGrows, PushRefused, PushCopy, PushPublish, PushSignal,
                      PusherTypeOK, Return, Goto
  <2> QED BY <1>2, <2>2, <2>3
<1>5. ASSUME NEW w \in Writers,
             \/ PushCall(w) \/ PushWaitCall(w) \/ PushWaitFullEntry(w) \/ PushReserve(w)
             \/ PushWaitCheck(w) \/ PushWaitSignals(w) \/ PushWaitEnds(w),
             v # w
      PROVE  PusherInvOf(v)'
  <2>1. /\ w_pc'[v] = w_pc[v] /\ w_val'[v] = w_val[v] /\ w_read'[v] = w_read[v]
        /\ w_write'[v] = w_write[v] /\ w_new'[v] = w_new[v]
        /\ UNCHANGED <<ring, entry_read_ptr, entry_write_ptr, sent, out>>
    BY <1>1, <1>5 DEF PushCall, PushWaitCall, PushWaitFullEntry, PushReserve, PushWaitCheck,
                      PushWaitSignals, PushWaitEnds, PusherTypeOK, Return, Goto
  <2> QED BY <2>1, <1>3
(* A step of v itself.                                                     *)
<1>6. CASE PushCall(v) \/ PushWaitCall(v)
  BY <1>1, <1>6 DEF PushCall, PushWaitCall, Goto, PusherTypeOK, PusherInvOf
<1>7. CASE PushWaitFullEntry(v) \/ PushWaitCheck(v) \/ PushWaitSignals(v)
  BY <1>1, <1>7 DEF PushWaitFullEntry, PushWaitCheck, PushWaitSignals, Goto, PusherTypeOK,
                    PusherInvOf
<1>8. CASE PushReserve(v)
  BY <1>1, <1>8 DEF PushReserve, Goto, PusherTypeOK, PusherInvOf
<1>9. CASE PushHasRoom(v)
  <2>1. HasRoom
    BY <1>1, <1>9, RingPointers DEF PushHasRoom, LooksFull, PusherInvOf
  <2>2. HasRoom'
    BY <1>9, <2>1 DEF PushHasRoom, HasRoom, Occupancy
  <2> QED BY <1>1, <1>9, <2>2 DEF PushHasRoom, Goto, PusherTypeOK, PusherInvOf
<1>10. CASE PushGrows(v)
  <2>1. GrowCount \in Nat \ {0} /\ entry_write_ptr \in 1 .. queue_item_count
    BY <1>1, <1>10, QueueAssumption DEF PushGrows, MayGrow, TypeOK, RingTypeOK, Entries
  <2>2. HasRoom'
    BY <1>1, <1>10, <2>1 DEF PushGrows, HasRoom, Occupancy
  <2>3. next'[entry_write_ptr] = queue_item_count + 1
    BY <1>1, <1>10, <2>1 DEF PushGrows, Grown
  <2> QED BY <1>1, <1>10, <2>2, <2>3 DEF PushGrows, Goto, PusherTypeOK, PusherInvOf
<1>11. CASE PushRefused(v)
  BY <1>1, <1>11 DEF PushRefused, Return, Goto, PusherTypeOK, PusherInvOf
<1>12. CASE PushCopy(v)
  <2>1. w_write[v] \in Entries /\ item \in [Entries -> Data \cup {NoItem}]
    BY <1>1 DEF TypeOK, RingTypeOK, PusherTypeOK
  <2>2. HasRoom'
    BY <1>1, <1>12 DEF PushCopy, PusherInvOf, HasRoom, Occupancy
  <2> QED BY <1>1, <1>12, <2>1, <2>2 DEF PushCopy, Goto, PusherTypeOK, PusherInvOf
<1>13. CASE PushPublish(v)
  BY <1>1, <1>13 DEF PushPublish, Goto, PusherTypeOK, PusherInvOf
<1>14. CASE PushSignal(v) \/ PushWaitEnds(v)
  BY <1>1, <1>14 DEF PushSignal, PushWaitEnds, Return, Goto, PusherTypeOK, PusherInvOf
(* A step of the popper, or of the caller.                                 *)
<1>15. CASE PopAdvance
  <2>1. HasRoom'
    <3>1. /\ queue_item_count' = queue_item_count
          /\ Occupancy' = Occupancy - 1
      BY <1>1, <1>15 DEF PopAdvance, Occupancy, TypeOK, PopperTypeOK
    <3> QED BY <1>1, <3>1 DEF HasRoom
  <2> QED BY <1>1, <1>15, <2>1 DEF PopAdvance, PusherInvOf
<1>16. CASE Flush
  BY <1>1, <1>16 DEF Flush, PusherInvOf
<1>17. CASE PopSignal
  <2>1. /\ w_pc'[v] = w_pc[v] \/ (w_pc[v] = "blocked" /\ w_pc'[v] = "wait")
        /\ UNCHANGED <<w_val, w_read, w_write, w_new, ring, entry_read_ptr,
                       entry_write_ptr, sent, out>>
    BY <1>17 DEF PopSignal, WakePusher
  <2> QED BY <2>1, <1>3
<1>18. CASE PopCall \/ PopClear \/ PopLoad \/ PopEmpty \/ PopCopy \/ PopWaitCheck
            \/ PopWaitSignals \/ PopWaitEnds \/ Abort \/ UNCHANGED vars
  <2>1. UNCHANGED <<w_pc, w_val, w_read, w_write, w_new, ring, entry_read_ptr,
                    entry_write_ptr, sent, out>>
    BY <1>18 DEF PopCall, PopClear, PopLoad, PopEmpty, PopCopy, PopWaitCheck,
                 PopWaitSignals, PopWaitEnds, Abort, vars
  <2> QED BY <2>1, <1>3
<1> QED BY <1>4, <1>5, <1>6, <1>7, <1>8, <1>9, <1>10, <1>11, <1>12, <1>13, <1>14,
           <1>15, <1>16, <1>17, <1>18
        DEF Next, Push, PushWait, Pop, PopWait

(* Each step keeps what the reader knows in the middle of a pop.           *)
LEMMA PopperStep == IInv /\ [Next]_vars => PopperInv'
<1> SUFFICES ASSUME IInv, [Next]_vars PROVE PopperInv'
  OBVIOUS
<1>1. /\ TypeOK /\ RingInv /\ LockInv /\ PopperInv
      /\ PusherTypeOK /\ PopperTypeOK
      /\ Len(sent) \in Nat
      /\ Occupancy = Len(sent) - out
      /\ Occupancy \in 0 .. queue_item_count - 1
  BY RingPointers DEF IInv, TypeOK, PopperTypeOK, Occupancy
<1> USE DEF ring, signals, writer, reader, history
<1> DEFINE Signals == \E u \in Writers : w_pc[u] = "signal"
(* Nothing the popper relies on changes.                                   *)
<1>2. ASSUME UNCHANGED <<r_pc, r_val, sent, out, wake_pop_waiters_signal>>, Signals => Signals'
      PROVE  PopperInv'
  BY <1>1, <1>2 DEF PopperInv, PopsInOrder, Occupancy
<1>3. ASSUME NEW w \in Writers,
             \/ PushCall(w) \/ PushWaitCall(w) \/ PushReserve(w) \/ PushHasRoom(w)
             \/ PushGrows(w) \/ PushRefused(w) \/ PushCopy(w)
             \/ PushWaitFullEntry(w) \/ PushWaitCheck(w) \/ PushWaitSignals(w)
             \/ PushWaitEnds(w)
      PROVE  PopperInv'
  <2>1. \A u \in Writers : w_pc[u] = "signal" => w_pc'[u] = "signal"
    <3>1. w_pc[w] # "signal" /\ \E pc : Goto(w, pc)
      BY <1>3
         DEF PushCall, PushWaitCall, PushReserve, PushHasRoom, PushGrows, PushRefused, PushCopy,
             PushWaitFullEntry, PushWaitCheck, PushWaitSignals, PushWaitEnds, Return, MayPush
    <3> QED BY <1>1, <3>1 DEF PusherTypeOK, Goto
  <2>2. UNCHANGED <<r_pc, r_val, sent, out, wake_pop_waiters_signal>>
    BY <1>3
       DEF PushCall, PushWaitCall, PushReserve, PushHasRoom, PushGrows, PushRefused, PushCopy,
           PushWaitFullEntry, PushWaitCheck, PushWaitSignals, PushWaitEnds
  <2> QED BY <2>1, <2>2, <1>2
<1>4. ASSUME NEW w \in Writers, PushPublish(w) PROVE PopperInv'
  <2>1. w_pc'[w] = "signal"
    BY <1>1, <1>4 DEF PushPublish, PusherTypeOK, Goto
  <2>2. w_val[w] \in Data
    BY <1>4 DEF IInv, PusherInv, PusherInvOf, PushPublish
  <2>3. /\ sent' = Append(sent, w_val[w])
        /\ UNCHANGED <<out, r_pc, r_val>>
    BY <1>4 DEF PushPublish
  <2>4. Occupancy' = Occupancy + 1
    BY <1>1, <2>2, <2>3 DEF Occupancy, PopperTypeOK
  <2>5. Occupancy > 0 => sent'[out + 1] = sent[out + 1]
    BY <1>1, <2>2, <2>3 DEF PopperTypeOK
  <2>6. (r_pc' = "copy" => Occupancy' > 0) /\ PopsInOrder'
    <3>1. Occupancy' > 0
      BY <1>1, <2>4
    <3>2. CASE r_pc = "advance"
      <4>1. Occupancy > 0 /\ r_val = sent[out + 1]
        BY <1>1, <3>2 DEF PopperInv, PopsInOrder
      <4>2. r_val' = sent'[out' + 1]
        BY <2>3, <2>5, <4>1
      <4> QED BY <3>1, <4>2 DEF PopsInOrder
    <3>3. CASE r_pc # "advance"
      BY <2>3, <3>1, <3>3 DEF PopsInOrder
    <3> QED BY <3>1, <3>2, <3>3
  <2>7. Signals'
    BY <2>1
  <2> QED BY <2>6, <2>7 DEF PopperInv
<1>5. ASSUME NEW w \in Writers, PushSignal(w) PROVE PopperInv'
  <2>1. /\ wake_pop_waiters_signal' = TRUE
        /\ r_pc' = IF r_pc = "blocked" THEN "wait" ELSE r_pc
        /\ UNCHANGED <<r_val, sent, out>>
    BY <1>5 DEF PushSignal
  <2> QED BY <1>1, <2>1 DEF PopperInv, PopsInOrder, Occupancy
<1>6. CASE PopCall \/ PopClear \/ PopEmpty \/ PopWaitEnds \/ PopSignal \/ PopAdvance
  <2>1. r_pc' \in {"idle", "clear", "load", "signal"}
    BY <1>6 DEF PopCall, PopClear, PopEmpty, PopWaitEnds, PopSignal, PopAdvance, PopReturns
  <2> QED BY <2>1 DEF PopperInv, PopsInOrder
<1>7. CASE PopLoad
  <2>1. r_pc' = "copy" => Occupancy > 0
    BY <1>1, <1>7, RingPointers DEF PopLoad
  <2>2. r_pc' \in {"copy", "wait"} /\ Occupancy' = Occupancy
    BY <1>7 DEF PopLoad, Occupancy
  <2> QED BY <2>1, <2>2 DEF PopperInv, PopsInOrder
<1>8. CASE PopCopy
  <2>1. Occupancy > 0 /\ r_pc' = "advance" /\ UNCHANGED <<sent, out>>
    BY <1>1, <1>8 DEF PopCopy, PopperInv
  <2>2. r_val' = sent[out + 1]
    BY <1>1, <1>8, <2>1, RingPointers DEF PopCopy
  <2> QED BY <2>1, <2>2 DEF PopperInv, PopsInOrder, Occupancy
<1>9. CASE PopWaitCheck
  <2>1. r_pc' = "signals" => Occupancy = 0
    BY <1>1, <1>9, RingPointers DEF PopWaitCheck
  <2>2. r_pc' \in {"signals", "clear"} /\ Occupancy' = Occupancy
    BY <1>9 DEF PopWaitCheck, Occupancy
  <2> QED BY <2>1, <2>2 DEF PopperInv, PopsInOrder
<1>10. CASE PopWaitSignals
  <2>1. /\ r_pc = "signals"
        /\ r_pc' = IF wake_pop_waiters_signal THEN "wait" ELSE "blocked"
        /\ UNCHANGED <<w_pc, sent, out, wake_pop_waiters_signal>>
    BY <1>10 DEF PopWaitSignals
  <2> QED BY <1>1, <2>1 DEF PopperInv, PopsInOrder, Occupancy
<1>11. CASE Flush
  <2>1. r_pc' = "idle"
    BY <1>11 DEF Flush
  <2> QED BY <2>1 DEF PopperInv, PopsInOrder
<1>12. CASE Abort \/ UNCHANGED vars
  <2>1. UNCHANGED <<r_pc, r_val, sent, out, wake_pop_waiters_signal, w_pc>>
    BY <1>12 DEF Abort, vars
  <2> QED BY <2>1, <1>2
<1> QED BY <1>3, <1>4, <1>5, <1>6, <1>7, <1>8, <1>9, <1>10, <1>11, <1>12
        DEF Next, Push, PushWait, Pop, PopWait

(* Each step keeps the reasons a thread has to wait for a signal.          *)
LEMMA WaitStep == IInv /\ [Next]_vars => WaitInv'
<1> SUFFICES ASSUME IInv, [Next]_vars, ~MultipleWriters, NEW v \in Writers
             PROVE  WaitInvOf(v)'
  BY DEF WaitInv
<1>1. /\ TypeOK /\ RingInv /\ PusherTypeOK
      /\ WaitInvOf(v)
      /\ Occupancy \in 0 .. queue_item_count - 1
      /\ \A w \in Writers : w = v
  BY RingPointers, QueueAssumption DEF IInv, TypeOK, WaitInv
<1> USE DEF ring, signals, writer, reader, history
<1>2. ASSUME UNCHANGED <<w_pc, w_waits, w_full, next, entry_write_ptr, sent, out,
                         queue_item_count, wake_push_waiters_signal>>,
             r_pc = "signal" => r_pc' = "signal"
      PROVE  WaitInvOf(v)'
  BY <1>1, <1>2 DEF WaitInvOf, HasRoom, Occupancy
(* Outside a wait there is little to keep.                                 *)
<1>3. ASSUME w_pc'[v] \in {"idle", "copy", "publish", "signal"} PROVE WaitInvOf(v)'
  BY <1>3 DEF WaitInvOf
<1>4. CASE PushHasRoom(v) \/ PushGrows(v) \/ PushCopy(v) \/ PushPublish(v) \/ PushSignal(v)
           \/ PushWaitEnds(v)
  <2>1. w_pc'[v] \in {"idle", "copy", "publish", "signal"}
    BY <1>1, <1>4 DEF PushHasRoom, PushGrows, PushCopy, PushPublish, PushSignal, PushWaitEnds,
                      Return, Goto, PusherTypeOK
  <2> QED BY <2>1, <1>3
<1>5. CASE PushCall(v) \/ PushWaitCall(v)
  BY <1>1, <1>5 DEF PushCall, PushWaitCall, Goto, PusherTypeOK, WaitInvOf
<1>6. CASE PushWaitFullEntry(v)
  BY <1>1, <1>6 DEF PushWaitFullEntry, Goto, PusherTypeOK, WaitInvOf
<1>7. CASE PushReserve(v)
  BY <1>1, <1>7 DEF PushReserve, Goto, PusherTypeOK, WaitInvOf
<1>8. CASE PushRefused(v)
  <2>1. CASE w_waits[v]
    BY <1>1, <1>8, <2>1 DEF PushRefused, Goto, PusherTypeOK, WaitInvOf
  <2>2. CASE ~w_waits[v]
    BY <1>1, <1>3, <1>8, <2>2 DEF PushRefused, Return, Goto, PusherTypeOK
  <2> QED BY <2>1, <2>2
<1>9. CASE PushWaitCheck(v)
  <2>1. w_full[v] = next[entry_write_ptr] /\ w_waits[v]
    BY <1>1, <1>9 DEF PushWaitCheck, WaitInvOf
  <2>2. w_pc'[v] = "signals" => ~HasRoom
    BY <1>1, <1>9, <2>1, RingPointers DEF PushWaitCheck, Goto, PusherTypeOK
  <2>3. w_pc'[v] \in {"signals", "reserve"}
    BY <1>1, <1>9 DEF PushWaitCheck, Goto, PusherTypeOK
  <2>4. UNCHANGED <<w_waits, w_full, next, entry_write_ptr, sent, out, queue_item_count>>
    BY <1>9 DEF PushWaitCheck
  <2> QED BY <2>1, <2>2, <2>3, <2>4 DEF WaitInvOf, HasRoom, Occupancy
<1>10. CASE PushWaitSignals(v)
  <2>1. /\ w_pc[v] = "signals"
        /\ w_pc'[v] = IF wake_push_waiters_signal THEN "wait" ELSE "blocked"
        /\ UNCHANGED <<w_waits, w_full, next, entry_write_ptr, sent, out,
                       queue_item_count, r_pc>>
    BY <1>1, <1>10 DEF PushWaitSignals, Goto, PusherTypeOK
  <2> QED BY <1>1, <2>1 DEF WaitInvOf, HasRoom, Occupancy
<1>11. CASE PopAdvance
  BY <1>1, <1>11 DEF PopAdvance, WaitInvOf
<1>12. CASE PopSignal
  <2>1. /\ wake_push_waiters_signal' = TRUE
        /\ w_pc'[v] = IF w_pc[v] = "blocked" THEN "wait" ELSE w_pc[v]
        /\ UNCHANGED <<w_waits, w_full, next, entry_write_ptr, sent, out, queue_item_count>>
    BY <1>12 DEF PopSignal, WakePusher
  <2> QED BY <1>1, <2>1 DEF WaitInvOf, HasRoom, Occupancy
<1>13. CASE Flush
  BY <1>1, <1>13 DEF Flush, WaitInvOf
<1>14. CASE PopCall \/ PopClear \/ PopLoad \/ PopEmpty \/ PopCopy \/ PopWaitCheck
            \/ PopWaitSignals \/ PopWaitEnds \/ Abort \/ UNCHANGED vars
  <2>1. /\ UNCHANGED <<w_pc, w_waits, w_full, next, entry_write_ptr, sent, out,
                       queue_item_count, wake_push_waiters_signal>>
        /\ r_pc = "signal" => r_pc' = "signal"
    BY <1>14 DEF PopCall, PopClear, PopLoad, PopEmpty, PopCopy, PopWaitCheck,
                 PopWaitSignals, PopWaitEnds, Abort, vars
  <2> QED BY <2>1, <1>2
<1> QED BY <1>1, <1>4, <1>5, <1>6, <1>7, <1>8, <1>9, <1>10, <1>11, <1>12, <1>13, <1>14
        DEF Next, Push, PushWait, Pop, PopWait

-----------------------------------------------------------------------------
(* The inductive invariant holds of every reachable state.                 *)
THEOREM Invariance == Spec => []IInv
<1>1. IInv /\ [Next]_vars => IInv'
  BY RingTypeStep, SignalTypeStep, PusherTypeStep, PopperTypeStep, RingStep, LockStep,
     PusherStep, PopperStep, WaitStep
     DEF IInv, TypeOK
<1> QED BY <1>1, InitInv, PTL DEF Spec

(* Every variable of the queue keeps its type: in particular, the pointers *)
(* never leave the ring and the items popped never outnumber those pushed. *)
THEOREM TypeCorrect == Spec => []TypeOK
<1>1. IInv => TypeOK
  BY DEF IInv
<1> QED BY <1>1, Invariance, PTL

(* CdiQueuePop never copies an entry that CdiQueuePush is writing: the     *)
(* write entry and the read entry differ as soon as an item is queued.     *)
THEOREM NoTornCopies == Spec => []NoTornCopy
<1>1. IInv => NoTornCopy
  <2> SUFFICES ASSUME IInv, r_pc = "copy", NEW w \in Writers, w_pc[w] = "copy"
               PROVE  w_write[w] # entry_read_ptr
    BY DEF NoTornCopy
  <2>1. Occupancy > 0
    BY DEF IInv, PopperInv
  <2>2. w_write[w] = entry_write_ptr
    BY DEF IInv, PusherInv, PusherInvOf
  <2>3. entry_read_ptr # entry_write_ptr
    BY <2>1, RingPointers DEF IInv
  <2> QED BY <2>2, <2>3
<1> QED BY <1>1, Invariance, PTL

(* No wake-up of CdiQueuePopWait is lost, with any number of pushers.      *)
THEOREM NoLostPopWakeUp == Spec => []PopperSleepsOnlyWhenEmpty
<1>1. IInv => PopperSleepsOnlyWhenEmpty
  BY DEF IInv, PopperInv, PopperSleepsOnlyWhenEmpty
<1> QED BY <1>1, Invariance, PTL

(* No wake-up of CdiQueuePushWait is lost when one thread pushes.          *)
THEOREM NoLostPushWakeUp ==
  ASSUME ~MultipleWriters
  PROVE  Spec => []PusherSleepsOnlyWhenFull
<1>1. IInv => PusherSleepsOnlyWhenFull
  BY DEF IInv, WaitInv, WaitInvOf, HasRoom, PusherSleepsOnlyWhenFull
<1> QED BY <1>1, Invariance, PTL

-----------------------------------------------------------------------------
(***************************************************************************)
(* The queue implements the bounded queue of BoundedQueue.                 *)
(***************************************************************************)
LEMMA RestProperties ==
  ASSUME NEW s \in Seq(Data), NEW o \in 0 .. Len(s)
  PROVE  /\ SubSeq(s, o + 1, Len(s)) \in Seq(Data)
         /\ Len(SubSeq(s, o + 1, Len(s))) = Len(s) - o
         /\ \A i \in 1 .. Len(s) - o : SubSeq(s, o + 1, Len(s))[i] = s[o + i]
<1>1. Len(s) \in Nat
  OBVIOUS
<1>2. \A i \in o + 1 .. Len(s) : s[i] \in Data
  OBVIOUS
<1> DEFINE t == SubSeq(s, o + 1, Len(s))
<1>3. /\ t \in Seq(Data)
      /\ Len(t) = IF o + 1 <= Len(s) THEN Len(s) - (o + 1) + 1 ELSE 0
      /\ \A i \in 1 .. Len(s) - (o + 1) + 1 : t[i] = s[(o + 1) + i - 1]
  BY <1>1, <1>2, SubSeqProperties
<1> HIDE DEF t
<1>4. Len(s) - (o + 1) + 1 = Len(s) - o /\ \A i \in 1 .. Len(s) - o : (o + 1) + i - 1 = o + i
  BY <1>1
<1>5. Len(t) = Len(s) - o
  <2>1. CASE o + 1 <= Len(s)
    BY <1>3, <1>4, <2>1
  <2>2. CASE ~(o + 1 <= Len(s))
    <3>1. Len(s) - o = 0
      BY <1>1, <2>2
    <3> QED BY <1>3, <2>2, <3>1
  <2> QED BY <2>1, <2>2
<1>6. ASSUME NEW i \in 1 .. Len(s) - o
      PROVE  t[i] = s[o + i]
  <2>1. i \in 1 .. Len(s) - (o + 1) + 1 /\ (o + 1) + i - 1 = o + i
    BY <1>4, <1>6
  <2> QED BY <1>3, <2>1
<1> QED BY <1>3, <1>5, <1>6 DEF t

(* What is queued is what was sent and not read.                           *)
LEMMA QueuedProperties ==
  ASSUME TypeOK
  PROVE  /\ Queued \in Seq(Data)
         /\ Len(Queued) = Occupancy
         /\ \A i \in 1 .. Occupancy : Queued[i] = sent[out + i]
BY RestProperties DEF TypeOK, PopperTypeOK, Queued, Occupancy

(* The ring never holds more entries than it can grow to.                  *)
LEMMA RingBounded ==
  ASSUME TypeOK
  PROVE  queue_item_count <= Capacity + 1
<1>1. /\ ItemCount \in Nat /\ GrowCount \in Nat /\ MaxGrowCount \in Nat
      /\ queue_cur_grow_count \in 0 .. MaxGrowCount
      /\ queue_item_count = ItemCount + 1 + GrowCount * queue_cur_grow_count
  BY QueueAssumption DEF TypeOK, RingTypeOK
<1>2. PICK k \in Nat : MaxGrowCount = queue_cur_grow_count + k
  <2>1. MaxGrowCount - queue_cur_grow_count \in Nat
    BY <1>1
  <2> QED BY <1>1, <2>1
<1>3. /\ GrowCount * MaxGrowCount = GrowCount * queue_cur_grow_count + GrowCount * k
      /\ GrowCount * k \in Nat
      /\ GrowCount * queue_cur_grow_count \in Nat
  BY <1>1, <1>2
<1> QED BY <1>1, <1>3 DEF Capacity

(* The publishing step of a push is the Put of the bounded queue.          *)
LEMMA PublishPuts ==
  ASSUME IInv, TypeOK', NEW w \in Writers, PushPublish(w)
  PROVE  BQ!Put
<1>1. /\ sent' = Append(sent, w_val[w]) /\ UNCHANGED <<out, got>>
      /\ w_val[w] \in Data /\ HasRoom
  BY DEF PushPublish, IInv, PusherInv, PusherInvOf
<1>2. sent \in Seq(Data) /\ out \in 0 .. Len(sent) /\ Len(sent) \in Nat
  BY DEF IInv, TypeOK, PopperTypeOK
<1>3. /\ Queued \in Seq(Data) /\ Len(Queued) = Occupancy
      /\ \A i \in 1 .. Occupancy : Queued[i] = sent[out + i]
  BY QueuedProperties DEF IInv
<1>4. /\ Queued' \in Seq(Data) /\ Len(Queued') = Occupancy'
      /\ \A i \in 1 .. Occupancy' : Queued'[i] = sent'[out + i]
  <2>1. sent' \in Seq(Data) /\ out' \in 0 .. Len(sent')
    BY DEF TypeOK, PopperTypeOK
  <2>2. Queued' = SubSeq(sent', out' + 1, Len(sent')) /\ Occupancy' = Len(sent') - out'
    BY DEF Queued, Occupancy
  <2> QED BY <2>1, <2>2, <1>1, RestProperties
<1>5. Occupancy' = Occupancy + 1 /\ Occupancy \in Nat
  BY <1>1, <1>2 DEF Occupancy
<1>6. /\ \A i \in 1 .. Len(sent) : sent'[i] = sent[i]
      /\ sent'[Len(sent) + 1] = w_val[w]
  BY <1>1, <1>2
<1>7. Queued' = Append(Queued, w_val[w])
  <2>1. Append(Queued, w_val[w]) \in Seq(Data) /\ Len(Append(Queued, w_val[w])) = Occupancy + 1
    BY <1>1, <1>3
  <2>2. ASSUME NEW i \in 1 .. Occupancy + 1
        PROVE  Queued'[i] = Append(Queued, w_val[w])[i]
    <3>1. CASE i = Occupancy + 1
      <4>1. Queued'[i] = sent'[out + i]
        BY <1>4, <1>5, <3>1
      <4>2. out + i = Len(sent) + 1
        BY <1>2, <3>1 DEF Occupancy
      <4>3. Append(Queued, w_val[w])[i] = w_val[w]
        <5>1. \A t \in Seq(Data) : Append(t, w_val[w])[Len(t) + 1] = w_val[w]
          BY <1>1
        <5> QED BY <5>1, <1>3, <3>1
      <4> QED BY <4>1, <4>2, <4>3, <1>6
    <3>2. CASE i \in 1 .. Occupancy
      <4>1. Queued'[i] = sent'[out + i] /\ Queued[i] = sent[out + i]
        BY <1>3, <1>4, <1>5, <3>2
      <4>2. sent'[out + i] = sent[out + i]
        BY <1>2, <1>6, <3>2 DEF Occupancy
      <4>3. Append(Queued, w_val[w])[i] = Queued[i]
        BY <1>1, <1>3, <3>2
      <4> QED BY <4>1, <4>2, <4>3
    <3>3. i = Occupancy + 1 \/ i \in 1 .. Occupancy
      BY <1>5
    <3> QED BY <3>1, <3>2, <3>3, Zenon
  <2>3. Queued' \in Seq(Data) /\ Len(Queued') = Len(Append(Queued, w_val[w]))
    BY <2>1, <1>4, <1>5
  <2>4. \A i \in 1 .. Len(Queued') : Queued'[i] = Append(Queued, w_val[w])[i]
    BY <2>2, <1>4, <1>5
  <2>5. \A t, u \in Seq(Data) :
          Len(t) = Len(u) /\ (\A i \in 1 .. Len(t) : t[i] = u[i]) => t = u
    BY SeqEqual
  <2> QED BY <2>1, <2>3, <2>4, <2>5
<1>8. Len(Queued) < Capacity
  <2>1. queue_item_count \in Nat /\ Capacity \in Nat /\ queue_item_count <= Capacity + 1
    BY RingBounded, QueueAssumption DEF IInv, TypeOK, RingTypeOK, Capacity
  <2> QED BY <2>1, <1>1, <1>3, <1>5 DEF HasRoom
<1> QED BY <1>1, <1>7, <1>8 DEF BQ!Put

(* The advancing step of a pop is the Get of the bounded queue.            *)
LEMMA AdvanceGets ==
  ASSUME IInv, PopAdvance
  PROVE  BQ!Get
<1>1. /\ UNCHANGED sent /\ out' = out + 1 /\ got' = r_val
      /\ Occupancy > 0 /\ r_val = sent[out + 1]
  BY DEF PopAdvance, IInv, PopperInv, PopsInOrder
<1>2. sent \in Seq(Data) /\ out \in 0 .. Len(sent) /\ Len(sent) \in Nat
  BY DEF IInv, TypeOK, PopperTypeOK
<1>3. out + 1 \in 1 .. Len(sent) /\ Len(sent) \in out + 1 .. Len(sent)
  BY <1>1, <1>2 DEF Occupancy
<1>4. Head(Queued) = sent[out + 1] /\ Tail(Queued) = SubSeq(sent, (out + 1) + 1, Len(sent))
  BY <1>2, <1>3, HeadTailOfSubSeq DEF Queued
<1>5. Queued' = SubSeq(sent, (out + 1) + 1, Len(sent))
  BY <1>1 DEF Queued
<1>6. Queued # <<>>
  BY <1>1, QueuedProperties DEF IInv
<1> QED BY <1>1, <1>4, <1>5, <1>6 DEF BQ!Get

(* A flush is the Flush of the bounded queue.                              *)
LEMMA FlushFlushes ==
  ASSUME IInv, Flush
  PROVE  BQ!Flush
<1>1. UNCHANGED <<sent, got>> /\ out' = Len(sent)
  BY DEF Flush
<1>2. Queued' = SubSeq(sent, Len(sent) + 1, Len(sent))
  BY <1>1 DEF Queued
<1>3. Len(sent) \in Nat
  BY DEF IInv, TypeOK, PopperTypeOK
<1>4. Queued' = <<>>
  BY <1>2, <1>3, SubSeqEmpty
<1> QED BY <1>1, <1>4 DEF BQ!Flush

(* CdiQueue implements BoundedQueue: a push takes effect when it stores    *)
(* the write pointer, a pop when it stores the read pointer, a flush at    *)
(* once, and no other step of any thread can be observed.                  *)
THEOREM Refinement == Spec => ImplementsBoundedQueue
<1>1. Init => BQ!Init
  <2> SUFFICES ASSUME Init PROVE BQ!Init
    OBVIOUS
  <2>1. sent = <<>> /\ out = 0 /\ got = NoItem
    BY DEF Init
  <2>2. Queued = <<>>
    BY <2>1, SubSeqEmpty DEF Queued
  <2> QED BY <2>1, <2>2 DEF BQ!Init
<1>2. IInv /\ IInv' /\ [Next]_vars => [BQ!Next]_(BQ!abstractVars)
  <2> SUFFICES ASSUME IInv, IInv', [Next]_vars
               PROVE  BQ!Put \/ BQ!Get \/ BQ!Flush \/ UNCHANGED <<Queued, got>>
    BY DEF BQ!Next, BQ!abstractVars
  <2>1. CASE \E w \in Writers : PushPublish(w)
    BY <2>1, PublishPuts DEF IInv
  <2>2. CASE PopAdvance
    BY <2>2, AdvanceGets
  <2>3. CASE Flush
    BY <2>3, FlushFlushes
  <2>4. CASE \E w \in Writers :
               \/ PushCall(w) \/ PushWaitCall(w) \/ PushWaitFullEntry(w)
               \/ PushReserve(w) \/ PushHasRoom(w) \/ PushGrows(w) \/ PushRefused(w)
               \/ PushCopy(w) \/ PushSignal(w) \/ PushWaitCheck(w)
               \/ PushWaitSignals(w) \/ PushWaitEnds(w)
    <3>1. UNCHANGED <<sent, out, got>>
      BY <2>4 DEF PushCall, PushWaitCall, PushWaitFullEntry, PushReserve, PushHasRoom,
                  PushGrows, PushRefused, PushCopy, PushSignal, PushWaitCheck,
                  PushWaitSignals, PushWaitEnds, reader, history
    <3> QED BY <3>1 DEF Queued
  <2>5. CASE \/ PopCall \/ PopClear \/ PopLoad \/ PopEmpty \/ PopCopy \/ PopSignal
             \/ PopWaitCheck \/ PopWaitSignals \/ PopWaitEnds \/ Abort \/ UNCHANGED vars
    <3>1. UNCHANGED <<sent, out, got>>
      BY <2>5 DEF PopCall, PopClear, PopLoad, PopEmpty, PopCopy, PopSignal, PopWaitCheck,
                  PopWaitSignals, PopWaitEnds, Abort, vars, history
    <3> QED BY <3>1 DEF Queued
  <2> QED BY <2>1, <2>2, <2>3, <2>4, <2>5 DEF Next, Push, PushWait, Pop, PopWait
<1> QED BY <1>1, <1>2, Invariance, PTL DEF Spec, ImplementsBoundedQueue, BQ!Spec
=============================================================================

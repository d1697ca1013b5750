----------------------- MODULE ProfileRegistry_proofs -----------------------
(***************************************************************************)
(* Proofs about the table of baseline profiles, for any set of threads and *)
(* any size of the table that holds the profiles of the SDK.               *)
(***************************************************************************)
EXTENDS ProfileRegistry, TLAPS

Pc == {"idle", "check", "lock", "register_1_00", "register_2_00", "store", "unlock",
       "search", "found", "append"}
Held == {"register_1_00", "register_2_00", "store", "unlock"}

TypeInv ==
  /\ initialized \in BOOLEAN
  /\ mutex_lock \in Thread \cup {NoThread}
  /\ baseline_profile_array \in [MediaType -> Seq(Version)]
  /\ call \in [Thread -> [pc : Pc, type : MediaType, version : Version,
                          result : Version \cup {NoVersion}]]
  /\ raced \in BOOLEAN

(* Whoever fills the table holds the mutex, and nobody else.               *)
MutexInv == \A t \in Thread : call[t].pc \in Held <=> mutex_lock = t

FlagInv == \A t \in Thread :
  /\ call[t].pc \in {"register_1_00", "register_2_00", "store"} => ~initialized
  /\ call[t].pc \in {"unlock", "search"} => initialized

(* What the table holds at the stages of its filling.                      *)
Starts(s) == Len(s) >= 2 /\ s[1] = V1 /\ s[2] = V2
Empty == \A m \in MediaType : baseline_profile_array[m] = <<>>
TableInv ==
  ~raced =>
    /\ initialized => \A m \in MediaType : Starts(baseline_profile_array[m])
    /\ ~initialized /\ (\A t \in Thread : call[t].pc \notin {"register_2_00", "store"})
         => Empty
    /\ \A t \in Thread : call[t].pc = "register_2_00" =>
         \A m \in MediaType : baseline_profile_array[m] = <<V1>>
    /\ \A t \in Thread : call[t].pc = "store" =>
         \A m \in MediaType : Starts(baseline_profile_array[m])

(* A registration that is under way brings a version that is not there.    *)
AppendInv ==
  ~raced => \A t \in Thread : call[t].pc = "append" =>
    /\ initialized
    /\ \A i \in DOMAIN baseline_profile_array[call[t].type] :
         baseline_profile_array[call[t].type][i] # call[t].version
    /\ \A u \in Thread \ {t} : call[u].pc # "append"

IInv == /\ TypeInv /\ MutexInv /\ FlagInv /\ TableInv /\ AppendInv /\ RegistryIsWhole

-----------------------------------------------------------------------------
(* The built-in versions, and version zero that stands for the first.      *)
LEMMA VersionsDiffer == V1 \in Version /\ V2 \in Version /\ Zero \in Version
                        /\ V1 # V2 /\ V1 # Zero /\ V2 # Zero
BY DEF V1, V2, Zero, Version

(* An element that is not in a sequence leaves it without duplicates.      *)
LEMMA AppendNew ==
  ASSUME NEW S, NEW s \in Seq(S), NEW v \in S,
         \A i \in DOMAIN s : s[i] # v,
         \A i, j \in DOMAIN s : s[i] = s[j] => i = j
  PROVE  \A i, j \in DOMAIN Append(s, v) : Append(s, v)[i] = Append(s, v)[j] => i = j
<1> DEFINE r == Append(s, v)
<1>1. /\ Len(s) \in Nat /\ Len(r) = Len(s) + 1 /\ DOMAIN s = 1 .. Len(s)
      /\ DOMAIN r = 1 .. Len(s) + 1
  OBVIOUS
<1>2. r[Len(s) + 1] = v /\ \A i \in DOMAIN s : r[i] = s[i]
  OBVIOUS
<1>3. \A i \in DOMAIN r : i \in DOMAIN s \/ i = Len(s) + 1
  BY <1>1
<1> HIDE DEF r
<1>4. \A i, j \in DOMAIN r : r[i] = r[j] => i = j
  BY <1>2, <1>3
<1> QED BY <1>4 DEF r

(* The registry starts in its invariant.                                   *)
LEMMA InitHolds == RegistryInit => IInv
<1> SUFFICES ASSUME RegistryInit PROVE IInv
  OBVIOUS
<1> USE DEF RegistryInit
<1>1. TypeInv
  <2>1. baseline_profile_array \in [MediaType -> Seq(Version)]
    OBVIOUS
  <2>2. Idle \in [pc : Pc, type : MediaType, version : Version,
                  result : Version \cup {NoVersion}]
    BY VersionsDiffer DEF Idle, Pc, MediaType
  <2> QED BY <2>1, <2>2 DEF TypeInv
<1>2. MutexInv
  BY RegistryAssumption DEF MutexInv, Held, Idle
<1>3. FlagInv /\ AppendInv
  BY DEF FlagInv, AppendInv, Idle
<1>4. TableInv
  BY DEF TableInv, Empty, Idle
<1>5. RegistryIsWhole
  BY DEF RegistryIsWhole, FindsBuiltIns, NoDuplicates, At, Idle
<1> QED BY <1>1, <1>2, <1>3, <1>4, <1>5 DEF IInv

(* What the search returns when the profiles of the SDK are in their       *)
(* places.                                                                 *)
LEMMA FoundBuiltIns ==
  ASSUME NEW m \in MediaType, NEW v \in Version,
         baseline_profile_array[m] \in Seq(Version), Starts(baseline_profile_array[m])
  PROVE  /\ Found(m, v) \in Version \cup {NoVersion}
         /\ v \in {Zero, V1} => Found(m, v) = V1
         /\ v = V2 => Found(m, v) = V2
<1>1. V1 \in Versions(m) /\ V2 \in Versions(m)
  BY DEF Versions, Starts
<1>2. baseline_profile_array[m] # <<>>
  BY DEF Starts
<1>3. baseline_profile_array[m][1] = V1
  BY DEF Starts
<1> QED BY <1>1, <1>2, <1>3, VersionsDiffer DEF Found

-----------------------------------------------------------------------------
(***************************************************************************)
(* The steps.  Most of them leave the table alone and move one thread      *)
(* between places that no statement about the table mentions.              *)
(***************************************************************************)
Others(t) == \A u \in Thread \ {t} : call'[u] = call[u]
SameTable == /\ baseline_profile_array' = baseline_profile_array
             /\ initialized' = initialized /\ raced' = raced
Filling == {"register_2_00", "store"}

(* A step that finds nothing leaves what was found alone.                  *)
LEMMA NoneFound ==
  ASSUME IInv, NEW t \in Thread, Others(t), call'[t].pc # "found", raced => raced'
  PROVE  FindsBuiltIns'
<1> SUFFICES ASSUME ~raced', NEW u \in Thread, call'[u].pc = "found"
             PROVE  /\ call'[u].version \in {Zero, V1} => call'[u].result = V1
                    /\ call'[u].version = V2 => call'[u].result = V2
  BY DEF FindsBuiltIns, At
<1>1. u # t /\ call'[u] = call[u] /\ ~raced
  BY DEF Others
<1> QED BY <1>1 DEF IInv, RegistryIsWhole, FindsBuiltIns, At

(* A step that does not write leaves a registration free to append.        *)
LEMMA AppendKept ==
  ASSUME IInv, NEW t \in Thread, Others(t), call'[t].pc # "append",
         baseline_profile_array' = baseline_profile_array,
         initialized => initialized', raced' = raced
  PROVE  AppendInv'
<1> SUFFICES ASSUME ~raced', NEW u \in Thread, call'[u].pc = "append"
             PROVE  /\ initialized'
                    /\ \A i \in DOMAIN baseline_profile_array'[call'[u].type] :
                         baseline_profile_array'[call'[u].type][i] # call'[u].version
                    /\ \A w \in Thread \ {u} : call'[w].pc # "append"
  BY DEF AppendInv
<1>1. u # t /\ call'[u] = call[u] /\ call[u].pc = "append" /\ ~raced
  BY DEF Others
<1>2. /\ initialized
      /\ \A i \in DOMAIN baseline_profile_array[call[u].type] :
           baseline_profile_array[call[u].type][i] # call[u].version
      /\ \A w \in Thread \ {u} : call[w].pc # "append"
  BY <1>1 DEF IInv, AppendInv
<1>3. \A w \in Thread \ {u} : call'[w].pc # "append"
  BY <1>2 DEF Others
<1> QED BY <1>1, <1>2, <1>3

(* A step that neither fills nor appends leaves the table as it was.       *)
LEMMA TableKept ==
  ASSUME IInv, NEW t \in Thread, Others(t), SameTable,
         call[t].pc \notin Filling, call'[t].pc \notin Filling \cup {"append"}
  PROVE  TableInv' /\ AppendInv' /\ NoDuplicates'
<1>1. AppendInv'
  BY AppendKept DEF SameTable
<1>2. NoDuplicates'
  BY DEF IInv, RegistryIsWhole, NoDuplicates, SameTable
<1>3. TableInv'
  <2> SUFFICES ASSUME ~raced'
               PROVE  /\ initialized' => \A m \in MediaType : Starts(baseline_profile_array'[m])
                      /\ ~initialized' /\ (\A u \in Thread : call'[u].pc \notin Filling) => Empty'
                      /\ \A u \in Thread : call'[u].pc = "register_2_00" =>
                           \A m \in MediaType : baseline_profile_array'[m] = <<V1>>
                      /\ \A u \in Thread : call'[u].pc = "store" =>
                           \A m \in MediaType : Starts(baseline_profile_array'[m])
    BY DEF TableInv, Filling, Starts
  <2>1. ~raced
    BY DEF SameTable
  <2>2. \A u \in Thread : call'[u].pc \in Filling \/ call[u].pc \in Filling
                            => u # t /\ call'[u] = call[u]
    BY DEF Others
  <2>3. (\A u \in Thread : call'[u].pc \notin Filling)
          => \A u \in Thread : call[u].pc \notin Filling
    BY <2>2
  <2>4. initialized' => \A m \in MediaType : Starts(baseline_profile_array'[m])
    BY <2>1 DEF IInv, TableInv, SameTable
  <2>5. ~initialized' /\ (\A u \in Thread : call'[u].pc \notin Filling) => Empty'
    BY <2>1, <2>3 DEF IInv, TableInv, SameTable, Empty, Filling
  <2>6. ASSUME NEW u \in Thread, call'[u].pc = "register_2_00", NEW m \in MediaType
        PROVE  baseline_profile_array'[m] = <<V1>>
    BY <2>1, <2>2, <2>6 DEF IInv, TableInv, SameTable, Filling
  <2>7. ASSUME NEW u \in Thread, call'[u].pc = "store", NEW m \in MediaType
        PROVE  Starts(baseline_profile_array'[m])
    BY <2>1, <2>2, <2>7 DEF IInv, TableInv, SameTable, Filling
  <2> QED BY <2>4, <2>5, <2>6, <2>7
<1> QED BY <1>1, <1>2, <1>3

(* The place of a thread, as an action that moves it there leaves it.      *)
LEMMA Moved ==
  ASSUME TypeInv, NEW t \in Thread, NEW pc \in Pc, Goto(t, pc)
  PROVE  /\ call' \in [Thread -> [pc : Pc, type : MediaType, version : Version,
                                  result : Version \cup {NoVersion}]]
         /\ Others(t) /\ call'[t].pc = pc
         /\ call'[t].type = call[t].type /\ call'[t].version = call[t].version
BY DEF TypeInv, Goto, Others

(* The look at the flag without the lock keeps the invariant.              *)
LEMMA CheckKeeps ==
  ASSUME IInv, NEW t \in Thread, CheckInitialized(t) PROVE IInv'
<1> DEFINE pc == IF initialized THEN "search" ELSE "lock"
<1>1. /\ call[t].pc = "check" /\ mutex_lock' = mutex_lock /\ SameTable
      /\ Goto(t, pc) /\ pc \in Pc
  BY DEF CheckInitialized, At, SameTable, Pc
<1>2. pc = "search" => initialized
  OBVIOUS
<1>3. pc \in {"search", "lock"}
  OBVIOUS
<1> HIDE DEF pc
<1>4. /\ Others(t) /\ call'[t].pc = pc /\ TypeInv'
  BY <1>1, Moved DEF IInv, TypeInv, SameTable
<1>5. MutexInv'
  BY <1>1, <1>3, <1>4 DEF IInv, MutexInv, Held, Others
<1>6. FlagInv'
  BY <1>1, <1>2, <1>3, <1>4 DEF IInv, FlagInv, Others, SameTable
<1>7. TableInv' /\ AppendInv' /\ NoDuplicates'
  BY <1>1, <1>3, <1>4, TableKept DEF Filling
<1>8. FindsBuiltIns'
  BY <1>1, <1>3, <1>4, NoneFound DEF SameTable
<1> QED BY <1>4, <1>5, <1>6, <1>7, <1>8 DEF IInv, RegistryIsWhole

(* Taking the lock keeps the invariant.                                    *)
LEMMA LockKeeps ==
  ASSUME IInv, NEW t \in Thread, LockMutex(t) PROVE IInv'
<1>1. /\ call[t].pc = "lock" /\ mutex_lock = NoThread /\ mutex_lock' = t /\ SameTable
      /\ Goto(t, AfterLock) /\ AfterLock \in Pc
  BY DEF LockMutex, At, SameTable, Pc, AfterLock
<1>2. /\ AfterLock = "unlock" => initialized
      /\ AfterLock = "register_1_00" => ~initialized
      /\ AfterLock \in {"unlock", "register_1_00"}
  BY DEF AfterLock
<1>3. /\ Others(t) /\ call'[t].pc = AfterLock /\ TypeInv'
  BY <1>1, Moved DEF IInv, TypeInv, SameTable
<1>4. MutexInv'
  <2>1. \A u \in Thread : call[u].pc \notin Held
    BY <1>1, RegistryAssumption DEF IInv, MutexInv
  <2> QED BY <2>1, <1>1, <1>2, <1>3 DEF MutexInv, Held, Others
<1>5. FlagInv'
  BY <1>1, <1>2, <1>3 DEF IInv, FlagInv, Others, SameTable
<1>6. TableInv' /\ AppendInv' /\ NoDuplicates'
  BY <1>1, <1>2, <1>3, TableKept DEF Filling
<1>7. FindsBuiltIns'
  BY <1>1, <1>2, <1>3, NoneFound DEF SameTable
<1> QED BY <1>3, <1>4, <1>5, <1>6, <1>7 DEF IInv, RegistryIsWhole

(* Giving the lock back keeps the invariant.                               *)
LEMMA UnlockKeeps ==
  ASSUME IInv, NEW t \in Thread, UnlockMutex(t) PROVE IInv'
<1>1. /\ call[t].pc = "unlock" /\ mutex_lock' = NoThread /\ SameTable
      /\ Goto(t, "search") /\ "search" \in Pc
  BY DEF UnlockMutex, At, SameTable, Pc
<1>2. /\ Others(t) /\ call'[t].pc = "search" /\ TypeInv'
  BY <1>1, Moved DEF IInv, TypeInv, SameTable
<1>3. MutexInv'
  <2>1. mutex_lock = t
    BY <1>1 DEF IInv, MutexInv, Held
  <2>2. \A u \in Thread \ {t} : call[u].pc \notin Held
    BY <2>1 DEF IInv, MutexInv
  <2> QED BY <2>2, <1>1, <1>2, RegistryAssumption DEF MutexInv, Held, Others
<1>4. initialized
  BY <1>1 DEF IInv, FlagInv
<1>5. FlagInv'
  BY <1>1, <1>2, <1>4 DEF IInv, FlagInv, Others, SameTable
<1>6. TableInv' /\ AppendInv' /\ NoDuplicates'
  BY <1>1, <1>2, TableKept DEF Filling
<1>7. FindsBuiltIns'
  BY <1>1, <1>2, NoneFound DEF SameTable
<1> QED BY <1>2, <1>3, <1>5, <1>6, <1>7 DEF IInv, RegistryIsWhole

(* A search of the table keeps the invariant.                              *)
LEMMA SearchKeeps ==
  ASSUME IInv, NEW t \in Thread, Search(t) PROVE IInv'
<1>1. /\ call[t].pc = "search" /\ initialized
      /\ call[t].type \in MediaType /\ call[t].version \in Version
  BY DEF Search, At, IInv, TypeInv, FlagInv
<1> DEFINE r == Found(call[t].type, call[t].version)
<1>2. /\ ~raced => Starts(baseline_profile_array[call[t].type])
      /\ baseline_profile_array[call[t].type] \in Seq(Version)
  BY <1>1 DEF IInv, TableInv, TypeInv
<1>3. r \in Version \cup {NoVersion}
  <2>1. ASSUME baseline_profile_array[call[t].type] # <<>>
        PROVE  baseline_profile_array[call[t].type][1] \in Version
    BY <2>1, <1>2
  <2> QED BY <2>1, <1>1 DEF Found
<1>4. ~raced => /\ call[t].version \in {Zero, V1} => r = V1
                /\ call[t].version = V2 => r = V2
  BY <1>1, <1>2, FoundBuiltIns
<1> HIDE DEF r
<1>5. /\ call' = [call EXCEPT ![t].pc = "found", ![t].result = r]
      /\ mutex_lock' = mutex_lock /\ SameTable
  BY DEF Search, SameTable, r
<1>a. "found" \in Pc BY DEF Pc
<1>6. TypeInv'
  BY <1>3, <1>5, <1>a DEF IInv, TypeInv, SameTable
<1>7. /\ Others(t) /\ call'[t].pc = "found" /\ call'[t].result = r
      /\ call'[t].type = call[t].type /\ call'[t].version = call[t].version
  BY <1>5 DEF IInv, TypeInv, Others
<1>8. MutexInv' /\ FlagInv'
  BY <1>1, <1>5, <1>7 DEF IInv, MutexInv, FlagInv, Held, Others, SameTable
<1>9. TableInv' /\ AppendInv' /\ NoDuplicates'
  BY <1>1, <1>5, <1>7, TableKept DEF Filling
<1>10. FindsBuiltIns'
  <2> SUFFICES ASSUME ~raced', NEW u \in Thread, call'[u].pc = "found"
               PROVE  /\ call'[u].version \in {Zero, V1} => call'[u].result = V1
                      /\ call'[u].version = V2 => call'[u].result = V2
    BY DEF FindsBuiltIns, At
  <2>1. ~raced
    BY <1>5 DEF SameTable
  <2>2. CASE u = t
    BY <2>1, <2>2, <1>4, <1>7
  <2>3. CASE u # t
    BY <2>1, <2>3, <1>7 DEF IInv, RegistryIsWhole, FindsBuiltIns, At, Others
  <2> QED BY <2>2, <2>3
<1> QED BY <1>6, <1>8, <1>9, <1>10 DEF IInv, RegistryIsWhole

(* A call that comes, or one whose result is taken.                        *)
LEMMA CallerKeeps ==
  ASSUME IInv, NEW t \in Thread,
         TakeResult(t) \/ \E m \in MediaType, v \in Version : FindCall(t, m, v)
  PROVE  IInv'
<1>1. PICK c \in [pc : {"idle", "check"}, type : MediaType, version : Version,
                  result : Version \cup {NoVersion}] : call' = [call EXCEPT ![t] = c]
  <2>1. CASE TakeResult(t)
    <3>1. Idle \in [pc : {"idle", "check"}, type : MediaType, version : Version,
                    result : Version \cup {NoVersion}]
      BY VersionsDiffer DEF Idle, MediaType
    <3> QED BY <2>1, <3>1 DEF TakeResult
  <2>2. CASE \E m \in MediaType, v \in Version : FindCall(t, m, v)
    BY <2>2 DEF FindCall
  <2> QED BY <2>1, <2>2
<1>2. /\ call[t].pc \in {"idle", "found"} /\ mutex_lock' = mutex_lock /\ SameTable
  BY DEF TakeResult, FindCall, At, SameTable
<1>3. /\ Others(t) /\ call'[t].pc \in {"idle", "check"} /\ TypeInv'
  BY <1>1, <1>2 DEF IInv, TypeInv, Others, SameTable, Pc
<1>4. MutexInv' /\ FlagInv'
  BY <1>2, <1>3 DEF IInv, MutexInv, FlagInv, Held, Others, SameTable
<1>5. TableInv' /\ AppendInv' /\ NoDuplicates'
  BY <1>2, <1>3, TableKept DEF Filling
<1>6. FindsBuiltIns'
  BY <1>2, <1>3, NoneFound DEF SameTable
<1> QED BY <1>3, <1>4, <1>5, <1>6 DEF IInv, RegistryIsWhole

(* The call of a registration keeps the invariant.                         *)
LEMMA RegisterCallKeeps ==
  ASSUME IInv, NEW t \in Thread, NEW m \in MediaType, NEW v \in Version,
         RegisterCall(t, m, v)
  PROVE  IInv'
<1>1. /\ call[t].pc = "idle" /\ mutex_lock' = mutex_lock /\ initialized' = initialized
      /\ baseline_profile_array' = baseline_profile_array
  BY DEF RegisterCall, At
<1>2. CASE IsDuplicate(m, v)
  <2>1. call' = call /\ raced' = raced
    BY <1>2 DEF RegisterCall
  <2> QED BY <1>1, <2>1 DEF IInv, TypeInv, MutexInv, FlagInv, TableInv, AppendInv,
        Empty, RegistryIsWhole, FindsBuiltIns, NoDuplicates, At
<1>3. CASE ~IsDuplicate(m, v)
  <2>1. /\ call' = [call EXCEPT ![t] =
              [pc |-> "append", type |-> m, version |-> v, result |-> NoVersion]]
        /\ raced' = (raced \/ ~initialized \/ ~Alone(t))
    BY <1>3 DEF RegisterCall
  <2>2. /\ Others(t) /\ call'[t].pc = "append"
        /\ call'[t].type = m /\ call'[t].version = v
    BY <2>1 DEF IInv, TypeInv, Others
  <2>3. TypeInv'
    BY <1>1, <2>1 DEF IInv, TypeInv, Pc
  <2>4. MutexInv' /\ FlagInv'
    BY <1>1, <2>2 DEF IInv, MutexInv, FlagInv, Held, Others
  <2>5. NoDuplicates' /\ FindsBuiltIns'
    <3>1. raced => raced'
      BY <2>1
    <3>2. FindsBuiltIns'
      BY <3>1, <2>2, NoneFound
    <3> QED BY <1>1, <3>1, <3>2 DEF IInv, RegistryIsWhole, NoDuplicates
  <2>6. ~raced' => /\ ~raced /\ initialized /\ Found(m, v) = NoVersion
                   /\ \A u \in Thread \ {t} : call[u].pc # "append"
    BY <1>3, <2>1 DEF IsDuplicate, Alone, At
  <2>7. TableInv'
    <3> SUFFICES ASSUME ~raced' PROVE TableInv'
      BY DEF TableInv
    <3>1. /\ ~raced /\ initialized'
          /\ \A u \in Thread : call'[u].pc \notin {"register_2_00", "store"}
      BY <1>1, <2>4, <2>6 DEF FlagInv
    <3>2. \A k \in MediaType : Starts(baseline_profile_array'[k])
      BY <1>1, <2>6 DEF IInv, TableInv
    <3> QED BY <3>1, <3>2 DEF TableInv, Starts
  <2>8. AppendInv'
    <3> SUFFICES ASSUME ~raced', NEW u \in Thread, call'[u].pc = "append"
                 PROVE  /\ initialized'
                        /\ \A i \in DOMAIN baseline_profile_array'[call'[u].type] :
                             baseline_profile_array'[call'[u].type][i] # call'[u].version
                        /\ \A w \in Thread \ {u} : call'[w].pc # "append"
      BY DEF AppendInv
    <3>1. u = t /\ initialized' /\ \A w \in Thread \ {u} : call'[w].pc # "append"
      BY <1>1, <2>2, <2>6 DEF Others
    <3>2. ASSUME NEW i \in DOMAIN baseline_profile_array[m], baseline_profile_array[m][i] = v
          PROVE  FALSE
      <4>1. baseline_profile_array[m] \in Seq(Version) /\ Starts(baseline_profile_array[m])
        BY <2>6 DEF IInv, TypeInv, TableInv
      <4>2. CASE v = Zero
        BY <4>1, <4>2, <2>6, FoundBuiltIns, VersionsDiffer, RegistryAssumption
      <4>3. CASE v # Zero
        <5>1. v \in Versions(m)
          BY <3>2 DEF Versions
        <5>2. Found(m, v) = v
          BY <4>3, <5>1 DEF Found
        <5> QED BY <5>2, <2>6, RegistryAssumption
      <4> QED BY <4>2, <4>3
    <3> QED BY <3>1, <3>2, <1>1, <2>2
  <2> QED BY <2>3, <2>4, <2>5, <2>7, <2>8 DEF IInv, RegistryIsWhole
<1> QED BY <1>2, <1>3

(***************************************************************************)
(* The steps that change the table.                                        *)
(***************************************************************************)
LEMMA OneHolder ==
  ASSUME IInv, NEW t \in Thread, call[t].pc \in Held
  PROVE  mutex_lock = t /\ \A u \in Thread \ {t} : call[u].pc \notin Held
BY DEF IInv, MutexInv

(* The built-in registration of the first version keeps the invariant.     *)
LEMMA Register1Keeps ==
  ASSUME IInv, NEW t \in Thread, RegisterAvmBaselineProfiles_1_00(t) PROVE IInv'
<1> DEFINE pc == IF Fits("Ancillary") THEN "register_2_00" ELSE "store"
<1>1. /\ call[t].pc = "register_1_00" /\ mutex_lock' = mutex_lock
      /\ initialized' = initialized /\ raced' = raced /\ RegisterRelease(V1)
      /\ Goto(t, pc) /\ pc \in Pc /\ pc \in Filling
  BY DEF RegisterAvmBaselineProfiles_1_00, At, Pc, Filling
<1>2. /\ ~initialized /\ mutex_lock = t
      /\ \A u \in Thread \ {t} : call[u].pc \notin Held
  BY <1>1, OneHolder DEF IInv, FlagInv, Held
<1>3. ~raced => Empty
  BY <1>1, <1>2 DEF IInv, TableInv, Held
<1>4. ~raced => /\ pc = "register_2_00"
                /\ \A m \in MediaType : baseline_profile_array'[m] = <<V1>>
  <2> SUFFICES ASSUME ~raced
               PROVE  /\ pc = "register_2_00"
                      /\ \A m \in MediaType : baseline_profile_array'[m] = <<V1>>
    OBVIOUS
  <2>1. \A m \in MediaType : Fits(m)
    BY <1>3, RegistryAssumption DEF Fits, Empty
  <2>2. Fits("Ancillary")
    BY <2>1 DEF MediaType
  <2>3. ASSUME NEW m \in MediaType PROVE baseline_profile_array'[m] = <<V1>>
    <3>1. baseline_profile_array'[m] = Append(baseline_profile_array[m], V1)
      BY <1>1, <2>1 DEF RegisterRelease
    <3>2. baseline_profile_array[m] = <<>>
      BY <1>3 DEF Empty
    <3> QED BY <3>1, <3>2
  <2> QED BY <2>2, <2>3
<1>5. baseline_profile_array' \in [MediaType -> Seq(Version)]
  BY <1>1, VersionsDiffer DEF RegisterRelease, IInv, TypeInv
<1> HIDE DEF pc
<1>6. /\ Others(t) /\ call'[t].pc = pc /\ TypeInv'
  BY <1>1, <1>5, Moved DEF IInv, TypeInv
<1>7. MutexInv' /\ FlagInv'
  BY <1>1, <1>2, <1>6 DEF IInv, MutexInv, FlagInv, Held, Others, Filling
<1>8. TableInv'
  BY <1>1, <1>2, <1>4, <1>6 DEF TableInv, Others, Held
<1>9. AppendInv'
  BY <1>1, <1>2, <1>6 DEF IInv, AppendInv, Others, Filling
<1>10. NoDuplicates'
  BY <1>1, <1>4 DEF NoDuplicates
<1>11. FindsBuiltIns'
  BY <1>1, <1>6, NoneFound DEF Filling
<1> QED BY <1>6, <1>7, <1>8, <1>9, <1>10, <1>11 DEF IInv, RegistryIsWhole

(* The built-in registration of the second version keeps the invariant.    *)
LEMMA Register2Keeps ==
  ASSUME IInv, NEW t \in Thread, RegisterAvmBaselineProfiles_2_00(t) PROVE IInv'
<1>1. /\ call[t].pc = "register_2_00" /\ mutex_lock' = mutex_lock
      /\ initialized' = initialized /\ raced' = raced /\ RegisterRelease(V2)
      /\ Goto(t, "store") /\ "store" \in Pc
  BY DEF RegisterAvmBaselineProfiles_2_00, At, Pc
<1>2. /\ ~initialized /\ mutex_lock = t
      /\ \A u \in Thread \ {t} : call[u].pc \notin Held
  BY <1>1, OneHolder DEF IInv, FlagInv, Held
<1>3. ~raced => \A m \in MediaType : baseline_profile_array[m] = <<V1>>
  BY <1>1 DEF IInv, TableInv
<1>4. ~raced => \A m \in MediaType : /\ Starts(baseline_profile_array'[m])
                                    /\ DOMAIN baseline_profile_array'[m] = 1 .. 2
  <2> SUFFICES ASSUME ~raced, NEW m \in MediaType
               PROVE  /\ Starts(baseline_profile_array'[m])
                      /\ DOMAIN baseline_profile_array'[m] = 1 .. 2
    OBVIOUS
  <2>1. \A n \in MediaType : baseline_profile_array[n] = <<V1>>
    BY <1>3
  <2>2. \A n \in MediaType : Len(baseline_profile_array[n]) = 1
    BY <2>1
  <2>3. Fits(m)
    <3>1. \A n \in MediaType : Len(baseline_profile_array[n]) < ProfilesMax
      <4>1. 1 < ProfilesMax
        BY RegistryAssumption
      <4> QED BY <2>2, <4>1
    <3> QED BY <3>1 DEF Fits
  <2>4. baseline_profile_array'[m] = Append(baseline_profile_array[m], V2)
    BY <1>1, <2>3 DEF RegisterRelease
  <2>5. baseline_profile_array[m] = <<V1>> /\ <<V1>> \in Seq(Version)
    BY <2>1, VersionsDiffer
  <2>6. baseline_profile_array'[m] = Append(<<V1>>, V2)
    BY <2>4, <2>5
  <2>7. ASSUME NEW s \in Seq(Version), NEW v \in Version, Len(s) = 1
        PROVE  /\ Append(s, v) \in Seq(Version) /\ Len(Append(s, v)) = 2
               /\ Append(s, v)[1] = s[1] /\ Append(s, v)[2] = v
    <3>1. /\ Append(s, v) \in Seq(Version) /\ Len(Append(s, v)) = Len(s) + 1
          /\ Append(s, v)[Len(s) + 1] = v
      OBVIOUS
    <3>2. 1 \in 1 .. Len(s)
      BY <2>7
    <3>3. Append(s, v)[1] = s[1]
      BY <3>2
    <3> QED BY <2>7, <3>1, <3>3
  <2> QED BY <2>5, <2>6, <2>7, VersionsDiffer DEF Starts
<1>5. baseline_profile_array' \in [MediaType -> Seq(Version)]
  BY <1>1, VersionsDiffer DEF RegisterRelease, IInv, TypeInv
<1>6. /\ Others(t) /\ call'[t].pc = "store" /\ TypeInv'
  BY <1>1, <1>5, Moved DEF IInv, TypeInv
<1>7. MutexInv' /\ FlagInv'
  BY <1>1, <1>2, <1>6 DEF IInv, MutexInv, FlagInv, Held, Others
<1>8. TableInv'
  BY <1>1, <1>2, <1>4, <1>6 DEF TableInv, Others, Held
<1>9. AppendInv'
  BY <1>1, <1>2, <1>6 DEF IInv, AppendInv, Others
<1>10. NoDuplicates'
  <2> SUFFICES ASSUME ~raced', NEW m \in MediaType, NEW i \in DOMAIN baseline_profile_array'[m],
                      NEW j \in DOMAIN baseline_profile_array'[m],
                      baseline_profile_array'[m][i] = baseline_profile_array'[m][j]
               PROVE  i = j
    BY DEF NoDuplicates
  <2>1. /\ baseline_profile_array'[m][1] = V1 /\ baseline_profile_array'[m][2] = V2
        /\ DOMAIN baseline_profile_array'[m] = 1 .. 2
    BY <1>1, <1>4 DEF Starts
  <2>2. i \in {1, 2} /\ j \in {1, 2}
    BY <2>1
  <2> QED BY <2>1, <2>2, VersionsDiffer
<1>11. FindsBuiltIns'
  BY <1>1, <1>6, NoneFound
<1> QED BY <1>6, <1>7, <1>8, <1>9, <1>10, <1>11 DEF IInv, RegistryIsWhole

(* Setting the flag once the table is filled keeps the invariant.          *)
LEMMA StoreKeeps ==
  ASSUME IInv, NEW t \in Thread, StoreInitialized(t) PROVE IInv'
<1>1. /\ call[t].pc = "store" /\ mutex_lock' = mutex_lock /\ initialized' = TRUE
      /\ raced' = raced /\ baseline_profile_array' = baseline_profile_array
      /\ Goto(t, "unlock") /\ "unlock" \in Pc
  BY DEF StoreInitialized, At, Pc
<1>2. /\ mutex_lock = t /\ \A u \in Thread \ {t} : call[u].pc \notin Held
  BY <1>1, OneHolder DEF Held
<1>3. ~raced => \A m \in MediaType : Starts(baseline_profile_array[m])
  BY <1>1, VersionsDiffer DEF IInv, TableInv, Starts
<1>4. /\ Others(t) /\ call'[t].pc = "unlock" /\ TypeInv'
  BY <1>1, Moved DEF IInv, TypeInv
<1>5. MutexInv' /\ FlagInv'
  BY <1>1, <1>2, <1>4 DEF IInv, MutexInv, FlagInv, Held, Others
<1>6. TableInv'
  BY <1>1, <1>2, <1>3, <1>4 DEF TableInv, Others, Held, Starts
<1>7. AppendInv'
  BY <1>1, <1>4, AppendKept
<1>8. NoDuplicates'
  BY <1>1 DEF IInv, RegistryIsWhole, NoDuplicates
<1>9. FindsBuiltIns'
  BY <1>1, <1>4, NoneFound
<1> QED BY <1>4, <1>5, <1>6, <1>7, <1>8, <1>9 DEF IInv, RegistryIsWhole

(* The append of a new version keeps the invariant.                        *)
LEMMA AppendKeeps ==
  ASSUME IInv, NEW t \in Thread, AppendProfile(t) PROVE IInv'
<1> DEFINE m == call[t].type
           v == call[t].version
           old == baseline_profile_array[m]
           new == IF Len(old) < ProfilesMax THEN Append(old, v) ELSE old
<1>1. /\ call[t].pc = "append" /\ mutex_lock' = mutex_lock
      /\ initialized' = initialized /\ raced' = raced
      /\ baseline_profile_array' = [baseline_profile_array EXCEPT ![m] = new]
      /\ call' = [call EXCEPT ![t] = Idle]
  BY DEF AppendProfile, At
<1>2. /\ m \in MediaType /\ v \in Version /\ old \in Seq(Version)
      /\ baseline_profile_array \in [MediaType -> Seq(Version)]
  BY DEF IInv, TypeInv
<1>3. new \in Seq(Version)
  BY <1>2
<1>4. /\ baseline_profile_array'[m] = new
      /\ \A n \in MediaType \ {m} : baseline_profile_array'[n] = baseline_profile_array[n]
      /\ baseline_profile_array' \in [MediaType -> Seq(Version)]
  BY <1>1, <1>2, <1>3
<1>5. Starts(old) => Starts(new)
  BY <1>2 DEF Starts
<1>6. (\A i \in DOMAIN old : old[i] # v) /\ (\A i, j \in DOMAIN old : old[i] = old[j] => i = j)
        => \A i, j \in DOMAIN new : new[i] = new[j] => i = j
  <2>1. CASE Len(old) < ProfilesMax
    <3>1. new = Append(old, v)
      BY <2>1
    <3> HIDE DEF new, old, v
    <3> QED BY <1>2, <3>1, AppendNew
  <2>2. CASE ~(Len(old) < ProfilesMax)
    BY <2>2
  <2> QED BY <2>1, <2>2
<1> HIDE DEF new
<1>7. /\ Others(t) /\ call'[t].pc = "idle"
      /\ call' \in [Thread -> [pc : Pc, type : MediaType, version : Version,
                               result : Version \cup {NoVersion}]]
  BY <1>1, VersionsDiffer DEF IInv, TypeInv, Others, Idle, Pc, MediaType
<1>8. TypeInv'
  BY <1>1, <1>4, <1>7 DEF IInv, TypeInv
<1>9. MutexInv' /\ FlagInv'
  BY <1>1, <1>7 DEF IInv, MutexInv, FlagInv, Held, Others
<1>10. ~raced => /\ initialized /\ (\A i \in DOMAIN old : old[i] # v)
                 /\ \A u \in Thread \ {t} : call[u].pc # "append"
  BY <1>1 DEF IInv, AppendInv
<1>11. TableInv'
  <2> SUFFICES ASSUME ~raced' PROVE TableInv'
    BY DEF TableInv
  <2>1. /\ ~raced /\ initialized'
        /\ \A u \in Thread : call'[u].pc \notin {"register_2_00", "store"}
    BY <1>1, <1>9, <1>10 DEF FlagInv
  <2>2. \A n \in MediaType : Starts(baseline_profile_array[n])
    BY <2>1, <1>1 DEF IInv, TableInv
  <2>3. ASSUME NEW n \in MediaType PROVE Starts(baseline_profile_array'[n])
    BY <1>2, <1>4, <1>5, <2>2
  <2> QED BY <2>1, <2>3 DEF TableInv, Starts
<1>12. AppendInv'
  BY <1>1, <1>7, <1>10 DEF AppendInv, Others
<1>13. NoDuplicates'
  <2> SUFFICES ASSUME ~raced', NEW n \in MediaType
               PROVE  \A i, j \in DOMAIN baseline_profile_array'[n] :
                        baseline_profile_array'[n][i] = baseline_profile_array'[n][j] => i = j
    BY DEF NoDuplicates
  <2>1. \A i, j \in DOMAIN baseline_profile_array[n] :
          baseline_profile_array[n][i] = baseline_profile_array[n][j] => i = j
    BY <1>1 DEF IInv, RegistryIsWhole, NoDuplicates
  <2>2. CASE n = m
    BY <1>1, <1>4, <1>6, <1>10, <2>1, <2>2
  <2>3. CASE n # m
    BY <1>4, <2>1, <2>3
  <2> QED BY <2>2, <2>3
<1>14. FindsBuiltIns'
  BY <1>1, <1>7, NoneFound
<1> QED BY <1>8, <1>9, <1>11, <1>12, <1>13, <1>14 DEF IInv, RegistryIsWhole

-----------------------------------------------------------------------------
(* Every step keeps the invariant.                                         *)
LEMMA Inductive == IInv /\ [RegistryNext]_registry => IInv'
<1> SUFFICES ASSUME IInv, [RegistryNext]_registry PROVE IInv'
  OBVIOUS
<1>1. CASE UNCHANGED registry
  <2>1. /\ initialized' = initialized /\ mutex_lock' = mutex_lock
        /\ baseline_profile_array' = baseline_profile_array
        /\ call' = call /\ raced' = raced
    BY <1>1 DEF registry
  <2> QED BY <2>1 DEF IInv, TypeInv, MutexInv, FlagInv, TableInv, AppendInv,
        Empty, RegistryIsWhole, FindsBuiltIns, NoDuplicates, At
<1>2. ASSUME NEW t \in Thread, RegistryStep(t) PROVE IInv'
  BY <1>2, CheckKeeps, LockKeeps, Register1Keeps, Register2Keeps, StoreKeeps,
     UnlockKeeps, SearchKeeps, AppendKeeps DEF RegistryStep
<1>3. ASSUME NEW t \in Thread, TakeResult(t) PROVE IInv'
  BY <1>3, CallerKeeps
<1>4. ASSUME NEW t \in Thread, NEW m \in MediaType, NEW v \in Version,
             FindCall(t, m, v) \/ RegisterCall(t, m, v)
      PROVE  IInv'
  BY <1>4, CallerKeeps, RegisterCallKeeps
<1> QED BY <1>1, <1>2, <1>3, <1>4 DEF RegistryNext

(* The inductive invariant holds in every state that threads calling       *)
(* FindProfileVersion and CdiAvmRegisterBaselineProfile can reach.         *)
THEOREM RegistryInvariance == RegistrySpec => []IInv
BY InitHolds, Inductive, PTL DEF RegistrySpec

(* Unless a registration is early or meets another, a thread that looks    *)
(* for 0.0, 1.0 or 2.0 gets it however many threads come first at the same *)
(* time, and no type has a version twice.                                  *)
THEOREM RegistryStaysWhole == RegistrySpec => []RegistryIsWhole
<1>1. IInv => RegistryIsWhole
  BY DEF IInv
<1> QED BY <1>1, RegistryInvariance, PTL

(* At most one thread at a time is in the part of FindProfileVersion that  *)
(* fills the table, and only while the flag is down: the table is filled   *)
(* once, whatever registrations do.                                        *)
OneFills ==
  \A t, u \in Thread :
    /\ call[t].pc \in Held /\ call[u].pc \in Held => t = u
    /\ call[t].pc \in Held \ {"unlock"} => ~initialized
(* One thread at a time fills the table, and none once it is filled.       *)
THEOREM FilledOnce == RegistrySpec => []OneFills
<1>1. IInv => OneFills
  BY DEF IInv, MutexInv, FlagInv, OneFills, Held
<1> QED BY <1>1, RegistryInvariance, PTL
=============================================================================

-------------------------- MODULE ProfileRegistry ---------------------------
(***************************************************************************)
(* The table of baseline profiles of src/cdi/baseline_profile.c: filled by *)
(* the first thread that looks for a profile, under a static mutex and a   *)
(* flag that is looked at twice, and extended by the application, without  *)
(* the mutex, through CdiAvmRegisterBaselineProfile.                       *)
(*                                                                         *)
(* The count of a type is the length of its sequence: a registration that  *)
(* is alone writes the entry first and the count last, which is one step   *)
(* for all others.  One that is not alone, or that comes before the table  *)
(* is filled, sets raced.                                                  *)
(***************************************************************************)
EXTENDS Integers, Sequences

CONSTANTS
  Thread,       \* the threads that call
  ProfilesMax,  \* PROFILES_MAX
  NoThread,     \* the mutex is free
  NoVersion     \* no profile was found

V1 == [major |-> 1, minor |-> 0]
V2 == [major |-> 2, minor |-> 0]
Zero == [major |-> 0, minor |-> 0]
Version == [major : 0 .. 99, minor : 0 .. 99]

ASSUME RegistryAssumption ==
  /\ ProfilesMax \in Nat /\ ProfilesMax >= 2
  /\ NoThread \notin Thread
  /\ NoVersion \notin Version

MediaType == {"Video", "Audio", "Ancillary"}

VARIABLES
  initialized, mutex_lock,
  baseline_profile_array,  \* per type: the versions, in order
  call,                    \* per thread: what it asks for and where it is
  raced                    \* history: a registration was early or not alone
registry == <<initialized, mutex_lock, baseline_profile_array, call, raced>>

Idle == [pc |-> "idle", type |-> "Video", version |-> Zero, result |-> NoVersion]

RegistryInit ==
  /\ initialized = FALSE
  /\ mutex_lock = NoThread
  /\ baseline_profile_array = [m \in MediaType |-> <<>>]
  /\ call = [t \in Thread |-> Idle]
  /\ raced = FALSE

At(t, pc) == call[t].pc = pc
Goto(t, pc) == call' = [call EXCEPT ![t].pc = pc]
Versions(m) == {baseline_profile_array[m][i] : i \in DOMAIN baseline_profile_array[m]}

(***************************************************************************)
(* FindProfileVersion.  Version 0.0 means the first entry.                 *)
(***************************************************************************)
FindCall(t, m, v) ==
  /\ At(t, "idle")
  /\ call' = [call EXCEPT ![t] =
       [pc |-> "check", type |-> m, version |-> v, result |-> NoVersion]]
  /\ UNCHANGED <<initialized, mutex_lock, baseline_profile_array, raced>>

CheckInitialized(t) ==
  /\ At(t, "check")
  /\ Goto(t, IF initialized THEN "search" ELSE "lock")
  /\ UNCHANGED <<initialized, mutex_lock, baseline_profile_array, raced>>

\* Mutant: the flag is not looked at again under the mutex.
InitializesAnyway == "register_1_00"
AfterLock == IF initialized THEN "unlock" ELSE "register_1_00"

LockMutex(t) ==
  /\ At(t, "lock") /\ mutex_lock = NoThread
  /\ mutex_lock' = t
  /\ Goto(t, AfterLock)
  /\ UNCHANGED <<initialized, baseline_profile_array, raced>>

(* InitializeBaselineProfiles: each release registers its three types, as  *)
(* long as there is room; with the flag still down nobody looks for        *)
(* duplicates.                                                             *)
Rank == [Video |-> 1, Audio |-> 2, Ancillary |-> 3]
Fits(m) == \A n \in MediaType :
  Rank[n] <= Rank[m] => Len(baseline_profile_array[n]) < ProfilesMax
RegisterRelease(v) ==
  baseline_profile_array' = [m \in MediaType |->
    IF Fits(m) THEN Append(baseline_profile_array[m], v) ELSE baseline_profile_array[m]]
RegisterAvmBaselineProfiles_1_00(t) ==
  /\ At(t, "register_1_00") /\ RegisterRelease(V1)
  /\ Goto(t, IF Fits("Ancillary") THEN "register_2_00" ELSE "store")
  /\ UNCHANGED <<initialized, mutex_lock, raced>>
RegisterAvmBaselineProfiles_2_00(t) ==
  /\ At(t, "register_2_00") /\ RegisterRelease(V2) /\ Goto(t, "store")
  /\ UNCHANGED <<initialized, mutex_lock, raced>>

StoreInitialized(t) ==
  /\ At(t, "store") /\ Goto(t, "unlock")
  /\ initialized' = TRUE
  /\ UNCHANGED <<mutex_lock, baseline_profile_array, raced>>
UnlockMutex(t) ==
  /\ At(t, "unlock") /\ Goto(t, "search")
  /\ mutex_lock' = NoThread
  /\ UNCHANGED <<initialized, baseline_profile_array, raced>>

Found(m, v) ==
  IF v = Zero
  THEN IF baseline_profile_array[m] = <<>> THEN NoVersion
       ELSE baseline_profile_array[m][1]
  ELSE IF v \in Versions(m) THEN v ELSE NoVersion
Search(t) ==
  /\ At(t, "search")
  /\ call' = [call EXCEPT ![t].pc = "found",
                          ![t].result = Found(call[t].type, call[t].version)]
  /\ UNCHANGED <<initialized, mutex_lock, baseline_profile_array, raced>>

(***************************************************************************)
(* CdiAvmRegisterBaselineProfile: the search for a duplicate, if the flag  *)
(* is up, and the new entry.                                               *)
(***************************************************************************)
Alone(t) == \A u \in Thread \ {t} : ~At(u, "append")

IsDuplicate(m, v) == initialized /\ Found(m, v) # NoVersion

RegisterCall(t, m, v) ==
  /\ At(t, "idle")
  /\ IF IsDuplicate(m, v) THEN UNCHANGED <<call, raced>>
     ELSE /\ call' = [call EXCEPT ![t] =
               [pc |-> "append", type |-> m, version |-> v, result |-> NoVersion]]
          /\ raced' = (raced \/ ~initialized \/ ~Alone(t))
  /\ UNCHANGED <<initialized, mutex_lock, baseline_profile_array>>

AppendProfile(t) ==
  /\ At(t, "append")
  /\ LET m == call[t].type
     IN  baseline_profile_array' = [baseline_profile_array EXCEPT
           ![m] = IF Len(@) < ProfilesMax THEN Append(@, call[t].version) ELSE @]
  /\ call' = [call EXCEPT ![t] = Idle]
  /\ UNCHANGED <<initialized, mutex_lock, raced>>

RegistryStep(t) ==
  \/ CheckInitialized(t) \/ LockMutex(t)
  \/ RegisterAvmBaselineProfiles_1_00(t) \/ RegisterAvmBaselineProfiles_2_00(t)
  \/ StoreInitialized(t) \/ UnlockMutex(t) \/ Search(t) \/ AppendProfile(t)

(* The caller has taken the result.                                        *)
TakeResult(t) ==
  /\ At(t, "found")
  /\ call' = [call EXCEPT ![t] = Idle]
  /\ UNCHANGED <<initialized, mutex_lock, baseline_profile_array, raced>>

RegistryNext == \E t \in Thread :
  \/ RegistryStep(t) \/ TakeResult(t)
  \/ \E m \in MediaType, v \in Version : FindCall(t, m, v) \/ RegisterCall(t, m, v)
RegistrySpec == RegistryInit /\ [][RegistryNext]_registry

-----------------------------------------------------------------------------
(* As long as no registration is early or meets another, every search      *)
(* finds the profiles of the SDK: it sees the whole table or waits for it, *)
(* 0.0 means 1.0 (baseline_profile.c:165), and no version of a type is     *)
(* there twice (kCdiStatusDuplicateBaselineVersion).                       *)
FindsBuiltIns ==
  ~raced => \A t \in Thread : At(t, "found") =>
    /\ call[t].version \in {Zero, V1} => call[t].result = V1
    /\ call[t].version = V2 => call[t].result = V2
NoDuplicates ==
  ~raced => \A m \in MediaType : \A i, j \in DOMAIN baseline_profile_array[m] :
    baseline_profile_array[m][i] = baseline_profile_array[m][j] => i = j
RegistryIsWhole == FindsBuiltIns /\ NoDuplicates
=============================================================================

---------------------------- MODULE LockProofs -----------------------------
(***************************************************************************)
(* Two locks that are held for reading by many and for writing by one, for *)
(* any number of threads: the lock of TTM clients excludes, and leaves no  *)
(* pending flag behind; the lock of an MMU notifier excludes submissions   *)
(* from invalidations.  And what list_del and list_move do to the lists    *)
(* that buffers are reserved from.                                         *)
(***************************************************************************)
EXTENDS TtmLock, MnLock, TtmReserve, TLAPS

\* The provers of a leaf that names none, and the time each of them has.
USE ZenonT(20), SMTT(30)

-----------------------------------------------------------------------------
(* What the counters of the locks count.                                   *)

\* S has n elements.
Number(S, n) ==
    /\ n \in Nat
    /\ \E f \in [1..n -> S] :
          /\ \A i, k \in 1..n : f[i] = f[k] => i = k
          /\ \A x \in S : \E i \in 1..n : f[i] = x

LEMMA NumberNone == ASSUME NEW S PROVE Number(S, 0) <=> S = {}
<1>1. 1..0 = {}
  BY SMTT(30)
<1>2. ASSUME S = {} PROVE Number(S, 0)
  <2>1. [i \in 1..0 |-> i] \in [1..0 -> S]
    BY <1>1
  <2>2. QED
    BY <1>1, <1>2, <2>1 DEF Number
<1>3. QED
  BY <1>1, <1>2 DEF Number

LEMMA NumberAdd ==
    ASSUME NEW S, NEW n, Number(S, n), NEW x, x \notin S
    PROVE  Number(S \cup {x}, n + 1)
<1>1. PICK f \in [1..n -> S] : /\ \A i, k \in 1..n : f[i] = f[k] => i = k
                               /\ \A y \in S : \E i \in 1..n : f[i] = y
  BY DEF Number
<1> DEFINE g == [i \in 1..(n + 1) |-> IF i = n + 1 THEN x ELSE f[i]]
<1>2. n \in Nat /\ n + 1 \in Nat /\ \A i \in 1..(n + 1) : i = n + 1 \/ i \in 1..n
  BY SMTT(30) DEF Number
<1>3. n + 1 \in 1..(n + 1) /\ \A i \in 1..n : i \in 1..(n + 1) /\ i # n + 1
  BY <1>2, SMTT(30)
<1>4. g \in [1..(n + 1) -> S \cup {x}] /\ g[n + 1] = x /\ \A i \in 1..n : g[i] = f[i] /\ g[i] \in S
  BY <1>2, <1>3
<1> HIDE DEF g
<1>5. \A i, k \in 1..(n + 1) : g[i] = g[k] => i = k
  BY <1>1, <1>2, <1>4
<1>6. \A y \in S \cup {x} : \E i \in 1..(n + 1) : g[i] = y
  BY <1>1, <1>3, <1>4
<1>7. QED
  BY <1>2, <1>4, <1>5, <1>6 DEF Number

LEMMA NumberRemove ==
    ASSUME NEW S, NEW n, Number(S, n), NEW x \in S
    PROVE  Number(S \ {x}, n - 1)
<1>1. PICK f \in [1..n -> S] : /\ \A i, k \in 1..n : f[i] = f[k] => i = k
                               /\ \A y \in S : \E i \in 1..n : f[i] = y
  BY DEF Number
<1>2. PICK m \in 1..n : f[m] = x
  BY <1>1
<1> DEFINE g == [i \in 1..(n - 1) |-> IF i = m THEN f[n] ELSE f[i]]
<1>3. /\ n \in Nat /\ n - 1 \in Nat /\ n \in 1..n
      /\ \A i \in 1..(n - 1) : i \in 1..n /\ i # n
      /\ \A i \in 1..n : i = n \/ i \in 1..(n - 1)
  BY SMTT(30) DEF Number
<1>4. \A i \in 1..(n - 1) : g[i] = (IF i = m THEN f[n] ELSE f[i]) /\ g[i] \in S /\ g[i] # x
  BY <1>1, <1>2, <1>3
<1>5. g \in [1..(n - 1) -> S \ {x}]
  BY <1>4
<1> HIDE DEF g
<1>6. \A i, k \in 1..(n - 1) : g[i] = g[k] => i = k
  BY <1>1, <1>3, <1>4
<1>7. ASSUME NEW y \in S \ {x} PROVE \E i \in 1..(n - 1) : g[i] = y
  <2>1. PICK i \in 1..n : f[i] = y
    BY <1>1
  <2>2. CASE i = n
    <3>1. m # n /\ m \in 1..(n - 1)
      BY <1>2, <1>3, <2>1, <2>2
    <3>2. QED
      BY <1>4, <2>1, <2>2, <3>1
  <2>3. CASE i # n
    BY <1>2, <1>3, <1>4, <2>1, <2>3
  <2>4. QED
    BY <2>2, <2>3
<1>8. QED
  BY <1>3, <1>5, <1>6, <1>7 DEF Number

LEMMA NumberEmpty == ASSUME NEW S, NEW n, Number(S, n) PROVE n = 0 <=> S = {}
<1>1. n # 0 => 1 \in 1..n
  BY SMTT(30) DEF Number
<1>2. QED
  BY <1>1, NumberNone, SMTT(30) DEF Number

-----------------------------------------------------------------------------
(* The lock of an MMU notifier (MnLock).                                   *)

\* The invalidations that rmn->recursion counts, and those that were counted
\* last but have not dropped rmn->lock yet.
InRead == {i \in Inv : ipc[i] \in {"down", "unlock"} \cup Between}
Dropping == {i \in Inv : ipc[i] = "up"}

\* The mutex orders the invalidations that enter: only the first of them may be
\* on its way to take rmn->lock.
Entering ==
    /\ \A i \in Inv : i \in read_lock <=> ipc[i] \in {"inc", "down", "unlock"}
    /\ \A i, k \in read_lock : i = k
    /\ \A i \in Inv : ipc[i] = "down" => InRead = {i}

\* Once the first one took it, the invalidations share one hold of rmn->lock.
Shared == InRead # {} /\ \A i \in Inv : ipc[i] # "down"

\* The inductive invariant: the exclusion alone says nothing of the counters by
\* which an invalidation decides whether to take and to drop rmn->lock.
MnInv ==
    /\ MnTypes
    /\ Entering
    /\ Number(InRead, recursion)
    /\ Number(Dropping, readers - (IF Shared THEN 1 ELSE 0))
    /\ readers > 0 => writers = {}

LEMMA MnInvExcludes == MnInv => InvalidationExcludesSubmission
<1> SUFFICES ASSUME MnInv, NEW i \in Inv, ipc[i] \in Between PROVE writers = {}
  BY DEF InvalidationExcludesSubmission
<1>1. i \in InRead
  BY DEF InRead
<1>2. ASSUME NEW k \in Inv, ipc[k] = "down" PROVE FALSE
  BY <1>1, <1>2 DEF MnInv, Entering, Between
<1>3. Shared
  BY <1>1, <1>2 DEF Shared
<1>4. readers > 0
  BY <1>3, SMTT(30) DEF MnInv, MnTypes, Number
<1>5. QED
  BY <1>4 DEF MnInv

LEMMA MnInvInit == InitMn => MnInv
<1> SUFFICES ASSUME InitMn PROVE MnInv
  OBVIOUS
<1>1. InRead = {} /\ Dropping = {}
  BY DEF InitMn, InRead, Dropping, Between
<1>2. Number(InRead, recursion) /\ Number(Dropping, readers) /\ readers = 0
  BY <1>1, NumberNone DEF InitMn
<1>3. ~ Shared
  BY <1>1 DEF Shared
<1>4. MnTypes
  BY SMTT(30) DEF InitMn, MnTypes, Between
<1>5. Entering
  BY DEF InitMn, Entering, Between
<1>6. QED
  BY <1>2, <1>3, <1>4, <1>5, SMTT(30) DEF MnInv

LEMMA MnTypesStep == MnTypes /\ [NextMn]_mnVars => MnTypes'
<1> SUFFICES ASSUME MnTypes, [NextMn]_mnVars PROVE MnTypes'
  OBVIOUS
<1> USE DEF MnTypes, GotoInv
<1>1. ASSUME NEW t \in Submitter,
             mn_lock_call(t) \/ amdgpu_mn_lock(t) \/ amdgpu_mn_unlock(t)
      PROVE  MnTypes'
  BY <1>1 DEF mn_lock_call, amdgpu_mn_lock, amdgpu_mn_unlock
<1>2. ASSUME NEW i \in Inv, amdgpu_mn_read_lock(i) PROVE MnTypes'
  BY <1>2, SMTT(30) DEF amdgpu_mn_read_lock, read_lock_mutex, read_lock_inc, read_lock_down,
       read_lock_unlock, Between
<1>3. ASSUME NEW i \in Inv, amdgpu_mn_read_unlock(i) PROVE MnTypes'
  BY <1>3, SMTT(30) DEF amdgpu_mn_read_unlock, read_unlock_dec, read_unlock_up
<1>4. ASSUME NEW i \in Inv, NEW l \in Between \cup {"out"}, invalidate(i, l) PROVE MnTypes'
  BY <1>4 DEF invalidate
<1>5. CASE UNCHANGED mnVars
  BY <1>5 DEF mnVars
<1>6. QED
  BY <1>1, <1>2, <1>3, <1>4, <1>5 DEF NextMn

\* A step that leaves the counted sets alone.
LEMMA MnInvSame ==
    ASSUME MnInv, MnTypes', Entering', InRead' = InRead, Dropping' = Dropping,
           Shared' = Shared, UNCHANGED <<recursion, readers, writers>>
    PROVE  MnInv'
  BY DEF MnInv

LEMMA MnInvSubmission ==
    ASSUME MnInv, MnTypes', NEW t \in Submitter,
           mn_lock_call(t) \/ amdgpu_mn_lock(t) \/ amdgpu_mn_unlock(t)
    PROVE  MnInv'
<1>1. UNCHANGED <<read_lock, recursion, readers, ipc>>
  BY DEF mn_lock_call, amdgpu_mn_lock, amdgpu_mn_unlock
<1>2. Entering' /\ InRead' = InRead /\ Dropping' = Dropping /\ Shared' = Shared
  BY <1>1 DEF MnInv, Entering, InRead, Dropping, Shared
<1>3. readers > 0 => writers' = {}
  BY SMTT(30) DEF MnInv, mn_lock_call, amdgpu_mn_lock, amdgpu_mn_unlock
<1>4. QED
  BY <1>1, <1>2, <1>3 DEF MnInv

LEMMA MnInvReadLock ==
    ASSUME MnInv, MnTypes', NEW i \in Inv, amdgpu_mn_read_lock(i)
    PROVE  MnInv'
<1> USE DEF GotoInv
<1>0. MnTypes /\ Entering
  BY DEF MnInv
<1>1. CASE read_lock_mutex(i)
  <2>1. ipc[i] = "out" /\ ipc' = [ipc EXCEPT ![i] = "inc"] /\ read_lock' = {i} /\ read_lock = {}
    BY <1>1 DEF read_lock_mutex
  <2>2. InRead' = InRead /\ Dropping' = Dropping /\ Shared' = Shared
    BY <1>0, <2>1, SMTT(30) DEF MnTypes, InRead, Dropping, Shared, Between
  <2>3. Entering'
    BY <1>0, <2>1, <2>2 DEF MnTypes, Entering
  <2>4. QED
    BY <1>1, <2>2, <2>3, MnInvSame DEF read_lock_mutex
<1>2. CASE read_lock_inc(i)
  <2>1. ipc[i] = "inc" /\ i \in read_lock /\ i \notin InRead /\ UNCHANGED <<read_lock, readers, writers>>
    BY <1>0, <1>2 DEF read_lock_inc, Entering, InRead, Between
  <2>2. \A k \in Inv : ipc[k] # "down"
    BY <1>0, <2>1 DEF Entering
  <2>3. InRead' = InRead \cup {i} /\ Dropping' = Dropping
    BY <1>0, <1>2, <2>1, SMTT(30) DEF read_lock_inc, MnTypes, InRead, Dropping, Between
  <2>4. Number(InRead', recursion')
    BY <1>2, <2>1, <2>3, NumberAdd DEF read_lock_inc, MnInv
  <2>5. recursion' = 1 <=> InRead = {}
    <3>1. recursion \in Int /\ Number(InRead, recursion) /\ recursion' = recursion + 1
      BY <1>0, <1>2 DEF read_lock_inc, MnInv, MnTypes
    <3>2. QED
      BY <3>1, NumberEmpty, SMTT(30)
  <2>6. Shared' <=> Shared
    BY <1>0, <1>2, <2>1, <2>2, <2>3, <2>5 DEF read_lock_inc, MnTypes, Shared
  <2>7. Entering'
    BY <1>0, <1>2, <2>1, <2>2, <2>3, <2>5 DEF read_lock_inc, MnTypes, Entering
  <2>8. QED
    BY <2>1, <2>3, <2>4, <2>6, <2>7 DEF MnInv
<1>3. CASE read_lock_down(i)
  <2>1. ipc[i] = "down" /\ InRead = {i} /\ ~ Shared
    BY <1>0, <1>3 DEF read_lock_down, Entering, Shared
  <2>2. ipc' = [ipc EXCEPT ![i] = "unlock"] /\ UNCHANGED <<read_lock, recursion, writers>>
    BY <1>3 DEF read_lock_down
  <2>3. InRead' = InRead /\ Dropping' = Dropping
    BY <1>0, <2>1, <2>2 DEF MnTypes, InRead, Dropping
  <2>4. \A k \in Inv : ipc'[k] # "down"
    BY <1>0, <2>1, <2>2 DEF MnTypes, Entering
  <2>5. Shared' /\ Entering'
    BY <1>0, <2>1, <2>2, <2>3, <2>4 DEF MnTypes, Shared, Entering
  <2>6. readers' = readers + 1 /\ writers' = {}
    BY <1>3 DEF read_lock_down
  <2>7. QED
    BY <1>0, <2>1, <2>2, <2>3, <2>5, <2>6, SMTT(30) DEF MnInv, MnTypes, Number
<1>4. CASE read_lock_unlock(i)
  <2>1. /\ ipc[i] = "unlock" /\ i \in read_lock /\ read_lock' = {}
        /\ ipc' = [ipc EXCEPT ![i] = "start"]
    BY <1>0, <1>4 DEF read_lock_unlock, Entering
  <2>2. InRead' = InRead /\ Dropping' = Dropping /\ Shared' = Shared
    BY <1>0, <2>1 DEF MnTypes, InRead, Dropping, Shared, Between
  <2>3. Entering'
    BY <1>0, <2>1, <2>2 DEF MnTypes, Entering
  <2>4. QED
    BY <1>4, <2>2, <2>3, MnInvSame DEF read_lock_unlock
<1>5. QED
  BY <1>1, <1>2, <1>3, <1>4 DEF amdgpu_mn_read_lock

LEMMA MnInvReadUnlock ==
    ASSUME MnInv, MnTypes', NEW i \in Inv, amdgpu_mn_read_unlock(i)
    PROVE  MnInv'
<1> USE DEF GotoInv
<1>0. MnTypes /\ Entering
  BY DEF MnInv
<1>1. CASE read_unlock_dec(i)
  <2>1. ipc[i] = "end" /\ i \in InRead /\ i \notin Dropping /\ UNCHANGED <<read_lock, readers, writers>>
    BY <1>1 DEF read_unlock_dec, InRead, Dropping, Between
  <2>2. \A k \in Inv : ipc[k] # "down"
    BY <1>0, <2>1 DEF Entering
  <2>3. InRead' = InRead \ {i}
    BY <1>0, <1>1, <2>1 DEF read_unlock_dec, MnTypes, InRead, Between
  <2>4. Number(InRead', recursion')
    BY <1>1, <2>1, <2>3, NumberRemove DEF read_unlock_dec, MnInv
  <2>5. recursion' = 0 <=> InRead' = {}
    BY <2>4, NumberEmpty
  <2>6. Shared /\ (Shared' <=> recursion' # 0)
    BY <1>0, <1>1, <2>1, <2>2, <2>5 DEF read_unlock_dec, MnTypes, Shared
  <2>7. Entering'
    BY <1>0, <1>1, <2>1, <2>2 DEF read_unlock_dec, MnTypes, Entering
  <2>8. Dropping' = IF recursion' = 0 THEN Dropping \cup {i} ELSE Dropping
    BY <1>0, <1>1, <2>1 DEF read_unlock_dec, MnTypes, Dropping
  <2>9. Number(Dropping, readers - 1) /\ readers - 1 + 1 = readers
    BY <1>0, <2>6, SMTT(30) DEF MnInv, MnTypes
  <2>10. Number(Dropping \cup {i}, readers)
    BY <2>1, <2>9, NumberAdd
  <2>11. Number(Dropping', readers' - (IF Shared' THEN 1 ELSE 0))
    BY <1>0, <2>1, <2>6, <2>8, <2>9, <2>10, SMTT(30) DEF MnTypes
  <2>12. QED
    BY <2>1, <2>4, <2>7, <2>11 DEF MnInv
<1>2. CASE read_unlock_up(i)
  <2>1. ipc[i] = "up" /\ ipc' = [ipc EXCEPT ![i] = "done"] /\ UNCHANGED <<read_lock, recursion, writers>>
    BY <1>2 DEF read_unlock_up
  <2>2. InRead' = InRead /\ Dropping' = Dropping \ {i} /\ i \in Dropping /\ Shared' = Shared
    BY <1>0, <2>1, SMTT(30) DEF MnTypes, InRead, Dropping, Shared, Between
  <2>3. Number(Dropping', readers - (IF Shared THEN 1 ELSE 0) - 1)
    BY <2>2, NumberRemove DEF MnInv
  <2>4. Entering'
    BY <1>0, <2>1, <2>2 DEF MnTypes, Entering
  <2>5. readers' = readers - 1 /\ readers \in Int
    BY <1>0, <1>2 DEF read_unlock_up, MnTypes
  <2>6. QED
    <3>1. readers' - (IF Shared' THEN 1 ELSE 0) = readers - (IF Shared THEN 1 ELSE 0) - 1
      BY <2>2, <2>5, SMTT(30)
    <3>2. QED
      BY <2>1, <2>2, <2>3, <2>4, <2>5, <3>1, SMTT(30) DEF MnInv
<1>3. QED
  BY <1>1, <1>2 DEF amdgpu_mn_read_unlock

LEMMA MnInvInvalidate ==
    ASSUME MnInv, MnTypes', NEW i \in Inv, NEW l, invalidate(i, l),
           \/ ipc[i] \in Between /\ l \in Between
           \/ ipc[i] = "done" /\ l = "out"
    PROVE  MnInv'
<1>1. MnTypes /\ Entering /\ ipc' = [ipc EXCEPT ![i] = l] /\ UNCHANGED read_lock
  BY DEF MnInv, invalidate, GotoInv
<1>2. InRead' = InRead /\ Dropping' = Dropping /\ Shared' = Shared
  BY <1>1, SMTT(30) DEF MnTypes, InRead, Dropping, Shared, Between
<1>3. Entering'
  BY <1>1, <1>2 DEF MnTypes, Entering, Between
<1>4. QED
  BY <1>2, <1>3, MnInvSame DEF invalidate

\* Between range_start and range_end no submission is in its critical section,
\* for every number of submitting threads and of overlapping invalidations
\* (amdgpu_mn_read_lock, amdgpu_mn_read_unlock, amdgpu_mn_lock).
THEOREM MnLockExcludes == SpecMn => []InvalidationExcludesSubmission
<1>1. MnInv /\ [NextMn]_mnVars => MnInv'
  <2> SUFFICES ASSUME MnInv, [NextMn]_mnVars PROVE MnInv'
    OBVIOUS
  <2>1. MnTypes'
    BY MnTypesStep DEF MnInv
  <2>2. CASE UNCHANGED mnVars
    <3>1. Entering' /\ InRead' = InRead /\ Dropping' = Dropping /\ Shared' = Shared
      BY <2>2 DEF MnInv, mnVars, Entering, InRead, Dropping, Shared
    <3>2. QED
      BY <2>1, <2>2, <3>1, MnInvSame DEF mnVars
  <2>3. CASE NextMn
    BY <2>1, <2>3, MnInvSubmission, MnInvReadLock, MnInvReadUnlock, MnInvInvalidate DEF NextMn
  <2>4. QED
    BY <2>2, <2>3
<1>2. QED
  BY <1>1, MnInvInit, MnInvExcludes, PTL DEF SpecMn

-----------------------------------------------------------------------------
(* The lock of TTM clients (TtmLock).                                      *)

Readers == {t \in TtmThread : Holds(t, {"read", "try"})}

\* What a call may be: vt and suspend belong to one thread, and suspend waits
\* without being interrupted.
Calls ==
    \A t \in TtmThread :
        /\ ttmpc[t] # "out" => kind[t] \in TtmOps[t]
        /\ ttmpc[t] = "base_init" => kind[t] = "vt"
        /\ ttmpc[t] = "undo" => kind[t] # "suspend"
        /\ kind[t] = "suspend" => ~ intr[t]

\* rw and flags tell who holds the lock.
Counts ==
    /\ rw >= -1
    /\ rw >= 0 => Number(Readers, rw)
    /\ rw = -1 => Readers = {}
    /\ \A t \in TtmThread : Holds(t, {"write"}) => rw = -1
    /\ \A t, u \in TtmThread : Holds(t, {"write"}) /\ Holds(u, {"write"}) => t = u
    /\ \A t \in TtmThread : \A k \in {"vt", "suspend"} : Holds(t, {k}) => k \in flags
    /\ flags \cap {"vt", "suspend"} # {} => rw = 0

\* The inductive invariant.
TtmLockInv == TtmLockTypes /\ Calls /\ Counts /\ PendingHasWaiter

LEMMA CountsExclude == TtmLockInv => LockExcludes
<1> SUFFICES ASSUME TtmLockInv, NEW t \in TtmThread, NEW u \in TtmThread, t # u,
                    Holds(t, Kinds), Holds(u, {"read", "try", "write"})
             PROVE  Holds(t, {"read", "try"}) /\ Holds(u, {"read", "try"})
  BY DEF LockExcludes
<1>0. rw \in Int /\ Counts
  BY DEF TtmLockInv, TtmLockTypes
<1>1. rw # 0
  <2>1. CASE Holds(u, {"write"})
    BY <1>0, <2>1, SMTT(30) DEF Counts
  <2>2. CASE u \in Readers
    BY <1>0, <2>2, NumberNone, SMTT(30) DEF Counts
  <2>3. QED
    BY <2>1, <2>2 DEF Holds, Readers
<1>2. Holds(t, {"read", "try", "write"})
  BY <1>0, <1>1 DEF Counts, Holds, Kinds
<1>3. ~ Holds(t, {"write"})
  BY <1>0 DEF Counts, Holds, Readers
<1>4. t \in Readers
  BY <1>2, <1>3 DEF Holds, Readers
<1>5. ~ Holds(u, {"write"})
  BY <1>0, <1>4 DEF Counts
<1>6. QED
  BY <1>2, <1>3, <1>5 DEF Holds

LEMMA TtmLockInit == InitTtmLock => TtmLockInv
<1> SUFFICES ASSUME InitTtmLock PROVE TtmLockInv
  OBVIOUS
<1>1. TtmLockTypes
  <2>1. kill_takers \in BOOLEAN /\ intr \in [TtmThread -> BOOLEAN]
    BY DEF InitTtmLock
  <2>2. QED
    BY <2>1, SMTT(30) DEF InitTtmLock, TtmLockTypes, Kinds
<1>2. \A t \in TtmThread : \A k : ~ Holds(t, k)
  BY DEF InitTtmLock, Holds
<1>3. Readers = {}
  BY <1>2 DEF Readers
<1>4. Number(Readers, 0)
  BY <1>3, NumberNone
<1>5. Counts
  BY <1>2, <1>3, <1>4, SMTT(30) DEF InitTtmLock, Counts
<1>6. Calls /\ PendingHasWaiter
  BY DEF InitTtmLock, Calls, PendingHasWaiter
<1>7. QED
  BY <1>1, <1>5, <1>6 DEF TtmLockInv

LEMMA TtmLockTypesStep == TtmLockTypes /\ [NextTtmLock]_ttmLockVars => TtmLockTypes'
<1> SUFFICES ASSUME TtmLockTypes, [NextTtmLock]_ttmLockVars PROVE TtmLockTypes'
  OBVIOUS
<1> USE DEF TtmLockTypes, TtmGoto, Evaluates, Sleeps, Returns, GiveUp, wake_up_all
<1>1. ASSUME NEW t \in TtmThread, ttm_lock_call(t) PROVE TtmLockTypes'
  <2>1. PICK k \in TtmOps[t], i \in BOOLEAN :
            kind' = [kind EXCEPT ![t] = k] /\ intr' = [intr EXCEPT ![t] = i]
    BY <1>1 DEF ttm_lock_call
  <2>2. kind' \in [TtmThread -> Kinds]
    BY <2>1, TtmLockAssumption
  <2>3. intr' \in [TtmThread -> BOOLEAN]
    BY <2>1
  <2>4. nlocks' \in [TtmThread -> Nat]
    BY <1>1, SMTT(30) DEF ttm_lock_call
  <2>5. QED
    BY <1>1, <2>2, <2>3, <2>4 DEF ttm_lock_call
<1>2. ASSUME NEW t \in TtmThread, killed(t) \/ wait_interrupted(t) PROVE TtmLockTypes'
  <2>1. UNCHANGED <<rw, flags, kill_takers, kind, intr, nlocks>>
    BY <1>2 DEF killed, wait_interrupted
  <2>2. ttmpc' \in [TtmThread -> {"out", "wait", "undo", "base_init", "held"}]
    BY <1>2 DEF killed, wait_interrupted
  <2>3. awake' \subseteq TtmThread
    BY <1>2 DEF killed, wait_interrupted
  <2>4. QED
    BY <2>1, <2>2, <2>3
<1>3. ASSUME NEW t \in TtmThread, read_lock_try(t) \/ write_lock_try(t) PROVE TtmLockTypes'
  <2>1. rw' \in Int /\ UNCHANGED <<kill_takers, intr>>
    BY <1>3, SMTT(30) DEF read_lock_try, write_lock_try
  <2>2. UNCHANGED <<kind, nlocks>>
    BY <1>3 DEF read_lock_try, write_lock_try
  <2>3. ttmpc' \in [TtmThread -> {"out", "wait", "undo", "base_init", "held"}]
    BY <1>3 DEF read_lock_try, write_lock_try
  <2>4. awake' \subseteq TtmThread /\ flags' \subseteq flags \cup {"w_pending"}
    BY <1>3 DEF read_lock_try, write_lock_try
  <2>5. QED
    BY <2>1, <2>2, <2>3, <2>4
<1>4. ASSUME NEW t \in TtmThread,
             vt_lock_try(t) \/ suspend_lock_try(t) \/ clear_pending(t) \/ vt_base_init(t)
      PROVE  TtmLockTypes'
  <2>1. UNCHANGED <<rw, kill_takers, kind, intr, nlocks>>
    BY <1>4 DEF vt_lock_try, suspend_lock_try, clear_pending, vt_base_init
  <2>2. flags' \subseteq flags \cup {"vt", "suspend", "vt_pending", "s_pending"}
    BY <1>4, SMTT(30) DEF vt_lock_try, suspend_lock_try, clear_pending, vt_base_init
  <2>3. ttmpc' \in [TtmThread -> {"out", "wait", "undo", "base_init", "held"}]
    BY <1>4 DEF vt_lock_try, suspend_lock_try, clear_pending, vt_base_init
  <2>4. awake' \subseteq TtmThread
    BY <1>4 DEF vt_lock_try, suspend_lock_try, clear_pending, vt_base_init
  <2>5. QED
    BY <2>1, <2>2, <2>3, <2>4
<1>5. ASSUME NEW t \in TtmThread,
             ttm_read_unlock(t) \/ ttm_write_unlock(t) \/ flag_unlock(t)
      PROVE  TtmLockTypes'
  <2>1. rw' \in Int /\ UNCHANGED <<kill_takers, kind, intr, nlocks>>
    BY <1>5, SMTT(30) DEF ttm_read_unlock, ttm_write_unlock, flag_unlock
  <2>2. awake' \subseteq TtmThread /\ flags' \subseteq flags
    BY <1>5 DEF ttm_read_unlock, ttm_write_unlock, flag_unlock
  <2>3. ttmpc' \in [TtmThread -> {"out", "wait", "undo", "base_init", "held"}]
    BY <1>5 DEF ttm_read_unlock, ttm_write_unlock, flag_unlock
  <2>4. QED
    BY <2>1, <2>2, <2>3
<1>6. CASE ttm_lock_set_kill
  <2>1. kill_takers' \in BOOLEAN
    BY <1>6 DEF ttm_lock_set_kill
  <2>2. QED
    BY <1>6, <2>1 DEF ttm_lock_set_kill
<1>7. CASE UNCHANGED ttmLockVars
  BY <1>7 DEF ttmLockVars
<1>8. QED
  BY <1>1, <1>2, <1>3, <1>4, <1>5, <1>6, <1>7 DEF NextTtmLock, TtmLockStep

LEMMA CallsStep ==
    ASSUME TtmLockTypes, Calls, [NextTtmLock]_ttmLockVars
    PROVE  Calls'
<1> USE DEF TtmLockTypes, Calls, TtmGoto, Evaluates, Sleeps, Returns, GiveUp
<1>1. ASSUME NEW t \in TtmThread, ttm_lock_call(t) PROVE Calls'
  BY <1>1, TtmLockAssumption, SMTT(30) DEF ttm_lock_call
<1>2. ASSUME NEW t \in TtmThread,
             killed(t) \/ read_lock_try(t) \/ write_lock_try(t) \/ wait_interrupted(t)
      PROVE  Calls'
  BY <1>2 DEF killed, read_lock_try, write_lock_try, wait_interrupted
<1>3. ASSUME NEW t \in TtmThread,
             vt_lock_try(t) \/ suspend_lock_try(t) \/ clear_pending(t) \/ vt_base_init(t)
      PROVE  Calls'
  BY <1>3, SMTT(30) DEF vt_lock_try, suspend_lock_try, clear_pending, vt_base_init
<1>4. ASSUME NEW t \in TtmThread,
             ttm_read_unlock(t) \/ ttm_write_unlock(t) \/ flag_unlock(t)
      PROVE  Calls'
  BY <1>4 DEF ttm_read_unlock, ttm_write_unlock, flag_unlock
<1>5. CASE ttm_lock_set_kill \/ UNCHANGED ttmLockVars
  BY <1>5 DEF ttm_lock_set_kill, ttmLockVars
<1>6. QED
  BY <1>1, <1>2, <1>3, <1>4, <1>5 DEF NextTtmLock, TtmLockStep

\* A step after which the same threads hold the same kinds of lock.
LEMMA CountsSame ==
    ASSUME Counts, UNCHANGED rw,
           \A k \in {"vt", "suspend"} : k \in flags' <=> k \in flags,
           \A u \in TtmThread :
               /\ ttmpc'[u] \in {"held", "base_init"} <=> ttmpc[u] \in {"held", "base_init"}
               /\ ttmpc[u] \in {"held", "base_init"} => kind'[u] = kind[u]
    PROVE  Counts'
<1>1. ASSUME NEW u \in TtmThread, NEW K PROVE Holds(u, K)' <=> Holds(u, K)
  BY <1>1 DEF Holds
<1>2. Readers' = Readers
  BY <1>1 DEF Readers
<1>3. QED
  BY <1>1, <1>2 DEF Counts

LEMMA CountsTaken ==
    ASSUME TtmLockTypes, Calls, Counts, NEW t \in TtmThread,
           \/ killed(t) \/ read_lock_try(t) \/ write_lock_try(t)
           \/ vt_lock_try(t) \/ suspend_lock_try(t)
    PROVE  Counts'
<1> USE DEF TtmGoto, Evaluates, Sleeps, Returns, GiveUp
<1>0. /\ rw \in Int /\ ttmpc \in [TtmThread -> {"out", "wait", "undo", "base_init", "held"}]
      /\ UNCHANGED kind
      /\ ttmpc[t] = "wait"
  BY DEF TtmLockTypes, killed, read_lock_try, write_lock_try, vt_lock_try, suspend_lock_try
\* The call gets nothing.
<1>1. ASSUME UNCHANGED rw, \A k \in {"vt", "suspend"} : k \in flags' <=> k \in flags,
             ttmpc'[t] \notin {"held", "base_init"},
             \A u \in TtmThread \ {t} : ttmpc'[u] = ttmpc[u]
      PROVE  Counts'
  BY <1>0, <1>1, CountsSame
<1>2. CASE killed(t)
  BY <1>0, <1>1, <1>2 DEF killed
\* One more reader.
<1>3. CASE read_lock_try(t)
  <2>1. CASE /\ rw >= 0 /\ flags = {} /\ rw' = rw + 1 /\ UNCHANGED flags
             /\ ttmpc' = [ttmpc EXCEPT ![t] = "held"] /\ kind[t] \in {"read", "try"}
    <3>1. Readers' = Readers \cup {t} /\ t \notin Readers
      BY <1>0, <2>1 DEF Readers, Holds
    <3>2. Number(Readers', rw')
      BY <1>0, <2>1, <3>1, NumberAdd DEF Counts
    <3>3. \A u \in TtmThread : ~ Holds(u, {"write"})
      BY <1>0, <2>1, SMTT(30) DEF Counts
    <3>4. \A u \in TtmThread : ~ Holds(u, {"vt"}) /\ ~ Holds(u, {"suspend"})
      BY <2>1 DEF Counts
    <3>5. \A u \in TtmThread :
             ~ Holds(u, {"write"})' /\ ~ Holds(u, {"vt"})' /\ ~ Holds(u, {"suspend"})'
      BY <1>0, <2>1, <3>3, <3>4 DEF Holds
    <3>6. QED
      BY <1>0, <2>1, <3>2, <3>5, SMTT(30) DEF Counts
  <2>2. QED
    BY <1>0, <1>1, <1>3, <2>1 DEF read_lock_try
\* The writer.
<1>4. CASE write_lock_try(t)
  <2>1. CASE /\ rw = 0 /\ flags \subseteq {"w_pending"} /\ rw' = -1 /\ flags' = flags \ {"w_pending"}
             /\ ttmpc' = [ttmpc EXCEPT ![t] = "held"] /\ kind[t] = "write"
    <3>1. Readers = {}
      BY <2>1, NumberNone, SMTT(30) DEF Counts
    <3>2. Readers' = {}
      BY <1>0, <2>1, <3>1 DEF Readers, Holds
    <3>3. \A u \in TtmThread : ~ Holds(u, {"write"}) /\ ~ Holds(u, {"vt"}) /\ ~ Holds(u, {"suspend"})
      BY <2>1, SMTT(30) DEF Counts
    <3>4. /\ \A u \in TtmThread : ~ Holds(u, {"vt"})' /\ ~ Holds(u, {"suspend"})'
          /\ \A u \in TtmThread : Holds(u, {"write"})' => u = t
      BY <1>0, <2>1, <3>3 DEF Holds
    <3>5. QED
      BY <2>1, <3>2, <3>4, SMTT(30) DEF Counts
  <2>2. QED
    BY <1>0, <1>1, <1>4, <2>1 DEF write_lock_try
\* vt or suspend.
<1>5. ASSUME NEW k \in {"vt", "suspend"}, kind[t] = k,
             rw = 0, UNCHANGED rw, k \in flags',
             \A q \in {"vt", "suspend"} : q \in flags => q \in flags',
             ttmpc'[t] \in {"held", "base_init"},
             \A u \in TtmThread \ {t} : ttmpc'[u] = ttmpc[u]
      PROVE  Counts'
  <2>1. \A u \in TtmThread : ~ Holds(u, {"write"}) /\ (Holds(u, {"write"})' <=> Holds(u, {"write"}))
    BY <1>0, <1>5, SMTT(30) DEF Holds, Counts
  <2>2. Readers' = Readers
    BY <1>0, <1>5 DEF Readers, Holds
  <2>3. \A u \in TtmThread : \A q \in {"vt", "suspend"} : Holds(u, {q})' => q \in flags'
    BY <1>0, <1>5 DEF Counts, Holds
  <2>4. QED
    BY <1>5, <2>1, <2>2, <2>3 DEF Counts
<1>6. CASE vt_lock_try(t)
  BY <1>0, <1>1, <1>5, <1>6 DEF vt_lock_try
<1>7. CASE suspend_lock_try(t)
  BY <1>0, <1>1, <1>5, <1>7 DEF suspend_lock_try
<1>8. QED
  BY <1>2, <1>3, <1>4, <1>6, <1>7

LEMMA CountsReleased ==
    ASSUME TtmLockTypes, Calls, Counts, NEW t \in TtmThread,
           \/ vt_base_init(t)
           \/ ttm_read_unlock(t) \/ ttm_write_unlock(t) \/ flag_unlock(t)
    PROVE  Counts'
<1> USE DEF TtmGoto, Returns
<1>0. /\ rw \in Int /\ ttmpc \in [TtmThread -> {"out", "wait", "undo", "base_init", "held"}]
      /\ UNCHANGED kind
      /\ \A u \in TtmThread \ {t} : ttmpc'[u] = ttmpc[u]
  BY DEF TtmLockTypes, vt_base_init, ttm_read_unlock, ttm_write_unlock, flag_unlock
\* The flag of the only thread that has it.
<1>1. ASSUME NEW k \in {"vt", "suspend"}, kind[t] = k, ttmpc[t] \in {"held", "base_init"},
             UNCHANGED rw, flags' = flags \ {k}, ttmpc'[t] = "out"
      PROVE  Counts'
  <2>1. \A u \in TtmThread : Holds(u, {k}) => u = t
    BY <1>1, TtmLockAssumption DEF Holds, Calls
  <2>2. \A u \in TtmThread : Holds(u, {"write"})' => Holds(u, {"write"})
    BY <1>0, <1>1 DEF Holds
  <2>3. Readers' = Readers
    BY <1>0, <1>1 DEF Readers, Holds
  <2>4. \A u \in TtmThread : \A q \in {"vt", "suspend"} : Holds(u, {q})' => Holds(u, {q}) /\ u # t
    BY <1>0, <1>1 DEF Holds
  <2>5. \A u \in TtmThread : \A q \in {"vt", "suspend"} : Holds(u, {q})' => q \in flags'
    BY <1>1, <2>1, <2>4 DEF Counts
  <2>6. QED
    BY <1>1, <2>2, <2>3, <2>5 DEF Counts
<1>2. CASE vt_base_init(t)
  <2>1. CASE ttmpc' = [ttmpc EXCEPT ![t] = "held"] /\ UNCHANGED flags
    BY <1>0, <1>2, <2>1, CountsSame DEF vt_base_init
  <2>2. CASE ttmpc' = [ttmpc EXCEPT ![t] = "out"] /\ flags' = flags \ {"vt"}
    BY <1>0, <1>1, <1>2, <2>2 DEF vt_base_init, Calls
  <2>3. QED
    BY <1>2, <2>1, <2>2 DEF vt_base_init
<1>3. CASE flag_unlock(t)
  BY <1>0, <1>1, <1>3 DEF flag_unlock
<1>4. CASE ttm_read_unlock(t)
  <2>1. /\ ttmpc[t] = "held" /\ kind[t] \in {"read", "try"} /\ rw' = rw - 1 /\ UNCHANGED flags
        /\ ttmpc'[t] = "out"
    BY <1>0, <1>4 DEF ttm_read_unlock
  <2>2. t \in Readers /\ Readers' = Readers \ {t}
    BY <1>0, <2>1 DEF Readers, Holds
  <2>3. Number(Readers, rw) /\ rw >= 0
    BY <1>0, <2>2, SMTT(30) DEF Counts
  <2>4. Number(Readers', rw')
    BY <2>1, <2>2, <2>3, NumberRemove
  <2>5. \A u \in TtmThread : ~ Holds(u, {"write"})'
    BY <1>0, <2>1, <2>3, SMTT(30) DEF Counts, Holds
  <2>6. \A u \in TtmThread : \A q \in {"vt", "suspend"} : Holds(u, {q})' => Holds(u, {q})
    BY <1>0, <2>1 DEF Holds
  <2>7. rw # 0
    BY <2>2, <2>3, NumberNone
  <2>8. QED
    BY <1>0, <2>1, <2>3, <2>4, <2>5, <2>6, <2>7, SMTT(30) DEF Counts
<1>5. CASE ttm_write_unlock(t)
  <2>1. /\ ttmpc[t] = "held" /\ kind[t] = "write" /\ rw' = 0 /\ UNCHANGED flags
        /\ ttmpc'[t] = "out"
    BY <1>0, <1>5 DEF ttm_write_unlock
  <2>2. Holds(t, {"write"}) /\ Readers = {}
    BY <2>1 DEF Holds, Counts
  <2>3. Readers' = {}
    BY <1>0, <2>1, <2>2 DEF Readers, Holds
  <2>4. Number(Readers', 0)
    BY <2>3, NumberNone
  <2>5. \A u \in TtmThread : ~ Holds(u, {"write"})'
    BY <1>0, <2>1, <2>2 DEF Counts, Holds
  <2>6. \A u \in TtmThread : \A q \in {"vt", "suspend"} : Holds(u, {q})' => Holds(u, {q})
    BY <1>0, <2>1 DEF Holds
  <2>7. QED
    BY <2>1, <2>4, <2>5, <2>6, SMTT(30) DEF Counts
<1>6. QED
  BY <1>2, <1>3, <1>4, <1>5

LEMMA CountsStep ==
    ASSUME TtmLockTypes, Calls, Counts, [NextTtmLock]_ttmLockVars
    PROVE  Counts'
<1> USE DEF TtmLockTypes, TtmGoto, Returns, GiveUp
<1>1. ASSUME NEW t \in TtmThread, ttm_lock_call(t) \/ wait_interrupted(t) \/ clear_pending(t)
      PROVE  Counts'
  <2>1. UNCHANGED rw /\ \A k \in {"vt", "suspend"} : k \in flags' <=> k \in flags
    BY <1>1 DEF ttm_lock_call, wait_interrupted, clear_pending, PendingFlag
  <2>2. \A u \in TtmThread :
           /\ ttmpc'[u] \in {"held", "base_init"} <=> ttmpc[u] \in {"held", "base_init"}
           /\ ttmpc[u] \in {"held", "base_init"} => kind'[u] = kind[u]
    BY <1>1 DEF ttm_lock_call, wait_interrupted, clear_pending
  <2>3. QED
    BY <2>1, <2>2, CountsSame
<1>2. CASE ttm_lock_set_kill \/ UNCHANGED ttmLockVars
  BY <1>2, CountsSame DEF ttm_lock_set_kill, ttmLockVars
<1>3. QED
  BY <1>1, <1>2, CountsTaken, CountsReleased DEF NextTtmLock, TtmLockStep

LEMMA PendingStep ==
    ASSUME TtmLockTypes, Calls, PendingHasWaiter, [NextTtmLock]_ttmLockVars
    PROVE  PendingHasWaiter'
<1> USE DEF TtmLockTypes, TtmGoto, Evaluates, Sleeps, Returns, GiveUp
<1> DEFINE Waits(u, k) == ttmpc[u] \in {"wait", "undo"} /\ kind[u] = k
\* It is enough to look at the thread that takes the step.
<1>1. ASSUME NEW t \in TtmThread,
             \A u \in TtmThread \ {t} : ttmpc'[u] = ttmpc[u] /\ kind'[u] = kind[u],
             \A k \in {"write", "vt", "suspend"} :
                /\ PendingFlag(k) \in flags' => PendingFlag(k) \in flags \/ Waits(t, k)'
                /\ Waits(t, k) => Waits(t, k)' \/ PendingFlag(k) \notin flags'
      PROVE  PendingHasWaiter'
  <2> SUFFICES ASSUME NEW k \in {"write", "vt", "suspend"}, PendingFlag(k) \in flags',
                      ~ Waits(t, k)'
               PROVE  \E u \in TtmThread : Waits(u, k)'
    BY DEF PendingHasWaiter
  <2>1. PICK u \in TtmThread : Waits(u, k)
    BY <1>1 DEF PendingHasWaiter
  <2>2. u # t
    BY <1>1, <2>1
  <2>3. QED
    BY <1>1, <2>1, <2>2
<1>2. ASSUME NEW t \in TtmThread, ttm_lock_call(t) \/ wait_interrupted(t) \/ clear_pending(t)
      PROVE  PendingHasWaiter'
  BY <1>1, <1>2 DEF ttm_lock_call, wait_interrupted, clear_pending, Calls, PendingFlag
<1>3. ASSUME NEW t \in TtmThread, killed(t) \/ read_lock_try(t) \/ write_lock_try(t)
      PROVE  PendingHasWaiter'
  BY <1>1, <1>3 DEF killed, read_lock_try, write_lock_try, PendingFlag
<1>4. ASSUME NEW t \in TtmThread, vt_lock_try(t) \/ suspend_lock_try(t)
      PROVE  PendingHasWaiter'
  BY <1>1, <1>4 DEF vt_lock_try, suspend_lock_try, PendingFlag
<1>5. ASSUME NEW t \in TtmThread,
             \/ vt_base_init(t)
             \/ ttm_read_unlock(t) \/ ttm_write_unlock(t) \/ flag_unlock(t)
      PROVE  PendingHasWaiter'
  BY <1>1, <1>5 DEF vt_base_init, ttm_read_unlock, ttm_write_unlock, flag_unlock, PendingFlag
<1>6. CASE ttm_lock_set_kill \/ UNCHANGED ttmLockVars
  BY <1>6 DEF ttm_lock_set_kill, ttmLockVars, PendingHasWaiter
<1>7. QED
  BY <1>2, <1>3, <1>4, <1>5, <1>6 DEF NextTtmLock, TtmLockStep

\* For any number of threads: ttm_lock excludes as its modes say, and a flag that keeps
\* readers out stands only while a thread waits for the lock it announces.
THEOREM TtmLockSafe == SpecTtmLock => [](LockExcludes /\ PendingHasWaiter)
<1>1. TtmLockInv /\ [NextTtmLock]_ttmLockVars => TtmLockInv'
  BY TtmLockTypesStep, CallsStep, CountsStep, PendingStep DEF TtmLockInv
<1>2. TtmLockInv => LockExcludes /\ PendingHasWaiter
  BY CountsExclude DEF TtmLockInv
<1>3. QED
  BY <1>1, <1>2, TtmLockInit, PTL DEF SpecTtmLock

-----------------------------------------------------------------------------
(* The lists of ttm_execbuf_util.c.                                        *)

\* The buffers of a list, by position.
LEMMA BosOf ==
    ASSUME NEW S, NEW l \in Seq(S)
    PROVE  /\ Bos(l) = {l[i] : i \in 1..Len(l)} /\ Bos(l) \subseteq S
           /\ Len(l) \in Nat /\ DOMAIN l = 1..Len(l)
           /\ \A b : b \in Bos(l) <=> \E i \in 1..Len(l) : l[i] = b
BY SMTT(30) DEF Bos

\* Taking one entry off a list.
LEMMA WithoutProps ==
    ASSUME NEW S, NEW l \in Seq(S), NEW n \in 1..Len(l)
    PROVE  /\ Without(l, n) \in Seq(S)
           /\ Len(Without(l, n)) = Len(l) - 1
           /\ \A i \in 1..(Len(l) - 1) : Without(l, n)[i] = IF i < n THEN l[i] ELSE l[i + 1]
<1>1. /\ Len(l) \in Nat /\ Len(l) - 1 \in Nat /\ n \in Int /\ 1 <= n /\ n <= Len(l)
      /\ \A i \in 1..Len(l) : l[i] \in S
  BY SMTT(30)
<1>2. ASSUME NEW i \in 1..(Len(l) - 1) PROVE (IF i < n THEN l[i] ELSE l[i + 1]) \in S
  <2>1. i \in 1..Len(l) /\ i + 1 \in 1..Len(l)
    BY <1>1, SMTT(30)
  <2>2. QED
    BY <1>1, <2>1
<1>3. QED
  BY <1>1, <1>2, SMTT(30) DEF Without

\* Moving an entry to the front keeps the buffers of the list.
LEMMA MoveToFrontProps ==
    ASSUME NEW S, NEW l \in Seq(S), NEW n \in 1..Len(l)
    PROVE  /\ MoveToFront(l, n) \in Seq(S)
           /\ Len(MoveToFront(l, n)) = Len(l)
           /\ MoveToFront(l, n)[1] = l[n]
           /\ Bos(MoveToFront(l, n)) = Bos(l)
<1> DEFINE r == Without(l, n)
           m == MoveToFront(l, n)
<1>1. Len(l) \in Nat /\ n \in Int /\ 1 <= n /\ n <= Len(l) /\ l[n] \in S
  BY SMTT(30)
<1>2. /\ r \in Seq(S) /\ Len(r) = Len(l) - 1
      /\ \A i \in 1..(Len(l) - 1) : r[i] = IF i < n THEN l[i] ELSE l[i + 1]
  BY WithoutProps
<1>3. m = <<l[n]>> \o r
  BY DEF MoveToFront
<1> HIDE DEF r, m
<1>4. /\ m \in Seq(S) /\ Len(m) = Len(r) + 1
      /\ m[1] = l[n] /\ \A i \in 2..(Len(r) + 1) : m[i] = r[i - 1]
  BY <1>1, <1>2, <1>3, SMTT(30)
<1>5. Len(m) = Len(l)
  BY <1>1, <1>2, <1>4, SMTT(30)
<1>6. ASSUME NEW i \in 1..Len(m) PROVE \E k \in 1..Len(l) : m[i] = l[k]
  <2>1. CASE i = 1
    BY <1>1, <1>4, <2>1
  <2>2. CASE i # 1
    <3>1. i \in 2..(Len(r) + 1) /\ i - 1 \in 1..(Len(l) - 1) /\ i - 1 + 1 = i
      BY <1>1, <1>2, <1>5, <2>2, SMTT(30)
    <3>2. m[i] = IF i - 1 < n THEN l[i - 1] ELSE l[i]
      BY <1>2, <1>4, <3>1
    <3>3. i - 1 \in 1..Len(l) /\ i \in 1..Len(l)
      BY <1>1, <1>5, <3>1, SMTT(30)
    <3>4. QED
      BY <3>2, <3>3
  <2>3. QED
    BY <2>1, <2>2
<1>7. ASSUME NEW k \in 1..Len(l) PROVE \E i \in 1..Len(m) : m[i] = l[k]
  <2>1. CASE k = n
    BY <1>1, <1>4, <1>5, <2>1, SMTT(30)
  <2>2. CASE k < n
    <3>1. k \in 1..(Len(l) - 1) /\ k + 1 \in 2..(Len(r) + 1) /\ k + 1 \in 1..Len(m) /\ k + 1 - 1 = k
      BY <1>1, <1>2, <1>5, <2>2, SMTT(30)
    <3>2. m[k + 1] = l[k]
      BY <1>2, <1>4, <2>2, <3>1, SMTT(30)
    <3>3. QED
      BY <3>1, <3>2
  <2>3. CASE k > n
    <3>1. /\ k - 1 \in 1..(Len(l) - 1) /\ k \in 2..(Len(r) + 1) /\ k \in 1..Len(m)
          /\ ~(k - 1 < n) /\ k - 1 + 1 = k
      BY <1>1, <1>2, <1>5, <2>3, SMTT(30)
    <3>2. m[k] = l[k]
      BY <1>2, <1>4, <3>1
    <3>3. QED
      BY <3>1, <3>2
  <2>4. QED
    BY <1>1, <2>1, <2>2, <2>3, SMTT(30)
<1>8. Bos(m) = Bos(l)
  <2>1. /\ \A b : b \in Bos(m) <=> \E i \in 1..Len(m) : m[i] = b
        /\ \A b : b \in Bos(l) <=> \E i \in 1..Len(l) : l[i] = b
    BY <1>4, BosOf
  <2>2. QED
    BY <1>6, <1>7, <2>1
<1>9. QED
  BY <1>4, <1>5, <1>8 DEF m

\* Taking an entry off a list takes off no other buffer.
LEMMA WithoutBos ==
    ASSUME NEW S, NEW l \in Seq(S), NEW n \in 1..Len(l)
    PROVE  Bos(Without(l, n)) \cup {l[n]} = Bos(l)
<1> DEFINE r == Without(l, n)
<1>1. Len(l) \in Nat /\ n \in Int /\ 1 <= n /\ n <= Len(l)
  BY SMTT(30)
<1>2. /\ r \in Seq(S) /\ Len(r) = Len(l) - 1
      /\ \A i \in 1..(Len(l) - 1) : r[i] = IF i < n THEN l[i] ELSE l[i + 1]
  BY WithoutProps
<1> HIDE DEF r
<1>3. /\ \A b : b \in Bos(r) <=> \E i \in 1..Len(r) : r[i] = b
      /\ \A b : b \in Bos(l) <=> \E i \in 1..Len(l) : l[i] = b
  BY <1>2, BosOf
<1>4. ASSUME NEW i \in 1..Len(r) PROVE r[i] \in Bos(l)
  <2>1. i \in 1..Len(l) /\ i + 1 \in 1..Len(l)
    BY <1>1, <1>2, SMTT(30)
  <2>2. QED
    BY <1>2, <1>3, <2>1
<1>5. ASSUME NEW k \in 1..Len(l), k # n PROVE l[k] \in Bos(r)
  <2>1. CASE k < n
    <3>1. k \in 1..(Len(l) - 1) /\ k \in 1..Len(r)
      BY <1>1, <1>2, <2>1, SMTT(30)
    <3>2. r[k] = l[k]
      BY <1>2, <2>1, <3>1
    <3>3. QED
      BY <1>3, <3>1, <3>2
  <2>2. CASE k > n
    <3>1. k - 1 \in 1..(Len(l) - 1) /\ k - 1 \in 1..Len(r) /\ ~(k - 1 < n) /\ k - 1 + 1 = k
      BY <1>1, <1>2, <2>2, SMTT(30)
    <3>2. r[k - 1] = l[k]
      BY <1>2, <3>1
    <3>3. QED
      BY <1>3, <3>1, <3>2
  <2>3. QED
    BY <1>1, <1>5, <2>1, <2>2, SMTT(30)
<1>6. l[n] \in Bos(l)
  BY <1>3
<1>7. QED
  BY <1>3, <1>4, <1>5, <1>6 DEF r

\* What is held, {l[i] : i < n}, when the n-th entry is taken and when it was held before.
LEMMA TakeEntry ==
    ASSUME NEW l \in Seq(Bo), NEW n \in 1..Len(l), NEW held, held = {l[i] : i \in 1..(n - 1)},
           l[n] \notin held, \A i, k \in 1..(n - 1) : l[i] = l[k] => i = k, NEW m, m = n + 1
    PROVE  /\ m \in 1..(Len(l) + 1)
           /\ held \cup {l[n]} = {l[i] : i \in 1..(m - 1)}
           /\ \A i, k \in 1..(m - 1) : l[i] = l[k] => i = k
<1>1. /\ m - 1 = n /\ m \in 1..(Len(l) + 1) /\ n \in 1..n
      /\ \A i \in 1..n : i = n \/ i \in 1..(n - 1)
      /\ \A i \in 1..(n - 1) : i \in 1..n
  BY SMTT(30)
<1>2. ASSUME NEW i \in 1..n, NEW k \in 1..n, l[i] = l[k] PROVE i = k
  BY <1>1, <1>2
<1>3. held \cup {l[n]} = {l[i] : i \in 1..n}
  BY <1>1
<1>4. QED
  BY <1>1, <1>2, <1>3

LEMMA FrontEntry ==
    ASSUME NEW l \in Seq(Bo), NEW n \in 1..Len(l)
    PROVE  /\ MoveToFront(l, n) \in Seq(Bo) /\ Bos(MoveToFront(l, n)) = Bos(l)
           /\ {l[n]} = {MoveToFront(l, n)[i] : i \in 1..(2 - 1)}
           /\ 2 \in 1..(Len(MoveToFront(l, n)) + 1)
           /\ \A i, h \in 1..(2 - 1) : MoveToFront(l, n)[i] = MoveToFront(l, n)[h] => i = h
<1>1. PICK k \in Seq(Bo) : k = MoveToFront(l, n) /\ Len(k) = Len(l) /\ k[1] = l[n] /\ Bos(k) = Bos(l)
  BY MoveToFrontProps
<1>2. 1..(2 - 1) = {1} /\ 2 \in 1..(Len(k) + 1)
  BY <1>1, SMTT(30)
<1>3. QED
  BY <1>1, <1>2

LEMMA DropEntry ==
    ASSUME NEW l \in Seq(Bo), NEW n \in 1..Len(l), NEW held, held = {l[i] : i \in 1..(n - 1)},
           l[n] \in held, \A i, k \in 1..(n - 1) : l[i] = l[k] => i = k
    PROVE  /\ Without(l, n) \in Seq(Bo) /\ n \in 1..(Len(Without(l, n)) + 1)
           /\ held = {Without(l, n)[i] : i \in 1..(n - 1)}
           /\ \A i, k \in 1..(n - 1) : Without(l, n)[i] = Without(l, n)[k] => i = k
           /\ Bos(Without(l, n)) = Bos(l)
<1> DEFINE m == Without(l, n)
<1>1. /\ m \in Seq(Bo) /\ Len(m) = Len(l) - 1
      /\ \A i \in 1..(Len(l) - 1) : m[i] = IF i < n THEN l[i] ELSE l[i + 1]
  BY WithoutProps
<1>2. Bos(m) \cup {l[n]} = Bos(l)
  BY WithoutBos
<1> HIDE DEF m
<1>3. /\ n \in 1..(Len(m) + 1) /\ \A i \in 1..(n - 1) : i \in 1..Len(m)
      /\ \A i \in 1..(n - 1) : i \in 1..(Len(l) - 1) /\ i < n
  BY <1>1, SMTT(30)
<1>4. \A i \in 1..(n - 1) : m[i] = l[i]
  BY <1>1, <1>3
<1>5. held = {m[i] : i \in 1..(n - 1)}
  BY <1>4, SMTT(30)
<1>6. l[n] \in Bos(m)
  <2>1. PICK i \in 1..(n - 1) : l[n] = m[i]
    BY <1>5
  <2>2. QED
    BY <1>1, <1>3, <2>1, BosOf
<1>7. \A i, k \in 1..(n - 1) : m[i] = m[k] => i = k
  BY <1>4
<1>8. QED
  BY <1>1, <1>2, <1>3, <1>5, <1>6, <1>7 DEF m

LEMMA ListDelProps ==
    ASSUME NEW l \in Seq(Bo), NEW u
    PROVE  /\ list_del(l, u) \in Seq(Bo)
           /\ Bos(list_del(l, u)) \cup {u} = Bos(l) \cup {u}
<1>1. CASE u \notin Bos(l)
  BY <1>1 DEF list_del
<1>2. CASE u \in Bos(l)
  <2>1. \E k \in DOMAIN l : l[k] = u
    BY <1>2 DEF Bos
  <2>2. PICK n \in DOMAIN l : n = (CHOOSE k \in DOMAIN l : l[k] = u) /\ l[n] = u
    BY <2>1
  <2>3. list_del(l, u) = Without(l, n) /\ n \in 1..Len(l)
    BY <1>2, <2>2, SMTT(30) DEF list_del
  <2>4. Without(l, n) \in Seq(Bo) /\ Bos(Without(l, n)) \cup {u} = Bos(l)
    BY <2>2, <2>3, WithoutProps, WithoutBos
  <2>5. QED
    BY <1>2, <2>3, <2>4
<1>3. QED
  BY <1>1, <1>2

\* The entries in front of the one the loop is at.
LEMMA VisitedProps ==
    ASSUME NEW l \in Seq(Bo), NEW n \in 1..Len(l)
    PROVE  Bos(SubSeq(l, 1, n - 1)) = {l[i] : i \in 1..(n - 1)}
<1> DEFINE v == SubSeq(l, 1, n - 1)
<1>1. v \in Seq(Bo) /\ Len(v) = n - 1 /\ \A i \in 1..(n - 1) : v[i] = l[i]
  BY SMTT(30)
<1> HIDE DEF v
<1>2. Bos(v) = {v[i] : i \in 1..(n - 1)}
  BY <1>1, BosOf, SMTT(30)
<1>3. QED
  BY <1>1, <1>2 DEF v

\* A list with one more buffer in front.
LEMMA ConsBos ==
    ASSUME NEW l \in Seq(Bo), NEW u \in Bo
    PROVE  <<u>> \o l \in Seq(Bo) /\ <<u>> \o l # <<>> /\ Bos(<<u>> \o l) = {u} \cup Bos(l)
<1> DEFINE k == <<u>> \o l
<1>1. /\ k \in Seq(Bo) /\ k # <<>> /\ Len(k) = Len(l) + 1 /\ Len(l) \in Nat
      /\ k[1] = u /\ \A i \in 1..Len(l) : k[i + 1] = l[i]
  BY SMTT(30)
<1> HIDE DEF k
<1>2. /\ \A b : b \in Bos(k) <=> \E i \in 1..Len(k) : k[i] = b
      /\ \A b : b \in Bos(l) <=> \E i \in 1..Len(l) : l[i] = b
  BY <1>1, BosOf
<1>3. ASSUME NEW i \in 1..Len(k), i # 1 PROVE \E m \in 1..Len(l) : m + 1 = i
  <2>1. i - 1 \in 1..Len(l) /\ i - 1 + 1 = i
    BY <1>1, <1>3, SMTT(30)
  <2>2. QED
    BY <2>1
<1>4. 1 \in 1..Len(k) /\ \A i \in 1..Len(l) : i + 1 \in 1..Len(k)
  BY <1>1, SMTT(30)
<1>5. \A b : b \in Bos(k) <=> b = u \/ b \in Bos(l)
  <2>1. ASSUME NEW i \in 1..Len(k), i # 1 PROVE k[i] \in Bos(l)
    <3>1. PICK m \in 1..Len(l) : m + 1 = i
      BY <1>3, <2>1
    <3>2. k[i] = l[m]
      BY <1>1, <3>1
    <3>3. QED
      BY <1>2, <3>2
  <2>2. u \in Bos(k) /\ \A i \in 1..Len(l) : l[i] \in Bos(k)
    BY <1>1, <1>2, <1>4
  <2>3. QED
    BY <1>1, <1>2, <2>1, <2>2
<1>6. QED
  BY <1>1, <1>5 DEF k
=============================================================================

------------------------------- MODULE MnLock -------------------------------
(***************************************************************************)
(* The lock of an MMU notifier (amdgpu/amdgpu_mn.c).  A command submission *)
(* takes it for writing, an invalidation of user pages holds it for        *)
(* reading from range_start to range_end.  Invalidations overlap and nest, *)
(* also in one task, so only the first of them takes the rw_semaphore and  *)
(* the last one drops it: whoever does not own it may (the non_owner       *)
(* variants).  The rw_semaphore may keep readers out while a writer waits. *)
(***************************************************************************)
EXTENDS Integers

CONSTANTS
    Submitter,      \* the threads that submit
    Inv             \* the invalidations, a task runs one or several of them

VARIABLES
    read_lock,      \* the invalidations that hold the mutex rmn->read_lock
    recursion,      \* rmn->recursion
    readers,        \* how often rmn->lock is held for reading
    writers,        \* who holds rmn->lock for writing
    waiting,        \* who waits to hold it for writing
    ipc             \* where an invalidation is

mnVars == <<read_lock, recursion, readers, writers, waiting, ipc>>

InitMn ==
    /\ read_lock = {}
    /\ recursion = 0
    /\ readers = 0
    /\ writers = {}
    /\ waiting = {}
    /\ ipc = [i \in Inv |-> "out"]

-----------------------------------------------------------------------------
(* amdgpu_mn_lock, amdgpu_mn_unlock: a submission.                         *)

mn_lock_call(t) ==
    /\ t \notin waiting \cup writers
    /\ waiting' = waiting \cup {t}
    /\ UNCHANGED <<read_lock, recursion, readers, writers, ipc>>

amdgpu_mn_lock(t) ==
    /\ t \in waiting
    /\ writers = {} /\ readers = 0
    /\ waiting' = waiting \ {t}
    /\ writers' = {t}
    /\ UNCHANGED <<read_lock, recursion, readers, ipc>>

amdgpu_mn_unlock(t) ==
    /\ writers' = writers \ {t}
    /\ UNCHANGED <<read_lock, recursion, readers, waiting, ipc>>

-----------------------------------------------------------------------------
(* amdgpu_mn_read_lock, amdgpu_mn_read_unlock: an invalidation.            *)

GotoInv(i, l) == ipc' = [ipc EXCEPT ![i] = l]

\* mutex_lock(&rmn->read_lock)
read_lock_mutex(i) ==
    /\ ipc[i] = "out"
    /\ read_lock = {}
    /\ read_lock' = {i}
    /\ GotoInv(i, "inc")
    /\ UNCHANGED <<recursion, readers, writers, waiting>>

down_each_time(i) ==
    /\ ipc[i] = "inc"
    /\ recursion' = recursion + 1
    /\ GotoInv(i, "down")
    /\ UNCHANGED <<read_lock, readers, writers, waiting>>

\* atomic_inc_return(&rmn->recursion)
read_lock_inc(i) ==
    /\ ipc[i] = "inc"
    /\ recursion' = recursion + 1
    /\ GotoInv(i, IF recursion' = 1 THEN "down" ELSE "unlock")
    /\ UNCHANGED <<read_lock, readers, writers, waiting>>

\* down_read_non_owner(&rmn->lock)
read_lock_down(i) ==
    /\ ipc[i] = "down"
    /\ writers = {}
    /\ readers' = readers + 1
    /\ GotoInv(i, "unlock")
    /\ UNCHANGED <<read_lock, recursion, writers, waiting>>

\* mutex_unlock(&rmn->read_lock)
read_lock_unlock(i) ==
    /\ ipc[i] = "unlock"
    /\ read_lock' = {}
    /\ GotoInv(i, "start")
    /\ UNCHANGED <<recursion, readers, writers, waiting>>

\* atomic_dec_return(&rmn->recursion)
read_unlock_dec(i) ==
    /\ ipc[i] = "end"
    /\ recursion' = recursion - 1
    /\ GotoInv(i, IF recursion' = 0 THEN "up" ELSE "done")
    /\ UNCHANGED <<read_lock, readers, writers, waiting>>

\* up_read_non_owner(&rmn->lock)
read_unlock_up(i) ==
    /\ ipc[i] = "up"
    /\ readers' = readers - 1
    /\ GotoInv(i, "done")
    /\ UNCHANGED <<read_lock, recursion, writers, waiting>>

\* What the invalidation does between the two, with l the place it gets to.
invalidate(i, l) ==
    /\ GotoInv(i, l)
    /\ UNCHANGED <<read_lock, recursion, readers, writers, waiting>>

amdgpu_mn_read_lock(i) ==
    read_lock_mutex(i) \/ read_lock_inc(i) \/ read_lock_down(i) \/ read_lock_unlock(i)

amdgpu_mn_read_unlock(i) == read_unlock_dec(i) \/ read_unlock_up(i)

-----------------------------------------------------------------------------
(* The lock by itself: whatever invalidations and submissions do while     *)
(* they hold it.                                                           *)

Between == {"start", "wait", "change", "end"}

NextMn ==
    \/ \E t \in Submitter :
          \/ mn_lock_call(t)
          \/ amdgpu_mn_lock(t)
          \/ t \in writers /\ amdgpu_mn_unlock(t)
    \/ \E i \in Inv :
          \/ amdgpu_mn_read_lock(i)
          \/ amdgpu_mn_read_unlock(i)
          \/ ipc[i] \in Between /\ \E l \in Between : invalidate(i, l)
          \/ ipc[i] = "done" /\ invalidate(i, "out")

SpecMn == InitMn /\ [][NextMn]_mnVars

-----------------------------------------------------------------------------
(* Properties.                                                             *)

MnTypes ==
    /\ read_lock \subseteq Inv
    /\ recursion \in Int
    /\ readers \in Int
    /\ writers \subseteq Submitter
    /\ waiting \subseteq Submitter
    /\ ipc \in [Inv -> {"out", "inc", "down", "unlock", "up", "done"} \cup Between]

\* Between range_start and range_end no submission is in its critical section,
\* whichever of the overlapping invalidations took the semaphore, and whichever
\* drops it.
InvalidationExcludesSubmission ==
    (\E i \in Inv : ipc[i] \in Between) => writers = {}
=============================================================================

------------------------------ MODULE TtmLock -------------------------------
(***************************************************************************)
(* The lock of TTM clients (ttm/ttm_lock.c): shared by readers, or held by *)
(* a writer, by the master that switched the virtual terminal away (vt) or *)
(* for suspend.  A thread waits with wait_event, whose condition tries to  *)
(* take the lock, and leaves a flag that keeps readers out.  The lock has  *)
(* no caller in this repository; vt and suspend are taken to have one      *)
(* thread each, since nothing keeps a second one out.                      *)
(***************************************************************************)
EXTENDS Integers

CONSTANTS
    TtmThread,
    TtmOps,         \* the kinds of lock a thread takes
    MaxLocks        \* bound: calls of a thread

Kinds == {"read", "try", "write", "vt", "suspend"}

ASSUME TtmLockAssumption ==
    /\ TtmOps \in [TtmThread -> SUBSET Kinds]
    /\ \A t, u \in TtmThread : \A k \in {"vt", "suspend"} : k \in TtmOps[t] \cap TtmOps[u] => t = u
    /\ MaxLocks \in Nat

VARIABLES
    rw,             \* lock->rw: -1 for a writer, else the number of readers
    flags,          \* "vt", "suspend" and, while somebody waits, "w_pending", ...
    kill_takers,
    ttmpc,          \* where a thread is
    kind, intr,     \* of a thread's call: what it takes, and is it interruptible?
    awake,          \* the threads that are to evaluate their condition
    nlocks

ttmLockVars == <<rw, flags, kill_takers, ttmpc, kind, intr, awake, nlocks>>

InitTtmLock ==
    /\ rw = 0
    /\ flags = {}
    /\ kill_takers = FALSE
    /\ ttmpc = [t \in TtmThread |-> "out"]
    /\ kind = [t \in TtmThread |-> "read"]
    /\ intr = [t \in TtmThread |-> FALSE]
    /\ awake = {}
    /\ nlocks = [t \in TtmThread |-> 0]

\* TTM_WRITE_LOCK_PENDING and the other two.
PendingFlag(k) ==
    IF k = "write" THEN "w_pending" ELSE IF k = "vt" THEN "vt_pending" ELSE "s_pending"

TtmGoto(t, l) == ttmpc' = [ttmpc EXCEPT ![t] = l]

wake_up_all == awake' = {t \in TtmThread : ttmpc[t] = "wait"}

ttm_lock_set_kill ==
    /\ ~ kill_takers
    /\ kill_takers' = TRUE
    /\ UNCHANGED <<rw, flags, ttmpc, kind, intr, awake, nlocks>>

ttm_lock_call(t) ==
    /\ ttmpc[t] = "out" /\ nlocks[t] < MaxLocks
    /\ nlocks' = [nlocks EXCEPT ![t] = @ + 1]
    /\ \E k \in TtmOps[t], i \in BOOLEAN :
          /\ k = "suspend" => ~ i
          /\ kind' = [kind EXCEPT ![t] = k]
          /\ intr' = [intr EXCEPT ![t] = i]
    /\ TtmGoto(t, "wait")
    /\ awake' = awake \cup {t}
    /\ UNCHANGED <<rw, flags, kill_takers>>

-----------------------------------------------------------------------------
(* The conditions of wait_event, evaluated under lock->lock.               *)

Evaluates(t, kinds) ==
    /\ ttmpc[t] = "wait" /\ t \in awake /\ kind[t] \in kinds
    /\ UNCHANGED <<kill_takers, kind, intr, nlocks>>

Sleeps(t) == awake' = awake \ {t} /\ UNCHANGED ttmpc

Returns(t, l) == awake' = awake \ {t} /\ TtmGoto(t, l)

\* Where a call ends that was interrupted: a flag is taken back first.
GiveUp(t) == Returns(t, IF kind[t] \in {"write", "vt"} THEN "undo" ELSE "out")

\* A killed taker has a signal pending, and ends its wait if it may.
killed(t) ==
    /\ Evaluates(t, {"read", "try", "write"})
    /\ kill_takers
    /\ IF intr[t] THEN GiveUp(t) ELSE Sleeps(t)
    /\ UNCHANGED <<rw, flags>>

read_ignores_flags(t) ==
    /\ Evaluates(t, {"read", "try"})
    /\ ~ kill_takers
    /\ \/ rw >= 0 /\ rw' = rw + 1 /\ Returns(t, "held")
       \/ rw < 0 /\ UNCHANGED rw /\ IF kind[t] = "try" THEN Returns(t, "out") ELSE Sleeps(t)
    /\ UNCHANGED flags

\* __ttm_read_lock, __ttm_read_trylock (-EBUSY when a writer has the lock)
read_lock_try(t) ==
    /\ Evaluates(t, {"read", "try"})
    /\ ~ kill_takers
    /\ \/ rw >= 0 /\ flags = {} /\ rw' = rw + 1 /\ Returns(t, "held")
       \/ rw < 0 /\ flags = {} /\ kind[t] = "try" /\ UNCHANGED rw /\ Returns(t, "out")
       \/ /\ ~ (rw >= 0 /\ flags = {}) /\ ~ (flags = {} /\ kind[t] = "try")
          /\ UNCHANGED rw /\ Sleeps(t)
    /\ UNCHANGED flags

\* __ttm_write_lock
write_lock_try(t) ==
    /\ Evaluates(t, {"write"})
    /\ ~ kill_takers
    /\ IF rw = 0 /\ flags \subseteq {"w_pending"}
       THEN rw' = -1 /\ flags' = flags \ {"w_pending"} /\ Returns(t, "held")
       ELSE flags' = flags \cup {"w_pending"} /\ UNCHANGED rw /\ Sleeps(t)

\* __ttm_vt_lock: other flags do not count.
vt_lock_try(t) ==
    /\ Evaluates(t, {"vt"})
    /\ IF rw = 0
       THEN flags' = (flags \ {"vt_pending"}) \cup {"vt"} /\ Returns(t, "base_init")
       ELSE flags' = flags \cup {"vt_pending"} /\ Sleeps(t)
    /\ UNCHANGED rw

\* __ttm_suspend_lock
suspend_lock_try(t) ==
    /\ Evaluates(t, {"suspend"})
    /\ IF rw = 0
       THEN flags' = (flags \ {"s_pending"}) \cup {"suspend"} /\ Returns(t, "held")
       ELSE flags' = flags \cup {"s_pending"} /\ Sleeps(t)
    /\ UNCHANGED rw

\* A signal for a thread that sleeps.
wait_interrupted(t) ==
    /\ ttmpc[t] = "wait" /\ intr[t] /\ t \notin awake
    /\ GiveUp(t)
    /\ UNCHANGED <<rw, flags, kill_takers, kind, intr, nlocks>>

undo_silently(t) ==
    /\ ttmpc[t] = "undo"
    /\ TtmGoto(t, "out")
    /\ UNCHANGED <<rw, flags, kill_takers, kind, intr, awake, nlocks>>

\* ttm_write_lock, ttm_vt_lock: the pending flag is cleared, whoever else waits.
clear_pending(t) ==
    /\ ttmpc[t] = "undo"
    /\ flags' = flags \ {PendingFlag(kind[t])}
    /\ wake_up_all
    /\ TtmGoto(t, "out")
    /\ UNCHANGED <<rw, kill_takers, kind, intr, nlocks>>

\* ttm_base_object_init succeeds or not.
vt_base_init(t) ==
    /\ ttmpc[t] = "base_init"
    /\ \/ Returns(t, "held") /\ UNCHANGED flags
       \/ flags' = flags \ {"vt"} /\ wake_up_all /\ TtmGoto(t, "out")
    /\ UNCHANGED <<rw, kill_takers, kind, intr, nlocks>>

-----------------------------------------------------------------------------
ttm_read_unlock(t) ==
    /\ ttmpc[t] = "held" /\ kind[t] \in {"read", "try"}
    /\ rw' = rw - 1
    /\ IF rw' = 0 THEN wake_up_all ELSE UNCHANGED awake
    /\ TtmGoto(t, "out")
    /\ UNCHANGED <<flags, kill_takers, kind, intr, nlocks>>

ttm_write_unlock(t) ==
    /\ ttmpc[t] = "held" /\ kind[t] = "write"
    /\ rw' = 0
    /\ wake_up_all
    /\ TtmGoto(t, "out")
    /\ UNCHANGED <<flags, kill_takers, kind, intr, nlocks>>

\* __ttm_vt_unlock, ttm_suspend_unlock
flag_unlock(t) ==
    /\ ttmpc[t] = "held" /\ kind[t] \in {"vt", "suspend"}
    /\ flags' = flags \ {kind[t]}
    /\ wake_up_all
    /\ TtmGoto(t, "out")
    /\ UNCHANGED <<rw, kill_takers, kind, intr, nlocks>>

-----------------------------------------------------------------------------
TtmLockStep(t) ==
    \/ killed(t) \/ read_lock_try(t) \/ write_lock_try(t) \/ vt_lock_try(t) \/ suspend_lock_try(t)
    \/ clear_pending(t) \/ vt_base_init(t)
    \/ ttm_read_unlock(t) \/ ttm_write_unlock(t) \/ flag_unlock(t)

NextTtmLock ==
    \/ \E t \in TtmThread : ttm_lock_call(t) \/ TtmLockStep(t) \/ wait_interrupted(t)
    \/ ttm_lock_set_kill

SpecTtmLock == InitTtmLock /\ [][NextTtmLock]_ttmLockVars

\* A thread that can go on does, and unlocks what it holds.
FairnessTtmLock == \A t \in TtmThread : WF_ttmLockVars(TtmLockStep(t))

-----------------------------------------------------------------------------
(* Properties.                                                             *)

TtmLockTypes ==
    /\ rw \in Int
    /\ flags \subseteq {"vt", "suspend", "w_pending", "vt_pending", "s_pending"}
    /\ kill_takers \in BOOLEAN
    /\ ttmpc \in [TtmThread -> {"out", "wait", "undo", "base_init", "held"}]
    /\ kind \in [TtmThread -> Kinds]
    /\ intr \in [TtmThread -> BOOLEAN]
    /\ awake \subseteq TtmThread
    /\ nlocks \in [TtmThread -> Nat]

Holds(t, kinds) == ttmpc[t] \in {"held", "base_init"} /\ kind[t] \in kinds

\* Readers share the lock with each other only, a writer with nobody; vt and suspend
\* keep out both, but not each other.
LockExcludes ==
    \A t, u \in TtmThread :
        (t # u /\ Holds(t, Kinds) /\ Holds(u, {"read", "try", "write"})) =>
            Holds(t, {"read", "try"}) /\ Holds(u, {"read", "try"})

\* A pending flag keeps readers out, so it stands only while a thread waits for that
\* kind of lock: none is left behind by one that was interrupted or that got the lock.
PendingHasWaiter ==
    \A k \in {"write", "vt", "suspend"} :
        PendingFlag(k) \in flags => \E t \in TtmThread : ttmpc[t] \in {"wait", "undo"} /\ kind[t] = k

\* Every call returns, unless takers are killed: in the end (a thread makes finitely
\* many) nobody waits, also when the flag of a waiter was cleared by another one.
LockCallsReturn == <>[](kill_takers \/ \A t \in TtmThread : ttmpc[t] = "out")
=============================================================================

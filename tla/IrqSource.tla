----------------------------- MODULE IrqSource ------------------------------
(***************************************************************************)
(* One type of one interrupt source (amdgpu/amdgpu_irq.c).  Its users get  *)
(* and put a reference; the first get and the last put tell the hardware,  *)
(* under irq.lock.  The count itself changes without the lock.  A GPU      *)
(* reset clears the hardware's state, and amdgpu_irq_uninstall disables    *)
(* the source for good.                                                    *)
(***************************************************************************)
EXTENDS Integers, FiniteSets

CONSTANT IrqUser        \* the threads that use the source, each with one reference

ASSUME IrqAssumption == IsFiniteSet(IrqUser)

VARIABLES
    irq_enabled,    \* adev->ddev->irq_enabled
    enabled_types,  \* src->enabled_types[type]
    hw,             \* is the interrupt enabled in the hardware?
    irqpc,          \* where a user is
    resetting,      \* the hardware was reset, and the state is to be restored
    uninstall       \* "no", "disable_all" or "done"

irqVars == <<irq_enabled, enabled_types, hw, irqpc, resetting, uninstall>>

InitIrq ==
    /\ irq_enabled = TRUE
    /\ enabled_types = 0
    /\ hw = FALSE
    /\ irqpc = [u \in IrqUser |-> "out"]
    /\ resetting = FALSE
    /\ uninstall = "no"

IrqGoto(u, l) == irqpc' = [irqpc EXCEPT ![u] = l]

amdgpu_irq_enabled == irq_enabled /\ enabled_types # 0

-----------------------------------------------------------------------------
\* amdgpu_irq_get: -ENOENT without interrupts, ...
irq_get(u) ==
    /\ irqpc[u] = "out"
    /\ irq_enabled
    /\ IrqGoto(u, "get")
    /\ UNCHANGED <<irq_enabled, enabled_types, hw, resetting, uninstall>>

\* ... atomic_inc_return.
irq_get_inc(u) ==
    /\ irqpc[u] = "get"
    /\ enabled_types' = enabled_types + 1
    /\ IrqGoto(u, IF enabled_types' = 1 THEN "enable" ELSE "held")
    /\ UNCHANGED <<irq_enabled, hw, resetting, uninstall>>

\* amdgpu_irq_put: -ENOENT without interrupts, ...
irq_put(u) ==
    /\ irqpc[u] = "held"
    /\ IrqGoto(u, IF irq_enabled THEN "put" ELSE "out")
    /\ UNCHANGED <<irq_enabled, enabled_types, hw, resetting, uninstall>>

\* ... atomic_dec_and_test.
irq_put_dec(u) ==
    /\ irqpc[u] = "put"
    /\ enabled_types' = enabled_types - 1
    /\ IrqGoto(u, IF enabled_types' = 0 THEN "disable" ELSE "out")
    /\ UNCHANGED <<irq_enabled, hw, resetting, uninstall>>

update_as_called(u) ==
    /\ irqpc[u] \in {"enable", "disable"}
    /\ hw' = (irqpc[u] = "enable")
    /\ IrqGoto(u, IF irqpc[u] = "enable" THEN "held" ELSE "out")
    /\ UNCHANGED <<irq_enabled, enabled_types, resetting, uninstall>>

\* "we need to determine after taking the lock, otherwise we might disable just
\* enabled interrupts again"
amdgpu_irq_update(u) ==
    /\ irqpc[u] \in {"enable", "disable"}
    /\ hw' = amdgpu_irq_enabled
    /\ IrqGoto(u, IF irqpc[u] = "enable" THEN "held" ELSE "out")
    /\ UNCHANGED <<irq_enabled, enabled_types, resetting, uninstall>>

AsicReset ==
    /\ ~ resetting /\ uninstall = "no"
    /\ resetting' = TRUE
    /\ hw' = FALSE
    /\ UNCHANGED <<irq_enabled, enabled_types, irqpc, uninstall>>

\* amdgpu_irq_gpu_reset_resume_helper
reset_resume_helper ==
    /\ resetting
    /\ resetting' = FALSE
    /\ hw' = amdgpu_irq_enabled
    /\ UNCHANGED <<irq_enabled, enabled_types, irqpc, uninstall>>

\* drm_irq_uninstall: irq_enabled is cleared, then amdgpu_irq_uninstall is called.
drm_irq_uninstall ==
    /\ uninstall = "no" /\ ~ resetting
    /\ irq_enabled' = FALSE
    /\ uninstall' = "disable_all"
    /\ UNCHANGED <<enabled_types, hw, irqpc, resetting>>

amdgpu_irq_disable_all ==
    /\ uninstall = "disable_all"
    /\ enabled_types' = 0
    /\ hw' = FALSE
    /\ uninstall' = "done"
    /\ UNCHANGED <<irq_enabled, irqpc, resetting>>

-----------------------------------------------------------------------------
IrqStep(u) == irq_get_inc(u) \/ irq_put_dec(u) \/ amdgpu_irq_update(u)

NextIrq ==
    \/ \E u \in IrqUser : irq_get(u) \/ irq_put(u) \/ IrqStep(u)
    \/ AsicReset \/ reset_resume_helper
    \/ drm_irq_uninstall \/ amdgpu_irq_disable_all

SpecIrq == InitIrq /\ [][NextIrq]_irqVars

-----------------------------------------------------------------------------
(* Properties.                                                             *)

IrqPhase == {"out", "get", "enable", "held", "put", "disable"}

IrqTypes ==
    /\ irq_enabled \in BOOLEAN
    /\ enabled_types \in Int
    /\ hw \in BOOLEAN
    /\ irqpc \in [IrqUser -> IrqPhase]
    /\ resetting \in BOOLEAN
    /\ uninstall \in {"no", "disable_all", "done"}

\* Nobody is about to tell the hardware something.
IrqQuiet ==
    /\ \A u \in IrqUser : irqpc[u] \notin {"enable", "disable"}
    /\ ~ resetting
    /\ uninstall # "disable_all"

\* Once the calls of amdgpu_irq_update are through, the hardware's interrupt is
\* enabled exactly when interrupts are installed and somebody has a reference, in
\* whatever order gets, puts, resets and the uninstall met.
HardwareFollowsUsers ==
    IrqQuiet => (hw <=> irq_enabled /\ \E u \in IrqUser : irqpc[u] \in {"held", "put"})

\* After amdgpu_irq_uninstall the interrupt is never enabled again, although a get
\* that passed its test of irq_enabled before may still count and update.
UninstalledStaysOff == uninstall = "done" => ~ hw
=============================================================================

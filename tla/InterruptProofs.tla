-------------------------- MODULE InterruptProofs --------------------------
(***************************************************************************)
(* The hardware follows the users of an interrupt source, and no signal of *)
(* the GPU is forgotten on its way to a KFD event: the fifo is freed last, *)
(* and no thread sleeps on an event that is signaled.  For any number of   *)
(* users, events, processes and threads and any size of the fifo.          *)
(***************************************************************************)
EXTENDS IrqSource, KfdEvents, TLAPS, FiniteSetTheorems

\* The provers of a leaf that names none, and the time each of them has.
USE ZenonT(20), SMTT(30)

-----------------------------------------------------------------------------
(* Interrupt sources (IrqSource).                                          *)

\* The users that the count stands for, until the uninstall clears it.
Refs == {u \in IrqUser : irqpc[u] \in {"enable", "held", "put"}}

\* The inductive invariant.  While interrupts are installed the count is exact: were
\* it not, a get could fail to be the first or a put to be the last.
IrqInv ==
    /\ IrqTypes
    /\ irq_enabled <=> uninstall = "no"
    /\ irq_enabled => enabled_types = Cardinality(Refs)
    /\ IrqQuiet => (hw <=> amdgpu_irq_enabled)
    /\ UninstalledStaysOff

LEMMA RefsCount ==
    /\ IsFiniteSet(Refs)
    /\ Cardinality(Refs) \in Nat
    /\ Cardinality(Refs) = 0 <=> Refs = {}
<1>1. IsFiniteSet(Refs)
  BY IrqAssumption, FS_Subset DEF Refs
<1>2. QED
  BY <1>1, FS_CardinalityType, FS_EmptySet

LEMMA IrqInvInit == InitIrq => IrqInv
<1> SUFFICES ASSUME InitIrq PROVE IrqInv
  OBVIOUS
<1>1. Refs = {}
  BY DEF InitIrq, Refs
<1>2. Cardinality(Refs) = 0
  BY <1>1, FS_EmptySet
<1>3. IrqTypes
  <2>1. irq_enabled \in BOOLEAN /\ hw \in BOOLEAN /\ resetting \in BOOLEAN
    BY DEF InitIrq
  <2>2. enabled_types \in Int /\ uninstall = "no" /\ irqpc \in [IrqUser -> IrqPhase]
    BY SMTT(30) DEF InitIrq, IrqPhase
  <2>3. QED
    BY <2>1, <2>2 DEF IrqTypes
<1>4. enabled_types = Cardinality(Refs) /\ ~ amdgpu_irq_enabled
  BY <1>2 DEF InitIrq, amdgpu_irq_enabled
<1>5. QED
  BY <1>3, <1>4 DEF InitIrq, IrqInv, UninstalledStaysOff

LEMMA IrqInvFollows == IrqInv => HardwareFollowsUsers
<1> SUFFICES ASSUME IrqInv, IrqQuiet
             PROVE  hw <=> irq_enabled /\ \E u \in IrqUser : irqpc[u] \in {"held", "put"}
  BY DEF HardwareFollowsUsers
<1>1. Refs # {} <=> \E u \in IrqUser : irqpc[u] \in {"held", "put"}
  BY DEF Refs, IrqQuiet
<1>2. irq_enabled => (enabled_types # 0 <=> Refs # {})
  BY RefsCount DEF IrqInv
<1>3. QED
  BY <1>1, <1>2 DEF IrqInv, amdgpu_irq_enabled

LEMMA IrqInvStep == IrqInv /\ [NextIrq]_irqVars => IrqInv'
<1> SUFFICES ASSUME IrqInv, [NextIrq]_irqVars PROVE IrqInv'
  OBVIOUS
<1> USE DEF IrqGoto
<1>0. IrqTypes
  BY DEF IrqInv
<1>1. ASSUME NEW u \in IrqUser, irq_get(u) \/ irq_put(u) PROVE IrqInv'
  <2>1. UNCHANGED <<irq_enabled, enabled_types, hw, resetting, uninstall>> /\ IrqTypes'
    BY <1>0, <1>1 DEF irq_get, irq_put, IrqTypes, IrqPhase
  <2>2. irq_enabled => Refs' = Refs
    BY <1>0, <1>1 DEF irq_get, irq_put, IrqTypes, Refs
  <2>3. IrqQuiet' => IrqQuiet
    BY <1>0, <1>1, <2>1 DEF irq_get, irq_put, IrqTypes, IrqQuiet
  <2>4. QED
    BY <2>1, <2>2, <2>3 DEF IrqInv, amdgpu_irq_enabled, UninstalledStaysOff
<1>2. ASSUME NEW u \in IrqUser, irq_get_inc(u) PROVE IrqInv'
  <2>1. /\ UNCHANGED <<irq_enabled, hw, resetting, uninstall>> /\ IrqTypes'
        /\ enabled_types' = enabled_types + 1
    BY <1>0, <1>2, SMTT(30) DEF irq_get_inc, IrqTypes, IrqPhase
  <2>2. Refs' = Refs \cup {u} /\ u \notin Refs
    BY <1>0, <1>2 DEF irq_get_inc, IrqTypes, Refs
  <2>3. irq_enabled => enabled_types' = Cardinality(Refs')
    <3>1. Cardinality(Refs') = Cardinality(Refs) + 1
      BY <2>2, RefsCount, FS_AddElement
    <3>2. QED
      BY <2>1, <3>1 DEF IrqInv
  <2>4. IrqQuiet' => IrqQuiet /\ enabled_types' # 1
    BY <1>0, <1>2, <2>1, SMTT(30) DEF irq_get_inc, IrqTypes, IrqQuiet
  <2>5. irq_enabled => enabled_types \in Nat
    BY RefsCount DEF IrqInv
  <2>6. IrqQuiet' => (hw' <=> amdgpu_irq_enabled')
    BY <2>1, <2>4, <2>5, SMTT(30) DEF IrqInv, amdgpu_irq_enabled
  <2>7. QED
    BY <2>1, <2>3, <2>6 DEF IrqInv, UninstalledStaysOff
<1>3. ASSUME NEW u \in IrqUser, irq_put_dec(u) PROVE IrqInv'
  <2>1. /\ UNCHANGED <<irq_enabled, hw, resetting, uninstall>> /\ IrqTypes'
        /\ enabled_types' = enabled_types - 1
    BY <1>0, <1>3, SMTT(30) DEF irq_put_dec, IrqTypes, IrqPhase
  <2>2. Refs' = Refs \ {u} /\ u \in Refs
    BY <1>0, <1>3 DEF irq_put_dec, IrqTypes, Refs
  <2>3. irq_enabled => enabled_types' = Cardinality(Refs')
    <3>1. Cardinality(Refs') = Cardinality(Refs) - 1
      BY <2>2, RefsCount, FS_RemoveElement
    <3>2. QED
      BY <2>1, <3>1 DEF IrqInv
  <2>4. IrqQuiet' => IrqQuiet /\ enabled_types' # 0
    BY <1>0, <1>3, <2>1, SMTT(30) DEF irq_put_dec, IrqTypes, IrqQuiet
  <2>5. irq_enabled => enabled_types # 0
    BY <2>2, RefsCount DEF IrqInv
  <2>6. IrqQuiet' => (hw' <=> amdgpu_irq_enabled')
    BY <2>1, <2>4, <2>5 DEF IrqInv, amdgpu_irq_enabled
  <2>7. QED
    BY <2>1, <2>3, <2>6 DEF IrqInv, UninstalledStaysOff
<1>4. ASSUME NEW u \in IrqUser, amdgpu_irq_update(u) PROVE IrqInv'
  <2>1. /\ UNCHANGED <<irq_enabled, enabled_types, resetting, uninstall>> /\ IrqTypes'
        /\ hw' = amdgpu_irq_enabled
    BY <1>0, <1>4 DEF amdgpu_irq_update, amdgpu_irq_enabled, IrqTypes, IrqPhase
  <2>2. Refs' = Refs
    BY <1>0, <1>4 DEF amdgpu_irq_update, IrqTypes, Refs
  <2>3. QED
    BY <2>1, <2>2 DEF IrqInv, amdgpu_irq_enabled, UninstalledStaysOff
<1>5. CASE AsicReset \/ reset_resume_helper
  <2>1. /\ UNCHANGED <<irq_enabled, enabled_types, irqpc, uninstall>> /\ IrqTypes'
        /\ Refs' = Refs
    BY <1>0, <1>5 DEF AsicReset, reset_resume_helper, amdgpu_irq_enabled, IrqTypes, Refs
  <2>2. amdgpu_irq_enabled' = amdgpu_irq_enabled
    BY <2>1 DEF amdgpu_irq_enabled
  <2>3. IrqQuiet' => hw' = amdgpu_irq_enabled
    BY <1>5 DEF AsicReset, reset_resume_helper, IrqQuiet
  <2>4. UninstalledStaysOff'
    BY <1>5, <2>1 DEF AsicReset, reset_resume_helper, IrqInv, UninstalledStaysOff,
         amdgpu_irq_enabled
  <2>5. QED
    BY <2>1, <2>2, <2>3, <2>4, SMTT(30) DEF IrqInv
<1>6. CASE drm_irq_uninstall \/ amdgpu_irq_disable_all
  <2>1. ~ irq_enabled' /\ uninstall' # "no" /\ IrqTypes'
    <3>1. ~ irq_enabled' /\ uninstall' \in {"disable_all", "done"}
      BY <1>6, SMTT(30) DEF drm_irq_uninstall, amdgpu_irq_disable_all, IrqInv
    <3>2. irq_enabled' \in BOOLEAN /\ hw' \in BOOLEAN /\ resetting' \in BOOLEAN
      BY <1>0, <1>6 DEF drm_irq_uninstall, amdgpu_irq_disable_all, IrqTypes
    <3>3. enabled_types' \in Int /\ UNCHANGED irqpc
      BY <1>0, <1>6, SMTT(30) DEF drm_irq_uninstall, amdgpu_irq_disable_all, IrqTypes
    <3>4. QED
      BY <1>0, <3>1, <3>2, <3>3 DEF IrqTypes
  <2>2. UninstalledStaysOff' /\ (IrqQuiet' => ~ hw')
    BY <1>6 DEF drm_irq_uninstall, amdgpu_irq_disable_all, UninstalledStaysOff, IrqQuiet
  <2>3. ~ amdgpu_irq_enabled'
    BY <2>1 DEF amdgpu_irq_enabled
  <2>4. QED
    BY <2>1, <2>2, <2>3 DEF IrqInv
<1>7. CASE UNCHANGED irqVars
  <2>1. Refs' = Refs /\ IrqTypes' /\ (IrqQuiet' <=> IrqQuiet)
    BY <1>0, <1>7 DEF irqVars, Refs, IrqTypes, IrqQuiet
  <2>2. QED
    BY <1>7, <2>1 DEF irqVars, IrqInv, amdgpu_irq_enabled, UninstalledStaysOff
<1>8. QED
  BY <1>1, <1>2, <1>3, <1>4, <1>5, <1>6, <1>7 DEF NextIrq, IrqStep

\* For every number of users: once the calls of amdgpu_irq_update are through, the
\* interrupt is enabled exactly when somebody has a reference, and after
\* amdgpu_irq_uninstall it is never enabled again.
THEOREM IrqFollows == SpecIrq => [](HardwareFollowsUsers /\ UninstalledStaysOff)
<1>1. IrqInv => HardwareFollowsUsers /\ UninstalledStaysOff
  BY IrqInvFollows DEF IrqInv
<1>2. QED
  BY <1>1, IrqInvInit, IrqInvStep, PTL DEF SpecIrq

-----------------------------------------------------------------------------
(* Events of KFD (KfdEvents).                                              *)

\* The side of the interrupts: after kfd_interrupt_exit nothing enters the fifo, and
\* what is in it has the work item on its way.
FifoInv ==
    /\ ih_fifo \in Seq(Process) /\ irqs \in Seq(Process) /\ slot \subseteq Event
    /\ exit # "no" => ~ interrupts_active
    /\ ih_fifo # <<>> => work_pending \/ worker \in {"loop"} \cup Process
    /\ FifoFreedLast
    /\ SignalOnItsWay

\* The side of the threads: one that waits is on the list of every event that exists
\* and has not activated it.
Listed ==
    \A w \in Waiter : waitpc[w] # "out" =>
        \A e \in Range(Wait(w).events) \cap alive : <<w, e>> \in activated \cup waiters

WaitInv ==
    /\ kfdLoad \in KfdLoads
    /\ waitpc \in [Waiter -> {"out", "loop", "test", "schedule", "free"}]
    /\ alive \subseteq Event /\ signaled \subseteq alive
    /\ Listed
    /\ SignaledEventsActivate
    /\ NoSoftHang

-----------------------------------------------------------------------------
\* What the fifo and the interrupts on their way contain after a step.
LEMMA QueuedAppend ==
    ASSUME NEW S, NEW s \in Seq(S), NEW x \in S, NEW p
    PROVE  Queued(Append(s, x), p) <=> Queued(s, p) \/ x = p
<1>1. Len(Append(s, x)) = Len(s) + 1 /\ Len(s) \in Nat
  BY SMTT(30)
<1>2. \A i \in 1..Len(s) : Append(s, x)[i] = s[i]
  BY SMTT(30)
<1>3. Append(s, x)[Len(s) + 1] = x
  BY SMTT(30)
<1>4. QED
  BY <1>1, <1>2, <1>3, SMTT(30) DEF Queued

LEMMA QueuedTail ==
    ASSUME NEW S, NEW s \in Seq(S), s # <<>>, NEW p
    PROVE  Queued(s, p) <=> Queued(Tail(s), p) \/ Head(s) = p
<1>1. Len(Tail(s)) = Len(s) - 1 /\ Len(s) \in Nat \ {0}
  BY SMTT(30)
<1>2. \A i \in 1..(Len(s) - 1) : Tail(s)[i] = s[i + 1]
  BY SMTT(30)
<1>3. Head(s) = s[1]
  BY SMTT(30)
<1>4. ASSUME NEW i \in 1..Len(s), s[i] = p, i # 1
      PROVE  Queued(Tail(s), p)
  <2>1. i - 1 \in 1..(Len(s) - 1) /\ Tail(s)[i - 1] = p
    BY <1>1, <1>2, <1>4, SMTT(30)
  <2>2. QED
    BY <1>1, <2>1 DEF Queued
<1>5. ASSUME NEW i \in 1..(Len(s) - 1), Tail(s)[i] = p
      PROVE  Queued(s, p)
  <2>1. i + 1 \in 1..Len(s) /\ s[i + 1] = p
    BY <1>1, <1>2, <1>5, SMTT(30)
  <2>2. QED
    BY <2>1 DEF Queued
<1>6. QED
  BY <1>1, <1>3, <1>4, <1>5, SMTT(30) DEF Queued

-----------------------------------------------------------------------------
\* The interrupts' side.

Way(e) ==
    LET p == EventProcess[e] IN
    \/ p \in missed
    \/ Queued(irqs, p)
    \/ worker = p
    \/ Queued(ih_fifo, p) /\ (work_pending \/ worker \in {"loop"} \cup Process)

LEMMA FifoInit == InitKfd => FifoInv
  BY KfdAssumption, SMTT(30) DEF InitKfd, FifoInv, FifoFreedLast, SignalOnItsWay

\* Steps of the threads and of the CPU's side of events.
LEMMA FifoSame ==
    FifoInv /\ UNCHANGED irqSide /\ alive' \subseteq alive => FifoInv'
  BY SMTT(30) DEF FifoInv, irqSide, FifoFreedLast, SignalOnItsWay

LEMMA FifoEnqueue == FifoInv /\ kgd2kfd_interrupt => FifoInv'
<1> SUFFICES ASSUME FifoInv, kgd2kfd_interrupt PROVE FifoInv'
  OBVIOUS
<1> USE DEF FifoInv, kgd2kfd_interrupt
<1>0. /\ irqs # <<>> /\ irqs' = Tail(irqs) /\ Head(irqs) \in Process /\ Tail(irqs) \in Seq(Process)
      /\ UNCHANGED <<interrupts_active, exit, worker, slot>> /\ alive' = alive
  BY SMTT(30) DEF eventSide
<1>1. CASE /\ interrupts_active
           /\ ih_fifo' = Append(ih_fifo, Head(irqs)) /\ work_pending' = TRUE /\ UNCHANGED missed
  <2>1. ih_fifo' \in Seq(Process)
    BY <1>0, <1>1, SMTT(30)
  <2>2. ASSUME NEW e \in slot \cap alive, Way(e) PROVE Way(e)'
    <3>1. Queued(ih_fifo', EventProcess[e]) <=>
              Queued(ih_fifo, EventProcess[e]) \/ Head(irqs) = EventProcess[e]
      BY <1>0, <1>1, QueuedAppend
    <3>2. Queued(irqs, EventProcess[e]) <=>
              Queued(irqs', EventProcess[e]) \/ Head(irqs) = EventProcess[e]
      BY <1>0, QueuedTail, SMTT(30)
    <3>3. QED
      BY <1>0, <1>1, <2>2, <3>1, <3>2 DEF Way
  <2>3. SignalOnItsWay'
    BY <1>0, <2>2 DEF SignalOnItsWay, Way
  <2>4. QED
    BY <1>0, <1>1, <2>1, <2>3 DEF FifoFreedLast
<1>2. CASE missed' = Misses(Head(irqs)) /\ UNCHANGED <<ih_fifo, work_pending>>
  <2>2. ASSUME NEW e \in slot \cap alive, Way(e) PROVE Way(e)'
    <3>2. Queued(irqs, EventProcess[e]) <=>
              Queued(irqs', EventProcess[e]) \/ Head(irqs) = EventProcess[e]
      BY <1>0, QueuedTail, SMTT(30)
    <3>3. Queued(ih_fifo, EventProcess[e]) => ih_fifo # <<>>
      BY SMTT(30) DEF Queued
    <3>4. QED
      BY <1>0, <1>2, <2>2, <3>2, <3>3 DEF Way, Misses
  <2>3. SignalOnItsWay'
    BY <1>0, <2>2 DEF SignalOnItsWay, Way
  <2>4. QED
    BY <1>0, <1>2, <2>3, SMTT(30) DEF FifoFreedLast
<1>3. QED
  BY <1>1, <1>2

LEMMA FifoDequeue == FifoInv /\ dequeue_ih_ring_entry => FifoInv'
<1> SUFFICES ASSUME FifoInv, dequeue_ih_ring_entry PROVE FifoInv'
  OBVIOUS
<1> USE DEF FifoInv, dequeue_ih_ring_entry
<1>0. /\ worker = "loop" /\ alive' = alive
      /\ UNCHANGED <<interrupts_active, exit, work_pending, slot, irqs, missed>>
  BY DEF eventSide
<1>1. CASE ih_fifo = <<>> /\ worker' = "done" /\ UNCHANGED ih_fifo
  <2>1. \A p : ~ Queued(ih_fifo, p)
    BY <1>1, SMTT(30) DEF Queued
  <2>2. ASSUME NEW e \in slot \cap alive, Way(e) PROVE Way(e)'
    <3>1. EventProcess[e] # "loop"
      BY KfdAssumption DEF Process
    <3>2. QED
      BY <1>0, <1>1, <2>1, <2>2, <3>1 DEF Way
  <2>3. SignalOnItsWay'
    BY <1>0, <2>2 DEF SignalOnItsWay, Way
  <2>4. QED
    BY <1>0, <1>1, <2>3, SMTT(30) DEF FifoFreedLast
<1>2. CASE ih_fifo # <<>> /\ worker' = Head(ih_fifo) /\ ih_fifo' = Tail(ih_fifo)
  <2>1. worker' \in Process /\ ih_fifo' \in Seq(Process)
    BY <1>2, SMTT(30)
  <2>2. ASSUME NEW e \in slot \cap alive, Way(e) PROVE Way(e)'
    <3>1. Queued(ih_fifo, EventProcess[e]) <=>
              Queued(ih_fifo', EventProcess[e]) \/ Head(ih_fifo) = EventProcess[e]
      BY <1>2, QueuedTail
    <3>2. EventProcess[e] # "loop"
      BY KfdAssumption DEF Process
    <3>3. QED
      BY <1>0, <1>2, <2>1, <2>2, <3>1, <3>2 DEF Way
  <2>3. SignalOnItsWay'
    BY <1>0, <2>2 DEF SignalOnItsWay, Way
  <2>4. QED
    BY <1>0, <1>2, <2>1, <2>3, SMTT(30) DEF FifoFreedLast
<1>3. QED
  BY <1>1, <1>2

LEMMA FifoSignal == FifoInv /\ kfd_signal_event_interrupt => FifoInv'
<1> SUFFICES ASSUME FifoInv, kfd_signal_event_interrupt PROVE FifoInv'
  OBVIOUS
<1>0. /\ worker \in Process /\ worker' = "loop"
      /\ slot' = slot \ {e \in slot \cap alive : EventProcess[e] = worker}
      /\ UNCHANGED <<ih_fifo, interrupts_active, exit, work_pending, irqs, missed, alive>>
  BY DEF kfd_signal_event_interrupt
<1>1. exit # "freed"
  BY <1>0, KfdAssumption DEF FifoInv, FifoFreedLast
<1>2. ASSUME NEW e \in slot' \cap alive', Way(e) PROVE Way(e)'
  BY <1>0, <1>2 DEF Way
<1>3. SignalOnItsWay'
  BY <1>0, <1>2 DEF FifoInv, SignalOnItsWay, Way
<1>4. QED
  BY <1>0, <1>1, <1>3 DEF FifoInv, FifoFreedLast

LEMMA FifoGpu == ASSUME NEW e \in Event PROVE FifoInv /\ GpuWritesSlot(e) => FifoInv'
<1> SUFFICES ASSUME FifoInv, GpuWritesSlot(e) PROVE FifoInv'
  OBVIOUS
<1>0. /\ slot' = slot \cup {e} /\ irqs' = Append(irqs, EventProcess[e])
      /\ UNCHANGED <<ih_fifo, interrupts_active, exit, work_pending, worker, missed, alive>>
  BY DEF GpuWritesSlot, eventSide
<1>1. irqs' \in Seq(Process) /\ EventProcess[e] \in Process
  BY <1>0, SMTT(30) DEF FifoInv, Process
<1>2. \A p : Queued(irqs', p) <=> Queued(irqs, p) \/ EventProcess[e] = p
  BY <1>0, <1>1, QueuedAppend, SMTT(30) DEF FifoInv
<1>3. SignalOnItsWay'
  BY <1>0, <1>2 DEF FifoInv, SignalOnItsWay
<1>4. QED
  BY <1>0, <1>1, <1>3 DEF FifoInv, FifoFreedLast

\* The work item starts and ends, and kfd_interrupt_exit.
LEMMA FifoWork ==
    FifoInv /\ (work_starts \/ work_ends \/ exit_deactivate \/ exit_free) => FifoInv'
<1> SUFFICES ASSUME FifoInv PROVE (work_starts \/ work_ends \/ exit_deactivate \/ exit_free) => FifoInv'
  OBVIOUS
<1>0. \A e \in slot : EventProcess[e] \notin {"idle", "done"}
  BY KfdAssumption DEF FifoInv, Process
<1>1. CASE work_starts
  BY <1>0, <1>1 DEF FifoInv, work_starts, eventSide, FifoFreedLast, SignalOnItsWay
<1>2. CASE work_ends
  <2>1. worker = "done" /\ worker \notin {"loop"} \cup Process
    BY <1>2, KfdAssumption DEF work_ends
  <2>2. SignalOnItsWay'
    BY <1>0, <1>2, <2>1 DEF FifoInv, work_ends, eventSide, SignalOnItsWay
  <2>3. QED
    BY <1>2, <2>1, <2>2 DEF FifoInv, work_ends, eventSide, FifoFreedLast
<1>3. CASE exit_deactivate
  BY <1>3 DEF FifoInv, exit_deactivate, eventSide, FifoFreedLast, SignalOnItsWay
<1>4. CASE exit_free
  BY <1>4 DEF FifoInv, exit_free, eventSide, FifoFreedLast, SignalOnItsWay
<1>5. QED
  BY <1>1, <1>2, <1>3, <1>4

LEMMA FifoStep == FifoInv /\ [NextKfd]_kfdVars => FifoInv'
<1> SUFFICES ASSUME FifoInv, [NextKfd]_kfdVars PROVE FifoInv'
  OBVIOUS
<1>1. CASE UNCHANGED kfdVars
  BY <1>1, FifoSame DEF kfdVars, irqSide
<1>2. CASE IrqSide \/ exit_deactivate
  BY <1>2, FifoEnqueue, FifoDequeue, FifoSignal, FifoWork DEF IrqSide
<1>3. ASSUME NEW e \in Event, GpuWritesSlot(e) PROVE FifoInv'
  BY <1>3, FifoGpu
<1>4. ASSUME NEW e \in Event, kfd_set_event(e) \/ kfd_reset_event(e) \/ kfd_event_destroy(e)
      PROVE  FifoInv'
  <2>1. UNCHANGED irqSide /\ alive' \subseteq alive
    BY <1>4 DEF kfd_set_event, kfd_reset_event, kfd_event_destroy
  <2>2. QED
    BY <2>1, FifoSame
<1>5. ASSUME NEW w \in Waiter, wait_init(w) \/ WaitStep(w) \/ signal_pending(w)
      PROVE  FifoInv'
  <2>1. UNCHANGED irqSide /\ alive' = alive
    BY <1>5 DEF wait_init, WaitStep, signal_pending, set_interruptible, wait_test, wait_woken,
                wait_expires, free_waiters, eventSide
  <2>2. QED
    BY <2>1, FifoSame
<1>6. QED
  BY <1>1, <1>2, <1>3, <1>4, <1>5 DEF NextKfd

-----------------------------------------------------------------------------
\* The threads' side.

\* test_event_condition depends on the waiters of its own thread only.
LEMMA OwnCondition ==
    ASSUME NEW w, NEW A, NEW B, \A e : <<w, e>> \in A <=> <<w, e>> \in B
    PROVE  test_event_condition(w, A) = test_event_condition(w, B)
<1>1. {e \in Range(Wait(w).events) : <<w, e>> \in A} = {e \in Range(Wait(w).events) : <<w, e>> \in B}
  OBVIOUS
<1>2. QED
  BY <1>1 DEF test_event_condition

LEMMA WaitInit == InitKfd => WaitInv
  BY DEF InitKfd, WaitInv, Listed, SignaledEventsActivate, NoSoftHang

\* Wait(w) and the condition are the same after a step.
LEMMA SameLoad ==
    ASSUME kfdLoad' = kfdLoad
    PROVE  /\ \A w : Wait(w)' = Wait(w)
           /\ \A w : test_event_condition(w, activated)' = test_event_condition(w, activated')
  BY DEF Wait, test_event_condition

LEMMA WaitSame ==
    WaitInv /\ UNCHANGED <<eventSide, kfdLoad, waitpc>> => WaitInv'
<1> SUFFICES ASSUME WaitInv, UNCHANGED <<eventSide, kfdLoad, waitpc>> PROVE WaitInv'
  OBVIOUS
<1>1. UNCHANGED <<alive, signaled, activated, waiters, runnable, kfdLoad, waitpc>>
  BY DEF eventSide
<1>2. QED
  BY <1>1, SameLoad DEF WaitInv, Listed, SignaledEventsActivate, NoSoftHang

\* set_event activates who is listed, and wakes whom it activates.
LEMMA WaitSetEvent ==
    ASSUME NEW S \in SUBSET alive
    PROVE  WaitInv /\ set_event(S) /\ UNCHANGED <<kfdLoad, waitpc, alive>> => WaitInv'
<1> SUFFICES ASSUME WaitInv, set_event(S), UNCHANGED <<kfdLoad, waitpc, alive>> PROVE WaitInv'
  OBVIOUS
<1> DEFINE woken == {u \in waiters : u[2] \in S}
<1>0. /\ signaled' \subseteq signaled \cup S
      /\ activated' = activated \cup woken /\ waiters' = waiters \ woken
      /\ runnable' = runnable \cup {u[1] : u \in woken}
  BY DEF set_event
<1>1. \A w, e : <<w, e>> \in waiters /\ e \in S => <<w, e>> \in woken /\ w \in runnable'
  <2> SUFFICES ASSUME NEW w, NEW e, <<w, e>> \in waiters, e \in S
               PROVE  <<w, e>> \in woken /\ w \in runnable'
    OBVIOUS
  <2>1. <<w, e>>[1] = w /\ <<w, e>>[2] = e
    OBVIOUS
  <2>2. QED
    BY <1>0, <2>1
<1>2. \A w, e : <<w, e>> \in woken => w \in runnable'
  <2> SUFFICES ASSUME NEW w, NEW e, <<w, e>> \in woken PROVE w \in runnable'
    OBVIOUS
  <2>1. <<w, e>>[1] = w
    OBVIOUS
  <2>2. QED
    BY <1>0, <2>1
<1> HIDE DEF woken
<1>3. Listed'
  BY <1>0, SameLoad DEF WaitInv, Listed
<1>4. SignaledEventsActivate'
  <2> SUFFICES ASSUME NEW w \in Waiter, waitpc[w] # "out",
                      NEW e \in Range(Wait(w).events) \cap signaled'
               PROVE  <<w, e>> \in activated'
    BY SameLoad DEF SignaledEventsActivate
  <2>1. CASE e \in signaled
    BY <1>0, <2>1 DEF WaitInv, SignaledEventsActivate
  <2>2. CASE e \in S
    BY <1>0, <1>1, <2>2 DEF WaitInv, Listed
  <2>3. QED
    BY <1>0, <2>1, <2>2
<1>5. NoSoftHang'
  <2> SUFFICES ASSUME NEW w \in Waiter, waitpc[w] = "schedule", w \notin runnable',
                      test_event_condition(w, activated')
               PROVE  FALSE
    BY SameLoad DEF NoSoftHang
  <2>1. \A e : <<w, e>> \in activated <=> <<w, e>> \in activated'
    BY <1>0, <1>2
  <2>2. test_event_condition(w, activated)
    BY <2>1, OwnCondition
  <2>3. QED
    BY <1>0, <2>2 DEF WaitInv, NoSoftHang
<1>6. QED
  BY <1>0, <1>3, <1>4, <1>5 DEF WaitInv

LEMMA WaitReset ==
    ASSUME NEW e \in Event
    PROVE  WaitInv /\ (kfd_reset_event(e) \/ kfd_event_destroy(e)) => WaitInv'
<1> SUFFICES ASSUME WaitInv, kfd_reset_event(e) \/ kfd_event_destroy(e) PROVE WaitInv'
  OBVIOUS
<1>0. /\ UNCHANGED <<kfdLoad, waitpc, activated, runnable>>
      /\ signaled' = signaled \ {e}
      /\ \/ UNCHANGED <<alive, waiters>>
         \/ alive' = alive \ {e} /\ waiters' = {u \in waiters : u[2] # e}
  BY DEF kfd_reset_event, kfd_event_destroy, waitSide
<1>1. Listed'
  <2> SUFFICES ASSUME NEW w \in Waiter, waitpc[w] # "out",
                      NEW f \in Range(Wait(w).events) \cap alive'
               PROVE  <<w, f>> \in activated \cup waiters'
    BY <1>0, SameLoad DEF Listed
  <2>1. <<w, f>>[2] = f
    OBVIOUS
  <2>2. QED
    BY <1>0, <2>1 DEF WaitInv, Listed
<1>2. QED
  BY <1>0, <1>1, SameLoad DEF WaitInv, SignaledEventsActivate, NoSoftHang

\* A sequence that is read to its end.
LEMMA WholeSequence ==
    ASSUME NEW S, NEW s \in Seq(S)
    PROVE  SubSeq(s, 1, Min({} \cup {Len(s) + 1}) - 1) = s
<1>1. Len(s) \in Nat
  BY SMTT(30)
<1>2. Min({} \cup {Len(s) + 1}) = Len(s) + 1
  BY <1>1, SMTT(30) DEF Min
<1>3. Min({} \cup {Len(s) + 1}) - 1 = Len(s)
  BY <1>1, <1>2, SMTT(30)
<1>4. SubSeq(s, 1, Len(s)) = s
  BY SMTT(30)
<1>5. QED
  BY <1>3, <1>4

\* A thread that begins to wait takes what is signaled and is listed for the rest.
LEMMA WaitBegins == ASSUME NEW w \in Waiter PROVE WaitInv /\ wait_init(w) => WaitInv'
<1> SUFFICES ASSUME WaitInv, wait_init(w) PROVE WaitInv'
  OBVIOUS
<1> DEFINE events == Wait(w).events
           missing == {i \in DOMAIN events : events[i] \notin alive}
           read == Range(SubSeq(events, 1, Min(missing \cup {Len(events) + 1}) - 1))
           act == {<<w, e>> : e \in read \cap signaled}
<1>0. /\ UNCHANGED <<kfdLoad, alive, runnable>>
      /\ signaled' = signaled \ (read \cap AutoReset)
      /\ \/ UNCHANGED <<waitpc, activated, waiters>>
         \/ /\ missing = {}
            /\ waitpc' = [waitpc EXCEPT ![w] = "loop"]
            /\ activated' = activated \cup act
            /\ waiters' = waiters \cup ({<<w, e>> : e \in read} \ act)
  BY DEF wait_init, WaitGoto
<1>1. events \in Seq(Event)
  BY KfdAssumption DEF WaitInv, Wait
<1>2. missing = {} => read = Range(events)
  BY <1>1, WholeSequence
<1>3. \A e : /\ <<w, e>> \in act <=> e \in read \cap signaled
             /\ e \in read => <<w, e>> \in {<<w, f>> : f \in read}
  OBVIOUS
<1>4. \A v, e : v # w => <<v, e>> \notin act
  OBVIOUS
<1> HIDE DEF missing, read, act
<1>5. CASE UNCHANGED <<waitpc, activated, waiters>>
  BY <1>0, <1>5, SameLoad DEF WaitInv, Listed, SignaledEventsActivate, NoSoftHang
<1>6. CASE /\ missing = {}
           /\ waitpc' = [waitpc EXCEPT ![w] = "loop"]
           /\ activated' = activated \cup act
           /\ waiters' = waiters \cup ({<<w, e>> : e \in read} \ act)
  <2>0. /\ waitpc' \in [Waiter -> {"out", "loop", "test", "schedule", "free"}]
        /\ waitpc'[w] = "loop" /\ \A v \in Waiter \ {w} : waitpc'[v] = waitpc[v]
    BY <1>6 DEF WaitInv
  <2>1. Listed'
    <3> SUFFICES ASSUME NEW v \in Waiter, waitpc'[v] # "out",
                        NEW e \in Range(Wait(v).events) \cap alive
                 PROVE  <<v, e>> \in activated' \cup waiters'
      BY <1>0, SameLoad DEF Listed
    <3>1. CASE v = w
      BY <1>2, <1>3, <1>6, <3>1
    <3>2. CASE v # w
      BY <1>6, <2>0, <3>2 DEF WaitInv, Listed
    <3>3. QED
      BY <3>1, <3>2
  <2>2. SignaledEventsActivate'
    <3> SUFFICES ASSUME NEW v \in Waiter, waitpc'[v] # "out",
                        NEW e \in Range(Wait(v).events) \cap signaled
                 PROVE  <<v, e>> \in activated'
      BY <1>0, SameLoad DEF SignaledEventsActivate
    <3>1. CASE v = w
      BY <1>2, <1>3, <1>6, <3>1
    <3>2. CASE v # w
      BY <1>6, <2>0, <3>2 DEF WaitInv, SignaledEventsActivate
    <3>3. QED
      BY <3>1, <3>2
  <2>3. NoSoftHang'
    <3> SUFFICES ASSUME NEW v \in Waiter, waitpc'[v] = "schedule",
                        test_event_condition(v, activated')
                 PROVE  v \in runnable
      BY <1>0, SameLoad DEF NoSoftHang
    <3>1. v # w
      BY <2>0
    <3>2. test_event_condition(v, activated)
      BY <1>4, <1>6, <3>1, OwnCondition
    <3>3. QED
      BY <2>0, <3>1, <3>2 DEF WaitInv, NoSoftHang
  <2>4. QED
    BY <1>0, <2>0, <2>1, <2>2, <2>3 DEF WaitInv
<1>7. QED
  BY <1>0, <1>5, <1>6

\* A thread moves on within the loop: it goes to sleep only if its condition is false
\* or if it has been woken since it set its task state.
LEMMA WaitMoves ==
    ASSUME NEW w \in Waiter, NEW l \in {"loop", "test", "schedule", "free"},
           WaitInv, waitpc[w] # "out", waitpc' = [waitpc EXCEPT ![w] = l],
           UNCHANGED <<kfdLoad, alive, signaled, activated, waiters>>,
           runnable \ {w} \subseteq runnable',
           (l = "schedule" /\ test_event_condition(w, activated)) => w \in runnable'
    PROVE  WaitInv'
<1>0. /\ waitpc' \in [Waiter -> {"out", "loop", "test", "schedule", "free"}]
      /\ waitpc'[w] = l /\ \A v \in Waiter \ {w} : waitpc'[v] = waitpc[v]
  BY DEF WaitInv
<1>1. \A v \in Waiter : waitpc'[v] # "out" => waitpc[v] # "out"
  BY <1>0
<1>2. Listed' /\ SignaledEventsActivate'
  BY <1>1, SameLoad DEF WaitInv, Listed, SignaledEventsActivate
<1>3. NoSoftHang'
  BY <1>0, SameLoad DEF WaitInv, NoSoftHang
<1>4. QED
  BY <1>0, <1>2, <1>3 DEF WaitInv

LEMMA WaitFrees == ASSUME NEW w \in Waiter PROVE WaitInv /\ free_waiters(w) => WaitInv'
<1> SUFFICES ASSUME WaitInv, free_waiters(w) PROVE WaitInv'
  OBVIOUS
<1>0. /\ UNCHANGED <<kfdLoad, alive, signaled, runnable>>
      /\ waitpc' = [waitpc EXCEPT ![w] = "out"]
      /\ waiters' = {u \in waiters : u[1] # w} /\ activated' = {u \in activated : u[1] # w}
  BY DEF free_waiters, WaitGoto
<1>1. /\ waitpc' \in [Waiter -> {"out", "loop", "test", "schedule", "free"}]
      /\ waitpc'[w] = "out" /\ \A v \in Waiter \ {w} : waitpc'[v] = waitpc[v]
  BY <1>0 DEF WaitInv
<1>2. ASSUME NEW v \in Waiter \ {w}, NEW e
      PROVE  /\ <<v, e>> \in waiters' <=> <<v, e>> \in waiters
             /\ <<v, e>> \in activated' <=> <<v, e>> \in activated
  <2>1. <<v, e>>[1] = v
    OBVIOUS
  <2>2. QED
    BY <1>0, <2>1
<1>3. Listed' /\ SignaledEventsActivate'
  BY <1>0, <1>1, <1>2, SameLoad DEF WaitInv, Listed, SignaledEventsActivate
<1>4. NoSoftHang'
  <2> SUFFICES ASSUME NEW v \in Waiter, waitpc'[v] = "schedule",
                      test_event_condition(v, activated')
               PROVE  v \in runnable
    BY <1>0, SameLoad DEF NoSoftHang
  <2>1. v # w
    BY <1>1
  <2>2. test_event_condition(v, activated)
    BY <1>2, <2>1, OwnCondition
  <2>3. QED
    BY <1>1, <2>1, <2>2 DEF WaitInv, NoSoftHang
<1>5. QED
  BY <1>0, <1>1, <1>3, <1>4 DEF WaitInv

LEMMA WaitStepKeeps ==
    ASSUME NEW w \in Waiter
    PROVE  WaitInv /\ (WaitStep(w) \/ signal_pending(w)) => WaitInv'
<1> SUFFICES ASSUME WaitInv, WaitStep(w) \/ signal_pending(w) PROVE WaitInv'
  OBVIOUS
<1>1. CASE set_interruptible(w)
  BY <1>1, WaitMoves DEF set_interruptible, WaitGoto
<1>2. CASE wait_test(w)
  <2>0. waitpc[w] = "test" /\ UNCHANGED <<kfdLoad, alive, signaled, activated, waiters>>
    BY <1>2 DEF wait_test
  <2>1. CASE waitpc' = [waitpc EXCEPT ![w] = "free"] /\ runnable' = runnable \cup {w}
    BY <2>0, <2>1, WaitMoves
  <2>2. CASE /\ ~ test_event_condition(w, activated)
             /\ waitpc' = [waitpc EXCEPT ![w] = "schedule"] /\ UNCHANGED runnable
    BY <2>0, <2>2, WaitMoves
  <2>3. QED
    BY <1>2, <2>1, <2>2 DEF wait_test, WaitGoto
<1>3. CASE wait_woken(w)
  BY <1>3, WaitMoves DEF wait_woken, WaitGoto, eventSide
<1>4. CASE wait_expires(w)
  BY <1>4, WaitMoves DEF wait_expires, WaitGoto
<1>5. CASE signal_pending(w)
  BY <1>5, WaitMoves DEF signal_pending, WaitGoto
<1>6. CASE free_waiters(w)
  BY <1>6, WaitFrees
<1>7. QED
  BY <1>1, <1>2, <1>3, <1>4, <1>5, <1>6 DEF WaitStep

LEMMA WaitNext == WaitInv /\ [NextKfd]_kfdVars => WaitInv'
<1> SUFFICES ASSUME WaitInv, [NextKfd]_kfdVars PROVE WaitInv'
  OBVIOUS
<1>1. CASE \/ UNCHANGED kfdVars \/ kgd2kfd_interrupt \/ work_starts \/ dequeue_ih_ring_entry
           \/ work_ends \/ exit_free \/ exit_deactivate \/ \E e \in Event : GpuWritesSlot(e)
  <2>1. UNCHANGED <<eventSide, kfdLoad, waitpc>>
    BY <1>1 DEF kfdVars, kgd2kfd_interrupt, work_starts, dequeue_ih_ring_entry, work_ends,
                exit_free, exit_deactivate, GpuWritesSlot, eventSide, waitSide
  <2>2. QED
    BY <2>1, WaitSame
<1>2. CASE kfd_signal_event_interrupt
  <2> DEFINE S == {e \in slot \cap alive : EventProcess[e] = worker}
  <2>1. S \in SUBSET alive /\ set_event(S) /\ UNCHANGED <<kfdLoad, waitpc, alive>>
    BY <1>2 DEF kfd_signal_event_interrupt, waitSide
  <2>2. QED
    BY <2>1, WaitSetEvent
<1>3. ASSUME NEW e \in Event, kfd_set_event(e) PROVE WaitInv'
  <2>1. {e} \in SUBSET alive /\ set_event({e}) /\ UNCHANGED <<kfdLoad, waitpc, alive>>
    BY <1>3 DEF kfd_set_event, waitSide
  <2>2. QED
    BY <2>1, WaitSetEvent
<1>4. ASSUME NEW e \in Event, kfd_reset_event(e) \/ kfd_event_destroy(e) PROVE WaitInv'
  BY <1>4, WaitReset
<1>5. ASSUME NEW w \in Waiter, wait_init(w) \/ WaitStep(w) \/ signal_pending(w) PROVE WaitInv'
  BY <1>5, WaitBegins, WaitStepKeeps
<1>6. QED
  BY <1>1, <1>2, <1>3, <1>4, <1>5 DEF NextKfd, IrqSide

-----------------------------------------------------------------------------
\* A signal that the GPU wrote to a slot is on its way to its event unless an interrupt
\* was dropped with no entry of its process left, kfifo_free comes after the last use
\* of the fifo, no thread waits for an event that is signaled, and none sleeps although
\* its condition holds.
THEOREM KfdSafe ==
    SpecKfd => [](SignalOnItsWay /\ FifoFreedLast /\ SignaledEventsActivate /\ NoSoftHang)
<1>1. InitKfd => FifoInv /\ WaitInv
  BY FifoInit, WaitInit
<1>2. (FifoInv /\ WaitInv) /\ [NextKfd]_kfdVars => (FifoInv /\ WaitInv)'
  BY FifoStep, WaitNext
<1>3. FifoInv /\ WaitInv => SignalOnItsWay /\ FifoFreedLast /\ SignaledEventsActivate /\ NoSoftHang
  BY DEF FifoInv, WaitInv
<1>4. QED
  BY <1>1, <1>2, <1>3, PTL DEF SpecKfd
=============================================================================

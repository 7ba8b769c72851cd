----------------------------- MODULE KfdEvents ------------------------------
(***************************************************************************)
(* From an interrupt of a compute queue to the thread that waits for it:   *)
(* the fifo between the interrupt handler and a work item                  *)
(* (amdkfd/kfd_interrupt.c), and the events that the work item sets and    *)
(* that threads wait on (amdkfd/kfd_events.c).                             *)
(*                                                                         *)
(* The GPU writes 1 to the slot of an event, then sends an interrupt that  *)
(* names the process only (kfd_int_process_v9.c), so the work item looks   *)
(* at all slots of the process.  What happens under event_mutex is one     *)
(* step.  Events exist from the start and may be destroyed; a thread's     *)
(* list names an event once.                                               *)
(***************************************************************************)
EXTENDS Integers, Sequences, FiniteSetsExt

CONSTANTS
    Event,
    AutoReset,      \* the events with auto_reset
    EventProcess,   \* the process of an event
    Waiter,
    KfdLoads,       \* the loads, [wait, signals, sets]: what the threads wait on, a
                    \* function from Waiter to [events, all, timeout, n] (a sequence; are
                    \* all of them needed; "zero", "finite" or "infinite"; how often), and
                    \* bounds: signals of the GPU; kfd_set_event, kfd_reset_event and
                    \* kfd_event_destroy together
    FifoSize        \* KFD_IH_NUM_ENTRIES

Process == {EventProcess[e] : e \in Event}

ASSUME KfdAssumption ==
    /\ AutoReset \subseteq Event /\ FifoSize \in Nat \ {0}
    /\ Process \cap {"idle", "loop", "done"} = {}
    /\ \A l \in KfdLoads : \A w \in Waiter : l.wait[w].events \in Seq(Event)

VARIABLES
    ih_fifo, interrupts_active,     \* kfd->...
    exit,           \* kfd_interrupt_exit: "no", "flush" or "freed"
    work_pending, worker,           \* the work item is queued; "idle", "loop", "done"
                    \* (the fifo was empty) or the process of the entry it handles
    slot,           \* the events whose slot is signaled
    irqs,           \* interrupts on their way to the handler: one per element
    missed,         \* the processes of interrupts dropped with no entry of theirs left
    alive,          \* the events that exist
    signaled,       \* the events with ev->signaled
    kfdLoad,        \* one of KfdLoads
    waitpc,         \* where a thread is in kfd_wait_on_events
    runnable,       \* the threads whose task state is TASK_RUNNING
    activated, waiters,     \* <<thread, event>> of event_waiters; and on ev->waiters
    expired,        \* threads whose timeout is 0
    nsignals, nsets, nwaits

kfdVars == <<ih_fifo, interrupts_active, exit, work_pending, worker, slot, irqs, missed, alive,
             signaled, kfdLoad, waitpc, runnable, activated, waiters, expired,
             nsignals, nsets, nwaits>>

irqSide == <<ih_fifo, interrupts_active, exit, work_pending, worker, slot, irqs, missed, nsignals>>
eventSide == <<alive, signaled, activated, waiters, runnable>>
waitSide == <<kfdLoad, waitpc, expired, nwaits>>

Wait(w) == kfdLoad.wait[w]

InitKfd ==
    /\ ih_fifo = <<>> /\ interrupts_active = TRUE /\ exit = "no"
    /\ work_pending = FALSE /\ worker = "idle"
    /\ slot = {} /\ irqs = <<>> /\ missed = {}
    /\ alive = Event /\ signaled = {}
    /\ kfdLoad \in KfdLoads
    /\ waitpc = [w \in Waiter |-> "out"]
    /\ runnable = Waiter
    /\ activated = {} /\ waiters = {} /\ expired = {}
    /\ nsignals = 0 /\ nsets = 0 /\ nwaits = [w \in Waiter |-> 0]

-----------------------------------------------------------------------------
(* Interrupts: the GPU, the handler, the work item.                        *)

GpuWritesSlot(e) ==
    /\ e \in alive /\ nsignals < kfdLoad.signals /\ exit = "no"
    /\ slot' = slot \cup {e}
    /\ irqs' = Append(irqs, EventProcess[e])
    /\ nsignals' = nsignals + 1
    /\ UNCHANGED <<ih_fifo, interrupts_active, exit, work_pending, worker, missed,
                   eventSide, waitSide, nsets>>

Queued(s, p) == \E i \in 1..Len(s) : s[i] = p

Misses(p) == IF Queued(ih_fifo, p) \/ worker = p THEN missed ELSE missed \cup {p}

queue_if_idle ==
    /\ irqs # <<>>
    /\ irqs' = Tail(irqs)
    /\ \/ /\ interrupts_active /\ Len(ih_fifo) < FifoSize
          /\ ih_fifo' = Append(ih_fifo, Head(irqs))
          /\ work_pending' = (work_pending \/ worker = "idle")
          /\ UNCHANGED missed
       \/ /\ ~ interrupts_active \/ Len(ih_fifo) = FifoSize
          /\ missed' = Misses(Head(irqs))
          /\ UNCHANGED <<ih_fifo, work_pending>>
    /\ UNCHANGED <<interrupts_active, exit, worker, slot, nsignals, eventSide, waitSide, nsets>>

\* kgd2kfd_interrupt: an entry goes to the fifo if there is room and then the work
\* item is queued, which has no effect while it is pending.
kgd2kfd_interrupt ==
    /\ irqs # <<>>
    /\ irqs' = Tail(irqs)
    /\ \/ /\ interrupts_active /\ Len(ih_fifo) < FifoSize
          /\ ih_fifo' = Append(ih_fifo, Head(irqs))
          /\ work_pending' = TRUE
          /\ UNCHANGED missed
       \/ /\ ~ interrupts_active \/ Len(ih_fifo) = FifoSize
          /\ missed' = Misses(Head(irqs))
          /\ UNCHANGED <<ih_fifo, work_pending>>
    /\ UNCHANGED <<interrupts_active, exit, worker, slot, nsignals, eventSide, waitSide, nsets>>

work_starts ==
    /\ work_pending /\ worker = "idle"
    /\ work_pending' = FALSE
    /\ worker' = "loop"
    /\ UNCHANGED <<ih_fifo, interrupts_active, exit, slot, irqs, missed, nsignals,
                   eventSide, waitSide, nsets>>

\* interrupt_wq: dequeue_ih_ring_entry, until the fifo is empty.
dequeue_ih_ring_entry ==
    /\ worker = "loop"
    /\ IF ih_fifo = <<>> THEN worker' = "done" /\ UNCHANGED ih_fifo
       ELSE worker' = Head(ih_fifo) /\ ih_fifo' = Tail(ih_fifo)
    /\ UNCHANGED <<interrupts_active, exit, work_pending, slot, irqs, missed, nsignals,
                   eventSide, waitSide, nsets>>

work_ends ==
    /\ worker = "done"
    /\ worker' = "idle"
    /\ UNCHANGED <<ih_fifo, interrupts_active, exit, work_pending, slot, irqs, missed, nsignals,
                   eventSide, waitSide, nsets>>

-----------------------------------------------------------------------------
(* Events.                                                                 *)

\* set_event for the events of S: all waiters of an event are activated and woken,
\* and an event with auto_reset stays signaled only if it has none.
set_event(S) ==
    LET woken == {u \in waiters : u[2] \in S} IN
    /\ signaled' = (signaled \cup S) \ (AutoReset \cap {u[2] : u \in woken})
    /\ activated' = activated \cup woken
    /\ waiters' = waiters \ woken
    /\ runnable' = runnable \cup {u[1] : u \in woken}

\* The work item sets the events whose slot is signaled.
kfd_signal_event_interrupt ==
    /\ worker \in Process
    /\ LET S == {e \in slot \cap alive : EventProcess[e] = worker} IN
          /\ set_event(S)
          /\ slot' = slot \ S
    /\ worker' = "loop"
    /\ UNCHANGED <<ih_fifo, interrupts_active, exit, work_pending, irqs, missed, nsignals, alive,
                   waitSide, nsets>>

kfd_set_event(e) ==
    /\ e \in alive /\ nsets < kfdLoad.sets
    /\ nsets' = nsets + 1
    /\ set_event({e})
    /\ UNCHANGED <<irqSide, alive, waitSide>>

kfd_reset_event(e) ==
    /\ e \in alive /\ nsets < kfdLoad.sets
    /\ nsets' = nsets + 1
    /\ signaled' = signaled \ {e}
    /\ UNCHANGED <<irqSide, alive, activated, waiters, runnable, waitSide>>

\* destroy_event abandons the waiters.
kfd_event_destroy(e) ==
    /\ e \in alive /\ nsets < kfdLoad.sets
    /\ nsets' = nsets + 1
    /\ alive' = alive \ {e}
    /\ signaled' = signaled \ {e}
    /\ waiters' = {u \in waiters : u[2] # e}
    /\ UNCHANGED <<irqSide, activated, runnable, waitSide>>

-----------------------------------------------------------------------------
(* kfd_wait_on_events.                                                     *)

WaitGoto(w, l) == waitpc' = [waitpc EXCEPT ![w] = l]

test_event_condition(w, act) ==
    LET hit == {e \in Range(Wait(w).events) : <<w, e>> \in act} IN
    IF Wait(w).all THEN hit = Range(Wait(w).events) ELSE hit # {}

\* Under event_mutex: the status of every event is read, an auto_reset event that is
\* signaled is consumed; a missing event ends the call after those before it.
wait_init(w) ==
    /\ waitpc[w] = "out" /\ nwaits[w] < Wait(w).n
    /\ nwaits' = [nwaits EXCEPT ![w] = @ + 1]
    /\ LET events == Wait(w).events
           missing == {i \in DOMAIN events : events[i] \notin alive}
           read == Range(SubSeq(events, 1, Min(missing \cup {Len(events) + 1}) - 1))
           act == {<<w, e>> : e \in read \cap signaled}
       IN /\ signaled' = signaled \ (read \cap AutoReset)
          /\ IF missing # {} \/ test_event_condition(w, act)
             THEN UNCHANGED <<waitpc, activated, waiters, expired>>
             ELSE /\ WaitGoto(w, "loop")
                  /\ activated' = activated \cup act
                  /\ waiters' = waiters \cup ({<<w, e>> : e \in read} \ act)
                  /\ expired' = IF Wait(w).timeout = "zero" THEN expired \cup {w} ELSE expired \ {w}
    /\ UNCHANGED <<irqSide, alive, runnable, kfdLoad, nsets>>

\* A signal is pending: -EINTR or -ERESTARTSYS.
signal_pending(w) ==
    /\ waitpc[w] \in {"loop", "schedule"}
    /\ WaitGoto(w, "free")
    /\ runnable' = runnable \cup {w}
    /\ UNCHANGED <<irqSide, alive, signaled, activated, waiters, kfdLoad, expired, nwaits, nsets>>

\* "Set task state to interruptible sleep before checking wake-up conditions."
set_interruptible(w) ==
    /\ waitpc[w] = "loop"
    /\ runnable' = runnable \ {w}
    /\ WaitGoto(w, "test")
    /\ UNCHANGED <<irqSide, alive, signaled, activated, waiters, kfdLoad, expired, nwaits, nsets>>

wait_test(w) ==
    /\ waitpc[w] = "test"
    /\ IF test_event_condition(w, activated) \/ w \in expired
       THEN WaitGoto(w, "free") /\ runnable' = runnable \cup {w}
       ELSE WaitGoto(w, "schedule") /\ UNCHANGED runnable
    /\ UNCHANGED <<irqSide, alive, signaled, activated, waiters, kfdLoad, expired, nwaits, nsets>>

\* schedule_timeout returns: the task was woken ...
wait_woken(w) ==
    /\ waitpc[w] = "schedule" /\ w \in runnable
    /\ WaitGoto(w, "loop")
    /\ UNCHANGED <<irqSide, eventSide, kfdLoad, expired, nwaits, nsets>>

expires_forgets(w) ==
    /\ waitpc[w] = "schedule" /\ Wait(w).timeout = "finite"
    /\ runnable' = runnable \cup {w}
    /\ WaitGoto(w, "loop")
    /\ UNCHANGED <<irqSide, alive, signaled, activated, waiters, kfdLoad, expired, nwaits, nsets>>

\* ... or the time is over.
wait_expires(w) ==
    /\ waitpc[w] = "schedule" /\ Wait(w).timeout = "finite"
    /\ runnable' = runnable \cup {w}
    /\ expired' = expired \cup {w}
    /\ WaitGoto(w, "loop")
    /\ UNCHANGED <<irqSide, alive, signaled, activated, waiters, kfdLoad, nwaits, nsets>>

free_waiters(w) ==
    /\ waitpc[w] = "free"
    /\ WaitGoto(w, "out")
    /\ waiters' = {u \in waiters : u[1] # w}
    /\ activated' = {u \in activated : u[1] # w}
    /\ UNCHANGED <<irqSide, alive, signaled, runnable, kfdLoad, expired, nwaits, nsets>>

-----------------------------------------------------------------------------
(* kfd_interrupt_exit.                                                     *)

exit_deactivate ==
    /\ exit = "no"
    /\ interrupts_active' = FALSE
    /\ exit' = "flush"
    /\ UNCHANGED <<ih_fifo, work_pending, worker, slot, irqs, missed, nsignals,
                   eventSide, waitSide, nsets>>

\* flush_workqueue, then kfifo_free
exit_free ==
    /\ exit = "flush" /\ ~ work_pending /\ worker = "idle"
    /\ exit' = "freed"
    /\ UNCHANGED <<ih_fifo, interrupts_active, work_pending, worker, slot, irqs, missed, nsignals,
                   eventSide, waitSide, nsets>>

-----------------------------------------------------------------------------
IrqSide ==
    kgd2kfd_interrupt \/ work_starts \/ dequeue_ih_ring_entry \/ work_ends
    \/ kfd_signal_event_interrupt \/ exit_free

WaitStep(w) ==
    set_interruptible(w) \/ wait_test(w) \/ wait_woken(w) \/ wait_expires(w) \/ free_waiters(w)

NextKfd ==
    \/ IrqSide \/ exit_deactivate
    \/ \E e \in Event :
          GpuWritesSlot(e) \/ kfd_set_event(e) \/ kfd_reset_event(e) \/ kfd_event_destroy(e)
    \/ \E w \in Waiter : wait_init(w) \/ WaitStep(w) \/ signal_pending(w)

SpecKfd == InitKfd /\ [][NextKfd]_kfdVars

\* Interrupts are delivered and the work item runs; a thread that can go on does, and
\* a finite timeout ends.
FairnessKfd ==
    /\ WF_kfdVars(IrqSide)
    /\ \A w \in Waiter : WF_kfdVars(WaitStep(w))

-----------------------------------------------------------------------------
(* Properties.                                                             *)

KfdTypes ==
    /\ Range(ih_fifo) \subseteq Process /\ Len(ih_fifo) <= FifoSize
    /\ worker \in {"idle", "loop", "done"} \cup Process
    /\ slot \subseteq Event /\ signaled \subseteq alive
    /\ waitpc \in [Waiter -> {"out", "loop", "test", "schedule", "free"}]
    /\ waiters \cap activated = {}
    /\ \A u \in waiters \cup activated : waitpc[u[1]] # "out"

\* A signal that the GPU wrote is on its way to its event: an interrupt of the process
\* is still to come or an entry of it is in the fifo, with the work item queued or
\* running.  A full fifo does not lose it as long as one of the entries is for the
\* same process, since the work item looks at all slots; else it does (missed).
SignalOnItsWay ==
    \A e \in slot \cap alive :
        LET p == EventProcess[e] IN
        \/ p \in missed
        \/ Queued(irqs, p)
        \/ worker = p
        \/ Queued(ih_fifo, p) /\ (work_pending \/ worker \in {"loop"} \cup Process)

\* kfifo_free comes after the last use of the fifo.
FifoFreedLast ==
    exit = "freed" => (~ work_pending /\ worker = "idle")

\* No thread waits for an event that is signaled: it was activated when the event was
\* set, or when it looked at the event first.
SignaledEventsActivate ==
    \A w \in Waiter : waitpc[w] # "out" =>
        \A e \in Range(Wait(w).events) \cap signaled : <<w, e>> \in activated

\* "Otherwise, this race condition would lead to a soft hang or a very long sleep": a
\* thread whose condition holds is not asleep.
NoSoftHang ==
    \A w \in Waiter :
        (waitpc[w] = "schedule" /\ test_event_condition(w, activated)) => w \in runnable

\* Every wait whose condition holds or whose time is finite ends, and every signal of
\* the GPU reaches its event unless an interrupt was missed.
WaitsEnd ==
    <>[](/\ \A w \in Waiter : waitpc[w] # "out" =>
                Wait(w).timeout = "infinite" /\ ~ test_event_condition(w, activated)
         /\ \A e \in slot \cap alive : EventProcess[e] \in missed)
=============================================================================

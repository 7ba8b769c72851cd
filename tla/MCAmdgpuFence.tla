--------------------------- MODULE MCAmdgpuFence ---------------------------
(* Instances of AmdgpuFence for TLC. *)
EXTENDS AmdgpuFence, TLC

\* A ring that hangs and is reset; a ring an idle handler and a waiter watch.
ResetWork == {[callers |-> {"irq", "timer"}, waits |-> 0, fails |-> 1, resets |-> 1]}

IdleWork == {[callers |-> {"timer", "cpu"}, waits |-> 1, fails |-> 0, resets |-> 0]}

SafetyWork == ResetWork \cup IdleWork

\* A ring whose interrupts are all lost; a reset while the ring runs.
TimerWork == {[callers |-> {"timer"}, waits |-> 0, fails |-> 1, resets |-> 0]}

RaceWork == {[callers |-> {"irq", "timer"}, waits |-> 0, fails |-> 0, resets |-> 1]}
=============================================================================

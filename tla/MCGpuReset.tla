----------------------------- MODULE MCGpuReset -----------------------------
(* Instances of GpuReset for TLC. *)
EXTENDS GpuReset, TLC

CONSTANTS e1, j1, j2

OneEntityJobs == [j \in Job |-> e1]

NoDeps == [j \in Job |-> {}]

\* Hardware that may hang once on whatever it runs; with timeouts that may also
\* expire early.
BareMetal == {[sriov |-> FALSE, bad |-> {}, maxhangs |-> 1, slow |-> FALSE]}

EarlyTimeouts == {[sriov |-> FALSE, bad |-> {}, maxhangs |-> 1, slow |-> TRUE]}

\* A virtual function that hangs on one of the jobs, each time it runs it.
VirtualFunctions == {[sriov |-> TRUE, bad |-> {j}, maxhangs |-> 0, slow |-> FALSE] : j \in Job}

AllDevices == EarlyTimeouts \cup VirtualFunctions

LiveDevices == BareMetal \cup {[sriov |-> TRUE, bad |-> {j1}, maxhangs |-> 0, slow |-> FALSE]}

\* Jobs of one entity are interchangeable: AllDevices has a device for each bad job.
JobSymmetry == Permutations(Job)
=============================================================================

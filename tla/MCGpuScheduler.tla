--------------------------- MODULE MCGpuScheduler ---------------------------
(* Instances of GpuScheduler and SchedulerRefinement for TLC. *)
EXTENDS SchedulerRefinement, TLC

CONSTANTS e1, e2, j1, j2, j3, x1

\* Two entities of which one may be the kernel's; j2 follows j1 in e1.
TwoEntityJobs == [j \in Job |-> IF j = j3 THEN e2 ELSE e1]

\* j2 waits for a fence of another ring, j3 for j1 of this ring.
MixedDeps ==
    [j \in Job |-> CASE j = j1 -> {}
                     [] j = j2 -> {ForeignFence(x1)}
                     [] j = j3 -> {Finished(j1)}]

OneEntityJobs == [j \in Job |-> e1]

NoDeps == [j \in Job |-> {}]

\* Jobs of one entity with the same dependencies are interchangeable.
JobSymmetry == Permutations(Job)

Submitted == {j \in Job : push[j] # "new"}

\* Two jobs at a time: of the two entities, or both of e1, and then e2 is idle
\* and torn down last.
TwoJobLoads ==
    \/ Submitted \subseteq {j1, j3}
    \/ /\ Submitted \subseteq {j1, j2}
       /\ fini[e2] = "live" \/ fini[e1] = "gone"

\* The timeout of one job expires early, with no hang, when the jobs share e1.
OneExpiry ==
    LET expired == tdr_running \cup tdr_expired
    IN  Cardinality(expired) <= 1 /\ (j3 \in Submitted => expired = {})
=============================================================================

-------------------------- MODULE SchedulerContract --------------------------
(***************************************************************************)
(* What a ring's scheduler promises the clients of amd_sched_entity_push_job: *)
(* an entity is a queue of jobs that are scheduled in the order they were  *)
(* submitted, each of them once, and not before what it depends on; a job  *)
(* that is scheduled finishes once.                                        *)
(***************************************************************************)
EXTENDS Integers, Sequences

CONSTANTS
    Entity,
    Job,
    JobEntity,  \* the entity each job is submitted to
    Foreign,    \* fences of other rings
    NeedsJobs,      \* the jobs of this ring each job depends on
    NeedsForeign    \* and the fences of other rings

VARIABLES
    waiting,    \* per entity, the jobs submitted and not yet scheduled
    scheduled,  \* jobs whose scheduled fence is signaled
    finished,   \* jobs whose finished fence is signaled
    foreign     \* fences of other rings that are signaled

vars == <<waiting, scheduled, finished, foreign>>

Init ==
    /\ waiting = [e \in Entity |-> <<>>]
    /\ scheduled = {}
    /\ finished = {}
    /\ foreign = {}

Submitted(j) ==
    LET queue == waiting[JobEntity[j]]
    IN  j \in scheduled \/ \E i \in DOMAIN queue : queue[i] = j

Submit(j) ==
    /\ ~Submitted(j)
    /\ waiting' = [waiting EXCEPT ![JobEntity[j]] = Append(@, j)]
    /\ UNCHANGED <<scheduled, finished, foreign>>

\* A job of the same ring need only be scheduled: the ring executes in order.
Schedule(e) ==
    /\ waiting[e] # <<>>
    /\ waiting' = [waiting EXCEPT ![e] = Tail(@)]
    /\ LET j == Head(waiting[e]) IN
       /\ NeedsForeign[j] \subseteq foreign
       /\ NeedsJobs[j] \subseteq scheduled
       /\ scheduled' = scheduled \cup {j}
    /\ UNCHANGED <<finished, foreign>>

Finish(j) ==
    /\ j \in scheduled \ finished
    /\ finished' = finished \cup {j}
    /\ UNCHANGED <<waiting, scheduled, foreign>>

Signal(x) ==
    /\ x \notin foreign
    /\ foreign' = foreign \cup {x}
    /\ UNCHANGED <<waiting, scheduled, finished>>

Next ==
    \/ \E j \in Job : Submit(j) \/ Finish(j)
    \/ \E e \in Entity : Schedule(e)
    \/ \E x \in Foreign : Signal(x)

Spec == Init /\ [][Next]_vars
=============================================================================

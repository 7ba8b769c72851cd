------------------------- MODULE GpuSchedulerQueues -------------------------
(***************************************************************************)
(* How entities go through the run queues of GpuScheduler, for every set   *)
(* of entities and jobs, every dependency relation, queue size and         *)
(* hardware limit.                                                         *)
(***************************************************************************)
EXTENDS GpuSchedulerProofs

\* The provers of a leaf that names none, and the time each of them has.
USE ZenonT(20), SMTT(30)

-----------------------------------------------------------------------------
(* Run queues.                                                             *)

\* A run queue holds the entities of its own priority, each in one place.
OnceOnRq ==
    \A p \in Priority : \A i \in 1..Len(rq[p]) :
        /\ RqOf(rq[p][i]) = p
        /\ \A k \in 1..Len(rq[p]) : rq[p][k] = rq[p][i] => k = i

\* The thread that pushes job j has yet to put its entity e on the run queue.
Linking(j, e) == JobEntity[j] = e /\ push[j] \in {"add", "link"}

\* An entity that is not on its run queue is not with the worker, so its kfifo only
\* fills: at most one thread, the one that stored the first job, links it, although
\* that thread tests for it without the lock.
LinkedOnce ==
    \A e \in Entity : ~OnRq(e) =>
        /\ ~(wentity = e /\ wpc \in Holding)
        /\ \A j \in Job : Linking(j, e) => job_queue[e] # <<>>
        /\ \A j, k \in Job : Linking(j, e) /\ Linking(k, e) => j = k
        /\ job_queue[e] # <<>> => \E j \in Job : Linking(j, e)

LinkIfAbsent == \A j \in Job : push[j] = "link" => ~OnRq(JobEntity[j])

\* What amd_sched_entity_fini relies on, step by step.
Teardown ==
    \A e \in Entity :
        /\ fini[e] # "live" => \A j \in Job : JobEntity[j] = e => push[j] \in {"new", "done"}
        /\ fini[e] \in {"remove", "gone"} => job_queue[e] = <<>>
        /\ fini[e] = "gone" => ~OnRq(e) /\ current_entity[RqOf(e)] # e

\* Only an entity with a job waits for a fence, and not one the worker has selected;
\* the worker forgets the entity at the end of an iteration.
WaitsWithJob ==
    /\ \A e \in Entity : dependency[e] # None => job_queue[e] # <<>>
    /\ wpc \in Holding => dependency[wentity] = None
    /\ wpc \notin Holding \cup {"wakeup"} => wentity = None

RqInv == OnceOnRq /\ LinkedOnce /\ LinkIfAbsent /\ Teardown /\ WaitsWithJob

\* list_del_init takes x off a list that holds everything once, and nothing else.
LEMMA ListDelProps ==
    ASSUME NEW S, NEW l \in Seq(S), NEW x,
           \A i, k \in 1..Len(l) : l[k] = l[i] => k = i
    PROVE  /\ ~InList(list_del_init(l, x), x)
           /\ \A y : y # x => (InList(list_del_init(l, x), y) <=> InList(l, y))
           /\ \A i \in 1..Len(list_del_init(l, x)) : InList(l, list_del_init(l, x)[i])
           /\ \A i, k \in 1..Len(list_del_init(l, x)) :
                 list_del_init(l, x)[k] = list_del_init(l, x)[i] => k = i
<1> DEFINE d == list_del_init(l, x)
<1>1. CASE ~InList(l, x)
  BY <1>1 DEF list_del_init, InList
<1>2. CASE InList(l, x)
  <2>1. PICK at \in 1..Len(l) : at = CHOOSE k \in 1..Len(l) : l[k] = x
    BY <1>2 DEF InList
  <2>2. l[at] = x
    BY <1>2, <2>1 DEF InList
  <2>3. d = [i \in 1..(Len(l) - 1) |-> IF i < at THEN l[i] ELSE l[i + 1]]
    BY <1>2, <2>1 DEF list_del_init
  <2> HIDE DEF d
  <2>4. /\ Len(l) \in Nat /\ Len(d) = Len(l) - 1
        /\ \A i \in 1..Len(d) : d[i] = IF i < at THEN l[i] ELSE l[i + 1]
    <3>1. Len(l) \in Nat /\ Len(l) >= 1
      BY <2>1, SMTT(30)
    <3>2. Len(d) = Len(l) - 1
      BY <2>3, <3>1, SMTT(30)
    <3>3. QED
      BY <2>3, <3>1, <3>2
  <2> DEFINE src(i) == IF i < at THEN i ELSE i + 1
  <2>5. \A i \in 1..Len(d) : src(i) \in 1..Len(l) /\ src(i) # at /\ d[i] = l[src(i)]
    BY <2>4, SMTT(30)
  <2>6. \A i, k \in 1..Len(d) : src(i) = src(k) => i = k
    BY <2>4, SMTT(30)
  <2>7. \A k \in 1..Len(l) : k # at => \E i \in 1..Len(d) : src(i) = k
    <3>1. ASSUME NEW k \in 1..Len(l), k < at PROVE k \in 1..Len(d) /\ src(k) = k
      BY <2>4, <3>1, SMTT(30)
    <3>2. ASSUME NEW k \in 1..Len(l), k > at PROVE k - 1 \in 1..Len(d) /\ src(k - 1) = k
      BY <2>4, <3>2, SMTT(30)
    <3>3. \A k \in 1..Len(l) : k # at => k < at \/ k > at
      BY <2>4, SMTT(30)
    <3> HIDE DEF src
    <3>4. QED
      BY <3>1, <3>2, <3>3
  <2> HIDE DEF src
  <2>8. /\ ~InList(d, x)
        /\ \A y : y # x => (InList(d, y) <=> InList(l, y))
        /\ \A i \in 1..Len(d) : InList(l, d[i])
    <3>1. ~InList(d, x) /\ \A i \in 1..Len(d) : InList(l, d[i])
      BY <2>2, <2>5 DEF InList
    <3>2. ASSUME NEW y, y # x, InList(l, y) PROVE InList(d, y)
      <4>1. PICK k \in 1..Len(l) : l[k] = y
        BY <3>2 DEF InList
      <4>2. PICK i \in 1..Len(d) : src(i) = k
        BY <2>2, <2>7, <3>2, <4>1
      <4>3. QED
        BY <2>5, <4>1, <4>2 DEF InList
    <3>3. QED
      BY <3>1, <3>2 DEF InList
  <2>9. \A i, k \in 1..Len(d) : d[k] = d[i] => k = i
    BY <2>5, <2>6
  <2>10. QED
    BY <2>8, <2>9 DEF d
<1>3. QED
  BY <1>1, <1>2

LEMMA RqFrame ==
    ASSUME RqInv
    PROVE  /\ UNCHANGED rq => OnceOnRq'
           /\ UNCHANGED rq => \A e \in Entity : OnRq(e)' <=> OnRq(e)
           /\ UNCHANGED <<rq, push>> => LinkIfAbsent'
           /\ (UNCHANGED <<rq, push, job_queue>>
                 /\ (wpc' \in Holding => wpc \in Holding /\ wentity' = wentity)) => LinkedOnce'
           /\ UNCHANGED <<rq, push, job_queue, fini, current_entity>> => Teardown'
           /\ UNCHANGED <<job_queue, dependency, wpc, wentity>> => WaitsWithJob'
<1>1. UNCHANGED rq => OnceOnRq' /\ \A e \in Entity : OnRq(e)' <=> OnRq(e)
  BY DEF RqInv, OnceOnRq, OnRq
<1>2. UNCHANGED <<rq, push>> => LinkIfAbsent'
  BY DEF RqInv, LinkIfAbsent, OnRq
<1>3. ASSUME UNCHANGED <<rq, push, job_queue>>,
             wpc' \in Holding => wpc \in Holding /\ wentity' = wentity
      PROVE  LinkedOnce'
  BY <1>1, <1>3, SMTT(30) DEF RqInv, LinkedOnce, Linking
<1>4. UNCHANGED <<rq, push, job_queue, fini, current_entity>> => Teardown'
  BY <1>1 DEF RqInv, Teardown
<1>5. UNCHANGED <<job_queue, dependency, wpc, wentity>> => WaitsWithJob'
  BY DEF RqInv, WaitsWithJob
<1>6. QED
  BY <1>1, <1>2, <1>3, <1>4, <1>5

\* A kfifo that the worker selects belongs to an entity on the run queue.
LEMMA SelectOnRq ==
    ASSUME TypeInv, OnceOnRq, NEW p \in Priority, NEW e \in amd_sched_rq_select_entity(p)
    PROVE  e \in Entity /\ RqOf(e) = p /\ OnRq(e) /\ dependency[e] = None
<1>1. PICK i \in ReadyAt(p) : e = rq[p][i]
  BY DEF amd_sched_rq_select_entity
<1>2. rq[p] \in Seq(Entity)
  BY DEF TypeInv, TypeOK, RqTypes
<1>3. i \in 1..Len(rq[p]) /\ amd_sched_entity_is_ready(e)
  BY <1>1, <1>2, SMTT(30) DEF ReadyAt
<1>4. e \in Entity /\ RqOf(e) = p
  BY <1>1, <1>2, <1>3, SMTT(30) DEF OnceOnRq
<1>5. QED
  BY <1>1, <1>3, <1>4 DEF OnRq, InList, amd_sched_entity_is_ready

\* The job a thread has stored is the first when the kfifo was empty.
LEMMA AppendOne ==
    ASSUME NEW S, NEW q \in Seq(S), NEW x \in S
    PROVE  Append(q, x) # <<>> /\ (Len(Append(q, x)) = 1 <=> q = <<>>)
<1>1. Len(q) \in Nat /\ Len(Append(q, x)) = Len(q) + 1 /\ (Len(q) = 0 <=> q = <<>>)
  BY SMTT(30)
<1>2. QED
  BY <1>1, SMTT(30)

LEMMA RqInvStep ==
    ASSUME TypeInv, RqInv, [Next]_vars
    PROVE  RqInv'
<1>0. /\ push \in [Job -> {"new", "in", "add", "link", "wake", "done"}]
      /\ fini \in [Entity -> {"live", "wait", "remove", "gone"}]
      /\ job_queue \in [Entity -> Seq(Job)]
      /\ dependency \in [Entity -> Fence \cup {None}]
      /\ rq \in [Priority -> Seq(Entity)]
      /\ current_entity \in [Priority -> Entity \cup {None}]
      /\ JobEntity \in [Job -> Entity]
      /\ \A e : RqOf(e) \in Priority
  BY ConstantsAssumption
  DEF TypeInv, TypeOK, ClientTypes, EntityTypes, RqTypes, RqOf, Priority
<1>a. OnceOnRq /\ LinkedOnce /\ LinkIfAbsent /\ Teardown /\ WaitsWithJob
  BY DEF RqInv
<1>b. wpc \in Holding => wentity \in Entity /\ Len(job_queue[wentity]) >= 1
  BY DEF TypeInv, WorkerHolds
<1>c. \A e \in Entity : Len(job_queue[e]) >= 1 => job_queue[e] # <<>>
  BY <1>0, SMTT(30)
<1> USE DEF clientVars, entityVars, rqVars, workerVars
\* A thread that submits job j.
<1>1. ASSUME NEW j \in Job, amd_sched_job_init(j) PROVE RqInv'
  <2>1. /\ push' = [push EXCEPT ![j] = "in"] /\ push[j] = "new" /\ fini[JobEntity[j]] = "live"
        /\ UNCHANGED <<fini, job_queue, dependency, rq, current_entity, wpc, wentity>>
    BY <1>1 DEF amd_sched_job_init
  <2>2. \A e \in Entity : OnRq(e)' <=> OnRq(e)
    BY <2>1, RqFrame
  <2>3. \A k \in Job : push'[k] \in {"add", "link"} <=> push[k] \in {"add", "link"}
    BY <1>0, <2>1
  <2>4. LinkedOnce'
    BY <1>a, <2>1, <2>2, <2>3, SMTT(30) DEF LinkedOnce, Linking
  <2>5. LinkIfAbsent'
    BY <1>0, <1>a, <2>1, <2>2 DEF LinkIfAbsent
  <2>6. Teardown'
    BY <1>0, <1>a, <2>1, <2>2 DEF Teardown
  <2>7. QED
    BY <2>1, <2>4, <2>5, <2>6, RqFrame DEF RqInv
<1>2. ASSUME NEW j \in Job, amd_sched_entity_in(j) PROVE RqInv'
  <2> DEFINE e == JobEntity[j]
  <2>1. CASE UNCHANGED <<job_queue, push>>
    BY <1>2, <2>1, RqFrame DEF amd_sched_entity_in, RqInv
  <2>2. CASE /\ push[j] = "in"
             /\ job_queue' = [job_queue EXCEPT ![e] = Append(job_queue[e], j)]
             /\ push' = [push EXCEPT ![j] = IF Len(job_queue'[e]) = 1 THEN "add" ELSE "done"]
    <3>1. UNCHANGED <<fini, dependency, rq, current_entity, wpc, wentity>>
      BY <1>2 DEF amd_sched_entity_in
    <3>2. \A d \in Entity : OnRq(d)' <=> OnRq(d)
      BY <3>1, RqFrame
    <3>3. /\ e \in Entity /\ job_queue[e] \in Seq(Job)
          /\ job_queue'[e] = Append(job_queue[e], j)
          /\ \A d \in Entity : d # e => job_queue'[d] = job_queue[d]
      BY <1>0, <2>2
    <3>4. job_queue'[e] # <<>> /\ (Len(job_queue'[e]) = 1 <=> job_queue[e] = <<>>)
      BY <3>3, AppendOne, SMTT(30)
    <3>5. /\ \A k \in Job : k # j => push'[k] = push[k]
          /\ push'[j] = IF job_queue[e] = <<>> THEN "add" ELSE "done"
      BY <1>0, <2>2, <3>4
    <3>6. LinkedOnce'
      <4>1. SUFFICES ASSUME NEW d \in Entity, ~OnRq(d)
                     PROVE  /\ ~(wentity = d /\ wpc \in Holding)
                            /\ \A k \in Job : Linking(k, d)' => job_queue'[d] # <<>>
                            /\ \A k, m \in Job : Linking(k, d)' /\ Linking(m, d)' => k = m
                            /\ job_queue'[d] # <<>> => \E k \in Job : Linking(k, d)'
        BY <3>1, <3>2 DEF LinkedOnce
      <4>2. /\ ~(wentity = d /\ wpc \in Holding)
            /\ \A k \in Job : Linking(k, d) => job_queue[d] # <<>>
            /\ \A k, m \in Job : Linking(k, d) /\ Linking(m, d) => k = m
            /\ job_queue[d] # <<>> => \E k \in Job : Linking(k, d)
        BY <1>a, <4>1 DEF LinkedOnce
      <4>3. \A k \in Job : Linking(k, d)' <=> Linking(k, d) \/ (k = j /\ d = e /\ job_queue[e] = <<>>)
        BY <1>0, <2>2, <3>5 DEF Linking
      <4>4. QED
        BY <3>3, <3>4, <4>2, <4>3
    <3>7. LinkIfAbsent'
      BY <1>0, <1>a, <3>2, <3>5 DEF LinkIfAbsent
    <3>8. Teardown'
      <4>1. fini[e] = "live"
        BY <1>0, <1>a, <2>2 DEF Teardown
      <4>2. QED
        <5>1. SUFFICES ASSUME NEW d \in Entity
                       PROVE  /\ fini'[d] # "live" => \A k \in Job : JobEntity[k] = d => push'[k] \in {"new", "done"}
                              /\ fini'[d] \in {"remove", "gone"} => job_queue'[d] = <<>>
                              /\ fini'[d] = "gone" => ~OnRq(d)' /\ current_entity'[RqOf(d)] # d
          BY DEF Teardown
        <5>2. CASE d = e
          BY <3>1, <4>1, <5>2
        <5>3. CASE d # e
          BY <1>0, <1>a, <3>1, <3>2, <3>3, <3>5, <5>3 DEF Teardown
        <5>4. QED
          BY <5>2, <5>3
    <3>9. WaitsWithJob'
      BY <1>a, <3>1, <3>3, <3>4 DEF WaitsWithJob
    <3>10. QED
      BY <3>1, <3>6, <3>7, <3>8, <3>9, RqFrame DEF RqInv
  <2>3. QED
    BY <1>2, <2>1, <2>2 DEF amd_sched_entity_in
<1>3. ASSUME NEW j \in Job, rq_add_entity_test(j) PROVE RqInv'
  <2> DEFINE e == JobEntity[j]
  <2>1. /\ push[j] = "add" /\ push' = [push EXCEPT ![j] = IF OnRq(e) THEN "wake" ELSE "link"]
        /\ UNCHANGED <<fini, job_queue, dependency, rq, current_entity, wpc, wentity>>
    BY <1>3 DEF rq_add_entity_test
  <2>2. e \in Entity /\ \A d \in Entity : OnRq(d)' <=> OnRq(d)
    BY <1>0, <2>1, RqFrame
  <2>3. /\ \A k \in Job : k # j => push'[k] = push[k]
        /\ push'[j] = IF OnRq(e) THEN "wake" ELSE "link"
    BY <1>0, <2>1
  <2>4. \A d \in Entity, k \in Job : ~OnRq(d) => (Linking(k, d)' <=> Linking(k, d))
    BY <1>0, <2>1, <2>3 DEF Linking
  <2>5. LinkedOnce'
    BY <1>a, <2>1, <2>2, <2>4 DEF LinkedOnce
  <2>6. LinkIfAbsent'
    BY <1>0, <1>a, <2>2, <2>3 DEF LinkIfAbsent
  <2>7. Teardown'
    <3>1. fini[e] = "live"
      <4>1. push[j] \notin {"new", "done"}
        BY <2>1
      <4>2. QED
        BY <1>a, <2>2, <4>1 DEF Teardown
    <3>2. QED
      BY <1>0, <1>a, <2>1, <2>2, <2>3, <3>1 DEF Teardown
  <2>8. QED
    BY <2>1, <2>5, <2>6, <2>7, RqFrame DEF RqInv
<1>4. ASSUME NEW j \in Job, rq_add_entity_link(j) PROVE RqInv'
  <2> DEFINE e == JobEntity[j]
             r == rq[RqOf(e)]
  <2>1. /\ push[j] = "link" /\ push' = [push EXCEPT ![j] = "wake"]
        /\ rq' = [rq EXCEPT ![RqOf(e)] = Append(r, e)]
        /\ UNCHANGED <<fini, job_queue, dependency, current_entity, wpc, wentity>>
    BY <1>4 DEF rq_add_entity_link
  <2>2. /\ e \in Entity /\ r \in Seq(Entity) /\ ~OnRq(e)
        /\ \A i \in 1..Len(r) : r[i] # e
    BY <1>0, <1>a, <2>1 DEF LinkIfAbsent, OnRq, InList
  <2>3. /\ Len(r) \in Nat /\ Len(Append(r, e)) = Len(r) + 1
        /\ \A i \in 1..Len(r) : Append(r, e)[i] = r[i]
        /\ Append(r, e)[Len(r) + 1] = e
    BY <2>2, AppendProps, SMTT(30)
  <2>4. /\ rq'[RqOf(e)] = Append(r, e)
        /\ \A p \in Priority : p # RqOf(e) => rq'[p] = rq[p]
    BY <1>0, <2>1
  <2>5. OnceOnRq'
    <3>1. SUFFICES ASSUME NEW p \in Priority, NEW i \in 1..Len(rq'[p])
                   PROVE  /\ RqOf(rq'[p][i]) = p
                          /\ \A k \in 1..Len(rq'[p]) : rq'[p][k] = rq'[p][i] => k = i
      BY DEF OnceOnRq
    <3>2. CASE p # RqOf(e)
      BY <1>a, <2>4, <3>1, <3>2 DEF OnceOnRq
    <3>3. CASE p = RqOf(e)
      <4>1. /\ \A k \in 1..Len(r) : RqOf(r[k]) = p
            /\ \A k, m \in 1..Len(r) : r[k] = r[m] => k = m
        BY <1>a, <3>3 DEF OnceOnRq
      <4> HIDE DEF r
      <4>2. \A k \in 1..Len(rq'[p]) : k \in 1..Len(r) \/ k = Len(r) + 1
        BY <2>3, <2>4, <3>3, SMTT(30)
      <4>3. /\ \A k \in 1..Len(r) : rq'[p][k] = r[k] /\ r[k] # e
            /\ rq'[p][Len(r) + 1] = e
        BY <2>2, <2>3, <2>4, <3>3
      <4>4. QED
        BY <3>1, <3>3, <4>1, <4>2, <4>3, SMTT(30)
    <3>4. QED
      BY <3>2, <3>3
  <2>6. \A d \in Entity : OnRq(d)' <=> OnRq(d) \/ d = e
    <3>1. SUFFICES ASSUME NEW d \in Entity PROVE OnRq(d)' <=> OnRq(d) \/ d = e
      OBVIOUS
    <3>2. CASE RqOf(d) # RqOf(e)
      BY <1>0, <2>4, <3>2 DEF OnRq
    <3>3. CASE RqOf(d) = RqOf(e)
      <4>1. OnRq(d) <=> \E i \in 1..Len(r) : r[i] = d
        BY <3>3 DEF OnRq, InList
      <4>2. OnRq(d)' <=> \E i \in 1..(Len(r) + 1) : Append(r, e)[i] = d
        <5>1. rq'[RqOf(d)] = Append(r, e) /\ Len(Append(r, e)) = Len(r) + 1
          BY <2>3, <2>4, <3>3
        <5> HIDE DEF r
        <5>2. QED
          BY <5>1 DEF OnRq, InList
      <4> HIDE DEF r
      <4>3. QED
        BY <2>3, <4>1, <4>2, SMTT(30)
    <3>4. QED
      BY <3>2, <3>3
  <2>7. /\ \A k \in Job : k # j => push'[k] = push[k]
        /\ push'[j] = "wake"
    BY <1>0, <2>1
  <2>8. \A d \in Entity, k \in Job : d # e => (Linking(k, d)' <=> Linking(k, d))
    BY <1>0, <2>7 DEF Linking
  <2> HIDE DEF r
  <2>9. LinkedOnce'
    BY <1>a, <2>1, <2>6, <2>8 DEF LinkedOnce
  <2>10. LinkIfAbsent'
    <3>1. ASSUME NEW k \in Job, k # j, push[k] = "link" PROVE JobEntity[k] # e
      BY <1>a, <2>1, <2>2, <3>1 DEF LinkedOnce, Linking
    <3>2. QED
      BY <1>0, <1>a, <2>6, <2>7, <3>1 DEF LinkIfAbsent
  <2>11. Teardown'
    <3>1. fini[e] = "live"
      BY <1>0, <1>a, <2>1, <2>2 DEF Teardown
    <3>2. QED
      BY <1>0, <1>a, <2>1, <2>2, <2>6, <2>7, <3>1, SMTT(30) DEF Teardown
  <2>12. QED
    BY <2>1, <2>5, <2>9, <2>10, <2>11, RqFrame DEF RqInv
<1>5. ASSUME NEW j \in Job, push_job_wakeup(j) PROVE RqInv'
  <2>1. /\ push[j] = "wake" /\ push' = [push EXCEPT ![j] = "done"]
        /\ UNCHANGED <<fini, job_queue, dependency, rq, current_entity, wpc, wentity>>
    BY <1>5 DEF push_job_wakeup
  <2>2. \A d \in Entity : OnRq(d)' <=> OnRq(d)
    BY <1>0, <2>1, RqFrame
  <2>3. /\ \A k \in Job : k # j => push'[k] = push[k]
        /\ push'[j] = "done"
    BY <1>0, <2>1
  <2>4. \A d \in Entity, k \in Job : Linking(k, d)' <=> Linking(k, d)
    BY <1>0, <2>1, <2>3 DEF Linking
  <2>5. LinkedOnce'
    BY <1>a, <2>1, <2>2, <2>4 DEF LinkedOnce
  <2>6. LinkIfAbsent'
    BY <1>0, <1>a, <2>2, <2>3 DEF LinkIfAbsent
  <2>7. Teardown'
    BY <1>0, <1>a, <2>1, <2>2, <2>3 DEF Teardown
  <2>8. QED
    BY <2>1, <2>5, <2>6, <2>7, RqFrame DEF RqInv
\* A thread that tears down entity e.
<1>6. ASSUME NEW e \in Entity, entity_fini_start(e) \/ entity_fini_wait(e) PROVE RqInv'
  <2>1. UNCHANGED <<push, job_queue, dependency, rq, current_entity, wpc, wentity>>
    BY <1>6 DEF entity_fini_start, entity_fini_wait
  <2>2. \A d \in Entity : OnRq(d)' <=> OnRq(d)
    BY <1>0, <2>1, RqFrame
  <2>3. Teardown'
    <3>1. CASE UNCHANGED fini
      BY <2>1, <3>1, RqFrame
    <3>2. CASE /\ fini' = [fini EXCEPT ![e] = "wait"]
               /\ \A j \in Job : JobEntity[j] = e => push[j] \in {"new", "done"}
      BY <1>0, <1>a, <2>1, <2>2, <3>2, SMTT(30) DEF Teardown
    <3>3. CASE fini[e] = "wait" /\ fini' = [fini EXCEPT ![e] = "remove"] /\ job_queue[e] = <<>>
      BY <1>0, <1>a, <2>1, <2>2, <3>3 DEF Teardown
    <3>4. QED
      BY <1>6, <3>1, <3>2, <3>3 DEF entity_fini_start, entity_fini_wait, amd_sched_entity_is_idle
  <2>4. QED
    BY <2>1, <2>3, RqFrame DEF RqInv
<1>7. ASSUME NEW e \in Entity, amd_sched_rq_remove_entity(e) PROVE RqInv'
  <2> DEFINE r == rq[RqOf(e)]
             s == list_del_init(r, e)
  <2>1. /\ fini[e] = "remove" /\ fini' = [fini EXCEPT ![e] = "gone"]
        /\ rq' = [rq EXCEPT ![RqOf(e)] = s]
        /\ current_entity' = [current_entity EXCEPT ![RqOf(e)] = IF @ = e THEN None ELSE @]
        /\ UNCHANGED <<push, job_queue, dependency, wpc, wentity>>
    BY <1>7 DEF amd_sched_rq_remove_entity
  <2>2. /\ r \in Seq(Entity)
        /\ \A i, k \in 1..Len(r) : r[k] = r[i] => k = i
        /\ \A i \in 1..Len(r) : RqOf(r[i]) = RqOf(e)
    BY <1>0, <1>a DEF OnceOnRq
  <2>3. /\ ~InList(s, e)
        /\ \A y : y # e => (InList(s, y) <=> InList(r, y))
        /\ \A i \in 1..Len(s) : InList(r, s[i])
        /\ \A i, k \in 1..Len(s) : s[k] = s[i] => k = i
    BY <2>2, ListDelProps
  <2> HIDE DEF s
  <2>4. rq'[RqOf(e)] = s /\ \A p \in Priority : p # RqOf(e) => rq'[p] = rq[p]
    BY <1>0, <2>1
  <2>5. OnceOnRq'
    <3>1. \A i \in 1..Len(s) : RqOf(s[i]) = RqOf(e)
      <4> SUFFICES ASSUME NEW i \in 1..Len(s) PROVE RqOf(s[i]) = RqOf(e)
        OBVIOUS
      <4>1. PICK k \in 1..Len(r) : r[k] = s[i]
        BY <2>3 DEF InList
      <4>2. QED
        BY <2>2, <4>1, SMTT(30)
    <3>2. QED
      BY <1>a, <2>3, <2>4, <3>1 DEF OnceOnRq
  <2>6. \A d \in Entity : OnRq(d)' <=> OnRq(d) /\ d # e
    BY <1>0, <2>3, <2>4 DEF OnRq
  <2>7. /\ job_queue[e] = <<>>
        /\ \A j \in Job : JobEntity[j] = e => push[j] \in {"new", "done"}
        /\ ~(wentity = e /\ wpc \in Holding)
    BY <1>0, <1>a, <1>b, <1>c, <2>1 DEF Teardown
  <2>8. LinkedOnce'
    <3>1. \A j \in Job : ~Linking(j, e)
      BY <2>7 DEF Linking
    <3>2. \A j \in Job, d \in Entity : Linking(j, d)' <=> Linking(j, d)
      BY <2>1 DEF Linking
    <3>3. QED
      BY <1>a, <2>1, <2>6, <2>7, <3>1, <3>2, SMTT(30) DEF LinkedOnce
  <2>9. LinkIfAbsent'
    BY <1>0, <1>a, <2>1, <2>6 DEF LinkIfAbsent
  <2>10. Teardown'
    <3>1. \A d \in Entity : d # e => fini'[d] = fini[d]
      BY <1>0, <2>1
    <3>2. /\ current_entity'[RqOf(e)] # e
          /\ \A d \in Entity : current_entity'[RqOf(d)] = d => current_entity[RqOf(d)] = d
      BY <1>0, <2>1, ConstantsAssumption
    <3>3. QED
      BY <1>0, <1>a, <2>1, <2>6, <2>7, <3>1, <3>2, SMTT(30) DEF Teardown
  <2>11. QED
    BY <2>1, <2>5, <2>8, <2>9, <2>10, RqFrame DEF RqInv
\* A fence of another ring is signaled: entities stop waiting.
<1>8. ASSUME NEW x \in Foreign, ForeignSignal(x) PROVE RqInv'
  <2>1. /\ UNCHANGED <<push, fini, job_queue, rq, current_entity, wpc, wentity>>
        /\ \A e \in Entity : dependency'[e] \in {dependency[e], None}
    BY <1>8 DEF ForeignSignal
  <2>2. WaitsWithJob'
    BY <1>a, <1>b, <2>1 DEF WaitsWithJob
  <2>3. QED
    BY <2>1, <2>2, RqFrame DEF RqInv
\* The worker.
<1>9. CASE \/ main_wait \/ main_unparked \/ main_sleep \/ main_wake_up
           \/ amd_sched_job_begin \/ main_run_job \/ main_attach
  <2>1. UNCHANGED <<push, fini, job_queue, dependency, rq, current_entity>>
    BY <1>9 DEF main_wait, main_unparked, main_sleep, main_wake_up, amd_sched_job_begin,
         main_run_job, main_attach
  <2>2. \/ UNCHANGED wentity /\ (wpc \in Holding <=> wpc' \in Holding) /\ wpc # "wakeup"
        \/ wpc = "wakeup" /\ wpc' = "wait" /\ wentity' = None
    <3>1. CASE main_wait \/ main_unparked \/ main_sleep
      BY <3>1 DEF main_wait, main_unparked, main_sleep, Holding
    <3>2. CASE amd_sched_job_begin \/ main_run_job \/ main_attach
      BY <3>2 DEF amd_sched_job_begin, main_run_job, main_attach, Holding
    <3>3. CASE main_wake_up
      BY <3>3 DEF main_wake_up, LoopLocals
    <3>4. QED
      BY <1>9, <3>1, <3>2, <3>3
  <2>3. WaitsWithJob'
    BY <1>a, <2>1, <2>2 DEF WaitsWithJob, Holding
  <2>4. QED
    BY <2>1, <2>2, <2>3, RqFrame DEF RqInv, Holding
<1>10. ASSUME NEW p \in Priority, NEW e \in amd_sched_rq_select_entity(p), Selected(p, e),
              UNCHANGED <<push, fini, job_queue, dependency, rq>>
       PROVE  RqInv'
  <2>1. /\ current_entity' = [current_entity EXCEPT ![p] = e]
        /\ wentity' = e /\ wpc' = "pop"
    BY <1>10 DEF Selected
  <2>2. e \in Entity /\ RqOf(e) = p /\ OnRq(e) /\ dependency[e] = None
    BY <1>a, SelectOnRq
  <2>3. \A d \in Entity : OnRq(d)' <=> OnRq(d)
    BY <1>10, RqFrame
  <2>4. \A j \in Job, d \in Entity : Linking(j, d)' <=> Linking(j, d)
    BY <1>10 DEF Linking
  <2>5. LinkedOnce'
    BY <1>a, <1>10, <2>1, <2>2, <2>3, <2>4 DEF LinkedOnce
  <2>6. Teardown'
    BY <1>0, <1>a, <1>10, <2>1, <2>2, <2>3 DEF Teardown
  <2>7. WaitsWithJob'
    BY <1>a, <1>10, <2>1, <2>2 DEF WaitsWithJob, Holding
  <2>8. QED
    BY <1>10, <2>5, <2>6, <2>7, RqFrame DEF RqInv
<1>11. CASE main_select \/ main_select_normal
  <2>1. UNCHANGED <<push, fini, job_queue, dependency, rq>>
    BY <1>11 DEF main_select, main_select_normal
  <2>2. ASSUME NEW pc \in {"sleep", "select_normal"}, NotSelected(pc) PROVE RqInv'
    <3>1. wpc \notin Holding \cup {"wakeup"} /\ wpc' \notin Holding \cup {"wakeup"}
          /\ UNCHANGED <<wentity, current_entity>>
      BY <1>11, <2>2 DEF main_select, main_select_normal, NotSelected, Holding
    <3>2. WaitsWithJob'
      BY <1>a, <2>1, <3>1 DEF WaitsWithJob
    <3>3. QED
      BY <2>1, <3>1, <3>2, RqFrame DEF RqInv
  <2>3. QED
    BY <1>10, <1>11, <2>1, <2>2 DEF main_select, main_select_normal, Priority
<1>12. CASE amd_sched_entity_pop_job
  <2>1. /\ wpc = "pop" /\ wpc' \in {"begin", "pop", "wait"}
        /\ wentity' = IF wpc' = "wait" THEN None ELSE wentity
        /\ UNCHANGED <<push, fini, job_queue, rq, current_entity>>
    BY <1>12 DEF amd_sched_entity_pop_job, LoopLocals
  <2>2. wentity \in Entity /\ job_queue[wentity] # <<>>
    BY <1>b, <1>c, <2>1 DEF Holding
  <2>3. \E d : dependency' = [dependency EXCEPT ![wentity] = d] /\ (wpc' # "wait" => d = None)
    BY <1>12 DEF amd_sched_entity_pop_job
  <2>4. WaitsWithJob'
    BY <1>0, <1>a, <2>1, <2>2, <2>3 DEF WaitsWithJob, Holding
  <2>5. QED
    BY <2>1, <2>4, RqFrame DEF RqInv, Holding
<1>13. CASE amd_sched_fence_scheduled
  <2>1. /\ wpc = "scheduled" /\ wpc' = "attach"
        /\ UNCHANGED <<push, fini, job_queue, rq, current_entity, wentity>>
        /\ \A e \in Entity : dependency'[e] \in {dependency[e], None}
    BY <1>13 DEF amd_sched_fence_scheduled
  <2>2. WaitsWithJob'
    BY <1>a, <1>b, <2>1 DEF WaitsWithJob, Holding
  <2>3. QED
    BY <2>1, <2>2, RqFrame DEF RqInv, Holding
<1>14. CASE main_kfifo_out
  <2>1. /\ wpc \in Holding /\ wpc' = "wakeup"
        /\ job_queue' = [job_queue EXCEPT ![wentity] = Tail(@)]
        /\ UNCHANGED <<push, fini, dependency, rq, current_entity, wentity>>
    BY <1>14 DEF main_kfifo_out, Holding
  <2>2. wentity \in Entity /\ job_queue[wentity] # <<>> /\ OnRq(wentity)
    BY <1>a, <1>b, <1>c, <2>1 DEF LinkedOnce
  <2>3. \A e \in Entity : e # wentity => job_queue'[e] = job_queue[e]
    BY <1>0, <2>1
  <2>4. \A e \in Entity : OnRq(e)' <=> OnRq(e)
    BY <2>1, RqFrame
  <2>5. \A j \in Job, e \in Entity : Linking(j, e)' <=> Linking(j, e)
    BY <2>1 DEF Linking
  <2>6. LinkedOnce'
    BY <1>a, <2>1, <2>2, <2>3, <2>4, <2>5 DEF LinkedOnce, Holding
  <2>7. Teardown'
    BY <1>0, <1>a, <2>1, <2>2, <2>3, <2>4 DEF Teardown
  <2>8. WaitsWithJob'
    BY <1>a, <2>1, <2>2, <2>3 DEF WaitsWithJob, Holding
  <2>9. QED
    BY <2>1, <2>6, <2>7, <2>8, RqFrame DEF RqInv
<1>15. CASE UNCHANGED <<push, fini, job_queue, dependency, rq, current_entity, wpc, wentity>>
  BY <1>15, RqFrame DEF RqInv
<1>16. ASSUME NEW j \in Job, amd_sched_fence_finished(j) \/ process_job_wakeup(j) PROVE RqInv'
  BY <1>15, <1>16 DEF amd_sched_fence_finished, process_job_wakeup
<1>17. ASSUME NEW e \in Entity, amd_sched_entity_wakeup(e) PROVE RqInv'
  BY <1>15, <1>17 DEF amd_sched_entity_wakeup
<1>18. CASE HwExecute \/ Quiet
  BY <1>15, <1>18 DEF HwExecute, Quiet
<1>19. QED
  BY <1>1, <1>2, <1>3, <1>4, <1>5, <1>6, <1>7, <1>8, <1>9, <1>11, <1>12, <1>13, <1>14,
     <1>16, <1>17, <1>18, StepCases DEF amd_sched_main

-----------------------------------------------------------------------------
(* The invariant the other proofs about the scheduler start from.          *)

SchedInv == TypeInv /\ QueueDiscipline /\ RunOnce /\ Limited /\ RqInv

\* Kfifos, run queues and the worker agree in every state that is reached.
LEMMA SchedInvariant == Spec => []SchedInv
<1>1. Init => SchedInv
  <2> SUFFICES ASSUME Init PROVE SchedInv
    OBVIOUS
  <2>1. TypeInv
    BY TypeInvInit
  <2>2. QueueDiscipline /\ RunOnce
    BY SMTT(30) DEF Init, QueueDiscipline, RunOnce
  <2>3. Limited
    BY ConstantsAssumption, SMTT(30) DEF Init, Limited
  <2>4. OnceOnRq /\ LinkIfAbsent
    BY SMTT(30) DEF Init, OnceOnRq, LinkIfAbsent
  <2>5. LinkedOnce
    BY ConstantsAssumption DEF Init, LinkedOnce, Linking, Holding
  <2>6. Teardown /\ WaitsWithJob
    BY DEF Init, Teardown, WaitsWithJob, Holding
  <2>7. QED
    BY <2>1, <2>2, <2>3, <2>4, <2>5, <2>6 DEF SchedInv, RqInv
<1>2. SchedInv /\ [Next]_vars => SchedInv'
  BY TypeInvStep, QueueDisciplineStep, RunOnceStep, LimitedStep, RqInvStep DEF SchedInv
<1>3. QED
  BY <1>1, <1>2, PTL DEF Spec
=============================================================================

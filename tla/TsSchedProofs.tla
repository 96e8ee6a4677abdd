--------------------------- MODULE TsSchedProofs ---------------------------
(***************************************************************************)
(* Theorems about TsSched, for every set of tasks, every set of requests   *)
(* and every TickStride.                                                   *)
(***************************************************************************)
EXTENDS TsQueueProofs

(* The same tasks are queued, under the same class and priority. *)
SameFiling(tk, tk2) ==
    \A q \in Task : /\ tk2[q].on_rq = tk[q].on_rq
                    /\ tk[q].on_rq => /\ tk2[q].class = tk[q].class
                                      /\ tk2[q].prio = tk[q].prio

LEMMA FrameGood ==
    ASSUME NEW r, NEW tk, NEW tk2, Good(r, tk), SameFiling(tk, tk2)
    PROVE  Good(r, tk2)
<1> USE DEF SameFiling
<1>1. \A class : Queued(tk2, class) = Queued(tk, class)
  BY DEF Queued
<1>2. \A q \in Queued(tk, "rt") : tk2[q].prio = tk[q].prio
  BY DEF Queued
<1> QED BY <1>1, <1>2 DEF Good, Count

LEMMA FlagsIgnored ==
    ASSUME NEW r, NEW t, NEW p, NEW f, NEW g, t.class # "rt"
    PROVE  /\ dequeue_task(r, t, p, f) = dequeue_task(r, t, p, g)
           /\ enqueue_task(r, t, p, f) = enqueue_task(r, t, p, g)
BY DEF dequeue_task, enqueue_task

LEMMA RequeueMoves ==
    ASSUME NEW r, NEW tk, NEW tk2, NEW p \in Task, NEW tnew, NEW d, NEW e,
           tk \in [CPUS -> TaskType],
           Good(r, tk), SameBut(tk, tk2, p), tk2[p] = tnew,
           tk[p].class \in {"rt", "ts", "fair"}, Queueable(tnew),
           tnew.on_rq = tk[p].on_rq, move_entity(d), move_entity(e)
    PROVE  Good(Requeue(r, tk[p], tnew, p, d, e), tk2)
<1>1. CASE tk[p].on_rq
  <2> DEFINE off == [tk EXCEPT ![p].on_rq = FALSE]
             r1 == dequeue_task(r, tk[p], p, d)
  <2>1. /\ SameBut(tk, off, p) /\ off[p].on_rq = FALSE
        /\ SameBut(off, tk2, p)
    BY DEF SameBut, CPUS, TaskType
  <2>2. Good(r1, off)
    <3> HIDE DEF off
    <3> QED BY <1>1, <2>1, DequeueGood, Zenon
  <2>3. tk2[p].on_rq /\ tk2[p].class = tnew.class /\ tk2[p].prio = tnew.prio
    BY <1>1
  <2> HIDE DEF off, r1
  <2>4. Good(enqueue_task(r1, tnew, p, e), tk2)
    BY <2>1, <2>2, <2>3, EnqueueGood, Zenon
  <2> QED BY <1>1, <2>4 DEF Requeue, r1
<1>2. CASE ~tk[p].on_rq
  <2>1. Good(r, tk2)
    <3>1. SameFiling(tk, tk2)
      BY <1>2 DEF SameBut, SameFiling
    <3> QED BY <3>1, FrameGood
  <2> QED BY <1>2, <2>1 DEF Requeue
<1> QED BY <1>1, <1>2

LEMMA RequeueInPlace ==
    ASSUME NEW r, NEW tk, NEW tk2, NEW p \in Task, NEW tnew, NEW d, NEW e,
           tk \in [CPUS -> TaskType],
           Good(r, tk), SameBut(tk, tk2, p), tk2[p] = tnew,
           tk[p].class \in {"rt", "ts", "fair"}, Queueable(tnew),
           tnew.on_rq = tk[p].on_rq, ~move_entity(d), ~move_entity(e),
           (tk[p].class = "rt") = (tnew.class = "rt"),
           tk[p].class = "rt" => tnew.prio = tk[p].prio
    PROVE  Good(Requeue(r, tk[p], tnew, p, d, e), tk2)
<1>1. CASE tk[p].class = "rt" /\ tk[p].on_rq
  <2>1. r \in RqType
    BY DEF Good
  <2> DEFINE r1 == dequeue_task(r, tk[p], p, d)
  <2>2. r1 = [r EXCEPT !.rt = r.rt, !.nr_running = @ - 1]
    BY <1>1 DEF dequeue_task, dequeue_task_rt
  <2>3. r1 = [ts |-> r.ts, rt |-> r.rt, cfs |-> r.cfs, nr_running |-> r.nr_running - 1]
    BY <2>1, <2>2, Zenon DEF RqType
  <2> HIDE DEF r1
  <2>4. enqueue_task(r1, tnew, p, e) = [r1 EXCEPT !.rt = r1.rt, !.nr_running = @ + 1]
    BY <1>1 DEF enqueue_task, enqueue_task_rt
  <2>5. enqueue_task(r1, tnew, p, e) =
        [ts |-> r.ts, rt |-> r.rt, cfs |-> r.cfs, nr_running |-> r.nr_running - 1 + 1]
    BY <2>3, <2>4, Zenon
  <2>6. enqueue_task(r1, tnew, p, e) = r
    BY <2>1, <2>5 DEF RqType
  <2>7. Good(r, tk2)
    <3>1. SameFiling(tk, tk2)
      BY <1>1, Zenon DEF SameBut, SameFiling
    <3> QED BY <3>1, FrameGood
  <2> QED BY <1>1, <2>6, <2>7 DEF Requeue, r1
<1>2. CASE tk[p].class # "rt"
  <2>1. move_entity({})
    BY DEF move_entity
  <2>2. Requeue(r, tk[p], tnew, p, d, e) = Requeue(r, tk[p], tnew, p, {}, {})
    BY <1>2, FlagsIgnored DEF Requeue
  <2> QED BY <2>1, <2>2, RequeueMoves
<1>3. CASE ~tk[p].on_rq
  <2>1. Good(r, tk2)
    <3>1. SameFiling(tk, tk2)
      BY <1>3 DEF SameBut, SameFiling
    <3> QED BY <3>1, FrameGood
  <2> QED BY <1>3, <2>1 DEF Requeue
<1> QED BY <1>1, <1>2, <1>3

LEMMA MoveTsGood ==
    ASSUME NEW r, NEW tk, NEW tk2, NEW p \in Task, NEW prio \in TsPriority,
           tk \in [CPUS -> TaskType],
           Good(r, tk), SameBut(tk, tk2, p), tk2[p] \in TaskType,
           tk[p].on_rq, tk[p].class = "ts", tk2[p].on_rq, tk2[p].class = "ts"
    PROVE  Good([r EXCEPT !.ts = list_move_tail(@, Level(prio), p)], tk2)
<1> DEFINE t == [tk2[p] EXCEPT !.prio = prio]
           off == [tk EXCEPT ![p].on_rq = FALSE]
           r1 == dequeue_task(r, tk[p], p, {})
<1>1. /\ t.class = "ts" /\ t.prio = prio /\ Queueable(t) /\ move_entity({})
  BY DEF TaskType, Queueable, move_entity
<1>2. /\ SameBut(tk, off, p) /\ off[p].on_rq = FALSE /\ SameBut(off, tk2, p)
  BY DEF SameBut, CPUS, TaskType
<1> HIDE DEF off, t
<1>3. Good(r1, off)
  BY <1>1, <1>2, DequeueGood, Zenon
<1>4. r1 = [r EXCEPT !.ts = list_del(@, p)]
  BY DEF dequeue_task, dequeue_task_ts
<1> HIDE DEF r1
<1>5. Good(enqueue_task(r1, t, p, {}), tk2)
  BY <1>1, <1>2, <1>3, EnqueueGood, Zenon
<1>6. enqueue_task(r1, t, p, {}) = [r1 EXCEPT !.ts = list_add_tail(@, Level(prio), p)]
  BY <1>1 DEF enqueue_task, enqueue_task_ts
<1>7. [r EXCEPT !.ts = list_move_tail(@, Level(prio), p)]
      = [r1 EXCEPT !.ts = list_add_tail(@, Level(prio), p)]
  <2>1. r \in RqType
    BY DEF Good
  <2> QED BY <1>4, <2>1, Zenon DEF RqType, list_move_tail
<1> QED BY <1>5, <1>6, <1>7

LEMMA MoveRtGood ==
    ASSUME NEW r, NEW tk, NEW p \in Task,
           tk \in [CPUS -> TaskType], Good(r, tk),
           tk[p].on_rq, tk[p].class = "rt", tk[p].prio \in RtLevel
    PROVE  Good([r EXCEPT !.rt = list_move_tail(@, tk[p].prio, p)], tk)
<1> DEFINE t == tk[p]
           off == [tk EXCEPT ![p].on_rq = FALSE]
           r1 == dequeue_task(r, tk[p], p, {})
<1>1. Queueable(t) /\ move_entity({})
  BY DEF Queueable, move_entity
<1>2. /\ SameBut(tk, off, p) /\ off[p].on_rq = FALSE /\ SameBut(off, tk, p)
  BY DEF SameBut, CPUS, TaskType
<1> HIDE DEF off
<1>3. Good(r1, off)
  BY <1>1, <1>2, DequeueGood, Zenon
<1>4. r1 = [r EXCEPT !.rt = list_del(@, p), !.nr_running = @ - 1]
  BY <1>1 DEF dequeue_task, dequeue_task_rt
<1>a. r \in RqType /\ r.nr_running \in Int
  BY DEF Good, RqType
<1>b. r1 = [ts |-> r.ts, rt |-> list_del(r.rt, p), cfs |-> r.cfs,
            nr_running |-> r.nr_running - 1]
  BY <1>4, <1>a, Zenon DEF RqType
<1> HIDE DEF r1
<1>5. Good(enqueue_task(r1, t, p, {}), tk)
  BY <1>1, <1>2, <1>3, EnqueueGood, Zenon
<1> DEFINE y == list_add_tail(list_del(r.rt, p), t.prio, p)
<1>6. enqueue_task(r1, t, p, {}) = [r1 EXCEPT !.rt = y, !.nr_running = @ + 1]
  BY <1>1, <1>b DEF enqueue_task, enqueue_task_rt
<1>d. y = list_move_tail(r.rt, t.prio, p)
  BY DEF list_move_tail
<1> HIDE DEF y
<1> DEFINE z == list_del(r.rt, p)
           m == r.nr_running - 1
<1>e. r1 = [ts |-> r.ts, rt |-> z, cfs |-> r.cfs, nr_running |-> m]
  BY <1>b
<1>f. m \in Int /\ m + 1 = r.nr_running
  BY <1>a
<1> HIDE DEF z, m
<1>c. enqueue_task(r1, t, p, {})
      = [ts |-> r.ts, rt |-> y, cfs |-> r.cfs, nr_running |-> m + 1]
  <2> DEFINE w == [r1 EXCEPT !.rt = y]
  <2>1. w = [ts |-> r.ts, rt |-> y, cfs |-> r.cfs, nr_running |-> m]
    BY <1>e
  <2>2. enqueue_task(r1, t, p, {}) = [w EXCEPT !.nr_running = @ + 1]
    BY <1>6
  <2> HIDE DEF w
  <2>3. w.nr_running + 1 = m + 1
    BY <2>1
  <2>4. [w EXCEPT !.nr_running = @ + 1]
        = [ts |-> r.ts, rt |-> y, cfs |-> r.cfs, nr_running |-> m + 1]
    BY <1>f, <2>1, <2>3
  <2> QED BY <2>2, <2>4
<1>7. [r EXCEPT !.rt = list_move_tail(@, t.prio, p)] = enqueue_task(r1, t, p, {})
  <2>1. [r EXCEPT !.rt = y]
        = [ts |-> r.ts, rt |-> y, cfs |-> r.cfs, nr_running |-> r.nr_running]
    BY <1>a DEF RqType
  <2> QED BY <1>c, <1>d, <1>f, <2>1
<1> QED BY <1>5, <1>7

(* Whatever is picked is queued, or the idle task. *)
LEMMA PickQueued ==
    ASSUME NEW r, NEW tk, NEW class, Good(r, tk), NEW n \in pick_next_task(r, class)
    PROVE  n = Idle \/ (n \in Task /\ tk[n].on_rq)
<1>0. r \in RqType
  BY DEF Good
<1>1. ASSUME n \in pick_next_task_fair(r) PROVE n = Idle \/ (n \in Task /\ tk[n].on_rq)
  BY <1>1 DEF pick_next_task_fair, Good, Queued
<1>2. ASSUME n \in pick_next_task_ts(r) PROVE n \in Task /\ tk[n].on_rq
  <2>1. PICK i \in Occupied(r.ts) : n = Head(r.ts[i])
    BY <1>2 DEF pick_next_task_ts, Best
  <2>2. i \in 0 .. MAX_TS_LEVEL /\ r.ts[i] \in Seq(Task) /\ r.ts[i] # << >>
    BY <1>0, <2>1, Zenon DEF RqType, Occupied, list_empty
  <2>3. n \in Task /\ In(r.ts[i], n)
    BY <2>1, <2>2 DEF In
  <2> QED BY <2>2, <2>3 DEF Good, Queued
<1>3. ASSUME n \in pick_next_task_rt(r) PROVE n \in Task /\ tk[n].on_rq
  <2>1. PICK i \in Occupied(r.rt) : n = Head(r.rt[i])
    BY <1>3 DEF pick_next_task_rt, First
  <2>2. i \in RtLevel /\ r.rt[i] \in Seq(Task) /\ r.rt[i] # << >>
    BY <1>0, <2>1 DEF RqType, Occupied, list_empty
  <2>3. n \in Task /\ In(r.rt[i], n)
    BY <2>1, <2>2 DEF In
  <2> QED BY <2>2, <2>3 DEF Good, Queued
<1> QED BY <1>1, <1>2, <1>3 DEF pick_next_task

(***************************************************************************)
(* The inductive invariant.                                                *)
(***************************************************************************)
SliceFits(slice) == slice \in 1 .. 16 /\ slice % TickStride = 0

TaskOK(t) ==
    /\ t \in TaskType
    /\ t.class \in {"rt", "ts", "fair"}
    /\ (t.class = "rt") = rt_prio(t.prio)
    /\ t.class = "rt" => t.prio \in RtLevel
    /\ t.class = "ts" => t.policy = "TS"
    /\ t.normal_prio = normal_prio(t)
    /\ t.policy = "FIFO" => t.normal_prio \in RtLevel
    /\ t.pi \in RtLevel \cup TsPriority \cup {MAX_PRIO}
    /\ SliceFits(t.slice)
    /\ t.state \in {"new", "dead"} => t.on_rq = FALSE
    /\ t.state = "new" => /\ t.pi = MAX_PRIO
                          /\ t.prio = normal_prio(t)
                          /\ t.class = ClassOf(t.prio, t.policy)

IdleTask == [Unused EXCEPT !.class = "idle", !.on_rq = TRUE, !.state = "running"]

IInv ==
    /\ task \in [CPUS -> TaskType]
    /\ \A p \in Task : TaskOK(task[p])
    /\ task[Idle] = IdleTask
    /\ Good(rq, task)
    /\ curr \in CPUS
    /\ curr \in Task => task[curr].on_rq
    /\ need_resched \in BOOLEAN

(* The properties the runs check follow from it. *)
LEMMA IInvImplies ==
    ASSUME IInv
    PROVE  /\ TypeOK /\ FiledOnce /\ RtAtItsPrio
           /\ SliceInRange /\ NrRunningCounts /\ CurrQueued /\ NewTaskIsClean
<1>0. rq \in RqType
  BY DEF IInv, Good
<1>1. TypeOK
  BY <1>0 DEF IInv, TypeOK
<1>2. \A class : Runnable(class) = Queued(task, class)
  BY DEF Runnable, Queued
<1>3. \A s, e : At(s, e) # {} <=> In(s, e)
  BY DEF At, In
<1>4. Once(rq.ts) /\ Once(rq.rt)
  <2>1. ASSUME NEW b, Apart(b), NEW i \in Occupied(b), NEW j \in Occupied(b),
               NEW k \in DOMAIN b[i], NEW l \in DOMAIN b[j], b[i][k] = b[j][l]
        PROVE  i = j /\ k = l
    <3>1. i \in DOMAIN b /\ j \in DOMAIN b
      BY DEF Occupied
    <3>2. In(b[i], b[i][k]) /\ In(b[j], b[i][k])
      BY <2>1 DEF In
    <3>3. i = j
      BY <2>1, <3>1, <3>2 DEF Apart
    <3> QED BY <2>1, <3>1, <3>3 DEF Apart, Inj
  <2> QED BY <2>1 DEF IInv, Good, Once
<1>5. Linked(rq.ts) = Runnable("ts")
  <2>1. ASSUME NEW p \in Task
        PROVE  p \in Linked(rq.ts) <=> p \in Queued(task, "ts")
    <3>1. p \in Linked(rq.ts) <=> \E i \in 0 .. MAX_TS_LEVEL : In(rq.ts[i], p)
      BY <1>0, <1>3, Zenon DEF Linked, RqType
    <3> QED BY <3>1 DEF IInv, Good
  <2> QED BY <1>2, <2>1 DEF Linked, Queued
<1>6. Linked(rq.rt) = Runnable("rt")
  <2>1. ASSUME NEW p \in Task
        PROVE  p \in Linked(rq.rt) <=> p \in Queued(task, "rt")
    <3>1. p \in Linked(rq.rt) <=> \E i \in RtLevel : In(rq.rt[i], p)
      BY <1>0, <1>3, Zenon DEF Linked, RqType
    <3>2. p \in Queued(task, "rt") => task[p].prio \in RtLevel
      BY DEF IInv, TaskOK, Queued
    <3> QED BY <3>1, <3>2 DEF IInv, Good
  <2> QED BY <1>2, <2>1, Zenon DEF Linked, Queued
<1>7. FiledOnce
  BY <1>2, <1>4, <1>5, <1>6 DEF FiledOnce, IInv, Good
<1>8. RtAtItsPrio
  <2> SUFFICES ASSUME NEW i \in Occupied(rq.rt), NEW k \in DOMAIN rq.rt[i]
               PROVE  task[rq.rt[i][k]].prio = i
    BY DEF RtAtItsPrio
  <2>1. i \in RtLevel /\ rq.rt[i] \in Seq(Task)
    BY <1>0 DEF RqType, Occupied
  <2>2. rq.rt[i][k] \in Task /\ In(rq.rt[i], rq.rt[i][k])
    BY <2>1 DEF In
  <2> QED BY <2>1, <2>2 DEF IInv, Good
<1>9. SliceInRange
  BY DEF IInv, TaskOK, SliceFits, SliceInRange
<1>10. NrRunningCounts
  BY <1>2 DEF NrRunningCounts, IInv, Good, Count
<1>11. CurrQueued
  BY Zenon DEF CurrQueued, IInv, CPUS, IdleTask, Unused
<1>12. NewTaskIsClean
  BY DEF NewTaskIsClean, IInv, TaskOK
<1> QED BY <1>1, <1>7, <1>8, <1>9, <1>10, <1>11, <1>12

(* What TaskOK says depends on on_rq and state in its last two conjuncts only. *)
LEMMA StateOK ==
    ASSUME NEW t, TaskOK(t), NEW b \in BOOLEAN, NEW s \in {"running", "sleeping"}
    PROVE  TaskOK([t EXCEPT !.on_rq = b, !.state = s])
<1> DEFINE u == [t EXCEPT !.on_rq = b, !.state = s]
<1>1. t \in TaskType
  BY DEF TaskOK
<1>2. /\ u.policy = t.policy /\ u.class = t.class /\ u.prio = t.prio
      /\ u.normal_prio = t.normal_prio /\ u.static_prio = t.static_prio
      /\ u.rt_priority = t.rt_priority /\ u.slice = t.slice /\ u.pi = t.pi
      /\ u.state = s
  BY <1>1 DEF TaskType
<1>3. u \in TaskType
  BY <1>1, Zenon DEF TaskType
<1> HIDE DEF u
<1>4. normal_prio(u) = normal_prio(t)
  BY <1>2 DEF normal_prio
<1>5. TaskOK(u)
  BY <1>2, <1>3, <1>4 DEF TaskOK
<1> QED BY <1>5 DEF u

LEMMA UnusedOK ==
    /\ TaskOK(Unused)
    /\ TaskOK([Unused EXCEPT !.on_rq = TRUE, !.state = "running"])
    /\ IdleTask \in TaskType
<1>1. TickStride = 1 \/ TickStride = 2 \/ TickStride = 4
  BY EnvAssumption
<1>2. 12 % TickStride = 0
  BY <1>1
<1>3. 12 \in 1 .. 16
  OBVIOUS
<1>4. Unused \in TaskType
  BY DEF Unused, TaskType, Policy, Class, TsPriority, MAX_RT_PRIO, MAX_PRIO, DEFAULT_PRIO
<1>5. TaskOK(Unused)
  BY <1>2, <1>3, <1>4 DEF TaskOK, SliceFits, Unused, MAX_RT_PRIO, MAX_PRIO, DEFAULT_PRIO, rt_prio,
         normal_prio
<1> HIDE DEF Unused
<1>6. TaskOK([Unused EXCEPT !.on_rq = TRUE, !.state = "running"])
  BY <1>5, StateOK, Zenon
<1>7. IdleTask \in TaskType
  BY <1>4, Zenon DEF IdleTask, TaskType, Class
<1> QED BY <1>5, <1>6, <1>7

(* The initial run queue holds the boot tasks. *)
LEMMA InitIInv == Init => IInv
<1> SUFFICES ASSUME Init PROVE IInv
  OBVIOUS
<1>1. /\ task \in [CPUS -> TaskType] /\ task[Idle] = IdleTask
      /\ \A p \in Boot : task[p] = [Unused EXCEPT !.on_rq = TRUE, !.state = "running"]
      /\ \A p \in Task : p \notin Boot => task[p] = Unused
  <2>1. /\ Unused \in TaskType /\ IdleTask \in TaskType
        /\ [Unused EXCEPT !.on_rq = TRUE, !.state = "running"] \in TaskType
    BY UnusedOK DEF TaskOK
  <2> HIDE DEF Unused
  <2> QED BY <2>1, EnvAssumption DEF Init, CPUS, IdleTask
<1>2. \A p \in Task : TaskOK(task[p])
  BY <1>1, UnusedOK
<1>3. \A p \in Task : /\ task[p].class = "fair"
                      /\ task[p].on_rq <=> p \in Boot
  <2> DEFINE u == [Unused EXCEPT !.on_rq = TRUE, !.state = "running"]
  <2>1. Unused.class = "fair" /\ Unused.on_rq = FALSE /\ u.class = "fair" /\ u.on_rq = TRUE
    BY DEF Unused
  <2> HIDE DEF u
  <2>2. \A p \in Task : task[p] = IF p \in Boot THEN u ELSE Unused
    BY <1>1 DEF u
  <2> QED BY <2>1, <2>2
<1>4. Queued(task, "fair") = Boot /\ Queued(task, "rt") = {} /\ Queued(task, "ts") = {}
  BY <1>3, EnvAssumption DEF Queued
<1>5. rq = [ts |-> [i \in 0 .. MAX_TS_LEVEL |-> << >>], rt |-> [i \in RtLevel |-> << >>],
            cfs |-> Boot, nr_running |-> Cardinality(Boot)]
  BY Zenon DEF Init, EmptyRq
<1>6. Cardinality(Boot) \in Nat /\ Cardinality({}) = 0
  BY EnvAssumption, FS_Subset, FS_CardinalityType, FS_EmptySet
<1>7. Good(rq, task)
  <2>1. rq \in RqType
    <3>1. << >> \in Seq(Task)
      OBVIOUS
    <3> QED BY <1>5, <1>6, <3>1, EnvAssumption DEF RqType
  <2>2. /\ \A i \in 0 .. MAX_TS_LEVEL : rq.ts[i] = << >>
        /\ \A i \in RtLevel : rq.rt[i] = << >>
        /\ DOMAIN rq.ts = 0 .. MAX_TS_LEVEL /\ DOMAIN rq.rt = RtLevel
    BY <1>5
  <2>3. \A q : ~In(<< >>, q)
    BY DEF In
  <2>4. Apart(rq.ts) /\ Apart(rq.rt)
    BY <2>2, <2>3 DEF Apart, Inj
  <2>5. rq.nr_running = Count(task) /\ rq.cfs = Queued(task, "fair")
    <3>1. Count(task) = Cardinality(Boot) + 0
      BY <1>4, <1>6 DEF Count
    <3> QED BY <1>4, <1>5, <1>6, <3>1
  <2> QED BY <1>4, <2>1, <2>2, <2>3, <2>4, <2>5 DEF Good
<1>8. curr \in CPUS /\ (curr \in Task => task[curr].on_rq) /\ need_resched \in BOOLEAN
  BY EnvAssumption DEF Init, CPUS
<1> QED BY <1>1, <1>2, <1>7, <1>8 DEF IInv

(***************************************************************************)
(* Every step that writes task_struct writes one of them.                  *)
(***************************************************************************)
LEMMA OneTask ==
    ASSUME IInv, NEW p \in Task, NEW t, TaskOK(t), task' = [task EXCEPT ![p] = t],
           Good(rq', task'), curr' \in CPUS, curr' \in Task => task'[curr'].on_rq,
           need_resched' \in BOOLEAN
    PROVE  IInv'
<1>1. t \in TaskType /\ p \in CPUS /\ p # Idle /\ Idle \in CPUS
  BY EnvAssumption DEF TaskOK, CPUS
<1>2. task' \in [CPUS -> TaskType] /\ task'[Idle] = IdleTask
  BY <1>1 DEF IInv
<1>3. ASSUME NEW q \in Task PROVE TaskOK(task'[q])
  <2>1. task'[q] = IF q = p THEN t ELSE task[q]
    BY <1>1 DEF IInv, CPUS
  <2> QED BY <2>1 DEF IInv
<1> QED BY <1>2, <1>3 DEF IInv

(* After a switch the picked task runs, and it is queued. *)
LEMMA SwitchOK ==
    ASSUME NEW r, NEW class, Good(r, task'), SwitchFrom(r, class)
    PROVE  /\ Good(rq', task') /\ curr' \in CPUS
           /\ curr' \in Task => task'[curr'].on_rq
           /\ need_resched' \in BOOLEAN
<1>1. rq' = r /\ curr' \in pick_next_task(r, class) /\ need_resched' = FALSE
  BY DEF SwitchFrom
<1>2. curr' = Idle \/ (curr' \in Task /\ task'[curr'].on_rq)
  BY <1>1, PickQueued
<1> QED BY <1>1, <1>2, EnvAssumption, Zenon DEF CPUS

(* What writing t at p leaves alone. *)
LEMMA WriteOne ==
    ASSUME IInv, NEW p \in Task, NEW t, task' = [task EXCEPT ![p] = t]
    PROVE  SameBut(task, task', p) /\ task'[p] = t
BY DEF IInv, SameBut, CPUS

(* The parameters of a task are fit for its class's queue. *)
LEMMA TaskQueueable ==
    ASSUME NEW t, TaskOK(t)
    PROVE  Queueable(t)
<1>1. t.class \in {"rt", "ts", "fair"} /\ (t.class = "rt" => t.prio \in RtLevel)
  BY DEF TaskOK
<1>2. t.class = "ts" => t.prio \in TsPriority
  BY DEF TaskOK, TaskType, rt_prio, TsPriority, MAX_RT_PRIO, MAX_PRIO
<1> QED BY <1>1, <1>2 DEF Queueable

(* What the invariant says of a task and of the running task. *)
LEMMA CurrOK ==
    ASSUME IInv
    PROVE  /\ \A p \in Task : TaskOK(task[p]) /\ task[p] \in TaskType /\ p \in CPUS
           /\ task[Idle].class = "idle" /\ task[Idle].state = "running"
           /\ curr = Idle \/ (curr \in Task /\ task[curr].on_rq)
           /\ need_resched \in BOOLEAN
BY DEF IInv, CPUS, TaskOK, IdleTask, Unused
=============================================================================

------------------------------ MODULE TsSched ------------------------------
(***************************************************************************)
(* One CPU's run queue: the core scheduler (core.c) driving the real-time  *)
(* class (rt.c), the SCHED_TS class (ts.c) and, as an external component,  *)
(* the fair class.  Every operation below runs under rq->lock, so each is  *)
(* one atomic step; what interleaves is the order in which the running     *)
(* task, interrupts and other CPUs' system calls take the lock.            *)
(***************************************************************************)
EXTENDS TsPrio, KList, FiniteSets

CONSTANTS
    Task,           \* task_struct slots; a slot is reused after exit and fork
    Idle,           \* rq->idle
    Boot,           \* the tasks that are runnable in the initial state
    RtLevel,        \* the kernel priorities below 100 that are in use
    SchedRequest,   \* pairs <<task, attr>> asked of sched_setscheduler/setattr
    NiceRequest,    \* pairs <<task, nice>> asked of setpriority
    DonorRequest,   \* pairs <<task, prio>> of PI donors; MAX_PRIO is no donor
    Sleepers,       \* the tasks that block
    Forkers,        \* the tasks that fork
    Exiters,        \* the tasks that exit
    Yielders,       \* the tasks that call sched_yield
    Movers,         \* the tasks moved between groups or NUMA nodes
    TickStride      \* ticks a Tick step accounts for (1 is the code)

CPUS == Task \cup {Idle}
Policy == {"NORMAL", "FIFO", "TS"}
Class == {"rt", "ts", "fair", "idle"}
Nice == -20 .. 19

(* The for_each_class order: rt.c:2378, ts.c:221. *)
Rank == [rt |-> 3, ts |-> 2, fair |-> 1, idle |-> 0]

SchedAttr == [policy : Policy, prio : 0 .. 99, nice : Nice, reset : BOOLEAN]

ASSUME EnvAssumption ==
    /\ IsFiniteSet(Task)
    /\ Idle \notin Task
    /\ Boot \subseteq Task
    /\ RtLevel \subseteq 0 .. MAX_RT_PRIO - 2
    /\ SchedRequest \subseteq Task \X SchedAttr
    /\ \A r \in SchedRequest :
           /\ (r[2].policy = "FIFO") = (r[2].prio # 0)
           /\ r[2].policy = "FIFO" => MAX_RT_PRIO - 1 - r[2].prio \in RtLevel
    /\ NiceRequest \subseteq Task \X Nice
    /\ DonorRequest \subseteq Task \X (RtLevel \cup TsPriority \cup {MAX_PRIO})
    /\ Sleepers \cup Forkers \cup Exiters \cup Yielders \cup Movers \subseteq Task
    /\ TickStride \in {1, 2, 4}

VARIABLES
    task,           \* task_struct: scheduling parameters and state
    rq,             \* the queues of the classes and rq->nr_running
    curr,           \* rq->curr
    need_resched    \* TIF_NEED_RESCHED of rq->curr

vars == <<task, rq, curr, need_resched>>

(***************************************************************************)
(* Priorities.                                                             *)
(***************************************************************************)
MinOf(a, b) == IF a <= b THEN a ELSE b

rt_prio(prio) == prio < MAX_RT_PRIO
NICE_TO_PRIO(nice) == nice + DEFAULT_PRIO
PRIO_TO_NICE(prio) == prio - DEFAULT_PRIO
task_nice(t) == PRIO_TO_NICE(t.static_prio)

normal_prio(t) ==
    IF t.policy = "FIFO" THEN MAX_RT_PRIO - 1 - t.rt_priority ELSE t.static_prio

(* A task without donor has pi = MAX_PRIO, which no minimum ever picks. *)
rt_effective_prio(t, prio) == MinOf(prio, t.pi)

effective_prio(t) == IF rt_prio(t.prio) THEN t.prio ELSE normal_prio(t)

(* Mutant: the class goes by the priority alone, as in rt_mutex_setprio. *)
ClassOf_NoPolicy(prio, policy) == IF rt_prio(prio) THEN "rt" ELSE "fair"

(* The class __setscheduler and sched_fork derive from prio and policy. *)
ClassOf(prio, policy) ==
    IF rt_prio(prio) THEN "rt" ELSE IF policy = "TS" THEN "ts" ELSE "fair"

(***************************************************************************)
(* The class methods that queue a task.  rq.ts and rq.rt are banks of      *)
(* lists, rq.cfs the set of queued fair tasks; the TS methods never touch  *)
(* rq.nr_running.                                                          *)
(***************************************************************************)
EmptyRq ==
    [ts |-> [i \in 0 .. MAX_TS_LEVEL |-> << >>], rt |-> [i \in RtLevel |-> << >>],
     cfs |-> {}, nr_running |-> 0]

(* The level is computed before a wakeup changes the priority. *)
enqueue_task_ts(r, t, p) == [r EXCEPT !.ts = list_add_tail(@, Level(t.prio), p)]

PrioOnEnqueue(t, flags) ==
    IF t.class = "ts" /\ "WAKEUP" \in flags THEN get_new_prio(t.prio, WOKEN) ELSE t.prio

dequeue_task_ts(r, p) == [r EXCEPT !.ts = list_del(@, p)]

(* A SAVE/RESTORE pair without MOVE keeps the entity's place in its list. *)
move_entity(flags) == ~("SAVE" \in flags /\ "MOVE" \notin flags)

enqueue_task_rt(r, t, p, flags) ==
    [r EXCEPT !.rt = IF ~move_entity(flags) THEN @
                     ELSE IF "HEAD" \in flags THEN list_add(@, t.prio, p)
                     ELSE list_add_tail(@, t.prio, p),
              !.nr_running = @ + 1]

(* Mutant: a task that keeps its place stays counted. *)
dequeue_task_rt_CountKept(r, p, flags) ==
    [r EXCEPT !.rt = IF move_entity(flags) THEN list_del(@, p) ELSE @,
              !.nr_running = IF move_entity(flags) THEN @ - 1 ELSE @]

dequeue_task_rt(r, p, flags) ==
    [r EXCEPT !.rt = IF move_entity(flags) THEN list_del(@, p) ELSE @,
              !.nr_running = @ - 1]

enqueue_task_fair(r, p) == [r EXCEPT !.cfs = @ \cup {p}, !.nr_running = @ + 1]

dequeue_task_fair(r, p) == [r EXCEPT !.cfs = @ \ {p}, !.nr_running = @ - 1]

enqueue_task(r, t, p, flags) ==
    IF t.class = "ts" THEN enqueue_task_ts(r, t, p)
    ELSE IF t.class = "rt" THEN enqueue_task_rt(r, t, p, flags)
    ELSE enqueue_task_fair(r, p)

dequeue_task(r, t, p, flags) ==
    IF t.class = "ts" THEN dequeue_task_ts(r, p)
    ELSE IF t.class = "rt" THEN dequeue_task_rt(r, p, flags)
    ELSE dequeue_task_fair(r, p)

(***************************************************************************)
(* Preemption tests: the set of possible answers to "is resched_curr       *)
(* called?".  Only the fair class, whose decision depends on virtual       *)
(* runtimes, has more than one.                                            *)
(***************************************************************************)
check_preempt_curr_ts(c, t) == c.prio > t.prio

check_preempt_curr_rt(c, t) == t.prio < c.prio

check_preempt_curr(c, t) ==
    IF t.class # c.class THEN {Rank[t.class] > Rank[c.class]}
    ELSE IF t.class = "ts" THEN {check_preempt_curr_ts(c, t)}
    ELSE IF t.class = "rt" THEN {check_preempt_curr_rt(c, t)}
    ELSE BOOLEAN

(***************************************************************************)
(* What a change of class or priority does to the running task.  p's       *)
(* parameters go from told to tnew, r is the run queue after the change    *)
(* and c the running task's parameters after it.                           *)
(***************************************************************************)
switched_to_rt(tnew, p, c) == tnew.on_rq /\ curr # p /\ tnew.prio < c.prio

switched_to_ts(tnew, p, c) == FALSE

switched_to_fair(tnew, p, c) ==
    IF ~tnew.on_rq THEN {FALSE}
    ELSE IF curr = p THEN {TRUE}
    ELSE check_preempt_curr(c, tnew)

(* Mutant: a running task whose priority drops is not rescheduled. *)
prio_changed_rt_RunningIgnored(r, tnew, p, c) ==
    tnew.on_rq /\ curr # p /\ tnew.prio < c.prio

prio_changed_rt(r, tnew, p, c) ==
    /\ tnew.on_rq
    /\ IF curr = p THEN \E i \in Occupied(r.rt) : tnew.prio > i
                   ELSE tnew.prio < c.prio

prio_changed_ts(r, tnew, p, c) == FALSE

prio_changed_fair(told, tnew, p, c) ==
    IF ~tnew.on_rq THEN {FALSE}
    ELSE IF curr = p THEN {tnew.prio > told.prio}
    ELSE check_preempt_curr(c, tnew)

check_class_changed(r, told, tnew, p, c) ==
    IF told.class # tnew.class
    THEN IF tnew.class = "rt" THEN {switched_to_rt(tnew, p, c)}
         ELSE IF tnew.class = "ts" THEN {switched_to_ts(tnew, p, c)}
         ELSE switched_to_fair(tnew, p, c)
    ELSE IF told.prio = tnew.prio THEN {FALSE}
    ELSE IF tnew.class = "rt" THEN {prio_changed_rt(r, tnew, p, c)}
    ELSE IF tnew.class = "ts" THEN {prio_changed_ts(r, tnew, p, c)}
    ELSE prio_changed_fair(told, tnew, p, c)

(* Mutant: the dequeue sees the new class already. *)
Requeue_NewClass(r, told, tnew, p, dflags, eflags) ==
    IF told.on_rq
    THEN enqueue_task(dequeue_task(r, tnew, p, dflags), tnew, p, eflags)
    ELSE r

(* Dequeue under the old parameters, enqueue under the new ones. *)
Requeue(r, told, tnew, p, dflags, eflags) ==
    IF told.on_rq
    THEN enqueue_task(dequeue_task(r, told, p, dflags), tnew, p, eflags)
    ELSE r

(* The common end of the operations that change p's parameters. *)
Change(p, tnew, dflags, eflags) ==
    LET told == task[p]
        rnew == Requeue(rq, told, tnew, p, dflags, eflags)
        tasks == [task EXCEPT ![p] = tnew]
    IN  /\ task' = tasks
        /\ rq' = rnew
        /\ \E b \in check_class_changed(rnew, told, tnew, p, tasks[curr]) :
               need_resched' = (need_resched \/ b)
        /\ UNCHANGED curr

(***************************************************************************)
(* Picking the next task.                                                  *)
(***************************************************************************)
Best(levels) == {i \in levels : \A j \in levels : j <= i}
First(levels) == {i \in levels : \A j \in levels : i <= j}

pick_next_task_ts(r) == {Head(r.ts[i]) : i \in Best(Occupied(r.ts))}

pick_next_task_rt(r) == {Head(r.rt[i]) : i \in First(Occupied(r.rt))}

pick_next_task_fair(r) == IF r.cfs = {} THEN {Idle} ELSE r.cfs

(* All runnable tasks are counted in the fair class, or none is runnable. *)
FastPath(r, class) ==
    /\ class \in {"fair", "idle"}
    /\ r.nr_running = Cardinality(r.cfs)

pick_next_task(r, class) ==
    IF FastPath(r, class) THEN pick_next_task_fair(r)
    ELSE IF Occupied(r.rt) # {} THEN pick_next_task_rt(r)
    ELSE IF Occupied(r.ts) # {} THEN pick_next_task_ts(r)
    ELSE pick_next_task_fair(r)

(* Switch to the picked task; class is the class of the outgoing one. *)
SwitchFrom(r, class) ==
    /\ rq' = r
    /\ curr' \in pick_next_task(r, class)
    /\ need_resched' = FALSE

(***************************************************************************)
(* Blocking, preemption, yielding, exit.                                   *)
(***************************************************************************)

(* set_current_state(TASK_INTERRUPTIBLE) before the condition is tested.   *)
PrepareToSleep ==
    /\ curr \in Sleepers
    /\ task[curr].state = "running"
    /\ task' = [task EXCEPT ![curr].state = "sleeping"]
    /\ UNCHANGED <<rq, curr, need_resched>>

(* __schedule(false) of a task that is about to sleep. *)
Block ==
    /\ task[curr].state = "sleeping"
    /\ \E signal_pending \in BOOLEAN :
           IF signal_pending
           THEN /\ task' = [task EXCEPT ![curr].state = "running"]
                /\ SwitchFrom(rq, task[curr].class)
           ELSE /\ task' = [task EXCEPT ![curr].on_rq = FALSE]
                /\ SwitchFrom(dequeue_task(rq, task[curr], curr, {"SLEEP"}),
                              task[curr].class)

(* __schedule(true), or schedule() of a running task; the idle loop's      *)
(* schedule_idle() is the same step.                                       *)
Preempt ==
    /\ need_resched
    /\ SwitchFrom(rq, task[curr].class)
    /\ UNCHANGED task

yield_task_ts(r, t, p) == [r EXCEPT !.ts = list_move_tail(@, Level(t.prio), p)]

yield_task_rt(r, t, p) == [r EXCEPT !.rt = list_move_tail(@, t.prio, p)]

do_sched_yield ==
    /\ curr \in Yielders
    /\ task[curr].state = "running"
    /\ LET t == task[curr] IN
       SwitchFrom(IF t.class = "ts" THEN yield_task_ts(rq, t, curr)
                  ELSE IF t.class = "rt" THEN yield_task_rt(rq, t, curr)
                  ELSE rq,
                  t.class)
    /\ UNCHANGED task

(* The contents of an unused task slot. *)
Unused ==
    [policy |-> "NORMAL", class |-> "fair", prio |-> DEFAULT_PRIO,
     normal_prio |-> DEFAULT_PRIO, static_prio |-> DEFAULT_PRIO,
     rt_priority |-> 0, slice |-> 12, reset |-> FALSE, pi |-> MAX_PRIO,
     on_rq |-> FALSE, state |-> "dead"]

(* A task holds no PI lock when it exits. *)
do_task_dead ==
    /\ curr \in Exiters
    /\ task[curr].state = "running"
    /\ task[curr].pi = MAX_PRIO
    /\ task' = [task EXCEPT ![curr] = Unused]
    /\ SwitchFrom(dequeue_task(rq, task[curr], curr, {"SLEEP"}), task[curr].class)

(***************************************************************************)
(* The timer tick.                                                         *)
(***************************************************************************)
(* Mutant: an expired slice does not set need_resched. *)
task_tick_ts_NoResched(t) ==
    LET left == t.slice - TickStride
        prio == get_new_prio(t.prio, EXPIRED)
    IN  IF left # 0
        THEN /\ task' = [task EXCEPT ![curr].slice = left]
             /\ UNCHANGED <<rq, need_resched>>
        ELSE /\ task' = [task EXCEPT ![curr].prio = prio,
                                     ![curr].slice = get_num_ticks(prio)]
             /\ rq' = [rq EXCEPT !.ts = list_move_tail(@, Level(prio), curr)]
             /\ UNCHANGED need_resched

task_tick_ts(t) ==
    LET left == t.slice - TickStride
        prio == get_new_prio(t.prio, EXPIRED)
    IN  IF left # 0
        THEN /\ task' = [task EXCEPT ![curr].slice = left]
             /\ UNCHANGED <<rq, need_resched>>
        ELSE /\ task' = [task EXCEPT ![curr].prio = prio,
                                     ![curr].slice = get_num_ticks(prio)]
             /\ rq' = [rq EXCEPT !.ts = list_move_tail(@, Level(prio), curr)]
             /\ need_resched' = TRUE

scheduler_tick ==
    /\ task[curr].class \in {"ts", "fair"}
    /\ IF task[curr].class = "ts" THEN task_tick_ts(task[curr])
       ELSE need_resched' \in {need_resched, TRUE} /\ UNCHANGED <<task, rq>>
    /\ UNCHANGED curr

(***************************************************************************)
(* Wakeups.                                                                *)
(***************************************************************************)
Activate(p, t, flags) ==
    LET woken == [t EXCEPT !.prio = PrioOnEnqueue(t, flags),
                           !.on_rq = TRUE, !.state = "running"]
    IN  /\ task' = [task EXCEPT ![p] = woken]
        /\ rq' = enqueue_task(rq, t, p, flags)
        /\ \E b \in check_preempt_curr(task[curr], woken) :
               need_resched' = (need_resched \/ b)
        /\ UNCHANGED curr

(* A task that is still queued only gets its state back (ttwu_remote).     *)
try_to_wake_up(p) ==
    /\ task[p].state = "sleeping"
    /\ IF task[p].on_rq
       THEN /\ task' = [task EXCEPT ![p].state = "running"]
            /\ \E b \in check_preempt_curr(task[curr], task[p]) :
                   need_resched' = (need_resched \/ b)
            /\ UNCHANGED <<rq, curr>>
       ELSE Activate(p, task[p], {"WAKEUP"})

wake_up_new_task(p) ==
    /\ task[p].state = "new"
    /\ Activate(p, task[p], {})

(***************************************************************************)
(* Fork.  The child starts from a copy of its parent's task_struct.        *)
(***************************************************************************)
(* Mutant: only real-time parents are reset; a negative nice is inherited. *)
ResetOnFork_KeepsNice(t) ==
    LET u == IF t.policy = "FIFO"
             THEN [t EXCEPT !.policy = "NORMAL", !.static_prio = DEFAULT_PRIO,
                            !.rt_priority = 0]
             ELSE t
    IN  [u EXCEPT !.prio = u.static_prio, !.normal_prio = u.static_prio,
                  !.reset = FALSE]

ResetOnFork(t) ==
    LET u == IF t.policy = "FIFO"
             THEN [t EXCEPT !.policy = "NORMAL", !.static_prio = DEFAULT_PRIO,
                            !.rt_priority = 0]
             ELSE IF task_nice(t) < 0 THEN [t EXCEPT !.static_prio = DEFAULT_PRIO]
             ELSE t
    IN  [u EXCEPT !.prio = u.static_prio, !.normal_prio = u.static_prio,
                  !.reset = FALSE]

__sched_fork(t) == [t EXCEPT !.on_rq = FALSE, !.slice = 12]

(* Mutant: the child keeps its parent's boosted priority. *)
Child_LeaksBoost(parent) ==
    LET copy == [__sched_fork(parent) EXCEPT !.state = "new", !.pi = MAX_PRIO]
        t == IF copy.reset THEN ResetOnFork(copy) ELSE copy
    IN  [t EXCEPT !.class = ClassOf(t.prio, t.policy)]

Child(parent) ==
    LET copy == [__sched_fork(parent) EXCEPT !.state = "new", !.pi = MAX_PRIO,
                                             !.prio = parent.normal_prio]
        t == IF copy.reset THEN ResetOnFork(copy) ELSE copy
    IN  [t EXCEPT !.class = ClassOf(t.prio, t.policy)]

sched_fork(child) ==
    /\ curr \in Forkers
    /\ task[curr].state = "running"
    /\ task[child].state = "dead"
    /\ task' = [task EXCEPT ![child] = Child(task[curr])]
    /\ UNCHANGED <<rq, curr, need_resched>>

(***************************************************************************)
(* Changes of policy, nice value, PI donor and group.                      *)
(***************************************************************************)
__setscheduler_params(t, attr) ==
    LET u == [t EXCEPT !.policy = attr.policy,
                       !.static_prio = IF attr.policy = "NORMAL"
                                       THEN NICE_TO_PRIO(attr.nice) ELSE @,
                       !.rt_priority = attr.prio]
    IN  [u EXCEPT !.normal_prio = normal_prio(u)]

__setscheduler(t, attr, keep_boost) ==
    LET u == __setscheduler_params(t, attr)
        prio == IF keep_boost THEN rt_effective_prio(u, normal_prio(u))
                              ELSE normal_prio(u)
    IN  [u EXCEPT !.prio = prio, !.class = ClassOf(prio, u.policy)]

(* Nothing but reset_on_fork would change. *)
SameParams(t, attr) ==
    /\ attr.policy = t.policy
    /\ attr.policy = "NORMAL" => attr.nice = task_nice(t)
    /\ attr.policy = "FIFO" => attr.prio = t.rt_priority

__sched_setscheduler(p, attr, pi) ==
    LET told == [task[p] EXCEPT !.reset = attr.reset]
        tnew == __setscheduler(told, attr, pi)
        newprio == MAX_RT_PRIO - 1 - attr.prio
        dflags == IF pi /\ rt_effective_prio(told, newprio) = told.prio
                  THEN {"SAVE"} ELSE {"SAVE", "MOVE"}
        eflags == IF told.prio < tnew.prio THEN dflags \cup {"HEAD"} ELSE dflags
    IN  IF SameParams(told, attr)
        THEN task' = [task EXCEPT ![p] = told] /\ UNCHANGED <<rq, curr, need_resched>>
        ELSE Change(p, tnew, dflags, eflags)

sched_setscheduler(p, attr) ==
    /\ task[p].state # "dead"
    /\ __sched_setscheduler(p, attr, TRUE)

set_user_nice(p, nice) ==
    LET told == task[p]
        renice == [told EXCEPT !.static_prio = NICE_TO_PRIO(nice)]
        tnew == [renice EXCEPT !.normal_prio = normal_prio(renice),
                               !.prio = effective_prio(renice)]
        resched == \/ tnew.prio < told.prio
                   \/ tnew.prio > told.prio /\ curr = p
    IN  /\ told.state # "dead"
        /\ task_nice(told) # nice
        /\ UNCHANGED curr
        /\ IF told.policy = "FIFO"
           THEN task' = [task EXCEPT ![p] = renice] /\ UNCHANGED <<rq, need_resched>>
           ELSE /\ task' = [task EXCEPT ![p] = tnew]
                /\ rq' = Requeue(rq, told, tnew, p, {"SAVE"}, {"SAVE"})
                /\ need_resched' = (need_resched \/ (told.on_rq /\ resched))

(* Mutant: a task that stays in the RT class is not moved. *)
rt_mutex_setprio_StaysLinked(p, donor) ==
    LET told == [task[p] EXCEPT !.pi = donor]
        prio == MinOf(told.normal_prio, donor)
        tnew == [told EXCEPT !.prio = prio,
                             !.class = IF rt_prio(prio) THEN "rt" ELSE "fair"]
        dflags == IF rt_prio(told.prio) /\ rt_prio(prio) THEN {"SAVE"} ELSE {"SAVE", "MOVE"}
        eflags == IF rt_prio(prio) /\ told.prio < prio
                  THEN dflags \cup {"HEAD"} ELSE dflags
    IN  /\ told.state \notin {"dead", "new"}
        /\ told.prio # prio \/ task[p].pi # donor
        /\ IF told.prio = prio
           THEN task' = [task EXCEPT ![p] = told] /\ UNCHANGED <<rq, curr, need_resched>>
           ELSE Change(p, tnew, dflags, eflags)

(* donor is the priority of the top waiter, MAX_PRIO when there is none.   *)
rt_mutex_setprio(p, donor) ==
    LET told == [task[p] EXCEPT !.pi = donor]
        prio == MinOf(told.normal_prio, donor)
        tnew == [told EXCEPT !.prio = prio,
                             !.class = IF rt_prio(prio) THEN "rt" ELSE "fair"]
        dflags == {"SAVE", "MOVE"}
        eflags == IF rt_prio(prio) /\ told.prio < prio
                  THEN dflags \cup {"HEAD"} ELSE dflags
    IN  /\ told.state \notin {"dead", "new"}
        /\ told.prio # prio \/ task[p].pi # donor
        /\ IF told.prio = prio
           THEN task' = [task EXCEPT ![p] = told] /\ UNCHANGED <<rq, curr, need_resched>>
           ELSE Change(p, tnew, dflags, eflags)

(* The task is taken off and put back without any parameter changing.      *)
TakeOffAndPutBack(p, flags) ==
    /\ task[p].state # "dead"
    /\ rq' = Requeue(rq, task[p], task[p], p, flags, flags)
    /\ UNCHANGED <<task, curr, need_resched>>

sched_setnuma(p) == TakeOffAndPutBack(p, {"SAVE"})

sched_move_task(p) == TakeOffAndPutBack(p, {"SAVE", "MOVE"})

(* One iteration of the loop of normalize_rt_tasks.                        *)
normalize_rt_task(p) ==
    /\ task[p].state # "dead"
    /\ IF rt_prio(task[p].prio)
       THEN __sched_setscheduler(p, [policy |-> "NORMAL", prio |-> 0, nice |-> 0,
                                     reset |-> FALSE], FALSE)
       ELSE task_nice(task[p]) < 0 /\ set_user_nice(p, 0)

(***************************************************************************)
(* The specification.                                                      *)
(***************************************************************************)
Init ==
    /\ task = [p \in CPUS |->
                 IF p = Idle THEN [Unused EXCEPT !.class = "idle", !.on_rq = TRUE,
                                                 !.state = "running"]
                 ELSE IF p \in Boot THEN [Unused EXCEPT !.on_rq = TRUE,
                                                        !.state = "running"]
                 ELSE Unused]
    /\ rq = [EmptyRq EXCEPT !.cfs = Boot, !.nr_running = Cardinality(Boot)]
    /\ curr = Idle
    /\ need_resched = (Boot # {})

Next ==
    \/ PrepareToSleep
    \/ Block
    \/ Preempt
    \/ do_sched_yield
    \/ do_task_dead
    \/ scheduler_tick
    \/ \E p \in Task :
           \/ try_to_wake_up(p)
           \/ wake_up_new_task(p)
           \/ sched_fork(p)
    \/ \E p \in Movers :
           \/ sched_setnuma(p)
           \/ sched_move_task(p)
           \/ normalize_rt_task(p)
    \/ \E r \in SchedRequest : sched_setscheduler(r[1], r[2])
    \/ \E r \in NiceRequest : set_user_nice(r[1], r[2])
    \/ \E r \in DonorRequest : rt_mutex_setprio(r[1], r[2])

Spec == Init /\ [][Next]_vars

(* The scheduler keeps running: the timer interrupt keeps coming, a CPU    *)
(* with need_resched set reaches a preemption point, and a task that       *)
(* prepared to sleep reaches its schedule() call.                          *)
FairSpec ==
    /\ Spec
    /\ WF_vars(scheduler_tick)
    /\ WF_vars(Preempt)
    /\ WF_vars(Block)

(***************************************************************************)
(* Properties.                                                             *)
(***************************************************************************)
TaskType ==
    [policy : Policy, class : Class, prio : 0 .. MAX_PRIO - 1,
     normal_prio : 0 .. MAX_PRIO - 1, static_prio : TsPriority,
     rt_priority : 0 .. 99, slice : Int, reset : BOOLEAN, pi : 0 .. MAX_PRIO,
     on_rq : BOOLEAN, state : {"running", "sleeping", "new", "dead"}]

RqType ==
    [ts : [0 .. MAX_TS_LEVEL -> Seq(Task)], rt : [RtLevel -> Seq(Task)],
     cfs : SUBSET Task, nr_running : Int]

(* The variables hold what task_struct and struct rq can hold. *)
TypeOK ==
    /\ task \in [CPUS -> TaskType]
    /\ rq \in RqType
    /\ curr \in CPUS
    /\ need_resched \in BOOLEAN

(* No entry is linked twice, in one list or in two. *)
Once(b) ==
    \A i, j \in Occupied(b) : \A k \in DOMAIN b[i], l \in DOMAIN b[j] :
        b[i][k] = b[j][l] => i = j /\ k = l

Linked(b) == {p \in Task : \E i \in DOMAIN b : At(b[i], p) # {}}

Runnable(class) == {p \in Task : task[p].on_rq /\ task[p].class = class}

(* Every task with on_rq set is linked exactly once, in the queue of its   *)
(* own class, and nothing else is linked: every dequeue finds its task,    *)
(* whatever sequence of wakeups, boosts, renices, policy changes, group    *)
(* moves, yields and slice expiries came before it.                        *)
FiledOnce ==
    /\ Once(rq.ts) /\ Linked(rq.ts) = Runnable("ts")
    /\ Once(rq.rt) /\ Linked(rq.rt) = Runnable("rt")
    /\ rq.cfs = Runnable("fair")

(* A queued RT task is linked at the level of its current priority, also   *)
(* when a SAVE/RESTORE pair left it in place (move_entity, rt.c:1212).     *)
RtAtItsPrio ==
    \A i \in Occupied(rq.rt) : \A k \in DOMAIN rq.rt[i] : task[rq.rt[i][k]].prio = i

(* Priority, policy and class of a task_struct fit, but for a SCHED_TS     *)
(* task in the fair class.                                                 *)
ClassFits(t) ==
    /\ (t.class = "rt") = rt_prio(t.prio)
    /\ t.class = "ts" => t.policy = "TS"

Demoted(t) == t.policy = "TS" /\ t.class = "fair"

(* The step moves no SCHED_TS task to the fair class, unless it is the     *)
(* rt_mutex_setprio of that very task.                                     *)
ClassKept ==
    \A p \in Task : Demoted(task'[p]) =>
        Demoted(task[p]) \/ \E r \in DonorRequest : r[1] = p /\ rt_mutex_setprio(p, r[2])

(* A task is in the RT class exactly if its priority is below 100, and in  *)
(* the TS class only with policy SCHED_TS (what task_tick_ts tests).  No   *)
(* SCHED_TS task gets into the fair class by a fork, a renice or a change  *)
(* of policy, made by or to a boosted task or not.  Only rt_mutex_setprio, *)
(* which looks at the priority alone, puts it there (core.c:3892-3897),    *)
(* until the next change of its policy.                                    *)
ClassAgrees ==
    /\ [](\A p \in Task : ClassFits(task[p]))
    /\ [][ClassKept]_vars

(* time_slice is never 0 when task_tick_ts decrements it (ts.c:168): the   *)
(* unsigned slice does not wrap around, and never exceeds the longest one. *)
SliceInRange == \A p \in Task : task[p].slice \in 1 .. 16

(* rq->nr_running counts the queued RT and fair tasks, and them only.      *)
NrRunningCounts ==
    rq.nr_running = Cardinality(Runnable("fair")) + Cardinality(Runnable("rt"))

(* The running task has on_rq set.                                         *)
CurrQueued == task[curr].on_rq

(* A queued RT task that beats a running task of the RT, fair or idle      *)
(* class has made the CPU need a reschedule.                               *)
RtUrgent ==
    task[curr].class # "ts" /\ (\E i \in Occupied(rq.rt) : i < task[curr].prio)
        => need_resched

(* A forked task that was not woken yet runs nowhere and is queued         *)
(* nowhere, and carries neither its parent's boost nor a class that does   *)
(* not follow from its own parameters, even if those are changed meanwhile *)
(* (core.c:2303-2312).                                                     *)
NewTaskIsClean ==
    \A p \in Task :
        task[p].state = "new" =>
            /\ curr # p /\ ~task[p].on_rq
            /\ task[p].pi = MAX_PRIO
            /\ task[p].prio = normal_prio(task[p])
            /\ task[p].class = ClassOf(task[p].prio, task[p].policy)

(* A child of a task with reset_on_fork set starts neither as a real-time  *)
(* task nor with a negative nice value, and does not inherit the flag.     *)
ResetIsHonoured ==
    [][\A c \in Task :
          task[c].state = "dead" /\ task'[c].state = "new" /\ task[curr].reset =>
              /\ task'[c].policy # "FIFO" /\ ~rt_prio(task'[c].prio)
              /\ task_nice(task'[c]) >= 0
              /\ ~task'[c].reset]_vars

(* With SCHED_TS tasks only, none of which blocks, every one of them keeps *)
(* getting the CPU: slice expiry demotes and rotates (task_tick_ts).       *)
AllTs == curr \in Task /\ Runnable("ts") = Task
EveryTsTaskRuns == \A p \in Task : <>[]AllTs => []<>(curr = p)

(***************************************************************************)
(* What a comment in the code says of it.                                  *)
(***************************************************************************)

(* core.c:3360: pick_next_task calls the fair class directly when all      *)
(* tasks are in the fair class.                                            *)
FastPathIsFairOnly ==
    FastPath(rq, task[curr].class) => Runnable("rt") = {} /\ Runnable("ts") = {}
=============================================================================

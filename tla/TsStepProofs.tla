---------------------------- MODULE TsStepProofs ----------------------------
(***************************************************************************)
(* The steps of TsSched that change no scheduling parameter of an existing *)
(* task: sleep, switch, yield, exit, tick, wakeup and fork.                *)
(***************************************************************************)
EXTENDS TsSchedProofs

(***************************************************************************)
(* One lemma per action.                                                   *)
(***************************************************************************)
(* The whole task_struct as the action's EXCEPT writes it. *)
LEMMA WriteState ==
    ASSUME IInv, NEW p \in Task, NEW s, NEW b
    PROVE  /\ [task EXCEPT ![p].state = s] = [task EXCEPT ![p] = [task[p] EXCEPT !.state = s]]
           /\ [task EXCEPT ![p].on_rq = b] = [task EXCEPT ![p] = [task[p] EXCEPT !.on_rq = b]]
           /\ [task[p] EXCEPT !.state = s]
              = [task[p] EXCEPT !.on_rq = task[p].on_rq, !.state = s]
           /\ [task[p] EXCEPT !.on_rq = b]
              = [task[p] EXCEPT !.on_rq = b, !.state = task[p].state]
BY CurrOK, Zenon DEF IInv, TaskType

(* A change of state alone leaves the queues as they are. *)
LEMMA StateFrame ==
    ASSUME IInv, NEW p \in Task, NEW s \in {"running", "sleeping"},
           task' = [task EXCEPT ![p].state = s]
    PROVE  /\ task' = [task EXCEPT ![p] = [task[p] EXCEPT !.state = s]]
           /\ TaskOK([task[p] EXCEPT !.state = s])
           /\ Good(rq, task')
           /\ \A q \in Task : task'[q].on_rq = task[q].on_rq
<1>1. /\ task' = [task EXCEPT ![p] = [task[p] EXCEPT !.state = s]]
      /\ [task[p] EXCEPT !.state = s] = [task[p] EXCEPT !.on_rq = task[p].on_rq, !.state = s]
  BY WriteState, Zenon
<1>2. TaskOK(task[p]) /\ task[p].on_rq \in BOOLEAN /\ task[p] \in TaskType
  BY CurrOK DEF TaskType
<1>3. TaskOK([task[p] EXCEPT !.state = s])
  BY <1>1, <1>2, StateOK, Zenon
<1>4. \A q \in Task : /\ task'[q].on_rq = task[q].on_rq
                      /\ task'[q].class = task[q].class
                      /\ task'[q].prio = task[q].prio
  BY <1>1, <1>2, WriteOne DEF SameBut, TaskType
<1>5. Good(rq, task')
  <2>1. Good(rq, task)
    BY DEF IInv
  <2>2. SameFiling(task, task')
    BY <1>4 DEF SameFiling
  <2> QED BY <2>1, <2>2, FrameGood
<1> QED BY <1>1, <1>3, <1>4, <1>5

LEMMA PrepareToSleepOK == ASSUME IInv, PrepareToSleep PROVE IInv'
<1>1. curr \in Task /\ task[curr].on_rq
  BY CurrOK, EnvAssumption DEF PrepareToSleep
<1>2. task' = [task EXCEPT ![curr].state = "sleeping"] /\ UNCHANGED <<rq, curr, need_resched>>
  BY DEF PrepareToSleep
<1>3. /\ task' = [task EXCEPT ![curr] = [task[curr] EXCEPT !.state = "sleeping"]]
      /\ TaskOK([task[curr] EXCEPT !.state = "sleeping"])
      /\ Good(rq', task') /\ task'[curr].on_rq
  BY <1>1, <1>2, StateFrame, Zenon
<1>4. curr' \in CPUS /\ need_resched' \in BOOLEAN /\ curr' = curr
  BY <1>2 DEF IInv
<1> QED BY <1>1, <1>3, <1>4, OneTask, Zenon

LEMMA BlockOK == ASSUME IInv, Block PROVE IInv'
<1>1. curr \in Task /\ task[curr].on_rq /\ task[curr].state = "sleeping"
  BY CurrOK DEF Block
<1>2. CASE /\ task' = [task EXCEPT ![curr].state = "running"]
           /\ SwitchFrom(rq, task[curr].class)
  <2>1. /\ task' = [task EXCEPT ![curr] = [task[curr] EXCEPT !.state = "running"]]
        /\ TaskOK([task[curr] EXCEPT !.state = "running"])
        /\ Good(rq, task')
    BY <1>1, <1>2, StateFrame, Zenon
  <2> QED BY <1>1, <1>2, <2>1, SwitchOK, OneTask, Zenon
<1>3. CASE /\ task' = [task EXCEPT ![curr].on_rq = FALSE]
           /\ SwitchFrom(dequeue_task(rq, task[curr], curr, {"SLEEP"}), task[curr].class)
  <2> DEFINE t == [task[curr] EXCEPT !.on_rq = FALSE]
  <2>1. task' = [task EXCEPT ![curr] = t]
    BY <1>1, <1>3, WriteState, Zenon
  <2>2. TaskOK(t)
    <3>1. t = [task[curr] EXCEPT !.on_rq = FALSE, !.state = "sleeping"]
      BY <1>1, WriteState, Zenon
    <3>2. TaskOK(task[curr]) /\ FALSE \in BOOLEAN
      BY <1>1, CurrOK
    <3> QED BY <3>1, <3>2, StateOK, Zenon
  <2>3. t.on_rq = FALSE
    BY <1>1, CurrOK DEF TaskType
  <2> HIDE DEF t
  <2>4. /\ SameBut(task, task', curr) /\ task'[curr].on_rq = FALSE
        /\ task[curr].class \in {"rt", "ts", "fair"} /\ move_entity({"SLEEP"})
        /\ Good(rq, task)
    BY <1>1, <2>1, <2>3, WriteOne, CurrOK, Zenon DEF TaskOK, move_entity, IInv
  <2>5. Good(dequeue_task(rq, task[curr], curr, {"SLEEP"}), task')
    BY <1>1, <2>4, DequeueGood, Zenon
  <2> QED BY <1>1, <1>3, <2>1, <2>2, <2>5, SwitchOK, OneTask, Zenon
<1> QED BY <1>2, <1>3 DEF Block

LEMMA TasksUnchanged ==
    ASSUME IInv, task' = task, Good(rq', task'), curr' \in CPUS,
           curr' \in Task => task'[curr'].on_rq, need_resched' \in BOOLEAN
    PROVE  IInv'
BY DEF IInv

LEMMA PreemptOK == ASSUME IInv, Preempt PROVE IInv'
<1>1. task' = task /\ SwitchFrom(rq, task[curr].class) /\ Good(rq, task')
  BY DEF Preempt, IInv
<1> QED BY <1>1, SwitchOK, TasksUnchanged

LEMMA YieldOK == ASSUME IInv, do_sched_yield PROVE IInv'
<1>1. curr \in Task /\ task[curr].on_rq /\ TaskOK(task[curr])
  BY CurrOK, EnvAssumption DEF do_sched_yield
<1>2. task' = task /\ Good(rq, task) /\ task \in [CPUS -> TaskType]
  BY DEF do_sched_yield, IInv
<1> DEFINE t == task[curr]
           r == IF t.class = "ts" THEN yield_task_ts(rq, t, curr)
                ELSE IF t.class = "rt" THEN yield_task_rt(rq, t, curr) ELSE rq
<1>3. SwitchFrom(r, t.class)
  BY DEF do_sched_yield
<1>4. t \in TaskType /\ (t.class = "rt" => t.prio \in RtLevel)
      /\ (t.class = "ts" => t.prio \in TsPriority)
  BY <1>1, TaskQueueable, Zenon DEF TaskOK, Queueable
<1>5. Good(r, task)
  <2>1. CASE t.class = "ts"
    <3>1. SameBut(task, task, curr)
      BY DEF SameBut
    <3> QED BY <1>1, <1>2, <1>4, <2>1, <3>1, MoveTsGood DEF yield_task_ts
  <2>2. CASE t.class = "rt"
    BY <1>1, <1>2, <1>4, <2>2, MoveRtGood DEF yield_task_rt
  <2> QED BY <1>2, <2>1, <2>2
<1> HIDE DEF r
<1> QED BY <1>2, <1>3, <1>5, SwitchOK, TasksUnchanged

LEMMA DeadOK == ASSUME IInv, do_task_dead PROVE IInv'
<1>1. curr \in Task /\ task[curr].on_rq /\ TaskOK(task[curr])
  BY CurrOK, EnvAssumption DEF do_task_dead
<1>2. /\ task' = [task EXCEPT ![curr] = Unused]
      /\ SwitchFrom(dequeue_task(rq, task[curr], curr, {"SLEEP"}), task[curr].class)
  BY DEF do_task_dead
<1>3. TaskOK(Unused) /\ Unused.on_rq = FALSE
  BY UnusedOK DEF Unused
<1>4. /\ SameBut(task, task', curr) /\ task'[curr].on_rq = FALSE
      /\ task[curr].class \in {"rt", "ts", "fair"} /\ move_entity({"SLEEP"})
      /\ Good(rq, task)
  BY <1>1, <1>2, <1>3, WriteOne, Zenon DEF TaskOK, move_entity, IInv
<1>5. Good(dequeue_task(rq, task[curr], curr, {"SLEEP"}), task')
  BY <1>1, <1>4, DequeueGood, Zenon
<1> QED BY <1>1, <1>2, <1>3, <1>5, SwitchOK, OneTask, Zenon

(***************************************************************************)
(* The tick.                                                               *)
(***************************************************************************)
(* A new slice, and for a TS task a new priority, keep TaskOK. *)
LEMMA SliceOK ==
    ASSUME NEW t, TaskOK(t), t.state \in {"running", "sleeping"}, t.class = "ts",
           NEW prio \in TsPriority, NEW slice \in 1 .. 16, slice % TickStride = 0
    PROVE  TaskOK([t EXCEPT !.prio = prio, !.slice = slice])
<1> DEFINE u == [t EXCEPT !.prio = prio, !.slice = slice]
<1>1. t \in TaskType
  BY DEF TaskOK
<1>2. /\ u.policy = t.policy /\ u.class = t.class /\ u.prio = prio
      /\ u.normal_prio = t.normal_prio /\ u.static_prio = t.static_prio
      /\ u.rt_priority = t.rt_priority /\ u.slice = slice /\ u.pi = t.pi
      /\ u.state = t.state
  BY <1>1 DEF TaskType
<1>3. u \in TaskType
  <2>1. prio \in 0 .. MAX_PRIO - 1 /\ slice \in Int
    BY DEF TsPriority, MAX_RT_PRIO, MAX_PRIO
  <2> QED BY <1>1, <2>1, Zenon DEF TaskType
<1> HIDE DEF u
<1>4. normal_prio(u) = normal_prio(t) /\ rt_prio(prio) = FALSE
  BY <1>2 DEF normal_prio, rt_prio, TsPriority, MAX_RT_PRIO, MAX_PRIO
<1>5. SliceFits(u.slice)
  BY <1>2 DEF SliceFits
<1>6. TaskOK(u)
  BY <1>2, <1>3, <1>4, <1>5, Zenon DEF TaskOK
<1> QED BY <1>6 DEF u

(* The slice is a multiple of the stride, so it reaches 0 exactly. *)
LEMMA SliceArith ==
    ASSUME NEW s \in 1 .. 16, s % TickStride = 0
    PROVE  /\ s - TickStride # 0 => /\ s - TickStride \in 1 .. 16
                                    /\ (s - TickStride) % TickStride = 0
           /\ \A n \in {4, 8, 12, 16} : n \in 1 .. 16 /\ n % TickStride = 0
<1>1. CASE TickStride = 1
  BY <1>1
<1>2. CASE TickStride = 2
  BY <1>2
<1>3. CASE TickStride = 4
  BY <1>3
<1> QED BY <1>1, <1>2, <1>3, EnvAssumption

LEMMA TickTsOK ==
    ASSUME IInv, curr \in Task, task[curr].class = "ts", task_tick_ts(task[curr]),
           UNCHANGED curr
    PROVE  IInv'
<1> DEFINE t == task[curr]
           left == t.slice - TickStride
           prio == get_new_prio(t.prio, EXPIRED)
<1>1. /\ t.on_rq /\ TaskOK(t) /\ t \in TaskType /\ t.state \in {"running", "sleeping"}
      /\ t.prio \in TsPriority /\ t.slice \in 1 .. 16 /\ t.slice % TickStride = 0
      /\ curr \in CPUS /\ curr' = curr
  <2>1. t.on_rq /\ TaskOK(t) /\ t \in TaskType /\ curr \in CPUS /\ curr' = curr
    BY CurrOK, EnvAssumption
  <2>2. t.state \in {"running", "sleeping"} /\ t.slice \in 1 .. 16 /\ t.slice % TickStride = 0
    BY <2>1 DEF TaskOK, TaskType, SliceFits
  <2>3. t.prio \in TsPriority
    BY <2>1, TaskQueueable DEF Queueable
  <2> QED BY <2>1, <2>2, <2>3
<1>2. Good(rq, task) /\ task \in [CPUS -> TaskType] /\ need_resched \in BOOLEAN
  BY DEF IInv
<1>3. CASE left # 0
  <2> DEFINE u == [t EXCEPT !.prio = t.prio, !.slice = left]
  <2>1. task' = [task EXCEPT ![curr].slice = left] /\ rq' = rq /\ need_resched' = need_resched
    BY <1>3 DEF task_tick_ts
  <2>2. task' = [task EXCEPT ![curr] = u]
    BY <1>1, <1>2, <2>1, Zenon DEF TaskType
  <2>3. left \in 1 .. 16 /\ left % TickStride = 0
    BY <1>1, <1>3, SliceArith
  <2>4. TaskOK(u)
    <3> HIDE DEF left
    <3> QED BY <1>1, <2>3, SliceOK, Zenon
  <2>5. u.on_rq /\ u.class = t.class /\ u.prio = t.prio
    BY <1>1 DEF TaskType
  <2> HIDE DEF u
  <2>6. SameBut(task, task', curr) /\ task'[curr] = u
    BY <2>2, WriteOne, Zenon
  <2>7. SameFiling(task, task')
    <3>1. ASSUME NEW q \in Task, q # curr PROVE task'[q] = task[q]
      BY <2>6, <3>1 DEF SameBut
    <3>2. t.on_rq = TRUE /\ u.on_rq = TRUE
      BY <1>1, <2>4, <2>5 DEF TaskOK, TaskType
    <3> QED BY <2>5, <2>6, <3>1, <3>2, Zenon DEF SameFiling
  <2>8. Good(rq', task')
    BY <1>2, <2>1, <2>7, FrameGood
  <2> QED BY <1>1, <1>2, <2>1, <2>2, <2>4, <2>5, <2>6, <2>8, OneTask, Zenon
<1>4. CASE left = 0
  <2> DEFINE u == [t EXCEPT !.prio = prio, !.slice = get_num_ticks(prio)]
  <2>1. /\ task' = [task EXCEPT ![curr].prio = prio, ![curr].slice = get_num_ticks(prio)]
        /\ rq' = [rq EXCEPT !.ts = list_move_tail(@, Level(prio), curr)]
        /\ need_resched' = TRUE
    BY <1>4 DEF task_tick_ts
  <2>2. prio \in TsPriority /\ get_num_ticks(prio) \in {4, 8, 12, 16}
    BY <1>1, NewPrioRange, NumTicksRange DEF TaskType, MAX_PRIO
  <2> HIDE DEF prio
  <2>3. task' = [task EXCEPT ![curr] = u]
    BY <1>1, <1>2, <2>1, Zenon DEF TaskType
  <2>4. get_num_ticks(prio) \in 1 .. 16 /\ get_num_ticks(prio) % TickStride = 0
    BY <1>1, <2>2, SliceArith
  <2>5. TaskOK(u)
    BY <1>1, <2>2, <2>4, SliceOK, Zenon
  <2>6. u.on_rq /\ u.class = "ts" /\ u \in TaskType
    BY <1>1, <2>5 DEF TaskType, TaskOK
  <2> HIDE DEF u
  <2>7. SameBut(task, task', curr) /\ task'[curr] = u
    BY <2>3, WriteOne
  <2>8. Good(rq', task')
    BY <1>1, <1>2, <2>1, <2>2, <2>6, <2>7, MoveTsGood, Zenon
  <2> QED BY <1>1, <2>1, <2>3, <2>5, <2>6, <2>7, <2>8, OneTask, Zenon
<1> QED BY <1>3, <1>4

LEMMA TickOK == ASSUME IInv, scheduler_tick PROVE IInv'
<1>1. curr \in Task /\ curr' = curr
  BY CurrOK DEF scheduler_tick
<1>2. CASE task[curr].class = "ts"
  BY <1>1, <1>2, TickTsOK DEF scheduler_tick
<1>3. CASE task[curr].class # "ts"
  <2>1. need_resched' \in {need_resched, TRUE} /\ task' = task /\ rq' = rq
    BY <1>3, Zenon DEF scheduler_tick
  <2>2. need_resched' \in BOOLEAN
    BY <2>1, Zenon DEF IInv
  <2> QED BY <1>1, <2>1, <2>2 DEF IInv
<1> QED BY <1>2, <1>3

(***************************************************************************)
(* Wakeups.                                                                *)
(***************************************************************************)
LEMMA ActivateOK ==
    ASSUME IInv, NEW p \in Task, NEW flags, flags \in {{}, {"WAKEUP"}},
           task[p].on_rq = FALSE, Activate(p, task[p], flags)
    PROVE  IInv'
<1> DEFINE t == task[p]
           prio == PrioOnEnqueue(t, flags)
           u == [t EXCEPT !.prio = prio, !.on_rq = TRUE, !.state = "running"]
<1>1. TaskOK(t) /\ t \in TaskType /\ Queueable(t)
  BY CurrOK, TaskQueueable
<1>2. /\ prio \in 0 .. MAX_PRIO - 1
      /\ t.class # "ts" => prio = t.prio
      /\ t.class = "ts" => prio \in TsPriority
  <2>1. t.prio \in Int /\ t.prio \in 0 .. MAX_PRIO - 1
    BY <1>1 DEF TaskType, MAX_PRIO
  <2>2. CASE t.class = "ts" /\ "WAKEUP" \in flags
    <3>1. prio \in TsPriority
      BY <2>1, <2>2, NewPrioRange DEF PrioOnEnqueue
    <3> QED BY <2>2, <3>1 DEF TsPriority, MAX_RT_PRIO, MAX_PRIO
  <2>3. CASE ~(t.class = "ts" /\ "WAKEUP" \in flags)
    <3>1. prio = t.prio
      BY <2>3 DEF PrioOnEnqueue
    <3> QED BY <1>1, <2>1, <3>1 DEF Queueable
  <2> QED BY <2>2, <2>3
<1> HIDE DEF prio
<1>3. /\ u.policy = t.policy /\ u.class = t.class /\ u.prio = prio
      /\ u.normal_prio = t.normal_prio /\ u.static_prio = t.static_prio
      /\ u.rt_priority = t.rt_priority /\ u.slice = t.slice /\ u.pi = t.pi
      /\ u.state = "running" /\ u.on_rq = TRUE
  BY <1>1 DEF TaskType
<1>4. u \in TaskType
  BY <1>1, <1>2, Zenon DEF TaskType
<1>5. /\ task' = [task EXCEPT ![p] = u] /\ rq' = enqueue_task(rq, t, p, flags)
      /\ \E b \in check_preempt_curr(task[curr], u) : need_resched' = (need_resched \/ b)
      /\ curr' = curr
  BY DEF Activate, prio
<1> HIDE DEF u
<1>6. normal_prio(u) = normal_prio(t)
  BY <1>3 DEF normal_prio
<1>7. rt_prio(prio) = rt_prio(t.prio)
  <2>1. CASE t.class = "ts"
    BY <1>1, <1>2, <2>1 DEF Queueable, rt_prio, TsPriority, MAX_RT_PRIO, MAX_PRIO
  <2> QED BY <1>2, <2>1
<1>8. TaskOK(u)
  <2>1. u.class = "rt" => u.prio \in RtLevel
    BY <1>1, <1>2, <1>3 DEF Queueable
  <2> QED BY <1>1, <1>3, <1>4, <1>6, <1>7, <2>1 DEF TaskOK
<1>9. SameBut(task, task', p) /\ task'[p] = u
  BY <1>5, WriteOne, Zenon
<1>10. Good(rq', task')
  <2>1. Good(rq, task) /\ move_entity(flags)
    BY DEF IInv, move_entity
  <2>2. task'[p].on_rq /\ task'[p].class = t.class /\ (t.class = "rt" => task'[p].prio = t.prio)
    BY <1>2, <1>3, <1>9
  <2> QED BY <1>1, <1>5, <1>9, <2>1, <2>2, EnqueueGood, Zenon
<1>11. need_resched' \in BOOLEAN
  BY <1>5
<1>12. curr' \in CPUS /\ (curr' \in Task => task'[curr'].on_rq)
  <2>1. curr \in CPUS /\ (curr \in Task => task[curr].on_rq)
    BY DEF IInv
  <2> QED BY <1>3, <1>5, <1>9, <2>1 DEF SameBut
<1> QED BY <1>5, <1>8, <1>10, <1>11, <1>12, OneTask, Zenon

LEMMA WakeUpOK == ASSUME IInv, NEW p \in Task, try_to_wake_up(p) PROVE IInv'
<1>1. CASE task[p].on_rq
  <2>1. /\ task' = [task EXCEPT ![p].state = "running"] /\ rq' = rq /\ curr' = curr
        /\ \E b \in check_preempt_curr(task[curr], task[p]) :
               need_resched' = (need_resched \/ b)
    BY <1>1 DEF try_to_wake_up
  <2>2. /\ task' = [task EXCEPT ![p] = [task[p] EXCEPT !.state = "running"]]
        /\ TaskOK([task[p] EXCEPT !.state = "running"])
        /\ Good(rq, task')
        /\ \A q \in Task : task'[q].on_rq = task[q].on_rq
    BY <2>1, StateFrame, Zenon
  <2>3. curr' \in CPUS /\ (curr' \in Task => task'[curr'].on_rq)
    BY <2>1, <2>2 DEF IInv
  <2>4. need_resched' \in BOOLEAN
    BY <2>1
  <2> QED BY <2>1, <2>2, <2>3, <2>4, OneTask, Zenon
<1>2. CASE ~task[p].on_rq
  <2>1. Activate(p, task[p], {"WAKEUP"})
    BY <1>2 DEF try_to_wake_up
  <2>2. task[p].on_rq = FALSE
    BY <1>2, CurrOK DEF TaskType
  <2> QED BY <2>1, <2>2, ActivateOK, Zenon
<1> QED BY <1>1, <1>2

LEMMA WakeNewOK == ASSUME IInv, NEW p \in Task, wake_up_new_task(p) PROVE IInv'
<1>1. task[p].on_rq = FALSE
  BY CurrOK, Zenon DEF wake_up_new_task, TaskOK
<1> QED BY <1>1, ActivateOK, Zenon DEF wake_up_new_task

(***************************************************************************)
(* Fork.                                                                   *)
(***************************************************************************)
(* Parameters that follow from the policy alone. *)
Plain(t) ==
    /\ t \in TaskType
    /\ t.normal_prio = normal_prio(t)
    /\ t.prio = t.normal_prio
    /\ t.policy = "FIFO" => t.normal_prio \in RtLevel
    /\ t.slice = 12 /\ t.pi = MAX_PRIO /\ t.on_rq = FALSE /\ t.state = "new"

LEMMA PlainOK ==
    ASSUME NEW t, Plain(t)
    PROVE  TaskOK([t EXCEPT !.class = ClassOf(t.prio, t.policy)])
<1> DEFINE class == ClassOf(t.prio, t.policy)
           u == [t EXCEPT !.class = class]
<1>1. t \in TaskType /\ t.prio \in Int
  BY DEF Plain, TaskType, MAX_PRIO
<1>2. class \in {"rt", "ts", "fair"} /\ class \in Class
  BY DEF ClassOf, Class
<1>3. (class = "rt") = rt_prio(t.prio)
  BY <1>1 DEF ClassOf, rt_prio, MAX_RT_PRIO
<1>4. class = "ts" => t.policy = "TS"
  BY DEF ClassOf
<1>5. class = "rt" => t.prio \in RtLevel
  <2> SUFFICES ASSUME class = "rt" PROVE t.prio \in RtLevel
    OBVIOUS
  <2>1. t.prio < 100
    BY <1>1, <1>3 DEF rt_prio, MAX_RT_PRIO
  <2>2. t.policy = "FIFO"
    BY <1>1, <2>1 DEF Plain, normal_prio, TaskType, TsPriority, MAX_RT_PRIO, MAX_PRIO
  <2> QED BY <2>2 DEF Plain
<1>6. SliceFits(12)
  BY EnvAssumption DEF SliceFits
<1>7. /\ u.policy = t.policy /\ u.class = class /\ u.prio = t.prio
      /\ u.normal_prio = t.normal_prio /\ u.static_prio = t.static_prio
      /\ u.rt_priority = t.rt_priority /\ u.slice = t.slice /\ u.pi = t.pi
      /\ u.state = t.state /\ u.on_rq = t.on_rq /\ u \in TaskType
  BY <1>1, <1>2 DEF TaskType
<1>8. u.class = ClassOf(u.prio, u.policy)
  BY <1>7
<1> HIDE DEF class, u
<1>9. normal_prio(u) = normal_prio(t)
  BY <1>7 DEF normal_prio
<1>10. TaskOK(u)
  BY <1>2, <1>3, <1>4, <1>5, <1>6, <1>7, <1>8, <1>9 DEF TaskOK, Plain
<1> QED BY <1>10 DEF u, class

LEMMA CopyPlain ==
    ASSUME NEW t, TaskOK(t)
    PROVE  Plain([t EXCEPT !.on_rq = FALSE, !.slice = 12, !.state = "new",
                           !.pi = MAX_PRIO, !.prio = t.normal_prio])
<1> DEFINE u == [t EXCEPT !.on_rq = FALSE, !.slice = 12, !.state = "new",
                          !.pi = MAX_PRIO, !.prio = t.normal_prio]
<1>1. t \in TaskType
  BY DEF TaskOK
<1>2. /\ u.policy = t.policy /\ u.prio = t.normal_prio
      /\ u.normal_prio = t.normal_prio /\ u.static_prio = t.static_prio
      /\ u.rt_priority = t.rt_priority /\ u.slice = 12 /\ u.pi = MAX_PRIO
      /\ u.state = "new" /\ u.on_rq = FALSE
  BY <1>1 DEF TaskType
<1>3. u \in TaskType
  <2>1. MAX_PRIO \in 0 .. MAX_PRIO /\ 12 \in Int
    BY DEF MAX_PRIO
  <2>2. t.normal_prio \in 0 .. MAX_PRIO - 1
    BY <1>1 DEF TaskType
  <2> QED BY <1>1, <2>1, <2>2, Zenon DEF TaskType
<1> HIDE DEF u
<1>4. Plain(u)
  BY <1>2, <1>3 DEF Plain, TaskOK, normal_prio
<1> QED BY <1>4 DEF u

LEMMA ResetPlain ==
    ASSUME NEW t, Plain(t)
    PROVE  Plain(ResetOnFork(t))
<1> DEFINE u == IF t.policy = "FIFO"
                THEN [t EXCEPT !.policy = "NORMAL", !.static_prio = DEFAULT_PRIO,
                               !.rt_priority = 0]
                ELSE IF task_nice(t) < 0 THEN [t EXCEPT !.static_prio = DEFAULT_PRIO]
                ELSE t
           v == [u EXCEPT !.prio = u.static_prio, !.normal_prio = u.static_prio,
                          !.reset = FALSE]
<1>1. t \in TaskType
  BY DEF Plain
<1>2. /\ u \in TaskType /\ u.policy # "FIFO"
      /\ u.slice = t.slice /\ u.pi = t.pi /\ u.on_rq = t.on_rq /\ u.state = t.state
  <2>1. DEFAULT_PRIO \in TsPriority /\ 0 \in 0 .. 99 /\ "NORMAL" \in Policy
    BY DEF DEFAULT_PRIO, TsPriority, MAX_RT_PRIO, MAX_PRIO, Policy
  <2>2. CASE t.policy = "FIFO"
    BY <1>1, <2>1, <2>2, Zenon DEF TaskType
  <2>3. CASE t.policy # "FIFO"
    BY <1>1, <2>1, <2>3 DEF TaskType
  <2> QED BY <2>2, <2>3
<1>3. v = ResetOnFork(t)
  BY DEF ResetOnFork
<1> HIDE DEF u
<1>4. u.static_prio \in 0 .. MAX_PRIO - 1
  BY <1>2 DEF TaskType, TsPriority, MAX_RT_PRIO, MAX_PRIO
<1>5. v \in TaskType
  BY <1>2, <1>4, Zenon DEF TaskType
<1>6. /\ v.policy = u.policy /\ v.static_prio = u.static_prio /\ v.prio = u.static_prio
      /\ v.normal_prio = u.static_prio /\ v.slice = u.slice /\ v.pi = u.pi
      /\ v.on_rq = u.on_rq /\ v.state = u.state
  BY <1>2 DEF TaskType
<1> HIDE DEF v
<1>7. Plain(v)
  BY <1>2, <1>5, <1>6 DEF Plain, normal_prio
<1> QED BY <1>3, <1>7

LEMMA ForkOK == ASSUME IInv, NEW p \in Task, sched_fork(p) PROVE IInv'
<1> DEFINE t == task[curr]
           copy == [t EXCEPT !.on_rq = FALSE, !.slice = 12, !.state = "new",
                             !.pi = MAX_PRIO, !.prio = t.normal_prio]
           v == IF copy.reset THEN ResetOnFork(copy) ELSE copy
           c == [v EXCEPT !.class = ClassOf(v.prio, v.policy)]
<1>1. curr \in Task /\ TaskOK(t) /\ curr # p
  BY CurrOK, EnvAssumption DEF sched_fork
<1>2. Plain(copy)
  BY <1>1, CopyPlain, Zenon
<1>3. Plain(v)
  <2> HIDE DEF copy
  <2> QED BY <1>2, ResetPlain
<1>4. TaskOK(c) /\ c.on_rq = FALSE
  <2> HIDE DEF v
  <2>1. c.on_rq = v.on_rq
    BY <1>3 DEF Plain, TaskType
  <2> QED BY <1>3, <2>1, PlainOK, Zenon DEF Plain
<1>5. c = Child(t)
  BY DEF Child, __sched_fork
<1> HIDE DEF c
<1>6. task' = [task EXCEPT ![p] = c] /\ UNCHANGED <<rq, curr, need_resched>>
  BY <1>5 DEF sched_fork
<1>7. SameBut(task, task', p) /\ task'[p] = c
  BY <1>6, WriteOne, Zenon
<1>8. task[p].on_rq = FALSE
  BY CurrOK, Zenon DEF sched_fork, TaskOK
<1>9. SameFiling(task, task')
  BY <1>4, <1>7, <1>8, Zenon DEF SameBut, SameFiling
<1>10. Good(rq', task')
  <2>1. Good(rq, task) /\ rq' = rq
    BY <1>6 DEF IInv
  <2> QED BY <1>9, <2>1, FrameGood
<1>11. curr' \in CPUS /\ (curr' \in Task => task'[curr'].on_rq) /\ need_resched' \in BOOLEAN
  <2>1. task'[curr] = task[curr]
    BY <1>1, <1>7 DEF SameBut
  <2> QED BY <1>6, <2>1 DEF IInv
<1> QED BY <1>4, <1>6, <1>10, <1>11, OneTask, Zenon
=============================================================================

--------------------------- MODULE TsClassProofs ---------------------------
(***************************************************************************)
(* The class of a SCHED_TS task.  IInv says that a task of the TS class    *)
(* has policy SCHED_TS; the converse is not an invariant, since            *)
(* rt_mutex_setprio does not keep it, but every other step does.           *)
(***************************************************************************)
EXTENDS TsInvProofs

(* The step is rt_mutex_setprio of task p. *)
Setprio(p) == \E r \in DonorRequest : r[1] = p /\ rt_mutex_setprio(p, r[2])

(* Both halves of what a task's class follows from are as they were. *)
SameClass(t, u) == u.policy = t.policy /\ u.class = t.class

LEMMA SameClassKeeps == ASSUME NEW t, NEW u, SameClass(t, u), Demoted(u) PROVE Demoted(t)
BY Zenon DEF SameClass, Demoted

(* ClassOf gives the fair class to no SCHED_TS task. *)
LEMMA ClassOfKeeps == ASSUME NEW prio, NEW policy, policy = "TS" PROVE ClassOf(prio, policy) # "fair"
BY DEF ClassOf

(* A step that changes one task, to a record that is not demoted. *)
LEMMA ClassOfOne ==
    ASSUME task \in [CPUS -> TaskType], NEW p \in CPUS, NEW u,
           task' = [task EXCEPT ![p] = u], p \in Task => Setprio(p) \/ ~Demoted(u)
    PROVE  ClassKept
<1>1. ASSUME NEW q \in Task, Demoted(task'[q]) PROVE Demoted(task[q]) \/ Setprio(q)
  <2>1. q \in CPUS
    BY Zenon DEF CPUS
  <2>2. CASE q = p
    <3>1. task'[q] = u
      BY <2>1, <2>2, Zenon
    <3> QED BY <1>1, <2>2, <3>1, Zenon
  <2>3. CASE q # p
    <3>1. task'[q] = task[q]
      BY <2>1, <2>3, Zenon
    <3> QED BY <1>1, <3>1, Zenon
  <2> QED BY <2>2, <2>3, Zenon
<1> QED BY <1>1, Zenon DEF ClassKept, Setprio

(* A step that leaves policy and class of every task alone. *)
LEMMA ClassesUntouched ==
    ASSUME \A p \in Task : SameClass(task[p], task'[p])
    PROVE  ClassKept
<1>1. ASSUME NEW q \in Task, Demoted(task'[q]) PROVE Demoted(task[q])
  BY <1>1, SameClassKeeps, Zenon
<1> QED BY <1>1, Zenon DEF ClassKept

LEMMA SameClassOne ==
    ASSUME task \in [CPUS -> TaskType], NEW p \in CPUS, NEW u,
           task' = [task EXCEPT ![p] = u], SameClass(task[p], u)
    PROVE  \A q \in Task : SameClass(task[q], task'[q])
BY Zenon DEF SameClass, CPUS

(***************************************************************************)
(* The steps.                                                              *)
(***************************************************************************)
(* Steps of the running task and of the timer change no class or policy. *)
LEMMA CurrentKeeps ==
    ASSUME IInv, PrepareToSleep \/ Block \/ Preempt \/ do_sched_yield \/ scheduler_tick
    PROVE  ClassKept
<1>1. task \in [CPUS -> TaskType] /\ curr \in CPUS
  BY Zenon DEF IInv
<1>2. \A p \in Task : SameClass(task[p], task'[p])
  <2>1. CASE PrepareToSleep
    BY <1>1, <2>1 DEF PrepareToSleep, SameClass, TaskType, CPUS
  <2>2. CASE Block
    BY <1>1, <2>2 DEF Block, SameClass, TaskType, CPUS
  <2>3. CASE Preempt \/ do_sched_yield
    BY <2>3, Zenon DEF Preempt, do_sched_yield, SameClass
  <2>4. CASE scheduler_tick
    <3>1. UNCHANGED task \/ \E prio, slice :
            \/ task' = [task EXCEPT ![curr].slice = slice]
            \/ task' = [task EXCEPT ![curr].prio = prio, ![curr].slice = slice]
      BY <2>4, Zenon DEF scheduler_tick, task_tick_ts
    <3>2. CASE UNCHANGED task
      BY <3>2, Zenon DEF SameClass
    <3>3. ASSUME NEW prio, NEW slice,
                 \/ task' = [task EXCEPT ![curr].slice = slice]
                 \/ task' = [task EXCEPT ![curr].prio = prio, ![curr].slice = slice]
          PROVE  \A p \in Task : SameClass(task[p], task'[p])
      BY <1>1, <3>3 DEF SameClass, TaskType, CPUS
    <3> QED BY <3>1, <3>2, <3>3, Zenon
  <2> QED BY <2>1, <2>2, <2>3, <2>4
<1> QED BY <1>2, ClassesUntouched, Zenon

LEMMA DeadKeeps == ASSUME IInv, do_task_dead PROVE ClassKept
<1>1. task \in [CPUS -> TaskType] /\ curr \in CPUS /\ task' = [task EXCEPT ![curr] = Unused]
  BY Zenon DEF IInv, do_task_dead
<1>2. ~Demoted(Unused)
  BY DEF Demoted, Unused
<1> QED BY <1>1, <1>2, ClassOfOne, Zenon

LEMMA WakeKeeps ==
    ASSUME IInv, NEW p \in Task, try_to_wake_up(p) \/ wake_up_new_task(p)
    PROVE  ClassKept
<1>1. task \in [CPUS -> TaskType] /\ p \in CPUS
  BY Zenon DEF IInv, CPUS
<1>2. \A q \in Task : SameClass(task[q], task'[q])
  <2>1. ASSUME NEW flags, Activate(p, task[p], flags)
        PROVE  \A q \in Task : SameClass(task[q], task'[q])
    BY <1>1, <2>1 DEF Activate, SameClass, TaskType, CPUS
  <2>2. CASE try_to_wake_up(p) /\ task[p].on_rq
    BY <1>1, <2>2 DEF try_to_wake_up, SameClass, TaskType, CPUS
  <2>3. CASE try_to_wake_up(p) /\ ~task[p].on_rq
    BY <2>1, <2>3, Zenon DEF try_to_wake_up
  <2>4. CASE wake_up_new_task(p)
    BY <2>1, <2>4, Zenon DEF wake_up_new_task
  <2> QED BY <2>2, <2>3, <2>4, Zenon
<1> QED BY <1>2, ClassesUntouched, Zenon

(* sched_fork gives the child the class of its parameters (core.c:2337). *)
LEMMA ForkKeeps == ASSUME IInv, NEW p \in Task, sched_fork(p) PROVE ClassKept
<1>1. /\ task \in [CPUS -> TaskType] /\ p \in CPUS
      /\ task' = [task EXCEPT ![p] = Child(task[curr])]
  BY Zenon DEF IInv, CPUS, sched_fork
<1>2. ~Demoted(Child(task[curr]))
  BY ClassOfKeeps DEF Child, Demoted
<1> QED BY <1>1, <1>2, ClassOfOne, Zenon

(* Every change of policy derives the class anew (core.c:4150). *)
LEMMA SetschedulerKeeps ==
    ASSUME IInv, NEW p \in Task, NEW attr, NEW pi, __sched_setscheduler(p, attr, pi)
    PROVE  ClassKept
<1> DEFINE told == [task[p] EXCEPT !.reset = attr.reset]
           tnew == __setscheduler(told, attr, pi)
<1>1. task \in [CPUS -> TaskType] /\ p \in CPUS
  BY Zenon DEF IInv, CPUS
<1>2. task' = [task EXCEPT ![p] = told] \/ task' = [task EXCEPT ![p] = tnew]
  BY Zenon DEF __sched_setscheduler, Change
<1>3. CASE task' = [task EXCEPT ![p] = told]
  <2>1. task[p] \in TaskType
    BY <1>1
  <2>2. SameClass(task[p], told)
    BY <2>1 DEF SameClass, TaskType
  <2> HIDE DEF told
  <2>3. \A q \in Task : SameClass(task[q], task'[q])
    BY <1>1, <1>3, <2>2, SameClassOne, Zenon
  <2> QED BY <2>3, ClassesUntouched, Zenon
<1>4. CASE task' = [task EXCEPT ![p] = tnew]
  <2>1. ~Demoted(tnew)
    BY ClassOfKeeps DEF __setscheduler, __setscheduler_params, Demoted
  <2> HIDE DEF tnew
  <2> QED BY <1>1, <1>4, <2>1, ClassOfOne, Zenon
<1> QED BY <1>2, <1>3, <1>4, Zenon

LEMMA NiceKeeps ==
    ASSUME IInv, NEW p \in Task, NEW nice, set_user_nice(p, nice)
    PROVE  ClassKept
<1> DEFINE told == task[p]
           renice == [told EXCEPT !.static_prio = NICE_TO_PRIO(nice)]
           tnew == [renice EXCEPT !.normal_prio = normal_prio(renice),
                                  !.prio = effective_prio(renice)]
<1>1. task \in [CPUS -> TaskType] /\ p \in CPUS /\ task[p] \in TaskType
  BY DEF IInv, CPUS
<1>2. task' = [task EXCEPT ![p] = renice] \/ task' = [task EXCEPT ![p] = tnew]
  BY Zenon DEF set_user_nice
<1>3. SameClass(task[p], renice) /\ SameClass(task[p], tnew)
  BY <1>1 DEF SameClass, TaskType
<1> HIDE DEF renice, tnew
<1>4. \A q \in Task : SameClass(task[q], task'[q])
  BY <1>1, <1>2, <1>3, SameClassOne, Zenon
<1> QED BY <1>4, ClassesUntouched, Zenon

(* rt_mutex_setprio changes only its own task. *)
LEMMA SetprioKeeps ==
    ASSUME IInv, NEW r \in DonorRequest, rt_mutex_setprio(r[1], r[2])
    PROVE  ClassKept
<1>1. task \in [CPUS -> TaskType] /\ r[1] \in CPUS
  BY EnvAssumption DEF IInv, CPUS
<1>2. Setprio(r[1])
  BY Zenon DEF Setprio
<1>3. \E u : task' = [task EXCEPT ![r[1]] = u]
  BY Zenon DEF rt_mutex_setprio, Change
<1> QED BY <1>1, <1>2, <1>3, ClassOfOne, Zenon

LEMMA NextClass == ASSUME IInv, [Next]_vars PROVE ClassKept
<1>1. CASE PrepareToSleep \/ Block \/ Preempt \/ do_sched_yield \/ scheduler_tick
  BY <1>1, CurrentKeeps, Zenon
<1>2. CASE do_task_dead
  BY <1>2, DeadKeeps, Zenon
<1>3. ASSUME NEW p \in Task, try_to_wake_up(p) \/ wake_up_new_task(p) \/ sched_fork(p)
      PROVE  ClassKept
  BY <1>3, WakeKeeps, ForkKeeps, Zenon
<1>4. ASSUME NEW p \in Movers, sched_setnuma(p) \/ sched_move_task(p) \/ normalize_rt_task(p)
      PROVE  ClassKept
  <2>1. p \in Task
    BY EnvAssumption
  <2>2. CASE sched_setnuma(p) \/ sched_move_task(p)
    <3>1. UNCHANGED task
      BY <2>2, Zenon DEF sched_setnuma, sched_move_task, TakeOffAndPutBack
    <3> QED BY <3>1, ClassesUntouched, Zenon DEF SameClass
  <2>3. CASE normalize_rt_task(p)
    BY <2>1, <2>3, SetschedulerKeeps, NiceKeeps, Zenon DEF normalize_rt_task
  <2> QED BY <1>4, <2>2, <2>3, Zenon
<1>5. ASSUME NEW r \in SchedRequest, sched_setscheduler(r[1], r[2]) PROVE ClassKept
  <2>1. r[1] \in Task
    BY EnvAssumption
  <2> QED BY <1>5, <2>1, SetschedulerKeeps, Zenon DEF sched_setscheduler
<1>6. ASSUME NEW r \in NiceRequest, set_user_nice(r[1], r[2]) PROVE ClassKept
  <2>1. r[1] \in Task
    BY EnvAssumption
  <2> QED BY <1>6, <2>1, NiceKeeps, Zenon
<1>7. CASE UNCHANGED vars
  BY <1>7, ClassesUntouched, Zenon DEF vars, SameClass
<1> QED BY <1>1, <1>2, <1>3, <1>4, <1>5, <1>6, <1>7, SetprioKeeps, Zenon DEF Next

(***************************************************************************)
(* The theorem.                                                            *)
(***************************************************************************)

(* Exactly the tasks with a priority below 100 are in the RT class, only   *)
(* SCHED_TS tasks in the TS class, and no step but rt_mutex_setprio of a   *)
(* SCHED_TS task moves it to the fair class (core.c:2337-2342, 3886-3897,  *)
(* 4150-4155).                                                             *)
THEOREM ClassesAgree == Spec => ClassAgrees
<1>1. IInv => \A p \in Task : ClassFits(task[p])
  <2> SUFFICES ASSUME IInv, NEW p \in Task PROVE ClassFits(task[p])
    BY Zenon
  <2> QED BY Zenon DEF IInv, TaskOK, ClassFits
<1>2. IInv /\ [Next]_vars => [ClassKept]_vars
  BY NextClass, Zenon
<1> QED BY <1>1, <1>2, Invariance, PTL DEF Spec, ClassAgrees
=============================================================================

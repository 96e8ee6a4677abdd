------------------------------ MODULE RtPush ------------------------------
(***************************************************************************)
(* Balancing realtime tasks between CPUs (kernel/sched/rt.c): a woken task *)
(* is placed on the CPU that runs the least urgent task, a CPU with more   *)
(* than one realtime task pushes the waiting ones away, and a CPU whose    *)
(* priority falls pulls.  Pushing and pulling drop the run queue's lock in *)
(* double_lock_balance, and decide again from what they find afterwards.   *)
(*                                                                         *)
(* What a CPU is doing with interrupts off is its act: nothing ("idle"), a *)
(* wakeup between choosing a CPU and queueing the task ("wake"), steps of  *)
(* push_rt_tasks that hold rq's lock ("push", "retry", "find") or have     *)
(* dropped it ("lock"), pull_rt_task ("pull"), or __schedule before its    *)
(* balance callback ("callback").  The other steps are critical sections.  *)
(***************************************************************************)
EXTENDS Naturals, FiniteSets

CONSTANTS N,          \* CPUs are 1..N
          Tasks, None,
          Stopper,    \* the stop task of a CPU
          Prio,       \* p->prio: a smaller number is more urgent
          Affinity,   \* p->cpus_allowed at the start
          Masks,      \* the sets of CPUs that sched_setaffinity is called with
          RT_PUSH_IPI \* the values that this scheduler feature is given

Cpus == 1..N

ASSUME PushAssumption ==
  /\ N \in Nat \ {0} /\ None \notin Tasks /\ Stopper \notin Tasks \cup {None}
  /\ RT_PUSH_IPI \subseteq BOOLEAN
  /\ Prio \in [Tasks -> 1..99]
  /\ \A t, u \in Tasks : Prio[t] = Prio[u] => t = u
  /\ Affinity \in [Tasks -> SUBSET Cpus \ {{}}]
  /\ Masks \subseteq SUBSET Cpus \ {{}}

VARIABLES cpu,        \* task_cpu(p)
          on_rq,      \* is the task queued
          allowed,    \* p->cpus_allowed
          curr,       \* rq->curr, None if it is of a lower class
          resched,    \* TIF_NEED_RESCHED of rq->curr
          pushable,   \* rq->rt.pushable_tasks
          act,        \* what the CPU is doing
          ipi,        \* CPUs that the push interrupt is still to visit
          stop        \* tasks that migration_cpu_stop is to move

vars == <<cpu, on_rq, allowed, curr, resched, pushable, act, ipi, stop>>

RT_MAX_TRIES == 3
MAX_RT_PRIO == 100
Idle == [op |-> "idle", task |-> None, rq |-> 0, dst |-> 0, tries |-> 0]
Act == [op : {"idle", "wake", "callback", "push", "retry", "find", "lock", "pull"},
        task : Tasks \cup {None}, rq : 0..N, dst : 0..(N + 1), tries : 0..RT_MAX_TRIES]

prio(t) == IF t = None THEN MAX_RT_PRIO ELSE IF t = Stopper THEN 0 ELSE Prio[t]

Queue(c) == {t \in Tasks : on_rq[t] /\ cpu[t] = c}

\* The most urgent of a set of tasks.
First(S) ==
  IF S = {} THEN None ELSE CHOOSE t \in S : \A u \in S : Prio[t] <= Prio[u]

highest_prio(c) == prio(First(Queue(c)))

Migratory(t) == t \in Tasks /\ Cardinality(allowed[t]) > 1

overloaded(c) ==
  Cardinality(Queue(c)) > 1 /\ \E t \in Queue(c) : Migratory(t)

rto_mask == {c \in Cpus : overloaded(c)}

\* No step of push_rt_tasks is in the middle of the run queue.
RqUnlocked(c) ==
  \A x \in Cpus : act[x].op \in {"push", "retry", "find"} => act[x].rq # c

Init ==
  /\ allowed = Affinity
  /\ cpu = [t \in Tasks |-> CHOOSE c \in Affinity[t] : \A d \in Affinity[t] : c <= d]
  /\ on_rq = [t \in Tasks |-> FALSE]
  /\ curr = [c \in Cpus |-> None]
  /\ resched = [c \in Cpus |-> FALSE]
  /\ pushable = [c \in Cpus |-> {}]
  /\ act = [c \in Cpus |-> Idle]
  /\ ipi = {}
  /\ stop = {}

-----------------------------------------------------------------------------
(* Choosing a CPU.                                                         *)

\* The CPUs the task may run on whose most urgent task is the least urgent
\* of all and less urgent than the task.
cpupri_find(t) ==
  LET Lower == {c \in allowed[t] : highest_prio(c) > Prio[t]}
  IN  {c \in Lower : \A d \in Lower : highest_prio(d) <= highest_prio(c)}

\* The CPUs find_lowest_rq may return: the task's own if it is among the
\* lowest, else any of them (the choice follows the topology); 0 for -1.
find_lowest_rq(t) ==
  LET lowest == cpupri_find(t)
  IN  IF ~ Migratory(t) \/ lowest = {} THEN {0}
      ELSE IF cpu[t] \in lowest THEN {cpu[t]}
      ELSE lowest

select_task_rq_rt(t) ==
  LET c == cpu[t]
      crowded == /\ curr[c] # None
                 /\ ~ Migratory(curr[c]) \/ prio(curr[c]) <= Prio[t]
  IN  IF ~ crowded THEN {c}
      ELSE {IF d # 0 /\ Prio[t] < highest_prio(d) THEN d ELSE c :
              d \in find_lowest_rq(t)}

\* A task that is bound to one CPU goes there; a CPU that the mask forbids,
\* which the class may return when the mask has changed in the sleep, is
\* replaced by one that it allows (select_fallback_rq; all are active).
select_task_rq(t) ==
  IF ~ Migratory(t) THEN allowed[t]
  ELSE {IF c \in allowed[t] THEN c ELSE d : c \in select_task_rq_rt(t), d \in allowed[t]}

-----------------------------------------------------------------------------
(* Waking up.                                                              *)

\* try_to_wake_up on CPU x, up to the choice of a CPU, which is made
\* without the run queue's lock.  It waits for the task to be off its CPU.
Wake(x, t) ==
  /\ act[x] = Idle
  /\ \A c \in Cpus : curr[c] # t
  /\ ~ on_rq[t] /\ \A y \in Cpus : act[y].op # "wake" \/ act[y].task # t
  /\ \E c \in select_task_rq(t) :
       act' = [act EXCEPT ![x] = [Idle EXCEPT !.op = "wake", !.task = t, !.rq = c]]
  /\ UNCHANGED <<cpu, on_rq, allowed, curr, resched, pushable, ipi, stop>>

\* check_preempt_curr_rt.
Preempts(c, t) == Prio[t] < prio(curr[c])

\* Mutant: a woken task that cannot run is left to the next schedule.
task_woken_rt_Waits(x, c, t) == Idle

\* task_woken_rt: CPU x goes on to push_rt_tasks.
task_woken_rt(x, c, t) ==
  IF /\ ~ resched[c] /\ ~ Preempts(c, t) /\ Migratory(t) /\ curr[c] # None
     /\ ~ Migratory(curr[c]) \/ prio(curr[c]) <= Prio[t]
  THEN [Idle EXCEPT !.op = "push", !.rq = c]
  ELSE Idle

\* ttwu_do_activate: enqueue_task_rt, check_preempt_curr, task_woken_rt.
Activate(x) ==
  LET t == act[x].task
      c == act[x].rq
  IN  /\ act[x].op = "wake" /\ RqUnlocked(c)
      /\ cpu' = [cpu EXCEPT ![t] = c]
      /\ on_rq' = [on_rq EXCEPT ![t] = TRUE]
      /\ pushable' = [pushable EXCEPT ![c] =
                        IF Migratory(t) THEN @ \cup {t} ELSE @]
      /\ resched' = [resched EXCEPT ![c] = @ \/ Preempts(c, t)]
      /\ act' = [act EXCEPT ![x] = task_woken_rt(x, c, t)]
      /\ UNCHANGED <<allowed, curr, ipi, stop>>

-----------------------------------------------------------------------------
(* Pushing.                                                                *)

\* deactivate_task, set_task_cpu, activate_task of a waiting task, under
\* both locks.
Migrate(t, from, to) ==
  /\ cpu' = [cpu EXCEPT ![t] = to]
  /\ pushable' = [pushable EXCEPT ![from] = @ \ {t},
                    ![to] = IF Migratory(t) THEN @ \cup {t} ELSE @]

\* push_rt_task, up to find_lock_lowest_rq: nothing to push, a task that
\* should run here, or a task to find a CPU for.  The retry after something
\* has shifted does not look at rt.overloaded.
push_rt_task(x) ==
  LET a == act[x]
      c == a.rq
      next == First(pushable[c])
      none == next = None \/ (a.op = "push" /\ ~ overloaded(c))
  IN  /\ a.op \in {"push", "retry"}
      /\ \/ /\ none
            /\ act' = [act EXCEPT ![x] = Idle]
            /\ UNCHANGED resched
         \/ /\ ~ none /\ Prio[next] < prio(curr[c])
            /\ resched' = [resched EXCEPT ![c] = TRUE]
            /\ act' = [act EXCEPT ![x] = Idle]
         \/ /\ ~ none /\ Prio[next] >= prio(curr[c])
            /\ act' = [act EXCEPT ![x] = [a EXCEPT !.op = "find", !.task = next]]
            /\ UNCHANGED resched
      /\ UNCHANGED <<cpu, on_rq, allowed, curr, pushable, ipi, stop>>

\* Mutant: tries again although nothing has shifted.
NoTarget_Retries(x) ==
  act' = [act EXCEPT ![x] = [Idle EXCEPT !.op = "retry", !.rq = act[x].rq]]

\* find_lock_lowest_rq returned NULL: push_rt_task ends, unless another task
\* has become the next to push.
NoTarget(x) ==
  act' = [act EXCEPT ![x] =
    IF First(pushable[act[x].rq]) \in {act[x].task, None} THEN Idle
    ELSE [Idle EXCEPT !.op = "retry", !.rq = act[x].rq]]

\* One round of find_lock_lowest_rq, up to double_lock_balance.
find_lock_lowest_rq(x) ==
  LET a == act[x]
  IN  /\ a.op = "find"
      /\ \E d \in find_lowest_rq(a.task) :
           IF \/ a.tries = RT_MAX_TRIES \/ d \in {0, a.rq}
              \/ highest_prio(d) <= Prio[a.task]
           THEN NoTarget(x)
           ELSE act' = [act EXCEPT ![x] = [a EXCEPT !.op = "lock", !.dst = d]]
      /\ UNCHANGED <<cpu, on_rq, allowed, curr, resched, pushable, ipi, stop>>

\* Mutant: the affinity is not looked at again.
StillPushable_AnyCpu(t, c, d) == cpu[t] = c /\ curr[c] # t /\ on_rq[t]

\* What may have changed while the lock was dropped.
StillPushable(t, c, d) ==
  cpu[t] = c /\ d \in allowed[t] /\ curr[c] # t /\ on_rq[t]

\* The rest of the round and of push_rt_task, under both locks: the task is
\* moved and push_rt_tasks goes on, or the run queue is no longer suitable
\* and the next round begins, or the task is not the one it was.
PushLocked(x) ==
  LET a == act[x]
      c == a.rq
      t == a.task
  IN  /\ a.op = "lock" /\ RqUnlocked(c) /\ RqUnlocked(a.dst)
      /\ \/ /\ StillPushable(t, c, a.dst) /\ highest_prio(a.dst) > Prio[t]
            /\ Migrate(t, c, a.dst)
            /\ resched' = [resched EXCEPT ![a.dst] = TRUE]
            /\ act' = [act EXCEPT ![x] = [Idle EXCEPT !.op = "push", !.rq = c]]
         \/ /\ StillPushable(t, c, a.dst) /\ highest_prio(a.dst) <= Prio[t]
            /\ act' = [act EXCEPT ![x] = [a EXCEPT !.op = "find", !.dst = 0,
                                             !.tries = @ + 1]]
            /\ UNCHANGED <<cpu, pushable, resched>>
         \/ /\ ~ StillPushable(t, c, a.dst)
            /\ NoTarget(x)
            /\ UNCHANGED <<cpu, pushable, resched>>
      /\ UNCHANGED <<on_rq, allowed, curr, ipi, stop>>

-----------------------------------------------------------------------------
(* Scheduling and pulling.                                                 *)

\* The tasks a CPU leaves when its current task is put and next is picked.
Picked(c, next) ==
  LET prev == curr[c]
      put == IF Migratory(prev) /\ on_rq'[prev] THEN {prev} ELSE {}
  IN  (pushable[c] \cup put) \ {next}

\* The end of __schedule: put_prev_task, the pick, and the balance callback
\* if tasks can be pushed.
Switch(c, next) ==
  /\ curr' = [curr EXCEPT ![c] = next]
  /\ resched' = [resched EXCEPT ![c] = FALSE]
  /\ pushable' = [pushable EXCEPT ![c] = Picked(c, next)]
  /\ act' = [act EXCEPT ![c] =
       IF next # None /\ Picked(c, next) # {}
       THEN [Idle EXCEPT !.op = "callback", !.rq = c] ELSE Idle]

\* balance_callback takes the lock again, which the switch has dropped.
balance_callback(c) ==
  /\ act[c].op = "callback" /\ RqUnlocked(c)
  /\ act' = [act EXCEPT ![c].op = "push"]
  /\ UNCHANGED <<cpu, on_rq, allowed, curr, resched, pushable, ipi, stop>>

\* Is there a CPU to pull from: none is overloaded, or only this one.
NothingToPull(c) == rto_mask = {} \/ rto_mask = {c}

need_pull_rt_task(c, left) == prio(First(left)) > prio(curr[c])

\* __schedule on CPU c, by the need_resched flag or because the running
\* task blocks (the stop task runs until it blocks).  If the CPU's priority
\* falls it first pulls: with RT_PUSH_IPI the overloaded CPUs are told to
\* push, otherwise they are visited in turn.  That a request reaches every
\* overloaded CPU is right for two CPUs, where only one can be overloaded
\* beside the one that asks; with more, tell_cpu_to_push may find another
\* request being made and return (RtoLoop has its steps).
Schedule(c, blocks) ==
  LET left == IF blocks THEN Queue(c) \ {curr[c]} ELSE Queue(c)
      pulls == need_pull_rt_task(c, left) /\ ~ NothingToPull(c)
  IN  /\ act[c] = Idle /\ RqUnlocked(c)
      /\ IF blocks THEN curr[c] # None ELSE resched[c] /\ curr[c] # Stopper
      /\ on_rq' = [t \in Tasks |-> on_rq[t] /\ ~ (blocks /\ t = curr[c])]
      /\ \/ /\ pulls /\ FALSE \in RT_PUSH_IPI
            /\ act' = [act EXCEPT ![c] = [Idle EXCEPT !.op = "pull", !.dst = 1]]
            /\ UNCHANGED <<curr, resched, pushable, ipi>>
         \/ /\ ~ pulls \/ TRUE \in RT_PUSH_IPI
            /\ Switch(c, First(left))
            /\ ipi' = IF pulls THEN ipi \cup rto_mask ELSE ipi
      /\ UNCHANGED <<cpu, allowed, stop>>

\* pick_highest_pushable_task.
Pullable(d, c) == First({t \in pushable[d] : t # curr[d] /\ c \in allowed[t]})

\* One run queue of pull_rt_task; the own lock may be dropped before it.
pull_rt_task(c) ==
  LET d == act[c].dst
      t == Pullable(d, c)
      waiting == prio(First(pushable[d]))       \* highest_prio.next
  IN  /\ act[c].op = "pull" /\ d \in Cpus /\ RqUnlocked(c) /\ RqUnlocked(d)
      /\ IF /\ d # c /\ d \in rto_mask /\ waiting < highest_prio(c)
            /\ t # None /\ prio(t) < highest_prio(c) /\ prio(t) >= prio(curr[d])
         THEN Migrate(t, d, c)
         ELSE UNCHANGED <<cpu, pushable>>
      /\ act' = [act EXCEPT ![c].dst = d + 1]
      /\ UNCHANGED <<on_rq, allowed, curr, resched, ipi, stop>>

\* All have been visited: the pick.
Pick(c) ==
  /\ act[c].op = "pull" /\ act[c].dst = N + 1 /\ RqUnlocked(c)
  /\ UNCHANGED on_rq
  /\ Switch(c, First(Queue(c)))
  /\ UNCHANGED <<cpu, allowed, ipi, stop>>

\* rto_push_irq_work_func on CPU c.
rto_push_irq_work_func(c) ==
  /\ c \in ipi /\ act[c] = Idle /\ RqUnlocked(c)
  /\ ipi' = ipi \ {c}
  /\ act' = IF pushable[c] # {} THEN [act EXCEPT ![c] = [Idle EXCEPT !.op = "push", !.rq = c]]
            ELSE act
  /\ UNCHANGED <<cpu, on_rq, allowed, curr, resched, pushable, stop>>

-----------------------------------------------------------------------------
(* Affinity.                                                               *)

\* Mutant: the list of pushable tasks does not follow the mask.
Requeued_Kept(t, mask) == pushable

\* Pushable tasks of CPU c when t gets a new mask: t is dequeued and queued
\* again, unless it runs.
Requeued(t, mask) ==
  [pushable EXCEPT ![cpu[t]] =
     IF Cardinality(mask) > 1 /\ on_rq[t] /\ curr[cpu[t]] # t
     THEN @ \cup {t} ELSE @ \ {t}]

\* __set_cpus_allowed_ptr: a queued task on a CPU outside the mask is moved
\* here, a running one by migration_cpu_stop.  p->pi_lock keeps wakeups out.
set_cpus_allowed(t, mask) ==
  LET c == cpu[t]
  IN  /\ RqUnlocked(c) /\ t \notin stop /\ mask # allowed[t]
      /\ \A x \in Cpus : ~ (act[x].op = "wake" /\ act[x].task = t)
      /\ allowed' = [allowed EXCEPT ![t] = mask]
      /\ IF c \in mask \/ ~ on_rq[t]
         THEN /\ pushable' = Requeued(t, mask)
              /\ UNCHANGED <<cpu, resched, stop>>
         ELSE IF curr[c] = t
         THEN /\ pushable' = Requeued(t, mask)
              /\ stop' = stop \cup {t}
              /\ UNCHANGED <<cpu, resched>>
         ELSE \E d \in mask :
              /\ RqUnlocked(d)
              /\ cpu' = [cpu EXCEPT ![t] = d]
              /\ pushable' = [pushable EXCEPT ![c] = @ \ {t},
                   ![d] = IF Cardinality(mask) > 1 THEN @ \cup {t} ELSE @]
              /\ resched' = [resched EXCEPT ![d] = @ \/ Preempts(d, t)]
              /\ UNCHANGED stop
      /\ UNCHANGED <<on_rq, curr, act, ipi>>

\* migration_cpu_stop, run by the stop task of the CPU that t is on, which
\* preempts the running task: that is put, and the stop task is current.
migration_cpu_stop(t) ==
  LET c == cpu[t]
      put == {u \in {curr[c]} \ {t} : Migratory(u)}
      waits == IF Migratory(t) THEN {t} ELSE {}
  IN  /\ t \in stop /\ act[c] = Idle /\ RqUnlocked(c)
      /\ stop' = stop \ {t}
      /\ curr' = [curr EXCEPT ![c] = Stopper]
      /\ IF on_rq[t] /\ c \notin allowed[t]
         THEN \E d \in allowed[t] :
              /\ RqUnlocked(d)
              /\ cpu' = [cpu EXCEPT ![t] = d]
              /\ pushable' = [pushable EXCEPT ![c] = (@ \cup put) \ {t},
                                              ![d] = @ \cup waits]
              /\ resched' = [resched EXCEPT ![c] = FALSE, ![d] = @ \/ Preempts(d, t)]
         ELSE /\ pushable' = [pushable EXCEPT ![c] =
                   @ \cup put \cup (IF on_rq[t] THEN waits ELSE {})]
              /\ resched' = [resched EXCEPT ![c] = FALSE]
              /\ UNCHANGED cpu
      /\ UNCHANGED <<on_rq, allowed, act, ipi>>

-----------------------------------------------------------------------------
CpuStep(c) ==
  \/ \E t \in Tasks : Wake(c, t)
  \/ Activate(c)
  \/ push_rt_task(c)
  \/ find_lock_lowest_rq(c)
  \/ PushLocked(c)
  \/ \E blocks \in BOOLEAN : Schedule(c, blocks)
  \/ pull_rt_task(c)
  \/ Pick(c)
  \/ balance_callback(c)
  \/ rto_push_irq_work_func(c)

AffinityStep ==
  \/ \E t \in Tasks, mask \in Masks : set_cpus_allowed(t, mask)
  \/ \E t \in Tasks : migration_cpu_stop(t)

Next == (\E c \in Cpus : CpuStep(c)) \/ AffinityStep

Spec == Init /\ [][Next]_vars

\* What has been begun goes on: a CPU ends what it does with interrupts off,
\* interrupts and reschedule requests are served, stop tasks run and block.
\* Only this much is assumed, not that each CPU gets its turn: a CPU that is
\* kept waiting is kept waiting by others that make steps.
GoesOn ==
  \/ \E c \in Cpus :
       \/ Activate(c) \/ push_rt_task(c) \/ find_lock_lowest_rq(c) \/ PushLocked(c)
       \/ pull_rt_task(c) \/ Pick(c) \/ balance_callback(c)
       \/ Schedule(c, FALSE) \/ (curr[c] = Stopper /\ Schedule(c, TRUE))
       \/ rto_push_irq_work_func(c)
  \/ \E t \in Tasks : migration_cpu_stop(t)

FairSpec == Spec /\ WF_vars(GoesOn)

-----------------------------------------------------------------------------
(* Properties.                                                             *)

TypeOK ==
  /\ cpu \in [Tasks -> Cpus] /\ on_rq \in [Tasks -> BOOLEAN]
  /\ allowed \in [Tasks -> SUBSET Cpus]
  /\ curr \in [Cpus -> Tasks \cup {None, Stopper}] /\ resched \in [Cpus -> BOOLEAN]
  /\ pushable \in [Cpus -> SUBSET Tasks]
  /\ act \in [Cpus -> Act]
  /\ \A c \in Cpus : act[c].op = "lock" => act[c].dst \in Cpus \ {act[c].rq}
  /\ ipi \subseteq Cpus /\ stop \subseteq Tasks

\* The list of pushable tasks of a CPU has exactly the tasks that wait on it
\* and may run elsewhere, whatever was woken, switched, moved or bound in the
\* meantime: the five BUG_ONs of pick_next_pushable_task, and that no task is
\* forgotten.  (While pull_rt_task has the lock dropped, a task that has
\* blocked is still the current one.)
PushableExact ==
  \A c \in Cpus :
    pushable[c] = {t \in Queue(c) : t # curr[c] /\ Migratory(t)}

\* No task is woken on or moved to a CPU that its mask forbids, a task that
\* is queued on such a CPU has migration_cpu_stop coming for it, and a
\* running task is never moved from under its CPU: the mask and task_running
\* are looked at again after the locks were dropped (find_lock_lowest_rq,
\* pull_rt_task), and the mask at every wakeup (select_task_rq).
MovesSafely ==
  [][/\ \A t \in Tasks : cpu'[t] # cpu[t] => cpu'[t] \in allowed'[t]
     /\ \A t \in Tasks : on_rq'[t] => cpu'[t] \in allowed'[t] \/ t \in stop'
     /\ \A c \in Cpus : curr[c] \in Tasks /\ curr'[c] = curr[c]
          => cpu'[curr[c]] = cpu[curr[c]]]_vars

Quiet ==
  /\ \A c \in Cpus : act[c] = Idle /\ ~ resched[c] /\ curr[c] # Stopper
  /\ ipi = {} /\ stop = {}

\* When all that was started has ended, no realtime task waits while a CPU
\* that it may run on runs something less urgent: the most urgent tasks run,
\* system wide (select_task_rq_rt, push_rt_task, pull_rt_task).  It is said
\* of tasks that keep their masks: __set_cpus_allowed_ptr moves or frees a
\* waiting task without a push or a pull.
MostUrgentRun ==
  Quiet /\ allowed = Affinity =>
    \A t \in Tasks : on_rq[t] =>
      \/ curr[cpu[t]] = t
      \/ \A c \in allowed[t] : prio(curr[c]) <= Prio[t]

\* Tasks are not pushed around for ever: once no task wakes or blocks, the
\* CPUs come to rest (the retries of push_rt_tasks).
Settles == <>[][UNCHANGED on_rq]_vars => <>[]Quiet
=============================================================================

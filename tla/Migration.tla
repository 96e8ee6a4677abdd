----------------------------- MODULE Migration -----------------------------
(***************************************************************************)
(* Where tasks may run: CPU affinity, the migration of tasks by the        *)
(* stopper threads, the placement of woken tasks, and CPUs that go down    *)
(* and come up (kernel/sched/core.c).                                      *)
(*                                                                         *)
(* A step is a critical section of p->pi_lock and rq->lock.  Two of them   *)
(* keep p->pi_lock across a window without rq->lock: a wakeup that has     *)
(* chosen a CPU and not queued the task yet, and move_queued_task.         *)
(* p->wake_cpu is a hint that select_task_rq checks; the classes' choices  *)
(* are arbitrary here, so it is left out.                                  *)
(***************************************************************************)
EXTENDS Integers, FiniteSets

CONSTANTS Cpus,      \* cpu_possible_mask
          Tasks,
          Class,     \* the class of every task: "rt", "ts" or "fair"
          KThreads,  \* the tasks with PF_KTHREAD
          Fixed,     \* the tasks with PF_NO_SETAFFINITY
          Start,     \* the CPU every task is queued on at first
          Affinity,  \* cpus_allowed of every task at first
          Masks,     \* masks that set_cpus_allowed_ptr is called with
          Hotplug,   \* the CPUs that may go down
          Callers,   \* who calls the operations that need a stopper
          Calls,     \* the names of the operations that a caller calls
          Idle, Stop \* the idle and the stopper thread of a CPU

ASSUME MigrationAssumption ==
  /\ IsFiniteSet(Cpus) /\ Hotplug \subseteq Cpus /\ KThreads \subseteq Tasks
  /\ Class \in [Tasks -> {"rt", "ts", "fair"}] /\ Fixed \subseteq Tasks
  /\ Affinity \in [Tasks -> SUBSET Cpus] /\ Masks \subseteq SUBSET Cpus
  /\ Calls \in [Callers -> SUBSET {"affinity", "bind", "exec", "move", "swap"}]
  /\ \A t \in Tasks : Start[t] \in Affinity[t]
  /\ Idle \notin Tasks /\ Stop \notin Tasks

VARIABLES online, active,  \* cpu_online_mask, cpu_active_mask
          rq_online,       \* the CPUs whose rq->online is set
          hp,              \* the hotplug operation: its CPU, and its progress
          cpu, mask,       \* task_cpu, cpus_allowed
          on_rq,           \* p->on_rq
          state,           \* p->state
          curr,            \* rq->curr
          wake_list,       \* rq->wake_list
          call,            \* what a caller that needs the stopper is doing
          missed           \* history: tasks that a stopper left where they
                           \* may not run, as their target was inactive, or
                           \* that were left on a CPU that died

cpuhp == <<online, active, rq_online, hp>>
tasks == <<cpu, mask, on_rq, state>>
rqs == <<curr, wake_list>>
vars == <<cpuhp, tasks, rqs, call, missed>>

Queue(c) == {t \in Tasks : on_rq[t] = "queued" /\ cpu[t] = c}
task_running(t) == curr[cpu[t]] = t

NoCall == [at |-> "none"]
NoHotplug == [at |-> "none"]

\* The steps of a call that needs the stopper of call.cpu: unlocked (nothing
\* is queued for the stopper yet), queued, pending (the stopper has taken the
\* wake list), stop_move; move is a move by the caller itself.
HasWork(c) ==
  \E k \in Callers : call[k].at \in {"queued", "pending", "stop_move"} /\ call[k].cpu = c

\* A wakeup holds t, with p->pi_lock: the CPU is chosen, t is not queued yet.
InHand(t) == state[t] = "waking" /\ \A c \in Cpus : t \notin wake_list[c]
PiLocked(t) == InHand(t) \/ on_rq[t] = "migrating"

\* All CPUs are in stop_machine: only the dying CPU does something.
Stopped == hp.at = "dying"

Init ==
  /\ online = Cpus /\ active = Cpus /\ rq_online = Cpus /\ hp = NoHotplug
  /\ cpu = Start /\ mask = Affinity
  /\ on_rq = [t \in Tasks |-> "queued"] /\ state = [t \in Tasks |-> "running"]
  /\ curr = [c \in Cpus |-> Idle] /\ wake_list = [c \in Cpus |-> {}]
  /\ call = [k \in Callers |-> NoCall] /\ missed = {}

-----------------------------------------------------------------------------
(* Where a task may go.                                                    *)

is_per_cpu_kthread(t, m) == t \in KThreads /\ Cardinality(m) = 1

is_cpu_allowed(t, m, c) ==
  /\ c \in m
  /\ c \in (IF is_per_cpu_kthread(t, m) THEN online ELSE active)

\* The CPUs that the loop finds with mask m: first those of the node, which
\* must be active.
Found(t, m) == (m \cap active) \cup {c \in m : is_cpu_allowed(t, m, c)}

\* The mask with which a CPU is found: the task's own, if it has any, else the
\* one of the cpuset, which is no smaller than cpu_possible_mask here.
select_fallback_rq(t) == IF Found(t, mask[t]) # {} THEN mask[t] ELSE Cpus

\* The class's choice c is taken if it is allowed.
select_task_rq(t, c) ==
  LET only == Cardinality(mask[t]) = 1
      choice == IF only THEN CHOOSE d \in mask[t] : TRUE
                ELSE IF Class[t] = "ts" THEN cpu[t] ELSE c
      m == select_fallback_rq(t)
  IN  IF is_cpu_allowed(t, mask[t], choice)
      THEN {[cpu |-> choice, mask |-> mask[t]]}
      ELSE {[cpu |-> d, mask |-> m] : d \in Found(t, m)}
-----------------------------------------------------------------------------
(* Sleeping, waking, scheduling.                                           *)

\* What __schedule may pick; which of the queued tasks it is is left open.
Pick(queue) == IF queue = {} THEN {Idle} ELSE queue

\* (The stopper comes and goes in its own steps.)
__schedule(c) ==
  /\ ~Stopped /\ c \in online /\ curr[c] # Stop
  /\ \E p \in Pick(Queue(c)) \ {curr[c]} : curr' = [curr EXCEPT ![c] = p]
  /\ UNCHANGED <<cpuhp, tasks, wake_list, call, missed>>

\* The current task goes to sleep.
Sleep(c) ==
  LET t == curr[c]
  IN  /\ ~Stopped /\ t \in Tasks
      /\ on_rq' = [on_rq EXCEPT ![t] = "no"] /\ state' = [state EXCEPT ![t] = "sleeping"]
      /\ \E p \in Pick(Queue(c) \ {t}) : curr' = [curr EXCEPT ![c] = p]
      /\ missed' = missed \ {t}
      /\ UNCHANGED <<cpuhp, cpu, mask, wake_list, call>>

\* try_to_wake_up up to set_task_cpu.  (A task that is still queued is left
\* where it is.)
try_to_wake_up(t) ==
  /\ ~Stopped /\ state[t] = "sleeping"
  /\ state' = [state EXCEPT ![t] = "waking"]
  /\ \E c \in Cpus : \E r \in select_task_rq(t, c) :
       cpu' = [cpu EXCEPT ![t] = r.cpu] /\ mask' = [mask EXCEPT ![t] = r.mask]
  /\ UNCHANGED <<cpuhp, on_rq, rqs, call, missed>>

\* The task goes to the wake list of its CPU, or to its queue.
ttwu_queue(t) ==
  /\ ~Stopped /\ InHand(t)
  /\ \/ /\ wake_list' = [wake_list EXCEPT ![cpu[t]] = @ \cup {t}]
        /\ UNCHANGED <<on_rq, state>>
     \/ /\ on_rq' = [on_rq EXCEPT ![t] = "queued"]
        /\ state' = [state EXCEPT ![t] = "running"]
        /\ UNCHANGED wake_list
  /\ UNCHANGED <<cpuhp, cpu, mask, curr, call, missed>>

sched_ttwu_pending(c) ==
  /\ wake_list' = [wake_list EXCEPT ![c] = {}]
  /\ on_rq' = [t \in Tasks |-> IF t \in wake_list[c] THEN "queued" ELSE on_rq[t]]
  /\ state' = [t \in Tasks |-> IF t \in wake_list[c] THEN "running" ELSE state[t]]

\* The reschedule interrupt of a CPU whose wake list is not empty.
scheduler_ipi(c) ==
  /\ ~Stopped /\ c \in online /\ wake_list[c] # {}
  /\ sched_ttwu_pending(c)
  /\ UNCHANGED <<cpuhp, cpu, mask, curr, call, missed>>

-----------------------------------------------------------------------------
(* Affinity and the stopper.                                               *)

\* The stopper of the CPUs cs is done: they pick again, of the tasks that are
\* now on them.
StopperLeaves(cs, at, q) ==
  \E next \in [cs -> Tasks \cup {Idle}] :
    /\ \A c \in cs : next[c] \in Pick({t \in Tasks : q[t] = "queued" /\ at[t] = c})
    /\ curr' = [c \in Cpus |-> IF c \in cs THEN next[c] ELSE curr[c]]

\* The first half of move_queued_task.
Detach(k, t, dest, at) ==
  /\ on_rq' = [on_rq EXCEPT ![t] = "migrating"]
  /\ cpu' = [cpu EXCEPT ![t] = dest]
  /\ missed' = missed \ {t}
  /\ call' = [call EXCEPT ![k] = [at |-> at, task |-> t, cpu |-> cpu[t], dest |-> dest]]

\* The second half, under the lock of the new run queue.
move_queued_task(k) ==
  /\ ~Stopped /\ call[k].at \in {"move", "stop_move"}
  /\ on_rq' = [on_rq EXCEPT ![call[k].task] = "queued"]
  /\ IF call[k].at = "move" THEN UNCHANGED curr
     ELSE StopperLeaves({call[k].cpu}, cpu, on_rq')
  /\ call' = [call EXCEPT ![k] = NoCall]
  /\ UNCHANGED <<cpuhp, cpu, mask, state, wake_list, missed>>

NeedStopper(k, t, dest) ==
  call' = [call EXCEPT ![k] = [at |-> "unlocked", task |-> t, cpu |-> cpu[t], dest |-> dest]]

\* A refusal changes nothing.
__set_cpus_allowed_ptr(k, t, m, check) ==
  LET valid == IF t \in KThreads THEN online ELSE active
  IN  /\ ~Stopped /\ call[k] = NoCall /\ ~PiLocked(t)
      /\ ~(check /\ t \in Fixed) /\ m # mask[t] /\ m \cap valid # {}
      /\ mask' = [mask EXCEPT ![t] = m]
      /\ \/ /\ cpu[t] \in m \/ (on_rq[t] = "no" /\ state[t] # "waking")
            /\ missed' = missed \ {t}
            /\ UNCHANGED <<cpu, on_rq, call>>
         \/ /\ cpu[t] \notin m /\ (task_running(t) \/ state[t] = "waking")
            /\ \E dest \in m \cap valid : NeedStopper(k, t, dest)
            /\ UNCHANGED <<cpu, on_rq, missed>>
         \/ /\ cpu[t] \notin m /\ on_rq[t] = "queued" /\ ~task_running(t)
            /\ \E dest \in m \cap valid : Detach(k, t, dest, "move")
      /\ UNCHANGED <<cpuhp, state, rqs>>

\* Calls from within the kernel may move any task; the system call may not, and
\* the cpuset it consults allows every CPU.
set_cpus_allowed_ptr(k, t, m) == __set_cpus_allowed_ptr(k, t, m, FALSE)
sched_setaffinity(k, t, m) == t \notin Fixed /\ __set_cpus_allowed_ptr(k, t, m, TRUE)

\* The current task asks to be moved, by its class's choice; the classes other
\* than the fair one choose the CPU it is on.  (The task then waits for the
\* stopper, which is one of the ways to sleep.)
sched_exec(k, t, dest) ==
  /\ ~Stopped /\ call[k] = NoCall /\ ~PiLocked(t) /\ task_running(t)
  /\ Class[t] = "fair" /\ dest \in (active \cap mask[t]) \ {cpu[t]}
  /\ NeedStopper(k, t, dest)
  /\ UNCHANGED <<cpuhp, tasks, rqs, missed>>

\* migrate_task_to: as sched_exec, whether or not the target is active.
migrate_task_to(k, t, dest) ==
  /\ ~Stopped /\ call[k] = NoCall /\ task_running(t)
  /\ dest \in mask[t] \ {cpu[t]}
  /\ NeedStopper(k, t, dest)
  /\ UNCHANGED <<cpuhp, tasks, rqs, missed>>

\* The stopper of a CPU that is down takes no work.
stop_one_cpu(k) ==
  /\ ~Stopped /\ call[k].at = "unlocked"
  /\ call' = [call EXCEPT ![k] = IF call[k].cpu \in online
                                 THEN [@ EXCEPT !.at = "queued"] ELSE NoCall]
  /\ UNCHANGED <<cpuhp, tasks, rqs, missed>>

\* Mutant: the wake list is not taken first.
StopPending_NoPending(k) ==
  LET c == call[k].cpu
  IN  /\ ~Stopped /\ call[k].at = "queued" /\ curr[c] # Stop
      /\ curr' = [curr EXCEPT ![c] = Stop]
      /\ call' = [call EXCEPT ![k].at = "pending"]
      /\ UNCHANGED <<cpuhp, tasks, wake_list, missed>>

\* The stopper preempts whatever runs; migration_cpu_stop takes the wake list
\* first.
StopPending(k) ==
  LET c == call[k].cpu
  IN  /\ ~Stopped /\ call[k].at = "queued" /\ curr[c] # Stop
      /\ sched_ttwu_pending(c)
      /\ curr' = [curr EXCEPT ![c] = Stop]
      /\ call' = [call EXCEPT ![k].at = "pending"]
      /\ UNCHANGED <<cpuhp, cpu, mask, missed>>

\* Mutant: waits for the task to come back to the stopper's CPU.
migration_cpu_stop_Waits(k) ==
  LET t == call[k].task
      allowed == is_cpu_allowed(t, mask[t], call[k].dest)
  IN  /\ ~Stopped /\ call[k].at = "pending" /\ ~PiLocked(t)
      /\ cpu[t] = call[k].cpu /\ on_rq[t] = "queued"
      /\ \/ allowed /\ Detach(k, t, call[k].dest, "stop_move") /\ UNCHANGED curr
         \/ /\ ~allowed
            /\ call' = [call EXCEPT ![k] = NoCall]
            /\ missed' = IF call[k].dest \in mask[t] /\ cpu[t] \notin mask[t]
                         THEN missed \cup {t} ELSE missed
            /\ StopperLeaves({call[k].cpu}, cpu, on_rq)
            /\ UNCHANGED <<cpu, on_rq>>
      /\ UNCHANGED <<cpuhp, mask, state, wake_list>>

\* Moves the task if it is still queued on the stopper's CPU and the target
\* may still run it.
migration_cpu_stop(k) ==
  LET t == call[k].task
      moves == cpu[t] = call[k].cpu /\ on_rq[t] = "queued"
      allowed == is_cpu_allowed(t, mask[t], call[k].dest)
  IN  /\ ~Stopped /\ call[k].at = "pending" /\ ~PiLocked(t)
      /\ \/ moves /\ allowed /\ Detach(k, t, call[k].dest, "stop_move") /\ UNCHANGED curr
         \/ /\ ~(moves /\ allowed)
            /\ call' = [call EXCEPT ![k] = NoCall]
            /\ missed' = IF moves /\ call[k].dest \in mask[t] /\ cpu[t] \notin mask[t]
                       THEN missed \cup {t} ELSE missed
            /\ StopperLeaves({call[k].cpu}, cpu, on_rq)
            /\ UNCHANGED <<cpu, on_rq>>
      /\ UNCHANGED <<cpuhp, mask, state, wake_list>>
-----------------------------------------------------------------------------
(* Two tasks change places (NUMA balancing).                               *)

\* The tests are made without locks, and made again by the stopper.
migrate_swap(k, a, b) ==
  /\ ~Stopped /\ call[k] = NoCall /\ cpu[a] # cpu[b]
  /\ {cpu[a], cpu[b]} \subseteq active /\ cpu[b] \in mask[a] /\ cpu[a] \in mask[b]
  /\ call' = [call EXCEPT ![k] = [at |-> "swap", src |-> a, dst |-> b,
                                  src_cpu |-> cpu[a], dst_cpu |-> cpu[b]]]
  /\ UNCHANGED <<cpuhp, tasks, rqs, missed>>

\* Both stoppers are in multi_cpu_stop; if one of the CPUs is down they are not
\* called.  sched_cpu_deactivate waits for them before the CPU goes on, so the
\* test of cpu_active and the swap are one step.  A task that is not queued only gets a new wake_cpu.
migrate_swap_stop(k) ==
  LET arg == call[k]
      both == {arg.src_cpu, arg.dst_cpu}
      ok == /\ both \subseteq active
            /\ cpu[arg.src] = arg.src_cpu /\ cpu[arg.dst] = arg.dst_cpu
            /\ arg.dst_cpu \in mask[arg.src] /\ arg.src_cpu \in mask[arg.dst]
      To(t) == IF t = arg.src THEN arg.dst_cpu ELSE arg.src_cpu
  IN  /\ ~Stopped /\ arg.at = "swap" /\ ~PiLocked(arg.src) /\ ~PiLocked(arg.dst)
      /\ \A c \in both : curr[c] # Stop
      /\ cpu' = [t \in Tasks |-> IF ok /\ t \in {arg.src, arg.dst} /\ on_rq[t] = "queued"
                                 THEN To(t) ELSE cpu[t]]
      /\ IF both \subseteq online THEN StopperLeaves(both, cpu', on_rq) ELSE UNCHANGED curr
      /\ call' = [call EXCEPT ![k] = NoCall]
      /\ UNCHANGED <<cpuhp, mask, on_rq, state, wake_list, missed>>

-----------------------------------------------------------------------------
(* A CPU goes down and comes up.                                           *)

\* The last CPU cannot go down.
sched_cpu_deactivate(c) ==
  /\ hp = NoHotplug /\ c \in Hotplug \cap active /\ active # {c}
  /\ active' = active \ {c}
  /\ hp' = [at |-> "down", cpu |-> c]
  /\ UNCHANGED <<online, rq_online, tasks, rqs, call, missed>>

\* Bringing the CPU up ends here, and so does a failed attempt to take it down.
sched_cpu_activate ==
  /\ hp.at \in {"down", "up"}
  /\ active' = active \cup {hp.cpu} /\ rq_online' = rq_online \cup {hp.cpu}
  /\ hp' = NoHotplug
  /\ UNCHANGED <<online, tasks, rqs, call, missed>>

sched_cpu_starting(c) ==
  /\ hp = NoHotplug /\ c \notin online
  /\ online' = online \cup {c}
  /\ hp' = [at |-> "up", cpu |-> c]
  /\ UNCHANGED <<active, rq_online, tasks, rqs, call, missed>>

\* Mutant: tasks on the wake list stay there.
sched_cpu_dying_NoPending ==
  LET c == hp.cpu
  IN  /\ hp.at \in {"down", "up"}
      /\ \A t \in Tasks : ~PiLocked(t)
      /\ ~HasWork(c) /\ \A d \in Cpus : curr[d] # Stop
      /\ online' = online \ {c} /\ rq_online' = rq_online \ {c}
      /\ curr' = [curr EXCEPT ![c] = Stop]
      /\ hp' = [hp EXCEPT !.at = "dying"]
      /\ UNCHANGED <<active, tasks, wake_list, call, missed>>

\* take_cpu_down in stop_machine, also when a CPU that came up half way is taken
\* down again: no CPU is in a critical section, and the
\* stopper has done the work queued before.  Then sched_cpu_dying up to
\* migrate_tasks.
sched_cpu_dying ==
  LET c == hp.cpu
  IN  /\ hp.at \in {"down", "up"}
      /\ \A t \in Tasks : ~PiLocked(t)
      /\ ~HasWork(c) /\ \A d \in Cpus : curr[d] # Stop
      /\ online' = online \ {c} /\ rq_online' = rq_online \ {c}
      /\ sched_ttwu_pending(c)
      /\ curr' = [curr EXCEPT ![c] = Stop]
      /\ hp' = [hp EXCEPT !.at = "dying"]
      /\ UNCHANGED <<active, cpu, mask, call, missed>>

\* enqueue_task_ts does not count its tasks; the stopper is the one.
nr_running(c) == 1 + Cardinality({t \in Queue(c) : Class[t] # "ts"})

\* The classes are asked in their order.
Rank == [rt |-> 1, ts |-> 2, fair |-> 3]
pick_next_task(c) ==
  {t \in Queue(c) : \A u \in Queue(c) : Rank[Class[t]] <= Rank[Class[u]]}

\* Where __migrate_task leaves a task: it refuses a target that the mask m
\* forbids, and says nothing.
__migrate_task(t, m, dest) == IF is_cpu_allowed(t, m, dest) THEN dest ELSE cpu[t]

\* Mutant: the mask of a task that has no CPU left is not widened.
migrate_tasks_KeepsMask ==
  LET c == hp.cpu
  IN  /\ Stopped /\ nr_running(c) # 1
      /\ \E t \in pick_next_task(c) : \E dest \in Found(t, select_fallback_rq(t)) :
           /\ cpu' = [cpu EXCEPT ![t] = __migrate_task(t, mask[t], dest)]
           /\ missed' = missed \ {t}
      /\ UNCHANGED <<cpuhp, mask, on_rq, state, rqs, call>>

\* One round of the loop.
migrate_tasks ==
  LET c == hp.cpu
  IN  /\ Stopped /\ nr_running(c) # 1
      /\ \E t \in pick_next_task(c) :
           LET m == select_fallback_rq(t)
           IN  /\ mask' = [mask EXCEPT ![t] = m]
               /\ \E dest \in Found(t, m) :
                    cpu' = [cpu EXCEPT ![t] = __migrate_task(t, m, dest)]
               /\ missed' = missed \ {t}
      /\ UNCHANGED <<cpuhp, on_rq, state, rqs, call>>

\* The loop ends, the CPU is dead, with the tasks that were not counted.
CpuDead ==
  /\ Stopped /\ nr_running(hp.cpu) = 1
  /\ curr' = [curr EXCEPT ![hp.cpu] = Idle]
  /\ hp' = NoHotplug
  /\ missed' = missed \cup Queue(hp.cpu)
  /\ UNCHANGED <<online, active, rq_online, tasks, wake_list, call>>

-----------------------------------------------------------------------------
CallStep(k) ==
  \/ stop_one_cpu(k)
  \/ StopPending(k)
  \/ migration_cpu_stop(k)
  \/ move_queued_task(k)
  \/ migrate_swap_stop(k)

CallBegin(k, t) ==
  \/ "affinity" \in Calls[k] /\ \E m \in Masks : sched_setaffinity(k, t, m)
  \/ "bind" \in Calls[k] /\ \E m \in Masks : set_cpus_allowed_ptr(k, t, m)
  \/ "exec" \in Calls[k] /\ \E dest \in Cpus : sched_exec(k, t, dest)
  \/ "move" \in Calls[k] /\ \E dest \in Cpus : migrate_task_to(k, t, dest)
  \/ "swap" \in Calls[k] /\ \E u \in Tasks \ {t} : migrate_swap(k, t, u)

HotplugStep ==
  \/ \E c \in Cpus : sched_cpu_deactivate(c)
  \/ sched_cpu_activate
  \/ \E c \in Cpus : sched_cpu_starting(c)
  \/ sched_cpu_dying
  \/ migrate_tasks
  \/ CpuDead

Next ==
  \/ \E c \in Cpus : __schedule(c) \/ Sleep(c) \/ scheduler_ipi(c)
  \/ \E t \in Tasks : try_to_wake_up(t) \/ ttwu_queue(t)
  \/ \E k \in Callers : CallStep(k) \/ \E t \in Tasks : CallBegin(k, t)
  \/ HotplugStep

Spec == Init /\ [][Next]_vars

\* Locks are fair, a stopper that has work is run, and what has begun is ended.
FairSpec ==
  /\ Spec
  /\ \A k \in Callers : SF_vars(CallStep(k))
  /\ \A t \in Tasks : WF_vars(ttwu_queue(t))
  /\ WF_vars(migrate_tasks \/ CpuDead)

-----------------------------------------------------------------------------
(* Properties.                                                             *)

\* A task that is queued is on a CPU of its mask, or a call that will move it
\* has not returned yet, whatever calls, wakeups and CPUs that go down raced
\* with the call that set the mask (__set_cpus_allowed_ptr, migration_cpu_stop:
\* "such that we will not miss enforcing cpus_allowed during wakeups").  The
\* exceptions are a task whose stopper found its target inactive by then, and a
\* SCHED_TS task that a dead CPU kept.
RunsWhereAllowed ==
  \A t \in Tasks : on_rq[t] = "queued" =>
    \/ cpu[t] \in mask[t] \/ t \in missed
    \/ \E k \in Callers : call[k].at \notin {"none", "swap"} /\ call[k].task = t

\* No task is lost with a CPU: one that is runnable, moving or about to be
\* queued is on an online CPU.  It does not hold of SCHED_TS tasks, which the
\* loop of migrate_tasks does not count, once they are queued.
NoneLeftBehind ==
  ~Stopped => \A t \in Tasks :
    state[t] = "waking" \/ (on_rq[t] # "no" /\ Class[t] # "ts") => cpu[t] \in online

\* The loop of migrate_tasks ends, on which every CPU waits: it goes by
\* nr_running, and a task that __migrate_task refuses to move is picked again.
\* It also ends when SCHED_TS tasks, which it picks and does not count, are
\* among the tasks, and when a task is bound to the CPU that dies
\* (select_fallback_rq: "No more Mr. Nice Guy").
DyingEnds == Stopped ~> ~Stopped

\* Every call that waits for migration_cpu_stop returns: no stopper waits for
\* ever, also when the CPU goes down or the task has left it.
CallsReturn == \A k \in Callers : []<>(call[k].at \in {"none", "swap"})
=============================================================================

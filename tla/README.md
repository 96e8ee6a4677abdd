# Specifications of the Kernel-Programming repository

TLA+ specifications, TLC models and TLAPS proofs for the C programs of this
repository. The centre is HW5: a Linux 4.19 scheduler to which a scheduling
class `SCHED_TS` (policy 10) was added between the real-time and the fair class.
Two smaller programs are specified as well: the job-control shell of HW2.3 and
the system call `xmerge` of HW4.

## The system and its parts

| part | code | specification |
|---|---|---|
| SCHED_TS class | `kernel/sched/ts.c` | `TsPrio`, `KList`, `TsSched` |
| core and RT class, one run queue | `kernel/sched/core.c`, `rt.c` | `TsSched` |
| sleeping and waking on SMP | `core.c`: `try_to_wake_up`, wake lists, `wake_q`, `__schedule`, idle polling | `Ttwu` |
| affinity, migration, CPU hotplug | `core.c`: `__set_cpus_allowed_ptr`, stopper work, `migrate_tasks`, `sched_cpu_*` | `Migration` |
| RT bandwidth | `rt.c`: charging, borrowing, period timer, offline and online, sysctl | `RtBandwidth` |
| RT push and pull | `rt.c`: placement, pushable lists, push, pull | `RtPush` |
| the push interrupt's loop | `rt.c`: `tell_cpu_to_push`, `rto_next_cpu`, `rto_push_irq_work_func` | `RtoLoop` |
| task groups | `core.c`, `rt.c`: the tree of groups, admission of bandwidth, the global limit, attaching tasks | `TaskGroups`, which implements `GroupAdmission` |
| shell | `HW2.3-Shell/myshell.c` | `ShellJobs` |
| xmerge system call | `HW4-xmerge/xmerge.c` | `Xmerge` |

How they interact. Within one CPU everything that holds `rq->lock` is one step,
and what interleaves is who takes the lock next: that is `TsSched`. Between CPUs
the interesting code runs where a lock is not held or was dropped: the reads of
`try_to_wake_up` (`Ttwu`), the time between an affinity call and its stopper
work (`Migration`), `double_lock_balance` (`RtPush`), the trylock and the counters
of the push interrupt (`RtoLoop`), the timer callback between two CPUs and the
sysctl between its writes (`RtBandwidth`), the walk of the group tree
(`TaskGroups`). Each of these modules has the scheduler state that its code reads
and no more. Three seams are modelled on both sides: `Ttwu` has the wake list in
full and `Migration` what becomes of it when a CPU dies; `RtPush` has the push
interrupt as a set of CPUs still to visit and `RtoLoop` how that set is gone
through; `RtBandwidth` and `Migration` both have CPUs that go and come, one for
the runtime and one for the tasks.

Nothing is persisted, so there is no crash recovery; the faults are CPUs that go
offline, calls that fail, transfers that are short, processes that are killed.

## Modules

Each module names its state after the C fields and its actions after the C
functions; `PROJECT.json` maps every definition to its lines. Where one function
is several actions, a step ends where another CPU can see a difference, and the
name of the function goes to the action that does its work.

* `TsPrio` — the pure functions of ts.c: `get_new_prio` (level of an expired or
  a woken task, clamped to 0..39) and `get_num_ticks` (slice: 16, 12, 8 or 4).
* `KList` — the kernel's linked lists (external) as a bank of sequences.
  `list_del` takes no list head, as in the kernel: it unlinks the entry from
  whichever list holds it, so a task linked under an old priority is removable.
* `TsSched` — one run queue. `task` has each task's scheduling fields (`pi` is
  the priority of the top PI waiter, `MAX_PRIO` for none), `rq` the queues and
  `nr_running`. The fair class is external: a set from which any task may be
  picked, and a preemption test with either answer. Each action is the whole
  critical section of the C function of its name. `FastPath` is the test of
  `pick_next_task` that calls the fair class directly; SCHED_TS tasks are not
  counted in `nr_running`, as in ts.c.
* `Ttwu` — tasks with `state`, `on_rq`, `on_cpu`, `pi_lock`; CPUs with a run
  queue, its lock, a wake list, `need_resched`, the polling flag of the idle task
  and an interrupt on its way. `act[c]` is what CPU c does with interrupts off.
  A task waits for its condition in the loop `set_current_state; test;
  schedule`, and the condition comes with `wake_up_process`, `wake_q_add` or a
  signal. Memory is sequentially consistent: the barriers that the comments pair
  are assumed to do what they say. The idle loop is external.
* `Migration` — masks, `online`, `active` and `rq_online` CPUs, `on_rq` with its
  value "migrating", and one record per caller for affinity, binding, exec, NUMA
  move and swap, from the call to the end of the stopper work it waits for.
  `migrate_tasks` runs under `stop_machine`. The stopper threads are external:
  work that was queued is done, and a dying CPU has none left. Every cpuset
  allows all CPUs. The choices of the classes' `select_task_rq` are arbitrary.
* `RtBandwidth` — per CPU the runtime, the time used, `throttled`, the number of
  tasks, whether the queue is queued and how many of its tasks `nr_running`
  has; `def_rt_bandwidth`, the sysctl and the handler's progress; the timer's
  callback with the CPU it is at. Built without `RT_GROUP_SCHED`, with
  `RT_RUNTIME_SHARE`; the period is constant.
* `RtPush` — tasks with distinct priorities, `curr`, `pushable`, `resched` and
  the act of each CPU. `double_lock_balance` always drops the lock here (it does
  so unless the other lock is free). Which of the equally suitable CPUs is
  chosen by topology is a free choice. A woken task goes through
  `select_task_rq` whole: the class's choice, or the only CPU of its mask, and
  the fallback for a CPU that the mask does not have. A request to push is never
  lost here. In the code it is when `rto_start_trylock` fails (rt.c:1996), which
  with two CPUs leaves nothing undone: the holder is then the other CPU, the only
  one that could be asked, and it is in `schedule()` and pushes at its end.
  `RtoLoop` has the steps, with three CPUs.
* `RtoLoop` — one root domain: `rto_mask`, `rto_cpu`, `rto_loop`,
  `rto_loop_next`, `rto_loop_start`, the references on the root domain, and the
  program counters of pullers and of the irq_work. A scan of `rto_mask` and the
  look at `rto_loop_next` that follows are separate steps, since both change
  without `rto_lock`.
* `TaskGroups` — the tree, the period and runtime of each group, the sysctls,
  the calls in progress with the groups their walk has still to visit, and tasks
  with their group. A half that is not written (period or runtime) is read before
  the mutex is taken. `to_ratio` divides and wraps like the code, with `BW_UNIT`
  and `WORD` for 2^20 and 2^64. `RT_GROUP_SCHED` is on.
* `GroupAdmission` — what the group code promises: shares that fit, changed in
  one step or not at all.
* `ShellJobs` — the job list, current job, process records and the locals of
  `wait_job`, against children that exec, end, stop and are killed. Pids are not
  reused, fork does not fail; a signal from the keyboard is an `Exit` or a
  `Stop` of the processes it reaches. The argument of `bg` and `fg` is any
  number, the 0 that `atoi` makes of a word included, and with two arguments
  `pgid` is uninitialised and may be anything.
* `Xmerge` — one call: descriptors, address limit, buffer, counters, exit labels.
  Bytes are numbered through all inputs. Every VFS call may fail or be short,
  and a failed `kmalloc`, which is not tested, oopses. The parameter block that
  the call reads again and again does not change.
* `MCTsSched`, `MCTtwu`, `MCMigration`, `MCRtBandwidth`, `MCRtPush`,
  `MCTaskGroups`, `MCXmerge` — the values of the constants for the runs.
* `KListProofs`, `TsQueueProofs`, `TsSchedProofs`, `TsStepProofs`,
  `TsInvProofs`, `TsClassProofs` — the proofs, see below.

## Runs

| run | instance | checks |
|---|---|---|
| `ts_classes` | 2 tasks, three policies, RT levels 97 and 98, nice values, donors, sleep, fork, exit, yield, moves | `ClassAgrees`, `RtUrgent`, `RtAtItsPrio`, `FiledOnce`, `NrRunningCounts`, `NewTaskIsClean`, `ResetIsHonoured` |
| `ts_slices` | 3 CPU-bound SCHED_TS tasks | `SliceInRange`, `EveryTsTaskRuns` |
| `ts_fast_path` | 2 SCHED_TS tasks, one sleeps | `FastPathIsFairOnly`: violated |
| `ttwu` | 2 CPUs with separate caches, 2 tasks: direct wakeups, wake_q, signals, exit | `OneCpu`, `InOnePlace`, `DroppedOnce`, `NoLostWakeup`, `NoIdleWhileQueued`, `DeadStaysDead` |
| `migration` | 2 CPUs, one of which goes down and comes up; a fair task and a bound SCHED_TS kernel thread; 2 callers | `RunsWhereAllowed`, `NoneLeftBehind`, `DyingEnds`, `CallsReturn` |
| `rt_bandwidth` | 2 CPUs with realtime tasks, one of which goes offline; limits none, 0 and 2 of 3 | `NeverLeftWanting`, `RuntimeConserved`, `QueuedUnlessThrottled`, `ThrottleEnds` |
| `rt_push` | 2 CPUs, 3 tasks, with and without `RT_PUSH_IPI`, binding to a CPU | `PushableExact`, `MostUrgentRun`, `MovesSafely`, `Settles` |
| `rto` | 3 CPUs, 2 of which pull; 3 requests, 3 overloads | `OneLoop`, `AllVisited`, `LoopEnds` |
| `groups` | root and 2 groups in any tree, 2 writers, the sysctl, 1 task | `WithinGlobal`, `NotStarved`, `Refines` |
| `shell` | 3 processes in pipelines, `jobs`, `bg`, `exit` | `ChildrenListed`, `JobsEnd`, `PromptReturns` |
| `shell_lost` | the same with `fg` | `ChildrenListed`: violated |
| `xmerge` | files of 3, 0 and 2 bytes, a page of 2 | `NothingLeaks`, `Concatenates`, `ReportsTruly`, `Terminates` |

What they show, where it is not plain from the comments at the properties:

* `ts_classes`. The run queue stays exact through every sequence of policy
  changes, boosts and moves. `RtUrgent` is about a running task of another class
  than SCHED_TS: `switched_to_ts` is empty, and a task that leaves the RT class
  for SCHED_TS keeps the CPU while RT tasks wait. `ClassAgrees` has one
  exception, a disagreement that the code has: `rt_mutex_setprio` chooses the
  class from the priority alone (core.c:3892-3897), so that at the end of a PI
  boost a SCHED_TS task is put in the fair class, although the comment in
  `__sched_setscheduler` (core.c:4367-4371) has the class follow at the deboost.
  No other step parts a SCHED_TS task from its class.
* `ts_fast_path`. `enqueue_task_ts` does not count its task in `nr_running`, so
  `pick_next_task` takes "all tasks are in the fair class" to be true and passes
  SCHED_TS tasks over when the previous task was fair or idle.
* `ttwu`. No order of the stores to `p->state`, `on_rq`, `on_cpu` and the wake
  list loses a wakeup or runs a task twice, and a CPU that halts or polls is
  told of what is queued on it.
* `migration`. A task is off its mask only while a call that will move it has
  not returned, with two exceptions that the history variable `missed` has: the
  target was no longer active when `migration_cpu_stop` ran, so that the task
  stays where it is and the call returns 0; and SCHED_TS tasks that a dead CPU
  kept, since the loop of `migrate_tasks` ends when `nr_running` is 1 and does
  not count them. `NoneLeftBehind` is for this reason about the other classes,
  and about wakeups in flight for all. `DyingEnds` is about the loop itself: it
  runs with every CPU stopped and ends only when all that is counted has left,
  while `__migrate_task` silently refuses a CPU that the mask does not have. It
  ends because `select_fallback_rq` widens the mask before.
* `rt_bandwidth`. Runtime is neither made nor lost, and `BUG_ON(want)` does not
  fire, except when a CPU goes or comes while the sysctl handler is between its
  writes (`torn`): there the BUG_ON is reachable. `ThrottleEnds` is about a
  timer that keeps firing, since the callback may decide to stop while a task is
  enqueued and finds the timer still active; and about a queue that has runtime:
  one throttled before the limit became 0 stays so as long as it is 0, and with
  three CPUs `__disable_runtime` may take all that a third CPU has. Both CPUs
  lend and borrow in this run, so that queues are throttled with less than
  their share.
* `rt_push`. No step leaves a queued task on a CPU that its mask does not have,
  but for one whose stopper work is on its way. With all at rest the most urgent tasks run, for tasks that keep
  their masks: a change of affinity neither pushes nor pulls.
* `rto`. A request that fails the trylock of `rto_loop_start` can be lost, as its
  holder may have picked its CPU before; `AllVisited` is about the others.
* `groups`. `Refines` says that the walk, which visits one group at a time while
  others are created and removed, is as good as one atomic check. The handler
  of the sysctls writes the new values before it validates them, so that a group
  may be admitted under a limit that is undone a moment later (`over`); and
  a task may become realtime or be attached between the walk's look for realtime
  tasks and the store of a runtime of 0 (`raced`). Both are excepted, and only
  those groups and tasks are.
* `shell`. `JobsEnd` excepts a job that `bg` resumed when one of its processes had
  ended, since `mark_job_running` writes the value for stopped over its status.
  `PromptReturns` has two exceptions. The shell and the first child keep the read
  ends of the pipes, so that a writer whose reader has ended gets no SIGPIPE: a
  wait for a pipeline of which only a part ended, or was stopped, may last for
  ever. And `bg` of a number that is no job, of which `kill` may still find a
  process group (0 is the shell's own), dereferences the NULL of `get_job`.
* `shell_lost`. `wait_job` removes the first job of the list, which after `fg`
  need not be the one it waited for; the processes of the job it drops are then
  unknown to `update_process_status`. The run `shell` leaves `fg` out.
* `xmerge`. After a short write the rest of the page is dropped: the output is
  then in order but incomplete, and the returned count is of what was written.
  `ReportsTruly` is about sums that an `int` holds; larger ones are reached, and
  wrap.

### Bounds

* `TsSched`: two tasks give every relation between a running and a waiting task
  and between two entries of a list. RT levels and nice values are two or three
  each: better, equal and worse. `TickStride` is the number of ticks that one
  tick step accounts for; slices are multiples of 4, so 2 or 4 reaches every
  expiry.
* `Ttwu`, `RtPush`, `Migration`: two CPUs are a CPU and another one, which all of
  these protocols are about; three realtime tasks are one more than the CPUs.
  A `Migration` with 3 CPUs or a third task was out of reach.
* `RtBandwidth`: two CPUs that lend to each other, of which one can be gone; with
  three, each with tasks, the state space was out of reach. `MaxOverrun`, `MaxNr` and `MaxTime` cap timer overruns, tasks and the time
  used, which beyond the runtime only has to be larger.
* `RtoLoop`: `MaxRequests` and `MaxOverloads` cap the two counters; a loop is
  restarted at most once per request.
* `TaskGroups`: two groups besides the root are siblings, or parent and child.
  The values written (`Writes`, `SysWrites`) make half of the root's bandwidth
  fit once and not twice, until a shorter period widens the root, and give a
  limit that is valid, none, and invalid. The wrap of `to_ratio` needs a runtime
  of 2^44 ns, and is in the definition but not reached.
* `ShellJobs`: three processes make a pipeline of three, or a background job and
  a pipeline. `Xmerge`: an empty file between two others, one longer than a page;
  an `int` has three bits, so that the sum of the bytes, 3 to 5 with short writes,
  is the largest one or beyond it.

### Fairness

* `TsSched`: the timer interrupt keeps coming, a CPU with `need_resched` reaches a
  preemption point, and a task that prepared to sleep calls `schedule()`. Tasks
  may run for ever. `EveryTsTaskRuns` has SCHED_TS tasks only: RT and fair tasks
  starve them, by priority and by the fast path.
* `RtBandwidth`: the timer's callback and `sched_rt_runtime_exceeded` go on once
  they have begun. A CPU that can pick a realtime task again and again does so
  (strong fairness: throttling takes the possibility away between two picks).
* `RtPush`, `RtoLoop`: a CPU goes on with what it does with interrupts off, and
  interrupts arrive. Nothing is assumed of wakeups, sleeps and overloads.
* `Migration`: stopper work, wakeups that have begun and a CPU going down go on.
  For a call the fairness is strong, because the spinlock it needs may be taken by
  others in between; the kernel's queued spinlocks are first come, first served.
* `ShellJobs`: the shell goes on, and a process ends some day once those that feed
  it have ended, while those that it feeds are running; without this a foreground
  command that runs for ever keeps the prompt away, as it should. Nothing is
  assumed of a process whose reader is gone or stopped.
* `Xmerge`: the call goes on. Its termination assumes that the output file is not
  an input as well, which would grow while it is read.

`CHECK_DEADLOCK` is off in `rto` only, where all requests may have been made.

## Refinement

`TaskGroups` implements `GroupAdmission` under `share <- to_ratio` of each
group's bandwidth (`Refines`, checked by the run `groups`). The abstract
specification has a tree and a share per group; its only change of a share,
`Admit`, is enabled when the children of every group fit afterwards. In the code
that test is a walk of many steps under `rt_constraints_mutex`, during which the
tree changes. A change is stored only if it fits at that moment because nobody
else stores without the mutex, a new group starts with a runtime of 0, and
removing a group only makes room. A change that is refused, at any visit, is a
stutter. Without the mutex around the walk the refinement fails.

## Proofs

For every finite set of tasks, every set of requests and RT levels and every
`TickStride` in {1, 2, 4} (`EnvAssumption`), TLAPS proves the invariants
`TypeOK`, `FiledOnce`, `RtAtItsPrio`, `ClassAgrees`, `SliceInRange`,
`NrRunningCounts` and `NewTaskIsClean` of `TsSched`.

The inductive invariant is `IInv` in `TsSchedProofs`:

* `Good(rq, task)` — the run queue holds exactly the queued tasks: no entry
  twice (`Apart`), the TS bank holds the queued TS tasks at *some* level, the RT
  bank each queued RT task at the level of its priority and nowhere else, the
  fair set and `nr_running` agree. `FiledOnce` and `NrRunningCounts` are its
  visible half; alone they are not inductive because a dequeue needs to know
  that the entry is in the bank of its class and only once;
* `TaskOK` of every task — class, priority, policy and PI donor fit together:
  below 100 exactly the RT class, a FIFO task's normal priority is an RT level,
  the slice is a positive multiple of the stride, an unwoken task has no donor.
  It is needed because the priority computed by a boost, the end of a boost or a
  policy change must again be one the class can file under, and because an
  in-place requeue (`~move_entity`) is safe only when neither class nor priority
  of an RT task changes (`StaysPut`);
* the running task is queued or idle.

`KListProofs` shows what the list operations keep and change; `TsQueueProofs`
that `enqueue_task` and `dequeue_task` preserve `Good` for every class;
`TsSchedProofs` lifts that to moves, requeues and picks and proves
`Init => IInv`; `TsStepProofs` and `TsInvProofs` have one lemma per action, and
the latter the theorems. `ClassAgrees` is half an invariant, which is part of
`TaskOK`, and half an action property, `ClassKept`: `TsClassProofs` shows action
by action that a step leaves class and policy of every task alone or derives the
class from the policy (`ClassOf`), `rt_mutex_setprio` excepted.

Only model-checked: every liveness property (temporal reasoning under fairness is
beyond the proof system), `RtUrgent` and `ResetIsHonoured`, the refinement, and
all of the properties of the modules other than `TsSched`.

## Not modelled

* Clocks, load weights, PELT, statistics, tracing and cgroup accounting: no
  property depends on them. Load balancing of the fair class, whose code is not
  in this repository.
* SCHED_DEADLINE; SCHED_RR slices; permission checks and copies from user space.
  `sched_setparam`, which keeps the policy and so repeats its tests when the
  policy changes meanwhile (core.c:4330).
* In `Ttwu`: `try_to_wake_up_local` (workqueue workers), weak memory orders.
  In `Migration`: the counting of frozen CPUs during suspend, `wait_task_inactive`,
  the placement of new tasks. `CallsReturn` leaves the swap out: its two
  `pi_lock`s are one step here, taken in order in the code.
* In `RtPush`: equal priorities (`check_preempt_equal_prio`) and changes of
  priority. In `RtBandwidth`: a change of the period, throttling of groups.
* In `TaskGroups`: CFS quotas and shares, which fair.c enforces; autogroups;
  calls of `sched_setscheduler` from the kernel, which skip the group's test.
* In `ShellJobs`: parsing, redirection, `cd`, a failing fork; of the pipes there is
  only what they do to the end of a process.
* A SCHED_TS task that wakes is filed under the level it had before, since the
  index is computed before `p->prio` changes (ts.c:77); the model does the same,
  and no property says more of it than that the task is filed once.
* Tick stopping and remote ticks: driven by the tick code outside this repository.
* scull and the other kernel modules of the labs: scull is a sequential teaching
  example without locking, the others have no state that outlives a call. The
  signal and process examples: a handful of system calls each. HW1: formatting of
  `/proc` files. Test programs.

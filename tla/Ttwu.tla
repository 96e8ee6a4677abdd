-------------------------------- MODULE Ttwu --------------------------------
(***************************************************************************)
(* Sleeping and waking on several CPUs (kernel/sched/core.c):              *)
(* try_to_wake_up reads state, on_rq and on_cpu of a task that another CPU *)
(* is running, putting to sleep or switching away from, and hands it to a  *)
(* CPU through its run queue or its wake list; an idle CPU that polls      *)
(* TIF_NEED_RESCHED is told without an interrupt; a wake_q collects tasks  *)
(* to wake later.                                                          *)
(*                                                                         *)
(* A step ends where another CPU can see a difference.  Memory is          *)
(* sequentially consistent: the barriers the code's comments pair are      *)
(* assumed to work.  What a CPU does with interrupts off is its act, and   *)
(* while its pc is not in Interruptible nothing else happens on it.        *)
(***************************************************************************)
EXTENDS Naturals, FiniteSets

CONSTANTS N,         \* CPUs are 1..N
          Tasks,     \* the tasks, not the idle ones
          Idle,      \* the idle task of each CPU
          Llc,       \* sd_llc_id of each CPU
          Woken,     \* tasks whose condition comes with wake_up_process
          Collected, \* tasks whose condition comes with wake_q_add
          Signalled, \* tasks that sleep TASK_INTERRUPTIBLE and get signals
          Mortal     \* tasks that may exit

Cpus == 1..N

ASSUME TtwuAssumption ==
  /\ N \in Nat \ {0} /\ Idle \notin Tasks /\ Llc \in [Cpus -> Nat]
  /\ UNION {Woken, Collected, Signalled, Mortal} \subseteq Tasks

VARIABLES state, on_rq, on_cpu, cpu,  \* of each task
          pi_lock,      \* the CPU that holds p->pi_lock, 0 if none
          refs,         \* the reference of a task as current
          event,        \* what has happened: its condition, a signal, or nothing
          wait,         \* where the task is in its wait loop
          wake_q,       \* the task whose wake_q holds the task, Idle if none
          queue, curr,  \* of each run queue
          lock,         \* the CPU that holds rq->lock, 0 if none
          need_resched, \* TIF_NEED_RESCHED of rq->curr
          polling,      \* TIF_POLLING_NRFLAG of the idle task
          wake_list,    \* rq->wake_list
          ipi,          \* a reschedule interrupt is on its way
          act           \* what the CPU is doing

task == <<state, on_rq, on_cpu, cpu, pi_lock, refs, event, wait, wake_q>>
rq == <<queue, curr, lock, need_resched, polling, wake_list, ipi>>
vars == <<task, rq, act>>

Running == [pc |-> "run", ret |-> "run", task |-> Idle, st |-> "RUNNING", batch |-> {}]

Init ==
  /\ state = [t \in Tasks |-> "RUNNING"]
  /\ on_rq = [t \in Tasks |-> TRUE] /\ on_cpu = [t \in Tasks |-> FALSE]
  /\ cpu = [t \in Tasks |-> 1]
  /\ pi_lock = [t \in Tasks |-> 0] /\ refs = [t \in Tasks |-> 1]
  /\ event = [t \in Tasks |-> "none"]
  /\ wait = [t \in Tasks |-> "work"] /\ wake_q = [t \in Tasks |-> Idle]
  /\ queue = [c \in Cpus |-> IF c = 1 THEN Tasks ELSE {}]
  /\ curr = [c \in Cpus |-> Idle] /\ lock = [c \in Cpus |-> 0]
  /\ need_resched = [c \in Cpus |-> c = 1] /\ polling = [c \in Cpus |-> FALSE]
  /\ wake_list = [c \in Cpus |-> {}] /\ ipi = [c \in Cpus |-> FALSE]
  /\ act = [c \in Cpus |-> Running]

Goto(c, pc) == act' = [act EXCEPT ![c].pc = pc]

\* Interrupts are on; an interrupt returns here, or ends the halt.
Interruptible(c) == act[c].pc \in {"run", "halt", "exit"}

Return(c) == IF act[c].pc = "halt" THEN "run" ELSE act[c].pc

-----------------------------------------------------------------------------
(* The running task.                                                       *)

Runs(c, t) == curr[c] = t /\ t \in Tasks /\ act[c].pc = "run"

\* A task wakes those it has collected before it goes on.
WakeQEmpty(t) == \A u \in Tasks : wake_q[u] # t

\* set_current_state, and the test of the condition after it.
set_current_state(c, t) ==
  /\ Runs(c, t) /\ wait[t] = "work" /\ WakeQEmpty(t)
  /\ state' = [state EXCEPT ![t] = "SLEEP"]
  /\ wait' = [wait EXCEPT ![t] = "check"]
  /\ UNCHANGED <<on_rq, on_cpu, cpu, pi_lock, refs, event, wake_q, rq, act>>

\* if (!need_sleep) break, with __set_current_state(TASK_RUNNING) after the
\* loop, else on to schedule().
need_sleep(c, t) ==
  /\ Runs(c, t) /\ wait[t] = "check"
  /\ IF event[t] # "none"
     THEN /\ state' = [state EXCEPT ![t] = "RUNNING"]
          /\ event' = [event EXCEPT ![t] = "none"]
          /\ wait' = [wait EXCEPT ![t] = "work"]
     ELSE /\ wait' = [wait EXCEPT ![t] = "sched"]
          /\ UNCHANGED <<state, event>>
  /\ UNCHANGED <<on_rq, on_cpu, cpu, pi_lock, refs, wake_q, rq, act>>

\* Mutant: pi_lock is not taken.
set_special_state_Unlocked(c, t) ==
  /\ Runs(c, t) /\ wait[t] = "work" /\ WakeQEmpty(t)
  /\ state' = [state EXCEPT ![t] = "DEAD"]
  /\ wait' = [wait EXCEPT ![t] = "sched"]
  /\ UNCHANGED <<on_rq, on_cpu, cpu, pi_lock, refs, event, wake_q, rq, act>>

\* set_special_state(TASK_DEAD) of do_task_dead, under pi_lock.
set_special_state(c, t) ==
  /\ Runs(c, t) /\ wait[t] = "work" /\ WakeQEmpty(t) /\ pi_lock[t] = 0
  /\ state' = [state EXCEPT ![t] = "DEAD"]
  /\ wait' = [wait EXCEPT ![t] = "sched"]
  /\ UNCHANGED <<on_rq, on_cpu, cpu, pi_lock, refs, event, wake_q, rq, act>>

-----------------------------------------------------------------------------
(* __schedule.                                                             *)

\* Mutant: a preempted task is put to sleep.
Sleeps_Preempted(t, preempt) ==
  t \in Tasks /\ state[t] # "RUNNING" /\ ~ (state[t] = "SLEEP" /\ event[t] = "signal")

\* Is the current task put to sleep: not if it is preempted, and not if a
\* signal is pending.
Sleeps(t, preempt) ==
  t \in Tasks /\ ~ preempt /\ state[t] # "RUNNING" /\ ~ (state[t] = "SLEEP" /\ event[t] = "signal")

\* __schedule up to pick_next_task, called by the task, on preemption (which
\* do_exit has disabled), or by the idle loop.
__schedule(c, preempt) ==
  LET t == curr[c]
  IN  /\ IF t = Idle THEN ~ preempt /\ act[c].pc = "sched"
         ELSE /\ act[c].pc = "run"
              /\ IF preempt THEN need_resched[c] /\ state[t] # "DEAD" ELSE wait[t] = "sched"
      /\ lock[c] = 0
      /\ lock' = [lock EXCEPT ![c] = c]
      /\ Goto(c, "pick")
      /\ IF Sleeps(t, preempt)
         THEN /\ on_rq' = [on_rq EXCEPT ![t] = FALSE]
              /\ queue' = [queue EXCEPT ![c] = @ \ {t}]
              /\ UNCHANGED state
         ELSE /\ state' = IF t \in Tasks /\ ~ preempt THEN [state EXCEPT ![t] = "RUNNING"]
                          ELSE state
              /\ UNCHANGED <<on_rq, queue>>
      /\ wait' = IF t \in Tasks /\ ~ preempt THEN [wait EXCEPT ![t] = "work"] ELSE wait
      /\ UNCHANGED <<on_cpu, cpu, pi_lock, refs, event, wake_q, curr, need_resched,
                     polling, wake_list, ipi>>

\* pick_next_task (any queued task, the idle one if there is none), and the
\* beginning of the switch: rq->curr, prepare_task.
Pick(c) ==
  /\ act[c].pc = "pick"
  /\ \E next \in IF queue[c] = {} THEN {Idle} ELSE queue[c] :
       IF next = curr[c]
       THEN /\ act' = [act EXCEPT ![c] = Running]
            /\ lock' = [lock EXCEPT ![c] = 0]
            /\ UNCHANGED <<curr, on_cpu>>
       ELSE /\ curr' = [curr EXCEPT ![c] = next]
            /\ on_cpu' = [t \in Tasks |-> on_cpu[t] \/ t = next]
            /\ act' = [act EXCEPT ![c].pc = "switch", ![c].task = curr[c]]
            /\ UNCHANGED lock
  /\ need_resched' = [need_resched EXCEPT ![c] = FALSE]
  /\ UNCHANGED <<state, on_rq, cpu, pi_lock, refs, event, wait, wake_q, queue,
                 polling, wake_list, ipi>>

\* finish_task_switch: prev->state is read, then prev->on_cpu cleared.
finish_task(c) ==
  LET prev == act[c].task
  IN  /\ act[c].pc = "switch"
      /\ act' = [act EXCEPT ![c].pc = "finish",
                   ![c].st = IF prev \in Tasks THEN state[prev] ELSE "RUNNING"]
      /\ on_cpu' = [t \in Tasks |-> on_cpu[t] /\ t # prev]
      /\ UNCHANGED <<state, on_rq, cpu, pi_lock, refs, event, wait, wake_q, rq>>

\* Mutant: prev->state is read after on_cpu has been cleared.
finish_lock_switch_ReadsLate(c) ==
  /\ act[c].pc = "finish"
  /\ lock' = [lock EXCEPT ![c] = 0]
  /\ refs' = [t \in Tasks |-> IF t = act[c].task /\ state[t] = "DEAD" THEN refs[t] - 1
                              ELSE refs[t]]
  /\ act' = [act EXCEPT ![c] = Running]
  /\ UNCHANGED <<state, on_rq, on_cpu, cpu, pi_lock, event, wait, wake_q, queue, curr,
                 need_resched, polling, wake_list, ipi>>

\* The rest of finish_task_switch: the lock is released, and the reference
\* of a dead task dropped.
finish_lock_switch(c) ==
  /\ act[c].pc = "finish"
  /\ lock' = [lock EXCEPT ![c] = 0]
  /\ refs' = [t \in Tasks |-> IF t = act[c].task /\ act[c].st = "DEAD" THEN refs[t] - 1
                              ELSE refs[t]]
  /\ act' = [act EXCEPT ![c] = Running]
  /\ UNCHANGED <<state, on_rq, on_cpu, cpu, pi_lock, event, wait, wake_q, queue, curr,
                 need_resched, polling, wake_list, ipi>>

-----------------------------------------------------------------------------
(* The idle loop (kernel/sched/idle.c).                                    *)

IdleHere(c) == curr[c] = Idle /\ act[c].pc = "run"

\* __current_set_polling.
IdlePoll(c) ==
  /\ IdleHere(c) /\ ~ polling[c]
  /\ polling' = [polling EXCEPT ![c] = TRUE]
  /\ UNCHANGED <<task, queue, curr, lock, need_resched, wake_list, ipi, act>>

\* current_clr_polling_and_test: halts unless it is to reschedule.
IdleHalt(c) ==
  /\ IdleHere(c) /\ polling[c]
  /\ polling' = [polling EXCEPT ![c] = FALSE]
  /\ Goto(c, IF need_resched[c] THEN "run" ELSE "halt")
  /\ UNCHANGED <<task, queue, curr, lock, need_resched, wake_list, ipi>>

\* The loop ends: polling is cleared, sched_ttwu_pending and schedule follow.
IdleExit(c) ==
  /\ IdleHere(c) /\ need_resched[c]
  /\ polling' = [polling EXCEPT ![c] = FALSE]
  /\ Goto(c, "exit")
  /\ UNCHANGED <<task, queue, curr, lock, need_resched, wake_list, ipi>>

-----------------------------------------------------------------------------
(* Telling a CPU.                                                          *)

\* Mutant: the interrupt is saved if the CPU idles.
resched_curr_Idle(x, d, r) ==
  /\ need_resched' = [need_resched EXCEPT ![d] = @ \/ r]
  /\ ipi' = [ipi EXCEPT ![d] = @ \/ (r /\ d # x /\ ~ need_resched[d] /\ curr[d] # Idle)]

\* resched_curr(cpu_rq(d)), called on CPU x if r: the interrupt is saved if
\* the flag is set already or the CPU polls it.
resched_curr(x, d, r) ==
  /\ need_resched' = [need_resched EXCEPT ![d] = @ \/ r]
  /\ ipi' = [ipi EXCEPT ![d] = @ \/ (r /\ d # x /\ ~ need_resched[d] /\ ~ polling[d])]

\* The answers check_preempt_curr may give: an idle CPU always reschedules.
check_preempt_curr(d) == IF curr[d] = Idle THEN {TRUE} ELSE BOOLEAN

\* llist_del_all of sched_ttwu_pending, in the reschedule interrupt or in the
\* idle loop.
Take(c, ret) ==
  /\ wake_list' = [wake_list EXCEPT ![c] = {}]
  /\ act' = [act EXCEPT ![c] =
       IF wake_list[c] = {} THEN [Running EXCEPT !.pc = ret]
       ELSE [Running EXCEPT !.pc = "pending", !.ret = ret, !.batch = wake_list[c]]]

scheduler_ipi(c) ==
  /\ ipi[c] /\ Interruptible(c)
  /\ ipi' = [ipi EXCEPT ![c] = FALSE]
  /\ Take(c, Return(c))
  /\ UNCHANGED <<task, queue, curr, lock, need_resched, polling>>

IdlePending(c) ==
  /\ act[c].pc = "exit"
  /\ Take(c, "sched")
  /\ UNCHANGED <<task, queue, curr, lock, need_resched, polling, ipi>>

\* The rest of sched_ttwu_pending, under the lock.
sched_ttwu_pending(c) ==
  LET batch == act[c].batch
  IN  /\ act[c].pc = "pending" /\ lock[c] = 0
      /\ queue' = [queue EXCEPT ![c] = @ \cup batch]
      /\ on_rq' = [t \in Tasks |-> on_rq[t] \/ t \in batch]
      /\ state' = [t \in Tasks |-> IF t \in batch THEN "RUNNING" ELSE state[t]]
      /\ \E r \in check_preempt_curr(c) : resched_curr(c, c, r)
      /\ act' = [act EXCEPT ![c] = [Running EXCEPT !.pc = act[c].ret]]
      /\ UNCHANGED <<on_cpu, cpu, pi_lock, refs, event, wait, wake_q, curr, lock,
                     polling, wake_list>>

-----------------------------------------------------------------------------
(* try_to_wake_up on CPU x.                                                *)

Calls(x, t) == act' = [act EXCEPT ![x] =
  [Running EXCEPT !.pc = "ttwu", !.ret = Return(x), !.task = t]]

Done(x) ==
  /\ pi_lock' = [pi_lock EXCEPT ![act[x].task] = 0]
  /\ act' = [act EXCEPT ![x] = [Running EXCEPT !.pc = act[x].ret]]

\* The caller: what the task waits for is made true, then it is woken.
wake_up_process(x, t) ==
  /\ act[x].pc \in {"run", "halt"} /\ t \in Woken /\ event[t] = "none" /\ refs[t] > 0
  /\ event' = [event EXCEPT ![t] = "condition"]
  /\ Calls(x, t)
  /\ UNCHANGED <<state, on_rq, on_cpu, cpu, pi_lock, refs, wait, wake_q, rq>>

signal_wake_up(x, t) ==
  /\ act[x].pc \in {"run", "halt"} /\ t \in Signalled /\ event[t] = "none" /\ refs[t] > 0
  /\ event' = [event EXCEPT ![t] = "signal"]
  /\ Calls(x, t)
  /\ UNCHANGED <<state, on_rq, on_cpu, cpu, pi_lock, refs, wait, wake_q, rq>>

\* The condition is made true and the task put on the wake_q of task u, which
\* runs here, unless it is on one.
wake_q_add(x, u, t) ==
  /\ Runs(x, u) /\ wait[u] = "work" /\ t \in Collected /\ event[t] = "none" /\ refs[t] > 0
  /\ event' = [event EXCEPT ![t] = "condition"]
  /\ wake_q' = [wake_q EXCEPT ![t] = IF @ = Idle THEN u ELSE @]
  /\ UNCHANGED <<state, on_rq, on_cpu, cpu, pi_lock, refs, wait, rq, act>>

wake_up_q(x, u, t) ==
  /\ Runs(x, u) /\ wake_q[t] = u
  /\ wake_q' = [wake_q EXCEPT ![t] = Idle]
  /\ Calls(x, t)
  /\ UNCHANGED <<state, on_rq, on_cpu, cpu, pi_lock, refs, event, wait, rq>>

\* pi_lock is taken and p->state read.
try_to_wake_up(x) ==
  LET t == act[x].task
  IN  /\ act[x].pc = "ttwu" /\ pi_lock[t] = 0
      /\ IF state[t] = "SLEEP"
         THEN Goto(x, "on_rq") /\ pi_lock' = [pi_lock EXCEPT ![t] = x]
         ELSE Done(x)
      /\ UNCHANGED <<state, on_rq, on_cpu, cpu, refs, event, wait, wake_q, rq>>

\* p->on_rq is read.
TestOnRq(x) ==
  /\ act[x].pc = "on_rq"
  /\ Goto(x, IF on_rq[act[x].task] THEN "remote" ELSE "on_cpu")
  /\ UNCHANGED <<task, rq>>

\* Mutant: on_rq is not read again under the lock.
ttwu_remote_Once(x) ==
  LET t == act[x].task
      d == cpu[t]
  IN  /\ act[x].pc = "remote" /\ lock[d] = 0
      /\ \E r \in check_preempt_curr(d) : resched_curr(x, d, r)
      /\ state' = [state EXCEPT ![t] = "RUNNING"]
      /\ Done(x)
      /\ UNCHANGED <<on_rq, on_cpu, cpu, refs, event, wait, wake_q, queue, curr, lock,
                     polling, wake_list>>

\* Under the lock of the task's run queue: still queued, it has only to be
\* marked as running.
ttwu_remote(x) ==
  LET t == act[x].task
      d == cpu[t]
  IN  /\ act[x].pc = "remote" /\ lock[d] = 0
      /\ IF on_rq[t]
         THEN /\ \E r \in check_preempt_curr(d) : resched_curr(x, d, r)
              /\ state' = [state EXCEPT ![t] = "RUNNING"]
              /\ Done(x)
         ELSE /\ Goto(x, "on_cpu")
              /\ UNCHANGED <<state, pi_lock, need_resched, ipi>>
      /\ UNCHANGED <<on_rq, on_cpu, cpu, refs, event, wait, wake_q, queue, curr, lock,
                     polling, wake_list>>

\* Mutant: does not wait for the CPU that switches away from the task.
WaitOnCpu_Skipped(x) ==
  LET t == act[x].task
  IN  /\ act[x].pc = "on_cpu"
      /\ state' = [state EXCEPT ![t] = "WAKING"]
      /\ \E d \in Cpus : cpu' = [cpu EXCEPT ![t] = d]
      /\ Goto(x, "queue")
      /\ UNCHANGED <<on_rq, on_cpu, pi_lock, refs, event, wait, wake_q, rq>>

\* smp_cond_load_acquire(&p->on_cpu, !VAL), then TASK_WAKING and the choice of
\* a CPU.
WaitOnCpu(x) ==
  LET t == act[x].task
  IN  /\ act[x].pc = "on_cpu" /\ ~ on_cpu[t]
      /\ state' = [state EXCEPT ![t] = "WAKING"]
      /\ \E d \in Cpus : cpu' = [cpu EXCEPT ![t] = d]
      /\ Goto(x, "queue")
      /\ UNCHANGED <<on_rq, on_cpu, pi_lock, refs, event, wait, wake_q, rq>>

\* ttwu_queue to a CPU that shares the cache, or to any if TTWU_QUEUE, which
\* can be changed at any time, is off: ttwu_do_activate under its lock.
ttwu_do_activate(x) ==
  LET t == act[x].task
      d == cpu[t]
  IN  /\ act[x].pc = "queue" /\ lock[d] = 0
      /\ queue' = [queue EXCEPT ![d] = @ \cup {t}]
      /\ on_rq' = [on_rq EXCEPT ![t] = TRUE]
      /\ state' = [state EXCEPT ![t] = "RUNNING"]
      /\ \E r \in check_preempt_curr(d) : resched_curr(x, d, r)
      /\ Done(x)
      /\ UNCHANGED <<on_cpu, cpu, refs, event, wait, wake_q, curr, lock, polling, wake_list>>

\* ttwu_queue to another: llist_add, and whoever finds the list empty tells
\* the CPU.
ttwu_queue_remote(x) ==
  LET t == act[x].task
      d == cpu[t]
  IN  /\ act[x].pc = "queue" /\ Llc[d] # Llc[x]
      /\ wake_list' = [wake_list EXCEPT ![d] = @ \cup {t}]
      /\ IF wake_list[d] = {} THEN Goto(x, "kick") /\ UNCHANGED pi_lock ELSE Done(x)
      /\ UNCHANGED <<state, on_rq, on_cpu, cpu, refs, event, wait, wake_q, queue, curr,
                     lock, need_resched, polling, ipi>>

\* The idle task is told to reschedule if it polls, else an interrupt sent.
set_nr_if_polling(x) ==
  LET d == cpu[act[x].task]
  IN  /\ act[x].pc = "kick"
      /\ need_resched' = [need_resched EXCEPT ![d] = @ \/ polling[d]]
      /\ ipi' = [ipi EXCEPT ![d] = @ \/ ~ polling[d]]
      /\ Done(x)
      /\ UNCHANGED <<state, on_rq, on_cpu, cpu, refs, event, wait, wake_q, queue, curr,
                     lock, polling, wake_list>>

-----------------------------------------------------------------------------
\* What a task does of its own will, and what interrupts bring.
Will(c) ==
  \E t \in Tasks :
    \/ set_current_state(c, t)
    \/ t \in Mortal /\ set_special_state(c, t)
    \/ wake_up_process(c, t)
    \/ signal_wake_up(c, t)
    \/ \E u \in Tasks : wake_q_add(c, u, t) \/ wake_up_q(c, u, t)

\* What a CPU has to do.
Wakes(c) ==
  \/ try_to_wake_up(c) \/ TestOnRq(c) \/ ttwu_remote(c) \/ WaitOnCpu(c)
  \/ ttwu_do_activate(c) \/ ttwu_queue_remote(c) \/ set_nr_if_polling(c)

Switches(c) == Pick(c) \/ finish_task(c) \/ finish_lock_switch(c)

Idles(c) == IdlePoll(c) \/ IdleHalt(c)

Next ==
  \E c \in Cpus :
    \/ Will(c) \/ Wakes(c) \/ Switches(c) \/ Idles(c)
    \/ \E t \in Tasks : need_sleep(c, t)
    \/ \E preempt \in BOOLEAN : __schedule(c, preempt)
    \/ IdleExit(c) \/ IdlePending(c) \/ scheduler_ipi(c) \/ sched_ttwu_pending(c)

Spec == Init /\ [][Next]_vars

-----------------------------------------------------------------------------
(* Properties.                                                             *)

TypeOK ==
  /\ state \in [Tasks -> {"RUNNING", "SLEEP", "WAKING", "DEAD"}]
  /\ on_rq \in [Tasks -> BOOLEAN] /\ on_cpu \in [Tasks -> BOOLEAN]
  /\ cpu \in [Tasks -> Cpus] /\ pi_lock \in [Tasks -> 0..N]
  /\ event \in [Tasks -> {"none", "condition", "signal"}]
  /\ wait \in [Tasks -> {"work", "check", "sched"}] /\ wake_q \in [Tasks -> Tasks \cup {Idle}]
  /\ queue \in [Cpus -> SUBSET Tasks] /\ curr \in [Cpus -> Tasks \cup {Idle}]
  /\ lock \in [Cpus -> 0..N] /\ need_resched \in [Cpus -> BOOLEAN]
  /\ polling \in [Cpus -> BOOLEAN] /\ wake_list \in [Cpus -> SUBSET Tasks]
  /\ ipi \in [Cpus -> BOOLEAN]
  /\ act \in [Cpus -> [pc : {"run", "halt", "exit", "sched", "pick", "switch", "finish",
                             "pending", "ttwu", "on_rq", "remote", "on_cpu", "queue", "kick"},
                       ret : {"run", "exit", "sched"}, task : Tasks \cup {Idle},
                       st : {"RUNNING", "SLEEP", "WAKING", "DEAD"}, batch : SUBSET Tasks]]

\* The tasks whose stack a CPU is on: the current one, and the one it has not
\* yet switched away from.
Stacks(c) == ({curr[c]} \cup IF act[c].pc = "switch" THEN {act[c].task} ELSE {}) \ {Idle}

\* No task runs on two CPUs, even while one of them is still switching away
\* from it ("This ensures that tasks getting woken will be fully ordered
\* against their previous state", core.c:2024).
OneCpu == \A c, d \in Cpus : c # d => Stacks(c) \cap Stacks(d) = {}

\* Where a task is: on the run queue of its CPU exactly if on_rq says so, on
\* one wake list or in one batch at most, and then it is TASK_WAKING and
\* nowhere else; the current task is queued, or just going to sleep; and a
\* task in TASK_RUNNING is queued (ttwu_remote, ttwu_do_activate,
\* sched_ttwu_pending).
InOnePlace ==
  /\ \A t \in Tasks : state[t] = "RUNNING" => on_rq[t]
  /\ \A c \in Cpus : queue[c] = {t \in Tasks : on_rq[t] /\ cpu[t] = c}
  /\ \A c \in Cpus : wake_list[c] \cup act[c].batch \subseteq
       {t \in Tasks : ~ on_rq[t] /\ cpu[t] = c /\ state[t] = "WAKING"}
  /\ \A c \in Cpus : wake_list[c] \cap act[c].batch = {}
  /\ \A c \in Cpus : curr[c] \in queue[c] \cup {Idle} \/ act[c].pc = "pick"

\* The reference that a task has as current is dropped once, when it is dead
\* and off its CPU (finish_task_switch: "We must observe prev->state before
\* clearing prev->on_cpu ... resulting in a double drop", core.c:2675).
DroppedOnce ==
  \A t \in Tasks : /\ refs[t] \in {0, 1}
                   /\ refs[t] = 0 => state[t] = "DEAD" /\ ~ on_rq[t] /\ ~ on_cpu[t]

\* A dead task is never revived by a wakeup that has begun before: "we must
\* serialize against wakeups such that any possible in-flight TASK_RUNNING
\* stores will not collide with our state change" (include/linux/sched.h:192).
DeadStaysDead == [][\A t \in Tasks : state[t] = "DEAD" => state'[t] = "DEAD"]_vars

\* Who is going to wake task t.
Waking(t) ==
  \/ wake_q[t] # Idle
  \/ \E x \in Cpus : act[x].task = t /\ act[x].pc \in {"ttwu", "on_rq", "remote", "on_cpu"}

\* No wakeup is lost.  While a task is off its run queue although what it
\* waits for has happened, some CPU is waking it, whichever of the store to
\* p->state, the test, the wakeup and wake_q_add came first (set_current_state,
\* try_to_wake_up, and wake_q_add, which leaves a task that is on a wake_q to
\* whoever put it there).  A task in TASK_WAKING is in somebody's hands, and a
\* CPU whose wake list is not empty has been told or is being told: by an
\* interrupt, or by the flag that its idle loop polls (ttwu_queue_remote: only
\* who finds the list empty tells the CPU; set_nr_if_polling: "the idle task
\* promises to call sched_ttwu_pending() and reschedule soon", core.c:363).
NoLostWakeup ==
  /\ \A t \in Tasks : state[t] = "SLEEP" /\ ~ on_rq[t] /\ event[t] # "none" => Waking(t)
  /\ \A t \in Tasks : state[t] = "WAKING" =>
       \/ \E c \in Cpus : t \in wake_list[c] \cup act[c].batch
       \/ \E x \in Cpus : act[x].task = t /\ act[x].pc = "queue"
  /\ \A c \in Cpus : wake_list[c] # {} =>
       \/ ipi[c] \/ act[c].pc = "exit" \/ (curr[c] = Idle /\ need_resched[c] /\ act[c].pc # "halt")
       \/ \E x \in Cpus : act[x].pc = "kick" /\ cpu[act[x].task] = c

\* No CPU idles while tasks are queued on it: it is leaving the idle loop, or
\* is to be interrupted, however its idle loop, halted or polling, and the
\* wakeups interleave (resched_curr saves the interrupt of a polling CPU).
NoIdleWhileQueued ==
  \A c \in Cpus : curr[c] = Idle /\ queue[c] # {} =>
    act[c].pc = "pick" \/ (need_resched[c] /\ (act[c].pc = "halt" => ipi[c]))

=============================================================================

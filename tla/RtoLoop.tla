------------------------------ MODULE RtoLoop ------------------------------
(***************************************************************************)
(* The interrupt that asks overloaded CPUs to push realtime tasks          *)
(* (kernel/sched/rt.c, RT_PUSH_IPI).  A CPU whose priority falls calls     *)
(* tell_cpu_to_push; one irq_work visits the CPUs of rto_mask in turn, and *)
(* scans again if rto_loop_next has moved.  Steps end where another CPU    *)
(* can see a difference: at each atomic operation and critical section.    *)
(***************************************************************************)
EXTENDS Integers, FiniteSets

CONSTANTS N,            \* CPUs are 1..N
          Pullers,      \* the CPUs whose priority falls
          MaxRequests,  \* bound: calls of tell_cpu_to_push
          MaxOverloads  \* bound: times a CPU becomes overloaded

Cpus == 1..N

ASSUME RtoAssumption ==
  /\ N \in Nat \ {0} /\ Pullers \subseteq Cpus
  /\ MaxRequests \in Nat /\ MaxOverloads \in Nat

VARIABLES rto_mask,       \* the overloaded CPUs
          rto_cpu,        \* the CPU the loop is at, -1 if it is not running
          rto_loop, rto_loop_next,
          rto_loop_start, \* the trylock of tell_cpu_to_push
          pc,             \* where each puller is
          cpu,            \* its local variable: the CPU to send to, -1 if none
          pending,        \* the CPU the irq_work is queued on, -1 if none
          fn,             \* where a CPU is in rto_push_irq_work_func
          next,           \* its local variable cpu
          refs,           \* references of the loop on the root domain
          overloads,      \* times a CPU became overloaded
          owed            \* CPUs overloaded at a puller's request and not visited since

puller == <<rto_loop_next, rto_loop_start, pc, cpu>>
worker == <<pending, fn, next>>
loop == <<rto_cpu, rto_loop>>
vars == <<rto_mask, loop, puller, worker, refs, overloads, owed>>

Init ==
  /\ rto_mask = {} /\ rto_cpu = -1 /\ rto_loop = 0 /\ rto_loop_next = 0
  /\ rto_loop_start = FALSE
  /\ pc = [p \in Pullers |-> "idle"]
  /\ cpu = [p \in Pullers |-> -1]
  /\ pending = -1
  /\ fn = [c \in Cpus |-> "none"] /\ next = [c \in Cpus |-> -1]
  /\ refs = 0 /\ overloads = 0 /\ owed = [p \in Pullers |-> {}]

\* rt_set_overload and rt_clear_overload, under the run queue's lock, which
\* the CPU itself holds while it is in tell_cpu_to_push.
RqUnlocked(c) == c \in Pullers => pc[c] = "idle"

rt_set_overload(c) ==
  /\ c \notin rto_mask /\ RqUnlocked(c) /\ overloads < MaxOverloads
  /\ rto_mask' = rto_mask \cup {c}
  /\ overloads' = overloads + 1
  /\ UNCHANGED <<loop, puller, worker, refs, owed>>

rt_clear_overload(c) ==
  /\ c \in rto_mask /\ RqUnlocked(c)
  /\ rto_mask' = rto_mask \ {c}
  /\ owed' = [p \in Pullers |-> owed[p] \ {c}]
  /\ UNCHANGED <<loop, puller, worker, refs, overloads>>

-----------------------------------------------------------------------------
(* rto_next_cpu, under rto_lock.                                           *)

\* cpumask_next: the next CPU of the mask after c, -1 if there is none.
NextIn(c) ==
  LET After == {d \in rto_mask : d > c}
  IN  IF After = {} THEN -1 ELSE CHOOSE d \in After : \A e \in After : d <= e

\* Mutant: the request counter is not looked at when a scan ends.
rto_next_cpu_OneScan(at) ==
  [at |-> "done", cpu |-> NextIn(rto_cpu), loop |-> rto_loop_next]

\* Mutant: a new scan is not remembered.
rto_next_cpu_Forgets(at) ==
  IF at = "scan"
  THEN [at |-> IF NextIn(rto_cpu) = -1 THEN "look" ELSE "done",
        cpu |-> NextIn(rto_cpu), loop |-> rto_loop]
  ELSE [at |-> IF rto_loop = rto_loop_next THEN "done" ELSE "scan", cpu |-> -1, loop |-> rto_loop]

\* One step of its loop: where it is then, rto_cpu and rto_loop.  A scan of the
\* mask that finds no CPU is followed by a look at rto_loop_next, and starts
\* over if that has moved; both change without rto_lock.
rto_next_cpu(at) ==
  IF at = "scan"
  THEN [at |-> IF NextIn(rto_cpu) = -1 THEN "look" ELSE "done",
        cpu |-> NextIn(rto_cpu), loop |-> rto_loop]
  ELSE [at |-> IF rto_loop = rto_loop_next THEN "done" ELSE "scan",
        cpu |-> -1, loop |-> rto_loop_next]

\* Somebody is in the middle of it.
RtoLocked ==
  \/ \E p \in Pullers : pc[p] \in {"scan", "look"}
  \/ \E c \in Cpus : fn[c] \in {"scan", "look"}

-----------------------------------------------------------------------------
(* tell_cpu_to_push, on CPU p.                                             *)

\* pull_rt_task has found another CPU overloaded: atomic_inc of
\* rto_loop_next.
Request(p) ==
  /\ pc[p] = "idle" /\ rto_loop_next < MaxRequests
  /\ rto_mask \notin {{}, {p}}
  /\ rto_loop_next' = rto_loop_next + 1
  /\ owed' = [owed EXCEPT ![p] = rto_mask]
  /\ pc' = [pc EXCEPT ![p] = "trylock"]
  /\ UNCHANGED <<rto_mask, loop, rto_loop_start, cpu, worker, refs, overloads>>

\* The request of a puller that fails is left to the holder: nothing is owed
\* to it any more.
rto_start_trylock(p) ==
  /\ pc[p] = "trylock"
  /\ owed' = IF rto_loop_start THEN [owed EXCEPT ![p] = {}] ELSE owed
  /\ pc' = [pc EXCEPT ![p] = IF rto_loop_start THEN "idle" ELSE "start"]
  /\ rto_loop_start' = TRUE
  /\ UNCHANGED <<rto_mask, loop, rto_loop_next, cpu, worker, refs, overloads>>

Iterate(p, at) ==
  LET r == rto_next_cpu(at)
  IN  /\ rto_cpu' = r.cpu /\ rto_loop' = r.loop
      /\ cpu' = [cpu EXCEPT ![p] = r.cpu]
      /\ pc' = [pc EXCEPT ![p] = IF r.at = "done" THEN "unlock" ELSE r.at]

\* Mutant: a loop that is running is started again.
Start_Always(p) ==
  /\ pc[p] = "start" /\ ~RtoLocked
  /\ Iterate(p, "scan")
  /\ UNCHANGED <<rto_mask, rto_loop_next, rto_loop_start, worker, refs, overloads, owed>>

\* The critical section of rto_lock: only a loop that is not running is
\* started.
Start(p) ==
  /\ pc[p] = "start" /\ ~RtoLocked
  /\ \/ rto_cpu < 0 /\ Iterate(p, "scan")
     \/ /\ rto_cpu >= 0
        /\ cpu' = [cpu EXCEPT ![p] = -1]
        /\ pc' = [pc EXCEPT ![p] = "unlock"]
        /\ UNCHANGED loop
  /\ UNCHANGED <<rto_mask, rto_loop_next, rto_loop_start, worker, refs, overloads, owed>>

StartOn(p) ==
  /\ pc[p] \in {"scan", "look"} /\ Iterate(p, pc[p])
  /\ UNCHANGED <<rto_mask, rto_loop_next, rto_loop_start, worker, refs, overloads, owed>>

rto_start_unlock(p) ==
  /\ pc[p] = "unlock"
  /\ rto_loop_start' = FALSE
  /\ pc' = [pc EXCEPT ![p] = IF cpu[p] >= 0 THEN "send" ELSE "idle"]
  /\ UNCHANGED <<rto_mask, loop, rto_loop_next, cpu, worker, refs, overloads, owed>>

\* irq_work_queue_on does nothing if the work is pending already; it may be
\* queued while its function still runs.
irq_work_queue_on(c) == pending' = IF pending = -1 THEN c ELSE pending

Send(p) ==
  /\ pc[p] = "send"
  /\ refs' = refs + 1
  /\ irq_work_queue_on(cpu[p])
  /\ pc' = [pc EXCEPT ![p] = "idle"]
  /\ UNCHANGED <<rto_mask, loop, rto_loop_next, rto_loop_start, cpu, fn, next,
                 overloads, owed>>

-----------------------------------------------------------------------------
(* rto_push_irq_work_func, on CPU c.                                       *)

\* The interrupt arrives, and the CPU pushes what it can.
Visit(c) ==
  /\ pending = c /\ fn[c] = "none"
  /\ pending' = -1
  /\ fn' = [fn EXCEPT ![c] = "pushed"]
  /\ owed' = [p \in Pullers |-> owed[p] \ {c}]
  /\ UNCHANGED <<rto_mask, loop, puller, next, refs, overloads>>

\* The critical section of rto_lock.
Pass(c) ==
  /\ \/ fn[c] = "pushed" /\ ~RtoLocked
     \/ fn[c] \in {"scan", "look"}
  /\ LET r == rto_next_cpu(IF fn[c] = "look" THEN "look" ELSE "scan")
     IN  /\ rto_cpu' = r.cpu /\ rto_loop' = r.loop
         /\ next' = [next EXCEPT ![c] = r.cpu]
         /\ fn' = [fn EXCEPT ![c] = IF r.at = "done" THEN "passed" ELSE r.at]
  /\ UNCHANGED <<rto_mask, puller, pending, refs, overloads, owed>>

\* The rest: the work is queued on the next CPU, or the reference is put.
Finish(c) ==
  /\ fn[c] = "passed"
  /\ IF next[c] < 0
     THEN refs' = refs - 1 /\ UNCHANGED pending
     ELSE irq_work_queue_on(next[c]) /\ UNCHANGED refs
  /\ fn' = [fn EXCEPT ![c] = "none"]
  /\ UNCHANGED <<rto_mask, loop, puller, next, overloads, owed>>

-----------------------------------------------------------------------------
Puller(p) ==
  \/ Request(p) \/ rto_start_trylock(p) \/ Start(p) \/ StartOn(p) \/ rto_start_unlock(p) \/ Send(p)

Worker(c) == Visit(c) \/ Pass(c) \/ Finish(c)

Next ==
  \/ \E c \in Cpus : rt_set_overload(c) \/ rt_clear_overload(c) \/ Worker(c)
  \/ \E p \in Pullers : Puller(p)

Spec == Init /\ [][Next]_vars

\* Interrupts are delivered, and a CPU goes on with what it has begun.
FairSpec ==
  /\ Spec
  /\ \A c \in Cpus : WF_vars(Worker(c))
  /\ \A p \in Pullers :
       WF_vars(rto_start_trylock(p) \/ Start(p) \/ StartOn(p) \/ rto_start_unlock(p) \/ Send(p))

-----------------------------------------------------------------------------
(* Properties.                                                             *)

TypeOK ==
  /\ rto_mask \subseteq Cpus /\ rto_cpu \in Cpus \cup {-1}
  /\ rto_loop \in 0..MaxRequests /\ rto_loop_next \in 0..MaxRequests
  /\ rto_loop_start \in BOOLEAN
  /\ pc \in [Pullers -> {"idle", "trylock", "start", "scan", "look", "unlock", "send"}]
  /\ cpu \in [Pullers -> Cpus \cup {-1}]
  /\ pending \in Cpus \cup {-1}
  /\ fn \in [Cpus -> {"none", "pushed", "scan", "look", "passed"}]
  /\ next \in [Cpus -> Cpus \cup {-1}]
  /\ refs \in Int /\ overloads \in 0..MaxOverloads /\ owed \in [Pullers -> SUBSET Cpus]

\* Who holds the loop: the pullers that are to send the interrupt, the
\* pending interrupt, and the CPUs that are to pass it on.
Senders == {p \in Pullers : pc[p] \in {"unlock", "send"} /\ cpu[p] >= 0}
Carriers == {c \in Cpus : fn[c] = "pushed" \/ (fn[c] = "passed" /\ next[c] >= 0)}
Holders == Cardinality(Senders) + Cardinality(Carriers) + (IF pending >= 0 THEN 1 ELSE 0)

\* There is one loop at most, and rto_cpu tells under rto_lock whether there is
\* one: no
\* interrupt is sent while another is on its way, where irq_work_queue_on
\* would drop it (tell_cpu_to_push, rto_push_irq_work_func).  The root domain
\* is referenced exactly as long as the interrupt is on its way ("Make sure
\* the rd does not get freed while pushing", rt.c:2015).
OneLoop ==
  /\ ~RtoLocked => Holders = (IF rto_cpu >= 0 THEN 1 ELSE 0)
  /\ refs > 0 <=> (\E c \in Cpus : fn[c] # "none") \/ pending >= 0

Quiet ==
  /\ \A p \in Pullers : pc[p] = "idle"
  /\ \A c \in Cpus : fn[c] = "none"
  /\ pending = -1

\* Every CPU that is overloaded when a CPU whose priority falls makes its
\* request, and gets rto_loop_start, is visited after that: "This will make
\* sure that the irq work iterator checks all RT overloaded CPUs whenever a
\* CPU schedules a new lower priority task, even if the iterator is in the
\* middle of a scan" (rt.c:1925-1927).  A request that finds rto_loop_start
\* taken can be lost: its holder may be past rto_next_cpu.
AllVisited == Quiet => \A p \in Pullers : owed[p] = {}

\* The loop ends once the requests have ended (rto_next_cpu).
LoopEnds == <>[](rto_cpu = -1)
=============================================================================

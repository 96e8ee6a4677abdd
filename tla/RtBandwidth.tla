---------------------------- MODULE RtBandwidth ----------------------------
(***************************************************************************)
(* The bandwidth limit of the realtime class (kernel/sched/rt.c, built     *)
(* without CONFIG_RT_GROUP_SCHED, with the default scheduler feature       *)
(* RT_RUNTIME_SHARE): per-CPU runtime, charged by                          *)
(* update_curr_rt, borrowed between CPUs, replenished by the period timer, *)
(* taken back when a CPU goes offline, and reset by the sysctl.            *)
(*                                                                         *)
(* Every change of rt_runtime happens under rt_b->rt_runtime_lock, so      *)
(* do_balance_runtime and __disable_runtime are single steps; what the     *)
(* code does on either side of them is not.  Everything about CPU c that   *)
(* holds c's rq->lock waits while c is inside update_curr_rt               *)
(* (upd[c] = "balanced").                                                  *)
(***************************************************************************)
EXTENDS Integers, FiniteSets, Functions

CONSTANTS N,          \* CPUs are 1..N, in the order of for_each_cpu
          Period,     \* rt_b->rt_period
          Runtime,    \* the initial sysctl_sched_rt_runtime
          Settings,   \* values written to the sysctl; negative: no limit
          Hotplug,    \* the CPUs that may go offline
          Busy,       \* the CPUs that get realtime tasks
          MaxOverrun, \* bound: periods one call of the timer makes up for
          MaxNr,      \* bound: realtime tasks of a CPU
          MaxTime     \* bound: rt_time of a CPU

ASSUME RtAssumption ==
  /\ N \in Nat \ {0} /\ Period \in Nat \ {0} /\ Runtime \in 0..Period
  /\ Settings \subseteq Int /\ Hotplug \subseteq 1..N /\ Busy \subseteq 1..N
  /\ MaxOverrun \in Nat
  /\ MaxNr \in Nat /\ MaxTime \in Nat

VARIABLES rt_rq,      \* the realtime run queue of every CPU
          rt_b,       \* def_rt_bandwidth: runtime, and rt_period_active
          sysctl,     \* sysctl_sched_rt_runtime
          handler,    \* where the writer of the sysctl is, and the old value
          online,     \* the CPUs whose run queue is online (rd->span)
          upd,        \* "balanced": in update_curr_rt, past balance_runtime
          tmr,        \* the period timer's callback
          torn        \* history: a CPU went or came between the writer's steps

vars == <<rt_rq, rt_b, sysctl, handler, online, upd, tmr, torn>>

Cpus == 1..N
INF == 1000 * (Period + MaxTime + 1)      \* RUNTIME_INF

global_rt_runtime == IF sysctl < 0 THEN INF ELSE sysctl
rt_bandwidth_enabled == sysctl >= 0

RtRq == [runtime : Nat, time : 0..MaxTime, throttled : BOOLEAN,
         nr : 0..MaxNr, queued : BOOLEAN, counted : 0..MaxNr, curr : BOOLEAN]

TimerIdle == [at |-> 0, idle |-> TRUE, throttled |-> FALSE, overrun |-> 0,
              balanced |-> FALSE]

Init ==
  /\ rt_rq = [c \in Cpus |-> [runtime |-> Runtime, time |-> 0,
                throttled |-> FALSE, nr |-> 0, queued |-> FALSE,
                counted |-> 0, curr |-> FALSE]]
  /\ rt_b = [runtime |-> Runtime, active |-> FALSE]
  /\ sysctl = Runtime
  /\ handler = [at |-> "idle", old |-> Runtime]
  /\ online = Cpus
  /\ upd = [c \in Cpus |-> "idle"]
  /\ tmr = TimerIdle
  /\ torn = FALSE

-----------------------------------------------------------------------------
(* Counting the realtime tasks of a queue in rq->nr_running.               *)

dequeue_top_rt_rq(r) ==
  IF r.queued THEN [r EXCEPT !.queued = FALSE, !.counted = r.counted - r.nr]
  ELSE r

enqueue_top_rt_rq(r) ==
  IF r.queued \/ r.throttled \/ r.nr = 0 THEN r
  ELSE [r EXCEPT !.queued = TRUE, !.counted = r.counted + r.nr]

start_rt_bandwidth ==
  IF rt_bandwidth_enabled /\ rt_b.runtime # INF
  THEN [rt_b EXCEPT !.active = TRUE]
  ELSE rt_b

\* The run queue of c is not locked by c's own update_curr_rt, nor by the
\* timer's callback.
RqUnlocked(c) == upd[c] = "idle" /\ ~ (tmr.balanced /\ tmr.at = c)

enqueue_task_rt(c) ==
  /\ c \in Busy /\ c \in online /\ RqUnlocked(c) /\ rt_rq[c].nr < MaxNr
  /\ rt_rq' = [rt_rq EXCEPT ![c] =
       enqueue_top_rt_rq([dequeue_top_rt_rq(@) EXCEPT !.nr = @ + 1])]
  /\ rt_b' = start_rt_bandwidth
  /\ UNCHANGED <<sysctl, handler, online, upd, tmr, torn>>

\* The update_curr_rt it starts with is a step of its own (with no time
\* passed it does nothing).  A running task that is dequeued is put in the
\* same critical section: the last one leaves no realtime task running.
dequeue_task_rt(c) ==
  /\ RqUnlocked(c) /\ rt_rq[c].nr > 0
  /\ rt_rq' = [rt_rq EXCEPT ![c] = enqueue_top_rt_rq(
       [dequeue_top_rt_rq(@) EXCEPT !.nr = @ - 1, !.curr = @ /\ rt_rq[c].nr > 1])]
  /\ UNCHANGED <<rt_b, sysctl, handler, online, upd, tmr, torn>>

\* pick_next_task_rt picks nothing from a queue that is not rt_queued.
pick_next_task_rt(c) ==
  /\ c \in online /\ RqUnlocked(c) /\ rt_rq[c].curr # rt_rq[c].queued
  /\ rt_rq' = [rt_rq EXCEPT ![c].curr = rt_rq[c].queued]
  /\ UNCHANGED <<rt_b, sysctl, handler, online, upd, tmr, torn>>

-----------------------------------------------------------------------------
(* Borrowing runtime.                                                      *)

\* Mutant: what is borrowed is not taken from the lender.
do_balance_runtime_Mints(c, q) ==
  LET Lent(k, r) == (r[k].runtime - r[k].time) \div Cardinality(online)
      Room(r) == Period - r[c].runtime
      Visit[k \in 0..N] ==
        IF k = 0 THEN q
        ELSE LET r == Visit[k - 1]
                 diff == IF Lent(k, r) > Room(r) THEN Room(r) ELSE Lent(k, r)
             IN  IF \/ k = c \/ k \notin online \/ r[k].runtime = INF
                    \/ r[k].runtime <= r[k].time \/ r[c].runtime = Period
                 THEN r
                 ELSE [r EXCEPT ![c].runtime = @ + diff]
  IN  Visit[N]

\* From every other CPU with spare runtime take 1/n of it, never beyond the
\* period; the loop ends when the period is reached.
do_balance_runtime(c, q) ==
  LET Lent(k, r) == (r[k].runtime - r[k].time) \div Cardinality(online)
      Room(r) == Period - r[c].runtime
      Visit[k \in 0..N] ==
        IF k = 0 THEN q
        ELSE LET r == Visit[k - 1]
                 diff == IF Lent(k, r) > Room(r) THEN Room(r) ELSE Lent(k, r)
             IN  IF \/ k = c \/ k \notin online \/ r[k].runtime = INF
                    \/ r[k].runtime <= r[k].time \/ r[c].runtime = Period
                 THEN r
                 ELSE [r EXCEPT ![k].runtime = @ - diff, ![c].runtime = @ + diff]
  IN  Visit[N]

balance_runtime(c, q) ==
  IF q[c].time > q[c].runtime THEN do_balance_runtime(c, q) ELSE q

-----------------------------------------------------------------------------
(* Charging the running realtime task.                                     *)

Charges(c) == rt_rq[c].curr /\ rt_bandwidth_enabled /\ rt_rq[c].runtime # INF

\* Up to balance_runtime of sched_rt_runtime_exceeded, whose result is used
\* after rt_rq->rt_runtime_lock has been dropped and taken again.
update_curr_rt(c, delta) ==
  LET charged == [rt_rq EXCEPT ![c].time = @ + delta]
      asks == ~ rt_rq[c].throttled /\ rt_rq[c].runtime < Period
  IN  /\ c \in online /\ RqUnlocked(c) /\ Charges(c)
      /\ rt_rq[c].time + delta <= MaxTime
      /\ rt_rq' = IF asks THEN balance_runtime(c, charged) ELSE charged
      /\ upd' = IF asks THEN [upd EXCEPT ![c] = "balanced"] ELSE upd
      /\ UNCHANGED <<rt_b, sysctl, handler, online, tmr, torn>>

Throttle(r) == dequeue_top_rt_rq([r EXCEPT !.throttled = TRUE])

Exceeded(r) ==
  IF r.runtime = INF \/ r.time <= r.runtime THEN r
  ELSE IF rt_b.runtime # 0 THEN Throttle(r)
  ELSE [r EXCEPT !.time = 0]

sched_rt_runtime_exceeded(c) ==
  /\ upd[c] = "balanced"
  /\ rt_rq' = [rt_rq EXCEPT ![c] = Exceeded(@)]
  /\ upd' = [upd EXCEPT ![c] = "idle"]
  /\ UNCHANGED <<rt_b, sysctl, handler, online, tmr, torn>>

-----------------------------------------------------------------------------
(* The period timer.                                                       *)

sched_rt_period_timer(overrun) ==
  /\ rt_b.active /\ tmr.at = 0
  /\ tmr' = [TimerIdle EXCEPT !.at = 1, !.overrun = overrun]
  /\ UNCHANGED <<rt_rq, rt_b, sysctl, handler, online, upd, torn>>

\* CPUs that are offline, or have neither tasks nor time, are passed over.
Skipped(c) == c \notin online \/ (rt_rq[c].time = 0 /\ rt_rq[c].nr = 0)

TimerSkip ==
  /\ tmr.at \in Cpus /\ ~ tmr.balanced /\ Skipped(tmr.at)
  /\ tmr' = [tmr EXCEPT !.at = @ + 1]
  /\ UNCHANGED <<rt_rq, rt_b, sysctl, handler, online, upd, torn>>

\* Lock the queue; a throttled one first tries to borrow.
TimerBalance ==
  LET c == tmr.at
  IN  /\ c \in Cpus /\ ~ tmr.balanced /\ ~ Skipped(c) /\ upd[c] = "idle"
      /\ rt_rq' = IF rt_rq[c].time > 0 /\ rt_rq[c].throttled
                  THEN balance_runtime(c, rt_rq) ELSE rt_rq
      /\ tmr' = [tmr EXCEPT !.balanced = TRUE]
      /\ UNCHANGED <<rt_b, sysctl, handler, online, upd, torn>>

\* Mutant: the queue is released but its tasks are not counted again.
Replenished_NotQueued(r, overrun) ==
  LET paid == IF r.time < overrun * r.runtime THEN r.time ELSE overrun * r.runtime
      left == [r EXCEPT !.time = @ - paid]
  IN  IF r.time > 0
      THEN IF r.throttled /\ left.time < r.runtime
           THEN [left EXCEPT !.throttled = FALSE]
           ELSE left
      ELSE IF r.nr > 0 /\ ~ r.throttled THEN enqueue_top_rt_rq(r) ELSE r

\* Mutant: a throttled queue is given nothing back.
Replenished_NotThrottled(r, overrun) ==
  LET paid == IF r.time < overrun * r.runtime THEN r.time ELSE overrun * r.runtime
  IN  IF r.time > 0
      THEN IF r.throttled THEN r ELSE [r EXCEPT !.time = @ - paid]
      ELSE IF r.nr > 0 /\ ~ r.throttled THEN enqueue_top_rt_rq(r) ELSE r

\* What one period gives back, and the release of a throttled queue.
Replenished(r, overrun) ==
  LET paid == IF r.time < overrun * r.runtime THEN r.time ELSE overrun * r.runtime
      left == [r EXCEPT !.time = @ - paid]
  IN  IF r.time > 0
      THEN IF r.throttled /\ left.time < r.runtime
           THEN enqueue_top_rt_rq([left EXCEPT !.throttled = FALSE])
           ELSE left
      ELSE IF r.nr > 0 /\ ~ r.throttled THEN enqueue_top_rt_rq(r) ELSE r

TimerReplenish ==
  LET c == tmr.at
      new == Replenished(rt_rq[c], tmr.overrun)
  IN  /\ tmr.balanced
      /\ rt_rq' = [rt_rq EXCEPT ![c] = new]
      /\ tmr' = [tmr EXCEPT !.at = @ + 1, !.balanced = FALSE,
                   !.idle = @ /\ new.time = 0 /\ new.nr = 0,
                   !.throttled = @ \/ new.throttled]
      /\ UNCHANGED <<rt_b, sysctl, handler, online, upd, torn>>

\* The callback takes rt_b->rt_runtime_lock again and stops the timer if
\* it found nothing to do.
TimerEnd ==
  LET unlimited == ~ rt_bandwidth_enabled \/ rt_b.runtime = INF
      idle == tmr.idle \/ (~ tmr.throttled /\ unlimited)
  IN  /\ tmr.at = N + 1
      /\ rt_b' = IF idle THEN [rt_b EXCEPT !.active = FALSE] ELSE rt_b
      /\ tmr' = TimerIdle
      /\ UNCHANGED <<rt_rq, sysctl, handler, online, upd, torn>>

-----------------------------------------------------------------------------
(* A CPU goes offline and comes back.                                      *)

\* Mutant: what was borrowed is not given back.
Reclaim_OnlyLent(c) ==
  LET Others == {k \in online \ {c} : rt_rq[k].runtime # INF}
      Smaller(a, b) == IF a < b THEN a ELSE b
      Visit[k \in 0..N] ==
        IF k = 0 THEN [rq |-> rt_rq, want |-> rt_b.runtime - rt_rq[c].runtime]
        ELSE LET s == Visit[k - 1]
                 diff == Smaller(s.rq[k].runtime, s.want)
             IN  IF s.want <= 0 \/ k \notin Others THEN s
                 ELSE [rq |-> [s.rq EXCEPT ![k].runtime = @ - diff],
                       want |-> s.want - diff]
  IN  Visit[N]

\* Take back from the others what was lent, or give them what was borrowed;
\* want is what remains when all have been visited.
Reclaim(c) ==
  LET Others == {k \in online \ {c} : rt_rq[k].runtime # INF}
      Smaller(a, b) == IF a < b THEN a ELSE b
      Visit[k \in 0..N] ==
        IF k = 0 THEN [rq |-> rt_rq, want |-> rt_b.runtime - rt_rq[c].runtime]
        ELSE LET s == Visit[k - 1]
                 diff == IF s.want > 0 THEN Smaller(s.rq[k].runtime, s.want)
                         ELSE s.want
             IN  IF s.want = 0 \/ k \notin Others THEN s
                 ELSE [rq |-> [s.rq EXCEPT ![k].runtime = @ - diff],
                       want |-> s.want - diff]
  IN  Visit[N]

\* __disable_runtime, from rq_offline_rt.  The last CPU stays.
disable_runtime(c) ==
  LET balanced == rt_rq[c].runtime \in {INF, rt_b.runtime}
      rq == IF balanced THEN rt_rq ELSE Reclaim(c).rq
  IN  /\ c \in Hotplug /\ c \in online /\ online # {c} /\ RqUnlocked(c)
      /\ rt_rq' = [rq EXCEPT ![c] = enqueue_top_rt_rq(
                    [@ EXCEPT !.runtime = INF, !.throttled = FALSE])]
      /\ torn' = (torn \/ handler.at = "constrained")
      /\ online' = online \ {c}
      /\ UNCHANGED <<rt_b, sysctl, handler, upd, tmr>>

\* __enable_runtime, from rq_online_rt.
enable_runtime(c) ==
  /\ c \notin online /\ RqUnlocked(c)
  /\ rt_rq' = [rt_rq EXCEPT ![c].runtime = rt_b.runtime, ![c].time = 0,
                            ![c].throttled = FALSE]
  /\ torn' = (torn \/ handler.at = "constrained")
  /\ online' = online \cup {c}
  /\ UNCHANGED <<rt_b, sysctl, handler, upd, tmr>>

-----------------------------------------------------------------------------
(* sched_rt_handler: a write of the sysctl.                                *)

Write(v) ==
  /\ handler.at = "idle"
  /\ handler' = [at |-> "written", old |-> sysctl]
  /\ sysctl' = v
  /\ UNCHANGED <<rt_rq, rt_b, online, upd, tmr, torn>>

\* sched_rt_global_validate, or sched_dl_global_validate, refuses.
Undo ==
  /\ handler.at = "written"
  /\ sysctl' = handler.old
  /\ handler' = [handler EXCEPT !.at = "idle"]
  /\ UNCHANGED <<rt_rq, rt_b, online, upd, tmr, torn>>

sched_rt_global_constraints ==
  /\ handler.at = "written" /\ sysctl <= Period
  /\ rt_rq' = [c \in Cpus |-> [rt_rq[c] EXCEPT !.runtime = global_rt_runtime]]
  /\ handler' = [handler EXCEPT !.at = "constrained"]
  /\ torn' = FALSE
  /\ UNCHANGED <<rt_b, sysctl, online, upd, tmr>>

sched_rt_do_global ==
  /\ handler.at = "constrained"
  /\ rt_b' = [rt_b EXCEPT !.runtime = global_rt_runtime]
  /\ handler' = [handler EXCEPT !.at = "idle"]
  /\ UNCHANGED <<rt_rq, sysctl, online, upd, tmr, torn>>

-----------------------------------------------------------------------------
TimerStep ==
  \/ \E overrun \in 1..MaxOverrun : sched_rt_period_timer(overrun)
  \/ TimerSkip
  \/ TimerBalance
  \/ TimerReplenish
  \/ TimerEnd

CpuStep(c) ==
  \/ enqueue_task_rt(c)
  \/ dequeue_task_rt(c)
  \/ pick_next_task_rt(c)
  \/ \E delta \in 1..2 : update_curr_rt(c, delta)
  \/ sched_rt_runtime_exceeded(c)
  \/ disable_runtime(c)
  \/ enable_runtime(c)

HandlerStep ==
  \/ \E v \in Settings : Write(v)
  \/ Undo
  \/ sched_rt_global_constraints
  \/ sched_rt_do_global

Next ==
  \/ TimerStep
  \/ \E c \in Cpus : CpuStep(c)
  \/ HandlerStep

Spec == Init /\ [][Next]_vars

\* The timer's interrupt is delivered and its callback runs to its end; a
\* CPU leaves update_curr_rt, and reschedules when it has been asked to (its
\* run queue's lock, which others take as well, is a fair one).
FairSpec ==
  /\ Spec
  /\ WF_vars(TimerStep)
  /\ \A c \in Cpus : /\ WF_vars(sched_rt_runtime_exceeded(c))
                     /\ SF_vars(pick_next_task_rt(c))

-----------------------------------------------------------------------------
(* Properties.                                                             *)

TypeOK ==
  /\ rt_rq \in [Cpus -> RtRq]
  /\ rt_b \in [runtime : Nat, active : BOOLEAN]
  /\ sysctl \in Settings \cup {Runtime}
  /\ handler \in [at : {"idle", "written", "constrained"},
                  old : Settings \cup {Runtime}]
  /\ online \subseteq Cpus
  /\ upd \in [Cpus -> {"idle", "balanced"}]
  /\ tmr \in [at : 0..(N + 1), idle : BOOLEAN, throttled : BOOLEAN,
              overrun : 0..MaxOverrun, balanced : BOOLEAN]
  /\ torn \in BOOLEAN

Enabled == {c \in Cpus : rt_rq[c].runtime # INF}

SumRuntime == FoldFunctionOnSet(LAMBDA r, s : r.runtime + s, 0, rt_rq, Enabled)

\* The limits of the CPUs and the limit they are reckoned against belong to
\* the same write of the sysctl.
Whole == handler.at # "constrained" /\ ~ torn

\* Borrowing, replenishing, and CPUs that come and go move runtime around
\* without making or losing any: the CPUs that share runtime always hold
\* what they were given between them (do_balance_runtime and
\* __disable_runtime).
RuntimeConserved ==
  Whole /\ rt_b.runtime # INF
    => SumRuntime = Cardinality(Enabled) * rt_b.runtime

\* A CPU that goes offline, now, finds all that it has lent: "We cannot be
\* left wanting - that would mean some runtime leaked out of the system"
\* (rt.c:753), and the BUG_ON of __disable_runtime does not fire.
NeverLeftWanting ==
  Whole => \A c \in online :
    rt_rq[c].runtime \notin {INF, rt_b.runtime} => Reclaim(c).want = 0

\* No tasks are left behind: a queue that has tasks and is not throttled is
\* queued, and a throttled one is not; and rq->nr_running has the realtime
\* tasks of a queue exactly while it is queued, so that a throttled CPU does
\* not look busy with them and a released one does (sched_rt_runtime_exceeded,
\* the timer, __disable_runtime, __enable_runtime, enqueue_top_rt_rq).
QueuedUnlessThrottled ==
  \A c \in Cpus :
    /\ rt_rq[c].queued <=> rt_rq[c].nr > 0 /\ ~ rt_rq[c].throttled
    /\ rt_rq[c].counted = (IF rt_rq[c].queued THEN rt_rq[c].nr ELSE 0)

\* No CPU is throttled for ever: as long as the timer keeps firing and the
\* limit stays a positive one, each is released, also one that has lent of its
\* runtime and is paid less for each period, or was throttled under an earlier
\* limit (do_sched_rt_period_timer).  Excepted is a CPU that has no runtime left:
\* with three CPUs or more __disable_runtime may take all that a third one has.
ThrottleEnds ==
  []<>(tmr.at = N + 1) /\ <>[](Whole /\ sysctl > 0 /\ rt_b.runtime = sysctl)
    => \A c \in Cpus : []<>(~ rt_rq[c].throttled \/ rt_rq[c].runtime = 0)
=============================================================================

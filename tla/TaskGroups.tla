----------------------------- MODULE TaskGroups ----------------------------
(***************************************************************************)
(* Task groups and their bandwidth (kernel/sched/core.c and rt.c, with     *)
(* CONFIG_RT_GROUP_SCHED): groups come and go, a change of a group's       *)
(* bandwidth walks the tree under a mutex before it is stored, the global  *)
(* limit is written before it is checked, and tasks become realtime and    *)
(* change groups meanwhile.                                                *)
(*                                                                         *)
(* A step of a walk is the visit of one group.  The lists that it follows  *)
(* change meanwhile, under RCU: it may miss a group created since it began *)
(* and may visit one that is gone, neither of which can make it fail.      *)
(***************************************************************************)
EXTENDS Integers, FiniteSetsExt

CONSTANTS Root, Groups,     \* root_task_group, and the others
          Tasks, Callers,
          BW_UNIT,          \* 1 << BW_SHIFT
          WORD,             \* 2^64
          Writes,           \* what a caller writes to which file of which group
          SysWrites,        \* what is written to the sysctls
          Sysctl0,          \* the sysctls at boot
          Moves,            \* the groups that tasks are moved to
          None              \* no group

RUNTIME_INF == WORD - 1

ASSUME TaskGroupsAssumption ==
  /\ BW_UNIT \in Nat \ {0} /\ WORD \in Nat \ {0} /\ Root \notin Groups
  /\ Moves \subseteq Groups \cup {Root}
  /\ Writes \in [Callers -> SUBSET [tg : Groups \cup {Root}, file : {"period", "runtime"},
                                    value : 0..WORD - 1]]
  /\ SysWrites \subseteq [file : {"period", "runtime"}, value : 0..WORD - 1]

VARIABLES parent,       \* the tree
          rt,           \* rt_bandwidth: its period and runtime
          sysctl,       \* sysctl_sched_rt_period and _runtime
          def_period,   \* def_rt_bandwidth.rt_period
          handler,      \* the call of sched_rt_handler in progress
          call,         \* the change of a group's bandwidth in progress
          group, rt_task, \* the tasks' groups, and whether they are realtime
          attaching,    \* the group a task may be attached to by now
          during,       \* history: the groups changed under sysctls that were
                        \* not validated yet
          over,         \* history: those whose sysctls were then undone
          raced         \* history: the tasks that became realtime, or moved,
                        \* between the check and the store of a runtime of 0,
                        \* or while a limit that was then undone was off

global == <<sysctl, def_period, handler>>
tasks == <<group, rt_task, attaching>>
history == <<during, over, raced>>
vars == <<parent, rt, global, call, tasks, history>>

All == Groups \cup {Root}
Exists == {Root} \cup {g \in Groups : parent[g] # None}
Children(g) == {c \in Groups : parent[c] = g}

Idle == [at |-> "none"]

Init ==
  /\ parent = [g \in Groups |-> None]
  /\ sysctl = Sysctl0 /\ def_period = Sysctl0.period /\ handler = Idle
  /\ rt = [g \in All |-> [period |-> Sysctl0.period,
                          runtime |-> IF g = Root THEN Sysctl0.runtime ELSE 0]]
  /\ call = [k \in Callers |-> Idle]
  /\ group = [t \in Tasks |-> Root] /\ rt_task = [t \in Tasks |-> FALSE]
  /\ attaching = [t \in Tasks |-> None]
  /\ during = {} /\ over = {} /\ raced = {}

-----------------------------------------------------------------------------
(* Ratios.                                                                 *)

to_ratio(b) ==
  IF b.runtime = RUNTIME_INF THEN BW_UNIT
  ELSE IF b.period = 0 THEN 0 ELSE ((b.runtime * BW_UNIT) % WORD) \div b.period

rt_bandwidth_enabled == sysctl.runtime # RUNTIME_INF

\* The realtime bandwidth of a group, as the walk for d sees it.
Seen(d, g) == IF g = d.tg THEN d.to ELSE rt[g]

tg_has_rt_tasks(g) == \E t \in Tasks : rt_task[t] /\ group[t] = g

\* Mutant: the global limit is not compared with.
tg_rt_schedulable_NoLimit(d, g) ==
  LET own == Seen(d, g)
      total == to_ratio(own)
  IN  /\ own.runtime <= own.period \/ own.runtime = RUNTIME_INF
      /\ ~(rt_bandwidth_enabled /\ own.runtime = 0 /\ tg_has_rt_tasks(g))
      /\ MapThenSumSet(LAMBDA c : to_ratio(Seen(d, c)), Children(g)) <= total

\* Mutant: realtime tasks are not looked for.
tg_rt_schedulable_Starves(d, g) ==
  LET own == Seen(d, g)
      total == to_ratio(own)
  IN  /\ own.runtime <= own.period \/ own.runtime = RUNTIME_INF
      /\ total <= to_ratio(sysctl)
      /\ MapThenSumSet(LAMBDA c : to_ratio(Seen(d, c)), Children(g)) <= total

\* The visit of a group: not more than its period, no realtime task without
\* runtime, not more than the global limit, enough for its children.
tg_rt_schedulable(d, g) ==
  LET own == Seen(d, g)
      total == to_ratio(own)
  IN  /\ own.runtime <= own.period \/ own.runtime = RUNTIME_INF
      /\ ~(rt_bandwidth_enabled /\ own.runtime = 0 /\ tg_has_rt_tasks(g))
      /\ total <= to_ratio(sysctl)
      /\ MapThenSumSet(LAMBDA c : to_ratio(Seen(d, c)), Children(g)) <= total

-----------------------------------------------------------------------------
(* Groups come and go.                                                     *)

\* What a new group starts with: no runtime.
alloc_rt_sched_group == [period |-> def_period, runtime |-> 0]

\* sched_create_group and sched_online_group.
sched_online_group(g, p) ==
  /\ parent[g] = None /\ p \in Exists
  /\ parent' = [parent EXCEPT ![g] = p]
  /\ rt' = [rt EXCEPT ![g] = alloc_rt_sched_group]
  /\ UNCHANGED <<global, call, tasks, history>>

\* A group is removed when nothing is in it and nobody has its files open.
sched_offline_group(g) ==
  /\ parent[g] # None /\ Children(g) = {}
  /\ \A t \in Tasks : group[t] # g /\ attaching[t] # g
  /\ \A k \in Callers : call[k] # Idle => call[k].tg # g
  /\ parent' = [parent EXCEPT ![g] = None]
  /\ during' = during \ {g} /\ over' = over \ {g}
  /\ rt' = [rt EXCEPT ![g] = [period |-> Sysctl0.period, runtime |-> 0]]
  /\ UNCHANGED <<global, call, tasks, raced>>

-----------------------------------------------------------------------------
(* A change of a group's realtime bandwidth.                               *)

\* The half that is not written is read before the mutex is taken.
sched_group_set_rt_bandwidth(k, w) ==
  LET to == [rt[w.tg] EXCEPT ![w.file] = w.value]
  IN  /\ call[k] = Idle /\ w.tg \in Exists
      /\ ~(w.tg = Root /\ to.runtime = 0) /\ to.period # 0
      /\ call' = [call EXCEPT ![k] = [at |-> "entered", tg |-> w.tg, to |-> to]]
      /\ UNCHANGED <<parent, rt, global, tasks, history>>

\* rt_constraints_mutex is held.
Walking == handler.at = "walk" \/ \E k \in Callers : call[k].at = "walk"

\* Mutant: the walk is made without the mutex.
__rt_schedulable_Unlocked(k) ==
  /\ call[k].at = "entered"
  /\ call' = [call EXCEPT ![k] = [at |-> "walk", tg |-> @.tg, to |-> @.to,
                                  todo |-> Exists, torn |-> FALSE]]
  /\ UNCHANGED <<parent, rt, global, tasks, history>>

\* tg_set_rt_bandwidth takes the mutex, and the walk begins.
__rt_schedulable(k) ==
  /\ call[k].at = "entered" /\ ~Walking
  /\ call' = [call EXCEPT ![k] = [at |-> "walk", tg |-> @.tg, to |-> @.to,
                                  todo |-> Exists, torn |-> FALSE]]
  /\ UNCHANGED <<parent, rt, global, tasks, history>>

\* The next group of a walk: parents come before their children.
walk_tg_tree(todo) == {g \in todo \cap Exists : g = Root \/ parent[g] \notin todo}

\* A visit that fails ends the call, with nothing changed.
Visit(k, g) ==
  LET d == call[k]
  IN  /\ d.at = "walk" /\ g \in walk_tg_tree(d.todo)
      /\ call' = [call EXCEPT ![k] =
                    IF tg_rt_schedulable(d, g)
                    THEN [d EXCEPT !.todo = @ \ {g}, !.torn = @ \/ handler # Idle] ELSE Idle]
      /\ UNCHANGED <<parent, rt, global, tasks, history>>

\* All groups are visited: the values are stored, and the mutex released.
tg_set_rt_bandwidth(k) ==
  LET d == call[k]
  IN  /\ d.at = "walk" /\ d.todo \cap Exists = {}
      /\ rt' = [rt EXCEPT ![d.tg] = d.to]
      /\ call' = [call EXCEPT ![k] = Idle]
      /\ during' = IF d.torn /\ handler # Idle THEN during \cup {d.tg} ELSE during \ {d.tg}
      /\ over' = IF d.torn /\ handler = Idle THEN over \cup {d.tg} ELSE over \ {d.tg}
      /\ raced' = IF d.to.runtime # 0
                  THEN raced \ {t \in Tasks : group[t] = d.tg /\ attaching[t] = None}
                  ELSE raced \cup {t \in Tasks : attaching[t] = d.tg}
                             \cup (IF d.torn THEN {t \in Tasks : group[t] = d.tg} ELSE {})
      /\ UNCHANGED <<parent, global, tasks>>

-----------------------------------------------------------------------------
(* The sysctls: written, then validated, then undone or kept.              *)

\* proc_dointvec, after the handler's own mutex.  Writing the value that is there
\* changes nothing.
sched_rt_handler(w) ==
  /\ handler = Idle /\ sysctl[w.file] # w.value
  /\ sysctl' = [sysctl EXCEPT ![w.file] = w.value]
  /\ handler' = [at |-> "written", old |-> sysctl]
  /\ UNCHANGED <<parent, rt, def_period, call, tasks, history>>

sched_rt_global_validate ==
  /\ sysctl.period # 0
  /\ sysctl.runtime = RUNTIME_INF \/ sysctl.runtime <= sysctl.period

Undo ==
  /\ sysctl' = handler.old
  /\ over' = over \cup during /\ during' = {}
  /\ handler' = Idle
  /\ UNCHANGED <<parent, rt, def_period, call, tasks, raced>>

\* sched_dl_global_validate may fail too.
RefuseGlobal == handler.at = "written" /\ Undo

\* The mutex is taken, and a walk without a change begins.
sched_rt_global_constraints ==
  /\ handler.at = "written" /\ sched_rt_global_validate /\ ~Walking
  /\ handler' = [at |-> "walk", old |-> handler.old, todo |-> Exists]
  /\ UNCHANGED <<parent, rt, sysctl, def_period, call, tasks, history>>

NoGroup == [tg |-> None]

VisitGlobal(g) ==
  /\ handler.at = "walk" /\ g \in walk_tg_tree(handler.todo)
  /\ \/ /\ tg_rt_schedulable(NoGroup, g)
        /\ handler' = [handler EXCEPT !.todo = @ \ {g}]
        /\ UNCHANGED <<parent, rt, sysctl, def_period, call, tasks, history>>
     \/ ~tg_rt_schedulable(NoGroup, g) /\ Undo

\* All groups are visited, and the mutex is released.
GlobalFits ==
  /\ handler.at = "walk" /\ handler.todo \cap Exists = {}
  /\ handler' = [at |-> "fits", old |-> handler.old]
  /\ UNCHANGED <<parent, rt, sysctl, def_period, call, tasks, history>>

sched_rt_do_global ==
  /\ handler.at = "fits"
  /\ def_period' = sysctl.period
  /\ during' = {} /\ over' = {}
  /\ handler' = Idle
  /\ UNCHANGED <<parent, rt, sysctl, call, tasks, raced>>

-----------------------------------------------------------------------------
(* Tasks.                                                                  *)

\* A walk that has visited group g is about to store a runtime of 0.
Zeroing(g) ==
  \E k \in Callers : /\ call[k].at = "walk" /\ call[k].tg = g
                     /\ call[k].to.runtime = 0 /\ g \notin call[k].todo

__sched_setscheduler(t) ==
  /\ rt_task[t] \/ ~(rt_bandwidth_enabled /\ rt[group[t]].runtime = 0)
  /\ rt_task' = [rt_task EXCEPT ![t] = ~@]
  /\ raced' = IF rt_task[t] THEN raced \ {t}
              ELSE IF attaching[t] # None \/ Zeroing(group[t])
                      \/ (handler # Idle /\ ~rt_bandwidth_enabled)
                   THEN raced \cup {t} ELSE raced
  /\ UNCHANGED <<parent, rt, global, call, group, attaching, during, over>>

\* sched_rt_can_attach; the task is moved later.
cpu_cgroup_can_attach(t, g) ==
  /\ attaching[t] = None /\ g \in Exists \ {group[t]}
  /\ ~(rt_task[t] /\ rt[g].runtime = 0)
  /\ attaching' = [attaching EXCEPT ![t] = g]
  /\ UNCHANGED <<parent, rt, global, call, group, rt_task, history>>

cpu_cgroup_attach(t) ==
  /\ attaching[t] # None
  /\ group' = [group EXCEPT ![t] = attaching[t]]
  /\ attaching' = [attaching EXCEPT ![t] = None]
  /\ raced' = IF rt_task[t] /\ Zeroing(attaching[t]) THEN raced \cup {t}
              ELSE IF rt[attaching[t]].runtime # 0 THEN raced \ {t} ELSE raced
  /\ UNCHANGED <<parent, rt, global, call, rt_task, during, over>>
-----------------------------------------------------------------------------
Next ==
  \/ \E g \in Groups : sched_offline_group(g) \/ \E p \in All : sched_online_group(g, p)
  \/ \E k \in Callers :
       \/ \E w \in Writes[k] : sched_group_set_rt_bandwidth(k, w)
       \/ __rt_schedulable(k)
       \/ \E g \in All : Visit(k, g)
       \/ tg_set_rt_bandwidth(k)
  \/ \E w \in SysWrites : sched_rt_handler(w)
  \/ RefuseGlobal
  \/ sched_rt_global_constraints
  \/ \E g \in All : VisitGlobal(g)
  \/ GlobalFits
  \/ sched_rt_do_global
  \/ \E t \in Tasks : \/ __sched_setscheduler(t)
                      \/ \E g \in Moves : cpu_cgroup_can_attach(t, g)
                      \/ cpu_cgroup_attach(t)

Spec == Init /\ [][Next]_vars

-----------------------------------------------------------------------------
(* Properties.                                                             *)

Admission == INSTANCE GroupAdmission WITH share <- [g \in All |-> to_ratio(rt[g])]

\* The walk is as good as one step: whatever groups come, go and change while
\* the groups are visited one by one, a change is stored only if the children of
\* every group fit at that moment, and a refused one leaves every group as it was
\* (tg_rt_schedulable: "The sum of our children's runtime should not exceed our
\* own").
Refines == Admission!Spec

\* Nobody has more than the global limit (tg_rt_schedulable: "Nobody can have more
\* than the global setting allows"), also when the limit is lowered while a group
\* is raised; except for groups that were changed while a limit was visible that
\* the handler then undid.
WithinGlobal ==
  handler = Idle => \A g \in Exists : to_ratio(rt[g]) <= to_ratio(sysctl) \/ g \in over

\* No realtime task is in a group without runtime (tg_rt_schedulable: "Ensure we
\* don't starve existing RT tasks", __sched_setscheduler, sched_rt_can_attach),
\* unless it slipped in between a check and the store that follows it.
NotStarved ==
  handler = Idle /\ rt_bandwidth_enabled =>
    \A t \in Tasks : rt_task[t] => rt[group[t]].runtime # 0 \/ t \in raced
=============================================================================

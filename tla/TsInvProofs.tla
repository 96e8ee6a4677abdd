---------------------------- MODULE TsInvProofs ----------------------------
(***************************************************************************)
(* The steps of TsSched that change a task's parameters, and the theorems. *)
(***************************************************************************)
EXTENDS TsStepProofs

(***************************************************************************)
(* Changes of parameters.                                                  *)
(***************************************************************************)
(* A SAVE pair without MOVE is used only where the place cannot change. *)
StaysPut(told, tnew) ==
    /\ (told.class = "rt") = (tnew.class = "rt")
    /\ told.class = "rt" => tnew.prio = told.prio

LEMMA RequeueGood ==
    ASSUME IInv, NEW p \in Task, NEW tnew, TaskOK(tnew), tnew.on_rq = task[p].on_rq,
           NEW d, NEW e, move_entity(d) = move_entity(e),
           ~move_entity(d) => StaysPut(task[p], tnew),
           task' = [task EXCEPT ![p] = tnew]
    PROVE  /\ Good(Requeue(rq, task[p], tnew, p, d, e), task')
           /\ curr \in CPUS /\ (curr \in Task => task'[curr].on_rq)
<1>1. SameBut(task, task', p) /\ task'[p] = tnew
  BY WriteOne, Zenon
<1>2. /\ task \in [CPUS -> TaskType] /\ Good(rq, task) /\ Queueable(tnew)
      /\ task[p].class \in {"rt", "ts", "fair"}
  BY TaskQueueable, Zenon DEF IInv, TaskOK
<1>3. Good(Requeue(rq, task[p], tnew, p, d, e), task')
  <2>1. CASE move_entity(d)
    <3>1. move_entity(e)
      BY <2>1
    <3> QED BY <1>1, <1>2, <2>1, <3>1, RequeueMoves, Zenon
  <2>2. CASE ~move_entity(d)
    <3>1. ~move_entity(e)
      BY <2>2 DEF move_entity
    <3>2. /\ (task[p].class = "rt") = (tnew.class = "rt")
          /\ task[p].class = "rt" => tnew.prio = task[p].prio
      BY <2>2 DEF StaysPut
    <3> QED BY <1>1, <1>2, <2>2, <3>1, <3>2, RequeueInPlace, Zenon
  <2> QED BY <2>1, <2>2
<1>4. curr \in CPUS /\ (curr \in Task => task'[curr].on_rq)
  BY <1>1 DEF IInv, SameBut
<1> QED BY <1>3, <1>4

LEMMA ChangeOK ==
    ASSUME IInv, NEW p \in Task, NEW tnew, TaskOK(tnew), tnew.on_rq = task[p].on_rq,
           NEW d, NEW e, move_entity(d) = move_entity(e),
           ~move_entity(d) => StaysPut(task[p], tnew),
           Change(p, tnew, d, e)
    PROVE  IInv'
<1>1. /\ task' = [task EXCEPT ![p] = tnew]
      /\ rq' = Requeue(rq, task[p], tnew, p, d, e)
      /\ curr' = curr
  BY DEF Change
<1>2. need_resched' \in BOOLEAN
  BY DEF Change
<1>3. /\ Good(rq', task')
      /\ curr' \in CPUS /\ (curr' \in Task => task'[curr'].on_rq)
  BY <1>1, RequeueGood, Zenon
<1> QED BY <1>1, <1>2, <1>3, OneTask, Zenon

(* A write that changes neither the class nor the priority nor on_rq. *)
LEMMA QuietWriteOK ==
    ASSUME IInv, NEW p \in Task, NEW t, TaskOK(t), t.on_rq = task[p].on_rq,
           t.class = task[p].class, t.prio = task[p].prio,
           task' = [task EXCEPT ![p] = t], UNCHANGED <<rq, curr, need_resched>>
    PROVE  IInv'
<1>1. SameBut(task, task', p) /\ task'[p] = t
  BY WriteOne, Zenon
<1>2. SameFiling(task, task')
  BY <1>1 DEF SameBut, SameFiling
<1>3. Good(rq', task')
  <2>1. Good(rq, task)
    BY DEF IInv
  <2> QED BY <1>2, <2>1, FrameGood
<1>4. curr' \in CPUS /\ (curr' \in Task => task'[curr'].on_rq) /\ need_resched' \in BOOLEAN
  BY <1>2 DEF IInv, SameFiling
<1> QED BY <1>3, <1>4, OneTask, Zenon

LEMMA TakeOffAndPutBackOK ==
    ASSUME IInv, NEW p \in Task, NEW flags, TakeOffAndPutBack(p, flags)
    PROVE  IInv'
<1>1. /\ rq' = Requeue(rq, task[p], task[p], p, flags, flags)
      /\ task' = task /\ curr' = curr /\ need_resched' = need_resched
  BY DEF TakeOffAndPutBack
<1>2. task' = [task EXCEPT ![p] = task[p]] /\ TaskOK(task[p])
  BY <1>1 DEF IInv
<1>3. StaysPut(task[p], task[p])
  BY DEF StaysPut
<1>4. Good(rq', task') /\ curr' \in CPUS /\ (curr' \in Task => task'[curr'].on_rq)
  BY <1>1, <1>2, <1>3, RequeueGood, Zenon
<1>5. need_resched' \in BOOLEAN
  BY <1>1 DEF IInv
<1> QED BY <1>1, <1>4, <1>5, TasksUnchanged

(* Whatever a policy change makes of a task's parameters fits together. *)
LEMMA SetschedulerOK ==
    ASSUME NEW t, TaskOK(t), NEW attr \in SchedAttr, NEW pi \in BOOLEAN,
           (attr.policy = "FIFO") = (attr.prio # 0),
           attr.policy = "FIFO" => MAX_RT_PRIO - 1 - attr.prio \in RtLevel
    PROVE  /\ TaskOK(__setscheduler(t, attr, pi))
           /\ __setscheduler(t, attr, pi).on_rq = t.on_rq
           /\ pi /\ MinOf(MAX_RT_PRIO - 1 - attr.prio, t.pi) = t.prio
              => StaysPut(t, __setscheduler(t, attr, pi))
<1> DEFINE static == IF attr.policy = "NORMAL" THEN NICE_TO_PRIO(attr.nice) ELSE t.static_prio
           normal == IF attr.policy = "FIFO" THEN MAX_RT_PRIO - 1 - attr.prio ELSE static
           prio == IF pi THEN MinOf(normal, t.pi) ELSE normal
           class == ClassOf(prio, attr.policy)
           u == __setscheduler(t, attr, pi)
<1>1. /\ t \in TaskType /\ t.pi \in RtLevel \cup TsPriority \cup {MAX_PRIO}
      /\ t.pi \in Int /\ t.prio \in Int
  BY DEF TaskOK, TaskType, MAX_PRIO
<1>2. /\ attr.policy \in Policy /\ attr.prio \in 0 .. 99
      /\ attr.nice \in Nice /\ attr.prio \in Int
  BY DEF SchedAttr
<1>3. static \in TsPriority /\ static \in Int
  BY <1>1, <1>2 DEF TaskType, TsPriority, NICE_TO_PRIO, Nice, MAX_RT_PRIO, MAX_PRIO, DEFAULT_PRIO
<1> HIDE DEF static
<1>4. normal \in RtLevel \cup TsPriority /\ normal \in 0 .. MAX_PRIO - 1 /\ normal \in Int
  BY <1>2, <1>3 DEF TsPriority, MAX_RT_PRIO, MAX_PRIO
<1>5. u = [t EXCEPT !.policy = attr.policy, !.static_prio = static,
                    !.rt_priority = attr.prio, !.normal_prio = normal,
                    !.prio = prio, !.class = class]
  <2> DEFINE a == [t EXCEPT !.policy = attr.policy, !.static_prio = static,
                            !.rt_priority = attr.prio]
             b == [a EXCEPT !.normal_prio = normal]
  <2>1. /\ a \in TaskType /\ a.policy = attr.policy /\ a.static_prio = static
        /\ a.rt_priority = attr.prio /\ a.pi = t.pi
    BY <1>1, <1>2, <1>3, Zenon DEF TaskType
  <2>2. __setscheduler_params(t, attr) = [a EXCEPT !.normal_prio = normal_prio(a)]
    BY DEF __setscheduler_params, static
  <2>3. normal_prio(a) = normal
    BY <2>1 DEF normal_prio
  <2>4. __setscheduler_params(t, attr) = b
    BY <2>2, <2>3, Zenon
  <2> HIDE DEF a
  <2>5. b.policy = attr.policy /\ b.static_prio = static /\ b.rt_priority = attr.prio /\ b.pi = t.pi
    BY <2>1 DEF TaskType
  <2>6. normal_prio(b) = normal
    BY <2>5 DEF normal_prio
  <2> HIDE DEF b, normal
  <2>7. u = [b EXCEPT !.prio = prio, !.class = class]
    BY <2>4, <2>5, <2>6 DEF __setscheduler, rt_effective_prio
  <2> QED BY <2>7 DEF a, b
<1>6. prio \in RtLevel \cup TsPriority /\ prio \in 0 .. MAX_PRIO - 1 /\ prio \in Int
  <2> HIDE DEF normal
  <2>1. CASE pi
    <3>1. MinOf(normal, t.pi) = normal \/ (MinOf(normal, t.pi) = t.pi /\ t.pi <= normal)
      BY <1>1, <1>4 DEF MinOf
    <3>2. t.pi <= normal => t.pi # MAX_PRIO /\ t.pi \in 0 .. MAX_PRIO - 1
      BY <1>1, <1>4 DEF MAX_PRIO, TaskType
    <3> QED BY <1>1, <1>4, <2>1, <3>1, <3>2
  <2> QED BY <1>4, <2>1
<1>7. class \in {"rt", "ts", "fair"} /\ class \in Class /\ (class = "ts" => attr.policy = "TS")
  BY DEF ClassOf, Class
<1>8. (class = "rt") = rt_prio(prio)
  BY <1>6 DEF ClassOf, rt_prio, MAX_RT_PRIO
<1>9. class = "rt" => prio \in RtLevel
  BY <1>6, <1>8 DEF rt_prio, TsPriority, MAX_RT_PRIO, MAX_PRIO
<1> HIDE DEF prio, class, normal
<1>10. /\ u.policy = attr.policy /\ u.class = class /\ u.prio = prio
       /\ u.normal_prio = normal /\ u.static_prio = static
       /\ u.rt_priority = attr.prio /\ u.slice = t.slice /\ u.pi = t.pi
       /\ u.state = t.state /\ u.on_rq = t.on_rq
  BY <1>1, <1>5 DEF TaskType
<1>11. u \in TaskType
  <2> DEFINE a == [t EXCEPT !.policy = attr.policy, !.static_prio = static,
                            !.rt_priority = attr.prio]
  <2>1. a \in TaskType
    BY <1>1, <1>2, <1>3, Zenon DEF TaskType
  <2>2. u = [a EXCEPT !.normal_prio = normal, !.prio = prio, !.class = class]
    BY <1>5
  <2> HIDE DEF a, u
  <2> QED BY <1>4, <1>6, <1>7, <2>1, <2>2, Zenon DEF TaskType
<1> HIDE DEF u
<1>12. normal_prio(u) = normal
  BY <1>10 DEF normal_prio, normal
<1>13. u.policy = "FIFO" => u.normal_prio \in RtLevel
  BY <1>10 DEF normal
<1>14. u.state = "new" => u.pi = MAX_PRIO /\ u.prio = normal_prio(u)
                          /\ u.class = ClassOf(u.prio, u.policy)
  <2> SUFFICES ASSUME u.state = "new"
               PROVE  u.pi = MAX_PRIO /\ u.prio = normal_prio(u)
                      /\ u.class = ClassOf(u.prio, u.policy)
    OBVIOUS
  <2>1. t.pi = MAX_PRIO
    BY <1>10 DEF TaskOK
  <2>2. prio = normal
    BY <1>4, <2>1 DEF prio, MinOf, MAX_PRIO
  <2> QED BY <1>10, <1>12, <2>1, <2>2 DEF class
<1>15. TaskOK(u)
  BY <1>1, <1>7, <1>8, <1>9, <1>10, <1>11, <1>12, <1>13, <1>14 DEF TaskOK
<1>16. ASSUME pi, MinOf(MAX_RT_PRIO - 1 - attr.prio, t.pi) = t.prio PROVE StaysPut(t, u)
  <2>1. t.prio <= 99 /\ t.class = "rt" /\ t.prio \in 0 .. 98
    <3>1. t.prio <= 99
      BY <1>1, <1>2, <1>16 DEF MinOf, MAX_RT_PRIO
    <3>2. t.class = "rt" /\ t.prio \in RtLevel
      BY <1>1, <3>1 DEF TaskOK, rt_prio, MAX_RT_PRIO
    <3>3. RtLevel \subseteq 0 .. 98
      BY EnvAssumption DEF MAX_RT_PRIO
    <3> QED BY <3>1, <3>2, <3>3, Zenon
  <2>2. prio = t.prio
    <3>1. CASE attr.policy = "FIFO"
      BY <1>16, <3>1 DEF prio, normal
    <3>2. CASE attr.policy # "FIFO"
      <4>1. attr.prio = 0 /\ normal = static
        BY <3>2 DEF normal
      <4>2. t.pi = t.prio
        BY <1>1, <1>16, <2>1, <4>1 DEF MinOf, MAX_RT_PRIO
      <4> QED BY <1>1, <1>3, <1>16, <2>1, <4>1, <4>2 DEF prio, MinOf, TsPriority, MAX_RT_PRIO, MAX_PRIO
    <3> QED BY <3>1, <3>2
  <2>3. class = "rt"
    BY <1>8, <2>1, <2>2 DEF rt_prio, MAX_RT_PRIO
  <2> QED BY <1>10, <2>1, <2>2, <2>3 DEF StaysPut
<1> QED BY <1>10, <1>15, <1>16 DEF u

LEMMA SchedSetschedulerOK ==
    ASSUME IInv, NEW p \in Task, NEW attr \in SchedAttr, NEW pi \in BOOLEAN,
           (attr.policy = "FIFO") = (attr.prio # 0),
           attr.policy = "FIFO" => MAX_RT_PRIO - 1 - attr.prio \in RtLevel,
           __sched_setscheduler(p, attr, pi)
    PROVE  IInv'
<1> DEFINE told == [task[p] EXCEPT !.reset = attr.reset]
           tnew == __setscheduler(told, attr, pi)
           newprio == MAX_RT_PRIO - 1 - attr.prio
           d == IF pi /\ rt_effective_prio(told, newprio) = told.prio
                THEN {"SAVE"} ELSE {"SAVE", "MOVE"}
           e == IF told.prio < tnew.prio THEN d \cup {"HEAD"} ELSE d
<1>1. TaskOK(task[p]) /\ task[p] \in TaskType /\ attr.reset \in BOOLEAN
  BY CurrOK DEF SchedAttr
<1>2. /\ told.policy = task[p].policy /\ told.class = task[p].class
      /\ told.prio = task[p].prio /\ told.normal_prio = task[p].normal_prio
      /\ told.static_prio = task[p].static_prio /\ told.rt_priority = task[p].rt_priority
      /\ told.slice = task[p].slice /\ told.pi = task[p].pi
      /\ told.state = task[p].state /\ told.on_rq = task[p].on_rq
  BY <1>1 DEF TaskType
<1>3. told \in TaskType
  BY <1>1 DEF TaskType
<1>4. \/ task' = [task EXCEPT ![p] = told] /\ UNCHANGED <<rq, curr, need_resched>>
      \/ Change(p, tnew, d, e)
  BY DEF __sched_setscheduler
<1> HIDE DEF told
<1>5. TaskOK(told)
  <2>1. normal_prio(told) = normal_prio(task[p])
    BY <1>2 DEF normal_prio
  <2> QED BY <1>1, <1>2, <1>3, <2>1 DEF TaskOK
<1>6. /\ TaskOK(tnew) /\ tnew.on_rq = told.on_rq
      /\ pi /\ MinOf(newprio, told.pi) = told.prio => StaysPut(told, tnew)
  BY <1>2, <1>5, SetschedulerOK
<1>7. CASE task' = [task EXCEPT ![p] = told] /\ UNCHANGED <<rq, curr, need_resched>>
  BY <1>2, <1>5, <1>7, QuietWriteOK, Zenon
<1> HIDE DEF tnew, newprio
<1>8. CASE Change(p, tnew, d, e)
  <2>1. move_entity(d) = move_entity(e)
    BY DEF move_entity
  <2>2. ~move_entity(d) => StaysPut(task[p], tnew)
    <3>1. ~move_entity(d) => pi /\ MinOf(newprio, told.pi) = told.prio
      BY DEF move_entity, rt_effective_prio
    <3> QED BY <1>2, <1>6, <3>1 DEF StaysPut
  <2> HIDE DEF d, e
  <2> QED BY <1>2, <1>6, <1>8, <2>1, <2>2, ChangeOK
<1> QED BY <1>4, <1>7, <1>8

LEMMA SetUserNiceOK ==
    ASSUME IInv, NEW p \in Task, NEW nice \in Nice, set_user_nice(p, nice)
    PROVE  IInv'
<1> DEFINE t == task[p]
           static == NICE_TO_PRIO(nice)
           renice == [t EXCEPT !.static_prio = static]
           tnew == [renice EXCEPT !.normal_prio = normal_prio(renice),
                                  !.prio = effective_prio(renice)]
<1>1. TaskOK(t) /\ t \in TaskType
  BY CurrOK
<1>2. static \in TsPriority
  BY DEF TsPriority, NICE_TO_PRIO, Nice, MAX_RT_PRIO, MAX_PRIO, DEFAULT_PRIO
<1>0. curr' = curr /\ need_resched \in BOOLEAN
  BY DEF set_user_nice, IInv
<1> HIDE DEF static
<1>3. /\ renice.policy = t.policy /\ renice.class = t.class /\ renice.prio = t.prio
      /\ renice.normal_prio = t.normal_prio /\ renice.static_prio = static
      /\ renice.rt_priority = t.rt_priority /\ renice.slice = t.slice /\ renice.pi = t.pi
      /\ renice.state = t.state /\ renice.on_rq = t.on_rq /\ renice \in TaskType
  BY <1>1, <1>2 DEF TaskType
<1>4. CASE t.policy = "FIFO"
  <2>1. task' = [task EXCEPT ![p] = renice] /\ rq' = rq /\ need_resched' = need_resched
    BY <1>4 DEF set_user_nice, static
  <2> HIDE DEF renice
  <2>2. TaskOK(renice)
    <3>1. normal_prio(renice) = normal_prio(t)
      BY <1>3, <1>4 DEF normal_prio
    <3> QED BY <1>1, <1>3, <3>1 DEF TaskOK
  <2> QED BY <1>0, <1>3, <2>1, <2>2, QuietWriteOK, Zenon
<1>5. CASE t.policy # "FIFO"
  <2>1. /\ task' = [task EXCEPT ![p] = tnew]
        /\ rq' = Requeue(rq, t, tnew, p, {"SAVE"}, {"SAVE"})
    BY <1>5 DEF set_user_nice, static
  <2>2. need_resched' \in BOOLEAN
    BY <1>0, <1>5 DEF set_user_nice
  <2> HIDE DEF renice
  <2> DEFINE prio == IF rt_prio(t.prio) THEN t.prio ELSE static
  <2>3. normal_prio(renice) = static /\ effective_prio(renice) = prio
    BY <1>3, <1>5 DEF normal_prio, effective_prio
  <2>4. tnew = [renice EXCEPT !.normal_prio = static, !.prio = prio]
    BY <2>3
  <2>5. static \in 0 .. MAX_PRIO - 1 /\ prio \in 0 .. MAX_PRIO - 1
    BY <1>1, <1>2 DEF TaskType, TsPriority, MAX_RT_PRIO, MAX_PRIO
  <2>6. rt_prio(prio) = rt_prio(t.prio)
    BY <1>1, <1>2 DEF rt_prio, TsPriority, MAX_RT_PRIO, MAX_PRIO
  <2>7. ~rt_prio(t.prio) => prio = static
    OBVIOUS
  <2>8. rt_prio(t.prio) => prio = t.prio
    OBVIOUS
  <2> HIDE DEF prio
  <2>9. /\ tnew.policy = t.policy /\ tnew.class = t.class /\ tnew.prio = prio
        /\ tnew.normal_prio = static /\ tnew.static_prio = static
        /\ tnew.rt_priority = t.rt_priority /\ tnew.slice = t.slice /\ tnew.pi = t.pi
        /\ tnew.state = t.state /\ tnew.on_rq = t.on_rq
    BY <1>3, <2>4, Zenon DEF TaskType
  <2>10. tnew \in TaskType
    BY <1>3, <2>4, <2>5, Zenon DEF TaskType
  <2> HIDE DEF tnew
  <2>11. normal_prio(tnew) = static
    BY <1>5, <2>9 DEF normal_prio
  <2>12. tnew.class = "rt" => tnew.prio \in RtLevel
    BY <1>1, <2>8, <2>9, Zenon DEF TaskOK
  <2>13. tnew.state = "new" => /\ tnew.pi = MAX_PRIO /\ tnew.prio = normal_prio(tnew)
                               /\ tnew.class = ClassOf(tnew.prio, tnew.policy)
    <3> SUFFICES ASSUME t.state = "new"
                 PROVE  /\ tnew.pi = MAX_PRIO /\ tnew.prio = normal_prio(tnew)
                        /\ tnew.class = ClassOf(tnew.prio, tnew.policy)
      BY <2>9
    <3>1. t.pi = MAX_PRIO /\ t.prio = normal_prio(t) /\ t.class = ClassOf(t.prio, t.policy)
      BY <1>1 DEF TaskOK
    <3>2. ~rt_prio(t.prio)
      BY <1>1, <1>5, <3>1 DEF normal_prio, rt_prio, TaskType, TsPriority, MAX_RT_PRIO, MAX_PRIO
    <3>3. ClassOf(prio, t.policy) = ClassOf(t.prio, t.policy)
      BY <2>6 DEF ClassOf
    <3> QED BY <2>7, <2>9, <2>11, <3>1, <3>2, <3>3
  <2>14. TaskOK(tnew)
    BY <1>1, <1>5, <2>6, <2>9, <2>10, <2>11, <2>12, <2>13 DEF TaskOK
  <2>15. StaysPut(t, tnew)
    BY <1>1, <2>8, <2>9, Zenon DEF StaysPut, TaskOK
  <2>16. move_entity({"SAVE"}) = move_entity({"SAVE"})
    OBVIOUS
  <2>17. Good(rq', task') /\ curr' \in CPUS /\ (curr' \in Task => task'[curr'].on_rq)
    BY <1>0, <2>1, <2>9, <2>14, <2>15, <2>16, RequeueGood, Zenon
  <2> QED BY <2>1, <2>2, <2>14, <2>17, OneTask, Zenon
<1> QED BY <1>4, <1>5

LEMMA RtMutexSetprioOK ==
    ASSUME IInv, NEW p \in Task, NEW donor \in RtLevel \cup TsPriority \cup {MAX_PRIO},
           rt_mutex_setprio(p, donor)
    PROVE  IInv'
<1> DEFINE told == [task[p] EXCEPT !.pi = donor]
           prio == MinOf(told.normal_prio, donor)
           class == IF rt_prio(prio) THEN "rt" ELSE "fair"
           tnew == [told EXCEPT !.prio = prio, !.class = class]
           d == {"SAVE", "MOVE"}
           e == IF rt_prio(prio) /\ told.prio < prio THEN d \cup {"HEAD"} ELSE d
<1>1. TaskOK(task[p]) /\ task[p] \in TaskType
  BY CurrOK
<1>2. donor \in 0 .. MAX_PRIO /\ donor \in Int
  <2>1. RtLevel \subseteq 0 .. 98
    BY EnvAssumption DEF MAX_RT_PRIO
  <2> QED BY <2>1 DEF TsPriority, MAX_RT_PRIO, MAX_PRIO
<1>3. /\ told.policy = task[p].policy /\ told.class = task[p].class
      /\ told.prio = task[p].prio /\ told.normal_prio = task[p].normal_prio
      /\ told.static_prio = task[p].static_prio /\ told.rt_priority = task[p].rt_priority
      /\ told.slice = task[p].slice /\ told.pi = donor
      /\ told.state = task[p].state /\ told.on_rq = task[p].on_rq /\ told \in TaskType
  BY <1>1, <1>2 DEF TaskType
<1>4. /\ told.state \notin {"dead", "new"}
      /\ \/ task' = [task EXCEPT ![p] = told] /\ UNCHANGED <<rq, curr, need_resched>>
         \/ Change(p, tnew, d, e)
  BY DEF rt_mutex_setprio
<1> HIDE DEF told
<1>5. normal_prio(told) = normal_prio(task[p])
  BY <1>3 DEF normal_prio
<1>6. TaskOK(told)
  BY <1>1, <1>3, <1>4, <1>5 DEF TaskOK
<1>7. /\ prio \in 0 .. MAX_PRIO - 1 /\ prio \in Int
      /\ prio = donor \/ prio = told.normal_prio
  <2>1. told.normal_prio \in 0 .. MAX_PRIO - 1
    BY <1>3 DEF TaskType
  <2> QED BY <1>2, <2>1 DEF MinOf, MAX_PRIO
<1>8. rt_prio(prio) => prio \in RtLevel
  <2> SUFFICES ASSUME rt_prio(prio) PROVE prio \in RtLevel
    OBVIOUS
  <2>1. CASE prio = donor
    BY <2>1 DEF rt_prio, TsPriority, MAX_RT_PRIO, MAX_PRIO
  <2>2. CASE prio = told.normal_prio
    <3>1. told.normal_prio < 100
      BY <2>2 DEF rt_prio, MAX_RT_PRIO
    <3>2. told.policy = "FIFO"
      BY <1>6, <3>1 DEF TaskOK, normal_prio, TaskType, TsPriority, MAX_RT_PRIO, MAX_PRIO
    <3> QED BY <1>6, <2>2, <3>2 DEF TaskOK
  <2> QED BY <1>7, <2>1, <2>2
<1>9. class \in {"rt", "fair"} /\ class \in Class /\ (class = "rt") = rt_prio(prio)
  BY <1>7 DEF Class, rt_prio, MAX_RT_PRIO
<1> HIDE DEF prio, class
<1>10. /\ tnew.policy = told.policy /\ tnew.class = class /\ tnew.prio = prio
       /\ tnew.normal_prio = told.normal_prio /\ tnew.static_prio = told.static_prio
       /\ tnew.rt_priority = told.rt_priority /\ tnew.slice = told.slice
       /\ tnew.pi = told.pi /\ tnew.state = told.state /\ tnew.on_rq = told.on_rq
       /\ tnew \in TaskType
  BY <1>3, <1>7, <1>9, Zenon DEF TaskType
<1> HIDE DEF tnew
<1>11. normal_prio(tnew) = normal_prio(told)
  BY <1>10 DEF normal_prio
<1>12. TaskOK(tnew)
  BY <1>4, <1>6, <1>8, <1>9, <1>10, <1>11, Zenon DEF TaskOK
<1>13. CASE task' = [task EXCEPT ![p] = told] /\ UNCHANGED <<rq, curr, need_resched>>
  BY <1>3, <1>6, <1>13, QuietWriteOK, Zenon
<1>14. CASE Change(p, tnew, d, e)
  <2>1. move_entity(d) /\ move_entity(e) /\ move_entity(d) = move_entity(e)
    BY DEF move_entity
  <2> HIDE DEF d, e
  <2> QED BY <1>3, <1>10, <1>12, <1>14, <2>1, ChangeOK, Zenon
<1> QED BY <1>4, <1>13, <1>14

LEMMA NormalizeOK == ASSUME IInv, NEW p \in Task, normalize_rt_task(p) PROVE IInv'
<1> DEFINE attr == [policy |-> "NORMAL", prio |-> 0, nice |-> 0, reset |-> FALSE]
<1>1. attr \in SchedAttr /\ attr.policy = "NORMAL" /\ attr.prio = 0 /\ 0 \in Nice
  BY DEF SchedAttr, Policy, Nice
<1>2. CASE rt_prio(task[p].prio)
  <2>1. __sched_setscheduler(p, attr, FALSE)
    BY <1>2, Zenon DEF normalize_rt_task
  <2>2. (attr.policy = "FIFO") = (attr.prio # 0)
    BY <1>1
  <2> HIDE DEF attr
  <2> QED BY <1>1, <2>1, <2>2, SchedSetschedulerOK, Zenon
<1>3. CASE ~rt_prio(task[p].prio)
  BY <1>1, <1>3, SetUserNiceOK DEF normalize_rt_task
<1> QED BY <1>2, <1>3

LEMMA RequestsOK ==
    ASSUME IInv, \/ \E r \in SchedRequest : sched_setscheduler(r[1], r[2])
                 \/ \E r \in NiceRequest : set_user_nice(r[1], r[2])
                 \/ \E r \in DonorRequest : rt_mutex_setprio(r[1], r[2])
    PROVE  IInv'
<1>1. ASSUME NEW r \in SchedRequest, sched_setscheduler(r[1], r[2]) PROVE IInv'
  <2> DEFINE p == r[1]
             attr == r[2]
  <2>1. /\ p \in Task /\ attr \in SchedAttr
        /\ (attr.policy = "FIFO") = (attr.prio # 0)
        /\ attr.policy = "FIFO" => MAX_RT_PRIO - 1 - attr.prio \in RtLevel
    BY EnvAssumption
  <2>2. __sched_setscheduler(p, attr, TRUE)
    BY <1>1, Zenon DEF sched_setscheduler
  <2> HIDE DEF p, attr
  <2> QED BY <2>1, <2>2, SchedSetschedulerOK, Zenon
<1>2. ASSUME NEW r \in NiceRequest, set_user_nice(r[1], r[2]) PROVE IInv'
  <2>1. r[1] \in Task /\ r[2] \in Nice
    BY EnvAssumption
  <2> QED BY <1>2, <2>1, SetUserNiceOK
<1>3. ASSUME NEW r \in DonorRequest, rt_mutex_setprio(r[1], r[2]) PROVE IInv'
  <2>1. r[1] \in Task /\ r[2] \in RtLevel \cup TsPriority \cup {MAX_PRIO}
    BY EnvAssumption
  <2> QED BY <1>3, <2>1, RtMutexSetprioOK
<1> QED BY <1>1, <1>2, <1>3

LEMMA NextIInv == ASSUME IInv, [Next]_vars PROVE IInv'
<1>1. CASE PrepareToSleep
  BY <1>1, PrepareToSleepOK
<1>2. CASE Block
  BY <1>2, BlockOK
<1>3. CASE Preempt
  BY <1>3, PreemptOK
<1>4. CASE do_sched_yield
  BY <1>4, YieldOK
<1>5. CASE do_task_dead
  BY <1>5, DeadOK
<1>6. CASE scheduler_tick
  BY <1>6, TickOK
<1>7. ASSUME NEW p \in Task, try_to_wake_up(p) \/ wake_up_new_task(p) \/ sched_fork(p)
      PROVE  IInv'
  BY <1>7, WakeUpOK, WakeNewOK, ForkOK
<1>8. ASSUME NEW p \in Movers, sched_setnuma(p) \/ sched_move_task(p) \/ normalize_rt_task(p)
      PROVE  IInv'
  <2>1. p \in Task
    BY EnvAssumption
  <2>2. CASE sched_setnuma(p) \/ sched_move_task(p)
    BY <2>1, <2>2, TakeOffAndPutBackOK DEF sched_setnuma, sched_move_task
  <2>3. CASE normalize_rt_task(p)
    BY <2>1, <2>3, NormalizeOK
  <2> QED BY <1>8, <2>2, <2>3
<1>9. CASE UNCHANGED vars
  BY <1>9 DEF vars, IInv
<1> QED BY <1>1, <1>2, <1>3, <1>4, <1>5, <1>6, <1>7, <1>8, <1>9, RequestsOK DEF Next

(***************************************************************************)
(* The theorems.                                                           *)
(***************************************************************************)

(* The inductive invariant holds in every reachable state, for every set   *)
(* of tasks, of requests and of RT levels.                                 *)
THEOREM Invariance == Spec => []IInv
<1>1. Init => IInv
  BY InitIInv
<1>2. IInv /\ [Next]_vars => IInv'
  BY NextIInv
<1> QED BY <1>1, <1>2, PTL DEF Spec

(* Type correctness of the run queue and the task_structs. *)
THEOREM TypeCorrect == Spec => []TypeOK
<1>1. IInv => TypeOK
  BY IInvImplies
<1> QED BY <1>1, Invariance, PTL

(* Every queued task is linked exactly once, in the queue of its class,    *)
(* and nothing else is linked (ts.c:73-100, rt.c:1212-1349).               *)
THEOREM QueuesExact == Spec => []FiledOnce
<1>1. IInv => FiledOnce
  BY IInvImplies
<1> QED BY <1>1, Invariance, PTL

(* Every queued RT task is at the level of its priority (rt.c:1212).       *)
THEOREM RtLevelExact == Spec => []RtAtItsPrio
<1>1. IInv => RtAtItsPrio
  BY IInvImplies
<1> QED BY <1>1, Invariance, PTL

(* The slice of task_tick_ts never wraps around (ts.c:168).                *)
THEOREM SliceNeverWraps == Spec => []SliceInRange
<1>1. IInv => SliceInRange
  BY IInvImplies
<1> QED BY <1>1, Invariance, PTL

(* nr_running counts the queued RT and fair tasks and no TS task           *)
(* (sched.h:1706-1724, and ts.c, which never calls it).                    *)
THEOREM NrRunningExact == Spec => []NrRunningCounts
<1>1. IInv => NrRunningCounts
  BY IInvImplies
<1> QED BY <1>1, Invariance, PTL

(* A forked task stays clean until its first wakeup (core.c:2297-2377).    *)
THEOREM NewTasksClean == Spec => []NewTaskIsClean
<1>1. IInv => NewTaskIsClean
  BY IInvImplies
<1> QED BY <1>1, Invariance, PTL
=============================================================================

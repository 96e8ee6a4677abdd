--------------------------- MODULE TsQueueProofs ----------------------------
(***************************************************************************)
(* Queueing and unqueueing a task of TsSched, for every set of tasks and   *)
(* every set of priority levels.                                           *)
(***************************************************************************)
EXTENDS TsSched, KListProofs, FiniteSetTheorems, TLAPS

(***************************************************************************)
(* The priority arithmetic.                                                *)
(***************************************************************************)

(* get_new_prio never leaves the TS priorities, whatever it is given. *)
LEMMA NewPrioRange ==
    ASSUME NEW prio \in Int, NEW type
    PROVE  get_new_prio(prio, type) \in TsPriority
BY DEF get_new_prio, ExpiredLevel, WokenLevel, Level, TsPriority,
       MAX_TS_LEVEL, MAX_RT_PRIO, MAX_PRIO, EXPIRED

(* Every TS priority has a slice of 4, 8, 12 or 16 ticks. *)
LEMMA NumTicksRange ==
    ASSUME NEW prio \in TsPriority
    PROVE  get_num_ticks(prio) \in {4, 8, 12, 16}
BY DEF get_num_ticks, Level, TsPriority, MAX_RT_PRIO, MAX_PRIO

(***************************************************************************)
(* A run queue r holds exactly the queued tasks of tk.                     *)
(***************************************************************************)
Queued(tk, class) == {p \in Task : tk[p].on_rq /\ tk[p].class = class}
Count(tk) == Cardinality(Queued(tk, "fair")) + Cardinality(Queued(tk, "rt"))

Good(r, tk) ==
    /\ r \in RqType
    /\ Apart(r.ts)
    /\ Apart(r.rt)
    /\ \A p \in Task :
           (\E i \in 0 .. MAX_TS_LEVEL : In(r.ts[i], p)) <=> p \in Queued(tk, "ts")
    /\ \A p \in Task : \A i \in RtLevel :
           In(r.rt[i], p) <=> p \in Queued(tk, "rt") /\ tk[p].prio = i
    /\ r.cfs = Queued(tk, "fair")
    /\ r.nr_running = Count(tk)

(* What a queueing operation needs of the parameters it is given. *)
Queueable(t) ==
    /\ t.class \in {"rt", "ts", "fair"}
    /\ t.class = "ts" => t.prio \in TsPriority
    /\ t.class = "rt" => t.prio \in RtLevel

(* tk and tk2 differ at most in p. *)
SameBut(tk, tk2, p) == \A q \in Task : q # p => tk2[q] = tk[q]

LEMMA QueuedFinite ==
    ASSUME NEW tk, NEW class
    PROVE  IsFiniteSet(Queued(tk, class)) /\ Cardinality(Queued(tk, class)) \in Nat
<1>1. Queued(tk, class) \subseteq Task /\ IsFiniteSet(Task)
  BY EnvAssumption DEF Queued
<1> QED BY <1>1, FS_Subset, FS_CardinalityType

LEMMA DequeueGood ==
    ASSUME NEW r, NEW tk, NEW tk2, NEW p \in Task, NEW flags,
           Good(r, tk), SameBut(tk, tk2, p), move_entity(flags),
           tk[p].on_rq, tk[p].class \in {"rt", "ts", "fair"}, tk2[p].on_rq = FALSE
    PROVE  Good(dequeue_task(r, tk[p], p, flags), tk2)
<1> DEFINE d == dequeue_task(r, tk[p], p, flags)
           ts == r.ts
           rt == r.rt
<1>0. /\ r \in RqType /\ r.cfs \in SUBSET Task /\ r.nr_running \in Int
      /\ ts \in [0 .. MAX_TS_LEVEL -> Seq(Task)] /\ rt \in [RtLevel -> Seq(Task)]
      /\ Apart(ts) /\ Apart(rt)
  BY DEF Good, RqType
<1> HIDE DEF ts, rt
<1>a. /\ list_del(ts, p) \in [0 .. MAX_TS_LEVEL -> Seq(Task)] /\ Apart(list_del(ts, p))
      /\ \A i \in 0 .. MAX_TS_LEVEL : \A q : In(list_del(ts, p)[i], q) <=> In(ts[i], q) /\ q # p
  BY <1>0, ListDel, Zenon
<1>b. /\ list_del(rt, p) \in [RtLevel -> Seq(Task)] /\ Apart(list_del(rt, p))
      /\ \A i \in RtLevel : \A q : In(list_del(rt, p)[i], q) <=> In(rt[i], q) /\ q # p
  BY <1>0, ListDel, Zenon
<1>1. CASE tk[p].class = "ts"
  <2>1. d = [r EXCEPT !.ts = list_del(ts, p)]
    BY <1>1 DEF dequeue_task, dequeue_task_ts, ts
  <2>2. d \in RqType /\ d.ts = list_del(ts, p) /\ d.rt = rt /\ d.cfs = r.cfs
        /\ d.nr_running = r.nr_running
    BY <1>0, <1>a, <2>1, Zenon DEF RqType, rt
  <2>3. /\ Queued(tk2, "ts") = Queued(tk, "ts") \ {p}
        /\ Queued(tk2, "rt") = Queued(tk, "rt") /\ p \notin Queued(tk, "rt")
        /\ Queued(tk2, "fair") = Queued(tk, "fair")
    BY <1>1 DEF Queued, SameBut
  <2> HIDE DEF d
  <2>4. ASSUME NEW q \in Task
        PROVE  (\E i \in 0 .. MAX_TS_LEVEL : In(d.ts[i], q)) <=> q \in Queued(tk2, "ts")
    BY <1>a, <2>2, <2>3, Zenon DEF Good, ts
  <2>5. ASSUME NEW q \in Task, NEW i \in RtLevel
        PROVE  In(d.rt[i], q) <=> q \in Queued(tk2, "rt") /\ tk2[q].prio = i
    BY <2>2, <2>3 DEF Good, rt, SameBut
  <2>6. d.cfs = Queued(tk2, "fair")
    BY <2>2, <2>3 DEF Good
  <2>c. d.nr_running = Count(tk2)
    BY <2>2, <2>3 DEF Good, Count
  <2>7. Good(d, tk2)
    BY <2>c, <1>0, <1>a, <2>2, <2>4, <2>5, <2>6 DEF Good
  <2> QED BY <2>7 DEF d
<1>2. CASE tk[p].class = "rt"
  <2>1. d = [r EXCEPT !.rt = list_del(rt, p), !.nr_running = @ - 1]
    BY <1>2 DEF dequeue_task, dequeue_task_rt, rt
  <2>a. d = [ts |-> ts, rt |-> list_del(rt, p), cfs |-> r.cfs,
             nr_running |-> r.nr_running - 1]
    BY <1>0, <2>1, Zenon DEF RqType, ts
  <2>2. d \in RqType /\ d.rt = list_del(rt, p) /\ d.ts = ts /\ d.cfs = r.cfs
        /\ d.nr_running = r.nr_running - 1
    BY <1>0, <1>b, <2>a DEF RqType
  <2>3. /\ Queued(tk2, "rt") = Queued(tk, "rt") \ {p}
        /\ Queued(tk2, "ts") = Queued(tk, "ts")
        /\ Queued(tk2, "fair") = Queued(tk, "fair")
    BY <1>2 DEF Queued, SameBut
  <2> HIDE DEF d
  <2>4. ASSUME NEW q \in Task
        PROVE  (\E i \in 0 .. MAX_TS_LEVEL : In(d.ts[i], q)) <=> q \in Queued(tk2, "ts")
    BY <2>2, <2>3 DEF Good, ts
  <2>5. ASSUME NEW q \in Task, NEW i \in RtLevel
        PROVE  In(d.rt[i], q) <=> q \in Queued(tk2, "rt") /\ tk2[q].prio = i
    <3>1. In(d.rt[i], q) <=> In(rt[i], q) /\ q # p
      BY <1>b, <2>2
    <3>2. In(rt[i], q) <=> q \in Queued(tk, "rt") /\ tk[q].prio = i
      BY DEF Good, rt
    <3> QED BY <2>3, <3>1, <3>2 DEF SameBut
  <2>6. d.cfs = Queued(tk2, "fair")
    BY <2>2, <2>3 DEF Good
  <2>c. d.nr_running = Count(tk2)
    <3>1. p \in Queued(tk, "rt")
      BY <1>2 DEF Queued
    <3>2. Cardinality(Queued(tk2, "rt")) = Cardinality(Queued(tk, "rt")) - 1
      BY <2>3, <3>1, QueuedFinite, FS_RemoveElement
    <3> QED BY <2>2, <2>3, <3>2, QueuedFinite DEF Good, Count
  <2>7. Good(d, tk2)
    BY <2>c, <1>0, <1>b, <2>2, <2>4, <2>5, <2>6 DEF Good
  <2> QED BY <2>7 DEF d
<1>3. CASE tk[p].class = "fair"
  <2>1. d = [r EXCEPT !.cfs = @ \ {p}, !.nr_running = @ - 1]
    BY <1>3 DEF dequeue_task, dequeue_task_fair
  <2>a. d = [ts |-> ts, rt |-> rt, cfs |-> r.cfs \ {p},
             nr_running |-> r.nr_running - 1]
    BY <1>0, <2>1, Zenon DEF RqType, rt, ts
  <2>2. d \in RqType /\ d.rt = rt /\ d.ts = ts /\ d.cfs = r.cfs \ {p}
        /\ d.nr_running = r.nr_running - 1
    BY <1>0, <2>a DEF RqType
  <2>3. /\ Queued(tk2, "fair") = Queued(tk, "fair") \ {p}
        /\ Queued(tk2, "ts") = Queued(tk, "ts")
        /\ Queued(tk2, "rt") = Queued(tk, "rt") /\ p \notin Queued(tk, "rt")
    BY <1>3 DEF Queued, SameBut
  <2> HIDE DEF d
  <2>4. ASSUME NEW q \in Task
        PROVE  (\E i \in 0 .. MAX_TS_LEVEL : In(d.ts[i], q)) <=> q \in Queued(tk2, "ts")
    BY <2>2, <2>3 DEF Good, ts
  <2>5. ASSUME NEW q \in Task, NEW i \in RtLevel
        PROVE  In(d.rt[i], q) <=> q \in Queued(tk2, "rt") /\ tk2[q].prio = i
    BY <2>2, <2>3 DEF Good, rt, SameBut
  <2>6. d.cfs = Queued(tk2, "fair")
    BY <2>2, <2>3 DEF Good
  <2>c. d.nr_running = Count(tk2)
    <3>1. p \in Queued(tk, "fair")
      BY <1>3 DEF Queued
    <3>2. Cardinality(Queued(tk2, "fair")) = Cardinality(Queued(tk, "fair")) - 1
      BY <2>3, <3>1, QueuedFinite, FS_RemoveElement
    <3> QED BY <2>2, <2>3, <3>2, QueuedFinite DEF Good, Count
  <2>7. Good(d, tk2)
    BY <2>c, <1>0, <2>2, <2>4, <2>5, <2>6 DEF Good
  <2> QED BY <2>7 DEF d
<1> QED BY <1>1, <1>2, <1>3

LEMMA EnqueueGood ==
    ASSUME NEW r, NEW tk, NEW tk2, NEW p \in Task, NEW t, NEW flags,
           Good(r, tk), SameBut(tk, tk2, p), move_entity(flags),
           tk[p].on_rq = FALSE, Queueable(t),
           tk2[p].on_rq, tk2[p].class = t.class, t.class = "rt" => tk2[p].prio = t.prio
    PROVE  Good(enqueue_task(r, t, p, flags), tk2)
<1> DEFINE d == enqueue_task(r, t, p, flags)
           ts == r.ts
           rt == r.rt
<1>0. /\ r \in RqType /\ r.cfs \in SUBSET Task /\ r.nr_running \in Int
      /\ ts \in [0 .. MAX_TS_LEVEL -> Seq(Task)] /\ rt \in [RtLevel -> Seq(Task)]
      /\ Apart(ts) /\ Apart(rt)
  BY DEF Good, RqType
<1>1. /\ Absent(ts, p) /\ Absent(rt, p)
      /\ p \notin Queued(tk, "ts") /\ p \notin Queued(tk, "rt")
  BY <1>0, Zenon DEF Good, Queued, Absent
<1> HIDE DEF ts, rt
<1>2. CASE t.class = "ts"
  <2> DEFINE l == Level(t.prio)
             b == list_add_tail(ts, l, p)
  <2>1. l \in 0 .. MAX_TS_LEVEL
    BY <1>2 DEF Queueable, Level, TsPriority, MAX_TS_LEVEL, MAX_RT_PRIO, MAX_PRIO
  <2>2. d = [r EXCEPT !.ts = b]
    BY <1>2 DEF enqueue_task, enqueue_task_ts, ts
  <2> HIDE DEF l
  <2>3. /\ b \in [0 .. MAX_TS_LEVEL -> Seq(Task)] /\ Apart(b)
        /\ \A i \in 0 .. MAX_TS_LEVEL : \A q : In(b[i], q) <=> In(ts[i], q) \/ (i = l /\ q = p)
    BY <1>0, <1>1, <2>1, ListAddTail, Zenon
  <2> HIDE DEF b
  <2>4. d \in RqType /\ d.ts = b /\ d.rt = rt /\ d.cfs = r.cfs
        /\ d.nr_running = r.nr_running
    BY <1>0, <2>2, <2>3, Zenon DEF RqType, rt
  <2>5. /\ Queued(tk2, "ts") = Queued(tk, "ts") \cup {p}
        /\ Queued(tk2, "rt") = Queued(tk, "rt")
        /\ Queued(tk2, "fair") = Queued(tk, "fair")
    BY <1>2 DEF Queued, SameBut
  <2> HIDE DEF d
  <2>6. ASSUME NEW q \in Task
        PROVE  (\E i \in 0 .. MAX_TS_LEVEL : In(d.ts[i], q)) <=> q \in Queued(tk2, "ts")
    BY <2>1, <2>3, <2>4, <2>5 DEF Good, ts
  <2>7. ASSUME NEW q \in Task, NEW i \in RtLevel
        PROVE  In(d.rt[i], q) <=> q \in Queued(tk2, "rt") /\ tk2[q].prio = i
    BY <1>1, <2>4, <2>5 DEF Good, rt, SameBut
  <2>8. d.cfs = Queued(tk2, "fair")
    BY <2>4, <2>5 DEF Good
  <2>c. d.nr_running = Count(tk2)
    BY <2>4, <2>5 DEF Good, Count
  <2>9. Good(d, tk2)
    BY <2>c, <1>0, <2>3, <2>4, <2>6, <2>7, <2>8 DEF Good
  <2> QED BY <2>9 DEF d
<1>3. CASE t.class = "rt"
  <2> DEFINE b == IF "HEAD" \in flags THEN list_add(rt, t.prio, p)
                                      ELSE list_add_tail(rt, t.prio, p)
  <2>1. t.prio \in RtLevel
    BY <1>3 DEF Queueable
  <2>2. d = [r EXCEPT !.rt = b, !.nr_running = @ + 1]
    BY <1>3 DEF enqueue_task, enqueue_task_rt, rt
  <2>3. /\ b \in [RtLevel -> Seq(Task)] /\ Apart(b)
        /\ \A i \in RtLevel : \A q : In(b[i], q) <=> In(rt[i], q) \/ (i = t.prio /\ q = p)
    <3> DEFINE i0 == t.prio
               add == list_add(rt, i0, p)
               tail == list_add_tail(rt, i0, p)
    <3>1. b = add \/ b = tail
      OBVIOUS
    <3>a. i0 \in RtLevel
      BY <2>1
    <3> HIDE DEF b, i0
    <3>2. /\ add \in [RtLevel -> Seq(Task)] /\ Apart(add)
          /\ \A i \in RtLevel : \A q : In(add[i], q) <=> In(rt[i], q) \/ (i = i0 /\ q = p)
      BY <1>0, <1>1, <3>a, ListAddHead, Zenon
    <3>3. /\ tail \in [RtLevel -> Seq(Task)] /\ Apart(tail)
          /\ \A i \in RtLevel : \A q : In(tail[i], q) <=> In(rt[i], q) \/ (i = i0 /\ q = p)
      BY <1>0, <1>1, <3>a, ListAddTail, Zenon
    <3> QED BY <3>1, <3>2, <3>3, Zenon DEF i0
  <2> HIDE DEF b
  <2>a. d = [ts |-> ts, rt |-> b, cfs |-> r.cfs, nr_running |-> r.nr_running + 1]
    BY <1>0, <2>2, Zenon DEF RqType, ts
  <2>4. d \in RqType /\ d.ts = ts /\ d.rt = b /\ d.cfs = r.cfs
        /\ d.nr_running = r.nr_running + 1
    BY <1>0, <2>a, <2>3 DEF RqType
  <2>5. /\ Queued(tk2, "rt") = Queued(tk, "rt") \cup {p}
        /\ Queued(tk2, "ts") = Queued(tk, "ts")
        /\ Queued(tk2, "fair") = Queued(tk, "fair")
    BY <1>3 DEF Queued, SameBut
  <2> HIDE DEF d
  <2>6. ASSUME NEW q \in Task
        PROVE  (\E i \in 0 .. MAX_TS_LEVEL : In(d.ts[i], q)) <=> q \in Queued(tk2, "ts")
    BY <2>4, <2>5 DEF Good, ts
  <2>7. ASSUME NEW q \in Task, NEW i \in RtLevel
        PROVE  In(d.rt[i], q) <=> q \in Queued(tk2, "rt") /\ tk2[q].prio = i
    <3>1. In(d.rt[i], q) <=> In(rt[i], q) \/ (i = t.prio /\ q = p)
      BY <2>3, <2>4
    <3>2. In(rt[i], q) <=> q \in Queued(tk, "rt") /\ tk[q].prio = i
      BY DEF Good, rt
    <3>3. CASE q = p
      BY <1>1, <1>3, <2>5, <3>1, <3>2, <3>3
    <3>4. CASE q # p
      BY <2>5, <3>1, <3>2, <3>4 DEF SameBut
    <3> QED BY <3>3, <3>4
  <2>8. d.cfs = Queued(tk2, "fair")
    BY <2>4, <2>5 DEF Good
  <2>c. d.nr_running = Count(tk2)
    <3>1. p \notin Queued(tk, "rt")
      BY DEF Queued
    <3>2. Cardinality(Queued(tk2, "rt")) = Cardinality(Queued(tk, "rt")) + 1
      BY <2>5, <3>1, QueuedFinite, FS_AddElement
    <3> QED BY <2>4, <2>5, <3>2, QueuedFinite DEF Good, Count
  <2>9. Good(d, tk2)
    BY <2>c, <1>0, <2>3, <2>4, <2>6, <2>7, <2>8 DEF Good
  <2> QED BY <2>9 DEF d
<1>4. CASE t.class = "fair"
  <2>1. d = [r EXCEPT !.cfs = @ \cup {p}, !.nr_running = @ + 1]
    BY <1>4 DEF enqueue_task, enqueue_task_fair
  <2>a. d = [ts |-> ts, rt |-> rt, cfs |-> r.cfs \cup {p},
             nr_running |-> r.nr_running + 1]
    BY <1>0, <2>1, Zenon DEF RqType, rt, ts
  <2>2. d \in RqType /\ d.rt = rt /\ d.ts = ts /\ d.cfs = r.cfs \cup {p}
        /\ d.nr_running = r.nr_running + 1
    BY <1>0, <2>a DEF RqType
  <2>3. /\ Queued(tk2, "fair") = Queued(tk, "fair") \cup {p}
        /\ Queued(tk2, "ts") = Queued(tk, "ts")
        /\ Queued(tk2, "rt") = Queued(tk, "rt")
    BY <1>4 DEF Queued, SameBut
  <2> HIDE DEF d
  <2>4. ASSUME NEW q \in Task
        PROVE  (\E i \in 0 .. MAX_TS_LEVEL : In(d.ts[i], q)) <=> q \in Queued(tk2, "ts")
    BY <2>2, <2>3 DEF Good, ts
  <2>5. ASSUME NEW q \in Task, NEW i \in RtLevel
        PROVE  In(d.rt[i], q) <=> q \in Queued(tk2, "rt") /\ tk2[q].prio = i
    BY <1>1, <2>2, <2>3 DEF Good, rt, SameBut
  <2>6. d.cfs = Queued(tk2, "fair")
    BY <2>2, <2>3 DEF Good
  <2>c. d.nr_running = Count(tk2)
    <3>1. p \notin Queued(tk, "fair")
      BY DEF Queued
    <3>2. Cardinality(Queued(tk2, "fair")) = Cardinality(Queued(tk, "fair")) + 1
      BY <2>3, <3>1, QueuedFinite, FS_AddElement
    <3> QED BY <2>2, <2>3, <3>2, QueuedFinite DEF Good, Count
  <2>7. Good(d, tk2)
    BY <2>c, <1>0, <2>2, <2>4, <2>5, <2>6 DEF Good
  <2> QED BY <2>7 DEF d
<1> QED BY <1>2, <1>3, <1>4 DEF Queueable
=============================================================================

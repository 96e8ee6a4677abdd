------------------------------- MODULE TsPrio -------------------------------
(***************************************************************************)
(* The priority arithmetic of the SCHED_TS class (ts.c:7-60).  A TS task   *)
(* has a kernel priority 100..139; the class counts levels the other way   *)
(* up, level = 139 - prio, so level 39 is the best and level 0 the worst.  *)
(***************************************************************************)
EXTENDS Integers

MAX_RT_PRIO == 100
MAX_PRIO == 140
DEFAULT_PRIO == 120
MAX_TS_LEVEL == 39

Level(prio) == 139 - prio
TsPriority == MAX_RT_PRIO .. MAX_PRIO - 1

(* The two reasons for a new priority: the slice ran out, or a wakeup. *)
EXPIRED == 0
WOKEN == 1

(* A slice that runs out costs ten levels. *)
ExpiredLevel(l) == IF l < 10 THEN 0 ELSE l - 10

(* A wakeup lifts the task into the band 30..39. *)
WokenLevel(l) ==
    IF l < 10 THEN 30
    ELSE IF l < 20 THEN 31
    ELSE IF l < 25 THEN l + 12
    ELSE IF l < 27 THEN l + 11
    ELSE IF l = 27 THEN 37
    ELSE IF l < 30 THEN 38
    ELSE 39

get_new_prio(prio, type) ==
    IF Level(prio) \notin 0 .. MAX_TS_LEVEL THEN 139
    ELSE Level(IF type = EXPIRED THEN ExpiredLevel(Level(prio))
                                 ELSE WokenLevel(Level(prio)))

(* Mutant: the range test rejects level 0 as well. *)
get_num_ticks_Level0(prio) ==
    IF Level(prio) <= 0 THEN 0
    ELSE IF Level(prio) < 10 THEN 16
    ELSE IF Level(prio) < 20 THEN 12
    ELSE IF Level(prio) < 30 THEN 8
    ELSE IF Level(prio) < 40 THEN 4
    ELSE 0

get_num_ticks(prio) ==
    IF Level(prio) < 0 THEN 0
    ELSE IF Level(prio) < 10 THEN 16
    ELSE IF Level(prio) < 20 THEN 12
    ELSE IF Level(prio) < 30 THEN 8
    ELSE IF Level(prio) < 40 THEN 4
    ELSE 0
=============================================================================

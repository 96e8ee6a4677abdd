---------------------------- MODULE MCMigration ----------------------------
(* A fair task that may run anywhere, and a kernel thread with SCHED_TS    *)
(* that is bound to the CPU that goes down.  The first caller changes      *)
(* masks and executes programs, the second one binds tasks and balances.   *)
EXTENDS Migration

CONSTANTS f, s
MCClass == [t \in Tasks |-> IF t = s THEN "ts" ELSE "fair"]
MCStart == [t \in Tasks |-> IF t = s THEN 2 ELSE 1]
MCAffinity == [t \in Tasks |-> IF t = s THEN {2} ELSE Cpus]
MCCalls == [k \in Callers |-> IF k = 1 THEN {"affinity", "exec"}
                              ELSE {"bind", "move", "swap"}]
=============================================================================

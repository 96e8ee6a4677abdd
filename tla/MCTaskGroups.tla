---------------------------- MODULE MCTaskGroups ---------------------------
(* The root group and two others, a task that moves between the root and  *)
(* the first of them.  Half of the root's bandwidth fits once, not twice,  *)
(* until a shorter period makes the root's share the whole CPU; the global *)
(* limit is lowered, switched off, and set to more than its period.        *)
EXTENDS TaskGroups

CONSTANTS g1, g2
MCSysctl0 == [period |-> 4, runtime |-> 3]
Write(g, f, v) == [tg |-> g, file |-> f, value |-> v]
MCWrites == <<{Write(g1, "runtime", 0), Write(g1, "runtime", 2)},
              {Write(g2, "runtime", 2), Write(Root, "period", 3)}>>
MCSysWrites == {[file |-> "runtime", value |-> v] : v \in {3, 8, RUNTIME_INF}}
=============================================================================

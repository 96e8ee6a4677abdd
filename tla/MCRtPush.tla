------------------------------ MODULE MCRtPush ------------------------------
(* Tasks that are integers, the smaller the more urgent.                   *)
EXTENDS RtPush

MCPrio == [t \in Tasks |-> t]
MCAnywhere == [t \in Tasks |-> Cpus]
=============================================================================

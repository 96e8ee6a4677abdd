----------------------------- MODULE MCTsSched -----------------------------
(* Instances of TsSched for model checking. *)
EXTENDS TsSched

CONSTANTS t1, t2, t3, idle

Attr(policy, prio, nice, reset) ==
    [policy |-> policy, prio |-> prio, nice |-> nice, reset |-> reset]
ToTs == Attr("TS", 0, 0, FALSE)
ToFifo(prio) == Attr("FIFO", prio, 0, FALSE)

(* "classes": t1 moves through every policy, nice value and boost, sleeps  *)
(* and forks t2, which changes its policy, yields and exits.               *)
ClassesSched ==
    ({t1} \X {ToTs, Attr("NORMAL", 0, 0, TRUE), ToFifo(1), Attr("FIFO", 1, 0, TRUE)})
        \cup ({t2} \X {ToTs, ToFifo(2)})
ClassesNice == {t1} \X {0, -15}
ClassesDonor == {t1} \X {97, 110, MAX_PRIO}

(* "slices": SCHED_TS tasks only.                                          *)
SliceSched == Task \X {ToTs}

(* No request of a kind. *)
None == {}
=============================================================================

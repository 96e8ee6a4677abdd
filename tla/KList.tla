------------------------------- MODULE KList -------------------------------
(***************************************************************************)
(* The kernel's doubly linked lists (linux/list.h, not part of this        *)
(* repository) as the run queues use them: a bank of list heads b, indexed *)
(* by priority level, whose entries are tasks.  An entry carries one       *)
(* run_list node, so list_del needs no list head: it unlinks the entry     *)
(* from whichever list holds it.                                           *)
(***************************************************************************)
EXTENDS Naturals, Sequences

(* The positions of entry e in list s. *)
At(s, e) == {k \in DOMAIN s : s[k] = e}

(* The list without its k-th entry. *)
Without(s, k) == SubSeq(s, 1, k - 1) \o SubSeq(s, k + 1, Len(s))

(* Unlink the node of e; a list that does not hold e is left as it is. *)
Unlink(s, e) ==
    IF At(s, e) = {} THEN s ELSE Without(s, CHOOSE k \in At(s, e) : TRUE)

list_add_tail(b, i, e) == [b EXCEPT ![i] = Append(@, e)]

list_add(b, i, e) == [b EXCEPT ![i] = <<e>> \o @]

list_del(b, e) == [i \in DOMAIN b |-> Unlink(b[i], e)]

list_move_tail(b, i, e) == list_add_tail(list_del(b, e), i, e)

list_empty(s) == s = << >>

(* The levels of a bank whose list is not empty. *)
Occupied(b) == {i \in DOMAIN b : ~list_empty(b[i])}
=============================================================================

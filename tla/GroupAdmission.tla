-------------------------- MODULE GroupAdmission ---------------------------
(***************************************************************************)
(* What the bandwidth control of task groups promises: a tree of groups    *)
(* with a share each, where the shares of the children of a group never    *)
(* exceed its own, and a share is changed in one step, or not at all.      *)
(***************************************************************************)
EXTENDS Integers, FiniteSetsExt

CONSTANTS Root, Groups,  \* the groups: Root, and the others
          None           \* the parent of a group that does not exist

VARIABLES parent, share

vars == <<parent, share>>

Exists(p) == {Root} \cup {g \in Groups : p[g] # None}
Children(p, g) == {c \in Groups : p[c] = g}

Fits(p, s) ==
  \A g \in Exists(p) : MapThenSumSet(LAMBDA c : s[c], Children(p, g)) <= s[g]

Init ==
  /\ parent = [g \in Groups |-> None]
  /\ share \in [Groups \cup {Root} -> Nat]
  /\ \A g \in Groups : share[g] = 0

Create(g, p) ==
  /\ parent[g] = None /\ p \in Exists(parent)
  /\ parent' = [parent EXCEPT ![g] = p]
  /\ share' = [share EXCEPT ![g] = 0]

Remove(g) ==
  /\ parent[g] # None /\ Children(parent, g) = {}
  /\ parent' = [parent EXCEPT ![g] = None]
  /\ share' = [share EXCEPT ![g] = 0]

Admit(g) ==
  /\ g \in Exists(parent)
  /\ share' = [share EXCEPT ![g] = share'[g]]
  /\ share'[g] \in Nat /\ Fits(parent, share')
  /\ UNCHANGED parent

Next ==
  \/ \E g \in Groups, p \in Groups \cup {Root} : Create(g, p)
  \/ \E g \in Groups : Remove(g)
  \/ \E g \in Groups \cup {Root} : Admit(g)

Spec == Init /\ [][Next]_vars
=============================================================================

------------------------------ MODULE TieredWork ------------------------------
(***************************************************************************)
(* What an apply promises of its order, without saying how it works:         *)
(* changes have ranks, a change begins only when every change of a lower     *)
(* rank has ended, and each change is worked on once.                        *)
(***************************************************************************)
EXTENDS Integers

VARIABLES rank,     \* per change: its rank, fixed
          status    \* per change: "todo", "doing" or "done"

vars == <<rank, status>>

Items == DOMAIN rank

Init == status = [i \in Items |-> "todo"]

Due(i) ==
    /\ status[i] = "todo"
    /\ \A j \in Items : rank[j] < rank[i] => status[j] = "done"

Move(i, next) == status' = [status EXCEPT ![i] = next] /\ UNCHANGED rank

Begin(i) == Due(i) /\ Move(i, "doing")
End(i) == status[i] = "doing" /\ Move(i, "done")

\* A change that cannot even be begun.
Refuse(i) == Due(i) /\ Move(i, "done")

Next == \E i \in Items : Begin(i) \/ End(i) \/ Refuse(i)

Spec == Init /\ [][Next]_vars
===============================================================================

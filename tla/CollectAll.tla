------------------------------ MODULE CollectAll ------------------------------
(***************************************************************************)
(* What a caller of parallel.rs is promised: every item of the batch gets   *)
(* one final verdict, in any order, and the batch is reported only when     *)
(* all of them have one.  Nothing here knows of permits, retries or tasks.  *)
(***************************************************************************)
CONSTANT Items

VARIABLES verdict,   \* [Items -> {"pending", "ok", "failed"}]
          reported   \* has the caller received the results?

vars == <<verdict, reported>>

Init == /\ verdict = [i \in Items |-> "pending"]
        /\ reported = FALSE

Decide(i) == /\ verdict[i] = "pending"
             /\ \E v \in {"ok", "failed"} : verdict' = [verdict EXCEPT ![i] = v]
             /\ UNCHANGED reported

Report == /\ \A i \in Items : verdict[i] # "pending"
          /\ ~ reported
          /\ reported' = TRUE
          /\ UNCHANGED verdict

Next == Report \/ \E i \in Items : Decide(i)

Spec == Init /\ [][Next]_vars
=============================================================================

----------------------------- MODULE ParallelExec -----------------------------
(***************************************************************************)
(* parallel.rs: execute_parallel spawns one task per item.  A task takes a  *)
(* permit of the semaphore, calls the operation, and on a transient error   *)
(* sleeps and calls it again WITHOUT giving its permit back; the caller     *)
(* joins the tasks in completion order and sorts what it got by index.      *)
(*                                                                          *)
(* Simplified: the length of a backoff (only its order with other tasks     *)
(* matters) and the payload of a result.  A panic of the operation is not   *)
(* modelled: the release profile aborts the process on one.                 *)
(***************************************************************************)
EXTENDS Integers, FiniteSets, Sequences

CONSTANTS NItems,        \* length of the batch
          Concurrency,   \* permits of the semaphore
          MaxRetries     \* MAX_RETRIES

ASSUME BatchAssumption == /\ NItems \in Nat
                          /\ Concurrency \in Nat \ {0}
                          /\ MaxRetries \in Nat

Items == 1 .. NItems

\* What one call of the operation may answer: a value, an error that
\* is_retryable_error accepts, any other error.
Replies == {"ok", "transient", "fatal"}

\* The three shapes of OpResult.result: Ok, Err with and without
\* retries_exhausted.
Verdicts == {"ok", "failed", "exhausted"}

VARIABLES
    phase,     \* where each task is
    attempt,   \* retry_with_backoff's counter, per task
    verdict,   \* the result a finished task hands to the join set
    permits,   \* free permits of the semaphore
    results,   \* indexes of the collected results, in the order of the Vec
    returned,  \* execute_parallel has returned
    calls      \* history: the replies each item's operation got

vars == <<phase, attempt, verdict, permits, results, returned, calls>>

Init == /\ phase = [i \in Items |-> "queued"]
        /\ attempt = [i \in Items |-> 0]
        /\ verdict = [i \in Items |-> "none"]
        /\ permits = Concurrency
        /\ results = << >>
        /\ returned = FALSE
        /\ calls = [i \in Items |-> << >>]

-----------------------------------------------------------------------------

\* sem.acquire().await, then the first call of the operation.
Acquire(i) ==
    /\ phase[i] = "queued"
    /\ permits > 0
    /\ permits' = permits - 1
    /\ phase' = [phase EXCEPT ![i] = "calling"]
    /\ UNCHANGED <<attempt, verdict, results, returned, calls>>

\* Mutant: the permit is not returned.
FinishLeaks(i, v) == /\ verdict' = [verdict EXCEPT ![i] = v]
                     /\ phase' = [phase EXCEPT ![i] = "finished"]
                     /\ UNCHANGED permits

\* A task returns its verdict: the permit is dropped with it.
Finish(i, v) ==
    /\ verdict' = [verdict EXCEPT ![i] = v]
    /\ phase' = [phase EXCEPT ![i] = "finished"]
    /\ permits' = permits + 1

Answer(i, reply) ==
    /\ phase[i] = "calling"
    /\ calls' = [calls EXCEPT ![i] = Append(@, reply)]
    /\ UNCHANGED <<results, returned>>

Succeed(i) ==
    /\ Answer(i, "ok")
    /\ Finish(i, "ok")
    /\ UNCHANGED attempt

\* Mutant: attempt >= MAX_RETRIES.
GiveUpEarly(i) ==
    \E reply \in {"transient", "fatal"} :
        /\ Answer(i, reply)
        /\ attempt' = [attempt EXCEPT ![i] = @ + 1]
        /\ reply = "fatal" \/ attempt'[i] >= MaxRetries
        /\ Finish(i, IF attempt'[i] >= MaxRetries THEN "exhausted" ELSE "failed")

\* The error is final: not retryable, or the counter passed MAX_RETRIES.
GiveUp(i) ==
    \E reply \in {"transient", "fatal"} :
        /\ Answer(i, reply)
        /\ attempt' = [attempt EXCEPT ![i] = @ + 1]
        /\ reply = "fatal" \/ attempt'[i] > MaxRetries
        /\ Finish(i, IF attempt'[i] > MaxRetries THEN "exhausted" ELSE "failed")

\* The error is transient and the budget is not spent: sleep, permit in hand.
Backoff(i) ==
    /\ Answer(i, "transient")
    /\ attempt' = [attempt EXCEPT ![i] = @ + 1]
    /\ attempt'[i] <= MaxRetries
    /\ phase' = [phase EXCEPT ![i] = "sleeping"]
    /\ UNCHANGED <<verdict, permits>>

Wake(i) ==
    /\ phase[i] = "sleeping"
    /\ phase' = [phase EXCEPT ![i] = "calling"]
    /\ UNCHANGED <<attempt, verdict, permits, results, returned, calls>>

\* join_set.join_next().await: any finished task.
Join(i) ==
    /\ phase[i] = "finished"
    /\ phase' = [phase EXCEPT ![i] = "joined"]
    /\ results' = Append(results, i)
    /\ UNCHANGED <<attempt, verdict, permits, returned, calls>>

\* sort_by_key of distinct indexes: position k holds the index that has
\* exactly k indexes at or below it.
Collected(s) == {s[k] : k \in DOMAIN s}
SortByIndex(s) ==
    [k \in 1 .. Len(s) |->
        CHOOSE i \in Collected(s) : Cardinality({j \in Collected(s) : j <= i}) = k]

\* Mutants: no sort; the caller does not wait for the last task.
ReturnUnsorted ==
    /\ ~ returned
    /\ \A i \in Items : phase[i] = "joined"
    /\ returned' = TRUE
    /\ UNCHANGED <<phase, attempt, verdict, permits, results, calls>>
ReturnEarly ==
    /\ ~ returned
    /\ Len(results) >= NItems - 1
    /\ results' = SortByIndex(results)
    /\ returned' = TRUE
    /\ UNCHANGED <<phase, attempt, verdict, permits, calls>>

\* The join set is empty: sort and return.
Return ==
    /\ ~ returned
    /\ \A i \in Items : phase[i] = "joined"
    /\ results' = SortByIndex(results)
    /\ returned' = TRUE
    /\ UNCHANGED <<phase, attempt, verdict, permits, calls>>

TaskStep(i) == Acquire(i) \/ Succeed(i) \/ GiveUp(i) \/ Backoff(i) \/ Wake(i)

Next == Return \/ \E i \in Items : TaskStep(i) \/ Join(i)

Spec == Init /\ [][Next]_vars

\* Every task is polled by the runtime, every call of the operation answers
\* (each command's operation is one or a few HTTP exchanges), every sleep ends,
\* and the caller keeps awaiting the join set.
Fairness == /\ \A i \in Items : WF_vars(TaskStep(i)) /\ WF_vars(Join(i))
            /\ WF_vars(Return)

FairSpec == Spec /\ Fairness

-----------------------------------------------------------------------------
(* BatchSummary::from_results, for a caller that names its items. *)

Summary ==
    LET ok == {k \in DOMAIN results : verdict[results[k]] = "ok"}
    IN [total     |-> Len(results),
        succeeded |-> Cardinality(ok),
        failed    |-> Cardinality(DOMAIN results \ ok),
        failures  |-> {results[k] : k \in DOMAIN results \ ok}]

-----------------------------------------------------------------------------
(* Properties. *)

Holding == {i \in Items : phase[i] \in {"calling", "sleeping"}}

\* Every variable has its type.
TypeOK ==
    /\ phase \in [Items -> {"queued", "calling", "sleeping", "finished", "joined"}]
    /\ attempt \in [Items -> 0 .. MaxRetries + 1]
    /\ verdict \in [Items -> Verdicts \cup {"none"}]
    /\ permits \in 0 .. Concurrency
    /\ results \in Seq(Items)
    /\ returned \in BOOLEAN
    /\ calls \in [Items -> Seq(Replies)]

\* At most Concurrency items are in flight, the ones asleep between two
\* attempts included: no permit leaks on the success, give-up or retry paths.
PermitsConserved == permits + Cardinality(Holding) = Concurrency

\* A verdict says what the calls said: success iff the last call succeeded,
\* "exhausted" iff the whole budget of 1 + MAX_RETRIES calls was spent without
\* success, and every call before the last one failed with a transient error.
VerdictMatchesCalls ==
    \A i \in Items :
        LET n == Len(calls[i]) IN
        verdict[i] # "none" =>
            /\ n \in 1 .. MaxRetries + 1
            /\ \A k \in 1 .. n - 1 : calls[i][k] = "transient"
            /\ verdict[i] = "ok" <=> calls[i][n] = "ok"
            /\ verdict[i] = "exhausted" <=> n = MaxRetries + 1 /\ calls[i][n] # "ok"

\* When execute_parallel returns, position k of the Vec is the result of item
\* k: none is missing, none is there twice, and a caller that pairs results
\* with its own list by position or by OpResult.index gets the same pairs.
ReturnedInInputOrder ==
    returned => /\ Len(results) = NItems
                /\ \A k \in Items : results[k] = k

\* The summary built from a returned batch partitions the batch: each item is
\* counted once, and the failures it names are the items whose calls ended in
\* an error.
SummaryTruthful ==
    returned =>
        /\ Summary.total = NItems
        /\ Summary.succeeded + Summary.failed = NItems
        /\ Summary.failures = {i \in Items : calls[i][Len(calls[i])] # "ok"}

\* Neither an item's result nor the summary of the batch says anything else than
\* the calls did.
ResultsTruthful == VerdictMatchesCalls /\ SummaryTruthful

\* Every batch ends, whatever mix of errors the operation answers.
BatchEnds == <>returned

\* execute_parallel implements the collect-all promise.
Promise == INSTANCE CollectAll
    WITH verdict  <- [i \in Items |-> CASE verdict[i] = "none" -> "pending"
                                        [] verdict[i] = "ok"   -> "ok"
                                        [] OTHER               -> "failed"],
         reported <- returned

ImplementsCollectAll == Promise!Spec
=============================================================================

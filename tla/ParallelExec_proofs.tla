-------------------------- MODULE ParallelExec_proofs --------------------------
(* Theorems about ParallelExec, for every batch length, number of permits and *)
(* retry budget.                                                              *)
EXTENDS ParallelExec, FiniteSetTheorems, TLAPS

(* TypeOK alone is not inductive: that a permit is free when one is taken and  *)
(* that none is returned twice needs the conservation law, and that a counter  *)
(* stays within MaxRetries + 1 needs the task that counts to be below it.      *)
BudgetLeft == \A i \in Items :
    phase[i] \in {"queued", "calling", "sleeping"} => attempt[i] <= MaxRetries

(* The Vec holds each joined task once, and only them. *)
Joined == {i \in Items : phase[i] = "joined"}
CollectedOnce ==
    /\ Collected(results) = Joined
    /\ \A k, l \in DOMAIN results : results[k] = results[l] => k = l
    /\ returned => Joined = Items

IInv == /\ TypeOK
        /\ PermitsConserved
        /\ BudgetLeft
        /\ CollectedOnce
        /\ ReturnedInInputOrder

(* The tasks that hold a permit are finitely many. *)
LEMMA HoldingFinite ==
    IsFiniteSet(Holding) /\ Cardinality(Holding) \in Nat
  <1>1. IsFiniteSet(Items)
    BY FS_Interval, BatchAssumption DEF Items
  <1>2. Holding \in SUBSET Items
    BY DEF Holding
  <1>3. IsFiniteSet(Holding)
    BY <1>1, <1>2, FS_Subset
  <1>4. QED BY <1>3, FS_CardinalityType

LEMMA InitInductive == Init => IInv
  <1> SUFFICES ASSUME Init PROVE IInv OBVIOUS
  <1>1. TypeOK
    <2>1. << >> \in Seq(Items) /\ << >> \in Seq(Replies)
      OBVIOUS
    <2>2. /\ phase \in [Items -> {"queued", "calling", "sleeping", "finished", "joined"}]
          /\ returned \in BOOLEAN
      BY DEF Init
    <2>6. /\ attempt \in [Items -> 0 .. MaxRetries + 1]
          /\ permits \in 0 .. Concurrency
      <3>1. 0 \in 0 .. MaxRetries + 1 /\ Concurrency \in 0 .. Concurrency
        BY BatchAssumption
      <3> QED BY <3>1 DEF Init
    <2>3. verdict \in [Items -> Verdicts \cup {"none"}]
      BY DEF Init
    <2>4. calls \in [Items -> Seq(Replies)]
      BY <2>1 DEF Init
    <2>5. results \in Seq(Items)
      BY <2>1 DEF Init
    <2> QED BY <2>2, <2>3, <2>4, <2>5, <2>6 DEF TypeOK
  <1>2. PermitsConserved
    <2>1. Holding = {}
      BY DEF Init, Holding
    <2> QED BY <2>1, FS_EmptySet, BatchAssumption DEF Init, PermitsConserved
  <1>3. BudgetLeft
    BY BatchAssumption DEF Init, BudgetLeft
  <1>4. CollectedOnce /\ ReturnedInInputOrder
    BY DEF Init, CollectedOnce, Collected, Joined, ReturnedInInputOrder
  <1> QED BY <1>1, <1>2, <1>3, <1>4 DEF IInv

(* A Vec that holds every index once is sorted into the identity. *)
LEMMA SortedIsIdentity ==
    ASSUME NEW s \in Seq(Items), Collected(s) = Items,
           \A k, l \in DOMAIN s : s[k] = s[l] => k = l
    PROVE  Len(s) = NItems /\ SortByIndex(s) = [k \in Items |-> k]
  <1> DEFINE Below(i) == {j \in Items : j <= i}
  <1>1. DOMAIN s = 1 .. Len(s) /\ Len(s) \in Nat
    OBVIOUS
  <1>2. s \in Bijection(1 .. Len(s), Items)
    <2>1. s \in [1 .. Len(s) -> Items]
      BY <1>1
    <2>2. s \in Injection(1 .. Len(s), Items)
      BY <1>1, <2>1 DEF Injection, IsInjective
    <2>3. s \in Surjection(1 .. Len(s), Items)
      BY <1>1, <2>1 DEF Surjection, Collected
    <2> QED BY <2>2, <2>3 DEF Bijection
  <1>3. Cardinality(Items) = NItems /\ IsFiniteSet(Items)
    BY FS_Interval, BatchAssumption DEF Items
  <1>4. Cardinality(1 .. Len(s)) = Len(s) /\ IsFiniteSet(1 .. Len(s))
    BY <1>1, FS_Interval
  <1>5. Len(s) = NItems
    BY <1>2, <1>3, <1>4, FS_Bijection DEF ExistsBijection
  <1>6. ASSUME NEW i \in Items
        PROVE  Cardinality(Below(i)) = i
    <2>1. Below(i) = 1 .. i /\ i \in Int /\ i >= 1
      BY BatchAssumption DEF Items
    <2>2. Cardinality(1 .. i) = i
      BY <2>1, FS_Interval
    <2> QED BY <2>1, <2>2
  <1> HIDE DEF Below
  <1>7. ASSUME NEW k \in Items
        PROVE  (CHOOSE i \in Items : Cardinality(Below(i)) = k) = k
    BY <1>6
  <1>8. SortByIndex(s) = [k \in Items |-> CHOOSE i \in Items : Cardinality(Below(i)) = k]
    BY <1>5 DEF SortByIndex, Items, Below
  <1> QED BY <1>5, <1>7, <1>8

(* The three ways a step can change who holds a permit. *)
LEMMA TakePermit ==
    ASSUME IInv, NEW i \in Items, i \notin Holding,
           Holding' = Holding \cup {i}, permits > 0, permits' = permits - 1
    PROVE  permits' \in 0 .. Concurrency /\ PermitsConserved'
  <1>1. Cardinality(Holding') = Cardinality(Holding) + 1
    BY HoldingFinite, FS_AddElement
  <1> QED BY <1>1, HoldingFinite, BatchAssumption DEF IInv, TypeOK, PermitsConserved

LEMMA DropPermit ==
    ASSUME IInv, NEW i \in Items, i \in Holding,
           Holding' = Holding \ {i}, permits' = permits + 1
    PROVE  permits' \in 0 .. Concurrency /\ PermitsConserved'
  <1>1. /\ Cardinality(Holding') = Cardinality(Holding) - 1
        /\ Cardinality(Holding') \in Nat
    BY HoldingFinite, FS_RemoveElement, FS_CardinalityType
  <1> QED BY <1>1, HoldingFinite, BatchAssumption DEF IInv, TypeOK, PermitsConserved

LEMMA KeepPermits ==
    ASSUME IInv, Holding' = Holding, permits' = permits
    PROVE  permits' \in 0 .. Concurrency /\ PermitsConserved'
  BY DEF IInv, TypeOK, PermitsConserved

LEMMA StepInductive == IInv /\ [Next]_vars => IInv'
  <1> SUFFICES ASSUME IInv, [Next]_vars PROVE IInv'
    OBVIOUS
  <1> USE BatchAssumption
  <1>1. ASSUME NEW i \in Items, Acquire(i) PROVE IInv'
    <2>1. i \notin Holding /\ Holding' = Holding \cup {i}
      BY <1>1 DEF Acquire, Holding, IInv, TypeOK
    <2>2. permits' \in 0 .. Concurrency /\ PermitsConserved'
      BY <1>1, <2>1, TakePermit DEF Acquire
    <2>3. TypeOK'
      BY <1>1, <2>2 DEF Acquire, IInv, TypeOK
    <2>4. BudgetLeft'
      BY <1>1 DEF Acquire, IInv, TypeOK, BudgetLeft
    <2>9. CollectedOnce' /\ ReturnedInInputOrder'
      BY <1>1 DEF Acquire, IInv, TypeOK, CollectedOnce, Joined, ReturnedInInputOrder
    <2> QED BY <2>9, <2>2, <2>3, <2>4 DEF IInv
  <1>2. ASSUME NEW i \in Items, Succeed(i) PROVE IInv'
    <2>1. i \in Holding /\ Holding' = Holding \ {i}
      BY <1>2 DEF Succeed, Answer, Finish, Holding, IInv, TypeOK
    <2>2. permits' \in 0 .. Concurrency /\ PermitsConserved'
      BY <1>2, <2>1, DropPermit DEF Succeed, Finish
    <2>3. calls' \in [Items -> Seq(Replies)]
      BY <1>2 DEF Succeed, Answer, IInv, TypeOK, Replies
    <2>4. TypeOK'
      BY <1>2, <2>2, <2>3 DEF Succeed, Answer, Finish, IInv, TypeOK, Verdicts
    <2>5. BudgetLeft'
      BY <1>2 DEF Succeed, Answer, Finish, IInv, TypeOK, BudgetLeft
    <2>9. CollectedOnce' /\ ReturnedInInputOrder'
      BY <1>2 DEF Succeed, Answer, Finish, IInv, TypeOK, CollectedOnce, Joined, ReturnedInInputOrder
    <2> QED BY <2>9, <2>2, <2>4, <2>5 DEF IInv
  <1>3. ASSUME NEW i \in Items, GiveUp(i) PROVE IInv'
    <2>0. PICK reply \in {"transient", "fatal"} :
            /\ Answer(i, reply)
            /\ attempt' = [attempt EXCEPT ![i] = @ + 1]
            /\ reply = "fatal" \/ attempt'[i] > MaxRetries
            /\ Finish(i, IF attempt'[i] > MaxRetries THEN "exhausted" ELSE "failed")
      BY <1>3 DEF GiveUp
    <2>1. i \in Holding /\ Holding' = Holding \ {i}
      BY <2>0 DEF Answer, Finish, Holding, IInv, TypeOK
    <2>2. permits' \in 0 .. Concurrency /\ PermitsConserved'
      BY <2>0, <2>1, DropPermit DEF Finish
    <2>3. calls' \in [Items -> Seq(Replies)]
      BY <2>0 DEF Answer, IInv, TypeOK, Replies
    <2>4. attempt' \in [Items -> 0 .. MaxRetries + 1]
      BY <2>0 DEF Answer, IInv, TypeOK, BudgetLeft
    <2>5. TypeOK'
      BY <2>0, <2>2, <2>3, <2>4 DEF Answer, Finish, IInv, TypeOK, Verdicts
    <2>6. BudgetLeft'
      BY <2>0 DEF Answer, Finish, IInv, TypeOK, BudgetLeft
    <2>9. CollectedOnce' /\ ReturnedInInputOrder'
      BY <2>0 DEF Answer, Finish, IInv, TypeOK, CollectedOnce, Joined, ReturnedInInputOrder
    <2> QED BY <2>9, <2>2, <2>5, <2>6 DEF IInv
  <1>4. ASSUME NEW i \in Items, Backoff(i) PROVE IInv'
    <2>1. Holding' = Holding
      BY <1>4 DEF Backoff, Answer, Holding, IInv, TypeOK
    <2>2. permits' \in 0 .. Concurrency /\ PermitsConserved'
      BY <1>4, <2>1, KeepPermits DEF Backoff
    <2>3. calls' \in [Items -> Seq(Replies)]
      BY <1>4 DEF Backoff, Answer, IInv, TypeOK, Replies
    <2>4. attempt' \in [Items -> 0 .. MaxRetries + 1]
      BY <1>4 DEF Backoff, Answer, IInv, TypeOK, BudgetLeft
    <2>5. TypeOK'
      BY <1>4, <2>2, <2>3, <2>4 DEF Backoff, Answer, IInv, TypeOK
    <2>6. BudgetLeft'
      BY <1>4 DEF Backoff, Answer, IInv, TypeOK, BudgetLeft
    <2>9. CollectedOnce' /\ ReturnedInInputOrder'
      BY <1>4 DEF Backoff, Answer, IInv, TypeOK, CollectedOnce, Joined, ReturnedInInputOrder
    <2> QED BY <2>9, <2>2, <2>5, <2>6 DEF IInv
  <1>5. ASSUME NEW i \in Items, Wake(i) PROVE IInv'
    <2>1. Holding' = Holding
      BY <1>5 DEF Wake, Holding, IInv, TypeOK
    <2>2. permits' \in 0 .. Concurrency /\ PermitsConserved'
      BY <1>5, <2>1, KeepPermits DEF Wake
    <2>3. TypeOK'
      BY <1>5, <2>2 DEF Wake, IInv, TypeOK
    <2>4. BudgetLeft'
      BY <1>5 DEF Wake, IInv, TypeOK, BudgetLeft
    <2>9. CollectedOnce' /\ ReturnedInInputOrder'
      BY <1>5 DEF Wake, IInv, TypeOK, CollectedOnce, Joined, ReturnedInInputOrder
    <2> QED BY <2>9, <2>2, <2>3, <2>4 DEF IInv
  <1>6. ASSUME NEW i \in Items, Join(i) PROVE IInv'
    <2>1. Holding' = Holding
      BY <1>6 DEF Join, Holding, IInv, TypeOK
    <2>2. permits' \in 0 .. Concurrency /\ PermitsConserved'
      BY <1>6, <2>1, KeepPermits DEF Join
    <2>3. TypeOK'
      BY <1>6, <2>2 DEF Join, IInv, TypeOK
    <2>4. BudgetLeft'
      BY <1>6 DEF Join, IInv, TypeOK, BudgetLeft
    <2>9. CollectedOnce' /\ ReturnedInInputOrder'
      <3>1. /\ results' = Append(results, i) /\ i \notin Joined /\ Joined' = Joined \cup {i}
            /\ ~ returned' /\ results \in Seq(Items)
        BY <1>6 DEF Join, IInv, TypeOK, CollectedOnce, Joined, ReturnedInInputOrder
      <3>2. Collected(results') = Collected(results) \cup {i}
        BY <3>1 DEF Collected
      <3>3. \A k, l \in DOMAIN results' : results'[k] = results'[l] => k = l
        BY <3>1 DEF IInv, CollectedOnce, Collected
      <3> QED BY <3>1, <3>2, <3>3 DEF IInv, CollectedOnce, ReturnedInInputOrder, Collected
    <2> QED BY <2>9, <2>2, <2>3, <2>4 DEF IInv
  <1>7. ASSUME Return PROVE IInv'
    <2>1. Joined = Items /\ Joined' = Items /\ phase' = phase /\ permits' = permits
      BY <1>7 DEF Return, Joined
    <2>2. Len(results) = NItems /\ results' = [k \in Items |-> k]
      BY <1>7, <2>1, SortedIsIdentity DEF Return, IInv, TypeOK, CollectedOnce
    <2>3. results' \in Seq(Items) /\ Len(results') = NItems
      BY <2>2 DEF Items
    <2>4. Holding' = Holding
      BY <2>1 DEF Holding
    <2>5. permits' \in 0 .. Concurrency /\ PermitsConserved'
      BY <2>1, <2>4, KeepPermits
    <2>6. TypeOK' /\ BudgetLeft'
      BY <1>7, <2>3, <2>5 DEF Return, IInv, TypeOK, BudgetLeft
    <2>7. CollectedOnce' /\ ReturnedInInputOrder'
      BY <2>1, <2>2, <2>3 DEF CollectedOnce, Collected, ReturnedInInputOrder, Items
    <2> QED BY <2>5, <2>6, <2>7 DEF IInv
  <1>8. CASE UNCHANGED vars
    BY <1>8 DEF vars, IInv, TypeOK, PermitsConserved, Holding, BudgetLeft,
                CollectedOnce, Joined, Collected, ReturnedInInputOrder
  <1> QED
    BY <1>1, <1>2, <1>3, <1>4, <1>5, <1>6, <1>7, <1>8 DEF Next, TaskStep

LEMMA Inductive == Spec => []IInv
  BY InitInductive, StepInductive, PTL DEF Spec

(* Every variable keeps its type: the semaphore is never asked for a permit it *)
(* does not have, no counter passes the retry budget (TypeOK).                 *)
THEOREM TypeCorrect == Spec => []TypeOK
  <1>1. IInv => TypeOK BY DEF IInv
  <1> QED BY <1>1, Inductive, PTL

(* parallel.rs bounds what is in flight by --concurrency, sleeping retries     *)
(* included, and loses no permit on any path (PermitsConserved).               *)
THEOREM InFlightBounded == Spec => []PermitsConserved
  <1>1. IInv => PermitsConserved BY DEF IInv
  <1> QED BY <1>1, Inductive, PTL

(* execute_parallel returns one result per item, in input order, whatever the  *)
(* order in which the tasks finished (ReturnedInInputOrder).                   *)
THEOREM InputOrder == Spec => []ReturnedInInputOrder
  <1>1. IInv => ReturnedInInputOrder BY DEF IInv
  <1> QED BY <1>1, Inductive, PTL

-----------------------------------------------------------------------------
(* What a verdict and the summary say, against what the operation answered. *)

(* A task that has not ended has no verdict, has made as many calls as its     *)
(* counter says, and all of them failed with a transient error.                *)
CallsCounted == \A i \in Items :
    phase[i] \in {"queued", "calling", "sleeping"} =>
        /\ verdict[i] = "none"
        /\ Len(calls[i]) = attempt[i]
        /\ \A k \in 1 .. attempt[i] : calls[i][k] = "transient"

(* A task that has ended has its verdict: VerdictMatchesCalls alone would hold *)
(* of a batch that gives none.                                                 *)
VerdictGiven == \A i \in Items :
    phase[i] \in {"finished", "joined"} => verdict[i] # "none"

CallsInv == CallsCounted /\ VerdictGiven /\ VerdictMatchesCalls

(* CallsInv, item by item. *)
Counted(i) ==
    phase[i] \in {"queued", "calling", "sleeping"} =>
        /\ verdict[i] = "none"
        /\ Len(calls[i]) = attempt[i]
        /\ \A k \in 1 .. attempt[i] : calls[i][k] = "transient"
Given(i) == phase[i] \in {"finished", "joined"} => verdict[i] # "none"
Matches(i) ==
    verdict[i] # "none" =>
        /\ Len(calls[i]) \in 1 .. MaxRetries + 1
        /\ \A k \in 1 .. Len(calls[i]) - 1 : calls[i][k] = "transient"
        /\ verdict[i] = "ok" <=> calls[i][Len(calls[i])] = "ok"
        /\ verdict[i] = "exhausted" <=>
               Len(calls[i]) = MaxRetries + 1 /\ calls[i][Len(calls[i])] # "ok"
ItemInv(i) == Counted(i) /\ Given(i) /\ Matches(i)

LEMMA CallsItemwise == CallsInv <=> \A i \in Items : ItemInv(i)
  BY DEF CallsInv, CallsCounted, VerdictGiven, VerdictMatchesCalls, ItemInv, Counted, Given, Matches

(* A step that leaves an item alone keeps what is known of it. *)
LEMMA ItemUntouched ==
    ASSUME NEW i \in Items, ItemInv(i), phase'[i] = phase[i], attempt'[i] = attempt[i],
           verdict'[i] = verdict[i], calls'[i] = calls[i]
    PROVE  ItemInv(i)'
  BY DEF ItemInv, Counted, Given, Matches

(* What an answer adds to the history of its item, and to no other. *)
LEMMA AnswerAppends ==
    ASSUME TypeOK, NEW i \in Items, NEW reply \in Replies, Answer(i, reply)
    PROVE  /\ Len(calls'[i]) = Len(calls[i]) + 1
           /\ calls'[i][Len(calls[i]) + 1] = reply
           /\ \A k \in 1 .. Len(calls[i]) : calls'[i][k] = calls[i][k]
           /\ \A j \in Items \ {i} : calls'[j] = calls[j]
  <1>1. calls[i] \in Seq(Replies) /\ calls'[i] = Append(calls[i], reply)
    BY DEF TypeOK, Answer
  <1>2. \A j \in Items \ {i} : calls'[j] = calls[j]
    BY DEF TypeOK, Answer
  <1> QED BY <1>1, <1>2

LEMMA CallsInductive == IInv /\ CallsInv /\ [Next]_vars => CallsInv'
  <1> SUFFICES ASSUME IInv, \A i \in Items : ItemInv(i), [Next]_vars,
                      NEW j \in Items
               PROVE  ItemInv(j)'
    BY CallsItemwise DEF CallsInv, CallsCounted, VerdictGiven, VerdictMatchesCalls, ItemInv, Counted, Given, Matches
  <1> USE BatchAssumption
  <1>0. TypeOK /\ BudgetLeft /\ ItemInv(j)
    BY DEF IInv
  <1>1. ASSUME NEW i \in Items, Acquire(i) PROVE ItemInv(j)'
    BY <1>0, <1>1 DEF Acquire, TypeOK, ItemInv, Counted, Given, Matches
  <1>2. ASSUME NEW i \in Items, Succeed(i) PROVE ItemInv(j)'
    <2>1. /\ Len(calls'[i]) = Len(calls[i]) + 1
          /\ calls'[i][Len(calls[i]) + 1] = "ok"
          /\ \A k \in 1 .. Len(calls[i]) : calls'[i][k] = calls[i][k]
          /\ \A l \in Items \ {i} : calls'[l] = calls[l]
      BY <1>0, <1>2, AnswerAppends DEF Succeed, Replies
    <2>2. CASE i # j
      BY <1>0, <1>2, <2>1, <2>2, ItemUntouched DEF Succeed, Answer, Finish, TypeOK
    <2>3. CASE i = j
      <3>1. /\ Len(calls[j]) = attempt[j] /\ attempt[j] \in 0 .. MaxRetries
            /\ \A k \in 1 .. attempt[j] : calls[j][k] = "transient"
        BY <1>0, <1>2, <2>3 DEF Succeed, Answer, ItemInv, Counted, BudgetLeft, TypeOK
      <3>2. phase'[j] = "finished" /\ verdict'[j] = "ok"
        BY <1>0, <1>2, <2>3 DEF Succeed, Answer, Finish, TypeOK
      <3>3. /\ Len(calls'[j]) = attempt[j] + 1 /\ calls'[j][attempt[j] + 1] = "ok"
            /\ \A k \in 1 .. attempt[j] : calls'[j][k] = "transient"
        BY <2>1, <2>3, <3>1
      <3>4. Counted(j)' /\ Given(j)'
        BY <3>2 DEF Counted, Given
      <3>5. Matches(j)'
        BY <3>1, <3>2, <3>3 DEF Matches
      <3> QED BY <3>4, <3>5 DEF ItemInv
    <2> QED BY <2>2, <2>3
  <1>3. ASSUME NEW i \in Items, GiveUp(i) PROVE ItemInv(j)'
    <2>0. PICK reply \in {"transient", "fatal"} :
            /\ Answer(i, reply)
            /\ attempt' = [attempt EXCEPT ![i] = @ + 1]
            /\ reply = "fatal" \/ attempt'[i] > MaxRetries
            /\ Finish(i, IF attempt'[i] > MaxRetries THEN "exhausted" ELSE "failed")
      BY <1>3 DEF GiveUp
    <2>1. /\ Len(calls'[i]) = Len(calls[i]) + 1
          /\ calls'[i][Len(calls[i]) + 1] = reply
          /\ \A k \in 1 .. Len(calls[i]) : calls'[i][k] = calls[i][k]
          /\ \A l \in Items \ {i} : calls'[l] = calls[l]
      BY <1>0, <2>0, AnswerAppends DEF Replies
    <2>2. CASE i # j
      BY <1>0, <2>0, <2>1, <2>2, ItemUntouched DEF Answer, Finish, TypeOK
    <2>3. CASE i = j
      <3>1. /\ Len(calls[j]) = attempt[j] /\ attempt[j] \in 0 .. MaxRetries
            /\ \A k \in 1 .. attempt[j] : calls[j][k] = "transient"
        BY <1>0, <2>0, <2>3 DEF Answer, ItemInv, Counted, BudgetLeft, TypeOK
      <3>2. /\ phase'[j] = "finished" /\ attempt'[j] = attempt[j] + 1
            /\ verdict'[j] = IF attempt'[j] > MaxRetries THEN "exhausted" ELSE "failed"
        BY <1>0, <2>0, <2>3 DEF Answer, Finish, TypeOK
      <3>3. /\ Len(calls'[j]) = attempt[j] + 1 /\ calls'[j][attempt[j] + 1] # "ok"
            /\ \A k \in 1 .. attempt[j] : calls'[j][k] = "transient"
        BY <2>0, <2>1, <2>3, <3>1
      <3>4. verdict'[j] = "exhausted" <=> attempt[j] + 1 = MaxRetries + 1
        BY <3>1, <3>2
      <3>5. Counted(j)' /\ Given(j)'
        BY <3>2 DEF Counted, Given
      <3>6. Matches(j)'
        BY <3>1, <3>2, <3>3, <3>4 DEF Matches
      <3> QED BY <3>5, <3>6 DEF ItemInv
    <2> QED BY <2>2, <2>3
  <1>4. ASSUME NEW i \in Items, Backoff(i) PROVE ItemInv(j)'
    <2>1. /\ Len(calls'[i]) = Len(calls[i]) + 1
          /\ calls'[i][Len(calls[i]) + 1] = "transient"
          /\ \A k \in 1 .. Len(calls[i]) : calls'[i][k] = calls[i][k]
          /\ \A l \in Items \ {i} : calls'[l] = calls[l]
      BY <1>0, <1>4, AnswerAppends DEF Backoff, Replies
    <2>2. CASE i # j
      BY <1>0, <1>4, <2>1, <2>2, ItemUntouched DEF Backoff, Answer, TypeOK
    <2>3. CASE i = j
      <3>1. /\ Len(calls[j]) = attempt[j] /\ attempt[j] \in 0 .. MaxRetries /\ verdict[j] = "none"
            /\ \A k \in 1 .. attempt[j] : calls[j][k] = "transient"
        BY <1>0, <1>4, <2>3 DEF Backoff, Answer, ItemInv, Counted, BudgetLeft, TypeOK
      <3>2. phase'[j] = "sleeping" /\ attempt'[j] = attempt[j] + 1 /\ verdict'[j] = verdict[j]
        BY <1>0, <1>4, <2>3 DEF Backoff, Answer, TypeOK
      <3>3. /\ Len(calls'[j]) = attempt[j] + 1 /\ calls'[j][attempt[j] + 1] = "transient"
            /\ \A k \in 1 .. attempt[j] : calls'[j][k] = "transient"
        BY <2>1, <2>3, <3>1
      <3>4. Counted(j)'
        <4>1. \A k \in 1 .. attempt'[j] : calls'[j][k] = "transient"
          BY <3>1, <3>2, <3>3
        <4> QED BY <3>1, <3>2, <3>3, <4>1 DEF Counted
      <3>5. Given(j)' /\ Matches(j)'
        BY <3>1, <3>2 DEF Given, Matches
      <3> QED BY <3>4, <3>5 DEF ItemInv
    <2> QED BY <2>2, <2>3
  <1>5. ASSUME NEW i \in Items, Wake(i) PROVE ItemInv(j)'
    BY <1>0, <1>5 DEF Wake, TypeOK, ItemInv, Counted, Given, Matches
  <1>6. ASSUME NEW i \in Items, Join(i) PROVE ItemInv(j)'
    BY <1>0, <1>6 DEF Join, TypeOK, ItemInv, Counted, Given, Matches
  <1>7. CASE Return
    BY <1>0, <1>7, ItemUntouched DEF Return
  <1>8. CASE UNCHANGED vars
    BY <1>0, <1>8, ItemUntouched DEF vars
  <1> QED
    BY <1>1, <1>2, <1>3, <1>4, <1>5, <1>6, <1>7, <1>8 DEF Next, TaskStep

LEMMA CallsInvariant == Spec => []CallsInv
  <1>1. Init => CallsInv
    BY BatchAssumption DEF Init, CallsInv, CallsCounted, VerdictGiven, VerdictMatchesCalls
  <1> QED BY <1>1, Inductive, CallsInductive, PTL DEF Spec

(* The summary of a batch that has returned, from the order of its results. *)
LEMMA SummaryFromCalls == IInv /\ CallsInv => SummaryTruthful
  <1> SUFFICES ASSUME IInv, CallsInv, returned PROVE SummaryTruthful
    BY DEF SummaryTruthful
  <1> DEFINE ok == {k \in DOMAIN results : verdict[results[k]] = "ok"}
  <1>1. /\ DOMAIN results = Items /\ Len(results) = NItems
        /\ \A k \in Items : results[k] = k
    BY DEF IInv, TypeOK, ReturnedInInputOrder, Items
  <1>2. \A i \in Items : verdict[i] = "ok" <=> calls[i][Len(calls[i])] = "ok"
    <2>1. \A i \in Items : phase[i] = "joined"
      BY DEF IInv, CollectedOnce, Joined
    <2> QED BY <2>1 DEF CallsInv, VerdictGiven, VerdictMatchesCalls
  <1>3. ok \subseteq Items /\ Items \ ok = {i \in Items : calls[i][Len(calls[i])] # "ok"}
    BY <1>1, <1>2
  <1>4. Cardinality(ok) + Cardinality(Items \ ok) = NItems
    <2>1. IsFiniteSet(Items) /\ Cardinality(Items) = NItems
      BY FS_Interval, BatchAssumption DEF Items
    <2>2. IsFiniteSet(ok) /\ IsFiniteSet(Items \ ok)
      BY <1>3, <2>1, FS_Subset
    <2>3. ok \cap (Items \ ok) = {} /\ ok \cup (Items \ ok) = Items
      BY <1>3
    <2>4. Cardinality(Items) = Cardinality(ok) + Cardinality(Items \ ok) - Cardinality({})
      BY <2>2, <2>3, FS_Union
    <2>5. Cardinality(ok) \in Nat /\ Cardinality(Items \ ok) \in Nat /\ Cardinality({}) = 0
      BY <2>2, FS_CardinalityType, FS_EmptySet
    <2> HIDE DEF ok
    <2> QED BY <2>1, <2>4, <2>5
  <1>5. {results[k] : k \in Items \ ok} = Items \ ok
    BY <1>1
  <1>6. Summary = [total |-> NItems, succeeded |-> Cardinality(ok),
                   failed |-> Cardinality(Items \ ok), failures |-> Items \ ok]
    BY <1>1, <1>5 DEF Summary
  <1> HIDE DEF ok
  <1> QED BY <1>3, <1>4, <1>6 DEF SummaryTruthful

(* A result and the summary of parallel.rs say what the operation answered: no *)
(* item is counted as a success whose last call failed, none is called         *)
(* exhausted before its whole budget is spent, and the counts of a returned    *)
(* batch add up to its length (ResultsTruthful).                               *)
THEOREM ResultsSayWhatCallsSaid == Spec => []ResultsTruthful
  <1>1. IInv /\ CallsInv => ResultsTruthful
    BY SummaryFromCalls DEF CallsInv, ResultsTruthful
  <1> QED BY <1>1, Inductive, CallsInvariant, PTL

-----------------------------------------------------------------------------
(* The refinement of CollectAll. *)

LEMMA PromiseInit == Init => Promise!Init
  BY DEF Init, Promise!Init

(* A final answer decides its item, the return reports, the rest stutters. *)
LEMMA PromiseStep == IInv /\ CallsInv /\ [Next]_vars => [Promise!Next]_(Promise!vars)
  <1> SUFFICES ASSUME IInv, CallsInv, [Next]_vars
               PROVE  [Promise!Next]_(Promise!vars)
    OBVIOUS
  <1> DEFINE abs(v) == CASE v = "none" -> "pending" [] v = "ok" -> "ok" [] OTHER -> "failed"
  <1>0. verdict \in [Items -> Verdicts \cup {"none"}] /\ phase \in [Items -> {"queued", "calling", "sleeping", "finished", "joined"}]
    BY DEF IInv, TypeOK
  <1>1. ASSUME NEW i \in Items, NEW v \in Verdicts, phase[i] = "calling",
               verdict' = [verdict EXCEPT ![i] = v], returned' = returned
        PROVE  Promise!Next
    <2>1. verdict[i] = "none"
      BY <1>1 DEF CallsInv, CallsCounted
    <2>2. [k \in Items |-> abs(verdict'[k])]
            = [[k \in Items |-> abs(verdict[k])] EXCEPT ![i] = abs(v)]
      BY <1>0, <1>1
    <2>3. abs(v) \in {"ok", "failed"}
      BY <1>1 DEF Verdicts
    <2>4. Promise!Decide(i)
      BY <1>1, <2>1, <2>2, <2>3 DEF Promise!Decide
    <2> QED BY <2>4 DEF Promise!Next
  <1>2. ASSUME verdict' = verdict, returned' = returned
        PROVE  UNCHANGED Promise!vars
    BY <1>2 DEF Promise!vars
  <1>3. ASSUME NEW i \in Items, Succeed(i) PROVE Promise!Next
    BY <1>1, <1>3 DEF Succeed, Answer, Finish, Verdicts
  <1>4. ASSUME NEW i \in Items, GiveUp(i) PROVE Promise!Next
    <2>1. PICK v \in Verdicts : Finish(i, v)
      BY <1>4 DEF GiveUp, Verdicts
    <2> QED BY <1>1, <1>4, <2>1 DEF GiveUp, Answer, Finish
  <1>5. ASSUME NEW i \in Items, Acquire(i) \/ Backoff(i) \/ Wake(i) \/ Join(i)
        PROVE  UNCHANGED Promise!vars
    BY <1>2, <1>5 DEF Acquire, Backoff, Answer, Wake, Join
  <1>6. ASSUME Return PROVE Promise!Next
    <2>1. \A i \in Items : verdict[i] # "none"
      BY <1>6 DEF Return, CallsInv, VerdictGiven
    <2>2. Promise!Report
      BY <1>0, <1>6, <2>1 DEF Return, Promise!Report, Verdicts
    <2> QED BY <2>2 DEF Promise!Next
  <1>7. CASE UNCHANGED vars
    BY <1>2, <1>7 DEF vars
  <1> QED
    BY <1>3, <1>4, <1>5, <1>6, <1>7 DEF Next, TaskStep

(* execute_parallel implements the collect-all promise: each item is decided   *)
(* once and for good, and the batch is reported when all of them are           *)
(* (ImplementsCollectAll).                                                     *)
THEOREM Refinement == Spec => ImplementsCollectAll
  <1> QED
    BY PromiseInit, PromiseStep, Inductive, CallsInvariant, PTL
    DEF Spec, ImplementsCollectAll, Promise!Spec
=============================================================================

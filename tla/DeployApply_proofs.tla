-------------------------- MODULE DeployApply_proofs --------------------------
(***************************************************************************)
(* Proofs about DeployApply, for every set of changesets, every concurrency  *)
(* and both modes.                                                           *)
(***************************************************************************)
EXTENDS DeployApply, FiniteSetTheorems, TLAPS

-----------------------------------------------------------------------------
(* Helpers. *)

LEMMA TierIsInt == ASSUME NEW type PROVE DeployTier(type) \in 0 .. 12
  <1>1. \A priority : TierOf(priority) \in 0 .. 12
    BY DEF TierOf
  <1>2. QED
    BY <1>1 DEF DeployTier

\* The changes are numbered from 1, and each is a change.
LEMMA ChangesetType ==
    ASSUME ApplyAssumption, changeset \in Changesets
    PROVE  /\ Idx \subseteq Nat
           /\ IsFiniteSet(Idx)
           /\ \A i \in Idx : changeset[i] \in Change
  <1>1. changeset \in Seq(Change)
    BY DEF ApplyAssumption
  <1>2. PICK n \in Nat : changeset \in [1 .. n -> Change]
    BY <1>1
  <1>3. Idx = 1 .. n
    BY <1>2 DEF Idx
  <1>4. IsFiniteSet(1 .. n)
    BY <1>2, FS_Interval
  <1>5. QED
    BY <1>2, <1>3, <1>4

\* An arrangement is a sequence of all of its set.
LEMMA ArrangementType ==
    ASSUME NEW S, IsFiniteSet(S), NEW s \in Arrangements(S)
    PROVE  /\ s \in Seq(S)
           /\ \A i \in S : \E k \in DOMAIN s : s[k] = i
           /\ S # {} => s # << >>
  <1>1. Cardinality(S) \in Nat
    BY FS_CardinalityType
  <1>2. /\ s \in [1 .. Cardinality(S) -> S]
        /\ \A i \in S : \E k \in DOMAIN s : s[k] = i
    BY DEF Arrangements
  <1>3. s \in Seq(S)
    BY <1>1, <1>2
  <1>4. S # {} => s # << >>
    <2>1. SUFFICES ASSUME S # {}, s = << >> PROVE FALSE
      OBVIOUS
    <2>2. PICK i \in S : TRUE
      BY <2>1
    <2>3. PICK k \in DOMAIN s : s[k] = i
      BY <1>2, <2>2
    <2>4. QED
      BY <2>1, <2>3
  <1>5. QED
    BY <1>2, <1>3, <1>4

\* A list of sequences of a set, none of them empty, with all of its elements.
ListsAll(g, S) ==
    /\ g \in Seq(Seq(S) \ {<< >>})
    /\ \A i \in S : \E k \in DOMAIN g : \E m \in DOMAIN g[k] : g[k][m] = i

\* A group is listed as nothing, or as one sequence of all of its changes.
LEMMA GroupListType ==
    ASSUME NEW S, IsFiniteSet(S), NEW g \in GroupLists(S)
    PROVE  ListsAll(g, S)
  <1>1. CASE S = {}
    <2>1. g = << >>
      BY <1>1 DEF GroupLists
    <2>2. QED
      BY <1>1, <2>1 DEF ListsAll
  <1>2. CASE S # {}
    <2>1. PICK s \in GroupOrders(S) : g = <<s>>
      BY <1>2 DEF GroupLists
    <2>2. s \in Arrangements(S)
      BY <2>1 DEF GroupOrders
    <2>3. /\ s \in Seq(S) \ {<< >>}
          /\ \A i \in S : \E k \in DOMAIN s : s[k] = i
      BY <1>2, <2>2, ArrangementType
    <2>4. DOMAIN g = {1} /\ g[1] = s /\ g \in Seq(Seq(S) \ {<< >>})
      BY <2>1, <2>3
    <2>5. QED
      BY <2>3, <2>4 DEF ListsAll
  <1>3. QED
    BY <1>1, <1>2

\* Two groups, one after the other, list the changes of both.
LEMMA TwoGroupLists ==
    ASSUME NEW A, NEW B, IsFiniteSet(A), IsFiniteSet(B),
           NEW f \in GroupLists(A), NEW p \in GroupLists(B)
    PROVE  ListsAll(f \o p, A \cup B)
  <1> DEFINE g == f \o p
  <1>0. ListsAll(f, A) /\ ListsAll(p, B)
    BY GroupListType
  <1>1. /\ f \in Seq(Seq(A) \ {<< >>})
        /\ \A i \in A : \E k \in DOMAIN f : \E m \in DOMAIN f[k] : f[k][m] = i
    BY <1>0 DEF ListsAll
  <1>2. /\ p \in Seq(Seq(B) \ {<< >>})
        /\ \A i \in B : \E k \in DOMAIN p : \E m \in DOMAIN p[k] : p[k][m] = i
    BY <1>0 DEF ListsAll
  <1>3. \A S, T : S \subseteq T => Seq(S) \subseteq Seq(T)
    OBVIOUS
  <1>4. /\ Seq(A) \ {<< >>} \subseteq Seq(A \cup B) \ {<< >>}
        /\ Seq(B) \ {<< >>} \subseteq Seq(A \cup B) \ {<< >>}
    BY <1>3
  <1>5. /\ f \in Seq(Seq(A \cup B) \ {<< >>})
        /\ p \in Seq(Seq(A \cup B) \ {<< >>})
    BY <1>1, <1>2, <1>3, <1>4
  <1>6. \A V : f \in Seq(V) /\ p \in Seq(V) =>
          /\ f \o p \in Seq(V)
          /\ \A k \in DOMAIN f : k \in DOMAIN (f \o p) /\ (f \o p)[k] = f[k]
          /\ \A k \in DOMAIN p : Len(f) + k \in DOMAIN (f \o p) /\ (f \o p)[Len(f) + k] = p[k]
    OBVIOUS
  <1>7. /\ g \in Seq(Seq(A \cup B) \ {<< >>})
        /\ \A k \in DOMAIN f : k \in DOMAIN g /\ g[k] = f[k]
        /\ \A k \in DOMAIN p : Len(f) + k \in DOMAIN g /\ g[Len(f) + k] = p[k]
    BY <1>5, <1>6
  <1> HIDE DEF g
  <1>8. ASSUME NEW i \in A PROVE \E k \in DOMAIN g : \E m \in DOMAIN g[k] : g[k][m] = i
    <2>1. PICK k \in DOMAIN f : \E m \in DOMAIN f[k] : f[k][m] = i
      BY <1>1
    <2>2. k \in DOMAIN g /\ g[k] = f[k]
      BY <1>7
    <2>3. QED
      BY <2>1, <2>2
  <1>9. ASSUME NEW i \in B PROVE \E k \in DOMAIN g : \E m \in DOMAIN g[k] : g[k][m] = i
    <2>1. PICK k \in DOMAIN p : \E m \in DOMAIN p[k] : p[k][m] = i
      BY <1>2
    <2>2. Len(f) + k \in DOMAIN g /\ g[Len(f) + k] = p[k]
      BY <1>7
    <2>3. QED
      BY <2>1, <2>2
  <1>10. QED
    BY <1>7, <1>8, <1>9 DEF g, ListsAll

\* The next queue of the main task holds changes, and all of its set.
LEMMA OrderType ==
    ASSUME NEW S, IsFiniteSet(S), NEW s \in DeployOrders(S) \cup DeleteOrders(S)
    PROVE  /\ s \in Seq(S)
           /\ \A i \in S : \E k \in DOMAIN s : s[k] = i
  <1>1. s \in Arrangements(S)
    BY DEF DeployOrders, DeleteOrders
  <1>2. QED
    BY <1>1, ArrangementType

LEMMA SubsetsFinite ==
    ASSUME ApplyAssumption, changeset \in Changesets
    PROVE  /\ IsFiniteSet(Deletes)
           /\ \A t : IsFiniteSet(Unordered(t))
           /\ \A t, type : IsFiniteSet(Group(t, type))
  <1>1. IsFiniteSet(Idx)
    BY ChangesetType
  <1>2. Deletes \in SUBSET Idx
    BY DEF Deletes
  <1>3. \A t : Unordered(t) \in SUBSET Idx
    BY DEF Unordered, Deployed
  <1>4. \A t, type : Group(t, type) \in SUBSET Idx
    BY DEF Group, Deployed
  <1>5. QED
    BY <1>1, <1>2, <1>3, <1>4, FS_Subset

LEMMA ResolvableType ==
    ASSUME ApplyAssumption, changeset \in Changesets, NEW i \in Idx
    PROVE  Resolvable(i) \in SUBSET (RefKinds \X Nat)
  <1>1. changeset[i].refs \in SUBSET (RefKinds \X Nat)
    BY ChangesetType DEF Change
  <1>2. QED
    BY <1>1 DEF Resolvable

LEMMA FirstStepType == ASSUME NEW i PROVE FirstStep(i) \in Running \cup Over
  BY DEF FirstStep, Running, Over

LEMMA FirstStepIsTask == ASSUME NEW i PROVE FirstStep(i) \in TaskStates
  BY FirstStepType DEF TaskStates

-----------------------------------------------------------------------------
(* The inductive invariant. *)

InQueue(i) == \E k \in DOMAIN queue : queue[k] = i
InGroups(i) == \E k \in DOMAIN groups : \E m \in DOMAIN groups[k] : groups[k][m] = i

\* A create that may still be sent has an attempt left.
TriesLeft ==
    \A i \in Idx :
        task[i] \in Sleeping \cup {"creating", "waiting"} => tries[i] < MaxNameTries

\* Work is only ever begun on a change of a tier that was reached, or, without a
\* task of its own, on a delete after the last tier; only such a change reaches the workspace.
BegunInTurn ==
    /\ \A i \in Idx : task[i] # "idle" =>
        \/ i \in Deployed /\ TierOfChange(i) <= tier
        \/ i \in Deletes /\ task[i] # "queued" /\ stage \in {"deletes", "returned", "exited"}
    /\ \A i \in applied : task[i] # "idle"

\* The queue and the groups hold what the stage says.
QueueOfStage ==
    /\ stage \in {"serial", "collect"} =>
        \A k \in DOMAIN queue : queue[k] \in Deployed /\ TierOfChange(queue[k]) <= tier
    /\ stage = "deletes" => \A k \in DOMAIN queue : queue[k] \in Deletes
    /\ stage \notin {"serial", "collect", "deletes"} => queue = << >>
    /\ \A k \in DOMAIN groups : \A m \in DOMAIN groups[k] :
        groups[k][m] \in Deployed /\ TierOfChange(groups[k][m]) <= tier
    /\ stage \notin {"serial", "collect", "group"} => groups = << >>
    /\ stage = "group" => groups # << >>
    /\ stage \in {"deletes", "returned"} => \A i \in Deployed : TierOfChange(i) <= tier

\* The lists of the result are true.
ListsTrue ==
    /\ \A i \in succeeded : task[i] \in {"ok", "okNoId"}
    /\ \A i \in failed : task[i] = "failed"

\* Unless fail-fast has seen a failure, every change whose turn has come is
\* listed or still in hand.
NoneLost ==
    \/ failFast /\ failed # {}
    \/ /\ \A i \in Deployed : TierOfChange(i) <= tier =>
            i \in succeeded \cup failed \/ InQueue(i) \/ InGroups(i)
       /\ stage \in {"deletes", "returned"} =>
            \A d \in Deletes : d \in succeeded \cup failed \/ InQueue(d)

IInv == TypeOK /\ TriesLeft /\ BegunInTurn /\ QueueOfStage /\ ListsTrue /\ NoneLost
        /\ DeletesLast

\* What only depends on the changeset stays.
LEMMA Frame ==
    ASSUME changeset' = changeset
    PROVE  /\ Idx' = Idx
           /\ Deployed' = Deployed
           /\ Deletes' = Deletes
           /\ \A i : TierOfChange(i)' = TierOfChange(i)
  BY DEF Idx, Deployed, Deletes, TierOfChange, Type, Action

LEMMA DisjointChanges == Deployed \cap Deletes = {}
  BY DEF Deployed, Deletes

LEMMA InitInductive == ASSUME ApplyAssumption, Init PROVE IInv
  <1> USE DEF Init
  <1>1. TypeOK
    <2>1. changeset \in Changesets
      OBVIOUS
    <2>2. 0 \in 0 .. MaxNameTries
      BY DEF ApplyAssumption
    <2>3. tries \in [Idx -> 0 .. MaxNameTries]
      BY <2>2 DEF Idx
    <2>4. task \in [Idx -> TaskStates]
      BY DEF TaskStates, Sleeping, Idx
    <2>5. createdIds \subseteq Idx
      BY DEF WithDeployedId, Idx
    <2>6. bound \in [Idx -> SUBSET (RefKinds \X Nat)]
      BY DEF Idx
    <2>7. stage \in Stages /\ tier \in Int /\ queue \in Seq(Idx)
          /\ groups \in Seq(Seq(Idx) \ {<< >>})
      BY DEF Stages
    <2>8. QED
      BY <2>1, <2>3, <2>4, <2>5, <2>6, <2>7 DEF TypeOK
  <1>2. \A i \in Idx : task[i] = "idle" /\ tries[i] = 0
    BY DEF Idx
  <1>3. TriesLeft
    BY <1>2 DEF TriesLeft, ApplyAssumption
  <1>4. BegunInTurn
    BY <1>2 DEF BegunInTurn
  <1>5. QueueOfStage
    BY DEF QueueOfStage
  <1>6. ListsTrue
    BY DEF ListsTrue
  <1>7. NoneLost
    <2>1. \A i \in Deployed : TierOfChange(i) \in 0 .. 12
      BY TierIsInt DEF TierOfChange
    <2>2. \A i \in Deployed : ~ (TierOfChange(i) <= tier)
      BY <2>1
    <2>3. QED
      BY <2>2 DEF NoneLost
  <1>8. DeletesLast
    BY <1>2 DEF DeletesLast, Started, Sleeping, Deletes
  <1>9. QED
    BY <1>1, <1>3, <1>4, <1>5, <1>6, <1>7, <1>8 DEF IInv

-----------------------------------------------------------------------------
(* The steps of one change. *)

\* Such a step moves one change that was at work, or waited for a permit, on to
\* a state in which it is at work or over, and changes nothing of the main task.
LEMMA TaskStepEffect ==
    ASSUME ApplyAssumption, TypeOK, TriesLeft, NEW i \in Idx, TaskStep(i)
    PROVE  /\ changeset' = changeset /\ failFast' = failFast /\ UNCHANGED mainVars /\ bound' = bound
           /\ task[i] \in Running \cup {"queued"}
           /\ \E next \in Running \cup Over : Reply(i, next)
           /\ applied' \in {applied, applied \cup {i}}
           /\ tries' \in [Idx -> 0 .. MaxNameTries]
           /\ TriesLeft'
  <1>1. changeset' = changeset /\ failFast' = failFast /\ UNCHANGED mainVars /\ bound' = bound
    BY DEF TaskStep, Acquire, PostCreate, RetryCreate, RestoreIdentity, PatchName,
           UpdateDefinition, DeleteItem
  <1>2. task[i] \in Running \cup {"queued"}
    BY DEF TaskStep, Acquire, PostCreate, RetryCreate, RestoreIdentity, PatchName,
           UpdateDefinition, DeleteItem, Running
  <1>3. applied' \in {applied, applied \cup {i}}
    BY DEF TaskStep, Acquire, PostCreate, RetryCreate, RestoreIdentity, PatchName,
           UpdateDefinition, DeleteItem, Answered
  <1>4. {"creating", "waiting", "restoring", "updating", "ok", "okNoId", "failed"}
            \subseteq Running \cup Over
    BY DEF Running, Over
  <1>5. \E next \in Running \cup Over :
            /\ Reply(i, next)
            /\ tries' \in [Idx -> 0 .. MaxNameTries]
            /\ next \in {"creating", "waiting"} => tries'[i] < MaxNameTries
            /\ \A j \in Idx \ {i} : tries'[j] = tries[j]
    <2>1. CASE Acquire(i)
      <3>1. tries[i] < MaxNameTries /\ tries' = tries
        BY <2>1 DEF Acquire, TriesLeft, Sleeping
      <3>2. FirstStep(i) \in Running \cup Over /\ Reply(i, FirstStep(i))
        BY <2>1, FirstStepType DEF Acquire
      <3>3. QED
        BY <3>1, <3>2 DEF TypeOK
    <2>2. CASE PostCreate(i)
      <3>1. tries[i] < MaxNameTries
        BY <2>2 DEF PostCreate, TriesLeft
      <3>2. CASE UNCHANGED tries
        <4>1. \E next \in {"restoring", "ok", "okNoId", "failed"} : Reply(i, next)
          BY <2>2, <3>2, <3>1 DEF PostCreate, Answered, TypeOK, ApplyAssumption
        <4>2. QED
          BY <4>1, <3>2, <1>4 DEF TypeOK
      <3>3. CASE ~ UNCHANGED tries
        <4>1. /\ tries' = [tries EXCEPT ![i] = @ + 1]
              /\ Reply(i, IF tries'[i] < MaxNameTries THEN "waiting" ELSE "failed")
          BY <2>2, <3>3 DEF PostCreate
        <4>2. tries[i] \in 0 .. MaxNameTries /\ MaxNameTries \in Nat
          BY DEF TypeOK, ApplyAssumption
        <4>3. tries[i] + 1 \in 0 .. MaxNameTries
          BY <4>2, <3>1
        <4>4. /\ tries' \in [Idx -> 0 .. MaxNameTries]
              /\ \A j \in Idx \ {i} : tries'[j] = tries[j]
          BY <4>1, <4>3 DEF TypeOK
        <4>5. CASE tries'[i] < MaxNameTries
          BY <4>1, <4>4, <4>5, <1>4
        <4>6. CASE ~ (tries'[i] < MaxNameTries)
          BY <4>1, <4>4, <4>6, <1>4
        <4>7. QED
          BY <4>5, <4>6
      <3>4. QED
        BY <3>2, <3>3
    <2>3. CASE RetryCreate(i)
      BY <2>3, <1>4 DEF RetryCreate, TriesLeft, TypeOK
    <2>4. CASE RestoreIdentity(i)
      BY <2>4, <1>4 DEF RestoreIdentity, TypeOK
    <2>5. CASE PatchName(i) \/ UpdateDefinition(i) \/ DeleteItem(i)
      BY <2>5, <1>4 DEF PatchName, UpdateDefinition, DeleteItem, Answered, TypeOK
    <2>6. QED
      BY <2>1, <2>2, <2>3, <2>4, <2>5 DEF TaskStep
  <1>6. TriesLeft'
    <2>1. PICK next \in Running \cup Over :
            /\ Reply(i, next)
            /\ next \in {"creating", "waiting"} => tries'[i] < MaxNameTries
            /\ \A j \in Idx \ {i} : tries'[j] = tries[j]
      BY <1>5
    <2>2. next \notin Sleeping
      BY DEF Running, Over, Sleeping
    <2>3. task'[i] = next /\ \A j \in Idx \ {i} : task'[j] = task[j]
      BY <2>1 DEF Reply, TypeOK
    <2>4. Idx' = Idx
      BY <1>1, Frame
    <2>5. QED
      BY <2>1, <2>2, <2>3, <2>4 DEF TriesLeft
  <1>7. QED
    BY <1>1, <1>2, <1>3, <1>5, <1>6

LEMMA TaskStepInductive ==
    ASSUME ApplyAssumption, IInv, NEW i \in Idx, TaskStep(i)
    PROVE  IInv'
  <1>0. /\ TypeOK /\ TriesLeft /\ BegunInTurn /\ QueueOfStage /\ ListsTrue /\ NoneLost
        /\ DeletesLast
    BY DEF IInv
  <1>1. /\ changeset' = changeset /\ failFast' = failFast /\ UNCHANGED mainVars /\ bound' = bound
        /\ task[i] \in Running \cup {"queued"}
        /\ applied' \in {applied, applied \cup {i}}
        /\ tries' \in [Idx -> 0 .. MaxNameTries]
        /\ TriesLeft'
    BY <1>0, TaskStepEffect
  <1>2. PICK next \in Running \cup Over : Reply(i, next)
    BY <1>0, TaskStepEffect
  <1>3. /\ task' \in [Idx -> TaskStates]
        /\ task'[i] = next
        /\ \A j \in Idx \ {i} : task'[j] = task[j]
    BY <1>0, <1>2 DEF Reply, TypeOK, TaskStates
  <1>4. /\ Idx' = Idx /\ Deployed' = Deployed /\ Deletes' = Deletes
        /\ \A j : TierOfChange(j)' = TierOfChange(j)
    BY <1>1, Frame
  <1>5. /\ task[i] \notin Over /\ task[i] # "idle"
        /\ next \notin Sleeping
    BY <1>1 DEF Running, Over, Sleeping
  <1>6. TypeOK'
    BY <1>0, <1>1, <1>3, <1>4 DEF TypeOK, mainVars
  <1>7. BegunInTurn'
    BY <1>0, <1>1, <1>3, <1>4, <1>5 DEF BegunInTurn, mainVars, TypeOK, Sleeping
  <1>8. QueueOfStage'
    BY <1>0, <1>1, <1>4 DEF QueueOfStage, mainVars
  <1>9. ListsTrue'
    BY <1>0, <1>1, <1>3, <1>5 DEF ListsTrue, mainVars, TypeOK, Over
  <1>10. NoneLost'
    BY <1>0, <1>1, <1>4 DEF NoneLost, mainVars, InQueue, InGroups
  <1>11. DeletesLast'
    <2>1. Deployed \subseteq Idx /\ Deletes \subseteq Idx
      BY DEF Deployed, Deletes
    <2>2. SUFFICES ASSUME NEW d \in Deletes, NEW j \in Deployed, Started(d)'
                   PROVE  Ended(j)' /\ (failFast => task'[j] # "failed")
      BY <1>1, <1>4 DEF DeletesLast
    <2>3. CASE i = j
      <3>1. d # i
        BY <2>3, DisjointChanges
      <3>2. Started(d)
        BY <2>1, <2>2, <3>1, <1>3 DEF Started
      <3>3. Ended(j)
        BY <1>0, <3>2 DEF DeletesLast
      <3>4. QED
        BY <3>3, <2>3, <1>5 DEF Ended
    <2>4. CASE i # j
      <3>1. task'[j] = task[j]
        BY <2>1, <2>4, <1>3
      <3>2. d = i \/ Started(d)
        BY <2>1, <2>2, <1>3 DEF Started
      <3>3. CASE Started(d)
        BY <3>1, <3>3, <1>0 DEF DeletesLast, Ended
      <3>4. CASE d = i /\ ~ Started(d)
        <4>1. task[d] = "queued" /\ d \in Idx \ Deployed
          BY <2>1, <3>4, <1>5, DisjointChanges DEF Started, Sleeping
        <4>2. QED
          BY <4>1, <1>0 DEF BegunInTurn
      <3>5. QED
        BY <3>2, <3>3, <3>4
    <2>5. QED
      BY <2>3, <2>4
  <1>12. QED
    BY <1>1, <1>6, <1>7, <1>8, <1>9, <1>10, <1>11 DEF IInv

-----------------------------------------------------------------------------
(* The main task: steps that leave every change and the lists as they are. *)

LEMMA TailElements ==
    ASSUME NEW S, NEW s \in Seq(S), s # << >>
    PROVE  /\ Head(s) \in S /\ 1 \in DOMAIN s /\ s[1] = Head(s)
           /\ Tail(s) \in Seq(S)
           /\ \A k \in DOMAIN s : s[k] = Head(s) \/ \E m \in DOMAIN Tail(s) : Tail(s)[m] = s[k]
           /\ \A m \in DOMAIN Tail(s) : \E k \in DOMAIN s : s[k] = Tail(s)[m]
  <1>1. /\ Len(s) \in Nat /\ Len(s) # 0 /\ DOMAIN s = 1 .. Len(s)
        /\ Tail(s) \in Seq(S) /\ Head(s) = s[1]
        /\ Len(Tail(s)) = Len(s) - 1
        /\ DOMAIN Tail(s) = 1 .. Len(s) - 1
        /\ \A m \in 1 .. Len(s) - 1 : Tail(s)[m] = s[m + 1]
    OBVIOUS
  <1>2. ASSUME NEW k \in DOMAIN s
        PROVE  s[k] = Head(s) \/ \E m \in DOMAIN Tail(s) : Tail(s)[m] = s[k]
    <2>1. CASE k = 1
      BY <1>1, <2>1
    <2>2. CASE k # 1
      <3>1. k - 1 \in DOMAIN Tail(s) /\ Tail(s)[k - 1] = s[k]
        BY <1>1, <2>2
      <3>2. QED
        BY <3>1
    <2>3. QED
      BY <2>1, <2>2
  <1>3. ASSUME NEW m \in DOMAIN Tail(s)
        PROVE  \E k \in DOMAIN s : s[k] = Tail(s)[m]
    <2>1. m + 1 \in DOMAIN s /\ s[m + 1] = Tail(s)[m]
      BY <1>1
    <2>2. QED
      BY <2>1
  <1>4. Head(s) \in S
    BY <1>1
  <1>5. QED
    BY <1>1, <1>2, <1>3, <1>4

LEMMA QuietStep ==
    ASSUME ApplyAssumption, IInv, changeset' = changeset /\ failFast' = failFast,
           UNCHANGED <<tier, task, tries, succeeded, failed, applied>>,
           stage \in {"deletes", "returned", "exited"} =>
                stage' \in {"deletes", "returned", "exited"}
    PROVE  TriesLeft' /\ BegunInTurn' /\ ListsTrue' /\ DeletesLast'
  <1>1. /\ Idx' = Idx /\ Deployed' = Deployed /\ Deletes' = Deletes
        /\ \A j : TierOfChange(j)' = TierOfChange(j)
    BY Frame
  <1>2. TriesLeft' /\ ListsTrue'
    BY <1>1 DEF IInv, TriesLeft, ListsTrue
  <1>3. BegunInTurn'
    BY <1>1 DEF IInv, BegunInTurn
  <1>4. DeletesLast'
    BY <1>1 DEF IInv, DeletesLast, Started, Ended
  <1>5. QED
    BY <1>2, <1>3, <1>4

\* Steps that only choose the next stage or close the run.
LEMMA StageStepsInductive ==
    ASSUME ApplyAssumption, IInv,
           CheckIdentities \/ BeginTierCyclic \/ InterTierHooks \/ Exit \/ Return
    PROVE  IInv'
  <1>0. TypeOK /\ QueueOfStage /\ NoneLost
    BY DEF IInv
  <1>1. /\ changeset' = changeset /\ failFast' = failFast
        /\ UNCHANGED <<tier, task, tries, bound, groups, createdIds, shellIds,
                       succeeded, failed, applied>>
    BY DEF CheckIdentities, BeginTierCyclic, InterTierHooks, Exit, Return
  <1>2. /\ Idx' = Idx /\ Deployed' = Deployed /\ Deletes' = Deletes
        /\ \A j : TierOfChange(j)' = TierOfChange(j)
    BY <1>1, Frame
  <1>3. stage \in {"deletes", "returned", "exited"} =>
            stage' \in {"deletes", "returned", "exited"}
    BY DEF CheckIdentities, BeginTierCyclic, InterTierHooks, Exit, Return
  <1>4. stage' \in Stages
    BY DEF CheckIdentities, BeginTierCyclic, InterTierHooks, Exit, Return, Stages
  <1>5. /\ endpoints' \subseteq Idx /\ polled' \subseteq Idx /\ refreshed' \subseteq Idx
    BY <1>0 DEF CheckIdentities, BeginTierCyclic, InterTierHooks, Exit, Return, TypeOK,
                Rewirable
  <1>6. queue' = queue \/ queue' = << >>
    BY DEF CheckIdentities, BeginTierCyclic, InterTierHooks, Exit, Return
  <1>7. TypeOK'
    <2>1. queue' \in Seq(Idx)
      <3>1. queue \in Seq(Idx) /\ << >> \in Seq(Idx)
        BY <1>0 DEF TypeOK
      <3>2. QED
        BY <3>1, <1>6
    <2>2. /\ changeset' \in Changesets /\ failFast' \in BOOLEAN /\ tier' \in Int
          /\ groups' \in Seq(Seq(Idx) \ {<< >>})
          /\ task' \in [Idx -> TaskStates] /\ tries' \in [Idx -> 0 .. MaxNameTries]
          /\ bound' \in [Idx -> SUBSET (RefKinds \X Nat)]
      BY <1>0, <1>1 DEF TypeOK
    <2>3. /\ createdIds' \subseteq Idx /\ shellIds' \subseteq Nat
          /\ succeeded' \subseteq Idx /\ failed' \subseteq Idx /\ applied' \subseteq Idx
      BY <1>0, <1>1 DEF TypeOK
    <2>4. QED
      BY <2>1, <2>2, <2>3, <1>2, <1>4, <1>5 DEF TypeOK
  <1>8. QueueOfStage'
    <2>1. CASE Return
      BY <2>1, <1>0, <1>1, <1>2 DEF Return, QueueOfStage
    <2>2. CASE CheckIdentities \/ BeginTierCyclic \/ InterTierHooks \/ Exit
      BY <2>2, <1>0, <1>1, <1>2 DEF CheckIdentities, BeginTierCyclic, InterTierHooks,
                                    Exit, QueueOfStage
    <2>3. QED
      BY <2>1, <2>2
  <1>9. NoneLost'
    <2>1. CASE Return
      <3>1. stage = "deletes" /\ groups = << >> /\ groups' = groups
        BY <2>1, <1>0 DEF Return, QueueOfStage
      <3>2. CASE queue = << >>
        <4>1. queue' = queue
          BY <2>1, <3>2 DEF Return
        <4>2. QED
          BY <4>1, <3>1, <1>0, <1>1, <1>2 DEF NoneLost, InQueue, InGroups
      <3>3. CASE queue # << >>
        BY <2>1, <3>3, <1>1 DEF Return, LoopOver, MayStart, NoneLost
      <3>4. QED
        BY <3>2, <3>3
    <2>2. CASE CheckIdentities \/ BeginTierCyclic \/ InterTierHooks \/ Exit
      BY <2>2, <1>0, <1>1, <1>2 DEF CheckIdentities, BeginTierCyclic, InterTierHooks,
                                    Exit, NoneLost, InQueue, InGroups
    <2>3. QED
      BY <2>1, <2>2
  <1>10. QED
    BY <1>1, <1>3, <1>7, <1>8, <1>9, QuietStep DEF IInv

\* The end of a loop: whatever was left of the queue was given up by fail-fast.
LEMMA EndLoopInductive ==
    ASSUME ApplyAssumption, IInv, EndLoop
    PROVE  IInv'
  <1> USE DEF EndLoop
  <1>0. TypeOK /\ QueueOfStage /\ NoneLost
    BY DEF IInv
  <1>1. /\ Idx' = Idx /\ Deployed' = Deployed /\ Deletes' = Deletes
        /\ \A j : TierOfChange(j)' = TierOfChange(j)
    BY Frame
  <1>2. TypeOK'
    <2>1. queue' \in Seq(Idx) /\ stage' \in Stages
      BY DEF Stages
    <2>2. QED
      BY <2>1, <1>0, <1>1 DEF TypeOK
  <1>3. QueueOfStage'
    BY <1>0, <1>1 DEF QueueOfStage
  <1>4. NoneLost'
    <2>1. CASE queue = << >>
      BY <2>1, <1>0, <1>1 DEF NoneLost, InQueue, InGroups
    <2>2. CASE queue # << >>
      BY <2>2 DEF LoopOver, MayStart, NoneLost
    <2>3. QED
      BY <2>1, <2>2
  <1>5. QED
    BY <1>2, <1>3, <1>4, QuietStep DEF IInv

\* The next ordered group moves from the groups to the queue.
LEMMA NextGroupInductive ==
    ASSUME ApplyAssumption, IInv, NextGroup
    PROVE  IInv'
  <1> USE DEF NextGroup
  <1>0. TypeOK /\ QueueOfStage /\ NoneLost
    BY DEF IInv
  <1>1. /\ Idx' = Idx /\ Deployed' = Deployed /\ Deletes' = Deletes
        /\ \A j : TierOfChange(j)' = TierOfChange(j)
    BY Frame
  <1>2. groups # << >> /\ groups \in Seq(Seq(Idx) \ {<< >>})
    BY <1>0 DEF TypeOK, QueueOfStage
  <1>3. /\ queue' = Head(groups) /\ queue' \in Seq(Idx)
        /\ groups' = Tail(groups) /\ groups' \in Seq(Seq(Idx) \ {<< >>})
        /\ 1 \in DOMAIN groups /\ groups[1] = Head(groups)
        /\ \A k \in DOMAIN groups : groups[k] = Head(groups)
                                    \/ \E m \in DOMAIN groups' : groups'[m] = groups[k]
        /\ \A m \in DOMAIN groups' : \E k \in DOMAIN groups : groups[k] = groups'[m]
    BY <1>2, TailElements
  <1>4. shellIds' \subseteq Nat
    <2>1. ShellsOf(Head(groups)) \subseteq Nat
      <3>1. \A k \in DOMAIN Head(groups) : Head(groups)[k] \in Idx
        BY <1>3
      <3>2. \A i \in Idx : changeset[i].refs \in SUBSET (RefKinds \X Nat)
        BY <1>0, ChangesetType DEF Change, TypeOK
      <3>3. QED
        BY <3>1, <3>2 DEF ShellsOf
    <2>2. QED
      BY <2>1, <1>0 DEF TypeOK
  <1>5. TypeOK'
    BY <1>0, <1>1, <1>3, <1>4 DEF TypeOK, Stages
  <1>6. QueueOfStage'
    <2>1. \A k \in DOMAIN queue' : queue'[k] \in Deployed /\ TierOfChange(queue'[k]) <= tier
      BY <1>0, <1>3 DEF QueueOfStage
    <2>2. \A k \in DOMAIN groups' : \A m \in DOMAIN groups'[k] :
            groups'[k][m] \in Deployed /\ TierOfChange(groups'[k][m]) <= tier
      BY <1>0, <1>3 DEF QueueOfStage
    <2>3. QED
      BY <2>1, <2>2, <1>1 DEF QueueOfStage
  <1>7. NoneLost'
    <2>1. queue = << >>
      BY <1>0 DEF QueueOfStage
    <2>2. ASSUME NEW i, InGroups(i) PROVE InQueue(i)' \/ InGroups(i)'
      <3>1. PICK k \in DOMAIN groups : \E m \in DOMAIN groups[k] : groups[k][m] = i
        BY <2>2 DEF InGroups
      <3>2. CASE groups[k] = Head(groups)
        <4>1. groups[k] = queue'
          BY <3>2, <1>3
        <4>2. QED
          BY <3>1, <4>1 DEF InQueue
      <3>3. CASE \E n \in DOMAIN groups' : groups'[n] = groups[k]
        BY <3>1, <3>3 DEF InGroups
      <3>4. QED
        BY <1>3, <3>2, <3>3
    <2>3. QED
      BY <2>1, <2>2, <1>0, <1>1 DEF NoneLost, InQueue
  <1>8. QED
    BY <1>5, <1>6, <1>7, QuietStep DEF IInv

\* The deletes are taken up when no tier is left.
LEMMA BeginDeletesInductive ==
    ASSUME ApplyAssumption, IInv, BeginDeletes
    PROVE  IInv'
  <1> USE DEF BeginDeletes
  <1>0. TypeOK /\ QueueOfStage /\ NoneLost
    BY DEF IInv
  <1>1. /\ Idx' = Idx /\ Deployed' = Deployed /\ Deletes' = Deletes
        /\ \A j : TierOfChange(j)' = TierOfChange(j)
    BY Frame
  <1>2. /\ queue' \in Seq(Deletes)
        /\ \A d \in Deletes : \E k \in DOMAIN queue' : queue'[k] = d
    BY <1>0, SubsetsFinite, OrderType DEF TypeOK
  <1>3. TypeOK'
    <2>1. queue' \in Seq(Idx)
      BY <1>2 DEF Deletes
    <2>2. QED
      BY <2>1, <1>0, <1>1 DEF TypeOK, Stages
  <1>4. QueueOfStage'
    <2>1. \A k \in DOMAIN queue' : queue'[k] \in Deletes
      BY <1>2
    <2>2. \A i \in Deployed : TierOfChange(i) <= tier
      <3>1. \A i \in Deployed : TierOfChange(i) \in 0 .. 12
        BY TierIsInt DEF TierOfChange
      <3>2. TiersLeft = {} /\ tier \in Int
        BY <1>0 DEF TypeOK
      <3>3. SUFFICES ASSUME NEW i \in Deployed, TierOfChange(i) > tier PROVE FALSE
        BY <3>1, <3>2
      <3>4. TierOfChange(i) \in TiersLeft
        BY <3>3 DEF TiersLeft
      <3>5. QED
        BY <3>2, <3>4
    <2>3. QED
      BY <2>1, <2>2, <1>0, <1>1 DEF QueueOfStage
  <1>5. NoneLost'
    <2>1. queue = << >> /\ groups' = groups
      BY <1>0 DEF QueueOfStage
    <2>2. QED
      BY <2>1, <1>0, <1>1, <1>2 DEF NoneLost, InQueue, InGroups
  <1>6. QED
    BY <1>3, <1>4, <1>5, QuietStep DEF IInv

-----------------------------------------------------------------------------
(* The main task: steps that begin or list a change. *)

\* The next change of a serial loop, or the next delete, is begun.
LEMMA StartNextInductive ==
    ASSUME ApplyAssumption, IInv, StartNext
    PROVE  IInv'
  <1> DEFINE h == Head(queue)
  <1> USE DEF StartNext
  <1>0. /\ TypeOK /\ TriesLeft /\ BegunInTurn /\ QueueOfStage /\ ListsTrue /\ NoneLost
        /\ DeletesLast
    BY DEF IInv
  <1>1. /\ Idx' = Idx /\ Deployed' = Deployed /\ Deletes' = Deletes
        /\ \A j : TierOfChange(j)' = TierOfChange(j)
    BY Frame
  <1>2. h \in Idx /\ 1 \in DOMAIN queue /\ queue[1] = h
    BY <1>0, TailElements DEF TypeOK
  <1>3. PICK next \in Running \cup Over : task' = [task EXCEPT ![h] = next]
    BY FirstStepType DEF Reply
  <1>4. /\ task' \in [Idx -> TaskStates]
        /\ task'[h] = next /\ next \notin Sleeping
        /\ \A j \in Idx \ {h} : task'[j] = task[j]
    BY <1>0, <1>2, <1>3 DEF TypeOK, TaskStates, Running, Over, Sleeping
  <1>5. task[h] = "idle"
    BY DEF Fresh
  <1>6. TypeOK'
    <2>1. bound' \in [Idx -> SUBSET (RefKinds \X Nat)]
      BY <1>0, <1>2, ResolvableType DEF TypeOK
    <2>2. QED
      BY <2>1, <1>0, <1>1, <1>4 DEF TypeOK, mainVars
  <1>7. TriesLeft'
    BY <1>0, <1>1, <1>2, <1>4, <1>5 DEF TriesLeft, Sleeping, TypeOK
  <1>8. BegunInTurn'
    <2>1. \/ h \in Deployed /\ TierOfChange(h) <= tier
          \/ h \in Deletes /\ next # "queued" /\ stage \in {"deletes", "returned", "exited"}
      BY <1>0, <1>2, <1>4 DEF QueueOfStage, Sleeping
    <2>2. QED
      BY <2>1, <1>0, <1>1, <1>4 DEF BegunInTurn, mainVars, Sleeping, TypeOK
  <1>9. QueueOfStage' /\ NoneLost'
    BY <1>0, <1>1 DEF QueueOfStage, NoneLost, InQueue, InGroups, mainVars
  <1>10. ListsTrue'
    BY <1>0, <1>1, <1>4, <1>5 DEF ListsTrue, mainVars, TypeOK
  <1>11. DeletesLast'
    <2>1. Deployed \subseteq Idx /\ Deletes \subseteq Idx
      BY DEF Deployed, Deletes
    <2>2. SUFFICES ASSUME NEW d \in Deletes, NEW j \in Deployed, Started(d)'
                   PROVE  Ended(j)' /\ (failFast => task'[j] # "failed")
      BY <1>1 DEF DeletesLast
    <2>3. CASE Started(d)
      <3>1. Ended(j) /\ (failFast => task[j] # "failed")
        BY <1>0, <2>3 DEF DeletesLast
      <3>2. j # h
        BY <3>1, <1>5 DEF Ended, Over
      <3>3. QED
        BY <2>1, <3>1, <3>2, <1>4 DEF Ended
    <2>4. CASE ~ Started(d)
      <3>1. d = h
        BY <2>1, <2>2, <2>4, <1>4 DEF Started
      <3>2. stage = "deletes"
        BY <3>1, <1>0, <1>2, DisjointChanges DEF QueueOfStage
      <3>3. TierOfChange(j) <= tier
        BY <3>2, <1>0 DEF QueueOfStage
      <3>4. ~ InQueue(j) /\ ~ InGroups(j)
        BY <3>2, <1>0, DisjointChanges DEF QueueOfStage, InQueue, InGroups
      <3>5. /\ j \in succeeded \cup failed
            /\ failFast => j \in succeeded
        BY <3>3, <3>4, <1>0 DEF NoneLost, MayStart
      <3>6. Ended(j) /\ (failFast => task[j] # "failed")
        BY <3>5, <1>0 DEF ListsTrue, Ended, Over
      <3>7. QED
        BY <3>1, <3>6, <2>1, <1>4, DisjointChanges DEF Ended
    <2>5. QED
      BY <2>3, <2>4
  <1>12. QED
    BY <1>6, <1>7, <1>8, <1>9, <1>10, <1>11 DEF IInv

\* The first change of the queue is over and is listed.
LEMMA RecordInductive ==
    ASSUME ApplyAssumption, IInv, Record
    PROVE  IInv'
  <1> DEFINE h == Head(queue)
  <1>0. /\ TypeOK /\ TriesLeft /\ BegunInTurn /\ QueueOfStage /\ ListsTrue /\ NoneLost
        /\ DeletesLast
    BY DEF IInv
  <1>1. /\ stage \in {"serial", "collect", "deletes"}
        /\ queue # << >>
        /\ changeset' = changeset /\ failFast' = failFast
        /\ UNCHANGED <<stage, tier, groups, task, tries, bound, shellIds, endpoints,
                       polled, refreshed, applied>>
    BY DEF Record
  <1>2. /\ Idx' = Idx /\ Deployed' = Deployed /\ Deletes' = Deletes
        /\ \A j : TierOfChange(j)' = TierOfChange(j)
    BY <1>1, Frame
  <1>3. /\ h \in Idx /\ Tail(queue) \in Seq(Idx)
        /\ \A k \in DOMAIN queue : queue[k] = h
                \/ \E m \in DOMAIN Tail(queue) : Tail(queue)[m] = queue[k]
        /\ \A m \in DOMAIN Tail(queue) : \E k \in DOMAIN queue : queue[k] = Tail(queue)[m]
    BY <1>0, <1>1, TailElements DEF TypeOK
  <1>4. \/ /\ task[h] \in {"ok", "okNoId"}
           /\ succeeded' = succeeded \cup {h} /\ failed' = failed
           /\ createdIds' \in {createdIds, createdIds \cup {h}}
           /\ queue' = Tail(queue)
        \/ /\ task[h] = "failed"
           /\ succeeded' = succeeded /\ failed' = failed \cup {h}
           /\ createdIds' = createdIds
           /\ queue' \in {Tail(queue), << >>}
           /\ queue' = Tail(queue) \/ failFast
    <2>1. CASE task[h] = "failed"
      <3>1. /\ failed' = failed \cup {h} /\ succeeded' = succeeded
            /\ createdIds' = createdIds
            /\ queue' = IF stage = "collect" /\ failFast THEN << >> ELSE Tail(queue)
        BY <2>1 DEF Record
      <3>2. QED
        BY <2>1, <3>1
    <2>2. CASE task[h] # "failed"
      <3>1. /\ task[h] \in {"ok", "okNoId"}
            /\ succeeded' = succeeded \cup {h} /\ failed' = failed
            /\ createdIds' = IF task[h] = "ok" THEN createdIds \cup {h} ELSE createdIds
            /\ queue' = Tail(queue)
        BY <2>2 DEF Record
      <3>2. QED
        BY <3>1
    <2>3. QED
      BY <2>1, <2>2
  <1>5. TypeOK'
    <2>1. queue' \in Seq(Idx)
      <3>1. << >> \in Seq(Idx)
        OBVIOUS
      <3>2. QED
        BY <3>1, <1>3, <1>4
    <2>2. succeeded' \subseteq Idx /\ failed' \subseteq Idx /\ createdIds' \subseteq Idx
      BY <1>0, <1>3, <1>4 DEF TypeOK
    <2>3. QED
      BY <2>1, <2>2, <1>0, <1>1, <1>2 DEF TypeOK
  <1>6. TriesLeft' /\ BegunInTurn'
    BY <1>0, <1>1, <1>2 DEF TriesLeft, BegunInTurn
  <1>7. QueueOfStage'
    <2>1. \A m \in DOMAIN queue' : \E k \in DOMAIN queue : queue[k] = queue'[m]
      <3>1. CASE queue' = << >>
        BY <3>1
      <3>2. CASE queue' = Tail(queue)
        BY <3>2, <1>3
      <3>3. QED
        BY <3>1, <3>2, <1>4
    <2>2. stage \in {"serial", "collect"} =>
            \A k \in DOMAIN queue' : queue'[k] \in Deployed /\ TierOfChange(queue'[k]) <= tier
      BY <2>1, <1>0 DEF QueueOfStage
    <2>3. stage = "deletes" => \A k \in DOMAIN queue' : queue'[k] \in Deletes
      BY <2>1, <1>0 DEF QueueOfStage
    <2>4. QED
      BY <2>2, <2>3, <1>0, <1>1, <1>2 DEF QueueOfStage
  <1>8. ListsTrue'
    BY <1>0, <1>1, <1>4 DEF ListsTrue
  <1>9. NoneLost'
    <2>1. CASE failFast /\ failed' # {}
      BY <2>1, <1>1 DEF NoneLost
    <2>2. CASE ~ (failFast /\ failed' # {})
      <3>1. /\ queue' = Tail(queue)
            /\ h \in succeeded' \cup failed'
            /\ succeeded \cup failed \subseteq succeeded' \cup failed'
            /\ ~ (failFast /\ failed # {})
        BY <2>2, <1>4
      <3>2. \A i : InQueue(i) => i = h \/ InQueue(i)'
        BY <3>1, <1>3 DEF InQueue
      <3>3. \A i : InGroups(i) => InGroups(i)'
        BY <1>1 DEF InGroups
      <3>4. QED
        BY <3>1, <3>2, <3>3, <1>0, <1>1, <1>2 DEF NoneLost
    <2>3. QED
      BY <2>1, <2>2
  <1>10. DeletesLast'
    BY <1>0, <1>1, <1>2 DEF DeletesLast, Started, Ended
  <1>11. QED
    BY <1>5, <1>6, <1>7, <1>8, <1>9, <1>10 DEF IInv

\* A tier is reached: all of its changes are queued or in its groups.
LEMMA BeginTierInductive ==
    ASSUME ApplyAssumption, IInv, BeginTier
    PROVE  IInv'
  <1>0. /\ TypeOK /\ TriesLeft /\ BegunInTurn /\ QueueOfStage /\ ListsTrue /\ NoneLost
        /\ DeletesLast
    BY DEF IInv
  <1>1. /\ stage = "nextTier"
        /\ changeset' = changeset /\ failFast' = failFast
        /\ UNCHANGED <<tries, createdIds, shellIds, endpoints, polled, refreshed,
                       succeeded, failed, applied>>
    BY DEF BeginTier
  <1>2. /\ Idx' = Idx /\ Deployed' = Deployed /\ Deletes' = Deletes
        /\ \A j : TierOfChange(j)' = TierOfChange(j)
    BY <1>1, Frame
  <1>3. PICK t \in TiersLeft :
            /\ \A u \in TiersLeft : t <= u
            /\ tier' = t
            /\ \E flows \in GroupLists(Group(t, "Dataflow")),
                  pipes \in GroupLists(Group(t, "DataPipeline")),
                  items \in DeployOrders(Unordered(t)) :
                /\ groups' = flows \o pipes
                /\ queue' = items
                /\ \/ stage' = "serial" /\ UNCHANGED <<task, bound>>
                   \/ /\ stage' = "collect"
                      /\ task' = [i \in Idx |-> IF i \in Unordered(t) THEN "queued" ELSE task[i]]
                      /\ bound' = [i \in Idx |-> IF i \in Unordered(t) THEN Resolvable(i)
                                                 ELSE bound[i]]
    BY DEF BeginTier
  <1>4. PICK flows \in GroupLists(Group(t, "Dataflow")),
             pipes \in GroupLists(Group(t, "DataPipeline")),
             items \in DeployOrders(Unordered(t)) :
                /\ groups' = flows \o pipes
                /\ queue' = items
                /\ \/ stage' = "serial" /\ UNCHANGED <<task, bound>>
                   \/ /\ stage' = "collect"
                      /\ task' = [i \in Idx |-> IF i \in Unordered(t) THEN "queued" ELSE task[i]]
                      /\ bound' = [i \in Idx |-> IF i \in Unordered(t) THEN Resolvable(i)
                                                 ELSE bound[i]]
    BY <1>3
  <1>5. /\ \A i \in Deployed : TierOfChange(i) \in 0 .. 12
        /\ tier \in Int /\ t \in 0 .. 12 /\ tier < t
    <2>1. \A i : TierOfChange(i) \in 0 .. 12
      BY TierIsInt DEF TierOfChange
    <2>2. QED
      BY <2>1, <1>0 DEF TiersLeft, TypeOK
  <1>6. \A i \in Deployed : TierOfChange(i) <= t => TierOfChange(i) <= tier \/ TierOfChange(i) = t
    <2>1. \A u \in TiersLeft : t <= u
      BY <1>3
    <2>2. SUFFICES ASSUME NEW i \in Deployed, tier < TierOfChange(i)
                   PROVE  t <= TierOfChange(i)
      <3>1. \A a, b, c \in Int : (a < b => c <= b) => (b <= c => b <= a \/ b = c)
        OBVIOUS
      <3>2. \A i \in Deployed : TierOfChange(i) \in Int
        BY <1>5
      <3>3. tier \in Int /\ t \in Int
        BY <1>5
      <3>4. QED
        BY <3>1, <3>2, <3>3
    <2>3. TierOfChange(i) \in TiersLeft
      BY <2>2 DEF TiersLeft
    <2>4. QED
      BY <2>1, <2>3
  <1>7. /\ queue' \in Seq(Unordered(t))
        /\ \A i \in Unordered(t) : \E k \in DOMAIN queue' : queue'[k] = i
    BY <1>0, <1>4, SubsetsFinite, OrderType DEF TypeOK
  <1> DEFINE Ord == Group(t, "Dataflow") \cup Group(t, "DataPipeline")
  <1>8. /\ groups' \in Seq(Seq(Ord) \ {<< >>})
        /\ \A i \in Ord : InGroups(i)'
    <2>1. IsFiniteSet(Group(t, "Dataflow")) /\ IsFiniteSet(Group(t, "DataPipeline"))
      BY <1>0, SubsetsFinite DEF TypeOK
    <2>2. ListsAll(groups', Ord)
      BY <2>1, <1>4, TwoGroupLists
    <2>3. QED
      BY <2>2 DEF InGroups, ListsAll
  <1>9. /\ Unordered(t) \subseteq Deployed /\ Ord \subseteq Deployed /\ Deployed \subseteq Idx
        /\ \A i \in Unordered(t) \cup Ord : TierOfChange(i) = t
        /\ \A i \in Deployed : TierOfChange(i) = t => i \in Unordered(t) \cup Ord
    BY DEF Unordered, Group, Deployed, OrderedTypes
  <1>10. \A i \in Unordered(t) : task[i] = "idle"
    BY <1>0, <1>5, <1>9, DisjointChanges DEF BegunInTurn
  <1>11. /\ task' \in [Idx -> TaskStates]
         /\ \A i \in Idx :
                \/ task'[i] = task[i]
                \/ i \in Unordered(t) /\ task[i] = "idle" /\ task'[i] = "queued"
    <2>1. task \in [Idx -> TaskStates] /\ "queued" \in TaskStates
      BY <1>0 DEF TypeOK, TaskStates, Sleeping
    <2>2. CASE stage' = "serial" /\ UNCHANGED <<task, bound>>
      BY <2>1, <2>2
    <2>3. CASE task' = [i \in Idx |-> IF i \in Unordered(t) THEN "queued" ELSE task[i]]
      BY <2>1, <2>3, <1>10
    <2>4. QED
      BY <2>2, <2>3, <1>4
  <1> HIDE DEF Ord
  <1>12. TypeOK'
    <2>1. queue' \in Seq(Idx)
      BY <1>7, <1>9
    <2>2. groups' \in Seq(Seq(Idx) \ {<< >>})
      <3>1. Seq(Ord) \ {<< >>} \subseteq Seq(Idx) \ {<< >>}
        BY <1>9
      <3>2. QED
        BY <3>1, <1>8
    <2>3. bound' \in [Idx -> SUBSET (RefKinds \X Nat)]
      <3>1. /\ bound \in [Idx -> SUBSET (RefKinds \X Nat)]
            /\ \A i \in Idx : Resolvable(i) \in SUBSET (RefKinds \X Nat)
        BY <1>0, ResolvableType DEF TypeOK
      <3>2. CASE UNCHANGED bound
        BY <3>1, <3>2
      <3>3. CASE bound' = [i \in Idx |-> IF i \in Unordered(t) THEN Resolvable(i)
                                                 ELSE bound[i]]
        BY <3>1, <3>3
      <3>4. QED
        BY <3>2, <3>3, <1>4
    <2>4. stage' \in Stages /\ tier' \in Int
      BY <1>3, <1>4, <1>5 DEF Stages
    <2>5. QED
      BY <2>1, <2>2, <2>3, <2>4, <1>0, <1>1, <1>2, <1>11 DEF TypeOK
  <1>13. TriesLeft'
    BY <1>0, <1>1, <1>2, <1>11 DEF TriesLeft, Sleeping
  <1>14. BegunInTurn'
    <2>1. \A i \in Deployed : TierOfChange(i) <= tier => TierOfChange(i) <= t
      BY <1>5
    <2>2. \A i \in Idx : task'[i] # "idle" => i \in Deployed /\ TierOfChange(i) <= t
      BY <2>1, <1>0, <1>1, <1>5, <1>9, <1>11 DEF BegunInTurn
    <2>3. \A i \in applied : task'[i] # "idle"
      BY <1>0, <1>11 DEF BegunInTurn, TypeOK
    <2>4. QED
      BY <2>2, <2>3, <1>1, <1>2, <1>3 DEF BegunInTurn
  <1>15. QueueOfStage'
    <2>1. \A k \in DOMAIN queue' : queue'[k] \in Deployed /\ TierOfChange(queue'[k]) <= t
      BY <1>5, <1>7, <1>9
    <2>2. \A k \in DOMAIN groups' : \A m \in DOMAIN groups'[k] :
            groups'[k][m] \in Deployed /\ TierOfChange(groups'[k][m]) <= t
      <3>1. \A k \in DOMAIN groups' : \A m \in DOMAIN groups'[k] : groups'[k][m] \in Ord
        BY <1>8
      <3>2. QED
        BY <3>1, <1>5, <1>9
    <2>3. stage' \in {"serial", "collect"}
      BY <1>4
    <2>4. QED
      BY <2>1, <2>2, <2>3, <1>2, <1>3 DEF QueueOfStage
  <1>16. ListsTrue'
    BY <1>0, <1>1, <1>11 DEF ListsTrue, TypeOK
  <1>17. NoneLost'
    <2>1. CASE failFast /\ failed # {}
      BY <2>1, <1>1 DEF NoneLost
    <2>2. CASE ~ (failFast /\ failed # {})
      <3>1. \A i \in Deployed : TierOfChange(i) <= tier => i \in succeeded \cup failed
        BY <2>2, <1>0, <1>1 DEF NoneLost, QueueOfStage, InQueue, InGroups
      <3>2. \A i \in Unordered(t) : InQueue(i)'
        BY <1>7 DEF InQueue
      <3>3. \A i \in Deployed : TierOfChange(i) <= t =>
                i \in succeeded \cup failed \/ InQueue(i)' \/ InGroups(i)'
        BY <3>1, <3>2, <1>6, <1>8, <1>9
      <3>4. stage' \notin {"deletes", "returned"}
        BY <1>4
      <3>5. QED
        BY <3>3, <3>4, <1>1, <1>2, <1>3 DEF NoneLost
    <2>3. QED
      BY <2>1, <2>2
  <1>18. DeletesLast'
    <2>1. \A d \in Deletes : ~ Started(d)
      BY <1>0, <1>1, DisjointChanges DEF BegunInTurn, Started, Sleeping, Deletes
    <2>2. \A d \in Deletes : ~ Started(d)'
      BY <2>1, <1>9, <1>11, DisjointChanges DEF Started, Deletes
    <2>3. QED
      BY <2>2, <1>2 DEF DeletesLast
  <1>19. QED
    BY <1>12, <1>13, <1>14, <1>15, <1>16, <1>17, <1>18 DEF IInv

-----------------------------------------------------------------------------
(* The theorems. *)

LEMMA StepInductive == ASSUME ApplyAssumption, IInv, [Next]_vars PROVE IInv'
  <1>1. CASE UNCHANGED vars
    <2>1. /\ Idx' = Idx /\ Deployed' = Deployed /\ Deletes' = Deletes
          /\ \A j : TierOfChange(j)' = TierOfChange(j)
      BY <1>1, Frame DEF vars
    <2>2. TypeOK'
      BY <1>1, <2>1 DEF vars, IInv, TypeOK
    <2>3. QueueOfStage' /\ NoneLost'
      BY <1>1, <2>1 DEF vars, IInv, QueueOfStage, NoneLost, InQueue, InGroups
    <2>4. QED
      BY <1>1, <2>2, <2>3, QuietStep DEF vars, IInv
  <1>2. CASE MainStep
    BY <1>2, StageStepsInductive, BeginTierInductive, StartNextInductive, RecordInductive,
       EndLoopInductive, NextGroupInductive, BeginDeletesInductive DEF MainStep
  <1>3. CASE \E i \in Idx : TaskStep(i)
    BY <1>3, TaskStepInductive
  <1>4. QED
    BY <1>1, <1>2, <1>3 DEF Next

LEMMA Inductive == Spec => []IInv
  <1>1. Init => IInv
    BY InitInductive, ApplyAssumption
  <1>2. IInv /\ [Next]_vars => IInv'
    BY StepInductive, ApplyAssumption
  <1>3. QED
    BY <1>1, <1>2, PTL DEF Spec

\* Every variable keeps its type; in particular no create is sent more than
\* MaxNameTries times.
THEOREM TypeCorrect == Spec => []TypeOK
  <1>1. IInv => TypeOK
    BY DEF IInv
  <1>2. QED
    BY <1>1, Inductive, PTL

\* No delete is sent while a create, update or rename may still be at work, and
\* with fail-fast none is sent after one has failed.
THEOREM NothingDeletedEarly == Spec => []DeletesLast
  <1>1. IInv => DeletesLast
    BY DEF IInv
  <1>2. QED
    BY <1>1, Inductive, PTL

\* The result is true, and complete unless fail-fast has seen a failure.
THEOREM ReportSound == Spec => []ReportTrue
  <1>1. ASSUME IInv PROVE ReportTrue
    <2>1. SUFFICES ASSUME stage = "returned", failFast => failed = {}
                   PROVE  /\ succeeded \cup failed = Deployed \cup Deletes
                          /\ applied \subseteq succeeded \cup failed
      BY <1>1 DEF ReportTrue, AllRecorded, IInv, ListsTrue
    <2>2. \A i \in Deployed \cup Deletes : i \in succeeded \cup failed
      BY <1>1, <2>1 DEF IInv, NoneLost, QueueOfStage, InQueue, InGroups
    <2>3. \A i \in succeeded \cup failed : i \in Idx /\ task[i] # "idle"
      BY <1>1 DEF IInv, TypeOK, ListsTrue
    <2>4. \A i \in applied : i \in Idx /\ task[i] # "idle"
      BY <1>1 DEF IInv, TypeOK, BegunInTurn
    <2>5. \A i \in Idx : task[i] # "idle" => i \in Deployed \cup Deletes
      BY <1>1 DEF IInv, BegunInTurn
    <2>6. QED
      BY <2>2, <2>3, <2>4, <2>5
  <1>2. QED
    BY <1>1, Inductive, PTL

-----------------------------------------------------------------------------
(* What the order of an apply rests on.  IInv says that nothing is lost; it    *)
(* does not say in which order a group runs, what a tier leaves behind for the *)
(* next ones, or what a payload was rewritten with.                            *)

\* The queue and the groups belong to the tier in work.
QueueInTier ==
    /\ stage \in {"serial", "collect"} =>
        \A k \in DOMAIN queue : TierOfChange(queue[k]) = tier
    /\ \A m \in DOMAIN groups : \A k \in DOMAIN groups[m] : TierOfChange(groups[m][k]) = tier

\* Dataflows and DataPipelines never become tasks of their own.
SpawnedUnordered == \A i \in Idx : task[i] = "queued" => Type(i) \notin OrderedTypes

\* Per change, what it calls of the changes it is sorted with.
Callees == [i \in Idx |-> GroupRefs(i, SortedWith(i))]

\* In a sequence, what a change calls has ended or comes before it.
SortedSeq(s) ==
    \A k \in DOMAIN s : \A j \in Callees[s[k]] :
        Ended(j) \/ \E l \in DOMAIN s : l < k /\ s[l] = j

Sorted ==
    /\ stage = "serial" => SortedSeq(queue)
    /\ \A m \in DOMAIN groups : SortedSeq(groups[m])

\* The ID of a listed success is known if its response carried one.
IdsKnown == \A j \in succeeded : task[j] = "ok" => j \in createdIds

\* A payload is rewritten, when its change is started or spawned, with the IDs
\* that the earlier tiers left.
EarlierBound ==
    AllRecorded => \A i, j \in Deployed :
        /\ task[i] # "idle"
        /\ Refers(i, "logical", j)
        /\ changeset[j].inSource
        /\ TierOfChange(j) < TierOfChange(i)
        /\ task[j] = "ok"
        => <<"logical", j>> \in bound[i]

\* The hooks of the tiers that are over have run.
TierOver(i) == TierOfChange(i) < tier \/ (stage \in {"start", "nextTier"} /\ TierOfChange(i) <= tier)
HooksRun ==
    AllRecorded => \A i \in Deployed : TierOver(i) /\ task[i] = "ok" =>
        /\ Type(i) = "SemanticModel" /\ Action(i) # "Rename" => i \in refreshed
        /\ Type(i) = "Lakehouse" => i \in polled

OrderInv == QueueInTier /\ SpawnedUnordered /\ Sorted /\ CalleesFirst /\ IdsKnown
            /\ EarlierBound /\ HooksRun

\* What depends on the changeset only, for the sorted groups.
LEMMA FrameOrder ==
    ASSUME changeset' = changeset
    PROVE  /\ \A i : Type(i)' = Type(i) /\ Action(i)' = Action(i)
           /\ \A i : GroupRefs(i, SortedWith(i))' = GroupRefs(i, SortedWith(i))
           /\ Callees' = Callees
           /\ \A i, kind, j : Refers(i, kind, j)' = Refers(i, kind, j)
  <1>1. Deployed' = Deployed /\ \A i : TierOfChange(i)' = TierOfChange(i)
    BY Frame
  <1>2. \A i : Type(i)' = Type(i) /\ Action(i)' = Action(i)
    BY DEF Type, Action
  <1>3. \A t, type : Group(t, type)' = Group(t, type)
    BY <1>1, <1>2 DEF Group
  <1>4. \A i : SortedWith(i)' = SortedWith(i)
    BY <1>1, <1>2, <1>3 DEF SortedWith
  <1>5. \A i, S : GroupRefs(i, S)' = GroupRefs(i, S)
    BY <1>2 DEF GroupRefs
  <1>6. \A i : GroupRefs(i, SortedWith(i))' = GroupRefs(i, SortedWith(i))
    BY <1>4, <1>5
  <1>7. Callees' = Callees
    BY <1>6, Frame DEF Callees
  <1>8. QED
    BY <1>2, <1>6, <1>7 DEF Refers

\* What a change is sorted with are changes of its type and tier.
LEMMA CalleeType ==
    ASSUME NEW i \in Idx, NEW j \in Callees[i]
    PROVE  /\ j \in Deployed /\ j \in Idx
           /\ Type(i) \in OrderedTypes
           /\ j \in Group(TierOfChange(i), Type(i))
           /\ Cardinality(Group(TierOfChange(i), Type(i))) > 1
           /\ SortedWith(i) = Group(TierOfChange(i), Type(i))
           /\ j \in GroupRefs(i, Group(TierOfChange(i), Type(i)))
  <1>1. j \in SortedWith(i) /\ j \in GroupRefs(i, SortedWith(i))
    BY DEF GroupRefs, Callees
  <1>2. QED
    BY <1>1 DEF SortedWith, Group, Deployed

\* A change that is over is not the head of a queue that is begun, and no step
\* moves it; the lists only grow.
LEMMA StepEffect ==
    ASSUME ApplyAssumption, IInv, [Next]_vars
    PROVE  /\ changeset' = changeset /\ failFast' = failFast
           /\ succeeded \subseteq succeeded' /\ failed \subseteq failed'
           /\ createdIds \subseteq createdIds'
           /\ polled \subseteq polled' /\ refreshed \subseteq refreshed'
           /\ AllRecorded' => AllRecorded
           /\ \A j \in Idx : Ended(j) => task'[j] = task[j]
  <1>0. TypeOK /\ TriesLeft /\ BegunInTurn
    BY DEF IInv
  <1>1. CASE UNCHANGED vars
    BY <1>1 DEF vars, AllRecorded
  <1>2. ASSUME NEW i \in Idx, TaskStep(i)
        PROVE  /\ changeset' = changeset /\ failFast' = failFast /\ UNCHANGED mainVars
               /\ \A j \in Idx : Ended(j) => task'[j] = task[j]
    <2>1. task[i] \in Running \cup {"queued"}
      BY <1>0, <1>2, TaskStepEffect
    <2>2. ~ Ended(i)
      BY <2>1 DEF Ended, Running, Over
    <2>3. \A j \in Idx \ {i} : task'[j] = task[j]
      BY <1>0, <1>2, TaskStepEffect, SMTT(30) DEF Reply, TypeOK
    <2>4. QED
      BY <1>0, <1>2, <2>2, <2>3, TaskStepEffect
  <1>3. CASE \E i \in Idx : TaskStep(i)
    BY <1>2, <1>3 DEF mainVars, AllRecorded
  <1>4. CASE StartNext
    <2>1. \A j \in Idx : Ended(j) => task'[j] = task[j]
      BY <1>0, <1>4 DEF StartNext, Reply, Fresh, Ended, Over, TypeOK
    <2>2. QED
      BY <1>4, <2>1 DEF StartNext, mainVars, AllRecorded
  <1>5. CASE BeginTier
    <2>1. ASSUME NEW j \in Idx, Ended(j), NEW t \in TiersLeft, j \in Unordered(t)
          PROVE  FALSE
      <3>1. TierOfChange(j) = t /\ j \in Deployed /\ t > tier
        BY <2>1 DEF Unordered, TiersLeft
      <3>2. task[j] # "idle"
        BY <2>1 DEF Ended, Over
      <3>3. t \in 0 .. 12 /\ tier \in Int
        BY <3>1, <1>0, TierIsInt DEF TierOfChange, TypeOK
      <3>4. QED
        BY <1>0, <3>1, <3>2, <3>3, DisjointChanges DEF BegunInTurn
    <2>2. \A j \in Idx : Ended(j) => task'[j] = task[j]
      BY <1>0, <1>5, <2>1 DEF BeginTier, TypeOK
    <2>3. QED
      BY <1>5, <2>2 DEF BeginTier, AllRecorded
  <1>6. CASE Record
    BY <1>6 DEF Record, AllRecorded
  <1>7. CASE InterTierHooks
    BY <1>7 DEF InterTierHooks, AllRecorded
  <1>8. CASE CheckIdentities \/ BeginTierCyclic \/ EndLoop \/ NextGroup \/ BeginDeletes
             \/ Return \/ Exit
    BY <1>8 DEF CheckIdentities, BeginTierCyclic, EndLoop, NextGroup, BeginDeletes, Return,
                Exit, AllRecorded
  <1>9. QED
    BY <1>1, <1>3, <1>4, <1>5, <1>6, <1>7, <1>8 DEF Next, MainStep

\* A tier begins above all that is over, with its own changes only.
LEMMA BeginTierEffect ==
    ASSUME ApplyAssumption, IInv, BeginTier
    PROVE  \E t \in 0 .. 12 :
             /\ stage = "nextTier" /\ stage' \in {"serial", "collect"}
             /\ tier' = t /\ tier < t
             /\ \A i \in Deployed : TierOfChange(i) < t => TierOfChange(i) <= tier
             /\ queue' \in Seq(Unordered(t))
             /\ groups' \in Seq(GroupOrders(Group(t, "Dataflow"))
                                \cup GroupOrders(Group(t, "DataPipeline")))
             /\ UNCHANGED <<createdIds, polled, refreshed, succeeded, failed>>
             /\ \A i \in Idx :
                    \/ task'[i] = task[i] /\ bound'[i] = bound[i]
                    \/ /\ i \in Unordered(t) /\ task[i] = "idle"
                       /\ task'[i] = "queued" /\ bound'[i] = Resolvable(i)
  <1>0. TypeOK /\ BegunInTurn
    BY DEF IInv
  <1>1. PICK t \in TiersLeft :
            /\ \A u \in TiersLeft : t <= u
            /\ tier' = t
            /\ \E flows \in GroupLists(Group(t, "Dataflow")),
                  pipes \in GroupLists(Group(t, "DataPipeline")),
                  items \in DeployOrders(Unordered(t)) :
                /\ groups' = flows \o pipes
                /\ queue' = items
                /\ \/ stage' = "serial" /\ UNCHANGED <<task, bound>>
                   \/ /\ stage' = "collect"
                      /\ task' = [i \in Idx |-> IF i \in Unordered(t) THEN "queued" ELSE task[i]]
                      /\ bound' = [i \in Idx |-> IF i \in Unordered(t) THEN Resolvable(i)
                                                 ELSE bound[i]]
    BY DEF BeginTier
  <1>2. PICK flows \in GroupLists(Group(t, "Dataflow")),
             pipes \in GroupLists(Group(t, "DataPipeline")),
             items \in DeployOrders(Unordered(t)) :
                /\ groups' = flows \o pipes
                /\ queue' = items
                /\ \/ stage' = "serial" /\ UNCHANGED <<task, bound>>
                   \/ /\ stage' = "collect"
                      /\ task' = [i \in Idx |-> IF i \in Unordered(t) THEN "queued" ELSE task[i]]
                      /\ bound' = [i \in Idx |-> IF i \in Unordered(t) THEN Resolvable(i)
                                                 ELSE bound[i]]
    BY <1>1
  <1>3. \A i : TierOfChange(i) \in 0 .. 12
    BY TierIsInt DEF TierOfChange
  <1>4. t \in 0 .. 12 /\ tier \in Int /\ tier < t
    BY <1>0, <1>3 DEF TiersLeft, TypeOK
  <1>5. ASSUME NEW i \in Deployed, TierOfChange(i) < t PROVE TierOfChange(i) <= tier
    <2>1. TierOfChange(i) \notin TiersLeft
      <3>1. SUFFICES ASSUME TierOfChange(i) \in TiersLeft PROVE FALSE
        OBVIOUS
      <3>2. t <= TierOfChange(i)
        BY <1>1, <3>1
      <3>3. t \in Int /\ TierOfChange(i) \in Int
        BY <1>3, <1>4
      <3>4. QED
        BY <1>5, <3>2, <3>3
    <2>2. QED
      BY <1>3, <1>4, <1>5, <2>1 DEF TiersLeft
  <1>6. queue' \in Seq(Unordered(t))
    BY <1>0, <1>2, SubsetsFinite, OrderType DEF TypeOK
  <1>7. groups' \in Seq(GroupOrders(Group(t, "Dataflow")) \cup GroupOrders(Group(t, "DataPipeline")))
    <2>1. ASSUME NEW S, NEW V, GroupOrders(S) \subseteq V, NEW g \in GroupLists(S)
          PROVE  g \in Seq(V)
      <3>1. CASE g = << >>
        BY <3>1
      <3>2. CASE g # << >>
        <4>1. PICK o \in GroupOrders(S) : g = <<o>>
          BY <3>2 DEF GroupLists
        <4>2. o \in V
          BY <2>1, <4>1
        <4>3. QED
          BY <4>1, <4>2
      <3>3. QED
        BY <3>1, <3>2
    <2>2. /\ flows \in Seq(GroupOrders(Group(t, "Dataflow")) \cup GroupOrders(Group(t, "DataPipeline")))
          /\ pipes \in Seq(GroupOrders(Group(t, "Dataflow")) \cup GroupOrders(Group(t, "DataPipeline")))
      BY <2>1
    <2>3. QED
      BY <1>2, <2>2
  <1>8. ASSUME NEW i \in Idx
        PROVE  \/ task'[i] = task[i] /\ bound'[i] = bound[i]
               \/ /\ i \in Unordered(t) /\ task[i] = "idle"
                  /\ task'[i] = "queued" /\ bound'[i] = Resolvable(i)
    <2>1. i \in Unordered(t) => task[i] = "idle"
      BY <1>0, <1>4, DisjointChanges DEF Unordered, BegunInTurn
    <2>2. CASE UNCHANGED <<task, bound>>
      BY <2>2
    <2>3. CASE /\ task' = [k \in Idx |-> IF k \in Unordered(t) THEN "queued" ELSE task[k]]
               /\ bound' = [k \in Idx |-> IF k \in Unordered(t) THEN Resolvable(k) ELSE bound[k]]
      BY <2>1, <2>3
    <2>4. QED
      BY <1>2, <2>2, <2>3
  <1>9. /\ stage = "nextTier" /\ stage' \in {"serial", "collect"}
        /\ UNCHANGED <<createdIds, polled, refreshed, succeeded, failed>>
    BY <1>2 DEF BeginTier
  <1>10. QED
    BY <1>1, <1>4, <1>5, <1>6, <1>7, <1>8, <1>9

\* While everything is recorded, the changes of the tiers below the one in work
\* are listed, and so are those of that tier once its loops are over.
LEMMA SettledListed ==
    ASSUME ApplyAssumption, IInv, QueueInTier, AllRecorded, NEW j \in Deployed,
           \/ TierOfChange(j) < tier
           \/ TierOfChange(j) <= tier /\ stage \notin {"serial", "collect", "group"}
    PROVE  /\ Ended(j)
           /\ task[j] = "ok" => j \in succeeded
  <1>0. TypeOK /\ QueueOfStage /\ ListsTrue /\ NoneLost
    BY DEF IInv
  <1>1. TierOfChange(j) \in 0 .. 12 /\ tier \in Int
    BY <1>0, TierIsInt DEF TierOfChange, TypeOK
  <1>2. ~ InQueue(j)
    BY <1>0, <1>1, DisjointChanges DEF QueueInTier, QueueOfStage, InQueue
  <1>3. ~ InGroups(j)
    BY <1>0, <1>1 DEF QueueInTier, QueueOfStage, InGroups
  <1>4. j \in succeeded \cup failed
    BY <1>0, <1>1, <1>2, <1>3 DEF NoneLost, AllRecorded
  <1>5. QED
    BY <1>0, <1>4 DEF ListsTrue, Ended, Over

\* What a step other than the beginning of a tier does to the queue and groups.
LEMMA QueueStep ==
    ASSUME ApplyAssumption, IInv, [Next]_vars, ~ BeginTier
    PROVE  /\ tier' = tier
           /\ groups' \in {groups, Tail(groups)}
           /\ \A m \in DOMAIN groups' : \E k \in DOMAIN groups : groups[k] = groups'[m]
           /\ stage' \in {"serial", "collect"} =>
                \/ stage' = stage /\ queue' = queue
                \/ stage' = stage /\ queue # << >> /\ queue' = Tail(queue) /\ Ended(Head(queue))
                \/ queue' = << >>
                \/ stage = "group" /\ \E k \in DOMAIN groups : queue' = groups[k]
           /\ stage' \in {"start", "nextTier"} =>
                stage \in {"start", "nextTier"} \/ InterTierHooks
  <1>0. TypeOK /\ QueueOfStage
    BY DEF IInv
  <1>1. CASE NextGroup
    <2>1. groups # << >> /\ groups \in Seq(Seq(Idx) \ {<< >>})
      BY <1>0, <1>1 DEF NextGroup, TypeOK, QueueOfStage
    <2>2. /\ 1 \in DOMAIN groups /\ groups[1] = Head(groups)
          /\ \A m \in DOMAIN Tail(groups) : \E k \in DOMAIN groups : groups[k] = Tail(groups)[m]
      BY <2>1, TailElements
    <2>3. QED
      BY <1>1, <2>2 DEF NextGroup
  <1>2. CASE Record
    <2>1. Ended(Head(queue))
      BY <1>2 DEF Record, Ended, Over
    <2>2. queue' \in {<< >>, Tail(queue)}
      BY <1>2 DEF Record
    <2>3. QED
      BY <1>2, <2>1, <2>2 DEF Record
  <1>3. CASE UNCHANGED vars
    BY <1>3 DEF vars
  <1>4. CASE StartNext
    BY <1>4 DEF StartNext, mainVars
  <1>5. ASSUME NEW i \in Idx, TaskStep(i) PROVE UNCHANGED mainVars
    BY <1>5, TaskStepEffect DEF IInv
  <1>6. CASE \E i \in Idx : TaskStep(i)
    BY <1>5, <1>6 DEF mainVars
  <1>7. CASE CheckIdentities \/ BeginTierCyclic \/ EndLoop \/ InterTierHooks \/ BeginDeletes
             \/ Return \/ Exit
    BY <1>7 DEF CheckIdentities, BeginTierCyclic, EndLoop, InterTierHooks, BeginDeletes, Return, Exit
  <1>8. QED
    BY <1>1, <1>2, <1>3, <1>4, <1>6, <1>7 DEF Next, MainStep

\* What a step does to one change.
LEMMA ChangeStep ==
    ASSUME ApplyAssumption, IInv, [Next]_vars, NEW i \in Idx
    PROVE  \/ task'[i] = task[i] /\ bound'[i] = bound[i]
           \/ /\ task[i] \in Running \cup {"queued"}      \* its own step
              /\ task'[i] \in Running \cup Over
              /\ bound'[i] = bound[i]
           \/ /\ stage \in {"serial", "deletes"}          \* started by a loop
              /\ queue # << >> /\ i = Head(queue)
              /\ task[i] = "idle" /\ task'[i] \in Running \cup Over
              /\ bound'[i] = Resolvable(i)
           \/ /\ BeginTier /\ i \in Unordered(tier')      \* spawned
              /\ task[i] = "idle" /\ task'[i] = "queued"
              /\ bound'[i] = Resolvable(i)
  <1>0. TypeOK /\ TriesLeft
    BY DEF IInv
  <1>1. CASE BeginTier
    BY <1>1, BeginTierEffect
  <1>2. ASSUME NEW k \in Idx, TaskStep(k)
        PROVE  \/ task'[i] = task[i] /\ bound'[i] = bound[i]
               \/ /\ task[i] \in Running \cup {"queued"}
                  /\ task'[i] \in Running \cup Over
                  /\ bound'[i] = bound[i]
    <2>1. /\ bound' = bound /\ task[k] \in Running \cup {"queued"}
          /\ \E next \in Running \cup Over : Reply(k, next)
      BY <1>0, <1>2, TaskStepEffect
    <2>2. QED
      BY <1>0, <2>1 DEF Reply, TypeOK
  <1>3. CASE StartNext
    <2>1. FirstStep(Head(queue)) \in Running \cup Over
      BY FirstStepType
    <2>2. QED
      BY <1>0, <1>3, <2>1 DEF StartNext, Reply, Fresh, TypeOK
  <1>4. CASE UNCHANGED vars
    BY <1>4 DEF vars
  <1>5. CASE CheckIdentities \/ BeginTierCyclic \/ Record \/ EndLoop \/ NextGroup
             \/ InterTierHooks \/ BeginDeletes \/ Return \/ Exit
    BY <1>5 DEF CheckIdentities, BeginTierCyclic, Record, EndLoop, NextGroup, InterTierHooks,
                BeginDeletes, Return, Exit
  <1>6. QED
    BY <1>1, <1>2, <1>3, <1>4, <1>5 DEF Next, MainStep

LEMMA QueueInTierInductive ==
    ASSUME ApplyAssumption, IInv, QueueInTier, [Next]_vars
    PROVE  QueueInTier'
  <1>0. TypeOK
    BY DEF IInv
  <1>1. \A i : TierOfChange(i)' = TierOfChange(i)
    BY StepEffect, Frame
  <1>2. CASE BeginTier
    <2>1. PICK t \in 0 .. 12 :
             /\ tier' = t
             /\ queue' \in Seq(Unordered(t))
             /\ groups' \in Seq(GroupOrders(Group(t, "Dataflow"))
                                \cup GroupOrders(Group(t, "DataPipeline")))
      BY <1>2, BeginTierEffect
    <2>2. \A k \in DOMAIN queue' : TierOfChange(queue'[k]) = t
      <3>1. \A k \in DOMAIN queue' : queue'[k] \in Unordered(t)
        BY <2>1
      <3>2. QED
        BY <3>1 DEF Unordered
    <2>3. ASSUME NEW m \in DOMAIN groups', NEW k \in DOMAIN groups'[m]
          PROVE  TierOfChange(groups'[m][k]) = t
      <3>1. PICK type \in OrderedTypes : groups'[m] \in GroupOrders(Group(t, type))
        BY <2>1 DEF OrderedTypes
      <3>2. groups'[m][k] \in Group(t, type)
        BY <3>1 DEF GroupOrders, Arrangements
      <3>3. QED
        BY <3>2 DEF Group
    <2>4. QED
      BY <1>1, <2>1, <2>2, <2>3 DEF QueueInTier
  <1>3. CASE ~ BeginTier
    <2>1. /\ tier' = tier
          /\ \A m \in DOMAIN groups' : \E k \in DOMAIN groups : groups[k] = groups'[m]
      BY <1>3, QueueStep
    <2>2. \A m \in DOMAIN groups' : \A k \in DOMAIN groups'[m] : TierOfChange(groups'[m][k]) = tier
      BY <2>1 DEF QueueInTier
    <2>3. ASSUME stage' \in {"serial", "collect"}, NEW k \in DOMAIN queue'
          PROVE  TierOfChange(queue'[k]) = tier
      <3>1. CASE stage' = stage /\ queue' = queue
        BY <2>3, <3>1 DEF QueueInTier
      <3>2. CASE stage' = stage /\ queue # << >> /\ queue' = Tail(queue)
        <4>1. \E m \in DOMAIN queue : queue[m] = queue'[k]
          BY <1>0, <2>3, <3>2, TailElements DEF TypeOK
        <4>2. QED
          BY <2>3, <3>2, <4>1 DEF QueueInTier
      <3>3. CASE queue' = << >>
        BY <2>3, <3>3
      <3>4. CASE \E m \in DOMAIN groups : queue' = groups[m]
        BY <2>3, <3>4 DEF QueueInTier
      <3>5. QED
        BY <1>3, <2>3, <3>1, <3>2, <3>3, <3>4, QueueStep
    <2>4. QED
      BY <1>1, <2>1, <2>2, <2>3 DEF QueueInTier
  <1>4. QED
    BY <1>2, <1>3

LEMMA SpawnedUnorderedInductive ==
    ASSUME ApplyAssumption, IInv, SpawnedUnordered, [Next]_vars
    PROVE  SpawnedUnordered'
  <1>1. /\ Idx' = Idx
        /\ \A i : Type(i)' = Type(i)
    BY StepEffect, Frame, FrameOrder
  <1>2. SUFFICES ASSUME NEW i \in Idx, task'[i] = "queued" PROVE Type(i) \notin OrderedTypes
    BY <1>1 DEF SpawnedUnordered
  <1>3. task[i] = "queued" \/ i \in Unordered(tier')
    BY <1>2, ChangeStep DEF Running, Over
  <1>4. QED
    BY <1>3 DEF SpawnedUnordered, Unordered

\* In a topological order a change comes after what it calls.
LEMMA GroupOrderSorted ==
    ASSUME NEW t, NEW type \in OrderedTypes, NEW s \in GroupOrders(Group(t, type))
    PROVE  SortedSeq(s)
  <1>1. SUFFICES ASSUME NEW k \in DOMAIN s, NEW j \in Callees[s[k]]
                 PROVE  \E l \in DOMAIN s : l < k /\ s[l] = j
    BY DEF SortedSeq
  <1>2. /\ s[k] \in Group(t, type)
        /\ \A i \in Group(t, type) : \E l \in DOMAIN s : s[l] = i
    BY DEF GroupOrders, Arrangements
  <1>3. Type(s[k]) = type /\ TierOfChange(s[k]) = t /\ s[k] \in Idx
    BY <1>2 DEF Group, Deployed
  <1>4. /\ j \in Group(t, type) /\ Cardinality(Group(t, type)) > 1
        /\ j \in GroupRefs(s[k], Group(t, type))
    BY <1>3, CalleeType
  <1>5. PICK l \in DOMAIN s : s[l] = j
    BY <1>2, <1>4
  <1>6. l < k
    BY <1>4, <1>5 DEF GroupOrders
  <1>7. QED
    BY <1>5, <1>6

\* A sorted sequence of changes stays sorted, and so does what is left of it
\* when its head has ended.
LEMMA SortedStays ==
    ASSUME ApplyAssumption, IInv, [Next]_vars, NEW i \in Idx, NEW j \in Callees[i], Ended(j)
    PROVE  task'[j] \in Over
  <1>1. j \in Idx
    BY CalleeType
  <1>2. QED
    BY <1>1, StepEffect DEF Ended

LEMMA SortedTail ==
    ASSUME NEW S, NEW s \in Seq(S), s # << >>, SortedSeq(s), Ended(Head(s))
    PROVE  SortedSeq(Tail(s))
  <1>1. SUFFICES ASSUME NEW k \in DOMAIN Tail(s),
                        NEW j \in Callees[Tail(s)[k]], ~ Ended(j)
                 PROVE  \E l \in DOMAIN Tail(s) : l < k /\ Tail(s)[l] = j
    BY DEF SortedSeq
  <1>2. /\ Len(s) \in Nat /\ Len(s) # 0 /\ DOMAIN s = 1 .. Len(s) /\ Head(s) = s[1]
        /\ DOMAIN Tail(s) = 1 .. Len(s) - 1
        /\ \A m \in 1 .. Len(s) - 1 : Tail(s)[m] = s[m + 1]
    OBVIOUS
  <1>3. k + 1 \in DOMAIN s /\ Tail(s)[k] = s[k + 1] /\ k \in Nat
    BY <1>2
  <1>4. PICK l \in DOMAIN s : l < k + 1 /\ s[l] = j
    BY <1>1, <1>3 DEF SortedSeq
  <1>5. l # 1
    BY <1>1, <1>2, <1>4
  <1>6. l - 1 \in DOMAIN Tail(s) /\ l - 1 < k /\ Tail(s)[l - 1] = j
    BY <1>2, <1>3, <1>4, <1>5
  <1>7. QED
    BY <1>6

LEMMA SortedInductive ==
    ASSUME ApplyAssumption, IInv, Sorted, [Next]_vars
    PROVE  Sorted'
  <1>0. TypeOK
    BY DEF IInv
  <1>1. /\ Callees' = Callees
        /\ \A i \in Idx : \A j \in Callees[i] : Ended(j) => task'[j] \in Over
    BY StepEffect, FrameOrder, SortedStays
  <1>2. queue' \in Seq(Idx) /\ groups' \in Seq(Seq(Idx) \ {<< >>})
    BY StepInductive, StepEffect, Frame DEF IInv, TypeOK
  <1>3. /\ SortedSeq(queue') => SortedSeq(queue)'
        /\ \A m \in DOMAIN groups' : SortedSeq(groups'[m]) => SortedSeq(groups[m])'
    <2>1. \A k \in DOMAIN queue' : queue'[k] \in Idx
      BY <1>2
    <2>2. SortedSeq(queue') => SortedSeq(queue)'
      BY <1>1, <2>1 DEF SortedSeq, Ended
    <2>3. \A m \in DOMAIN groups' : \A k \in DOMAIN groups'[m] : groups'[m][k] \in Idx
      BY <1>2
    <2>4. QED
      BY <1>1, <2>2, <2>3 DEF SortedSeq, Ended
  <1>4. CASE BeginTier
    <2>1. PICK t \in 0 .. 12 :
             /\ queue' \in Seq(Unordered(t))
             /\ groups' \in Seq(GroupOrders(Group(t, "Dataflow"))
                                \cup GroupOrders(Group(t, "DataPipeline")))
      BY <1>4, BeginTierEffect
    <2>2. SortedSeq(queue')
      <3>1. \A k \in DOMAIN queue' : queue'[k] \in Idx /\ Type(queue'[k]) \notin OrderedTypes
        BY <2>1 DEF Unordered, Deployed
      <3>2. QED
        BY <3>1, CalleeType DEF SortedSeq
    <2>3. ASSUME NEW m \in DOMAIN groups' PROVE SortedSeq(groups'[m])
      <3>1. PICK type \in OrderedTypes : groups'[m] \in GroupOrders(Group(t, type))
        BY <2>1 DEF OrderedTypes
      <3>2. QED
        BY <3>1, GroupOrderSorted
    <2>4. QED
      BY <1>3, <2>2, <2>3 DEF Sorted
  <1>5. CASE ~ BeginTier
    <2>1. \A m \in DOMAIN groups' : SortedSeq(groups'[m])
      <3>1. \A m \in DOMAIN groups' : \E k \in DOMAIN groups : groups[k] = groups'[m]
        BY <1>5, QueueStep
      <3>2. QED
        BY <3>1 DEF Sorted
    <2>2. ASSUME stage' = "serial" PROVE SortedSeq(queue')
      <3>1. CASE stage' = stage /\ queue' = queue
        BY <2>2, <3>1 DEF Sorted
      <3>2. CASE stage' = stage /\ queue # << >> /\ queue' = Tail(queue) /\ Ended(Head(queue))
        BY <1>0, <2>2, <3>2, SortedTail DEF Sorted, TypeOK
      <3>3. CASE queue' = << >>
        BY <3>3 DEF SortedSeq
      <3>4. CASE \E k \in DOMAIN groups : queue' = groups[k]
        BY <3>4 DEF Sorted
      <3>5. QED
        BY <1>5, <2>2, <3>1, <3>2, <3>3, <3>4, QueueStep
    <2>3. QED
      BY <1>3, <2>1, <2>2 DEF Sorted
  <1>6. QED
    BY <1>4, <1>5

LEMMA CalleesFirstInductive ==
    ASSUME ApplyAssumption, IInv, SpawnedUnordered, Sorted, CalleesFirst, [Next]_vars
    PROVE  CalleesFirst'
  <1>0. TypeOK /\ QueueOfStage
    BY DEF IInv
  <1>1. /\ Deployed' = Deployed /\ Deployed \subseteq Idx
        /\ \A i : GroupRefs(i, SortedWith(i))' = GroupRefs(i, SortedWith(i))
    BY StepEffect, Frame, FrameOrder DEF Deployed
  <1>2. SUFFICES ASSUME NEW i \in Deployed, NEW j \in Deployed, Started(i)',
                        j \in GroupRefs(i, SortedWith(i))
                 PROVE  Ended(j)
    BY <1>1, StepEffect DEF CalleesFirst, Ended
  <1>3. i \in Idx /\ j \in Callees[i]
    BY <1>1, <1>2 DEF Callees
  <1>4. CASE Started(i)
    BY <1>2, <1>4 DEF CalleesFirst
  <1>5. CASE ~ Started(i)
    <2>1. task[i] # "queued"
      BY <1>3, CalleeType DEF SpawnedUnordered
    <2>2. /\ stage \in {"serial", "deletes"} /\ queue # << >> /\ i = Head(queue)
      BY <1>2, <1>3, <1>5, <2>1, ChangeStep DEF Started, Sleeping, Running
    <2>3. 1 \in DOMAIN queue /\ queue[1] = i /\ queue \in Seq(Idx)
      BY <1>0, <2>2, TailElements DEF TypeOK
    <2>4. stage = "serial"
      BY <1>0, <2>2, <2>3, DisjointChanges DEF QueueOfStage
    <2>5. Ended(j) \/ \E l \in DOMAIN queue : l < 1 /\ queue[l] = j
      BY <1>3, <2>3, <2>4 DEF Sorted, SortedSeq
    <2>6. \A l \in DOMAIN queue : ~ (l < 1)
      BY <2>3
    <2>7. QED
      BY <2>5, <2>6
  <1>6. QED
    BY <1>4, <1>5

LEMMA IdsKnownInductive ==
    ASSUME ApplyAssumption, IInv, IdsKnown, [Next]_vars
    PROVE  IdsKnown'
  <1>0. TypeOK /\ ListsTrue
    BY DEF IInv
  <1>1. SUFFICES ASSUME NEW j \in succeeded', task'[j] = "ok" PROVE j \in createdIds'
    BY DEF IdsKnown
  <1>2. CASE j \in succeeded
    <2>1. j \in Idx /\ Ended(j)
      BY <1>0, <1>2 DEF TypeOK, ListsTrue, Ended, Over
    <2>2. task[j] = "ok"
      BY <1>1, <2>1, StepEffect
    <2>3. QED
      BY <1>2, <2>2, StepEffect DEF IdsKnown
  <1>3. CASE j \notin succeeded
    <2>1. Record
      <3>1. ASSUME NEW i \in Idx, TaskStep(i) PROVE succeeded' = succeeded
        BY <1>0, <3>1, TaskStepEffect DEF mainVars, IInv
      <3>2. QED
        BY <1>1, <1>3, <3>1 DEF Next, MainStep, vars, CheckIdentities, BeginTier, BeginTierCyclic,
             StartNext, mainVars, EndLoop, NextGroup, InterTierHooks, BeginDeletes, Return, Exit
    <2>2. QED
      BY <1>1, <1>3, <2>1 DEF Record
  <1>4. QED
    BY <1>2, <1>3

\* A change whose turn has come belongs to the tier in work or to an earlier one.
LEMMA BegunTier ==
    ASSUME ApplyAssumption, IInv, NEW i \in Deployed, task[i] # "idle"
    PROVE  TierOfChange(i) <= tier
  <1>1. i \in Idx /\ i \notin Deletes
    BY DisjointChanges DEF Deployed
  <1>2. QED
    BY <1>1 DEF IInv, BegunInTurn

LEMMA EarlierBoundInductive ==
    ASSUME ApplyAssumption, IInv, QueueInTier, IdsKnown, EarlierBound, [Next]_vars
    PROVE  EarlierBound'
  <1>0. TypeOK /\ QueueOfStage
    BY DEF IInv
  <1>1. /\ Deployed' = Deployed /\ Deployed \subseteq Idx
        /\ \A i : TierOfChange(i)' = TierOfChange(i)
        /\ \A i, k, j : Refers(i, k, j)' = Refers(i, k, j)
        /\ changeset' = changeset
    BY StepEffect, Frame, FrameOrder DEF Deployed
  <1>2. SUFFICES ASSUME AllRecorded, NEW i \in Deployed, NEW j \in Deployed,
                        task'[i] # "idle", Refers(i, "logical", j), changeset[j].inSource,
                        TierOfChange(j) < TierOfChange(i), task'[j] = "ok"
                 PROVE  <<"logical", j>> \in bound'[i]
    BY <1>1, StepEffect DEF EarlierBound
  <1>3. TierOfChange(i) \in 0 .. 12 /\ TierOfChange(j) \in 0 .. 12 /\ tier \in Int
    BY <1>0, TierIsInt DEF TierOfChange, TypeOK
  <1>4. ASSUME Ended(j), task[j] = "ok" => j \in succeeded
        PROVE  task[j] = "ok" /\ <<"logical", j>> \in Resolvable(i)
    <2>1. task[j] = "ok"
      BY <1>1, <1>2, <1>4, StepEffect
    <2>2. j \in createdIds
      BY <1>4, <2>1 DEF IdsKnown
    <2>3. QED
      BY <1>2, <2>1, <2>2 DEF Resolvable, Refers
  <1>5. CASE TierOfChange(i) <= tier
    <2>1. Ended(j) /\ (task[j] = "ok" => j \in succeeded)
      BY <1>2, <1>3, <1>5, SettledListed
    <2>2. CASE task[i] = "idle"
      <3>1. bound'[i] = Resolvable(i)
        BY <1>1, <1>2, <2>2, ChangeStep DEF Running
      <3>2. QED
        BY <1>4, <2>1, <3>1
    <2>3. CASE task[i] # "idle"
      <3>1. bound'[i] = bound[i]
        BY <1>1, <2>3, ChangeStep
      <3>2. QED
        BY <1>2, <1>4, <2>1, <2>3, <3>1 DEF EarlierBound
    <2>4. QED
      BY <2>2, <2>3
  <1>6. CASE ~ (TierOfChange(i) <= tier)
    <2>1. task[i] = "idle"
      BY <1>6, BegunTier
    <2>2. i # Head(queue) \/ queue = << >> \/ stage \notin {"serial", "deletes"}
      <3>1. SUFFICES ASSUME i = Head(queue), queue # << >>, stage \in {"serial", "deletes"}
                     PROVE  FALSE
        OBVIOUS
      <3>2. 1 \in DOMAIN queue /\ queue[1] = i
        BY <1>0, <3>1, TailElements DEF TypeOK
      <3>3. QED
        BY <1>0, <1>6, <3>1, <3>2, DisjointChanges DEF QueueOfStage
    <2>3. BeginTier /\ i \in Unordered(tier') /\ bound'[i] = Resolvable(i)
      BY <1>1, <1>2, <2>1, <2>2, ChangeStep DEF Running
    <2>4. stage = "nextTier" /\ TierOfChange(j) <= tier
      <3>1. PICK t \in 0 .. 12 :
              /\ stage = "nextTier" /\ tier' = t
              /\ \A k \in Deployed : TierOfChange(k) < t => TierOfChange(k) <= tier
        BY <2>3, BeginTierEffect
      <3>2. TierOfChange(i) = t
        BY <2>3, <3>1 DEF Unordered
      <3>3. QED
        BY <1>2, <3>1, <3>2
    <2>5. Ended(j) /\ (task[j] = "ok" => j \in succeeded)
      BY <1>2, <2>4, SettledListed
    <2>6. QED
      BY <1>4, <2>3, <2>5
  <1>7. QED
    BY <1>5, <1>6

LEMMA HooksRunInductive ==
    ASSUME ApplyAssumption, IInv, QueueInTier, IdsKnown, HooksRun, [Next]_vars
    PROVE  HooksRun'
  <1>0. TypeOK /\ ListsTrue
    BY DEF IInv
  <1>1. /\ Deployed' = Deployed /\ Deployed \subseteq Idx
        /\ \A i : TierOfChange(i)' = TierOfChange(i)
        /\ \A i : Type(i)' = Type(i) /\ Action(i)' = Action(i)
    BY StepEffect, Frame, FrameOrder DEF Deployed
  <1>2. SUFFICES ASSUME AllRecorded, NEW i \in Deployed, TierOver(i)', task'[i] = "ok"
                 PROVE  /\ Type(i) = "SemanticModel" /\ Action(i) # "Rename" => i \in refreshed'
                        /\ Type(i) = "Lakehouse" => i \in polled'
    BY <1>1, StepEffect DEF HooksRun
  <1>3. TierOfChange(i) \in 0 .. 12 /\ tier \in Int
    BY <1>0, TierIsInt DEF TierOfChange, TypeOK
  <1>4. ASSUME TierOver(i)
        PROVE  /\ Type(i) = "SemanticModel" /\ Action(i) # "Rename" => i \in refreshed'
               /\ Type(i) = "Lakehouse" => i \in polled'
    <2>1. Ended(i)
      BY <1>2, <1>4, SettledListed DEF TierOver
    <2>2. task[i] = "ok"
      BY <1>1, <1>2, <2>1, StepEffect
    <2>3. QED
      BY <1>2, <1>4, <2>2, StepEffect DEF HooksRun
  <1>5. CASE BeginTier
    <2>1. TierOver(i)
      <3>1. PICK t \in 0 .. 12 :
              /\ stage = "nextTier" /\ stage' \in {"serial", "collect"} /\ tier' = t
              /\ \A k \in Deployed : TierOfChange(k) < t => TierOfChange(k) <= tier
        BY <1>5, BeginTierEffect
      <3>2. TierOfChange(i) < t
        BY <1>1, <1>2, <3>1 DEF TierOver
      <3>3. QED
        BY <3>1, <3>2 DEF TierOver
    <2>2. QED
      BY <1>4, <2>1
  <1>6. CASE InterTierHooks
    <2>1. /\ stage = "hooks" /\ tier' = tier /\ task' = task
      BY <1>6 DEF InterTierHooks
    <2>2. TierOfChange(i) <= tier
      BY <1>1, <1>2, <1>3, <2>1 DEF TierOver
    <2>3. CASE TierOfChange(i) < tier
      BY <1>4, <2>3 DEF TierOver
    <2>4. CASE TierOfChange(i) = tier
      <3>1. i \in succeeded
        BY <1>2, <2>1, <2>2, SettledListed
      <3>2. i \in createdIds
        BY <1>2, <2>1, <3>1 DEF IdsKnown
      <3>3. Action(i) # "Rename" => Action(i) \in {"Create", "Update"}
        BY DEF Deployed
      <3>4. QED
        BY <1>6, <2>4, <3>1, <3>2, <3>3 DEF InterTierHooks
    <2>5. QED
      BY <1>3, <2>2, <2>3, <2>4
  <1>7. CASE ~ BeginTier /\ ~ InterTierHooks
    <2>1. /\ tier' = tier
          /\ stage' \in {"start", "nextTier"} => stage \in {"start", "nextTier"}
      BY <1>7, QueueStep
    <2>2. TierOver(i)
      BY <1>1, <1>2, <2>1 DEF TierOver
    <2>3. QED
      BY <1>4, <2>2
  <1>8. QED
    BY <1>5, <1>6, <1>7

LEMMA OrderInit == ASSUME ApplyAssumption, Init PROVE OrderInv
  <1> USE DEF Init
  <1>1. \A i \in Idx : task[i] = "idle"
    BY DEF Idx
  <1>2. Deployed \subseteq Idx /\ tier = -1
    BY DEF Deployed
  <1>3. QueueInTier /\ SpawnedUnordered /\ Sorted /\ IdsKnown
    BY <1>1 DEF QueueInTier, SpawnedUnordered, Sorted, IdsKnown
  <1>4. CalleesFirst /\ EarlierBound /\ HooksRun
    BY <1>1, <1>2 DEF CalleesFirst, EarlierBound, HooksRun, Started, Sleeping
  <1>5. QED
    BY <1>3, <1>4 DEF OrderInv

LEMMA OrderInductive == Spec => []OrderInv
  <1>1. Init => OrderInv
    BY OrderInit, ApplyAssumption
  <1>2. IInv /\ OrderInv /\ [Next]_vars => OrderInv'
    BY QueueInTierInductive, SpawnedUnorderedInductive, SortedInductive, CalleesFirstInductive,
       IdsKnownInductive, EarlierBoundInductive, HooksRunInductive, ApplyAssumption DEF OrderInv
  <1>3. QED
    BY <1>1, <1>2, Inductive, PTL DEF Spec

\* Unless fail-fast has seen a failure, a payload carries the ID of every item of
\* an earlier tier that it refers to and that the apply has deployed: one pass
\* over the tiers is enough (the maps of apply.rs, EarlierTierResolved).
THEOREM SinglePassResolves == Spec => []EarlierTierResolved
  <1>1. EarlierBound => EarlierTierResolved
    BY DEF EarlierBound, EarlierTierResolved, Started, Sleeping
  <1>2. QED
    BY <1>1, OrderInductive, PTL DEF OrderInv

\* Dataflows and DataPipelines of a tier start after those they call have ended,
\* in both modes (order_pipelines and order_dataflows, CalleesFirst).
THEOREM CalleesBeforeCallers == Spec => []CalleesFirst
  BY OrderInductive, PTL DEF OrderInv

\* The tiers of a Report and of its model, in the table of ordering.rs.
LEMMA ReportAfterModel == DeployTier("SemanticModel") = 3 /\ DeployTier("Report") = 4
  <1>1. \A k \in 1 .. NTypes : /\ DEPLOY_ORDER[k] = "SemanticModel" <=> k = 17
                               /\ DEPLOY_ORDER[k] = "Report" <=> k = 18
    BY DEF DEPLOY_ORDER, NTypes
  <1>2. DeployPriority("SemanticModel") = 16 /\ DeployPriority("Report") = 17
    BY <1>1 DEF DeployPriority, NTypes
  <1>3. QED
    BY <1>2 DEF DeployTier, TierOf

\* The refresh of the semantic models of a tier and the look-up of its SQL
\* endpoints come before what is bound to them (HooksFirst).
THEOREM HooksBeforeDependents == Spec => []HooksFirst
  <1>1. ASSUME IInv, HooksRun PROVE HooksFirst
    <2>0. tier \in Int /\ \A i : TierOfChange(i) \in 0 .. 12
      BY <1>1, TierIsInt DEF TierOfChange, IInv, TypeOK
    <2>1. ModelsRefreshed
      <3>1. SUFFICES ASSUME AllRecorded, NEW i \in Deployed, NEW m \in Deployed, Started(i),
                            Type(i) = "Report", Type(m) = "SemanticModel",
                            Action(m) # "Rename", task[m] = "ok"
                     PROVE  m \in refreshed
        BY DEF ModelsRefreshed
      <3>2. TierOfChange(i) = 4 /\ TierOfChange(m) = 3
        BY <3>1, ReportAfterModel DEF TierOfChange
      <3>3. TierOfChange(i) <= tier
        BY <1>1, <3>1, BegunTier, ApplyAssumption DEF Started, Sleeping
      <3>4. TierOver(m)
        BY <2>0, <3>2, <3>3 DEF TierOver
      <3>5. QED
        BY <1>1, <3>1, <3>4 DEF HooksRun
    <2>2. EndpointsAsked
      <3>1. SUFFICES ASSUME AllRecorded, NEW i \in Deployed, NEW l \in Deployed, Started(i),
                            Type(l) = "Lakehouse", TierOfChange(l) < TierOfChange(i),
                            task[l] = "ok"
                     PROVE  l \in polled
        BY DEF EndpointsAsked
      <3>2. TierOfChange(i) <= tier
        BY <1>1, <3>1, BegunTier, ApplyAssumption DEF Started, Sleeping
      <3>3. TierOver(l)
        BY <2>0, <3>1, <3>2 DEF TierOver
      <3>4. QED
        BY <1>1, <3>1, <3>3 DEF HooksRun
    <2>3. QED
      BY <2>1, <2>2 DEF HooksFirst
  <1>2. QED
    BY <1>1, Inductive, OrderInductive, PTL DEF OrderInv

-----------------------------------------------------------------------------
(* The refinement of TieredWork. *)

\* A change may begin when every deployed change of a lower tier has ended.
LEMMA DueNow ==
    ASSUME ApplyAssumption, IInv, QueueInTier, NEW i \in Deployed \cup Deletes,
           task[i] \in Sleeping,
           \/ i \in Deployed /\ TierOfChange(i) <= tier
           \/ i \in Deployed /\ stage = "nextTier" /\ \A j \in Deployed :
                TierOfChange(j) < TierOfChange(i) => TierOfChange(j) <= tier
           \/ i \in Deletes /\ \A j \in Deployed : Ended(j)
    PROVE  Work!Due(i)
  <1>0. tier \in Int /\ \A j : TierOfChange(j) \in 0 .. 12
    BY TierIsInt DEF TierOfChange, IInv, TypeOK
  <1>1. Progress[i] = "todo"
    BY DEF Progress
  <1>2. ASSUME NEW j \in Deployed \cup Deletes, Rank[j] < Rank[i]
        PROVE  Progress[j] = "done"
    <2>1. ~ failFast
      BY <1>2 DEF Rank
    <2>2. AllRecorded
      BY <2>1 DEF AllRecorded
    <2>3. /\ Rank[i] = IF i \in Deletes THEN 13 ELSE TierOfChange(i)
          /\ Rank[j] = IF j \in Deletes THEN 13 ELSE TierOfChange(j)
      BY <2>1 DEF Rank
    <2>4. j \in Deployed
      BY <1>0, <1>2, <2>3
    <2>5. Rank[j] = TierOfChange(j)
      BY <2>3, <2>4, DisjointChanges
    <2>6. Ended(j)
      <3>1. CASE i \in Deployed
        <4>1. TierOfChange(j) < TierOfChange(i)
          BY <1>2, <2>3, <2>5, <3>1, DisjointChanges
        <4>2. TierOfChange(j) < tier \/ (stage = "nextTier" /\ TierOfChange(j) <= tier)
          <5>1. /\ i \notin Deletes
                /\ TierOfChange(i) \in Int /\ TierOfChange(j) \in Int /\ tier \in Int
            BY <1>0, <3>1, DisjointChanges
          <5>2. CASE TierOfChange(i) <= tier
            BY <4>1, <5>1, <5>2
          <5>3. CASE ~ (TierOfChange(i) <= tier)
            BY <2>4, <4>1, <5>1, <5>3
          <5>4. QED
            BY <5>2, <5>3
        <4>3. QED
          BY <2>2, <2>4, <4>2, SettledListed
      <3>2. CASE i \notin Deployed
        BY <2>4, <3>2
      <3>3. QED
        BY <3>1, <3>2
    <2>7. QED
      BY <2>6 DEF Progress, Ended, Over, Sleeping, Running
  <1>3. QED
    BY <1>1, <1>2 DEF Work!Due, Work!Items, Rank

LEMMA FrameRank == ASSUME changeset' = changeset, failFast' = failFast PROVE Rank' = Rank
  <1>1. Deployed' = Deployed /\ Deletes' = Deletes /\ \A i : TierOfChange(i)' = TierOfChange(i)
    BY Frame
  <1>2. QED
    BY <1>1 DEF Rank

\* One change on its way, as a step of TieredWork.
LEMMA WorkMove ==
    ASSUME TypeOK, changeset' = changeset, failFast' = failFast,
           NEW i \in Deployed \cup Deletes, NEW next \in Running \cup Over,
           task' = [task EXCEPT ![i] = next]
    PROVE  Work!Move(i, IF next \in Running THEN "doing" ELSE "done")
  <1>1. /\ Deployed' = Deployed /\ Deletes' = Deletes /\ Rank' = Rank
        /\ Deployed \cup Deletes \subseteq Idx
    BY Frame, FrameRank DEF Deployed, Deletes
  <1>2. next \notin Sleeping
    BY DEF Sleeping, Running, Over
  <1>3. \A j \in Deployed \cup Deletes : task'[j] = IF j = i THEN next ELSE task[j]
    BY <1>1 DEF TypeOK
  <1>4. Progress' = [j \in Deployed \cup Deletes |->
                        IF j = i THEN IF next \in Running THEN "doing" ELSE "done"
                        ELSE Progress[j]]
    BY <1>1, <1>2, <1>3 DEF Progress
  <1>5. QED
    BY <1>1, <1>4 DEF Work!Move, Progress

\* No change moves on: a stutter.
LEMMA WorkStutter ==
    ASSUME TypeOK, changeset' = changeset, failFast' = failFast,
           \A i \in Deployed \cup Deletes :
                \/ task'[i] = task[i]
                \/ {task[i], task'[i]} \subseteq Sleeping
                \/ {task[i], task'[i]} \subseteq Running
    PROVE  UNCHANGED Work!vars
  <1>1. /\ Deployed' = Deployed /\ Deletes' = Deletes /\ Rank' = Rank
    BY Frame, FrameRank
  <1>2. Sleeping \cap Running = {}
    BY DEF Sleeping, Running
  <1>3. Progress' = Progress
    BY <1>1, <1>2 DEF Progress
  <1>4. QED
    BY <1>1, <1>3 DEF Work!vars

LEMMA WorkStep ==
    ASSUME ApplyAssumption, IInv, OrderInv, [Next]_vars
    PROVE  [Work!Next]_(Work!vars)
  <1>0. TypeOK /\ BegunInTurn /\ QueueOfStage /\ QueueInTier
    BY DEF IInv, OrderInv
  <1>1. changeset' = changeset /\ failFast' = failFast
    BY StepEffect
  <1>2. /\ Deployed \cup Deletes \subseteq Idx
        /\ DOMAIN Rank = Deployed \cup Deletes
    BY DEF Deployed, Deletes, Rank
  <1>3. Running \cap Over = {} /\ Running \cap Sleeping = {} /\ Over \cap Sleeping = {}
    BY DEF Running, Over, Sleeping
  <1>4. ASSUME NEW i \in Deployed \cup Deletes, NEW next \in Running \cup Over,
               task' = [task EXCEPT ![i] = next], Work!Due(i)
        PROVE  Work!Next
    <2>1. Work!Move(i, IF next \in Running THEN "doing" ELSE "done")
      BY <1>0, <1>1, <1>4, WorkMove
    <2>2. Work!Begin(i) \/ Work!Refuse(i)
      BY <1>4, <2>1 DEF Work!Begin, Work!Refuse
    <2>3. QED
      BY <1>2, <2>2 DEF Work!Next, Work!Items
  <1>5. ASSUME NEW i \in Idx, TaskStep(i)
        PROVE  [Work!Next]_(Work!vars)
    <2>1. task[i] \in Running \cup {"queued"}
      BY <1>0, <1>5, TaskStepEffect DEF IInv
    <2>2. PICK next \in Running \cup Over : task' = [task EXCEPT ![i] = next]
      BY <1>0, <1>5, TaskStepEffect DEF IInv, Reply
    <2>3. \/ i \in Deployed /\ TierOfChange(i) <= tier
          \/ i \in Deletes /\ task[i] # "queued"
      BY <1>0, <2>1 DEF BegunInTurn, Running
    <2>4. CASE task[i] = "queued"
      <3>1. Work!Due(i)
        BY <1>0, <2>3, <2>4, DueNow DEF Sleeping
      <3>2. QED
        BY <1>4, <2>2, <2>3, <3>1
    <2>5. CASE task[i] \in Running /\ next \in Running
      BY <1>0, <1>1, <1>2, <2>2, <2>5, WorkStutter DEF TypeOK
    <2>6. CASE task[i] \in Running /\ next \in Over
      <3>1. Work!Move(i, IF next \in Running THEN "doing" ELSE "done")
        BY <1>0, <1>1, <2>2, <2>3, WorkMove
      <3>2. Progress[i] = "doing"
        BY <1>3, <2>3, <2>6 DEF Progress
      <3>3. Work!End(i)
        BY <1>3, <2>6, <3>1, <3>2 DEF Work!End
      <3>4. QED
        BY <1>2, <2>3, <3>3 DEF Work!Next, Work!Items
    <2>7. QED
      BY <2>1, <2>2, <2>4, <2>5, <2>6
  <1>6. CASE StartNext
    <2> DEFINE h == Head(queue)
    <2>1. /\ queue # << >> /\ stage \in {"serial", "deletes"} /\ task[h] = "idle"
          /\ task' = [task EXCEPT ![h] = FirstStep(h)]
      BY <1>6 DEF StartNext, Fresh, Reply
    <2>2. h \in Idx /\ 1 \in DOMAIN queue /\ queue[1] = h
      BY <1>0, <2>1, TailElements DEF TypeOK
    <2>3. FirstStep(h) \in Running \cup Over
      BY FirstStepType
    <2>4. \/ h \in Deployed /\ TierOfChange(h) <= tier
          \/ h \in Deletes
      BY <1>0, <2>1, <2>2 DEF QueueOfStage
    <2>5. Work!Due(h)
      <3>1. CASE h \in Deployed
        BY <1>0, <2>1, <2>4, <3>1, DisjointChanges, DueNow DEF Sleeping
      <3>2. CASE h \in Deletes
        <4>1. task'[h] \notin Sleeping
          BY <1>0, <1>3, <2>1, <2>2, <2>3 DEF TypeOK
        <4>2. \A j \in Deployed : task'[j] \in Over
          <5>1. DeletesLast' /\ Deletes' = Deletes /\ Deployed' = Deployed
            BY StepInductive, <1>1, Frame DEF IInv
          <5>2. QED
            BY <3>2, <4>1, <5>1 DEF DeletesLast, Started, Ended
        <4>3. \A j \in Deployed : Ended(j)
          BY <1>0, <1>2, <2>1, <2>2, <3>2, <4>2, DisjointChanges DEF Ended, TypeOK
        <4>4. QED
          BY <1>0, <2>1, <3>2, <4>3, DueNow DEF Sleeping
      <3>3. QED
        BY <2>4, <3>1, <3>2
    <2>6. QED
      BY <1>4, <2>1, <2>3, <2>4, <2>5
  <1>7. CASE BeginTier
    <2>1. \A i \in Idx : task'[i] = task[i] \/ {task[i], task'[i]} \subseteq Sleeping
      BY <1>7, BeginTierEffect DEF Sleeping
    <2>2. QED
      BY <1>0, <1>1, <1>2, <2>1, WorkStutter
  <1>8. CASE task' = task
    BY <1>0, <1>1, <1>8, WorkStutter
  <1>9. CASE CheckIdentities \/ BeginTierCyclic \/ Record \/ EndLoop \/ NextGroup
             \/ InterTierHooks \/ BeginDeletes \/ Return \/ Exit \/ UNCHANGED vars
    <2>1. task' = task
      BY <1>9 DEF CheckIdentities, BeginTierCyclic, Record, EndLoop, NextGroup,
           InterTierHooks, BeginDeletes, Return, Exit, vars
    <2>2. QED
      BY <1>8, <2>1
  <1>10. QED
    BY <1>5, <1>6, <1>7, <1>9 DEF Next, MainStep

\* An apply is tiered work: without fail-fast no change begins before every create,
\* update and rename of the earlier tiers has ended, no delete before all of them,
\* and in both modes each change is worked on once (ImplementsTieredWork).
THEOREM Refinement == Spec => ImplementsTieredWork
  <1>1. Init => Work!Init
    BY DEF Init, Work!Init, Work!Items, Rank, Progress, Sleeping, Deployed, Deletes, Idx
  <1>2. IInv /\ OrderInv /\ [Next]_vars => [Work!Next]_(Work!vars)
    BY WorkStep, ApplyAssumption
  <1>3. QED
    BY <1>1, <1>2, Inductive, OrderInductive, PTL DEF Spec, ImplementsTieredWork, Work!Spec
===============================================================================

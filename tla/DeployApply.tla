------------------------------ MODULE DeployApply ------------------------------
(***************************************************************************)
(* deploy/apply.rs, execute_changeset: one apply of a changeset.            *)
(*                                                                          *)
(* Creates, updates and renames are grouped by type and the types into      *)
(* tiers.  A tier runs its unordered items first, either one by one or as   *)
(* spawned tasks behind a semaphore, then its Dataflows and DataPipelines   *)
(* one by one in topological order, then two hooks.  Deletes come last.     *)
(* Payloads are rewritten with created_ids, the map from an item to its     *)
(* deployed ID: a serial item reads the map when it starts, a spawned item  *)
(* gets a copy taken when its whole tier is spawned.                        *)
(*                                                                          *)
(* Simplified: a change is its index in the changeset; an ID is known or    *)
(* not; a payload is the set of references its rewriting resolved.  Types   *)
(* of equal priority (all unlisted types) keep the changeset's order here,  *)
(* any order in the code.                                                   *)
(***************************************************************************)
EXTENDS Ordering, FiniteSets

CONSTANTS Changesets,    \* the changesets an apply may be given
          Concurrency,   \* --concurrency
          MaxNameTries   \* creates tried while a deleted item holds the name

Actions == {"Create", "Update", "Rename", "Delete", "Skip"}

\* A reference of a definition, by what it is resolved with: the logical ID of a
\* source item, the name of an item (activity names of a pipeline, the model of
\* a Report, the Lakehouse of a linked service), or the SQL endpoint of a
\* Lakehouse.  "shell" is a Lakehouse a pipeline names that is neither in the
\* source nor deployed.  "call" is a name that is left as it is and only
\* orders Dataflows and DataPipelines.
RefKinds == {"logical", "named", "sql", "shell", "call"}

\* type:     the item type
\* action:   Change.action
\* refs:     <<kind, target>>, target an index or the number of a shell
\* inSource: the source has an item of that type and name (a saved plan is
\*           applied to a directory that is read again)
\* parts:    the source item has definition parts
Change == [type : STRING, action : Actions, refs : SUBSET (RefKinds \X Nat),
           inSource : BOOLEAN, parts : BOOLEAN]

ASSUME ApplyAssumption ==
    /\ \A cs \in Changesets : cs \in Seq(Change)
    /\ Concurrency \in Nat
    /\ MaxNameTries \in Nat \ {0}

VARIABLES
    changeset,   \* the changeset, fixed by Init
    failFast,    \* --fail-fast, fixed by Init
    stage,       \* where execute_changeset is
    tier,        \* the tier in work, -1 before the first
    queue,       \* items left to run, or handles left to await
    groups,      \* the ordered groups of the tier still to run
    task,        \* per change: how far deploy_change or execute_delete is
    tries,       \* per change: creates rejected because the name is not free
    bound,       \* per change: the references its payload was rewritten with
    createdIds,  \* created_ids: changes whose deployed ID is known
    shellIds,    \* created_ids: auto-created Lakehouses
    endpoints,   \* extra_resolutions: Lakehouses with a rewired SQL endpoint
    polled,      \* polled_lakehouses
    refreshed,   \* semantic models a refresh was requested for
    succeeded,   \* DeployResult.succeeded
    failed,      \* DeployResult.failed
    applied      \* external: changes that changed the workspace

vars == <<changeset, failFast, stage, tier, queue, groups, task, tries, bound,
          createdIds, shellIds, endpoints, polled, refreshed, succeeded, failed, applied>>

mainVars == <<stage, tier, queue, groups, createdIds, shellIds, endpoints,
              polled, refreshed, succeeded, failed>>

-----------------------------------------------------------------------------
(* The changeset. *)

Idx == DOMAIN changeset
Type(i) == changeset[i].type
Action(i) == changeset[i].action
TierOfChange(i) == DeployTier(Type(i))

Deployed == {i \in Idx : Action(i) \in {"Create", "Update", "Rename"}}
Deletes == {i \in Idx : Action(i) = "Delete"}

\* Changes that carry a deployed_id.
WithDeployedId(cs) == {i \in DOMAIN cs : cs[i].action # "Create"}

\* identities::required: a DeploymentPlan is in the source.
PreserveIdentities ==
    \E i \in Idx : Type(i) = "DeploymentPlan" /\ Action(i) # "Delete"

OrderedTypes == {"Dataflow", "DataPipeline"}
Group(t, type) == {i \in Deployed : TierOfChange(i) = t /\ Type(i) = type}
Unordered(t) == {i \in Deployed : TierOfChange(i) = t /\ Type(i) \notin OrderedTypes}

\* The references to items of the same group that the sort sees: a pipeline
\* calls by name, and a GUID is taken for an external item; a Dataflow is found
\* by name or logical ID, and never refers to itself.
GroupRefs(i, S) ==
    IF Type(i) = "DataPipeline"
    THEN {r \in S : <<"call", r>> \in changeset[i].refs}
    ELSE {r \in S \ {i} : {<<"call", r>>, <<"logical", r>>} \cap changeset[i].refs # {}}

\* All arrangements of a set of changes.
Arrangements(S) ==
    {s \in [1 .. Cardinality(S) -> S] : \A i \in S : \E k \in DOMAIN s : s[k] = i}

\* sort_by_key on the types, each group in the order of the changeset.
DeployOrders(S) ==
    {s \in Arrangements(S) : \A a, b \in DOMAIN s : a < b =>
        \/ DeployPriority(Type(s[a])) < DeployPriority(Type(s[b]))
        \/ DeployPriority(Type(s[a])) = DeployPriority(Type(s[b])) /\ s[a] < s[b]}

DeleteOrders(S) ==
    {s \in Arrangements(S) : \A a, b \in DOMAIN s : a < b =>
        \/ DeletePriority(Type(s[a])) < DeletePriority(Type(s[b]))
        \/ DeletePriority(Type(s[a])) = DeletePriority(Type(s[b])) /\ s[a] < s[b]}

\* Mutant: the sort lists callers before what they call.
CallersFirst(S) ==
    {s \in Arrangements(S) : Cardinality(S) > 1 =>
        \A a, b \in DOMAIN s : s[b] \in GroupRefs(s[a], S) => a < b}

\* order_pipelines and order_dataflows: a single item is not sorted, several
\* go through topological_sort, which has no result when they form a cycle.
GroupOrders(S) ==
    {s \in Arrangements(S) : Cardinality(S) > 1 =>
        \A a, b \in DOMAIN s : s[b] \in GroupRefs(s[a], S) => b < a}

\* The group, as a list of at most one entry of sequential_changes; no list at
\* all when it cannot be ordered.
GroupLists(S) == IF S = {} THEN {<< >>} ELSE {<<s>> : s \in GroupOrders(S)}

-----------------------------------------------------------------------------

Init ==
    /\ changeset \in Changesets
    /\ failFast \in BOOLEAN
    /\ stage = "start"
    /\ tier = -1
    /\ queue = << >>
    /\ groups = << >>
    /\ task = [i \in Idx |-> "idle"]
    /\ tries = [i \in Idx |-> 0]
    /\ bound = [i \in Idx |-> {}]
    /\ createdIds = WithDeployedId(changeset)
    /\ shellIds = {}
    /\ endpoints = {}
    /\ polled = {}
    /\ refreshed = {}
    /\ succeeded = {}
    /\ failed = {}
    /\ applied = {}

\* build_resolution_map and the semantic model names, over the maps as they are.
\* A logical ID is read from the source item.
Resolvable(i) == {ref \in changeset[i].refs :
                    \/ ref[1] = "logical" /\ ref[2] \in createdIds /\ changeset[ref[2]].inSource
                    \/ ref[1] = "named" /\ ref[2] \in createdIds
                    \/ ref[1] = "sql" /\ ref[2] \in endpoints
                    \/ ref[1] = "shell" /\ ref[2] \in shellIds}

\* The first request of a change, or its end when there is none to send.
FirstStep(i) ==
    IF Action(i) = "Delete" THEN "deleting"
    ELSE IF ~ changeset[i].inSource THEN "failed"
    ELSE CASE Action(i) = "Create"                       -> "creating"
           [] Action(i) = "Rename"                       -> "patching"
           [] Action(i) = "Update" /\ changeset[i].parts -> "updating"
           [] OTHER                                      -> "ok"

Sleeping == {"idle", "queued"}
Running == {"creating", "waiting", "restoring", "updating", "patching", "deleting"}
Over == {"ok", "okNoId", "failed"}

-----------------------------------------------------------------------------
(* One change on its way through deploy_change or execute_delete.  The        *)
(* workspace may apply a request whose answer is an error or never arrives.   *)

Fresh(i) == task[i] = "idle"
Reply(i, next) == task' = [task EXCEPT ![i] = next]
Alive == stage # "exited"

\* A request of change i that ends the change, or moves it on to step "next".
Answered(i, next) ==
    \/ Reply(i, next) /\ applied' = applied \cup {i}
    \/ Reply(i, "failed") /\ (applied' = applied \/ applied' = applied \cup {i})

\* sem.acquire().await of a spawned task: each tier has its own semaphore.
Acquire(i) ==
    /\ Alive
    /\ task[i] = "queued"
    /\ Cardinality({j \in Unordered(TierOfChange(i)) : task[j] \in Running})
         < Concurrency
    /\ Reply(i, FirstStep(i))
    /\ UNCHANGED <<changeset, failFast, mainVars, tries, bound, applied>>

\* Mutant: the attempts are not counted.
PostCreateForever(i) ==
    /\ Alive
    /\ task[i] = "creating"
    /\ Reply(i, "waiting")
    /\ UNCHANGED <<changeset, failFast, mainVars, tries, bound, applied>>

\* The POST that creates the item.  The response may lack the new ID, which is
\* an error only when identities have to be preserved.
PostCreate(i) ==
    /\ Alive
    /\ task[i] = "creating"
    /\ \/ Answered(i, IF PreserveIdentities THEN "restoring" ELSE "ok") /\ UNCHANGED tries
       \/ /\ Reply(i, IF PreserveIdentities THEN "failed" ELSE "okNoId")
          /\ applied' = applied \cup {i}
          /\ UNCHANGED tries
       \/ /\ tries' = [tries EXCEPT ![i] = @ + 1]
          /\ Reply(i, IF tries'[i] < MaxNameTries THEN "waiting" ELSE "failed")
          /\ UNCHANGED applied
    /\ UNCHANGED <<changeset, failFast, mainVars, bound>>

\* Thirty seconds later the create is sent again.
RetryCreate(i) ==
    /\ Alive
    /\ task[i] = "waiting"
    /\ Reply(i, "creating")
    /\ UNCHANGED <<changeset, failFast, mainVars, tries, bound, applied>>

\* identities::restore_new: nothing to assign, or a PATCH that is confirmed or
\* not.  The item exists either way.
RestoreIdentity(i) ==
    /\ Alive
    /\ task[i] = "restoring"
    /\ \E end \in {"ok", "failed"} : Reply(i, end)
    /\ UNCHANGED <<changeset, failFast, mainVars, tries, bound, applied>>

\* Step 1 of a rename, and the only one when there are no parts.
PatchName(i) ==
    /\ Alive
    /\ task[i] = "patching"
    /\ Answered(i, IF changeset[i].parts THEN "updating" ELSE "ok")
    /\ UNCHANGED <<changeset, failFast, mainVars, tries, bound>>

\* updateDefinition: all of an update, step 2 of a rename.
UpdateDefinition(i) ==
    /\ Alive
    /\ task[i] = "updating"
    /\ Answered(i, "ok")
    /\ UNCHANGED <<changeset, failFast, mainVars, tries, bound>>

DeleteItem(i) ==
    /\ Alive
    /\ task[i] = "deleting"
    /\ Answered(i, "okNoId")
    /\ UNCHANGED <<changeset, failFast, mainVars, tries, bound>>

TaskStep(i) ==
    \/ Acquire(i) \/ PostCreate(i) \/ RetryCreate(i) \/ RestoreIdentity(i)
    \/ PatchName(i) \/ UpdateDefinition(i) \/ DeleteItem(i)

-----------------------------------------------------------------------------
(* The main task. *)

\* identities::check_existing compares every item that is already deployed; the
\* apply ends there when one of them carries another identity.
CheckIdentities ==
    /\ stage = "start"
    /\ \/ stage' = "nextTier"
       \/ /\ PreserveIdentities
          /\ \E i \in Idx : Action(i) \in {"Update", "Rename", "Skip"} /\ changeset[i].inSource
          /\ stage' = "aborted"
    /\ UNCHANGED <<changeset, failFast, tier, queue, groups, task, tries, bound, createdIds,
                   shellIds, endpoints, polled, refreshed, succeeded, failed, applied>>

TiersLeft == {TierOfChange(i) : i \in {j \in Deployed : TierOfChange(j) > tier}}

\* A tier begins: its groups are ordered, then its unordered items are started.
\* One item, or a concurrency of one, runs without tasks; otherwise all are
\* spawned now, each with a copy of the maps.
BeginTier ==
    /\ stage = "nextTier"
    /\ \E t \in TiersLeft :
        /\ \A u \in TiersLeft : t <= u
        /\ tier' = t
        /\ \E flows \in GroupLists(Group(t, "Dataflow")),
              pipes \in GroupLists(Group(t, "DataPipeline")),
              items \in DeployOrders(Unordered(t)) :
            /\ groups' = flows \o pipes
            /\ queue' = items
            /\ IF Concurrency <= 1 \/ Len(items) <= 1
               THEN stage' = "serial" /\ UNCHANGED <<task, bound>>
               ELSE /\ stage' = "collect"
                    /\ task' = [i \in Idx |-> IF i \in Unordered(t) THEN "queued" ELSE task[i]]
                    /\ bound' = [i \in Idx |-> IF i \in Unordered(t) THEN Resolvable(i) ELSE bound[i]]
    /\ UNCHANGED <<changeset, failFast, tries, createdIds, shellIds, endpoints, polled,
                   refreshed, succeeded, failed, applied>>

\* topological_sort finds a cycle: the error leaves execute_changeset, the
\* tiers already deployed and their report with it.
BeginTierCyclic ==
    /\ stage = "nextTier"
    /\ \E t \in TiersLeft :
        /\ \A u \in TiersLeft : t <= u
        /\ \E type \in OrderedTypes : GroupLists(Group(t, type)) = {}
    /\ stage' = "aborted"
    /\ UNCHANGED <<changeset, failFast, tier, queue, groups, task, tries, bound, createdIds,
                   shellIds, endpoints, polled, refreshed, succeeded, failed, applied>>

MayStart == ~ (failFast /\ failed # {})

\* Mutant: the loop does not look at failed.
StartNextRegardless ==
    /\ stage \in {"serial", "deletes"}
    /\ queue # << >>
    /\ Fresh(Head(queue))
    /\ Reply(Head(queue), FirstStep(Head(queue)))
    /\ bound' = [bound EXCEPT ![Head(queue)] = Resolvable(Head(queue))]
    /\ UNCHANGED <<changeset, failFast, mainVars, tries, applied>>

\* The next item of a serial loop, or the next delete, starts with the maps as
\* they are now.
StartNext ==
    /\ stage \in {"serial", "deletes"}
    /\ queue # << >>
    /\ Fresh(Head(queue))
    /\ MayStart
    /\ Reply(Head(queue), FirstStep(Head(queue)))
    /\ bound' = [bound EXCEPT ![Head(queue)] = Resolvable(Head(queue))]
    /\ UNCHANGED <<changeset, failFast, mainVars, tries, applied>>

\* Mutant: the new ID is not inserted into created_ids.
RecordNoId ==
    /\ stage \in {"serial", "collect", "deletes"}
    /\ queue # << >>
    /\ LET i == Head(queue) IN
        /\ task[i] \in Over
        /\ succeeded' = IF task[i] = "failed" THEN succeeded ELSE succeeded \cup {i}
        /\ failed' = IF task[i] = "failed" THEN failed \cup {i} ELSE failed
        /\ queue' = IF task[i] = "failed" /\ stage = "collect" /\ failFast
                    THEN << >> ELSE Tail(queue)
    /\ UNCHANGED <<changeset, failFast, stage, tier, groups, task, tries, bound, createdIds,
                   shellIds, endpoints, polled, refreshed, applied>>

\* The result of the item in hand, or of the handle awaited, is recorded.  With
\* fail-fast a failed handle drops the handles after it, not their tasks.
Record ==
    /\ stage \in {"serial", "collect", "deletes"}
    /\ queue # << >>
    /\ LET i == Head(queue) IN
        \/ /\ task[i] \in {"ok", "okNoId"}
           /\ succeeded' = succeeded \cup {i}
           /\ createdIds' = IF task[i] = "ok" THEN createdIds \cup {i} ELSE createdIds
           /\ queue' = Tail(queue)
           /\ UNCHANGED failed
        \/ /\ task[i] = "failed"
           /\ failed' = failed \cup {i}
           /\ queue' = IF stage = "collect" /\ failFast THEN << >> ELSE Tail(queue)
           /\ UNCHANGED <<succeeded, createdIds>>
    /\ UNCHANGED <<changeset, failFast, stage, tier, groups, task, tries, bound, shellIds,
                   endpoints, polled, refreshed, applied>>

\* Mutant: fail_fast alone ends the loop.
LoopOverFailFast == queue # << >> => stage # "collect" /\ Fresh(Head(queue)) /\ failFast

\* The loop is through, or breaks off before an item it may not start.
LoopOver == queue # << >> => stage # "collect" /\ Fresh(Head(queue)) /\ ~ MayStart

\* Mutant: the handles are not awaited.
EndLoopEarly ==
    /\ stage \in {"serial", "collect"}
    /\ queue' = << >>
    /\ stage' = IF groups = << >> THEN "hooks" ELSE "group"
    /\ UNCHANGED <<changeset, failFast, tier, groups, task, tries, bound, createdIds, shellIds,
                   endpoints, polled, refreshed, succeeded, failed, applied>>

EndLoop ==
    /\ stage \in {"serial", "collect"}
    /\ LoopOver
    /\ queue' = << >>
    /\ stage' = IF groups = << >> THEN "hooks" ELSE "group"
    /\ UNCHANGED <<changeset, failFast, tier, groups, task, tries, bound, createdIds, shellIds,
                   endpoints, polled, refreshed, succeeded, failed, applied>>

\* The Lakehouses a group of pipelines names and nobody deployed.
ShellsOf(g) == {ref[2] : ref \in {r \in UNION {changeset[g[k]].refs : k \in DOMAIN g} :
                                    r[1] = "shell" /\ r[2] \notin shellIds}}

\* The next ordered group: missing Lakehouses are created first, whatever has
\* failed before; a failure to create one is only a warning.
NextGroup ==
    /\ stage = "group"
    /\ queue' = Head(groups)
    /\ groups' = Tail(groups)
    /\ IF Type(Head(groups)[1]) = "DataPipeline"
       THEN \E made \in SUBSET ShellsOf(Head(groups)) : shellIds' = shellIds \cup made
       ELSE UNCHANGED shellIds
    /\ stage' = "serial"
    /\ UNCHANGED <<changeset, failFast, tier, task, tries, bound, createdIds, endpoints, polled,
                   refreshed, succeeded, failed, applied>>

\* Lakehouses whose endpoint the hook asks for, once: a source item some
\* definition refers to by its SQL endpoint.
Rewirable == {i \in createdIds \ polled :
                /\ Type(i) = "Lakehouse" /\ Action(i) # "Delete" /\ changeset[i].inSource
                /\ \E j \in Idx : <<"sql", i>> \in changeset[j].refs}

\* Mutant: only newly created models are refreshed, only new Lakehouses polled.
HooksForCreates ==
    /\ stage = "hooks"
    /\ \E ready \in SUBSET Rewirable : endpoints' = endpoints \cup ready
    /\ polled' = polled \cup {i \in createdIds : Type(i) = "Lakehouse" /\ Action(i) = "Create"}
    /\ refreshed' = refreshed \cup
            {i \in succeeded : Type(i) = "SemanticModel" /\ Action(i) = "Create"}
    /\ stage' = "nextTier"
    /\ UNCHANGED <<changeset, failFast, tier, queue, groups, task, tries, bound, createdIds,
                   shellIds, succeeded, failed, applied>>

\* populate_sql_endpoint_resolutions, then the refresh of the semantic models of
\* the tier.  A poll may fail or time out; it is not repeated.
InterTierHooks ==
    /\ stage = "hooks"
    /\ \E ready \in SUBSET Rewirable : endpoints' = endpoints \cup ready
    /\ polled' = polled \cup {i \in createdIds : Type(i) = "Lakehouse"}
    /\ refreshed' = refreshed \cup
            {i \in succeeded : /\ Type(i) = "SemanticModel"
                               /\ Action(i) \in {"Create", "Update"}
                               /\ TierOfChange(i) = tier
                               /\ i \in createdIds}
    /\ stage' = "nextTier"
    /\ UNCHANGED <<changeset, failFast, tier, queue, groups, task, tries, bound, createdIds,
                   shellIds, succeeded, failed, applied>>

BeginDeletes ==
    /\ stage = "nextTier"
    /\ TiersLeft = {}
    /\ \E items \in DeleteOrders(Deletes) : queue' = items
    /\ stage' = "deletes"
    /\ UNCHANGED <<changeset, failFast, tier, groups, task, tries, bound, createdIds, shellIds,
                   endpoints, polled, refreshed, succeeded, failed, applied>>

Return ==
    /\ stage = "deletes"
    /\ LoopOver
    /\ queue' = << >>
    /\ stage' = "returned"
    /\ UNCHANGED <<changeset, failFast, tier, groups, task, tries, bound, createdIds, shellIds,
                   endpoints, polled, refreshed, succeeded, failed, applied>>

\* The command prints its report and the process ends, with every task that is
\* still running.
Exit ==
    /\ stage \in {"returned", "aborted"}
    /\ stage' = "exited"
    /\ UNCHANGED <<changeset, failFast, tier, queue, groups, task, tries, bound, createdIds,
                   shellIds, endpoints, polled, refreshed, succeeded, failed, applied>>

MainStep ==
    \/ CheckIdentities \/ BeginTier \/ BeginTierCyclic \/ StartNext \/ Record
    \/ EndLoop \/ NextGroup \/ InterTierHooks \/ BeginDeletes \/ Return \/ Exit

Next == MainStep \/ \E i \in Idx : TaskStep(i)

Spec == Init /\ [][Next]_vars

\* The main task and every spawned task are polled; every request is answered
\* or fails (the HTTP client gives up on its own) and every sleep ends.
Fairness ==
    /\ WF_vars(MainStep)
    /\ \A i \in UNION {DOMAIN cs : cs \in Changesets} : WF_vars(i \in Idx /\ TaskStep(i))

FairSpec == Spec /\ Fairness

-----------------------------------------------------------------------------
(* Properties. *)

TaskStates == Sleeping \cup Running \cup Over

Stages == {"start", "nextTier", "serial", "collect", "group", "hooks", "deletes",
           "returned", "aborted", "exited"}

\* Every variable has its type; in particular a create is sent a bounded number
\* of times and the result lists hold changes (deploy_change, apply.rs:1889).
TypeOK ==
    /\ changeset \in Changesets
    /\ failFast \in BOOLEAN
    /\ stage \in Stages
    /\ tier \in Int
    /\ queue \in Seq(Idx)
    /\ groups \in Seq(Seq(Idx) \ {<< >>})
    /\ task \in [Idx -> TaskStates]
    /\ tries \in [Idx -> 0 .. MaxNameTries]
    /\ bound \in [Idx -> SUBSET (RefKinds \X Nat)]
    /\ createdIds \subseteq Idx
    /\ shellIds \subseteq Nat
    /\ endpoints \subseteq Idx
    /\ polled \subseteq Idx
    /\ refreshed \subseteq Idx
    /\ succeeded \subseteq Idx
    /\ failed \subseteq Idx
    /\ applied \subseteq Idx

Started(i) == task[i] \notin Sleeping
Ended(i) == task[i] \in Over
Refers(i, kind, j) == <<kind, j>> \in changeset[i].refs

\* An apply is tiered work: without fail-fast a change begins only when every
\* create, update and rename of an earlier tier has ended, a delete only when
\* all of them have (the tier loop, the await of every handle, and the deletes
\* after it).  With fail-fast handles are dropped, so the tiers may overlap; each
\* change is still worked on once.
Rank == [i \in Deployed \cup Deletes |->
            IF failFast THEN 0 ELSE IF i \in Deletes THEN 13 ELSE TierOfChange(i)]
Progress == [i \in Deployed \cup Deletes |->
                IF task[i] \in Sleeping THEN "todo"
                ELSE IF task[i] \in Running THEN "doing" ELSE "done"]
Work == INSTANCE TieredWork WITH rank <- Rank, status <- Progress
ImplementsTieredWork == Work!Spec

\* With fail-fast, what succeeded after the first failure may go unrecorded.
AllRecorded == failFast => failed = {}

\* Single-pass resolution across tiers: a payload that was sent carries the ID
\* of every item it refers to that this apply had to create, update or rename in
\* an earlier tier and whose ID it learned.
EarlierTierResolved ==
    AllRecorded => \A i, j \in Deployed :
        /\ Started(i)
        /\ Refers(i, "logical", j)
        /\ changeset[j].inSource
        /\ TierOfChange(j) < TierOfChange(i)
        /\ task[j] = "ok"
        => <<"logical", j>> \in bound[i]

\* No delete is sent while a create, update or rename may still be at work,
\* whatever the mode; with fail-fast none is sent once one of them has failed.
DeletesLast ==
    \A d \in Deletes, i \in Deployed : Started(d) =>
        /\ Ended(i)
        /\ failFast => task[i] # "failed"

\* The result of a finished apply is complete and true: every change is listed
\* once, as what it was, and nothing happened to the workspace unlisted.  With
\* fail-fast the lists are only true once something has failed.
ReportTrue ==
    /\ \A i \in succeeded : task[i] \in {"ok", "okNoId"}
    /\ \A i \in failed : task[i] = "failed"
    /\ stage = "returned" /\ AllRecorded =>
        /\ succeeded \cup failed = Deployed \cup Deletes
        /\ applied \subseteq succeeded \cup failed

\* The Dataflows, or the DataPipelines, that change i is sorted with: a group of
\* one is not sorted, and a pipeline that calls itself is deployed if it is alone.
SortedWith(i) == IF Type(i) \in OrderedTypes /\ Cardinality(Group(TierOfChange(i), Type(i))) > 1
                 THEN Group(TierOfChange(i), Type(i)) ELSE {}

\* Within a sorted group nothing starts before what it calls has ended.
CalleesFirst ==
    \A i, j \in Deployed : Started(i) /\ j \in GroupRefs(i, SortedWith(i)) => Ended(j)

\* A Report starts only when each deployed model it binds to has been asked to
\* refresh, unless that model was renamed or its ID is not known.
ModelsRefreshed ==
    AllRecorded => \A i, m \in Deployed :
        /\ Started(i)
        /\ Type(i) = "Report"
        /\ Refers(i, "named", m)
        /\ Type(m) = "SemanticModel"
        /\ Action(m) # "Rename"
        /\ task[m] = "ok"
        => m \in refreshed

\* A change that reads a Lakehouse of an earlier tier through its SQL endpoint, as
\* a semantic model does, starts only when the endpoint of each such Lakehouse
\* that this apply deployed has been asked for.
EndpointsAsked ==
    AllRecorded => \A i, l \in Deployed :
        /\ Started(i)
        /\ Refers(i, "sql", l)
        /\ Type(l) = "Lakehouse"
        /\ TierOfChange(l) < TierOfChange(i)
        /\ task[l] = "ok"
        => l \in polled

\* The hooks of a tier (refresh of its models, look-up of its SQL endpoints) come
\* before what depends on them.
HooksFirst == ModelsRefreshed /\ EndpointsAsked

\* An apply ends.
ApplyEnds == <>(stage = "exited")

=============================================================================

----------------------------- MODULE MCDeployApply -----------------------------
(***************************************************************************)
(* Changesets for TLC: each one makes another part of execute_changeset work.*)
(***************************************************************************)
EXTENDS DeployApply

Item(type, action, refs) ==
    [type |-> type, action |-> action, refs |-> refs,
     inSource |-> action # "Delete", parts |-> type # "Lakehouse"]

\* A workspace that grows: tiers 0, 2 and 5, two pipelines, the first of which
\* calls the second by name, a Lakehouse that is only named.
Growing ==
    << Item("DataPipeline", "Create", {<<"logical", 3>>, <<"call", 2>>}),
       Item("DataPipeline", "Create", {<<"logical", 3>>, <<"shell", 1>>}),
       Item("Notebook", "Update", {<<"logical", 4>>}),
       Item("Lakehouse", "Create", {}) >>

\* Reports on models on a Lakehouse, with an orphan to delete.
Analytics ==
    << Item("Lakehouse", "Update", {}),
       Item("SemanticModel", "Create", {<<"sql", 1>>}),
       Item("SemanticModel", "Update", {<<"logical", 1>>}),
       Item("Report", "Create", {<<"named", 2>>, <<"named", 3>>}),
       Item("Report", "Delete", {}) >>

\* A batch of three in one tier and two deletes after it.
Batch ==
    << Item("Notebook", "Create", {<<"logical", 6>>}),
       Item("Notebook", "Rename", {}),
       Item("Notebook", "Update", {}),
       Item("Lakehouse", "Delete", {}),
       Item("Notebook", "Delete", {}),
       Item("Environment", "Skip", {}) >>

\* A DeploymentPlan makes the apply keep identities; Dataflows in order.
PlanBearing ==
    << Item("Dataflow", "Create", {<<"logical", 2>>}),
       Item("Dataflow", "Create", {}),
       Item("Environment", "Update", {}),
       Item("DeploymentPlan", "Create", {}) >>

\* Pipelines that call each other cannot be ordered; the source has lost an item
\* since the plan was saved.
Cyclic ==
    << [Item("Lakehouse", "Update", {}) EXCEPT !.inSource = FALSE],
       Item("DataPipeline", "Update", {<<"call", 3>>}),
       Item("DataPipeline", "Update", {<<"call", 2>>}) >>

\* Parallel tiers after a failure: two batches of notebooks and reports.
TwoBatches ==
    << Item("Notebook", "Update", {}),
       Item("Notebook", "Update", {}),
       Item("Report", "Update", {}),
       Item("Report", "Update", {<<"logical", 1>>}),
       Item("Dashboard", "Delete", {}) >>

\* A pipeline that calls itself, alone in its group.
SelfCalling == << Item("DataPipeline", "Create", {<<"call", 1>>}) >>

AllChangesets == {Growing, Analytics, Batch, PlanBearing, Cyclic, TwoBatches, SelfCalling}
===============================================================================

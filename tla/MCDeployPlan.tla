---------------------------- MODULE MCDeployPlan ----------------------------
(***************************************************************************)
(* Small source directories, workspaces and command lines for DeployPlan.    *)
(***************************************************************************)
EXTENDS DeployPlan, TLC

CONSTANTS d1, d2, d3, d4, d5, d6, lidA, lidB

Item(type, name, lid, content) ==
    [type |-> type, name |-> name, lid |-> lid, content |-> content]

Notebook(name, lid, content) == Item("Notebook", name, lid, content)

\* A directory with a rename to find, one whose items share a logical ID by
\* copying, and one without logical IDs.
MCSources ==
    {<<Notebook("load", lidA, 1), Notebook("clean", lidB, 1)>>,
     <<Notebook("load", lidA, 1), Notebook("copy", lidA, 1), Item("Lakehouse", "store", NoId, 0)>>,
     <<Notebook("load", NoId, 1)>>}

\* Empty; in sync but for two orphans, one with the name of a notebook; a name to
\* be changed; a name that another item has; a Lakehouse, which has no definition.
MCWorkspaces ==
    {<< >>,
     d1 :> Notebook("load", lidA, 1) @@ d2 :> Notebook("spare", NoId, 1)
        @@ d3 :> Item("Lakehouse", "load", NoId, NoDefinition),
     d1 :> Notebook("load", lidA, 2) @@ d2 :> Notebook("scrub", lidB, 2),
     d1 :> Notebook("clean", lidA, 1) @@ d2 :> Notebook("load", NoId, 2),
     d1 :> Notebook("first", lidA, 1) @@ d3 :> Item("Lakehouse", "store", lidB, NoDefinition)}

AllTypes == {"Notebook", "Lakehouse"}
AllNames == {"load", "clean", "copy", "store"}

Plain == [scope |-> AllTypes, kept |-> AllNames, forceAll |-> FALSE, deleteOrphans |-> FALSE,
          allowed |-> {}, saved |-> FALSE, force |-> FALSE]
Cleaning == [Plain EXCEPT !.deleteOrphans = TRUE]

MCOptions ==
    {Plain, Cleaning,
     [Cleaning EXCEPT !.saved = TRUE, !.allowed = {"Lakehouse"}],
     [Cleaning EXCEPT !.forceAll = TRUE, !.scope = {"Notebook"}, !.saved = TRUE],
     [Cleaning EXCEPT !.saved = TRUE, !.force = TRUE]}

MCEdits == {Notebook("clean", NoId, 3), Notebook("load", NoId, 3), Notebook("spare", lidB, 1)}

Filtered == {[Cleaning EXCEPT !.kept = {"load"}]}
OneExcluded == {[Plain EXCEPT !.kept = AllNames \ {"load"}]}

FreshIds == Permutations({d4, d5, d6})
===============================================================================

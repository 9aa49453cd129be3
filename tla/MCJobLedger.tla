------------------------------ MODULE MCJobLedger ------------------------------
(* Processes for TLC; model values of one kind are alike, but liveness is       *)
(* checked, so no symmetry is declared.                                         *)
EXTENDS JobLedger

CONSTANTS r1, r2, p1

MCRuns == {r1, r2}
MCPruners == {p1}

\* Two runs that wait, one of which cancels; two that only start their jobs.
MCAsked == {[r \in MCRuns |-> IF r = r1 THEN JobSchedulerRun(TRUE, TRUE)
                                        ELSE NotebookRun(TRUE, FALSE)],
            [r \in MCRuns |-> IF r = r1 THEN DataBuildToolRun(FALSE, FALSE)
                                        ELSE DataflowRun(FALSE, FALSE)]}
=============================================================================

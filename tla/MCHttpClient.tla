----------------------------- MODULE MCHttpClient -----------------------------
(* Request mixes for TLC.                                                     *)
EXTENDS HttpClient

CONSTANTS t1, t2

MCTasks == {t1, t2}
MCPrograms == {[t \in MCTasks |-> IF t = t1 THEN a ELSE b] :
                 <<a, b>> \in {<<"post", "get">>, <<"post", "plain">>, <<"list", "plain">>}}
=============================================================================

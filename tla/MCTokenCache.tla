----------------------------- MODULE MCTokenCache -----------------------------
(* Process mixes for TLC.                                                     *)
EXTENDS TokenCache

CONSTANTS p1, p2, p3, old

MCProcesses == {p1, p2, p3}
Mix(a, b, c) == [p \in MCProcesses |-> CASE p = p1 -> a [] p = p2 -> b [] OTHER -> c]
MCPrograms == {Mix("fabric", "fabric", "logout"), Mix("fabric", "login", "logout"),
               Mix("login", "logout", "login"), Mix("fabric", "fabric", "storage")}
MCLasting == {p3}
=============================================================================

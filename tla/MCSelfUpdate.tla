----------------------------- MODULE MCSelfUpdate -----------------------------
(* Two commands and three combinations of what they are.                     *)
EXTENDS SelfUpdate

CONSTANTS c1, c2

MCCommands == {c1, c2}
Both(one, other) == [c \in MCCommands |-> IF c = c1 THEN one ELSE other]
MCMixes == {Both("auto", "auto"), Both("auto", "manual"), Both("notice", "manual")}
MCCaches == {None, [time |-> 0, version |-> 2]}
MCPlatforms == {"linux", "macos", "windows"}
===============================================================================

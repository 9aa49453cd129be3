------------------------------ MODULE MCPollWait ------------------------------
(* Small times for TLC, not to one scale: a pause, the cap on it, and the polls of  *)
(* each loop with their repetitions differ, two time-outs are shorter than a poll,  *)
(* the others leave room for several, and the longest outlasts two tokens of an LRO. *)
EXTENDS PollWait
=============================================================================

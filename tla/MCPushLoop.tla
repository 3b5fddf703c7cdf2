----------------------------- MODULE MCPushLoop ------------------------------
EXTENDS PushLoop
(* As unsigned numbers of five bits the negative ones are 30 and 31. *)
MCIndices == -2 .. 12
=============================================================================

------------------------- MODULE MCAgentCommandQueue -------------------------
(***************************************************************************)
(* A small instance of AgentCommandQueue, for the run whose property does  *)
(* not hold; those that hold are checked in MCCommandFlow and MCSettled.   *)
(***************************************************************************)
EXTENDS AgentCommandQueue
=============================================================================

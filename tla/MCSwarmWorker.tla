--------------------------- MODULE MCSwarmWorker ---------------------------
(* A data agent or a synthesis agent with two iterations, the last of them  *)
(* without tools, one nudge, one retry of a request and one of the task.      *)
EXTENDS SwarmWorker

MCTexts == {"", "plan", "flawed", "analysis"}
=============================================================================

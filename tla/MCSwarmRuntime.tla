--------------------------- MODULE MCSwarmRuntime ---------------------------
(* A task graph of three layers and file names in another order than its    *)
(* YAML, as in the bundled preset news_technical_stock_picker.               *)
EXTENDS SwarmRuntime

(* A chain beside an independent task, joined at the end.    *)
DeepDependsOn == <<{}, {}, {1}, {2, 3}>>
DeepFileRank == <<2, 1, 4, 3>>
=============================================================================

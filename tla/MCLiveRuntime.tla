--------------------------- MODULE MCLiveRuntime ---------------------------
(* Small instances of the live runner. *)
EXTENDS LiveRuntime
CONSTANTS own, chat, foreign, watch, once
=============================================================================

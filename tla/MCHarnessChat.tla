---------------------------- MODULE MCHarnessChat ----------------------------
(* Instances of HarnessChat for TLC. *)
EXTENDS HarnessChat

(* The user may forget the account once, in the first message. *)
FilledLater == [m \in 1..MaxMessages |-> IF m = 1 THEN BOOLEAN ELSE {TRUE}]
=============================================================================

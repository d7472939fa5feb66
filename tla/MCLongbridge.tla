---------------------------- MODULE MCLongbridge ----------------------------
(* Small instances of Longbridge. *)
EXTENDS Longbridge

OneExec == {1}
NoOrders == {}
FirstOrder == {<<1, 1>>}
FirstTwo == {<<1, 1>>, <<1, 2>>}

(* Paper trading, and live trading without its switch. *)
TwoConfigs == {[mode |-> "paper", submission |-> TRUE, live |-> FALSE],
               [mode |-> "live", submission |-> TRUE, live |-> FALSE]}
=============================================================================

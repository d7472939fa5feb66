---------------------------- MODULE OrderStates ----------------------------
(***************************************************************************)
(* The order life cycle shared by the order service and by both brokers:   *)
(* domain/enums.py (OrderStatus) and domain/state_machine.py.  A status is  *)
(* the string of the enum; "NONE" is the absence of the row.                *)
(***************************************************************************)

(* OrderStatus. *)
OrderStatus == {"CREATED", "RISK_REJECTED", "RISK_APPROVED", "SUBMITTING",
                "SUBMITTED", "PARTIALLY_FILLED", "FILLED", "CANCEL_PENDING",
                "CANCELLED", "FAILED", "RECONCILING"}

(* An order id that has not been given to an order yet. *)
NoRow == "NONE"

(* ALLOWED_ORDER_TRANSITIONS: the statuses each status may move to. *)
AllowedTransitions(s) ==
    CASE s = "CREATED"          -> {"RISK_APPROVED", "RISK_REJECTED", "FAILED"}
      [] s = "RISK_REJECTED"    -> {}
      [] s = "RISK_APPROVED"    -> {"SUBMITTING", "FAILED"}
      [] s = "SUBMITTING"       -> {"SUBMITTED", "FAILED", "RECONCILING"}
      [] s = "SUBMITTED"        -> {"PARTIALLY_FILLED", "FILLED", "CANCEL_PENDING",
                                    "CANCELLED", "FAILED", "RECONCILING"}
      [] s = "PARTIALLY_FILLED" -> {"FILLED", "CANCEL_PENDING", "CANCELLED",
                                    "RECONCILING"}
      [] s = "FILLED"           -> {}
      [] s = "CANCEL_PENDING"   -> {"CANCELLED", "PARTIALLY_FILLED", "FILLED",
                                    "RECONCILING"}
      [] s = "CANCELLED"        -> {}
      [] s = "FAILED"           -> {"RECONCILING"}
      [] s = "RECONCILING"      -> {"SUBMITTED", "PARTIALLY_FILLED", "FILLED",
                                    "CANCELLED", "FAILED"}

(* assert_order_transition passes; otherwise it raises InvalidOrderTransition. *)
CanTransition(from, to) == to \in AllowedTransitions(from)
=============================================================================

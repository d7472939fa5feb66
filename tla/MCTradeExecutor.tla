--------------------------- MODULE MCTradeExecutor ---------------------------
(* Small instances of TradeExecutor. *)
EXTENDS TradeExecutor

Proposal(side, qty, limit, tp, sl) ==
    [symbol |-> 1, side |-> side, qty |-> qty, limit |-> limit, tp |-> tp, sl |-> sl]

(* Orders without brackets, one without a price. *)
PlainProposals ==
    {Proposal("BUY", 1, 3, 0, 0), Proposal("BUY", 2, 2, 0, 0), Proposal("SELL", 1, 3, 0, 0),
     Proposal("SELL", 1, 0, 0, 0)}

(* A buy order with both brackets, with one, with equal ones. *)
BracketProposals ==
    {Proposal("BUY", 1, 2, 3, 1), Proposal("BUY", 1, 3, 4, 0), Proposal("BUY", 2, 2, 3, 3)}

AllProposals == PlainProposals \cup BracketProposals
=============================================================================

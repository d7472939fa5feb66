------------------------------ MODULE SimBroker ------------------------------
(***************************************************************************)
(* broker/local_sim.py: the operations of the simulated broker, which      *)
(* reserves cash or shares, matches orders against quotes, cancels them    *)
(* and books the fills, as operators from a book to a book.  LocalSim runs *)
(* them one at a time, TradeExecutor inside concurrent transactions.       *)
(***************************************************************************)
EXTENDS OrderService

(* _commission. *)
Commission(qty, price) ==
    IF RateNum = 0 THEN 0
    ELSE IF qty * price * RateNum >= MinCommission THEN qty * price * RateNum
    ELSE MinCommission

(* An amount with its commission. *)
WithCommission(qty, price) == Gross(qty, price) + Commission(qty, price)

(* _reserved_cash: priced at the limit, else at the given price. *)
ReservedCash(i, price) == WithCommission(i.qty, IF i.limit # 0 THEN i.limit ELSE price)

(* _is_bracket_order. *)
IsBracketOrder(i) == i.side = "SELL" /\ i.type \in {"LIMIT_IF_TOUCHED", "STOP_LIMIT"}

(* Mutant: the check forgets the commission. *)
CanReserveGross(b, o, q) ==
    LET i == b.intent[o]
    IN  /\ i.side = "BUY"
             => b.cash >= Gross(i.qty, IF i.limit # 0 THEN i.limit ELSE AskOrLast(q))
        /\ i.side = "SELL" /\ ~IsBracketOrder(i) => b.avail[i.symbol] >= i.qty

(* The condition on which _reserve_resources succeeds. *)
CanReserve(b, o, q) ==
    LET i == b.intent[o]
    IN  /\ i.side = "BUY" => b.cash >= ReservedCash(i, AskOrLast(q))
        /\ i.side = "SELL" /\ ~IsBracketOrder(i) => b.avail[i.symbol] >= i.qty

(* _reserve_resources. *)
ReserveResources(b, o, q) ==
    LET i == b.intent[o]
        r == ReservedCash(i, AskOrLast(q))
    IN  IF i.side = "BUY" THEN [b EXCEPT !.cash = @ - r, !.frozen = @ + r]
        ELSE IF IsBracketOrder(i) THEN b
        ELSE [b EXCEPT !.avail[i.symbol] = @ - i.qty]

(* Mutant: a cancelled sell order keeps its shares. *)
ReleaseResourcesCashOnly(b, o) ==
    LET r == ReservedCash(b.intent[o], 0)
    IN  IF b.intent[o].side = "BUY" THEN [b EXCEPT !.cash = @ + r, !.frozen = @ - r]
        ELSE b

(* _release_resources: nothing of a SUBMITTED order is filled.  A market    *)
(* order never waits, so the limit is the price of the reservation.         *)
ReleaseResources(b, o) ==
    LET i == b.intent[o]
        r == ReservedCash(i, 0)
    IN  IF i.side = "BUY" THEN [b EXCEPT !.cash = @ + r, !.frozen = @ - r]
        ELSE IF IsBracketOrder(i) THEN b
        ELSE [b EXCEPT !.avail[i.symbol] = @ + i.qty]

(* _fill_price, with 0 for None. *)
FillPrice(i, q) ==
    LET ask == AskOrLast(q)
        bid == BidOrLast(q)
        hit == CASE i.type = "MARKET" -> TRUE
                 [] i.type = "LIMIT_IF_TOUCHED" /\ i.side = "SELL" -> bid >= i.limit
                 [] i.type = "STOP_LIMIT" /\ i.side = "SELL" -> bid <= i.limit
                 [] i.type # "MARKET" /\ i.side = "BUY" -> i.limit >= ask
                 [] i.type = "LIMIT" /\ i.side = "SELL" -> i.limit <= bid
    IN  IF ~hit THEN 0 ELSE IF i.side = "BUY" THEN ask ELSE bid

(* avg_cost * n, for the position of symbol s. *)
CostOf(b, s, n) == IF b.qty[s] = 0 THEN 0 ELSE (b.basis[s] * n) \div b.qty[s]

(* Mutant: only the cost is unfrozen, the price improvement stays frozen. *)
SettleBuyAtCost(b, o, price) ==
    LET i == b.intent[o]
        cost == WithCommission(i.qty, price)
        s == i.symbol
    IN  [b EXCEPT !.frozen = @ - cost,
                  !.basis[s] = @ + cost,
                  !.qty[s] = @ + i.qty,
                  !.avail[s] = @ + i.qty,
                  !.fills[o] = Append(@, [price |-> price, amount |-> -cost,
                                          balance |-> b.cash])]

(* _apply_fill, buying: the reservation is released, the cost paid, the     *)
(* commission is part of the cost of the shares.                            *)
SettleBuy(b, o, price) ==
    LET i == b.intent[o]
        r == ReservedCash(i, price)
        cost == WithCommission(i.qty, price)
        s == i.symbol
    IN  [b EXCEPT !.frozen = @ - r,
                  !.cash = @ + (r - cost),
                  !.basis[s] = @ + cost,
                  !.qty[s] = @ + i.qty,
                  !.avail[s] = @ + i.qty,
                  !.fills[o] = Append(@, [price |-> price, amount |-> -cost,
                                          balance |-> b.cash + (r - cost)])]

(* Mutant: the ledger row shows the gross proceeds. *)
SettleSellGrossRow(b, o, price) ==
    LET i == b.intent[o]
        s == i.symbol
        net == Gross(i.qty, price) - Commission(i.qty, price)
        cost == CostOf(b, s, i.qty)
        left == b.qty[s] - i.qty
    IN  [b EXCEPT !.cash = @ + net,
                  !.realized = @ + (net - cost),
                  !.qty[s] = IF left <= 0 THEN 0 ELSE left,
                  !.basis[s] = IF left <= 0 THEN 0 ELSE @ - cost,
                  !.fills[o] = Append(@, [price |-> price, amount |-> Gross(i.qty, price),
                                          balance |-> b.cash + net])]

(* _apply_fill, selling: the shares leave the position, at their average    *)
(* cost; a position sold below zero is cut to zero.                         *)
SettleSell(b, o, price) ==
    LET i == b.intent[o]
        s == i.symbol
        net == Gross(i.qty, price) - Commission(i.qty, price)
        cost == CostOf(b, s, i.qty)
        left == b.qty[s] - i.qty
    IN  [b EXCEPT !.cash = @ + net,
                  !.realized = @ + (net - cost),
                  !.qty[s] = IF left <= 0 THEN 0 ELSE left,
                  !.basis[s] = IF left <= 0 THEN 0 ELSE @ - cost,
                  !.fills[o] = Append(@, [price |-> price, amount |-> net,
                                          balance |-> b.cash + net])]

(* The valuation _apply_fill refreshes: the position at the fill price, and *)
(* the account's equity over all positions.                                 *)
Revalue(b, s, price) ==
    LET mval == [b.mval EXCEPT ![s] = Gross(b.qty[s], price)]
    IN  [b EXCEPT !.mval = mval,
                  !.equity = b.cash + b.frozen + SumTo(mval, NSymbols)]

(* _apply_fill. *)
ApplyFill(b, o, price) ==
    LET settled == IF b.intent[o].side = "BUY" THEN SettleBuy(b, o, price)
                   ELSE SettleSell(b, o, price)
        valued  == Revalue(settled, b.intent[o].symbol, price)
        filled  == TransitionOrder(valued, o, "FILLED")
    IN  EnqueueEvent(EnqueueEvent(filled, "ORDER_FILLED", o), "POSITION_UPDATED",
                     b.intent[o].symbol)

(* submit_order accepts: the reservation holds. *)
Accepts(b, o, q) == q.symbol = b.intent[o].symbol /\ CanReserve(b, o, q)

(* Mutant: the order goes to SUBMITTED without SUBMITTING. *)
SubmitOrderDirect(b, o, q) ==
    IF ~Accepts(b, o, q) THEN TransitionOrder(b, o, "FAILED")
    ELSE LET waiting == TransitionOrder(ReserveResources(b, o, q), o, "SUBMITTED")
             price   == FillPrice(b.intent[o], q)
         IN  IF price = 0 THEN waiting ELSE ApplyFill(waiting, o, price)

(* submit_order of a RISK_APPROVED order: refused, or reserved and then     *)
(* filled at once when the quote allows it.                                 *)
SubmitOrder(b, o, q) ==
    IF ~Accepts(b, o, q) THEN TransitionOrder(b, o, "FAILED")
    ELSE LET reserved == ReserveResources(b, o, q)
             waiting  == TransitionOrder(TransitionOrder(reserved, o, "SUBMITTING"),
                                         o, "SUBMITTED")
             price    == FillPrice(b.intent[o], q)
         IN  IF price = 0 THEN waiting ELSE ApplyFill(waiting, o, price)

(* Mutant: the status has the spelling of the broker's own "Canceled". *)
CancelOrderMisspelt(b, o) ==
    LET pending == TransitionOrder(b, o, "CANCEL_PENDING")
    IN  EnqueueEvent(TransitionOrder(ReleaseResources(pending, o), o, "CANCELED"),
                     "ORDER_CANCELLED", o)

(* cancel_order of a SUBMITTED order. *)
CancelOrder(b, o) ==
    LET pending  == TransitionOrder(b, o, "CANCEL_PENDING")
        released == ReleaseResources(pending, o)
    IN  EnqueueEvent(TransitionOrder(released, o, "CANCELLED"), "ORDER_CANCELLED", o)

-----------------------------------------------------------------------------
(* What a book accounts for. *)

(* The cash an order holds while it waits: only a buy order holds any. *)
HeldCash(b) ==
    [o \in OrderIds |->
        IF b.status[o] = "SUBMITTED" /\ b.intent[o].side = "BUY"
        THEN ReservedCash(b.intent[o], 0) ELSE 0]

(* The shares of symbol s that waiting sell orders hold. *)
HeldShares(b, s) ==
    [o \in OrderIds |->
        IF /\ b.status[o] = "SUBMITTED" /\ b.intent[o].symbol = s
           /\ b.intent[o].side = "SELL" /\ ~IsBracketOrder(b.intent[o])
        THEN b.intent[o].qty ELSE 0]

(* The cash flow booked for each order. *)
Booked(b) ==
    [o \in OrderIds |-> SumTo([n \in DOMAIN b.fills[o] |-> b.fills[o][n].amount],
                              Len(b.fills[o]))]
=============================================================================

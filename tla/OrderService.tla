---------------------------- MODULE OrderService ----------------------------
(***************************************************************************)
(* The trading tables (storage/models.py) as one record, the "book", and   *)
(* the operations of harness/order_service.py and risk/engine.py on it.    *)
(* Every operation is an operator from a book to a book: a handler chains  *)
(* them, and the transaction that runs the handler either installs the     *)
(* last book (commit) or none of them (rollback).                          *)
(*                                                                         *)
(* One account is modelled: accounts share no row.  Orders and symbols are *)
(* numbered.  Money is counted in units of 1/RateDen, so that an amount    *)
(* times the commission rate RateNum/RateDen is an integer.                *)
(***************************************************************************)
EXTENDS Integers, Sequences, FiniteSets, OrderStates, Sums

CONSTANTS
    MaxOrders,            \* bound: order rows ever created
    NSymbols,             \* symbols are 1..NSymbols
    RateNum, RateDen,     \* LocalSimConfig.commission_rate = RateNum / RateDen
    MinCommission,        \* LocalSimConfig.minimum_commission
    InitCash,             \* cash the account is seeded with
    InitQty, InitCost,    \* shares of every symbol it is seeded with, and their cost
    MaxSingleOrderValue,  \* RiskConfig, in the same units
    MaxDailyLoss,
    MaxDailyOrders,
    UseRatio,             \* max_position_ratio_per_symbol is not None
    RatioNum, RatioDen,   \* ... and its value
    DevNum, DevDen        \* max_limit_price_deviation_ratio

ASSUME BookAssumption ==
    /\ MaxOrders \in Nat \ {0}
    /\ NSymbols \in Nat \ {0}
    /\ RateNum \in Nat
    /\ RateDen \in Nat \ {0}
    /\ MinCommission \in Nat
    /\ InitCash \in Nat
    /\ InitQty \in Nat
    /\ InitCost \in Nat
    /\ MaxSingleOrderValue \in Nat
    /\ MaxDailyLoss \in Nat
    /\ MaxDailyOrders \in Nat
    /\ UseRatio \in BOOLEAN
    /\ RatioNum \in Nat
    /\ RatioDen \in Nat \ {0}
    /\ DevNum \in Nat
    /\ DevDen \in Nat \ {0}

OrderIds == 1..MaxOrders
Symbols == 1..NSymbols

(* OrderSide, OrderType. *)
OrderSide == {"BUY", "SELL"}
OrderType == {"MARKET", "LIMIT", "LIMIT_IF_TOUCHED", "STOP_LIMIT"}

(* OrderIntent.  limit = 0 stands for None, which validate_order_price      *)
(* accepts only for MARKET, and which every caller of the order service     *)
(* passes for it; the signal tells apart the runs an intent came from.      *)
OrderIntents ==
    {i \in [symbol : Symbols, side : OrderSide, type : OrderType, qty : Nat \ {0},
            limit : Nat, signal : Nat] :
        i.type = "MARKET" <=> i.limit = 0}

(* MarketQuote: bid = 0 and ask = 0 stand for None. *)
MarketQuotes == [symbol : Symbols, last : Nat \ {0}, bid : Nat, ask : Nat]

(* quote.ask_price or quote.last_price, and the same for the bid. *)
AskOrLast(q) == IF q.ask # 0 THEN q.ask ELSE q.last
BidOrLast(q) == IF q.bid # 0 THEN q.bid ELSE q.last

(* quantity * price, in money units. *)
Gross(qty, price) == qty * price * RateDen

(* The row an order id stands for before an order is created. *)
NoIntent == [symbol |-> 1, side |-> "BUY", type |-> "LIMIT", qty |-> 0,
             limit |-> 0, signal |-> 0]

(***************************************************************************)
(* The book.  intent[o], status[o] and fills[o] are the orders and fills   *)
(* rows of order o (a fill row also carries its cash_ledger row); audit[o] *)
(* the statuses its audit_logs rows record, oldest first; outbox the       *)
(* outbox_events; fresh and today the orders created within the cooldown   *)
(* and within the current UTC day.  basis[s] is quantity * avg_cost.       *)
(***************************************************************************)
EmptyBook ==
    [intent   |-> [o \in OrderIds |-> NoIntent],
     status   |-> [o \in OrderIds |-> NoRow],
     audit    |-> [o \in OrderIds |-> << >>],
     fills    |-> [o \in OrderIds |-> << >>],
     outbox   |-> {},
     fresh    |-> {},
     today    |-> {},
     cash     |-> InitCash,
     frozen   |-> 0,
     realized |-> 0,
     equity   |-> InitCash + NSymbols * InitCost,
     qty      |-> [s \in Symbols |-> InitQty],
     avail    |-> [s \in Symbols |-> InitQty],
     basis    |-> [s \in Symbols |-> InitCost],
     mval     |-> [s \in Symbols |-> InitCost]]

Created(b) == {o \in OrderIds : b.status[o] # NoRow}

(* transition_order for a legal target: the status and its audit row. *)
TransitionOrder(b, o, to) ==
    [b EXCEPT !.status[o] = to,
              !.audit[o]  = Append(@, to)]

(* The event types written to the outbox. *)
OutboxEvents == {"ORDER_READY_TO_SUBMIT", "ORDER_FILLED", "POSITION_UPDATED",
                 "ORDER_CANCELLED"}

(* The books the tables can hold. *)
Books ==
    [intent   : [OrderIds -> OrderIntents \cup {NoIntent}],
     status   : [OrderIds -> OrderStatus \cup {NoRow}],
     audit    : [OrderIds -> Seq(OrderStatus)],
     fills    : [OrderIds -> Seq([price : Nat, amount : Int, balance : Int])],
     outbox   : SUBSET (OutboxEvents \X Nat),
     fresh    : SUBSET OrderIds,
     today    : SUBSET OrderIds,
     cash     : Int,
     frozen   : Int,
     realized : Int,
     equity   : Int,
     qty      : [Symbols -> Nat],
     avail    : [Symbols -> Int],
     basis    : [Symbols -> Int],
     mval     : [Symbols -> Int]]

(* enqueue_event / _enqueue_outbox. *)
EnqueueEvent(b, event, id) == [b EXCEPT !.outbox = @ \cup {<<event, id>>}]

(* _idempotency_key: the order type is not part of it. *)
IdempotencyKey(i) == <<i.signal, i.symbol, i.side, i.qty, i.limit>>

ExistingOrders(b, i) ==
    {o \in Created(b) : IdempotencyKey(b.intent[o]) = IdempotencyKey(i)}

(* create_order_from_intent when no row has the intent's key. *)
CreateOrder(b, o, i) ==
    [b EXCEPT !.intent[o] = i,
              !.status[o] = "CREATED",
              !.audit[o]  = <<"CREATED">>,
              !.fresh     = @ \cup {o},
              !.today     = @ \cup {o}]

-----------------------------------------------------------------------------
(* risk/engine.py *)

(* _estimate_order_value. *)
EstimateOrderValue(i, q) ==
    Gross(i.qty, IF i.limit # 0 THEN i.limit
                 ELSE IF i.side = "BUY" THEN AskOrLast(q) ELSE BidOrLast(q))

(* Mutant: an order the broker holds is not counted as open. *)
OpenForDuplicateUnsent == {"CREATED", "RISK_APPROVED", "SUBMITTING"}

(* The statuses the duplicate check counts as open. *)
OpenForDuplicate == {"CREATED", "RISK_APPROVED", "SUBMITTING", "SUBMITTED",
                     "PARTIALLY_FILLED"}

(* Other orders of the same symbol and side. *)
Similar(b, o) ==
    {p \in Created(b) \ {o} : /\ b.intent[p].symbol = b.intent[o].symbol
                              /\ b.intent[p].side = b.intent[o].side}

Deviation(i, q) == IF i.limit >= q.last THEN i.limit - q.last ELSE q.last - i.limit

(* The other orders created today already use up max_daily_order_count. *)
DailyOrdersSpent(b, o) == Cardinality(b.today \ {o}) >= MaxDailyOrders

(* RiskEngine.check approves: none of its rules rejects.  The account       *)
(* exists; open is FALSE when the caller passes market_is_open = False.     *)
RiskApproves(b, o, q, open) ==
    LET i   == b.intent[o]
        est == EstimateOrderValue(i, q)
    IN  /\ q.symbol = i.symbol                              \* QUOTE_SYMBOL_MISMATCH
        /\ open                                             \* MARKET_CLOSED
        /\ est <= MaxSingleOrderValue                       \* MAX_SINGLE_ORDER_VALUE_EXCEEDED
        /\ i.side = "BUY" => b.cash >= est                  \* INSUFFICIENT_CASH
        /\ i.side = "SELL" => b.avail[i.symbol] >= i.qty    \* INSUFFICIENT_POSITION
        /\ b.realized > -MaxDailyLoss                       \* DAILY_LOSS_LIMIT_EXCEEDED
        /\ ~DailyOrdersSpent(b, o)                          \* MAX_DAILY_ORDER_COUNT_EXCEEDED
        /\ i.side = "BUY" /\ UseRatio /\ b.equity > 0       \* MAX_POSITION_RATIO_EXCEEDED
             => (b.mval[i.symbol] + est) * RatioDen <= RatioNum * b.equity
        /\ i.limit # 0                                      \* LIMIT_PRICE_DEVIATION_EXCEEDED
             => Deviation(i, q) * DevDen <= DevNum * q.last
        /\ \A p \in Similar(b, o) :                         \* DUPLICATE_OPEN_ORDER
             b.status[p] \notin OpenForDuplicate
        /\ Similar(b, o) \cap b.fresh = {}                  \* DUPLICATE_ORDER_COOLDOWN

(* run_risk_check: the decision moves the order, and an approved order is   *)
(* announced in the outbox.                                                 *)
RunRiskCheck(b, o, q, open) ==
    IF RiskApproves(b, o, q, open)
    THEN EnqueueEvent(TransitionOrder(b, o, "RISK_APPROVED"),
                      "ORDER_READY_TO_SUBMIT", o)
    ELSE TransitionOrder(b, o, "RISK_REJECTED")
=============================================================================

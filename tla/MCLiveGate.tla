----------------------------- MODULE MCLiveGate -----------------------------
(* Small instances of the live-order gate. *)
EXTENDS LiveGate

Snapshot(funding, exposure, order, trades, leverage) ==
  [funding |-> funding, exposure |-> exposure, order |-> order, trades |-> trades,
   leverage |-> leverage, instruments |-> {"equity"}]
\* Cash only, with ceilings on the order and on the exposure and none on the day's trades.
MCCeilings == {Snapshot(4, 3, 2, NoLimit, 0)}
\* One of the three templates.
MCTemplates == {[ordinal |-> 2, part |-> 2, trades |-> 2]}
Keep == [order |-> NoLimit, trades |-> NoLimit, exposure |-> NoLimit, leverage |-> NoLimit,
         instruments |-> {}]
\* A lower exposure limit and one trade a day with more instruments than were shown, which
\* nothing compares; more trades, which must be refused.
MCAdjustments == {[Keep EXCEPT !.exposure = 2, !.trades = 1, !.instruments = {"equity", "option"}],
                  [Keep EXCEPT !.trades = 3]}
Ask(path, side, quantity, notional) ==
  [path |-> path, side |-> side, quantity |-> quantity, notional |-> notional,
   instrument |-> "equity", class |-> "default", symbol |-> "s", parsed |-> TRUE]
\* A purchase for an amount through an MCP tool, a sale of a unit to be priced through an SDK tool.
MCIntents == {Ask("mcp", "buy", 0, 2), Ask("sdk", "sell", 1, 0)}
\* Bound: two of the calls and commit requests are under way at a time.
TwoAtATime ==
  Cardinality(Active) + Cardinality({r \in Commits : commit[r].pc \in {"mandate", "consent", "invalidate"}}) <= 2
=============================================================================

----------------------------- MODULE MCLocalSim -----------------------------
(* Small instances of LocalSim. *)
EXTENDS LocalSim

Intent(sym, side, type, qty, limit, sig) ==
    [symbol |-> sym, side |-> side, type |-> type, qty |-> qty,
     limit |-> limit, signal |-> sig]

Quote(sym, bid, ask, last) == [symbol |-> sym, bid |-> bid, ask |-> ask, last |-> last]

(* Two buys and two sells of one symbol, one of each at the market. *)
MCIntents ==
    {Intent(1, "BUY", "LIMIT", 2, 3, 1), Intent(1, "BUY", "MARKET", 1, 0, 2),
     Intent(1, "SELL", "LIMIT", 1, 3, 3), Intent(1, "SELL", "LIMIT", 2, 2, 4)}

(* Prices below, at and above the limits; one without bid and ask. *)
MCQuotes == {Quote(1, 1, 2, 2), Quote(1, 3, 4, 3), Quote(1, 0, 0, 3)}

=============================================================================

---------------------------- MODULE MarketLoaders ----------------------------
(***************************************************************************)
(* The data sources of backtest/loaders: for each loader what its class    *)
(* declares and how its fetch treats a symbol.  Bars, columns and dates    *)
(* are left out; what is kept is what decides whose data a request gets.   *)
(*   markets   the class attribute                                         *)
(*   free      is_available is always true (no key, package or daemon)     *)
(*   asks      the kinds of symbols it sends upstream; it answers None for *)
(*             the others                                                  *)
(*   hourly    what a request for hourly bars gets: hourly or daily bars,  *)
(*             "raises" or an empty result ("nothing")                     *)
(*   spaced    its requests go through the host throttle                   *)
(*   retries   how often a transient failure is retried                    *)
(*   alone     one symbol's failure does not end the batch                 *)
(***************************************************************************)
EXTENDS Naturals, Sequences

(* One symbol of each shape: 600519.SH, 430047.BJ, AAPL.US, 700.HK,        *)
(* BTC-USDT, BTC/USDT, rb2410.SHFE, EURUSD.FX, local:X.                    *)
Kinds == {"sh", "bj", "us", "hk", "dash", "slash", "fut", "fx", "file"}
Intervals == {"1D", "1H"}

tencent == [markets |-> {"a_share"},
    free |-> TRUE, asks |-> {"sh"}, hourly |-> "1D", spaced |-> FALSE, retries |-> 0, alone |-> TRUE]
mootdx == [markets |-> {"a_share"},
    free |-> FALSE, asks |-> {"sh"}, hourly |-> "1H", spaced |-> FALSE, retries |-> 0, alone |-> TRUE]
eastmoney == [markets |-> {"a_share", "hk_equity", "us_equity"},
    free |-> TRUE, asks |-> {"sh", "bj", "hk", "us"}, hourly |-> "1H", spaced |-> TRUE, retries |-> 0, alone |-> TRUE]
baostock == [markets |-> {"a_share"},
    free |-> FALSE, asks |-> {"sh"}, hourly |-> "1D", spaced |-> FALSE, retries |-> 0, alone |-> TRUE]
akshare == [markets |-> {"a_share", "us_equity", "hk_equity", "futures", "fund", "macro", "forex"},
    free |-> FALSE, asks |-> Kinds, hourly |-> "1D", spaced |-> FALSE, retries |-> 0, alone |-> TRUE]
tushare == [markets |-> {"a_share", "futures", "fund"},
    free |-> FALSE, asks |-> Kinds \ {"us", "dash", "slash"}, hourly |-> "1H", spaced |-> FALSE, retries |-> 0, alone |-> TRUE]
yahoo == [markets |-> {"us_equity", "hk_equity"},
    free |-> TRUE, asks |-> {"us", "hk"}, hourly |-> "1H", spaced |-> TRUE, retries |-> 0, alone |-> TRUE]
stooq == [markets |-> {"us_equity"},
    free |-> TRUE, asks |-> Kinds, hourly |-> "1D", spaced |-> TRUE, retries |-> 0, alone |-> TRUE]
sina == [markets |-> {"us_equity"},
    free |-> TRUE, asks |-> {"us"}, hourly |-> "raises", spaced |-> TRUE, retries |-> 0, alone |-> TRUE]
yfinance == [markets |-> {"us_equity", "hk_equity", "crypto"},
    free |-> TRUE, asks |-> Kinds, hourly |-> "1H", spaced |-> FALSE, retries |-> 0, alone |-> TRUE]
tiingo == [markets |-> {"us_equity"},
    free |-> FALSE, asks |-> {"us"}, hourly |-> "1D", spaced |-> TRUE, retries |-> 0, alone |-> TRUE]
fmp == [markets |-> {"us_equity"},
    free |-> FALSE, asks |-> Kinds, hourly |-> "nothing", spaced |-> TRUE, retries |-> 0, alone |-> TRUE]
finnhub == [markets |-> {"us_equity"},
    free |-> FALSE, asks |-> Kinds, hourly |-> "1D", spaced |-> TRUE, retries |-> 0, alone |-> TRUE]
alphavantage == [markets |-> {"us_equity"},
    free |-> FALSE, asks |-> Kinds, hourly |-> "1D", spaced |-> TRUE, retries |-> 0, alone |-> TRUE]
futu == [markets |-> {"hk_equity", "a_share"},
    free |-> FALSE, asks |-> Kinds, hourly |-> "1H", spaced |-> FALSE, retries |-> 0, alone |-> FALSE]
okx == [markets |-> {"crypto"},
    free |-> TRUE, asks |-> Kinds, hourly |-> "1H", spaced |-> FALSE, retries |-> 3, alone |-> TRUE]
ccxt == [markets |-> {"crypto"},
    free |-> FALSE, asks |-> Kinds, hourly |-> "1H", spaced |-> FALSE, retries |-> 3, alone |-> TRUE]
local == [markets |-> {"us_equity", "a_share", "hk_equity", "crypto", "futures", "forex", "macro", "fund"},
    free |-> FALSE, asks |-> {"file", "sh"}, hourly |-> "1D", spaced |-> FALSE, retries |-> 0, alone |-> TRUE]

(* LOADER_REGISTRY, filled by the imports of _ensure_registered.           *)
LoaderRegistry == [tencent |-> tencent, mootdx |-> mootdx, eastmoney |-> eastmoney, baostock |-> baostock,
                   akshare |-> akshare, tushare |-> tushare, yahoo |-> yahoo, stooq |-> stooq, sina |-> sina,
                   yfinance |-> yfinance, tiingo |-> tiingo, fmp |-> fmp, finnhub |-> finnhub,
                   alphavantage |-> alphavantage, futu |-> futu, okx |-> okx, ccxt |-> ccxt, local |-> local]
Loaders == DOMAIN LoaderRegistry
Gated == {l \in Loaders : ~LoaderRegistry[l].free}

FallbackChains ==
    [a_share   |-> <<"tencent", "mootdx", "eastmoney", "baostock", "akshare", "tushare", "local">>,
     us_equity |-> <<"yahoo", "stooq", "sina", "eastmoney", "yfinance", "tiingo", "fmp", "finnhub", "alphavantage", "akshare", "local">>,
     hk_equity |-> <<"eastmoney", "yahoo", "futu", "yfinance", "akshare", "local">>,
     crypto    |-> <<"okx", "ccxt", "yfinance", "local">>,
     futures   |-> <<"tushare", "akshare", "local">>,
     fund      |-> <<"tushare", "akshare", "local">>,
     macro     |-> <<"akshare", "tushare", "local">>,
     forex     |-> <<"akshare", "yfinance", "local">>]

(* _detect_market of the backtest; a shape it does not know is an A-share. *)
DetectMarket == [sh |-> "a_share", bj |-> "a_share", us |-> "us_equity", hk |-> "hk_equity", dash |-> "crypto",
                 slash |-> "crypto", fut |-> "futures", fx |-> "forex", file |-> "a_share"]
(* detect_source of the market-data tool.                                  *)
DetectSource == [sh |-> "tencent", bj |-> "tencent", us |-> "yahoo", hk |-> "yahoo", dash |-> "okx",
                 slash |-> "ccxt", fut |-> "tushare", fx |-> "tushare", file |-> "local"]
(* _MARKET_TO_SOURCE: the source the backtest tries when a chain is empty. *)
LegacySource == [a_share |-> "tushare", us_equity |-> "yfinance", hk_equity |-> "yfinance", crypto |-> "okx",
                 futures |-> "tushare", fund |-> "tushare", macro |-> "akshare", forex |-> "akshare"]

(* The name a loader files a symbol's frame under: okx rewrites the slash, *)
(* local drops its prefix.                                                 *)
FiledAs(l, s) == CASE l = "okx" /\ s = "slash" -> "dash"
                   [] l = "local" /\ s = "file" -> "X"
                   [] OTHER -> s

(* What a request for bars of interval i gets from l for symbol s.         *)
Bars(l, i) == IF i = "1D" THEN "1D" ELSE LoaderRegistry[l].hourly
Asks(l, i, s) == /\ s \in LoaderRegistry[l].asks
                 /\ l = "tushare" /\ i = "1H" => s \notin {"hk"}

(* resolve_loader: the first available loader of the market's chain.       *)
ResolveLoader(market, up) ==
    LET usable == SelectSeq(FallbackChains[market], LAMBDA l : l \in up)
    IN  IF usable = <<>> THEN {} ELSE {Head(usable)}

(* get_loader_cls_with_fallback: the source itself, or what some market of *)
(* its class resolves to.  A Python set of strings has no fixed order, so  *)
(* any of its markets may be the first one tried.                          *)
WithFallback(source, up) ==
    IF source \in up THEN {source}
    ELSE IF source = "local" THEN {}
    ELSE UNION {ResolveLoader(m, up) : m \in LoaderRegistry[source].markets}
=============================================================================

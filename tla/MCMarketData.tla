---------------------------- MODULE MCMarketData ----------------------------
EXTENDS MarketData, TLC
CONSTANTS a, b
MCSetups == {{}, {"local", "ccxt"}, {"tushare", "baostock", "futu"}}
R(e, s, cs, i, end) == [entry |-> e, source |-> s, codes |-> cs, interval |-> i, end |-> end]
MCRequests == a :> {R("tool", "auto", <<"ss", "us">>, "1D", "today"),
                    R("tool", "auto", <<"fut", "slash">>, "1D", "past"), R("tool", "local", <<"file">>, "1D", "past"),
                    R("tool", "futu", <<"hk", "sh">>, "1D", "past"), R("backtest", "auto", <<"sh", "bj">>, "1D", "past"),
                    R("backtest", "sina", <<"us">>, "1H", "past"), R("backtest", "local", <<"sh">>, "1D", "past")}
              @@ b :> {R("tool", "auto", <<"us">>, "1H", "today"), R("tool", "eastmoney", <<"us">>, "1D", "past")}
=============================================================================

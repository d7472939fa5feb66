---------------------------- MODULE ResearchTools ----------------------------
(* The read-only research tools that workers and the agent loop call: what    *)
(* each one answers, given its arguments and what the services it asks send.  *)
(*                                                                            *)
(* Every tool validates its arguments, asks one or more services, keeps the   *)
(* rows it can use and answers with a JSON envelope.  An answer is reduced to *)
(* what its envelope says, the services whose rows are in it, and the         *)
(* services (or symbols) whose failure it names; `asked' records the services *)
(* that were asked.  Numbers of rows and their caps are left out.             *)

(* The market of a symbol, the tool's mode or scope, and whether the other    *)
(* arguments (limits, dates, keys of the environment) pass their validation.  *)
Codes == {"", "cn", "hk", "us", "odd"}
Modes == {"default", "other", "unknown"}
Params == [code : Codes, mode : Modes, valid : BOOLEAN]

(* What a request gives: rows with all they need, rows without the fields     *)
(* that identify them, JSON of another shape, or an exception.                *)
Payloads == {"usable", "bare", "shapeless", "raises"}

AnyRow(p) == p \in {"usable", "bare"}
Identified(p) == p = "usable"

(* Refused before anything is asked; asked in vain; answered. *)
Refused == [said |-> "ok_false", asked |-> {}, found |-> {}, noted |-> {}]
Failed(asked) == [Refused EXCEPT !.asked = asked, !.noted = asked]
NotFound(asked) == [Refused EXCEPT !.asked = asked]
Told(asked, found) == [said |-> "ok", asked |-> asked, found |-> found, noted |-> {}]

(* One request whose exception becomes the failure envelope. *)
Fetched(e, net, kept) ==
    IF net[e] = "raises" THEN Failed({e}) ELSE Told({e}, IF kept THEN {e} ELSE {})

(* The same, for a tool that answers an empty result with an error. *)
FetchedSome(e, net, kept) ==
    IF net[e] = "raises" THEN Failed({e})
    ELSE IF kept THEN Told({e}, {e}) ELSE NotFound({e})

(* Two requests in turn: the first one that raises fails the call, and what   *)
(* the other one gave is lost.                                                *)
InTurn(first, second, net, found) ==
    IF net[first] = "raises" THEN Failed({first})
    ELSE IF net[second] = "raises" THEN [Failed({first, second}) EXCEPT !.noted = {second}]
    ELSE Told({first, second}, found)

-----------------------------------------------------------------------------
(* What the process remembers between calls: _US_SECID_CACHE, _TICKER_CACHE   *)
(* and _FAILED_URLS, each reduced to one key.                                 *)
Memos == [secid : {"unknown", "found", "none"},
          tickers : {"unloaded", "loaded", "emptied"},
          url : {"untried", "failed"}]
NoMemo == [secid |-> "unknown", tickers |-> "unloaded", url |-> "untried"]

(* _resolve_us_secid: a failed search is remembered like an unknown ticker. *)
ResolveUsSecid(net, memo) ==
    IF memo.secid # "unknown" THEN memo.secid
    ELSE IF Identified(net["suggest"]) THEN "found" ELSE "none"

(* resolve_secid *)
Resolves(code, net, memo) ==
    code \in {"cn", "hk"} \/ (code = "us" /\ ResolveUsSecid(net, memo) = "found")

(* _ticker_map: an exception is not remembered, a table without rows is. *)
TickerMap(net, memo) ==
    IF memo.tickers # "unloaded" \/ net["tickers"] = "raises" THEN memo.tickers
    ELSE IF Identified(net["tickers"]) THEN "loaded" ELSE "emptied"

(* cik_for *)
CikFor(code, net, memo) == TickerMap(net, memo) = "loaded" /\ code = "us"
CikRaises(net, memo) == TickerMap(net, memo) = "unloaded"

-----------------------------------------------------------------------------
(* get_stock_news: A-share articles by Eastmoney, HK and US by Yahoo. *)
Articles(p) == AnyRow(p)
Matches(p) == AnyRow(p)

RunStock(a, net) ==
    IF a.code = "cn" THEN Fetched("eastmoney", net, Articles(net["eastmoney"]))
    ELSE IF a.code \in {"hk", "us"} THEN Fetched("yahoo", net, Matches(net["yahoo"]))
    ELSE Refused

StockNews(a, net) ==
    IF a.mode = "unknown" THEN Refused
    ELSE IF a.mode = "other" THEN Fetched("eastmoney", net, Articles(net["eastmoney"]))
    ELSE RunStock(a, net)

(* get_sector_info: a board without code or name is dropped. *)
Boards(p) == Identified(p)

FetchMembership(a, net, memo) ==
    IF ~Resolves(a.code, net, memo) THEN Refused
    ELSE Fetched("eastmoney", net, Boards(net["eastmoney"]))

FetchRanking(net) == Fetched("eastmoney", net, Boards(net["eastmoney"]))

SectorInfo(a, net, memo) ==
    IF a.mode = "unknown" THEN Refused
    ELSE IF a.mode = "other" THEN IF a.valid THEN FetchRanking(net) ELSE Refused
    ELSE FetchMembership(a, net, memo)

(* get_macro_series (FRED): needs a key and a series; no observation is an    *)
(* error.                                                                     *)
Observations(p) == Identified(p)
FredMacro(a, net) ==
    IF a.valid THEN FetchedSome("fred", net, Observations(net["fred"])) ELSE Refused

(* get_block_trades: A-shares only, after the symbol was resolved; an empty   *)
(* window is an answer.                                                       *)
ResolveCode(a, net, memo) == Resolves(a.code, net, memo) /\ a.code = "cn"
Deals(p) == AnyRow(p)
BlockTrades(a, net, memo) ==
    IF ~ResolveCode(a, net, memo) THEN Refused
    ELSE Fetched("eastmoney", net, Deals(net["eastmoney"]))

(* get_dragon_tiger: the day's board and, for one symbol, its seats; either   *)
(* request's exception fails the whole call.                                  *)
ReportRows(p) == AnyRow(p)
Collect(a, net) ==
    IF a.code = "" THEN Fetched("eastmoney", net, ReportRows(net["eastmoney"]))
    ELSE InTurn("eastmoney", "seats", net, {e \in {"eastmoney", "seats"} : ReportRows(net[e])})
DragonTiger(a, net) == IF a.valid THEN Collect(a, net) ELSE Refused

(* get_lockup_expiry: one six-digit code, or the market's calendar. *)
NormalizeLockupCode(a) == a.code = "cn"
Lockups(p) == Identified(p)
FetchLockups(net) == Fetched("eastmoney", net, Lockups(net["eastmoney"]))
GetLockupExpiry(a, net) ==
    IF a.code = "" \/ NormalizeLockupCode(a) THEN FetchLockups(net) ELSE Refused

(* get_northbound_flow: realtime and history, both or nothing. *)
Realtime(p) == Identified(p)
History(p) == AnyRow(p)
NorthboundFlow(net) ==
    InTurn("eastmoney", "history", net, {e \in {"eastmoney"} : Realtime(net[e])} \cup
                                        {e \in {"history"} : History(net[e])})

(* Mutant: a symbol whose request fails has no rows, and no error. *)
FetchSymbolFlowSilent(code, e, net, memo) ==
    IF ~Resolves(code, net, memo) THEN [Told({}, {}) EXCEPT !.noted = {e}]
    ELSE Told({e}, IF Identified(net[e]) THEN {e} ELSE {})

(* _fetch_symbol_flow never raises: each symbol has rows or its own error.    *)
FetchSymbolFlow(code, e, net, memo) ==
    IF ~Resolves(code, net, memo) THEN [Told({}, {}) EXCEPT !.noted = {e}]
    ELSE IF net[e] = "raises" THEN [Told({e}, {}) EXCEPT !.noted = {e}]
    ELSE Told({e}, IF Identified(net[e]) THEN {e} ELSE {})

(* get_fund_flow, for the symbol of the call and an A-share beside it. *)
FundFlow(a, net, memo) ==
    LET one == FetchSymbolFlow(a.code, "eastmoney", net, memo)
        two == FetchSymbolFlow("cn", "flow2", net, memo) IN
    IF a.code = "" \/ a.mode = "unknown" \/ ~a.valid THEN Refused
    ELSE [said |-> "ok", asked |-> one.asked \cup two.asked,
          found |-> one.found \cup two.found, noted |-> one.noted \cup two.noted]

(* get_financial_statements *)
Periods(p) == AnyRow(p)
FetchEastmoneyStatement(a, net) == Fetched("eastmoney", net, Periods(net["eastmoney"]))

Facts(p) == Identified(p)
FetchSecStatement(a, net, memo) ==
    IF CikRaises(net, memo) THEN Failed({"tickers"})
    ELSE IF ~CikFor(a.code, net, memo) THEN NotFound({"tickers"})
    ELSE Fetched("facts", net, Facts(net["facts"]))

FinancialStatements(a, net, memo) ==
    IF a.mode = "unknown" \/ ~a.valid \/ a.code \in {"", "odd"} THEN Refused
    ELSE IF a.code = "us" THEN FetchSecStatement(a, net, memo)
    ELSE FetchEastmoneyStatement(a, net)

(* search_symbol: the sources are independent, each one's failure is listed;  *)
(* SEC is asked only when a US candidate was found.                           *)
EastmoneyCandidates(p) == Identified(p)
YahooCandidates(p) == Identified(p)
Candidates(net) ==
    {e \in {"eastmoney"} : EastmoneyCandidates(net[e])} \cup
    {e \in {"yahoo"} : YahooCandidates(net[e])}

EnrichUsCik(a, net, memo) ==
    {e \in {"tickers"} : a.code = "us" /\ Candidates(net) # {} /\ memo.tickers = "unloaded"}

SymbolSearch(a, net, memo) ==
    LET asked == {"eastmoney", "yahoo"} \cup EnrichUsCik(a, net, memo) IN
    IF ~a.valid THEN Refused
    ELSE [Told(asked, Candidates(net)) EXCEPT !.noted = {e \in asked : net[e] = "raises"}]

(* get_research_reports: the consensus is best effort, the reports are not. *)
Reports(p) == Identified(p)
ConsensusEps(p) == Identified(p)
ResearchReports(a, net) ==
    LET asked == {"eastmoney", "ths"}
        found == {e \in {"eastmoney"} : Reports(net[e])} \cup
                 {e \in {"ths"} : ConsensusEps(net[e])} IN
    IF a.code # "cn" THEN Refused
    ELSE IF net["eastmoney"] = "raises" THEN Failed({"eastmoney"})
    ELSE IF found = {} THEN NotFound(asked) ELSE Told(asked, found)

(* get_stock_profile and get_options_chain: Yahoo with a crumb, which is      *)
(* fetched anew once; "bare" is its 401 answer.                               *)
Crumbed(net) == IF net["yahoo"] = "bare" THEN net["again"] ELSE net["yahoo"]
WithCrumb(net, kept) ==
    IF Crumbed(net) \in {"raises", "bare"} THEN Failed({"yahoo"})
    ELSE Told({"yahoo"}, IF kept THEN {"yahoo"} ELSE {})

ResolveSections(a) == a.mode # "unknown"
Sections(p) == Identified(p)
StockProfile(a, net) ==
    IF a.code = "" \/ ~ResolveSections(a) THEN Refused
    ELSE WithCrumb(net, Sections(Crumbed(net)))

CoerceExpiration(a) == a.valid
Contracts(p) == Identified(p)
OptionsChain(a, net) ==
    IF a.code = "" \/ ~CoerceExpiration(a) THEN Refused
    ELSE WithCrumb(net, Contracts(Crumbed(net)))

(* get_sec_filings: the filings are lost when the metric asked for beside     *)
(* them cannot be fetched.                                                    *)
Filings(p) == AnyRow(p)
Metric(p) == Identified(p)
SecFilings(a, net, memo) ==
    IF a.code = "" THEN Refused
    ELSE IF CikRaises(net, memo) THEN Failed({"tickers"})
    ELSE IF ~CikFor(a.code, net, memo) THEN NotFound({"tickers"})
    ELSE IF a.mode # "other" THEN Fetched("filings", net, Filings(net["filings"]))
    ELSE InTurn("filings", "facts", net, {e \in {"filings"} : Filings(net[e])} \cup
                                         {e \in {"facts"} : Metric(net[e])})

(* iwencai_search, screen_market, get_shareholder_count, get_margin_trading *)
WencaiRows(p) == AnyRow(p)
IWenCaiSearch(a, net) ==
    IF a.valid THEN Fetched("wencai", net, WencaiRows(net["wencai"])) ELSE Refused

ScreenedRows(p) == Identified(p)
MarketScreener(a, net) ==
    IF a.mode = "unknown" \/ ~a.valid THEN Refused
    ELSE Fetched("eastmoney", net, ScreenedRows(net["eastmoney"]))

HolderPeriods(p) == Identified(p)
ShareholderCount(a, net) ==
    IF a.code # "cn" THEN Refused
    ELSE FetchedSome("eastmoney", net, HolderPeriods(net["eastmoney"]))

ExtractCode(a) == a.code = "cn"
MarginTrading(a, net) ==
    IF ExtractCode(a) THEN FetchedSome("eastmoney", net, AnyRow(net["eastmoney"])) ELSE Refused

-----------------------------------------------------------------------------
(* The tools below name the outcome in "status" instead of "ok". *)
Errs(told) == IF told.said = "ok_false" THEN [told EXCEPT !.said = "error"] ELSE told

(* web_search: Aliyun if it has a key and finds something; then the engines,  *)
(* whose "no results" ends the search; after their failure the two fallbacks  *)
(* in turn, unless they are switched off.  The pages of the fallbacks are     *)
(* parsed for a title and an address, Aliyun's items are taken as they are.   *)
AliyunItems(p) == AnyRow(p)
SogouItems(p) == Identified(p)
BingItems(p) == Identified(p)
EngineAnswers(p) == p # "raises"

SearchFallbacks(a, net, asked) ==
    IF a.mode # "default" THEN Failed(asked)
    ELSE IF SogouItems(net["sogou"]) THEN Told(asked \cup {"sogou"}, {"sogou"})
    ELSE IF BingItems(net["bing"]) THEN Told(asked \cup {"sogou", "bing"}, {"bing"})
    ELSE Failed(asked \cup {"sogou", "bing"})

WebSearch(a, net) ==
    LET keyed == {e \in {"aliyun"} : a.valid} IN
    IF a.valid /\ AliyunItems(net["aliyun"]) THEN Told(keyed, keyed)
    ELSE IF EngineAnswers(net["engines"])
         THEN Told(keyed \cup {"engines"}, {e \in {"engines"} : AnyRow(net[e])})
    ELSE Errs(SearchFallbacks(a, net, keyed \cup {"engines"}))

(* read_url: an address that failed once is not fetched again; any answer but *)
(* 200 ("bare") is a failure.                                                 *)
UrlAllowed(a) == a.code # "odd"
ReadUrl(a, net, memo) ==
    IF ~UrlAllowed(a) \/ memo.url = "failed" THEN Errs(Refused)
    ELSE IF net["reader"] \in {"raises", "bare"} THEN Errs(Failed({"reader"}))
    ELSE Told({"reader"}, {"reader"})

(* read_document: outside the allowed roots or absent ("odd"), then by its    *)
(* format: one that needs a package that is missing ("bare") is an error, a   *)
(* picture without text ("shapeless") is not.                                 *)
ReadByFormat(net) ==
    IF net["file"] \in {"raises", "bare"} THEN Errs(Failed({"file"}))
    ELSE Told({"file"}, {e \in {"file"} : net[e] = "usable"})
ReadDocument(a, net) == IF a.code = "odd" THEN Errs(Refused) ELSE ReadByFormat(net)

-----------------------------------------------------------------------------
(* The services a tool may ask. *)
Uses == [get_stock_news |-> {"eastmoney", "yahoo"}, get_sector_info |-> {"suggest", "eastmoney"},
         get_macro_series |-> {"fred"}, get_block_trades |-> {"suggest", "eastmoney"},
         get_dragon_tiger |-> {"eastmoney", "seats"}, get_lockup_expiry |-> {"eastmoney"},
         get_northbound_flow |-> {"eastmoney", "history"},
         get_fund_flow |-> {"suggest", "eastmoney", "flow2"},
         get_financial_statements |-> {"tickers", "eastmoney", "facts"},
         search_symbol |-> {"eastmoney", "yahoo", "tickers"},
         get_research_reports |-> {"eastmoney", "ths"}, get_stock_profile |-> {"yahoo", "again"},
         get_options_chain |-> {"yahoo", "again"},
         get_sec_filings |-> {"tickers", "filings", "facts"}, iwencai_search |-> {"wencai"},
         screen_market |-> {"eastmoney"}, get_shareholder_count |-> {"eastmoney"},
         get_margin_trading |-> {"eastmoney"},
         web_search |-> {"aliyun", "engines", "sogou", "bing"}, read_url |-> {"reader"},
         read_document |-> {"file"}]

Tools == DOMAIN Uses

(* BaseTool.execute of the tool called. *)
Execute(tool, a, net, memo) ==
    CASE tool = "get_stock_news" -> StockNews(a, net)
      [] tool = "get_sector_info" -> SectorInfo(a, net, memo)
      [] tool = "get_macro_series" -> FredMacro(a, net)
      [] tool = "get_block_trades" -> BlockTrades(a, net, memo)
      [] tool = "get_dragon_tiger" -> DragonTiger(a, net)
      [] tool = "get_lockup_expiry" -> GetLockupExpiry(a, net)
      [] tool = "get_northbound_flow" -> NorthboundFlow(net)
      [] tool = "get_fund_flow" -> FundFlow(a, net, memo)
      [] tool = "get_financial_statements" -> FinancialStatements(a, net, memo)
      [] tool = "search_symbol" -> SymbolSearch(a, net, memo)
      [] tool = "get_research_reports" -> ResearchReports(a, net)
      [] tool = "get_stock_profile" -> StockProfile(a, net)
      [] tool = "get_options_chain" -> OptionsChain(a, net)
      [] tool = "get_sec_filings" -> SecFilings(a, net, memo)
      [] tool = "iwencai_search" -> IWenCaiSearch(a, net)
      [] tool = "screen_market" -> MarketScreener(a, net)
      [] tool = "get_shareholder_count" -> ShareholderCount(a, net)
      [] tool = "get_margin_trading" -> MarginTrading(a, net)
      [] tool = "web_search" -> WebSearch(a, net)
      [] tool = "read_url" -> ReadUrl(a, net, memo)
      [] tool = "read_document" -> ReadDocument(a, net)

(* What the call leaves in the process's memory. *)
Remembered(tool, a, net, memo) ==
    LET told == Execute(tool, a, net, memo) IN
    [secid |-> IF a.code = "us" /\ "suggest" \in Uses[tool] /\
                  (tool = "get_sector_info" => a.mode = "default") /\
                  (tool = "get_fund_flow" => a.mode # "unknown" /\ a.valid)
               THEN ResolveUsSecid(net, memo) ELSE memo.secid,
     tickers |-> IF {"tickers", "filings", "facts"} \cap told.asked # {}
                 THEN TickerMap(net, memo) ELSE memo.tickers,
     url |-> IF tool = "read_url" /\ "reader" \in told.noted THEN "failed" ELSE memo.url]
=============================================================================
